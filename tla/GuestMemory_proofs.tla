-------------------------- MODULE GuestMemory_proofs --------------------------
(***************************************************************************)
(* Theorems about GuestMemory for every value of its constants, and about  *)
(* the search loop of its allocate(): it finds the lowest fit, and it      *)
(* needs at most one iteration per live reservation.                       *)
(***************************************************************************)
EXTENDS AllocateSearch, TLAPS, NaturalLemmas

-----------------------------------------------------------------------------
(* The table *)

\* slot(): a token that passes TokenCheck names a live slot of the ledger.
LEMMA SlotOfToken ==
  ASSUME NEW l \in Ledgers, NEW token, TokenCheck(l, token) = "Ok"
  PROVE  /\ SlotOf(l, token) \in Slots
         /\ Record(l, token) = reservations[l][SlotOf(l, token)]
         /\ Record(l, token) # None
         /\ Record(l, token) \in LiveRecords(l)
         /\ Record(l, token).token = token
         /\ token.owner = owner[l]
<1>1. token.owner = owner[l] /\ \E r \in LiveRecords(l) : r.token = token
  BY DEF TokenCheck
<1>2. \E i \in Slots : reservations[l][i] # None /\ reservations[l][i].token = token
  BY <1>1 DEF LiveRecords
<1>3. /\ SlotOf(l, token) \in Slots
      /\ reservations[l][SlotOf(l, token)] # None
      /\ reservations[l][SlotOf(l, token)].token = token
  BY <1>2 DEF SlotOf
<1> QED  BY <1>1, <1>3 DEF Record, LiveRecords

\* Every check of reserve_at passed.
LEMMA ReserveCheckPassed ==
  ASSUME TypeOK, NEW l \in Ledgers, NEW address \in Addresses,
         NEW request \in Requests, ReserveCheck(l, address, request) = "Ok"
  PROVE  /\ request.bytes \in Addresses \ {0}
         /\ request.alignment \in Addresses \ {0}
         /\ address % request.alignment = 0
         /\ Inside(Extent(address, request.bytes), aperture[l])
         /\ \A r \in LiveRecords(l) :
              ~ Overlaps(Extent(address, request.bytes), r.extent)
         /\ FreeSlots(l) # {}
         /\ generation[l] # MaxGeneration
<1>1. RequestCheck(request) = "Ok"
  BY DEF ReserveCheck
<1>2. request.bytes \in Addresses /\ request.alignment \in Addresses
  BY RequestAssumption DEF Addresses
<1>3. request.bytes # 0 /\ IsPowerOfTwo(request.alignment)
  BY <1>1 DEF RequestCheck
<1>4. request.alignment # 0
  BY <1>3, <1>2 DEF IsPowerOfTwo
<1> QED  BY <1>1, <1>2, <1>3, <1>4 DEF ReserveCheck, GenerationCheck

-----------------------------------------------------------------------------
(* Type correctness *)

Results == Errors \cup {"Ok"}

\* Whatever a check of the ledger answers is Ok or one of the enum's errors.
LEMMA CheckTypes ==
  ASSUME NEW l \in Ledgers
  PROVE  /\ \A e : NewCheck(e) \in Results
         /\ GenerationCheck(l) \in Results
         /\ \A t : TokenCheck(l, t) \in Results /\ ReleaseCheck(l, t) \in Results
         /\ \A s : StampCheck(l, s) \in Results
         /\ \A q : RequestCheck(q) \in Results
         /\ \A q, a : ReserveCheck(l, a, q) \in Results
         /\ \A q : AllocateCheck(l, q) \in Results
         /\ \A r, o, n : RangeCheck(l, r, o, n) \in Results
         /\ \A t : ReadCheck(l, t) \in Results
         /\ \A t, o, n : CopyCheck(l, t, o, n) \in Results
         /\ \A s, t, n : BindCheck(l, s, t, n) \in Results
         /\ \A tree : CommitCheck(l, tree) \in Results
<1> USE DEF Results, Errors
<1>1. GenerationCheck(l) \in Results
  BY DEF GenerationCheck
<1>2. \A t : TokenCheck(l, t) \in Results
  BY DEF TokenCheck
<1>3. \A s : StampCheck(l, s) \in Results
  BY DEF StampCheck
<1>4. \A q : RequestCheck(q) \in Results
  BY DEF RequestCheck
<1>5. \A q, a : ReserveCheck(l, a, q) \in Results
  BY <1>1, <1>4 DEF ReserveCheck
<1>6. \A q : AllocateCheck(l, q) \in Results
  BY <1>4, <1>5 DEF AllocateCheck
<1>7. \A r, o, n : RangeCheck(l, r, o, n) \in Results
  BY DEF RangeCheck
<1>8. \A t : ReadCheck(l, t) \in Results
  BY <1>2, <1>7 DEF ReadCheck
<1>9. \A t, o, n : CopyCheck(l, t, o, n) \in Results
  BY <1>1, <1>2, <1>7 DEF CopyCheck
<1>10. \A t, n : TreeRangeCheck(l, t, n) \in Results
  BY <1>2, <1>7 DEF TreeRangeCheck
<1>11. \A s, t, n : BindCheck(l, s, t, n) \in Results
  BY <1>3, <1>10 DEF BindCheck
<1>12. \A tree : CommitCheck(l, tree) \in Results
  BY <1>1, <1>11 DEF CommitCheck
<1>13. \A e : NewCheck(e) \in Results
  BY DEF NewCheck
<1>14. \A t : ReleaseCheck(l, t) \in Results
  BY <1>1, <1>2 DEF ReleaseCheck
<1> QED
  BY <1>1, <1>2, <1>3, <1>4, <1>5, <1>6, <1>7, <1>8, <1>9, <1>11, <1>12, <1>13,
     <1>14

\* A rejected call keeps the type.
LEMMA RejectsKeepsType ==
  ASSUME TypeOK, NEW call \in Calls, NEW result \in Results, Rejects(call, result)
  PROVE  TypeOK'
BY DEF TypeOK, Rejects, Returns, ledgerVars, callerVars, Results

\* Advancing a generation that is not the last one keeps it in its word.
LEMMA AdvanceKeepsType ==
  ASSUME TypeOK, NEW l \in Ledgers, generation[l] # MaxGeneration, Advance(l)
  PROVE  /\ generation' \in [Ledgers -> Generations]
         /\ generation[l] + 1 \in Generations
         /\ generation'[l] = generation[l] + 1
         /\ \A m \in Ledgers \ {l} : generation'[m] = generation[m]
<1>1. generation \in [Ledgers -> 0 .. MaxGeneration]
  BY DEF TypeOK, Generations
<1>2. generation[l] \in 0 .. MaxGeneration /\ generation[l] + 1 \in 0 .. MaxGeneration
  BY <1>1, LedgerAssumption
<1> QED  BY <1>1, <1>2 DEF Advance, Generations

\* A payload write keeps the type of the backings.
LEMMA OverwriteKeepsType ==
  ASSUME TypeOK, NEW l \in Ledgers, NEW range, NEW byte \in Bytes,
         Overwrite(l, range, byte)
  PROVE  ram' \in [Ledgers -> [Offsets -> Bytes]]
BY DEF TypeOK, Overwrite

\* What reserve_at writes is a reservation record in one slot of the table.
LEMMA InsertKeepsType ==
  ASSUME TypeOK, NEW l \in Ledgers, NEW address \in Addresses,
         NEW request \in Requests, NEW purpose \in Purposes,
         ReserveCheck(l, address, request) = "Ok",
         Insert(l, address, request, purpose),
         NEW call \in Calls, Returns(call, "Ok")
  PROVE  TypeOK'
<1> DEFINE record == [token     |-> NextToken(l),
                      extent    |-> Extent(address, request.bytes),
                      alignment |-> request.alignment,
                      purpose   |-> purpose]
<1>1. /\ request.bytes \in Addresses \ {0}
      /\ request.alignment \in Addresses \ {0}
      /\ generation[l] # MaxGeneration
  BY ReserveCheckPassed
<1>2. /\ generation' \in [Ledgers -> Generations]
      /\ generation[l] + 1 \in Generations
  BY <1>1, AdvanceKeepsType DEF Insert
<1>3. NextToken(l) \in [owner : Identities, serial : Generations]
  BY <1>2 DEF TypeOK, NextToken
<1>4. record \in ReservationRecords
  BY <1>1, <1>3, RequestAssumption DEF ReservationRecords, Extent
<1>5. reservations' \in [Ledgers -> [Slots -> ReservationRecords \cup {None}]]
  <2>1. PICK slot \in LowestFree(l) :
          reservations' = [reservations EXCEPT ![l][slot] = record]
    BY DEF Insert
  <2>2. slot \in Slots
    BY DEF LowestFree, FreeSlots
  <2> QED  BY <1>4, <2>1, <2>2 DEF TypeOK
<1>6. issued' \subseteq ReservationRecords
  BY <1>4 DEF Insert, TypeOK
<1> QED
  BY <1>2, <1>5, <1>6 DEF TypeOK, Insert, Returns

\* Each step keeps the type.
LEMMA NextKeepsType ==
  ASSUME TypeOK, [Next]_vars
  PROVE  TypeOK'
<1> DEFINE Trees == [stamp       : Stamps,
                     destination : [owner : Identities, serial : Generations],
                     bytes       : Addresses,
                     byte        : Bytes,
                     seen        : States]
<1>0. \A token \in Tokens : token \in [owner : Identities, serial : Generations]
  BY DEF TypeOK, Tokens, ReservationRecords
<1>1. ASSUME NEW l \in Ledgers, NEW extent \in Apertures, New(l, extent)
      PROVE  TypeOK'
  <2>1. CASE Rejects("new", NewCheck(extent))
    BY <2>1, CheckTypes, RejectsKeepsType DEF Calls
  <2>2. CASE ~ Rejects("new", NewCheck(extent))
    <3>1. /\ NewCheck(extent) = "Ok"
          /\ Returns("new", "Ok")
          /\ nextOwner' = nextOwner + 1
          /\ owner' = [owner EXCEPT ![l] = nextOwner]
          /\ aperture' = [aperture EXCEPT ![l] = extent]
          /\ generation' = [generation EXCEPT ![l] = 0]
          /\ reservations' = [reservations EXCEPT ![l] = [i \in Slots |-> None]]
          /\ UNCHANGED <<ram, callerVars>>
      BY <1>1, <2>2 DEF New, MintOwner
    <3>2. nextOwner \in 1 .. MaxOwner /\ nextOwner # MaxOwner
      BY <3>1 DEF NewCheck, TypeOK
    <3>3. nextOwner' \in 1 .. MaxOwner /\ nextOwner \in Identities
      BY <3>1, <3>2, LedgerAssumption DEF Identities
    <3>4. extent \in [address : Addresses, bytes : 0 .. Capacity]
      BY RequestAssumption DEF Addresses
    <3>5. 0 \in Generations
      BY LedgerAssumption DEF Generations
    <3> QED
      BY <3>1, <3>3, <3>4, <3>5 DEF TypeOK, Returns, callerVars, Calls
  <2> QED  BY <2>1, <2>2
<1>2. ASSUME NEW l \in Ledgers, Drop(l)
      PROVE  TypeOK'
  <2>1. 0 \in Identities
    BY LedgerAssumption DEF Identities
  <2> QED  BY <1>2, <2>1 DEF TypeOK, Drop, Returns, callerVars, Calls
<1>3. ASSUME NEW l \in Ledgers, Snapshot(l)
      PROVE  TypeOK'
  <2>1. [stamp |-> Stamp(l), seen |-> State(l)] \in [stamp : Stamps, seen : States]
    BY DEF TypeOK, Stamp, State, Stamps, States
  <2>2. snapshots' \subseteq [stamp : Stamps, seen : States]
    BY <1>3, <2>1 DEF TypeOK, Snapshot
  <2> QED  BY <1>3, <2>2 DEF TypeOK, Snapshot, Returns, ledgerVars, Calls
<1>4. ASSUME NEW l \in Ledgers, NEW request \in Requests, NEW purpose \in Purposes,
             NEW address \in Addresses, ReserveAt(l, address, request, purpose)
      PROVE  TypeOK'
  <2>1. CASE Rejects("reserve_at", ReserveCheck(l, address, request))
    BY <2>1, CheckTypes, RejectsKeepsType DEF Calls
  <2>2. CASE ~ Rejects("reserve_at", ReserveCheck(l, address, request))
    BY <1>4, <2>2, InsertKeepsType DEF ReserveAt, Calls
  <2> QED  BY <2>1, <2>2
<1>5. ASSUME NEW l \in Ledgers, NEW request \in Requests, NEW purpose \in Purposes,
             Allocate(l, request, purpose)
      PROVE  TypeOK'
  <2>1. CASE Rejects("allocate", AllocateCheck(l, request))
    BY <2>1, CheckTypes, RejectsKeepsType DEF Calls
  <2>2. CASE ~ Rejects("allocate", AllocateCheck(l, request))
    <3>1. PICK address \in Addresses :
            /\ address = Search(l, request).address
            /\ Insert(l, address, request, purpose)
      BY <1>5, <2>2 DEF Allocate
    <3>2. AllocateCheck(l, request) = "Ok" /\ Returns("allocate", "Ok")
      BY <1>5, <2>2 DEF Allocate
    <3>3. ReserveCheck(l, address, request) = "Ok"
      BY <3>1, <3>2 DEF AllocateCheck
    <3> QED  BY <3>1, <3>2, <3>3, InsertKeepsType DEF Calls
  <2> QED  BY <2>1, <2>2
<1>6. ASSUME NEW l \in Ledgers, NEW token \in Tokens, Release(l, token)
      PROVE  TypeOK'
  <2>1. CASE Rejects("release", ReleaseCheck(l, token))
    BY <2>1, CheckTypes, RejectsKeepsType DEF Calls
  <2>2. CASE ~ Rejects("release", ReleaseCheck(l, token))
    <3>1. /\ ReleaseCheck(l, token) = "Ok"
          /\ Returns("release", "Ok")
          /\ reservations' = [reservations EXCEPT ![l][SlotOf(l, token)] = None]
          /\ Advance(l)
          /\ UNCHANGED <<nextOwner, owner, aperture, ram, callerVars>>
      BY <1>6, <2>2 DEF Release
    <3>2. TokenCheck(l, token) = "Ok" /\ generation[l] # MaxGeneration
      BY <3>1 DEF ReleaseCheck, GenerationCheck
    <3>3. SlotOf(l, token) \in Slots
      BY <3>2, SlotOfToken
    <3>4. reservations' \in [Ledgers -> [Slots -> ReservationRecords \cup {None}]]
      BY <3>1, <3>3 DEF TypeOK
    <3>5. generation' \in [Ledgers -> Generations]
      BY <3>1, <3>2, AdvanceKeepsType
    <3> QED  BY <3>1, <3>4, <3>5 DEF TypeOK, Returns, callerVars, Calls
  <2> QED  BY <2>1, <2>2
<1>7. ASSUME NEW l \in Ledgers, NEW token \in Tokens, Read(l, token)
      PROVE  TypeOK'
  BY <1>7, CheckTypes
     DEF TypeOK, Read, Returns, ledgerVars, callerVars, Calls, Results
<1>8. ASSUME NEW l \in Ledgers, NEW token \in Tokens, NEW copy \in Copies,
             NEW byte \in Bytes, CopyInto(l, token, copy, byte)
      PROVE  TypeOK'
  <2> DEFINE check == CopyCheck(l, token, copy.offset, copy.bytes)
  <2>1. CASE Rejects("copy_into", check)
    <3>1. check \in Results
      BY CheckTypes
    <3> QED  BY <2>1, <3>1, RejectsKeepsType DEF Calls
  <2>2. CASE ~ Rejects("copy_into", check)
    <3>1. /\ check = "Ok"
          /\ Returns("copy_into", "Ok")
          /\ Overwrite(l, HostRange(l, Record(l, token), copy.offset, copy.bytes),
                       byte)
          /\ Advance(l)
          /\ UNCHANGED <<nextOwner, owner, aperture, reservations, callerVars>>
      BY <1>8, <2>2 DEF CopyInto
    <3>2. generation[l] # MaxGeneration
      BY <3>1 DEF CopyCheck, GenerationCheck
    <3>3. generation' \in [Ledgers -> Generations]
      BY <3>1, <3>2, AdvanceKeepsType
    <3>4. ram' \in [Ledgers -> [Offsets -> Bytes]]
      BY <3>1, OverwriteKeepsType
    <3> QED  BY <3>1, <3>3, <3>4 DEF TypeOK, Returns, callerVars, Calls
  <2> QED  BY <2>1, <2>2
<1>9. ASSUME NEW l \in Ledgers, NEW token \in Tokens, NEW snapshot \in snapshots,
             NEW bytes \in TreeSizes, NEW byte \in Bytes,
             BindDeviceTree(l, snapshot, token, bytes, byte)
      PROVE  TypeOK'
  <2> DEFINE check == BindCheck(l, snapshot.stamp, token, bytes)
             tree  == [stamp       |-> snapshot.stamp,
                       destination |-> token,
                       bytes       |-> bytes,
                       byte        |-> byte,
                       seen        |-> snapshot.seen]
  <2>1. CASE Rejects("bind_device_tree", check)
    <3>1. check \in Results
      BY CheckTypes
    <3> QED  BY <2>1, <3>1, RejectsKeepsType DEF Calls
  <2>2. CASE ~ Rejects("bind_device_tree", check)
    <3>1. /\ Returns("bind_device_tree", "Ok")
          /\ \E kept \in SUBSET prepared : prepared' = kept \cup {tree}
          /\ UNCHANGED <<nextOwner, ledgerVars, issued, snapshots>>
      BY <1>9, <2>2 DEF BindDeviceTree
    <3>2. snapshot.stamp \in Stamps /\ snapshot.seen \in States
      BY DEF TypeOK
    <3>3. bytes \in Addresses
      BY RequestAssumption DEF Addresses
    <3>4. tree \in Trees
      BY <1>0, <3>2, <3>3
    <3>5. prepared' \subseteq Trees
      BY <3>1, <3>4 DEF TypeOK
    <3> QED  BY <3>1, <3>5 DEF TypeOK, Returns, ledgerVars, Calls
  <2> QED  BY <2>1, <2>2
<1>10. ASSUME NEW l \in Ledgers, NEW tree \in prepared, CommitDeviceTree(l, tree)
       PROVE  TypeOK'
  <2>1. /\ Returns("commit_device_tree", CommitCheck(l, tree))
        /\ prepared' = prepared \ {tree}
        /\ UNCHANGED <<nextOwner, issued, snapshots>>
    BY <1>10 DEF CommitDeviceTree
  <2>2. CommitCheck(l, tree) \in Results
    BY CheckTypes
  <2>3. CASE CommitCheck(l, tree) # "Ok"
    BY <1>10, <2>1, <2>2, <2>3
       DEF CommitDeviceTree, TypeOK, Returns, ledgerVars, Calls, Results
  <2>4. CASE CommitCheck(l, tree) = "Ok"
    <3>1. /\ Overwrite(l, HostRange(l, Record(l, tree.destination), 0, tree.bytes),
                       tree.byte)
          /\ Advance(l)
          /\ UNCHANGED <<owner, aperture, reservations>>
      BY <1>10, <2>4 DEF CommitDeviceTree
    <3>2. generation[l] # MaxGeneration
      BY <2>4 DEF CommitCheck, GenerationCheck
    <3>3. generation' \in [Ledgers -> Generations]
      BY <3>1, <3>2, AdvanceKeepsType
    <3>4. tree.byte \in Bytes
      BY DEF TypeOK
    <3>5. ram' \in [Ledgers -> [Offsets -> Bytes]]
      BY <3>1, <3>4, OverwriteKeepsType
    <3>6. prepared' \subseteq Trees
      BY <2>1 DEF TypeOK
    <3> QED
      BY <2>1, <2>2, <3>1, <3>3, <3>5, <3>6 DEF TypeOK, Returns, Calls, Results
  <2> QED  BY <2>3, <2>4
<1>11. ASSUME NEW l \in Ledgers, WithGuestMemory(l)
       PROVE  TypeOK'
  <2>1. CASE Rejects("with_guest_memory", GenerationCheck(l))
    BY <2>1, CheckTypes, RejectsKeepsType DEF Calls
  <2>2. CASE ~ Rejects("with_guest_memory", GenerationCheck(l))
    <3>1. /\ GenerationCheck(l) = "Ok"
          /\ Returns("with_guest_memory", "Ok")
          /\ Advance(l)
          /\ UNCHANGED <<nextOwner, owner, aperture, reservations, callerVars>>
      BY <1>11, <2>2 DEF WithGuestMemory
    <3>2. PICK bytes \in [HostBytes(l) -> Bytes] :
             ram' = [ram EXCEPT ![l] =
                       [o \in Offsets |-> IF o \in HostBytes(l)
                                             THEN bytes[o] ELSE ram[l][o]]]
      BY <1>11, <2>2 DEF WithGuestMemory
    <3>3. ram' \in [Ledgers -> [Offsets -> Bytes]]
      BY <3>2 DEF TypeOK
    <3>4. generation' \in [Ledgers -> Generations]
      BY <3>1, AdvanceKeepsType DEF GenerationCheck
    <3> QED  BY <3>1, <3>3, <3>4 DEF TypeOK, Returns, callerVars, Calls
  <2> QED  BY <2>1, <2>2
<1>12. CASE UNCHANGED vars
  BY <1>12 DEF TypeOK, vars, ledgerVars, callerVars
<1> QED
  BY <1>1, <1>2, <1>3, <1>4, <1>5, <1>6, <1>7, <1>8, <1>9, <1>10, <1>11, <1>12
     DEF Next, Call

\* The first state has the type.
LEMMA InitTypeOK ==
  ASSUME Init
  PROVE  TypeOK
<1>1. 0 \in Generations /\ 0 \in Identities /\ 1 \in 1 .. MaxOwner
  BY LedgerAssumption DEF Generations, Identities
<1>2. Extent(0, 0) \in [address : Addresses, bytes : 0 .. Capacity]
  BY LedgerAssumption DEF Extent, Addresses
<1> QED
  BY <1>1, <1>2, LedgerAssumption DEF Init, TypeOK, Calls

\* TypeOK holds of every reachable state: no counter of the ledger ever leaves
\* its word and the table never holds anything but records of reservations.
THEOREM TypeCorrect == Spec => []TypeOK
<1>1. Init => TypeOK
  BY InitTypeOK
<1>2. TypeOK /\ [Next]_vars => TypeOK'
  BY NextKeepsType
<1> QED  BY <1>1, <1>2, PTL DEF Spec

-----------------------------------------------------------------------------
(* The inductive invariant *)

IInv == /\ TypeOK
        /\ ReservationsDisjoint
        /\ TokensNeverReused
        /\ CountersAhead
        /\ SeenWhileCurrent

\* A step in which a ledger that stays open either advances its generation or
\* keeps table and bytes, and in which nobody gets a new stamp.
LEMMA SeenStep ==
  ASSUME IInv, TypeOK',
         nextOwner <= nextOwner',
         \A s \in snapshots' \cup prepared' :
           \E t \in snapshots \cup prepared : s.stamp = t.stamp /\ s.seen = t.seen,
         \A m \in Ledgers : owner'[m] # 0 =>
           /\ owner'[m] = owner[m]
           /\ \/ generation'[m] > generation[m]
              \/ generation'[m] = generation[m] /\ State(m)' = State(m)
  PROVE  SeenWhileCurrent'
<1> SUFFICES ASSUME NEW s \in snapshots' \cup prepared'
             PROVE  /\ s.stamp.owner < nextOwner'
                    /\ \A l \in Ledgers : (Open(l)' /\ s.stamp.owner = owner'[l]) =>
                         /\ s.stamp.generation <= generation'[l]
                         /\ s.stamp.generation = generation'[l] => s.seen = State(l)'
  BY DEF SeenWhileCurrent
<1>1. PICK t \in snapshots \cup prepared : s.stamp = t.stamp /\ s.seen = t.seen
  OBVIOUS
<1>2. t.stamp \in Stamps
  BY DEF IInv, TypeOK
<1>3. nextOwner \in Int /\ nextOwner' \in Int
  BY DEF IInv, TypeOK
<1>4. t.stamp.owner < nextOwner
  BY DEF IInv, SeenWhileCurrent
<1>5. t.stamp.owner \in Int /\ t.stamp.generation \in Int
  BY <1>2 DEF Stamps, Identities, Generations
<1>6. s.stamp.owner < nextOwner'
  BY <1>1, <1>3, <1>4, <1>5
<1>7. ASSUME NEW l \in Ledgers, Open(l)', s.stamp.owner = owner'[l]
      PROVE  /\ s.stamp.generation <= generation'[l]
             /\ s.stamp.generation = generation'[l] => s.seen = State(l)'
  <2>1. Open(l) /\ owner[l] = owner'[l]
    BY <1>7 DEF Open
  <2>2. /\ t.stamp.generation <= generation[l]
        /\ t.stamp.generation = generation[l] => t.seen = State(l)
    BY <1>1, <1>7, <2>1 DEF IInv, SeenWhileCurrent
  <2>3. \/ generation'[l] > generation[l]
        \/ generation'[l] = generation[l] /\ State(l)' = State(l)
    BY <1>7 DEF Open
  <2>4. generation[l] \in Int /\ generation'[l] \in Int
    BY DEF IInv, TypeOK, Generations
  <2> QED  BY <1>1, <1>5, <2>2, <2>3, <2>4
<1> QED  BY <1>6, <1>7

\* A step that leaves every table and every issued token alone.
LEMMA TableStep ==
  ASSUME IInv, TypeOK',
         UNCHANGED <<nextOwner, owner, aperture, reservations, issued>>,
         \A m \in Ledgers : generation'[m] >= generation[m]
  PROVE  ReservationsDisjoint' /\ TokensNeverReused' /\ CountersAhead'
<1>1. ReservationsDisjoint'
  BY DEF IInv, ReservationsDisjoint, Open, LiveRecords
<1>2. TokensNeverReused'
  BY DEF IInv, TokensNeverReused, Open, LiveRecords
<1>3. CountersAhead'
  <2>1. \A m \in Ledgers : generation[m] \in Int /\ generation'[m] \in Int
    BY DEF IInv, TypeOK, Generations
  <2>2. \A r \in issued : r.token.serial \in Int
    BY DEF IInv, TypeOK, ReservationRecords, Generations
  <2> QED  BY <2>1, <2>2 DEF IInv, CountersAhead
<1> QED  BY <1>1, <1>2, <1>3

\* A step that leaves ledgers and issued tokens alone and hands out no stamp.
LEMMA QuietStep ==
  ASSUME IInv, TypeOK', UNCHANGED <<nextOwner, ledgerVars, issued>>,
         \A s \in snapshots' \cup prepared' :
           \E t \in snapshots \cup prepared : s.stamp = t.stamp /\ s.seen = t.seen
  PROVE  IInv'
<1>1. \A m \in Ledgers : generation[m] \in Int
  BY DEF IInv, TypeOK, Generations
<1>2. nextOwner \in Int
  BY DEF IInv, TypeOK
<1>3. ReservationsDisjoint' /\ TokensNeverReused' /\ CountersAhead'
  BY <1>1, TableStep DEF ledgerVars
<1>4. SeenWhileCurrent'
  BY <1>1, <1>2, SeenStep DEF ledgerVars, State
<1> QED  BY <1>3, <1>4 DEF IInv

\* copy_into, commit_device_tree and with_guest_memory: bytes of one ledger
\* change together with its generation.
LEMMA WriteStep ==
  ASSUME IInv, TypeOK', NEW l \in Ledgers, generation[l] # MaxGeneration,
         Advance(l), prepared' \subseteq prepared,
         \A m \in Ledgers \ {l} : ram'[m] = ram[m],
         UNCHANGED <<nextOwner, owner, aperture, reservations, issued, snapshots>>
  PROVE  IInv'
<1>1. /\ generation'[l] = generation[l] + 1
      /\ \A m \in Ledgers \ {l} : generation'[m] = generation[m]
  BY AdvanceKeepsType DEF IInv
<1>2. \A m \in Ledgers : generation[m] \in Int
  BY DEF IInv, TypeOK, Generations
<1>3. \A m \in Ledgers : generation'[m] >= generation[m]
  BY <1>1, <1>2
<1>4. ReservationsDisjoint' /\ TokensNeverReused' /\ CountersAhead'
  BY <1>3, TableStep
<1>5. nextOwner <= nextOwner'
  BY DEF IInv, TypeOK
<1>6. \A m \in Ledgers : \/ generation'[m] > generation[m]
                         \/ generation'[m] = generation[m] /\ State(m)' = State(m)
  BY <1>1, <1>2 DEF State
<1>7. SeenWhileCurrent'
  BY <1>5, <1>6, SeenStep
<1> QED  BY <1>4, <1>7 DEF IInv

\* Two extents that the code's test calls apart are apart both ways round.
LEMMA OverlapsSymmetric ==
  ASSUME NEW e, NEW f
  PROVE  Overlaps(e, f) <=> Overlaps(f, e)
BY DEF Overlaps

\* reserve_at and allocate: one new record, clear of all others, under a token
\* whose serial is the new generation.
LEMMA InsertStep ==
  ASSUME IInv, TypeOK', NEW l \in Ledgers, Open(l), NEW address \in Addresses,
         NEW request \in Requests, NEW purpose,
         ReserveCheck(l, address, request) = "Ok",
         Insert(l, address, request, purpose)
  PROVE  IInv'
<1> DEFINE record == [token     |-> NextToken(l),
                      extent    |-> Extent(address, request.bytes),
                      alignment |-> request.alignment,
                      purpose   |-> purpose]
<1>1. /\ address % request.alignment = 0
      /\ Inside(Extent(address, request.bytes), aperture[l])
      /\ \A r \in LiveRecords(l) :
           ~ Overlaps(Extent(address, request.bytes), r.extent)
      /\ generation[l] # MaxGeneration
  BY ReserveCheckPassed DEF IInv
<1>2. PICK slot \in LowestFree(l) :
        reservations' = [reservations EXCEPT ![l][slot] = record]
  BY DEF Insert
<1>3. slot \in Slots /\ reservations[l][slot] = None
  BY DEF LowestFree, FreeSlots
<1>4. /\ Advance(l)
      /\ issued' = issued \cup {record}
      /\ UNCHANGED <<nextOwner, owner, aperture, ram, snapshots, prepared>>
  BY DEF Insert
<1>5. /\ generation'[l] = generation[l] + 1
      /\ \A m \in Ledgers \ {l} : generation'[m] = generation[m]
  BY <1>1, <1>4, AdvanceKeepsType DEF IInv
<1>6. \A m \in Ledgers : generation[m] \in Int
  BY DEF IInv, TypeOK, Generations
<1>7. /\ reservations'[l] = [reservations[l] EXCEPT ![slot] = record]
      /\ \A m \in Ledgers \ {l} : reservations'[m] = reservations[m]
  BY <1>2 DEF IInv, TypeOK
<1>8. /\ reservations'[l][slot] = record
      /\ \A i \in Slots \ {slot} : reservations'[l][i] = reservations[l][i]
  BY <1>3, <1>7 DEF IInv, TypeOK
<1>9. record.token.owner = owner[l] /\ record.token.serial = generation[l] + 1
  BY DEF NextToken
<1>10. /\ LiveRecords(l)' \subseteq LiveRecords(l) \cup {record}
       /\ \A m \in Ledgers \ {l} : LiveRecords(m)' = LiveRecords(m)
  BY <1>7, <1>8 DEF LiveRecords
<1>11. \A i \in Slots \ {slot} : reservations[l][i] # None =>
         reservations[l][i] \in LiveRecords(l)
  BY DEF LiveRecords
<1>12. ReservationsDisjoint'
  <2> SUFFICES ASSUME NEW m \in Ledgers, Open(m)'
               PROVE  /\ \A r \in LiveRecords(m)' :
                           /\ Inside(r.extent, aperture[m])
                           /\ r.extent.address % r.alignment = 0
                      /\ \A i, j \in Slots :
                           (/\ i # j
                            /\ reservations'[m][i] # None
                            /\ reservations'[m][j] # None)
                             => ~ Overlaps(reservations'[m][i].extent,
                                           reservations'[m][j].extent)
    BY <1>4 DEF ReservationsDisjoint
  <2>1. Open(m)
    BY <1>4 DEF Open
  <2>2. CASE m # l
    BY <1>7, <1>10, <2>1, <2>2 DEF IInv, ReservationsDisjoint
  <2>3. CASE m = l
    <3>1. \A r \in LiveRecords(l)' : /\ Inside(r.extent, aperture[l])
                                     /\ r.extent.address % r.alignment = 0
      BY <1>1, <1>10, <2>1, <2>3 DEF IInv, ReservationsDisjoint, Extent
    <3>2. ASSUME NEW i \in Slots, NEW j \in Slots, i # j,
                 reservations'[l][i] # None, reservations'[l][j] # None
          PROVE  ~ Overlaps(reservations'[l][i].extent, reservations'[l][j].extent)
      <4>1. CASE i = slot
        BY <1>1, <1>8, <1>11, <3>2, <4>1
      <4>2. CASE j = slot
        BY <1>1, <1>8, <1>11, <3>2, <4>2, OverlapsSymmetric
      <4>3. CASE i # slot /\ j # slot
        BY <1>8, <2>1, <2>3, <3>2, <4>3 DEF IInv, ReservationsDisjoint
      <4> QED  BY <4>1, <4>2, <4>3
    <3> QED  BY <2>3, <3>1, <3>2
  <2> QED  BY <2>2, <2>3
<1>13. \A r \in issued : r.token # record.token
  <2>1. ASSUME NEW r \in issued, r.token = record.token
        PROVE  FALSE
    <3>1. r.token.serial <= generation[l]
      BY <1>9, <2>1 DEF IInv, CountersAhead
    <3> QED  BY <1>6, <1>9, <2>1, <3>1
  <2> QED  BY <2>1
<1>14. TokensNeverReused'
  <2>1. \A r, s \in issued' : r.token = s.token => r = s
    BY <1>4, <1>13 DEF IInv, TokensNeverReused
  <2>2. ASSUME NEW m \in Ledgers, Open(m)'
        PROVE  /\ LiveRecords(m)' \subseteq {r \in issued' : r.token.owner = owner'[m]}
               /\ \A i, j \in Slots :
                    (/\ i # j
                     /\ reservations'[m][i] # None
                     /\ reservations'[m][j] # None)
                      => reservations'[m][i].token # reservations'[m][j].token
    <3>1. Open(m)
      BY <1>4, <2>2 DEF Open
    <3>2. LiveRecords(m) \subseteq {r \in issued : r.token.owner = owner[m]}
      BY <3>1 DEF IInv, TokensNeverReused
    <3>3. LiveRecords(m)' \subseteq {r \in issued' : r.token.owner = owner'[m]}
      BY <1>4, <1>9, <1>10, <3>2
    <3>4. CASE m # l
      BY <1>7, <3>1, <3>3, <3>4 DEF IInv, TokensNeverReused
    <3>5. CASE m = l
      <4>1. \A i \in Slots \ {slot} :
              reservations[l][i] # None => reservations[l][i].token # record.token
        BY <1>11, <1>13, <3>2, <3>5
      <4>2. ASSUME NEW i \in Slots, NEW j \in Slots, i # j,
                   reservations'[l][i] # None, reservations'[l][j] # None
            PROVE  reservations'[l][i].token # reservations'[l][j].token
        BY <1>8, <3>1, <3>5, <4>1, <4>2 DEF IInv, TokensNeverReused
      <4> QED  BY <3>3, <3>5, <4>2
    <3> QED  BY <3>4, <3>5
  <2>3. \A m, n \in Ledgers : (m # n /\ Open(m)') => owner'[m] # owner'[n]
    BY <1>4 DEF IInv, TokensNeverReused, Open
  <2> QED  BY <2>1, <2>2, <2>3 DEF TokensNeverReused
<1>15. CountersAhead'
  <2>1. \A m \in Ledgers : owner[m] < nextOwner
    BY DEF IInv, CountersAhead
  <2>2. owner[l] \in Identities /\ 0 < owner[l]
    BY DEF IInv, TypeOK, Open, Identities
  <2>3. ASSUME NEW r \in issued', NEW m \in Ledgers, r.token.owner = owner'[m]
        PROVE  r.token.serial <= generation'[m]
    <3>1. CASE r \in issued
      <4>1. r.token.serial <= generation[m]
        BY <1>4, <2>3, <3>1 DEF IInv, CountersAhead
      <4>2. r.token.serial \in Int
        BY <3>1 DEF IInv, TypeOK, ReservationRecords, Generations
      <4> QED  BY <1>5, <1>6, <4>1, <4>2
    <3>2. CASE r = record
      <4>1. owner[m] = owner[l]
        BY <1>4, <1>9, <2>3, <3>2
      <4>2. m = l
        BY <4>1 DEF IInv, TokensNeverReused
      <4> QED  BY <1>5, <1>6, <1>9, <3>2, <4>2
    <3> QED  BY <1>4, <2>3, <3>1, <3>2
  <2>4. \A r \in issued' : 0 < r.token.owner /\ r.token.owner < nextOwner
    BY <1>4, <1>9, <2>1, <2>2 DEF IInv, CountersAhead
  <2> QED  BY <1>4, <2>1, <2>3, <2>4 DEF CountersAhead
<1>16. SeenWhileCurrent'
  <2>1. \A m \in Ledgers : \/ generation'[m] > generation[m]
                           \/ generation'[m] = generation[m] /\ State(m)' = State(m)
    BY <1>4, <1>5, <1>6, <1>7 DEF State
  <2>2. nextOwner <= nextOwner'
    BY <1>4 DEF IInv, TypeOK
  <2> QED  BY <1>4, <2>1, <2>2, SeenStep
<1> QED  BY <1>12, <1>14, <1>15, <1>16 DEF IInv

\* release: one slot of the ledger becomes free.
LEMMA ReleaseStep ==
  ASSUME IInv, TypeOK', NEW l \in Ledgers, NEW slot \in Slots,
         generation[l] # MaxGeneration, Advance(l),
         reservations' = [reservations EXCEPT ![l][slot] = None],
         UNCHANGED <<nextOwner, owner, aperture, ram, callerVars>>
  PROVE  IInv'
<1>1. /\ generation'[l] = generation[l] + 1
      /\ \A m \in Ledgers \ {l} : generation'[m] = generation[m]
  BY AdvanceKeepsType DEF IInv
<1>2. \A m \in Ledgers : generation[m] \in Int
  BY DEF IInv, TypeOK, Generations
<1>3. /\ \A m \in Ledgers, i \in Slots :
           reservations'[m][i] # None => reservations'[m][i] = reservations[m][i]
      /\ \A m \in Ledgers \ {l} : reservations'[m] = reservations[m]
  BY DEF IInv, TypeOK
<1>4. \A m \in Ledgers : LiveRecords(m)' \subseteq LiveRecords(m)
  BY <1>3 DEF LiveRecords
<1>5. ReservationsDisjoint'
  BY <1>3, <1>4 DEF IInv, ReservationsDisjoint, Open
<1>6. TokensNeverReused'
  <2>1. UNCHANGED <<owner, issued>>
    BY DEF callerVars
  <2> QED  BY <1>3, <1>4, <2>1 DEF IInv, TokensNeverReused, Open
<1>7. CountersAhead'
  <2>1. \A r \in issued : r.token.serial \in Int
    BY DEF IInv, TypeOK, ReservationRecords, Generations
  <2>2. \A m \in Ledgers : generation[m] <= generation'[m]
    BY <1>1, <1>2
  <2> QED  BY <1>1, <1>2, <2>1, <2>2 DEF IInv, CountersAhead, callerVars
<1>8. SeenWhileCurrent'
  <2>1. \A m \in Ledgers : \/ generation'[m] > generation[m]
                           \/ generation'[m] = generation[m] /\ State(m)' = State(m)
    BY <1>1, <1>2, <1>3 DEF State
  <2>2. nextOwner <= nextOwner'
    BY DEF IInv, TypeOK
  <2> QED  BY <2>1, <2>2, SeenStep DEF callerVars
<1> QED  BY <1>5, <1>6, <1>7, <1>8 DEF IInv

\* new: an identity nobody had, an empty table, generation 0.
LEMMA NewStep ==
  ASSUME IInv, TypeOK', NEW l \in Ledgers, NEW extent,
         nextOwner' = nextOwner + 1,
         owner' = [owner EXCEPT ![l] = nextOwner],
         aperture' = [aperture EXCEPT ![l] = extent],
         generation' = [generation EXCEPT ![l] = 0],
         reservations' = [reservations EXCEPT ![l] = [i \in Slots |-> None]],
         UNCHANGED <<ram, callerVars>>
  PROVE  IInv'
<1>1. /\ owner'[l] = nextOwner
      /\ \A i \in Slots : reservations'[l][i] = None
      /\ \A m \in Ledgers \ {l} : /\ owner'[m] = owner[m]
                                  /\ aperture'[m] = aperture[m]
                                  /\ generation'[m] = generation[m]
                                  /\ reservations'[m] = reservations[m]
  BY DEF IInv, TypeOK
<1>2. nextOwner \in Int /\ \A m \in Ledgers : owner[m] \in Int
  BY DEF IInv, TypeOK, Identities
<1>3. \A m \in Ledgers : owner[m] < nextOwner
  BY DEF IInv, CountersAhead
<1>4. \A r \in issued : /\ r.token.owner \in Int
                        /\ r.token.owner < nextOwner
                        /\ 0 < r.token.owner
  BY DEF IInv, TypeOK, ReservationRecords, Identities, CountersAhead
<1>5. LiveRecords(l)' = {}
  BY <1>1 DEF LiveRecords
<1>6. \A m \in Ledgers \ {l} : LiveRecords(m)' = LiveRecords(m)
  BY <1>1 DEF LiveRecords
<1>7. ReservationsDisjoint'
  BY <1>1, <1>5, <1>6 DEF IInv, ReservationsDisjoint, Open
<1>8. TokensNeverReused'
  <2>1. UNCHANGED issued
    BY DEF callerVars
  <2>2. \A m \in Ledgers : Open(m)' =>
          /\ LiveRecords(m)' \subseteq {r \in issued : r.token.owner = owner'[m]}
          /\ \A i, j \in Slots :
               (/\ i # j
                /\ reservations'[m][i] # None
                /\ reservations'[m][j] # None)
                 => reservations'[m][i].token # reservations'[m][j].token
    BY <1>1, <1>5, <1>6 DEF IInv, TokensNeverReused, Open
  <2>3. \A m, n \in Ledgers : (m # n /\ Open(m)') => owner'[m] # owner'[n]
    BY <1>1, <1>2, <1>3 DEF IInv, TokensNeverReused, Open
  <2> QED  BY <2>1, <2>2, <2>3 DEF IInv, TokensNeverReused
<1>9. CountersAhead'
  <2>1. \A m \in Ledgers : owner'[m] < nextOwner'
    BY <1>1, <1>2, <1>3
  <2>2. \A r \in issued, m \in Ledgers :
          r.token.owner = owner'[m] => r.token.serial <= generation'[m]
    BY <1>1, <1>4 DEF IInv, CountersAhead
  <2> QED  BY <1>2, <1>4, <2>1, <2>2 DEF CountersAhead, callerVars
<1>10. SeenWhileCurrent'
  <2>1. UNCHANGED <<snapshots, prepared>>
    BY DEF callerVars
  <2>2. \A s \in snapshots \cup prepared : s.stamp.owner \in Int
    BY DEF IInv, TypeOK, Stamps, Identities
  <2>3. \A s \in snapshots \cup prepared : s.stamp.owner < nextOwner
    BY DEF IInv, SeenWhileCurrent
  <2>4. ASSUME NEW s \in snapshots \cup prepared, NEW m \in Ledgers,
               Open(m)', s.stamp.owner = owner'[m]
        PROVE  /\ s.stamp.generation <= generation'[m]
               /\ s.stamp.generation = generation'[m] => s.seen = State(m)'
    <3>1. m # l
      BY <1>1, <1>2, <2>2, <2>3, <2>4
    <3>2. Open(m) /\ s.stamp.owner = owner[m] /\ State(m)' = State(m)
      BY <1>1, <2>4, <3>1 DEF Open, State
    <3> QED  BY <1>1, <3>1, <3>2 DEF IInv, SeenWhileCurrent
  <2> QED  BY <1>2, <2>1, <2>2, <2>3, <2>4 DEF SeenWhileCurrent
<1> QED  BY <1>7, <1>8, <1>9, <1>10 DEF IInv

\* drop: the handle has no ledger any more.
LEMMA DropStep ==
  ASSUME IInv, TypeOK', NEW l \in Ledgers, Drop(l)
  PROVE  IInv'
<1>1. /\ owner'[l] = 0
      /\ \A m \in Ledgers \ {l} : owner'[m] = owner[m]
      /\ UNCHANGED <<nextOwner, aperture, generation, reservations, ram, callerVars>>
  BY DEF Drop, IInv, TypeOK
<1>2. nextOwner \in Int /\ 0 < nextOwner
  BY DEF IInv, TypeOK
<1>3. ReservationsDisjoint'
  BY <1>1 DEF IInv, ReservationsDisjoint, Open, LiveRecords
<1>4. TokensNeverReused'
  BY <1>1 DEF IInv, TokensNeverReused, Open, LiveRecords, callerVars
<1>5. CountersAhead'
  BY <1>1, <1>2 DEF IInv, CountersAhead, callerVars
<1>6. SeenWhileCurrent'
  <2>1. nextOwner <= nextOwner'
    BY <1>1, <1>2
  <2>2. \A m \in Ledgers : State(m)' = State(m)
    BY <1>1 DEF State
  <2> QED  BY <1>1, <2>1, <2>2, SeenStep DEF callerVars
<1> QED  BY <1>3, <1>4, <1>5, <1>6 DEF IInv

\* snapshot: the new stamp is current and shows the present state.
LEMMA SnapshotStep ==
  ASSUME IInv, TypeOK', NEW l \in Ledgers, Snapshot(l)
  PROVE  IInv'
<1>1. /\ snapshots' \subseteq
           snapshots \cup {[stamp |-> Stamp(l), seen |-> State(l)]}
      /\ UNCHANGED <<nextOwner, ledgerVars, issued, prepared>>
      /\ owner[l] # 0
  BY DEF Snapshot, Open
<1>2. \A m \in Ledgers : generation[m] \in Int
  BY DEF IInv, TypeOK, Generations
<1>3. ReservationsDisjoint' /\ TokensNeverReused' /\ CountersAhead'
  BY <1>1, <1>2, TableStep DEF ledgerVars
<1>4. SeenWhileCurrent'
  <2>1. \A m \in Ledgers : /\ owner'[m] = owner[m]
                           /\ generation'[m] = generation[m]
                           /\ State(m)' = State(m)
                           /\ Open(m)' <=> Open(m)
    BY <1>1 DEF ledgerVars, State, Open
  <2>2. ASSUME NEW s \in snapshots' \cup prepared'
        PROVE  /\ s.stamp.owner < nextOwner
               /\ \A m \in Ledgers : (Open(m) /\ s.stamp.owner = owner[m]) =>
                    /\ s.stamp.generation <= generation[m]
                    /\ s.stamp.generation = generation[m] => s.seen = State(m)
    <3>1. CASE s \in snapshots \cup prepared
      BY <3>1 DEF IInv, SeenWhileCurrent
    <3>2. CASE s = [stamp |-> Stamp(l), seen |-> State(l)]
      <4>1. s.stamp.owner = owner[l] /\ s.stamp.generation = generation[l]
        BY <3>2 DEF Stamp
      <4>2. owner[l] < nextOwner
        BY DEF IInv, CountersAhead
      <4>3. \A m \in Ledgers : (Open(m) /\ owner[l] = owner[m]) => m = l
        BY <1>1 DEF IInv, TokensNeverReused
      <4> QED  BY <1>2, <3>2, <4>1, <4>2, <4>3
    <3> QED  BY <1>1, <3>1, <3>2
  <2> QED  BY <1>1, <2>1, <2>2 DEF SeenWhileCurrent
<1> QED  BY <1>3, <1>4 DEF IInv

-----------------------------------------------------------------------------
(* What a step can do, by its effect rather than by its call *)

Lent == [call |-> "with_guest_memory", result |-> "Ok"]

\* Nothing happens to any ledger.
Quiet ==
  /\ UNCHANGED <<nextOwner, ledgerVars, issued, snapshots>>
  /\ outcome' = outcome \/ outcome' # Lent
  /\ \A s \in prepared' \ prepared :
       \E t \in snapshots : s.stamp = t.stamp /\ s.seen = t.seen

Opened(l, extent) ==
  /\ ~ Open(l)
  /\ outcome' = [call |-> "new", result |-> "Ok"]
  /\ nextOwner' = nextOwner + 1
  /\ owner' = [owner EXCEPT ![l] = nextOwner]
  /\ aperture' = [aperture EXCEPT ![l] = extent]
  /\ generation' = [generation EXCEPT ![l] = 0]
  /\ reservations' = [reservations EXCEPT ![l] = [i \in Slots |-> None]]
  /\ UNCHANGED <<ram, callerVars>>

Inserted(l, address, request, purpose) ==
  /\ Open(l)
  /\ outcome' # Lent
  /\ outcome'.result = "Ok"
  /\ outcome'.call \notin {"copy_into", "commit_device_tree"}
  /\ ReserveCheck(l, address, request) = "Ok"
  /\ Insert(l, address, request, purpose)

Released(l, slot) ==
  /\ Open(l)
  /\ outcome' = [call |-> "release", result |-> "Ok"]
  /\ reservations[l][slot] # None
  /\ generation[l] # MaxGeneration
  /\ Advance(l)
  /\ reservations' = [reservations EXCEPT ![l][slot] = None]
  /\ UNCHANGED <<nextOwner, owner, aperture, ram, callerVars>>

\* The host offsets of an extent seen through the aperture of l.
Behind(l, extent) ==
  {o \in Offsets : /\ extent.address <= aperture[l].address + o
                   /\ aperture[l].address + o < End(extent)}

WrittenTo(l, extent) ==
  /\ Open(l)
  /\ outcome'.result = "Ok"
  /\ generation[l] # MaxGeneration
  /\ Advance(l)
  /\ ram' \in [Ledgers -> [Offsets -> Bytes]]
  /\ \A m \in Ledgers, o \in Offsets :
       ram'[m][o] # ram[m][o] => m = l /\ o \in Behind(l, extent)
  /\ UNCHANGED <<nextOwner, owner, aperture, reservations, issued, snapshots>>

Copied(l, r) ==
  /\ r \in LiveRecords(l)
  /\ WrittenTo(l, r.extent)
  /\ outcome'.call = "copy_into"
  /\ r.purpose # "RuntimeDeviceTree"
  /\ UNCHANGED prepared

Committed(l, r, tree) ==
  /\ r \in LiveRecords(l)
  /\ WrittenTo(l, r.extent)
  /\ outcome'.call = "commit_device_tree"
  /\ r.purpose = "RuntimeDeviceTree"
  /\ tree \in prepared
  /\ tree.stamp.owner = owner[l]
  /\ tree.stamp.generation = generation[l]
  /\ prepared' = prepared \ {tree}

LentOut(l) ==
  /\ WrittenTo(l, aperture[l])
  /\ outcome' = Lent
  /\ UNCHANGED prepared

Effect ==
  \/ Quiet
  \/ \E l \in Ledgers :
       \/ \E extent \in Apertures : Opened(l, extent)
       \/ Drop(l)
       \/ Snapshot(l)
       \/ \E address \in Addresses, request \in Requests, purpose \in Purposes :
            Inserted(l, address, request, purpose)
       \/ \E slot \in Slots : Released(l, slot)
       \/ \E r \in LiveRecords(l) :
            Copied(l, r) \/ \E tree \in prepared : Committed(l, r, tree)
       \/ LentOut(l)

\* range(): the bytes it hands out lie behind the record's extent.
LEMMA HostRangeInside ==
  ASSUME TypeOK, NEW l \in Ledgers, NEW r \in ReservationRecords,
         NEW offset \in Nat, NEW bytes \in Nat,
         RangeCheck(l, r, offset, bytes) = "Ok"
  PROVE  HostRange(l, r, offset, bytes) \cap Offsets \subseteq Behind(l, r.extent)
<1>1. /\ r.extent.address \in Nat
      /\ r.extent.bytes \in Nat
      /\ aperture[l].address \in Nat
  BY LedgerAssumption DEF TypeOK, ReservationRecords, Addresses
<1>2. offset + bytes <= r.extent.bytes
  BY <1>1 DEF RangeCheck
<1>3. ASSUME NEW o \in Offsets,
             o \in (r.extent.address - aperture[l].address + offset) ..
                   (r.extent.address - aperture[l].address + offset + bytes - 1)
      PROVE  /\ r.extent.address <= aperture[l].address + o
             /\ aperture[l].address + o < r.extent.address + r.extent.bytes
  BY <1>1, <1>2, <1>3
<1> QED  BY <1>3 DEF HostRange, Behind, End

\* A payload copied over a checked range of a live record.
LEMMA OverwriteInside ==
  ASSUME TypeOK, TypeOK', NEW l \in Ledgers, NEW r \in ReservationRecords,
         NEW offset \in Nat, NEW bytes \in Nat, NEW byte \in Bytes,
         RangeCheck(l, r, offset, bytes) = "Ok",
         Overwrite(l, HostRange(l, r, offset, bytes), byte)
  PROVE  \A m \in Ledgers, o \in Offsets :
           ram'[m][o] # ram[m][o] => m = l /\ o \in Behind(l, r.extent)
<1>1. \A m \in Ledgers, o \in Offsets :
        ram'[m][o] # ram[m][o] =>
          m = l /\ o \in HostRange(l, r, offset, bytes)
  BY DEF Overwrite, TypeOK
<1> QED  BY <1>1, HostRangeInside

\* Every step of the ledger has one of these effects.
LEMMA StepEffect ==
  ASSUME TypeOK, TypeOK', [Next]_vars
  PROVE  Effect
<1>0. ASSUME NEW call \in Calls, NEW result, Rejects(call, result)
      PROVE  Quiet
  BY <1>0 DEF Rejects, Returns, callerVars, Quiet, Lent
<1>1. ASSUME NEW l \in Ledgers, NEW extent \in Apertures, New(l, extent)
      PROVE  Quiet \/ Opened(l, extent)
  BY <1>0, <1>1 DEF New, Opened, MintOwner, Returns, Calls
<1>2. ASSUME NEW l \in Ledgers, NEW address \in Addresses, NEW request \in Requests,
             NEW purpose \in Purposes, ReserveAt(l, address, request, purpose)
      PROVE  Quiet \/ Inserted(l, address, request, purpose)
  BY <1>0, <1>2 DEF ReserveAt, Inserted, Returns, Lent, Calls
<1>3. ASSUME NEW l \in Ledgers, NEW request \in Requests, NEW purpose \in Purposes,
             Allocate(l, request, purpose)
      PROVE  Quiet \/ \E address \in Addresses : Inserted(l, address, request, purpose)
  <2>1. CASE Rejects("allocate", AllocateCheck(l, request))
    BY <1>0, <2>1 DEF Calls
  <2>2. CASE ~ Rejects("allocate", AllocateCheck(l, request))
    <3>1. AllocateCheck(l, request) = "Ok" /\ Returns("allocate", "Ok") /\ Open(l)
      BY <1>3, <2>2 DEF Allocate
    <3>2. PICK address \in Addresses :
            /\ address = Search(l, request).address
            /\ Insert(l, address, request, purpose)
      BY <1>3, <2>2 DEF Allocate
    <3>3. ReserveCheck(l, address, request) = "Ok"
      BY <3>1, <3>2 DEF AllocateCheck
    <3>4. Inserted(l, address, request, purpose)
      BY <3>1, <3>2, <3>3 DEF Inserted, Returns, Lent
    <3> QED  BY <3>4
  <2> QED  BY <2>1, <2>2
<1>4. ASSUME NEW l \in Ledgers, NEW token \in Tokens, Release(l, token)
      PROVE  Quiet \/ \E slot \in Slots : Released(l, slot)
  <2>1. CASE Rejects("release", ReleaseCheck(l, token))
    BY <1>0, <2>1 DEF Calls
  <2>2. CASE ~ Rejects("release", ReleaseCheck(l, token))
    <3>1. /\ ReleaseCheck(l, token) = "Ok"
          /\ Returns("release", "Ok")
          /\ reservations' = [reservations EXCEPT ![l][SlotOf(l, token)] = None]
          /\ Advance(l)
          /\ Open(l)
          /\ UNCHANGED <<nextOwner, owner, aperture, ram, callerVars>>
      BY <1>4, <2>2 DEF Release
    <3>2. TokenCheck(l, token) = "Ok" /\ generation[l] # MaxGeneration
      BY <3>1 DEF ReleaseCheck, GenerationCheck
    <3>3. SlotOf(l, token) \in Slots /\ reservations[l][SlotOf(l, token)] # None
      BY <3>2, SlotOfToken
    <3> QED  BY <3>1, <3>2, <3>3 DEF Released, Returns
  <2> QED  BY <2>1, <2>2
<1>5. ASSUME NEW l \in Ledgers, NEW token \in Tokens, Read(l, token)
      PROVE  Quiet
  BY <1>5 DEF Read, Quiet, Returns, Lent, callerVars
<1>6. ASSUME NEW l \in Ledgers, NEW token \in Tokens, NEW copy \in Copies,
             NEW byte \in Bytes, CopyInto(l, token, copy, byte)
      PROVE  Quiet \/ \E r \in LiveRecords(l) : Copied(l, r)
  <2> DEFINE check == CopyCheck(l, token, copy.offset, copy.bytes)
             r     == Record(l, token)
  <2>1. CASE Rejects("copy_into", check)
    BY <1>0, <2>1 DEF Calls
  <2>2. CASE ~ Rejects("copy_into", check)
    <3>1. /\ check = "Ok"
          /\ Returns("copy_into", "Ok")
          /\ Overwrite(l, HostRange(l, r, copy.offset, copy.bytes), byte)
          /\ Advance(l)
          /\ Open(l)
          /\ UNCHANGED <<nextOwner, owner, aperture, reservations, callerVars>>
      BY <1>6, <2>2 DEF CopyInto
    <3>2. /\ TokenCheck(l, token) = "Ok"
          /\ r.purpose # "RuntimeDeviceTree"
          /\ RangeCheck(l, r, copy.offset, copy.bytes) = "Ok"
          /\ generation[l] # MaxGeneration
      BY <3>1 DEF CopyCheck, GenerationCheck
    <3>3. r \in LiveRecords(l) /\ r # None
      BY <3>2, SlotOfToken
    <3>4. r \in ReservationRecords
      BY <3>3 DEF TypeOK, LiveRecords
    <3>5. copy.offset \in Nat /\ copy.bytes \in Nat
      BY RequestAssumption, LedgerAssumption
    <3>6. WrittenTo(l, r.extent)
      <4>1. \A m \in Ledgers, o \in Offsets :
              ram'[m][o] # ram[m][o] => m = l /\ o \in Behind(l, r.extent)
        BY <3>1, <3>2, <3>4, <3>5, OverwriteInside
      <4>2. ram' \in [Ledgers -> [Offsets -> Bytes]]
        BY DEF TypeOK
      <4> QED  BY <3>1, <3>2, <4>1, <4>2 DEF WrittenTo, Returns, callerVars
    <3>7. Copied(l, r)
      BY <3>1, <3>2, <3>3, <3>6 DEF Copied, Returns, callerVars
    <3> QED  BY <3>3, <3>7
  <2> QED  BY <2>1, <2>2
<1>7. ASSUME NEW l \in Ledgers, NEW token \in Tokens, NEW snapshot \in snapshots,
             NEW bytes \in TreeSizes, NEW byte \in Bytes,
             BindDeviceTree(l, snapshot, token, bytes, byte)
      PROVE  Quiet
  <2> DEFINE check == BindCheck(l, snapshot.stamp, token, bytes)
             tree  == [stamp       |-> snapshot.stamp,
                       destination |-> token,
                       bytes       |-> bytes,
                       byte        |-> byte,
                       seen        |-> snapshot.seen]
  <2>1. CASE Rejects("bind_device_tree", check)
    BY <1>0, <2>1 DEF Calls
  <2>2. CASE ~ Rejects("bind_device_tree", check)
    <3>1. /\ Returns("bind_device_tree", "Ok")
          /\ \E kept \in SUBSET prepared : prepared' = kept \cup {tree}
          /\ UNCHANGED <<nextOwner, ledgerVars, issued, snapshots>>
      BY <1>7, <2>2 DEF BindDeviceTree
    <3>2. tree.stamp = snapshot.stamp /\ tree.seen = snapshot.seen
      OBVIOUS
    <3>3. prepared' \ prepared \subseteq {tree}
      BY <3>1
    <3> HIDE DEF tree
    <3> QED  BY <3>1, <3>2, <3>3 DEF Quiet, Returns, Lent
  <2> QED  BY <2>1, <2>2
<1>8. ASSUME NEW l \in Ledgers, NEW tree \in prepared, CommitDeviceTree(l, tree)
      PROVE  Quiet \/ \E r \in LiveRecords(l) : Committed(l, r, tree)
  <2> DEFINE r == Record(l, tree.destination)
  <2>1. /\ Returns("commit_device_tree", CommitCheck(l, tree))
        /\ prepared' = prepared \ {tree}
        /\ Open(l)
        /\ UNCHANGED <<nextOwner, issued, snapshots>>
    BY <1>8 DEF CommitDeviceTree
  <2>2. CASE CommitCheck(l, tree) # "Ok"
    BY <1>8, <2>1, <2>2 DEF CommitDeviceTree, Quiet, Returns, Lent
  <2>3. CASE CommitCheck(l, tree) = "Ok"
    <3>1. /\ Overwrite(l, HostRange(l, r, 0, tree.bytes), tree.byte)
          /\ Advance(l)
          /\ UNCHANGED <<owner, aperture, reservations>>
      BY <1>8, <2>3 DEF CommitDeviceTree
    <3>2. /\ BindCheck(l, tree.stamp, tree.destination, tree.bytes) = "Ok"
          /\ generation[l] # MaxGeneration
      BY <2>3 DEF CommitCheck, GenerationCheck
    <3>3. /\ StampCheck(l, tree.stamp) = "Ok"
          /\ TreeRangeCheck(l, tree.destination, tree.bytes) = "Ok"
      BY <3>2 DEF BindCheck
    <3>4. tree.stamp.owner = owner[l] /\ tree.stamp.generation = generation[l]
      BY <3>3 DEF StampCheck
    <3>5. /\ TokenCheck(l, tree.destination) = "Ok"
          /\ r.purpose = "RuntimeDeviceTree"
          /\ RangeCheck(l, r, 0, tree.bytes) = "Ok"
      BY <3>3 DEF TreeRangeCheck
    <3>6. r \in LiveRecords(l) /\ r # None
      BY <3>5, SlotOfToken
    <3>7. r \in ReservationRecords
      BY <3>6 DEF TypeOK, LiveRecords
    <3>8. tree.bytes \in Nat /\ tree.byte \in Bytes
      BY LedgerAssumption DEF TypeOK, Addresses
    <3>9. WrittenTo(l, r.extent)
      <4>1. \A m \in Ledgers, o \in Offsets :
              ram'[m][o] # ram[m][o] => m = l /\ o \in Behind(l, r.extent)
        BY <3>1, <3>5, <3>7, <3>8, OverwriteInside
      <4>2. ram' \in [Ledgers -> [Offsets -> Bytes]]
        BY DEF TypeOK
      <4> QED  BY <2>1, <2>3, <3>1, <3>2, <4>1, <4>2 DEF WrittenTo, Returns
    <3>10. Committed(l, r, tree)
      BY <2>1, <3>4, <3>5, <3>6, <3>9 DEF Committed, Returns
    <3> QED  BY <3>6, <3>10
  <2> QED  BY <2>2, <2>3
<1>9. ASSUME NEW l \in Ledgers, WithGuestMemory(l)
      PROVE  Quiet \/ LentOut(l)
  <2>1. CASE Rejects("with_guest_memory", GenerationCheck(l))
    BY <1>0, <2>1 DEF Calls
  <2>2. CASE ~ Rejects("with_guest_memory", GenerationCheck(l))
    <3>1. /\ GenerationCheck(l) = "Ok"
          /\ Returns("with_guest_memory", "Ok")
          /\ Advance(l)
          /\ Open(l)
          /\ UNCHANGED <<nextOwner, owner, aperture, reservations, callerVars>>
      BY <1>9, <2>2 DEF WithGuestMemory
    <3>2. PICK bytes \in [HostBytes(l) -> Bytes] :
             ram' = [ram EXCEPT ![l] =
                       [o \in Offsets |-> IF o \in HostBytes(l)
                                             THEN bytes[o] ELSE ram[l][o]]]
      BY <1>9, <2>2 DEF WithGuestMemory
    <3>3. ram' \in [Ledgers -> [Offsets -> Bytes]]
      BY DEF TypeOK
    <3>4. \A m \in Ledgers, o \in Offsets :
            ram'[m][o] # ram[m][o] => m = l /\ o \in HostBytes(l)
      BY <3>2 DEF TypeOK
    <3>5. aperture[l].address \in Int /\ aperture[l].bytes \in Int
      BY LedgerAssumption DEF TypeOK, Addresses
    <3>6. \A o \in Offsets : o \in HostBytes(l) => o \in Behind(l, aperture[l])
      BY <3>5, LedgerAssumption DEF HostBytes, Behind, End, Offsets
    <3>7. WrittenTo(l, aperture[l])
      BY <3>1, <3>3, <3>4, <3>6
         DEF WrittenTo, Returns, GenerationCheck, callerVars
    <3>8. LentOut(l)
      BY <3>1, <3>7 DEF LentOut, Returns, Lent, callerVars
    <3> QED  BY <3>8
  <2> QED  BY <2>1, <2>2
<1>10. CASE UNCHANGED vars
  BY <1>10 DEF vars, callerVars, Quiet, Effect
<1>11. CASE Next
  BY <1>1, <1>2, <1>3, <1>4, <1>5, <1>6, <1>7, <1>8, <1>9, <1>11
     DEF Next, Call, Effect
<1> QED  BY <1>10, <1>11

-----------------------------------------------------------------------------
(* The invariant, by the effects of a step *)

\* A write behind an extent of l leaves the other backings alone.
LEMMA WrittenToKeepsIInv ==
  ASSUME IInv, TypeOK', NEW l \in Ledgers, NEW extent, WrittenTo(l, extent),
         prepared' \subseteq prepared
  PROVE  IInv'
<1>1. \A m \in Ledgers \ {l} : ram'[m] = ram[m]
  <2> SUFFICES ASSUME NEW m \in Ledgers \ {l}
               PROVE  ram'[m] = ram[m]
    OBVIOUS
  <2>1. ram'[m] \in [Offsets -> Bytes] /\ ram[m] \in [Offsets -> Bytes]
    BY DEF IInv, TypeOK
  <2>2. \A o \in Offsets : ram'[m][o] = ram[m][o]
    BY DEF WrittenTo
  <2> QED  BY <2>1, <2>2
<1>2. /\ generation[l] # MaxGeneration
      /\ Advance(l)
      /\ UNCHANGED <<nextOwner, owner, aperture, reservations, issued, snapshots>>
  BY DEF WrittenTo
<1> QED  BY <1>1, <1>2, WriteStep

\* Every step of the ledger preserves the inductive invariant.
LEMMA IInvStep ==
  ASSUME IInv, [Next]_vars
  PROVE  IInv'
<1>1. TypeOK'
  BY NextKeepsType DEF IInv
<1>2. Effect
  BY <1>1, StepEffect DEF IInv
<1>3. CASE Quiet
  <2>1. \A s \in snapshots' \cup prepared' :
          \E t \in snapshots \cup prepared : s.stamp = t.stamp /\ s.seen = t.seen
    BY <1>3 DEF Quiet
  <2> QED  BY <1>1, <1>3, <2>1, QuietStep DEF Quiet
<1>4. ASSUME NEW l \in Ledgers, NEW extent \in Apertures, Opened(l, extent)
      PROVE  IInv'
  BY <1>1, <1>4, NewStep DEF Opened
<1>5. ASSUME NEW l \in Ledgers, Drop(l)
      PROVE  IInv'
  BY <1>1, <1>5, DropStep
<1>6. ASSUME NEW l \in Ledgers, Snapshot(l)
      PROVE  IInv'
  BY <1>1, <1>6, SnapshotStep
<1>7. ASSUME NEW l \in Ledgers, NEW address \in Addresses, NEW request \in Requests,
             NEW purpose \in Purposes, Inserted(l, address, request, purpose)
      PROVE  IInv'
  BY <1>1, <1>7, InsertStep DEF Inserted
<1>8. ASSUME NEW l \in Ledgers, NEW slot \in Slots, Released(l, slot)
      PROVE  IInv'
  BY <1>1, <1>8, ReleaseStep DEF Released
<1>9. ASSUME NEW l \in Ledgers, NEW r, Copied(l, r)
      PROVE  IInv'
  BY <1>1, <1>9, WrittenToKeepsIInv DEF Copied
<1>10. ASSUME NEW l \in Ledgers, NEW r, NEW tree, Committed(l, r, tree)
       PROVE  IInv'
  BY <1>1, <1>10, WrittenToKeepsIInv DEF Committed
<1>11. ASSUME NEW l \in Ledgers, LentOut(l)
       PROVE  IInv'
  BY <1>1, <1>11, WrittenToKeepsIInv DEF LentOut
<1> QED
  BY <1>2, <1>3, <1>4, <1>5, <1>6, <1>7, <1>8, <1>9, <1>10, <1>11 DEF Effect

\* No ledger is open before the first call.
LEMMA InitIInv ==
  ASSUME Init
  PROVE  IInv
<1>1. TypeOK
  BY InitTypeOK
<1>2. \A l \in Ledgers : ~ Open(l)
  BY DEF Init, Open
<1>3. ReservationsDisjoint
  BY <1>2 DEF ReservationsDisjoint
<1>4. TokensNeverReused
  BY <1>2 DEF Init, TokensNeverReused
<1>5. CountersAhead
  BY DEF Init, CountersAhead
<1>6. SeenWhileCurrent
  BY DEF Init, SeenWhileCurrent
<1> QED  BY <1>1, <1>3, <1>4, <1>5, <1>6 DEF IInv

\* The inductive invariant holds of every reachable state.
THEOREM InductiveInvariant == Spec => []IInv
<1>1. Init => IInv
  BY InitIInv
<1>2. IInv /\ [Next]_vars => IInv'
  BY IInvStep
<1> QED  BY <1>1, <1>2, PTL DEF Spec

\* Live reservations of one ledger stay inside its aperture, aligned, and
\* never share a byte, however many were placed and released before.
THEOREM ReservationsStayDisjoint == Spec => []ReservationsDisjoint
<1>1. IInv => ReservationsDisjoint
  BY DEF IInv
<1> QED  BY <1>1, InductiveInvariant, PTL

\* No token is ever issued twice, by one ledger or by two.
THEOREM TokensStayUnique == Spec => []TokensNeverReused
<1>1. IInv => TokensNeverReused
  BY DEF IInv
<1> QED  BY <1>1, InductiveInvariant, PTL

\* The counters stay ahead of every identity and serial given out.
THEOREM CountersStayAhead == Spec => []CountersAhead
<1>1. IInv => CountersAhead
  BY DEF IInv
<1> QED  BY <1>1, InductiveInvariant, PTL

\* A stamp that validate_stamp accepts describes the ledger as it is.
THEOREM CurrentStampsAreTrue == Spec => []SeenWhileCurrent
<1>1. IInv => SeenWhileCurrent
  BY DEF IInv
<1> QED  BY <1>1, InductiveInvariant, PTL

-----------------------------------------------------------------------------
(* What a step may never do *)

\* While a ledger lives, its generation moves with every change of its table
\* or of its bytes, and only upwards.
LEMMA StampStep ==
  ASSUME IInv, [Next]_vars, NEW l \in Ledgers, Open(l), owner'[l] = owner[l]
  PROVE  /\ generation'[l] >= generation[l]
         /\ generation'[l] = generation[l] => State(l)' = State(l)
<1> DEFINE Good == /\ generation'[l] >= generation[l]
                   /\ generation'[l] = generation[l] => State(l)' = State(l)
<1>0. generation[l] \in Int /\ owner[l] < nextOwner /\ nextOwner \in Int
  BY DEF IInv, TypeOK, Generations, CountersAhead
<1>1. Effect
  BY NextKeepsType, StepEffect DEF IInv
<1>2. CASE UNCHANGED ledgerVars
  BY <1>0, <1>2 DEF ledgerVars, State
<1>3. ASSUME NEW m \in Ledgers, Advance(m), generation[m] # MaxGeneration,
             \A n \in Ledgers \ {m} : State(n)' = State(n)
      PROVE  Good
  <2>1. /\ generation'[m] = generation[m] + 1
        /\ \A n \in Ledgers \ {m} : generation'[n] = generation[n]
    BY <1>3, AdvanceKeepsType DEF IInv
  <2> QED  BY <1>0, <1>3, <2>1
<1>4. ASSUME NEW m \in Ledgers, NEW extent \in Apertures, Opened(m, extent)
      PROVE  Good
  <2>1. owner'[m] = nextOwner
    BY <1>4 DEF Opened, IInv, TypeOK
  <2>2. m # l
    BY <1>0, <2>1
  <2> QED  BY <1>0, <1>4, <2>2 DEF Opened, State, IInv, TypeOK
<1>5. ASSUME NEW m \in Ledgers, Drop(m)
      PROVE  Good
  BY <1>0, <1>5 DEF Drop, State
<1>6. ASSUME NEW m \in Ledgers, NEW address \in Addresses, NEW request \in Requests,
             NEW purpose \in Purposes, Inserted(m, address, request, purpose)
      PROVE  Good
  <2>1. generation[m] # MaxGeneration
    BY <1>6, ReserveCheckPassed DEF IInv, Inserted
  <2>2. \A n \in Ledgers \ {m} : State(n)' = State(n)
    BY <1>6 DEF Inserted, Insert, State, IInv, TypeOK
  <2>3. Advance(m)
    BY <1>6 DEF Inserted, Insert
  <2> QED  BY <1>3, <2>1, <2>2, <2>3
<1>7. ASSUME NEW m \in Ledgers, NEW slot \in Slots, Released(m, slot)
      PROVE  Good
  <2>1. \A n \in Ledgers \ {m} : State(n)' = State(n)
    BY <1>7 DEF Released, State, IInv, TypeOK
  <2> QED  BY <1>3, <1>7, <2>1 DEF Released
<1>8. ASSUME NEW m \in Ledgers, NEW extent, WrittenTo(m, extent)
      PROVE  Good
  <2>1. ASSUME NEW n \in Ledgers \ {m}
        PROVE  ram'[n] = ram[n]
    <3>1. ram'[n] \in [Offsets -> Bytes] /\ ram[n] \in [Offsets -> Bytes]
      BY <1>8 DEF WrittenTo, IInv, TypeOK
    <3>2. \A o \in Offsets : ram'[n][o] = ram[n][o]
      BY <1>8 DEF WrittenTo
    <3> QED  BY <3>1, <3>2
  <2>2. \A n \in Ledgers \ {m} : State(n)' = State(n)
    BY <1>8, <2>1 DEF WrittenTo, State
  <2> QED  BY <1>3, <1>8, <2>2 DEF WrittenTo
<1> QED
  BY <1>1, <1>2, <1>4, <1>5, <1>6, <1>7, <1>8
     DEF Effect, Quiet, Snapshot, Copied, Committed, LentOut

\* A stamp names one state of one ledger.
THEOREM StampsNameOneState == Spec => StampNamesOneState
<1> DEFINE A == \A l \in Ledgers : (Open(l) /\ owner'[l] = owner[l]) =>
                  /\ generation'[l] >= generation[l]
                  /\ generation'[l] = generation[l] => State(l)' = State(l)
<1>1. IInv /\ [Next]_vars => [A]_vars
  BY StampStep
<1>2. Spec => [][A]_vars
  BY <1>1, InductiveInvariant, PTL DEF Spec
<1> QED  BY <1>2 DEF StampNamesOneState

\* Bytes change only by one of the three writes.
LEMMA ChangedBytes ==
  ASSUME IInv, [Next]_vars, NEW l \in Ledgers, NEW o \in Offsets,
         ram'[l][o] # ram[l][o]
  PROVE  \/ \E r \in LiveRecords(l) : /\ o \in Behind(l, r.extent)
                                      /\ \/ Copied(l, r)
                                         \/ \E tree \in prepared : Committed(l, r, tree)
         \/ LentOut(l) /\ o \in Behind(l, aperture[l])
<1>1. Effect
  BY NextKeepsType, StepEffect DEF IInv
<1>2. ram' # ram
  OBVIOUS
<1>3. PICK m \in Ledgers :
        \/ \E r \in LiveRecords(m) :
             Copied(m, r) \/ \E tree \in prepared : Committed(m, r, tree)
        \/ LentOut(m)
  BY <1>1, <1>2
     DEF Effect, Quiet, Opened, Drop, Snapshot, Inserted, Insert, Released, ledgerVars
<1>4. \A extent : WrittenTo(m, extent) => l = m /\ o \in Behind(m, extent)
  BY DEF WrittenTo
<1> QED  BY <1>3, <1>4 DEF Copied, Committed, LentOut

\* A device tree reaches RAM only while the ledger still is what the tree's
\* builder saw.
THEOREM CommitsReachSeenState == Spec => CommitsToSeenState
<1> DEFINE A == \A l \in Ledgers :
                  (outcome'.call = "commit_device_tree" /\ ram'[l] # ram[l]) =>
                    \E tree \in prepared \ prepared' :
                      tree.stamp.owner = owner[l] /\ tree.seen = State(l)
<1>1. ASSUME IInv, [Next]_vars
      PROVE  A
  <2> SUFFICES ASSUME NEW l \in Ledgers, outcome'.call = "commit_device_tree",
                      ram'[l] # ram[l]
               PROVE  \E tree \in prepared \ prepared' :
                        tree.stamp.owner = owner[l] /\ tree.seen = State(l)
    OBVIOUS
  <2>1. ram[l] \in [Offsets -> Bytes] /\ ram'[l] \in [Offsets -> Bytes]
    BY <1>1, NextKeepsType DEF IInv, TypeOK
  <2>2. PICK o \in Offsets : ram'[l][o] # ram[l][o]
    BY <2>1
  <2>3. PICK r \in LiveRecords(l), tree \in prepared : Committed(l, r, tree)
    BY <1>1, <2>2, ChangedBytes DEF Copied, LentOut, Lent
  <2>4. /\ tree \in prepared \ prepared'
        /\ tree.stamp.owner = owner[l]
        /\ tree.stamp.generation = generation[l]
        /\ Open(l)
    BY <2>3 DEF Committed, WrittenTo
  <2>5. tree.seen = State(l)
    BY <1>1, <2>4 DEF IInv, SeenWhileCurrent
  <2> QED  BY <2>4, <2>5
<1>2. Spec => [][A]_vars
  BY <1>1, InductiveInvariant, PTL DEF Spec
<1> QED  BY <1>2 DEF CommitsToSeenState

\* Bytes change inside one live reservation of the right purpose, or inside
\* the aperture while it is lent out.
THEOREM WritesAreContained == Spec => WritesStayInside
<1> DEFINE A == \A l \in Ledgers, o \in Offsets : ram'[l][o] # ram[l][o] =>
       \/ outcome'.call = "with_guest_memory" /\ o < aperture[l].bytes
       \/ /\ outcome'.call \in {"copy_into", "commit_device_tree"}
          /\ \E r \in LiveRecords(l) :
               /\ r.extent.address <= aperture[l].address + o
               /\ aperture[l].address + o < End(r.extent)
               /\ (r.purpose = "RuntimeDeviceTree")
                    <=> (outcome'.call = "commit_device_tree")
<1>1. ASSUME IInv, [Next]_vars
      PROVE  A
  <2> SUFFICES ASSUME NEW l \in Ledgers, NEW o \in Offsets, ram'[l][o] # ram[l][o]
               PROVE  \/ outcome'.call = "with_guest_memory" /\ o < aperture[l].bytes
                      \/ /\ outcome'.call \in {"copy_into", "commit_device_tree"}
                         /\ \E r \in LiveRecords(l) :
                              /\ r.extent.address <= aperture[l].address + o
                              /\ aperture[l].address + o < End(r.extent)
                              /\ (r.purpose = "RuntimeDeviceTree")
                                   <=> (outcome'.call = "commit_device_tree")
    OBVIOUS
  <2>1. CASE LentOut(l) /\ o \in Behind(l, aperture[l])
    <3>1. aperture[l].address \in Int /\ aperture[l].bytes \in Int /\ o \in Int
      BY <1>1, LedgerAssumption DEF IInv, TypeOK, Addresses, Offsets
    <3>2. o < aperture[l].bytes
      BY <2>1, <3>1 DEF Behind, End
    <3>3. outcome'.call = "with_guest_memory"
      BY <2>1 DEF LentOut, Lent
    <3> QED  BY <3>2, <3>3
  <2>2. CASE \E r \in LiveRecords(l) :
               /\ o \in Behind(l, r.extent)
               /\ \/ Copied(l, r)
                  \/ \E tree \in prepared : Committed(l, r, tree)
    BY <2>2 DEF Copied, Committed, Behind
  <2> QED  BY <1>1, <2>1, <2>2, ChangedBytes
<1>2. Spec => [][A]_vars
  BY <1>1, InductiveInvariant, PTL DEF Spec
<1> QED  BY <1>2 DEF WritesStayInside

\* An Err leaves every ledger, every byte and the identity counter alone.
THEOREM FailuresAreAtomic == Spec => FailureIsAtomic
<1> DEFINE A == outcome'.result # "Ok" =>
                  UNCHANGED <<nextOwner, ledgerVars, issued, snapshots>>
<1>1. ASSUME IInv, [Next]_vars
      PROVE  A
  <2>1. Effect
    BY <1>1, NextKeepsType, StepEffect DEF IInv
  <2> QED
    BY <2>1
       DEF Effect, Quiet, Opened, Drop, Snapshot, Returns, Inserted, Released,
           Copied, Committed, LentOut, WrittenTo, Lent
<1>2. Spec => [][A]_vars
  BY <1>1, InductiveInvariant, PTL DEF Spec
<1> QED  BY <1>2 DEF FailureIsAtomic

\* A token some ledger accepts after a step, and that was given out before it,
\* was accepted before it.
LEMMA AcceptedStep ==
  ASSUME IInv, [Next]_vars, NEW t \in Accepted', t \in Tokens
  PROVE  t \in Accepted
<1>1. PICK l \in Ledgers :
        Open(l)' /\ owner'[l] = t.owner /\ \E r \in LiveRecords(l)' : r.token = t
  BY DEF Accepted, TokenCheck
<1>2. PICK issue \in issued : issue.token = t
  BY DEF Tokens
<1>3. Effect
  BY NextKeepsType, StepEffect DEF IInv
<1>4. ASSUME owner'[l] = owner[l],
             \E r \in LiveRecords(l) : r.token = t
      PROVE  t \in Accepted
  BY <1>1, <1>4 DEF Accepted, TokenCheck, Open
<1>5. CASE UNCHANGED <<owner, reservations>>
  BY <1>1, <1>4, <1>5 DEF LiveRecords
<1>6. ASSUME NEW m \in Ledgers, NEW extent \in Apertures, Opened(m, extent)
      PROVE  t \in Accepted
  <2>1. \A i \in Slots : reservations'[m][i] = None
    BY <1>6 DEF Opened, IInv, TypeOK
  <2>2. m # l
    BY <1>1, <2>1 DEF LiveRecords
  <2>3. owner'[l] = owner[l] /\ reservations'[l] = reservations[l]
    BY <1>6, <2>2 DEF Opened, IInv, TypeOK
  <2> QED  BY <1>1, <1>4, <2>3 DEF LiveRecords
<1>7. ASSUME NEW m \in Ledgers, Drop(m)
      PROVE  t \in Accepted
  <2>1. m # l
    BY <1>1, <1>7 DEF Drop, Open, IInv, TypeOK
  <2>2. owner'[l] = owner[l] /\ reservations' = reservations
    BY <1>7, <2>1 DEF Drop
  <2> QED  BY <1>1, <1>4, <2>2 DEF LiveRecords
<1>8. ASSUME NEW m \in Ledgers, NEW address \in Addresses, NEW request \in Requests,
             NEW purpose \in Purposes, Inserted(m, address, request, purpose)
      PROVE  t \in Accepted
  <2>1. PICK r \in LiveRecords(l)' : r.token = t
    BY <1>1
  <2>2. PICK slot \in LowestFree(m), record \in {[
                 token     |-> NextToken(m),
                 extent    |-> Extent(address, request.bytes),
                 alignment |-> request.alignment,
                 purpose   |-> purpose]} :
          reservations' = [reservations EXCEPT ![m][slot] = record]
    BY <1>8 DEF Inserted, Insert
  <2>3. owner' = owner
    BY <1>8 DEF Inserted, Insert
  <2>4. r \in LiveRecords(l) \/ (l = m /\ r = record)
    BY <2>2 DEF LiveRecords, IInv, TypeOK, LowestFree, FreeSlots
  <2>5. ~ (l = m /\ r = record)
    <3>1. generation[m] \in Int
      BY DEF IInv, TypeOK, Generations
    <3>2. issue.token.owner = owner[m] => issue.token.serial <= generation[m]
      BY DEF IInv, CountersAhead
    <3> QED  BY <1>2, <2>1, <2>2, <3>1, <3>2 DEF NextToken
  <2> QED  BY <1>4, <2>1, <2>3, <2>4, <2>5
<1>9. ASSUME NEW m \in Ledgers, NEW slot \in Slots, Released(m, slot)
      PROVE  t \in Accepted
  <2>1. LiveRecords(l)' \subseteq LiveRecords(l) /\ owner' = owner
    BY <1>9 DEF Released, LiveRecords, IInv, TypeOK
  <2> QED  BY <1>1, <1>4, <2>1
<1> QED
  BY <1>3, <1>5, <1>6, <1>7, <1>8, <1>9
     DEF Effect, Quiet, Snapshot, Copied, Committed, LentOut, WrittenTo, ledgerVars

\* A token that was released, or whose ledger was dropped, is never accepted
\* again.
THEOREM ReleasedTokensStayReleased == Spec => ReleasedStaysReleased
<1>1. IInv /\ [Next]_vars => [Accepted' \cap Tokens \subseteq Accepted]_vars
  BY AcceptedStep
<1>2. Spec => [][Accepted' \cap Tokens \subseteq Accepted]_vars
  BY <1>1, InductiveInvariant, PTL DEF Spec
<1> QED  BY <1>2 DEF ReleasedStaysReleased

-----------------------------------------------------------------------------
(* The ledger implements ReservationLedger *)

AbstractLive == [l \in Ledgers |-> IF Open(l) THEN LiveRecords(l) ELSE {}]

\* Reservations of the other ledgers stay as they are.
LEMMA LiveOfOne ==
  ASSUME NEW l \in Ledgers, NEW S,
         \A m \in Ledgers \ {l} :
           /\ owner'[m] = owner[m]
           /\ reservations'[m] = reservations[m],
         (IF Open(l)' THEN LiveRecords(l)' ELSE {}) = S
  PROVE  AbstractLive' = [AbstractLive EXCEPT ![l] = S]
<1>1. \A m \in Ledgers \ {l} : AbstractLive'[m] = AbstractLive[m]
  BY DEF AbstractLive, Open, LiveRecords
<1>2. AbstractLive'[l] = S
  BY DEF AbstractLive
<1>3. AbstractLive' = [m \in Ledgers |-> AbstractLive'[m]]
  BY DEF AbstractLive
<1>4. [AbstractLive EXCEPT ![l] = S] =
        [m \in Ledgers |-> IF m = l THEN S ELSE AbstractLive[m]]
  BY DEF AbstractLive
<1> QED  BY <1>1, <1>2, <1>3, <1>4

\* A write behind an extent changes only what the promise lets it change.
LEMMA WrittenOnly ==
  ASSUME NEW l \in Ledgers, NEW extent, WrittenTo(l, extent)
  PROVE  Promise!OnlyChanges(l, Promise!HostOffsets(l, extent))
BY DEF WrittenTo, Behind, End, Promise!OnlyChanges, Promise!HostOffsets, Promise!End

\* The new record of reserve_at is a grant.
LEMMA InsertedGrants ==
  ASSUME IInv, TypeOK', NEW l \in Ledgers, NEW address \in Addresses,
         NEW request \in Requests, NEW purpose \in Purposes,
         Inserted(l, address, request, purpose)
  PROVE  Promise!Grant(l)
<1> DEFINE record == [token     |-> NextToken(l),
                      extent    |-> Extent(address, request.bytes),
                      alignment |-> request.alignment,
                      purpose   |-> purpose]
<1>1. /\ Open(l)
      /\ outcome' # Lent
      /\ ReserveCheck(l, address, request) = "Ok"
      /\ Advance(l)
      /\ UNCHANGED <<nextOwner, owner, aperture, ram>>
  BY DEF Inserted, Insert
<1>2. /\ request.bytes \in Addresses \ {0}
      /\ address % request.alignment = 0
      /\ Inside(Extent(address, request.bytes), aperture[l])
      /\ \A r \in LiveRecords(l) :
           ~ Overlaps(Extent(address, request.bytes), r.extent)
  BY <1>1, ReserveCheckPassed DEF IInv
<1>3. PICK slot \in LowestFree(l) :
        reservations' = [reservations EXCEPT ![l][slot] = record]
  BY DEF Inserted, Insert
<1>4. slot \in Slots /\ reservations[l][slot] = None
  BY DEF LowestFree, FreeSlots
<1>5. /\ reservations'[l][slot] = record
      /\ \A i \in Slots \ {slot} : reservations'[l][i] = reservations[l][i]
      /\ \A m \in Ledgers \ {l} : reservations'[m] = reservations[m]
  BY <1>3, <1>4 DEF IInv, TypeOK
<1>6. record # None
  <2>1. record \in issued' /\ issued' \subseteq ReservationRecords
    BY DEF Inserted, Insert, TypeOK
  <2> QED  BY <2>1, NoneAssumption
<1>7. record \notin LiveRecords(l)
  <2>1. \A r \in LiveRecords(l) : r \in issued /\ r.token.owner = owner[l]
    BY <1>1 DEF IInv, TokensNeverReused
  <2>2. \A r \in LiveRecords(l) : r.token.serial <= generation[l]
    BY <2>1 DEF IInv, CountersAhead
  <2>3. generation[l] \in Int
    BY DEF IInv, TypeOK, Generations
  <2>4. record.token.serial = generation[l] + 1
    BY DEF NextToken
  <2> QED  BY <2>2, <2>3, <2>4
<1> HIDE DEF record
<1>8. LiveRecords(l)' = LiveRecords(l) \cup {record}
  BY <1>4, <1>5, <1>6 DEF LiveRecords
<1>9. Open(l)'
  BY <1>1 DEF Open
<1>10. AbstractLive[l] = LiveRecords(l) /\ AbstractLive'[l] = LiveRecords(l)'
  BY <1>1, <1>9 DEF AbstractLive
<1>11. AbstractLive' = [AbstractLive EXCEPT ![l] = AbstractLive[l] \cup {record}]
  BY <1>1, <1>5, <1>8, <1>9, <1>10, LiveOfOne
<1>12. /\ record.token = [owner |-> owner[l], serial |-> generation[l] + 1]
       /\ record.extent = Extent(address, request.bytes)
       /\ record.alignment = request.alignment
  BY DEF record, NextToken
<1>13. /\ record.extent.bytes > 0
       /\ record.extent.address % record.alignment = 0
       /\ Promise!Inside(record.extent, aperture[l])
  BY <1>2, <1>12, LedgerAssumption
     DEF Extent, Inside, End, Promise!Inside, Promise!End, Addresses
<1>14. \A s \in LiveRecords(l) : Promise!Disjoint(record.extent, s.extent)
  <2>1. \A s \in LiveRecords(l) : s \in ReservationRecords
    BY DEF LiveRecords, IInv, TypeOK
  <2>2. ASSUME NEW s \in LiveRecords(l)
        PROVE  Promise!Disjoint(record.extent, s.extent)
    <3>1. s.extent.address \in Nat /\ s.extent.bytes \in Nat
      BY <2>1, LedgerAssumption DEF ReservationRecords, Addresses
    <3>2. address \in Nat /\ request.bytes \in Nat
      BY <1>2, LedgerAssumption DEF Addresses
    <3>3. ~ Overlaps(Extent(address, request.bytes), s.extent)
      BY <1>2
    <3> QED
      BY <1>12, <3>1, <3>2, <3>3
         DEF Overlaps, End, Extent, Promise!Disjoint, Promise!End
  <2> QED  BY <2>2
<1>15. record \in AbstractLive'[l] \ AbstractLive[l]
  BY <1>7, <1>8, <1>10
<1> QED
  BY <1>1, <1>10, <1>11, <1>12, <1>13, <1>14, <1>15
     DEF Promise!Grant, Promise!Bump, AbstractLive, Advance, Open, Lent

\* new() opens the abstract ledger under an unused identity.
LEMMA OpenedOpens ==
  ASSUME IInv, TypeOK', NEW l \in Ledgers, NEW extent \in Apertures,
         Opened(l, extent)
  PROVE  Promise!Open(l)
<1>1. nextOwner \in Nat \ {0} /\ nextOwner' = nextOwner + 1
  BY DEF Opened, IInv, TypeOK
<1>2. /\ owner[l] = 0
      /\ owner'[l] = nextOwner
      /\ owner' = [owner EXCEPT ![l] = owner'[l]]
      /\ aperture' = [aperture EXCEPT ![l] = aperture'[l]]
      /\ generation' = [generation EXCEPT ![l] = 0]
      /\ ram' = ram
  BY DEF Opened, Open, IInv, TypeOK
<1>3. aperture'[l] \in [address : Nat, bytes : Nat]
  <2>1. aperture'[l] \in [address : Addresses, bytes : 0 .. Capacity]
    BY DEF TypeOK
  <2>2. Addresses \subseteq Nat /\ 0 .. Capacity \subseteq Nat
    BY LedgerAssumption DEF Addresses
  <2> QED  BY <2>1, <2>2
<1>4. 1 .. nextOwner' - 1 = (1 .. nextOwner - 1) \cup {owner'[l]}
  BY <1>1, <1>2
<1>5. owner'[l] \notin 1 .. nextOwner - 1 /\ owner'[l] \in Nat \ {0}
  BY <1>1, <1>2
<1>6. AbstractLive' = [AbstractLive EXCEPT ![l] = {}]
  <2>1. \A i \in Slots : reservations'[l][i] = None
    BY DEF Opened, IInv, TypeOK
  <2>2. LiveRecords(l)' = {}
    BY <2>1 DEF LiveRecords
  <2>3. \A m \in Ledgers \ {l} : /\ owner'[m] = owner[m]
                                 /\ reservations'[m] = reservations[m]
    BY DEF Opened, IInv, TypeOK
  <2> QED  BY <2>2, <2>3, LiveOfOne
<1>7. (outcome' = Lent) = FALSE
  BY DEF Opened, Lent
<1> QED
  BY <1>2, <1>3, <1>4, <1>5, <1>6, <1>7 DEF Promise!Open, AbstractLive, Lent

\* release() revokes one reservation.
LEMMA ReleasedRevokes ==
  ASSUME IInv, TypeOK', NEW l \in Ledgers, NEW slot \in Slots, Released(l, slot)
  PROVE  Promise!Revoke(l)
<1> DEFINE r == reservations[l][slot]
<1>1. /\ Open(l) /\ Open(l)'
      /\ r # None
      /\ Advance(l)
      /\ UNCHANGED <<nextOwner, owner, aperture, ram>>
  BY DEF Released, Open
<1>2. /\ reservations'[l][slot] = None
      /\ \A i \in Slots \ {slot} : reservations'[l][i] = reservations[l][i]
      /\ \A m \in Ledgers \ {l} : reservations'[m] = reservations[m]
  BY DEF Released, IInv, TypeOK
<1>3. \A i \in Slots \ {slot} : reservations[l][i] # r
  BY <1>1 DEF IInv, TokensNeverReused
<1>4. LiveRecords(l)' = LiveRecords(l) \ {r}
  BY <1>2, <1>3 DEF LiveRecords
<1>5. r \in LiveRecords(l)
  BY <1>1 DEF LiveRecords
<1>6. AbstractLive[l] = LiveRecords(l)
  BY <1>1 DEF AbstractLive
<1>7. AbstractLive' = [AbstractLive EXCEPT ![l] = AbstractLive[l] \ {r}]
  BY <1>1, <1>2, <1>4, <1>6, LiveOfOne
<1>8. (outcome' = Lent) = FALSE
  BY DEF Released, Lent
<1> HIDE DEF r
<1> QED
  BY <1>1, <1>5, <1>6, <1>7, <1>8
     DEF Promise!Revoke, Promise!Bump, AbstractLive, Advance, Open, Lent

\* Every step of the ledger is a step of its promise, or none.
LEMMA StepKeepsPromise ==
  ASSUME IInv, [Next]_vars
  PROVE  [Promise!Next]_(Promise!vars)
<1>1. TypeOK' /\ Effect
  BY NextKeepsType, StepEffect DEF IInv
<1>2. ASSUME UNCHANGED <<nextOwner, ledgerVars>>
      PROVE  UNCHANGED <<1 .. nextOwner - 1, owner, aperture, AbstractLive,
                         generation, ram>>
  BY <1>2 DEF ledgerVars, AbstractLive, Open, LiveRecords
<1>3. CASE Quiet
  <2>1. CASE outcome' = outcome
    BY <1>2, <1>3, <2>1 DEF Quiet, Promise!vars, AbstractLive
  <2>2. CASE outcome' # Lent
    <3>1. (outcome' = Lent) = FALSE
      BY <2>2
    <3> QED
      BY <1>2, <1>3, <3>1
         DEF Quiet, Promise!Next, Promise!Observe, AbstractLive, Lent
  <2> QED  BY <1>3, <2>1, <2>2 DEF Quiet
<1>4. ASSUME NEW l \in Ledgers, NEW extent \in Apertures, Opened(l, extent)
      PROVE  Promise!Next
  BY <1>1, <1>4, OpenedOpens DEF Promise!Next
<1>5. ASSUME NEW l \in Ledgers, Drop(l)
      PROVE  Promise!Next
  <2>1. ~ Open(l)' /\ \A m \in Ledgers \ {l} : owner'[m] = owner[m]
    BY <1>5 DEF Drop, Open, IInv, TypeOK
  <2>2. AbstractLive' = [AbstractLive EXCEPT ![l] = {}]
    BY <1>5, <2>1, LiveOfOne DEF Drop
  <2>3. (outcome' = Lent) = FALSE
    BY <1>5 DEF Drop, Returns, Lent
  <2>4. Promise!Close(l)
    BY <1>5, <2>2, <2>3 DEF Drop, Open, Promise!Close, AbstractLive, Lent
  <2> QED  BY <2>4 DEF Promise!Next
<1>6. ASSUME NEW l \in Ledgers, Snapshot(l)
      PROVE  Promise!Next
  <2>1. (outcome' = Lent) = FALSE
    BY <1>6 DEF Snapshot, Returns, Lent
  <2> QED
    BY <1>2, <1>6, <2>1
       DEF Snapshot, Promise!Next, Promise!Observe, AbstractLive, Lent
<1>7. ASSUME NEW l \in Ledgers, NEW address \in Addresses, NEW request \in Requests,
             NEW purpose \in Purposes, Inserted(l, address, request, purpose)
      PROVE  Promise!Next
  BY <1>1, <1>7, InsertedGrants DEF Promise!Next
<1>8. ASSUME NEW l \in Ledgers, NEW slot \in Slots, Released(l, slot)
      PROVE  Promise!Next
  BY <1>1, <1>8, ReleasedRevokes DEF Promise!Next
<1>9. ASSUME NEW l \in Ledgers, NEW r \in LiveRecords(l), WrittenTo(l, r.extent),
             outcome' # Lent
      PROVE  Promise!Next
  <2>1. Promise!OnlyChanges(l, Promise!HostOffsets(l, r.extent))
    BY <1>9, WrittenOnly
  <2>2. /\ Open(l)
        /\ Advance(l)
        /\ UNCHANGED <<nextOwner, owner, aperture, reservations>>
    BY <1>9 DEF WrittenTo
  <2>3. AbstractLive[l] = LiveRecords(l) /\ AbstractLive' = AbstractLive
    BY <2>2 DEF AbstractLive, Open, LiveRecords
  <2>4. (outcome' = Lent) = FALSE
    BY <1>9
  <2>5. Promise!Write(l)
    BY <2>1, <2>2, <2>3, <2>4
       DEF Promise!Write, Promise!Bump, AbstractLive, Advance, Open, Lent
  <2> QED  BY <2>5 DEF Promise!Next
<1>10. ASSUME NEW l \in Ledgers, LentOut(l)
       PROVE  Promise!Next
  <2>1. Promise!OnlyChanges(l, Promise!HostOffsets(l, aperture[l]))
    BY <1>10, WrittenOnly DEF LentOut
  <2>2. /\ Open(l)
        /\ Advance(l)
        /\ UNCHANGED <<nextOwner, owner, aperture, reservations>>
    BY <1>10 DEF LentOut, WrittenTo
  <2>3. AbstractLive' = AbstractLive
    BY <2>2 DEF AbstractLive, Open, LiveRecords
  <2>4. (outcome' = Lent) = TRUE
    BY <1>10 DEF LentOut
  <2>5. Promise!Lend(l)
    BY <2>1, <2>2, <2>3, <2>4
       DEF Promise!Lend, Promise!Bump, AbstractLive, Advance, Open, Lent
  <2> QED  BY <2>5 DEF Promise!Next
<1> QED
  BY <1>1, <1>3, <1>4, <1>5, <1>6, <1>7, <1>8, <1>9, <1>10
     DEF Effect, Copied, Committed, LentOut, Lent

\* The ledger implements its promise.
THEOREM KeepsItsPromise == Spec => ImplementsPromise
<1>1. Init => Promise!Init
  <2> SUFFICES ASSUME Init PROVE Promise!Init
    OBVIOUS
  <2>1. AbstractLive = [l \in Ledgers |-> {}]
    BY DEF Init, AbstractLive, Open
  <2>2. 1 .. nextOwner - 1 = {}
    BY DEF Init
  <2>3. (outcome = Lent) = FALSE
    BY DEF Init, Lent
  <2> QED  BY <2>1, <2>2, <2>3 DEF Init, Extent, Promise!Init, AbstractLive, Lent
<1>2. IInv /\ [Next]_vars => [Promise!Next]_(Promise!vars)
  BY StepKeepsPromise
<1>3. Spec => Promise!Spec
  BY <1>1, <1>2, InductiveInvariant, PTL DEF Spec, Promise!Spec
<1> QED  BY <1>3 DEF ImplementsPromise

-----------------------------------------------------------------------------
(* Rounding *)

\* align_up returns the least multiple of the alignment at or above an address.
LEMMA AlignUpIsLeast ==
  ASSUME NEW n \in Nat, NEW a \in Nat \ {0}
  PROVE  /\ AlignUp(n, a) \in Nat
         /\ AlignUp(n, a) % a = 0
         /\ n <= AlignUp(n, a)
         /\ AlignUp(n, a) <= n + (a - 1)
         /\ \A m \in Nat : (m % a = 0 /\ n <= m) => AlignUp(n, a) <= m
<1> DEFINE q == (n + (a - 1)) \div a
           r == (n + (a - 1)) % a
<1>1. /\ q \in Nat
      /\ r \in 0 .. a - 1
      /\ n + (a - 1) = a * q + r
  OBVIOUS
<1>2. AlignUp(n, a) = q * a
  BY DEF AlignUp
<1> HIDE DEF q, r
<1>3. q * a \in Nat /\ a * q = q * a
  BY <1>1
<1>4. n <= q * a /\ q * a <= n + (a - 1)
  BY <1>1, <1>3
<1>5. (q * a) % a = 0
  BY ONLY <1>1, MultiplesDivide, a \in Nat \ {0}
<1>6. ASSUME NEW m \in Nat, m % a = 0, n <= m
      PROVE  q * a <= m
  <2>1. PICK p \in Nat : m = p * a
    <3>1. m \div a \in Nat /\ m = a * (m \div a) + (m % a)
      OBVIOUS
    <3>2. m = a * (m \div a)
      BY <1>6, <3>1
    <3>3. a * (m \div a) = (m \div a) * a
      BY <3>1
    <3> QED  BY <3>1, <3>2, <3>3, Zenon
  <2>2. CASE q <= p
    BY <1>1, <2>1, <2>2
  <2>3. CASE p < q
    <3>1. p + 1 <= q
      BY <1>1, <2>1, <2>3
    <3>2. (p + 1) * a <= q * a
      BY <1>1, <2>1, <3>1
    <3>3. (p + 1) * a = m + a
      BY <2>1
    <3> QED  BY <1>3, <1>4, <1>6, <3>2, <3>3
  <2> QED  BY <1>1, <2>1, <2>2, <2>3
<1> QED  BY <1>2, <1>3, <1>4, <1>5, <1>6

-----------------------------------------------------------------------------
(* Types *)

\* What holds of one ledger and its running search.
SearchState(l) ==
  /\ Open(l) => End(aperture[l]) <= MaxAddress
  /\ Searching(l) =>
       /\ Open(l)
       /\ RequestCheck(search[l].request) = "Ok"
       /\ FreeSlots(l) # {}
       /\ aperture[l].address <= search[l].candidate
       /\ search[l].candidate % search[l].request.alignment = 0
       /\ \A a \in 0 .. search[l].candidate - 1 : ~ Fits(l, search[l].request, a)

SearchInv ==
  /\ TypeOK
  /\ search \in [Ledgers -> Searches \cup {None}]
  /\ \A l \in Ledgers : SearchState(l)

\* A request that passed validate_request has a size and an alignment.
LEMMA CheckedRequest ==
  ASSUME NEW request \in Requests, RequestCheck(request) = "Ok"
  PROVE  /\ request.bytes \in Nat \ {0}
         /\ request.alignment \in Nat \ {0}
         /\ (MaxAddress + 1) % request.alignment = 0
<1>1. request.bytes \in Nat /\ request.alignment \in Nat
  BY RequestAssumption, LedgerAssumption
<1>2. request.bytes # 0 /\ IsPowerOfTwo(request.alignment)
  BY DEF RequestCheck
<1>3. request.alignment # 0
  BY <1>1, <1>2 DEF IsPowerOfTwo
<1> QED  BY <1>1, <1>2, <1>3, WordAssumption

\* An alignment that does not overflow stays an address.
LEMMA AlignedIsAddress ==
  ASSUME NEW n \in Nat, NEW a \in Nat \ {0}, ~ AlignUpOverflows(n, a)
  PROVE  AlignUp(n, a) \in Addresses
BY AlignUpIsLeast, LedgerAssumption DEF AlignUpOverflows, Addresses

\* A call on ledger m leaves the others as they are, and m keeps its aperture
\* unless it gets a new one that ends at an address.
LEMMA CallsTouchOneLedger ==
  ASSUME TypeOK, NEW m \in Ledgers, Call(m)
  PROVE  /\ \A l \in Ledgers \ {m} :
              UNCHANGED <<owner[l], aperture[l], reservations[l]>>
         /\ \/ owner'[m] = 0
            \/ owner'[m] = owner[m] /\ aperture'[m] = aperture[m]
            \/ End(aperture'[m]) <= MaxAddress
<1> DEFINE Others == \A l \in Ledgers \ {m} :
                       UNCHANGED <<owner[l], aperture[l], reservations[l]>>
           Own == \/ owner'[m] = 0
                  \/ owner'[m] = owner[m] /\ aperture'[m] = aperture[m]
                  \/ End(aperture'[m]) <= MaxAddress
<1> USE DEF TypeOK, Rejects, ledgerVars
<1>1. ASSUME NEW extent \in Apertures, New(m, extent)
      PROVE  Others /\ Own
  <2>1. End(extent) \in Int
    BY RequestAssumption, LedgerAssumption DEF End
  <2>2. CASE UNCHANGED <<owner, aperture, reservations>>
    BY <2>2
  <2>3. CASE /\ NewCheck(extent) = "Ok"
             /\ owner' = [owner EXCEPT ![m] = nextOwner]
             /\ aperture' = [aperture EXCEPT ![m] = extent]
             /\ reservations' = [reservations EXCEPT ![m] = [i \in Slots |-> None]]
    <3>1. End(extent) <= MaxAddress
      BY <2>1, <2>3, LedgerAssumption DEF NewCheck
    <3>2. aperture'[m] = extent
      BY <2>3
    <3> QED  BY <2>3, <3>1, <3>2
  <2> QED  BY <1>1, <2>2, <2>3 DEF New
<1>2. CASE Drop(m)
  BY <1>2 DEF Drop
<1>3. CASE Snapshot(m)
  BY <1>3 DEF Snapshot
<1>4. ASSUME NEW address, NEW request, NEW purpose,
             ReserveAt(m, address, request, purpose)
      PROVE  Others /\ Own
  BY <1>4 DEF ReserveAt, Insert
<1>5. ASSUME NEW token, Release(m, token)
      PROVE  Others /\ Own
  BY <1>5 DEF Release
<1>6. ASSUME NEW token, Read(m, token)
      PROVE  Others /\ Own
  BY <1>6 DEF Read
<1>7. ASSUME NEW token, NEW copy, NEW byte, CopyInto(m, token, copy, byte)
      PROVE  Others /\ Own
  BY <1>7 DEF CopyInto
<1>8. ASSUME NEW token, NEW snapshot, NEW bytes, NEW byte,
             BindDeviceTree(m, snapshot, token, bytes, byte)
      PROVE  Others /\ Own
  BY <1>8 DEF BindDeviceTree
<1>9. ASSUME NEW tree, CommitDeviceTree(m, tree)
      PROVE  Others /\ Own
  BY <1>9 DEF CommitDeviceTree
<1>10. CASE WithGuestMemory(m)
  BY <1>10 DEF WithGuestMemory
<1> QED
  BY <1>1, <1>2, <1>3, <1>4, <1>5, <1>6, <1>7, <1>8, <1>9, <1>10 DEF Call

-----------------------------------------------------------------------------
(* The records in the way *)

\* Live records have extents.
LEMMA LiveRecordsType ==
  ASSUME TypeOK, NEW l \in Ledgers, NEW r \in LiveRecords(l)
  PROVE  /\ r.extent.address \in Addresses
         /\ r.extent.bytes \in Addresses \ {0}
         /\ r.extent.address \in Nat
         /\ r.extent.bytes \in Nat \ {0}
         /\ End(r.extent) \in 0 .. 2 * MaxAddress
<1>1. r \in ReservationRecords
  BY DEF TypeOK, LiveRecords
<1> QED
  BY <1>1, LedgerAssumption DEF ReservationRecords, End, Addresses

\* max_end: the end of a record in the way, and behind all of them.
LEMMA BlockingEndIsGreatest ==
  ASSUME TypeOK, NEW l \in Ledgers, NEW extent, Blockers(l, extent) # {}
  PROVE  /\ \E r \in Blockers(l, extent) : BlockingEnd(l, extent) = End(r.extent)
         /\ \A r \in Blockers(l, extent) : End(r.extent) <= BlockingEnd(l, extent)
         /\ BlockingEnd(l, extent) \in Nat
<1> DEFINE T == {End(r.extent) : r \in Blockers(l, extent)}
<1>1. T # {} /\ T \subseteq 0 .. 2 * MaxAddress
  BY LiveRecordsType DEF Blockers
<1>2. \E x \in T : \A y \in T : y <= x
  <2>1. 2 * MaxAddress \in Nat
    BY LedgerAssumption
  <2> HIDE DEF T
  <2> QED  BY <1>1, <2>1, GreatestNatural, Zenon
<1>3. \E e \in T : \A r \in Blockers(l, extent) : End(r.extent) <= e
  BY <1>2
<1>4. /\ BlockingEnd(l, extent) \in T
      /\ \A r \in Blockers(l, extent) : End(r.extent) <= BlockingEnd(l, extent)
  BY <1>3, Zenon DEF BlockingEnd
<1> QED  BY <1>1, <1>4, LedgerAssumption

\* Between a blocked candidate and the end of what blocks it nothing fits, and
\* that end lies behind the candidate.
LEMMA NothingFitsAmongBlockers ==
  ASSUME TypeOK, NEW l \in Ledgers, NEW request \in Requests,
         NEW c \in Nat, Blockers(l, Extent(c, request.bytes)) # {}
  PROVE  /\ c < BlockingEnd(l, Extent(c, request.bytes))
         /\ \A a \in Nat :
              (c <= a /\ a < BlockingEnd(l, Extent(c, request.bytes)))
                => ~ Fits(l, request, a)
<1>1. request.bytes \in Nat
  BY RequestAssumption, LedgerAssumption
<1>2. PICK r \in Blockers(l, Extent(c, request.bytes)) :
        BlockingEnd(l, Extent(c, request.bytes)) = End(r.extent)
  BY BlockingEndIsGreatest
<1>3. r \in LiveRecords(l) /\ Overlaps(Extent(c, request.bytes), r.extent)
  BY <1>2 DEF Blockers
<1>4. r.extent.address \in Nat /\ r.extent.bytes \in Nat
  BY <1>3, LiveRecordsType
<1>5. c < End(r.extent) /\ r.extent.address < c + request.bytes
  BY <1>3 DEF Overlaps, Extent, End
<1>6. ASSUME NEW a \in Nat, c <= a, a < End(r.extent)
      PROVE  ~ Fits(l, request, a)
  <2>1. r.extent.address < a + request.bytes
    BY <1>1, <1>4, <1>5, <1>6
  <2>2. Overlaps(Extent(a, request.bytes), r.extent)
    BY <1>6, <2>1 DEF Overlaps, Extent, End
  <2> QED  BY <1>3, <2>2 DEF Fits, Blockers
<1> QED  BY <1>2, <1>5, <1>6

\* No aligned address lies between an address and its rounding.
LEMMA NothingFitsBelowRounding ==
  ASSUME NEW l \in Ledgers, NEW request \in Requests,
         RequestCheck(request) = "Ok", NEW n \in Nat, NEW a \in Nat,
         n <= a, a < AlignUp(n, request.alignment)
  PROVE  ~ Fits(l, request, a)
<1>1. request.alignment \in Nat \ {0}
  BY CheckedRequest
<1>2. a % request.alignment = 0 => AlignUp(n, request.alignment) <= a
  BY <1>1, AlignUpIsLeast
<1>3. AlignUp(n, request.alignment) \in Nat
  BY <1>1, AlignUpIsLeast
<1> QED  BY <1>2, <1>3 DEF Fits

\* When rounding leaves the word, no aligned extent starts at or above it.
LEMMA NothingFitsPastTheWord ==
  ASSUME NEW l \in Ledgers, NEW request \in Requests,
         RequestCheck(request) = "Ok", NEW n \in Nat, NEW a \in Addresses,
         n <= a, AlignUpOverflows(n, request.alignment)
  PROVE  a % request.alignment # 0
<1> DEFINE k == request.alignment
<1>1. k \in Nat \ {0} /\ (MaxAddress + 1) % k = 0
  BY CheckedRequest
<1> HIDE DEF k
<1>2. SUFFICES ASSUME a % k = 0
               PROVE  FALSE
  BY DEF k
<1>3. a \in Nat /\ a + 1 \in Nat /\ MaxAddress + 1 \in Nat /\ a + 1 <= MaxAddress + 1
  BY LedgerAssumption DEF Addresses
<1>4. AlignUp(a + 1, k) <= MaxAddress + 1
  BY <1>1, <1>3, AlignUpIsLeast
<1>5. AlignUp(a + 1, k) = a + k
  <2>1. PICK p \in Nat : a = p * k
    <3>1. a \div k \in Nat /\ a = k * (a \div k) + (a % k)
      BY <1>1, <1>3
    <3>2. a = k * (a \div k)
      BY <1>1, <1>2, <1>3, <3>1
    <3>3. k * (a \div k) = (a \div k) * k
      BY <1>1, <3>1
    <3> QED  BY <3>1, <3>2, <3>3, Zenon
  <2>2. a + 1 + (k - 1) = (p + 1) * k
    BY <1>1, <2>1
  <2>3. ((p + 1) * k) \div k = p + 1
    <3> DEFINE q == p + 1
    <3>1. q \in Nat /\ (q * k) \div k = q
      BY <1>1, <2>1
    <3> QED  BY <3>1
  <2> QED  BY <1>1, <2>1, <2>2, <2>3 DEF AlignUp
<1>6. n + (k - 1) > MaxAddress
  BY DEF AlignUpOverflows, k
<1> QED  BY <1>1, <1>3, <1>4, <1>5, <1>6, LedgerAssumption

-----------------------------------------------------------------------------
(* The invariant of the search *)

\* The state of a ledger and its search is read from that ledger only.
LEMMA SearchStateFrame ==
  ASSUME NEW l \in Ledgers, SearchState(l),
         UNCHANGED <<owner[l], aperture[l], reservations[l], search[l]>>
  PROVE  SearchState(l)'
BY DEF SearchState, Searching, Open, FreeSlots, Fits, Blockers, LiveRecords

\* A search of its own type.
LEMMA SearchingType ==
  ASSUME SearchInv, NEW l \in Ledgers, Searching(l)
  PROVE  /\ search[l] \in Searches
         /\ search[l].request \in Requests
         /\ search[l].purpose \in Purposes
         /\ search[l].candidate \in Addresses
         /\ search[l].candidate \in Nat
         /\ search[l].request.bytes \in Nat \ {0}
         /\ search[l].request.alignment \in Nat \ {0}
         /\ RequestCheck(search[l].request) = "Ok"
         /\ aperture[l].address \in Nat
         /\ aperture[l].bytes \in Nat
         /\ End(aperture[l]) <= MaxAddress
<1>1. search[l] \in Searches /\ RequestCheck(search[l].request) = "Ok"
  BY DEF SearchInv, SearchState, Searching
<1>2. search[l].request \in Requests /\ search[l].candidate \in Addresses
  BY <1>1 DEF Searches
<1>3. search[l].candidate \in Nat
  BY <1>2, LedgerAssumption DEF Addresses
<1>4. aperture[l].address \in Nat /\ aperture[l].bytes \in Nat
  BY LedgerAssumption DEF SearchInv, TypeOK, Addresses
<1>5. End(aperture[l]) <= MaxAddress
  BY DEF SearchInv, SearchState
<1> QED  BY <1>1, <1>2, <1>3, <1>4, <1>5, CheckedRequest DEF Searches

\* Before the loop: rounding the aperture's start skips nothing that fits.
LEMMA EnterStep ==
  ASSUME SearchInv, NEW l \in Ledgers, NEW request \in Requests,
         NEW purpose \in Purposes, Enter(l, request, purpose)
  PROVE  SearchInv'
<1>1. ASSUME Rejects("allocate", EntryCheck(l, request)), UNCHANGED search
      PROVE  SearchInv'
  <2>1. EntryCheck(l, request) \in Results
    BY DEF EntryCheck, RequestCheck, Results, Errors
  <2>2. TypeOK'
    BY <1>1, <2>1, RejectsKeepsType DEF SearchInv, Calls
  <2>3. UNCHANGED <<owner, aperture, reservations, search>>
    BY <1>1 DEF Rejects, ledgerVars
  <2> QED  BY <2>2, <2>3, SearchStateFrame DEF SearchInv
<1>2. ASSUME EntryCheck(l, request) = "Ok", UNCHANGED vars,
             search' = [search EXCEPT ![l] =
               [request   |-> request,
                purpose   |-> purpose,
                candidate |-> AlignUp(aperture[l].address, request.alignment)]]
      PROVE  SearchInv'
  <2> DEFINE start == AlignUp(aperture[l].address, request.alignment)
             entry == [request |-> request, purpose |-> purpose,
                       candidate |-> start]
  <2>1. /\ RequestCheck(request) = "Ok"
        /\ FreeSlots(l) # {}
        /\ ~ AlignUpOverflows(aperture[l].address, request.alignment)
    BY <1>2 DEF EntryCheck
  <2>2. request.alignment \in Nat \ {0}
    BY <2>1, CheckedRequest
  <2>3. aperture[l].address \in Nat
    BY LedgerAssumption DEF SearchInv, TypeOK, Addresses
  <2>4. /\ start \in Addresses
        /\ start % request.alignment = 0
        /\ aperture[l].address <= start
    BY <2>1, <2>2, <2>3, AlignedIsAddress, AlignUpIsLeast
  <2>5. \A a \in 0 .. start - 1 : ~ Fits(l, request, a)
    <3> TAKE a \in 0 .. start - 1
    <3>1. a \in Nat /\ a < start
      BY <2>4, LedgerAssumption DEF Addresses
    <3>2. CASE aperture[l].address <= a
      BY <2>1, <2>3, <3>1, <3>2, NothingFitsBelowRounding
    <3>3. CASE a < aperture[l].address
      BY <2>3, <3>1, <3>3 DEF Fits, Inside, Extent
    <3> QED  BY <2>3, <3>1, <3>2, <3>3
  <2>6. TypeOK'
    BY <1>2, NextKeepsType DEF SearchInv
  <2>7. entry \in Searches
    BY <2>4 DEF Searches
  <2>8. search' \in [Ledgers -> Searches \cup {None}] /\ search'[l] = entry
    BY <1>2, <2>7 DEF SearchInv
  <2>9. UNCHANGED <<owner, aperture, reservations>>
    BY <1>2 DEF vars, ledgerVars
  <2>10. \A m \in Ledgers \ {l} : SearchState(m)'
    BY <1>2, <2>9, SearchStateFrame DEF SearchInv
  <2>11. SearchState(l)'
    <3> HIDE DEF start
    <3> QED
      BY <2>1, <2>4, <2>5, <2>8, <2>9
         DEF SearchInv, SearchState, Enter, Searching, Open, FreeSlots, Fits,
             Blockers, LiveRecords
  <2> QED  BY <2>6, <2>8, <2>10, <2>11 DEF SearchInv
<1> QED  BY <1>1, <1>2 DEF Enter

\* One iteration past blockers: what it jumps over does not fit.
LEMMA SkipStep ==
  ASSUME SearchInv, NEW l \in Ledgers, Skip(l)
  PROVE  /\ SearchInv'
         /\ search'[l] # None
         /\ search[l].candidate <= search'[l].candidate
         /\ BlockingEnd(l, Candidate(l)) <= search'[l].candidate
         /\ Blockers(l, Candidate(l)) # {}
         /\ UNCHANGED reservations
         /\ \A m \in Ledgers \ {l} : search'[m] = search[m]
<1> DEFINE c == search[l].candidate
           request == search[l].request
           next == BlockingEnd(l, Candidate(l))
           target == AlignUp(next, request.alignment)
<1>1. /\ Searching(l)
      /\ IterationCheck(l) = "Ok"
      /\ Blockers(l, Candidate(l)) # {}
      /\ search' = [search EXCEPT ![l].candidate = target]
      /\ UNCHANGED vars
  BY DEF Skip, SkipTo
<1>2. /\ search[l] \in Searches /\ request \in Requests
      /\ c \in Nat /\ request.alignment \in Nat \ {0}
      /\ RequestCheck(request) = "Ok"
  BY <1>1, SearchingType
<1>3. /\ next \in Nat /\ c < next
      /\ \A a \in Nat : (c <= a /\ a < next) => ~ Fits(l, request, a)
  <2>1. TypeOK /\ Candidate(l) = Extent(c, request.bytes)
    BY DEF SearchInv, Candidate
  <2> QED  BY <1>1, <1>2, <2>1, BlockingEndIsGreatest, NothingFitsAmongBlockers
<1>4. ~ AlignUpOverflows(next, request.alignment)
  BY <1>1 DEF IterationCheck
<1>5. /\ target \in Addresses /\ target \in Nat
      /\ target % request.alignment = 0
      /\ next <= target
  BY <1>2, <1>3, <1>4, AlignedIsAddress, AlignUpIsLeast
<1>6. SearchState(l)
  BY DEF SearchInv
<1>7. \A a \in 0 .. target - 1 : ~ Fits(l, request, a)
  <2> TAKE a \in 0 .. target - 1
  <2>1. a \in Nat /\ a < target
    BY <1>5
  <2>2. CASE a < c
    <3>1. a \in 0 .. c - 1
      BY <1>2, <2>1, <2>2
    <3> QED  BY <1>1, <1>6, <3>1 DEF SearchState
  <2>3. CASE c <= a /\ a < next
    BY <1>3, <2>1, <2>3
  <2>4. CASE next <= a
    BY <1>2, <1>3, <2>1, <2>4, NothingFitsBelowRounding
  <2> QED  BY <1>2, <1>3, <2>1, <2>2, <2>3, <2>4
<1>8. TypeOK'
  BY <1>1, NextKeepsType DEF SearchInv
<1>9. search'[l] = [search[l] EXCEPT !.candidate = target]
  BY <1>1 DEF SearchInv
<1>10. /\ search'[l] \in Searches
       /\ search'[l].request = request
       /\ search'[l].candidate = target
  BY <1>2, <1>5, <1>9 DEF Searches
<1>11. /\ search' \in [Ledgers -> Searches \cup {None}]
       /\ \A m \in Ledgers \ {l} : search'[m] = search[m]
  BY <1>1, <1>10 DEF SearchInv
<1>12. UNCHANGED <<owner, aperture, reservations>>
  BY <1>1 DEF vars, ledgerVars
<1>13. \A m \in Ledgers \ {l} : SearchState(m)'
  BY <1>11, <1>12, SearchStateFrame DEF SearchInv
<1>14. aperture[l].address <= target
  <2>1. aperture[l].address <= c
    BY <1>1, <1>6 DEF SearchState
  <2>2. aperture[l].address \in Nat
    BY <1>1, SearchingType
  <2> QED  BY <1>2, <1>3, <1>5, <2>1, <2>2
<1>15. SearchState(l)'
  <2> HIDE DEF target
  <2> QED
    BY <1>1, <1>2, <1>5, <1>6, <1>7, <1>10, <1>12, <1>14
       DEF SearchState, Searching, Open, FreeSlots, Fits, Blockers, LiveRecords
<1>16. SearchInv'
  BY <1>8, <1>11, <1>13, <1>15 DEF SearchInv
<1>17. search'[l] # None
  BY <1>10, NoSearchAssumption
<1>18. c <= target
  BY <1>2, <1>3, <1>5
<1> QED  BY <1>1, <1>5, <1>10, <1>11, <1>12, <1>16, <1>17, <1>18

\* The extent the loop hands to reserve_at.
LEMMA PlaceStep ==
  ASSUME SearchInv, NEW l \in Ledgers, Place(l)
  PROVE  /\ SearchInv'
         /\ Fits(l, search[l].request, search[l].candidate)
         /\ \A m \in Ledgers \ {l} : UNCHANGED <<search[m], reservations[m]>>
<1>1. /\ Searching(l)
      /\ IterationCheck(l) = "Ok"
      /\ Blockers(l, Candidate(l)) = {}
      /\ Returns("allocate", "Ok")
      /\ Insert(l, search[l].candidate, search[l].request, search[l].purpose)
      /\ search' = [search EXCEPT ![l] = None]
  BY DEF Place
<1>2. /\ search[l].candidate \in Addresses
      /\ search[l].request \in Requests
      /\ search[l].purpose \in Purposes
      /\ search[l].candidate \in Nat
      /\ search[l].request.bytes \in Nat
      /\ aperture[l].address \in Nat
      /\ aperture[l].bytes \in Nat
  BY <1>1, SearchingType
<1>3. /\ ReserveCheck(l, search[l].candidate, search[l].request) = "Ok"
      /\ ~ End(Candidate(l)) > End(aperture[l])
  BY <1>1 DEF IterationCheck
<1>4. TypeOK'
  BY <1>1, <1>2, <1>3, InsertKeepsType DEF SearchInv, Calls
<1>5. /\ search' \in [Ledgers -> Searches \cup {None}]
      /\ search'[l] = None
      /\ \A m \in Ledgers \ {l} : search'[m] = search[m]
  BY <1>1 DEF SearchInv
<1>6. /\ UNCHANGED <<owner, aperture>>
      /\ \A m \in Ledgers \ {l} : reservations'[m] = reservations[m]
  BY <1>1 DEF Insert, SearchInv, TypeOK
<1>7. \A m \in Ledgers \ {l} : SearchState(m)'
  BY <1>5, <1>6, SearchStateFrame DEF SearchInv
<1>8. SearchState(l)'
  BY <1>5, <1>6 DEF SearchInv, SearchState, Searching, Open
<1>9. /\ search[l].candidate % search[l].request.alignment = 0
      /\ aperture[l].address <= search[l].candidate
  BY <1>1 DEF SearchInv, SearchState
<1>10. Fits(l, search[l].request, search[l].candidate)
  BY <1>1, <1>2, <1>3, <1>9 DEF Fits, Inside, Candidate, Extent, End
<1> QED  BY <1>4, <1>5, <1>6, <1>7, <1>8, <1>10 DEF SearchInv

\* Giving up: the ledger stays as it is.
LEMMA FailStep ==
  ASSUME SearchInv, NEW l \in Ledgers, Fail(l)
  PROVE  /\ SearchInv'
         /\ UNCHANGED reservations
         /\ \A m \in Ledgers \ {l} : search'[m] = search[m]
<1>1. /\ Rejects("allocate", IterationCheck(l))
      /\ search' = [search EXCEPT ![l] = None]
  BY DEF Fail
<1>2. IterationCheck(l) \in Results
  BY DEF IterationCheck, ReserveCheck, RequestCheck, GenerationCheck, Results, Errors
<1>3. TypeOK'
  BY <1>1, <1>2, RejectsKeepsType DEF SearchInv, Calls
<1>4. UNCHANGED <<owner, aperture, reservations>>
  BY <1>1 DEF Rejects, ledgerVars
<1>5. /\ search' \in [Ledgers -> Searches \cup {None}]
      /\ search'[l] = None
      /\ \A m \in Ledgers \ {l} : search'[m] = search[m]
  BY <1>1 DEF SearchInv
<1>6. \A m \in Ledgers \ {l} : SearchState(m)'
  BY <1>4, <1>5, SearchStateFrame DEF SearchInv
<1>7. SearchState(l)'
  BY <1>4, <1>5 DEF SearchInv, SearchState, Searching, Open
<1> QED  BY <1>3, <1>4, <1>5, <1>6, <1>7 DEF SearchInv

\* Other calls wait for the loop to return.
LEMMA OtherCallStep ==
  ASSUME SearchInv, NEW l \in Ledgers, ~ Searching(l), Call(l), UNCHANGED search
  PROVE  /\ SearchInv'
         /\ \A m \in Ledgers \ {l} : reservations'[m] = reservations[m]
<1>1. TypeOK /\ Next
  BY DEF SearchInv, Next
<1>2. TypeOK'
  BY <1>1, NextKeepsType
<1>3. /\ \A m \in Ledgers \ {l} :
           UNCHANGED <<owner[m], aperture[m], reservations[m]>>
      /\ \/ owner'[l] = 0
         \/ owner'[l] = owner[l] /\ aperture'[l] = aperture[l]
         \/ End(aperture'[l]) <= MaxAddress
  BY <1>1, CallsTouchOneLedger
<1>4. \A m \in Ledgers \ {l} : SearchState(m)'
  BY <1>3, SearchStateFrame DEF SearchInv
<1>5. SearchState(l)'
  BY <1>3 DEF SearchInv, SearchState, Searching, Open
<1> QED  BY <1>2, <1>3, <1>4, <1>5 DEF SearchInv

\* Every step keeps the invariant.
LEMMA SearchInvStep ==
  ASSUME SearchInv, [SearchNext]_searchVars
  PROVE  SearchInv'
<1>1. CASE UNCHANGED searchVars
  <2>1. TypeOK'
    BY <1>1, NextKeepsType DEF SearchInv, searchVars
  <2>2. UNCHANGED <<owner, aperture, reservations, search>>
    BY <1>1 DEF searchVars, vars, ledgerVars
  <2> QED  BY <2>1, <2>2, SearchStateFrame DEF SearchInv
<1>2. ASSUME NEW l \in Ledgers, NEW request \in Requests, NEW purpose \in Purposes,
             Enter(l, request, purpose)
      PROVE  SearchInv'
  BY <1>2, EnterStep
<1>3. ASSUME NEW l \in Ledgers, Iterate(l)
      PROVE  SearchInv'
  BY <1>3, SkipStep, PlaceStep, FailStep DEF Iterate
<1>4. ASSUME NEW l \in Ledgers, ~ Searching(l), Call(l), UNCHANGED search
      PROVE  SearchInv'
  BY <1>4, OtherCallStep
<1> QED  BY <1>1, <1>2, <1>3, <1>4 DEF SearchNext

LEMMA SearchInvInit ==
  ASSUME SearchInit
  PROVE  SearchInv
<1>1. TypeOK
  BY InitTypeOK DEF SearchInit
<1>2. search \in [Ledgers -> Searches \cup {None}] /\ \A l \in Ledgers : ~ Searching(l)
  BY DEF SearchInit, Searching
<1>3. \A l \in Ledgers : ~ Open(l)
  BY DEF SearchInit, Init, Open
<1> QED  BY <1>1, <1>2, <1>3 DEF SearchInv, SearchState

\* The state of the loop is the one its iterations rely on: an aligned
\* candidate inside the address space, a free slot, a checked request.
THEOREM SearchInvariant == SearchSpec => []SearchInv
<1>1. SearchInit => SearchInv
  BY SearchInvInit
<1>2. SearchInv /\ [SearchNext]_searchVars => SearchInv'
  BY SearchInvStep
<1> QED  BY <1>1, <1>2, PTL DEF SearchSpec

\* At every iteration of allocate() everything below the candidate is ruled out.
THEOREM NothingFitsBelow == SearchSpec => []NoFitBelowCandidate
<1>1. SearchInv => NoFitBelowCandidate
  BY DEF SearchInv, SearchState, NoFitBelowCandidate
<1> QED  BY <1>1, SearchInvariant, PTL

-----------------------------------------------------------------------------
(* What the loop returns *)

\* When the loop gives up for lack of room, nothing fits at all: below the
\* candidate by the invariant, above it because the end leaves the aperture
\* or the next aligned address leaves the word.
LEMMA GivesUpOnlyWhenFull ==
  ASSUME SearchInv, NEW l \in Ledgers, Fail(l)
  PROVE  \/ /\ outcome'.result \in {"NoSpace", "ArithmeticOverflow"}
            /\ \A a \in Addresses : ~ Fits(l, search[l].request, a)
         \/ outcome'.result = "GenerationExhausted"
<1> DEFINE c == search[l].candidate
           request == search[l].request
           next == BlockingEnd(l, Candidate(l))
           full == \A a \in Addresses : ~ Fits(l, request, a)
<1>1. /\ Searching(l)
      /\ IterationCheck(l) # "Ok"
      /\ outcome'.result = IterationCheck(l)
  BY DEF Fail, Rejects, Returns
<1>2. /\ request \in Requests
      /\ c \in Nat
      /\ request.bytes \in Nat
      /\ RequestCheck(request) = "Ok"
      /\ aperture[l].address \in Nat
      /\ aperture[l].bytes \in Nat
      /\ End(aperture[l]) <= MaxAddress
  BY <1>1, SearchingType
<1>3. /\ FreeSlots(l) # {}
      /\ aperture[l].address <= c
      /\ c % request.alignment = 0
      /\ \A a \in 0 .. c - 1 : ~ Fits(l, request, a)
  BY <1>1 DEF SearchInv, SearchState
<1>4. Candidate(l) = Extent(c, request.bytes) /\ End(Candidate(l)) = c + request.bytes
  BY DEF Candidate, Extent, End
<1>5. End(aperture[l]) \in Nat
  BY <1>2 DEF End
<1>6. ASSUME NEW a \in Addresses, a < c
      PROVE  ~ Fits(l, request, a)
  BY <1>2, <1>3, <1>6, LedgerAssumption DEF Addresses
<1>7. CASE End(Candidate(l)) > MaxAddress \/ End(Candidate(l)) > End(aperture[l])
  <2>1. c + request.bytes > End(aperture[l])
    BY <1>2, <1>4, <1>5, <1>7, LedgerAssumption
  <2>2. ASSUME NEW a \in Addresses, c <= a
        PROVE  ~ Fits(l, request, a)
    <3>1. a + request.bytes > End(aperture[l])
      BY <1>2, <1>5, <2>1, <2>2, LedgerAssumption DEF Addresses
    <3> QED  BY <1>2, <1>5, <3>1, LedgerAssumption
               DEF Fits, Inside, Extent, End, Addresses
  <2>3. full
    BY <1>2, <1>6, <2>2, LedgerAssumption DEF Addresses
  <2>4. IterationCheck(l) \in {"NoSpace", "ArithmeticOverflow"}
    BY <1>7 DEF IterationCheck
  <2> QED  BY <1>1, <2>3, <2>4
<1>8. CASE ~ (End(Candidate(l)) > MaxAddress \/ End(Candidate(l)) > End(aperture[l]))
  <2>1. CASE Blockers(l, Candidate(l)) = {}
    <3>1. IterationCheck(l) = ReserveCheck(l, c, request)
      BY <1>8, <2>1 DEF IterationCheck
    <3>2. Inside(Extent(c, request.bytes), aperture[l])
      BY <1>2, <1>3, <1>4, <1>5, <1>8 DEF Inside, Extent, End
    <3>3. ~ \E r \in LiveRecords(l) : Overlaps(Extent(c, request.bytes), r.extent)
      BY <1>4, <2>1 DEF Blockers
    <3>4. ReserveCheck(l, c, request) = GenerationCheck(l)
      BY <1>2, <1>3, <1>4, <1>8, <3>2, <3>3 DEF ReserveCheck
    <3> QED  BY <1>1, <3>1, <3>4 DEF GenerationCheck
  <2>2. CASE Blockers(l, Candidate(l)) # {}
    <3>1. /\ IterationCheck(l) = "ArithmeticOverflow"
          /\ AlignUpOverflows(next, request.alignment)
      BY <1>1, <1>8, <2>2 DEF IterationCheck
    <3>2. /\ next \in Nat
          /\ \A a \in Nat : (c <= a /\ a < next) => ~ Fits(l, request, a)
      <4>1. TypeOK
        BY DEF SearchInv
      <4> QED
        BY <1>2, <1>4, <2>2, <4>1, BlockingEndIsGreatest, NothingFitsAmongBlockers
    <3>3. ASSUME NEW a \in Addresses
          PROVE  ~ Fits(l, request, a)
      <4>1. a \in Nat
        BY LedgerAssumption DEF Addresses
      <4>2. CASE a < c
        BY <1>6, <4>2
      <4>3. CASE c <= a /\ a < next
        BY <3>2, <4>1, <4>3
      <4>4. CASE next <= a
        BY <1>2, <3>1, <3>2, <4>1, <4>4, NothingFitsPastTheWord DEF Fits
      <4> QED  BY <1>2, <3>2, <4>1, <4>2, <4>3, <4>4
    <3> QED  BY <1>1, <3>1, <3>3
  <2> QED  BY <2>1, <2>2
<1> QED  BY <1>7, <1>8

\* allocate() returns the lowest aligned address that fits, and fails for lack
\* of room only when no address does.
THEOREM LowestFirstFit == SearchSpec => PlacesLowestFit
<1> DEFINE Result(l) ==
       \/ /\ outcome'.result = "Ok"
          /\ Fits(l, search[l].request, search[l].candidate)
          /\ \A a \in 0 .. search[l].candidate - 1 : ~ Fits(l, search[l].request, a)
       \/ /\ outcome'.result \in {"NoSpace", "ArithmeticOverflow"}
          /\ \A a \in Addresses : ~ Fits(l, search[l].request, a)
       \/ outcome'.result = "GenerationExhausted"
    A == \A l \in Ledgers : (Searching(l) /\ search'[l] = None) => Result(l)
<1>1. ASSUME SearchInv, [SearchNext]_searchVars
      PROVE  A
  <2> SUFFICES ASSUME NEW l \in Ledgers, Searching(l), search'[l] = None
               PROVE  Result(l)
    OBVIOUS
  <2>1. search[l] # None /\ search'[l] # search[l]
    BY DEF Searching
  <2>2. CASE UNCHANGED searchVars
    BY <2>1, <2>2 DEF searchVars
  <2>3. ASSUME NEW k \in Ledgers, NEW request \in Requests, NEW purpose \in Purposes,
               Enter(k, request, purpose)
        PROVE  FALSE
    BY <1>1, <2>1, <2>3 DEF Enter, Searching, SearchInv
  <2>4. ASSUME NEW k \in Ledgers, Skip(k)
        PROVE  FALSE
    <3>1. search'[k] # None /\ \A m \in Ledgers \ {k} : search'[m] = search[m]
      BY <1>1, <2>4, SkipStep
    <3> QED  BY <2>1, <3>1
  <2>5. ASSUME NEW k \in Ledgers, Place(k)
        PROVE  Result(l)
    <3>1. /\ Fits(k, search[k].request, search[k].candidate)
          /\ \A m \in Ledgers \ {k} : search'[m] = search[m]
      BY <1>1, <2>5, PlaceStep
    <3>2. k = l
      BY <2>1, <3>1
    <3>3. outcome'.result = "Ok"
      BY <2>5 DEF Place, Returns
    <3>4. \A a \in 0 .. search[l].candidate - 1 : ~ Fits(l, search[l].request, a)
      BY <1>1 DEF SearchInv, SearchState
    <3> QED  BY <3>1, <3>2, <3>3, <3>4
  <2>6. ASSUME NEW k \in Ledgers, Fail(k)
        PROVE  Result(l)
    <3>1. \A m \in Ledgers \ {k} : search'[m] = search[m]
      BY <1>1, <2>6, FailStep
    <3>2. k = l
      BY <2>1, <3>1
    <3> QED  BY <1>1, <2>6, <3>2, GivesUpOnlyWhenFull
  <2>7. ASSUME UNCHANGED search
        PROVE  FALSE
    BY <2>1, <2>7
  <2> QED  BY <1>1, <2>2, <2>3, <2>4, <2>5, <2>6, <2>7 DEF SearchNext, Iterate
<1>2. SearchSpec => [][A]_searchVars
  BY <1>1, SearchInvariant, PTL DEF SearchSpec
<1> QED  BY <1>2 DEF PlacesLowestFit

\* Each iteration that goes on leaves one more live reservation behind, so the
\* loop cannot go round more often than the table is long.
THEOREM EachIterationAdvances == SearchSpec => EachSkipPassesARecord
<1> DEFINE Advances(l) ==
       \/ search'[l] = search[l] /\ Passed(l)' = Passed(l)
       \/ Passed(l) \subseteq Passed(l)' /\ Passed(l) # Passed(l)'
    A == \A l \in Ledgers : (Searching(l) /\ search'[l] # None) => Advances(l)
<1>1. ASSUME SearchInv, [SearchNext]_searchVars
      PROVE  A
  <2> SUFFICES ASSUME NEW l \in Ledgers, Searching(l), search'[l] # None
               PROVE  Advances(l)
    OBVIOUS
  <2>1. ASSUME search'[l] = search[l], reservations'[l] = reservations[l]
        PROVE  Advances(l)
    BY <2>1 DEF Passed, LiveRecords
  <2>2. CASE UNCHANGED searchVars
    BY <2>1, <2>2 DEF searchVars, vars, ledgerVars
  <2>3. ASSUME NEW k \in Ledgers, NEW request \in Requests, NEW purpose \in Purposes,
               Enter(k, request, purpose)
        PROVE  Advances(l)
    <3>1. k # l
      BY <2>3 DEF Enter
    <3>2. search'[l] = search[l] /\ UNCHANGED reservations
      BY <1>1, <2>3, <3>1 DEF Enter, SearchInv, Rejects, vars, ledgerVars
    <3> QED  BY <2>1, <3>2
  <2>4. ASSUME NEW k \in Ledgers, Skip(k)
        PROVE  Advances(l)
    <3>1. /\ search[k].candidate <= search'[k].candidate
          /\ BlockingEnd(k, Candidate(k)) <= search'[k].candidate
          /\ Blockers(k, Candidate(k)) # {}
          /\ UNCHANGED reservations
          /\ \A m \in Ledgers \ {k} : search'[m] = search[m]
          /\ SearchInv'
      BY <1>1, <2>4, SkipStep
    <3>2. CASE k # l
      BY <2>1, <3>1, <3>2
    <3>3. CASE k = l
      <4>1. /\ search[l].candidate \in Nat
            /\ search'[l].candidate \in Nat
            /\ search[l].request \in Requests
        <5>1. search'[l] \in Searches
          BY <3>1 DEF SearchInv
        <5> QED  BY <1>1, <5>1, SearchingType, LedgerAssumption DEF Searches, Addresses
      <4>2. LiveRecords(l)' = LiveRecords(l)
        BY <3>1 DEF LiveRecords
      <4>3. Passed(l) \subseteq Passed(l)'
        <5> SUFFICES ASSUME NEW r \in LiveRecords(l),
                            End(r.extent) <= search[l].candidate
                     PROVE  End(r.extent) <= search'[l].candidate
          BY <4>2 DEF Passed
        <5>1. End(r.extent) \in Nat
          BY <1>1, LiveRecordsType, LedgerAssumption DEF SearchInv
        <5> QED  BY <3>1, <3>3, <4>1, <5>1
      <4>4. PICK r \in Blockers(l, Candidate(l)) :
              BlockingEnd(l, Candidate(l)) = End(r.extent)
        BY <1>1, <3>1, <3>3, BlockingEndIsGreatest DEF SearchInv
      <4>5. r \in Passed(l)'
        BY <3>1, <3>3, <4>2, <4>4 DEF Passed, Blockers
      <4>6. r \notin Passed(l)
        <5>1. search[l].candidate < End(r.extent)
          BY <1>1, <3>1, <3>3, <4>1, <4>4, NothingFitsAmongBlockers
             DEF SearchInv, Candidate
        <5>2. End(r.extent) \in Nat
          BY <1>1, <4>4, LiveRecordsType, LedgerAssumption DEF SearchInv, Blockers
        <5> QED  BY <4>1, <5>1, <5>2 DEF Passed
      <4> QED  BY <4>3, <4>5, <4>6
    <3> QED  BY <3>2, <3>3
  <2>5. ASSUME NEW k \in Ledgers, Place(k)
        PROVE  Advances(l)
    <3>1. \A m \in Ledgers \ {k} : UNCHANGED <<search[m], reservations[m]>>
      BY <1>1, <2>5, PlaceStep
    <3>2. k # l
      BY <1>1, <2>5 DEF Place, SearchInv
    <3> QED  BY <2>1, <3>1, <3>2
  <2>6. ASSUME NEW k \in Ledgers, Fail(k)
        PROVE  Advances(l)
    <3>1. UNCHANGED reservations /\ \A m \in Ledgers \ {k} : search'[m] = search[m]
      BY <1>1, <2>6, FailStep
    <3>2. k # l
      BY <1>1, <2>6 DEF Fail, SearchInv
    <3> QED  BY <2>1, <3>1, <3>2
  <2>7. ASSUME NEW k \in Ledgers, ~ Searching(k), Call(k), UNCHANGED search
        PROVE  Advances(l)
    BY <1>1, <2>1, <2>7, OtherCallStep
  <2> QED  BY <1>1, <2>2, <2>3, <2>4, <2>5, <2>6, <2>7 DEF SearchNext, Iterate
<1>2. SearchSpec => [][A]_searchVars
  BY <1>1, SearchInvariant, PTL DEF SearchSpec
<1> QED  BY <1>2 DEF EachSkipPassesARecord

=============================================================================
