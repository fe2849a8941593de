----------------------------- MODULE GuestMemory -----------------------------
(***************************************************************************)
(* The guest allocation ledger of src/src/guest_memory.rs: an exclusive    *)
(* host backing seen through a guest aperture, a fixed table of live       *)
(* reservations, and device trees that are bound to one generation of the  *)
(* ledger and committed only while that generation is current.             *)
(*                                                                         *)
(* Several ledgers share the process-wide identity counter NEXT_OWNER.     *)
(* Callers keep every token they were given (tokens are Copy), so a call   *)
(* may present a token of another ledger, of a ledger dropped since, or of *)
(* a reservation released since.  A call that returns Err is a step too:   *)
(* it leaves its error in "outcome" and changes nothing else.              *)
(*                                                                         *)
(* u64::MAX is modelled three times, at the scale each use needs:          *)
(* MaxAddress, MaxGeneration and MaxOwner.                                 *)
(***************************************************************************)
EXTENDS Integers, FiniteSets

CONSTANTS
  Ledgers,          \* handles, each with a host backing of its own
  Capacity,         \* bytes in each host backing
  MaxReservations,  \* length of the reservation table
  MaxAddress,       \* u64::MAX for guest addresses and sizes
  MaxGeneration,    \* u64::MAX for the generation
  MaxOwner,         \* u64::MAX for ledger identities
  TreeAlignment,    \* the guest alignment a device tree needs (4)
  Bytes,            \* values of one byte
  InitialByte,      \* what the backings hold before the first call
  None              \* Option::None

\* What callers ask for in a run.
CONSTANTS
  Apertures,        \* [address, bytes] given to the constructors
  Requests,         \* [bytes, alignment] of reserve_at and allocate
  Purposes,         \* purposes of reserve_at and allocate
  Copies,           \* [offset, bytes] of copy_into
  TreeSizes,        \* lengths of materialized device trees
  MaxSnapshots,     \* snapshots that callers hold at a time
  MaxPrepared       \* prepared device trees that callers hold at a time

PurposeTags == {"KernelImage", "BootArguments", "RuntimeDeviceTree",
                "Stack", "TranslationTables", "ProviderData"}

Errors == {"EmptyBacking", "ArithmeticOverflow", "IdentityExhausted",
           "GenerationExhausted", "InvalidSize", "InvalidAlignment",
           "UnalignedAddress", "OutsideAperture", "Overlap", "ReservationLimit",
           "NoSpace", "ForeignOwner", "ReleasedReservation", "StaleSnapshot",
           "WrongPurpose", "DestinationCapacity"}

ASSUME LedgerAssumption ==
  /\ Capacity \in Nat
  /\ MaxReservations \in Nat
  /\ MaxAddress \in Nat
  /\ MaxGeneration \in Nat
  /\ MaxOwner \in Nat \ {0}
  /\ TreeAlignment \in Nat \ {0}
  /\ InitialByte \in Bytes
  /\ MaxSnapshots \in Nat \ {0}
  /\ MaxPrepared \in Nat \ {0}

ASSUME RequestAssumption ==
  /\ Apertures \subseteq [address : 0 .. MaxAddress, bytes : 0 .. Capacity]
  /\ Requests \subseteq [bytes : 0 .. MaxAddress, alignment : 0 .. MaxAddress]
  /\ Purposes \subseteq PurposeTags
  /\ Copies \subseteq [offset : 0 .. MaxAddress, bytes : 0 .. MaxAddress]
  /\ TreeSizes \subseteq 0 .. MaxAddress

VARIABLES
  nextOwner,     \* the static NEXT_OWNER
  owner,         \* identity of each ledger, 0 while the handle has none
  aperture,      \* the guest extent each ledger was opened with
  generation,
  reservations,  \* the table: slot -> record or None
  ram,           \* host backings, indexed by host offset
  issued,        \* the records of every token a caller was ever given
  snapshots,     \* snapshots that callers hold
  prepared,      \* PreparedDeviceTrees that callers hold
  outcome        \* the last call and what it returned

ledgerVars == <<owner, aperture, generation, reservations, ram>>
callerVars == <<issued, snapshots, prepared>>
vars == <<nextOwner, ledgerVars, callerVars, outcome>>

Slots == 1 .. MaxReservations
Addresses == 0 .. MaxAddress
Offsets == 0 .. Capacity - 1

-----------------------------------------------------------------------------
(* Extents *)

Extent(address, bytes) == [address |-> address, bytes |-> bytes]

End(extent) == extent.address + extent.bytes

\* A fault: an extent that starts below another one never overlaps it.
OverlapsFromAbove(e, f) == f.address <= e.address /\ e.address < End(f)

Overlaps(e, f) == e.address < End(f) /\ f.address < End(e)

Inside(e, f) == f.address <= e.address /\ End(e) <= End(f)

IsPowerOfTwo(n) == n > 0 /\ \E k \in 0 .. n : n = 2 ^ k

\* u64::MAX + 1 is a multiple of every power of two that fits a u64.
ASSUME WordAssumption ==
  \A request \in Requests :
    IsPowerOfTwo(request.alignment) => (MaxAddress + 1) % request.alignment = 0

\* A fault: an aligned address is moved, too.
AlignUpStrict(address, alignment) == (address \div alignment + 1) * alignment

\* The value of align_up before it is known to fit a u64.
AlignUp(address, alignment) ==
  ((address + (alignment - 1)) \div alignment) * alignment

AlignUpOverflows(address, alignment) == address + (alignment - 1) > MaxAddress

-----------------------------------------------------------------------------
(* The ledger's view of its table and of a caller's token *)

Open(l) == owner[l] # 0

LiveRecords(l) == {reservations[l][i] : i \in Slots} \ {None}

FreeSlots(l) == {i \in Slots : reservations[l][i] = None}

\* The slot position() finds; none when the table is full.
LowestFree(l) == {i \in FreeSlots(l) : \A j \in FreeSlots(l) : i <= j}

Stamp(l) == [owner |-> owner[l], generation |-> generation[l]]

\* Everything a stamp is meant to stand for (history only: the code keeps
\* just the stamp).
State(l) == [reservations |-> reservations[l], ram |-> ram[l]]

Tokens == {r.token : r \in issued}

SlotOf(l, token) ==
  CHOOSE i \in Slots : /\ reservations[l][i] # None
                       /\ reservations[l][i].token = token

Record(l, token) == reservations[l][SlotOf(l, token)]

\* Errors of the checks, in the order the code makes them; "Ok" when none fails.
GenerationCheck(l) ==
  IF generation[l] = MaxGeneration THEN "GenerationExhausted" ELSE "Ok"

\* A fault: the owner of a token is not compared.
TokenCheckBySerial(l, token) ==
  IF \E r \in LiveRecords(l) : r.token.serial = token.serial
    THEN "Ok" ELSE "ReleasedReservation"

TokenCheck(l, token) ==
  IF token.owner # owner[l] THEN "ForeignOwner"
  ELSE IF ~ \E r \in LiveRecords(l) : r.token = token THEN "ReleasedReservation"
  ELSE "Ok"

\* A fault: the generation of a stamp is not compared.
StampCheckByOwner(l, stamp) ==
  IF stamp.owner # owner[l] THEN "ForeignOwner" ELSE "Ok"

StampCheck(l, stamp) ==
  IF stamp.owner # owner[l] THEN "ForeignOwner"
  ELSE IF stamp.generation # generation[l] THEN "StaleSnapshot"
  ELSE "Ok"

RequestCheck(request) ==
  IF request.bytes = 0 THEN "InvalidSize"
  ELSE IF ~ IsPowerOfTwo(request.alignment) THEN "InvalidAlignment"
  ELSE "Ok"

ReserveCheck(l, address, request) ==
  LET extent == Extent(address, request.bytes) IN
  IF RequestCheck(request) # "Ok" THEN RequestCheck(request)
  ELSE IF address % request.alignment # 0 THEN "UnalignedAddress"
  ELSE IF End(extent) > MaxAddress THEN "ArithmeticOverflow"
  ELSE IF ~ Inside(extent, aperture[l]) THEN "OutsideAperture"
  ELSE IF \E r \in LiveRecords(l) : Overlaps(extent, r.extent) THEN "Overlap"
  ELSE IF FreeSlots(l) = {} THEN "ReservationLimit"
  ELSE GenerationCheck(l)

\* range(): where offset .. offset + bytes of a record falls in the backing.
RangeCheck(l, record, offset, bytes) ==
  IF offset + bytes > MaxAddress THEN "ArithmeticOverflow"
  ELSE IF offset + bytes > record.extent.bytes THEN "DestinationCapacity"
  ELSE IF record.extent.address < aperture[l].address THEN "ArithmeticOverflow"
  ELSE IF record.extent.address - aperture[l].address + offset + bytes
            > aperture[l].bytes THEN "OutsideAperture"
  ELSE "Ok"

\* A fault: guest addresses are used as host offsets.
GuestRange(l, record, offset, bytes) ==
  LET start == record.extent.address + offset IN start .. start + bytes - 1

HostRange(l, record, offset, bytes) ==
  LET start == record.extent.address - aperture[l].address + offset
  IN  start .. start + bytes - 1

ReadCheck(l, token) ==
  IF TokenCheck(l, token) # "Ok" THEN TokenCheck(l, token)
  ELSE RangeCheck(l, Record(l, token), 0, Record(l, token).extent.bytes)

CopyCheck(l, token, offset, bytes) ==
  IF TokenCheck(l, token) # "Ok" THEN TokenCheck(l, token)
  ELSE IF Record(l, token).purpose = "RuntimeDeviceTree" THEN "WrongPurpose"
  ELSE IF RangeCheck(l, Record(l, token), offset, bytes) # "Ok"
         THEN RangeCheck(l, Record(l, token), offset, bytes)
  ELSE GenerationCheck(l)

\* dt_range()
TreeRangeCheck(l, token, bytes) ==
  IF TokenCheck(l, token) # "Ok" THEN TokenCheck(l, token)
  ELSE IF Record(l, token).purpose # "RuntimeDeviceTree" THEN "WrongPurpose"
  ELSE IF Record(l, token).extent.address % TreeAlignment # 0
         THEN "UnalignedAddress"
  ELSE RangeCheck(l, Record(l, token), 0, bytes)

BindCheck(l, stamp, token, bytes) ==
  IF StampCheck(l, stamp) # "Ok" THEN StampCheck(l, stamp)
  ELSE TreeRangeCheck(l, token, bytes)

CommitCheck(l, tree) ==
  IF BindCheck(l, tree.stamp, tree.destination, tree.bytes) # "Ok"
    THEN BindCheck(l, tree.stamp, tree.destination, tree.bytes)
  ELSE GenerationCheck(l)

-----------------------------------------------------------------------------
(* allocate()'s search.  search[c] is what the loop returns once its       *)
(* candidate is c: an error, or "Found" with the address for reserve_at.   *)

Blockers(l, extent) == {r \in LiveRecords(l) : Overlaps(extent, r.extent)}

BlockingEnd(l, extent) ==
  CHOOSE e \in {End(r.extent) : r \in Blockers(l, extent)} :
    \A r \in Blockers(l, extent) : End(r.extent) <= e

Search(l, request) ==
  LET search[c \in Addresses] ==
        LET extent == Extent(c, request.bytes)
            next   == BlockingEnd(l, extent)
        IN  IF End(extent) > MaxAddress
              THEN [result |-> "ArithmeticOverflow", address |-> c]
            ELSE IF End(extent) > End(aperture[l])
              THEN [result |-> "NoSpace", address |-> c]
            ELSE IF Blockers(l, extent) = {}
              THEN [result |-> "Found", address |-> c]
            ELSE IF AlignUpOverflows(next, request.alignment)
              THEN [result |-> "ArithmeticOverflow", address |-> c]
            ELSE search[AlignUp(next, request.alignment)]
  IN  IF AlignUpOverflows(aperture[l].address, request.alignment)
        THEN [result |-> "ArithmeticOverflow", address |-> 0]
      ELSE search[AlignUp(aperture[l].address, request.alignment)]

AllocateCheck(l, request) ==
  IF RequestCheck(request) # "Ok" THEN RequestCheck(request)
  ELSE IF FreeSlots(l) = {} THEN "ReservationLimit"
  ELSE IF Search(l, request).result = "NoSpace" THEN "NoSpace"
  ELSE IF Search(l, request).result = "ArithmeticOverflow"
         THEN "ArithmeticOverflow"
  ELSE ReserveCheck(l, Search(l, request).address, request)

-----------------------------------------------------------------------------
(* Steps *)

Returns(call, result) == outcome' = [call |-> call, result |-> result]

\* A call that ends in Err: no assignment of the code was reached.
Rejects(call, result) ==
  /\ result # "Ok"
  /\ Returns(call, result)
  /\ UNCHANGED <<nextOwner, ledgerVars, callerVars>>

\* self.generation = generation, the last assignment of every mutation.
Advance(l) == generation' = [generation EXCEPT ![l] = @ + 1]

\* A fault: the counter stops before its end, and gives an identity out again.
MintSaturating ==
  nextOwner' = IF nextOwner + 1 < MaxOwner THEN nextOwner + 1 ELSE nextOwner

\* fetch_update: takes the counter's value, and never its last one.
MintOwner == nextOwner' = nextOwner + 1

\* Serials are generations, so none is given out twice.
NextToken(l) == [owner |-> owner[l], serial |-> generation[l] + 1]

\* The writes reserve_at makes once every check has passed.
Insert(l, address, request, purpose) ==
  LET record == [token     |-> NextToken(l),
                 extent    |-> Extent(address, request.bytes),
                 alignment |-> request.alignment,
                 purpose   |-> purpose]
  IN  /\ \E slot \in LowestFree(l) :
           reservations' = [reservations EXCEPT ![l][slot] = record]
      /\ issued' = issued \cup {record}
      /\ Advance(l)
      /\ UNCHANGED <<nextOwner, owner, aperture, ram, snapshots, prepared>>

\* copy_from_slice of a payload whose bytes all have one value.
Overwrite(l, range, byte) ==
  ram' = [ram EXCEPT ![l] =
            [o \in Offsets |-> IF o \in range THEN byte ELSE ram[l][o]]]

NewCheck(extent) ==
  IF extent.bytes = 0 THEN "EmptyBacking"
  ELSE IF End(extent) > MaxAddress THEN "ArithmeticOverflow"
  ELSE IF nextOwner = MaxOwner THEN "IdentityExhausted"
  ELSE "Ok"

New(l, extent) ==
  /\ ~ Open(l)
  /\ \/ Rejects("new", NewCheck(extent))
     \/ /\ NewCheck(extent) = "Ok"
        /\ Returns("new", "Ok")
        /\ MintOwner
        /\ owner' = [owner EXCEPT ![l] = nextOwner]
        /\ aperture' = [aperture EXCEPT ![l] = extent]
        /\ generation' = [generation EXCEPT ![l] = 0]
        /\ reservations' = [reservations EXCEPT ![l] = [i \in Slots |-> None]]
        /\ UNCHANGED <<ram, callerVars>>

\* The ledger goes out of scope; a borrowed backing keeps its bytes.
Drop(l) ==
  /\ Open(l)
  /\ Returns("drop", "Ok")
  /\ owner' = [owner EXCEPT ![l] = 0]
  /\ UNCHANGED <<nextOwner, aperture, generation, reservations, ram, callerVars>>

\* snapshot() followed by stamp(): the caller keeps the detached stamp.
Snapshot(l) ==
  /\ Open(l)
  /\ Returns("snapshot", "Ok")
  /\ \E kept \in SUBSET snapshots :
       /\ Cardinality(kept) < MaxSnapshots
       /\ snapshots' = kept \cup {[stamp |-> Stamp(l), seen |-> State(l)]}
  /\ UNCHANGED <<nextOwner, ledgerVars, issued, prepared>>

ReserveAt(l, address, request, purpose) ==
  /\ Open(l)
  /\ \/ Rejects("reserve_at", ReserveCheck(l, address, request))
     \/ /\ ReserveCheck(l, address, request) = "Ok"
        /\ Returns("reserve_at", "Ok")
        /\ Insert(l, address, request, purpose)

Allocate(l, request, purpose) ==
  /\ Open(l)
  /\ \/ Rejects("allocate", AllocateCheck(l, request))
     \/ /\ AllocateCheck(l, request) = "Ok"
        /\ Returns("allocate", "Ok")
        /\ \E address \in Addresses :
             /\ address = Search(l, request).address
             /\ Insert(l, address, request, purpose)

ReleaseCheck(l, token) ==
  IF TokenCheck(l, token) # "Ok" THEN TokenCheck(l, token)
  ELSE GenerationCheck(l)

\* A fault: a release does not advance the generation.
ReleaseInPlace(l, token) ==
  /\ Open(l)
  /\ \/ Rejects("release", ReleaseCheck(l, token))
     \/ /\ ReleaseCheck(l, token) = "Ok"
        /\ Returns("release", "Ok")
        /\ reservations' = [reservations EXCEPT ![l][SlotOf(l, token)] = None]
        /\ UNCHANGED <<nextOwner, owner, aperture, generation, ram, callerVars>>

Release(l, token) ==
  /\ Open(l)
  /\ \/ Rejects("release", ReleaseCheck(l, token))
     \/ /\ ReleaseCheck(l, token) = "Ok"
        /\ Returns("release", "Ok")
        /\ reservations' = [reservations EXCEPT ![l][SlotOf(l, token)] = None]
        /\ Advance(l)
        /\ UNCHANGED <<nextOwner, owner, aperture, ram, callerVars>>

Read(l, token) ==
  /\ Open(l)
  /\ Returns("read", ReadCheck(l, token))
  /\ UNCHANGED <<nextOwner, ledgerVars, callerVars>>

CopyInto(l, token, copy, byte) ==
  /\ Open(l)
  /\ \/ Rejects("copy_into", CopyCheck(l, token, copy.offset, copy.bytes))
     \/ /\ CopyCheck(l, token, copy.offset, copy.bytes) = "Ok"
        /\ Returns("copy_into", "Ok")
        /\ Overwrite(l, HostRange(l, Record(l, token), copy.offset, copy.bytes),
                     byte)
        /\ Advance(l)
        /\ UNCHANGED <<nextOwner, owner, aperture, reservations, callerVars>>

\* The tree was materialized from what the caller saw in that snapshot.
BindDeviceTree(l, snapshot, token, bytes, byte) ==
  LET check == BindCheck(l, snapshot.stamp, token, bytes) IN
  /\ Open(l)
  /\ \/ Rejects("bind_device_tree", check)
     \/ /\ check = "Ok"
        /\ Returns("bind_device_tree", "Ok")
        /\ \E kept \in SUBSET prepared :
             /\ Cardinality(kept) < MaxPrepared
             /\ prepared' = kept \cup {[stamp       |-> snapshot.stamp,
                                        destination |-> token,
                                        bytes       |-> bytes,
                                        byte        |-> byte,
                                        seen        |-> snapshot.seen]}
        /\ UNCHANGED <<nextOwner, ledgerVars, issued, snapshots>>

\* A fault: bytes are written before the generation is known to advance.
CommitBeforeGeneration(l, tree) ==
  LET check == BindCheck(l, tree.stamp, tree.destination, tree.bytes) IN
  /\ Open(l)
  /\ Returns("commit_device_tree", CommitCheck(l, tree))
  /\ prepared' = prepared \ {tree}
  /\ \/ /\ check # "Ok"
        /\ UNCHANGED ledgerVars
     \/ /\ check = "Ok"
        /\ Overwrite(l, HostRange(l, Record(l, tree.destination), 0, tree.bytes),
                     tree.byte)
        /\ generation' = [generation EXCEPT ![l] =
                            IF @ = MaxGeneration THEN @ ELSE @ + 1]
        /\ UNCHANGED <<owner, aperture, reservations>>
  /\ UNCHANGED <<nextOwner, issued, snapshots>>

\* commit_device_tree takes the prepared tree by value, also when it fails.
CommitDeviceTree(l, tree) ==
  LET check == CommitCheck(l, tree) IN
  /\ Open(l)
  /\ Returns("commit_device_tree", check)
  /\ prepared' = prepared \ {tree}
  /\ \/ /\ check # "Ok"
        /\ UNCHANGED ledgerVars
     \/ /\ check = "Ok"
        /\ Overwrite(l, HostRange(l, Record(l, tree.destination), 0, tree.bytes),
                     tree.byte)
        /\ Advance(l)
        /\ UNCHANGED <<owner, aperture, reservations>>
  /\ UNCHANGED <<nextOwner, issued, snapshots>>

\* The slice behind the aperture.
HostBytes(l) == 0 .. aperture[l].bytes - 1

\* The generation advances before the closure runs, and the closure may
\* leave anything in the slice, whatever it returns.
WithGuestMemory(l) ==
  /\ Open(l)
  /\ \/ Rejects("with_guest_memory", GenerationCheck(l))
     \/ /\ GenerationCheck(l) = "Ok"
        /\ Returns("with_guest_memory", "Ok")
        /\ Advance(l)
        /\ \E bytes \in [HostBytes(l) -> Bytes] :
             ram' = [ram EXCEPT ![l] =
                       [o \in Offsets |-> IF o \in HostBytes(l)
                                             THEN bytes[o] ELSE ram[l][o]]]
        /\ UNCHANGED <<nextOwner, owner, aperture, reservations, callerVars>>

-----------------------------------------------------------------------------

Init ==
  /\ nextOwner = 1
  /\ owner = [l \in Ledgers |-> 0]
  /\ aperture = [l \in Ledgers |-> Extent(0, 0)]
  /\ generation = [l \in Ledgers |-> 0]
  /\ reservations = [l \in Ledgers |-> [i \in Slots |-> None]]
  /\ ram = [l \in Ledgers |-> [o \in Offsets |-> InitialByte]]
  /\ issued = {}
  /\ snapshots = {}
  /\ prepared = {}
  /\ outcome = [call |-> "none", result |-> "Ok"]

\* One call on ledger l other than allocate.
Call(l) ==
  \/ \E extent \in Apertures : New(l, extent)
  \/ Drop(l)
  \/ Snapshot(l)
  \/ \E address \in Addresses, request \in Requests, purpose \in Purposes :
       ReserveAt(l, address, request, purpose)
  \/ \E token \in Tokens :
       \/ Release(l, token)
       \/ Read(l, token)
       \/ \E copy \in Copies, byte \in Bytes : CopyInto(l, token, copy, byte)
       \/ \E snapshot \in snapshots, bytes \in TreeSizes, byte \in Bytes :
            BindDeviceTree(l, snapshot, token, bytes, byte)
  \/ \E tree \in prepared : CommitDeviceTree(l, tree)
  \/ WithGuestMemory(l)

Next ==
  \E l \in Ledgers :
    \/ Call(l)
    \/ \E request \in Requests, purpose \in Purposes :
         Allocate(l, request, purpose)

Spec == Init /\ [][Next]_vars

-----------------------------------------------------------------------------
(* Properties *)

\* The abstract ledger this one implements: a dropped ledger has no live
\* reservations, the identities used are those below NEXT_OWNER.
Promise == INSTANCE ReservationLedger WITH
             used    <- 1 .. nextOwner - 1,
             live    <- [l \in Ledgers |-> IF Open(l) THEN LiveRecords(l) ELSE {}],
             version <- generation,
             lent    <- outcome = [call |-> "with_guest_memory", result |-> "Ok"]

\* Every call of the ledger, successful or not, is a step the abstract ledger
\* allows or no step at all.
ImplementsPromise == Promise!Spec

Identities == 0 .. MaxOwner

Generations == 0 .. MaxGeneration

ReservationRecords ==
  [token     : [owner : Identities, serial : Generations],
   extent    : [address : Addresses, bytes : Addresses \ {0}],
   alignment : Addresses \ {0},
   purpose   : PurposeTags]

Stamps == [owner : Identities, generation : Generations]

States == [reservations : [Slots -> ReservationRecords \cup {None}],
           ram          : [Offsets -> Bytes]]

Calls == {"none", "new", "drop", "snapshot", "reserve_at", "allocate", "release",
          "read", "copy_into", "bind_device_tree", "commit_device_tree",
          "with_guest_memory"}

ASSUME NoneAssumption == None \notin ReservationRecords

\* The type of the state: no counter leaves its word, no extent its aperture's
\* coordinates, and what callers hold has the shape the API returns.
TypeOK ==
  /\ nextOwner \in 1 .. MaxOwner
  /\ owner \in [Ledgers -> Identities]
  /\ aperture \in [Ledgers -> [address : Addresses, bytes : 0 .. Capacity]]
  /\ generation \in [Ledgers -> Generations]
  /\ reservations \in [Ledgers -> [Slots -> ReservationRecords \cup {None}]]
  /\ ram \in [Ledgers -> [Offsets -> Bytes]]
  /\ issued \subseteq ReservationRecords
  /\ snapshots \subseteq [stamp : Stamps, seen : States]
  /\ prepared \subseteq [stamp       : Stamps,
                         destination : [owner  : Identities,
                                        serial : Generations],
                         bytes       : Addresses,
                         byte        : Bytes,
                         seen        : States]
  /\ outcome \in [call : Calls, result : Errors \cup {"Ok"}]

\* Live reservations lie inside the aperture at their alignment, and no two of
\* them share a byte, whatever was reserved, allocated and released before
\* (reserve_at's checks, which allocate relies on too).
ReservationsDisjoint ==
  \A l \in Ledgers : Open(l) =>
    /\ \A r \in LiveRecords(l) : /\ Inside(r.extent, aperture[l])
                                 /\ r.extent.address % r.alignment = 0
    /\ \A i, j \in Slots :
         (i # j /\ reservations[l][i] # None /\ reservations[l][j] # None)
           => ~ Overlaps(reservations[l][i].extent, reservations[l][j].extent)

\* A token stands for one reservation for ever: across slots, ledgers and
\* ledgers opened later on the same backing, two reservations that were ever
\* issued never have equal tokens, and what a ledger holds under a token is
\* what was issued with it (serial := generation, NEXT_OWNER never repeats).
TokensNeverReused ==
  /\ \A r, s \in issued : r.token = s.token => r = s
  /\ \A l \in Ledgers : Open(l) =>
       /\ LiveRecords(l) \subseteq {r \in issued : r.token.owner = owner[l]}
       /\ \A i, j \in Slots :
            (i # j /\ reservations[l][i] # None /\ reservations[l][j] # None)
              => reservations[l][i].token # reservations[l][j].token
  /\ \A l, m \in Ledgers : (l # m /\ Open(l)) => owner[l] # owner[m]

\* Once released, or left behind in a dropped ledger, a token is accepted by
\* no ledger again (slot's owner and liveness tests).
Accepted == {t \in Tokens : \E l \in Ledgers : Open(l) /\ TokenCheck(l, t) = "Ok"}

ReleasedStaysReleased ==
  [][Accepted' \cap Tokens \subseteq Accepted]_vars

\* A stamp names one state of one ledger: while a ledger lives, its table and
\* its bytes change only together with its generation, which only grows
\* (next_generation is taken by every mutation and never wraps).
StampNamesOneState ==
  [][\A l \in Ledgers : (Open(l) /\ owner'[l] = owner[l]) =>
       /\ generation'[l] >= generation[l]
       /\ generation'[l] = generation[l] => State(l)' = State(l)]_vars

\* A device tree reaches RAM only in the ledger whose snapshot it was built
\* from, while table and bytes are still what that snapshot showed
\* (bind_device_tree and commit_device_tree validate the stamp).
CommitsToSeenState ==
  [][\A l \in Ledgers :
       (outcome'.call = "commit_device_tree" /\ ram'[l] # ram[l]) =>
         \E tree \in prepared \ prepared' :
           tree.stamp.owner = owner[l] /\ tree.seen = State(l)]_vars

\* Bytes change only inside a live reservation of the call's kind: copy_into
\* never touches a device tree, a commit touches nothing else, reserve_at,
\* allocate and release keep every byte.  Only the closure of
\* with_guest_memory may write elsewhere, and only inside the aperture.
WritesStayInside ==
  [][\A l \in Ledgers, o \in Offsets : ram'[l][o] # ram[l][o] =>
       \/ outcome'.call = "with_guest_memory" /\ o < aperture[l].bytes
       \/ /\ outcome'.call \in {"copy_into", "commit_device_tree"}
          /\ \E r \in LiveRecords(l) :
               /\ r.extent.address <= aperture[l].address + o
               /\ aperture[l].address + o < End(r.extent)
               /\ (r.purpose = "RuntimeDeviceTree")
                    <=> (outcome'.call = "commit_device_tree")]_vars

\* A call that returns an error leaves the ledgers, the bytes and the identity
\* counter as they were; a failed commit loses its prepared tree, nothing else.
FailureIsAtomic ==
  [][outcome'.result # "Ok" =>
       UNCHANGED <<nextOwner, ledgerVars, issued, snapshots>>]_vars

\* What makes TokensNeverReused inductive: identities and serials given out so
\* far lie behind the counters they come from.
CountersAhead ==
  /\ \A l \in Ledgers : owner[l] < nextOwner
  /\ \A r \in issued :
       /\ 0 < r.token.owner
       /\ r.token.owner < nextOwner
       /\ \A l \in Ledgers :
            r.token.owner = owner[l] => r.token.serial <= generation[l]

\* A stamp that is current still describes its ledger: whoever holds one that
\* validate_stamp would accept, in a snapshot or in a prepared tree, saw the
\* very table and bytes the ledger has now.
SeenWhileCurrent ==
  \A s \in snapshots \cup prepared :
    /\ s.stamp.owner < nextOwner
    /\ \A l \in Ledgers : (Open(l) /\ s.stamp.owner = owner[l]) =>
         /\ s.stamp.generation <= generation[l]
         /\ s.stamp.generation = generation[l] => s.seen = State(l)

=============================================================================
