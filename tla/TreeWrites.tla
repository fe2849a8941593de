------------------------------ MODULE TreeWrites ------------------------------
(***************************************************************************)
(* A device tree in guest RAM (src/src/runtime_dt.rs): write_reserved()    *)
(* copies what prepare() returned into a reservation, any number of times; *)
(* materialize_into() does both.  Next to them, encode() of flat_dt.rs,    *)
(* which writes nowhere.  What prepare() and encode() return is a constant *)
(* here: a write is the same whatever the tree says.                       *)
(***************************************************************************)
EXTENDS TreeCells, FiniteSets, Checks

CONSTANTS
  Outcomes,         \* [request, check, length, cells]: calls of prepare() and their results
  Encodings,        \* [root, output]: calls of encode() and their results
  Rams,             \* [base, size]
  Reservations,     \* [address, capacity]
  MaxGuestAddress,  \* u64::MAX
  MaxWrites         \* a bound on the writes of a behaviour

VARIABLES
  ram,      \* guest RAM: [base, bytes]
  tree,     \* the MaterializedTree, and the request it was made of
  encoded,  \* the tree given to encode(), and what it returned
  call,     \* the last call of a write, with the RAM before it
  writes,   \* how many there were
  answer    \* what the last call returned

runtimeVars == <<ram, tree, encoded, call, writes, answer>>

ASSUME RuntimeAssumption ==
  /\ MaxGuestAddress \in Nat
  /\ \A r \in Rams : r.base \in 0 .. MaxGuestAddress /\ r.size \in 0 .. MaxGuestAddress
  /\ \A r \in Reservations : r.address \in 0 .. MaxGuestAddress /\ r.capacity \in 0 .. MaxGuestAddress

\* A tree that was prepared is so many bytes.
ASSUME OutcomeAssumption ==
  \A p \in Outcomes : p.check = "Ok" => WireBytes(p.cells) \in Nat

-----------------------------------------------------------------------------
(* Writing into RAM *)

\* The MaterializedTree of an outcome, and the request it was made of.
TreeOf(p) == [request |-> p.request, length |-> p.length, cells |-> p.cells]

RamBytes(r) == Cardinality(DOMAIN r.bytes)

\* A fault: the reservation is not compared with the start of RAM.
ReservationHoldsAbove(r, reservation) ==
  /\ reservation.capacity # 0 /\ reservation.address % Word = 0
  /\ reservation.address + reservation.capacity <= r.base + RamBytes(r)

ReservationHolds(r, reservation) ==
  /\ reservation.capacity # 0 /\ reservation.address % Word = 0
  /\ reservation.address >= r.base
  /\ reservation.address + reservation.capacity <= r.base + RamBytes(r)

\* A fault: only RAM bounds the output, not the capacity.
FitsRam(r, reservation, size) ==
  reservation.address - r.base + size <= RamBytes(r)

Fits(r, reservation, size) ==
  /\ size <= reservation.capacity
  /\ reservation.address - r.base + size <= RamBytes(r)

\* write_reserved(), with RamExtent::from_backing()
ReservedCheck(r, reservation, size) ==
  FirstRefusal(<<
    <<RamBytes(r) = 0, "InvalidRam">>,
    <<r.base + RamBytes(r) > MaxGuestAddress, "ArithmeticOverflow">>,
    <<reservation.address + reservation.capacity > MaxGuestAddress, "ArithmeticOverflow">>,
    <<~ ReservationHolds(r, reservation), "InvalidReservation">>,
    <<~ Fits(r, reservation, size), "DestinationCapacity">> >>)

\* Byte i of a tree is <<the request it was made of, i>>.
WithTree(r, reservation, prepared) ==
  LET first == reservation.address - r.base
      size == WireBytes(prepared.cells)
  IN  [r EXCEPT !.bytes = [i \in DOMAIN r.bytes |->
         IF first <= i /\ i < first + size THEN <<prepared.request, i - first>>
         ELSE r.bytes[i]]]

-----------------------------------------------------------------------------
(* Calls *)

NoTree == [request |-> Nothing, length |-> 0, cells |-> <<>>]

NoCall == [reservation |-> Nothing, before |-> Nothing, written |-> NoTree]

Unwritten == <<Nothing, 0>>

\* encode() keeps no state: a behaviour calls it once, or only the others.
NothingEncoded == encoded.root = Nothing

Prepare ==
  /\ NothingEncoded
  /\ \E p \in Outcomes :
       /\ answer' = p.check
       /\ tree' = IF p.check = "Ok" THEN TreeOf(p) ELSE tree
  /\ call' = NoCall
  /\ UNCHANGED <<ram, encoded, writes>>

WriteTree(reservation, written) ==
  LET check == ReservedCheck(ram, reservation, WireBytes(written.cells))
  IN  /\ NothingEncoded /\ writes < MaxWrites
      /\ writes' = writes + 1
      /\ answer' = check
      /\ ram' = IF check = "Ok" THEN WithTree(ram, reservation, written) ELSE ram
      /\ call' = [reservation |-> reservation, before |-> ram, written |-> written]

WriteReserved(reservation) ==
  /\ tree # NoTree
  /\ WriteTree(reservation, tree)
  /\ UNCHANGED <<tree, encoded>>

MaterializeInto ==
  /\ NothingEncoded
  /\ \E p \in Outcomes :
       IF p.check = "Ok"
         THEN \E reservation \in Reservations : WriteTree(reservation, TreeOf(p))
         ELSE /\ answer' = p.check
              /\ call' = [reservation |-> Nothing, before |-> ram, written |-> NoTree]
              /\ UNCHANGED <<ram, writes>>
  /\ UNCHANGED <<tree, encoded>>

EncodeTree ==
  /\ NothingEncoded /\ tree = NoTree /\ writes = 0
  /\ \E encoding \in Encodings : encoded' = encoding /\ answer' = encoding.output.check
  /\ call' = NoCall
  /\ UNCHANGED <<ram, tree, writes>>

RuntimeInit ==
  /\ \E r \in Rams : ram = [base |-> r.base, bytes |-> [i \in 0 .. r.size - 1 |-> Unwritten]]
  /\ tree = NoTree
  /\ encoded = [root |-> Nothing, output |-> [check |-> "none", reserved |-> 0, cells |-> <<>>]]
  /\ call = NoCall
  /\ writes = 0
  /\ answer = "none"

RuntimeNext ==
  \/ Prepare
  \/ \E reservation \in Reservations : WriteReserved(reservation)
  \/ MaterializeInto
  \/ EncodeTree

RuntimeSpec == RuntimeInit /\ [][RuntimeNext]_runtimeVars

-----------------------------------------------------------------------------
(* Properties *)

\* A write puts the whole tree into its reservation, and changes no other byte
\* of RAM; a call that returns an error has changed no byte, whichever of its
\* two halves failed.
OnlyTheReservation ==
  call # NoCall =>
    LET first == call.reservation.address - ram.base
        size == WireBytes(call.written.cells)
    IN  /\ answer = "Ok" => /\ size <= call.reservation.capacity
                            /\ first .. first + size - 1 \subseteq DOMAIN ram.bytes
        /\ \A i \in DOMAIN ram.bytes :
             ram.bytes[i] = IF answer = "Ok" /\ first <= i /\ i < first + size
                              THEN <<call.written.request, i - first>>
                              ELSE call.before.bytes[i]

=============================================================================
