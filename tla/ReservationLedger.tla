-------------------------- MODULE ReservationLedger --------------------------
(***************************************************************************)
(* What a guest allocation ledger promises its callers, without its table, *)
(* its limits, its search order or its errors: every ledger has an         *)
(* identity of its own, a set of live reservations that never share a      *)
(* byte, and a version that moves with every change of the set or of the   *)
(* bytes.  Bytes change inside one live reservation, or anywhere in the    *)
(* aperture while the memory is lent out.                                  *)
(***************************************************************************)
EXTENDS Integers

CONSTANTS
  Ledgers,
  Offsets,    \* host offsets of a backing
  Bytes,
  InitialByte

VARIABLES
  used,       \* identities given out so far
  owner,      \* identity of each ledger, 0 while it is closed
  aperture,
  live,       \* live reservations of each ledger
  version,
  ram,
  lent        \* TRUE iff the last step lent the memory out

vars == <<used, owner, aperture, live, version, ram, lent>>

End(extent) == extent.address + extent.bytes

Inside(e, f) == f.address <= e.address /\ End(e) <= End(f)

Disjoint(e, f) == End(e) <= f.address \/ End(f) <= e.address

\* The host offsets of an extent seen through the aperture of l.
HostOffsets(l, extent) ==
  {o \in Offsets : /\ extent.address <= aperture[l].address + o
                   /\ aperture[l].address + o < End(extent)}

OnlyChanges(l, offsets) ==
  /\ ram' \in [Ledgers -> [Offsets -> Bytes]]
  /\ \A m \in Ledgers, o \in Offsets :
       ram'[m][o] # ram[m][o] => m = l /\ o \in offsets

Bump(l) == version' = [version EXCEPT ![l] = @ + 1]

Open(l) ==
  /\ owner[l] = 0
  /\ LET id == owner'[l] IN
       /\ id \in Nat \ {0}
       /\ id \notin used
       /\ owner' = [owner EXCEPT ![l] = id]
       /\ used' = used \cup {id}
  /\ LET extent == aperture'[l] IN
       /\ extent \in [address : Nat, bytes : Nat]
       /\ aperture' = [aperture EXCEPT ![l] = extent]
  /\ live' = [live EXCEPT ![l] = {}]
  /\ version' = [version EXCEPT ![l] = 0]
  /\ lent' = FALSE
  /\ UNCHANGED ram

Close(l) ==
  /\ owner[l] # 0
  /\ owner' = [owner EXCEPT ![l] = 0]
  /\ live' = [live EXCEPT ![l] = {}]
  /\ lent' = FALSE
  /\ UNCHANGED <<used, aperture, version, ram>>

\* A reservation is granted under a token nobody holds yet.
Grant(l) ==
  /\ owner[l] # 0
  /\ \E r \in live'[l] \ live[l] :
       /\ live' = [live EXCEPT ![l] = @ \cup {r}]
       /\ r.token = [owner |-> owner[l], serial |-> version[l] + 1]
       /\ r.extent.bytes > 0
       /\ r.extent.address % r.alignment = 0
       /\ Inside(r.extent, aperture[l])
       /\ \A s \in live[l] : Disjoint(r.extent, s.extent)
  /\ Bump(l)
  /\ lent' = FALSE
  /\ UNCHANGED <<used, owner, aperture, ram>>

Revoke(l) ==
  /\ owner[l] # 0
  /\ \E r \in live[l] : live' = [live EXCEPT ![l] = @ \ {r}]
  /\ Bump(l)
  /\ lent' = FALSE
  /\ UNCHANGED <<used, owner, aperture, ram>>

Write(l) ==
  /\ owner[l] # 0
  /\ \E r \in live[l] : OnlyChanges(l, HostOffsets(l, r.extent))
  /\ Bump(l)
  /\ lent' = FALSE
  /\ UNCHANGED <<used, owner, aperture, live>>

Lend(l) ==
  /\ owner[l] # 0
  /\ OnlyChanges(l, HostOffsets(l, aperture[l]))
  /\ Bump(l)
  /\ lent' = TRUE
  /\ UNCHANGED <<used, owner, aperture, live>>

\* A call that only looks, or that is refused.
Observe ==
  /\ lent' = FALSE
  /\ UNCHANGED <<used, owner, aperture, live, version, ram>>

Init ==
  /\ used = {}
  /\ owner = [l \in Ledgers |-> 0]
  /\ aperture = [l \in Ledgers |-> [address |-> 0, bytes |-> 0]]
  /\ live = [l \in Ledgers |-> {}]
  /\ version = [l \in Ledgers |-> 0]
  /\ ram = [l \in Ledgers |-> [o \in Offsets |-> InitialByte]]
  /\ lent = FALSE

Next ==
  \/ Observe
  \/ \E l \in Ledgers :
       Open(l) \/ Close(l) \/ Grant(l) \/ Revoke(l) \/ Write(l) \/ Lend(l)

Spec == Init /\ [][Next]_vars

=============================================================================
