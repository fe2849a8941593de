---------------------------- MODULE MC_GuestMemory ----------------------------
(* Instances of GuestMemory for TLC, one per question. *)
EXTENDS GuestMemory, TLC

Ask(bytes, alignment) == [bytes |-> bytes, alignment |-> alignment]

Copy(offset, bytes) == [offset |-> offset, bytes |-> bytes]

\* Commits: one ledger whose bytes copies, commits and loans compete for.
\* Extents at 1 and 3 have the wrong alignment for a device tree.
CommitApertures == {Extent(1, 3)}
CommitRequests == {Ask(1, 1), Ask(2, 2)}
CommitPurposes == {"KernelImage", "RuntimeDeviceTree"}
CommitCopies == {Copy(0, 0), Copy(0, 1), Copy(1, 1), Copy(7, 1)}

\* Owners: two ledgers that are dropped and opened again.
OwnerApertures == {Extent(2, 1)}
OwnerRequests == {Ask(1, 1)}
OwnerCopies == {Copy(0, 1)}

\* A ledger is only a handle.
LedgerSymmetry == Permutations(Ledgers)

=============================================================================
