--------------------------- MODULE MC_AllocateSearch ---------------------------
(* Instances of AllocateSearch for TLC. *)
EXTENDS AllocateSearch

Ask(bytes, alignment) == [bytes |-> bytes, alignment |-> alignment]

\* The aperture starts unaligned for one request and ends one short of the last
\* address, so the search can run out of space and out of addresses.
SearchApertures == {Extent(10, 4)}

SearchRequests == {Ask(1, 1), Ask(2, 2), Ask(1, 4)}
=============================================================================
