--------------------------- MODULE MC_Stage1Tables ---------------------------
(* Tables of two slots for TLC: eight pages of four bytes in each half. *)
EXTENDS Stage1Tables

Linear(phys, virt, size) ==
  [physBase |-> phys, virtBase |-> virt, size |-> size, aliases |-> None]

Aliased(phys, virt, size, aliases) ==
  [physBase |-> phys, virtBase |-> virt, size |-> size, aliases |-> aliases]

Alias(virt, phys, bytes) == [virtBase |-> virt, physBase |-> phys, bytes |-> bytes]

\* RAM of up to four pages anywhere in the lower half, its linear range anywhere
\* in the upper half, and arguments at and beyond every limit.
LinearRequests ==
  {Linear(phys, virt, size) :
     phys \in {4 * n : n \in 0 .. 8} \cup {2, 188}, size \in {0, 4, 8, 12, 16, 20, 6},
     virt \in {160 + 4 * n : n \in 0 .. 7} \cup {156, 162}}

AliasStarts == {156, 160, 168, 176, 180, 188}

AliasedRequests ==
  {Aliased(8, virt, size, <<Alias(va, pa, bytes)>>) :
     virt \in {160, 172}, size \in {4, 8, 188}, va \in AliasStarts,
     pa \in {4, 8, 12}, bytes \in {0, 4, 8, 12, 6}}
    \cup {Aliased(12, virt, 8, <<Alias(va, 12, 8), Alias(vb, pb, bytes)>>) :
            virt \in {164, 176}, va \in AliasStarts, vb \in AliasStarts,
            pb \in {12, 16}, bytes \in {4, 8}}
    \cup {Aliased(8, 168, 8, <<>>), Aliased(188, 168, 8, <<>>),
          Aliased(8, 168, 4, <<Alias(160, 8, 4), Alias(164, 8, 4), Alias(176, 8, 4)>>)}

SmallRequests == LinearRequests \cup AliasedRequests

=============================================================================
