--------------------------- MODULE MC_ApfsJumpstart ---------------------------
(* Containers for TLC: blocks of two or four bytes, a table of extents that *)
(* starts behind the first byte.                                            *)
EXTENDS ApfsJumpstart, TLC

Super(checksum, size, blocks, jumpstart) ==
  [checksum |-> checksum, valid |-> TRUE, magic |-> TRUE, sound |-> TRUE, id |-> 1,
   blockSize |-> size, blocks |-> blocks, jumpstart |-> jumpstart,
   fusion |-> FALSE, features |-> TRUE]

Record(id, length, extents) ==
  [valid |-> TRUE, magic |-> TRUE, sound |-> TRUE, id |-> id, version |-> TRUE,
   length |-> length, extents |-> extents]

Extent(start, count) == [start |-> start, count |-> count]

Medium(label, block0, found) ==
  [label |-> label, super |-> block0,
   records |-> (block0.jumpstart * block0.blockSize) :> found]

Good == Super(1, 4, 5, 1)

Tables ==
  {<<>>} \cup {<<Extent(start, count)>> :
                 start \in {2, 4, 5, 32}, count \in {0, 1, 2, 3, 60}}
    \cup {<<Extent(start, count), Extent(2, 2)>> : start \in {0, 2, 3}, count \in {1, 2}}
    \cup {<<Extent(2, 1), Extent(4, 1), Extent(2, 1)>>,
          <<Extent(0, 1), Extent(1, 1), Extent(2, 1), Extent(3, 1)>>}

Records ==
  {Medium(1, Good, Record(1, length, extents)) :
     length \in {0, 1, 4, 5, 8, 9, 12}, extents \in Tables}
    \cup {Medium(1, Good, [Record(1, 4, <<Extent(2, 1)>>) EXCEPT ![field] = FALSE]) :
            field \in {"valid", "magic", "sound", "version"}}
    \cup {Medium(1, Good, Record(2, 4, <<Extent(2, 1)>>))}

Supers ==
  {Medium(1, s, Record(s.jumpstart, 5, <<Extent(2, 1), Extent(1, 2)>>)) :
     s \in {Super(1, size, blocks, jumpstart) :
              size \in {1, 2, 3, 4, 8}, blocks \in {0, 3, 5, 6, 40}, jumpstart \in {0, 1, 4, 5, 32}}
             \cup {[Good EXCEPT ![field] = FALSE] :
                     field \in {"valid", "magic", "sound", "features"}}
             \cup {[Good EXCEPT !.fusion = TRUE]}}

\* What a medium may be replaced with: another geometry with or without the
\* same words in its prefix, another record, other bytes.
Others ==
  {Medium(2, Super(1, 4, 3, 1), Record(1, 4, <<Extent(2, 1)>>)),
   Medium(2, Super(2, 4, 5, 1), Record(1, 8, <<Extent(1, 4)>>)),
   Medium(2, Super(1, 2, 10, 2), Record(2, 6, <<Extent(7, 3)>>)),
   Medium(2, Good, Record(1, 9, <<Extent(4, 1), Extent(1, 3)>>))}

AllMedia == Records \cup Supers \cup Others

SmallCalls ==
  {[partition |-> partition, maxDriver |-> 9, maxExtents |-> 3] : partition \in {0, 3, 19, 20, 22}}
    \cup {[partition |-> 20, maxDriver |-> driver, maxExtents |-> 1] : driver \in {0, 8}}
    \cup {[partition |-> 20, maxDriver |-> 9, maxExtents |-> 0]}

=============================================================================
