--------------------------- MODULE MC_StartupImages ---------------------------
(* Startup companions for TLC: pages of four bytes, a header of two. *)
EXTENDS StartupImages

Command(kind) == [kind |-> kind, shape |-> "Ok"]

SegmentOf(kind, vmaddr, vmsize, fileoff, filesize, sections) ==
  [kind |-> kind, shape |-> "Ok", vmaddr |-> vmaddr, vmsize |-> vmsize,
   fileoff |-> fileoff, filesize |-> filesize, attributes |-> 0, sections |-> sections]

Seg(vmaddr, vmsize, fileoff, filesize) ==
  SegmentOf("segment", vmaddr, vmsize, fileoff, filesize, <<>>)

Zero(vmsize) == SegmentOf("pagezero", 0, vmsize, 0, 0, <<>>)

Symbols(offset, bytes, symbols) ==
  [kind |-> "symtab", shape |-> "Ok", symbols |-> symbols,
   tables |-> <<[offset |-> offset, bytes |-> bytes]>>]

Dynamic(first, count, bytes) ==
  [kind |-> "dysymtab", shape |-> "Ok", ranges |-> <<[first |-> first, count |-> count]>>,
   tables |-> <<[offset |-> 0, bytes |-> bytes]>>]

File(commands) ==
  [length |-> 8, head |-> "Ok", commandBytes |-> 1, closed |-> TRUE, commands |-> commands]

Text == Seg(9, 4, 0, 3)

Section(address, size, fileoff, zerofill) ==
  [address |-> address, size |-> size, fileoff |-> fileoff, zerofill |-> zerofill,
   align |-> 0, relocations |-> [offset |-> 0, bytes |-> 0]]

\* A data segment at every boundary: in front of the text, behind it, against
\* it, with or without a hole, in memory and in the file.
Layouts ==
  {File(<<Text, Seg(vmaddr, vmsize, fileoff, filesize)>>) :
     vmaddr \in {6, 10, 12, 13, 15, 60}, vmsize \in {1, 3, 6}, fileoff \in {2, 3, 6},
     filesize \in {0, 2}}

Sectioned ==
  {File(<<SegmentOf("segment", 9, 4, 0, 3, <<Section(address, size, fileoff, zerofill)>>)>>) :
     address \in {8, 9, 11}, size \in {0, 2, 3, 56}, fileoff \in {0, 2}, zerofill \in BOOLEAN}

Odd ==
  {[File(<<Text>>) EXCEPT !.head = "UnsupportedCpu"], [File(<<Text>>) EXCEPT !.closed = FALSE],
   [File(<<Text>>) EXCEPT !.length = 2], [File(<<Text>>) EXCEPT !.length = 17],
   [File(<<Text>>) EXCEPT !.commandBytes = 2],
   File(<<>>), File(<<Zero(9), Text>>), File(<<Zero(10), Text>>), File(<<Zero(2), Zero(2), Text>>),
   File(<<Zero(0), Text>>), File(<<Text, Command("thread"), Command("note")>>),
   File(<<Text, Command("thread"), Command("thread")>>), File(<<Text, Command("other")>>),
   File(<<Text, [Command("note") EXCEPT !.shape = "Truncated"]>>),
   File(<<Text, Symbols(4, 4, 2), Dynamic(0, 2, 1)>>), File(<<Text, Symbols(4, 5, 2)>>),
   File(<<Text, Dynamic(0, 1, 1)>>), File(<<Text, Symbols(0, 1, 2), Dynamic(1, 2, 1)>>),
   File(<<Text, Symbols(0, 1, 2), Dynamic(15, 2, 1)>>),
   File(<<Text, Symbols(0, 1, 2), Symbols(0, 1, 2)>>),
   File(<<Seg(8, 4, 0, 3), Seg(12, 4, 3, 1), Seg(16, 1, 4, 1), Seg(17, 1, 5, 1)>>)}

Plain == {File(<<Text>>), File(<<Seg(16, 7, 0, 4), Seg(12, 1, 5, 2)>>)}

SmallCompanions ==
  [sptm : Layouts, txm : {File(<<Text>>)}]
    \cup [sptm : Plain, txm : Sectioned \cup Odd \cup Plain]

\* Arenas with the occupied end below, in and above them, and just large enough.
SmallArenas ==
  [base : {6, 8}, occupied : {0, 8, 11, 30}, length : {16, 22}]
    \cup {[base |-> 40, occupied |-> 44, length |-> length] : length \in {23, 24}}

Stucks == {{}, {2}, {5}, {9}, {11}, {13}, {15}}

=============================================================================
