------------------------------ MODULE MC_KcRebase ------------------------------
(* Collections with something to rewrite, for TLC.  A word takes eight bytes, *)
(* as in the code; a header takes two, a page of the arena four.              *)
EXTENDS MC_KernelCollection, KcRebase

NoTables ==
  [writable |-> {}, local |-> <<>>, external |-> <<>>, sections |-> <<>>, chains |-> None]

With(image, tables) == image @@ [fixups |-> tables]

\* The collections of MC_KernelCollection have nothing to rewrite.
Plain(f) ==
  [length |-> f.length, words |-> <<>>, values |-> <<>>,
   images |-> [o \in DOMAIN f.images |-> With(f.images[o], NoTables)]]

-----------------------------------------------------------------------------
(* One collection: code at 4, data at 16 with a zero tail, a kernel whose     *)
(* part of the data ends at 28, and a kext that has some of the rest.         *)

OuterCommands ==
  <<Segment(4, 12, 0, 12, TRUE), Segment(16, 26, 12, 24, FALSE), Thread(8),
    Member(2, 6), Member(8, 12)>>

KernelCommands == <<Segment(6, 4, 2, 4, TRUE), Segment(16, 12, 12, 12, FALSE)>>

KextCommands == <<Segment(12, 4, 8, 4, TRUE), Segment(28, 6, 24, 6, FALSE)>>

Collection(outer, kernel, kext, types, words, values) ==
  [length |-> 36, words |-> words, values |-> values,
   images |-> (0 :> With(Image("fileset", OuterCommands), outer))
                @@ (2 :> With(Image(types[1], KernelCommands), kernel))
                @@ (8 :> With(Image(types[2], KextCommands), kext))]

Entry0 == [displacement |-> 0, length |-> 2, type |-> 0, pc |-> FALSE, external |-> FALSE,
           symbol |-> 0]

At(displacement, length) ==
  [Entry0 EXCEPT !.displacement = displacement, !.length = length]

Local(entries) == [NoTables EXCEPT !.writable = {2}, !.local = entries]

Usual == <<"execute", "kext">>

\* Displacements count from 16: into the kernel's data, over its end, into the
\* zero tail, onto two headers and out of the address space.
Pool ==
  {At(0, 3), At(4, 2), At(8, 2), At(10, 2), At(18, 3), At(-10, 2), At(1, 0), At(-17, 2)}

EntryLists ==
  {<<>>} \cup {<<e>> : e \in Pool} \cup {<<d, e>> : d, e \in Pool}
    \cup {<<At(0, 3), At(1, 0), At(4, 2)>>, <<At(8, 2), At(4, 2), At(0, 2)>>,
          <<At(60, 2)>>, <<At(-12, 2)>>, <<At(-4, 2)>>}

-----------------------------------------------------------------------------
(* Chains *)

Page(starts) == [multi |-> FALSE, starts |-> starts, ended |-> TRUE]

Multi(starts, ended) == [multi |-> TRUE, starts |-> starts, ended |-> ended]

Chained(segment, format, size, pages) ==
  [segment |-> segment, format |-> format, pageSize |-> size, pages |-> pages,
   offset |-> IF segment = 1 THEN 0 ELSE 12]

Word(next) == [NullWord EXCEPT !.next = next]

Chains(segments) == [imports |-> 0, symbols |-> 0, segments |-> segments]

\* A chain from 24 to 31 that ends there, goes on over the end of its page,
\* leaves the page or the file; two chains that share a word or its bytes; a
\* page the segment does not have, and starts without an end.
ChainLists ==
  {None}
    \cup {Chains(<<Chained(2, 11, 8, pages)>>) :
            pages \in {<<Page(<<>>), Page(<<0>>)>>, <<Page(<<>>), Page(<<>>), Page(<<0>>)>>,
                       <<Page(<<>>), Page(<<>>), Page(<<1>>)>>,
                       <<Page(<<4>>), Page(<<0>>)>>,
                       <<Page(<<>>), Multi(<<0, 4>>, TRUE)>>,
                       <<Page(<<>>), Multi(<<0>>, FALSE)>>,
                       <<Page(<<>>), Page(<<>>), Page(<<>>), Page(<<>>), Page(<<>>)>>}}
    \cup {Chains(<<Chained(2, 11, 16, <<Page(<<8>>), Page(<<0>>)>>)>>),
          Chains(<<Chained(2, 8, 8, <<Page(<<8>>)>>)>>),
          Chains(<<Chained(2, 8, 8, <<Page(<<0>>)>>)>>),
          Chains(<<Chained(2, 11, 12, <<>>)>>),
          Chains(<<[Chained(2, 11, 8, <<>>) EXCEPT !.offset = 3]>>)}

\* The word at 24 (20 in the file) says where the next one is, to who follows a chain.
Strides == {0, 1, 4, 8, 9}

Combined ==
  {Collection([Local(entries) EXCEPT !.chains = chains], NoTables, NoTables, Usual,
              IF next = 0 THEN <<>> ELSE 20 :> Word(next), <<>>) :
     entries \in {<<>>, <<At(0, 3)>>, <<At(0, 3), At(1, 0)>>, <<At(0, 3), At(8, 2)>>, <<At(6, 3)>>},
     chains \in ChainLists \ {None}, next \in Strides}
    \cup {Collection(Local(entries), NoTables, NoTables, Usual, <<>>, <<>>) :
            entries \in {<<At(0, 3), At(1, 0)>>, <<At(6, 3)>>}}

Relocated ==
  {Collection(Local(entries), NoTables, NoTables, Usual, <<>>, <<>>) : entries \in EntryLists}

\* Stored values at the limits of a word, and words no kernel may have.
Valued ==
  {Collection(Local(<<At(0, length)>>), NoTables, NoTables, Usual, <<>>, 12 :> value) :
     length \in {2, 3}, value \in {MaxHalf - 1, MaxHalf, MaxAddress}}
    \cup {Collection(Local(<<e>>), NoTables, NoTables, Usual, <<>>, <<>>) :
            e \in {[Entry0 EXCEPT !.type = 1], [Entry0 EXCEPT !.pc = TRUE],
                   [Entry0 EXCEPT !.external = TRUE], [Entry0 EXCEPT !.symbol = 1]}}
    \cup {Collection([Local(<<>>) EXCEPT !.chains = Chains(<<Chained(2, 11, 8, <<Page(<<0>>)>>)>>)],
                     NoTables, NoTables, Usual, 12 :> word, <<>>) :
            word \in {[NullWord EXCEPT !.cache = 1], [NullWord EXCEPT !.auth = TRUE],
                      [NullWord EXCEPT !.target = MaxAddress],
                      [NullWord EXCEPT !.target = 50]}}

Section(address, size, entries) == [address |-> address, size |-> size, entries |-> entries]

\* Tables that members bring, no base, imports, and too few or many kernels.
OddTables ==
  {Collection([Local(<<At(0, 2)>>) EXCEPT !.writable = {}], NoTables, NoTables, Usual, <<>>, <<>>),
   Collection([Local(<<>>) EXCEPT !.external = <<At(0, 2)>>], NoTables, NoTables, Usual, <<>>, <<>>),
   Collection([Local(<<>>) EXCEPT !.chains = [imports |-> 1, symbols |-> 1, segments |-> <<>>]],
              NoTables, NoTables, Usual, <<>>, <<>>),
   Collection(NoTables, Local(<<At(0, 2)>>), NoTables, Usual, <<>>, <<>>),
   Collection(Local(<<At(0, 2)>>), NoTables, Local(<<At(16, 2)>>), Usual, <<>>, <<>>),
   Collection(Local(<<At(0, 2)>>), NoTables, Local(<<At(20, 2)>>), Usual, <<>>, <<>>),
   Collection(Local(<<At(0, 2)>>), NoTables, NoTables, <<"execute", "execute">>, <<>>, <<>>),
   Collection(Local(<<At(0, 2)>>), NoTables, NoTables, <<"kext", "kext">>, <<>>, <<>>)}
    \cup {Collection([Local(<<At(0, 2)>>) EXCEPT !.sections = <<Section(20, 6, <<e>>)>>],
                     NoTables, NoTables, Usual, <<>>, <<>>) :
            e \in {At(0, 2), At(3, 2), At(-1, 2)}}

RewrittenFiles ==
  {Plain(f) : f \in SmallFiles} \cup Combined \cup Relocated \cup Valued \cup OddTables

SmallLimits ==
  {DefaultLimits, [records |-> 1, issues |-> 1, pages |-> 1],
   [records |-> 4, issues |-> 4, pages |-> 0]}

=============================================================================
