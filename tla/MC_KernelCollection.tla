-------------------------- MODULE MC_KernelCollection --------------------------
(* Collections for TLC.  A header takes two bytes, an instruction two. *)
EXTENDS KernelCollection, TLC

Segment(address, memory, offset, size, executable) ==
  [kind |-> "segment", address |-> address, memory |-> memory,
   file |-> [offset |-> offset, size |-> size], executable |-> executable]

Member(offset, address) == [kind |-> "member", offset |-> offset, address |-> address]

Thread(pc) == [kind |-> "thread", pc |-> pc]

Image(type, commands) ==
  [type |-> type, subtype |-> 0, commandBytes |-> 1, commands |-> commands]

\* The outer segments: code behind the header, and data that touches it, lies
\* behind a gap, overlaps it in memory or in the file, or leaves the file or
\* the address space.
Texts == {Segment(2, 6, 0, size, executable) : size \in {5, 6}, executable \in BOOLEAN}

Datas ==
  {Segment(address, memory, 6, 2, FALSE) : address \in {6, 8, 9}, memory \in {2, 3}}
    \cup {Segment(MaxAddress - 1, 3, 6, 2, FALSE), Segment(8, 1, 6, 2, FALSE),
          Segment(8, 2, 7, 2, FALSE), Segment(8, 2, 4, 2, FALSE)}

\* A member in the code and in the data, with segments that fit or do not.
MemberTexts == {Segment(address, memory, offset, 3, TRUE) :
                  address \in {4, 5}, memory \in {3, 5}, offset \in {1, 2}}

MemberDatas == {Segment(address, memory, offset, size, FALSE) :
                  address \in {8, 9}, memory \in {1, 2}, offset \in {6, 7},
                  size \in {0, 1}}

OneMember ==
  {[length |-> 8,
    images |-> (0 :> Image("fileset", <<text, data, Thread(pc), Member(2, address)>>))
                 @@ (2 :> Image("kext", <<mtext, mdata>>))] :
     text \in Texts, data \in Datas, pc \in {4, 7}, address \in {4, 5},
     mtext \in MemberTexts, mdata \in MemberDatas}

\* Files with two members, one without an entry, one without members, one whose
\* second image is missing, and one that needs too many segments.
Sound == Segment(2, 6, 0, 6, TRUE)

SoundMember(offset) == Image("execute", <<Segment(2 + offset, 2, offset, 2, TRUE)>>)

EmptySegment == Segment(0, 0, 0, 0, FALSE)

SplitMember(offset) ==
  Image("execute", [n \in 1 .. MaxSegments - 2 |->
    IF n = MaxSegments - 2 THEN Segment(2 + offset, 2, offset, 2, TRUE) ELSE EmptySegment])

OddCommands ==
  {<<Sound, Thread(4), Member(2, 4), Member(4, 6)>>,
   <<Sound, Thread(4), Member(2, 4), Member(2, 6)>>,
   <<Sound, Thread(4), Member(2, 4), Member(3, 5)>>,
   <<Sound, Thread(4), Member(2, 4), Thread(5)>>,
   <<Sound, [kind |-> "main"], Member(2, 4)>>,
   <<Thread(4), Member(2, 4), Sound, Segment(8, 2, 6, 2, FALSE)>>,
   <<Sound, Member(2, 4)>>, <<Sound, Thread(4)>>, <<Thread(4), Member(2, 4)>>,
   <<Sound, Thread(4), Member(4, 6), Segment(8, 2, 6, 2, FALSE), Member(2, 4)>>}

OddFiles ==
  {[length |-> 8,
    images |-> (0 :> Image("fileset", commands))
                 @@ (2 :> SoundMember(2)) @@ (4 :> SplitMember(4))] :
     commands \in OddCommands}

SmallFiles == OneMember \cup OddFiles

=============================================================================
