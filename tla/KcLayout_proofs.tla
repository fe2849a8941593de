---------------------------- MODULE KcLayout_proofs ----------------------------
(***************************************************************************)
(* Theorems about the inspection of kernel collections, and what is true   *)
(* of the arena that an accepted one is laid out in, for every file, every *)
(* number of members, every page size and every limit on the arena.        *)
(***************************************************************************)
EXTENDS KcLayout, TLAPS, NaturalLemmas, FiniteSetTheorems, SequenceTheorems


-----------------------------------------------------------------------------
(* The images of a file *)

FileOK ==
  /\ file.length \in 0 .. MaxAddress
  /\ DOMAIN file.images \subseteq 0 .. MaxAddress
  /\ \A o \in DOMAIN file.images :
       /\ file.images[o].commandBytes \in Nat
       /\ file.images[o].commands \in Seq(Commands)

LEMMA FileStaysOK == CollectionSpec => []FileOK
<1>1. CollectionInit => FileOK
  BY FileAssumption DEF CollectionInit, FileOK
<1>2. FileOK /\ [CollectionNext]_collectionVars => FileOK'
  BY DEF CollectionNext, Inspect, collectionVars, FileOK
<1> QED  BY <1>1, <1>2, PTL DEF CollectionSpec

\* The segments of an image are segment commands with addresses and sizes.
LEMMA SegmentsType ==
  ASSUME FileOK, NEW o \in DOMAIN file.images, NEW s \in Segments(file.images[o])
  PROVE  /\ s \in SegmentCommands
         /\ s.address \in Nat /\ s.memory \in Nat
         /\ s.file.offset \in Nat /\ s.file.size \in Nat
<1>1. PICK i \in DOMAIN file.images[o].commands :
        /\ s = file.images[o].commands[i]
        /\ s.kind = "segment"
  BY DEF Segments, Kinds
<1>2. s \in Commands
  BY <1>1 DEF FileOK
<1>3. s \in SegmentCommands
  BY <1>1, <1>2 DEF Commands
<1> QED  BY <1>3, CollectionAssumption DEF SegmentCommands

\* position() finds the first index there is.
LEMMA FirstIsMember ==
  ASSUME NEW S, S \subseteq Nat, S # {}
  PROVE  First(S) \in S
<1>1. \E i \in S : \A j \in S : i <= j
  BY LeastNatural
<1> QED  BY <1>1 DEF First

\* The commands of an image are numbered.
LEMMA KindsAreNumbers ==
  ASSUME FileOK, NEW o \in DOMAIN file.images, NEW kinds
  PROVE  /\ Kinds(file.images[o], kinds) \subseteq Nat
         /\ \A i \in Kinds(file.images[o], kinds) : file.images[o].commands[i] \in Commands
<1>1. file.images[o].commands \in Seq(Commands)
  BY DEF FileOK
<1> QED  BY <1>1 DEF Kinds

\* The images an accepted file is made of were found and parsed.
LEMMA ImagesParsed ==
  ASSUME FileOK, Accepted
  PROVE  /\ ImageCheck(0, TRUE, 0) = "Ok"
         /\ 0 \in DOMAIN file.images
         /\ EntryCheck = "Ok"
         /\ \A k \in Members :
              /\ MemberCheck(k) = "Ok"
              /\ Outer.commands[k].offset \in DOMAIN file.images
              /\ ImageCheck(Outer.commands[k].offset, FALSE, Used(k)) = "Ok"
<1>1. ImageCheck(0, TRUE, 0) = "Ok"
  BY DEF Accepted, InspectCheck
<1>2. EntryCheck = "Ok"
  BY <1>1 DEF Accepted, InspectCheck
<1>3. \A base, outer, used :
        ImageCheck(base, outer, used) = "Ok" => base \in DOMAIN file.images
  BY DEF ImageCheck
<1>4. 0 \in DOMAIN file.images
  BY <1>1, <1>3
<1>5. FailingMembers = {}
  <2> SUFFICES ASSUME FailingMembers # {}
               PROVE  FALSE
    OBVIOUS
  <2>1. MemberCheck(First(FailingMembers)) = "Ok"
    BY <1>1, <1>2 DEF Accepted, InspectCheck
  <2>2. FailingMembers \subseteq Nat
    BY <1>4, KindsAreNumbers DEF FailingMembers, Members, Outer
  <2>3. First(FailingMembers) \in FailingMembers
    BY <2>2, FirstIsMember
  <2> QED  BY <2>1, <2>3 DEF FailingMembers
<1>6. ASSUME NEW k \in Members
      PROVE  /\ MemberCheck(k) = "Ok"
             /\ ImageCheck(Outer.commands[k].offset, FALSE, Used(k)) = "Ok"
  <2>1. MemberCheck(k) = "Ok"
    BY <1>5 DEF FailingMembers
  <2> QED  BY <2>1 DEF MemberCheck
<1> QED  BY <1>1, <1>2, <1>3, <1>4, <1>6

-----------------------------------------------------------------------------
(* Members are views *)

\* A member that passed its checks.
LEMMA MemberChecked ==
  ASSUME FileOK, Accepted, NEW k \in Members
  PROVE  /\ MemberImage(k) = file.images[Outer.commands[k].offset]
         /\ Outer.commands[k].offset \in DOMAIN file.images
         /\ IsCollectionView(Header(MemberImage(k), Outer.commands[k].offset),
                             Outer.commands[k].address)
         /\ \A s \in Segments(MemberImage(k)) : SegmentIsView(s)
<1>1. MemberCheck(k) = "Ok" /\ Outer.commands[k].offset \in DOMAIN file.images
  BY ImagesParsed
<1>2. IsCollectionView(Header(MemberImage(k), Outer.commands[k].offset),
                       Outer.commands[k].address)
  BY <1>1 DEF MemberCheck
<1>3. \A s \in Segments(MemberImage(k)) : SegmentIsView(s)
  BY <1>1, <1>2 DEF MemberCheck
<1> QED  BY <1>1, <1>2, <1>3 DEF MemberImage

\* A view of a file range puts each of its bytes where the collection does.
LEMMA ViewsAgree ==
  ASSUME FileOK, 0 \in DOMAIN file.images,
         NEW offset \in Nat, NEW size \in Nat, NEW address \in Nat,
         IsCollectionView(FileRange(offset, size), address),
         NEW n \in Nat, n < size
  PROVE  offset + n \in FilesAt(Outer, address + n)
<1>1. PICK s \in Segments(Outer) :
        /\ Encloses(s.file, FileRange(offset, size))
        /\ address - s.address = offset - s.file.offset
  BY DEF IsCollectionView, FileRange
<1>2. s.address \in Nat /\ s.file.offset \in Nat /\ s.file.size \in Nat
  BY SegmentsType DEF Outer
<1>3. s.file.offset <= offset /\ offset + size <= s.file.offset + s.file.size
  BY <1>1 DEF Encloses, Limit, FileRange
<1>4. /\ s.address <= address + n
      /\ address + n < s.address + s.file.size
      /\ offset + n = s.file.offset + ((address + n) - s.address)
  BY <1>1, <1>2, <1>3
<1>5. s \in {t \in Segments(Outer) :
               t.address <= address + n /\ address + n < t.address + t.file.size}
  BY <1>1, <1>4
<1> QED  BY <1>4, <1>5, Zenon DEF FilesAt

\* A byte that a member's own header puts at an address is there in memory as
\* the collection maps it, and a member owns no memory of its own.
THEOREM MembersAreViewsOfCollection == CollectionSpec => []MembersAreViews
<1>1. FileOK => MembersAreViews
  <2> SUFFICES ASSUME FileOK, Accepted, NEW k \in Members, NEW a \in 0 .. MaxAddress
               PROVE  /\ FilesAt(MemberImage(k), a) \subseteq FilesAt(Outer, a)
                      /\ MappedBy(MemberImage(k), a) => MappedBy(Outer, a)
    BY DEF MembersAreViews
  <2>1. /\ MemberImage(k) = file.images[Outer.commands[k].offset]
        /\ Outer.commands[k].offset \in DOMAIN file.images
        /\ \A s \in Segments(MemberImage(k)) : SegmentIsView(s)
    BY MemberChecked
  <2>2. 0 \in DOMAIN file.images
    BY ImagesParsed
  <2>3. ASSUME NEW s \in Segments(MemberImage(k)),
               s.address <= a, a < s.address + s.file.size
        PROVE  s.file.offset + (a - s.address) \in FilesAt(Outer, a)
    <3>1. s.address \in Nat /\ s.file.offset \in Nat /\ s.file.size \in Nat
          /\ s \in SegmentCommands
      BY <2>1, SegmentsType
    <3>2. s.file = FileRange(s.file.offset, s.file.size)
      BY <3>1 DEF SegmentCommands, FileRange
    <3>3. IsCollectionView(FileRange(s.file.offset, s.file.size), s.address)
      BY <2>1, <2>3, <3>1, <3>2 DEF SegmentIsView
    <3>4. a - s.address \in Nat /\ a - s.address < s.file.size
      BY <2>3, <3>1, CollectionAssumption
    <3>5. s.file.offset + (a - s.address) \in FilesAt(Outer, s.address + (a - s.address))
      BY <2>2, <3>1, <3>3, <3>4, ViewsAgree
    <3>6. s.address + (a - s.address) = a
      BY <3>1, CollectionAssumption
    <3> QED  BY <3>5, <3>6
  <2>4. ASSUME NEW s \in Segments(MemberImage(k)),
               s.address <= a, a < Limit(Memory(s))
        PROVE  MappedBy(Outer, a)
    <3>1. s.address \in Nat /\ s.memory \in Nat
      BY <2>1, SegmentsType
    <3>2. s.memory # 0
      BY <2>4, <3>1, CollectionAssumption DEF Limit, Memory, FileRange
    <3>3. PICK o \in Segments(Outer) : Encloses(Memory(o), Memory(s))
      BY <2>1, <3>2 DEF SegmentIsView
    <3>4. o.address \in Nat /\ o.memory \in Nat
      BY <2>2, SegmentsType DEF Outer
    <3>5. o.address <= a /\ a < Limit(Memory(o))
      BY <2>4, <3>1, <3>3, <3>4, CollectionAssumption
         DEF Encloses, Limit, Memory, FileRange
    <3> QED  BY <3>5 DEF MappedBy
  <2> QED  BY <2>3, <2>4 DEF FilesAt, MappedBy
<1> QED  BY <1>1, FileStaysOK, PTL

\* The header of each member is mapped, byte for byte, where the collection's
\* member command says it is.
THEOREM MemberHeadersAreMapped == CollectionSpec => []HeadersAreMapped
<1>1. FileOK => HeadersAreMapped
  <2> SUFFICES ASSUME FileOK, Accepted, NEW k \in Members,
                      NEW n \in 0 .. HeaderSize(MemberImage(k)) - 1
               PROVE  Outer.commands[k].offset + n
                        \in FilesAt(Outer, Outer.commands[k].address + n)
    BY DEF HeadersAreMapped
  <2>1. /\ MemberImage(k) = file.images[Outer.commands[k].offset]
        /\ Outer.commands[k].offset \in DOMAIN file.images
        /\ IsCollectionView(Header(MemberImage(k), Outer.commands[k].offset),
                            Outer.commands[k].address)
    BY MemberChecked
  <2>2. 0 \in DOMAIN file.images
    BY ImagesParsed
  <2>3. HeaderSize(MemberImage(k)) \in Nat
    <3>1. file.images[Outer.commands[k].offset].commandBytes \in Nat
      BY <2>1 DEF FileOK
    <3> QED  BY <2>1, <3>1, CollectionAssumption DEF HeaderSize
  <2>4. Outer.commands[k].offset \in Nat /\ Outer.commands[k].address \in Nat
    <3>1. Outer.commands[k] \in Commands
      BY <2>2, KindsAreNumbers DEF Members, Outer
    <3>2. Outer.commands[k].kind = "member"
      BY DEF Members, Kinds
    <3>3. Outer.commands[k] \in [kind : {"member"}, offset : 0 .. MaxAddress,
                                  address : 0 .. MaxAddress]
      BY <3>1, <3>2 DEF Commands, SegmentCommands
    <3> QED  BY <3>3, CollectionAssumption
  <2> QED  BY <2>1, <2>2, <2>3, <2>4, ViewsAgree DEF Header
<1> QED  BY <1>1, FileStaysOK, PTL

-----------------------------------------------------------------------------
(* What parsing an image has established *)

\* A segment that parse_segment() let pass.
SegmentOK(s) ==
  /\ s \in SegmentCommands
  /\ s.address \in Nat /\ s.memory \in Nat
  /\ s.file.offset \in Nat /\ s.file.size \in Nat
  /\ s.file = FileRange(s.file.offset, s.file.size)
  /\ s.file.offset + s.file.size <= MaxAddress
  /\ s.file.offset + s.file.size <= file.length
  /\ s.address + s.memory <= MaxAddress
  /\ s.file.size <= s.memory

\* An accepted image got through each of its checks.
LEMMA ImageParsed ==
  ASSUME FileOK, NEW base, NEW outer, NEW used, ImageCheck(base, outer, used) = "Ok"
  PROVE  /\ base \in DOMAIN file.images
         /\ \A i \in DOMAIN file.images[base].commands :
              CommandCheck(file.images[base], i, outer, used) = "Ok"
         /\ Disjoint(file.images[base])
         /\ HeaderHolders(file.images[base], base) # {}
<1>1. base \in DOMAIN file.images
  BY DEF ImageCheck
<1> DEFINE image == file.images[base]
           failing == FailingCommands(image, outer, used)
<1>2. failing # {} => CommandCheck(image, First(failing), outer, used) = "Ok"
  BY <1>1 DEF ImageCheck
<1>3. failing = {}
  <2>1. failing \subseteq Nat
    BY <1>1 DEF FailingCommands, FileOK
  <2>2. failing # {} => First(failing) \in failing
    BY <2>1, FirstIsMember
  <2> QED  BY <1>2, <2>2 DEF FailingCommands
<1>4. Disjoint(image) /\ HeaderHolders(image, base) # {}
  BY <1>1, <1>3 DEF ImageCheck
<1> QED  BY <1>1, <1>3, <1>4 DEF FailingCommands

LEMMA SegmentsParsed ==
  ASSUME FileOK, NEW base, NEW outer, NEW used, ImageCheck(base, outer, used) = "Ok",
         NEW i \in Kinds(file.images[base], {"segment"})
  PROVE  SegmentOK(file.images[base].commands[i])
<1> DEFINE s == file.images[base].commands[i]
<1>1. base \in DOMAIN file.images /\ i \in DOMAIN file.images[base].commands
      /\ s.kind = "segment"
  BY ImageParsed DEF Kinds
<1>2. SegmentCheck(s) = "Ok"
  <2>1. CommandCheck(file.images[base], i, outer, used) = "Ok"
    BY <1>1, ImageParsed
  <2> QED  BY <1>1, <2>1 DEF CommandCheck
<1>3. s \in SegmentCommands
  BY <1>1 DEF FileOK, Commands
<1>4. /\ s.address \in Nat /\ s.memory \in Nat
      /\ s.file.offset \in Nat /\ s.file.size \in Nat
      /\ s.file = FileRange(s.file.offset, s.file.size)
  BY <1>3, CollectionAssumption DEF SegmentCommands, FileRange
<1> HIDE DEF s
<1>5. RangeCheck(s.file) = "Ok"
  BY <1>2 DEF SegmentCheck
<1>6. ~ (Limit(Memory(s)) > MaxAddress) /\ ~ (s.file.size > s.memory)
  BY <1>2, <1>5 DEF SegmentCheck
<1>7. ~ (Limit(s.file) > MaxAddress) /\ ~ (Limit(s.file) > file.length)
  BY <1>5 DEF RangeCheck
<1>8. file.length \in Nat /\ MaxAddress \in Nat
  BY CollectionAssumption DEF FileOK
<1>9. SegmentOK(s)
  BY ONLY <1>3, <1>4, <1>6, <1>7, <1>8 DEF SegmentOK, Limit, Memory, FileRange
<1> QED  BY <1>9 DEF s

\* The outer image and its members.
LEMMA OuterParsed ==
  ASSUME FileOK, Accepted
  PROVE  /\ 0 \in DOMAIN file.images
         /\ \A i \in Kinds(Outer, {"segment"}) : SegmentOK(Outer.commands[i])
         /\ Disjoint(Outer)
         /\ HeaderHolders(Outer, 0) # {}
         /\ HeaderSize(Outer) \in Nat \ {0}
<1>1. ImageCheck(0, TRUE, 0) = "Ok" /\ 0 \in DOMAIN file.images
  BY ImagesParsed
<1>2. Disjoint(Outer) /\ HeaderHolders(Outer, 0) # {}
  BY <1>1, ImageParsed DEF Outer
<1>3. \A i \in Kinds(Outer, {"segment"}) : SegmentOK(Outer.commands[i])
  BY <1>1, SegmentsParsed DEF Outer
<1>4. file.images[0].commandBytes \in Nat
  BY <1>1 DEF FileOK
<1>5. HeaderSize(Outer) \in Nat \ {0}
  BY <1>4, CollectionAssumption DEF HeaderSize, Outer
<1> QED  BY <1>1, <1>2, <1>3, <1>5

LEMMA MemberParsed ==
  ASSUME FileOK, Accepted, NEW k \in Members
  PROVE  /\ \A i \in Kinds(MemberImage(k), {"segment"}) :
              /\ SegmentOK(MemberImage(k).commands[i])
              /\ MemberImage(k).commands[i] \in Segments(MemberImage(k))
              /\ i \in Nat \ {0}
         /\ HeaderSize(MemberImage(k)) \in Nat \ {0}
         /\ Outer.commands[k].offset \in Nat /\ Outer.commands[k].address \in Nat
         /\ HeaderAddress(MemberImage(k), Outer.commands[k].offset) = Outer.commands[k].address
         /\ IsCollectionView(Header(MemberImage(k), Outer.commands[k].offset),
                             Outer.commands[k].address)
         /\ \A s \in Segments(MemberImage(k)) : SegmentIsView(s)
<1>1. /\ MemberImage(k) = file.images[Outer.commands[k].offset]
      /\ Outer.commands[k].offset \in DOMAIN file.images
      /\ MemberCheck(k) = "Ok"
      /\ ImageCheck(Outer.commands[k].offset, FALSE, Used(k)) = "Ok"
  BY ImagesParsed DEF MemberImage
<1>2. /\ IsCollectionView(Header(MemberImage(k), Outer.commands[k].offset),
                          Outer.commands[k].address)
      /\ \A s \in Segments(MemberImage(k)) : SegmentIsView(s)
  BY MemberChecked
<1>3. HeaderAddress(MemberImage(k), Outer.commands[k].offset) = Outer.commands[k].address
  BY <1>1 DEF MemberCheck
<1>4. MemberImage(k).commandBytes \in Nat /\ MemberImage(k).commands \in Seq(Commands)
  BY <1>1 DEF FileOK
<1>5. HeaderSize(MemberImage(k)) \in Nat \ {0}
  BY <1>4, CollectionAssumption DEF HeaderSize
<1>6. ASSUME NEW i \in Kinds(MemberImage(k), {"segment"})
      PROVE  /\ SegmentOK(MemberImage(k).commands[i])
             /\ MemberImage(k).commands[i] \in Segments(MemberImage(k))
             /\ i \in Nat \ {0}
  <2>1. SegmentOK(MemberImage(k).commands[i])
    BY <1>1, SegmentsParsed
  <2>2. i \in Nat \ {0}
    BY <1>4 DEF Kinds
  <2> QED  BY <2>1, <2>2 DEF Segments
<1>7. Outer.commands[k].offset \in Nat /\ Outer.commands[k].address \in Nat
  <2>1. Outer.commands[k] \in Commands
    BY OuterParsed, KindsAreNumbers DEF Members, Outer
  <2>2. Outer.commands[k].kind = "member"
    BY DEF Members, Kinds
  <2>3. Outer.commands[k] \in [kind : {"member"}, offset : 0 .. MaxAddress,
                                address : 0 .. MaxAddress]
    BY <2>1, <2>2 DEF Commands, SegmentCommands
  <2> QED  BY <2>3, CollectionAssumption
<1> QED  BY <1>2, <1>3, <1>5, <1>6, <1>7

-----------------------------------------------------------------------------
(* Outer segments do not meet *)

\* The place of a segment in the arena, apart from Base.
LEMMA SegmentsAreApart ==
  ASSUME FileOK, Accepted,
         NEW i \in Nonempty, NEW j \in Nonempty, NEW a \in Nat,
         Outer.commands[i].address <= a,
         a < Outer.commands[i].address + Outer.commands[i].memory,
         Outer.commands[j].address <= a,
         a < Outer.commands[j].address + Outer.commands[j].memory
  PROVE  i = j
<1> SUFFICES ASSUME i # j
             PROVE  FALSE
  OBVIOUS
<1> PICK s : s = Outer.commands[i]
  OBVIOUS
<1> PICK t : t = Outer.commands[j]
  OBVIOUS
<1>1. i \in Kinds(Outer, {"segment"}) /\ j \in Kinds(Outer, {"segment"})
  BY DEF Nonempty
<1>2. ~ Meets(Memory(s), Memory(t))
  BY <1>1, OuterParsed DEF Disjoint
<1>3. s.address \in Nat /\ s.memory \in Nat /\ t.address \in Nat /\ t.memory \in Nat
  BY <1>1, OuterParsed DEF SegmentOK
<1> QED  BY <1>2, <1>3 DEF Meets, Memory, FileRange, Limit

\* The outer segments that staging keeps.
LEMMA OuterSegments ==
  ASSUME FileOK, Accepted, NEW s \in Segments(Outer)
  PROVE  /\ SegmentOK(s)
         /\ \E i \in Kinds(Outer, {"segment"}) :
              s = Outer.commands[i] /\ (s.memory # 0 => i \in Nonempty)
<1>1. PICK i \in Kinds(Outer, {"segment"}) : s = Outer.commands[i]
  BY DEF Segments
<1> QED  BY <1>1, OuterParsed DEF Nonempty

-----------------------------------------------------------------------------
(* The arena has a place for every part of an outer segment *)

\* What the limits of the arena are limits of.
LEMMA ArenaSpans ==
  ASSUME FileOK, Accepted, Nonempty # {}
  PROVE  /\ Base \in Nat /\ ArenaSize \in Nat \ {0}
         /\ FirstAddress \in Nat /\ LastAddress \in Nat
         /\ Base <= FirstAddress
         /\ LastAddress <= Base + ArenaSize
         /\ \A i \in Nonempty :
              /\ SegmentOK(Outer.commands[i])
              /\ Outer.commands[i].memory # 0
              /\ FirstAddress <= Outer.commands[i].address
              /\ Outer.commands[i].address + Outer.commands[i].memory <= LastAddress
<1>1. \A i \in Nonempty :
        SegmentOK(Outer.commands[i]) /\ Outer.commands[i].memory # 0
  BY OuterParsed DEF Nonempty
<1> DEFINE starts == {Outer.commands[i].address : i \in Nonempty}
           ends == {Limit(Memory(Outer.commands[i])) : i \in Nonempty}
<1>2. starts \subseteq Nat /\ starts # {}
  BY <1>1 DEF SegmentOK
<1>3. ends \subseteq 0 .. MaxAddress /\ ends # {}
  <2>1. \A i \in Nonempty : Limit(Memory(Outer.commands[i])) \in 0 .. MaxAddress
    <3> TAKE i \in Nonempty
    <3> PICK s : s = Outer.commands[i]
      OBVIOUS
    <3>1. s.address \in Nat /\ s.memory \in Nat /\ s.address + s.memory <= MaxAddress
      BY <1>1 DEF SegmentOK
    <3>2. MaxAddress \in Nat
      BY CollectionAssumption
    <3>3. s.address + s.memory \in 0 .. MaxAddress
      BY <3>1, <3>2
    <3> QED  BY <3>3 DEF Limit, Memory, FileRange
  <2> QED  BY <2>1
<1> HIDE DEF starts, ends
<1>4. FirstAddress \in starts /\ \A x \in starts : FirstAddress <= x
  <2>1. \E x \in starts : \A y \in starts : x <= y
    BY <1>2, LeastNatural
  <2> QED  BY <2>1 DEF FirstAddress, Min, starts
<1>5. LastAddress \in ends /\ \A x \in ends : LastAddress >= x
  <2>1. \E x \in ends : \A y \in ends : y <= x
    BY <1>3, GreatestNatural, CollectionAssumption
  <2>2. \E x \in ends : \A y \in ends : x >= y
    BY <2>1
  <2> QED  BY <2>2 DEF LastAddress, Max, ends
<1>6. FirstAddress \in Nat /\ LastAddress \in Nat
  BY <1>2, <1>3, <1>4, <1>5, CollectionAssumption
<1>7. \A i \in Nonempty :
        /\ FirstAddress <= Outer.commands[i].address
        /\ Outer.commands[i].address + Outer.commands[i].memory <= LastAddress
  <2> TAKE i \in Nonempty
  <2>1. Outer.commands[i].address \in starts
    BY DEF starts
  <2>2. Outer.commands[i].address + Outer.commands[i].memory \in ends
    BY DEF ends, Limit, Memory, FileRange
  <2>3. Outer.commands[i].address + Outer.commands[i].memory \in Nat
    BY <1>1 DEF SegmentOK
  <2> QED  BY <1>4, <1>5, <1>6, <2>1, <2>2, <2>3
<1>8. Base \in Nat /\ Base <= FirstAddress
  BY <1>6, RoundedDown, LayoutAssumption DEF Base, PageStart
<1>9. PageStart(LastAddress + PageSize - 1) \in Nat
      /\ LastAddress <= PageStart(LastAddress + PageSize - 1)
  BY <1>6, RoundedUp, LayoutAssumption DEF PageStart
<1>10. FirstAddress < LastAddress
  <2>1. PICK i \in Nonempty : TRUE
    BY <1>2 DEF starts
  <2>2. /\ Outer.commands[i].address \in Nat /\ Outer.commands[i].memory \in Nat
        /\ Outer.commands[i].memory # 0
    BY <1>1 DEF SegmentOK
  <2> QED  BY <1>6, <1>7, <2>2
<1>11. ArenaSize \in Nat \ {0} /\ LastAddress <= Base + ArenaSize
  <2> PICK e : e = PageStart(LastAddress + PageSize - 1)
    OBVIOUS
  <2>1. ArenaSize = e - Base /\ e \in Nat /\ LastAddress <= e
    BY <1>9 DEF ArenaSize
  <2> QED  BY <1>6, <1>8, <1>10, <2>1
<1> QED  BY <1>1, <1>6, <1>7, <1>8, <1>11

\* relative_range() places whatever lies in an outer segment.
LEMMA PlaceFits ==
  ASSUME FileOK, Accepted, NEW i \in Nonempty,
         NEW address \in Nat, NEW size \in Nat,
         Outer.commands[i].address <= address,
         address + size <= Outer.commands[i].address + Outer.commands[i].memory
  PROVE  /\ PlaceCheck(FileRange(address, size)) = "Ok"
         /\ address - Base \in Nat
         /\ (address - Base) + size <= ArenaSize
<1> PICK s : s = Outer.commands[i]
  OBVIOUS
<1>1. /\ Base \in Nat /\ ArenaSize \in Nat /\ FirstAddress \in Nat /\ LastAddress \in Nat
      /\ Base <= FirstAddress /\ LastAddress <= Base + ArenaSize
      /\ FirstAddress <= s.address /\ s.address + s.memory <= LastAddress
      /\ SegmentOK(s)
  BY ArenaSpans
<1>2. /\ s.address \in Nat /\ s.memory \in Nat /\ s.address + s.memory <= MaxAddress
  BY <1>1 DEF SegmentOK
<1>3. MaxAddress \in Nat
  BY CollectionAssumption
<1>4. address - Base \in Nat /\ (address - Base) + size <= ArenaSize
  BY <1>1, <1>2
<1>5. ~ (address < Base) /\ ~ ((address - Base) + size > MaxAddress)
      /\ ~ ((address - Base) + size > ArenaSize)
  BY <1>1, <1>2, <1>3, <1>4
<1> QED  BY <1>4, <1>5 DEF PlaceCheck, FileRange

\* source_range() finds what a segment maps in the file.
LEMMA SourceFits ==
  ASSUME NEW r, FileOK, r.offset \in Nat, r.size \in Nat,
         NEW s, SegmentOK(s), Encloses(s.file, r)
  PROVE  SourceCheck(r) = "Ok"
<1>1. /\ s.file.offset \in Nat /\ s.file.size \in Nat
      /\ s.file.offset + s.file.size <= MaxAddress
      /\ s.file.offset + s.file.size <= file.length
  BY DEF SegmentOK
<1>2. file.length \in Nat /\ MaxAddress \in Nat
  BY CollectionAssumption DEF FileOK
<1>3. r.offset + r.size <= s.file.offset + s.file.size
  BY DEF Encloses, Limit
<1>4. ~ (r.offset + r.size > MaxAddress) /\ ~ (r.offset + r.size > file.length)
  BY <1>1, <1>2, <1>3
<1> QED  BY <1>4 DEF SourceCheck, Limit

-----------------------------------------------------------------------------
(* Each part of an accepted collection passes the checks of a plan *)

LEMMA SegmentsFit ==
  ASSUME FileOK, Accepted
  PROVE  FailingSegments = {}
<1> SUFFICES ASSUME NEW i \in Nonempty
             PROVE  MappingCheck(Memory(Outer.commands[i]), Outer.commands[i].file) = "Ok"
  BY DEF FailingSegments
<1> PICK s : s = Outer.commands[i]
  OBVIOUS
<1>1. SegmentOK(s)
  BY OuterParsed DEF Nonempty
<1>2. s.address \in Nat /\ s.memory \in Nat /\ s.file.offset \in Nat /\ s.file.size \in Nat
  BY <1>1 DEF SegmentOK
<1>3. PlaceCheck(FileRange(s.address, s.memory)) = "Ok"
  <2>1. /\ Outer.commands[i].address <= s.address
        /\ s.address + s.memory <= Outer.commands[i].address + Outer.commands[i].memory
    BY <1>2
  <2> QED  BY <1>2, <2>1, PlaceFits
<1>4. Encloses(s.file, s.file)
  BY <1>1, <1>2, CollectionAssumption DEF Encloses, Limit, SegmentOK
<1>5. SourceCheck(s.file) = "Ok"
  BY <1>1, <1>2, <1>4, SourceFits
<1> QED  BY <1>3, <1>5 DEF MappingCheck, Memory

LEMMA MappingsAreApart ==
  ASSUME FileOK, Accepted, NEW s \in OuterMappings, NEW t \in OuterMappings,
         s.offset <= t.offset, t.offset < s.offset + s.memory
  PROVE  s = t
<1>1. PICK i \in Nonempty :
        s = Mapping(<<0, i>>, Memory(Outer.commands[i]), Outer.commands[i].file)
  BY DEF OuterMappings
<1>2. PICK j \in Nonempty :
        t = Mapping(<<0, j>>, Memory(Outer.commands[j]), Outer.commands[j].file)
  BY DEF OuterMappings
<1>3. PICK a : a = Outer.commands[i]
  OBVIOUS
<1>4. PICK b : b = Outer.commands[j]
  OBVIOUS
<1>5. /\ a.address \in Nat /\ a.memory \in Nat /\ a.memory # 0
      /\ b.address \in Nat /\ b.memory \in Nat /\ b.memory # 0
      /\ Base \in Nat
  BY <1>3, <1>4, ArenaSpans DEF SegmentOK
<1>6. /\ s.offset = a.address - Base /\ s.memory = a.memory
      /\ t.offset = b.address - Base
  BY <1>1, <1>2, <1>3, <1>4 DEF Mapping, Memory, FileRange
<1>7. a.address <= b.address /\ b.address < a.address + a.memory
      /\ b.address < b.address + b.memory
  BY <1>5, <1>6
<1>8. i = j
  <2>1. /\ Outer.commands[i].address <= b.address
        /\ b.address < Outer.commands[i].address + Outer.commands[i].memory
        /\ Outer.commands[j].address <= b.address
        /\ b.address < Outer.commands[j].address + Outer.commands[j].memory
    BY <1>3, <1>4, <1>5, <1>7
  <2> QED  BY <1>5, <2>1, SegmentsAreApart
<1> QED  BY <1>1, <1>2, <1>8

\* A range that the file bytes of an outer segment enclose lies in the arena
\* where that segment puts it.
LEMMA BackedRangeFits ==
  ASSUME FileOK, Accepted, NEW offset \in Nat, NEW size \in Nat \ {0}, NEW address \in Nat,
         IsCollectionView(FileRange(offset, size), address)
  PROVE  \E i \in Nonempty : LET s == Outer.commands[i] IN
           /\ Encloses(s.file, FileRange(offset, size))
           /\ address - s.address = offset - s.file.offset
           /\ s.address <= address /\ address + size <= s.address + s.file.size
           /\ s.file.size <= s.memory
<1>1. PICK s \in Segments(Outer) :
        /\ Encloses(s.file, FileRange(offset, size))
        /\ address - s.address = offset - s.file.offset
  BY DEF IsCollectionView, FileRange
<1>2. PICK i \in Kinds(Outer, {"segment"}) :
        s = Outer.commands[i] /\ (s.memory # 0 => i \in Nonempty)
  BY OuterSegments
<1>3. SegmentOK(s)
  BY OuterSegments
<1>4. /\ s.address \in Nat /\ s.memory \in Nat /\ s.file.offset \in Nat /\ s.file.size \in Nat
      /\ s.file.size <= s.memory
  BY <1>3 DEF SegmentOK
<1>5. s.file.offset <= offset /\ offset + size <= s.file.offset + s.file.size
  BY <1>1 DEF Encloses, Limit, FileRange
<1>6. s.address <= address /\ address + size <= s.address + s.file.size
  BY <1>1, <1>4, <1>5
<1>7. s.memory # 0
  BY <1>4, <1>5
<1> QED  BY <1>1, <1>2, <1>4, <1>6, <1>7

LEMMA HeaderFits ==
  ASSUME FileOK, Accepted
  PROVE  /\ HeaderAddress(Outer, 0) \in Nat
         /\ PlaceCheck(FileRange(HeaderAddress(Outer, 0), HeaderSize(Outer))) = "Ok"
<1> DEFINE holders == HeaderHolders(Outer, 0)
           h == First(holders)
<1>1. h \in holders
  <2>1. holders \subseteq Nat
    BY OuterParsed, KindsAreNumbers DEF HeaderHolders, Outer
  <2> QED  BY <2>1, OuterParsed, FirstIsMember
<1> PICK s : s = Outer.commands[h]
  OBVIOUS
<1> PICK size : size = HeaderSize(Outer)
  OBVIOUS
<1>2. h \in Kinds(Outer, {"segment"}) /\ Encloses(s.file, FileRange(0, size))
  BY <1>1 DEF HeaderHolders, Header
<1>3. HeaderAddress(Outer, 0) = s.address + (0 - s.file.offset)
  BY DEF HeaderAddress
<1> HIDE DEF h, holders
<1>4. SegmentOK(s) /\ size \in Nat \ {0}
  BY <1>2, OuterParsed
<1>5. /\ s.address \in Nat /\ s.memory \in Nat /\ s.file.offset \in Nat /\ s.file.size \in Nat
      /\ s.file.size <= s.memory
  BY <1>4 DEF SegmentOK
<1>6. s.file.offset <= 0 /\ 0 + size <= s.file.offset + s.file.size
  BY <1>2 DEF Encloses, Limit, FileRange
<1>7. HeaderAddress(Outer, 0) = s.address /\ size <= s.memory /\ s.memory # 0
  <2> PICK f \in Nat : f = s.file.offset
    BY <1>5
  <2>1. f = 0 /\ size <= s.file.size
    BY ONLY <1>4, <1>5, <1>6, f \in Nat, f = s.file.offset
  <2>2. s.address + (0 - f) = s.address
    BY ONLY <1>5, <2>1
  <2>3. size <= s.memory /\ s.memory # 0
    BY ONLY <1>4, <1>5, <2>1
  <2> QED  BY ONLY <1>3, <2>2, <2>3, f = s.file.offset
<1>8. h \in Nonempty
  BY <1>2, <1>7 DEF Nonempty
<1>9. PlaceCheck(FileRange(s.address, size)) = "Ok"
  BY <1>4, <1>5, <1>7, <1>8, PlaceFits
<1> QED  BY <1>5, <1>7, <1>9

\* The one entry of a collection is an instruction that some segment maps.
LEMMA EntryFits ==
  ASSUME FileOK, Accepted
  PROVE  /\ Kinds(Outer, {"thread"}) # {}
         /\ Entry \in Nat /\ PlaceCheck(FileRange(Entry, 1)) = "Ok"
<1> DEFINE entries == Kinds(Outer, {"thread", "main"})
           threads == Kinds(Outer, {"thread"})
<1>1. EntryCheck = "Ok"
  BY ImagesParsed
<1>2. entries # {} /\ Kinds(Outer, {"main"}) = {}
  BY <1>1 DEF EntryCheck
<1>3. \E i \in entries, s \in Segments(Outer) : Enters(Outer.commands[i], s)
  BY <1>1, <1>2 DEF EntryCheck
<1>4. PICK i \in entries, s \in Segments(Outer) : Enters(Outer.commands[i], s)
  BY <1>3
<1>5. entries = threads
  BY <1>2 DEF Kinds
<1>6. threads \subseteq Nat /\ \A j \in threads : Outer.commands[j] \in Commands
  BY OuterParsed, KindsAreNumbers DEF Outer
<1>7. \A j \in threads : ~ \E m \in threads : m < j
  <2> TAKE j \in threads
  <2>1. j \in DOMAIN Outer.commands /\ Outer.commands[j].kind = "thread"
    BY DEF Kinds
  <2>2. CommandCheck(Outer, j, TRUE, 0) = "Ok"
    BY <2>1, ImagesParsed, ImageParsed DEF Outer
  <2>3. {m \in entries : m < j} = {}
    BY <2>1, <2>2 DEF CommandCheck
  <2> QED  BY <1>5, <2>3
<1>8. First(threads) \in threads
  BY <1>2, <1>5, <1>6, FirstIsMember
<1>9. First(threads) = i
  <2> PICK f : f = First(threads)
    OBVIOUS
  <2>1. f \in threads /\ i \in threads /\ ~ (f < i) /\ ~ (i < f)
    BY <1>4, <1>5, <1>7, <1>8
  <2>2. f \in Nat /\ i \in Nat
    BY <1>6, <2>1
  <2> QED  BY <2>1, <2>2
<1> PICK pc : pc = Outer.commands[i].pc
  OBVIOUS
<1>10. Entry = pc
  BY <1>9 DEF Entry
<1>11. pc \in Nat
  <2>1. Outer.commands[i] \in Commands /\ Outer.commands[i].kind = "thread"
    BY <1>4, <1>5, <1>6 DEF Kinds
  <2>2. Outer.commands[i] \in [kind : {"thread"}, pc : 0 .. MaxAddress]
    BY <2>1 DEF Commands, SegmentCommands
  <2> QED  BY <2>2, CollectionAssumption
<1>12. PICK n \in Kinds(Outer, {"segment"}) :
         s = Outer.commands[n] /\ (s.memory # 0 => n \in Nonempty)
  BY OuterSegments
<1>13. /\ s.address \in Nat /\ s.memory \in Nat /\ s.file.size \in Nat
       /\ s.file.size <= s.memory
  BY OuterSegments DEF SegmentOK
<1>14. s.address <= pc /\ pc - s.address < s.file.size
  <2>1. /\ s.address <= pc
        /\ \/ (pc - s.address) + InstructionBytes <= s.file.size
           \/ pc - s.address < s.file.size
    BY <1>4 DEF Enters
  <2>2. InstructionBytes \in Nat \ {0}
    BY CollectionAssumption
  <2> QED  BY <1>11, <1>13, <2>1, <2>2
<1>15. pc + 1 <= s.address + s.memory /\ s.memory # 0
  BY <1>11, <1>13, <1>14
<1>16. PlaceCheck(FileRange(pc, 1)) = "Ok"
  BY <1>11, <1>12, <1>14, <1>15, PlaceFits
<1> QED  BY <1>2, <1>5, <1>10, <1>11, <1>16

\* A view of something that an outer segment maps passes view().
LEMMA ViewFits ==
  ASSUME FileOK, Accepted, NEW v, NEW i \in Nonempty,
         NEW memory, NEW source,
         memory = ViewMemory(v[1], v[2]), source = ViewSource(v[1], v[2]),
         memory = FileRange(memory.offset, memory.size),
         memory.offset \in Nat, memory.size \in Nat,
         source.offset \in Nat, source.size \in Nat,
         source.size <= memory.size,
         SourceCheck(source) = "Ok",
         Encloses(Memory(Outer.commands[i]), memory),
         source.size # 0 =>
           /\ Encloses(Outer.commands[i].file, source)
           /\ memory.offset - Outer.commands[i].address
                = source.offset - Outer.commands[i].file.offset
  PROVE  ViewCheck(v) = "Ok"
<1> PICK s : s = Outer.commands[i]
  OBVIOUS
<1>1. SegmentOK(s) /\ Base \in Nat
  BY ArenaSpans
<1>2. /\ s.address \in Nat /\ s.memory \in Nat /\ s.file.offset \in Nat /\ s.file.size \in Nat
  BY <1>1 DEF SegmentOK
<1>3. /\ Outer.commands[i].address <= memory.offset
      /\ memory.offset + memory.size <= Outer.commands[i].address + Outer.commands[i].memory
  BY DEF Encloses, Limit, Memory, FileRange
<1>4. PlaceCheck(memory) = "Ok"
  BY <1>3, PlaceFits
<1>5. MappingCheck(memory, source) = "Ok"
  BY <1>4 DEF MappingCheck
<1> PICK outer : outer = Mapping(<<0, i>>, Memory(s), s.file)
  OBVIOUS
<1> PICK view : view = Mapping(v, memory, source)
  OBVIOUS
<1>6. outer \in OuterMappings
  BY DEF OuterMappings
<1>7. /\ outer.offset = s.address - Base /\ outer.memory = s.memory
      /\ outer.source = s.file.offset /\ outer.size = s.file.size
  BY DEF Mapping, Memory, FileRange
<1>8. /\ view.offset = memory.offset - Base /\ view.memory = memory.size
      /\ view.source = source.offset /\ view.size = source.size
  BY DEF Mapping
<1>9. /\ s.address <= memory.offset
      /\ memory.offset + memory.size <= s.address + s.memory
  BY <1>3
<1>10. outer.offset <= view.offset /\ view.offset + view.memory <= outer.offset + outer.memory
  BY <1>1, <1>2, <1>7, <1>8, <1>9
<1>11. source.size # 0 =>
         /\ s.file.offset <= source.offset
         /\ source.offset + source.size <= s.file.offset + s.file.size
         /\ memory.offset - s.address = source.offset - s.file.offset
  BY DEF Encloses, Limit
<1>12. view.size # 0 =>
         /\ outer.source <= view.source
         /\ view.source + view.size <= outer.source + outer.size
         /\ view.offset - outer.offset = view.source - outer.source
  BY <1>1, <1>2, <1>7, <1>8, <1>11
<1>13. Shares(view, outer)
  BY <1>10, <1>12 DEF Shares
<1>14. ~ (source.size > memory.size)
  OBVIOUS
<1>15. \E o \in OuterMappings : Shares(Mapping(v, memory, source), o)
  BY <1>6, <1>13
<1> QED  BY <1>5, <1>14, <1>15 DEF ViewCheck

\* The header of a member.
LEMMA HeaderViewFits ==
  ASSUME FileOK, Accepted, NEW k \in Members
  PROVE  ViewCheck(<<k, 0>>) = "Ok"
<1> PICK size : size = HeaderSize(MemberImage(k))
  OBVIOUS
<1> PICK offset : offset = Outer.commands[k].offset
  OBVIOUS
<1> PICK address : address = Outer.commands[k].address
  OBVIOUS
<1>1. /\ size \in Nat \ {0} /\ offset \in Nat /\ address \in Nat
      /\ HeaderAddress(MemberImage(k), offset) = address
      /\ IsCollectionView(FileRange(offset, size), address)
  BY MemberParsed DEF Header
<1>2. /\ ViewMemory(k, 0) = FileRange(address, size)
      /\ ViewSource(k, 0) = FileRange(offset, size)
  BY <1>1 DEF ViewMemory, ViewSource, Header
<1>3. PICK i \in Nonempty :
        /\ Encloses(Outer.commands[i].file, FileRange(offset, size))
        /\ address - Outer.commands[i].address = offset - Outer.commands[i].file.offset
        /\ Outer.commands[i].address <= address
        /\ address + size <= Outer.commands[i].address + Outer.commands[i].file.size
        /\ Outer.commands[i].file.size <= Outer.commands[i].memory
  BY <1>1, BackedRangeFits
<1> PICK s : s = Outer.commands[i]
  OBVIOUS
<1>4. SegmentOK(s)
  BY ArenaSpans
<1>5. /\ s.address \in Nat /\ s.memory \in Nat /\ s.file.size \in Nat
      /\ s.address + s.memory <= MaxAddress /\ MaxAddress \in Nat
  BY <1>4, CollectionAssumption DEF SegmentOK
<1> PICK memory : memory = FileRange(address, size)
  OBVIOUS
<1> PICK source : source = FileRange(offset, size)
  OBVIOUS
<1>6. /\ memory = FileRange(memory.offset, memory.size)
      /\ memory.offset = address /\ memory.size = size
      /\ source.offset = offset /\ source.size = size
  BY DEF FileRange
<1>7. Encloses(Memory(Outer.commands[i]), memory)
  <2>1. s.address <= address /\ address + size <= s.address + s.memory
        /\ address + size <= MaxAddress
    BY <1>1, <1>3, <1>5
  <2> QED  BY <1>5, <1>6, <2>1 DEF Encloses, Limit, Memory, FileRange
<1>8. SourceCheck(source) = "Ok"
  BY <1>1, <1>3, <1>4, <1>6, SourceFits
<1>9. Encloses(Outer.commands[i].file, source)
      /\ memory.offset - Outer.commands[i].address
           = source.offset - Outer.commands[i].file.offset
  BY <1>3, <1>6
<1>10. source.size <= memory.size /\ memory.offset \in Nat /\ memory.size \in Nat
       /\ source.offset \in Nat /\ source.size \in Nat
  BY <1>1, <1>6
<1> PICK v : v = <<k, 0>>
  OBVIOUS
<1>11. memory = ViewMemory(v[1], v[2]) /\ source = ViewSource(v[1], v[2])
  BY <1>2
<1>12. ViewCheck(v) = "Ok"
  BY <1>6, <1>7, <1>8, <1>9, <1>10, <1>11, ViewFits
<1> QED  BY <1>12

\* A segment of a member.  The outer segment that holds its memory and the one
\* that holds its file bytes are the same, since outer segments do not meet.
LEMMA SegmentViewFits ==
  ASSUME FileOK, Accepted, NEW k \in Members,
         NEW n \in Kinds(MemberImage(k), {"segment"}),
         MemberImage(k).commands[n].memory # 0
  PROVE  ViewCheck(<<k, n>>) = "Ok"
<1> PICK t : t = MemberImage(k).commands[n]
  OBVIOUS
<1>1. SegmentOK(t) /\ t \in Segments(MemberImage(k)) /\ n # 0
  BY MemberParsed
<1>2. SegmentIsView(t)
  BY <1>1, MemberParsed
<1>3. /\ t.address \in Nat /\ t.memory \in Nat \ {0}
      /\ t.file.offset \in Nat /\ t.file.size \in Nat
      /\ t.file = FileRange(t.file.offset, t.file.size)
      /\ t.file.size <= t.memory
  BY <1>1 DEF SegmentOK
<1>4. PICK o \in Segments(Outer) : Encloses(Memory(o), Memory(t))
  BY <1>2, <1>3 DEF SegmentIsView
<1>5. PICK i \in Kinds(Outer, {"segment"}) :
        o = Outer.commands[i] /\ (o.memory # 0 => i \in Nonempty)
  BY OuterSegments
<1>6. /\ o.address \in Nat /\ o.memory \in Nat
  BY OuterSegments DEF SegmentOK
<1>7. o.address <= t.address /\ t.address + t.memory <= o.address + o.memory
  BY <1>4 DEF Encloses, Limit, Memory, FileRange
<1>8. i \in Nonempty
  BY <1>3, <1>5, <1>6, <1>7
<1>9. ASSUME t.file.size # 0
      PROVE  /\ Encloses(Outer.commands[i].file, t.file)
             /\ t.address - Outer.commands[i].address
                  = t.file.offset - Outer.commands[i].file.offset
  <2>1. IsCollectionView(FileRange(t.file.offset, t.file.size), t.address)
    BY <1>2, <1>3, <1>9 DEF SegmentIsView
  <2>2. PICK j \in Nonempty :
          /\ Encloses(Outer.commands[j].file, FileRange(t.file.offset, t.file.size))
          /\ t.address - Outer.commands[j].address
               = t.file.offset - Outer.commands[j].file.offset
          /\ Outer.commands[j].address <= t.address
          /\ t.address + t.file.size
               <= Outer.commands[j].address + Outer.commands[j].file.size
          /\ Outer.commands[j].file.size <= Outer.commands[j].memory
    BY <1>3, <1>9, <2>1, BackedRangeFits
  <2> PICK p : p = Outer.commands[j]
    OBVIOUS
  <2>3. p.address \in Nat /\ p.memory \in Nat /\ p.file.size \in Nat
    BY ArenaSpans DEF SegmentOK
  <2>4. t.address < p.address + p.memory /\ t.address < o.address + o.memory
    <3>1. /\ t.address + t.file.size <= p.address + p.file.size
          /\ p.file.size <= p.memory
      BY <2>2
    <3>2. t.address < p.address + p.memory
      BY <1>3, <1>9, <2>3, <3>1
    <3>3. t.address < o.address + o.memory
      <4>1. /\ t.address \in Nat /\ t.memory \in Nat /\ 1 <= t.memory
            /\ t.address + t.memory <= o.address + o.memory
            /\ o.address \in Nat /\ o.memory \in Nat
        BY <1>3, <1>6, <1>7
      <4> QED  BY <4>1
    <3> QED  BY <3>2, <3>3
  <2>5. i = j
    BY <1>3, <1>5, <1>7, <1>8, <2>2, <2>4, SegmentsAreApart
  <2> QED  BY <1>3, <2>2, <2>5
<1>10. SourceCheck(t.file) = "Ok"
  <2>1. Encloses(t.file, t.file)
    BY <1>1, <1>3, CollectionAssumption DEF Encloses, Limit, SegmentOK
  <2> QED  BY <1>1, <1>3, <2>1, SourceFits
<1> PICK memory : memory = Memory(t)
  OBVIOUS
<1> PICK source : source = t.file
  OBVIOUS
<1> PICK v : v = <<k, n>>
  OBVIOUS
<1>11. memory = ViewMemory(v[1], v[2]) /\ source = ViewSource(v[1], v[2])
  BY <1>1 DEF ViewMemory, ViewSource
<1>12. /\ memory = FileRange(memory.offset, memory.size)
       /\ memory.offset = t.address /\ memory.size = t.memory
  BY DEF Memory, FileRange
<1>13. /\ Encloses(Memory(Outer.commands[i]), memory)
       /\ source.size # 0 =>
           /\ Encloses(Outer.commands[i].file, source)
           /\ memory.offset - Outer.commands[i].address
                = source.offset - Outer.commands[i].file.offset
  BY <1>4, <1>5, <1>9, <1>12
<1>14. /\ memory.offset \in Nat /\ memory.size \in Nat
       /\ source.offset \in Nat /\ source.size \in Nat
       /\ source.size <= memory.size
  BY <1>3, <1>12
<1>15. ViewCheck(v) = "Ok"
  BY <1>8, <1>10, <1>11, <1>12, <1>13, <1>14, ViewFits
<1> QED  BY <1>15

LEMMA ViewsFit ==
  ASSUME FileOK, Accepted
  PROVE  FailingViews = {}
<1> SUFFICES ASSUME NEW v \in Views
             PROVE  ViewCheck(v) = "Ok"
  BY DEF FailingViews
<1> PICK k \in Members : \E i \in ViewIndices(k) : v = <<k, i>>
  BY DEF Views
<1>1. PICK i \in ViewIndices(k) : v = <<k, i>>
  OBVIOUS
<1>2. CASE i = 0
  BY <1>1, <1>2, HeaderViewFits
<1>3. CASE i # 0
  BY <1>1, <1>3, SegmentViewFits DEF ViewIndices
<1> QED  BY <1>2, <1>3

-----------------------------------------------------------------------------
(* Plans *)

\* from_inspection() refuses an accepted collection only for its size.
LEMMA PlanningFits ==
  ASSUME FileOK, Accepted
  PROVE  PlanCheck \in {"Ok", "EmptyImage", "AddressOverflow", "ArenaTooLarge"}
<1>1. ~ \E s, t \in OuterMappings :
          s # t /\ s.offset <= t.offset /\ t.offset < s.offset + s.memory
  BY MappingsAreApart
<1> QED  BY <1>1, SegmentsFit, HeaderFits, EntryFits, ViewsFit DEF PlanCheck

\* Inspection has names of its own for what it refuses.
LEMMA InspectionNames ==
  InspectCheck # "InvalidMapping"
<1>1. \A r : RangeCheck(r) # "InvalidMapping"
  BY DEF RangeCheck
<1>2. \A s : SegmentCheck(s) # "InvalidMapping"
  BY <1>1 DEF SegmentCheck
<1>3. \A c, earlier : MemberCommandCheck(c, earlier) # "InvalidMapping"
  BY <1>1 DEF MemberCommandCheck
<1>4. \A image, i, outer, used : CommandCheck(image, i, outer, used) # "InvalidMapping"
  BY <1>2, <1>3 DEF CommandCheck
<1>5. \A base, outer, used : ImageCheck(base, outer, used) # "InvalidMapping"
  BY <1>1, <1>4 DEF ImageCheck
<1>6. EntryCheck # "InvalidMapping"
  BY DEF EntryCheck
<1>7. \A k : MemberCheck(k) # "InvalidMapping"
  BY <1>5 DEF MemberCheck
<1> QED  BY <1>5, <1>6, <1>7 DEF InspectCheck

-----------------------------------------------------------------------------
(* Finite sets and their enumerations *)

LEMMA FiniteImage ==
  ASSUME NEW S, IsFiniteSet(S), NEW f, DOMAIN f = S
  PROVE  IsFiniteSet({f[x] : x \in S})
<1> DEFINE T == {f[x] : x \in S}
           g == [x \in S |-> f[x]]
<1>1. g \in [S -> T] /\ \A t \in T : \E x \in S : g[x] = t
  OBVIOUS
<1>2. g \in Surjection(S, T)
  BY <1>1 DEF Surjection
<1> QED  BY <1>2, FS_Surjection

\* The union of two sets that share nothing.
LEMMA DisjointUnion ==
  ASSUME NEW S, IsFiniteSet(S), NEW T, IsFiniteSet(T), S \cap T = {}
  PROVE  /\ IsFiniteSet(S \cup T)
         /\ Cardinality(S \cup T) = Cardinality(S) + Cardinality(T)
<1>1. Cardinality(S) \in Nat /\ Cardinality(T) \in Nat
  BY FS_CardinalityType
<1>2. Cardinality(S \cap T) = 0
  BY FS_EmptySet
<1>3. /\ IsFiniteSet(S \cup T)
      /\ Cardinality(S \cup T) = Cardinality(S) + Cardinality(T) - Cardinality(S \cap T)
  BY FS_Union
<1> QED  BY <1>1, <1>2, <1>3

\* A sequence that lists each element of a set once.
Enumerates(q, S) ==
  /\ Len(q) \in Nat /\ DOMAIN q = 1 .. Len(q)
  /\ \A i \in 1 .. Len(q) : q[i] \in S
  /\ \A x \in S : \E i \in 1 .. Len(q) : q[i] = x
  /\ \A i, j \in 1 .. Len(q) : q[i] = q[j] => i = j

LEMMA SetToSeqsEnumerates ==
  ASSUME NEW S, IsFiniteSet(S), NEW q \in SetToSeqs(S)
  PROVE  Enumerates(q, S)
<1> PICK N : N = Cardinality(S)
  OBVIOUS
<1>1. N \in Nat
  BY FS_CardinalityType
<1>2. q \in [1 .. N -> S] /\ \A i, j \in 1 .. N : i # j => q[i] # q[j]
  BY DEF SetToSeqs
<1>3. Len(q) = N
  BY <1>1, <1>2
<1>4. q \in Injection(1 .. N, S)
  BY <1>2 DEF Injection, IsInjective
<1>5. IsFiniteSet(1 .. N) /\ Cardinality(1 .. N) = N
  BY <1>1, FS_Interval
<1>6. q \in Surjection(1 .. N, S)
  BY <1>4, <1>5, FS_Injection
<1>7. \A x \in S : \E i \in 1 .. N : q[i] = x
  BY <1>6 DEF Surjection
<1> QED  BY <1>1, <1>2, <1>3, <1>7 DEF Enumerates

LEMMA OuterMappingsFinite ==
  ASSUME FileOK, Accepted
  PROVE  IsFiniteSet(OuterMappings)
<1>1. Outer.commands \in Seq(Commands)
  BY OuterParsed DEF FileOK, Outer
<1> PICK n : n = Len(Outer.commands)
  OBVIOUS
<1>2. n \in Nat /\ Nonempty \subseteq 1 .. n
  BY <1>1 DEF Nonempty, Kinds
<1>3. IsFiniteSet(Nonempty)
  <2>1. IsFiniteSet(1 .. n)
    BY <1>2, FS_Interval
  <2> QED  BY <1>2, <2>1, FS_Subset
<1> DEFINE f == [i \in Nonempty |->
                   Mapping(<<0, i>>, Memory(Outer.commands[i]), Outer.commands[i].file)]
<1>4. OuterMappings = {f[i] : i \in Nonempty}
  BY DEF OuterMappings
<1>5. DOMAIN f = Nonempty
  OBVIOUS
<1> HIDE DEF f
<1> QED  BY <1>3, <1>4, <1>5, FiniteImage

LEMMA ViewMappingsFinite ==
  ASSUME FileOK, Accepted
  PROVE  IsFiniteSet(Members) /\ IsFiniteSet(ViewMappings)
<1>1. IsFiniteSet(Members)
  <2>1. Outer.commands \in Seq(Commands)
    BY OuterParsed DEF FileOK, Outer
  <2> PICK n : n = Len(Outer.commands)
    OBVIOUS
  <2>2. n \in Nat /\ Members \subseteq 1 .. n
    BY <2>1 DEF Members, Kinds
  <2>3. IsFiniteSet(1 .. n)
    BY <2>2, FS_Interval
  <2> QED  BY <2>2, <2>3, FS_Subset
<1> DEFINE of == [k \in Members |-> {<<k, i>> : i \in ViewIndices(k)}]
<1>2. \A k \in Members : IsFiniteSet(of[k])
  <2> TAKE k \in Members
  <2>1. MemberImage(k).commands \in Seq(Commands)
    BY ImagesParsed DEF FileOK, MemberImage
  <2> PICK n : n = Len(MemberImage(k).commands)
    OBVIOUS
  <2>2. n \in Nat /\ ViewIndices(k) \subseteq 0 .. n
    BY <2>1 DEF ViewIndices, Kinds
  <2>3. IsFiniteSet(0 .. n)
    BY <2>2, FS_Interval
  <2>4. IsFiniteSet(ViewIndices(k))
    BY <2>2, <2>3, FS_Subset
  <2> DEFINE f == [i \in ViewIndices(k) |-> <<k, i>>]
  <2>5. of[k] = {f[i] : i \in ViewIndices(k)} /\ DOMAIN f = ViewIndices(k)
    OBVIOUS
  <2> HIDE DEF f, of
  <2> QED  BY <2>4, <2>5, FiniteImage
<1>3. Views = UNION {of[k] : k \in Members}
  BY DEF Views
<1>4. DOMAIN of = Members
  OBVIOUS
<1> HIDE DEF of
<1>5. IsFiniteSet({of[k] : k \in Members})
  BY <1>1, <1>4, FiniteImage
<1>6. IsFiniteSet(Views)
  BY <1>2, <1>3, <1>5, FS_UNION
<1> DEFINE f == [v \in Views |-> Mapping(v, ViewMemory(v[1], v[2]), ViewSource(v[1], v[2]))]
<1>7. ViewMappings = {f[v] : v \in Views} /\ DOMAIN f = Views
  BY DEF ViewMappings
<1> HIDE DEF f
<1> QED  BY <1>1, <1>6, <1>7, FiniteImage

-----------------------------------------------------------------------------
(* The segments of a collection, in the order of their places *)

LEMMA MappingFields ==
  ASSUME FileOK, Accepted, NEW s \in OuterMappings
  PROVE  /\ s.offset \in Nat /\ s.memory \in Nat \ {0} /\ s.size \in Nat
         /\ s.source \in Nat
         /\ s.size <= s.memory /\ s.offset + s.memory <= ArenaSize
<1>1. PICK i \in Nonempty :
        s = Mapping(<<0, i>>, Memory(Outer.commands[i]), Outer.commands[i].file)
  BY DEF OuterMappings
<1>5. Nonempty # {}
  OBVIOUS
<1> PICK c : c = Outer.commands[i]
  OBVIOUS
<1>2. /\ c.address \in Nat /\ c.memory \in Nat /\ c.memory # 0
      /\ c.file.offset \in Nat /\ c.file.size \in Nat /\ c.file.size <= c.memory
  BY <1>5, ArenaSpans DEF SegmentOK
<1>3. c.address - Base \in Nat /\ (c.address - Base) + c.memory <= ArenaSize
  <2>1. /\ Outer.commands[i].address <= c.address
        /\ c.address + c.memory <= Outer.commands[i].address + Outer.commands[i].memory
    BY <1>2
  <2> QED  BY <1>2, <1>5, <2>1, PlaceFits
<1>4. /\ s.offset = c.address - Base /\ s.memory = c.memory
      /\ s.source = c.file.offset /\ s.size = c.file.size
  BY <1>1 DEF Mapping, Memory, FileRange
<1> QED  BY <1>2, <1>3, <1>4

\* Sorted segments stand one behind the other.
InOrder(q) ==
  /\ Enumerates(q, OuterMappings)
  /\ \A i \in 1 .. Len(q) :
       /\ q[i].offset \in Nat /\ q[i].memory \in Nat \ {0}
       /\ q[i].size \in Nat /\ q[i].source \in Nat
       /\ q[i].size <= q[i].memory
       /\ q[i].offset + q[i].memory <= ArenaSize
       /\ \A j \in 1 .. Len(q) :
            i < j => q[i].offset + q[i].memory
                       <= q[j].offset

LEMMA SortedIsInOrder ==
  ASSUME FileOK, Accepted, NEW q \in Sorted(OuterMappings)
  PROVE  InOrder(q)
<1>2. /\ q \in SetToSeqs(OuterMappings)
      /\ \A i, j \in DOMAIN q : i < j => q[i].offset <= q[j].offset
  BY DEF Sorted
<1>3. Enumerates(q, OuterMappings)
  <2>1. IsFiniteSet(OuterMappings)
    BY OuterMappingsFinite
  <2> QED  BY <1>2, <2>1, SetToSeqsEnumerates
<1>4. ASSUME NEW i \in 1 .. Len(q)
      PROVE  /\ q[i] \in OuterMappings
             /\ q[i].offset \in Nat /\ q[i].memory \in Nat \ {0}
             /\ q[i].size \in Nat /\ q[i].source \in Nat
             /\ q[i].size <= q[i].memory
             /\ q[i].offset + q[i].memory <= ArenaSize
  <2>1. q[i] \in OuterMappings
    BY <1>3 DEF Enumerates
  <2> QED  BY <2>1, MappingFields
<1>5. ASSUME NEW i \in 1 .. Len(q), NEW j \in 1 .. Len(q), i < j
      PROVE  q[i].offset + q[i].memory <= q[j].offset
  <2>1. q[i].offset <= q[j].offset /\ q[i] # q[j]
    BY <1>2, <1>3, <1>5 DEF Enumerates
  <2>2. ~ (q[j].offset < q[i].offset + q[i].memory)
    <3>1. q[i] \in OuterMappings /\ q[j] \in OuterMappings
      BY <1>4
    <3> QED  BY <2>1, <3>1, MappingsAreApart
  <2>3. /\ q[i].offset \in Nat /\ q[i].memory \in Nat /\ q[j].offset \in Nat
    BY <1>4
  <2> QED  BY <2>2, <2>3
<1> QED  BY <1>3, <1>4, <1>5 DEF InOrder

\* FilesAt() and MappedBy() of the collection, told by its mappings.
LEMMA MappingsTell ==
  ASSUME FileOK, Accepted, Nonempty # {}, NEW o \in Nat
  PROVE  /\ \A s \in OuterMappings :
              (s.offset <= o /\ o < s.offset + s.size) =>
                FilesAt(Outer, Base + o) = {s.source + (o - s.offset)}
         /\ FilesAt(Outer, Base + o) # {} =>
              \E s \in OuterMappings : s.offset <= o /\ o < s.offset + s.size
         /\ MappedBy(Outer, Base + o) <=>
              \E s \in OuterMappings : s.offset <= o /\ o < s.offset + s.memory
<1> PICK b \in Nat : b = Base
  BY ArenaSpans
<1>1. Base = b
  OBVIOUS
<1> DEFINE Of(i) == Mapping(<<0, i>>, Memory(Outer.commands[i]), Outer.commands[i].file)
<1>2. ASSUME NEW i \in Nonempty
      PROVE  /\ Of(i) \in OuterMappings
             /\ Outer.commands[i] \in Segments(Outer)
             /\ Outer.commands[i].address \in Nat /\ Outer.commands[i].memory \in Nat
             /\ Outer.commands[i].file.size \in Nat /\ Outer.commands[i].file.offset \in Nat
             /\ Outer.commands[i].file.size <= Outer.commands[i].memory
             /\ Of(i).offset = Outer.commands[i].address - b
             /\ Of(i).memory = Outer.commands[i].memory
             /\ Of(i).size = Outer.commands[i].file.size
             /\ Of(i).source = Outer.commands[i].file.offset
  <2>1. SegmentOK(Outer.commands[i])
    BY <1>1, ArenaSpans
  <2>2. Of(i) \in OuterMappings /\ Outer.commands[i] \in Segments(Outer)
    BY DEF OuterMappings, Nonempty, Segments
  <2> QED  BY <2>1, <2>2 DEF SegmentOK, Mapping, Memory, FileRange
<1>3. ASSUME NEW t \in Segments(Outer), t.memory # 0
      PROVE  \E i \in Nonempty : t = Outer.commands[i]
  BY <1>1, <1>3, OuterSegments
<1>4. \A s \in OuterMappings : \E i \in Nonempty : s = Of(i)
  BY DEF OuterMappings
<1> HIDE DEF Of
<1>5. ASSUME NEW t \in Segments(Outer), t.address <= b + o, b + o < t.address + t.file.size
      PROVE  \E i \in Nonempty :
               /\ t = Outer.commands[i]
               /\ Of(i).offset <= o /\ o < Of(i).offset + Of(i).size
  <2>1. t.address \in Nat /\ t.memory \in Nat /\ t.file.size \in Nat /\ t.file.size <= t.memory
    BY <1>1, OuterSegments DEF SegmentOK
  <2>2. t.memory # 0
    BY <1>5, <2>1
  <2>3. PICK i \in Nonempty : t = Outer.commands[i]
    BY <1>3, <2>2
  <2>4. Of(i).offset = t.address - b /\ Of(i).size = t.file.size
    BY <1>2, <2>3
  <2>5. Of(i).offset <= o /\ o < Of(i).offset + Of(i).size
    BY <1>5, <2>1, <2>4
  <2> QED  BY <2>3, <2>5
<1>6. ASSUME NEW s \in OuterMappings, s.offset <= o, o < s.offset + s.size
      PROVE  FilesAt(Outer, b + o) = {s.source + (o - s.offset)}
  <2>1. PICK i \in Nonempty : s = Of(i)
    BY <1>4
  <2> PICK c : c = Outer.commands[i]
    OBVIOUS
  <2>2. /\ c \in Segments(Outer) /\ c.address \in Nat /\ c.memory \in Nat
        /\ c.file.size \in Nat /\ c.file.offset \in Nat /\ c.file.size <= c.memory
        /\ s.offset = c.address - b /\ s.size = c.file.size /\ s.source = c.file.offset
    BY <1>2, <2>1
  <2>3. /\ c.address <= b + o /\ b + o < c.address + c.file.size
        /\ b + o < c.address + c.memory
        /\ c.file.offset + ((b + o) - c.address) = s.source + (o - s.offset)
    BY <1>6, <2>2
  <2>4. c.file.offset + ((b + o) - c.address) \in FilesAt(Outer, b + o)
    <3>1. c \in {t \in Segments(Outer) :
                   t.address <= b + o /\ b + o < t.address + t.file.size}
      BY <2>2, <2>3
    <3> QED  BY <3>1, Zenon DEF FilesAt
  <2>5. ASSUME NEW f \in FilesAt(Outer, b + o)
        PROVE  f = c.file.offset + ((b + o) - c.address)
    <3>1. PICK t \in Segments(Outer) :
            /\ t.address <= b + o /\ b + o < t.address + t.file.size
            /\ f = t.file.offset + ((b + o) - t.address)
      BY DEF FilesAt
    <3>2. PICK j \in Nonempty : t = Outer.commands[j]
      BY <1>5, <3>1
    <3>3. /\ t.address \in Nat /\ t.memory \in Nat /\ t.file.size \in Nat
          /\ t.file.size <= t.memory
      BY <1>2, <3>2
    <3>4. b + o < t.address + t.memory
      BY <3>1, <3>3
    <3>5. /\ Outer.commands[i].address <= b + o
          /\ b + o < Outer.commands[i].address + Outer.commands[i].memory
          /\ Outer.commands[j].address <= b + o
          /\ b + o < Outer.commands[j].address + Outer.commands[j].memory
      BY <2>3, <3>1, <3>2, <3>4
    <3>6. i = j
      BY <1>1, <3>5, SegmentsAreApart
    <3> QED  BY <3>1, <3>2, <3>6
  <2> QED  BY <2>3, <2>4, <2>5
<1>7. FilesAt(Outer, b + o) # {} =>
        \E s \in OuterMappings : s.offset <= o /\ o < s.offset + s.size
  <2> SUFFICES ASSUME FilesAt(Outer, b + o) # {}
               PROVE  \E s \in OuterMappings : s.offset <= o /\ o < s.offset + s.size
    OBVIOUS
  <2>1. PICK t \in Segments(Outer) : t.address <= b + o /\ b + o < t.address + t.file.size
    BY DEF FilesAt
  <2> QED  BY <1>2, <1>5, <2>1
<1>8. ASSUME MappedBy(Outer, b + o)
      PROVE  \E s \in OuterMappings : s.offset <= o /\ o < s.offset + s.memory
  <2>1. PICK t \in Segments(Outer) : t.address <= b + o /\ b + o < t.address + t.memory
    BY <1>8 DEF MappedBy, Limit, Memory, FileRange
  <2>2. t.address \in Nat /\ t.memory \in Nat
    BY <1>1, OuterSegments DEF SegmentOK
  <2>3. PICK i \in Nonempty : t = Outer.commands[i]
    BY <1>3, <2>1, <2>2
  <2>4. Of(i) \in OuterMappings /\ Of(i).offset = t.address - b /\ Of(i).memory = t.memory
    BY <1>2, <2>3
  <2>5. Of(i).offset <= o /\ o < Of(i).offset + Of(i).memory
    BY <2>1, <2>2, <2>4
  <2> QED  BY <2>4, <2>5
<1>9. ASSUME NEW s \in OuterMappings, s.offset <= o, o < s.offset + s.memory
      PROVE  MappedBy(Outer, b + o)
  <2>1. PICK i \in Nonempty : s = Of(i)
    BY <1>4
  <2> PICK c : c = Outer.commands[i]
    OBVIOUS
  <2>2. /\ c \in Segments(Outer) /\ c.address \in Nat /\ c.memory \in Nat
        /\ s.offset = c.address - b /\ s.memory = c.memory
    BY <1>2, <2>1
  <2>3. c.address <= b + o /\ b + o < c.address + c.memory
    BY <1>9, <2>2
  <2> QED  BY <2>2, <2>3 DEF MappedBy, Limit, Memory, FileRange
<1> QED  BY <1>1, <1>6, <1>7, <1>8, <1>9

-----------------------------------------------------------------------------
(* Whatever is computed from the file stays as it is while the file does *)

LEMMA FileFixed ==
  ASSUME file' = file
  PROVE  /\ FileOK' = FileOK /\ Accepted' = Accepted
         /\ InspectCheck' = InspectCheck
         /\ Nonempty' = Nonempty /\ Base' = Base /\ ArenaSize' = ArenaSize
         /\ OuterMappings' = OuterMappings /\ ViewMappings' = ViewMappings
         /\ Outer' = Outer /\ Members' = Members
         /\ \A k : MemberImage(k)' = MemberImage(k)
<1>1. FileOK' = FileOK
  BY DEF FileOK
<1>2. Outer' = Outer
  BY DEF Outer
<1>3. \A r : RangeCheck(r)' = RangeCheck(r)
  BY DEF RangeCheck
<1>4. \A s : SegmentCheck(s)' = SegmentCheck(s)
  BY <1>3 DEF SegmentCheck
<1>5. \A c, earlier : MemberCommandCheck(c, earlier)' = MemberCommandCheck(c, earlier)
  BY <1>3 DEF MemberCommandCheck
<1>6. \A image, i, outer, used :
        CommandCheck(image, i, outer, used)' = CommandCheck(image, i, outer, used)
  BY <1>4, <1>5 DEF CommandCheck
<1>7. \A image, outer, used :
        FailingCommands(image, outer, used)' = FailingCommands(image, outer, used)
  BY <1>6 DEF FailingCommands
<1>8. \A base, outer, used : ImageCheck(base, outer, used)' = ImageCheck(base, outer, used)
  BY <1>3, <1>6, <1>7 DEF ImageCheck
<1>9. Members' = Members
  BY <1>2 DEF Members
<1>10. \A k : MemberImage(k)' = MemberImage(k)
  BY <1>2 DEF MemberImage
<1>11. EntryCheck' = EntryCheck
  BY <1>2 DEF EntryCheck
<1>12. \A r, a : IsCollectionView(r, a)' = IsCollectionView(r, a)
  BY <1>2 DEF IsCollectionView
<1>13. \A s : SegmentIsView(s)' = SegmentIsView(s)
  BY <1>2, <1>12 DEF SegmentIsView
<1>14. \A k : Used(k)' = Used(k)
  BY <1>2, <1>9, <1>10 DEF Used
<1>15. \A k : MemberCheck(k)' = MemberCheck(k)
  BY <1>2, <1>8, <1>10, <1>12, <1>13, <1>14 DEF MemberCheck
<1>16. FailingMembers' = FailingMembers
  BY <1>9, <1>15 DEF FailingMembers
<1>17. InspectCheck' = InspectCheck
  BY <1>8, <1>9, <1>11, <1>15, <1>16 DEF InspectCheck
<1>18. Accepted' = Accepted
  BY <1>17 DEF Accepted
<1>19. Nonempty' = Nonempty
  BY <1>2 DEF Nonempty
<1>20. FirstAddress' = FirstAddress /\ LastAddress' = LastAddress
  BY <1>2, <1>19 DEF FirstAddress, LastAddress
<1>21. Base' = Base
  BY <1>20 DEF Base
<1>22. ArenaSize' = ArenaSize
  BY <1>20, <1>21 DEF ArenaSize
<1>23. \A of, memory, source : Mapping(of, memory, source)' = Mapping(of, memory, source)
  BY <1>21 DEF Mapping
<1>24. OuterMappings' = OuterMappings
  BY <1>2, <1>19, <1>23 DEF OuterMappings
<1>25. \A k : ViewIndices(k)' = ViewIndices(k)
  BY <1>10 DEF ViewIndices
<1>26. \A k, i : ViewMemory(k, i)' = ViewMemory(k, i) /\ ViewSource(k, i)' = ViewSource(k, i)
  BY <1>2, <1>10 DEF ViewMemory, ViewSource
<1>27. Views' = Views
  BY <1>9, <1>25 DEF Views
<1>28. ViewMappings' = ViewMappings
  BY <1>23, <1>26, <1>27 DEF ViewMappings
<1> QED  BY <1>1, <1>2, <1>9, <1>10, <1>17, <1>18, <1>19, <1>21, <1>22, <1>24, <1>28

=============================================================================
