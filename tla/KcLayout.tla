------------------------------- MODULE KcLayout -------------------------------
(***************************************************************************)
(* Where the parts of an accepted kernel collection go when it is staged   *)
(* (KcStagingPlan in src/src/kc_staging.rs): the outer segments in an      *)
(* arena that starts and ends on a page, and every member as a view of     *)
(* what a segment puts there.                                              *)
(***************************************************************************)
EXTENDS KernelCollection, SequencesExt

CONSTANTS
  PageSize,  \* STAGING_PAGE_SIZE or ARM64_STAGING_PAGE_SIZE
  MaxArena   \* MAX_STAGING_SIZE

ASSUME LayoutAssumption == PageSize \in Nat \ {0} /\ MaxArena \in Nat

\* The bytes of a file are told apart by their offset, and none is zero.
Content(offset) == offset + 1

\* What a loader puts at an address: the byte that the collection's own segments
\* put there, and zero elsewhere.
LoadedAt(address) ==
  LET at == FilesAt(Outer, address)
  IN  IF at = {} THEN 0 ELSE Content(CHOOSE f \in at : TRUE)

-----------------------------------------------------------------------------
(* The plan *)

Nonempty == {i \in Kinds(Outer, {"segment"}) : Outer.commands[i].memory # 0}

FirstAddress == Min({Outer.commands[i].address : i \in Nonempty})

LastAddress == Max({Limit(Memory(Outer.commands[i])) : i \in Nonempty})

PageStart(address) == (address \div PageSize) * PageSize

Base == PageStart(FirstAddress)

\* A fault: the end of the arena is not rounded to a page.
ArenaSizeExact == LastAddress - Base

ArenaSize == PageStart(LastAddress + PageSize - 1) - Base

\* relative_range()
PlaceCheck(r) ==
  IF r.offset < Base THEN "InvalidMapping"
  ELSE IF r.offset - Base + r.size > MaxAddress THEN "AddressOverflow"
  ELSE IF r.offset - Base + r.size > ArenaSize THEN "InvalidMapping"
  ELSE "Ok"

\* source_range()
SourceCheck(r) ==
  IF Limit(r) > MaxAddress THEN "AddressOverflow"
  ELSE IF Limit(r) > file.length THEN "InvalidMapping"
  ELSE "Ok"

MappingCheck(memory, source) ==
  IF PlaceCheck(memory) # "Ok" THEN PlaceCheck(memory) ELSE SourceCheck(source)

\* "of" tells apart what the code keeps as separate elements of a Vec.
Mapping(of, memory, source) ==
  [of |-> of, offset |-> memory.offset - Base, memory |-> memory.size,
   source |-> source.offset, size |-> source.size]

OuterMappings ==
  {Mapping(<<0, i>>, Memory(Outer.commands[i]), Outer.commands[i].file) : i \in Nonempty}

\* What the member of command k asks for: its header, then its segments.
ViewIndices(k) ==
  {0} \cup {i \in Kinds(MemberImage(k), {"segment"}) :
              MemberImage(k).commands[i].memory # 0}

ViewMemory(k, i) ==
  IF i = 0 THEN FileRange(HeaderAddress(MemberImage(k), Outer.commands[k].offset),
                          HeaderSize(MemberImage(k)))
  ELSE Memory(MemberImage(k).commands[i])

ViewSource(k, i) ==
  IF i = 0 THEN Header(MemberImage(k), Outer.commands[k].offset)
  ELSE MemberImage(k).commands[i].file

Views == UNION {{<<k, i>> : i \in ViewIndices(k)} : k \in Members}

ViewMappings == {Mapping(v, ViewMemory(v[1], v[2]), ViewSource(v[1], v[2])) : v \in Views}

Shares(v, outer) ==
  /\ outer.offset <= v.offset
  /\ v.offset + v.memory <= outer.offset + outer.memory
  /\ \/ v.size = 0
     \/ /\ outer.source <= v.source
        /\ v.source + v.size <= outer.source + outer.size
        /\ v.offset - outer.offset = v.source - outer.source

\* view()
ViewCheck(v) ==
  LET memory == ViewMemory(v[1], v[2])
      source == ViewSource(v[1], v[2])
  IN  IF MappingCheck(memory, source) # "Ok" THEN MappingCheck(memory, source)
      ELSE IF source.size > memory.size THEN "InvalidMapping"
      ELSE IF ~ \E outer \in OuterMappings : Shares(Mapping(v, memory, source), outer)
        THEN "InvalidMapping"
      ELSE "Ok"

FailingSegments ==
  {i \in Nonempty :
     MappingCheck(Memory(Outer.commands[i]), Outer.commands[i].file) # "Ok"}

FailingViews == {v \in Views : ViewCheck(v) # "Ok"}

FirstView ==
  CHOOSE v \in FailingViews : \A w \in FailingViews :
    v[1] < w[1] \/ (v[1] = w[1] /\ v[2] <= w[2])

\* from_inspection()
PlanCheck ==
  IF Nonempty = {} THEN "EmptyImage"
  ELSE IF LastAddress + PageSize - 1 > MaxAddress THEN "AddressOverflow"
  ELSE IF ArenaSize > MaxArena THEN "ArenaTooLarge"
  ELSE LET segment == Outer.commands[First(FailingSegments)]
           header == FileRange(HeaderAddress(Outer, 0), HeaderSize(Outer))
       IN  IF FailingSegments # {} THEN MappingCheck(Memory(segment), segment.file)
           ELSE IF \E s, t \in OuterMappings :
                     s # t /\ s.offset <= t.offset /\ t.offset < s.offset + s.memory
             THEN "InvalidMapping"
           ELSE IF PlaceCheck(header) # "Ok" THEN PlaceCheck(header)
           ELSE IF Kinds(Outer, {"thread"}) = {} THEN "InvalidMapping"
           ELSE IF PlaceCheck(FileRange(Entry, 1)) # "Ok"
             THEN PlaceCheck(FileRange(Entry, 1))
           ELSE IF FailingViews # {} THEN ViewCheck(FirstView)
           ELSE "Ok"

\* sort_unstable_by_key leaves mappings that start together in any order.
Sorted(mappings) ==
  {q \in SetToSeqs(mappings) :
     \A i, j \in DOMAIN q : i < j => q[i].offset <= q[j].offset}

=============================================================================
