-------------------------- MODULE Arm64Handoff_proofs --------------------------
(***************************************************************************)
(* Theorems about staging, for every accepted collection and every change  *)
(* of the slice meanwhile, and about staging a handoff, for every request  *)
(* too.  How a collection is laid out is KcLayout_proofs', and what a      *)
(* layout of a handoff is like is Arm64Placement_proofs', for the kernel   *)
(* that a plan stages.                                                     *)
(***************************************************************************)
EXTENDS Arm64Handoff, KcLayout_proofs

-----------------------------------------------------------------------------
(* The arena takes what inspection accepts *)

\* Whatever inspection accepts has its place: from_inspection() never returns
\* InvalidMapping, and neither does anything that follows it.
THEOREM AcceptedCollectionsHaveRoom == Spec => []AcceptedCollectionsFit
<1> DEFINE Inv == FileOK /\ AcceptedCollectionsFit
<1>1. Init => Inv
  BY FileAssumption, NoneAssumption DEF Init, CollectionInit, FileOK, AcceptedCollectionsFit
<1>2. Inv /\ [Next]_vars => Inv'
  <2> SUFFICES ASSUME Inv, [Next]_vars
               PROVE  Inv'
    OBVIOUS
  <2>1. file' = file => FileOK'
    BY DEF FileOK
  <2>2. CASE NewPlan
    <3>1. InspectCheck # "Ok" => result' # "InvalidMapping"
      BY <2>2, InspectionNames, NoneAssumption DEF NewPlan, AcceptedCollectionsFit
    <3>2. InspectCheck = "Ok" => PlanCheck # "InvalidMapping"
      BY PlanningFits DEF Accepted
    <3>3. file' = file /\ result' \in {InspectCheck, PlanCheck, result}
          /\ (InspectCheck = "Ok" => result' \in {PlanCheck, result})
      BY <2>2 DEF NewPlan
    <3> QED  BY <2>1, <3>1, <3>2, <3>3 DEF AcceptedCollectionsFit
  <2>3. CASE plan # None /\ \E n \in {plan.size, plan.size - 1} : Stage(n)
    BY <2>1, <2>3 DEF Stage, Return, planVars, AcceptedCollectionsFit
  <2>4. CASE Verify
    BY <2>1, <2>4 DEF Verify, Return, planVars, AcceptedCollectionsFit
  <2>5. CASE Continue
    BY <2>1, <2>5 DEF Continue, CopySegment, SegmentsCopied, VerifySegment, VerifyEnd,
         VerifyView, ViewsVerified, Mismatch, Return, planVars, AcceptedCollectionsFit
  <2>6. CASE \E o \in Arena : Disturb(o)
    BY <2>1, <2>6 DEF Disturb, planVars, AcceptedCollectionsFit
  <2>7. CASE UNCHANGED vars
    BY <2>1, <2>7 DEF vars, planVars, AcceptedCollectionsFit
  <2> QED  BY <2>2, <2>3, <2>4, <2>5, <2>6, <2>7 DEF Next
<1> QED  BY <1>1, <1>2, PTL DEF Spec

-----------------------------------------------------------------------------
(* What staging keeps true *)

\* The plan is one that from_inspection() makes of the file.
PlanOK ==
  /\ FileOK /\ Accepted /\ inspection = "Ok"
  /\ Nonempty # {}
  /\ plan.segments \in Sorted(OuterMappings)
  /\ plan.views \in Sorted(ViewMappings)
  /\ plan.base = Base
  /\ plan.size = ArenaSize

\* What a loader puts at an offset of the arena.
IsFile(o) == FilesAt(Outer, plan.base + o) # {}

IsTail(o) == MappedBy(Outer, plan.base + o) /\ FilesAt(Outer, plan.base + o) = {}

FileBytes(i) ==
  Bytes(plan.segments[i].offset, plan.segments[i].offset + plan.segments[i].size)

PaddingBytes(i) ==
  Bytes(plan.segments[i].offset + plan.segments[i].size,
        plan.segments[i].offset + plan.segments[i].memory)

\* Where the scan of the arena stands behind segment i.
ScanEnd(i) ==
  IF i = 0 THEN 0 ELSE plan.segments[i].offset + plan.segments[i].memory

ViewBytes(j) ==
  Bytes(plan.views[j].offset, plan.views[j].offset + plan.views[j].size)

\* What the views before view n back with the file.
Covered(n) == UNION {ViewBytes(j) : j \in 1 .. n - 1}

HeadersBefore(n) == {j \in 1 .. n - 1 : plan.views[j].of[2] = 0}

Whole == Arena = Bytes(0, plan.size)

\* The slice and its history go together.
SliceOK ==
  /\ \E m \in Nat : Arena = Bytes(0, m)
  /\ DOMAIN reads = Arena
  /\ \A o \in Arena : reads[o] \in Nat
  /\ counts \in [copied : Nat, tails : Nat, holes : Nat, headers : Nat,
                 segments : Nat, compared : Nat]

\* The bytes below "end" were read, found right and counted.
Confirmed(end) ==
  /\ \A o \in Bytes(0, end) :
       reads[o] > 0 /\ (o \notin disturbed => arena[o] = Loaded(o))
  /\ counts.copied = Cardinality({o \in Bytes(0, end) : IsFile(o)})
  /\ counts.tails = Cardinality({o \in Bytes(0, end) : IsTail(o)})
  /\ counts.copied + counts.tails + counts.holes = end

\* The views before view n were.
ViewsConfirmed(n) ==
  /\ \A o \in Covered(n) : reads[o] > 1
  /\ counts.compared = Cardinality(Covered(n))
  /\ counts.headers = Cardinality(HeadersBefore(n))

\* Between a clearing of the slice and the end of the copy.
CopyOK ==
  At("copy") =>
    /\ Whole
    /\ call.next \in 1 .. Len(plan.segments) + 1
    /\ reported = <<"DestinationInitialized">>
    /\ ~ touched =>
         \A o \in Arena :
           arena[o] = IF \E i \in 1 .. call.next - 1 : o \in FileBytes(i)
                        THEN Loaded(o) ELSE 0

OuterOK ==
  At("outer") =>
    /\ Whole
    /\ call.next \in 1 .. Len(plan.segments) + 1
    /\ call.end = ScanEnd(call.next - 1)
    /\ reported \in {<<>>, <<"DestinationInitialized", "SegmentsCopied">>}
    /\ Confirmed(call.end)
    /\ counts.headers = 0 /\ counts.compared = 0

ViewsOK ==
  At("views") =>
    /\ Whole
    /\ call.next \in 1 .. Len(plan.views) + 1
    /\ call.end \in Nat
    /\ reported \in {<<"ArenaVerified">>,
                     <<"DestinationInitialized", "SegmentsCopied", "ArenaVerified">>}
    /\ Confirmed(plan.size)
    /\ ViewsConfirmed(call.next)
    /\ \A j \in 1 .. call.next - 1 : plan.views[j].offset + plan.views[j].size <= call.end
    /\ call.end # 0 =>
         \E j \in 1 .. call.next - 1 : call.end = plan.views[j].offset + plan.views[j].size

\* A slice that nobody changed holds what was copied into it.
UntouchedOK ==
  (~ touched /\ ~ At("copy")) => Whole /\ \A o \in Arena : arena[o] = Loaded(o)

IdleOK ==
  Idle =>
    /\ result = "ReadbackMismatch" => touched
    /\ result = "Ok" =>
         Whole /\ Confirmed(plan.size) /\ ViewsConfirmed(Len(plan.views) + 1)

ReportedOK ==
  /\ reported \in
       {<<>>, <<"DestinationInitialized">>, <<"DestinationInitialized", "SegmentsCopied">>,
        <<"DestinationInitialized", "SegmentsCopied", "ArenaVerified">>, Phases,
        <<"ArenaVerified">>, <<"ArenaVerified", "MemberViewsVerified">>}
  /\ \A n \in DOMAIN reported :
       /\ reported[n] = "ArenaVerified" => \A o \in Arena : reads[o] > 0
       /\ reported[n] = "MemberViewsVerified" =>
            Idle /\ result = "Ok" /\ \A o \in MemberBytes : reads[o] > 1

CallOK ==
  Idle \/ call \in [step : {"copy", "outer", "views"}, next : Nat, end : Nat]

Unplanned ==
  plan = None =>
    /\ arena = <<>> /\ call = None /\ reported = <<>> /\ reads = <<>>
    /\ touched /\ result # "Ok" /\ counts = ZeroCounts

\* The inductive invariant of staging.
StagingInv ==
  /\ FileOK /\ CallOK /\ SliceOK /\ Unplanned
  /\ plan # None =>
       /\ PlanOK
       /\ CopyOK /\ OuterOK /\ ViewsOK
       /\ UntouchedOK /\ IdleOK /\ ReportedOK

-----------------------------------------------------------------------------
(* Finite sets and their enumerations *)

LEMMA BytesAreFinite ==
  ASSUME NEW a \in Int, NEW b \in Int
  PROVE  /\ IsFiniteSet(Bytes(a, b))
         /\ Cardinality(Bytes(a, b)) = IF a < b THEN b - a ELSE 0
<1>1. b - 1 \in Int
  OBVIOUS
<1>2. IsFiniteSet(a .. b - 1)
      /\ Cardinality(a .. b - 1) = IF a > b - 1 THEN 0 ELSE (b - 1) - a + 1
  BY <1>1, FS_Interval
<1> QED  BY <1>2 DEF Bytes

-----------------------------------------------------------------------------
(* The segments of a plan *)

LEMMA OuterMappingFields ==
  ASSUME PlanOK, NEW s \in OuterMappings
  PROVE  /\ s.offset \in Nat /\ s.memory \in Nat \ {0} /\ s.size \in Nat
         /\ s.source \in Nat
         /\ s.size <= s.memory /\ s.offset + s.memory <= plan.size
  BY MappingFields DEF PlanOK

SegmentsInOrder ==
  /\ plan.size \in Nat \ {0} /\ plan.base \in Nat
  /\ Enumerates(plan.segments, OuterMappings)
  /\ \A i \in 1 .. Len(plan.segments) :
       /\ plan.segments[i].offset \in Nat /\ plan.segments[i].memory \in Nat \ {0}
       /\ plan.segments[i].size \in Nat /\ plan.segments[i].source \in Nat
       /\ plan.segments[i].size <= plan.segments[i].memory
       /\ plan.segments[i].offset + plan.segments[i].memory <= plan.size
       /\ \A j \in 1 .. Len(plan.segments) :
            i < j => plan.segments[i].offset + plan.segments[i].memory
                       <= plan.segments[j].offset

LEMMA SegmentsAreInOrder ==
  ASSUME PlanOK
  PROVE  SegmentsInOrder
<1>1. InOrder(plan.segments)
  BY SortedIsInOrder DEF PlanOK
<1>2. /\ FileOK /\ Accepted /\ Nonempty # {}
      /\ plan.base = Base /\ plan.size = ArenaSize
  BY DEF PlanOK
<1>3. plan.size \in Nat \ {0} /\ plan.base \in Nat
  BY <1>2, ArenaSpans
<1> QED  BY <1>1, <1>2, <1>3 DEF InOrder, SegmentsInOrder

LEMMA LoadedByMappings ==
  ASSUME PlanOK, NEW o \in Nat
  PROVE  /\ \A s \in OuterMappings :
              (s.offset <= o /\ o < s.offset + s.size) =>
                FilesAt(Outer, plan.base + o) = {s.source + (o - s.offset)}
         /\ FilesAt(Outer, plan.base + o) # {} =>
              \E s \in OuterMappings : s.offset <= o /\ o < s.offset + s.size
         /\ MappedBy(Outer, plan.base + o) <=>
              \E s \in OuterMappings : s.offset <= o /\ o < s.offset + s.memory
<1>1. /\ FileOK /\ Accepted /\ Nonempty # {} /\ plan.base = Base
  BY DEF PlanOK
<1> QED  BY <1>1, MappingsTell

\* No segment maps the byte.
IsHole(o) == ~ MappedBy(Outer, plan.base + o) /\ FilesAt(Outer, plan.base + o) = {}

\* A scan of the arena finds holes, copies and zero tails in turn.
ScanTells ==
  /\ \A i \in 1 .. Len(plan.segments) :
       /\ ScanEnd(i - 1) \in Nat /\ ScanEnd(i - 1) <= plan.segments[i].offset
       /\ \A o \in Bytes(ScanEnd(i - 1), plan.segments[i].offset) :
            IsHole(o) /\ Loaded(o) = 0
       /\ \A o \in FileBytes(i) :
            /\ IsFile(o)
            /\ Loaded(o) = Content(plan.segments[i].source
                                     + (o - plan.segments[i].offset))
       /\ \A o \in PaddingBytes(i) : IsTail(o) /\ Loaded(o) = 0
  /\ ScanEnd(Len(plan.segments)) \in Nat /\ ScanEnd(Len(plan.segments)) <= plan.size
  /\ \A o \in Bytes(ScanEnd(Len(plan.segments)), plan.size) : IsHole(o) /\ Loaded(o) = 0

LEMMA SegmentsAreLoaded ==
  ASSUME PlanOK
  PROVE  ScanTells
<1> PICK q : q = plan.segments
  OBVIOUS
<1> PICK n : n = Len(q)
  OBVIOUS
<1>1. /\ SegmentsInOrder
      /\ n \in Nat
      /\ \A i \in 1 .. n : q[i] \in OuterMappings
      /\ \A s \in OuterMappings : \E i \in 1 .. n : s = q[i]
  BY SegmentsAreInOrder DEF SegmentsInOrder, Enumerates
<1>2. \A i \in 1 .. n :
        /\ q[i].offset \in Nat /\ q[i].memory \in Nat \ {0}
        /\ q[i].size \in Nat /\ q[i].source \in Nat
        /\ q[i].size <= q[i].memory /\ q[i].offset + q[i].memory <= plan.size
        /\ \A j \in 1 .. n : i < j => q[i].offset + q[i].memory <= q[j].offset
  BY <1>1 DEF SegmentsInOrder
<1>3. plan.size \in Nat
  BY <1>1 DEF SegmentsInOrder
<1>4. \A i \in 0 .. n :
        /\ ScanEnd(i) \in Nat
        /\ ScanEnd(i) <= plan.size
        /\ i # 0 => ScanEnd(i) = q[i].offset + q[i].memory
  <2> TAKE i \in 0 .. n
  <2>1. CASE i = 0
    BY <1>3, <2>1 DEF ScanEnd
  <2>2. CASE i # 0
    <3>1. i \in 1 .. n
      BY <1>1, <2>2
    <3> QED  BY <1>2, <2>2, <3>1 DEF ScanEnd
  <2> QED  BY <2>1, <2>2
<1>5. ASSUME NEW o \in Nat, NEW s \in OuterMappings,
             s.offset <= o, o < s.offset + s.memory
      PROVE  \E j \in 1 .. n :
               s = q[j] /\ q[j].offset <= o /\ o < q[j].offset + q[j].memory
  BY <1>1, <1>5
<1>6. ASSUME NEW o \in Nat,
             ~ \E j \in 1 .. n : q[j].offset <= o /\ o < q[j].offset + q[j].memory
      PROVE  IsHole(o) /\ Loaded(o) = 0
  <2>1. ~ \E s \in OuterMappings : s.offset <= o /\ o < s.offset + s.memory
    BY <1>5, <1>6
  <2>2. ~ \E s \in OuterMappings : s.offset <= o /\ o < s.offset + s.size
    <3> SUFFICES ASSUME NEW s \in OuterMappings, s.offset <= o, o < s.offset + s.size
                 PROVE  o < s.offset + s.memory
      BY <2>1
    <3>1. s.offset \in Nat /\ s.size \in Nat /\ s.memory \in Nat /\ s.size <= s.memory
      BY OuterMappingFields
    <3> QED  BY <3>1
  <2>3. ~ MappedBy(Outer, plan.base + o)
    BY <2>1, LoadedByMappings
  <2>4. FilesAt(Outer, plan.base + o) = {}
    BY <2>2, LoadedByMappings
  <2> QED  BY <2>3, <2>4 DEF IsHole, Loaded, LoadedAt
<1>7. ASSUME NEW i \in 0 .. n, NEW o \in Nat, ScanEnd(i) <= o,
             NEW j \in 1 .. n, q[j].offset <= o, o < q[j].offset + q[j].memory
      PROVE  i < j
  <2> SUFFICES ASSUME j <= i
               PROVE  FALSE
    BY <1>1
  <2>1. i \in 1 .. n /\ i # 0
    BY <1>1
  <2>2. ScanEnd(i) = q[i].offset + q[i].memory
    BY <1>4, <2>1
  <2>3. /\ q[i].offset \in Nat /\ q[i].memory \in Nat /\ q[j].offset \in Nat
        /\ q[j].memory \in Nat
    BY <1>2, <2>1
  <2>4. CASE j = i
    BY <1>7, <2>2, <2>3, <2>4
  <2>5. CASE j < i
    <3>1. q[j].offset + q[j].memory <= q[i].offset
      BY <1>2, <2>1, <2>5
    <3> QED  BY <1>7, <2>2, <2>3, <3>1
  <2> QED  BY <1>1, <2>4, <2>5
<1>8. ASSUME NEW i \in 1 .. n
      PROVE  /\ ScanEnd(i - 1) \in Nat /\ ScanEnd(i - 1) <= q[i].offset
             /\ \A o \in Bytes(ScanEnd(i - 1), q[i].offset) : IsHole(o) /\ Loaded(o) = 0
  <2>1. i - 1 \in 0 .. n /\ i \in Nat
    BY <1>1
  <2>2. ScanEnd(i - 1) \in Nat
    BY <1>4, <2>1
  <2>3. ScanEnd(i - 1) <= q[i].offset
    <3>1. CASE i = 1
      BY <1>2, <3>1 DEF ScanEnd
    <3>2. CASE i # 1
      <4>1. i - 1 \in 1 .. n /\ i - 1 < i /\ i - 1 # 0
        BY <2>1, <3>2
      <4> PICK j : j = i - 1
        OBVIOUS
      <4>2. j \in 1 .. n /\ j < i /\ ScanEnd(j) = q[j].offset + q[j].memory
        BY <1>4, <2>1, <4>1
      <4>3. q[j].offset + q[j].memory <= q[i].offset
        BY <1>2, <4>2
      <4> QED  BY <4>2, <4>3
    <3> QED  BY <3>1, <3>2
  <2>4. ASSUME NEW o \in Bytes(ScanEnd(i - 1), q[i].offset)
        PROVE  IsHole(o) /\ Loaded(o) = 0
    <3>1. o \in Nat /\ ScanEnd(i - 1) <= o /\ o < q[i].offset /\ q[i].offset \in Nat
      BY <1>2, <2>2 DEF Bytes
    <3>2. ~ \E j \in 1 .. n : q[j].offset <= o /\ o < q[j].offset + q[j].memory
      <4> SUFFICES ASSUME NEW j \in 1 .. n, q[j].offset <= o, o < q[j].offset + q[j].memory
                   PROVE  FALSE
        OBVIOUS
      <4>1. i - 1 < j
        BY <1>7, <2>1, <3>1
      <4>2. i <= j
        BY <1>1, <2>1, <4>1
      <4>3. q[i].offset <= q[j].offset
        <5>1. q[i].offset \in Nat /\ q[i].memory \in Nat
          BY <1>2
        <5>2. CASE i = j
          BY <5>1, <5>2
        <5>3. CASE i < j
          BY <1>2, <5>1, <5>3
        <5> QED  BY <1>1, <2>1, <4>2, <5>2, <5>3
      <4> QED  BY <1>2, <3>1, <4>3
    <3> QED  BY <1>6, <3>1, <3>2
  <2> QED  BY <2>2, <2>3, <2>4
<1>9. ASSUME NEW i \in 1 .. n
      PROVE  \A o \in FileBytes(i) :
               IsFile(o) /\ Loaded(o) = Content(q[i].source + (o - q[i].offset))
  <2> TAKE o \in FileBytes(i)
  <2>1. q[i].offset \in Nat /\ q[i].size \in Nat /\ q[i] \in OuterMappings
    BY <1>1, <1>2
  <2>2. o \in Nat /\ q[i].offset <= o /\ o < q[i].offset + q[i].size
    BY <2>1 DEF FileBytes, Bytes
  <2>3. FilesAt(Outer, plan.base + o) = {q[i].source + (o - q[i].offset)}
    BY <2>1, <2>2, LoadedByMappings
  <2> QED  BY <2>3 DEF IsFile, Loaded, LoadedAt
<1>10. ASSUME NEW i \in 1 .. n
       PROVE  \A o \in PaddingBytes(i) : IsTail(o) /\ Loaded(o) = 0
  <2> TAKE o \in PaddingBytes(i)
  <2>1. /\ q[i].offset \in Nat /\ q[i].size \in Nat /\ q[i].memory \in Nat
        /\ q[i].size <= q[i].memory /\ q[i] \in OuterMappings
    BY <1>1, <1>2
  <2>2. o \in Nat /\ q[i].offset + q[i].size <= o /\ o < q[i].offset + q[i].memory
    BY <2>1 DEF PaddingBytes, Bytes
  <2>3. MappedBy(Outer, plan.base + o)
    <3>1. q[i].offset <= o
      BY <2>1, <2>2
    <3> QED  BY <2>1, <2>2, <3>1, LoadedByMappings
  <2>4. FilesAt(Outer, plan.base + o) = {}
    <3> SUFFICES ASSUME NEW s \in OuterMappings, s.offset <= o, o < s.offset + s.size
                 PROVE  FALSE
      BY <2>2, LoadedByMappings
    <3>1. PICK j \in 1 .. n : s = q[j]
      BY <1>1
    <3>2. /\ q[j].offset \in Nat /\ q[j].size \in Nat /\ q[j].memory \in Nat
          /\ q[j].size <= q[j].memory
      BY <1>2
    <3>3. o < q[j].offset + q[j].memory /\ q[j].offset <= o
      BY <2>2, <3>1, <3>2
    <3>4. CASE i < j
      <4>1. q[i].offset + q[i].memory <= q[j].offset
        BY <1>2, <3>4
      <4> QED  BY <2>1, <2>2, <3>2, <3>3, <4>1
    <3>5. CASE j < i
      <4>1. q[j].offset + q[j].memory <= q[i].offset
        BY <1>2, <3>5
      <4> QED  BY <2>1, <2>2, <3>2, <3>3, <4>1
    <3>6. CASE i = j
      BY <2>1, <2>2, <3>1, <3>6
    <3> QED  BY <1>1, <3>4, <3>5, <3>6
  <2> QED  BY <2>3, <2>4 DEF IsTail, Loaded, LoadedAt
<1>11. ASSUME NEW o \in Bytes(ScanEnd(n), plan.size)
       PROVE  IsHole(o) /\ Loaded(o) = 0
  <2>1. n \in 0 .. n
    BY <1>1
  <2>2. o \in Nat /\ ScanEnd(n) <= o
    BY <1>3, <1>4, <2>1 DEF Bytes
  <2>3. ~ \E j \in 1 .. n : q[j].offset <= o /\ o < q[j].offset + q[j].memory
    <3> SUFFICES ASSUME NEW j \in 1 .. n, q[j].offset <= o, o < q[j].offset + q[j].memory
                 PROVE  FALSE
      OBVIOUS
    <3>1. n < j
      BY <1>7, <2>1, <2>2
    <3> QED  BY <1>1, <3>1
  <2> QED  BY <1>6, <2>2, <2>3
<1>12. ScanEnd(n) \in Nat /\ ScanEnd(n) <= plan.size
  BY <1>1, <1>4
<1> QED  BY <1>8, <1>9, <1>10, <1>11, <1>12 DEF ScanTells

-----------------------------------------------------------------------------
(* The views of a plan *)

LEMMA ViewTypes ==
  ASSUME FileOK, Accepted, NEW v \in Views
  PROVE  /\ v = <<v[1], v[2]>> /\ v[1] \in Members /\ v[2] \in ViewIndices(v[1])
         /\ ViewMemory(v[1], v[2]).offset \in Nat /\ ViewMemory(v[1], v[2]).size \in Nat
         /\ ViewSource(v[1], v[2]).offset \in Nat /\ ViewSource(v[1], v[2]).size \in Nat
<1> PICK k \in Members : \E i \in ViewIndices(k) : v = <<k, i>>
  BY DEF Views
<1>1. PICK i \in ViewIndices(k) : v = <<k, i>>
  OBVIOUS
<1>2. CASE i = 0
  <2>1. /\ HeaderSize(MemberImage(k)) \in Nat /\ Outer.commands[k].offset \in Nat
        /\ HeaderAddress(MemberImage(k), Outer.commands[k].offset) \in Nat
    BY MemberParsed
  <2> QED  BY <1>1, <1>2, <2>1 DEF ViewMemory, ViewSource, Header, FileRange
<1>3. CASE i # 0
  <2>1. SegmentOK(MemberImage(k).commands[i])
    BY <1>3, MemberParsed DEF ViewIndices
  <2> QED  BY <1>1, <1>3, <2>1 DEF ViewMemory, ViewSource, SegmentOK, Memory, FileRange
<1> QED  BY <1>1, <1>2, <1>3

\* What view() let pass.
LEMMA ViewMappingFields ==
  ASSUME PlanOK, NEW x \in ViewMappings
  PROVE  /\ x.of \in Views
         /\ x = Mapping(x.of, ViewMemory(x.of[1], x.of[2]), ViewSource(x.of[1], x.of[2]))
         /\ x.offset \in Nat /\ x.memory \in Nat /\ x.size \in Nat /\ x.source \in Nat
         /\ x.size <= x.memory /\ x.offset + x.memory <= plan.size
         /\ \E s \in OuterMappings : Shares(x, s)
<1>1. PICK v \in Views :
        x = Mapping(v, ViewMemory(v[1], v[2]), ViewSource(v[1], v[2]))
  BY DEF ViewMappings
<1> PICK memory : memory = ViewMemory(v[1], v[2])
  OBVIOUS
<1> PICK source : source = ViewSource(v[1], v[2])
  OBVIOUS
<1>2. FileOK /\ Accepted /\ Nonempty # {} /\ plan.size = ArenaSize
  BY DEF PlanOK
<1>3. /\ memory.offset \in Nat /\ memory.size \in Nat
      /\ source.offset \in Nat /\ source.size \in Nat
  BY <1>2, ViewTypes
<1>4. ViewCheck(v) = "Ok"
  BY <1>2, ViewsFit DEF FailingViews
<1>5. PlaceCheck(memory) = "Ok" /\ ~ (source.size > memory.size)
      /\ \E s \in OuterMappings : Shares(Mapping(v, memory, source), s)
  BY <1>4 DEF ViewCheck, MappingCheck
<1>6. ~ (memory.offset < Base) /\ ~ ((memory.offset - Base) + memory.size > ArenaSize)
  BY <1>5 DEF PlaceCheck
<1>7. Base \in Nat /\ ArenaSize \in Nat
  BY <1>2, ArenaSpans
<1>8. memory.offset - Base \in Nat /\ (memory.offset - Base) + memory.size <= ArenaSize
      /\ source.size <= memory.size
  BY <1>3, <1>5, <1>6, <1>7
<1>9. /\ x.of = v /\ x.offset = memory.offset - Base /\ x.memory = memory.size
      /\ x.source = source.offset /\ x.size = source.size
  BY <1>1 DEF Mapping
<1>10. x = Mapping(v, memory, source)
  BY <1>1
<1> QED  BY <1>1, <1>2, <1>3, <1>5, <1>8, <1>9, <1>10

\* A view shares the bytes of one outer segment.
LEMMA ViewIsLoaded ==
  ASSUME PlanOK, NEW x \in ViewMappings, NEW o \in Bytes(x.offset, x.offset + x.size)
  PROVE  Loaded(o) = Content(x.source + (o - x.offset))
<1>1. PICK s \in OuterMappings : Shares(x, s)
  BY ViewMappingFields
<1>2. /\ x.offset \in Nat /\ x.memory \in Nat /\ x.size \in Nat /\ x.source \in Nat
  BY ViewMappingFields
<1>3. /\ s.offset \in Nat /\ s.memory \in Nat /\ s.size \in Nat /\ s.source \in Nat
  BY OuterMappingFields
<1>4. o \in Nat /\ x.offset <= o /\ o < x.offset + x.size
  BY <1>2 DEF Bytes
<1>5. x.size # 0
  BY <1>2, <1>4
<1>6. /\ s.source <= x.source /\ x.source + x.size <= s.source + s.size
      /\ x.offset - s.offset = x.source - s.source
      /\ s.offset <= x.offset
  BY <1>1, <1>5 DEF Shares
<1>7. /\ s.offset <= o /\ o < s.offset + s.size
      /\ s.source + (o - s.offset) = x.source + (o - x.offset)
  BY <1>2, <1>3, <1>4, <1>6
<1>8. FilesAt(Outer, plan.base + o) = {s.source + (o - s.offset)}
  BY <1>4, <1>7, LoadedByMappings
<1>9. FilesAt(Outer, plan.base + o) = {x.source + (o - x.offset)}
  BY <1>7, <1>8
<1> QED  BY <1>9 DEF Loaded, LoadedAt

\* The views of a member cover just the bytes that its own headers map.
LEMMA ViewsCoverMembers ==
  ASSUME PlanOK, NEW o \in Nat
  PROVE  (\E k \in Members : FilesAt(MemberImage(k), plan.base + o) # {})
           <=> \E x \in ViewMappings : x.offset <= o /\ o < x.offset + x.size
<1> PICK b \in Nat : b = Base
  BY ArenaSpans DEF PlanOK
<1>1. plan.base = b /\ FileOK /\ Accepted
  BY DEF PlanOK
<1>2. ASSUME NEW k \in Members, FilesAt(MemberImage(k), b + o) # {}
      PROVE  \E x \in ViewMappings : x.offset <= o /\ o < x.offset + x.size
  <2>1. PICK s \in Segments(MemberImage(k)) :
          s.address <= b + o /\ b + o < s.address + s.file.size
    BY <1>2 DEF FilesAt
  <2>2. PICK i \in Kinds(MemberImage(k), {"segment"}) : s = MemberImage(k).commands[i]
    BY DEF Segments
  <2>3. SegmentOK(s) /\ i # 0
    BY <1>1, <2>2, MemberParsed
  <2>4. /\ s.address \in Nat /\ s.memory \in Nat /\ s.file.size \in Nat
        /\ s.file.size <= s.memory
    BY <2>3 DEF SegmentOK
  <2>5. s.memory # 0
    BY <2>1, <2>4
  <2>6. i \in ViewIndices(k)
    BY <2>2, <2>5 DEF ViewIndices
  <2> PICK v : v = <<k, i>>
    OBVIOUS
  <2>7. v \in Views /\ v[1] = k /\ v[2] = i
    BY <2>6 DEF Views
  <2> PICK x : x = Mapping(v, ViewMemory(v[1], v[2]), ViewSource(v[1], v[2]))
    OBVIOUS
  <2>8. x \in ViewMappings
    BY <2>7 DEF ViewMappings
  <2>9. ViewMemory(v[1], v[2]) = Memory(s) /\ ViewSource(v[1], v[2]) = s.file
    BY <2>2, <2>3, <2>7 DEF ViewMemory, ViewSource
  <2>10. x.offset = s.address - b /\ x.size = s.file.size
    BY <2>9 DEF Mapping, Memory, FileRange
  <2>11. x.offset <= o /\ o < x.offset + x.size
    BY <2>1, <2>4, <2>10
  <2> QED  BY <2>8, <2>11
<1>3. ASSUME NEW x \in ViewMappings, x.offset <= o, o < x.offset + x.size
      PROVE  \E k \in Members : FilesAt(MemberImage(k), b + o) # {}
  <2>1. PICK v \in Views :
          x = Mapping(v, ViewMemory(v[1], v[2]), ViewSource(v[1], v[2]))
    BY DEF ViewMappings
  <2> PICK k \in Members : k = v[1]
    BY <1>1, ViewTypes
  <2> PICK i \in ViewIndices(k) : i = v[2]
    BY <1>1, ViewTypes
  <2>2. x.offset = ViewMemory(k, i).offset - b /\ x.size = ViewSource(k, i).size
    BY <2>1 DEF Mapping
  <2>3. ASSUME NEW s \in Segments(MemberImage(k)),
               s.address <= b + o, b + o < s.address + s.file.size
        PROVE  FilesAt(MemberImage(k), b + o) # {}
    <3>1. s \in {t \in Segments(MemberImage(k)) :
                   t.address <= b + o /\ b + o < t.address + t.file.size}
      BY <2>3
    <3>2. s.file.offset + ((b + o) - s.address) \in FilesAt(MemberImage(k), b + o)
      BY <3>1, Zenon DEF FilesAt
    <3> QED  BY <3>2
  <2>4. CASE i # 0
    <3> PICK s : s = MemberImage(k).commands[i]
      OBVIOUS
    <3>1. SegmentOK(s) /\ s \in Segments(MemberImage(k))
      BY <1>1, <2>4, MemberParsed DEF ViewIndices
    <3>2. x.offset = s.address - b /\ x.size = s.file.size
      BY <2>2, <2>4 DEF ViewMemory, ViewSource, Memory, FileRange
    <3>3. s.address \in Nat /\ s.file.size \in Nat
      BY <3>1 DEF SegmentOK
    <3>4. s.address <= b + o /\ b + o < s.address + s.file.size
      BY <1>3, <3>2, <3>3
    <3> QED  BY <2>3, <3>1, <3>4
  <2>5. CASE i = 0
    <3> PICK offset \in Nat : offset = Outer.commands[k].offset
      BY <1>1, MemberParsed
    <3> PICK size \in Nat : size = HeaderSize(MemberImage(k))
      BY <1>1, MemberParsed
    <3> PICK address \in Nat : address = HeaderAddress(MemberImage(k), offset)
      BY <1>1, MemberParsed
    <3>1. x.offset = address - b /\ x.size = size
      BY <2>2, <2>5 DEF ViewMemory, ViewSource, Header, FileRange
    <3> DEFINE holders == HeaderHolders(MemberImage(k), offset)
               h == First(holders)
    <3>2. h \in holders
      <4>1. /\ offset \in DOMAIN file.images /\ MemberImage(k) = file.images[offset]
            /\ ImageCheck(offset, FALSE, Used(k)) = "Ok"
        BY <1>1, ImagesParsed DEF MemberImage
      <4>2. holders # {}
        BY <1>1, <4>1, ImageParsed
      <4>3. holders \subseteq Nat
        BY <1>1, <4>1, KindsAreNumbers DEF HeaderHolders
      <4> QED  BY <4>2, <4>3, FirstIsMember
    <3> PICK s : s = MemberImage(k).commands[h]
      OBVIOUS
    <3>3. /\ h \in Kinds(MemberImage(k), {"segment"})
          /\ Encloses(s.file, FileRange(offset, size))
      BY <3>2 DEF HeaderHolders, Header
    <3>4. address = s.address + (offset - s.file.offset)
      BY DEF HeaderAddress
    <3> HIDE DEF h, holders
    <3>5. SegmentOK(s) /\ s \in Segments(MemberImage(k))
      BY <1>1, <3>3, MemberParsed
    <3>6. s.address \in Nat /\ s.file.offset \in Nat /\ s.file.size \in Nat
      BY <3>5 DEF SegmentOK
    <3>7. s.file.offset <= offset /\ offset + size <= s.file.offset + s.file.size
      BY <3>3 DEF Encloses, Limit, FileRange
    <3>8. s.address <= b + o /\ b + o < s.address + s.file.size
      <4>1. /\ b \in Nat /\ o \in Nat /\ address <= b + o /\ b + o < address + size
            /\ offset \in Nat /\ size \in Nat
        BY <1>3, <3>1
      <4> QED  BY ONLY <3>4, <3>6, <3>7, <4>1
    <3> QED  BY <2>3, <3>5, <3>8
  <2> QED  BY <2>4, <2>5
<1> QED  BY <1>1, <1>2, <1>3

\* The views of a plan stand in the order of their places, though they may
\* share bytes; together they cover what the members map.
ViewsTell ==
  /\ Len(plan.views) \in Nat
  /\ \A j \in 1 .. Len(plan.views) :
       /\ plan.views[j].offset \in Nat /\ plan.views[j].memory \in Nat
       /\ plan.views[j].size \in Nat /\ plan.views[j].source \in Nat
       /\ plan.views[j].size <= plan.views[j].memory
       /\ plan.views[j].offset + plan.views[j].memory <= plan.size
       /\ \A i \in 1 .. Len(plan.views) :
            i < j => plan.views[i].offset <= plan.views[j].offset
       /\ \A o \in ViewBytes(j) :
            Loaded(o) = Content(plan.views[j].source + (o - plan.views[j].offset))
  /\ Covered(Len(plan.views) + 1) = MemberBytes
  /\ Cardinality(HeadersBefore(Len(plan.views) + 1)) = Cardinality(Members)

\* A plan has one view for the header of each member.
LEMMA HeadersCount ==
  ASSUME PlanOK, Enumerates(plan.views, ViewMappings)
  PROVE  Cardinality(HeadersBefore(Len(plan.views) + 1)) = Cardinality(Members)
<1> PICK w : w = plan.views
  OBVIOUS
<1> PICK n : n = Len(w)
  OBVIOUS
<1>1. /\ n \in Nat
      /\ \A j \in 1 .. n : w[j] \in ViewMappings
      /\ \A x \in ViewMappings : \E j \in 1 .. n : w[j] = x
      /\ \A i, j \in 1 .. n : w[i] = w[j] => i = j
  BY DEF Enumerates
<1> PICK H : H = HeadersBefore(n + 1)
  OBVIOUS
<1>2. H = {j \in 1 .. n : w[j].of[2] = 0}
  BY <1>1 DEF HeadersBefore
<1>3. ASSUME NEW k \in Members
      PROVE  \E j \in H : w[j].of = <<k, 0>>
  <2> PICK v : v = <<k, 0>>
    OBVIOUS
  <2>1. v \in Views
    BY DEF Views, ViewIndices
  <2> PICK x : x = Mapping(v, ViewMemory(v[1], v[2]), ViewSource(v[1], v[2]))
    OBVIOUS
  <2>2. x \in ViewMappings
    BY <2>1 DEF ViewMappings
  <2>3. x.of = <<k, 0>>
    BY DEF Mapping
  <2>4. PICK j \in 1 .. n : w[j] = x
    BY <1>1, <2>2
  <2> QED  BY <1>2, <2>3, <2>4
<1> DEFINE f == [k \in Members |-> CHOOSE j \in H : w[j].of = <<k, 0>>]
<1>4. \A k \in Members : f[k] \in H /\ w[f[k]].of = <<k, 0>>
  BY <1>3
<1>5. f \in [Members -> H]
  BY <1>4
<1>6. \A k, m \in Members : f[k] = f[m] => k = m
  <2> TAKE k, m \in Members
  <2>1. w[f[k]].of = <<k, 0>> /\ w[f[m]].of = <<m, 0>>
    BY <1>4
  <2> HIDE DEF f
  <2> QED  BY <2>1
<1> HIDE DEF f
<1>7. \A j \in H : \E k \in Members : f[k] = j
  <2> TAKE j \in H
  <2>1. j \in 1 .. n /\ w[j].of[2] = 0 /\ w[j] \in ViewMappings
    BY <1>1, <1>2
  <2> PICK v : v = w[j].of
    OBVIOUS
  <2>2. /\ v \in Views
        /\ w[j] = Mapping(v, ViewMemory(v[1], v[2]), ViewSource(v[1], v[2]))
    BY <2>1, ViewMappingFields
  <2>3. PICK k \in Members : v = <<k, 0>>
    BY <2>1, <2>2, ViewTypes DEF PlanOK
  <2> PICK i : i = f[k]
    OBVIOUS
  <2>4. i \in H /\ w[i].of = <<k, 0>>
    BY <1>4
  <2>5. i \in 1 .. n /\ w[i] \in ViewMappings
    BY <1>1, <1>2, <2>4
  <2>6. w[i] = Mapping(v, ViewMemory(v[1], v[2]), ViewSource(v[1], v[2]))
    BY <2>3, <2>4, <2>5, ViewMappingFields
  <2>7. i = j
    <3>1. w[i] = w[j]
      BY <2>2, <2>6, Zenon
    <3> QED  BY <1>1, <2>1, <2>5, <3>1
  <2> QED  BY <2>7
<1>8. f \in Bijection(Members, H)
  BY <1>5, <1>6, <1>7 DEF Bijection, Injection, Surjection, IsInjective
<1>9. IsFiniteSet(Members)
  BY ViewMappingsFinite DEF PlanOK
<1>10. Cardinality(H) = Cardinality(Members)
  BY <1>8, <1>9, FS_Bijection DEF ExistsBijection
<1> QED  BY <1>10

LEMMA ViewsAreTold ==
  ASSUME PlanOK
  PROVE  ViewsTell
<1> PICK w : w = plan.views
  OBVIOUS
<1> PICK n : n = Len(w)
  OBVIOUS
<1>1. /\ w \in SetToSeqs(ViewMappings)
      /\ \A i, j \in DOMAIN w : i < j => w[i].offset <= w[j].offset
  BY DEF PlanOK, Sorted
<1>2. Enumerates(w, ViewMappings)
  <2>1. IsFiniteSet(ViewMappings)
    BY ViewMappingsFinite DEF PlanOK
  <2> QED  BY <1>1, <2>1, SetToSeqsEnumerates
<1>3. /\ n \in Nat /\ DOMAIN w = 1 .. n
      /\ \A j \in 1 .. n : w[j] \in ViewMappings
      /\ \A x \in ViewMappings : \E j \in 1 .. n : w[j] = x
  BY <1>2 DEF Enumerates
<1>4. ASSUME NEW j \in 1 .. n
      PROVE  /\ w[j].offset \in Nat /\ w[j].memory \in Nat
             /\ w[j].size \in Nat /\ w[j].source \in Nat
             /\ w[j].size <= w[j].memory /\ w[j].offset + w[j].memory <= plan.size
             /\ \A i \in 1 .. n : i < j => w[i].offset <= w[j].offset
             /\ \A o \in ViewBytes(j) : Loaded(o) = Content(w[j].source + (o - w[j].offset))
  <2>1. w[j] \in ViewMappings
    BY <1>3
  <2> QED  BY <1>1, <1>3, <2>1, ViewMappingFields, ViewIsLoaded DEF ViewBytes
<1>5. Covered(n + 1) = MemberBytes
  <2>1. Covered(n + 1) = UNION {ViewBytes(j) : j \in 1 .. n}
    BY <1>3 DEF Covered
  <2>2. plan.size \in Nat
    BY SegmentsAreInOrder DEF SegmentsInOrder
  <2>3. ASSUME NEW o \in Covered(n + 1)
        PROVE  o \in MemberBytes
    <3>1. PICK j \in 1 .. n : o \in ViewBytes(j)
      BY <2>1
    <3>2. w[j].offset \in Nat /\ w[j].size \in Nat /\ w[j].memory \in Nat
          /\ w[j].size <= w[j].memory /\ w[j].offset + w[j].memory <= plan.size
          /\ w[j] \in ViewMappings
      BY <1>3, <1>4
    <3>3. o \in Nat /\ w[j].offset <= o /\ o < w[j].offset + w[j].size
      BY <3>1, <3>2 DEF ViewBytes, Bytes
    <3>4. o \in Bytes(0, plan.size)
      BY <2>2, <3>2, <3>3 DEF Bytes
    <3>5. \E k \in Members : FilesAt(MemberImage(k), plan.base + o) # {}
      BY <3>2, <3>3, ViewsCoverMembers
    <3> QED  BY <3>4, <3>5 DEF MemberBytes
  <2>4. ASSUME NEW o \in MemberBytes
        PROVE  o \in Covered(n + 1)
    <3>1. o \in Nat /\ \E k \in Members : FilesAt(MemberImage(k), plan.base + o) # {}
      BY <2>2 DEF MemberBytes, Bytes
    <3>2. PICK x \in ViewMappings : x.offset <= o /\ o < x.offset + x.size
      BY <3>1, ViewsCoverMembers
    <3>3. PICK j \in 1 .. n : w[j] = x
      BY <1>3, <3>2
    <3>4. w[j].offset \in Nat /\ w[j].size \in Nat
      BY <1>4
    <3>5. o \in ViewBytes(j)
      BY <3>1, <3>2, <3>3, <3>4 DEF ViewBytes, Bytes
    <3> QED  BY <2>1, <3>5
  <2> QED  BY <2>3, <2>4
<1>6. Cardinality(HeadersBefore(n + 1)) = Cardinality(Members)
  BY <1>2, HeadersCount
<1> QED  BY <1>3, <1>4, <1>5, <1>6 DEF ViewsTell

-----------------------------------------------------------------------------
(* What a plan is checked against stays as it is while the plan does *)

LEMMA PlanFixed ==
  ASSUME planVars' = planVars
  PROVE  /\ file' = file /\ plan' = plan /\ inspection' = inspection
         /\ FileOK' = FileOK /\ PlanOK' = PlanOK
         /\ \A o : Loaded(o)' = Loaded(o)
         /\ \A o : IsFile(o)' = IsFile(o) /\ IsTail(o)' = IsTail(o)
         /\ \A i : FileBytes(i)' = FileBytes(i) /\ ScanEnd(i)' = ScanEnd(i)
         /\ \A n : Covered(n)' = Covered(n) /\ HeadersBefore(n)' = HeadersBefore(n)
         /\ MemberBytes' = MemberBytes
<1>1. file' = file /\ plan' = plan /\ inspection' = inspection
  BY DEF planVars
<1>2. /\ FileOK' = FileOK /\ Accepted' = Accepted /\ Nonempty' = Nonempty
      /\ Base' = Base /\ ArenaSize' = ArenaSize
      /\ OuterMappings' = OuterMappings /\ ViewMappings' = ViewMappings
      /\ Outer' = Outer /\ Members' = Members
      /\ \A k : MemberImage(k)' = MemberImage(k)
  BY <1>1, FileFixed
<1>3. PlanOK' = PlanOK
  BY <1>1, <1>2 DEF PlanOK
<1>4. \A o : FilesAt(Outer, plan.base + o)' = FilesAt(Outer, plan.base + o)
  BY <1>1, <1>2 DEF FilesAt
<1>5. \A o : Loaded(o)' = Loaded(o)
  BY <1>1, <1>2, <1>4 DEF Loaded, LoadedAt
<1>6. \A o : IsFile(o)' = IsFile(o) /\ IsTail(o)' = IsTail(o)
  BY <1>1, <1>2, <1>4 DEF IsFile, IsTail, MappedBy
<1>7. \A i : FileBytes(i)' = FileBytes(i) /\ ScanEnd(i)' = ScanEnd(i)
  BY <1>1 DEF FileBytes, ScanEnd
<1>8. \A j : ViewBytes(j)' = ViewBytes(j)
  BY <1>1 DEF ViewBytes
<1>9. \A n : Covered(n)' = Covered(n) /\ HeadersBefore(n)' = HeadersBefore(n)
  BY <1>1, <1>8 DEF Covered, HeadersBefore
<1>10. MemberBytes' = MemberBytes
  BY <1>1, <1>2 DEF MemberBytes, FilesAt
<1> QED  BY <1>1, <1>2, <1>3, <1>5, <1>6, <1>7, <1>9, <1>10

\* A step that leaves the slice and its history alone leaves alone what was
\* confirmed of it.
LEMMA SliceFixed ==
  ASSUME planVars' = planVars, arena' = arena, reads' = reads, disturbed' = disturbed,
         counts' = counts
  PROVE  /\ Whole' = Whole /\ SliceOK' = SliceOK
         /\ \A e : Confirmed(e)' = Confirmed(e)
         /\ \A n : ViewsConfirmed(n)' = ViewsConfirmed(n)
<1>1. Whole' = Whole
  BY PlanFixed DEF Whole, Arena
<1>2. SliceOK' = SliceOK
  BY DEF SliceOK, Arena
<1>3. \A e : Confirmed(e)' = Confirmed(e)
  BY PlanFixed DEF Confirmed
<1>4. \A n : ViewsConfirmed(n)' = ViewsConfirmed(n)
  BY PlanFixed DEF ViewsConfirmed
<1> QED  BY <1>1, <1>2, <1>3, <1>4

\* The scan stays inside the arena.
LEMMA ScanEndsInside ==
  ASSUME PlanOK, NEW i \in 0 .. Len(plan.segments)
  PROVE  ScanEnd(i) \in Nat /\ ScanEnd(i) <= plan.size
<1>1. SegmentsInOrder
  BY SegmentsAreInOrder
<1>2. plan.size \in Nat /\ Len(plan.segments) \in Nat
  BY <1>1 DEF SegmentsInOrder, Enumerates
<1>3. CASE i = 0
  BY <1>2, <1>3 DEF ScanEnd
<1>4. CASE i # 0
  <2>1. i \in 1 .. Len(plan.segments)
    BY <1>2, <1>4
  <2>2. /\ plan.segments[i].offset \in Nat /\ plan.segments[i].memory \in Nat
        /\ plan.segments[i].offset + plan.segments[i].memory <= plan.size
    BY <1>1, <2>1 DEF SegmentsInOrder
  <2> QED  BY <1>4, <2>2 DEF ScanEnd
<1> QED  BY <1>3, <1>4

\* What is confirmed after a step, told by what the plan says before it.
ConfirmedBy(e, rd, ds, ar, ct) ==
  /\ \A o \in Bytes(0, e) : rd[o] > 0 /\ (o \notin ds => ar[o] = Loaded(o))
  /\ ct.copied = Cardinality({o \in Bytes(0, e) : IsFile(o)})
  /\ ct.tails = Cardinality({o \in Bytes(0, e) : IsTail(o)})
  /\ ct.copied + ct.tails + ct.holes = e

ViewsConfirmedBy(n, rd, ct) ==
  /\ \A o \in Covered(n) : rd[o] > 1
  /\ ct.compared = Cardinality(Covered(n))
  /\ ct.headers = Cardinality(HeadersBefore(n))

LEMMA ConfirmedNext ==
  ASSUME planVars' = planVars
  PROVE  /\ \A e : ConfirmedBy(e, reads', disturbed', arena', counts') => Confirmed(e)'
         /\ \A n : ViewsConfirmedBy(n, reads', counts') => ViewsConfirmed(n)'
<1>1. \A e : {o \in Bytes(0, e) : IsFile(o)}' = {o \in Bytes(0, e) : IsFile(o)}
             /\ {o \in Bytes(0, e) : IsTail(o)}' = {o \in Bytes(0, e) : IsTail(o)}
  BY PlanFixed
<1>2. \A e : ConfirmedBy(e, reads', disturbed', arena', counts') => Confirmed(e)'
  BY <1>1, PlanFixed DEF ConfirmedBy, Confirmed
<1>3. \A n : ViewsConfirmedBy(n, reads', counts') => ViewsConfirmed(n)'
  BY PlanFixed DEF ViewsConfirmedBy, ViewsConfirmed
<1> QED  BY <1>2, <1>3

-----------------------------------------------------------------------------
(* The phases an observer hears of *)

LEMMA TuplesByElement ==
  ASSUME NEW S, NEW t \in Seq(S)
  PROVE  /\ Len(t) = 1 => t = <<t[1]>>
         /\ Len(t) = 2 => t = <<t[1], t[2]>>
         /\ Len(t) = 3 => t = <<t[1], t[2], t[3]>>
         /\ Len(t) = 4 => t = <<t[1], t[2], t[3], t[4]>>
<1>1. Len(t) = 1 => t = <<t[1]>>
  OBVIOUS
<1>2. Len(t) = 2 => t = <<t[1], t[2]>>
  OBVIOUS
<1>3. Len(t) = 3 => t = <<t[1], t[2], t[3]>>
  OBVIOUS
<1>4. Len(t) = 4 => t = <<t[1], t[2], t[3], t[4]>>
  OBVIOUS
<1> QED  BY <1>1, <1>2, <1>3, <1>4

\* What is reported grows by one phase after the other.
LEMMA ReportedGrows ==
  /\ Append(<<"DestinationInitialized">>, "SegmentsCopied")
       = <<"DestinationInitialized", "SegmentsCopied">>
  /\ Append(<<>>, "ArenaVerified") = <<"ArenaVerified">>
  /\ Append(<<"DestinationInitialized", "SegmentsCopied">>, "ArenaVerified")
       = <<"DestinationInitialized", "SegmentsCopied", "ArenaVerified">>
  /\ Append(<<"ArenaVerified">>, "MemberViewsVerified")
       = <<"ArenaVerified", "MemberViewsVerified">>
  /\ Append(<<"DestinationInitialized", "SegmentsCopied", "ArenaVerified">>,
            "MemberViewsVerified") = Phases
<1> PICK a : a = "DestinationInitialized"
  OBVIOUS
<1> PICK b : b = "SegmentsCopied"
  OBVIOUS
<1> PICK c : c = "ArenaVerified"
  OBVIOUS
<1> PICK d : d = "MemberViewsVerified"
  OBVIOUS
<1> PICK S : S = {a, b, c, d}
  OBVIOUS
<1>1. a \in S /\ b \in S /\ c \in S /\ d \in S
  OBVIOUS
<1>2. Append(<<>>, c) = <<c>>
  OBVIOUS
<1>3. ASSUME NEW x \in S, NEW y \in S
      PROVE  Append(<<x>>, y) = <<x, y>>
  <2> PICK r : r = <<x>>
    OBVIOUS
  <2>1. r \in Seq(S) /\ Len(r) = 1 /\ r[1] = x
    OBVIOUS
  <2> PICK t : t = Append(r, y)
    OBVIOUS
  <2>2. t \in Seq(S) /\ Len(t) = 2 /\ t[1] = x /\ t[2] = y
    BY <2>1, AppendProperties
  <2>3. t = <<t[1], t[2]>>
    BY <2>2, TuplesByElement
  <2> QED  BY <2>2, <2>3, Zenon
<1>4. Append(<<a, b>>, c) = <<a, b, c>>
  <2> PICK r : r = <<a, b>>
    OBVIOUS
  <2>1. r \in Seq(S) /\ Len(r) = 2 /\ r[1] = a /\ r[2] = b
    OBVIOUS
  <2> PICK t : t = Append(r, c)
    OBVIOUS
  <2>2. t \in Seq(S) /\ Len(t) = 3 /\ t[1] = a /\ t[2] = b /\ t[3] = c
    BY <2>1, AppendProperties
  <2>3. t = <<t[1], t[2], t[3]>>
    BY <2>2, TuplesByElement
  <2> QED  BY <2>2, <2>3, Zenon
<1>5. Append(<<a, b, c>>, d) = <<a, b, c, d>>
  <2> PICK r : r = <<a, b, c>>
    OBVIOUS
  <2>1. r \in Seq(S) /\ Len(r) = 3 /\ r[1] = a /\ r[2] = b /\ r[3] = c
    OBVIOUS
  <2> PICK t : t = Append(r, d)
    OBVIOUS
  <2>2. t \in Seq(S) /\ Len(t) = 4 /\ t[1] = a /\ t[2] = b /\ t[3] = c /\ t[4] = d
    BY <2>1, AppendProperties
  <2>3. t = <<t[1], t[2], t[3], t[4]>>
    BY <2>2, TuplesByElement
  <2> QED  BY <2>2, <2>3, Zenon
<1>6. Append(<<a>>, b) = <<a, b>> /\ Append(<<c>>, d) = <<c, d>>
  BY <1>1, <1>3
<1> QED  BY <1>2, <1>4, <1>5, <1>6, Zenon DEF Phases

\* The phases told of are the first of a staging, or of a verification.
LEMMA PhasesInSequence ==
  /\ SubSeq(Phases, 1, 0) = <<>>
  /\ SubSeq(Phases, 1, 1) = <<"DestinationInitialized">>
  /\ SubSeq(Phases, 1, 2) = <<"DestinationInitialized", "SegmentsCopied">>
  /\ SubSeq(Phases, 1, 3) = <<"DestinationInitialized", "SegmentsCopied", "ArenaVerified">>
  /\ SubSeq(Phases, 1, 4) = Phases
  /\ SubSeq(Phases, 3, 3) = <<"ArenaVerified">>
  /\ SubSeq(Phases, 3, 4) = <<"ArenaVerified", "MemberViewsVerified">>
<1> PICK q : q = Phases
  OBVIOUS
<1>1. /\ q[1] = "DestinationInitialized" /\ q[2] = "SegmentsCopied"
      /\ q[3] = "ArenaVerified" /\ q[4] = "MemberViewsVerified"
  BY DEF Phases
<1> PICK S : S = {q[1], q[2], q[3], q[4]}
  OBVIOUS
<1>2. \A i \in 1 .. 4 : q[i] \in S
  OBVIOUS
<1>3. ASSUME NEW m \in 1 .. 4, NEW n \in 1 .. 4, m <= n
      PROVE  /\ SubSeq(q, m, n) \in Seq(S)
             /\ Len(SubSeq(q, m, n)) = n - m + 1
             /\ \A i \in 1 .. n - m + 1 : SubSeq(q, m, n)[i] = q[m + i - 1]
  <2>1. \A i \in m .. n : q[i] \in S
    BY <1>2
  <2> QED  BY <1>3, <2>1, SubSeqProperties
<1>4. SubSeq(q, 1, 0) = <<>>
  BY SubSeqEmpty
<1>5. SubSeq(q, 1, 1) = <<q[1]>>
  <2> PICK t : t = SubSeq(q, 1, 1)
    OBVIOUS
  <2>1. t \in Seq(S) /\ Len(t) = 1 /\ t[1] = q[1]
    BY <1>3
  <2>2. t = <<t[1]>>
    BY <2>1, TuplesByElement
  <2> QED  BY <2>1, <2>2, Zenon
<1>6. SubSeq(q, 1, 2) = <<q[1], q[2]>>
  <2> PICK t : t = SubSeq(q, 1, 2)
    OBVIOUS
  <2>1. t \in Seq(S) /\ Len(t) = 2 /\ t[1] = q[1] /\ t[2] = q[2]
    BY <1>3
  <2>2. t = <<t[1], t[2]>>
    BY <2>1, TuplesByElement
  <2> QED  BY <2>1, <2>2, Zenon
<1>7. SubSeq(q, 1, 3) = <<q[1], q[2], q[3]>>
  <2> PICK t : t = SubSeq(q, 1, 3)
    OBVIOUS
  <2>1. t \in Seq(S) /\ Len(t) = 3 /\ t[1] = q[1] /\ t[2] = q[2] /\ t[3] = q[3]
    BY <1>3
  <2>2. t = <<t[1], t[2], t[3]>>
    BY <2>1, TuplesByElement
  <2> QED  BY <2>1, <2>2, Zenon
<1>8. SubSeq(q, 1, 4) = <<q[1], q[2], q[3], q[4]>>
  <2> PICK t : t = SubSeq(q, 1, 4)
    OBVIOUS
  <2>1. /\ t \in Seq(S) /\ Len(t) = 4
        /\ t[1] = q[1] /\ t[2] = q[2] /\ t[3] = q[3] /\ t[4] = q[4]
    BY <1>3
  <2>2. t = <<t[1], t[2], t[3], t[4]>>
    BY <2>1, TuplesByElement
  <2> QED  BY <2>1, <2>2, Zenon
<1>9. SubSeq(q, 3, 3) = <<q[3]>>
  <2> PICK t : t = SubSeq(q, 3, 3)
    OBVIOUS
  <2>1. t \in Seq(S) /\ Len(t) = 1 /\ t[1] = q[3]
    BY <1>3
  <2>2. t = <<t[1]>>
    BY <2>1, TuplesByElement
  <2> QED  BY <2>1, <2>2, Zenon
<1>10. SubSeq(q, 3, 4) = <<q[3], q[4]>>
  <2> PICK t : t = SubSeq(q, 3, 4)
    OBVIOUS
  <2>1. t \in Seq(S) /\ Len(t) = 2 /\ t[1] = q[3] /\ t[2] = q[4]
    BY <1>3
  <2>2. t = <<t[1], t[2]>>
    BY <2>1, TuplesByElement
  <2> QED  BY <2>1, <2>2, Zenon
<1>11. Phases = <<q[1], q[2], q[3], q[4]>>
  BY <1>1, Zenon DEF Phases
<1> QED  BY <1>1, <1>4, <1>5, <1>6, <1>7, <1>8, <1>9, <1>10, <1>11, Zenon

-----------------------------------------------------------------------------
(* Each step keeps the invariant *)

\* The part of the invariant that steps with a plan disturb.
StagingWith ==
  /\ CallOK /\ SliceOK
  /\ CopyOK /\ OuterOK /\ ViewsOK
  /\ UntouchedOK /\ IdleOK /\ ReportedOK

LEMMA PlanLives ==
  ASSUME PlanOK, plan # None, planVars' = planVars, StagingWith'
  PROVE  StagingInv'
<1>1. plan' # None /\ FileOK' /\ PlanOK'
  BY PlanFixed DEF PlanOK
<1> QED  BY <1>1 DEF StagingInv, StagingWith, Unplanned

LEMMA PlanKept ==
  ASSUME StagingInv, plan # None, planVars' = planVars, StagingWith'
  PROVE  StagingInv'
<1>1. PlanOK
  BY DEF StagingInv
<1> QED  BY <1>1, PlanLives

\* A running call is told from no call.
LEMMA CallsAreRecords ==
  ASSUME NEW at \in {"copy", "outer", "views"}, NEW next \in Nat, NEW end \in Nat,
         NEW c, c = [step |-> at, next |-> next, end |-> end]
  PROVE  c # None /\ c.step = at /\ c.next = next /\ c.end = end
         /\ c \in [step : {"copy", "outer", "views"}, next : Nat, end : Nat]
BY NoneAssumption

\* Staging starts afresh, whatever was in the slice.
LEMMA StageBegins ==
  ASSUME PlanOK, plan # None, NEW n \in {plan.size, plan.size - 1}, Stage(n),
         counts \in [copied : Nat, tails : Nat, holes : Nat, headers : Nat,
                    segments : Nat, compared : Nat]
  PROVE  StagingInv'
<1>1. SegmentsInOrder
  BY SegmentsAreInOrder
<1>2. n \in Nat /\ plan.size \in Nat
  BY <1>1 DEF SegmentsInOrder
<1>3. planVars' = planVars /\ reads' = [o \in Bytes(0, n) |-> 0] /\ plan' = plan
  BY DEF Stage, planVars
<1>5. CASE n # plan.size
  <2>1. /\ arena' = [o \in Bytes(0, n) |-> Garbage] /\ touched' = TRUE
        /\ reported' = <<>> /\ call' = None /\ result' = "DestinationSize"
        /\ counts' = counts
    BY <1>5 DEF Stage, Return
  <2>2. SliceOK'
    BY <1>2, <1>3, <2>1 DEF SliceOK, Arena
  <2>3. CallOK' /\ CopyOK' /\ OuterOK' /\ ViewsOK' /\ UntouchedOK' /\ IdleOK'
    BY <2>1 DEF CallOK, CopyOK, OuterOK, ViewsOK, UntouchedOK, IdleOK, Idle, At
  <2>4. ReportedOK'
    BY <2>1 DEF ReportedOK
  <2>5. StagingWith'
    BY <2>2, <2>3, <2>4 DEF StagingWith
  <2> QED  BY <1>3, <2>5, PlanLives
<1>6. CASE n = plan.size
  <2>1. /\ arena' = [o \in Bytes(0, n) |-> 0] /\ touched' = FALSE
        /\ reported' = <<"DestinationInitialized">> /\ counts' = ZeroCounts
        /\ call' = [step |-> "copy", next |-> 1, end |-> 0]
    BY <1>6 DEF Stage, Enter
  <2>2. call' # None /\ call'.step = "copy" /\ call'.next = 1
        /\ call' \in [step : {"copy", "outer", "views"}, next : Nat, end : Nat]
    BY <2>1, CallsAreRecords
  <2>3. Whole' /\ Arena' = Bytes(0, n)
    BY <1>3, <1>6, <2>1 DEF Whole, Arena
  <2>4. SliceOK'
    BY <1>2, <1>3, <2>1 DEF SliceOK, Arena, ZeroCounts
  <2>5. CopyOK'
    <3>1. \A o \in Arena' : arena'[o] = 0
      BY <2>1, <2>3
    <3>2. ~ \E i \in 1 .. call'.next - 1 : TRUE
      BY <2>2
    <3>4. Len(plan.segments) \in Nat
      BY <1>1 DEF SegmentsInOrder, Enumerates
    <3>5. call'.next \in 1 .. Len(plan'.segments) + 1
      BY <1>3, <2>2, <3>4
    <3> QED  BY <2>1, <2>3, <3>1, <3>2, <3>5 DEF CopyOK
  <2>6. CallOK' /\ OuterOK' /\ ViewsOK' /\ UntouchedOK' /\ IdleOK'
    BY <2>2 DEF CallOK, OuterOK, ViewsOK, UntouchedOK, IdleOK, Idle, At
  <2>7. ReportedOK'
    BY <2>1 DEF ReportedOK
  <2>8. StagingWith'
    BY <2>4, <2>5, <2>6, <2>7 DEF StagingWith
  <2> QED  BY <1>3, <2>8, PlanLives
<1> QED  BY <1>5, <1>6

LEMMA StageKeeps ==
  ASSUME StagingInv, plan # None, NEW n \in {plan.size, plan.size - 1}, Stage(n)
  PROVE  StagingInv'
<1>1. /\ PlanOK
      /\ counts \in [copied : Nat, tails : Nat, holes : Nat, headers : Nat,
                     segments : Nat, compared : Nat]
  BY DEF StagingInv, SliceOK
<1> QED  BY <1>1, StageBegins

LEMMA CopySegmentKeeps ==
  ASSUME StagingInv, plan # None, CopySegment
  PROVE  StagingInv'
<1> PICK i : i = call.next
  OBVIOUS
<1> PICK n : n = Len(plan.segments)
  OBVIOUS
<1>1. /\ SegmentsInOrder /\ ScanTells
  BY SegmentsAreInOrder, SegmentsAreLoaded DEF StagingInv
<1>2. n \in Nat
  BY <1>1 DEF SegmentsInOrder, Enumerates
<1>3. At("copy") /\ i <= n /\ CallOK /\ CopyOK /\ SliceOK
  BY DEF CopySegment, StagingInv
<1>4. /\ i \in 1 .. n /\ Whole /\ reported = <<"DestinationInitialized">>
      /\ call.end \in Nat /\ i \in Nat
  BY <1>2, <1>3 DEF CopyOK, CallOK, Idle, At
<1> PICK s : s = plan.segments[i]
  OBVIOUS
<1>5. /\ planVars' = planVars /\ plan' = plan /\ reads' = reads /\ counts' = counts
      /\ reported' = reported /\ touched' = touched /\ result' = result
      /\ arena' = [o \in Arena |-> IF o \in FileBytes(i)
                                     THEN Content(s.source + (o - s.offset))
                                     ELSE arena[o]]
  BY DEF CopySegment, planVars, historyVars, FileBytes
<1>6. call' = [step |-> "copy", next |-> i + 1, end |-> call.end]
  BY <1>3 DEF CopySegment, CallOK, At, Idle
<1>7. /\ call' # None /\ call'.step = "copy" /\ call'.next = i + 1
      /\ call' \in [step : {"copy", "outer", "views"}, next : Nat, end : Nat]
  BY <1>4, <1>6, CallsAreRecords
<1>8. Arena' = Arena /\ Whole'
  BY <1>4, <1>5 DEF Arena, Whole
<1>9. SliceOK'
  BY <1>3, <1>5, <1>8 DEF SliceOK
<1>10. CopyOK'
  <2>1. call'.next \in 1 .. Len(plan'.segments) + 1
    BY <1>2, <1>4, <1>5, <1>7
  <2>2. ASSUME ~ touched, NEW o \in Arena
        PROVE  arena'[o] = IF \E j \in 1 .. i : o \in FileBytes(j) THEN Loaded(o) ELSE 0
    <3>1. arena[o] = IF \E j \in 1 .. i - 1 : o \in FileBytes(j) THEN Loaded(o) ELSE 0
      BY <1>3, <2>2 DEF CopyOK
    <3>2. (\E j \in 1 .. i : o \in FileBytes(j))
            <=> o \in FileBytes(i) \/ \E j \in 1 .. i - 1 : o \in FileBytes(j)
      BY <1>2, <1>4
    <3>3. o \in FileBytes(i) => Loaded(o) = Content(s.source + (o - s.offset))
      BY <1>1, <1>4 DEF ScanTells
    <3> QED  BY <1>5, <3>1, <3>2, <3>3
  <2>3. ~ touched' =>
          \A o \in Arena' :
            arena'[o] = IF \E j \in 1 .. call'.next - 1 : o \in FileBytes(j)'
                          THEN Loaded(o)' ELSE 0
    <3>1. call'.next - 1 = i
      BY <1>4, <1>7
    <3> QED  BY <1>5, <1>8, <2>2, <3>1, PlanFixed
  <2> QED  BY <1>4, <1>5, <1>8, <2>1, <2>3 DEF CopyOK
<1>11. CallOK' /\ OuterOK' /\ ViewsOK' /\ UntouchedOK' /\ IdleOK'
  BY <1>7 DEF CallOK, OuterOK, ViewsOK, UntouchedOK, IdleOK, Idle, At
<1>12. ReportedOK'
  BY <1>4, <1>5 DEF ReportedOK
<1>13. StagingWith'
  BY <1>9, <1>10, <1>11, <1>12 DEF StagingWith
<1> QED  BY <1>5, <1>13, PlanKept

\* A verification starts with nothing read and nothing counted.
LEMMA VerificationBegins ==
  ASSUME StagingInv, plan # None, planVars' = planVars, arena' = arena, touched' = touched,
         Whole, BeginVerify,
         DOMAIN reads' = Arena, \A o \in Arena : reads'[o] \in Nat,
         reported' \in {<<>>, <<"DestinationInitialized", "SegmentsCopied">>},
         ~ touched => \A o \in Arena : arena[o] = Loaded(o)
  PROVE  StagingInv'
<1>1. SegmentsInOrder
  BY SegmentsAreInOrder DEF StagingInv
<1>2. Len(plan.segments) \in Nat /\ plan' = plan
  BY <1>1 DEF SegmentsInOrder, Enumerates, planVars
<1>3. call' = [step |-> "outer", next |-> 1, end |-> 0] /\ counts' = ZeroCounts
  BY DEF BeginVerify, Enter
<1>4. /\ call' # None /\ call'.step = "outer" /\ call'.next = 1 /\ call'.end = 0
      /\ call' \in [step : {"copy", "outer", "views"}, next : Nat, end : Nat]
  BY <1>3, CallsAreRecords
<1>5. Arena' = Arena /\ Whole'
  BY <1>2 DEF Arena, Whole
<1>6. SliceOK'
  BY <1>3, <1>5 DEF StagingInv, SliceOK, ZeroCounts
<1>7. Confirmed(0)'
  <2>1. Bytes(0, 0) = {}
    BY DEF Bytes
  <2>2. Cardinality({}) = 0
    BY FS_EmptySet
  <2> PICK f : f = {o \in Bytes(0, 0) : IsFile(o)}
    OBVIOUS
  <2> PICK t : t = {o \in Bytes(0, 0) : IsTail(o)}
    OBVIOUS
  <2>3. f = {} /\ t = {}
    BY <2>1
  <2>4. counts'.copied = Cardinality(f) /\ counts'.tails = Cardinality(t)
        /\ counts'.copied + counts'.tails + counts'.holes = 0
    <3>1. counts'.copied = 0 /\ counts'.tails = 0 /\ counts'.holes = 0
      BY <1>3 DEF ZeroCounts
    <3>2. Cardinality(f) = 0 /\ Cardinality(t) = 0
      BY <2>2, <2>3, Zenon
    <3> QED  BY <3>1, <3>2
  <2>5. \A o \in Bytes(0, 0) :
          reads'[o] > 0 /\ (o \notin disturbed' => arena'[o] = Loaded(o))
    BY <2>1
  <2>6. ConfirmedBy(0, reads', disturbed', arena', counts')
    BY <2>4, <2>5 DEF ConfirmedBy
  <2> QED  BY <2>6, ConfirmedNext
<1>8. Confirmed(call.end)'
  <2> PICK e : e = call'.end
    OBVIOUS
  <2>1. Confirmed(e)'
    BY <1>4, <1>7
  <2> QED  BY <2>1
<1>9. OuterOK'
  <2>1. call'.next \in 1 .. Len(plan'.segments) + 1
    BY <1>2, <1>4
  <2>2. call'.end = ScanEnd(call.next - 1)'
    BY <1>4 DEF ScanEnd
  <2>3. counts'.headers = 0 /\ counts'.compared = 0
    BY <1>3 DEF ZeroCounts
  <2> QED  BY <1>5, <1>8, <2>1, <2>2, <2>3 DEF OuterOK
<1>10. UntouchedOK'
  BY <1>5, PlanFixed DEF UntouchedOK
<1>11. CallOK' /\ CopyOK' /\ ViewsOK' /\ IdleOK'
  BY <1>4 DEF CallOK, CopyOK, ViewsOK, IdleOK, Idle, At
<1>12. ReportedOK'
  BY DEF ReportedOK
<1>13. StagingWith'
  BY <1>6, <1>9, <1>10, <1>11, <1>12 DEF StagingWith
<1> QED  BY <1>13, PlanKept

\* Where no segment copies anything, the loader's arena is zero.
LEMMA UncopiedIsZero ==
  ASSUME PlanOK, NEW o \in Nat,
         ~ \E i \in 1 .. Len(plan.segments) : o \in FileBytes(i)
  PROVE  Loaded(o) = 0
<1>1. SegmentsInOrder
  BY SegmentsAreInOrder
<1>2. ~ \E s \in OuterMappings : s.offset <= o /\ o < s.offset + s.size
  <2> SUFFICES ASSUME NEW s \in OuterMappings, s.offset <= o, o < s.offset + s.size
               PROVE  FALSE
    OBVIOUS
  <2>1. PICK i \in 1 .. Len(plan.segments) : plan.segments[i] = s
    BY <1>1 DEF SegmentsInOrder, Enumerates
  <2>2. s.offset \in Nat /\ s.size \in Nat
    BY OuterMappingFields
  <2>3. o \in Bytes(s.offset, s.offset + s.size)
    BY <2>2 DEF Bytes
  <2> QED  BY <2>1, <2>3 DEF FileBytes
<1>3. FilesAt(Outer, plan.base + o) = {}
  BY <1>2, LoadedByMappings
<1> QED  BY <1>3 DEF Loaded, LoadedAt

LEMMA SegmentsCopiedKeeps ==
  ASSUME StagingInv, plan # None, SegmentsCopied
  PROVE  StagingInv'
<1> PICK n : n = Len(plan.segments)
  OBVIOUS
<1>1. SegmentsInOrder /\ PlanOK
  BY SegmentsAreInOrder DEF StagingInv
<1>2. n \in Nat /\ plan.size \in Nat
  BY <1>1 DEF SegmentsInOrder, Enumerates
<1>3. At("copy") /\ call.next > n /\ CopyOK /\ SliceOK
  BY DEF SegmentsCopied, StagingInv
<1>4. Whole /\ call.next \in 1 .. n + 1 /\ reported = <<"DestinationInitialized">>
  BY <1>3 DEF CopyOK
<1>5. call.next - 1 = n
  BY <1>2, <1>3, <1>4
<1>6. /\ planVars' = planVars /\ arena' = arena /\ reads' = reads /\ touched' = touched
      /\ BeginVerify
      /\ reported' = <<"DestinationInitialized", "SegmentsCopied">>
  <2>1. reported' = Append(reported, "SegmentsCopied")
    BY DEF SegmentsCopied, Observe
  <2>2. reported' = <<"DestinationInitialized", "SegmentsCopied">>
    BY <1>4, <2>1, ReportedGrows, Zenon
  <2>3. planVars' = planVars /\ arena' = arena /\ reads' = reads /\ touched' = touched
    BY DEF SegmentsCopied, historyVars
  <2>4. BeginVerify
    BY DEF SegmentsCopied
  <2> QED  BY <2>2, <2>3, <2>4
<1>7. DOMAIN reads' = Arena /\ \A o \in Arena : reads'[o] \in Nat
  BY <1>3, <1>6 DEF SliceOK
<1>8. ASSUME ~ touched, NEW o \in Arena
      PROVE  arena[o] = Loaded(o)
  <2>1. arena[o] = IF \E i \in 1 .. n : o \in FileBytes(i) THEN Loaded(o) ELSE 0
    BY <1>3, <1>5, <1>8 DEF CopyOK
  <2>2. o \in Nat
    BY <1>2, <1>4 DEF Whole, Bytes
  <2>3. ~ (\E i \in 1 .. n : o \in FileBytes(i)) => Loaded(o) = 0
    BY <1>1, <2>2, UncopiedIsZero
  <2> QED  BY <2>1, <2>3
<1> QED  BY <1>4, <1>6, <1>7, <1>8, VerificationBegins

LEMMA VerifyKeeps ==
  ASSUME StagingInv, Verify
  PROVE  StagingInv'
<1>1. plan # None /\ Idle /\ SliceOK /\ UntouchedOK /\ PlanOK /\ call = None
  BY DEF StagingInv, Verify, Idle
<1>2. /\ planVars' = planVars /\ arena' = arena /\ touched' = touched
      /\ reads' = [o \in Arena |-> 0] /\ reported' = <<>>
  BY DEF Verify
<1>3. DOMAIN reads' = Arena /\ \A o \in Arena : reads'[o] \in Nat
  BY <1>2
<1>4. plan.size \in Nat
  BY <1>1, SegmentsAreInOrder DEF SegmentsInOrder
<1>5. CASE Cardinality(Arena) # plan.size
  <2>1. call' = None /\ result' = "DestinationSize" /\ counts' = counts
    BY <1>5 DEF Verify, Return
  <2>2. SliceOK'
    BY <1>1, <1>2, <1>3, <2>1 DEF SliceOK, Arena
  <2>3. UntouchedOK'
    <3>1. Whole' = Whole /\ Arena' = Arena
      BY <1>2, PlanFixed DEF Whole, Arena
    <3> QED  BY <1>1, <1>2, <3>1, PlanFixed DEF UntouchedOK, At
  <2>4. CallOK' /\ CopyOK' /\ OuterOK' /\ ViewsOK' /\ IdleOK'
    BY <2>1 DEF CallOK, CopyOK, OuterOK, ViewsOK, IdleOK, Idle, At
  <2>5. ReportedOK'
    BY <1>2 DEF ReportedOK
  <2>6. StagingWith'
    BY <2>2, <2>3, <2>4, <2>5 DEF StagingWith
  <2> QED  BY <1>1, <1>2, <2>6, PlanKept
<1>6. CASE Cardinality(Arena) = plan.size
  <2>1. Whole
    <3>1. PICK m \in Nat : Arena = Bytes(0, m)
      BY <1>1 DEF SliceOK
    <3>2. Cardinality(Arena) = m
      BY <3>1, BytesAreFinite
    <3> QED  BY <1>6, <3>1, <3>2 DEF Whole
  <2>2. BeginVerify
    BY <1>6 DEF Verify
  <2>3. ~ touched => \A o \in Arena : arena[o] = Loaded(o)
    BY <1>1 DEF UntouchedOK, At
  <2> QED  BY <1>1, <1>2, <1>3, <2>1, <2>2, <2>3, VerificationBegins
<1> QED  BY <1>5, <1>6

LEMMA DisturbKeeps ==
  ASSUME StagingInv, NEW o \in Arena, Disturb(o)
  PROVE  StagingInv'
<1>1. plan # None
  BY DEF StagingInv, Unplanned, Arena
<1>2. /\ CallOK /\ SliceOK /\ CopyOK /\ OuterOK /\ ViewsOK
      /\ UntouchedOK /\ IdleOK /\ ReportedOK
  BY <1>1 DEF StagingInv
<1>3. PICK byte : arena' = [arena EXCEPT ![o] = byte]
  BY DEF Disturb
<1>4. /\ planVars' = planVars /\ plan' = plan /\ call' = call /\ counts' = counts
      /\ reported' = reported /\ result' = result /\ reads' = reads
      /\ disturbed' = disturbed \cup {o} /\ touched' = TRUE
  BY DEF Disturb, planVars
<1>5. Arena' = Arena
  BY <1>3 DEF Arena
<1>6. Whole' = Whole
  BY <1>4, <1>5 DEF Whole
<1>7. SliceOK'
  BY <1>2, <1>4, <1>5 DEF SliceOK
<1>8. ASSUME NEW e, Confirmed(e), Bytes(0, e) \subseteq Arena
      PROVE  Confirmed(e)'
  <2>1. ASSUME NEW p \in Bytes(0, e)
        PROVE  reads'[p] > 0 /\ (p \notin disturbed' => arena'[p] = Loaded(p))
    <3>1. reads[p] > 0 /\ (p \notin disturbed => arena[p] = Loaded(p))
      BY <1>8 DEF Confirmed
    <3>2. p \notin disturbed' => p \notin disturbed /\ p # o
      BY <1>4
    <3>3. p # o => arena'[p] = arena[p]
      BY <1>3, <1>8 DEF Arena
    <3> QED  BY <1>4, <3>1, <3>2, <3>3
  <2>2. ConfirmedBy(e, reads', disturbed', arena', counts')
    BY <1>4, <1>8, <2>1 DEF ConfirmedBy, Confirmed
  <2> QED  BY <1>4, <2>2, ConfirmedNext
<1>9. \A n : ViewsConfirmed(n) => ViewsConfirmed(n)'
  BY <1>4, PlanFixed DEF ViewsConfirmed
<1>10. plan.size \in Nat /\ Len(plan.segments) \in Nat
  BY <1>1, SegmentsAreInOrder DEF StagingInv, SegmentsInOrder, Enumerates
<1>11. CallOK'
  BY <1>2, <1>4 DEF CallOK, Idle
<1>12. CopyOK'
  BY <1>2, <1>4, <1>6 DEF CopyOK, At
<1>13. OuterOK'
  <2> SUFFICES ASSUME At("outer")
               PROVE  OuterOK'
    BY <1>4 DEF OuterOK, At
  <2> PICK e : e = call.end
    OBVIOUS
  <2>1. /\ Whole /\ call.next \in 1 .. Len(plan.segments) + 1 /\ e = ScanEnd(call.next - 1)
        /\ reported \in {<<>>, <<"DestinationInitialized", "SegmentsCopied">>}
        /\ Confirmed(e) /\ counts.headers = 0 /\ counts.compared = 0
    BY <1>2 DEF OuterOK
  <2>2. e \in Nat /\ e <= plan.size
    BY <1>1, <1>10, <2>1, ScanEndsInside DEF StagingInv
  <2>3. Bytes(0, e) \subseteq Arena
    BY <1>10, <2>1, <2>2 DEF Whole, Bytes
  <2>4. Confirmed(e)'
    BY <1>8, <2>1, <2>3
  <2>5. Confirmed(call.end)'
    <3>1. e = call'.end
      BY <1>4
    <3> QED  BY <2>4, <3>1
  <2>6. ScanEnd(call.next - 1)' = ScanEnd(call.next - 1)
    BY <1>4 DEF ScanEnd
  <2> QED  BY <1>4, <1>6, <2>1, <2>5, <2>6 DEF OuterOK
<1>14. Whole => Bytes(0, plan.size) \subseteq Arena
  BY DEF Whole
<1>15. (Confirmed(plan.size) /\ Whole) => Confirmed(plan.size)'
  <2> SUFFICES ASSUME Confirmed(plan.size), Whole
               PROVE  Confirmed(plan.size)'
    OBVIOUS
  <2> PICK e : e = plan.size
    OBVIOUS
  <2>1. Confirmed(e)'
    BY <1>8, <1>14
  <2>2. e = plan'.size
    BY <1>4
  <2> QED  BY <2>1, <2>2
<1>16. ViewsOK'
  <2> SUFFICES ASSUME At("views")
               PROVE  ViewsOK'
    BY <1>4 DEF ViewsOK, At
  <2>1. Confirmed(plan.size)' /\ Whole'
    BY <1>2, <1>6, <1>15 DEF ViewsOK
  <2>2. ViewsConfirmed(call.next)'
    <3> PICK n : n = call.next
      OBVIOUS
    <3>1. ViewsConfirmed(n)'
      BY <1>2, <1>9 DEF ViewsOK
    <3>2. n = call'.next
      BY <1>4
    <3> QED  BY <3>1, <3>2
  <2> QED  BY <1>2, <1>4, <2>1, <2>2 DEF ViewsOK
<1>17. UntouchedOK'
  BY <1>4 DEF UntouchedOK
<1>18. IdleOK'
  <2> SUFFICES ASSUME Idle, result = "Ok"
               PROVE  Whole' /\ Confirmed(plan.size)'
                        /\ ViewsConfirmed(Len(plan.views) + 1)'
    BY <1>4 DEF IdleOK, Idle
  <2>1. Whole' /\ Confirmed(plan.size)'
    BY <1>2, <1>6, <1>15 DEF IdleOK
  <2>2. ViewsConfirmed(Len(plan.views) + 1)'
    <3> PICK n : n = Len(plan.views) + 1
      OBVIOUS
    <3>1. ViewsConfirmed(n)'
      BY <1>2, <1>9 DEF IdleOK
    <3>2. n = Len(plan'.views) + 1
      BY <1>4
    <3> QED  BY <3>1, <3>2
  <2> QED  BY <2>1, <2>2
<1>19. ReportedOK'
  <2>1. MemberBytes' = MemberBytes
    BY <1>4, PlanFixed
  <2> QED  BY <1>2, <1>4, <1>5, <2>1 DEF ReportedOK, Idle
<1>20. StagingWith'
  BY <1>7, <1>11, <1>12, <1>13, <1>16, <1>17, <1>18, <1>19 DEF StagingWith
<1> QED  BY <1>1, <1>4, <1>20, PlanKept

\* Three ranges of bytes in a row are one.
LEMMA BytesInARow ==
  ASSUME NEW a \in Nat, NEW b \in Nat, NEW c \in Nat, NEW d \in Nat,
         a <= b, b <= c, c <= d
  PROVE  /\ Bytes(a, b) \cup Bytes(b, c) \cup Bytes(c, d) = Bytes(a, d)
         /\ Bytes(a, b) \cup Bytes(b, d) = Bytes(a, d)
<1>1. \A o : o \in Bytes(a, b) \cup Bytes(b, c) \cup Bytes(c, d) <=> o \in Bytes(a, d)
  BY DEF Bytes
<1>2. \A o : o \in Bytes(a, b) \cup Bytes(b, d) <=> o \in Bytes(a, d)
  BY DEF Bytes
<1> QED  BY <1>1, <1>2

\* A mismatch ends the call, and may be reported of a touched slice only.
LEMMA MismatchKeeps ==
  ASSUME StagingInv, plan # None, ~ Idle, touched, Mismatch
  PROVE  StagingInv'
<1>1. /\ planVars' = planVars /\ arena' = arena /\ counts' = counts /\ reported' = reported
      /\ reads' = reads /\ disturbed' = disturbed /\ touched' = touched
      /\ call' = None /\ result' = "ReadbackMismatch"
  BY DEF Mismatch, Return, historyVars
<1>2. SliceOK /\ ReportedOK
  BY DEF StagingInv
<1>3. SliceOK'
  BY <1>1, <1>2, SliceFixed
<1>4. CallOK' /\ CopyOK' /\ OuterOK' /\ ViewsOK' /\ UntouchedOK' /\ IdleOK'
  BY <1>1 DEF CallOK, CopyOK, OuterOK, ViewsOK, UntouchedOK, IdleOK, Idle, At
<1>5. ReportedOK'
  <2>1. ASSUME NEW n \in DOMAIN reported
        PROVE  /\ reported[n] = "ArenaVerified" => \A o \in Arena : reads[o] > 0
               /\ reported[n] # "MemberViewsVerified"
    BY <1>2 DEF ReportedOK
  <2>2. Arena' = Arena
    BY <1>1 DEF Arena
  <2> QED  BY <1>1, <1>2, <2>1, <2>2 DEF ReportedOK
<1>6. StagingWith'
  BY <1>3, <1>4, <1>5 DEF StagingWith
<1> QED  BY <1>1, <1>6, PlanKept

\* The segment that the scan of the arena comes to next.
SegmentAhead ==
  /\ call.next \in 1 .. Len(plan.segments)
  /\ call.end \in Nat /\ call.end = ScanEnd(call.next - 1)
  /\ Segment.offset \in Nat /\ Segment.memory \in Nat
  /\ Segment.size \in Nat /\ Segment.source \in Nat
  /\ call.end <= Segment.offset /\ Segment.size <= Segment.memory
  /\ Segment.offset + Segment.memory <= plan.size /\ plan.size \in Nat
  /\ HoleBefore = Bytes(call.end, Segment.offset)
  /\ Copied = FileBytes(call.next) /\ ZeroTail = PaddingBytes(call.next)
  /\ HoleBefore \cup Copied \cup ZeroTail
       = Bytes(call.end, Segment.offset + Segment.memory)
  /\ Arena = Bytes(0, plan.size)
  /\ HoleBefore \cup Copied \cup ZeroTail \subseteq Arena

LEMMA SegmentIsAhead ==
  ASSUME PlanOK, OuterOK, At("outer"), call.next <= Len(plan.segments)
  PROVE  SegmentAhead
<1> PICK i : i = call.next
  OBVIOUS
<1> PICK e : e = call.end
  OBVIOUS
<1> PICK s : s = Segment
  OBVIOUS
<1> PICK n : n = Len(plan.segments)
  OBVIOUS
<1>1. SegmentsInOrder /\ ScanTells
  BY SegmentsAreInOrder, SegmentsAreLoaded
<1>2. n \in Nat /\ plan.size \in Nat
  BY <1>1 DEF SegmentsInOrder, Enumerates
<1>3. i \in 1 .. n /\ e = ScanEnd(i - 1) /\ Arena = Bytes(0, plan.size)
  BY <1>2 DEF OuterOK, Whole
<1>4. /\ s = plan.segments[i]
      /\ s.offset \in Nat /\ s.memory \in Nat /\ s.size \in Nat /\ s.source \in Nat
      /\ s.size <= s.memory /\ s.offset + s.memory <= plan.size
  BY <1>1, <1>3 DEF SegmentsInOrder, Segment
<1>5. e \in Nat /\ e <= s.offset
  BY <1>1, <1>3, <1>4 DEF ScanTells
<1>6. /\ HoleBefore = Bytes(e, s.offset)
      /\ Copied = Bytes(s.offset, s.offset + s.size)
      /\ ZeroTail = Bytes(s.offset + s.size, s.offset + s.memory)
  BY DEF HoleBefore, Copied, ZeroTail
<1>7. Copied = FileBytes(i) /\ ZeroTail = PaddingBytes(i)
  BY <1>4, <1>6 DEF FileBytes, PaddingBytes
<1>8. /\ HoleBefore \cup Copied \cup ZeroTail = Bytes(e, s.offset + s.memory)
      /\ HoleBefore \cup Copied \cup ZeroTail \subseteq Arena
  <2> PICK a : a = s.offset
    OBVIOUS
  <2> PICK m : m = s.memory
    OBVIOUS
  <2> PICK z : z = s.size
    OBVIOUS
  <2> PICK b : b = s.offset + s.size
    OBVIOUS
  <2> PICK c : c = s.offset + s.memory
    OBVIOUS
  <2>0. a \in Nat /\ m \in Nat /\ z \in Nat /\ z <= m /\ a + m <= plan.size
        /\ b = a + z /\ c = a + m /\ e <= a
    BY <1>4, <1>5
  <2>1. b \in Nat /\ c \in Nat /\ a <= b /\ b <= c /\ c <= plan.size
    BY <2>0, <1>2
  <2>2. Bytes(e, a) \cup Bytes(a, b) \cup Bytes(b, c) = Bytes(e, c)
    BY ONLY <1>5, <2>0, <2>1, BytesInARow
  <2>3. Bytes(e, c) \subseteq Bytes(0, plan.size)
    BY <1>2, <1>5, <2>1 DEF Bytes
  <2> QED  BY <1>3, <1>6, <2>2, <2>3
<1> QED  BY <1>2, <1>3, <1>4, <1>5, <1>6, <1>7, <1>8 DEF SegmentAhead

\* A slice that nobody touched holds its segments.
LEMMA SegmentsHoldUntouched ==
  ASSUME PlanOK, UntouchedOK, SegmentAhead, ~ touched, ~ At("copy")
  PROVE  SegmentHolds
<1>1. ScanTells
  BY SegmentsAreLoaded
<1>2. \A o \in Arena : arena[o] = Loaded(o)
  BY DEF UntouchedOK
<1> PICK i : i = call.next
  OBVIOUS
<1>3. /\ HoleBefore \cup Copied \cup ZeroTail \subseteq Arena
      /\ i \in 1 .. Len(plan.segments) /\ Segment = plan.segments[i]
      /\ HoleBefore = Bytes(ScanEnd(i - 1), Segment.offset)
      /\ Copied = FileBytes(i) /\ ZeroTail = PaddingBytes(i)
  BY DEF SegmentAhead, Segment
<1>4. IsZero(HoleBefore)
  BY <1>1, <1>2, <1>3 DEF IsZero, ScanTells
<1>5. IsSource(Copied, Segment.offset, Segment.source)
  BY <1>1, <1>2, <1>3 DEF IsSource, ScanTells
<1>6. IsZero(ZeroTail)
  BY <1>1, <1>2, <1>3 DEF IsZero, ScanTells
<1> QED  BY <1>4, <1>5, <1>6 DEF SegmentHolds

\* Between two offsets the bytes of a kind lie in one run.
IsRun(F, a, b, c, d) ==
  /\ a \in Nat /\ b \in Nat /\ c \in Nat /\ d \in Nat
  /\ a <= b /\ b <= c /\ c <= d
  /\ \A o \in Bytes(a, b) : o \notin F
  /\ \A o \in Bytes(b, c) : o \in F
  /\ \A o \in Bytes(c, d) : o \notin F

CountGrows(F, a, d, n) ==
  /\ Cardinality(Bytes(0, a) \cap F) \in Nat
  /\ Cardinality(Bytes(0, d) \cap F) = Cardinality(Bytes(0, a) \cap F) + n

LEMMA RunIsCounted ==
  ASSUME NEW F, NEW a, NEW b, NEW c, NEW d, IsRun(F, a, b, c, d)
  PROVE  CountGrows(F, a, d, c - b)
<1> USE DEF IsRun
<1> PICK f : f = Bytes(0, a) \cap F
  OBVIOUS
<1> PICK r : r = Bytes(b, c)
  OBVIOUS
<1>1. Bytes(0, d) \cap F = f \cup r
  <2>1. \A o : o \in Bytes(0, d)
                 <=> o \in Bytes(0, a) \/ o \in Bytes(a, b) \/ o \in r \/ o \in Bytes(c, d)
    BY DEF Bytes
  <2> QED  BY <2>1
<1>2. f \cap r = {}
  <2>1. Bytes(0, a) \cap r = {}
    BY DEF Bytes
  <2> QED  BY <2>1
<1>3. IsFiniteSet(r) /\ Cardinality(r) = c - b
  BY BytesAreFinite
<1>4. IsFiniteSet(f)
  <2>1. IsFiniteSet(Bytes(0, a))
    BY BytesAreFinite
  <2> QED  BY <2>1, FS_Subset
<1>5. Cardinality(f) \in Nat
  BY <1>4, FS_CardinalityType
<1>6. Cardinality(f \cup r) = Cardinality(f) + Cardinality(r)
  BY <1>2, <1>3, <1>4, DisjointUnion
<1> QED  BY <1>1, <1>3, <1>5, <1>6 DEF CountGrows

\* What one segment adds to the counts.
LEMMA SegmentIsCounted ==
  ASSUME PlanOK, SegmentAhead
  PROVE  LET end == Segment.offset + Segment.memory IN
         /\ Cardinality({o \in Bytes(0, end) : IsFile(o)})
              = Cardinality({o \in Bytes(0, call.end) : IsFile(o)}) + Segment.size
         /\ Cardinality({o \in Bytes(0, end) : IsTail(o)})
              = Cardinality({o \in Bytes(0, call.end) : IsTail(o)})
                  + (Segment.memory - Segment.size)
         /\ Cardinality({o \in Bytes(0, call.end) : IsFile(o)}) \in Nat
         /\ Cardinality({o \in Bytes(0, call.end) : IsTail(o)}) \in Nat
<1>0. PICK a, b, c, d, F, T :
        /\ a = call.end /\ b = Segment.offset
        /\ c = Segment.offset + Segment.size /\ d = Segment.offset + Segment.memory
        /\ F = {o \in Nat : IsFile(o)} /\ T = {o \in Nat : IsTail(o)}
  OBVIOUS
<1>1. ScanTells
  BY SegmentsAreLoaded
<1>2. /\ a \in Nat /\ b \in Nat /\ c \in Nat /\ d \in Nat
      /\ a <= b /\ b <= c /\ c <= d
      /\ c - b = Segment.size /\ d - c = Segment.memory - Segment.size
  <2>0. PICK m, z : m = Segment.memory /\ z = Segment.size
    OBVIOUS
  <2>1. a \in Nat /\ b \in Nat /\ m \in Nat /\ z \in Nat /\ a <= b /\ z <= m
    BY <1>0, <2>0 DEF SegmentAhead
  <2>2. c = b + z /\ d = b + m
    BY <1>0, <2>0
  <2>3. c \in Nat /\ d \in Nat /\ b <= c /\ c <= d /\ c - b = z /\ d - c = m - z
    BY <2>1, <2>2
  <2> QED  BY <2>0, <2>1, <2>3
<1>3. /\ \A o \in Bytes(a, b) : ~ IsFile(o) /\ ~ IsTail(o)
      /\ \A o \in Bytes(b, c) : IsFile(o) /\ ~ IsTail(o)
      /\ \A o \in Bytes(c, d) : ~ IsFile(o) /\ IsTail(o)
  <2> PICK i \in 1 .. Len(plan.segments) : i = call.next
    BY DEF SegmentAhead
  <2>1. /\ Bytes(a, b) = Bytes(ScanEnd(i - 1), plan.segments[i].offset)
        /\ Bytes(b, c) = FileBytes(i) /\ Bytes(c, d) = PaddingBytes(i)
    BY <1>0 DEF SegmentAhead, Segment, FileBytes, PaddingBytes
  <2>2. \A o \in Bytes(a, b) : IsHole(o)
    BY <1>1, <2>1 DEF ScanTells
  <2>3. \A o \in Bytes(b, c) : IsFile(o)
    BY <1>1, <2>1 DEF ScanTells
  <2>4. \A o \in Bytes(c, d) : IsTail(o)
    BY <1>1, <2>1 DEF ScanTells
  <2> QED  BY <2>2, <2>3, <2>4 DEF IsHole, IsFile, IsTail
<1>4. \A o : (o \in Bytes(a, b) \/ o \in Bytes(b, c) \/ o \in Bytes(c, d)
              \/ o \in Bytes(0, a) \/ o \in Bytes(0, d)) => o \in Nat
  BY <1>2 DEF Bytes
<1>5. /\ \A o \in Bytes(a, b) : o \notin F /\ o \notin T
      /\ \A o \in Bytes(b, c) : o \in F /\ o \notin T
      /\ \A o \in Bytes(c, d) : o \notin F /\ o \in T
  BY <1>0, <1>3, <1>4
<1>6. CountGrows(F, a, d, c - b)
  <2>1. IsRun(F, a, b, c, d)
    BY <1>2, <1>5 DEF IsRun
  <2> QED  BY <2>1, RunIsCounted
<1>7. CountGrows(T, a, d, d - c)
  <2>1. \A o \in Bytes(a, c) : o \notin T
    <3>1. \A o \in Bytes(a, c) : o \in Bytes(a, b) \/ o \in Bytes(b, c)
      BY <1>2 DEF Bytes
    <3> QED  BY <1>5, <3>1
  <2>2. \A o \in Bytes(d, d) : o \notin T
    BY <1>2 DEF Bytes
  <2>3. a <= c /\ d <= d
    BY <1>2
  <2>4. IsRun(T, a, c, d, d)
    BY <1>2, <1>5, <2>1, <2>2, <2>3 DEF IsRun
  <2> QED  BY <2>4, RunIsCounted
<1>8. /\ {o \in Bytes(0, a) : IsFile(o)} = Bytes(0, a) \cap F
      /\ {o \in Bytes(0, d) : IsFile(o)} = Bytes(0, d) \cap F
      /\ {o \in Bytes(0, a) : IsTail(o)} = Bytes(0, a) \cap T
      /\ {o \in Bytes(0, d) : IsTail(o)} = Bytes(0, d) \cap T
  BY <1>0, <1>4
<1> QED  BY <1>0, <1>2, <1>6, <1>7, <1>8 DEF CountGrows

\* What a step of a verification reads counts as read, and as confirmed where
\* it holds what a loader would put there.
LEMMA ReadConfirms ==
  ASSUME SliceOK, NEW B, B \subseteq Arena, Read(B), arena' = arena,
         NEW e, NEW D, \A o \in D : o \in Bytes(0, e) \/ o \in B,
         \A o \in Bytes(0, e) : reads[o] > 0 /\ (o \notin disturbed => arena[o] = Loaded(o)),
         \A o \in B : arena[o] = Loaded(o), Bytes(0, e) \subseteq Arena
  PROVE  /\ \A o \in D : reads'[o] > 0 /\ (o \notin disturbed' => arena'[o] = Loaded(o))
         /\ DOMAIN reads' = Arena /\ \A o \in Arena : reads'[o] \in Nat
         /\ \A o \in Arena : reads'[o] >= reads[o] /\ (o \in B => reads'[o] = reads[o] + 1)
         /\ touched' = touched
<1>1. /\ reads' = [o \in Arena |-> IF o \in B THEN reads[o] + 1 ELSE reads[o]]
      /\ disturbed' = disturbed \ B /\ touched' = touched
  BY DEF Read
<1>2. \A o \in Arena : reads[o] \in Nat
  BY DEF SliceOK
<1>3. \A o \in Arena : /\ reads'[o] \in Nat /\ reads'[o] >= reads[o]
                       /\ o \in B => reads'[o] = reads[o] + 1
  BY <1>1, <1>2
<1>4. ASSUME NEW o \in D
      PROVE  reads'[o] > 0 /\ (o \notin disturbed' => arena'[o] = Loaded(o))
  <2>1. CASE o \in B
    <3>1. o \in Arena /\ reads[o] \in Nat /\ reads'[o] = reads[o] + 1
      BY <1>2, <1>3, <2>1
    <3> QED  BY <2>1, <3>1
  <2>2. CASE o \notin B
    <3>1. o \in Bytes(0, e) /\ o \in Arena
      BY <1>4, <2>2
    <3>2. reads'[o] = reads[o] /\ (o \notin disturbed' => o \notin disturbed)
      BY <1>1, <2>2, <3>1
    <3> QED  BY <3>1, <3>2
  <2> QED  BY <2>1, <2>2
<1> QED  BY <1>1, <1>3, <1>4

LEMMA CountsAdded ==
  ASSUME NEW c \in [copied : Nat, tails : Nat, holes : Nat, headers : Nat,
                   segments : Nat, compared : Nat],
         NEW x \in Nat, NEW y \in Nat, NEW z \in Nat, NEW d,
         d = [c EXCEPT !.copied = @ + x, !.tails = @ + y, !.holes = @ + z]
  PROVE  /\ d.copied = c.copied + x /\ d.tails = c.tails + y /\ d.holes = c.holes + z
         /\ d.headers = c.headers /\ d.compared = c.compared
         /\ d \in [copied : Nat, tails : Nat, holes : Nat, headers : Nat,
                   segments : Nat, compared : Nat]
<1>1. /\ d.copied = c.copied + x /\ d.tails = c.tails + y /\ d.holes = c.holes + z
      /\ d.headers = c.headers /\ d.compared = c.compared
  OBVIOUS
<1>2. d = [copied |-> c.copied + x, tails |-> c.tails + y, holes |-> c.holes + z,
           headers |-> c.headers, segments |-> c.segments, compared |-> c.compared]
  OBVIOUS
<1>3. c.copied + x \in Nat /\ c.tails + y \in Nat /\ c.holes + z \in Nat
      /\ c.headers \in Nat /\ c.segments \in Nat /\ c.compared \in Nat
  OBVIOUS
<1> QED  BY <1>1, <1>2, <1>3

LEMMA VerifySegmentKeeps ==
  ASSUME StagingInv, plan # None, VerifySegment
  PROVE  StagingInv'
<1>1. /\ At("outer") /\ call.next <= Len(plan.segments) /\ PlanOK /\ CallOK /\ SliceOK
      /\ OuterOK /\ UntouchedOK /\ ReportedOK
  BY DEF StagingInv, VerifySegment
<1>2. SegmentAhead /\ ~ Idle /\ ~ At("copy") /\ Confirmed(call.end)
  BY <1>1, SegmentIsAhead DEF At, Idle, OuterOK
<1>3. CASE ~ SegmentHolds
  <2>1. touched
    BY <1>1, <1>2, <1>3, SegmentsHoldUntouched
  <2>2. Mismatch
    BY <1>3 DEF VerifySegment
  <2> QED  BY <1>2, <2>1, <2>2, MismatchKeeps
<1>4. CASE SegmentHolds
  <2>0. PICK e, off, size, memory, i, B :
          /\ e = call.end /\ off = Segment.offset /\ size = Segment.size
          /\ memory = Segment.memory /\ i = call.next
          /\ B = HoleBefore \cup Copied \cup ZeroTail
    OBVIOUS
  <2>1. /\ Read(B)
        /\ counts' = [counts EXCEPT !.copied = @ + size, !.tails = @ + (memory - size),
                                    !.holes = @ + (off - e)]
        /\ call' = [call EXCEPT !.next = @ + 1, !.end = off + memory]
        /\ planVars' = planVars /\ plan' = plan /\ arena' = arena
        /\ reported' = reported /\ result' = result
    BY <1>4, <2>0 DEF VerifySegment, planVars
  <2>2. /\ i \in 1 .. Len(plan.segments) /\ e \in Nat /\ off \in Nat /\ memory \in Nat
        /\ size \in Nat /\ e <= off /\ size <= memory
        /\ B = Bytes(e, off + memory) /\ B \subseteq Arena
        /\ Arena = Bytes(0, plan.size) /\ off + memory <= plan.size /\ plan.size \in Nat
    BY <1>2, <2>0 DEF SegmentAhead
  <2>3. PICK end : end = off + memory /\ end \in Nat /\ e <= end
    BY <2>2
  <2>4. ScanEnd(i) = end
    BY <2>0, <2>2, <2>3 DEF ScanEnd, Segment
  <2>5. \A o \in B : arena[o] = Loaded(o)
    <3>1. IsZero(HoleBefore) /\ IsSource(Copied, Segment.offset, Segment.source)
          /\ IsZero(ZeroTail)
      BY <1>4 DEF SegmentHolds
    <3>2. /\ HoleBefore = Bytes(ScanEnd(i - 1), plan.segments[i].offset)
          /\ Copied = FileBytes(i) /\ ZeroTail = PaddingBytes(i)
          /\ Segment = plan.segments[i]
      BY <1>2, <2>0 DEF SegmentAhead, Segment
    <3>3. ScanTells
      BY <1>1, SegmentsAreLoaded
    <3>4. \A o \in HoleBefore : arena[o] = Loaded(o)
      BY <2>2, <3>1, <3>2, <3>3 DEF IsZero, ScanTells
    <3>5. \A o \in Copied : arena[o] = Loaded(o)
      BY <2>2, <3>1, <3>2, <3>3 DEF IsSource, ScanTells
    <3>6. \A o \in ZeroTail : arena[o] = Loaded(o)
      BY <2>2, <3>1, <3>2, <3>3 DEF IsZero, ScanTells
    <3> QED  BY <2>0, <3>4, <3>5, <3>6
  <2>6. /\ \A o \in Bytes(0, end) :
             reads'[o] > 0 /\ (o \notin disturbed' => arena'[o] = Loaded(o))
        /\ DOMAIN reads' = Arena /\ \A o \in Arena : reads'[o] \in Nat
        /\ touched' = touched
    <3>1. \A o \in Bytes(0, end) : o \in Bytes(0, e) \/ o \in B
      BY <2>2, <2>3 DEF Bytes
    <3>2. Bytes(0, e) \subseteq Arena
      BY <2>2, <2>3 DEF Bytes
    <3>3. \A o \in Bytes(0, e) :
            reads[o] > 0 /\ (o \notin disturbed => arena[o] = Loaded(o))
      BY <1>2, <2>0 DEF Confirmed
    <3> QED  BY <1>1, <2>1, <2>2, <2>5, <3>1, <3>2, <3>3, ReadConfirms
  <2>7. /\ counts \in [copied : Nat, tails : Nat, holes : Nat, headers : Nat,
                       segments : Nat, compared : Nat]
        /\ counts.copied = Cardinality({o \in Bytes(0, e) : IsFile(o)})
        /\ counts.tails = Cardinality({o \in Bytes(0, e) : IsTail(o)})
        /\ counts.copied + counts.tails + counts.holes = e
        /\ counts.headers = 0 /\ counts.compared = 0
    BY <1>1, <1>2, <2>0 DEF SliceOK, Confirmed, OuterOK
  <2>8. /\ counts'.copied = counts.copied + size
        /\ counts'.tails = counts.tails + (memory - size)
        /\ counts'.holes = counts.holes + (off - e)
        /\ counts'.headers = 0 /\ counts'.compared = 0
        /\ counts' \in [copied : Nat, tails : Nat, holes : Nat, headers : Nat,
                        segments : Nat, compared : Nat]
    <3>1. memory - size \in Nat /\ off - e \in Nat
      BY <2>2
    <3>2. PICK y, z : y = memory - size /\ z = off - e
      OBVIOUS
    <3>3. y \in Nat /\ z \in Nat
      BY <3>1, <3>2
    <3>4. counts' = [counts EXCEPT !.copied = @ + size, !.tails = @ + y, !.holes = @ + z]
      BY <2>1, <3>2
    <3>5. /\ counts'.copied = counts.copied + size
          /\ counts'.tails = counts.tails + y /\ counts'.holes = counts.holes + z
          /\ counts'.headers = counts.headers /\ counts'.compared = counts.compared
          /\ counts' \in [copied : Nat, tails : Nat, holes : Nat, headers : Nat,
                          segments : Nat, compared : Nat]
      BY <2>2, <2>7, <3>3, <3>4, CountsAdded
    <3> QED  BY <2>7, <3>2, <3>5
  <2>9. /\ counts'.copied = Cardinality({o \in Bytes(0, end) : IsFile(o)})
        /\ counts'.tails = Cardinality({o \in Bytes(0, end) : IsTail(o)})
    BY <1>1, <1>2, <2>0, <2>3, <2>7, <2>8, SegmentIsCounted
  <2>10. counts'.copied + counts'.tails + counts'.holes = end
    <3>1. PICK a, b, c : a = counts.copied /\ b = counts.tails /\ c = counts.holes
      OBVIOUS
    <3>2. a \in Nat /\ b \in Nat /\ c \in Nat /\ a + b + c = e
      BY <2>7, <3>1
    <3>3. (a + size) + (b + (memory - size)) + (c + (off - e)) = end
      BY <2>2, <2>3, <3>2
    <3> QED  BY <2>8, <3>1, <3>3
  <2>11. Confirmed(end)'
    <3>1. ConfirmedBy(end, reads', disturbed', arena', counts')
      BY <2>6, <2>9, <2>10 DEF ConfirmedBy
    <3> QED  BY <2>1, <3>1, ConfirmedNext
  <2>12. call' = [step |-> "outer", next |-> i + 1, end |-> end]
    BY <1>1, <2>0, <2>1, <2>3 DEF CallOK, At, Idle
  <2>13. /\ call' # None /\ call'.step = "outer" /\ call'.next = i + 1 /\ call'.end = end
         /\ call' \in [step : {"copy", "outer", "views"}, next : Nat, end : Nat]
    BY <2>2, <2>3, <2>12, CallsAreRecords
  <2>14. Arena' = Arena /\ Whole'
    BY <2>1, <2>2 DEF Arena, Whole
  <2>15. SliceOK'
    BY <1>1, <2>6, <2>8, <2>14 DEF SliceOK
  <2>16. OuterOK'
    <3>1. call'.next \in 1 .. Len(plan'.segments) + 1 /\ call'.next - 1 = i
      <4>1. Len(plan.segments) \in Nat
        BY <1>1, SegmentsAreInOrder DEF SegmentsInOrder, Enumerates
      <4> QED  BY <2>1, <2>2, <2>13, <4>1
    <3>2. call'.end = ScanEnd(call.next - 1)'
      BY <2>1, <2>4, <2>13, <3>1, PlanFixed
    <3>3. Confirmed(call.end)'
      BY <2>11, <2>13
    <3> QED  BY <1>1, <2>1, <2>8, <2>14, <3>1, <3>2, <3>3 DEF OuterOK
  <2>17. UntouchedOK'
    BY <1>1, <1>2, <2>1, <2>6, <2>14, PlanFixed DEF UntouchedOK
  <2>18. CallOK' /\ CopyOK' /\ ViewsOK' /\ IdleOK'
    BY <2>13 DEF CallOK, CopyOK, ViewsOK, IdleOK, Idle, At
  <2>19. ReportedOK'
    <3>1. reported' \in {<<>>, <<"DestinationInitialized", "SegmentsCopied">>}
      BY <1>1, <2>1 DEF OuterOK
    <3> QED  BY <3>1 DEF ReportedOK
  <2>20. StagingWith'
    BY <2>15, <2>16, <2>17, <2>18, <2>19 DEF StagingWith
  <2> QED  BY <2>1, <2>20, PlanKept
<1> QED  BY <1>3, <1>4

\* The hole behind the last segment.
LastHoleAhead ==
  /\ call.end \in Nat /\ plan.size \in Nat /\ call.end <= plan.size
  /\ Arena = Bytes(0, plan.size) /\ LastHole = Bytes(call.end, plan.size)
  /\ \A o \in LastHole : o \in Nat /\ o \in Arena /\ IsHole(o) /\ Loaded(o) = 0

LEMMA LastHoleIsAhead ==
  ASSUME PlanOK, OuterOK, At("outer"), call.next > Len(plan.segments)
  PROVE  LastHoleAhead
<1>1. PICK n : n = Len(plan.segments)
  OBVIOUS
<1>2. SegmentsInOrder /\ ScanTells
  BY SegmentsAreInOrder, SegmentsAreLoaded
<1>3. n \in Nat /\ plan.size \in Nat
  BY <1>1, <1>2 DEF SegmentsInOrder, Enumerates
<1>4. call.next \in 1 .. n + 1 /\ call.end = ScanEnd(call.next - 1)
      /\ Arena = Bytes(0, plan.size)
  BY <1>1 DEF OuterOK, Whole
<1>5. call.next - 1 = n
  BY <1>1, <1>3, <1>4
<1>6. call.end = ScanEnd(Len(plan.segments))
  BY <1>1, <1>4, <1>5
<1>7. /\ call.end \in Nat /\ call.end <= plan.size
      /\ \A o \in Bytes(call.end, plan.size) : IsHole(o) /\ Loaded(o) = 0
  BY <1>2, <1>6 DEF ScanTells
<1>8. \A o \in Bytes(call.end, plan.size) : o \in Nat /\ o \in Arena
  BY <1>3, <1>4, <1>7 DEF Bytes
<1> QED  BY <1>3, <1>4, <1>7, <1>8 DEF LastHoleAhead, LastHole

\* Holes add nothing to what was copied or zeroed.
LEMMA LastHoleIsCounted ==
  ASSUME LastHoleAhead
  PROVE  /\ Cardinality({o \in Bytes(0, plan.size) : IsFile(o)})
              = Cardinality({o \in Bytes(0, call.end) : IsFile(o)})
         /\ Cardinality({o \in Bytes(0, plan.size) : IsTail(o)})
              = Cardinality({o \in Bytes(0, call.end) : IsTail(o)})
<1> USE DEF LastHoleAhead
<1>1. {o \in Bytes(0, plan.size) : IsFile(o)} = {o \in Bytes(0, call.end) : IsFile(o)}
      /\ {o \in Bytes(0, plan.size) : IsTail(o)} = {o \in Bytes(0, call.end) : IsTail(o)}
  <2>1. \A o : o \in Bytes(0, plan.size) <=> o \in Bytes(0, call.end) \/ o \in LastHole
    BY DEF Bytes
  <2>2. \A o \in LastHole : ~ IsFile(o) /\ ~ IsTail(o)
    BY DEF IsHole, IsFile, IsTail
  <2> QED  BY <2>1, <2>2
<1> QED  BY <1>1, Zenon

\* Before the first view no byte of a member has been compared.
LEMMA NoViewsYet ==
  ASSUME NEW rd, NEW ct, ct.compared = 0, ct.headers = 0
  PROVE  ViewsConfirmedBy(1, rd, ct)
<1>1. Covered(1) = {} /\ HeadersBefore(1) = {}
  BY DEF Covered, HeadersBefore
<1>2. Cardinality({}) = 0
  BY FS_EmptySet
<1>3. Cardinality(Covered(1)) = 0 /\ Cardinality(HeadersBefore(1)) = 0
  BY <1>1, <1>2, Zenon
<1> QED  BY <1>1, <1>3 DEF ViewsConfirmedBy

LEMMA VerifyEndKeeps ==
  ASSUME StagingInv, plan # None, VerifyEnd
  PROVE  StagingInv'
<1>1. /\ At("outer") /\ call.next > Len(plan.segments) /\ PlanOK /\ CallOK /\ SliceOK
      /\ OuterOK /\ UntouchedOK /\ ReportedOK
  BY DEF StagingInv, VerifyEnd
<1>2. LastHoleAhead /\ ~ Idle /\ ~ At("copy") /\ Confirmed(call.end)
  BY <1>1, LastHoleIsAhead DEF At, Idle, OuterOK
<1>3. CASE ~ IsZero(LastHole)
  <2>1. touched
    BY <1>1, <1>2, <1>3 DEF LastHoleAhead, UntouchedOK, IsZero
  <2>2. Mismatch
    BY <1>3 DEF VerifyEnd
  <2> QED  BY <1>2, <2>1, <2>2, MismatchKeeps
<1>4. CASE IsZero(LastHole)
  <2>0. PICK e, end : e = call.end /\ end = plan.size
    OBVIOUS
  <2>1. /\ Read(LastHole)
        /\ counts' = [counts EXCEPT !.holes = @ + (end - e)]
        /\ reported' = Append(reported, "ArenaVerified")
        /\ call' = [step |-> "views", next |-> 1, end |-> 0]
        /\ planVars' = planVars /\ plan' = plan /\ arena' = arena /\ result' = result
    BY <1>4, <2>0 DEF VerifyEnd, Observe, planVars
  <2>2. /\ e \in Nat /\ end \in Nat /\ e <= end /\ Arena = Bytes(0, end)
        /\ LastHole = Bytes(e, end) /\ LastHole \subseteq Arena
    BY <1>2, <2>0 DEF LastHoleAhead
  <2>3. \A o \in LastHole : arena[o] = Loaded(o)
    BY <1>2, <1>4 DEF LastHoleAhead, IsZero
  <2>4. /\ \A o \in Bytes(0, end) :
             reads'[o] > 0 /\ (o \notin disturbed' => arena'[o] = Loaded(o))
        /\ DOMAIN reads' = Arena /\ \A o \in Arena : reads'[o] \in Nat
        /\ touched' = touched
    <3>1. \A o \in Bytes(0, end) : o \in Bytes(0, e) \/ o \in LastHole
      BY <2>2 DEF Bytes
    <3>2. Bytes(0, e) \subseteq Arena
      BY <2>2 DEF Bytes
    <3>3. \A o \in Bytes(0, e) :
            reads[o] > 0 /\ (o \notin disturbed => arena[o] = Loaded(o))
      BY <1>2, <2>0 DEF Confirmed
    <3> QED  BY <1>1, <2>1, <2>2, <2>3, <3>1, <3>2, <3>3, ReadConfirms
  <2>5. /\ counts \in [copied : Nat, tails : Nat, holes : Nat, headers : Nat,
                       segments : Nat, compared : Nat]
        /\ counts.copied = Cardinality({o \in Bytes(0, e) : IsFile(o)})
        /\ counts.tails = Cardinality({o \in Bytes(0, e) : IsTail(o)})
        /\ counts.copied + counts.tails + counts.holes = e
        /\ counts.headers = 0 /\ counts.compared = 0
    BY <1>1, <1>2, <2>0 DEF SliceOK, Confirmed, OuterOK
  <2>6. /\ counts'.copied = counts.copied /\ counts'.tails = counts.tails
        /\ counts'.holes = counts.holes + (end - e)
        /\ counts'.headers = 0 /\ counts'.compared = 0
        /\ counts' \in [copied : Nat, tails : Nat, holes : Nat, headers : Nat,
                        segments : Nat, compared : Nat]
    <3>1. PICK z : z = end - e
      OBVIOUS
    <3>2. z \in Nat /\ 0 \in Nat /\ counts.copied + 0 = counts.copied
          /\ counts.tails + 0 = counts.tails
      BY <2>2, <2>5, <3>1
    <3>3. counts' = [counts EXCEPT !.copied = @ + 0, !.tails = @ + 0, !.holes = @ + z]
      BY <2>1, <2>5, <3>1, <3>2
    <3>4. /\ counts'.copied = counts.copied + 0
          /\ counts'.tails = counts.tails + 0 /\ counts'.holes = counts.holes + z
          /\ counts'.headers = counts.headers /\ counts'.compared = counts.compared
          /\ counts' \in [copied : Nat, tails : Nat, holes : Nat, headers : Nat,
                          segments : Nat, compared : Nat]
      BY <2>5, <3>2, <3>3, CountsAdded
    <3> QED  BY <2>5, <3>1, <3>2, <3>4
  <2>7. /\ counts'.copied = Cardinality({o \in Bytes(0, end) : IsFile(o)})
        /\ counts'.tails = Cardinality({o \in Bytes(0, end) : IsTail(o)})
    BY <1>2, <2>0, <2>5, <2>6, LastHoleIsCounted
  <2>8. counts'.copied + counts'.tails + counts'.holes = end
    <3>1. PICK a, b, c : a = counts.copied /\ b = counts.tails /\ c = counts.holes
      OBVIOUS
    <3>2. a \in Nat /\ b \in Nat /\ c \in Nat /\ a + b + c = e
      BY <2>5, <3>1
    <3>3. a + b + (c + (end - e)) = end
      BY <2>2, <3>2
    <3> QED  BY <2>6, <3>1, <3>3
  <2>9. Confirmed(end)' /\ ViewsConfirmed(1)'
    <3>1. ConfirmedBy(end, reads', disturbed', arena', counts')
      BY <2>4, <2>7, <2>8 DEF ConfirmedBy
    <3>2. ViewsConfirmedBy(1, reads', counts')
      BY <2>6, NoViewsYet
    <3> QED  BY <2>1, <3>1, <3>2, ConfirmedNext
  <2>10. /\ call' # None /\ call'.step = "views" /\ call'.next = 1 /\ call'.end = 0
         /\ call' \in [step : {"copy", "outer", "views"}, next : Nat, end : Nat]
    BY <2>1, CallsAreRecords
  <2>11. Arena' = Arena /\ Whole'
    BY <2>0, <2>1, <2>2 DEF Arena, Whole
  <2>12. SliceOK'
    BY <1>1, <2>4, <2>6, <2>11 DEF SliceOK
  <2>13. reported' \in {<<"ArenaVerified">>,
                        <<"DestinationInitialized", "SegmentsCopied", "ArenaVerified">>}
    <3>1. reported \in {<<>>, <<"DestinationInitialized", "SegmentsCopied">>}
      BY <1>1 DEF OuterOK
    <3>2. CASE reported = <<>>
      <4>1. reported' = <<"ArenaVerified">>
        BY <2>1, <3>2, ReportedGrows, Zenon
      <4> QED  BY <4>1
    <3>3. CASE reported = <<"DestinationInitialized", "SegmentsCopied">>
      <4>1. reported' = <<"DestinationInitialized", "SegmentsCopied", "ArenaVerified">>
        BY <2>1, <3>3, ReportedGrows, Zenon
      <4> QED  BY <4>1
    <3> QED  BY <3>1, <3>2, <3>3
  <2>14. ViewsOK'
    <3>1. Confirmed(plan.size)'
      BY <2>0, <2>1, <2>9
    <3>2. ViewsConfirmed(call.next)'
      BY <2>9, <2>10
    <3>3. call'.next \in 1 .. Len(plan'.views) + 1
      <4>1. Len(plan.views) \in Nat
        BY <1>1, ViewsAreTold DEF ViewsTell
      <4> QED  BY <2>1, <2>10, <4>1
    <3>4. ~ \E j \in 1 .. call'.next - 1 : TRUE
      BY <2>10
    <3> QED  BY <2>10, <2>11, <2>13, <3>1, <3>2, <3>3, <3>4 DEF ViewsOK
  <2>15. UntouchedOK'
    BY <1>1, <1>2, <2>1, <2>4, <2>11, PlanFixed DEF UntouchedOK
  <2>16. CallOK' /\ CopyOK' /\ OuterOK' /\ IdleOK'
    BY <2>10 DEF CallOK, CopyOK, OuterOK, IdleOK, Idle, At
  <2>17. ReportedOK'
    <3>1. \A o \in Arena' : reads'[o] > 0
      BY <2>2, <2>4, <2>11
    <3>2. \A n \in DOMAIN reported' : reported'[n] # "MemberViewsVerified"
      BY <2>13
    <3> QED  BY <2>13, <3>1, <3>2 DEF ReportedOK
  <2>18. StagingWith'
    BY <2>12, <2>14, <2>15, <2>16, <2>17 DEF StagingWith
  <2> QED  BY <2>1, <2>18, PlanKept
<1> QED  BY <1>3, <1>4

LEMMA MaxOfTwo ==
  ASSUME NEW a \in Nat, NEW b \in Nat
  PROVE  Max({a, b}) = IF a >= b THEN a ELSE b
<1>1. CASE a >= b
  <2>1. Max({a, b}) \in {a, b} /\ \A y \in {a, b} : Max({a, b}) >= y
    <3>1. a \in {a, b} /\ \A y \in {a, b} : a >= y
      BY <1>1
    <3> QED  BY <3>1 DEF Max
  <2> QED  BY <1>1, <2>1
<1>2. CASE ~ (a >= b)
  <2>1. Max({a, b}) \in {a, b} /\ \A y \in {a, b} : Max({a, b}) >= y
    <3>1. b \in {a, b} /\ \A y \in {a, b} : b >= y
      BY <1>2
    <3> QED  BY <3>1 DEF Max
  <2> QED  BY <1>2, <2>1
<1> QED  BY <1>1, <1>2

\* The view that the verification comes to next: what is compared of it is what
\* no earlier view has covered.
ViewAhead ==
  /\ call.next \in 1 .. Len(plan.views) /\ Len(plan.views) \in Nat
  /\ call.end \in Nat /\ plan.size \in Nat
  /\ View.offset \in Nat /\ View.size \in Nat
  /\ View.offset + View.memory <= plan.size
  /\ Arena = Bytes(0, plan.size)
  /\ Compared \subseteq Arena /\ Covered(call.next) \subseteq Arena
  /\ \A o \in Compared : Loaded(o) = Content(View.source + (o - View.offset))
  /\ Covered(call.next + 1) = Covered(call.next) \cup Compared
  /\ Covered(call.next) \cap Compared = {}
  /\ IsFiniteSet(Compared) /\ IsFiniteSet(Covered(call.next))

LEMMA ViewIsAhead ==
  ASSUME PlanOK, ViewsOK, At("views"), call.next <= Len(plan.views)
  PROVE  ViewAhead
<1>0. PICK n, e, size, w : n = call.next /\ e = call.end /\ size = plan.size /\ w = plan.views
  OBVIOUS
<1>1. ViewsTell /\ SegmentsInOrder
  BY ViewsAreTold, SegmentsAreInOrder
<1>2. Len(w) \in Nat /\ size \in Nat
  BY <1>0, <1>1 DEF ViewsTell, SegmentsInOrder
<1>3. /\ n \in 1 .. Len(w) /\ e \in Nat /\ Arena = Bytes(0, size)
      /\ \A j \in 1 .. n - 1 : w[j].offset + w[j].size <= e
      /\ e # 0 => \E j \in 1 .. n - 1 : e = w[j].offset + w[j].size
  BY <1>0, <1>2 DEF ViewsOK, Whole
<1>4. \A j \in 1 .. Len(w) :
        /\ w[j].offset \in Nat /\ w[j].memory \in Nat /\ w[j].size \in Nat
        /\ w[j].size <= w[j].memory /\ w[j].offset + w[j].memory <= size
        /\ \A i \in 1 .. Len(w) : i < j => w[i].offset <= w[j].offset
  BY <1>0, <1>1 DEF ViewsTell
<1>5. \A j \in 1 .. Len(w) : ViewBytes(j) = Bytes(w[j].offset, w[j].offset + w[j].size)
  BY <1>0 DEF ViewBytes
<1>6. \A j \in 1 .. Len(w) : ViewBytes(j) \subseteq Arena
  <2> TAKE j \in 1 .. Len(w)
  <2>1. PICK a, z, m : a = w[j].offset /\ z = w[j].size /\ m = w[j].memory
    OBVIOUS
  <2>2. a \in Nat /\ z \in Nat /\ m \in Nat /\ z <= m /\ a + m <= size
    BY <1>4, <2>1
  <2>3. Bytes(a, a + z) \subseteq Bytes(0, size)
    BY <1>2, <2>2 DEF Bytes
  <2> QED  BY <1>3, <1>5, <2>1, <2>3
<1>7. PICK off, z, limit, start :
        off = w[n].offset /\ z = w[n].size /\ limit = off + z /\ start = Max({e, off})
  OBVIOUS
<1>8. off \in Nat /\ z \in Nat /\ limit \in Nat
  BY <1>3, <1>4, <1>7
<1>9. start \in Nat /\ e <= start /\ off <= start /\ (start = e \/ start = off)
  BY <1>3, <1>7, <1>8, MaxOfTwo
<1>10. Compared = Bytes(start, limit)
  BY <1>0, <1>7 DEF Compared, CompareStart, View
<1>11. ViewBytes(n) = Bytes(off, limit) /\ Compared \subseteq ViewBytes(n)
  <2>1. Bytes(start, limit) \subseteq Bytes(off, limit)
    BY <1>8, <1>9 DEF Bytes
  <2> QED  BY <1>3, <1>5, <1>7, <1>10, <2>1
<1>12. \A o \in Compared : Loaded(o) = Content(View.source + (o - View.offset))
  <2>1. \A o \in ViewBytes(n) : Loaded(o) = Content(w[n].source + (o - w[n].offset))
    BY <1>0, <1>1, <1>3 DEF ViewsTell
  <2> QED  BY <1>0, <1>11, <2>1 DEF View
<1>13. Covered(n) \subseteq Arena
  BY <1>2, <1>3, <1>6 DEF Covered
<1>14. Covered(n + 1) = Covered(n) \cup ViewBytes(n)
  <2>1. 1 .. (n + 1) - 1 = (1 .. n - 1) \cup {n}
    BY <1>2, <1>3
  <2> QED  BY <2>1 DEF Covered
<1>15. \A o \in Covered(n) : o < e
  <2> TAKE o \in Covered(n)
  <2>1. PICK j \in 1 .. n - 1 : o \in ViewBytes(j)
    BY DEF Covered
  <2>2. j \in 1 .. Len(w)
    BY <1>2, <1>3
  <2>3. PICK a, y : a = w[j].offset /\ y = w[j].size
    OBVIOUS
  <2>4. a \in Nat /\ y \in Nat /\ a + y <= e /\ o \in Bytes(a, a + y)
    BY <1>3, <1>4, <1>5, <2>1, <2>2, <2>3
  <2> QED  BY <1>3, <2>4 DEF Bytes
<1>16. Covered(n) \cap Compared = {}
  <2>1. \A o \in Compared : ~ (o < e)
    BY <1>3, <1>8, <1>9, <1>10 DEF Bytes
  <2> QED  BY <1>15, <2>1
<1>17. ASSUME NEW o \in ViewBytes(n), o \notin Compared
       PROVE  o \in Covered(n)
  <2>1. o \in Nat /\ off <= o /\ o < limit /\ o < start
    BY <1>8, <1>9, <1>10, <1>11, <1>17 DEF Bytes
  <2>2. start = e /\ e # 0
    BY <1>8, <1>9, <2>1
  <2>3. PICK j \in 1 .. n - 1 : e = w[j].offset + w[j].size
    BY <1>3, <2>2
  <2>4. j \in 1 .. Len(w) /\ j < n
    BY <1>2, <1>3
  <2>5. PICK a, y : a = w[j].offset /\ y = w[j].size
    OBVIOUS
  <2>6. a \in Nat /\ y \in Nat /\ a <= off /\ e = a + y
    BY <1>3, <1>4, <1>7, <2>3, <2>4, <2>5
  <2>7. o \in Bytes(a, a + y)
    BY <1>8, <2>1, <2>2, <2>6 DEF Bytes
  <2>8. o \in ViewBytes(j)
    BY <1>5, <2>4, <2>5, <2>7
  <2> QED  BY <2>8 DEF Covered
<1>18. Covered(n + 1) = Covered(n) \cup Compared
  BY <1>11, <1>14, <1>17
<1>19. IsFiniteSet(Compared) /\ IsFiniteSet(Covered(n))
  <2>1. IsFiniteSet(Arena) /\ IsFiniteSet(Compared)
    BY <1>2, <1>3, <1>8, <1>9, <1>10, BytesAreFinite
  <2> QED  BY <1>13, <2>1, FS_Subset
<1>20. View.offset \in Nat /\ View.size \in Nat /\ View.offset + View.memory <= plan.size
  BY <1>0, <1>3, <1>4 DEF View
<1>21. Compared \subseteq Arena
  BY <1>3, <1>6, <1>11
<1> QED  BY <1>0, <1>2, <1>3, <1>12, <1>13, <1>16, <1>18, <1>19, <1>20, <1>21
         DEF ViewAhead

LEMMA HeadersNext ==
  ASSUME NEW n \in Nat \ {0}
  PROVE  /\ Cardinality(HeadersBefore(n)) \in Nat
         /\ plan.views[n].of[2] = 0 =>
              Cardinality(HeadersBefore(n + 1)) = Cardinality(HeadersBefore(n)) + 1
         /\ plan.views[n].of[2] # 0 => HeadersBefore(n + 1) = HeadersBefore(n)
<1>1. IsFiniteSet(1 .. n - 1)
  BY FS_Interval
<1>2. IsFiniteSet(HeadersBefore(n)) /\ n \notin HeadersBefore(n)
  <2>1. HeadersBefore(n) \subseteq 1 .. n - 1
    BY DEF HeadersBefore
  <2> QED  BY <1>1, <2>1, FS_Subset
<1>3. Cardinality(HeadersBefore(n)) \in Nat
  BY <1>2, FS_CardinalityType
<1>4. 1 .. (n + 1) - 1 = (1 .. n - 1) \cup {n}
  OBVIOUS
<1>5. plan.views[n].of[2] = 0 => HeadersBefore(n + 1) = HeadersBefore(n) \cup {n}
  BY <1>4 DEF HeadersBefore
<1>6. plan.views[n].of[2] # 0 => HeadersBefore(n + 1) = HeadersBefore(n)
  BY <1>4 DEF HeadersBefore
<1>7. Cardinality(HeadersBefore(n) \cup {n}) = Cardinality(HeadersBefore(n)) + 1
  BY <1>2, FS_AddElement
<1> QED  BY <1>3, <1>5, <1>6, <1>7

LEMMA VerifyViewKeeps ==
  ASSUME StagingInv, plan # None, VerifyView
  PROVE  StagingInv'
<1>1. /\ At("views") /\ call.next <= Len(plan.views) /\ PlanOK /\ CallOK /\ SliceOK
      /\ ViewsOK /\ UntouchedOK /\ ReportedOK
  BY DEF StagingInv, VerifyView
<1>2. ViewAhead /\ ~ Idle /\ ~ At("copy") /\ Confirmed(plan.size)
      /\ ViewsConfirmed(call.next)
  BY <1>1, ViewIsAhead DEF At, Idle, ViewsOK
<1>3. CASE ~ ViewHolds
  <2>1. touched
    <3>1. ~ touched => IsSource(Compared, View.offset, View.source)
      BY <1>1, <1>2 DEF ViewAhead, UntouchedOK, IsSource
    <3>2. View.offset + View.memory <= plan.size
      BY <1>2 DEF ViewAhead
    <3> QED  BY <1>3, <3>1, <3>2 DEF ViewHolds
  <2>2. Mismatch
    BY <1>3 DEF VerifyView
  <2> QED  BY <1>2, <2>1, <2>2, MismatchKeeps
<1>4. CASE ViewHolds
  <2>0. PICK n, e, off, size, limit, c :
          /\ n = call.next /\ e = call.end /\ off = View.offset /\ size = View.size
          /\ limit = off + size /\ c = Cardinality(Compared)
    OBVIOUS
  <2>1. /\ Read(Compared)
        /\ counts' = [counts EXCEPT
             !.compared = @ + c,
             !.headers  = IF View.of[2] = 0 THEN @ + 1 ELSE @,
             !.segments = IF View.of[2] = 0 THEN @ ELSE @ + 1]
        /\ call' = [call EXCEPT !.next = @ + 1, !.end = Max({@, limit})]
        /\ planVars' = planVars /\ plan' = plan /\ arena' = arena
        /\ reported' = reported /\ result' = result
    BY <1>4, <2>0 DEF VerifyView, planVars
  <2>2. /\ n \in 1 .. Len(plan.views) /\ Len(plan.views) \in Nat
        /\ e \in Nat /\ off \in Nat /\ size \in Nat /\ limit \in Nat /\ plan.size \in Nat
        /\ Arena = Bytes(0, plan.size) /\ Compared \subseteq Arena
        /\ Covered(n) \subseteq Arena /\ Covered(n) \cap Compared = {}
        /\ Covered(n + 1) = Covered(n) \cup Compared
        /\ IsFiniteSet(Compared) /\ IsFiniteSet(Covered(n))
    <3>1. off \in Nat /\ size \in Nat
      BY <1>2, <2>0 DEF ViewAhead
    <3>2. limit \in Nat
      BY <2>0, <3>1
    <3> QED  BY <1>2, <2>0, <3>1, <3>2 DEF ViewAhead
  <2>3. c \in Nat
    BY <2>0, <2>2, FS_CardinalityType
  <2>4. \A o \in Compared : arena[o] = Loaded(o)
    BY <1>2, <1>4 DEF ViewAhead, ViewHolds, IsSource
  <2>5. \A o \in Bytes(0, plan.size) :
          reads[o] > 0 /\ (o \notin disturbed => arena[o] = Loaded(o))
    BY <1>2 DEF Confirmed
  <2>6. /\ \A o \in Bytes(0, plan.size) :
             reads'[o] > 0 /\ (o \notin disturbed' => arena'[o] = Loaded(o))
        /\ DOMAIN reads' = Arena /\ \A o \in Arena : reads'[o] \in Nat
        /\ \A o \in Arena : reads'[o] >= reads[o]
                            /\ (o \in Compared => reads'[o] = reads[o] + 1)
        /\ touched' = touched
    <3> PICK s : s = plan.size
      OBVIOUS
    <3>1. PICK D : D = Bytes(0, s)
      OBVIOUS
    <3>2. /\ \A o \in D : o \in Bytes(0, s) \/ o \in Compared
          /\ Bytes(0, s) \subseteq Arena
          /\ \A o \in Bytes(0, s) :
               reads[o] > 0 /\ (o \notin disturbed => arena[o] = Loaded(o))
      BY <2>2, <2>5, <3>1
    <3>3. /\ \A o \in D : reads'[o] > 0 /\ (o \notin disturbed' => arena'[o] = Loaded(o))
          /\ DOMAIN reads' = Arena /\ \A o \in Arena : reads'[o] \in Nat
          /\ \A o \in Arena : reads'[o] >= reads[o]
                              /\ (o \in Compared => reads'[o] = reads[o] + 1)
          /\ touched' = touched
      BY <1>1, <2>1, <2>2, <2>4, <3>2, ReadConfirms
    <3> QED  BY <3>1, <3>3
  <2>7. /\ counts \in [copied : Nat, tails : Nat, holes : Nat, headers : Nat,
                       segments : Nat, compared : Nat]
        /\ counts.copied = Cardinality({o \in Bytes(0, plan.size) : IsFile(o)})
        /\ counts.tails = Cardinality({o \in Bytes(0, plan.size) : IsTail(o)})
        /\ counts.copied + counts.tails + counts.holes = plan.size
        /\ counts.compared = Cardinality(Covered(n))
        /\ counts.headers = Cardinality(HeadersBefore(n))
    BY <1>1, <1>2, <2>0 DEF SliceOK, Confirmed, ViewsConfirmed
  <2>8. /\ counts'.copied = counts.copied /\ counts'.tails = counts.tails
        /\ counts'.holes = counts.holes /\ counts'.compared = counts.compared + c
        /\ counts'.headers = IF View.of[2] = 0 THEN counts.headers + 1 ELSE counts.headers
        /\ counts' \in [copied : Nat, tails : Nat, holes : Nat, headers : Nat,
                        segments : Nat, compared : Nat]
    <3>1. PICK h, g :
            /\ h = (IF View.of[2] = 0 THEN counts.headers + 1 ELSE counts.headers)
            /\ g = (IF View.of[2] = 0 THEN counts.segments ELSE counts.segments + 1)
      OBVIOUS
    <3>2. h \in Nat /\ g \in Nat /\ counts.compared + c \in Nat
      BY <2>3, <2>7, <3>1
    <3>3. counts' = [copied |-> counts.copied, tails |-> counts.tails,
                     holes |-> counts.holes, headers |-> h, segments |-> g,
                     compared |-> counts.compared + c]
      BY <2>1, <2>7, <3>1
    <3>4. counts.copied \in Nat /\ counts.tails \in Nat /\ counts.holes \in Nat
      BY <2>7
    <3> QED  BY <3>1, <3>2, <3>3, <3>4
  <2>9. Confirmed(plan.size)'
    <3>1. ConfirmedBy(plan.size, reads', disturbed', arena', counts')
      BY <2>6, <2>7, <2>8 DEF ConfirmedBy
    <3>2. PICK s : s = plan.size
      OBVIOUS
    <3>3. Confirmed(s)'
      BY <2>1, <3>1, <3>2, ConfirmedNext
    <3> QED  BY <2>1, <3>2, <3>3
  <2>10. ViewsConfirmed(n + 1)'
    <3>1. \A o \in Covered(n + 1) : reads'[o] > 1
      <4> TAKE o \in Covered(n + 1)
      <4>1. o \in Arena /\ reads[o] \in Nat /\ reads'[o] \in Nat /\ reads[o] > 0
        BY <1>1, <2>2, <2>5, <2>6 DEF SliceOK
      <4>2. CASE o \in Covered(n)
        <5>1. reads[o] > 1 /\ reads'[o] >= reads[o]
          BY <1>2, <2>0, <2>6, <4>1, <4>2 DEF ViewsConfirmed
        <5> QED  BY <4>1, <5>1
      <4>3. CASE o \in Compared
        BY <2>6, <4>1, <4>3
      <4> QED  BY <2>2, <4>2, <4>3
    <3>2. counts'.compared = Cardinality(Covered(n + 1))
      <4>1. Cardinality(Covered(n) \cup Compared) = Cardinality(Covered(n)) + c
        BY <2>0, <2>2, DisjointUnion
      <4> QED  BY <2>2, <2>7, <2>8, <4>1
    <3>3. counts'.headers = Cardinality(HeadersBefore(n + 1))
      <4>1. n \in Nat \ {0} /\ View = plan.views[n]
        BY <2>0, <2>2 DEF View
      <4>2. /\ Cardinality(HeadersBefore(n)) \in Nat
            /\ plan.views[n].of[2] = 0 =>
                 Cardinality(HeadersBefore(n + 1)) = Cardinality(HeadersBefore(n)) + 1
            /\ plan.views[n].of[2] # 0 => HeadersBefore(n + 1) = HeadersBefore(n)
        BY <4>1, HeadersNext
      <4>3. CASE View.of[2] = 0
        BY <2>7, <2>8, <4>1, <4>2, <4>3
      <4>4. CASE View.of[2] # 0
        BY <2>7, <2>8, <4>1, <4>2, <4>4
      <4> QED  BY <4>3, <4>4
    <3>4. PICK m : m = n + 1
      OBVIOUS
    <3>5. ViewsConfirmedBy(m, reads', counts')
      BY <3>1, <3>2, <3>3, <3>4 DEF ViewsConfirmedBy
    <3>6. ViewsConfirmed(m)'
      BY <2>1, <3>5, ConfirmedNext
    <3> QED  BY <3>4, <3>6
  <2>11. PICK end : /\ end \in Nat /\ end = Max({e, limit}) /\ e <= end /\ limit <= end
                    /\ end = e \/ end = limit
    BY <2>2, MaxOfTwo
  <2>12. call' = [step |-> "views", next |-> n + 1, end |-> end]
    BY <1>1, <2>0, <2>1, <2>11 DEF CallOK, At, Idle
  <2>13. /\ call' # None /\ call'.step = "views" /\ call'.next = n + 1 /\ call'.end = end
         /\ call' \in [step : {"copy", "outer", "views"}, next : Nat, end : Nat]
    BY <2>2, <2>11, <2>12, CallsAreRecords
  <2>14. Arena' = Arena /\ Whole'
    BY <2>1, <2>2 DEF Arena, Whole
  <2>15. SliceOK'
    BY <1>1, <2>6, <2>8, <2>14 DEF SliceOK
  <2>16. ViewsOK'
    <3>1. call'.next \in 1 .. Len(plan'.views) + 1 /\ call'.next - 1 = n
      BY <2>1, <2>2, <2>13
    <3>2. ViewsConfirmed(call.next)'
      <4>1. PICK m : m = n + 1
        OBVIOUS
      <4>2. ViewsConfirmed(m)' /\ m = call'.next
        BY <2>10, <2>13, <4>1
      <4> QED  BY <4>2
    <3>3. \A j \in 1 .. n : plan.views[j].offset + plan.views[j].size <= end
      <4> TAKE j \in 1 .. n
      <4>1. CASE j = n
        BY <2>0, <2>11, <4>1 DEF View
      <4>2. CASE j # n
        <5>1. j \in 1 .. n - 1 /\ j \in 1 .. Len(plan.views)
          BY <2>2, <4>2
        <5>2. plan.views[j].offset + plan.views[j].size <= e
          BY <1>1, <2>0, <5>1 DEF ViewsOK
        <5>3. plan.views[j].offset \in Nat /\ plan.views[j].size \in Nat
          BY <1>1, <5>1, ViewsAreTold DEF ViewsTell
        <5>4. PICK x : x = plan.views[j].offset + plan.views[j].size /\ x \in Nat
          BY <5>3
        <5>5. x <= end
          BY <2>2, <2>11, <5>2, <5>4
        <5> QED  BY <5>4, <5>5
      <4> QED  BY <4>1, <4>2
    <3>4. end # 0 => \E j \in 1 .. n : end = plan.views[j].offset + plan.views[j].size
      <4>1. CASE end = limit
        <5>1. n \in 1 .. n /\ limit = plan.views[n].offset + plan.views[n].size
          BY <2>0, <2>2 DEF View
        <5> QED  BY <4>1, <5>1
      <4>2. CASE end = e
        <5>1. e # 0 => \E j \in 1 .. n - 1 : e = plan.views[j].offset + plan.views[j].size
          BY <1>1, <2>0 DEF ViewsOK
        <5>2. \A j \in 1 .. n - 1 : j \in 1 .. n
          BY <2>2
        <5> QED  BY <4>2, <5>1, <5>2
      <4> QED  BY <2>11, <4>1, <4>2
    <3>5. reported \in {<<"ArenaVerified">>,
                        <<"DestinationInitialized", "SegmentsCopied", "ArenaVerified">>}
      BY <1>1 DEF ViewsOK
    <3> QED  BY <2>1, <2>9, <2>13, <2>14, <3>1, <3>2, <3>3, <3>4, <3>5, <2>11 DEF ViewsOK
  <2>17. UntouchedOK'
    BY <1>1, <1>2, <2>1, <2>6, <2>14, PlanFixed DEF UntouchedOK
  <2>18. CallOK' /\ CopyOK' /\ OuterOK' /\ IdleOK'
    BY <2>13 DEF CallOK, CopyOK, OuterOK, IdleOK, Idle, At
  <2>19. ReportedOK'
    <3>1. reported' \in {<<"ArenaVerified">>,
                         <<"DestinationInitialized", "SegmentsCopied", "ArenaVerified">>}
      BY <1>1, <2>1 DEF ViewsOK
    <3>2. \A o \in Arena' : reads'[o] > 0
      BY <2>2, <2>6, <2>14
    <3>3. \A i \in DOMAIN reported' : reported'[i] # "MemberViewsVerified"
      BY <3>1
    <3> QED  BY <3>1, <3>2, <3>3 DEF ReportedOK
  <2>20. StagingWith'
    BY <2>15, <2>16, <2>17, <2>18, <2>19 DEF StagingWith
  <2> QED  BY <2>1, <2>20, PlanKept
<1> QED  BY <1>3, <1>4

LEMMA ViewsVerifiedKeeps ==
  ASSUME StagingInv, plan # None, ViewsVerified
  PROVE  StagingInv'
<1>1. /\ At("views") /\ call.next > Len(plan.views) /\ PlanOK /\ SliceOK
      /\ ViewsOK /\ UntouchedOK
  BY DEF StagingInv, ViewsVerified
<1>2. /\ planVars' = planVars /\ plan' = plan /\ arena' = arena /\ counts' = counts
      /\ reads' = reads /\ disturbed' = disturbed /\ touched' = touched
      /\ call' = None /\ result' = "Ok"
      /\ reported' = Append(reported, "MemberViewsVerified")
  BY DEF ViewsVerified, Return, Observe, historyVars, planVars
<1>3. PICK n, last : n = Len(plan.views) /\ last = n + 1
  OBVIOUS
<1>4. n \in Nat /\ Covered(last) = MemberBytes
  BY <1>1, <1>3, ViewsAreTold DEF ViewsTell
<1>5. /\ Whole /\ call.next = last /\ Confirmed(plan.size) /\ ViewsConfirmed(last)
      /\ reported \in {<<"ArenaVerified">>,
                       <<"DestinationInitialized", "SegmentsCopied", "ArenaVerified">>}
  <2>1. call.next \in 1 .. n + 1 /\ call.next > n
    BY <1>1, <1>3 DEF ViewsOK
  <2>2. call.next = last
    BY <1>3, <1>4, <2>1
  <2> QED  BY <1>1, <2>2 DEF ViewsOK
<1>6. Whole' /\ SliceOK' /\ Arena' = Arena
  BY <1>1, <1>2, <1>5, SliceFixed DEF Arena
<1>7. Confirmed(plan.size)' /\ ViewsConfirmed(Len(plan.views) + 1)'
  <2>1. PICK s : s = plan.size
    OBVIOUS
  <2>2. Confirmed(s)' /\ ViewsConfirmed(last)'
    BY <1>2, <1>5, <2>1, SliceFixed
  <2>3. s = plan'.size /\ last = Len(plan'.views) + 1
    BY <1>2, <1>3, <2>1
  <2> QED  BY <2>2, <2>3
<1>8. CallOK' /\ CopyOK' /\ OuterOK' /\ ViewsOK'
  BY <1>2 DEF CallOK, CopyOK, OuterOK, ViewsOK, Idle, At
<1>9. UntouchedOK'
  <2>1. ~ touched => \A o \in Arena : arena[o] = Loaded(o)
    BY <1>1 DEF UntouchedOK, At
  <2> QED  BY <1>2, <1>6, <2>1, PlanFixed DEF UntouchedOK
<1>10. IdleOK'
  BY <1>2, <1>6, <1>7 DEF IdleOK
<1>11. reported' \in {<<"ArenaVerified", "MemberViewsVerified">>, Phases}
  <2>1. CASE reported = <<"ArenaVerified">>
    <3>1. reported' = <<"ArenaVerified", "MemberViewsVerified">>
      BY <1>2, <2>1, ReportedGrows, Zenon
    <3> QED  BY <3>1
  <2>2. CASE reported = <<"DestinationInitialized", "SegmentsCopied", "ArenaVerified">>
    <3>1. reported' = Phases
      BY <1>2, <2>2, ReportedGrows, Zenon
    <3> QED  BY <3>1
  <2> QED  BY <1>5, <2>1, <2>2
<1>12. ReportedOK'
  <2>1. \A o \in Arena' : reads'[o] > 0
    <3>1. Arena = Bytes(0, plan.size)
      BY <1>5 DEF Whole
    <3>2. \A o \in Bytes(0, plan.size) : reads[o] > 0
      BY <1>5 DEF Confirmed
    <3> QED  BY <1>2, <1>6, <3>1, <3>2
  <2>2. \A o \in MemberBytes' : reads'[o] > 1
    <3>1. \A o \in MemberBytes : reads[o] > 1
      BY <1>4, <1>5 DEF ViewsConfirmed
    <3> QED  BY <1>2, <3>1, PlanFixed
  <2>3. Idle' /\ result' = "Ok"
    BY <1>2 DEF Idle
  <2> QED  BY <1>11, <2>1, <2>2, <2>3 DEF ReportedOK
<1>13. StagingWith'
  BY <1>6, <1>8, <1>9, <1>10, <1>12 DEF StagingWith
<1> QED  BY <1>2, <1>13, PlanKept

\* Nothing was staged or verified before the plan was made.
\* An accepted plan is one that from_inspection() makes of the file.
LEMMA PlanIsMade ==
  ASSUME FileOK, NewPlan, InspectCheck = "Ok", PlanCheck = "Ok"
  PROVE  PlanOK'
<1>1. file' = file /\ inspection' = "Ok"
  BY DEF NewPlan
<1>2. /\ plan'.segments \in Sorted(OuterMappings) /\ plan'.views \in Sorted(ViewMappings)
      /\ plan'.base = Base /\ plan'.size = ArenaSize
  BY DEF NewPlan
<1>3. Accepted /\ Nonempty # {}
  BY DEF Accepted, PlanCheck
<1>4. FileOK' /\ Accepted' /\ Nonempty' # {}
  BY <1>1, <1>3, FileFixed
<1>5. plan'.segments \in Sorted(OuterMappings)' /\ plan'.views \in Sorted(ViewMappings)'
  BY <1>1, <1>2, FileFixed DEF Sorted
<1>6. plan'.base = Base' /\ plan'.size = ArenaSize'
  BY <1>1, <1>2, FileFixed
<1> QED  BY <1>1, <1>4, <1>5, <1>6 DEF PlanOK

LEMMA NewPlanKeeps ==
  ASSUME StagingInv, NewPlan
  PROVE  StagingInv'
<1>1. FileOK /\ CallOK /\ SliceOK /\ Unplanned
  BY DEF StagingInv
<1>2. /\ file' = file /\ arena' = arena /\ call' = call /\ counts' = counts
      /\ reported' = reported /\ reads' = reads /\ touched' = touched
      /\ inspection' = InspectCheck /\ inspection = None
  BY DEF NewPlan, historyVars
<1>3. plan = None
  <2>1. None # "Ok"
    BY NoneAssumption
  <2> QED  BY <1>2, <2>1 DEF StagingInv, PlanOK
<1>4. /\ arena' = <<>> /\ call' = None /\ reported' = <<>> /\ reads' = <<>>
      /\ touched' /\ result # "Ok" /\ counts' = ZeroCounts
  BY <1>1, <1>2, <1>3 DEF Unplanned
<1>5. FileOK' /\ CallOK' /\ SliceOK'
  <2>1. FileOK'
    BY <1>1, <1>2, FileFixed
  <2>2. CallOK'
    BY <1>4 DEF CallOK, Idle
  <2>3. SliceOK'
    BY <1>1, <1>2 DEF SliceOK, Arena
  <2> QED  BY <2>1, <2>2, <2>3
<1>6. CASE plan' = plan /\ result' # "Ok"
  BY <1>3, <1>4, <1>5, <1>6 DEF StagingInv, Unplanned
<1>7. CASE /\ InspectCheck = "Ok" /\ PlanCheck = "Ok" /\ result' = result
           /\ \E segments \in Sorted(OuterMappings), views \in Sorted(ViewMappings) :
                plan' = [segments |-> segments, views |-> views,
                         base |-> Base, size |-> ArenaSize]
  <2>4. PlanOK'
    BY <1>1, <1>7, PlanIsMade
  <2>5. CopyOK' /\ OuterOK' /\ ViewsOK' /\ UntouchedOK'
    BY <1>4 DEF CopyOK, OuterOK, ViewsOK, UntouchedOK, At
  <2>6. IdleOK' /\ ReportedOK'
    BY <1>4, <1>7 DEF IdleOK, ReportedOK
  <2>7. Unplanned'
    BY <1>4, <1>7 DEF Unplanned
  <2> QED  BY <1>5, <2>4, <2>5, <2>6, <2>7 DEF StagingInv
<1> QED  BY <1>6, <1>7 DEF NewPlan

\* Nothing is lost where nothing happens.
LEMMA StagingWithFixed ==
  ASSUME planVars' = planVars, arena' = arena, call' = call, counts' = counts,
         reported' = reported, result' = result, reads' = reads,
         disturbed' = disturbed, touched' = touched, StagingWith
  PROVE  StagingWith'
<1> USE DEF StagingWith
<1>1. /\ plan' = plan /\ Whole' = Whole /\ SliceOK' = SliceOK /\ Arena' = Arena
      /\ \A e : Confirmed(e)' = Confirmed(e)
      /\ \A n : ViewsConfirmed(n)' = ViewsConfirmed(n)
  BY SliceFixed, PlanFixed DEF Arena
<1>2. CallOK' /\ CopyOK'
  BY <1>1, PlanFixed DEF CallOK, CopyOK, Idle, At
<1>3. OuterOK'
  BY <1>1, PlanFixed DEF OuterOK, At
<1>4. ViewsOK'
  BY <1>1, PlanFixed DEF ViewsOK, At
<1>5. UntouchedOK'
  BY <1>1, PlanFixed DEF UntouchedOK, At
<1>6. IdleOK'
  BY <1>1, PlanFixed DEF IdleOK, Idle
<1>7. ReportedOK'
  BY <1>1, PlanFixed DEF ReportedOK, Idle
<1> QED  BY <1>1, <1>2, <1>3, <1>4, <1>5, <1>6, <1>7

LEMMA ContinueKeeps ==
  ASSUME StagingInv, Continue
  PROVE  StagingInv'
<1>1. plan # None
  BY DEF Continue, CopySegment, SegmentsCopied, VerifySegment, VerifyEnd,
         VerifyView, ViewsVerified, At, StagingInv, Unplanned
<1> QED  BY <1>1, CopySegmentKeeps, SegmentsCopiedKeeps, VerifySegmentKeeps,
           VerifyEndKeeps, VerifyViewKeeps, ViewsVerifiedKeeps DEF Continue

LEMMA InitHolds ==
  ASSUME Init
  PROVE  StagingInv
<1>1. FileOK
  BY FileAssumption DEF Init, CollectionInit, FileOK
<1>2. /\ plan = None /\ arena = <<>> /\ call = None /\ counts = ZeroCounts
      /\ reported = <<>> /\ result = None /\ reads = <<>> /\ touched = TRUE
  BY DEF Init
<1>3. SliceOK
  <2>1. Arena = {} /\ Bytes(0, 0) = {} /\ DOMAIN reads = {}
    BY <1>2 DEF Arena, Bytes
  <2>2. counts \in [copied : Nat, tails : Nat, holes : Nat, headers : Nat,
                    segments : Nat, compared : Nat]
    BY <1>2 DEF ZeroCounts
  <2> QED  BY <2>1, <2>2 DEF SliceOK
<1>4. result # "Ok"
  BY <1>2, NoneAssumption
<1> QED  BY <1>1, <1>2, <1>3, <1>4 DEF StagingInv, CallOK, Idle, Unplanned

LEMMA StutterKeeps ==
  ASSUME StagingInv, planVars' = planVars, arena' = arena, call' = call,
         counts' = counts, reported' = reported, result' = result, reads' = reads,
         disturbed' = disturbed, touched' = touched
  PROVE  StagingInv'
<1>1. plan' = plan
  BY DEF planVars
<1>2. CASE plan = None
  <2>1. FileOK' /\ CallOK' /\ SliceOK' /\ Unplanned'
    BY PlanFixed, SliceFixed DEF StagingInv, planVars, CallOK, Idle, Unplanned
  <2> QED  BY <1>1, <1>2, <2>1 DEF StagingInv
<1>3. CASE plan # None
  <2>1. StagingWith
    BY <1>3 DEF StagingInv, StagingWith
  <2> QED  BY <1>3, <2>1, StagingWithFixed, PlanKept
<1> QED  BY <1>2, <1>3

\* However the slice is changed between its steps, staging keeps its invariant:
\* what it has confirmed up to the point where the scan stands, and counted, and
\* told its observer.
THEOREM StagingIsInv == Spec => []StagingInv
<1>1. Init => StagingInv
  BY InitHolds
<1>2. StagingInv /\ [Next]_vars => StagingInv'
  <2> SUFFICES ASSUME StagingInv, [Next]_vars
               PROVE  StagingInv'
    OBVIOUS
  <2>1. CASE NewPlan
    BY <2>1, NewPlanKeeps
  <2>2. CASE plan # None /\ \E n \in {plan.size, plan.size - 1} : Stage(n)
    BY <2>2, StageKeeps
  <2>3. CASE Verify
    BY <2>3, VerifyKeeps
  <2>4. CASE Continue
    BY <2>4, ContinueKeeps
  <2>5. CASE \E o \in Arena : Disturb(o)
    BY <2>5, DisturbKeeps
  <2>6. CASE UNCHANGED vars
    BY <2>6, StutterKeeps DEF vars, planVars, historyVars
  <2> QED  BY <2>1, <2>2, <2>3, <2>4, <2>5, <2>6 DEF Next
<1> QED  BY <1>1, <1>2, PTL DEF Spec

LEMMA InvTellsVerdicts ==
  ASSUME StagingInv
  PROVE  VerifiedMeansLoaded /\ MismatchMeansDisturbed
<1>1. CASE plan = None
  BY <1>1 DEF StagingInv, Unplanned, VerifiedMeansLoaded, MismatchMeansDisturbed
<1>2. CASE plan # None
  <2>1. IdleOK
    BY <1>2 DEF StagingInv
  <2>2. MismatchMeansDisturbed
    BY <2>1 DEF IdleOK, MismatchMeansDisturbed
  <2>3. ASSUME result = "Ok", Idle
        PROVE  /\ Arena = Bytes(0, plan.size)
               /\ \A o \in Arena : reads[o] > 0 /\ (o \notin disturbed => arena[o] = Loaded(o))
    BY <2>1, <2>3 DEF IdleOK, Whole, Confirmed
  <2> QED  BY <2>2, <2>3 DEF VerifiedMeansLoaded
<1> QED  BY <1>1, <1>2

LEMMA InvTellsPhases ==
  ASSUME StagingInv, plan # None
  PROVE  ReportedMeansDone
<1>1. ReportedOK /\ CopyOK /\ UntouchedOK
  BY DEF StagingInv
<1>2. \E skipped \in {0, 2} : \E n \in 0 .. 4 : reported = SubSeq(Phases, skipped + 1, n)
  <2>1. ASSUME NEW m \in {1, 3}, NEW n \in 0 .. 4, reported = SubSeq(Phases, m, n)
        PROVE  \E skipped \in {0, 2} : \E k \in 0 .. 4 :
                 reported = SubSeq(Phases, skipped + 1, k)
    <3>1. CASE m = 1
      <4>1. 0 \in {0, 2} /\ 0 + 1 = m
        BY <3>1
      <4> QED  BY <2>1, <4>1
    <3>2. CASE m = 3
      <4>1. 2 \in {0, 2} /\ 2 + 1 = m
        BY <3>2
      <4> QED  BY <2>1, <4>1
    <3> QED  BY <3>1, <3>2
  <2>2. \E m \in {1, 3}, n \in 0 .. 4 : reported = SubSeq(Phases, m, n)
    <3>1. reported = SubSeq(Phases, 1, 0) \/ reported = SubSeq(Phases, 1, 1)
          \/ reported = SubSeq(Phases, 1, 2) \/ reported = SubSeq(Phases, 1, 3)
          \/ reported = SubSeq(Phases, 1, 4) \/ reported = SubSeq(Phases, 3, 3)
          \/ reported = SubSeq(Phases, 3, 4)
      BY <1>1, PhasesInSequence, Zenon DEF ReportedOK
    <3>2. /\ 1 \in {1, 3} /\ 3 \in {1, 3} /\ 0 \in 0 .. 4 /\ 1 \in 0 .. 4 /\ 2 \in 0 .. 4
          /\ 3 \in 0 .. 4 /\ 4 \in 0 .. 4
      OBVIOUS
    <3> QED  BY <3>1, <3>2, Zenon
  <2> QED  BY <2>1, <2>2
<1>3. ASSUME NEW n \in DOMAIN reported
      PROVE  /\ (reported[n] = "SegmentsCopied" /\ ~ touched)
                  => \A o \in Arena : arena[o] = Loaded(o)
             /\ reported[n] = "ArenaVerified" => \A o \in Arena : reads[o] > 0
             /\ reported[n] = "MemberViewsVerified"
                  => result = "Ok" /\ \A o \in MemberBytes : reads[o] > 1
  <2>1. reported[n] = "SegmentsCopied" => ~ At("copy")
    BY <1>1, <1>3 DEF CopyOK
  <2>2. (reported[n] = "SegmentsCopied" /\ ~ touched)
          => \A o \in Arena : arena[o] = Loaded(o)
    BY <1>1, <2>1 DEF UntouchedOK
  <2> QED  BY <1>1, <1>3, <2>2 DEF ReportedOK
<1> QED  BY <1>2, <1>3 DEF ReportedMeansDone

LEMMA InvTellsCounts ==
  ASSUME StagingInv, plan # None, result = "Ok", Idle
  PROVE  CountsAreTrue
<1>1. PlanOK /\ Whole /\ Confirmed(plan.size) /\ ViewsConfirmed(Len(plan.views) + 1)
  BY DEF StagingInv, IdleOK
<1>2. Arena = Bytes(0, plan.size)
  BY <1>1 DEF Whole
<1>3. /\ {o \in Arena : FilesAt(Outer, plan.base + o) # {}}
           = {o \in Bytes(0, plan.size) : IsFile(o)}
      /\ {o \in Arena : /\ MappedBy(Outer, plan.base + o)
                        /\ FilesAt(Outer, plan.base + o) = {}}
           = {o \in Bytes(0, plan.size) : IsTail(o)}
  BY <1>2 DEF IsFile, IsTail
<1>4. /\ counts.copied = Cardinality({o \in Bytes(0, plan.size) : IsFile(o)})
      /\ counts.tails = Cardinality({o \in Bytes(0, plan.size) : IsTail(o)})
      /\ counts.copied + counts.tails + counts.holes = plan.size
  BY <1>1 DEF Confirmed
<1>5. /\ counts.compared = Cardinality(MemberBytes)
      /\ counts.headers = Cardinality(Members)
  BY <1>1, ViewsAreTold DEF ViewsConfirmed, ViewsTell
<1> QED  BY <1>3, <1>4, <1>5 DEF CountsAreTrue

\* Whatever staging says of an arena is true of it, for every collection, every
\* order of its views and every change of the slice meanwhile: what it returns,
\* what it calls a mismatch, the phases it reports, and its counts.
THEOREM StagingIsTruthful == Spec => []StagingTellsTheTruth
<1>1. StagingInv => StagingTellsTheTruth
  <2> SUFFICES ASSUME StagingInv
               PROVE  StagingTellsTheTruth
    OBVIOUS
  <2>1. plan = None => ReportedMeansDone /\ CountsAreTrue
    BY DEF ReportedMeansDone, CountsAreTrue
  <2>2. plan # None => ReportedMeansDone
    BY InvTellsPhases
  <2>3. CountsAreTrue
    BY <2>1, InvTellsCounts DEF CountsAreTrue
  <2> QED  BY <2>1, <2>2, <2>3, InvTellsVerdicts DEF StagingTellsTheTruth
<1> QED  BY <1>1, StagingIsInv, PTL

-----------------------------------------------------------------------------
(* Handoffs *)

Placed ==
  INSTANCE Arm64Placement_proofs
    WITH kernel <- KernelOf, result <- outcome, backing <- None,
         Kernels <- {}, Backings <- {}, PhysicalLimit <- MaxAddress

-----------------------------------------------------------------------------
(* What a handoff keeps true *)

\* The slice has both of its parts.
Full == Arena = Bytes(0, layout.kernelBytes) /\ DOMAIN tail = TailBytes

Cleared == InCall("stage", "cleared")

InCollection == InCall("stage", "collection") \/ InCall("verify", "collection")

\* A staging has cleared the tail and not written to it.
Unwritten == Cleared \/ InCall("stage", "collection")

\* Before a plan is built nothing happens but failing attempts.
Unbuilt ==
  /\ StagingInv /\ plan = None /\ touched
  /\ tail = <<>> /\ step = None /\ told = <<>>

\* A plan is a staging plan and a layout that has room for it.
LayoutOK ==
  /\ Placed!LayoutHolds
  /\ layout.kernelPhys \in Nat /\ layout.kernelBytes \in Nat \ {0}
  /\ layout.argsPhys \in Nat /\ layout.treePhys \in Nat /\ layout.allocation \in Nat
  /\ plan.size = layout.kernelBytes

Planned ==
  /\ PlanOK /\ LayoutOK
  /\ counts \in [copied : Nat, tails : Nat, holes : Nat, headers : Nat,
                 segments : Nat, compared : Nat]

StepOK ==
  Resting \/ step \in [of : {"stage", "verify"}, at : {"cleared", "collection", "tail"},
                       next : Nat]

\* From the moment a staging has entered the collection, the front of a full
\* slice is as the collection's staging has it.
FrontOK ==
  /\ Full \/ Arena \cup DOMAIN tail # Bytes(0, layout.allocation)
  /\ ~ Resting => Full
  /\ Full => arena = [o \in Arena |-> arena[o]]
  /\ (Full /\ ~ Cleared) => StagingInv
  /\ ~ InCollection => Idle
  /\ (InCollection /\ Idle) => result \in {"Ok", "ReadbackMismatch"}

\* The tail up to "end" was read, and found right.
TailRead(end) ==
  /\ seen = Bytes(layout.kernelBytes, end)
  /\ \A o \in Bytes(layout.kernelBytes, end) \ tailDisturbed : tail[o] = Expected(o)

TailOK ==
  /\ (Unwritten /\ ~ tailTouched) => \A o \in TailBytes : tail[o] = 0
  /\ (Full /\ ~ Unwritten /\ ~ touched /\ ~ tailTouched) =>
       \A o \in TailBytes : tail[o] = Expected(o)
  /\ (Unwritten \/ InCollection) => seen = {}
  /\ InTail => /\ result = "Ok"
               /\ step.next \in layout.kernelBytes .. layout.allocation
               /\ TailRead(step.next)

VerdictOK ==
  Resting =>
    /\ (outcome = "Ok" /\ tail # <<>>) =>
         Full /\ result = "Ok" /\ TailRead(layout.allocation)
    /\ outcome = "ReadbackMismatch" => touched \/ tailTouched

\* The first n phases.
Heard(n) == SubSeq(HandoffPhases, 1, n)

\* The collection's phases so far are all told of, and those of a staging that
\* has succeeded are all there.
Relaying(n) ==
  \E m \in 1 .. 4 : /\ reported = SubSeq(Phases, 1, m) /\ n = m + 1
                    /\ (Idle /\ result = "Ok") => m = 4

ToldOK ==
  \E n \in 0 .. 7 :
    /\ told = Heard(n)
    /\ Cleared => n = 1
    /\ InCall("stage", "collection") => Relaying(n)
    /\ InCall("stage", "tail") => n = 6
    /\ (~ Resting /\ step.of = "verify") => n = 0
    /\ (Resting /\ n # 0) => (outcome = "Ok" <=> n = 7)
    /\ n >= 6 => Full /\ result = "Ok"

\* The inductive invariant of a handoff.
HandoffInv ==
  /\ FileOK /\ input \in Inputs
  /\ layout = None => Unbuilt
  /\ layout # None => Planned /\ StepOK /\ FrontOK /\ TailOK /\ VerdictOK /\ ToldOK

-----------------------------------------------------------------------------
(* Placement *)

\* Both instances place alike.
LEMMA SamePlacement ==
  /\ Placed!BuildCheck = Placement!BuildCheck
  /\ Placed!Layout = Placement!Layout /\ Placed!BootArgs = Placement!BootArgs
  /\ Placed!LayoutHolds = Placement!LayoutHolds
<1>1. /\ Placed!ArgsPhys = Placement!ArgsPhys /\ Placed!TreePhys = Placement!TreePhys
      /\ Placed!TreeEnd = Placement!TreeEnd
      /\ \A v : Placed!AlignUp(v) = Placement!AlignUp(v)
      /\ \A x, y : Placed!Region(x, y) = Placement!Region(x, y)
                   /\ Placed!RegionExists(x, y) = Placement!RegionExists(x, y)
                   /\ Placed!Contains(x, y) = Placement!Contains(x, y)
                   /\ Placed!Overlap(x, y) = Placement!Overlap(x, y)
  BY DEF Placed!ArgsPhys, Placement!ArgsPhys, Placed!TreePhys, Placement!TreePhys,
         Placed!TreeEnd, Placement!TreeEnd, Placed!AlignUp, Placement!AlignUp,
         Placed!Region, Placement!Region, Placed!RegionExists, Placement!RegionExists,
         Placed!Contains, Placement!Contains, Placed!Overlap, Placement!Overlap
<1>2. Placed!StackTop = Placement!StackTop /\ Placed!FrameBytes = Placement!FrameBytes
  BY <1>1 DEF Placed!StackTop, Placement!StackTop, Placed!FrameBytes, Placement!FrameBytes
<1>3. Placed!OccupiedEnd = Placement!OccupiedEnd
  BY <1>1, <1>2 DEF Placed!OccupiedEnd, Placement!OccupiedEnd
<1>4. Placed!Layout = Placement!Layout /\ Placed!BootArgs = Placement!BootArgs
  BY <1>1, <1>2, <1>3 DEF Placed!Layout, Placement!Layout, Placed!BootArgs, Placement!BootArgs
<1>5. Placed!Sums = Placement!Sums
  BY <1>1, <1>2, <1>3 DEF Placed!Sums, Placement!Sums
<1>6. /\ Placed!GeometryCheck = Placement!GeometryCheck
      /\ Placed!Corresponds = Placement!Corresponds
      /\ Placed!Ram = Placement!Ram /\ Placed!Occupied = Placement!Occupied
      /\ Placed!KernelRegion = Placement!KernelRegion
      /\ Placed!ArgsRegion = Placement!ArgsRegion /\ Placed!TreeRegion = Placement!TreeRegion
  BY <1>1, <1>3 DEF Placed!GeometryCheck, Placement!GeometryCheck, Placed!Corresponds,
     Placement!Corresponds, Placed!Ram, Placement!Ram, Placed!Occupied, Placement!Occupied,
     Placed!KernelRegion, Placement!KernelRegion, Placed!ArgsRegion, Placement!ArgsRegion,
     Placed!TreeRegion, Placement!TreeRegion
<1>7. Placed!DramCheck = Placement!DramCheck /\ Placed!TopIsFree = Placement!TopIsFree
  BY <1>1, <1>3, <1>6 DEF Placed!DramCheck, Placement!DramCheck, Placed!TopIsFree,
     Placement!TopIsFree
<1>8. Placed!ArgsCheck = Placement!ArgsCheck
  BY <1>1, <1>6, <1>7 DEF Placed!ArgsCheck, Placement!ArgsCheck
<1>9. Placed!BuildCheck = Placement!BuildCheck
  BY <1>4, <1>5, <1>6, <1>8 DEF Placed!BuildCheck, Placement!BuildCheck
<1>10. Placed!LayoutHolds = Placement!LayoutHolds
  BY DEF Placed!LayoutHolds, Placement!LayoutHolds, Placed!StackTopIsHigh,
     Placement!StackTopIsHigh
<1> QED  BY <1>4, <1>9, <1>10

\* What the placement's theorems assume of its constants.
LEMMA PlacementIsSound ==
  /\ Placed!SizesAreSound /\ None # "InvalidLayout"
  /\ \A i \in Inputs : Placed!InputIsSound(i)
<1>1. Placed!SizesAreSound
  BY HandoffAssumption DEF Placed!SizesAreSound, Placement!SizesAreSound
<1>2. ASSUME NEW i \in Inputs
      PROVE  Placed!InputIsSound(i)
  BY HandoffAssumption DEF Placed!InputIsSound, Placement!InputIsSound
<1> QED  BY <1>1, <1>2, HandoffAssumption

\* What a staging plan is like is what a placement takes for a kernel.
LEMMA KernelFits ==
  ASSUME FileOK, KernelOf.check = "Ok"
  PROVE  /\ InspectCheck = "Ok" /\ PlanCheck = "Ok"
         /\ Placed!KernelIsSound(KernelOf)
<1>1. InspectCheck = "Ok" /\ PlanCheck = "Ok"
  BY DEF KernelOf
<1>2. /\ KernelOf.base = Base /\ KernelOf.size = ArenaSize
      /\ KernelOf.header = HeaderAddress(Outer, 0) - Base
      /\ KernelOf.entry = Entry - Base
  BY <1>1 DEF KernelOf
<1>3. Accepted /\ Nonempty # {}
  BY <1>1 DEF Accepted, PlanCheck
<1>4. /\ Base \in Nat /\ ArenaSize \in Nat \ {0}
      /\ FirstAddress \in Nat /\ LastAddress \in Nat /\ Base <= FirstAddress
  BY <1>3, ArenaSpans
<1>5. MaxAddress \in Nat /\ PageSize \in Nat \ {0}
  BY CollectionAssumption, StagingAssumption, LayoutAssumption
<1>6. LastAddress + PageSize - 1 <= MaxAddress
  <2>1. ~ (LastAddress + PageSize - 1 > MaxAddress)
    BY <1>1, Zenon DEF PlanCheck
  <2> QED  BY <1>4, <1>5, <2>1
<1>7. /\ Base <= LastAddress /\ ArenaSize <= MaxAddress /\ ArenaSize % PageSize = 0
      /\ Base \in 0 .. MaxAddress
  <2> PICK v : v = LastAddress + PageSize - 1
    OBVIOUS
  <2>1. v \in Nat /\ LastAddress <= v /\ v <= MaxAddress
    BY <1>4, <1>5, <1>6
  <2> PICK up : up = PageStart(v)
    OBVIOUS
  <2>2. up \in Nat /\ up <= v /\ up % PageSize = 0
    BY <1>5, <2>1, RoundedDown DEF PageStart
  <2>3. Base % PageSize = 0
    BY <1>4, <1>5, RoundedDown DEF Base, PageStart
  <2>4. ArenaSize = up - Base
    BY DEF ArenaSize
  <2>5. Base <= up
    BY <1>4, <2>2, <2>4
  <2>6. (up - Base) % PageSize = 0
    BY <1>4, <1>5, <2>2, <2>3, <2>5, MultiplesAdd
  <2>7. Base <= LastAddress
    <3>1. PICK i \in Nonempty : TRUE
      BY <1>3
    <3>2. /\ FirstAddress <= Outer.commands[i].address
          /\ Outer.commands[i].address + Outer.commands[i].memory <= LastAddress
          /\ Outer.commands[i].address \in Nat /\ Outer.commands[i].memory \in Nat
      BY <1>3, <3>1, ArenaSpans DEF SegmentOK
    <3> QED  BY <1>4, <3>2
  <2>8. ArenaSize <= MaxAddress /\ Base <= MaxAddress
    BY <1>4, <1>5, <2>1, <2>2, <2>4, <2>7
  <2> QED  BY <1>4, <2>4, <2>6, <2>7, <2>8
<1>8. ASSUME NEW a \in Nat, NEW n \in Nat \ {0}, PlaceCheck(FileRange(a, n)) = "Ok"
      PROVE  a - Base \in 0 .. ArenaSize - 1
  <2>1. ~ (a < Base) /\ ~ (a - Base + n > ArenaSize)
    BY <1>8, Zenon DEF PlaceCheck, FileRange
  <2> QED  BY <1>4, <2>1
<1>9. /\ HeaderAddress(Outer, 0) - Base \in 0 .. ArenaSize - 1
      /\ Entry - Base \in 0 .. ArenaSize - 1
  <2>1. /\ HeaderAddress(Outer, 0) \in Nat /\ HeaderSize(Outer) \in Nat \ {0}
        /\ PlaceCheck(FileRange(HeaderAddress(Outer, 0), HeaderSize(Outer))) = "Ok"
    BY <1>3, HeaderFits, OuterParsed
  <2>2. Entry \in Nat /\ PlaceCheck(FileRange(Entry, 1)) = "Ok"
    BY <1>3, EntryFits
  <2> QED  BY <1>8, <2>1, <2>2
<1>10. ArenaSize \in 1 .. MaxAddress
  BY <1>4, <1>5, <1>7
<1> QED  BY <1>1, <1>2, <1>7, <1>9, <1>10 DEF Placed!KernelIsSound

\* Where the parts of a slice begin and end.
LEMMA PartsOfSlice ==
  ASSUME LayoutOK
  PROVE  /\ layout.kernelBytes \in Nat \ {0} /\ layout.allocation \in Nat
         /\ layout.kernelBytes < layout.allocation
         /\ ArgsOffset = layout.kernelBytes
         /\ TreeOffset = layout.kernelBytes + PageSize
         /\ PageSize \in Nat \ {0} /\ ArgsBytes \in Nat \ {0} /\ ArgsBytes <= PageSize
<1> PICK phys : phys = layout.kernelPhys
  OBVIOUS
<1> PICK bytes : bytes = layout.kernelBytes
  OBVIOUS
<1>1. /\ PageSize \in Nat \ {0} /\ ArgsBytes \in Nat \ {0} /\ ArgsBytes <= PageSize
  BY PlacementIsSound DEF Placed!SizesAreSound
<1>2. /\ layout.allocation > bytes
      /\ layout.argsPhys = phys + bytes
      /\ layout.treePhys = layout.argsPhys + PageSize
  BY DEF LayoutOK, Placed!LayoutHolds
<1>3. phys \in Nat /\ bytes \in Nat \ {0} /\ layout.allocation \in Nat
  BY DEF LayoutOK
<1>4. ArgsOffset = bytes /\ TreeOffset = bytes + PageSize
  BY <1>1, <1>2, <1>3 DEF ArgsOffset, TreeOffset
<1> QED  BY <1>1, <1>2, <1>3, <1>4

\* A staging writes behind the collection only, and what a readback expects.
LEMMA WritesBehindArena ==
  ASSUME LayoutOK
  PROVE  /\ \A byte : \A o \in Bytes(0, layout.kernelBytes) : Written(o, byte) = byte
         /\ \A o \in TailBytes : Written(o, 0) = Expected(o)
<1> PICK bytes : bytes = layout.kernelBytes
  OBVIOUS
<1>1. /\ bytes \in Nat /\ ArgsOffset = bytes /\ TreeOffset = bytes + PageSize
      /\ PageSize \in Nat /\ ArgsBytes \in Nat /\ ArgsBytes <= PageSize
  BY PartsOfSlice
<1>2. /\ \A o \in ArgsBytesAt : o \in Int /\ bytes <= o /\ o < bytes + PageSize
      /\ \A o \in TreeBytesAt : o \in Int /\ bytes + PageSize <= o
  <2>1. \A o \in ArgsBytesAt : o \in Int /\ bytes <= o /\ o <= bytes + ArgsBytes - 1
    BY <1>1 DEF ArgsBytesAt, Bytes
  <2>2. \A o \in TreeBytesAt : o \in Int /\ bytes + PageSize <= o
    BY <1>1 DEF TreeBytesAt, Bytes
  <2> QED  BY <1>1, <2>1, <2>2
<1>3. ASSUME NEW o \in Bytes(0, bytes)
      PROVE  o \notin ArgsBytesAt /\ o \notin TreeBytesAt
  <2>1. o \in Int /\ o < bytes
    BY <1>1 DEF Bytes
  <2> QED  BY <1>1, <1>2, <2>1
<1>4. ArgsBytesAt \cap TreeBytesAt = {}
  BY <1>1, <1>2
<1>5. \A byte : \A o \in Bytes(0, layout.kernelBytes) : Written(o, byte) = byte
  BY <1>3 DEF Written
<1>6. \A o : Written(o, 0) = Expected(o)
  BY <1>4 DEF Written, Expected
<1> QED  BY <1>5, <1>6

-----------------------------------------------------------------------------
(* What a step leaves alone stays true *)

LEMMA HandoffFixed ==
  ASSUME handoffPlan' = handoffPlan
  PROVE  /\ input' = input /\ layout' = layout /\ args' = args
         /\ TailBytes' = TailBytes /\ HandoffPhases' = HandoffPhases
         /\ \A o : Expected(o)' = Expected(o)
         /\ \A n : Heard(n)' = Heard(n)
<1>1. input' = input /\ layout' = layout /\ args' = args
  BY DEF handoffPlan
<1>2. ArgsOffset' = ArgsOffset /\ TreeOffset' = TreeOffset
  BY <1>1 DEF ArgsOffset, TreeOffset
<1>3. ArgsBytesAt' = ArgsBytesAt /\ TreeBytesAt' = TreeBytesAt
  BY <1>1, <1>2 DEF ArgsBytesAt, TreeBytesAt
<1>4. \A o : Expected(o)' = Expected(o)
  BY <1>2, <1>3 DEF Expected
<1> QED  BY <1>1, <1>4 DEF TailBytes, HandoffPhases, Heard

LEMMA PlannedFixed ==
  ASSUME Planned, planVars' = planVars, handoffPlan' = handoffPlan,
         (counts \in [copied : Nat, tails : Nat, holes : Nat, headers : Nat,
                      segments : Nat, compared : Nat])'
  PROVE  Planned'
<1>1. plan' = plan /\ PlanOK' = PlanOK
  BY PlanFixed
<1>2. layout' = layout
  BY DEF handoffPlan
<1>3. LayoutOK' = LayoutOK
  BY <1>1, <1>2 DEF LayoutOK, Placed!LayoutHolds, Placed!StackTopIsHigh
<1> QED  BY <1>1, <1>3 DEF Planned

-----------------------------------------------------------------------------
(* The phases told of *)

\* A prefix of a sequence grows by the next element.
LEMMA PrefixGrows ==
  ASSUME NEW S, NEW s \in Seq(S), NEW n \in 0 .. Len(s) - 1
  PROVE  Append(SubSeq(s, 1, n), s[n + 1]) = SubSeq(s, 1, n + 1)
<1>0. Len(s) \in Nat /\ n \in Nat
  OBVIOUS
<1> PICK t : t = SubSeq(s, 1, n)
  OBVIOUS
<1> PICK u : u = SubSeq(s, 1, n + 1)
  OBVIOUS
<1>1. t \in Seq(S) /\ Len(t) = n /\ \A i \in 1 .. n : t[i] = s[i]
  BY <1>0, SubSeqProperties
<1>2. u \in Seq(S) /\ Len(u) = n + 1 /\ \A i \in 1 .. n + 1 : u[i] = s[i]
  BY <1>0, SubSeqProperties
<1>3. s[n + 1] \in S
  BY <1>0
<1> PICK v : v = Append(t, s[n + 1])
  OBVIOUS
<1>4. /\ v \in Seq(S) /\ Len(v) = n + 1 /\ v[n + 1] = s[n + 1]
      /\ \A i \in 1 .. n : v[i] = t[i]
  BY <1>0, <1>1, <1>3, AppendProperties
<1>5. \A i \in 1 .. n + 1 : v[i] = u[i]
  BY <1>0, <1>1, <1>2, <1>4
<1>6. v = u
  BY <1>0, <1>2, <1>4, <1>5, SeqEqual
<1> QED  BY <1>6

LEMMA PhasesAreListed ==
  /\ HandoffPhases \in Seq({HandoffPhases[i] : i \in 1 .. 7}) /\ Len(HandoffPhases) = 7
  /\ HandoffPhases[1] = "DestinationInitialized"
  /\ HandoffPhases[2] = "CollectionInitialized"
  /\ HandoffPhases[3] = "CollectionSegmentsCopied"
  /\ HandoffPhases[4] = "CollectionArenaVerified"
  /\ HandoffPhases[5] = "CollectionMemberViewsVerified"
  /\ HandoffPhases[6] = "CollectionVerified"
  /\ HandoffPhases[7] = "TailVerified"
<1>1. /\ HandoffPhases[1] = "DestinationInitialized"
      /\ HandoffPhases[2] = "CollectionInitialized"
      /\ HandoffPhases[3] = "CollectionSegmentsCopied"
      /\ HandoffPhases[4] = "CollectionArenaVerified"
      /\ HandoffPhases[5] = "CollectionMemberViewsVerified"
      /\ HandoffPhases[6] = "CollectionVerified"
      /\ HandoffPhases[7] = "TailVerified"
  BY DEF HandoffPhases
<1>2. Len(HandoffPhases) = 7
  BY DEF HandoffPhases
<1>3. HandoffPhases \in Seq({HandoffPhases[i] : i \in 1 .. 7})
  <2> PICK S : S = {HandoffPhases[i] : i \in 1 .. 7}
    OBVIOUS
  <2>1. \A i \in 1 .. 7 : HandoffPhases[i] \in S
    OBVIOUS
  <2>2. DOMAIN HandoffPhases = 1 .. 7
    BY DEF HandoffPhases
  <2> PICK s : s = SubSeq(HandoffPhases, 1, 7)
    OBVIOUS
  <2>3. s \in Seq(S) /\ Len(s) = 7 /\ \A i \in 1 .. 7 : s[i] = HandoffPhases[i]
    BY <2>1, SubSeqProperties
  <2>4. HandoffPhases = [i \in 1 .. 7 |-> HandoffPhases[i]]
    BY DEF HandoffPhases
  <2>5. s = [i \in 1 .. 7 |-> s[i]]
    BY <2>3
  <2>6. s = HandoffPhases
    BY <2>3, <2>4, <2>5
  <2> QED  BY <2>3, <2>6
<1> QED  BY <1>1, <1>2, <1>3

LEMMA HeardGrows ==
  /\ Heard(0) = <<>>
  /\ \A n \in 0 .. 7 : Len(Heard(n)) = n
  /\ \A n \in 0 .. 6 : Append(Heard(n), HandoffPhases[n + 1]) = Heard(n + 1)
<1> PICK S : S = {HandoffPhases[i] : i \in 1 .. 7}
  OBVIOUS
<1> PICK s : s = HandoffPhases
  OBVIOUS
<1>1. s \in Seq(S) /\ Len(s) = 7
  BY PhasesAreListed
<1>2. \A n \in 0 .. 7 : SubSeq(s, 1, n) \in Seq(S) /\ Len(SubSeq(s, 1, n)) = n
  BY <1>1, SubSeqProperties
<1>3. \A n \in 0 .. 6 : Append(SubSeq(s, 1, n), s[n + 1]) = SubSeq(s, 1, n + 1)
  BY <1>1, PrefixGrows
<1>4. SubSeq(s, 1, 0) = <<>>
  BY <1>2
<1> QED  BY <1>2, <1>3, <1>4 DEF Heard

LEMMA StagingPhases ==
  /\ Phases[2] = "SegmentsCopied" /\ Phases[3] = "ArenaVerified"
  /\ Phases[4] = "MemberViewsVerified"
  /\ \A m \in 1 .. 4 : /\ Len(SubSeq(Phases, 1, m)) = m
                       /\ SubSeq(Phases, 1, m)[1] = "DestinationInitialized"
                       /\ Last(SubSeq(Phases, 1, m)) = Phases[m]
  /\ \A m \in 1 .. 3 : Append(SubSeq(Phases, 1, m), Phases[m + 1]) = SubSeq(Phases, 1, m + 1)
<1> PICK S : S = {"DestinationInitialized", "SegmentsCopied", "ArenaVerified",
                  "MemberViewsVerified"}
  OBVIOUS
<1> PICK s : s = Phases
  OBVIOUS
<1>1. /\ s[1] = "DestinationInitialized" /\ s[2] = "SegmentsCopied"
      /\ s[3] = "ArenaVerified" /\ s[4] = "MemberViewsVerified"
  BY DEF Phases
<1>2. \A i \in 1 .. 4 : s[i] \in S
  BY <1>1
<1>3. SubSeq(s, 1, 4) \in Seq(S) /\ Len(SubSeq(s, 1, 4)) = 4
  BY <1>2, SubSeqProperties
<1>4. s \in Seq(S) /\ Len(s) = 4
  BY <1>3, PhasesInSequence
<1>5. \A m \in 1 .. 4 : /\ Len(SubSeq(s, 1, m)) = m
                        /\ \A i \in 1 .. m : SubSeq(s, 1, m)[i] = s[i]
  BY <1>2, SubSeqProperties
<1>6. \A m \in 1 .. 4 : /\ Len(SubSeq(s, 1, m)) = m
                        /\ SubSeq(s, 1, m)[1] = "DestinationInitialized"
                        /\ Last(SubSeq(s, 1, m)) = s[m]
  BY <1>1, <1>5 DEF Last
<1>7. \A m \in 1 .. 3 : Append(SubSeq(s, 1, m), s[m + 1]) = SubSeq(s, 1, m + 1)
  BY <1>4, PrefixGrows
<1> QED  BY <1>1, <1>6, <1>7

\* What a step of a staging reports is the next phase.
LEMMA RunIsTold ==
  ASSUME StagingInv, plan # None, Continue,
         NEW m \in 1 .. 4, reported = SubSeq(Phases, 1, m)
  PROVE  \/ reported' = reported /\ ~ ViewsVerified
         \/ /\ m < 4 /\ reported' # reported
            /\ reported' = SubSeq(Phases, 1, m + 1)
            /\ Relayed(Last(reported')) = HandoffPhases[m + 2]
            /\ ViewsVerified => m = 3
<1>1. CopyOK /\ OuterOK /\ ViewsOK
  BY DEF StagingInv
<1>2. Len(reported) = m /\ reported[1] = "DestinationInitialized"
  BY StagingPhases
<1>3. ASSUME NEW x, m < 4, x = Phases[m + 1], reported' = Append(reported, x)
      PROVE  /\ reported' # reported /\ reported' = SubSeq(Phases, 1, m + 1)
             /\ Last(reported') = x
  <2>1. m \in 1 .. 3 /\ m + 1 \in 1 .. 4
    BY <1>3
  <2>2. reported' = SubSeq(Phases, 1, m + 1)
    BY <1>3, <2>1, StagingPhases
  <2>3. Len(reported') = m + 1 /\ Last(reported') = x
    BY <1>3, <2>1, <2>2, StagingPhases
  <2> QED  BY <1>2, <2>2, <2>3
<1>4. CASE SegmentsCopied
  <2>1. reported' = Append(reported, "SegmentsCopied") /\ At("copy")
    BY <1>4 DEF SegmentsCopied, Observe
  <2>2. m = 1
    BY <1>1, <1>2, <2>1 DEF CopyOK
  <2>3. reported' # reported /\ reported' = SubSeq(Phases, 1, m + 1)
        /\ Last(reported') = "SegmentsCopied"
    BY <1>3, <2>1, <2>2, StagingPhases
  <2>4. Relayed("SegmentsCopied") = HandoffPhases[3]
    BY PhasesAreListed DEF Relayed
  <2>5. ~ ViewsVerified
    BY <2>1 DEF ViewsVerified, At
  <2> QED  BY <2>2, <2>3, <2>4, <2>5
<1>5. CASE VerifyEnd
  <2>1. At("outer") /\ (reported' = reported \/ reported' = Append(reported, "ArenaVerified"))
    BY <1>5 DEF VerifyEnd, Observe, Mismatch
  <2>2. m = 2
    <3>1. reported = <<>> \/ reported = <<"DestinationInitialized", "SegmentsCopied">>
      BY <1>1, <2>1 DEF OuterOK
    <3>2. Len(<<>>) = 0
      OBVIOUS
    <3>3. Len(<<"DestinationInitialized", "SegmentsCopied">>) = 2
      BY PhasesInSequence, StagingPhases
    <3>4. m # 0
      OBVIOUS
    <3> QED  BY <1>2, <3>1, <3>2, <3>3, <3>4, Zenon
  <2>3. reported' = Append(reported, "ArenaVerified") =>
          /\ reported' # reported /\ reported' = SubSeq(Phases, 1, m + 1)
          /\ Last(reported') = "ArenaVerified"
    BY <1>3, <2>2, StagingPhases
  <2>4. Relayed("ArenaVerified") = HandoffPhases[4]
    BY PhasesAreListed DEF Relayed
  <2>5. ~ ViewsVerified
    BY <2>1 DEF ViewsVerified, At
  <2> QED  BY <2>1, <2>2, <2>3, <2>4, <2>5
<1>6. CASE ViewsVerified
  <2>1. At("views") /\ reported' = Append(reported, "MemberViewsVerified")
    BY <1>6 DEF ViewsVerified, Observe
  <2>2. m = 3
    <3>1. reported = <<"ArenaVerified">>
          \/ reported = <<"DestinationInitialized", "SegmentsCopied", "ArenaVerified">>
      BY <1>1, <2>1 DEF ViewsOK
    <3>2. <<"ArenaVerified">>[1] # "DestinationInitialized"
      OBVIOUS
    <3>3. Len(<<"DestinationInitialized", "SegmentsCopied", "ArenaVerified">>) = 3
      BY PhasesInSequence, StagingPhases
    <3> QED  BY <1>2, <3>1, <3>2, <3>3
  <2>3. reported' # reported /\ reported' = SubSeq(Phases, 1, m + 1)
        /\ Last(reported') = "MemberViewsVerified"
    BY <1>3, <2>1, <2>2, StagingPhases
  <2>4. Relayed("MemberViewsVerified") = HandoffPhases[5]
    BY PhasesAreListed DEF Relayed
  <2> QED  BY <2>2, <2>3, <2>4
<1>7. CASE CopySegment \/ VerifySegment \/ VerifyView
  <2>1. reported' = reported
    BY <1>7 DEF CopySegment, VerifySegment, VerifyView, Mismatch
  <2>2. CASE CopySegment \/ VerifySegment
    BY <2>1, <2>2 DEF CopySegment, VerifySegment, ViewsVerified, At
  <2>3. CASE VerifyView
    <3>1. PlanOK /\ At("views") /\ call.next <= Len(plan.views)
      BY <2>3 DEF StagingInv, VerifyView
    <3>2. ViewAhead
      BY <1>1, <3>1, ViewIsAhead
    <3>3. call.next \in Nat /\ Len(plan.views) \in Nat
      BY <3>2 DEF ViewAhead
    <3>4. ~ ViewsVerified
      BY <3>1, <3>3 DEF ViewsVerified
    <3> QED  BY <2>1, <3>4
  <2> QED  BY <1>7, <2>2, <2>3
<1> QED  BY <1>4, <1>5, <1>6, <1>7 DEF Continue

\* A call that goes on is a call.
LEMMA CallsGoOn ==
  ASSUME call \in [step : {"copy", "outer", "views"}, next : Nat, end : Nat],
         NEW n \in Nat, call' = [call EXCEPT !.next = @ + 1, !.end = n]
  PROVE  call' \in [step : {"copy", "outer", "views"}, next : Nat, end : Nat]
<1>1. call.next + 1 \in Nat
  OBVIOUS
<1> PICK m : m = call.next + 1
  OBVIOUS
<1>2. call' = [call EXCEPT !.next = m, !.end = n]
  OBVIOUS
<1> QED  BY <1>1, <1>2

\* A collection's call ends with one of two results, and changes no other.
LEMMA RunEnds ==
  ASSUME StagingInv, plan # None, Continue
  PROVE  /\ planVars' = planVars /\ DOMAIN arena' = DOMAIN arena
         /\ Idle' => \/ result' = "ReadbackMismatch" /\ reported' = reported
                     \/ result' = "Ok" /\ ViewsVerified
         /\ touched' = touched
         /\ ~ Idle
         /\ arena = [o \in Arena |-> arena[o]] => arena' = [o \in Arena' |-> arena'[o]]
<1>1. CallOK
  BY DEF StagingInv
<1>2. ~ Idle
  BY DEF Continue, CopySegment, SegmentsCopied, VerifySegment, VerifyEnd, VerifyView,
         ViewsVerified, At, Idle
<1>3. call \in [step : {"copy", "outer", "views"}, next : Nat, end : Nat]
  BY <1>1, <1>2 DEF CallOK
<1>4. CASE CopySegment
  <2>1. call' = [call EXCEPT !.next = @ + 1] /\ planVars' = planVars /\ touched' = touched
    BY <1>4 DEF CopySegment, historyVars
  <2>2. call' \in [step : {"copy", "outer", "views"}, next : Nat, end : Nat]
    BY <1>3, <2>1
  <2>3. call' # None
    BY <2>2, NoneAssumption
  <2>4. \E f : arena' = [o \in Arena |-> f[o]]
    <3>1. PICK f : f = [o \in Arena |->
            LET s == plan.segments[call.next] IN
            IF o \in Bytes(s.offset, s.offset + s.size)
              THEN Content(s.source + (o - s.offset)) ELSE arena[o]]
      OBVIOUS
    <3>2. arena' = f
      BY <1>4, <3>1 DEF CopySegment
    <3> QED  BY <3>1, <3>2
  <2>5. DOMAIN arena' = DOMAIN arena /\ arena' = [o \in Arena' |-> arena'[o]]
    BY <2>4 DEF Arena
  <2> QED  BY <1>2, <2>1, <2>3, <2>5 DEF Idle
<1>5. CASE SegmentsCopied
  <2>1. /\ call' = [step |-> "outer", next |-> 1, end |-> 0] /\ planVars' = planVars
        /\ touched' = touched /\ arena' = arena
    BY <1>5 DEF SegmentsCopied, BeginVerify, Enter, historyVars
  <2>2. call' # None
    BY <2>1, CallsAreRecords
  <2> QED  BY <1>2, <2>1, <2>2 DEF Idle, Arena
<1>6. CASE Mismatch
  BY <1>2, <1>6 DEF Mismatch, Return, historyVars, Arena
<1>8. PlanOK /\ OuterOK /\ ViewsOK
  BY DEF StagingInv
<1>7. CASE VerifySegment /\ ~ Mismatch
  <2>1. /\ call' = [call EXCEPT !.next = @ + 1, !.end = Segment.offset + Segment.memory]
        /\ planVars' = planVars /\ touched' = touched /\ arena' = arena
    BY <1>7 DEF VerifySegment, Read
  <2>2. SegmentAhead
    BY <1>7, <1>8, SegmentIsAhead DEF VerifySegment
  <2>3. Segment.offset + Segment.memory \in Nat
    BY <2>2 DEF SegmentAhead
  <2>4. call' \in [step : {"copy", "outer", "views"}, next : Nat, end : Nat]
    BY <1>3, <2>1, <2>3, CallsGoOn
  <2> QED  BY <1>2, <2>1, <2>4, NoneAssumption DEF Idle, Arena
<1>9. CASE VerifyEnd /\ ~ Mismatch
  <2>1. /\ call' = [step |-> "views", next |-> 1, end |-> 0]
        /\ planVars' = planVars /\ touched' = touched /\ arena' = arena
    BY <1>9 DEF VerifyEnd, Read
  <2>2. call' # None
    BY <2>1, CallsAreRecords
  <2> QED  BY <1>2, <2>1, <2>2 DEF Idle, Arena
<1>10. CASE VerifyView /\ ~ Mismatch
  <2>1. /\ call' = [call EXCEPT !.next = @ + 1, !.end = Max({@, View.offset + View.size})]
        /\ planVars' = planVars /\ touched' = touched /\ arena' = arena
    BY <1>10 DEF VerifyView, Read
  <2>2. ViewAhead
    BY <1>8, <1>10, ViewIsAhead DEF VerifyView
  <2>3. call.end \in Nat /\ View.offset + View.size \in Nat
    BY <2>2 DEF ViewAhead
  <2>4. Max({call.end, View.offset + View.size}) \in Nat
    BY <2>3, MaxOfTwo
  <2>5. call' \in [step : {"copy", "outer", "views"}, next : Nat, end : Nat]
    BY <1>3, <2>1, <2>4, CallsGoOn
  <2> QED  BY <1>2, <2>1, <2>5, NoneAssumption DEF Idle, Arena
<1>11. CASE ViewsVerified
  BY <1>2, <1>11 DEF ViewsVerified, Return, historyVars, Arena
<1> QED  BY <1>4, <1>5, <1>6, <1>7, <1>9, <1>10, <1>11 DEF Continue

-----------------------------------------------------------------------------
(* Each step keeps the invariant *)

\* A step of a call is told from none.
LEMMA StepsAreRecords ==
  ASSUME NEW of \in {"stage", "verify"}, NEW at \in {"cleared", "collection", "tail"},
         NEW next \in Nat, NEW s, s = [of |-> of, at |-> at, next |-> next]
  PROVE  /\ s # None /\ s.of = of /\ s.at = at /\ s.next = next
         /\ s \in [of : {"stage", "verify"}, at : {"cleared", "collection", "tail"},
                   next : Nat]
BY HandoffAssumption

LEMMA HandoffKept ==
  ASSUME HandoffInv, layout # None, planVars' = planVars, handoffPlan' = handoffPlan,
         (counts \in [copied : Nat, tails : Nat, holes : Nat, headers : Nat,
                      segments : Nat, compared : Nat])',
         StepOK', FrontOK', TailOK', VerdictOK', ToldOK'
  PROVE  HandoffInv'
<1>1. FileOK /\ input \in Inputs /\ Planned
  BY DEF HandoffInv
<1>2. Planned'
  BY <1>1, PlannedFixed
<1>3. FileOK' /\ input' \in Inputs /\ layout' = layout
  BY <1>1, PlanFixed, HandoffFixed
<1> QED  BY <1>2, <1>3 DEF HandoffInv

LEMMA HandoffInitHolds ==
  ASSUME HandoffInit
  PROVE  HandoffInv
<1>1. StagingInv
  BY InitHolds DEF HandoffInit
<1>2. FileOK
  BY <1>1 DEF StagingInv
<1>3. plan = None /\ touched
  BY DEF HandoffInit, Init
<1>4. /\ input \in Inputs /\ layout = None
      /\ tail = <<>> /\ step = None /\ told = <<>>
  BY DEF HandoffInit
<1> QED  BY <1>1, <1>2, <1>3, <1>4 DEF HandoffInv, Unbuilt

\* A layout that was built has room for the arena.
BuiltWell ==
  /\ Placed!LayoutHolds
  /\ layout.kernelPhys \in Nat /\ layout.kernelBytes \in Nat \ {0}
  /\ layout.argsPhys \in Nat /\ layout.treePhys \in Nat /\ layout.allocation \in Nat
  /\ layout.kernelBytes = KernelOf.size
  /\ layout # None

LEMMA LayoutsAreWell == Placed!LaidOut => BuiltWell
<1> SUFFICES ASSUME Placed!LaidOut
             PROVE  BuiltWell
  OBVIOUS
<1>1. /\ \A b \in {} : {b.ramBase, b.ramBytes, b.ramHost, b.tableBase, b.tableBytes,
                       b.tableHost} \subseteq 0 .. MaxAddress
      /\ \A k \in {} : Placed!KernelIsSound(k) /\ k.check # "InvalidLayout"
  OBVIOUS
<1>2. \A i \in Inputs : Placed!InputIsSound(i)
  BY PlacementIsSound
<1>3. Placed!SizesAreSound /\ None # "InvalidLayout"
  BY PlacementIsSound
<1> HIDE DEF Placed!SizesAreSound, Placed!InputIsSound, Placed!KernelIsSound,
             Placed!LaidOut, Placed!LayoutHolds
<1>4. Placed!LayoutHolds
  BY <1>1, <1>2, <1>3, Placed!BuiltLayoutHolds
<1> PICK phys : phys = input.kernelPhys
  OBVIOUS
<1>5. /\ layout = Placed!Layout
      /\ {input.physBase, input.virtBase, input.memory, phys,
          input.tree.bytes, KernelOf.base, KernelOf.size, KernelOf.header,
          KernelOf.entry} \subseteq Nat
      /\ KernelOf.size # 0
  BY <1>1, <1>2, <1>3, Placed!BuiltNumbers
<1>6. /\ {Placed!ArgsPhys, Placed!TreePhys, Placed!TreeEnd, Placed!StackTop,
          Placed!OccupiedEnd} \subseteq Nat
      /\ Placed!ArgsPhys = phys + KernelOf.size
      /\ Placed!ArgsPhys + ArgsBytes <= Placed!TreePhys
      /\ Placed!TreeEnd = Placed!TreePhys + input.tree.bytes
      /\ Placed!TreeEnd <= Placed!StackTop - StackBytes
      /\ Placed!StackTop <= Placed!OccupiedEnd
  BY <1>1, <1>2, <1>3, Placed!BuiltOrder
<1>7. layout = [kernelPhys |-> phys, kernelBytes |-> KernelOf.size,
                headerPhys |-> phys + KernelOf.header,
                entryPhys |-> phys + KernelOf.entry, argsPhys |-> Placed!ArgsPhys,
                treePhys |-> Placed!TreePhys, stackTop |-> Placed!StackTop,
                occupiedEnd |-> Placed!OccupiedEnd,
                allocation |-> Placed!OccupiedEnd - phys]
  BY <1>5 DEF Placed!Layout
<1>8. Placed!OccupiedEnd - phys \in Nat
  <2> PICK top : top = Placed!OccupiedEnd
    OBVIOUS
  <2>1. /\ phys \in Nat /\ top \in Nat
        /\ layout.occupiedEnd = layout.kernelPhys + layout.allocation
        /\ layout.allocation > layout.kernelBytes
    BY <1>4, <1>5, <1>6 DEF Placed!LayoutHolds
  <2>2. layout.allocation = top - phys /\ layout.kernelBytes \in Nat
    BY <1>5, <1>7
  <2>3. top - phys \in Nat
    BY <2>1, <2>2
  <2> QED  BY <2>3
<1>9. phys + KernelOf.header \in Nat /\ phys + KernelOf.entry \in Nat
  BY <1>5
<1>10. layout \in [kernelPhys : Nat, kernelBytes : Nat, headerPhys : Nat, entryPhys : Nat,
                  argsPhys : Nat, treePhys : Nat, stackTop : Nat, occupiedEnd : Nat,
                  allocation : Nat]
  BY <1>5, <1>6, <1>7, <1>8, <1>9
<1>11. layout.kernelBytes = KernelOf.size
  BY <1>7
<1>12. layout # None
  BY <1>10, HandoffAssumption
<1> QED  BY <1>4, <1>5, <1>10, <1>11, <1>12 DEF BuiltWell

LEMMA LayoutsBecomeWell == (Placed!LaidOut)' => BuiltWell'
BY LayoutsAreWell, PTL

\* What a file is planned as stays the same with the file.
LEMMA KernelIsFixed ==
  ASSUME file' = file
  PROVE  KernelOf' = KernelOf
<1>1. /\ InspectCheck' = InspectCheck /\ Base' = Base /\ ArenaSize' = ArenaSize
      /\ Outer' = Outer /\ Nonempty' = Nonempty /\ OuterMappings' = OuterMappings
      /\ Members' = Members /\ \A k : MemberImage(k)' = MemberImage(k)
  BY FileFixed
<1>2. LastAddress' = LastAddress
  BY <1>1 DEF LastAddress
<1>3. \A r : PlaceCheck(r)' = PlaceCheck(r) /\ SourceCheck(r)' = SourceCheck(r)
  BY <1>1 DEF PlaceCheck, SourceCheck
<1>4. \A m, s : MappingCheck(m, s)' = MappingCheck(m, s)
  BY <1>3 DEF MappingCheck
<1>5. FailingSegments' = FailingSegments
  BY <1>1, <1>4 DEF FailingSegments
<1>6. /\ HeaderAddress(Outer, 0)' = HeaderAddress(Outer, 0)
      /\ HeaderSize(Outer)' = HeaderSize(Outer) /\ Entry' = Entry
  BY <1>1 DEF HeaderAddress, HeaderHolders, Header, HeaderSize, Entry
<1>7. \A k, i : ViewMemory(k, i)' = ViewMemory(k, i) /\ ViewSource(k, i)' = ViewSource(k, i)
  BY <1>1 DEF ViewMemory, ViewSource
<1>8. Views' = Views
  <2>1. \A k : ViewIndices(k)' = ViewIndices(k)
    BY <1>1 DEF ViewIndices
  <2> QED  BY <1>1, <2>1 DEF Views
<1>9. \A of, memory, source : Mapping(of, memory, source)' = Mapping(of, memory, source)
  BY <1>1 DEF Mapping
<1>10. \A v : ViewCheck(v)' = ViewCheck(v)
  BY <1>1, <1>4, <1>7, <1>9 DEF ViewCheck
<1>11. FailingViews' = FailingViews
  BY <1>8, <1>10 DEF FailingViews
<1>12. ViewCheck(FirstView)' = ViewCheck(FirstView)
  BY <1>10, <1>11 DEF FirstView
<1>13. PlanCheck' = PlanCheck
  BY <1>1, <1>2, <1>3, <1>4, <1>5, <1>6, <1>11, <1>12 DEF PlanCheck
<1> QED  BY <1>1, <1>6, <1>13 DEF KernelOf

\* A plan that passes its checks is laid out as the placement lays it out.
LEMMA SoundlyLaidOut ==
  ASSUME Placed!InputIsSound(input), Placed!KernelIsSound(KernelOf),
         Placement!BuildCheck = "Ok", input' = input, KernelOf' = KernelOf,
         layout' = Placement!Layout, args' = Placement!BootArgs
  PROVE  (Placed!LaidOut)'
<1>1. /\ Placed!ArgsPhys' = Placed!ArgsPhys /\ Placed!TreePhys' = Placed!TreePhys
      /\ Placed!TreeEnd' = Placed!TreeEnd
  BY DEF Placed!ArgsPhys, Placed!TreePhys, Placed!TreeEnd
<1>2. Placed!StackTop' = Placed!StackTop /\ Placed!FrameBytes' = Placed!FrameBytes
  BY <1>1 DEF Placed!StackTop, Placed!FrameBytes, Placed!AlignUp
<1>3. Placed!OccupiedEnd' = Placed!OccupiedEnd
  BY <1>1, <1>2 DEF Placed!OccupiedEnd, Placed!AlignUp
<1>4. Placed!Layout' = Placed!Layout /\ Placed!BootArgs' = Placed!BootArgs
  BY <1>1, <1>2, <1>3 DEF Placed!Layout, Placed!BootArgs
<1>5. Placed!Sums' = Placed!Sums
  BY <1>1, <1>2, <1>3 DEF Placed!Sums
<1>6. /\ Placed!GeometryCheck' = Placed!GeometryCheck
      /\ Placed!Corresponds' = Placed!Corresponds
      /\ Placed!Ram' = Placed!Ram /\ Placed!Occupied' = Placed!Occupied
      /\ Placed!KernelRegion' = Placed!KernelRegion
      /\ Placed!ArgsRegion' = Placed!ArgsRegion /\ Placed!TreeRegion' = Placed!TreeRegion
  BY <1>1, <1>3 DEF Placed!GeometryCheck, Placed!Corresponds, Placed!Ram, Placed!Occupied,
     Placed!KernelRegion, Placed!ArgsRegion, Placed!TreeRegion, Placed!Region
<1>7. Placed!DramCheck' = Placed!DramCheck /\ Placed!TopIsFree' = Placed!TopIsFree
  BY <1>3, <1>6 DEF Placed!DramCheck, Placed!TopIsFree, Placed!RegionExists,
     Placed!Contains, Placed!Region
<1>8. Placed!ArgsCheck' = Placed!ArgsCheck
  BY <1>1, <1>6, <1>7 DEF Placed!ArgsCheck, Placed!RegionExists, Placed!Contains,
     Placed!Overlap
<1>9. Placed!BuildCheck' = Placed!BuildCheck
  BY <1>4, <1>5, <1>6, <1>8 DEF Placed!BuildCheck
<1>10. Placed!InputIsSound(input)' /\ Placed!KernelIsSound(KernelOf)'
  OBVIOUS
<1> QED  BY <1>4, <1>9, <1>10, SamePlacement DEF Placed!LaidOut

LEMMA BuildKeeps ==
  ASSUME HandoffInv, BuildHandoff
  PROVE  HandoffInv'
<1>1. /\ FileOK /\ input \in Inputs /\ layout = None /\ StagingInv /\ plan = None /\ touched
      /\ tail = <<>> /\ step = None /\ told = <<>> /\ input' = input
      /\ tail' = <<>> /\ step' = None /\ told' = <<>>
  BY DEF HandoffInv, Unbuilt, BuildHandoff
<1>2. CASE Placement!BuildCheck # "Ok"
  <2>1. stagingVars' = stagingVars /\ layout' = None
    BY <1>1, <1>2 DEF BuildHandoff
  <2>2. /\ planVars' = planVars /\ arena' = arena /\ call' = call /\ counts' = counts
        /\ reported' = reported /\ result' = result /\ reads' = reads
        /\ disturbed' = disturbed /\ touched' = touched
    BY <2>1 DEF stagingVars, vars, historyVars
  <2>3. StagingInv' /\ plan' = plan
    BY <1>1, <2>2, StutterKeeps DEF planVars
  <2>4. FileOK'
    BY <2>3 DEF StagingInv
  <2> QED  BY <1>1, <2>1, <2>2, <2>3, <2>4 DEF HandoffInv, Unbuilt
<1>3. CASE Placement!BuildCheck = "Ok"
  <2>1. /\ NewPlan /\ layout' = Placement!Layout /\ args' = Placement!BootArgs
        /\ outcome' = "Ok"
    BY <1>3 DEF BuildHandoff
  <2>2. KernelOf.check = "Ok"
    BY <1>3 DEF Placement!BuildCheck
  <2>3. InspectCheck = "Ok" /\ PlanCheck = "Ok" /\ Placed!KernelIsSound(KernelOf)
    BY <1>1, <2>2, KernelFits
  <2>4. file' = file /\ call' = call /\ arena' = arena /\ counts' = counts
    BY <2>1 DEF NewPlan
  <2>5. FileOK' /\ InspectCheck' = InspectCheck /\ StagingInv' /\ PlanOK'
    BY <1>1, <2>1, <2>3, <2>4, FileFixed, NewPlanKeeps, PlanIsMade
  <2>6. KernelOf' = KernelOf
    BY <2>4, KernelIsFixed
  <2>7. BuiltWell'
    <3>1. Placed!InputIsSound(input)
      BY <1>1, PlacementIsSound
    <3>2. (Placed!LaidOut)'
      BY <1>1, <1>3, <2>1, <2>3, <2>6, <3>1, SoundlyLaidOut
    <3> QED  BY <3>2, LayoutsBecomeWell
  <2>8. plan'.size = layout'.kernelBytes
    <3>1. plan'.size = ArenaSize'
      BY <2>5 DEF PlanOK
    <3>2. ArenaSize' = ArenaSize /\ KernelOf.size = ArenaSize
      BY <2>3, <2>4, FileFixed DEF KernelOf
    <3> QED  BY <2>6, <2>7, <3>1, <3>2 DEF BuiltWell
  <2>9. LayoutOK' /\ layout' # None
    BY <2>7, <2>8 DEF LayoutOK, BuiltWell
  <2>10. call = None /\ arena = <<>> /\ counts = ZeroCounts
    BY <1>1 DEF StagingInv, Unplanned
  <2>11. (counts \in [copied : Nat, tails : Nat, holes : Nat, headers : Nat,
                      segments : Nat, compared : Nat])'
    BY <2>4, <2>10 DEF ZeroCounts
  <2>12. Planned'
    BY <2>5, <2>9, <2>11 DEF Planned
  <2>13. Arena' = {} /\ DOMAIN tail' = {} /\ Bytes(0, layout'.kernelBytes) # {}
         /\ Bytes(0, layout'.allocation) # {}
    <3>1. layout'.kernelBytes \in Nat \ {0} /\ layout'.allocation > layout'.kernelBytes
          /\ layout'.allocation \in Nat
      BY <2>9 DEF LayoutOK, Placed!LayoutHolds
    <3>2. 0 \in Bytes(0, layout'.kernelBytes) /\ 0 \in Bytes(0, layout'.allocation)
      BY <3>1 DEF Bytes
    <3> QED  BY <1>1, <2>4, <2>10, <3>2 DEF Arena
  <2>14. ~ Full' /\ Resting' /\ ~ Cleared' /\ ~ InCollection' /\ ~ Unwritten' /\ ~ InTail'
    BY <1>1, <2>13 DEF Full, Resting, Cleared, InCollection, Unwritten, InTail, InCall
  <2>15. StepOK' /\ FrontOK'
    BY <2>4, <2>10, <2>13, <2>14 DEF StepOK, FrontOK, Idle
  <2>16. TailOK' /\ VerdictOK'
    BY <1>1, <2>1, <2>14 DEF TailOK, VerdictOK
  <2>17. ToldOK'
    <3>1. told' = Heard(0)'
      BY <1>1, HeardGrows DEF Heard, HandoffPhases
    <3>2. ~ InCall("stage", "collection")' /\ ~ InCall("stage", "tail")'
      BY <1>1 DEF InCall
    <3> QED  BY <2>14, <3>1, <3>2 DEF ToldOK
  <2> QED  BY <1>1, <2>5, <2>9, <2>12, <2>15, <2>16, <2>17 DEF HandoffInv
<1> QED  BY <1>2, <1>3

LEMMA MinOfTwo ==
  ASSUME NEW a \in Nat, NEW b \in Nat, b <= a
  PROVE  Min({a, b}) = b
<1>1. b \in {a, b} /\ \A y \in {a, b} : b <= y
  OBVIOUS
<1>2. Min({a, b}) \in {a, b} /\ \A y \in {a, b} : Min({a, b}) <= y
  BY <1>1 DEF Min
<1> QED  BY <1>2

\* The first phases that are heard.
LEMMA FirstHeard ==
  /\ Heard(0) = <<>> /\ Heard(1) = <<"DestinationInitialized">>
  /\ Append(Heard(1), "CollectionInitialized") = Heard(2)
  /\ Append(Heard(5), "CollectionVerified") = Heard(6)
  /\ Append(Heard(6), "TailVerified") = Heard(7)
<1>1. Append(Heard(0), HandoffPhases[1]) = Heard(1)
  BY HeardGrows
<1>2. Heard(0) = <<>> /\ HandoffPhases[1] = "DestinationInitialized"
  BY HeardGrows, PhasesAreListed
<1>3. Append(<<>>, "DestinationInitialized") = <<"DestinationInitialized">>
  OBVIOUS
<1>4. Append(Heard(1), HandoffPhases[2]) = Heard(2)
  BY HeardGrows
<1>5. Append(Heard(5), HandoffPhases[6]) = Heard(6)
  BY HeardGrows
<1>6. Append(Heard(6), HandoffPhases[7]) = Heard(7)
  BY HeardGrows
<1> QED  BY <1>1, <1>2, <1>3, <1>4, <1>5, <1>6, PhasesAreListed

LEMMA StageHandoffKeeps ==
  ASSUME HandoffInv, layout # None, NEW n \in {layout.allocation, layout.allocation - 1},
         StageHandoff(n)
  PROVE  HandoffInv'
<1> PICK bytes : bytes = layout.kernelBytes
  OBVIOUS
<1> PICK all : all = layout.allocation
  OBVIOUS
<1>1. Planned /\ FrontOK /\ Resting
  BY DEF HandoffInv, StageHandoff
<1>2. bytes \in Nat \ {0} /\ all \in Nat /\ bytes < all
  BY <1>1, PartsOfSlice DEF Planned
<1>3. /\ planVars' = planVars /\ call' = call /\ counts' = counts /\ reported' = reported
      /\ result' = result /\ handoffPlan' = handoffPlan /\ layout' = layout
  BY DEF StageHandoff, handoffPlan
<1>4. n \in Nat /\ bytes <= n
  BY <1>2
<1>5. Idle'
  <2>1. ~ InCollection
    BY <1>1 DEF InCollection, InCall, Resting
  <2> QED  BY <1>1, <1>3, <2>1 DEF FrontOK, Idle
<1>6. PICK fill : /\ fill = (IF n = all THEN 0 ELSE Garbage)
                  /\ arena' = [o \in Bytes(0, bytes) |-> fill]
                  /\ tail' = [o \in Bytes(bytes, n) |-> fill]
  <2>1. Min({n, bytes}) = bytes
    BY <1>2, <1>4, MinOfTwo
  <2> QED  BY <2>1 DEF StageHandoff
<1>7. /\ Arena' = Bytes(0, bytes) /\ DOMAIN tail' = Bytes(bytes, n)
      /\ arena' = [o \in Arena' |-> arena'[o]]
  BY <1>6 DEF Arena
<1>8. seen' = {}
  BY DEF StageHandoff
<1>9. (counts \in [copied : Nat, tails : Nat, holes : Nat, headers : Nat,
                   segments : Nat, compared : Nat])'
  BY <1>1, <1>3 DEF Planned
<1>10. TailBytes' = Bytes(bytes, all)
  BY <1>3 DEF TailBytes
<1>11. CASE n = all
  <2>1. /\ tailTouched' = FALSE /\ told' = <<"DestinationInitialized">>
        /\ step' = [of |-> "stage", at |-> "cleared", next |-> bytes]
    BY <1>11 DEF StageHandoff, Goto
  <2>2. /\ step' # None /\ step'.of = "stage" /\ step'.at = "cleared"
        /\ step' \in [of : {"stage", "verify"}, at : {"cleared", "collection", "tail"},
                      next : Nat]
    BY <1>2, <2>1, StepsAreRecords
  <2>3. /\ Cleared' /\ ~ InCollection' /\ ~ InTail' /\ ~ Resting' /\ Unwritten'
        /\ ~ InCall("stage", "collection")' /\ ~ InCall("stage", "tail")'
    BY <2>2 DEF Cleared, InCollection, InTail, InCall, Resting, Unwritten
  <2>4. Full'
    BY <1>3, <1>7, <1>10, <1>11 DEF Full
  <2>5. StepOK' /\ VerdictOK'
    BY <2>2, <2>3 DEF StepOK, VerdictOK
  <2>6. FrontOK'
    BY <1>5, <1>7, <2>3, <2>4 DEF FrontOK
  <2>7. TailOK'
    <3>1. \A o \in TailBytes' : tail'[o] = 0
      BY <1>6, <1>10, <1>11
    <3> QED  BY <1>8, <2>3, <3>1 DEF TailOK
  <2>8. ToldOK'
    <3>1. told' = Heard(1)'
      BY <1>3, <2>1, FirstHeard, HandoffFixed
    <3> QED  BY <2>2, <2>3, <3>1 DEF ToldOK
  <2> QED  BY <1>3, <1>9, <2>5, <2>6, <2>7, <2>8, HandoffKept
<1>12. CASE n # all
  <2>1. step' = None /\ told' = <<>> /\ outcome' = "DestinationSize"
    BY <1>12 DEF StageHandoff, Leave
  <2>2. /\ Resting' /\ ~ Cleared' /\ ~ InCollection' /\ ~ InTail' /\ ~ Unwritten'
        /\ ~ InCall("stage", "collection")' /\ ~ InCall("stage", "tail")'
    BY <2>1 DEF Cleared, InCollection, InTail, InCall, Resting, Unwritten
  <2>3. n = all - 1
    BY <1>12
  <2>4. /\ n \notin Bytes(0, bytes) /\ n \notin Bytes(bytes, n)
        /\ n \in Bytes(0, all) /\ n \in Bytes(bytes, all)
    BY <1>2, <1>4, <2>3 DEF Bytes
  <2>5. ~ Full' /\ (Arena \cup DOMAIN tail # Bytes(0, layout.allocation))'
    BY <1>3, <1>7, <1>10, <2>4 DEF Full
  <2>6. StepOK' /\ VerdictOK'
    BY <2>1, <2>2 DEF StepOK, VerdictOK
  <2>7. FrontOK'
    BY <1>5, <2>2, <2>5 DEF FrontOK
  <2>8. TailOK'
    BY <2>2, <2>5 DEF TailOK
  <2>9. ToldOK'
    <3>1. told' = Heard(0)'
      BY <1>3, <2>1, FirstHeard, HandoffFixed
    <3> QED  BY <2>2, <3>1 DEF ToldOK
  <2> QED  BY <1>3, <1>9, <2>6, <2>7, <2>8, <2>9, HandoffKept
<1> QED  BY <1>11, <1>12

\* What was read of a tail stays read, as long as neither changes.
LEMMA TailFixed ==
  ASSUME handoffPlan' = handoffPlan, tail' = tail, seen' = seen,
         tailDisturbed' = tailDisturbed
  PROVE  /\ \A e : TailRead(e)' = TailRead(e)
         /\ (\A o \in TailBytes : tail[o] = Expected(o))'
              = (\A o \in TailBytes : tail[o] = Expected(o))
         /\ (\A o \in TailBytes : tail[o] = 0)' = (\A o \in TailBytes : tail[o] = 0)
<1>1. /\ layout' = layout /\ TailBytes' = TailBytes /\ \A o : Expected(o)' = Expected(o)
  BY HandoffFixed
<1> QED  BY <1>1 DEF TailRead

\* What staging counts has its type as long as it goes on.
LEMMA CountsTyped ==
  ASSUME StagingInv'
  PROVE  (counts \in [copied : Nat, tails : Nat, holes : Nat, headers : Nat,
                      segments : Nat, compared : Nat])'
BY DEF StagingInv, SliceOK

\* The parts of a slice that neither grows nor shrinks.
LEMMA PartsFixed ==
  ASSUME handoffPlan' = handoffPlan, Arena' = Arena, DOMAIN tail' = DOMAIN tail
  PROVE  /\ Full' = Full
         /\ (Arena \cup DOMAIN tail # Bytes(0, layout.allocation))'
              = (Arena \cup DOMAIN tail # Bytes(0, layout.allocation))
BY HandoffFixed DEF Full

LEMMA StageCollectionKeeps ==
  ASSUME HandoffInv, layout # None, StageCollection
  PROVE  HandoffInv'
<1>1. /\ Planned /\ FrontOK /\ TailOK /\ ToldOK /\ Cleared
      /\ PlanOK /\ plan.size = layout.kernelBytes /\ layout.kernelBytes \in Nat \ {0}
  BY DEF HandoffInv, StageCollection, Cleared, Planned, LayoutOK
<1>2. Stage(plan.size) /\ plan # None /\ ~ Resting
  BY <1>1 DEF StageCollection, Stage, InCall, Resting
<1>3. StagingInv'
  BY <1>1, <1>2, StageBegins DEF Planned
<1>4. /\ planVars' = planVars /\ arena' = [o \in Bytes(0, plan.size) |-> 0]
      /\ reported' = <<"DestinationInitialized">>
      /\ call' = [step |-> "copy", next |-> 1, end |-> 0]
  BY <1>2 DEF Stage, Enter
<1>5. /\ handoffPlan' = handoffPlan /\ layout' = layout /\ tail' = tail /\ seen' = seen
      /\ tailDisturbed' = tailDisturbed /\ tailTouched' = tailTouched
      /\ told' = Append(told, "CollectionInitialized")
      /\ step' = [of |-> "stage", at |-> "collection", next |-> layout.kernelBytes]
  BY DEF StageCollection, Tell, Goto, handoffHistory, handoffPlan
<1>6. call' # None
  BY <1>4, CallsAreRecords
<1>7. /\ step' # None /\ step'.of = "stage" /\ step'.at = "collection"
      /\ step' \in [of : {"stage", "verify"}, at : {"cleared", "collection", "tail"},
                    next : Nat]
  BY <1>1, <1>5, StepsAreRecords
<1>8. /\ InCall("stage", "collection")' /\ ~ Cleared' /\ InCollection' /\ ~ InTail'
      /\ ~ Resting' /\ Unwritten' /\ ~ InCall("stage", "tail")'
  BY <1>7 DEF Cleared, InCollection, InTail, InCall, Resting, Unwritten
<1>9. Full
  BY <1>1, <1>2 DEF FrontOK
<1>10. Arena' = Arena /\ arena' = [o \in Arena' |-> arena'[o]]
  BY <1>1, <1>4, <1>9 DEF Full, Arena
<1>11. Full'
  BY <1>5, <1>9, <1>10, PartsFixed
<1>12. StepOK' /\ VerdictOK'
  BY <1>7, <1>8 DEF StepOK, VerdictOK
<1>13. FrontOK'
  BY <1>3, <1>6, <1>8, <1>10, <1>11 DEF FrontOK, Idle
<1>14. TailOK'
  <2>1. Unwritten /\ seen = {}
    BY <1>1 DEF Unwritten, TailOK
  <2> QED  BY <1>1, <1>5, <1>8, <2>1, TailFixed DEF TailOK
<1>15. ToldOK'
  <2>1. told = Heard(1)
    BY <1>1 DEF ToldOK
  <2>2. told' = Heard(2)'
    BY <1>5, <2>1, FirstHeard, HandoffFixed
  <2>3. reported' = SubSeq(Phases, 1, 1)
    BY <1>4, PhasesInSequence
  <2>4. ~ Idle'
    BY <1>6 DEF Idle
  <2>5. reported' = SubSeq(Phases', 1, 1)
    BY <2>3 DEF Phases
  <2>6. Relaying(2)'
    BY <2>4, <2>5 DEF Relaying
  <2> QED  BY <1>7, <1>8, <2>2, <2>6 DEF ToldOK
<1> QED  BY <1>3, <1>4, <1>5, <1>12, <1>13, <1>14, <1>15, CountsTyped, HandoffKept

LEMMA RunCollectionKeeps ==
  ASSUME HandoffInv, layout # None, RunCollection
  PROVE  HandoffInv'
<1>1. /\ Planned /\ FrontOK /\ TailOK /\ ToldOK /\ StepOK
      /\ InCollection /\ ~ Resting /\ ~ Cleared /\ ~ InTail
  BY DEF HandoffInv, RunCollection, InCollection, InCall, Resting, Cleared, InTail
<1>2. Full /\ StagingInv
  BY <1>1 DEF FrontOK
<1>3. Continue
  BY DEF RunCollection
<1>4. plan # None
  BY <1>2, <1>3 DEF Continue, CopySegment, SegmentsCopied, VerifySegment, VerifyEnd,
     VerifyView, ViewsVerified, At, StagingInv, Unplanned
<1>5. StagingInv'
  BY <1>2, <1>3, ContinueKeeps
<1>6. /\ planVars' = planVars /\ DOMAIN arena' = DOMAIN arena /\ touched' = touched
      /\ Idle' => \/ result' = "ReadbackMismatch" /\ reported' = reported
                  \/ result' = "Ok" /\ ViewsVerified
      /\ arena = [o \in Arena |-> arena[o]] => arena' = [o \in Arena' |-> arena'[o]]
  BY <1>2, <1>3, <1>4, RunEnds
<1>7. /\ handoffPlan' = handoffPlan /\ layout' = layout /\ tail' = tail /\ seen' = seen
      /\ tailDisturbed' = tailDisturbed /\ tailTouched' = tailTouched
      /\ step' = step /\ outcome' = outcome
  BY DEF RunCollection, handoffHistory, handoffPlan
<1>8. /\ InCollection' /\ ~ Resting' /\ ~ Cleared' /\ ~ InTail' /\ Unwritten' = Unwritten
      /\ InCall("stage", "collection")' = InCall("stage", "collection")
      /\ ~ InCall("stage", "tail")'
  BY <1>1, <1>7 DEF InCollection, InCall, Resting, Cleared, InTail, Unwritten
<1>9. Full'
  BY <1>2, <1>6, <1>7, PartsFixed DEF Arena
<1>10. StepOK' /\ VerdictOK'
  BY <1>1, <1>7, <1>8 DEF StepOK, VerdictOK
<1>11. FrontOK'
  <2>1. arena' = [o \in Arena' |-> arena'[o]]
    BY <1>1, <1>2, <1>6 DEF FrontOK
  <2> QED  BY <1>5, <1>6, <1>8, <1>9, <2>1 DEF FrontOK
<1>12. TailOK'
  BY <1>1, <1>2, <1>6, <1>7, <1>8, <1>9, TailFixed DEF TailOK
<1>13. ASSUME InCall("stage", "collection")
       PROVE  ToldOK'
  <2>1. step.of = "stage"
    BY <1>13 DEF InCall
  <2>2. PICK n \in 0 .. 7 :
          told = Heard(n) /\ Relaying(n)
    BY <1>1, <1>13 DEF ToldOK
  <2>3. PICK m \in 1 .. 4 : reported = SubSeq(Phases, 1, m) /\ n = m + 1
    BY <2>2 DEF Relaying
  <2>4. Phases' = Phases
    BY DEF Phases
  <2>5. \/ reported' = reported /\ ~ ViewsVerified
        \/ /\ m < 4 /\ reported' # reported
           /\ reported' = SubSeq(Phases, 1, m + 1)
           /\ Relayed(Last(reported')) = HandoffPhases[m + 2]
           /\ ViewsVerified => m = 3
    BY <1>2, <1>3, <1>4, <2>3, RunIsTold
  <2>6. CASE reported' = reported
    <3>1. told' = Heard(n)'
      BY <1>7, <2>2, <2>6, HandoffFixed DEF RunCollection
    <3>2. ~ (Idle' /\ result' = "Ok")
      BY <1>6, <2>5, <2>6
    <3>3. reported' = SubSeq(Phases', 1, m) /\ n < 6
      BY <2>3, <2>4, <2>6
    <3>4. Relaying(n)'
      BY <2>3, <3>2, <3>3 DEF Relaying
    <3> QED  BY <1>7, <1>8, <2>1, <3>1, <3>3, <3>4 DEF ToldOK
  <2>7. CASE reported' # reported
    <3>1. /\ m + 1 \in 1 .. 4 /\ m < 4 /\ n + 1 \in 0 .. 7 /\ n \in 0 .. 6 /\ n + 1 = m + 2
          /\ n + 1 < 6
      BY <2>3, <2>5, <2>7
    <3>2. told' = Append(Heard(n), HandoffPhases[n + 1])
      BY <2>1, <2>2, <2>5, <2>7, <3>1 DEF RunCollection
    <3>3. told' = Heard(n + 1)'
      BY <1>7, <3>1, <3>2, HeardGrows, HandoffFixed
    <3>4. (Idle' /\ result' = "Ok") => m + 1 = 4
      BY <1>6, <2>5, <2>7
    <3>5. reported' = SubSeq(Phases', 1, m + 1)
      BY <2>4, <2>5, <2>7
    <3>6. Relaying(n + 1)'
      BY <3>1, <3>4, <3>5 DEF Relaying
    <3> QED  BY <1>7, <1>8, <2>1, <3>1, <3>3, <3>6 DEF ToldOK
  <2> QED  BY <2>6, <2>7
<1>14. ASSUME InCall("verify", "collection")
       PROVE  ToldOK'
  <2>1. step.of = "verify" /\ ~ InCall("stage", "collection")
    BY <1>14 DEF InCall
  <2>2. told = Heard(0)
    BY <1>1, <2>1 DEF ToldOK
  <2>3. told' = Heard(0)'
    BY <1>7, <2>1, <2>2, HandoffFixed DEF RunCollection
  <2> QED  BY <1>8, <2>1, <2>3 DEF ToldOK
<1>15. ToldOK'
  BY <1>1, <1>13, <1>14 DEF InCollection
<1> QED  BY <1>5, <1>6, <1>7, <1>10, <1>11, <1>12, <1>15, CountsTyped, HandoffKept

\* A step that leaves the collection's call and its slice alone leaves its
\* invariant alone.
LEMMA CollectionRests ==
  ASSUME StagingInv, planVars' = planVars, arena' = arena, call' = call,
         counts' = counts, reported' = reported, result' = result, historyVars' = historyVars
  PROVE  /\ StagingInv' /\ Idle' = Idle /\ touched' = touched /\ Arena' = Arena
         /\ (counts \in [copied : Nat, tails : Nat, holes : Nat, headers : Nat,
                         segments : Nat, compared : Nat])'
<1>1. reads' = reads /\ disturbed' = disturbed /\ touched' = touched
  BY DEF historyVars
<1>2. StagingInv'
  BY <1>1, StutterKeeps
<1> QED  BY <1>1, <1>2, CountsTyped DEF Idle, Arena

\* A collection that reports phases has a plan.
LEMMA RelayingMeansPlan ==
  ASSUME StagingInv, NEW n, Relaying(n)
  PROVE  plan # None
<1>1. PICK m \in 1 .. 4 : reported = SubSeq(Phases, 1, m)
  BY DEF Relaying
<1>2. Len(reported) = m
  BY <1>1, StagingPhases
<1>3. Len(<<>>) = 0 /\ m # 0
  OBVIOUS
<1>4. reported # <<>>
  BY <1>2, <1>3, Zenon
<1> QED  BY <1>4 DEF StagingInv, Unplanned

LEMMA CollectionStagedKeeps ==
  ASSUME HandoffInv, layout # None, CollectionStaged
  PROVE  HandoffInv'
<1>1. /\ Planned /\ FrontOK /\ TailOK /\ ToldOK /\ LayoutOK
      /\ InCall("stage", "collection") /\ Idle
  BY DEF HandoffInv, CollectionStaged, Planned
<1>2. InCollection /\ ~ Cleared /\ ~ Resting /\ Unwritten /\ ~ InTail /\ step.of = "stage"
  BY <1>1 DEF InCollection, InCall, Cleared, Resting, Unwritten, InTail
<1>3. Full /\ StagingInv /\ seen = {} /\ arena = [o \in Arena |-> arena[o]]
      /\ result \in {"Ok", "ReadbackMismatch"}
  BY <1>1, <1>2 DEF FrontOK, TailOK
<1>4. /\ planVars' = planVars /\ call' = call /\ counts' = counts /\ reported' = reported
      /\ result' = result /\ historyVars' = historyVars /\ handoffPlan' = handoffPlan
      /\ seen' = seen /\ tailDisturbed' = tailDisturbed /\ tailTouched' = tailTouched
      /\ layout' = layout
  BY DEF CollectionStaged, handoffHistory, handoffPlan
<1>5. arena' = arena /\ DOMAIN tail' = DOMAIN tail
  <2>1. CASE arena' = arena /\ tail' = tail
    BY <2>1
  <2>2. CASE /\ arena' = [o \in Arena |-> Written(o, arena[o])]
             /\ tail' = [o \in DOMAIN tail |-> Written(o, tail[o])]
    <3>1. \A o \in Arena : Written(o, arena[o]) = arena[o]
      BY <1>1, <1>3, WritesBehindArena DEF Full
    <3>2. arena' = [o \in Arena |-> arena[o]]
      BY <2>2, <3>1
    <3> QED  BY <1>3, <2>2, <3>2
  <2> QED  BY <2>1, <2>2 DEF CollectionStaged
<1>6. /\ StagingInv' /\ Idle' /\ touched' = touched /\ Arena' = Arena
      /\ (counts \in [copied : Nat, tails : Nat, holes : Nat, headers : Nat,
                      segments : Nat, compared : Nat])'
  BY <1>1, <1>3, <1>4, <1>5, CollectionRests
<1>7. Full'
  BY <1>3, <1>4, <1>5, <1>6, PartsFixed
<1>8. arena' = [o \in Arena' |-> arena'[o]]
  BY <1>3, <1>5, <1>6
<1>9. PICK n \in 0 .. 7 : told = Heard(n) /\ Relaying(n)
  BY <1>1 DEF ToldOK
<1>10. PICK m \in 1 .. 4 : n = m + 1 /\ ((Idle /\ result = "Ok") => m = 4)
  BY <1>9 DEF Relaying
<1>11. CASE result # "Ok"
  <2>1. /\ result = "ReadbackMismatch" /\ step' = None /\ outcome' = "ReadbackMismatch"
        /\ tail' = tail /\ told' = told
    BY <1>3, <1>11 DEF CollectionStaged, Leave
  <2>2. /\ Resting' /\ ~ Cleared' /\ ~ InCollection' /\ ~ InTail' /\ ~ Unwritten'
        /\ ~ InCall("stage", "collection")' /\ ~ InCall("stage", "tail")'
    BY <2>1 DEF InCollection, InCall, Cleared, Resting, Unwritten, InTail
  <2>3. touched /\ touched'
    <3>1. plan # None
      BY <1>3, <1>9, RelayingMeansPlan
    <3> QED  BY <1>1, <1>3, <1>6, <2>1, <3>1 DEF StagingInv, IdleOK
  <2>4. StepOK' /\ VerdictOK'
    BY <2>1, <2>2, <2>3 DEF StepOK, VerdictOK
  <2>5. FrontOK'
    BY <1>6, <1>7, <1>8, <2>2 DEF FrontOK
  <2>6. TailOK'
    BY <2>2, <2>3 DEF TailOK
  <2>7. ToldOK'
    <3>1. told' = Heard(n)'
      BY <1>4, <1>9, <2>1, HandoffFixed
    <3>2. n < 6
      BY <1>10
    <3> QED  BY <2>1, <2>2, <3>1, <3>2 DEF ToldOK
  <2> QED  BY <1>4, <1>6, <2>4, <2>5, <2>6, <2>7, HandoffKept
<1>12. CASE result = "Ok"
  <2>1. /\ step' = [of |-> "stage", at |-> "tail", next |-> layout.kernelBytes]
        /\ tail' = [o \in DOMAIN tail |-> Written(o, tail[o])]
        /\ told' = Append(told, "CollectionVerified")
    BY <1>12 DEF CollectionStaged, Goto, Tell
  <2>2. layout.kernelBytes \in Nat /\ layout.allocation \in Nat
        /\ layout.kernelBytes < layout.allocation
    BY <1>1, PartsOfSlice
  <2>3. /\ step' # None /\ step'.of = "stage" /\ step'.at = "tail"
        /\ step'.next = layout.kernelBytes
        /\ step' \in [of : {"stage", "verify"}, at : {"cleared", "collection", "tail"},
                      next : Nat]
    BY <2>1, <2>2, StepsAreRecords
  <2>4. /\ ~ Resting' /\ ~ Cleared' /\ ~ InCollection' /\ InTail' /\ ~ Unwritten'
        /\ ~ InCall("stage", "collection")' /\ InCall("stage", "tail")'
    BY <2>3 DEF InCollection, InCall, Cleared, Resting, Unwritten, InTail
  <2>5. StepOK' /\ VerdictOK'
    BY <2>3, <2>4 DEF StepOK, VerdictOK
  <2>6. FrontOK'
    BY <1>6, <1>7, <1>8, <2>4 DEF FrontOK
  <2>7. ~ tailTouched' => (\A o \in TailBytes : tail[o] = Expected(o))'
    <3>1. SUFFICES ASSUME ~ tailTouched, NEW o \in TailBytes
                   PROVE  tail'[o] = Expected(o)
      BY <1>4, HandoffFixed
    <3>2. tail[o] = 0 /\ o \in DOMAIN tail
      BY <1>1, <1>2, <1>3, <3>1 DEF TailOK, Full
    <3>3. tail'[o] = Written(o, 0)
      BY <2>1, <3>2
    <3> QED  BY <1>1, <3>3, WritesBehindArena
  <2>8. TailRead(layout.kernelBytes)'
    <3>1. Bytes(layout.kernelBytes, layout.kernelBytes) = {}
      BY <2>2 DEF Bytes
    <3> QED  BY <1>3, <1>4, <3>1 DEF TailRead
  <2>9. TailOK'
    <3>1. layout.kernelBytes \in layout.kernelBytes .. layout.allocation
      BY <2>2
    <3>2. TailRead(step.next)'
      BY <1>4, <2>3, <2>8
    <3> QED  BY <1>4, <1>12, <2>3, <2>4, <2>7, <3>1, <3>2 DEF TailOK
  <2>10. ToldOK'
    <3>1. n = 5
      BY <1>1, <1>10, <1>12
    <3>2. told' = Heard(6)'
      BY <1>4, <1>9, <2>1, <3>1, FirstHeard, HandoffFixed
    <3> QED  BY <1>4, <1>7, <1>12, <2>3, <2>4, <3>2 DEF ToldOK
  <2> QED  BY <1>4, <1>6, <2>5, <2>6, <2>9, <2>10, HandoffKept
<1> QED  BY <1>11, <1>12

\* A full slice is as long as a layout says, and no other is.
LEMMA FullIsLong ==
  ASSUME LayoutOK, Full
  PROVE  /\ Arena \cup DOMAIN tail = Bytes(0, layout.allocation)
         /\ Cardinality(Arena) = plan.size
<1> PICK bytes : bytes = layout.kernelBytes
  OBVIOUS
<1> PICK all : all = layout.allocation
  OBVIOUS
<1>1. bytes \in Nat /\ all \in Nat /\ bytes < all
  BY PartsOfSlice
<1>2. Bytes(0, bytes) \cup Bytes(bytes, all) = Bytes(0, all)
  BY <1>1 DEF Bytes
<1>3. Cardinality(Bytes(0, bytes)) = bytes
  BY <1>1, BytesAreFinite
<1> QED  BY <1>2, <1>3 DEF Full, TailBytes, LayoutOK

LEMMA VerifyHandoffKeeps ==
  ASSUME HandoffInv, layout # None, VerifyHandoff
  PROVE  HandoffInv'
<1>1. /\ Planned /\ FrontOK /\ TailOK /\ LayoutOK /\ Resting
  BY DEF HandoffInv, VerifyHandoff, Planned
<1>2. ~ Unwritten /\ ~ Cleared /\ ~ InCollection
  BY <1>1 DEF InCollection, InCall, Cleared, Resting, Unwritten
<1>3. /\ handoffPlan' = handoffPlan /\ layout' = layout /\ tail' = tail
      /\ tailDisturbed' = tailDisturbed /\ tailTouched' = tailTouched
      /\ told' = <<>> /\ seen' = {}
  BY DEF VerifyHandoff, handoffPlan
<1>4. told' = Heard(0)'
  BY <1>3, FirstHeard, HandoffFixed
<1>5. CASE Arena \cup DOMAIN tail # Bytes(0, layout.allocation)
  <2>1. stagingVars' = stagingVars /\ step' = None /\ outcome' = "DestinationSize"
    BY <1>5 DEF VerifyHandoff, Leave
  <2>2. /\ planVars' = planVars /\ arena' = arena /\ call' = call /\ counts' = counts
    BY <2>1 DEF stagingVars, vars
  <2>3. /\ Resting' /\ ~ Cleared' /\ ~ InCollection' /\ ~ InTail' /\ ~ Unwritten'
        /\ ~ InCall("stage", "collection")' /\ ~ InCall("stage", "tail")'
    BY <2>1 DEF InCollection, InCall, Cleared, Resting, Unwritten, InTail
  <2>4. ~ Full
    BY <1>1, <1>5, FullIsLong
  <2>5. ~ Full' /\ (Arena \cup DOMAIN tail # Bytes(0, layout.allocation))'
    BY <1>3, <1>5, <2>2, <2>4, PartsFixed DEF Arena
  <2>6. Idle'
    BY <1>1, <1>2, <2>2 DEF FrontOK, Idle
  <2>7. StepOK' /\ VerdictOK'
    BY <2>1, <2>3 DEF StepOK, VerdictOK
  <2>8. FrontOK'
    BY <2>3, <2>5, <2>6 DEF FrontOK
  <2>9. TailOK'
    BY <2>3, <2>5 DEF TailOK
  <2>10. ToldOK'
    BY <1>4, <2>3 DEF ToldOK
  <2>11. (counts \in [copied : Nat, tails : Nat, holes : Nat, headers : Nat,
                      segments : Nat, compared : Nat])'
    BY <1>1, <2>2 DEF Planned
  <2> QED  BY <1>3, <2>2, <2>7, <2>8, <2>9, <2>10, <2>11, HandoffKept
<1>6. CASE Arena \cup DOMAIN tail = Bytes(0, layout.allocation)
  <2>1. Verify /\ step' = [of |-> "verify", at |-> "collection", next |-> layout.kernelBytes]
    BY <1>6 DEF VerifyHandoff, Goto
  <2>2. Full /\ StagingInv
    BY <1>1, <1>2, <1>6 DEF FrontOK
  <2>3. StagingInv'
    BY <2>1, <2>2, VerifyKeeps
  <2>4. /\ planVars' = planVars /\ arena' = arena /\ touched' = touched
        /\ call' = [step |-> "outer", next |-> 1, end |-> 0]
    BY <1>1, <2>1, <2>2, FullIsLong DEF Verify, BeginVerify, Enter
  <2>5. ~ Idle'
    BY <2>4, CallsAreRecords DEF Idle
  <2>6. /\ step' # None /\ step'.of = "verify" /\ step'.at = "collection"
        /\ step' \in [of : {"stage", "verify"}, at : {"cleared", "collection", "tail"},
                      next : Nat]
    BY <1>1, <2>1, StepsAreRecords DEF LayoutOK
  <2>7. /\ ~ Resting' /\ ~ Cleared' /\ InCollection' /\ ~ InTail' /\ ~ Unwritten'
        /\ ~ InCall("stage", "collection")' /\ ~ InCall("stage", "tail")'
    BY <2>6 DEF InCollection, InCall, Cleared, Resting, Unwritten, InTail
  <2>8. Full' /\ Arena' = Arena
    BY <1>3, <2>2, <2>4, PartsFixed DEF Arena
  <2>9. StepOK' /\ VerdictOK'
    BY <2>6, <2>7 DEF StepOK, VerdictOK
  <2>10. FrontOK'
    <3>1. arena' = [o \in Arena' |-> arena'[o]]
      BY <1>1, <2>2, <2>4, <2>8 DEF FrontOK
    <3> QED  BY <2>3, <2>5, <2>7, <2>8, <3>1 DEF FrontOK
  <2>11. TailOK'
    <3>1. ~ touched' /\ ~ tailTouched' => (\A o \in TailBytes : tail[o] = Expected(o))'
      BY <1>1, <1>2, <1>3, <2>2, <2>4, HandoffFixed DEF TailOK
    <3> QED  BY <1>3, <2>7, <3>1 DEF TailOK
  <2>12. ToldOK'
    BY <1>4, <2>6, <2>7 DEF ToldOK
  <2> QED  BY <1>3, <2>3, <2>4, <2>9, <2>10, <2>11, <2>12, CountsTyped, HandoffKept
<1> QED  BY <1>5, <1>6

LEMMA CollectionVerifiedAgainKeeps ==
  ASSUME HandoffInv, layout # None, CollectionVerifiedAgain
  PROVE  HandoffInv'
<1>1. /\ Planned /\ FrontOK /\ TailOK /\ ToldOK /\ LayoutOK
      /\ InCall("verify", "collection") /\ Idle
  BY DEF HandoffInv, CollectionVerifiedAgain, Planned
<1>2. /\ InCollection /\ ~ Cleared /\ ~ Resting /\ ~ Unwritten /\ ~ InTail
      /\ step.of = "verify"
  BY <1>1 DEF InCollection, InCall, Cleared, Resting, Unwritten, InTail
<1>3. /\ Full /\ StagingInv /\ seen = {} /\ arena = [o \in Arena |-> arena[o]]
      /\ result \in {"Ok", "ReadbackMismatch"} /\ told = Heard(0)
  BY <1>1, <1>2 DEF FrontOK, TailOK, ToldOK
<1>4. /\ stagingVars' = stagingVars /\ handoffPlan' = handoffPlan /\ tail' = tail
      /\ told' = told /\ handoffHistory' = handoffHistory
  BY DEF CollectionVerifiedAgain
<1>5. /\ planVars' = planVars /\ call' = call /\ counts' = counts /\ reported' = reported
      /\ result' = result /\ historyVars' = historyVars /\ arena' = arena
      /\ seen' = seen /\ tailDisturbed' = tailDisturbed /\ tailTouched' = tailTouched
      /\ layout' = layout
  BY <1>4 DEF stagingVars, vars, handoffHistory, handoffPlan
<1>6. /\ StagingInv' /\ Idle' /\ touched' = touched /\ Arena' = Arena
      /\ (counts \in [copied : Nat, tails : Nat, holes : Nat, headers : Nat,
                      segments : Nat, compared : Nat])'
  BY <1>1, <1>3, <1>5, CollectionRests
<1>7. Full'
  BY <1>3, <1>4, <1>6, PartsFixed
<1>8. arena' = [o \in Arena' |-> arena'[o]]
  BY <1>3, <1>5, <1>6
<1>9. told' = Heard(0)'
  BY <1>3, <1>4, HandoffFixed
<1>10. CASE result # "Ok"
  <2>1. result = "ReadbackMismatch" /\ step' = None /\ outcome' = "ReadbackMismatch"
    BY <1>3, <1>10 DEF CollectionVerifiedAgain, Leave
  <2>2. /\ Resting' /\ ~ Cleared' /\ ~ InCollection' /\ ~ InTail' /\ ~ Unwritten'
        /\ ~ InCall("stage", "collection")' /\ ~ InCall("stage", "tail")'
    BY <2>1 DEF InCollection, InCall, Cleared, Resting, Unwritten, InTail
  <2>3. touched'
    BY <1>1, <1>3, <1>6, <2>1 DEF StagingInv, IdleOK, Unplanned
  <2>4. StepOK' /\ VerdictOK'
    BY <2>1, <2>2, <2>3 DEF StepOK, VerdictOK
  <2>5. FrontOK'
    BY <1>6, <1>7, <1>8, <2>2 DEF FrontOK
  <2>6. TailOK'
    BY <2>2, <2>3 DEF TailOK
  <2>7. ToldOK'
    BY <1>9, <2>2 DEF ToldOK
  <2> QED  BY <1>4, <1>5, <1>6, <2>4, <2>5, <2>6, <2>7, HandoffKept
<1>11. CASE result = "Ok"
  <2>1. step' = [of |-> "verify", at |-> "tail", next |-> layout.kernelBytes]
    BY <1>11 DEF CollectionVerifiedAgain, Goto
  <2>2. layout.kernelBytes \in Nat /\ layout.allocation \in Nat
        /\ layout.kernelBytes < layout.allocation
    BY <1>1, PartsOfSlice
  <2>3. /\ step' # None /\ step'.of = "verify" /\ step'.at = "tail"
        /\ step'.next = layout.kernelBytes
        /\ step' \in [of : {"stage", "verify"}, at : {"cleared", "collection", "tail"},
                      next : Nat]
    BY <2>1, <2>2, StepsAreRecords
  <2>4. /\ ~ Resting' /\ ~ Cleared' /\ ~ InCollection' /\ InTail' /\ ~ Unwritten'
        /\ ~ InCall("stage", "collection")' /\ ~ InCall("stage", "tail")'
    BY <2>3 DEF InCollection, InCall, Cleared, Resting, Unwritten, InTail
  <2>5. StepOK' /\ VerdictOK'
    BY <2>3, <2>4 DEF StepOK, VerdictOK
  <2>6. FrontOK'
    BY <1>6, <1>7, <1>8, <2>4 DEF FrontOK
  <2>7. TailRead(layout.kernelBytes)'
    <3>1. Bytes(layout.kernelBytes, layout.kernelBytes) = {}
      BY <2>2 DEF Bytes
    <3> QED  BY <1>3, <1>5, <3>1 DEF TailRead
  <2>8. TailOK'
    <3>1. layout.kernelBytes \in layout.kernelBytes .. layout.allocation
      BY <2>2
    <3>2. TailRead(step.next)'
      BY <1>5, <2>3, <2>7
    <3>3. ~ touched' /\ ~ tailTouched' => (\A o \in TailBytes : tail[o] = Expected(o))'
      BY <1>1, <1>2, <1>3, <1>4, <1>5, <1>6, TailFixed DEF TailOK
    <3> QED  BY <1>5, <1>11, <2>3, <2>4, <3>1, <3>2, <3>3 DEF TailOK
  <2>9. ToldOK'
    BY <1>9, <2>3, <2>4 DEF ToldOK
  <2> QED  BY <1>4, <1>5, <1>6, <2>5, <2>6, <2>8, <2>9, HandoffKept
<1> QED  BY <1>10, <1>11

LEMMA CheckTailKeeps ==
  ASSUME HandoffInv, layout # None, CheckTail
  PROVE  HandoffInv'
<1> PICK o : o = step.next
  OBVIOUS
<1>1. /\ Planned /\ FrontOK /\ TailOK /\ ToldOK /\ LayoutOK /\ StepOK
      /\ InTail /\ o \in DOMAIN tail
  BY DEF HandoffInv, CheckTail, Planned
<1>2. ~ InCollection /\ ~ Cleared /\ ~ Resting /\ ~ Unwritten
  BY <1>1 DEF InCollection, InCall, Cleared, Resting, Unwritten, InTail
<1>3. /\ Full /\ StagingInv /\ Idle /\ arena = [b \in Arena |-> arena[b]]
      /\ result = "Ok" /\ TailRead(o)
  BY <1>1, <1>2 DEF FrontOK, TailOK
<1>4. /\ stagingVars' = stagingVars /\ handoffPlan' = handoffPlan /\ tail' = tail
      /\ told' = told /\ tailTouched' = tailTouched
  BY DEF CheckTail
<1>5. /\ planVars' = planVars /\ call' = call /\ counts' = counts /\ reported' = reported
      /\ result' = result /\ historyVars' = historyVars /\ arena' = arena
      /\ layout' = layout
  BY <1>4 DEF stagingVars, vars, handoffPlan
<1>6. /\ StagingInv' /\ Idle' /\ touched' = touched /\ Arena' = Arena
      /\ (counts \in [copied : Nat, tails : Nat, holes : Nat, headers : Nat,
                      segments : Nat, compared : Nat])'
  BY <1>3, <1>5, CollectionRests
<1>7. Full'
  BY <1>3, <1>4, <1>6, PartsFixed
<1>8. arena' = [b \in Arena' |-> arena'[b]]
  BY <1>3, <1>5, <1>6
<1>9. PICK n \in 0 .. 7 :
        /\ told = Heard(n)
        /\ InCall("stage", "tail") => n = 6
        /\ (~ Resting /\ step.of = "verify") => n = 0
  BY <1>1 DEF ToldOK
<1>10. told' = Heard(n)' /\ n \in {0, 6}
  BY <1>1, <1>2, <1>4, <1>9, HandoffFixed DEF InTail, InCall
<1>11. CASE tail[o] # Expected(o)
  <2>1. step' = None /\ outcome' = "ReadbackMismatch"
    BY <1>11 DEF CheckTail, Leave
  <2>2. /\ Resting' /\ ~ Cleared' /\ ~ InCollection' /\ ~ InTail' /\ ~ Unwritten'
        /\ ~ InCall("stage", "collection")' /\ ~ InCall("stage", "tail")'
    BY <2>1 DEF InCollection, InCall, Cleared, Resting, Unwritten, InTail
  <2>3. touched' \/ tailTouched'
    BY <1>1, <1>2, <1>3, <1>4, <1>6, <1>11 DEF TailOK, Full
  <2>4. StepOK' /\ VerdictOK'
    BY <2>1, <2>2, <2>3 DEF StepOK, VerdictOK
  <2>5. FrontOK'
    BY <1>6, <1>7, <1>8, <2>2 DEF FrontOK
  <2>6. TailOK'
    BY <2>2, <2>3 DEF TailOK
  <2>7. ToldOK'
    BY <1>3, <1>5, <1>7, <1>10, <2>1, <2>2 DEF ToldOK
  <2> QED  BY <1>4, <1>5, <1>6, <2>4, <2>5, <2>6, <2>7, HandoffKept
<1>12. CASE tail[o] = Expected(o)
  <2>1. /\ step' = [step EXCEPT !.next = o + 1] /\ outcome' = outcome
        /\ seen' = seen \cup {o} /\ tailDisturbed' = tailDisturbed \ {o}
    BY <1>12 DEF CheckTail
  <2> PICK bytes : bytes = layout.kernelBytes
    OBVIOUS
  <2> PICK all : all = layout.allocation
    OBVIOUS
  <2>2. bytes \in Nat /\ all \in Nat /\ TailBytes = Bytes(bytes, all)
    BY <1>1, PartsOfSlice DEF TailBytes
  <2>3. o \in Nat /\ bytes <= o /\ o + 1 <= all
    BY <1>1, <1>3, <2>2 DEF Full, Bytes
  <2>4. step \in [of : {"stage", "verify"}, at : {"cleared", "collection", "tail"},
                  next : Nat]
    BY <1>1, <1>2 DEF StepOK
  <2>5. /\ step'.of = step.of /\ step'.at = step.at /\ step'.next = o + 1
        /\ step' \in [of : {"stage", "verify"}, at : {"cleared", "collection", "tail"},
                      next : Nat]
    BY <2>1, <2>3, <2>4
  <2>6. step' # None
    BY <2>5, HandoffAssumption
  <2>7. /\ ~ Resting' /\ ~ Cleared' /\ ~ InCollection' /\ InTail' /\ ~ Unwritten'
        /\ ~ InCall("stage", "collection")'
        /\ InCall("stage", "tail")' => InCall("stage", "tail")
    BY <1>1, <2>5, <2>6 DEF InCollection, InCall, Cleared, Resting, Unwritten, InTail
  <2>8. StepOK' /\ VerdictOK'
    BY <2>5, <2>7 DEF StepOK, VerdictOK
  <2>9. FrontOK'
    BY <1>6, <1>7, <1>8, <2>7 DEF FrontOK
  <2>10. TailRead(o + 1)'
    <3>1. Bytes(bytes, o + 1) = Bytes(bytes, o) \cup {o}
      BY <2>2, <2>3 DEF Bytes
    <3>2. seen' = Bytes(bytes, o + 1)
      BY <1>3, <2>1, <3>1 DEF TailRead
    <3>3. \A b \in Bytes(bytes, o + 1) \ tailDisturbed' : tail[b] = Expected(b)
      BY <1>3, <1>12, <2>1, <3>1 DEF TailRead
    <3> QED  BY <1>4, <1>5, <3>2, <3>3, HandoffFixed DEF TailRead
  <2>11. TailOK'
    <3>1. o + 1 \in bytes .. all
      BY <2>2, <2>3
    <3>2. TailRead(step.next)'
      BY <2>5, <2>10
    <3>3. ~ touched' /\ ~ tailTouched' => (\A b \in TailBytes : tail[b] = Expected(b))'
      BY <1>1, <1>2, <1>3, <1>4, <1>6, HandoffFixed DEF TailOK
    <3> QED  BY <1>3, <1>5, <2>5, <2>7, <3>1, <3>2, <3>3 DEF TailOK
  <2>12. ToldOK'
    <3>1. ~ Resting' /\ step'.of = "verify" => n = 0
      BY <1>2, <1>9, <2>5
    <3>2. InCall("stage", "tail")' => n = 6
      BY <1>9, <2>7
    <3> QED  BY <1>3, <1>5, <1>7, <1>10, <2>7, <3>1, <3>2 DEF ToldOK
  <2> QED  BY <1>4, <1>5, <1>6, <2>8, <2>9, <2>11, <2>12, HandoffKept
<1> QED  BY <1>11, <1>12

LEMMA TailCheckedKeeps ==
  ASSUME HandoffInv, layout # None, TailChecked
  PROVE  HandoffInv'
<1>1. /\ Planned /\ FrontOK /\ TailOK /\ ToldOK /\ LayoutOK /\ StepOK
      /\ InTail /\ step.next \notin DOMAIN tail
  BY DEF HandoffInv, TailChecked, Planned
<1>2. ~ InCollection /\ ~ Cleared /\ ~ Resting /\ ~ Unwritten
  BY <1>1 DEF InCollection, InCall, Cleared, Resting, Unwritten, InTail
<1>3. /\ Full /\ StagingInv /\ Idle /\ arena = [b \in Arena |-> arena[b]]
      /\ result = "Ok" /\ TailRead(step.next)
      /\ step.next \in layout.kernelBytes .. layout.allocation
  BY <1>1, <1>2 DEF FrontOK, TailOK
<1>4. /\ stagingVars' = stagingVars /\ handoffPlan' = handoffPlan /\ tail' = tail
      /\ handoffHistory' = handoffHistory /\ step' = None /\ outcome' = "Ok"
  BY DEF TailChecked, Leave
<1>5. /\ planVars' = planVars /\ call' = call /\ counts' = counts /\ reported' = reported
      /\ result' = result /\ historyVars' = historyVars /\ arena' = arena
      /\ seen' = seen /\ tailDisturbed' = tailDisturbed /\ tailTouched' = tailTouched
      /\ layout' = layout
  BY <1>4 DEF stagingVars, vars, handoffHistory, handoffPlan
<1>6. /\ StagingInv' /\ Idle' /\ touched' = touched /\ Arena' = Arena
      /\ (counts \in [copied : Nat, tails : Nat, holes : Nat, headers : Nat,
                      segments : Nat, compared : Nat])'
  BY <1>3, <1>5, CollectionRests
<1>7. Full'
  BY <1>3, <1>4, <1>6, PartsFixed
<1>8. arena' = [b \in Arena' |-> arena'[b]]
  BY <1>3, <1>5, <1>6
<1>9. step.next = layout.allocation
  <2>1. layout.kernelBytes \in Nat /\ layout.allocation \in Nat
    BY <1>1, PartsOfSlice
  <2> QED  BY <1>1, <1>3, <2>1 DEF Full, TailBytes, Bytes
<1>10. /\ Resting' /\ ~ Cleared' /\ ~ InCollection' /\ ~ InTail' /\ ~ Unwritten'
       /\ ~ InCall("stage", "collection")' /\ ~ InCall("stage", "tail")'
  BY <1>4 DEF InCollection, InCall, Cleared, Resting, Unwritten, InTail
<1>11. StepOK' /\ VerdictOK'
  <2>1. TailRead(layout.allocation)'
    BY <1>3, <1>4, <1>5, <1>9, TailFixed
  <2> QED  BY <1>3, <1>4, <1>5, <1>7, <1>10, <2>1 DEF StepOK, VerdictOK
<1>12. FrontOK'
  BY <1>6, <1>7, <1>8, <1>10 DEF FrontOK
<1>13. TailOK'
  <2>1. ~ touched' /\ ~ tailTouched' => (\A b \in TailBytes : tail[b] = Expected(b))'
    BY <1>1, <1>2, <1>3, <1>4, <1>5, <1>6, HandoffFixed DEF TailOK
  <2> QED  BY <1>10, <2>1 DEF TailOK
<1>14. ToldOK'
  <2>1. CASE step.of = "stage"
    <3>1. told = Heard(6) /\ told' = Append(told, "TailVerified")
      BY <1>1, <2>1 DEF ToldOK, InTail, InCall, TailChecked
    <3>2. told' = Heard(7)'
      BY <1>4, <3>1, FirstHeard, HandoffFixed
    <3> QED  BY <1>3, <1>4, <1>5, <1>7, <1>10, <3>2 DEF ToldOK
  <2>2. CASE step.of # "stage"
    <3>1. step.of = "verify"
      BY <1>1, <2>2 DEF InTail, InCall
    <3>2. told = Heard(0) /\ told' = told
      BY <1>1, <1>2, <2>2, <3>1 DEF ToldOK, TailChecked
    <3>3. told' = Heard(0)'
      BY <1>4, <3>2, HandoffFixed
    <3> QED  BY <1>10, <3>3 DEF ToldOK
  <2> QED  BY <2>1, <2>2
<1> QED  BY <1>4, <1>5, <1>6, <1>11, <1>12, <1>13, <1>14, HandoffKept

LEMMA DisturbTailKeeps ==
  ASSUME HandoffInv, NEW o \in DOMAIN tail, DisturbTail(o)
  PROVE  HandoffInv'
<1>0. layout # None
  BY DEF HandoffInv, Unbuilt
<1>1. /\ Planned /\ FrontOK /\ TailOK /\ VerdictOK /\ ToldOK /\ StepOK
  BY <1>0 DEF HandoffInv
<1>2. /\ planVars' = planVars /\ arena' = arena /\ call' = call /\ counts' = counts
      /\ reported' = reported /\ result' = result /\ reads' = reads
      /\ disturbed' = disturbed /\ touched' = touched /\ handoffPlan' = handoffPlan
      /\ step' = step /\ told' = told /\ outcome' = outcome /\ seen' = seen
      /\ tailDisturbed' = tailDisturbed \cup {o} /\ tailTouched' = TRUE
  BY DEF DisturbTail
<1>3. PICK byte : tail' = [tail EXCEPT ![o] = byte]
  BY DEF DisturbTail
<1>4. DOMAIN tail' = DOMAIN tail /\ \A b \in DOMAIN tail : b # o => tail'[b] = tail[b]
  BY <1>3
<1>5. StagingInv => StagingInv'
  BY <1>2, StutterKeeps
<1>6. Arena' = Arena /\ Idle' = Idle /\ layout' = layout
  BY <1>2, HandoffFixed DEF Arena, Idle
<1>7. /\ Full' = Full
      /\ (Arena \cup DOMAIN tail # Bytes(0, layout.allocation))'
           = (Arena \cup DOMAIN tail # Bytes(0, layout.allocation))
  BY <1>2, <1>4, <1>6, PartsFixed
<1>8. /\ Resting' = Resting /\ Cleared' = Cleared /\ InCollection' = InCollection
      /\ InTail' = InTail /\ Unwritten' = Unwritten
      /\ InCall("stage", "collection")' = InCall("stage", "collection")
      /\ InCall("stage", "tail")' = InCall("stage", "tail")
  BY <1>2 DEF InCollection, InCall, Cleared, Resting, Unwritten, InTail
<1>9. ASSUME NEW e, Full, TailRead(e), \A b \in Bytes(layout.kernelBytes, e) : b \in TailBytes
      PROVE  TailRead(e)'
  <2>1. \A b \in Bytes(layout.kernelBytes, e) \ tailDisturbed' : tail'[b] = Expected(b)
    BY <1>2, <1>4, <1>9 DEF TailRead, Full
  <2> QED  BY <1>2, <1>6, <1>9, <2>1, HandoffFixed DEF TailRead
<1>10. StepOK'
  BY <1>1, <1>2, <1>8 DEF StepOK
<1>11. FrontOK'
  BY <1>1, <1>2, <1>5, <1>6, <1>7, <1>8 DEF FrontOK
<1>12. TailOK'
  <2>1. ASSUME InTail
        PROVE  /\ step.next \in layout.kernelBytes .. layout.allocation
               /\ TailRead(step.next)'
    <3>1. /\ step.next \in layout.kernelBytes .. layout.allocation
          /\ TailRead(step.next) /\ Full
      BY <1>1, <2>1 DEF TailOK, FrontOK, InTail, InCall, Resting
    <3>2. layout.kernelBytes \in Nat /\ layout.allocation \in Nat
      BY <1>1 DEF Planned, LayoutOK
    <3>3. \A b \in Bytes(layout.kernelBytes, step.next) : b \in TailBytes
      BY <3>1, <3>2 DEF TailBytes, Bytes
    <3> PICK e : e = step.next
      OBVIOUS
    <3>4. TailRead(e)'
      BY <1>9, <3>1, <3>3
    <3> QED  BY <1>2, <3>1, <3>4
  <2> QED  BY <1>1, <1>2, <1>6, <1>8, <2>1 DEF TailOK
<1>13. VerdictOK'
  <2>1. ASSUME Resting, outcome = "Ok", tail' # <<>>
        PROVE  Full' /\ result' = "Ok" /\ TailRead(layout.allocation)'
    <3>1. tail # <<>>
      OBVIOUS
    <3>2. Full /\ result = "Ok" /\ TailRead(layout.allocation)
      BY <1>1, <2>1, <3>1 DEF VerdictOK
    <3> PICK e : e = layout.allocation
      OBVIOUS
    <3>3. TailRead(e)'
      BY <1>9, <3>2 DEF TailBytes
    <3> QED  BY <1>2, <1>6, <1>7, <3>2, <3>3
  <2> QED  BY <1>2, <1>8, <2>1 DEF VerdictOK
<1>14. ToldOK'
  <2>1. PICK n \in 0 .. 7 :
          /\ told = Heard(n)
          /\ Cleared => n = 1
          /\ InCall("stage", "collection") => Relaying(n)
          /\ InCall("stage", "tail") => n = 6
          /\ (~ Resting /\ step.of = "verify") => n = 0
          /\ (Resting /\ n # 0) => (outcome = "Ok" <=> n = 7)
          /\ n >= 6 => Full /\ result = "Ok"
    BY <1>1 DEF ToldOK
  <2>2. told' = Heard(n)'
    BY <1>2, <2>1, HandoffFixed
  <2>3. Relaying(n)' = Relaying(n)
    BY <1>2, <1>6 DEF Relaying, Phases
  <2> QED  BY <1>2, <1>7, <1>8, <2>1, <2>2, <2>3 DEF ToldOK
<1>15. (counts \in [copied : Nat, tails : Nat, holes : Nat, headers : Nat,
                    segments : Nat, compared : Nat])'
  BY <1>1, <1>2 DEF Planned
<1> QED  BY <1>0, <1>2, <1>10, <1>11, <1>12, <1>13, <1>14, <1>15, HandoffKept

LEMMA DisturbArenaKeeps ==
  ASSUME HandoffInv, NEW o \in Arena, DisturbArena(o)
  PROVE  HandoffInv'
<1>0. layout # None
  BY DEF HandoffInv, Unbuilt, StagingInv, Unplanned, Arena
<1>1. /\ Planned /\ FrontOK /\ TailOK /\ VerdictOK /\ ToldOK /\ StepOK
  BY <1>0 DEF HandoffInv
<1>2. Disturb(o)
  BY DEF DisturbArena
<1>3. /\ planVars' = planVars /\ call' = call /\ counts' = counts
      /\ reported' = reported /\ result' = result /\ touched' = TRUE
      /\ handoffPlan' = handoffPlan /\ tail' = tail /\ step' = step /\ told' = told
      /\ outcome' = outcome /\ seen' = seen /\ tailDisturbed' = tailDisturbed
      /\ tailTouched' = tailTouched
  BY DEF DisturbArena, Disturb, handoffHistory
<1>4. PICK byte : arena' = [arena EXCEPT ![o] = byte]
  BY <1>2 DEF Disturb
<1>5. /\ Arena' = Arena /\ Idle' = Idle /\ layout' = layout
      /\ arena' = [b \in Arena' |-> arena'[b]]
  BY <1>3, <1>4, HandoffFixed DEF Arena, Idle
<1>6. StagingInv => StagingInv'
  BY <1>2, DisturbKeeps
<1>7. /\ Full' = Full
      /\ (Arena \cup DOMAIN tail # Bytes(0, layout.allocation))'
           = (Arena \cup DOMAIN tail # Bytes(0, layout.allocation))
  BY <1>3, <1>5, PartsFixed
<1>8. /\ Resting' = Resting /\ Cleared' = Cleared /\ InCollection' = InCollection
      /\ InTail' = InTail /\ Unwritten' = Unwritten
      /\ InCall("stage", "collection")' = InCall("stage", "collection")
      /\ InCall("stage", "tail")' = InCall("stage", "tail")
  BY <1>3 DEF InCollection, InCall, Cleared, Resting, Unwritten, InTail
<1>9. StepOK'
  BY <1>1, <1>3, <1>8 DEF StepOK
<1>10. FrontOK'
  BY <1>1, <1>3, <1>5, <1>6, <1>7, <1>8 DEF FrontOK
<1>11. TailOK'
  <2>1. (Unwritten' /\ ~ tailTouched') => (\A b \in TailBytes : tail[b] = 0)'
    BY <1>1, <1>3, <1>8, HandoffFixed DEF TailOK
  <2>2. InTail' => TailRead(step.next)'
    <3> PICK e : e = step.next
      OBVIOUS
    <3>1. InTail => TailRead(e)'
      BY <1>1, <1>3, TailFixed DEF TailOK
    <3> QED  BY <1>3, <1>8, <3>1
  <2> QED  BY <1>1, <1>3, <1>5, <1>8, <2>1, <2>2 DEF TailOK
<1>12. VerdictOK'
  <2> PICK e : e = layout.allocation
    OBVIOUS
  <2>1. TailRead(e)' = TailRead(e)
    BY <1>3, TailFixed
  <2>2. TailRead(layout.allocation)' = TailRead(layout.allocation)
    BY <1>5, <2>1
  <2> QED  BY <1>1, <1>3, <1>7, <1>8, <2>2 DEF VerdictOK
<1>13. ToldOK'
  <2>1. PICK n \in 0 .. 7 :
          /\ told = Heard(n)
          /\ Cleared => n = 1
          /\ InCall("stage", "collection") => Relaying(n)
          /\ InCall("stage", "tail") => n = 6
          /\ (~ Resting /\ step.of = "verify") => n = 0
          /\ (Resting /\ n # 0) => (outcome = "Ok" <=> n = 7)
          /\ n >= 6 => Full /\ result = "Ok"
    BY <1>1 DEF ToldOK
  <2>2. told' = Heard(n)'
    BY <1>3, <2>1, HandoffFixed
  <2>3. Relaying(n)' = Relaying(n)
    BY <1>3, <1>5 DEF Relaying, Phases
  <2> QED  BY <1>3, <1>7, <1>8, <2>1, <2>2, <2>3 DEF ToldOK
<1>14. (counts \in [copied : Nat, tails : Nat, holes : Nat, headers : Nat,
                    segments : Nat, compared : Nat])'
  BY <1>1, <1>3 DEF Planned
<1> QED  BY <1>0, <1>3, <1>9, <1>10, <1>11, <1>12, <1>13, <1>14, HandoffKept

LEMMA HandoffStutterKeeps ==
  ASSUME HandoffInv, UNCHANGED allVars
  PROVE  HandoffInv'
<1>1. /\ planVars' = planVars /\ arena' = arena /\ call' = call /\ counts' = counts
      /\ reported' = reported /\ result' = result /\ historyVars' = historyVars
      /\ handoffPlan' = handoffPlan /\ tail' = tail /\ step' = step /\ told' = told
      /\ outcome' = outcome /\ seen' = seen /\ tailDisturbed' = tailDisturbed
      /\ tailTouched' = tailTouched
  BY DEF allVars, stagingVars, vars, handoffHistory
<1>2. plan' = plan /\ touched' = touched /\ layout' = layout /\ input' = input
      /\ FileOK' = FileOK
  BY <1>1, PlanFixed, HandoffFixed DEF historyVars
<1>3. StagingInv => StagingInv'
  BY <1>1, CollectionRests
<1>4. CASE layout = None
  BY <1>1, <1>2, <1>3, <1>4 DEF HandoffInv, Unbuilt
<1>5. CASE layout # None
  <2>1. /\ Planned /\ FrontOK /\ TailOK /\ VerdictOK /\ ToldOK /\ StepOK
    BY <1>5 DEF HandoffInv
  <2>2. Arena' = Arena /\ Idle' = Idle
    BY <1>1 DEF Arena, Idle
  <2>3. /\ Full' = Full
        /\ (Arena \cup DOMAIN tail # Bytes(0, layout.allocation))'
             = (Arena \cup DOMAIN tail # Bytes(0, layout.allocation))
    BY <1>1, <2>2, PartsFixed
  <2>4. /\ Resting' = Resting /\ Cleared' = Cleared /\ InCollection' = InCollection
        /\ InTail' = InTail /\ Unwritten' = Unwritten
        /\ InCall("stage", "collection")' = InCall("stage", "collection")
        /\ InCall("stage", "tail")' = InCall("stage", "tail")
    BY <1>1 DEF InCollection, InCall, Cleared, Resting, Unwritten, InTail
  <2>5. StepOK'
    BY <1>1, <2>1, <2>4 DEF StepOK
  <2>6. FrontOK'
    BY <1>1, <1>3, <2>1, <2>2, <2>3, <2>4 DEF FrontOK
  <2>7. TailRead(step.next)' = TailRead(step.next)
        /\ TailRead(layout.allocation)' = TailRead(layout.allocation)
    <3> PICK e, all : e = step.next /\ all = layout.allocation
      OBVIOUS
    <3>1. TailRead(e)' = TailRead(e) /\ TailRead(all)' = TailRead(all)
      BY <1>1, TailFixed
    <3> QED  BY <1>1, <1>2, <3>1
  <2>8. TailOK'
    BY <1>1, <1>2, <2>1, <2>3, <2>4, <2>7, TailFixed DEF TailOK
  <2>9. VerdictOK'
    BY <1>1, <1>2, <2>1, <2>3, <2>4, <2>7 DEF VerdictOK
  <2>10. ToldOK'
    <3>1. /\ \A n : Heard(n)' = Heard(n)
          /\ \A n : Relaying(n)' = Relaying(n)
      BY <1>1, <2>2, HandoffFixed DEF Relaying, Phases
    <3> QED  BY <1>1, <2>1, <2>3, <2>4, <3>1 DEF ToldOK
  <2>11. (counts \in [copied : Nat, tails : Nat, holes : Nat, headers : Nat,
                      segments : Nat, compared : Nat])'
    BY <1>1, <2>1 DEF Planned
  <2> QED  BY <1>1, <1>5, <2>5, <2>6, <2>8, <2>9, <2>10, <2>11, HandoffKept
<1> QED  BY <1>4, <1>5

-----------------------------------------------------------------------------
(* What follows *)

\* However a handoff goes, whatever it is asked to place and whoever changes the
\* slice meanwhile, it keeps its invariant (new, stage_into_observed, verify).
THEOREM HandoffIsInv == HandoffSpec => []HandoffInv
<1>1. HandoffInit => HandoffInv
  BY HandoffInitHolds
<1>2. HandoffInv /\ [HandoffNext]_allVars => HandoffInv'
  <2> SUFFICES ASSUME HandoffInv, [HandoffNext]_allVars
               PROVE  HandoffInv'
    OBVIOUS
  <2>1. CASE BuildHandoff
    BY <2>1, BuildKeeps
  <2>2. CASE /\ layout # None
             /\ \E n \in {layout.allocation, layout.allocation - 1} : StageHandoff(n)
    BY <2>2, StageHandoffKeeps
  <2>3. CASE VerifyHandoff
    BY <2>3, VerifyHandoffKeeps DEF VerifyHandoff
  <2>4. CASE HandoffContinue
    <3>1. layout # None
      BY <2>4 DEF HandoffInv, Unbuilt, HandoffContinue, StageCollection, RunCollection,
         CollectionStaged, CollectionVerifiedAgain, CheckTail, TailChecked, InTail, InCall
    <3> QED  BY <2>4, <3>1, StageCollectionKeeps, RunCollectionKeeps,
             CollectionStagedKeeps, CollectionVerifiedAgainKeeps, CheckTailKeeps,
             TailCheckedKeeps DEF HandoffContinue
  <2>5. CASE \E o \in Arena : DisturbArena(o)
    BY <2>5, DisturbArenaKeeps
  <2>6. CASE \E o \in DOMAIN tail : DisturbTail(o)
    BY <2>6, DisturbTailKeeps
  <2>7. CASE UNCHANGED allVars
    BY <2>7, HandoffStutterKeeps
  <2> QED  BY <2>1, <2>2, <2>3, <2>4, <2>5, <2>6, <2>7 DEF HandoffNext
<1> QED  BY <1>1, <1>2, PTL DEF HandoffSpec

\* What the collection's readback says of the front of a slice.
LEMMA FrontIsLoaded ==
  ASSUME FrontOK, Full, ~ Cleared, ~ InCollection, result = "Ok"
  PROVE  \A o \in Arena : reads[o] > 0 /\ (o \notin disturbed => arena[o] = Loaded(o))
<1>1. StagingInv /\ Idle
  BY DEF FrontOK
<1>2. plan # None
  BY <1>1 DEF StagingInv, Unplanned
<1> QED  BY <1>1, <1>2, InvTellsVerdicts DEF VerifiedMeansLoaded

LEMMA InvTellsVerdict ==
  ASSUME HandoffInv
  PROVE  PlacedMeansWhole /\ TailMismatchMeansDisturbed
<1>1. CASE layout = None
  BY <1>1 DEF HandoffInv, Unbuilt, PlacedMeansWhole, TailMismatchMeansDisturbed
<1>2. CASE layout # None
  <2>1. FrontOK /\ VerdictOK
    BY <1>2 DEF HandoffInv
  <2>2. TailMismatchMeansDisturbed
    BY <2>1 DEF VerdictOK, TailMismatchMeansDisturbed
  <2>3. ASSUME Resting, outcome = "Ok", tail # <<>>
        PROVE  /\ DOMAIN tail = TailBytes /\ seen = TailBytes
               /\ \A o \in Arena : reads[o] > 0 /\ (o \notin disturbed => arena[o] = Loaded(o))
               /\ \A o \in TailBytes \ tailDisturbed : tail[o] = Expected(o)
    <3>1. Full /\ result = "Ok" /\ TailRead(layout.allocation)
      BY <2>1, <2>3 DEF VerdictOK
    <3>2. ~ Cleared /\ ~ InCollection
      BY <2>3 DEF Cleared, InCollection, InCall, Resting
    <3>3. \A o \in Arena : reads[o] > 0 /\ (o \notin disturbed => arena[o] = Loaded(o))
      BY <2>1, <3>1, <3>2, FrontIsLoaded
    <3> QED  BY <3>1, <3>3 DEF Full, TailRead, TailBytes
  <2> QED  BY <2>2, <2>3 DEF PlacedMeansWhole
<1> QED  BY <1>1, <1>2

LEMMA InvTellsWhatIsTold ==
  ASSUME HandoffInv
  PROVE  PhasesAreTold
<1>1. CASE layout = None
  <2>1. told = Heard(0) /\ told = <<>> /\ Len(<<>>) = 0
    BY <1>1, HeardGrows DEF HandoffInv, Unbuilt
  <2>2. \E n \in 0 .. 7 : told = SubSeq(HandoffPhases, 1, n)
    BY <2>1 DEF Heard
  <2>3. ~ (Len(told) >= 6)
    BY <2>1
  <2> QED  BY <2>1, <2>2, <2>3 DEF PhasesAreTold
<1>2. CASE layout # None
  <2>1. FrontOK /\ ToldOK
    BY <1>2 DEF HandoffInv
  <2>2. PICK n \in 0 .. 7 :
          /\ told = Heard(n)
          /\ Cleared => n = 1
          /\ InCall("stage", "collection") => Relaying(n)
          /\ InCall("stage", "tail") => n = 6
          /\ (~ Resting /\ step.of = "verify") => n = 0
          /\ (Resting /\ n # 0) => (outcome = "Ok" <=> n = 7)
          /\ n >= 6 => Full /\ result = "Ok"
    BY <2>1 DEF ToldOK
  <2>3. Len(told) = n /\ (told # <<>> => n # 0)
    BY <2>2, HeardGrows
  <2>4. \E k \in 0 .. 7 : told = SubSeq(HandoffPhases, 1, k)
    BY <2>2 DEF Heard
  <2>5. (Resting /\ told # <<>>) => (outcome = "Ok" <=> Len(told) = 7)
    BY <2>2, <2>3
  <2>6. ASSUME Len(told) >= 6
        PROVE  result = "Ok" /\ \A o \in Arena : reads[o] > 0
    <3>1. n >= 6
      BY <2>3, <2>6
    <3>2. ~ Relaying(n)
      BY <3>1 DEF Relaying
    <3>3. ~ Cleared /\ ~ InCollection
      BY <2>2, <3>1, <3>2 DEF InCollection, InCall, Resting
    <3> QED  BY <2>1, <2>2, <3>1, <3>3, FrontIsLoaded
  <2> QED  BY <2>4, <2>5, <2>6 DEF PhasesAreTold
<1> QED  BY <1>1, <1>2

\* Whatever a handoff says of its slice is true of it: its verdict on the whole
\* slice, its phases and its mismatches (stage_into_observed, verify,
\* verify_tail).
THEOREM HandoffIsTruthful == HandoffSpec => []HandoffTellsTheTruth
<1>1. HandoffInv => HandoffTellsTheTruth
  BY InvTellsVerdict, InvTellsWhatIsTold DEF HandoffTellsTheTruth
<1> QED  BY <1>1, HandoffIsInv, PTL

\* Every plan that staging accepts is one that the placement can place, and a
\* layout made of it is one that the backing takes (new, new_with_framebuffer).
THEOREM PlansFitPlacement == HandoffSpec => []PlansMeetPlacement
<1>1. HandoffInv => PlansMeetPlacement
  <2> SUFFICES ASSUME HandoffInv
               PROVE  PlansMeetPlacement
    OBVIOUS
  <2>1. FileOK
    BY DEF HandoffInv
  <2>2. ASSUME KernelOf.check = "Ok"
        PROVE  /\ KernelOf.size > 0 /\ KernelOf.size % PageSize = 0
               /\ KernelOf.header \in 0 .. KernelOf.size - 1
               /\ KernelOf.entry \in 0 .. KernelOf.size - 1
    <3>1. Placed!KernelIsSound(KernelOf)
      BY <2>1, <2>2, KernelFits
    <3> QED  BY <2>2, <3>1 DEF Placed!KernelIsSound
  <2>3. layout # None => plan.size = layout.kernelBytes /\ Placement!LayoutHolds
    BY SamePlacement DEF HandoffInv, Planned, LayoutOK
  <2> QED  BY <2>2, <2>3 DEF PlansMeetPlacement
<1> QED  BY <1>1, HandoffIsInv, PTL

=============================================================================
