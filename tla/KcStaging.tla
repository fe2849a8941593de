------------------------------- MODULE KcStaging -------------------------------
(***************************************************************************)
(* Staging an accepted kernel collection (src/src/kc_staging.rs).  A plan  *)
(* lays the outer segments out in an arena; staging clears a slice of that *)
(* length, copies the segments, and reads everything back: first the whole *)
(* arena, then once more each byte that a member view backs with the file. *)
(*                                                                         *)
(* The readback uses volatile reads because the slice may not hold what    *)
(* was stored.  Disturb stands for that, and for what the owner of a slice *)
(* does to it before asking verify() about it again.                       *)
(***************************************************************************)
EXTENDS KcLayout

CONSTANT MaxDisturbs   \* changes of the slice from outside in a behaviour

VARIABLES
  plan,       \* the KcStagingPlan
  arena,      \* the slice staged into, last
  call,       \* the running call
  counts,     \* its StagingVerification
  reported,   \* the phases its observer was told of
  result,     \* what the last call returned
  reads,      \* history: readbacks of each byte in the last call
  disturbed,  \* history: bytes changed from outside since then
  touched,    \* history: whether any byte was, since the slice was cleared
  disturbs    \* history: how often

planVars == <<file, inspection, plan>>
historyVars == <<reads, disturbed, touched, disturbs>>
vars == <<planVars, arena, call, counts, reported, result, historyVars>>

ASSUME StagingAssumption == MaxDisturbs \in Nat

ASSUME NoneAssumption ==
  /\ None \notin [step : {"copy", "outer", "views"}, next : Nat, end : Nat]
  /\ None \notin {"Ok", "InvalidMapping"}

Garbage == -1

-----------------------------------------------------------------------------
(* The plan *)

NewPlan ==
  /\ inspection = None
  /\ inspection' = InspectCheck
  /\ \/ /\ InspectCheck # "Ok"
        /\ result' = InspectCheck
        /\ UNCHANGED plan
     \/ /\ InspectCheck = "Ok" /\ PlanCheck # "Ok"
        /\ result' = PlanCheck
        /\ UNCHANGED plan
     \/ /\ InspectCheck = "Ok" /\ PlanCheck = "Ok"
        /\ \E segments \in Sorted(OuterMappings), views \in Sorted(ViewMappings) :
             plan' = [segments |-> segments, views |-> views, base |-> Base, size |-> ArenaSize]
        /\ UNCHANGED result
  /\ UNCHANGED <<file, arena, call, counts, reported, historyVars>>

-----------------------------------------------------------------------------
(* Staging and readback *)

Phases == <<"DestinationInitialized", "SegmentsCopied", "ArenaVerified",
            "MemberViewsVerified">>

Idle == call = None

At(step) == call # None /\ call.step = step

Observe(phase) == reported' = Append(reported, phase)

\* Bytes of the slice from one offset up to another.
Bytes(from, to) == from .. to - 1

Arena == DOMAIN arena

\* The calls return; a result other than "Ok" is an Err.
Return(value) ==
  /\ call' = None
  /\ result' = value

ZeroCounts == [copied |-> 0, tails |-> 0, holes |-> 0, headers |-> 0,
               segments |-> 0, compared |-> 0]

\* readback() of some bytes against the file, or against zero.
IsSource(bytes, offset, source) ==
  \A o \in bytes : arena[o] = Content(source + (o - offset))

IsZero(bytes) == \A o \in bytes : arena[o] = 0

Read(bytes) ==
  /\ reads' = [o \in Arena |-> IF o \in bytes THEN reads[o] + 1 ELSE reads[o]]
  /\ disturbed' = disturbed \ bytes
  /\ UNCHANGED <<touched, disturbs>>

\* What both stage_into_observed and verify_observed start from.
Enter(step, next) ==
  /\ call' = [step |-> step, next |-> next, end |-> 0]
  /\ counts' = ZeroCounts

BeginVerify == Enter("outer", 1)

\* stage_into_observed() on a slice of n bytes.
Stage(n) ==
  /\ Idle
  /\ plan # None
  /\ UNCHANGED <<planVars, disturbs>>
  /\ reads' = [o \in Bytes(0, n) |-> 0]
  /\ disturbed' = {}
  /\ \/ /\ n # plan.size
        /\ arena' = [o \in Bytes(0, n) |-> Garbage]
        /\ touched' = TRUE
        /\ reported' = <<>>
        /\ Return("DestinationSize")
        /\ UNCHANGED counts
     \/ /\ n = plan.size
        /\ arena' = [o \in Bytes(0, n) |-> 0]
        /\ touched' = FALSE
        /\ reported' = <<"DestinationInitialized">>
        /\ Enter("copy", 1)
        /\ UNCHANGED result

CopySegment ==
  /\ At("copy")
  /\ call.next <= Len(plan.segments)
  /\ LET s == plan.segments[call.next] IN
       arena' = [o \in Arena |-> IF o \in Bytes(s.offset, s.offset + s.size)
                                   THEN Content(s.source + (o - s.offset))
                                   ELSE arena[o]]
  /\ call' = [call EXCEPT !.next = @ + 1]
  /\ UNCHANGED <<planVars, counts, reported, result, historyVars>>

SegmentsCopied ==
  /\ At("copy")
  /\ call.next > Len(plan.segments)
  /\ Observe("SegmentsCopied")
  /\ BeginVerify
  /\ UNCHANGED <<planVars, arena, result, historyVars>>

\* verify_observed() on the slice as it is.
Verify ==
  /\ Idle
  /\ plan # None
  /\ reported' = <<>>
  /\ reads' = [o \in Arena |-> 0]
  /\ UNCHANGED <<planVars, arena, disturbed, touched, disturbs>>
  /\ \/ /\ Cardinality(Arena) # plan.size
        /\ Return("DestinationSize")
        /\ UNCHANGED counts
     \/ /\ Cardinality(Arena) = plan.size
        /\ BeginVerify
        /\ UNCHANGED result

Mismatch ==
  /\ Return("ReadbackMismatch")
  /\ UNCHANGED <<planVars, arena, counts, reported, historyVars>>

\* One outer segment: the hole before it, its bytes, its zero tail.
Segment == plan.segments[call.next]

HoleBefore == Bytes(call.end, Segment.offset)

Copied == Bytes(Segment.offset, Segment.offset + Segment.size)

ZeroTail == Bytes(Segment.offset + Segment.size, Segment.offset + Segment.memory)

\* A fault: the zero tail of a segment is not read back.
SegmentHoldsFile ==
  /\ IsZero(HoleBefore)
  /\ IsSource(Copied, Segment.offset, Segment.source)

SegmentHolds ==
  /\ IsZero(HoleBefore)
  /\ IsSource(Copied, Segment.offset, Segment.source)
  /\ IsZero(ZeroTail)

VerifySegment ==
  /\ At("outer")
  /\ call.next <= Len(plan.segments)
  /\ \/ ~ SegmentHolds /\ Mismatch
     \/ /\ SegmentHolds
        /\ Read(HoleBefore \cup Copied \cup ZeroTail)
        /\ counts' = [counts EXCEPT !.copied = @ + Segment.size,
                                    !.tails  = @ + (Segment.memory - Segment.size),
                                    !.holes  = @ + (Segment.offset - call.end)]
        /\ call' = [call EXCEPT !.next = @ + 1,
                                !.end  = Segment.offset + Segment.memory]
        /\ UNCHANGED <<planVars, arena, reported, result>>

\* The hole behind the last segment.
LastHole == Bytes(call.end, plan.size)

VerifyEnd ==
  /\ At("outer")
  /\ call.next > Len(plan.segments)
  /\ \/ ~ IsZero(LastHole) /\ Mismatch
     \/ /\ IsZero(LastHole)
        /\ Read(LastHole)
        /\ counts' = [counts EXCEPT !.holes = @ + (plan.size - call.end)]
        /\ Observe("ArenaVerified")
        /\ call' = [step |-> "views", next |-> 1, end |-> 0]
        /\ UNCHANGED <<planVars, arena, result>>

\* One member view: only what no earlier view has covered is read again.
View == plan.views[call.next]

CompareStart == Max({call.end, View.offset})

Compared == Bytes(CompareStart, View.offset + View.size)

ViewHolds ==
  /\ View.offset + View.memory <= plan.size
  /\ IsSource(Compared, View.offset, View.source)

VerifyView ==
  /\ At("views")
  /\ call.next <= Len(plan.views)
  /\ \/ ~ ViewHolds /\ Mismatch
     \/ /\ ViewHolds
        /\ Read(Compared)
        /\ counts' = [counts EXCEPT
             !.compared = @ + Cardinality(Compared),
             !.headers  = IF View.of[2] = 0 THEN @ + 1 ELSE @,
             !.segments = IF View.of[2] = 0 THEN @ ELSE @ + 1]
        /\ call' = [call EXCEPT !.next = @ + 1,
                                !.end  = Max({@, View.offset + View.size})]
        /\ UNCHANGED <<planVars, arena, reported, result>>

ViewsVerified ==
  /\ At("views")
  /\ call.next > Len(plan.views)
  /\ Observe("MemberViewsVerified")
  /\ Return("Ok")
  /\ UNCHANGED <<planVars, arena, counts, historyVars>>

\* External: a byte of the slice changes.
Disturb(o) ==
  /\ disturbs < MaxDisturbs
  /\ \E byte \in {0, Garbage} \ {arena[o]} : arena' = [arena EXCEPT ![o] = byte]
  /\ disturbed' = disturbed \cup {o}
  /\ touched' = TRUE
  /\ disturbs' = disturbs + 1
  /\ UNCHANGED <<planVars, call, counts, reported, result, reads>>

-----------------------------------------------------------------------------

Init ==
  /\ CollectionInit
  /\ plan = None
  /\ arena = <<>>
  /\ call = None
  /\ counts = ZeroCounts
  /\ reported = <<>>
  /\ result = None
  /\ reads = <<>>
  /\ disturbed = {}
  /\ touched = TRUE
  /\ disturbs = 0

Continue ==
  \/ CopySegment
  \/ SegmentsCopied
  \/ VerifySegment
  \/ VerifyEnd
  \/ VerifyView
  \/ ViewsVerified

\* A caller hands over a slice of the right length, or one too short.
Next ==
  \/ NewPlan
  \/ plan # None /\ \E n \in {plan.size, plan.size - 1} : Stage(n)
  \/ Verify
  \/ Continue
  \/ \E o \in Arena : Disturb(o)

\* A call that was entered runs on: nothing in it waits.
Spec == Init /\ [][Next]_vars

-----------------------------------------------------------------------------
(* Properties *)

\* The arena a loader would make of the file: at each address the byte the
\* collection's own segments put there, and zero elsewhere.
Loaded(o) == LoadedAt(plan.base + o)

MemberBytes ==
  {o \in Bytes(0, plan.size) :
     \E k \in Members : FilesAt(MemberImage(k), plan.base + o) # {}}

\* A call that returns Ok has looked at every byte of the slice, after whatever
\* had changed it before, and found what the load commands of the file put at
\* its address; only a byte changed after it was looked at can differ.
VerifiedMeansLoaded ==
  (plan # None /\ result = "Ok" /\ Idle) =>
    /\ Arena = Bytes(0, plan.size)
    /\ \A o \in Arena : reads[o] > 0 /\ (o \notin disturbed => arena[o] = Loaded(o))

\* A call reports a readback mismatch only for a slice that was changed from
\* outside, or never staged: whatever copies what, in any order of views.
MismatchMeansDisturbed == (Idle /\ result = "ReadbackMismatch") => touched

\* An observer that hears of a phase can rely on it: cleared, copied, every
\* byte confirmed, every byte a member maps confirmed.
ReportedMeansDone ==
  plan # None =>
    /\ \E skipped \in {0, 2} : \E n \in 0 .. 4 : reported = SubSeq(Phases, skipped + 1, n)
    /\ \A n \in DOMAIN reported :
         /\ (reported[n] = "SegmentsCopied" /\ ~ touched)
              => \A o \in Arena : arena[o] = Loaded(o)
         /\ reported[n] = "ArenaVerified" => \A o \in Arena : reads[o] > 0
         /\ reported[n] = "MemberViewsVerified"
              => result = "Ok" /\ \A o \in MemberBytes : reads[o] > 1

\* The counts of a verification partition the arena, and count each byte that
\* a member maps once.
CountsAreTrue ==
  (plan # None /\ result = "Ok" /\ Idle) =>
    /\ counts.copied = Cardinality({o \in Arena : FilesAt(Outer, plan.base + o) # {}})
    /\ counts.copied + counts.tails + counts.holes = plan.size
    /\ counts.tails
         = Cardinality({o \in Arena : /\ MappedBy(Outer, plan.base + o)
                                      /\ FilesAt(Outer, plan.base + o) = {}})
    /\ counts.compared = Cardinality(MemberBytes)
    /\ counts.headers = Cardinality(Members)

\* What staging says of an arena is true of it, at every step and whatever
\* changes the slice meanwhile: its verdict, its mismatches, the phases it
\* reports and the counts it returns (stage_into_observed, verify_observed).
StagingTellsTheTruth ==
  VerifiedMeansLoaded /\ MismatchMeansDisturbed /\ ReportedMeansDone /\ CountsAreTrue

\* A collection that inspection accepts always has a place for each of its
\* parts in the arena: staging may refuse it for its size, never for a mapping
\* that inspection had checked already.
AcceptedCollectionsFit == result # "InvalidMapping"

=============================================================================
