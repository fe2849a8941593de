----------------------------- MODULE Arm64Handoff -----------------------------
(***************************************************************************)
(* Staging an ARM64 handoff (src/src/xnu_arm64_handoff.rs).  A plan puts   *)
(* boot arguments, a device tree, a stack and perhaps a framebuffer behind *)
(* the arena of a collection.  Staging clears the caller's slice, lets     *)
(* KcStaging stage and verify the collection in front of it, writes the    *)
(* arguments and the tree, and reads back only what lies behind the        *)
(* collection; verify() reads both back again.                             *)
(*                                                                         *)
(* The slice is the collection's "arena" and the "tail" behind it.         *)
(***************************************************************************)
EXTENDS KcStaging

CONSTANTS
  Inputs, MaxWord, MaxAllocation, MaxTreeBytes, BlockBytes, StackBytes,
  ArgsBytes, ArgsAlign, TreeAlign, PixelBytes   \* as in Arm64Placement

VARIABLES
  input,          \* what the plan is asked for
  layout,         \* its layout
  args,           \* its encoded boot arguments
  tail,           \* the slice behind the collection's arena
  step,           \* where the running call is
  told,           \* the phases its observer was told of
  outcome,        \* what the last call returned
  seen,           \* history: bytes of the tail read back in the last call
  tailDisturbed,  \* history: bytes of the tail changed since they were read
  tailTouched     \* history: whether any was, since the slice was cleared

handoffHistory == <<seen, tailDisturbed, tailTouched>>
handoffPlan == <<input, layout, args>>
stagingVars == vars
allVars == <<stagingVars, handoffPlan, tail, step, told, outcome, handoffHistory>>

\* What KcStagingPlan::new_arm64 makes of the source.
KernelOf ==
  LET check == IF InspectCheck = "Ok" THEN PlanCheck ELSE InspectCheck IN
  IF check = "Ok"
    THEN [check |-> "Ok", base |-> Base, size |-> ArenaSize,
          header |-> HeaderAddress(Outer, 0) - Base, entry |-> Entry - Base]
    ELSE [check |-> check]

Placement ==
  INSTANCE Arm64Placement
    WITH kernel <- KernelOf, result <- outcome, backing <- None,
         Kernels <- {}, Backings <- {}, PhysicalLimit <- MaxAddress

\* Requests are what a placement takes; None is no layout, no step and no error.
ASSUME HandoffAssumption ==
  /\ Placement!SizesAreSound
  /\ \A i \in Inputs : Placement!InputIsSound(i)
  /\ None \notin [kernelPhys : Nat, kernelBytes : Nat, headerPhys : Nat, entryPhys : Nat,
                 argsPhys : Nat, treePhys : Nat, stackTop : Nat, occupiedEnd : Nat,
                 allocation : Nat]
  /\ None \notin [of : {"stage", "verify"}, at : {"cleared", "collection", "tail"}, next : Nat]
  /\ None # "InvalidLayout"

-----------------------------------------------------------------------------
(* The plan *)

BuildHandoff ==
  /\ layout = None
  /\ outcome' = Placement!BuildCheck
  /\ \/ /\ Placement!BuildCheck = "Ok"
        /\ NewPlan
        /\ layout' = Placement!Layout
        /\ args' = Placement!BootArgs
     \/ /\ Placement!BuildCheck # "Ok"
        /\ UNCHANGED <<stagingVars, layout, args>>
  /\ UNCHANGED <<input, tail, step, told, handoffHistory>>

ArgsOffset == layout.argsPhys - layout.kernelPhys

TreeOffset == layout.treePhys - layout.kernelPhys

ArgsBytesAt == Bytes(ArgsOffset, ArgsOffset + ArgsBytes)

TreeBytesAt == Bytes(TreeOffset, TreeOffset + input.tree.bytes)

\* Bytes of the arguments and of the tree, apart from each other and from all
\* others.
ArgsContent(i) == - (2 * i + 2)

TreeContent(i) == - (2 * i + 3)

TailBytes == Bytes(layout.kernelBytes, layout.allocation)

-----------------------------------------------------------------------------
(* Staging and readback *)

HandoffPhases ==
  <<"DestinationInitialized", "CollectionInitialized", "CollectionSegmentsCopied",
    "CollectionArenaVerified", "CollectionMemberViewsVerified", "CollectionVerified",
    "TailVerified">>

\* The collection's phases under the handoff's names.
Relayed(phase) ==
  CASE phase = "DestinationInitialized" -> "CollectionInitialized"
    [] phase = "SegmentsCopied"         -> "CollectionSegmentsCopied"
    [] phase = "ArenaVerified"          -> "CollectionArenaVerified"
    [] phase = "MemberViewsVerified"    -> "CollectionMemberViewsVerified"

InCall(of, at) == step # None /\ step.of = of /\ step.at = at

Resting == step = None

Goto(of, at) == step' = [of |-> of, at |-> at, next |-> layout.kernelBytes]

Leave(value) ==
  /\ step' = None
  /\ outcome' = value

Tell(phase) == told' = Append(told, phase)

\* stage_into_observed() on a slice of n bytes, up to its clearing.
StageHandoff(n) ==
  /\ layout # None
  /\ Resting
  /\ LET fill == IF n = layout.allocation THEN 0 ELSE Garbage IN
       /\ arena' = [o \in Bytes(0, Min({n, layout.kernelBytes})) |-> fill]
       /\ tail' = [o \in Bytes(layout.kernelBytes, n) |-> fill]
  /\ seen' = {} /\ tailDisturbed' = {}
  /\ tailTouched' = (n # layout.allocation)
  /\ \/ /\ n # layout.allocation
        /\ told' = <<>>
        /\ Leave("DestinationSize")
     \/ /\ n = layout.allocation
        /\ told' = <<"DestinationInitialized">>
        /\ Goto("stage", "cleared")
        /\ UNCHANGED outcome
  /\ UNCHANGED <<planVars, call, counts, reported, result, historyVars, handoffPlan>>

StageCollection ==
  /\ InCall("stage", "cleared")
  /\ Stage(layout.kernelBytes)
  /\ Tell("CollectionInitialized")
  /\ Goto("stage", "collection")
  /\ UNCHANGED <<handoffPlan, tail, outcome, handoffHistory>>

\* The collection's staging or verification runs on; a staging relays its phases.
RunCollection ==
  /\ InCall("stage", "collection") \/ InCall("verify", "collection")
  /\ Continue
  /\ told' = IF step.of = "stage" /\ reported' # reported
               THEN Append(told, Relayed(Last(reported')))
               ELSE told
  /\ UNCHANGED <<handoffPlan, tail, step, outcome, handoffHistory>>

\* The arguments are copied first, then the tree, anywhere in the slice.
Written(o, byte) ==
  IF o \in TreeBytesAt THEN TreeContent(o - TreeOffset)
  ELSE IF o \in ArgsBytesAt THEN ArgsContent(o - ArgsOffset)
  ELSE byte

\* A fault: the result of the nested staging is not looked at.
CollectionStagedUnchecked ==
  /\ InCall("stage", "collection")
  /\ Idle
  /\ Tell("CollectionVerified")
  /\ arena' = [o \in Arena |-> Written(o, arena[o])]
  /\ tail' = [o \in DOMAIN tail |-> Written(o, tail[o])]
  /\ Goto("stage", "tail")
  /\ UNCHANGED <<planVars, call, counts, reported, result, historyVars, handoffPlan,
                 outcome, handoffHistory>>

CollectionStaged ==
  /\ InCall("stage", "collection")
  /\ Idle
  /\ \/ /\ result # "Ok"
        /\ Leave(result)
        /\ UNCHANGED <<arena, tail, told>>
     \/ /\ result = "Ok"
        /\ Tell("CollectionVerified")
        /\ arena' = [o \in Arena |-> Written(o, arena[o])]
        /\ tail' = [o \in DOMAIN tail |-> Written(o, tail[o])]
        /\ Goto("stage", "tail")
        /\ UNCHANGED outcome
  /\ UNCHANGED <<planVars, call, counts, reported, result, historyVars, handoffPlan,
                 handoffHistory>>

\* verify() on the slice as it is.
VerifyHandoff ==
  /\ layout # None
  /\ Resting
  /\ told' = <<>>
  /\ seen' = {}
  /\ \/ /\ Arena \cup DOMAIN tail # Bytes(0, layout.allocation)
        /\ Leave("DestinationSize")
        /\ UNCHANGED stagingVars
     \/ /\ Arena \cup DOMAIN tail = Bytes(0, layout.allocation)
        /\ Verify
        /\ Goto("verify", "collection")
        /\ UNCHANGED outcome
  /\ UNCHANGED <<handoffPlan, tail, tailDisturbed, tailTouched>>

CollectionVerifiedAgain ==
  /\ InCall("verify", "collection")
  /\ Idle
  /\ \/ result # "Ok" /\ Leave(result)
     \/ result = "Ok" /\ Goto("verify", "tail") /\ UNCHANGED outcome
  /\ UNCHANGED <<stagingVars, handoffPlan, tail, told, handoffHistory>>

\* What verify_tail() expects of a byte.
Expected(o) ==
  IF o \in ArgsBytesAt THEN ArgsContent(o - ArgsOffset)
  ELSE IF o \in TreeBytesAt THEN TreeContent(o - TreeOffset)
  ELSE 0

InTail == InCall("stage", "tail") \/ InCall("verify", "tail")

\* A fault: the check of the tail does not move on.
CheckTailInPlace ==
  /\ InTail
  /\ step.next \in DOMAIN tail
  /\ \/ /\ tail[step.next] # Expected(step.next)
        /\ Leave("ReadbackMismatch")
        /\ UNCHANGED <<seen, tailDisturbed>>
     \/ /\ tail[step.next] = Expected(step.next)
        /\ seen' = seen \cup {step.next}
        /\ tailDisturbed' = tailDisturbed \ {step.next}
        /\ UNCHANGED <<step, outcome>>
  /\ UNCHANGED <<stagingVars, handoffPlan, tail, told, tailTouched>>

CheckTail ==
  /\ InTail
  /\ step.next \in DOMAIN tail
  /\ \/ /\ tail[step.next] # Expected(step.next)
        /\ Leave("ReadbackMismatch")
        /\ UNCHANGED <<seen, tailDisturbed>>
     \/ /\ tail[step.next] = Expected(step.next)
        /\ step' = [step EXCEPT !.next = @ + 1]
        /\ seen' = seen \cup {step.next}
        /\ tailDisturbed' = tailDisturbed \ {step.next}
        /\ UNCHANGED outcome
  /\ UNCHANGED <<stagingVars, handoffPlan, tail, told, tailTouched>>

TailChecked ==
  /\ InTail
  /\ step.next \notin DOMAIN tail
  /\ told' = IF step.of = "stage" THEN Append(told, "TailVerified") ELSE told
  /\ Leave("Ok")
  /\ UNCHANGED <<stagingVars, handoffPlan, tail, handoffHistory>>

\* External: a byte of the tail changes.
DisturbTail(o) ==
  /\ disturbs < MaxDisturbs
  /\ \E byte \in {0, Garbage} \ {tail[o]} : tail' = [tail EXCEPT ![o] = byte]
  /\ tailDisturbed' = tailDisturbed \cup {o}
  /\ tailTouched' = TRUE
  /\ disturbs' = disturbs + 1
  /\ UNCHANGED <<planVars, arena, call, counts, reported, result, reads, disturbed,
                 touched, handoffPlan, step, told, outcome, seen>>

DisturbArena(o) ==
  /\ Disturb(o)
  /\ UNCHANGED <<handoffPlan, tail, step, told, outcome, handoffHistory>>

-----------------------------------------------------------------------------

HandoffInit ==
  /\ Init
  /\ input \in Inputs
  /\ layout = None
  /\ args = None
  /\ tail = <<>>
  /\ step = None
  /\ told = <<>>
  /\ outcome = None
  /\ seen = {} /\ tailDisturbed = {} /\ tailTouched = TRUE

HandoffContinue ==
  \/ StageCollection
  \/ RunCollection
  \/ CollectionStaged
  \/ CollectionVerifiedAgain
  \/ CheckTail
  \/ TailChecked

\* A caller hands over a slice of the right length, or one too short.
HandoffNext ==
  \/ BuildHandoff
  \/ /\ layout # None
     /\ \E n \in {layout.allocation, layout.allocation - 1} : StageHandoff(n)
  \/ VerifyHandoff
  \/ HandoffContinue
  \/ \E o \in Arena : DisturbArena(o)
  \/ \E o \in DOMAIN tail : DisturbTail(o)

\* Nothing in a running call waits.
HandoffSpec ==
  HandoffInit /\ [][HandoffNext]_allVars /\ WF_allVars(HandoffContinue)

-----------------------------------------------------------------------------
(* Properties *)

\* A call that returns Ok has found the whole slice as it should be, although
\* staging reads the collection back before it writes the arguments and the
\* tree, and only the tail after that.
PlacedMeansWhole ==
  (Resting /\ outcome = "Ok" /\ tail # <<>>) =>
    /\ DOMAIN tail = TailBytes /\ seen = TailBytes
    /\ \A o \in Arena : reads[o] > 0 /\ (o \notin disturbed => arena[o] = Loaded(o))
    /\ \A o \in TailBytes \ tailDisturbed : tail[o] = Expected(o)

\* An observer hears the seven phases in their order, of the last one exactly
\* when the staging succeeds, and of the sixth only with the collection read.
PhasesAreTold ==
  /\ \E n \in 0 .. 7 : told = SubSeq(HandoffPhases, 1, n)
  /\ (Resting /\ told # <<>>) => (outcome = "Ok" <=> Len(told) = 7)
  /\ Len(told) >= 6 => result = "Ok" /\ \A o \in Arena : reads[o] > 0

\* A readback of a slice that nobody else changed since it was cleared finds no
\* mismatch: staging and verifying agree about every byte of the tail.
TailMismatchMeansDisturbed ==
  (Resting /\ outcome = "ReadbackMismatch") => (touched \/ tailTouched)

\* What a handoff says of its slice is true of it, at every step and whatever
\* changes the slice meanwhile: its verdict, the phases it tells and its
\* mismatches (stage_into_observed, verify, verify_tail).
HandoffTellsTheTruth == PlacedMeansWhole /\ PhasesAreTold /\ TailMismatchMeansDisturbed

\* What a staging plan is like is what the placement assumes, and what the
\* placement makes of it is what the backing will ask for.
PlansMeetPlacement ==
  /\ LET kernel == KernelOf
     IN  kernel.check = "Ok" =>
           /\ kernel.size > 0 /\ kernel.size % PageSize = 0
           /\ kernel.header \in 0 .. kernel.size - 1
           /\ kernel.entry \in 0 .. kernel.size - 1
  /\ layout # None => plan.size = layout.kernelBytes /\ Placement!LayoutHolds

\* Every call returns.
HandoffCallsReturn == ~ Resting ~> Resting

=============================================================================
