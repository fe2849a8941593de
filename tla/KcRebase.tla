------------------------------- MODULE KcRebase -------------------------------
(***************************************************************************)
(* Rebasing the kernel of a collection by a slide                          *)
(* (src/src/kc_classic_rebase.rs): a plan takes the classic words of an    *)
(* audit without issues, apply() stages the collection into an arena of    *)
(* its own, rewrites the words, and reads the whole arena back, walking    *)
(* words and segments side by side.                                        *)
(*                                                                         *)
(* stage_into() is KcStaging's; here it is one step that succeeds.  As     *)
(* there, Disturb stands for memory that does not hold what was stored,    *)
(* and for what a caller does to a slice that it asks verify() about.      *)
(***************************************************************************)
EXTENDS KcFixups, KcLayout, Checks

CONSTANTS
  Slides,       \* slides a caller asks for, none of them zero
  MaxHalf,      \* u32::MAX
  MaxDisturbs   \* changes of the arena from outside in a behaviour

VARIABLES
  plan,       \* the KcClassicRebasePlan: its words, and its KcStagingPlan
  bytes,      \* the arena of the RebasedKc
  call,       \* the running apply() or verify()
  result,     \* what the last call returned
  disturbed,  \* history: bytes changed from outside since the last walk read them
  touched,    \* history: whether any byte was, since the arena was staged
  disturbs    \* history: how often

rebaseVars == <<plan, bytes, call, result, disturbed, touched, disturbs>>
vars == <<collectionVars, auditVars, rebaseVars>>

\* Option::None is no call, and no error.
ASSUME CallAssumption ==
  None \notin {"ReadbackMismatch"}
    \cup [step : {"write"}, word : Nat]
    \cup [step : {"walk"}, applying : BOOLEAN, cursor : Int, segment : Nat, word : Nat]

DefaultLimits == [records |-> MaxRecords, issues |-> MaxRecords, pages |-> MaxRecords]

-----------------------------------------------------------------------------
(* The plan *)

\* The classic records of the audit, by their place in it
Classic == {i \in DOMAIN audit.records : audit.records[i].mechanism = "classic"}

StoredValue(offset) == IF offset \in DOMAIN file.values THEN file.values[offset] ELSE 0

FileOf(r) == CHOOSE f \in r.file : TRUE

Kernel == MemberImage(CHOOSE k \in MembersOfType("execute") : TRUE)

\* file_mapping_matches(); the segments of an image share no address
KernelHolds(r) ==
  \E s \in Segments(Kernel) :
    /\ s.address <= r.address /\ WriteEnd(r) <= s.address + s.file.size
    /\ s.file.offset + (r.address - s.address) = FileOf(r)

HeaderOf(i) == Header(ImageOf(i), BaseOf(i))

HeaderMemory(i) == FileRange(HeaderAddress(ImageOf(i), BaseOf(i)), HeaderSize(ImageOf(i)))

\* A fault: only the header of the collection is spared.
WritesOuterHeader(r) ==
  \/ Meets(FileRange(FileOf(r), r.width), HeaderOf(0))
  \/ Meets(FileRange(r.address, r.width), HeaderMemory(0))

\* overlaps(), for the header of every image
WritesHeader(r) ==
  \E i \in Images :
    \/ Meets(FileRange(FileOf(r), r.width), HeaderOf(i))
    \/ Meets(FileRange(r.address, r.width), HeaderMemory(i))

Supported(r) ==
  /\ r.image = 0
  /\ r.table = "LocalDynamic"
  /\ r.entry.symbol = 0 /\ r.entry.type = 0
  /\ ~ r.entry.pc /\ ~ r.entry.external
  /\ r.entry.length \in {2, 3}
  /\ r.owner = {"execute"}

\* What new() checks of one record.
WordCheck(r, slide) ==
  IF ~ Supported(r) THEN "UnsupportedClassicProfile"
  ELSE IF r.address = None \/ r.file = {} THEN "OutsideKernelFileMapping"
  ELSE LET after == StoredValue(FileOf(r)) + slide
           offset == r.address - Base
       IN  FirstRefusal(<<
             <<~ KernelHolds(r),                          "OutsideKernelFileMapping">>,
             <<WritesHeader(r),                           "HeaderWrite">>,
             <<after > MaxAddress,                        "ValueOverflow">>,
             <<r.width = 4 /\ after > MaxHalf,            "ValueOverflow">>,
             <<offset < 0,                                "AddressOverflow">>,
             <<offset + r.width > ArenaSize,               "OutsideKernelFileMapping">> >>)

\* "of" tells apart what the code keeps as separate elements of a Vec.
WordOf(i) ==
  LET r == audit.records[i] IN
  [of |-> i, offset |-> r.address - Base, width |-> r.width, source |-> FileOf(r)]

Words == {WordOf(i) : i \in Classic}

Crowded(words) ==
  \E n \in 1 .. Len(words) - 1 : words[n].offset + words[n].width > words[n + 1].offset

\* new(); the raw bytes compared with the stored value are where it was read
RebaseCheck(slide) ==
  IF verdict = "Metadata" \/ PlanCheck # "Ok" THEN "Staging"
  ELSE IF Cardinality(MembersOfType("execute")) # 1 THEN "ExecutableMemberCount"
  ELSE IF verdict # "Ok" THEN "Audit"
  ELSE IF audit.issues # <<>> THEN "AuditIssues"
  ELSE IF Classic = {} THEN "EmptyClassicTable"
  ELSE FirstError([i \in Classic |-> WordCheck(audit.records[i], slide)])

\* new(), whose audit is the one that just ran
NewPlan(slide) ==
  /\ verdict # None /\ limits = DefaultLimits
  /\ plan = None /\ result = None
  /\ \/ /\ RebaseCheck(slide) # "Ok"
        /\ result' = RebaseCheck(slide)
        /\ UNCHANGED plan
     \/ /\ RebaseCheck(slide) = "Ok"
        /\ \E words \in Sorted(Words), segments \in Sorted(OuterMappings) :
             /\ plan' = IF Crowded(words) THEN plan
                        ELSE [words |-> words, segments |-> segments,
                              base |-> Base, size |-> ArenaSize]
             /\ result' = IF Crowded(words) THEN "AuditIssues" ELSE result
  /\ UNCHANGED <<collectionVars, auditVars, bytes, call, disturbed, touched, disturbs>>

-----------------------------------------------------------------------------
(* The arena *)

Offsets == 0 .. plan.size - 1

\* What stage_into() leaves at an offset.
Staged(o) == LoadedAt(plan.base + o)

\* A byte of a word after the slide was added, by its place in the file; told
\* apart from every byte of the file, which only makes the readback stricter.
Shifted(source) == -2 - source

Garbage == -1

Idle == call = None

Done(value) ==
  /\ call' = None
  /\ result' = value

Bytes(from, to) == from .. to - 1

\* apply(), whose stage_into() succeeded
Apply ==
  /\ plan # None /\ Idle /\ bytes = None
  /\ bytes' = [o \in Offsets |-> Staged(o)]
  /\ call' = [step |-> "write", word |-> 1]
  /\ UNCHANGED <<collectionVars, auditVars, plan, result, disturbed, touched, disturbs>>

BeginWalk(applying) ==
  /\ call' = [step |-> "walk", applying |-> applying, cursor |-> 0, segment |-> 1, word |-> 1]
  /\ disturbed' = {}

WriteWord ==
  /\ ~ Idle /\ call.step = "write"
  /\ \/ /\ call.word <= Len(plan.words)
        /\ LET w == plan.words[call.word] IN
             bytes' = [o \in Offsets |-> IF o \in Bytes(w.offset, w.offset + w.width)
                                         THEN Shifted(w.source + (o - w.offset))
                                         ELSE bytes[o]]
        /\ call' = [call EXCEPT !.word = @ + 1]
        /\ UNCHANGED disturbed
     \/ /\ call.word > Len(plan.words)
        /\ BeginWalk(TRUE)
        /\ UNCHANGED bytes
  /\ UNCHANGED <<collectionVars, auditVars, plan, result, touched, disturbs>>

\* verify(), on the arena as it is or on a slice of another length
Verify(n) ==
  /\ bytes # None /\ Idle
  /\ \/ /\ n # plan.size
        /\ Done("DestinationSize")
        /\ UNCHANGED disturbed
     \/ /\ n = plan.size
        /\ BeginWalk(FALSE)
        /\ UNCHANGED result
  /\ UNCHANGED <<collectionVars, auditVars, plan, bytes, touched, disturbs>>

-----------------------------------------------------------------------------
(* The walk of verify(): a word, or what lies between two words and belongs *)
(* to one segment's file, one segment's zero tail, or one hole.             *)

Walking == ~ Idle /\ call.step = "walk"

AtWord == call.word <= Len(plan.words) /\ plan.words[call.word].offset = call.cursor

\* The first segment, from the present one on, that ends behind the cursor.
SegmentAhead ==
  Min({i \in call.segment .. Len(plan.segments) : call.cursor < plan.segments[i].offset + plan.segments[i].memory}
        \cup {Len(plan.segments) + 1})

NextWord ==
  IF call.word <= Len(plan.words) THEN plan.words[call.word].offset ELSE plan.size

\* A fault: a stretch is compared with the first bytes of its segment.
SegmentSource(s) == s.source

\* The file offset of the byte under the cursor
CursorSource(s) == s.source + (call.cursor - s.offset)

\* Where a stretch ends and the file offset it is compared with, if any.
Stretch ==
  IF SegmentAhead > Len(plan.segments) THEN [end |-> NextWord, source |-> None]
  ELSE LET s == plan.segments[SegmentAhead] IN
    IF call.cursor < s.offset THEN [end |-> Min({NextWord, s.offset}), source |-> None]
    ELSE IF call.cursor < s.offset + s.size
      THEN [end |-> Min({NextWord, s.offset + s.size}), source |-> CursorSource(s)]
    ELSE [end |-> Min({NextWord, s.offset + s.memory}), source |-> None]

WordHolds ==
  LET w == plan.words[call.word] IN
  \A o \in Bytes(w.offset, w.offset + w.width) :
    bytes[o] = Shifted(w.source + (o - w.offset))

StretchHolds ==
  /\ Stretch.end > call.cursor
  /\ \A o \in Bytes(call.cursor, Stretch.end) :
       bytes[o] = IF Stretch.source = None THEN 0
                  ELSE Content(Stretch.source + (o - call.cursor))

\* A failed apply() takes the plan and the arena with it.
Mismatch ==
  /\ Done("ReadbackMismatch")
  /\ IF call.applying THEN plan' = None /\ bytes' = None ELSE UNCHANGED <<plan, bytes>>

WalkWord ==
  /\ Walking /\ AtWord
  /\ \/ ~ WordHolds /\ Mismatch
     \/ /\ WordHolds
        /\ call' = [call EXCEPT !.cursor = @ + plan.words[call.word].width, !.word = @ + 1]
        /\ UNCHANGED <<result, plan, bytes>>
  /\ UNCHANGED <<collectionVars, auditVars, disturbed, touched, disturbs>>

WalkStretch ==
  /\ Walking /\ ~ AtWord
  /\ call.cursor < plan.size
  /\ \/ ~ StretchHolds /\ Mismatch
     \/ /\ StretchHolds
        /\ call' = [call EXCEPT !.cursor = Stretch.end, !.segment = SegmentAhead]
        /\ UNCHANGED <<result, plan, bytes>>
  /\ UNCHANGED <<collectionVars, auditVars, disturbed, touched, disturbs>>

\* Every word lies in the arena, so none is left over.
WalkEnd ==
  /\ Walking
  /\ call.cursor = plan.size
  /\ Done(IF call.word = Len(plan.words) + 1 THEN "Ok" ELSE "ReadbackMismatch")
  /\ UNCHANGED <<collectionVars, auditVars, plan, bytes, disturbed, touched, disturbs>>

\* External: a byte of the arena changes.
Disturb(o) ==
  /\ disturbs < MaxDisturbs
  /\ \E byte \in {Garbage, Staged(o)} \ {bytes[o]} : bytes' = [bytes EXCEPT ![o] = byte]
  /\ disturbed' = IF Walking /\ o >= call.cursor THEN disturbed ELSE disturbed \cup {o}
  /\ touched' = TRUE
  /\ disturbs' = disturbs + 1
  /\ UNCHANGED <<collectionVars, auditVars, plan, call, result>>

-----------------------------------------------------------------------------

Init ==
  /\ AuditInit
  /\ plan = None
  /\ bytes = None
  /\ call = None
  /\ result = None
  /\ disturbed = {}
  /\ touched = FALSE
  /\ disturbs = 0

Next ==
  \/ AuditNext /\ UNCHANGED rebaseVars
  \/ \E slide \in Slides : NewPlan(slide)
  \/ Apply
  \/ WriteWord
  \/ WalkWord
  \/ WalkStretch
  \/ WalkEnd
  \/ bytes # None /\ \E n \in {plan.size, plan.size - 1} : Verify(n)
  \/ bytes # None /\ \E o \in Offsets : Disturb(o)

Spec == Init /\ [][Next]_vars

-----------------------------------------------------------------------------
(* Properties *)

\* What the arena should hold: the bytes the audit's classic records name are
\* shifted, the others are as staged.
Expected(o) ==
  LET address == plan.base + o
      writing == {i \in Classic : address \in WriteBytes(audit.records[i])}
      r == audit.records[CHOOSE i \in writing : TRUE]
  IN  IF writing = {} THEN Staged(o) ELSE Shifted(FileOf(r) + (address - r.address))

\* A new plan rewrites every classic word of the collection, and each is the
\* kernel's own: no byte of one belongs to the header of any image, to memory a
\* kext maps, or to a chained word, so the chains the plan counts as preserved
\* are (the profile, mapping and header checks of new() over four lists).
WordsAreTheKernels ==
  plan # None /\ bytes = None =>
    /\ Len(plan.words) = Cardinality(Classic)
    /\ \A i \in Classic : \A a \in WriteBytes(audit.records[i]) :
         /\ FilesAt(Kernel, a) = FilesAt(Outer, a)
         /\ FilesAt(Kernel, a) # {}
         /\ \A k \in MembersOfType("kext") : ~ MappedBy(MemberImage(k), a)
         /\ \A m \in Images :
              a \notin Bytes(HeaderMemory(m).offset, Limit(HeaderMemory(m)))
         /\ \A j \in DOMAIN audit.records :
              audit.records[j].mechanism = "chain" => a \notin WriteBytes(audit.records[j])

\* Whenever apply() or verify() returns Ok, each byte is the shifted or staged
\* byte it should be unless it was changed after that call read it, so the call
\* has read them all; and they report a mismatch only if some byte was changed
\* (the walk's cursor, segment and word must stay in step through holes, zero
\* tails and words that split a segment).
RebaseIsExact ==
  /\ result = "Ok" /\ Idle /\ bytes # None =>
       \A o \in Offsets : o \notin disturbed => bytes[o] = Expected(o)
  /\ result = "ReadbackMismatch" => touched

=============================================================================
