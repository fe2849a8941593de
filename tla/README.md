# A verification of Nextcore-Core in TLA+

Nextcore-Core (`src/`) plans and stages the boot of a kernel collection: it
reads configuration and container formats, extracts boot data, places images
and boot arguments in guest memory, and keeps a ledger of the guest memory it
has given out.  It is a library.  Its calls are synchronous, its values are
owned by their callers, and one atomic counter is its only shared state.

This directory holds TLA+ modules translated from that code, TLC runs on small
instances, and proofs that TLAPS checks for every value of the constants.
`PROJECT.json` lists the runs, the source lines behind each definition, one
seeded fault per checked property, the hazards and the theorems.

## The system

| part | source | state it keeps | operations | where it is hard |
|---|---|---|---|---|
| guest allocation ledger | `guest_memory.rs` | aperture, generation, table of 64 reservations, backing bytes; the static identity counter | `from_owned`, `from_borrowed`, `snapshot`, `reserve_at`, `allocate`, `release`, `read`, `copy_into`, `bind_device_tree`, `commit_device_tree`, `with_guest_memory` | callers keep copies of tokens and stamps across any later calls, and present them to any ledger; errors must change nothing; counters may not wrap |
| collection inspection | `kernel_collection.rs` | none (a pure parser) | `inspect_kernel_collection`, `inspect_arm64_kernel_collection` | two coordinate systems (file and memory), nested images that must be views of their collection |
| collection staging | `kc_staging.rs` | a plan; while staging, the destination and the counts of the readback | `new`, `new_arm64`, `stage_into_observed`, `verify_observed`, `stage` | a readback that visits each byte once although views overlap; memory that does not hold what was written |
| ARM64 handoff | `xnu_arm64_handoff.rs` | a plan with its layout | `new`, `new_with_framebuffer`, `stage_into_observed`, `verify` | a second stage built on the first, reporting its phases; only the tail is read back again |
| handoff backing | `xnu_arm64_backing.rs` | host/guest ranges of one handoff | `new`, `handoff_mut`, `service_parts` | overlap of host, guest and RAM ranges |
| boot arguments | `xnu_boot_args.rs`, `xnu_arm64_boot_args.rs` | none | the encoders, `read_dram_node` | order of checks, ranges inside DRAM |
| stage-1 tables | `arm64_stage1_tables.rs` | the tables under construction | `new`, `new_with_aliases`, `virtual_address` | three levels of sharing, aliases that may not collide |
| startup images | `arm64_startup_image.rs` | none | `stage_startup_images` | two images placed one after the other, both checked before either is written |
| fixup audit, classic rebase | `kc_fixup_audit.rs`, `kc_classic_rebase.rs` | counters and worklists of one audit; the rebased image | `audit`, `new`, `apply`, `verify` | chains that may loop or leave their page, overlap of fixups and file mapping |
| APFS jumpstart | `apfs_jumpstart.rs` | none; reads a block source | `extract_jumpstart` | two reads of one block that may differ, extents that repeat |
| device trees | `runtime_dt.rs`, `flat_dt.rs`, `firmware_dt.rs` | a budget; templates and bindings | `parse`, `encode`, `prepare`, `write_reserved`, `materialize_into` | measured size against written size, limits, templates left unresolved |
| boot configuration and selection | `boot_config.rs`, `selected_boot_input.rs`, `config.rs` | none | parsers of targets, menus, records; `verify_selected_image` | several records that must name one another |
| boot picker | `boot_picker.rs` | selected entry | `navigate`, `render` | wrap-around, a window that must contain the selection |
| firmware handoff | `handoff.rs`, `device_props.rs`, `acpi.rs` | none | serialize, deserialize, table search | truncated input, boundary of the scan |
| object readers | `macho_image.rs`, `mach_o.rs`, `kext.rs` | none | parsers | bounds |

How they interact: `xnu_arm64_handoff` builds a `KcStagingPlan`, which inspects
its source with `kernel_collection`; it lays the boot arguments, the device tree
and the stack behind the collection and stages all of them into a slice its
caller owns.  `xnu_arm64_backing` checks such a slice against guest RAM.
`runtime_dt` materializes a device tree from a template tree of `firmware_dt`;
`guest_memory` binds it to a reservation and a generation and commits it.
`arm64_stage1_tables` gets the same RAM and link addresses from the caller that
built the handoff, and its tables become the backing's second range.
`kc_classic_rebase` inspects a collection, audits it with `kc_fixup_audit` and
stages it with `kc_staging` before it rewrites words of its own arena.
`boot_config` decides what is booted, `boot_picker` lets a person decide among
its entries, and the records of `selected_boot_input` pin the bytes of what was
decided, the two images of `arm64_startup_image` among them; those lie behind
the occupied end that a handoff leaves.
Observers of a staging are callbacks; no component calls back into another one.

Nothing in the library runs concurrently with itself except the mint of ledger
identities, one atomic compare-and-swap.  What is hard is elsewhere: values that
callers keep across other calls (tokens, stamps, prepared trees, plans, staged
slices); two descriptions of one range that several checks relate only piecewise;
calls that fail half-way; and memory that does not hold what was written to it.

## What is modelled, and how it corresponds to the code

Common to all modules: an action is a whole call, or a step of a call where the
code can be observed or interrupted between steps; its checks are an operator
named for the function, which returns the error that the first failing check
returns; a call that fails is a step too.  Words are bounded by constants
(`MaxAddress` is `u64::MAX`) and every checked sum is compared with them.
Operators whose comment says "A fault" are seeded bugs; nothing uses them except
`PROJECT.json`, which substitutes each for the definition behind it to show that
a property notices.

### The ledger: `GuestMemory`, `ReservationLedger`, `AllocateSearch`

`GuestMemory` has one variable per field of the ledger (`owner`, `aperture`,
`generation`, `reservations`, `ram`), indexed by the ledger, `nextOwner` for the
static counter, and `issued`, `snapshots`, `prepared` for what callers hold:
every token ever given out, stamps with the state they were taken of, device
trees with the stamp they are bound to.  One action per public operation; each
may get any token or tree that any caller holds, of any ledger, alive or not.
`WithGuestMemory` is the closure that gets the whole aperture: it writes
anything and the generation moves whether or not it does.  A drop closes a
handle, and its backing may be opened again with another identity.

`ReservationLedger` is what a ledger promises without table, limits, search or
errors; `GuestMemory!ImplementsPromise` is the refinement.  `AllocateSearch`
replaces the one-step `Allocate` by the loop of `allocate()`, an iteration per
step, while other ledgers go on; `LoopImplementsAllocate` shows that its last
iteration is the step that `GuestMemory` takes.

### The collection: `KernelCollection`, `KcLayout`, `KcStaging`

`KernelCollection` has the bytes of a file as a constant structure: which image
is found at which offset, and the load commands that place things.  `Inspect`
is the whole inspection under one of the two profiles.  `KcLayout` EXTENDS it
with what `from_inspection()` computes: the arena, the mappings, the views and
the checks of each.  `KcStaging` EXTENDS that:
`NewPlan` lays an accepted collection out; a call clears, copies, scans the
arena and reads the member views back, one step per loop that an observer or
changing memory can tell apart; `Disturb` changes a byte of the slice at any
moment, for memory behind the slice that does not hold its contents (the code
reads it back with volatile reads for that reason) and for the slice's owner,
who may change it before asking `verify()`.  The variables `reads`,
`disturbed`, `touched` and `disturbs` are history, and no guard of a call reads
them.

### What a collection wants rewritten: `KcFixups`, `KcRebase`

`KcFixups` EXTENDS `KernelCollection` with the tables that name words: classic
relocations, as displacements from the writable or the first segment, and the
chains of 64-bit words that start in a page.  `BeginAudit` is the inspection and
lines up what `image()` visits, of the collection and then of each member; the
audit takes one relocation, one issue, one page or one word of a chain at a time
(`AuditEntry`, `AuditIssue`, `CountPage`, `BeginChain`, `AuditWord`,
`AuditWordOutside`), with the three limits a caller passes.  Then `SweepWord` is
one turn of `overlaps()`, which takes the words in the order of their addresses
and finds those that share a byte.  Records carry every word, issues every
reason not to rewrite one, in the code's order.

`KcRebase` EXTENDS it and `KcLayout`: `NewPlan` is a plan with all checks of the
words it will shift, `Apply` stages and `WriteWord` shifts, and the readback
walks words and segments side by side (`WalkWord`, `WalkStretch`, `WalkEnd`);
`Verify` asks about a slice that its caller may have changed.

### The handoff: `Arm64Placement`, `Arm64Handoff`

`Arm64Placement` is the arithmetic: `Build` places kernel, arguments, tree,
stack and framebuffer and encodes the addresses in the boot arguments, with
every check of both files in order; `Back` is the backing's own check of that
layout, against RAM and tables given as host and guest ranges.  A device tree is
its length, whether it is well formed and the DRAM it declares.
`Arm64Handoff` EXTENDS `KcStaging`, INSTANCEs `Arm64Placement` with the kernel
that the inspection and the plan make of a file, and takes the seven reported
phases of a staging step by step; the nested staging takes the actions of
`KcStaging`.  `PlansMeetPlacement` says that kernels made this way are sound
(`KernelIsSound`), as the placement's proofs assume of any kernel; it is proved,
and so those proofs apply to the composition.

### The tables: `Stage1Tables`, `PageMap`

A table is a function from slots to the numbers stored there.  `Begin` is the
checks of both constructors and the two roots; `MapIdentity`, `MapLinear` and
`MapAlias` are one `map_page()` each, in the order of the loops, with every
table it makes; the host may be out of memory at each of them, and an error
gives up the whole set.  `PageMap` is what a table set promises: translations
are added one at a time and never change.  `Translate` is the machine's walk, as
`docs/ARM64_STAGE1_TABLES.md` and the reader of the tests describe it.

### Startup images: `StartupImages`

One behaviour is one call of `stage_startup_images()`: `CheckRequest` is
everything before the first write (both parses and the placement), `WriteImage`
the fill and the copies of one image, `VerifyImage` its readback.  The bytes in
`stuck` take no write, so a readback has something to find.  Load commands keep
the numbers that place bytes; the words that name a format, and the size words
of a command, are verdicts ("head", "shape").

### Device trees: `TreeCells`, `DeviceTrees`, `TreeWrites`, `RuntimeDt`

Serialized, a tree is a sequence of cells (the counts of a node, a property with
its value, in `TreeCells`); `DeviceTrees` has both of its formats.  The code walks a tree twice, once
over the nodes it encodes and once over the bytes it reads, each time charging a
budget of nodes, properties, depth and bytes; here a walk is the sequence of its
events, and `Charge` folds a budget over it.  `RuntimeDt` says what `prepare()`
makes of a request: it parses a firmware's tree, matches the values a caller
provides with its templates, measures and writes the result.  `TreeWrites` is one
session with such results: `Prepare` keeps one, `WriteReserved` copies it into a
reservation, `MaterializeInto` does both at once; `EncodeTree` is the encoder
alone.  The results are a constant of `TreeWrites`, which the run takes from
`RuntimeDt`: what a write does to RAM is proved for any of them.

### The jumpstart of an APFS container: `ApfsJumpstart`

`extract_jumpstart()` reads a prefix of block 0, block 0, the record, then the
driver, and each answer says where the next read goes.  One action is one read
with everything computed of it before the next; a read may fail, and `Replace`
puts another medium behind the source between two reads.  `turn` is where the
loops over the extents and their blocks are; `reads` is history.

### From a configuration to a boot: `PropertyLists`, `BootSelection`, `TraceConfiguration`, `BootPicker`, `SelectedBootInput`, `BootSession`, `KeyOrder`

The first five are pure: what a property list must be and how keys are found in
it; the target, the menu and the named kernel; the trace that eight entry points
read with growing capabilities; navigation and the layout of a picture; the four
records and what each asks of the others.  `BootSession` strings them together
as a caller must: a menu drawn and keyed through, a trace read by any entry
point, or records parsed, bound and their payload copied.  The order between the
calls is the caller's, so each of its steps uses only what the call before it
returned.  Which paths name two files is what the records compare: a companion's
with every other, in any case; the two of the collection, and the image's with
the payload's, as they are written.  The crate does not compare the image or the
payload with the collection, so the run copies a payload for records whose
collection has the image's path, and `PartsBelongTogether` makes no promise
about such a pair.  `KeyOrder` has the one property that compares a document
with another, the same with its keys turned round.  `Checks` says what a row of
checks and a loop of checks return.

## Runs

| run | question | size |
|---|---|---|
| `commit` | are reservations apart, can a device tree reach memory that changed since its snapshot, does an error change anything; refinement of `ReservationLedger` (which allows no byte to change outside a reservation) | 3 bytes of RAM, 2 slots, generations to 3 |
| `owners` | does anything of one ledger work on another, or on its successor | 2 ledgers, 3 identities, until they run out |
| `search` | does the loop find the lowest fit, end, and equal the one-step `Allocate` | every table of up to 3 reservations, the aperture ending at the last address |
| `staging` | does `Ok` mean that the slice is what the load commands ask for; are the phases reported in time and the counts true; does staging accept what inspection does | collections with holes, tails and overlapping views, 12 bytes, one disturbance |
| `fixups` | are members of an accepted collection views of it; does the sweep find exactly the shared bytes; are audited words where the audit says, and chained ones in their page; is a rebased arena shifted in exactly the kernel's words | 20,900 collections, three sets of limits, one disturbance |
| `placement` | is the layout apart, translated by its bases and backable | 33,000 requests, 120 backings each |
| `handoff` | does `Ok` of the composed staging mean that every byte is in place, do its plans fit the placement and the backing, does a call return | whole slices, one disturbance at any point |
| `tables` | do finished tables translate what was asked for, can construction fail for another reason than memory; refinement of `PageMap` | 8 pages in each half, 1,601 requests, up to 2 aliases |
| `startup` | does a refusal write nothing, are images whole and apart | two companions with an oddity each, every arena around them, sets of bytes that take no write: 71,000 states |
| `devicetree` | do the two walks agree, is the measured size written, does anything but a template change, does a write stay in its reservation | trees at every limit and one beyond, sources with one oddity, bindings of up to two templates |
| `jumpstart` | is the driver whole, does every read stay in the geometry that was accepted | blocks of 2 and 4 bytes, up to 3 extents, a medium replaced up to twice |
| `boot` | do the two readers of targets agree, does the order of keys matter, does the screen tell the truth, do the trace's capabilities nest, do records bind, are compared paths two files | documents with one or two oddities, screens at both sides of every threshold, every sequence of keys in menus of up to 5 entries, records with one or two lines changed |

Some properties of a run are conjunctions, each part with its own comment in the
module: `StagingTellsTheTruth`, `HandoffTellsTheTruth`, `BackingHoldsLayouts`,
`ConstructionHolds`, `ReadsStayInside`, `PickerTellsTheTruth`,
`PartsBelongTogether`.

Why the bounds are enough.  The ledger's operations look at one or two
reservations at a time, so two slots give every relation of two, and `search`
has every table of three; words are bounded just above the largest legal value,
so that each overflow check has inputs on both sides; generations and identities
run out in `commit` and `owners`.  One disturbance already separates every pair of moments
in a staging; a second one adds no comparison that the code makes.  Files of a
collection have two members because views are compared with the collection and
with each other's reads only; its words lie in two pages, so a chain can leave
its page, end in it or run into another one's word.  Requests of `placement`,
`tables` and `startup` are chosen around each comparison in the code: one unit
below, at and above it.  In `tables`, two slots a table make every range of two
pages cross a boundary at one level and every range of four at two.  A device
tree of three nodes has a sibling, a child and a limit of each kind to pass.  A
jumpstart makes at most six reads, and two replacements show a medium before,
between and after any two of them.  A picture shows up to three entries, so five
make the window move from both ends.  Documents differ from a sound one in one
place, and in two where a check of one key looks at another.

Deadlock is checked in the ledger's runs, in `search` and in `handoff`.  It is
off where the system ends: a placement, a set of tables, the call of a startup
image, a jumpstart and a boot are finished when their last call has returned,
and so are the models of a staging and of a rebase whose collection was refused;
a device tree is written once in a behaviour.

## Fairness

Liveness is claimed of two calls that loop, and each assumes weak fairness of the
next step of the running call only: the iteration of `allocate()`
(`SearchReturns`), and the step of a handoff's staging or verification, those of
the staging inside it included (`HandoffCallsReturn`).
The code is sequential and no call waits for anything, so a running call takes
its next step; nothing is assumed of callers, who may never call again, or of
disturbances.

## Proofs

`tlapm` checks every theorem for all values of the constants.

`GuestMemory_proofs`.  None of the safety invariants is inductive alone.
`IInv` joins them: the types; disjointness of the reservations inside their
aperture; uniqueness of tokens; the counters' lead over everything given out;
and that a stamp which is still current shows the present state.  Disjointness
needs the types; uniqueness needs the lead (a new token is new because its
serial is not yet behind the counter); the truth of stamps needs the lead of
identities, or a ledger opened again could meet an old stamp.  `StepEffect`
then shows that every step of `Next` has one of a few effects (open, drop,
snapshot, insert, release, write behind one reservation, lend, or nothing but
`outcome`), and each theorem about steps is proved of the effects:
`StampsNameOneState`, `CommitsReachSeenState`, `WritesAreContained`,
`FailuresAreAtomic`, `ReleasedTokensStayReleased`.  `KeepsItsPromise` maps each
effect to an action of `ReservationLedger` or to stuttering.
Assumptions: `LedgerAssumption` and `RequestAssumption` (words and requests are
natural numbers in range), `WordAssumption` (the word size is a multiple of
every power of two that fits in it) and `NoneAssumption`.

The module also holds the theorems about `AllocateSearch`.
`SearchInv` says what the loop keeps: the request was
checked, a slot is free, the candidate is aligned and at or above the aperture's
start, and no aligned extent below it fits.  The last part is inductive because
everything from the old candidate to the end of the highest blocker overlaps a
blocker.  From it, the loop returns the lowest fit and gives up only when
nothing fits, and each round passes another reservation.

`KcLayout_proofs`.  Acceptance is a predicate of the file, so the theorems about
collections unfold the checks: for any number of members, the segments of an
accepted member lie in segments of the collection at one distance between file
and memory, which gives `MembersAreViews` byte for byte, and `HeadersAreMapped`.
`PlanningFits`: what the inspection has established implies every check that
`from_inspection()` repeats, so a plan is refused for its arena and base or not
at all (`AcceptedCollectionsHaveRoom`, of a staging).  Segments end inside the file and
the span, the header and the entry lie in a mapped segment, and so does the
header of each member's view.  It also has what sorting a set of mappings gives
(`SortedIsInOrder`) and that the mappings of a plan say where each byte of the
arena comes from (`MappingsTell`).  Assumed are `CollectionAssumption`,
`FileAssumption` and `LayoutAssumption` (a file's words are words, it has
finitely many commands, and a page is not empty).

`Arm64Placement_proofs`.  `PlanIsChecked` says that a layout, once there, is the
one computed from an input that passed every check; it is inductive because
only `Build` writes a layout.  The four theorems are arithmetic from it, on
lemmas about rounding to pages and about remainders.  Assumed are
`PlacementAssumption` (the arguments fit a page, a stack is whole pages),
`KernelAssumption` and the ranges of inputs.

`Arm64Handoff_proofs` is about staging and what is built on it.
`StagingInv` says what a staging knows at each step.  The plan is one that
`from_inspection()` makes.  Before the segment and byte where the scan stands
(`ScanEnd`), every byte of the arena is read, found as the file or the padding
has it, and counted (`Confirmed`); at a member's view, all bytes of earlier views
are read a second time and counted once (`ViewsConfirmed`).  A slice nobody has
changed holds the copies, so nothing is found wrong in it; and the report says
what the phases so far did.
The scan is one cursor over many segments: that it passes no byte between them
takes that segments are sorted and apart (`ScanTells`), and that the second scan
meets only what the first has read takes that views lie in segments.
`SegmentsAreLoaded`, `ViewsAreTold` and `ViewIsAhead` carry this over the ends of
a segment and of a view.  `StagingIsTruthful` follows: a staging that returns
`Ok` has seen every byte it reports.

`HandoffInv` puts staging and placement together.  Before there is a
plan nothing happens but failing attempts (`Unbuilt`); a plan is a staging plan
with a layout that has room for it (`LayoutOK`).  From the moment a staging
enters the collection, the front of a full slice is as `StagingInv` has it
(`FrontOK`): what the handoff writes lies behind the collection
(`WritesBehindArena`), so that the collection stays as its readback found it.
The tail is zero when it is cleared, as laid out once the arguments and the tree
are written, and read up to where the check of the tail stands (`TailOK`,
`TailRead`); the verdict is on both parts (`VerdictOK`), and the phases are those
of the collection with one before and two after (`ToldOK`, `Relaying`).
`HandoffIsTruthful` follows.  `KernelFits` takes from the staging's theorems that
a plan is a sound kernel, and `Arm64Placement_proofs`, by INSTANCE for that
kernel, gives a layout its shape (`LayoutsAreWell`); `PlansFitPlacement` states
both.  Assumed are `HandoffAssumption`, which is the placement's assumptions for
the inputs of a handoff, `StagingAssumption` and `NoneAssumption`, and what the
layout assumes.

`KcRebase_proofs` is about the audit and what is done with it.  A preparation
says what concatenating the steps and the issues of a list gives
(`FlatteningHolds`), whatever the lists are.  `AuditInv` then knows of the
running audit: where each step came from; of every record, that the file it
names is backed by its image and by the collection and that a chained word is in
the page it names (`RecordOK`, `WordStartsInItsPage`); as long as no
issue was raised, that every word was found and that at most the chain being
followed has no end yet (`CleanOK`); and of the sweep, that it has passed the
words before some place in their order, with the furthest end of each mechanism
attained by one of them (`SweepOK`).  That one remembered end is enough takes
the order: a word that ends behind the present one, and starts no later, shares
its first byte (`SweepSeesOverlaps`), and chained words at one address follow
one another (`SweepSeesVisits`).  So what is reported of a word is settled when
the sweep passes it (`ReportsOK`), and `SweepFindsOverlaps` follows when none is
left.  `CleanAuditsAreBacked` adds that segments of an accepted image share no
address, so a byte of a backed word has no second place in the file.

For the rebase, `Planning` keeps what a plan was made of: the file it was
inspected from, an audit without issues, all words checked under one slide,
sorted, and no two of them sharing a byte (`PlanOK`).  `PlansAreTheKernels` is
then about one word: it was accepted as the kernel's, and each of its bytes is
one place of the kernel's part of the file (`ClassicIsTheKernels`).  `ArenaInv`
adds what a call does with such a plan.  An arena nobody has touched holds at
every offset what it should hold at this moment (`Meant`): the file's byte as
staged where a word that is still to be written covers it, and the rebased byte
everywhere else, which takes that words do not overlap, so that a write settles
its own bytes and spoils no other.  A walk has two cursors over one arena, one
in the words and one in the segments, and is in step (`WalkInStep`) when the
words passed end at or before the offset reached and the others start at or
behind it, and no segment was passed that reaches further: the code takes the
next stretch from whichever comes first, and with a cursor out of step it would
compare bytes with what other bytes should be
(`NextWordTells`, `SegmentAheadTells`, `StretchTells`).  Below that offset
every byte that was not disturbed is as expected.  A verification that returns
"Ok" has then seen every byte, and one that finds a mismatch has found a byte
that is not `Meant`, so the arena was touched: `RebasesAreExact`.

Assumed are what the layout assumes, `FixupsAssumption` (the words and tables of
a file have the ranges of their fields), `OptionAssumption` (None is neither a
number nor a verdict) and `CallAssumption` (None is neither a call in progress
nor the error of a readback).

`Stage1Tables_proofs`.  What a walk through the tables reads depends on every
write so far, so the invariant, `StageInv`, is about the tables as a whole.
`Tree` gives each table a level: a used slot of the first two levels names a
table of the next one, no two slots name the same, and a used slot of the last
level holds a page of RAM.  From that the way to a page is the page's own
(`PathsArePrivate`): two pages that end in one slot of one table agree in all
slots, which are the digits of a page's number (`SlotsAreDigits`), and in their
half.  So a new table is on nobody's way (`GrownKeepsLeaves`) and a new
descriptor changes one translation (`SettledLeaves`); `PageIsMapped` puts the
two levels together for all that `map_page()` can do.  `Holding` says which
pages are mapped: of each range those up to where the loops are, and no others.
The checks of the arguments leave ranges that are apart (`AcceptedSpans`), hence
the next page of a range is free.  The number of tables is bounded by the blocks
of pages that a range touches: when the next page lacks a table, the range
enters a new block (`MissingFits`), and what a whole range can touch is what
`MAX_TABLE_BYTES` has room for (`CapacityHolds`).  `TablesTranslate`,
`ConstructionIsHeld` and `TablesImplementPageMap` follow.  Assumed are
`GeometryAssumption` (halves that do not meet, room for the largest request, as
the constants of the code have it) and `RequestAssumption` (the arguments are
words).

`PreBoot_proofs`, part one: startup images.  `FirstRefusal` and `FirstError` return "Ok" only if no
check of theirs failed, which takes that a set of naturals has a least element.
`SortedListsSegments` shows that the sort lists every segment once, by address
(counting what precedes a segment numbers all of them), and `ParsedImage` what
the checks then leave: the code compares neighbours only, and all segments are
apart.  `CallInv` says that a call between its checks and its end has an accepted
request, and that a call which ends otherwise has written nothing; it is
inductive because the ranges of a readback are those of the accepted segments
(`PiecesInOrder`, `ReadbackReads`), so that no refusal comes after a write.
`ImagesLieApart` is arithmetic on two roundings (`PlacedSpans`).
`ImagesStayWhole` adds to `CallInv` what memory holds at each step (`WholeInv`):
a readback that finds nothing has compared every byte, since the greatest piece
that starts at or below a byte decides in which of the compared ranges it is
(`ReadbackHolds`), and the second write leaves the first image alone because the
slices are apart.  Assumed are
`StartupAssumption` and `CompanionsAssumption`: sizes and addresses are words,
and a file has finitely many commands.

`PreBoot_proofs`, part two: the driver and the picker.  `JumpstartInv` says what a
jumpstart has accepted when it makes its next read: a block size that is the
prefix' own (`SizeOK`), a container in that block size which the partition holds
(`SuperOK`), extents in it that hold the file (`RecordOK`).  `TurnFits` is what
makes the loops inductive: the bytes so far are all that the earlier extents and
the earlier blocks of this one hold (`Held`, the running sum), the file lacks
more than the blocks of this turn before the last, and after the last the extent
is exhausted or the file complete.  So a turn that ends an extent leaves a file
that is complete or one that the next extent continues (`TurnAdvances`), and a
byte read at a turn is the driver's next one (`TurnReads`).  Media change between
reads only what is still to be read.  `ReadsAreInside` and `DriversAreWhole`
follow, from `JumpstartAssumption`, `MediaAssumption` (what is read is words) and
`NoneAssumption`.

`First`, `Visible` and `RowStart` of the picker are taken over every width,
height, number of entries and selection: the window holds what is selected
(`PicturesStaySound`), no key leaves the menu, and a key that reports no change
has made none.

`PreBoot_proofs`, part three: a boot from its configuration on.  `SessionInv` ties
the parts of a boot that are made at different times: the menu is the parser's
(`ReadingInv`); whenever a key may come the picture is that of the selection, and
nothing is started between a key and the next picture (`PickerInv`, without which
a redraw could outlive what it shows); and the destination differs from what it
held only behind the checks of every record (`PartsInv`).  `MenusMatch` then takes
that the two loops over the entries differ in nothing but names and the second
enabled entry (`LoopsAgree`, `ParsersAgree`).  `CapabilitiesDoNest` goes through
the tests of a trace one by one (`MemoryProfilesNest`, `TiersNest`,
`BudgetsNest`): only these three know the entry point, and each refuses no more
with a later one (`OutcomesNest`).  `PickersTellTheTruth` is `PicturesStaySound`
at every picture that is drawn, `PartsDoBelong` what the row of checks before the
copy says (`CopyAccepted`, `CompanionsAccepted`, `BootKcAccepted`).  Assumed is `BootAssumption`:
what the types of the code say, that pixels, sizes and lengths are unsigned, that
the entries of an accepted document are a list and its budget a number.

`PreBoot_proofs`, part four: a device tree in guest RAM.  `RamInv` says that RAM
is an aperture of bytes and that a prepared tree has a size; `ReservedAccepted`
is the row of checks before the only copy.  `WritesAreReserved` follows
(`WritesStayInside`), the second test of the copy's end included, which no
reservation in RAM can fail once the tree fits its capacity.  Assumed are
`RuntimeAssumption` (addresses and sizes are words) and `OutcomeAssumption` (the
bytes of a prepared tree are a number).

`NaturalLemmas` has the least and the greatest element of a set of naturals,
division and rounding by a positive number, and what a row of checks tells that
returned "Ok".

Proved and not run: the lead of the counters (`CountersAhead`), that a step which
changes a ledger moves its generation (`StampNamesOneState`), and two facts about
the search's loop (`NoFitBelowCandidate`, `EachSkipPassesARecord`) are steps on
the way to the properties that are run, and have theorems of their own.  So are
the inductive invariants `StageInv`, `StagingInv`, `HandoffInv`, `AuditInv`,
`JumpstartInv` and `SessionInv`.

Model-checked only: liveness; `LoopImplementsAllocate` (the one-step search is a
recursive function, and what it computes for every input takes an induction that
the provers here cannot instantiate); `KeyOrderIsFree`, which turns a document
round by a recursive operator; and the three properties of `RuntimeDt` itself,
whose trees are walked by recursive operators.

## What is not modelled

Of the modelled files:
- the byte layout of headers, load commands, records and boot arguments; a
  format's fixed words are verdicts;
- symbol strings, link-edit blobs nobody reads and the list of preparation
  requirements of a collection;
- `read_dram_node()`, whose result is an input of a placement, and the contents
  of the device tree that a handoff places or a ledger commits;
- the lexical scan of XML text in front of the XML parser (`scan_xml_bounds`),
  which decides what the parser gets to see, character by character;
- glyphs, colours and pixels of the picker;
- checksums and digests, which are verdicts or the names of contents;
- allocations of the host that fail, except in `Stage1Tables`, where what is
  given up half-way matters.

Of the other files:
- `xnu_boot_args.rs` (Intel): an encoder of one fixed layout, called by nothing
  else here; the range checks it shares with the ARM64 encoder are modelled
  there;
- `macho_image.rs`, a reader without state that nothing staged depends on:
  collections and startup images are read by code of their own;
- `acpi.rs`, `handoff.rs` and `device_props.rs`: a scan and two length-prefixed
  formats, each a function of one buffer, used by no other part;
- `config.rs`, `kext.rs`, `mach_o.rs`, `error.rs` and `lib.rs`: data types and
  thin wrappers of external parsers, without state or order.

`research/` holds earlier exports of some of these files, and the tools, scripts
and examples around the library are not part of it.

## Plan

Done, in this order: the ledger, its search and their proofs; collections and
their staging; placement and handoff; tables; startup images; the jumpstart;
device trees; fixups and the rebase; the boot from configuration to records.

Worth proving next: `MeasuredIsWritten` and `PreparedIsResolved` of `RuntimeDt`.
The walks of `DeviceTrees` would become folds over the nodes of a tree for that,
as those of `PropertyLists` are, since the provers do not see through recursive
operators.

Modules worth writing next: `BootArgs` and `HandoffBuffer`, encoders and readers
as operators checked against each other; a composition of `RuntimeDt` with
`GuestMemory`, whose trees are only a size.
