---------------------------- MODULE Arm64Placement ----------------------------
(***************************************************************************)
(* Where an ARM64 handoff goes in guest memory.                            *)
(*                                                                         *)
(* Build is Arm64HandoffPlan::new and new_with_framebuffer                 *)
(* (src/src/xnu_arm64_handoff.rs) with the encoder of the boot arguments   *)
(* they call (src/src/xnu_arm64_boot_args.rs): the kernel's arena, a page  *)
(* of arguments, the device tree, a stack and perhaps a framebuffer lie    *)
(* behind one another.  Back is Arm64HandoffBacking::new                   *)
(* (src/src/xnu_arm64_backing.rs), which later gets only the layout, and   *)
(* checks it against the memory behind it.                                 *)
(*                                                                         *)
(* A device tree is its size, whether it is well formed, and the DRAM that *)
(* its /chosen node declares; the command line and the boot flags are      *)
(* acceptable or not; the machine type is left out.                        *)
(***************************************************************************)
EXTENDS Integers, FiniteSets

CONSTANTS
  Inputs,         \* Arm64PlacementInput with the geometry of a framebuffer or None
  Kernels,        \* what KcStagingPlan::new_arm64 makes of a source
  Backings,       \* RAM and tables, with their guest and host addresses
  MaxAddress,     \* u64::MAX
  MaxWord,        \* u32::MAX
  MaxAllocation,  \* isize::MAX
  MaxTreeBytes,   \* MAX_DEVICE_TREE_BYTES
  PhysicalLimit,  \* PA_LIMIT
  PageSize,       \* VMAPPLE_PAGE_SIZE, and PAGE of the backing
  BlockBytes,     \* ARM_BOOTSTRAP_BLOCK_BYTES
  StackBytes,     \* ARM_BOOT_STACK_BYTES
  ArgsBytes,      \* ARM64_BOOT_ARGS_SIZE
  ArgsAlign,      \* of the arguments (8)
  TreeAlign,      \* of the device tree and its length (4)
  PixelBytes,     \* bytes of a pixel (4)
  None            \* Option::None

VARIABLES
  input,    \* what the plan is asked for
  kernel,   \* the collection staged for it
  layout,   \* the Arm64HandoffLayout, with the framebuffer's
  args,     \* the words of the boot arguments that are addresses or sizes
  backing,  \* the Arm64HandoffBacking
  result    \* what the last call returned

placementVars == <<input, kernel, layout, args, backing, result>>

SizesAreSound ==
  /\ {MaxAddress, MaxWord, MaxAllocation, MaxTreeBytes, PhysicalLimit} \subseteq Nat
  /\ {PageSize, BlockBytes, StackBytes, ArgsBytes, ArgsAlign, TreeAlign, PixelBytes}
       \subseteq Nat \ {0}
  /\ ArgsBytes <= PageSize
  /\ StackBytes % PageSize = 0

ASSUME PlacementAssumption == SizesAreSound /\ None # "InvalidLayout"

\* A request is made of words.
InputIsSound(i) ==
  /\ {i.physBase, i.virtBase, i.memory, i.actual, i.kernelPhys} \subseteq 0 .. MaxAddress
  /\ i.tree.bytes \in 0 .. MaxAddress
  /\ i.tree.dram # None => {i.tree.dram.base, i.tree.dram.size} \subseteq 0 .. MaxAddress
  /\ i.geometry # None =>
       {i.geometry.width, i.geometry.height, i.geometry.rowBytes} \subseteq 0 .. MaxWord

ASSUME InputAssumption == \A i \in Inputs : InputIsSound(i)

\* A staging plan has whole pages, and its header and its entry lie in them.
KernelIsSound(k) ==
  k.check = "Ok" =>
    /\ k.base \in 0 .. MaxAddress
    /\ k.size \in 1 .. MaxAddress /\ k.size % PageSize = 0
    /\ k.header \in 0 .. k.size - 1 /\ k.entry \in 0 .. k.size - 1

\* The errors of the staging and of the backing are different types.
ASSUME KernelAssumption == \A k \in Kernels : KernelIsSound(k) /\ k.check # "InvalidLayout"

ASSUME BackingAssumption ==
  \A b \in Backings :
    {b.ramBase, b.ramBytes, b.ramHost, b.tableBase, b.tableBytes, b.tableHost}
      \subseteq 0 .. MaxAddress

-----------------------------------------------------------------------------
(* Ranges *)

Region(start, size) == [start |-> start, end |-> start + size]

\* Range::new
RegionExists(start, size) == size # 0 /\ start + size <= MaxAddress

Contains(outer, inner) == outer.start <= inner.start /\ inner.end <= outer.end

\* A fault: a range that starts above another one never overlaps it.
OverlapFromBelow(a, b) == a.start < b.end /\ b.start <= a.start

Overlap(a, b) == a.start < b.end /\ b.start < a.end

\* A fault: addresses are rounded down.
AlignDown(value) == (value \div PageSize) * PageSize

AlignUp(value) == ((value + PageSize - 1) \div PageSize) * PageSize

-----------------------------------------------------------------------------
(* The layout *)

ArgsPhys == input.kernelPhys + kernel.size

TreePhys == ArgsPhys + PageSize

TreeEnd == TreePhys + input.tree.bytes

StackTop == AlignUp(TreeEnd) + StackBytes

FrameBytes == input.geometry.rowBytes * input.geometry.height

OccupiedEnd ==
  IF input.geometry = None THEN StackTop ELSE StackTop + AlignUp(FrameBytes)

\* Every sum that the code forms with checked_add or checked_mul; the ones left
\* out are smaller than one of these.
Sums ==
  {TreePhys, TreeEnd + PageSize - 1, StackTop, OccupiedEnd}
    \cup (IF input.geometry = None THEN {} ELSE {FrameBytes + PageSize - 1})

Layout ==
  [kernelPhys  |-> input.kernelPhys,
   kernelBytes |-> kernel.size,
   headerPhys  |-> input.kernelPhys + kernel.header,
   entryPhys   |-> input.kernelPhys + kernel.entry,
   argsPhys    |-> ArgsPhys,
   treePhys    |-> TreePhys,
   stackTop    |-> StackTop,
   occupiedEnd |-> OccupiedEnd,
   allocation  |-> OccupiedEnd - input.kernelPhys]

\* The framebuffer of a plan that has one.
FrameRegion == Region(StackTop, FrameBytes)

\* new_with_framebuffer()
GeometryCheck ==
  IF input.geometry = None THEN "Ok"
  ELSE IF input.video THEN "ConflictingVideo"
  ELSE IF \/ input.geometry.width * PixelBytes > MaxWord
          \/ input.geometry.width = 0 \/ input.geometry.height = 0
          \/ input.geometry.rowBytes < input.geometry.width * PixelBytes
          \/ input.geometry.rowBytes % PixelBytes # 0
    THEN "InvalidFramebufferGeometry"
  ELSE "Ok"

\* A fault: only the offsets in a bootstrap block are compared.
CorrespondsInBlock == input.virtBase % BlockBytes = input.physBase % BlockBytes

\* One linear map takes the kernel's addresses to its place in RAM, and keeps
\* their offsets in a bootstrap block.
Corresponds ==
  /\ input.virtBase + (input.kernelPhys - input.physBase) = kernel.base
  /\ input.virtBase % BlockBytes = input.physBase % BlockBytes

-----------------------------------------------------------------------------
(* The boot arguments *)

Ram == Region(input.physBase, input.memory)

Occupied == [start |-> input.physBase, end |-> OccupiedEnd]

KernelRegion == Region(input.kernelPhys, kernel.size)

ArgsRegion == Region(ArgsPhys, ArgsBytes)

TreeRegion == Region(TreePhys, input.tree.bytes)

\* What the encoder asks of the DRAM that the device tree declares.
DramCheck ==
  LET dram == input.tree.dram IN
  IF dram = None THEN "MissingDramProperties"
  ELSE IF \/ ~ RegionExists(dram.base, dram.size)
          \/ dram.base % PageSize # 0 \/ dram.size % PageSize # 0
          \/ dram.size # input.actual
          \/ ~ Contains(Region(dram.base, dram.size), Ram)
    THEN "InvalidDramProperties"
  ELSE "Ok"

TopIsFree ==
  /\ input.physBase < OccupiedEnd
  /\ OccupiedEnd < Ram.end
  /\ OccupiedEnd % PageSize = 0

\* encode_arm64_boot_args()
ArgsCheck ==
  IF ~ input.line THEN "InvalidCommandLine"
  ELSE IF ~ input.flags THEN "UnsupportedBootFlags"
  ELSE IF \/ ~ RegionExists(input.physBase, input.memory)
          \/ input.physBase % PageSize # 0 \/ input.memory % PageSize # 0
    THEN "InvalidMemoryRange"
  ELSE IF \/ ~ RegionExists(input.virtBase, input.memory)
          \/ input.virtBase % PageSize # 0
    THEN "InvalidVirtualRange"
  ELSE IF ~ TopIsFree THEN "InvalidOccupiedTop"
  ELSE IF \/ ~ RegionExists(input.kernelPhys, kernel.size)
          \/ input.kernelPhys % PageSize # 0
          \/ ~ Contains(Occupied, KernelRegion)
    THEN "InvalidKernelRange"
  ELSE IF ~ RegionExists(ArgsPhys, ArgsBytes) \/ ArgsPhys % ArgsAlign # 0
    THEN "InvalidArgumentRange"
  ELSE IF \/ TreePhys % TreeAlign # 0 \/ input.tree.bytes % TreeAlign # 0
          \/ ~ RegionExists(TreePhys, input.tree.bytes)
          \/ ~ input.tree.valid
    THEN "InvalidDeviceTree"
  ELSE IF DramCheck # "Ok" THEN DramCheck
  ELSE IF ~ Contains(Occupied, ArgsRegion) \/ ~ Contains(Occupied, TreeRegion)
    THEN "HandoffOutsideOccupiedMemory"
  ELSE IF \/ Overlap(ArgsRegion, TreeRegion)
          \/ Overlap(ArgsRegion, KernelRegion)
          \/ Overlap(TreeRegion, KernelRegion)
    THEN "OverlappingHandoff"
  ELSE IF ArgsPhys < KernelRegion.end \/ TreePhys < KernelRegion.end
    THEN "HandoffOutsideOccupiedMemory"
  ELSE IF input.virtBase + (TreePhys - input.physBase) > MaxAddress
    THEN "InvalidVirtualRange"
  ELSE "Ok"

BootArgs ==
  [virtBase    |-> input.virtBase,
   physBase    |-> input.physBase,
   memory      |-> input.memory,
   top         |-> OccupiedEnd,
   frame       |-> IF input.geometry = None THEN None ELSE StackTop,
   treeVirtual |-> input.virtBase + (TreePhys - input.physBase),
   actual      |-> input.actual,
   physical    |-> ArgsPhys]

-----------------------------------------------------------------------------
(* Building the plan *)

\* build(), behind the checks of new_with_framebuffer
BuildCheck ==
  IF GeometryCheck # "Ok" THEN GeometryCheck
  ELSE IF input.tree.bytes = 0 \/ input.tree.bytes > MaxTreeBytes
    THEN "DeviceTreeTooLarge"
  ELSE IF kernel.check # "Ok" THEN kernel.check
  ELSE IF input.kernelPhys % PageSize # 0 \/ input.kernelPhys < input.physBase
    THEN "InvalidPlacement"
  ELSE IF input.virtBase + (input.kernelPhys - input.physBase) > MaxAddress
    THEN "AddressOverflow"
  ELSE IF ~ Corresponds THEN "BootstrapCorrespondence"
  ELSE IF \E n \in Sums : n > MaxAddress THEN "AddressOverflow"
  ELSE IF Layout.allocation > MaxAllocation THEN "AddressOverflow"
  ELSE ArgsCheck

Build ==
  /\ layout = None
  /\ result' = BuildCheck
  /\ IF BuildCheck = "Ok"
       THEN layout' = Layout /\ args' = BootArgs
       ELSE UNCHANGED <<layout, args>>
  /\ UNCHANGED <<input, kernel, backing>>

-----------------------------------------------------------------------------
(* Backing the plan *)

\* A stack of its full size fits behind a tree of one page.
StackTopIsHigh == layout.stackTop >= layout.treePhys + PageSize + StackBytes

\* What Arm64HandoffBacking::new asks of a layout on its own.
LayoutHolds ==
  /\ layout.kernelBytes # 0
  /\ \A n \in {layout.kernelPhys, layout.kernelBytes, layout.allocation,
               layout.occupiedEnd, layout.stackTop} : n % PageSize = 0
  /\ layout.allocation > layout.kernelBytes
  /\ layout.argsPhys = layout.kernelPhys + layout.kernelBytes
  /\ layout.argsPhys <= MaxAddress
  /\ layout.treePhys = layout.argsPhys + PageSize
  /\ layout.treePhys + PageSize + StackBytes <= MaxAddress
  /\ StackTopIsHigh
  /\ layout.stackTop <= layout.occupiedEnd
  /\ layout.occupiedEnd = layout.kernelPhys + layout.allocation

RangeHolds(base, bytes) ==
  /\ base % PageSize = 0 /\ bytes % PageSize = 0
  /\ bytes >= PageSize
  /\ base < PhysicalLimit
  /\ bytes <= PhysicalLimit - base

\* Arm64HandoffBacking::new
BackingCheck(b) ==
  IF ~ LayoutHolds THEN "InvalidLayout"
  ELSE IF ~ RangeHolds(b.ramBase, b.ramBytes) \/ ~ RangeHolds(b.tableBase, b.tableBytes)
    THEN "InvalidRange"
  ELSE IF Overlap(Region(b.ramBase, b.ramBytes), Region(b.tableBase, b.tableBytes))
    THEN "OverlappingGuestRanges"
  ELSE IF \/ layout.kernelPhys < b.ramBase
          \/ (layout.kernelPhys - b.ramBase) % PageSize # 0
          \/ layout.kernelPhys - b.ramBase + layout.allocation > b.ramBytes
    THEN "InsufficientRam"
  ELSE IF b.ramHost + b.ramBytes > MaxAddress \/ b.tableHost + b.tableBytes > MaxAddress
    THEN "InvalidRange"
  ELSE IF Overlap(Region(b.ramHost, b.ramBytes), Region(b.tableHost, b.tableBytes))
    THEN "OverlappingHostRanges"
  ELSE "Ok"

Back(b) ==
  /\ layout # None
  /\ backing = None
  /\ result' = BackingCheck(b)
  /\ IF BackingCheck(b) = "Ok"
       THEN backing' = [of |-> b, offset |-> layout.kernelPhys - b.ramBase,
                        bytes |-> layout.allocation]
       ELSE UNCHANGED backing
  /\ UNCHANGED <<input, kernel, layout, args>>

-----------------------------------------------------------------------------

PlacementInit ==
  /\ input \in Inputs
  /\ kernel \in Kernels
  /\ layout = None
  /\ args = None
  /\ backing = None
  /\ result = None

PlacementNext == Build \/ \E b \in Backings : Back(b)

PlacementSpec == PlacementInit /\ [][PlacementNext]_placementVars

-----------------------------------------------------------------------------
(* Properties *)

StackRegion == Region(layout.stackTop - StackBytes, StackBytes)

\* What the layout gives memory to, as the kernel and its loader will use it.
Pieces ==
  {Region(layout.kernelPhys, layout.kernelBytes), Region(args.physical, ArgsBytes),
   Region(layout.treePhys, input.tree.bytes), StackRegion}
    \cup (IF args.frame = None THEN {} ELSE {Region(args.frame, FrameBytes)})

\* The pieces of a handoff never share a byte; all of them lie in the allocation
\* the caller is told to make and below the top of the kernel's data, where the
\* kernel starts to allocate; and above that top there is RAM left.
PiecesAreApart ==
  layout # None =>
    /\ \A p, q \in Pieces : p # q => ~ Overlap(p, q)
    /\ \A p \in Pieces :
         /\ Contains(Region(layout.kernelPhys, layout.allocation), p)
         /\ Contains([start |-> args.physBase, end |-> args.top], p)
    /\ args.top = layout.kernelPhys + layout.allocation
    /\ args.top < args.physBase + args.memory

\* Where the kernel finds a virtual address in physical memory, by the two
\* bases it is given.
Translate(va) == args.physBase + (va - args.virtBase)

\* The bases in the boot arguments take the kernel from the addresses that its
\* collection is linked for, and from the tree's address in the arguments, to
\* the bytes the layout put there, within its virtual window, and keep the
\* offset in a bootstrap block.
BasesTranslate ==
  layout # None =>
    /\ Translate(kernel.base + kernel.header) = layout.headerPhys
    /\ Translate(kernel.base + kernel.entry) = layout.entryPhys
    /\ Translate(args.treeVirtual) = layout.treePhys
    /\ args.treeVirtual < args.virtBase + args.memory
    /\ kernel.base % BlockBytes = layout.kernelPhys % BlockBytes

\* The backing repeats the layout's rules without its inputs; it never refuses
\* a layout that a plan has made.
LayoutsAreBackable == result # "InvalidLayout"

\* An address of the handoff, and a byte of the slice handed out for it, is the
\* byte of RAM that the layout means, and no byte of the page tables.
BackingIsExclusive ==
  backing # None =>
    LET b == backing.of IN
    \A n \in 0 .. backing.bytes - 1 :
      /\ b.ramBase + (backing.offset + n) = layout.kernelPhys + n
      /\ backing.offset + n < b.ramBytes
      /\ layout.kernelPhys + n \notin b.tableBase .. b.tableBase + b.tableBytes - 1
      /\ b.ramHost + backing.offset + n
           \notin b.tableHost .. b.tableHost + b.tableBytes - 1

\* The backing and the plan mean the same memory: what the plan lays out the
\* backing accepts, and what it accepts it hands out where the plan put it.
BackingHoldsLayouts == LayoutsAreBackable /\ BackingIsExclusive

=============================================================================
