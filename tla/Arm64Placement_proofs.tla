------------------------ MODULE Arm64Placement_proofs ------------------------
(***************************************************************************)
(* Theorems about the placement of an ARM64 handoff, for every size of an  *)
(* address, a page and a block, every request and every backing.           *)
(***************************************************************************)
EXTENDS Arm64Placement, TLAPS

-----------------------------------------------------------------------------
(* Pages *)

\* align_up() takes a value to a page boundary less than a page above it.
LEMMA AlignUpIsNext ==
  ASSUME NEW v \in Nat
  PROVE  /\ AlignUp(v) \in Nat /\ v <= AlignUp(v) /\ AlignUp(v) <= v + PageSize - 1
         /\ AlignUp(v) % PageSize = 0
<1> DEFINE q == (v + PageSize - 1) \div PageSize
           r == (v + PageSize - 1) % PageSize
<1>0. PageSize \in Nat \ {0}
  BY PlacementAssumption DEF SizesAreSound
<1>1. /\ q \in Nat
      /\ r \in 0 .. PageSize - 1
      /\ v + PageSize - 1 = PageSize * q + r
  <2>1. v + PageSize - 1 \in Nat
    BY <1>0
  <2>2. ASSUME NEW u \in Nat, NEW p \in Nat \ {0}
        PROVE  u \div p \in Nat /\ u % p \in 0 .. p - 1 /\ u = p * (u \div p) + (u % p)
    OBVIOUS
  <2> QED  BY ONLY <1>0, <2>1, <2>2
<1>2. AlignUp(v) = q * PageSize
  BY DEF AlignUp
<1> HIDE DEF q, r
<1>3. q * PageSize \in Nat /\ PageSize * q = q * PageSize
  BY <1>0, <1>1
<1>4. v <= q * PageSize /\ q * PageSize <= v + PageSize - 1
  BY <1>0, <1>1, <1>3
<1>5. (q * PageSize) % PageSize = 0
  BY <1>0, <1>1
<1> QED  BY <1>2, <1>3, <1>4, <1>5

\* A multiple of the page size is a number of pages.
LEMMA WholePages ==
  ASSUME NEW m \in Nat, m % PageSize = 0
  PROVE  \E p \in Nat : m = p * PageSize
<1>0. PageSize \in Nat \ {0}
  BY PlacementAssumption DEF SizesAreSound
<1>1. m \div PageSize \in Nat /\ m = PageSize * (m \div PageSize) + (m % PageSize)
  BY <1>0
<1>2. m = PageSize * (m \div PageSize)
  BY <1>0, <1>1
<1>3. PageSize * (m \div PageSize) = (m \div PageSize) * PageSize
  BY <1>0, <1>1
<1> QED  BY <1>1, <1>2, <1>3, Zenon

\* Page boundaries are closed under sums and differences.
LEMMA PagesAdd ==
  ASSUME NEW m \in Nat, NEW n \in Nat, m % PageSize = 0, n % PageSize = 0
  PROVE  /\ (m + n) % PageSize = 0
         /\ m <= n => (n - m) % PageSize = 0
<1>0. PageSize \in Nat \ {0}
  BY PlacementAssumption DEF SizesAreSound
<1>1. PICK p \in Nat : m = p * PageSize
  BY WholePages
<1>2. PICK q \in Nat : n = q * PageSize
  BY WholePages
<1>3. m + n = (p + q) * PageSize /\ n - m = (q - p) * PageSize
  BY <1>0, <1>1, <1>2
<1>4. ((p + q) * PageSize) % PageSize = 0 /\ ((q - p) * PageSize) % PageSize = 0
  BY <1>0, <1>1, <1>2
<1> QED  BY <1>3, <1>4

\* A remainder is unique.
LEMMA RemainderIsUnique ==
  ASSUME NEW b \in Nat \ {0}, NEW k \in Nat, NEW v \in 0 .. b - 1
  PROVE  (b * k + v) % b = v
<1> DEFINE x == b * k + v
<1>1. x \in Nat
  OBVIOUS
<1> HIDE DEF x
<1>2. PICK q \in Nat, r \in 0 .. b - 1 : x = b * q + r /\ x % b = r
  <2>1. x \div b \in Nat /\ x % b \in 0 .. b - 1
    BY <1>1
  <2>2. x = b * (x \div b) + (x % b)
    BY <1>1
  <2> QED  BY <2>1, <2>2
<1>3. b * q + r = b * k + v
  BY <1>2 DEF x
<1>4. CASE q = k
  BY <1>2, <1>3, <1>4 DEF x
<1>5. CASE q < k
  <2>1. q + 1 <= k
    BY <1>5
  <2>2. b * (q + 1) <= b * k
    BY <2>1
  <2>3. b * (q + 1) = b * q + b
    OBVIOUS
  <2>4. b * q \in Nat /\ b * k \in Nat
    OBVIOUS
  <2> QED  BY <1>3, <2>2, <2>3, <2>4
<1>6. CASE k < q
  <2>1. k + 1 <= q
    BY <1>6
  <2>2. b * (k + 1) <= b * q
    BY <2>1
  <2>3. b * (k + 1) = b * k + b
    OBVIOUS
  <2>4. b * q \in Nat /\ b * k \in Nat
    OBVIOUS
  <2> QED  BY <1>3, <2>2, <2>3, <2>4
<1> QED  BY <1>4, <1>5, <1>6

\* Moving by whole blocks keeps the remainder.
LEMMA BlocksDropOut ==
  ASSUME NEW b \in Nat \ {0}, NEW k \in Nat, NEW m \in Nat
  PROVE  (b * k + m) % b = m % b
<1>1. PICK u \in Nat, v \in 0 .. b - 1 : m = b * u + v /\ m % b = v
  <2>1. m \div b \in Nat /\ m % b \in 0 .. b - 1
    OBVIOUS
  <2>2. m = b * (m \div b) + (m % b)
    OBVIOUS
  <2> QED  BY <2>1, <2>2
<1>2. b * k + m = b * (k + u) + v
  BY <1>1
<1>3. k + u \in Nat /\ (b * (k + u) + v) % b = v
  BY RemainderIsUnique
<1> QED  BY <1>1, <1>2, <1>3

\* Addresses with one offset in a block keep one offset when both move.
LEMMA SameRemainder ==
  ASSUME NEW x \in Nat, NEW y \in Nat, NEW n \in Nat, NEW b \in Nat \ {0},
         x % b = y % b
  PROVE  (x + n) % b = (y + n) % b
<1>1. PICK r \in Nat : x % b = r
  OBVIOUS
<1>2. PICK p \in Nat : x = b * p + r
  <2>1. x \div b \in Nat
    OBVIOUS
  <2>2. x = b * (x \div b) + r
    BY <1>1
  <2> QED  BY <2>1, <2>2, Zenon
<1>3. PICK q \in Nat : y = b * q + r
  <2>1. y \div b \in Nat
    OBVIOUS
  <2>2. y = b * (y \div b) + r
    BY <1>1
  <2> QED  BY <2>1, <2>2, Zenon
<1>4. x + n = b * p + (r + n) /\ y + n = b * q + (r + n)
  BY <1>2, <1>3
<1>5. (b * p + (r + n)) % b = (r + n) % b /\ (b * q + (r + n)) % b = (r + n) % b
  <2>1. r + n \in Nat
    OBVIOUS
  <2> QED  BY <2>1, BlocksDropOut
<1> QED  BY <1>4, <1>5

LEMMA ProductIsNat ==
  ASSUME NEW m \in Nat, NEW n \in Nat
  PROVE  m * n \in Nat
  OBVIOUS

-----------------------------------------------------------------------------
(* What a plan remembers *)

\* A layout and its arguments are those of an input that passed every check,
\* and a backing is one that was accepted for it.
PlanIsChecked ==
  /\ input \in Inputs
  /\ kernel \in Kernels
  /\ layout # None => BuildCheck = "Ok" /\ layout = Layout /\ args = BootArgs
  /\ backing # None =>
       /\ layout # None
       /\ backing.of \in Backings
       /\ BackingCheck(backing.of) = "Ok"
       /\ backing.offset = layout.kernelPhys - backing.of.ramBase
       /\ backing.bytes = layout.allocation

LEMMA PlanStaysChecked == PlacementSpec => []PlanIsChecked
<1>1. PlacementInit => PlanIsChecked
  BY DEF PlacementInit, PlanIsChecked
<1>2. PlanIsChecked /\ [PlacementNext]_placementVars => PlanIsChecked'
  <2> SUFFICES ASSUME PlanIsChecked, [PlacementNext]_placementVars
               PROVE  PlanIsChecked'
    OBVIOUS
  <2>1. UNCHANGED <<input, kernel>>
    BY DEF PlacementNext, Build, Back, placementVars
  <2>2. /\ (BuildCheck = "Ok")' = (BuildCheck = "Ok")
        /\ Layout' = Layout /\ BootArgs' = BootArgs
    BY <2>1 DEF BuildCheck, Layout, BootArgs, GeometryCheck, Corresponds, Sums, ArgsCheck,
       ArgsPhys, TreePhys, TreeEnd, StackTop, FrameBytes, OccupiedEnd, DramCheck,
       TopIsFree, Ram, Occupied, KernelRegion, ArgsRegion, TreeRegion
  <2>3. CASE Build
    <3>1. layout = None /\ UNCHANGED backing
      BY <2>3 DEF Build
    <3>2. backing = None
      BY <3>1 DEF PlanIsChecked
    <3>3. layout' # None => BuildCheck = "Ok" /\ layout' = Layout /\ args' = BootArgs
      BY <2>3 DEF Build
    <3> QED  BY <2>1, <2>2, <3>1, <3>2, <3>3 DEF PlanIsChecked
  <2>4. CASE \E b \in Backings : Back(b)
    <3>1. PICK b \in Backings : Back(b)
      BY <2>4
    <3>2. UNCHANGED <<layout, args>> /\ layout # None /\ backing = None
      BY <3>1 DEF Back
    <3>3. ASSUME NEW c \in Backings
          PROVE  BackingCheck(c)' = BackingCheck(c)
      BY <3>2 DEF BackingCheck, LayoutHolds, StackTopIsHigh
    <3>4. backing' # None =>
            /\ BackingCheck(b) = "Ok"
            /\ backing' = [of |-> b, offset |-> layout.kernelPhys - b.ramBase,
                           bytes |-> layout.allocation]
      BY <3>1, <3>2 DEF Back
    <3>5. backing' # None =>
            /\ backing'.of = b
            /\ backing'.offset = layout.kernelPhys - b.ramBase
            /\ backing'.bytes = layout.allocation
      BY <3>4
    <3> QED  BY <2>1, <2>2, <3>2, <3>3, <3>4, <3>5 DEF PlanIsChecked
  <2>5. CASE UNCHANGED placementVars
    <3>1. ASSUME backing # None
          PROVE  BackingCheck(backing.of)' = BackingCheck(backing.of)
      BY <2>5 DEF BackingCheck, LayoutHolds, StackTopIsHigh, placementVars
    <3> QED  BY <2>1, <2>2, <2>5, <3>1 DEF PlanIsChecked, placementVars
  <2> QED  BY <2>3, <2>4, <2>5 DEF PlacementNext
<1> QED  BY <1>1, <1>2, PTL DEF PlacementSpec

-----------------------------------------------------------------------------
(* What a layout is made of *)

\* A layout as build() makes it, of a request and a kernel that are sound.
LaidOut ==
  /\ InputIsSound(input) /\ KernelIsSound(kernel)
  /\ BuildCheck = "Ok" /\ layout = Layout /\ args = BootArgs

LEMMA PlanIsLaidOut ==
  ASSUME PlanIsChecked, layout # None
  PROVE  LaidOut
BY InputAssumption, KernelAssumption DEF PlanIsChecked, LaidOut

\* The numbers of a plan that was built.
LEMMA BuiltNumbers ==
  ASSUME LaidOut
  PROVE  /\ layout = Layout /\ args = BootArgs
         /\ {input.physBase, input.virtBase, input.memory, input.kernelPhys,
             input.tree.bytes, kernel.base, kernel.size, kernel.header,
             kernel.entry} \subseteq Nat
         /\ input.tree.bytes # 0
         /\ kernel.size # 0 /\ kernel.size % PageSize = 0
         /\ kernel.header < kernel.size /\ kernel.entry < kernel.size
         /\ input.physBase <= input.kernelPhys
         /\ input.kernelPhys % PageSize = 0
         /\ \A n \in Sums : n <= MaxAddress
         /\ Corresponds /\ ArgsCheck = "Ok"
<1>1. /\ InputIsSound(input) /\ KernelIsSound(kernel)
      /\ BuildCheck = "Ok" /\ layout = Layout /\ args = BootArgs
  BY DEF LaidOut
<1>2. /\ kernel.check = "Ok"
      /\ input.tree.bytes # 0
      /\ input.kernelPhys % PageSize = 0
      /\ ~ input.kernelPhys < input.physBase
      /\ Corresponds
      /\ ~ \E n \in Sums : n > MaxAddress
      /\ ArgsCheck = "Ok"
  BY <1>1 DEF BuildCheck
<1>3. /\ {input.physBase, input.virtBase, input.memory, input.actual, input.kernelPhys}
            \subseteq 0 .. MaxAddress
      /\ input.tree.bytes \in 0 .. MaxAddress
  BY <1>1 DEF InputIsSound
<1>4. /\ kernel.base \in 0 .. MaxAddress
      /\ kernel.size \in 1 .. MaxAddress /\ kernel.size % PageSize = 0
      /\ kernel.header \in 0 .. kernel.size - 1 /\ kernel.entry \in 0 .. kernel.size - 1
  BY <1>1, <1>2 DEF KernelIsSound
<1>5. MaxAddress \in Nat
  BY PlacementAssumption DEF SizesAreSound
<1>6. {input.physBase, input.virtBase, input.memory, input.kernelPhys,
       input.tree.bytes} \subseteq Nat
  BY <1>3, <1>5
<1>7. /\ {kernel.base, kernel.size, kernel.header, kernel.entry} \subseteq Nat
      /\ kernel.size # 0
      /\ kernel.header < kernel.size /\ kernel.entry < kernel.size
  BY <1>4, <1>5
<1>8. input.physBase <= input.kernelPhys
  BY <1>2, <1>6
<1>9. Sums \subseteq Int
  <2>1. TreePhys \in Nat /\ TreeEnd \in Nat
    BY <1>6, <1>7, PlacementAssumption DEF SizesAreSound, ArgsPhys, TreePhys, TreeEnd
  <2>2. StackTop \in Nat
    <3>1. AlignUp(TreeEnd) \in Nat
      BY <2>1, AlignUpIsNext
    <3> QED  BY <3>1, PlacementAssumption DEF SizesAreSound, StackTop
  <2>3. input.geometry # None => FrameBytes \in Nat
    <3>1. SUFFICES ASSUME input.geometry # None
                   PROVE  FrameBytes \in Nat
      OBVIOUS
    <3>2. {input.geometry.height, input.geometry.rowBytes} \subseteq 0 .. MaxWord
      BY <1>1, <3>1 DEF InputIsSound
    <3>3. input.geometry.height \in Nat /\ input.geometry.rowBytes \in Nat
      BY <3>2, PlacementAssumption DEF SizesAreSound
    <3> QED  BY <3>3, ProductIsNat DEF FrameBytes
  <2>4. OccupiedEnd \in Nat
    <3>1. CASE input.geometry = None
      BY <2>2, <3>1 DEF OccupiedEnd
    <3>2. CASE input.geometry # None
      <4>1. AlignUp(FrameBytes) \in Nat
        BY <2>3, <3>2, AlignUpIsNext
      <4> QED  BY <2>2, <3>2, <4>1 DEF OccupiedEnd
    <3> QED  BY <3>1, <3>2
  <2> QED  BY <2>1, <2>2, <2>3, <2>4, PlacementAssumption DEF SizesAreSound, Sums
<1>10. \A n \in Sums : n <= MaxAddress
  BY <1>2, <1>5, <1>9
<1> QED  BY <1>1, <1>2, <1>4, <1>6, <1>7, <1>8, <1>10

\* The pieces of a built plan lie behind one another.
LEMMA BuiltOrder ==
  ASSUME LaidOut
  PROVE  /\ {ArgsPhys, TreePhys, TreeEnd, StackTop, OccupiedEnd} \subseteq Nat
         /\ input.geometry # None => FrameBytes \in Nat
         /\ ArgsPhys = input.kernelPhys + kernel.size
         /\ ArgsPhys + ArgsBytes <= TreePhys
         /\ TreeEnd = TreePhys + input.tree.bytes
         /\ TreeEnd <= StackTop - StackBytes
         /\ TreePhys + PageSize <= StackTop - StackBytes
         /\ StackTop <= OccupiedEnd
         /\ input.geometry # None => StackTop + FrameBytes <= OccupiedEnd
         /\ StackTop % PageSize = 0
<1> DEFINE up == AlignUp(TreeEnd)
<1>0. /\ PageSize \in Nat \ {0} /\ StackBytes \in Nat \ {0} /\ ArgsBytes \in Nat \ {0}
      /\ ArgsBytes <= PageSize /\ StackBytes % PageSize = 0
  BY PlacementAssumption DEF SizesAreSound
<1>1. /\ {input.kernelPhys, input.tree.bytes, kernel.size} \subseteq Nat
      /\ input.tree.bytes # 0
      /\ kernel.size % PageSize = 0 /\ input.kernelPhys % PageSize = 0
  BY BuiltNumbers
<1>2. /\ ArgsPhys \in Nat /\ TreePhys \in Nat /\ TreeEnd \in Nat
      /\ ArgsPhys = input.kernelPhys + kernel.size
      /\ TreePhys = ArgsPhys + PageSize
      /\ TreeEnd = TreePhys + input.tree.bytes
  BY <1>0, <1>1 DEF ArgsPhys, TreePhys, TreeEnd
<1>3. up \in Nat /\ TreeEnd <= up /\ up % PageSize = 0
  BY <1>2, AlignUpIsNext
<1>4. StackTop = up + StackBytes /\ StackTop \in Nat
  BY <1>0, <1>3 DEF StackTop
<1> HIDE DEF up
<1>5. StackTop % PageSize = 0
  BY <1>0, <1>3, <1>4, PagesAdd
<1>6. TreePhys % PageSize = 0
  <2>1. ArgsPhys % PageSize = 0
    BY <1>1, <1>2, PagesAdd
  <2>2. PageSize % PageSize = 0
    BY <1>0
  <2> QED  BY <1>0, <1>2, <2>1, <2>2, PagesAdd
<1>7. TreePhys + PageSize <= up
  <2>1. PICK p \in Nat : up = p * PageSize
    BY <1>3, WholePages
  <2>2. PICK q \in Nat : TreePhys = q * PageSize
    BY <1>2, <1>6, WholePages
  <2>3. q * PageSize < p * PageSize
    <3>1. input.tree.bytes \in Nat /\ input.tree.bytes # 0
      BY <1>1
    <3>2. TreePhys < TreeEnd
      BY <1>2, <3>1
    <3>3. TreePhys < up
      BY <1>2, <1>3, <3>2
    <3> QED  BY <2>1, <2>2, <3>3
  <2>4. q + 1 <= p
    <3>1. SUFFICES ASSUME p <= q
                   PROVE  FALSE
      BY <2>1, <2>2
    <3>2. p * PageSize <= q * PageSize
      BY <1>0, <2>1, <2>2, <3>1
    <3> QED  BY <1>0, <2>3, <3>2
  <2>5. (q + 1) * PageSize <= p * PageSize
    BY <1>0, <2>1, <2>2, <2>4
  <2>6. (q + 1) * PageSize = q * PageSize + PageSize
    BY <1>0, <2>2
  <2> QED  BY <2>1, <2>2, <2>5, <2>6
<1>8. input.geometry # None => FrameBytes \in Nat
  <2>1. SUFFICES ASSUME input.geometry # None
                 PROVE  FrameBytes \in Nat
    OBVIOUS
  <2>2. {input.geometry.height, input.geometry.rowBytes} \subseteq 0 .. MaxWord
    BY <2>1 DEF LaidOut, InputIsSound
  <2>3. input.geometry.height \in Nat /\ input.geometry.rowBytes \in Nat
    BY <2>2, PlacementAssumption DEF SizesAreSound
  <2> QED  BY <2>3, ProductIsNat DEF FrameBytes
<1>9. /\ OccupiedEnd \in Nat /\ StackTop <= OccupiedEnd
      /\ input.geometry # None => StackTop + FrameBytes <= OccupiedEnd
  <2>1. CASE input.geometry = None
    BY <1>4, <2>1 DEF OccupiedEnd
  <2>2. CASE input.geometry # None
    <3>1. AlignUp(FrameBytes) \in Nat /\ FrameBytes <= AlignUp(FrameBytes)
      BY <1>8, <2>2, AlignUpIsNext
    <3> QED  BY <1>4, <1>8, <2>2, <3>1 DEF OccupiedEnd
  <2> QED  BY <2>1, <2>2
<1>10. ArgsPhys + ArgsBytes <= TreePhys
  BY <1>0, <1>2
<1>11. /\ TreeEnd <= StackTop - StackBytes
       /\ TreePhys + PageSize <= StackTop - StackBytes
  BY <1>0, <1>2, <1>3, <1>4, <1>7
<1> QED  BY <1>2, <1>4, <1>5, <1>8, <1>9, <1>10, <1>11

-----------------------------------------------------------------------------
(* Pieces *)

\* For every request, the pieces of a plan share no byte, lie in its allocation
\* below the top of the kernel's data, and leave RAM above it.
THEOREM PiecesStayApart == PlacementSpec => []PiecesAreApart
<1>1. PlanIsChecked => PiecesAreApart
  <2> SUFFICES ASSUME PlanIsChecked, layout # None
               PROVE  /\ \A p, q \in Pieces : p # q => ~ Overlap(p, q)
                      /\ \A p \in Pieces :
                           /\ Contains(Region(layout.kernelPhys, layout.allocation), p)
                           /\ Contains([start |-> args.physBase, end |-> args.top], p)
                      /\ args.top = layout.kernelPhys + layout.allocation
                      /\ args.top < args.physBase + args.memory
    BY DEF PiecesAreApart
  <2> DEFINE k == KernelRegion
             a == ArgsRegion
             t == TreeRegion
             s == [start |-> StackTop - StackBytes, end |-> StackTop]
             f == FrameRegion
             All == [start |-> input.kernelPhys, end |-> OccupiedEnd]
  <2>0. StackBytes \in Nat /\ ArgsBytes \in Nat
    BY PlacementAssumption DEF SizesAreSound
  <2>1. /\ layout = Layout /\ args = BootArgs
        /\ {input.physBase, input.kernelPhys, input.tree.bytes, kernel.size,
            input.memory} \subseteq Nat
        /\ input.physBase <= input.kernelPhys
        /\ ArgsCheck = "Ok"
    BY PlanIsLaidOut, BuiltNumbers
  <2>2. /\ {ArgsPhys, TreePhys, TreeEnd, StackTop, OccupiedEnd} \subseteq Nat
        /\ input.geometry # None => FrameBytes \in Nat
        /\ ArgsPhys = input.kernelPhys + kernel.size
        /\ ArgsPhys + ArgsBytes <= TreePhys
        /\ TreeEnd = TreePhys + input.tree.bytes
        /\ TreeEnd <= StackTop - StackBytes
        /\ StackTop <= OccupiedEnd
        /\ input.geometry # None => StackTop + FrameBytes <= OccupiedEnd
    BY PlanIsLaidOut, BuiltOrder
  <2>3. /\ layout.kernelPhys = input.kernelPhys /\ layout.kernelBytes = kernel.size
        /\ layout.treePhys = TreePhys /\ layout.stackTop = StackTop
        /\ layout.allocation = OccupiedEnd - input.kernelPhys
        /\ args.physical = ArgsPhys /\ args.top = OccupiedEnd
        /\ args.physBase = input.physBase /\ args.memory = input.memory
        /\ args.frame = IF input.geometry = None THEN None ELSE StackTop
    BY <2>1 DEF Layout, BootArgs
  <2>4. StackRegion = s
    BY <2>0, <2>2, <2>3 DEF StackRegion, Region
  <2>5. \A p \in Pieces : p \in {k, a, t, s} \/ (input.geometry # None /\ p = f)
    BY <2>3, <2>4 DEF Pieces, KernelRegion, ArgsRegion, TreeRegion, FrameRegion
  <2>6. /\ k.start = input.kernelPhys /\ k.end = ArgsPhys
        /\ a.start = ArgsPhys /\ a.end = ArgsPhys + ArgsBytes
        /\ t.start = TreePhys /\ t.end = TreeEnd
        /\ s.start = StackTop - StackBytes /\ s.end = StackTop
        /\ f.start = StackTop /\ f.end = StackTop + FrameBytes
    BY <2>2 DEF KernelRegion, ArgsRegion, TreeRegion, FrameRegion, Region
  <2> HIDE DEF k, a, t, s, f
  <2>7. /\ ~ Overlap(k, a) /\ ~ Overlap(a, k) /\ ~ Overlap(k, t) /\ ~ Overlap(t, k)
        /\ ~ Overlap(k, s) /\ ~ Overlap(s, k) /\ ~ Overlap(a, t) /\ ~ Overlap(t, a)
        /\ ~ Overlap(a, s) /\ ~ Overlap(s, a) /\ ~ Overlap(t, s) /\ ~ Overlap(s, t)
    BY <2>0, <2>1, <2>2, <2>6 DEF Overlap
  <2>8. input.geometry # None =>
          /\ ~ Overlap(k, f) /\ ~ Overlap(f, k) /\ ~ Overlap(a, f) /\ ~ Overlap(f, a)
          /\ ~ Overlap(t, f) /\ ~ Overlap(f, t) /\ ~ Overlap(s, f) /\ ~ Overlap(f, s)
    BY <2>0, <2>1, <2>2, <2>6 DEF Overlap
  <2>9. \A p, q \in Pieces : p # q => ~ Overlap(p, q)
    <3>1. SUFFICES ASSUME NEW p \in Pieces, NEW q \in Pieces, p # q
                   PROVE  ~ Overlap(p, q)
      OBVIOUS
    <3>2. p \in {k, a, t, s} \/ (input.geometry # None /\ p = f)
      BY <2>5
    <3>3. q \in {k, a, t, s} \/ (input.geometry # None /\ q = f)
      BY <2>5
    <3>4. CASE p = k
      BY <2>7, <2>8, <3>1, <3>3, <3>4
    <3>5. CASE p = a
      BY <2>7, <2>8, <3>1, <3>3, <3>5
    <3>6. CASE p = t
      BY <2>7, <2>8, <3>1, <3>3, <3>6
    <3>7. CASE p = s
      BY <2>7, <2>8, <3>1, <3>3, <3>7
    <3>8. CASE input.geometry # None /\ p = f
      BY <2>7, <2>8, <3>1, <3>3, <3>8
    <3> QED  BY <3>2, <3>4, <3>5, <3>6, <3>7, <3>8
  <2>10. Region(layout.kernelPhys, layout.allocation) = All
    BY <2>1, <2>2, <2>3 DEF Region
  <2>11. /\ input.kernelPhys <= k.start /\ k.end <= OccupiedEnd
         /\ input.kernelPhys <= a.start /\ a.end <= OccupiedEnd
         /\ input.kernelPhys <= t.start /\ t.end <= OccupiedEnd
         /\ input.kernelPhys <= s.start /\ s.end <= OccupiedEnd
         /\ input.geometry # None =>
              input.kernelPhys <= f.start /\ f.end <= OccupiedEnd
    BY <2>0, <2>1, <2>2, <2>6
  <2>12. \A p \in Pieces : input.kernelPhys <= p.start /\ p.end <= OccupiedEnd
    BY <2>5, <2>11, Zenon
  <2>13. \A p \in Pieces : p.start \in Int
    <3>1. {k.start, a.start, t.start, s.start} \subseteq Int /\ f.start \in Int
      BY <2>0, <2>1, <2>2, <2>6
    <3> QED  BY <2>5, <3>1
  <2>14. \A p \in Pieces :
           /\ Contains(Region(layout.kernelPhys, layout.allocation), p)
           /\ Contains([start |-> args.physBase, end |-> args.top], p)
    BY <2>1, <2>3, <2>10, <2>12, <2>13 DEF Contains
  <2>15. args.top = layout.kernelPhys + layout.allocation
    BY <2>1, <2>2, <2>3
  <2>16. args.top < args.physBase + args.memory
    <3>1. TopIsFree
      BY <2>1 DEF ArgsCheck
    <3> QED  BY <2>3, <3>1 DEF TopIsFree, Ram, Region
  <2> QED  BY <2>9, <2>14, <2>15, <2>16
<1> QED  BY <1>1, PlanStaysChecked, PTL

-----------------------------------------------------------------------------
(* Addresses *)

\* For every request, the two bases in the boot arguments translate the
\* addresses of the collection and of the tree to where the layout has them.
THEOREM BasesDoTranslate == PlacementSpec => []BasesTranslate
<1>1. PlanIsChecked => BasesTranslate
  <2> SUFFICES ASSUME PlanIsChecked, layout # None
               PROVE  /\ Translate(kernel.base + kernel.header) = layout.headerPhys
                      /\ Translate(kernel.base + kernel.entry) = layout.entryPhys
                      /\ Translate(args.treeVirtual) = layout.treePhys
                      /\ args.treeVirtual < args.virtBase + args.memory
                      /\ kernel.base % BlockBytes = layout.kernelPhys % BlockBytes
    BY DEF BasesTranslate
  <2>1. /\ layout = Layout /\ args = BootArgs
        /\ {input.physBase, input.virtBase, input.memory, input.kernelPhys,
            input.tree.bytes, kernel.base, kernel.size, kernel.header,
            kernel.entry} \subseteq Nat
        /\ input.physBase <= input.kernelPhys
        /\ input.tree.bytes # 0
        /\ Corresponds /\ ArgsCheck = "Ok"
    BY PlanIsLaidOut, BuiltNumbers
  <2>2. /\ {TreePhys, TreeEnd, StackTop, OccupiedEnd} \subseteq Nat
        /\ TreeEnd = TreePhys + input.tree.bytes
        /\ TreeEnd <= StackTop - StackBytes
        /\ StackTop <= OccupiedEnd
    BY PlanIsLaidOut, BuiltOrder
  <2>3. /\ layout.kernelPhys = input.kernelPhys
        /\ layout.headerPhys = input.kernelPhys + kernel.header
        /\ layout.entryPhys = input.kernelPhys + kernel.entry
        /\ layout.treePhys = TreePhys
        /\ args.physBase = input.physBase /\ args.virtBase = input.virtBase
        /\ args.memory = input.memory
        /\ args.treeVirtual = input.virtBase + (TreePhys - input.physBase)
    BY <2>1 DEF Layout, BootArgs
  <2>4. /\ kernel.base = input.virtBase + (input.kernelPhys - input.physBase)
        /\ input.virtBase % BlockBytes = input.physBase % BlockBytes
    BY <2>1 DEF Corresponds
  <2>5. /\ Translate(kernel.base + kernel.header) = layout.headerPhys
        /\ Translate(kernel.base + kernel.entry) = layout.entryPhys
        /\ Translate(args.treeVirtual) = layout.treePhys
    BY <2>1, <2>2, <2>3, <2>4 DEF Translate
  <2>6. args.treeVirtual < args.virtBase + args.memory
    <3>1. OccupiedEnd < input.physBase + input.memory
      BY <2>1 DEF ArgsCheck, TopIsFree, Ram, Region
    <3>2. StackBytes \in Nat
      BY PlacementAssumption DEF SizesAreSound
    <3>3. TreePhys < input.physBase + input.memory
      BY <2>1, <2>2, <3>1, <3>2
    <3> QED  BY <2>1, <2>2, <2>3, <3>3
  <2>7. kernel.base % BlockBytes = layout.kernelPhys % BlockBytes
    <3> DEFINE n == input.kernelPhys - input.physBase
    <3>1. n \in Nat /\ BlockBytes \in Nat \ {0}
      BY <2>1, PlacementAssumption DEF SizesAreSound
    <3>2. kernel.base = input.virtBase + n /\ input.kernelPhys = input.physBase + n
      BY <2>1, <2>4
    <3> HIDE DEF n
    <3>3. (input.virtBase + n) % BlockBytes = (input.physBase + n) % BlockBytes
      BY <2>1, <2>4, <3>1, SameRemainder
    <3> QED  BY <2>3, <3>2, <3>3
  <2> QED  BY <2>5, <2>6, <2>7
<1> QED  BY <1>1, PlanStaysChecked, PTL

-----------------------------------------------------------------------------
(* Backing *)

\* A layout that a plan has made keeps the rules that the backing repeats.
LEMMA BuiltLayoutHolds ==
  ASSUME LaidOut
  PROVE  LayoutHolds
<1>0. /\ PageSize \in Nat \ {0} /\ StackBytes \in Nat \ {0} /\ ArgsBytes \in Nat \ {0}
      /\ MaxAddress \in Nat
  BY PlacementAssumption DEF SizesAreSound
<1>1. /\ layout = Layout
      /\ {input.kernelPhys, input.tree.bytes, kernel.size} \subseteq Nat
      /\ kernel.size # 0 /\ kernel.size % PageSize = 0
      /\ input.kernelPhys % PageSize = 0
      /\ \A n \in Sums : n <= MaxAddress
      /\ ArgsCheck = "Ok"
  BY BuiltNumbers
<1>2. /\ {ArgsPhys, TreePhys, TreeEnd, StackTop, OccupiedEnd} \subseteq Nat
      /\ ArgsPhys = input.kernelPhys + kernel.size
      /\ ArgsPhys + ArgsBytes <= TreePhys
      /\ TreePhys + PageSize <= StackTop - StackBytes
      /\ StackTop <= OccupiedEnd
      /\ StackTop % PageSize = 0
  BY BuiltOrder
<1>3. /\ layout.kernelPhys = input.kernelPhys /\ layout.kernelBytes = kernel.size
      /\ layout.argsPhys = ArgsPhys /\ layout.treePhys = TreePhys
      /\ layout.stackTop = StackTop /\ layout.occupiedEnd = OccupiedEnd
      /\ layout.allocation = OccupiedEnd - input.kernelPhys
  BY <1>1 DEF Layout
<1>4. OccupiedEnd % PageSize = 0
  BY <1>1 DEF ArgsCheck, TopIsFree
<1>5. input.kernelPhys <= OccupiedEnd
  BY <1>0, <1>1, <1>2
<1>6. (OccupiedEnd - input.kernelPhys) % PageSize = 0
  BY <1>1, <1>2, <1>4, <1>5, PagesAdd
<1>7. \A n \in {layout.kernelPhys, layout.kernelBytes, layout.allocation,
                layout.occupiedEnd, layout.stackTop} : n % PageSize = 0
  BY <1>1, <1>2, <1>3, <1>4, <1>6
<1>8. StackTop <= MaxAddress /\ OccupiedEnd <= MaxAddress
  BY <1>1 DEF Sums
<1>9. TreePhys = ArgsPhys + PageSize
  BY DEF TreePhys
<1>10. /\ layout.allocation > layout.kernelBytes
       /\ layout.argsPhys = layout.kernelPhys + layout.kernelBytes
       /\ layout.argsPhys <= MaxAddress
       /\ layout.treePhys = layout.argsPhys + PageSize
       /\ layout.treePhys + PageSize + StackBytes <= MaxAddress
       /\ layout.stackTop >= layout.treePhys + PageSize + StackBytes
       /\ layout.stackTop <= layout.occupiedEnd
       /\ layout.occupiedEnd = layout.kernelPhys + layout.allocation
  BY <1>0, <1>1, <1>2, <1>3, <1>8, <1>9
<1> QED  BY <1>1, <1>3, <1>7, <1>10 DEF LayoutHolds, StackTopIsHigh

\* For every request and every backing, the backing does not refuse a layout
\* that a plan has made.
THEOREM LayoutsStayBackable == PlacementSpec => []LayoutsAreBackable
<1>1. BuildCheck # "InvalidLayout" \/ kernel \notin Kernels
  <2> SUFFICES ASSUME kernel \in Kernels
               PROVE  BuildCheck # "InvalidLayout"
    OBVIOUS
  <2>1. kernel.check # "Ok" => kernel.check # "InvalidLayout"
    BY KernelAssumption
  <2>2. GeometryCheck # "InvalidLayout"
    BY DEF GeometryCheck
  <2>3. DramCheck # "InvalidLayout"
    BY DEF DramCheck
  <2>4. ArgsCheck # "InvalidLayout"
    BY <2>3 DEF ArgsCheck
  <2> QED  BY <2>1, <2>2, <2>4 DEF BuildCheck
<1>2. PlanIsChecked /\ LayoutsAreBackable /\ [PlacementNext]_placementVars
        => LayoutsAreBackable'
  <2> SUFFICES ASSUME PlanIsChecked, LayoutsAreBackable, [PlacementNext]_placementVars
               PROVE  result' # "InvalidLayout"
    BY DEF LayoutsAreBackable
  <2>1. CASE Build
    <3>1. kernel \in Kernels
      BY DEF PlanIsChecked
    <3> QED  BY <1>1, <2>1, <3>1 DEF Build
  <2>2. CASE \E b \in Backings : Back(b)
    <3>1. PICK b \in Backings : Back(b)
      BY <2>2
    <3>2. LayoutHolds
      BY <3>1, PlanIsLaidOut, BuiltLayoutHolds DEF Back
    <3>3. BackingCheck(b) # "InvalidLayout"
      BY <3>2 DEF BackingCheck
    <3> QED  BY <3>1, <3>3 DEF Back
  <2>3. CASE UNCHANGED placementVars
    BY <2>3 DEF placementVars, LayoutsAreBackable
  <2> QED  BY <2>1, <2>2, <2>3 DEF PlacementNext
<1>3. PlacementInit => LayoutsAreBackable
  BY PlacementAssumption DEF SizesAreSound, PlacementInit, LayoutsAreBackable
<1> QED  BY <1>2, <1>3, PlanStaysChecked, PTL DEF PlacementSpec

\* For every request and every backing, each byte of the slice handed out is
\* the byte of RAM at its address, and never one of the page tables.
THEOREM BackingStaysExclusive == PlacementSpec => []BackingIsExclusive
<1>1. PlanIsChecked => BackingIsExclusive
  <2> SUFFICES ASSUME PlanIsChecked, backing # None,
                      NEW n \in 0 .. backing.bytes - 1
               PROVE  LET b == backing.of IN
                      /\ b.ramBase + (backing.offset + n) = layout.kernelPhys + n
                      /\ backing.offset + n < b.ramBytes
                      /\ layout.kernelPhys + n
                           \notin b.tableBase .. b.tableBase + b.tableBytes - 1
                      /\ b.ramHost + backing.offset + n
                           \notin b.tableHost .. b.tableHost + b.tableBytes - 1
    BY DEF BackingIsExclusive
  <2> DEFINE b == backing.of
  <2>1. /\ layout # None
        /\ b \in Backings
        /\ BackingCheck(b) = "Ok"
        /\ backing.offset = layout.kernelPhys - b.ramBase
        /\ backing.bytes = layout.allocation
    BY DEF PlanIsChecked
  <2>2. {b.ramBase, b.ramBytes, b.ramHost, b.tableBase, b.tableBytes, b.tableHost}
          \subseteq Nat
    <3>1. {b.ramBase, b.ramBytes, b.ramHost, b.tableBase, b.tableBytes, b.tableHost}
            \subseteq 0 .. MaxAddress
      BY <2>1, BackingAssumption
    <3> QED  BY <3>1, PlacementAssumption DEF SizesAreSound
  <2> HIDE DEF b
  <2>3. layout.kernelPhys \in Nat /\ layout.allocation \in Int
    <3>1. layout = Layout /\ input.kernelPhys \in Nat /\ OccupiedEnd \in Nat
      BY <2>1, PlanIsLaidOut, BuiltNumbers, BuiltOrder
    <3> QED  BY <3>1 DEF Layout
  <2>4. /\ ~ Overlap(Region(b.ramBase, b.ramBytes), Region(b.tableBase, b.tableBytes))
        /\ ~ layout.kernelPhys < b.ramBase
        /\ ~ layout.kernelPhys - b.ramBase + layout.allocation > b.ramBytes
        /\ ~ Overlap(Region(b.ramHost, b.ramBytes), Region(b.tableHost, b.tableBytes))
    BY <2>1 DEF BackingCheck
  <2>5. n \in Nat /\ n < layout.allocation
    BY <2>1, <2>3
  <2>6. /\ b.ramBase + (backing.offset + n) = layout.kernelPhys + n
        /\ backing.offset + n < b.ramBytes
        /\ backing.offset + n \in Nat
    BY <2>1, <2>2, <2>3, <2>4, <2>5
  <2>7. layout.kernelPhys + n \notin b.tableBase .. b.tableBase + b.tableBytes - 1
    BY <2>2, <2>3, <2>4, <2>5, <2>6 DEF Overlap, Region
  <2>8. b.ramHost + backing.offset + n
          \notin b.tableHost .. b.tableHost + b.tableBytes - 1
    <3>1. b.ramHost + backing.offset + n = b.ramHost + (backing.offset + n)
      BY <2>1, <2>2, <2>3, <2>5
    <3> QED  BY <2>2, <2>4, <2>6, <3>1 DEF Overlap, Region
  <2> QED  BY <2>6, <2>7, <2>8 DEF b
<1> QED  BY <1>1, PlanStaysChecked, PTL

\* For every request and every backing, a layout that a plan has made is
\* accepted, and handed out as the bytes of RAM it stands for.
THEOREM BackingsHoldLayouts == PlacementSpec => []BackingHoldsLayouts
BY LayoutsStayBackable, BackingStaysExclusive, PTL DEF BackingHoldsLayouts

=============================================================================
