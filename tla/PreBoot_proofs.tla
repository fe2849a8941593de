---------------------------- MODULE PreBoot_proofs ----------------------------
(* What happens before a system is started: the driver of the volume is       *)
(* extracted, whatever its source does between two reads, and the picker is   *)
(* drawn, for every screen and every menu that render() accepts: a move stays *)
(* in the menu, and a picture is sound.  Then two startup images are parsed,  *)
(* placed, written and read back, for every file and every arena.  Last comes *)
(* the boot as a whole, for every configuration, screen and set of records:   *)
(* the menu is the target, the picture is what Enter starts, a trace is read  *)
(* by every later entry point, and the parts of a boot belong together; and a *)
(* device tree that is written into RAM, which stays in its reservation.      *)
(*                                                                            *)
(* The argument about the driver: a turn through the extents stands at a      *)
(* block that the file needs (TurnFits), with the bytes before it all read;   *)
(* the running sum of the extents (Held) says where in the driver that is.    *)
EXTENDS ApfsJumpstart, BootSession, StartupImages, TreeWrites, TLAPS, NaturalLemmas,
        SequenceTheorems, FiniteSetTheorems

-----------------------------------------------------------------------------
(* What extents hold *)

Extents == Seq([start : 0 .. MaxAddress, count : 0 .. MaxAddress])

LEMMA ExtentsAreWords ==
  ASSUME NEW extents \in Extents
  PROVE  /\ Len(extents) \in Nat /\ DOMAIN extents = 1 .. Len(extents)
         /\ \A n \in 1 .. Len(extents) : extents[n].start \in Nat /\ extents[n].count \in Nat
<1> DEFINE Extent == [start : 0 .. MaxAddress, count : 0 .. MaxAddress]
<1>1. Len(extents) \in Nat /\ DOMAIN extents = 1 .. Len(extents)
  BY DEF Extents
<1>2. \A n \in 1 .. Len(extents) : extents[n] \in Extent
  <2>1. extents \in Seq(Extent)
    BY DEF Extents
  <2> HIDE DEF Extent
  <2> QED  BY <2>1
<1>3. \A e \in Extent : e.start \in Nat /\ e.count \in Nat
  BY JumpstartAssumption
<1> HIDE DEF Extent
<1> QED  BY <1>1, <1>2, <1>3

\* The running sum of the loop over extents is one.
LEMMA HeldAdds ==
  ASSUME NEW extents \in Extents, NEW size \in Nat
  PROVE  LET held == Held(extents, size)
         IN  /\ held \in [0 .. Len(extents) -> Nat]
             /\ held[0] = 0
             /\ \A n \in 1 .. Len(extents) : held[n] = held[n - 1] + extents[n].count * size
<1> DEFINE last == Len(extents)
           Sum(g, n) == IF n = 0 THEN 0 ELSE g[n - 1] + extents[n].count * size
           Sums(g, m) == g = [n \in 0 .. m |-> Sum(g, n)]
           held == Held(extents, size)
<1>1. last \in Nat /\ \A n \in 1 .. last : extents[n].count * size \in Nat
  <2>1. last \in Nat /\ \A n \in 1 .. last : extents[n].count \in Nat
    BY ExtentsAreWords
  <2> QED  BY <2>1
<1>2. \A m \in 0 .. last : \E g : Sums(g, m)
  <2> DEFINE T == {m \in 0 .. last : ~ \E g : Sums(g, m)}
  <2>1. SUFFICES ASSUME T # {}
                 PROVE  FALSE
    OBVIOUS
  <2>2. PICK m \in T : \A k \in T : m <= k
    <3>1. T \subseteq Nat
      BY <1>1
    <3> HIDE DEF T
    <3> QED  BY <2>1, <3>1, LeastNatural
  <2>3. m # 0
    <3> DEFINE g == [n \in 0 .. 0 |-> 0]
    <3>1. Sums(g, 0)
      OBVIOUS
    <3> QED  BY <3>1
  <2>4. PICK g : Sums(g, m - 1)
    <3>1. m - 1 \in 0 .. last /\ ~ m <= m - 1
      BY <1>1, <2>2, <2>3
    <3>2. m - 1 \notin T
      BY ONLY <2>2, <3>1
    <3> HIDE DEF Sums
    <3> QED  BY <3>1, <3>2
  <2> DEFINE h == [n \in 0 .. m |-> IF n = m THEN Sum(g, m) ELSE g[n]]
  <2>5. \A n \in 0 .. m : h[n] = Sum(h, n)
    <3> TAKE n \in 0 .. m
    <3>1. CASE n = m
      BY <1>1, <2>2, <2>3, <3>1
    <3>2. CASE n # m /\ n = 0
      BY <1>1, <2>2, <2>4, <3>2
    <3>3. CASE n # m /\ n # 0
      <4>1. n \in 0 .. m - 1 /\ n - 1 \in 0 .. m /\ n - 1 # m
        BY <1>1, <2>2, <3>3
      <4>2. g[n] = Sum(g, n)
        BY <2>4, <4>1
      <4> QED  BY <3>3, <4>1, <4>2
    <3> QED  BY <3>1, <3>2, <3>3
  <2>6. Sums(h, m)
    <3> HIDE DEF Sum
    <3> QED  BY <2>5
  <2> QED  BY <2>2, <2>6
<1>3. Sums(held, last)
  <2>1. \E g : Sums(g, last)
    BY <1>1, <1>2
  <2>2. held = CHOOSE g : Sums(g, last)
    BY DEF Held
  <2> HIDE DEF Sums, held
  <2> QED  BY <2>1, <2>2
<1>4. /\ DOMAIN held = 0 .. last /\ held[0] = 0
      /\ \A n \in 1 .. last : held[n] = held[n - 1] + extents[n].count * size
  <2> HIDE DEF held
  <2> QED  BY <1>1, <1>3
<1>5. \A n \in 0 .. last : held[n] \in Nat
  <2> DEFINE T == {n \in 0 .. last : held[n] \notin Nat}
  <2>1. SUFFICES ASSUME T # {}
                 PROVE  FALSE
    OBVIOUS
  <2>2. PICK n \in T : \A k \in T : n <= k
    <3>1. T \subseteq Nat
      BY <1>1
    <3> HIDE DEF T
    <3> QED  BY <2>1, <3>1, LeastNatural
  <2> HIDE DEF held
  <2>3. n # 0
    BY <1>4
  <2>4. held[n - 1] \in Nat
    BY <1>1, <2>2, <2>3
  <2>5. held[n] = held[n - 1] + extents[n].count * size /\ extents[n].count * size \in Nat
    BY <1>1, <1>4, <2>2, <2>3
  <2> QED  BY <2>2, <2>4, <2>5
<1>6. held \in [0 .. last -> Nat]
  <2> HIDE DEF held
  <2> QED  BY <1>3, <1>5
<1> QED  BY <1>4, <1>6

\* More extents hold more.
LEMMA HeldGrows ==
  ASSUME NEW extents \in Extents, NEW size \in Nat,
         NEW m \in 0 .. Len(extents), NEW n \in 0 .. Len(extents), m <= n
  PROVE  Held(extents, size)[m] <= Held(extents, size)[n]
<1> DEFINE held == Held(extents, size)
           T == {k \in m .. Len(extents) : ~ held[m] <= held[k]}
<1>1. /\ held \in [0 .. Len(extents) -> Nat]
      /\ \A k \in 1 .. Len(extents) : held[k] = held[k - 1] + extents[k].count * size
  BY HeldAdds
<1>2. \A k \in 1 .. Len(extents) : extents[k].count * size \in Nat
  BY ExtentsAreWords
<1>3. Len(extents) \in Nat
  BY ExtentsAreWords
<1> HIDE DEF held
<1>4. SUFFICES ASSUME T # {}
               PROVE  FALSE
  BY <1>3 DEF held
<1>5. PICK k \in T : \A j \in T : k <= j
  <2>1. T \subseteq Nat
    BY <1>3
  <2> HIDE DEF T
  <2> QED  BY <1>4, <2>1, LeastNatural
<1>6. k # m
  BY <1>1, <1>3
<1>7. held[m] <= held[k - 1]
  BY <1>3, <1>5, <1>6
<1>9. m \in 0 .. Len(extents) /\ k \in 1 .. Len(extents) /\ k - 1 \in 0 .. Len(extents)
  BY <1>3, <1>6
<1>8. held[k] = held[k - 1] + extents[k].count * size /\ held[k - 1] \in Nat
  BY ONLY <1>1, <1>9
<1>10. held[m] \in Nat /\ extents[k].count * size \in Nat
  BY <1>1, <1>2, <1>9
<1> QED  BY <1>5, <1>7, <1>8, <1>10

\* A byte is in one extent.
LEMMA ExtentIsKnown ==
  ASSUME NEW extents \in Extents, NEW size \in Nat, NEW n \in 1 .. Len(extents), NEW i \in Nat,
         Held(extents, size)[n - 1] < i, i <= Held(extents, size)[n]
  PROVE  n = CHOOSE k \in DOMAIN extents : /\ Held(extents, size)[k - 1] < i
                                           /\ i <= Held(extents, size)[k]
<1> DEFINE held == Held(extents, size)
<1>1. Len(extents) \in Nat /\ DOMAIN extents = 1 .. Len(extents)
  BY DEF Extents
<1>2. \A k \in 1 .. Len(extents) : held[k - 1] < i /\ i <= held[k] => k = n
  <2> SUFFICES ASSUME NEW k \in 1 .. Len(extents), held[k - 1] < i, i <= held[k]
               PROVE  k = n
    OBVIOUS
  <2>1. held \in [0 .. Len(extents) -> Nat]
    BY HeldAdds
  <2>4. held[k - 1] \in Nat /\ held[k] \in Nat /\ held[n - 1] \in Nat /\ held[n] \in Nat
    <3>1. \A j \in 0 .. Len(extents) : held[j] \in Nat
      <4> HIDE DEF held
      <4> QED  BY ONLY <2>1
    <3>2. {k - 1, k, n - 1, n} \subseteq 0 .. Len(extents)
      BY <1>1
    <3> HIDE DEF held
    <3> QED  BY ONLY <3>1, <3>2
  <2>2. CASE k < n
    <3>1. held[k] <= held[n - 1]
      BY <1>1, <2>2, HeldGrows, k \in 0 .. Len(extents), n - 1 \in 0 .. Len(extents), k <= n - 1
    <3> QED  BY <2>4, <3>1
  <2>3. CASE n < k
    <3>1. held[n] <= held[k - 1]
      BY <1>1, <2>3, HeldGrows, n \in 0 .. Len(extents), k - 1 \in 0 .. Len(extents), n <= k - 1
    <3> QED  BY <2>4, <3>1
  <2> QED  BY <1>1, <2>2, <2>3
<1> HIDE DEF held
<1> QED  BY <1>1, <1>2 DEF held

-----------------------------------------------------------------------------
(* What was accepted *)

LEMMA WordsAreNumbers ==
  ASSUME NEW m \in Media \cup Replacements
  PROVE  /\ m.super.blockSize \in Nat /\ m.super.blocks \in Nat /\ m.super.jumpstart \in Nat
         /\ \A offset \in DOMAIN m.records :
              /\ m.records[offset] # None /\ m.records[offset].length \in Nat
              /\ m.records[offset].extents \in Extents
<1>1. /\ {m.super.blockSize, m.super.blocks, m.super.jumpstart} \subseteq 0 .. MaxAddress
      /\ \A offset \in DOMAIN m.records :
           /\ m.records[offset] # None
           /\ m.records[offset].length \in 0 .. MaxAddress
           /\ m.records[offset].extents \in Extents
  BY MediaAssumption DEF Extents
<1>2. \A word \in 0 .. MaxAddress : word \in Nat
  BY JumpstartAssumption
<1> QED  BY <1>1, <1>2

\* Blocks in bounds.
LEMMA BlocksAccepted ==
  ASSUME NEW start \in Nat, NEW count \in Nat, NEW blocks \in Nat, NEW size \in Nat,
         BlocksCheck(start, count, blocks, size) = "Ok"
  PROVE  start + count <= blocks
BY JumpstartAssumption DEF BlocksCheck

\* A read in bounds.
LEMMA ReadAccepted ==
  ASSUME NEW limit \in Nat, NEW offset \in Nat, NEW size \in Nat,
         BoundCheck(limit, offset, size) = "Ok"
  PROVE  offset + size <= limit
BY JumpstartAssumption DEF BoundCheck

\* A block of a container is a range of its bytes.
LEMMA BlockIsInside ==
  ASSUME NEW address \in Nat, NEW blocks \in Nat, NEW size \in Nat, address + 1 <= blocks
  PROVE  /\ address * size \in Nat /\ blocks * size \in Nat
         /\ address * size + size <= blocks * size
<1>1. PICK rest \in Nat : blocks = address + 1 + rest
  <2>1. blocks - address - 1 \in Nat
    OBVIOUS
  <2> QED  BY <2>1
<1>2. blocks * size = address * size + size + rest * size
  BY <1>1
<1>3. address * size \in Nat /\ rest * size \in Nat /\ blocks * size \in Nat
  OBVIOUS
<1> QED  BY <1>2, <1>3

\* An object that was accepted has its checksum.
LEMMA ObjectAccepted ==
  ASSUME NEW object, NEW ids, ObjectCheck(object, ids) = "Ok"
  PROVE  object.valid
<1> DEFINE p1 == ~ object.valid
           p2 == ~ object.magic
           p3 == ~ object.sound \/ object.id \notin ids
           rules == << <<p1, "BadChecksum">>, <<p2, "BadMagic">>, <<p3, "InvalidObject">> >>
<1>1. FirstRefusal(rules) = "Ok"
  BY DEF ObjectCheck
<1>2. p1 \in BOOLEAN
  OBVIOUS
<1>3. ~ p1 => object.valid
  OBVIOUS
<1> HIDE DEF p1, p2, p3
<1>4. /\ DOMAIN rules = 1 .. 3 /\ rules[1][1] = p1
      /\ rules[1][2] = "BadChecksum" /\ rules[2][2] = "BadMagic" /\ rules[3][2] = "InvalidObject"
  BY <1>2
<1> HIDE DEF rules
<1>5. \A i \in DOMAIN rules : rules[i][2] # "Ok"
  BY <1>4
<1>6. \A i \in DOMAIN rules : ~ rules[i][1]
  BY <1>1, <1>4, <1>5, NothingRefused
<1> QED  BY <1>3, <1>4, <1>6

\* A block 0 that was accepted is the one whose prefix was read, of a container
\* that the partition holds and that has the record's block.
LEMMA SuperAccepted ==
  ASSUME NEW s, SuperCheck(s) = "Ok"
  PROVE  /\ UnchangedSince(s)
         /\ ~ (s.blocks * blockSize > asked.partition)
         /\ BlocksCheck(s.jumpstart, 1, s.blocks, blockSize) = "Ok"
<1> DEFINE container == s.blocks * blockSize
           object == ObjectCheck(s, {s.id})
           positive == PositiveCheck(s.jumpstart)
           range == BlocksCheck(s.jumpstart, 1, s.blocks, blockSize)
           p1 == ~ UnchangedSince(s)
           p2 == object # "Ok"
           p3 == container > MaxAddress
           p4 == container < MinContainer
           p5 == container > asked.partition
           p6 == s.fusion
           p7 == ~ s.features
           p8 == positive # "Ok"
           p9 == s.jumpstart = 0
           p10 == range # "Ok"
           rules == <<
             <<p1, "SourceChanged">>, <<p2, object>>, <<p3, "ArithmeticOverflow">>,
             <<p4, "InvalidContainerSize">>, <<p5, "OutOfBounds">>, <<p6, "UnsupportedFusion">>,
             <<p7, "UnsupportedFeatures">>, <<p8, positive>>, <<p9, "NoJumpstart">>,
             <<p10, range>> >>
<1>1. FirstRefusal(rules) = "Ok"
  BY DEF SuperCheck
<1>2. p1 \in BOOLEAN /\ p2 \in BOOLEAN /\ p5 \in BOOLEAN /\ p8 \in BOOLEAN /\ p10 \in BOOLEAN
  OBVIOUS
<1>3. (p2 => object # "Ok") /\ (p8 => positive # "Ok") /\ (p10 => range # "Ok")
  OBVIOUS
<1>4. (~ p1 => UnchangedSince(s)) /\ (~ p5 => ~ (container > asked.partition))
        /\ (~ p10 => range = "Ok")
  OBVIOUS
<1> HIDE DEF object, positive, range, p1, p2, p3, p4, p5, p6, p7, p8, p9, p10
<1>5. DOMAIN rules = 1 .. 10
  OBVIOUS
<1>6. /\ rules[1][1] = p1 /\ rules[2][1] = p2 /\ rules[5][1] = p5
      /\ rules[8][1] = p8 /\ rules[10][1] = p10
  BY <1>2
<1>7. /\ rules[1][2] = "SourceChanged" /\ rules[2][2] = object
      /\ rules[3][2] = "ArithmeticOverflow" /\ rules[4][2] = "InvalidContainerSize"
      /\ rules[5][2] = "OutOfBounds" /\ rules[6][2] = "UnsupportedFusion"
      /\ rules[7][2] = "UnsupportedFeatures" /\ rules[8][2] = positive
      /\ rules[9][2] = "NoJumpstart" /\ rules[10][2] = range
  OBVIOUS
<1> HIDE DEF rules
<1>8. \A i \in DOMAIN rules : rules[i][1] => rules[i][2] # "Ok"
  BY <1>3, <1>5, <1>6, <1>7
<1>9. \A i \in 1 .. 10 : ~ rules[i][1]
  BY <1>1, <1>5, <1>8, NothingRefused
<1>10. ~ p1 /\ ~ p5 /\ ~ p10
  BY <1>6, <1>9
<1> QED  BY <1>4, <1>10 DEF range

\* An extent that was accepted has blocks, all of them in the container.
LEMMA ExtentAccepted ==
  ASSUME NEW e, NEW capacity, ExtentCheck(e, capacity) = "Ok"
  PROVE  e.count # 0 /\ BlocksCheck(e.start, e.count, super.blocks, blockSize) = "Ok"
<1> DEFINE range == BlocksCheck(e.start, e.count, super.blocks, blockSize)
           p1 == PositiveCheck(e.start) # "Ok"
           p2 == e.count = 0
           p3 == range # "Ok"
           p4 == e.count * blockSize > MaxAddress \/ capacity > MaxAddress
           rules == << <<p1, "NegativeAddress">>, <<p2, "EmptyExtent">>, <<p3, range>>,
                       <<p4, "ArithmeticOverflow">> >>
<1>1. FirstRefusal(rules) = "Ok"
  BY DEF ExtentCheck
<1>2. p2 \in BOOLEAN /\ p3 \in BOOLEAN
  OBVIOUS
<1>3. (p3 => range # "Ok") /\ (~ p3 => range = "Ok") /\ (~ p2 => e.count # 0)
  OBVIOUS
<1> HIDE DEF range, p1, p2, p3, p4
<1>4. /\ DOMAIN rules = 1 .. 4 /\ rules[2][1] = p2 /\ rules[3][1] = p3
      /\ rules[1][2] = "NegativeAddress" /\ rules[2][2] = "EmptyExtent"
      /\ rules[3][2] = range /\ rules[4][2] = "ArithmeticOverflow"
  BY <1>2
<1> HIDE DEF rules
<1>5. \A i \in DOMAIN rules : rules[i][1] => rules[i][2] # "Ok"
  BY <1>3, <1>4
<1>6. \A i \in 1 .. 4 : ~ rules[i][1]
  BY <1>1, <1>4, <1>5, NothingRefused
<1> QED  BY <1>3, <1>4, <1>6 DEF range

\* A record that was accepted lists extents that hold its file.
LEMMA RecordAccepted ==
  ASSUME NEW r, r.extents \in Extents, RecordCheck(r) = "Ok"
  PROVE  /\ r.valid /\ r.length # 0 /\ Len(r.extents) # 0
         /\ \A n \in 1 .. Len(r.extents) :
              /\ r.extents[n].count # 0
              /\ BlocksCheck(r.extents[n].start, r.extents[n].count, super.blocks, blockSize) = "Ok"
         /\ ~ (Held(r.extents, blockSize)[Len(r.extents)] < r.length)
<1> DEFINE object == ObjectCheck(r, {super.jumpstart})
           count == Len(r.extents)
           held == Held(r.extents, blockSize)
           checks == [i \in 1 .. count |-> ExtentCheck(r.extents[i], held[i])]
           extents == FirstError(checks)
           p1 == object # "Ok"
           p2 == ~ r.version
           p3 == r.length = 0
           p4 == r.length > asked.maxDriver
           p5 == count = 0
           p6 == count > asked.maxExtents
           p7 == TableStart + count * ExtentBytes > blockSize
           p8 == extents # "Ok"
           p9 == held[count] < r.length
           rules == <<
             <<p1, object>>, <<p2, "UnsupportedVersion">>, <<p3, "InvalidFileLength">>,
             <<p4, "DriverTooLarge">>, <<p5, "InvalidExtentCount">>, <<p6, "TooManyExtents">>,
             <<p7, "ExtentTableOutOfBounds">>, <<p8, extents>>,
             <<p9, "InsufficientExtentCapacity">> >>
<1>1. FirstRefusal(rules) = "Ok"
  BY DEF RecordCheck
<1>2. p1 \in BOOLEAN /\ p3 \in BOOLEAN /\ p5 \in BOOLEAN /\ p8 \in BOOLEAN /\ p9 \in BOOLEAN
  OBVIOUS
<1>3. (p1 => object # "Ok") /\ (p8 => extents # "Ok")
  OBVIOUS
<1>4. /\ ~ p1 => object = "Ok"
      /\ ~ p3 => r.length # 0
      /\ ~ p5 => count # 0
      /\ ~ p8 => extents = "Ok"
      /\ ~ p9 => ~ (held[count] < r.length)
  OBVIOUS
<1> HIDE DEF object, extents, p1, p2, p3, p4, p5, p6, p7, p8, p9
<1>5. DOMAIN rules = 1 .. 9
  OBVIOUS
<1>6. /\ rules[1][1] = p1 /\ rules[3][1] = p3 /\ rules[5][1] = p5
      /\ rules[8][1] = p8 /\ rules[9][1] = p9
  BY <1>2
<1>7. /\ rules[1][2] = object /\ rules[2][2] = "UnsupportedVersion"
      /\ rules[3][2] = "InvalidFileLength" /\ rules[4][2] = "DriverTooLarge"
      /\ rules[5][2] = "InvalidExtentCount" /\ rules[6][2] = "TooManyExtents"
      /\ rules[7][2] = "ExtentTableOutOfBounds" /\ rules[8][2] = extents
      /\ rules[9][2] = "InsufficientExtentCapacity"
  OBVIOUS
<1> HIDE DEF rules
<1>8. \A i \in DOMAIN rules : rules[i][1] => rules[i][2] # "Ok"
  BY <1>3, <1>5, <1>6, <1>7
<1>9. \A i \in 1 .. 9 : ~ rules[i][1]
  BY <1>1, <1>5, <1>8, NothingRefused
<1>10. ~ p1 /\ ~ p3 /\ ~ p5 /\ ~ p8 /\ ~ p9
  BY <1>6, <1>9
<1>11. r.valid
  BY <1>4, <1>10, ObjectAccepted DEF object
<1>12. count \in Nat
  BY ExtentsAreWords
<1>13. \A i \in 1 .. count : checks[i] = "Ok"
  <2>1. DOMAIN checks = 1 .. count /\ FirstError(checks) = "Ok"
    BY <1>4, <1>10 DEF extents
  <2> HIDE DEF checks
  <2> QED  BY <1>12, <2>1, NothingFailed
<1>14. \A i \in 1 .. count : ExtentCheck(r.extents[i], held[i]) = "Ok"
  BY <1>13
<1> HIDE DEF held, checks
<1> QED  BY <1>4, <1>10, <1>11, <1>14, ExtentAccepted DEF held

-----------------------------------------------------------------------------
(* Turns *)

\* The turns through an extent read what is missing, or the whole extent.
LEMMA TurnsSuffice ==
  ASSUME NEW count \in Nat \ {0}, NEW missing \in Nat \ {0}, NEW size \in Nat \ {0}
  PROVE  LET needed == LeastOf(count, (missing + size - 1) \div size)
         IN  /\ needed \in 1 .. count
             /\ (needed - 1) * size < missing
             /\ needed = count \/ missing <= needed * size
<1> DEFINE q == (missing + size - 1) \div size
<1>1. /\ q \in Nat /\ q * size \in Nat
      /\ missing <= q * size /\ q * size <= missing + size - 1
  <2>1. q \in Nat
    BY DivisionHolds, missing + size - 1 \in Nat
  <2> QED  BY <2>1, RoundedUp
<1> HIDE DEF q
<1>2. q # 0
  BY <1>1
<1>3. (q - 1) * size = q * size - size
  BY <1>1
<1>4. ASSUME NEW n \in 1 .. q
      PROVE  (n - 1) * size <= (q - 1) * size
  <2>1. PICK rest \in Nat : q = n + rest
    <3>1. q - n \in Nat
      BY <1>1, <1>4
    <3> QED  BY <1>1, <1>4, <3>1
  <2>2. (q - 1) * size = (n - 1) * size + rest * size
    BY <1>4, <2>1
  <2>3. rest * size \in Nat /\ (n - 1) * size \in Nat
    BY <1>4, <2>1
  <2> QED  BY <2>2, <2>3
<1>5. CASE count < q
  <2>1. LeastOf(count, q) = count
    BY <1>5 DEF LeastOf
  <2>2. (count - 1) * size \in Nat
    OBVIOUS
  <2> QED  BY <1>1, <1>3, <1>4, <1>5, <2>1, <2>2, count \in 1 .. q DEF q
<1>6. CASE ~ count < q
  <2>1. LeastOf(count, q) = q
    BY <1>6 DEF LeastOf
  <2>2. q \in 1 .. count /\ (q - 1) * size < missing
    BY <1>1, <1>2, <1>3, <1>6
  <2> QED  BY <1>1, <2>1, <2>2 DEF q
<1> QED  BY <1>1, <1>5, <1>6

-----------------------------------------------------------------------------
(* What a call keeps true *)

Medium == Media \cup Replacements

Labels == {m.label : m \in Medium}

TypeInv ==
  /\ asked \in Calls /\ medium \in Medium /\ changes \in Nat
  /\ phase \in {"prefix", "super", "record", "driver", "done"}
  /\ bytes \in Seq(Labels \X Nat)
  /\ reads \in Seq([offset : Nat, size : Nat])

\* A block size was taken from a prefix.
SizeOK == blockSize \in Nat \ {0} /\ prefix[4] = blockSize

\* A block 0 was accepted, with the prefix' block size.
SuperOK ==
  /\ super.blockSize = blockSize
  /\ super.blocks \in Nat /\ super.jumpstart \in Nat
  /\ super.jumpstart + 1 <= super.blocks
  /\ super.blocks * blockSize <= asked.partition
  /\ changes = 0 => super = medium.super

\* A record was accepted: its extents lie in the container and hold the file.
RecordOK ==
  /\ record # None /\ record.length \in Nat \ {0}
  /\ record.extents \in Extents /\ Len(record.extents) # 0
  /\ \A n \in 1 .. Len(record.extents) :
       /\ record.extents[n].count # 0
       /\ record.extents[n].start + record.extents[n].count <= super.blocks
  /\ record.length <= Held(record.extents, blockSize)[Len(record.extents)]
  /\ changes = 0 => record = medium.records[super.jumpstart * blockSize]

\* The turn reads a block of its extent, which the file needs; after the turns
\* through an extent the file has the whole extent, or all it needs.
TurnFits(t, r, size, count) ==
  /\ t \in [extent : Nat, index : Nat, needed : Nat]
  /\ t.extent \in 1 .. Len(r.extents)
  /\ t.index < t.needed
  /\ t.needed \in 1 .. r.extents[t.extent].count
  /\ count = Held(r.extents, size)[t.extent - 1] + t.index * size
  /\ (t.needed - t.index - 1) * size < r.length - count
  /\ \/ t.needed = r.extents[t.extent].count
     \/ r.length - count <= (t.needed - t.index) * size

TurnOK == TurnFits(turn, record, blockSize, Len(bytes))

\* The bytes so far are those of the driver.
BytesOK ==
  /\ \A i \in 1 .. Len(bytes) : bytes[i][2] = DriverOffsets(record, blockSize)[i]
  /\ changes = 0 => \A i \in 1 .. Len(bytes) : bytes[i][1] = medium.label

\* The inductive invariant of a jumpstart.
JumpstartInv ==
  /\ TypeInv
  /\ phase # "done" => result = "running"
  /\ phase \in {"prefix", "super", "record"} => bytes = <<>> /\ record = None
  /\ phase = "prefix" => reads = <<>>
  /\ phase = "super" => Len(reads) = 1 /\ SizeOK
  /\ phase = "record" => Len(reads) = 2 /\ SizeOK /\ SuperOK
  /\ phase = "driver" =>
       /\ SizeOK /\ SuperOK /\ RecordOK /\ TurnOK /\ BytesOK
       /\ Len(reads) >= 3 /\ (Len(reads) - 3) * blockSize = Len(bytes)
  /\ ReadsStayInside /\ DriverIsWhole

LEMMA ReadIsAdded ==
  ASSUME TypeInv, NEW offset \in Nat, NEW size \in Nat, Ask(offset, size)
  PROVE  /\ reads' \in Seq([offset : Nat, size : Nat])
         /\ Len(reads) \in Nat /\ Len(reads') = Len(reads) + 1
         /\ DOMAIN reads = 1 .. Len(reads) /\ DOMAIN reads' = 1 .. Len(reads) + 1
         /\ \A i \in 1 .. Len(reads) : reads'[i] = reads[i]
         /\ reads'[Len(reads) + 1].offset = offset /\ reads'[Len(reads) + 1].size = size
<1> DEFINE Read == [offset : Nat, size : Nat]
           new == [offset |-> offset, size |-> size]
<1>1. new \in Read /\ new.offset = offset /\ new.size = size
  OBVIOUS
<1>2. reads \in Seq(Read) /\ reads' = Append(reads, new)
  BY DEF TypeInv, Ask
<1> HIDE DEF Read, new
<1>3. /\ reads' \in Seq(Read) /\ Len(reads) \in Nat /\ Len(reads') = Len(reads) + 1
      /\ DOMAIN reads = 1 .. Len(reads) /\ DOMAIN reads' = 1 .. Len(reads) + 1
      /\ \A i \in 1 .. Len(reads) : reads'[i] = reads[i]
      /\ reads'[Len(reads) + 1] = new
  BY <1>1, <1>2
<1> QED  BY <1>1, <1>3 DEF Read

\* A call that fails without another read tells nothing.
LEMMA FailingKeeps ==
  ASSUME JumpstartInv, phase' = "done", result' # "Ok",
         UNCHANGED <<asked, medium, changes, super, record, bytes, reads>>
  PROVE  JumpstartInv'
<1>1. TypeInv'
  BY DEF JumpstartInv, TypeInv
<1>2. ReadsStayInside'
  BY DEF JumpstartInv, ReadsStayInside, OneGeometry, OnlyNeededReads
<1> QED  BY <1>1, <1>2 DEF JumpstartInv, DriverIsWhole

LEMMA JumpstartStarts == JumpstartInit => JumpstartInv
<1> SUFFICES ASSUME JumpstartInit
             PROVE  JumpstartInv
  OBVIOUS
<1> USE DEF JumpstartInit
<1>1. TypeInv
  BY DEF TypeInv, Medium
<1>2. ReadsStayInside
  BY DEF ReadsStayInside, OneGeometry, OnlyNeededReads
<1> QED  BY <1>1, <1>2 DEF JumpstartInv, DriverIsWhole

LEMMA ReadPrefixKeeps == JumpstartInv /\ ReadPrefix => JumpstartInv'
<1> SUFFICES ASSUME JumpstartInv, ReadPrefix
             PROVE  JumpstartInv'
  OBVIOUS
<1> DEFINE bound == IF asked.maxDriver = 0 \/ asked.maxExtents = 0 THEN "InvalidLimits"
                    ELSE BoundCheck(asked.partition, 0, PrefixBytes)
<1>1. /\ phase = "prefix" /\ UNCHANGED <<asked, medium, changes, super, record, turn, bytes>>
      /\ IF bound # "Ok"
           THEN Return(bound, "done") /\ UNCHANGED <<blockSize, prefix, reads>>
           ELSE /\ Ask(0, PrefixBytes)
                /\ Return(PrefixCheck, "super")
                /\ blockSize' = medium.super.blockSize
                /\ prefix' = Prefix(medium.super)
  BY DEF ReadPrefix
<1>2. /\ TypeInv /\ reads = <<>> /\ bytes = <<>> /\ record = None /\ result = "running"
  BY <1>1 DEF JumpstartInv
<1>3. CASE bound # "Ok"
  <2>1. phase' = "done" /\ result' # "Ok"
    BY <1>1, <1>3 DEF Return
  <2> QED  BY <1>1, <1>3, <2>1, FailingKeeps
<1>4. CASE bound = "Ok"
  <2>1. asked.partition \in Nat /\ PrefixBytes \in Nat /\ MinBlock \in Nat \ {0}
    BY <1>2, JumpstartAssumption DEF TypeInv
  <2>2. PrefixBytes <= asked.partition
    <3>1. BoundCheck(asked.partition, 0, PrefixBytes) = "Ok"
      BY <1>4
    <3> QED  BY <2>1, <3>1, ReadAccepted
  <2>3. /\ Len(reads') = 1 /\ DOMAIN reads' = 1 .. 1
        /\ reads' \in Seq([offset : Nat, size : Nat])
        /\ reads'[1].offset = 0 /\ reads'[1].size = PrefixBytes
    BY <1>1, <1>2, <1>4, <2>1, ReadIsAdded
  <2>4. TypeInv'
    BY <1>1, <1>2, <1>4, <2>3 DEF TypeInv, Return
  <2>5. ReadsStayInside'
    BY <1>1, <1>2, <2>1, <2>2, <2>3 DEF ReadsStayInside, OneGeometry, OnlyNeededReads
  <2>6. phase' = "super" => SizeOK'
    <3> HAVE phase' = "super"
    <3>1. PrefixCheck = "Ok"
      BY <1>1, <1>4 DEF Return
    <3>2. medium.super.blockSize \in MinBlock .. MaxBlock
      BY <3>1 DEF PrefixCheck
    <3>3. medium.super.blockSize \in Nat \ {0}
      BY <2>1, <3>2, JumpstartAssumption
    <3> QED  BY <1>1, <1>4, <3>3 DEF SizeOK, Prefix
  <2>7. \/ phase' = "super" /\ result' = "running"
        \/ phase' = "done" /\ result' # "Ok"
    BY <1>1, <1>2, <1>4 DEF Return
  <2> QED  BY <1>1, <1>2, <2>3, <2>4, <2>5, <2>6, <2>7 DEF JumpstartInv, DriverIsWhole
<1> QED  BY <1>3, <1>4

LEMMA ReadSuperKeeps == JumpstartInv /\ ReadSuper => JumpstartInv'
<1> SUFFICES ASSUME JumpstartInv, ReadSuper
             PROVE  JumpstartInv'
  OBVIOUS
<1> DEFINE bound == BoundCheck(asked.partition, 0, blockSize)
           check == SuperCheck(medium.super)
<1>1. /\ phase = "super"
      /\ UNCHANGED <<asked, medium, changes, blockSize, prefix, record, turn, bytes>>
      /\ IF bound # "Ok"
           THEN Return(bound, "done") /\ UNCHANGED <<super, reads>>
           ELSE /\ Ask(0, blockSize)
                /\ Return(check, "record")
                /\ super' = IF check = "Ok" THEN medium.super ELSE super
  BY DEF ReadSuper
<1>2. /\ TypeInv /\ Len(reads) = 1 /\ bytes = <<>> /\ record = None /\ result = "running"
      /\ SizeOK /\ ReadsStayInside
  BY <1>1 DEF JumpstartInv
<1>3. CASE bound # "Ok"
  <2>1. phase' = "done" /\ result' # "Ok"
    BY <1>1, <1>3 DEF Return
  <2> QED  BY <1>1, <1>3, <2>1, FailingKeeps
<1>4. CASE bound = "Ok"
  <2>1. asked.partition \in Nat /\ blockSize \in Nat \ {0}
    BY <1>2, JumpstartAssumption DEF TypeInv, SizeOK
  <2>2. blockSize <= asked.partition
    BY <1>4, <2>1, ReadAccepted
  <2>3. /\ Len(reads') = 2 /\ DOMAIN reads = 1 .. 1 /\ DOMAIN reads' = 1 .. 2
        /\ reads' \in Seq([offset : Nat, size : Nat])
        /\ reads'[1] = reads[1] /\ reads'[2].offset = 0 /\ reads'[2].size = blockSize
    BY <1>1, <1>2, <1>4, <2>1, ReadIsAdded
  <2>4. TypeInv'
    BY <1>1, <1>2, <1>4, <2>3 DEF TypeInv, Return
  <2>5. ReadsStayInside'
    BY <1>1, <1>2, <2>1, <2>2, <2>3 DEF ReadsStayInside, OneGeometry, OnlyNeededReads
  <2>6. phase' = "record" => SuperOK'
    <3> HAVE phase' = "record"
    <3> DEFINE s == medium.super
    <3>1. check = "Ok" /\ super' = s
      BY <1>1, <1>4 DEF Return
    <3>2. s.blocks \in Nat /\ s.jumpstart \in Nat
      BY <1>2, WordsAreNumbers DEF TypeInv, Medium
    <3>3. /\ UnchangedSince(s) /\ ~ (s.blocks * blockSize > asked.partition)
          /\ BlocksCheck(s.jumpstart, 1, s.blocks, blockSize) = "Ok"
      BY <3>1, SuperAccepted
    <3>4. s.blockSize = blockSize
      BY <1>2, <3>3 DEF UnchangedSince, Prefix, SizeOK
    <3>5. s.jumpstart + 1 <= s.blocks
      BY <2>1, <3>2, <3>3, BlocksAccepted
    <3>6. s.blocks * blockSize <= asked.partition
      <4>1. s.blocks * blockSize \in Nat
        BY <2>1, <3>2
      <4> QED  BY <2>1, <3>3, <4>1
    <3> QED  BY <1>1, <3>1, <3>2, <3>4, <3>5, <3>6 DEF SuperOK
  <2>7. \/ phase' = "record" /\ result' = "running"
        \/ phase' = "done" /\ result' # "Ok"
    BY <1>1, <1>2, <1>4 DEF Return
  <2>8. SizeOK'
    BY <1>1, <1>2 DEF SizeOK
  <2> QED  BY <1>1, <1>2, <2>3, <2>4, <2>5, <2>6, <2>7, <2>8 DEF JumpstartInv, DriverIsWhole
<1> QED  BY <1>3, <1>4

LEMMA ReplaceKeeps == JumpstartInv /\ Replace => JumpstartInv'
<1> SUFFICES ASSUME JumpstartInv, Replace
             PROVE  JumpstartInv'
  OBVIOUS
<1>1. /\ changes' = changes + 1 /\ medium' \in Medium /\ phase # "done"
      /\ UNCHANGED <<asked, phase, blockSize, prefix, super, record, turn, bytes, reads, result>>
  BY DEF Replace, Medium
<1>2. TypeInv' /\ changes' # 0
  BY <1>1 DEF JumpstartInv, TypeInv
<1>3. ReadsStayInside'
  BY <1>1 DEF JumpstartInv, ReadsStayInside, OneGeometry, OnlyNeededReads
<1>4. (SizeOK => SizeOK') /\ (SuperOK => SuperOK') /\ (RecordOK => RecordOK')
        /\ (TurnOK => TurnOK') /\ (BytesOK => BytesOK')
  <2>1. /\ Held(record.extents, blockSize)' = Held(record.extents, blockSize)
        /\ DriverOffsets(record, blockSize)' = DriverOffsets(record, blockSize)
    BY <1>1, Zenon
  <2>2. (SizeOK => SizeOK') /\ (SuperOK => SuperOK')
    BY <1>1, <1>2 DEF SizeOK, SuperOK
  <2>3. RecordOK => RecordOK'
    BY <1>1, <1>2, <2>1 DEF RecordOK
  <2>4. TurnOK => TurnOK'
    BY <1>1, <2>1 DEF TurnOK, TurnFits
  <2>5. BytesOK => BytesOK'
    BY <1>1, <1>2, <2>1 DEF BytesOK
  <2> QED  BY <2>2, <2>3, <2>4, <2>5
<1>5. DriverIsWhole'
  BY <1>1 DEF JumpstartInv, DriverIsWhole
<1> QED  BY <1>1, <1>2, <1>3, <1>4, <1>5 DEF JumpstartInv

LEMMA ReadFailsKeeps == JumpstartInv /\ ReadFails => JumpstartInv'
BY FailingKeeps DEF ReadFails

\* The first turn through an extent, when all before it is read.
LEMMA TurnsBegin ==
  ASSUME NEW r, r.extents \in Extents, r.length \in Nat, NEW size \in Nat \ {0},
         NEW n \in 1 .. Len(r.extents), r.extents[n].count # 0,
         Held(r.extents, size)[n - 1] < r.length
  PROVE  LET have == Held(r.extents, size)[n - 1]
             t == [extent |-> n, index |-> 0,
                   needed |-> LeastOf(r.extents[n].count,
                                      (r.length - have + size - 1) \div size)]
         IN  TurnFits(t, r, size, have)
<1> DEFINE have == Held(r.extents, size)[n - 1]
           count == r.extents[n].count
           missing == r.length - have
           needed == LeastOf(count, (missing + size - 1) \div size)
           t == [extent |-> n, index |-> 0, needed |-> needed]
<1>1. Len(r.extents) \in Nat /\ have \in Nat
  <2>1. Len(r.extents) \in Nat /\ Held(r.extents, size) \in [0 .. Len(r.extents) -> Nat]
    BY ExtentsAreWords, HeldAdds
  <2> QED  BY <2>1
<1>2. count \in Nat \ {0} /\ missing \in Nat \ {0}
  <2> HIDE DEF have
  <2>1. have < r.length
    BY DEF have
  <2> QED  BY <1>1, <2>1, ExtentsAreWords
<1>3. /\ needed \in 1 .. count
      /\ (needed - 1) * size < missing
      /\ needed = count \/ missing <= needed * size
  <2> HIDE DEF missing, count
  <2> QED  BY <1>2, TurnsSuffice
<1> HIDE DEF needed, have
<1>4. /\ t \in [extent : Nat, index : Nat, needed : Nat]
      /\ t.extent = n /\ t.index = 0 /\ t.needed = needed
  BY <1>1, <1>2, <1>3
<1>5. needed - 0 - 1 = needed - 1 /\ needed - 0 = needed /\ have = have + 0 * size
  BY <1>1, <1>2, <1>3
<1> HIDE DEF t
<1>6. TurnFits(t, r, size, have)
  BY <1>3, <1>4, <1>5 DEF TurnFits, have
<1> QED  BY <1>6 DEF t, have, needed

LEMMA ReadRecordKeeps == JumpstartInv /\ ReadRecord => JumpstartInv'
<1> SUFFICES ASSUME JumpstartInv, ReadRecord
             PROVE  JumpstartInv'
  OBVIOUS
<1> DEFINE offset == super.jumpstart * blockSize
           bound == BoundCheck(super.blocks * blockSize, offset, blockSize)
           found == RecordAt(offset)
           check == RecordCheck(found)
<1>1. /\ phase = "record"
      /\ UNCHANGED <<asked, medium, changes, blockSize, prefix, super, bytes>>
      /\ IF bound # "Ok"
           THEN Return(bound, "done") /\ UNCHANGED <<record, turn, reads>>
           ELSE /\ Ask(offset, blockSize)
                /\ Return(check, "driver")
                /\ record' = IF check = "Ok" THEN found ELSE record
                /\ turn' = IF check = "Ok" THEN TurnsThrough(1, found, found.length) ELSE turn
  BY DEF ReadRecord
<1>2. /\ TypeInv /\ Len(reads) = 2 /\ bytes = <<>> /\ record = None /\ result = "running"
      /\ SizeOK /\ SuperOK /\ ReadsStayInside
  BY <1>1 DEF JumpstartInv
<1>3. CASE bound # "Ok"
  <2>1. phase' = "done" /\ result' # "Ok"
    BY <1>1, <1>3 DEF Return
  <2> QED  BY <1>1, <1>3, <2>1, FailingKeeps
<1>4. CASE bound = "Ok"
  <2>1. /\ asked.partition \in Nat /\ blockSize \in Nat \ {0}
        /\ super.blocks \in Nat /\ super.jumpstart \in Nat /\ super.blockSize = blockSize
    BY <1>2, JumpstartAssumption DEF TypeInv, SizeOK, SuperOK
  <2>2. /\ offset \in Nat /\ super.blocks * blockSize \in Nat
        /\ offset + blockSize <= super.blocks * blockSize
        /\ super.blocks * blockSize <= asked.partition
    BY <1>2, <2>1, BlockIsInside DEF SuperOK
  <2>3. offset % blockSize = 0
    BY <2>1, MultiplesDivide
  <2>4. /\ Len(reads') = 3 /\ DOMAIN reads = 1 .. 2 /\ DOMAIN reads' = 1 .. 3
        /\ reads' \in Seq([offset : Nat, size : Nat])
        /\ \A i \in 1 .. 2 : reads'[i] = reads[i]
        /\ reads'[3].offset = offset /\ reads'[3].size = blockSize
    <3> HIDE DEF offset
    <3>1. offset \in Nat /\ blockSize \in Nat
      BY <2>1, <2>2
    <3>2. TypeInv /\ Len(reads) = 2 /\ Ask(offset, blockSize)
      BY <1>1, <1>2, <1>4
    <3>3. /\ reads' \in Seq([offset : Nat, size : Nat]) /\ Len(reads') = Len(reads) + 1
          /\ DOMAIN reads = 1 .. Len(reads) /\ DOMAIN reads' = 1 .. Len(reads) + 1
          /\ \A i \in 1 .. Len(reads) : reads'[i] = reads[i]
          /\ reads'[Len(reads) + 1].offset = offset /\ reads'[Len(reads) + 1].size = blockSize
      BY ONLY <3>1, <3>2, ReadIsAdded, Zenon
    <3> QED  BY ONLY <3>2, <3>3
  <2>5. TypeInv'
    BY <1>1, <1>2, <1>4, <2>4 DEF TypeInv, Return
  <2>6. phase' = "driver" => RecordOK' /\ TurnOK'
    <3> HAVE phase' = "driver"
    <3>1. /\ check = "Ok" /\ record' = found
          /\ turn' = TurnsThrough(1, found, found.length)
      BY <1>1, <1>4 DEF Return
    <3>2. found.extents \in Extents
      <4>1. CASE offset \in DOMAIN medium.records
        BY <1>2, <4>1, WordsAreNumbers DEF RecordAt, TypeInv, Medium
      <4>2. CASE offset \notin DOMAIN medium.records
        BY <4>2 DEF RecordAt, NoRecord, Extents
      <4> QED  BY <4>1, <4>2
    <3>3. /\ found.valid /\ found.length # 0 /\ Len(found.extents) # 0
          /\ \A n \in 1 .. Len(found.extents) :
               /\ found.extents[n].count # 0
               /\ BlocksCheck(found.extents[n].start, found.extents[n].count, super.blocks,
                              blockSize) = "Ok"
          /\ ~ (Held(found.extents, blockSize)[Len(found.extents)] < found.length)
      BY <3>1, <3>2, RecordAccepted
    <3>4. offset \in DOMAIN medium.records /\ found = medium.records[offset]
      BY <3>3 DEF RecordAt, NoRecord
    <3>5. found # None /\ found.length \in Nat \ {0}
      BY <1>2, <3>3, <3>4, WordsAreNumbers DEF TypeInv, Medium
    <3> HIDE DEF found, offset
    <3>6. \A n \in 1 .. Len(found.extents) :
            found.extents[n].start + found.extents[n].count <= super.blocks
      BY <2>1, <3>2, <3>3, BlocksAccepted, ExtentsAreWords
    <3>7. /\ Held(found.extents, blockSize)[0] = 0 /\ Len(found.extents) \in Nat
          /\ Held(found.extents, blockSize)[Len(found.extents)] \in Nat
      <4>1. Len(found.extents) \in Nat /\ blockSize \in Nat
        BY <2>1, <3>2, ExtentsAreWords
      <4>2. /\ Held(found.extents, blockSize) \in [0 .. Len(found.extents) -> Nat]
            /\ Held(found.extents, blockSize)[0] = 0
        BY <3>2, <4>1, HeldAdds
      <4> QED  BY <4>1, <4>2
    <3>8. found.length <= Held(found.extents, blockSize)[Len(found.extents)]
      BY <3>3, <3>5, <3>7
    <3>9. TurnFits(turn', found, blockSize, 0)
      <4>1. /\ 1 \in 1 .. Len(found.extents) /\ found.extents[1].count # 0
            /\ Held(found.extents, blockSize)[1 - 1] = 0 /\ 0 < found.length
            /\ found.length - 0 = found.length
        BY <3>3, <3>5, <3>7
      <4>2. turn' = [extent |-> 1, index |-> 0,
                     needed |-> LeastOf(found.extents[1].count,
                                        (found.length + blockSize - 1) \div blockSize)]
        BY <3>1 DEF TurnsThrough
      <4> QED  BY <2>1, <3>2, <3>5, <4>1, <4>2, TurnsBegin
    <3>10. Len(bytes') = 0
      BY <1>1, <1>2
    <3>11. TurnOK'
      <4>1. TurnFits(turn', record', blockSize', Len(bytes'))
        BY <1>1, <3>1, <3>9, <3>10
      <4> QED  BY <4>1 DEF TurnOK, TurnFits, Held
    <3>12. RecordOK'
      <4>1. Held(record.extents, blockSize)' = Held(found.extents, blockSize)
        BY <1>1, <3>1
      <4> QED  BY <1>1, <3>1, <3>2, <3>3, <3>4, <3>5, <3>6, <3>8, <4>1 DEF RecordOK, offset
    <3> QED  BY <3>11, <3>12
  <2>7. \/ phase' = "driver" /\ result' = "running"
        \/ phase' = "done" /\ result' # "Ok" /\ record' = None
    <3> HIDE DEF found, check, offset
    <3> QED  BY <1>1, <1>2, <1>4 DEF Return
  <2>8. ReadsStayInside'
    <3>1. OneGeometry'
      <4>1. \A i \in 1 .. 2 : reads[i].offset + reads[i].size <= asked.partition
        BY <1>2, <2>4 DEF ReadsStayInside, OneGeometry
      <4>2. offset + blockSize <= asked.partition
        <5> HIDE DEF offset
        <5> QED  BY <2>1, <2>2
      <4> HIDE DEF offset
      <4>3. \A i \in 1 .. 3 : reads'[i].offset + reads'[i].size <= asked.partition
        BY <2>4, <4>1, <4>2
      <4>4. /\ reads'[3].size = super.blockSize /\ reads'[3].offset % super.blockSize = 0
            /\ reads'[3].offset + reads'[3].size <= super.blocks * super.blockSize
        BY <2>1, <2>2, <2>3, <2>4
      <4>5. asked' = asked /\ super' = super
        BY <1>1
      <4> QED  BY <2>4, <4>3, <4>4, <4>5 DEF OneGeometry
    <3>2. record' # None => (Len(reads') - 4) * super'.blockSize < record'.length
      <4> HAVE record' # None
      <4>1. record'.length \in Nat \ {0}
        BY <2>6, <2>7 DEF RecordOK
      <4>2. (3 - 4) * blockSize = - blockSize
        BY <2>1
      <4> QED  BY <1>1, <2>1, <2>4, <4>1, <4>2
    <3> QED  BY <2>4, <3>1, <3>2 DEF ReadsStayInside, OnlyNeededReads
  <2>9. SizeOK' /\ SuperOK'
    BY <1>1, <1>2 DEF SizeOK, SuperOK
  <2>10. BytesOK'
    BY <1>1, <1>2 DEF BytesOK
  <2>11. (3 - 3) * blockSize = 0
    BY <2>1
  <2> QED
    BY <1>1, <1>2, <2>4, <2>5, <2>6, <2>7, <2>8, <2>9, <2>10, <2>11
       DEF JumpstartInv, DriverIsWhole
<1> QED  BY <1>3, <1>4

\* Where a byte of the driver is.
LEMMA DriverByte ==
  ASSUME NEW r, r.extents \in Extents, r.length \in Nat, NEW size \in Nat,
         NEW n \in 1 .. Len(r.extents), NEW i \in 1 .. r.length,
         Held(r.extents, size)[n - 1] < i, i <= Held(r.extents, size)[n]
  PROVE  DriverOffsets(r, size)[i]
           = r.extents[n].start * size + (i - Held(r.extents, size)[n - 1]) - 1
<1> DEFINE held == Held(r.extents, size)
           ExtentOf(j) == CHOOSE k \in DOMAIN r.extents : held[k - 1] < j /\ j <= held[k]
<1>1. ExtentOf(i) = n
  <2>1. i \in Nat
    OBVIOUS
  <2>2. n = ExtentOf(i)
    BY <2>1, ExtentIsKnown
  <2> QED  BY <2>2
<1>2. DriverOffsets(r, size)
        = [j \in 1 .. r.length |->
             r.extents[ExtentOf(j)].start * size + (j - held[ExtentOf(j) - 1]) - 1]
  BY DEF DriverOffsets
<1> HIDE DEF ExtentOf
<1>3. DriverOffsets(r, size)[i]
        = r.extents[ExtentOf(i)].start * size + (i - held[ExtentOf(i) - 1]) - 1
  BY <1>2
<1> QED  BY <1>1, <1>3

\* A turn through an extent of so many blocks, with so many bytes before it.
LEMMA TurnCounts ==
  ASSUME NEW index \in Nat, NEW needed \in Nat, NEW blocks \in Nat, NEW before \in Nat,
         NEW size \in Nat \ {0}, NEW length \in Nat, NEW count \in Nat,
         index < needed, needed <= blocks, count = before + index * size,
         (needed - index - 1) * size < length - count,
         needed = blocks \/ length - count <= (needed - index) * size
  PROVE  /\ length - count \in Nat \ {0}
         /\ index * size \in Nat /\ blocks * size \in Nat
         /\ index * size + size <= blocks * size
         /\ index + 1 < needed =>
              /\ size < length - count
              /\ count + size = before + (index + 1) * size
              /\ (needed - (index + 1) - 1) * size < length - (count + size)
              /\ \/ needed = blocks
                 \/ length - (count + size) <= (needed - (index + 1)) * size
         /\ (index + 1 >= needed /\ size < length - count) => count + size = before + blocks * size
<1>1. index * size \in Nat /\ blocks * size \in Nat /\ index * size + size <= blocks * size
  BY BlockIsInside
<1>2. (needed - index - 1) * size \in Nat
  BY needed - index - 1 \in Nat
<1>3. length - count \in Nat \ {0}
  BY <1>2
<1>4. ASSUME index + 1 < needed
      PROVE  /\ size < length - count
             /\ count + size = before + (index + 1) * size
             /\ (needed - (index + 1) - 1) * size < length - (count + size)
             /\ \/ needed = blocks
                \/ length - (count + size) <= (needed - (index + 1)) * size
  <2>1. PICK rest \in Nat : needed = index + 2 + rest
    <3>1. needed - index - 2 \in Nat
      BY <1>4
    <3> QED  BY <3>1
  <2>2. /\ needed - index - 1 = 1 + rest /\ needed - (index + 1) - 1 = rest
        /\ needed - (index + 1) = 1 + rest /\ needed - index = 2 + rest
    BY <2>1
  <2>3. /\ (1 + rest) * size = size + rest * size
        /\ (2 + rest) * size = size + size + rest * size
        /\ (index + 1) * size = index * size + size
        /\ rest * size \in Nat
    OBVIOUS
  <2> QED  BY <1>1, <2>2, <2>3
<1>5. ASSUME index + 1 >= needed, size < length - count
      PROVE  count + size = before + blocks * size
  <2>1. needed = index + 1 /\ needed - index = 1 /\ 1 * size = size
    BY <1>5
  <2>2. blocks = index + 1
    BY <1>5, <2>1
  <2>3. blocks * size = index * size + size
    BY <2>2
  <2> QED  BY <1>1, <2>3
<1> QED  BY <1>1, <1>3, <1>4, <1>5

\* The numbers of a turn.
LEMMA TurnIsTyped ==
  ASSUME NEW r, r.extents \in Extents, r.length \in Nat, NEW size \in Nat \ {0},
         NEW t, NEW count \in Nat, TurnFits(t, r, size, count)
  PROVE  LET held == Held(r.extents, size)
             e == t.extent
         IN  /\ Len(r.extents) \in Nat
             /\ e \in 1 .. Len(r.extents) /\ t.index \in Nat /\ t.needed \in Nat
             /\ r.extents[e].start \in Nat /\ r.extents[e].count \in Nat
             /\ held[e - 1] \in Nat /\ held[e] \in Nat
             /\ held[e] = held[e - 1] + r.extents[e].count * size
             /\ t.needed <= r.extents[e].count
<1> DEFINE held == Held(r.extents, size)
<1>1. /\ Len(r.extents) \in Nat /\ held \in [0 .. Len(r.extents) -> Nat]
      /\ \A n \in 1 .. Len(r.extents) : /\ held[n] = held[n - 1] + r.extents[n].count * size
                                        /\ r.extents[n].start \in Nat
                                        /\ r.extents[n].count \in Nat
  BY ExtentsAreWords, HeldAdds
<1>2. \A n \in 1 .. Len(r.extents) : held[n - 1] \in Nat /\ held[n] \in Nat
  <2> TAKE n \in 1 .. Len(r.extents)
  <2>1. n - 1 \in 0 .. Len(r.extents) /\ n \in 0 .. Len(r.extents)
    BY <1>1
  <2> HIDE DEF held
  <2> QED  BY <1>1, <2>1
<1> DEFINE e == t.extent
<1>3. e \in 1 .. Len(r.extents) /\ t.index \in Nat /\ t.needed \in Nat
      /\ t.needed \in 1 .. r.extents[e].count
  BY DEF TurnFits
<1> HIDE DEF held, e
<1>4. /\ r.extents[e].start \in Nat /\ r.extents[e].count \in Nat
      /\ held[e - 1] \in Nat /\ held[e] \in Nat
      /\ held[e] = held[e - 1] + r.extents[e].count * size
  BY <1>1, <1>2, <1>3
<1>5. t.needed <= r.extents[e].count
  BY <1>3, <1>4
<1> QED  BY <1>1, <1>3, <1>4, <1>5 DEF held, e

\* A turn reads the next bytes of the driver.
LEMMA TurnReads ==
  ASSUME NEW r, r.extents \in Extents, r.length \in Nat, NEW size \in Nat \ {0},
         NEW t, NEW count \in Nat, TurnFits(t, r, size, count)
  PROVE  LET missing == r.length - count
             taken == LeastOf(missing, size)
             address == r.extents[t.extent].start + t.index
         IN  /\ missing \in Nat \ {0} /\ address \in Nat
             /\ taken \in 1 .. size /\ taken <= missing
             /\ t.index < r.extents[t.extent].count
             /\ \A j \in 1 .. taken :
                  DriverOffsets(r, size)[count + j] = address * size + j - 1
<1> DEFINE e == t.extent
<1>1. PICK index \in Nat, needed \in Nat, start \in Nat, blocks \in Nat, before \in Nat,
           length \in Nat :
        /\ index = t.index /\ needed = t.needed /\ length = r.length
        /\ start = r.extents[e].start /\ blocks = r.extents[e].count
        /\ before = Held(r.extents, size)[e - 1]
        /\ Held(r.extents, size)[e] = before + blocks * size
        /\ needed <= blocks /\ e \in 1 .. Len(r.extents)
  <2>1. /\ e \in 1 .. Len(r.extents) /\ t.index \in Nat /\ t.needed \in Nat
        /\ r.extents[e].start \in Nat /\ r.extents[e].count \in Nat
        /\ Held(r.extents, size)[e - 1] \in Nat
        /\ Held(r.extents, size)[e] =
             Held(r.extents, size)[e - 1] + r.extents[e].count * size
        /\ t.needed <= r.extents[e].count
    BY TurnIsTyped, Zenon
  <2> HIDE DEF e
  <2> QED  BY <2>1, Zenon
<1>2. /\ index < needed /\ needed <= blocks /\ count = before + index * size
      /\ (needed - index - 1) * size < length - count
      /\ needed = blocks \/ length - count <= (needed - index) * size
  BY <1>1 DEF TurnFits
<1>3. /\ length - count \in Nat \ {0}
      /\ index * size \in Nat /\ blocks * size \in Nat
      /\ index * size + size <= blocks * size
  BY <1>2, TurnCounts
<1> DEFINE missing == length - count
           taken == LeastOf(missing, size)
<1>4. taken \in 1 .. size /\ taken <= missing
  BY <1>3 DEF LeastOf
<1>5. ASSUME NEW j \in 1 .. taken
      PROVE  DriverOffsets(r, size)[count + j] = (start + index) * size + j - 1
  <2> HIDE DEF taken
  <2>1. j \in Nat /\ 1 <= j /\ j <= size /\ j <= length - count
    BY <1>4
  <2>2. count + j \in 1 .. length
    BY <1>3, <2>1
  <2>3. before < count + j /\ count + j <= before + blocks * size
        /\ count + j - before = index * size + j
    BY <1>2, <1>3, <2>1
  <2>4. DriverOffsets(r, size)[count + j] = start * size + (count + j - before) - 1
    <3> DEFINE i == count + j
    <3>1. i \in 1 .. r.length /\ Held(r.extents, size)[e - 1] < i
          /\ i <= Held(r.extents, size)[e]
      BY <1>1, <2>2, <2>3
    <3> HIDE DEF i, e
    <3>3. e \in 1 .. Len(r.extents) /\ size \in Nat
      BY <1>1
    <3>2. DriverOffsets(r, size)[i]
            = r.extents[e].start * size + (i - Held(r.extents, size)[e - 1]) - 1
      BY <3>1, <3>3, DriverByte
    <3> QED  BY <1>1, <3>2 DEF i
  <2>5. start * size + (index * size + j) - 1 = (start + index) * size + j - 1
    <3>1. (start + index) * size = start * size + index * size /\ start * size \in Nat
      OBVIOUS
    <3> QED  BY <1>3, <2>1, <3>1
  <2> QED  BY <2>3, <2>4, <2>5
<1>6. index < blocks
  BY <1>2
<1>7. LeastOf(r.length - count, size) = taken /\ r.length - count = missing
  <2>1. r.length = length
    BY <1>1
  <2> QED  BY <2>1
<1> DEFINE address == r.extents[e].start + t.index
<1>8. address = start + index /\ address \in Nat /\ t.index < r.extents[e].count
  <2>1. t.index = index /\ r.extents[e].start = start /\ r.extents[e].count = blocks
    BY <1>1
  <2>2. start + index \in Nat
    OBVIOUS
  <2> QED  BY <1>6, <2>1, <2>2
<1> HIDE DEF taken, missing, address
<1>9. \A j \in 1 .. taken : DriverOffsets(r, size)[count + j] = address * size + j - 1
  BY <1>5, <1>8
<1>10. missing \in Nat \ {0} /\ taken \in 1 .. size /\ taken <= missing
  BY <1>3, <1>4 DEF missing
<1> QED  BY <1>7, <1>8, <1>9, <1>10 DEF address

\* After a turn there is another one, or the file is complete.
LEMMA TurnAdvances ==
  ASSUME NEW r, r.extents \in Extents, r.length \in Nat, NEW size \in Nat \ {0},
         NEW t, NEW count \in Nat, TurnFits(t, r, size, count),
         r.length <= Held(r.extents, size)[Len(r.extents)]
  PROVE  LET missing == r.length - count
             taken == LeastOf(missing, size)
         IN  /\ t.index + 1 < t.needed =>
                  /\ taken = size
                  /\ TurnFits([t EXCEPT !.index = @ + 1], r, size, count + taken)
             /\ t.index + 1 >= t.needed =>
                  \/ taken = missing
                  \/ /\ taken = size /\ t.extent < Len(r.extents)
                     /\ count + taken = Held(r.extents, size)[t.extent]
                     /\ count + taken < r.length
<1> DEFINE e == t.extent
           held == Held(r.extents, size)
<1>1. PICK index \in Nat, needed \in Nat, blocks \in Nat, before \in Nat, length \in Nat :
        /\ index = t.index /\ needed = t.needed /\ length = r.length
        /\ blocks = r.extents[e].count /\ before = held[e - 1]
        /\ held[e] = before + blocks * size
        /\ needed <= blocks /\ e \in 1 .. Len(r.extents) /\ Len(r.extents) \in Nat
  BY TurnIsTyped
<1>2. /\ index < needed /\ needed <= blocks /\ count = before + index * size
      /\ (needed - index - 1) * size < length - count
      /\ needed = blocks \/ length - count <= (needed - index) * size
  BY <1>1 DEF TurnFits
<1>3. /\ length - count \in Nat \ {0}
      /\ index + 1 < needed =>
           /\ size < length - count
           /\ count + size = before + (index + 1) * size
           /\ (needed - (index + 1) - 1) * size < length - (count + size)
           /\ \/ needed = blocks
              \/ length - (count + size) <= (needed - (index + 1)) * size
      /\ (index + 1 >= needed /\ size < length - count) => count + size = before + blocks * size
  BY <1>2, TurnCounts
<1> DEFINE missing == length - count
           taken == LeastOf(missing, size)
<1>4. taken = missing \/ (taken = size /\ size < missing)
  BY <1>3 DEF LeastOf
<1>5. ASSUME index + 1 < needed
      PROVE  taken = size /\ TurnFits([t EXCEPT !.index = @ + 1], r, size, count + size)
  <2> DEFINE u == [t EXCEPT !.index = @ + 1]
  <2>1. taken = size
    BY <1>3, <1>5 DEF LeastOf
  <2>2. /\ u \in [extent : Nat, index : Nat, needed : Nat]
        /\ u.extent = e /\ u.index = index + 1 /\ u.needed = needed
    <3>1. t \in [extent : Nat, index : Nat, needed : Nat]
      BY DEF TurnFits
    <3>2. index = t.index /\ needed = t.needed /\ e = t.extent
      BY <1>1
    <3> HIDE DEF e
    <3> QED  BY ONLY <3>1, <3>2 DEF u
  <2>3. needed \in 1 .. blocks /\ index + 1 < needed
    BY <1>2, <1>5
  <2> HIDE DEF u, taken
  <2>4. TurnFits(u, r, size, count + size)
    BY <1>1, <1>3, <1>5, <2>2, <2>3 DEF TurnFits
  <2> QED  BY <2>1, <2>4 DEF u
<1>6. ASSUME index + 1 >= needed, taken # missing
      PROVE  /\ taken = size /\ e < Len(r.extents)
             /\ count + size = held[e] /\ count + size < length
  <2> HIDE DEF taken
  <2>1. taken = size /\ size < length - count
    BY <1>4, <1>6
  <2>2. count + size = before + blocks * size /\ count + size < length
    BY <1>3, <1>6, <2>1
  <2>3. e # Len(r.extents)
    <3>1. SUFFICES ASSUME e = Len(r.extents)
                   PROVE  FALSE
      OBVIOUS
    <3>2. length <= held[e]
      BY <1>1, <3>1
    <3> HIDE DEF held, e
    <3>3. length <= count + size
      BY <1>1, <2>2, <3>2
    <3> QED  BY <2>2, <3>3
  <2>4. e < Len(r.extents)
    BY <1>1, <2>3
  <2> QED  BY <1>1, <2>1, <2>2, <2>4
<1> HIDE DEF taken
<1>7. LET m == r.length - count
      IN  m = missing /\ LeastOf(m, size) = taken
  BY <1>1 DEF taken
<1>8. (t.index + 1 < t.needed <=> index + 1 < needed)
        /\ (t.index + 1 >= t.needed <=> index + 1 >= needed)
  BY <1>1
<1> QED  BY <1>1, <1>5, <1>6, <1>7, <1>8

\* The bytes that a turn takes.
LEMMA BytesAreAdded ==
  ASSUME TypeInv, NEW offset \in Nat, NEW size \in Nat, bytes' = bytes \o Data(offset, size)
  PROVE  /\ bytes' \in Seq(Labels \X Nat)
         /\ Len(bytes) \in Nat /\ Len(bytes') = Len(bytes) + size
         /\ DOMAIN bytes' = 1 .. Len(bytes')
         /\ \A i \in 1 .. Len(bytes) : bytes'[i] = bytes[i]
         /\ \A j \in 1 .. size : /\ bytes'[Len(bytes) + j][1] = medium.label
                                 /\ bytes'[Len(bytes) + j][2] = offset + j - 1
<1> DEFINE Byte == Labels \X Nat
           data == Data(offset, size)
<1>1. \A j \in 1 .. size : <<medium.label, offset + j - 1>> \in Byte
  <2>1. medium.label \in Labels
    BY DEF TypeInv, Labels
  <2> QED  BY <2>1
<1>2. /\ data \in Seq(Byte) /\ Len(data) = size
      /\ \A j \in 1 .. size : data[j] = <<medium.label, offset + j - 1>>
  <2> HIDE DEF Byte
  <2>1. data = [j \in 1 .. size |-> <<medium.label, offset + j - 1>>]
    BY DEF Data
  <2>2. data \in [1 .. size -> Byte]
    BY <1>1, <2>1
  <2> HIDE DEF data
  <2>3. data \in Seq(Byte) /\ Len(data) = size
    BY <2>2
  <2>4. \A j \in 1 .. size : data[j] = <<medium.label, offset + j - 1>>
    BY <2>1
  <2> QED  BY <2>3, <2>4
<1>3. \A j \in 1 .. size : data[j][1] = medium.label /\ data[j][2] = offset + j - 1
  BY <1>2
<1>4. bytes \in Seq(Byte) /\ bytes' = bytes \o data
  BY DEF TypeInv
<1> HIDE DEF Byte, data
<1>5. /\ bytes' \in Seq(Byte) /\ Len(bytes) \in Nat /\ Len(bytes') = Len(bytes) + size
      /\ DOMAIN bytes' = 1 .. Len(bytes')
      /\ \A i \in 1 .. Len(bytes) : bytes'[i] = bytes[i]
      /\ \A j \in 1 .. size : bytes'[Len(bytes) + j] = data[j]
  <2>1. /\ bytes' \in Seq(Byte) /\ Len(bytes') = Len(bytes) + Len(data)
        /\ \A i \in 1 .. Len(bytes) + Len(data) :
             bytes'[i] = IF i <= Len(bytes) THEN bytes[i] ELSE data[i - Len(bytes)]
    <3>1. ASSUME NEW s \in Seq(Byte)
          PROVE  /\ s \o data \in Seq(Byte) /\ Len(s \o data) = Len(s) + Len(data)
                 /\ \A i \in 1 .. Len(s) + Len(data) :
                      (s \o data)[i] = IF i <= Len(s) THEN s[i] ELSE data[i - Len(s)]
      BY <1>2, ConcatProperties
    <3> QED  BY <1>4, <3>1
  <2>2. Len(bytes) \in Nat /\ DOMAIN bytes' = 1 .. Len(bytes')
    BY <1>4, <2>1
  <2>3. ASSUME NEW j \in 1 .. size
        PROVE  bytes'[Len(bytes) + j] = data[j]
    <3> DEFINE i == Len(bytes) + j
    <3>1. i \in 1 .. Len(bytes) + Len(data) /\ ~ i <= Len(bytes) /\ i - Len(bytes) = j
      BY <1>2, <2>2
    <3> HIDE DEF i
    <3>2. bytes'[i] = data[i - Len(bytes)]
      BY <2>1, <3>1
    <3> QED  BY <3>1, <3>2 DEF i
  <2>4. \A i \in 1 .. Len(bytes) : bytes'[i] = bytes[i]
    BY <1>2, <2>1, <2>2
  <2> QED  BY <1>2, <2>1, <2>2, <2>3, <2>4
<1> QED  BY <1>3, <1>5 DEF Byte

LEMMA ReadDriverKeeps == JumpstartInv /\ ReadDriver => JumpstartInv'
<1> SUFFICES ASSUME JumpstartInv, ReadDriver
             PROVE  JumpstartInv'
  OBVIOUS
<1> DEFINE extent == record.extents[turn.extent]
           address == extent.start + turn.index
           offset == address * blockSize
           check == FirstError(<<BlocksCheck(address, 1, super.blocks, blockSize),
                                 BoundCheck(super.blocks * blockSize, offset, blockSize)>>)
           missing == record.length - Len(bytes)
           taken == LeastOf(missing, blockSize)
           next == NextTurn(missing - taken)
<1>1. /\ phase = "driver"
      /\ UNCHANGED <<asked, medium, changes, blockSize, prefix, super, record>>
      /\ IF check # "Ok"
           THEN Return(check, "done") /\ UNCHANGED <<turn, bytes, reads>>
           ELSE /\ Ask(offset, blockSize)
                /\ bytes' = bytes \o Data(offset, taken)
                /\ turn' = next
                /\ Return("Ok", IF next = None THEN "done" ELSE "driver")
  BY DEF ReadDriver, Taken
<1>2. /\ TypeInv /\ result = "running" /\ ReadsStayInside
      /\ SizeOK /\ SuperOK /\ RecordOK /\ TurnOK /\ BytesOK
      /\ Len(reads) >= 3 /\ (Len(reads) - 3) * blockSize = Len(bytes)
  BY <1>1 DEF JumpstartInv
<1>3. CASE check # "Ok"
  <2>1. phase' = "done" /\ result' # "Ok"
    BY <1>1, <1>3 DEF Return
  <2> QED  BY <1>1, <1>3, <2>1, FailingKeeps
<1>4. CASE check = "Ok"
  <2>1. /\ asked.partition \in Nat /\ blockSize \in Nat \ {0} /\ super.blockSize = blockSize
        /\ super.blocks \in Nat /\ super.blocks * blockSize <= asked.partition
        /\ record.extents \in Extents /\ record.length \in Nat
        /\ Len(bytes) \in Nat
    <3>1. asked.partition \in Nat /\ Len(bytes) \in Nat
      BY <1>2, JumpstartAssumption DEF TypeInv
    <3>2. blockSize \in Nat \ {0}
      BY <1>2 DEF SizeOK
    <3>3. /\ super.blockSize = blockSize /\ super.blocks \in Nat
          /\ super.blocks * blockSize <= asked.partition
      BY <1>2 DEF SuperOK
    <3>4. record.extents \in Extents /\ record.length \in Nat
      BY <1>2 DEF RecordOK
    <3> QED  BY <3>1, <3>2, <3>3, <3>4
  <2>2. TurnFits(turn, record, blockSize, Len(bytes))
    BY <1>2 DEF TurnOK
  <2>3. /\ missing \in Nat \ {0} /\ address \in Nat
        /\ taken \in 1 .. blockSize /\ taken <= missing
        /\ turn.index < extent.count
        /\ \A j \in 1 .. taken :
             DriverOffsets(record, blockSize)[Len(bytes) + j] = offset + j - 1
    BY <2>1, <2>2, TurnReads
  <2>4. /\ turn.extent \in 1 .. Len(record.extents) /\ turn.index \in Nat
        /\ extent.start \in Nat /\ extent.count \in Nat
        /\ extent.start + extent.count <= super.blocks
        /\ DOMAIN record.extents = 1 .. Len(record.extents)
    BY <1>2, <2>1, <2>2, TurnIsTyped, ExtentsAreWords DEF RecordOK
  <2>5. extent.start <= address /\ address < extent.start + extent.count
          /\ address + 1 <= super.blocks
    <3>1. PICK start \in Nat, count \in Nat, index \in Nat, blocks \in Nat :
            /\ start = extent.start /\ count = extent.count /\ index = turn.index
            /\ blocks = super.blocks /\ address = start + index
      BY <2>1, <2>4
    <3>2. index < count /\ start + count <= blocks
      BY <2>3, <2>4, <3>1
    <3>3. start <= start + index /\ start + index < start + count /\ start + index + 1 <= blocks
      BY <3>2
    <3> HIDE DEF address, extent
    <3> QED  BY <3>1, <3>3
  <2>6. /\ offset \in Nat /\ super.blocks * blockSize \in Nat
        /\ offset + blockSize <= super.blocks * blockSize
        /\ offset % blockSize = 0 /\ offset \div blockSize = address
    <3> HIDE DEF address
    <3> QED  BY <2>1, <2>3, <2>5, BlockIsInside, MultiplesDivide
  <2> HIDE DEF next, offset, address
  <2>7. /\ Ask(offset, blockSize) /\ bytes' = bytes \o Data(offset, taken)
        /\ turn' = next
        /\ phase' = (IF next = None THEN "done" ELSE "driver")
        /\ result' = (IF next = None THEN "Ok" ELSE "running")
    BY <1>1, <1>2, <1>4 DEF Return
  <2>8. /\ reads' \in Seq([offset : Nat, size : Nat])
        /\ Len(reads) \in Nat /\ Len(reads') = Len(reads) + 1
        /\ DOMAIN reads = 1 .. Len(reads) /\ DOMAIN reads' = 1 .. Len(reads) + 1
        /\ \A i \in 1 .. Len(reads) : reads'[i] = reads[i]
        /\ reads'[Len(reads) + 1].offset = offset /\ reads'[Len(reads) + 1].size = blockSize
    BY <1>2, <2>1, <2>6, <2>7, ReadIsAdded
  <2>9. /\ bytes' \in Seq(Labels \X Nat) /\ Len(bytes') = Len(bytes) + taken
        /\ DOMAIN bytes' = 1 .. Len(bytes')
        /\ \A i \in 1 .. Len(bytes) : bytes'[i] = bytes[i]
        /\ \A j \in 1 .. taken : /\ bytes'[Len(bytes) + j][1] = medium.label
                                 /\ bytes'[Len(bytes) + j][2] = offset + j - 1
    <3>1. taken \in Nat
      BY <2>1, <2>3
    <3> HIDE DEF taken
    <3> QED  BY <1>2, <2>6, <2>7, <3>1, BytesAreAdded
  <2>10. ReadsStayInside'
    <3>1. OneGeometry'
      <4>1. OneGeometry
        BY <1>2 DEF ReadsStayInside
      <4>2. offset + blockSize <= asked.partition
        BY <2>1, <2>6
      <4> DEFINE Inside(read, later) ==
                   /\ read.offset + read.size <= asked.partition
                   /\ later => /\ read.size = super.blockSize
                               /\ read.offset % super.blockSize = 0
                               /\ read.offset + read.size <= super.blocks * super.blockSize
      <4>3. Inside(reads'[Len(reads) + 1], TRUE)
        BY <2>1, <2>6, <2>8, <4>2
      <4>4. \A i \in 1 .. Len(reads) : Inside(reads'[i], i > 2)
        <5> TAKE i \in 1 .. Len(reads)
        <5>1. Inside(reads[i], i > 2)
          BY <2>8, <4>1 DEF OneGeometry
        <5>2. reads'[i] = reads[i]
          BY <2>8
        <5> HIDE DEF Inside
        <5> QED  BY <5>1, <5>2
      <4>5. \A i \in 1 .. Len(reads) + 1 : Inside(reads'[i], i > 2)
        <5> HIDE DEF Inside
        <5> TAKE i \in 1 .. Len(reads) + 1
        <5>1. i \in 1 .. Len(reads) \/ (i = Len(reads) + 1 /\ (i > 2) = TRUE)
          BY <1>2, <2>8
        <5> QED  BY <4>3, <4>4, <5>1
      <4> QED  BY <1>1, <2>8, <4>5 DEF OneGeometry
    <3>2. OnlyNeededReads'
      <4>1. \A i \in 4 .. Len(reads) :
              \E n \in DOMAIN record.extents :
                LET e == record.extents[n]
                    block == reads[i].offset \div super.blockSize
                IN  e.start <= block /\ block < e.start + e.count
        BY <1>2 DEF RecordOK, ReadsStayInside, OnlyNeededReads
      <4>2. ASSUME NEW i \in 4 .. Len(reads')
            PROVE  \E n \in DOMAIN record.extents :
                     LET e == record.extents[n]
                         block == reads'[i].offset \div super.blockSize
                     IN  e.start <= block /\ block < e.start + e.count
        <5>1. CASE i <= Len(reads)
          <6>1. i \in 4 .. Len(reads) /\ i \in 1 .. Len(reads)
            BY <2>8, <5>1
          <6>2. reads'[i] = reads[i]
            BY <2>8, <6>1
          <6> QED  BY <4>1, <6>1, <6>2
        <5>2. CASE i = Len(reads) + 1
          BY <2>1, <2>4, <2>5, <2>6, <2>8, <5>2
        <5> QED  BY <2>8, <5>1, <5>2
      <4>3. (Len(reads') - 4) * super.blockSize < record.length
        <5>1. Len(reads') - 4 = Len(reads) - 3
          BY <2>8
        <5>2. Len(bytes) < record.length
          BY <2>1, <2>3
        <5> QED  BY <1>2, <2>1, <5>1, <5>2
      <4> QED  BY <1>1, <1>2, <4>2, <4>3 DEF OnlyNeededReads, RecordOK
    <3> QED  BY <3>1, <3>2 DEF ReadsStayInside
  <2>11. TypeInv'
    BY <1>1, <1>2, <2>7, <2>8, <2>9 DEF TypeInv
  <2>12. /\ \A i \in 1 .. Len(bytes') : bytes'[i][2] = DriverOffsets(record, blockSize)[i]
         /\ changes = 0 => \A i \in 1 .. Len(bytes') : bytes'[i][1] = medium.label
    <3> HIDE DEF taken
    <3> SUFFICES ASSUME NEW i \in 1 .. Len(bytes')
                 PROVE  /\ bytes'[i][2] = DriverOffsets(record, blockSize)[i]
                        /\ changes = 0 => bytes'[i][1] = medium.label
      OBVIOUS
    <3>1. CASE i \in 1 .. Len(bytes)
      BY <1>2, <2>9, <3>1 DEF BytesOK
    <3>2. CASE i \notin 1 .. Len(bytes)
      <4>1. PICK j \in 1 .. taken : i = Len(bytes) + j
        <5>1. i - Len(bytes) \in 1 .. taken /\ i = Len(bytes) + (i - Len(bytes))
          BY <2>1, <2>3, <2>9, <3>2
        <5> QED  BY <5>1
      <4> QED  BY <2>3, <2>9, <4>1
    <3> QED  BY <3>1, <3>2
  <2>13. /\ turn.index + 1 < turn.needed =>
              /\ taken = blockSize
              /\ TurnFits([turn EXCEPT !.index = @ + 1], record, blockSize, Len(bytes) + taken)
         /\ turn.index + 1 >= turn.needed =>
              \/ taken = missing
              \/ /\ taken = blockSize /\ turn.extent < Len(record.extents)
                 /\ Len(bytes) + taken = Held(record.extents, blockSize)[turn.extent]
                 /\ Len(bytes) + taken < record.length
    <3>1. record.length <= Held(record.extents, blockSize)[Len(record.extents)]
      BY <1>2 DEF RecordOK
    <3> QED  BY <2>1, <2>2, <3>1, TurnAdvances
  <2>14. turn.index \in Nat /\ turn.needed \in Nat /\ Len(record.extents) \in Nat
    BY <2>1, <2>2, TurnIsTyped
  <2> HIDE DEF taken, missing
  <2>15. ASSUME turn.index + 1 < turn.needed
         PROVE  next # None /\ taken = blockSize /\ TurnFits(next, record, blockSize, Len(bytes'))
    <3>1. next = [turn EXCEPT !.index = @ + 1]
      BY <2>15 DEF next, NextTurn
    <3>2. taken = blockSize /\ TurnFits(next, record, blockSize, Len(bytes'))
      BY <2>9, <2>13, <2>15, <3>1
    <3>3. next # None
      BY <3>2, NoneAssumption DEF TurnFits
    <3> QED  BY <3>2, <3>3
  <2>16. ASSUME ~ turn.index + 1 < turn.needed, taken = missing
         PROVE  next = None /\ Len(bytes') = record.length
    <3>1. missing - taken = 0
      BY <2>3, <2>16
    <3>2. next = None
      BY <2>16, <3>1 DEF next, NextTurn
    <3>3. Len(bytes') = record.length
      <4>1. Len(bytes) + (record.length - Len(bytes)) = record.length
        BY <2>1
      <4> QED  BY <2>9, <2>16, <4>1 DEF missing
    <3> QED  BY <3>2, <3>3
  <2>17. ASSUME ~ turn.index + 1 < turn.needed, taken # missing
         PROVE  next # None /\ taken = blockSize /\ TurnFits(next, record, blockSize, Len(bytes'))
    <3> DEFINE n == turn.extent + 1
    <3>1. /\ taken = blockSize /\ turn.extent < Len(record.extents)
          /\ Len(bytes') = Held(record.extents, blockSize)[turn.extent]
          /\ Len(bytes') < record.length
      BY <2>9, <2>13, <2>14, <2>17
    <3>2. /\ n \in 1 .. Len(record.extents) /\ n - 1 = turn.extent
          /\ turn.extent # Len(record.extents)
      BY <2>4, <2>14, <3>1
    <3>3. missing - taken = record.length - Len(bytes') /\ missing - taken # 0
      <4>1. \A length, count, more \in Nat :
              length - count - more = length - (count + more)
        OBVIOUS
      <4>2. /\ record.length \in Nat /\ Len(bytes) \in Nat /\ taken \in Nat
            /\ Len(bytes') = Len(bytes) + taken
        BY <2>1, <2>3, <2>9, <3>1
      <4>3. missing - taken = record.length - Len(bytes')
        BY ONLY <4>1, <4>2 DEF missing
      <4>4. record.length - Len(bytes') # 0
        BY ONLY <3>1, <4>2
      <4> QED  BY ONLY <4>3, <4>4
    <3>4. next = TurnsThrough(n, record, missing - taken)
      BY <2>17, <3>2, <3>3 DEF next, NextTurn
    <3>5. record.extents[n].count # 0
      BY <1>2, <3>2 DEF RecordOK
    <3> HIDE DEF n
    <3>6. TurnFits(next, record, blockSize, Len(bytes'))
      <4> DEFINE have == Held(record.extents, blockSize)[n - 1]
                 t == [extent |-> n, index |-> 0,
                       needed |-> LeastOf(record.extents[n].count,
                                          (record.length - have + blockSize - 1) \div blockSize)]
      <4>1. have = Len(bytes') /\ have < record.length
        BY <3>1, <3>2
      <4>2. TurnFits(t, record, blockSize, have)
        <5>1. Held(record.extents, blockSize)[n - 1] < record.length
          BY <4>1
        <5> QED  BY <2>1, <3>2, <3>5, <5>1, TurnsBegin
      <4>3. next = t
        BY <3>3, <3>4, <4>1 DEF TurnsThrough
      <4> HIDE DEF t, have
      <4> QED  BY <4>1, <4>2, <4>3
    <3>7. next # None
      BY <3>6, NoneAssumption DEF TurnFits
    <3> QED  BY <3>1, <3>6, <3>7
  <2>18. /\ next # None => taken = blockSize /\ TurnFits(next, record, blockSize, Len(bytes'))
         /\ next = None => Len(bytes') = record.length
    BY <2>15, <2>16, <2>17
  <2>19. phase' = "driver" =>
           /\ SizeOK' /\ SuperOK' /\ RecordOK' /\ TurnOK' /\ BytesOK'
           /\ Len(reads') >= 3 /\ (Len(reads') - 3) * blockSize' = Len(bytes')
    <3> SUFFICES ASSUME phase' = "driver"
                 PROVE  /\ SizeOK' /\ SuperOK' /\ RecordOK' /\ TurnOK' /\ BytesOK'
                        /\ Len(reads') >= 3 /\ (Len(reads') - 3) * blockSize' = Len(bytes')
      OBVIOUS
    <3>1. taken = blockSize /\ TurnFits(turn', record, blockSize, Len(bytes'))
      BY <2>7, <2>18
    <3>2. Held(record.extents, blockSize)' = Held(record.extents, blockSize)
      BY <1>1, Zenon
    <3>3. SizeOK' /\ SuperOK'
      BY <1>1, <1>2 DEF SizeOK, SuperOK
    <3>4. RecordOK'
      BY <1>1, <1>2, <3>2 DEF RecordOK
    <3>5. TurnOK'
      BY <1>1, <3>1, <3>2 DEF TurnOK, TurnFits
    <3>6. BytesOK'
      <4>1. DriverOffsets(record, blockSize)' = DriverOffsets(record, blockSize)
        BY <1>1, Zenon
      <4> QED  BY <1>1, <2>12, <4>1 DEF BytesOK
    <3>7. Len(reads') >= 3 /\ (Len(reads') - 3) * blockSize' = Len(bytes')
      <4> DEFINE before == Len(reads) - 3
      <4>1. before \in Nat /\ Len(reads') - 3 = before + 1 /\ Len(reads') >= 3
        BY <1>2, <2>8
      <4>2. Len(bytes') = before * blockSize + blockSize
        BY <1>2, <2>9, <3>1
      <4> HIDE DEF before
      <4>3. (before + 1) * blockSize = before * blockSize + blockSize
        BY <2>1, <4>1
      <4>4. (Len(reads') - 3) * blockSize' = (before + 1) * blockSize
        BY <1>1, <4>1
      <4> QED  BY <4>1, <4>2, <4>3, <4>4
    <3> QED  BY <3>3, <3>4, <3>5, <3>6, <3>7
  <2>20. DriverIsWhole'
    <3> SUFFICES ASSUME result' = "Ok"
                 PROVE  DriverIsWhole'
      BY DEF DriverIsWhole
    <3>1. Len(bytes') = record.length
      BY <2>7, <2>18
    <3>2. [i \in DOMAIN bytes' |-> bytes'[i][2]] = DriverOffsets(record, blockSize)
      <4>1. DriverOffsets(record, blockSize)
              = [i \in 1 .. record.length |-> DriverOffsets(record, blockSize)[i]]
        BY DEF DriverOffsets
      <4>2. \A i \in 1 .. record.length :
              bytes'[i][2] = DriverOffsets(record, blockSize)[i]
        BY <2>12, <3>1
      <4>3. DOMAIN bytes' = 1 .. record.length
        BY <2>9, <3>1
      <4> QED  BY <4>1, <4>2, <4>3
    <3>3. changes' = 0 =>
            /\ super' = medium'.super
            /\ record' = medium'.records[super'.jumpstart * super'.blockSize]
            /\ \A i \in DOMAIN bytes' : bytes'[i][1] = medium'.label
      BY <1>1, <1>2, <2>1, <2>9, <2>12 DEF SuperOK, RecordOK
    <3>4. DriverOffsets(record, super.blockSize)' = DriverOffsets(record, blockSize)
      <4>1. record' = record /\ super'.blockSize = blockSize
        BY <1>1, <2>1
      <4> QED  BY <4>1
    <3> QED  BY <3>2, <3>3, <3>4 DEF DriverIsWhole
  <2>21. phase' \in {"driver", "done"} /\ (phase' # "done" => result' = "running")
    BY <2>7
  <2> QED  BY <2>10, <2>11, <2>19, <2>20, <2>21 DEF JumpstartInv
<1> QED  BY <1>3, <1>4

LEMMA StutterKeeps == JumpstartInv /\ UNCHANGED jumpstartVars => JumpstartInv'
<1> SUFFICES ASSUME JumpstartInv, UNCHANGED jumpstartVars
             PROVE  JumpstartInv'
  OBVIOUS
<1>1. UNCHANGED <<asked, medium, changes, phase, blockSize, prefix, super, record, turn, bytes,
                  reads, result>>
  BY DEF jumpstartVars
<1>2. TypeInv'
  BY <1>1 DEF JumpstartInv, TypeInv
<1>3. ReadsStayInside'
  BY <1>1 DEF JumpstartInv, ReadsStayInside, OneGeometry, OnlyNeededReads
<1>4. (SizeOK => SizeOK') /\ (SuperOK => SuperOK') /\ (RecordOK => RecordOK')
        /\ (TurnOK => TurnOK') /\ (BytesOK => BytesOK')
  <2>1. /\ Held(record.extents, blockSize)' = Held(record.extents, blockSize)
        /\ DriverOffsets(record, blockSize)' = DriverOffsets(record, blockSize)
    BY <1>1, Zenon
  <2>2. (SizeOK => SizeOK') /\ (SuperOK => SuperOK')
    BY <1>1 DEF SizeOK, SuperOK
  <2>3. RecordOK => RecordOK'
    BY <1>1, <2>1 DEF RecordOK
  <2>4. TurnOK => TurnOK'
    BY <1>1, <2>1 DEF TurnOK, TurnFits
  <2>5. BytesOK => BytesOK'
    BY <1>1, <2>1 DEF BytesOK
  <2> QED  BY <2>2, <2>3, <2>4, <2>5
<1>5. DriverIsWhole'
  <2>1. DriverOffsets(record, super.blockSize)' = DriverOffsets(record, super.blockSize)
    BY <1>1, Zenon
  <2> QED  BY <1>1, <2>1 DEF JumpstartInv, DriverIsWhole
<1> QED  BY <1>1, <1>2, <1>3, <1>4, <1>5 DEF JumpstartInv

\* Whatever the source does between two reads, what a jumpstart has accepted and
\* read fits together (extract_driver()).
THEOREM JumpstartIsInv == JumpstartSpec => []JumpstartInv
<1>1. JumpstartInv /\ [JumpstartNext]_jumpstartVars => JumpstartInv'
  <2> SUFFICES ASSUME JumpstartInv, [JumpstartNext]_jumpstartVars
               PROVE  JumpstartInv'
    OBVIOUS
  <2>1. CASE ReadPrefix
    BY <2>1, ReadPrefixKeeps
  <2>2. CASE ReadSuper
    BY <2>2, ReadSuperKeeps
  <2>3. CASE ReadRecord
    BY <2>3, ReadRecordKeeps
  <2>4. CASE ReadDriver
    BY <2>4, ReadDriverKeeps
  <2>5. CASE ReadFails
    BY <2>5, ReadFailsKeeps
  <2>6. CASE Replace
    BY <2>6, ReplaceKeeps
  <2>7. CASE UNCHANGED jumpstartVars
    BY <2>7, StutterKeeps
  <2> QED  BY <2>1, <2>2, <2>3, <2>4, <2>5, <2>6, <2>7 DEF JumpstartNext
<1> QED  BY <1>1, JumpstartStarts, PTL DEF JumpstartSpec

\* No read leaves what was accepted before it, and none is made that the driver
\* does not need (read_bounded(), block_range()).
THEOREM ReadsAreInside == JumpstartSpec => []ReadsStayInside
<1>1. JumpstartInv => ReadsStayInside
  BY DEF JumpstartInv
<1> QED  BY <1>1, JumpstartIsInv, PTL

\* A jumpstart that succeeds returns the whole driver of the record it accepted,
\* and without a change of the source only bytes of its own (extract_driver()).
THEOREM DriversAreWhole == JumpstartSpec => []DriverIsWhole
<1>1. JumpstartInv => DriverIsWhole
  BY DEF JumpstartInv
<1> QED  BY <1>1, JumpstartIsInv, PTL

-----------------------------------------------------------------------------
(* The picker *)

\* Two refusals in a row are passed only when neither condition holds.
LEMMA NeitherRefuses ==
  ASSUME NEW p \in BOOLEAN, NEW q \in BOOLEAN,
         FirstRefusal(<< <<p, "Dimensions">>, <<q, "Selection">> >>) = "Ok"
  PROVE  ~ p /\ ~ q
<1> DEFINE rules == << <<p, "Dimensions">>, <<q, "Selection">> >>
<1>1. /\ DOMAIN rules = 1 .. 2 /\ rules[1][1] = p /\ rules[2][1] = q
      /\ rules[1][2] = "Dimensions" /\ rules[2][2] = "Selection"
  OBVIOUS
<1> HIDE DEF rules
<1>2. \A i \in DOMAIN rules : rules[i][2] # "Ok"
  BY <1>1
<1>3. \A i \in DOMAIN rules : ~ rules[i][1]
  BY <1>1, <1>2, NothingRefused DEF rules
<1> QED  BY <1>1, <1>3

\* What a call of render() that is not refused was given.
LEMMA AcceptedView ==
  ASSUME NEW width \in Nat, NEW height \in Nat, NEW count \in Nat, NEW chosen \in Nat,
         ViewCheck(width, height, count, chosen) = "Ok"
  PROVE  /\ 640 <= width /\ width <= 4096
         /\ 480 <= height /\ height <= 2160
         /\ 1 <= count /\ count <= 64 /\ chosen < count
<1> DEFINE p == width < 640 \/ height < 480 \/ width > 4096 \/ height > 2160
           q == count = 0 \/ count > 64 \/ chosen >= count
<1>1. p \in BOOLEAN /\ q \in BOOLEAN
  OBVIOUS
<1>2. FirstRefusal(<< <<p, "Dimensions">>, <<q, "Selection">> >>) = "Ok"
  BY DEF ViewCheck
<1>3. ~ p /\ ~ q
  <2> HIDE DEF p, q
  <2> QED  BY <1>1, <1>2, NeitherRefuses
<1> QED  BY <1>3

\* There is room for tiles of their full width, for as many as the code draws.
LEMMA RowFits ==
  ASSUME NEW width \in Nat, NEW count \in Nat, 640 <= width, 1 <= count
  PROVE  LET v == Visible(width, count)
             row == v * 280 + (v - 1) * 20
         IN  /\ v \in 1 .. 3 /\ v <= count
             /\ TileWidth(width, count) = 280
             /\ RowStart(width, count) \in Nat
             /\ Pad(width) <= RowStart(width, count)
             /\ RowStart(width, count) + row <= width - Pad(width)
<1> DEFINE v == Visible(width, count)
           row == v * 280 + (v - 1) * 20
<1>1. /\ v \in 1 .. 3 /\ v <= count
      /\ v = 2 => 740 <= width
      /\ v = 3 => 1080 <= width
  BY DEF Visible, Least
<1>2. Pad(width) \in {32, 56} /\ (Pad(width) = 56 => 900 <= width)
  BY DEF Pad
<1>3. TileWidth(width, count) = 280
  <2>1. CASE v = 1
    BY <2>1, <1>2 DEF TileWidth, Least, Gap
  <2>2. CASE v = 2
    BY <2>2, <1>1, <1>2 DEF TileWidth, Least, Gap
  <2>3. CASE v = 3
    BY <2>3, <1>1, <1>2 DEF TileWidth, Least, Gap
  <2> QED  BY <1>1, <2>1, <2>2, <2>3
<1>4. RowStart(width, count) = (width - row) \div 2
  BY <1>3 DEF RowStart, Gap
<1>5. row \in {280, 580, 880} /\ 2 * Pad(width) + row <= width
  BY <1>1, <1>2
<1>6. ASSUME NEW a \in Int
      PROVE  a \div 2 \in Int /\ 2 * (a \div 2) <= a /\ a <= 2 * (a \div 2) + 1
  BY <1>6
<1>7. /\ (width - row) \div 2 \in Int
      /\ 2 * ((width - row) \div 2) <= width - row
      /\ width - row <= 2 * ((width - row) \div 2) + 1
  BY <1>5, <1>6
<1> HIDE DEF row
<1>8. \A s \in Int : (2 * s <= width - row /\ width - row <= 2 * s + 1)
                       => s \in Nat /\ Pad(width) <= s /\ s + row <= width - Pad(width)
  BY <1>2, <1>5
<1> QED  BY <1>1, <1>3, <1>4, <1>7, <1>8 DEF row

\* A key never leaves the menu (navigate), from any entry of any menu.
THEOREM MovesStayInTheMenu ==
  ASSUME NEW count \in Nat, NEW chosen \in Nat, chosen < count,
         NEW action \in Actions
  PROVE  Move(chosen, count, action) \in 0 .. count - 1
<1>1. (chosen + 1) % count \in 0 .. count - 1
  OBVIOUS
<1> QED  BY <1>1 DEF Move, Actions

\* Whoever obeys update() never shows an entry that Enter does not boot: a move
\* that is not told to be a change leaves the selection where it was.
THEOREM UnchangedMeansUnmoved ==
  ASSUME NEW count \in Nat, NEW chosen \in Nat, NEW action \in Actions,
         Update(chosen, count, action) = "Unchanged"
  PROVE  Move(chosen, count, action) = chosen /\ chosen < count
BY DEF Update, Actions

\* Every picture that render() draws is sound: for every screen it accepts, every
\* number of entries and every selection, the window holds the selected entry,
\* and no tile leaves the screen or touches another one.
THEOREM PicturesStaySound ==
  ASSUME NEW width \in Nat, NEW height \in Nat, NEW count \in Nat, NEW chosen \in Nat,
         ViewCheck(width, height, count, chosen) = "Ok"
  PROVE  WindowIsSound(Render(width, height, count, chosen), width, height, count, chosen)
<1> DEFINE v == Visible(width, count)
           first == First(width, count, chosen)
           start == RowStart(width, count)
           tiles == Render(width, height, count, chosen)
<1>1. /\ 640 <= width /\ 480 <= height /\ 1 <= count /\ chosen < count
  BY AcceptedView
<1>2. /\ v \in 1 .. 3 /\ v <= count
      /\ TileWidth(width, count) = 280
      /\ start \in Nat /\ Pad(width) \in Nat
      /\ Pad(width) <= start
      /\ start + (v * 280 + (v - 1) * 20) <= width - Pad(width)
  BY <1>1, RowFits DEF Pad
<1>3. first \in Nat /\ first <= chosen /\ chosen < first + v /\ first + v <= count
  <2> HIDE DEF v
  <2>1. v \div 2 \in {0, 1} /\ v \div 2 < v
    BY <1>2
  <2>2. first = Least(Minus(chosen, v \div 2), count - v)
    BY DEF First, v
  <2>3. \A h \in {0, 1} : h < v =>
          LET f == Least(Minus(chosen, h), count - v)
          IN  f \in Nat /\ f <= chosen /\ (chosen < f + v) /\ f + v <= count
    BY <1>1, <1>2 DEF Least, Minus
  <2> HIDE DEF first
  <2> QED  BY <2>1, <2>2, <2>3
<1>4. /\ TitleEnd(height) <= TileTop(height)
      /\ TileTop(height) + TileHeight(height) <= FooterRule(height)
  BY <1>1 DEF TitleEnd, TileTop, TileHeight, FooterRule
<1>5. /\ DOMAIN tiles = 1 .. v
      /\ \A n \in 1 .. v :
           /\ tiles[n].index = first + n - 1
           /\ tiles[n].active = (first + n - 1 = chosen)
           /\ tiles[n].left = start + (n - 1) * 300
           /\ tiles[n].right = start + (n - 1) * 300 + 280
           /\ tiles[n].top = TileTop(height)
           /\ tiles[n].bottom = TileTop(height) + TileHeight(height)
  BY <1>2 DEF Render, TileLeft, Gap
<1> HIDE DEF v, first, start, tiles
<1>6. \A n \in 1 .. v : first + n - 1 \in 0 .. count - 1
  BY <1>1, <1>2, <1>3
<1>7. \A n \in DOMAIN tiles :
        /\ tiles[n].index \in 0 .. count - 1
        /\ tiles[n].active <=> tiles[n].index = chosen
  <2> SUFFICES ASSUME NEW n \in 1 .. v
               PROVE  /\ tiles[n].index \in 0 .. count - 1
                      /\ tiles[n].active <=> tiles[n].index = chosen
    BY <1>5, Zenon
  <2>1. tiles[n].index = first + n - 1 /\ tiles[n].active = (first + n - 1 = chosen)
    BY <1>5
  <2> QED  BY <1>6, <2>1, Zenon
<1>8. \A n \in DOMAIN tiles :
        Pad(width) <= tiles[n].left /\ tiles[n].right <= width - Pad(width)
  <2> SUFFICES ASSUME NEW n \in 1 .. v
               PROVE  Pad(width) <= tiles[n].left /\ tiles[n].right <= width - Pad(width)
    BY <1>5, Zenon
  <2>1. tiles[n].left = start + (n - 1) * 300 /\ tiles[n].right = start + (n - 1) * 300 + 280
    BY ONLY <1>5
  <2>2. PICK pad \in Nat : pad = Pad(width)
    BY <1>2
  <2>3. /\ pad <= start /\ start \in Nat /\ v \in 1 .. 3
        /\ start + (v * 280 + (v - 1) * 20) <= width - pad
    BY <1>2, <2>2
  <2>4. pad <= start + (n - 1) * 300 /\ start + (n - 1) * 300 + 280 <= width - pad
    BY ONLY <2>2, <2>3, n \in 1 .. v, width \in Nat
  <2> QED  BY ONLY <2>1, <2>2, <2>4
<1>9. \A m, n \in DOMAIN tiles : m < n =>
        tiles[m].index < tiles[n].index /\ tiles[m].right + Gap <= tiles[n].left
  <2> SUFFICES ASSUME NEW m \in 1 .. v, NEW n \in 1 .. v, m < n
               PROVE  tiles[m].index < tiles[n].index /\ tiles[m].right + Gap <= tiles[n].left
    BY <1>5
  <2>1. first + m - 1 < first + n - 1
    BY <1>2, <1>3
  <2>2. start + (m - 1) * 300 + 280 + 20 <= start + (n - 1) * 300
    BY <1>2
  <2> QED  BY <1>5, <2>1, <2>2 DEF Gap
<1>10. \E n \in DOMAIN tiles : tiles[n].active
  <2> DEFINE n == chosen - first + 1
  <2>1. n \in 1 .. v /\ first + n - 1 = chosen
    BY <1>1, <1>2, <1>3
  <2> HIDE DEF n
  <2>2. n \in DOMAIN tiles /\ tiles[n].active = (first + n - 1 = chosen)
    BY <1>5, <2>1
  <2> QED  BY <2>1, <2>2, Zenon
<1>11. WindowIsSound(tiles, width, height, count, chosen)
  BY <1>4, <1>5, <1>7, <1>8, <1>9, <1>10 DEF WindowIsSound
<1> QED  BY <1>11 DEF tiles

-----------------------------------------------------------------------------
(* Startup images: the files *)

\* What is assumed of a companion.
IsFile(file) ==
  /\ DOMAIN file.commands \subseteq Nat /\ IsFiniteSet(DOMAIN file.commands)
  /\ \A i \in DOMAIN file.commands : file.commands[i].kind = "segment" =>
       LET s == file.commands[i] IN
       {s.vmaddr, s.vmsize, s.fileoff, s.filesize} \subseteq 0 .. MaxPointer

\* The order of the segments: by address, and by their place in the file.
Precedes(file, j, i) ==
  \/ file.commands[j].vmaddr < file.commands[i].vmaddr
  \/ file.commands[j].vmaddr = file.commands[i].vmaddr /\ j < i

Below(file, i) == {j \in Of(file, "segment") : Precedes(file, j, i)}

\* The numbers of a segment command.
LEMMA SegmentsHoldWords ==
  ASSUME NEW file, IsFile(file)
  PROVE  LET all == Of(file, "segment") IN
         /\ all \subseteq Nat /\ IsFiniteSet(all) /\ Cardinality(all) \in Nat
         /\ \A i \in all : /\ file.commands[i].vmaddr \in Nat
                           /\ file.commands[i].vmsize \in Nat
                           /\ file.commands[i].fileoff \in Nat
                           /\ file.commands[i].filesize \in Nat
<1>1. Of(file, "segment") \subseteq DOMAIN file.commands
  BY DEF Of
<1>2. Of(file, "segment") \subseteq Nat /\ IsFiniteSet(Of(file, "segment"))
  BY <1>1, FS_Subset DEF IsFile
<1>3. MaxPointer \in Nat
  BY StartupAssumption
<1> QED  BY <1>2, <1>3, FS_CardinalityType DEF IsFile, Of

\* Counting what precedes a segment numbers all segments, in their order.
LEMMA RanksNumberSegments ==
  ASSUME NEW file, IsFile(file)
  PROVE  LET all == Of(file, "segment")
             Rank(i) == Cardinality(Below(file, i))
         IN  /\ \A i \in all : Rank(i) \in 0 .. Cardinality(all) - 1
             /\ \A i, j \in all : Precedes(file, i, j) => Rank(i) < Rank(j)
             /\ \A n \in 0 .. Cardinality(all) - 1 : \E i \in all : Rank(i) = n
<1> DEFINE all == Of(file, "segment")
           Rank(i) == Cardinality(Below(file, i))
           c == Cardinality(all)
<1>1. /\ all \subseteq Nat /\ IsFiniteSet(all) /\ c \in Nat
      /\ \A i \in all : file.commands[i].vmaddr \in Nat
  BY SegmentsHoldWords
<1>2. \A i \in all : IsFiniteSet(Below(file, i)) /\ Rank(i) \in Nat
  <2> TAKE i \in all
  <2>1. Below(file, i) \subseteq all
    BY DEF Below
  <2> QED  BY <1>1, <2>1, FS_Subset, FS_CardinalityType
<1>3. \A i \in all : Rank(i) \in 0 .. c - 1
  <2> TAKE i \in all
  <2>1. Below(file, i) \subseteq all /\ i \notin Below(file, i)
    BY <1>1 DEF Below, Precedes
  <2>2. Rank(i) <= c /\ (c = Rank(i) => all = Below(file, i))
    BY <1>1, <2>1, FS_Subset
  <2> QED  BY <1>1, <1>2, <2>1, <2>2
<1>4. \A i, j \in all : Precedes(file, i, j) => Rank(i) < Rank(j)
  <2> SUFFICES ASSUME NEW i \in all, NEW j \in all, Precedes(file, i, j)
               PROVE  Rank(i) < Rank(j)
    OBVIOUS
  <2>1. Below(file, i) \subseteq Below(file, j)
    BY <1>1 DEF Below, Precedes
  <2>2. i \in Below(file, j) /\ i \notin Below(file, i)
    BY <1>1 DEF Below, Precedes
  <2>3. Rank(i) <= Rank(j) /\ (Rank(j) = Rank(i) => Below(file, j) = Below(file, i))
    BY <1>2, <2>1, FS_Subset
  <2> QED  BY <1>2, <2>2, <2>3
<1>5. \A n \in 0 .. c - 1 : \E i \in all : Rank(i) = n
  <2> DEFINE f == [i \in all |-> Rank(i)]
  <2>1. f \in [all -> 0 .. c - 1]
    BY <1>3
  <2>2. \A i, j \in all : f[i] = f[j] => i = j
    <3> SUFFICES ASSUME NEW i \in all, NEW j \in all, i # j
                 PROVE  Rank(i) # Rank(j)
      OBVIOUS
    <3>1. Precedes(file, i, j) \/ Precedes(file, j, i)
      BY <1>1 DEF Precedes
    <3> QED  BY <1>2, <1>4, <3>1
  <2>3. f \in Injection(all, 0 .. c - 1)
    BY <2>1, <2>2 DEF Injection, IsInjective
  <2>4. IsFiniteSet(0 .. c - 1) /\ Cardinality(0 .. c - 1) = c
    <3>1. 0 \in Int /\ c - 1 \in Int /\ c \in Nat
      BY <1>1
    <3>2. /\ IsFiniteSet(0 .. c - 1)
          /\ Cardinality(0 .. c - 1) = IF 0 > c - 1 THEN 0 ELSE c - 1 - 0 + 1
      BY ONLY <3>1, FS_Interval, Zenon
    <3> QED  BY ONLY <3>1, <3>2
  <2> HIDE DEF f
  <2>5. f \in Surjection(all, 0 .. c - 1)
    BY <2>3, <2>4, FS_Injection
  <2>6. \A n \in 0 .. c - 1 : \E i \in all : f[i] = n
    BY <2>5 DEF Surjection
  <2> QED  BY <2>6 DEF f
<1> QED  BY <1>3, <1>4, <1>5

\* Sorted() lists every segment once, by address.
LEMMA SortedListsSegments ==
  ASSUME NEW file, IsFile(file)
  PROVE  LET all == Of(file, "segment")
             segments == Sorted(file)
         IN  /\ DOMAIN segments = 1 .. Cardinality(all)
             /\ Len(segments) = Cardinality(all) /\ Len(segments) \in Nat
             /\ \A n \in 1 .. Len(segments) : \E i \in all : segments[n] = file.commands[i]
             /\ \A i \in all : \E n \in 1 .. Len(segments) : segments[n] = file.commands[i]
             /\ \A m, n \in 1 .. Len(segments) :
                  m < n => segments[m].vmaddr <= segments[n].vmaddr
<1> DEFINE all == Of(file, "segment")
           segments == Sorted(file)
           c == Cardinality(all)
           Rank(i) == Cardinality(Below(file, i))
           At(n) == CHOOSE i \in all : Rank(i) = n - 1
<1>1. /\ all \subseteq Nat /\ c \in Nat
      /\ \A i \in all : file.commands[i].vmaddr \in Nat
  BY SegmentsHoldWords
<1>2. /\ \A i \in all : Rank(i) \in 0 .. c - 1
      /\ \A i, j \in all : Precedes(file, i, j) => Rank(i) < Rank(j)
      /\ \A n \in 0 .. c - 1 : \E i \in all : Rank(i) = n
  BY RanksNumberSegments
<1>3. segments = [n \in 1 .. c |-> file.commands[At(n)]]
  BY DEF Sorted, Below, Precedes
<1>4. \A n \in 1 .. c : At(n) \in all /\ Rank(At(n)) = n - 1
  <2> TAKE n \in 1 .. c
  <2>1. n - 1 \in 0 .. c - 1
    BY <1>1
  <2>2. \E i \in all : Rank(i) = n - 1
    BY <1>2, <2>1
  <2> QED  BY <2>2
<1>5. DOMAIN segments = 1 .. c /\ Len(segments) = c /\ Len(segments) \in Nat
  <2> HIDE DEF segments, At, c
  <2> QED  BY <1>1, <1>3
<1> HIDE DEF segments, Rank, At, c
<1>6. \A n \in 1 .. c : segments[n] = file.commands[At(n)]
  BY <1>3
<1>7. \A i, j \in all : Rank(i) = Rank(j) => i = j
  <2> SUFFICES ASSUME NEW i \in all, NEW j \in all, i # j
               PROVE  Rank(i) # Rank(j)
    OBVIOUS
  <2>1. Precedes(file, i, j) \/ Precedes(file, j, i)
    BY <1>1 DEF Precedes
  <2> QED  BY <1>1, <1>2, <2>1
<1>8. \A i \in all : \E n \in 1 .. c : segments[n] = file.commands[i]
  <2> TAKE i \in all
  <2>1. Rank(i) + 1 \in 1 .. c /\ (Rank(i) + 1) - 1 = Rank(i)
    BY <1>1, <1>2
  <2>2. At(Rank(i) + 1) = i
    BY <1>4, <1>7, <2>1
  <2> QED  BY <1>6, <2>1, <2>2
<1>9. \A m, n \in 1 .. c : m < n => segments[m].vmaddr <= segments[n].vmaddr
  <2> SUFFICES ASSUME NEW m \in 1 .. c, NEW n \in 1 .. c, m < n
               PROVE  file.commands[At(m)].vmaddr <= file.commands[At(n)].vmaddr
    BY <1>6
  <2>1. At(m) \in all /\ At(n) \in all /\ Rank(At(m)) < Rank(At(n))
    BY <1>4
  <2>2. ~ Precedes(file, At(n), At(m))
    BY <1>1, <1>2, <2>1
  <2> QED  BY <1>1, <2>1, <2>2 DEF Precedes
<1>10. \A n \in 1 .. c : \E i \in all : segments[n] = file.commands[i]
  BY <1>4, <1>6
<1> QED  BY <1>5, <1>8, <1>9, <1>10 DEF c, segments

\* What the checks of one segment command leave.
LEMMA CheckedSegment ==
  ASSUME NEW file, NEW i \in Of(file, "segment"), CommandCheck(file, i) = "Ok"
  PROVE  LET s == file.commands[i]
         IN  s.vmsize # 0 /\ ~ (s.filesize > s.vmsize) /\ ~ (VmEnd(s) > MaxPointer)
<1> DEFINE s == file.commands[i]
<1>1. s.kind = "segment"
  BY DEF Of
<1>2. SegmentCheck(file, i) = "Ok"
  BY <1>1 DEF CommandCheck
<1> QED  BY <1>2 DEF SegmentCheck

\* What parse_image() leaves of an image.
ImageHolds(file) ==
  LET segments == Sorted(file)
      last == Len(segments)
      base == VirtualBase(segments)
  IN  /\ last \in Nat \ {0}
      /\ \A n \in 1 .. last :
           LET s == segments[n] IN
           /\ {s.vmaddr, s.vmsize, s.fileoff, s.filesize} \subseteq Nat
           /\ 0 < s.vmsize /\ s.filesize <= s.vmsize
      /\ \A m, n \in 1 .. last : m < n => VmEnd(segments[m]) <= segments[n].vmaddr
      /\ base \in Nat /\ base % PageSize = 0
      /\ Span(segments) \in Nat /\ Span(segments) % PageSize = 0
      /\ \A n \in 1 .. last :
           base <= segments[n].vmaddr /\ VmEnd(segments[n]) <= base + Span(segments)

\* An image that parse_image() accepts has segments that lie apart, in their
\* order, in a span of whole pages.
THEOREM ParsedImage ==
  ASSUME NEW file, IsFile(file), ParseCheck(file) = "Ok"
  PROVE  ImageHolds(file)
<1> DEFINE all == Of(file, "segment")
           segments == Sorted(file)
           last == Len(segments)
           failed == \E i \in DOMAIN file.commands : CommandCheck(file, i) # "Ok"
           failure == FirstError([i \in DOMAIN file.commands |-> CommandCheck(file, i)])
<1>1. ~ failed /\ LayoutCheck(file) = "Ok"
  <2>1. failed => failure # "Ok"
    <3> DEFINE checks == [i \in DOMAIN file.commands |-> CommandCheck(file, i)]
    <3>1. DOMAIN checks \subseteq Nat
      BY DEF IsFile
    <3>2. FirstError(checks) = "Ok" => \A i \in DOMAIN checks : checks[i] = "Ok"
      <4> HIDE DEF checks
      <4> QED  BY <3>1, NothingFailed
    <3> QED  BY <3>2
  <2> DEFINE p1 == file.length > MaxFile
             p2 == file.head # "Ok"
             p3 == HeaderBytes + file.commandBytes > file.length
             p5 == ~ file.closed
             p6 == SymbolsCheck(file) # "Ok"
             p7 == LayoutCheck(file) # "Ok"
  <2>2. /\ p1 \in BOOLEAN /\ p2 \in BOOLEAN /\ p3 \in BOOLEAN /\ failed \in BOOLEAN
        /\ p5 \in BOOLEAN /\ p6 \in BOOLEAN /\ p7 \in BOOLEAN
    OBVIOUS
  <2> DEFINE rules == <<<<p1, "LimitExceeded">>, <<p2, file.head>>, <<p3, "Truncated">>,
                       <<failed, failure>>, <<p5, "InvalidCommand">>,
                       <<p6, SymbolsCheck(file)>>, <<p7, LayoutCheck(file)>>>>
  <2>3. FirstRefusal(rules) = "Ok"
    BY DEF ParseCheck
  <2>4. (p2 => file.head # "Ok") /\ (p6 => SymbolsCheck(file) # "Ok")
          /\ (p7 => LayoutCheck(file) # "Ok")
    OBVIOUS
  <2> HIDE DEF p1, p2, p3, p5, p6, p7, failed, failure
  <2>5. DOMAIN rules = 1 .. 7
    OBVIOUS
  <2>6. rules[1][1] = p1 /\ rules[2][1] = p2 /\ rules[3][1] = p3 /\ rules[4][1] = failed
        /\ rules[5][1] = p5 /\ rules[6][1] = p6 /\ rules[7][1] = p7
    BY <2>2
  <2>7. rules[1][2] = "LimitExceeded" /\ rules[2][2] = file.head /\ rules[3][2] = "Truncated"
        /\ rules[4][2] = failure /\ rules[5][2] = "InvalidCommand"
        /\ rules[6][2] = SymbolsCheck(file) /\ rules[7][2] = LayoutCheck(file)
    OBVIOUS
  <2> HIDE DEF rules
  <2>8. \A i \in DOMAIN rules : rules[i][1] => rules[i][2] # "Ok"
    BY <2>1, <2>4, <2>5, <2>6, <2>7
  <2>9. \A i \in 1 .. 7 : ~ rules[i][1]
    BY <2>3, <2>5, <2>8, NothingRefused
  <2>10. ~ failed /\ ~ p7
    BY <2>6, <2>9
  <2> QED  BY <2>10 DEF failed, p7
<1>2. /\ segments # <<>>
      /\ ApartInMemory(segments)
      /\ ~ (VmEnd(segments[last]) + PageSize - 1 > MaxPointer)
      /\ Span(segments) # 0
  <2> DEFINE zero == Of(file, "pagezero")
             p1 == \E i \in zero : file.commands[i].vmsize > segments[1].vmaddr
             p2 == ~ \E n \in DOMAIN segments :
                       /\ segments[n].fileoff = 0
                       /\ segments[n].filesize >= HeaderBytes + file.commandBytes
             p3 == ~ ApartInMemory(segments)
             p4 == \E m, n \in DOMAIN segments : m # n /\ FilesMeet(segments[m], segments[n])
             p5 == VmEnd(segments[Len(segments)]) + PageSize - 1 > MaxPointer
             p6 == Span(segments) = 0 \/ Span(segments) > MaxImage
  <2> DEFINE rules == <<<<p1, "OverlappingRange">>, <<p2, "InvalidHeader">>,
                       <<p3, "OverlappingRange">>, <<p4, "OverlappingRange">>,
                       <<p5, "AddressOverflow">>, <<p6, "LimitExceeded">>>>
  <2>1. segments # <<>> /\ FirstRefusal(rules) = "Ok"
    BY <1>1 DEF LayoutCheck
  <2>2. /\ p1 \in BOOLEAN /\ p2 \in BOOLEAN /\ p3 \in BOOLEAN
        /\ p4 \in BOOLEAN /\ p5 \in BOOLEAN /\ p6 \in BOOLEAN
    BY DEF ApartInMemory
  <2> HIDE DEF p1, p2, p3, p4, p5, p6
  <2>3. DOMAIN rules = 1 .. 6
    OBVIOUS
  <2>4. /\ rules[1][1] = p1 /\ rules[2][1] = p2 /\ rules[3][1] = p3
        /\ rules[4][1] = p4 /\ rules[5][1] = p5 /\ rules[6][1] = p6
    BY <2>2
  <2>5. \A i \in 1 .. 6 : rules[i][2] # "Ok"
    OBVIOUS
  <2> HIDE DEF rules
  <2>6. \A i \in 1 .. 6 : ~ rules[i][1]
    BY <2>1, <2>3, <2>5, NothingRefused
  <2>7. ~ p3 /\ ~ p5 /\ ~ p6
    BY <2>4, <2>6
  <2> QED  BY <2>1, <2>7 DEF p3, p5, p6, last
<1>2b. last # 0
  <2>1. segments = [n \in 1 .. Cardinality(all) |-> segments[n]] /\ last = Cardinality(all)
        /\ Cardinality(all) \in Nat
    BY SortedListsSegments, SegmentsHoldWords DEF Sorted
  <2> HIDE DEF segments, last, all
  <2> QED  BY <1>2, <2>1
<1> HIDE DEF segments, last, failed, failure
<1>3. /\ DOMAIN segments = 1 .. last /\ last \in Nat
      /\ \A n \in 1 .. last : \E i \in all : segments[n] = file.commands[i]
      /\ \A m, n \in 1 .. last : m < n => segments[m].vmaddr <= segments[n].vmaddr
  BY SortedListsSegments DEF segments, last
<1>4. \A n \in 1 .. last :
        LET s == segments[n] IN
        /\ s.vmaddr \in Nat /\ s.vmsize \in Nat /\ s.fileoff \in Nat /\ s.filesize \in Nat
        /\ 0 < s.vmsize /\ s.filesize <= s.vmsize
  <2> TAKE n \in 1 .. last
  <2>1. PICK i \in all : segments[n] = file.commands[i]
    BY <1>3
  <2>2. CommandCheck(file, i) = "Ok"
    BY <1>1 DEF Of, failed
  <2>3. /\ file.commands[i].vmaddr \in Nat /\ file.commands[i].vmsize \in Nat
        /\ file.commands[i].fileoff \in Nat /\ file.commands[i].filesize \in Nat
    BY SegmentsHoldWords
  <2>4. file.commands[i].vmsize # 0 /\ ~ (file.commands[i].filesize > file.commands[i].vmsize)
    BY <2>2, CheckedSegment
  <2> HIDE DEF all
  <2> QED  BY <2>1, <2>3, <2>4
<1>5. last \in Nat \ {0} /\ 1 \in 1 .. last /\ last \in 1 .. last
  BY <1>2b, <1>3
<1>6. \A m, n \in 1 .. last : m < n => VmEnd(segments[m]) <= segments[n].vmaddr
  <2> SUFFICES ASSUME NEW m \in 1 .. last, NEW n \in 1 .. last, m < n
               PROVE  VmEnd(segments[m]) <= segments[n].vmaddr
    OBVIOUS
  <2>1. m \in 1 .. last - 1 /\ m + 1 \in 1 .. last
    BY <1>3
  <2>2. VmEnd(segments[m]) <= segments[m + 1].vmaddr
    BY <1>2, <2>1 DEF ApartInMemory, last
  <2>3. segments[m + 1].vmaddr <= segments[n].vmaddr
    <3>1. CASE m + 1 = n
      BY <1>4, <2>1, <3>1
    <3>2. CASE m + 1 < n
      BY <1>3, <2>1, <3>2
    <3> QED  BY <2>1, <3>1, <3>2
  <2>4. VmEnd(segments[m]) \in Nat /\ segments[m + 1].vmaddr \in Nat /\ segments[n].vmaddr \in Nat
    BY <1>4, <2>1 DEF VmEnd
  <2> QED  BY <2>2, <2>3, <2>4
<1>7. PageSize \in Nat \ {0}
  BY StartupAssumption
<1> DEFINE base == VirtualBase(segments)
           top == VmEnd(segments[last])
<1>8. base \in Nat /\ base % PageSize = 0 /\ base <= segments[1].vmaddr
  BY <1>4, <1>5, <1>7, RoundedDown DEF VirtualBase, AlignDown
<1>9. top \in Nat /\ AlignUp(top) \in Nat /\ AlignUp(top) % PageSize = 0 /\ top <= AlignUp(top)
  <2>1. top \in Nat
    BY <1>4, <1>5 DEF VmEnd
  <2> HIDE DEF top
  <2> QED  BY <2>1, <1>7, RoundedUp DEF AlignUp
<1>10. \A n \in 1 .. last : base <= segments[n].vmaddr /\ VmEnd(segments[n]) <= top
  <2> TAKE n \in 1 .. last
  <2>1. segments[1].vmaddr <= segments[n].vmaddr
    BY <1>3, <1>4, <1>5
  <2>2. VmEnd(segments[n]) <= top
    <3>1. CASE n = last
      BY <3>1, <1>9
    <3>2. CASE n < last
      <4>1. VmEnd(segments[n]) <= segments[last].vmaddr
        BY <1>5, <1>6, <3>2
      <4>2. segments[last].vmaddr <= top
        BY <1>4, <1>5 DEF VmEnd
      <4>3. VmEnd(segments[n]) \in Nat /\ segments[last].vmaddr \in Nat
        BY <1>4, <1>5 DEF VmEnd
      <4> HIDE DEF top
      <4> QED  BY <1>9, <4>1, <4>2, <4>3
    <3> QED  BY <1>5, <3>1, <3>2
  <2>3. segments[1].vmaddr \in Nat /\ segments[n].vmaddr \in Nat
    BY <1>4, <1>5
  <2> HIDE DEF base
  <2> QED  BY <1>8, <2>1, <2>2, <2>3
<1>11. Span(segments) = AlignUp(top) - base
  BY DEF Span, last
<1>12. base <= AlignUp(top)
  <2>1. segments[last].vmaddr \in Nat /\ segments[last].vmaddr <= top /\ base <= segments[last].vmaddr
    BY <1>4, <1>5, <1>10 DEF VmEnd
  <2> HIDE DEF base, top
  <2> QED  BY <1>8, <1>9, <2>1
<1>13. Span(segments) \in Nat /\ Span(segments) % PageSize = 0
  <2> DEFINE end == AlignUp(top)
  <2>1. end \in Nat /\ end % PageSize = 0 /\ base <= end /\ Span(segments) = end - base
    BY <1>9, <1>11, <1>12
  <2> HIDE DEF base, top, end
  <2>2. (end - base) % PageSize = 0
    BY <1>7, <1>8, <2>1, MultiplesAdd
  <2> QED  BY <1>8, <2>1, <2>2
<1>14. \A n \in 1 .. last : base <= segments[n].vmaddr /\ VmEnd(segments[n]) <= base + Span(segments)
  <2> TAKE n \in 1 .. last
  <2>1. VmEnd(segments[n]) \in Nat /\ base <= segments[n].vmaddr /\ VmEnd(segments[n]) <= top
    BY <1>4, <1>10 DEF VmEnd
  <2> HIDE DEF base, top
  <2> QED  BY <1>8, <1>9, <1>11, <1>12, <2>1
<1> HIDE DEF base
<1> QED  BY <1>4, <1>5, <1>6, <1>8, <1>13, <1>14 DEF ImageHolds, base, segments, last

-----------------------------------------------------------------------------
(* Placing *)

\* Two spans of whole pages that pass the checks lie behind one another on
\* pages of their own, above what is occupied and inside the arena.
LEMMA PlacedSpans ==
  ASSUME NEW a, {a.base, a.occupied, a.length} \subseteq 0 .. MaxPointer,
         NEW s \in Nat, NEW t \in Nat, s % PageSize = 0, t % PageSize = 0,
         PlaceCheck(a, s, t) = "Ok"
  PROVE  /\ SptmBase(a) \in Nat /\ SptmBase(a) % PageSize = 0
         /\ a.base <= SptmBase(a) /\ a.occupied <= SptmBase(a)
         /\ TxmBase(a, s) \in Nat /\ TxmBase(a, s) % PageSize = 0
         /\ SptmBase(a) + s <= TxmBase(a, s)
         /\ (TxmBase(a, s) + t) % PageSize = 0
         /\ TxmBase(a, s) + t <= ArenaEnd(a)
<1>1. PageSize \in Nat \ {0} /\ MaxPointer \in Nat
  BY StartupAssumption
<1>2. a.base \in Nat /\ a.occupied \in Nat /\ a.length \in Nat
  BY <1>1
<1>3. FirstFree(a) \in Nat /\ a.base <= FirstFree(a) /\ a.occupied <= FirstFree(a)
  BY <1>2 DEF FirstFree
<1>4. SptmBase(a) \in Nat /\ SptmBase(a) % PageSize = 0 /\ FirstFree(a) <= SptmBase(a)
  BY <1>1, <1>3, RoundedUp DEF SptmBase, AlignUp
<1>5. TxmBase(a, s) \in Nat /\ TxmBase(a, s) % PageSize = 0
      /\ SptmBase(a) + s <= TxmBase(a, s)
  <2>1. SptmBase(a) + s \in Nat
    BY <1>4
  <2> QED  BY <1>1, <2>1, RoundedUp DEF TxmBase, AlignUp
<1>6. (TxmBase(a, s) + t) % PageSize = 0
  BY <1>1, <1>5, MultiplesAdd
<1>7. TxmBase(a, s) + t <= ArenaEnd(a)
  <2> DEFINE p1 == ArenaEnd(a) > MaxPointer
             p2 == a.occupied > ArenaEnd(a)
             p3 == FirstFree(a) + PageSize - 1 > MaxPointer
             p4 == SptmBase(a) + s + PageSize - 1 > MaxPointer
             p5 == TxmBase(a, s) + t > MaxPointer
             p6 == TxmBase(a, s) + t > ArenaEnd(a)
             rules == <<<<p1, "AddressOverflow">>, <<p2, "ArenaBounds">>,
                        <<p3, "AddressOverflow">>, <<p4, "AddressOverflow">>,
                        <<p5, "AddressOverflow">>, <<p6, "ArenaBounds">>>>
  <2>1. FirstRefusal(rules) = "Ok"
    BY DEF PlaceCheck
  <2>2. p6 \in BOOLEAN
    OBVIOUS
  <2> HIDE DEF p1, p2, p3, p4, p5, p6
  <2>3. DOMAIN rules = 1 .. 6 /\ rules[6][1] = p6
    BY <2>2
  <2>4. \A i \in 1 .. 6 : rules[i][2] # "Ok"
    OBVIOUS
  <2> HIDE DEF rules
  <2>5. ~ rules[6][1]
    BY <2>1, <2>3, <2>4, NothingRefused
  <2>6. ~ p6
    BY <2>3, <2>5
  <2>7. ArenaEnd(a) \in Nat /\ TxmBase(a, s) + t \in Nat
    BY <1>2, <1>5 DEF ArenaEnd
  <2> QED  BY <2>6, <2>7 DEF p6
<1> HIDE DEF SptmBase
<1> QED  BY <1>2, <1>3, <1>4, <1>5, <1>6, <1>7

-----------------------------------------------------------------------------
(* The call *)

Which == {"sptm", "txm"}

\* A request that passed its checks has two sound images that lie apart.
LEMMA AcceptedRequest ==
  ASSUME files \in Companions, arena \in Arenas, RequestCheck = "Ok"
  PROVE  /\ ImageHolds(files.sptm) /\ ImageHolds(files.txm)
         /\ LET s == Span(Sorted(files.sptm))
                t == Span(Sorted(files.txm))
            IN  /\ SptmBase(arena) \in Nat /\ SptmBase(arena) % PageSize = 0
                /\ arena.base <= SptmBase(arena) /\ arena.occupied <= SptmBase(arena)
                /\ TxmBase(arena, s) \in Nat /\ TxmBase(arena, s) % PageSize = 0
                /\ SptmBase(arena) + s <= TxmBase(arena, s)
                /\ (TxmBase(arena, s) + t) % PageSize = 0
                /\ TxmBase(arena, s) + t <= ArenaEnd(arena)
<1> DEFINE s == Span(Sorted(files.sptm))
           t == Span(Sorted(files.txm))
<1>1. IsFile(files.sptm) /\ IsFile(files.txm)
  BY CompanionsAssumption DEF IsFile
<1>2. /\ ParseCheck(files.sptm) = "Ok" /\ ParseCheck(files.txm) = "Ok"
      /\ PlaceCheck(arena, s, t) = "Ok"
  BY DEF RequestCheck
<1>3. ImageHolds(files.sptm) /\ ImageHolds(files.txm)
  BY <1>1, <1>2, ParsedImage
<1>4. s \in Nat /\ t \in Nat /\ s % PageSize = 0 /\ t % PageSize = 0
  BY <1>3 DEF ImageHolds
<1>5. {arena.base, arena.occupied, arena.length} \subseteq 0 .. MaxPointer
  BY StartupAssumption
<1> HIDE DEF s, t
<1>6. /\ SptmBase(arena) \in Nat /\ SptmBase(arena) % PageSize = 0
      /\ arena.base <= SptmBase(arena) /\ arena.occupied <= SptmBase(arena)
      /\ TxmBase(arena, s) \in Nat /\ TxmBase(arena, s) % PageSize = 0
      /\ SptmBase(arena) + s <= TxmBase(arena, s)
      /\ (TxmBase(arena, s) + t) % PageSize = 0
      /\ TxmBase(arena, s) + t <= ArenaEnd(arena)
  BY <1>2, <1>4, <1>5, PlacedSpans
<1> QED  BY <1>3, <1>6 DEF s, t

\* The pieces of an accepted image lie in its slice, one behind the other.
LEMMA PiecesInOrder ==
  ASSUME files \in Companions, arena \in Arenas, RequestCheck = "Ok",
         NEW which \in Which
  PROVE  LET pieces == Pieces(which)
         IN  /\ Slice(which).bytes \in Nat
             /\ Len(pieces) \in Nat \ {0} /\ DOMAIN pieces = 1 .. Len(pieces)
             /\ \A n \in 1 .. Len(pieces) :
                  LET p == pieces[n] IN
                  /\ p.start \in Nat /\ p.bytes \in Nat /\ p.span \in Nat
                  /\ p.bytes <= p.span /\ p.start + p.span <= Slice(which).bytes
             /\ \A m, n \in 1 .. Len(pieces) :
                  m < n => pieces[m].start + pieces[m].span <= pieces[n].start
<1> DEFINE segments == Sorted(files[which])
           pieces == Pieces(which)
           last == Len(segments)
           base == VirtualBase(segments)
           span == Span(segments)
<1>1. ImageHolds(files[which])
  BY AcceptedRequest DEF Which
<1>2. /\ last \in Nat \ {0} /\ base \in Nat /\ span \in Nat
      /\ \A n \in 1 .. last :
           /\ segments[n].vmaddr \in Nat /\ segments[n].vmsize \in Nat
           /\ segments[n].filesize \in Nat /\ segments[n].filesize <= segments[n].vmsize
           /\ base <= segments[n].vmaddr /\ VmEnd(segments[n]) <= base + span
      /\ \A m, n \in 1 .. last : m < n => VmEnd(segments[m]) <= segments[n].vmaddr
  <2> HIDE DEF Span, VirtualBase, Sorted
  <2> QED  BY <1>1 DEF ImageHolds
<1>3. Slice(which).bytes = span
  BY DEF Slice, Placement, Which
<1>4. IsFile(files[which])
  BY CompanionsAssumption DEF IsFile, Which
<1>5. DOMAIN segments = 1 .. last
  BY <1>4, SortedListsSegments
<1>6. pieces = [n \in DOMAIN segments |->
                  [start |-> segments[n].vmaddr - base, bytes |-> segments[n].filesize,
                   span |-> segments[n].vmsize, from |-> segments[n].fileoff]]
  BY DEF Pieces
<1> HIDE DEF segments, pieces, base, span, last
<1>7. DOMAIN pieces = 1 .. last /\ Len(pieces) = last
  BY <1>2, <1>5, <1>6
<1>8. \A n \in 1 .. last :
        /\ pieces[n].start = segments[n].vmaddr - base
        /\ pieces[n].bytes = segments[n].filesize
        /\ pieces[n].span = segments[n].vmsize
  BY <1>5, <1>6
<1>9. \A n \in 1 .. last :
        /\ pieces[n].start \in Nat /\ pieces[n].bytes \in Nat /\ pieces[n].span \in Nat
        /\ pieces[n].bytes <= pieces[n].span
        /\ pieces[n].start + pieces[n].span <= span
  BY <1>2, <1>8 DEF VmEnd
<1>10. \A m, n \in 1 .. last :
         m < n => pieces[m].start + pieces[m].span <= pieces[n].start
  BY <1>2, <1>8 DEF VmEnd
<1> QED  BY <1>2, <1>3, <1>7, <1>9, <1>10 DEF pieces

\* The readback of an accepted image never leaves its slice.
LEMMA ReadbackReads ==
  ASSUME files \in Companions, arena \in Arenas, RequestCheck = "Ok",
         NEW which \in Which
  PROVE  ReadbackCheck(which) \in {"Ok", "ReadbackMismatch"}
<1> DEFINE pieces == Pieces(which)
           pieceBytes == Slice(which).bytes
           last == Len(pieces)
           Checked(n) == IF n = 0 THEN 0 ELSE pieces[n].start + pieces[n].span
           Turn(n) == IF n <= last THEN PieceCheck(which, n, Checked(n - 1))
                      ELSE ZeroCheck(Slice(which), Checked(n - 1), pieceBytes)
           turns == [n \in 1 .. last + 1 |-> Turn(n)]
           Answers == {"Ok", "ReadbackMismatch"}
<1>1. /\ pieceBytes \in Nat /\ last \in Nat \ {0} /\ DOMAIN pieces = 1 .. last
      /\ \A n \in 1 .. last :
           /\ pieces[n].start \in Nat /\ pieces[n].bytes \in Nat /\ pieces[n].span \in Nat
           /\ pieces[n].bytes <= pieces[n].span /\ pieces[n].start + pieces[n].span <= pieceBytes
      /\ \A m, n \in 1 .. last :
           m < n => pieces[m].start + pieces[m].span <= pieces[n].start
  <2> HIDE DEF Pieces, Slice
  <2> QED  BY PiecesInOrder
<1>2. ReadbackCheck(which) = FirstError(turns)
  BY DEF ReadbackCheck
<1> HIDE DEF pieces, pieceBytes, last
<1>3. \A n \in 1 .. last + 1 :
        /\ Checked(n - 1) \in Nat /\ Checked(n - 1) <= pieceBytes
        /\ n <= last => Checked(n - 1) <= pieces[n].start
  <2> TAKE n \in 1 .. last + 1
  <2>1. CASE n = 1
    BY <1>1, <2>1
  <2>2. CASE n # 1
    <3>1. n - 1 \in 1 .. last /\ n - 1 # 0
      BY <1>1, <2>2
    <3>2. n <= last => n \in 1 .. last /\ n - 1 < n
      BY <1>1
    <3> QED  BY <1>1, <3>1, <3>2
  <2> QED  BY <2>1, <2>2
<1>4. \A n \in 1 .. last + 1 : Turn(n) \in Answers
  <2> TAKE n \in 1 .. last + 1
  <2> DEFINE checked == Checked(n - 1)
  <2>1. checked \in Nat /\ checked <= pieceBytes /\ (n <= last => checked <= pieces[n].start)
    BY <1>3
  <2> HIDE DEF checked
  <2>2. ASSUME n <= last
        PROVE  PieceCheck(which, n, checked) \in Answers
    <3> DEFINE p == pieces[n]
               first == ZeroCheck(Slice(which), checked, p.start)
               second == BytesCheck(Slice(which), p.start, p.bytes, which, p.from)
               third == ZeroCheck(Slice(which), p.start + p.bytes, p.start + p.span)
               checks == <<first, second, third>>
    <3>1. /\ p.start \in Nat /\ p.bytes \in Nat /\ p.span \in Nat
          /\ p.bytes <= p.span /\ p.start + p.span <= pieceBytes /\ checked <= p.start
      BY <1>1, <2>1, <2>2
    <3>2. PieceCheck(which, n, checked) = FirstError(checks)
      BY DEF PieceCheck, pieces
    <3> HIDE DEF p
    <3>3. first \in Answers /\ second \in Answers /\ third \in Answers
      BY <1>1, <2>1, <3>1 DEF ZeroCheck, BytesCheck, pieceBytes
    <3> HIDE DEF first, second, third
    <3>4. DOMAIN checks = 1 .. 3 /\ \A i \in 1 .. 3 : checks[i] \in Answers
      BY <3>3
    <3> HIDE DEF checks
    <3> QED  BY <3>2, <3>4, FailsAsOneOf
  <2>3. ASSUME ~ (n <= last)
        PROVE  ZeroCheck(Slice(which), checked, pieceBytes) \in Answers
    BY <1>1, <2>1 DEF ZeroCheck, pieceBytes
  <2> QED  BY <2>2, <2>3 DEF checked
<1>5. DOMAIN turns = 1 .. last + 1 /\ \A n \in 1 .. last + 1 : turns[n] = Turn(n)
  OBVIOUS
<1> HIDE DEF turns, Turn
<1>6. FirstError(turns) = "Ok" \/ \E n \in DOMAIN turns : FirstError(turns) = turns[n]
  <2>1. DOMAIN turns \subseteq Nat
    BY <1>1, <1>5
  <2> QED  BY <2>1, FailsAsOneOf
<1> QED  BY <1>2, <1>4, <1>5, <1>6

Untouched == \A a \in DOMAIN memory : memory[a] = Old

Working == {<<"write", "sptm">>, <<"verify", "sptm">>, <<"write", "txm">>, <<"verify", "txm">>}

\* Between the checks and the end the request stays accepted and no returned is
\* told; a call that ends told a success or a mismatch of an accepted request,
\* or a refusal of a request for which nothing was written.
CallInv ==
  /\ files \in Companions /\ arena \in Arenas
  /\ \/ step = <<"start">> /\ Untouched /\ returned = "running"
     \/ step \in Working /\ RequestCheck = "Ok" /\ returned = "running"
     \/ step = <<"done">> /\ RequestCheck = "Ok" /\ returned \in {"Ok", "ReadbackMismatch"}
     \/ step = <<"done">> /\ Untouched /\ returned # "Ok"

\* The steps of a call are told apart by what they hold.
LEMMA StepsDiffer ==
  /\ <<"start">> # <<"done">> /\ <<"start">> \notin Working /\ <<"done">> \notin Working
  /\ <<"start">>[1] = "start" /\ <<"done">>[1] = "done"
BY DEF Working

LEMMA CallInvInit == StartupInit => CallInv
BY DEF StartupInit, CallInv, Untouched

LEMMA CallInvNext == CallInv /\ [StartupNext]_startupVars => CallInv'
<1> SUFFICES ASSUME CallInv, [StartupNext]_startupVars
             PROVE  CallInv'
  OBVIOUS
<1>1. ASSUME UNCHANGED <<files, arena>>
      PROVE  RequestCheck' = RequestCheck /\ files' \in Companions /\ arena' \in Arenas
  BY <1>1 DEF RequestCheck, CallInv
<1>2. CASE CheckRequest
  <2>1. step = <<"start">> /\ Untouched /\ returned = "running"
    BY <1>2, StepsDiffer DEF CheckRequest, CallInv
  <2>2. /\ UNCHANGED <<files, arena>> /\ Untouched'
        /\ RequestCheck = "Ok" => step' \in Working /\ returned' = "running"
        /\ RequestCheck # "Ok" => step' = <<"done">> /\ returned' # "Ok"
    BY <1>2, <2>1 DEF CheckRequest, Working, Untouched
  <2> QED  BY <1>1, <2>2 DEF CallInv
<1>3. ASSUME NEW which \in Which, WriteImage(which)
      PROVE  CallInv'
  <2>1. step \in Working
    BY <1>3 DEF WriteImage, Working, Which
  <2>2. RequestCheck = "Ok" /\ returned = "running"
    BY <2>1, StepsDiffer DEF CallInv
  <2>3. UNCHANGED <<files, arena, returned>> /\ step' \in Working
    BY <1>3 DEF WriteImage, Working, Which
  <2> QED  BY <1>1, <2>2, <2>3 DEF CallInv
<1>4. ASSUME NEW which \in Which, NEW next \in Working \cup {<<"done">>},
             VerifyImage(which, next)
      PROVE  CallInv'
  <2>1. step \in Working
    BY <1>4 DEF VerifyImage, Working, Which
  <2>2. RequestCheck = "Ok" /\ returned = "running"
    BY <2>1, StepsDiffer DEF CallInv
  <2>3. ReadbackCheck(which) \in {"Ok", "ReadbackMismatch"}
    BY <2>2, ReadbackReads DEF CallInv
  <2>4. UNCHANGED <<files, arena>>
        /\ \/ step' \in Working /\ returned' = returned
           \/ step' = <<"done">> /\ returned' = ReadbackCheck(which)
    BY <1>4, StepsDiffer DEF VerifyImage
  <2> QED  BY <1>1, <2>2, <2>3, <2>4 DEF CallInv
<1>5. CASE UNCHANGED startupVars
  BY <1>5 DEF startupVars, CallInv, Untouched, RequestCheck
<1>6. /\ "sptm" \in Which /\ "txm" \in Which
      /\ <<"write", "txm">> \in Working \cup {<<"done">>}
      /\ <<"done">> \in Working \cup {<<"done">>}
  BY DEF Which, Working
<1> QED  BY <1>2, <1>3, <1>4, <1>5, <1>6 DEF StartupNext

LEMMA CallInvHolds == StartupSpec => []CallInv
BY CallInvInit, CallInvNext, PTL DEF StartupSpec

\* Whatever the files, the arena and the memory are: when stage_startup_images()
\* returns anything but Ok or a readback mismatch, it has written nothing.
THEOREM RefusalsLeaveMemory == StartupSpec => []RefusalsWriteNothing
<1>1. CallInv => RefusalsWriteNothing
  BY DEF CallInv, RefusalsWriteNothing, Untouched
<1> QED  BY <1>1, CallInvHolds, PTL

\* From the first write on, both images lie on pages of their own, apart, above
\* what is occupied and inside the arena, for every page size and address width.
THEOREM ImagesLieApart == StartupSpec => []PlacedApart
<1>1. CallInv => PlacedApart
  <2> SUFFICES ASSUME CallInv, Accepted
               PROVE  PlacedApart
    BY DEF PlacedApart
  <2> DEFINE s == Span(Sorted(files.sptm))
             t == Span(Sorted(files.txm))
             u == VirtualBase(Sorted(files.sptm))
             v == VirtualBase(Sorted(files.txm))
  <2>1. RequestCheck = "Ok"
    <3>1. CASE step = <<"start">> /\ Untouched /\ returned = "running"
      BY <3>1, StepsDiffer DEF Accepted, Untouched
    <3>2. CASE step = <<"done">> /\ Untouched /\ returned # "Ok"
      BY <3>2, StepsDiffer DEF Accepted, Untouched
    <3> QED  BY <3>1, <3>2 DEF CallInv
  <2>2. /\ SptmBase(arena) \in Nat /\ SptmBase(arena) % PageSize = 0
        /\ arena.base <= SptmBase(arena) /\ arena.occupied <= SptmBase(arena)
        /\ TxmBase(arena, s) \in Nat /\ TxmBase(arena, s) % PageSize = 0
        /\ SptmBase(arena) + s <= TxmBase(arena, s)
        /\ (TxmBase(arena, s) + t) % PageSize = 0
        /\ TxmBase(arena, s) + t <= ArenaEnd(arena)
    BY <2>1, AcceptedRequest DEF CallInv
  <2>3. t \in Nat /\ u % PageSize = 0 /\ v % PageSize = 0
    BY <2>1, AcceptedRequest DEF CallInv, ImageHolds
  <2>4. /\ Placement.sptm.physicalBase = SptmBase(arena) /\ Placement.sptm.bytes = s
        /\ Placement.txm.physicalBase = TxmBase(arena, s) /\ Placement.txm.bytes = t
        /\ Placement.sptm.virtualBase = u /\ Placement.txm.virtualBase = v
        /\ Placement.occupiedEnd = TxmBase(arena, s) + t
    <3> HIDE DEF s, t, u, v
    <3> QED  BY DEF Placement, s, t, u, v
  <2> HIDE DEF s, t, u, v
  <2> QED  BY <2>2, <2>3, <2>4 DEF PlacedApart
<1> QED  BY <1>1, CallInvHolds, PTL

-----------------------------------------------------------------------------
(* What a readback has seen *)

\* Every byte of an image's slice is the byte that its segments give it.
HeldBy(which) ==
  \A i \in 0 .. Slice(which).bytes - 1 :
    memory[Slice(which).start + i]
      = LinkedByte(which, VirtualBase(Sorted(files[which])) + i)

\* The pieces of an image are its segments, seen from the image's base.
LEMMA PiecesAreSegments ==
  ASSUME files \in Companions, arena \in Arenas, RequestCheck = "Ok",
         NEW which \in Which
  PROVE  LET all == Of(files[which], "segment")
             commands == files[which].commands
             base == VirtualBase(Sorted(files[which]))
             pieces == Pieces(which)
             Lies(n, j) ==
               /\ commands[j].vmaddr = base + pieces[n].start
               /\ commands[j].filesize = pieces[n].bytes
               /\ commands[j].fileoff = pieces[n].from
         IN  /\ base \in Nat
             /\ \A n \in 1 .. Len(pieces) : pieces[n].from \in Nat /\ \E j \in all : Lies(n, j)
             /\ \A j \in all : \E n \in 1 .. Len(pieces) : Lies(n, j)
<1> DEFINE file == files[which]
           all == Of(file, "segment")
           segments == Sorted(file)
           base == VirtualBase(segments)
           pieces == Pieces(which)
           last == Len(segments)
<1>1. IsFile(file)
  BY CompanionsAssumption DEF IsFile, Which
<1>2. ImageHolds(file)
  BY AcceptedRequest DEF Which
<1>3. /\ base \in Nat
      /\ \A n \in 1 .. last :
           segments[n].vmaddr \in Nat /\ segments[n].fileoff \in Nat /\ base <= segments[n].vmaddr
  BY <1>2 DEF ImageHolds
<1>4. /\ DOMAIN segments = 1 .. last /\ last \in Nat
      /\ \A n \in 1 .. last : \E i \in all : segments[n] = file.commands[i]
      /\ \A i \in all : \E n \in 1 .. last : segments[n] = file.commands[i]
  BY <1>1, SortedListsSegments
<1>5. pieces = [n \in DOMAIN segments |->
                  [start |-> segments[n].vmaddr - base, bytes |-> segments[n].filesize,
                   span |-> segments[n].vmsize, from |-> segments[n].fileoff]]
  BY DEF Pieces
<1> HIDE DEF segments, pieces, base, last, all, file
<1>6. Len(pieces) = last
  BY ONLY <1>4, <1>5
<1>7. \A n \in 1 .. last :
        /\ segments[n].vmaddr = base + pieces[n].start
        /\ segments[n].filesize = pieces[n].bytes
        /\ segments[n].fileoff = pieces[n].from /\ pieces[n].from \in Nat
  <2> SUFFICES ASSUME NEW n \in 1 .. last
               PROVE  /\ segments[n].vmaddr = base + pieces[n].start
                      /\ segments[n].filesize = pieces[n].bytes
                      /\ segments[n].fileoff = pieces[n].from /\ pieces[n].from \in Nat
    OBVIOUS
  <2>1. /\ pieces[n].start = segments[n].vmaddr - base /\ pieces[n].bytes = segments[n].filesize
        /\ pieces[n].from = segments[n].fileoff
    BY ONLY <1>4, <1>5, n \in 1 .. last
  <2>2. segments[n].vmaddr \in Nat /\ segments[n].fileoff \in Nat /\ base \in Nat
    BY <1>3, Zenon
  <2> QED  BY ONLY <2>1, <2>2
<1>8. \A n \in 1 .. last : \E j \in all :
        /\ file.commands[j].vmaddr = base + pieces[n].start
        /\ file.commands[j].filesize = pieces[n].bytes
        /\ file.commands[j].fileoff = pieces[n].from
  <2> TAKE n \in 1 .. last
  <2>1. PICK j \in all : segments[n] = file.commands[j]
    BY <1>4
  <2> QED  BY <1>7, <2>1
<1>9. \A j \in all : \E n \in 1 .. last :
        /\ file.commands[j].vmaddr = base + pieces[n].start
        /\ file.commands[j].filesize = pieces[n].bytes
        /\ file.commands[j].fileoff = pieces[n].from
  <2> TAKE j \in all
  <2>1. PICK n \in 1 .. last : segments[n] = file.commands[j]
    BY <1>4
  <2> QED  BY <1>7, <2>1
<1> QED  BY <1>3, <1>6, <1>7, <1>8, <1>9 DEF segments, pieces, base, all, file

\* The byte linked at an address is the one of the piece that lies there, of
\* which there is at most one.
LEMMA LinkedIsInPiece ==
  ASSUME files \in Companions, arena \in Arenas, RequestCheck = "Ok",
         NEW which \in Which, NEW i \in Nat
  PROVE  LET pieces == Pieces(which)
             base == VirtualBase(Sorted(files[which]))
             Has(n) == pieces[n].start <= i /\ i < pieces[n].start + pieces[n].bytes
         IN  /\ \A n \in 1 .. Len(pieces) :
                  Has(n) => LinkedByte(which, base + i)
                              = <<which, pieces[n].from + (i - pieces[n].start)>>
             /\ (\A n \in 1 .. Len(pieces) : ~ Has(n)) => LinkedByte(which, base + i) = Zeroed
<1> DEFINE pieces == Pieces(which)
           commands == files[which].commands
           all == Of(files[which], "segment")
           base == VirtualBase(Sorted(files[which]))
           Has(n) == pieces[n].start <= i /\ i < pieces[n].start + pieces[n].bytes
           Lies(n, j) ==
             /\ commands[j].vmaddr = base + pieces[n].start
             /\ commands[j].filesize = pieces[n].bytes
             /\ commands[j].fileoff = pieces[n].from
           Covers(j) == /\ commands[j].vmaddr <= base + i
                        /\ base + i < commands[j].vmaddr + commands[j].filesize
           Shipped(j) == <<which, commands[j].fileoff + (base + i) - commands[j].vmaddr>>
<1>1. /\ base \in Nat
      /\ \A n \in 1 .. Len(pieces) : pieces[n].from \in Nat /\ \E j \in all : Lies(n, j)
      /\ \A j \in all : \E n \in 1 .. Len(pieces) : Lies(n, j)
  BY PiecesAreSegments
<1>2. /\ \A n \in 1 .. Len(pieces) :
           /\ pieces[n].start \in Nat /\ pieces[n].bytes \in Nat /\ pieces[n].span \in Nat
           /\ pieces[n].bytes <= pieces[n].span
      /\ \A m, n \in 1 .. Len(pieces) :
           m < n => pieces[m].start + pieces[m].span <= pieces[n].start
  BY PiecesInOrder
<1>3. LinkedByte(which, base + i)
        = IF \E j \in all : Covers(j) THEN Shipped(CHOOSE j \in all : Covers(j)) ELSE Zeroed
  BY DEF LinkedByte
<1> HIDE DEF pieces, commands, all, base
<1>4. \A n \in 1 .. Len(pieces), j \in all : Lies(n, j) => (Covers(j) <=> Has(n))
  <2> SUFFICES ASSUME NEW n \in 1 .. Len(pieces), NEW j \in all, Lies(n, j)
               PROVE  Covers(j) <=> Has(n)
    OBVIOUS
  <2> DEFINE x == pieces[n].start
             y == pieces[n].bytes
  <2>1. x \in Nat /\ y \in Nat /\ base \in Nat
    BY <1>1, <1>2
  <2>2. Covers(j) <=> base + x <= base + i /\ base + i < (base + x) + y
    OBVIOUS
  <2>3. Has(n) <=> x <= i /\ i < x + y
    OBVIOUS
  <2> HIDE DEF Covers, Lies, Has, x, y
  <2>4. (base + x <= base + i <=> x <= i) /\ (base + i < (base + x) + y <=> i < x + y)
    BY <2>1
  <2> QED  BY <2>2, <2>3, <2>4
<1>5. \A m, n \in 1 .. Len(pieces) : Has(m) /\ Has(n) => m = n
  <2>1. ASSUME NEW m \in 1 .. Len(pieces), NEW n \in 1 .. Len(pieces), m < n,
               Has(m), Has(n)
        PROVE  FALSE
    <3>1. /\ pieces[m].start \in Nat /\ pieces[m].bytes \in Nat /\ pieces[m].span \in Nat
          /\ pieces[m].bytes <= pieces[m].span /\ pieces[n].start \in Nat
          /\ pieces[m].start + pieces[m].span <= pieces[n].start
      BY <1>2, <2>1
    <3> QED  BY <2>1, <3>1
  <2> SUFFICES ASSUME NEW m \in 1 .. Len(pieces), NEW n \in 1 .. Len(pieces), Has(m), Has(n)
               PROVE  m = n
    OBVIOUS
  <2>2. m \in Int /\ n \in Int
    OBVIOUS
  <2> HIDE DEF Has
  <2> QED  BY <2>1, <2>2
<1>6. \A n \in 1 .. Len(pieces), j \in all :
        Lies(n, j) => Shipped(j) = <<which, pieces[n].from + (i - pieces[n].start)>>
  BY <1>1, <1>2
<1> HIDE DEF Has, Lies, Covers, Shipped
<1>7. ASSUME NEW n \in 1 .. Len(pieces), Has(n)
      PROVE  LinkedByte(which, base + i) = <<which, pieces[n].from + (i - pieces[n].start)>>
  <2> DEFINE k == CHOOSE j \in all : Covers(j)
  <2>1. \E j \in all : Covers(j)
    BY <1>1, <1>4, <1>7
  <2>2. k \in all /\ Covers(k)
    BY <2>1
  <2>3. LinkedByte(which, base + i) = Shipped(k)
    BY <1>3, <2>1
  <2> HIDE DEF k
  <2>4. PICK m \in 1 .. Len(pieces) : Lies(m, k)
    BY <1>1, <2>2
  <2>5. m = n
    BY <1>4, <1>5, <1>7, <2>2, <2>4
  <2> QED  BY <1>6, <2>2, <2>3, <2>4, <2>5
<1>8. ASSUME \A n \in 1 .. Len(pieces) : ~ Has(n)
      PROVE  LinkedByte(which, base + i) = Zeroed
  <2>1. ~ \E j \in all : Covers(j)
    BY <1>1, <1>4, <1>8
  <2> QED  BY <1>3, <2>1
<1> QED  BY <1>7, <1>8 DEF Has, pieces, base

\* A readback that finds nothing has compared every byte of the slice.
LEMMA ReadbackHolds ==
  ASSUME files \in Companions, arena \in Arenas, RequestCheck = "Ok",
         NEW which \in Which, Slice(which).start \in Int, ReadbackCheck(which) = "Ok"
  PROVE  HeldBy(which)
<1> DEFINE pieces == Pieces(which)
           slice == Slice(which)
           base == VirtualBase(Sorted(files[which]))
           last == Len(pieces)
           Checked(n) == IF n = 0 THEN 0 ELSE pieces[n].start + pieces[n].span
           Turn(n) == IF n <= last THEN PieceCheck(which, n, Checked(n - 1))
                      ELSE ZeroCheck(slice, Checked(n - 1), slice.bytes)
           turns == [n \in 1 .. last + 1 |-> Turn(n)]
           Has(n, i) == pieces[n].start <= i /\ i < pieces[n].start + pieces[n].bytes
<1>1. /\ slice.bytes \in Nat /\ last \in Nat \ {0}
      /\ \A n \in 1 .. last :
           /\ pieces[n].start \in Nat /\ pieces[n].bytes \in Nat /\ pieces[n].span \in Nat
           /\ pieces[n].bytes <= pieces[n].span
           /\ pieces[n].start + pieces[n].span <= slice.bytes
  BY PiecesInOrder
<1>2. \A n \in 1 .. last + 1 : Turn(n) = "Ok"
  <2>1. ReadbackCheck(which) = FirstError(turns)
    BY DEF ReadbackCheck
  <2>2. DOMAIN turns = 1 .. last + 1 /\ \A n \in 1 .. last + 1 : turns[n] = Turn(n)
    OBVIOUS
  <2> HIDE DEF turns, Turn, last
  <2>3. DOMAIN turns \subseteq Nat
    BY <1>1, <2>2
  <2>4. \A n \in DOMAIN turns : turns[n] = "Ok"
    BY <2>1, <2>3, NothingFailed
  <2> QED  BY <2>2, <2>4
\* A check of zeroes that passes has seen them.
<1>3. ASSUME NEW start \in Nat, NEW end \in Nat, ZeroCheck(slice, start, end) = "Ok"
      PROVE  \A i \in start .. end - 1 : memory[slice.start + i] = Zeroed
  BY <1>3 DEF ZeroCheck
<1>4. \A n \in 1 .. last :
        /\ ZeroCheck(slice, Checked(n - 1), pieces[n].start) = "Ok"
        /\ BytesCheck(slice, pieces[n].start, pieces[n].bytes, which, pieces[n].from) = "Ok"
        /\ ZeroCheck(slice, pieces[n].start + pieces[n].bytes,
                     pieces[n].start + pieces[n].span) = "Ok"
  <2> TAKE n \in 1 .. last
  <2> DEFINE first == ZeroCheck(slice, Checked(n - 1), pieces[n].start)
             second == BytesCheck(slice, pieces[n].start, pieces[n].bytes, which, pieces[n].from)
             third == ZeroCheck(slice, pieces[n].start + pieces[n].bytes,
                                pieces[n].start + pieces[n].span)
             checks == <<first, second, third>>
  <2>1. n \in 1 .. last + 1 /\ n <= last
    BY <1>1
  <2>2. PieceCheck(which, n, Checked(n - 1)) = "Ok"
    BY <1>2, <2>1
  <2>3. PieceCheck(which, n, Checked(n - 1)) = FirstError(checks)
    BY DEF PieceCheck
  <2> HIDE DEF first, second, third
  <2>4. DOMAIN checks = 1 .. 3 /\ checks[1] = first /\ checks[2] = second /\ checks[3] = third
    OBVIOUS
  <2> HIDE DEF checks
  <2>5. \A k \in DOMAIN checks : checks[k] = "Ok"
    BY <2>2, <2>3, <2>4, NothingFailed
  <2> QED  BY <2>4, <2>5 DEF first, second, third
<1>5. ZeroCheck(slice, Checked(last), slice.bytes) = "Ok"
  <2>1. last + 1 \in 1 .. last + 1 /\ ~ (last + 1 <= last) /\ (last + 1) - 1 = last
    BY <1>1
  <2> HIDE DEF last, slice, Checked
  <2> QED  BY <1>2, <2>1
<1> HIDE DEF pieces, slice, base, last, Turn, turns
<1>6. SUFFICES ASSUME NEW i \in 0 .. slice.bytes - 1
               PROVE  memory[slice.start + i] = LinkedByte(which, base + i)
  BY DEF HeldBy, slice, base
<1>7. i \in Nat /\ i < slice.bytes
  BY <1>1
<1>8. /\ \A n \in 1 .. last :
           Has(n, i) => LinkedByte(which, base + i)
                          = <<which, pieces[n].from + (i - pieces[n].start)>>
      /\ (\A n \in 1 .. last : ~ Has(n, i)) => LinkedByte(which, base + i) = Zeroed
  BY <1>7, LinkedIsInPiece DEF base, last, pieces
<1>9. ASSUME NEW n \in 1 .. last, Has(n, i)
      PROVE  memory[slice.start + i] = LinkedByte(which, base + i)
  <2> DEFINE k == i - pieces[n].start
  <2>1. k \in 0 .. pieces[n].bytes - 1
    BY <1>1, <1>7, <1>9
  <2>2. slice.start + pieces[n].start + k = slice.start + i
    BY <1>1, <1>7 DEF slice
  <2>3. memory[slice.start + pieces[n].start + k] = <<which, pieces[n].from + k>>
    <3> HIDE DEF k
    <3> QED  BY <1>4, <2>1 DEF BytesCheck
  <2> QED  BY <1>8, <1>9, <2>2, <2>3
<1>10. ASSUME \A n \in 1 .. last : ~ Has(n, i)
       PROVE  memory[slice.start + i] = Zeroed
  <2> DEFINE T == {n \in 1 .. last : pieces[n].start <= i}
  <2>1. CASE T = {}
    <3>1. 1 \in 1 .. last /\ ~ (pieces[1].start <= i)
      BY <1>1, <2>1
    <3>2. i \in 0 .. pieces[1].start - 1 /\ pieces[1].start \in Nat
      BY <1>1, <1>7, <3>1
    <3>3. ZeroCheck(slice, 0, pieces[1].start) = "Ok"
      BY <1>4, <3>1
    <3> QED  BY <1>3, <3>2, <3>3
  <2>2. CASE T # {}
    <3>1. T \subseteq 0 .. last /\ last \in Nat
      BY <1>1
    <3>2. PICK n \in T : \A m \in T : m <= n
      <4> HIDE DEF T
      <4> QED  BY <2>2, <3>1, GreatestNatural
    <3>3. /\ n \in 1 .. last /\ pieces[n].start <= i
          /\ pieces[n].start \in Nat /\ pieces[n].bytes \in Nat /\ pieces[n].span \in Nat
      BY <1>1, <3>2
    <3>4. pieces[n].start + pieces[n].bytes <= i
      BY <1>7, <1>10, <3>3
    <3>5. CASE i < pieces[n].start + pieces[n].span
      <4>1. i \in pieces[n].start + pieces[n].bytes .. pieces[n].start + pieces[n].span - 1
        BY <1>7, <3>3, <3>4, <3>5
      <4>2. pieces[n].start + pieces[n].bytes \in Nat /\ pieces[n].start + pieces[n].span \in Nat
        BY <3>3
      <4> QED  BY <1>3, <1>4, <3>3, <4>1, <4>2
    <3>6. CASE ~ (i < pieces[n].start + pieces[n].span)
      <4>1. Checked(n) = pieces[n].start + pieces[n].span /\ Checked(n) \in Nat /\ Checked(n) <= i
        BY <1>7, <3>3, <3>6
      <4>2. CASE n = last
        <5>1. i \in Checked(last) .. slice.bytes - 1
          BY <1>1, <1>7, <4>1, <4>2
        <5> QED  BY <1>1, <1>3, <1>5, <4>1, <4>2, <5>1
      <4>3. CASE n # last
        <5>1. n + 1 \in 1 .. last /\ (n + 1) - 1 = n
          BY <1>1, <3>3, <4>3
        <5>2. n + 1 \notin T
          BY <3>2, <3>3
        <5>3. i \in Checked(n) .. pieces[n + 1].start - 1 /\ pieces[n + 1].start \in Nat
          BY <1>1, <1>7, <4>1, <5>1, <5>2
        <5>4. ZeroCheck(slice, Checked(n), pieces[n + 1].start) = "Ok"
          BY <1>4, <5>1
        <5> QED  BY <1>3, <4>1, <5>3, <5>4
      <4> QED  BY <4>2, <4>3
    <3> QED  BY <3>5, <3>6
  <2> QED  BY <2>1, <2>2
<1> QED  BY <1>8, <1>9, <1>10

-----------------------------------------------------------------------------
(* Both images *)

Inside(which, a) ==
  Slice(which).start <= a /\ a < Slice(which).start + Slice(which).bytes

\* What no image of these covers is as it was.
OldOutside(images) ==
  \A a \in DOMAIN memory : (\A which \in images : ~ Inside(which, a)) => memory[a] = Old

\* The slices of an accepted request are apart and inside the memory.
LEMMA SlicesApart ==
  ASSUME files \in Companions, arena \in Arenas, RequestCheck = "Ok"
  PROVE  /\ \A which \in Which :
              /\ Slice(which).start \in Nat /\ Slice(which).bytes \in Nat
              /\ Slice(which).start + Slice(which).bytes <= arena.length
         /\ Slice("sptm").start + Slice("sptm").bytes <= Slice("txm").start
<1> DEFINE s == Span(Sorted(files.sptm))
           t == Span(Sorted(files.txm))
           p == SptmBase(arena)
           q == TxmBase(arena, s)
<1>1. /\ p \in Nat /\ q \in Nat /\ arena.base <= p /\ p + s <= q /\ q + t <= ArenaEnd(arena)
      /\ ImageHolds(files.sptm) /\ ImageHolds(files.txm)
  BY AcceptedRequest
<1>2. s \in Nat /\ t \in Nat
  BY <1>1 DEF ImageHolds
<1>3. arena.base \in Nat /\ arena.length \in Nat
  BY StartupAssumption
<1>4. /\ Slice("sptm").start = p - arena.base /\ Slice("sptm").bytes = s
      /\ Slice("txm").start = q - arena.base /\ Slice("txm").bytes = t
  <2> HIDE DEF s, t, p, q
  <2> QED  BY DEF Slice, Placement, s, t, p, q
<1> HIDE DEF s, t, p, q
<1>5. p - arena.base \in Nat /\ q - arena.base \in Nat
      /\ (p - arena.base) + s <= arena.length /\ (q - arena.base) + t <= arena.length
      /\ (p - arena.base) + s <= q - arena.base
  BY <1>1, <1>2, <1>3 DEF ArenaEnd
<1> QED  BY <1>2, <1>4, <1>5 DEF Which

\* What a call has done when it comes to a step: the images before it hold
\* their bytes, and memory is as it was outside of what was written.
WholeInv ==
  /\ CallInv
  /\ DOMAIN memory = 0 .. arena.length - 1
  /\ step = <<"write", "sptm">> => OldOutside({})
  /\ step = <<"verify", "sptm">> => OldOutside({"sptm"})
  /\ step = <<"write", "txm">> => OldOutside({"sptm"}) /\ HeldBy("sptm")
  /\ step = <<"verify", "txm">> => OldOutside(Which) /\ HeldBy("sptm")
  /\ returned = "Ok" => OldOutside(Which) /\ HeldBy("sptm") /\ HeldBy("txm")

\* The names of the steps differ.
LEMMA NamesDiffer ==
  /\ <<"write", "sptm">> # <<"verify", "sptm">> /\ <<"write", "sptm">> # <<"write", "txm">>
  /\ <<"write", "sptm">> # <<"verify", "txm">> /\ <<"verify", "sptm">> # <<"write", "txm">>
  /\ <<"verify", "sptm">> # <<"verify", "txm">> /\ <<"write", "txm">> # <<"verify", "txm">>
OBVIOUS

\* Where the images lie, and what they hold, does not change during a call.
LEMMA NothingMoves ==
  ASSUME UNCHANGED <<files, arena>>
  PROVE  \A which \in Which :
           /\ Slice(which)' = Slice(which)
           /\ VirtualBase(Sorted(files[which]))' = VirtualBase(Sorted(files[which]))
           /\ \A a : LinkedByte(which, a)' = LinkedByte(which, a)
BY DEF Which, Slice, Placement, LinkedByte

\* A call that only reads keeps what memory holds.
LEMMA ReadingKeeps ==
  ASSUME UNCHANGED <<files, arena, memory>>
  PROVE  /\ \A which \in Which : HeldBy(which)' = HeldBy(which)
         /\ \A images \in SUBSET Which : OldOutside(images)' = OldOutside(images)
<1>1. \A which \in Which :
           /\ Slice(which)' = Slice(which)
           /\ VirtualBase(Sorted(files[which]))' = VirtualBase(Sorted(files[which]))
           /\ \A a : LinkedByte(which, a)' = LinkedByte(which, a)
  BY NothingMoves
<1> QED  BY <1>1 DEF HeldBy, OldOutside, Inside

\* A write changes memory in the image's own slice only.
LEMMA WriteStaysInside ==
  ASSUME NEW which \in Which, WriteImage(which)
  PROVE  /\ DOMAIN memory' = DOMAIN memory
         /\ \A a \in DOMAIN memory : ~ Inside(which, a) => memory'[a] = memory[a]
         /\ \A images \in SUBSET Which :
              OldOutside(images) => OldOutside(images \cup {which})'
<1>1. /\ DOMAIN memory' = DOMAIN memory
      /\ \A a \in DOMAIN memory : ~ Inside(which, a) => memory'[a] = memory[a]
  BY DEF WriteImage, Inside
<1>2. \A w \in Which, a \in DOMAIN memory : Inside(w, a)' = Inside(w, a)
  <2>1. UNCHANGED <<files, arena>>
    BY DEF WriteImage
  <2> QED  BY <2>1, NothingMoves DEF Inside
<1>3. ASSUME NEW images \in SUBSET Which, OldOutside(images)
      PROVE  OldOutside(images \cup {which})'
  BY <1>1, <1>2, <1>3 DEF OldOutside
<1> QED  BY <1>1, <1>3

LEMMA WholeInvInit == StartupInit => WholeInv
<1> SUFFICES ASSUME StartupInit
             PROVE  WholeInv
  OBVIOUS
<1>1. /\ CallInv /\ step = <<"start">> /\ returned = "running"
      /\ memory = [a \in 0 .. arena.length - 1 |-> Old]
  BY CallInvInit DEF StartupInit
<1> QED  BY <1>1, StepsDiffer DEF WholeInv, Working

LEMMA WholeInvNext == WholeInv /\ [StartupNext]_startupVars => WholeInv'
<1> SUFFICES ASSUME WholeInv, [StartupNext]_startupVars
             PROVE  WholeInv'
  OBVIOUS
<1>1. CallInv /\ CallInv'
  BY CallInvNext DEF WholeInv
<1>2. DOMAIN memory = 0 .. arena.length - 1
  BY DEF WholeInv
<1>3. ASSUME UNCHANGED <<files, arena, memory>>
      PROVE  /\ DOMAIN memory' = 0 .. arena'.length - 1
             /\ OldOutside({})' = OldOutside({}) /\ OldOutside({"sptm"})' = OldOutside({"sptm"})
             /\ OldOutside(Which)' = OldOutside(Which)
             /\ HeldBy("sptm")' = HeldBy("sptm") /\ HeldBy("txm")' = HeldBy("txm")
  <2>1. {} \in SUBSET Which /\ {"sptm"} \in SUBSET Which /\ Which \in SUBSET Which
        /\ "sptm" \in Which /\ "txm" \in Which
    BY DEF Which
  <2> QED  BY <1>2, <1>3, <2>1, ReadingKeeps
<1>4. CASE CheckRequest
  <2>1. /\ step = <<"start">> /\ Untouched /\ returned = "running"
        /\ UNCHANGED <<files, arena, memory>>
    BY <1>1, <1>4, StepsDiffer DEF CheckRequest, CallInv
  <2>2. \/ step' = <<"write", "sptm">> /\ returned' = "running"
        \/ step' = <<"done">> /\ returned' # "Ok"
    BY <1>4, <2>1 DEF CheckRequest
  <2>3. OldOutside({})
    BY <2>1 DEF Untouched, OldOutside
  <2> QED  BY <1>1, <1>3, <2>1, <2>2, <2>3, StepsDiffer, NamesDiffer DEF WholeInv, Working
<1>5. CASE WriteImage("sptm")
  <2>1. step = <<"write", "sptm">> /\ step' = <<"verify", "sptm">>
        /\ UNCHANGED <<files, arena, returned>>
    BY <1>5 DEF WriteImage
  <2>2. OldOutside({}) /\ returned = "running"
    BY <2>1, <1>1, StepsDiffer DEF WholeInv, CallInv, Working
  <2>3. {} \in SUBSET Which /\ {} \cup {"sptm"} = {"sptm"} /\ "sptm" \in Which
    BY DEF Which
  <2>4. OldOutside({"sptm"})' /\ DOMAIN memory' = DOMAIN memory
    BY <1>5, <2>2, <2>3, WriteStaysInside
  <2> QED  BY <1>1, <1>2, <2>1, <2>2, <2>4, NamesDiffer DEF WholeInv
<1>6. CASE VerifyImage("sptm", <<"write", "txm">>)
  <2>1. step = <<"verify", "sptm">> /\ UNCHANGED <<files, arena, memory>>
    BY <1>6 DEF VerifyImage
  <2>2. OldOutside({"sptm"}) /\ returned = "running" /\ RequestCheck = "Ok"
    BY <2>1, <1>1, StepsDiffer DEF WholeInv, CallInv, Working
  <2>3. CASE ReadbackCheck("sptm") = "Ok"
    <3>1. HeldBy("sptm")
      <4>1. "sptm" \in Which /\ files \in Companions /\ arena \in Arenas
        BY <1>1 DEF Which, CallInv
      <4>2. Slice("sptm").start \in Int
        BY <2>2, <4>1, SlicesApart
      <4> QED  BY <2>2, <2>3, <4>1, <4>2, ReadbackHolds
    <3>2. step' = <<"write", "txm">> /\ returned' = "running"
      BY <1>6, <2>2, <2>3, StepsDiffer DEF VerifyImage, Working
    <3> QED  BY <1>1, <1>3, <2>1, <2>2, <3>1, <3>2, NamesDiffer DEF WholeInv
  <2>4. CASE ReadbackCheck("sptm") # "Ok"
    <3>1. step' = <<"done">> /\ returned' # "Ok"
      BY <1>6, <2>4 DEF VerifyImage
    <3> QED  BY <1>1, <1>3, <2>1, <3>1, StepsDiffer DEF WholeInv, Working
  <2> QED  BY <2>3, <2>4
<1>7. CASE WriteImage("txm")
  <2>1. step = <<"write", "txm">> /\ step' = <<"verify", "txm">>
        /\ UNCHANGED <<files, arena, returned>>
    BY <1>7 DEF WriteImage
  <2>2. OldOutside({"sptm"}) /\ HeldBy("sptm") /\ returned = "running" /\ RequestCheck = "Ok"
    BY <2>1, <1>1, StepsDiffer DEF WholeInv, CallInv, Working
  <2>3. {"sptm"} \in SUBSET Which /\ {"sptm"} \cup {"txm"} = Which /\ "txm" \in Which
        /\ "sptm" \in Which
    BY DEF Which
  <2>4. /\ OldOutside(Which)' /\ DOMAIN memory' = DOMAIN memory
        /\ \A a \in DOMAIN memory : ~ Inside("txm", a) => memory'[a] = memory[a]
    BY <1>7, <2>2, <2>3, WriteStaysInside
  <2>5. /\ Slice("sptm").start \in Nat /\ Slice("sptm").bytes \in Nat
        /\ Slice("sptm").start + Slice("sptm").bytes <= arena.length
        /\ Slice("sptm").start + Slice("sptm").bytes <= Slice("txm").start
        /\ Slice("txm").start \in Nat
    BY <1>1, <2>2, <2>3, SlicesApart DEF CallInv
  <2>6. \A i \in 0 .. Slice("sptm").bytes - 1 :
          memory'[Slice("sptm").start + i] = memory[Slice("sptm").start + i]
    <3> TAKE i \in 0 .. Slice("sptm").bytes - 1
    <3>1. arena.length \in Nat
      BY <1>1, StartupAssumption DEF CallInv
    <3>2. Slice("sptm").start + i \in DOMAIN memory /\ ~ Inside("txm", Slice("sptm").start + i)
      BY <1>2, <2>5, <3>1 DEF Inside
    <3> QED  BY <2>4, <3>2
  <2>7. HeldBy("sptm")'
    <3>1. /\ Slice("sptm")' = Slice("sptm")
          /\ VirtualBase(Sorted(files["sptm"]))' = VirtualBase(Sorted(files["sptm"]))
          /\ \A a : LinkedByte("sptm", a)' = LinkedByte("sptm", a)
      BY <2>1, <2>3, NothingMoves
    <3> QED  BY <2>2, <2>6, <3>1 DEF HeldBy
  <2> QED  BY <1>1, <1>2, <2>1, <2>2, <2>4, <2>7, NamesDiffer DEF WholeInv
<1>8. CASE VerifyImage("txm", <<"done">>)
  <2>1. step = <<"verify", "txm">> /\ UNCHANGED <<files, arena, memory>>
    BY <1>8 DEF VerifyImage
  <2>2. OldOutside(Which) /\ HeldBy("sptm") /\ RequestCheck = "Ok"
    BY <2>1, <1>1, StepsDiffer DEF WholeInv, CallInv, Working
  <2>3. step' = <<"done">> /\ returned' = ReadbackCheck("txm")
    BY <1>8 DEF VerifyImage
  <2>4. ReadbackCheck("txm") = "Ok" => HeldBy("txm")
    <3>1. "txm" \in Which /\ files \in Companions /\ arena \in Arenas
      BY <1>1 DEF Which, CallInv
    <3>2. Slice("txm").start \in Int
      BY <2>2, <3>1, SlicesApart
    <3> QED  BY <2>2, <3>1, <3>2, ReadbackHolds
  <2> QED  BY <1>1, <1>3, <2>1, <2>2, <2>3, <2>4, StepsDiffer DEF WholeInv, Working
<1>9. CASE UNCHANGED startupVars
  <2>1. UNCHANGED <<files, arena, memory>> /\ step' = step /\ returned' = returned
    BY <1>9 DEF startupVars
  <2> QED  BY <1>1, <1>3, <2>1 DEF WholeInv
<1> QED  BY <1>4, <1>5, <1>6, <1>7, <1>8, <1>9 DEF StartupNext

LEMMA WholeInvHolds == StartupSpec => []WholeInv
BY WholeInvInit, WholeInvNext, PTL DEF StartupSpec

\* When stage_startup_images() returns Ok, every byte of both slices is the byte
\* that its image links there, and every other byte of the memory is as it was,
\* for all files, arenas and memories, whatever the memory does not take.
THEOREM ImagesStayWhole == StartupSpec => []ImagesAreWhole
<1>1. WholeInv => ImagesAreWhole
  <2> SUFFICES ASSUME WholeInv, returned = "Ok", NEW a \in DOMAIN memory
               PROVE  memory[a] =
                        IF \E w \in {"sptm", "txm"} :
                             Slice(w).start <= a /\ a < Slice(w).start + Slice(w).bytes
                          THEN LET w == CHOOSE w \in {"sptm", "txm"} :
                                   Slice(w).start <= a /\ a < Slice(w).start + Slice(w).bytes
                               IN  LinkedByte(w, VirtualBase(Sorted(files[w])) + a - Slice(w).start)
                          ELSE Old
    BY DEF ImagesAreWhole
  <2>1. /\ files \in Companions /\ arena \in Arenas /\ RequestCheck = "Ok"
        /\ OldOutside(Which) /\ HeldBy("sptm") /\ HeldBy("txm")
        /\ DOMAIN memory = 0 .. arena.length - 1
    BY StepsDiffer DEF WholeInv, CallInv
  <2>2. CASE \A w \in Which : ~ Inside(w, a)
    BY <2>1, <2>2 DEF OldOutside, Which, Inside
  <2>3. CASE \E w \in Which : Inside(w, a)
    <3> DEFINE u == CHOOSE w \in Which : Inside(w, a)
               base == VirtualBase(Sorted(files[u]))
               i == a - Slice(u).start
    <3>1. u \in Which /\ Inside(u, a)
      BY <2>3
    <3>2. Slice(u).start \in Nat /\ Slice(u).bytes \in Nat
      BY <2>1, <3>1, SlicesApart
    <3>3. base \in Nat
      BY <2>1, <3>1, PiecesAreSegments
    <3>4. HeldBy(u)
      <4> HIDE DEF u
      <4> QED  BY <2>1, <3>1 DEF Which
    <3>5. a \in Int /\ arena.length \in Nat
      BY <2>1, StartupAssumption
    <3>6. memory[a] = LinkedByte(u, base + a - Slice(u).start)
      <4> HIDE DEF u
      <4>1. i \in 0 .. Slice(u).bytes - 1 /\ Slice(u).start + i = a
            /\ base + a - Slice(u).start = base + i
        <5> HIDE DEF base
        <5> QED  BY <3>1, <3>2, <3>3, <3>5 DEF Inside
      <4>2. memory[Slice(u).start + i] = LinkedByte(u, base + i)
        BY <3>4, <4>1 DEF HeldBy
      <4> QED  BY <4>1, <4>2
    <3>7. u = CHOOSE w \in {"sptm", "txm"} :
                Slice(w).start <= a /\ a < Slice(w).start + Slice(w).bytes
      BY DEF Which, Inside
    <3>8. \E w \in {"sptm", "txm"} :
            Slice(w).start <= a /\ a < Slice(w).start + Slice(w).bytes
      BY <2>3 DEF Which, Inside
    <3> HIDE DEF u
    <3> QED  BY <3>6, <3>7, <3>8 DEF base
  <2> QED  BY <2>2, <2>3
<1> QED  BY <1>1, WholeInvHolds, PTL

-----------------------------------------------------------------------------
(* A session: the two parsers of EFI entries *)

\* As many entries are enabled as there are numbers of enabled entries.
LEMMA EnabledAreListed ==
  ASSUME NEW entries, Len(entries) \in Nat, DOMAIN entries = 1 .. Len(entries)
  PROVE  \E n \in Nat : DOMAIN EnabledEntries(entries) = 1 .. n
<1> DEFINE all == {j \in EnabledOf(entries) : j <= Len(entries)}
<1>1. all \subseteq 1 .. Len(entries)
  BY DEF EnabledOf
<1> HIDE DEF all
<1>2. IsFiniteSet(all)
  <2>1. IsFiniteSet(1 .. Len(entries))
    BY FS_Interval
  <2> QED  BY <1>1, <2>1, FS_Subset
<1>3. Cardinality(all) \in Nat
  BY <1>2, FS_CardinalityType
<1>4. DOMAIN EnabledEntries(entries) = 1 .. Cardinality(all)
  BY DEF EnabledEntries, all
<1> QED  BY <1>3, <1>4

\* parse_boot_menu() returns a list of entries.
LEMMA MenusAreLists ==
  ASSUME NEW boot \in Boots
  PROVE  Len(ParseBootMenu(boot.document).entries) \in Nat
<1> DEFINE d == boot.document
           misc == Lookup(Dictionary(d), "Misc")
           entries == Lookup(misc, "Entries")
           read == MenuOf(entries.children, ShowPicker(misc))
<1>1. \/ ParseBootMenu(d).entries = <<>>
      \/ /\ DocumentCheck(d) = "Ok" /\ misc.tag = "dict" /\ entries.tag = "array"
         /\ ParseBootMenu(d).entries = read.entries
  <2> HIDE DEF d
  <2> QED  BY DEF ParseBootMenu, Refused, Menu
<1>2. ASSUME DocumentCheck(d) = "Ok", misc.tag = "dict", entries.tag = "array"
      PROVE  Len(read.entries) \in Nat
  <2>1. Len(entries.children) \in Nat /\ DOMAIN entries.children = 1 .. Len(entries.children)
    BY <1>2, BootAssumption
  <2> HIDE DEF entries, misc
  <2>2. PICK n \in Nat : DOMAIN EnabledEntries(entries.children) = 1 .. n
    BY <2>1, EnabledAreListed
  <2>3. \/ read.entries = <<>>
        \/ DOMAIN read.entries = 1 .. n
    BY <2>2 DEF MenuOf, Menu, Refused
  <2> QED  BY <2>3
<1> QED  BY <1>1, <1>2

\* One target, or a menu, is what the same loop leaves: without a picker the
\* names are not looked at, and a second enabled entry is refused.
LEMMA LoopsAgree ==
  ASSUME NEW entries, NEW showPicker \in BOOLEAN
  PROVE  LET read == MenuOf(entries, showPicker)
             found == TargetsOf(entries)
         IN  /\ ~ showPicker => read.error = found.error
             /\ read.error = "Ok" /\ found.error = "Ok" =>
                  [n \in DOMAIN read.entries |-> read.entries[n].target] = found.targets
<1> DEFINE read == MenuOf(entries, showPicker)
           found == TargetsOf(entries)
           enabled == EnabledEntries(entries)
           turns(single) == [i \in DOMAIN entries |-> EntryTurn(entries, i, "Ok", single)]
           named == [i \in DOMAIN entries |->
                       EntryTurn(entries, i, NamedCheck(entries[i], showPicker), ~ showPicker)]
<1>1. /\ found.error = FirstError(turns(TRUE))
      /\ found.error = "Ok" =>
           found.targets = [n \in DOMAIN enabled |-> BootTarget(entries[enabled[n]])]
  <2> HIDE DEF enabled
  <2> QED  BY DEF TargetsOf, Failed, enabled
<1>2. /\ read.error = FirstError(named)
      /\ read.error = "Ok" =>
           /\ DOMAIN read.entries = DOMAIN enabled
           /\ \A n \in DOMAIN enabled : read.entries[n].target = BootTarget(entries[enabled[n]])
  <2> HIDE DEF enabled
  <2> QED  BY DEF MenuOf, Refused, Menu, enabled
<1>3. ASSUME ~ showPicker
      PROVE  read.error = found.error
  <2>1. \A i : NamedCheck(entries[i], showPicker) = "Ok"
    BY <1>3 DEF NamedCheck
  <2>2. named = turns(TRUE)
    BY <1>3, <2>1
  <2> HIDE DEF named, turns, read, found
  <2> QED  BY <1>1, <1>2, <2>2
<1>4. ASSUME read.error = "Ok", found.error = "Ok"
      PROVE  [n \in DOMAIN read.entries |-> read.entries[n].target] = found.targets
  <2> HIDE DEF named, turns, read, found, enabled
  <2> QED  BY <1>1, <1>2, <1>4
<1> QED  BY <1>3, <1>4

LEMMA ParsersAgree ==
  ASSUME NEW d
  PROVE  LET target == ParseBootTarget(d)
             read == ParseBootMenu(d)
             misc == Lookup(Dictionary(d), "Misc")
         IN  /\ \/ read.error = target.error
                \/ /\ DocumentCheck(d) = "Ok" /\ misc.tag = "dict"
                   /\ PickerCheck(misc) # "Ok" \/ ShowPicker(misc)
             /\ read.error = "Ok" /\ target.error = "Ok" =>
                  [n \in DOMAIN read.entries |-> read.entries[n].target] = target.targets
<1> DEFINE target == ParseBootTarget(d)
           read == ParseBootMenu(d)
           misc == Lookup(Dictionary(d), "Misc")
           entries == Lookup(misc, "Entries")
           show == ShowPicker(misc)
           agree ==
             /\ \/ read.error = target.error
                \/ /\ DocumentCheck(d) = "Ok" /\ misc.tag = "dict"
                   /\ PickerCheck(misc) # "Ok" \/ show
             /\ read.error = "Ok" /\ target.error = "Ok" =>
                  [n \in DOMAIN read.entries |-> read.entries[n].target] = target.targets
<1>0. SUFFICES agree
  OBVIOUS
<1>1. CASE DocumentCheck(d) # "Ok"
  BY <1>1 DEF ParseBootTarget, ParseBootMenu, Failed, Refused
<1>2. CASE DocumentCheck(d) = "Ok" /\ misc.tag # "dict"
  <2>1. \/ /\ read = Menu(FALSE, <<>>) /\ target = NoTarget
        \/ /\ read = Refused("InvalidType") /\ target = Failed("InvalidType")
    <3> HIDE DEF misc
    <3> QED  BY <1>2 DEF ParseBootTarget, ParseBootMenu, misc
  <2> HIDE DEF read, target
  <2> QED  BY <2>1 DEF Menu, NoTarget, Refused, Failed
<1>3. CASE DocumentCheck(d) = "Ok" /\ misc.tag = "dict" /\ PickerCheck(misc) # "Ok"
  <2>1. read = Refused(PickerCheck(misc))
    BY <1>3 DEF ParseBootMenu
  <2> HIDE DEF read, target, misc
  <2> QED  BY <1>3, <2>1 DEF Refused
<1>4. CASE DocumentCheck(d) = "Ok" /\ misc.tag = "dict" /\ PickerCheck(misc) = "Ok"
  <2>1. show \in BOOLEAN
    BY DEF ShowPicker
  <2>2. \/ /\ entries.tag = "absent" /\ read = Menu(show, <<>>) /\ target = NoTarget
        \/ /\ entries.tag = "array"
           /\ read = MenuOf(entries.children, show) /\ target = TargetsOf(entries.children)
        \/ /\ read = Refused("InvalidType") /\ target = Failed("InvalidType")
    <3> HIDE DEF misc
    <3> QED  BY <1>4 DEF ParseBootTarget, ParseBootMenu, misc
  <2>3. CASE read = MenuOf(entries.children, show) /\ target = TargetsOf(entries.children)
    <3> HIDE DEF read, target, entries, show
    <3>1. /\ ~ show => read.error = target.error
          /\ read.error = "Ok" /\ target.error = "Ok" =>
               [n \in DOMAIN read.entries |-> read.entries[n].target] = target.targets
      BY <2>1, <2>3, LoopsAgree
    <3> QED  BY <1>4, <3>1 DEF show
  <2>4. CASE read = Menu(show, <<>>) /\ target = NoTarget
    <3> HIDE DEF read, target, show
    <3> QED  BY <2>4 DEF Menu, NoTarget
  <2>5. CASE read = Refused("InvalidType") /\ target = Failed("InvalidType")
    <3> HIDE DEF read, target, show
    <3> QED  BY <2>5 DEF Refused, Failed
  <2> QED  BY <2>2, <2>3, <2>4, <2>5
<1> QED  BY <1>1, <1>2, <1>3, <1>4

-----------------------------------------------------------------------------
(* A session: what one entry point of the trace reads, the later ones read *)

LEMMA NothingFails ==
  ASSUME NEW checks, \A i \in DOMAIN checks : checks[i] = "Ok"
  PROVE  FirstError(checks) = "Ok"
BY DEF FirstError

LEMMA MemoryProfilesNest ==
  ASSUME NEW trace, NEW m \in 1 .. 5, NEW n \in m .. 5,
         MemoryProfileCheck(trace, Capabilities[m]) = "Ok"
  PROVE  MemoryProfileCheck(trace, Capabilities[n]) = "Ok"
<1>1. CASE m = 5
  <2>1. n = m
    BY <1>1
  <2> QED  BY <2>1
<1>2. CASE m # 5
  <2>1. Capabilities[m] # "Mapped"
    BY <1>2 DEF Capabilities
  <2>2. Lookup(trace, "MemoryProfile").tag = "absent"
    BY <2>1 DEF MemoryProfileCheck
  <2> QED  BY <2>2 DEF MemoryProfileCheck, OptionalCheck
<1> QED  BY <1>1, <1>2

LEMMA TiersNest ==
  ASSUME NEW trace, NEW m \in 1 .. 5, NEW n \in m .. 5,
         TierCheck(trace, Capabilities[m]) = "Ok"
  PROVE  TierCheck(trace, Capabilities[n]) = "Ok"
<1> DEFINE node == Lookup(trace, "DiagnosticTier")
           tier == node.text
<1>1. CASE node.tag = "absent"
  BY <1>1 DEF TierCheck, OptionalCheck
<1>2. CASE node.tag # "absent"
  <2>1. /\ Capabilities[m] # "Ordinary" /\ node.tag = "string"
        /\ TierAllowed(tier, trace, Capabilities[m])
    BY <1>2 DEF TierCheck, OptionalCheck
  <2>2. m # 1 /\ n # 1
    BY <2>1 DEF Capabilities
  <2>3. Capabilities[n] # "Ordinary"
    BY <2>2 DEF Capabilities
  <2> HIDE DEF node
  <2>4. tier \in DOMAIN Tiers /\ Capabilities[m] \in Tiers[tier].by
    BY <2>1 DEF TierAllowed
  <2>5. Capabilities[n] \in Tiers[tier].by
    <3>1. \A t \in DOMAIN Tiers :
            \/ Tiers[t].by = {"Deep", "Long", "Initialization", "Mapped"}
            \/ Tiers[t].by = {"Long", "Initialization", "Mapped"}
            \/ Tiers[t].by = {"Initialization", "Mapped"}
            \/ Tiers[t].by = {"Mapped"}
      BY DEF Tiers
    <3> QED  BY <2>2, <2>4, <3>1 DEF Capabilities
  <2>6. TierAllowed(tier, trace, Capabilities[n])
    BY <2>1, <2>4, <2>5 DEF TierAllowed
  <2> QED  BY <2>1, <2>3, <2>6 DEF TierCheck, OptionalCheck, node
<1> QED  BY <1>1, <1>2

\* The fields that no capability has to do with.
OtherFields(trace) ==
  LET Abi(node) ==
        IF node.text = "unprovisioned-sptm-prefix" THEN "Ok" ELSE "InvalidTraceConfiguration"
      Video(node) ==
        IF node.text = "gop-framebuffer" THEN "Ok" ELSE "InvalidTraceConfiguration"
  IN  /\ RequiredCheck(Lookup(trace, "HandoffAbi"), "string", "InvalidTraceConfiguration", Abi)
           = "Ok"
      /\ RequiredCheck(Lookup(trace, "DeviceTreePath"), "string", "InvalidTraceConfiguration",
                       NoCheck) = "Ok"
      /\ RequiredNumber(trace, "PhysicalBase") = "Ok"
      /\ RequiredNumber(trace, "VirtualBase") = "Ok"
      /\ RequiredNumber(trace, "MemorySize") = "Ok"
      /\ RequiredNumber(trace, "ActualMemorySize") = "Ok"
      /\ RequiredNumber(trace, "KernelPhysical") = "Ok"
      /\ OptionalCheck(Lookup(trace, "DeviceTreePath"), "string", KernelPathCheck) = "Ok"
      /\ RequiredNumber(trace, "InstructionBudget") = "Ok"
      /\ PlatformCheck(trace) = "Ok"
      /\ OptionalCheck(Lookup(trace, "Video"), "string", Video) = "Ok"

LEMMA FieldsAccept ==
  ASSUME NEW trace, NEW capability
  PROVE  FieldsCheck(trace, capability) = "Ok" <=>
           /\ MemoryProfileCheck(trace, capability) = "Ok"
           /\ TierCheck(trace, capability) = "Ok"
           /\ OtherFields(trace)
<1> DEFINE Abi(node) ==
             IF node.text = "unprovisioned-sptm-prefix" THEN "Ok" ELSE "InvalidTraceConfiguration"
           Video(node) ==
             IF node.text = "gop-framebuffer" THEN "Ok" ELSE "InvalidTraceConfiguration"
           c1 == MemoryProfileCheck(trace, capability)
           c2 == TierCheck(trace, capability)
           c3 == RequiredCheck(Lookup(trace, "HandoffAbi"), "string",
                               "InvalidTraceConfiguration", Abi)
           c4 == RequiredCheck(Lookup(trace, "DeviceTreePath"), "string",
                               "InvalidTraceConfiguration", NoCheck)
           c5 == RequiredNumber(trace, "PhysicalBase")
           c6 == RequiredNumber(trace, "VirtualBase")
           c7 == RequiredNumber(trace, "MemorySize")
           c8 == RequiredNumber(trace, "ActualMemorySize")
           c9 == RequiredNumber(trace, "KernelPhysical")
           c10 == OptionalCheck(Lookup(trace, "DeviceTreePath"), "string", KernelPathCheck)
           c11 == RequiredNumber(trace, "InstructionBudget")
           c12 == PlatformCheck(trace)
           c13 == OptionalCheck(Lookup(trace, "Video"), "string", Video)
           row == <<c1, c2, c3, c4, c5, c6, c7, c8, c9, c10, c11, c12, c13>>
<1>1. FieldsCheck(trace, capability) = FirstError(row)
  BY DEF FieldsCheck
<1>2. OtherFields(trace) <=>
        /\ c3 = "Ok" /\ c4 = "Ok" /\ c5 = "Ok" /\ c6 = "Ok" /\ c7 = "Ok" /\ c8 = "Ok"
        /\ c9 = "Ok" /\ c10 = "Ok" /\ c11 = "Ok" /\ c12 = "Ok" /\ c13 = "Ok"
  BY DEF OtherFields
<1> HIDE DEF c1, c2, c3, c4, c5, c6, c7, c8, c9, c10, c11, c12, c13
<1>3. /\ DOMAIN row = 1 .. 13
      /\ row[1] = c1 /\ row[2] = c2 /\ row[3] = c3 /\ row[4] = c4 /\ row[5] = c5 /\ row[6] = c6
      /\ row[7] = c7 /\ row[8] = c8 /\ row[9] = c9 /\ row[10] = c10 /\ row[11] = c11
      /\ row[12] = c12 /\ row[13] = c13
  OBVIOUS
<1> HIDE DEF row
<1>4. FirstError(row) = "Ok" <=> \A i \in 1 .. 13 : row[i] = "Ok"
  BY <1>3, NothingFailed, NothingFails
<1>5. (\A i \in 1 .. 13 : row[i] = "Ok") <=>
        c1 = "Ok" /\ c2 = "Ok" /\ OtherFields(trace)
  BY <1>2, <1>3
<1>6. FieldsCheck(trace, capability) = "Ok" <=> c1 = "Ok" /\ c2 = "Ok" /\ OtherFields(trace)
  BY ONLY <1>1, <1>4, <1>5
<1> QED  BY <1>6 DEF c1, c2

LEMMA FieldsNest ==
  ASSUME NEW trace, NEW m \in 1 .. 5, NEW n \in m .. 5,
         FieldsCheck(trace, Capabilities[m]) = "Ok"
  PROVE  FieldsCheck(trace, Capabilities[n]) = "Ok"
BY FieldsAccept, MemoryProfilesNest, TiersNest

\* A trace has a budget that is a number, if its fields pass.
LEMMA BudgetsAreNumbers ==
  ASSUME NEW trace, NEW capability, FieldsCheck(trace, capability) = "Ok"
  PROVE  Lookup(trace, "InstructionBudget").tag = "integer"
<1>1. RequiredNumber(trace, "InstructionBudget") = "Ok"
  BY FieldsAccept DEF OtherFields
<1> QED  BY <1>1 DEF RequiredNumber, RequiredCheck, OptionalCheck

\* A higher limit refuses no more.
LEMMA BudgetsNest ==
  ASSUME NEW trace, NEW low \in Int, NEW high \in Int, low <= high,
         Number(trace, "InstructionBudget") \in Int, BudgetCheck(trace, low) = "Ok"
  PROVE  BudgetCheck(trace, high) = "Ok"
<1> DEFINE budget == Number(trace, "InstructionBudget")
           selected_ == SelectedBudget(trace)
           Wrong(limit) ==
             \/ budget = 0
             \/ selected_ # {} /\ (budget \notin selected_ \/ ~ HasPlatform(trace))
             \/ budget > (IF HasPlatform(trace)
                            THEN IF selected_ = {} THEN limit ELSE CHOOSE k \in selected_ : TRUE
                            ELSE 8)
             \/ budget > 64 /\ budget \notin {256, 1024, 4096} \cup selected_
<1>1. \A limit : BudgetCheck(trace, limit) =
                   IF Wrong(limit) THEN "InvalidTraceConfiguration" ELSE "Ok"
  BY DEF BudgetCheck
<1>2. ~ Wrong(low)
  <2> HIDE DEF Wrong
  <2> QED  BY <1>1
<1>3. Wrong(high) => Wrong(low)
  <2> HIDE DEF budget, selected_
  <2> QED  BY DEF budget
<1> HIDE DEF Wrong
<1> QED  BY <1>1, <1>2, <1>3

\* What parse_arm64_trace_with_policy() asks for before it returns a trace.
LEMMA TraceAccepts ==
  ASSUME NEW d, NEW limit, NEW capability
  PROVE  TraceCheck(d, limit, capability) = "Ok" <=>
           LET trace == TraceNode(d)
           IN  /\ KernelCheck(d, ArmProfiles) = "Ok"
               /\ KernelTarget(d).profile = "x86-efi-arm64-trace"
               /\ trace.tag = "dict"
               /\ FieldsCheck(trace, capability) = "Ok"
               /\ MemoryCheck(trace) = "Ok" /\ BudgetCheck(trace, limit) = "Ok"
               /\ VectorCheck(trace) = "Ok"
<1> DEFINE trace == TraceNode(d)
           rest == <<MemoryCheck(trace), BudgetCheck(trace, limit), VectorCheck(trace)>>
<1>1. FirstError(rest) = "Ok" <=> rest[1] = "Ok" /\ rest[2] = "Ok" /\ rest[3] = "Ok"
  <2>1. DOMAIN rest = 1 .. 3
    OBVIOUS
  <2> HIDE DEF rest
  <2> QED  BY <2>1, NothingFailed, NothingFails
<1>2. TraceCheck(d, limit, capability) = "Ok" <=>
        /\ KernelCheck(d, ArmProfiles) = "Ok"
        /\ KernelTarget(d).profile = "x86-efi-arm64-trace"
        /\ trace.tag = "dict"
        /\ FieldsCheck(trace, capability) = "Ok"
        /\ FirstError(rest) = "Ok"
  <2> HIDE DEF trace
  <2> QED  BY DEF TraceCheck, RequiredCheck, OptionalCheck, trace
<1> QED  BY <1>1, <1>2

\* The entry points in their order: the limits first, and then the capabilities.
LEMMA EntriesRead ==
  ASSUME NEW d, NEW n \in DOMAIN Entries
  PROVE  /\ n \in 1 .. 8
         /\ TraceOutcome(d, n) =
              TraceCheck(d, Limits[Least(n, 4)], Capabilities[IF n <= 4 THEN 1 ELSE n - 3])
<1>1. Len(Limits) = 4 /\ Len(Capabilities) = 5
  BY DEF Limits, Capabilities
<1>2. DOMAIN Entries = 1 .. 8
  BY <1>1 DEF Entries
<1>3. n \in 1 .. 8
  BY <1>2
<1>4. CASE n <= 4
  <2>1. Entries[n].capability = "Ordinary" /\ Entries[n].limit = Limits[n] /\ Least(n, 4) = n
    BY <1>1, <1>3, <1>4 DEF Entries, Least
  <2>2. n \in DOMAIN Limits /\ Capabilities[1] = "Ordinary"
    BY <1>3, <1>4 DEF Limits, Capabilities
  <2> QED  BY <1>3, <1>4, <2>1, <2>2 DEF TraceOutcome, TraceCheckWithLimit
<1>5. CASE ~ n <= 4
  <2>1. /\ Entries[n].capability = Capabilities[n - 3] /\ Entries[n].limit = Limits[4]
        /\ Least(n, 4) = 4
    <3>1. n - 4 + 1 = n - 3
      BY <1>3
    <3> QED  BY <1>1, <1>3, <1>5, <3>1 DEF Entries, Least
  <2>2. Capabilities[n - 3] # "Ordinary"
    BY <1>3, <1>5 DEF Capabilities
  <2> QED  BY <1>3, <1>5, <2>1, <2>2 DEF TraceOutcome
<1> QED  BY <1>4, <1>5

LEMMA OutcomesNest ==
  ASSUME NEW boot \in Boots, NEW m \in DOMAIN Entries, NEW n \in DOMAIN Entries, m < n,
         TraceOutcome(boot.document, m) = "Ok"
  PROVE  TraceOutcome(boot.document, n) = "Ok"
<1> DEFINE d == boot.document
           trace == TraceNode(d)
           low == Limits[Least(m, 4)]
           high == Limits[Least(n, 4)]
           i == IF m <= 4 THEN 1 ELSE m - 3
           j == IF n <= 4 THEN 1 ELSE n - 3
<1>1. /\ m \in 1 .. 8 /\ n \in 1 .. 8
      /\ TraceOutcome(d, m) = TraceCheck(d, low, Capabilities[i])
      /\ TraceOutcome(d, n) = TraceCheck(d, high, Capabilities[j])
  BY EntriesRead
<1>2. i \in 1 .. 5 /\ j \in i .. 5
  BY <1>1
<1>3. low \in Int /\ high \in Int /\ low <= high
  BY <1>1 DEF Limits, Least
<1> HIDE DEF low, high, i, j
<1>4. TraceCheck(d, low, Capabilities[i]) = "Ok"
  BY <1>1
<1>5. /\ KernelCheck(d, ArmProfiles) = "Ok"
      /\ KernelTarget(d).profile = "x86-efi-arm64-trace"
      /\ trace.tag = "dict"
      /\ FieldsCheck(trace, Capabilities[i]) = "Ok"
      /\ MemoryCheck(trace) = "Ok" /\ BudgetCheck(trace, low) = "Ok" /\ VectorCheck(trace) = "Ok"
  BY <1>4, TraceAccepts
<1>6. Number(trace, "InstructionBudget") \in Int
  <2>1. Lookup(trace, "InstructionBudget").tag = "integer"
    BY <1>5, BudgetsAreNumbers
  <2> QED  BY <1>5, <2>1, BootAssumption DEF Number
<1>7. FieldsCheck(trace, Capabilities[j]) = "Ok"
  BY <1>2, <1>5, FieldsNest
<1>8. BudgetCheck(trace, high) = "Ok"
  BY <1>3, <1>5, <1>6, BudgetsNest
<1>9. TraceCheck(d, high, Capabilities[j]) = "Ok"
  BY <1>5, <1>7, <1>8, TraceAccepts
<1> QED  BY <1>1, <1>9

-----------------------------------------------------------------------------
(* A session: what its parts say of one another *)

\* The boot is one of those there are, and its menu the parser's.
ReadingInv ==
  /\ \E boot \in Boots : document = boot.document /\ screen = boot.screen /\ input = boot.input
  /\ menu = IF stage = "start" THEN Menu(FALSE, <<>>) ELSE ParseBootMenu(document)
  /\ traced.outcome = "Ok" =>
       traced.entry \in DOMAIN Entries /\ TraceOutcome(document, traced.entry) = "Ok"

\* What is on the screen is the selection, when a key may come and when Enter
\* has been pressed; between a key and the next picture nothing is booted.
PickerInv ==
  LET count == Len(menu.entries)
      Shown == picture = Render(screen.width, screen.height, count, selected)
  IN  /\ selected \in Nat
      /\ stage = "start" => picture = <<>>
      /\ stage = "draw" => booted = {}
      /\ stage = "keys" =>
           /\ booted = {} /\ Shown
           /\ ViewCheck(screen.width, screen.height, count, selected) = "Ok"
      /\ booted # {} /\ picture # <<>> => booted = {selected} /\ Shown

RecordsBound ==
  /\ MatchesPath(input.bootKc, input.selected, KernelTarget(document).path)
  /\ Binds(input.companions, input.selected)
  /\ DisjointFrom(input.companions, Reserved)

RecordsRead ==
  CompanionsCheck(input.companions) = "Ok" /\ BootKcCheck(input.bootKc) = "Ok"

PartsInv ==
  /\ stage \in {"bindings", "copy"} => RecordsRead
  /\ stage = "copy" => RecordsBound
  /\ \/ destination = [n \in 1 .. input.capacity |-> Blank]
     \/ /\ stage = "started" /\ RecordsRead /\ RecordsBound
        /\ CopyCheck(input.selected, input.signed, input.payload, input.decoded,
                     input.capacity) = "Ok"
        /\ destination = Copied([n \in 1 .. input.capacity |-> Blank], input.decoded)

SessionInv == ReadingInv /\ PickerInv /\ PartsInv

LEMMA SessionBegins == BootInit => SessionInv
<1> SUFFICES ASSUME BootInit
             PROVE  SessionInv
  OBVIOUS
<1>1. ReadingInv
  BY DEF BootInit, ReadingInv
<1>2. PickerInv
  BY DEF BootInit, PickerInv
<1>3. PartsInv
  BY DEF BootInit, PartsInv
<1> QED  BY <1>1, <1>2, <1>3 DEF SessionInv

\* The boot, its menu and what was traced stay what the parsers make of the document.
LEMMA ReadingStays == ReadingInv /\ [BootNext]_bootVars => ReadingInv'
<1> SUFFICES ASSUME ReadingInv, [BootNext]_bootVars
             PROVE  ReadingInv'
  OBVIOUS
<1>1. UNCHANGED inputVars
  BY DEF BootNext, bootVars, inputVars, ReadMenu, Draw, Press, ReadKernel, ReadTrace, ReadRecords,
         CheckBindings, CopyPayload
<1>2. \E boot \in Boots : document' = boot.document /\ screen' = boot.screen /\ input' = boot.input
  BY <1>1 DEF ReadingInv, inputVars
<1>3. menu' = IF stage' = "start" THEN Menu(FALSE, <<>>) ELSE ParseBootMenu(document)
  <2>1. CASE ReadMenu
    <3>1. menu' = ParseBootMenu(document)
      BY <2>1 DEF ReadMenu
    <3>2. stage' # "start"
      BY <2>1 DEF ReadMenu
    <3> QED  BY <3>1, <3>2
  <2>2. CASE UNCHANGED <<menu, stage>>
    BY <2>2 DEF ReadingInv
  <2>3. CASE /\ stage # "start" /\ stage' # "start"
             /\ menu' = menu
    BY <2>3 DEF ReadingInv
  <2>4. Draw => stage # "start" /\ stage' # "start" /\ menu' = menu
    BY DEF Draw
  <2>5. \A action \in Actions : Press(action) => stage # "start" /\ stage' # "start" /\ menu' = menu
    BY DEF Press, Update
  <2>6. ReadKernel => stage # "start" /\ stage' # "start" /\ menu' = menu
    BY DEF ReadKernel
  <2>7. \A n \in DOMAIN Entries : ReadTrace(n) =>
          stage # "start" /\ stage' # "start" /\ menu' = menu
    BY DEF ReadTrace
  <2>8. ReadRecords => stage # "start" /\ stage' # "start" /\ menu' = menu
    BY DEF ReadRecords
  <2>9. CheckBindings => stage # "start" /\ stage' # "start" /\ menu' = menu
    BY DEF CheckBindings
  <2>10. CopyPayload => stage # "start" /\ stage' # "start" /\ menu' = menu
    BY DEF CopyPayload
  <2> QED  BY <2>1, <2>2, <2>3, <2>4, <2>5, <2>6, <2>7, <2>8, <2>9, <2>10 DEF BootNext, bootVars
<1>4. traced'.outcome = "Ok" =>
        traced'.entry \in DOMAIN Entries /\ TraceOutcome(document, traced'.entry) = "Ok"
  <2>1. CASE UNCHANGED traced
    BY <2>1 DEF ReadingInv
  <2>2. ASSUME NEW n \in DOMAIN Entries, ReadTrace(n)
        PROVE  traced'.outcome = "Ok" =>
                 traced'.entry \in DOMAIN Entries /\ TraceOutcome(document, traced'.entry) = "Ok"
    <3>1. traced' = [entry |-> n, outcome |-> TraceOutcome(document, n)]
      BY <2>2 DEF ReadTrace
    <3> QED  BY <3>1
  <2>3. UNCHANGED traced \/ \E n \in DOMAIN Entries : ReadTrace(n)
    BY DEF BootNext, bootVars, ReadMenu, Draw, Press, ReadKernel, ReadRecords, CheckBindings,
           CopyPayload
  <2> QED  BY <2>1, <2>2, <2>3
<1> QED  BY <1>1, <1>2, <1>3, <1>4 DEF ReadingInv, inputVars

\* Drawing and every key leave the selection, the picture and the entry that is
\* started in step.
LEMMA PickerKeeps == ReadingInv /\ PickerInv /\ [BootNext]_bootVars => PickerInv'
<1> SUFFICES ASSUME ReadingInv, PickerInv, [BootNext]_bootVars
             PROVE  PickerInv'
  OBVIOUS
<1> DEFINE count == Len(menu.entries)
<1>1. CASE ReadMenu
  <2>1. stage = "start" /\ picture' = <<>> /\ selected' = selected
    BY <1>1 DEF ReadMenu, PickerInv
  <2> QED  BY <1>1, <2>1 DEF ReadMenu, PickerInv
<1>2. CASE Draw
  <2>1. /\ stage = "draw" /\ booted = {} /\ booted' = {} /\ selected' = selected /\ menu' = menu
        /\ screen' = screen
        /\ \/ stage' = "refused"
           \/ /\ stage' = "keys" /\ ViewCheck(screen.width, screen.height, count, selected) = "Ok"
              /\ picture' = Render(screen.width, screen.height, count, selected)
    BY <1>2 DEF Draw, PickerInv, inputVars
  <2> HIDE DEF count
  <2>2. count' = count
    BY <2>1 DEF count
  <2> QED  BY <2>1, <2>2 DEF PickerInv, count
<1>3. ASSUME NEW action \in Actions, Press(action)
      PROVE  PickerInv'
  <2> DEFINE update == Update(selected, count, action)
  <2>1. /\ stage = "keys" /\ booted = {} /\ selected \in Nat /\ count \in Nat
        /\ picture = Render(screen.width, screen.height, count, selected)
        /\ ViewCheck(screen.width, screen.height, count, selected) = "Ok"
    <3>1. stage = "keys"
      BY <1>3 DEF Press
    <3>2. menu = ParseBootMenu(document) /\ \E boot \in Boots : document = boot.document
      BY <3>1 DEF ReadingInv
    <3>3. count \in Nat
      BY <3>2, MenusAreLists
    <3> QED  BY <3>1, <3>3 DEF PickerInv
  <2>2. UNCHANGED <<menu, picture, screen>>
    BY <1>3 DEF Press, inputVars
  <2>3. /\ selected' = IF update = "Cancel" THEN selected ELSE Move(selected, count, action)
        /\ booted' = IF update = "Boot" THEN {selected} ELSE booted
        /\ stage' = CASE update = "Redraw" -> "draw"
                      [] update = "Unchanged" -> "keys"
                      [] update = "Boot" -> "started"
                      [] update = "Cancel" -> "refused"
    BY <1>3 DEF Press
  <2>4. \/ update = "Cancel" /\ selected' = selected /\ booted' = {} /\ stage' = "refused"
        \/ update = "Boot" /\ selected' = selected /\ booted' = {selected} /\ stage' = "started"
        \/ update = "Unchanged" /\ selected' = selected /\ booted' = {} /\ stage' = "keys"
        \/ update = "Redraw" /\ selected' \in Nat /\ booted' = {} /\ stage' = "draw"
    <3>1. update \in {"Cancel", "Boot", "Unchanged", "Redraw"}
      BY DEF Update
    <3>2. CASE update = "Cancel"
      BY <2>1, <2>3, <3>2
    <3>3. CASE update = "Boot"
      <4>1. Move(selected, count, action) = selected
        BY <3>3 DEF Update, Move
      <4> HIDE DEF update
      <4> QED  BY <2>3, <3>3, <4>1
    <3>4. CASE update = "Unchanged"
      <4>1. Move(selected, count, action) = selected
        BY <3>4, <2>1 DEF Update
      <4> HIDE DEF update
      <4> QED  BY <2>1, <2>3, <3>4, <4>1
    <3>5. CASE update = "Redraw"
      <4>1. count # 0 /\ ~ selected >= count
        BY <3>5 DEF Update
      <4>2. Move(selected, count, action) \in Nat
        BY <2>1, <4>1, MovesStayInTheMenu
      <4> HIDE DEF update
      <4> QED  BY <2>1, <2>3, <3>5, <4>2
    <3> QED  BY <3>1, <3>2, <3>3, <3>4, <3>5
  <2> HIDE DEF count, update
  <2>5. count' = count
    BY <2>2 DEF count
  <2> QED  BY <2>1, <2>2, <2>4, <2>5 DEF PickerInv, count
<1>4. CASE UNCHANGED bootVars
  BY <1>4 DEF bootVars, PickerInv
<1>5. CASE /\ stage' \notin {"start", "draw", "keys"}
           /\ UNCHANGED <<menu, selected, picture, booted, screen>>
  BY <1>5 DEF PickerInv
<1>6. ReadKernel \/ (\E n \in DOMAIN Entries : ReadTrace(n)) \/ ReadRecords \/ CheckBindings
        \/ CopyPayload =>
        /\ stage' \notin {"start", "draw", "keys"}
        /\ UNCHANGED <<menu, selected, picture, booted, screen>>
  BY DEF ReadKernel, ReadTrace, ReadRecords, CheckBindings, CopyPayload, inputVars
<1> QED  BY <1>1, <1>2, <1>3, <1>4, <1>5, <1>6 DEF BootNext

\* Records are checked one by one, then against one another, and the payload is
\* copied last: no step leaves an earlier check behind.
LEMMA PartsKeep == ReadingInv /\ PartsInv /\ [BootNext]_bootVars => PartsInv'
<1> SUFFICES ASSUME ReadingInv, PartsInv, [BootNext]_bootVars
             PROVE  PartsInv'
  OBVIOUS
<1> DEFINE blank == [n \in 1 .. input.capacity |-> Blank]
           copied == Copied(blank, input.decoded)
           check == CopyCheck(input.selected, input.signed, input.payload, input.decoded,
                              input.capacity)
<1>1. UNCHANGED <<document, input>>
  BY DEF BootNext, bootVars, inputVars, ReadMenu, Draw, Press, ReadKernel, ReadTrace, ReadRecords,
         CheckBindings, CopyPayload
<1>2. (RecordsBound' <=> RecordsBound) /\ (RecordsRead' <=> RecordsRead)
  BY <1>1 DEF RecordsBound, RecordsRead, Reserved
<1>3. PartsInv' <=>
        /\ stage' \in {"bindings", "copy"} => RecordsRead
        /\ stage' = "copy" => RecordsBound
        /\ \/ destination' = blank
           \/ /\ stage' = "started" /\ RecordsRead /\ RecordsBound /\ check = "Ok"
              /\ destination' = copied
  BY <1>1, <1>2 DEF PartsInv
<1>4. /\ stage \in {"bindings", "copy"} => RecordsRead
      /\ stage = "copy" => RecordsBound
      /\ \/ destination = blank
         \/ /\ stage = "started" /\ RecordsRead /\ RecordsBound /\ check = "Ok"
            /\ destination = copied
  BY DEF PartsInv
<1> HIDE DEF blank, copied, check
<1>5. CASE UNCHANGED <<stage, destination>>
  BY <1>3, <1>4, <1>5
<1>6. CASE stage # "started" /\ stage' \notin {"bindings", "copy"} /\ UNCHANGED destination
  BY <1>3, <1>4, <1>6
<1>7. ReadMenu \/ Draw \/ (\E action \in Actions : Press(action)) \/ ReadKernel
        \/ (\E n \in DOMAIN Entries : ReadTrace(n)) =>
        stage # "started" /\ stage' \notin {"bindings", "copy"} /\ UNCHANGED destination
  BY DEF ReadMenu, Draw, Press, Update, ReadKernel, ReadTrace
<1>8. CASE ReadRecords
  <2> DEFINE row == <<SealCheck(input.sealed, input.selected), SelectedCheck(input.selected),
                      PayloadCheck(input.payload), BootKcCheck(input.bootKc),
                      CompanionsCheck(input.companions)>>
  <2>1. /\ stage = "records" /\ destination' = destination
        /\ stage' = IF FirstError(row) = "Ok" THEN "bindings" ELSE "refused"
    BY <1>8 DEF ReadRecords
  <2>2. /\ DOMAIN row = 1 .. 5
        /\ row[4] = BootKcCheck(input.bootKc) /\ row[5] = CompanionsCheck(input.companions)
    OBVIOUS
  <2> HIDE DEF row
  <2>3. FirstError(row) = "Ok" => RecordsRead
    BY <2>2, NothingFailed DEF RecordsRead
  <2> QED  BY <1>3, <1>4, <2>1, <2>3
<1>9. CASE CheckBindings
  <2>1. /\ stage = "bindings" /\ destination' = destination
        /\ stage' = IF RecordsBound THEN "copy" ELSE "refused"
    BY <1>9 DEF CheckBindings, RecordsBound
  <2> QED  BY <1>3, <1>4, <2>1
<1>10. CASE CopyPayload
  <2>1. stage = "copy"
    BY <1>10 DEF CopyPayload
  <2>2. destination = blank /\ RecordsBound /\ RecordsRead
    BY <1>4, <2>1
  <2>3. Len(destination) = input.capacity
    <3>1. input.capacity \in Nat
      BY BootAssumption DEF ReadingInv
    <3> QED  BY <2>2, <3>1 DEF blank
  <2>4. /\ stage' = IF check = "Ok" THEN "started" ELSE "refused"
        /\ destination' = IF check = "Ok" THEN copied ELSE blank
    BY <1>10, <2>2, <2>3 DEF CopyPayload, check, copied
  <2> QED  BY <1>3, <2>2, <2>4
<1> QED  BY <1>5, <1>6, <1>7, <1>8, <1>9, <1>10 DEF BootNext, bootVars

LEMMA SessionKeeps == SessionInv /\ [BootNext]_bootVars => SessionInv'
BY ReadingStays, PickerKeeps, PartsKeep DEF SessionInv

\* A boot holds what its parsers made of its document, shows the selection it
\* would start, and has checked its records before it copies, for every
\* configuration, screen and set of records.
THEOREM SessionIsInv == BootSpec => []SessionInv
BY SessionBegins, SessionKeeps, PTL DEF BootSpec

\* parse_boot_menu() and parse_boot_target() say the same of one document, for
\* every document: without a picker the menu is refused or accepted as the one
\* target is, with the same entries; with one, what both accept is the same.
THEOREM MenusMatch == BootSpec => []MenuMatchesTarget
<1>1. SessionInv => MenuMatchesTarget
  <2> DEFINE misc == Lookup(Dictionary(document), "Misc")
             target == ParseBootTarget(document)
             read == ParseBootMenu(document)
             questioned == IF DocumentCheck(document) # "Ok" THEN FALSE
                           ELSE misc.tag = "dict" /\ (PickerCheck(misc) # "Ok" \/ ShowPicker(misc))
  <2> SUFFICES ASSUME SessionInv, stage \in {"refused", "kernel", "draw", "started"}
               PROVE  /\ ~ questioned => menu.error = target.error
                      /\ menu.error = "Ok" /\ target.error = "Ok" => MenuTargets = target.targets
    BY DEF MenuMatchesTarget
  <2>1. menu = read
    BY DEF SessionInv, ReadingInv
  <2>2. /\ \/ read.error = target.error
           \/ /\ DocumentCheck(document) = "Ok" /\ misc.tag = "dict"
              /\ PickerCheck(misc) # "Ok" \/ ShowPicker(misc)
        /\ read.error = "Ok" /\ target.error = "Ok" =>
             [n \in DOMAIN read.entries |-> read.entries[n].target] = target.targets
    BY ParsersAgree
  <2> HIDE DEF misc, target, read
  <2> QED  BY <2>1, <2>2 DEF MenuTargets
<1> QED  BY <1>1, SessionIsInv, PTL

\* What render() drew last is a sound picture of the menu whenever a key may
\* come, and what Enter starts is what that picture marks, for every screen and
\* every order of keys.
THEOREM PickersTellTheTruth == BootSpec => []PickerTellsTheTruth
<1>1. SessionInv => PicturesAreSound
  <2> SUFFICES ASSUME SessionInv, stage = "keys"
               PROVE  WindowIsSound(picture, screen.width, screen.height, Len(menu.entries), selected)
    BY DEF PicturesAreSound
  <2>1. PICK boot \in Boots : document = boot.document /\ screen = boot.screen
    BY DEF SessionInv, ReadingInv
  <2>2. screen.width \in Nat /\ screen.height \in Nat
    BY <2>1, BootAssumption
  <2>3. menu = ParseBootMenu(document)
    BY DEF SessionInv, ReadingInv
  <2>4. Len(menu.entries) \in Nat
    BY <2>1, <2>3, MenusAreLists
  <2>5. /\ selected \in Nat
        /\ picture = Render(screen.width, screen.height, Len(menu.entries), selected)
        /\ ViewCheck(screen.width, screen.height, Len(menu.entries), selected) = "Ok"
    BY DEF SessionInv, PickerInv
  <2> QED  BY <2>2, <2>4, <2>5, PicturesStaySound
<1>2. SessionInv => BootsWhatIsShown
  <2> SUFFICES ASSUME SessionInv, booted # {}, picture # <<>>, NEW n \in DOMAIN picture
               PROVE  picture[n].active <=> picture[n].index \in booted
    BY DEF BootsWhatIsShown
  <2>1. /\ booted = {selected}
        /\ picture = Render(screen.width, screen.height, Len(menu.entries), selected)
    BY DEF SessionInv, PickerInv
  <2>2. picture[n].active <=> picture[n].index = selected
    BY <2>1 DEF Render
  <2> QED  BY <2>1, <2>2
<1> QED  BY <1>1, <1>2, SessionIsInv, PTL DEF PickerTellsTheTruth

\* A trace that one entry point of the configuration accepts is accepted by
\* every one that was added after it, for every document: no capability and no
\* limit takes away what an earlier one gave.
THEOREM CapabilitiesDoNest == BootSpec => []CapabilitiesNest
<1>1. SessionInv => CapabilitiesNest
  <2> SUFFICES ASSUME SessionInv, traced.outcome = "Ok",
                      NEW n \in DOMAIN Entries, n > traced.entry
               PROVE  TraceOutcome(document, n) = "Ok"
    BY DEF CapabilitiesNest
  <2>1. PICK boot \in Boots : document = boot.document
    BY DEF SessionInv, ReadingInv
  <2>2. traced.entry \in DOMAIN Entries /\ TraceOutcome(document, traced.entry) = "Ok"
    BY DEF SessionInv, ReadingInv
  <2>3. traced.entry \in 1 .. 8 /\ n \in 1 .. 8
    BY <2>2, EntriesRead
  <2>4. traced.entry < n
    BY <2>3
  <2> QED  BY <2>1, <2>2, <2>4, OutcomesNest
<1> QED  BY <1>1, SessionIsInv, PTL

-----------------------------------------------------------------------------
(* A session: the parts of a boot *)

\* A content that passed has the length and the digest that are expected.
LEMMA ImageAccepted ==
  ASSUME NEW expected, NEW content, ImageCheck(expected, content) = "Ok"
  PROVE  content.length = expected.length /\ content.digest = expected.digest
<1> DEFINE long == content.length # expected.length
           other == content.digest # expected.digest
           first == <<long, "SizeMismatch">>
           second == <<other, "DigestMismatch">>
           rules == <<first, second>>
<1>1. FirstRefusal(rules) = "Ok"
  BY DEF ImageCheck
<1> HIDE DEF long, other
<1>2. first[1] = long /\ first[2] = "SizeMismatch" /\ second[1] = other
        /\ second[2] = "DigestMismatch"
  OBVIOUS
<1> HIDE DEF first, second
<1>3. DOMAIN rules = 1 .. 2 /\ rules[1] = first /\ rules[2] = second
  OBVIOUS
<1> HIDE DEF rules
<1>4. \A i \in 1 .. 2 : ~ rules[i][1]
  BY <1>1, <1>2, <1>3, NothingRefused
<1>5. ~ first[1] /\ ~ second[1]
  BY <1>3, <1>4
<1>6. ~ long /\ ~ other
  BY <1>2, <1>5
<1> QED  BY <1>6 DEF long, other

\* What copy_selected_payload() has checked before it copies.
LEMMA CopyAccepted ==
  ASSUME NEW chosen, NEW signed, NEW payload, NEW decoded, NEW capacity,
         CopyCheck(chosen, signed, payload, decoded, capacity) = "Ok"
  PROVE  /\ signed.digest = Value(chosen, "image-sha256")
         /\ PayloadBinds(chosen, payload)
         /\ decoded.digest = Value(payload, "decoded-sha256")
         /\ ~ capacity < decoded.length
<1> DEFINE image == ImageCheck(Expected(chosen, "image-bytes", "image-sha256"), signed)
           bound == IF PayloadBinds(chosen, payload) THEN "Ok" ELSE "BindingMismatch"
           content == ImageCheck(Expected(payload, "decoded-bytes", "decoded-sha256"), decoded)
           room == IF capacity < decoded.length THEN "DestinationCapacity" ELSE "Ok"
           row == <<image, bound, content, room>>
<1>1. FirstError(row) = "Ok"
  BY DEF CopyCheck
<1>2. /\ DOMAIN row = 1 .. 4
      /\ row[1] = image /\ row[2] = bound /\ row[3] = content /\ row[4] = room
  OBVIOUS
<1> HIDE DEF row
<1>3. image = "Ok" /\ bound = "Ok" /\ content = "Ok" /\ room = "Ok"
  BY <1>1, <1>2, NothingFailed
<1>4. /\ signed.digest = Value(chosen, "image-sha256")
      /\ decoded.digest = Value(payload, "decoded-sha256")
  BY <1>3, ImageAccepted DEF Expected
<1>5. PayloadBinds(chosen, payload) /\ ~ capacity < decoded.length
  BY <1>3
<1> QED  BY <1>4, <1>5

\* The paths of accepted companions are files of their own.
LEMMA CompanionsAccepted ==
  ASSUME NEW chosen, CompanionsCheck(chosen) = "Ok"
  PROVE  DistinctFiles(CompanionPaths(chosen))
<1> DEFINE distinct == IF DistinctFiles(CompanionPaths(chosen)) THEN "Ok" ELSE "InvalidRecord"
           row == <<ExpectedCheck(Value(chosen, "txm-signed-bytes"), MaxSelectedImage),
                    ExpectedCheck(Value(chosen, "txm-decoded-bytes"), MaxSelectedImage),
                    NoMoreLines(chosen, CompanionFields), distinct>>
<1>1. FirstError(row) = "Ok"
  BY DEF CompanionsCheck
<1>2. DOMAIN row = 1 .. 4 /\ row[4] = distinct
  OBVIOUS
<1> HIDE DEF row
<1>3. distinct = "Ok"
  BY <1>1, <1>2, NothingFailed
<1> QED  BY <1>3

\* The two paths of an accepted boot collection are written apart.
LEMMA BootKcAccepted ==
  ASSUME NEW chosen, BootKcCheck(chosen) = "Ok"
  PROVE  Value(chosen, "signed-path") # Value(chosen, "decoded-path")
<1> DEFINE twice == IF Value(chosen, "signed-path") = Value(chosen, "decoded-path")
                      THEN "InvalidRecord" ELSE "Ok"
           row == <<NoMoreLines(chosen, BootKcFields), twice,
                    ExpectedCheck(Value(chosen, "signed-bytes"), MaxSelectedImage),
                    ExpectedCheck(Value(chosen, "decoded-bytes"), MaxBootKc)>>
<1>1. FirstError(row) = "Ok"
  BY DEF BootKcCheck
<1>2. DOMAIN row = 1 .. 4 /\ row[2] = twice
  OBVIOUS
<1> HIDE DEF row
<1>3. twice = "Ok"
  BY <1>1, <1>2, NothingFailed
<1> QED  BY <1>3

\* Four paths before four others.
LEMMA FourAndFour ==
  ASSUME NEW p1, NEW p2, NEW p3, NEW p4, NEW q1, NEW q2, NEW q3, NEW q4
  PROVE  LET p == <<p1, p2, p3, p4>>
             q == <<q1, q2, q3, q4>>
         IN  /\ DOMAIN (p \o q) = 1 .. 8
             /\ \A i \in 1 .. 4 : (p \o q)[i] = p[i] /\ (p \o q)[i + 4] = q[i]
<1> DEFINE p == <<p1, p2, p3, p4>>
           q == <<q1, q2, q3, q4>>
           Path == {p1, p2, p3, p4, q1, q2, q3, q4}
<1>1. p \in Seq(Path) /\ q \in Seq(Path) /\ Len(p) = 4 /\ Len(q) = 4
  OBVIOUS
<1>2. /\ p \o q \in Seq(Path) /\ Len(p \o q) = Len(p) + Len(q)
      /\ \A i \in 1 .. Len(p) + Len(q) :
           (p \o q)[i] = IF i <= Len(p) THEN p[i] ELSE q[i - Len(p)]
  <2> HIDE DEF p, q, Path
  <2> QED  BY <1>1, ConcatProperties, Zenon
<1> HIDE DEF p, q, Path
<1> DEFINE all == p \o q
<1> HIDE DEF all
<1>3. all \in Seq(Path) /\ Len(all) = 8
      /\ \A i \in 1 .. 8 : all[i] = IF i <= 4 THEN p[i] ELSE q[i - 4]
  <2>1. Len(p) + Len(q) = 8
    BY <1>1
  <2> QED  BY <1>1, <1>2, <2>1 DEF all
<1>4. DOMAIN all = 1 .. 8
  BY <1>3
<1>5. \A i \in 1 .. 4 :
        i \in 1 .. 8 /\ i <= 4 /\ i + 4 \in 1 .. 8 /\ ~ i + 4 <= 4 /\ (i + 4) - 4 = i
  OBVIOUS
<1>6. \A i \in 1 .. 4 : all[i] = p[i] /\ all[i + 4] = q[i]
  BY <1>3, <1>5
<1> QED  BY <1>4, <1>6 DEF p, q, all

\* Records that are read apart belong together when their payload is copied, by
\* digest, identity and path, for every set of records, and a destination that is
\* not the payload is as it was.  The pairs of paths that the code compares are
\* two files each: a companion's and any other, in any case; those of the boot
\* collection, and of image and payload, as they are written.
THEOREM PartsDoBelong == BootSpec => []PartsBelongTogether
<1>1. SessionInv => CopiesOnlyTheBound
  <2> DEFINE blank == [n \in 1 .. input.capacity |-> Blank]
  <2> SUFFICES ASSUME SessionInv, destination # blank
               PROVE  /\ input.signed.digest = Value(input.selected, "image-sha256")
                      /\ input.signed.digest = Value(input.payload, "signed-sha256")
                      /\ input.decoded.digest = Value(input.payload, "decoded-sha256")
                      /\ KernelTarget(document).path = Value(input.bootKc, "decoded-path")
                      /\ Cardinality({IdentityOf(input.selected), IdentityOf(input.bootKc),
                                      IdentityOf(input.companions)}) = 1
                      /\ input.decoded.length <= input.capacity
                      /\ \A n \in DOMAIN destination :
                           destination[n] = IF n <= input.decoded.length
                                              THEN <<input.decoded.digest, n>> ELSE Blank
    BY DEF CopiesOnlyTheBound, PayloadIsCopied
  <2>1. /\ RecordsBound
        /\ CopyCheck(input.selected, input.signed, input.payload, input.decoded,
                     input.capacity) = "Ok"
        /\ destination = Copied(blank, input.decoded)
    BY DEF SessionInv, PartsInv
  <2>2. /\ input.signed.digest = Value(input.selected, "image-sha256")
        /\ PayloadBinds(input.selected, input.payload)
        /\ input.decoded.digest = Value(input.payload, "decoded-sha256")
        /\ ~ input.capacity < input.decoded.length
    BY <2>1, CopyAccepted
  <2>3. input.signed.digest = Value(input.payload, "signed-sha256")
    BY <2>2 DEF PayloadBinds
  <2>4. /\ KernelTarget(document).path = Value(input.bootKc, "decoded-path")
        /\ IdentityOf(input.bootKc) = IdentityOf(input.selected)
        /\ IdentityOf(input.companions) = IdentityOf(input.selected)
    BY <2>1 DEF RecordsBound, MatchesPath, Binds
  <2>5. Cardinality({IdentityOf(input.selected), IdentityOf(input.bootKc),
                     IdentityOf(input.companions)}) = 1
    <3>1. {IdentityOf(input.selected), IdentityOf(input.bootKc), IdentityOf(input.companions)}
            = {IdentityOf(input.selected)}
      BY <2>4
    <3> QED  BY <3>1, FS_Singleton
  <2>6. input.decoded.length <= input.capacity
    <3>1. input.decoded.length \in Nat /\ input.capacity \in Nat
      BY BootAssumption DEF SessionInv, ReadingInv
    <3> QED  BY <2>2, <3>1
  <2>7. \A n \in DOMAIN destination :
          destination[n] = IF n <= input.decoded.length
                             THEN <<input.decoded.digest, n>> ELSE Blank
    BY <2>1 DEF Copied
  <2> QED  BY <2>2, <2>3, <2>4, <2>5, <2>6, <2>7
<1>2. ASSUME SessionInv, stage = "copy" \/ PayloadIsCopied
      PROVE  RecordsRead /\ RecordsBound
  BY <1>2 DEF SessionInv, PartsInv, PayloadIsCopied
<1>3. ASSUME RecordsRead, RecordsBound
      PROVE  LET paths == CompanionPaths(input.companions) \o Reserved
             IN  \A m \in 1 .. 4, n \in DOMAIN paths : m < n => paths[m].parts # paths[n].parts
  <2> DEFINE own == CompanionPaths(input.companions)
             all == own \o Reserved
  <2> SUFFICES ASSUME NEW m \in 1 .. 4, NEW n \in DOMAIN all, m < n
               PROVE  all[m].parts # all[n].parts
    OBVIOUS
  <2>1. CompanionsCheck(input.companions) = "Ok" /\ RecordsBound
    BY <1>3 DEF RecordsRead
  <2>2. DOMAIN own = 1 .. 4 /\ DOMAIN Reserved = 1 .. 4
    BY DEF CompanionPaths, Reserved
  <2>3. \A i, j \in 1 .. 4 : i < j => own[i].parts # own[j].parts
    BY <2>1, <2>2, CompanionsAccepted DEF DistinctFiles, SameFile
  <2>4. \A i, j \in 1 .. 4 : own[i].parts # Reserved[j].parts
    BY <2>1, <2>2 DEF RecordsBound, DisjointFrom, SameFile
  <2>5. /\ DOMAIN all = 1 .. 8
        /\ \A i \in 1 .. 4 : all[i] = own[i] /\ all[i + 4] = Reserved[i]
    BY FourAndFour DEF CompanionPaths, Reserved
  <2> HIDE DEF all, own
  <2>6. n \in 1 .. 8 /\ all[m] = own[m]
    BY <2>5
  <2>7. CASE n <= 4
    <3>1. n \in 1 .. 4
      BY <2>6, <2>7
    <3> QED  BY <2>3, <2>5, <2>6, <3>1
  <2>8. CASE ~ n <= 4
    <3>1. n - 4 \in 1 .. 4 /\ (n - 4) + 4 = n
      BY <2>6, <2>8
    <3>2. all[n] = Reserved[n - 4]
      BY <2>5, <3>1
    <3> QED  BY <2>4, <2>6, <3>1, <3>2
  <2> QED  BY <2>7, <2>8
<1>4. SessionInv => ComparedPathsDiffer
  <2> SUFFICES ASSUME SessionInv, stage = "copy" \/ PayloadIsCopied
               PROVE  ComparedPathsDiffer
    BY DEF ComparedPathsDiffer
  <2>1. RecordsRead /\ RecordsBound
    BY <1>2
  <2>2. Value(input.bootKc, "signed-path") # Value(input.bootKc, "decoded-path")
    BY <2>1, BootKcAccepted DEF RecordsRead
  <2>3. ASSUME PayloadIsCopied
        PROVE  Value(input.payload, "decoded-path") # Value(input.selected, "image-path")
    <3>1. CopyCheck(input.selected, input.signed, input.payload, input.decoded,
                    input.capacity) = "Ok"
      BY <2>3 DEF SessionInv, PartsInv, PayloadIsCopied
    <3> QED  BY <3>1, CopyAccepted DEF PayloadBinds
  <2> QED  BY <1>3, <2>1, <2>2, <2>3 DEF ComparedPathsDiffer
<1> QED  BY <1>1, <1>4, SessionIsInv, PTL DEF PartsBelongTogether

-----------------------------------------------------------------------------
(* A device tree in guest RAM *)

\* RAM is an aperture of bytes, and a tree that was prepared has a size.
RamInv ==
  /\ ram = [base |-> ram.base, bytes |-> ram.bytes]
  /\ ram.base \in Nat /\ \E n \in Nat : DOMAIN ram.bytes = 0 .. n - 1
  /\ tree # NoTree => WireBytes(tree.cells) \in Nat

WriteInv == RamInv /\ OnlyTheReservation

LEMMA RamSize ==
  ASSUME RamInv
  PROVE  /\ RamBytes(ram) \in Nat
         /\ DOMAIN ram.bytes = 0 .. RamBytes(ram) - 1
<1>1. PICK n \in Nat : DOMAIN ram.bytes = 0 .. n - 1
  BY DEF RamInv
<1>2. Cardinality(0 .. n - 1) = n
  <2>1. 0 \in Int /\ n - 1 \in Int
    OBVIOUS
  <2>2. Cardinality(0 .. n - 1) = IF 0 > n - 1 THEN 0 ELSE n - 1 - 0 + 1
    BY <2>1, FS_Interval
  <2> QED  BY <2>2
<1> QED  BY <1>1, <1>2 DEF RamBytes

\* What write_reserved() has checked before its only copy.
LEMMA ReservedAccepted ==
  ASSUME NEW r, NEW reservation, NEW size, ReservedCheck(r, reservation, size) = "Ok"
  PROVE  ReservationHolds(r, reservation) /\ Fits(r, reservation, size)
<1> DEFINE c1 == RamBytes(r) = 0
           c2 == r.base + RamBytes(r) > MaxGuestAddress
           c3 == reservation.address + reservation.capacity > MaxGuestAddress
           c4 == ~ ReservationHolds(r, reservation)
           c5 == ~ Fits(r, reservation, size)
           r1 == <<c1, "InvalidRam">>
           r2 == <<c2, "ArithmeticOverflow">>
           r3 == <<c3, "ArithmeticOverflow">>
           r4 == <<c4, "InvalidReservation">>
           r5 == <<c5, "DestinationCapacity">>
           rules == <<r1, r2, r3, r4, r5>>
<1>1. FirstRefusal(rules) = "Ok"
  BY DEF ReservedCheck
<1> HIDE DEF c1, c2, c3, c4, c5
<1>2. /\ r1[2] # "Ok" /\ r2[2] # "Ok" /\ r3[2] # "Ok" /\ r4[2] # "Ok" /\ r5[2] # "Ok"
      /\ r4[1] = c4 /\ r5[1] = c5
  OBVIOUS
<1> HIDE DEF r1, r2, r3, r4, r5
<1>3. /\ DOMAIN rules = 1 .. 5
      /\ rules[1] = r1 /\ rules[2] = r2 /\ rules[3] = r3 /\ rules[4] = r4 /\ rules[5] = r5
  OBVIOUS
<1> HIDE DEF rules
<1>4. \A i \in 1 .. 5 : rules[i][2] # "Ok"
  BY <1>2, <1>3
<1>5. \A i \in 1 .. 5 : ~ rules[i][1]
  BY <1>1, <1>3, <1>4, NothingRefused
<1>6. ~ c4 /\ ~ c5
  BY <1>2, <1>3, <1>5
<1> QED  BY <1>6 DEF c4, c5

\* One write: what it changes is the tree's place in the reservation, all of
\* which is RAM.
LEMMA WritesStayInside ==
  ASSUME RamInv, NEW reservation \in Reservations, NEW written,
         WireBytes(written.cells) \in Nat, WriteTree(reservation, written)
  PROVE  /\ ram' = [base |-> ram.base, bytes |-> ram'.bytes]
         /\ DOMAIN ram'.bytes = DOMAIN ram.bytes
         /\ OnlyTheReservation'
<1> DEFINE size == WireBytes(written.cells)
           first == reservation.address - ram.base
           Covered(i) == first <= i /\ i < first + size
<1>1. /\ answer' = ReservedCheck(ram, reservation, size)
      /\ ram' = IF answer' = "Ok" THEN WithTree(ram, reservation, written) ELSE ram
      /\ call' = [reservation |-> reservation, before |-> ram, written |-> written]
  BY DEF WriteTree
<1>2. ram = [base |-> ram.base, bytes |-> ram.bytes]
  BY DEF RamInv
<1>3. WithTree(ram, reservation, written) =
        [base  |-> ram.base,
         bytes |-> [i \in DOMAIN ram.bytes |->
                      IF Covered(i) THEN <<written.request, i - first>> ELSE ram.bytes[i]]]
  BY <1>2 DEF WithTree
<1>4. /\ ram' = [base |-> ram.base, bytes |-> ram'.bytes]
      /\ DOMAIN ram'.bytes = DOMAIN ram.bytes
      /\ \A i \in DOMAIN ram.bytes :
           ram'.bytes[i] = IF answer' = "Ok" /\ Covered(i)
                             THEN <<written.request, i - first>> ELSE ram.bytes[i]
  <2>1. CASE answer' = "Ok"
    BY <1>1, <1>3, <2>1
  <2>2. CASE answer' # "Ok"
    BY <1>1, <1>2, <2>2
  <2> QED  BY <2>1, <2>2
<1>5. ASSUME answer' = "Ok"
      PROVE  size <= reservation.capacity /\ first .. first + size - 1 \subseteq DOMAIN ram.bytes
  <2>1. ReservationHolds(ram, reservation) /\ Fits(ram, reservation, size)
    BY <1>1, <1>5, ReservedAccepted
  <2>2. /\ RamBytes(ram) \in Nat /\ DOMAIN ram.bytes = 0 .. RamBytes(ram) - 1
        /\ ram.base \in Nat /\ reservation.address \in Nat
    BY RamSize, RuntimeAssumption DEF RamInv
  <2>3. /\ size \in Nat /\ size <= reservation.capacity
        /\ reservation.address >= ram.base
        /\ first + size <= RamBytes(ram)
    BY <2>1 DEF ReservationHolds, Fits
  <2>4. first \in Nat
    BY <2>2, <2>3
  <2> HIDE DEF first, size
  <2> QED  BY <2>2, <2>3, <2>4
<1>6. OnlyTheReservation' <=>
        (call' # NoCall =>
           /\ answer' = "Ok" => /\ size <= reservation.capacity
                                /\ first .. first + size - 1 \subseteq DOMAIN ram'.bytes
           /\ \A i \in DOMAIN ram'.bytes :
                ram'.bytes[i] = IF answer' = "Ok" /\ Covered(i)
                                  THEN <<written.request, i - first>> ELSE ram.bytes[i])
  <2>1. /\ call'.reservation = reservation /\ call'.written = written /\ call'.before = ram
        /\ ram'.base = ram.base
    BY <1>1, <1>4
  <2> QED  BY <2>1 DEF OnlyTheReservation
<1> HIDE DEF size, first, Covered
<1> QED  BY <1>4, <1>5, <1>6

LEMMA WriteInvHolds == RuntimeSpec => []WriteInv
<1>1. RuntimeInit => WriteInv
  <2> SUFFICES ASSUME RuntimeInit
               PROVE  WriteInv
    OBVIOUS
  <2>1. PICK r \in Rams : ram = [base |-> r.base, bytes |-> [i \in 0 .. r.size - 1 |-> Unwritten]]
    BY DEF RuntimeInit
  <2>2. r.base \in Nat /\ r.size \in Nat
    BY RuntimeAssumption
  <2> QED  BY <2>1, <2>2 DEF RuntimeInit, WriteInv, RamInv, OnlyTheReservation
<1>2. WriteInv /\ [RuntimeNext]_runtimeVars => WriteInv'
  <2> SUFFICES ASSUME WriteInv, [RuntimeNext]_runtimeVars
               PROVE  WriteInv'
    OBVIOUS
  <2>1. RamInv
    BY DEF WriteInv
  <2>2. CASE Prepare
    <3>1. ram' = ram /\ call' = NoCall /\ (tree' = tree \/ WireBytes(tree'.cells) \in Nat)
      <4>1. PICK p \in Outcomes : tree' = IF p.check = "Ok" THEN TreeOf(p) ELSE tree
        BY <2>2 DEF Prepare
      <4>2. p.check = "Ok" => WireBytes(tree'.cells) \in Nat
        <5>1. TreeOf(p).cells = p.cells
          BY DEF TreeOf
        <5> QED  BY <4>1, <5>1, OutcomeAssumption
      <4> QED  BY <2>2, <4>1, <4>2 DEF Prepare
    <3> QED  BY <2>1, <3>1 DEF WriteInv, RamInv, OnlyTheReservation, NoCall, NoTree
  <2>3. ASSUME NEW reservation \in Reservations, NEW written,
               WireBytes(written.cells) \in Nat, WriteTree(reservation, written), tree' = tree
        PROVE  WriteInv'
    <3>1. /\ ram' = [base |-> ram.base, bytes |-> ram'.bytes]
          /\ DOMAIN ram'.bytes = DOMAIN ram.bytes
          /\ OnlyTheReservation'
      BY <2>1, <2>3, WritesStayInside
    <3>2. ram'.base = ram.base
      BY <3>1
    <3>3. RamInv'
      BY <2>1, <2>3, <3>1, <3>2 DEF RamInv, NoTree
    <3> QED  BY <3>1, <3>3 DEF WriteInv
  <2>4. ASSUME NEW reservation \in Reservations, WriteReserved(reservation)
        PROVE  WriteInv'
    <3>1. tree # NoTree /\ WriteTree(reservation, tree) /\ tree' = tree
      BY <2>4 DEF WriteReserved
    <3>2. WireBytes(tree.cells) \in Nat
      BY <2>1, <3>1 DEF RamInv
    <3> QED  BY <2>3, <3>1, <3>2
  <2>5. CASE MaterializeInto
    <3>1. PICK p \in Outcomes :
            IF p.check = "Ok"
              THEN \E reservation \in Reservations : WriteTree(reservation, TreeOf(p))
              ELSE /\ answer' = p.check
                   /\ call' = [reservation |-> Nothing, before |-> ram, written |-> NoTree]
                   /\ UNCHANGED <<ram, writes>>
      BY <2>5 DEF MaterializeInto
    <3>2. tree' = tree
      BY <2>5 DEF MaterializeInto
    <3>3. CASE p.check = "Ok"
      <4>1. WireBytes(TreeOf(p).cells) \in Nat
        BY <3>3, OutcomeAssumption DEF TreeOf
      <4>2. PICK reservation \in Reservations : WriteTree(reservation, TreeOf(p))
        BY <3>1, <3>3
      <4> QED  BY <2>3, <3>2, <4>1, <4>2
    <3>4. CASE p.check # "Ok"
      <4>1. answer' # "Ok" /\ ram' = ram /\ call'.before = ram
        BY <3>1, <3>4
      <4> QED  BY <2>1, <3>2, <4>1 DEF WriteInv, RamInv, OnlyTheReservation, NoTree
    <3> QED  BY <3>3, <3>4
  <2>6. CASE EncodeTree
    <3>1. ram' = ram /\ tree' = tree /\ call' = NoCall
      BY <2>6 DEF EncodeTree
    <3> QED  BY <2>1, <3>1 DEF WriteInv, RamInv, OnlyTheReservation, NoCall, NoTree
  <2>7. CASE UNCHANGED runtimeVars
    BY <2>7 DEF runtimeVars, WriteInv, RamInv, OnlyTheReservation, NoCall, NoTree
  <2> QED  BY <2>2, <2>4, <2>5, <2>6, <2>7 DEF RuntimeNext
<1> QED  BY <1>1, <1>2, PTL DEF RuntimeSpec

\* write_reserved() and materialize_into() put a whole tree into its reservation
\* and change no other byte of RAM, and no byte when they return an error, for
\* every RAM, tree and reservation, whatever the calls before.
THEOREM WritesAreReserved == RuntimeSpec => []OnlyTheReservation
BY WriteInvHolds, PTL DEF WriteInv

=============================================================================
