-------------------------- MODULE Stage1Tables_proofs --------------------------
(***************************************************************************)
(* Theorems about the construction of translation tables: what finished    *)
(* tables translate, for every geometry of slots and pages, every RAM and  *)
(* any number of aliases.                                                  *)
(***************************************************************************)
EXTENDS Stage1Tables, NaturalLemmas

-----------------------------------------------------------------------------
(* Numbers *)

\* A quotient and a remainder that fit are the ones.
LEMMA QuotientIs ==
  ASSUME NEW m \in Nat \ {0}, NEW b \in Nat, NEW r \in 0 .. m - 1
  PROVE  (b * m + r) \div m = b /\ (b * m + r) % m = r
<1> DEFINE v == b * m + r
<1>1. v \in Nat /\ b * m \in Nat
  OBVIOUS
<1>2. v \div m \in Nat /\ v % m \in 0 .. m - 1 /\ v = (v \div m) * m + (v % m)
      /\ (v \div m) * m \in Nat
  BY <1>1, DivisionHolds
<1> DEFINE q == v \div m
           s == v % m
<1>3. q \in Nat /\ s \in 0 .. m - 1 /\ b * m + r = q * m + s
  BY <1>2
<1> HIDE DEF q, s, v
<1>4. q = b
  <2>1. CASE q < b
    <3>1. PICK d \in Nat : b = q + 1 + d
      <4>1. b - q - 1 \in Nat /\ b = q + 1 + (b - q - 1)
        BY <1>3, <2>1
      <4> QED  BY <4>1
    <3>2. b * m = q * m + m + d * m /\ d * m \in Nat /\ q * m \in Nat
      BY <1>3, <3>1
    <3> QED  BY <1>3, <3>2
  <2>2. CASE b < q
    <3>1. PICK d \in Nat : q = b + 1 + d
      <4>1. q - b - 1 \in Nat /\ q = b + 1 + (q - b - 1)
        BY <1>3, <2>2
      <4> QED  BY <4>1
    <3>2. q * m = b * m + m + d * m /\ d * m \in Nat /\ b * m \in Nat
      BY <1>3, <3>1
    <3> QED  BY <1>3, <3>2
  <2> QED  BY <1>3, <2>1, <2>2
<1>5. s = r
  BY <1>1, <1>3, <1>4
<1> QED  BY <1>4, <1>5 DEF q, s, v

\* Division by a product is division twice.
LEMMA DivideTwice ==
  ASSUME NEW p \in Nat \ {0}, NEW q \in Nat \ {0}, NEW v \in Nat
  PROVE  v \div (p * q) = (v \div p) \div q
<1> DEFINE a == v \div p
           r == v % p
           b == a \div q
           t == a % q
           m == p * q
<1>1. a \in Nat /\ r \in 0 .. p - 1 /\ v = a * p + r
  BY DivisionHolds
<1>2. b \in Nat /\ t \in 0 .. q - 1 /\ a = b * q + t
  <2> HIDE DEF a
  <2> QED  BY <1>1, DivisionHolds
<1>3. m \in Nat \ {0}
  OBVIOUS
<1> HIDE DEF a, r, b, t
<1>4. t * p + r \in 0 .. m - 1
  <2>1. PICK d \in Nat : q = t + 1 + d
    <3>1. q - t - 1 \in Nat /\ q = t + 1 + (q - t - 1)
      BY <1>2
    <3> QED  BY <3>1
  <2>2. m = t * p + p + d * p /\ t * p \in Nat /\ d * p \in Nat
    BY <1>2, <2>1
  <2> HIDE DEF m
  <2> QED  BY <1>1, <2>2
<1>5. v = b * m + (t * p + r)
  BY <1>1, <1>2
<1>6. v \div m = b
  <2> DEFINE e == t * p + r
  <2>1. e \in 0 .. m - 1 /\ v = b * m + e
    BY <1>4, <1>5
  <2> HIDE DEF m, e
  <2> QED  BY <1>2, <1>3, <2>1, QuotientIs
<1> QED  BY <1>6 DEF a, b

\* The sizes of pages, tables and halves, as the proofs use them.
LEMMA Geometry ==
  /\ Slots \in Nat /\ Slots >= 2 /\ PageSize \in Nat /\ PageSize >= 2
  /\ PageSize \in Nat \ {0} /\ Slots \in Nat \ {0}
  /\ TableBits \in 1 .. PageSize - 1 /\ PageBits \in 1 .. PageSize - 1
  /\ PaEnd \in Nat /\ PaEnd % PageSize = 0 /\ MaxAddress \in Nat /\ MaxTableBytes \in Nat
  /\ LowEnd \in Nat \ {0} /\ LowEnd + MaxTableBytes <= PaEnd /\ PaEnd <= MaxAddress
  /\ HighStart \in Nat /\ HighStart >= LowEnd
  /\ MaxAddress + 1 = HighStart + LowEnd
  /\ \E h \in Nat : HighStart = h * LowEnd
<1>1. /\ Slots \in Nat /\ Slots >= 2 /\ PageSize \in Nat /\ PageSize >= 2
      /\ PageSize \in Nat \ {0} /\ Slots \in Nat \ {0}
      /\ TableBits \in 1 .. PageSize - 1 /\ PageBits \in 1 .. PageSize - 1
      /\ PaEnd \in Nat /\ PaEnd % PageSize = 0 /\ MaxAddress \in Nat /\ MaxTableBytes \in Nat
      /\ LowEnd + MaxTableBytes <= PaEnd /\ PaEnd <= MaxAddress
      /\ (MaxAddress + 1) % LowEnd = 0
  BY GeometryAssumption
<1>2. LowEnd \in Nat \ {0}
  <2>1. PageSize * Slots \in Nat \ {0}
    BY <1>1
  <2>2. PageSize * Slots * Slots \in Nat \ {0}
    BY <1>1, <2>1
  <2>3. PageSize * Slots * Slots * Slots \in Nat \ {0}
    BY <1>1, <2>2
  <2> QED  BY <2>3 DEF LowEnd
<1>3. ASSUME NEW e \in Nat \ {0}, NEW v \in Nat, v % e = 0, v > e
      PROVE  \E h \in Nat : v = h * e + e
  <2> DEFINE q == v \div e
  <2>1. q \in Nat /\ v = q * e + (v % e)
    BY DivisionHolds
  <2> HIDE DEF q
  <2>2. v = q * e
    BY <1>3, <2>1
  <2>3. q # 0
    BY <1>3, <2>2
  <2>4. PICK h \in Nat : q = h + 1
    <3>1. q - 1 \in Nat /\ q = (q - 1) + 1
      BY <2>1, <2>3
    <3> QED  BY <3>1
  <2>5. v = h * e + e
    BY <2>2, <2>4
  <2> QED  BY <2>4, <2>5
<1>4. PICK h \in Nat : MaxAddress + 1 = h * LowEnd + LowEnd
  <2>1. MaxAddress + 1 \in Nat /\ MaxAddress + 1 > LowEnd
    BY <1>1, <1>2
  <2> QED  BY <1>1, <1>2, <1>3, <2>1
<1>5. h * LowEnd \in Nat /\ HighStart = h * LowEnd
  <2>1. ASSUME NEW e \in Nat \ {0}, NEW v, v = h * e + e
        PROVE  h * e \in Nat /\ v - e = h * e
    <3>1. h * e \in Nat
      OBVIOUS
    <3> DEFINE m == h * e
    <3> HIDE DEF m
    <3>2. m \in Nat => m + e - e = m
      OBVIOUS
    <3> QED  BY <2>1, <3>1, <3>2 DEF m
  <2>2. PICK v : v = MaxAddress + 1
    OBVIOUS
  <2>3. h * LowEnd \in Nat /\ v - LowEnd = h * LowEnd
    BY <1>2, <1>4, <2>1, <2>2
  <2> QED  BY <1>1, <1>2, <2>2, <2>3 DEF HighStart
<1>6. HighStart \in Nat /\ MaxAddress + 1 = HighStart + LowEnd
  BY <1>4, <1>5
<1>7. h # 0
  BY <1>1, <1>2, <1>4
<1>8. PICK d \in Nat : h = d + 1
  <2>1. h - 1 \in Nat /\ h = (h - 1) + 1
    BY <1>7
  <2> QED  BY <2>1
<1>9. h * LowEnd = d * LowEnd + LowEnd /\ d * LowEnd \in Nat
  BY <1>2, <1>8
<1>10. HighStart >= LowEnd
  BY <1>2, <1>5, <1>9
<1> QED  BY <1>1, <1>2, <1>5, <1>6, <1>10

-----------------------------------------------------------------------------
(* Pages and the slots that they select *)

SlotSet == 0 .. Slots - 1

Home(va) == IF va < LowEnd THEN LowRoot ELSE HighRoot

VirtualPages == LowPages \cup HighPages

\* A slot is a digit of the number of the page.
LEMMA SlotsAreDigits ==
  ASSUME NEW va \in Nat
  PROVE  LET page == va \div PageSize IN
         /\ page \in Nat
         /\ Slot(va, 3) = page % Slots
         /\ Slot(va, 2) = (page \div Slots) % Slots
         /\ Slot(va, 1) = ((page \div Slots) \div Slots) % Slots
         /\ va \div LowEnd = ((page \div Slots) \div Slots) \div Slots
<1> USE Geometry
<1>1. va \div PageSize \in Nat
  BY DivisionHolds
<1>2. va \div (PageSize * Slots) = (va \div PageSize) \div Slots
  BY DivideTwice
<1>3. PageSize * Slots \in Nat \ {0} /\ PageSize * Slots * Slots \in Nat \ {0}
  <2>1. PageSize * Slots \in Nat \ {0}
    OBVIOUS
  <2> QED  BY <2>1
<1>4. ASSUME NEW m \in Nat \ {0}
      PROVE  va \div (m * Slots) = (va \div m) \div Slots
  BY DivideTwice
<1>5. va \div (PageSize * Slots * Slots) = ((va \div PageSize) \div Slots) \div Slots
  BY <1>2, <1>3, <1>4
<1>6. va \div LowEnd = (((va \div PageSize) \div Slots) \div Slots) \div Slots
  BY <1>3, <1>4, <1>5 DEF LowEnd
<1> QED  BY <1>1, <1>2, <1>5, <1>6 DEF Slot

LEMMA SlotsInRange ==
  ASSUME NEW va \in Nat, NEW level \in {1, 2, 3}
  PROVE  Slot(va, level) \in SlotSet
<1> USE Geometry
<1> DEFINE a == va \div PageSize
           b == a \div Slots
           c == b \div Slots
<1>1. a \in Nat
  BY DivisionHolds
<1>2. b \in Nat /\ a % Slots \in SlotSet
  <2> HIDE DEF a
  <2> QED  BY <1>1, DivisionHolds DEF SlotSet
<1>3. c \in Nat /\ b % Slots \in SlotSet
  <2> HIDE DEF b
  <2> QED  BY <1>2, DivisionHolds DEF SlotSet
<1>4. c % Slots \in SlotSet
  <2> HIDE DEF c
  <2> QED  BY <1>3, DivisionHolds DEF SlotSet
<1>5. Slot(va, 3) = a % Slots /\ Slot(va, 2) = b % Slots /\ Slot(va, 1) = c % Slots
  BY SlotsAreDigits
<1> QED  BY <1>2, <1>3, <1>4, <1>5

\* A number is what its quotient and remainder say.
LEMMA SameNumber ==
  ASSUME NEW p \in Nat \ {0}, NEW v \in Nat, NEW w \in Nat,
         v \div p = w \div p, v % p = w % p
  PROVE  v = w
<1>1. v = (v \div p) * p + (v % p) /\ w = (w \div p) * p + (w % p)
  BY DivisionHolds
<1> QED  BY <1>1

\* Pages of one half that select the same slots are the same.
LEMMA SameSlots ==
  ASSUME NEW v \in Nat, NEW w \in Nat, v % PageSize = 0, w % PageSize = 0,
         v \div LowEnd = w \div LowEnd,
         \A level \in {1, 2, 3} : Slot(v, level) = Slot(w, level)
  PROVE  v = w
<1> USE Geometry
<1> DEFINE A(x) == x \div PageSize
           B(x) == A(x) \div Slots
           C(x) == B(x) \div Slots
<1>1. ASSUME NEW x \in Nat
      PROVE  /\ A(x) \in Nat /\ B(x) \in Nat /\ C(x) \in Nat
             /\ Slot(x, 3) = A(x) % Slots /\ Slot(x, 2) = B(x) % Slots
             /\ Slot(x, 1) = C(x) % Slots /\ x \div LowEnd = C(x) \div Slots
  <2>1. A(x) \in Nat
    BY DivisionHolds
  <2>2. B(x) \in Nat
    <3> HIDE DEF A
    <3> QED  BY <2>1, DivisionHolds
  <2>3. C(x) \in Nat
    <3> HIDE DEF B
    <3> QED  BY <2>2, DivisionHolds
  <2> QED  BY <2>1, <2>2, <2>3, SlotsAreDigits
<1>2. C(v) \div Slots = C(w) \div Slots /\ C(v) % Slots = C(w) % Slots
      /\ B(v) % Slots = B(w) % Slots /\ A(v) % Slots = A(w) % Slots
  <2> HIDE DEF A, B, C
  <2>1. v \div LowEnd = C(v) \div Slots /\ w \div LowEnd = C(w) \div Slots
    BY <1>1
  <2>2. /\ Slot(v, 1) = C(v) % Slots /\ Slot(w, 1) = C(w) % Slots
        /\ Slot(v, 2) = B(v) % Slots /\ Slot(w, 2) = B(w) % Slots
        /\ Slot(v, 3) = A(v) % Slots /\ Slot(w, 3) = A(w) % Slots
    BY <1>1
  <2> QED  BY <2>1, <2>2, Zenon
<1>3. C(v) = C(w)
  <2> HIDE DEF C
  <2> QED  BY <1>1, <1>2, SameNumber
<1>4. B(v) = B(w)
  <2> HIDE DEF B
  <2> QED  BY <1>1, <1>2, <1>3, SameNumber
<1>5. A(v) = A(w)
  <2> HIDE DEF A
  <2> QED  BY <1>1, <1>2, <1>4, SameNumber
<1> QED  BY <1>5, SameNumber

-----------------------------------------------------------------------------
(* Descriptors *)

\* What is used of the arguments below: RAM is made of pages, and the tables
\* start behind it, in the lower half.
RamOK ==
  /\ request.physBase \in Nat /\ request.size \in Nat
  /\ request.physBase % PageSize = 0 /\ TableBase % PageSize = 0
  /\ TableBase <= LowEnd

\* A small remainder is its own.
LEMMA SmallRemainder ==
  ASSUME NEW m \in Nat \ {0}, NEW r \in 0 .. m - 1
  PROVE  r % m = r /\ r \div m = 0
<1>1. (0 * m + r) \div m = 0 /\ (0 * m + r) % m = r
  BY QuotientIs
<1>2. 0 * m + r = r
  OBVIOUS
<1> QED  BY <1>1, <1>2

\* The mask takes a page's address out of its descriptor.
LEMMA DescriptorHolds ==
  ASSUME NEW x \in Nat, x % PageSize = 0, NEW b \in 1 .. PageSize - 1,
         x + PageSize <= PaEnd
  PROVE  AddressOf(x + b) = x
<1> USE Geometry
<1>1. x + b \in 0 .. PaEnd - 1 /\ PaEnd \in Nat \ {0}
  OBVIOUS
<1>2. (x + b) % PaEnd = x + b
  BY <1>1, SmallRemainder
<1> DEFINE q == x \div PageSize
<1>3. q \in Nat /\ x = q * PageSize
  <2>1. q \in Nat /\ x = q * PageSize + (x % PageSize) /\ q * PageSize \in Nat
    BY DivisionHolds
  <2> HIDE DEF q
  <2> QED  BY <2>1
<1> HIDE DEF q
<1>4. b \in 0 .. PageSize - 1
  OBVIOUS
<1>5. (q * PageSize + b) \div PageSize = q
  BY <1>3, <1>4, QuotientIs
<1>6. ((x + b) \div PageSize) * PageSize = x
  BY <1>3, <1>5
<1> QED  BY <1>2, <1>6 DEF AddressOf

\* The address of a table lies on a page, below the next table's.
LEMMA TableLies ==
  ASSUME RamOK, NEW n \in Nat \ {0}
  PROVE  /\ TableBase \in Nat /\ (n - 1) * PageSize \in Nat
         /\ TableAddress(n) \in Nat /\ TableAddress(n) % PageSize = 0
         /\ TableAddress(n) + PageSize = TableBase + n * PageSize
<1> USE Geometry
<1>1. TableBase \in Nat /\ TableBase % PageSize = 0
  BY DEF RamOK, TableBase
<1>2. PICK d \in Nat : n = d + 1
  <2>1. n - 1 \in Nat /\ n = (n - 1) + 1
    OBVIOUS
  <2> QED  BY <2>1
<1>3. d * PageSize \in Nat /\ n * PageSize = d * PageSize + PageSize /\ n - 1 = d
  BY <1>2
<1>4. (d * PageSize + 0) % PageSize = 0 /\ (d * PageSize + 0) \div PageSize = d
  BY QuotientIs
<1> DEFINE o == d * PageSize
<1>5. o \in Nat /\ o % PageSize = 0
  BY <1>3, <1>4
<1> HIDE DEF o
<1>6. (TableBase + o) % PageSize = 0
  BY <1>1, <1>5, MultiplesAdd
<1>7. TableAddress(n) = TableBase + o
  BY <1>3 DEF TableAddress, o
<1>8. TableAddress(n) + PageSize = TableBase + (o + PageSize)
  BY <1>1, <1>5, <1>7
<1> QED  BY <1>1, <1>3, <1>5, <1>6, <1>7, <1>8 DEF o

\* A descriptor of a table names it.
LEMMA TableHolds ==
  ASSUME RamOK, NEW n \in Nat \ {0}, TableBase + n * PageSize <= PaEnd
  PROVE  /\ TableAddress(n) + TableBits \in Nat \ {0}
         /\ TableAt(TableAddress(n) + TableBits) = n
<1> USE Geometry
<1>1. /\ TableBase \in Nat /\ TableAddress(n) \in Nat /\ TableAddress(n) % PageSize = 0
      /\ TableAddress(n) + PageSize = TableBase + n * PageSize
  BY TableLies
<1>2. AddressOf(TableAddress(n) + TableBits) = TableAddress(n)
  BY <1>1, DescriptorHolds
<1>3. PICK d \in Nat : n = d + 1
  <2>1. n - 1 \in Nat /\ n = (n - 1) + 1
    OBVIOUS
  <2> QED  BY <2>1
<1>4. TableAddress(n) = TableBase + d * PageSize /\ d * PageSize \in Nat
  <2>1. n - 1 = d
    BY <1>3
  <2> QED  BY <2>1 DEF TableAddress
<1>5. TableAddress(n) - TableBase = d * PageSize
  <2> DEFINE o == d * PageSize
  <2> HIDE DEF o
  <2>1. o \in Nat /\ TableAddress(n) = TableBase + o
    BY <1>4 DEF o
  <2>2. TableAddress(n) - TableBase = o
    BY <1>1, <2>1
  <2> QED  BY <2>2 DEF o
<1>6. (d * PageSize) \div PageSize = d
  <2>1. (d * PageSize + 0) \div PageSize = d
    BY QuotientIs
  <2> QED  BY <1>4, <2>1
<1> QED  BY <1>1, <1>2, <1>3, <1>5, <1>6 DEF TableAt

-----------------------------------------------------------------------------
(* Trees of tables.  Each table has a level: the roots are of the first one, *)
(* a used slot of a table of the first two levels names a table of the next, *)
(* which no other slot names, and a used slot of the last level a page of    *)
(* RAM.                                                                      *)

EntryIn(ts, t, s) == IF t \in DOMAIN ts THEN ts[t][s] ELSE 0

NextIn(ts, t, s) == IF EntryIn(ts, t, s) = 0 THEN 0 ELSE TableAt(EntryIn(ts, t, s))

LeafTable(ts, va) == NextIn(ts, NextIn(ts, Home(va), Slot(va, 1)), Slot(va, 2))

\* The descriptor of a page, or zero.
Leaf(ts, va) == EntryIn(ts, LeafTable(ts, va), Slot(va, 3))

Frames == {pa \in Nat : /\ pa % PageSize = 0
                        /\ request.physBase <= pa /\ pa + PageSize <= TableBase}

Naming(n) == TableAddress(n) + TableBits

TablesOK(ts) ==
  /\ ts \in Seq([SlotSet -> Nat])
  /\ Len(ts) >= 2
  /\ TableBase + Len(ts) * PageSize <= PaEnd

Tree(ts, level) ==
  /\ TablesOK(ts)
  /\ level \in [1 .. Len(ts) -> 1 .. 3]
  /\ level[LowRoot] = 1 /\ level[HighRoot] = 1
  /\ \A t \in 1 .. Len(ts), s \in SlotSet :
       ts[t][s] # 0 =>
         IF level[t] = 3
           THEN \E pa \in Frames : ts[t][s] = pa + PageBits
           ELSE \E n \in 3 .. Len(ts) : ts[t][s] = Naming(n) /\ level[n] = level[t] + 1
  /\ \A t, u \in 1 .. Len(ts), s, r \in SlotSet :
       (ts[t][s] # 0 /\ ts[t][s] = ts[u][r] /\ level[t] < 3 /\ level[u] < 3)
         => t = u /\ s = r

\* Where a slot leads: nowhere, or to a table of the next level.
LEMMA NextIsBelow ==
  ASSUME RamOK, NEW ts, NEW level, Tree(ts, level),
         NEW t \in 0 .. Len(ts), t # 0 => level[t] \in {1, 2}, NEW s \in SlotSet
  PROVE  /\ NextIn(ts, t, s) \in 0 .. Len(ts)
         /\ NextIn(ts, t, s) # 0 =>
              /\ t # 0 /\ NextIn(ts, t, s) >= 3 /\ ts[t][s] # 0
              /\ ts[t][s] = Naming(NextIn(ts, t, s))
              /\ level[NextIn(ts, t, s)] = level[t] + 1
         /\ NextIn(ts, t, s) = 0 => EntryIn(ts, t, s) = 0
<1>1. DOMAIN ts = 1 .. Len(ts) /\ Len(ts) \in Nat
  BY DEF Tree, TablesOK
<1>2. CASE EntryIn(ts, t, s) = 0
  BY <1>1, <1>2 DEF NextIn
<1>3. CASE EntryIn(ts, t, s) # 0
  <2>1. t \in 1 .. Len(ts) /\ EntryIn(ts, t, s) = ts[t][s] /\ ts[t][s] # 0
    BY <1>1, <1>3 DEF EntryIn
  <2>2. level[t] # 3
    BY <2>1
  <2>3. PICK n \in 3 .. Len(ts) : ts[t][s] = Naming(n) /\ level[n] = level[t] + 1
    BY <2>1, <2>2 DEF Tree
  <2>4. TableBase + n * PageSize <= PaEnd
    <3>1. TableBase + Len(ts) * PageSize <= PaEnd /\ n <= Len(ts) /\ TableBase \in Nat
      BY <1>1, <2>3 DEF Tree, TablesOK, RamOK, TableBase
    <3>2. PICK d \in Nat : Len(ts) = n + d
      <4>1. Len(ts) - n \in Nat /\ Len(ts) = n + (Len(ts) - n)
        BY <1>1, <3>1
      <4> QED  BY <4>1
    <3>3. /\ Len(ts) * PageSize = n * PageSize + d * PageSize
          /\ n * PageSize \in Nat /\ d * PageSize \in Nat
      BY <3>2, Geometry
    <3> QED  BY <3>1, <3>3, Geometry
  <2>5. TableAt(Naming(n)) = n
    BY <2>4, TableHolds DEF Naming
  <2>6. NextIn(ts, t, s) = n
    BY <1>3, <2>1, <2>3, <2>5 DEF NextIn
  <2> QED  BY <1>1, <2>1, <2>3, <2>6
<1> QED  BY <1>2, <1>3

-----------------------------------------------------------------------------
(* A new table *)

Grown(ts, at, slot) ==
  Append([ts EXCEPT ![at][slot] = Naming(Len(ts) + 1)], EmptyTable)

Deepened(level, at, n) ==
  [t \in 1 .. n + 1 |-> IF t = n + 1 THEN level[at] + 1 ELSE level[t]]

\* What a new table changes: one slot.
OneMore(ts, at, slot, g) ==
  /\ g \in Seq([SlotSet -> Nat]) /\ Len(g) = Len(ts) + 1 /\ DOMAIN g = 1 .. Len(ts) + 1
  /\ \A t \in 1 .. Len(ts), s \in SlotSet :
       g[t][s] = IF t = at /\ s = slot THEN Naming(Len(ts) + 1) ELSE ts[t][s]
  /\ \A s \in SlotSet : g[Len(ts) + 1][s] = 0

LEMMA GrownEntries ==
  ASSUME RamOK, NEW ts, TablesOK(ts), NEW at \in 1 .. Len(ts), NEW slot \in SlotSet
  PROVE  OneMore(ts, at, slot, Grown(ts, at, slot))
<1>1. ts \in Seq([SlotSet -> Nat]) /\ Len(ts) \in Nat /\ DOMAIN ts = 1 .. Len(ts)
  BY DEF TablesOK
<1>2. Naming(Len(ts) + 1) \in Nat
  <2>1. Len(ts) + 1 \in Nat \ {0}
    BY <1>1
  <2>2. TableAddress(Len(ts) + 1) \in Nat
    BY <2>1, TableLies
  <2> QED  BY <2>2, Geometry DEF Naming
<1>3. EmptyTable \in [SlotSet -> Nat]
  BY DEF EmptyTable, SlotSet
<1> DEFINE e == Naming(Len(ts) + 1)
           c == [ts EXCEPT ![at][slot] = e]
<1> HIDE DEF e
<1>4. ts[at] \in [SlotSet -> Nat]
  BY <1>1
<1>5. [ts[at] EXCEPT ![slot] = e] \in [SlotSet -> Nat]
  BY <1>2, <1>4 DEF e
<1>6. c \in Seq([SlotSet -> Nat]) /\ Len(c) = Len(ts) /\ DOMAIN c = 1 .. Len(ts)
  BY <1>1, <1>5
<1>7. \A t \in 1 .. Len(ts), s \in SlotSet :
        c[t][s] = IF t = at /\ s = slot THEN e ELSE ts[t][s]
  BY <1>1, <1>4
<1> HIDE DEF c
<1>8. Grown(ts, at, slot) = Append(c, EmptyTable)
  BY DEF Grown, c, e
<1>9. /\ Append(c, EmptyTable) \in Seq([SlotSet -> Nat])
      /\ Len(Append(c, EmptyTable)) = Len(ts) + 1
      /\ \A t \in 1 .. Len(ts) : Append(c, EmptyTable)[t] = c[t]
      /\ Append(c, EmptyTable)[Len(ts) + 1] = EmptyTable
  <2>1. ASSUME NEW R, NEW z \in R, NEW q \in Seq(R)
        PROVE  /\ Append(q, z) \in Seq(R) /\ Len(Append(q, z)) = Len(q) + 1
               /\ \A t \in 1 .. Len(q) : Append(q, z)[t] = q[t]
               /\ Append(q, z)[Len(q) + 1] = z
    OBVIOUS
  <2>2. PICK R : R = [SlotSet -> Nat]
    OBVIOUS
  <2>3. c \in Seq(R) /\ EmptyTable \in R
    BY <1>3, <1>6, <2>2
  <2>4. /\ Append(c, EmptyTable) \in Seq(R)
        /\ Len(Append(c, EmptyTable)) = Len(c) + 1
        /\ \A t \in 1 .. Len(c) : Append(c, EmptyTable)[t] = c[t]
        /\ Append(c, EmptyTable)[Len(c) + 1] = EmptyTable
    BY <2>1, <2>3
  <2> QED  BY <1>6, <2>2, <2>4
<1>10. \A s \in SlotSet : EmptyTable[s] = 0
  BY DEF EmptyTable, SlotSet
<1>11. DOMAIN Append(c, EmptyTable) = 1 .. Len(ts) + 1
  BY <1>9
<1> PICK g : g = Append(c, EmptyTable)
  OBVIOUS
<1>12. /\ g \in Seq([SlotSet -> Nat]) /\ Len(g) = Len(ts) + 1 /\ DOMAIN g = 1 .. Len(ts) + 1
       /\ \A t \in 1 .. Len(ts), s \in SlotSet :
            g[t][s] = IF t = at /\ s = slot THEN e ELSE ts[t][s]
       /\ \A s \in SlotSet : g[Len(ts) + 1][s] = 0
  BY <1>7, <1>9, <1>10, <1>11
<1> QED  BY <1>8, <1>12 DEF e, OneMore

\* The names of different tables differ.
LEMMA NamesDiffer ==
  ASSUME RamOK, NEW m \in Nat \ {0}, NEW n \in Nat \ {0}, m < n
  PROVE  Naming(m) # Naming(n)
<1> USE Geometry
<1>1. /\ TableBase \in Nat /\ TableAddress(m) \in Nat /\ TableAddress(n) \in Nat
      /\ TableAddress(m) + PageSize = TableBase + m * PageSize
      /\ TableAddress(n) + PageSize = TableBase + n * PageSize
  BY TableLies
<1>2. PICK d \in Nat : n = m + 1 + d
  <2>1. n - m - 1 \in Nat /\ n = m + 1 + (n - m - 1)
    OBVIOUS
  <2> QED  BY <2>1
<1>3. /\ n * PageSize = m * PageSize + PageSize + d * PageSize
      /\ m * PageSize \in Nat /\ d * PageSize \in Nat
  BY <1>2
<1>4. TableAddress(m) < TableAddress(n)
  BY <1>1, <1>3
<1> QED  BY <1>1, <1>4 DEF Naming

\* A tree with a new table, named by an unused slot, is a tree.
LEMMA GrownIsTree ==
  ASSUME RamOK, NEW ts, NEW level, Tree(ts, level),
         NEW at \in 1 .. Len(ts), level[at] \in {1, 2},
         NEW slot \in SlotSet, ts[at][slot] = 0,
         TableBase + (Len(ts) + 1) * PageSize <= PaEnd
  PROVE  Tree(Grown(ts, at, slot), Deepened(level, at, Len(ts)))
<1> DEFINE n == Len(ts)
<1>1. n \in Nat /\ n >= 2 /\ level \in [1 .. n -> 1 .. 3]
  BY DEF Tree, TablesOK
<1> PICK g : g = Grown(ts, at, slot)
  OBVIOUS
<1> PICK lev : lev = Deepened(level, at, n)
  OBVIOUS
<1>2. /\ g \in Seq([SlotSet -> Nat]) /\ Len(g) = n + 1
      /\ \A t \in 1 .. n, s \in SlotSet :
           g[t][s] = IF t = at /\ s = slot THEN Naming(n + 1) ELSE ts[t][s]
      /\ \A s \in SlotSet : g[n + 1][s] = 0
  <2>1. TablesOK(ts)
    BY DEF Tree
  <2>2. OneMore(ts, at, slot, Grown(ts, at, slot))
    BY <2>1, GrownEntries
  <2> QED  BY <2>2 DEF OneMore
<1>3. /\ lev \in [1 .. n + 1 -> 1 .. 3] /\ lev[n + 1] = level[at] + 1
      /\ \A t \in 1 .. n : lev[t] = level[t]
  BY <1>1 DEF Deepened
<1> HIDE DEF n
<1>4. TablesOK(g)
  BY <1>1, <1>2 DEF TablesOK, n
<1>5. lev[LowRoot] = 1 /\ lev[HighRoot] = 1
  BY <1>1, <1>3 DEF Tree, LowRoot, HighRoot
<1>6. ASSUME NEW t \in 1 .. n + 1, NEW s \in SlotSet, g[t][s] # 0
      PROVE  IF lev[t] = 3
               THEN \E pa \in Frames : g[t][s] = pa + PageBits
               ELSE \E m \in 3 .. n + 1 : g[t][s] = Naming(m) /\ lev[m] = lev[t] + 1
  <2>1. t \in 1 .. n
    BY <1>1, <1>2, <1>6
  <2>2. CASE t = at /\ s = slot
    <3>1. lev[t] # 3 /\ lev[n + 1] = lev[t] + 1 /\ g[t][s] = Naming(n + 1)
      BY <1>2, <1>3, <2>1, <2>2
    <3>2. n + 1 \in 3 .. n + 1
      BY <1>1
    <3> QED  BY <3>1, <3>2
  <2>3. CASE ~ (t = at /\ s = slot)
    <3>1. g[t][s] = ts[t][s] /\ lev[t] = level[t]
      BY <1>2, <1>3, <2>1, <2>3
    <3>2. IF level[t] = 3
            THEN \E pa \in Frames : ts[t][s] = pa + PageBits
            ELSE \E m \in 3 .. n : ts[t][s] = Naming(m) /\ level[m] = level[t] + 1
      BY <1>6, <2>1, <3>1 DEF Tree, n
    <3>3. CASE level[t] = 3
      BY <3>1, <3>2, <3>3
    <3>4. CASE level[t] # 3
      <4>1. PICK m \in 3 .. n : ts[t][s] = Naming(m) /\ level[m] = level[t] + 1
        BY <3>2, <3>4
      <4>2. lev[m] = level[m] /\ m \in 3 .. n + 1
        BY <1>1, <1>3
      <4> QED  BY <3>1, <3>4, <4>1, <4>2
    <3> QED  BY <3>3, <3>4
  <2> QED  BY <2>2, <2>3
<1>7. ASSUME NEW t \in 1 .. n, NEW s \in SlotSet, ts[t][s] # 0, level[t] < 3
      PROVE  ts[t][s] # Naming(n + 1)
  <2>1. level[t] # 3
    BY <1>1, <1>7
  <2>2. PICK m \in 3 .. n : ts[t][s] = Naming(m)
    BY <1>7, <2>1 DEF Tree, n
  <2>3. m \in Nat \ {0} /\ n + 1 \in Nat \ {0} /\ m < n + 1
    BY <1>1
  <2> QED  BY <2>2, <2>3, NamesDiffer
<1>8. ASSUME NEW t \in 1 .. n + 1, NEW u \in 1 .. n + 1,
             NEW s \in SlotSet, NEW r \in SlotSet,
             g[t][s] # 0, g[t][s] = g[u][r], lev[t] < 3, lev[u] < 3
      PROVE  t = u /\ s = r
  <2>1. t \in 1 .. n /\ u \in 1 .. n
    <3>1. t # n + 1 /\ u # n + 1
      BY <1>2, <1>8
    <3> QED  BY <1>1, <3>1
  <2>2. lev[t] = level[t] /\ lev[u] = level[u]
    BY <1>3, <2>1
  <2>3. CASE t = at /\ s = slot /\ ~ (u = at /\ r = slot)
    <3>1. ts[u][r] = Naming(n + 1) /\ ts[u][r] # 0
      BY <1>2, <1>8, <2>1, <2>3
    <3> QED  BY <1>7, <1>8, <2>1, <2>2, <3>1
  <2>4. CASE ~ (t = at /\ s = slot) /\ u = at /\ r = slot
    <3>1. ts[t][s] = Naming(n + 1) /\ ts[t][s] # 0
      BY <1>2, <1>8, <2>1, <2>4
    <3> QED  BY <1>7, <1>8, <2>1, <2>2, <3>1
  <2>5. CASE ~ (t = at /\ s = slot) /\ ~ (u = at /\ r = slot)
    <3>1. ts[t][s] # 0 /\ ts[t][s] = ts[u][r]
      BY <1>2, <1>8, <2>1, <2>5
    <3>2. level[t] < 3 /\ level[u] < 3
      BY <1>8, <2>2
    <3>3. \A i, j \in 1 .. n, p, q \in SlotSet :
            (ts[i][p] # 0 /\ ts[i][p] = ts[j][q] /\ level[i] < 3 /\ level[j] < 3)
              => i = j /\ p = q
      BY Zenon DEF Tree, n
    <3> QED  BY ONLY <2>1, <3>1, <3>2, <3>3, s \in SlotSet, r \in SlotSet
  <2> QED  BY <2>3, <2>4, <2>5
<1>9. Len(g) = n + 1 /\ lev \in [1 .. n + 1 -> 1 .. 3]
  BY <1>2, <1>3
<1>10. lev \in [1 .. Len(g) -> 1 .. 3]
  BY <1>9
<1>11. \A t \in 1 .. Len(g), s \in SlotSet :
         g[t][s] # 0 =>
           IF lev[t] = 3
             THEN \E pa \in Frames : g[t][s] = pa + PageBits
             ELSE \E m \in 3 .. Len(g) : g[t][s] = Naming(m) /\ lev[m] = lev[t] + 1
  <2>1. \A t \in 1 .. n + 1, s \in SlotSet :
          g[t][s] # 0 =>
            IF lev[t] = 3
              THEN \E pa \in Frames : g[t][s] = pa + PageBits
              ELSE \E m \in 3 .. n + 1 : g[t][s] = Naming(m) /\ lev[m] = lev[t] + 1
    <3> TAKE t \in 1 .. n + 1, s \in SlotSet
    <3> HAVE g[t][s] # 0
    <3> QED  BY ONLY <1>6, g[t][s] # 0, t \in 1 .. n + 1, s \in SlotSet, Zenon
  <2>2. n + 1 = Len(g)
    BY <1>9
  <2> QED  BY ONLY <2>1, <2>2
<1>12. \A t, u \in 1 .. Len(g), s, r \in SlotSet :
         (g[t][s] # 0 /\ g[t][s] = g[u][r] /\ lev[t] < 3 /\ lev[u] < 3)
           => t = u /\ s = r
  <2>1. \A t, u \in 1 .. n + 1, s, r \in SlotSet :
          (g[t][s] # 0 /\ g[t][s] = g[u][r] /\ lev[t] < 3 /\ lev[u] < 3)
            => t = u /\ s = r
    <3> TAKE t, u \in 1 .. n + 1, s, r \in SlotSet
    <3> HAVE g[t][s] # 0 /\ g[t][s] = g[u][r] /\ lev[t] < 3 /\ lev[u] < 3
    <3> QED  BY <1>8, Zenon
  <2>2. n + 1 = Len(g)
    BY <1>9
  <2> QED  BY ONLY <2>1, <2>2
<1>13. Tree(g, lev)
  BY <1>4, <1>5, <1>10, <1>11, <1>12, Zenon DEF Tree
<1>14. g = Grown(ts, at, slot) /\ lev = Deepened(level, at, Len(ts))
  BY DEF n
<1> QED  BY <1>13, <1>14, Zenon

\* Where the slots of a grown tree lead: as before, but for one.
LEMMA GrownLeads ==
  ASSUME RamOK, NEW ts, TablesOK(ts), NEW at \in 1 .. Len(ts), NEW slot \in SlotSet,
         TableBase + (Len(ts) + 1) * PageSize <= PaEnd,
         NEW g, g = Grown(ts, at, slot)
  PROVE  /\ NextIn(g, at, slot) = Len(ts) + 1
         /\ \A t \in 0 .. Len(ts), s \in SlotSet :
              ~ (t = at /\ s = slot) =>
                /\ EntryIn(g, t, s) = EntryIn(ts, t, s)
                /\ NextIn(g, t, s) = NextIn(ts, t, s)
         /\ \A s \in SlotSet :
              EntryIn(g, Len(ts) + 1, s) = 0 /\ NextIn(g, Len(ts) + 1, s) = 0
<1>1. OneMore(ts, at, slot, g)
  BY GrownEntries
<1>2. Len(ts) \in Nat /\ DOMAIN ts = 1 .. Len(ts)
  BY DEF TablesOK
<1>3. NextIn(g, at, slot) = Len(ts) + 1
  <2>1. EntryIn(g, at, slot) = Naming(Len(ts) + 1)
    BY <1>1, <1>2 DEF OneMore, EntryIn
  <2>2. Len(ts) + 1 \in Nat \ {0}
    BY <1>2
  <2>3. /\ Naming(Len(ts) + 1) \in Nat \ {0}
        /\ TableAt(Naming(Len(ts) + 1)) = Len(ts) + 1
    BY <2>2, TableHolds DEF Naming
  <2> QED  BY <2>1, <2>3 DEF NextIn
<1>4. ASSUME NEW t \in 0 .. Len(ts), NEW s \in SlotSet, ~ (t = at /\ s = slot)
      PROVE  EntryIn(g, t, s) = EntryIn(ts, t, s) /\ NextIn(g, t, s) = NextIn(ts, t, s)
  <2>1. CASE t = 0
    BY <1>1, <1>2, <2>1 DEF OneMore, EntryIn, NextIn
  <2>2. CASE t # 0
    <3>1. t \in DOMAIN ts /\ t \in DOMAIN g /\ g[t][s] = ts[t][s]
      BY <1>1, <1>2, <1>4, <2>2 DEF OneMore
    <3> QED  BY <3>1 DEF EntryIn, NextIn
  <2> QED  BY <2>1, <2>2
<1>5. \A s \in SlotSet : EntryIn(g, Len(ts) + 1, s) = 0
  BY <1>1, <1>2 DEF OneMore, EntryIn
<1> QED  BY <1>3, <1>4, <1>5 DEF NextIn

\* The tables on the way to a page.
LEMMA PathIsDown ==
  ASSUME RamOK, NEW ts, NEW level, Tree(ts, level), NEW va \in Nat
  PROVE  LET mid == NextIn(ts, Home(va), Slot(va, 1)) IN
         /\ Home(va) \in 1 .. Len(ts) /\ level[Home(va)] = 1
         /\ mid \in 0 .. Len(ts) /\ (mid # 0 => level[mid] = 2)
         /\ LeafTable(ts, va) \in 0 .. Len(ts)
         /\ LeafTable(ts, va) # 0 => mid # 0 /\ level[LeafTable(ts, va)] = 3
<1> DEFINE mid == NextIn(ts, Home(va), Slot(va, 1))
<1>1. Slot(va, 1) \in SlotSet /\ Slot(va, 2) \in SlotSet
  BY SlotsInRange
<1>2. Home(va) \in 1 .. Len(ts) /\ level[Home(va)] = 1
  BY DEF Home, LowRoot, HighRoot, Tree, TablesOK
<1>3. mid \in 0 .. Len(ts) /\ (mid # 0 => level[mid] = 2)
  <2>1. Home(va) \in 0 .. Len(ts) /\ level[Home(va)] \in {1, 2} /\ Len(ts) \in Nat
    BY <1>2 DEF Tree, TablesOK
  <2>2. /\ NextIn(ts, Home(va), Slot(va, 1)) \in 0 .. Len(ts)
        /\ NextIn(ts, Home(va), Slot(va, 1)) # 0 =>
             level[NextIn(ts, Home(va), Slot(va, 1))] = level[Home(va)] + 1
    BY <1>1, <2>1, NextIsBelow
  <2> QED  BY <1>2, <2>2
<1>4. LeafTable(ts, va) = NextIn(ts, mid, Slot(va, 2))
  BY DEF LeafTable
<1> HIDE DEF mid
<1>5. /\ NextIn(ts, mid, Slot(va, 2)) \in 0 .. Len(ts)
      /\ NextIn(ts, mid, Slot(va, 2)) # 0 =>
           mid # 0 /\ level[NextIn(ts, mid, Slot(va, 2))] = level[mid] + 1
  <2>1. mid # 0 => level[mid] \in {1, 2}
    BY <1>3
  <2> QED  BY <1>1, <1>3, <2>1, NextIsBelow
<1> QED  BY <1>2, <1>3, <1>4, <1>5 DEF mid

\* A new table leads no page astray.
LEMMA GrownKeepsLeaves ==
  ASSUME RamOK, NEW ts, NEW level, Tree(ts, level),
         NEW at \in 1 .. Len(ts), level[at] \in {1, 2},
         NEW slot \in SlotSet, ts[at][slot] = 0,
         TableBase + (Len(ts) + 1) * PageSize <= PaEnd,
         NEW va \in Nat, NEW g, g = Grown(ts, at, slot)
  PROVE  Leaf(g, va) = Leaf(ts, va)
<1>1. TablesOK(ts) /\ Len(ts) \in Nat /\ DOMAIN ts = 1 .. Len(ts)
  BY DEF Tree, TablesOK
<1>2. PICK s1, s2, s3 :
        /\ s1 = Slot(va, 1) /\ s2 = Slot(va, 2) /\ s3 = Slot(va, 3)
        /\ {s1, s2, s3} \subseteq SlotSet
  BY SlotsInRange
<1>3. PICK root, mid, bottom :
        /\ root = Home(va) /\ mid = NextIn(ts, root, s1) /\ bottom = NextIn(ts, mid, s2)
  OBVIOUS
<1>4. /\ root \in 1 .. Len(ts) /\ level[root] = 1
      /\ mid \in 0 .. Len(ts) /\ (mid # 0 => level[mid] = 2)
      /\ bottom \in 0 .. Len(ts) /\ (bottom # 0 => mid # 0 /\ level[bottom] = 3)
  BY <1>2, <1>3, PathIsDown DEF LeafTable
<1>5. /\ NextIn(g, at, slot) = Len(ts) + 1
      /\ \A t \in 0 .. Len(ts), s \in SlotSet :
           ~ (t = at /\ s = slot) =>
             /\ EntryIn(g, t, s) = EntryIn(ts, t, s)
             /\ NextIn(g, t, s) = NextIn(ts, t, s)
      /\ \A s \in SlotSet :
           EntryIn(g, Len(ts) + 1, s) = 0 /\ NextIn(g, Len(ts) + 1, s) = 0
  BY <1>1, GrownLeads
<1>6. NextIn(ts, at, slot) = 0 /\ NextIn(ts, 0, s2) = 0
  BY <1>1 DEF NextIn, EntryIn
<1>7. /\ EntryIn(g, 0, s3) = 0 /\ EntryIn(ts, 0, s3) = 0
      /\ NextIn(g, 0, s2) = 0
  <2>1. at # 0 /\ 0 \in 0 .. Len(ts)
    BY <1>1
  <2>2. EntryIn(ts, 0, s3) = 0
    BY <1>1 DEF EntryIn
  <2> QED  BY <1>2, <1>5, <1>6, <2>1, <2>2
<1>8. Leaf(ts, va) = EntryIn(ts, bottom, s3)
  BY <1>2, <1>3 DEF Leaf, LeafTable
<1>9. Leaf(g, va) = EntryIn(g, NextIn(g, NextIn(g, root, s1), s2), s3)
  BY <1>2, <1>3 DEF Leaf, LeafTable
<1>10. CASE root = at /\ s1 = slot
  <2>1. NextIn(g, root, s1) = Len(ts) + 1 /\ mid = 0
    BY <1>3, <1>5, <1>6, <1>10
  <2>2. bottom = 0 /\ NextIn(g, NextIn(g, root, s1), s2) = 0
    BY <1>2, <1>3, <1>5, <1>6, <2>1
  <2> QED  BY <1>7, <1>8, <1>9, <2>2
<1>11. CASE ~ (root = at /\ s1 = slot)
  <2>1. NextIn(g, root, s1) = mid
    BY <1>2, <1>3, <1>4, <1>5, <1>11
  <2>2. CASE mid = at /\ s2 = slot
    <3>1. NextIn(g, mid, s2) = Len(ts) + 1 /\ bottom = 0
      BY <1>3, <1>5, <1>6, <2>2
    <3> QED  BY <1>2, <1>5, <1>7, <1>8, <1>9, <2>1, <3>1
  <2>3. CASE ~ (mid = at /\ s2 = slot)
    <3>1. NextIn(g, mid, s2) = bottom
      BY <1>2, <1>3, <1>4, <1>5, <2>3
    <3>2. bottom # at
      BY <1>4
    <3>3. EntryIn(g, bottom, s3) = EntryIn(ts, bottom, s3)
      BY <1>2, <1>4, <1>5, <3>2
    <3> QED  BY <1>8, <1>9, <2>1, <3>1, <3>3
  <2> QED  BY <2>2, <2>3
<1> QED  BY <1>10, <1>11

-----------------------------------------------------------------------------
(* Virtual pages *)

HalfPages == Slots * Slots * Slots

\* A half is so many pages.
LEMMA HalfIsPages == HalfPages \in Nat \ {0} /\ LowEnd = HalfPages * PageSize
<1> USE Geometry
<1>1. Slots * Slots \in Nat \ {0}
  OBVIOUS
<1>2. Slots * Slots * Slots \in Nat \ {0}
  BY <1>1
<1>3. PageSize * Slots * Slots = PageSize * (Slots * Slots)
  OBVIOUS
<1>4. ASSUME NEW a \in Nat, NEW b \in Nat, NEW c \in Nat
      PROVE  (a * b) * c = a * (b * c) /\ a * b = b * a
  OBVIOUS
<1>5. PageSize * Slots * Slots * Slots = PageSize * (Slots * Slots * Slots)
  BY <1>1, <1>3, <1>4
<1>6. LowEnd = PageSize * HalfPages
  BY <1>5 DEF LowEnd, HalfPages
<1>7. HalfPages \in Nat \ {0}
  BY <1>2 DEF HalfPages
<1> QED  BY <1>4, <1>6, <1>7

\* The low pages are the multiples of the page size in the lower half.
LEMMA LowPageIs ==
  ASSUME NEW v
  PROVE  v \in LowPages <=> v \in Nat /\ v % PageSize = 0 /\ v < LowEnd
<1> USE Geometry
<1>1. HalfPages \in Nat \ {0} /\ LowEnd = HalfPages * PageSize
  BY HalfIsPages
<1>2. LowPages = {n * PageSize : n \in 0 .. HalfPages - 1}
  BY DEF LowPages, HalfPages
<1>3. ASSUME v \in LowPages
      PROVE  v \in Nat /\ v % PageSize = 0 /\ v < LowEnd
  <2>1. PICK n \in 0 .. HalfPages - 1 : v = n * PageSize
    BY <1>2, <1>3
  <2>2. n \in Nat /\ 0 \in 0 .. PageSize - 1
    BY <1>1, <2>1
  <2>3. (n * PageSize + 0) % PageSize = 0 /\ n * PageSize \in Nat
    BY <2>2, QuotientIs
  <2>4. PICK d \in Nat : HalfPages = n + 1 + d
    <3>1. HalfPages - n - 1 \in Nat /\ HalfPages = n + 1 + (HalfPages - n - 1)
      BY <1>1, <2>1
    <3> QED  BY <3>1
  <2>5. HalfPages * PageSize = n * PageSize + PageSize + d * PageSize /\ d * PageSize \in Nat
    BY <2>2, <2>4
  <2>6. n * PageSize + 0 = n * PageSize
    BY <2>3
  <2> QED  BY <1>1, <2>1, <2>3, <2>5, <2>6
<1>4. ASSUME v \in Nat, v % PageSize = 0, v < LowEnd
      PROVE  v \in LowPages
  <2> DEFINE n == v \div PageSize
  <2>1. n \in Nat /\ v = n * PageSize + (v % PageSize) /\ n * PageSize \in Nat
    BY <1>4, DivisionHolds
  <2> HIDE DEF n
  <2>2. v = n * PageSize
    BY <1>4, <2>1
  <2>3. n <= HalfPages - 1
    <3>1. SUFFICES ASSUME n >= HalfPages
                   PROVE  FALSE
      BY <1>1, <2>1
    <3>2. PICK d \in Nat : n = HalfPages + d
      <4>1. n - HalfPages \in Nat /\ n = HalfPages + (n - HalfPages)
        BY <1>1, <2>1, <3>1
      <4> QED  BY <4>1
    <3>3. n * PageSize = HalfPages * PageSize + d * PageSize
          /\ HalfPages * PageSize \in Nat /\ d * PageSize \in Nat
      BY <1>1, <3>2
    <3> QED  BY <1>1, <1>4, <2>2, <3>3
  <2>4. n \in 0 .. HalfPages - 1
    BY <1>1, <2>1, <2>3
  <2> QED  BY <1>2, <2>2, <2>4
<1> QED  BY <1>3, <1>4

\* The first high page lies on a page.
LEMMA HighStartIsPage == HighStart \in Nat /\ HighStart % PageSize = 0
<1> USE Geometry
<1>1. PICK h \in Nat : HighStart = h * LowEnd
  OBVIOUS
<1>2. HalfPages \in Nat \ {0} /\ LowEnd = HalfPages * PageSize
  BY HalfIsPages
<1>3. ASSUME NEW a \in Nat, NEW b \in Nat, NEW c \in Nat
      PROVE  (a * b) * c = a * (b * c) /\ a * b \in Nat
  OBVIOUS
<1>4. HighStart = (h * HalfPages) * PageSize /\ h * HalfPages \in Nat
  BY <1>1, <1>2, <1>3
<1>5. ASSUME NEW b \in Nat
      PROVE  (b * PageSize) % PageSize = 0
  <2>1. (b * PageSize + 0) % PageSize = 0 /\ b * PageSize \in Nat
    BY QuotientIs
  <2>2. b * PageSize + 0 = b * PageSize
    BY <2>1
  <2> QED  BY <2>1, <2>2
<1> QED  BY <1>4, <1>5

\* The virtual pages are the multiples of the page size in the two halves.
LEMMA VirtualPageIs ==
  ASSUME NEW v
  PROVE  v \in VirtualPages <=>
           /\ v \in Nat /\ v % PageSize = 0
           /\ v < LowEnd \/ (HighStart <= v /\ v <= MaxAddress)
<1> USE Geometry
<1>1. HighStart \in Nat /\ HighStart % PageSize = 0
  BY HighStartIsPage
<1>2. ASSUME v \in HighPages
      PROVE  /\ v \in Nat /\ v % PageSize = 0
             /\ HighStart <= v /\ v <= MaxAddress
  <2>1. PICK page \in LowPages : v = HighStart + page
    BY <1>2 DEF HighPages
  <2>2. page \in Nat /\ page % PageSize = 0 /\ page < LowEnd
    BY <2>1, LowPageIs
  <2>3. (HighStart + page) % PageSize = 0
    BY <1>1, <2>2, MultiplesAdd
  <2> QED  BY <1>1, <2>1, <2>2, <2>3
<1>3. ASSUME v \in Nat, v % PageSize = 0, HighStart <= v, v <= MaxAddress
      PROVE  v \in HighPages
  <2>1. v - HighStart \in Nat /\ v = HighStart + (v - HighStart) /\ v - HighStart < LowEnd
    BY <1>1, <1>3
  <2>2. (v - HighStart) % PageSize = 0
    BY <1>1, <1>3, MultiplesAdd
  <2>3. v - HighStart \in LowPages
    BY <2>1, <2>2, LowPageIs
  <2> QED  BY <2>1, <2>3 DEF HighPages
<1>4. v \in LowPages <=> v \in Nat /\ v % PageSize = 0 /\ v < LowEnd
  BY LowPageIs
<1> QED  BY <1>2, <1>3, <1>4 DEF VirtualPages

\* The slots and the half that an address is in tell a page from all others.
LEMMA SlotsNamePages ==
  ASSUME NEW v \in VirtualPages, NEW w \in VirtualPages, Home(v) = Home(w),
         \A level \in {1, 2, 3} : Slot(v, level) = Slot(w, level)
  PROVE  v = w
<1> USE Geometry
<1>1. /\ v \in Nat /\ v % PageSize = 0 /\ w \in Nat /\ w % PageSize = 0
      /\ v < LowEnd \/ (HighStart <= v /\ v <= MaxAddress)
      /\ w < LowEnd \/ (HighStart <= w /\ w <= MaxAddress)
  BY VirtualPageIs
<1>2. PICK h \in Nat : HighStart = h * LowEnd
  OBVIOUS
<1>3. ASSUME NEW x \in Nat, HighStart <= x, x <= MaxAddress
      PROVE  x \div LowEnd = h
  <2>1. x - HighStart \in 0 .. LowEnd - 1 /\ x = HighStart + (x - HighStart)
    BY <1>3
  <2>2. x = h * LowEnd + (x - HighStart)
    BY <1>2, <2>1
  <2> QED  BY <2>1, <2>2, QuotientIs
<1>4. ASSUME NEW x \in Nat, x < LowEnd
      PROVE  x \div LowEnd = 0
  <2>1. x \in 0 .. LowEnd - 1
    BY <1>4
  <2> QED  BY <2>1, SmallRemainder
<1>5. v < LowEnd <=> w < LowEnd
  BY DEF Home, LowRoot, HighRoot
<1>6. v \div LowEnd = w \div LowEnd
  BY <1>1, <1>3, <1>4, <1>5
<1> QED  BY <1>1, <1>6, SameSlots

-----------------------------------------------------------------------------
(* A new page *)

Settled(ts, at, slot, d) == [ts EXCEPT ![at][slot] = d]

OneChanged(ts, at, slot, d, g) ==
  /\ Len(g) = Len(ts) /\ DOMAIN g = 1 .. Len(ts) /\ DOMAIN ts = 1 .. Len(ts)
  /\ \A t \in 1 .. Len(ts), s \in SlotSet :
       g[t][s] = IF t = at /\ s = slot THEN d ELSE ts[t][s]

\* A page of RAM in a slot of the last level.
LEMMA SettledIsTree ==
  ASSUME RamOK, NEW ts, NEW level, Tree(ts, level), NEW at \in 1 .. Len(ts),
         level[at] = 3, NEW slot \in SlotSet, NEW pa \in Frames,
         NEW g, g = Settled(ts, at, slot, pa + PageBits)
  PROVE  Tree(g, level) /\ OneChanged(ts, at, slot, pa + PageBits, g)
<1>1. ts \in Seq([SlotSet -> Nat]) /\ Len(ts) \in Nat /\ DOMAIN ts = 1 .. Len(ts)
  BY DEF Tree, TablesOK
<1>2. pa + PageBits \in Nat \ {0}
  <2>1. pa \in Nat
    BY DEF Frames
  <2>2. PageSize \in Nat /\ PageBits \in 1 .. PageSize - 1
    BY Geometry
  <2> QED  BY <2>1, <2>2
<1> PICK e : e = pa + PageBits
  OBVIOUS
<1>3. ts[at] \in [SlotSet -> Nat] /\ g = [ts EXCEPT ![at][slot] = e]
  BY <1>1 DEF Settled
<1>4. [ts[at] EXCEPT ![slot] = e] \in [SlotSet -> Nat]
  BY <1>2, <1>3
<1>5. g \in Seq([SlotSet -> Nat]) /\ Len(g) = Len(ts) /\ DOMAIN g = 1 .. Len(ts)
  <2>1. PICK R, f : R = [SlotSet -> Nat] /\ f = [ts[at] EXCEPT ![slot] = e]
    OBVIOUS
  <2>2. ts \in Seq(R) /\ f \in R /\ g = [ts EXCEPT ![at] = f]
    BY <1>1, <1>3, <1>4, <2>1
  <2>3. ASSUME NEW q \in Seq(R), NEW i \in 1 .. Len(q), NEW z \in R
        PROVE  /\ [q EXCEPT ![i] = z] \in Seq(R) /\ Len([q EXCEPT ![i] = z]) = Len(q)
               /\ DOMAIN [q EXCEPT ![i] = z] = 1 .. Len(q)
    OBVIOUS
  <2>4. g \in Seq(R) /\ Len(g) = Len(ts) /\ DOMAIN g = 1 .. Len(ts)
    BY <2>2, <2>3
  <2> QED  BY <2>1, <2>4
<1>6. \A t \in 1 .. Len(ts), s \in SlotSet :
        g[t][s] = IF t = at /\ s = slot THEN e ELSE ts[t][s]
  BY <1>1, <1>3
<1>7. TablesOK(g)
  BY <1>5 DEF Tree, TablesOK
<1>8. ASSUME NEW t \in 1 .. Len(ts), NEW s \in SlotSet, g[t][s] # 0
      PROVE  IF level[t] = 3
               THEN \E pb \in Frames : g[t][s] = pb + PageBits
               ELSE \E m \in 3 .. Len(ts) : g[t][s] = Naming(m) /\ level[m] = level[t] + 1
  <2>1. CASE t = at /\ s = slot
    BY <1>6, <2>1
  <2>2. CASE ~ (t = at /\ s = slot)
    <3>1. g[t][s] = ts[t][s]
      BY <1>6, <2>2
    <3> QED  BY <1>8, <3>1 DEF Tree
  <2> QED  BY <2>1, <2>2
<1>9. ASSUME NEW t \in 1 .. Len(ts), NEW u \in 1 .. Len(ts),
             NEW s \in SlotSet, NEW r \in SlotSet,
             g[t][s] # 0, g[t][s] = g[u][r], level[t] < 3, level[u] < 3
      PROVE  t = u /\ s = r
  <2>1. t # at /\ u # at
    BY <1>9
  <2>2. g[t][s] = ts[t][s] /\ g[u][r] = ts[u][r]
    BY <1>6, <2>1
  <2> QED  BY <1>9, <2>2 DEF Tree
<1>10. Tree(g, level)
  BY <1>5, <1>7, <1>8, <1>9 DEF Tree
<1> QED  BY <1>1, <1>5, <1>6, <1>10 DEF OneChanged

\* The way to a page is the page's own.
LEMMA PathsArePrivate ==
  ASSUME RamOK, NEW ts, NEW level, Tree(ts, level),
         NEW v \in VirtualPages, NEW w \in VirtualPages,
         LeafTable(ts, v) # 0, LeafTable(ts, v) = LeafTable(ts, w),
         Slot(v, 3) = Slot(w, 3)
  PROVE  v = w
<1> DEFINE Mid(x) == NextIn(ts, Home(x), Slot(x, 1))
<1>1. v \in Nat /\ w \in Nat
  BY VirtualPageIs
<1>2. ASSUME NEW x \in Nat, LeafTable(ts, x) # 0
      PROVE  /\ Home(x) \in 1 .. Len(ts) /\ level[Home(x)] = 1
             /\ Mid(x) \in 1 .. Len(ts) /\ level[Mid(x)] = 2
             /\ ts[Home(x)][Slot(x, 1)] = Naming(Mid(x)) /\ ts[Home(x)][Slot(x, 1)] # 0
             /\ ts[Mid(x)][Slot(x, 2)] = Naming(LeafTable(ts, x))
             /\ ts[Mid(x)][Slot(x, 2)] # 0
             /\ Slot(x, 1) \in SlotSet /\ Slot(x, 2) \in SlotSet
  <2>1. Slot(x, 1) \in SlotSet /\ Slot(x, 2) \in SlotSet
    BY SlotsInRange
  <2>2. /\ Home(x) \in 1 .. Len(ts) /\ level[Home(x)] = 1
        /\ Mid(x) \in 0 .. Len(ts) /\ (Mid(x) # 0 => level[Mid(x)] = 2) /\ Mid(x) # 0
    BY <1>2, PathIsDown
  <2>3. Len(ts) \in Nat
    BY DEF Tree, TablesOK
  <2>4. ts[Home(x)][Slot(x, 1)] = Naming(Mid(x)) /\ ts[Home(x)][Slot(x, 1)] # 0
    <3>1. Home(x) \in 0 .. Len(ts) /\ level[Home(x)] \in {1, 2}
      BY <2>2, <2>3
    <3> QED  BY <2>1, <2>2, <3>1, NextIsBelow
  <2>5. LeafTable(ts, x) = NextIn(ts, Mid(x), Slot(x, 2))
    BY DEF LeafTable
  <2> HIDE DEF Mid
  <2>6. /\ ts[Mid(x)][Slot(x, 2)] = Naming(NextIn(ts, Mid(x), Slot(x, 2)))
        /\ ts[Mid(x)][Slot(x, 2)] # 0
    <3>1. level[Mid(x)] \in {1, 2}
      BY <2>2
    <3> QED  BY <1>2, <2>1, <2>2, <2>5, <3>1, NextIsBelow
  <2> QED  BY <2>1, <2>2, <2>3, <2>4, <2>5, <2>6
<1> HIDE DEF Mid
<1>3. LeafTable(ts, w) # 0
  OBVIOUS
<1>4. Mid(v) = Mid(w) /\ Slot(v, 2) = Slot(w, 2)
  <2>1. PICK a, b, s, r : a = Mid(v) /\ b = Mid(w) /\ s = Slot(v, 2) /\ r = Slot(w, 2)
    OBVIOUS
  <2>2. /\ a \in 1 .. Len(ts) /\ b \in 1 .. Len(ts) /\ s \in SlotSet /\ r \in SlotSet
        /\ ts[a][s] # 0 /\ ts[a][s] = ts[b][r] /\ level[a] < 3 /\ level[b] < 3
    BY <1>1, <1>2, <1>3, <2>1
  <2> QED  BY <2>1, <2>2 DEF Tree
<1>5. Home(v) = Home(w) /\ Slot(v, 1) = Slot(w, 1)
  <2>1. PICK a, b, s, r : a = Home(v) /\ b = Home(w) /\ s = Slot(v, 1) /\ r = Slot(w, 1)
    OBVIOUS
  <2>2. /\ a \in 1 .. Len(ts) /\ b \in 1 .. Len(ts) /\ s \in SlotSet /\ r \in SlotSet
        /\ ts[a][s] # 0 /\ ts[a][s] = ts[b][r] /\ level[a] < 3 /\ level[b] < 3
    BY <1>1, <1>2, <1>3, <1>4, <2>1
  <2> QED  BY <2>1, <2>2 DEF Tree
<1> QED  BY <1>4, <1>5, SlotsNamePages

\* The ways to all pages stay; one page is at the end of its way now.
LEMMA SettledLeaves ==
  ASSUME RamOK, NEW ts, NEW level, Tree(ts, level), NEW va \in VirtualPages,
         LeafTable(ts, va) # 0, NEW pa \in Frames,
         NEW g, g = Settled(ts, LeafTable(ts, va), Slot(va, 3), pa + PageBits)
  PROVE  /\ Tree(g, level) /\ Len(g) = Len(ts)
         /\ Leaf(g, va) = pa + PageBits
         /\ \A w \in VirtualPages : w # va => Leaf(g, w) = Leaf(ts, w)
<1> PICK at, slot : at = LeafTable(ts, va) /\ slot = Slot(va, 3)
  OBVIOUS
<1>1. va \in Nat /\ slot \in SlotSet
  BY VirtualPageIs, SlotsInRange
<1>2. at \in 1 .. Len(ts) /\ level[at] = 3
  <2>1. Len(ts) \in Nat
    BY DEF Tree, TablesOK
  <2>2. /\ LeafTable(ts, va) \in 0 .. Len(ts)
        /\ LeafTable(ts, va) # 0 => level[LeafTable(ts, va)] = 3
    BY <1>1, PathIsDown
  <2> QED  BY <2>1, <2>2
<1>3. /\ Tree(g, level) /\ Len(g) = Len(ts) /\ DOMAIN g = 1 .. Len(ts)
      /\ DOMAIN ts = 1 .. Len(ts)
      /\ \A t \in 1 .. Len(ts), s \in SlotSet :
           g[t][s] = IF t = at /\ s = slot THEN pa + PageBits ELSE ts[t][s]
  <2>1. g = Settled(ts, at, slot, pa + PageBits)
    OBVIOUS
  <2>2. Tree(g, level) /\ OneChanged(ts, at, slot, pa + PageBits, g)
    BY <1>1, <1>2, <2>1, SettledIsTree
  <2> QED  BY <2>2 DEF OneChanged
<1>4. ASSUME NEW t \in 0 .. Len(ts), t # 0 => level[t] < 3, NEW s \in SlotSet
      PROVE  NextIn(g, t, s) = NextIn(ts, t, s)
  <2>1. t # at
    BY <1>2, <1>4
  <2> QED  BY <1>3, <2>1 DEF NextIn, EntryIn
<1>5. ASSUME NEW w \in Nat
      PROVE  LeafTable(g, w) = LeafTable(ts, w)
  <2>1. PICK s1, s2, root, mid :
          /\ s1 = Slot(w, 1) /\ s2 = Slot(w, 2)
          /\ root = Home(w) /\ mid = NextIn(ts, root, s1)
    OBVIOUS
  <2>2. s1 \in SlotSet /\ s2 \in SlotSet
    BY <2>1, SlotsInRange
  <2>3. /\ root \in 1 .. Len(ts) /\ level[root] = 1
        /\ mid \in 0 .. Len(ts) /\ (mid # 0 => level[mid] = 2)
    BY <2>1, PathIsDown
  <2>4. NextIn(g, root, s1) = mid
    <3>1. root \in 0 .. Len(ts) /\ level[root] < 3 /\ mid = NextIn(ts, root, s1)
      BY <2>1, <2>3
    <3> QED  BY <1>4, <2>2, <3>1
  <2>5. NextIn(g, mid, s2) = NextIn(ts, mid, s2)
    <3>1. mid # 0 => level[mid] < 3
      BY <2>3
    <3> QED  BY <1>4, <2>2, <2>3, <3>1
  <2> QED  BY <2>1, <2>4, <2>5 DEF LeafTable
<1>6. Leaf(g, va) = pa + PageBits
  BY <1>1, <1>2, <1>3, <1>5 DEF Leaf, EntryIn
<1>7. ASSUME NEW w \in VirtualPages, w # va
      PROVE  Leaf(g, w) = Leaf(ts, w)
  <2>1. w \in Nat
    BY VirtualPageIs
  <2>2. LeafTable(ts, w) \in 0 .. Len(ts) /\ Slot(w, 3) \in SlotSet
    BY <2>1, PathIsDown, SlotsInRange
  <2>3. ~ (LeafTable(ts, w) = at /\ Slot(w, 3) = slot)
    BY <1>7, PathsArePrivate
  <2> QED  BY <1>3, <1>5, <2>1, <2>2, <2>3 DEF Leaf, EntryIn
<1> QED  BY <1>3, <1>6, <1>7

-----------------------------------------------------------------------------
(* One page is mapped *)

\* A table that would fit is refused only for want of memory.
LEMMA AllocationsFit ==
  ASSUME RamOK, NEW n \in Nat, NEW heap
  PROVE  \/ AllocateCheck(n, heap) = "Ok" /\ TableBase + (n + 1) * PageSize <= PaEnd
         \/ AllocateCheck(n, heap) = "Allocation"
         \/ AllocateCheck(n, heap) = "TableCapacity" /\ (n + 1) * PageSize > MaxTableBytes
<1>1. PICK m : m = (n + 1) * PageSize
  OBVIOUS
<1>2. m \in Nat
  BY <1>1, Geometry
<1>3. TableBase \in Nat /\ TableBase <= LowEnd
  BY DEF RamOK, TableBase
<1>4. CASE m > MaxTableBytes
  BY <1>1, <1>4 DEF AllocateCheck
<1>5. CASE ~ (m > MaxTableBytes)
  <2>1. TableBase + m <= PaEnd
    BY <1>2, <1>3, <1>5, Geometry
  <2>2. ~ (TableBase + m > PaEnd)
    BY <1>2, <1>3, <2>1, Geometry
  <2> QED  BY <1>1, <1>5, <2>1, <2>2 DEF AllocateCheck
<1> QED  BY <1>4, <1>5

Walk(ts, at) == [tables |-> ts, at |-> at, result |-> "Ok"]

Stopped(walk, n) ==
  \/ walk.result = "Allocation"
  \/ walk.result = "TableCapacity" /\ (n + 1) * PageSize > MaxTableBytes

\* One level down, to a table that is there or a new one.
LEMMA DescendOnce ==
  ASSUME RamOK, NEW ts, NEW level, Tree(ts, level),
         NEW at \in 1 .. Len(ts), level[at] \in {1, 2},
         NEW va \in Nat, NEW l \in {1, 2}, NEW heap,
         NEW next, next = Descend(Walk(ts, at), va, l, heap)
  PROVE  \/ NextIn(ts, at, Slot(va, l)) # 0 /\ next = Walk(ts, NextIn(ts, at, Slot(va, l)))
         \/ NextIn(ts, at, Slot(va, l)) = 0 /\ Stopped(next, Len(ts))
         \/ /\ NextIn(ts, at, Slot(va, l)) = 0 /\ ts[at][Slot(va, l)] = 0
            /\ next = Walk(Grown(ts, at, Slot(va, l)), Len(ts) + 1)
            /\ TableBase + (Len(ts) + 1) * PageSize <= PaEnd
<1> PICK slot : slot = Slot(va, l)
  OBVIOUS
<1>1. slot \in SlotSet
  BY SlotsInRange
<1>2. Len(ts) \in Nat /\ DOMAIN ts = 1 .. Len(ts)
  BY DEF Tree, TablesOK
<1>3. EntryIn(ts, at, slot) = ts[at][slot]
  BY <1>2 DEF EntryIn
<1>4. CASE ts[at][slot] # 0
  <2>1. NextIn(ts, at, slot) = TableAt(ts[at][slot])
    BY <1>3, <1>4 DEF NextIn
  <2>2. NextIn(ts, at, slot) # 0
    <3>1. at \in 0 .. Len(ts)
      BY <1>2
    <3> QED  BY <1>1, <1>3, <1>4, <3>1, NextIsBelow
  <2>3. next = [Walk(ts, at) EXCEPT !.at = TableAt(ts[at][slot])]
    BY <1>4 DEF Descend, Walk
  <2>4. next = Walk(ts, TableAt(ts[at][slot]))
    BY <2>3 DEF Walk
  <2> QED  BY <2>1, <2>2, <2>4
<1>5. CASE ts[at][slot] = 0
  <2>1. NextIn(ts, at, slot) = 0
    BY <1>3, <1>5 DEF NextIn
  <2>2. Len(ts) + 1 - 1 = Len(ts)
    BY <1>2
  <2>3. \/ AllocateCheck(Len(ts), heap) = "Ok"
             /\ TableBase + (Len(ts) + 1) * PageSize <= PaEnd
        \/ AllocateCheck(Len(ts), heap) = "Allocation"
        \/ AllocateCheck(Len(ts), heap) = "TableCapacity"
             /\ (Len(ts) + 1) * PageSize > MaxTableBytes
    BY <1>2, AllocationsFit
  <2>4. CASE AllocateCheck(Len(ts), heap) = "Ok"
    <3>1. next = [tables |-> Append([ts EXCEPT ![at][slot] =
                                       TableAddress(Len(ts) + 1) + TableBits], EmptyTable),
                  at |-> Len(ts) + 1, result |-> "Ok"]
      BY <1>5, <2>2, <2>4 DEF Descend, Walk
    <3>2. next = Walk(Grown(ts, at, slot), Len(ts) + 1)
      BY <3>1 DEF Walk, Grown, Naming
    <3> QED  BY <1>5, <2>1, <2>3, <2>4, <3>2
  <2>5. CASE AllocateCheck(Len(ts), heap) # "Ok"
    <3>1. next.result = AllocateCheck(Len(ts), heap)
      BY <1>5, <2>2, <2>5 DEF Descend, Walk
    <3> QED  BY <2>1, <2>3, <2>5, <3>1 DEF Stopped
  <2> QED  BY <2>4, <2>5
<1> QED  BY <1>4, <1>5

\* A walk that has stopped goes nowhere.
LEMMA StoppedStays ==
  ASSUME NEW walk, walk.result # "Ok", NEW va, NEW l, NEW heap
  PROVE  Descend(walk, va, l, heap) = walk
BY DEF Descend

\* What a step down makes of a tree: the slot leads on, and nothing else changes.
Stepped(ts, level, at, slot, g, lev) ==
  /\ Tree(g, lev) /\ at \in 1 .. Len(g)
  /\ NextIn(g, at, slot) \in 1 .. Len(g)
  /\ lev[NextIn(g, at, slot)] = level[at] + 1
  /\ \A w \in Nat : Leaf(g, w) = Leaf(ts, w)
  /\ \A t \in 1 .. Len(ts) :
       /\ t \in 1 .. Len(g) /\ lev[t] = level[t]
       /\ \A s \in SlotSet : ~ (t = at /\ s = slot) => NextIn(g, t, s) = NextIn(ts, t, s)
  /\ IF NextIn(ts, at, slot) # 0
       THEN g = ts /\ Len(g) = Len(ts)
       ELSE /\ Len(g) = Len(ts) + 1
            /\ \A s \in SlotSet : NextIn(g, NextIn(g, at, slot), s) = 0

\* One level down, in terms of trees.
LEMMA DescendSteps ==
  ASSUME RamOK, NEW ts, NEW level, Tree(ts, level),
         NEW at \in 1 .. Len(ts), level[at] \in {1, 2},
         NEW va \in Nat, NEW l \in {1, 2}, NEW heap,
         NEW next, next = Descend(Walk(ts, at), va, l, heap),
         NEW slot, slot = Slot(va, l)
  PROVE  \/ NextIn(ts, at, slot) = 0 /\ Stopped(next, Len(ts))
         \/ \E g, lev : Stepped(ts, level, at, slot, g, lev) /\ next = Walk(g, NextIn(g, at, slot))
<1>1. Len(ts) \in Nat /\ TablesOK(ts) /\ level \in [1 .. Len(ts) -> 1 .. 3]
  BY DEF Tree, TablesOK
<1>2. slot \in SlotSet
  BY SlotsInRange
<1>3. CASE NextIn(ts, at, slot) # 0 /\ next = Walk(ts, NextIn(ts, at, slot))
  <2>1. /\ NextIn(ts, at, slot) \in 0 .. Len(ts)
        /\ level[NextIn(ts, at, slot)] = level[at] + 1
    <3>1. at \in 0 .. Len(ts)
      BY <1>1
    <3> QED  BY <1>2, <1>3, <3>1, NextIsBelow
  <2>2. NextIn(ts, at, slot) \in 1 .. Len(ts)
    BY <1>1, <1>3, <2>1
  <2>3. Stepped(ts, level, at, slot, ts, level)
    BY <1>3, <2>1, <2>2 DEF Stepped
  <2> QED  BY <1>3, <2>3
<1>4. CASE /\ NextIn(ts, at, slot) = 0 /\ ts[at][slot] = 0
           /\ next = Walk(Grown(ts, at, slot), Len(ts) + 1)
           /\ TableBase + (Len(ts) + 1) * PageSize <= PaEnd
  <2>1. PICK g, lev : g = Grown(ts, at, slot) /\ lev = Deepened(level, at, Len(ts))
    OBVIOUS
  <2>2. Tree(g, lev)
    BY <1>2, <1>4, <2>1, GrownIsTree
  <2>3. /\ NextIn(g, at, slot) = Len(ts) + 1
        /\ \A t \in 0 .. Len(ts), s \in SlotSet :
             ~ (t = at /\ s = slot) => NextIn(g, t, s) = NextIn(ts, t, s)
        /\ \A s \in SlotSet : NextIn(g, Len(ts) + 1, s) = 0
    BY <1>1, <1>2, <1>4, <2>1, GrownLeads
  <2>4. \A w \in Nat : Leaf(g, w) = Leaf(ts, w)
    BY <1>2, <1>4, <2>1, GrownKeepsLeaves
  <2>5. Len(g) = Len(ts) + 1
    BY <1>1, <1>2, <2>1, GrownEntries DEF OneMore
  <2>6. /\ lev[Len(ts) + 1] = level[at] + 1
        /\ \A t \in 1 .. Len(ts) : lev[t] = level[t]
    BY <1>1, <2>1 DEF Deepened
  <2>7. Stepped(ts, level, at, slot, g, lev)
    BY <1>1, <1>4, <2>2, <2>3, <2>4, <2>5, <2>6 DEF Stepped
  <2> QED  BY <1>4, <2>1, <2>3, <2>7
<1> QED  BY <1>3, <1>4, DescendOnce

MidTable(ts, va) == NextIn(ts, Home(va), Slot(va, 1))

\* The tables that a page needs and does not have.
Missing(ts, va) ==
  (IF MidTable(ts, va) = 0 THEN 1 ELSE 0) + (IF LeafTable(ts, va) = 0 THEN 1 ELSE 0)

Mapped(ts, va, pa, g) ==
  /\ \E lev : Tree(g, lev)
  /\ Leaf(ts, va) = 0 /\ Leaf(g, va) = pa + PageBits
  /\ \A w \in VirtualPages : w # va => Leaf(g, w) = Leaf(ts, w)
  /\ Len(g) = Len(ts) + Missing(ts, va)

\* Both steps down lead to the table that is to hold the page.
LEMMA DescendTwice ==
  ASSUME RamOK, NEW ts, NEW level, Tree(ts, level), NEW va \in Nat, NEW heap,
         NEW next, next = Descend(Descend(Walk(ts, Home(va)), va, 1, heap), va, 2, heap)
  PROVE  \/ \E m \in 1 .. Missing(ts, va) : Stopped(next, Len(ts) + m - 1)
         \/ \E g, lev :
              /\ next = Walk(g, LeafTable(g, va)) /\ LeafTable(g, va) # 0
              /\ Tree(g, lev)
              /\ \A w \in Nat : Leaf(g, w) = Leaf(ts, w)
              /\ Len(g) = Len(ts) + Missing(ts, va)
<1>1. PICK root, s1, s2 :
        /\ root = Home(va) /\ s1 = Slot(va, 1) /\ s2 = Slot(va, 2)
        /\ s1 \in SlotSet /\ s2 \in SlotSet
  BY SlotsInRange
<1>2. /\ root \in 1 .. Len(ts) /\ level[root] = 1 /\ Len(ts) \in Nat
      /\ MidTable(ts, va) = NextIn(ts, root, s1)
      /\ LeafTable(ts, va) = NextIn(ts, MidTable(ts, va), s2)
  <2>1. Home(va) \in 1 .. Len(ts) /\ level[Home(va)] = 1
    BY PathIsDown
  <2>2. Len(ts) \in Nat
    BY DEF Tree, TablesOK
  <2> QED  BY <1>1, <2>1, <2>2 DEF MidTable, LeafTable
<1>3. PICK first : first = Descend(Walk(ts, root), va, 1, heap)
  OBVIOUS
<1>4. next = Descend(first, va, 2, heap)
  BY <1>1, <1>3
<1>5. LeafTable(ts, va) # 0 => MidTable(ts, va) # 0
  BY PathIsDown DEF MidTable
<1> PICK a \in {0, 1}, b \in {0, 1} :
      /\ a = (IF MidTable(ts, va) = 0 THEN 1 ELSE 0)
      /\ b = (IF LeafTable(ts, va) = 0 THEN 1 ELSE 0)
  OBVIOUS
<1>8. Missing(ts, va) = a + b
  BY DEF Missing
<1>6. CASE NextIn(ts, root, s1) = 0 /\ Stopped(first, Len(ts))
  <2>1. next = first
    BY <1>4, <1>6, StoppedStays DEF Stopped
  <2>2. 1 \in 1 .. Missing(ts, va) /\ Len(ts) + 1 - 1 = Len(ts)
    BY <1>2, <1>6 DEF Missing
  <2> QED  BY <1>6, <2>1, <2>2
<1>7. CASE \E g, lev : Stepped(ts, level, root, s1, g, lev)
                         /\ first = Walk(g, NextIn(g, root, s1))
  <2>1. PICK g, lev : Stepped(ts, level, root, s1, g, lev)
                        /\ first = Walk(g, NextIn(g, root, s1))
    BY <1>7
  <2>2. PICK mid : mid = NextIn(g, root, s1)
    OBVIOUS
  <2>3. /\ Tree(g, lev) /\ mid \in 1 .. Len(g) /\ lev[mid] = 2 /\ Len(g) \in Nat
        /\ root \in 1 .. Len(g) /\ lev[root] = 1
        /\ \A w \in Nat : Leaf(g, w) = Leaf(ts, w)
    <3>1. Tree(g, lev) /\ mid \in 1 .. Len(g) /\ lev[mid] = level[root] + 1
          /\ root \in 1 .. Len(g) /\ lev[root] = level[root]
          /\ \A w \in Nat : Leaf(g, w) = Leaf(ts, w)
      BY <1>2, <2>1, <2>2 DEF Stepped
    <3> QED  BY <1>2, <3>1 DEF Tree, TablesOK
  <2>4. /\ NextIn(g, mid, s2) = LeafTable(ts, va)
        /\ Len(g) = Len(ts) + (IF MidTable(ts, va) = 0 THEN 1 ELSE 0)
    <3>1. CASE NextIn(ts, root, s1) # 0
      <4>1. g = ts /\ Len(g) = Len(ts)
        BY <2>1, <3>1 DEF Stepped
      <4> QED  BY <1>2, <2>2, <3>1, <4>1
    <3>2. CASE NextIn(ts, root, s1) = 0
      <4>1. Len(g) = Len(ts) + 1 /\ NextIn(g, mid, s2) = 0
        BY <1>1, <2>1, <2>2, <3>2 DEF Stepped
      <4> QED  BY <1>2, <1>5, <3>2, <4>1
    <3> QED  BY <3>1, <3>2
  <2>5. next = Descend(Walk(g, mid), va, 2, heap)
    BY <1>4, <2>1, <2>2
  <2>6. lev[mid] \in {1, 2}
    BY <2>3
  <2>7. \/ NextIn(g, mid, s2) = 0 /\ Stopped(next, Len(g))
        \/ \E h, lew : Stepped(g, lev, mid, s2, h, lew) /\ next = Walk(h, NextIn(h, mid, s2))
    BY <1>1, <2>3, <2>5, <2>6, DescendSteps
  <2>8. CASE NextIn(g, mid, s2) = 0 /\ Stopped(next, Len(g))
    <3>1. PICK m : m = Missing(ts, va)
      OBVIOUS
    <3>2. m \in 1 .. m /\ Len(ts) + m - 1 = Len(g)
      <4>1. b = 1 /\ m = a + 1 /\ Len(g) = Len(ts) + a
        BY <1>8, <2>4, <2>8, <3>1
      <4> QED  BY <1>2, <4>1
    <3> QED  BY <2>8, <3>1, <3>2
  <2>9. CASE \E h, lew : Stepped(g, lev, mid, s2, h, lew) /\ next = Walk(h, NextIn(h, mid, s2))
    <3>1. PICK h, lew : Stepped(g, lev, mid, s2, h, lew) /\ next = Walk(h, NextIn(h, mid, s2))
      BY <2>9
    <3>2. /\ Tree(h, lew) /\ NextIn(h, mid, s2) \in 1 .. Len(h)
          /\ \A w \in Nat : Leaf(h, w) = Leaf(g, w)
          /\ NextIn(h, root, s1) = NextIn(g, root, s1)
      <4>1. root # mid
        BY <2>3
      <4> QED  BY <1>1, <2>3, <3>1, <4>1 DEF Stepped
    <3>3. LeafTable(h, va) = NextIn(h, mid, s2) /\ LeafTable(h, va) # 0
      BY <1>1, <2>2, <3>2 DEF LeafTable
    <3>4. Len(h) = Len(ts) + Missing(ts, va)
      <4>1. Len(h) = Len(g) + (IF NextIn(g, mid, s2) = 0 THEN 1 ELSE 0)
        <5>1. CASE NextIn(g, mid, s2) # 0
          BY <2>3, <3>1, <5>1 DEF Stepped
        <5>2. CASE NextIn(g, mid, s2) = 0
          BY <3>1, <5>2 DEF Stepped
        <5> QED  BY <5>1, <5>2
      <4>2. Len(h) = Len(g) + b /\ Len(g) = Len(ts) + a
        BY <2>4, <4>1
      <4>3. a \in Nat /\ b \in Nat /\ Len(ts) \in Nat
        BY <1>2
      <4>4. Len(h) = Len(ts) + (a + b)
        <5>1. PICK m, n, o : m = Len(ts) /\ n = Len(g) /\ o = Len(h)
          OBVIOUS
        <5>2. m \in Nat /\ n = m + a /\ o = n + b
          BY <4>2, <4>3, <5>1
        <5>3. o = m + (a + b)
          BY <4>3, <5>2
        <5> QED  BY <5>1, <5>3
      <4> QED  BY <1>8, <4>4
    <3>5. \A w \in Nat : Leaf(h, w) = Leaf(ts, w)
      BY <2>3, <3>2
    <3> QED  BY <3>1, <3>2, <3>3, <3>4, <3>5
  <2> QED  BY <2>7, <2>8, <2>9
<1> QED  BY <1>1, <1>2, <1>3, <1>6, <1>7, DescendSteps

\* map_page() maps one page, or refuses one that has a descriptor, or lacks memory.
LEMMA PageIsMapped ==
  ASSUME RamOK, NEW level, Tree(tables, level), NEW va \in VirtualPages,
         NEW pa \in Frames, NEW heap, NEW walk, walk = MapPage(Home(va), va, pa, heap)
  PROVE  \/ walk.result = "Ok" /\ Mapped(tables, va, pa, walk.tables)
         \/ walk.result = "OverlappingRange" /\ Leaf(tables, va) # 0
         \/ walk.result = "Allocation"
         \/ /\ walk.result = "TableCapacity"
            /\ \E m \in 1 .. Missing(tables, va) : (Len(tables) + m) * PageSize > MaxTableBytes
<1> PICK ts : ts = tables
  OBVIOUS
<1> PICK next : next = Descend(Descend(Walk(ts, Home(va)), va, 1, heap), va, 2, heap)
  OBVIOUS
<1>1. va \in Nat /\ Slot(va, 3) \in SlotSet
  BY VirtualPageIs, SlotsInRange
<1>2. walk = Settle(next, va, pa)
  BY DEF MapPage, Walk
<1>3. \/ \E m \in 1 .. Missing(ts, va) : Stopped(next, Len(ts) + m - 1)
      \/ \E g, lev :
           /\ next = Walk(g, LeafTable(g, va)) /\ LeafTable(g, va) # 0
           /\ Tree(g, lev)
           /\ \A w \in Nat : Leaf(g, w) = Leaf(ts, w)
           /\ Len(g) = Len(ts) + Missing(ts, va)
  BY <1>1, DescendTwice
<1>4. CASE \E m \in 1 .. Missing(ts, va) : Stopped(next, Len(ts) + m - 1)
  <2>1. PICK m \in 1 .. Missing(ts, va) : Stopped(next, Len(ts) + m - 1)
    BY <1>4
  <2>2. walk = next
    BY <1>2, <2>1 DEF Settle, Stopped
  <2>3. Len(ts) + m - 1 + 1 = Len(ts) + m
    <3>1. Len(ts) \in Nat /\ m \in Int
      BY DEF Tree, TablesOK
    <3> QED  BY <3>1
  <2> QED  BY <2>1, <2>2, <2>3 DEF Stopped
<1>5. CASE \E g, lev :
             /\ next = Walk(g, LeafTable(g, va)) /\ LeafTable(g, va) # 0
             /\ Tree(g, lev)
             /\ \A w \in Nat : Leaf(g, w) = Leaf(ts, w)
             /\ Len(g) = Len(ts) + Missing(ts, va)
  <2>1. PICK g, lev :
           /\ next = Walk(g, LeafTable(g, va)) /\ LeafTable(g, va) # 0
           /\ Tree(g, lev)
           /\ \A w \in Nat : Leaf(g, w) = Leaf(ts, w)
           /\ Len(g) = Len(ts) + Missing(ts, va)
    BY <1>5
  <2>2. PICK at, slot : at = LeafTable(g, va) /\ slot = Slot(va, 3)
    OBVIOUS
  <2>3. at \in DOMAIN g /\ Leaf(g, va) = g[at][slot]
    <3>1. at \in 0 .. Len(g) /\ Len(g) \in Nat /\ DOMAIN g = 1 .. Len(g)
      <4>1. at \in 0 .. Len(g)
        BY <1>1, <2>1, <2>2, PathIsDown
      <4>2. Len(g) \in Nat /\ DOMAIN g = 1 .. Len(g)
        BY <2>1 DEF Tree, TablesOK
      <4> QED  BY <4>1, <4>2
    <3> QED  BY <2>1, <2>2, <3>1 DEF Leaf, EntryIn
  <2>4. walk = Settle(Walk(g, at), va, pa)
    BY <1>2, <2>1, <2>2
  <2>5. CASE g[at][slot] # 0
    <3>1. walk.result = "OverlappingRange"
      BY <2>2, <2>4, <2>5 DEF Settle, Walk
    <3>2. Leaf(ts, va) # 0
      BY <1>1, <2>1, <2>3, <2>5
    <3> QED  BY <3>1, <3>2
  <2>6. CASE g[at][slot] = 0
    <3>1. walk = [Walk(g, at) EXCEPT !.tables[at][slot] = pa + PageBits]
      BY <2>2, <2>4, <2>6 DEF Settle, Walk
    <3>2. walk.result = "Ok" /\ walk.tables = Settled(g, at, slot, pa + PageBits)
      BY <3>1 DEF Walk, Settled
    <3>3. PICK h : h = walk.tables
      OBVIOUS
    <3>4. /\ Tree(h, lev) /\ Len(h) = Len(g) /\ Leaf(h, va) = pa + PageBits
          /\ \A w \in VirtualPages : w # va => Leaf(h, w) = Leaf(g, w)
      BY <2>1, <2>2, <3>2, <3>3, SettledLeaves
    <3>5. Leaf(ts, va) = 0
      BY <1>1, <2>1, <2>3, <2>6
    <3>6. \A w \in VirtualPages : w # va => Leaf(h, w) = Leaf(ts, w)
      BY <2>1, <3>4, VirtualPageIs
    <3> QED  BY <2>1, <3>2, <3>3, <3>4, <3>5, <3>6 DEF Mapped
  <2> QED  BY <2>5, <2>6
<1> QED  BY <1>3, <1>4, <1>5

-----------------------------------------------------------------------------
(* The ranges of a request: the identity range (1), the linear one (2) and   *)
(* the aliases.                                                              *)

Spans == 1 .. Len(Aliases) + 2

Virt(k) == IF k = 1 THEN request.physBase
           ELSE IF k = 2 THEN request.virtBase ELSE Aliases[k - 2].virtBase

Phys(k) == IF k <= 2 THEN request.physBase ELSE Aliases[k - 2].physBase

Size(k) == IF k <= 2 THEN request.size ELSE Aliases[k - 2].bytes

SpanOK(k) ==
  /\ {Virt(k), Phys(k), Size(k)} \subseteq Nat /\ Size(k) # 0
  /\ Virt(k) % PageSize = 0 /\ Phys(k) % PageSize = 0 /\ Size(k) % PageSize = 0
  /\ request.physBase <= Phys(k) /\ Phys(k) + Size(k) <= TableBase
  /\ IF k = 1 THEN Virt(k) + Size(k) <= LowEnd
     ELSE HighStart <= Virt(k) /\ Virt(k) + Size(k) <= MaxAddress
  /\ Size(k) <= (IF k <= 2 THEN MaxMemory ELSE MaxAliasBytes)

SpansOK ==
  /\ Len(Aliases) \in 0 .. MaxAliases
  /\ \A k \in Spans : SpanOK(k)
  /\ \A j, k \in Spans :
       j # k => Virt(j) + Size(j) <= Virt(k) \/ Virt(k) + Size(k) <= Virt(j)

\* The fields of a request.
LEMMA RequestType ==
  ASSUME request \in Requests
  PROVE  /\ request.physBase \in 0 .. MaxAddress /\ request.virtBase \in 0 .. MaxAddress
         /\ request.size \in 0 .. MaxAddress
         /\ Len(Aliases) \in Nat /\ DOMAIN Aliases = 1 .. Len(Aliases)
         /\ \A i \in 1 .. Len(Aliases) :
              /\ Aliases[i].virtBase \in 0 .. MaxAddress
              /\ Aliases[i].physBase \in 0 .. MaxAddress
              /\ Aliases[i].bytes \in 0 .. MaxAddress
<1>1. /\ {request.physBase, request.virtBase, request.size} \subseteq 0 .. MaxAddress
      /\ request.aliases # None =>
           /\ DOMAIN request.aliases = 1 .. Len(request.aliases) /\ Len(request.aliases) \in Nat
           /\ \A i \in DOMAIN request.aliases :
                {request.aliases[i].virtBase, request.aliases[i].physBase,
                 request.aliases[i].bytes} \subseteq 0 .. MaxAddress
  BY RequestAssumption
<1>2. CASE request.aliases = None
  BY <1>1, <1>2 DEF Aliases
<1>3. CASE request.aliases # None
  <2>1. Aliases = request.aliases
    BY <1>3 DEF Aliases
  <2> QED  BY <1>1, <1>3, <2>1
<1> QED  BY <1>2, <1>3

\* What the checks of the arguments come to.
LEMMA ChecksPassed ==
  ASSUME request \in Requests, RequestCheck = "Ok"
  PROVE  /\ RamCheck = "Ok" /\ Len(Aliases) <= MaxAliases
         /\ \A i \in 1 .. Len(Aliases) : AliasCheck(i) = "Ok" /\ request.aliases = Aliases
<1>1. CASE request.aliases = None
  <2>1. Aliases = <<>> /\ Len(Aliases) = 0
    BY <1>1 DEF Aliases
  <2>2. MaxAliases \in Nat
    BY GeometryAssumption
  <2> QED  BY <1>1, <2>1, <2>2 DEF RequestCheck
<1>2. CASE request.aliases # None
  <2> DEFINE failing == {i \in DOMAIN request.aliases : AliasCheck(i) # "Ok"}
  <2>1. Aliases = request.aliases
    BY <1>2 DEF Aliases
  <2>2. Len(Aliases) \in Nat /\ DOMAIN Aliases = 1 .. Len(Aliases)
    BY RequestType
  <2>3. ~ (Len(Aliases) > MaxAliases)
    BY <1>2, <2>1 DEF RequestCheck
  <2>4. IF failing = {} THEN RamCheck = "Ok" ELSE AliasCheck(Min(failing)) = "Ok"
    BY <1>2, <2>1, <2>3 DEF RequestCheck
  <2>5. failing = {}
    <3>1. SUFFICES ASSUME failing # {}
                   PROVE  FALSE
      OBVIOUS
    <3>2. failing \subseteq Nat
      BY <2>1, <2>2
    <3>3. Min(failing) \in failing
      <4> HIDE DEF failing
      <4>1. \E x \in failing : \A y \in failing : x <= y
        BY <3>1, <3>2, LeastNatural
      <4> QED  BY <4>1 DEF Min
    <3> QED  BY <2>4, <3>1, <3>3
  <2>6. MaxAliases \in Nat
    BY GeometryAssumption
  <2> QED  BY <2>1, <2>2, <2>3, <2>4, <2>5, <2>6
<1> QED  BY <1>1, <1>2

\* RAM as an accepted request has it.
LEMMA AcceptedRam ==
  ASSUME request \in Requests, RequestCheck = "Ok"
  PROVE  /\ RamOK /\ TableBase \in Nat
         /\ request.virtBase \in Nat /\ request.virtBase % PageSize = 0
         /\ request.size % PageSize = 0 /\ request.size # 0 /\ request.size <= MaxMemory
         /\ HighStart <= request.virtBase /\ request.virtBase + request.size <= MaxAddress
<1>1. /\ request.physBase \in Nat /\ request.virtBase \in Nat /\ request.size \in Nat
  BY RequestType, Geometry
<1>2. RamCheck = "Ok"
  BY ChecksPassed
<1>3. ~ Unaligned({request.physBase, request.virtBase, request.size})
  BY <1>2 DEF RamCheck
<1>4. /\ request.physBase % PageSize = 0 /\ request.virtBase % PageSize = 0
      /\ request.size % PageSize = 0
  BY <1>3 DEF Unaligned
<1>5. ~ (request.size = 0 \/ request.size > MaxMemory)
  BY <1>2 DEF RamCheck
<1>6. ~ (\/ request.physBase + request.size > MaxAddress
         \/ request.virtBase + request.size > MaxAddress)
  BY <1>2 DEF RamCheck
<1>7. ~ (TableBase > LowEnd \/ request.virtBase < HighStart)
  BY <1>2 DEF RamCheck
<1>8. (request.physBase + request.size) % PageSize = 0
  BY <1>1, <1>4, Geometry, MultiplesAdd
<1>9. MaxMemory \in Nat
  BY GeometryAssumption
<1>10. TableBase \in Nat /\ TableBase % PageSize = 0
  BY <1>1, <1>8 DEF TableBase
<1>11. TableBase <= LowEnd /\ HighStart <= request.virtBase
       /\ request.virtBase + request.size <= MaxAddress /\ request.size <= MaxMemory
  BY <1>1, <1>5, <1>6, <1>7, <1>9, <1>10, Geometry
<1> QED  BY <1>1, <1>4, <1>5, <1>10, <1>11 DEF RamOK

\* An alias that passed its checks.
LEMMA AcceptedAlias ==
  ASSUME request \in Requests, RequestCheck = "Ok", NEW i \in 1 .. Len(Aliases)
  PROVE  LET a == Aliases[i] IN
         /\ {a.virtBase, a.physBase, a.bytes} \subseteq Nat
         /\ a.virtBase % PageSize = 0 /\ a.physBase % PageSize = 0 /\ a.bytes % PageSize = 0
         /\ a.bytes # 0 /\ a.bytes <= MaxAliasBytes
         /\ request.physBase <= a.physBase /\ a.physBase + a.bytes <= TableBase
         /\ HighStart <= a.virtBase /\ a.virtBase + a.bytes <= MaxAddress
         /\ \/ a.virtBase + a.bytes <= request.virtBase
            \/ request.virtBase + request.size <= a.virtBase
         /\ \A j \in 1 .. i - 1 :
              \/ a.virtBase + a.bytes <= Aliases[j].virtBase
              \/ Aliases[j].virtBase + Aliases[j].bytes <= a.virtBase
<1>1. PICK a : a = Aliases[i]
  OBVIOUS
<1>2. AliasCheck(i) = "Ok" /\ request.aliases = Aliases
  BY ChecksPassed
<1>3. a.virtBase \in Nat /\ a.physBase \in Nat /\ a.bytes \in Nat
  BY <1>1, RequestType, Geometry
<1>4. ~ Unaligned({a.virtBase, a.physBase, a.bytes})
  BY <1>1, <1>2 DEF AliasCheck
<1>5. a.virtBase % PageSize = 0 /\ a.physBase % PageSize = 0 /\ a.bytes % PageSize = 0
  BY <1>4 DEF Unaligned
<1>6. ~ (a.bytes = 0 \/ a.bytes > MaxAliasBytes \/ a.virtBase < HighStart)
  BY <1>1, <1>2 DEF AliasCheck
<1>7. ~ (AliasEnd(i) > MaxAddress \/ a.physBase + a.bytes > MaxAddress)
  BY <1>1, <1>2 DEF AliasCheck
<1>8. AliasIsInRam(a) /\ AliasIsApart(i)
  BY <1>1, <1>2 DEF AliasCheck
<1>9. AliasEnd(i) = a.virtBase + a.bytes
  BY <1>1, <1>2 DEF AliasEnd
<1>10. MaxAliasBytes \in Nat
  BY GeometryAssumption
<1>11. /\ a.bytes # 0 /\ a.bytes <= MaxAliasBytes /\ HighStart <= a.virtBase
       /\ a.virtBase + a.bytes <= MaxAddress
  BY <1>3, <1>6, <1>7, <1>9, <1>10, Geometry
<1>12. request.physBase <= a.physBase /\ a.physBase + a.bytes <= TableBase
  <2>1. request.physBase \in Nat
    BY AcceptedRam DEF RamOK
  <2>2. a.physBase >= request.physBase
        /\ a.physBase + a.bytes <= request.physBase + request.size
    BY <1>8 DEF AliasIsInRam
  <2> QED  BY <1>3, <2>1, <2>2 DEF TableBase
<1>13. ASSUME NEW s \in Nat, NEW n \in Nat, n # 0,
              ~ Overlaps(a.virtBase, AliasEnd(i), s, s + n)
       PROVE  a.virtBase + a.bytes <= s \/ s + n <= a.virtBase
  BY <1>3, <1>9, <1>11, <1>13 DEF Overlaps
<1>14. \/ a.virtBase + a.bytes <= request.virtBase
       \/ request.virtBase + request.size <= a.virtBase
  <2>1. ~ Overlaps(a.virtBase, AliasEnd(i), request.virtBase,
                   request.virtBase + request.size)
    BY <1>1, <1>2, <1>8 DEF AliasIsApart
  <2>2. request.virtBase \in Nat /\ request.size \in Nat /\ request.size # 0
    BY AcceptedRam DEF RamOK
  <2> QED  BY <1>13, <2>1, <2>2
<1>15. ASSUME NEW j \in 1 .. i - 1
       PROVE  \/ a.virtBase + a.bytes <= Aliases[j].virtBase
              \/ Aliases[j].virtBase + Aliases[j].bytes <= a.virtBase
  <2>1. j \in 1 .. Len(Aliases)
    BY RequestType
  <2>2. PICK b : b = Aliases[j]
    OBVIOUS
  <2>3. b.virtBase \in Nat /\ b.bytes \in Nat
    BY <2>1, <2>2, RequestType, Geometry
  <2>4. b.bytes # 0
    <3>1. AliasCheck(j) = "Ok" /\ request.aliases = Aliases
      BY <2>1, ChecksPassed
    <3>2. ~ (b.bytes = 0 \/ b.bytes > MaxAliasBytes \/ b.virtBase < HighStart)
      BY <2>2, <3>1 DEF AliasCheck
    <3> QED  BY <3>2
  <2>5. ~ Overlaps(a.virtBase, AliasEnd(i), b.virtBase, AliasEnd(j))
    BY <1>1, <1>2, <1>8, <2>2 DEF AliasIsApart
  <2>6. AliasEnd(j) = b.virtBase + b.bytes
    BY <1>2, <2>2 DEF AliasEnd
  <2> QED  BY <1>13, <2>2, <2>3, <2>4, <2>5, <2>6
<1> QED  BY <1>1, <1>3, <1>5, <1>11, <1>12, <1>14, <1>15

\* An accepted request is made of ranges that lie in RAM, each in its half of
\* the virtual addresses and apart from the others.
LEMMA AcceptedSpans ==
  ASSUME request \in Requests, RequestCheck = "Ok"
  PROVE  RamOK /\ SpansOK
<1>1. /\ RamOK /\ TableBase \in Nat
      /\ request.virtBase \in Nat /\ request.virtBase % PageSize = 0
      /\ request.size % PageSize = 0 /\ request.size # 0 /\ request.size <= MaxMemory
      /\ HighStart <= request.virtBase /\ request.virtBase + request.size <= MaxAddress
  BY AcceptedRam
<1>2. /\ request.physBase \in Nat /\ request.size \in Nat /\ request.physBase % PageSize = 0
      /\ request.physBase + request.size = TableBase /\ TableBase <= LowEnd
  BY <1>1 DEF RamOK, TableBase
<1>3. Len(Aliases) \in Nat /\ Len(Aliases) <= MaxAliases /\ MaxAliases \in Nat
  BY RequestType, ChecksPassed, GeometryAssumption
<1>4. SpanOK(1)
  BY <1>1, <1>2, Geometry DEF SpanOK, Virt, Phys, Size
<1>5. SpanOK(2)
  BY <1>1, <1>2, Geometry DEF SpanOK, Virt, Phys, Size
<1>6. ASSUME NEW k \in Spans, k # 1, k # 2
      PROVE  /\ k - 2 \in 1 .. Len(Aliases) /\ ~ (k <= 2)
             /\ Virt(k) = Aliases[k - 2].virtBase /\ Phys(k) = Aliases[k - 2].physBase
             /\ Size(k) = Aliases[k - 2].bytes
  <2>1. k - 2 \in 1 .. Len(Aliases) /\ ~ (k <= 2)
    BY <1>3, <1>6 DEF Spans
  <2> QED  BY <1>6, <2>1 DEF Virt, Phys, Size
<1>7. ASSUME NEW k \in Spans, k # 1, k # 2
      PROVE  SpanOK(k)
  <2>1. PICK i : i = k - 2
    OBVIOUS
  <2>2. PICK a : a = Aliases[i]
    OBVIOUS
  <2>3. /\ {a.virtBase, a.physBase, a.bytes} \subseteq Nat
        /\ a.virtBase % PageSize = 0 /\ a.physBase % PageSize = 0 /\ a.bytes % PageSize = 0
        /\ a.bytes # 0 /\ a.bytes <= MaxAliasBytes
        /\ request.physBase <= a.physBase /\ a.physBase + a.bytes <= TableBase
        /\ HighStart <= a.virtBase /\ a.virtBase + a.bytes <= MaxAddress
    BY <1>6, <1>7, <2>1, <2>2, AcceptedAlias
  <2> QED  BY <1>6, <1>7, <2>1, <2>2, <2>3 DEF SpanOK
<1>8. \A k \in Spans : SpanOK(k)
  BY <1>4, <1>5, <1>7
<1>9. ASSUME NEW j \in Spans, NEW k \in Spans, j # k
      PROVE  Virt(j) + Size(j) <= Virt(k) \/ Virt(k) + Size(k) <= Virt(j)
  <2>1. ASSUME NEW x \in Spans, x # 1
        PROVE  Virt(1) + Size(1) <= Virt(x)
    <3>1. SpanOK(1) /\ SpanOK(x)
      BY <1>4, <1>8
    <3>2. Virt(1) \in Nat /\ Size(1) \in Nat /\ Virt(x) \in Nat
          /\ Virt(1) + Size(1) <= LowEnd /\ HighStart <= Virt(x)
      BY <2>1, <3>1 DEF SpanOK
    <3> QED  BY <3>2, Geometry
  <2>2. ASSUME NEW x \in Spans, x # 1, x # 2
        PROVE  Virt(2) + Size(2) <= Virt(x) \/ Virt(x) + Size(x) <= Virt(2)
    <3>1. Virt(2) = request.virtBase /\ Size(2) = request.size
      BY DEF Virt, Size
    <3>2. PICK i : i = x - 2
      OBVIOUS
    <3>3. \/ Aliases[i].virtBase + Aliases[i].bytes <= request.virtBase
          \/ request.virtBase + request.size <= Aliases[i].virtBase
      BY <1>6, <2>2, <3>2, AcceptedAlias
    <3> QED  BY <1>6, <2>2, <3>1, <3>2, <3>3
  <2>3. ASSUME NEW x \in Spans, NEW y \in Spans, x # 1, x # 2, y # 1, y # 2, x < y
        PROVE  Virt(x) + Size(x) <= Virt(y) \/ Virt(y) + Size(y) <= Virt(x)
    <3>1. PICK i, m : i = x - 2 /\ m = y - 2
      OBVIOUS
    <3>2. i \in 1 .. Len(Aliases) /\ m \in 1 .. Len(Aliases) /\ i \in 1 .. m - 1
      <4>1. i \in 1 .. Len(Aliases) /\ m \in 1 .. Len(Aliases)
        BY <1>6, <2>3, <3>1
      <4>2. x \in Int /\ y \in Int
        BY DEF Spans
      <4>3. i < m
        BY <2>3, <3>1, <4>2
      <4> QED  BY <4>1, <4>3
    <3>3. \/ Aliases[m].virtBase + Aliases[m].bytes <= Aliases[i].virtBase
          \/ Aliases[i].virtBase + Aliases[i].bytes <= Aliases[m].virtBase
      BY <3>2, AcceptedAlias
    <3> QED  BY <1>6, <2>3, <3>1, <3>3
  <2>4. j \in Int /\ k \in Int
    BY DEF Spans
  <2>5. CASE j = 1 \/ k = 1
    BY <1>9, <2>1, <2>5
  <2>6. CASE j # 1 /\ k # 1 /\ (j = 2 \/ k = 2)
    BY <1>9, <2>2, <2>6
  <2>7. CASE j # 1 /\ k # 1 /\ j # 2 /\ k # 2
    <3>1. j < k \/ k < j
      BY <1>9, <2>4
    <3> QED  BY <2>3, <2>7, <3>1
  <2> QED  BY <2>5, <2>6, <2>7
<1> QED  BY <1>1, <1>3, <1>8, <1>9 DEF SpansOK

-----------------------------------------------------------------------------
(* The pages that the tables hold: some pages from the start of each range,  *)
(* and no others.                                                            *)

Holding(ts, done) ==
  /\ \E level : Tree(ts, level)
  /\ done \in [Spans -> Nat]
  /\ \A k \in Spans : done[k] <= Size(k) /\ done[k] % PageSize = 0
  /\ \A k \in Spans, o \in Nat :
       o < done[k] /\ o % PageSize = 0 => Leaf(ts, Virt(k) + o) = Phys(k) + o + PageBits
  /\ \A v \in VirtualPages :
       Leaf(ts, v) # 0 => \E k \in Spans, o \in Nat : o < done[k] /\ v = Virt(k) + o

\* There is a whole page up to the next multiple.
LEMMA NextMultiple ==
  ASSUME NEW p \in Nat \ {0}, NEW m \in Nat, NEW n \in Nat, m % p = 0, n % p = 0, m < n
  PROVE  m + p <= n
<1>0. ASSUME NEW v \in Nat, v % p = 0
      PROVE  \E q \in Nat : v = q * p
  <2>1. v \div p \in Nat /\ v = (v \div p) * p + 0 /\ (v \div p) * p \in Nat
    BY <1>0, DivisionHolds
  <2>2. v = (v \div p) * p
    BY <2>1
  <2> QED  BY <2>1, <2>2
<1>1. PICK a \in Nat : m = a * p
  BY <1>0
<1>2. PICK b \in Nat : n = b * p
  BY <1>0
<1>3. a < b
  <2>1. SUFFICES ASSUME b <= a
                 PROVE  FALSE
    OBVIOUS
  <2>2. PICK d \in Nat : a = b + d
    <3>1. a - b \in Nat /\ a = b + (a - b)
      BY <2>1
    <3> QED  BY <3>1
  <2>3. a * p = b * p + d * p /\ d * p \in Nat /\ b * p \in Nat
    BY <2>2
  <2> QED  BY <1>1, <1>2, <2>3
<1>4. PICK d \in Nat : b = a + 1 + d
  <2>1. b - a - 1 \in Nat /\ b = a + 1 + (b - a - 1)
    BY <1>3
  <2> QED  BY <2>1
<1>5. b * p = a * p + p + d * p /\ a * p \in Nat /\ d * p \in Nat
  BY <1>4
<1> QED  BY <1>1, <1>2, <1>5

\* The pages of a range.
LEMMA SpanPages ==
  ASSUME RamOK, SpansOK, NEW k \in Spans, NEW o \in Nat, o % PageSize = 0, o < Size(k)
  PROVE  /\ Virt(k) + o \in VirtualPages /\ Phys(k) + o \in Frames
         /\ o + PageSize <= Size(k)
         /\ Home(Virt(k) + o) = (IF k = 1 THEN LowRoot ELSE HighRoot)
<1> USE Geometry
<1>1. SpanOK(k)
  BY DEF SpansOK
<1> PICK v, f, z : v = Virt(k) /\ f = Phys(k) /\ z = Size(k)
  OBVIOUS
<1>2. /\ v \in Nat /\ f \in Nat /\ z \in Nat
      /\ v % PageSize = 0 /\ f % PageSize = 0 /\ z % PageSize = 0
      /\ request.physBase <= f /\ f + z <= TableBase
      /\ IF k = 1 THEN v + z <= LowEnd ELSE HighStart <= v /\ v + z <= MaxAddress
  BY <1>1 DEF SpanOK
<1>3. o + PageSize <= z
  BY <1>2, NextMultiple
<1>4. (v + o) % PageSize = 0 /\ (f + o) % PageSize = 0
  <2>1. PageSize \in Nat \ {0} /\ v \in Nat /\ f \in Nat /\ v % PageSize = 0 /\ f % PageSize = 0
    BY <1>2
  <2>2. (v + o) % PageSize = 0
    BY ONLY <2>1, MultiplesAdd, o \in Nat, o % PageSize = 0, Zenon
  <2>3. (f + o) % PageSize = 0
    BY ONLY <2>1, MultiplesAdd, o \in Nat, o % PageSize = 0, Zenon
  <2> QED  BY <2>2, <2>3
<1>5. request.physBase \in Nat /\ TableBase \in Nat
  BY DEF RamOK, TableBase
<1>6. f + o \in Frames
  BY <1>2, <1>3, <1>4, <1>5 DEF Frames
<1>7. v + o \in Nat /\ (v + o < LowEnd \/ (HighStart <= v + o /\ v + o <= MaxAddress))
  BY <1>2, <1>3
<1>8. v + o \in VirtualPages
  BY <1>4, <1>7, VirtualPageIs
<1>9. Home(v + o) = (IF k = 1 THEN LowRoot ELSE HighRoot)
  <2>1. k = 1 <=> v + o < LowEnd
    BY <1>2, <1>3
  <2> QED  BY <2>1 DEF Home
<1> QED  BY <1>3, <1>6, <1>8, <1>9

\* An address is in one range at most.
LEMMA SpansMeetNowhere ==
  ASSUME SpansOK, NEW j \in Spans, NEW k \in Spans, NEW o \in Nat, NEW q \in Nat,
         o < Size(j), q < Size(k), Virt(j) + o = Virt(k) + q
  PROVE  j = k /\ o = q
<1>1. Virt(j) \in Nat /\ Virt(k) \in Nat /\ Size(j) \in Nat /\ Size(k) \in Nat
  BY DEF SpansOK, SpanOK
<1>2. j # k => Virt(j) + Size(j) <= Virt(k) \/ Virt(k) + Size(k) <= Virt(j)
  BY DEF SpansOK
<1> PICK v, w : v = Virt(j) /\ w = Virt(k)
  OBVIOUS
<1> PICK y, z : y = Size(j) /\ z = Size(k)
  OBVIOUS
<1>3. j = k
  BY <1>1, <1>2
<1> QED  BY <1>1, <1>3

\* The next page of a range joins the pages that the tables hold.
LEMMA HoldingGrows ==
  ASSUME RamOK, SpansOK, NEW ts, NEW done, Holding(ts, done), NEW k \in Spans,
         done[k] < Size(k), NEW g, Mapped(ts, Virt(k) + done[k], Phys(k) + done[k], g)
  PROVE  Holding(g, [done EXCEPT ![k] = @ + PageSize])
<1> USE Geometry
<1> PICK o : o = done[k]
  OBVIOUS
<1> PICK more : more = [done EXCEPT ![k] = @ + PageSize]
  OBVIOUS
<1>1. /\ done \in [Spans -> Nat]
      /\ \A j \in Spans : done[j] <= Size(j) /\ done[j] % PageSize = 0
  BY DEF Holding
<1>2. o \in Nat /\ o % PageSize = 0 /\ o < Size(k)
  BY <1>1
<1>3. /\ more \in [Spans -> Nat] /\ more[k] = o + PageSize
      /\ \A j \in Spans : j # k => more[j] = done[j]
  BY <1>1
<1>4. /\ Virt(k) + o \in VirtualPages /\ o + PageSize <= Size(k)
  BY <1>2, SpanPages
<1>5. (o + PageSize) % PageSize = 0
  <2>1. (1 * PageSize + 0) % PageSize = 0
    BY QuotientIs
  <2>2. PageSize % PageSize = 0
    BY <2>1
  <2> QED  BY <1>2, <2>2, MultiplesAdd
<1>6. \A j \in Spans : more[j] <= Size(j) /\ more[j] % PageSize = 0
  BY <1>1, <1>3, <1>4, <1>5
<1>7. /\ \E level : Tree(g, level)
      /\ Leaf(g, Virt(k) + o) = Phys(k) + o + PageBits
      /\ \A w \in VirtualPages : w # Virt(k) + o => Leaf(g, w) = Leaf(ts, w)
  BY DEF Mapped
<1>8. ASSUME NEW j \in Spans, NEW q \in Nat, q < more[j], q % PageSize = 0
      PROVE  Leaf(g, Virt(j) + q) = Phys(j) + q + PageBits
  <2>1. more[j] <= Size(j) /\ Size(j) \in Nat /\ more[j] \in Nat
    BY <1>3, <1>6 DEF SpansOK, SpanOK
  <2>2. q < Size(j)
    BY <1>8, <2>1
  <2>3. Virt(j) + q \in VirtualPages
    BY <1>8, <2>2, SpanPages
  <2>4. CASE j = k /\ q = o
    BY <1>7, <2>4
  <2>5. CASE ~ (j = k /\ q = o)
    <3>1. Virt(j) + q # Virt(k) + o
      BY <1>2, <2>2, <2>5, SpansMeetNowhere
    <3>2. Leaf(g, Virt(j) + q) = Leaf(ts, Virt(j) + q)
      BY <1>7, <2>3, <3>1
    <3>3. q < done[j]
      <4>1. CASE j = k
        <5>1. q # o /\ q < o + PageSize
          BY <1>3, <1>8, <2>5, <4>1
        <5>2. ~ (o < q)
          BY <1>2, <1>8, <5>1, NextMultiple
        <5> QED  BY <1>2, <4>1, <5>1, <5>2
      <4>2. CASE j # k
        BY <1>3, <1>8, <4>2
      <4> QED  BY <4>1, <4>2
    <3>4. Leaf(ts, Virt(j) + q) = Phys(j) + q + PageBits
      BY <1>8, <3>3 DEF Holding
    <3> QED  BY <3>2, <3>4
  <2> QED  BY <2>4, <2>5
<1>9. ASSUME NEW v \in VirtualPages, Leaf(g, v) # 0
      PROVE  \E j \in Spans, q \in Nat : q < more[j] /\ v = Virt(j) + q
  <2>1. CASE v = Virt(k) + o
    <3>1. o < more[k]
      BY <1>2, <1>3
    <3> QED  BY <1>2, <2>1, <3>1
  <2>2. CASE v # Virt(k) + o
    <3>1. Leaf(ts, v) # 0
      BY <1>7, <1>9, <2>2
    <3>2. PICK j \in Spans, q \in Nat : q < done[j] /\ v = Virt(j) + q
      BY <3>1 DEF Holding
    <3>3. q < more[j]
      BY <1>1, <1>2, <1>3, <3>2
    <3> QED  BY <3>2, <3>3
  <2> QED  BY <2>1, <2>2
<1> QED  BY <1>3, <1>6, <1>7, <1>8, <1>9 DEF Holding

\* The next page of a range has no descriptor yet.
LEMMA NextIsFree ==
  ASSUME RamOK, SpansOK, NEW ts, NEW done, Holding(ts, done), NEW k \in Spans,
         done[k] < Size(k)
  PROVE  Leaf(ts, Virt(k) + done[k]) = 0
<1> PICK o : o = done[k]
  OBVIOUS
<1>1. /\ done \in [Spans -> Nat]
      /\ \A j \in Spans : done[j] <= Size(j) /\ done[j] % PageSize = 0
  BY DEF Holding
<1>2. o \in Nat /\ o % PageSize = 0 /\ o < Size(k)
  BY <1>1
<1>3. Virt(k) + o \in VirtualPages
  BY <1>2, SpanPages
<1>4. SUFFICES ASSUME Leaf(ts, Virt(k) + o) # 0
               PROVE  FALSE
  OBVIOUS
<1>5. PICK j \in Spans, q \in Nat : q < done[j] /\ Virt(k) + o = Virt(j) + q
  BY <1>3, <1>4 DEF Holding
<1>6. q < Size(j)
  <2>1. done[j] <= Size(j) /\ done[j] \in Nat /\ Size(j) \in Nat
    BY <1>1 DEF SpansOK, SpanOK
  <2> QED  BY <1>5, <2>1
<1>7. j = k /\ q = o
  BY <1>2, <1>5, <1>6, SpansMeetNowhere
<1> QED  BY <1>2, <1>5, <1>7

-----------------------------------------------------------------------------
(* The number of tables.  A range needs a table for each block of pages that *)
(* it touches: a block of one table's pages, or of a whole middle table's.   *)

Blocks(b, n, s) == IF n = 0 THEN 0 ELSE (b + n - 1) \div s - b \div s + 1

\* The most tables that the first o bytes of a range have needed.
Made(k, o) ==
  Blocks(Virt(k) \div PageSize, o \div PageSize, Slots)
    + Blocks(Virt(k) \div PageSize, o \div PageSize, Slots * Slots)

\* Quotients grow with the number that is divided.
LEMMA QuotientsGrow ==
  ASSUME NEW s \in Nat \ {0}, NEW x \in Nat, NEW y \in Nat, x <= y
  PROVE  x \div s <= y \div s
<1>1. PICK q, r : q = x \div s /\ r = x % s
  OBVIOUS
<1>2. PICK c, t : c = y \div s /\ t = y % s
  OBVIOUS
<1>3. q \in Nat /\ r \in 0 .. s - 1 /\ x = q * s + r /\ q * s \in Nat
  BY <1>1, DivisionHolds
<1>4. c \in Nat /\ t \in 0 .. s - 1 /\ y = c * s + t /\ c * s \in Nat
  BY <1>2, DivisionHolds
<1>5. q <= c
  <2>1. SUFFICES ASSUME c < q
                 PROVE  FALSE
    BY <1>3, <1>4
  <2>2. PICK d \in Nat : q = c + 1 + d
    <3>1. q - c - 1 \in Nat /\ q = c + 1 + (q - c - 1)
      BY <1>3, <1>4, <2>1
    <3> QED  BY <3>1
  <2>3. q * s = c * s + s + d * s /\ d * s \in Nat
    BY <1>4, <2>2
  <2> QED  BY <1>3, <1>4, <2>3
<1> QED  BY <1>1, <1>2, <1>5

\* A block more in the number that is divided is one more in the quotient.
LEMMA QuotientOfMore ==
  ASSUME NEW s \in Nat \ {0}, NEW q \in Nat, NEW x \in Nat
  PROVE  (q * s + x) \div s = q + x \div s
<1>1. PICK c, t : c = x \div s /\ t = x % s
  OBVIOUS
<1>2. c \in Nat /\ t \in 0 .. s - 1 /\ x = c * s + t /\ c * s \in Nat
  BY <1>1, DivisionHolds
<1>3. q * s + x = (q + c) * s + t
  BY <1>2
<1>4. q + c \in Nat
  BY <1>2
<1>5. ((q + c) * s + t) \div s = q + c
  BY <1>2, <1>4, QuotientIs
<1> QED  BY <1>1, <1>3, <1>5

\* A range of so many pages touches no more blocks than so many pages can.
LEMMA BlocksFit ==
  ASSUME NEW s \in Nat \ {0}, NEW b \in Nat, NEW n \in Nat, NEW m \in Nat, n <= m
  PROVE  Blocks(b, n, s) \in Nat /\ Touched(m, s) \in Nat /\ Blocks(b, n, s) <= Touched(m, s)
<1>1. m + 2 * s - 2 \in Nat
  OBVIOUS
<1>2. Touched(m, s) \in Nat
  BY <1>1, DivisionHolds DEF Touched
<1>3. CASE n = 0
  BY <1>2, <1>3 DEF Blocks
<1>4. CASE n # 0
  <2>1. PICK q, r : q = b \div s /\ r = b % s
    OBVIOUS
  <2>2. q \in Nat /\ r \in 0 .. s - 1 /\ b = q * s + r /\ q * s \in Nat
    BY <2>1, DivisionHolds
  <2>3. r + n - 1 \in Nat /\ b + n - 1 = q * s + (r + n - 1)
    BY <1>4, <2>2
  <2>4. (b + n - 1) \div s = q + (r + n - 1) \div s
    <3>1. PICK x : x = r + n - 1
      OBVIOUS
    <3>2. (q * s + x) \div s = q + x \div s
      BY <2>2, <2>3, <3>1, QuotientOfMore
    <3> QED  BY <2>3, <3>1, <3>2
  <2>5. m + s - 2 \in Nat /\ r + n - 1 <= m + s - 2
    BY <1>4, <2>2
  <2>6. (r + n - 1) \div s <= (m + s - 2) \div s
    BY <2>3, <2>5, QuotientsGrow
  <2>7. Touched(m, s) = 1 + (m + s - 2) \div s
    <3>1. m + 2 * s - 2 = 1 * s + (m + s - 2)
      OBVIOUS
    <3>2. (1 * s + (m + s - 2)) \div s = 1 + (m + s - 2) \div s
      BY <2>5, QuotientOfMore
    <3> QED  BY <3>1, <3>2 DEF Touched
  <2>8. (r + n - 1) \div s \in Nat /\ (m + s - 2) \div s \in Nat
    BY <2>3, <2>5, DivisionHolds
  <2>9. Blocks(b, n, s) = (r + n - 1) \div s + 1
    <3>1. PICK c : c = (r + n - 1) \div s
      OBVIOUS
    <3>2. Blocks(b, n, s) = (q + c) - q + 1
      <4>1. Blocks(b, n, s) = (b + n - 1) \div s - b \div s + 1
        BY <1>4 DEF Blocks
      <4> QED  BY <2>1, <2>4, <3>1, <4>1, Zenon
    <3> QED  BY <2>2, <2>8, <3>1, <3>2
  <2> QED  BY <1>2, <2>6, <2>7, <2>8, <2>9
<1> QED  BY <1>3, <1>4

\* A page more is in the block of the page before it, or touches one more.
LEMMA BlocksGrow ==
  ASSUME NEW s \in Nat \ {0}, NEW b \in Nat, NEW n \in Nat
  PROVE  Blocks(b, n, s)
           + (IF n # 0 /\ (b + n) \div s = (b + n - 1) \div s THEN 0 ELSE 1)
             <= Blocks(b, n + 1, s)
<1>1. PICK c, d : c = (b + n) \div s /\ d = b \div s
  OBVIOUS
<1>2. c \in Nat /\ d \in Nat
  <2>1. b + n \in Nat
    OBVIOUS
  <2> QED  BY <1>1, <2>1, DivisionHolds
<1>3. n + 1 # 0 /\ b + (n + 1) - 1 = b + n
  OBVIOUS
<1>4. Blocks(b, n + 1, s) = c - d + 1
  BY <1>1, <1>3 DEF Blocks
<1>5. CASE n = 0
  <2>1. c = d
    BY <1>1, <1>5
  <2> QED  BY <1>2, <1>4, <1>5, <2>1 DEF Blocks
<1>6. CASE n # 0
  <2>1. PICK e : e = (b + n - 1) \div s
    OBVIOUS
  <2>2. b + n - 1 \in Nat /\ b + n \in Nat /\ b + n - 1 <= b + n
    BY <1>6
  <2>3. e \in Nat /\ e <= c
    BY <1>1, <2>1, <2>2, DivisionHolds, QuotientsGrow
  <2>4. Blocks(b, n, s) = e - d + 1
    BY <1>1, <1>6, <2>1 DEF Blocks
  <2> QED  BY <1>1, <1>2, <1>4, <1>6, <2>1, <2>3, <2>4
<1> QED  BY <1>5, <1>6

\* The tables on the way to a page that is mapped are there.
LEMMA WayIsThere ==
  ASSUME NEW ts, TablesOK(ts), NEW va, Leaf(ts, va) # 0
  PROVE  MidTable(ts, va) # 0 /\ LeafTable(ts, va) # 0
<1>1. 0 \notin DOMAIN ts
  BY DEF TablesOK
<1>2. \A s : EntryIn(ts, 0, s) = 0 /\ NextIn(ts, 0, s) = 0
  BY <1>1 DEF EntryIn, NextIn
<1>3. LeafTable(ts, va) # 0
  BY <1>2 DEF Leaf
<1>4. LeafTable(ts, va) = NextIn(ts, MidTable(ts, va), Slot(va, 2))
  BY DEF LeafTable, MidTable
<1> QED  BY <1>2, <1>3, <1>4

\* The blocks that pages are in select their tables.
LEMMA SameBlocks ==
  ASSUME NEW ts, NEW v \in Nat, NEW w \in Nat, Home(v) = Home(w)
  PROVE  LET p == v \div PageSize
             q == w \div PageSize
         IN  /\ p \div Slots = q \div Slots => LeafTable(ts, v) = LeafTable(ts, w)
             /\ p \div (Slots * Slots) = q \div (Slots * Slots)
                  => MidTable(ts, v) = MidTable(ts, w)
<1> USE Geometry
<1>1. ASSUME NEW x \in Nat
      PROVE  /\ x \div PageSize \in Nat
             /\ (x \div PageSize) \div (Slots * Slots) = ((x \div PageSize) \div Slots) \div Slots
  <2>1. x \div PageSize \in Nat
    BY DivisionHolds
  <2> QED  BY <2>1, DivideTwice
<1> PICK p, q : p = v \div PageSize /\ q = w \div PageSize
  OBVIOUS
<1>2. /\ Slot(v, 2) = (p \div Slots) % Slots /\ Slot(w, 2) = (q \div Slots) % Slots
      /\ Slot(v, 1) = ((p \div Slots) \div Slots) % Slots
      /\ Slot(w, 1) = ((q \div Slots) \div Slots) % Slots
  BY SlotsAreDigits
<1>3. ASSUME p \div Slots = q \div Slots
      PROVE  LeafTable(ts, v) = LeafTable(ts, w)
  <2>1. Slot(v, 1) = Slot(w, 1) /\ Slot(v, 2) = Slot(w, 2)
    BY <1>2, <1>3, Zenon
  <2> QED  BY <2>1, Zenon DEF LeafTable
<1>4. ASSUME p \div (Slots * Slots) = q \div (Slots * Slots)
      PROVE  MidTable(ts, v) = MidTable(ts, w)
  <2>1. (p \div Slots) \div Slots = (q \div Slots) \div Slots
    BY <1>1, <1>4
  <2>2. Slot(v, 1) = Slot(w, 1)
    BY <1>2, <2>1, Zenon
  <2> QED  BY <2>2, Zenon DEF MidTable
<1> QED  BY <1>3, <1>4

\* The pages of a range, counted.
LEMMA PagesCounted ==
  ASSUME NEW v \in Nat, NEW o \in Nat, v % PageSize = 0, o % PageSize = 0
  PROVE  /\ v \div PageSize \in Nat /\ o \div PageSize \in Nat
         /\ (v + o) \div PageSize = v \div PageSize + o \div PageSize
         /\ (o + PageSize) \div PageSize = o \div PageSize + 1
         /\ o # 0 => /\ o \div PageSize # 0 /\ o - PageSize \in Nat
                     /\ (o - PageSize) % PageSize = 0
                     /\ (o - PageSize) \div PageSize = o \div PageSize - 1
<1> USE Geometry
<1>1. ASSUME NEW x \in Nat, x % PageSize = 0
      PROVE  x \div PageSize \in Nat /\ x = (x \div PageSize) * PageSize
  <2>1. x \div PageSize \in Nat /\ x = (x \div PageSize) * PageSize + 0
        /\ (x \div PageSize) * PageSize \in Nat
    BY <1>1, DivisionHolds
  <2> QED  BY <2>1
<1>2. ASSUME NEW q \in Nat
      PROVE  q * PageSize \in Nat /\ (q * PageSize) \div PageSize = q
             /\ (q * PageSize) % PageSize = 0
  <2>1. (q * PageSize + 0) \div PageSize = q /\ (q * PageSize + 0) % PageSize = 0
    BY QuotientIs
  <2> QED  BY <2>1
<1> PICK b, n : b = v \div PageSize /\ n = o \div PageSize
  OBVIOUS
<1>3. b \in Nat /\ n \in Nat /\ v = b * PageSize /\ o = n * PageSize
  BY <1>1
<1>4. v + o = (b + n) * PageSize /\ o + PageSize = (n + 1) * PageSize
  BY <1>3
<1>5. (v + o) \div PageSize = b + n /\ (o + PageSize) \div PageSize = n + 1
  <2>1. b + n \in Nat /\ n + 1 \in Nat
    BY <1>3
  <2> QED  BY <1>2, <1>4, <2>1
<1>6. ASSUME o # 0
      PROVE  /\ n # 0 /\ o - PageSize \in Nat
             /\ (o - PageSize) % PageSize = 0
             /\ (o - PageSize) \div PageSize = n - 1
  <2>1. n # 0
    BY <1>3, <1>6
  <2>2. PICK m \in Nat : n = m + 1
    <3>1. n - 1 \in Nat /\ n = (n - 1) + 1
      BY <1>3, <2>1
    <3> QED  BY <3>1
  <2>3. o - PageSize = m * PageSize
    <3>1. o = m * PageSize + PageSize /\ m * PageSize \in Nat
      BY <1>3, <2>2
    <3> QED  BY <3>1
  <2>4. n - 1 = m
    BY <2>2
  <2> QED  BY <1>2, <2>1, <2>3, <2>4
<1> QED  BY <1>3, <1>5, <1>6

\* The tables that the next page of a range lacks are among those that the range
\* has for it.
LEMMA MissingFits ==
  ASSUME RamOK, SpansOK, NEW ts, NEW done, Holding(ts, done), NEW k \in Spans,
         NEW o, o = done[k], o < Size(k)
  PROVE  /\ Missing(ts, Virt(k) + o) \in Nat
         /\ Made(k, o) \in Nat /\ Made(k, o + PageSize) \in Nat
         /\ Made(k, o) + Missing(ts, Virt(k) + o) <= Made(k, o + PageSize)
<1> USE Geometry
<1> PICK v : v = Virt(k)
  OBVIOUS
<1> PICK b, n : b = v \div PageSize /\ n = o \div PageSize
  OBVIOUS
<1> PICK w : w = Slots * Slots
  OBVIOUS
<1>0. w \in Nat \ {0}
  OBVIOUS
<1>1. /\ done \in [Spans -> Nat] /\ o \in Nat /\ o % PageSize = 0
      /\ v \in Nat /\ v % PageSize = 0
  BY DEF Holding, SpansOK, SpanOK
<1>2. /\ b \in Nat /\ n \in Nat /\ (v + o) \div PageSize = b + n
      /\ (o + PageSize) \div PageSize = n + 1
  <2>1. /\ v \div PageSize \in Nat /\ o \div PageSize \in Nat
        /\ (v + o) \div PageSize = v \div PageSize + o \div PageSize
        /\ (o + PageSize) \div PageSize = o \div PageSize + 1
    BY ONLY <1>1, PagesCounted, Zenon
  <2>2. b = v \div PageSize /\ n = o \div PageSize
    OBVIOUS
  <2> QED  BY ONLY <2>1, <2>2
<1>3. ASSUME n # 0
      PROVE  /\ b + n - 1 \in Nat
             /\ (b + n) \div Slots = (b + n - 1) \div Slots => LeafTable(ts, v + o) # 0
             /\ (b + n) \div w = (b + n - 1) \div w => MidTable(ts, v + o) # 0
  <2>1. o # 0
    <3>1. (0 * PageSize + 0) \div PageSize = 0 /\ 0 * PageSize + 0 = 0
      BY QuotientIs
    <3> QED  BY <1>3, <3>1
  <2>2. PICK u : u = o - PageSize
    OBVIOUS
  <2>3. u \in Nat /\ u % PageSize = 0 /\ u \div PageSize = n - 1 /\ u < o
    <3>1. /\ o - PageSize \in Nat /\ (o - PageSize) % PageSize = 0
          /\ (o - PageSize) \div PageSize = o \div PageSize - 1
      BY <1>1, <2>1, PagesCounted
    <3> QED  BY <1>1, <2>2, <3>1
  <2>4. (v + u) \div PageSize = b + (n - 1)
    <3>1. /\ PageSize \in Nat \ {0} /\ v \in Nat /\ u \in Nat
          /\ v % PageSize = 0 /\ u % PageSize = 0
      BY <1>1, <2>3
    <3>2. (v + u) \div PageSize = v \div PageSize + u \div PageSize
      BY ONLY <3>1, PagesCounted, Zenon
    <3> QED  BY <2>3, <3>2
  <2>5. b + (n - 1) = b + n - 1 /\ b + n - 1 \in Nat
    BY <1>2, <1>3
  <2>6. Leaf(ts, v + u) = Phys(k) + u + PageBits
    BY <2>3 DEF Holding
  <2>7. Leaf(ts, v + u) # 0
    <3>1. Phys(k) \in Nat
      BY DEF SpansOK, SpanOK
    <3> QED  BY <2>3, <2>6, <3>1
  <2>8. MidTable(ts, v + u) # 0 /\ LeafTable(ts, v + u) # 0
    <3>1. TablesOK(ts)
      BY DEF Holding, Tree
    <3> QED  BY <2>7, <3>1, WayIsThere
  <2>9. Home(v + o) = Home(v + u)
    <3>1. Home(v + o) = (IF k = 1 THEN LowRoot ELSE HighRoot)
      BY <1>1, SpanPages
    <3>2. u < Size(k)
      <4>1. Size(k) \in Nat
        BY DEF SpansOK, SpanOK
      <4> QED  BY <1>1, <2>3, <4>1
    <3>3. Home(v + u) = (IF k = 1 THEN LowRoot ELSE HighRoot)
      BY <2>3, <3>2, SpanPages
    <3> QED  BY <3>1, <3>3
  <2>10. v + o \in Nat /\ v + u \in Nat
    BY <1>1, <2>3
  <2>11. PICK p, q : p = (v + o) \div PageSize /\ q = (v + u) \div PageSize
    OBVIOUS
  <2>12. /\ p \div Slots = q \div Slots => LeafTable(ts, v + o) = LeafTable(ts, v + u)
         /\ p \div w = q \div w => MidTable(ts, v + o) = MidTable(ts, v + u)
    BY <2>9, <2>10, <2>11, SameBlocks
  <2>13. p = b + n /\ q = b + n - 1
    BY <1>2, <2>4, <2>5, <2>11
  <2> QED  BY <2>5, <2>8, <2>12, <2>13
<1>4. PICK i \in {0, 1} : i = IF MidTable(ts, v + o) = 0 THEN 1 ELSE 0
  OBVIOUS
<1>5. PICK j \in {0, 1} : j = IF LeafTable(ts, v + o) = 0 THEN 1 ELSE 0
  OBVIOUS
<1>6. Missing(ts, v + o) = i + j
  BY <1>4, <1>5 DEF Missing
<1>7. PICK x, y : x = Blocks(b, n, Slots) /\ y = Blocks(b, n + 1, Slots)
  OBVIOUS
<1>8. PICK c, d : c = Blocks(b, n, w) /\ d = Blocks(b, n + 1, w)
  OBVIOUS
<1>9. x \in Nat /\ y \in Nat /\ c \in Nat /\ d \in Nat
  <2>1. n + 1 \in Nat /\ n <= n /\ n + 1 <= n + 1
    BY <1>2
  <2> QED  BY <1>0, <1>2, <1>7, <1>8, <2>1, BlocksFit
<1>10. x + j <= y
  <2>1. x + (IF n # 0 /\ (b + n) \div Slots = (b + n - 1) \div Slots THEN 0 ELSE 1) <= y
    BY <1>2, <1>7, BlocksGrow
  <2>2. n # 0 /\ (b + n) \div Slots = (b + n - 1) \div Slots => j = 0
    BY <1>3, <1>5
  <2> QED  BY <1>9, <2>1, <2>2
<1>11. c + i <= d
  <2>1. c + (IF n # 0 /\ (b + n) \div w = (b + n - 1) \div w THEN 0 ELSE 1) <= d
    BY <1>0, <1>2, <1>8, BlocksGrow
  <2>2. n # 0 /\ (b + n) \div w = (b + n - 1) \div w => i = 0
    BY <1>3, <1>4
  <2> QED  BY <1>9, <2>1, <2>2
<1>12. Made(k, o) = x + c /\ Made(k, o + PageSize) = y + d
  BY <1>2, <1>7, <1>8 DEF Made
<1> QED  BY <1>6, <1>9, <1>10, <1>11, <1>12

\* A range needs no more tables than its size allows for.
LEMMA MadeFits ==
  ASSUME SpansOK, NEW k \in Spans, NEW o \in Nat, o <= Size(k),
         NEW most, most = IF k <= 2 THEN MaxMemory ELSE MaxAliasBytes
  PROVE  Made(k, o) \in Nat /\ TablesFor(most) \in Nat /\ Made(k, o) <= TablesFor(most)
<1> USE Geometry
<1>1. most \in Nat
  BY GeometryAssumption
<1>2. Virt(k) \in Nat /\ o <= most
  <2>1. Virt(k) \in Nat /\ Size(k) \in Nat /\ Size(k) <= most
    BY DEF SpansOK, SpanOK
  <2> QED  BY <1>1, <2>1
<1>3. PICK b, n, m : /\ b = Virt(k) \div PageSize /\ n = o \div PageSize
                     /\ m = most \div PageSize
  OBVIOUS
<1>4. b \in Nat /\ n \in Nat /\ m \in Nat /\ n <= m
  BY <1>1, <1>2, <1>3, DivisionHolds, QuotientsGrow
<1>5. ASSUME NEW s \in Nat \ {0}
      PROVE  Blocks(b, n, s) \in Nat /\ Touched(m, s) \in Nat /\ Blocks(b, n, s) <= Touched(m, s)
  BY <1>4, BlocksFit
<1>6. Slots * Slots \in Nat \ {0}
  OBVIOUS
<1>7. PICK w : w = Slots * Slots
  OBVIOUS
<1>8. /\ Blocks(b, n, Slots) \in Nat /\ Touched(m, Slots) \in Nat
      /\ Blocks(b, n, Slots) <= Touched(m, Slots)
      /\ Blocks(b, n, w) \in Nat /\ Touched(m, w) \in Nat
      /\ Blocks(b, n, w) <= Touched(m, w)
  BY <1>5, <1>6, <1>7
<1>9. /\ Made(k, o) = Blocks(b, n, Slots) + Blocks(b, n, w)
      /\ TablesFor(most) = Touched(m, Slots) + Touched(m, w)
  BY <1>3, <1>7 DEF Made, TablesFor
<1> QED  BY <1>8, <1>9

-----------------------------------------------------------------------------
(* The loops.  At each position so many pages of each range are mapped, and  *)
(* so many tables are allowed for.                                           *)

Ram == TablesFor(MaxMemory)

PerAlias == TablesFor(MaxAliasBytes)

Reached(l) == [k \in Spans |->
  IF l.name = "alias"
    THEN IF k - 2 < l.alias THEN Size(k) ELSE IF k - 2 = l.alias THEN l.offset ELSE 0
  ELSE IF l.name = "finished" THEN Size(k)
  ELSE IF k = 1 THEN (IF l.name = "linear" THEN l.offset + PageSize ELSE l.offset)
  ELSE IF k = 2 THEN l.offset
  ELSE 0]

Allowed(l) ==
  IF l.name = "alias"
    THEN 2 + 2 * Ram + (l.alias - 1) * PerAlias + Made(l.alias + 2, l.offset)
  ELSE IF l.name = "finished" THEN 2 + 2 * Ram + Len(Aliases) * PerAlias
  ELSE 2 + Made(1, Reached(l)[1]) + Made(2, Reached(l)[2])

Underway(l) ==
  \/ l = Finished
  \/ \E o \in Nat :
       /\ o % PageSize = 0
       /\ \/ o < request.size /\ l \in {At("identity", 0, o), At("linear", 0, o)}
          \/ \E i \in 1 .. Len(Aliases) : o < Size(i + 2) /\ l = At("alias", i, o)

Building(ts, l) == Underway(l) /\ Holding(ts, Reached(l)) /\ Len(ts) <= Allowed(l)

\* One page more of a range, with no more tables than n; or no memory.
Extended(walk, done, k, n) ==
  \/ /\ walk.result = "Ok"
     /\ Mapped(tables, Virt(k) + done[k], Phys(k) + done[k], walk.tables)
     /\ Holding(walk.tables, [done EXCEPT ![k] = @ + PageSize])
     /\ Len(walk.tables) <= n
  \/ walk.result = "Allocation"

\* Mapping the next page of a range, when the range's tables fit.
LEMMA PageGoesOn ==
  ASSUME RamOK, SpansOK, NEW done, Holding(tables, done), NEW k \in Spans,
         NEW o, o = done[k], o < Size(k), NEW n \in Nat,
         Len(tables) + Made(k, o + PageSize) <= n + Made(k, o),
         n * PageSize <= MaxTableBytes,
         NEW heap, NEW root, root = IF k = 1 THEN LowRoot ELSE HighRoot,
         NEW walk, walk = MapPage(root, Virt(k) + o, Phys(k) + o, heap)
  PROVE  Extended(walk, done, k, n)
<1> USE Geometry
<1> PICK va, pa : va = Virt(k) + o /\ pa = Phys(k) + o
  OBVIOUS
<1>1. o \in Nat /\ o % PageSize = 0
  BY DEF Holding
<1>2. va \in VirtualPages /\ pa \in Frames /\ root = Home(va)
  BY <1>1, SpanPages
<1>3. PICK level : Tree(tables, level)
  BY DEF Holding
<1>4. Leaf(tables, va) = 0
  BY NextIsFree
<1>5. \/ walk.result = "Ok" /\ Mapped(tables, va, pa, walk.tables)
      \/ walk.result = "OverlappingRange" /\ Leaf(tables, va) # 0
      \/ walk.result = "Allocation"
      \/ /\ walk.result = "TableCapacity"
         /\ \E m \in 1 .. Missing(tables, va) : (Len(tables) + m) * PageSize > MaxTableBytes
  <2>1. walk = MapPage(Home(va), va, pa, heap)
    BY <1>2
  <2> QED  BY <1>2, <1>3, <2>1, PageIsMapped
<1>6. /\ Missing(tables, va) \in Nat
      /\ Made(k, o) \in Nat /\ Made(k, o + PageSize) \in Nat
      /\ Made(k, o) + Missing(tables, va) <= Made(k, o + PageSize)
  BY MissingFits
<1>7. Len(tables) \in Nat
  BY <1>3 DEF Tree, TablesOK
<1>8. PICK x, y, z : x = Missing(tables, va) /\ y = Made(k, o) /\ z = Made(k, o + PageSize)
  OBVIOUS
<1>9. Len(tables) + x <= n /\ x \in Nat
  BY <1>6, <1>7, <1>8
<1>10. CASE walk.result = "Ok" /\ Mapped(tables, va, pa, walk.tables)
  <2>1. PICK g : g = walk.tables
    OBVIOUS
  <2>2. Holding(g, [done EXCEPT ![k] = @ + PageSize])
    BY <1>10, <2>1, HoldingGrows
  <2>3. Len(g) <= n
    BY <1>8, <1>9, <1>10, <2>1 DEF Mapped
  <2> QED  BY <1>10, <2>1, <2>2, <2>3 DEF Extended
<1>11. CASE /\ walk.result = "TableCapacity"
            /\ \E m \in 1 .. Missing(tables, va) : (Len(tables) + m) * PageSize > MaxTableBytes
  <2>1. PICK m \in 1 .. x : (Len(tables) + m) * PageSize > MaxTableBytes
    BY <1>8, <1>11
  <2>2. PICK c : c = Len(tables) + m
    OBVIOUS
  <2>3. c \in Nat /\ c <= n
    BY <1>7, <1>9, <2>1, <2>2
  <2>4. PICK d \in Nat : n = c + d
    <3>1. n - c \in Nat /\ n = c + (n - c)
      BY <2>3
    <3> QED  BY <3>1
  <2>5. n * PageSize = c * PageSize + d * PageSize /\ c * PageSize \in Nat /\ d * PageSize \in Nat
    BY <2>3, <2>4
  <2>6. c * PageSize > MaxTableBytes
    BY <2>1, <2>2
  <2>7. PICK held, most : held = c * PageSize /\ most = n * PageSize
    OBVIOUS
  <2>8. held \in Nat /\ held <= most /\ held > MaxTableBytes /\ most <= MaxTableBytes /\ most \in Nat
    BY <2>5, <2>6, <2>7
  <2>9. FALSE
    <3>1. MaxTableBytes \in Nat
      OBVIOUS
    <3> QED  BY <2>8, <3>1
  <2> QED  BY <2>9
<1> QED  BY <1>4, <1>5, <1>10, <1>11 DEF Extended

\* The tables of the largest request fit.
LEMMA CapacityHolds ==
  ASSUME SpansOK
  PROVE  /\ Ram \in Nat /\ PerAlias \in Nat
         /\ \A a \in 0 .. Len(Aliases) : a * PerAlias \in Nat
         /\ \A n \in Nat : n <= 2 + 2 * Ram + Len(Aliases) * PerAlias
                             => n * PageSize <= MaxTableBytes
<1> USE Geometry
<1>1. /\ MaxMemory \in Nat /\ MaxAliasBytes \in Nat /\ MaxAliases \in Nat
      /\ (2 + 2 * Ram + MaxAliases * PerAlias) * PageSize <= MaxTableBytes
  BY GeometryAssumption DEF Ram, PerAlias
<1>2. ASSUME NEW bytes \in Nat
      PROVE  TablesFor(bytes) \in Nat
  <2>1. PICK m : m = bytes \div PageSize
    OBVIOUS
  <2>2. m \in Nat
    BY <2>1, DivisionHolds
  <2>3. ASSUME NEW s \in Nat \ {0}
        PROVE  Touched(m, s) \in Nat
    <3>1. m + 2 * s - 2 \in Nat
      BY <2>2
    <3> QED  BY <3>1, DivisionHolds DEF Touched
  <2>4. Slots * Slots \in Nat \ {0}
    OBVIOUS
  <2>5. Touched(m, Slots) \in Nat /\ Touched(m, Slots * Slots) \in Nat
    BY <2>3, <2>4
  <2> QED  BY <2>1, <2>5 DEF TablesFor
<1>3. Ram \in Nat /\ PerAlias \in Nat
  BY <1>1, <1>2 DEF Ram, PerAlias
<1>4. Len(Aliases) \in Nat /\ Len(Aliases) <= MaxAliases
  BY <1>1 DEF SpansOK
<1>5. \A a \in 0 .. Len(Aliases) : a * PerAlias \in Nat
  BY <1>3, <1>4
<1>6. ASSUME NEW n \in Nat, n <= 2 + 2 * Ram + Len(Aliases) * PerAlias
      PROVE  n * PageSize <= MaxTableBytes
  <2>1. PICK e \in Nat : MaxAliases = Len(Aliases) + e
    <3>1. MaxAliases - Len(Aliases) \in Nat /\ MaxAliases = Len(Aliases) + (MaxAliases - Len(Aliases))
      BY <1>1, <1>4
    <3> QED  BY <3>1
  <2>2. MaxAliases * PerAlias = Len(Aliases) * PerAlias + e * PerAlias
        /\ e * PerAlias \in Nat /\ Len(Aliases) * PerAlias \in Nat
    BY <1>3, <1>4, <2>1
  <2>3. PICK t : t = 2 + 2 * Ram + MaxAliases * PerAlias
    OBVIOUS
  <2>4. t \in Nat /\ n <= t
    BY <1>3, <1>6, <2>2, <2>3
  <2>5. PICK d \in Nat : t = n + d
    <3>1. t - n \in Nat /\ t = n + (t - n)
      BY <2>4
    <3> QED  BY <3>1
  <2>6. t * PageSize = n * PageSize + d * PageSize /\ n * PageSize \in Nat /\ d * PageSize \in Nat
    BY <2>5
  <2> QED  BY <1>1, <2>3, <2>6
<1> QED  BY <1>3, <1>5, <1>6

GoesOn(walk, next) ==
  \/ /\ walk.result = "Ok" /\ Building(walk.tables, next)
     /\ \E va \in VirtualPages, pa \in Frames : Mapped(tables, va, pa, walk.tables)
  \/ walk.result = "Allocation"

\* No pages need no tables.
LEMMA NothingMade ==
  ASSUME NEW k
  PROVE  Made(k, 0) = 0
<1> USE Geometry
<1>1. (0 * PageSize + 0) \div PageSize = 0 /\ 0 * PageSize + 0 = 0
  BY QuotientIs
<1>2. 0 \div PageSize = 0
  BY <1>1
<1>3. \A b, s : Blocks(b, 0, s) = 0
  BY DEF Blocks
<1> QED  BY <1>2, <1>3 DEF Made

\* RAM and the first a aliases are mapped, and nothing else.
Complete(done, a) ==
  /\ done \in [Spans -> Nat]
  /\ \A k \in Spans : done[k] = IF k - 2 <= a THEN Size(k) ELSE 0

Follows(l, done, a) ==
  /\ Underway(l) /\ Reached(l) = done
  /\ Allowed(l) \in Nat /\ 2 + 2 * Ram + a * PerAlias <= Allowed(l)

\* The loops go on with a range of which no page is mapped.
LEMMA FollowingIs ==
  ASSUME SpansOK, NEW a \in 0 .. Len(Aliases), NEW l, l = Following(a),
         NEW done, Complete(done, a)
  PROVE  Follows(l, done, a)
<1>0. /\ done \in [Spans -> Nat]
      /\ \A k \in Spans : done[k] = IF k - 2 <= a THEN Size(k) ELSE 0
  BY DEF Complete
<1>1. Len(Aliases) \in Nat
  BY DEF SpansOK
<1>2. Ram \in Nat /\ PerAlias \in Nat /\ a * PerAlias \in Nat
  BY CapacityHolds
<1>3. CASE a < Len(Aliases)
  <2>1. l = At("alias", a + 1, 0)
    BY <1>3 DEF Following
  <2>2. l.name = "alias" /\ l.alias = a + 1 /\ l.offset = 0
    BY <2>1 DEF At
  <2>3. Reached(l) = done
    <3>1. ASSUME NEW k \in Spans
          PROVE  Reached(l)[k] = done[k]
      <4>1. Reached(l)[k] = IF k - 2 < a + 1 THEN Size(k) ELSE 0
        BY <2>2, Zenon DEF Reached
      <4>2. k \in Int /\ a \in Int
        BY DEF Spans
      <4>3. k - 2 < a + 1 <=> k - 2 <= a
        BY <4>2
      <4> QED  BY <1>0, <4>1, <4>3
    <3>2. Reached(l) = [k \in Spans |-> Reached(l)[k]]
      BY DEF Reached
    <3>3. done = [k \in Spans |-> done[k]]
      BY <1>0
    <3> QED  BY <3>1, <3>2, <3>3, Zenon
  <2>4. Underway(l)
    <3>1. a + 1 \in 1 .. Len(Aliases) /\ a + 1 + 2 \in Spans
      BY <1>1, <1>3 DEF Spans
    <3>2. 0 < Size(a + 1 + 2)
      <4>1. Size(a + 1 + 2) \in Nat /\ Size(a + 1 + 2) # 0
        BY <3>1 DEF SpansOK, SpanOK
      <4> QED  BY <4>1
    <3>3. 0 % PageSize = 0
      <4>1. (0 * PageSize + 0) % PageSize = 0 /\ 0 * PageSize + 0 = 0
        BY QuotientIs, Geometry
      <4> QED  BY <4>1
    <3> QED  BY <2>1, <3>1, <3>2, <3>3 DEF Underway
  <2>5. Allowed(l) = 2 + 2 * Ram + a * PerAlias
    <3>1. PICK c, x : c = l.alias /\ x = l.offset
      OBVIOUS
    <3>2. Allowed(l) = 2 + 2 * Ram + (c - 1) * PerAlias + Made(c + 2, x)
      BY <2>2, <3>1 DEF Allowed
    <3>3. c - 1 = a /\ x = 0 /\ Made(c + 2, x) = 0
      BY <2>2, <3>1, NothingMade
    <3>4. Allowed(l) = 2 + 2 * Ram + a * PerAlias + 0
      BY <3>2, <3>3, Zenon
    <3> QED  BY <1>2, <3>4
  <2>6. Allowed(l) \in Nat /\ 2 + 2 * Ram + a * PerAlias <= Allowed(l)
    BY <1>2, <2>5
  <2> QED  BY <2>3, <2>4, <2>6 DEF Follows
<1>4. CASE ~ (a < Len(Aliases))
  <2>1. a = Len(Aliases) /\ l = Finished
    BY <1>1, <1>4 DEF Following
  <2>2. l.name = "finished"
    BY <2>1 DEF Finished, At
  <2>3. Reached(l) = done
    <3>1. ASSUME NEW k \in Spans
          PROVE  Reached(l)[k] = done[k]
      <4>1. Reached(l)[k] = Size(k)
        BY <2>2 DEF Reached
      <4>2. k - 2 <= a
        BY <1>1, <2>1 DEF Spans
      <4> QED  BY <1>0, <4>1, <4>2
    <3>2. Reached(l) = [k \in Spans |-> Reached(l)[k]]
      BY DEF Reached
    <3>3. done = [k \in Spans |-> done[k]]
      BY <1>0
    <3> QED  BY <3>1, <3>2, <3>3, Zenon
  <2>4. Allowed(l) = 2 + 2 * Ram + a * PerAlias
    BY <2>1, <2>2 DEF Allowed
  <2>5. Allowed(l) \in Nat /\ 2 + 2 * Ram + a * PerAlias <= Allowed(l)
    BY <1>2, <2>4
  <2>6. Underway(l)
    BY <2>1 DEF Underway
  <2> QED  BY <2>3, <2>5, <2>6 DEF Follows
<1> QED  BY <1>3, <1>4

\* One page of the identity range.
LEMMA IdentityGoesOn ==
  ASSUME RamOK, SpansOK, NEW o, NEW l, l = At("identity", 0, o), Building(tables, l),
         NEW next, next = At("linear", 0, o), NEW heap,
         NEW walk, walk = MapPage(LowRoot, request.physBase + o, request.physBase + o, heap)
  PROVE  GoesOn(walk, next)
<1> USE Geometry
<1>1. l.name = "identity" /\ l.alias = 0 /\ l.offset = o
      /\ next.name = "linear" /\ next.alias = 0 /\ next.offset = o
  BY DEF At
<1>2. o \in Nat /\ o % PageSize = 0 /\ o < request.size
  <2>1. Underway(l)
    BY DEF Building
  <2> QED  BY <1>1, <2>1 DEF Underway, Finished, At
<1>3. 1 \in Spans /\ 2 \in Spans /\ Len(Aliases) \in Nat
  BY DEF SpansOK, Spans
<1>4. Virt(1) = request.physBase /\ Phys(1) = request.physBase
      /\ Size(1) = request.size /\ Size(2) = request.size /\ request.size \in Nat
  BY DEF Virt, Phys, Size, RamOK
<1>5. PICK done : done = Reached(l)
  OBVIOUS
<1>6. Holding(tables, done) /\ Len(tables) <= Allowed(l)
  BY <1>5 DEF Building
<1>7. /\ done = [k \in Spans |-> IF k = 1 THEN o ELSE IF k = 2 THEN o ELSE 0]
      /\ Reached(next) = [k \in Spans |-> IF k = 1 THEN o + PageSize ELSE IF k = 2 THEN o ELSE 0]
  BY <1>1, <1>5 DEF Reached
<1>8. done[1] = o /\ done[2] = o /\ Reached(next) = [done EXCEPT ![1] = @ + PageSize]
  BY <1>3, <1>7
<1>9. PICK n : n = Allowed(next)
  OBVIOUS
<1>10. /\ Allowed(l) = 2 + Made(1, o) + Made(2, o)
       /\ n = 2 + Made(1, o + PageSize) + Made(2, o)
  <2>1. Reached(next)[1] = o + PageSize /\ Reached(next)[2] = o
    BY <1>3, <1>7
  <2>2. Allowed(l) = 2 + Made(1, done[1]) + Made(2, done[2])
    BY <1>1, <1>5 DEF Allowed
  <2>3. n = 2 + Made(1, Reached(next)[1]) + Made(2, Reached(next)[2])
    BY <1>1, <1>9 DEF Allowed
  <2> QED  BY <1>8, <2>1, <2>2, <2>3, Zenon
<1>11. o + PageSize <= Size(1)
  BY <1>2, <1>3, <1>4, SpanPages
<1>12. /\ Made(1, o) \in Nat
       /\ Made(1, o + PageSize) \in Nat /\ Made(1, o + PageSize) <= Ram
       /\ Made(2, o) \in Nat /\ Made(2, o) <= Ram
  <2>1. o \in Nat /\ o <= Size(1) /\ o <= Size(2) /\ o + PageSize \in Nat
    BY <1>2, <1>4
  <2> QED  BY <1>3, <1>11, <2>1, MadeFits DEF Ram
<1>13. /\ Ram \in Nat /\ Len(Aliases) * PerAlias \in Nat
       /\ \A m \in Nat : m <= 2 + 2 * Ram + Len(Aliases) * PerAlias
                           => m * PageSize <= MaxTableBytes
  <2>1. Len(Aliases) \in 0 .. Len(Aliases)
    BY <1>3
  <2> QED  BY <2>1, CapacityHolds
<1>14. /\ n \in Nat /\ n * PageSize <= MaxTableBytes
       /\ Len(tables) + Made(1, o + PageSize) <= n + Made(1, o)
  <2>1. n \in Nat /\ n <= 2 + 2 * Ram + Len(Aliases) * PerAlias
    BY <1>10, <1>12, <1>13
  <2>2. Len(tables) \in Nat
    BY <1>6 DEF Holding, Tree, TablesOK
  <2>3. Len(tables) + Made(1, o + PageSize) <= n + Made(1, o)
    BY <1>6, <1>10, <1>12, <2>2
  <2> QED  BY <1>13, <2>1, <2>3
<1>15. Extended(walk, done, 1, n)
  <2>1. walk = MapPage(LowRoot, Virt(1) + o, Phys(1) + o, heap)
    BY <1>4
  <2>2. o = done[1] /\ o < Size(1)
    BY <1>2, <1>4, <1>8
  <2>3. LowRoot = IF 1 = 1 THEN LowRoot ELSE HighRoot
    OBVIOUS
  <2> QED  BY <1>3, <1>6, <1>14, <2>1, <2>2, <2>3, PageGoesOn
<1>16. Underway(next)
  BY <1>2 DEF Underway
<1>17. Virt(1) + o \in VirtualPages /\ Phys(1) + o \in Frames
  BY <1>2, <1>3, <1>4, SpanPages
<1>18. CASE walk.result = "Allocation"
  BY <1>18 DEF GoesOn
<1>19. CASE walk.result # "Allocation"
  <2>1. /\ walk.result = "Ok" /\ Mapped(tables, Virt(1) + o, Phys(1) + o, walk.tables)
        /\ Holding(walk.tables, Reached(next)) /\ Len(walk.tables) <= Allowed(next)
    BY <1>8, <1>9, <1>15, <1>19 DEF Extended
  <2> QED  BY <1>16, <1>17, <2>1 DEF GoesOn, Building
<1> QED  BY <1>18, <1>19

\* One page of the linear range; after the last one, the aliases.
LEMMA LinearGoesOn ==
  ASSUME RamOK, SpansOK, NEW o, NEW l, l = At("linear", 0, o), Building(tables, l),
         NEW next, next = IF o + PageSize < request.size THEN At("identity", 0, o + PageSize)
                          ELSE Following(0),
         NEW heap,
         NEW walk, walk = MapPage(HighRoot, request.virtBase + o, request.physBase + o, heap)
  PROVE  GoesOn(walk, next)
<1> USE Geometry
<1>1. l.name = "linear" /\ l.alias = 0 /\ l.offset = o
  BY DEF At
<1>2. o \in Nat /\ o % PageSize = 0 /\ o < request.size
  <2>1. Underway(l)
    BY DEF Building
  <2> QED  BY <1>1, <2>1 DEF Underway, Finished, At
<1>3. 1 \in Spans /\ 2 \in Spans /\ Len(Aliases) \in Nat
  BY DEF SpansOK, Spans
<1>4. Virt(2) = request.virtBase /\ Phys(2) = request.physBase
      /\ Size(1) = request.size /\ Size(2) = request.size /\ request.size \in Nat
  BY DEF Virt, Phys, Size, RamOK
<1>5. PICK done : done = Reached(l)
  OBVIOUS
<1>6. Holding(tables, done) /\ Len(tables) <= Allowed(l)
  BY <1>5 DEF Building
<1> PICK p : p = o + PageSize
  OBVIOUS
<1>7. done = [k \in Spans |-> IF k = 1 THEN p ELSE IF k = 2 THEN o ELSE 0]
  BY <1>1, <1>5 DEF Reached
<1> PICK more : more = [done EXCEPT ![2] = @ + PageSize]
  OBVIOUS
<1>8. done[1] = p /\ done[2] = o
      /\ more = [k \in Spans |-> IF k = 1 THEN p ELSE IF k = 2 THEN p ELSE 0]
  BY <1>3, <1>7
<1>9. p <= Size(1) /\ p <= Size(2) /\ p \in Nat
  <2>1. o + PageSize <= Size(2)
    BY <1>2, <1>3, <1>4, SpanPages
  <2> QED  BY <1>2, <1>4, <2>1
<1>10. Allowed(l) = 2 + Made(1, p) + Made(2, o)
  BY <1>1, <1>5, <1>8 DEF Allowed
<1> PICK n : n = 2 + Made(1, p) + Made(2, p)
  OBVIOUS
<1>11. /\ Made(1, p) \in Nat /\ Made(1, p) <= Ram
       /\ Made(2, o) \in Nat /\ Made(2, o) <= Ram
       /\ Made(2, p) \in Nat /\ Made(2, p) <= Ram
  <2>1. o <= Size(2)
    BY <1>2, <1>4
  <2> QED  BY <1>2, <1>3, <1>9, <2>1, MadeFits DEF Ram
<1>12. /\ Ram \in Nat /\ Len(Aliases) * PerAlias \in Nat
       /\ \A m \in Nat : m <= 2 + 2 * Ram + Len(Aliases) * PerAlias
                           => m * PageSize <= MaxTableBytes
  <2>1. Len(Aliases) \in 0 .. Len(Aliases)
    BY <1>3
  <2> QED  BY <2>1, CapacityHolds
<1>13. /\ n \in Nat /\ n * PageSize <= MaxTableBytes
       /\ Len(tables) + Made(2, o + PageSize) <= n + Made(2, o)
  <2>1. n \in Nat /\ n <= 2 + 2 * Ram + Len(Aliases) * PerAlias
    BY <1>11, <1>12
  <2>2. Len(tables) \in Nat
    BY <1>6 DEF Holding, Tree, TablesOK
  <2>3. Len(tables) + Made(2, p) <= n + Made(2, o)
    BY <1>6, <1>10, <1>11, <2>2
  <2> QED  BY <1>12, <2>1, <2>3
<1>14. Extended(walk, done, 2, n)
  <2>1. walk = MapPage(HighRoot, Virt(2) + o, Phys(2) + o, heap)
    BY <1>4
  <2>2. o = done[2] /\ o < Size(2)
    BY <1>2, <1>4, <1>8
  <2>3. HighRoot = IF 2 = 1 THEN LowRoot ELSE HighRoot
    OBVIOUS
  <2> QED  BY ONLY RamOK, SpansOK, <1>3, <1>6, <1>13, <2>1, <2>2, <2>3, PageGoesOn
<1>15. Underway(next) /\ Reached(next) = more /\ n <= Allowed(next) /\ Allowed(next) \in Nat
  <2>1. CASE o + PageSize < request.size
    <3>1. next.name = "identity" /\ next.alias = 0 /\ next.offset = p
          /\ next = At("identity", 0, p)
      BY <2>1 DEF At
    <3>2. Reached(next) = more
      BY <1>8, <3>1 DEF Reached
    <3>3. more[1] = p /\ more[2] = p
      BY <1>3, <1>8
    <3>4. Allowed(next) = 2 + Made(1, p) + Made(2, p)
      <4>1. Allowed(next) = 2 + Made(1, more[1]) + Made(2, more[2])
        BY <3>1, <3>2 DEF Allowed
      <4> QED  BY <3>3, <4>1
    <3>5. p % PageSize = 0
      <4>1. (1 * PageSize + 0) % PageSize = 0
        BY QuotientIs
      <4>2. PageSize % PageSize = 0
        BY <4>1
      <4> QED  BY <1>2, <4>2, MultiplesAdd
    <3>6. Underway(next)
      BY <1>9, <2>1, <3>1, <3>5 DEF Underway
    <3> QED  BY <1>13, <3>2, <3>4, <3>6
  <2>2. CASE ~ (o + PageSize < request.size)
    <3>1. p = Size(1) /\ p = Size(2) /\ next = Following(0)
      BY <1>2, <1>4, <1>9, <2>2
    <3>2. more \in [Spans -> Nat]
      <4>1. [k \in Spans |-> IF k = 1 THEN p ELSE IF k = 2 THEN p ELSE 0] \in [Spans -> Nat]
        BY <1>9
      <4> QED  BY <1>8, <4>1
    <3>3. \A k \in Spans : more[k] = IF k - 2 <= 0 THEN Size(k) ELSE 0
      <4> TAKE k \in Spans
      <4>1. k \in Int /\ 1 <= k
        BY DEF Spans
      <4>2. k - 2 <= 0 <=> k = 1 \/ k = 2
        BY <4>1
      <4> QED  BY <1>8, <3>1, <4>2
    <3>4. 0 \in 0 .. Len(Aliases)
      BY <1>3
    <3>5. Follows(next, more, 0)
      <4>1. Complete(more, 0)
        BY <3>2, <3>3 DEF Complete
      <4> QED  BY <3>1, <3>4, <4>1, FollowingIs
    <3>6. Allowed(next) \in Nat /\ 2 + 2 * Ram + 0 * PerAlias <= Allowed(next)
          /\ Underway(next) /\ Reached(next) = more
      BY <3>5 DEF Follows
    <3>7. 0 * PerAlias = 0
      <4>1. PerAlias \in Nat
        BY CapacityHolds
      <4> QED  BY <4>1
    <3>8. n <= 2 + 2 * Ram
      BY <1>11, <1>12
    <3> QED  BY <1>12, <1>13, <3>6, <3>7, <3>8
  <2> QED  BY <2>1, <2>2
<1>16. Virt(2) + o \in VirtualPages /\ Phys(2) + o \in Frames
  BY <1>2, <1>3, <1>4, SpanPages
<1>17. CASE walk.result = "Allocation"
  BY <1>17 DEF GoesOn
<1>18. CASE walk.result # "Allocation"
  <2>1. /\ walk.result = "Ok" /\ Mapped(tables, Virt(2) + o, Phys(2) + o, walk.tables)
        /\ Holding(walk.tables, more) /\ Len(walk.tables) <= n
    BY <1>8, <1>14, <1>18 DEF Extended
  <2>2. Len(walk.tables) \in Nat
    <3>1. TablesOK(walk.tables)
      BY <2>1, Zenon DEF Holding, Tree
    <3> QED  BY <3>1 DEF TablesOK
  <2>3. Building(walk.tables, next)
    <3>1. Len(walk.tables) <= Allowed(next)
      BY <1>13, <1>15, <2>1, <2>2
    <3> QED  BY <1>15, <2>1, <3>1 DEF Building
  <2> QED  BY <1>16, <2>1, <2>3 DEF GoesOn
<1> QED  BY <1>17, <1>18

\* One page of an alias; after the last one, the next alias.
LEMMA AliasGoesOn ==
  ASSUME RamOK, SpansOK, NEW i, NEW o, NEW l, l = At("alias", i, o), Building(tables, l),
         NEW next, next = IF o + PageSize < Aliases[i].bytes
                            THEN At("alias", i, o + PageSize) ELSE Following(i),
         NEW heap,
         NEW walk, walk = MapPage(HighRoot, Aliases[i].virtBase + o,
                                  Aliases[i].physBase + o, heap)
  PROVE  GoesOn(walk, next)
<1> USE Geometry
<1>1. l.name = "alias" /\ l.alias = i /\ l.offset = o
  BY DEF At
<1>2. o \in Nat /\ o % PageSize = 0 /\ i \in 1 .. Len(Aliases) /\ o < Size(i + 2)
  <2>1. Underway(l)
    BY DEF Building
  <2> QED  BY <1>1, <2>1 DEF Underway, Finished, At
<1> PICK k : k = i + 2
  OBVIOUS
<1>3. k \in Spans /\ Len(Aliases) \in Nat /\ i \in Nat /\ k - 2 = i /\ k \in Nat /\ k > 2
  <2>1. Len(Aliases) \in Nat
    BY DEF SpansOK
  <2> QED  BY <1>2, <2>1 DEF Spans
<1>4. /\ Virt(k) = Aliases[i].virtBase /\ Phys(k) = Aliases[i].physBase
      /\ Size(k) = Aliases[i].bytes /\ Size(k) \in Nat
  <2>1. Size(k) \in Nat
    BY <1>3 DEF SpansOK, SpanOK
  <2>2. k # 1 /\ k # 2 /\ ~ (k <= 2)
    BY <1>3
  <2> QED  BY <1>3, <2>1, <2>2 DEF Virt, Phys, Size
<1>5. PICK done : done = Reached(l)
  OBVIOUS
<1>6. Holding(tables, done) /\ Len(tables) <= Allowed(l)
  BY <1>5 DEF Building
<1> PICK p : p = o + PageSize
  OBVIOUS
<1>7. done = [j \in Spans |-> IF j - 2 < i THEN Size(j) ELSE IF j - 2 = i THEN o ELSE 0]
  BY <1>1, <1>5 DEF Reached
<1>8a. PICK more : more = [done EXCEPT ![k] = @ + PageSize]
  OBVIOUS
<1>8. done[k] = o
  BY <1>3, <1>7
<1>9. more = [j \in Spans |-> IF j - 2 < i THEN Size(j) ELSE IF j - 2 = i THEN p ELSE 0]
  <2>1. \A j \in Spans : j - 2 = i <=> j = k
    BY <1>3 DEF Spans
  <2>2. more = [j \in Spans |-> IF j = k THEN done[k] + PageSize ELSE done[j]]
    BY <1>7, <1>8a
  <2>3. ~ (k - 2 < i) /\ k - 2 = i
    BY <1>3
  <2>4. ASSUME NEW j \in Spans
        PROVE  (IF j = k THEN done[k] + PageSize ELSE done[j])
                 = IF j - 2 < i THEN Size(j) ELSE IF j - 2 = i THEN p ELSE 0
    <3>1. CASE j = k
      BY <1>8, <2>3, <3>1
    <3>2. CASE j # k
      BY <1>7, <2>1, <3>2
    <3> QED  BY <3>1, <3>2
  <2> QED  BY <2>2, <2>4
<1>10. p <= Size(k) /\ p \in Nat
  BY <1>2, <1>3, SpanPages
<1> PICK rest : rest = 2 + 2 * Ram + (i - 1) * PerAlias
  OBVIOUS
<1>11. Allowed(l) = rest + Made(k, o)
  <2>1. Allowed(l) = 2 + 2 * Ram + (l.alias - 1) * PerAlias + Made(l.alias + 2, l.offset)
    BY <1>1 DEF Allowed
  <2> QED  BY <1>1, <2>1
<1>12. /\ Made(k, o) \in Nat
       /\ Made(k, p) \in Nat /\ Made(k, p) <= PerAlias
  <2>1. o <= Size(k)
    BY <1>2, <1>4
  <2>2. ~ (k <= 2)
    BY <1>3
  <2>3. MaxAliasBytes = IF k <= 2 THEN MaxMemory ELSE MaxAliasBytes
    BY <2>2
  <2> QED  BY <1>2, <1>3, <1>10, <2>1, <2>3, MadeFits DEF PerAlias
<1>13. /\ Ram \in Nat /\ PerAlias \in Nat /\ Len(Aliases) * PerAlias \in Nat
       /\ (i - 1) * PerAlias \in Nat /\ i * PerAlias = (i - 1) * PerAlias + PerAlias
       /\ i * PerAlias <= Len(Aliases) * PerAlias
       /\ \A m \in Nat : m <= 2 + 2 * Ram + Len(Aliases) * PerAlias
                           => m * PageSize <= MaxTableBytes
  <2>1. Len(Aliases) \in 0 .. Len(Aliases)
    BY <1>3
  <2>2. /\ Ram \in Nat /\ PerAlias \in Nat /\ Len(Aliases) * PerAlias \in Nat
        /\ \A m \in Nat : m <= 2 + 2 * Ram + Len(Aliases) * PerAlias
                            => m * PageSize <= MaxTableBytes
    BY <2>1, CapacityHolds
  <2>3. PICK d \in Nat : i = d + 1
    <3>1. i - 1 \in Nat /\ i = (i - 1) + 1
      BY <1>2
    <3> QED  BY <3>1
  <2>4. PICK e \in Nat : Len(Aliases) = i + e
    <3>1. Len(Aliases) - i \in Nat /\ Len(Aliases) = i + (Len(Aliases) - i)
      BY <1>2, <1>3
    <3> QED  BY <3>1
  <2>5. i - 1 = d
    BY <2>3
  <2>6. i * PerAlias = d * PerAlias + PerAlias /\ d * PerAlias \in Nat
    BY <2>2, <2>3
  <2>7. Len(Aliases) * PerAlias = i * PerAlias + e * PerAlias /\ e * PerAlias \in Nat
        /\ i * PerAlias \in Nat
    BY <1>3, <2>2, <2>4
  <2>8. i * PerAlias <= Len(Aliases) * PerAlias
    <3>1. PICK x, y, z : x = i * PerAlias /\ y = e * PerAlias /\ z = Len(Aliases) * PerAlias
      OBVIOUS
    <3>2. x \in Nat /\ y \in Nat /\ z = x + y
      BY <2>7, <3>1
    <3>3. x <= z
      BY <3>2
    <3> QED  BY <3>1, <3>3
  <2> QED  BY <2>2, <2>5, <2>6, <2>8
<1>14. rest \in Nat
  BY <1>13
<1>14a. PICK n : n = rest + Made(k, p)
  OBVIOUS
<1>15. /\ n \in Nat /\ n * PageSize <= MaxTableBytes
       /\ n <= 2 + 2 * Ram + i * PerAlias
       /\ Len(tables) + Made(k, o + PageSize) <= n + Made(k, o)
  <2>1. n \in Nat /\ n <= 2 + 2 * Ram + i * PerAlias
        /\ n <= 2 + 2 * Ram + Len(Aliases) * PerAlias
    <3>1. PICK x, y, z : /\ x = i * PerAlias /\ y = (i - 1) * PerAlias
                         /\ z = Len(Aliases) * PerAlias
      OBVIOUS
    <3>2. x \in Nat /\ y \in Nat /\ z \in Nat /\ x = y + PerAlias /\ x <= z
      BY <1>13, <3>1
    <3>3. rest = 2 + 2 * Ram + y
      BY <3>1
    <3>4. n \in Nat /\ n <= 2 + 2 * Ram + x /\ n <= 2 + 2 * Ram + z
      BY ONLY <1>12, <1>13, <1>14a, <3>2, <3>3
    <3> QED  BY <3>1, <3>4
  <2>2. Len(tables) \in Nat
    BY <1>6 DEF Holding, Tree, TablesOK
  <2>3. Len(tables) + Made(k, p) <= n + Made(k, o)
    BY <1>6, <1>11, <1>12, <1>14, <1>14a, <2>2
  <2> QED  BY <1>13, <2>1, <2>3
<1>16. Extended(walk, done, k, n)
  <2>1. PICK root : root = IF k = 1 THEN LowRoot ELSE HighRoot
    OBVIOUS
  <2>2. walk = MapPage(root, Virt(k) + o, Phys(k) + o, heap)
    BY <1>3, <1>4, <2>1
  <2>3. o = done[k] /\ o < Size(k)
    BY <1>2, <1>8
  <2> QED  BY ONLY RamOK, SpansOK, <1>3, <1>6, <1>15, <2>1, <2>2, <2>3, PageGoesOn
<1>17. Underway(next) /\ Reached(next) = more /\ n <= Allowed(next) /\ Allowed(next) \in Nat
  <2>1. CASE o + PageSize < Aliases[i].bytes
    <3>1. next.name = "alias" /\ next.alias = i /\ next.offset = p
          /\ next = At("alias", i, p)
      BY <2>1 DEF At
    <3>2. Reached(next) = more
      <4>1. \A j \in Spans :
              Reached(next)[j] = IF j - 2 < i THEN Size(j) ELSE IF j - 2 = i THEN p ELSE 0
        BY <3>1, Zenon DEF Reached
      <4>2. Reached(next) = [j \in Spans |-> Reached(next)[j]]
        BY DEF Reached
      <4> QED  BY <1>9, <4>1, <4>2
    <3>3. Allowed(next) = n
      <4>1. Allowed(next) = 2 + 2 * Ram + (next.alias - 1) * PerAlias
                              + Made(next.alias + 2, next.offset)
        BY <3>1 DEF Allowed
      <4> QED  BY <1>14a, <3>1, <4>1
    <3>4. p % PageSize = 0
      <4>1. (1 * PageSize + 0) % PageSize = 0
        BY QuotientIs
      <4>2. PageSize % PageSize = 0
        BY <4>1
      <4> QED  BY <1>2, <4>2, MultiplesAdd
    <3>5. p < Size(i + 2)
      BY <1>4, <2>1
    <3>6. Underway(next)
      BY <1>2, <1>10, <3>1, <3>4, <3>5 DEF Underway
    <3> QED  BY <1>15, <3>2, <3>3, <3>6
  <2>2. CASE ~ (o + PageSize < Aliases[i].bytes)
    <3>1. p = Size(k) /\ next = Following(i)
      BY <1>2, <1>4, <1>10, <2>2
    <3>2. \A j \in Spans : more[j] = IF j - 2 <= i THEN Size(j) ELSE 0
      <4> TAKE j \in Spans
      <4>1. j \in Int /\ j - 2 \in Int
        BY DEF Spans
      <4>2. j - 2 <= i <=> j - 2 < i \/ j = k
        BY <1>3, <4>1
      <4>3. more[j] = IF j - 2 < i THEN Size(j) ELSE IF j - 2 = i THEN p ELSE 0
        BY <1>9
      <4>4. j - 2 = i <=> j = k
        BY <1>3, <4>1
      <4> QED  BY <3>1, <4>2, <4>3, <4>4
    <3>3. more \in [Spans -> Nat]
      <4>1. \A j \in Spans : Size(j) \in Nat
        BY DEF SpansOK, SpanOK
      <4>2. \A j \in Spans : more[j] \in Nat
        BY <3>2, <4>1
      <4>3. more = [j \in Spans |-> more[j]]
        BY <1>9
      <4> QED  BY <4>2, <4>3
    <3>4. i \in 0 .. Len(Aliases)
      BY <1>2, <1>3
    <3>5. Follows(next, more, i)
      <4>1. Complete(more, i)
        BY <3>2, <3>3 DEF Complete
      <4> QED  BY <3>1, <3>4, <4>1, FollowingIs
    <3>6. Allowed(next) \in Nat /\ 2 + 2 * Ram + i * PerAlias <= Allowed(next)
          /\ Underway(next) /\ Reached(next) = more
      BY <3>5 DEF Follows
    <3>7. i * PerAlias \in Nat
      BY <1>13
    <3> QED  BY <1>13, <1>15, <3>6, <3>7
  <2> QED  BY <2>1, <2>2
<1>18. Virt(k) + o \in VirtualPages /\ Phys(k) + o \in Frames
  BY <1>2, <1>3, SpanPages
<1>19. CASE walk.result = "Allocation"
  BY <1>19 DEF GoesOn
<1>20. CASE walk.result # "Allocation"
  <2>1. /\ walk.result = "Ok" /\ Mapped(tables, Virt(k) + o, Phys(k) + o, walk.tables)
        /\ Holding(walk.tables, more) /\ Len(walk.tables) <= n
    BY <1>8, <1>16, <1>20, <1>8a DEF Extended
  <2>2. Len(walk.tables) \in Nat
    <3>1. TablesOK(walk.tables)
      BY <2>1, Zenon DEF Holding, Tree
    <3> QED  BY <3>1 DEF TablesOK
  <2>3. Building(walk.tables, next)
    <3>1. Len(walk.tables) <= Allowed(next)
      BY <1>15, <1>17, <2>1, <2>2
    <3> QED  BY <1>17, <2>1, <3>1 DEF Building
  <2> QED  BY <1>18, <2>1, <2>3 DEF GoesOn
<1> QED  BY <1>19, <1>20

-----------------------------------------------------------------------------
(* The constructor *)

\* The invariant.  While pages are mapped the tables are a tree that holds what
\* the loops have reached, in no more tables than are allowed for; otherwise
\* there are none.
StageInv ==
  /\ request \in Requests
  /\ \/ tables = <<>> /\ loop = At("begin", 0, 0) /\ result = None
     \/ /\ tables = <<>> /\ loop = Finished /\ result # "Ok"
        /\ RequestCheck = "Ok" => result = "Allocation"
     \/ /\ RequestCheck = "Ok" /\ Building(tables, loop)
        /\ result = IF loop = Finished THEN "Ok" ELSE None

\* What is said of tables and a position depends on the request alone.
LEMMA RequestStays ==
  ASSUME request' = request
  PROVE  /\ RequestCheck' = RequestCheck
         /\ \A g, l : Building(g, l) => Building(g, l)'
<1>1. RequestCheck' = RequestCheck
  <2>1. RamCheck' = RamCheck
    BY Zenon DEF RamCheck, TableBase
  <2>2. \A i : AliasEnd(i)' = AliasEnd(i)
    BY Zenon DEF AliasEnd
  <2>3. \A i : AliasIsApart(i)' <=> AliasIsApart(i)
    BY <2>2, Zenon DEF AliasIsApart
  <2>4. \A a : AliasIsInRam(a)' <=> AliasIsInRam(a)
    BY Zenon DEF AliasIsInRam
  <2>5. \A i : AliasCheck(i)' = AliasCheck(i)
    BY <2>2, <2>3, <2>4 DEF AliasCheck
  <2> QED  BY <2>1, <2>5, Zenon DEF RequestCheck
<1>2. Aliases' = Aliases /\ TableBase' = TableBase
  BY DEF Aliases, TableBase
<1>3. Spans' = Spans
  BY <1>2 DEF Spans
<1>4. \A k : Virt(k)' = Virt(k) /\ Phys(k)' = Phys(k) /\ Size(k)' = Size(k)
  BY <1>2 DEF Virt, Phys, Size
<1>5. \A k, o : Made(k, o)' = Made(k, o)
  BY <1>4 DEF Made
<1>6. \A l : Reached(l)' = Reached(l)
  BY <1>3, <1>4 DEF Reached
<1>7. \A l : Allowed(l)' = Allowed(l)
  BY <1>2, <1>5, <1>6 DEF Allowed
<1>8. \A l : Underway(l) => Underway(l)'
  BY <1>2, <1>4 DEF Underway
<1>9. \A n : TableAddress(n)' = TableAddress(n) /\ Naming(n)' = Naming(n) /\ TableAt(n)' = TableAt(n)
  BY <1>2 DEF TableAddress, Naming, TableAt
<1>10. \A ts, t, s : NextIn(ts, t, s)' = NextIn(ts, t, s)
  BY <1>9 DEF NextIn
<1>11. \A ts, va : Leaf(ts, va)' = Leaf(ts, va)
  BY <1>10 DEF Leaf, LeafTable
<1>12. Frames' = Frames
  BY <1>2 DEF Frames
<1>13. \A ts : TablesOK(ts) => TablesOK(ts)'
  BY <1>2 DEF TablesOK
<1>14. \A ts, level : Tree(ts, level) => Tree(ts, level)'
  BY <1>9, <1>12, <1>13 DEF Tree
<1>15. \A ts, done : Holding(ts, done) => Holding(ts, done)'
  BY <1>3, <1>4, <1>11, <1>14 DEF Holding
<1>16. \A g, l : Building(g, l) => Building(g, l)'
  <2> TAKE g, l
  <2>1. SUFFICES ASSUME Building(g, l)
                 PROVE  Building(g, l)'
    OBVIOUS
  <2>2. PICK done : done = Reached(l)
    OBVIOUS
  <2>3. Holding(g, done)'
    BY <1>15, <2>1, <2>2 DEF Building
  <2>4. Reached(l)' = done
    BY <1>6, <2>2
  <2> QED  BY <1>7, <1>8, <2>1, <2>3, <2>4 DEF Building
<1> QED  BY <1>1, <1>16

\* The two roots alone hold no page.
LEMMA StartBuilds ==
  ASSUME RamOK, SpansOK, request.size # 0, TableBase + 2 * PageSize <= PaEnd,
         NEW g, g = <<EmptyTable, EmptyTable>>
  PROVE  /\ Building(g, At("identity", 0, 0))
         /\ \A v \in Nat : Leaf(g, v) = 0
<1> USE Geometry
<1>1. EmptyTable \in [SlotSet -> Nat] /\ \A s \in SlotSet : EmptyTable[s] = 0
  BY DEF EmptyTable, SlotSet
<1>2. /\ g \in Seq([SlotSet -> Nat]) /\ Len(g) = 2 /\ DOMAIN g = 1 .. 2
      /\ g[1] = EmptyTable /\ g[2] = EmptyTable
  BY <1>1
<1>3. \A t \in 1 .. 2, s \in SlotSet : g[t][s] = 0
  BY <1>1, <1>2
<1>4. PICK level : level = [t \in 1 .. 2 |-> 1]
  OBVIOUS
<1>5. Tree(g, level)
  <2>1. TablesOK(g)
    BY <1>2 DEF TablesOK
  <2>2. /\ level \in [1 .. Len(g) -> 1 .. 3] /\ level[LowRoot] = 1 /\ level[HighRoot] = 1
    BY <1>2, <1>4 DEF LowRoot, HighRoot
  <2> QED  BY <1>2, <1>3, <2>1, <2>2 DEF Tree
<1>6. ASSUME NEW v \in Nat
      PROVE  Leaf(g, v) = 0
  <2>1. Slot(v, 1) \in SlotSet /\ Slot(v, 2) \in SlotSet /\ Slot(v, 3) \in SlotSet
    BY SlotsInRange
  <2>2. \A t, s : s \in SlotSet => EntryIn(g, t, s) = 0 /\ NextIn(g, t, s) = 0
    BY <1>2, <1>3 DEF EntryIn, NextIn
  <2> QED  BY <2>1, <2>2 DEF Leaf, LeafTable
<1> PICK l : l = At("identity", 0, 0)
  OBVIOUS
<1>7. l.name = "identity" /\ l.alias = 0 /\ l.offset = 0
  BY DEF At
<1>8. 0 % PageSize = 0
  <2>1. (0 * PageSize + 0) % PageSize = 0 /\ 0 * PageSize + 0 = 0
    BY QuotientIs
  <2> QED  BY <2>1
<1>9. Underway(l)
  <2>1. 0 < request.size
    BY DEF RamOK
  <2> QED  BY <1>8, <2>1 DEF Underway
<1>10. Reached(l) = [k \in Spans |-> 0]
  BY <1>7 DEF Reached
<1>11. Holding(g, [k \in Spans |-> 0])
  <2>1. PICK done : done = [k \in Spans |-> 0]
    OBVIOUS
  <2>2. done \in [Spans -> Nat] /\ \A k \in Spans : done[k] = 0
    BY <2>1
  <2>3. \A k \in Spans : done[k] <= Size(k) /\ done[k] % PageSize = 0
    <3>1. \A k \in Spans : Size(k) \in Nat
      BY DEF SpansOK, SpanOK
    <3> QED  BY <1>8, <2>2, <3>1
  <2>4. \A v \in VirtualPages : Leaf(g, v) = 0
    BY <1>6, VirtualPageIs
  <2>5. Holding(g, done)
    BY <1>5, <2>2, <2>3, <2>4 DEF Holding
  <2> QED  BY <2>1, <2>5
<1>12. Len(g) <= Allowed(l)
  <2>1. 1 \in Spans /\ 2 \in Spans
    BY DEF SpansOK, Spans
  <2>2. Reached(l)[1] = 0 /\ Reached(l)[2] = 0
    BY <1>10, <2>1
  <2>3. Allowed(l) = 2 + Made(1, Reached(l)[1]) + Made(2, Reached(l)[2])
    BY <1>7 DEF Allowed
  <2>4. Made(1, Reached(l)[1]) = 0 /\ Made(2, Reached(l)[2]) = 0
    BY <2>2, NothingMade
  <2>5. Allowed(l) = 2
    BY <2>3, <2>4
  <2> QED  BY <1>2, <2>5
<1> QED  BY <1>6, <1>9, <1>10, <1>11, <1>12 DEF Building

\* The first step: an error of the arguments or for want of memory, or the roots.
LEMMA BeginIs ==
  ASSUME request \in Requests, tables = <<>>, result = None, Begin
  PROVE  \/ /\ tables' = <<>> /\ loop' = Finished /\ result' # "Ok"
            /\ RequestCheck = "Ok" => result' = "Allocation"
         \/ /\ RequestCheck = "Ok" /\ Building(tables', At("identity", 0, 0))
            /\ loop' = At("identity", 0, 0) /\ result' = None
            /\ \A v \in Nat : Leaf(tables', v) = 0
<1> USE Geometry
<1>1. PICK heap \in Heaps :
        LET checks == <<RequestCheck, AllocateCheck(0, heap), AllocateCheck(1, heap)>>
            failing == {i \in DOMAIN checks : checks[i] # "Ok"}
        IN  IF failing # {} THEN Fail(checks[Min(failing)])
            ELSE /\ tables' = <<EmptyTable, EmptyTable>>
                 /\ loop' = At("identity", 0, 0)
                 /\ UNCHANGED result
  BY DEF Begin
<1> PICK a, b, c : a = RequestCheck /\ b = AllocateCheck(0, heap) /\ c = AllocateCheck(1, heap)
  OBVIOUS
<1> PICK failing : failing = {i \in 1 .. 3 : <<a, b, c>>[i] # "Ok"}
  OBVIOUS
<1>2. IF failing # {} THEN Fail(<<a, b, c>>[Min(failing)])
      ELSE /\ tables' = <<EmptyTable, EmptyTable>>
           /\ loop' = At("identity", 0, 0)
           /\ UNCHANGED result
  <2>1. DOMAIN <<a, b, c>> = 1 .. 3
    OBVIOUS
  <2> QED  BY <1>1, <2>1
<1>3. ASSUME a = "Ok", NEW n \in {0, 1}
      PROVE  \/ AllocateCheck(n, heap) = "Ok" /\ TableBase + (n + 1) * PageSize <= PaEnd
             \/ AllocateCheck(n, heap) = "Allocation"
  <2>1. RamOK /\ SpansOK
    BY <1>3, AcceptedSpans
  <2>2. n \in Nat
    OBVIOUS
  <2>3. \/ AllocateCheck(n, heap) = "Ok" /\ TableBase + (n + 1) * PageSize <= PaEnd
        \/ AllocateCheck(n, heap) = "Allocation"
        \/ AllocateCheck(n, heap) = "TableCapacity" /\ (n + 1) * PageSize > MaxTableBytes
    BY <2>1, <2>2, AllocationsFit
  <2>4. (n + 1) * PageSize <= MaxTableBytes
    <3>1. Len(Aliases) \in 0 .. Len(Aliases)
      BY <2>1 DEF SpansOK
    <3>2. /\ Ram \in Nat /\ Len(Aliases) * PerAlias \in Nat
          /\ \A m \in Nat : m <= 2 + 2 * Ram + Len(Aliases) * PerAlias
                              => m * PageSize <= MaxTableBytes
      BY <2>1, <3>1, CapacityHolds
    <3>3. n + 1 \in Nat /\ n + 1 <= 2 + 2 * Ram + Len(Aliases) * PerAlias
      BY <3>2
    <3> QED  BY <3>2, <3>3
  <2>5. PICK most : most = (n + 1) * PageSize
    OBVIOUS
  <2>6. most \in Nat /\ ~ (most > MaxTableBytes)
    BY <2>2, <2>4, <2>5
  <2> QED  BY <2>3, <2>5, <2>6
<1>4. CASE failing # {}
  <2>1. PICK m \in failing : m = Min(failing)
    <3>1. failing \subseteq Nat
      OBVIOUS
    <3>2. \E x \in failing : \A y \in failing : x <= y
      BY <1>4, <3>1, LeastNatural
    <3> QED  BY <3>2 DEF Min
  <2>2. Fail(<<a, b, c>>[m])
    BY <1>2, <1>4, <2>1
  <2>3. <<a, b, c>>[m] # "Ok" /\ m \in 1 .. 3
    OBVIOUS
  <2>4. a = "Ok" => <<a, b, c>>[m] = "Allocation"
    <3>1. a = "Ok" => b \in {"Ok", "Allocation"} /\ c \in {"Ok", "Allocation"}
      BY <1>3
    <3>2. \/ m = 1 /\ <<a, b, c>>[m] = a
          \/ m = 2 /\ <<a, b, c>>[m] = b
          \/ m = 3 /\ <<a, b, c>>[m] = c
      BY <2>3
    <3> QED  BY <2>3, <3>1, <3>2
  <2> QED  BY <2>2, <2>3, <2>4 DEF Fail
<1>5. CASE failing = {}
  <2>1. a = "Ok" /\ b = "Ok" /\ c = "Ok"
    <3>1. 1 \in 1 .. 3 /\ 2 \in 1 .. 3 /\ 3 \in 1 .. 3
      OBVIOUS
    <3>2. <<a, b, c>>[1] = a /\ <<a, b, c>>[2] = b /\ <<a, b, c>>[3] = c
      OBVIOUS
    <3> QED  BY <1>5, <3>1, <3>2
  <2>2. RamOK /\ SpansOK /\ request.size # 0
    BY <2>1, AcceptedSpans, AcceptedRam
  <2>3. TableBase + 2 * PageSize <= PaEnd
    BY <1>3, <2>1
  <2>4. PICK g : g = <<EmptyTable, EmptyTable>>
    OBVIOUS
  <2>5. Building(g, At("identity", 0, 0)) /\ \A v \in Nat : Leaf(g, v) = 0
    BY <2>2, <2>3, <2>4, StartBuilds
  <2>6. tables' = g /\ loop' = At("identity", 0, 0) /\ result' = None
    BY <1>2, <1>5, <2>4
  <2> QED  BY <2>1, <2>5, <2>6
<1> QED  BY <1>4, <1>5

\* A step of the loops: a page, or no memory.
PageStep ==
  \/ tables' = <<>> /\ loop' = Finished /\ result' = "Allocation"
  \/ /\ Building(tables', loop') /\ result' = (IF loop' = Finished THEN "Ok" ELSE None)
     /\ \E va \in VirtualPages, pa \in Frames : Mapped(tables, va, pa, tables')

LEMMA WalkIsPageStep ==
  ASSUME result = None, NEW walk, NEW next, GoesOn(walk, next),
         IF walk.result # "Ok" THEN Fail(walk.result)
         ELSE /\ tables' = walk.tables
              /\ loop' = next
              /\ result' = IF next = Finished THEN "Ok" ELSE result
  PROVE  PageStep
<1>1. CASE walk.result = "Allocation"
  BY <1>1 DEF Fail, PageStep
<1>2. CASE walk.result # "Allocation"
  <2>1. /\ walk.result = "Ok" /\ Building(walk.tables, next)
        /\ \E va \in VirtualPages, pa \in Frames : Mapped(tables, va, pa, walk.tables)
    BY <1>2 DEF GoesOn
  <2>2. tables' = walk.tables /\ loop' = next /\ result' = IF next = Finished THEN "Ok" ELSE None
    BY <2>1
  <2> QED  BY <2>1, <2>2 DEF PageStep
<1> QED  BY <1>1, <1>2

LEMMA LoopsMapPages ==
  ASSUME request \in Requests, RequestCheck = "Ok", Building(tables, loop), result = None,
         MapIdentity \/ MapLinear \/ MapAlias
  PROVE  PageStep
<1>1. RamOK /\ SpansOK
  BY AcceptedSpans
<1>2. Underway(loop)
  BY DEF Building
<1>3. PICK o : o = loop.offset
  OBVIOUS
<1>4. CASE MapIdentity
  <2>1. loop = At("identity", 0, o)
    <3>1. loop.name = "identity"
      BY <1>4 DEF MapIdentity
    <3> QED  BY <1>2, <1>3, <3>1 DEF Underway, Finished, At
  <2>2. PICK next : next = At("linear", 0, o)
    OBVIOUS
  <2>3. PICK heap, walk :
          /\ heap \in Heaps
          /\ walk = MapPage(LowRoot, request.physBase + o, request.physBase + o, heap)
          /\ IF walk.result # "Ok" THEN Fail(walk.result)
             ELSE /\ tables' = walk.tables
                  /\ loop' = next
                  /\ result' = IF next = Finished THEN "Ok" ELSE result
    BY <1>3, <1>4, <2>2 DEF MapIdentity, MapAndGoOn
  <2>4. GoesOn(walk, next)
    <3>1. PICK l : l = loop
      OBVIOUS
    <3> QED  BY <1>1, <2>1, <2>2, <2>3, <3>1, IdentityGoesOn
  <2> QED  BY <2>3, <2>4, WalkIsPageStep
<1>5. CASE MapLinear
  <2>1. loop = At("linear", 0, o)
    <3>1. loop.name = "linear"
      BY <1>5 DEF MapLinear
    <3> QED  BY <1>2, <1>3, <3>1 DEF Underway, Finished, At
  <2>2. PICK next : next = IF o + PageSize < request.size THEN At("identity", 0, o + PageSize)
                           ELSE Following(0)
    OBVIOUS
  <2>3. PICK heap, walk :
          /\ heap \in Heaps
          /\ walk = MapPage(HighRoot, request.virtBase + o, request.physBase + o, heap)
          /\ IF walk.result # "Ok" THEN Fail(walk.result)
             ELSE /\ tables' = walk.tables
                  /\ loop' = next
                  /\ result' = IF next = Finished THEN "Ok" ELSE result
    BY <1>3, <1>5, <2>2 DEF MapLinear, MapAndGoOn
  <2>4. GoesOn(walk, next)
    <3>1. PICK l : l = loop
      OBVIOUS
    <3> QED  BY <1>1, <2>1, <2>2, <2>3, <3>1, LinearGoesOn
  <2> QED  BY <2>3, <2>4, WalkIsPageStep
<1>6. CASE MapAlias
  <2>1. PICK i : i = loop.alias
    OBVIOUS
  <2>2. loop = At("alias", i, o) /\ i \in 1 .. Len(Aliases)
    <3>1. loop.name = "alias"
      BY <1>6 DEF MapAlias
    <3> QED  BY <1>2, <1>3, <2>1, <3>1 DEF Underway, Finished, At
  <2>3. request.aliases = Aliases
    BY <2>2, ChecksPassed
  <2>4. PICK next : next = IF o + PageSize < Aliases[i].bytes
                             THEN At("alias", i, o + PageSize) ELSE Following(i)
    OBVIOUS
  <2>5. PICK heap, walk :
          /\ heap \in Heaps
          /\ walk = MapPage(HighRoot, Aliases[i].virtBase + o, Aliases[i].physBase + o, heap)
          /\ IF walk.result # "Ok" THEN Fail(walk.result)
             ELSE /\ tables' = walk.tables
                  /\ loop' = next
                  /\ result' = IF next = Finished THEN "Ok" ELSE result
    BY <1>3, <1>6, <2>1, <2>3, <2>4 DEF MapAlias, MapAndGoOn
  <2>6. GoesOn(walk, next)
    <3>1. PICK l : l = loop
      OBVIOUS
    <3> QED  BY <1>1, <2>2, <2>4, <2>5, <3>1, AliasGoesOn
  <2> QED  BY <2>5, <2>6, WalkIsPageStep
<1> QED  BY <1>4, <1>5, <1>6

\* The invariant at the start and after every step.
LEMMA StageInvInit == StageInit => StageInv
  BY DEF StageInit, StageInv

LEMMA StageInvStep == StageInv /\ [StageNext]_stageVars => StageInv'
<1> SUFFICES ASSUME StageInv, [StageNext]_stageVars
             PROVE  StageInv'
  OBVIOUS
<1> PICK g, l : g = tables' /\ l = loop'
  OBVIOUS
<1>1. request' = request
  BY DEF StageNext, stageVars, Begin, MapIdentity, MapLinear, MapAlias, MapAndGoOn
<1>2. RequestCheck' = RequestCheck /\ (Building(g, l) => Building(g, l)')
  BY <1>1, RequestStays
<1>3. request' \in Requests
  BY <1>1 DEF StageInv
<1>4. CASE UNCHANGED stageVars
  <2>1. g = tables /\ l = loop /\ result' = result
    BY <1>4 DEF stageVars
  <2>2. Building(g, l)' => Building(tables, loop)'
    OBVIOUS
  <2> QED  BY <1>2, <1>3, <2>1, <2>2 DEF StageInv
<1>5. CASE Begin
  <2>1. tables = <<>> /\ result = None
    <3>1. loop.name = "begin"
      BY <1>5 DEF Begin
    <3>2. ~ Underway(loop) /\ loop # Finished
      BY <3>1 DEF Underway, Finished, At
    <3> QED  BY <3>2 DEF StageInv, Building
  <2>2. request \in Requests
    BY DEF StageInv
  <2>3. \/ /\ tables' = <<>> /\ loop' = Finished /\ result' # "Ok"
           /\ RequestCheck = "Ok" => result' = "Allocation"
        \/ /\ RequestCheck = "Ok" /\ Building(g, At("identity", 0, 0))
           /\ loop' = At("identity", 0, 0) /\ result' = None
    BY <1>5, <2>1, <2>2, BeginIs
  <2>4. CASE /\ tables' = <<>> /\ loop' = Finished /\ result' # "Ok"
             /\ RequestCheck = "Ok" => result' = "Allocation"
    BY <1>2, <1>3, <2>4 DEF StageInv, Finished, At
  <2>5. CASE /\ RequestCheck = "Ok" /\ Building(g, At("identity", 0, 0))
             /\ loop' = At("identity", 0, 0) /\ result' = None
    <3>1. Building(g, l)'
      BY <1>2, <2>5
    <3>2. Building(tables, loop)'
      BY <3>1
    <3>3. loop' # Finished'
      BY <2>5 DEF Finished, At
    <3> QED  BY <1>2, <1>3, <2>5, <3>2, <3>3 DEF StageInv
  <2> QED  BY <2>3, <2>4, <2>5
<1>6. CASE MapIdentity \/ MapLinear \/ MapAlias
  <2>1. RequestCheck = "Ok" /\ Building(tables, loop) /\ result = None
    <3>1. loop.name \in {"identity", "linear", "alias"}
      BY <1>6 DEF MapIdentity, MapLinear, MapAlias
    <3>2. loop # Finished /\ loop # At("begin", 0, 0)
      BY <3>1 DEF Finished, At
    <3> QED  BY <3>2 DEF StageInv
  <2>2. PageStep
    BY <1>6, <2>1, LoopsMapPages DEF StageInv
  <2>3. CASE tables' = <<>> /\ loop' = Finished /\ result' = "Allocation"
    BY <1>2, <1>3, <2>3 DEF StageInv, Finished, At
  <2>4. CASE Building(g, l) /\ result' = (IF loop' = Finished THEN "Ok" ELSE None)
    <3>1. Building(g, l)'
      BY <1>2, <2>4
    <3>2. Building(tables, loop)'
      BY <3>1
    <3> QED  BY <1>2, <1>3, <2>1, <2>4, <3>2 DEF StageInv, Finished, At
  <2> QED  BY <2>2, <2>3, <2>4 DEF PageStep
<1> QED  BY <1>4, <1>5, <1>6 DEF StageNext

THEOREM StageIsInv == StageSpec => []StageInv
  BY StageInvInit, StageInvStep, PTL DEF StageSpec

-----------------------------------------------------------------------------
(* What the tables translate *)

LEMMA TranslateIs ==
  ASSUME NEW va
  PROVE  /\ Translate(va) = IF Leaf(tables, va) = 0 THEN None ELSE AddressOf(Leaf(tables, va))
         /\ Follow(IF va < LowEnd THEN LowRoot ELSE HighRoot, va, 1) = MidTable(tables, va)
<1>1. \A at, level : /\ Entry(at, va, level) = EntryIn(tables, at, Slot(va, level))
                     /\ Follow(at, va, level) = NextIn(tables, at, Slot(va, level))
  BY DEF Entry, EntryIn, Follow, NextIn
<1>2. (IF va < LowEnd THEN LowRoot ELSE HighRoot) = Home(va)
  BY DEF Home
<1>3. Follow(IF va < LowEnd THEN LowRoot ELSE HighRoot, va, 1) = MidTable(tables, va)
  BY <1>1, <1>2 DEF MidTable
<1>4. Entry(Follow(Follow(Home(va), va, 1), va, 2), va, 3) = Leaf(tables, va)
  BY <1>1 DEF Leaf, LeafTable
<1> QED  BY <1>2, <1>3, <1>4 DEF Translate

\* Without tables there is no translation.
LEMMA NothingTranslates ==
  ASSUME tables = <<>>, NEW va
  PROVE  Leaf(tables, va) = 0 /\ MidTable(tables, va) = 0
<1>1. \A t, s : EntryIn(tables, t, s) = 0 /\ NextIn(tables, t, s) = 0
  <2>1. DOMAIN tables = {}
    OBVIOUS
  <2> QED  BY <2>1 DEF EntryIn, NextIn
<1> QED  BY <1>1 DEF Leaf, MidTable

\* The descriptor of a page, in tables that hold some pages.
LEMMA HeldLeaf ==
  ASSUME RamOK, SpansOK, NEW ts, NEW done, Holding(ts, done),
         NEW v \in VirtualPages, Leaf(ts, v) # 0
  PROVE  \E k \in Spans, o \in Nat :
           /\ o < done[k] /\ o < Size(k) /\ v = Virt(k) + o
           /\ Phys(k) + o \in Frames /\ AddressOf(Leaf(ts, v)) = Phys(k) + o
<1> USE Geometry
<1>1. PICK k \in Spans, o \in Nat : o < done[k] /\ v = Virt(k) + o
  BY DEF Holding
<1>2. /\ Virt(k) \in Nat /\ Virt(k) % PageSize = 0 /\ Size(k) \in Nat
      /\ done[k] \in Nat /\ done[k] <= Size(k)
  BY DEF SpansOK, SpanOK, Holding
<1>3. o % PageSize = 0 /\ o < Size(k)
  <2>1. v \in Nat /\ v % PageSize = 0
    BY VirtualPageIs
  <2>2. PICK w : w = Virt(k)
    OBVIOUS
  <2>3. w \in Nat /\ w % PageSize = 0 /\ v = w + o
    BY <1>1, <1>2, <2>2
  <2>4. w <= v
    BY <2>1, <2>3
  <2>5. (v - w) % PageSize = 0
    BY <2>1, <2>3, <2>4, MultiplesAdd
  <2>6. v - w = o
    BY <2>3
  <2> QED  BY <1>1, <1>2, <2>5, <2>6
<1>4. PICK pa \in Frames : pa = Phys(k) + o
  BY <1>3, SpanPages
<1>5. Leaf(ts, v) = pa + PageBits
  BY <1>1, <1>3, <1>4 DEF Holding
<1>6. AddressOf(pa + PageBits) = pa
  <2>1. pa \in Nat /\ pa % PageSize = 0 /\ pa + PageSize <= TableBase
    BY DEF Frames
  <2>2. pa + PageSize <= PaEnd
    <3>1. TableBase \in Nat /\ TableBase <= LowEnd
      BY DEF RamOK, TableBase
    <3> QED  BY <2>1, <3>1
  <2> QED  BY <2>1, <2>2, DescriptorHolds
<1> QED  BY <1>1, <1>3, <1>4, <1>5, <1>6

\* TablesStayApart: the tables lie above RAM and below the end of the physical
\* addresses, and no translation leads to them, after every step.
THEOREM TablesAreApart == StageSpec => []TablesStayApart
<1>1. ASSUME StageInv
      PROVE  TablesStayApart
  <2> USE Geometry
  <2>1. CASE tables = <<>>
    <3>1. ASSUME NEW va \in LowPages \cup HighPages
          PROVE  /\ Follow(IF va < LowEnd THEN LowRoot ELSE HighRoot, va, 1) \in 0 .. Len(tables)
                 /\ Translate(va) = None
      <4>1. Leaf(tables, va) = 0 /\ MidTable(tables, va) = 0 /\ Len(tables) = 0
        BY <2>1, NothingTranslates
      <4> QED  BY <4>1, TranslateIs
    <3> QED  BY <2>1, <3>1 DEF TablesStayApart
  <2>2. CASE tables # <<>>
    <3>1. request \in Requests /\ RequestCheck = "Ok" /\ Building(tables, loop)
      BY <1>1, <2>2 DEF StageInv
    <3>2. RamOK /\ SpansOK
      BY <3>1, AcceptedSpans
    <3>3. PICK level : Tree(tables, level)
      BY <3>1 DEF Building, Holding
    <3>4. PICK done : Holding(tables, done)
      BY <3>1 DEF Building
    <3>5. TableBase + Len(tables) * PageSize <= PaEnd
      BY <3>3 DEF Tree, TablesOK
    <3>6. ASSUME NEW va \in LowPages \cup HighPages
          PROVE  /\ Follow(IF va < LowEnd THEN LowRoot ELSE HighRoot, va, 1) \in 0 .. Len(tables)
                 /\ Translate(va) # None => Translate(va) \in request.physBase .. TableBase - PageSize
      <4>1. va \in VirtualPages /\ va \in Nat
        BY VirtualPageIs DEF VirtualPages
      <4>2. MidTable(tables, va) \in 0 .. Len(tables)
        BY <3>2, <3>3, <4>1, PathIsDown DEF MidTable
      <4>3. CASE Leaf(tables, va) = 0
        BY <4>2, <4>3, TranslateIs
      <4>4. CASE Leaf(tables, va) # 0
        <5>1. PICK pa \in Frames : AddressOf(Leaf(tables, va)) = pa
          BY <3>2, <3>4, <4>1, <4>4, HeldLeaf
        <5>2. Translate(va) = pa
          BY <4>4, <5>1, TranslateIs
        <5>3. request.physBase \in Nat /\ TableBase \in Nat
          BY <3>2 DEF RamOK, TableBase
        <5>4. pa \in request.physBase .. TableBase - PageSize
          BY <5>3 DEF Frames
        <5> QED  BY <4>2, <5>2, <5>4, TranslateIs
      <4> QED  BY <4>3, <4>4
    <3> QED  BY <3>5, <3>6 DEF TablesStayApart
  <2> QED  BY <2>1, <2>2
<1> QED  BY <1>1, StageIsInv, PTL

\* ConstructionHolds: besides, an accepted request is refused for want of memory
\* in the host at most, whatever its RAM and aliases are.
THEOREM ConstructionIsHeld == StageSpec => []ConstructionHolds
<1>1. StageInv => OnlyMemoryRunsOut
  BY DEF StageInv, OnlyMemoryRunsOut
<1>2. TablesStayApart /\ OnlyMemoryRunsOut => ConstructionHolds
  BY DEF ConstructionHolds
<1> QED  BY <1>1, <1>2, StageIsInv, TablesAreApart, PTL

\* What is meant for an address, by the ranges that it is in.
LEMMA MeantIs ==
  ASSUME SpansOK, NEW va \in Nat, DOMAIN Aliases = 1 .. Len(Aliases)
  PROVE  /\ \A k \in Spans : Virt(k) <= va /\ va < Virt(k) + Size(k)
                               => Phys(k) + (va - Virt(k)) \in Meant(va)
         /\ \A p \in Meant(va) : \E k \in Spans :
              Virt(k) <= va /\ va < Virt(k) + Size(k) /\ p = Phys(k) + (va - Virt(k))
<1> DEFINE ram == [virtBase |-> request.physBase, physBase |-> request.physBase,
                   bytes |-> request.size]
           linear == [virtBase |-> request.virtBase, physBase |-> request.physBase,
                      bytes |-> request.size]
           ranges == {ram, linear} \cup {Aliases[i] : i \in DOMAIN Aliases}
           Around(r) == r.virtBase <= va /\ va < r.virtBase + r.bytes
           At0(r) == r.physBase + (va - r.virtBase)
           Is(r, k) == r.virtBase = Virt(k) /\ r.physBase = Phys(k) /\ r.bytes = Size(k)
<1>1. Meant(va) = {At0(r) : r \in {r \in ranges : Around(r)}}
  BY DEF Meant
<1>2. Is(ram, 1) /\ Is(linear, 2)
  BY DEF Virt, Phys, Size
<1>3. Len(Aliases) \in Nat
  BY DEF SpansOK
<1>4. ASSUME NEW i \in 1 .. Len(Aliases)
      PROVE  i + 2 \in Spans /\ Is(Aliases[i], i + 2)
  <2>1. i + 2 - 2 = i /\ i + 2 # 1 /\ i + 2 # 2 /\ ~ (i + 2 <= 2)
    OBVIOUS
  <2>2. i + 2 \in Spans
    BY <1>3 DEF Spans
  <2> QED  BY <2>1, <2>2 DEF Virt, Phys, Size
<1>5. \A k \in Spans : \E r \in ranges : Is(r, k)
  <2> TAKE k \in Spans
  <2>1. CASE k = 1
    <3>1. ram \in ranges
      OBVIOUS
    <3> HIDE DEF ram, linear, ranges, Is
    <3> QED  BY <1>2, <2>1, <3>1
  <2>2. CASE k = 2
    <3>1. linear \in ranges
      OBVIOUS
    <3> HIDE DEF ram, linear, ranges, Is
    <3> QED  BY <1>2, <2>2, <3>1
  <2>3. CASE k # 1 /\ k # 2
    <3>1. PICK i : i = k - 2
      OBVIOUS
    <3>2. i \in 1 .. Len(Aliases) /\ k = i + 2
      BY <1>3, <2>3, <3>1 DEF Spans
    <3>3. Aliases[i] \in ranges
      BY <3>2
    <3> HIDE DEF ranges, Is
    <3> QED  BY <1>4, <3>2, <3>3
  <2> QED  BY <2>1, <2>2, <2>3
<1>6. \A r \in ranges : \E k \in Spans : Is(r, k)
  <2> TAKE r \in ranges
  <2>1. 1 \in Spans /\ 2 \in Spans
    BY <1>3 DEF Spans
  <2>2. r = ram \/ r = linear \/ \E i \in 1 .. Len(Aliases) : r = Aliases[i]
    OBVIOUS
  <2> HIDE DEF ram, linear, Is
  <2> QED  BY <1>2, <1>4, <2>1, <2>2
<1>7. ASSUME NEW k \in Spans, Virt(k) <= va, va < Virt(k) + Size(k)
      PROVE  Phys(k) + (va - Virt(k)) \in Meant(va)
  <2>1. PICK r \in ranges : Is(r, k)
    BY <1>5
  <2> HIDE DEF ranges
  <2>2. Around(r) /\ At0(r) = Phys(k) + (va - Virt(k))
    BY <1>7, <2>1
  <2> HIDE DEF Around, At0
  <2> QED  BY <1>1, <2>2
<1>8. ASSUME NEW p \in Meant(va)
      PROVE  \E k \in Spans :
               Virt(k) <= va /\ va < Virt(k) + Size(k) /\ p = Phys(k) + (va - Virt(k))
  <2> HIDE DEF ranges
  <2>1. PICK r \in ranges : Around(r) /\ p = At0(r)
    <3> HIDE DEF Around, At0
    <3> QED  BY <1>1
  <2>2. PICK k \in Spans : Is(r, k)
    BY <1>6
  <2> QED  BY <2>1, <2>2
<1> QED  BY <1>7, <1>8

\* Finished tables hold every page of every range.
LEMMA FinishedHolds ==
  ASSUME StageInv, Built
  PROVE  /\ RamOK /\ SpansOK /\ DOMAIN Aliases = 1 .. Len(Aliases)
         /\ \E done : Holding(tables, done) /\ \A k \in Spans : done[k] = Size(k)
<1>1. request \in Requests /\ RequestCheck = "Ok" /\ Building(tables, loop) /\ loop = Finished
  BY DEF StageInv, Built, Finished, At
<1>2. RamOK /\ SpansOK /\ DOMAIN Aliases = 1 .. Len(Aliases)
  BY <1>1, AcceptedSpans, RequestType
<1>3. Holding(tables, Reached(loop))
  BY <1>1 DEF Building
<1>4. \A k \in Spans : Reached(loop)[k] = Size(k)
  BY <1>1 DEF Reached, Finished, At
<1> QED  BY <1>2, <1>3, <1>4

\* A page of a range, in finished tables.
LEMMA SpanTranslates ==
  ASSUME RamOK, SpansOK, NEW done, Holding(tables, done), \A k \in Spans : done[k] = Size(k),
         NEW k \in Spans, NEW o \in Nat, o % PageSize = 0, o < Size(k)
  PROVE  Translate(Virt(k) + o) = Phys(k) + o /\ Phys(k) + o \in Nat
<1>1. PICK v \in VirtualPages : v = Virt(k) + o
  BY SpanPages
<1>2. Leaf(tables, v) # 0
  <2>1. Leaf(tables, v) = Phys(k) + o + PageBits
    BY <1>1 DEF Holding
  <2>2. Phys(k) \in Nat
    BY DEF SpansOK, SpanOK
  <2> QED  BY <2>1, <2>2, Geometry
<1>3. PICK j \in Spans, q \in Nat :
        /\ q < done[j] /\ q < Size(j) /\ v = Virt(j) + q
        /\ Phys(j) + q \in Frames /\ AddressOf(Leaf(tables, v)) = Phys(j) + q
  BY <1>2, HeldLeaf
<1>4. j = k /\ q = o
  BY <1>1, <1>3, SpansMeetNowhere
<1>5. Translate(v) = Phys(k) + o
  BY <1>2, <1>3, <1>4, TranslateIs
<1> QED  BY <1>1, <1>3, <1>4, <1>5 DEF Frames

\* TranslatesWhatIsMeant: finished tables translate the pages of RAM at their own
\* addresses, at their linear ones and at their aliases, and no others, and
\* virtual_address() answers with what they translate back.
THEOREM TablesTranslate == StageSpec => []TranslatesWhatIsMeant
<1>1. ASSUME StageInv
      PROVE  TranslatesWhatIsMeant
  <2> USE Geometry
  <2>1. SUFFICES ASSUME Built
                 PROVE  /\ \A va \in LowPages \cup HighPages :
                             Meant(va) = (IF Translate(va) = None THEN {} ELSE {Translate(va)})
                        /\ \A pa \in LowPages :
                             LET answer == VirtualAddress(pa) IN
                             IF pa \in request.physBase .. TableBase - 1
                               THEN answer.result = "Ok" /\ Translate(answer.va) = pa
                               ELSE answer.result = "UnmappedAddress"
    BY DEF TranslatesWhatIsMeant
  <2>2. RamOK /\ SpansOK /\ DOMAIN Aliases = 1 .. Len(Aliases)
    BY <1>1, <2>1, FinishedHolds
  <2>3. PICK done : Holding(tables, done) /\ \A k \in Spans : done[k] = Size(k)
    BY <1>1, <2>1, FinishedHolds
  <2>4. ASSUME NEW va \in LowPages \cup HighPages
        PROVE  Meant(va) = (IF Translate(va) = None THEN {} ELSE {Translate(va)})
    <3>1. va \in VirtualPages /\ va \in Nat /\ va % PageSize = 0
      BY VirtualPageIs DEF VirtualPages
    <3>2. ASSUME NEW k \in Spans, Virt(k) <= va, va < Virt(k) + Size(k)
          PROVE  Translate(va) = Phys(k) + (va - Virt(k)) /\ Translate(va) \in Nat
      <4>1. PICK v, o : v = Virt(k) /\ o = va - v
        OBVIOUS
      <4>2. v \in Nat /\ v % PageSize = 0 /\ Size(k) \in Nat
        BY <2>2, <4>1 DEF SpansOK, SpanOK
      <4>3. o \in Nat /\ o < Size(k) /\ va = v + o
        BY <3>1, <3>2, <4>1, <4>2
      <4>4. o % PageSize = 0
        BY <3>1, <3>2, <4>1, <4>2, MultiplesAdd
      <4>5. Translate(Virt(k) + o) = Phys(k) + o /\ Phys(k) + o \in Nat
        BY <2>2, <2>3, <4>3, <4>4, SpanTranslates
      <4> QED  BY <4>1, <4>3, <4>5
    <3>3. CASE Leaf(tables, va) = 0
      <4>1. Translate(va) = None
        BY <3>3, TranslateIs
      <4>2. Meant(va) = {}
        <5>1. SUFFICES ASSUME NEW p \in Meant(va)
                       PROVE  FALSE
          OBVIOUS
        <5>2. PICK k \in Spans : Virt(k) <= va /\ va < Virt(k) + Size(k)
          BY <2>2, <3>1, MeantIs
        <5>3. Translate(va) \in Nat
          BY <3>2, <5>2
        <5> QED  BY <4>1, <5>3, RequestAssumption
      <4> QED  BY <4>1, <4>2
    <3>4. CASE Leaf(tables, va) # 0
      <4>1. PICK k \in Spans, o \in Nat : o < Size(k) /\ va = Virt(k) + o
        BY <2>2, <2>3, <3>1, <3>4, HeldLeaf
      <4>2. Virt(k) \in Nat /\ Size(k) \in Nat
        BY <2>2 DEF SpansOK, SpanOK
      <4>3. Virt(k) <= va /\ va < Virt(k) + Size(k)
        BY <3>1, <4>1, <4>2
      <4>4. Translate(va) \in Nat /\ Translate(va) \in Meant(va)
        <5>1. Phys(k) + (va - Virt(k)) \in Meant(va)
          BY <2>2, <3>1, <4>3, MeantIs
        <5>2. Translate(va) = Phys(k) + (va - Virt(k)) /\ Translate(va) \in Nat
          BY <3>2, <4>3
        <5> QED  BY <5>1, <5>2
      <4>5. \A p \in Meant(va) : p = Translate(va)
        <5> TAKE p \in Meant(va)
        <5>1. PICK j \in Spans :
                 Virt(j) <= va /\ va < Virt(j) + Size(j) /\ p = Phys(j) + (va - Virt(j))
          BY <2>2, <3>1, MeantIs
        <5> QED  BY <3>2, <5>1
      <4>6. Translate(va) # None
        BY <4>4, RequestAssumption
      <4>7. Meant(va) = {Translate(va)}
        BY <4>4, <4>5
      <4> QED  BY <4>6, <4>7
    <3> QED  BY <3>3, <3>4
  <2>5. ASSUME NEW pa \in LowPages
        PROVE  LET answer == VirtualAddress(pa) IN
               IF pa \in request.physBase .. TableBase - 1
                 THEN answer.result = "Ok" /\ Translate(answer.va) = pa
                 ELSE answer.result = "UnmappedAddress"
    <3>1. pa \in Nat /\ pa % PageSize = 0
      BY LowPageIs
    <3>2. /\ request.physBase \in Nat /\ request.size \in Nat /\ request.physBase % PageSize = 0
          /\ TableBase = request.physBase + request.size
      BY <2>2 DEF RamOK, TableBase
    <3>3. CASE pa \in request.physBase .. TableBase - 1
      <4>1. PICK o : o = pa - request.physBase
        OBVIOUS
      <4>2. o \in Nat /\ o < request.size /\ pa = request.physBase + o /\ ~ (pa < request.physBase)
            /\ ~ (o >= request.size) /\ request.physBase <= pa
        BY <3>1, <3>2, <3>3, <4>1
      <4>3. o % PageSize = 0
        BY <3>1, <3>2, <4>1, <4>2, MultiplesAdd
      <4>4. 2 \in Spans /\ Virt(2) = request.virtBase /\ Phys(2) = request.physBase
            /\ Size(2) = request.size
        BY <2>2 DEF SpansOK, Spans, Virt, Phys, Size
      <4>5. Translate(Virt(2) + o) = Phys(2) + o
        BY <2>2, <2>3, <4>2, <4>3, <4>4, SpanTranslates
      <4>6. ~ (request.virtBase + o > MaxAddress)
        <5>1. SpanOK(2)
          BY <2>2, <4>4 DEF SpansOK
        <5>2. request.virtBase \in Nat /\ request.virtBase + request.size <= MaxAddress
          BY <4>4, <5>1 DEF SpanOK
        <5> QED  BY <3>2, <4>2, <5>2
      <4>7. VirtualAddress(pa) = [result |-> "Ok", va |-> request.virtBase + o]
        BY <4>1, <4>2, <4>6 DEF VirtualAddress
      <4> QED  BY <3>3, <4>2, <4>4, <4>5, <4>7
    <3>4. CASE ~ (pa \in request.physBase .. TableBase - 1)
      <4>1. pa < request.physBase \/ pa - request.physBase >= request.size
        BY <3>1, <3>2, <3>4
      <4>2. VirtualAddress(pa) = [result |-> "UnmappedAddress"]
        BY <4>1 DEF VirtualAddress
      <4> QED  BY <3>4, <4>2
    <3> QED  BY <3>3, <3>4
  <2> QED  BY <2>4, <2>5
<1> QED  BY <1>1, StageIsInv, PTL

-----------------------------------------------------------------------------
(* The construction implements a page map. *)

TranslationOf(ts) ==
  [va \in {v \in VirtualPages : Leaf(ts, v) # 0} |-> AddressOf(Leaf(ts, va))]

LEMMA PageNamesStay ==
  ASSUME request' = request
  PROVE  \A ts : TranslationOf(ts)' = TranslationOf(ts)
<1>1. TableBase' = TableBase
  BY DEF TableBase
<1>2. \A n : TableAt(n)' = TableAt(n)
  BY <1>1 DEF TableAt
<1>3. \A ts, t, s : NextIn(ts, t, s)' = NextIn(ts, t, s)
  BY <1>2 DEF NextIn
<1>4. \A ts, va : Leaf(ts, va)' = Leaf(ts, va)
  BY <1>3 DEF Leaf, LeafTable
<1> QED  BY <1>4 DEF TranslationOf

TranslationAgrees == [va \in Translated |-> Translate(va)] = TranslationOf(tables)

\* The translation that the refinement names is the one of the tables.
LEMMA TranslationIs == StageInv => TranslationAgrees
<1> SUFFICES ASSUME StageInv
             PROVE  TranslationAgrees
  OBVIOUS
<1>1. ASSUME NEW va \in VirtualPages, Leaf(tables, va) # 0
      PROVE  Translate(va) = AddressOf(Leaf(tables, va)) /\ Translate(va) # None
  <2>1. tables # <<>>
    BY <1>1, NothingTranslates
  <2>2. request \in Requests /\ RequestCheck = "Ok" /\ Building(tables, loop)
    BY <2>1 DEF StageInv
  <2>3. RamOK /\ SpansOK
    BY <2>2, AcceptedSpans
  <2>4. PICK done : Holding(tables, done)
    BY <2>2 DEF Building
  <2>5. AddressOf(Leaf(tables, va)) \in Nat
    <3>1. PICK pa \in Frames : AddressOf(Leaf(tables, va)) = pa
      BY <1>1, <2>3, <2>4, HeldLeaf
    <3> QED  BY <3>1 DEF Frames
  <2>6. Translate(va) = AddressOf(Leaf(tables, va))
    BY <1>1, TranslateIs
  <2> QED  BY <2>5, <2>6, RequestAssumption
<1>2. \A va \in VirtualPages : Translate(va) # None <=> Leaf(tables, va) # 0
  BY <1>1, TranslateIs
<1>3. Translated = {v \in VirtualPages : Leaf(tables, v) # 0}
  BY <1>2 DEF Translated, VirtualPages
<1>4. \A va \in Translated : Translate(va) = AddressOf(Leaf(tables, va))
  BY <1>1, <1>3
<1> QED  BY <1>3, <1>4 DEF TranslationOf, TranslationAgrees

Joins(old, va, pa, new) ==
  /\ va \notin DOMAIN old /\ pa \in LowPages
  /\ new = [p \in DOMAIN old \cup {va} |-> IF p = va THEN pa ELSE old[p]]

\* A page that is mapped joins the translation.
LEMMA MappedJoins ==
  ASSUME RamOK, NEW ts, NEW g, NEW va \in VirtualPages, NEW pa \in Frames,
         Mapped(ts, va, pa, g)
  PROVE  Joins(TranslationOf(ts), va, pa, TranslationOf(g))
<1> USE Geometry
<1>1. /\ Leaf(ts, va) = 0 /\ Leaf(g, va) = pa + PageBits
      /\ \A w \in VirtualPages : w # va => Leaf(g, w) = Leaf(ts, w)
  BY DEF Mapped
<1>2. /\ pa \in Nat /\ pa % PageSize = 0 /\ pa + PageSize <= TableBase
      /\ TableBase \in Nat /\ TableBase <= LowEnd
  BY DEF Frames, RamOK, TableBase
<1>3. pa \in LowPages
  <2>1. pa < LowEnd
    BY <1>2
  <2> QED  BY <1>2, <2>1, LowPageIs
<1>4. AddressOf(pa + PageBits) = pa /\ pa + PageBits # 0
  <2>1. pa + PageSize <= PaEnd
    BY <1>2
  <2>2. AddressOf(pa + PageBits) = pa
    BY <1>2, <2>1, DescriptorHolds
  <2> QED  BY <1>2, <2>2
<1> PICK old : old = TranslationOf(ts)
  OBVIOUS
<1>5. DOMAIN old = {v \in VirtualPages : Leaf(ts, v) # 0}
  BY DEF TranslationOf
<1>6. {v \in VirtualPages : Leaf(g, v) # 0} = DOMAIN old \cup {va}
  BY <1>1, <1>4, <1>5
<1>7. \A p \in DOMAIN old \cup {va} :
        AddressOf(Leaf(g, p)) = IF p = va THEN pa ELSE old[p]
  <2> TAKE p \in DOMAIN old \cup {va}
  <2>1. CASE p = va
    BY <1>1, <1>4, <2>1
  <2>2. CASE p # va
    <3>1. p \in VirtualPages /\ Leaf(ts, p) # 0
      BY <1>5, <2>2
    <3>2. old[p] = AddressOf(Leaf(ts, p))
      BY <3>1 DEF TranslationOf
    <3> QED  BY <1>1, <2>2, <3>1, <3>2
  <2> QED  BY <2>1, <2>2
<1>8. TranslationOf(g) = [p \in DOMAIN old \cup {va} |-> IF p = va THEN pa ELSE old[p]]
  BY <1>6, <1>7 DEF TranslationOf
<1> QED  BY <1>1, <1>3, <1>5, <1>8 DEF Joins

\* GrowsPageByPage: each step maps one page and keeps the translations of all
\* others, although it writes up to three tables, or gives up the whole set.
THEOREM TablesImplementPageMap == StageSpec => GrowsPageByPage
<1> DEFINE translation == [va \in Translated |-> Translate(va)]
<1>1. StageInit => translation = Map!NoPages
  <2> SUFFICES ASSUME StageInit
               PROVE  translation = Map!NoPages
    OBVIOUS
  <2>1. StageInv /\ tables = <<>>
    BY StageInvInit DEF StageInit
  <2>2. {v \in VirtualPages : Leaf(tables, v) # 0} = {}
    BY <2>1, NothingTranslates
  <2>3. TranslationOf(tables) = [va \in {} |-> va]
    BY <2>2 DEF TranslationOf
  <2> QED  BY <2>1, <2>3, TranslationIs DEF TranslationAgrees, Map!NoPages
<1>2. StageInv' => translation' = TranslationOf(tables)'
  <2>1. StageInv' => TranslationAgrees'
    BY TranslationIs, PTL
  <2> QED  BY <2>1 DEF TranslationAgrees
<1>3. StageInv /\ StageInv' /\ [StageNext]_stageVars => [Map!MapNext]_translation
  <2> SUFFICES ASSUME StageInv, StageInv', [StageNext]_stageVars
               PROVE  [Map!MapNext]_translation
    OBVIOUS
  <2> PICK g, old, new : g = tables' /\ old = translation /\ new = translation'
    OBVIOUS
  <2>1. request' = request
    BY DEF StageNext, stageVars, Begin, MapIdentity, MapLinear, MapAlias, MapAndGoOn
  <2>2. old = TranslationOf(tables)
    BY TranslationIs DEF TranslationAgrees
  <2>3. new = TranslationOf(g)
    <3>1. \A ts : TranslationOf(ts)' = TranslationOf(ts)
      BY <2>1, PageNamesStay
    <3>2. TranslationOf(tables)' = TranslationOf(g)'
      OBVIOUS
    <3> QED  BY <1>2, <3>1, <3>2
  <2>4. ASSUME tables = <<>> \/ \A v \in Nat : Leaf(tables, v) = 0
        PROVE  old = Map!NoPages
    <3>1. \A v \in VirtualPages : Leaf(tables, v) = 0
      BY <2>4, NothingTranslates, VirtualPageIs
    <3> QED  BY <2>2, <3>1 DEF TranslationOf, Map!NoPages
  <2>5. ASSUME g = <<>> \/ \A v \in Nat : Leaf(g, v) = 0
        PROVE  new = Map!NoPages
    <3>1. \A v \in VirtualPages : Leaf(g, v) = 0
      <4>1. g = <<>> => \A v : Leaf(g, v) = 0
        BY DEF Leaf, LeafTable, EntryIn, NextIn
      <4> QED  BY <2>5, <4>1, VirtualPageIs
    <3> QED  BY <2>3, <3>1 DEF TranslationOf, Map!NoPages
  <2>6. SUFFICES \/ new = old \/ new = Map!NoPages
                 \/ \E va \in VirtualPages, pa \in LowPages :
                      /\ va \notin DOMAIN old
                      /\ new = [p \in DOMAIN old \cup {va} |-> IF p = va THEN pa ELSE old[p]]
    BY DEF Map!MapNext, Map!Discard, Map!Map, VirtualPages
  <2>7. CASE UNCHANGED stageVars
    <3>1. g = tables
      BY <2>7 DEF stageVars
    <3> QED  BY <2>2, <2>3, <3>1
  <2>8. CASE Begin
    <3>1. tables = <<>> /\ result = None /\ request \in Requests
      <4>1. loop.name = "begin"
        BY <2>8 DEF Begin
      <4>2. ~ Underway(loop) /\ loop # Finished
        BY <4>1 DEF Underway, Finished, At
      <4> QED  BY <4>2 DEF StageInv, Building
    <3>2. g = <<>> \/ \A v \in Nat : Leaf(g, v) = 0
      BY <2>8, <3>1, BeginIs
    <3> QED  BY <2>5, <3>2
  <2>9. CASE MapIdentity \/ MapLinear \/ MapAlias
    <3>1. RequestCheck = "Ok" /\ Building(tables, loop) /\ result = None /\ request \in Requests
      <4>1. loop.name \in {"identity", "linear", "alias"}
        BY <2>9 DEF MapIdentity, MapLinear, MapAlias
      <4>2. loop # Finished /\ loop # At("begin", 0, 0)
        BY <4>1 DEF Finished, At
      <4> QED  BY <4>2 DEF StageInv
    <3>2. PageStep
      BY <2>9, <3>1, LoopsMapPages
    <3>3. CASE g = <<>>
      BY <2>5, <3>3
    <3>4. CASE \E va \in VirtualPages, pa \in Frames : Mapped(tables, va, pa, g)
      <4>1. PICK va \in VirtualPages, pa \in Frames : Mapped(tables, va, pa, g)
        BY <3>4
      <4>2. RamOK
        BY <3>1, AcceptedSpans
      <4>3. PICK ts : ts = tables
        OBVIOUS
      <4>4. Joins(old, va, pa, new)
        BY <2>2, <2>3, <4>1, <4>2, <4>3, MappedJoins
      <4> QED  BY <4>4 DEF Joins
    <3> QED  BY <3>2, <3>3, <3>4 DEF PageStep
  <2> QED  BY <2>7, <2>8, <2>9 DEF StageNext
<1> QED  BY <1>1, <1>3, StageIsInv, PTL DEF StageSpec, GrowsPageByPage, Map!MapSpec, Map!MapInit

=============================================================================
