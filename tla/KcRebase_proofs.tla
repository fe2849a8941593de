---------------------------- MODULE KcRebase_proofs ----------------------------
(***************************************************************************)
(* Theorems about the audit of what a collection asks to be rewritten, and *)
(* about rebasing its kernel, for every file, every table in it, every     *)
(* limit and every change of the arena.  What inspection has established,  *)
(* and where an arena has the segments, is KcLayout_proofs'.               *)
(***************************************************************************)
EXTENDS KcRebase, KcLayout_proofs

-----------------------------------------------------------------------------
(* Sequences put together *)

\* What is in a sequence of sequences is in one of them.
IsIn(x, q) == \E n \in DOMAIN q : q[n] = x

LEMMA ConcatenationHolds ==
  ASSUME NEW S, NEW s \in Seq(S), NEW t \in Seq(S)
  PROVE  s \o t \in Seq(S) /\ \A x : IsIn(x, s \o t) <=> IsIn(x, s) \/ IsIn(x, t)
<1>1. /\ s \o t \in Seq(S)
      /\ DOMAIN s = 1 .. Len(s) /\ DOMAIN t = 1 .. Len(t)
      /\ DOMAIN (s \o t) = 1 .. Len(s) + Len(t)
      /\ Len(s) \in Nat /\ Len(t) \in Nat
      /\ \A n \in 1 .. Len(s) + Len(t) :
           (s \o t)[n] = IF n <= Len(s) THEN s[n] ELSE t[n - Len(s)]
  OBVIOUS
<1> PICK u : u = s \o t
  OBVIOUS
<1> PICK m \in Nat : m = Len(s)
  BY <1>1
<1> PICK k \in Nat : k = Len(t)
  BY <1>1
<1>2. /\ DOMAIN s = 1 .. m /\ DOMAIN t = 1 .. k /\ DOMAIN u = 1 .. m + k
      /\ \A n \in 1 .. m + k : u[n] = IF n <= m THEN s[n] ELSE t[n - m]
  BY <1>1
<1>3. \A n \in 1 .. m : n \in DOMAIN u /\ u[n] = s[n]
  BY ONLY <1>2, m \in Nat, k \in Nat
<1>4. \A n \in 1 .. k : m + n \in DOMAIN u /\ u[m + n] = t[n]
  <2> TAKE n \in 1 .. k
  <2>1. m + n \in 1 .. m + k /\ ~ (m + n <= m) /\ (m + n) - m = n
    BY ONLY m \in Nat, k \in Nat, n \in 1 .. k
  <2> QED  BY ONLY <1>2, <2>1
<1>5. \A n \in DOMAIN u : (n \in 1 .. m /\ u[n] = s[n])
                          \/ (n - m \in 1 .. k /\ u[n] = t[n - m])
  BY ONLY <1>2, m \in Nat, k \in Nat
<1>6. \A x : IsIn(x, u) <=> IsIn(x, s) \/ IsIn(x, t)
  BY ONLY <1>2, <1>3, <1>4, <1>5 DEF IsIn
<1> QED  BY <1>1, <1>6

LEMMA FlatteningHolds ==
  ASSUME NEW S, NEW q \in Seq(Seq(S))
  PROVE  /\ FlattenSeq(q) \in Seq(S)
         /\ \A x : IsIn(x, FlattenSeq(q)) <=> \E k \in DOMAIN q : IsIn(x, q[k])
<1> DEFINE Sum(g, n) == IF n = 1 THEN q[n] ELSE g[n - 1] \o q[n]
           Sums(g, m) == g = [n \in 1 .. m |-> Sum(g, n)]
           total == CHOOSE g : Sums(g, Len(q))
<1>1. Len(q) \in Nat /\ DOMAIN q = 1 .. Len(q) /\ \A n \in 1 .. Len(q) : q[n] \in Seq(S)
  OBVIOUS
<1>2. CASE Len(q) = 0
  <2>1. FlattenSeq(q) = q /\ q = <<>>
    BY <1>2 DEF FlattenSeq
  <2>2. q \in Seq(S) /\ DOMAIN q = {}
    BY <2>1
  <2>3. \A x : ~ IsIn(x, q)
    BY <2>2 DEF IsIn
  <2> QED  BY <2>1, <2>2, <2>3
<1>3. CASE Len(q) # 0
  <2> PICK last \in Nat : last = Len(q)
    BY <1>1
  <2>1. \A m \in 1 .. last : \E g : Sums(g, m)
    <3> DEFINE T == {m \in 1 .. last : ~ \E g : Sums(g, m)}
    <3>1. SUFFICES ASSUME T # {}
                   PROVE  FALSE
      <4>1. ASSUME NEW m \in 1 .. last, m \notin T
            PROVE  \E g : Sums(g, m)
        <5> HIDE DEF Sums
        <5> QED  BY <4>1
      <4> HIDE DEF T
      <4>2. CASE T = {}
        BY <4>1, <4>2
      <4> QED  BY <4>2
    <3>2. PICK m \in T : \A k \in T : m <= k
      <4>1. T \subseteq 1 .. last
        OBVIOUS
      <4> HIDE DEF T, Sums
      <4>2. T \subseteq Nat
        BY <4>1
      <4> QED  BY <3>1, <4>2, LeastNatural
    <3>3. m # 1
      <4> DEFINE g == [n \in 1 .. 1 |-> q[n]]
      <4>1. Sums(g, 1)
        OBVIOUS
      <4> QED  BY <4>1
    <3>4. PICK g : Sums(g, m - 1)
      <4>1. m \in 1 .. last
        OBVIOUS
      <4>2. m - 1 \in 1 .. last /\ ~ (m <= m - 1)
        BY ONLY <3>3, <4>1, last \in Nat
      <4>3. m - 1 \notin T
        BY <3>2, <4>2
      <4> HIDE DEF Sums
      <4> QED  BY <4>2, <4>3
    <3> DEFINE h == [n \in 1 .. m |-> IF n = m THEN Sum(g, m) ELSE g[n]]
    <3>5. \A n \in 1 .. m : h[n] = Sum(h, n)
      <4> TAKE n \in 1 .. m
      <4>1. CASE n = m
        <5>1. m - 1 \in 1 .. m /\ m - 1 # m
          BY <3>2, <3>3
        <5>2. h[m - 1] = g[m - 1] /\ h[m] = Sum(g, m)
          BY <3>2, <5>1
        <5> QED  BY <3>3, <4>1, <5>2
      <4>2. CASE n # m /\ n = 1
        <5>1. n \in 1 .. m - 1
          BY <3>2, <4>2
        <5> QED  BY <3>4, <4>2, <5>1
      <4>3. CASE n # m /\ n # 1
        <5>1. n \in 1 .. m - 1 /\ n - 1 \in 1 .. m /\ n - 1 # m
          BY <3>2, <4>3
        <5>2. g[n] = Sum(g, n)
          BY <3>4, <5>1
        <5> QED  BY <4>3, <5>1, <5>2
      <4> QED  BY <4>1, <4>2, <4>3
    <3>6. Sums(h, m)
      <4> HIDE DEF Sum
      <4> QED  BY <3>5
    <3> QED  BY <3>2, <3>6
  <2>2. Sums(total, last)
    <3>1. \E g : Sums(g, last)
      <4>1. last \in 1 .. last
        BY <1>3
      <4> HIDE DEF Sums
      <4> QED  BY <2>1, <4>1
    <3>2. total = CHOOSE g : Sums(g, last)
      OBVIOUS
    <3> HIDE DEF Sums, total
    <3> QED  BY <3>1, <3>2
  <2>3. FlattenSeq(q) = total[last]
    BY <1>3 DEF FlattenSeq
  <2>4. \A n \in 1 .. last : total[n] = Sum(total, n)
    <3> HIDE DEF total
    <3> QED  BY <2>2
  <2> DEFINE Held(n) == /\ total[n] \in Seq(S)
                        /\ \A x : IsIn(x, total[n]) <=> \E k \in 1 .. n : IsIn(x, q[k])
  <2>5. \A n \in 1 .. last : Held(n)
    <3> DEFINE T == {n \in 1 .. last : ~ Held(n)}
    <3>1. SUFFICES ASSUME T # {}
                   PROVE  FALSE
      OBVIOUS
    <3>2. PICK n \in T : \A k \in T : n <= k
      <4>1. T \subseteq 1 .. last
        OBVIOUS
      <4> HIDE DEF T, Held
      <4>2. T \subseteq Nat
        BY <4>1
      <4> QED  BY <3>1, <4>2, LeastNatural
    <3> HIDE DEF total
    <3>3. CASE n = 1
      <4>1. total[1] = q[1] /\ q[1] \in Seq(S)
        BY <1>1, <2>4, <3>2, <3>3
      <4>2. Held(1)
        BY ONLY <4>1
      <4> QED  BY <3>2, <3>3, <4>2
    <3>4. CASE n # 1
      <4> HIDE DEF Held
      <4>0. n \in 1 .. last
        OBVIOUS
      <4>1. n - 1 \in 1 .. last /\ n \in 1 .. last /\ ~ (n <= n - 1)
        BY ONLY <3>4, <4>0, last \in Nat
      <4>2. Held(n - 1)
        BY <3>2, <4>1
      <4> USE DEF Held
      <4>3. total[n] = total[n - 1] \o q[n] /\ q[n] \in Seq(S)
        BY <1>1, <2>4, <3>4, <4>1
      <4>4. /\ total[n] \in Seq(S)
            /\ \A x : IsIn(x, total[n]) <=> IsIn(x, total[n - 1]) \/ IsIn(x, q[n])
        BY <4>2, <4>3, ConcatenationHolds
      <4>5. \A k : k \in 1 .. n <=> k \in 1 .. n - 1 \/ k = n
        BY <4>1
      <4>6. Held(n)
        BY ONLY <4>2, <4>4, <4>5
      <4> QED  BY <3>2, <4>6
    <3> QED  BY <3>3, <3>4
  <2>6. Held(last)
    <3>1. last \in 1 .. last
      BY <1>3
    <3> HIDE DEF Held
    <3> QED  BY <2>5, <3>1
  <2> QED  BY <1>1, <2>3, <2>6
<1> QED  BY <1>2, <1>3

-----------------------------------------------------------------------------
(* What an audit is made of *)

ImageCodes ==
  {"UnsupportedMultiStartConsumer", "UnsupportedPointerFormat", "UnsupportedImports",
   "UnsupportedCompressedSymbols"}

EntryCodes ==
  {"UnsupportedClassicType", "UnsupportedClassicWidth", "UnsupportedPcRelative",
   "UnsupportedExternal", "MissingClassicBase", "WriteAddressOverflow",
   "NegativeSectionDisplacement", "WriteOutsideSection", "WriteOutsideFileMapping"}

WordCodes ==
  {"ChainOutsidePage", "ChainOutsideFileMapping", "MissingCacheBase", "PointerTargetOverflow",
   "PointerTargetOutsideMappings", "UnsupportedAuthentication"}

SweepCodes ==
  {"DuplicateChainVisit", "SameMechanismWriteOverlap", "CrossMechanismWriteOverlap"}

AuditCodes == ImageCodes \cup EntryCodes \cup WordCodes \cup SweepCodes

Tables == {"LocalDynamic", "ExternalDynamic", "Section"}

ClassicBases == {ClassicBase(ImageOf(i)) : i \in Images} \cup Nat

EntrySteps ==
  [step : {"entry"}, image : Images, table : Tables, entry : Relocations,
   base : ClassicBases, size : Nat \cup {None}]

IssueSteps == [step : {"issue"}, image : Images, code : ImageCodes]

\* The table of an image has a chain.
InTable(image, chain) ==
  \E n \in DOMAIN image.fixups.chains.segments : chain = image.fixups.chains.segments[n]

\* A step that follows a chain of a segment of its image, in one of its pages.
ChainsOfTable(i) ==
  {t \in [step : {"chain"}, image : {i}, chain : ChainsOf(ImageOf(i)),
           page : Nat \ {0}, start : Nat] :
     InTable(ImageOf(i), t.chain) /\ t.page \in DOMAIN t.chain.pages}

ChainsFollowed == UNION {ChainsOfTable(i) : i \in Images}

AuditSteps == EntrySteps \cup IssueSteps \cup {Count} \cup ChainsFollowed

ClassicRecords ==
  [mechanism : {"classic"}, image : Images, table : Tables, entry : Relocations,
   address : Nat \cup {None}, file : SUBSET Int, width : {1, 2, 4, 8},
   owner : SUBSET {"execute", "kext"}]

ChainRecords ==
  [mechanism : {"chain"}, image : Images, page : Nat \X Nat,
   address : Nat, file : SUBSET Int, width : {8}, owner : SUBSET {"execute", "kext"}]

AuditRecords == ClassicRecords \cup ChainRecords

AuditIssues == [code : AuditCodes, image : Images, record : Nat \cup {None}]

Audits ==
  [todo : Seq(AuditSteps), at : Nat \ {0}, word : Nat \cup {None},
   records : Seq(AuditRecords), issues : Seq(AuditIssues),
   pages : Nat, starts : Nat, ended : Nat,
   swept : SUBSET Nat, furthest : [Mechanisms -> Nat], lastChain : Nat \cup {None}]

\* A segment of an image puts the bytes from f on where a record says.
BackedBy(image, r, f) ==
  \E s \in Segments(image) :
    /\ s.address <= r.address /\ r.address + r.width <= s.address + s.file.size
    /\ f = s.file.offset + (r.address - s.address)

\* Where a record says a word is, it is, in its image and in the collection, its
\* owners are those of that place, and a chained word is in the page it names.
RecordOK(r) ==
  /\ r.file # {} => r.address \in Nat
  /\ r.mechanism = "chain" => r.file # {}
  /\ \A f \in r.file : BackedBy(Outer, r, f) /\ BackedBy(ImageOf(r.image), r, f)
  /\ r.owner = Owner(r.address, r.width)
  /\ r.mechanism = "chain" => StartsInItsPage(ImageOf(r.image), r)

\* A chain is being followed.
ChainOK ==
  audit.word # None =>
    audit.at \in DOMAIN audit.todo /\ audit.todo[audit.at].step = "chain"

\* What no issue says: every word was found, and every chain followed to its end.
CleanOK ==
  audit.issues = <<>> =>
    /\ \A i \in DOMAIN audit.records : audit.records[i].file # {}
    /\ audit.starts = audit.ended + (IF audit.word = None THEN 0 ELSE 1)

\* The words of a mechanism that the sweep has passed.
Passed(mechanism) == {i \in audit.swept : audit.records[i].mechanism = mechanism}

\* The sweep has passed the words before some place in their order, and knows
\* how far those of a mechanism reach and where the last chained one is.
SweepOK ==
  /\ audit.swept \subseteq Writes(audit.records)
  /\ audit.swept # {} => audit.at > Len(audit.todo)
  /\ \A i \in audit.swept, j \in Unswept : Before(audit.records, i, j)
  /\ \A m \in Mechanisms :
       /\ \A i \in Passed(m) : WriteEnd(audit.records[i]) <= audit.furthest[m]
       /\ audit.furthest[m] # 0 =>
            \E i \in Passed(m) : WriteEnd(audit.records[i]) = audit.furthest[m]
  /\ \A i \in Passed("chain") :
       audit.lastChain # None /\ audit.records[i].address <= audit.lastChain
  /\ audit.lastChain # None =>
       \E i \in Passed("chain") : audit.records[i].address = audit.lastChain

\* A chained word that an earlier chain has visited.
Revisited(i) ==
  /\ audit.records[i].mechanism = "chain"
  /\ \E j \in 1 .. i - 1 :
       audit.records[j].mechanism = "chain"
         /\ audit.records[j].address = audit.records[i].address

\* What the issues say of a word that the sweep has passed, and only of those.
TellsOverlaps(i) ==
  /\ \A m \in Mechanisms :
       Reported(i, OverlapCode(audit.records[i], m)) <=> SharesWith(i, m)
  /\ Reported(i, "DuplicateChainVisit") <=> Revisited(i)

ReportsOK ==
  /\ \A n \in DOMAIN audit.issues :
       audit.issues[n].code \in SweepCodes => audit.issues[n].record \in audit.swept
  /\ \A i \in audit.swept : TellsOverlaps(i)

AuditOK ==
  /\ audit \in Audits
  /\ \A i \in DOMAIN audit.records : RecordOK(audit.records[i])
  /\ ChainOK /\ CleanOK /\ SweepOK /\ ReportsOK

AuditInv ==
  /\ file \in Files
  /\ verdict = "Ok" =>
       audit # None /\ audit.at > Len(audit.todo) /\ Unswept = {}
  /\ audit # None => Accepted /\ AuditOK

-----------------------------------------------------------------------------
(* Issues *)

\* A list of conditions, each with its code.
CodesOK(codes, last) ==
  /\ DOMAIN codes = 1 .. last
  /\ \A n \in 1 .. last : codes[n][2] \in AuditCodes

\* The issues whose conditions hold, all about one record.
Raises(raised, i, record, codes, last) ==
  /\ raised \in Seq(AuditIssues)
  /\ \A x : IsIn(x, raised) <=>
       \E n \in 1 .. last : codes[n][1] /\ x = Issue(i, record, codes[n][2])

LEMMA RaisedTells ==
  ASSUME NEW i \in Images, NEW record \in Nat \cup {None}, NEW codes,
         NEW last \in Nat, CodesOK(codes, last)
  PROVE  Raises(Raised(i, record, codes), i, record, codes, last)
<1>0. DOMAIN codes = 1 .. last /\ \A n \in 1 .. last : codes[n][2] \in AuditCodes
  BY DEF CodesOK
<1> DEFINE Part(n) == IF codes[n][1] THEN <<Issue(i, record, codes[n][2])>> ELSE <<>>
           q == [n \in 1 .. last |-> Part(n)]
<1>1. \A n \in 1 .. last :
        /\ Part(n) \in Seq(AuditIssues)
        /\ \A x : IsIn(x, Part(n)) <=> codes[n][1] /\ x = Issue(i, record, codes[n][2])
  <2> TAKE n \in 1 .. last
  <2> PICK issue : issue = Issue(i, record, codes[n][2])
    OBVIOUS
  <2>1. issue \in AuditIssues
    BY <1>0 DEF Issue, AuditIssues
  <2>2. <<issue>> \in Seq(AuditIssues) /\ DOMAIN <<issue>> = {1} /\ <<issue>>[1] = issue
    BY <2>1
  <2>3. DOMAIN <<>> = {} /\ <<>> \in Seq(AuditIssues)
    OBVIOUS
  <2>4. CASE codes[n][1]
    <3>1. Part(n) = <<issue>>
      BY <2>4
    <3> QED  BY ONLY <2>2, <2>4, <3>1, issue = Issue(i, record, codes[n][2]) DEF IsIn
  <2>5. CASE ~ codes[n][1]
    <3>1. Part(n) = <<>>
      BY <2>5
    <3> QED  BY ONLY <2>3, <2>5, <3>1 DEF IsIn
  <2> QED  BY <2>4, <2>5
<1>2. q \in Seq(Seq(AuditIssues)) /\ DOMAIN q = 1 .. last /\ \A n \in 1 .. last : q[n] = Part(n)
  <2> HIDE DEF Part
  <2> QED  BY <1>1
<1>3. Raised(i, record, codes) = FlattenSeq(q)
  BY <1>0 DEF Raised
<1> HIDE DEF Part, q
<1>4. /\ FlattenSeq(q) \in Seq(AuditIssues)
      /\ \A x : IsIn(x, FlattenSeq(q)) <=> \E n \in DOMAIN q : IsIn(x, q[n])
  BY <1>2, FlatteningHolds
<1>5. \A x : IsIn(x, FlattenSeq(q)) <=>
                \E n \in 1 .. last : codes[n][1] /\ x = Issue(i, record, codes[n][2])
  <2> TAKE x
  <2>1. \A n \in 1 .. last :
          IsIn(x, q[n]) <=> codes[n][1] /\ x = Issue(i, record, codes[n][2])
    BY <1>1, <1>2
  <2> QED  BY ONLY <1>2, <1>4, <2>1
<1> QED  BY <1>3, <1>4, <1>5 DEF Raises

-----------------------------------------------------------------------------
(* What an audit walks *)

LEMMA FilesAreOK ==
  ASSUME file \in Files
  PROVE  FileOK
BY FileAssumption DEF FileOK

\* The tables of an image, with the types of what a file can hold.
TablesOK(image) ==
  LET tables == image.fixups IN
  /\ tables.writable \subseteq Kinds(image, {"segment"})
  /\ tables.local \in Seq(Relocations) /\ tables.external \in Seq(Relocations)
  /\ tables.sections \in Seq([address : Nat, size : Nat, entries : Seq(Relocations)])
  /\ tables.chains # None => tables.chains.segments \in Seq(ChainsOf(image))

LEMMA ImagesHold ==
  ASSUME file \in Files, Accepted, NEW i \in Images
  PROVE  /\ BaseOf(i) \in DOMAIN file.images
         /\ i \in Nat
         /\ TablesOK(ImageOf(i))
         /\ \A k \in Kinds(ImageOf(i), {"segment"}) : SegmentOK(ImageOf(i).commands[k])
         /\ Disjoint(ImageOf(i))
<1>1. FileOK
  BY FilesAreOK
<1>2. BaseOf(i) \in DOMAIN file.images
  BY <1>1, ImagesParsed DEF Images, BaseOf
<1>3. i \in Nat
  <2>1. Members \subseteq Nat
    BY <1>1, ImagesParsed, KindsAreNumbers DEF Members, Outer
  <2> QED  BY <2>1 DEF Images
<1>4. TablesOK(ImageOf(i))
  BY <1>2, FixupsAssumption DEF TablesOK, ImageOf
<1>5. CASE i = 0
  <2>1. ImageOf(i) = Outer
    BY <1>5 DEF ImageOf, BaseOf, Outer
  <2> QED  BY <1>1, <1>2, <1>3, <1>4, <2>1, OuterParsed
<1>6. CASE i # 0
  <2>1. i \in Members /\ ImageOf(i) = MemberImage(i)
    BY <1>6 DEF Images, ImageOf, BaseOf, MemberImage
  <2>2. Disjoint(MemberImage(i))
    <3>1. ImageCheck(Outer.commands[i].offset, FALSE, Used(i)) = "Ok"
      BY <1>1, <2>1, ImagesParsed
    <3> QED  BY <1>1, <3>1, ImageParsed DEF MemberImage
  <2> QED  BY <1>1, <1>2, <1>3, <1>4, <2>1, <2>2, MemberParsed
<1> QED  BY <1>5, <1>6

LEMMA EntriesAreSteps ==
  ASSUME NEW i \in Images, NEW table \in Tables, NEW entries \in Seq(Relocations),
         NEW base \in ClassicBases, NEW size \in Nat \cup {None}
  PROVE  Entries(i, table, entries, base, size) \in Seq(AuditSteps)
<1>1. /\ DOMAIN entries = 1 .. Len(entries) /\ Len(entries) \in Nat
      /\ \A n \in DOMAIN entries : entries[n] \in Relocations
  OBVIOUS
<1> PICK m \in Nat : m = Len(entries)
  BY <1>1
<1> DEFINE Turn(n) == [step |-> "entry", image |-> i, table |-> table, entry |-> entries[n],
                       base |-> base, size |-> size]
<1>2. \A n \in 1 .. m : Turn(n) \in AuditSteps
  BY <1>1 DEF AuditSteps, EntrySteps
<1>3. Entries(i, table, entries, base, size) = [n \in 1 .. m |-> Turn(n)]
  BY <1>1 DEF Entries
<1> HIDE DEF Turn
<1>4. [n \in 1 .. m |-> Turn(n)] \in Seq(AuditSteps)
  BY <1>2
<1> QED  BY <1>3, <1>4

LEMMA IssueIsStep ==
  ASSUME NEW i \in Images, NEW condition, NEW code \in ImageCodes
  PROVE  IssueIf(i, condition, code) \in Seq(AuditSteps)
<1>1. [step |-> "issue", image |-> i, code |-> code] \in AuditSteps
  BY DEF AuditSteps, IssueSteps
<1> QED  BY <1>1 DEF IssueIf

LEMMA PagesAreSteps ==
  ASSUME NEW i \in Images, NEW chain \in ChainsOf(ImageOf(i)), InTable(ImageOf(i), chain),
         NEW p \in DOMAIN chain.pages
  PROVE  PageSteps(i, chain, p) \in Seq(AuditSteps)
<1> DEFINE page == chain.pages[p]
<1>0. Count \in AuditSteps
  BY DEF AuditSteps
<1>1. chain.pages \in Seq(Pages)
  BY DEF ChainsOf
<1>2. p \in Nat \ {0} /\ page \in Pages
  BY <1>1
<1>3. /\ page.starts \in Seq(Nat)
      /\ DOMAIN page.starts = 1 .. Len(page.starts) /\ Len(page.starts) \in Nat
      /\ \A n \in DOMAIN page.starts : page.starts[n] \in Nat
  BY <1>2 DEF Pages
<1> DEFINE Part(n) == (IF page.multi THEN <<Count>> ELSE <<>>) \o <<Chain(i, chain, p, page.starts[n])>>
<1>4. \A n \in DOMAIN page.starts : Part(n) \in Seq(AuditSteps)
  <2> TAKE n \in DOMAIN page.starts
  <2>1. Chain(i, chain, p, page.starts[n]) \in AuditSteps
    <3> PICK t : t = Chain(i, chain, p, page.starts[n])
      OBVIOUS
    <3>1. /\ t \in [step : {"chain"}, image : {i}, chain : ChainsOf(ImageOf(i)),
                    page : Nat \ {0}, start : Nat]
          /\ t.chain = chain /\ t.page = p
      BY <1>2, <1>3 DEF Chain
    <3>2. t \in ChainsOfTable(i)
      BY <3>1 DEF ChainsOfTable
    <3>3. t \in ChainsFollowed
      BY <3>2 DEF ChainsFollowed
    <3> QED  BY <3>3 DEF AuditSteps
  <2> PICK x : x = Chain(i, chain, p, page.starts[n])
    OBVIOUS
  <2>2. <<x>> \in Seq(AuditSteps) /\ <<Count>> \in Seq(AuditSteps) /\ <<>> \in Seq(AuditSteps)
    BY <1>0, <2>1
  <2>3. \A s, t : s \in Seq(AuditSteps) /\ t \in Seq(AuditSteps) => s \o t \in Seq(AuditSteps)
    OBVIOUS
  <2> QED  BY <2>2, <2>3
<1>5. FlattenSeq([n \in DOMAIN page.starts |-> Part(n)]) \in Seq(AuditSteps)
  <2> HIDE DEF Part
  <2> PICK m \in Nat : DOMAIN page.starts = 1 .. m
    BY <1>3
  <2> PICK q : q = [n \in DOMAIN page.starts |-> Part(n)]
    OBVIOUS
  <2>1. q \in Seq(Seq(AuditSteps))
    BY <1>4
  <2> QED  BY <2>1, FlatteningHolds
<1>6. /\ <<Count>> \in Seq(AuditSteps)
      /\ IssueIf(i, page.multi, "UnsupportedMultiStartConsumer") \in Seq(AuditSteps)
  BY <1>0, IssueIsStep DEF ImageCodes
<1> DEFINE flat == FlattenSeq([n \in DOMAIN page.starts |-> Part(n)])
           issue == IssueIf(i, page.multi, "UnsupportedMultiStartConsumer")
<1>7. PageSteps(i, chain, p) = <<Count>> \o issue \o flat
  BY DEF PageSteps
<1> HIDE DEF flat, issue
<1>8. flat \in Seq(AuditSteps) /\ issue \in Seq(AuditSteps)
  BY <1>5, <1>6 DEF flat, issue
<1> QED  BY ONLY <1>6, <1>7, <1>8

LEMMA ChainsAreSteps ==
  ASSUME NEW i \in Images, NEW chain \in ChainsOf(ImageOf(i)), InTable(ImageOf(i), chain)
  PROVE  ChainSteps(i, chain) \in Seq(AuditSteps)
<1>1. CASE chain.format # 11
  BY <1>1, IssueIsStep DEF ChainSteps, ImageCodes
<1>2. CASE chain.format = 11
  <2> PICK q : q = [p \in DOMAIN chain.pages |-> PageSteps(i, chain, p)]
    OBVIOUS
  <2>1. chain.pages \in Seq(Pages)
    BY DEF ChainsOf
  <2> PICK m \in Nat : DOMAIN chain.pages = 1 .. m
    BY <2>1
  <2>2. \A p \in DOMAIN chain.pages : PageSteps(i, chain, p) \in Seq(AuditSteps)
    BY PagesAreSteps
  <2>3. q \in Seq(Seq(AuditSteps))
    BY <2>2
  <2>4. ChainSteps(i, chain) = FlattenSeq(q)
    BY <1>2 DEF ChainSteps
  <2> QED  BY <2>3, <2>4, FlatteningHolds
<1> QED  BY <1>1, <1>2

LEMMA ImagesAreSteps ==
  ASSUME NEW i \in Images, TablesOK(ImageOf(i))
  PROVE  ImageSteps(i) \in Seq(AuditSteps)
<1> PICK f : f = ImageOf(i).fixups
  OBVIOUS
<1>1. /\ f.local \in Seq(Relocations) /\ f.external \in Seq(Relocations)
      /\ f.sections \in Seq([address : Nat, size : Nat, entries : Seq(Relocations)])
      /\ f.chains # None => f.chains.segments \in Seq(ChainsOf(ImageOf(i)))
  BY DEF TablesOK
<1> DEFINE base == ClassicBase(ImageOf(i))
           local == Entries(i, "LocalDynamic", f.local, base, None)
           external == Entries(i, "ExternalDynamic", f.external, base, None)
           Part(n) == Entries(i, "Section", f.sections[n].entries,
                              f.sections[n].address, f.sections[n].size)
           parts == [n \in DOMAIN f.sections |-> Part(n)]
           imports == IssueIf(i, f.chains.imports # 0, "UnsupportedImports")
           symbols == IssueIf(i, f.chains.symbols # 0, "UnsupportedCompressedSymbols")
           followed == [n \in DOMAIN f.chains.segments |-> ChainSteps(i, f.chains.segments[n])]
           chains == IF f.chains = None THEN <<>> ELSE imports \o symbols \o FlattenSeq(followed)
<1>2. local \in Seq(AuditSteps) /\ external \in Seq(AuditSteps)
  <2>1. base \in ClassicBases
    BY DEF ClassicBases
  <2> QED  BY <1>1, <2>1, EntriesAreSteps DEF Tables
<1>3. FlattenSeq(parts) \in Seq(AuditSteps)
  <2>1. \A n \in DOMAIN f.sections : Part(n) \in Seq(AuditSteps)
    <3> TAKE n \in DOMAIN f.sections
    <3>1. /\ f.sections[n].entries \in Seq(Relocations)
          /\ f.sections[n].address \in Nat /\ f.sections[n].size \in Nat
      <4> PICK Sections : Sections = [address : Nat, size : Nat, entries : Seq(Relocations)]
        OBVIOUS
      <4>1. f.sections \in Seq(Sections) /\ n \in DOMAIN f.sections
        BY <1>1
      <4>2. f.sections[n] \in Sections
        BY ONLY <4>1
      <4> QED  BY <4>2
    <3>2. f.sections[n].address \in ClassicBases
      BY <3>1 DEF ClassicBases
    <3> QED  BY <3>1, <3>2, EntriesAreSteps DEF Tables
  <2> PICK m \in Nat : DOMAIN f.sections = 1 .. m
    BY <1>1
  <2> HIDE DEF Part
  <2>2. parts \in Seq(Seq(AuditSteps))
    BY <2>1
  <2> HIDE DEF parts
  <2> QED  BY <2>2, FlatteningHolds
<1>4. chains \in Seq(AuditSteps)
  <2>1. CASE f.chains = None
    BY <2>1
  <2>2. CASE f.chains # None
    <3>1. imports \in Seq(AuditSteps) /\ symbols \in Seq(AuditSteps)
      BY IssueIsStep DEF ImageCodes
    <3>2. FlattenSeq(followed) \in Seq(AuditSteps)
      <4>1. f.chains.segments \in Seq(ChainsOf(ImageOf(i)))
        BY <1>1, <2>2
      <4> PICK m \in Nat : DOMAIN f.chains.segments = 1 .. m
        BY <4>1
      <4>2. \A n \in DOMAIN f.chains.segments :
              ChainSteps(i, f.chains.segments[n]) \in Seq(AuditSteps)
        <5> TAKE n \in DOMAIN f.chains.segments
        <5>1. f.chains.segments[n] \in ChainsOf(ImageOf(i))
          BY <4>1
        <5>2. InTable(ImageOf(i), f.chains.segments[n])
          BY DEF InTable
        <5> QED  BY <5>1, <5>2, ChainsAreSteps
      <4>3. followed \in Seq(Seq(AuditSteps))
        BY <4>2
      <4> HIDE DEF followed
      <4> QED  BY <4>3, FlatteningHolds
    <3> PICK t : t = FlattenSeq(followed)
      OBVIOUS
    <3> HIDE DEF imports, symbols, followed
    <3>3. imports \o symbols \o t \in Seq(AuditSteps)
      BY <3>1, <3>2
    <3> QED  BY <2>2, <3>3
  <2> QED  BY <2>1, <2>2
<1>5. ImageSteps(i) = local \o external \o FlattenSeq(parts) \o chains
  BY DEF ImageSteps
<1> PICK t : t = FlattenSeq(parts)
  OBVIOUS
<1> HIDE DEF local, external, parts, chains
<1> QED  BY <1>2, <1>3, <1>4, <1>5

\* The rows of an audit are those the invariant names.
LEMMA StepsHold ==
  ASSUME file \in Files, Accepted
  PROVE  Steps \in Seq(AuditSteps)
<1>1. Outer.commands \in Seq(Commands)
  <2>1. FileOK /\ 0 \in DOMAIN file.images
    BY FilesAreOK, ImagesParsed
  <2> QED  BY <2>1 DEF FileOK, Outer
<1> PICK m \in Nat : m = Len(Outer.commands)
  BY <1>1
<1> DEFINE Part(n) == IF n - 1 \in Images THEN ImageSteps(n - 1) ELSE <<>>
           q == [n \in 1 .. m + 1 |-> Part(n)]
<1>2. \A n \in 1 .. m + 1 : Part(n) \in Seq(AuditSteps)
  <2> TAKE n \in 1 .. m + 1
  <2>1. CASE n - 1 \in Images
    <3>1. TablesOK(ImageOf(n - 1))
      BY <2>1, ImagesHold
    <3>2. ImageSteps(n - 1) \in Seq(AuditSteps)
      BY <2>1, <3>1, ImagesAreSteps
    <3> QED  BY <2>1, <3>2
  <2>2. CASE n - 1 \notin Images
    BY <2>2
  <2> QED  BY <2>1, <2>2
<1>3. q \in Seq(Seq(AuditSteps))
  <2> HIDE DEF Part
  <2>1. m + 1 \in Nat
    OBVIOUS
  <2> QED  BY <1>2, <2>1
<1>4. Steps = FlattenSeq(q)
  BY DEF Steps
<1> HIDE DEF q
<1> QED  BY <1>3, <1>4, FlatteningHolds

LEMMA TypesFixed ==
  ASSUME file' = file
  PROVE  /\ Outer' = Outer /\ Images' = Images
         /\ \A i : ImageOf(i)' = ImageOf(i)
         /\ \A address, width : Owner(address, width)' = Owner(address, width)
         /\ Audits' = Audits
<1>1. Outer' = Outer
  BY DEF Outer
<1>2. Members' = Members
  BY FileFixed
<1>3. Images' = Images
  BY <1>2 DEF Images
<1>4. \A i : BaseOf(i)' = BaseOf(i)
  BY <1>1 DEF BaseOf
<1>5. \A i : ImageOf(i)' = ImageOf(i)
  BY <1>4 DEF ImageOf
<1>6. ClassicBases' = ClassicBases
  BY <1>3, <1>5, Zenon DEF ClassicBases
<1>7. EntrySteps' = EntrySteps /\ IssueSteps' = IssueSteps
  BY <1>3, <1>6 DEF EntrySteps, IssueSteps
<1>8. ChainsFollowed' = ChainsFollowed
  <2>1. \A i : ChainsOfTable(i)' = ChainsOfTable(i)
    BY <1>5, Zenon DEF ChainsOfTable
  <2> QED  BY <1>3, <2>1, Zenon DEF ChainsFollowed
<1>9. AuditSteps' = AuditSteps
  BY <1>7, <1>8 DEF AuditSteps
<1>10. AuditRecords' = AuditRecords
  BY <1>3 DEF AuditRecords, ClassicRecords, ChainRecords
<1>11. AuditIssues' = AuditIssues
  BY <1>3 DEF AuditIssues
<1>12. Audits' = Audits
  BY <1>9, <1>10, <1>11 DEF Audits
<1>13. \A type : MembersOfType(type)' = MembersOfType(type)
  BY DEF MembersOfType, Members, MemberImage, Outer, Kinds
<1>14. \A type, write : Touches(type, write)' = Touches(type, write)
  <2>1. \A k : MemberImage(k)' = MemberImage(k)
    BY FileFixed
  <2> QED  BY <1>13, <2>1 DEF Touches
<1>15. \A address, width : Owner(address, width)' = Owner(address, width)
  BY <1>14, Zenon DEF Owner
<1> QED  BY <1>1, <1>3, <1>5, <1>12, <1>15

\* While the walk goes on, no word has been compared with another.
LEMMA NothingPassed ==
  ASSUME audit \in Audits, SweepOK, audit.at <= Len(audit.todo)
  PROVE  /\ audit.swept = {} /\ audit.lastChain = None
         /\ \A m \in Mechanisms : audit.furthest[m] = 0 /\ Passed(m) = {}
<1>1. Len(audit.todo) \in Nat /\ audit.at \in Nat
  BY DEF Audits
<1>2. audit.swept = {}
  BY <1>1 DEF SweepOK
<1>3. \A m : Passed(m) = {}
  BY <1>2 DEF Passed
<1> QED  BY <1>2, <1>3 DEF SweepOK, Mechanisms

\* What the turns of the walk leave alone.
SameAudit(s, t) ==
  /\ s.todo = t.todo
  /\ s.swept = t.swept /\ s.furthest = t.furthest /\ s.lastChain = t.lastChain

\* A turn of the walk that adds records and issues of the kinds it may add.
LEMMA WalkKeeps ==
  ASSUME AuditInv, audit # None, audit.at <= Len(audit.todo),
         verdict = None, verdict' = None, file' = file,
         NEW next \in Audits, audit' = next,
         SameAudit(next, audit),
         NEW added \in Seq(AuditRecords), NEW raised \in Seq(AuditIssues),
         next.records = audit.records \o added, next.issues = audit.issues \o raised,
         \A n \in DOMAIN added : RecordOK(added[n]),
         \A n \in DOMAIN raised : raised[n].code \notin SweepCodes,
         ChainOK', CleanOK'
  PROVE  AuditInv'
<1>0. audit \in Audits /\ AuditOK /\ Accepted /\ file \in Files
  BY DEF AuditInv, AuditOK
<1>1. /\ audit.swept = {} /\ audit.lastChain = None
      /\ \A m \in Mechanisms : audit.furthest[m] = 0
  BY <1>0, NothingPassed DEF AuditOK
<1>2. audit' \in Audits'
  BY TypesFixed
<1> USE DEF SameAudit
<1>3. \A n \in DOMAIN next.records : RecordOK(next.records[n])
  <2>1. audit.records \in Seq(AuditRecords)
    BY <1>0 DEF Audits
  <2>2. \A n \in DOMAIN next.records :
          IsIn(next.records[n], audit.records) \/ IsIn(next.records[n], added)
    <3> TAKE n \in DOMAIN next.records
    <3>1. IsIn(next.records[n], next.records)
      BY DEF IsIn
    <3>2. \A x : IsIn(x, audit.records \o added) <=> IsIn(x, audit.records) \/ IsIn(x, added)
      BY <2>1, ConcatenationHolds
    <3> QED  BY <3>1, <3>2
  <2>3. \A n \in DOMAIN audit.records : RecordOK(audit.records[n])
    BY <1>0 DEF AuditOK
  <2> QED  BY <2>2, <2>3 DEF IsIn
<1>4. (\A n \in DOMAIN audit.records : RecordOK(audit.records[n]))'
  <2>1. /\ Outer' = Outer /\ \A i : ImageOf(i)' = ImageOf(i)
        /\ \A address, width : Owner(address, width)' = Owner(address, width)
    BY TypesFixed
  <2> QED  BY <1>3, <2>1 DEF RecordOK
<1>5. SweepOK'
  <2>1. \A m : Passed(m)' = {}
    BY <1>1 DEF Passed
  <2>2. audit'.swept = {} /\ audit'.lastChain = None
    BY <1>1
  <2>3. \A m \in Mechanisms : audit'.furthest[m] = 0
    BY <1>1
  <2> QED  BY <2>1, <2>2, <2>3 DEF SweepOK
<1>6. ReportsOK'
  <2>1. audit.issues \in Seq(AuditIssues)
    BY <1>0 DEF Audits
  <2>2. \A n \in DOMAIN next.issues : next.issues[n].code \notin SweepCodes
    <3> TAKE n \in DOMAIN next.issues
    <3>1. IsIn(next.issues[n], next.issues)
      BY DEF IsIn
    <3>2. \A x : IsIn(x, audit.issues \o raised) <=> IsIn(x, audit.issues) \/ IsIn(x, raised)
      BY <2>1, ConcatenationHolds
    <3>3. \A k \in DOMAIN audit.issues : audit.issues[k].code \notin SweepCodes
      BY <1>0, <1>1 DEF AuditOK, ReportsOK
    <3> QED  BY <3>1, <3>2, <3>3 DEF IsIn
  <2> QED  BY <1>1, <2>2 DEF ReportsOK
<1>7. Accepted' /\ file' \in Files
  BY <1>0, FileFixed
<1>8. verdict' # "Ok"
  BY OptionAssumption
<1> QED  BY <1>2, <1>4, <1>5, <1>6, <1>7, <1>8 DEF AuditInv, AuditOK

LEMMA LocationTells ==
  ASSUME NEW image, \A k \in Kinds(image, {"segment"}) : SegmentOK(image.commands[k]),
         NEW r, r.address \in Nat, NEW f \in Location(image, r.address, r.width)
  PROVE  BackedBy(image, r, f) /\ f \in Nat
<1>1. PICK s \in Holders(image, r.address, r.width) :
        /\ r.address + r.width <= s.address + s.file.size
        /\ f = s.file.offset + (r.address - s.address)
  BY DEF Location
<1>2. s \in Segments(image) /\ s.address <= r.address
  BY DEF Holders, Mappings
<1>3. SegmentOK(s)
  BY <1>2 DEF Segments
<1>4. s.address \in Nat /\ s.file.offset \in Nat
  BY <1>3 DEF SegmentOK
<1>5. f \in Nat
  BY ONLY <1>1, <1>2, <1>4, r.address \in Nat
<1> QED  BY <1>1, <1>2, <1>5 DEF BackedBy

LEMMA OwnerType ==
  ASSUME NEW address, NEW width
  PROVE  Owner(address, width) \in SUBSET {"execute", "kext"}
BY DEF Owner

\* What push_bounded() leaves of a state when it does not give the audit up.
Logged(next, added, raised) == [next EXCEPT !.records = @ \o added, !.issues = @ \o raised]

LEMMA LogTells ==
  ASSUME NEW added, NEW raised, NEW next, verdict = None, Log(added, raised, next)
  PROVE  \/ audit' = audit /\ verdict' = "LimitExceeded"
         \/ audit' = Logged(next, added, raised) /\ verdict' = None
BY DEF Log, Logged, Return

\* An audit that was given up, or has ended, is as it was.
LEMMA GivingUpKeeps ==
  ASSUME AuditInv, audit' = audit, file' = file,
         verdict' = "Ok" => audit # None /\ audit.at > Len(audit.todo) /\ Unswept = {}
  PROVE  AuditInv'
<1>1. Outer' = Outer /\ Images' = Images /\ Audits' = Audits
      /\ \A i : ImageOf(i)' = ImageOf(i)
      /\ \A address, width : Owner(address, width)' = Owner(address, width)
  BY TypesFixed
<1>2. file' \in Files /\ Accepted' = Accepted
  BY FileFixed DEF AuditInv
<1>11. Unswept' = Unswept
  BY DEF Unswept, Writes
<1>3. SUFFICES ASSUME audit' # None
               PROVE  AuditOK'
  BY <1>2, <1>3, <1>11 DEF AuditInv
<1>4. AuditOK
  BY <1>3 DEF AuditInv
<1>5. audit' \in Audits'
  BY <1>1, <1>4 DEF AuditOK
<1>6. (\A i \in DOMAIN audit.records : RecordOK(audit.records[i]))'
  BY <1>1, <1>4 DEF AuditOK, RecordOK
<1>7. ChainOK' /\ CleanOK'
  BY <1>4 DEF AuditOK, ChainOK, CleanOK
<1>8. \A m : Passed(m)' = Passed(m)
  BY DEF Passed
<1>9. SweepOK'
  BY <1>4, <1>8 DEF AuditOK, SweepOK, Unswept, Writes, Before
<1>10. ReportsOK'
  <2>1. \A i : TellsOverlaps(i)' = TellsOverlaps(i)
    BY DEF TellsOverlaps, Reported, SharesWith, Revisited, Writes, Before
  <2> QED  BY <1>4, <2>1 DEF AuditOK, ReportsOK
<1> QED  BY <1>5, <1>6, <1>7, <1>9, <1>10 DEF AuditOK

LEMMA StepHolds ==
  ASSUME AuditInv, NEW name, AtStep(name)
  PROVE  /\ audit # None /\ verdict = None /\ AuditOK /\ Accepted /\ file \in Files
         /\ audit \in Audits
         /\ audit.at \in 1 .. Len(audit.todo) /\ audit.at <= Len(audit.todo)
         /\ Step \in AuditSteps /\ Step.step = name
         /\ audit.word # None => name = "chain"
<1>1. /\ audit # None /\ verdict = None /\ AuditOK /\ Accepted /\ file \in Files
      /\ audit \in Audits /\ audit.at <= Len(audit.todo) /\ Step.step = name
  BY DEF AtStep, Running, AuditInv, AuditOK
<1>2. audit.todo \in Seq(AuditSteps) /\ audit.at \in Nat \ {0}
  BY <1>1 DEF Audits
<1>3. audit.at \in 1 .. Len(audit.todo) /\ audit.todo[audit.at] \in AuditSteps
  BY <1>1, <1>2
<1>4. audit.word # None => name = "chain"
  BY <1>1 DEF AuditOK, ChainOK, Step
<1> QED  BY <1>1, <1>3, <1>4 DEF Step

LEMMA OnwardsHolds ==
  ASSUME audit \in Audits
  PROVE  /\ Onwards \in Audits /\ SameAudit(Onwards, audit)
         /\ Onwards.at = audit.at + 1 /\ Onwards.word = audit.word
         /\ Onwards.records = audit.records /\ Onwards.issues = audit.issues
         /\ Onwards.pages = audit.pages
         /\ Onwards.starts = audit.starts /\ Onwards.ended = audit.ended
<1>1. audit.at + 1 \in Nat \ {0}
  BY DEF Audits
<1>2. Onwards = [audit EXCEPT !.at = audit.at + 1]
  BY DEF Onwards
<1> QED  BY ONLY audit \in Audits, <1>1, <1>2 DEF Audits, SameAudit

\* An audit that logged something is otherwise as it was.
Extends(next, state, added, raised) ==
  /\ next \in Audits /\ SameAudit(next, state)
  /\ next.at = state.at /\ next.word = state.word
  /\ next.records = state.records \o added /\ next.issues = state.issues \o raised
  /\ next.starts = state.starts /\ next.ended = state.ended

LEMMA LoggedHolds ==
  ASSUME NEW state \in Audits,
         NEW added \in Seq(AuditRecords), NEW raised \in Seq(AuditIssues)
  PROVE  Extends(Logged(state, added, raised), state, added, raised)
<1> PICK next : next = Logged(state, added, raised)
  OBVIOUS
<1>1. /\ state.records \o added \in Seq(AuditRecords)
      /\ state.issues \o raised \in Seq(AuditIssues)
  BY DEF Audits
<1> PICK records \in Seq(AuditRecords) : records = state.records \o added
  BY <1>1
<1> PICK issues \in Seq(AuditIssues) : issues = state.issues \o raised
  BY <1>1
<1>2. next = [state EXCEPT !.records = records, !.issues = issues]
  BY DEF Logged, Audits
<1>3. /\ next \in Audits /\ SameAudit(next, state)
      /\ next.at = state.at /\ next.word = state.word
      /\ next.records = records /\ next.issues = issues
      /\ next.starts = state.starts /\ next.ended = state.ended
  BY ONLY state \in Audits, <1>2, records \in Seq(AuditRecords), issues \in Seq(AuditIssues)
     DEF Audits, SameAudit
<1> QED  BY <1>3 DEF Extends

\* A chain is not left while it is followed, and is complete once it is left.
LEMMA CleanStays ==
  ASSUME AuditInv, audit # None, NEW next, audit' = next,
         NEW added \in Seq(AuditRecords), NEW raised \in Seq(AuditIssues),
         next.records = audit.records \o added, next.issues = audit.issues \o raised,
         raised = <<>> => \A n \in DOMAIN added : added[n].file # {},
         raised = <<>> /\ audit.starts = audit.ended + (IF audit.word = None THEN 0 ELSE 1) =>
           next.starts = next.ended + (IF next.word = None THEN 0 ELSE 1)
  PROVE  CleanOK'
<1>1. SUFFICES ASSUME next.issues = <<>>
               PROVE  /\ \A i \in DOMAIN next.records : next.records[i].file # {}
                      /\ next.starts = next.ended + (IF next.word = None THEN 0 ELSE 1)
  BY DEF CleanOK
<1>2. AuditOK /\ audit.issues \in Seq(AuditIssues) /\ audit.records \in Seq(AuditRecords)
  BY DEF AuditInv, AuditOK, Audits
<1>3. audit.issues = <<>> /\ raised = <<>>
  <2>1. \A x : ~ IsIn(x, audit.issues \o raised)
    BY <1>1 DEF IsIn
  <2>2. \A x : ~ IsIn(x, audit.issues) /\ ~ IsIn(x, raised)
    BY <1>2, <2>1, ConcatenationHolds
  <2>3. DOMAIN audit.issues = {} /\ DOMAIN raised = {}
    BY <2>2 DEF IsIn
  <2> QED  BY <1>2, <2>3
<1>4. /\ \A i \in DOMAIN audit.records : audit.records[i].file # {}
      /\ audit.starts = audit.ended + (IF audit.word = None THEN 0 ELSE 1)
  BY <1>2, <1>3 DEF AuditOK, CleanOK
<1>5. \A i \in DOMAIN next.records : next.records[i].file # {}
  <2> TAKE i \in DOMAIN next.records
  <2>1. IsIn(next.records[i], next.records)
    BY DEF IsIn
  <2>2. \A x : IsIn(x, audit.records \o added) <=> IsIn(x, audit.records) \/ IsIn(x, added)
    BY <1>2, ConcatenationHolds
  <2>3. IsIn(next.records[i], audit.records) \/ IsIn(next.records[i], added)
    BY <2>1, <2>2
  <2> QED  BY <1>3, <1>4, <2>3 DEF IsIn
<1> QED  BY <1>3, <1>4, <1>5

\* A turn of the walk that logs something and goes on from a state of the walk.
LEMMA LogKeeps ==
  ASSUME AuditInv, audit # None, verdict = None, audit.at <= Len(audit.todo), file' = file,
         NEW added \in Seq(AuditRecords), NEW raised \in Seq(AuditIssues),
         NEW state \in Audits, SameAudit(state, audit),
         state.records = audit.records, state.issues = audit.issues,
         Log(added, raised, state),
         \A n \in DOMAIN added : RecordOK(added[n]),
         \A n \in DOMAIN raised : raised[n].code \notin SweepCodes,
         raised = <<>> => \A n \in DOMAIN added : added[n].file # {},
         state.word # None =>
           state.at \in DOMAIN audit.todo /\ audit.todo[state.at].step = "chain",
         raised = <<>> /\ audit.starts = audit.ended + (IF audit.word = None THEN 0 ELSE 1) =>
           state.starts = state.ended + (IF state.word = None THEN 0 ELSE 1)
  PROVE  AuditInv'
<1>1. CASE audit' = audit /\ verdict' = "LimitExceeded"
  BY <1>1, GivingUpKeeps
<1>2. CASE audit' = Logged(state, added, raised) /\ verdict' = None
  <2> PICK next : next = audit'
    OBVIOUS
  <2>1. Extends(next, state, added, raised)
    BY <1>2, LoggedHolds
  <2>2. /\ next \in Audits /\ SameAudit(next, audit)
        /\ next.at = state.at /\ next.word = state.word
        /\ next.records = audit.records \o added /\ next.issues = audit.issues \o raised
        /\ next.starts = state.starts /\ next.ended = state.ended
    BY <2>1 DEF Extends, SameAudit
  <2>3. ChainOK'
    BY <2>2 DEF ChainOK, SameAudit
  <2>4. CleanOK'
    <3>1. /\ next.records = audit.records \o added /\ next.issues = audit.issues \o raised
          /\ raised = <<>> => \A n \in DOMAIN added : added[n].file # {}
          /\ raised = <<>> /\ audit.starts = audit.ended + (IF audit.word = None THEN 0 ELSE 1) =>
               next.starts = next.ended + (IF next.word = None THEN 0 ELSE 1)
      BY <2>2
    <3>2. audit' = next
      OBVIOUS
    <3> QED  BY ONLY <3>1, <3>2, CleanStays, AuditInv, audit # None,
                added \in Seq(AuditRecords), raised \in Seq(AuditIssues)
  <2> QED  BY <1>2, <2>2, <2>3, <2>4, WalkKeeps
<1> QED  BY <1>1, <1>2, LogTells

LEMMA EntryKeeps ==
  ASSUME AuditInv, AuditEntry
  PROVE  AuditInv'
<1>0. AtStep("entry") /\ UNCHANGED <<collectionVars, limits>>
  BY DEF AuditEntry
<1>1. /\ audit # None /\ verdict = None /\ AuditOK /\ Accepted /\ file \in Files
      /\ audit \in Audits
      /\ audit.at <= Len(audit.todo)
      /\ Step \in AuditSteps /\ Step.step = "entry"
      /\ audit.word = None
  BY <1>0, StepHolds
<1>2. Step \in EntrySteps
  BY <1>1 DEF AuditSteps, IssueSteps, Count, ChainsFollowed, ChainsOfTable
<1> DEFINE e == Step.entry
           i == Step.image
           width == Width(e.length)
           address == AddressOf(Step.base, e.displacement)
           found == BackedAt(ImageOf(i), address, width)
           r == [mechanism |-> "classic", image |-> i, table |-> Step.table,
                 entry |-> e, address |-> address, file |-> found, width |-> width,
                 owner |-> Owner(address, width)]
           codes == <<
               <<e.type # 0,                          "UnsupportedClassicType">>,
               <<e.length < 2,                        "UnsupportedClassicWidth">>,
               <<e.pc,                                "UnsupportedPcRelative">>,
               <<e.external \/ Step.table = "ExternalDynamic", "UnsupportedExternal">>,
               <<Step.base = None,                    "MissingClassicBase">>,
               <<Step.base # None /\ address = None,  "WriteAddressOverflow">>,
               <<Step.table = "Section" /\ e.displacement < 0, "NegativeSectionDisplacement">>,
               <<Step.size # None /\ (e.displacement < 0 \/ e.displacement + width > Step.size),
                                                      "WriteOutsideSection">>,
               <<found = {},                          "WriteOutsideFileMapping">> >>
           raised == Raised(i, NextRecord, codes)
<1>3. Log(<<r>>, raised, Onwards)
  BY DEF AuditEntry
<1>4. i \in Images /\ e \in Relocations /\ Step.table \in Tables
  BY <1>2 DEF EntrySteps
<1>5. address \in Nat \cup {None} /\ width \in {1, 2, 4, 8}
  <2>1. e.length \in 0 .. 3
    BY <1>4 DEF Relocations
  <2>2. width \in {1, 2, 4, 8}
    BY <2>1 DEF Width
  <2>3. MaxAddress \in Nat
    BY CollectionAssumption
  <2>4. address \in 0 .. MaxAddress \/ address = None
    BY DEF AddressOf
  <2> QED  BY <2>2, <2>3, <2>4
<1>6. \A f \in found : /\ address # None
                       /\ f \in Location(ImageOf(i), address, width)
                       /\ f \in Location(Outer, address, width)
  BY DEF BackedAt
<1>7. /\ \A f \in found : f \in Nat
      /\ \A x : x.address = address /\ x.width = width /\ x.image = i /\ x.file = found =>
           \A f \in x.file : BackedBy(Outer, x, f) /\ BackedBy(ImageOf(x.image), x, f)
  <2>1. \A k \in Kinds(ImageOf(i), {"segment"}) : SegmentOK(ImageOf(i).commands[k])
    BY <1>1, <1>4, ImagesHold
  <2>2. \A k \in Kinds(Outer, {"segment"}) : SegmentOK(Outer.commands[k])
    BY <1>1, FilesAreOK, OuterParsed
  <2>3. SUFFICES ASSUME NEW x, x.address = address, x.width = width, NEW f \in found
                 PROVE  f \in Nat /\ BackedBy(Outer, x, f) /\ BackedBy(ImageOf(i), x, f)
    <3>1. PICK x : x = [address |-> address, width |-> width]
      OBVIOUS
    <3>2. x.address = address /\ x.width = width
      BY <3>1
    <3> HIDE DEF i, address, width, found
    <3> QED  BY <2>3, <3>2
  <2>4. address \in Nat
    BY <1>5, <1>6
  <2> HIDE DEF i, address, width, found
  <2>5. x.address \in Nat /\ f \in Location(ImageOf(i), x.address, x.width)
        /\ f \in Location(Outer, x.address, x.width)
    BY <1>6, <2>3, <2>4
  <2> QED  BY <2>1, <2>2, <2>5, LocationTells
<1>8. r \in AuditRecords
  <2>1. Owner(address, width) \in SUBSET {"execute", "kext"}
    BY OwnerType
  <2>2. found \in SUBSET Int
    BY <1>7
  <2> HIDE DEF i, address, width, found
  <2>3. r \in ClassicRecords
    BY <1>4, <1>5, <2>1, <2>2 DEF ClassicRecords
  <2> QED  BY <2>3 DEF AuditRecords
<1>9. RecordOK(r)
  <2>1. found # {} => address \in Nat
    BY <1>5, <1>6
  <2> HIDE DEF i, address, width, found
  <2>2. /\ r.address = address /\ r.width = width /\ r.image = i /\ r.file = found
        /\ r.mechanism = "classic" /\ r.owner = Owner(address, width)
    OBVIOUS
  <2> HIDE DEF r
  <2> QED  BY <1>7, <2>1, <2>2 DEF RecordOK
<1>10. /\ raised \in Seq(AuditIssues)
       /\ \A n \in DOMAIN raised : raised[n].code \notin SweepCodes
       /\ raised = <<>> => found # {}
  <2> HIDE DEF i, e, address, width, found
  <2>1. DOMAIN codes = 1 .. 9
    OBVIOUS
  <2>2. \A n \in 1 .. 9 : codes[n][2] \in EntryCodes
    BY DEF EntryCodes
  <2>3. codes[9][1] <=> found = {}
    OBVIOUS
  <2>4. NextRecord \in Nat \cup {None} /\ 9 \in Nat
    BY <1>1 DEF NextRecord, Audits
  <2> HIDE DEF codes, raised
  <2>5. /\ raised \in Seq(AuditIssues)
        /\ \A x : IsIn(x, raised) <=>
             \E n \in 1 .. 9 : codes[n][1] /\ x = Issue(i, NextRecord, codes[n][2])
    <3>1. \A n \in 1 .. 9 : codes[n][2] \in AuditCodes
      BY <2>2 DEF AuditCodes
    <3>2. raised = Raised(i, NextRecord, codes)
      BY DEF raised
    <3> PICK record \in Nat \cup {None} : record = NextRecord
      BY <2>4
    <3> PICK last \in Nat : last = 9
      BY <2>4
    <3>3. CodesOK(codes, last)
      BY <2>1, <3>1 DEF CodesOK
    <3>4. i \in Images
      BY <1>4
    <3>5. Raises(Raised(i, record, codes), i, record, codes, last)
      BY ONLY <3>3, <3>4, RaisedTells, record \in Nat \cup {None}, last \in Nat
    <3> QED  BY <3>2, <3>5 DEF Raises
  <2>6. \A n \in DOMAIN raised : raised[n].code \notin SweepCodes
    <3>1. \A n \in 1 .. 9 : codes[n][2] \notin SweepCodes
      BY <2>2 DEF EntryCodes, SweepCodes
    <3> QED  BY ONLY <2>5, <3>1 DEF IsIn, Issue
  <2>7. raised = <<>> => ~ codes[9][1]
    BY <2>5 DEF IsIn
  <2> QED  BY <2>3, <2>5, <2>6, <2>7
<1> HIDE DEF r, raised, i, e, address, width, found, codes
<1>11. /\ <<r>> \in Seq(AuditRecords) /\ DOMAIN <<r>> = {1} /\ <<r>>[1] = r
       /\ r.file = found
  BY <1>8 DEF r
<1> PICK added \in Seq(AuditRecords) : added = <<r>>
  BY <1>11
<1>12. /\ \A n \in DOMAIN added : RecordOK(added[n])
       /\ raised = <<>> => \A n \in DOMAIN added : added[n].file # {}
  BY <1>9, <1>10, <1>11
<1>13. /\ Onwards \in Audits /\ SameAudit(Onwards, audit) /\ Onwards.word = None
       /\ Onwards.records = audit.records /\ Onwards.issues = audit.issues
       /\ Onwards.starts = audit.starts /\ Onwards.ended = audit.ended
  BY <1>1, OnwardsHolds
<1>14. Log(added, raised, Onwards) /\ file' = file
  BY <1>0, <1>3 DEF collectionVars
<1> QED  BY <1>1, <1>10, <1>12, <1>13, <1>14, LogKeeps

\* A turn of the walk that logs nothing.
LEMMA MoveKeeps ==
  ASSUME AuditInv, audit # None, verdict = None, verdict' = None,
         audit.at <= Len(audit.todo), file' = file,
         NEW state \in Audits, audit' = state, SameAudit(state, audit),
         state.records = audit.records, state.issues = audit.issues,
         state.word # None =>
           state.at \in DOMAIN audit.todo /\ audit.todo[state.at].step = "chain",
         audit.starts = audit.ended + (IF audit.word = None THEN 0 ELSE 1) =>
           state.starts = state.ended + (IF state.word = None THEN 0 ELSE 1)
  PROVE  AuditInv'
<1>0. <<>> \in Seq(AuditRecords) /\ <<>> \in Seq(AuditIssues)
  OBVIOUS
<1> PICK added \in Seq(AuditRecords) : added = <<>>
  BY <1>0
<1> PICK raised \in Seq(AuditIssues) : raised = <<>>
  BY <1>0
<1>1. audit.records \in Seq(AuditRecords) /\ audit.issues \in Seq(AuditIssues)
  BY DEF AuditInv, AuditOK, Audits
<1>2. state.records = audit.records \o added /\ state.issues = audit.issues \o raised
  BY <1>1
<1>3. DOMAIN added = {} /\ DOMAIN raised = {}
  OBVIOUS
<1>4. ChainOK'
  BY DEF ChainOK, SameAudit
<1>5. CleanOK'
  <2>1. /\ raised = <<>> => \A n \in DOMAIN added : added[n].file # {}
        /\ raised = <<>> /\ audit.starts = audit.ended + (IF audit.word = None THEN 0 ELSE 1) =>
             state.starts = state.ended + (IF state.word = None THEN 0 ELSE 1)
    BY <1>3
  <2>2. audit' = state
    OBVIOUS
  <2> QED  BY ONLY <1>2, <2>1, <2>2, CleanStays, AuditInv, audit # None,
              added \in Seq(AuditRecords), raised \in Seq(AuditIssues)
<1> QED  BY <1>2, <1>3, <1>4, <1>5, WalkKeeps

LEMMA CountKeeps ==
  ASSUME AuditInv, CountPage
  PROVE  AuditInv'
<1>0. AtStep("count") /\ file' = file
  BY DEF CountPage, collectionVars
<1>1. /\ audit # None /\ verdict = None /\ audit \in Audits
      /\ audit.at <= Len(audit.todo) /\ audit.word = None
  BY <1>0, StepHolds
<1>2. CASE audit' = audit /\ verdict' = "LimitExceeded"
  BY <1>0, <1>2, GivingUpKeeps
<1>3. CASE audit' = [Onwards EXCEPT !.pages = @ + 1] /\ verdict' = None
  <2> PICK state : state = [Onwards EXCEPT !.pages = @ + 1]
    OBVIOUS
  <2>1. /\ Onwards \in Audits /\ SameAudit(Onwards, audit) /\ Onwards.word = None
        /\ Onwards.records = audit.records /\ Onwards.issues = audit.issues
        /\ Onwards.starts = audit.starts /\ Onwards.ended = audit.ended
    BY <1>1, OnwardsHolds
  <2>2. /\ state \in Audits /\ SameAudit(state, audit) /\ state.word = None
        /\ state.records = audit.records /\ state.issues = audit.issues
        /\ state.starts = audit.starts /\ state.ended = audit.ended
    <3> PICK before : before = Onwards
      OBVIOUS
    <3> PICK n : n = before.pages + 1
      OBVIOUS
    <3>1. n \in Nat
      BY <2>1 DEF Audits
    <3>2. state = [before EXCEPT !.pages = n]
      OBVIOUS
    <3>3. /\ before \in Audits /\ SameAudit(before, audit) /\ before.word = None
          /\ before.records = audit.records /\ before.issues = audit.issues
          /\ before.starts = audit.starts /\ before.ended = audit.ended
      BY <2>1
    <3> QED  BY ONLY <3>1, <3>2, <3>3 DEF Audits, SameAudit
  <2> QED  BY <1>0, <1>1, <1>3, <2>2, MoveKeeps
<1> QED  BY <1>1, <1>2, <1>3 DEF CountPage, Return

LEMMA BeginChainKeeps ==
  ASSUME AuditInv, BeginChain
  PROVE  AuditInv'
<1>0. AtStep("chain") /\ file' = file /\ verdict' = verdict /\ audit.word = None
  BY DEF BeginChain, collectionVars
<1>1. /\ audit # None /\ verdict = None /\ audit \in Audits
      /\ audit.at <= Len(audit.todo) /\ audit.at \in 1 .. Len(audit.todo)
      /\ Step \in AuditSteps /\ Step.step = "chain"
  BY <1>0, StepHolds
<1> PICK state : state = [audit EXCEPT !.word = Step.start, !.starts = @ + 1]
  OBVIOUS
<1>2. Step.start \in Nat
  BY <1>1 DEF AuditSteps, EntrySteps, IssueSteps, Count, ChainsFollowed, ChainsOfTable
<1>3. Step.start # None
  BY <1>2, OptionAssumption
<1>4. /\ state \in Audits /\ SameAudit(state, audit)
      /\ state.at = audit.at /\ state.word = Step.start
      /\ state.records = audit.records /\ state.issues = audit.issues
      /\ state.starts = audit.starts + 1 /\ state.ended = audit.ended
  <2> PICK before : before = audit
    OBVIOUS
  <2> PICK n : n = audit.starts + 1
    OBVIOUS
  <2>1. n \in Nat /\ before \in Audits
    BY <1>1 DEF Audits
  <2>2. state = [before EXCEPT !.word = Step.start, !.starts = n]
    OBVIOUS
  <2>3. /\ state \in Audits /\ SameAudit(state, before)
        /\ state.at = before.at /\ state.word = Step.start
        /\ state.records = before.records /\ state.issues = before.issues
        /\ state.starts = n /\ state.ended = before.ended
    BY ONLY <1>2, <2>1, <2>2 DEF Audits, SameAudit
  <2> QED  BY <2>3
<1>5. state.at \in DOMAIN audit.todo /\ audit.todo[state.at].step = "chain"
  <2>1. audit.todo \in Seq(AuditSteps)
    BY <1>1 DEF Audits
  <2> QED  BY <1>1, <1>4, <2>1 DEF Step
<1>6. audit.starts \in Nat /\ audit.ended \in Nat
  BY <1>1 DEF Audits
<1>7. audit.starts = audit.ended + (IF audit.word = None THEN 0 ELSE 1) =>
        state.starts = state.ended + (IF state.word = None THEN 0 ELSE 1)
  BY <1>0, <1>3, <1>4, <1>6
<1>8. audit' = state /\ verdict' = None
  BY <1>0, <1>1 DEF BeginChain
<1> QED  BY <1>0, <1>1, <1>4, <1>5, <1>7, <1>8, MoveKeeps

LEMMA IssueKeeps ==
  ASSUME AuditInv, AuditIssue
  PROVE  AuditInv'
<1>0. AtStep("issue") /\ file' = file
  BY DEF AuditIssue, collectionVars
<1>1. /\ audit # None /\ verdict = None /\ audit \in Audits
      /\ audit.at <= Len(audit.todo) /\ audit.word = None
      /\ Step \in AuditSteps /\ Step.step = "issue"
  BY <1>0, StepHolds
<1> PICK issue : issue = Issue(Step.image, None, Step.code)
  OBVIOUS
<1>2. Step.image \in Images /\ Step.code \in ImageCodes
  BY <1>1 DEF AuditSteps, EntrySteps, IssueSteps, Count, ChainsFollowed, ChainsOfTable
<1>3. issue \in AuditIssues /\ issue.code \notin SweepCodes
  <2>1. Step.code \in AuditCodes /\ Step.code \notin SweepCodes
    BY <1>2 DEF AuditCodes, ImageCodes, SweepCodes
  <2> QED  BY <1>2, <2>1 DEF Issue, AuditIssues
<1>4. <<issue>> \in Seq(AuditIssues) /\ DOMAIN <<issue>> = {1} /\ <<issue>>[1] = issue
      /\ <<issue>> # <<>>
  BY <1>3
<1> PICK raised \in Seq(AuditIssues) : raised = <<issue>>
  BY <1>4
<1>11. <<>> \in Seq(AuditRecords)
  OBVIOUS
<1> PICK added \in Seq(AuditRecords) : added = <<>>
  BY <1>11
<1>5. /\ DOMAIN added = {} /\ raised # <<>>
      /\ \A n \in DOMAIN raised : raised[n].code \notin SweepCodes
  BY <1>3, <1>4
<1>6. /\ Onwards \in Audits /\ SameAudit(Onwards, audit) /\ Onwards.word = None
      /\ Onwards.records = audit.records /\ Onwards.issues = audit.issues
  BY <1>1, OnwardsHolds
<1>7. Log(added, raised, Onwards)
  BY DEF AuditIssue
<1> QED  BY <1>0, <1>1, <1>5, <1>6, <1>7, LogKeeps

-----------------------------------------------------------------------------
(* The words of a chain *)

LEMMA TwoBounds ==
  ASSUME NEW a \in Nat, NEW b \in Nat
  PROVE  /\ Min({a, b}) \in {a, b} /\ Min({a, b}) <= a /\ Min({a, b}) <= b
         /\ Max({a, b}) \in {a, b} /\ a <= Max({a, b}) /\ b <= Max({a, b})
<1> PICK S : S = {a, b}
  OBVIOUS
<1>1. \E x \in S : \A y \in S : x <= y
  OBVIOUS
<1>2. \E x \in S : \A y \in S : x >= y
  OBVIOUS
<1>3. Min(S) \in S /\ \A y \in S : Min(S) <= y
  BY <1>1 DEF Min
<1>4. Max(S) \in S /\ \A y \in S : Max(S) >= y
  BY <1>2 DEF Max
<1> QED  BY ONLY <1>3, <1>4, S = {a, b}, a \in Nat, b \in Nat

\* Where a chain is: a word behind the start of a segment of its image.
LEMMA ChainHolds ==
  ASSUME AuditInv, AtStep("chain"), audit.word # None
  PROVE  /\ Step.image \in Images
         /\ Step.chain.segment \in Nat /\ Step.page \in Nat /\ audit.word \in Nat
         /\ SegmentOK(ChainSegment) /\ ChainSegment \in Segments(ImageOf(Step.image))
         /\ SegmentOffset \in Nat /\ WordAddress \in Nat /\ WordFile \in Nat
         /\ InTable(ImageOf(Step.image), Step.chain) /\ Step.page \in DOMAIN Step.chain.pages
         /\ Step.chain.pageSize \in Nat
<1>1. /\ Step \in AuditSteps /\ Step.step = "chain" /\ audit \in Audits
      /\ Accepted /\ file \in Files
  BY StepHolds
<1>2. Step \in ChainsFollowed
  BY <1>1 DEF AuditSteps, EntrySteps, IssueSteps, Count
<1>3. PICK i \in Images : Step \in ChainsOfTable(i)
  BY <1>2 DEF ChainsFollowed
<1>4. /\ Step.image = i /\ Step.chain \in ChainsOf(ImageOf(i)) /\ Step.page \in Nat \ {0}
      /\ InTable(ImageOf(i), Step.chain) /\ Step.page \in DOMAIN Step.chain.pages
  BY <1>3 DEF ChainsOfTable
<1>5. Step.chain.segment \in Kinds(ImageOf(i), {"segment"}) /\ Step.chain.pageSize \in Nat
  BY <1>4 DEF ChainsOf
<1>6. SegmentOK(ChainSegment) /\ ChainSegment \in Segments(ImageOf(i))
  <2>1. \A k \in Kinds(ImageOf(i), {"segment"}) : SegmentOK(ImageOf(i).commands[k])
    BY <1>1, ImagesHold
  <2> QED  BY <1>4, <1>5, <2>1 DEF ChainSegment, Segments
<1>7. Step.chain.segment \in Nat
  <2>1. FileOK /\ BaseOf(i) \in DOMAIN file.images
    BY <1>1, ImagesHold, FilesAreOK
  <2> QED  BY <1>5, <2>1, KindsAreNumbers DEF ImageOf
<1>8. audit.word \in Nat
  BY <1>1 DEF Audits
<1>9. SegmentOffset \in Nat
  <2> PICK p \in Nat : p = Step.page - 1
    BY <1>4
  <2> PICK size \in Nat : size = Step.chain.pageSize
    BY <1>5
  <2>1. p * size \in Nat
    OBVIOUS
  <2> QED  BY <1>8, <2>1 DEF SegmentOffset
<1>10. ChainSegment.address \in Nat /\ ChainSegment.file.offset \in Nat
  BY <1>6 DEF SegmentOK
<1> QED  BY <1>4, <1>5, <1>6, <1>7, <1>8, <1>9, <1>10 DEF WordAddress, WordFile

\* A word before the end of its page starts in it.
LEMMA WordStartsInItsPage ==
  ASSUME AuditInv, AtStep("chain"), audit.word # None, WordIsInPage,
         NEW r, r.page = <<Step.chain.segment, Step.page>>, r.address = WordAddress
  PROVE  StartsInItsPage(ImageOf(Step.image), r)
<1> PICK image : image = ImageOf(Step.image)
  OBVIOUS
<1> PICK chain : chain = Step.chain
  OBVIOUS
<1>1. /\ chain.pageSize \in Nat /\ Step.page \in Nat /\ audit.word \in Nat
      /\ SegmentOK(ChainSegment) /\ SegmentOffset \in Nat /\ Step.page \in DOMAIN chain.pages
      /\ InTable(image, chain)
  BY ChainHolds
<1>2. PICK n \in DOMAIN image.fixups.chains.segments : image.fixups.chains.segments[n] = chain
  BY <1>1 DEF InTable
<1> PICK segment : segment = image.commands[chain.segment]
  OBVIOUS
<1>3. ChainSegment = segment /\ segment.address \in Nat
  BY <1>1 DEF ChainSegment, SegmentOK
<1>4. r.page[1] = chain.segment /\ r.page[2] = Step.page
  OBVIOUS
<1>5. r.address - segment.address - (r.page[2] - 1) * chain.pageSize \in 0 .. chain.pageSize - 1
  <2> PICK before : before = (Step.page - 1) * chain.pageSize
    OBVIOUS
  <2>1. before \in Int
    <3> PICK p \in Int : p = Step.page - 1
      BY <1>1
    <3> PICK size \in Nat : size = chain.pageSize
      BY <1>1
    <3>1. p * size \in Int
      OBVIOUS
    <3> QED  BY <3>1
  <2>2. r.address = segment.address + (before + audit.word) /\ audit.word < chain.pageSize
    BY <1>3 DEF WordAddress, SegmentOffset, WordIsInPage
  <2>3. r.address - segment.address - before \in 0 .. chain.pageSize - 1
    BY ONLY <1>1, <1>3, <2>1, <2>2
  <2> QED  BY <1>4, <2>3
<1> QED  BY <1>1, <1>2, <1>4, <1>5 DEF StartsInItsPage

LEMMA ChainEndHolds ==
  ASSUME audit \in Audits
  PROVE  /\ ChainEnd \in Audits /\ SameAudit(ChainEnd, audit) /\ ChainEnd.word = None
         /\ ChainEnd.records = audit.records /\ ChainEnd.issues = audit.issues
         /\ ChainEnd.starts = audit.starts /\ ChainEnd.ended = audit.ended
<1> PICK before : before = Onwards
  OBVIOUS
<1>1. /\ before \in Audits /\ SameAudit(before, audit)
      /\ before.records = audit.records /\ before.issues = audit.issues
      /\ before.starts = audit.starts /\ before.ended = audit.ended
  BY OnwardsHolds
<1> PICK state : state = ChainEnd
  OBVIOUS
<1>2. state = [before EXCEPT !.word = None]
  BY DEF ChainEnd
<1>3. /\ state \in Audits /\ SameAudit(state, before) /\ state.word = None
      /\ state.records = before.records /\ state.issues = before.issues
      /\ state.starts = before.starts /\ state.ended = before.ended
  BY ONLY <1>1, <1>2 DEF Audits, SameAudit
<1> QED  BY <1>1, <1>3 DEF SameAudit

LEMMA OutsideKeeps ==
  ASSUME AuditInv, AuditWordOutside
  PROVE  AuditInv'
<1>0. AtStep("chain") /\ file' = file /\ audit.word # None
  BY DEF AuditWordOutside, collectionVars
<1>1. /\ audit # None /\ verdict = None /\ audit \in Audits /\ audit.at <= Len(audit.todo)
  BY <1>0, StepHolds
<1>2. PICK code \in {"ChainOutsidePage", "ChainOutsideFileMapping"} :
        Log(<<>>, <<Issue(Step.image, None, code)>>, ChainEnd)
  BY DEF AuditWordOutside
<1> PICK issue : issue = Issue(Step.image, None, code)
  OBVIOUS
<1>3. issue \in AuditIssues /\ issue.code \notin SweepCodes
  <2>1. code \in AuditCodes /\ code \notin SweepCodes
    BY DEF AuditCodes, WordCodes, SweepCodes
  <2>2. Step.image \in Images
    BY <1>0, ChainHolds
  <2> QED  BY <2>1, <2>2 DEF Issue, AuditIssues
<1>4. <<issue>> \in Seq(AuditIssues) /\ DOMAIN <<issue>> = {1} /\ <<issue>>[1] = issue
      /\ <<issue>> # <<>> /\ <<>> \in Seq(AuditRecords) /\ DOMAIN <<>> = {}
  BY <1>3
<1> PICK raised \in Seq(AuditIssues) : raised = <<issue>>
  BY <1>4
<1> PICK added \in Seq(AuditRecords) : added = <<>>
  BY <1>4
<1>5. /\ DOMAIN added = {} /\ raised # <<>>
      /\ \A n \in DOMAIN raised : raised[n].code \notin SweepCodes
  BY <1>3, <1>4
<1>6. /\ ChainEnd \in Audits /\ SameAudit(ChainEnd, audit) /\ ChainEnd.word = None
      /\ ChainEnd.records = audit.records /\ ChainEnd.issues = audit.issues
  BY <1>1, ChainEndHolds
<1>7. Log(added, raised, ChainEnd)
  BY <1>2
<1> QED  BY <1>0, <1>1, <1>5, <1>6, <1>7, LogKeeps

LEMMA FollowHolds ==
  ASSUME AuditInv, AtStep("chain"), audit.word # None,
         NEW word, word.next \in Nat
  PROVE  /\ Follow(word) \in Audits /\ SameAudit(Follow(word), audit)
         /\ Follow(word).records = audit.records /\ Follow(word).issues = audit.issues
         /\ Follow(word).word # None =>
              Follow(word).at \in DOMAIN audit.todo
                /\ audit.todo[Follow(word).at].step = "chain"
         /\ audit.starts = audit.ended + (IF audit.word = None THEN 0 ELSE 1) =>
              Follow(word).starts
                = Follow(word).ended + (IF Follow(word).word = None THEN 0 ELSE 1)
<1>1. /\ audit \in Audits /\ audit.at \in 1 .. Len(audit.todo) /\ Step.step = "chain"
  BY StepHolds
<1>2. audit.starts \in Nat /\ audit.ended \in Nat /\ audit.word \in Nat
  BY <1>1 DEF Audits
<1> PICK state : state = Follow(word)
  OBVIOUS
<1>3. CASE word.next = 0
  <2> PICK before : before = ChainEnd
    OBVIOUS
  <2>1. /\ before \in Audits /\ SameAudit(before, audit) /\ before.word = None
        /\ before.records = audit.records /\ before.issues = audit.issues
        /\ before.starts = audit.starts /\ before.ended = audit.ended
    BY <1>1, ChainEndHolds
  <2> PICK n \in Nat : n = before.ended + 1
    BY <1>2, <2>1
  <2>2. state = [before EXCEPT !.ended = n]
    BY <1>3 DEF Follow
  <2>3. /\ state \in Audits /\ SameAudit(state, before) /\ state.word = None
        /\ state.records = before.records /\ state.issues = before.issues
        /\ state.starts = before.starts /\ state.ended = n
    BY ONLY <2>1, <2>2, n \in Nat DEF Audits, SameAudit
  <2>4. SameAudit(state, audit)
    BY <2>1, <2>3 DEF SameAudit
  <2>5. audit.starts = audit.ended + (IF audit.word = None THEN 0 ELSE 1) =>
          state.starts = state.ended + (IF state.word = None THEN 0 ELSE 1)
    BY <1>2, <2>1, <2>3
  <2> QED  BY <2>1, <2>3, <2>4, <2>5
<1>4. CASE word.next # 0
  <2> PICK before : before = audit
    OBVIOUS
  <2> PICK n \in Nat : n = before.word + word.next
    BY <1>2
  <2>1. state = [before EXCEPT !.word = n] /\ before \in Audits
    BY <1>1, <1>4 DEF Follow
  <2>2. /\ state \in Audits /\ SameAudit(state, before) /\ state.at = before.at
        /\ state.records = before.records /\ state.issues = before.issues
        /\ state.starts = before.starts /\ state.ended = before.ended /\ state.word = n
    BY ONLY <2>1, n \in Nat DEF Audits, SameAudit
  <2>3. n # None
    BY OptionAssumption
  <2>4. state.at \in DOMAIN audit.todo /\ audit.todo[state.at].step = "chain"
    <3>1. audit.todo \in Seq(AuditSteps)
      BY <1>1 DEF Audits
    <3> QED  BY <1>1, <2>2, <3>1 DEF Step
  <2>5. (IF audit.word = None THEN 0 ELSE 1) = 1 /\ (IF state.word = None THEN 0 ELSE 1) = 1
    BY <2>2, <2>3
  <2> QED  BY <2>2, <2>4, <2>5
<1> QED  BY <1>3, <1>4

LEMMA WordKeeps ==
  ASSUME AuditInv, AuditWord
  PROVE  AuditInv'
<1>0. AtStep("chain") /\ file' = file /\ audit.word # None /\ WordIsInPage /\ WordIsMapped
  BY DEF AuditWord, collectionVars
<1>1. /\ audit # None /\ verdict = None /\ audit \in Audits /\ audit.at <= Len(audit.todo)
      /\ Accepted /\ file \in Files
  BY <1>0, StepHolds
<1>2. /\ Step.image \in Images
      /\ Step.chain.segment \in Nat /\ Step.page \in Nat
      /\ SegmentOK(ChainSegment) /\ ChainSegment \in Segments(ImageOf(Step.image))
      /\ SegmentOffset \in Nat /\ WordAddress \in Nat /\ WordFile \in Nat
  BY <1>0, ChainHolds
<1> DEFINE word == ChainWord(WordFile)
           i == Step.image
           noBase == word.cache # 0 \/ PrimaryBase = 0
           target == PrimaryBase + word.target
           r == [mechanism |-> "chain", image |-> i, page |-> <<Step.chain.segment, Step.page>>,
                 address |-> WordAddress, file |-> {WordFile}, width |-> WordBytes,
                 owner |-> Owner(WordAddress, WordBytes)]
           codes == <<
               <<noBase,                                    "MissingCacheBase">>,
               <<~ noBase /\ target > MaxAddress,           "PointerTargetOverflow">>,
               <<~ noBase /\ target <= MaxAddress /\ Holders(Outer, target, 1) = {},
                                                            "PointerTargetOutsideMappings">>,
               <<word.auth,                                 "UnsupportedAuthentication">> >>
           raised == Raised(i, NextRecord, codes)
<1>3. Log(<<r>>, raised, Follow(word))
  BY DEF AuditWord
<1>4. word.next \in Nat
  BY <1>1, FixupsAssumption DEF ChainWord, NullWord
<1>5. r \in AuditRecords
  <2>1. Owner(WordAddress, WordBytes) \in SUBSET {"execute", "kext"}
    BY OwnerType
  <2>2. r \in ChainRecords
    BY <1>2, <2>1 DEF ChainRecords, WordBytes
  <2> HIDE DEF r
  <2> QED  BY <2>2 DEF AuditRecords
<1>6. RecordOK(r)
  <2>1. /\ r.address = WordAddress /\ r.width = WordBytes /\ r.file = {WordFile} /\ r.image = i
        /\ r.owner = Owner(WordAddress, WordBytes)
        /\ r.page = <<Step.chain.segment, Step.page>>
    OBVIOUS
  <2> HIDE DEF r
  <2>2. WordFile \in Location(Outer, r.address, r.width)
    BY <1>0, <2>1 DEF WordIsMapped
  <2>3. BackedBy(Outer, r, WordFile)
    <3>1. \A k \in Kinds(Outer, {"segment"}) : SegmentOK(Outer.commands[k])
      BY <1>1, FilesAreOK, OuterParsed
    <3>2. r.address \in Nat
      BY <1>2, <2>1
    <3> QED  BY <2>2, <3>1, <3>2, LocationTells
  <2>4. BackedBy(ImageOf(i), r, WordFile)
    <3> PICK s : s = ChainSegment
      OBVIOUS
    <3> PICK n \in Nat : n = SegmentOffset
      BY <1>2
    <3>1. s.address \in Nat /\ s.file.offset \in Nat /\ s.file.size \in Nat /\ s.memory \in Nat
      BY <1>2 DEF SegmentOK
    <3>2. n + 8 <= Min({s.file.size, s.memory}) /\ Min({s.file.size, s.memory}) <= s.file.size
          /\ Min({s.file.size, s.memory}) \in Nat
      <4>1. n + 8 <= Min({s.file.size, s.memory})
        BY <1>0 DEF WordIsMapped, WordBytes
      <4> QED  BY <3>1, <4>1, TwoBounds
    <3>3. r.address = s.address + n /\ WordFile = s.file.offset + n /\ r.width = 8
      BY <2>1 DEF WordAddress, WordFile, WordBytes
    <3>4. /\ s.address <= r.address /\ r.address + r.width <= s.address + s.file.size
          /\ WordFile = s.file.offset + (r.address - s.address)
      BY ONLY <3>1, <3>2, <3>3, n \in Nat
    <3> QED  BY <1>2, <3>4 DEF BackedBy
  <2>5. StartsInItsPage(ImageOf(i), r)
    BY <1>0, <2>1, WordStartsInItsPage
  <2> QED  BY <1>2, <2>1, <2>3, <2>4, <2>5 DEF RecordOK
<1>7. raised \in Seq(AuditIssues) /\ \A n \in DOMAIN raised : raised[n].code \notin SweepCodes
  <2> HIDE DEF i, word, noBase, target
  <2>1. DOMAIN codes = 1 .. 4
    OBVIOUS
  <2>2. \A n \in 1 .. 4 : codes[n][2] \in WordCodes
    BY DEF WordCodes
  <2>3. NextRecord \in Nat \cup {None} /\ 4 \in Nat /\ i \in Images
    BY <1>1, <1>2 DEF NextRecord, Audits, i
  <2> HIDE DEF codes, raised
  <2> PICK record \in Nat \cup {None} : record = NextRecord
    BY <2>3
  <2> PICK last \in Nat : last = 4
    BY <2>3
  <2>4. CodesOK(codes, last)
    BY <2>1, <2>2 DEF CodesOK, AuditCodes
  <2>5. Raises(Raised(i, record, codes), i, record, codes, last)
    BY ONLY <2>3, <2>4, RaisedTells, record \in Nat \cup {None}, last \in Nat
  <2>6. /\ raised \in Seq(AuditIssues)
        /\ \A x : IsIn(x, raised) <=>
             \E n \in 1 .. 4 : codes[n][1] /\ x = Issue(i, record, codes[n][2])
    BY <2>5 DEF raised, Raises
  <2>7. \A n \in 1 .. 4 : codes[n][2] \notin SweepCodes
    BY <2>2 DEF WordCodes, SweepCodes
  <2> QED  BY ONLY <2>6, <2>7 DEF IsIn, Issue
<1>8. <<r>> \in Seq(AuditRecords) /\ DOMAIN <<r>> = {1} /\ <<r>>[1] = r /\ r.file # {}
  BY <1>5
<1> HIDE DEF r, raised, i, codes, word
<1> PICK added \in Seq(AuditRecords) : added = <<r>>
  BY <1>8
<1>9. /\ \A n \in DOMAIN added : RecordOK(added[n])
      /\ \A n \in DOMAIN added : added[n].file # {}
  BY <1>6, <1>8
<1> PICK state : state = Follow(word)
  OBVIOUS
<1>10. /\ state \in Audits /\ SameAudit(state, audit)
       /\ state.records = audit.records /\ state.issues = audit.issues
       /\ state.word # None =>
            state.at \in DOMAIN audit.todo /\ audit.todo[state.at].step = "chain"
       /\ audit.starts = audit.ended + (IF audit.word = None THEN 0 ELSE 1) =>
            state.starts = state.ended + (IF state.word = None THEN 0 ELSE 1)
  BY <1>0, <1>4, FollowHolds
<1>11. Log(added, raised, state)
  BY <1>3
<1> QED  BY <1>0, <1>1, <1>7, <1>9, <1>10, <1>11, LogKeeps

-----------------------------------------------------------------------------
(* The sweep over the words *)

LEMMA WritesHold ==
  ASSUME AuditOK, NEW j \in Writes(audit.records)
  PROVE  LET r == audit.records[j] IN
         /\ j \in Nat /\ j \in DOMAIN audit.records
         /\ r.address \in Nat /\ r.width \in {1, 2, 4, 8} /\ WriteEnd(r) = r.address + r.width
         /\ WriteEnd(r) \in Nat /\ r.address < WriteEnd(r)
         /\ r.mechanism \in Mechanisms
<1>1. audit.records \in Seq(AuditRecords) /\ j \in DOMAIN audit.records
      /\ audit.records[j].file # {}
  BY DEF AuditOK, Audits, Writes
<1> PICK r : r = audit.records[j]
  OBVIOUS
<1>2. r \in AuditRecords /\ j \in Nat
  BY <1>1
<1>3. r.width \in {1, 2, 4, 8} /\ r.mechanism \in Mechanisms
  BY <1>2 DEF AuditRecords, ClassicRecords, ChainRecords, Mechanisms
<1>4. r.address \in Nat
  BY <1>1 DEF AuditOK, RecordOK
<1>5. WriteEnd(r) \in Nat /\ r.address < WriteEnd(r)
  BY <1>3, <1>4 DEF WriteEnd
<1> QED  BY <1>1, <1>2, <1>3, <1>4, <1>5 DEF WriteEnd

\* The order of the sweep.
LEMMA SweepOrders ==
  ASSUME AuditOK, NEW i \in Writes(audit.records), NEW j \in Writes(audit.records)
  PROVE  /\ Before(audit.records, i, j) => ~ Before(audit.records, j, i)
         /\ i # j => Before(audit.records, i, j) \/ Before(audit.records, j, i)
<1>1. /\ i \in Nat /\ j \in Nat
      /\ audit.records[i].address \in Nat /\ audit.records[j].address \in Nat
  BY WritesHold
<1> QED  BY <1>1 DEF Before

\* What the sweep has remembered tells whether the next word shares a byte with
\* an earlier one, although it is one number for each mechanism.
LEMMA SweepSeesOverlaps ==
  ASSUME AuditOK, NEW i \in Unswept,
         \A j \in Unswept \ {i} : Before(audit.records, i, j),
         NEW m \in Mechanisms
  PROVE  audit.furthest[m] > audit.records[i].address <=> SharesWith(i, m)
<1> DEFINE R == audit.records
<1>0. /\ audit.swept \subseteq Writes(R) /\ i \in Writes(R)
      /\ \A j \in audit.swept : Before(R, j, i)
      /\ audit.furthest[m] \in Nat
  BY DEF AuditOK, SweepOK, Unswept, Audits
<1>1. R[i].address \in Nat /\ WriteEnd(R[i]) \in Nat /\ R[i].address < WriteEnd(R[i])
  BY <1>0, WritesHold
<1>2. ASSUME audit.furthest[m] > R[i].address
      PROVE  SharesWith(i, m)
  <2>1. audit.furthest[m] # 0
    BY <1>0, <1>1, <1>2
  <2>2. PICK j \in Passed(m) : WriteEnd(R[j]) = audit.furthest[m]
    BY <2>1 DEF AuditOK, SweepOK
  <2>3. j \in audit.swept /\ R[j].mechanism = m /\ j \in Writes(R) /\ Before(R, j, i)
    BY <1>0, <2>2 DEF Passed
  <2>4. R[j].address \in Nat /\ R[j].address <= R[i].address
    BY <1>1, <2>3, WritesHold DEF Before
  <2>5. R[i].address \in WriteBytes(R[i]) /\ R[i].address \in WriteBytes(R[j])
    <3>1. R[i].address \in R[i].address .. WriteEnd(R[i]) - 1
      BY <1>1
    <3>2. R[i].address \in R[j].address .. WriteEnd(R[j]) - 1
      BY <1>0, <1>1, <1>2, <2>2, <2>4
    <3> QED  BY <3>1, <3>2 DEF WriteBytes
  <2> QED  BY <2>3, <2>5 DEF SharesWith
<1>3. ASSUME SharesWith(i, m)
      PROVE  audit.furthest[m] > R[i].address
  <2>1. PICK j \in Writes(R) : /\ Before(R, j, i) /\ R[j].mechanism = m
                               /\ WriteBytes(R[i]) \cap WriteBytes(R[j]) # {}
    BY <1>3 DEF SharesWith
  <2>2. j \in audit.swept
    <3>1. ~ Before(R, i, j)
      BY <1>0, <2>1, SweepOrders
    <3>2. ~ Before(R, i, i)
      BY <1>0, SweepOrders
    <3> QED  BY <2>1, <3>1, <3>2 DEF Unswept
  <2>3. WriteEnd(R[j]) <= audit.furthest[m]
    BY <2>1, <2>2 DEF Passed, AuditOK, SweepOK
  <2>4. PICK b \in WriteBytes(R[i]) : b \in WriteBytes(R[j])
    BY <2>1
  <2>5. R[i].address <= b /\ b <= WriteEnd(R[j]) - 1 /\ b \in Int /\ WriteEnd(R[j]) \in Nat
    BY <1>1, <2>1, <2>4, WritesHold DEF WriteBytes
  <2> HIDE DEF R
  <2> QED  BY <1>0, <1>1, <2>3, <2>5
<1> QED  BY <1>2, <1>3

LEMMA SweepSeesVisits ==
  ASSUME AuditOK, NEW i \in Unswept,
         \A j \in Unswept \ {i} : Before(audit.records, i, j)
  PROVE  (audit.records[i].mechanism = "chain" /\ audit.lastChain = audit.records[i].address)
           <=> Revisited(i)
<1> DEFINE R == audit.records
<1>0. /\ audit.swept \subseteq Writes(R) /\ i \in Writes(R)
      /\ \A j \in audit.swept : Before(R, j, i)
  BY DEF AuditOK, SweepOK, Unswept, Audits
<1>1. R[i].address \in Nat /\ i \in Nat
  BY <1>0, WritesHold
<1>2. ASSUME R[i].mechanism = "chain", audit.lastChain = R[i].address
      PROVE  Revisited(i)
  <2>1. audit.lastChain # None
    BY <1>1, <1>2, OptionAssumption
  <2>2. PICK j \in Passed("chain") : R[j].address = audit.lastChain
    BY <2>1 DEF AuditOK, SweepOK
  <2>3. j \in audit.swept /\ R[j].mechanism = "chain" /\ j \in Writes(R) /\ Before(R, j, i)
    BY <1>0, <2>2 DEF Passed
  <2>4. j \in 1 .. i - 1
    <3>1. j \in Nat /\ j \in DOMAIN R
      BY <2>3, WritesHold
    <3>2. j < i
      BY <1>1, <1>2, <2>2, <2>3 DEF Before
    <3>3. j \in 1 .. Len(R)
      BY <3>1 DEF AuditOK, Audits
    <3> QED  BY <1>1, <3>2, <3>3
  <2> QED  BY <1>2, <2>2, <2>3, <2>4 DEF Revisited
<1>3. ASSUME Revisited(i)
      PROVE  R[i].mechanism = "chain" /\ audit.lastChain = R[i].address
  <2>1. PICK j \in 1 .. i - 1 : R[j].mechanism = "chain" /\ R[j].address = R[i].address
    BY <1>3 DEF Revisited
  <2>2. j \in Writes(R)
    <3>1. i \in 1 .. Len(R) /\ DOMAIN R = 1 .. Len(R) /\ Len(R) \in Nat
      BY <1>0 DEF AuditOK, Audits, Writes
    <3>2. j \in DOMAIN R
      BY <1>1, <3>1
    <3>3. R[j].file # {}
      BY <2>1, <3>2 DEF AuditOK, RecordOK
    <3> QED  BY <3>2, <3>3 DEF Writes
  <2>3. Before(R, j, i)
    BY <1>1, <2>1 DEF Before
  <2>4. j \in Passed("chain")
    <3>1. ~ Before(R, i, j) /\ ~ Before(R, i, i)
      BY <1>0, <2>2, <2>3, SweepOrders
    <3>2. j \in audit.swept
      BY <2>2, <2>3, <3>1 DEF Unswept
    <3> QED  BY <2>1, <3>2 DEF Passed
  <2>5. audit.lastChain # None /\ R[j].address <= audit.lastChain
    BY <2>4 DEF AuditOK, SweepOK
  <2>6. PICK k \in Passed("chain") : R[k].address = audit.lastChain
    BY <2>5 DEF AuditOK, SweepOK
  <2>7. k \in Writes(R) /\ Before(R, k, i)
    BY <1>0, <2>6 DEF Passed
  <2>8. R[k].address \in Nat /\ R[k].address <= R[i].address
    BY <1>1, <2>7, WritesHold DEF Before
  <2>9. R[i].mechanism = "chain"
    BY <1>3 DEF Revisited
  <2> HIDE DEF R
  <2> QED  BY <1>1, <2>1, <2>5, <2>6, <2>8, <2>9
<1> QED  BY <1>2, <1>3

LEMMA SweepKeeps ==
  ASSUME AuditInv, Running, NEW i \in Unswept, SweepWord(i)
  PROVE  AuditInv'
<1> DEFINE R == audit.records
           r == R[i]
           codes == <<
             <<r.mechanism = "chain" /\ audit.lastChain = r.address, "DuplicateChainVisit">>,
             <<audit.furthest["classic"] > r.address,          OverlapCode(r, "classic")>>,
             <<audit.furthest["chain"] > r.address,            OverlapCode(r, "chain")>> >>
           raised == Raised(r.image, i, codes)
           state == [audit EXCEPT !.swept = @ \cup {i},
                                  !.furthest = Furthest(@, r),
                                  !.lastChain = IF r.mechanism = "chain" THEN r.address ELSE @]
<1>0. /\ AuditOK /\ Accepted /\ file \in Files /\ audit \in Audits /\ verdict = None /\ file' = file
      /\ audit.at > Len(audit.todo)
      /\ \A j \in Unswept \ {i} : Before(R, i, j)
      /\ Log(<<>>, raised, state)
  BY DEF AuditInv, AuditOK, Running, SweepWord, collectionVars
<1>1. /\ audit.swept \subseteq Writes(R) /\ i \in Writes(R) /\ i \notin audit.swept
      /\ \A j \in audit.swept : Before(R, j, i)
      /\ audit.furthest \in [Mechanisms -> Nat]
      /\ R \in Seq(AuditRecords) /\ audit.issues \in Seq(AuditIssues)
      /\ audit.word = None
  <2>1. audit.word = None
    <3>1. audit.word # None => audit.at \in DOMAIN audit.todo
      BY <1>0 DEF AuditOK, ChainOK
    <3>2. audit.at \in Nat /\ audit.todo \in Seq(AuditSteps)
      BY <1>0 DEF Audits
    <3>3. audit.at \notin DOMAIN audit.todo
      BY <1>0, <3>2
    <3> QED  BY <3>1, <3>3
  <2> QED  BY <1>0, <2>1 DEF AuditOK, SweepOK, Unswept, Audits
<1>2. /\ i \in Nat /\ r.address \in Nat /\ WriteEnd(r) \in Nat /\ r.mechanism \in Mechanisms
      /\ r.image \in Images
  <2>1. r \in AuditRecords
    BY <1>1 DEF Writes
  <2>2. r.image \in Images
    BY <2>1 DEF AuditRecords, ClassicRecords, ChainRecords
  <2> QED  BY <1>0, <1>1, <2>2, WritesHold
<1>3. /\ \A m \in Mechanisms : audit.furthest[m] > r.address <=> SharesWith(i, m)
      /\ (r.mechanism = "chain" /\ audit.lastChain = r.address) <=> Revisited(i)
  BY <1>0, SweepSeesOverlaps, SweepSeesVisits
<1>4. \A m \in Mechanisms :
        Furthest(audit.furthest, r)[m] = IF m = r.mechanism
                                         THEN Max({audit.furthest[m], WriteEnd(r)})
                                         ELSE audit.furthest[m]
  BY <1>1, <1>2 DEF Furthest
<1>5. Furthest(audit.furthest, r) \in [Mechanisms -> Nat]
  <2>1. \A m \in Mechanisms : Furthest(audit.furthest, r)[m] \in Nat
    <3> TAKE m \in Mechanisms
    <3>1. audit.furthest[m] \in Nat
      BY <1>1
    <3>2. Max({audit.furthest[m], WriteEnd(r)}) \in Nat
      BY <1>2, <3>1, TwoBounds
    <3> QED  BY <1>4, <3>1, <3>2
  <2> PICK F : F = Furthest(audit.furthest, r)
    OBVIOUS
  <2>2. F = [audit.furthest EXCEPT ![r.mechanism] = Max({@, WriteEnd(r)})]
    BY DEF Furthest
  <2>3. F = [m \in Mechanisms |-> F[m]]
    BY <1>1, <2>2
  <2> QED  BY <2>1, <2>3
\* The state
<1>6. /\ state \in Audits
      /\ state.todo = audit.todo /\ state.at = audit.at /\ state.word = audit.word
      /\ state.records = R /\ state.issues = audit.issues
      /\ state.starts = audit.starts /\ state.ended = audit.ended
      /\ state.swept = audit.swept \cup {i}
      /\ state.furthest = Furthest(audit.furthest, r)
      /\ state.lastChain = IF r.mechanism = "chain" THEN r.address ELSE audit.lastChain
  <2> PICK F \in [Mechanisms -> Nat] : F = Furthest(audit.furthest, r)
    BY <1>5
  <2> PICK before : before = audit
    OBVIOUS
  <2>1. before.lastChain \in Nat \cup {None} /\ before.swept \subseteq Nat /\ before \in Audits
    BY <1>0 DEF Audits
  <2> PICK last \in Nat \cup {None} :
             last = IF r.mechanism = "chain" THEN r.address ELSE before.lastChain
    BY <1>2, <2>1
  <2> PICK swept \in SUBSET Nat : swept = before.swept \cup {i}
    BY <1>2, <2>1
  <2>2. state = [before EXCEPT !.swept = swept, !.furthest = F, !.lastChain = last]
    OBVIOUS
  <2> HIDE DEF state
  <2>3. /\ state \in Audits
        /\ state.todo = before.todo /\ state.at = before.at /\ state.word = before.word
        /\ state.records = before.records /\ state.issues = before.issues
        /\ state.starts = before.starts /\ state.ended = before.ended
        /\ state.swept = swept /\ state.furthest = F /\ state.lastChain = last
    BY ONLY <2>1, <2>2, F \in [Mechanisms -> Nat], last \in Nat \cup {None},
            swept \in SUBSET Nat DEF Audits
  <2> QED  BY <2>3
\* The issues
<1>7. /\ raised \in Seq(AuditIssues)
      /\ \A x : IsIn(x, raised) <=>
           \/ Revisited(i) /\ x = Issue(r.image, i, "DuplicateChainVisit")
           \/ \E m \in Mechanisms : SharesWith(i, m) /\ x = Issue(r.image, i, OverlapCode(r, m))
  <2> HIDE DEF R, r
  <2>1. DOMAIN codes = 1 .. 3 /\ 3 \in Nat
    OBVIOUS
  <2>2. \A n \in 1 .. 3 : codes[n][2] \in SweepCodes
    BY DEF SweepCodes, OverlapCode
  <2>3. /\ codes[1][1] <=> Revisited(i)
        /\ codes[2][1] <=> SharesWith(i, "classic")
        /\ codes[3][1] <=> SharesWith(i, "chain")
    <3>1. "classic" \in Mechanisms /\ "chain" \in Mechanisms
      BY DEF Mechanisms
    <3>2. /\ codes[1][1] <=> r.mechanism = "chain" /\ audit.lastChain = r.address
          /\ codes[2][1] <=> audit.furthest["classic"] > r.address
          /\ codes[3][1] <=> audit.furthest["chain"] > r.address
      OBVIOUS
    <3> HIDE DEF codes
    <3> QED  BY <1>3, <3>1, <3>2
  <2>4. /\ codes[1][2] = "DuplicateChainVisit"
        /\ codes[2][2] = OverlapCode(r, "classic")
        /\ codes[3][2] = OverlapCode(r, "chain")
    OBVIOUS
  <2> HIDE DEF codes, raised
  <2> PICK image \in Images : image = r.image
    BY <1>2
  <2> PICK last \in Nat : last = 3
    BY <2>1
  <2>5. CodesOK(codes, last)
    BY <2>1, <2>2 DEF CodesOK, AuditCodes
  <2>6. i \in Nat \cup {None}
    BY <1>2
  <2>7. Raises(Raised(image, i, codes), image, i, codes, last)
    BY ONLY <2>5, <2>6, RaisedTells, image \in Images, last \in Nat
  <2>8. /\ raised \in Seq(AuditIssues)
        /\ \A x : IsIn(x, raised) <=>
             \E n \in 1 .. 3 : codes[n][1] /\ x = Issue(image, i, codes[n][2])
    BY <2>7 DEF raised, Raises
  <2>9. \A x : (\E n \in 1 .. 3 : codes[n][1] /\ x = Issue(image, i, codes[n][2]))
          <=> \/ codes[1][1] /\ x = Issue(image, i, codes[1][2])
              \/ codes[2][1] /\ x = Issue(image, i, codes[2][2])
              \/ codes[3][1] /\ x = Issue(image, i, codes[3][2])
    <3>1. 1 .. 3 = {1, 2, 3}
      OBVIOUS
    <3> QED  BY <3>1
  <2>10. \A x : (\E m \in Mechanisms : SharesWith(i, m) /\ x = Issue(image, i, OverlapCode(r, m)))
           <=> \/ SharesWith(i, "classic") /\ x = Issue(image, i, OverlapCode(r, "classic"))
               \/ SharesWith(i, "chain") /\ x = Issue(image, i, OverlapCode(r, "chain"))
    BY DEF Mechanisms
  <2> QED  BY <2>3, <2>4, <2>8, <2>9, <2>10
<1> HIDE DEF R, r, codes, raised, state
<1>8. CASE audit' = audit /\ verdict' = "LimitExceeded"
  BY <1>0, <1>8, GivingUpKeeps
<1>9. CASE audit' = Logged(state, <<>>, raised) /\ verdict' = None
  <2> PICK next : next = audit'
    OBVIOUS
  <2>1. <<>> \in Seq(AuditRecords)
    OBVIOUS
  <2> PICK added \in Seq(AuditRecords) : added = <<>>
    BY <2>1
  <2>2. Extends(next, state, added, raised)
    BY <1>6, <1>7, <1>9, LoggedHolds
  <2>3. R \o added = R
    BY <1>1
  <2>4. /\ next \in Audits
        /\ next.todo = audit.todo /\ next.at = audit.at /\ next.word = None
        /\ next.records = R /\ next.issues = audit.issues \o raised
        /\ next.starts = audit.starts /\ next.ended = audit.ended
        /\ next.swept = audit.swept \cup {i}
        /\ next.furthest = Furthest(audit.furthest, r)
        /\ next.lastChain = IF r.mechanism = "chain" THEN r.address ELSE audit.lastChain
    BY <1>1, <1>6, <2>2, <2>3 DEF Extends, SameAudit
  <2>5. /\ audit' \in Audits' /\ Outer' = Outer /\ \A k : ImageOf(k)' = ImageOf(k)
        /\ \A address, width : Owner(address, width)' = Owner(address, width)
    BY <1>0, <2>4, TypesFixed
  <2>6. (\A n \in DOMAIN audit.records : RecordOK(audit.records[n]))'
    BY <1>0, <2>4, <2>5 DEF AuditOK, RecordOK, R
  <2>7. ChainOK'
    BY <2>4 DEF ChainOK
  <2>8. CleanOK'
    <3>1. /\ next.records = audit.records \o added /\ next.issues = audit.issues \o raised
          /\ raised = <<>> => \A n \in DOMAIN added : added[n].file # {}
          /\ raised = <<>> /\ audit.starts = audit.ended + (IF audit.word = None THEN 0 ELSE 1) =>
               next.starts = next.ended + (IF next.word = None THEN 0 ELSE 1)
      BY <1>1, <2>3, <2>4 DEF R
    <3>2. audit' = next /\ audit # None
      BY DEF Running
    <3> QED  BY ONLY <1>7, <3>1, <3>2, CleanStays, AuditInv, added \in Seq(AuditRecords)
  <2>9. SweepOK'
    <3>1. \A m, k : k \in Passed(m)' <=> k \in Passed(m) \/ (k = i /\ m = r.mechanism)
      BY <2>4 DEF Passed, R, r
    <3>2. Unswept' = Unswept \ {i}
      BY <2>4 DEF Unswept, Writes, R
    <3>3. \A m \in Mechanisms :
            /\ \A k \in Passed(m)' : WriteEnd(R[k]) <= next.furthest[m]
            /\ next.furthest[m] # 0 =>
                 \E k \in Passed(m)' : WriteEnd(R[k]) = next.furthest[m]
      <4> TAKE m \in Mechanisms
      <4>1. /\ \A k \in Passed(m) : WriteEnd(R[k]) <= audit.furthest[m]
            /\ audit.furthest[m] # 0 =>
                 \E k \in Passed(m) : WriteEnd(R[k]) = audit.furthest[m]
        BY <1>0 DEF AuditOK, SweepOK, R
      <4> PICK before \in Nat : before = audit.furthest[m]
        BY <1>1
      <4>2. CASE m # r.mechanism
        BY <1>4, <2>4, <3>1, <4>1, <4>2
      <4>3. CASE m = r.mechanism
        <5> PICK to \in Nat : to = WriteEnd(r)
          BY <1>2
        <5> PICK after \in Nat : after = Max({before, to})
          BY TwoBounds
        <5>1. next.furthest[m] = after
          BY <1>4, <2>4, <4>3
        <5>2. after \in {before, to} /\ before <= after /\ to <= after
          BY TwoBounds
        <5>3. \A k \in Passed(m) : WriteEnd(R[k]) \in Nat /\ WriteEnd(R[k]) <= before
          <6> TAKE k \in Passed(m)
          <6>1. k \in Writes(R)
            BY <1>1 DEF Passed
          <6> QED  BY <1>0, <4>1, <6>1, WritesHold DEF R
        <5>4. WriteEnd(R[i]) = to
          BY DEF r
        <5>5. \A k \in Passed(m)' : WriteEnd(R[k]) <= after
          <6> TAKE k \in Passed(m)'
          <6>1. k \in Passed(m) \/ k = i
            BY <3>1
          <6> QED  BY <5>2, <5>3, <5>4, <6>1
        <5>6. after # 0 => \E k \in Passed(m)' : WriteEnd(R[k]) = after
          BY <3>1, <4>1, <4>3, <5>2, <5>4
        <5> QED  BY <5>1, <5>5, <5>6
      <4> QED  BY <4>2, <4>3
    <3>4. /\ next.swept \subseteq Writes(R)
          /\ next.at > Len(next.todo)
      BY <1>0, <1>1, <2>4
    <3>5. \A k \in next.swept, j \in Unswept' : Before(R, k, j)
      <4> TAKE k \in next.swept, j \in Unswept'
      <4>1. j \in Unswept \ {i} /\ (k \in audit.swept \/ k = i)
        BY <2>4, <3>2
      <4> QED  BY <1>0, <4>1 DEF AuditOK, SweepOK, R
    <3>6. \A k \in Passed("chain")' :
            next.lastChain # None /\ R[k].address <= next.lastChain
      <4> TAKE k \in Passed("chain")'
      <4>1. CASE r.mechanism = "chain"
        <5>1. next.lastChain = r.address /\ r.address # None
          BY <1>2, <2>4, <4>1, OptionAssumption
        <5>2. k \in Passed("chain") \/ k = i
          BY <3>1
        <5>3. R[k].address <= r.address
          <6>1. CASE k = i
            BY <1>2, <6>1 DEF r
          <6>2. CASE k \in Passed("chain")
            <7>1. k \in Writes(R) /\ Before(R, k, i)
              BY <1>1, <6>2 DEF Passed
            <7>2. R[k].address \in Nat
              BY <1>0, <7>1, WritesHold DEF R
            <7> QED  BY <1>2, <7>1, <7>2 DEF Before, r
          <6> QED  BY <5>2, <6>1, <6>2
        <5> QED  BY <5>1, <5>3
      <4>2. CASE r.mechanism # "chain"
        <5>1. k \in Passed("chain") /\ next.lastChain = audit.lastChain
          BY <2>4, <3>1, <4>2
        <5> QED  BY <1>0, <5>1 DEF AuditOK, SweepOK, R
      <4> QED  BY <4>1, <4>2
    <3>7. next.lastChain # None =>
            \E k \in Passed("chain")' : R[k].address = next.lastChain
      <4>1. CASE r.mechanism = "chain"
        <5>1. i \in Passed("chain")' /\ next.lastChain = R[i].address
          BY <2>4, <3>1, <4>1 DEF r
        <5> QED  BY <5>1
      <4>2. CASE r.mechanism # "chain"
        <5>1. audit.lastChain # None => \E k \in Passed("chain") : R[k].address = audit.lastChain
          BY <1>0 DEF AuditOK, SweepOK, R
        <5>2. next.lastChain = audit.lastChain
          BY <2>4, <4>2
        <5> QED  BY <3>1, <5>1, <5>2
      <4> QED  BY <4>1, <4>2
    <3>8. R = audit'.records
      BY <2>4
    <3> HIDE DEF R
    <3> QED  BY <3>3, <3>4, <3>5, <3>6, <3>7, <3>8 DEF SweepOK
  <2>12. ReportsOK'
    <3>1. \A k, c : Reported(k, c)' <=>
            Reported(k, c) \/ \E x : IsIn(x, raised) /\ x.record = k /\ x.code = c
      <4>1. \A x : IsIn(x, next.issues) <=> IsIn(x, audit.issues) \/ IsIn(x, raised)
        BY <1>1, <1>7, <2>4, ConcatenationHolds
      <4>2. \A k, c : Reported(k, c) <=>
              \E x : IsIn(x, audit.issues) /\ x.record = k /\ x.code = c
        BY DEF Reported, IsIn
      <4>3. \A k, c : Reported(k, c)' <=>
              \E x : IsIn(x, next.issues) /\ x.record = k /\ x.code = c
        BY DEF Reported, IsIn
      <4> QED  BY <4>1, <4>2, <4>3
    <3>2. \A k, c : (\E x : IsIn(x, raised) /\ x.record = k /\ x.code = c) <=>
            /\ k = i
            /\ \/ Revisited(i) /\ c = "DuplicateChainVisit"
               \/ \E m \in Mechanisms : SharesWith(i, m) /\ c = OverlapCode(r, m)
      <4>1. \A code : Issue(r.image, i, code).record = i /\ Issue(r.image, i, code).code = code
        BY DEF Issue
      <4> QED  BY <1>7, <4>1
    <3>3. \A k, m : SharesWith(k, m)' <=> SharesWith(k, m)
      BY <2>4 DEF SharesWith, R
    <3>4. \A k : Revisited(k)' <=> Revisited(k)
      BY <2>4 DEF Revisited, R
    <3>5. \A n \in DOMAIN next.issues :
            next.issues[n].code \in SweepCodes => next.issues[n].record \in next.swept
      <4> TAKE n \in DOMAIN next.issues
      <4> PICK x : x = next.issues[n]
        OBVIOUS
      <4>1. IsIn(x, audit.issues) \/ IsIn(x, raised)
        <5>1. IsIn(x, audit.issues \o raised)
          BY <2>4 DEF IsIn
        <5> QED  BY <1>1, <1>7, <5>1, ConcatenationHolds
      <4>2. CASE IsIn(x, audit.issues)
        <5>1. x.code \in SweepCodes => x.record \in audit.swept
          BY <1>0, <4>2 DEF AuditOK, ReportsOK, IsIn
        <5> QED  BY <2>4, <5>1
      <4>3. CASE IsIn(x, raised)
        <5>1. x.record = i
          BY <3>2, <4>3
        <5> QED  BY <2>4, <5>1
      <4> QED  BY <4>1, <4>2, <4>3
    <3>6. \A c \in SweepCodes : ~ Reported(i, c)
      BY <1>0, <1>1 DEF AuditOK, ReportsOK, Reported
    <3>7. \A k \in next.swept : TellsOverlaps(k)'
      <4> TAKE k \in next.swept
      <4>1. CASE k # i
        <5>1. TellsOverlaps(k)
          BY <1>0, <2>4, <4>1 DEF AuditOK, ReportsOK
        <5>2. \A c : Reported(k, c)' <=> Reported(k, c)
          BY <3>1, <3>2, <4>1
        <5> QED  BY <2>4, <3>3, <3>4, <5>1, <5>2 DEF TellsOverlaps, R
      <4>2. CASE k = i
        <5>1. \A c \in SweepCodes : Reported(i, c)' <=>
                \/ Revisited(i) /\ c = "DuplicateChainVisit"
                \/ \E m \in Mechanisms : SharesWith(i, m) /\ c = OverlapCode(r, m)
          BY <3>1, <3>2, <3>6
        <5>2. \A m \in Mechanisms : /\ OverlapCode(r, m) \in SweepCodes
                                    /\ OverlapCode(r, m) # "DuplicateChainVisit"
                                    /\ \A n \in Mechanisms :
                                         OverlapCode(r, n) = OverlapCode(r, m) => n = m
          BY <1>2 DEF OverlapCode, SweepCodes, Mechanisms
        <5>3. \A m \in Mechanisms, c \in SweepCodes :
                c = OverlapCode(r, m) => (Reported(i, c)' <=> SharesWith(i, m))
          BY <5>1, <5>2
        <5>4. Reported(i, "DuplicateChainVisit")' <=> Revisited(i)
          BY <5>1, <5>2 DEF SweepCodes
        <5>5. audit'.records[i] = r
          BY <2>4 DEF r
        <5>6. \A m \in Mechanisms :
                Reported(i, OverlapCode(audit.records[i], m))' <=> SharesWith(i, m)'
          <6> TAKE m \in Mechanisms
          <6> PICK c \in SweepCodes : c = OverlapCode(r, m)
            BY <5>2
          <6>1. c = OverlapCode(audit.records[i], m)'
            BY <5>5
          <6> QED  BY <3>3, <5>3, <6>1
        <5> QED  BY <3>4, <4>2, <5>4, <5>6 DEF TellsOverlaps
      <4> QED  BY <4>1, <4>2
    <3> QED  BY <3>5, <3>7 DEF ReportsOK
  <2>10. file' \in Files /\ Accepted'
    BY <1>0, FileFixed
  <2>11. verdict' # "Ok"
    BY <1>9, OptionAssumption
  <2> QED  BY <2>5, <2>6, <2>7, <2>8, <2>9, <2>12, <2>10, <2>11 DEF AuditInv, AuditOK
<1> QED  BY <1>0, <1>8, <1>9, LogTells

-----------------------------------------------------------------------------
(* The audit as a whole *)

LEMMA BeginKeeps ==
  ASSUME AuditInv, NEW l \in Limits, BeginAudit(l)
  PROVE  AuditInv'
<1>0. file' = file /\ audit = None /\ verdict = None /\ file \in Files
  BY DEF BeginAudit, AuditInv
<1>1. CASE audit' = audit /\ verdict' # "Ok"
  BY <1>0, <1>1, GivingUpKeeps
<1>2. CASE MetadataCheck = "Ok" /\ audit' = NewAudit /\ verdict' = verdict
  <2>1. Accepted /\ Accepted' /\ file' \in Files
    <3>1. Accepted
      BY <1>2 DEF MetadataCheck, Accepted
    <3> QED  BY <1>0, <3>1, FileFixed
  <2> PICK todo \in Seq(AuditSteps) : todo = Steps
    BY <1>0, <2>1, StepsHold
  <2> PICK next : next = NewAudit
    OBVIOUS
  <2>2. <<>> \in Seq(AuditRecords) /\ <<>> \in Seq(AuditIssues) /\ DOMAIN <<>> = {}
    OBVIOUS
  <2>3. next = [todo |-> todo, at |-> 1, word |-> None, records |-> <<>>, issues |-> <<>>,
                pages |-> 0, starts |-> 0, ended |-> 0,
                swept |-> {}, furthest |-> [m \in Mechanisms |-> 0], lastChain |-> None]
    BY DEF NewAudit
  <2>4. next \in Audits
    BY ONLY <2>2, <2>3, todo \in Seq(AuditSteps) DEF Audits
  <2>5. /\ next.records = <<>> /\ next.issues = <<>> /\ next.word = None
        /\ next.starts = 0 /\ next.ended = 0
        /\ next.swept = {} /\ next.lastChain = None
        /\ \A m \in Mechanisms : next.furthest[m] = 0
    BY <2>3
  <2>6. audit' = next /\ audit' \in Audits'
    BY <1>0, <1>2, <2>4, TypesFixed
  <2>7. (\A i \in DOMAIN audit.records : RecordOK(audit.records[i]))'
    BY <2>2, <2>5, <2>6
  <2>8. ChainOK' /\ CleanOK'
    BY <2>2, <2>5, <2>6 DEF ChainOK, CleanOK
  <2>9. SweepOK'
    <3>1. \A m : Passed(m)' = {}
      BY <2>5, <2>6 DEF Passed
    <3> QED  BY <2>2, <2>5, <2>6, <3>1 DEF SweepOK
  <2>10. ReportsOK'
    BY <2>2, <2>5, <2>6 DEF ReportsOK
  <2>11. verdict' # "Ok"
    BY <1>0, <1>2, OptionAssumption
  <2> QED  BY <2>1, <2>6, <2>7, <2>8, <2>9, <2>10, <2>11 DEF AuditInv, AuditOK
<1> QED  BY <1>0, <1>1, <1>2, OptionAssumption DEF BeginAudit, Return

LEMMA AuditKeeps ==
  ASSUME AuditInv, [Next]_vars
  PROVE  AuditInv'
<1>1. ASSUME NEW l \in Limits, BeginAudit(l)
      PROVE  AuditInv'
  BY <1>1, BeginKeeps
<1>2. CASE AuditEntry
  BY <1>2, EntryKeeps
<1>3. CASE AuditIssue
  BY <1>3, IssueKeeps
<1>4. CASE CountPage
  BY <1>4, CountKeeps
<1>5. CASE BeginChain
  BY <1>5, BeginChainKeeps
<1>6. CASE AuditWordOutside
  BY <1>6, OutsideKeeps
<1>7. CASE AuditWord
  BY <1>7, WordKeeps
<1>8. ASSUME Running, NEW i \in Unswept, SweepWord(i)
      PROVE  AuditInv'
  BY <1>8, SweepKeeps
<1>9. CASE Finish
  BY <1>9, GivingUpKeeps DEF Finish, Running, Return, collectionVars
<1>10. CASE UNCHANGED <<collectionVars, auditVars>>
  <2>1. audit' = audit /\ verdict' = verdict /\ file' = file
    BY <1>10 DEF collectionVars, auditVars
  <2>2. verdict' = "Ok" => audit # None /\ audit.at > Len(audit.todo) /\ Unswept = {}
    BY <2>1 DEF AuditInv
  <2> QED  BY <2>1, <2>2, GivingUpKeeps
<1>11. ASSUME AuditNext
       PROVE  AuditInv'
  BY <1>1, <1>2, <1>3, <1>4, <1>5, <1>6, <1>7, <1>8, <1>9, <1>11 DEF AuditNext
<1>12. ASSUME Next
       PROVE  AuditInv'
  <2>1. AuditNext \/ UNCHANGED <<collectionVars, auditVars>>
    BY <1>12 DEF Next, NewPlan, Apply, WriteWord, WalkWord, WalkStretch, WalkEnd, Verify, Disturb
  <2> QED  BY <1>10, <1>11, <2>1
<1>13. CASE UNCHANGED vars
  BY <1>10, <1>13 DEF vars
<1> QED  BY <1>12, <1>13

\* What an audit has recorded, reported and swept fits together at every step.
THEOREM AuditFitsTogether == Spec => []AuditInv
<1>1. Init => AuditInv
  BY OptionAssumption DEF Init, AuditInit, CollectionInit, AuditInv
<1> QED  BY <1>1, AuditKeeps, PTL DEF Spec

\* OverlapsAreFound for every collection and every limit: the one pass of
\* overlaps() names the words that comparing every two would.
THEOREM SweepFindsOverlaps == Spec => []OverlapsAreFound
<1>1. AuditInv => OverlapsAreFound
  <2>1. SUFFICES ASSUME AuditInv, Audited, NEW i \in Writes(audit.records)
                 PROVE  LET r == audit.records[i]
                            other == CHOOSE m \in Mechanisms : m # r.mechanism
                        IN /\ Reported(i, "SameMechanismWriteOverlap")
                                <=> SharesWith(i, r.mechanism)
                           /\ Reported(i, "CrossMechanismWriteOverlap") <=> SharesWith(i, other)
                           /\ Reported(i, "DuplicateChainVisit") <=> Revisited(i)
    BY DEF OverlapsAreFound, Revisited
  <2> PICK r : r = audit.records[i]
    OBVIOUS
  <2> PICK other : other = CHOOSE m \in Mechanisms : m # r.mechanism
    OBVIOUS
  <2>2. AuditOK /\ Unswept = {}
    BY <2>1 DEF AuditInv, Audited
  <2>3. i \in audit.swept
    BY <2>2 DEF Unswept
  <2>4. TellsOverlaps(i)
    BY <2>2, <2>3 DEF AuditOK, ReportsOK
  <2>5. r.mechanism \in Mechanisms
    BY <2>2, WritesHold
  <2>6. other \in Mechanisms /\ other # r.mechanism
    BY <2>5 DEF Mechanisms
  <2>7. /\ OverlapCode(r, r.mechanism) = "SameMechanismWriteOverlap"
        /\ OverlapCode(r, other) = "CrossMechanismWriteOverlap"
    BY <2>6 DEF OverlapCode
  <2> QED  BY <2>4, <2>5, <2>6, <2>7 DEF TellsOverlaps
<1> QED  BY <1>1, AuditFitsTogether, PTL

-----------------------------------------------------------------------------
(* Where a word is *)

\* Where the segments of an image are apart, in the file and in memory.
MapsApart(image) ==
  Disjoint(image) /\ \A k \in Kinds(image, {"segment"}) : SegmentOK(image.commands[k])

\* Byte n of a record's word, which is in f + n of the file, is at "a".
BackedByte(image, r, f, n, a, g) ==
  /\ MapsApart(image) /\ BackedBy(image, r, f)
  /\ r.address \in Nat /\ r.width \in Nat /\ n \in 0 .. r.width - 1
  /\ a = r.address + n /\ g = f + n

\* Segments that do not meet put one byte of the file at an address.
LEMMA BackedByteAt ==
  ASSUME NEW image, NEW r, NEW f, NEW n, NEW a, NEW g, BackedByte(image, r, f, n, a, g)
  PROVE  FilesAt(image, a) = {g}
<1> USE DEF MapsApart
<1>1. /\ MapsApart(image) /\ r.address \in Nat /\ r.width \in Nat /\ n \in 0 .. r.width - 1
      /\ a = r.address + n /\ g = f + n /\ a \in Nat
  BY DEF BackedByte
<1> PICK i \in Kinds(image, {"segment"}) : LET s == image.commands[i] IN
      /\ s.address <= r.address /\ r.address + r.width <= s.address + s.file.size
      /\ f = s.file.offset + (r.address - s.address)
  BY DEF BackedByte, BackedBy, Segments
<1> PICK s : s = image.commands[i]
  OBVIOUS
<1>2. /\ SegmentOK(s) /\ s \in Segments(image)
      /\ s.address <= r.address /\ r.address + r.width <= s.address + s.file.size
      /\ f = s.file.offset + (r.address - s.address)
  BY <1>1 DEF Segments
<1>3. /\ s.address \in Nat /\ s.memory \in Nat /\ s.file.size \in Nat /\ s.file.offset \in Nat
      /\ s.file.size <= s.memory
  BY <1>2 DEF SegmentOK
<1>4. /\ s.address <= a /\ a < s.address + s.file.size
      /\ s.file.offset + (a - s.address) = g
  BY ONLY <1>1, <1>2, <1>3
<1>5. \A t \in Segments(image) : t.address <= a /\ a < t.address + t.file.size => t = s
  <2> TAKE t \in Segments(image)
  <2> HAVE t.address <= a /\ a < t.address + t.file.size
  <2>1. PICK j \in Kinds(image, {"segment"}) : t = image.commands[j]
    BY DEF Segments
  <2>2. SegmentOK(t)
    BY <1>1, <2>1
  <2>3. /\ t.address \in Nat /\ t.memory \in Nat /\ t.file.size \in Nat
        /\ t.file.size <= t.memory
    BY <2>2 DEF SegmentOK
  <2>4. Meets(Memory(s), Memory(t))
    <3>1. /\ s.memory # 0 /\ t.memory # 0
          /\ s.address < t.address + t.memory /\ t.address < s.address + s.memory
      BY ONLY <1>1, <1>3, <1>4, <2>3, t.address <= a, a < t.address + t.file.size
    <3> QED  BY <3>1 DEF Meets, Memory, FileRange, Limit
  <2>5. i = j
    BY <1>1, <2>1, <2>4 DEF Disjoint
  <2> QED  BY <2>1, <2>5
<1>6. {t \in Segments(image) : t.address <= a /\ a < t.address + t.file.size} = {s}
  BY <1>2, <1>4, <1>5
<1>7. FilesAt(image, a) = {s.file.offset + (a - s.address)}
  BY <1>6 DEF FilesAt
<1> QED  BY <1>4, <1>7

LEMMA RecordFields ==
  ASSUME AuditOK, NEW i \in DOMAIN audit.records
  PROVE  LET r == audit.records[i] IN
         /\ r \in AuditRecords /\ i \in Nat
         /\ r.image \in Images /\ r.width \in {1, 2, 4, 8} /\ r.mechanism \in Mechanisms
<1>1. audit.records \in Seq(AuditRecords)
  BY DEF AuditOK, Audits
<1>2. audit.records[i] \in AuditRecords /\ i \in Nat
  BY <1>1
<1> QED  BY <1>2 DEF AuditRecords, ClassicRecords, ChainRecords, Mechanisms

\* What a record says of its word holds for each byte of it.
LEMMA RecordTells ==
  ASSUME AuditInv, audit # None, NEW i \in DOMAIN audit.records,
         audit.records[i].file # {}
  PROVE  LET r == audit.records[i] IN
         /\ r.address \in Nat
         /\ \A f \in r.file, n \in 0 .. r.width - 1 :
              /\ FilesAt(Outer, r.address + n) = {f + n}
              /\ FilesAt(ImageOf(r.image), r.address + n) = {f + n}
<1>1. AuditOK /\ Accepted /\ file \in Files
  BY DEF AuditInv
<1> PICK r : r = audit.records[i]
  OBVIOUS
<1>2. r.image \in Images /\ r.width \in Nat
  BY <1>1, RecordFields
<1>3. RecordOK(r)
  BY <1>1 DEF AuditOK
<1>4. r.address \in Nat
  BY <1>3 DEF RecordOK
<1>5. MapsApart(Outer)
  BY <1>1, FilesAreOK, OuterParsed DEF MapsApart
<1>6. MapsApart(ImageOf(r.image))
  BY <1>1, <1>2, ImagesHold DEF MapsApart
<1>7. ASSUME NEW f \in r.file, NEW n \in 0 .. r.width - 1
      PROVE  /\ FilesAt(Outer, r.address + n) = {f + n}
             /\ FilesAt(ImageOf(r.image), r.address + n) = {f + n}
  <2>1. /\ BackedByte(Outer, r, f, n, r.address + n, f + n)
        /\ BackedByte(ImageOf(r.image), r, f, n, r.address + n, f + n)
    BY <1>2, <1>3, <1>4, <1>5, <1>6 DEF RecordOK, BackedByte
  <2> QED  BY <2>1, BackedByteAt
<1> QED  BY <1>4, <1>7

\* No two words of an audit without issues share a byte.
LEMMA CleanWordsAreApart ==
  ASSUME AuditInv, Audited, audit.issues = <<>>,
         NEW i \in DOMAIN audit.records, NEW j \in DOMAIN audit.records, i # j
  PROVE  WriteBytes(audit.records[i]) \cap WriteBytes(audit.records[j]) = {}
<1>1. AuditOK /\ Unswept = {}
  BY DEF AuditInv, Audited
<1>2. i \in Writes(audit.records) /\ j \in Writes(audit.records)
  BY <1>1 DEF AuditOK, CleanOK, Writes
<1>3. \A k \in Writes(audit.records) : TellsOverlaps(k)
  BY <1>1 DEF AuditOK, ReportsOK, Unswept
<1>4. \A k, c : ~ Reported(k, c)
  <2>1. DOMAIN audit.issues = {}
    OBVIOUS
  <2> QED  BY <2>1 DEF Reported
<1>5. \A k \in Writes(audit.records) : \A m \in Mechanisms : ~ SharesWith(k, m)
  BY <1>3, <1>4 DEF TellsOverlaps
<1>6. audit.records[i].mechanism \in Mechanisms /\ audit.records[j].mechanism \in Mechanisms
  BY <1>1, <1>2, WritesHold
<1>7. CASE Before(audit.records, i, j)
  BY <1>2, <1>5, <1>6, <1>7 DEF SharesWith
<1>8. CASE Before(audit.records, j, i)
  BY <1>2, <1>5, <1>6, <1>8 DEF SharesWith
<1> QED  BY <1>1, <1>2, <1>7, <1>8, SweepOrders

\* CleanWritesAreBacked for every collection and every limit: where an audit
\* without issues says a word is, it is, a chained word starts in the page it
\* names, and every chain was followed to its end.
THEOREM CleanAuditsAreBacked == Spec => []CleanWritesAreBacked
<1>1. AuditInv => CleanWritesAreBacked
  <2>1. SUFFICES ASSUME AuditInv, Audited, audit.issues = <<>>
                 PROVE  /\ \A i \in DOMAIN audit.records : LET r == audit.records[i] IN
                             /\ \A n \in 0 .. r.width - 1 :
                                  /\ FilesAt(Outer, r.address + n) = {f + n : f \in r.file}
                                  /\ FilesAt(ImageOf(r.image), r.address + n)
                                       = {f + n : f \in r.file}
                             /\ r.mechanism = "chain" =>
                                  StartsInItsPage(ImageOf(r.image), r)
                             /\ \A j \in DOMAIN audit.records :
                                  i # j => WriteBytes(r) \cap WriteBytes(audit.records[j]) = {}
                        /\ audit.ended = audit.starts
    BY DEF CleanWritesAreBacked
  <2>2. audit # None /\ AuditOK /\ audit.at > Len(audit.todo)
    BY <2>1 DEF AuditInv, Audited
  <2>3. ASSUME NEW i \in DOMAIN audit.records, NEW n \in 0 .. audit.records[i].width - 1
        PROVE  LET r == audit.records[i] IN
               /\ FilesAt(Outer, r.address + n) = {f + n : f \in r.file}
               /\ FilesAt(ImageOf(r.image), r.address + n) = {f + n : f \in r.file}
    <3> PICK r : r = audit.records[i]
      OBVIOUS
    <3>1. r.file # {} /\ AuditInv /\ audit # None /\ n \in 0 .. r.width - 1
      BY <2>1, <2>2 DEF AuditOK, CleanOK
    <3>2. \A f \in r.file : /\ FilesAt(Outer, r.address + n) = {f + n}
                            /\ FilesAt(ImageOf(r.image), r.address + n) = {f + n}
      BY ONLY <3>1, r = audit.records[i], i \in DOMAIN audit.records, RecordTells
    <3> QED  BY <3>1, <3>2
  <2>4. audit.ended = audit.starts
    <3>1. audit.word = None
      <4>1. audit.at \in Nat /\ audit.todo \in Seq(AuditSteps)
        BY <2>2 DEF AuditOK, Audits
      <4>2. audit.at \notin DOMAIN audit.todo
        BY <2>2, <4>1
      <4> QED  BY <2>2, <4>2 DEF AuditOK, ChainOK
    <3>2. audit.starts = audit.ended + 0 /\ audit.ended \in Nat
      BY <2>1, <2>2, <3>1 DEF AuditOK, CleanOK, Audits
    <3> QED  BY <3>2
  <2>5. ASSUME NEW i \in DOMAIN audit.records, audit.records[i].mechanism = "chain"
        PROVE  StartsInItsPage(ImageOf(audit.records[i].image), audit.records[i])
    BY <2>2, <2>5 DEF AuditOK, RecordOK
  <2> QED  BY <2>1, <2>3, <2>4, <2>5, CleanWordsAreApart
<1> QED  BY <1>1, AuditFitsTogether, PTL

-----------------------------------------------------------------------------
(* What a plan is made of *)

\* A plan was made of a clean audit whose words passed every check, and neither
\* the audit nor the plan changes after that.
PlanOK ==
  /\ verdict = "Ok" /\ audit # None /\ audit.issues = <<>>
  /\ Nonempty # {}
  /\ Cardinality(MembersOfType("execute")) = 1
  /\ Classic # {}
  /\ \E slide \in Slides : \A i \in Classic : WordCheck(audit.records[i], slide) = "Ok"
  /\ plan.words \in Sorted(Words) /\ ~ Crowded(plan.words)
  /\ plan.segments \in Sorted(OuterMappings)
  /\ plan.base = Base /\ plan.size = ArenaSize

Planning ==
  /\ AuditInv
  /\ plan # None => PlanOK

\* The checks of a word depend on the file alone.
LEMMA ChecksFixed ==
  ASSUME file' = file
  PROVE  /\ Kernel' = Kernel
         /\ MembersOfType("execute")' = MembersOfType("execute")
         /\ \A r, slide : WordCheck(r, slide)' = WordCheck(r, slide)
<1>1. /\ Base' = Base /\ ArenaSize' = ArenaSize /\ Images' = Images
      /\ \A i : ImageOf(i)' = ImageOf(i)
      /\ \A k : MemberImage(k)' = MemberImage(k)
  BY FileFixed, TypesFixed
<1>2. \A type : MembersOfType(type)' = MembersOfType(type)
  BY DEF MembersOfType, Members, MemberImage, Outer, Kinds
<1>3. Kernel' = Kernel
  BY <1>1, <1>2 DEF Kernel
<1>4. \A r : KernelHolds(r)' = KernelHolds(r)
  BY <1>3 DEF KernelHolds
<1>5. \A i : BaseOf(i)' = BaseOf(i)
  BY DEF BaseOf, Outer
<1>6. \A i : HeaderOf(i)' = HeaderOf(i) /\ HeaderMemory(i)' = HeaderMemory(i)
  BY <1>1, <1>5 DEF HeaderOf, HeaderMemory
<1>7. \A r : WritesHeader(r)' = WritesHeader(r)
  BY <1>1, <1>6 DEF WritesHeader
<1>8. \A offset : StoredValue(offset)' = StoredValue(offset)
  BY DEF StoredValue
<1>9. \A r, slide : WordCheck(r, slide)' = WordCheck(r, slide)
  BY <1>1, <1>4, <1>7, <1>8 DEF WordCheck
<1> QED  BY <1>2, <1>3, <1>9

LEMMA PlanFixed ==
  ASSUME file' = file, audit' = audit, verdict' = verdict, plan' = plan
  PROVE  PlanOK' <=> PlanOK
<1>1. /\ Base' = Base /\ ArenaSize' = ArenaSize /\ OuterMappings' = OuterMappings
      /\ Nonempty' = Nonempty
  BY FileFixed
<1>2. Classic' = Classic
  BY DEF Classic
<1>3. \A i : WordOf(i)' = WordOf(i)
  BY <1>1 DEF WordOf
<1>4. Words' = Words
  BY <1>2, <1>3 DEF Words
<1>5. \A slide : \A i \in Classic :
        (WordCheck(audit.records[i], slide) = "Ok")' <=> WordCheck(audit.records[i], slide) = "Ok"
  <2> TAKE slide
  <2> TAKE i \in Classic
  <2> PICK r : r = audit.records[i]
    OBVIOUS
  <2>1. WordCheck(r, slide)' = WordCheck(r, slide)
    BY ChecksFixed
  <2> QED  BY <2>1
<1>6. MembersOfType("execute")' = MembersOfType("execute")
  BY ChecksFixed
<1> QED  BY <1>1, <1>2, <1>4, <1>5, <1>6 DEF PlanOK

\* new() returns a plan only if everything it checked holds.
LEMMA NewPlanHolds ==
  ASSUME AuditInv, NEW slide \in Slides, NewPlan(slide), plan' # None
  PROVE  PlanOK'
<1>1. /\ plan = None /\ audit' = audit /\ verdict' = verdict /\ file' = file
      /\ RebaseCheck(slide) = "Ok"
      /\ \E words \in Sorted(Words), segments \in Sorted(OuterMappings) :
           /\ ~ Crowded(words)
           /\ plan' = [words |-> words, segments |-> segments,
                       base |-> Base, size |-> ArenaSize]
  <2>1. RebaseCheck(slide) = "Ok"
    BY DEF NewPlan
  <2> QED  BY <2>1 DEF NewPlan, collectionVars, auditVars
<1>2. /\ PlanCheck = "Ok" /\ verdict = "Ok"
      /\ Cardinality(MembersOfType("execute")) = 1
      /\ audit.issues = <<>> /\ Classic # {}
      /\ FirstError([i \in Classic |-> WordCheck(audit.records[i], slide)]) = "Ok"
  BY <1>1 DEF RebaseCheck
<1>3. audit # None /\ AuditOK
  BY <1>2 DEF AuditInv
<1>4. \A i \in Classic : WordCheck(audit.records[i], slide) = "Ok"
  <2> DEFINE checks == [i \in Classic |-> WordCheck(audit.records[i], slide)]
  <2>1. audit.records \in Seq(AuditRecords)
    BY <1>3 DEF AuditOK, Audits
  <2>2. Classic \subseteq Nat
    BY <2>1 DEF Classic
  <2>3. DOMAIN checks \subseteq Nat /\ FirstError(checks) = "Ok"
    BY <1>2, <2>2
  <2>4. \A i \in Classic : checks[i] = WordCheck(audit.records[i], slide)
    OBVIOUS
  <2>5. DOMAIN checks = Classic
    OBVIOUS
  <2> HIDE DEF checks
  <2>6. \A i \in DOMAIN checks : checks[i] = "Ok"
    BY <2>3, NothingFailed
  <2> QED  BY <2>4, <2>5, <2>6
<1>5. Nonempty # {}
  BY <1>2 DEF PlanCheck
<1>6. /\ Base' = Base /\ ArenaSize' = ArenaSize /\ OuterMappings' = OuterMappings
      /\ Nonempty' = Nonempty
  BY <1>1, FileFixed
<1>7. Classic' = Classic
  BY <1>1 DEF Classic
<1>8. \A i : WordOf(i)' = WordOf(i)
  BY <1>1, <1>6 DEF WordOf
<1>9. Words' = Words
  BY <1>7, <1>8 DEF Words
<1>10. (\A i \in Classic : WordCheck(audit.records[i], slide) = "Ok")'
  <2>1. \A r : WordCheck(r, slide)' = WordCheck(r, slide)
    BY <1>1, ChecksFixed
  <2> QED  BY <1>1, <1>4, <1>7, <2>1
<1>11. MembersOfType("execute")' = MembersOfType("execute")
  BY <1>1, ChecksFixed
<1>12. /\ plan'.words \in Sorted(Words') /\ ~ Crowded(plan'.words)
       /\ plan'.segments \in Sorted(OuterMappings') /\ plan'.base = Base' /\ plan'.size = ArenaSize'
  BY <1>1, <1>6, <1>9
<1> QED  BY <1>1, <1>2, <1>3, <1>5, <1>6, <1>7, <1>10, <1>11, <1>12 DEF PlanOK

\* With a plan there, every step leaves file and audit alone, and keeps the plan
\* or drops it.
LEMMA PlanStays ==
  ASSUME Planning, plan # None, [Next]_vars
  PROVE  /\ file' = file /\ audit' = audit /\ verdict' = verdict
         /\ plan' = plan \/ plan' = None
         /\ ~ AuditNext /\ \A slide \in Slides : ~ NewPlan(slide)
<1>1. verdict = "Ok" /\ verdict # None
  BY OptionAssumption DEF Planning, PlanOK
<1>2. ~ AuditNext
  BY <1>1 DEF AuditNext, BeginAudit, AuditEntry, AuditIssue, CountPage, BeginChain,
       AuditWordOutside, AuditWord, SweepWord, Finish, AtStep, Running
<1>3. \A slide \in Slides : ~ NewPlan(slide)
  BY DEF NewPlan
<1>4. CASE Next
  BY <1>2, <1>3, <1>4 DEF Next, Apply, WriteWord, WalkWord, WalkStretch, WalkEnd, Verify, Disturb,
       Mismatch, collectionVars, auditVars
<1>5. CASE UNCHANGED vars
  BY <1>2, <1>3, <1>5 DEF vars, collectionVars, auditVars, rebaseVars
<1> QED  BY <1>2, <1>3, <1>4, <1>5

LEMMA PlanningKeeps ==
  ASSUME Planning, [Next]_vars
  PROVE  Planning'
<1>1. AuditInv'
  BY AuditKeeps DEF Planning
<1>2. ASSUME plan # None, plan' # None
      PROVE  PlanOK'
  BY <1>2, PlanStays, PlanFixed DEF Planning
<1>3. ASSUME plan = None, plan' # None
      PROVE  PlanOK'
  <2>1. CASE AuditNext /\ UNCHANGED rebaseVars
    BY <1>3, <2>1 DEF rebaseVars
  <2>2. ASSUME NEW slide \in Slides, NewPlan(slide)
        PROVE  PlanOK'
    BY <1>3, <2>2, NewPlanHolds DEF Planning
  <2>3. CASE Apply \/ WriteWord \/ WalkWord \/ WalkStretch \/ WalkEnd
    BY <1>3, <2>3 DEF Apply, WriteWord, WalkWord, WalkStretch, WalkEnd, Mismatch
  <2>4. ASSUME NEW n, Verify(n)
        PROVE  FALSE
    BY <1>3, <2>4 DEF Verify
  <2>5. ASSUME NEW o, Disturb(o)
        PROVE  FALSE
    BY <1>3, <2>5 DEF Disturb
  <2>6. CASE UNCHANGED vars
    BY <1>3, <2>6 DEF vars, rebaseVars
  <2> QED  BY <2>1, <2>2, <2>3, <2>4, <2>5, <2>6 DEF Next
<1> QED  BY <1>1, <1>2, <1>3 DEF Planning

LEMMA PlanningHolds == Spec => []Planning
<1>1. Init => Planning
  BY OptionAssumption DEF Init, AuditInit, CollectionInit, AuditInv, Planning
<1> QED  BY <1>1, PlanningKeeps, PTL DEF Spec

-----------------------------------------------------------------------------
(* The words of a plan *)

\* What new() has checked of each classic word.
LEMMA ClassicTells ==
  ASSUME AuditInv, PlanOK, NEW i \in Classic
  PROVE  LET r == audit.records[i] IN
         /\ i \in DOMAIN audit.records /\ i \in Nat
         /\ r.mechanism = "classic" /\ r.owner = {"execute"}
         /\ r.address \in Nat /\ r.width \in {1, 2, 4, 8}
         /\ FileOf(r) \in r.file /\ FileOf(r) \in Int
         /\ KernelHolds(r) /\ ~ WritesHeader(r)
         /\ Base <= r.address /\ r.address - Base + r.width <= ArenaSize
<1> PICK r : r = audit.records[i]
  OBVIOUS
<1>1. AuditOK
  BY DEF PlanOK, AuditInv
<1>2. i \in DOMAIN audit.records /\ r.mechanism = "classic"
  BY DEF Classic
<1>3. i \in Nat /\ r.width \in {1, 2, 4, 8} /\ r \in AuditRecords
  BY <1>1, <1>2, RecordFields
<1>4. r.file \subseteq Int
  BY <1>3 DEF AuditRecords, ClassicRecords, ChainRecords
<1>5. PICK slide \in Slides : WordCheck(r, slide) = "Ok"
  BY DEF PlanOK
<1>6. Supported(r) /\ r.address # None /\ r.file # {}
  BY <1>5 DEF WordCheck
<1>7. FileOf(r) \in r.file /\ FileOf(r) \in Int
  BY <1>4, <1>6 DEF FileOf
<1>8. r.address \in Nat
  BY <1>1, <1>2, <1>6 DEF AuditOK, RecordOK
<1> DEFINE after == StoredValue(FileOf(r)) + slide
           offset == r.address - Base
           rules == <<
             <<~ KernelHolds(r),                          "OutsideKernelFileMapping">>,
             <<WritesHeader(r),                           "HeaderWrite">>,
             <<after > MaxAddress,                        "ValueOverflow">>,
             <<r.width = 4 /\ after > MaxHalf,            "ValueOverflow">>,
             <<offset < 0,                                "AddressOverflow">>,
             <<offset + r.width > ArenaSize,              "OutsideKernelFileMapping">> >>
<1>9. FirstRefusal(rules) = "Ok"
  BY <1>5, <1>6 DEF WordCheck
<1>10. \A n \in DOMAIN rules : ~ rules[n][1]
  <2>1. DOMAIN rules = 1 .. 6
    OBVIOUS
  <2>2. \A n \in 1 .. 6 : rules[n][2] # "Ok"
    OBVIOUS
  <2> HIDE DEF rules
  <2>3. DOMAIN rules \subseteq Nat /\ \A n \in DOMAIN rules : rules[n][1] => rules[n][2] # "Ok"
    BY <2>1, <2>2
  <2> QED  BY <1>9, <2>3, NothingRefused
<1>11. KernelHolds(r) /\ ~ WritesHeader(r)
  <2>1. 1 \in DOMAIN rules /\ 2 \in DOMAIN rules
    OBVIOUS
  <2>2. (rules[1][1] <=> ~ KernelHolds(r)) /\ (rules[2][1] <=> WritesHeader(r))
    OBVIOUS
  <2> HIDE DEF rules
  <2> QED  BY <1>10, <2>1, <2>2
<1>12. Base \in Nat /\ ArenaSize \in Nat
  BY FilesAreOK, ArenaSpans DEF PlanOK, AuditInv
<1>13. ~ (offset < 0) /\ ~ (offset + r.width > ArenaSize)
  <2>1. 5 \in DOMAIN rules /\ 6 \in DOMAIN rules
    OBVIOUS
  <2>2. (rules[5][1] <=> offset < 0) /\ (rules[6][1] <=> offset + r.width > ArenaSize)
    OBVIOUS
  <2> HIDE DEF rules
  <2> QED  BY <1>10, <2>1, <2>2
<1>14. Base <= r.address /\ r.address - Base + r.width <= ArenaSize
  BY ONLY <1>3, <1>8, <1>12, <1>13
<1>15. r.owner = {"execute"}
  BY <1>6 DEF Supported
<1> QED  BY <1>2, <1>3, <1>7, <1>8, <1>11, <1>14, <1>15

\* Each byte of a classic word is the kernel's own, and nothing else's.
LEMMA ClassicIsTheKernels ==
  ASSUME AuditInv, PlanOK, NEW i \in Classic, NEW a \in WriteBytes(audit.records[i])
  PROVE  /\ FilesAt(Kernel, a) = FilesAt(Outer, a)
         /\ FilesAt(Kernel, a) # {}
         /\ \A k \in MembersOfType("kext") : ~ MappedBy(MemberImage(k), a)
         /\ \A m \in Images :
              a \notin Bytes(HeaderMemory(m).offset, Limit(HeaderMemory(m)))
         /\ \A j \in DOMAIN audit.records :
              audit.records[j].mechanism = "chain" => a \notin WriteBytes(audit.records[j])
<1> PICK r : r = audit.records[i]
  OBVIOUS
<1> PICK f : f = FileOf(r)
  OBVIOUS
<1>1. /\ AuditOK /\ Accepted /\ FileOK /\ file \in Files /\ audit # None /\ Audited
      /\ audit.issues = <<>>
  BY FilesAreOK DEF PlanOK, AuditInv, Audited
<1>2. /\ i \in DOMAIN audit.records /\ r.mechanism = "classic" /\ r.owner = {"execute"}
      /\ r.address \in Nat /\ r.width \in {1, 2, 4, 8} /\ r.width \in Nat /\ f \in r.file
      /\ KernelHolds(r) /\ ~ WritesHeader(r)
  BY ClassicTells
<1>3. a \in Nat /\ r.address <= a /\ a < r.address + r.width
  BY <1>2 DEF WriteBytes, WriteEnd
<1> PICK n \in 0 .. r.width - 1 : a = r.address + n
  <2>1. a - r.address \in 0 .. r.width - 1 /\ a = r.address + (a - r.address)
    BY ONLY <1>2, <1>3
  <2> QED  BY <2>1
<1>4. FilesAt(Outer, a) = {f + n}
  BY <1>1, <1>2, RecordTells
<1>5. FilesAt(Kernel, a) = {f + n}
  <2>1. MembersOfType("execute") # {}
    <3>1. Cardinality(MembersOfType("execute")) = 1
      BY DEF PlanOK
    <3>2. Cardinality({}) = 0
      BY FS_EmptySet
    <3> QED  BY <3>1, <3>2
  <2>2. PICK k \in MembersOfType("execute") : Kernel = MemberImage(k)
    BY <2>1 DEF Kernel
  <2>3. k \in Images /\ k # 0 /\ MemberImage(k) = ImageOf(k)
    <3>1. k \in Members
      BY DEF MembersOfType
    <3>2. k \in DOMAIN Outer.commands /\ Outer.commands \in Seq(Commands)
      BY <1>1, <3>1, OuterParsed DEF Members, Kinds, FileOK, Outer
    <3> QED  BY <3>1, <3>2 DEF Images, MemberImage, ImageOf, BaseOf
  <2>4. MapsApart(Kernel)
    BY <1>1, <2>2, <2>3, ImagesHold DEF MapsApart
  <2>5. BackedBy(Kernel, r, f)
    BY <1>2 DEF KernelHolds, BackedBy, WriteEnd
  <2>6. BackedByte(Kernel, r, f, n, a, f + n)
    BY <1>2, <2>4, <2>5 DEF BackedByte
  <2> QED  BY <2>6, BackedByteAt
<1>6. ASSUME NEW k \in MembersOfType("kext")
      PROVE  ~ MappedBy(MemberImage(k), a)
  <2>1. r.owner = Owner(r.address, r.width)
    BY <1>1, <1>2 DEF AuditOK, RecordOK
  <2>2. ~ Touches("kext", FileRange(r.address, r.width))
    <3>1. Owner(r.address, r.width) = {"execute"}
      BY <1>2, <2>1
    <3>2. "kext" \notin Owner(r.address, r.width) /\ "execute" \in Owner(r.address, r.width)
      BY <3>1
    <3> QED  BY ONLY <3>2 DEF Owner
  <2>3. SUFFICES ASSUME NEW s \in Segments(MemberImage(k)),
                        s.address <= a, a < s.address + s.memory
                 PROVE  FALSE
    BY DEF MappedBy, Memory, Limit, FileRange
  <2>4. s.address \in Nat /\ s.memory \in Nat
    <3>1. k \in Members
      BY DEF MembersOfType
    <3> QED  BY <1>1, <3>1, MemberParsed DEF Segments, SegmentOK
  <2>5. Meets(Memory(s), FileRange(r.address, r.width))
    <3>1. /\ s.memory # 0 /\ r.width # 0
          /\ s.address < r.address + r.width /\ r.address < s.address + s.memory
      BY ONLY <1>2, <1>3, <2>3, <2>4
    <3> QED  BY <3>1 DEF Meets, Memory, FileRange, Limit
  <2> QED  BY <2>2, <2>5 DEF Touches
<1>7. ASSUME NEW m \in Images
      PROVE  a \notin Bytes(HeaderMemory(m).offset, Limit(HeaderMemory(m)))
  <2> PICK x : x = HeaderAddress(ImageOf(m), BaseOf(m))
    OBVIOUS
  <2> PICK size : size = HeaderSize(ImageOf(m))
    OBVIOUS
  <2>1. x \in Nat /\ size \in Nat
    <3>1. CASE m = 0
      <4>1. ImageOf(m) = Outer /\ BaseOf(m) = 0
        BY <3>1 DEF ImageOf, BaseOf, Outer
      <4> QED  BY <1>1, <4>1, HeaderFits, OuterParsed
    <3>2. CASE m # 0
      <4>1. m \in Members /\ ImageOf(m) = MemberImage(m) /\ BaseOf(m) = Outer.commands[m].offset
        BY <3>2 DEF Images, ImageOf, BaseOf, MemberImage
      <4> QED  BY <1>1, <4>1, MemberParsed
    <3> QED  BY <3>1, <3>2
  <2>2. HeaderMemory(m) = FileRange(x, size)
    BY DEF HeaderMemory
  <2>3. ~ Meets(FileRange(r.address, r.width), FileRange(x, size))
    BY <1>2, <2>2 DEF WritesHeader
  <2>4. ~ (x <= a /\ a < x + size)
    <3>1. SUFFICES ASSUME x <= a, a < x + size
                   PROVE  FALSE
      OBVIOUS
    <3>2. /\ size # 0 /\ r.width # 0 /\ r.address < x + size /\ x < r.address + r.width
      BY ONLY <1>2, <1>3, <2>1, <3>1
    <3> QED  BY <2>3, <3>2 DEF Meets, FileRange, Limit
  <2>5. a \notin x .. (x + size) - 1
    BY ONLY <1>3, <2>1, <2>4
  <2> QED  BY <2>2, <2>5 DEF Bytes, FileRange, Limit
<1>8. ASSUME NEW j \in DOMAIN audit.records, audit.records[j].mechanism = "chain"
      PROVE  a \notin WriteBytes(audit.records[j])
  <2>1. i # j
    BY <1>2, <1>8
  <2> QED  BY <1>1, <1>2, <1>8, <2>1, CleanWordsAreApart
<1> QED  BY <1>4, <1>5, <1>6, <1>7, <1>8

\* A plan has a word for each classic record, and they stand one behind the other.
WordsOK(q) ==
  /\ Enumerates(q, Words)
  /\ Len(q) = Cardinality(Classic)
  /\ \A n \in 1 .. Len(q) :
       /\ q[n].offset \in Nat /\ q[n].width \in Nat \ {0} /\ q[n].source \in Int
       /\ q[n].offset + q[n].width <= ArenaSize
       /\ \A m \in 1 .. Len(q) : n < m => q[n].offset + q[n].width <= q[m].offset

LEMMA WordsFinite ==
  ASSUME AuditInv, PlanOK
  PROVE  /\ IsFiniteSet(Words)
         /\ \A q \in SetToSeqs(Words) : Len(q) = Cardinality(Classic)
<1>1. audit.records \in Seq(AuditRecords)
  BY DEF PlanOK, AuditInv, AuditOK, Audits
<1>2. IsFiniteSet(Classic)
  <2> PICK n : n = Len(audit.records)
    OBVIOUS
  <2>1. n \in Nat /\ Classic \subseteq 1 .. n
    BY <1>1 DEF Classic
  <2>2. IsFiniteSet(1 .. n)
    BY <2>1, FS_Interval
  <2> QED  BY <2>1, <2>2, FS_Subset
<1> DEFINE g == [i \in Classic |-> WordOf(i)]
<1>3. g \in [Classic -> Words] /\ \A w \in Words : \E i \in Classic : g[i] = w
  BY DEF Words
<1>4. \A i, j \in Classic : g[i] = g[j] => i = j
  BY DEF WordOf
<1> HIDE DEF g
<1>5. g \in Bijection(Classic, Words)
  BY <1>3, <1>4 DEF Bijection, Surjection, Injection, IsInjective
<1>6. IsFiniteSet(Words) /\ Cardinality(Words) = Cardinality(Classic)
  <2>1. ExistsBijection(Classic, Words)
    BY <1>5 DEF ExistsBijection
  <2> QED  BY <1>2, <2>1, FS_Bijection
<1>7. ASSUME NEW q \in SetToSeqs(Words)
      PROVE  Len(q) = Cardinality(Classic)
  <2> PICK N : N = Cardinality(Words)
    OBVIOUS
  <2>1. N \in Nat
    BY <1>6, FS_CardinalityType
  <2>2. q \in [1 .. N -> Words]
    BY DEF SetToSeqs
  <2> QED  BY <1>6, <2>1, <2>2
<1> QED  BY <1>6, <1>7

LEMMA WordFields ==
  ASSUME AuditInv, PlanOK, NEW w \in Words
  PROVE  /\ w.offset \in Nat /\ w.width \in Nat \ {0} /\ w.source \in Int
         /\ w.offset + w.width <= ArenaSize
<1>1. PICK i \in Classic : w = WordOf(i)
  BY DEF Words
<1> PICK r : r = audit.records[i]
  OBVIOUS
<1>2. /\ w.offset = r.address - Base /\ w.width = r.width /\ w.source = FileOf(r)
  BY <1>1 DEF WordOf
<1>3. /\ r.address \in Nat /\ r.width \in {1, 2, 4, 8} /\ FileOf(r) \in Int
      /\ Base <= r.address /\ r.address - Base + r.width <= ArenaSize
  BY ClassicTells
<1>4. Base \in Nat
  BY FilesAreOK, ArenaSpans DEF PlanOK, AuditInv
<1> QED  BY <1>2, <1>3, <1>4

LEMMA PlanWordsHold ==
  ASSUME AuditInv, PlanOK
  PROVE  WordsOK(plan.words)
<1> PICK q : q = plan.words
  OBVIOUS
<1>1. /\ q \in SetToSeqs(Words) /\ ~ Crowded(q)
      /\ \A i, j \in DOMAIN q : i < j => q[i].offset <= q[j].offset
  BY DEF PlanOK, Sorted
<1>2. Enumerates(q, Words) /\ Len(q) = Cardinality(Classic)
  BY <1>1, WordsFinite, SetToSeqsEnumerates
<1>3. \A n \in 1 .. Len(q) :
        /\ q[n].offset \in Nat /\ q[n].width \in Nat \ {0} /\ q[n].source \in Int
        /\ q[n].offset + q[n].width <= ArenaSize
  BY <1>2, WordFields DEF Enumerates
<1>4. ASSUME NEW n \in 1 .. Len(q), NEW m \in 1 .. Len(q), n < m
      PROVE  q[n].offset + q[n].width <= q[m].offset
  <2>1. Len(q) \in Nat /\ DOMAIN q = 1 .. Len(q)
    BY <1>2 DEF Enumerates
  <2> PICK k : k = n + 1
    OBVIOUS
  <2>2. n \in 1 .. Len(q) - 1 /\ k \in 1 .. Len(q) /\ (k = m \/ k < m)
    BY <1>4, <2>1
  <2>3. ~ (q[n].offset + q[n].width > q[k].offset)
    BY <1>1, <2>2 DEF Crowded
  <2>4. /\ q[n].offset \in Nat /\ q[n].width \in Nat /\ q[k].offset \in Nat
        /\ q[m].offset \in Nat
    BY <1>3, <2>2
  <2>5. q[k].offset <= q[m].offset
    <3>1. CASE k = m
      BY <2>4, <3>1
    <3>2. CASE k < m
      BY <1>1, <2>1, <2>2, <3>2
    <3> QED  BY <2>2, <3>1, <3>2
  <2> QED  BY <2>3, <2>4, <2>5
<1> QED  BY <1>2, <1>3, <1>4 DEF WordsOK

\* WordsAreTheKernels for every collection: a plan rewrites every classic word,
\* and each byte of one is the kernel's own, in the file and in memory.
THEOREM PlansAreTheKernels == Spec => []WordsAreTheKernels
<1>1. Planning => WordsAreTheKernels
  <2>1. SUFFICES ASSUME Planning, plan # None
                 PROVE  /\ Len(plan.words) = Cardinality(Classic)
                        /\ \A i \in Classic : \A a \in WriteBytes(audit.records[i]) :
                             /\ FilesAt(Kernel, a) = FilesAt(Outer, a)
                             /\ FilesAt(Kernel, a) # {}
                             /\ \A k \in MembersOfType("kext") : ~ MappedBy(MemberImage(k), a)
                             /\ \A m \in Images :
                                  a \notin Bytes(HeaderMemory(m).offset, Limit(HeaderMemory(m)))
                             /\ \A j \in DOMAIN audit.records :
                                  audit.records[j].mechanism = "chain" =>
                                    a \notin WriteBytes(audit.records[j])
    BY DEF WordsAreTheKernels
  <2>2. AuditInv /\ PlanOK
    BY <2>1 DEF Planning
  <2>3. Len(plan.words) = Cardinality(Classic)
    BY <2>2, PlanWordsHold DEF WordsOK
  <2> QED  BY <2>2, <2>3, ClassicIsTheKernels
<1> QED  BY <1>1, PlanningHolds, PTL

-----------------------------------------------------------------------------
(* What the arena of a rebase holds *)

Covers(w, o) == w.offset <= o /\ o < w.offset + w.width

InFile(s, o) == s.offset <= o /\ o < s.offset + s.size

\* The arena is staged from the file part of the mapping an offset lies in.
LEMMA StagedTells ==
  ASSUME AuditInv, PlanOK, NEW o \in Nat
  PROVE  /\ \A s \in OuterMappings : InFile(s, o) =>
              Staged(o) = Content(s.source + (o - s.offset))
         /\ (\A s \in OuterMappings : ~ InFile(s, o)) => Staged(o) = 0
<1>1. FileOK /\ Accepted /\ Nonempty # {} /\ plan.base = Base
  BY FilesAreOK DEF PlanOK, AuditInv
<1> PICK at : at = FilesAt(Outer, Base + o)
  OBVIOUS
<1>2. Staged(o) = IF at = {} THEN 0 ELSE Content(CHOOSE f \in at : TRUE)
  BY <1>1 DEF Staged, LoadedAt
<1>3. ASSUME NEW s \in OuterMappings, InFile(s, o)
      PROVE  Staged(o) = Content(s.source + (o - s.offset))
  <2> PICK f : f = s.source + (o - s.offset)
    OBVIOUS
  <2>1. at = {f}
    BY <1>1, <1>3, MappingsTell DEF InFile
  <2>2. Staged(o) = Content(f)
    BY ONLY <1>2, <2>1
  <2> QED  BY <2>2
<1>4. ASSUME \A s \in OuterMappings : ~ InFile(s, o)
      PROVE  Staged(o) = 0
  <2>1. at = {}
    BY <1>1, <1>4, MappingsTell DEF InFile
  <2> QED  BY <1>2, <2>1
<1> QED  BY <1>3, <1>4

\* The arena should hold the shifted words of the plan, and the file elsewhere.
LEMMA ExpectedTells ==
  ASSUME AuditInv, PlanOK, NEW o \in Nat
  PROVE  /\ \A w \in Words : Covers(w, o) => Expected(o) = Shifted(w.source + (o - w.offset))
         /\ (\A w \in Words : ~ Covers(w, o)) => Expected(o) = Staged(o)
<1>1. Base \in Nat /\ plan.base = Base
  BY FilesAreOK, ArenaSpans DEF PlanOK, AuditInv
<1> PICK a \in Nat : a = Base + o
  BY <1>1
<1> DEFINE writing == {i \in Classic : a \in WriteBytes(audit.records[i])}
<1>2. Expected(o) = LET r == audit.records[CHOOSE i \in writing : TRUE]
                    IN  IF writing = {} THEN Staged(o)
                        ELSE Shifted(FileOf(r) + (a - r.address))
  BY <1>1 DEF Expected
<1>3. ASSUME NEW i \in Classic
      PROVE  /\ WordOf(i) \in Words
             /\ i \in writing <=> Covers(WordOf(i), o)
             /\ FileOf(audit.records[i]) + (a - audit.records[i].address)
                  = WordOf(i).source + (o - WordOf(i).offset)
  <2> PICK r : r = audit.records[i]
    OBVIOUS
  <2> PICK w : w = WordOf(i)
    OBVIOUS
  <2>1. r.address \in Nat /\ r.width \in Nat /\ FileOf(r) \in Int
    BY ClassicTells
  <2>2. w.offset = r.address - Base /\ w.width = r.width /\ w.source = FileOf(r)
    BY DEF WordOf
  <2>3. FileOf(r) + (a - r.address) = w.source + (o - w.offset)
    BY ONLY <1>1, <2>1, <2>2, a = Base + o, o \in Nat
  <2>4. a \in WriteBytes(r) <=> r.address <= a /\ a < r.address + r.width
    BY ONLY <2>1, a \in Nat DEF WriteBytes, WriteEnd
  <2>5. Covers(w, o) <=> r.address <= a /\ a < r.address + r.width
    BY ONLY <1>1, <2>1, <2>2, a = Base + o, o \in Nat DEF Covers
  <2>6. w \in Words
    BY DEF Words
  <2> QED  BY <2>3, <2>4, <2>5, <2>6
<1>4. \A i, j \in writing : i = j
  <2> SUFFICES ASSUME NEW i \in writing, NEW j \in writing, i # j
               PROVE  FALSE
    OBVIOUS
  <2>1. i \in DOMAIN audit.records /\ j \in DOMAIN audit.records
    BY DEF Classic
  <2>2. Audited /\ audit.issues = <<>>
    BY DEF PlanOK, Audited
  <2> QED  BY <2>1, <2>2, CleanWordsAreApart
<1>5. \A w \in Words : \E i \in Classic : w = WordOf(i)
  BY DEF Words
<1> HIDE DEF writing
<1>6. ASSUME NEW w \in Words, Covers(w, o)
      PROVE  Expected(o) = Shifted(w.source + (o - w.offset))
  <2>1. PICK i \in Classic : w = WordOf(i)
    BY <1>5
  <2>2. i \in writing
    BY <1>3, <1>6, <2>1
  <2>3. (CHOOSE j \in writing : TRUE) = i /\ writing # {}
    BY <1>4, <2>2
  <2>4. Expected(o) = Shifted(FileOf(audit.records[i]) + (a - audit.records[i].address))
    BY <1>2, <2>3
  <2> QED  BY <1>3, <2>1, <2>4
<1>7. ASSUME \A w \in Words : ~ Covers(w, o)
      PROVE  Expected(o) = Staged(o)
  <2>1. writing \subseteq Classic
    BY DEF writing
  <2>2. writing = {}
    BY <1>3, <1>7, <2>1
  <2> QED  BY <1>2, <2>2
<1> QED  BY <1>6, <1>7

LEMMA ExpectedFixed ==
  ASSUME file' = file, audit' = audit, plan' = plan
  PROVE  /\ Offsets' = Offsets
         /\ \A o : Staged(o)' = Staged(o)
         /\ \A o : Expected(o)' = Expected(o)
<1>1. \A a : LoadedAt(a)' = LoadedAt(a)
  BY DEF LoadedAt, FilesAt, Outer, Segments, Kinds
<1>2. \A o : Staged(o)' = Staged(o)
  BY <1>1 DEF Staged
<1>3. Classic' = Classic
  BY DEF Classic
<1>4. \A o : Expected(o)' = Expected(o)
  <2> TAKE o
  <2>1. Staged(o)' = Staged(o)
    BY <1>2
  <2> QED  BY <1>3, <2>1 DEF Expected
<1>5. Offsets' = Offsets
  BY DEF Offsets
<1> QED  BY <1>2, <1>4, <1>5

-----------------------------------------------------------------------------
(* The walk over words and segments *)

\* The walk is in step: what is in front of its word and its segment lies below
\* the cursor, the word and what follows it do not, and every byte below it was
\* as expected when it was read.
WalkInStep ==
  /\ call \in [step : {"walk"}, applying : BOOLEAN, cursor : Int, segment : Nat, word : Nat]
  /\ call.cursor \in 0 .. plan.size
  /\ call.segment \in 1 .. Len(plan.segments) + 1
  /\ call.word \in 1 .. Len(plan.words) + 1
  /\ \A n \in 1 .. Len(plan.words) : LET w == plan.words[n] IN
       IF n < call.word THEN w.offset + w.width <= call.cursor ELSE call.cursor <= w.offset
  /\ \A n \in 1 .. Len(plan.segments) : LET s == plan.segments[n] IN
       n < call.segment => s.offset + s.memory <= call.cursor
  /\ \A o \in 0 .. call.cursor - 1 : o \notin disturbed => bytes[o] = Expected(o)

LEMMA PlanFields ==
  ASSUME AuditInv, PlanOK
  PROVE  /\ WordsOK(plan.words) /\ InOrder(plan.segments)
         /\ Len(plan.words) \in Nat /\ Len(plan.segments) \in Nat
         /\ plan.size = ArenaSize /\ plan.size \in Nat \ {0}
<1>1. FileOK /\ Accepted /\ Nonempty # {}
  BY FilesAreOK DEF PlanOK, AuditInv
<1>2. WordsOK(plan.words)
  BY PlanWordsHold
<1>3. InOrder(plan.segments)
  BY <1>1, SortedIsInOrder DEF PlanOK
<1>4. plan.size = ArenaSize /\ ArenaSize \in Nat \ {0}
  BY <1>1, ArenaSpans DEF PlanOK
<1> QED  BY <1>2, <1>3, <1>4 DEF WordsOK, InOrder, Enumerates

\* The words in front of the walk's word end below the cursor, the others start
\* where the next word does or behind it.
LEMMA NextWordTells ==
  ASSUME AuditInv, PlanOK, WalkInStep, ~ AtWord, call.cursor < plan.size
  PROVE  /\ NextWord \in Nat /\ call.cursor < NextWord /\ NextWord <= plan.size
         /\ \A n \in 1 .. Len(plan.words) : LET w == plan.words[n] IN
              w.offset + w.width <= call.cursor \/ NextWord <= w.offset
<1> PICK q : q = plan.words
  OBVIOUS
<1> PICK c : c = call.cursor
  OBVIOUS
<1> PICK k : k = call.word
  OBVIOUS
<1> PICK size : size = plan.size
  OBVIOUS
<1>1. WordsOK(q) /\ Len(q) \in Nat /\ size = ArenaSize /\ size \in Nat
  BY PlanFields
<1>2. /\ \A n \in 1 .. Len(q) :
           /\ q[n].offset \in Nat /\ q[n].width \in Nat \ {0}
           /\ q[n].offset + q[n].width <= size
           /\ \A m \in 1 .. Len(q) : n < m => q[n].offset + q[n].width <= q[m].offset
  BY <1>1 DEF WordsOK
<1>3. /\ c \in Nat /\ c < size /\ k \in 1 .. Len(q) + 1
      /\ \A n \in 1 .. Len(q) :
           IF n < k THEN q[n].offset + q[n].width <= c ELSE c <= q[n].offset
  BY <1>1 DEF WalkInStep
<1>4. NextWord = IF k <= Len(q) THEN q[k].offset ELSE size
  BY DEF NextWord
<1>5. CASE k <= Len(q)
  <2>1. k \in 1 .. Len(q) /\ NextWord = q[k].offset
    BY <1>1, <1>3, <1>4, <1>5
  <2>2. q[k].offset # c
    BY <1>5 DEF AtWord
  <2>3. /\ q[k].offset \in Nat /\ c < q[k].offset /\ q[k].offset <= size
    <3>1. /\ q[k].offset \in Nat /\ q[k].width \in Nat
          /\ q[k].offset + q[k].width <= size
      BY <1>2, <2>1
    <3> PICK start \in Nat : start = q[k].offset
      BY <3>1
    <3>2. c <= start /\ c # start /\ c \in Nat
      BY <1>3, <2>1, <2>2
    <3>3. start <= size
      BY <1>1, <3>1
    <3> QED  BY <3>2, <3>3
  <2>4. ASSUME NEW n \in 1 .. Len(q)
        PROVE  q[n].offset + q[n].width <= c \/ q[k].offset <= q[n].offset
    <3>1. CASE n < k
      BY <1>3, <3>1
    <3>2. CASE n = k
      BY <2>3, <3>2
    <3>3. CASE k < n
      <4>1. q[k].offset + q[k].width <= q[n].offset
        BY <1>2, <2>1, <3>3
      <4> QED  BY <1>2, <2>1, <4>1
    <3> QED  BY <1>1, <2>1, <3>1, <3>2, <3>3
  <2> QED  BY <2>1, <2>3, <2>4
<1>6. CASE ~ (k <= Len(q))
  <2>1. NextWord = size
    BY <1>4, <1>6
  <2>2. \A n \in 1 .. Len(q) : n < k
    BY <1>1, <1>3, <1>6
  <2> QED  BY <1>1, <1>3, <2>1, <2>2
<1> QED  BY <1>5, <1>6

\* The segments in front of the one ahead end at the cursor or below it.
LEMMA SegmentAheadTells ==
  ASSUME AuditInv, PlanOK, WalkInStep
  PROVE  /\ SegmentAhead \in 1 .. Len(plan.segments) + 1
         /\ SegmentAhead <= Len(plan.segments) =>
              LET s == plan.segments[SegmentAhead] IN call.cursor < s.offset + s.memory
         /\ \A n \in 1 .. Len(plan.segments) : LET s == plan.segments[n] IN
              n < SegmentAhead => s.offset + s.memory <= call.cursor
<1> PICK q : q = plan.segments
  OBVIOUS
<1> PICK c : c = call.cursor
  OBVIOUS
<1> PICK k : k = call.segment
  OBVIOUS
<1> PICK N \in Nat : N = Len(q)
  BY PlanFields
<1>1. \A n \in 1 .. N : q[n].offset \in Nat /\ q[n].memory \in Nat
  BY PlanFields DEF InOrder
<1>2. /\ c \in Nat /\ k \in 1 .. N + 1
      /\ \A n \in 1 .. N : n < k => q[n].offset + q[n].memory <= c
  BY PlanFields DEF WalkInStep
<1> DEFINE T == {i \in k .. N : c < q[i].offset + q[i].memory} \cup {N + 1}
<1>3. SegmentAhead = Min(T)
  BY DEF SegmentAhead
<1>4. T \subseteq 1 .. N + 1 /\ N + 1 \in T
  BY <1>2
<1>5. \A i \in T : i = N + 1 \/ (i \in k .. N /\ c < q[i].offset + q[i].memory)
  OBVIOUS
<1>6. \A n \in 1 .. N : n \notin T /\ k <= n => q[n].offset + q[n].memory <= c
  <2> TAKE n \in 1 .. N
  <2> HAVE n \notin T /\ k <= n
  <2>1. ~ (c < q[n].offset + q[n].memory)
    BY <1>2
  <2> QED  BY <1>1, <1>2, <2>1
<1> HIDE DEF T
<1> PICK a \in T : \A i \in T : a <= i
  <2>1. T \subseteq Nat /\ T # {}
    BY <1>4
  <2> QED  BY <2>1, LeastNatural
<1>7. Min(T) = a
  <2>1. \A i \in T : i \in Nat
    BY <1>4
  <2>2. \A x \in T : (\A i \in T : x <= i) => x = a
    BY <2>1
  <2> QED  BY <2>2 DEF Min
<1>8. a \in 1 .. N + 1 /\ (a <= N => c < q[a].offset + q[a].memory)
  BY <1>4, <1>5
<1>9. \A n \in 1 .. N : n < a => q[n].offset + q[n].memory <= c
  <2> TAKE n \in 1 .. N
  <2> HAVE n < a
  <2>1. n \notin T
    BY <1>4
  <2>2. CASE n < k
    BY <1>2, <2>2
  <2>3. CASE k <= n
    BY <1>6, <2>1, <2>3
  <2> QED  BY <1>2, <2>2, <2>3
<1> QED  BY <1>3, <1>7, <1>8, <1>9

\* What a stretch is compared with at an offset
StretchByte(o) ==
  IF Stretch.source = None THEN 0 ELSE Content(Stretch.source + (o - call.cursor))

\* A stretch is not empty, ends at the next word or before it, and is compared
\* with what the arena should hold.
LEMMA StretchTells ==
  ASSUME AuditInv, PlanOK, WalkInStep, ~ AtWord, call.cursor < plan.size
  PROVE  /\ Stretch.end \in Nat /\ call.cursor < Stretch.end /\ Stretch.end <= NextWord
         /\ \A o \in Nat : call.cursor <= o /\ o < Stretch.end => StretchByte(o) = Expected(o)
<1> PICK q : q = plan.segments
  OBVIOUS
<1> PICK c \in Nat : c = call.cursor
  BY PlanFields DEF WalkInStep
<1> PICK e \in Nat : e = NextWord
  BY NextWordTells
<1> PICK k : k = SegmentAhead
  OBVIOUS
<1> PICK N \in Nat : N = Len(q)
  BY PlanFields
<1>1. c < e
  BY NextWordTells
<1>2. /\ k \in 1 .. N + 1
      /\ k <= N => c < q[k].offset + q[k].memory
      /\ \A n \in 1 .. N : n < k => q[n].offset + q[n].memory <= c
  BY SegmentAheadTells
<1>3. \A n \in 1 .. N :
        /\ q[n].offset \in Nat /\ q[n].memory \in Nat /\ q[n].size \in Nat /\ q[n].source \in Nat
        /\ q[n].size <= q[n].memory
        /\ \A m \in 1 .. N : n < m => q[n].offset + q[n].memory <= q[m].offset
  BY PlanFields DEF InOrder
<1>4. /\ \A s \in OuterMappings : \E n \in 1 .. N : q[n] = s
      /\ \A n \in 1 .. N : q[n] \in OuterMappings
  BY PlanFields DEF InOrder, Enumerates
<1>5. ASSUME NEW o \in Nat, c <= o, o < e
      PROVE  Expected(o) = Staged(o)
  <2>1. ASSUME NEW w \in Words
        PROVE  ~ Covers(w, o)
    <3>1. PICK n \in 1 .. Len(plan.words) : plan.words[n] = w
      BY PlanFields DEF WordsOK, Enumerates
    <3>2. w.offset + w.width <= c \/ e <= w.offset
      BY <3>1, NextWordTells
    <3>3. w.offset \in Nat /\ w.width \in Nat
      BY WordFields
    <3> QED  BY <1>5, <3>2, <3>3 DEF Covers
  <2> QED  BY <2>1, ExpectedTells
<1>6. ASSUME NEW o \in Nat, \A n \in 1 .. N : ~ InFile(q[n], o)
      PROVE  Staged(o) = 0
  <2>1. \A s \in OuterMappings : ~ InFile(s, o)
    BY <1>4, <1>6
  <2> QED  BY <2>1, StagedTells
<1>7. ASSUME NEW o \in Nat, NEW n \in 1 .. N, InFile(q[n], o)
      PROVE  Staged(o) = Content(q[n].source + (o - q[n].offset))
  BY <1>4, <1>7, StagedTells
<1> DEFINE Agrees(end, source) ==
      /\ end \in Nat /\ c < end /\ end <= e
      /\ \A o \in Nat : c <= o /\ o < end =>
           (IF source = None THEN 0 ELSE Content(source + (o - c))) = Staged(o)
<1>8. ASSUME NEW end, NEW source, Agrees(end, source),
             Stretch = [end |-> end, source |-> source]
      PROVE  /\ Stretch.end \in Nat /\ c < Stretch.end /\ Stretch.end <= e
             /\ \A o \in Nat : c <= o /\ o < Stretch.end => StretchByte(o) = Expected(o)
  <2>1. Stretch.end = end /\ Stretch.source = source
    BY <1>8
  <2>2. end \in Nat /\ c < end /\ end <= e
    BY <1>8
  <2>3. ASSUME NEW o \in Nat, c <= o, o < end
        PROVE  StretchByte(o) = Expected(o)
    <3>1. Expected(o) = Staged(o)
      BY <1>5, <2>2, <2>3
    <3>2. (IF source = None THEN 0 ELSE Content(source + (o - c))) = Staged(o)
      BY <1>8, <2>3
    <3> QED  BY <2>1, <3>1, <3>2 DEF StretchByte
  <2> QED  BY <2>1, <2>2, <2>3
<1> HIDE DEF Agrees
<1> DEFINE s == q[k]
<1>9. /\ ~ (k <= N) => Stretch = [end |-> e, source |-> None]
      /\ k <= N /\ c < s.offset =>
           Stretch = [end |-> Min({e, s.offset}), source |-> None]
      /\ k <= N /\ ~ (c < s.offset) /\ c < s.offset + s.size =>
           Stretch = [end |-> Min({e, s.offset + s.size}), source |-> CursorSource(s)]
      /\ k <= N /\ ~ (c < s.offset) /\ ~ (c < s.offset + s.size) =>
           Stretch = [end |-> Min({e, s.offset + s.memory}), source |-> None]
  <2>1. k > N <=> ~ (k <= N)
    BY <1>2
  <2> QED  BY <2>1 DEF Stretch
<1> HIDE DEF s
<1>10. ASSUME NEW o \in Nat, c <= o, NEW n \in 1 .. N, q[n].offset + q[n].memory <= c
       PROVE  ~ InFile(q[n], o)
  <2> PICK start \in Nat : start = q[n].offset
    BY <1>3
  <2> PICK size \in Nat : size = q[n].size
    BY <1>3
  <2> PICK memory \in Nat : memory = q[n].memory
    BY <1>3
  <2>1. size <= memory /\ start + memory <= c
    BY <1>3, <1>10
  <2>2. ~ (o < start + size)
    BY ONLY <1>10, <2>1, o \in Nat, c \in Nat, start \in Nat, size \in Nat, memory \in Nat
  <2> QED  BY <2>2 DEF InFile
<1>11. CASE ~ (k <= N)
  <2>1. Stretch = [end |-> e, source |-> None]
    BY <1>9, <1>11
  <2>2. \A o \in Nat : c <= o /\ o < e => Staged(o) = 0
    <3> TAKE o \in Nat
    <3> HAVE c <= o /\ o < e
    <3>1. \A n \in 1 .. N : q[n].offset + q[n].memory <= c => ~ InFile(q[n], o)
      BY <1>10
    <3>2. \A n \in 1 .. N : ~ InFile(q[n], o)
      BY <1>2, <1>11, <3>1
    <3> QED  BY <1>6, <3>2
  <2>3. Agrees(e, None)
    BY <1>1, <2>2 DEF Agrees
  <2> QED  BY <1>8, <2>1, <2>3
<1>12. CASE k <= N
  <2>1. k \in 1 .. N /\ c < s.offset + s.memory
    BY <1>2, <1>12 DEF s
  <2>2. /\ s.offset \in Nat /\ s.memory \in Nat /\ s.size \in Nat /\ s.source \in Nat
        /\ s.size <= s.memory
    BY <1>3, <2>1 DEF s
  <2>3. ASSUME NEW o \in Nat, c <= o, o < s.offset + s.memory, ~ InFile(s, o)
        PROVE  Staged(o) = 0
    <3>1. ASSUME NEW n \in 1 .. N
          PROVE  ~ InFile(q[n], o)
      <4>1. CASE n < k
        BY <1>2, <1>10, <2>3, <4>1
      <4>2. CASE n = k
        BY <2>3, <4>2 DEF s
      <4>3. CASE k < n
        <5>1. s.offset + s.memory <= q[n].offset
          BY <1>3, <2>1, <4>3 DEF s
        <5>2. o < q[n].offset
          BY <1>3, <2>2, <2>3, <5>1
        <5> QED  BY <1>3, <5>2 DEF InFile
      <4> QED  BY <2>1, <4>1, <4>2, <4>3
    <3> QED  BY <1>6, <3>1
  <2>4. CASE c < s.offset
    <3>1. Stretch = [end |-> Min({e, s.offset}), source |-> None]
      BY <1>9, <1>12, <2>4
    <3> PICK end \in Nat : end = Min({e, s.offset})
      BY <2>2, TwoBounds
    <3>2. end <= e /\ end <= s.offset /\ c < end
      BY <1>1, <2>2, <2>4, TwoBounds
    <3>3. \A o \in Nat : c <= o /\ o < end => Staged(o) = 0
      <4> TAKE o \in Nat
      <4> HAVE c <= o /\ o < end
      <4>1. o < s.offset + s.memory /\ ~ InFile(s, o)
        BY <2>2, <3>2 DEF InFile
      <4> QED  BY <2>3, <4>1
    <3>4. Agrees(end, None)
      BY <3>2, <3>3 DEF Agrees
    <3> QED  BY <1>8, <3>1, <3>4
  <2>5. CASE s.offset <= c /\ c < s.offset + s.size
    <3> PICK x \in Nat : x = CursorSource(s)
      BY <2>2, <2>5 DEF CursorSource
    <3>1. x = s.source + (c - s.offset) /\ x # None
      BY OptionAssumption DEF CursorSource
    <3>2. ~ (c < s.offset)
      BY <2>2, <2>5
    <3>3. Stretch = [end |-> Min({e, s.offset + s.size}), source |-> x]
      BY <1>9, <1>12, <2>5, <3>2
    <3> PICK bound \in Nat : bound = s.offset + s.size
      BY <2>2
    <3> PICK end \in Nat : end = Min({e, bound})
      BY TwoBounds
    <3>4. end <= e /\ end <= bound /\ c < end
      BY <1>1, <2>2, <2>5, TwoBounds
    <3>5. \A o \in Nat : c <= o /\ o < end => Staged(o) = Content(x + (o - c))
      <4> TAKE o \in Nat
      <4> HAVE c <= o /\ o < end
      <4>1. InFile(s, o)
        BY <2>2, <2>5, <3>4 DEF InFile
      <4>2. Staged(o) = Content(s.source + (o - s.offset))
        BY <1>7, <2>1, <4>1 DEF s
      <4>3. s.source + (o - s.offset) = x + (o - c)
        BY ONLY <2>2, <3>1, c \in Nat, o \in Nat
      <4> QED  BY <4>2, <4>3
    <3>6. Agrees(end, x)
      BY <3>1, <3>4, <3>5 DEF Agrees
    <3> QED  BY <1>8, <3>3, <3>6
  <2>6. CASE s.offset + s.size <= c
    <3>1. ~ (c < s.offset) /\ ~ (c < s.offset + s.size)
      BY <2>2, <2>6
    <3>2. Stretch = [end |-> Min({e, s.offset + s.memory}), source |-> None]
      BY <1>9, <1>12, <3>1
    <3> PICK bound \in Nat : bound = s.offset + s.memory
      BY <2>2
    <3> PICK end \in Nat : end = Min({e, bound})
      BY TwoBounds
    <3>3. end <= e /\ end <= bound /\ c < end
      BY <1>1, <2>1, TwoBounds
    <3>4. \A o \in Nat : c <= o /\ o < end => Staged(o) = 0
      <4> TAKE o \in Nat
      <4> HAVE c <= o /\ o < end
      <4>1. o < s.offset + s.memory /\ ~ InFile(s, o)
        BY ONLY <2>2, <2>6, <3>3, c \in Nat, o \in Nat, end \in Nat, c <= o /\ o < end,
                bound = s.offset + s.memory DEF InFile
      <4> QED  BY <2>3, <4>1
    <3>5. Agrees(end, None)
      BY <3>3, <3>4 DEF Agrees
    <3> QED  BY <1>8, <3>2, <3>5
  <2>7. c < s.offset \/ (s.offset <= c /\ c < s.offset + s.size) \/ s.offset + s.size <= c
    BY ONLY <2>2, c \in Nat
  <2> QED  BY ONLY <2>4, <2>5, <2>6, <2>7
<1> QED  BY <1>2, <1>11, <1>12

-----------------------------------------------------------------------------
(* What apply() and verify() have made of the arena *)

\* Whether a write that has still to come, from a call's word on, covers an offset.
Pending(c, o) ==
  c.step = "write" /\ \E n \in 1 .. Len(plan.words) : n >= c.word /\ Covers(plan.words[n], o)

\* What an untouched arena holds during a call, or between calls.
Meant(c, o) == IF c # None /\ Pending(c, o) THEN Staged(o) ELSE Expected(o)

WriteInStep ==
  /\ call \in [step : {"write"}, word : Nat]
  /\ call.word \in 1 .. Len(plan.words) + 1

\* The arena is of the plan's size, and nothing but a change from outside makes
\* it differ from what it should hold.
ArenaInv ==
  /\ plan = None => bytes = None /\ call = None
  /\ call # None \/ bytes # None =>
       /\ DOMAIN bytes = Offsets
       /\ ~ touched => \A o \in Offsets : bytes[o] = Meant(call, o)
  /\ call # None => WriteInStep \/ WalkInStep
  /\ call = None /\ bytes # None /\ result = "Ok" =>
       \A o \in Offsets : o \notin disturbed => bytes[o] = Expected(o)
  /\ result = "ReadbackMismatch" => touched

Rebasing == Planning /\ ArenaInv

LEMMA MeantFixed ==
  ASSUME file' = file, audit' = audit, plan' = plan
  PROVE  \A c, o : Meant(c, o)' = Meant(c, o)
<1>1. \A o : Staged(o)' = Staged(o) /\ Expected(o)' = Expected(o)
  BY ExpectedFixed
<1>2. \A c, o : Pending(c, o)' = Pending(c, o)
  BY DEF Pending, Covers
<1> QED  BY <1>1, <1>2 DEF Meant

\* No two words of a plan cover one offset, and every word is the audit's.
LEMMA PlanCovers ==
  ASSUME AuditInv, PlanOK, NEW o \in Nat
  PROVE  /\ \A n \in 1 .. Len(plan.words) : LET w == plan.words[n] IN
              Covers(w, o) =>
                /\ Expected(o) = Shifted(w.source + (o - w.offset))
                /\ \A m \in 1 .. Len(plan.words) : Covers(plan.words[m], o) => m = n
         /\ (\A n \in 1 .. Len(plan.words) : ~ Covers(plan.words[n], o)) =>
              Expected(o) = Staged(o)
<1> PICK q : q = plan.words
  OBVIOUS
<1> PICK N \in Nat : N = Len(q)
  BY PlanFields
<1>1. /\ \A w \in Words : \E n \in 1 .. N : q[n] = w
      /\ \A n \in 1 .. N : q[n] \in Words
  BY PlanFields DEF WordsOK, Enumerates
<1>2. \A n \in 1 .. N :
        /\ q[n].offset \in Nat /\ q[n].width \in Nat
        /\ \A m \in 1 .. N : n < m => q[n].offset + q[n].width <= q[m].offset
  BY PlanFields DEF WordsOK
<1>3. ASSUME NEW n \in 1 .. N, Covers(q[n], o)
      PROVE  /\ Expected(o) = Shifted(q[n].source + (o - q[n].offset))
             /\ \A m \in 1 .. N : Covers(q[m], o) => m = n
  <2>1. Expected(o) = Shifted(q[n].source + (o - q[n].offset))
    BY <1>1, <1>3, ExpectedTells
  <2>2. ASSUME NEW m \in 1 .. N, Covers(q[m], o)
        PROVE  m = n
    <3>1. CASE m < n
      <4>1. q[m].offset + q[m].width <= q[n].offset
        BY <1>2, <3>1
      <4> QED  BY <1>2, <1>3, <2>2, <4>1 DEF Covers
    <3>2. CASE n < m
      <4>1. q[n].offset + q[n].width <= q[m].offset
        BY <1>2, <3>2
      <4> QED  BY <1>2, <1>3, <2>2, <4>1 DEF Covers
    <3> QED  BY <3>1, <3>2
  <2> QED  BY <2>1, <2>2
<1>4. ASSUME \A n \in 1 .. N : ~ Covers(q[n], o)
      PROVE  Expected(o) = Staged(o)
  <2>1. \A w \in Words : ~ Covers(w, o)
    BY <1>1, <1>4
  <2> QED  BY <2>1, ExpectedTells
<1> QED  BY <1>3, <1>4

LEMMA BeginWalkHolds ==
  ASSUME AuditInv, PlanOK, file' = file, audit' = audit, plan' = plan,
         NEW applying \in BOOLEAN, BeginWalk(applying)
  PROVE  /\ call' # None /\ WalkInStep'
         /\ \A o : Meant(call', o) = Expected(o)
<1> PICK next : next = [step |-> "walk", applying |-> applying, cursor |-> 0,
                        segment |-> 1, word |-> 1]
  OBVIOUS
<1>1. call' = next
  BY DEF BeginWalk
<1>2. next \in [step : {"walk"}, applying : BOOLEAN, cursor : Int, segment : Nat, word : Nat]
  OBVIOUS
<1>3. next # None
  BY <1>2, CallAssumption
<1>4. next.step = "walk" /\ next.cursor = 0 /\ next.segment = 1 /\ next.word = 1
  OBVIOUS
<1>5. /\ Len(plan.words) \in Nat /\ Len(plan.segments) \in Nat /\ plan.size \in Nat
      /\ \A n \in 1 .. Len(plan.words) : plan.words[n].offset \in Nat
  BY PlanFields DEF WordsOK
<1>6. WalkInStep'
  <2>1. /\ call' \in [step : {"walk"}, applying : BOOLEAN, cursor : Int, segment : Nat, word : Nat]
        /\ call'.cursor \in 0 .. plan.size
        /\ call'.segment \in 1 .. Len(plan.segments) + 1
        /\ call'.word \in 1 .. Len(plan.words) + 1
    BY <1>1, <1>2, <1>4, <1>5
  <2>2. \A n \in 1 .. Len(plan.words) : ~ (n < call'.word) /\ call'.cursor <= plan.words[n].offset
    BY <1>1, <1>4, <1>5
  <2>3. \A n \in 1 .. Len(plan.segments) : ~ (n < call'.segment)
    BY <1>1, <1>4, <1>5
  <2>4. 0 .. call'.cursor - 1 = {}
    BY <1>1, <1>4
  <2> QED  BY <2>1, <2>2, <2>3, <2>4 DEF WalkInStep
<1>7. \A o : Meant(next, o) = Expected(o)
  BY <1>4 DEF Meant, Pending
<1> QED  BY <1>1, <1>3, <1>6, <1>7

LEMMA ApplyKeeps ==
  ASSUME Rebasing, Apply
  PROVE  ArenaInv'
<1>1. AuditInv /\ PlanOK /\ plan # None
  BY DEF Rebasing, Planning, Apply
<1>2. /\ file' = file /\ audit' = audit /\ plan' = plan /\ result' = result /\ touched' = touched
      /\ bytes' = [o \in Offsets |-> Staged(o)]
  BY DEF Apply, collectionVars, auditVars
<1> PICK next : next = [step |-> "write", word |-> 1]
  OBVIOUS
<1>3. call' = next
  BY DEF Apply
<1>4. next \in [step : {"write"}, word : Nat] /\ next.step = "write" /\ next.word = 1
  OBVIOUS
<1>5. next # None
  BY <1>4, CallAssumption
<1>6. WriteInStep'
  <2>1. Len(plan.words) \in Nat
    BY <1>1, PlanFields
  <2>2. next.word \in 1 .. Len(plan.words) + 1
    BY <1>4, <2>1
  <2> QED  BY <1>2, <1>3, <1>4, <2>2 DEF WriteInStep
<1>7. Offsets \subseteq Nat
  BY DEF Offsets
<1>8. \A o \in Offsets : Meant(next, o) = Staged(o)
  <2> TAKE o \in Offsets
  <2>1. ASSUME ~ Pending(next, o)
        PROVE  Expected(o) = Staged(o)
    <3>1. \A n \in 1 .. Len(plan.words) : ~ Covers(plan.words[n], o)
      BY <1>4, <2>1 DEF Pending
    <3> QED  BY <1>1, <1>7, <3>1, PlanCovers
  <2> QED  BY <1>5, <2>1 DEF Meant
<1>9. Offsets' = Offsets /\ \A o : Meant(next, o)' = Meant(next, o)
  BY <1>2, ExpectedFixed, MeantFixed
<1>10. DOMAIN bytes' = Offsets /\ \A o \in Offsets : bytes'[o] = Meant(next, o)
  BY <1>2, <1>8
<1>11. DOMAIN bytes' = Offsets' /\ \A o \in Offsets' : bytes'[o] = Meant(call, o)'
  BY <1>3, <1>9, <1>10
<1>12. result' = "ReadbackMismatch" => touched'
  BY <1>2 DEF Rebasing, ArenaInv
<1>13. plan' # None /\ call' # None
  BY <1>1, <1>2, <1>3, <1>5
<1> QED  BY <1>6, <1>11, <1>12, <1>13 DEF ArenaInv

LEMMA WriteWordKeeps ==
  ASSUME Rebasing, WriteWord
  PROVE  ArenaInv'
<1>1. call # None /\ call.step = "write" /\ plan # None
  BY DEF WriteWord, Idle, Rebasing, ArenaInv
<1>2. AuditInv /\ PlanOK /\ ArenaInv
  BY <1>1 DEF Rebasing, Planning
<1>3. /\ file' = file /\ audit' = audit /\ plan' = plan /\ result' = result /\ touched' = touched
  BY DEF WriteWord, collectionVars, auditVars
<1>4. call \in [step : {"write"}, word : Nat] /\ call.word \in 1 .. Len(plan.words) + 1
  BY <1>1, <1>2 DEF ArenaInv, WriteInStep, WalkInStep
<1>5. /\ DOMAIN bytes = Offsets
      /\ ~ touched => \A o \in Offsets : bytes[o] = Meant(call, o)
      /\ result = "ReadbackMismatch" => touched
  BY <1>1, <1>2 DEF ArenaInv
<1>6. Offsets' = Offsets /\ \A c, o : Meant(c, o)' = Meant(c, o)
  BY <1>3, ExpectedFixed, MeantFixed
<1>7. Len(plan.words) \in Nat /\ Offsets \subseteq Nat
  BY <1>2, PlanFields DEF Offsets
<1> PICK next : next = call'
  OBVIOUS
<1>8. SUFFICES /\ next # None
               /\ WriteInStep' \/ WalkInStep'
               /\ DOMAIN bytes' = Offsets
               /\ ~ touched => \A o \in Offsets : bytes'[o] = Meant(next, o)
  <2>1. ASSUME next # None, WriteInStep' \/ WalkInStep', DOMAIN bytes' = Offsets,
               ~ touched => \A o \in Offsets : bytes'[o] = Meant(next, o)
        PROVE  ArenaInv'
    <3>1. call' # None /\ plan' # None
      BY <1>1, <1>3, <2>1
    <3>2. DOMAIN bytes' = Offsets' /\ (~ touched' => \A o \in Offsets' : bytes'[o] = Meant(call, o)')
      BY <1>3, <1>6, <2>1
    <3>3. result' = "ReadbackMismatch" => touched'
      BY <1>3, <1>5
    <3> QED  BY <2>1, <3>1, <3>2, <3>3 DEF ArenaInv
  <2> QED  BY <2>1
<1>9. CASE call.word <= Len(plan.words)
  <2> PICK k : k = call.word
    OBVIOUS
  <2> PICK w : w = plan.words[k]
    OBVIOUS
  <2>1. k \in 1 .. Len(plan.words)
    BY <1>4, <1>7, <1>9
  <2>2. /\ bytes' = [o \in Offsets |-> IF o \in Bytes(w.offset, w.offset + w.width)
                                       THEN Shifted(w.source + (o - w.offset))
                                       ELSE bytes[o]]
        /\ next = [call EXCEPT !.word = @ + 1]
    <3>1. ~ (call.word > Len(plan.words))
      BY <1>7, <2>1
    <3>2. /\ bytes' = [o \in Offsets |->
                         IF o \in Bytes(plan.words[call.word].offset,
                                       plan.words[call.word].offset + plan.words[call.word].width)
                         THEN Shifted(plan.words[call.word].source
                                        + (o - plan.words[call.word].offset))
                         ELSE bytes[o]]
          /\ call' = [call EXCEPT !.word = @ + 1]
      BY <3>1 DEF WriteWord
    <3> QED  BY <3>2
  <2>3. /\ next \in [step : {"write"}, word : Nat] /\ next.step = "write" /\ next.word = k + 1
    BY <1>4, <2>2
  <2>4. next # None
    BY <2>3, CallAssumption
  <2>5. WriteInStep'
    <3>1. next.word \in 1 .. Len(plan.words) + 1
      BY <1>7, <2>1, <2>3
    <3> QED  BY <1>3, <2>3, <3>1 DEF WriteInStep
  <2>6. w.offset \in Nat /\ w.width \in Nat
    BY <1>2, <2>1, PlanFields DEF WordsOK
  <2>7. \A o \in Offsets : o \in Bytes(w.offset, w.offset + w.width) <=> Covers(w, o)
    <3> TAKE o \in Offsets
    <3>1. o \in Nat
      BY <1>7
    <3> QED  BY ONLY <2>6, <3>1 DEF Bytes, Covers
  <2>8. ASSUME ~ touched, NEW o \in Offsets
        PROVE  bytes'[o] = Meant(next, o)
    <3>1. CASE Covers(w, o)
      <4>1. bytes'[o] = Expected(o)
        BY <1>2, <1>7, <2>1, <2>2, <2>7, <3>1, PlanCovers
      <4>2. \A m \in 1 .. Len(plan.words) : Covers(plan.words[m], o) => m = k
        BY <1>2, <1>7, <2>1, <3>1, PlanCovers
      <4>3. ~ Pending(next, o)
        BY <2>1, <2>3, <4>2 DEF Pending
      <4> QED  BY <4>1, <4>3 DEF Meant
    <3>2. CASE ~ Covers(w, o)
      <4>1. bytes'[o] = Meant(call, o)
        BY <1>5, <2>2, <2>7, <2>8, <3>2
      <4>2. \A m \in 1 .. Len(plan.words) :
              Covers(plan.words[m], o) => (m >= k + 1 <=> m >= k)
        <5> TAKE m \in 1 .. Len(plan.words)
        <5> HAVE Covers(plan.words[m], o)
        <5>1. m # k
          BY <3>2
        <5> QED  BY <2>1, <5>1
      <4>3. Pending(next, o) <=> Pending(call, o)
        BY <1>1, <2>3, <4>2 DEF Pending
      <4> QED  BY <1>1, <2>4, <4>1, <4>3 DEF Meant
    <3> QED  BY <3>1, <3>2
  <2>9. DOMAIN bytes' = Offsets
    BY <2>2
  <2> QED  BY <2>4, <2>5, <2>8, <2>9
<1>10. CASE ~ (call.word <= Len(plan.words))
  <2>1. BeginWalk(TRUE) /\ bytes' = bytes
    BY <1>10 DEF WriteWord
  <2>2. call' # None /\ WalkInStep' /\ \A o : Meant(call', o) = Expected(o)
    BY <1>2, <1>3, <2>1, BeginWalkHolds
  <2>3. \A o : ~ Pending(call, o)
    <3>1. \A n \in 1 .. Len(plan.words) : ~ (n >= call.word)
      BY <1>4, <1>7, <1>10
    <3> QED  BY <3>1 DEF Pending
  <2>4. \A o : Meant(call, o) = Expected(o)
    BY <2>3 DEF Meant
  <2> QED  BY <1>5, <2>1, <2>2, <2>4
<1> QED  BY <1>9, <1>10

LEMMA VerifyKeeps ==
  ASSUME Rebasing, NEW n, Verify(n)
  PROVE  ArenaInv'
<1>1. call = None /\ bytes # None /\ plan # None
  BY DEF Verify, Idle, Rebasing, ArenaInv
<1>2. AuditInv /\ PlanOK /\ ArenaInv
  BY <1>1 DEF Rebasing, Planning
<1>3. /\ file' = file /\ audit' = audit /\ plan' = plan /\ bytes' = bytes /\ touched' = touched
  BY DEF Verify, collectionVars, auditVars
<1>4. /\ DOMAIN bytes = Offsets
      /\ ~ touched => \A o \in Offsets : bytes[o] = Expected(o)
      /\ result = "ReadbackMismatch" => touched
  BY <1>1, <1>2 DEF ArenaInv, Meant
<1>5. Offsets' = Offsets /\ \A o : Expected(o)' = Expected(o)
  BY <1>3, ExpectedFixed
<1>6. \A c, o : Meant(c, o)' = Meant(c, o)
  BY <1>3, MeantFixed
<1>7. CASE n # plan.size
  <2>1. call' = None /\ result' = "DestinationSize"
    BY <1>7 DEF Verify, Done
  <2>2. \A o : Meant(call, o)' = Expected(o)
    <3> PICK next : next = call'
      OBVIOUS
    <3>1. \A o : Meant(next, o)' = Expected(o)
      BY <1>6, <2>1 DEF Meant
    <3> QED  BY <3>1
  <2>3. DOMAIN bytes' = Offsets' /\ (~ touched' => \A o \in Offsets' : bytes'[o] = Meant(call, o)')
    BY <1>3, <1>4, <1>5, <2>2
  <2>4. plan' # None /\ result' # "ReadbackMismatch" /\ result' # "Ok"
    BY <1>1, <1>3, <2>1
  <2> QED  BY <2>1, <2>3, <2>4 DEF ArenaInv
<1>8. CASE n = plan.size
  <2>1. BeginWalk(FALSE) /\ result' = result
    BY <1>8 DEF Verify
  <2>2. call' # None /\ WalkInStep' /\ \A o : Meant(call', o) = Expected(o)
    BY <1>2, <1>3, <2>1, BeginWalkHolds
  <2>3. \A o : Meant(call, o)' = Expected(o)
    <3> PICK next : next = call'
      OBVIOUS
    <3>1. \A o : Meant(next, o) = Expected(o)
      BY <2>2
    <3>2. \A o : Meant(next, o)' = Expected(o)
      BY <1>6, <3>1
    <3> QED  BY <3>2
  <2>4. DOMAIN bytes' = Offsets' /\ (~ touched' => \A o \in Offsets' : bytes'[o] = Meant(call, o)')
    BY <1>3, <1>4, <1>5, <2>3
  <2>5. plan' # None /\ (result' = "ReadbackMismatch" => touched')
    BY <1>1, <1>3, <1>4, <2>1
  <2> QED  BY <2>2, <2>4, <2>5 DEF ArenaInv
<1> QED  BY <1>7, <1>8

WalkCalls == [step : {"walk"}, applying : BOOLEAN, cursor : Int, segment : Nat, word : Nat]

LEMMA FieldsMove ==
  ASSUME NEW S, NEW B, NEW d \in Int, NEW i \in Nat, NEW m \in Nat,
         NEW x \in [step : S, applying : B, cursor : Int, segment : Nat, word : Nat]
  PROVE  /\ [x EXCEPT !.cursor = d, !.word = m]
              \in [step : S, applying : B, cursor : Int, segment : Nat, word : Nat]
         /\ [x EXCEPT !.cursor = d, !.segment = i]
              \in [step : S, applying : B, cursor : Int, segment : Nat, word : Nat]
  OBVIOUS

LEMMA CallMoves ==
  ASSUME NEW x \in WalkCalls, NEW d \in Nat, NEW i \in Nat, NEW m \in Nat
  PROVE  /\ [x EXCEPT !.cursor = d, !.word = m] \in WalkCalls
         /\ [x EXCEPT !.cursor = d, !.segment = i] \in WalkCalls
<1> PICK B : B = BOOLEAN
  OBVIOUS
<1>1. WalkCalls = [step : {"walk"}, applying : B, cursor : Int, segment : Nat, word : Nat]
  BY DEF WalkCalls
<1>2. d \in Int
  OBVIOUS
<1> QED  BY <1>1, <1>2, FieldsMove

\* What a walk meets.
LEMMA WalkTells ==
  ASSUME Rebasing, Walking
  PROVE  /\ AuditInv /\ PlanOK /\ plan # None /\ call # None
         /\ WalkInStep /\ call \in WalkCalls
         /\ DOMAIN bytes = Offsets /\ Offsets = 0 .. plan.size - 1 /\ plan.size \in Nat
         /\ ~ touched => \A o \in Offsets : bytes[o] = Expected(o)
         /\ result = "ReadbackMismatch" => touched
<1>1. call # None /\ call.step = "walk" /\ plan # None
  BY DEF Walking, Idle, Rebasing, ArenaInv
<1>2. AuditInv /\ PlanOK /\ ArenaInv
  BY <1>1 DEF Rebasing, Planning
<1>3. WalkInStep
  BY <1>1, <1>2 DEF ArenaInv, WriteInStep
<1>4. \A o : Meant(call, o) = Expected(o)
  BY <1>1 DEF Meant, Pending
<1>5. plan.size \in Nat
  BY <1>2, PlanFields
<1> QED  BY <1>1, <1>2, <1>3, <1>4, <1>5 DEF ArenaInv, WalkInStep, WalkCalls, Offsets

\* A readback that holds moves on.
LEMMA WalkGoesOn ==
  ASSUME Rebasing, Walking, UNCHANGED <<file, audit, plan, bytes, result, touched, disturbed>>,
         WalkInStep'
  PROVE  ArenaInv'
<1> PICK next : next = call'
  OBVIOUS
<1>1. next \in WalkCalls
  BY DEF WalkInStep, WalkCalls
<1>2. next # None /\ next.step = "walk"
  BY <1>1, CallAssumption DEF WalkCalls
<1>3. Offsets' = Offsets /\ \A o : Expected(o)' = Expected(o)
  BY ExpectedFixed
<1>4. \A o : Meant(next, o)' = Expected(o)
  <2>1. \A c, o : Meant(c, o)' = Meant(c, o)
    BY MeantFixed
  <2>2. \A o : Meant(next, o) = Expected(o)
    BY <1>2 DEF Meant, Pending
  <2> QED  BY <2>1, <2>2
<1>5. DOMAIN bytes' = Offsets' /\ (~ touched' => \A o \in Offsets' : bytes'[o] = Meant(call, o)')
  BY <1>3, <1>4, WalkTells
<1>6. call' # None /\ plan' # None /\ (result' = "ReadbackMismatch" => touched')
  BY <1>2, WalkTells
<1> QED  BY <1>5, <1>6 DEF ArenaInv

LEMMA MismatchKeeps ==
  ASSUME Rebasing, Walking, Mismatch, UNCHANGED <<file, audit, touched>>, touched
  PROVE  ArenaInv'
<1>1. call' = None /\ result' = "ReadbackMismatch"
  BY DEF Mismatch, Done
<1>2. CASE call.applying
  <2>1. plan' = None /\ bytes' = None
    BY <1>2 DEF Mismatch
  <2> QED  BY <1>1, <2>1 DEF ArenaInv
<1>3. CASE ~ call.applying
  <2>1. plan' = plan /\ bytes' = bytes
    BY <1>3 DEF Mismatch
  <2>2. Offsets' = Offsets
    BY <2>1, ExpectedFixed
  <2>3. DOMAIN bytes' = Offsets' /\ plan' # None
    BY <2>1, <2>2, WalkTells
  <2> QED  BY <1>1, <2>3 DEF ArenaInv
<1> QED  BY <1>2, <1>3

LEMMA WalkWordKeeps ==
  ASSUME Rebasing, WalkWord
  PROVE  ArenaInv'
<1>1. Walking /\ AtWord
  BY DEF WalkWord
<1>2. /\ file' = file /\ audit' = audit /\ touched' = touched /\ disturbed' = disturbed
  BY DEF WalkWord, collectionVars, auditVars
<1> PICK k : k = call.word
  OBVIOUS
<1> PICK w : w = plan.words[k]
  OBVIOUS
<1> PICK c \in Nat : c = call.cursor
  BY <1>1, WalkTells DEF WalkInStep
<1> PICK N \in Nat : N = Len(plan.words)
  BY <1>1, WalkTells, PlanFields
<1>3. /\ c <= plan.size /\ k \in 1 .. N + 1
      /\ \A n \in 1 .. N : IF n < k THEN plan.words[n].offset + plan.words[n].width <= c
                           ELSE c <= plan.words[n].offset
      /\ call.segment \in 1 .. Len(plan.segments) + 1
      /\ \A n \in 1 .. Len(plan.segments) : n < call.segment =>
           plan.segments[n].offset + plan.segments[n].memory <= c
      /\ \A o \in 0 .. c - 1 : o \notin disturbed => bytes[o] = Expected(o)
  BY <1>1, WalkTells DEF WalkInStep
<1>4. k \in 1 .. N /\ w.offset = c
  BY <1>1, <1>3 DEF AtWord
<1>5. \A n \in 1 .. N :
        /\ plan.words[n].offset \in Nat /\ plan.words[n].width \in Nat \ {0}
        /\ plan.words[n].offset + plan.words[n].width <= plan.size
        /\ \A m \in 1 .. N :
             n < m => plan.words[n].offset + plan.words[n].width <= plan.words[m].offset
  BY <1>1, WalkTells, PlanFields DEF WordsOK
<1> PICK b \in Nat : b = w.width
  BY <1>4, <1>5
<1>6. c + b <= plan.size /\ b # 0 /\ plan.size \in Nat
  BY <1>1, <1>4, <1>5, WalkTells
<1>7. ASSUME NEW o \in Nat, c <= o, o < c + b
      PROVE  /\ Expected(o) = Shifted(w.source + (o - w.offset))
             /\ o \in Bytes(w.offset, w.offset + w.width) /\ o \in Offsets
  <2>1. Covers(w, o)
    BY <1>4, <1>7 DEF Covers
  <2>2. Expected(o) = Shifted(w.source + (o - w.offset))
    BY <1>1, <1>4, <2>1, WalkTells, PlanCovers
  <2>3. o \in Bytes(w.offset, w.offset + w.width)
    BY <1>4, <1>5, <1>7 DEF Bytes
  <2>4. o \in Offsets
    BY <1>6, <1>7 DEF Offsets
  <2> QED  BY <2>2, <2>3, <2>4
<1>8. WordHolds => \A o \in Nat : c <= o /\ o < c + b => bytes[o] = Expected(o)
  BY <1>7 DEF WordHolds
<1>9. ~ touched => WordHolds
  <2> SUFFICES ASSUME ~ touched, NEW o \in Bytes(w.offset, w.offset + w.width)
               PROVE  bytes[o] = Shifted(w.source + (o - w.offset))
    BY DEF WordHolds
  <2>1. o \in Nat /\ c <= o /\ o < c + b
    BY <1>3, <1>4 DEF Bytes
  <2>2. o \in Offsets /\ Expected(o) = Shifted(w.source + (o - w.offset))
    BY <1>7, <2>1
  <2> QED  BY <1>1, <2>2, WalkTells
<1>10. CASE ~ WordHolds
  <2>1. Mismatch /\ touched
    BY <1>9, <1>10 DEF WalkWord
  <2> QED  BY <1>1, <1>2, <2>1, MismatchKeeps
<1>11. CASE WordHolds
  <2>1. /\ call' = [call EXCEPT !.cursor = @ + w.width, !.word = @ + 1]
        /\ result' = result /\ plan' = plan /\ bytes' = bytes
    BY <1>11 DEF WalkWord
  <2>2. /\ call' \in WalkCalls /\ call'.cursor = c + b /\ call'.segment = call.segment
        /\ call'.word = k + 1
    <3> PICK x \in WalkCalls : x = call
      BY <1>1, WalkTells
    <3> PICK d \in Nat : d = c + b
      OBVIOUS
    <3> PICK m \in Nat : m = k + 1
      BY <1>4
    <3>1. call' = [x EXCEPT !.cursor = d, !.word = m]
      BY <2>1
    <3>2. [x EXCEPT !.cursor = d, !.word = m] \in WalkCalls
      BY CallMoves
    <3> QED  BY <3>1, <3>2 DEF WalkCalls
  <2>3. \A n \in 1 .. N :
          IF n < k + 1 THEN plan.words[n].offset + plan.words[n].width <= c + b
          ELSE c + b <= plan.words[n].offset
    <3> TAKE n \in 1 .. N
    <3>1. CASE n < k
      <4>1. n < k + 1 /\ plan.words[n].offset + plan.words[n].width <= c
        BY <1>3, <1>4, <3>1
      <4> QED  BY <1>5, <4>1
    <3>2. CASE n = k
      BY <1>4, <1>5, <3>2
    <3>3. CASE k < n
      <4>1. w.offset + w.width <= plan.words[n].offset
        BY <1>4, <1>5, <3>3
      <4> QED  BY <1>4, <3>3, <4>1
    <3> QED  BY <1>4, <3>1, <3>2, <3>3
  <2>4. \A n \in 1 .. Len(plan.segments) : n < call.segment =>
          plan.segments[n].offset + plan.segments[n].memory <= c + b
    <3> TAKE n \in 1 .. Len(plan.segments)
    <3> HAVE n < call.segment
    <3>1. plan.segments[n].offset \in Nat /\ plan.segments[n].memory \in Nat
      BY <1>1, WalkTells, PlanFields DEF InOrder
    <3> PICK end \in Nat : end = plan.segments[n].offset + plan.segments[n].memory
      BY <3>1
    <3>2. end <= c
      BY <1>3
    <3> QED  BY <3>2
  <2>5. \A o \in 0 .. (c + b) - 1 : o \notin disturbed => bytes[o] = Expected(o)
    <3> TAKE o \in 0 .. (c + b) - 1
    <3>1. CASE o < c
      <4>1. o \in 0 .. c - 1
        BY <1>3, <3>1
      <4> QED  BY <1>3, <4>1
    <3>2. CASE c <= o
      BY <1>3, <1>8, <1>11, <3>2
    <3> QED  BY <1>3, <3>1, <3>2
  <2>6. \A o : Expected(o)' = Expected(o)
    BY <1>2, <2>1, ExpectedFixed
  <2>7. /\ c + b \in 0 .. plan.size /\ k + 1 \in 1 .. N + 1
    BY ONLY <1>4, <1>6, c \in Nat, b \in Nat, N \in Nat
  <2>8. WalkInStep'
    BY <1>2, <1>3, <2>1, <2>2, <2>3, <2>4, <2>5, <2>6, <2>7 DEF WalkInStep, WalkCalls
  <2> QED  BY <1>1, <1>2, <2>1, <2>8, WalkGoesOn
<1> QED  BY <1>10, <1>11

LEMMA WalkStretchKeeps ==
  ASSUME Rebasing, WalkStretch
  PROVE  ArenaInv'
<1>1. Walking /\ ~ AtWord /\ call.cursor < plan.size
  BY DEF WalkStretch
<1>2. /\ file' = file /\ audit' = audit /\ touched' = touched /\ disturbed' = disturbed
  BY DEF WalkStretch, collectionVars, auditVars
<1> PICK k : k = call.word
  OBVIOUS
<1> PICK c \in Nat : c = call.cursor
  BY <1>1, WalkTells DEF WalkInStep
<1> PICK e \in Nat : e = Stretch.end
  BY <1>1, WalkTells, StretchTells
<1> PICK i \in Nat : i = SegmentAhead
  BY <1>1, WalkTells, PlanFields, SegmentAheadTells
<1> PICK N \in Nat : N = Len(plan.words)
  BY <1>1, WalkTells, PlanFields
<1>3. /\ k \in 1 .. N + 1
      /\ \A n \in 1 .. N : IF n < k THEN plan.words[n].offset + plan.words[n].width <= c
                           ELSE c <= plan.words[n].offset
      /\ \A o \in 0 .. c - 1 : o \notin disturbed => bytes[o] = Expected(o)
  BY <1>1, WalkTells DEF WalkInStep
<1> PICK next \in Nat : next = NextWord
  BY <1>1, WalkTells, NextWordTells
<1>4. /\ c < e /\ e <= next /\ next <= plan.size /\ plan.size \in Nat
      /\ \A o \in Nat : c <= o /\ o < e => StretchByte(o) = Expected(o)
  BY <1>1, WalkTells, StretchTells, NextWordTells
<1>5. \A n \in 1 .. N :
        plan.words[n].offset + plan.words[n].width <= c \/ next <= plan.words[n].offset
  BY <1>1, WalkTells, NextWordTells
<1>6. /\ i \in 1 .. Len(plan.segments) + 1
      /\ \A n \in 1 .. Len(plan.segments) : n < i =>
           plan.segments[n].offset + plan.segments[n].memory <= c
  BY <1>1, WalkTells, SegmentAheadTells
<1>7. \A o \in Bytes(c, e) : o \in Nat /\ c <= o /\ o < e /\ o \in Offsets
  BY <1>4 DEF Bytes, Offsets
<1>8. StretchHolds <=> \A o \in Bytes(c, e) : bytes[o] = StretchByte(o)
  BY <1>4 DEF StretchHolds, StretchByte
<1>9. StretchHolds => \A o \in Nat : c <= o /\ o < e => bytes[o] = Expected(o)
  <2> SUFFICES ASSUME StretchHolds, NEW o \in Nat, c <= o, o < e
               PROVE  bytes[o] = Expected(o)
    OBVIOUS
  <2>1. o \in Bytes(c, e)
    BY DEF Bytes
  <2> QED  BY <1>4, <1>8, <2>1
<1>10. ~ touched => StretchHolds
  <2> SUFFICES ASSUME ~ touched, NEW o \in Bytes(c, e)
               PROVE  bytes[o] = StretchByte(o)
    BY <1>8
  <2> QED  BY <1>1, <1>4, <1>7, WalkTells
<1>11. CASE ~ StretchHolds
  <2>1. Mismatch /\ touched
    BY <1>10, <1>11 DEF WalkStretch
  <2> QED  BY <1>1, <1>2, <2>1, MismatchKeeps
<1>12. CASE StretchHolds
  <2>1. /\ call' = [call EXCEPT !.cursor = e, !.segment = i]
        /\ result' = result /\ plan' = plan /\ bytes' = bytes
    BY <1>12 DEF WalkStretch
  <2>2. /\ call' \in WalkCalls /\ call'.cursor = e /\ call'.segment = i /\ call'.word = k
    <3> PICK x \in WalkCalls : x = call
      BY <1>1, WalkTells
    <3>1. call' = [x EXCEPT !.cursor = e, !.segment = i]
      BY <2>1
    <3>2. [x EXCEPT !.cursor = e, !.segment = i] \in WalkCalls
      BY CallMoves
    <3> QED  BY <3>1, <3>2 DEF WalkCalls
  <2>3. \A n \in 1 .. N :
          /\ plan.words[n].offset \in Nat /\ plan.words[n].width \in Nat \ {0}
    BY <1>1, WalkTells, PlanFields DEF WordsOK
  <2>4. \A n \in 1 .. N :
          IF n < k THEN plan.words[n].offset + plan.words[n].width <= e
          ELSE e <= plan.words[n].offset
    <3> TAKE n \in 1 .. N
    <3> PICK start \in Nat : start = plan.words[n].offset
      BY <2>3
    <3> PICK width \in Nat \ {0} : width = plan.words[n].width
      BY <2>3
    <3> PICK end \in Nat : end = start + width /\ start < end
      OBVIOUS
    <3>1. (n < k => end <= c) /\ (~ (n < k) => c <= start)
      BY <1>3
    <3>2. end <= c \/ next <= start
      BY <1>5
    <3>3. (n < k => end <= e) /\ (~ (n < k) => e <= start)
      BY <1>4, <3>1, <3>2
    <3> QED  BY <3>3
  <2>5. \A n \in 1 .. Len(plan.segments) : n < i =>
          plan.segments[n].offset + plan.segments[n].memory <= e
    <3> TAKE n \in 1 .. Len(plan.segments)
    <3> HAVE n < i
    <3> PICK end \in Nat : end = plan.segments[n].offset + plan.segments[n].memory
      BY <1>1, WalkTells, PlanFields DEF InOrder
    <3>1. end <= c
      BY <1>6
    <3> QED  BY <1>4, <3>1
  <2>6. \A o \in 0 .. e - 1 : o \notin disturbed => bytes[o] = Expected(o)
    <3> TAKE o \in 0 .. e - 1
    <3>1. CASE o < c
      <4>1. o \in 0 .. c - 1
        BY <3>1
      <4> QED  BY <1>3, <4>1
    <3>2. CASE c <= o
      BY <1>9, <1>12, <3>2
    <3> QED  BY <3>1, <3>2
  <2>7. \A o : Expected(o)' = Expected(o)
    BY <1>2, <2>1, ExpectedFixed
  <2>8. e \in 0 .. plan.size
    BY <1>4
  <2>9. WalkInStep'
    BY <1>2, <1>3, <1>6, <2>1, <2>2, <2>4, <2>5, <2>6, <2>7, <2>8 DEF WalkInStep, WalkCalls
  <2> QED  BY <1>1, <1>2, <2>1, <2>9, WalkGoesOn
<1> QED  BY <1>11, <1>12

LEMMA WalkEndKeeps ==
  ASSUME Rebasing, WalkEnd
  PROVE  ArenaInv'
<1>1. Walking /\ call.cursor = plan.size
  BY DEF WalkEnd
<1>2. /\ file' = file /\ audit' = audit /\ touched' = touched /\ disturbed' = disturbed
      /\ plan' = plan /\ bytes' = bytes
  BY DEF WalkEnd, collectionVars, auditVars
<1> PICK k : k = call.word
  OBVIOUS
<1> PICK N \in Nat : N = Len(plan.words)
  BY <1>1, WalkTells, PlanFields
<1> PICK size \in Nat : size = plan.size
  BY <1>1, WalkTells
<1>3. /\ k \in 1 .. N + 1
      /\ \A n \in 1 .. N : ~ (n < k) => size <= plan.words[n].offset
      /\ \A o \in 0 .. size - 1 : o \notin disturbed => bytes[o] = Expected(o)
  BY <1>1, WalkTells DEF WalkInStep
<1>4. k = N + 1
  <2>1. k \notin 1 .. N
    <3> SUFFICES ASSUME k \in 1 .. N
                 PROVE  FALSE
      OBVIOUS
    <3> PICK start \in Nat : start = plan.words[k].offset
      BY <1>1, WalkTells, PlanFields DEF WordsOK
    <3> PICK width \in Nat \ {0} : width = plan.words[k].width
      BY <1>1, WalkTells, PlanFields DEF WordsOK
    <3>1. start < size
      <4>1. plan.words[k].offset + plan.words[k].width <= size
        BY <1>1, WalkTells, PlanFields DEF WordsOK
      <4>2. start + width <= size
        BY <4>1
      <4> QED  BY ONLY <4>2, start \in Nat, width \in Nat \ {0}, size \in Nat
    <3>2. size <= start
      BY <1>3
    <3> QED  BY <3>1, <3>2
  <2> QED  BY <1>3, <2>1
<1>5. call' = None /\ result' = "Ok"
  BY <1>4 DEF WalkEnd, Done
<1>6. Offsets = 0 .. size - 1 /\ DOMAIN bytes = Offsets /\ plan # None
      /\ (~ touched => \A o \in Offsets : bytes[o] = Expected(o))
  BY <1>1, WalkTells
<1>7. Offsets' = Offsets /\ \A o : Expected(o)' = Expected(o)
  BY <1>2, ExpectedFixed
<1>8. \A o : Meant(call, o)' = Expected(o)
  <2>1. \A c, o : Meant(c, o)' = Meant(c, o)
    BY <1>2, MeantFixed
  <2> PICK next : next = call'
    OBVIOUS
  <2>2. \A o : Meant(next, o) = Expected(o)
    BY <1>5 DEF Meant
  <2> QED  BY <2>1, <2>2
<1>9. /\ DOMAIN bytes' = Offsets' /\ plan' # None
      /\ ~ touched' => \A o \in Offsets' : bytes'[o] = Meant(call, o)'
      /\ \A o \in Offsets' : o \notin disturbed' => bytes'[o] = Expected(o)'
  BY <1>2, <1>3, <1>6, <1>7, <1>8
<1> QED  BY <1>5, <1>9 DEF ArenaInv

LEMMA DisturbKeeps ==
  ASSUME Rebasing, bytes # None, NEW o \in Offsets, Disturb(o)
  PROVE  ArenaInv'
<1>1. plan # None /\ ArenaInv
  BY DEF Rebasing, ArenaInv
<1>2. /\ file' = file /\ audit' = audit /\ plan' = plan /\ call' = call /\ result' = result
      /\ touched' = TRUE
      /\ disturbed' = IF Walking /\ o >= call.cursor THEN disturbed ELSE disturbed \cup {o}
  BY DEF Disturb, collectionVars, auditVars
<1>3. PICK byte : bytes' = [bytes EXCEPT ![o] = byte]
  BY DEF Disturb
<1>4. DOMAIN bytes = Offsets
  BY <1>1 DEF ArenaInv
<1>5. DOMAIN bytes' = Offsets /\ \A p \in Offsets : p # o => bytes'[p] = bytes[p]
  BY <1>3, <1>4
<1>6. Offsets' = Offsets /\ \A p : Expected(p)' = Expected(p)
  BY <1>2, ExpectedFixed
<1>7. ASSUME call # None
      PROVE  WriteInStep' \/ WalkInStep'
  <2>1. CASE WriteInStep
    BY <1>2, <2>1 DEF WriteInStep
  <2>2. CASE WalkInStep
    <3>1. Walking
      BY <1>7, <2>2 DEF Walking, Idle, WalkInStep
    <3> PICK c \in Nat : c = call.cursor
      BY <2>2, <3>1, WalkTells DEF WalkInStep
    <3>2. ASSUME NEW p \in 0 .. c - 1, p \notin disturbed'
          PROVE  bytes'[p] = Expected(p)
      <4>1. p # o /\ p \notin disturbed
        <5>1. CASE o >= c
          BY <1>2, <3>1, <3>2, <5>1
        <5>2. CASE ~ (o >= c)
          BY <1>2, <3>2, <5>2
        <5> QED  BY <5>1, <5>2
      <4>2. bytes[p] = Expected(p)
        BY <2>2, <3>2, <4>1 DEF WalkInStep
      <4>3. p \in Offsets
        <5> PICK size \in Nat : size = plan.size
          BY <3>1, WalkTells
        <5>1. c <= size
          BY <2>2 DEF WalkInStep
        <5> QED  BY <3>2, <5>1 DEF Offsets
      <4> QED  BY <1>5, <4>1, <4>2, <4>3
    <3>3. \A p \in 0 .. call'.cursor - 1 : p \notin disturbed' => bytes'[p] = Expected(p)'
      BY <1>2, <1>6, <3>2
    <3> QED  BY <1>2, <2>2, <3>3 DEF WalkInStep
  <2> QED  BY <1>1, <1>7, <2>1, <2>2 DEF ArenaInv
<1>8. ASSUME call = None, result = "Ok", NEW p \in Offsets, p \notin disturbed'
      PROVE  bytes'[p] = Expected(p)
  <2>1. p # o /\ p \notin disturbed
    BY <1>2, <1>8 DEF Walking, Idle
  <2> QED  BY <1>1, <1>5, <1>8, <2>1 DEF ArenaInv
<1>9. DOMAIN bytes' = Offsets' /\ touched' /\ plan' # None
  BY <1>1, <1>2, <1>5, <1>6
<1>10. call' # None => WriteInStep' \/ WalkInStep'
  BY <1>2, <1>7
<1>11. call' = None /\ result' = "Ok" =>
         \A p \in Offsets' : p \notin disturbed' => bytes'[p] = Expected(p)'
  BY <1>2, <1>6, <1>8
<1> QED  BY <1>9, <1>10, <1>11 DEF ArenaInv

\* No check of new() is the readback's.
LEMMA NewNeverReads ==
  ASSUME AuditInv, NEW slide \in Slides
  PROVE  RebaseCheck(slide) # "ReadbackMismatch"
<1>1. \A r : WordCheck(r, slide) # "ReadbackMismatch"
  <2> TAKE r
  <2> DEFINE after == StoredValue(FileOf(r)) + slide
             offset == r.address - Base
             rules == <<
               <<~ KernelHolds(r),                          "OutsideKernelFileMapping">>,
               <<WritesHeader(r),                           "HeaderWrite">>,
               <<after > MaxAddress,                        "ValueOverflow">>,
               <<r.width = 4 /\ after > MaxHalf,            "ValueOverflow">>,
               <<offset < 0,                                "AddressOverflow">>,
               <<offset + r.width > ArenaSize,              "OutsideKernelFileMapping">> >>
  <2>1. FirstRefusal(rules) # "ReadbackMismatch"
    <3>1. DOMAIN rules = 1 .. 6 /\ \A n \in 1 .. 6 : rules[n][2] # "ReadbackMismatch"
      OBVIOUS
    <3> HIDE DEF rules
    <3>2. DOMAIN rules \subseteq Nat /\ \A n \in DOMAIN rules : rules[n][2] # "ReadbackMismatch"
      BY <3>1
    <3> QED  BY <3>2, RefusesAsOneOf
  <2> HIDE DEF rules
  <2>2. \/ WordCheck(r, slide) = "UnsupportedClassicProfile"
        \/ WordCheck(r, slide) = "OutsideKernelFileMapping"
        \/ WordCheck(r, slide) = FirstRefusal(rules)
    BY DEF WordCheck, rules
  <2> QED  BY <2>1, <2>2
<1> DEFINE checks == [i \in Classic |-> WordCheck(audit.records[i], slide)]
<1>2. CASE verdict = "Ok"
  <2>1. audit.records \in Seq(AuditRecords)
    BY <1>2 DEF AuditInv, AuditOK, Audits
  <2>2. DOMAIN checks \subseteq Nat
    BY <2>1 DEF Classic
  <2>3. \A i \in DOMAIN checks : checks[i] # "ReadbackMismatch"
    BY <1>1
  <2> HIDE DEF checks
  <2>4. FirstError(checks) # "ReadbackMismatch"
    BY <2>2, <2>3, FailsAsOneOf
  <2> QED  BY <2>4 DEF RebaseCheck, checks
<1>3. CASE verdict # "Ok"
  BY <1>3 DEF RebaseCheck
<1> QED  BY <1>2, <1>3

LEMMA NewPlanKeeps ==
  ASSUME Rebasing, NEW slide \in Slides, NewPlan(slide)
  PROVE  ArenaInv'
<1>1. /\ plan = None /\ bytes = None /\ call = None /\ AuditInv
      /\ bytes' = bytes /\ call' = call /\ touched' = touched
      /\ (result = "ReadbackMismatch" => touched)
  BY DEF NewPlan, Rebasing, ArenaInv, Planning
<1>2. RebaseCheck(slide) # "ReadbackMismatch"
  BY <1>1, NewNeverReads
<1>3. result' = "ReadbackMismatch" => touched'
  BY <1>1, <1>2 DEF NewPlan
<1> QED  BY <1>1, <1>3 DEF ArenaInv

\* What is not the rebase's leaves the arena as it is.
LEMMA OthersKeep ==
  ASSUME Rebasing, UNCHANGED rebaseVars, plan # None => file' = file /\ audit' = audit
  PROVE  ArenaInv'
<1>1. /\ plan' = plan /\ bytes' = bytes /\ call' = call /\ result' = result
      /\ disturbed' = disturbed /\ touched' = touched
  BY DEF rebaseVars
<1>2. ArenaInv
  BY DEF Rebasing
<1>3. CASE plan = None
  BY <1>1, <1>2, <1>3 DEF ArenaInv
<1>4. CASE plan # None
  <2>1. Offsets' = Offsets /\ \A o : Expected(o)' = Expected(o)
    BY <1>1, <1>4, ExpectedFixed
  <2>2. \A o : Meant(call, o)' = Meant(call, o)
    <3>1. \A c, o : Meant(c, o)' = Meant(c, o)
      BY <1>1, <1>4, MeantFixed
    <3> PICK next : next = call'
      OBVIOUS
    <3>2. \A o : Meant(next, o)' = Meant(next, o)
      BY <3>1
    <3> QED  BY <1>1, <3>2
  <2>3. call # None => WriteInStep' \/ WalkInStep'
    <3>1. WriteInStep => WriteInStep'
      BY <1>1 DEF WriteInStep
    <3>2. WalkInStep => WalkInStep'
      BY <1>1, <2>1 DEF WalkInStep
    <3> QED  BY <1>2, <3>1, <3>2 DEF ArenaInv
  <2>4. call # None \/ bytes # None =>
          /\ DOMAIN bytes = Offsets
          /\ ~ touched => \A o \in Offsets : bytes[o] = Meant(call, o)
    BY <1>2 DEF ArenaInv
  <2>5. call' # None \/ bytes' # None =>
          /\ DOMAIN bytes' = Offsets'
          /\ ~ touched' => \A o \in Offsets' : bytes'[o] = Meant(call, o)'
    BY <1>1, <2>1, <2>2, <2>4
  <2>6. call' = None /\ bytes' # None /\ result' = "Ok" =>
          \A o \in Offsets' : o \notin disturbed' => bytes'[o] = Expected(o)'
    BY <1>1, <1>2, <2>1 DEF ArenaInv
  <2> QED  BY <1>1, <1>2, <1>4, <2>3, <2>5, <2>6 DEF ArenaInv
<1> QED  BY <1>3, <1>4

LEMMA RebasingKeeps ==
  ASSUME Rebasing, [Next]_vars
  PROVE  Rebasing'
<1>1. Planning'
  BY PlanningKeeps DEF Rebasing
<1>2. plan # None => file' = file /\ audit' = audit
  BY PlanStays DEF Rebasing
<1>3. CASE AuditNext /\ UNCHANGED rebaseVars
  BY <1>1, <1>2, <1>3, OthersKeep DEF Rebasing
<1>4. CASE UNCHANGED vars
  BY <1>1, <1>2, <1>4, OthersKeep DEF Rebasing, vars
<1>5. ASSUME NEW slide \in Slides, NewPlan(slide)
      PROVE  Rebasing'
  BY <1>1, <1>5, NewPlanKeeps DEF Rebasing
<1>6. CASE Apply \/ WriteWord
  BY <1>1, <1>6, ApplyKeeps, WriteWordKeeps DEF Rebasing
<1>7. CASE WalkWord \/ WalkStretch \/ WalkEnd
  BY <1>1, <1>7, WalkWordKeeps, WalkStretchKeeps, WalkEndKeeps DEF Rebasing
<1>8. ASSUME NEW n, Verify(n)
      PROVE  Rebasing'
  BY <1>1, <1>8, VerifyKeeps DEF Rebasing
<1>9. ASSUME bytes # None, NEW o \in Offsets, Disturb(o)
      PROVE  Rebasing'
  BY <1>1, <1>9, DisturbKeeps DEF Rebasing
<1> QED  BY <1>3, <1>4, <1>5, <1>6, <1>7, <1>8, <1>9 DEF Next

\* RebaseIsExact for every collection, every slide and every change of the
\* arena from outside: Ok means that each byte was as it should be when it was
\* read, and a mismatch that some byte was changed.
THEOREM RebasesAreExact == Spec => []RebaseIsExact
<1>1. Init => Rebasing
  <2>1. Init => Planning
    BY OptionAssumption DEF Init, AuditInit, CollectionInit, AuditInv, Planning
  <2>2. ASSUME Init
        PROVE  ArenaInv
    <3>1. plan = None /\ bytes = None /\ call = None /\ result = None /\ ~ touched
      BY <2>2 DEF Init
    <3>2. result # "ReadbackMismatch"
      BY <3>1, CallAssumption
    <3> QED  BY <3>1, <3>2 DEF ArenaInv
  <2> QED  BY <2>1, <2>2 DEF Rebasing
<1>2. Rebasing => RebaseIsExact
  BY DEF Rebasing, ArenaInv, RebaseIsExact, Idle
<1> QED  BY <1>1, <1>2, RebasingKeeps, PTL DEF Spec

=============================================================================
