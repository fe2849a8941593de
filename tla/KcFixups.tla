------------------------------- MODULE KcFixups -------------------------------
(***************************************************************************)
(* The audit of what a kernel collection asks to be rewritten              *)
(* (src/src/kc_fixup_audit.rs) and the part of inspection that reads the   *)
(* tables it walks (parse_fixups).  Two mechanisms name words to rewrite:  *)
(* classic relocations, a table of displacements, and chains, where each   *)
(* word of a page says how far the next one is.  The audit writes nothing; *)
(* it records every word and every reason not to rewrite it.               *)
(*                                                                         *)
(* An image carries its decoded tables in "fixups", and a file the chained *)
(* words and the stored values found at its offsets.  An image is named by *)
(* the command that names it as a member, the collection by zero.  The     *)
(* audit repeats checks of parse_fixups on the same bytes, which are left  *)
(* out.                                                                    *)
(***************************************************************************)
EXTENDS KernelCollection, SequencesExt

CONSTANTS
  Limits,       \* AuditLimits a caller passes: [records, issues, pages]
  MaxRecords,   \* MAX_AUDIT_RECORDS, _ISSUES and _PAGE_STARTS
  PageSizes     \* page sizes of chains (4096, 16384)

VARIABLES
  limits,   \* the AuditLimits of the running audit
  audit,    \* the Audit: its records, issues and counts, how far its walk of the
            \* images is, and the words that overlaps() has passed
  verdict   \* what audit_kernel_collection_with_limits returned

auditVars == <<limits, audit, verdict>>

WordBytes == 8

\* A relocation entry: its length takes two bits and its displacement is signed.
Relocations ==
  [displacement : Int, length : 0 .. 3, type : Nat, symbol : Nat, pc : BOOLEAN,
   external : BOOLEAN]

Pages == [multi : BOOLEAN, starts : Seq(Nat), ended : BOOLEAN]

\* The chains of one segment; a table of them has a place for each segment.
ChainsOf(image) ==
  [segment : Kinds(image, {"segment"}), format : Nat, pageSize : Nat, pages : Seq(Pages),
   offset : Nat]

\* What a table and a word of a file can hold, by the width of their fields.
ASSUME FixupsAssumption ==
  \A f \in Files :
    /\ \A o \in DOMAIN f.words : f.words[o].next \in Nat
    /\ \A o \in DOMAIN f.images : LET tables == f.images[o].fixups IN
         /\ tables.writable \subseteq Kinds(f.images[o], {"segment"})
         /\ tables.local \in Seq(Relocations) /\ tables.external \in Seq(Relocations)
         /\ tables.sections \in Seq([address : Nat, size : Nat, entries : Seq(Relocations)])
         /\ tables.chains # None =>
              tables.chains.segments \in Seq(ChainsOf(f.images[o]))

\* Option::None is no number, and no verdict.
ASSUME OptionAssumption == None \notin Nat \cup {"Ok"}

NullWord == [target |-> 0, cache |-> 0, auth |-> FALSE, next |-> 0]

ChainWord(offset) == IF offset \in DOMAIN file.words THEN file.words[offset] ELSE NullWord

-----------------------------------------------------------------------------
(* Inspection of the chains of one image *)

WidthOf(format) == IF format \in {8, 11} THEN WordBytes ELSE 1

\* validate_page_start(), "backed" bytes of the segment from the page on
StartsInPage(start, chain, backed) ==
  start < chain.pageSize /\ start + WidthOf(chain.format) <= backed

Backed(s, chain, page) ==
  Max({0, Min({s.file.size, s.memory}) - (page - 1) * chain.pageSize})

ChainCheck(image, base, chain) ==
  LET s == image.commands[chain.segment] IN
  /\ (HeaderAddress(image, base) + chain.offset) % (MaxAddress + 1) = s.address
  /\ chain.pageSize \in PageSizes
  /\ (Len(chain.pages) - 1) * chain.pageSize < s.memory
  /\ \A p \in DOMAIN chain.pages : LET page == chain.pages[p] IN
       /\ \A i \in DOMAIN page.starts :
            StartsInPage(page.starts[i], chain, Backed(s, chain, p))
       /\ page.multi => page.ended

\* parse_fixups()
FixupsCheck(base) ==
  LET image == file.images[base] IN
  image.fixups.chains # None =>
    \A i \in DOMAIN image.fixups.chains.segments :
      ChainCheck(image, base, image.fixups.chains.segments[i])

-----------------------------------------------------------------------------
(* Mappings *)

\* mappings() without the empty ones, of which any number may start anywhere
Mappings(image) == {s \in Segments(image) : s.memory # 0}

\* containing(): the last mapping that starts at an address or before it
Holders(image, address, width) ==
  {s \in Mappings(image) :
     /\ s.address <= address
     /\ \A t \in Mappings(image) : t.address <= address => t.address <= s.address
     /\ address + width <= Limit(Memory(s))}

\* A fault: the zero tail of a segment counts as file.
LocationInMemory(image, address, width) ==
  {s.file.offset + (address - s.address) : s \in Holders(image, address, width)}

\* file_location(), as a set of at most one offset
Location(image, address, width) ==
  {s.file.offset + (address - s.address) :
     s \in {t \in Holders(image, address, width) : address + width <= t.address + t.file.size}}

MembersOfType(type) == {k \in Members : MemberImage(k).type = type}

\* member_ranges() and intersects(): merged ranges meet what one of them meets
Touches(type, write) ==
  \E k \in MembersOfType(type) : \E s \in Segments(MemberImage(k)) :
    Meets(Memory(s), write)

\* member_overlap()
Owner(address, width) ==
  IF address = None \/ address + width > MaxAddress THEN {}
  ELSE {type \in {"execute", "kext"} : Touches(type, FileRange(address, width))}

-----------------------------------------------------------------------------
(* What image() walks, in order: relocation entries, issues of the image, and  *)
(* for every page its start counts and chains.                                *)

Images == {0} \cup Members

\* Where the header of an image is.
BaseOf(i) == IF i = 0 THEN 0 ELSE Outer.commands[i].offset

ImageOf(i) == file.images[BaseOf(i)]

MinWritable(image) == Min(image.fixups.writable)

\* The address displacements count from.
ClassicBase(image) ==
  IF image.type = "kext" THEN image.commands[Min(Kinds(image, {"segment"}))].address
  ELSE IF image.fixups.writable = {} THEN None
  ELSE image.commands[MinWritable(image)].address

Entries(i, table, entries, base, size) ==
  [n \in DOMAIN entries |->
     [step |-> "entry", image |-> i, table |-> table, entry |-> entries[n],
      base |-> base, size |-> size]]

IssueIf(i, condition, code) ==
  IF condition THEN <<[step |-> "issue", image |-> i, code |-> code]>> ELSE <<>>

Count == [step |-> "count"]

Chain(i, chain, p, start) ==
  [step |-> "chain", image |-> i, chain |-> chain, page |-> p, start |-> start]

PageSteps(i, chain, p) ==
  LET page == chain.pages[p] IN
  <<Count>>
    \o IssueIf(i, page.multi, "UnsupportedMultiStartConsumer")
    \o FlattenSeq([n \in DOMAIN page.starts |->
         (IF page.multi THEN <<Count>> ELSE <<>>) \o <<Chain(i, chain, p, page.starts[n])>>])

ChainSteps(i, chain) ==
  IF chain.format # 11 THEN IssueIf(i, TRUE, "UnsupportedPointerFormat")
  ELSE FlattenSeq([p \in DOMAIN chain.pages |-> PageSteps(i, chain, p)])

ImageSteps(i) ==
  LET image == ImageOf(i)
      f == image.fixups
  IN  Entries(i, "LocalDynamic", f.local, ClassicBase(image), None)
        \o Entries(i, "ExternalDynamic", f.external, ClassicBase(image), None)
        \o FlattenSeq([n \in DOMAIN f.sections |->
             Entries(i, "Section", f.sections[n].entries,
                     f.sections[n].address, f.sections[n].size)])
        \o (IF f.chains = None THEN <<>>
            ELSE IssueIf(i, f.chains.imports # 0, "UnsupportedImports")
                   \o IssueIf(i, f.chains.symbols # 0, "UnsupportedCompressedSymbols")
                   \o FlattenSeq([n \in DOMAIN f.chains.segments |->
                        ChainSteps(i, f.chains.segments[n])]))

\* The collection, and its members in the order of their commands.
Steps ==
  FlattenSeq([n \in 1 .. Len(Outer.commands) + 1 |->
                IF n - 1 \in Images THEN ImageSteps(n - 1) ELSE <<>>])

-----------------------------------------------------------------------------
(* The audit *)

Return(value) ==
  /\ verdict' = value
  /\ UNCHANGED audit

FullAt(n, limit) == n > limit

\* push_bounded(), for the records and issues one step adds
Log(records, issues, next) ==
  IF \/ FullAt(Len(audit.records) + Len(records), limits.records)
     \/ FullAt(Len(audit.issues) + Len(issues), limits.issues)
    THEN Return("LimitExceeded")
    ELSE /\ audit' = [next EXCEPT !.records = @ \o records, !.issues = @ \o issues]
         /\ UNCHANGED verdict

Running == audit # None /\ verdict = None

Step == audit.todo[audit.at]

AtStep(step) ==
  Running /\ audit.at <= Len(audit.todo) /\ Step.step = step

Onwards == [audit EXCEPT !.at = @ + 1]

\* An AuditIssue; "record" is None for what is not about one record.
Issue(i, record, code) == [code |-> code, image |-> i, record |-> record]

Raised(i, record, codes) ==
  FlattenSeq([n \in DOMAIN codes |->
                IF codes[n][1] THEN <<Issue(i, record, codes[n][2])>> ELSE <<>>])

NextRecord == Len(audit.records) + 1

AddressOf(base, displacement) ==
  IF base = None \/ base + displacement \notin 0 .. MaxAddress THEN None
  ELSE base + displacement

\* Where a relocation is found both by its own image and by the collection.
BackedAt(image, address, width) ==
  IF address = None THEN {}
  ELSE Location(image, address, width) \cap Location(Outer, address, width)

\* 1u8 << length
Width(length) == <<1, 2, 4, 8>>[length + 1]

\* One turn of classic()
AuditEntry ==
  /\ AtStep("entry")
  /\ LET e == Step.entry
         i == Step.image
         width == Width(e.length)
         address == AddressOf(Step.base, e.displacement)
         found == BackedAt(ImageOf(i), address, width)
     IN  Log(<<[mechanism |-> "classic", image |-> i, table |-> Step.table,
                entry |-> e, address |-> address, file |-> found, width |-> width,
                owner |-> Owner(address, width)]>>,
             Raised(i, NextRecord, <<
               <<e.type # 0,                          "UnsupportedClassicType">>,
               <<e.length < 2,                        "UnsupportedClassicWidth">>,
               <<e.pc,                                "UnsupportedPcRelative">>,
               <<e.external \/ Step.table = "ExternalDynamic", "UnsupportedExternal">>,
               <<Step.base = None,                    "MissingClassicBase">>,
               <<Step.base # None /\ address = None,  "WriteAddressOverflow">>,
               <<Step.table = "Section" /\ e.displacement < 0, "NegativeSectionDisplacement">>,
               <<Step.size # None /\ (e.displacement < 0 \/ e.displacement + width > Step.size),
                                                      "WriteOutsideSection">>,
               <<found = {},                          "WriteOutsideFileMapping">> >>),
             Onwards)
  /\ UNCHANGED <<collectionVars, limits>>

AuditIssue ==
  /\ AtStep("issue")
  /\ Log(<<>>, <<Issue(Step.image, None, Step.code)>>, Onwards)
  /\ UNCHANGED <<collectionVars, limits>>

\* page_start()
CountPage ==
  /\ AtStep("count")
  /\ IF audit.pages >= limits.pages
       THEN Return("LimitExceeded")
       ELSE /\ audit' = [Onwards EXCEPT !.pages = @ + 1]
            /\ UNCHANGED verdict
  /\ UNCHANGED <<collectionVars, limits>>

\* One turn of the loop of chain(), at offset audit.word of the page
BeginChain ==
  /\ AtStep("chain")
  /\ audit.word = None
  /\ audit' = [audit EXCEPT !.word = Step.start, !.starts = @ + 1]
  /\ UNCHANGED <<collectionVars, limits, verdict>>

ChainEnd == [Onwards EXCEPT !.word = None]

ChainSegment == ImageOf(Step.image).commands[Step.chain.segment]

SegmentOffset == (Step.page - 1) * Step.chain.pageSize + audit.word

WordAddress == ChainSegment.address + SegmentOffset

WordFile == ChainSegment.file.offset + SegmentOffset

\* A fault: the word is compared with its segment alone.
WordIsInSegment ==
  SegmentOffset + WordBytes <= Min({ChainSegment.file.size, ChainSegment.memory})

WordIsMapped ==
  /\ SegmentOffset + WordBytes <= Min({ChainSegment.file.size, ChainSegment.memory})
  /\ Location(Outer, WordAddress, WordBytes) = {WordFile}

\* A fault: a chain goes on behind its page.
WordIsInSomePage == TRUE

WordIsInPage == audit.word < Step.chain.pageSize

AuditWordOutside ==
  /\ AtStep("chain")
  /\ audit.word # None
  /\ \/ /\ ~ WordIsInPage
        /\ Log(<<>>, <<Issue(Step.image, None, "ChainOutsidePage")>>, ChainEnd)
     \/ /\ WordIsInPage
        /\ ~ WordIsMapped
        /\ Log(<<>>, <<Issue(Step.image, None, "ChainOutsideFileMapping")>>, ChainEnd)
  /\ UNCHANGED <<collectionVars, limits>>

PrimaryBase == Min({s.address : s \in Segments(Outer)})

\* The next word of a page
Follow(word) ==
  IF word.next = 0 THEN [ChainEnd EXCEPT !.ended = @ + 1]
  ELSE [audit EXCEPT !.word = @ + word.next]

AuditWord ==
  /\ AtStep("chain")
  /\ audit.word # None
  /\ WordIsInPage
  /\ WordIsMapped
  /\ LET word == ChainWord(WordFile)
         i == Step.image
         noBase == word.cache # 0 \/ PrimaryBase = 0
         target == PrimaryBase + word.target
     IN  Log(<<[mechanism |-> "chain", image |-> i, page |-> <<Step.chain.segment, Step.page>>,
                address |-> WordAddress, file |-> {WordFile}, width |-> WordBytes,
                owner |-> Owner(WordAddress, WordBytes)]>>,
             Raised(i, NextRecord, <<
               <<noBase,                                    "MissingCacheBase">>,
               <<~ noBase /\ target > MaxAddress,           "PointerTargetOverflow">>,
               <<~ noBase /\ target <= MaxAddress /\ Holders(Outer, target, 1) = {},
                                                            "PointerTargetOutsideMappings">>,
               <<word.auth,                                 "UnsupportedAuthentication">> >>),
             Follow(word))
  /\ UNCHANGED <<collectionVars, limits>>

-----------------------------------------------------------------------------
(* Words that share bytes *)

Writes(records) == {i \in DOMAIN records : records[i].file # {}}

WriteEnd(r) == r.address + r.width

Before(records, i, j) ==
  \/ records[i].address < records[j].address
  \/ records[i].address = records[j].address /\ i < j

Mechanisms == {"classic", "chain"}

\* A fault: the end of the latest word is kept, not the furthest.
LatestEnd(furthest, r) == [furthest EXCEPT ![r.mechanism] = WriteEnd(r)]

Furthest(furthest, r) ==
  [furthest EXCEPT ![r.mechanism] = Max({@, WriteEnd(r)})]

OverlapCode(r, mechanism) ==
  IF mechanism = r.mechanism THEN "SameMechanismWriteOverlap" ELSE "CrossMechanismWriteOverlap"

Unswept == Writes(audit.records) \ audit.swept

\* One turn of overlaps(), which takes the words in order and remembers for each
\* mechanism how far its words reach, zero standing for none.
SweepWord(i) ==
  /\ Running
  /\ audit.at > Len(audit.todo)
  /\ \A j \in Unswept \ {i} : Before(audit.records, i, j)
  /\ LET r == audit.records[i] IN
       Log(<<>>,
           Raised(r.image, i, <<
             <<r.mechanism = "chain" /\ audit.lastChain = r.address, "DuplicateChainVisit">>,
             <<audit.furthest["classic"] > r.address,          OverlapCode(r, "classic")>>,
             <<audit.furthest["chain"] > r.address,            OverlapCode(r, "chain")>> >>),
           [audit EXCEPT !.swept = @ \cup {i},
                         !.furthest = Furthest(@, r),
                         !.lastChain = IF r.mechanism = "chain" THEN r.address ELSE @])
  /\ UNCHANGED <<collectionVars, limits>>

Finish ==
  /\ Running
  /\ audit.at > Len(audit.todo)
  /\ Unswept = {}
  /\ Return("Ok")
  /\ UNCHANGED <<collectionVars, limits>>

-----------------------------------------------------------------------------

LimitsValid(l) ==
  /\ l.records \in 1 .. MaxRecords
  /\ l.issues \in 1 .. MaxRecords
  /\ l.pages \in 1 .. MaxRecords

NewAudit ==
  [todo |-> Steps, at |-> 1, word |-> None, records |-> <<>>, issues |-> <<>>,
   pages |-> 0, starts |-> 0, ended |-> 0,
   swept |-> {}, furthest |-> [m \in Mechanisms |-> 0], lastChain |-> None]

\* inspect_kernel_collection(), which reads the chains with their images
MetadataCheck ==
  IF InspectCheck # "Ok" THEN InspectCheck
  ELSE IF \E i \in Images : ~ FixupsCheck(BaseOf(i)) THEN "InvalidFixups"
  ELSE "Ok"

\* audit_kernel_collection_with_limits(), up to its first image
BeginAudit(l) ==
  /\ verdict = None /\ audit = None
  /\ limits' = l
  /\ \/ /\ ~ LimitsValid(l)
        /\ Return("InvalidLimits")
        /\ UNCHANGED inspection
     \/ /\ LimitsValid(l)
        /\ inspection' = MetadataCheck
        /\ IF inspection' = "Ok"
             THEN audit' = NewAudit /\ UNCHANGED verdict
             ELSE Return("Metadata")
  /\ UNCHANGED file

AuditInit ==
  /\ CollectionInit
  /\ limits = None
  /\ audit = None
  /\ verdict = None

AuditNext ==
  \/ \E l \in Limits : BeginAudit(l)
  \/ AuditEntry
  \/ AuditIssue
  \/ CountPage
  \/ BeginChain
  \/ AuditWordOutside
  \/ AuditWord
  \/ Running /\ \E i \in Unswept : SweepWord(i)
  \/ Finish

AuditSpec == AuditInit /\ [][AuditNext]_<<collectionVars, auditVars>>

-----------------------------------------------------------------------------
(* Properties *)

Audited == verdict = "Ok"

WriteBytes(r) == r.address .. WriteEnd(r) - 1

\* An earlier word of a mechanism, in the order of the sweep, that shares a byte.
SharesWith(i, mechanism) ==
  \E j \in Writes(audit.records) :
    /\ Before(audit.records, j, i)
    /\ audit.records[j].mechanism = mechanism
    /\ WriteBytes(audit.records[i]) \cap WriteBytes(audit.records[j]) # {}

Reported(i, code) ==
  \E n \in DOMAIN audit.issues : audit.issues[n].record = i /\ audit.issues[n].code = code

\* The one pass of overlaps() over sorted words, with one remembered end for
\* each mechanism, names exactly the words that comparing every two would: the
\* ones that share a byte with an earlier word of their own mechanism, of the
\* other one, and the chained words an earlier chain has visited.
OverlapsAreFound ==
  Audited =>
    \A i \in Writes(audit.records) :
      LET r == audit.records[i]
          other == CHOOSE m \in Mechanisms : m # r.mechanism
      IN  /\ Reported(i, "SameMechanismWriteOverlap") <=> SharesWith(i, r.mechanism)
          /\ Reported(i, "CrossMechanismWriteOverlap") <=> SharesWith(i, other)
          /\ Reported(i, "DuplicateChainVisit") <=>
               /\ r.mechanism = "chain"
               /\ \E j \in 1 .. i - 1 :
                    /\ audit.records[j].mechanism = "chain"
                    /\ audit.records[j].address = r.address

\* A chained word starts in the page that its record names, of a chain of its
\* segment; it may end behind that page.
StartsInItsPage(image, r) ==
  \E n \in DOMAIN image.fixups.chains.segments :
    LET chain == image.fixups.chains.segments[n]
        segment == image.commands[chain.segment]
    IN  /\ r.page[1] = chain.segment
        /\ r.page[2] \in DOMAIN chain.pages
        /\ r.address - segment.address - (r.page[2] - 1) * chain.pageSize
             \in 0 .. chain.pageSize - 1

\* Where an audit without issues says a word is, it is: each of its bytes is
\* that byte of the file in the mapping of the collection and of its own image,
\* no byte is written twice, a chained word starts in the page of its chain,
\* and every chain was followed to its end (the checks of classic() and of
\* chain() against two lists of mappings and a page, and the stop of each chain).
CleanWritesAreBacked ==
  Audited /\ audit.issues = <<>> =>
    /\ \A i \in DOMAIN audit.records : LET r == audit.records[i] IN
         /\ \A n \in 0 .. r.width - 1 :
              /\ FilesAt(Outer, r.address + n) = {f + n : f \in r.file}
              /\ FilesAt(ImageOf(r.image), r.address + n) = {f + n : f \in r.file}
         /\ r.mechanism = "chain" => StartsInItsPage(ImageOf(r.image), r)
         /\ \A j \in DOMAIN audit.records :
              i # j => WriteBytes(r) \cap WriteBytes(audit.records[j]) = {}
    /\ audit.ended = audit.starts

=============================================================================
