--------------------------- MODULE KernelCollection ---------------------------
(***************************************************************************)
(* The inspection of a kernel collection (src/src/kernel_collection.rs):   *)
(* a file holds an outer Mach-O image, whose load commands map the file    *)
(* into memory and name member images, whose own headers map parts of the  *)
(* same file again.  Inspection accepts a collection only if every member  *)
(* is a view of the outer mapping.                                         *)
(*                                                                         *)
(* Modelled are the load commands that place things: segments, members and *)
(* entries.  Sections, symbol tables and fixups are left out, and so is    *)
(* the encoding of a header: a file gives the image found at an offset.    *)
(***************************************************************************)
EXTENDS Integers, Sequences, FiniteSets

CONSTANTS
  Files,             \* [length, images]: images by the offset of their header
  MaxAddress,        \* u64::MAX
  MinHeader,         \* bytes of a header without its commands (32)
  MaxSegments,       \* MAX_SEGMENTS, over all images of a file
  MaxMembers,        \* MAX_MEMBERS
  Profile,           \* "X86_64" or "Arm64"
  InstructionBytes,  \* bytes of an ARM64 instruction (4)
  None               \* Option::None

VARIABLES
  file,        \* the bytes given to the inspection
  inspection   \* what it returned

collectionVars == <<file, inspection>>

SegmentCommands ==
  [kind : {"segment"}, address : 0 .. MaxAddress, memory : 0 .. MaxAddress,
   file : [offset : 0 .. MaxAddress, size : 0 .. MaxAddress],
   executable : BOOLEAN]

Commands ==
  SegmentCommands
    \cup [kind : {"member"}, offset : 0 .. MaxAddress, address : 0 .. MaxAddress]
    \cup [kind : {"thread"}, pc : 0 .. MaxAddress]
    \cup [kind : {"main"}]

ASSUME CollectionAssumption ==
  /\ MaxAddress \in Nat
  /\ MinHeader \in Nat \ {0}
  /\ MaxSegments \in Nat
  /\ MaxMembers \in Nat
  /\ Profile \in {"X86_64", "Arm64"}
  /\ InstructionBytes \in Nat \ {0}

\* Files fit the address space, and so do their headers.
ASSUME FileAssumption ==
  \A f \in Files :
    /\ f.length \in 0 .. MaxAddress
    /\ DOMAIN f.images \subseteq 0 .. MaxAddress
    /\ \A o \in DOMAIN f.images :
         /\ f.images[o].commandBytes \in Nat
         /\ f.images[o].commands \in Seq(Commands)

-----------------------------------------------------------------------------
(* Ranges *)

FileRange(offset, size) == [offset |-> offset, size |-> size]

Limit(r) == r.offset + r.size

\* contains()
Encloses(outer, inner) ==
  /\ outer.offset <= inner.offset
  /\ Limit(inner) <= MaxAddress /\ Limit(outer) <= MaxAddress
  /\ Limit(inner) <= Limit(outer)

\* overlaps()
Meets(a, b) ==
  /\ a.size # 0 /\ b.size # 0
  /\ a.offset < Limit(b) /\ b.offset < Limit(a)

\* range() and file_range()
RangeCheck(r) ==
  IF Limit(r) > MaxAddress THEN "Overflow"
  ELSE IF Limit(r) > file.length THEN "Truncated"
  ELSE "Ok"

-----------------------------------------------------------------------------
(* One image *)

Memory(s) == FileRange(s.address, s.memory)

Kinds(image, kinds) ==
  {i \in DOMAIN image.commands : image.commands[i].kind \in kinds}

Segments(image) == {image.commands[i] : i \in Kinds(image, {"segment"})}

References(image) == {image.commands[i] : i \in Kinds(image, {"member"})}

HeaderSize(image) == MinHeader + image.commandBytes

First(indices) == CHOOSE i \in indices : \A j \in indices : i <= j

\* parse_segment()
SegmentCheck(s) ==
  IF RangeCheck(s.file) # "Ok" THEN RangeCheck(s.file)
  ELSE IF Limit(Memory(s)) > MaxAddress THEN "Overflow"
  ELSE IF s.file.size > s.memory THEN "InvalidSegment"
  ELSE "Ok"

MemberCommandCheck(c, earlier) ==
  IF Cardinality(earlier) = MaxMembers THEN "LimitExceeded"
  ELSE IF RangeCheck(FileRange(c.offset, MinHeader)) # "Ok"
    THEN RangeCheck(FileRange(c.offset, MinHeader))
  ELSE IF c.offset = 0 \/ \E m \in earlier : m.offset = c.offset \/ m.address = c.address
    THEN "DuplicateMember"
  ELSE "Ok"

\* One turn of the loop over the load commands; "used" segments of MAX_SEGMENTS
\* went to the images parsed before.
CommandCheck(image, i, outer, used) ==
  LET c == image.commands[i]
      before(kinds) == {j \in Kinds(image, kinds) : j < i}
  IN  CASE c.kind = "segment" ->
             IF used + Cardinality(before({"segment"})) >= MaxSegments
               THEN "LimitExceeded" ELSE SegmentCheck(c)
        [] c.kind = "member" ->
             IF outer
               THEN MemberCommandCheck(c, {image.commands[j] : j \in before({"member"})})
               ELSE "UnsupportedCommand"
        [] OTHER ->
             IF before({"thread", "main"}) # {} THEN "DuplicateEntry" ELSE "Ok"

FailingCommands(image, outer, used) ==
  {i \in DOMAIN image.commands : CommandCheck(image, i, outer, used) # "Ok"}

\* validate_nonoverlap(): sorted neighbours that do not meet are pairwise
\* disjoint, since the ranges compared are not empty.
Disjoint(image) ==
  \A i, j \in Kinds(image, {"segment"}) : i # j =>
    /\ ~ Meets(Memory(image.commands[i]), Memory(image.commands[j]))
    /\ ~ Meets(image.commands[i].file, image.commands[j].file)

Header(image, base) == FileRange(base, HeaderSize(image))

HeaderHolders(image, base) ==
  {i \in Kinds(image, {"segment"}) :
     Encloses(image.commands[i].file, Header(image, base))}

HeaderAddress(image, base) ==
  LET s == image.commands[First(HeaderHolders(image, base))]
  IN  s.address + (base - s.file.offset)

\* parse_image()
ImageCheck(base, outer, used) ==
  IF RangeCheck(FileRange(base, MinHeader)) # "Ok"
    THEN RangeCheck(FileRange(base, MinHeader))
  ELSE IF base \notin DOMAIN file.images THEN "UnsupportedFormat"
  ELSE LET image == file.images[base]
           failing == FailingCommands(image, outer, used)
       IN  IF image.type \notin (IF outer THEN {"fileset"} ELSE {"execute", "kext"})
             THEN "UnsupportedFileType"
           ELSE IF RangeCheck(FileRange(base + MinHeader, image.commandBytes)) # "Ok"
             THEN RangeCheck(FileRange(base + MinHeader, image.commandBytes))
           ELSE IF failing # {} THEN CommandCheck(image, First(failing), outer, used)
           ELSE IF Segments(image) = {} THEN "InvalidHeader"
           ELSE IF ~ Disjoint(image) THEN "OverlappingRange"
           ELSE IF HeaderHolders(image, base) = {} THEN "InvalidHeader"
           ELSE "Ok"

-----------------------------------------------------------------------------
(* The collection *)

Outer == file.images[0]

\* validate_collection_entry()
Enters(entry, s) ==
  /\ s.executable
  /\ s.address <= entry.pc
  /\ IF Profile = "Arm64"
       THEN entry.pc % InstructionBytes = 0
              /\ entry.pc - s.address + InstructionBytes <= s.file.size
       ELSE entry.pc - s.address < s.file.size

EntryCheck ==
  LET entries == Kinds(Outer, {"thread", "main"}) IN
  IF entries = {} THEN "MissingEntry"
  ELSE IF Kinds(Outer, {"main"}) # {} THEN "UnsupportedCollectionEntry"
  ELSE IF ~ \E i \in entries, s \in Segments(Outer) : Enters(Outer.commands[i], s)
    THEN "InvalidEntry"
  ELSE "Ok"

\* The entry of an accepted collection.
Entry == Outer.commands[First(Kinds(Outer, {"thread"}))].pc

\* A fault: a member header may be backed by any bytes of the collection.
IsBackedView(r, address) ==
  \E s \in Segments(Outer) : Encloses(s.file, r)

\* is_collection_view(): both differences exist, since the file of s encloses r.
IsCollectionView(r, address) ==
  \E s \in Segments(Outer) :
    /\ Encloses(s.file, r)
    /\ address - s.address = r.offset - s.file.offset

\* A fault: a view's zero tail is not compared.
SegmentIsViewOfFile(s) ==
  s.file.size # 0 => IsCollectionView(s.file, s.address)

SegmentIsView(s) ==
  /\ s.memory # 0 => \E o \in Segments(Outer) : Encloses(Memory(o), Memory(s))
  /\ s.file.size # 0 => IsCollectionView(s.file, s.address)

Members == Kinds(Outer, {"member"})

MemberImage(k) == file.images[Outer.commands[k].offset]

\* Segments of the images parsed before the member of command k.
Used(k) ==
  Cardinality(Kinds(Outer, {"segment"}))
    + Cardinality(UNION {{m} \X Kinds(MemberImage(m), {"segment"}) :
                           m \in {n \in Members : n < k}})

MemberCheck(k) ==
  LET reference == Outer.commands[k]
      check == ImageCheck(reference.offset, FALSE, Used(k))
      image == MemberImage(k)
  IN  IF check # "Ok" THEN check
      ELSE IF image.subtype # Outer.subtype THEN "UnsupportedCpu"
      ELSE IF HeaderAddress(image, reference.offset) # reference.address
        THEN "InvalidMemberMapping"
      ELSE IF ~ IsCollectionView(Header(image, reference.offset), reference.address)
        THEN "InvalidMemberMapping"
      ELSE IF \E s \in Segments(image) : ~ SegmentIsView(s)
        THEN "InvalidMemberMapping"
      ELSE "Ok"

FailingMembers == {k \in Members : MemberCheck(k) # "Ok"}

\* inspect_profile()
InspectCheck ==
  IF ImageCheck(0, TRUE, 0) # "Ok" THEN ImageCheck(0, TRUE, 0)
  ELSE IF EntryCheck # "Ok" THEN EntryCheck
  ELSE IF Members = {} THEN "InvalidHeader"
  ELSE IF FailingMembers # {} THEN MemberCheck(First(FailingMembers))
  ELSE "Ok"

Accepted == InspectCheck = "Ok"

Inspect ==
  /\ inspection = None
  /\ inspection' = InspectCheck
  /\ UNCHANGED file

CollectionInit == file \in Files /\ inspection = None

CollectionNext == Inspect

CollectionSpec == CollectionInit /\ [][CollectionNext]_collectionVars

-----------------------------------------------------------------------------
(* Properties *)

\* The file bytes an image's own load commands put at an address.
FilesAt(image, address) ==
  {s.file.offset + (address - s.address) :
     s \in {t \in Segments(image) :
             t.address <= address /\ address < t.address + t.file.size}}

MappedBy(image, address) ==
  \E s \in Segments(image) : s.address <= address /\ address < Limit(Memory(s))

\* Every member of an accepted collection is a view of it: wherever a member's
\* own header puts a byte of the file, the collection puts that very byte, and
\* no member owns memory outside the collection (the checks of inspect_profile
\* over two coordinate systems and two lists of segments).
MembersAreViews ==
  Accepted =>
    \A k \in Members, address \in 0 .. MaxAddress :
      /\ FilesAt(MemberImage(k), address) \subseteq FilesAt(Outer, address)
      /\ MappedBy(MemberImage(k), address) => MappedBy(Outer, address)

\* The whole header of a member lies in memory where the collection's member
\* command says, though its address was computed from the member's segments.
HeadersAreMapped ==
  Accepted =>
    \A k \in Members : LET m == Outer.commands[k] IN
      \A n \in 0 .. HeaderSize(MemberImage(k)) - 1 :
        m.offset + n \in FilesAt(Outer, m.address + n)

=============================================================================
