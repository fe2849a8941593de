----------------------------- MODULE StartupImages -----------------------------
(***************************************************************************)
(* The two startup companions of an ARM64 boot                             *)
(* (src/src/arm64_startup_image.rs): stage_startup_images() parses both,   *)
(* places them behind one another above what is occupied, and then, one    *)
(* after the other, zeroes the span of an image, copies its segments and   *)
(* reads the whole span back.                                              *)
(*                                                                         *)
(* The words of a header that name a format are one verdict ("head"), and  *)
(* so are the size words of a command ("shape"); what places bytes keeps   *)
(* its numbers.  The memory behind the slice may not hold what is written: *)
(* the bytes in "stuck" keep their value.                                  *)
(***************************************************************************)
EXTENDS Integers, Sequences, FiniteSets, Checks

CONSTANTS
  Companions,   \* pairs of files: [sptm, txm]
  Arenas,       \* [base, occupied, length]: physical_base, occupied_end, memory.len()
  StuckSets,    \* offsets that do not take a write
  PageSize,     \* PAGE_SIZE
  HeaderBytes,  \* of the Mach-O header (32)
  MaxFile,      \* MAX_FILE_SIZE
  MaxImage,     \* MAX_IMAGE_SIZE
  MaxSegments,  \* MAX_SEGMENTS
  MaxWord,      \* u32::MAX
  MaxPointer    \* u64::MAX

VARIABLES
  files,   \* the two sources
  arena,   \* where the slice is
  stuck,   \* what the memory behind it does not take
  memory,  \* the slice
  step,    \* where the call is
  returned \* by the call

startupVars == <<files, arena, stuck, memory, step, returned>>

ASSUME StartupAssumption ==
  /\ PageSize \in Nat \ {0}
  /\ {HeaderBytes, MaxFile, MaxImage, MaxSegments, MaxWord, MaxPointer} \subseteq Nat
  /\ \A a \in Arenas :
       {a.base, a.occupied, a.length} \subseteq 0 .. MaxPointer

\* A file has finitely many commands, and a segment command holds words.
ASSUME CompanionsAssumption ==
  \A c \in Companions, which \in {"sptm", "txm"} :
    LET commands == c[which].commands IN
    /\ DOMAIN commands \subseteq Nat /\ IsFiniteSet(DOMAIN commands)
    /\ \A i \in DOMAIN commands : commands[i].kind = "segment" =>
         LET s == commands[i] IN
         {s.vmaddr, s.vmsize, s.fileoff, s.filesize} \subseteq 0 .. MaxPointer

AlignUp(value) == ((value + PageSize - 1) \div PageSize) * PageSize

AlignDown(value) == (value \div PageSize) * PageSize

-----------------------------------------------------------------------------
(* Parsing one image *)

Of(file, kind) == {i \in DOMAIN file.commands : file.commands[i].kind = kind}

\* file_table() and bytes()
TableCheck(file, table) ==
  IF table.offset + table.bytes > file.length THEN "Truncated" ELSE "Ok"

VmEnd(s) == s.vmaddr + s.vmsize

\* validate_section()
SectionCheck(file, s, section) ==
  FirstRefusal(<<
    <<section.address + section.size > MaxPointer, "AddressOverflow">>,
    <<\/ section.address < s.vmaddr
      \/ section.address + section.size > VmEnd(s)
      \/ section.align > 31, "InvalidSegment">>,
    <</\ ~ section.zerofill /\ section.size # 0
      /\ \/ section.fileoff < s.fileoff
         \/ section.fileoff + section.size > s.fileoff + s.filesize, "InvalidSegment">>,
    <<TableCheck(file, section.relocations) # "Ok", "Truncated">> >>)

PagezeroCheck(file, i) ==
  LET s == file.commands[i]
  IN  IF \/ \E j \in Of(file, "pagezero") : j < i
         \/ s.vmaddr # 0 \/ s.vmsize = 0 \/ s.fileoff # 0 \/ s.filesize # 0
         \/ s.attributes # 0 \/ s.sections # <<>>
        THEN "InvalidSegment" ELSE "Ok"

SegmentCheck(file, i) ==
  LET s == file.commands[i]
      earlier == {j \in Of(file, "segment") : j < i}
  IN  IF \/ Cardinality(earlier) >= MaxSegments
         \/ s.vmsize = 0 \/ s.filesize > s.vmsize \/ VmEnd(s) > MaxPointer
        THEN "InvalidSegment"
      ELSE IF s.fileoff + s.filesize > file.length THEN "Truncated"
      ELSE FirstError([n \in DOMAIN s.sections |-> SectionCheck(file, s, s.sections[n])])

\* LC_SYMTAB and LC_DYSYMTAB: once each, with their tables in the file.
TablesCheck(file, i) ==
  LET c == file.commands[i]
  IN  IF \E j \in Of(file, c.kind) : j < i THEN "InvalidCommand"
      ELSE FirstError([n \in DOMAIN c.tables |-> TableCheck(file, c.tables[n])])

\* One turn of the loop over the load commands.
CommandCheck(file, i) ==
  LET c == file.commands[i]
  IN  IF c.shape # "Ok" THEN c.shape
      ELSE CASE c.kind = "pagezero" -> PagezeroCheck(file, i)
             [] c.kind = "segment" -> SegmentCheck(file, i)
             [] c.kind \in {"symtab", "dysymtab"} -> TablesCheck(file, i)
             [] c.kind = "thread" ->
                  IF \E j \in Of(file, "thread") : j < i THEN "InvalidCommand" ELSE "Ok"
             [] c.kind = "note" -> "Ok"          \* UUID, SOURCE_VERSION
             [] OTHER -> "UnsupportedCommand"

\* The symbols that LC_DYSYMTAB divides are those of LC_SYMTAB.
SymbolsCheck(file) ==
  IF Of(file, "dysymtab") = {} THEN "Ok"
  ELSE IF Of(file, "symtab") = {} THEN "InvalidCommand"
  ELSE LET ranges == file.commands[CHOOSE i \in Of(file, "dysymtab") : TRUE].ranges
           total == file.commands[CHOOSE i \in Of(file, "symtab") : TRUE].symbols
       IN  FirstError([n \in DOMAIN ranges |-> FirstRefusal(<<
             <<ranges[n].first + ranges[n].count > MaxWord, "AddressOverflow">>,
             <<ranges[n].first + ranges[n].count > total, "InvalidCommand">> >>)])

\* The segments in the order of their addresses.
Sorted(file) ==
  LET all == Of(file, "segment")
      Below(i) == {j \in all : \/ file.commands[j].vmaddr < file.commands[i].vmaddr
                               \/ file.commands[j].vmaddr = file.commands[i].vmaddr /\ j < i}
  IN  [n \in 1 .. Cardinality(all) |->
         file.commands[CHOOSE i \in all : Cardinality(Below(i)) = n - 1]]

\* A fault: neighbours are compared by what they hold in the file.
ApartInMemoryByFile(segments) ==
  \A n \in 1 .. Len(segments) - 1 :
    segments[n].vmaddr + segments[n].filesize <= segments[n + 1].vmaddr

ApartInMemory(segments) ==
  \A n \in 1 .. Len(segments) - 1 : VmEnd(segments[n]) <= segments[n + 1].vmaddr

\* overlaps()
FilesMeet(s, t) ==
  /\ s.filesize # 0 /\ t.filesize # 0
  /\ s.fileoff < t.fileoff + t.filesize /\ t.fileoff < s.fileoff + s.filesize

VirtualBase(segments) == AlignDown(segments[1].vmaddr)

Span(segments) == AlignUp(VmEnd(segments[Len(segments)])) - VirtualBase(segments)

LayoutCheck(file) ==
  LET segments == Sorted(file)
      zero == Of(file, "pagezero")
  IN  IF segments = <<>> THEN "MissingSegments"
      ELSE FirstRefusal(<<
        <<\E i \in zero : file.commands[i].vmsize > segments[1].vmaddr, "OverlappingRange">>,
        <<~ \E n \in DOMAIN segments :
              /\ segments[n].fileoff = 0
              /\ segments[n].filesize >= HeaderBytes + file.commandBytes, "InvalidHeader">>,
        <<~ ApartInMemory(segments), "OverlappingRange">>,
        <<\E m, n \in DOMAIN segments : m # n /\ FilesMeet(segments[m], segments[n]),
          "OverlappingRange">>,
        <<VmEnd(segments[Len(segments)]) + PageSize - 1 > MaxPointer, "AddressOverflow">>,
        <<Span(segments) = 0 \/ Span(segments) > MaxImage, "LimitExceeded">> >>)

\* parse_image()
ParseCheck(file) ==
  FirstRefusal(<<
    <<file.length > MaxFile, "LimitExceeded">>,
    <<file.head # "Ok", file.head>>,
    <<HeaderBytes + file.commandBytes > file.length, "Truncated">>,
    <<\E i \in DOMAIN file.commands : CommandCheck(file, i) # "Ok",
      FirstError([i \in DOMAIN file.commands |-> CommandCheck(file, i)])>>,
    <<~ file.closed, "InvalidCommand">>,
    <<SymbolsCheck(file) # "Ok", SymbolsCheck(file)>>,
    <<LayoutCheck(file) # "Ok", LayoutCheck(file)>> >>)

-----------------------------------------------------------------------------
(* Placing both *)

ArenaEnd(a) == a.base + a.length

\* A fault: the arena is used from its start, whatever is occupied.
FirstFreeInArena(a) == a.base

FirstFree(a) == IF a.occupied > a.base THEN a.occupied ELSE a.base

\* The spans of the two images, as the addresses they get.
SptmBase(a) == AlignUp(FirstFree(a))

TxmBase(a, sptmSpan) == AlignUp(SptmBase(a) + sptmSpan)

PlaceCheck(a, sptmSpan, txmSpan) ==
  FirstRefusal(<<
    <<ArenaEnd(a) > MaxPointer, "AddressOverflow">>,
    <<a.occupied > ArenaEnd(a), "ArenaBounds">>,
    <<FirstFree(a) + PageSize - 1 > MaxPointer, "AddressOverflow">>,
    <<SptmBase(a) + sptmSpan + PageSize - 1 > MaxPointer, "AddressOverflow">>,
    <<TxmBase(a, sptmSpan) + txmSpan > MaxPointer, "AddressOverflow">>,
    <<TxmBase(a, sptmSpan) + txmSpan > ArenaEnd(a), "ArenaBounds">> >>)

\* Everything that stage_startup_images() checks before it writes.
RequestCheck ==
  IF ParseCheck(files.sptm) # "Ok" THEN ParseCheck(files.sptm)
  ELSE IF ParseCheck(files.txm) # "Ok" THEN ParseCheck(files.txm)
  ELSE PlaceCheck(arena, Span(Sorted(files.sptm)), Span(Sorted(files.txm)))

\* StartupPlacement, without the counts of copied bytes.
Placement ==
  LET sptmSpan == Span(Sorted(files.sptm))
      txmSpan == Span(Sorted(files.txm))
      Image(base, file, span) ==
        [physicalBase |-> base, virtualBase |-> VirtualBase(Sorted(file)), bytes |-> span]
  IN  [sptm |-> Image(SptmBase(arena), files.sptm, sptmSpan),
       txm  |-> Image(TxmBase(arena, sptmSpan), files.txm, txmSpan),
       occupiedEnd |-> TxmBase(arena, sptmSpan) + txmSpan]

\* The slice of an image: where it starts in memory, and its size.
Slice(which) ==
  [start |-> Placement[which].physicalBase - arena.base, bytes |-> Placement[which].bytes]

-----------------------------------------------------------------------------
(* Staging one *)

\* A byte of memory: a byte of a file, the zero of a fill, or what was there.
Zeroed == <<"zero", 0>>
Old == <<"old", 0>>

\* Where the segments of an image lie in its slice.
Pieces(which) ==
  LET segments == Sorted(files[which])
  IN  [n \in DOMAIN segments |->
         [start |-> segments[n].vmaddr - VirtualBase(segments),
          bytes |-> segments[n].filesize,
          span  |-> segments[n].vmsize,
          from  |-> segments[n].fileoff]]

\* Byte i of a slice after "fill(0)" and the copies.
Filled(which, i) ==
  LET pieces == Pieces(which)
      holding == {n \in DOMAIN pieces :
                    pieces[n].start <= i /\ i < pieces[n].start + pieces[n].bytes}
  IN  IF holding = {} THEN Zeroed
      ELSE LET p == pieces[CHOOSE n \in holding : \A m \in holding : m <= n]
           IN  <<which, p.from + i - p.start>>

WriteImage(which) ==
  LET slice == Slice(which)
  IN  /\ step = <<"write", which>>
      /\ memory' = [a \in DOMAIN memory |->
                      IF /\ a \notin stuck
                         /\ slice.start <= a /\ a < slice.start + slice.bytes
                        THEN Filled(which, a - slice.start) ELSE memory[a]]
      /\ step' = <<"verify", which>>
      /\ UNCHANGED <<files, arena, stuck, returned>>

\* verify_zero()
ZeroCheck(slice, start, end) ==
  IF start > end \/ end > slice.bytes THEN "ArenaBounds"
  ELSE IF \E i \in start .. end - 1 : memory[slice.start + i] # Zeroed
    THEN "ReadbackMismatch" ELSE "Ok"

\* verify_bytes(), with the bytes of a file from an offset on
BytesCheck(slice, start, bytes, which, from) ==
  IF start + bytes > slice.bytes THEN "ArenaBounds"
  ELSE IF \E i \in 0 .. bytes - 1 : memory[slice.start + start + i] # <<which, from + i>>
    THEN "ReadbackMismatch" ELSE "Ok"

\* A fault: the zeroes behind the bytes of a segment are not read back.
PieceCheckToFileEnd(which, n, checked) ==
  LET p == Pieces(which)[n]
  IN  FirstError(<<ZeroCheck(Slice(which), checked, p.start),
                   BytesCheck(Slice(which), p.start, p.bytes, which, p.from)>>)

\* The gap in front of a segment, its bytes, and the zeroes up to its end.
PieceCheck(which, n, checked) ==
  LET p == Pieces(which)[n]
  IN  FirstError(<<ZeroCheck(Slice(which), checked, p.start),
                   BytesCheck(Slice(which), p.start, p.bytes, which, p.from),
                   ZeroCheck(Slice(which), p.start + p.bytes, p.start + p.span)>>)

ReadbackCheck(which) ==
  LET pieces == Pieces(which)
      Checked(n) == IF n = 0 THEN 0 ELSE pieces[n].start + pieces[n].span
  IN  FirstError([n \in 1 .. Len(pieces) + 1 |->
        IF n <= Len(pieces) THEN PieceCheck(which, n, Checked(n - 1))
        ELSE ZeroCheck(Slice(which), Checked(n - 1), Slice(which).bytes)])

VerifyImage(which, next) ==
  LET check == ReadbackCheck(which)
  IN  /\ step = <<"verify", which>>
      /\ step' = IF check = "Ok" THEN next ELSE <<"done">>
      /\ returned' = IF check = "Ok" /\ next # <<"done">> THEN returned ELSE check
      /\ UNCHANGED <<files, arena, stuck, memory>>

CheckRequest ==
  /\ step = <<"start">>
  /\ step' = IF RequestCheck = "Ok" THEN <<"write", "sptm">> ELSE <<"done">>
  /\ returned' = IF RequestCheck = "Ok" THEN returned ELSE RequestCheck
  /\ UNCHANGED <<files, arena, stuck, memory>>

StartupInit ==
  /\ files \in Companions
  /\ arena \in Arenas
  /\ stuck \in StuckSets
  /\ memory = [a \in 0 .. arena.length - 1 |-> Old]
  /\ step = <<"start">>
  /\ returned = "running"

StartupNext ==
  \/ CheckRequest
  \/ WriteImage("sptm")
  \/ VerifyImage("sptm", <<"write", "txm">>)
  \/ WriteImage("txm")
  \/ VerifyImage("txm", <<"done">>)

StartupSpec == StartupInit /\ [][StartupNext]_startupVars

-----------------------------------------------------------------------------
(* Properties *)

\* A call that reports anything but a readback mismatch has written nothing:
\* no error of the second image, of the placement or of a range is found
\* after the first image is in memory.
RefusalsWriteNothing ==
  returned \notin {"running", "Ok", "ReadbackMismatch"} =>
    \A a \in DOMAIN memory : memory[a] = Old

\* The byte that an image has at an address of its own, by its segments.
LinkedByte(which, address) ==
  IF \E i \in Of(files[which], "segment") :
       LET s == files[which].commands[i]
       IN  s.vmaddr <= address /\ address < s.vmaddr + s.filesize
    THEN LET s == files[which].commands[CHOOSE i \in Of(files[which], "segment") :
                    LET t == files[which].commands[i]
                    IN  t.vmaddr <= address /\ address < t.vmaddr + t.filesize]
         IN  <<which, s.fileoff + address - s.vmaddr>>
    ELSE Zeroed

\* Ok means that both images are in memory as they are linked, byte by byte,
\* holes and tails zeroed, even when memory does not take every write; and all
\* other bytes of the arena are as they were.
ImagesAreWhole ==
  returned = "Ok" =>
    \A a \in DOMAIN memory :
      memory[a] =
        IF \E w \in {"sptm", "txm"} :
             Slice(w).start <= a /\ a < Slice(w).start + Slice(w).bytes
          THEN LET w == CHOOSE w \in {"sptm", "txm"} :
                          Slice(w).start <= a /\ a < Slice(w).start + Slice(w).bytes
               IN  LinkedByte(w, VirtualBase(Sorted(files[w])) + a - Slice(w).start)
          ELSE Old

\* The request was accepted: something is written, or may be from now on.
Accepted ==
  \/ step[1] \in {"write", "verify"}
  \/ returned = "Ok"
  \/ \E a \in DOMAIN memory : memory[a] # Old

\* Before anything is written, and ever after, the two images lie on pages of
\* their own, apart, above all that is occupied and inside the arena, whatever
\* each of the two roundings adds.
PlacedApart ==
  Accepted =>
    LET first == Placement.sptm
        second == Placement.txm
    IN  /\ {first.physicalBase % PageSize, second.physicalBase % PageSize,
            first.virtualBase % PageSize, second.virtualBase % PageSize,
            Placement.occupiedEnd % PageSize} = {0}
        /\ arena.base <= first.physicalBase /\ arena.occupied <= first.physicalBase
        /\ first.physicalBase + first.bytes <= second.physicalBase
        /\ second.physicalBase + second.bytes <= Placement.occupiedEnd
        /\ Placement.occupiedEnd <= ArenaEnd(arena)

=============================================================================
