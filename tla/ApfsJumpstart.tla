----------------------------- MODULE ApfsJumpstart -----------------------------
(***************************************************************************)
(* Extraction of the EFI driver of an APFS container                       *)
(* (src/src/apfs_jumpstart.rs): a chain of reads of a source, each of      *)
(* which decides where the next one goes.  A prefix of block 0 gives a     *)
(* block size; block 0 gives the geometry of the container and the block   *)
(* of the record; the record gives the extents of the driver; then the     *)
(* driver is read block by block.                                          *)
(*                                                                         *)
(* The source may fail at any read, and what is behind it may be replaced  *)
(* between two reads.  An object is its words, with a verdict on its       *)
(* checksum ("valid") and on the words of its type ("sound"); a byte of    *)
(* driver data is the medium it is read from and its offset.               *)
(***************************************************************************)
EXTENDS Integers, Sequences, Checks

CONSTANTS
  Media,          \* [label, super, records]: records by offset
  Replacements,   \* media that one may be replaced with
  Calls,          \* [partition, maxDriver, maxExtents]
  MinBlock,       \* MIN_BLOCK_SIZE
  MaxBlock,       \* MAX_BLOCK_SIZE
  PowersOfTwo,    \* block sizes are one of them
  PrefixBytes,    \* of the first read (40)
  MinContainer,   \* MIN_CONTAINER_BYTES
  TableStart,     \* JSDR_EXTENTS
  ExtentBytes,    \* EXTENT_SIZE
  MaxSigned,      \* i64::MAX
  MaxAddress,     \* u64::MAX
  MaxChanges,     \* a bound on the replacements of a behaviour
  None

VARIABLES
  asked,      \* the call's arguments
  medium,     \* what is behind the source
  changes,    \* how often it was replaced
  phase,      \* the next read
  blockSize,  \* of the buffer "block"
  prefix,     \* the first bytes of block 0
  super,      \* the block 0 that was accepted
  record,     \* the record that was accepted
  turn,       \* of the loops over extents and their blocks
  bytes,      \* the driver, as far as it is read
  reads,      \* what was asked of the source: [offset, size]
  result      \* what the call returned

jumpstartVars ==
  <<asked, medium, changes, phase, blockSize, prefix, super, record, turn, bytes, reads, result>>

ASSUME JumpstartAssumption ==
  /\ MinBlock \in Nat \ {0} /\ MaxBlock \in Nat /\ MaxAddress \in Nat
  /\ PrefixBytes \in 0 .. MinBlock
  /\ \A c \in Calls : c.partition \in 0 .. MaxAddress

\* What is read is words.
ASSUME MediaAssumption ==
  \A m \in Media \cup Replacements :
    /\ {m.super.blockSize, m.super.blocks, m.super.jumpstart} \subseteq 0 .. MaxAddress
    /\ \A offset \in DOMAIN m.records :
         /\ m.records[offset] # None
         /\ m.records[offset].length \in 0 .. MaxAddress
         /\ m.records[offset].extents \in Seq([start : 0 .. MaxAddress, count : 0 .. MaxAddress])

ASSUME NoneAssumption == None \notin [extent : Nat, index : Nat, needed : Nat]

-----------------------------------------------------------------------------
(* Ranges *)

\* block_range() of blocks, given what a container has
BlocksCheck(start, count, blocks, size) ==
  IF start + count > MaxAddress THEN "ArithmeticOverflow"
  ELSE IF start + count > blocks THEN "OutOfBounds"
  ELSE IF start * size > MaxAddress THEN "ArithmeticOverflow"
  ELSE "Ok"

\* read_bounded(), before it calls the source
BoundCheck(limit, offset, size) ==
  IF offset + size > MaxAddress THEN "ArithmeticOverflow"
  ELSE IF offset + size > limit THEN "OutOfBounds"
  ELSE "Ok"

PositiveCheck(address) == IF address > MaxSigned THEN "NegativeAddress" ELSE "Ok"

-----------------------------------------------------------------------------
(* Block 0 *)

\* The words in the first bytes of block 0; the checksum is one of them.
Prefix(s) == <<s.checksum, s.magic, s.sound, s.blockSize>>

\* check_object(); the record's object id is its block.
ObjectCheck(object, ids) ==
  FirstRefusal(<<
    <<~ object.valid, "BadChecksum">>,
    <<~ object.magic, "BadMagic">>,
    <<~ object.sound \/ object.id \notin ids, "InvalidObject">> >>)

\* A fault: what the prefix said is not compared with the block.
UnchangedUnasked(s) == TRUE

UnchangedSince(s) == Prefix(s) = prefix

\* Everything that is checked in block 0, in order.
SuperCheck(s) ==
  LET container == s.blocks * blockSize
      object == ObjectCheck(s, {s.id})
      positive == PositiveCheck(s.jumpstart)
      range == BlocksCheck(s.jumpstart, 1, s.blocks, blockSize)
  IN  FirstRefusal(<<
        <<~ UnchangedSince(s), "SourceChanged">>,
        <<object # "Ok", object>>,
        <<container > MaxAddress, "ArithmeticOverflow">>,
        <<container < MinContainer, "InvalidContainerSize">>,
        <<container > asked.partition, "OutOfBounds">>,
        <<s.fusion, "UnsupportedFusion">>,
        <<~ s.features, "UnsupportedFeatures">>,
        <<positive # "Ok", positive>>,
        <<s.jumpstart = 0, "NoJumpstart">>,
        <<range # "Ok", range>> >>)

-----------------------------------------------------------------------------
(* The record *)

\* What the first n extents hold, for every n.
Held(extents, size) ==
  LET held[n \in 0 .. Len(extents)] ==
        IF n = 0 THEN 0 ELSE held[n - 1] + extents[n].count * size
  IN  held

ExtentCheck(e, capacity) ==
  LET range == BlocksCheck(e.start, e.count, super.blocks, blockSize)
  IN  FirstRefusal(<<
        <<PositiveCheck(e.start) # "Ok", "NegativeAddress">>,
        <<e.count = 0, "EmptyExtent">>,
        <<range # "Ok", range>>,
        <<e.count * blockSize > MaxAddress \/ capacity > MaxAddress, "ArithmeticOverflow">> >>)

\* The table and all extents are checked before any of them is read.
RecordCheck(r) ==
  LET object == ObjectCheck(r, {super.jumpstart})
      count == Len(r.extents)
      held == Held(r.extents, blockSize)
      extents == FirstError([i \in 1 .. count |-> ExtentCheck(r.extents[i], held[i])])
  IN  FirstRefusal(<<
        <<object # "Ok", object>>,
        <<~ r.version, "UnsupportedVersion">>,
        <<r.length = 0, "InvalidFileLength">>,
        <<r.length > asked.maxDriver, "DriverTooLarge">>,
        <<count = 0, "InvalidExtentCount">>,
        <<count > asked.maxExtents, "TooManyExtents">>,
        <<TableStart + count * ExtentBytes > blockSize, "ExtentTableOutOfBounds">>,
        <<extents # "Ok", extents>>,
        <<held[count] < r.length, "InsufficientExtentCapacity">> >>)

\* What a read of a block finds where there is no record.
NoRecord == [valid |-> FALSE, magic |-> FALSE, sound |-> FALSE, id |-> 0, version |-> FALSE,
             length |-> 0, extents |-> <<>>]

RecordAt(offset) ==
  IF offset \in DOMAIN medium.records THEN medium.records[offset] ELSE NoRecord

-----------------------------------------------------------------------------
(* The driver *)

LeastOf(a, b) == IF a < b THEN a ELSE b

\* The turns through the blocks of an extent: those that the file still needs.
TurnsThrough(n, r, missing) ==
  [extent |-> n, index |-> 0,
   needed |-> LeastOf(r.extents[n].count, (missing + blockSize - 1) \div blockSize)]

\* The turn that follows when so many bytes are missing, or None.
NextTurn(missing) ==
  IF turn.index + 1 < turn.needed THEN [turn EXCEPT !.index = @ + 1]
  ELSE IF turn.extent = Len(record.extents) \/ missing = 0 THEN None
  ELSE TurnsThrough(turn.extent + 1, record, missing)

\* A fault: the last block is taken with its padding.
TakenWhole(missing) == blockSize

\* What the file takes of a block.
Taken(missing) == LeastOf(missing, blockSize)

Data(offset, size) == [i \in 1 .. size |-> <<medium.label, offset + i - 1>>]

-----------------------------------------------------------------------------
(* The call: one step for each read *)

Return(check, next) ==
  IF check = "Ok" THEN phase' = next /\ result' = IF next = "done" THEN "Ok" ELSE result
  ELSE phase' = "done" /\ result' = check

\* The bounds of a read were checked: it is asked of the source.
Ask(offset, size) == reads' = Append(reads, [offset |-> offset, size |-> size])

PrefixCheck ==
  LET size == medium.super.blockSize
  IN  IF size \in MinBlock .. MaxBlock /\ size \in PowersOfTwo THEN "Ok" ELSE "InvalidBlockSize"

ReadPrefix ==
  LET bound == IF asked.maxDriver = 0 \/ asked.maxExtents = 0 THEN "InvalidLimits"
               ELSE BoundCheck(asked.partition, 0, PrefixBytes)
  IN  /\ phase = "prefix"
      /\ IF bound # "Ok"
           THEN Return(bound, "done") /\ UNCHANGED <<blockSize, prefix, reads>>
           ELSE /\ Ask(0, PrefixBytes)
                /\ Return(PrefixCheck, "super")
                /\ blockSize' = medium.super.blockSize
                /\ prefix' = Prefix(medium.super)
      /\ UNCHANGED <<asked, medium, changes, super, record, turn, bytes>>

ReadSuper ==
  LET bound == BoundCheck(asked.partition, 0, blockSize)
      check == SuperCheck(medium.super)
  IN  /\ phase = "super"
      /\ IF bound # "Ok"
           THEN Return(bound, "done") /\ UNCHANGED <<super, reads>>
           ELSE /\ Ask(0, blockSize)
                /\ Return(check, "record")
                /\ super' = IF check = "Ok" THEN medium.super ELSE super
      /\ UNCHANGED <<asked, medium, changes, blockSize, prefix, record, turn, bytes>>

ReadRecord ==
  LET offset == super.jumpstart * blockSize
      bound == BoundCheck(super.blocks * blockSize, offset, blockSize)
      found == RecordAt(offset)
      check == RecordCheck(found)
  IN  /\ phase = "record"
      /\ IF bound # "Ok"
           THEN Return(bound, "done") /\ UNCHANGED <<record, turn, reads>>
           ELSE /\ Ask(offset, blockSize)
                /\ Return(check, "driver")
                /\ record' = IF check = "Ok" THEN found ELSE record
                /\ turn' = IF check = "Ok" THEN TurnsThrough(1, found, found.length) ELSE turn
      /\ UNCHANGED <<asked, medium, changes, blockSize, prefix, super, bytes>>

\* One turn of the inner loop: a block, of which the file may need a part.
ReadDriver ==
  LET address == record.extents[turn.extent].start + turn.index
      offset == address * blockSize
      check == FirstError(<<BlocksCheck(address, 1, super.blocks, blockSize),
                            BoundCheck(super.blocks * blockSize, offset, blockSize)>>)
      missing == record.length - Len(bytes)
      next == NextTurn(missing - Taken(missing))
  IN  /\ phase = "driver"
      /\ IF check # "Ok"
           THEN Return(check, "done") /\ UNCHANGED <<turn, bytes, reads>>
           ELSE /\ Ask(offset, blockSize)
                /\ bytes' = bytes \o Data(offset, Taken(missing))
                /\ turn' = next
                /\ Return("Ok", IF next = None THEN "done" ELSE "driver")
      /\ UNCHANGED <<asked, medium, changes, blockSize, prefix, super, record>>

\* The source reports an error of its own.
ReadFails ==
  /\ phase # "done"
  /\ phase' = "done"
  /\ result' = "Io"
  /\ UNCHANGED <<asked, medium, changes, blockSize, prefix, super, record, turn, bytes, reads>>

Replace ==
  /\ phase # "done"
  /\ changes < MaxChanges
  /\ changes' = changes + 1
  /\ medium' \in Replacements \ {medium}
  /\ UNCHANGED <<asked, phase, blockSize, prefix, super, record, turn, bytes, reads, result>>

JumpstartInit ==
  /\ asked \in Calls
  /\ medium \in Media
  /\ changes = 0
  /\ phase = "prefix"
  /\ blockSize = 0
  /\ prefix = None /\ super = None /\ record = None /\ turn = None
  /\ bytes = <<>> /\ reads = <<>>
  /\ result = "running"

JumpstartNext ==
  ReadPrefix \/ ReadSuper \/ ReadRecord \/ ReadDriver \/ ReadFails \/ Replace

JumpstartSpec == JumpstartInit /\ [][JumpstartNext]_jumpstartVars

-----------------------------------------------------------------------------
(* Properties *)

\* Where the bytes of a driver are: those of the extents that its record lists,
\* in their order, up to its length.
DriverOffsets(r, size) ==
  LET held == Held(r.extents, size)
      ExtentOf(i) == CHOOSE n \in DOMAIN r.extents : held[n - 1] < i /\ i <= held[n]
  IN  [i \in 1 .. r.length |->
         r.extents[ExtentOf(i)].start * size + (i - held[ExtentOf(i) - 1]) - 1]

\* Ok means the whole driver of the record that was accepted, whatever the
\* source does between two reads; from a source that did not change, its own.
DriverIsWhole ==
  result = "Ok" =>
    /\ [i \in DOMAIN bytes |-> bytes[i][2]] = DriverOffsets(record, super.blockSize)
    /\ changes = 0 =>
         /\ super = medium.super
         /\ record = medium.records[super.jumpstart * super.blockSize]
         /\ \A i \in DOMAIN bytes : bytes[i][1] = medium.label

\* Even if the source changes, all that is read behind block 0 is addressed in
\* the geometry of the one block 0 that was accepted: no read uses the size of
\* an earlier prefix, leaves that container, or the caller's partition.
OneGeometry ==
  \A i \in DOMAIN reads :
    /\ reads[i].offset + reads[i].size <= asked.partition
    /\ i > 2 => /\ reads[i].size = super.blockSize
                /\ reads[i].offset % super.blockSize = 0
                /\ reads[i].offset + reads[i].size <= super.blocks * super.blockSize

\* Driver data is read only after the record and all its extents were accepted,
\* only where an extent is, and no more blocks than the file needs, however
\* much an extent has.
OnlyNeededReads ==
  /\ Len(reads) > 3 => record # None
  /\ record # None =>
       /\ \A i \in 4 .. Len(reads) :
            \E n \in DOMAIN record.extents :
              LET e == record.extents[n]
                  block == reads[i].offset \div super.blockSize
              IN  e.start <= block /\ block < e.start + e.count
       /\ (Len(reads) - 4) * super.blockSize < record.length

\* Whatever the source does between two reads, no read leaves what was accepted
\* before it, and none is made that the driver does not need.
ReadsStayInside == OneGeometry /\ OnlyNeededReads

=============================================================================
