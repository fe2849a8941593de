----------------------------- MODULE Stage1Tables -----------------------------
(***************************************************************************)
(* The construction of the stage-1 translation tables of an ARM64 machine, *)
(* Arm64Stage1Tables in src/src/arm64_stage1_tables.rs.                    *)
(*                                                                         *)
(* Two roots, one for each half of the virtual addresses, lead through     *)
(* three levels of tables to pages of RAM: the lower half maps RAM to      *)
(* itself, the upper half maps it at a linear base and, perhaps, at        *)
(* further aliases.  Tables are made where a page first needs one, behind  *)
(* one another in one vector, whose first byte is meant to be the first    *)
(* guest address above RAM.  Each step maps one page, as map_page() does.  *)
(*                                                                         *)
(* A descriptor is the number the code stores: an address with its bits.   *)
(***************************************************************************)
EXTENDS Integers, Sequences, FiniteSetsExt

CONSTANTS
  Requests,       \* the arguments of new() (aliases = None) or new_with_aliases()
  MaxAddress,     \* u64::MAX
  Slots,          \* descriptors of a table
  PageSize,       \* PAGE_SIZE, also the size of a table
  TableBits,      \* the bits of a descriptor that names a table
  PageBits,       \* the bits of a descriptor that names a page
  MaxMemory,      \* MAX_MEMORY_SIZE
  MaxAliasBytes,  \* MAX_ALIAS_BYTES
  MaxAliases,     \* aliases of a set of tables (2)
  MaxTableBytes,  \* MAX_TABLE_BYTES
  PaEnd,          \* PA_END
  None

VARIABLES
  request,  \* what the tables are made for
  tables,   \* the tables so far, each a function from its slots to descriptors
  loop,     \* the loop the constructor is in, and the page it is at
  result    \* what the constructor returned, or None

stageVars == <<request, tables, loop, result>>

LowEnd == PageSize * Slots * Slots * Slots    \* LOW_END

HighStart == MaxAddress + 1 - LowEnd          \* HIGH_START

\* The most tables of which each spans a number of pages that a range can touch.
Touched(pages, span) == (pages + 2 * span - 2) \div span

\* The most tables that a range of addresses can need behind a root.
TablesFor(bytes) ==
  Touched(bytes \div PageSize, Slots) + Touched(bytes \div PageSize, Slots * Slots)

\* Halves that do not meet, on a boundary of the first level; and room for the
\* tables of the largest request.
ASSUME GeometryAssumption ==
  /\ {MaxAddress, MaxMemory, MaxAliasBytes, MaxAliases, MaxTableBytes, PaEnd} \subseteq Nat
  /\ Slots \in Nat \ {0, 1} /\ PageSize \in Nat \ {0, 1}
  /\ {TableBits, PageBits} \subseteq 1 .. PageSize - 1
  /\ (MaxAddress + 1) % LowEnd = 0 /\ PaEnd <= MaxAddress /\ PaEnd % PageSize = 0
  /\ MaxMemory % PageSize = 0 /\ MaxAliasBytes % PageSize = 0
  /\ (2 + 2 * TablesFor(MaxMemory) + MaxAliases * TablesFor(MaxAliasBytes)) * PageSize
       <= MaxTableBytes
  /\ LowEnd + MaxTableBytes <= PaEnd

\* The arguments are u64s.
ASSUME RequestAssumption ==
  /\ None \notin Nat
  /\ \A r \in Requests :
       /\ {r.physBase, r.virtBase, r.size} \subseteq 0 .. MaxAddress
       /\ r.aliases # None =>
            /\ DOMAIN r.aliases = 1 .. Len(r.aliases) /\ Len(r.aliases) \in Nat
            /\ \A i \in DOMAIN r.aliases :
                 {r.aliases[i].virtBase, r.aliases[i].physBase, r.aliases[i].bytes}
                   \subseteq 0 .. MaxAddress

-----------------------------------------------------------------------------
(* The checks of the arguments *)

Overlaps(aStart, aEnd, bStart, bEnd) == aStart < bEnd /\ bStart < aEnd

Unaligned(addresses) == \E n \in addresses : n % PageSize # 0

TableBase == request.physBase + request.size

\* new()
RamCheck ==
  IF Unaligned({request.physBase, request.virtBase, request.size}) THEN "Alignment"
  ELSE IF request.size = 0 \/ request.size > MaxMemory THEN "InvalidRange"
  ELSE IF \/ request.physBase + request.size > MaxAddress
          \/ request.virtBase + request.size > MaxAddress
    THEN "AddressOverflow"
  ELSE IF TableBase > LowEnd \/ request.virtBase < HighStart THEN "InvalidRange"
  ELSE "Ok"

AliasEnd(i) == request.aliases[i].virtBase + request.aliases[i].bytes

\* The linear range and the aliases before the i-th one leave its range alone.
AliasIsApart(i) ==
  LET a == request.aliases[i] IN
  /\ ~ Overlaps(a.virtBase, AliasEnd(i), request.virtBase,
                request.virtBase + request.size)
  /\ \A j \in 1 .. i - 1 :
       ~ Overlaps(a.virtBase, AliasEnd(i), request.aliases[j].virtBase, AliasEnd(j))

\* A fault: the page behind RAM, which is the first table, counts as RAM.
AliasIsInRamOrBehind(a) ==
  /\ a.physBase >= request.physBase
  /\ a.physBase + a.bytes <= request.physBase + request.size + PageSize

AliasIsInRam(a) ==
  /\ a.physBase >= request.physBase
  /\ a.physBase + a.bytes <= request.physBase + request.size

\* One round of the loop in new_with_aliases()
AliasCheck(i) ==
  LET a == request.aliases[i] IN
  IF Unaligned({a.virtBase, a.physBase, a.bytes}) THEN "Alignment"
  ELSE IF a.bytes = 0 \/ a.bytes > MaxAliasBytes \/ a.virtBase < HighStart
    THEN "InvalidRange"
  ELSE IF AliasEnd(i) > MaxAddress \/ a.physBase + a.bytes > MaxAddress
    THEN "AddressOverflow"
  ELSE IF ~ AliasIsInRam(a) THEN "InvalidRange"
  ELSE IF ~ AliasIsApart(i) THEN "OverlappingRange"
  ELSE "Ok"

RequestCheck ==
  IF request.aliases = None THEN RamCheck
  ELSE IF Len(request.aliases) > MaxAliases THEN "InvalidRange"
  ELSE IF \/ request.physBase + request.size > MaxAddress
          \/ request.virtBase + request.size > MaxAddress
    THEN "AddressOverflow"
  ELSE LET failing == {i \in DOMAIN request.aliases : AliasCheck(i) # "Ok"}
       IN  IF failing = {} THEN RamCheck ELSE AliasCheck(Min(failing))

-----------------------------------------------------------------------------
(* Tables and pages.  A walk is at a table; heap is the number of tables for *)
(* which the host has memory.                                                *)

\* A fault: the second level is selected by the bits of the first one.
SlotOfFirstLevel(va, level) ==
  (va \div (IF level = 3 THEN PageSize ELSE PageSize * Slots * Slots)) % Slots

Slot(va, level) ==
  (va \div (CASE level = 1 -> PageSize * Slots * Slots
              [] level = 2 -> PageSize * Slots
              [] level = 3 -> PageSize)) % Slots

EmptyTable == [slot \in 0 .. Slots - 1 |-> 0]

\* The guest address of a table, by its place in the vector.
TableAddress(n) == TableBase + (n - 1) * PageSize

\* ADDRESS_MASK
AddressOf(descriptor) == ((descriptor % PaEnd) \div PageSize) * PageSize

TableAt(descriptor) == (AddressOf(descriptor) - TableBase) \div PageSize + 1

\* allocate_table() when n tables are there
AllocateCheck(n, heap) ==
  IF (n + 1) * PageSize > MaxTableBytes THEN "TableCapacity"
  ELSE IF TableBase + (n + 1) * PageSize > PaEnd THEN "AddressOverflow"
  ELSE IF n + 1 > heap THEN "Allocation"
  ELSE "Ok"

\* One round of the loop in map_page(): to the next table, perhaps a new one.
Descend(walk, va, level, heap) ==
  LET slot  == Slot(va, level)
      found == walk.tables[walk.at][slot]
      fresh == Len(walk.tables) + 1
  IN  IF walk.result # "Ok" THEN walk
      ELSE IF found # 0 THEN [walk EXCEPT !.at = TableAt(found)]
      ELSE IF AllocateCheck(fresh - 1, heap) # "Ok"
        THEN [walk EXCEPT !.result = AllocateCheck(fresh - 1, heap)]
      ELSE [tables |-> Append([walk.tables EXCEPT
                                 ![walk.at][slot] = TableAddress(fresh) + TableBits],
                              EmptyTable),
            at     |-> fresh,
            result |-> "Ok"]

\* The last level of map_page()
Settle(walk, va, pa) ==
  IF walk.result # "Ok" THEN walk
  ELSE IF walk.tables[walk.at][Slot(va, 3)] # 0
    THEN [walk EXCEPT !.result = "OverlappingRange"]
  ELSE [walk EXCEPT !.tables[walk.at][Slot(va, 3)] = pa + PageBits]

MapPage(root, va, pa, heap) ==
  LET start == [tables |-> tables, at |-> root, result |-> "Ok"]
  IN  Settle(Descend(Descend(start, va, 1, heap), va, 2, heap), va, pa)

-----------------------------------------------------------------------------
(* The constructor *)

LowRoot == 1

\* A fault: both halves have the first table for a root.
SharedRoot == 1

HighRoot == 2

Heaps == Len(tables) .. Len(tables) + 2

Aliases == IF request.aliases = None THEN <<>> ELSE request.aliases

At(name, alias, offset) == [name |-> name, alias |-> alias, offset |-> offset]

Finished == At("finished", 0, 0)

\* What follows the last page of an alias, or of RAM as the alias 0.
Following(alias) ==
  IF alias < Len(Aliases) THEN At("alias", alias + 1, 0) ELSE Finished

Fail(error) == tables' = <<>> /\ loop' = Finished /\ result' = error

\* The arguments are checked, and the two roots made.
Begin ==
  /\ loop.name = "begin"
  /\ \E heap \in Heaps :
       LET checks == <<RequestCheck, AllocateCheck(0, heap), AllocateCheck(1, heap)>>
           failing == {i \in DOMAIN checks : checks[i] # "Ok"}
       IN  IF failing # {} THEN Fail(checks[Min(failing)])
           ELSE /\ tables' = <<EmptyTable, EmptyTable>>
                /\ loop' = At("identity", 0, 0)
                /\ UNCHANGED result
  /\ UNCHANGED request

\* map_page() in a loop that goes on, or returns, at the given place.
MapAndGoOn(root, va, pa, next) ==
  /\ \E heap \in Heaps :
       LET walk == MapPage(root, va, pa, heap)
       IN  IF walk.result # "Ok" THEN Fail(walk.result)
           ELSE /\ tables' = walk.tables
                /\ loop' = next
                /\ result' = IF next = Finished THEN "Ok" ELSE result
  /\ UNCHANGED request

MapIdentity ==
  /\ loop.name = "identity"
  /\ LET pa == request.physBase + loop.offset
     IN  MapAndGoOn(LowRoot, pa, pa, At("linear", 0, loop.offset))

MapLinear ==
  /\ loop.name = "linear"
  /\ LET next == loop.offset + PageSize
     IN  MapAndGoOn(HighRoot, request.virtBase + loop.offset,
                    request.physBase + loop.offset,
                    IF next < request.size THEN At("identity", 0, next)
                    ELSE Following(0))

MapAlias ==
  /\ loop.name = "alias"
  /\ LET a    == request.aliases[loop.alias]
         next == loop.offset + PageSize
     IN  MapAndGoOn(HighRoot, a.virtBase + loop.offset, a.physBase + loop.offset,
                    IF next < a.bytes THEN At("alias", loop.alias, next)
                    ELSE Following(loop.alias))

StageInit ==
  /\ request \in Requests
  /\ tables = <<>>
  /\ loop = At("begin", 0, 0)
  /\ result = None

StageNext == Begin \/ MapIdentity \/ MapLinear \/ MapAlias

StageSpec == StageInit /\ [][StageNext]_stageVars

\* virtual_address() of finished tables
VirtualAddress(pa) ==
  IF pa < request.physBase \/ pa - request.physBase >= request.size
    THEN [result |-> "UnmappedAddress"]
  ELSE IF request.virtBase + (pa - request.physBase) > MaxAddress
    THEN [result |-> "AddressOverflow"]
  ELSE [result |-> "Ok", va |-> request.virtBase + (pa - request.physBase)]

-----------------------------------------------------------------------------
(* Properties *)

LowPages == {n * PageSize : n \in 0 .. Slots * Slots * Slots - 1}

HighPages == {HighStart + page : page \in LowPages}

\* A translation as the machine makes it: three reads of descriptors, from the
\* root of the half that an address is in.
Entry(at, va, level) ==
  IF at \in DOMAIN tables THEN tables[at][Slot(va, level)] ELSE 0

Follow(at, va, level) ==
  IF Entry(at, va, level) = 0 THEN 0 ELSE TableAt(Entry(at, va, level))

Translate(va) ==
  LET root == IF va < LowEnd THEN LowRoot ELSE HighRoot
      leaf == Entry(Follow(Follow(root, va, 1), va, 2), va, 3)
  IN  IF leaf = 0 THEN None ELSE AddressOf(leaf)

Built == loop = Finished /\ result = "Ok"

\* Where the arguments say that a page lies, or nothing for most pages.
Meant(va) ==
  LET ranges == {[virtBase |-> request.physBase, physBase |-> request.physBase,
                  bytes |-> request.size],
                 [virtBase |-> request.virtBase, physBase |-> request.physBase,
                  bytes |-> request.size]}
                  \cup {Aliases[i] : i \in DOMAIN Aliases}
      around == {r \in ranges : r.virtBase <= va /\ va < r.virtBase + r.bytes}
  IN  {r.physBase + (va - r.virtBase) : r \in around}

\* Finished tables translate every page of RAM at its own address, at its linear
\* address and at its aliases, and no other page of either half: a table that
\* two ranges share, or that a range has to itself, leads no address astray.  And
\* virtual_address() answers with an address that the upper half translates back,
\* for every page of RAM and for no other.
TranslatesWhatIsMeant ==
  Built =>
    /\ \A va \in LowPages \cup HighPages :
         Meant(va) = (IF Translate(va) = None THEN {} ELSE {Translate(va)})
    /\ \A pa \in LowPages :
         LET answer == VirtualAddress(pa) IN
         IF pa \in request.physBase .. TableBase - 1
           THEN answer.result = "Ok" /\ Translate(answer.va) = pa
           ELSE answer.result = "UnmappedAddress"

\* At every moment the tables lie above RAM and within the physical addresses;
\* a descriptor of a table names one of them; and no address leads to the memory
\* that the tables are in.
TablesStayApart ==
  /\ tables # <<>> => TableBase + Len(tables) * PageSize <= PaEnd
  /\ \A va \in LowPages \cup HighPages :
       /\ Follow(IF va < LowEnd THEN LowRoot ELSE HighRoot, va, 1) \in 0 .. Len(tables)
       /\ Translate(va) # None =>
            Translate(va) \in request.physBase .. TableBase - PageSize

\* Once the arguments are accepted, nothing but a lack of memory in the host
\* stops the construction: two pages never meet in one slot, and the largest
\* request fits in the tables' capacity.
OnlyMemoryRunsOut ==
  RequestCheck = "Ok" => result \in {None, "Ok", "Allocation"}

\* A construction keeps to its own memory, and never gives up what it accepted:
\* the limits on RAM and aliases and the capacity of the tables fit together.
ConstructionHolds == TablesStayApart /\ OnlyMemoryRunsOut

Translated == {va \in LowPages \cup HighPages : Translate(va) # None}

Map == INSTANCE PageMap WITH
  Pages <- LowPages \cup HighPages,
  Targets <- LowPages,
  translation <- [va \in Translated |-> Translate(va)]

\* The tables grow as the promise of a page map says: each step of the loops
\* makes at most one address translate, and changes no other's translation,
\* although it may write three tables.
GrowsPageByPage == Map!MapSpec

=============================================================================
