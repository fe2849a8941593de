------------------------------- MODULE TreeCells -------------------------------
(***************************************************************************)
(* A serialized device tree is a sequence of cells: the counts of a node,  *)
(* and a property with its value and padding; a "cut" is fewer bytes than  *)
(* the cell they begin.  A value is its length and the name it spells.     *)
(***************************************************************************)
EXTENDS Integers, Sequences, SequencesExt

CONSTANTS
  Nothing,        \* a value that spells no name; no tree
  Word,           \* values are padded to it (4)
  NodeBytes,      \* of the two counts of a node (8)
  PropertyBytes   \* of a property without its value (36)

ASSUME TreeCellsAssumption == Word \in Nat \ {0}

Counts(properties, children) ==
  [kind |-> "node", properties |-> properties, children |-> children]

Property(name, value, template, dirty) ==
  [kind |-> "property", name |-> name, value |-> value, template |-> template,
   dirty |-> dirty /\ value.bytes % Word # 0]

Padded(bytes) == ((bytes + Word - 1) \div Word) * Word

PropertySize(bytes) == PropertyBytes + Padded(bytes)

CellBytes(cell) ==
  CASE cell.kind = "node" -> NodeBytes
    [] cell.kind = "property" -> PropertySize(cell.value.bytes)
    [] OTHER -> 1

WireBytes(cells) == FoldLeft(LAMBDA sum, cell : sum + CellBytes(cell), 0, cells)

=============================================================================
