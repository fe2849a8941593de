------------------------------ MODULE DeviceTrees ------------------------------
(***************************************************************************)
(* The two formats of a device tree: what a firmware ships, with templates *)
(* (src/src/firmware_dt.rs), and what a kernel reads                       *)
(* (src/src/flat_dt.rs, which also encodes it from a tree).                *)
(*                                                                         *)
(* A name is itself, with a length and whether it is printable.            *)
(*                                                                         *)
(* Both walks of the runtime format and the parser of the other one are a  *)
(* sequence of events (a test that fails, a node entered, bytes counted)   *)
(* that a budget is charged with, in order.                                *)
(***************************************************************************)
EXTENDS TreeCells

CONSTANTS
  NameBytes,      \* [names -> their lengths]
  Printable,      \* the names of printable ASCII
  TemplateFlag,   \* TEMPLATE_FLAG
  MaxSerialized, MaxDepth, MaxNodes, MaxProperties, MaxPropertiesPerNode,
  MaxChildrenPerNode, MaxNodeName, MaxPropertyName,
                  \* MAX_SERIALIZED_SIZE ... MAX_PROPERTY_NAME of flat_dt
  FirmwareMaxInput, FirmwareMaxNodes, FirmwareMaxProperties,
  FirmwareMaxPropertiesPerNode, FirmwareMaxChildrenPerNode, FirmwareMaxDepth
                  \* MAX_INPUT_BYTES ... MAX_DEPTH of firmware_dt

ASSUME DeviceTreesAssumption == TemplateFlag > MaxSerialized

\* take() of a cell of this kind
Present(cells, at, kind) == at <= Len(cells) /\ cells[at].kind = kind

-----------------------------------------------------------------------------
(* Events and the budget of the runtime format *)

Test(fails, error) == IF fails THEN <<[kind |-> "fail", error |-> error]>> ELSE <<>>

Enter(depth, properties, children) ==
  <<[kind |-> "node", depth |-> depth, properties |-> properties, children |-> children]>>

Bytes(n) == <<[kind |-> "bytes", bytes |-> n]>>

AddBytes(budget, n) ==
  [budget EXCEPT !.bytes = @ + n,
                 !.check = IF budget.bytes + n > MaxSerialized THEN "LimitsExceeded" ELSE "Ok"]

\* Budget::node()
AddNode(budget, e) ==
  IF \/ e.depth > MaxDepth \/ e.properties = 0
     \/ e.properties > MaxPropertiesPerNode \/ e.children > MaxChildrenPerNode
     \/ budget.nodes + 1 > MaxNodes
     \/ budget.properties + e.properties > MaxProperties
    THEN [budget EXCEPT !.check = "LimitsExceeded"]
    ELSE AddBytes([budget EXCEPT !.nodes = @ + 1, !.properties = @ + e.properties], NodeBytes)

Charge(budget, e) ==
  IF budget.check # "Ok" THEN budget
  ELSE CASE e.kind = "fail"  -> [budget EXCEPT !.check = e.error]
         [] e.kind = "bytes" -> AddBytes(budget, e.bytes)
         [] e.kind = "node"  -> AddNode(budget, e)

Spend(events) ==
  FoldLeft(Charge, [check |-> "Ok", nodes |-> 0, properties |-> 0, bytes |-> 0], events)

NodeNameOk(name, depth) ==
  /\ NameBytes[name] <= MaxNodeName
  /\ NameBytes[name] # 0 \/ depth = 0
  /\ name \in Printable

PropertyNameOk(name) ==
  NameBytes[name] \in 1 .. MaxPropertyName /\ name \in Printable

-----------------------------------------------------------------------------
(* Encoding a tree: nodes are [name, properties, children] *)

\* A fault: the property that holds the node's name is not counted.
OwnProperties(node) == Len(node.properties)

AllProperties(node) == Len(node.properties) + 1

\* measure_node()
RECURSIVE MeasureNode(_, _)
MeasureNode(node, depth) ==
  Enter(depth, AllProperties(node), Len(node.children))
    \o Test(~ NodeNameOk(node.name, depth), "InvalidNodeName")
    \o Bytes(PropertySize(NameBytes[node.name] + 1))
    \o FlattenSeq([i \in DOMAIN node.properties |->
         LET p == node.properties[i]
         IN  Test(~ PropertyNameOk(p.name), "InvalidPropertyName")
               \o Test(p.name = "name" \/ \E j \in 1 .. i - 1 : node.properties[j].name = p.name,
                       "DuplicateProperty")
               \o Bytes(PropertySize(p.value.bytes))])
    \o FlattenSeq([i \in DOMAIN node.children |->
         Test(\E j \in 1 .. i - 1 : node.children[j].name = node.children[i].name,
              "DuplicateChild")
           \o MeasureNode(node.children[i], depth + 1)])

\* write_node()
RECURSIVE WriteNode(_)
WriteNode(node) ==
  <<Counts(Len(node.properties) + 1, Len(node.children)),
    Property("name", [bytes |-> NameBytes[node.name] + 1, text |-> node.name], FALSE, FALSE)>>
    \o [i \in DOMAIN node.properties |->
          Property(node.properties[i].name, node.properties[i].value, FALSE, FALSE)]
    \o FlattenSeq([i \in DOMAIN node.children |-> WriteNode(node.children[i])])

Encode(root) ==
  LET budget == Spend(MeasureNode(root, 0))
  IN  [check |-> budget.check, reserved |-> budget.bytes,
       cells |-> IF budget.check = "Ok" THEN WriteNode(root) ELSE <<>>]

-----------------------------------------------------------------------------
(* Validating the runtime format *)

\* Of a template, the word of the length has the flag set.
RawLength(cell) == cell.value.bytes + IF cell.template THEN TemplateFlag ELSE 0

\* Property i of a node whose counts are at "at".
ReadProperty(cells, at, i, depth) ==
  IF ~ Present(cells, at + i, "property") THEN Test(TRUE, "Truncated")
  ELSE LET p == cells[at + i]
       IN  Test(~ PropertyNameOk(p.name), "InvalidPropertyName")
             \o Test(\E j \in 1 .. i - 1 : cells[at + j].name = p.name, "DuplicateProperty")
             \o Bytes(PropertySize(RawLength(p)))
             \o (IF p.name # "name" THEN <<>>
                 ELSE IF p.value.text = Nothing THEN Test(TRUE, "InvalidNameProperty")
                 ELSE Test(~ NodeNameOk(p.value.text, depth), "InvalidNodeName"))
             \o Test(p.dirty, "InvalidPadding")

\* read_node(): its events, the cell behind it and the node's name.
RECURSIVE ReadNode(_, _, _)
ReadNode(cells, at, depth) ==
  IF ~ Present(cells, at, "node")
    THEN [events |-> Test(TRUE, "Truncated"), next |-> at, name |-> Nothing]
    ELSE LET head == cells[at]
             named == {i \in 1 .. head.properties : Present(cells, at + i, "property")
                                                    /\ cells[at + i].name = "name"}
             ReadChild(before, i) ==
               LET child == ReadNode(cells, before.next, depth + 1)
               IN  [events |-> before.events \o child.events
                                 \o Test(child.name \in before.names, "DuplicateChild"),
                    next   |-> child.next,
                    names  |-> before.names \cup {child.name}]
             children ==
               FoldLeft(ReadChild,
                        [events |-> <<>>, next |-> at + head.properties + 1, names |-> {}],
                        [i \in 1 .. head.children |-> i])
         IN  [events |-> Enter(depth, head.properties, head.children)
                           \o FlattenSeq([i \in 1 .. head.properties |->
                                            ReadProperty(cells, at, i, depth)])
                           \o Test(named = {}, "InvalidNameProperty")
                           \o children.events,
              next   |-> children.next,
              name   |-> IF named = {} THEN Nothing
                         ELSE cells[at + CHOOSE i \in named : TRUE].value.text]

\* validate()
Validate(cells) ==
  LET read == ReadNode(cells, 1, 0)
  IN  IF WireBytes(cells) > MaxSerialized THEN "LimitsExceeded"
      ELSE IF Spend(read.events).check # "Ok" THEN Spend(read.events).check
      ELSE IF read.next # Len(cells) + 1 THEN "TrailingData"
      ELSE "Ok"

-----------------------------------------------------------------------------
(* Parsing the firmware's format *)

\* One event of Parser::node(), and its statistics.
Count(statistics, e) ==
  LET s == statistics
  IN  IF s.check # "Ok" THEN s
      ELSE CASE e.kind = "fail" -> [s EXCEPT !.check = e.error]
             [] e.kind = "enter" ->
                  IF e.depth > FirmwareMaxDepth \/ s.nodes = FirmwareMaxNodes
                    THEN [s EXCEPT !.check = "LimitsExceeded"] ELSE s
             [] e.kind = "counts" ->
                  IF \/ e.properties > FirmwareMaxPropertiesPerNode
                     \/ e.children > FirmwareMaxChildrenPerNode
                     \/ e.properties > FirmwareMaxProperties - s.properties
                     \/ e.children > FirmwareMaxNodes - s.nodes - 1
                    THEN [s EXCEPT !.check = "LimitsExceeded"]
                  ELSE IF e.properties * PropertyBytes + e.children * NodeBytes > e.left
                    THEN [s EXCEPT !.check = "Truncated"]
                  ELSE [s EXCEPT !.nodes = @ + 1, !.properties = @ + e.properties]
             [] e.kind = "template" -> [s EXCEPT !.templates = @ + 1]

ParseProperty(cells, at) ==
  IF ~ Present(cells, at, "property") THEN Test(TRUE, "Truncated")
  ELSE Test(NameBytes[cells[at].name] = 0 \/ cells[at].name \notin Printable,
            "InvalidPropertyName")
         \o IF cells[at].template THEN <<[kind |-> "template"]>> ELSE <<>>

\* A node of the parsed tree: where its properties are, and its children.
RECURSIVE ParseNode(_, _, _)
ParseNode(cells, at, depth) ==
  IF ~ Present(cells, at, "node")
    THEN [events |-> <<[kind |-> "enter", depth |-> depth]>> \o Test(TRUE, "Truncated"),
          next |-> at, node |-> Nothing]
    ELSE LET head == cells[at]
             ParseChild(before, i) ==
               LET child == ParseNode(cells, before.next, depth + 1)
               IN  [events |-> before.events \o child.events, next |-> child.next,
                    nodes |-> Append(before.nodes, child.node)]
             children ==
               FoldLeft(ParseChild,
                        [events |-> <<>>, next |-> at + head.properties + 1, nodes |-> <<>>],
                        [i \in 1 .. head.children |-> i])
             left == WireBytes(SubSeq(cells, at + 1, Len(cells)))
         IN  [events |-> <<[kind |-> "enter", depth |-> depth],
                           [kind |-> "counts", properties |-> head.properties,
                            children |-> head.children, left |-> left]>>
                           \o FlattenSeq([i \in 1 .. head.properties |->
                                            ParseProperty(cells, at + i)])
                           \o children.events,
              next   |-> children.next,
              node   |-> [properties |-> [i \in 1 .. head.properties |-> at + i],
                          children   |-> children.nodes]]

\* FirmwareDeviceTree::parse()
Parse(cells) ==
  LET parsed == ParseNode(cells, 1, 0)
      statistics == FoldLeft(Count, [check |-> "Ok", nodes |-> 0, properties |-> 0,
                                     templates |-> 0], parsed.events)
  IN  [check |-> IF WireBytes(cells) > FirmwareMaxInput THEN "InputTooLarge"
                 ELSE IF statistics.check # "Ok" THEN statistics.check
                 ELSE IF parsed.next # Len(cells) + 1 THEN "TrailingData"
                 ELSE "Ok",
       root |-> parsed.node, templates |-> statistics.templates]

\* validated_runtime_bytes() of a source that parses
RuntimeCheck(cells) ==
  IF Parse(cells).templates # 0 THEN "UnresolvedTemplates" ELSE Validate(cells)

=============================================================================
