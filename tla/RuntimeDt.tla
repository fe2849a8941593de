------------------------------- MODULE RuntimeDt -------------------------------
(***************************************************************************)
(* Runtime device trees (src/src/runtime_dt.rs): prepare() replaces the    *)
(* templates of a firmware's tree by values a caller provides.  Its        *)
(* results, and those of encode(), are what TreeWrites writes into RAM.    *)
(*                                                                         *)
(* The digest of a source is the source; a property is named by its source *)
(* and its cell, where the code has an offset in bytes.                    *)
(***************************************************************************)
EXTENDS DeviceTrees, TreeWrites

CONSTANTS
  Requests,      \* [source, provided, maximum] of a call of prepare()
  Models,        \* trees given to encode()
  MaxOutput,     \* MAX_OUTPUT_BYTES
  MaxBindings    \* MAX_BINDINGS

-----------------------------------------------------------------------------
(* Templates and their values *)

\* The properties of a parsed tree, each node's before its children's.
RECURSIVE PropertiesOf(_)
PropertiesOf(node) ==
  node.properties
    \o FlattenSeq([i \in DOMAIN node.children |-> PropertiesOf(node.children[i])])

\* collect_templates()
TemplatesOf(source, node) ==
  SelectSeq(PropertiesOf(node), LAMBDA at : source[at].template)

CollectCheck(source, templates) ==
  FirstError([i \in DOMAIN templates |->
    IF source[templates[i]].name = "name" THEN "StructuralTemplate"
    ELSE IF i > MaxBindings THEN "Limits" ELSE "Ok"])

\* The binding that replacement() finds; it looks at the cell only.
Bound(provided, at) == {i \in DOMAIN provided : provided[i].cell = at}

Replacement(provided, at) ==
  provided[CHOOSE i \in Bound(provided, at) : \A j \in Bound(provided, at) : i <= j].value

BindingCheck(request, templates, i) ==
  LET b == request.provided[i]
      SameProperty(c) == c.source = b.source /\ c.cell = b.cell
  IN  FirstRefusal(<<
        <<b.source # request.source, "SourceIdentity">>,
        <<~ b.provider, "InvalidProvider">>,
        <<\E j \in 1 .. i - 1 : SameProperty(request.provided[j]), "DuplicateBinding">>,
        <<b.cell \notin {templates[n] : n \in DOMAIN templates}, "UnknownBinding">> >>)

\* The value of a property in the output.
ValueAt(source, provided, at) ==
  IF source[at].template THEN Replacement(provided, at) ELSE source[at].value

\* A fault: values are counted without their padding.
WireUnpadded(bytes) == PropertyBytes + bytes

\* property_wire_bytes(); a value as long as TEMPLATE_FLAG is refused.
Wire(bytes) == PropertySize(bytes)

\* measure()
RECURSIVE Measure(_, _, _)
Measure(source, provided, node) ==
  FoldLeft(LAMBDA sum, n : sum + n, NodeBytes,
    [i \in DOMAIN node.properties |->
       Wire(ValueAt(source, provided, node.properties[i]).bytes)]
      \o [i \in DOMAIN node.children |-> Measure(source, provided, node.children[i])])

\* A fault: the padding of a literal is cleaned.
WritePropertyCleaned(source, provided, at) ==
  LET p == source[at] IN Property(p.name, ValueAt(source, provided, at), FALSE, FALSE)

WriteProperty(source, provided, at) ==
  IF source[at].template
    THEN Property(source[at].name, Replacement(provided, at), FALSE, FALSE)
    ELSE source[at]

\* write()
RECURSIVE Write(_, _, _)
Write(source, provided, node) ==
  <<Counts(Len(node.properties), Len(node.children))>>
    \o [i \in DOMAIN node.properties |->
          WriteProperty(source, provided, node.properties[i])]
    \o FlattenSeq([i \in DOMAIN node.children |->
                     Write(source, provided, node.children[i])])

\* What prepare() of a parsed source finds before it measures.
PreflightCheck(request, parsed) ==
  LET templates == TemplatesOf(request.source, parsed.root)
      provided == request.provided
  IN  IF \/ request.maximum = 0 \/ request.maximum > MaxOutput
         \/ Len(provided) > MaxBindings
        THEN "Limits"
      ELSE IF parsed.check # "Ok" THEN parsed.check
      ELSE FirstError(
             <<CollectCheck(request.source, templates)>>
               \o [i \in DOMAIN provided |-> BindingCheck(request, templates, i)]
               \o [n \in DOMAIN templates |->
                     IF Bound(provided, templates[n]) = {} THEN "MissingProviders" ELSE "Ok"]
               \o [n \in DOMAIN templates |->
                     IF /\ Bound(provided, templates[n]) # {}
                        /\ Replacement(provided, templates[n]).bytes >= TemplateFlag
                       THEN "Limits" ELSE "Ok"])

\* prepare(): the check, the length measured and the cells written.
Prepared(request, parsed) ==
  LET check == PreflightCheck(request, parsed)
      length == Measure(request.source, request.provided, parsed.root)
      cells == Write(request.source, request.provided, parsed.root)
      refused == [request |-> request, check |-> check, length |-> 0, cells |-> <<>>]
  IN  IF check # "Ok" THEN refused
      ELSE IF length > request.maximum THEN [refused EXCEPT !.check = "Limits"]
      ELSE [request |-> request, check |-> Validate(cells), length |-> length, cells |-> cells]

\* FirmwareDeviceTree::parse() of the source of each request, and prepare().
Parsings == {[request |-> request, parsed |-> Parse(request.source)] : request \in Requests}

PreparedOutcomes == {Prepared(p.request, p.parsed) : p \in Parsings}

\* encode() of each model.
EncodedModels == {[root |-> root, output |-> Encode(root)] : root \in Models}

-----------------------------------------------------------------------------
(* Properties *)

\* The two walks over a tree agree in the runtime's format: what encode()
\* accepts, the validation of a kernel's tree accepts, the buffer it reserved is
\* the size it writes, and a tree it refuses for its names or its limits would
\* not have been accepted.
CodecAgrees ==
  encoded.output.check # "none" =>
    /\ (encoded.output.check = "Ok") <=> (Validate(WriteNode(encoded.root)) = "Ok")
    /\ encoded.output.check = "Ok" =>
         encoded.output.reserved = WireBytes(encoded.output.cells)

\* The size that prepare() measures, compares with the caller's maximum and
\* reserves is the size that it writes.
MeasuredIsWritten ==
  tree # NoTree => tree.length = WireBytes(tree.cells)

\* A prepared tree is a tree for the kernel with the cells of its source, of
\* which only templates were replaced, each by the value bound to it: nothing
\* that the caller did not provide differs from what the firmware shipped, and
\* validated_runtime_bytes() would hand it out as it is.
PreparedIsResolved ==
  tree # NoTree =>
    LET request == tree.request
        source == request.source
    IN  /\ RuntimeCheck(tree.cells) = "Ok"
        /\ Len(tree.cells) = Len(source)
        /\ \A at \in DOMAIN source :
             IF source[at].kind = "property" /\ source[at].template
               THEN /\ tree.cells[at].name = source[at].name
                    /\ \E b \in {request.provided[i] : i \in DOMAIN request.provided} :
                         b.source = source /\ b.cell = at /\ b.value = tree.cells[at].value
               ELSE tree.cells[at] = source[at]

=============================================================================
