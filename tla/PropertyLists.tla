----------------------------- MODULE PropertyLists -----------------------------
(***************************************************************************)
(* The documents that configure a boot (src/src/boot_config.rs): what      *)
(* parse_document() lets pass, and how the parsers behind it find a key.   *)
(*                                                                         *)
(* A node is a record with a tag and a shape ("plain", "attributed",       *)
(* "mixed"); a dict, an array and the plist have children, a dict its keys *)
(* and values in turn; a key, a string and an integer have a text.  The    *)
(* encoding of the input, the lexical scan and the XML parser are the      *)
(* verdicts of a document, not a model of its characters.                  *)
(***************************************************************************)
EXTENDS Integers, Sequences, SequencesExt, Checks

CONSTANTS
  MaxInput,      \* MAX_INPUT_BYTES
  MaxDepth,      \* MAX_XML_DEPTH
  MaxPathUnits   \* MAX_PATH_UTF16_UNITS

ASSUME PropertyListAssumption == {MaxInput, MaxDepth, MaxPathUnits} \subseteq Nat

Containers == {"plist", "dict", "array"}

Scalars == {"key", "string", "integer", "real", "date", "data", "true", "false"}

-----------------------------------------------------------------------------
(* What a document must be *)

\* A fault: a key may come twice.
DictCheckOfPairs(children) ==
  FirstError([n \in 1 .. (Len(children) + 1) \div 2 |->
    FirstRefusal(<<
      <<children[2 * n - 1].tag # "key", "InvalidType">>,
      <<children[2 * n - 1].shape = "mixed", "InvalidPlist">>,
      <<2 * n > Len(children), "InvalidPlist">>,
      <<2 * n <= Len(children) /\ children[2 * n].tag = "key", "InvalidPlist">> >>)])

\* The children of a dict are keys, each once, and their values.
DictCheck(children) ==
  FirstError([n \in 1 .. (Len(children) + 1) \div 2 |->
    FirstRefusal(<<
      <<children[2 * n - 1].tag # "key", "InvalidType">>,
      <<children[2 * n - 1].shape = "mixed", "InvalidPlist">>,
      <<\E m \in 1 .. n - 1 :
          /\ children[2 * m - 1].tag = "key" /\ children[2 * n - 1].tag = "key"
          /\ children[2 * m - 1].text = children[2 * n - 1].text, "DuplicateKey">>,
      <<2 * n > Len(children), "InvalidPlist">>,
      <<2 * n <= Len(children) /\ children[2 * n].tag = "key", "InvalidPlist">> >>)])

\* One node, with "depth" elements around it and itself.
NodeCheck(node, depth) ==
  IF depth > MaxDepth THEN "DepthLimit"
  ELSE IF node.shape = "attributed" THEN "InvalidPlist"
  ELSE IF node.tag \notin Containers \cup Scalars THEN "InvalidType"
  ELSE IF node.shape = "mixed" THEN "InvalidPlist"
  ELSE CASE node.tag = "dict" -> DictCheck(node.children)
         [] node.tag = "array" ->
              IF \E n \in DOMAIN node.children : node.children[n].tag = "key"
                THEN "InvalidPlist" ELSE "Ok"
         [] node.tag = "plist" ->
              IF depth > 1 \/ Len(node.children) # 1 \/ node.children[1].tag # "dict"
                THEN "InvalidPlist" ELSE "Ok"
         [] OTHER -> "Ok"

\* Nodes in the order of the document, each with the depth it is at; of those
\* at "depth", the children follow.
WithChildren(places, depth) ==
  FlattenSeq([n \in DOMAIN places |->
    IF places[n].depth # depth \/ places[n].node.tag \notin Containers THEN <<places[n]>>
    ELSE LET children == places[n].node.children
         IN  <<places[n]>> \o [m \in DOMAIN children |->
                                 [node |-> children[m], depth |-> depth + 1]]])

\* document.descendants(), down to the first depth that is refused.
Descendants(root) ==
  FoldLeft(WithChildren, <<[node |-> root, depth |-> 1]>>, [depth \in 1 .. MaxDepth |-> depth])

TreeCheck(root) ==
  LET places == Descendants(root)
  IN  FirstError([n \in DOMAIN places |-> NodeCheck(places[n].node, places[n].depth)])

\* validate_structure()
StructureCheck(root) ==
  IF root.tag # "plist" \/ root.shape = "attributed" THEN "InvalidPlist" ELSE TreeCheck(root)

\* parse_document()
DocumentCheck(document) ==
  IF document.size > MaxInput THEN "InputTooLarge"
  ELSE FirstError(<<document.encoding, document.lexed, StructureCheck(document.root)>>)

-----------------------------------------------------------------------------
(* Looking into an accepted document *)

Absent == [tag |-> "absent"]

\* dictionary_value(): the first pair with that key.
Lookup(dict, wanted) ==
  LET at == {n \in 1 .. Len(dict.children) \div 2 : dict.children[2 * n - 1].text = wanted}
  IN  IF at = {} THEN Absent
      ELSE dict.children[2 * (CHOOSE n \in at : \A m \in at : n <= m)]

Dictionary(document) == document.root.children[1]

\* An optional node, if it is there with that tag and its text passes.
OptionalCheck(node, tag, check(_)) ==
  CASE node.tag = "absent" -> "Ok"
    [] node.tag = tag -> check(node)
    [] OTHER -> "InvalidType"

\* A node that must be there.
RequiredCheck(node, tag, missing, check(_)) ==
  IF node.tag = "absent" THEN missing ELSE OptionalCheck(node, tag, check)

NoCheck(node) == "Ok"

\* Yes, no, or neither.
FlagCheck(node) == IF node.tag \in {"absent", "true", "false"} THEN "Ok" ELSE "InvalidType"

-----------------------------------------------------------------------------
(* Paths: the number of separators in front, and the components *)

\* Names that a component must not be: none at all, this or the parent
\* directory, or one with a dot or a blank at its end.
NoComponents == {"", ".", "..", "name.", "name "}

\* normalize_absolute_path()
AbsolutePathCheck(path) ==
  FirstRefusal(<<
    <<path.units > MaxPathUnits, "PathTooLong">>,
    <<path.odd, "InvalidPath">>,
    <<path.leading # 1, "InvalidPath">>,
    <<\E n \in DOMAIN path.parts : path.parts[n] \in NoComponents, "InvalidPath">> >>)

\* normalize_path(): of an image that firmware can start.
ImagePathCheck(path) ==
  IF AbsolutePathCheck(path) # "Ok" THEN AbsolutePathCheck(path)
  ELSE IF ~ path.efi THEN "InvalidPath" ELSE "Ok"

\* What is left of a path: its components, whichever separators it had.
Normalized(path) == [parts |-> path.parts, upper |-> path.upper]

=============================================================================
