----------------------------- MODULE MC_RuntimeDt -----------------------------
(* Device trees for TLC: counts take two bytes, a property three. *)
EXTENDS RuntimeDt, TLC

SmallNames ==
  ("" :> 0) @@ ("a" :> 1) @@ ("b" :> 1) @@ ("name" :> 2) @@ ("full" :> 3) @@ ("bin" :> 1)

SmallPrintable == DOMAIN SmallNames \ {"bin"}

Value(bytes) == [bytes |-> bytes, text |-> Nothing]

Named(text) == Property("name", [bytes |-> SmallNames[text] + 1, text |-> text], FALSE, FALSE)

Literal(name, bytes) == Property(name, Value(bytes), FALSE, FALSE)

Template(name, bytes) == Property(name, Value(bytes), TRUE, FALSE)

NodeCells(properties, children) ==
  <<Counts(Len(properties), Len(children))>> \o properties \o FlattenSeq(children)

Leaf(text) == NodeCells(<<Named(text)>>, <<>>)

-----------------------------------------------------------------------------
(* Sources: one of each thing that a parser may refuse, and templates *)

Odd ==
  {NodeCells(<<Named("a"), p>>, <<>>) :
     p \in {Literal("", 1), Literal("bin", 1), Literal("full", 1), Literal("b", 1),
            Property("b", Value(1), FALSE, TRUE), Literal("name", 1), Template("name", 1),
            Literal("b", 20)}}
    \cup {NodeCells(<<Named("a")>>, children) :
            children \in {<<Leaf("b")>>, <<Leaf("b"), Leaf("b")>>, <<Leaf("")>>,
                          <<Leaf("b"), Leaf("a")>>, <<Leaf("a"), Leaf("b"), Leaf("name")>>,
                          <<NodeCells(<<Named("a")>>, <<Leaf("b")>>)>>,
                          <<NodeCells(<<Named("a")>>, <<NodeCells(<<Named("a")>>, <<Leaf("a")>>)>>)>>}}
    \cup {NodeCells(<<>>, <<>>), NodeCells(<<Literal("b", 1)>>, <<>>), Leaf(""),
          <<>>, <<Counts(1, 0)>>, <<Counts(1, 0), [kind |-> "cut"]>>, <<Counts(1, 1), Named("a")>>,
          Leaf("a") \o <<[kind |-> "cut"]>>, Leaf("a") \o Leaf("b"),
          NodeCells(<<Named("a"), Literal("b", 1), Literal("a", 1), Literal("full", 1),
                      Literal("b", 2)>>, <<>>)}

OneTemplate == NodeCells(<<Named("a"), Template("b", 2)>>, <<>>)

TwoTemplates == NodeCells(<<Named("a"), Template("b", 0)>>,
                          <<NodeCells(<<Template("a", 1), Named("b")>>, <<>>)>>)

Bind(source, cell, bytes) ==
  [source |-> source, cell |-> cell, provider |-> TRUE, value |-> Value(bytes)]

Request(source, provided, maximum) ==
  [source |-> source, provided |-> provided, maximum |-> maximum]

SmallRequests ==
  {Request(source, <<>>, 24) : source \in Odd \cup {OneTemplate}}
    \cup {Request(OneTemplate, <<Bind(OneTemplate, 3, bytes)>>, 24) : bytes \in {1, 3, 64}}
    \cup {Request(OneTemplate, <<Bind(OneTemplate, 3, 0)>>, maximum) :
            maximum \in {0, 9, 10, 25}}
    \cup {Request(OneTemplate, provided, 24) :
            provided \in {<<Bind(OneTemplate, 2, 1)>>, <<Bind(Leaf("a"), 3, 1)>>,
                          <<Bind(OneTemplate, 3, 1), Bind(OneTemplate, 3, 2)>>,
                          <<[Bind(OneTemplate, 3, 1) EXCEPT !.provider = FALSE]>>}}
    \cup {Request(TwoTemplates, provided, 24) :
            provided \in {<<Bind(TwoTemplates, 3, 1)>>,
                          <<Bind(TwoTemplates, 5, 2), Bind(TwoTemplates, 3, 1)>>}}
    \cup {Request(TwoTemplates, <<Bind(TwoTemplates, 3, 1), Bind(TwoTemplates, 5, 1),
                                  Bind(TwoTemplates, 3, 1)>>, 24),
          Request(NodeCells(<<Named("a"), Template("b", 0), Template("a", 0),
                              Template("full", 0)>>, <<>>), <<>>, 24)}

-----------------------------------------------------------------------------
(* Trees to encode: one node, its properties and children at every limit *)

Node(name, properties, children) ==
  [name |-> name, properties |-> properties, children |-> children]

Prop(name, bytes) == [name |-> name, value |-> Value(bytes)]

SmallProps ==
  {<<>>, <<Prop("a", 1)>>, <<Prop("a", 1), Prop("a", 1)>>, <<Prop("a", 1), Prop("b", 4)>>,
   <<Prop("name", 1)>>, <<Prop("full", 1)>>, <<Prop("", 1)>>, <<Prop("bin", 1)>>,
   <<Prop("a", 6)>>, <<Prop("a", 0), Prop("b", 0), Prop("name", 0)>>,
   <<Prop("a", 0), Prop("b", 0), Prop("bin", 0)>>}

Under(properties, name) == Node(name, properties, <<>>)

SmallModels ==
  {Node(name, properties, children) :
     name \in {"", "a", "name", "full", "bin"}, properties \in SmallProps,
     children \in {<<>>, <<Under(<<>>, "a")>>, <<Under(<<>>, "")>>, <<Under(<<>>, "bin")>>,
                   <<Under(<<Prop("a", 1)>>, "b")>>, <<Under(<<Prop("a", 4)>>, "b")>>,
                   <<Under(<<>>, "a"), Under(<<>>, "a")>>,
                   <<Under(<<>>, "a"), Under(<<>>, "b")>>,
                   <<Under(<<>>, "a"), Under(<<Prop("a", 1)>>, "b")>>,
                   <<Under(<<>>, "a"), Under(<<>>, "b"), Under(<<>>, "full")>>,
                   <<Node("a", <<>>, <<Under(<<>>, "a")>>)>>}}

SmallRams == {[base |-> 6, size |-> 14], [base |-> 6, size |-> 0], [base |-> 59, size |-> 8]}

SmallReservations ==
  {[address |-> address, capacity |-> capacity] : address \in {4, 6}, capacity \in {11, 12}}
    \cup {[address |-> 8, capacity |-> 0], [address |-> 7, capacity |-> 12],
          [address |-> 8, capacity |-> 12], [address |-> 12, capacity |-> 9], [address |-> 60, capacity |-> 6]}

=============================================================================
