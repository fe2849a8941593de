-------------------------------- MODULE KeyOrder --------------------------------
(* What the order of keys in a configuration may say: nothing. *)
EXTENDS BootSession

RECURSIVE Turned(_)
\* A tree with the pairs of every dictionary in reverse.
Turned(node) ==
  IF node.tag \notin Containers THEN node
  ELSE LET children == [n \in DOMAIN node.children |-> Turned(node.children[n])]
           pairs == Len(children) \div 2
       IN  [node EXCEPT !.children =
              IF node.tag # "dict" THEN children
              ELSE [n \in 1 .. 2 * pairs |->
                      children[2 * (pairs - ((n - 1) \div 2)) - (n % 2)]]]

\* The order of keys says nothing: a document that is accepted as one means
\* the same, for every parser, with the pairs of each dictionary reversed.
KeyOrderIsFree ==
  LET turned == [document EXCEPT !.root = Turned(@)]
  IN  stage = "start" /\ DocumentCheck(document) = "Ok" =>
        /\ ParseBootTarget(turned) = ParseBootTarget(document)
        /\ ParseBootMenu(turned) = ParseBootMenu(document)
        /\ KernelCheck(turned, ArmProfiles) = KernelCheck(document, ArmProfiles)
        /\ \A n \in DOMAIN Entries : TraceOutcome(turned, n) = TraceOutcome(document, n)

=============================================================================
