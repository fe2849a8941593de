-------------------------------- MODULE Checks --------------------------------
(* A call that validates its input in order returns the first error it meets. *)
EXTENDS Naturals

\* What a loop returns whose i-th turn ends with "checks[i]?".
FirstError(checks) ==
  LET failing == {i \in DOMAIN checks : checks[i] # "Ok"}
  IN  IF failing = {} THEN "Ok"
      ELSE checks[CHOOSE i \in failing : \A j \in failing : i <= j]

\* What a row of "if condition { return Err(error) }" returns; for conditions
\* that are defined even where an earlier one holds.
FirstRefusal(rules) ==
  LET holding == {i \in DOMAIN rules : rules[i][1]}
  IN  IF holding = {} THEN "Ok"
      ELSE rules[CHOOSE i \in holding : \A j \in holding : i <= j][2]

=============================================================================
