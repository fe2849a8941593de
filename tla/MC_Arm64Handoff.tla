---------------------------- MODULE MC_Arm64Handoff ----------------------------
(* Handoffs for TLC: pages of four bytes, blocks of two pages. *)
EXTENDS Arm64Handoff

Part(address, memory, offset, size, executable) ==
  [kind |-> "segment", address |-> address, memory |-> memory,
   file |-> [offset |-> offset, size |-> size], executable |-> executable]

Image(type, commands) ==
  [type |-> type, subtype |-> 0, commandBytes |-> 1, commands |-> commands]

\* Code with a zero tail, data on the next page, in the same one, or too far
\* away for the arena, and one member.
HandoffFiles ==
  {[length |-> 5,
    images |-> (0 :> Image("fileset",
                  <<Part(5, 4, 0, 3, TRUE), Part(address, 2, 3, 2, FALSE),
                    [kind |-> "thread", pc |-> 6],
                    [kind |-> "member", offset |-> 1, address |-> 6]>>))
                 @@ (1 :> Image("kext", <<Part(6, 2, 1, 2, TRUE)>>))] :
     address \in {8, 9, 10, 14}}

Request(virt, at, memory, bytes, geometry) ==
  [physBase |-> 8, virtBase |-> virt, memory |-> memory, actual |-> 44,
   kernelPhys |-> at, video |-> FALSE, line |-> TRUE, flags |-> TRUE,
   tree |-> [bytes |-> bytes, valid |-> TRUE, dram |-> [base |-> 8, size |-> 44]],
   geometry |-> geometry]

HandoffInputs ==
  {Request(0, 12, 44, bytes, None) : bytes \in {0, 2, 6}}
    \cup {Request(0, 12, 44, 2, [width |-> 1, height |-> 1, rowBytes |-> 2]),
          Request(4, 8, 44, 2, None), Request(0, 12, 24, 2, None)}

=============================================================================
