----------------------------- MODULE MC_KcStaging -----------------------------
(* Collections for TLC.  A header takes two bytes, a page four. *)
EXTENDS KcStaging

Part(address, memory, offset, size, executable) ==
  [kind |-> "segment", address |-> address, memory |-> memory,
   file |-> [offset |-> offset, size |-> size], executable |-> executable]

Reference(offset, address) ==
  [kind |-> "member", offset |-> offset, address |-> address]

Thread == [kind |-> "thread", pc |-> 6]

Image(type, commands) ==
  [type |-> type, subtype |-> 0, commandBytes |-> 1, commands |-> commands]

\* Code at 5 .. 9 with a zero tail or without, data in front of it or behind it
\* at some distance, up to where the arena or an address gets too large, and two members in the code that share bytes: the second
\* one maps more of the code than its own part, or none, and perhaps the data.
Codes == {Part(5, memory, 0, 5, TRUE) : memory \in {5, 6}}

Datas == {Part(address, memory, 5, 2, FALSE) : address \in {0, 2, 11, 13, 14, 17}, memory \in {2, 3}}

FirstMembers ==
  {<<Part(6, 2, 1, 2, TRUE)>>,
   <<Part(5, 4, 0, 4, TRUE)>>,
   <<Part(6, 3, 1, 2, TRUE), Part(8, 1, 3, 1, FALSE)>>}

SecondMembers(data) ==
  {<<Part(8, 2, 3, 2, TRUE)>>,
   <<Part(6, 4, 1, 4, TRUE)>>,
   <<Part(8, 2, 3, 2, TRUE), Part(data, 2, 5, 1, FALSE)>>,
   <<Part(8, 2, 3, 2, TRUE), Part(data + 1, 1, 0, 0, FALSE)>>,
   <<Part(8, 2, 3, 2, TRUE), Part(data - 1, 2, 0, 0, FALSE)>>}

StagedFiles ==
  {[length |-> 7,
    images |-> (0 :> Image("fileset", <<data, code, Thread, Reference(1, 6),
                                        Reference(3, 8)>>))
                 @@ (1 :> Image("kext", first)) @@ (3 :> Image("execute", second))] :
     code \in Codes, data \in Datas, first \in FirstMembers,
     second \in UNION {SecondMembers(a) : a \in {2, 11}}}

=============================================================================
