--------------------------- MODULE MC_Arm64Placement ---------------------------
(* Placements for TLC: pages of four bytes, blocks of two pages. *)
EXTENDS Arm64Placement

Trees ==
  {[bytes |-> bytes, valid |-> TRUE, dram |-> [base |-> 8, size |-> 44]] :
     bytes \in {0, 2, 4, 6, 7, 10}}
    \cup {[bytes |-> 2, valid |-> valid, dram |-> dram] :
            valid \in BOOLEAN,
            dram \in {None, [base |-> 8, size |-> 0], [base |-> 8, size |-> 38],
                      [base |-> 12, size |-> 44], [base |-> 60, size |-> 44]}}

Geometries ==
  {None} \cup [width : {1}, height : {1, 3}, rowBytes : {1, 2, 4}]
    \cup {[width |-> 0, height |-> 1, rowBytes |-> 2],
          [width |-> 20, height |-> 1, rowBytes |-> 31],
          [width |-> 1, height |-> 31, rowBytes |-> 2]}

Request(phys, virt, memory, actual, at, tree, geometry, odd) ==
  [physBase |-> phys, virtBase |-> virt, memory |-> memory, actual |-> actual,
   kernelPhys |-> at, tree |-> tree, geometry |-> geometry,
   video |-> odd = "video", line |-> odd # "line", flags |-> odd # "flags"]

SmallInputs ==
  {Request(8, virt, memory, 44, at, tree, geometry, "none") :
     virt \in {16, 24, 32}, memory \in {24, 28, 44}, at \in {8, 12, 16},
     tree \in Trees, geometry \in Geometries}
    \cup {Request(phys, virt, 40, actual, at, [bytes |-> 4, valid |-> TRUE,
                    dram |-> [base |-> 8, size |-> 44]], geometry, odd) :
            phys \in {8, 12, 10}, virt \in {28, 30, 60}, actual \in {40, 44},
            at \in {4, 12, 13}, geometry \in {None, [width |-> 1, height |-> 1, rowBytes |-> 2]},
            odd \in {"none", "line", "flags", "video"}}

SmallKernels ==
  {[check |-> "Ok", base |-> base, size |-> size, header |-> 0, entry |-> size - 1] :
     base \in {24, 28, 32}, size \in {4, 8}}
    \cup {[check |-> "InvalidMapping"]}

SmallBackings ==
  [ramBase : {8, 12}, ramBytes : {40, 44}, ramHost : {8},
   tableBase : {0, 4, 16, 52, 56}, tableBytes : {4, 8}, tableHost : {0, 4, 52}]
    \cup {[ramBase |-> 8, ramBytes |-> 44, ramHost |-> 0, tableBase |-> base,
           tableBytes |-> bytes, tableHost |-> host] :
            base \in {52, 56, 60}, bytes \in {2, 4}, host \in {44, 48, 63}}

=============================================================================
