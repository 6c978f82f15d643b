------------------------------ MODULE MCGroups ------------------------------
(***************************************************************************)
(* What the groups of the runs are made of: one label, three names of      *)
(* assignments; nameD is the name of the default assignments.              *)
(***************************************************************************)
EXTENDS Assignments

CONSTANTS workerLabel, nameA, nameB, nameD

Assignment(name, mode, num, percent) ==
    [name |-> name, mode |-> mode, taintEffect |-> "", numDesired |-> num,
     percentDesired |-> percent, schedulingMode |-> "", packLeft |-> None]

\* The same, packed to the left with the given options.
Packed(a, options) == [a EXCEPT !.schedulingMode = "PackLeft", !.packLeft = options]

Group(labels, assignments, default) ==
    [targetLabels |-> labels, assignments |-> assignments, defaultAssignment |-> default]
=============================================================================
