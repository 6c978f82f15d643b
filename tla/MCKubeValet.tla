----------------------------- MODULE MCKubeValet -----------------------------
(***************************************************************************)
(* KubeValet for TLC: groups that use node assignment and packleft.        *)
(***************************************************************************)
EXTENDS KubeValet, MCGroups

\* One node of the first assignment, the others in a packed default.
PackedRest ==
    Group({}, <<Assignment(nameA, "LabelOnly", 1, 0)>>,
          Packed(Assignment(nameD, "LabelOnly", 0, 0), None))

\* Packed nodes, labelled and tainted: one, or two.
Tainted(num) == Group({}, <<Packed(Assignment(nameA, "LabelAndTaint", num, 0), None)>>, None)

NoPods == {[p \in Pod |-> None]}
NoRequests == [p \in Pod |-> [mem |-> 0, cpu |-> 0]]
Capacity == [n \in Node |-> [mem |-> 1, cpu |-> 1]]

TaintedSpecs == {Tainted(2)}
BothSpecs == {PackedRest, Tainted(1)}
=============================================================================
