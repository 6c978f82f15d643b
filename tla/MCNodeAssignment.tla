-------------------------- MODULE MCNodeAssignment --------------------------
(***************************************************************************)
(* NodeAssignment for TLC: the groups of the runs.                         *)
(***************************************************************************)
EXTENDS NodeAssignment, MCGroups

\* Two assignments in order of priority, a default that taints.
Defaulted ==
    Group({workerLabel},
          <<Assignment(nameA, "LabelOnly", 1, 0), Assignment(nameB, "", 0, 50)>>,
          Assignment(nameD, "LabelAndTaint", 0, 0))

\* The other order, other numbers, every node, no default.
Reordered ==
    Group({},
          <<Assignment(nameB, "LabelAndTaint", 2, 0), Assignment(nameA, "LabelOnly", 0, 0)>>,
          None)

\* A node for each of two assignments.
OneEach ==
    Group({}, <<Assignment(nameA, "LabelOnly", 1, 0), Assignment(nameB, "LabelOnly", 1, 0)>>,
          None)

AssignSpecs == {Defaulted, Reordered}
PrioritySpecs == {OneEach}
=============================================================================
