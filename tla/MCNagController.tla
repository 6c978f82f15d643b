--------------------------- MODULE MCNagController ---------------------------
(***************************************************************************)
(* NagController for TLC: the groups of the runs.                          *)
(***************************************************************************)
EXTENDS NagController, MCGroups

\* One assignment; the nodes that are left get the default.
OneOfSome ==
    Group({workerLabel}, <<Assignment(nameA, "LabelAndTaint", 1, 0)>>,
          Assignment(nameD, "LabelOnly", 0, 0))

\* Half of all nodes, nothing for the others.
HalfOfAll == Group({}, <<Assignment(nameB, "", 0, 50)>>, None)

\* One node of any; the others get the default.  And later only workers,
\* without a default.
OneOfAny ==
    Group({}, <<Assignment(nameA, "LabelOnly", 1, 0)>>, Assignment(nameD, "LabelOnly", 0, 0))
OneWorker == Group({workerLabel}, <<Assignment(nameA, "LabelOnly", 1, 0)>>, None)

ConvergeSpecs == {OneOfSome, HalfOfAll}
NarrowedSpecs == {OneOfAny, OneWorker}
=============================================================================
