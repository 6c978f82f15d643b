------------------------ MODULE MCPackLeftController ------------------------
(***************************************************************************)
(* PackLeftController for TLC: the groups, the pods and the nodes.         *)
(***************************************************************************)
EXTENDS PackLeftController, MCGroups

CONSTANTS bigPod, smallPod

Half == [fullPercent |-> 50, numAvoid |-> 0, percentAvoid |-> 67]

\* One packed assignment: half full is full, two nodes of three are avoided.
PackedHalf == Group({}, <<Packed(Assignment(nameA, "LabelOnly", 3, 0), Half)>>, None)

\* Only the default is packed, with the default options.
PackedDefault ==
    Group({}, <<Assignment(nameB, "LabelOnly", 1, 0)>>, Packed(Assignment(nameA, "", 0, 0), None))

\* The small pod fills the cpu of the small node, the big one four fifths of
\* the memory of any: over the limit of one spec, at the limit of the other.
Requests ==
    [p \in Pod |-> IF p = bigPod THEN [mem |-> 16, cpu |-> 2] ELSE [mem |-> 1, cpu |-> 4]]

Capacity == [n \in Node |-> [mem |-> 20, cpu |-> IF n = 1 THEN 4 ELSE 20]]

\* The small pod runs on the small node, the big one is not created yet.
Running ==
    {[p \in Pod |-> IF p = smallPod THEN [node |-> 1, done |-> FALSE] ELSE None]}

BalanceSpecs == {PackedDefault, PackedHalf}
OneSpec == {PackedHalf}
=============================================================================
