--------------------------- MODULE MCPodAdmission ---------------------------
(***************************************************************************)
(* PodAdmission for TLC: the commands and pods of the runs.                *)
(***************************************************************************)
EXTENDS PodAdmission

CONSTANTS
    groupIO, zone, fast, slow, default, other, jobLabel, rule1, rule2

Command(name, mode, namespace) ==
    [name |-> name, mode |-> mode, namespace |-> namespace, targetLabels |-> {jobLabel},
     nodeSelector |-> {}, nodeAffinity |-> None, assignment |-> None]

\* valetctl assignment create rule1 require -t ... -A io/fast
RequireFast ==
    [Command(rule1, "require", None) EXCEPT
        !.assignment = [key |-> groupIO, values |-> {fast}]]

\* ... rule1 prefer -n default -A io, for every pod
PreferMembers ==
    [Command(rule1, "prefer", default) EXCEPT
        !.targetLabels = {}, !.assignment = [key |-> groupIO, values |-> {}]]

\* ... rule2 require -n default -A io/slow -a zone=fast
RequireZone ==
    [Command(rule2, "require", default) EXCEPT
        !.assignment = [key |-> groupIO, values |-> {slow}],
        !.nodeAffinity = [key |-> zone, values |-> {fast}]]

\* ... rule2 nodes -S ..., for every pod
SelectNodes ==
    [Command(rule2, "nodes", None) EXCEPT !.targetLabels = {}, !.nodeSelector = Label]

\* ... rule2 deny-others
DenyOthers == Command(rule2, "deny-others", None)

AdmissionCommands == {RequireFast, PreferMembers, RequireZone, SelectNodes, DenyOthers}

Own(affinity) == [nodeSelector |-> {}, affinity |-> affinity, tolerations |-> {}]

Zoned == [mode |-> "require", term |-> [key |-> zone, values |-> {slow}], others |-> {}]

AdmissionPods ==
    {[namespace |-> default, labels |-> {jobLabel}, spec |-> Own(None)],
     [namespace |-> default, labels |-> {}, spec |-> Own(Zoned)],
     [namespace |-> other, labels |-> {jobLabel}, spec |-> Own(Zoned)],
     [namespace |-> default, labels |-> {jobLabel, PodProtected}, spec |-> Own(Zoned)]}

Argument(name, num, n, mode) == [name |-> name, num |-> num, n |-> n, mode |-> mode]

\* fast:1:LabelAndTaint slow:DEFAULT:LabelAndTaint, and the other way round.
AdmissionGroups ==
    {<<Argument(fast, "number", 1, "LabelAndTaint"), Argument(slow, "DEFAULT", 0, "LabelAndTaint")>>,
     <<Argument(slow, "percent", 50, "LabelOnly"), Argument(fast, "DEFAULT", 0, "LabelAndTaint")>>,
     <<Argument(fast, "invalid", 0, "LabelOnly")>>}
=============================================================================
