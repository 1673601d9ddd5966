---------------------------- MODULE MCActivation ----------------------------
(***************************************************************************)
(* Instances of Activation: one or two nodes, the volumes of one or two    *)
(* storages on one or two targets, and which errors may occur.             *)
(***************************************************************************)
EXTENDS Activation, TLC

CONSTANTS v1, v2, v3, A, B, t1, t2, k1, k2, k3

NoParent  == [s \in {} |-> None]
ParentV1  == [s \in {v2} |-> v1]
OneStore  == [v \in Volume |-> A]
TwoStores == [v \in Volume |-> IF v = v3 THEN B ELSE A]
OneTarget == [k \in Slot |-> t1]
TwoTargets == [k \in Slot |-> IF k = k3 THEN t2 ELSE t1]

SymNodesSlots == Permutations(Node) \cup Permutations(Slot)

OfAttempt  == {"publish", "stage", "map", "record"}
OfTeardown == {"tStage", "tMap", "query", "unpublish"}
OfUnstack  == {"xStage", "xMap"}

\* Errors that leave every teardown its chance to log out: no fatal ones, no
\* timeouts, no kills.
Repairable == (OfAttempt \cup OfTeardown \cup OfUnstack) \X {"fail"}

\* Ordinary errors and timeouts everywhere, refusals, failing logouts, reboots.
Ordinary == (OfAttempt \cup OfTeardown \cup OfUnstack \cup {"logout", "reboot"}) \X {"fail"}
    \cup {"publish", "map", "unpublish", "xMap"} \X {"contention"}
    \cup {<<"publish", "refused">>}

\* The alarm and the death of the process on top of them.
Everything == Ordinary \cup {"crash", "drop"} \X {"fail"}
    \cup ({"drop"} \cup OfAttempt \cup OfTeardown \cup OfUnstack) \X {"fatal"}

\* What leaves no record and no device of an earlier attachment behind: no reboot,
\* and no teardown that detaches a volume and keeps its device.
NothingStale == Everything \ {<<"reboot", "fail">>, <<"tStage", "fail">>}
=============================================================================
