---------------------------- MODULE MCHeldLocks ----------------------------
(***************************************************************************)
(* Instances of HeldLocks for TLC.  The nests are the ones the plugins     *)
(* make (PluginNests): two processes on one node, one or two VMs, the      *)
(* cluster-wide and the node-wide component lock.                          *)
(***************************************************************************)
EXTENDS HeldLocks, PluginNests, TLC

CONSTANTS p1, p2

Processes == {p1, p2}
SymProcesses == Permutations(Processes)

IsLeaf(l) == l[1] \in {"jdssc_general", "jdssc_info", "multipath"}

\* Two VMs: a process works on a volume of one, renames a volume of one to the
\* other in either direction, or asks for a status without a method lock.
TwoVms == {VmLock(1), VmLock(2), General, Info("n1")}
TwoVmPlan == [p \in Processes |->
    Running(PairNest(1, 2), {General}) \cup Running(PairNest(2, 1), {General})
      \cup Running(VolumeNest(1), {Info("n1")}) \cup Running(NoNest, {Info("n1")})]
TwoVmLeaf == {l \in TwoVms : IsLeaf(l)}

\* One VM and the cluster-wide component lock.
VmAndGeneral == {VmLock(1), General}
VmAndGeneralPlan == [p \in Processes |-> Running(VolumeNest(1), {General})]

GeneralOnly == {General}

\* Waits: a cluster lock is waited for as long as pmxcfs takes to expire it, a
\* node component lock only briefly.
Waits == [l \in Lock |-> IF l = Info("n1") THEN 1 ELSE Cfs]

\* Longest component runs: an information command is shorter than its hold cap.
Runs == [l \in Leaf |-> IF l = Info("n1") THEN 1 ELSE 2]

\* Hold caps: a component lock is capped just above the longest run, a method
\* lock beyond the expiry of pmxcfs and beyond the acquire wait.
Holds == [l \in Lock |-> IF IsLeaf(l) THEN 2 ELSE Cfs + 1]
=============================================================================
