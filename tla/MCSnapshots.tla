------------------------------ MODULE MCSnapshots ------------------------------
(* Instances of Snapshots for TLC. *)
EXTENDS Snapshots, TLC

CONSTANTS p1, p2, a, b, c, s1, s2

OneProc == {p1}
Procs == {p1, p2}
TwoNames == {a, b}
ThreeNames == {a, b, c}
TwoSnaps == {s1, s2}
NoSet == {}
Sym == Permutations(Proc) \cup Permutations(Vol) \cup Permutations(Snap)

Cloning == {"create", "snap", "clone", "cloneSnap"}
Calls == {First(op) : op \in Commands} \cup
         {"snap", "cClear", "cAgain", "cClone", "cUndo", "cFrom", "cProv", "clones", "unmount",
          "unsnap", "del", "origin", "deps", "rDo", "nOld", "nDo", "nConfirm"}
\* A snapshot that cannot be removed is cloned as it is (_clone_object).
CoreFaults == (Calls \cup {"clean"}) \ {"cClear", "nConfirm"}
CoreLossy == {"cSnap", "cClone", "unsnap", "del", "origin", "rDo", "nDo"}
Creates == {"snap", "cSnap", "cAgain", "cClone"}

\* Two methods overlap while one that was killed waits for its next run, and
\* as long as the disks have no more than one snapshot of a user.
Torn == {"clone", "destroy", "rollback", "rename"}
Overlap ==
    (\A p \in Proc : pr[p].op # "none") =>
        /\ \E p \in Proc : pr[p].at = "again" /\ pr[p].errs > 0 /\ pr[p].op \in Torn
        /\ \E s \in Snap : \A p \in Proc : UNION Range(conf) \subseteq {s} /\ pr[p].s \in {s, None}
=============================================================================
