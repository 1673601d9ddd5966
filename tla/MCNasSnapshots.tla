---------------------------- MODULE MCNasSnapshots ----------------------------
(* An instance of NasSnapshots for TLC. *)
EXTENDS NasSnapshots, TLC

CONSTANTS n1, n2, d1, d2, s1

Nodes == {n1, n2}
Disks == {d1, d2}
Snaps == {s1}
Sym == Permutations(Node) \cup Permutations(Disk)
=============================================================================
