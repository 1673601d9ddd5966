------------------------------ MODULE MCTargets -------------------------------
(* Instances of Targets for TLC. *)
EXTENDS Targets

CONSTANTS v1, v2, v3, c1, foreign, u1, p1, p2

NoSet == {}
OneProc == {p1}
Procs == {p1, p2}
Three == {v1, v2, c1}
VolumeAndClone == {v1, c1}
Trio == {v1, v2, v3}
Clones == {c1}
Pair == {0, 1}
First == {0}
Foreigners == {foreign}
OneUser == {u1}
UserOrNone == {u1, None}
JustNone == {None}

Publishing == {"create", "export", "remove", "unexport"}
Creates == {"create", "export"}
CreateRemove == {"create", "remove"}

AllFaults == {"is_lun", "clone", "lookup", "sessions", "list", "luns", "get_target", "vips",
              "create_target", "get_lun", "attach", "blocked", "users", "set_user", "active",
              "delete_target", "detach", "delete_lun"}
\* An error of is_lun makes the sweep take a volume that exists for a zombie.
CoreFaults == AllFaults \ {"is_lun"}
LateCreate == {"create"}
LateAttach == {"attach"}
=============================================================================
