----------------------------- MODULE NasSnapshots -----------------------------
(***************************************************************************)
(* Snapshots of the disks of one VM on an NFS storage.  All disks are files *)
(* of one dataset; a snapshot of the VM is ONE snapshot of the dataset, its *)
(* name made of the VM and the snapshot (nas_sname), which every disk asks  *)
(* for.  To read it, a clone of it is shared and mounted per disk           *)
(* (publish, snapshot_activate); a rollback copies the file back.           *)
(*                                                                         *)
(* The methods of a VM are serial (vm lock, and the config lock of PVE      *)
(* around its tasks), so the state has one task, op, that works disk by     *)
(* disk.  Between and inside tasks requests fail, jdssc runs are killed and *)
(* repeated, nodes crash, the VM moves and its guest writes.                *)
(***************************************************************************)
EXTENDS Integers, FiniteSets

CONSTANTS Node, Disk, Snap, None,
          Attempts,      \* snapshot_deactivate_unpublish repeats itself (10 times in the code)
          MaxWrites,     \* bound: writes of the guest
          MaxFailures    \* bound: failures of every kind

ASSUME NasAssumption ==
    /\ Attempts \in Nat \ {0} /\ MaxWrites \in Nat /\ MaxFailures \in Nat
    /\ None \notin Disk \cup Snap

VARIABLES
    data,      \* contents of the disks; every write is new, Torn is half a copy
    writes,    \* writes so far
    snap,      \* the snapshots of the dataset: the contents of all disks, or None
    clone,     \* snapshots that have their clone
    share,     \* snapshots whose clone is shared
    dir,       \* mount directories <<disk, snapshot>>, on the shared dataset itself
    mnt,       \* per node and directory: not mounted, mounted, or a stale handle
    home,      \* the node the VM is on
    conf,      \* snapshots in the VM's config
    moments,   \* contents the disks had while the snapshot was being taken
    left,      \* publications a failed or killed task may have left behind
    op,        \* the task under way
    failures

array == <<snap, clone, share>>
vars == <<data, writes, snap, clone, share, dir, mnt, home, conf, moments, left, op, failures>>

Torn == -1
Dirs == Disk \X Snap
Kinds == {"none", "snapshot", "undo", "delete", "rollback", "activate", "deactivate", "stop"}
Steps == {"idle", "create", "clone", "share", "find", "undoShare", "undoClone", "mount", "copy",
          "umount", "dshare", "gshare", "dclone", "enter", "rmdir", "lclones", "dsnap"}

\* kind: the task; s, d: snapshot and disk it is at; todo: what is to do after
\* them; done: disks that have the new snapshot; tries: attempts at a
\* deactivation; bad: an error to be reported in the end.
Idle(failed) == [kind |-> "none", s |-> None, d |-> None, at |-> "idle", todo |-> {}, done |-> {},
                 tries |-> 0, bad |-> failed]

Init ==
    /\ data = [d \in Disk |-> 0] /\ writes = 0
    /\ snap = [s \in Snap |-> None] /\ clone = {} /\ share = {}
    /\ dir = {} /\ mnt = [n \in Node |-> [e \in Dirs |-> "none"]]
    /\ home \in Node
    /\ conf = {} /\ moments = [s \in Snap |-> {}] /\ left = {}
    /\ op = Idle(FALSE) /\ failures = 0

-----------------------------------------------------------------------------
(* The array. *)

\* Mounts of a clone that is gone or no longer shared have stale handles.
Stale(s) == mnt' = [n \in Node |-> [e \in Dirs |->
                        IF e[2] = s /\ mnt[n][e] = "ok" THEN "stale" ELSE mnt[n][e]]]

CreateSnap(s) ==
    /\ snap' = [snap EXCEPT ![s] = IF @ = None THEN data ELSE @]
    /\ UNCHANGED <<clone, share, mnt>>

CreateClone(s) == clone' = clone \cup {s} /\ UNCHANGED <<snap, share, mnt>>

CreateShare(s) == share' = share \cup {s} /\ UNCHANGED <<snap, clone, mnt>>

DeleteShare(s) == share' = share \ {s} /\ Stale(s) /\ UNCHANGED <<snap, clone>>

DeleteClone(s) == clone' = clone \ {s} /\ Stale(s) /\ UNCHANGED <<snap, share>>

\* A clone is a volume as well.
DeleteNasVolume(s) == DeleteClone(s)

DeleteSnap(s) == snap' = [snap EXCEPT ![s] = None] /\ UNCHANGED <<clone, share, mnt>>

SameArray == UNCHANGED <<array, mnt>>

-----------------------------------------------------------------------------
(* How a task goes on.  Each of these sets op and left. *)

\* What a method that died, or gave up, may have left published.
Blame(S) == left' = (left \cup S) \cap (clone' \cup share')

Go(o, blamed) == op' = o /\ Blame(blamed)
Stay(o) == Go(o, {}) /\ UNCHANGED conf
At(step) == [op EXCEPT !.at = step]

\* The first step of each method.
First(kind) == CASE kind = "snapshot" -> "create"
                 [] kind \in {"rollback", "activate"} -> "clone"
                 [] OTHER -> "enter"

\* The task is over: the config follows what PVE is told.
End(failed, blamed) ==
    /\ Go(Idle(failed), blamed)
    /\ conf' = CASE op.kind = "snapshot" /\ ~failed -> conf \cup {op.s}
                 [] op.kind = "delete" /\ ~failed -> conf \ {op.s}
                 [] OTHER -> conf

\* The method of this disk is done; the next one, or the end.  What is left of
\* "stop" are the directories of one disk, whose errors are kept to the end.
NextOf(o, blamed) ==
    IF o.todo = {} THEN End(o.bad \/ o.kind = "undo", blamed)
    ELSE \E x \in o.todo :
            LET p == [o EXCEPT !.todo = @ \ {x}, !.at = First(o.kind), !.tries = 0]
            IN /\ Go(IF o.kind = "stop" THEN [p EXCEPT !.s = x] ELSE [p EXCEPT !.d = x], blamed)
               /\ UNCHANGED conf

\* The method of this disk dies.  A failed snapshot is removed from the disks
\* that have it, with force; that and a stop go on; every other task is over.
Die == CASE op.kind \in {"stop", "undo"} -> NextOf([op EXCEPT !.bad = TRUE], {op.s})
         [] op.kind = "snapshot" /\ op.done # {} ->
                NextOf([op EXCEPT !.kind = "undo", !.todo = op.done], {})
         [] OTHER -> End(TRUE, {op.s})

Unpublishes == {"dshare", "gshare", "dclone"}
Publishes == {"clone", "share", "find", "undoShare", "undoClone"}

\* An attempt of snapshot_deactivate_unpublish failed.
Again == IF op.tries + 1 < Attempts
         THEN Stay([op EXCEPT !.at = "enter", !.tries = @ + 1])
         ELSE Die

\* A jdssc command exits with an error.
CommandFails == IF op.at \in Unpublishes /\ op.kind \notin {"rollback", "activate"} THEN Again ELSE Die

\* It is killed at its timeout and run again from its first call.
Restart == Stay(At(CASE op.at \in Publishes -> "clone"
                     [] op.at \in Unpublishes -> "dshare"
                     [] op.at \in {"lclones", "dsnap"} -> "lclones"
                     [] OTHER -> "create"))

\* One request: it is executed and answered, or its command fails or is killed
\* although or before it was executed.
Request(Effect, Then) ==
    \/ Effect /\ Then /\ UNCHANGED failures
    \/ /\ failures < MaxFailures /\ failures' = failures + 1
       /\ Effect \/ SameArray
       /\ CommandFails \/ Restart

Same == UNCHANGED <<data, writes, home>>

-----------------------------------------------------------------------------
(* volume_snapshot *)

\* A snapshot that exists is ignored (--ignoreexists).
Create ==
    /\ op.at = "create"
    /\ Request(CreateSnap(op.s), NextOf([op EXCEPT !.done = @ \cup {op.d}], {}))
    /\ UNCHANGED <<dir, moments>> /\ Same

-----------------------------------------------------------------------------
(* snapshot_publish *)

\* A clone that exists is used; without its snapshot there is none.
Clone ==
    /\ op.at = "clone"
    /\ IF snap[op.s] = None THEN SameArray /\ Die /\ UNCHANGED failures
       ELSE Request(CreateClone(op.s), Stay(At("share")))
    /\ UNCHANGED <<dir, moments>> /\ Same

Share ==
    /\ op.at = "share"
    /\ Request(CreateShare(op.s), Stay(At("find")))
    /\ UNCHANGED <<dir, moments>> /\ Same

\* The path of the share is asked for; without an answer all is undone.
Find ==
    /\ op.at = "find"
    /\ SameArray
    /\ \/ Stay(At("mount")) /\ UNCHANGED failures
       \/ /\ failures < MaxFailures /\ failures' = failures + 1
          /\ Stay(At("undoShare")) \/ Restart
    /\ UNCHANGED <<dir, moments>> /\ Same

UndoShare ==
    /\ op.at = "undoShare"
    /\ Request(DeleteShare(op.s), Stay(At("undoClone")))
    /\ UNCHANGED <<dir, moments>> /\ Same

UndoClone ==
    /\ op.at = "undoClone"
    /\ Request(DeleteClone(op.s), Die)
    /\ UNCHANGED <<dir, moments>> /\ Same

-----------------------------------------------------------------------------
(* snapshot_activate, the copy, snapshot_deactivate *)

here == <<op.d, op.s>>
state == mnt[home][here]

SetMount(m) == mnt' = [mnt EXCEPT ![home][here] = m]

\* rmdir on the shared dataset takes the directory from every node.
RemoveDir ==
    /\ dir' = dir \ {here}
    /\ mnt' = [n \in Node |-> [mnt[n] EXCEPT ![here] = "none"]]

\* A mount of the share is used as it is.  `-d` of a stale one says true as
\* long as its attributes are cached, and then creating the directory fails.
Mount ==
    /\ op.at = "mount" /\ UNCHANGED array
    /\ \/ /\ IF state = "none" THEN dir' = dir \cup {here} /\ SetMount("ok") ELSE UNCHANGED <<dir, mnt>>
          /\ IF op.kind = "rollback" THEN Stay(At("copy")) ELSE NextOf(op, {})
          /\ UNCHANGED failures
       \/ /\ \/ state = "stale" /\ UNCHANGED <<dir, failures>>
             \/ /\ state = "none"
                /\ failures < MaxFailures /\ failures' = failures + 1
                /\ dir' = dir \cup {here}
          /\ Stay([At("dshare") EXCEPT !.bad = TRUE])
          /\ UNCHANGED mnt
    /\ UNCHANGED moments /\ Same

\* What a copy that ends early leaves of the disk.
HalfCopied == data' \in {data, [data EXCEPT ![op.d] = Torn]}

\* The file of this disk is copied from the clone.
Copy ==
    /\ op.at = "copy" /\ UNCHANGED array
    /\ \/ /\ state = "ok"
          /\ data' = [data EXCEPT ![op.d] = snap[op.s][op.d]]
          /\ Stay(At("umount")) /\ UNCHANGED failures
       \/ /\ state = "stale"
          /\ Stay([At("umount") EXCEPT !.bad = TRUE]) /\ UNCHANGED <<data, failures>>
       \/ /\ failures < MaxFailures /\ failures' = failures + 1
          /\ HalfCopied
          /\ Stay([At("umount") EXCEPT !.bad = TRUE])
    /\ UNCHANGED <<dir, mnt, moments, writes, home>>

\* snapshot_deactivate does nothing when it does not see the directory; the
\* check for the mount may fail.
Unmount(Then, Else) ==
    \/ state # "none" /\ RemoveDir /\ Then /\ UNCHANGED failures
    \/ state # "ok" /\ Then /\ UNCHANGED <<dir, mnt, failures>>
    \/ /\ failures < MaxFailures /\ failures' = failures + 1
       /\ Else /\ UNCHANGED <<dir, mnt>>

UmountCopied ==
    /\ op.at = "umount" /\ UNCHANGED array
    /\ Unmount(Stay(At("dshare")), Die)
    /\ UNCHANGED moments /\ Same

\* Wrong: a directory without a mount on this node is removed as it is.
EnterWrong ==
    /\ op.at = "enter" /\ UNCHANGED array
    /\ Unmount(Stay(At(IF here \in dir /\ state = "none" THEN "rmdir" ELSE "dshare")), Again)
    /\ UNCHANGED moments /\ Same

Enter ==
    /\ op.at = "enter" /\ UNCHANGED array
    /\ Unmount(Stay(At("dshare")), Again)
    /\ UNCHANGED moments /\ Same

-----------------------------------------------------------------------------
(* snapshot_unpublish, and what follows it *)

Dshare ==
    /\ op.at = "dshare"
    /\ Request(DeleteShare(op.s), Stay(At("gshare")))
    /\ UNCHANGED <<dir, moments>> /\ Same

\* A share that is still there after ten looks is not waited for.
Gshare ==
    /\ op.at = "gshare"
    /\ Request(SameArray, Stay(At("dclone")))
    /\ UNCHANGED <<dir, moments>> /\ Same

\* Wrong: the error of the copy is forgotten.
UnpublishedWrong(blamed) ==
    IF op.kind \in {"rollback", "activate"} THEN NextOf([op EXCEPT !.bad = FALSE], blamed)
    ELSE Go(At("rmdir"), blamed) /\ UNCHANGED conf

Unpublished(blamed) ==
    CASE op.kind \in {"rollback", "activate"} /\ op.bad -> Die
      [] op.kind \in {"rollback", "activate"} /\ ~op.bad -> NextOf(op, blamed)
      [] OTHER -> Go(At("rmdir"), blamed) /\ UNCHANGED conf

\* A clone that cannot be deleted is given up without an error.
Dclone ==
    /\ op.at = "dclone"
    /\ \/ DeleteClone(op.s) /\ Unpublished({}) /\ UNCHANGED failures
       \/ /\ failures < MaxFailures /\ failures' = failures + 1
          /\ DeleteClone(op.s) \/ SameArray
          /\ Unpublished({op.s}) \/ Restart
    /\ UNCHANGED <<dir, moments>> /\ Same

\* The directory goes unless it is, and is seen to be, a mount; a check that
\* fails repeats the attempt.
Rmdir ==
    /\ op.at = "rmdir" /\ UNCHANGED array
    /\ \/ /\ IF state = "none" THEN RemoveDir ELSE UNCHANGED <<dir, mnt>>
          /\ IF op.kind \in {"delete", "undo"} THEN Stay(At("lclones")) ELSE NextOf(op, {})
          /\ UNCHANGED failures
       \/ /\ failures < MaxFailures /\ failures' = failures + 1
          /\ Again /\ UNCHANGED <<dir, mnt>>
    /\ UNCHANGED moments /\ Same

-----------------------------------------------------------------------------
(* jdssc ... snapshot delete *)

\* The clone of the snapshot, if it is still there, is deleted first.
Lclones ==
    /\ op.at = "lclones"
    /\ Request(IF op.s \in clone THEN DeleteNasVolume(op.s) ELSE SameArray, Stay(At("dsnap")))
    /\ UNCHANGED <<dir, moments>> /\ Same

Dsnap ==
    /\ op.at = "dsnap"
    /\ Request(DeleteSnap(op.s), NextOf(op, {}))
    /\ moments' = [moments EXCEPT ![op.s] = IF snap'[op.s] = None THEN {} ELSE @]
    /\ UNCHANGED dir /\ Same

-----------------------------------------------------------------------------
(* Tasks, the guest, and the nodes *)

Start(kind, s, d, todo) ==
    /\ op.kind = "none" /\ UNCHANGED array
    /\ Go([Idle(FALSE) EXCEPT !.kind = kind, !.s = s, !.d = d, !.todo = todo, !.at = First(kind)], {})
    /\ UNCHANGED <<dir, mnt, conf, failures>> /\ Same

\* PVE works on all disks of the VM for a snapshot, on one for the rest.
Begin ==
    \E s \in Snap, d \in Disk :
        \/ /\ s \notin conf /\ Start("snapshot", s, d, Disk \ {d})
           /\ moments' = [moments EXCEPT ![s] = @ \cup {data}]
        \/ /\ s \in conf /\ UNCHANGED moments
           /\ \E kind \in {"delete", "rollback"} : Start(kind, s, d, Disk \ {d})
        \/ /\ s \in conf /\ UNCHANGED moments
           /\ \E kind \in {"activate", "deactivate"} : Start(kind, s, d, {})
        \/ /\ <<d, s>> \in dir /\ UNCHANGED moments
           /\ Start("stop", s, d, {x \in Snap \ {s} : <<d, x>> \in dir})

\* The guest writes, except while its VM is rolled back.
Write ==
    /\ writes < MaxWrites /\ op.kind # "rollback"
    /\ writes' = writes + 1
    /\ \E d \in Disk : data' = [data EXCEPT ![d] = writes + 1]
    /\ moments' = [s \in Snap |-> IF op.kind = "snapshot" /\ op.s = s
                                  THEN moments[s] \cup {data'} ELSE moments[s]]
    /\ UNCHANGED <<array, dir, mnt, home, conf, left, op, failures>>

Move ==
    /\ op.kind = "none"
    /\ home' \in Node \ {home}
    /\ UNCHANGED <<data, writes, array, dir, mnt, conf, moments, left, op, failures>>

\* The task is killed; in a crash the node loses its mounts, too.
Killed ==
    /\ failures < MaxFailures /\ failures' = failures + 1
    /\ UNCHANGED array
    /\ \/ op.kind # "none" /\ UNCHANGED <<mnt, home>>
       \/ /\ mnt' = [mnt EXCEPT ![home] = [e \in Dirs |-> "none"]]
          /\ home' \in Node
    /\ Go(Idle(TRUE), IF op.kind = "none" THEN {} ELSE {op.s})
    /\ IF op.at = "copy" THEN HalfCopied ELSE UNCHANGED data
    /\ UNCHANGED <<writes, dir, conf, moments>>

Next ==
    \/ Create \/ Clone \/ Share \/ Find \/ UndoShare \/ UndoClone
    \/ Mount \/ Copy \/ UmountCopied \/ Enter
    \/ Dshare \/ Gshare \/ Dclone \/ Rmdir \/ Lclones \/ Dsnap
    \/ Begin \/ Write \/ Move \/ Killed

Spec == Init /\ [][Next]_vars

-----------------------------------------------------------------------------
(* Properties *)

\* Every field is of its kind, the task is at a step of its method.
TypeOK ==
    /\ data \in [Disk -> {Torn} \cup 0..MaxWrites] /\ writes \in 0..MaxWrites
    /\ snap \in [Snap -> [Disk -> {Torn} \cup 0..MaxWrites] \cup {None}]
    /\ clone \subseteq Snap /\ share \subseteq Snap /\ left \subseteq Snap /\ conf \subseteq Snap
    /\ dir \subseteq Dirs /\ home \in Node
    /\ mnt \in [Node -> [Dirs -> {"none", "ok", "stale"}]]
    /\ op.kind \in Kinds /\ op.at \in Steps /\ op.tries < Attempts

\* A rollback of the VM that reports success (_volume_snapshot_rollback of all
\* disks) has brought back contents that all disks had at one moment while PVE
\* was taking that snapshot - in one of its attempts, since the last deletion:
\* with --ignoreexists a snapshot left by a failed attempt is taken for the new.
RollbackRestores ==
    [][op.kind = "rollback" /\ op'.kind = "none" /\ ~op'.bad => data \in moments[op.s]]_vars

\* A clone or share of a snapshot is worked on, or has a mount directory by
\* which a deactivation finds and removes it (all_snapshots_deactivate_unpublish),
\* or was left by a method that died, or gave up deleting it.
Findable ==
    \A s \in clone \cup share :
        \/ op.kind # "none" /\ op.s = s
        \/ \E d \in Disk : <<d, s>> \in dir
        \/ s \in left

=============================================================================
