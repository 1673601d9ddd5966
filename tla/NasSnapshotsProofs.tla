-------------------------- MODULE NasSnapshotsProofs --------------------------
(***************************************************************************)
(* Proofs about NasSnapshots, for all nodes, disks and snapshots, any      *)
(* number of attempts, writes and failures.                                *)
(***************************************************************************)
EXTENDS NasSnapshots, TLAPS

-----------------------------------------------------------------------------
(* The inductive invariant.                                                *)

Contents == [Disk -> {Torn} \cup 0..MaxWrites]

OpType == [kind : Kinds, s : Snap \cup {None}, d : Disk \cup {None}, at : Steps,
           todo : SUBSET (Disk \cup Snap), done : SUBSET Disk, tries : 0..Attempts - 1,
           bad : BOOLEAN]

\* Which steps belong to which tasks.
Method(o) ==
    /\ o.at = "idle" <=> o.kind = "none"
    /\ o.at = "create" <=> o.kind = "snapshot"
    /\ o.at \in Publishes \cup {"mount"} => o.kind \in {"rollback", "activate"}
    /\ o.at \in {"copy", "umount"} => o.kind = "rollback"
    /\ o.at \in {"enter", "rmdir"} => o.kind \in {"undo", "delete", "deactivate", "stop"}
    /\ o.at \in {"lclones", "dsnap"} => o.kind \in {"undo", "delete"}

\* o is a task with its coordinates, and with a disk or directory to do next.
Job(o) ==
    /\ o \in OpType
    /\ o.kind # "none" => o.s \in Snap /\ o.d \in Disk
    /\ o.todo \subseteq IF o.kind = "stop" THEN Snap ELSE Disk

\* ... at a step of its own.
Task(o) == Job(o) /\ Method(o)

\* The variables have their types.
Types ==
    /\ TypeOK
    /\ Task(op)
    /\ moments \in [Snap -> SUBSET Contents]
    /\ failures \in Nat

\* A working mount is one of a shared clone, and a mount has its directory.
Mounts ==
    \A n \in Node, e \in Dirs :
        /\ mnt[n][e] = "ok" => e[2] \in clone \cap share
        /\ mnt[n][e] # "none" => e \in dir

\* A clone has its snapshot; a snapshot has contents of its moments.
Taken ==
    /\ \A s \in clone : snap[s] # None
    /\ \A s \in Snap : snap[s] # None => snap[s] \in moments[s]

\* The present contents are a moment of the snapshot that is being taken.
Taking == op.kind = "snapshot" => data \in moments[op.s]

\* What the steps of a publication, and of its removal, can rely on.
Progress ==
    /\ op.at = "share" => op.s \in clone
    /\ op.at \in {"find", "mount"} => op.s \in clone \cap share
    /\ op.at \in {"gshare", "dclone"} => op.s \notin share
    /\ op.at = "dsnap" => op.s \notin clone

\* A rollback that goes well has copied the disks it has left behind, and the
\* one it works on when it removes the publication.
Copied(d) == snap[op.s] # None /\ data[d] = snap[op.s][d]

Restored ==
    op.kind = "rollback" /\ ~op.bad =>
        /\ \A d \in Disk \ (op.todo \cup {op.d}) : Copied(d)
        /\ op.at \in {"umount"} \cup Unpublishes => Copied(op.d)

\* What is published is found by its directories, or was left, unless the task
\* works on it: and then, too, when it only creates or deletes its snapshot.
Known(s) == (\E d \in Disk : <<d, s>> \in dir) \/ s \in left

Remembered ==
    \A s \in clone \cup share :
        /\ op.kind \in {"none", "snapshot"} \/ op.s # s => Known(s)
        /\ op.s = s /\ op.at \in {"rmdir", "lclones", "dsnap"} => s \in left

IInv == Types /\ Mounts /\ Taken /\ Taking /\ Progress /\ Restored /\ Remembered

-----------------------------------------------------------------------------
(* How a task goes on: every continuation keeps op a task, and either stays *)
(* with the disk it is at or leaves it.                                    *)

\* op' is o at the first step of its next disk (of "stop": its next directory).
Entered(o) ==
    /\ op'.kind = o.kind /\ op'.at = First(o.kind) /\ op'.bad = o.bad
    /\ IF o.kind = "stop"
       THEN op'.d = o.d /\ op'.s \in o.todo /\ op'.todo = o.todo \ {op'.s}
       ELSE op'.s = o.s /\ op'.d \in o.todo /\ op'.todo = o.todo \ {op'.d}

\* The task stays with its disk, and forgets no error.
Stays ==
    /\ op'.kind = op.kind /\ op'.s = op.s /\ op'.d = op.d /\ op'.todo = op.todo
    /\ op.bad => op'.bad
    /\ Blame({})

\* It is over, or at the next disk; a snapshot may have become its undo.
Leaves(blamed) ==
    /\ \/ op'.kind = "none" /\ op'.at = "idle" /\ (op'.bad \/ op.todo = {})
       \/ Entered(op)
       \/ op.kind \in {"stop", "undo"} /\ Entered([op EXCEPT !.bad = TRUE])
       \/ op.kind = "snapshot" /\ op'.kind = "undo" /\ op'.at = "enter" /\ op'.s = op.s
    /\ op'.kind = "none" /\ ~op'.bad => ~op.bad
    /\ Blame(blamed)

\* Between tasks.
LEMMA IdleTask == ASSUME NEW f \in BOOLEAN PROVE Task(Idle(f))
<1>1. Idle(f) \in OpType
  BY NasAssumption DEF Idle, OpType, Kinds, Steps
<1> QED BY <1>1 DEF Idle, Task, Job, Method, Publishes

\* Leaving a disk, for the next one or for the end (NextOf).
LEMMA NextOfShape ==
    ASSUME NEW o, NEW B, Job(o), o.kind # "none", conf \subseteq Snap, op.s \in Snap, NextOf(o, B)
    PROVE  /\ Task(op') /\ conf' \subseteq Snap /\ Blame(B)
           /\ \/ op' = Idle(o.bad \/ o.kind = "undo") /\ o.todo = {}
              \/ Entered(o)
<1>1. CASE o.todo = {}
  <2>1. op' = Idle(o.bad \/ o.kind = "undo") /\ Blame(B) /\ conf' \subseteq Snap
    BY <1>1 DEF NextOf, End, Go
  <2>2. Task(op')
    BY <2>1, IdleTask DEF Job, OpType
  <2> QED BY <1>1, <2>1, <2>2
<1>2. CASE o.todo # {}
  <2>1. Blame(B) /\ conf' = conf
    BY <1>2 DEF NextOf, Go
  <2>2. PICK x \in o.todo :
            LET p == [o EXCEPT !.todo = @ \ {x}, !.at = First(o.kind), !.tries = 0]
            IN  op' = IF o.kind = "stop" THEN [p EXCEPT !.s = x] ELSE [p EXCEPT !.d = x]
    BY <1>2 DEF NextOf, Go
  <2>3. o \in OpType /\ o.kind \in Kinds /\ x \in IF o.kind = "stop" THEN Snap ELSE Disk
    BY DEF Job, OpType
  <2>4. First(o.kind) \in Steps /\ Attempts - 1 \in Nat /\ 0 \in 0..Attempts - 1
    BY NasAssumption DEF First, Steps
  <2>5. CASE o.kind = "stop"
    <3>1. /\ op'.kind = o.kind /\ op'.at = First(o.kind) /\ op'.bad = o.bad
          /\ op'.d = o.d /\ op'.s = x /\ op'.todo = o.todo \ {x}
          /\ op' \in OpType
      BY <2>2, <2>3, <2>4, <2>5 DEF OpType
    <3> QED BY <3>1, <2>1, <2>3, <2>5 DEF Task, Job, Method, Kinds, Entered, First, Publishes
  <2>6. CASE o.kind # "stop"
    <3>1. /\ op'.kind = o.kind /\ op'.at = First(o.kind) /\ op'.bad = o.bad
          /\ op'.d = x /\ op'.s = o.s /\ op'.todo = o.todo \ {x}
          /\ op' \in OpType
      BY <2>2, <2>3, <2>4, <2>6 DEF OpType
    <3> QED BY <3>1, <2>1, <2>3, <2>6 DEF Task, Job, Method, Kinds, Entered, First, Publishes
  <2> QED BY <2>5, <2>6
<1> QED BY <1>1, <1>2

\* The method of a disk dies (Die).
LEMMA DieShape ==
    ASSUME Task(op), op.kind # "none", conf \subseteq Snap, Die
    PROVE  /\ Task(op') /\ conf' \subseteq Snap
           /\ Leaves(IF op.kind = "snapshot" /\ op.done # {} THEN {} ELSE {op.s})
           /\ op'.kind \notin {"rollback", "activate", "snapshot"}
           /\ op'.kind = "none" => op'.bad
<1>0. op \in OpType /\ op.s \in Snap /\ op.d \in Disk
  BY DEF Task, Job
<1>1. CASE op.kind \in {"stop", "undo"}
  <2> DEFINE o == [op EXCEPT !.bad = TRUE]
  <2>1. Job(o) /\ o.kind = op.kind /\ o.todo = op.todo /\ o.bad = TRUE
    BY <1>0 DEF Task, Job, OpType
  <2>2. NextOf(o, {op.s})
    BY <1>1 DEF Die
  <2> HIDE DEF o
  <2>3. /\ Task(op') /\ conf' \subseteq Snap /\ Blame({op.s})
        /\ (op' = Idle(o.bad \/ o.kind = "undo") /\ o.todo = {}) \/ Entered(o)
    BY <2>1, <2>2, <1>0, <1>1, NextOfShape
  <2>4. CASE op' = Idle(o.bad \/ o.kind = "undo") /\ o.todo = {}
    <3>1. op'.kind = "none" /\ op'.at = "idle" /\ op'.bad
      BY <2>1, <2>4 DEF Idle
    <3> QED BY <3>1, <2>3, <1>1 DEF Leaves
  <2>5. CASE Entered(o)
    <3>1. op'.kind = op.kind /\ op'.bad = TRUE
      BY <2>1, <2>5 DEF Entered
    <3>2. Leaves({op.s})
      BY <2>3, <2>5, <3>1, <1>1 DEF Leaves, o
    <3> QED BY <3>1, <3>2, <2>3, <1>1
  <2> QED BY <2>3, <2>4, <2>5
<1>2. CASE op.kind = "snapshot" /\ op.done # {}
  <2> DEFINE o == [op EXCEPT !.kind = "undo", !.todo = op.done]
  <2>1. Job(o) /\ o.kind = "undo" /\ o.s = op.s /\ o.todo = op.done
    BY <1>0 DEF Task, Job, OpType, Kinds
  <2>2. NextOf(o, {})
    BY <1>2 DEF Die
  <2> HIDE DEF o
  <2>3. Task(op') /\ conf' \subseteq Snap /\ Blame({}) /\ Entered(o)
    BY <2>1, <2>2, <1>0, <1>2, NextOfShape
  <2>4. op'.kind = "undo" /\ op'.at = "enter" /\ op'.s = op.s
    BY <2>1, <2>3 DEF Entered, First
  <2> QED BY <2>3, <2>4, <1>2 DEF Leaves
<1>3. CASE op.kind \notin {"stop", "undo"} /\ ~(op.kind = "snapshot" /\ op.done # {})
  <2>1. End(TRUE, {op.s})
    BY <1>3 DEF Die
  <2>2. op' = Idle(TRUE) /\ Blame({op.s}) /\ conf' = conf
    BY <2>1 DEF End, Go
  <2>3. op'.kind = "none" /\ op'.at = "idle" /\ op'.bad
    BY <2>2 DEF Idle
  <2> QED BY <2>2, <2>3, <1>3, IdleTask DEF Leaves
<1> QED BY <1>1, <1>2, <1>3

\* An error leaves the disk, or repeats the deactivation or the command.
Retried ==
    \/ op'.at = "enter" /\ op.kind \notin {"snapshot", "rollback", "activate"}
    \/ op'.at = "clone" /\ op.at \in Publishes
    \/ op'.at = "dshare" /\ op.at \in Unpublishes
    \/ op'.at = "lclones" /\ op.at \in {"lclones", "dsnap"}
    \/ op'.at = "create" /\ op.at = "create"

Asks == {"create", "clone", "share", "find", "undoShare", "undoClone",
         "dshare", "gshare", "dclone", "lclones", "dsnap"}

\* o is op at the step at, with at most one more attempt, and another error.
At_is(step) ==
    /\ op'.kind = op.kind /\ op'.s = op.s /\ op'.d = op.d /\ op'.todo = op.todo
    /\ op'.bad = op.bad /\ op'.at = step /\ op' \in OpType

\* Staying at a step of the same method.
LEMMA StayShape ==
    ASSUME Task(op), NEW step \in Steps, Stay(At(step))
    PROVE  At_is(step) /\ Stays /\ conf' = conf
<1>1. op' = [op EXCEPT !.at = step] /\ Blame({}) /\ conf' = conf
  BY DEF Stay, Go, At
<1>2. op \in OpType
  BY DEF Task, Job
<1>3. At_is(step)
  BY <1>1, <1>2 DEF At_is, OpType
<1> QED BY <1>1, <1>3 DEF Stays, At_is

\* Another attempt at the deactivation, or its end (Again).
LEMMA AgainShape ==
    ASSUME Task(op), op.kind \notin {"none", "snapshot", "rollback", "activate"},
           conf \subseteq Snap, Again
    PROVE  /\ Task(op') /\ conf' \subseteq Snap
           /\ \/ Stays /\ Retried
              \/ /\ Leaves({op.s}) /\ op'.kind \notin {"rollback", "activate", "snapshot"}
                 /\ op'.kind = "none" => op'.bad
<1>0. op \in OpType
  BY DEF Task, Job
<1>1. CASE op.tries + 1 < Attempts
  <2>1. op' = [op EXCEPT !.at = "enter", !.tries = @ + 1] /\ Blame({}) /\ conf' = conf
    BY <1>1 DEF Again, Stay, Go
  <2>2. op.tries + 1 \in 0..Attempts - 1
    BY <1>0, <1>1, NasAssumption DEF OpType
  <2>3. At_is("enter")
    BY <1>0, <2>1, <2>2 DEF At_is, OpType, Steps
  <2>4. op.kind \in {"undo", "delete", "deactivate", "stop"}
    BY <1>0 DEF OpType, Kinds
  <2>5. Task(op')
    BY <2>3, <2>4 DEF At_is, Task, Job, Method, Publishes
  <2> QED BY <2>1, <2>3, <2>5 DEF At_is, Stays, Retried
<1>2. CASE ~(op.tries + 1 < Attempts)
  BY <1>2, DieShape DEF Again
<1> QED BY <1>1, <1>2

\* A command that fails or is killed.
LEMMA FailShape ==
    ASSUME Task(op), op.at \in Asks, conf \subseteq Snap, CommandFails \/ Restart
    PROVE  /\ Task(op') /\ conf' \subseteq Snap
           /\ \/ Stays /\ Retried
              \/ /\ Leaves({op.s}) \/ (op.kind = "snapshot" /\ Leaves({}))
                 /\ op'.kind \notin {"rollback", "activate", "snapshot"}
                 /\ op'.kind = "none" => op'.bad
<1>0. op \in OpType /\ op.kind # "none" /\ op.kind \in Kinds
  BY DEF Task, Job, Method, OpType, Asks
<1>1. CASE Restart
  <2> DEFINE step == CASE op.at \in Publishes -> "clone"
                       [] op.at \in Unpublishes -> "dshare"
                       [] op.at \in {"lclones", "dsnap"} -> "lclones"
                       [] OTHER -> "create"
  <2>1. /\ step \in Steps
        /\ op.at \in Publishes => step = "clone"
        /\ op.at \in Unpublishes => step = "dshare"
        /\ op.at \in {"lclones", "dsnap"} => step = "lclones"
        /\ op.at \notin Publishes \cup Unpublishes \cup {"lclones", "dsnap"} => step = "create"
    BY DEF Publishes, Unpublishes, Steps
  <2>2. Stay(At(step))
    BY <1>1 DEF Restart
  <2> HIDE DEF step
  <2>3. At_is(step) /\ Stays /\ conf' = conf
    BY <2>1, <2>2, StayShape
  <2>4. Retried
    BY <2>1, <2>3 DEF At_is, Retried, Asks, Publishes, Unpublishes
  <2>5. Task(op')
    BY <1>0, <2>1, <2>3 DEF At_is, Task, Job, Method, Asks, Publishes, Unpublishes
  <2> QED BY <2>3, <2>4, <2>5
<1>2. CASE CommandFails
  <2>1. CASE op.at \in Unpublishes /\ op.kind \notin {"rollback", "activate"}
    <3>1. op.kind # "snapshot"
      BY <2>1 DEF Task, Method, Unpublishes
    <3>2. Again
      BY <2>1, <1>2 DEF CommandFails
    <3>3. op.kind \notin {"none", "snapshot", "rollback", "activate"}
      BY <2>1, <3>1, <1>0
    <3> QED BY <3>2, <3>3, AgainShape
  <2>2. CASE ~(op.at \in Unpublishes /\ op.kind \notin {"rollback", "activate"})
    <3>1. Die
      BY <2>2, <1>2 DEF CommandFails
    <3>2. CASE op.kind = "snapshot" /\ op.done # {}
      BY <3>1, <3>2, <1>0, DieShape
    <3>3. CASE ~(op.kind = "snapshot" /\ op.done # {})
      BY <3>1, <3>3, <1>0, DieShape
    <3> QED BY <3>2, <3>3
  <2> QED BY <2>1, <2>2
<1> QED BY <1>1, <1>2

-----------------------------------------------------------------------------
(* What the requests do to the array, and what a step then has to show.     *)

\* The requests of the steps that leave the directories and moments alone.
Effect ==
    \/ SameArray
    \/ op.at = "create" /\ CreateSnap(op.s)
    \/ op.at = "clone" /\ snap[op.s] # None /\ CreateClone(op.s)
    \/ op.at = "share" /\ CreateShare(op.s)
    \/ op.at \in {"undoShare", "dshare"} /\ DeleteShare(op.s)
    \/ op.at \in {"undoClone", "dclone", "lclones"} /\ DeleteClone(op.s)

\* The array's variables have their types.
ArrayTypes ==
    /\ snap \in [Snap -> Contents \cup {None}]
    /\ clone \subseteq Snap /\ share \subseteq Snap
    /\ mnt \in [Node -> [Dirs -> {"none", "ok", "stale"}]]

\* Nothing but the snapshot of the task is published.
OthersKept == \A s \in clone' \cup share' : s = op.s \/ s \in clone \cup share

\* A deletion of a share or of a clone makes its mounts stale.
LEMMA StaleMounts ==
    ASSUME ArrayTypes, Mounts, NEW x \in Snap, Stale(x), dir' = dir,
           clone \ {x} \subseteq clone', share \ {x} \subseteq share'
    PROVE  mnt' \in [Node -> [Dirs -> {"none", "ok", "stale"}]] /\ Mounts'
<1> USE DEF ArrayTypes, Mounts, Stale, Dirs
<1>1. ASSUME NEW n \in Node, NEW e \in Dirs
      PROVE  mnt'[n][e] = IF e[2] = x /\ mnt[n][e] = "ok" THEN "stale" ELSE mnt[n][e]
  OBVIOUS
<1>2. mnt' \in [Node -> [Dirs -> {"none", "ok", "stale"}]]
  OBVIOUS
<1>3. ASSUME NEW n \in Node, NEW e \in Dirs
      PROVE  /\ mnt'[n][e] = "ok" => e[2] \in clone' \cap share'
             /\ mnt'[n][e] # "none" => e \in dir'
  BY <1>1
<1> QED BY <1>2, <1>3

\* Every request keeps the array's types, the mounts, and what was taken.
LEMMA EffectKeeps ==
    ASSUME ArrayTypes, Task(op), data \in Contents,
           Mounts, Taken, Taking, Effect, op.at # "idle", UNCHANGED <<dir, moments>>
    PROVE  /\ ArrayTypes' /\ Mounts' /\ Taken' /\ OthersKept
           /\ op.at # "create" => snap' = snap
<1>0. op.s \in Snap
  BY DEF Task, Job, Method
<1>1. CASE SameArray
  BY <1>1 DEF SameArray, array, ArrayTypes, Mounts, Taken, OthersKept
<1>2. CASE op.at = "create" /\ CreateSnap(op.s)
  <2>1. data \in moments[op.s]
    BY <1>2 DEF Taking, Task, Method
  <2>2. \A s \in Snap : snap'[s] = IF s = op.s /\ snap[s] = None THEN data ELSE snap[s]
    BY <1>2 DEF CreateSnap, ArrayTypes
  <2>3. ArrayTypes'
    BY <1>0, <1>2 DEF CreateSnap, ArrayTypes
  <2>4. Taken'
    BY <1>2, <2>1, <2>2 DEF CreateSnap, Taken, ArrayTypes
  <2> QED BY <1>2, <2>3, <2>4 DEF CreateSnap, Mounts, OthersKept
<1>3. CASE op.at = "clone" /\ snap[op.s] # None /\ CreateClone(op.s)
  BY <1>0, <1>3 DEF CreateClone, ArrayTypes, Mounts, Taken, OthersKept
<1>4. CASE op.at = "share" /\ CreateShare(op.s)
  BY <1>0, <1>4 DEF CreateShare, ArrayTypes, Mounts, Taken, OthersKept
<1>5. CASE op.at \in {"undoShare", "dshare"} /\ DeleteShare(op.s)
  <2>1. Mounts' /\ mnt' \in [Node -> [Dirs -> {"none", "ok", "stale"}]]
    BY <1>0, <1>5, StaleMounts DEF DeleteShare
  <2> QED BY <1>5, <2>1 DEF DeleteShare, ArrayTypes, Taken, OthersKept
<1>6. CASE op.at \in {"undoClone", "dclone", "lclones"} /\ DeleteClone(op.s)
  <2>1. Mounts' /\ mnt' \in [Node -> [Dirs -> {"none", "ok", "stale"}]]
    BY <1>0, <1>6, StaleMounts DEF DeleteClone
  <2> QED BY <1>6, <2>1 DEF DeleteClone, ArrayTypes, Taken, OthersKept
<1> QED BY <1>1, <1>2, <1>3, <1>4, <1>5, <1>6 DEF Effect

\* What is published stays known when the task leaves it blamed, remembered,
\* with a directory, or still works on it.
Remembers(blamed) ==
    op.s \in clone' \cup share' =>
        \/ op.s \in left \cup blamed
        \/ /\ op'.at \notin {"rmdir", "lclones", "dsnap"}
           /\ \/ op'.kind \notin {"none", "snapshot"} /\ op'.s = op.s
              \/ \E d \in Disk : <<d, op.s>> \in dir'

LEMMA RememberedStep ==
    ASSUME Remembered, clone' \cup share' \subseteq Snap, op.kind # "none", NEW B,
           Blame(B), OthersKept, Remembers(B),
           \A s \in Snap \ {op.s}, d \in Disk : <<d, s>> \in dir => <<d, s>> \in dir',
           op'.at \in {"rmdir", "lclones", "dsnap"} => op'.s = op.s
    PROVE  Remembered'
<1> SUFFICES ASSUME NEW s \in clone' \cup share'
             PROVE  /\ op'.kind \in {"none", "snapshot"} \/ op'.s # s => Known(s)'
                    /\ op'.s = s /\ op'.at \in {"rmdir", "lclones", "dsnap"} => s \in left'
  BY DEF Remembered
<1>1. s \in left \cup B => s \in left'
  BY DEF Blame
<1>2. CASE s = op.s
  BY <1>1, <1>2 DEF Remembers, Known
<1>3. CASE s # op.s
  <2>1. Known(s)
    BY <1>3 DEF OthersKept, Remembered
  <2>2. Known(s)'
    BY <1>1, <1>3, <2>1 DEF Known
  <2> QED BY <1>3, <2>2
<1> QED BY <1>2, <1>3

\* A rollback that still goes well has come from one that did, of the same
\* snapshot, at the same disk or at the next.
RollsOn ==
    op'.kind = "rollback" /\ ~op'.bad =>
        /\ op.kind = "rollback" /\ ~op.bad /\ op'.s = op.s
        /\ \/ /\ op'.d = op.d /\ op'.todo = op.todo
              /\ op'.at \in {"umount"} \cup Unpublishes => op.at \in {"umount"} \cup Unpublishes
           \/ /\ op.at \in Unpublishes /\ op'.at = "clone"
              /\ op'.d \in op.todo /\ op'.todo = op.todo \ {op'.d}

LEMMA RestoredStep ==
    ASSUME Restored, RollsOn, data' = data, op.kind = "rollback" => snap' = snap
    PROVE  Restored'
<1> SUFFICES ASSUME op'.kind = "rollback", ~op'.bad
             PROVE  /\ \A d \in Disk \ (op'.todo \cup {op'.d}) : Copied(d)'
                    /\ op'.at \in {"umount"} \cup Unpublishes => Copied(op.d)'
  BY DEF Restored
<1> QED BY DEF RollsOn, Restored, Copied, Unpublishes

\* The invariant of a step that works on the array only.
LEMMA ArrayStep ==
    ASSUME IInv, op.at # "idle", Effect, NEW B, Blame(B),
           UNCHANGED <<data, writes, home, dir, moments>>, failures' \in Nat,
           Task(op'), conf' \subseteq Snap, Progress', RollsOn, Remembers(B),
           op'.kind = "snapshot" => op.kind = "snapshot" /\ op'.s = op.s,
           op'.at \in {"rmdir", "lclones", "dsnap"} => op'.s = op.s
    PROVE  IInv'
<1> USE DEF IInv
<1>1. ArrayTypes /\ data \in Contents /\ Task(op) /\ op.kind # "none" /\ op.s \in Snap
  BY DEF Types, TypeOK, ArrayTypes, Contents, Task, Job, Method
<1>2. /\ ArrayTypes' /\ Mounts' /\ Taken' /\ OthersKept
      /\ op.at # "create" => snap' = snap
  BY <1>1, EffectKeeps
<1>3. Types'
  <2>1. left' \subseteq Snap
    BY <1>2 DEF Blame, ArrayTypes
  <2>2. op'.kind \in Kinds /\ op'.at \in Steps /\ op'.tries < Attempts
    BY NasAssumption DEF Task, Job, OpType
  <2> QED BY <1>2, <2>1, <2>2 DEF Types, TypeOK, ArrayTypes, Contents
<1>4. Taking'
  BY DEF Taking
<1>5. Restored'
  <2>1. op.kind = "rollback" => snap' = snap
    BY <1>1, <1>2 DEF Task, Method
  <2> QED BY <2>1, RestoredStep
<1>6. Remembered'
  BY <1>1, <1>2, RememberedStep DEF ArrayTypes
<1> QED BY <1>2, <1>3, <1>4, <1>5, <1>6

\* A request whose command fails or is killed, executed or not.
LEMMA FailedRequest ==
    ASSUME IInv, op.at \in Asks, Effect, CommandFails \/ Restart,
           UNCHANGED <<data, writes, home, dir, moments>>, failures' = failures + 1
    PROVE  IInv'
<1>1. Task(op) /\ conf \subseteq Snap /\ failures \in Nat /\ op \in OpType
  BY DEF IInv, Types, TypeOK, Task, Job
<1>2. /\ Task(op') /\ conf' \subseteq Snap
      /\ \/ Stays /\ Retried
         \/ /\ Leaves({op.s}) \/ (op.kind = "snapshot" /\ Leaves({}))
            /\ op'.kind \notin {"rollback", "activate", "snapshot"}
            /\ op'.kind = "none" => op'.bad
  BY <1>1, FailShape
<1>3. op.at # "idle" /\ failures' \in Nat
  BY <1>1 DEF Asks
<1>4. CASE Stays /\ Retried
  <2>1. Blame({})
    BY <1>4 DEF Stays
  <2>2. Progress' /\ RollsOn
    BY <1>4 DEF Stays, Retried, Progress, RollsOn, Unpublishes, Publishes
  <2>3. Remembers({})
    <3>1. CASE op.at = "create"
      <4>1. clone' \cup share' = clone \cup share
        BY <3>1 DEF Effect, SameArray, array, CreateSnap
      <4> QED BY <1>1, <1>4, <3>1, <4>1 DEF Stays, Retried, Remembers, IInv, Remembered, Known,
                                        Task, Method, Publishes, Unpublishes
    <3>2. CASE op.at \in {"lclones", "dsnap"}
      <4>1. clone' \cup share' \subseteq clone \cup share
        BY <3>2 DEF Effect, SameArray, array, DeleteClone
      <4> QED BY <3>2, <4>1 DEF Remembers, IInv, Remembered
    <3>3. CASE op.at \notin {"create", "lclones", "dsnap"}
      BY <1>1, <1>4, <3>3 DEF Stays, Retried, Remembers, Asks, Task, Method
    <3> QED BY <3>1, <3>2, <3>3
  <2>4. /\ op'.kind = "snapshot" => op.kind = "snapshot" /\ op'.s = op.s
        /\ op'.at \in {"rmdir", "lclones", "dsnap"} => op'.s = op.s
    BY <1>4 DEF Stays
  <2> QED BY <1>2, <1>3, <2>1, <2>2, <2>3, <2>4, ArrayStep
<1>5. CASE ~(Stays /\ Retried)
  <2>1. op'.kind \notin {"rollback", "activate", "snapshot"} /\ op'.at \in {"idle", "enter"}
    BY <1>2, <1>5 DEF Leaves, Entered, First
  <2>2. Progress' /\ RollsOn
    BY <2>1 DEF Progress, RollsOn
  <2>3. CASE Leaves({op.s})
    <3>1. Blame({op.s}) /\ Remembers({op.s})
      BY <2>3 DEF Leaves, Remembers
    <3> QED BY <1>2, <1>3, <2>1, <2>2, <3>1, ArrayStep
  <2>4. CASE op.kind = "snapshot" /\ Leaves({})
    <3>1. clone' \cup share' = clone \cup share
      BY <1>1, <2>4 DEF Effect, SameArray, array, CreateSnap, Task, Method
    <3>2. Blame({}) /\ Remembers({})
      BY <2>1, <2>4, <3>1 DEF Leaves, Remembers, IInv, Remembered, Known
    <3> QED BY <1>2, <1>3, <2>1, <2>2, <3>2, ArrayStep
  <2> QED BY <1>2, <1>5, <2>3, <2>4
<1> QED BY <1>4, <1>5

\* The task goes on to the next step of its method, which can rely on what
\* the last one did.
LEMMA NextStep ==
    ASSUME IInv, NEW step \in Steps, Effect, Stay(At(step)), op.at # "idle",
           UNCHANGED <<data, writes, home, dir, moments>>, failures' \in Nat,
           \/ op.at \in {"clone", "share", "find", "undoShare"} /\ step \in Publishes \cup {"mount"}
           \/ op.at \in {"dshare", "gshare"} /\ step \in Unpublishes
           \/ op.at = "lclones" /\ step = "dsnap",
           Progress'
    PROVE  IInv'
<1>1. Task(op) /\ conf \subseteq Snap
  BY DEF IInv, Types, TypeOK
<1>2. At_is(step) /\ Stays /\ conf' = conf
  BY <1>1, StayShape
<1>3. Task(op')
  BY <1>1, <1>2 DEF At_is, Task, Job, Method, Publishes, Unpublishes
<1>4. RollsOn
  BY <1>2 DEF At_is, RollsOn, Publishes, Unpublishes
<1>5. Remembers({})
  <2>1. CASE op.at = "lclones"
    <3>1. clone' \cup share' \subseteq clone \cup share
      BY <2>1 DEF Effect, SameArray, array, DeleteClone
    <3> QED BY <2>1, <3>1 DEF Remembers, IInv, Remembered
  <2>2. CASE op.at # "lclones"
    BY <1>1, <1>2, <2>2 DEF At_is, Remembers, Task, Method, Publishes, Unpublishes
  <2> QED BY <2>1, <2>2
<1>6. /\ Blame({}) /\ conf' \subseteq Snap
      /\ op'.kind = "snapshot" => op.kind = "snapshot" /\ op'.s = op.s
      /\ op'.at \in {"rmdir", "lclones", "dsnap"} => op'.s = op.s
  BY <1>1, <1>2 DEF Stays, At_is
<1> QED BY <1>3, <1>4, <1>5, <1>6, ArrayStep

-----------------------------------------------------------------------------
(* Every action preserves the invariant.                                   *)

LEMMA CreateKeeps == ASSUME IInv, Create PROVE IInv'
<1>1. Task(op) /\ conf \subseteq Snap /\ failures \in Nat /\ op.kind = "snapshot" /\ op.s \in Snap
  BY DEF IInv, Types, TypeOK, Create, Task, Job, Method
<1>2. UNCHANGED <<data, writes, home, dir, moments>> /\ op.at = "create"
  BY DEF Create, Same
<1>3. CASE CreateSnap(op.s) /\ NextOf([op EXCEPT !.done = @ \cup {op.d}], {}) /\ UNCHANGED failures
  <2> DEFINE o == [op EXCEPT !.done = @ \cup {op.d}]
  <2>1. Job(o) /\ o.kind = "snapshot" /\ o.todo = op.todo /\ o.s = op.s /\ o.bad = op.bad
    BY <1>1 DEF Task, Job, OpType
  <2> HIDE DEF o
  <2>2. /\ Task(op') /\ conf' \subseteq Snap /\ Blame({})
        /\ \/ op' = Idle(o.bad \/ o.kind = "undo") /\ o.todo = {}
           \/ Entered(o)
    BY <1>1, <1>3, <2>1, NextOfShape DEF o
  <2>3. /\ op'.kind \in {"none", "snapshot"} /\ op'.at \in {"idle", "create"}
        /\ op'.kind = "snapshot" => op'.s = op.s
    BY <2>1, <2>2 DEF Idle, Entered, First
  <2>4. Effect /\ clone' \cup share' = clone \cup share
    BY <1>2, <1>3 DEF Effect, CreateSnap
  <2>5. Progress' /\ RollsOn
    BY <2>3 DEF Progress, RollsOn
  <2>6. Remembers({})
    BY <1>1, <1>2, <2>3, <2>4 DEF Remembers, IInv, Remembered, Known
  <2> QED BY <1>1, <1>2, <1>3, <2>2, <2>3, <2>4, <2>5, <2>6, ArrayStep
<1>4. CASE /\ failures' = failures + 1 /\ (CreateSnap(op.s) \/ SameArray)
           /\ CommandFails \/ Restart
  <2>1. Effect /\ op.at \in Asks
    BY <1>2, <1>4 DEF Effect, Asks
  <2> QED BY <1>2, <1>4, <2>1, FailedRequest
<1> QED BY <1>3, <1>4 DEF Create, Request

LEMMA CloneKeeps == ASSUME IInv, Clone PROVE IInv'
<1>1. Task(op) /\ conf \subseteq Snap /\ failures \in Nat /\ op.s \in Snap
  BY DEF IInv, Types, TypeOK, Clone, Task, Job, Method
<1>2. UNCHANGED <<data, writes, home, dir, moments>> /\ op.at = "clone" /\ op.kind \in {"rollback", "activate"}
  BY <1>1 DEF Clone, Same, Task, Method, Publishes
<1>3. CASE snap[op.s] = None
  <2>1. SameArray /\ Die /\ UNCHANGED failures
    BY <1>3 DEF Clone
  <2>2. /\ Task(op') /\ conf' \subseteq Snap /\ Leaves({op.s})
        /\ op'.kind \notin {"rollback", "activate", "snapshot"}
    BY <1>1, <1>2, <2>1, DieShape
  <2>3. op'.at \in {"idle", "enter"}
    BY <1>2, <2>2 DEF Leaves, Entered, First
  <2>4. Progress' /\ RollsOn
    BY <2>2, <2>3 DEF Progress, RollsOn
  <2>5. Effect /\ Blame({op.s}) /\ Remembers({op.s})
    BY <2>1, <2>2 DEF Effect, Leaves, Remembers
  <2> QED BY <1>1, <1>2, <2>1, <2>2, <2>3, <2>4, <2>5, ArrayStep
<1>4. CASE snap[op.s] # None /\ CreateClone(op.s) /\ Stay(At("share")) /\ UNCHANGED failures
  <2>1. Effect /\ "share" \in Steps /\ "share" \in Publishes
    BY <1>2, <1>4 DEF Effect, Steps, Publishes
  <2>2. At_is("share")
    BY <1>1, <1>4, <2>1, StayShape
  <2>3. Progress'
    BY <1>1, <1>4, <2>2 DEF At_is, Progress, CreateClone
  <2> QED BY <1>1, <1>2, <1>4, <2>1, <2>3, NextStep
<1>5. CASE /\ snap[op.s] # None
           /\ failures' = failures + 1 /\ (CreateClone(op.s) \/ SameArray)
           /\ CommandFails \/ Restart
  <2>1. Effect /\ op.at \in Asks
    BY <1>2, <1>5 DEF Effect, Asks
  <2> QED BY <1>2, <1>5, <2>1, FailedRequest
<1> QED BY <1>3, <1>4, <1>5 DEF Clone, Request

LEMMA ShareKeeps == ASSUME IInv, Share PROVE IInv'
<1>1. Task(op) /\ conf \subseteq Snap /\ failures \in Nat /\ op.s \in Snap
  BY DEF IInv, Types, TypeOK, Share, Task, Job, Method
<1>2. UNCHANGED <<data, writes, home, dir, moments>> /\ op.at = "share"
  BY DEF Share, Same
<1>3. CASE CreateShare(op.s) /\ Stay(At("find")) /\ UNCHANGED failures
  <2>1. Effect /\ "find" \in Steps /\ "find" \in Publishes
    BY <1>2, <1>3 DEF Effect, Steps, Publishes
  <2>2. At_is("find")
    BY <1>1, <1>3, <2>1, StayShape
  <2>3. Progress'
    BY <1>1, <1>2, <1>3, <2>2 DEF IInv, At_is, Progress, CreateShare
  <2> QED BY <1>1, <1>2, <1>3, <2>1, <2>3, NextStep
<1>4. CASE /\ failures' = failures + 1 /\ (CreateShare(op.s) \/ SameArray)
           /\ CommandFails \/ Restart
  <2>1. Effect /\ op.at \in Asks
    BY <1>2, <1>4 DEF Effect, Asks
  <2> QED BY <1>2, <1>4, <2>1, FailedRequest
<1> QED BY <1>3, <1>4 DEF Share, Request

LEMMA FindKeeps == ASSUME IInv, Find PROVE IInv'
<1>1. Task(op) /\ conf \subseteq Snap /\ failures \in Nat /\ op.s \in Snap
  BY DEF IInv, Types, TypeOK, Find, Task, Job, Method
<1>2. UNCHANGED <<data, writes, home, dir, moments>> /\ op.at = "find" /\ SameArray /\ Effect
  BY DEF Find, Same, Effect
<1>3. ASSUME NEW step \in {"mount", "undoShare"}, Stay(At(step)), failures' \in Nat PROVE IInv'
  <2>1. step \in Steps /\ step \in Publishes \cup {"mount"}
    BY DEF Steps, Publishes
  <2>2. At_is(step)
    BY <1>1, <1>3, <2>1, StayShape
  <2>3. Progress'
    BY <1>1, <1>2, <2>2 DEF IInv, At_is, Progress, SameArray, array
  <2> QED BY <1>2, <1>3, <2>1, <2>3, NextStep
<1>4. CASE failures' = failures + 1 /\ Restart
  <2>1. op.at \in Asks
    BY <1>2 DEF Asks
  <2> QED BY <1>2, <1>4, <2>1, FailedRequest
<1>5. \/ Stay(At("mount")) /\ UNCHANGED failures
      \/ failures' = failures + 1 /\ (Stay(At("undoShare")) \/ Restart)
  BY DEF Find
<1>6. CASE Stay(At("mount")) /\ UNCHANGED failures
  BY <1>1, <1>3, <1>6
<1>7. CASE failures' = failures + 1 /\ Stay(At("undoShare"))
  BY <1>1, <1>3, <1>7
<1> QED BY <1>4, <1>5, <1>6, <1>7

LEMMA UndoShareKeeps == ASSUME IInv, UndoShare PROVE IInv'
<1>1. Task(op) /\ conf \subseteq Snap /\ failures \in Nat /\ op.s \in Snap
  BY DEF IInv, Types, TypeOK, UndoShare, Task, Job, Method
<1>2. UNCHANGED <<data, writes, home, dir, moments>> /\ op.at = "undoShare"
  BY DEF UndoShare, Same
<1>3. CASE DeleteShare(op.s) /\ Stay(At("undoClone")) /\ UNCHANGED failures
  <2>1. Effect /\ "undoClone" \in Steps /\ "undoClone" \in Publishes \cup Unpublishes \cup {"dsnap"}
    BY <1>2, <1>3 DEF Effect, Steps, Publishes, Unpublishes
  <2>2. At_is("undoClone")
    BY <1>1, <1>3, <2>1, StayShape
  <2>3. Progress'
    BY <1>1, <1>2, <1>3, <2>2 DEF IInv, At_is, Progress, DeleteShare
  <2> QED BY <1>1, <1>2, <1>3, <2>1, <2>2, <2>3, NextStep DEF Publishes, Unpublishes
<1>4. CASE /\ failures' = failures + 1 /\ (DeleteShare(op.s) \/ SameArray)
           /\ CommandFails \/ Restart
  <2>1. Effect /\ op.at \in Asks
    BY <1>2, <1>4 DEF Effect, Asks
  <2> QED BY <1>2, <1>4, <2>1, FailedRequest
<1> QED BY <1>3, <1>4 DEF UndoShare, Request

LEMMA DshareKeeps == ASSUME IInv, Dshare PROVE IInv'
<1>1. Task(op) /\ conf \subseteq Snap /\ failures \in Nat /\ op.s \in Snap
  BY DEF IInv, Types, TypeOK, Dshare, Task, Job, Method
<1>2. UNCHANGED <<data, writes, home, dir, moments>> /\ op.at = "dshare"
  BY DEF Dshare, Same
<1>3. CASE DeleteShare(op.s) /\ Stay(At("gshare")) /\ UNCHANGED failures
  <2>1. Effect /\ "gshare" \in Steps /\ "gshare" \in Publishes \cup Unpublishes \cup {"dsnap"}
    BY <1>2, <1>3 DEF Effect, Steps, Publishes, Unpublishes
  <2>2. At_is("gshare")
    BY <1>1, <1>3, <2>1, StayShape
  <2>3. Progress'
    BY <1>1, <1>2, <1>3, <2>2 DEF IInv, At_is, Progress, DeleteShare
  <2> QED BY <1>1, <1>2, <1>3, <2>1, <2>2, <2>3, NextStep DEF Publishes, Unpublishes
<1>4. CASE /\ failures' = failures + 1 /\ (DeleteShare(op.s) \/ SameArray)
           /\ CommandFails \/ Restart
  <2>1. Effect /\ op.at \in Asks
    BY <1>2, <1>4 DEF Effect, Asks
  <2> QED BY <1>2, <1>4, <2>1, FailedRequest
<1> QED BY <1>3, <1>4 DEF Dshare, Request

LEMMA GshareKeeps == ASSUME IInv, Gshare PROVE IInv'
<1>1. Task(op) /\ conf \subseteq Snap /\ failures \in Nat /\ op.s \in Snap
  BY DEF IInv, Types, TypeOK, Gshare, Task, Job, Method
<1>2. UNCHANGED <<data, writes, home, dir, moments>> /\ op.at = "gshare"
  BY DEF Gshare, Same
<1>3. CASE SameArray /\ Stay(At("dclone")) /\ UNCHANGED failures
  <2>1. Effect /\ "dclone" \in Steps /\ "dclone" \in Publishes \cup Unpublishes \cup {"dsnap"}
    BY <1>2, <1>3 DEF Effect, Steps, Publishes, Unpublishes
  <2>2. At_is("dclone")
    BY <1>1, <1>3, <2>1, StayShape
  <2>3. Progress'
    BY <1>1, <1>2, <1>3, <2>2 DEF IInv, At_is, Progress, SameArray, array
  <2> QED BY <1>1, <1>2, <1>3, <2>1, <2>2, <2>3, NextStep DEF Publishes, Unpublishes
<1>4. CASE /\ failures' = failures + 1 /\ (SameArray \/ SameArray)
           /\ CommandFails \/ Restart
  <2>1. Effect /\ op.at \in Asks
    BY <1>2, <1>4 DEF Effect, Asks
  <2> QED BY <1>2, <1>4, <2>1, FailedRequest
<1> QED BY <1>3, <1>4 DEF Gshare, Request

LEMMA LclonesKeeps == ASSUME IInv, Lclones PROVE IInv'
<1>1. Task(op) /\ conf \subseteq Snap /\ failures \in Nat /\ op.s \in Snap
  BY DEF IInv, Types, TypeOK, Lclones, Task, Job, Method
<1>2. UNCHANGED <<data, writes, home, dir, moments>> /\ op.at = "lclones"
  BY DEF Lclones, Same
<1>3. CASE (IF op.s \in clone THEN DeleteClone(op.s) ELSE SameArray) /\ Stay(At("dsnap")) /\ UNCHANGED failures
  <2>1. Effect /\ "dsnap" \in Steps /\ "dsnap" \in Publishes \cup Unpublishes \cup {"dsnap"}
    BY <1>2, <1>3 DEF Effect, Steps, Publishes, Unpublishes
  <2>2. At_is("dsnap")
    BY <1>1, <1>3, <2>1, StayShape
  <2>3. Progress'
    BY <1>1, <1>2, <1>3, <2>2 DEF IInv, At_is, Progress, DeleteClone, SameArray, array
  <2> QED BY <1>1, <1>2, <1>3, <2>1, <2>2, <2>3, NextStep DEF Publishes, Unpublishes
<1>4. CASE /\ failures' = failures + 1 /\ ((IF op.s \in clone THEN DeleteClone(op.s) ELSE SameArray) \/ SameArray)
           /\ CommandFails \/ Restart
  <2>1. Effect /\ op.at \in Asks
    BY <1>2, <1>4 DEF Effect, Asks
  <2> QED BY <1>2, <1>4, <2>1, FailedRequest
<1> QED BY <1>3, <1>4 DEF Lclones, Request, DeleteNasVolume

LEMMA UndoCloneKeeps == ASSUME IInv, UndoClone PROVE IInv'
<1>1. Task(op) /\ conf \subseteq Snap /\ failures \in Nat /\ op.s \in Snap
  BY DEF IInv, Types, TypeOK, UndoClone, Task, Job, Method
<1>2. UNCHANGED <<data, writes, home, dir, moments>> /\ op.at = "undoClone" /\ op.kind \in {"rollback", "activate"}
  BY <1>1 DEF UndoClone, Same, Task, Method, Publishes
<1>3. CASE DeleteClone(op.s) /\ Die /\ UNCHANGED failures
  <2>1. /\ Task(op') /\ conf' \subseteq Snap /\ Leaves({op.s})
        /\ op'.kind \notin {"rollback", "activate", "snapshot"}
    BY <1>1, <1>2, <1>3, DieShape
  <2>2. op'.at \in {"idle", "enter"}
    BY <1>2, <2>1 DEF Leaves, Entered, First
  <2>3. Progress' /\ RollsOn
    BY <2>1, <2>2 DEF Progress, RollsOn
  <2>4. Effect /\ Blame({op.s}) /\ Remembers({op.s})
    BY <1>2, <1>3, <2>1 DEF Effect, Leaves, Remembers
  <2> QED BY <1>1, <1>2, <1>3, <2>1, <2>2, <2>3, <2>4, ArrayStep
<1>4. CASE /\ failures' = failures + 1 /\ (DeleteClone(op.s) \/ SameArray)
           /\ CommandFails \/ Restart
  <2>1. Effect /\ op.at \in Asks
    BY <1>2, <1>4 DEF Effect, Asks
  <2> QED BY <1>2, <1>4, <2>1, FailedRequest
<1> QED BY <1>3, <1>4 DEF UndoClone, Request

\* The publication is gone, or has been given up and is blamed (Unpublished).
LEMMA UnpublishedKeeps ==
    ASSUME IInv, op.at = "dclone", DeleteClone(op.s) \/ SameArray, NEW B \in {{}, {op.s}},
           B = {} => DeleteClone(op.s), Unpublished(B),
           UNCHANGED <<data, writes, home, dir, moments>>, failures' \in Nat
    PROVE  IInv'
<1>1. Task(op) /\ conf \subseteq Snap /\ op.s \in Snap /\ op \in OpType /\ op.kind # "none"
  BY DEF IInv, Types, TypeOK, Task, Job, Method
<1>2. Effect
  BY DEF Effect
<1>3. op.s \in clone' \cup share' => op.s \in B
  BY DEF IInv, Progress, DeleteClone
<1>4. CASE op.kind \in {"rollback", "activate"} /\ op.bad
  <2>1. Die
    BY <1>4 DEF Unpublished
  <2>2. /\ Task(op') /\ conf' \subseteq Snap /\ Leaves({op.s})
        /\ op'.kind \notin {"rollback", "activate", "snapshot"}
    BY <1>1, <1>4, <2>1, DieShape
  <2>3. op'.at \in {"idle", "enter"}
    BY <1>4, <2>2 DEF Leaves, Entered, First
  <2>4. Progress' /\ RollsOn
    BY <2>2, <2>3 DEF Progress, RollsOn
  <2>5. Blame({op.s}) /\ Remembers({op.s})
    BY <2>2 DEF Leaves, Remembers
  <2> QED BY <1>1, <1>2, <2>2, <2>3, <2>4, <2>5, ArrayStep
<1>5. CASE op.kind \in {"rollback", "activate"} /\ ~op.bad
  <2>1. NextOf(op, B)
    BY <1>5 DEF Unpublished
  <2>2. /\ Task(op') /\ conf' \subseteq Snap /\ Blame(B)
        /\ \/ op' = Idle(op.bad \/ op.kind = "undo") /\ op.todo = {}
           \/ Entered(op)
    BY <1>1, <1>5, <2>1, NextOfShape DEF Task
  <2>3. /\ op'.at \in {"idle", "clone"}
        /\ op'.kind \in {"none", "rollback", "activate"}
        /\ op'.kind # "none" => Entered(op) /\ op'.at = "clone"
    BY <1>5, <2>2 DEF Idle, Entered, First
  <2>4. Progress'
    BY <2>3 DEF Progress
  <2>5. RollsOn
    BY <1>5, <2>3 DEF RollsOn, Entered, Unpublishes
  <2>6. Remembers(B)
    BY <1>3 DEF Remembers
  <2> QED BY <1>1, <1>2, <2>2, <2>3, <2>4, <2>5, <2>6, ArrayStep
<1>6. CASE op.kind \notin {"rollback", "activate"}
  <2>1. op' = [op EXCEPT !.at = "rmdir"] /\ Blame(B) /\ conf' = conf
    BY <1>6 DEF Unpublished, Go, At
  <2>2. At_is("rmdir")
    BY <1>1, <2>1 DEF At_is, OpType, Steps
  <2>3. op.kind \in {"undo", "delete", "deactivate", "stop"}
    BY <1>1, <1>6 DEF Task, Method, OpType, Kinds
  <2>4. Task(op')
    BY <1>1, <2>2, <2>3 DEF At_is, Task, Job, Method, Publishes
  <2>5. Progress' /\ RollsOn
    BY <2>2, <2>3 DEF At_is, Progress, RollsOn
  <2>6. Remembers(B)
    BY <1>3 DEF Remembers
  <2>7. /\ op'.kind = "snapshot" => op.kind = "snapshot" /\ op'.s = op.s
        /\ op'.at \in {"rmdir", "lclones", "dsnap"} => op'.s = op.s
    BY <2>2 DEF At_is
  <2> QED BY <1>1, <1>2, <2>1, <2>4, <2>5, <2>6, <2>7, ArrayStep
<1> QED BY <1>4, <1>5, <1>6

LEMMA DcloneKeeps == ASSUME IInv, Dclone PROVE IInv'
<1>1. failures \in Nat
  BY DEF IInv, Types
<1>2. UNCHANGED <<data, writes, home, dir, moments>> /\ op.at = "dclone"
  BY DEF Dclone, Same
<1>3. CASE DeleteClone(op.s) /\ Unpublished({}) /\ UNCHANGED failures
  BY <1>1, <1>2, <1>3, UnpublishedKeeps
<1>4. CASE failures' = failures + 1 /\ (DeleteClone(op.s) \/ SameArray) /\ Unpublished({op.s})
  BY <1>1, <1>2, <1>4, UnpublishedKeeps
<1>5. CASE failures' = failures + 1 /\ (DeleteClone(op.s) \/ SameArray) /\ Restart
  <2>1. Effect /\ op.at \in Asks
    BY <1>2, <1>5 DEF Effect, Asks
  <2> QED BY <1>2, <1>5, <2>1, FailedRequest
<1> QED BY <1>3, <1>4, <1>5 DEF Dclone

-----------------------------------------------------------------------------
(* The steps on the mounts and on the files.                               *)

LEMMA DirectoryStep ==
    ASSUME IInv, op.at # "idle", UNCHANGED <<array, writes, home, moments>>,
           data' \in Contents, dir' \subseteq Dirs, failures' \in Nat,
           mnt' \in [Node -> [Dirs -> {"none", "ok", "stale"}]], Mounts',
           \A s \in Snap \ {op.s}, d \in Disk : <<d, s>> \in dir => <<d, s>> \in dir',
           Task(op'), conf' \subseteq Snap, op'.kind # "snapshot", NEW B, Blame(B),
           Progress', Restored', Remembers(B),
           op'.at \in {"rmdir", "lclones", "dsnap"} => op'.s = op.s
    PROVE  IInv'
<1> USE DEF IInv
<1>1. clone' = clone /\ share' = share /\ snap' = snap
  BY DEF array
<1>2. Types'
  <2>1. left' \subseteq Snap
    BY <1>1 DEF Blame, Types, TypeOK
  <2>2. op'.kind \in Kinds /\ op'.at \in Steps /\ op'.tries < Attempts
    BY NasAssumption DEF Task, Job, OpType
  <2> QED BY <1>1, <2>1, <2>2 DEF Types, TypeOK, Contents
<1>3. Taken' /\ Taking'
  BY <1>1 DEF Taken, Taking
<1>4. Remembered'
  <2>1. op.kind # "none" /\ OthersKept /\ clone' \cup share' \subseteq Snap
    BY <1>1 DEF Types, TypeOK, Task, Method, OthersKept
  <2> QED BY <2>1, RememberedStep
<1> QED BY <1>2, <1>3, <1>4

\* The directory of the task goes, with its mounts on all nodes (RemoveDir).
LEMMA RemoveDirKeeps ==
    ASSUME IInv, op.at # "idle", RemoveDir, UNCHANGED array
    PROVE  /\ dir' \subseteq Dirs /\ mnt' \in [Node -> [Dirs -> {"none", "ok", "stale"}]] /\ Mounts'
           /\ \A s \in Snap \ {op.s}, d \in Disk : <<d, s>> \in dir => <<d, s>> \in dir'
<1>1. /\ dir \subseteq Dirs /\ mnt \in [Node -> [Dirs -> {"none", "ok", "stale"}]]
      /\ here \in Dirs /\ op.s \in Snap /\ op.d \in Disk
  BY DEF IInv, Types, TypeOK, Task, Job, Method, here, Dirs
<1>2. \A n \in Node, e \in Dirs : mnt'[n][e] = IF e = here THEN "none" ELSE mnt[n][e]
  BY <1>1 DEF RemoveDir
<1>3. mnt' \in [Node -> [Dirs -> {"none", "ok", "stale"}]]
  BY <1>1 DEF RemoveDir
<1>4. Mounts'
  BY <1>1, <1>2 DEF IInv, Mounts, RemoveDir, array
<1>5. \A s \in Snap \ {op.s}, d \in Disk : <<d, s>> \in dir => <<d, s>> \in dir'
  BY DEF RemoveDir, here
<1> QED BY <1>1, <1>3, <1>4, <1>5 DEF RemoveDir

LEMMA UmountCopiedKeeps == ASSUME IInv, UmountCopied PROVE IInv'
<1>1. /\ Task(op) /\ conf \subseteq Snap /\ failures \in Nat /\ dir \subseteq Dirs
      /\ mnt \in [Node -> [Dirs -> {"none", "ok", "stale"}]] /\ Mounts /\ data \in Contents
      /\ op.at = "umount" /\ op.kind = "rollback" /\ op.at # "idle"
  BY DEF IInv, Types, TypeOK, UmountCopied, Contents, Task, Method
<1>2. UNCHANGED <<array, writes, home, moments>> /\ data' = data /\ failures' \in Nat
  BY <1>1 DEF UmountCopied, Unmount, Same
<1>3. /\ dir' \subseteq Dirs /\ mnt' \in [Node -> [Dirs -> {"none", "ok", "stale"}]] /\ Mounts'
      /\ \A s \in Snap \ {op.s}, d \in Disk : <<d, s>> \in dir => <<d, s>> \in dir'
  <2>1. CASE RemoveDir
    BY <1>1, <1>2, <2>1, RemoveDirKeeps
  <2>2. CASE UNCHANGED <<dir, mnt>>
    BY <1>1, <1>2, <2>2 DEF Mounts, array
  <2> QED BY <2>1, <2>2 DEF UmountCopied, Unmount
<1>4. snap' = snap
  BY <1>2 DEF array
<1>5. CASE Stay(At("dshare"))
  <2>1. At_is("dshare") /\ Stays /\ conf' = conf
    BY <1>1, <1>5, StayShape DEF Steps
  <2>2. Task(op')
    BY <1>1, <2>1 DEF At_is, Task, Job, Method, Publishes
  <2>3. RollsOn
    BY <1>1, <2>1 DEF RollsOn, At_is, Unpublishes
  <2>4. Restored'
    BY <1>2, <1>4, <2>3, RestoredStep DEF IInv
  <2>5. Progress' /\ Remembers({}) /\ Blame({}) /\ op'.kind # "snapshot"
    BY <1>1, <2>1 DEF At_is, Progress, Remembers, Stays
  <2> QED BY <1>1, <1>2, <1>3, <2>1, <2>2, <2>4, <2>5, DirectoryStep DEF At_is
<1>6. CASE Die
  <2>1. /\ Task(op') /\ conf' \subseteq Snap /\ Leaves({op.s})
        /\ op'.kind \notin {"rollback", "activate", "snapshot"}
    BY <1>1, <1>6, DieShape
  <2>2. op'.at \in {"idle", "enter"}
    BY <1>1, <2>1 DEF Leaves, Entered, First
  <2>3. Progress' /\ Restored' /\ Blame({op.s}) /\ Remembers({op.s}) /\ op'.kind # "snapshot"
    BY <2>1, <2>2 DEF Progress, Restored, Leaves, Remembers
  <2> QED BY <1>1, <1>2, <1>3, <2>1, <2>2, <2>3, DirectoryStep
<1> QED BY <1>5, <1>6 DEF UmountCopied, Unmount

LEMMA EnterKeeps == ASSUME IInv, Enter PROVE IInv'
<1>1. /\ Task(op) /\ conf \subseteq Snap /\ failures \in Nat /\ dir \subseteq Dirs
      /\ mnt \in [Node -> [Dirs -> {"none", "ok", "stale"}]] /\ Mounts /\ data \in Contents
      /\ op.at = "enter" /\ op.kind \in {"undo", "delete", "deactivate", "stop"} /\ op.at # "idle"
  BY DEF IInv, Types, TypeOK, Enter, Contents, Task, Method
<1>2. UNCHANGED <<array, writes, home, moments>> /\ data' = data /\ failures' \in Nat
  BY <1>1 DEF Enter, Unmount, Same
<1>3. /\ dir' \subseteq Dirs /\ mnt' \in [Node -> [Dirs -> {"none", "ok", "stale"}]] /\ Mounts'
      /\ \A s \in Snap \ {op.s}, d \in Disk : <<d, s>> \in dir => <<d, s>> \in dir'
  <2>1. CASE RemoveDir
    BY <1>1, <1>2, <2>1, RemoveDirKeeps
  <2>2. CASE UNCHANGED <<dir, mnt>>
    BY <1>1, <1>2, <2>2 DEF Mounts, array
  <2> QED BY <2>1, <2>2 DEF Enter, Unmount
<1>4. CASE Stay(At("dshare"))
  <2>1. At_is("dshare") /\ Stays /\ conf' = conf
    BY <1>1, <1>4, StayShape DEF Steps
  <2>2. Task(op')
    BY <1>1, <2>1 DEF At_is, Task, Job, Method, Publishes
  <2>3. Progress' /\ Restored' /\ Remembers({}) /\ Blame({}) /\ op'.kind # "snapshot"
    BY <1>1, <2>1 DEF At_is, Progress, Restored, Remembers, Stays
  <2> QED BY <1>1, <1>2, <1>3, <2>1, <2>2, <2>3, DirectoryStep DEF At_is
<1>5. CASE Again
  <2>1. /\ Task(op') /\ conf' \subseteq Snap
        /\ \/ Stays /\ Retried
           \/ Leaves({op.s}) /\ op'.kind \notin {"rollback", "activate", "snapshot"}
    BY <1>1, <1>5, AgainShape
  <2>2. op'.kind \notin {"rollback", "activate", "snapshot"} /\ op'.at \in {"idle", "enter"}
    BY <1>1, <2>1 DEF Stays, Retried, Leaves, Entered, First, Publishes, Unpublishes
  <2>3. Progress' /\ Restored'
    BY <2>2 DEF Progress, Restored
  <2>4. CASE Stays
    <3>1. Blame({}) /\ Remembers({})
      BY <1>1, <2>2, <2>4 DEF Stays, Remembers
    <3> QED BY <1>1, <1>2, <1>3, <2>1, <2>2, <2>3, <3>1, DirectoryStep
  <2>5. CASE Leaves({op.s})
    <3>1. Blame({op.s}) /\ Remembers({op.s})
      BY <2>5 DEF Leaves, Remembers
    <3> QED BY <1>1, <1>2, <1>3, <2>1, <2>2, <2>3, <3>1, DirectoryStep
  <2> QED BY <2>1, <2>4, <2>5
<1> QED BY <1>4, <1>5 DEF Enter, Unmount

LEMMA RmdirKeeps == ASSUME IInv, Rmdir PROVE IInv'
<1>1. /\ Task(op) /\ conf \subseteq Snap /\ failures \in Nat /\ dir \subseteq Dirs /\ op.s \in Snap
      /\ mnt \in [Node -> [Dirs -> {"none", "ok", "stale"}]] /\ Mounts /\ data \in Contents
      /\ op.at = "rmdir" /\ op.kind \in {"undo", "delete", "deactivate", "stop"} /\ op.at # "idle"
  BY DEF IInv, Types, TypeOK, Rmdir, Contents, Task, Job, Method
<1>2. UNCHANGED <<array, writes, home, moments>> /\ data' = data /\ failures' \in Nat
  BY <1>1 DEF Rmdir, Same
<1>3. /\ dir' \subseteq Dirs /\ mnt' \in [Node -> [Dirs -> {"none", "ok", "stale"}]] /\ Mounts'
      /\ \A s \in Snap \ {op.s}, d \in Disk : <<d, s>> \in dir => <<d, s>> \in dir'
  <2>1. CASE RemoveDir
    BY <1>1, <1>2, <2>1, RemoveDirKeeps
  <2>2. CASE UNCHANGED <<dir, mnt>>
    BY <1>1, <1>2, <2>2 DEF Mounts, array
  <2> QED BY <2>1, <2>2 DEF Rmdir
<1>4. Remembers({})
  BY <1>1, <1>2 DEF IInv, Remembered, Remembers, array
<1>5. CASE op.kind \in {"delete", "undo"} /\ Stay(At("lclones"))
  <2>1. At_is("lclones") /\ Stays /\ conf' = conf
    BY <1>1, <1>5, StayShape DEF Steps
  <2>2. Task(op')
    BY <1>1, <1>5, <2>1 DEF At_is, Task, Job, Method, Publishes
  <2>3. Progress' /\ Restored' /\ Blame({}) /\ op'.kind # "snapshot" /\ op'.s = op.s
    BY <1>1, <2>1 DEF At_is, Progress, Restored, Stays
  <2> QED BY <1>1, <1>2, <1>3, <1>4, <2>1, <2>2, <2>3, DirectoryStep
<1>6. CASE op.kind \notin {"delete", "undo"} /\ NextOf(op, {})
  <2>1. /\ Task(op') /\ conf' \subseteq Snap /\ Blame({})
        /\ \/ op' = Idle(op.bad \/ op.kind = "undo") /\ op.todo = {}
           \/ Entered(op)
    BY <1>1, <1>6, NextOfShape DEF Task
  <2>2. op'.kind \notin {"rollback", "activate", "snapshot"} /\ op'.at \in {"idle", "enter"}
    BY <1>1, <2>1 DEF Idle, Entered, First
  <2>3. Progress' /\ Restored'
    BY <2>2 DEF Progress, Restored
  <2> QED BY <1>1, <1>2, <1>3, <1>4, <2>1, <2>2, <2>3, DirectoryStep
<1>7. CASE Again
  <2>1. /\ Task(op') /\ conf' \subseteq Snap
        /\ \/ Stays /\ Retried
           \/ Leaves({op.s}) /\ op'.kind \notin {"rollback", "activate", "snapshot"}
    BY <1>1, <1>7, AgainShape
  <2>2. op'.kind \notin {"rollback", "activate", "snapshot"} /\ op'.at \in {"idle", "enter"}
    BY <1>1, <2>1 DEF Stays, Retried, Leaves, Entered, First, Publishes, Unpublishes
  <2>3. Progress' /\ Restored'
    BY <2>2 DEF Progress, Restored
  <2>4. CASE Stays
    <3>1. Blame({}) /\ Remembers({})
      BY <1>1, <2>2, <2>4 DEF Stays, Remembers
    <3> QED BY <1>1, <1>2, <1>3, <2>1, <2>2, <2>3, <3>1, DirectoryStep
  <2>5. CASE Leaves({op.s})
    <3>1. Blame({op.s}) /\ Remembers({op.s})
      BY <2>5 DEF Leaves, Remembers
    <3> QED BY <1>1, <1>2, <1>3, <2>1, <2>2, <2>3, <3>1, DirectoryStep
  <2> QED BY <2>1, <2>4, <2>5
<1> QED BY <1>5, <1>6, <1>7 DEF Rmdir

\* Every mount, of any kind, has its directory.
LEMMA MountKeeps == ASSUME IInv, Mount PROVE IInv'
<1>1. /\ Task(op) /\ conf \subseteq Snap /\ failures \in Nat /\ dir \subseteq Dirs /\ home \in Node
      /\ mnt \in [Node -> [Dirs -> {"none", "ok", "stale"}]] /\ Mounts /\ data \in Contents
      /\ op.at = "mount" /\ op.kind \in {"rollback", "activate"} /\ op.at # "idle"
      /\ op.s \in Snap /\ op.d \in Disk /\ here \in Dirs /\ op \in OpType
  BY DEF IInv, Types, TypeOK, Mount, Contents, Task, Job, Method, here, Dirs
<1>2. UNCHANGED <<array, writes, home, moments>> /\ data' = data /\ failures' \in Nat /\ snap' = snap
  BY <1>1 DEF Mount, Same, array
<1>3. CASE /\ IF state = "none" THEN dir' = dir \cup {here} /\ SetMount("ok") ELSE UNCHANGED <<dir, mnt>>
           /\ IF op.kind = "rollback" THEN Stay(At("copy")) ELSE NextOf(op, {})
  <2>1. /\ dir' \subseteq Dirs /\ mnt' \in [Node -> [Dirs -> {"none", "ok", "stale"}]] /\ Mounts'
        /\ \A s \in Snap \ {op.s}, d \in Disk : <<d, s>> \in dir => <<d, s>> \in dir'
        /\ here \in dir'
    <3>1. CASE state = "none" /\ dir' = dir \cup {here} /\ SetMount("ok")
      <4>1. \A n \in Node, e \in Dirs :
                mnt'[n][e] = IF n = home /\ e = here THEN "ok" ELSE mnt[n][e]
        BY <1>1, <3>1 DEF SetMount
      <4>2. op.s \in clone' \cap share'
        BY <1>1, <1>2 DEF IInv, Progress, array
      <4>3. Mounts'
        BY <1>1, <1>2, <3>1, <4>1, <4>2 DEF Mounts, here, array
      <4> QED BY <1>1, <3>1, <4>3 DEF SetMount
    <3>2. CASE state # "none" /\ UNCHANGED <<dir, mnt>>
      BY <1>1, <1>2, <3>2 DEF Mounts, array, state
    <3> QED BY <1>3, <3>1, <3>2
  <2>2. CASE op.kind = "rollback" /\ Stay(At("copy"))
    <3>1. At_is("copy") /\ Stays /\ conf' = conf
      BY <1>1, <2>2, StayShape DEF Steps
    <3>2. Task(op')
      BY <1>1, <2>2, <3>1 DEF At_is, Task, Job, Method, Publishes
    <3>3. Restored'
      BY <1>2, <3>1, RestoredStep DEF IInv, RollsOn, At_is, Unpublishes
    <3>4. Progress' /\ Remembers({}) /\ Blame({}) /\ op'.kind # "snapshot"
      BY <1>1, <3>1 DEF At_is, Progress, Remembers, Stays
    <3> QED BY <1>1, <1>2, <2>1, <3>1, <3>2, <3>3, <3>4, DirectoryStep DEF At_is
  <2>3. CASE op.kind = "activate" /\ NextOf(op, {})
    <3>1. /\ Task(op') /\ conf' \subseteq Snap /\ Blame({})
          /\ \/ op' = Idle(op.bad \/ op.kind = "undo") /\ op.todo = {}
             \/ Entered(op)
      BY <1>1, <2>3, NextOfShape DEF Task
    <3>2. op'.kind \notin {"rollback", "snapshot"} /\ op'.at \in {"idle", "clone"}
      BY <2>3, <3>1 DEF Idle, Entered, First
    <3>3. Progress' /\ Restored' /\ Remembers({})
      BY <1>1, <2>1, <3>2 DEF Progress, Restored, Remembers, here
    <3> QED BY <1>1, <1>2, <2>1, <3>1, <3>2, <3>3, DirectoryStep
  <2> QED BY <1>1, <1>3, <2>2, <2>3
<1>4. CASE /\ dir' = dir \/ dir' = dir \cup {here}
           /\ mnt' = mnt /\ Stay([At("dshare") EXCEPT !.bad = TRUE])
  <2>1. /\ dir' \subseteq Dirs /\ mnt' \in [Node -> [Dirs -> {"none", "ok", "stale"}]] /\ Mounts'
        /\ \A s \in Snap \ {op.s}, d \in Disk : <<d, s>> \in dir => <<d, s>> \in dir'
    BY <1>1, <1>2, <1>4 DEF Mounts, array
  <2>2. op' = [op EXCEPT !.at = "dshare", !.bad = TRUE] /\ Blame({}) /\ conf' = conf
    BY <1>4 DEF Stay, Go, At
  <2>3. /\ op'.kind = op.kind /\ op'.s = op.s /\ op'.d = op.d /\ op'.todo = op.todo
        /\ op'.at = "dshare" /\ op'.bad /\ op' \in OpType
    BY <1>1, <2>2 DEF OpType, Steps
  <2>4. Task(op')
    BY <1>1, <2>3 DEF Task, Job, Method, Publishes
  <2>5. Progress' /\ Restored' /\ Remembers({}) /\ op'.kind # "snapshot"
    BY <1>1, <2>3 DEF Progress, Restored, Remembers
  <2> QED BY <1>1, <1>2, <2>1, <2>2, <2>3, <2>4, <2>5, DirectoryStep
<1> QED BY <1>3, <1>4 DEF Mount

LEMMA CopyKeeps == ASSUME IInv, Copy PROVE IInv'
<1>1. /\ Task(op) /\ conf \subseteq Snap /\ failures \in Nat /\ dir \subseteq Dirs /\ home \in Node
      /\ mnt \in [Node -> [Dirs -> {"none", "ok", "stale"}]] /\ Mounts /\ data \in Contents
      /\ op.at = "copy" /\ op.kind = "rollback" /\ op.at # "idle"
      /\ op.s \in Snap /\ op.d \in Disk /\ here \in Dirs /\ op \in OpType
  BY DEF IInv, Types, TypeOK, Copy, Contents, Task, Job, Method, here, Dirs
<1>2. UNCHANGED <<array, writes, home, moments, dir, mnt>> /\ failures' \in Nat /\ snap' = snap
  BY <1>1 DEF Copy, array
<1>3. Mounts'
  BY <1>1, <1>2 DEF Mounts, array
<1>4. CASE /\ state = "ok" /\ data' = [data EXCEPT ![op.d] = snap[op.s][op.d]]
           /\ Stay(At("umount"))
  <2>1. snap[op.s] \in Contents /\ snap[op.s] # None
    BY <1>1, <1>4 DEF state, here, IInv, Mounts, Taken, Types, TypeOK, Contents
  <2>2. /\ data' \in Contents /\ data'[op.d] = snap[op.s][op.d]
        /\ \A d \in Disk \ {op.d} : data'[d] = data[d]
    BY <1>1, <1>4, <2>1 DEF Contents
  <2>3. At_is("umount") /\ Stays /\ conf' = conf
    BY <1>1, <1>4, StayShape DEF Steps
  <2>4. Task(op')
    BY <1>1, <2>3 DEF At_is, Task, Job, Method, Publishes
  <2>5. Restored'
    BY <1>1, <1>2, <2>1, <2>2, <2>3 DEF IInv, Restored, Copied, At_is
  <2>6. Progress' /\ Remembers({}) /\ Blame({}) /\ op'.kind # "snapshot"
    BY <1>1, <2>3 DEF At_is, Progress, Remembers, Stays
  <2> QED BY <1>1, <1>2, <1>3, <2>2, <2>3, <2>4, <2>5, <2>6, DirectoryStep DEF At_is
<1>5. CASE /\ data' \in {data, [data EXCEPT ![op.d] = Torn]}
           /\ Stay([At("umount") EXCEPT !.bad = TRUE])
  <2>1. data' \in Contents
    BY <1>1, <1>5 DEF Contents
  <2>2. op' = [op EXCEPT !.at = "umount", !.bad = TRUE] /\ Blame({}) /\ conf' = conf
    BY <1>5 DEF Stay, Go, At
  <2>3. /\ op'.kind = op.kind /\ op'.s = op.s /\ op'.d = op.d /\ op'.todo = op.todo
        /\ op'.at = "umount" /\ op'.bad /\ op' \in OpType
    BY <1>1, <2>2 DEF OpType, Steps
  <2>4. Task(op')
    BY <1>1, <2>3 DEF Task, Job, Method, Publishes
  <2>5. Progress' /\ Restored' /\ Remembers({}) /\ op'.kind # "snapshot"
    BY <1>1, <2>3 DEF Progress, Restored, Remembers
  <2> QED BY <1>1, <1>2, <1>3, <2>1, <2>2, <2>3, <2>4, <2>5, DirectoryStep
<1> QED BY <1>4, <1>5 DEF Copy, HalfCopied

\* With the snapshot its moments go.
LEMMA DsnapKeeps == ASSUME IInv, Dsnap PROVE IInv'
<1>1. /\ Task(op) /\ conf \subseteq Snap /\ failures \in Nat /\ op.s \in Snap /\ op.kind # "none"
      /\ op.at = "dsnap" /\ op.kind \in {"delete", "undo"} /\ op.s \notin clone
      /\ snap \in [Snap -> Contents \cup {None}] /\ moments \in [Snap -> SUBSET Contents]
  BY DEF IInv, Types, TypeOK, Dsnap, Task, Job, Method, Progress, Contents
<1>2. /\ DeleteSnap(op.s) \/ SameArray
      /\ UNCHANGED <<data, writes, home, dir, clone, share, mnt>> /\ failures' \in Nat
      /\ moments' = [moments EXCEPT ![op.s] = IF snap'[op.s] = None THEN {} ELSE @]
  BY <1>1 DEF Dsnap, Request, Same, DeleteSnap, SameArray, array
<1>3. /\ snap' \in [Snap -> Contents \cup {None}] /\ moments' \in [Snap -> SUBSET Contents]
      /\ \A s \in Snap : \/ snap'[s] = None
                         \/ snap'[s] = snap[s] /\ moments'[s] = moments[s]
      /\ \A s \in Snap \ {op.s} : snap'[s] = snap[s]
  BY <1>1, <1>2 DEF DeleteSnap, SameArray, array
<1>4. Taken' /\ Mounts'
  BY <1>1, <1>2, <1>3 DEF IInv, Taken, Mounts, Types, TypeOK
<1>5. Remembers({}) /\ OthersKept /\ clone' \cup share' \subseteq Snap
  BY <1>1, <1>2 DEF IInv, Remembered, Remembers, OthersKept, Types, TypeOK
<1>6. /\ Task(op') /\ conf' \subseteq Snap /\ op'.kind \notin {"rollback", "activate", "snapshot"}
      /\ op'.at \in {"idle", "enter", "lclones"} /\ (op'.at = "lclones" => op'.s = op.s)
      /\ Blame({}) \/ Blame({op.s})
  <2>1. CASE NextOf(op, {})
    <3>1. /\ Task(op') /\ conf' \subseteq Snap /\ Blame({})
          /\ \/ op' = Idle(op.bad \/ op.kind = "undo") /\ op.todo = {}
             \/ Entered(op)
      BY <1>1, <2>1, NextOfShape DEF Task
    <3> QED BY <1>1, <3>1 DEF Idle, Entered, First
  <2>2. CASE CommandFails \/ Restart
    <3>1. /\ Task(op') /\ conf' \subseteq Snap
          /\ \/ Stays /\ Retried
             \/ /\ Leaves({op.s})
                /\ op'.kind \notin {"rollback", "activate", "snapshot"}
      BY <1>1, <2>2, FailShape DEF Asks
    <3> QED BY <1>1, <3>1 DEF Stays, Retried, Leaves, Entered, First, Publishes, Unpublishes
  <2> QED BY <2>1, <2>2 DEF Dsnap, Request
<1>7. Progress' /\ Restored' /\ Taking'
  BY <1>6 DEF Progress, Restored, Taking
<1>8. Remembered'
  <2>1. CASE Blame({})
    BY <1>1, <1>2, <1>5, <1>6, <2>1, RememberedStep DEF IInv
  <2>2. CASE Blame({op.s})
    <3>1. Remembers({op.s})
      BY DEF Remembers
    <3> QED BY <1>1, <1>2, <1>5, <1>6, <2>2, <3>1, RememberedStep DEF IInv
  <2> QED BY <1>6, <2>1, <2>2
<1>9. Types'
  <2>1. left' \subseteq Snap
    BY <1>5, <1>6 DEF Blame
  <2>2. op'.kind \in Kinds /\ op'.at \in Steps /\ op'.tries < Attempts
    BY <1>6, NasAssumption DEF Task, Job, OpType
  <2> QED BY <1>2, <1>3, <1>6, <2>1, <2>2 DEF IInv, Types, TypeOK, Contents
<1> QED BY <1>4, <1>7, <1>8, <1>9 DEF IInv

-----------------------------------------------------------------------------
(* Tasks, the guest, and the nodes.                                        *)

LEMMA BeginKeeps == ASSUME IInv, Begin PROVE IInv'
<1> USE DEF IInv
<1>1. op.kind = "none" /\ Types /\ failures \in Nat /\ data \in Contents /\ moments \in [Snap -> SUBSET Contents]
  BY DEF Begin, Start, Types, TypeOK, Contents
<1>2. UNCHANGED <<array, dir, mnt, conf, failures, data, writes, home>> /\ Blame({})
  BY DEF Begin, Start, Go, Same
<1>3. clone' = clone /\ share' = share /\ snap' = snap
  BY <1>2 DEF array
<1>4. PICK s \in Snap, d \in Disk :
        \/ Start("snapshot", s, d, Disk \ {d}) /\ moments' = [moments EXCEPT ![s] = @ \cup {data}]
        \/ /\ UNCHANGED moments
           /\ \/ \E kind \in {"delete", "rollback"} : Start(kind, s, d, Disk \ {d})
              \/ \E kind \in {"activate", "deactivate"} : Start(kind, s, d, {})
              \/ Start("stop", s, d, {x \in Snap \ {s} : <<d, x>> \in dir})
  BY DEF Begin
<1>5. PICK kind \in Kinds \ {"none", "undo"}, todo \in SUBSET (Disk \cup Snap) :
        /\ Start(kind, s, d, todo)
        /\ todo \subseteq IF kind = "stop" THEN Snap ELSE Disk
        /\ kind = "rollback" => todo = Disk \ {d}
        /\ IF kind = "snapshot" THEN moments' = [moments EXCEPT ![s] = @ \cup {data}]
                                ELSE UNCHANGED moments
  <2> DEFINE P(k, r) ==
        /\ Start(k, s, d, r)
        /\ r \subseteq IF k = "stop" THEN Snap ELSE Disk
        /\ k = "rollback" => r = Disk \ {d}
        /\ IF k = "snapshot" THEN moments' = [moments EXCEPT ![s] = @ \cup {data}]
                             ELSE UNCHANGED moments
  <2>1. CASE Start("snapshot", s, d, Disk \ {d}) /\ moments' = [moments EXCEPT ![s] = @ \cup {data}]
    <3>1. "snapshot" \in Kinds \ {"none", "undo"} /\ P("snapshot", Disk \ {d})
      BY <2>1 DEF Kinds
    <3> QED BY <3>1
  <2>2. ASSUME NEW k \in {"delete", "rollback"}, Start(k, s, d, Disk \ {d}), UNCHANGED moments
        PROVE  \E kind \in Kinds \ {"none", "undo"}, todo \in SUBSET (Disk \cup Snap) : P(kind, todo)
    <3>1. k \in Kinds \ {"none", "undo"} /\ P(k, Disk \ {d})
      BY <2>2 DEF Kinds
    <3> QED BY <3>1
  <2>3. ASSUME NEW k \in {"activate", "deactivate"}, Start(k, s, d, {}), UNCHANGED moments
        PROVE  \E kind \in Kinds \ {"none", "undo"}, todo \in SUBSET (Disk \cup Snap) : P(kind, todo)
    <3>1. k \in Kinds \ {"none", "undo"} /\ P(k, {})
      BY <2>3 DEF Kinds
    <3> QED BY <3>1
  <2>4. CASE Start("stop", s, d, {x \in Snap \ {s} : <<d, x>> \in dir}) /\ UNCHANGED moments
    <3>1. "stop" \in Kinds \ {"none", "undo"} /\ P("stop", {x \in Snap \ {s} : <<d, x>> \in dir})
      BY <2>4 DEF Kinds
    <3> QED BY <3>1
  <2> QED BY <1>4, <2>1, <2>2, <2>3, <2>4
<1>6. /\ op'.kind = kind /\ op'.s = s /\ op'.d = d /\ op'.todo = todo /\ op'.at = First(kind)
      /\ op' \in OpType
  <2>1. /\ op' = [Idle(FALSE) EXCEPT !.kind = kind, !.s = s, !.d = d, !.todo = todo, !.at = First(kind)]
        /\ First(kind) \in Steps /\ todo \subseteq Disk \cup Snap
    BY <1>5 DEF Start, Go, First, Steps
  <2>2. Idle(FALSE) \in OpType
    BY IdleTask DEF Task, Job
  <2> QED BY <2>1, <2>2 DEF OpType
<1>7. Task(op') /\ op'.at \in {"create", "clone", "enter"}
  BY <1>5, <1>6 DEF Task, Job, Method, First, Kinds, Publishes
<1>8. moments' \in [Snap -> SUBSET Contents] /\ \A x \in Snap : moments[x] \subseteq moments'[x]
  BY <1>1, <1>5
<1>9. Types'
  <2>0. clone \cup share \subseteq Snap
    BY DEF Types, TypeOK
  <2>1. left' \subseteq Snap
    BY <1>2, <1>3, <2>0 DEF Blame
  <2>2. op'.kind \in Kinds /\ op'.at \in Steps /\ op'.tries < Attempts
    BY <1>6, NasAssumption DEF OpType
  <2> QED BY <1>1, <1>2, <1>3, <1>7, <1>8, <2>1, <2>2 DEF Types, TypeOK, Contents
<1>10. Mounts' /\ Taken'
  BY <1>2, <1>3, <1>8 DEF Mounts, Taken, Types, TypeOK
<1>11. Taking'
  BY <1>1, <1>2, <1>5, <1>6 DEF Taking
<1>12. Progress' /\ Restored'
  BY <1>5, <1>6, <1>7 DEF Progress, Restored, Unpublishes
<1>13. Remembered'
  <2>1. ASSUME NEW x \in clone' \cup share' PROVE Known(x)'
    <3>1. Known(x)
      BY <1>1, <1>3 DEF Remembered
    <3> QED BY <1>2, <3>1 DEF Known, Blame
  <2> QED BY <1>7, <2>1 DEF Remembered
<1> QED BY <1>9, <1>10, <1>11, <1>12, <1>13

LEMMA WriteKeeps == ASSUME IInv, Write PROVE IInv'
<1> USE DEF IInv
<1>1. /\ Types /\ op.kind # "rollback" /\ writes < MaxWrites /\ writes' = writes + 1
      /\ UNCHANGED <<snap, clone, share, dir, mnt, home, conf, left, op, failures>>
      /\ data \in Contents /\ writes \in 0..MaxWrites
  BY DEF Write, array, Types, TypeOK, Contents
<1>2. PICK d \in Disk : data' = [data EXCEPT ![d] = writes + 1]
  BY DEF Write
<1>3. writes' \in 0..MaxWrites /\ data' \in Contents
  BY <1>1, <1>2, NasAssumption DEF Contents
<1>4. /\ moments' \in [Snap -> SUBSET Contents]
      /\ \A s \in Snap : /\ moments[s] \subseteq moments'[s]
                         /\ op.kind = "snapshot" /\ op.s = s => data' \in moments'[s]
  BY <1>1, <1>3 DEF Write, Types
<1>5. Types'
  BY <1>1, <1>3, <1>4 DEF Types, TypeOK, Contents
<1>6. Mounts' /\ Taken' /\ Progress'
  BY <1>1, <1>4 DEF Mounts, Taken, Progress, Types, TypeOK
<1>7. Taking'
  BY <1>1, <1>4 DEF Taking, Types, Task, Job
<1>8. Restored'
  BY <1>1 DEF Restored
<1>9. Remembered'
  BY <1>1 DEF Remembered, Known
<1> QED BY <1>5, <1>6, <1>7, <1>8, <1>9

LEMMA MoveKeeps == ASSUME IInv, Move PROVE IInv'
<1> USE DEF IInv
<1>1. /\ UNCHANGED <<data, writes, snap, clone, share, dir, mnt, conf, moments, left, op, failures>>
      /\ home' \in Node
  BY DEF Move, array
<1>2. Types'
  BY <1>1 DEF Types, TypeOK
<1>3. Mounts' /\ Taken' /\ Taking' /\ Progress' /\ Restored'
  BY <1>1 DEF Mounts, Taken, Taking, Progress, Restored, Copied
<1>4. Remembered'
  BY <1>1 DEF Remembered, Known
<1> QED BY <1>2, <1>3, <1>4

LEMMA KilledKeeps == ASSUME IInv, Killed PROVE IInv'
<1> USE DEF IInv
<1>1. /\ UNCHANGED <<writes, snap, clone, share, dir, conf, moments>>
      /\ op' = Idle(TRUE) /\ failures \in Nat /\ failures' = failures + 1
      /\ Blame(IF op.kind = "none" THEN {} ELSE {op.s})
      /\ Types /\ home \in Node /\ mnt \in [Node -> [Dirs -> {"none", "ok", "stale"}]]
  BY DEF Killed, array, Go, Types, TypeOK
<1>0. data' \in [Disk -> {Torn} \cup 0..MaxWrites]
  BY DEF Killed, HalfCopied, Types, TypeOK
<1>2. /\ home' \in Node /\ mnt' \in [Node -> [Dirs -> {"none", "ok", "stale"}]]
      /\ \A n \in Node, e \in Dirs : mnt'[n][e] \in {"none", mnt[n][e]}
  BY <1>1 DEF Killed
<1>3. Task(op') /\ op'.kind = "none" /\ op'.at = "idle"
  BY <1>1, IdleTask DEF Idle
<1>4. Types'
  <2>1. left' \subseteq Snap
    BY <1>1 DEF Blame, Types, TypeOK
  <2>2. op'.kind \in Kinds /\ op'.at \in Steps /\ op'.tries < Attempts
    BY <1>3, NasAssumption DEF Task, Job, OpType
  <2>3. TypeOK'
    BY <1>0, <1>1, <1>2, <2>1, <2>2 DEF Types, TypeOK
  <2>4. moments' \in [Snap -> SUBSET Contents] /\ failures' \in Nat
    BY <1>1 DEF Types
  <2> QED BY <1>3, <2>3, <2>4 DEF Types
<1>5. Mounts' /\ Taken' /\ Taking' /\ Progress' /\ Restored'
  BY <1>1, <1>2, <1>3 DEF Mounts, Taken, Taking, Progress, Restored
<1>6. Remembered'
  <2>1. ASSUME NEW x \in clone' \cup share' PROVE Known(x)'
    <3>1. CASE op.kind # "none" /\ x = op.s
      BY <1>1, <3>1 DEF Blame, Known
    <3>2. CASE ~(op.kind # "none" /\ x = op.s)
      <4>1. Known(x)
        BY <1>1, <3>2 DEF Remembered
      <4> QED BY <1>1, <4>1 DEF Known, Blame
    <3> QED BY <3>1, <3>2
  <2> QED BY <1>3, <2>1 DEF Remembered
<1> QED BY <1>4, <1>5, <1>6

-----------------------------------------------------------------------------
(* The theorems.                                                           *)

LEMMA InitIInv == ASSUME Init PROVE IInv
<1>1. /\ data = [d \in Disk |-> 0] /\ writes = 0 /\ snap = [s \in Snap |-> None]
      /\ clone = {} /\ share = {} /\ dir = {} /\ mnt = [n \in Node |-> [e \in Dirs |-> "none"]]
      /\ home \in Node /\ conf = {} /\ moments = [s \in Snap |-> {}] /\ left = {}
      /\ op = Idle(FALSE) /\ failures = 0
  BY DEF Init
<1>2. Task(op) /\ op.kind = "none" /\ op.at = "idle" /\ op.tries = 0
  BY <1>1, IdleTask DEF Idle
<1>3. Types
  <2>1. 0 \in 0..MaxWrites /\ 0 < Attempts
    BY NasAssumption
  <2>2. data \in Contents /\ snap \in [Snap -> Contents \cup {None}]
    BY <1>1, <2>1 DEF Contents
  <2>3. moments \in [Snap -> SUBSET Contents] /\ mnt \in [Node -> [Dirs -> {"none", "ok", "stale"}]]
    BY <1>1
  <2>4. op.kind \in Kinds /\ op.at \in Steps
    BY <1>2 DEF Task, Job, OpType
  <2> QED BY <1>1, <1>2, <2>1, <2>2, <2>3, <2>4 DEF Types, TypeOK, Contents
<1>4. Mounts /\ Taken /\ Taking /\ Progress /\ Restored /\ Remembered
  BY <1>1, <1>2 DEF Mounts, Taken, Taking, Progress, Restored, Remembered
<1> QED BY <1>3, <1>4 DEF IInv

LEMMA StutterKeeps == ASSUME IInv, UNCHANGED vars PROVE IInv'
BY DEF vars, array, IInv, Types, TypeOK, Mounts, Taken, Taking, Progress, Restored, Copied,
       Remembered, Known

\* The invariant of all conjuncts holds in every reachable state: the steps of
\* every task on a VM's snapshots keep it, with all their failures.
THEOREM Invariance == Spec => []IInv
<1>1. Init => IInv
  BY InitIInv
<1>2. IInv /\ [Next]_vars => IInv'
  BY CreateKeeps, CloneKeeps, ShareKeeps, FindKeeps, UndoShareKeeps, UndoCloneKeeps, MountKeeps,
     CopyKeeps, UmountCopiedKeeps, EnterKeeps, DshareKeeps, GshareKeeps, DcloneKeeps, RmdirKeeps,
     LclonesKeeps, DsnapKeeps, BeginKeeps, WriteKeeps, MoveKeeps, KilledKeeps, StutterKeeps DEF Next
<1> QED BY <1>1, <1>2, PTL DEF Spec

\* The variables have their types: the task at hand is at a step of its method.
THEOREM TypeCorrect == Spec => []TypeOK
<1>1. IInv => TypeOK
  BY DEF IInv, Types
<1> QED BY <1>1, Invariance, PTL

\* No clone and no share of a snapshot is lost sight of: a task works on it, a
\* mount directory names it, or a method that died or gave up left it.
THEOREM NothingForgotten == Spec => []Findable
<1>1. IInv => Findable
  BY DEF IInv, Remembered, Known, Findable
<1> QED BY <1>1, Invariance, PTL

\* A rollback that ends without an error does so when the publication of its
\* last disk is removed, with all disks copied.
LEMMA RollbackEnd ==
    ASSUME IInv, Next, op.kind = "rollback", op'.kind = "none", ~op'.bad
    PROVE  data \in moments[op.s]
<1>1. /\ Task(op) /\ conf \subseteq Snap /\ op.s \in Snap /\ op.d \in Disk
      /\ op.at \notin {"idle", "create", "enter", "rmdir", "lclones", "dsnap"}
  BY DEF IInv, Types, TypeOK, Task, Job, Method
<1>2. ASSUME NEW step \in Steps, Stay(At(step)) PROVE FALSE
  BY <1>1, <1>2, StayShape DEF Stays
<1>3. ASSUME op.at \in Asks, CommandFails \/ Restart PROVE FALSE
  <2>1. (Stays /\ Retried) \/ (op'.kind = "none" => op'.bad)
    BY <1>1, <1>3, FailShape
  <2> QED BY <2>1 DEF Stays
<1>4. ~Die
  BY <1>1, DieShape
<1>5. ASSUME NEW step \in Steps, Stay([At(step) EXCEPT !.bad = TRUE]) PROVE FALSE
  <2>1. op' = [op EXCEPT !.at = step, !.bad = TRUE] /\ op \in OpType
    BY <1>1, <1>5 DEF Stay, Go, At, Task, Job
  <2> QED BY <2>1 DEF OpType
<1> DEFINE Named == {"share", "find", "mount", "undoShare", "undoClone", "copy", "umount",
                     "dshare", "gshare", "dclone"}
<1>6. Named \subseteq Steps
  BY DEF Steps
<1>7. ~Clone /\ ~Share /\ ~Find /\ ~UndoShare /\ ~UndoClone
  <2>1. op.at \in {"clone", "share", "find", "undoShare", "undoClone"} => op.at \in Asks
    BY DEF Asks
  <2> QED BY <1>2, <1>3, <1>4, <1>6, <2>1 DEF Clone, Share, Find, UndoShare, UndoClone, Request
<1>8. ~Mount /\ ~Copy /\ ~UmountCopied
  BY <1>2, <1>4, <1>5, <1>6 DEF Mount, Copy, UmountCopied, Unmount
<1>9. ~Dshare /\ ~Gshare
  <2>1. op.at \in {"dshare", "gshare"} => op.at \in Asks
    BY DEF Asks
  <2> QED BY <1>2, <1>3, <1>6, <2>1 DEF Dshare, Gshare, Request
<1>10. ~Killed
  BY DEF Killed, Go, Idle
<1>11. ~Write
  BY DEF Write
<1>12. Dclone
  BY <1>1, <1>7, <1>8, <1>9, <1>10, <1>11
     DEF Next, Create, Enter, Rmdir, Lclones, Dsnap, Begin, Start, Move
<1>13. op.at = "dclone" /\ \E B \in {{}, {op.s}} : Unpublished(B)
  <2>1. op.at = "dclone" => op.at \in Asks
    BY DEF Asks
  <2> QED BY <1>3, <1>12, <2>1 DEF Dclone
<1>14. PICK B \in {{}, {op.s}} : NextOf(op, B)
  BY <1>4, <1>13 DEF Unpublished
<1>15. op.todo = {} /\ ~op.bad
  <2>1. \/ op' = Idle(op.bad \/ op.kind = "undo") /\ op.todo = {}
        \/ Entered(op)
    BY <1>1, <1>14, NextOfShape DEF Task
  <2>2. ~Entered(op)
    BY DEF Entered
  <2>3. op'.bad = (op.bad \/ op.kind = "undo")
    BY <2>1, <2>2 DEF Idle
  <2> QED BY <2>1, <2>2, <2>3
<1>16. /\ snap[op.s] # None /\ \A d \in Disk : data[d] = snap[op.s][d]
  BY <1>1, <1>13, <1>15 DEF IInv, Restored, Copied, Unpublishes
<1>17. data \in Contents /\ snap[op.s] \in Contents
  BY <1>1, <1>16 DEF IInv, Types, TypeOK, Contents
<1>18. data = snap[op.s]
  BY <1>16, <1>17 DEF Contents
<1> QED BY <1>1, <1>16, <1>18 DEF IInv, Taken

\* A rollback that reports success has brought back, on all disks, contents
\* they had together while its snapshot was being taken: whatever failed, was
\* repeated, killed or deleted before (_volume_snapshot_rollback).
THEOREM RollbackCorrect == Spec => RollbackRestores
<1>1. IInv /\ [Next]_vars =>
          [op.kind = "rollback" /\ op'.kind = "none" /\ ~op'.bad => data \in moments[op.s]]_vars
  BY RollbackEnd
<1> QED BY <1>1, Invariance, PTL DEF Spec, RollbackRestores
=============================================================================
