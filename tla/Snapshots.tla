------------------------------ MODULE Snapshots -------------------------------
(***************************************************************************)
(* Volumes, snapshots and clones of a pool under the jdssc commands of the *)
(* iSCSI plugin: create, snapshot, clone, delete, publish a snapshot, roll *)
(* back, rename; one REST call a step.  jdssc runs one command at a time   *)
(* (the lock jdssc_general); a command killed at its timeout is run again, *)
(* and others may come between its runs.                                   *)
(***************************************************************************)
EXTENDS Integers, FiniteSets, SequencesExt

CONSTANTS
    Proc,         \* plugin methods in progress
    Vol,          \* names of disks
    Snap,         \* names of snapshots of users
    Cmds,         \* commands that are issued
    Faults,       \* REST calls that may end with an error
    Killable,     \* REST calls at which a run of a command may be killed
    MaxFailures,  \* errors and kills
    Lossy,        \* calls that may be answered the second time they are sent
    LateCalls,    \* calls of killed processes that may be executed later
    SharedNames,  \* whether a snapshot name may be used on two disks
    RenameClones, \* whether clones are renamed
    Zone,         \* time of the nodes against that of the array: same, behind, ahead
    MaxVols,      \* disks ever made
    MaxWrites,    \* writes of guests
    None

\* A published snapshot is a clone with a name of its own.
Mount == Vol \X Snap
Name == Vol \cup Mount

\* A snapshot, and the snapshot of a disk that a clone comes from.
Copy   == [name : Vol \cup Snap, data : Nat]
Origin == Nat \X (Vol \cup Snap)
Zvol   == [id : Nat, origin : Origin \cup {None}, data : Nat, snaps : Seq(Copy)]

Commands == {"create", "snap", "delsnap", "clone", "cloneSnap", "destroy", "mount", "unmount",
             "rollback", "rename"}

ASSUME SnapshotsAssumption ==
    /\ Cmds \subseteq Commands
    /\ Vol \cap (Snap \cup Mount) = {} /\ None \notin Vol \cup Snap \cup Mount \cup Origin \cup Zvol
    /\ Zone \in {"same", "behind", "ahead"}
    /\ LateCalls \subseteq {"snap", "cSnap", "cAgain", "cClone"} /\ "done" \notin Killable
    /\ \A n \in {MaxFailures, MaxVols, MaxWrites} : n \in Nat

VARIABLES
    pool,     \* zvols: what each name stands for, and how many disks were made
    conf,     \* the snapshots the VM configs offer, by disk
    clock,    \* number of writes
    pr,       \* the methods
    late,     \* requests of killed processes under way
    blame,    \* snapshots of clones left behind by a failed call or a kill
    forgot    \* disks of which a rollback was killed or failed

vars == <<pool, conf, clock, pr, late, blame, forgot>>

-----------------------------------------------------------------------------
(* The array: what its REST calls do, and how rest.py names the outcomes.  *)

Has(a, n) == a.zvol[n] # None

SnapNames(a, n) == {a.zvol[n].snaps[i].name : i \in 1..Len(a.zvol[n].snaps)}

Position(a, n, s) == CHOOSE i \in 1..Len(a.zvol[n].snaps) : a.zvol[n].snaps[i].name = s

HasSnap(a, n, s) == Has(a, n) /\ s \in SnapNames(a, n)

get_snapshot_clones(a, n, s) ==
    {m \in Name : Has(a, m) /\ a.zvol[m].origin = <<a.zvol[n].id, s>>}

Dependents(a, n) == UNION {get_snapshot_clones(a, n, s) : s \in SnapNames(a, n)}

Ret(a, r) == [a |-> a, r |-> r]

Made(a, n, origin, data) ==
    LET id == IF n \in Vol THEN a.made + 1 ELSE 0 IN
    [zvol |-> [a.zvol EXCEPT ![n] = [id |-> id, origin |-> origin, data |-> data, snaps |-> <<>>]],
     made |-> IF n \in Vol THEN id ELSE a.made]

Gone(a, n) == [a EXCEPT !.zvol[n] = None]

create_lun(a, v) == IF Has(a, v) THEN Ret(a, "exists") ELSE Ret(Made(a, v, None, 0), "ok")

create_snapshot(a, n, s) ==
    IF ~Has(a, n) THEN Ret(a, "notfound")
    ELSE IF s \in SnapNames(a, n) THEN Ret(a, "exists")
    ELSE Ret([a EXCEPT !.zvol[n].snaps = Append(@, [name |-> s, data |-> a.zvol[n].data])], "ok")

create_volume_from_snapshot(a, c, n, s) ==
    IF Has(a, c) THEN Ret(a, "exists")
    ELSE IF ~HasSnap(a, n, s) THEN Ret(a, "notfound")
    ELSE Ret(Made(a, c, <<a.zvol[n].id, s>>, a.zvol[n].snaps[Position(a, n, s)].data), "ok")

delete_snapshot(a, n, s) ==
    IF ~HasSnap(a, n, s) THEN Ret(a, "notfound")
    ELSE IF get_snapshot_clones(a, n, s) # {} THEN Ret(a, "busy")
    ELSE Ret([a EXCEPT !.zvol[n].snaps = RemoveAt(@, Position(a, n, s))], "ok")

\* What does not exist counts as deleted.
delete_lun(a, n, recursively) ==
    IF ~Has(a, n) THEN Ret(a, "ok")
    ELSE IF Dependents(a, n) # {} \/ (~recursively /\ SnapNames(a, n) # {}) THEN Ret(a, "busy")
    ELSE Ret(Gone(a, n), "ok")

\* The snapshots newer than s, which a rollback to s removes.
Newer(a, n, s) ==
    {a.zvol[n].snaps[i].name : i \in Position(a, n, s) + 1..Len(a.zvol[n].snaps)}

Blockers(a, n, s) == UNION {get_snapshot_clones(a, n, t) : t \in Newer(a, n, s)}

snapshot_rollback(a, n, s) ==
    IF ~HasSnap(a, n, s) \/ Blockers(a, n, s) # {} THEN Ret(a, "error")
    ELSE LET i == Position(a, n, s)
             z == a.zvol[n] IN
         Ret([a EXCEPT !.zvol[n] = [z EXCEPT !.data = z.snaps[i].data,
                                             !.snaps = SubSeq(z.snaps, 1, i)]], "ok")

\* PUT with a new name; clones refer to the zvol, not to its name.
modify_lun(a, v, w) ==
    IF ~Has(a, v) THEN Ret(a, "notfound")
    ELSE IF Has(a, w) THEN Ret(a, "error")
    ELSE Ret([a EXCEPT !.zvol[w] = a.zvol[v], !.zvol[v] = None], "ok")

-----------------------------------------------------------------------------
(* The methods.  A method holds the lock of the VM whose disk it works on, *)
(* a snapshot the lock of PVE on the config of this VM; a clone has only   *)
(* the lock of the VM of the new disk.                                     *)

NoRun == [op |-> "none", at |-> "idle", v |-> None, s |-> None, c |-> None,
          n |-> None,           \* the zvol a deletion works on
          id |-> 0,             \* scsi id of the disk to rename
          org |-> None,         \* what get_lun said of its origin
          gone |-> {},          \* snapshots a rollback will remove
          seen |-> {},          \* data of the source since a clone was begun
          err |-> "ok",         \* the error a clean-up ends with
          blind |-> FALSE,      \* an error was taken for an answer
          tries |-> 0, errs |-> 0, res |-> "ok"]

Go(q, at) == [q EXCEPT !.at = at]

Running(p) == pr[p].at \notin {"idle", "again"}

Turn(p) == \A o \in Proc \ {p} : ~Running(o)

Locked(q) == CASE q.op = "none" -> {}
               [] q.op \in {"clone", "cloneSnap"} -> {q.c}
               [] q.op = "rename" -> {q.v, q.c}
               [] OTHER -> {q.v}

Finish(q, r) == [q EXCEPT !.at = "done", !.res = r, !.n = None, !.org = None, !.err = "ok",
                          !.id = IF q.op = "rename" THEN @ ELSE 0, !.tries = 0]

Raised(q) == Finish(q, "failed")

\* Failures that are still to come.
Frail == \A p \in Proc : pr[p].errs < MaxFailures

Errors(q, c) == IF c \in Faults /\ Frail THEN {"error", "cfg"} ELSE {}

\* The ways call c of q can end; F is what the array does.
Answers(q, c, F(_)) ==
    LET r == F(pool) IN
    {r} \cup (IF c \in Lossy THEN {F(r.a)} ELSE {})
        \cup {Ret(b, e) : b \in {pool, r.a}, e \in Errors(q, c)}

\* The disk with an identity.
Lives(a, id) == \E n \in Vol : Has(a, n) /\ a.zvol[n].id = id

NameOf(a, id) == CHOOSE n \in Vol : Has(a, n) /\ a.zvol[n].id = id

\* What the array does on the call that q waits for.
Call(q, a) ==
    CASE q.at = "mkvol" -> create_lun(a, q.v)
      [] q.at = "snap" -> create_snapshot(a, q.v, q.s)
      [] q.at \in {"cSnap", "cAgain"} -> create_snapshot(a, q.v, q.c)
      [] q.at \in {"cClear", "cUndo"} -> delete_snapshot(a, q.v, q.c)
      [] q.at = "cClone" -> create_volume_from_snapshot(a, q.c, q.v, q.c)
      [] q.at = "cFrom" -> create_volume_from_snapshot(a, q.c, q.n, q.s)
      [] q.at = "unmount" -> delete_lun(a, <<q.v, q.s>>, FALSE)
      [] q.at = "unsnap" -> delete_snapshot(a, q.v, q.s)
      [] q.at = "mClone" -> create_volume_from_snapshot(a, <<q.v, q.s>>, q.v, q.s)
      [] q.at = "del" -> delete_lun(a, q.n, TRUE)
      [] q.at = "origin" /\ Lives(a, q.org[1]) -> delete_snapshot(a, NameOf(a, q.org[1]), q.org[2])
      [] q.at = "rDo" -> snapshot_rollback(a, q.v, q.s)
      [] q.at = "nDo" -> modify_lun(a, q.v, q.c)
      [] OTHER -> Ret(a, "notfound")

Ends(q) == Answers(q, q.at, LAMBDA a : Call(q, a))

Wrong(o) == o.r \in {"error", "cfg"}

Felt(q, o) == IF Wrong(o) THEN [q EXCEPT !.errs = @ + 1] ELSE q

\* What the clones in progress see of their sources.
Watch(a, f) ==
    [p \in Proc |-> IF f[p].op = "clone" /\ f[p].at # "done" /\ Has(a, f[p].v)
                    THEN [f[p] EXCEPT !.seen = @ \cup {a.zvol[f[p].v].data}] ELSE f[p]]

Set(p, a, q) == /\ pool' = a
                /\ pr' = Watch(a, [pr EXCEPT ![p] = q])

\* The call of p ended with o, which makes it q.
After(p, o, q) == Set(p, o.a, Felt(q, o))

Quiet == UNCHANGED <<conf, clock, late, blame, forgot>>

Read(p, q) == Set(p, pool, q) /\ Quiet

Refused(p, c) == Errors(pr[p], c) # {} /\ Read(p, Raised([pr[p] EXCEPT !.errs = @ + 1]))

\* The snapshot that the clone q of a disk makes on it.
OwnSnap(q) == IF Has(pool, q.v) THEN {<<pool.zvol[q.v].id, q.c>>} ELSE {}

Blamed(S, b) == blame' = IF b THEN blame \cup S ELSE blame

\* A name for a new disk, of a VM that no other method has locked.
Free(p, c) == /\ c \in Vol /\ pool.made < MaxVols /\ ~Has(pool, c)
              /\ \A o \in Proc \ {p} : c \notin Locked(pr[o])

First(op) == CASE op = "create" -> "mkvol"        [] op = "snap" -> "list"
               [] op = "delsnap" -> "find"        [] op = "clone" -> "cSnap"
               [] op = "cloneSnap" -> "cFind"     [] op = "destroy" -> "isLun"
               [] op = "mount" -> "mClone"        [] op = "unmount" -> "read"
               [] op = "rollback" -> "rList"      [] op = "rename" -> "nNew"

\* Disk w has a snapshot s, or the config says so, or it is being made.
Uses(w, s) == \/ HasSnap(pool, w, s) \/ s \in conf[w]
              \/ \E o \in Proc : pr[o].op = "snap" /\ pr[o].v = w /\ pr[o].s = s
              \/ \E r \in late : r.at = "snap" /\ r.v = w /\ r.s = s

\* volume_rollback_is_possible: no clone blocks the rollback.
RollbackPossible(v, s) == HasSnap(pool, v, s) /\ Blockers(pool, v, s) = {}

\* What PVE asks for, after the checks it makes or asks the plugin for.
Allowed(p, op, v, s, c) ==
    CASE op = "create" -> Free(p, v) /\ s = None /\ c = None
      [] op = "snap" -> /\ Has(pool, v) /\ s \in Snap \ conf[v] /\ c = None
                        /\ SharedNames \/ \A w \in Vol \ {v} : ~Uses(w, s)
      [] op = "delsnap" -> Has(pool, v) /\ s \in conf[v] \cup (SnapNames(pool, v) \ Vol) /\ c = None
      [] op = "clone" -> Has(pool, v) /\ s = None /\ Free(p, c) /\ c # v
      [] op = "cloneSnap" -> s \in conf[v] /\ Free(p, c) /\ c # v
      [] op = "destroy" -> Has(pool, v) /\ s = None /\ c = None
      [] op = "mount" -> s \in conf[v] /\ c = None
      [] op = "unmount" -> <<v, s>> \in Mount /\ Has(pool, <<v, s>>) /\ c = None
      [] op = "rollback" -> s \in conf[v] /\ c = None /\ RollbackPossible(v, s)
      [] op = "rename" -> /\ Has(pool, v) /\ conf[v] = {} /\ s = None /\ Free(p, c) /\ c # v
                          /\ RenameClones \/ pool.zvol[v].origin = None

\* The config stops to offer what is about to be deleted.  No request of a
\* killed process is under way that long.
Ask(p, op, v, s, c) ==
    LET q == [NoRun EXCEPT !.op = op, !.at = "again", !.v = v, !.s = s, !.c = c,
                           !.n = IF op = "unmount" THEN <<v, s>> ELSE None,
                           !.id = IF op = "rename" THEN pool.zvol[v].id ELSE 0,
                           !.errs = pr[p].errs] IN
    /\ \A r \in late : {r.v, r.c} \cap {v, c} \subseteq {None}
    /\ Allowed(p, op, v, s, c)
    /\ \A o \in Proc : Locked(q) \cap Locked(pr[o]) = {}
    /\ conf' = [conf EXCEPT ![v] = IF op = "destroy" THEN {} ELSE IF op = "delsnap" THEN @ \ {s} ELSE @]
    /\ Set(p, pool, q) /\ UNCHANGED <<clock, late, blame, forgot>>

Begin(p) ==
    /\ pr[p].at = "idle" /\ Turn(p)
    /\ \E op \in Cmds, v \in Vol, s \in Snap \cup {None}, c \in Vol \cup {None} :
          Ask(p, op, v, s, c)

\* joviandss_cmd runs jdssc under the lock jdssc_general.
Run(p) ==
    /\ pr[p].at = "again" /\ Turn(p)
    /\ Read(p, Go(pr[p], First(pr[p].op)))

-----------------------------------------------------------------------------
(* create_volume, create_snapshot *)

CreateLun(p) ==
    LET q == pr[p] IN
    /\ q.at = "mkvol"
    /\ \E o \in Ends(q) :
          /\ After(p, o, IF o.r = "ok" THEN Finish(q, "ok")
                         ELSE IF o.r = "exists" THEN Go(q, "taken") ELSE Raised(q))
          /\ Quiet

\* The disks below n: clones of its users' snapshots, and clones of theirs.
Heirs(a, n) ==
    LET below[k \in Nat] ==
            IF k = 0 THEN {n}
            ELSE below[k - 1] \cup
                 UNION {Vol \cap get_snapshot_clones(a, m, t) : m \in below[k - 1], t \in Snap}
    IN {m \in below[Cardinality(Vol)] : m # n}

\* _list_volume_snapshots goes into the clones; an error counts as no answer.
ListSnapshots(p) ==
    LET q == pr[p]
        taken == \E m \in {q.v} \cup Heirs(pool, q.v) : HasSnap(pool, m, q.s) IN
    /\ q.at = "list"
    /\ \/ Refused(p, "list")
       \/ Errors(q, "list") # {} /\ Read(p, [Go(q, "snap") EXCEPT !.errs = @ + 1])
       \/ Read(p, IF ~Has(pool, q.v) \/ taken THEN Raised(q) ELSE Go(q, "snap"))

\* The config offers what was made.
CreateSnapshot(p) ==
    LET q == pr[p] IN
    /\ q.at = "snap"
    /\ \E o \in Ends(q) :
          /\ After(p, o, Finish(q, IF o.r = "ok" THEN "ok" ELSE "failed"))
          /\ conf' = [conf EXCEPT ![q.v] = IF o.r = "ok" THEN @ \cup {q.s} ELSE @]
          /\ UNCHANGED <<clock, late, blame, forgot>>

-----------------------------------------------------------------------------
(* _clone_object and create_cloned_volume *)

\* Wrong: a snapshot that is there is used as it is.
CloneSnapshotWrong(p) ==
    LET q == pr[p] IN
    /\ q.at = "cSnap"
    /\ \E o \in Ends(q) :
          /\ After(p, o, IF o.r \in {"ok", "exists"} THEN Go(q, "cClone") ELSE Raised(q))
          /\ Blamed(OwnSnap(q), Wrong(o))
          /\ UNCHANGED <<conf, clock, late, forgot>>

\* The snapshot of the clone; one that exists is removed first.
CloneSnapshot(p) ==
    LET q == pr[p] IN
    /\ q.at \in {"cSnap", "cAgain"}
    /\ \E o \in Ends(q) :
          /\ After(p, o, CASE o.r = "ok" \/ q.at = "cAgain" -> Go(q, "cClone")
                           [] o.r = "exists" /\ q.at = "cSnap" -> Go(q, "cClear")
                           [] OTHER -> Raised(q))
          /\ Blamed(OwnSnap(q), Wrong(o))
          /\ UNCHANGED <<conf, clock, late, forgot>>

\* A snapshot that cannot be removed is cloned as it is.
ClearSnapshot(p) ==
    LET q == pr[p] IN
    /\ q.at = "cClear"
    /\ \E o \in Ends(q) :
          /\ After(p, o, Go(q, IF o.r = "ok" THEN "cAgain" ELSE "cClone"))
          /\ Blamed(OwnSnap(q), Wrong(o))
          /\ UNCHANGED <<conf, clock, late, forgot>>

\* Wrong: the snapshot of a clone that fails is left.
MakeCloneWrong(p) ==
    LET q == pr[p] IN
    /\ q.at = "cClone"
    /\ \E o \in Ends(q) :
          After(p, o, IF o.r = "ok" THEN Go(q, "cProv") ELSE Raised(q))
    /\ Quiet

MakeClone(p) ==
    LET q == pr[p] IN
    /\ q.at = "cClone"
    /\ \E o \in Ends(q) :
          After(p, o, IF o.r = "ok" THEN Go(q, "cProv") ELSE [Go(q, "cUndo") EXCEPT !.err = o.r])
    /\ Quiet

\* What the failed clone made is removed; the error of the clone is raised.
UndoSnapshot(p) ==
    LET q == pr[p] IN
    /\ q.at = "cUndo"
    /\ \E o \in Ends(q) :
          /\ After(p, o, IF q.err = "exists" THEN [Go(q, "taken") EXCEPT !.err = "ok"]
                         ELSE Raised(q))
          /\ Blamed(OwnSnap(q), Wrong(o))
          /\ UNCHANGED <<conf, clock, late, forgot>>

\* alloc_image and clone_image try another name, when the VM has one left.
NextName(p) ==
    LET q == pr[p] IN
    /\ q.at = "taken"
    /\ \/ \E c \in Vol : Free(p, c) /\ c # q.v /\ c # q.c
             /\ LET new == IF q.op = "create" THEN [q EXCEPT !.v = c] ELSE [q EXCEPT !.c = c] IN
                Read(p, Go(new, "again"))
       \/ Read(p, Raised(q))

\* _find_snapshot_parent goes through the snapshots from the oldest on, and
\* into the clones of each before the next: the first disk with snapshot s.
Parents(a, n, s) ==
    LET early == {t \in SnapNames(a, n) \ Vol :
                     HasSnap(a, n, s) => Position(a, n, t) < Position(a, n, s)}
        clones == Vol \cap UNION {get_snapshot_clones(a, n, t) : t \in early}
        below == UNION {{m} \cup Heirs(a, m) : m \in clones}
        found == {m \in below \cap Vol : HasSnap(a, m, s)} IN
    IF ~Has(a, n) THEN {} ELSE IF found # {} THEN found ELSE IF HasSnap(a, n, s) THEN {n} ELSE {}

\* create_cloned_volume of a snapshot, on the disk found.
FindForClone(p) ==
    LET q == pr[p]
        found == Parents(pool, q.v, q.s) IN
    /\ q.at = "cFind"
    /\ \/ Refused(p, "cFind")
       \/ found = {} /\ Read(p, Raised(q))
       \/ \E n \in found : Read(p, [Go(q, "cFrom") EXCEPT !.n = n])

MakeCloneFrom(p) ==
    LET q == pr[p] IN
    /\ q.at = "cFrom"
    /\ \E o \in Ends(q) :
          After(p, o, CASE o.r = "ok" -> Go(q, "cProv") [] o.r = "exists" -> Go(q, "taken")
                        [] OTHER -> Raised(q))
    /\ Quiet

\* _set_provisioning_thin: the clone stays when it fails.
Provision(p) ==
    LET q == pr[p] IN
    /\ q.at = "cProv"
    /\ Refused(p, "cProv") \/ Read(p, Finish(q, IF Has(pool, q.c) THEN "ok" ELSE "failed"))

-----------------------------------------------------------------------------
(* delete_snapshot and the publication of a snapshot *)

\* An error of the listing counts as: there is no such snapshot.
FindSnapshot(p) ==
    LET q == pr[p]
        found == Parents(pool, q.v, q.s) IN
    /\ q.at = "find"
    /\ \/ Refused(p, "find")
       \/ Errors(q, "find") # {} /\ Read(p, Finish([q EXCEPT !.blind = TRUE, !.errs = @ + 1], "ok"))
       \/ Read(p, IF found = {} THEN Finish(q, "ok") ELSE Go(q, "clones"))

\* A clone of a user makes the snapshot busy, a published one is removed.
SnapshotClones(p) ==
    LET q == pr[p]
        clones == IF HasSnap(pool, q.v, q.s) THEN get_snapshot_clones(pool, q.v, q.s) ELSE {} IN
    /\ q.at = "clones"
    /\ \/ Refused(p, "clones")
       \/ ~HasSnap(pool, q.v, q.s) /\ Read(p, Finish(q, "ok"))
       \/ clones \cap Vol # {} /\ Read(p, Raised(q))
       \/ clones \cap Vol = {} /\ HasSnap(pool, q.v, q.s)
          /\ Read(p, Go(q, IF clones = {} THEN "unsnap" ELSE "unmount"))

RemoveMount(p) ==
    LET q == pr[p] IN
    /\ q.at = "unmount"
    /\ \E o \in Ends(q) :
          After(p, o, IF o.r = "ok" THEN Go(q, "unsnap") ELSE Raised(q))
    /\ Quiet

DeleteSnapshot(p) ==
    LET q == pr[p] IN
    /\ q.at = "unsnap"
    /\ \E o \in Ends(q) :
          After(p, o, Finish(q, IF o.r \in {"ok", "notfound"} THEN "ok" ELSE "failed"))
    /\ Quiet

\* create_export_snapshot; a clone that exists is used as it is.
MakeMount(p) ==
    LET q == pr[p] IN
    /\ q.at = "mClone"
    /\ \E o \in Ends(q) :
          After(p, o, Finish(q, IF o.r \in {"ok", "exists"} THEN "ok" ELSE "failed"))
    /\ Quiet

-----------------------------------------------------------------------------
(* delete_volume; a published snapshot is removed the same way *)

IsLun(p) ==
    LET q == pr[p] IN
    /\ q.at = "isLun"
    /\ \/ Refused(p, "isLun")
       \/ Read(p, IF Has(pool, q.v) THEN [Go(q, "read") EXCEPT !.n = q.v] ELSE Raised(q))

GetLun(p) ==
    LET q == pr[p] IN
    /\ q.at = "read"
    /\ \/ Refused(p, "read")
       \/ Read(p, IF Has(pool, q.n) THEN [Go(q, "del") EXCEPT !.org = pool.zvol[q.n].origin]
                  ELSE Finish(q, "ok"))

\* Wrong: the snapshot goes whoever made it.
DeletedWrong(q) == IF q.org # None THEN Go(q, "origin") ELSE Finish(q, "ok")

\* The snapshot of a clone goes with the clone; a snapshot of a user stays.
Deleted(q) == IF q.org # None /\ q.org[2] \in Vol THEN Go(q, "origin") ELSE Finish(q, "ok")

\* With the cascade a volume that is busy counts as deleted.
DeleteLun(p) ==
    LET q == pr[p] IN
    /\ q.at = "del"
    /\ \E o \in Ends(q) :
          /\ After(p, o, CASE o.r \in {"ok", "busy"} -> Deleted(q)
                           [] o.r = "cfg" /\ q.tries < 2 -> [Go(q, "read") EXCEPT !.tries = @ + 1]
                           [] OTHER -> Raised(q))
          /\ Blamed({q.org} \ {None}, Wrong(o))
    /\ UNCHANGED <<conf, clock, late, forgot>>

DeleteOrigin(p) ==
    LET q == pr[p] IN
    /\ q.at = "origin"
    /\ \E o \in Ends(q) :
          /\ After(p, o, CASE o.r \in {"ok", "notfound"} -> Finish(q, "ok")
                           [] o.r = "busy" -> Go(q, "deps") [] OTHER -> Raised(q))
          /\ Blamed({q.org}, Wrong(o))
          /\ UNCHANGED <<conf, clock, late, forgot>>

\* What depends on the volume: clones of users keep it, publications go.
Dependencies(p) ==
    LET q == pr[p]
        deps == IF Has(pool, q.n) THEN Dependents(pool, q.n) ELSE {} IN
    /\ q.at = "deps"
    /\ \/ Refused(p, "deps")
       \/ deps \cap Vol # {} /\ Read(p, Raised(q))
       \/ deps = {} /\ Read(p, Go(q, "read"))
       \/ deps \cap Vol = {} /\ \E m \in deps :
             \E o \in Answers(q, "clean", LAMBDA a : delete_lun(a, m, TRUE)) :
                After(p, o, IF o.r = "ok" THEN q ELSE Raised(q)) /\ Quiet

-----------------------------------------------------------------------------
(* rollback and rename_volume *)

\* The snapshots of disk n from its i-th on, but for s.
Since(a, n, s, i) == {a.zvol[n].snaps[j].name : j \in i..Len(a.zvol[n].snaps)} \ {s}

\* Wrong: the first newer snapshot is forgotten.
ListedWrong(a, n, s) == {Since(a, n, s, Position(a, n, s) + 2)}

\* What may be taken for newer than s: the time of s, as the array shows it, is
\* compared with times in the zone of the node.  Behind the array, snapshots that
\* were soon made after s are left out; ahead of it, some made before count too.
Listed(a, n, s) ==
    LET at == Position(a, n, s) IN
    {Since(a, n, s, i) : i \in CASE Zone = "same" -> {at + 1}
                                [] Zone = "behind" -> at + 1..Len(a.zvol[n].snaps) + 1
                                [] Zone = "ahead" -> 1..at + 1}

\* The clones of what is listed are looked up as well.
RollbackList(p) ==
    LET q == pr[p] IN
    /\ q.at = "rList"
    /\ \/ Refused(p, "rList")
       \/ ~HasSnap(pool, q.v, q.s) /\ Read(p, Raised(q))
       \/ /\ HasSnap(pool, q.v, q.s)
          /\ \E S \in Listed(pool, q.v, q.s) :
                Read(p, IF \E t \in S : get_snapshot_clones(pool, q.v, t) # {} THEN Raised(q)
                        ELSE [Go(q, "rDo") EXCEPT !.gone = S])

\* The plugin takes the snapshots named in the answer out of the VM config.
Rollback(p) ==
    LET q == pr[p] IN
    /\ q.at = "rDo"
    /\ \E o \in Ends(q) :
          /\ After(p, o, Finish(q, IF o.r = "ok" THEN "ok" ELSE "failed"))
          /\ conf' = [conf EXCEPT ![q.v] = IF o.r = "ok" THEN @ \ q.gone ELSE @]
          /\ forgot' = IF o.r = "ok" THEN forgot ELSE forgot \cup {pool.zvol[q.v].id}
          /\ UNCHANGED <<clock, late, blame>>

\* The new name is there already: the command was run before, when it is the
\* same disk.
NewName(p) ==
    LET q == pr[p] IN
    /\ q.at = "nNew"
    /\ \/ Errors(q, "nNew") # {} /\ Read(p, [Go(q, "nOld") EXCEPT !.errs = @ + 1])
       \/ Read(p, IF ~Has(pool, q.c) THEN Go(q, "nOld")
                  ELSE Finish(q, IF pool.zvol[q.c].id = q.id THEN "ok" ELSE "failed"))

OldName(p) ==
    LET q == pr[p] IN
    /\ q.at = "nOld"
    /\ \/ Refused(p, "nOld")
       \/ Read(p, IF Has(pool, q.v) /\ pool.zvol[q.v].id = q.id THEN Go(q, "nDo") ELSE Raised(q))

\* Wrong: the rename is not confirmed.
RenameWrong(p) ==
    LET q == pr[p] IN
    /\ q.at = "nDo"
    /\ \E o \in Ends(q) :
          After(p, o, IF o.r \in {"ok", "cfg"} THEN Finish(q, "ok") ELSE Raised(q))
    /\ Quiet

\* An error of the array's configuration is left to the confirmation.
Rename(p) ==
    LET q == pr[p] IN
    /\ q.at = "nDo"
    /\ \E o \in Ends(q) :
          After(p, o, IF o.r \in {"ok", "cfg"} THEN Go(q, "nConfirm") ELSE Raised(q))
    /\ Quiet

\* is_lun of the new name, up to 51 times.
Confirm(p) ==
    LET q == pr[p] IN
    /\ q.at = "nConfirm"
    /\ Read(p, Finish(q, IF Has(pool, q.c) THEN "ok" ELSE "failed"))

-----------------------------------------------------------------------------
(* The ends of methods, kills, and what happens beside them *)

End(p) ==
    /\ pr[p].at = "done"
    /\ pr' = [pr EXCEPT ![p] = [NoRun EXCEPT !.errs = pr[p].errs]] /\ UNCHANGED pool /\ Quiet

\* A call that is under way when its process is killed.
Request(q) == [NoRun EXCEPT !.at = q.at, !.v = q.v, !.s = q.s, !.c = q.c]

\* run_command kills jdssc at the timeout; the array may execute its call at
\* once, later or never.  joviandss_cmd runs it again, but for the creation of
\* a snapshot.
Kill(p) ==
    LET q == pr[p]
        again == [NoRun EXCEPT !.op = q.op, !.at = "again", !.v = q.v, !.s = q.s, !.c = q.c,
                               !.n = IF q.op = "unmount" THEN q.n ELSE None, !.id = q.id,
                               !.seen = q.seen, !.errs = q.errs + 1] IN
    /\ Running(p) /\ q.at \in Killable /\ Frail
    /\ \E a \in {pool, Call(q, pool).a} :
          Set(p, a, IF q.op = "snap" THEN [Raised(q) EXCEPT !.errs = @ + 1] ELSE again)
    /\ late' \in {late} \cup (IF q.at \in LateCalls THEN {late \cup {Request(q)}} ELSE {})
    /\ Blamed(CASE q.op = "clone" -> OwnSnap(q) [] q.at \in {"del", "origin"} -> {q.org} \ {None}
                [] OTHER -> {}, TRUE)
    /\ forgot' = forgot \cup (IF q.op = "rollback" /\ Has(pool, q.v) THEN {pool.zvol[q.v].id} ELSE {})
    /\ UNCHANGED <<conf, clock>>

Deliver(r) ==
    LET o == Call(r, pool) IN
    /\ pool' = o.a /\ pr' = Watch(o.a, pr) /\ late' = late \ {r}
    /\ Blamed({<<pool.zvol[r.v].id, IF r.at = "snap" THEN r.s ELSE r.c>>},
              r.at # "cClone" /\ Has(pool, r.v))
    /\ UNCHANGED <<conf, clock, forgot>>

\* A request that never arrives.
Lose(r) == late' = late \ {r} /\ UNCHANGED <<pool, conf, clock, pr, blame, forgot>>

\* A guest writes, but not while its disk is rolled back or being made.
Write(v) ==
    /\ Has(pool, v) /\ clock < MaxWrites
    /\ \A p \in Proc : pr[p].op \in {"rollback", "clone", "cloneSnap"} => v \notin Locked(pr[p])
    /\ clock' = clock + 1
    /\ pool' = [pool EXCEPT !.zvol[v].data = clock']
    /\ pr' = Watch(pool', pr)
    /\ UNCHANGED <<conf, late, blame, forgot>>

-----------------------------------------------------------------------------
Init ==
    /\ pool = [zvol |-> [n \in Name |-> None], made |-> 0]
    /\ conf = [v \in Vol |-> {}]
    /\ clock = 0
    /\ pr = [p \in Proc |-> NoRun]
    /\ late = {} /\ blame = {} /\ forgot = {}

Step(p) ==
    \/ CreateLun(p) \/ ListSnapshots(p) \/ CreateSnapshot(p) \/ CloneSnapshot(p) \/ ClearSnapshot(p)
    \/ MakeClone(p) \/ UndoSnapshot(p) \/ NextName(p) \/ FindForClone(p) \/ MakeCloneFrom(p)
    \/ Provision(p) \/ FindSnapshot(p) \/ SnapshotClones(p) \/ RemoveMount(p) \/ DeleteSnapshot(p)
    \/ MakeMount(p) \/ IsLun(p) \/ GetLun(p) \/ DeleteLun(p) \/ DeleteOrigin(p) \/ Dependencies(p)
    \/ RollbackList(p) \/ Rollback(p) \/ NewName(p) \/ OldName(p) \/ Rename(p) \/ Confirm(p)

Next ==
    \/ \E p \in Proc : Begin(p) \/ Run(p) \/ Step(p) \/ Kill(p) \/ End(p)
    \/ \E r \in late : Deliver(r) \/ Lose(r)
    \/ \E v \in Vol : Write(v)

Spec == Init /\ [][Next]_vars

-----------------------------------------------------------------------------
Ended(p, op) == pr[p].at = "done" /\ pr[p].op = op /\ pr[p].res = "ok"

\* A clone that reports success holds what was asked for: the data its source
\* had at some time while the clone was made (driver.py _clone_object, whatever
\* an earlier run left), or the snapshot named on the disk named.
CloneHolds ==
    \A p \in Proc : LET q == pr[p] IN
        /\ Ended(p, "clone") => Has(pool, q.c) /\ pool.zvol[q.c].data \in q.seen
        /\ Ended(p, "cloneSnap") =>
              /\ Has(pool, q.c)
              /\ Has(pool, q.v) => pool.zvol[q.c].origin = <<pool.zvol[q.v].id, q.s>>

\* A command that reports success has done its work, also when it was run a
\* second time, answered late, or an error was taken for an answer: nothing it
\* should have made is missing and nothing it should have removed is left
\* (deletions aside that found a disk in use, or could not list snapshots).
Kept ==
    \A p \in Proc : LET q == pr[p] IN
        /\ Ended(p, "create") => Has(pool, q.v)
        /\ Ended(p, "snap") => HasSnap(pool, q.v, q.s)
        /\ Ended(p, "delsnap") => q.blind \/ ~HasSnap(pool, q.v, q.s)
        /\ Ended(p, "mount") => pool.zvol[<<q.v, q.s>>].origin = <<pool.zvol[q.v].id, q.s>>
        /\ Ended(p, "destroy") => ~Has(pool, q.v) \/ Dependents(pool, q.v) # {}
        /\ Ended(p, "rename") => ~Has(pool, q.v) /\ Has(pool, q.c) /\ pool.zvol[q.c].id = q.id
        /\ Ended(p, "rollback") =>
              /\ HasSnap(pool, q.v, q.s)
              /\ pool.zvol[q.v].data = pool.zvol[q.v].snaps[Position(pool, q.v, q.s)].data

\* The snapshot a clone was made from goes when the clone fails and when the
\* clone is deleted: one that no disk uses is left only by a call that failed
\* or a run that was killed.
Explained ==
    \A n, c \in Vol : HasSnap(pool, n, c) =>
        \/ get_snapshot_clones(pool, n, c) # {}
        \/ <<pool.zvol[n].id, c>> \in blame
        \/ \E p \in Proc : \/ pr[p].op = "clone" /\ pr[p].v = n /\ pr[p].c = c
                           \/ pr[p].org = <<pool.zvol[n].id, c>>

\* A VM config offers no snapshot that the array does not have, unless a
\* rollback of the disk was killed or failed (Plugin.pm _volume_snapshot_rollback).
\* The rollback takes the names to clean up from the list it made before.
ConfigFollows ==
    \A v \in Vol : \A s \in conf[v] :
        Has(pool, v) /\ (HasSnap(pool, v, s) \/ pool.zvol[v].id \in forgot)

\* Disk id loses its snapshot s.
Vanishes(id, s) ==
    /\ \E v \in Vol : Has(pool, v) /\ pool.zvol[v].id = id /\ s \in SnapNames(pool, v)
    /\ \E v \in Vol : Has(pool, v)' /\ pool'.zvol[v].id = id /\ s \notin SnapNames(pool', v)

\* No command destroys what it was not asked to: a disk goes only by its own
\* deletion; a snapshot of a user only by its own deletion, or as a newer one in
\* a rollback of its disk.  The clean-ups of clones, publications and failed
\* commands never reach them.
OnlyNamed ==
    [][/\ \A v \in Vol : Has(pool, v) /\ ~Lives(pool', pool.zvol[v].id) =>
             \E p \in Proc : pr[p].op = "destroy" /\ pr[p].v = v
       /\ \A v \in Vol, s \in Snap : Has(pool, v) /\ Vanishes(pool.zvol[v].id, s) =>
             \E p \in Proc : /\ pr[p].v = v
                             /\ \/ pr[p].op = "delsnap" /\ pr[p].s = s
                                \/ pr[p].op = "rollback" /\ s \in Newer(pool, v, pr[p].s)]_vars
=============================================================================
