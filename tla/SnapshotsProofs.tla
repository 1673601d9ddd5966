---------------------------- MODULE SnapshotsProofs ----------------------------
(***************************************************************************)
(* Proofs about Snapshots, for all processes, disks and snapshots, any     *)
(* faults, kills, second answers and late requests.                        *)
(***************************************************************************)
EXTENDS SnapshotsCalls

-----------------------------------------------------------------------------
(* The methods: their steps, and the arguments they have at each.          *)

Steps(op) ==
    CASE op = "none" -> {"idle"}
      [] op = "create" -> {"again", "mkvol", "taken", "done"}
      [] op = "snap" -> {"again", "list", "snap", "done"}
      [] op = "delsnap" -> {"again", "find", "clones", "unmount", "unsnap", "done"}
      [] op = "clone" -> {"again", "cSnap", "cClear", "cAgain", "cClone", "cUndo", "taken", "cProv",
                          "done"}
      [] op = "cloneSnap" -> {"again", "cFind", "cFrom", "taken", "cProv", "done"}
      [] op = "destroy" -> {"again", "isLun", "read", "del", "origin", "deps", "done"}
      [] op = "mount" -> {"again", "mClone", "done"}
      [] op = "unmount" -> {"again", "read", "del", "origin", "deps", "done"}
      [] op = "rollback" -> {"again", "rList", "rDo", "done"}
      [] op = "rename" -> {"again", "nNew", "nOld", "nDo", "nConfirm", "done"}

Ats == UNION {Steps(op) : op \in Commands \cup {"none"}}

RunType == [op : Commands \cup {"none"}, at : Ats, v : Vol \cup {None}, s : Snap \cup {None},
            c : Vol \cup {None}, n : Name \cup {None}, id : Nat, org : Origin \cup {None},
            gone : SUBSET (Vol \cup Snap), seen : SUBSET Nat, err : Results, blind : BOOLEAN,
            tries : Nat, errs : Nat, res : {"ok", "failed"}]

Args(q) ==
    /\ q.op # "none" => q.v \in Vol
    /\ q.op \in {"snap", "delsnap", "cloneSnap", "mount", "unmount", "rollback"} => q.s \in Snap
    /\ q.op \in {"clone", "cloneSnap", "rename"} => q.c \in Vol /\ q.c # q.v
    /\ q.op = "unmount" /\ q.at # "done" => q.n = <<q.v, q.s>>
    /\ q.op = "destroy" /\ q.at \in {"read", "del", "origin", "deps"} => q.n = q.v
    /\ q.at = "cFrom" => q.n \in Vol
    /\ q.at = "origin" => q.org \in Nat \X Vol

Task(q) == q \in RunType /\ q.at \in Steps(q.op) /\ Args(q)

\* r is q, but for what it has seen and the failures it has had.
Like(r, q) ==
    /\ r.op = q.op /\ r.at = q.at /\ r.v = q.v /\ r.s = q.s /\ r.c = q.c /\ r.n = q.n
    /\ r.id = q.id /\ r.org = q.org /\ r.gone = q.gone /\ r.err = q.err /\ r.blind = q.blind
    /\ r.tries = q.tries /\ r.res = q.res

\* A request of a killed process.
Late(r) ==
    /\ r.at \in LateCalls /\ r.v \in Vol
    /\ r.at = "snap" => r.s \in Snap
    /\ r.at # "snap" => r.c \in Vol /\ r.c # r.v

Types ==
    /\ Proper(pool)
    /\ conf \in [Vol -> SUBSET Snap]
    /\ clock \in Nat
    /\ DOMAIN pr = Proc /\ \A p \in Proc : Task(pr[p])
    /\ \A r \in late : Late(r)

LEMMA TaskFits == ASSUME NEW q, Task(q) PROVE Fit(q)
BY SnapshotsAssumption DEF Task, Args, Fit, Steps, RunType, Commands, Name, Mount

LEMMA LateFits == ASSUME NEW r, Late(r) PROVE Fit(r)
BY SnapshotsAssumption DEF Late, Fit

\* What the tasks of a method have in common.
Rest(r, q) ==
    /\ r.op = q.op /\ r.v = q.v /\ r.s = q.s /\ r.c = q.c
    /\ q.op = "rename" => r.id = q.id

LEMMA NoRunIs == Task(NoRun) /\ NoRun.op = "none" /\ NoRun.at = "idle" /\ NoRun.org = None
<1>1. "idle" \in Steps("none") /\ "idle" \in Ats
  BY DEF Steps, Ats
<1>2. "ok" \in Results /\ FALSE \in BOOLEAN
  BY DEF Results
<1>3. NoRun \in RunType
  BY <1>1, <1>2 DEF RunType, NoRun
<1>4. NoRun.op = "none" /\ NoRun.at = "idle" /\ NoRun.org = None
  BY DEF NoRun
<1> HIDE DEF NoRun
<1> QED BY <1>1, <1>3, <1>4 DEF Task, Args

LEMMA NoTask ==
    ASSUME NEW k \in Nat, NEW q, q = [NoRun EXCEPT !.errs = k]
    PROVE  Task(q) /\ q.op = "none" /\ q.at = "idle" /\ q.org = None
<1> HIDE DEF NoRun
<1>1. q \in RunType /\ q.op = "none" /\ q.at = "idle" /\ q.org = None
  BY NoRunIs DEF Task, RunType
<1> QED BY <1>1, NoRunIs DEF Task, Args

\* What Watch changes.
LEMMA WatchIs ==
    ASSUME NEW a, Proper(a), NEW f, DOMAIN f = Proc, \A p \in Proc : Task(f[p]), NEW p \in Proc
    PROVE  /\ Like(Watch(a, f)[p], f[p]) /\ Task(Watch(a, f)[p])
           /\ DOMAIN Watch(a, f) = Proc
           /\ f[p].seen \subseteq Watch(a, f)[p].seen
           /\ f[p].op = "clone" /\ f[p].at # "done" /\ Has(a, f[p].v) =>
                 a.zvol[f[p].v].data \in Watch(a, f)[p].seen
<1> DEFINE q == f[p]
           r == Watch(a, f)[p]
<1>1. r = IF q.op = "clone" /\ q.at # "done" /\ Has(a, q.v)
          THEN [q EXCEPT !.seen = @ \cup {a.zvol[q.v].data}] ELSE q
  BY DEF Watch
<1>2. Task(q) /\ q \in RunType
  BY DEF Task
<1>3. DOMAIN Watch(a, f) = Proc
  BY DEF Watch
<1> HIDE DEF q, r
<1>4. CASE q.op = "clone" /\ q.at # "done" /\ Has(a, q.v)
  <2> DEFINE d == a.zvol[q.v].data
             S == q.seen \cup {d}
  <2>1. q.v \in Name /\ a \in PoolType
    BY <1>2, <1>4 DEF Task, Args, Name, Proper
  <2>2. d \in Nat
    BY <1>4, <2>1, ZvolIs
  <2>3. r = [q EXCEPT !.seen = S]
    BY <1>1, <1>4
  <2>4. S \in SUBSET Nat
    BY <1>2, <2>2 DEF RunType
  <2>5. q.seen \subseteq S /\ d \in S
    OBVIOUS
  <2> HIDE DEF S, d
  <2>6. r \in RunType /\ r.seen = S /\ Like(r, q)
    BY <1>2, <2>3, <2>4 DEF RunType, Like
  <2>7. Task(r)
    BY <1>2, <2>6 DEF Task, Args, Like
  <2> QED BY <1>3, <2>5, <2>6, <2>7 DEF q, r, d
<1>5. CASE ~(q.op = "clone" /\ q.at # "done" /\ Has(a, q.v))
  <2>1. r = q
    BY <1>1, <1>5
  <2> QED BY <1>2, <1>3, <1>5, <2>1 DEF Like, q, r
<1> QED BY <1>4, <1>5

LEMMA LikeTask == ASSUME NEW q, NEW r, NEW x, Like(r, q), Like(q, x) PROVE Like(r, x)
BY DEF Like

\* A clone in progress has seen what its source contains.
Seeing ==
    \A p \in Proc : LET q == pr[p] IN
        q.op = "clone" /\ q.at # "done" /\ Has(pool, q.v) => pool.zvol[q.v].data \in q.seen

\* A method becomes q, the pool a.
Becomes(p, a, q) ==
    /\ pool' = a /\ DOMAIN pr' = Proc /\ Task(pr'[p]) /\ Like(pr'[p], q)
    /\ q.seen \subseteq pr'[p].seen /\ Seeing'
    /\ \A o \in Proc \ {p} :
          Task(pr'[o]) /\ Like(pr'[o], pr[o]) /\ pr[o].seen \subseteq pr'[o].seen

LEMMA SetIs ==
    ASSUME Types, NEW p \in Proc, NEW a, Proper(a), NEW q, Task(q), Set(p, a, q)
    PROVE  Becomes(p, a, q)
<1> DEFINE f == [pr EXCEPT ![p] = q]
<1>1. DOMAIN f = Proc /\ f[p] = q /\ \A o \in Proc \ {p} : f[o] = pr[o]
  BY DEF Types
<1>2. \A o \in Proc : Task(f[o])
  BY <1>1 DEF Types
<1>3. pool' = a /\ pr' = Watch(a, f)
  BY DEF Set
<1> HIDE DEF f
<1>4. \A o \in Proc : /\ Like(pr'[o], f[o]) /\ Task(pr'[o]) /\ DOMAIN pr' = Proc
                      /\ f[o].seen \subseteq pr'[o].seen
  BY <1>1, <1>2, <1>3, WatchIs
<1>5. Seeing'
  <2>1. \A o \in Proc : f[o].op = "clone" /\ f[o].at # "done" /\ Has(a, f[o].v) =>
            a.zvol[f[o].v].data \in pr'[o].seen
    BY <1>1, <1>2, <1>3, WatchIs
  <2> QED BY <1>3, <1>4, <2>1 DEF Seeing, Like
<1> QED BY <1>1, <1>3, <1>4, <1>5 DEF Becomes

\* An error that is counted.
LEMMA CountIs ==
    ASSUME NEW q, Task(q), NEW r, r = [q EXCEPT !.errs = @ + 1]
    PROVE  Task(r) /\ Like(r, q) /\ r.seen = q.seen
<1> DEFINE k == q.errs + 1
<1>1. k \in Nat
  BY DEF Task, RunType
<1>2. r = [q EXCEPT !.errs = k]
  OBVIOUS
<1> HIDE DEF k
<1>3. r \in RunType /\ Like(r, q) /\ r.seen = q.seen
  BY <1>1, <1>2 DEF Task, RunType, Like
<1> QED BY <1>3 DEF Task, Args, Like

LEMMA AfterIs ==
    ASSUME Types, NEW p \in Proc, NEW o, Proper(o.a), NEW q, Task(q), After(p, o, q)
    PROVE  Becomes(p, o.a, q)
<1> DEFINE r == Felt(q, o)
<1>1. Task(r) /\ Like(r, q) /\ r.seen = q.seen
  <2>1. CASE Wrong(o)
    BY <2>1, CountIs DEF Felt
  <2>2. CASE ~Wrong(o)
    BY <2>2 DEF Felt, Like
  <2> QED BY <2>1, <2>2
<1>2. Set(p, o.a, r)
  BY DEF After
<1> HIDE DEF r
<1>3. Becomes(p, o.a, r)
  BY <1>1, <1>2, SetIs
<1>4. Like(pr'[p], q)
  BY <1>1, <1>3, LikeTask DEF Becomes
<1> QED BY <1>1, <1>3, <1>4 DEF Becomes, Like

\* The next step, and the end, of a method.
LEMMA GoIs ==
    ASSUME NEW q, Task(q), NEW at \in Steps(q.op), q.op # "none", NEW r, r = Go(q, at),
           q.op = "unmount" => q.at # "done",
           q.op = "destroy" /\ at \in {"read", "del", "origin", "deps"} => q.n = q.v,
           at = "cFrom" => q.n \in Vol, at = "origin" => q.org \in Nat \X Vol
    PROVE  /\ Task(r) /\ r.at = at /\ Rest(r, q) /\ r.n = q.n /\ r.id = q.id /\ r.org = q.org
           /\ r.gone = q.gone /\ r.seen = q.seen /\ r.err = q.err /\ r.blind = q.blind
           /\ r.tries = q.tries /\ r.res = q.res
<1>1. at \in Ats
  BY DEF Task, RunType, Ats
<1>2. /\ r.at = at /\ Rest(r, q) /\ r.n = q.n /\ r.id = q.id /\ r.org = q.org
      /\ r.gone = q.gone /\ r.seen = q.seen /\ r.err = q.err /\ r.blind = q.blind
      /\ r.tries = q.tries /\ r.res = q.res
  BY DEF Go, Rest, Task, RunType
<1>3. r \in RunType
  BY <1>1 DEF Go, Task, RunType
<1>4. Args(r)
  BY <1>2 DEF Task, Args, Rest
<1> QED BY <1>2, <1>3, <1>4 DEF Task, Rest

LEMMA FinishIs ==
    ASSUME NEW q, Task(q), q.op # "none", NEW x \in {"ok", "failed"}, NEW r, r = Finish(q, x)
    PROVE  /\ Task(r) /\ r.at = "done" /\ Rest(r, q) /\ r.org = None /\ r.res = x
           /\ r.seen = q.seen /\ r.gone = q.gone /\ r.blind = q.blind
           /\ q.op = "rename" => r.id = q.id
<1> DEFINE i == IF q.op = "rename" THEN q.id ELSE 0
<1>1. "done" \in Steps(q.op)
  BY DEF Task, RunType, Commands, Steps
<1>2. "done" \in Ats
  BY <1>1 DEF Task, RunType, Ats
<1>3. i \in Nat /\ "ok" \in Results
  BY DEF Task, RunType, Results
<1>4. r = [q EXCEPT !.at = "done", !.res = x, !.n = None, !.org = None, !.err = "ok",
                    !.id = i, !.tries = 0]
  BY DEF Finish
<1>5. q.op = "rename" => i = q.id
  OBVIOUS
<1> HIDE DEF i
<1>6. /\ r.at = "done" /\ Rest(r, q) /\ r.org = None /\ r.res = x
      /\ r.seen = q.seen /\ r.gone = q.gone /\ r.blind = q.blind /\ r.id = i
  BY <1>4, <1>5 DEF Rest, Task, RunType
<1>7. r \in RunType
  <2> DEFINE y == [q EXCEPT !.at = "done", !.res = x, !.n = None, !.org = None]
             z == [y EXCEPT !.err = "ok", !.tries = 0]
  <2>1. y \in RunType
    BY <1>2 DEF Task, RunType
  <2>2. r = [z EXCEPT !.id = i]
    BY <1>4
  <2>3. z \in RunType
    <3> HIDE DEF y
    <3> QED BY <1>3, <2>1 DEF RunType
  <2> HIDE DEF y, z
  <2> QED BY <1>3, <2>2, <2>3 DEF RunType
<1>8. Args(r)
  BY <1>6 DEF Task, Args, Rest
<1> QED BY <1>1, <1>5, <1>6, <1>7, <1>8 DEF Task, Rest

-----------------------------------------------------------------------------
(* The steps of the methods.                                               *)

\* The work of q is done, but for deletions in the array and the provisioning.
Worked(q) ==
    \/ q.at = "done" /\ q.res = "ok"
    \/ q.at = "origin" /\ q.op = "destroy"
    \/ q.at = "cProv" /\ q.op = "cloneSnap"

\* What pool a is like when q has done its work.
Work(a, q) ==
    /\ q.op = "create" => Has(a, q.v)
    /\ q.op = "snap" => HasSnap(a, q.v, q.s)
    /\ q.op = "delsnap" => q.blind \/ ~HasSnap(a, q.v, q.s)
    /\ q.op = "mount" => Has(a, <<q.v, q.s>>)
    /\ q.op = "destroy" => ~Has(a, q.v) \/ Dependents(a, q.v) # {}
    /\ q.op \in {"rename", "clone", "cloneSnap"} => Has(a, q.c)
    /\ q.op = "cloneSnap" => a.zvol[q.c].origin \in Nat \X {q.s}
    /\ q.op = "rollback" => HasSnap(a, q.v, q.s) /\ a.zvol[q.v].data = CopyOf(a, q.v, q.s).data

\* What every step of a method has in common.
Stepped(p) ==
    /\ DOMAIN pr' = Proc /\ \A o \in Proc : Task(pr'[o])
    /\ \A o \in Proc \ {p} : Like(pr'[o], pr[o])
    /\ Moves(pr[p], pool, pool')
    /\ Running(p)
    /\ pr'[p].op = pr[p].op /\ pr'[p].s = pr[p].s
    /\ pr[p].op = "rename" => pr'[p].id = pr[p].id
    /\ pr[p].at # "taken" => pr'[p].v = pr[p].v /\ pr'[p].c = pr[p].c
    /\ clock' = clock /\ late' = late /\ blame \subseteq blame' /\ forgot \subseteq forgot'
    /\ conf' \in [Vol -> SUBSET Snap]
    /\ pr[p].at \notin {"snap", "rDo"} => conf' = conf
    /\ Seeing'
    /\ (Worked(pr[p]) => Work(pool, pr[p])) /\ Worked(pr'[p]) => Work(pool', pr'[p])

LEMMA LikeWork ==
    ASSUME NEW a, NEW q, NEW r, Like(r, q)
    PROVE  (Worked(r) <=> Worked(q)) /\ (Work(a, r) <=> Work(a, q))
BY DEF Like, Worked, Work

LEMMA CalledIs ==
    ASSUME Types, NEW p \in Proc, Running(p), NEW o \in Ends(pr[p]),
           NEW q, Task(q), Rest(q, pr[p]), After(p, o, q),
           (Worked(pr[p]) => Work(pool, pr[p])) /\ Worked(q) => Work(o.a, q),
           clock' = clock, late' = late, blame \subseteq blame', forgot \subseteq forgot',
           conf' \in [Vol -> SUBSET Snap], pr[p].at \notin {"snap", "rDo"} => conf' = conf
    PROVE  Stepped(p) /\ pool' = o.a /\ Like(pr'[p], q) /\ q.seen \subseteq pr'[p].seen
<1>1. Task(pr[p]) /\ Fit(pr[p]) /\ Proper(pool)
  BY TaskFits DEF Types
<1>2. Moves(pr[p], pool, o.a) /\ Proper(o.a)
  BY <1>1, EndsAre DEF Moves
<1>3. Becomes(p, o.a, q)
  BY <1>2, AfterIs
<1>4. (Worked(pr[p]) => Work(pool, pr[p])) /\ Worked(pr'[p]) => Work(pool', pr'[p])
  BY <1>3, LikeWork DEF Becomes
<1> QED BY <1>2, <1>3, <1>4 DEF Stepped, Becomes, Like, Rest

LEMMA ReadIs ==
    ASSUME Types, NEW p \in Proc, Running(p), NEW q, Task(q), q.op = pr[p].op, q.s = pr[p].s,
           (Worked(pr[p]) => Work(pool, pr[p])) /\ Worked(q) => Work(pool, q),
           pr[p].at # "taken" => q.v = pr[p].v /\ q.c = pr[p].c,
           pr[p].op = "rename" => q.id = pr[p].id, Read(p, q)
    PROVE  /\ Stepped(p) /\ Like(pr'[p], q) /\ pool' = pool /\ q.seen \subseteq pr'[p].seen
           /\ conf' = conf /\ blame' = blame /\ forgot' = forgot
<1>1. Proper(pool) /\ conf \in [Vol -> SUBSET Snap]
  BY DEF Types
<1>2. Moves(pr[p], pool, pool)
  BY <1>1, MovesNot
<1>3. Becomes(p, pool, q) /\ Quiet
  BY <1>1, SetIs DEF Read
<1>4. (Worked(pr[p]) => Work(pool, pr[p])) /\ Worked(pr'[p]) => Work(pool', pr'[p])
  BY <1>3, LikeWork DEF Becomes
<1> QED BY <1>1, <1>2, <1>3, <1>4 DEF Stepped, Becomes, Like, Quiet

LEMMA RefusedIs ==
    ASSUME Types, NEW p \in Proc, Running(p), pr[p].op # "none", NEW c, Refused(p, c)
    PROVE  /\ Stepped(p) /\ pr'[p].at = "done" /\ pr'[p].res = "failed"
           /\ pr[p].seen \subseteq pr'[p].seen
           /\ pool' = pool /\ conf' = conf /\ blame' = blame /\ forgot' = forgot
<1> DEFINE q == [pr[p] EXCEPT !.errs = @ + 1]
           r == Raised(q)
<1>1. Task(pr[p])
  BY DEF Types
<1>2. Task(q) /\ Like(q, pr[p]) /\ q.seen = pr[p].seen
  BY <1>1, CountIs
<1>3. Read(p, r)
  BY DEF Refused
<1> HIDE DEF q
<1>4. Task(r) /\ r.at = "done" /\ Rest(r, q) /\ r.res = "failed" /\ r.seen = q.seen
  BY <1>2, FinishIs DEF Raised, Like
<1> HIDE DEF r
<1>5. /\ r.op = pr[p].op /\ r.s = pr[p].s /\ r.v = pr[p].v /\ r.c = pr[p].c
      /\ pr[p].op = "rename" => r.id = pr[p].id
  BY <1>2, <1>4 DEF Like, Rest
<1>6. Stepped(p) /\ Like(pr'[p], r) /\ pool' = pool /\ Quiet /\ r.seen \subseteq pr'[p].seen
  BY <1>3, <1>4, <1>5, ReadIs DEF Quiet, Read, Worked
<1> QED BY <1>2, <1>4, <1>6 DEF Like, Quiet

LEMMA CreateLunIs ==
    ASSUME Types, NEW p \in Proc, CreateLun(p)
    PROVE  /\ Stepped(p) /\ pr[p].op = "create" /\ pr[p].at = "mkvol"
           /\ pr'[p].at \in {"done", "taken"}
<1> DEFINE q == pr[p]
<1>1. Task(q) /\ q.op = "create" /\ q.at = "mkvol" /\ Running(p)
  BY DEF Types, CreateLun, Task, Steps, RunType, Commands, Running
<1>2. PICK o \in Ends(q) :
          /\ After(p, o, IF o.r = "ok" THEN Finish(q, "ok")
                         ELSE IF o.r = "exists" THEN Go(q, "taken") ELSE Raised(q))
          /\ Quiet
  BY DEF CreateLun
<1> DEFINE r == IF o.r = "ok" THEN Finish(q, "ok")
                ELSE IF o.r = "exists" THEN Go(q, "taken") ELSE Raised(q)
<1>3. /\ Task(r) /\ Rest(r, q) /\ r.at \in {"done", "taken"}
      /\ r.at = "done" /\ r.res = "ok" => o.r = "ok"
  <2>1. "taken" \in Steps(q.op)
    BY <1>1 DEF Steps
  <2>2. CASE o.r = "ok"
    BY <1>1, <2>2, FinishIs
  <2>3. CASE o.r = "exists"
    BY <1>1, <2>1, <2>3, GoIs
  <2>4. CASE o.r \notin {"ok", "exists"}
    BY <1>1, <2>4, FinishIs DEF Raised
  <2> QED BY <2>2, <2>3, <2>4
<1>4. After(p, o, r) /\ Quiet /\ conf \in [Vol -> SUBSET Snap]
  BY <1>2 DEF Types
<1> HIDE DEF r
<1>5. o.r = "ok" => Has(o.a, q.v)
  <2>1. Fit(q) /\ Proper(pool)
    BY <1>1, TaskFits DEF Types
  <2> QED BY <1>1, <2>1, EndsAre DEF Outcome, Wrong
<1>6. Worked(r) => Work(o.a, r)
  BY <1>1, <1>3, <1>5 DEF Worked, Work, Rest
<1> QED BY <1>1, <1>3, <1>4, <1>6, CalledIs DEF Quiet, Like

LEMMA ListSnapshotsIs ==
    ASSUME Types, NEW p \in Proc, ListSnapshots(p)
    PROVE  /\ Stepped(p) /\ pr[p].at = "list" /\ pr'[p].at \in {"done", "snap"}
           /\ pool' = pool /\ conf' = conf
<1> DEFINE q == pr[p]
<1>1. Task(q) /\ q.op = "snap" /\ q.at = "list" /\ Running(p) /\ "snap" \in Steps(q.op)
  BY DEF Types, ListSnapshots, Task, Steps, RunType, Commands, Running
<1>2. CASE Refused(p, "list")
  BY <1>1, <1>2, RefusedIs
<1>3. CASE Read(p, [Go(q, "snap") EXCEPT !.errs = @ + 1])
  <2> DEFINE r == Go(q, "snap")
             z == [r EXCEPT !.errs = @ + 1]
  <2>1. Task(r) /\ Rest(r, q) /\ r.at = "snap"
    BY <1>1, GoIs
  <2> HIDE DEF r
  <2>2. Task(z) /\ Like(z, r)
    BY <2>1, CountIs
  <2> HIDE DEF z
  <2>3. Rest(z, q) /\ z.at = "snap" /\ Read(p, z)
    BY <1>3, <2>1, <2>2 DEF Like, Rest, z, r
  <2>4. Stepped(p) /\ Like(pr'[p], z) /\ pool' = pool /\ conf' = conf
    BY <1>1, <2>2, <2>3, ReadIs DEF Rest, Worked
  <2> QED BY <1>1, <2>3, <2>4 DEF Like
<1>4. CASE Read(p, Raised(q)) \/ Read(p, Go(q, "snap"))
  <2>1. PICK r \in {Raised(q), Go(q, "snap")} : Read(p, r)
    BY <1>4
  <2>2. Task(r) /\ Rest(r, q) /\ r.at \in {"done", "snap"} /\ (r.at = "done" => r.res # "ok")
    BY <1>1, <2>1, GoIs, FinishIs DEF Raised
  <2>3. Stepped(p) /\ Like(pr'[p], r) /\ pool' = pool /\ conf' = conf
    BY <1>1, <2>1, <2>2, ReadIs DEF Rest, Worked
  <2> QED BY <1>1, <2>2, <2>3 DEF Like
<1> QED BY <1>1, <1>2, <1>3, <1>4 DEF ListSnapshots

\* The config offers what is there.
LEMMA CreateSnapshotIs ==
    ASSUME Types, NEW p \in Proc, CreateSnapshot(p)
    PROVE  /\ Stepped(p) /\ pr[p].op = "snap" /\ pr[p].at = "snap" /\ pr'[p].at = "done"
           /\ \A v \in Vol \ {pr[p].v} : conf'[v] = conf[v]
           /\ \/ conf' = conf
              \/ HasSnap(pool', pr[p].v, pr[p].s)
                 /\ conf'[pr[p].v] = conf[pr[p].v] \cup {pr[p].s}
<1> DEFINE q == pr[p]
<1>1. Task(q) /\ q.op = "snap" /\ q.at = "snap" /\ Running(p) /\ q.v \in Vol /\ q.s \in Snap
  BY DEF Types, CreateSnapshot, Task, Steps, RunType, Commands, Running, Args
<1>2. PICK o \in Ends(q) :
          /\ After(p, o, Finish(q, IF o.r = "ok" THEN "ok" ELSE "failed"))
          /\ conf' = [conf EXCEPT ![q.v] = IF o.r = "ok" THEN @ \cup {q.s} ELSE @]
          /\ UNCHANGED <<clock, late, blame, forgot>>
  BY DEF CreateSnapshot
<1> DEFINE r == Finish(q, IF o.r = "ok" THEN "ok" ELSE "failed")
<1>3. Task(r) /\ Rest(r, q) /\ r.at = "done" /\ (r.res = "ok" => o.r = "ok")
  BY <1>1, FinishIs
<1> HIDE DEF r
<1>4. conf \in [Vol -> SUBSET Snap] /\ conf' \in [Vol -> SUBSET Snap]
  BY <1>1, <1>2 DEF Types
<1>6. o.r = "ok" => HasSnap(o.a, q.v, q.s)
  <2>1. Fit(q) /\ Proper(pool)
    BY <1>1, TaskFits DEF Types
  <2>2. ~Wrong(o) => Outcome(q, o.a, o.r)
    BY <2>1, EndsAre
  <2> QED BY <1>1, <2>2 DEF Outcome, Wrong
<1>9. Worked(r) => Work(o.a, r)
  BY <1>1, <1>3, <1>6 DEF Worked, Work, Rest
<1>5. Stepped(p) /\ pool' = o.a /\ Like(pr'[p], r)
  BY <1>1, <1>2, <1>3, <1>4, <1>9, CalledIs DEF r
<1>7. o.r # "ok" => conf' = conf
  BY <1>1, <1>2, <1>4
<1>8. /\ \A v \in Vol \ {q.v} : conf'[v] = conf[v]
      /\ o.r = "ok" => conf'[q.v] = conf[q.v] \cup {q.s}
  BY <1>1, <1>2, <1>4
<1> QED BY <1>1, <1>3, <1>5, <1>6, <1>7, <1>8 DEF Like

LEMMA BlamedIs ==
    ASSUME NEW S, NEW b, Blamed(S, b)
    PROVE  blame \subseteq blame' /\ (b => S \subseteq blame')
BY DEF Blamed

\* A snapshot is made when there was none.
LEMMA NewlySnapped ==
    ASSUME Proper(pool), NEW q, q.at \in {"cSnap", "cAgain"}, q.v \in Vol, q.c \in Vol,
           NEW o \in Ends(q), o.r = "ok"
    PROVE  ~HasSnap(pool, q.v, q.c)
<1>1. \A x : Call(q, x) = create_snapshot(x, q.v, q.c)
  BY DEF Call
<1>2. \A x : create_snapshot(x, q.v, q.c).r = "ok" => ~HasSnap(x, q.v, q.c)
  BY DEF create_snapshot, Ret, HasSnap
<1> DEFINE b == Call(q, pool).a
<1>3. \/ o = Call(q, pool) \/ o = Call(q, b)
      \/ \E e \in {"error", "cfg"} : \E d \in {pool, b} : o = Ret(d, e)
  <2>1. o \in {Call(q, pool)} \cup (IF q.at \in Lossy THEN {Call(q, b)} ELSE {})
                \cup {Ret(d, e) : d \in {pool, b}, e \in Errors(q, q.at)}
    BY DEF Ends, Answers
  <2>2. Errors(q, q.at) \subseteq {"error", "cfg"}
    BY DEF Errors
  <2> HIDE DEF b
  <2> QED BY <2>1, <2>2
<1>4. HasSnap(pool, q.v, q.c) => b = pool
  <2>1. HasSnap(pool, q.v, q.c) => create_snapshot(pool, q.v, q.c) = Ret(pool, "exists")
    BY DEF create_snapshot, HasSnap
  <2>2. Call(q, pool) = create_snapshot(pool, q.v, q.c) /\ Ret(pool, "exists").a = pool
    BY <1>1 DEF Ret
  <2> QED BY <2>1, <2>2
<1> HIDE DEF b
<1> QED BY <1>1, <1>2, <1>3, <1>4 DEF Ret

\* A call that no error is expected of is answered as asked.
LEMMA RightAnswer ==
    ASSUME Proper(pool), NEW q, Fit(q), NEW o \in Ends(q), q.at = "cClear", q.at \notin Faults
    PROVE  ~Wrong(o)
<1> DEFINE b == Call(q, pool).a
<1>1. Outcome(q, b, Call(q, pool).r) /\ Call(q, b).a = b /\ Proper(b)
  BY CallIs DEF Moves
<1>2. Outcome(q, Call(q, b).a, Call(q, b).r)
  <2> HIDE DEF b
  <2> QED BY <1>1, CallIs
<1>3. o = Call(q, pool) \/ o = Call(q, b)
  <2>1. o \in {Call(q, pool)} \cup (IF q.at \in Lossy THEN {Call(q, b)} ELSE {})
                \cup {Ret(d, e) : d \in {pool, b}, e \in Errors(q, q.at)}
    BY DEF Ends, Answers
  <2>2. Errors(q, q.at) = {}
    BY DEF Errors
  <2> HIDE DEF b
  <2> QED BY <2>1, <2>2
<1>4. o.r \in {"ok", "notfound", "busy"}
  <2> HIDE DEF b
  <2> QED BY <1>1, <1>2, <1>3 DEF Outcome
<1> QED BY <1>4 DEF Wrong

LEMMA CloneSnapshotIs ==
    ASSUME Types, NEW p \in Proc, CloneSnapshot(p)
    PROVE  /\ Stepped(p) /\ pr[p].op = "clone" /\ pr[p].at \in {"cSnap", "cAgain"}
           /\ pr'[p].at \in {"cClone", "cClear", "done"}
           /\ \/ pr'[p].at \in {"cClone", "cClear"} \/ ~Has(pool', pr[p].v)
              \/ OwnSnap(pr[p]) \subseteq blame'
           /\ pr'[p].at = "done" => pr'[p].res = "failed"
           /\ pr[p].seen \subseteq pr'[p].seen
           /\ pr[p].at = "cSnap" /\ pr'[p].at = "cClone" => ~HasSnap(pool, pr[p].v, pr[p].c)
<1> DEFINE q == pr[p]
<1>1. /\ Task(q) /\ q.op = "clone" /\ q.at \in {"cSnap", "cAgain"} /\ Running(p)
      /\ "cClone" \in Steps(q.op) /\ "cClear" \in Steps(q.op) /\ q.v \in Vol /\ q.c \in Vol
  BY DEF Types, CloneSnapshot, Task, Args, Steps, RunType, Commands, Running
<1> DEFINE R(o) == CASE o.r = "ok" \/ q.at = "cAgain" -> Go(q, "cClone")
                     [] o.r = "exists" /\ q.at = "cSnap" -> Go(q, "cClear")
                     [] OTHER -> Raised(q)
<1>2. PICK o \in Ends(q) :
          /\ After(p, o, R(o))
          /\ Blamed(OwnSnap(q), Wrong(o))
          /\ UNCHANGED <<conf, clock, late, forgot>>
  BY DEF CloneSnapshot
<1> DEFINE r == R(o)
<1>3. /\ Task(r) /\ Rest(r, q) /\ r.at \in {"cClone", "cClear", "done"} /\ r.seen = q.seen
      /\ o.r \in {"ok", "exists"} => r.at # "done"
      /\ r.at = "done" => r.res = "failed"
      /\ q.at = "cSnap" /\ r.at = "cClone" => o.r = "ok"
  <2>1. CASE o.r = "ok" \/ q.at = "cAgain"
    BY <1>1, <2>1, GoIs
  <2>2. CASE o.r = "exists" /\ q.at = "cSnap"
    BY <1>1, <2>2, GoIs
  <2>3. CASE ~(o.r = "ok" \/ q.at = "cAgain") /\ ~(o.r = "exists" /\ q.at = "cSnap")
    BY <1>1, <2>3, FinishIs DEF Raised
  <2> QED BY <2>1, <2>2, <2>3
<1>7. After(p, o, r)
  BY <1>2
<1> HIDE DEF r, R
<1>8. /\ blame \subseteq blame' /\ forgot' = forgot /\ clock' = clock /\ late' = late
      /\ conf' = conf /\ conf' \in [Vol -> SUBSET Snap]
  BY <1>2, BlamedIs DEF Types
<1>11. ~Worked(r)
  BY <1>1, <1>3 DEF Worked, Rest
<1>4. Stepped(p) /\ pool' = o.a /\ Like(pr'[p], r) /\ r.seen \subseteq pr'[p].seen
  BY <1>1, <1>3, <1>7, <1>8, <1>11, CalledIs
<1>5. \/ o.r \in {"ok", "exists"} \/ ~Has(pool', q.v) \/ Wrong(o)
  <2>1. Fit(q) /\ Proper(pool)
    BY <1>1, TaskFits DEF Types
  <2>2. ~Wrong(o) => Outcome(q, o.a, o.r)
    BY <2>1, EndsAre
  <2> QED BY <1>1, <1>4, <2>2 DEF Outcome
<1>6. Wrong(o) => OwnSnap(q) \subseteq blame'
  BY <1>2, BlamedIs
<1>9. pr'[p].at = r.at /\ pr'[p].res = r.res
  BY <1>4 DEF Like
<1>10. q.at = "cSnap" /\ o.r = "ok" => ~HasSnap(pool, q.v, q.c)
  BY <1>1, NewlySnapped DEF Types
<1> QED BY <1>1, <1>3, <1>4, <1>5, <1>6, <1>9, <1>10

LEMMA ClearSnapshotIs ==
    ASSUME Types, NEW p \in Proc, ClearSnapshot(p)
    PROVE  /\ Stepped(p) /\ pr[p].op = "clone" /\ pr[p].at = "cClear"
           /\ pr'[p].at \in {"cAgain", "cClone"}
           /\ pr'[p].at = "cAgain" => ~HasSnap(pool', pr[p].v, pr[p].c)
           /\ pr[p].seen \subseteq pr'[p].seen
           /\ \/ "cClear" \in Faults \/ ~HasSnap(pool', pr[p].v, pr[p].c)
              \/ get_snapshot_clones(pool', pr[p].v, pr[p].c) # {}
<1> DEFINE q == pr[p]
<1>1. /\ Task(q) /\ q.op = "clone" /\ q.at = "cClear" /\ Running(p)
      /\ "cClone" \in Steps(q.op) /\ "cAgain" \in Steps(q.op)
  BY DEF Types, ClearSnapshot, Task, Steps, RunType, Commands, Running
<1>2. PICK o \in Ends(q) :
          /\ After(p, o, Go(q, IF o.r = "ok" THEN "cAgain" ELSE "cClone"))
          /\ Blamed(OwnSnap(q), Wrong(o))
          /\ UNCHANGED <<conf, clock, late, forgot>>
  BY DEF ClearSnapshot
<1> DEFINE r == Go(q, IF o.r = "ok" THEN "cAgain" ELSE "cClone")
<1>3. /\ Task(r) /\ Rest(r, q) /\ r.at = IF o.r = "ok" THEN "cAgain" ELSE "cClone"
      /\ After(p, o, r) /\ r.seen = q.seen
  BY <1>1, <1>2, GoIs
<1> HIDE DEF r
<1>4. blame \subseteq blame' /\ conf \in [Vol -> SUBSET Snap]
  BY <1>2, BlamedIs DEF Types
<1>5. Stepped(p) /\ pool' = o.a /\ Like(pr'[p], r) /\ r.seen \subseteq pr'[p].seen
  BY <1>1, <1>2, <1>3, <1>4, CalledIs DEF Worked
<1>6. o.r = "ok" => ~HasSnap(pool', q.v, q.c)
  <2>1. Fit(q) /\ Proper(pool)
    BY <1>1, TaskFits DEF Types
  <2>2. ~Wrong(o) => Outcome(q, o.a, o.r)
    BY <2>1, EndsAre
  <2> QED BY <1>1, <1>5, <2>2 DEF Outcome, Wrong
<1>7. pr'[p].at = r.at
  BY <1>5 DEF Like
<1>8. \/ "cClear" \in Faults \/ ~HasSnap(pool', q.v, q.c)
      \/ get_snapshot_clones(pool', q.v, q.c) # {}
  <2>1. Fit(q) /\ Proper(pool)
    BY <1>1, TaskFits DEF Types
  <2>2. ~Wrong(o) => Outcome(q, o.a, o.r)
    BY <2>1, EndsAre
  <2>3. "cClear" \in Faults \/ ~Wrong(o)
    BY <1>1, <2>1, RightAnswer
  <2> QED BY <1>1, <1>5, <2>2, <2>3 DEF Outcome
<1> QED BY <1>1, <1>3, <1>5, <1>6, <1>7, <1>8

\* Another error.
LEMMA ErrIs ==
    ASSUME NEW q, Task(q), NEW e \in Results, NEW r, r = [q EXCEPT !.err = e]
    PROVE  Task(r) /\ Rest(r, q) /\ r.at = q.at /\ r.seen = q.seen
<1>1. r \in RunType
  BY DEF Task, RunType
<1>2. Rest(r, q) /\ r.at = q.at /\ r.n = q.n /\ r.org = q.org /\ r.seen = q.seen
  BY DEF Task, RunType, Rest
<1> QED BY <1>1, <1>2 DEF Task, Args, Rest

\* A clone is made when there was none.
LEMMA NewlyCloned ==
    ASSUME NEW q, q.at = "cClone", NEW o \in Ends(q), o.r = "ok"
    PROVE  ~Has(pool, q.c)
<1>1. \A x : Call(q, x) = create_volume_from_snapshot(x, q.c, q.v, q.c)
  BY DEF Call
<1>2. \A x : Has(x, q.c) => create_volume_from_snapshot(x, q.c, q.v, q.c) = Ret(x, "exists")
  BY DEF create_volume_from_snapshot
<1> DEFINE b == Call(q, pool).a
<1>3. \/ o = Call(q, pool) \/ o = Call(q, b)
      \/ \E e \in {"error", "cfg"} : \E d \in {pool, b} : o = Ret(d, e)
  <2>1. o \in {Call(q, pool)} \cup (IF q.at \in Lossy THEN {Call(q, b)} ELSE {})
                \cup {Ret(d, e) : d \in {pool, b}, e \in Errors(q, q.at)}
    BY DEF Ends, Answers
  <2>2. Errors(q, q.at) \subseteq {"error", "cfg"}
    BY DEF Errors
  <2> HIDE DEF b
  <2> QED BY <2>1, <2>2
<1>4. Has(pool, q.c) => Call(q, pool).a = pool /\ Call(q, pool).r = "exists"
  <2>1. Has(pool, q.c) => Call(q, pool) = Ret(pool, "exists")
    BY <1>1, <1>2
  <2>2. Ret(pool, "exists").a = pool /\ Ret(pool, "exists").r = "exists"
    BY DEF Ret
  <2> QED BY <2>1, <2>2
<1>5. Has(pool, q.c) => b = pool
  BY <1>4
<1>6. \A e \in {"error", "cfg"} : \A d : Ret(d, e).r # "ok"
  BY DEF Ret
<1> HIDE DEF b
<1> QED BY <1>3, <1>4, <1>5, <1>6

LEMMA MakeCloneIs ==
    ASSUME Types, NEW p \in Proc, MakeClone(p)
    PROVE  /\ Stepped(p) /\ pr[p].op = "clone" /\ pr[p].at = "cClone"
           /\ pr'[p].at \in {"cProv", "cUndo"}
           /\ pr'[p].at = "cProv" =>
                 /\ get_snapshot_clones(pool', pr[p].v, pr[p].c) # {}
                 /\ ~Has(pool, pr[p].c) /\ Has(pool', pr[p].c) /\ HasSnap(pool', pr[p].v, pr[p].c)
                 /\ pool'.zvol[pr[p].c].data = CopyOf(pool', pr[p].v, pr[p].c).data
           /\ pr[p].seen \subseteq pr'[p].seen
<1> DEFINE q == pr[p]
<1>1. /\ Task(q) /\ q.op = "clone" /\ q.at = "cClone" /\ Running(p) /\ q.c \in Name
      /\ "cProv" \in Steps(q.op) /\ "cUndo" \in Steps(q.op)
  BY DEF Types, MakeClone, Task, Args, Steps, RunType, Commands, Running, Name
<1>2. PICK o \in Ends(q) :
          After(p, o, IF o.r = "ok" THEN Go(q, "cProv") ELSE [Go(q, "cUndo") EXCEPT !.err = o.r])
  BY DEF MakeClone
<1> DEFINE r == IF o.r = "ok" THEN Go(q, "cProv") ELSE [Go(q, "cUndo") EXCEPT !.err = o.r]
<1>3. Fit(q) /\ Proper(pool)
  BY <1>1, TaskFits DEF Types
<1>4. o.r \in Results /\ (~Wrong(o) => Outcome(q, o.a, o.r))
  BY <1>3, EndsAre
<1>5. Task(r) /\ Rest(r, q) /\ r.seen = q.seen /\ r.at = IF o.r = "ok" THEN "cProv" ELSE "cUndo"
  <2>1. CASE o.r = "ok"
    BY <1>1, <2>1, GoIs
  <2>2. CASE o.r # "ok"
    <3> DEFINE z == Go(q, "cUndo")
    <3>1. Task(z) /\ Rest(z, q) /\ z.at = "cUndo" /\ z.seen = q.seen
      BY <1>1, GoIs
    <3>2. r = [z EXCEPT !.err = o.r]
      BY <2>2
    <3> HIDE DEF z, r
    <3> QED BY <1>4, <2>2, <3>1, <3>2, ErrIs DEF Rest
  <2> QED BY <2>1, <2>2
<1>6. After(p, o, r)
  BY <1>2
<1> HIDE DEF r
<1>7. Quiet /\ conf \in [Vol -> SUBSET Snap]
  BY DEF MakeClone, Types
<1>11. ~Worked(r)
  BY <1>1, <1>5 DEF Worked, Rest
<1>8. Stepped(p) /\ pool' = o.a /\ Like(pr'[p], r) /\ r.seen \subseteq pr'[p].seen
  BY <1>1, <1>5, <1>6, <1>7, <1>11, CalledIs DEF Quiet
<1>9. o.r = "ok" =>
         /\ get_snapshot_clones(pool', q.v, q.c) # {}
         /\ ~Has(pool, q.c) /\ Has(pool', q.c) /\ HasSnap(pool', q.v, q.c)
         /\ pool'.zvol[q.c].data = CopyOf(pool', q.v, q.c).data
  BY <1>1, <1>4, <1>8, NewlyCloned DEF Outcome, Wrong, get_snapshot_clones
<1>10. pr'[p].at = r.at
  BY <1>8 DEF Like
<1> QED BY <1>1, <1>5, <1>8, <1>9, <1>10

LEMMA UndoSnapshotIs ==
    ASSUME Types, NEW p \in Proc, UndoSnapshot(p)
    PROVE  /\ Stepped(p) /\ pr[p].op = "clone" /\ pr[p].at = "cUndo"
           /\ pr'[p].at \in {"taken", "done"}
           /\ pr'[p].at = "done" => pr'[p].res = "failed"
           /\ \/ ~HasSnap(pool', pr[p].v, pr[p].c)
              \/ get_snapshot_clones(pool', pr[p].v, pr[p].c) # {}
              \/ OwnSnap(pr[p]) \subseteq blame'
<1> DEFINE q == pr[p]
<1>1. /\ Task(q) /\ q.op = "clone" /\ q.at = "cUndo" /\ Running(p) /\ "taken" \in Steps(q.op)
  BY DEF Types, UndoSnapshot, Task, Args, Steps, RunType, Commands, Running, Name
<1>2. PICK o \in Ends(q) :
          /\ After(p, o, IF q.err = "exists" THEN [Go(q, "taken") EXCEPT !.err = "ok"]
                         ELSE Raised(q))
          /\ Blamed(OwnSnap(q), Wrong(o))
          /\ UNCHANGED <<conf, clock, late, forgot>>
  BY DEF UndoSnapshot
<1> DEFINE r == IF q.err = "exists" THEN [Go(q, "taken") EXCEPT !.err = "ok"] ELSE Raised(q)
<1>3. Fit(q) /\ Proper(pool)
  BY <1>1, TaskFits DEF Types
<1>4. ~Wrong(o) => Outcome(q, o.a, o.r)
  BY <1>3, EndsAre
<1>5. Task(r) /\ Rest(r, q) /\ r.at \in {"taken", "done"} /\ (r.at = "done" => r.res = "failed")
  <2>1. CASE q.err = "exists"
    <3> DEFINE z == Go(q, "taken")
    <3>1. Task(z) /\ Rest(z, q) /\ z.at = "taken"
      BY <1>1, GoIs
    <3>2. r = [z EXCEPT !.err = "ok"] /\ "ok" \in Results
      BY <2>1 DEF Results
    <3> HIDE DEF z, r
    <3> QED BY <3>1, <3>2, ErrIs DEF Rest
  <2>2. CASE q.err # "exists"
    BY <1>1, <2>2, FinishIs DEF Raised
  <2> QED BY <2>1, <2>2
<1>6. After(p, o, r)
  BY <1>2
<1> HIDE DEF r
<1>7. /\ blame \subseteq blame' /\ conf \in [Vol -> SUBSET Snap]
      /\ Wrong(o) => OwnSnap(q) \subseteq blame'
  BY <1>2, BlamedIs DEF Types
<1>8. Stepped(p) /\ pool' = o.a /\ Like(pr'[p], r)
  BY <1>1, <1>2, <1>5, <1>6, <1>7, CalledIs DEF Worked
<1>9. \/ ~HasSnap(pool', q.v, q.c)
      \/ get_snapshot_clones(pool', q.v, q.c) # {}
      \/ Wrong(o)
  BY <1>1, <1>4, <1>8 DEF Outcome
<1>10. pr'[p].at = r.at /\ pr'[p].res = r.res
  BY <1>8 DEF Like
<1> QED BY <1>1, <1>5, <1>7, <1>8, <1>9, <1>10

LEMMA NextNameIs ==
    ASSUME Types, NEW p \in Proc, NextName(p)
    PROVE  /\ Stepped(p) /\ pool' = pool /\ conf' = conf /\ blame' = blame
           /\ pr[p].op \in {"create", "clone", "cloneSnap"} /\ pr[p].at = "taken"
           /\ pr'[p].at \in {"again", "done"}
           /\ pr'[p].at = "done" => pr'[p].res = "failed"
           /\ pr[p].op # "create" => pr'[p].v = pr[p].v
           /\ \A o \in Proc \ {p} : Locked(pr'[p]) \cap Locked(pr[o]) \subseteq Locked(pr[p])
<1> DEFINE q == pr[p]
<1>1. /\ Task(q) /\ q.op \in {"create", "clone", "cloneSnap"} /\ q.at = "taken" /\ Running(p)
      /\ "again" \in Steps(q.op)
  BY DEF Types, NextName, Task, Args, Steps, RunType, Commands, Running, Name
<1>2. CASE Read(p, Raised(q))
  <2> DEFINE r == Raised(q)
  <2>1. Task(r) /\ Rest(r, q) /\ r.at = "done" /\ r.res = "failed" /\ Read(p, r)
    BY <1>1, <1>2, FinishIs DEF Raised
  <2> HIDE DEF r
  <2>2. /\ Stepped(p) /\ Like(pr'[p], r) /\ pool' = pool
        /\ conf' = conf /\ blame' = blame
    BY <1>1, <2>1, ReadIs DEF Rest, Worked
  <2>3. Locked(pr'[p]) = Locked(q)
    BY <2>1, <2>2 DEF Locked, Like, Rest
  <2> QED BY <1>1, <2>1, <2>2, <2>3 DEF Like, Rest
<1>3. ASSUME NEW c \in Vol, Free(p, c), c # q.v, c # q.c,
             LET new == IF q.op = "create" THEN [q EXCEPT !.v = c] ELSE [q EXCEPT !.c = c] IN
             Read(p, Go(new, "again"))
      PROVE  /\ Stepped(p) /\ pool' = pool /\ conf' = conf /\ blame' = blame
             /\ pr'[p].at = "again" /\ (pr[p].op # "create" => pr'[p].v = pr[p].v)
             /\ \A o \in Proc \ {p} : Locked(pr'[p]) \cap Locked(pr[o]) \subseteq Locked(pr[p])
  <2> DEFINE new == IF q.op = "create" THEN [q EXCEPT !.v = c] ELSE [q EXCEPT !.c = c]
             r == Go(new, "again")
  <2>1. /\ Task(new) /\ new.at = "taken" /\ new.op = q.op /\ new.s = q.s
        /\ IF q.op = "create" THEN new.v = c ELSE new.v = q.v /\ new.c = c
    <3>1. new \in RunType
      BY <1>1 DEF Task, RunType
    <3>2. /\ new.at = q.at /\ new.op = q.op /\ new.s = q.s /\ new.n = q.n /\ new.org = q.org
          /\ IF q.op = "create" THEN new.v = c ELSE new.v = q.v /\ new.c = c
      BY <1>1 DEF Task, RunType
    <3> HIDE DEF new
    <3>3. Args(new)
      BY <1>1, <1>3, <3>2 DEF Task, Args
    <3> QED BY <1>1, <3>1, <3>2, <3>3 DEF Task
  <2>2. Read(p, r)
    BY <1>3
  <2> HIDE DEF new
  <2>3. Task(r) /\ r.at = "again" /\ Rest(r, new)
    BY <1>1, <2>1, GoIs
  <2> HIDE DEF r
  <2>4. /\ Stepped(p) /\ Like(pr'[p], r) /\ pool' = pool
        /\ conf' = conf /\ blame' = blame
    BY <1>1, <2>1, <2>2, <2>3, ReadIs DEF Rest, Worked
  <2>5. Locked(pr'[p]) \subseteq Locked(q) \cup {c}
    BY <1>1, <2>1, <2>3, <2>4 DEF Locked, Like, Rest
  <2>6. \A o \in Proc \ {p} : c \notin Locked(pr[o])
    BY <1>3 DEF Free
  <2>7. q.op # "create" => pr'[p].v = q.v
    BY <2>1, <2>3, <2>4 DEF Rest, Like
  <2> QED BY <2>3, <2>4, <2>5, <2>6, <2>7 DEF Like
<1> QED BY <1>1, <1>2, <1>3 DEF NextName

\* Other fields.
LEMMA FieldIs ==
    ASSUME NEW q, Task(q), NEW r,
           \/ \E n \in Name : /\ r = [q EXCEPT !.n = n] /\ q.op # "unmount" /\ q.at # "cFrom"
                              /\ q.op = "destroy" => n = q.v
           \/ q.at # "origin" /\ \E o \in Origin \cup {None} : r = [q EXCEPT !.org = o]
           \/ \E S \in SUBSET (Vol \cup Snap) : r = [q EXCEPT !.gone = S]
           \/ \E k \in Nat : r = [q EXCEPT !.tries = k]
           \/ r = [q EXCEPT !.blind = TRUE]
    PROVE  Task(r) /\ Rest(r, q) /\ r.at = q.at
<1>1. ASSUME NEW n \in Name, r = [q EXCEPT !.n = n], q.op # "unmount", q.at # "cFrom",
             q.op = "destroy" => n = q.v
      PROVE  Task(r) /\ Rest(r, q) /\ r.at = q.at
  <2>1. r \in RunType /\ Rest(r, q) /\ r.at = q.at /\ r.n = n /\ r.org = q.org
    BY <1>1 DEF Task, RunType, Rest
  <2> QED BY <1>1, <2>1 DEF Task, Args, Rest
<1>2. ASSUME q.at # "origin", NEW o \in Origin \cup {None}, r = [q EXCEPT !.org = o]
      PROVE  Task(r) /\ Rest(r, q) /\ r.at = q.at
  <2>1. r \in RunType /\ Rest(r, q) /\ r.at = q.at /\ r.n = q.n
    BY <1>2 DEF Task, RunType, Rest
  <2> QED BY <1>2, <2>1 DEF Task, Args, Rest
<1>3. ASSUME \/ \E S \in SUBSET (Vol \cup Snap) : r = [q EXCEPT !.gone = S]
             \/ \E k \in Nat : r = [q EXCEPT !.tries = k]
             \/ r = [q EXCEPT !.blind = TRUE]
      PROVE  Task(r) /\ Rest(r, q) /\ r.at = q.at
  <2> DEFINE Good == r \in RunType /\ Rest(r, q) /\ r.at = q.at /\ r.n = q.n /\ r.org = q.org
  <2>2. q \in RunType
    BY DEF Task
  <2>3. ASSUME \E S \in SUBSET (Vol \cup Snap) : r = [q EXCEPT !.gone = S] PROVE Good
    BY <2>2, <2>3 DEF RunType, Rest
  <2>4. ASSUME \E k \in Nat : r = [q EXCEPT !.tries = k] PROVE Good
    BY <2>2, <2>4 DEF RunType, Rest
  <2>5. ASSUME r = [q EXCEPT !.blind = TRUE] PROVE Good
    BY <2>2, <2>5 DEF RunType, Rest
  <2>1. Good
    BY <1>3, <2>3, <2>4, <2>5
  <2> QED BY <2>1 DEF Task, Args, Rest
<1> QED BY <1>1, <1>2, <1>3

LEMMA SnapNamesAre ==
    ASSUME NEW a, a \in PoolType, NEW n \in Name, NEW s, HasSnap(a, n, s)
    PROVE  s \in Vol \cup Snap
<1>1. PICK i \in 1..Len(a.zvol[n].snaps) : a.zvol[n].snaps[i].name = s
  BY DEF HasSnap, SnapNames
<1> QED BY <1>1, ZvolIs DEF HasSnap, Copy

LEMMA ParentsAre == ASSUME NEW a, NEW n \in Vol, NEW s PROVE Parents(a, n, s) \subseteq Vol
BY DEF Parents

LEMMA FindForCloneIs ==
    ASSUME Types, NEW p \in Proc, FindForClone(p)
    PROVE  /\ Stepped(p) /\ pool' = pool /\ conf' = conf /\ blame' = blame
           /\ pr[p].op = "cloneSnap" /\ pr[p].at = "cFind" /\ pr'[p].at \in {"cFrom", "done"}
<1> DEFINE q == pr[p]
<1>1. /\ Task(q) /\ q.op = "cloneSnap" /\ q.at = "cFind" /\ Running(p) /\ q.v \in Vol
      /\ "cFrom" \in Steps(q.op)
  BY DEF Types, FindForClone, Task, Args, Steps, RunType, Commands, Running
<1>2. CASE Refused(p, "cFind")
  BY <1>1, <1>2, RefusedIs
<1>3. CASE Read(p, Raised(q))
  <2> DEFINE r == Raised(q)
  <2>1. Task(r) /\ Rest(r, q) /\ r.at = "done" /\ r.res = "failed" /\ Read(p, r)
    BY <1>1, <1>3, FinishIs DEF Raised
  <2> HIDE DEF r
  <2> QED BY <1>1, <2>1, ReadIs DEF Rest, Like, Worked
<1>4. ASSUME NEW n \in Parents(pool, q.v, q.s), Read(p, [Go(q, "cFrom") EXCEPT !.n = n])
      PROVE  Stepped(p) /\ pool' = pool /\ conf' = conf /\ blame' = blame /\ pr'[p].at = "cFrom"
  <2> DEFINE y == [q EXCEPT !.n = n]
             r == Go(y, "cFrom")
  <2>1. n \in Vol /\ n \in Name
    BY <1>1, ParentsAre DEF Name
  <2>2. Task(y) /\ Rest(y, q) /\ y.at = q.at /\ y.n = n
    BY <1>1, <2>1, FieldIs DEF Task, RunType
  <2>3. r = [Go(q, "cFrom") EXCEPT !.n = n]
    BY <1>1 DEF Go, Task, RunType
  <2> HIDE DEF y
  <2>4. Task(r) /\ Rest(r, y) /\ r.at = "cFrom" /\ Read(p, r)
    BY <1>1, <1>4, <2>1, <2>2, <2>3, GoIs DEF Rest
  <2> HIDE DEF r
  <2> QED BY <1>1, <2>2, <2>4, ReadIs DEF Rest, Like, Worked
<1> QED BY <1>1, <1>2, <1>3, <1>4 DEF FindForClone

LEMMA MakeCloneFromIs ==
    ASSUME Types, NEW p \in Proc, MakeCloneFrom(p)
    PROVE  /\ Stepped(p) /\ pr[p].op = "cloneSnap" /\ pr[p].at = "cFrom"
           /\ pr'[p].at \in {"cProv", "taken", "done"}
<1> DEFINE q == pr[p]
           R(o) == CASE o.r = "ok" -> Go(q, "cProv") [] o.r = "exists" -> Go(q, "taken")
                     [] OTHER -> Raised(q)
<1>1. /\ Task(q) /\ q.op = "cloneSnap" /\ q.at = "cFrom" /\ Running(p)
      /\ "cProv" \in Steps(q.op) /\ "taken" \in Steps(q.op)
  BY DEF Types, MakeCloneFrom, Task, Args, Steps, RunType, Commands, Running
<1>2. PICK o \in Ends(q) : After(p, o, R(o))
  BY DEF MakeCloneFrom
<1> DEFINE r == R(o)
<1>3. /\ Task(r) /\ Rest(r, q) /\ r.at \in {"cProv", "taken", "done"}
      /\ After(p, o, r) /\ (r.at = "done" => r.res = "failed") /\ (r.at = "cProv" => o.r = "ok")
  <2>1. CASE o.r = "ok"
    BY <1>1, <1>2, <2>1, GoIs
  <2>2. CASE o.r = "exists"
    BY <1>1, <1>2, <2>2, GoIs
  <2>3. CASE o.r \notin {"ok", "exists"}
    BY <1>1, <1>2, <2>3, FinishIs DEF Raised
  <2> QED BY <2>1, <2>2, <2>3
<1> HIDE DEF r, R
<1>4. Quiet /\ conf \in [Vol -> SUBSET Snap]
  BY DEF MakeCloneFrom, Types
<1>6. o.r = "ok" => Has(o.a, q.c) /\ o.a.zvol[q.c].origin \in Nat \X {q.s}
  <2>1. Fit(q) /\ Proper(pool)
    BY <1>1, TaskFits DEF Types
  <2>2. ~Wrong(o) => Outcome(q, o.a, o.r) /\ Proper(o.a) /\ q.n \in Name
    BY <1>1, <2>1, EndsAre DEF Moves, Fit, Name
  <2>3. ASSUME o.r = "ok"
        PROVE  Has(o.a, q.c) /\ o.a.zvol[q.c].origin = <<o.a.zvol[q.n].id, q.s>> /\ Has(o.a, q.n)
    BY <1>1, <2>2, <2>3 DEF Outcome, Wrong, HasSnap
  <2>4. o.r = "ok" => o.a.zvol[q.n].id \in Nat
    BY <2>2, <2>3, ZvolIs DEF Proper, Wrong
  <2>5. \A i \in Nat : <<i, q.s>> \in Nat \X {q.s}
    OBVIOUS
  <2> HIDE DEF q
  <2> QED BY <2>3, <2>4, <2>5
<1>7. Worked(r) => Work(o.a, r)
  BY <1>1, <1>3, <1>6 DEF Worked, Work, Rest
<1>5. Stepped(p) /\ Like(pr'[p], r)
  BY <1>1, <1>3, <1>4, <1>7, CalledIs DEF Quiet
<1> QED BY <1>1, <1>3, <1>5 DEF Like

LEMMA ProvisionIs ==
    ASSUME Types, NEW p \in Proc, Provision(p)
    PROVE  /\ Stepped(p) /\ pool' = pool /\ conf' = conf /\ blame' = blame
           /\ pr[p].at = "cProv" /\ pr'[p].at = "done" /\ pr[p].seen \subseteq pr'[p].seen
<1> DEFINE q == pr[p]
           r == Finish(q, IF Has(pool, q.c) THEN "ok" ELSE "failed")
<1>1. Task(q) /\ q.op \in {"clone", "cloneSnap"} /\ q.at = "cProv" /\ Running(p)
  BY DEF Types, Provision, Task, Steps, RunType, Commands, Running
<1>2. CASE Refused(p, "cProv")
  BY <1>1, <1>2, RefusedIs
<1>3. CASE Read(p, r)
  <2>1. /\ Task(r) /\ Rest(r, q) /\ r.at = "done" /\ r.seen = q.seen /\ Read(p, r)
        /\ r.res = "ok" => Has(pool, q.c)
    BY <1>1, <1>3, FinishIs
  <2> HIDE DEF r
  <2>2. (Worked(q) => Work(pool, q)) /\ Worked(r) => Work(pool, r)
    BY <1>1, <2>1 DEF Worked, Work, Rest
  <2> QED BY <1>1, <2>1, <2>2, ReadIs DEF Rest, Like
<1> QED BY <1>2, <1>3 DEF Provision

LEMMA NoParents ==
    ASSUME NEW a, NEW n, NEW s, Parents(a, n, s) = {}
    PROVE  ~HasSnap(a, n, s)
<1>1. ASSUME HasSnap(a, n, s) PROVE Parents(a, n, s) # {}
  <2>1. Has(a, n)
    BY <1>1 DEF HasSnap
  <2> QED BY <1>1, <2>1 DEF Parents
<1> QED BY <1>1

LEMMA FindSnapshotIs ==
    ASSUME Types, NEW p \in Proc, FindSnapshot(p)
    PROVE  /\ Stepped(p) /\ pool' = pool /\ conf' = conf /\ blame' = blame
           /\ pr[p].at = "find" /\ pr'[p].at \in {"clones", "done"}
<1> DEFINE q == pr[p]
<1>1. Task(q) /\ q.op = "delsnap" /\ q.at = "find" /\ Running(p) /\ "clones" \in Steps(q.op)
  BY DEF Types, FindSnapshot, Task, Steps, RunType, Running, Commands
<1>2. CASE Refused(p, "find")
  BY <1>1, <1>2, RefusedIs
<1>3. CASE Read(p, Finish([q EXCEPT !.blind = TRUE, !.errs = @ + 1], "ok"))
  <2> DEFINE y == [q EXCEPT !.blind = TRUE]
             z == [y EXCEPT !.errs = @ + 1]
             r == Finish(z, "ok")
  <2>1. Task(y) /\ Rest(y, q) /\ y.blind = TRUE
    BY <1>1, FieldIs DEF Task, RunType
  <2>2. z = [q EXCEPT !.blind = TRUE, !.errs = @ + 1]
    BY <1>1 DEF Task, RunType
  <2>3. Read(p, r)
    BY <1>3, <2>2
  <2> HIDE DEF y
  <2>4. Task(z) /\ Like(z, y)
    BY <2>1, CountIs
  <2> HIDE DEF z
  <2>5. Task(r) /\ r.at = "done" /\ Rest(r, q) /\ r.blind = TRUE
    <3>1. z.blind = TRUE /\ Rest(z, q) /\ z.op # "none"
      BY <1>1, <2>1, <2>4 DEF Like, Rest
    <3> HIDE DEF q
    <3>2. Task(r) /\ r.at = "done" /\ Rest(r, z) /\ r.blind = TRUE
      BY <2>4, <3>1, FinishIs
    <3> QED BY <3>1, <3>2 DEF Rest
  <2> HIDE DEF r
  <2>6. Work(pool, r)
    BY <1>1, <2>5 DEF Work, Rest
  <2> QED BY <1>1, <2>3, <2>5, <2>6, ReadIs DEF Rest, Like
<1>4. CASE Parents(pool, q.v, q.s) = {} /\ Read(p, Finish(q, "ok"))
  <2> DEFINE r == Finish(q, "ok")
  <2>1. Task(r) /\ Rest(r, q) /\ r.at = "done" /\ Read(p, r)
    BY <1>1, <1>4, FinishIs
  <2> HIDE DEF r
  <2>2. ~HasSnap(pool, q.v, q.s)
    BY <1>4, NoParents
  <2>3. Work(pool, r)
    BY <1>1, <2>1, <2>2 DEF Work, Rest
  <2> QED BY <1>1, <2>1, <2>3, ReadIs DEF Rest, Like
<1>5. CASE Read(p, Go(q, "clones"))
  <2> DEFINE r == Go(q, "clones")
  <2>1. Task(r) /\ Rest(r, q) /\ r.at = "clones" /\ Read(p, r)
    BY <1>1, <1>5, GoIs
  <2> HIDE DEF r
  <2> QED BY <1>1, <2>1, ReadIs DEF Rest, Like, Worked
<1> QED BY <1>1, <1>2, <1>3, <1>4, <1>5 DEF FindSnapshot

LEMMA SnapshotClonesIs ==
    ASSUME Types, NEW p \in Proc, SnapshotClones(p)
    PROVE  /\ Stepped(p) /\ pool' = pool /\ conf' = conf /\ blame' = blame
           /\ pr[p].at = "clones" /\ pr'[p].at \in {"unsnap", "unmount", "done"}
<1> DEFINE q == pr[p]
<1>1. /\ Task(q) /\ q.op = "delsnap" /\ q.at = "clones" /\ Running(p)
      /\ "unsnap" \in Steps(q.op) /\ "unmount" \in Steps(q.op)
  BY DEF Types, SnapshotClones, Task, Steps, RunType, Running, Commands
<1>2. CASE Refused(p, "clones")
  BY <1>1, <1>2, RefusedIs
<1>3. CASE \E r \in {Raised(q), Go(q, "unsnap"), Go(q, "unmount")} : Read(p, r)
  <2>1. PICK r \in {Raised(q), Go(q, "unsnap"), Go(q, "unmount")} : Read(p, r)
    BY <1>3
  <2>2. /\ Task(r) /\ Rest(r, q) /\ r.at \in {"unsnap", "unmount", "done"}
        /\ r.at = "done" => r.res = "failed"
    BY <1>1, <2>1, GoIs, FinishIs DEF Raised
  <2> QED BY <1>1, <2>1, <2>2, ReadIs DEF Rest, Like, Worked
<1>5. CASE ~HasSnap(pool, q.v, q.s) /\ Read(p, Finish(q, "ok"))
  <2> DEFINE r == Finish(q, "ok")
  <2>1. Task(r) /\ Rest(r, q) /\ r.at = "done" /\ Read(p, r)
    BY <1>1, <1>5, FinishIs
  <2> HIDE DEF r
  <2>2. Work(pool, r)
    BY <1>1, <1>5, <2>1 DEF Work, Rest
  <2> QED BY <1>1, <2>1, <2>2, ReadIs DEF Rest, Like
<1>4. \/ Refused(p, "clones")
      \/ \E r \in {Raised(q), Go(q, "unsnap"), Go(q, "unmount")} : Read(p, r)
      \/ ~HasSnap(pool, q.v, q.s) /\ Read(p, Finish(q, "ok"))
  BY DEF SnapshotClones
<1> QED BY <1>1, <1>2, <1>3, <1>4, <1>5

LEMMA RemoveMountIs ==
    ASSUME Types, NEW p \in Proc, RemoveMount(p)
    PROVE  Stepped(p) /\ pr[p].at = "unmount" /\ pr'[p].at \in {"unsnap", "done"}
<1> DEFINE q == pr[p]
<1>1. Task(q) /\ q.op = "delsnap" /\ q.at = "unmount" /\ Running(p) /\ "unsnap" \in Steps(q.op)
  BY DEF Types, RemoveMount, Task, Steps, RunType, Commands, Running
<1>2. PICK o \in Ends(q) : After(p, o, IF o.r = "ok" THEN Go(q, "unsnap") ELSE Raised(q))
  BY DEF RemoveMount
<1> DEFINE r == IF o.r = "ok" THEN Go(q, "unsnap") ELSE Raised(q)
<1>3. /\ Task(r) /\ Rest(r, q) /\ r.at \in {"unsnap", "done"} /\ After(p, o, r)
      /\ r.at = "done" => r.res = "failed"
  BY <1>1, <1>2, GoIs, FinishIs DEF Raised
<1> HIDE DEF r
<1>4. Quiet /\ conf \in [Vol -> SUBSET Snap]
  BY DEF RemoveMount, Types
<1>5. Stepped(p) /\ Like(pr'[p], r)
  BY <1>1, <1>3, <1>4, CalledIs DEF Quiet, Worked
<1> QED BY <1>1, <1>3, <1>5 DEF Like

LEMMA DeleteSnapshotIs ==
    ASSUME Types, NEW p \in Proc, DeleteSnapshot(p)
    PROVE  Stepped(p) /\ pr[p].at = "unsnap" /\ pr'[p].at = "done"
<1> DEFINE q == pr[p]
<1>1. Task(q) /\ q.op = "delsnap" /\ q.at = "unsnap" /\ Running(p)
  BY DEF Types, DeleteSnapshot, Task, Steps, RunType, Commands, Running
<1>2. PICK o \in Ends(q) :
          After(p, o, Finish(q, IF o.r \in {"ok", "notfound"} THEN "ok" ELSE "failed"))
  BY DEF DeleteSnapshot
<1> DEFINE r == Finish(q, IF o.r \in {"ok", "notfound"} THEN "ok" ELSE "failed")
<1>3. /\ Task(r) /\ Rest(r, q) /\ r.at = "done" /\ After(p, o, r)
      /\ r.res = "ok" => o.r \in {"ok", "notfound"}
  BY <1>1, <1>2, FinishIs
<1> HIDE DEF r
<1>4. Quiet /\ conf \in [Vol -> SUBSET Snap]
  BY DEF DeleteSnapshot, Types
<1>6. o.r \in {"ok", "notfound"} => ~HasSnap(o.a, q.v, q.s)
  <2>1. Fit(q) /\ Proper(pool)
    BY <1>1, TaskFits DEF Types
  <2>2. ~Wrong(o) => Outcome(q, o.a, o.r)
    BY <2>1, EndsAre
  <2> QED BY <1>1, <2>2 DEF Outcome, Wrong
<1>7. Worked(r) => Work(o.a, r)
  BY <1>1, <1>3, <1>6 DEF Worked, Work, Rest
<1>5. Stepped(p) /\ Like(pr'[p], r)
  BY <1>1, <1>3, <1>4, <1>7, CalledIs DEF Quiet
<1> QED BY <1>1, <1>3, <1>5 DEF Like

LEMMA MakeMountIs ==
    ASSUME Types, NEW p \in Proc, MakeMount(p)
    PROVE  Stepped(p) /\ pr[p].at = "mClone" /\ pr'[p].at = "done"
<1> DEFINE q == pr[p]
<1>1. Task(q) /\ q.op = "mount" /\ q.at = "mClone" /\ Running(p)
  BY DEF Types, MakeMount, Task, Steps, RunType, Commands, Running
<1>2. PICK o \in Ends(q) :
          After(p, o, Finish(q, IF o.r \in {"ok", "exists"} THEN "ok" ELSE "failed"))
  BY DEF MakeMount
<1> DEFINE r == Finish(q, IF o.r \in {"ok", "exists"} THEN "ok" ELSE "failed")
<1>3. /\ Task(r) /\ Rest(r, q) /\ r.at = "done" /\ After(p, o, r)
      /\ r.res = "ok" => o.r \in {"ok", "exists"}
  BY <1>1, <1>2, FinishIs
<1> HIDE DEF r
<1>4. Quiet /\ conf \in [Vol -> SUBSET Snap]
  BY DEF MakeMount, Types
<1>6. o.r \in {"ok", "exists"} => Has(o.a, <<q.v, q.s>>)
  <2>1. Fit(q) /\ Proper(pool)
    BY <1>1, TaskFits DEF Types
  <2>2. ~Wrong(o) => Outcome(q, o.a, o.r)
    BY <2>1, EndsAre
  <2> QED BY <1>1, <2>2 DEF Outcome, Wrong
<1>7. Worked(r) => Work(o.a, r)
  BY <1>1, <1>3, <1>6 DEF Worked, Work, Rest
<1>5. Stepped(p) /\ Like(pr'[p], r)
  BY <1>1, <1>3, <1>4, <1>7, CalledIs DEF Quiet
<1> QED BY <1>1, <1>3, <1>5 DEF Like

LEMMA IsLunIs ==
    ASSUME Types, NEW p \in Proc, IsLun(p)
    PROVE  /\ Stepped(p) /\ pool' = pool /\ conf' = conf /\ blame' = blame
           /\ pr[p].at = "isLun" /\ pr'[p].at \in {"read", "done"}
<1> DEFINE q == pr[p]
<1>1. /\ Task(q) /\ q.op = "destroy" /\ q.at = "isLun" /\ Running(p) /\ q.v \in Vol /\ q.v \in Name
      /\ "read" \in Steps(q.op)
  BY DEF Types, IsLun, Task, Args, Steps, RunType, Commands, Running, Name
<1>2. CASE Refused(p, "isLun")
  BY <1>1, <1>2, RefusedIs
<1>3. CASE Read(p, Raised(q))
  <2> DEFINE r == Raised(q)
  <2>1. Task(r) /\ Rest(r, q) /\ r.at = "done" /\ r.res = "failed" /\ Read(p, r)
    BY <1>1, <1>3, FinishIs DEF Raised
  <2> HIDE DEF r
  <2> QED BY <1>1, <2>1, ReadIs DEF Rest, Like, Worked
<1>4. CASE Read(p, [Go(q, "read") EXCEPT !.n = q.v])
  <2> DEFINE n == q.v
             y == [q EXCEPT !.n = n]
             r == Go(y, "read")
  <2>1. Task(y) /\ Rest(y, q) /\ y.at = q.at /\ y.n = n
    BY <1>1, FieldIs DEF Task, RunType
  <2>2. r = [Go(q, "read") EXCEPT !.n = n]
    BY <1>1 DEF Go, Task, RunType
  <2> HIDE DEF y
  <2>3. Task(r) /\ Rest(r, y) /\ r.at = "read" /\ Read(p, r)
    BY <1>1, <1>4, <2>1, <2>2, GoIs DEF Rest
  <2> HIDE DEF r
  <2> QED BY <1>1, <2>1, <2>3, ReadIs DEF Rest, Like, Worked
<1> QED BY <1>1, <1>2, <1>3, <1>4 DEF IsLun

LEMMA GetLunIs ==
    ASSUME Types, NEW p \in Proc, GetLun(p)
    PROVE  /\ Stepped(p) /\ pool' = pool /\ conf' = conf /\ blame' = blame
           /\ pr[p].at = "read" /\ pr'[p].at \in {"del", "done"}
           /\ pr'[p].at = "del" => /\ pr'[p].n = pr[p].n /\ Has(pool, pr[p].n)
                                   /\ pr'[p].org = pool.zvol[pr[p].n].origin
<1> DEFINE q == pr[p]
<1>6. /\ Task(q) /\ q.op \in {"destroy", "unmount"} /\ q.at = "read" /\ Running(p)
      /\ "del" \in Steps(q.op)
  BY DEF Types, GetLun, Task, Steps, RunType, Commands, Running
<1>1. /\ Task(q) /\ q.op \in {"destroy", "unmount"} /\ q.at = "read" /\ Running(p)
      /\ "del" \in Steps(q.op) /\ q.n \in Name /\ (q.op = "destroy" => q.n = q.v)
  <2>1. Args(q)
    BY <1>6 DEF Task
  <2> QED BY <1>6, <2>1 DEF Args, Name, Mount
<1>2. CASE Refused(p, "read")
  BY <1>1, <1>2, RefusedIs
<1>3. CASE ~Has(pool, q.n) /\ Read(p, Finish(q, "ok"))
  <2> DEFINE r == Finish(q, "ok")
  <2>1. Task(r) /\ Rest(r, q) /\ r.at = "done" /\ Read(p, r)
    BY <1>1, <1>3, FinishIs
  <2> HIDE DEF r
  <2>2. Work(pool, r)
    BY <1>1, <1>3, <2>1 DEF Work, Rest
  <2> QED BY <1>1, <2>1, <2>2, ReadIs DEF Rest, Like
<1>4. CASE Has(pool, q.n) /\ Read(p, [Go(q, "del") EXCEPT !.org = pool.zvol[q.n].origin])
  <2> DEFINE x == pool.zvol[q.n].origin
             y == [q EXCEPT !.org = x]
             r == Go(y, "del")
  <2>1. x \in Origin \cup {None}
    BY <1>1, <1>4, ZvolIs DEF Types, Proper
  <2>4. Read(p, [Go(q, "del") EXCEPT !.org = x])
    BY <1>4
  <2> HIDE DEF x
  <2>2. Task(y) /\ Rest(y, q) /\ y.at = q.at /\ y.n = q.n /\ y.org = x
    BY <1>1, <2>1, FieldIs DEF Task, RunType
  <2>3. r = [Go(q, "del") EXCEPT !.org = x]
    BY <1>1 DEF Go, Task, RunType
  <2> HIDE DEF y
  <2>5. Task(r) /\ Rest(r, y) /\ r.at = "del" /\ r.n = q.n /\ r.org = x /\ Read(p, r)
    BY <1>1, <2>2, <2>3, <2>4, GoIs DEF Rest
  <2> HIDE DEF r
  <2> QED BY <1>1, <1>4, <2>2, <2>5, ReadIs DEF Rest, Like, Worked, x
<1>5. \/ Refused(p, "read")
      \/ ~Has(pool, q.n) /\ Read(p, Finish(q, "ok"))
      \/ Has(pool, q.n) /\ Read(p, [Go(q, "del") EXCEPT !.org = pool.zvol[q.n].origin])
  BY DEF GetLun
<1> QED BY <1>1, <1>2, <1>3, <1>4, <1>5

\* A deletion goes on with the snapshot of the clone, or the clone is blamed.
LEMMA DeleteLunIs ==
    ASSUME Types, NEW p \in Proc, DeleteLun(p)
    PROVE  /\ Stepped(p) /\ pr[p].op \in {"destroy", "unmount"} /\ pr[p].at = "del"
           /\ pr'[p].at \in {"origin", "read", "done"}
           /\ pr[p].org # None /\ pr[p].org[2] \in Vol =>
                 \/ pr'[p].at = "origin" /\ pr'[p].org = pr[p].org
                 \/ pr[p].org \in blame'
<1> DEFINE q == pr[p]
           R(o) == CASE o.r \in {"ok", "busy"} -> Deleted(q)
                     [] o.r = "cfg" /\ q.tries < 2 -> [Go(q, "read") EXCEPT !.tries = @ + 1]
                     [] OTHER -> Raised(q)
<1>1. /\ Task(q) /\ q.op \in {"destroy", "unmount"} /\ q.at = "del" /\ Running(p)
      /\ "origin" \in Steps(q.op) /\ "read" \in Steps(q.op) /\ (q.op = "destroy" => q.n = q.v)
      /\ q.org \in Origin \cup {None}
  BY DEF Types, DeleteLun, Task, Args, Steps, RunType, Commands, Running
<1>2. PICK o \in Ends(q) : After(p, o, R(o)) /\ Blamed({q.org} \ {None}, Wrong(o))
  BY DEF DeleteLun
<1> DEFINE r == R(o)
<1>3. ASSUME q.org # None, q.org[2] \in Vol PROVE q.org \in Nat \X Vol
  BY <1>1, <1>3 DEF Origin
<1>4. /\ Task(r) /\ Rest(r, q) /\ r.at \in {"origin", "read", "done"}
      /\ After(p, o, r)
      /\ q.org # None /\ q.org[2] \in Vol /\ o.r \in {"ok", "busy"} =>
            r.at = "origin" /\ r.org = q.org
      /\ r.at = "origin" \/ (r.at = "done" /\ r.res = "ok") => o.r \in {"ok", "busy"}
  <2>1. CASE o.r \in {"ok", "busy"}
    <3>1. CASE q.org # None /\ q.org[2] \in Vol
      BY <1>1, <1>2, <1>3, <2>1, <3>1, GoIs DEF Deleted
    <3>2. CASE ~(q.org # None /\ q.org[2] \in Vol)
      BY <1>1, <1>2, <2>1, <3>2, FinishIs DEF Deleted
    <3> QED BY <3>1, <3>2
  <2>2. CASE o.r = "cfg" /\ q.tries < 2
    <3> DEFINE z == Go(q, "read")
               k == z.tries + 1
    <3>1. Task(z) /\ Rest(z, q) /\ z.at = "read"
      BY <1>1, GoIs
    <3>2. k \in Nat /\ r = [z EXCEPT !.tries = k]
      BY <2>2, <3>1 DEF Task, RunType
    <3>3. After(p, o, r)
      BY <1>2
    <3> HIDE DEF z, k, r
    <3> QED BY <2>2, <3>1, <3>2, <3>3, FieldIs DEF Rest
  <2>3. CASE o.r \notin {"ok", "busy"} /\ ~(o.r = "cfg" /\ q.tries < 2)
    BY <1>1, <1>2, <2>3, FinishIs DEF Raised
  <2> QED BY <2>1, <2>2, <2>3
<1>5. q.org # None /\ Wrong(o) => q.org \in blame'
  BY <1>2, BlamedIs
<1>6. /\ blame \subseteq blame' /\ conf' = conf /\ conf \in [Vol -> SUBSET Snap]
      /\ clock' = clock /\ late' = late /\ forgot' = forgot
  BY <1>2, BlamedIs DEF DeleteLun, Types
<1> HIDE DEF r, R
<1>8. /\ o.r \in {"ok", "busy"} \/ Wrong(o)
      /\ o.r \in {"ok", "busy"} => ~Has(o.a, q.n) \/ Dependents(o.a, q.n) # {}
  <2>1. Fit(q) /\ Proper(pool)
    BY <1>1, TaskFits DEF Types
  <2>2. ~Wrong(o) => Outcome(q, o.a, o.r)
    BY <2>1, EndsAre
  <2> QED BY <1>1, <2>2 DEF Outcome, Wrong
<1>10. Worked(r) => Work(o.a, r)
  BY <1>1, <1>4, <1>8 DEF Worked, Work, Rest
<1>7. Stepped(p) /\ Like(pr'[p], r)
  BY <1>1, <1>4, <1>6, <1>10, CalledIs
<1>9. pr'[p].at = r.at /\ pr'[p].org = r.org
  BY <1>7 DEF Like
<1> QED BY <1>1, <1>4, <1>5, <1>7, <1>8, <1>9

\* A zvol that is gone, or in use, stays so when nothing is removed.
LEMMA GoneOrUsed ==
    ASSUME NEW q, NEW a, Proper(a), NEW b, Moves(q, a, b), NEW v \in Vol,
           ~Added(q, a, b, v), \A n \in Name : ~Removed(q, a, b, n),
           ~Has(a, v) \/ Dependents(a, v) # {}
    PROVE  ~Has(b, v) \/ Dependents(b, v) # {}
<1>1. CASE ~Has(a, v)
  BY <1>1 DEF Moves, Name
<1>2. CASE Has(a, v)
  <2>1. PICK s \in SnapNames(a, v) : get_snapshot_clones(a, v, s) # {}
    BY <1>2 DEF Dependents
  <2>2. PICK m \in Name : Has(a, m) /\ a.zvol[m].origin = <<a.zvol[v].id, s>>
    BY <2>1 DEF get_snapshot_clones
  <2>3. v \in Name /\ s \in Vol \cup Snap /\ HasSnap(a, v, s)
    BY <1>2, <2>1, SnapNamesAre DEF Proper, HasSnap, Name
  <2>4. Alike(a, b, v) /\ Alike(a, b, m)
    BY <1>2, <2>2, <2>3 DEF Moves
  <2>5. HasSnap(b, v, s)
    BY <2>1, <2>3, <2>4 DEF Moves, Alike, Dropped
  <2>6. m \in get_snapshot_clones(b, v, s) /\ s \in SnapNames(b, v)
    BY <2>2, <2>4, <2>5 DEF Alike, get_snapshot_clones, HasSnap
  <2> QED BY <2>6 DEF Dependents
<1> QED BY <1>1, <1>2

LEMMA DeleteOriginIs ==
    ASSUME Types, NEW p \in Proc, DeleteOrigin(p)
    PROVE  /\ Stepped(p) /\ pr[p].op \in {"destroy", "unmount"} /\ pr[p].at = "origin"
           /\ pr'[p].at \in {"deps", "done"}
           /\ \/ pr[p].org \in blame'
              \/ \A n \in Vol : Has(pool', n) /\ pool'.zvol[n].id = pr[p].org[1] =>
                    \/ ~HasSnap(pool', n, pr[p].org[2])
                    \/ get_snapshot_clones(pool', n, pr[p].org[2]) # {}
<1> DEFINE q == pr[p]
           R(o) == CASE o.r \in {"ok", "notfound"} -> Finish(q, "ok")
                     [] o.r = "busy" -> Go(q, "deps") [] OTHER -> Raised(q)
<1>1. /\ Task(q) /\ q.op \in {"destroy", "unmount"} /\ q.at = "origin" /\ Running(p)
      /\ "deps" \in Steps(q.op) /\ (q.op = "destroy" => q.n = q.v)
  BY DEF Types, DeleteOrigin, Task, Args, Steps, RunType, Commands, Running
<1>2. PICK o \in Ends(q) : /\ After(p, o, R(o)) /\ Blamed({q.org}, Wrong(o))
                           /\ UNCHANGED <<conf, clock, late, forgot>>
  BY DEF DeleteOrigin
<1> DEFINE r == R(o)
<1>4. /\ Task(r) /\ Rest(r, q) /\ r.at \in {"deps", "done"}
      /\ After(p, o, r)
  <2>1. CASE o.r = "busy"
    BY <1>1, <1>2, <2>1, GoIs
  <2>2. CASE o.r # "busy"
    BY <1>1, <1>2, <2>2, FinishIs DEF Raised
  <2> QED BY <2>1, <2>2
<1>5. Wrong(o) => q.org \in blame'
  BY <1>2, BlamedIs
<1>6. /\ blame \subseteq blame' /\ conf' = conf /\ conf \in [Vol -> SUBSET Snap]
      /\ clock' = clock /\ late' = late /\ forgot' = forgot
  BY <1>2, BlamedIs DEF Types
<1> HIDE DEF r, R
<1>10. (Worked(q) => Work(pool, q)) /\ Worked(r) => Work(o.a, r)
  <2>1. Fit(q) /\ Proper(pool) /\ q.v \in Vol
    BY <1>1, TaskFits DEF Types, Task, Args
  <2>2. Moves(q, pool, o.a)
    BY <2>1, EndsAre
  <2>3. ~Added(q, pool, o.a, q.v) /\ \A n \in Name : ~Removed(q, pool, o.a, n)
    BY <1>1 DEF Added, Removed
  <2>4. \/ ~(~Has(pool, q.v) \/ Dependents(pool, q.v) # {})
        \/ ~Has(o.a, q.v) \/ Dependents(o.a, q.v) # {}
    BY <2>1, <2>2, <2>3, GoneOrUsed
  <2> QED BY <1>1, <1>4, <2>4 DEF Worked, Work, Rest
<1>7. Stepped(p) /\ Like(pr'[p], r) /\ pool' = o.a
  BY <1>1, <1>4, <1>6, <1>10, CalledIs
<1>8. \/ Wrong(o)
      \/ \A n \in Vol : Has(pool', n) /\ pool'.zvol[n].id = q.org[1] =>
            ~HasSnap(pool', n, q.org[2]) \/ get_snapshot_clones(pool', n, q.org[2]) # {}
  <2>1. Fit(q) /\ Proper(pool)
    BY <1>1, TaskFits DEF Types
  <2>2. ~Wrong(o) => Outcome(q, o.a, o.r)
    BY <2>1, EndsAre
  <2> QED BY <1>1, <1>7, <2>2 DEF Outcome
<1>9. pr'[p].at = r.at
  BY <1>7 DEF Like
<1> QED BY <1>1, <1>4, <1>5, <1>7, <1>8, <1>9

LEMMA CleanIs ==
    ASSUME NEW q, q.at = "deps", Proper(pool), NEW m \in Mount,
           NEW o \in Answers(q, "clean", LAMBDA a : delete_lun(a, m, TRUE))
    PROVE  Moves(q, pool, o.a)
<1> DEFINE b == Destroyed(pool, m).a
<1>1. m \in Name
  BY DEF Name
<1>2. Moves(q, pool, pool) /\ Moves(q, pool, b)
  BY <1>1, MovesNot, DeleteMoves DEF Destroyed
<1>3. Destroyed(b, m).a = b
  BY <1>1, DeleteTwice
<1>4. o \in {Destroyed(pool, m)} \cup (IF "clean" \in Lossy THEN {Destroyed(b, m)} ELSE {})
            \cup {Ret(d, e) : d \in {pool, b}, e \in Errors(q, "clean")}
  <2>1. o \in Answers(q, "clean", LAMBDA a : Destroyed(a, m))
    BY DEF Destroyed
  <2> QED BY <2>1 DEF Answers
<1> HIDE DEF b
<1>5. \/ o = Destroyed(pool, m)
      \/ o = Destroyed(b, m)
      \/ \E d \in {pool, b} : \E e \in Errors(q, "clean") : o = Ret(d, e)
  BY <1>4
<1>6. o.a \in {pool, b}
  BY <1>3, <1>5 DEF b, Ret
<1> QED BY <1>2, <1>6

LEMMA DependenciesIs ==
    ASSUME Types, NEW p \in Proc, Dependencies(p)
    PROVE  /\ Stepped(p) /\ pr[p].op \in {"destroy", "unmount"} /\ pr[p].at = "deps"
           /\ pr'[p].at \in {"deps", "read", "done"}
<1> DEFINE q == pr[p]
           deps == IF Has(pool, q.n) THEN Dependents(pool, q.n) ELSE {}
<1>1. /\ Task(q) /\ q.op \in {"destroy", "unmount"} /\ q.at = "deps" /\ Running(p)
      /\ "read" \in Steps(q.op)
  BY DEF Types, Dependencies, Task, Steps, RunType, Commands, Running
<1>2. q.op = "destroy" => q.n = q.v
  BY <1>1 DEF Task, Args
<1>3. CASE Refused(p, "deps")
  BY <1>1, <1>3, RefusedIs
<1>4. CASE \E r \in {Raised(q), Go(q, "read")} : Read(p, r)
  <2>1. PICK r \in {Raised(q), Go(q, "read")} : Read(p, r)
    BY <1>4
  <2>2. /\ Task(r) /\ Rest(r, q) /\ r.at \in {"read", "done"}
        /\ r.at = "done" => r.res = "failed"
    BY <1>1, <1>2, <2>1, GoIs, FinishIs DEF Raised
  <2> QED BY <1>1, <2>1, <2>2, ReadIs DEF Rest, Like, Worked
<1>5. ASSUME deps \cap Vol = {}, NEW m \in deps,
             NEW o \in Answers(q, "clean", LAMBDA a : delete_lun(a, m, TRUE)),
             After(p, o, IF o.r = "ok" THEN q ELSE Raised(q)), Quiet
      PROVE  Stepped(p) /\ pr'[p].at \in {"deps", "done"}
  <2> DEFINE r == IF o.r = "ok" THEN q ELSE Raised(q)
  <2>1. m \in Name
    BY <1>5 DEF Dependents, get_snapshot_clones
  <2>2. m \in Mount
    BY <1>5, <2>1 DEF Name
  <2>3. Proper(pool) /\ conf \in [Vol -> SUBSET Snap]
    BY DEF Types
  <2>4. Moves(q, pool, o.a)
    BY <1>1, <1>5, <2>2, <2>3, CleanIs
  <2>5. Task(r) /\ Rest(r, q) /\ r.at \in {"deps", "done"} /\ ~Worked(r)
    BY <1>1, FinishIs DEF Raised, Rest, Worked
  <2>6. After(p, o, r)
    BY <1>5
  <2> HIDE DEF r
  <2>7. Becomes(p, o.a, r)
    BY <2>4, <2>5, <2>6, AfterIs DEF Moves
  <2>9. ~Worked(pr'[p])
    BY <2>5, <2>7, LikeWork DEF Becomes
  <2>8. Stepped(p)
    BY <1>1, <1>5, <2>3, <2>4, <2>5, <2>7, <2>9 DEF Stepped, Becomes, Like, Rest, Quiet
  <2> QED BY <2>5, <2>7, <2>8 DEF Becomes, Like
<1>6. \/ Refused(p, "deps")
      \/ \E r \in {Raised(q), Go(q, "read")} : Read(p, r)
      \/ /\ deps \cap Vol = {}
         /\ \E m \in deps : \E o \in Answers(q, "clean", LAMBDA a : delete_lun(a, m, TRUE)) :
               After(p, o, IF o.r = "ok" THEN q ELSE Raised(q)) /\ Quiet
  BY DEF Dependencies
<1> HIDE DEF deps
<1> QED BY <1>1, <1>3, <1>4, <1>5, <1>6

\* What a rollback takes for newer are snapshots of the disk, and unless the node is
\* behind the array, all that are newer are among them.
LEMMA ListedIs ==
    ASSUME NEW a, Proper(a), NEW n \in Name, NEW s, HasSnap(a, n, s), NEW S \in Listed(a, n, s)
    PROVE  /\ \A t \in S : HasSnap(a, n, t)
           /\ Zone # "behind" => Newer(a, n, s) \subseteq S
<1> DEFINE k == Position(a, n, s)
           z == a.zvol[n].snaps
<1>1. Has(a, n) /\ Len(z) \in Nat /\ k \in 1..Len(z)
  BY ZvolIs, PlaceIs DEF Proper, HasSnap
<1>2. \E i \in 1..Len(z) + 1 : S = Since(a, n, s, i) /\ (Zone # "behind" => i <= k + 1)
  BY <1>1, SnapshotsAssumption DEF Listed
<1>3. PICK i \in 1..Len(z) + 1 : S = Since(a, n, s, i) /\ (Zone # "behind" => i <= k + 1)
  BY <1>2
<1>4. \A t \in S : HasSnap(a, n, t)
  BY <1>1, <1>3 DEF Since, HasSnap, SnapNames
<1>5. ASSUME Zone # "behind", NEW t \in Newer(a, n, s) PROVE t \in S
  <2>1. PICK j \in k + 1..Len(z) : t = z[j].name
    BY DEF Newer
  <2>2. j \in i..Len(z)
    BY <1>1, <1>3, <1>5, <2>1
  <2>3. t # s
    BY <1>1, NewerIs
  <2> QED BY <1>3, <2>1, <2>2, <2>3 DEF Since
<1> QED BY <1>4, <1>5

\* A rollback asks which snapshots it will remove, and takes these from the config.
LEMMA RollbackListIs ==
    ASSUME Types, NEW p \in Proc, RollbackList(p)
    PROVE  /\ Stepped(p) /\ pool' = pool /\ conf' = conf /\ blame' = blame
           /\ pr[p].op = "rollback" /\ pr[p].at = "rList" /\ pr'[p].at \in {"rDo", "done"}
           /\ pr'[p].at = "rDo" =>
                 /\ HasSnap(pool, pr[p].v, pr[p].s)
                 /\ Zone # "behind" => Newer(pool, pr[p].v, pr[p].s) \subseteq pr'[p].gone
<1> DEFINE q == pr[p]
<1>1. /\ Task(q) /\ q.op = "rollback" /\ q.at = "rList" /\ Running(p) /\ q.v \in Vol /\ q.v \in Name
      /\ "rDo" \in Steps(q.op)
  BY DEF Types, RollbackList, Task, Args, Steps, RunType, Commands, Running, Name
<1>2. CASE Refused(p, "rList")
  BY <1>1, <1>2, RefusedIs
<1>3. CASE Read(p, Raised(q))
  <2> DEFINE r == Raised(q)
  <2>1. Task(r) /\ Rest(r, q) /\ r.at = "done" /\ r.res = "failed" /\ Read(p, r)
    BY <1>1, <1>3, FinishIs DEF Raised
  <2> HIDE DEF r
  <2> QED BY <1>1, <2>1, ReadIs DEF Rest, Like, Worked
<1>4. ASSUME HasSnap(pool, q.v, q.s), NEW S \in Listed(pool, q.v, q.s),
             Read(p, [Go(q, "rDo") EXCEPT !.gone = S])
      PROVE  /\ Stepped(p) /\ pool' = pool /\ conf' = conf /\ blame' = blame
             /\ pr'[p].at = "rDo" /\ pr'[p].gone = S
  <2> DEFINE y == Go(q, "rDo")
             r == [y EXCEPT !.gone = S]
  <2>1. S \subseteq Vol \cup Snap
    <3>1. Proper(pool) /\ pool \in PoolType
      BY DEF Types, Proper
    <3>2. \A t \in S : HasSnap(pool, q.v, t)
      BY <1>1, <1>4, <3>1, ListedIs
    <3> QED BY <1>1, <3>1, <3>2, SnapNamesAre
  <2>2. Read(p, r)
    BY <1>4
  <2>3. Task(y) /\ Rest(y, q) /\ y.at = "rDo"
    BY <1>1, GoIs
  <2> HIDE DEF y
  <2>4. Task(r) /\ Rest(r, y) /\ r.at = "rDo"
    BY <2>1, <2>3, FieldIs
  <2>5. r.gone = S
    BY <2>3 DEF Task, RunType
  <2> HIDE DEF r
  <2> QED BY <1>1, <2>2, <2>3, <2>4, <2>5, ReadIs DEF Rest, Like, Worked
<1>5. CASE /\ HasSnap(pool, q.v, q.s)
           /\ \E S \in Listed(pool, q.v, q.s) : Read(p, [Go(q, "rDo") EXCEPT !.gone = S])
  <2>1. PICK S \in Listed(pool, q.v, q.s) : Read(p, [Go(q, "rDo") EXCEPT !.gone = S])
    BY <1>5
  <2>2. Zone # "behind" => Newer(pool, q.v, q.s) \subseteq S
    <3>1. Proper(pool)
      BY DEF Types
    <3> QED BY <1>1, <1>5, <3>1, ListedIs
  <2> QED BY <1>1, <1>4, <1>5, <2>1, <2>2
<1>6. \/ Refused(p, "rList") \/ Read(p, Raised(q))
      \/ /\ HasSnap(pool, q.v, q.s)
         /\ \E S \in Listed(pool, q.v, q.s) : Read(p, [Go(q, "rDo") EXCEPT !.gone = S])
  BY DEF RollbackList
<1> QED BY <1>1, <1>2, <1>3, <1>5, <1>6

LEMMA RollbackIs ==
    ASSUME Types, NEW p \in Proc, Rollback(p)
    PROVE  /\ Stepped(p) /\ pr[p].op = "rollback" /\ pr[p].at = "rDo" /\ pr'[p].at = "done"
           /\ \A v \in Vol \ {pr[p].v} : conf'[v] = conf[v]
           /\ \/ conf'[pr[p].v] = conf[pr[p].v] \ pr[p].gone
              \/ conf' = conf /\ pool.zvol[pr[p].v].id \in forgot'
<1> DEFINE q == pr[p]
<1>1. Task(q) /\ q.op = "rollback" /\ q.at = "rDo" /\ Running(p) /\ q.v \in Vol
  BY DEF Types, Rollback, Task, Args, Steps, RunType, Commands, Running
<1>2. PICK o \in Ends(q) :
          /\ After(p, o, Finish(q, IF o.r = "ok" THEN "ok" ELSE "failed"))
          /\ conf' = [conf EXCEPT ![q.v] = IF o.r = "ok" THEN @ \ q.gone ELSE @]
          /\ forgot' = IF o.r = "ok" THEN forgot ELSE forgot \cup {pool.zvol[q.v].id}
          /\ UNCHANGED <<clock, late, blame>>
  BY DEF Rollback
<1> DEFINE r == Finish(q, IF o.r = "ok" THEN "ok" ELSE "failed")
<1>3. /\ Task(r) /\ Rest(r, q) /\ r.at = "done" /\ After(p, o, r)
      /\ r.res = "ok" => o.r = "ok"
  BY <1>1, <1>2, FinishIs
<1> HIDE DEF r
<1>4. conf \in [Vol -> SUBSET Snap] /\ conf' \in [Vol -> SUBSET Snap]
  BY <1>1, <1>2 DEF Types
<1>8. o.r = "ok" => HasSnap(o.a, q.v, q.s) /\ o.a.zvol[q.v].data = CopyOf(o.a, q.v, q.s).data
  <2>1. Fit(q) /\ Proper(pool)
    BY <1>1, TaskFits DEF Types
  <2>2. ~Wrong(o) => Outcome(q, o.a, o.r)
    BY <2>1, EndsAre
  <2> QED BY <1>1, <2>2 DEF Outcome, Wrong
<1>9. Worked(r) => Work(o.a, r)
  BY <1>1, <1>3, <1>8 DEF Worked, Work, Rest
<1>5. Stepped(p) /\ Like(pr'[p], r)
  BY <1>1, <1>2, <1>3, <1>4, <1>9, CalledIs
<1>6. o.r # "ok" => conf' = conf /\ pool.zvol[q.v].id \in forgot'
  BY <1>1, <1>2, <1>4
<1>7. /\ \A v \in Vol \ {q.v} : conf'[v] = conf[v]
      /\ o.r = "ok" => conf'[q.v] = conf[q.v] \ q.gone
  BY <1>1, <1>2, <1>4
<1> QED BY <1>1, <1>3, <1>5, <1>6, <1>7 DEF Like

LEMMA NewNameIs ==
    ASSUME Types, NEW p \in Proc, NewName(p)
    PROVE  /\ Stepped(p) /\ pool' = pool /\ conf' = conf /\ blame' = blame
           /\ pr[p].at = "nNew" /\ pr'[p].at \in {"nOld", "done"}
<1> DEFINE q == pr[p]
<1>1. Task(q) /\ q.op = "rename" /\ q.at = "nNew" /\ Running(p) /\ "nOld" \in Steps(q.op)
  BY DEF Types, NewName, Task, Steps, RunType, Commands, Running
<1>2. CASE Read(p, [Go(q, "nOld") EXCEPT !.errs = @ + 1])
  <2> DEFINE y == Go(q, "nOld")
             r == [y EXCEPT !.errs = @ + 1]
  <2>1. Task(y) /\ Rest(y, q) /\ y.at = "nOld" /\ Read(p, r)
    BY <1>1, <1>2, GoIs
  <2> HIDE DEF y
  <2>2. Task(r) /\ Like(r, y)
    BY <2>1, CountIs
  <2> HIDE DEF r
  <2> QED BY <1>1, <2>1, <2>2, ReadIs DEF Rest, Like, Worked
<1>3. CASE \E r \in {Go(q, "nOld"), Finish(q, "failed")} : Read(p, r)
  <2>1. PICK r \in {Go(q, "nOld"), Finish(q, "failed")} : Read(p, r)
    BY <1>3
  <2>2. /\ Task(r) /\ Rest(r, q) /\ r.at \in {"nOld", "done"}
        /\ r.at = "done" => r.res = "failed"
    BY <1>1, <2>1, GoIs, FinishIs
  <2> QED BY <1>1, <2>1, <2>2, ReadIs DEF Rest, Like, Worked
<1>5. CASE Has(pool, q.c) /\ Read(p, Finish(q, "ok"))
  <2> DEFINE r == Finish(q, "ok")
  <2>1. Task(r) /\ Rest(r, q) /\ r.at = "done" /\ Read(p, r)
    BY <1>1, <1>5, FinishIs
  <2> HIDE DEF r
  <2>2. Work(pool, r)
    BY <1>1, <1>5, <2>1 DEF Work, Rest
  <2> QED BY <1>1, <2>1, <2>2, ReadIs DEF Rest, Like
<1>4. \/ Read(p, [Go(q, "nOld") EXCEPT !.errs = @ + 1])
      \/ \E r \in {Go(q, "nOld"), Finish(q, "failed")} : Read(p, r)
      \/ Has(pool, q.c) /\ Read(p, Finish(q, "ok"))
  BY DEF NewName
<1> QED BY <1>1, <1>2, <1>3, <1>4, <1>5

LEMMA OldNameIs ==
    ASSUME Types, NEW p \in Proc, OldName(p)
    PROVE  /\ Stepped(p) /\ pool' = pool /\ conf' = conf /\ blame' = blame
           /\ pr[p].at = "nOld" /\ pr'[p].at \in {"nDo", "done"}
<1> DEFINE q == pr[p]
<1>1. Task(q) /\ q.op = "rename" /\ q.at = "nOld" /\ Running(p) /\ "nDo" \in Steps(q.op)
  BY DEF Types, OldName, Task, Steps, RunType, Commands, Running
<1>2. CASE Refused(p, "nOld")
  BY <1>1, <1>2, RefusedIs
<1>3. CASE \E r \in {Go(q, "nDo"), Raised(q)} : Read(p, r)
  <2>1. PICK r \in {Go(q, "nDo"), Raised(q)} : Read(p, r)
    BY <1>3
  <2>2. /\ Task(r) /\ Rest(r, q) /\ r.at \in {"nDo", "done"}
        /\ r.at = "done" => r.res = "failed"
    BY <1>1, <2>1, GoIs, FinishIs DEF Raised
  <2> QED BY <1>1, <2>1, <2>2, ReadIs DEF Rest, Like, Worked
<1>4. Refused(p, "nOld") \/ \E r \in {Go(q, "nDo"), Raised(q)} : Read(p, r)
  BY DEF OldName
<1> QED BY <1>1, <1>2, <1>3, <1>4

LEMMA RenameIs ==
    ASSUME Types, NEW p \in Proc, Rename(p)
    PROVE  /\ Stepped(p) /\ pr[p].op = "rename" /\ pr[p].at = "nDo"
           /\ pr'[p].at \in {"nConfirm", "done"}
<1> DEFINE q == pr[p]
<1>1. Task(q) /\ q.op = "rename" /\ q.at = "nDo" /\ Running(p) /\ "nConfirm" \in Steps(q.op)
  BY DEF Types, Rename, Task, Steps, RunType, Commands, Running
<1>2. PICK o \in Ends(q) :
          After(p, o, IF o.r \in {"ok", "cfg"} THEN Go(q, "nConfirm") ELSE Raised(q))
  BY DEF Rename
<1> DEFINE r == IF o.r \in {"ok", "cfg"} THEN Go(q, "nConfirm") ELSE Raised(q)
<1>3. /\ Task(r) /\ Rest(r, q) /\ r.at \in {"nConfirm", "done"} /\ After(p, o, r)
      /\ r.at = "done" => r.res = "failed"
  BY <1>1, <1>2, GoIs, FinishIs DEF Raised
<1> HIDE DEF r
<1>4. Quiet /\ conf \in [Vol -> SUBSET Snap]
  BY DEF Rename, Types
<1>5. Stepped(p) /\ Like(pr'[p], r)
  BY <1>1, <1>3, <1>4, CalledIs DEF Quiet, Worked
<1> QED BY <1>1, <1>3, <1>5 DEF Like

LEMMA ConfirmIs ==
    ASSUME Types, NEW p \in Proc, Confirm(p)
    PROVE  /\ Stepped(p) /\ pool' = pool /\ conf' = conf /\ blame' = blame
           /\ pr[p].at = "nConfirm" /\ pr'[p].at = "done"
<1> DEFINE q == pr[p]
           r == Finish(q, IF Has(pool, q.c) THEN "ok" ELSE "failed")
<1>1. Task(q) /\ q.op = "rename" /\ q.at = "nConfirm" /\ Running(p) /\ Read(p, r)
  BY DEF Types, Confirm, Task, Steps, RunType, Commands, Running
<1>2. Task(r) /\ Rest(r, q) /\ r.at = "done" /\ (r.res = "ok" => Has(pool, q.c))
  BY <1>1, FinishIs
<1> HIDE DEF r
<1>3. Worked(r) => Work(pool, r)
  BY <1>1, <1>2 DEF Worked, Work, Rest
<1> QED BY <1>1, <1>2, <1>3, ReadIs DEF Rest, Like

LEMMA StepIs == ASSUME Types, NEW p \in Proc, Step(p) PROVE Stepped(p)
BY CreateLunIs, ListSnapshotsIs, CreateSnapshotIs, CloneSnapshotIs, ClearSnapshotIs, MakeCloneIs,
   UndoSnapshotIs, NextNameIs, FindForCloneIs, MakeCloneFromIs, ProvisionIs, FindSnapshotIs,
   SnapshotClonesIs, RemoveMountIs, DeleteSnapshotIs, MakeMountIs, IsLunIs, GetLunIs, DeleteLunIs,
   DeleteOriginIs, DependenciesIs, RollbackListIs, RollbackIs, NewNameIs, OldNameIs, RenameIs,
   ConfirmIs DEF Step

\* What begins, runs again, or ends between the commands.
Between(p) ==
    /\ DOMAIN pr' = Proc /\ \A o \in Proc : Task(pr'[o])
    /\ \A o \in Proc \ {p} : Like(pr'[o], pr[o])
    /\ pool' = pool /\ UNCHANGED <<clock, late, blame, forgot>>
    /\ conf' \in [Vol -> SUBSET Snap]

LEMMA BeginIs ==
    ASSUME Types, NEW p \in Proc, Begin(p)
    PROVE  /\ Between(p) /\ Turn(p) /\ pr[p].at = "idle" /\ pr'[p].at = "again" /\ pr'[p].org = None
           /\ \A o \in Proc \ {p} : Locked(pr'[p]) \cap Locked(pr[o]) = {}
           /\ \A v \in Vol : conf'[v] \subseteq conf[v]
           /\ pr'[p].op \in {"destroy", "rename"} => conf'[pr'[p].v] = {}
           /\ pr'[p].op = "delsnap" => pr'[p].s \notin conf'[pr'[p].v]
           /\ \A v \in Vol : v # pr'[p].v \/ pr'[p].op \notin {"destroy", "delsnap"} =>
                 conf'[v] = conf[v]
           /\ pr'[p].op \in Cmds /\ Allowed(p, pr'[p].op, pr'[p].v, pr'[p].s, pr'[p].c)
           /\ pr'[p].op = "rename" => pr'[p].id = pool.zvol[pr'[p].v].id
           /\ \A r \in late : {r.v, r.c} \cap {pr'[p].v, pr'[p].c} \subseteq {None}
           /\ Seeing'
<1>1. PICK op \in Cmds, v \in Vol, s \in Snap \cup {None}, c \in Vol \cup {None} : Ask(p, op, v, s, c)
  BY DEF Begin
<1> DEFINE n == IF op = "unmount" THEN <<v, s>> ELSE None
           i == IF op = "rename" THEN pool.zvol[v].id ELSE 0
           k == pr[p].errs
           q == [NoRun EXCEPT !.op = op, !.at = "again", !.v = v, !.s = s, !.c = c,
                              !.n = n, !.id = i, !.errs = k]
<1>2. /\ Allowed(p, op, v, s, c)
      /\ \A o \in Proc : Locked(q) \cap Locked(pr[o]) = {}
      /\ conf' = [conf EXCEPT ![v] = IF op = "destroy" THEN {}
                                     ELSE IF op = "delsnap" THEN @ \ {s} ELSE @]
      /\ Set(p, pool, q) /\ UNCHANGED <<clock, late, blame, forgot>>
  BY <1>1 DEF Ask
<1>3. /\ Proper(pool) /\ pool \in PoolType /\ conf \in [Vol -> SUBSET Snap] /\ v \in Name
      /\ op \in Commands /\ op # "none" /\ Task(pr[p]) /\ pr[p].at = "idle"
      /\ Turn(p)
  BY SnapshotsAssumption DEF Types, Proper, Name, Begin, Commands
<1>4. op \in {"snap", "delsnap", "cloneSnap", "mount", "unmount", "rollback"} => s \in Snap
  <2>1. op = "delsnap" => s \in Snap
    <3>1. CASE s \in conf[v]
      BY <1>3, <3>1
    <3>2. CASE s \in SnapNames(pool, v) \ Vol /\ Has(pool, v)
      BY <1>3, <3>2, SnapNamesAre DEF HasSnap
    <3> QED BY <1>2, <3>1, <3>2 DEF Allowed, RollbackPossible
  <2>2. op = "unmount" => s \in Snap
    BY <1>2 DEF Allowed, RollbackPossible, Mount
  <2>3. op \in {"snap", "cloneSnap", "mount", "rollback"} => s \in Snap
    BY <1>2, <1>3 DEF Allowed, RollbackPossible
  <2> QED BY <2>1, <2>2, <2>3
<1>5. op \in {"clone", "cloneSnap", "rename"} => c \in Vol /\ c # v
  BY <1>2 DEF Allowed, RollbackPossible, Free
<1>6. n \in Name \cup {None} /\ (op = "unmount" => n = <<v, s>>)
  BY <1>4 DEF Name, Mount
<1>7. i \in Nat /\ k \in Nat
  <2>1. op = "rename" => Has(pool, v)
    BY <1>2 DEF Allowed, RollbackPossible
  <2> QED BY <1>3, <2>1, ZvolIs DEF Task, RunType
<1>17. op = "rename" => i = pool.zvol[v].id
  OBVIOUS
<1>18. \A r \in late : {r.v, r.c} \cap {v, c} \subseteq {None}
  BY <1>1 DEF Ask
<1>8. op = "rename" => conf[v] = {}
  BY <1>2 DEF Allowed, RollbackPossible
<1> HIDE DEF n, i, k
<1>9. /\ Task(q) /\ q.op = op /\ q.at = "again" /\ q.v = v /\ q.s = s /\ q.c = c
      /\ q.org = None /\ q.id = i
  <2>1. NoRun \in RunType /\ NoRun.org = None
    BY NoRunIs DEF Task
  <2>2. "again" \in Steps(op) /\ "again" \in Ats
    <3>1. "again" \in Steps(op)
      BY <1>3 DEF Commands, Steps
    <3> QED BY <1>3, <3>1 DEF Ats
  <2> HIDE DEF NoRun
  <2> DEFINE x == [NoRun EXCEPT !.op = op, !.at = "again"]
             y == [x EXCEPT !.v = v, !.s = s]
             w == [y EXCEPT !.c = c]
             z == [w EXCEPT !.n = n]
  <2>8. x \in RunType /\ x.op = op /\ x.at = "again" /\ x.org = None
    BY <1>3, <2>1, <2>2 DEF RunType
  <2>4. q = [z EXCEPT !.id = i, !.errs = k]
    BY <2>1
  <2> HIDE DEF x
  <2>3. y \in RunType /\ y.op = op /\ y.at = "again" /\ y.v = v /\ y.s = s /\ y.org = None
    BY <1>3, <2>8 DEF RunType
  <2> HIDE DEF y
  <2>9. /\ w \in RunType /\ w.op = op /\ w.at = "again" /\ w.v = v /\ w.s = s /\ w.org = None /\ w.c = c
    BY <1>3, <2>3 DEF RunType
  <2> HIDE DEF w
  <2>5. /\ z \in RunType /\ z.op = op /\ z.at = "again" /\ z.v = v /\ z.s = s /\ z.org = None
        /\ z.c = c /\ z.n = n
    BY <1>6, <2>9 DEF RunType
  <2> HIDE DEF z, q
  <2>6. /\ q \in RunType /\ q.op = op /\ q.at = "again" /\ q.v = v /\ q.s = s /\ q.org = None
        /\ q.c = c /\ q.n = n /\ q.id = i
    BY <1>7, <2>4, <2>5 DEF RunType
  <2>7. Args(q)
    BY <1>3, <1>4, <1>5, <1>6, <2>6 DEF Args
  <2> QED BY <2>2, <2>6, <2>7 DEF Task
<1> HIDE DEF q
<1>10. Becomes(p, pool, q)
  BY <1>2, <1>3, <1>9, SetIs
<1>11. conf' \in [Vol -> SUBSET Snap] /\ \A w \in Vol : conf'[w] \subseteq conf[w]
  BY <1>2, <1>3
<1>12. Between(p) /\ Like(pr'[p], q)
  BY <1>2, <1>10, <1>11 DEF Between, Becomes
<1>13. \A o \in Proc \ {p} : Locked(pr'[p]) \cap Locked(pr[o]) = {}
  BY <1>2, <1>12 DEF Locked, Like
<1>14. op \in {"destroy", "rename"} => conf'[v] = {}
  BY <1>2, <1>3, <1>8
<1>15. op = "delsnap" => s \notin conf'[v]
  BY <1>2, <1>3
<1>16. /\ pr'[p].at = "again" /\ pr'[p].org = None /\ pr'[p].op = op /\ pr'[p].v = v
       /\ pr'[p].s = s /\ pr'[p].c = c /\ pr'[p].id = i
  BY <1>9, <1>12 DEF Like
<1>19. \A w \in Vol : w # v \/ op \notin {"destroy", "delsnap"} => conf'[w] = conf[w]
  BY <1>2, <1>3
<1>20. Seeing' /\ Allowed(p, op, v, s, c)
  BY <1>2, <1>10 DEF Becomes
<1> QED BY <1>3, <1>11, <1>12, <1>13, <1>14, <1>15, <1>16, <1>17, <1>18, <1>19, <1>20

LEMMA RunIs ==
    ASSUME Types, NEW p \in Proc, Run(p)
    PROVE  /\ Between(p) /\ conf' = conf /\ Turn(p)
           /\ pr[p].at = "again" /\ Rest(pr'[p], pr[p])
           /\ pr'[p].at \in {"mkvol", "list", "find", "cSnap", "cFind", "isLun", "mClone", "read",
                             "rList", "nNew"}
           /\ Seeing'
<1> DEFINE q == pr[p]
           at == First(q.op)
           r == Go(q, at)
<1>1. Task(q) /\ q.at = "again" /\ q.op \in Commands /\ q.op # "none"
  BY DEF Run, Types, Task, RunType, Steps, Commands
<1>2. /\ at \in {"mkvol", "list", "find", "cSnap", "cFind", "isLun", "mClone", "read", "rList", "nNew"}
      /\ at \in Steps(q.op) /\ (q.op = "destroy" => at = "isLun")
  BY <1>1 DEF First, Commands, Steps
<1>3. Read(p, r) /\ Turn(p)
  BY DEF Run
<1> HIDE DEF at
<1>4. Task(r) /\ r.at = at /\ Rest(r, q)
  BY <1>1, <1>2, GoIs
<1> HIDE DEF r
<1>5. Becomes(p, pool, r) /\ Quiet
  BY <1>3, <1>4, SetIs DEF Read, Types
<1> QED BY <1>1, <1>2, <1>3, <1>4, <1>5 DEF Between, Becomes, Quiet, Like, Rest, Types

LEMMA EndIs ==
    ASSUME Types, NEW p \in Proc, End(p)
    PROVE  /\ Between(p) /\ conf' = conf /\ pr[p].at = "done"
           /\ pr'[p].op = "none" /\ pr'[p].at = "idle" /\ pr'[p].org = None
<1> DEFINE k == pr[p].errs
           q == [NoRun EXCEPT !.errs = k]
<1>1. k \in Nat /\ DOMAIN pr = Proc
  BY DEF Types, Task, RunType
<1>2. pr' = [pr EXCEPT ![p] = q] /\ pr[p].at = "done" /\ pool' = pool /\ Quiet
  BY DEF End
<1> HIDE DEF k
<1>3. Task(q) /\ q.op = "none" /\ q.at = "idle" /\ q.org = None
  BY <1>1, NoTask
<1> HIDE DEF q
<1>4. pr'[p] = q /\ DOMAIN pr' = Proc /\ \A o \in Proc \ {p} : pr'[o] = pr[o]
  BY <1>1, <1>2
<1>5. \A o \in Proc \ {p} : Like(pr'[o], pr[o]) /\ Task(pr'[o])
  BY <1>4 DEF Like, Types
<1>6. conf \in [Vol -> SUBSET Snap]
  BY DEF Types
<1> QED BY <1>2, <1>3, <1>4, <1>5, <1>6 DEF Between, Quiet

\* A kill: the call under way is made at once, or never, or it is left to come.
LEMMA KillIs ==
    ASSUME Types, NEW p \in Proc, Kill(p)
    PROVE  /\ DOMAIN pr' = Proc /\ \A o \in Proc : Task(pr'[o])
           /\ \A o \in Proc \ {p} : Like(pr'[o], pr[o])
           /\ Running(p) /\ Moves(pr[p], pool, pool')
           /\ Rest(pr'[p], pr[p]) /\ pr'[p].at \in {"again", "done"} /\ pr'[p].org = None
           /\ pr'[p].at = "done" => pr'[p].res = "failed"
           /\ Seeing'
           /\ conf' = conf /\ clock' = clock /\ \A r \in late' : Late(r)
           /\ late' = late \/ late' = late \cup {Request(pr[p])}
           /\ blame \subseteq blame' /\ forgot \subseteq forgot'
           /\ pr[p].op = "clone" => OwnSnap(pr[p]) \subseteq blame'
           /\ pr[p].at \in {"del", "origin"} /\ pr[p].org # None => pr[p].org \in blame'
           /\ pr[p].op = "rollback" /\ Has(pool, pr[p].v) => pool.zvol[pr[p].v].id \in forgot'
<1> DEFINE q == pr[p]
           n == IF q.op = "unmount" THEN q.n ELSE None
           again == [NoRun EXCEPT !.op = q.op, !.at = "again", !.v = q.v, !.s = q.s, !.c = q.c,
                                  !.n = n, !.id = q.id, !.seen = q.seen, !.errs = q.errs + 1]
           r == IF q.op = "snap" THEN [Raised(q) EXCEPT !.errs = @ + 1] ELSE again
           S == CASE q.op = "clone" -> OwnSnap(q) [] q.at \in {"del", "origin"} -> {q.org} \ {None}
                  [] OTHER -> {}
<1>1. /\ Task(q) /\ q \in RunType /\ Running(p) /\ Proper(pool) /\ q.at # "done"
      /\ conf \in [Vol -> SUBSET Snap]
  BY SnapshotsAssumption DEF Types, Kill, Task
<1>2. q.op \in Commands /\ q.op # "none"
  BY <1>1 DEF Running, Task, RunType, Steps
<1>3. PICK a \in {pool, Call(q, pool).a} : Set(p, a, r)
  BY DEF Kill
<1>4. Moves(q, pool, a)
  BY <1>1, <1>3, CallIs, MovesNot, TaskFits
<1>5. again \in RunType /\ again.op = q.op /\ again.at = "again" /\ again.org = None
      /\ Rest(again, q) /\ again.n = n
  <2>1. NoRun \in RunType /\ NoRun.org = None
    BY NoRunIs DEF Task
  <2>2. "again" \in Ats
    <3>1. "again" \in Steps(q.op)
      BY <1>2 DEF Commands, Steps
    <3> QED BY <1>2, <3>1 DEF Ats
  <2>3. n \in Name \cup {None}
    BY <1>1 DEF RunType
  <2> HIDE DEF NoRun, n
  <2> DEFINE x == [NoRun EXCEPT !.op = q.op, !.at = "again"]
             y == [x EXCEPT !.v = q.v, !.s = q.s]
             w == [y EXCEPT !.c = q.c]
             z == [w EXCEPT !.n = n]
  <2>12. q.v \in Vol \cup {None} /\ q.s \in Snap \cup {None} /\ q.c \in Vol \cup {None}
    BY <1>1 DEF RunType
  <2>10. x \in RunType /\ x.op = q.op /\ x.at = "again" /\ x.org = None
    BY <1>2, <2>1, <2>2 DEF RunType
  <2>5. again = [z EXCEPT !.id = q.id, !.seen = q.seen, !.errs = q.errs + 1]
    BY <2>1
  <2> HIDE DEF x
  <2>4. y \in RunType /\ y.op = q.op /\ y.at = "again" /\ y.v = q.v /\ y.s = q.s /\ y.org = None
    BY <2>10, <2>12 DEF RunType
  <2> HIDE DEF y
  <2>11. /\ w \in RunType /\ w.op = q.op /\ w.at = "again" /\ w.v = q.v /\ w.s = q.s /\ w.org = None
         /\ w.c = q.c
    BY <2>4, <2>12 DEF RunType
  <2> HIDE DEF w
  <2>6. /\ z \in RunType /\ z.op = q.op /\ z.at = "again" /\ z.v = q.v /\ z.s = q.s /\ z.org = None
        /\ z.c = q.c /\ z.n = n
    BY <2>3, <2>11 DEF RunType
  <2> DEFINE k == q.errs + 1
  <2>7. k \in Nat /\ q.id \in Nat /\ q.seen \in SUBSET Nat
    BY <1>1 DEF RunType
  <2>8. again = [z EXCEPT !.id = q.id, !.seen = q.seen, !.errs = k]
    BY <2>5
  <2> HIDE DEF z, again, k
  <2>9. again \in RunType
    BY <2>6, <2>7, <2>8 DEF RunType
  <2> QED BY <2>6, <2>8, <2>9 DEF RunType, Rest
<1>6. Task(again)
  <2> HIDE DEF again
  <2>1. "again" \in Steps(q.op)
    BY <1>2 DEF Commands, Steps
  <2>2. Args(again)
    BY <1>1, <1>5 DEF Task, Args, Rest
  <2> QED BY <1>5, <2>1, <2>2 DEF Task
<1>7. /\ Task(r) /\ Rest(r, q) /\ r.at \in {"again", "done"} /\ r.org = None
      /\ r.at = "done" => r.res = "failed"
  <2>1. CASE q.op = "snap"
    <3> DEFINE z == Raised(q)
    <3>1. Task(z) /\ Rest(z, q) /\ z.at = "done" /\ z.org = None /\ z.res = "failed"
      BY <1>1, <1>2, FinishIs DEF Raised
    <3>2. r = [z EXCEPT !.errs = @ + 1]
      BY <2>1
    <3> HIDE DEF z, r
    <3> QED BY <3>1, <3>2, CountIs DEF Like, Rest
  <2>2. CASE q.op # "snap"
    BY <1>5, <1>6, <2>2
  <2> QED BY <2>1, <2>2
<1> HIDE DEF r, again
<1>8. Becomes(p, a, r)
  BY <1>3, <1>4, <1>7, SetIs DEF Moves
<1>9. \A x \in late' : Late(x)
  <2>1. late' \in {late} \cup (IF q.at \in LateCalls THEN {late \cup {Request(q)}} ELSE {})
    BY DEF Kill
  <2>2. CASE late' = late
    BY <2>2 DEF Types
  <2>3. CASE q.at \in LateCalls /\ late' = late \cup {Request(q)}
    <3> DEFINE x == Request(q)
    <3>1. x.at = q.at /\ x.v = q.v /\ x.s = q.s /\ x.c = q.c
      BY DEF Request, NoRun
    <3>2. q.op \in {"snap", "clone"} /\ (q.at # "snap" => q.op = "clone")
      BY <1>1, <1>2, <2>3, SnapshotsAssumption DEF Task, Steps, Commands
    <3>3. q.at = "snap" => q.op = "snap"
      BY <1>1, <1>2 DEF Task, Steps, Commands
    <3>4. Late(x)
      <4> HIDE DEF x
      <4> QED BY <1>1, <2>3, <3>1, <3>2, <3>3 DEF Late, Task, Args
    <3> QED BY <2>3, <3>4 DEF Types
  <2> QED BY <2>1, <2>2, <2>3
<1>10. blame' = blame \cup S
  BY DEF Kill, Blamed
<1>11. /\ q.op = "clone" => OwnSnap(q) \subseteq blame'
       /\ q.at \in {"del", "origin"} /\ q.org # None => q.org \in blame'
       /\ blame \subseteq blame'
  <2>1. q.at \in {"del", "origin"} => q.op # "clone"
    BY <1>1 DEF Task, Steps
  <2> QED BY <1>10, <2>1
<1>12. /\ forgot \subseteq forgot'
       /\ q.op = "rollback" /\ Has(pool, q.v) => pool.zvol[q.v].id \in forgot'
  BY DEF Kill
<1>13. conf' = conf /\ clock' = clock
  BY DEF Kill
<1>15. late' = late \/ late' = late \cup {Request(q)}
  BY DEF Kill
<1>14. /\ Rest(pr'[p], q) /\ pr'[p].at \in {"again", "done"} /\ pr'[p].org = None
       /\ (pr'[p].at = "done" => pr'[p].res = "failed") /\ Seeing'
  BY <1>7, <1>8 DEF Becomes, Like, Rest
<1> QED BY <1>1, <1>3, <1>4, <1>8, <1>9, <1>11, <1>12, <1>13, <1>14, <1>15 DEF Becomes

\* What happens beside the methods.
Beside ==
    /\ DOMAIN pr' = Proc
    /\ \A o \in Proc : Task(pr'[o]) /\ Like(pr'[o], pr[o]) /\ pr[o].seen \subseteq pr'[o].seen
    /\ conf' = conf /\ forgot' = forgot /\ blame \subseteq blame'

LEMMA DeliverIs ==
    ASSUME Types, NEW r \in late, Deliver(r)
    PROVE  /\ Beside /\ Late(r) /\ Moves(r, pool, pool') /\ late' = late \ {r} /\ clock' = clock
           /\ pool' = Call(r, pool).a /\ Seeing'
           /\ r.at # "cClone" /\ Has(pool, r.v) =>
                 <<pool.zvol[r.v].id, IF r.at = "snap" THEN r.s ELSE r.c>> \in blame'
<1> DEFINE a == Call(r, pool).a
<1>1. Late(r) /\ Proper(pool) /\ DOMAIN pr = Proc /\ \A p \in Proc : Task(pr[p])
  BY DEF Types
<1>2. pool' = a /\ pr' = Watch(a, pr)
  BY DEF Deliver
<1>3. Moves(r, pool, a)
  BY <1>1, LateFits, CallIs
<1> HIDE DEF a
<1>4. \A p \in Proc : /\ Task(pr'[p]) /\ Like(pr'[p], pr[p]) /\ pr[p].seen \subseteq pr'[p].seen
                      /\ pr[p].op = "clone" /\ pr[p].at # "done" /\ Has(a, pr[p].v) =>
                            a.zvol[pr[p].v].data \in pr'[p].seen
  BY <1>1, <1>2, <1>3, WatchIs DEF Moves
<1>8. Seeing'
  BY <1>2, <1>4 DEF Seeing, Like
<1>5. DOMAIN pr' = Proc
  BY <1>1, <1>2 DEF Watch
<1>6. /\ blame \subseteq blame'
      /\ r.at # "cClone" /\ Has(pool, r.v) =>
                 <<pool.zvol[r.v].id, IF r.at = "snap" THEN r.s ELSE r.c>> \in blame'
  BY BlamedIs DEF Deliver
<1>7. late' = late \ {r} /\ clock' = clock /\ conf' = conf /\ forgot' = forgot
  BY DEF Deliver
<1> QED BY <1>1, <1>2, <1>3, <1>4, <1>5, <1>6, <1>7, <1>8 DEF Beside, a

\* A write changes the data of a zvol.
Steady(a, b) ==
    \A n \in Name : /\ Has(b, n) <=> Has(a, n)
                    /\ b.zvol[n].id = a.zvol[n].id /\ b.zvol[n].origin = a.zvol[n].origin
                    /\ b.zvol[n].snaps = a.zvol[n].snaps

LEMMA WriteIs ==
    ASSUME Types, NEW v \in Vol, Write(v)
    PROVE  /\ Beside /\ Proper(pool') /\ Steady(pool, pool') /\ late' = late /\ clock' \in Nat
           /\ blame' = blame /\ Elsewhere(pool, pool', v) /\ Seeing'
<1> DEFINE d == clock'
           t == pool.zvol[v].snaps
           b == Changed(pool, v, d, t)
<1>1. /\ Proper(pool) /\ pool \in PoolType /\ DOMAIN pr = Proc /\ \A p \in Proc : Task(pr[p])
      /\ clock \in Nat /\ v \in Name /\ v \notin Mount /\ Has(pool, v)
  BY SnapshotsAssumption DEF Types, Proper, Name, Write
<1>2. d \in Nat
  BY <1>1 DEF Write
<1>3. t \in Seq(Copy) /\ pool.zvol[v] \in Zvol
  BY <1>1, ZvolIs
<1>4. pool' = b
  <2>1. pool = [zvol |-> pool.zvol, made |-> pool.made]
    BY <1>1 DEF PoolType
  <2>2. ASSUME NEW z \in Zvol, NEW y
        PROVE  [z EXCEPT !.data = y] = [id |-> z.id, origin |-> z.origin, data |-> y, snaps |-> z.snaps]
    BY DEF Zvol
  <2>3. pool' = [pool EXCEPT !.zvol[v].data = d]
    BY DEF Write
  <2> HIDE DEF d
  <2>4. pool' = [zvol |-> [pool.zvol EXCEPT ![v] = [pool.zvol[v] EXCEPT !.data = d]],
                 made |-> pool.made]
    BY <2>1, <2>3
  <2>5. [pool.zvol[v] EXCEPT !.data = d] =
            [id |-> pool.zvol[v].id, origin |-> pool.zvol[v].origin, data |-> d, snaps |-> t]
    BY <1>3, <2>2
  <2> QED BY <2>4, <2>5 DEF Changed
<1>5. \A i, j \in 1..Len(t) : t[i].name = t[j].name => i = j
  BY <1>1 DEF Proper, Distinct
<1> HIDE DEF d, t, b
<1>6. /\ Proper(b) /\ Has(b, v) /\ Elsewhere(pool, b, v)
      /\ b.zvol[v].id = pool.zvol[v].id /\ b.zvol[v].origin = pool.zvol[v].origin
      /\ b.zvol[v].snaps = t
  BY <1>1, <1>2, <1>3, <1>5, ChangedIs DEF b
<1>7. Steady(pool, b)
  <2>1. SUFFICES ASSUME NEW n \in Name \ {v}
                 PROVE  /\ Has(b, n) <=> Has(pool, n)
                        /\ b.zvol[n].id = pool.zvol[n].id /\ b.zvol[n].origin = pool.zvol[n].origin
                        /\ b.zvol[n].snaps = pool.zvol[n].snaps
    BY <1>1, <1>6 DEF Steady, t
  <2> QED BY <1>6 DEF Elsewhere, Has
<1>8. pr' = Watch(b, pr)
  BY <1>4 DEF Write
<1>9. \A p \in Proc : /\ Task(pr'[p]) /\ Like(pr'[p], pr[p]) /\ pr[p].seen \subseteq pr'[p].seen
                      /\ pr[p].op = "clone" /\ pr[p].at # "done" /\ Has(b, pr[p].v) =>
                            b.zvol[pr[p].v].data \in pr'[p].seen
  BY <1>1, <1>6, <1>8, WatchIs
<1>12. Seeing'
  BY <1>4, <1>9 DEF Seeing, Like
<1>10. DOMAIN pr' = Proc
  BY <1>8 DEF Watch
<1>11. /\ conf' = conf /\ forgot' = forgot /\ blame' = blame /\ late' = late
       /\ clock' \in Nat
  BY <1>2 DEF Write, d
<1> QED BY <1>4, <1>6, <1>7, <1>9, <1>10, <1>11, <1>12 DEF Beside

LEMMA LoseIs ==
    ASSUME Types, NEW r \in late, Lose(r)
    PROVE  /\ Beside /\ late' = late \ {r} /\ UNCHANGED <<pool, conf, clock, pr, blame, forgot>>
BY DEF Lose, Beside, Types, Like

-----------------------------------------------------------------------------
(* The types.                                                              *)

LEMMA InitTypes == Init => Types
<1> SUFFICES ASSUME Init PROVE Types
  OBVIOUS
<1>1. Proper(pool)
  <2>1. pool \in PoolType /\ \A n \in Name : ~Has(pool, n)
    BY DEF Init, PoolType, Has
  <2> QED BY <2>1 DEF Proper, Name
<1>2. DOMAIN pr = Proc /\ \A p \in Proc : Task(pr[p])
  BY NoRunIs DEF Init
<1> QED BY <1>1, <1>2 DEF Init, Types

LEMMA NextTypes == ASSUME Types, [Next]_vars PROVE Types'
<1>1. ASSUME NEW p \in Proc, Step(p) PROVE Types'
  BY <1>1, StepIs DEF Stepped, Moves, Types
<1>2. ASSUME NEW p \in Proc, Begin(p) \/ Run(p) \/ End(p) PROVE Types'
  <2>1. Between(p)
    BY <1>2, BeginIs, RunIs, EndIs
  <2> QED BY <2>1 DEF Between, Types
<1>3. ASSUME NEW p \in Proc, Kill(p) PROVE Types'
  BY <1>3, KillIs DEF Moves, Types
<1>4. ASSUME NEW r \in late, Deliver(r) PROVE Types'
  BY <1>4, DeliverIs DEF Beside, Moves, Types
<1>5. ASSUME NEW r \in late, Lose(r) PROVE Types'
  BY <1>5, LoseIs DEF Types
<1>6. ASSUME NEW v \in Vol, Write(v) PROVE Types'
  BY <1>6, WriteIs DEF Beside, Types
<1>7. CASE UNCHANGED vars
  BY <1>7 DEF vars, Types
<1> QED BY <1>1, <1>2, <1>3, <1>4, <1>5, <1>6, <1>7 DEF Next

\* The pool is as an array keeps it, and each method is at one of its steps,
\* with the arguments that step uses.
THEOREM TypeCorrect == Spec => []Types
<1>1. Init => Types
  BY InitTypes
<1>2. Types /\ [Next]_vars => Types'
  BY NextTypes
<1> QED BY <1>1, <1>2, PTL DEF Spec

-----------------------------------------------------------------------------
(* No command destroys what it was not asked to.                           *)

\* The methods that take a zvol or a snapshot away.
LEMMA OpAt ==
    ASSUME NEW q, Task(q)
    PROVE  /\ q.at = "unsnap" => q.op = "delsnap"
           /\ q.at \in {"cClear", "cUndo"} => q.op = "clone" /\ q.c \in Vol
           /\ q.at = "rDo" => q.op = "rollback"
           /\ q.at = "unmount" => <<q.v, q.s>> \in Mount
           /\ q.at = "nDo" => q.op = "rename" /\ q.c \in Vol /\ q.v \in Vol
           /\ q.at = "origin" => q.org[2] \in Vol
           /\ q.at = "del" => (q.op = "destroy" /\ q.n = q.v) \/ q.n \in Mount
<1>1. q.op \in Commands \cup {"none"} /\ q.at \in Steps(q.op) /\ Args(q)
  BY DEF Task, RunType
<1>2. /\ q.at = "unsnap" => q.op = "delsnap"
      /\ q.at \in {"cClear", "cUndo"} => q.op = "clone"
      /\ q.at = "rDo" => q.op = "rollback"
      /\ q.at = "unmount" => q.op = "delsnap"
      /\ q.at = "nDo" => q.op = "rename"
      /\ q.at = "del" => q.op \in {"destroy", "unmount"}
  BY <1>1 DEF Commands, Steps
<1>3. q.op \in {"delsnap", "unmount"} => <<q.v, q.s>> \in Mount
  BY <1>1 DEF Args, Mount
<1> QED BY <1>1, <1>2, <1>3 DEF Args

\* A disk that a method takes away, its method destroys.
LEMMA DiskGoes ==
    ASSUME NEW q, Task(q), Proper(pool), Moves(q, pool, pool'),
           NEW v \in Vol, Has(pool, v), ~Lives(pool', pool.zvol[v].id)
    PROVE  q.op = "destroy" /\ q.v = v
<1>1. v \in Name /\ v \notin Mount
  BY SnapshotsAssumption DEF Name
<1>2. ~Alike(pool, pool', v)
  BY DEF Alike, Lives
<1>3. Removed(q, pool, pool', v)
  BY <1>1, <1>2 DEF Moves
<1>4. ~(q.at = "nDo" /\ v = q.v /\ pool'.zvol[q.c] = pool.zvol[v])
  BY OpAt DEF Lives, Has
<1> QED BY <1>1, <1>3, <1>4, OpAt DEF Removed

\* So is a snapshot of a user.
LEMMA SnapGoes ==
    ASSUME NEW q, Task(q), Proper(pool), Moves(q, pool, pool'),
           NEW v \in Vol, NEW s \in Snap, Has(pool, v), Vanishes(pool.zvol[v].id, s)
    PROVE  /\ q.v = v
           /\ \/ q.op = "delsnap" /\ q.s = s
              \/ q.op = "rollback" /\ s \in Newer(pool, v, q.s)
<1>1. v \in Name /\ v \notin Mount /\ s \notin Vol /\ s \in Vol \cup Snap
  BY SnapshotsAssumption DEF Name
<1>2. HasSnap(pool, v, s)
  BY DEF Vanishes, Proper, HasSnap
<1>3. PICK u \in Vol : Has(pool', u) /\ pool'.zvol[u].id = pool.zvol[v].id /\ s \notin SnapNames(pool', u)
  BY DEF Vanishes
<1>4. Proper(pool')
  BY DEF Moves
<1>5. CASE Alike(pool, pool', v)
  <2>1. u = v
    BY <1>3, <1>4, <1>5 DEF Proper, Alike
  <2>2. ~HasSnap(pool', v, s) /\ Has(pool', v)
    BY <1>3, <2>1 DEF HasSnap
  <2>3. Dropped(q, pool, v, s)
    BY <1>1, <1>2, <2>2 DEF Moves
  <2> QED BY <1>1, <2>3, OpAt DEF Dropped
<1>6. CASE Removed(q, pool, pool', v)
  <2>1. CASE q.at = "nDo"
    <3>1. q.c \in Vol /\ pool'.zvol[q.c] = pool.zvol[v]
      BY <1>1, <1>6, <2>1, OpAt DEF Removed
    <3>2. Has(pool', q.c) /\ u = q.c
      BY <1>3, <1>4, <3>1 DEF Proper, Has
    <3>3. SnapNames(pool', u) = SnapNames(pool, v)
      BY <3>1, <3>2 DEF SnapNames
    <3> QED BY <1>2, <1>3, <3>3 DEF HasSnap
  <2>2. CASE q.at # "nDo"
    <3>1. u \in Name /\ u # v
      BY <1>3, <1>6 DEF Removed, Name
    <3>2. q.at \in {"del", "unmount", "deps"}
      BY <1>6, <2>2 DEF Removed
    <3>3. ~Added(q, pool, pool', u)
      BY <3>2 DEF Added
    <3>4. Has(pool, u)
      BY <1>3, <3>1, <3>3 DEF Moves
    <3>5. Alike(pool, pool', u)
      BY <1>3, <3>1, <3>4 DEF Moves, Removed
    <3> QED BY <1>3, <3>1, <3>4, <3>5 DEF Alike, Proper
  <2> QED BY <2>1, <2>2
<1> QED BY <1>1, <1>5, <1>6 DEF Moves

\* A late request takes nothing away.
LEMMA LateKeeps ==
    ASSUME NEW r, Late(r), NEW a, NEW b, Moves(r, a, b), NEW n \in Name, Has(a, n)
    PROVE  Alike(a, b, n) /\ \A s \in Vol \cup Snap : HasSnap(a, n, s) => HasSnap(b, n, s)
<1>1. r.at \in {"snap", "cSnap", "cAgain", "cClone"}
  BY SnapshotsAssumption DEF Late
<1>2. ~Removed(r, a, b, n)
  BY <1>1 DEF Removed
<1>3. Alike(a, b, n)
  BY <1>2 DEF Moves
<1>4. \A s \in Vol \cup Snap : ~Dropped(r, a, n, s)
  BY <1>1 DEF Dropped
<1> QED BY <1>3, <1>4 DEF Moves, Alike, HasSnap

\* So do a write, and what leaves the pool alone.
Same(a, b) ==
    \A n \in Vol : Has(a, n) => Alike(a, b, n) /\ \A s \in Snap : HasSnap(a, n, s) => HasSnap(b, n, s)

LEMMA SameGoes ==
    ASSUME Proper(pool), Proper(pool'), Same(pool, pool'), NEW v \in Vol, Has(pool, v)
    PROVE  /\ Lives(pool', pool.zvol[v].id)
           /\ \A s \in Snap : ~Vanishes(pool.zvol[v].id, s)
<1>1. Alike(pool, pool', v)
  BY DEF Same
<1>2. Lives(pool', pool.zvol[v].id)
  BY <1>1 DEF Lives, Alike
<1>3. ASSUME NEW s \in Snap, Vanishes(pool.zvol[v].id, s) PROVE FALSE
  <2>1. HasSnap(pool, v, s)
    BY <1>3 DEF Vanishes, Proper, HasSnap
  <2>2. HasSnap(pool', v, s)
    BY <2>1 DEF Same
  <2>3. PICK u \in Vol : Has(pool', u) /\ pool'.zvol[u].id = pool.zvol[v].id /\ s \notin SnapNames(pool', u)
    BY <1>3 DEF Vanishes
  <2>4. u = v
    BY <1>1, <2>3 DEF Proper, Alike
  <2> QED BY <2>2, <2>3, <2>4 DEF HasSnap
<1> QED BY <1>2, <1>3

LEMMA BesideSame ==
    ASSUME Types, \/ \E p \in Proc : Begin(p) \/ Run(p) \/ End(p)
                  \/ \E r \in late : Deliver(r) \/ Lose(r)
                  \/ \E v \in Vol : Write(v)
    PROVE  Proper(pool') /\ Same(pool, pool')
<1>1. Proper(pool)
  BY DEF Types
<1>2. ASSUME pool' = pool PROVE Proper(pool') /\ Same(pool, pool')
  BY <1>1, <1>2 DEF Same, Alike
<1>3. ASSUME NEW p \in Proc, Begin(p) \/ Run(p) \/ End(p) PROVE pool' = pool
  BY <1>3, BeginIs, RunIs, EndIs DEF Between
<1>4. ASSUME NEW r \in late, Lose(r) PROVE pool' = pool
  BY <1>4, LoseIs
<1>5. ASSUME NEW r \in late, Deliver(r) PROVE Proper(pool') /\ Same(pool, pool')
  <2>1. Late(r) /\ Moves(r, pool, pool')
    BY <1>5, DeliverIs
  <2> QED BY <2>1, LateKeeps DEF Moves, Same, Name
<1>6. ASSUME NEW v \in Vol, Write(v) PROVE Proper(pool') /\ Same(pool, pool')
  <2>1. Proper(pool') /\ Steady(pool, pool')
    BY <1>6, WriteIs
  <2> QED BY <2>1 DEF Steady, Same, Alike, HasSnap, SnapNames, Name
<1> QED BY <1>2, <1>3, <1>4, <1>5, <1>6

\* Nothing is destroyed but what a method in progress was asked to destroy:
\* disks by their deletions, snapshots of users by theirs and by rollbacks.
THEOREM NothingElseDestroyed == Spec => OnlyNamed
<1> DEFINE A ==
        /\ \A v \in Vol : Has(pool, v) /\ ~Lives(pool', pool.zvol[v].id) =>
             \E p \in Proc : pr[p].op = "destroy" /\ pr[p].v = v
        /\ \A v \in Vol, s \in Snap : Has(pool, v) /\ Vanishes(pool.zvol[v].id, s) =>
             \E p \in Proc : /\ pr[p].v = v
                             /\ \/ pr[p].op = "delsnap" /\ pr[p].s = s
                                \/ pr[p].op = "rollback" /\ s \in Newer(pool, v, pr[p].s)
<1>1. Types /\ [Next]_vars => [A]_vars
  <2>1. ASSUME Types, NEW p \in Proc, Step(p) \/ Kill(p) PROVE A
    <3>1. Task(pr[p]) /\ Proper(pool) /\ Moves(pr[p], pool, pool')
      BY <2>1, StepIs, KillIs DEF Types, Stepped
    <3> QED BY <3>1, DiskGoes, SnapGoes
  <2>2. ASSUME Types, \/ \E p \in Proc : Begin(p) \/ Run(p) \/ End(p)
                      \/ \E r \in late : Deliver(r) \/ Lose(r)
                      \/ \E v \in Vol : Write(v)
        PROVE  A
    <3>1. Proper(pool) /\ Proper(pool') /\ Same(pool, pool')
      BY <2>2, BesideSame DEF Types
    <3> QED BY <3>1, SameGoes
  <2> HIDE DEF A
  <2> QED BY <2>1, <2>2 DEF Next
<1>2. OnlyNamed <=> [][A]_vars
  BY DEF OnlyNamed
<1> HIDE DEF A
<1> QED BY <1>1, <1>2, TypeCorrect, PTL DEF Spec

-----------------------------------------------------------------------------
(* The VM configs and the array.                                           *)

\* The steps that matter to what follows, and the others.
Plain(p) ==
    /\ Stepped(p) /\ conf' = conf
    /\ pr[p].at \notin {"taken", "snap", "rDo", "cSnap", "cAgain", "cClear", "cClone", "cUndo",
                        "read", "del", "origin"}
    /\ pr'[p].at \notin {"rDo", "cClear", "cClone", "cUndo", "del", "origin"}

LEMMA Kinds ==
    ASSUME Types, NEW p \in Proc, Step(p)
    PROVE  \/ Plain(p) \/ NextName(p)
           \/ CreateSnapshot(p) \/ RollbackList(p) \/ Rollback(p)
           \/ CloneSnapshot(p) \/ ClearSnapshot(p) \/ MakeClone(p) \/ UndoSnapshot(p)
           \/ GetLun(p) \/ DeleteLun(p) \/ DeleteOrigin(p)
<1>1. CASE CreateLun(p) \/ ListSnapshots(p) \/ FindForClone(p) \/ MakeCloneFrom(p) \/ Provision(p)
  <2>1. Stepped(p) /\ pr[p].at \in {"mkvol", "list", "cFind", "cFrom", "cProv"}
        /\ pr'[p].at \in {"done", "taken", "snap", "cFrom", "cProv"}
    BY <1>1, CreateLunIs, ListSnapshotsIs, FindForCloneIs, MakeCloneFromIs, ProvisionIs
  <2> QED BY <2>1 DEF Plain, Stepped
<1>2. CASE FindSnapshot(p) \/ SnapshotClones(p) \/ RemoveMount(p) \/ DeleteSnapshot(p) \/ MakeMount(p)
  <2>1. Stepped(p) /\ pr[p].at \in {"find", "clones", "unmount", "unsnap", "mClone"}
        /\ pr'[p].at \in {"done", "clones", "unsnap", "unmount"}
    BY <1>2, FindSnapshotIs, SnapshotClonesIs, RemoveMountIs, DeleteSnapshotIs, MakeMountIs
  <2> QED BY <2>1 DEF Plain, Stepped
<1>3. CASE IsLun(p) \/ Dependencies(p) \/ NewName(p) \/ OldName(p) \/ Rename(p) \/ Confirm(p)
  <2>1. Stepped(p) /\ pr[p].at \in {"isLun", "deps", "nNew", "nOld", "nDo", "nConfirm"}
        /\ pr'[p].at \in {"done", "read", "deps", "nOld", "nDo", "nConfirm"}
    BY <1>3, IsLunIs, DependenciesIs, NewNameIs, OldNameIs, RenameIs, ConfirmIs
  <2> QED BY <2>1 DEF Plain, Stepped
<1> QED BY <1>1, <1>2, <1>3 DEF Step

\* jdssc runs one command at a time, and no disk is locked twice.
Alone == \A p, o \in Proc : Running(p) /\ Running(o) => p = o

Apart == \A p, o \in Proc : p # o => Locked(pr[p]) \cap Locked(pr[o]) = {}

\* A method about to remove a disk or a snapshot removed it from the config;
\* a rollback knows the snapshots of the config that it will remove.
Withdrawn ==
    \A p \in Proc : LET q == pr[p] IN
        /\ q.op \in {"destroy", "rename"} => conf[q.v] = {}
        /\ q.op = "delsnap" => q.s \notin conf[q.v]

Bounds ==
    \A p \in Proc : LET q == pr[p] IN
        q.at = "rDo" =>
            /\ HasSnap(pool, q.v, q.s)
            /\ \A t \in conf[q.v] :
                  \/ t \in q.gone \/ pool.zvol[q.v].id \in forgot
                  \/ HasSnap(pool, q.v, t) /\ Position(pool, q.v, t) <= Position(pool, q.v, q.s)

\* What a step leaves of the locks.
LEMMA AloneApart ==
    ASSUME Types, Alone, Apart, [Next]_vars
    PROVE  Alone' /\ Apart'
<1>1. ASSUME NEW p \in Proc, \A o \in Proc \ {p} : Like(pr'[o], pr[o]),
             \A o \in Proc \ {p} : Locked(pr'[p]) \cap Locked(pr[o]) \subseteq Locked(pr[p]),
             Turn(p) \/ Running(p) \/ pr'[p].at \in {"again", "idle"}
      PROVE  Alone' /\ Apart'
  <2>1. \A o \in Proc \ {p} : Locked(pr'[o]) = Locked(pr[o]) /\ (Running(o)' <=> Running(o))
    BY <1>1 DEF Like, Locked, Running
  <2>2. Apart'
    BY <1>1, <2>1 DEF Apart
  <2>3. Alone'
    BY <1>1, <2>1 DEF Alone, Running, Turn
  <2> QED BY <2>2, <2>3
<1>2. ASSUME NEW p \in Proc, Step(p) PROVE Alone' /\ Apart'
  <2>1. Stepped(p)
    BY <1>2, StepIs
  <2>2. \A o \in Proc \ {p} : Locked(pr'[p]) \cap Locked(pr[o]) \subseteq Locked(pr[p])
    <3>1. CASE NextName(p)
      BY <3>1, NextNameIs
    <3>2. CASE ~NextName(p)
      <4>1. pr[p].at # "taken"
        BY <1>2, <3>2, Kinds, CreateSnapshotIs, RollbackListIs, RollbackIs, CloneSnapshotIs,
           ClearSnapshotIs, MakeCloneIs, UndoSnapshotIs, GetLunIs, DeleteLunIs, DeleteOriginIs
           DEF Plain
      <4>2. Locked(pr'[p]) = Locked(pr[p])
        BY <2>1, <4>1 DEF Stepped, Locked
      <4> QED BY <4>2
    <3> QED BY <3>1, <3>2
  <2> QED BY <1>1, <2>1, <2>2 DEF Stepped
<1>3. ASSUME NEW p \in Proc, Begin(p) PROVE Alone' /\ Apart'
  BY <1>1, <1>3, BeginIs DEF Between
<1>4. ASSUME NEW p \in Proc, Run(p) \/ End(p) \/ Kill(p) PROVE Alone' /\ Apart'
  <2>1. Locked(pr'[p]) \subseteq Locked(pr[p])
    <3>1. CASE Run(p) \/ Kill(p)
      BY <3>1, RunIs, KillIs DEF Locked, Rest
    <3>2. CASE End(p)
      BY <3>2, EndIs DEF Locked
    <3> QED BY <1>4, <3>1, <3>2
  <2>2. \A o \in Proc \ {p} : Like(pr'[o], pr[o])
    BY <1>4, RunIs, EndIs, KillIs DEF Between
  <2>3. Turn(p) \/ Running(p) \/ pr'[p].at \in {"again", "idle"}
    BY <1>4, RunIs, EndIs, KillIs
  <2> QED BY <1>1, <2>1, <2>2, <2>3
<1>5. ASSUME Beside PROVE Alone' /\ Apart'
  <2>1. \A o \in Proc : Locked(pr'[o]) = Locked(pr[o]) /\ (Running(o)' <=> Running(o))
    BY <1>5 DEF Beside, Like, Locked, Running
  <2> QED BY <2>1 DEF Alone, Apart
<1>6. ASSUME NEW r \in late, Deliver(r) \/ Lose(r) PROVE Alone' /\ Apart'
  BY <1>5, <1>6, DeliverIs, LoseIs
<1>7. ASSUME NEW v \in Vol, Write(v) PROVE Alone' /\ Apart'
  BY <1>5, <1>7, WriteIs
<1>8. CASE UNCHANGED vars
  BY <1>8 DEF vars, Alone, Apart, Running
<1> QED BY <1>2, <1>3, <1>4, <1>6, <1>7, <1>8 DEF Next

-----------------------------------------------------------------------------
(* The configs and the array. *)

\* A late request leaves every snapshot where it is among the others.
LEMMA LateCopied ==
    ASSUME NEW r, Late(r), NEW a, Proper(a), NEW n \in Vol, NEW t, HasSnap(a, n, t)
    PROVE  Copied(a, Call(r, a).a, n, t)
<1> DEFINE b == Call(r, a).a
<1>1. ASSUME b.zvol[n] = a.zvol[n] PROVE Copied(a, b, n, t)
  BY <1>1 DEF Copied, HasSnap, Has, SnapNames, Position, CopyOf
<1>2. ASSUME NEW s \in Vol \cup Snap, b = create_snapshot(a, r.v, s).a PROVE Copied(a, b, n, t)
  <2>1. CASE ~Has(a, r.v) \/ s \in SnapNames(a, r.v)
    BY <1>1, <1>2, <2>1 DEF create_snapshot, Ret
  <2>2. CASE Has(a, r.v) /\ s \notin SnapNames(a, r.v)
    <3>1. r.v \in Vol /\ b = Snapped(a, r.v, s)
      BY <1>2, <2>2, SnappedIs DEF Late, Ret
    <3> HIDE DEF b
    <3>2. Elsewhere(a, b, r.v) /\ \A x : HasSnap(a, r.v, x) => Copied(a, b, r.v, x)
      BY <2>2, <3>1, SnappedIs
    <3>3. n = r.v \/ b.zvol[n] = a.zvol[n]
      BY <3>2 DEF Elsewhere, Name
    <3> QED BY <1>1, <3>2, <3>3 DEF b
  <2> QED BY <2>1, <2>2
<1>3. CASE r.at = "cClone"
  <2>1. b = create_volume_from_snapshot(a, r.c, r.v, r.c).a
    BY <1>3 DEF Call
  <2>2. CASE Has(a, r.c) \/ ~HasSnap(a, r.v, r.c)
    BY <1>1, <2>1, <2>2 DEF create_volume_from_snapshot, Ret
  <2>3. CASE ~Has(a, r.c) /\ HasSnap(a, r.v, r.c)
    <3>1. \E o, d : b = Made(a, r.c, o, d)
      BY <2>1, <2>3 DEF create_volume_from_snapshot, Ret
    <3>2. n # r.c /\ n \in Name /\ a.zvol \in [Name -> Zvol \cup {None}]
      BY <2>3 DEF HasSnap, Name, Proper, PoolType
    <3>3. b.zvol[n] = a.zvol[n]
      BY <3>1, <3>2 DEF Made
    <3> QED BY <1>1, <3>3
  <2> QED BY <2>2, <2>3
<1>4. CASE r.at \in {"snap", "cSnap", "cAgain"}
  BY <1>2, <1>4 DEF Call, Late
<1> QED BY <1>3, <1>4, SnapshotsAssumption DEF Late

\* A step of q takes from disk v no snapshot that the config offers.
LEMMA MoveFollows ==
    ASSUME NEW q, Task(q), Proper(pool), Moves(q, pool, pool'), forgot \subseteq forgot',
           NEW v \in Vol, NEW s \in Snap,
           Has(pool, v), HasSnap(pool, v, s) \/ pool.zvol[v].id \in forgot,
           q.op \in {"destroy", "rename"} => q.v # v,
           q.op = "delsnap" => q.v # v \/ q.s # s,
           q.at = "rDo" /\ q.v = v => pool.zvol[v].id \in forgot' \/ s \notin Newer(pool, v, q.s)
    PROVE  Has(pool', v) /\ (HasSnap(pool', v, s) \/ pool'.zvol[v].id \in forgot')
<1>1. v \in Name /\ v \notin Mount /\ s \notin Vol
  BY SnapshotsAssumption DEF Name
<1>2. ~Removed(q, pool, pool', v)
  BY <1>1, OpAt DEF Removed
<1>3. Alike(pool, pool', v)
  BY <1>1, <1>2 DEF Moves
<1>4. CASE pool.zvol[v].id \in forgot'
  BY <1>3, <1>4 DEF Alike
<1>5. CASE pool.zvol[v].id \notin forgot'
  <2>1. HasSnap(pool, v, s)
    BY <1>5
  <2>2. ~Dropped(q, pool, v, s)
    BY <1>1, <1>5, OpAt DEF Dropped
  <2> QED BY <1>1, <1>3, <2>1, <2>2 DEF Moves, Alike
<1> QED BY <1>4, <1>5

\* What the config offers for a disk with a method at work stays withdrawn.
LEMMA WithdrawnStays ==
    ASSUME Types, Alone, Apart, Withdrawn, [Next]_vars
    PROVE  Withdrawn'
<1>1. ASSUME \A v \in Vol : conf'[v] \subseteq conf[v],
             \A o \in Proc : Rest(pr'[o], pr[o]) \/ pr'[o].op \notin {"destroy", "rename", "delsnap"}
      PROVE  Withdrawn'
  <2>1. \A o \in Proc : pr[o].op # "none" => pr[o].v \in Vol
    BY DEF Types, Task, Args
  <2> QED BY <1>1, <2>1 DEF Withdrawn, Rest
<1>2. ASSUME NEW p \in Proc, CreateSnapshot(p) PROVE Withdrawn'
  <2>1. /\ Stepped(p) /\ pr[p].op = "snap" /\ pr[p].at = "snap" /\ pr[p].v \in Vol
        /\ \A v \in Vol \ {pr[p].v} : conf'[v] = conf[v]
    BY <1>2, CreateSnapshotIs DEF Types, Task, Args
  <2>2. ASSUME NEW o \in Proc, pr'[o].op \in {"destroy", "rename", "delsnap"}
        PROVE  o # p /\ pr'[o].v = pr[o].v /\ pr'[o].s = pr[o].s /\ pr'[o].op = pr[o].op
               /\ pr[o].v \in Vol /\ pr[o].v # pr[p].v
    <3>1. o # p
      BY <2>1, <2>2 DEF Stepped
    <3>2. Like(pr'[o], pr[o])
      BY <2>1, <3>1 DEF Stepped
    <3>3. pr[o].v \in Locked(pr[o]) /\ pr[p].v \in Locked(pr[p]) /\ pr[o].v \in Vol
      BY <2>1, <2>2, <3>2 DEF Like, Locked, Types, Task, Args
    <3> QED BY <3>1, <3>2, <3>3 DEF Apart, Like
  <2>3. ASSUME NEW o \in Proc, pr'[o].op \in {"destroy", "rename", "delsnap"}
        PROVE  conf'[pr'[o].v] = conf[pr[o].v]
    BY <2>1, <2>2, <2>3
  <2> QED BY <2>2, <2>3 DEF Withdrawn
<1>3. ASSUME NEW p \in Proc, Step(p), ~CreateSnapshot(p) PROVE Withdrawn'
  <2>1. Stepped(p)
    BY <1>3, StepIs
  <2>2. \A v \in Vol : conf'[v] \subseteq conf[v]
    <3>1. CASE Rollback(p)
      BY <3>1, RollbackIs
    <3>2. CASE ~Rollback(p)
      BY <1>3, <3>2, Kinds, NextNameIs, RollbackListIs, CloneSnapshotIs,
         ClearSnapshotIs, MakeCloneIs, UndoSnapshotIs, GetLunIs, DeleteLunIs, DeleteOriginIs
         DEF Plain, Stepped
    <3> QED BY <3>1, <3>2
  <2>3. Rest(pr'[p], pr[p]) \/ pr'[p].op \notin {"destroy", "rename", "delsnap"}
    <3>1. CASE pr[p].at # "taken"
      BY <2>1, <3>1 DEF Stepped, Rest
    <3>2. CASE pr[p].at = "taken"
      BY <2>1, <3>2 DEF Stepped, Types, Task, Steps, Commands, RunType
    <3> QED BY <3>1, <3>2
  <2>4. \A o \in Proc : Rest(pr'[o], pr[o]) \/ pr'[o].op \notin {"destroy", "rename", "delsnap"}
    BY <2>1, <2>3 DEF Stepped, Like, Rest
  <2> QED BY <1>1, <2>2, <2>4
<1>4. ASSUME NEW p \in Proc, Begin(p) PROVE Withdrawn'
  <2>1. /\ Between(p) /\ \A v \in Vol : conf'[v] \subseteq conf[v]
        /\ pr'[p].op \in {"destroy", "rename"} => conf'[pr'[p].v] = {}
        /\ pr'[p].op = "delsnap" => pr'[p].s \notin conf'[pr'[p].v]
    BY <1>4, BeginIs
  <2>2. ASSUME NEW o \in Proc, o # p, pr'[o].op \in {"destroy", "rename", "delsnap"}
        PROVE  /\ pr'[o].v = pr[o].v /\ pr'[o].s = pr[o].s /\ pr'[o].op = pr[o].op
               /\ pr[o].v \in Vol
    BY <2>1, <2>2 DEF Between, Like, Types, Task, Args
  <2> QED BY <2>1, <2>2 DEF Withdrawn
<1>5. ASSUME NEW p \in Proc, Run(p) \/ End(p) \/ Kill(p) PROVE Withdrawn'
  <2>1. conf' = conf /\ \A o \in Proc \ {p} : Like(pr'[o], pr[o])
    BY <1>5, RunIs, EndIs, KillIs DEF Between
  <2>2. Rest(pr'[p], pr[p]) \/ pr'[p].op = "none"
    BY <1>5, RunIs, EndIs, KillIs
  <2> QED BY <1>1, <2>1, <2>2 DEF Like, Rest
<1>6. ASSUME Beside PROVE Withdrawn'
  BY <1>1, <1>6 DEF Beside, Like, Rest
<1>7. ASSUME NEW r \in late, Deliver(r) \/ Lose(r) PROVE Withdrawn'
  BY <1>6, <1>7, DeliverIs, LoseIs
<1>8. ASSUME NEW v \in Vol, Write(v) PROVE Withdrawn'
  BY <1>6, <1>8, WriteIs
<1>9. CASE UNCHANGED vars
  BY <1>9 DEF vars, Withdrawn
<1> QED BY <1>2, <1>3, <1>4, <1>5, <1>7, <1>8, <1>9 DEF Next

LEMMA BoundsStay ==
    ASSUME Types, Alone, Bounds, ConfigFollows, [Next]_vars, Zone # "behind"
    PROVE  Bounds'
<1>1. ASSUME \A o \in Proc : pr'[o].at # "rDo" PROVE Bounds'
  BY <1>1 DEF Bounds
<1>2. ASSUME NEW p \in Proc, pr'[p].at # "rDo", Running(p) \/ Turn(p),
             \A o \in Proc \ {p} : Like(pr'[o], pr[o])
      PROVE  Bounds'
  BY <1>1, <1>2 DEF Alone, Turn, Running, Like
<1>3. ASSUME NEW p \in Proc, RollbackList(p) PROVE Bounds'
  <2>1. /\ Stepped(p) /\ pool' = pool /\ conf' = conf /\ pr[p].at = "rList"
        /\ pr'[p].v = pr[p].v /\ pr'[p].s = pr[p].s
        /\ pr'[p].at = "rDo" => /\ HasSnap(pool, pr[p].v, pr[p].s)
                                /\ Newer(pool, pr[p].v, pr[p].s) \subseteq pr'[p].gone
    BY <1>3, RollbackListIs DEF Stepped
  <2>2. CASE pr'[p].at = "rDo"
    <3> DEFINE v == pr[p].v
               s == pr[p].s
    <3>1. v \in Vol /\ v \in Name /\ Task(pr[p]) /\ Proper(pool) /\ pool \in PoolType
          /\ HasSnap(pool, v, s) /\ forgot \subseteq forgot'
      BY <1>3, <2>1, <2>2, RollbackListIs DEF Types, Task, Args, Name, Proper, Stepped
    <3>2. ASSUME NEW t \in conf[v]
          PROVE  \/ t \in pr'[p].gone \/ pool.zvol[v].id \in forgot'
                 \/ HasSnap(pool, v, t) /\ Position(pool, v, t) <= Position(pool, v, s)
      <4>1. HasSnap(pool, v, t) \/ pool.zvol[v].id \in forgot
        BY <3>1 DEF ConfigFollows
      <4>2. CASE HasSnap(pool, v, t)
        <5>1. Position(pool, v, t) \in Nat /\ Position(pool, v, s) \in Nat
          BY <3>1, <4>2, PlaceIs, ZvolIs DEF HasSnap
        <5>2. t \in Newer(pool, v, s) <=> Position(pool, v, t) > Position(pool, v, s)
          BY <3>1, <4>2, NewerIs
        <5> QED BY <2>1, <2>2, <4>2, <5>1, <5>2
      <4> QED BY <3>1, <4>1, <4>2
    <3>3. \A o \in Proc : pr'[o].at = "rDo" => o = p
      <4>1. \A o \in Proc \ {p} : pr'[o].at = pr[o].at
        BY <2>1 DEF Stepped, Like
      <4> QED BY <2>1, <4>1 DEF Alone, Running
    <3> QED BY <2>1, <2>2, <3>2, <3>3 DEF Bounds
  <2>3. CASE pr'[p].at # "rDo"
    BY <1>2, <2>1, <2>3 DEF Stepped
  <2> QED BY <2>2, <2>3
<1>4. ASSUME NEW p \in Proc, Step(p), ~RollbackList(p) PROVE Bounds'
  <2>1. Stepped(p)
    BY <1>4, StepIs
  <2>2. pr'[p].at # "rDo"
    BY <1>4, Kinds, NextNameIs, CreateSnapshotIs, RollbackIs, CloneSnapshotIs,
       ClearSnapshotIs, MakeCloneIs, UndoSnapshotIs, GetLunIs, DeleteLunIs, DeleteOriginIs
       DEF Plain
  <2> QED BY <1>2, <2>1, <2>2 DEF Stepped
<1>5. ASSUME NEW p \in Proc, Begin(p) \/ Run(p) \/ End(p) \/ Kill(p) PROVE Bounds'
  <2>1. pr'[p].at # "rDo" /\ \A o \in Proc \ {p} : Like(pr'[o], pr[o])
    BY <1>5, BeginIs, RunIs, EndIs, KillIs DEF Between
  <2>2. Running(p) \/ Turn(p)
    BY <1>5, BeginIs, RunIs, EndIs, KillIs DEF Running
  <2> QED BY <1>2, <2>1, <2>2
<1>6. ASSUME Beside,
             \A n \in Vol : Has(pool, n) => pool'.zvol[n].id = pool.zvol[n].id,
             \A n \in Vol, t \in Snap : HasSnap(pool, n, t) =>
                HasSnap(pool', n, t) /\ Position(pool', n, t) = Position(pool, n, t)
      PROVE  Bounds'
  <2>1. \A o \in Proc : /\ pr'[o].at = pr[o].at /\ pr'[o].v = pr[o].v /\ pr'[o].s = pr[o].s
                        /\ pr'[o].gone = pr[o].gone
    BY <1>6 DEF Beside, Like
  <2>2. ASSUME NEW o \in Proc, pr[o].at = "rDo"
        PROVE  pr[o].v \in Vol /\ pr[o].s \in Snap
    BY <2>2, OpAt DEF Types, Task, Args
  <2>3. ASSUME NEW o \in Proc, pr[o].at = "rDo", NEW t \in conf[pr[o].v]
        PROVE  \/ t \in pr[o].gone \/ pool'.zvol[pr[o].v].id \in forgot'
               \/ /\ HasSnap(pool', pr[o].v, t)
                  /\ Position(pool', pr[o].v, t) <= Position(pool', pr[o].v, pr[o].s)
    <3>1. pr[o].v \in Vol /\ pr[o].s \in Snap /\ t \in Snap
      BY <2>2, <2>3 DEF Types
    <3>2. Has(pool, pr[o].v) /\ HasSnap(pool, pr[o].v, pr[o].s)
      BY <2>3 DEF Bounds, HasSnap
    <3> QED BY <1>6, <2>3, <3>1, <3>2 DEF Bounds, Beside
  <2>4. conf' = conf /\ \A o \in Proc : pr[o].at = "rDo" => HasSnap(pool', pr[o].v, pr[o].s)
    BY <1>6, <2>2 DEF Bounds, Beside
  <2> QED BY <2>1, <2>3, <2>4 DEF Bounds
<1>7. ASSUME NEW r \in late, Deliver(r) PROVE Bounds'
  <2>1. /\ Beside /\ Late(r) /\ Proper(pool) /\ pool' = Call(r, pool).a
        /\ Moves(r, pool, pool')
    BY <1>7, DeliverIs DEF Types
  <2>2. \A n \in Vol, t \in Snap : HasSnap(pool, n, t) => Copied(pool, pool', n, t)
    BY <2>1, LateCopied
  <2>3. \A n \in Vol : Has(pool, n) => pool'.zvol[n].id = pool.zvol[n].id
    BY <2>1, LateKeeps DEF Alike, Name
  <2> QED BY <1>6, <2>1, <2>2, <2>3 DEF Copied
<1>8. ASSUME NEW v \in Vol, Write(v) PROVE Bounds'
  <2>1. Beside /\ Steady(pool, pool')
    BY <1>8, WriteIs
  <2>2. \A n \in Vol, t \in Snap : HasSnap(pool, n, t) =>
            HasSnap(pool', n, t) /\ Position(pool', n, t) = Position(pool, n, t)
    BY <2>1 DEF Steady, HasSnap, SnapNames, Position, Name
  <2> QED BY <1>6, <2>1, <2>2 DEF Steady, Name
<1>9. ASSUME NEW r \in late, Lose(r) PROVE Bounds'
  BY <1>6, <1>9, LoseIs
<1>10. CASE UNCHANGED vars
  BY <1>10 DEF vars, Bounds
<1> QED BY <1>3, <1>4, <1>5, <1>7, <1>8, <1>9, <1>10 DEF Next

LEMMA ConfigStays ==
    ASSUME Types, Alone, Withdrawn, Bounds, ConfigFollows, [Next]_vars
    PROVE  ConfigFollows'
<1> DEFINE Kept1(v, s) == Has(pool', v) /\ (HasSnap(pool', v, s) \/ pool'.zvol[v].id \in forgot')
<1>1. \A v \in Vol : \A s \in conf[v] :
         s \in Snap /\ Has(pool, v) /\ (HasSnap(pool, v, s) \/ pool.zvol[v].id \in forgot)
  BY DEF Types, ConfigFollows
<1>2. ASSUME NEW p \in Proc, Moves(pr[p], pool, pool'), forgot \subseteq forgot',
             NEW v \in Vol, NEW s \in conf[v],
             pr[p].at = "rDo" /\ pr[p].v = v =>
                pool.zvol[v].id \in forgot' \/ s \notin Newer(pool, v, pr[p].s)
      PROVE  Kept1(v, s)
  <2>1. Task(pr[p]) /\ Proper(pool)
    BY DEF Types
  <2>2. /\ pr[p].op \in {"destroy", "rename"} => pr[p].v # v
        /\ pr[p].op = "delsnap" => pr[p].v # v \/ pr[p].s # s
    BY <1>2 DEF Withdrawn
  <2> QED BY <1>1, <1>2, <2>1, <2>2, MoveFollows
<1>3. ASSUME NEW p \in Proc, CreateSnapshot(p) PROVE ConfigFollows'
  <2>1. /\ Stepped(p) /\ pr[p].at = "snap"
        /\ \A v \in Vol \ {pr[p].v} : conf'[v] = conf[v]
        /\ \/ conf' = conf
           \/ HasSnap(pool', pr[p].v, pr[p].s)
              /\ conf'[pr[p].v] = conf[pr[p].v] \cup {pr[p].s}
    BY <1>3, CreateSnapshotIs
  <2>2. \A v \in Vol : \A s \in conf'[v] :
           s \in conf[v] \/ (v = pr[p].v /\ s = pr[p].s /\ HasSnap(pool', v, s))
    BY <2>1
  <2>3. \A v \in Vol : \A s \in conf[v] : Kept1(v, s)
    BY <1>2, <2>1 DEF Stepped
  <2> QED BY <2>2, <2>3 DEF ConfigFollows, HasSnap
<1>4. ASSUME NEW p \in Proc, Rollback(p) PROVE ConfigFollows'
  <2>1. /\ Stepped(p) /\ pr[p].at = "rDo"
        /\ \A v \in Vol \ {pr[p].v} : conf'[v] = conf[v]
        /\ \/ conf'[pr[p].v] = conf[pr[p].v] \ pr[p].gone
           \/ conf' = conf /\ pool.zvol[pr[p].v].id \in forgot'
    BY <1>4, RollbackIs
  <2>2. pr[p].v \in Vol /\ Proper(pool) /\ HasSnap(pool, pr[p].v, pr[p].s) /\ forgot \subseteq forgot'
        /\ pr[p].v \in Name /\ pool \in PoolType
    BY <2>1, OpAt DEF Types, Task, Args, Bounds, Stepped, Name, Proper
  <2>3. ASSUME NEW v \in Vol, NEW s \in conf'[v] PROVE Kept1(v, s)
    <3>1. s \in conf[v]
      BY <2>1, <2>3
    <3>2. CASE v # pr[p].v \/ pool.zvol[v].id \in forgot'
      BY <1>2, <2>1, <3>1, <3>2 DEF Stepped
    <3>3. CASE v = pr[p].v /\ pool.zvol[v].id \notin forgot'
      <4>1. s \notin pr[p].gone /\ pool.zvol[v].id \notin forgot
        BY <2>1, <2>2, <2>3, <3>3
      <4>2. HasSnap(pool, v, s) /\ Position(pool, v, s) <= Position(pool, v, pr[p].s)
        BY <2>1, <3>1, <3>3, <4>1 DEF Bounds
      <4>3. Position(pool, v, s) \in Nat /\ Position(pool, v, pr[p].s) \in Nat
        BY <2>2, <3>3, <4>2, PlaceIs, ZvolIs DEF HasSnap
      <4>4. s \notin Newer(pool, v, pr[p].s)
        BY <2>2, <3>3, <4>2, <4>3, NewerIs
      <4> QED BY <1>2, <2>1, <3>1, <4>4 DEF Stepped
    <3> QED BY <3>2, <3>3
  <2> QED BY <2>3 DEF ConfigFollows
<1>5. ASSUME NEW p \in Proc, Step(p), ~CreateSnapshot(p), ~Rollback(p) PROVE ConfigFollows'
  <2>1. Stepped(p)
    BY <1>5, StepIs
  <2>2. conf' = conf /\ pr[p].at # "rDo"
    BY <1>5, Kinds, NextNameIs, RollbackListIs, CloneSnapshotIs,
       ClearSnapshotIs, MakeCloneIs, UndoSnapshotIs, GetLunIs, DeleteLunIs, DeleteOriginIs
       DEF Plain, Stepped
  <2> QED BY <1>2, <2>1, <2>2 DEF Stepped, ConfigFollows
<1>6. ASSUME NEW p \in Proc, Begin(p) \/ Run(p) \/ End(p) PROVE ConfigFollows'
  <2>1. pool' = pool /\ forgot' = forgot /\ \A v \in Vol : conf'[v] \subseteq conf[v]
    BY <1>6, BeginIs, RunIs, EndIs DEF Between
  <2> QED BY <2>1 DEF ConfigFollows
<1>7. ASSUME NEW p \in Proc, Kill(p) PROVE ConfigFollows'
  <2>1. /\ Moves(pr[p], pool, pool') /\ conf' = conf /\ forgot \subseteq forgot'
        /\ pr[p].op = "rollback" /\ Has(pool, pr[p].v) => pool.zvol[pr[p].v].id \in forgot'
    BY <1>7, KillIs
  <2>2. Task(pr[p])
    BY DEF Types
  <2>3. pr[p].at = "rDo" => pr[p].op = "rollback"
    BY <2>2, OpAt
  <2> QED BY <1>1, <1>2, <2>1, <2>3 DEF ConfigFollows
<1>8. ASSUME NEW r \in late, Deliver(r) PROVE ConfigFollows'
  <2>1. Beside /\ Late(r) /\ Moves(r, pool, pool')
    BY <1>8, DeliverIs
  <2>2. ASSUME NEW v \in Vol, NEW s \in conf[v] PROVE Kept1(v, s)
    <3>1. v \in Name /\ Has(pool, v) /\ s \in Snap
      BY <1>1 DEF Name
    <3>2. Alike(pool, pool', v) /\ (HasSnap(pool, v, s) => HasSnap(pool', v, s))
      BY <2>1, <3>1, LateKeeps
    <3> QED BY <1>1, <2>1, <3>2 DEF Alike, Beside
  <2> QED BY <2>1, <2>2 DEF ConfigFollows, Beside
<1>9. ASSUME NEW v \in Vol, Write(v) PROVE ConfigFollows'
  <2>1. Beside /\ Steady(pool, pool')
    BY <1>9, WriteIs
  <2>2. ASSUME NEW n \in Vol
        PROVE  /\ Has(pool', n) <=> Has(pool, n)
               /\ pool'.zvol[n].id = pool.zvol[n].id
               /\ \A s \in Snap : HasSnap(pool', n, s) <=> HasSnap(pool, n, s)
    BY <2>1 DEF Steady, HasSnap, SnapNames, Name
  <2>3. conf' = conf /\ forgot' = forgot
    BY <2>1 DEF Beside
  <2> QED BY <1>1, <2>2, <2>3 DEF ConfigFollows
<1>10. ASSUME NEW r \in late, Lose(r) PROVE ConfigFollows'
  BY <1>10, LoseIs DEF ConfigFollows
<1>11. CASE UNCHANGED vars
  BY <1>11 DEF vars, ConfigFollows
<1> QED BY <1>3, <1>4, <1>5, <1>6, <1>7, <1>8, <1>9, <1>10, <1>11 DEF Next

\* The config of no VM offers a snapshot that the array does not have, but of a
\* disk of which a rollback was killed or failed: whatever is created, cloned,
\* deleted, renamed and rolled back beside, answered twice or executed late, as
\* long as no node is behind the time zone of the array
\* (Plugin.pm _volume_snapshot_rollback, driver.py _list_snapshot_rollback_dependency).
THEOREM ConfigOffersWhatIs ==
    ASSUME Zone # "behind"
    PROVE  Spec => []ConfigFollows
<1> DEFINE Inv == Types /\ Alone /\ Apart /\ Withdrawn /\ Bounds /\ ConfigFollows
<1>1. Init => Inv
  <2> SUFFICES ASSUME Init PROVE Inv
    OBVIOUS
  <2>1. Types
    BY InitTypes
  <2>2. \A p \in Proc : pr[p].op = "none" /\ pr[p].at = "idle" /\ ~Running(p) /\ Locked(pr[p]) = {}
    BY NoRunIs DEF Init, Running, Locked
  <2>3. \A v \in Vol : conf[v] = {}
    BY DEF Init
  <2> QED BY <2>1, <2>2, <2>3 DEF Alone, Apart, Withdrawn, Bounds, ConfigFollows
<1>2. Inv /\ [Next]_vars => Inv'
  BY NextTypes, AloneApart, WithdrawnStays, BoundsStay, ConfigStays
<1> QED BY <1>1, <1>2, PTL DEF Spec

-----------------------------------------------------------------------------
(* The snapshots that clones are made from. *)

\* Method q is about to clone or to remove snapshot c of disk n.
Minds(q, n, c) ==
    \/ q.op = "clone" /\ q.v = n /\ q.c = c /\ q.at \in {"cClear", "cClone", "cUndo"}
    \/ q.at = "origin" /\ q.org = <<pool.zvol[n].id, c>>

Excused(n, c) ==
    \/ get_snapshot_clones(pool, n, c) # {}
    \/ <<pool.zvol[n].id, c>> \in blame
    \/ \E p \in Proc : Minds(pr[p], n, c)

AllExcused == \A n, c \in Vol : HasSnap(pool, n, c) => Excused(n, c)

\* What a deletion read is still so when it deletes.
Known ==
    \A p \in Proc : LET q == pr[p] IN
        q.at = "del" => Has(pool, q.n) /\ q.org = pool.zvol[q.n].origin

LEMMA KnownStays ==
    ASSUME Types, Alone, Known, [Next]_vars
    PROVE  Known'
<1>1. ASSUME NEW p \in Proc, pr'[p].at # "del", Running(p) \/ Turn(p),
             \A o \in Proc \ {p} : Like(pr'[o], pr[o])
      PROVE  Known'
  <2>1. \A o \in Proc \ {p} : pr[o].at # "del"
    BY <1>1 DEF Alone, Turn, Running
  <2>2. \A o \in Proc : pr'[o].at # "del"
    BY <1>1, <2>1 DEF Like
  <2> QED BY <2>2 DEF Known
<1>2. ASSUME NEW p \in Proc, GetLun(p) PROVE Known'
  <2>1. /\ Stepped(p) /\ pool' = pool /\ pr[p].at = "read"
        /\ pr'[p].at = "del" => Has(pool, pr'[p].n) /\ pr'[p].org = pool.zvol[pr'[p].n].origin
    BY <1>2, GetLunIs
  <2>2. \A o \in Proc \ {p} : pr'[o].at # "del"
    BY <2>1 DEF Stepped, Like, Alone, Running
  <2> QED BY <2>1, <2>2 DEF Known
<1>3. ASSUME NEW p \in Proc, Step(p), ~GetLun(p) PROVE Known'
  <2>1. Stepped(p)
    BY <1>3, StepIs
  <2>2. pr'[p].at # "del"
    BY <1>3, Kinds, NextNameIs, CreateSnapshotIs, RollbackListIs, RollbackIs, CloneSnapshotIs,
       ClearSnapshotIs, MakeCloneIs, UndoSnapshotIs, DeleteLunIs, DeleteOriginIs
       DEF Plain
  <2> QED BY <1>1, <2>1, <2>2 DEF Stepped
<1>4. ASSUME NEW p \in Proc, Begin(p) \/ Run(p) \/ End(p) \/ Kill(p) PROVE Known'
  <2>1. pr'[p].at # "del" /\ \A o \in Proc \ {p} : Like(pr'[o], pr[o])
    BY <1>4, BeginIs, RunIs, EndIs, KillIs DEF Between
  <2>2. Running(p) \/ Turn(p)
    BY <1>4, BeginIs, RunIs, EndIs, KillIs DEF Running
  <2> QED BY <1>1, <2>1, <2>2
<1>5. ASSUME Beside,
             \A n \in Name : Has(pool, n) =>
                Has(pool', n) /\ pool'.zvol[n].origin = pool.zvol[n].origin
      PROVE  Known'
  <2>1. \A o \in Proc : pr'[o].at = pr[o].at /\ pr'[o].n = pr[o].n /\ pr'[o].org = pr[o].org
    BY <1>5 DEF Beside, Like
  <2>2. \A o \in Proc : pr[o].at = "del" => pr[o].n \in Name
    BY TaskFits DEF Types, Fit
  <2> QED BY <1>5, <2>1, <2>2 DEF Known
<1>6. ASSUME NEW r \in late, Deliver(r) PROVE Known'
  <2>1. Beside /\ Late(r) /\ Moves(r, pool, pool')
    BY <1>6, DeliverIs
  <2>2. \A n \in Name : Has(pool, n) => Alike(pool, pool', n)
    BY <2>1, LateKeeps
  <2> QED BY <1>5, <2>1, <2>2 DEF Alike
<1>7. ASSUME NEW v \in Vol, Write(v) PROVE Known'
  BY <1>5, <1>7, WriteIs DEF Steady
<1>8. ASSUME NEW r \in late, Lose(r) PROVE Known'
  BY <1>5, <1>8, LoseIs
<1>9. CASE UNCHANGED vars
  BY <1>9 DEF vars, Known
<1> QED BY <1>2, <1>3, <1>4, <1>6, <1>7, <1>8, <1>9 DEF Next

\* The excuse of a snapshot lasts over a move of the one method at work, when
\* the method leaves one for the snapshot it makes, for that of the clone it
\* deletes, and for the one it minds.
LEMMA MoveExcuses ==
    ASSUME Types, Alone, Known, AllExcused, NEW p \in Proc, Running(p),
           Moves(pr[p], pool, pool'), blame \subseteq blame',
           NEW n \in Vol, NEW c \in Vol, HasSnap(pool', n, c),
           Alike(pool, pool', n) =>
              /\ Has(pool, n) /\ Taken(pr[p], n, c) => Excused(n, c)'
              /\ pr[p].at = "del" /\ pr[p].org = <<pool.zvol[n].id, c>> => Excused(n, c)'
              /\ Minds(pr[p], n, c) => Excused(n, c)'
    PROVE  Excused(n, c)'
<1> DEFINE q == pr[p]
<1>1. n \in Name /\ c \notin Snap /\ Task(q) /\ Proper(pool)
  BY SnapshotsAssumption DEF Name, Types
<1>2. \A k \in Vol : \A o \in Proc : Minds(pr[o], k, c) => o = p
  BY DEF Minds, Alone, Running
<1>3. CASE ~Has(pool, n)
  <2>1. Added(q, pool, pool', n)
    BY <1>1, <1>3 DEF Moves, HasSnap
  <2>2. pool'.zvol[n].snaps # <<>>
    BY DEF HasSnap, SnapNames
  <2>3. /\ q.at = "nDo" /\ n = q.c /\ q.v \in Vol /\ Has(pool, q.v)
        /\ pool'.zvol[n] = pool.zvol[q.v]
    BY <2>1, <2>2 DEF Added
  <2>4. HasSnap(pool, q.v, c)
    BY <2>3 DEF HasSnap, SnapNames
  <2>5. Excused(q.v, c)
    BY <2>3, <2>4 DEF AllExcused
  <2>6. ~Minds(q, q.v, c)
    BY <1>1, <2>3, OpAt DEF Minds
  <2>7. ASSUME NEW m \in get_snapshot_clones(pool, q.v, c)
        PROVE  get_snapshot_clones(pool', n, c) # {}
    <3>1. m \in Name /\ Has(pool, m) /\ pool.zvol[m].origin = <<pool'.zvol[n].id, c>>
      BY <2>3, <2>7 DEF get_snapshot_clones
    <3>2. CASE Alike(pool, pool', m)
      BY <3>1, <3>2 DEF Alike, get_snapshot_clones
    <3>3. CASE Removed(q, pool, pool', m)
      <4>1. pool'.zvol[n] = pool.zvol[m] /\ Has(pool', n)
        BY <2>3, <3>3 DEF Removed, HasSnap
      <4> QED BY <1>1, <3>1, <4>1 DEF get_snapshot_clones
    <3> QED BY <3>1, <3>2, <3>3 DEF Moves
  <2> QED BY <1>2, <2>3, <2>5, <2>6, <2>7 DEF Excused
<1>4. CASE Has(pool, n)
  <2>1. Alike(pool, pool', n)
    BY <1>1, <1>4 DEF Moves, Removed, HasSnap
  <2>2. HasSnap(pool, n, c) \/ Taken(q, n, c)
    BY <1>1, <1>4 DEF Moves
  <2>3. CASE Taken(q, n, c)
    BY <1>4, <2>1, <2>3
  <2>4. CASE HasSnap(pool, n, c)
    <3>1. Excused(n, c)
      BY <2>4 DEF AllExcused
    <3>2. CASE <<pool.zvol[n].id, c>> \in blame
      BY <2>1, <3>2 DEF Excused, Alike
    <3>3. CASE \E o \in Proc : Minds(pr[o], n, c)
      BY <1>2, <2>1, <3>3
    <3>4. ASSUME NEW m \in get_snapshot_clones(pool, n, c) PROVE Excused(n, c)'
      <4>1. m \in Name /\ Has(pool, m) /\ pool.zvol[m].origin = <<pool.zvol[n].id, c>>
        BY <3>4 DEF get_snapshot_clones
      <4>2. CASE Alike(pool, pool', m)
        <5>1. m \in get_snapshot_clones(pool', n, c)
          BY <2>1, <4>1, <4>2 DEF Alike, get_snapshot_clones
        <5> QED BY <5>1 DEF Excused
      <4>3. CASE q.at = "del" /\ m = q.n
        BY <2>1, <4>1, <4>3 DEF Known
      <4>4. CASE m \in Mount
        <5>1. pool.zvol[m].origin \in Nat \X Snap
          BY <1>1, <4>1, <4>4 DEF Proper, Published
        <5> QED BY <1>1, <4>1, <5>1
      <4>5. CASE q.at = "nDo" /\ m = q.v /\ Removed(q, pool, pool', m)
        <5>1. q.c \in Vol /\ pool'.zvol[q.c] = pool.zvol[m]
          BY <1>1, <4>5, OpAt DEF Removed
        <5>2. q.c \in get_snapshot_clones(pool', n, c)
          BY <2>1, <4>1, <5>1 DEF Alike, get_snapshot_clones, Has, Name
        <5> QED BY <5>2 DEF Excused
      <4>6. Alike(pool, pool', m) \/ Removed(q, pool, pool', m)
        BY <4>1 DEF Moves
      <4>7. q.at = "unmount" => <<q.v, q.s>> \in Mount
        BY <1>1, OpAt
      <4> QED BY <4>2, <4>3, <4>4, <4>5, <4>6, <4>7 DEF Removed
    <3> QED BY <3>1, <3>2, <3>3, <3>4 DEF Excused
  <2> QED BY <2>2, <2>3, <2>4
<1> QED BY <1>3, <1>4

\* The method leaves an excuse for the snapshots that MoveExcuses asks about.
Leaves(p, n, c) ==
    /\ Has(pool, n) /\ Taken(pr[p], n, c) => Excused(n, c)'
    /\ pr[p].at = "del" /\ pr[p].org = <<pool.zvol[n].id, c>> => Excused(n, c)'
    /\ Minds(pr[p], n, c) => Excused(n, c)'

LEMMA StepLeaves ==
    ASSUME Types, NEW p \in Proc, Step(p), NEW n \in Vol, NEW c \in Vol,
           Alike(pool, pool', n), HasSnap(pool', n, c)
    PROVE  Leaves(p, n, c)
<1> DEFINE q == pr[p]
           r == pr'[p]
<1>1. Task(q) /\ c \notin Snap /\ Stepped(p)
  BY StepIs, SnapshotsAssumption DEF Types
<1>0. <<pool.zvol[n].id, c>> # None
  <2>1. pool'.zvol[n].id \in Nat
    BY <1>1, ZvolIs DEF Stepped, Moves, Proper, HasSnap, Name
  <2> QED BY <2>1, SnapshotsAssumption DEF Origin, Alike
<1>2. CASE q.at \notin {"cSnap", "cAgain", "cClear", "cClone", "cUndo", "del", "origin"}
  <2>1. q.at = "snap" => q.s \in Snap
    BY <1>1, TaskFits DEF Fit
  <2> QED BY <1>1, <1>2, <2>1 DEF Leaves, Taken, Minds
<1>3. ASSUME r.at \in {"cClear", "cClone", "cUndo"}, q.op = "clone", q.v = n, q.c = c, q.at # "taken"
      PROVE  Excused(n, c)'
  <2>1. r.op = "clone" /\ r.v = n /\ r.c = c
    BY <1>1, <1>3 DEF Stepped
  <2>2. Minds(pr[p], n, c)'
    BY <1>3, <2>1 DEF Minds
  <2> QED BY <2>2 DEF Excused
<1>4. ASSUME OwnSnap(q) \subseteq blame', q.v = n, q.c = c, Has(pool, n)
      PROVE  Excused(n, c)'
  BY <1>4 DEF OwnSnap, Excused, Alike
<1>5. ASSUME get_snapshot_clones(pool', n, c) # {} PROVE Excused(n, c)'
  BY <1>5 DEF Excused
<1>6. ASSUME <<pool.zvol[n].id, c>> \in blame' PROVE Excused(n, c)'
  BY <1>6 DEF Excused, Alike
<1>7. CASE CloneSnapshot(p)
  <2>1. /\ q.op = "clone" /\ q.at \in {"cSnap", "cAgain"}
        /\ \/ r.at \in {"cClone", "cClear"} \/ ~Has(pool', q.v)
           \/ OwnSnap(q) \subseteq blame'
    BY <1>7, CloneSnapshotIs
  <2>2. Has(pool', n)
    BY DEF HasSnap
  <2> QED BY <1>3, <1>4, <2>1, <2>2 DEF Leaves, Taken, Minds
<1>8. CASE ClearSnapshot(p)
  <2>1. /\ q.op = "clone" /\ q.at = "cClear" /\ r.at \in {"cAgain", "cClone"}
        /\ r.at = "cAgain" => ~HasSnap(pool', q.v, q.c)
    BY <1>8, ClearSnapshotIs
  <2> QED BY <1>3, <2>1 DEF Leaves, Taken, Minds
<1>9. CASE MakeClone(p)
  <2>1. /\ q.op = "clone" /\ q.at = "cClone" /\ r.at \in {"cProv", "cUndo"}
        /\ r.at = "cProv" => get_snapshot_clones(pool', q.v, q.c) # {}
    BY <1>9, MakeCloneIs
  <2> QED BY <1>3, <1>5, <2>1 DEF Leaves, Taken, Minds
<1>10. CASE UndoSnapshot(p)
  <2>1. /\ q.op = "clone" /\ q.at = "cUndo"
        /\ \/ ~HasSnap(pool', q.v, q.c)
           \/ get_snapshot_clones(pool', q.v, q.c) # {}
           \/ OwnSnap(q) \subseteq blame'
    BY <1>10, UndoSnapshotIs
  <2>2. Has(pool, q.v) \/ OwnSnap(q) = {}
    BY DEF OwnSnap
  <2>3. ~Has(pool, n) => ~Has(pool', n) \/ Added(q, pool, pool', n)
    BY <1>1 DEF Stepped, Moves, Name
  <2>4. Has(pool, n)
    BY <2>1, <2>3 DEF HasSnap, Added
  <2> QED BY <1>4, <1>5, <2>1, <2>4 DEF Leaves, Taken, Minds
<1>11. CASE DeleteLun(p)
  <2>1. /\ q.at = "del"
        /\ q.org # None /\ q.org[2] \in Vol =>
              (r.at = "origin" /\ r.org = q.org) \/ q.org \in blame'
    BY <1>11, DeleteLunIs
  <2>2. ASSUME q.org = <<pool.zvol[n].id, c>> PROVE Excused(n, c)'
    <3>1. q.org # None /\ q.org[2] = c
      BY <1>0, <2>2
    <3>2. CASE q.org \in blame'
      BY <1>6, <2>2, <3>2
    <3>3. CASE r.at = "origin" /\ r.org = q.org
      <4>1. Minds(pr[p], n, c)'
        BY <2>2, <3>3 DEF Minds, Alike
      <4> QED BY <4>1 DEF Excused
    <3> QED BY <2>1, <3>1, <3>2, <3>3
  <2> QED BY <2>1, <2>2 DEF Leaves, Taken, Minds
<1>12. CASE DeleteOrigin(p)
  <2>1. /\ q.at = "origin"
        /\ \/ q.org \in blame'
           \/ \A m \in Vol : Has(pool', m) /\ pool'.zvol[m].id = q.org[1] =>
                 \/ ~HasSnap(pool', m, q.org[2])
                 \/ get_snapshot_clones(pool', m, q.org[2]) # {}
    BY <1>12, DeleteOriginIs
  <2>2. ASSUME q.org = <<pool.zvol[n].id, c>> PROVE Excused(n, c)'
    <3>1. q.org[1] = pool'.zvol[n].id /\ q.org[2] = c /\ Has(pool', n)
      BY <2>2 DEF Alike
    <3> QED BY <1>5, <1>6, <2>1, <2>2, <3>1
  <2> QED BY <2>1, <2>2 DEF Leaves, Taken, Minds
<1>13. CASE q.at \in {"cSnap", "cAgain", "cClear", "cClone", "cUndo", "del", "origin"}
  BY <1>7, <1>8, <1>9, <1>10, <1>11, <1>12, <1>13, Kinds, NextNameIs, CreateSnapshotIs,
     RollbackListIs, RollbackIs, GetLunIs DEF Plain
<1> QED BY <1>2, <1>13

LEMMA KillLeaves ==
    ASSUME Types, NEW p \in Proc, Kill(p), NEW n \in Vol, NEW c \in Vol,
           Alike(pool, pool', n), HasSnap(pool', n, c)
    PROVE  Leaves(p, n, c)
<1> DEFINE q == pr[p]
<1>1. /\ Task(q) /\ c \notin Snap
      /\ q.op = "clone" => OwnSnap(q) \subseteq blame'
      /\ q.at \in {"del", "origin"} /\ q.org # None => q.org \in blame'
      /\ Moves(q, pool, pool')
  BY KillIs, SnapshotsAssumption DEF Types
<1>2. q.at = "snap" => q.s \in Snap
  BY <1>1, TaskFits DEF Fit
<1>3. q.at \in {"cSnap", "cAgain"} => q.op = "clone"
  BY <1>1 DEF Task, Steps, Commands, RunType
<1>4. ASSUME q.op = "clone", q.v = n, q.c = c PROVE Excused(n, c)'
  <2>1. ASSUME ~Has(pool, n) PROVE FALSE
    <3>1. Added(q, pool, pool', n) /\ pool'.zvol[n].snaps # <<>>
      BY <1>1, <2>1 DEF Moves, HasSnap, SnapNames, Name
    <3>2. q.at = "nDo"
      BY <3>1 DEF Added
    <3> QED BY <1>1, <1>4, <3>2, OpAt
  <2> QED BY <1>1, <1>4, <2>1 DEF OwnSnap, Excused, Alike
<1>5. ASSUME q.at \in {"del", "origin"}, q.org = <<pool.zvol[n].id, c>> PROVE Excused(n, c)'
  <2>1. q.org # None
    <3>1. pool'.zvol[n].id \in Nat
      BY <1>1, ZvolIs DEF Moves, Proper, HasSnap, Name
    <3> QED BY <1>5, <3>1, SnapshotsAssumption DEF Origin, Alike
  <2> QED BY <1>1, <1>5, <2>1 DEF Excused, Alike
<1> QED BY <1>1, <1>2, <1>3, <1>4, <1>5 DEF Leaves, Taken, Minds

LEMMA ExcusesStay ==
    ASSUME Types, Alone, Known, AllExcused, [Next]_vars
    PROVE  AllExcused'
<1>1. ASSUME NEW p \in Proc, Step(p) \/ Kill(p) PROVE AllExcused'
  <2>1. Running(p) /\ Moves(pr[p], pool, pool') /\ blame \subseteq blame'
    BY <1>1, StepIs, KillIs DEF Stepped
  <2>2. ASSUME NEW n \in Vol, NEW c \in Vol, HasSnap(pool', n, c) PROVE Excused(n, c)'
    <3>1. Alike(pool, pool', n) => Leaves(p, n, c)
      BY <1>1, <2>2, StepLeaves, KillLeaves
    <3> QED BY <2>1, <2>2, <3>1, MoveExcuses DEF Leaves
  <2> QED BY <2>2 DEF AllExcused
<1>2. ASSUME blame \subseteq blame',
             (\A n, c \in Vol : HasSnap(pool', n, c) =>
                \/ <<pool'.zvol[n].id, c>> \in blame'
                \/ /\ HasSnap(pool, n, c) /\ pool'.zvol[n].id = pool.zvol[n].id
                   /\ \A m \in get_snapshot_clones(pool, n, c) :
                         Has(pool', m) /\ pool'.zvol[m].origin = pool.zvol[m].origin),
             NEW P, P \subseteq Proc, (\A o \in P : Like(pr'[o], pr[o])),
             \A n, c \in Vol, o \in Proc \ P : ~Minds(pr[o], n, c)
      PROVE  AllExcused'
  <2>1. ASSUME NEW n \in Vol, NEW c \in Vol, HasSnap(pool', n, c),
               <<pool'.zvol[n].id, c>> \notin blame'
        PROVE  Excused(n, c)'
    <3>1. /\ HasSnap(pool, n, c) /\ pool'.zvol[n].id = pool.zvol[n].id
          /\ \A m \in get_snapshot_clones(pool, n, c) :
                Has(pool', m) /\ pool'.zvol[m].origin = pool.zvol[m].origin
      BY <1>2, <2>1
    <3>2. Excused(n, c) /\ <<pool.zvol[n].id, c>> \notin blame
      BY <1>2, <2>1, <3>1 DEF AllExcused
    <3>3. CASE get_snapshot_clones(pool, n, c) # {}
      BY <3>1, <3>3 DEF get_snapshot_clones, Excused
    <3>4. ASSUME NEW o \in Proc, Minds(pr[o], n, c) PROVE Excused(n, c)'
      <4>1. Like(pr'[o], pr[o])
        BY <1>2, <3>4
      <4>2. Minds(pr[o], n, c)'
        BY <3>1, <3>4, <4>1 DEF Minds, Like
      <4> QED BY <4>2 DEF Excused
    <3> QED BY <3>2, <3>3, <3>4 DEF Excused
  <2> QED BY <2>1 DEF AllExcused, Excused
<1>3. ASSUME NEW p \in Proc, Begin(p) \/ Run(p) \/ End(p) PROVE AllExcused'
  <2>1. /\ pool' = pool /\ blame' = blame /\ \A o \in Proc \ {p} : Like(pr'[o], pr[o])
        /\ pr[p].at \in {"idle", "again", "done"}
    BY <1>3, BeginIs, RunIs, EndIs DEF Between
  <2>2. \A n, c \in Vol : ~Minds(pr[p], n, c)
    BY <2>1 DEF Minds
  <2>3. \A n, c \in Vol : \A m \in get_snapshot_clones(pool, n, c) : Has(pool, m)
    BY DEF get_snapshot_clones
  <2> DEFINE P == Proc \ {p}
  <2>4. P \subseteq Proc /\ (\A o \in P : Like(pr'[o], pr[o]))
        /\ \A n, c \in Vol, o \in Proc \ P : ~Minds(pr[o], n, c)
    BY <2>1, <2>2
  <2> HIDE DEF P
  <2> QED BY <1>2, <2>1, <2>3, <2>4
<1>4. ASSUME NEW r \in late, Deliver(r) PROVE AllExcused'
  <2>1. /\ Beside /\ Late(r) /\ Proper(pool) /\ Moves(r, pool, pool')
        /\ r.at # "cClone" /\ Has(pool, r.v) =>
              <<pool.zvol[r.v].id, IF r.at = "snap" THEN r.s ELSE r.c>> \in blame'
    BY <1>4, DeliverIs DEF Types
  <2>2. r.at \in {"snap", "cSnap", "cAgain", "cClone"}
    BY <2>1, SnapshotsAssumption DEF Late
  <2>3. ASSUME NEW n \in Vol, NEW c \in Vol, HasSnap(pool', n, c)
        PROVE  /\ pool'.zvol[n].id = pool.zvol[n].id
               /\ HasSnap(pool, n, c) \/ <<pool'.zvol[n].id, c>> \in blame'
    <3>1. n \in Name /\ pool'.zvol[n].snaps # <<>> /\ Has(pool', n)
      BY <2>3 DEF HasSnap, SnapNames, Name
    <3>2. Has(pool, n)
      BY <2>1, <2>2, <3>1 DEF Moves, Added
    <3>3. Alike(pool, pool', n)
      BY <2>1, <3>1, <3>2, LateKeeps
    <3>4. HasSnap(pool, n, c) \/ Taken(r, n, c)
      BY <2>1, <2>3, <3>1, <3>2 DEF Moves
    <3> QED BY <2>1, <2>2, <3>2, <3>3, <3>4 DEF Taken, Alike
  <2>4. \A n, c \in Vol : \A m \in get_snapshot_clones(pool, n, c) :
           Has(pool', m) /\ pool'.zvol[m].origin = pool.zvol[m].origin
    BY <2>1, LateKeeps DEF Alike, get_snapshot_clones
  <2> QED BY <1>2, <2>1, <2>3, <2>4 DEF Beside
<1>5. ASSUME NEW v \in Vol, Write(v) PROVE AllExcused'
  <2>1. Beside /\ Steady(pool, pool')
    BY <1>5, WriteIs
  <2>2. \A n, c \in Vol : HasSnap(pool', n, c) =>
                /\ HasSnap(pool, n, c) /\ pool'.zvol[n].id = pool.zvol[n].id
                /\ \A m \in get_snapshot_clones(pool, n, c) :
                      Has(pool', m) /\ pool'.zvol[m].origin = pool.zvol[m].origin
    BY <2>1 DEF Steady, HasSnap, SnapNames, get_snapshot_clones, Name
  <2> QED BY <1>2, <2>1, <2>2 DEF Beside
<1>6. ASSUME NEW r \in late, Lose(r) PROVE AllExcused'
  BY <1>6, LoseIs DEF AllExcused, Excused, Minds
<1>7. CASE UNCHANGED vars
  BY <1>7 DEF vars, AllExcused, Excused, Minds
<1> QED BY <1>1, <1>3, <1>4, <1>5, <1>6, <1>7 DEF Next

\* No snapshot made for a clone is left without a use, but by a call that failed
\* or a run that was killed: the clone is there, or a clone is about to be made
\* from it, or the snapshot is about to go with its clone (driver.py
\* _clone_object, _delete_volume).
THEOREM SnapshotsAreExplained == Spec => []Explained
<1> DEFINE Inv == Types /\ Alone /\ Apart /\ Known /\ AllExcused
<1>1. Init => Inv
  <2> SUFFICES ASSUME Init PROVE Inv
    OBVIOUS
  <2>1. Types
    BY InitTypes
  <2>2. \A p \in Proc : pr[p].op = "none" /\ pr[p].at = "idle" /\ ~Running(p) /\ Locked(pr[p]) = {}
    BY NoRunIs DEF Init, Running, Locked
  <2>3. \A n, c \in Vol : ~HasSnap(pool, n, c)
    BY DEF Init, HasSnap, Has, Name
  <2> QED BY <2>1, <2>2, <2>3 DEF Alone, Apart, Known, AllExcused
<1>2. Inv /\ [Next]_vars => Inv'
  BY NextTypes, AloneApart, KnownStays, ExcusesStay
<1>3. Inv => Explained
  BY DEF AllExcused, Excused, Minds, Explained
<1> QED BY <1>1, <1>2, <1>3, PTL DEF Spec

-----------------------------------------------------------------------------
(* What clones say of their sources.                                       *)

\* The snapshot a clone comes from is there; a published snapshot has the
\* name of the one it shows; a clone of a disk comes from a snapshot of its own
\* name.
Rooted(a) ==
    \A m \in Name : Has(a, m) /\ a.zvol[m].origin # None =>
        \E w \in Vol : /\ a.zvol[w].id = a.zvol[m].origin[1]
                       /\ HasSnap(a, w, a.zvol[m].origin[2])

Shown(a) == \A m \in Mount : Has(a, m) => a.zvol[m].origin[2] = m[2]

Own(a) ==
    \A m \in Name : Has(a, m) /\ a.zvol[m].origin # None /\ a.zvol[m].origin[2] \in Vol =>
        m = a.zvol[m].origin[2]

\* A snapshot that has clones, or gets one, stays with its disk.
LEMMA RootMoves ==
    ASSUME NEW q, Fit(q), NEW a, Proper(a), NEW b, Moves(q, a, b), NEW w \in Vol, NEW s,
           HasSnap(a, w, s),
           get_snapshot_clones(a, w, s) # {} \/ q.at \in {"cClone", "cFrom", "mClone"}
    PROVE  \E u \in Vol : b.zvol[u].id = a.zvol[w].id /\ HasSnap(b, u, s)
<1>1. w \in Name /\ w \notin Mount /\ s \in Vol \cup Snap /\ Has(a, w) /\ s \in SnapNames(a, w)
  BY SnapshotsAssumption, SnapNamesAre DEF Proper, Name, HasSnap
<1>2. CASE Alike(a, b, w)
  <2>1. ~Dropped(q, a, w, s)
    BY DEF Dropped
  <2> QED BY <1>1, <1>2, <2>1 DEF Moves, Alike
<1>3. CASE Removed(q, a, b, w)
  <2>1. ~(q.at = "unmount" /\ w = <<q.v, q.s>>)
    BY <1>1 DEF Fit, Mount
  <2>2. get_snapshot_clones(a, w, s) # {} => Dependents(a, w) # {}
    BY <1>1 DEF Dependents
  <2>3. q.at = "nDo" /\ b.zvol[q.c] = a.zvol[w] /\ q.c \in Vol
    BY <1>1, <1>3, <2>1, <2>2 DEF Removed, Fit
  <2> QED BY <1>1, <2>3 DEF HasSnap, Has, SnapNames
<1> QED BY <1>1, <1>2, <1>3 DEF Moves

LEMMA OriginIs ==
    ASSUME NEW a, Proper(a), NEW m \in Name, Has(a, m), a.zvol[m].origin # None
    PROVE  /\ a.zvol[m].origin \in Nat \X (Vol \cup Snap)
           /\ a.zvol[m].origin = <<a.zvol[m].origin[1], a.zvol[m].origin[2]>>
BY ZvolIs DEF Proper, Origin

LEMMA RootedMoves ==
    ASSUME NEW q, Fit(q), NEW a, Proper(a), NEW b, Moves(q, a, b), Rooted(a)
    PROVE  Rooted(b)
<1> DEFINE Found(o) == \E w \in Vol : b.zvol[w].id = o[1] /\ HasSnap(b, w, o[2])
<1>1. ASSUME NEW m \in Name, Has(a, m), a.zvol[m].origin # None
      PROVE  Found(a.zvol[m].origin)
  <2>1. PICK w \in Vol : /\ a.zvol[w].id = a.zvol[m].origin[1]
                         /\ HasSnap(a, w, a.zvol[m].origin[2])
    BY <1>1 DEF Rooted
  <2>2. m \in get_snapshot_clones(a, w, a.zvol[m].origin[2])
    BY <1>1, <2>1, OriginIs DEF get_snapshot_clones
  <2> QED BY <2>1, <2>2, RootMoves
<1>2. ASSUME NEW m \in Name, Has(b, m), ~Has(a, m), b.zvol[m].origin # None
      PROVE  Found(b.zvol[m].origin)
  <2>1. Added(q, a, b, m)
    BY <1>2 DEF Moves
  <2>2. ASSUME NEW w \in Vol, NEW s, HasSnap(a, w, s), b.zvol[m].origin = <<a.zvol[w].id, s>>,
               q.at \in {"cClone", "cFrom", "mClone"}
        PROVE  Found(b.zvol[m].origin)
    BY <2>2, RootMoves
  <2>3. CASE q.at = "nDo"
    <3>1. q.v \in Name /\ Has(a, q.v) /\ b.zvol[m] = a.zvol[q.v]
      BY <2>1, <2>3 DEF Added, Name
    <3> QED BY <1>1, <1>2, <3>1
  <2>4. CASE q.at # "nDo"
    <3>1. \E w \in Vol, s \in {q.c, q.s} : /\ HasSnap(a, w, s) /\ b.zvol[m].origin = <<a.zvol[w].id, s>>
                                           /\ q.at \in {"cClone", "cFrom", "mClone"}
      BY <1>2, <2>1, <2>4 DEF Added, Fit
    <3> QED BY <2>2, <3>1
  <2> QED BY <2>3, <2>4
<1>3. ASSUME NEW m \in Name, Has(b, m), b.zvol[m].origin # None PROVE Found(b.zvol[m].origin)
  <2>1. CASE Has(a, m)
    <3>1. Alike(a, b, m)
      BY <1>3, <2>1 DEF Moves, Removed
    <3> QED BY <1>1, <1>3, <2>1, <3>1 DEF Alike
  <2> QED BY <1>2, <1>3, <2>1
<1> QED BY <1>3 DEF Rooted

LEMMA ShownMoves ==
    ASSUME NEW q, Fit(q), NEW a, Proper(a), NEW b, Moves(q, a, b), Shown(a)
    PROVE  Shown(b)
<1> SUFFICES ASSUME NEW m \in Mount, Has(b, m) PROVE b.zvol[m].origin[2] = m[2]
  BY DEF Shown
<1>1. m \in Name /\ m \notin Vol
  BY SnapshotsAssumption DEF Name
<1>2. CASE Has(a, m)
  <2>1. Alike(a, b, m)
    BY <1>1, <1>2 DEF Moves, Removed
  <2> QED BY <1>2, <2>1 DEF Shown, Alike
<1>3. CASE ~Has(a, m)
  <2>1. Added(q, a, b, m)
    BY <1>1, <1>3 DEF Moves
  <2>2. q.at = "mClone" /\ m = <<q.v, q.s>> /\ b.zvol[m].origin = <<a.zvol[q.v].id, q.s>>
    BY <1>1, <2>1 DEF Added, Fit
  <2> QED BY <2>2
<1> QED BY <1>2, <1>3

LEMMA OwnMoves ==
    ASSUME NEW q, Fit(q), NEW a, Proper(a), NEW b, Moves(q, a, b), Own(a),
           q.at = "nDo" /\ Has(a, q.v) => a.zvol[q.v].origin = None
    PROVE  Own(b)
<1> SUFFICES ASSUME NEW m \in Name, Has(b, m), b.zvol[m].origin # None, b.zvol[m].origin[2] \in Vol
             PROVE  m = b.zvol[m].origin[2]
  BY DEF Own
<1>1. CASE Has(a, m)
  <2>1. Alike(a, b, m)
    BY <1>1 DEF Moves, Removed
  <2> QED BY <1>1, <2>1 DEF Own, Alike
<1>2. CASE ~Has(a, m)
  <2>1. Added(q, a, b, m)
    BY <1>2 DEF Moves
  <2>2. q.at \in {"cFrom", "mClone"} => q.s \notin Vol
    BY SnapshotsAssumption DEF Fit
  <2>3. q.at = "cClone" /\ m = q.c /\ b.zvol[m].origin = <<a.zvol[q.v].id, q.c>>
    BY <2>1, <2>2 DEF Added
  <2> QED BY <2>3
<1> QED BY <1>1, <1>2

\* A write changes no origin, id or snapshot.
LEMMA SteadyOrigins ==
    ASSUME NEW a, NEW b, Steady(a, b)
    PROVE  /\ Rooted(a) => Rooted(b)
           /\ Shown(a) => Shown(b)
           /\ Own(a) => Own(b)
<1>1. \A n \in Name : (Has(b, n) <=> Has(a, n)) /\ \A s : HasSnap(b, n, s) <=> HasSnap(a, n, s)
  BY DEF Steady, HasSnap, SnapNames
<1>2. Vol \subseteq Name /\ Mount \subseteq Name
  BY DEF Name
<1> QED BY <1>1, <1>2 DEF Steady, Rooted, Shown, Own

-----------------------------------------------------------------------------
(* Locked disks.                                                           *)

\* A call or a kill of p, as the methods see it.
Acts(p) ==
    /\ DOMAIN pr' = Proc /\ \A o \in Proc : Task(pr'[o])
    /\ \A o \in Proc \ {p} : Like(pr'[o], pr[o])
    /\ Moves(pr[p], pool, pool') /\ Running(p) /\ Seeing'
    /\ pr'[p].op = pr[p].op /\ pr'[p].s = pr[p].s
    /\ pr[p].op = "rename" => pr'[p].id = pr[p].id
    /\ pr[p].op \notin {"create", "clone", "cloneSnap"} => pr'[p].v = pr[p].v /\ pr'[p].c = pr[p].c
    /\ pr[p].op \in {"clone", "cloneSnap"} => pr'[p].v = pr[p].v
    /\ conf' \in [Vol -> SUBSET Snap] /\ clock' = clock

LEMMA ActsIs ==
    ASSUME Types, NEW p \in Proc, Step(p) \/ Kill(p)
    PROVE  Acts(p)
<1>1. CASE Step(p)
  <2>1. Stepped(p) /\ Task(pr[p])
    BY <1>1, StepIs DEF Types
  <2>2. pr[p].at = "taken" => pr[p].op \in {"create", "clone", "cloneSnap"}
    BY <2>1 DEF Task, Steps, RunType, Commands
  <2>3. pr[p].op \in {"clone", "cloneSnap"} => pr'[p].v = pr[p].v
    <3>1. CASE pr[p].at # "taken"
      BY <2>1, <3>1 DEF Stepped
    <3>2. CASE pr[p].at = "taken" /\ pr[p].op \in {"clone", "cloneSnap"}
      <4>1. NextName(p)
        BY <1>1, <3>2, Kinds, CreateSnapshotIs, RollbackListIs, RollbackIs, CloneSnapshotIs,
           ClearSnapshotIs, MakeCloneIs, UndoSnapshotIs, GetLunIs, DeleteLunIs, DeleteOriginIs
           DEF Plain
      <4> QED BY <3>2, <4>1, NextNameIs
    <3> QED BY <3>1, <3>2
  <2> QED BY <2>1, <2>2, <2>3 DEF Stepped, Acts
<1>2. CASE Kill(p)
  BY <1>2, KillIs DEF Acts, Rest, Types
<1> QED BY <1>1, <1>2

\* The methods that make disks.
LEMMA Makers ==
    ASSUME NEW q, Task(q)
    PROVE  /\ q.at = "mkvol" => q.op = "create"
           /\ q.at \in {"cSnap", "cAgain", "cClear", "cClone", "cUndo"} => q.op = "clone"
           /\ q.at = "cFrom" => q.op = "cloneSnap" /\ q.s \in Snap
           /\ q.at = "mClone" => q.op = "mount" /\ <<q.v, q.s>> \in Mount
           /\ q.at = "snap" => q.op = "snap"
           /\ q.at = "origin" => q.op \in {"destroy", "unmount"}
<1>1. q.op \in Commands \cup {"none"} /\ q.at \in Steps(q.op) /\ Args(q)
  BY DEF Task, RunType
<1>2. /\ q.at = "mkvol" => q.op = "create"
      /\ q.at \in {"cSnap", "cAgain", "cClear", "cClone", "cUndo"} => q.op = "clone"
      /\ q.at = "cFrom" => q.op = "cloneSnap"
      /\ q.at = "mClone" => q.op = "mount"
      /\ q.at = "snap" => q.op = "snap"
      /\ q.at = "origin" => q.op \in {"destroy", "unmount"}
  BY <1>1 DEF Commands, Steps
<1> QED BY <1>1, <1>2 DEF Args, Mount

\* What a call does not touch of disk n.
Untouched(a, b, n) == (Has(b, n) <=> Has(a, n)) /\ (Has(a, n) => Alike(a, b, n))

\* A method makes and removes no disk that it has not locked.
LEMMA NotTouched ==
    ASSUME NEW q, Task(q), NEW a, NEW b, Moves(q, a, b), NEW n \in Vol, n \notin Locked(q)
    PROVE  Untouched(a, b, n)
<1>1. n \in Name /\ n \notin Mount
  BY SnapshotsAssumption DEF Name
<1>2. ~Removed(q, a, b, n)
  <2>1. q.at = "del" => n # q.n
    BY <1>1, OpAt DEF Locked
  <2>2. q.at = "unmount" => n # <<q.v, q.s>>
    BY <1>1, OpAt
  <2>3. q.at = "nDo" => n # q.v
    BY OpAt DEF Locked
  <2> QED BY <1>1, <2>1, <2>2, <2>3 DEF Removed
<1>3. ~Added(q, a, b, n)
  <2>1. q.at = "mkvol" => n # q.v
    BY Makers DEF Locked
  <2>2. q.at \in {"cClone", "cFrom"} => n # q.c
    BY Makers DEF Locked
  <2>3. q.at = "mClone" => n # <<q.v, q.s>>
    BY <1>1, Makers
  <2>4. q.at = "nDo" => n # q.c
    BY OpAt DEF Locked
  <2> QED BY <2>1, <2>2, <2>3, <2>4 DEF Added
<1> QED BY <1>1, <1>2, <1>3 DEF Moves, Untouched, Alike

LEMMA LateTouches ==
    ASSUME NEW r, Late(r), NEW a, NEW b, Moves(r, a, b), NEW n \in Vol, r.at = "cClone" => r.c # n
    PROVE  Untouched(a, b, n)
<1>1. n \in Name
  BY DEF Name
<1>2. r.at \in {"snap", "cSnap", "cAgain", "cClone"}
  BY SnapshotsAssumption DEF Late
<1>3. ~Added(r, a, b, n) /\ ~Removed(r, a, b, n)
  BY <1>2 DEF Added, Removed
<1> QED BY <1>1, <1>3 DEF Moves, Untouched, Alike

\* A request left by a killed process makes no disk, and no snapshot of a user
\* of a disk, that a method has locked which does not expect it.
LateHeld ==
    \A r \in late, p \in Proc :
        \/ r.at = "snap" /\ r.v \in Locked(pr[p])
        \/ r.at = "cClone" /\ r.c \in Locked(pr[p])
        => pr[p].op \in {"create", "snap", "clone", "cloneSnap"}

LEMMA LateHeldStays ==
    ASSUME Types, Apart, LateHeld, [Next]_vars
    PROVE  LateHeld'
<1> DEFINE Makes(x) == x.op \in {"create", "snap", "clone", "cloneSnap"}
<1>1. ASSUME late' \subseteq late, \A o \in Proc : Makes(pr'[o]) \/ Locked(pr'[o]) \subseteq Locked(pr[o]),
             \A o \in Proc : Makes(pr'[o]) \/ ~Makes(pr[o]) \/ Locked(pr'[o]) = {}
      PROVE  LateHeld'
  BY <1>1 DEF LateHeld
<1>2. ASSUME NEW x, NEW y, Like(x, y)
      PROVE  /\ Makes(x) \/ Locked(x) \subseteq Locked(y)
             /\ Makes(x) \/ ~Makes(y) \/ Locked(x) = {}
             /\ Locked(x) = Locked(y) /\ x.op = y.op
  BY <1>2 DEF Like, Locked
<1>3. ASSUME NEW p \in Proc, Step(p) PROVE LateHeld'
  <2>1. Acts(p) /\ late' = late
    BY <1>3, ActsIs, StepIs DEF Stepped
  <2>2. /\ Makes(pr'[p]) \/ Locked(pr'[p]) \subseteq Locked(pr[p])
        /\ Makes(pr'[p]) \/ ~Makes(pr[p])
    BY <2>1 DEF Acts, Locked
  <2> QED BY <1>1, <1>2, <2>1, <2>2 DEF Acts
<1>4. ASSUME NEW p \in Proc, Begin(p) PROVE LateHeld'
  <2>1. /\ Between(p) /\ late' = late
        /\ \A r \in late : {r.v, r.c} \cap {pr'[p].v, pr'[p].c} \subseteq {None}
    BY <1>4, BeginIs DEF Between
  <2>2. Locked(pr'[p]) \subseteq Vol \cap {pr'[p].v, pr'[p].c}
    BY <2>1 DEF Between, Locked, Task, Args
  <2>3. None \notin Vol
    BY SnapshotsAssumption
  <2>4. \A r \in late : r.v \notin Locked(pr'[p]) /\ r.c \notin Locked(pr'[p])
    BY <2>1, <2>2, <2>3
  <2>5. \A o \in Proc \ {p} : Locked(pr'[o]) = Locked(pr[o]) /\ pr'[o].op = pr[o].op
    BY <1>2, <2>1 DEF Between
  <2> QED BY <2>1, <2>4, <2>5 DEF LateHeld
<1>5. ASSUME NEW p \in Proc, Run(p) \/ End(p) PROVE LateHeld'
  <2>1. Between(p) /\ late' = late
    BY <1>5, RunIs, EndIs DEF Between
  <2>2. Rest(pr'[p], pr[p]) \/ pr'[p].op = "none"
    BY <1>5, RunIs, EndIs
  <2>3. /\ Makes(pr'[p]) \/ Locked(pr'[p]) \subseteq Locked(pr[p])
        /\ Makes(pr'[p]) \/ ~Makes(pr[p]) \/ Locked(pr'[p]) = {}
    BY <2>2 DEF Rest, Locked
  <2> QED BY <1>1, <1>2, <2>1, <2>3 DEF Between
<1>6. ASSUME NEW p \in Proc, Kill(p) PROVE LateHeld'
  <2>1. /\ Task(pr[p]) /\ Rest(pr'[p], pr[p]) /\ \A o \in Proc \ {p} : Like(pr'[o], pr[o])
        /\ late' = late \/ late' = late \cup {Request(pr[p])}
    BY <1>6, KillIs DEF Types
  <2>2. \A o \in Proc : Locked(pr'[o]) = Locked(pr[o]) /\ pr'[o].op = pr[o].op
    BY <1>2, <2>1 DEF Rest, Locked
  <2>3. ASSUME NEW r, r = Request(pr[p]), NEW o \in Proc,
               \/ r.at = "snap" /\ r.v \in Locked(pr[o])
               \/ r.at = "cClone" /\ r.c \in Locked(pr[o])
        PROVE  Makes(pr[o])
    <3>1. r.at = pr[p].at /\ r.v = pr[p].v /\ r.c = pr[p].c
      BY <2>3 DEF Request, NoRun
    <3>2. /\ r.at = "snap" => pr[p].op = "snap" /\ r.v \in Locked(pr[p])
          /\ r.at = "cClone" => pr[p].op = "clone" /\ r.c \in Locked(pr[p])
      BY <2>1, <3>1, Makers DEF Locked
    <3>3. o = p
      BY <2>3, <3>2 DEF Apart
    <3> QED BY <2>3, <3>2, <3>3
  <2> QED BY <2>1, <2>2, <2>3 DEF LateHeld
<1>7. ASSUME NEW r \in late, Deliver(r) \/ Lose(r) PROVE LateHeld'
  <2>1. Beside /\ late' \subseteq late
    BY <1>7, DeliverIs, LoseIs
  <2> QED BY <1>1, <1>2, <2>1 DEF Beside
<1>8. ASSUME NEW v \in Vol, Write(v) PROVE LateHeld'
  <2>1. Beside /\ late' \subseteq late
    BY <1>8, WriteIs
  <2> QED BY <1>1, <1>2, <2>1 DEF Beside
<1>9. CASE UNCHANGED vars
  BY <1>9 DEF vars, LateHeld
<1> QED BY <1>3, <1>4, <1>5, <1>6, <1>7, <1>8, <1>9 DEF Next

\* The disk to rename is the one under the old name, and under the new one.
Renamed ==
    \A p \in Proc : LET q == pr[p] IN
        q.op = "rename" =>
            /\ Has(pool, q.v) => /\ pool.zvol[q.v].id = q.id
                                 /\ RenameClones \/ pool.zvol[q.v].origin = None
            /\ Has(pool, q.c) => pool.zvol[q.c].id = q.id

LEMMA RenamedStays ==
    ASSUME Types, Apart, LateHeld, Renamed, [Next]_vars
    PROVE  Renamed'
<1> DEFINE Same1(o) == pr'[o].op = "rename" =>
                /\ pr'[o].op = pr[o].op /\ pr'[o].v = pr[o].v /\ pr'[o].c = pr[o].c /\ pr'[o].id = pr[o].id
           Fine(o) == pr'[o].op = "rename" =>
                /\ Has(pool', pr'[o].v) => /\ pool'.zvol[pr'[o].v].id = pr'[o].id
                                           /\ RenameClones \/ pool'.zvol[pr'[o].v].origin = None
                /\ Has(pool', pr'[o].c) => pool'.zvol[pr'[o].c].id = pr'[o].id
<1>1. ASSUME NEW o \in Proc, Same1(o),
             pr[o].op = "rename" => Untouched(pool, pool', pr[o].v) /\ Untouched(pool, pool', pr[o].c)
      PROVE  Fine(o)
  BY <1>1 DEF Renamed, Untouched, Alike
<1>2. \A o \in Proc : Rest(pr'[o], pr[o]) \/ Like(pr'[o], pr[o]) \/ pr'[o].op = "none" => Same1(o)
  BY DEF Rest, Like
<1>3. \A o \in Proc : pr[o].op = "rename" =>
          pr[o].v \in Vol /\ pr[o].c \in Vol /\ pr[o].c # pr[o].v /\ Locked(pr[o]) = {pr[o].v, pr[o].c}
  BY DEF Types, Task, Args, Locked
<1>4. ASSUME pool' = pool, NEW o \in Proc, Same1(o) PROVE Fine(o)
  BY <1>1, <1>4 DEF Untouched, Alike
<1>5. ASSUME \A o \in Proc : Fine(o) PROVE Renamed'
  BY <1>5 DEF Renamed
<1>6. ASSUME NEW p \in Proc, Step(p) \/ Kill(p) PROVE Renamed'
  <2>1. Acts(p) /\ Task(pr[p])
    BY <1>6, ActsIs DEF Types
  <2>2. ASSUME NEW o \in Proc, o # p PROVE Fine(o)
    <3>1. Same1(o)
      BY <1>2, <2>1, <2>2 DEF Acts
    <3>2. ASSUME pr[o].op = "rename", NEW n \in {pr[o].v, pr[o].c} PROVE Untouched(pool, pool', n)
      <4>1. n \in Vol /\ n \notin Locked(pr[p])
        BY <1>3, <2>2, <3>2 DEF Apart
      <4> QED BY <2>1, <4>1, NotTouched DEF Acts
    <3> QED BY <1>1, <3>1, <3>2
  <2>3. Fine(p)
    <3> DEFINE q == pr[p]
    <3> SUFFICES ASSUME pr'[p].op = "rename" PROVE Fine(p)
      OBVIOUS
    <3>1. /\ q.op = "rename" /\ pr'[p].v = q.v /\ pr'[p].c = q.c /\ pr'[p].id = q.id
          /\ q.v \in Vol /\ q.c \in Vol /\ q.c # q.v /\ q.v \in Name /\ q.c \in Name
      BY <1>3, <2>1 DEF Acts, Name
    <3>2. q.at \notin {"mkvol", "cClone", "cFrom", "mClone"}
      BY <2>1, <3>1, Makers
    <3>3. ASSUME Has(pool', q.v) PROVE Alike(pool, pool', q.v) /\ Has(pool, q.v)
      <4>1. ~Added(q, pool, pool', q.v)
        BY <3>1, <3>2 DEF Added
      <4> QED BY <2>1, <3>1, <3>3, <4>1 DEF Acts, Moves, Removed
    <3>4. ASSUME Has(pool', q.c), Has(pool, q.c) PROVE Alike(pool, pool', q.c)
      BY <2>1, <3>1, <3>4 DEF Acts, Moves, Removed
    <3>5. ASSUME Has(pool', q.c), ~Has(pool, q.c)
          PROVE  Has(pool, q.v) /\ pool'.zvol[q.c] = pool.zvol[q.v]
      <4>1. Added(q, pool, pool', q.c)
        BY <2>1, <3>1, <3>5 DEF Acts, Moves
      <4> QED BY <3>2, <4>1 DEF Added
    <3> QED BY <3>1, <3>3, <3>4, <3>5 DEF Renamed, Alike
  <2> QED BY <1>5, <2>2, <2>3
<1>7. ASSUME NEW p \in Proc, Begin(p) PROVE Renamed'
  <2>1. /\ pool' = pool /\ \A o \in Proc \ {p} : Like(pr'[o], pr[o])
        /\ Allowed(p, pr'[p].op, pr'[p].v, pr'[p].s, pr'[p].c)
        /\ pr'[p].op = "rename" => pr'[p].id = pool.zvol[pr'[p].v].id
    BY <1>7, BeginIs DEF Between
  <2>2. Fine(p)
    BY <2>1 DEF Allowed, RollbackPossible, Free
  <2> HIDE DEF Fine, Same1
  <2> QED BY <1>2, <1>4, <1>5, <2>1, <2>2
<1>8. ASSUME NEW p \in Proc, Run(p) \/ End(p) PROVE Renamed'
  <2>1. /\ pool' = pool /\ \A o \in Proc \ {p} : Like(pr'[o], pr[o])
        /\ Rest(pr'[p], pr[p]) \/ pr'[p].op = "none"
    BY <1>8, RunIs, EndIs DEF Between
  <2> HIDE DEF Fine, Same1
  <2> QED BY <1>2, <1>4, <1>5, <2>1
<1>9. ASSUME NEW r \in late, Deliver(r) PROVE Renamed'
  <2>1. Beside /\ Late(r) /\ Moves(r, pool, pool')
    BY <1>9, DeliverIs
  <2>2. ASSUME NEW o \in Proc PROVE Fine(o)
    <3>1. Same1(o)
      BY <1>2, <2>1 DEF Beside
    <3>2. ASSUME pr[o].op = "rename", NEW n \in {pr[o].v, pr[o].c} PROVE Untouched(pool, pool', n)
      <4>1. r.at = "cClone" => r.c # n
        BY <1>3, <3>2 DEF LateHeld
      <4> QED BY <1>3, <2>1, <3>2, <4>1, LateTouches
    <3> QED BY <1>1, <3>1, <3>2
  <2> QED BY <1>5, <2>2
<1>10. ASSUME NEW v \in Vol, Write(v) PROVE Renamed'
  <2>1. Beside /\ \A n \in Vol : Untouched(pool, pool', n)
    BY <1>10, WriteIs DEF Steady, Untouched, Alike, Name
  <2>2. ASSUME NEW o \in Proc PROVE Fine(o)
    <3>1. Same1(o)
      BY <1>2, <2>1 DEF Beside
    <3> QED BY <1>1, <1>3, <2>1, <3>1
  <2> QED BY <1>5, <2>2
<1>11. ASSUME NEW r \in late, Lose(r) PROVE Renamed'
  BY <1>11, LoseIs DEF Renamed
<1>12. CASE UNCHANGED vars
  BY <1>12 DEF vars, Renamed
<1> QED BY <1>6, <1>7, <1>8, <1>9, <1>10, <1>11, <1>12 DEF Next

-----------------------------------------------------------------------------
(* What holds of the pool and of the methods at all times.                 *)

LEMMA OriginsStay ==
    ASSUME Types, Rooted(pool), Shown(pool), [Next]_vars
    PROVE  Rooted(pool') /\ Shown(pool')
<1>1. Proper(pool) /\ \A p \in Proc : Task(pr[p])
  BY DEF Types
<1>2. ASSUME NEW p \in Proc, Step(p) \/ Kill(p) PROVE Rooted(pool') /\ Shown(pool')
  <2>1. Moves(pr[p], pool, pool') /\ Fit(pr[p])
    BY <1>1, <1>2, ActsIs, TaskFits DEF Acts
  <2> QED BY <1>1, <2>1, RootedMoves, ShownMoves
<1>3. ASSUME pool' = pool PROVE Rooted(pool') /\ Shown(pool')
  BY <1>3
<1>4. ASSUME NEW p \in Proc, Begin(p) \/ Run(p) \/ End(p) PROVE pool' = pool
  BY <1>4, BeginIs, RunIs, EndIs DEF Between
<1>5. ASSUME NEW r \in late, Deliver(r) PROVE Rooted(pool') /\ Shown(pool')
  <2>1. Moves(r, pool, pool') /\ Fit(r)
    BY <1>5, DeliverIs, LateFits
  <2> QED BY <1>1, <2>1, RootedMoves, ShownMoves
<1>6. ASSUME NEW r \in late, Lose(r) PROVE pool' = pool
  BY <1>6, LoseIs
<1>7. ASSUME NEW v \in Vol, Write(v) PROVE Rooted(pool') /\ Shown(pool')
  BY <1>7, WriteIs, SteadyOrigins
<1>8. CASE UNCHANGED vars
  BY <1>3, <1>8 DEF vars
<1> QED BY <1>2, <1>3, <1>4, <1>5, <1>6, <1>7, <1>8 DEF Next

\* While clones are not renamed, what a clone makes for itself bears its name.
LEMMA OwnStays ==
    ASSUME Types, Renamed, Own(pool), ~RenameClones, [Next]_vars
    PROVE  Own(pool')
<1>1. Proper(pool) /\ \A p \in Proc : Task(pr[p])
  BY DEF Types
<1>2. ASSUME NEW p \in Proc, Step(p) \/ Kill(p) PROVE Own(pool')
  <2>1. Moves(pr[p], pool, pool') /\ Fit(pr[p]) /\ Task(pr[p])
    BY <1>1, <1>2, ActsIs, TaskFits DEF Acts
  <2>2. pr[p].at = "nDo" /\ Has(pool, pr[p].v) => pool.zvol[pr[p].v].origin = None
    BY <2>1, OpAt DEF Renamed
  <2> QED BY <1>1, <2>1, <2>2, OwnMoves
<1>3. ASSUME pool' = pool PROVE Own(pool')
  BY <1>3
<1>4. ASSUME NEW p \in Proc, Begin(p) \/ Run(p) \/ End(p) PROVE pool' = pool
  BY <1>4, BeginIs, RunIs, EndIs DEF Between
<1>5. ASSUME NEW r \in late, Deliver(r) PROVE Own(pool')
  <2>1. Moves(r, pool, pool') /\ Fit(r) /\ r.at # "nDo"
    BY <1>5, DeliverIs, LateFits, SnapshotsAssumption DEF Late
  <2> QED BY <1>1, <2>1, OwnMoves
<1>6. ASSUME NEW r \in late, Lose(r) PROVE pool' = pool
  BY <1>6, LoseIs
<1>7. ASSUME NEW v \in Vol, Write(v) PROVE Own(pool')
  BY <1>7, WriteIs, SteadyOrigins
<1>8. CASE UNCHANGED vars
  BY <1>3, <1>8 DEF vars
<1> QED BY <1>2, <1>3, <1>4, <1>5, <1>6, <1>7, <1>8 DEF Next

LEMMA SeeingStays ==
    ASSUME Types, Seeing, [Next]_vars
    PROVE  Seeing'
<1>1. ASSUME NEW p \in Proc, Step(p) \/ Kill(p) \/ Begin(p) \/ Run(p) PROVE Seeing'
  BY <1>1, ActsIs, BeginIs, RunIs DEF Acts
<1>2. ASSUME NEW p \in Proc, End(p) PROVE Seeing'
  <2>1. pool' = pool /\ pr'[p].op = "none"
    BY <1>2, EndIs DEF Between
  <2>2. \A o \in Proc \ {p} : pr'[o] = pr[o]
    BY <1>2 DEF End, Types
  <2> QED BY <2>1, <2>2 DEF Seeing
<1>3. ASSUME NEW r \in late, Deliver(r) \/ Lose(r) PROVE Seeing'
  <2>1. CASE Deliver(r)
    BY <2>1, DeliverIs
  <2>2. CASE Lose(r)
    BY <2>2, LoseIs DEF Seeing
  <2> QED BY <1>3, <2>1, <2>2
<1>4. ASSUME NEW v \in Vol, Write(v) PROVE Seeing'
  BY <1>4, WriteIs
<1>5. CASE UNCHANGED vars
  BY <1>5 DEF vars, Seeing
<1> QED BY <1>1, <1>2, <1>3, <1>4, <1>5 DEF Next

\* What method o was asked stays, but for the name of a new disk.
Keeps(o) ==
    /\ pr'[o].op = pr[o].op /\ pr'[o].s = pr[o].s
    /\ pr[o].op # "create" => pr'[o].v = pr[o].v

LEMMA TaskKept ==
    ASSUME Types, [Next]_vars, NEW o \in Proc
    PROVE  Keeps(o) \/ Begin(o) \/ End(o)
<1>1. ASSUME Like(pr'[o], pr[o]) PROVE Keeps(o)
  BY <1>1 DEF Like, Keeps
<1>2. ASSUME NEW p \in Proc, Step(p) \/ Kill(p) PROVE Keeps(o)
  <2>1. Acts(p)
    BY <1>2, ActsIs
  <2>2. CASE o = p
    <3>1. pr[p].op # "create" => pr'[p].v = pr[p].v
      BY <2>1 DEF Acts
    <3> QED BY <2>1, <2>2, <3>1 DEF Acts, Keeps
  <2> QED BY <1>1, <2>1, <2>2 DEF Acts
<1>3. ASSUME NEW p \in Proc, Begin(p) \/ Run(p) \/ End(p) PROVE Keeps(o) \/ Begin(o) \/ End(o)
  <2>1. Between(p) /\ (Begin(p) \/ Rest(pr'[p], pr[p]) \/ End(p))
    BY <1>3, BeginIs, RunIs, EndIs
  <2>2. CASE o = p
    BY <2>1, <2>2 DEF Rest, Keeps
  <2>3. CASE o # p
    BY <1>1, <2>1, <2>3 DEF Between
  <2> QED BY <2>2, <2>3
<1>4. ASSUME Beside PROVE Keeps(o)
  BY <1>1, <1>4 DEF Beside
<1>5. ASSUME NEW r \in late, Deliver(r) \/ Lose(r) PROVE Keeps(o)
  BY <1>4, <1>5, DeliverIs, LoseIs
<1>6. ASSUME NEW v \in Vol, Write(v) PROVE Keeps(o)
  BY <1>4, <1>6, WriteIs
<1>7. CASE UNCHANGED vars
  BY <1>7 DEF vars, Keeps
<1> QED BY <1>2, <1>3, <1>5, <1>6, <1>7 DEF Next

\* The config stops to offer a snapshot only for a method that removes it.
LEMMA OfferKept ==
    ASSUME Types, [Next]_vars, NEW v \in Vol, NEW s \in conf[v], s \notin conf'[v]
    PROVE  \E p \in Proc : pr'[p].op \in {"destroy", "delsnap", "rollback"} /\ pr'[p].v = v
<1>1. ASSUME NEW p \in Proc, Step(p)
      PROVE  pr'[p].op \in {"destroy", "delsnap", "rollback"} /\ pr'[p].v = v
  <2>1. ~CreateSnapshot(p)
    BY CreateSnapshotIs
  <2>2. Rollback(p)
    BY <1>1, <2>1, Kinds, NextNameIs, RollbackListIs, CloneSnapshotIs,
       ClearSnapshotIs, MakeCloneIs, UndoSnapshotIs, GetLunIs, DeleteLunIs, DeleteOriginIs
       DEF Plain, Stepped
  <2>3. Stepped(p) /\ pr[p].at = "rDo" /\ (v # pr[p].v => conf'[v] = conf[v]) /\ Task(pr[p])
    BY <2>2, RollbackIs DEF Types
  <2>4. pr[p].op = "rollback" /\ v = pr[p].v
    BY <2>3, OpAt
  <2> QED BY <2>3, <2>4 DEF Stepped
<1>2. ASSUME NEW p \in Proc, Begin(p)
      PROVE  pr'[p].op \in {"destroy", "delsnap", "rollback"} /\ pr'[p].v = v
  BY <1>2, BeginIs
<1>3. ASSUME NEW p \in Proc, Run(p) \/ End(p) \/ Kill(p) PROVE conf' = conf
  BY <1>3, RunIs, EndIs, KillIs
<1>4. ASSUME NEW r \in late, Deliver(r) \/ Lose(r) PROVE conf' = conf
  BY <1>4, DeliverIs, LoseIs DEF Beside
<1>5. ASSUME NEW w \in Vol, Write(w) PROVE conf' = conf
  BY <1>5, WriteIs DEF Beside
<1>6. UNCHANGED vars => conf' = conf
  BY DEF vars
<1> QED BY <1>1, <1>2, <1>3, <1>4, <1>5, <1>6 DEF Next

\* No method destroys a disk, a snapshot or what is newer than one, beside
\* another that clones a snapshot.
Offered == (\A p, o \in Proc : p = o) \/ Cmds \cap {"delsnap", "rollback", "destroy"} = {}

\* Methods do what was issued; the config offers the snapshot a method shows,
\* and the one it clones.
Issued == \A p \in Proc : pr[p].op \in Cmds \cup {"none"}

Offers ==
    \A p \in Proc : LET q == pr[p] IN
        q.op = "mount" \/ (Offered /\ q.op = "cloneSnap") => q.s \in conf[q.v]

LEMMA IssuedStays == ASSUME Types, Issued, [Next]_vars PROVE Issued'
BY TaskKept, BeginIs, EndIs DEF Issued, Keeps

LEMMA OffersStay ==
    ASSUME Types, Alone, Apart, Issued, Offers, [Next]_vars
    PROVE  Offers'
<1>1. Apart' /\ Issued' /\ Types'
  BY IssuedStays, NextTypes, AloneApart
<1> SUFFICES ASSUME NEW o \in Proc, pr'[o].op = "mount" \/ (Offered /\ pr'[o].op = "cloneSnap")
             PROVE  pr'[o].s \in conf'[pr'[o].v]
  BY DEF Offers
<1> DEFINE v == pr'[o].v
           s == pr'[o].s
<1>2. v \in Vol
  BY <1>1 DEF Types, Task, Args
<1>3. s \in conf[v]
  <2>1. CASE Keeps(o)
    BY <2>1 DEF Keeps, Offers
  <2>2. CASE Begin(o)
    BY <2>2, BeginIs DEF Allowed, RollbackPossible
  <2>3. ~End(o)
    BY EndIs
  <2> QED BY <2>1, <2>2, <2>3, TaskKept
<1>4. ASSUME s \notin conf'[v] PROVE FALSE
  <2>1. PICK p \in Proc : pr'[p].op \in {"destroy", "delsnap", "rollback"} /\ pr'[p].v = v
    BY <1>2, <1>3, <1>4, OfferKept
  <2>2. p # o
    BY <2>1
  <2>3. CASE pr'[o].op = "mount"
    <3>1. v \in Locked(pr'[p]) /\ v \in Locked(pr'[o])
      BY <2>1, <2>3 DEF Locked
    <3> QED BY <1>1, <2>2, <3>1 DEF Apart
  <2>4. CASE Offered
    BY <1>1, <2>1, <2>2, <2>4 DEF Offered, Issued
  <2> QED BY <2>3, <2>4
<1> QED BY <1>4

-----------------------------------------------------------------------------
(* One disk for each name of a snapshot.                                   *)

\* While users give no snapshot name to two disks, no two have it: neither in
\* the array or the configs, nor in a method or a late request that makes it.
SingleUse == ~SharedNames => \A s \in Snap, v, w \in Vol : Uses(v, s) /\ Uses(w, s) => v = w

\* Disk v got the name of a disk w that is renamed.
Moved(q, w, v) ==
    /\ q.at = "nDo" /\ q.op = "rename" /\ w = q.v /\ v = q.c
    /\ Has(pool, w) /\ ~Has(pool, v) /\ ~Has(pool', w) /\ pool'.zvol[v] = pool.zvol[w]

LEMMA SnapIsNew ==
    ASSUME NEW q, Proper(pool), Moves(q, pool, pool'), NEW v \in Vol, NEW s \in Snap,
           HasSnap(pool', v, s), ~HasSnap(pool, v, s), q.at = "nDo" => q.op = "rename",
           q.at \in {"cSnap", "cAgain"} => q.c \in Vol
    PROVE  \/ q.at = "snap" /\ q.v = v /\ q.s = s
           \/ Moved(q, q.v, v) /\ q.v \in Vol
<1>1. v \in Name /\ v \notin Mount /\ s \notin Vol /\ Has(pool', v)
  BY SnapshotsAssumption DEF Name, HasSnap
<1>2. CASE Has(pool, v)
  <2>1. Taken(q, v, s)
    BY <1>1, <1>2 DEF Moves
  <2> QED BY <1>1, <2>1 DEF Taken
<1>3. CASE ~Has(pool, v)
  <2>1. Added(q, pool, pool', v)
    BY <1>1, <1>3 DEF Moves
  <2>2. pool'.zvol[v].snaps # <<>>
    BY DEF HasSnap, SnapNames
  <2> QED BY <1>3, <2>1, <2>2 DEF Added, Moved
<1> QED BY <1>2, <1>3

\* What a use of a snapshot name comes from, but for the start of a method.
LEMMA UsesCome ==
    ASSUME Types, NEW v \in Vol, NEW s \in Snap,
           HasSnap(pool', v, s) => \/ Uses(v, s)
                                   \/ \E p \in Proc : /\ Moved(pr[p], pr[p].v, v) /\ pr[p].v \in Vol
                                                      /\ HasSnap(pool, pr[p].v, s),
           s \in conf'[v] => Uses(v, s),
           \A o \in Proc : pr'[o].op = "snap" =>
               pr[o].op = "snap" /\ pr'[o].v = pr[o].v /\ pr'[o].s = pr[o].s,
           \A r \in late' : r \in late \/ r.at # "snap"
                            \/ \E p \in Proc : pr[p].op = "snap" /\ pr[p].v = r.v /\ pr[p].s = r.s,
           Uses(v, s)'
    PROVE  \/ Uses(v, s)
           \/ \E p \in Proc : Moved(pr[p], pr[p].v, v) /\ pr[p].v \in Vol /\ HasSnap(pool, pr[p].v, s)
BY DEF Uses

LEMMA UsesStay ==
    ASSUME Types, [Next]_vars, NEW v \in Vol, NEW s \in Snap, Uses(v, s)'
    PROVE  \/ Uses(v, s)
           \/ \E p \in Proc : Begin(p) /\ pr'[p].op = "snap" /\ pr'[p].v = v /\ pr'[p].s = s
           \/ \E p \in Proc : Moved(pr[p], pr[p].v, v) /\ pr[p].v \in Vol /\ HasSnap(pool, pr[p].v, s)
<1> DEFINE Goal == Uses(v, s) \/ \E p \in Proc : Moved(pr[p], pr[p].v, v) /\ pr[p].v \in Vol
                                                 /\ HasSnap(pool, pr[p].v, s)
           InPool == HasSnap(pool', v, s) => Goal
           InConf == s \in conf'[v] => Uses(v, s)
           InTasks(o) == pr'[o].op = "snap" =>
               pr[o].op = "snap" /\ pr'[o].v = pr[o].v /\ pr'[o].s = pr[o].s
           InLate == \A r \in late' : r \in late \/ r.at # "snap"
                            \/ \E p \in Proc : pr[p].op = "snap" /\ pr[p].v = r.v /\ pr[p].s = r.s
<1>1. InPool /\ InConf /\ (\A o \in Proc : InTasks(o)) /\ InLate => Goal
  BY UsesCome
<1>2. /\ Proper(pool) /\ \A p \in Proc : Task(pr[p])
      /\ \A r \in late : Late(r)
  BY DEF Types
<1>3. \A o \in Proc : Like(pr'[o], pr[o]) => InTasks(o)
  BY DEF Like
<1>4. /\ pool' = pool => InPool
      /\ conf'[v] \subseteq conf[v] => InConf
      /\ late' \subseteq late => InLate
  BY DEF Uses
<1>5. ASSUME NEW p \in Proc, Acts(p) PROVE InPool /\ \A o \in Proc : InTasks(o)
  <2>1. InTasks(p)
    BY <1>5 DEF Acts
  <2>2. \A o \in Proc : InTasks(o)
    BY <1>3, <1>5, <2>1 DEF Acts
  <2>3. ASSUME HasSnap(pool', v, s), ~HasSnap(pool, v, s) PROVE Goal
    <3>1. /\ pr[p].at = "nDo" => pr[p].op = "rename"
          /\ pr[p].at \in {"cSnap", "cAgain"} => pr[p].c \in Vol
          /\ pr[p].at = "snap" => pr[p].op = "snap"
      BY <1>2, OpAt, Makers DEF Task, Args
    <3>2. \/ pr[p].at = "snap" /\ pr[p].v = v /\ pr[p].s = s
          \/ Moved(pr[p], pr[p].v, v) /\ pr[p].v \in Vol
      BY <1>2, <1>5, <2>3, <3>1, SnapIsNew DEF Acts
    <3>3. CASE pr[p].at = "snap" /\ pr[p].v = v /\ pr[p].s = s
      BY <3>1, <3>3 DEF Uses
    <3>4. CASE Moved(pr[p], pr[p].v, v) /\ pr[p].v \in Vol
      <4>1. HasSnap(pool, pr[p].v, s)
        BY <2>3, <3>4 DEF Moved, HasSnap, SnapNames
      <4> QED BY <3>4, <4>1
    <3> QED BY <3>2, <3>3, <3>4
  <2>4. InPool
    BY <2>3 DEF Uses
  <2> QED BY <2>2, <2>4
<1>6. ASSUME NEW p \in Proc, Step(p) PROVE Goal
  <2>1. Acts(p) /\ late' = late
    BY <1>6, ActsIs, StepIs DEF Stepped
  <2>2. InConf
    <3>1. CASE CreateSnapshot(p)
      BY <3>1, CreateSnapshotIs DEF Uses
    <3>2. CASE Rollback(p)
      BY <3>2, RollbackIs DEF Uses
    <3>3. CASE ~CreateSnapshot(p) /\ ~Rollback(p)
      <4>1. conf' = conf
        BY <1>6, <3>3, Kinds, NextNameIs, RollbackListIs, CloneSnapshotIs,
           ClearSnapshotIs, MakeCloneIs, UndoSnapshotIs, GetLunIs, DeleteLunIs, DeleteOriginIs
           DEF Plain, Stepped
      <4> QED BY <1>4, <4>1
    <3> QED BY <3>1, <3>2, <3>3
  <2> QED BY <1>1, <1>4, <1>5, <2>1, <2>2
<1>7. ASSUME NEW p \in Proc, Kill(p) PROVE Goal
  <2>1. Acts(p) /\ conf' = conf
        /\ (late' = late \/ late' = late \cup {Request(pr[p])})
    BY <1>7, ActsIs, KillIs
  <2>2. pr[p].at = "snap" => pr[p].op = "snap"
    BY <1>2, Makers
  <2>3. /\ Request(pr[p]).at = pr[p].at /\ Request(pr[p]).v = pr[p].v
        /\ Request(pr[p]).s = pr[p].s
    BY DEF Request, NoRun
  <2>4. InLate
    BY <2>1, <2>2, <2>3
  <2> QED BY <1>1, <1>4, <1>5, <2>1, <2>4
<1>8. ASSUME NEW p \in Proc, Run(p) \/ End(p) PROVE Goal
  <2>1. Between(p) /\ conf' = conf /\ (Rest(pr'[p], pr[p]) \/ pr'[p].op = "none")
    BY <1>8, RunIs, EndIs
  <2>2. \A o \in Proc : InTasks(o)
    BY <1>3, <2>1 DEF Between, Rest
  <2> QED BY <1>1, <1>4, <2>1, <2>2 DEF Between
<1>9. ASSUME NEW p \in Proc, Begin(p), ~(pr'[p].op = "snap" /\ pr'[p].v = v /\ pr'[p].s = s) PROVE Goal
  <2>1. Between(p) /\ conf'[v] \subseteq conf[v] /\ pool' = pool /\ late' = late
    BY <1>9, BeginIs DEF Between
  <2>2. \A o \in Proc : pr'[o].op = "snap" /\ pr'[o].v = v /\ pr'[o].s = s =>
            pr[o].op = "snap" /\ pr[o].v = v /\ pr[o].s = s
    BY <1>9, <2>1 DEF Between, Like
  <2> QED BY <2>1, <2>2 DEF Uses
<1>10. ASSUME NEW r \in late, Deliver(r) PROVE Goal
  <2>1. Beside /\ Late(r) /\ Moves(r, pool, pool') /\ late' \subseteq late
    BY <1>10, DeliverIs
  <2>2. ASSUME HasSnap(pool', v, s), ~HasSnap(pool, v, s) PROVE Uses(v, s)
    <3>1. r.at \in {"snap", "cSnap", "cAgain", "cClone"} /\ (r.at # "snap" => r.c \in Vol)
      BY <2>1, SnapshotsAssumption DEF Late
    <3>2. r.at = "snap" /\ r.v = v /\ r.s = s
      BY <1>2, <2>1, <2>2, <3>1, SnapIsNew DEF Moved
    <3> QED BY <3>2 DEF Uses
  <2>3. InPool
    BY <2>2 DEF Uses
  <2> QED BY <1>1, <1>3, <1>4, <2>1, <2>3 DEF Beside
<1>11. ASSUME NEW r \in late, Lose(r) PROVE Goal
  BY <1>1, <1>3, <1>4, <1>11, LoseIs DEF Beside
<1>12. ASSUME NEW w \in Vol, Write(w) PROVE Goal
  <2>1. Beside /\ Steady(pool, pool') /\ late' = late /\ v \in Name
    BY <1>12, WriteIs DEF Name
  <2>2. InPool
    BY <2>1 DEF Steady, HasSnap, SnapNames, Uses
  <2> QED BY <1>1, <1>3, <1>4, <2>1, <2>2 DEF Beside
<1>13. CASE UNCHANGED vars
  BY <1>13 DEF vars, Uses
<1> HIDE DEF InPool, InConf, InTasks, InLate
<1> QED BY <1>6, <1>7, <1>8, <1>9, <1>10, <1>11, <1>12, <1>13 DEF Next

\* A renamed disk leaves nothing under its old name.
LEMMA OldNameUnused ==
    ASSUME Types, Alone, Apart, LateHeld, Withdrawn, [Next]_vars,
           NEW p \in Proc, NEW u \in Vol, NEW v, Moved(pr[p], u, v), NEW s \in Snap
    PROVE  ~Uses(u, s)'
<1>1. Apart' /\ LateHeld' /\ Withdrawn'
  BY AloneApart, LateHeldStays, WithdrawnStays
<1>2. pr[p].at = "nDo" /\ pr[p].op = "rename" /\ pr[p].v = u /\ ~Has(pool', u)
  BY DEF Moved
<1>3. pr'[p].op = "rename" /\ pr'[p].v = u
  BY <1>2, TaskKept, BeginIs, EndIs DEF Keeps
<1>4. u \in Locked(pr'[p]) /\ conf'[u] = {}
  BY <1>1, <1>3 DEF Locked, Withdrawn
<1>5. ASSUME NEW o \in Proc, pr'[o].op = "snap", pr'[o].v = u PROVE FALSE
  <2>1. u \in Locked(pr'[o]) /\ o # p
    BY <1>3, <1>5 DEF Locked
  <2> QED BY <1>1, <1>4, <2>1 DEF Apart
<1>6. ASSUME NEW r \in late', r.at = "snap", r.v = u PROVE FALSE
  BY <1>1, <1>3, <1>4, <1>6 DEF LateHeld
<1> QED BY <1>2, <1>4, <1>5, <1>6 DEF Uses, HasSnap

LEMMA SingleUseStays ==
    ASSUME Types, Alone, Apart, LateHeld, Withdrawn, SingleUse, [Next]_vars
    PROVE  SingleUse'
<1> SUFFICES ASSUME ~SharedNames, NEW s \in Snap, NEW v \in Vol, NEW w \in Vol,
                    Uses(v, s)', Uses(w, s)', v # w
             PROVE  FALSE
  BY DEF SingleUse
<1> DEFINE Begun(p, x) == Begin(p) /\ pr'[p].op = "snap" /\ pr'[p].v = x /\ pr'[p].s = s
           From(p, x) == Moved(pr[p], pr[p].v, x) /\ pr[p].v \in Vol /\ HasSnap(pool, pr[p].v, s)
<1>1. \A x \in Vol : Uses(x, s)' => Uses(x, s) \/ (\E p \in Proc : Begun(p, x)) \/ \E p \in Proc : From(p, x)
  BY UsesStay
<1>2. ASSUME NEW p \in Proc, NEW x \in Vol, Begun(p, x) PROVE \A y \in Vol \ {x} : ~Uses(y, s)
  BY <1>2, BeginIs DEF Allowed, RollbackPossible
<1>3. ASSUME NEW p \in Proc, NEW x \in Vol, NEW o \in Proc, NEW y \in Vol, Begun(p, x), Begun(o, y)
      PROVE  x = y
  BY <1>3, BeginIs DEF Between, Like
<1>4. ASSUME NEW p \in Proc, NEW x \in Vol, NEW o \in Proc, NEW y \in Vol, Begun(p, x), From(o, y)
      PROVE  FALSE
  BY <1>4, BeginIs DEF Between, Moved, Has
<1>5. ASSUME NEW p \in Proc, NEW x \in Vol, From(p, x), NEW u \in Vol, u = pr[p].v
      PROVE  Uses(u, s) /\ ~Uses(u, s)'
  <2>1. Moved(pr[p], u, x) /\ HasSnap(pool, u, s)
    BY <1>5
  <2>2. ~Uses(u, s)'
    BY <2>1, OldNameUnused
  <2>3. Uses(u, s)
    BY <2>1 DEF Uses
  <2> QED BY <2>2, <2>3
<1>6. ASSUME NEW p \in Proc, NEW x \in Vol, NEW y \in Vol, From(p, x), Uses(y, s), Uses(y, s)' PROVE FALSE
  <2>1. PICK u \in Vol : u = pr[p].v
    BY <1>6
  <2>2. Uses(u, s) /\ ~Uses(u, s)'
    BY <1>5, <1>6, <2>1
  <2>3. u = y
    BY <1>6, <2>2 DEF SingleUse
  <2> QED BY <1>6, <2>2, <2>3
<1>7. ASSUME NEW p \in Proc, NEW x \in Vol, NEW o \in Proc, NEW y \in Vol, From(p, x), From(o, y)
      PROVE  x = y
  <2>1. pr[p].v = pr[o].v
    BY <1>7 DEF SingleUse, Uses
  <2>2. pr[p].v \in Locked(pr[p]) /\ pr[o].v \in Locked(pr[o])
    BY <1>7 DEF Moved, Locked
  <2>3. p = o
    BY <2>1, <2>2 DEF Apart
  <2> QED BY <1>7, <2>3 DEF Moved
<1>8. Uses(v, s) /\ Uses(w, s) => FALSE
  BY DEF SingleUse
<1> HIDE DEF Begun, From
<1> QED BY <1>1, <1>2, <1>3, <1>4, <1>6, <1>7, <1>8

-----------------------------------------------------------------------------
(* What a method has done stays done until it ends.                        *)

Achieved == \A p \in Proc : Worked(pr[p]) => Work(pool, pr[p])

\* A late request undoes nothing of a method that has locked its disk.
LEMMA LateWork ==
    ASSUME NEW q, Task(q), NEW a, Proper(a), NEW b, NEW r, Late(r), Moves(r, a, b), Work(a, q),
           \/ r.at = "snap" /\ r.v \in Locked(q)
           \/ r.at = "cClone" /\ r.c \in Locked(q)
           => q.op \in {"create", "snap", "clone", "cloneSnap"}
    PROVE  Work(b, q)
<1>1. /\ q.op # "none" => q.v \in Vol /\ q.v \in Name
      /\ q.op \in {"snap", "delsnap", "cloneSnap", "mount", "unmount", "rollback"} =>
            q.s \in Snap /\ q.s \in Vol \cup Snap /\ q.s \notin Vol
      /\ q.op \in {"mount"} => <<q.v, q.s>> \in Name
      /\ q.op \in {"clone", "cloneSnap", "rename"} => q.c \in Vol /\ q.c \in Name
  BY SnapshotsAssumption DEF Task, Args, Name, Mount
<1>2. /\ \A n \in Name : Has(a, n) => Alike(a, b, n)
      /\ \A n \in Name, s \in Vol \cup Snap : HasSnap(a, n, s) => HasSnap(b, n, s)
  BY LateKeeps DEF HasSnap
<1>3. r.at \in {"snap", "cSnap", "cAgain", "cClone"} /\ (r.at # "snap" => r.c \in Vol)
  BY SnapshotsAssumption DEF Late
<1>4. ASSUME q.op = "delsnap", ~q.blind PROVE ~HasSnap(b, q.v, q.s)
  <2>1. ~HasSnap(a, q.v, q.s) /\ q.v \in Locked(q)
    BY <1>4 DEF Work, Locked
  <2>2. CASE Has(a, q.v)
    <3>1. ~Taken(r, q.v, q.s)
      BY <1>1, <1>3, <1>4, <2>1 DEF Taken
    <3> QED BY <1>1, <1>4, <2>1, <2>2, <3>1 DEF Moves
  <2>3. CASE ~Has(a, q.v)
    <3>1. ~Added(r, a, b, q.v)
      BY <1>3, <1>4, <2>1 DEF Added
    <3> QED BY <1>1, <1>4, <2>3, <3>1 DEF Moves, HasSnap
  <2> QED BY <2>2, <2>3
<1>5. ASSUME q.op = "destroy" PROVE ~Has(b, q.v) \/ Dependents(b, q.v) # {}
  <2>1. q.v \in Locked(q) /\ (~Has(a, q.v) \/ Dependents(a, q.v) # {})
    BY <1>5 DEF Work, Locked
  <2>2. ~Added(r, a, b, q.v)
    BY <1>3, <1>5, <2>1 DEF Added
  <2>3. \A n \in Name : ~Removed(r, a, b, n)
    BY <1>3 DEF Removed
  <2> QED BY <1>1, <1>5, <2>1, <2>2, <2>3, GoneOrUsed
<1>6. ASSUME q.op = "rollback"
      PROVE  HasSnap(b, q.v, q.s) /\ b.zvol[q.v].data = CopyOf(b, q.v, q.s).data
  <2>1. HasSnap(a, q.v, q.s) /\ a.zvol[q.v].data = CopyOf(a, q.v, q.s).data
    BY <1>6 DEF Work
  <2>2. HasSnap(b, q.v, q.s) /\ Has(a, q.v) /\ Has(b, q.v)
    BY <1>1, <1>2, <1>6, <2>1 DEF HasSnap
  <2>3. Contents(r, a, b, q.v)
    BY <1>1, <1>6, <2>2 DEF Moves
  <2>4. b.zvol[q.v].data = a.zvol[q.v].data /\ CopyOf(b, q.v, q.s) = CopyOf(a, q.v, q.s)
    BY <1>1, <1>3, <1>6, <2>1, <2>2, <2>3 DEF Contents
  <2> QED BY <2>1, <2>2, <2>4
<1>7. ASSUME q.op \in {"create", "snap", "mount", "rename", "clone", "cloneSnap"}
      PROVE  /\ q.op = "create" => Has(b, q.v)
             /\ q.op = "snap" => HasSnap(b, q.v, q.s)
             /\ q.op = "mount" => Has(b, <<q.v, q.s>>)
             /\ q.op \in {"rename", "clone", "cloneSnap"} => Has(b, q.c)
             /\ q.op = "cloneSnap" => b.zvol[q.c].origin \in Nat \X {q.s}
  BY <1>1, <1>2, <1>7 DEF Work, Alike
<1> QED BY <1>4, <1>5, <1>6, <1>7 DEF Work

\* Neither does a write to a disk that is not rolled back.
LEMMA WriteWork ==
    ASSUME NEW q, Task(q), NEW a, NEW b, NEW v, Steady(a, b), Elsewhere(a, b, v), Work(a, q),
           q.op = "rollback" => v \notin Locked(q)
    PROVE  Work(b, q)
<1>1. /\ q.op # "none" => q.v \in Name
      /\ q.op = "mount" => <<q.v, q.s>> \in Name
      /\ q.op \in {"clone", "cloneSnap", "rename"} => q.c \in Name
  BY DEF Task, Args, Name, Mount
<1>2. \A n \in Name : /\ Has(b, n) <=> Has(a, n)
                      /\ \A s : HasSnap(b, n, s) <=> HasSnap(a, n, s)
                      /\ b.zvol[n].origin = a.zvol[n].origin
                      /\ Dependents(b, n) = Dependents(a, n)
  <2>1. \A n \in Name : /\ Has(b, n) <=> Has(a, n)
                        /\ SnapNames(b, n) = SnapNames(a, n)
                        /\ b.zvol[n].id = a.zvol[n].id /\ b.zvol[n].origin = a.zvol[n].origin
    BY DEF Steady, SnapNames
  <2>2. \A n \in Name : \A s : get_snapshot_clones(b, n, s) = get_snapshot_clones(a, n, s)
    BY <2>1 DEF get_snapshot_clones
  <2>3. \A n \in Name : Dependents(b, n) = Dependents(a, n)
    BY <2>1, <2>2 DEF Dependents
  <2> QED BY <2>1, <2>3 DEF HasSnap
<1>3. ASSUME q.op = "rollback"
      PROVE  HasSnap(b, q.v, q.s) /\ b.zvol[q.v].data = CopyOf(b, q.v, q.s).data
  <2>1. b.zvol[q.v] = a.zvol[q.v]
    BY <1>1, <1>3 DEF Elsewhere, Locked
  <2> QED BY <1>3, <2>1 DEF Work, HasSnap, Has, SnapNames, CopyOf, Position
<1> QED BY <1>1, <1>2, <1>3 DEF Work

LEMMA AchievedStays ==
    ASSUME Types, Alone, LateHeld, Achieved, [Next]_vars
    PROVE  Achieved'
<1>1. \A p \in Proc : Worked(pr[p]) => Running(p)
  BY DEF Worked, Running
<1>2. \A p \in Proc : Task(pr[p])
  BY DEF Types
<1>3. ASSUME \A o \in Proc : Worked(pr'[o]) => Work(pool', pr'[o]) PROVE Achieved'
  BY <1>3 DEF Achieved
<1>4. ASSUME NEW p \in Proc, Running(p) \/ Turn(p), NEW o \in Proc \ {p}, Like(pr'[o], pr[o])
      PROVE  ~Worked(pr'[o])
  BY <1>1, <1>4, LikeWork DEF Alone, Turn
<1>5. ASSUME NEW p \in Proc, Step(p) PROVE Achieved'
  <2>1. Stepped(p)
    BY <1>5, StepIs
  <2>2. Worked(pr'[p]) => Work(pool', pr'[p])
    BY <2>1 DEF Stepped, Achieved
  <2>3. \A o \in Proc \ {p} : ~Worked(pr'[o])
    BY <1>4, <2>1 DEF Stepped
  <2> QED BY <1>3, <2>2, <2>3
<1>6. ASSUME NEW p \in Proc, Kill(p) \/ Begin(p) \/ Run(p) PROVE Achieved'
  <2>1. /\ \A o \in Proc \ {p} : Like(pr'[o], pr[o])
        /\ Running(p) \/ Turn(p)
    BY <1>6, KillIs, BeginIs, RunIs DEF Between
  <2>2. ~Worked(pr'[p])
    BY <1>6, KillIs, BeginIs, RunIs DEF Worked
  <2>3. \A o \in Proc \ {p} : ~Worked(pr'[o])
    BY <1>4, <2>1
  <2> QED BY <1>3, <2>2, <2>3
<1>7. ASSUME NEW p \in Proc, End(p) PROVE Achieved'
  <2>1. pool' = pool /\ (\A o \in Proc \ {p} : Like(pr'[o], pr[o])) /\ pr'[p].at = "idle"
    BY <1>7, EndIs DEF Between
  <2>2. ~Worked(pr'[p])
    BY <2>1 DEF Worked
  <2>3. \A o \in Proc \ {p} : Worked(pr'[o]) => Work(pool', pr'[o])
    BY <2>1, LikeWork DEF Achieved
  <2> QED BY <1>3, <2>2, <2>3
<1>8. ASSUME NEW r \in late, Deliver(r) PROVE Achieved'
  <2>1. Beside /\ Late(r) /\ Moves(r, pool, pool') /\ Proper(pool)
    BY <1>8, DeliverIs DEF Types
  <2>2. ASSUME NEW o \in Proc, Worked(pr'[o]) PROVE Work(pool', pr'[o])
    <3>1. Like(pr'[o], pr[o]) /\ Work(pool, pr[o])
      BY <2>1, <2>2, LikeWork DEF Beside, Achieved
    <3>2. Work(pool', pr[o])
      BY <1>2, <2>1, <3>1, LateWork DEF LateHeld
    <3> QED BY <3>1, <3>2, LikeWork
  <2> QED BY <1>3, <2>2
<1>9. ASSUME NEW v \in Vol, Write(v) PROVE Achieved'
  <2>1. Beside /\ Steady(pool, pool') /\ Elsewhere(pool, pool', v)
    BY <1>9, WriteIs
  <2>2. ASSUME NEW o \in Proc, Worked(pr'[o]) PROVE Work(pool', pr'[o])
    <3>1. Like(pr'[o], pr[o]) /\ Work(pool, pr[o])
      BY <2>1, <2>2, LikeWork DEF Beside, Achieved
    <3>2. pr[o].op = "rollback" => v \notin Locked(pr[o])
      BY <1>9 DEF Write
    <3>3. Work(pool', pr[o])
      BY <1>2, <2>1, <3>1, <3>2, WriteWork
    <3> QED BY <3>1, <3>3, LikeWork
  <2> QED BY <1>3, <2>2
<1>10. ASSUME NEW r \in late, Lose(r) PROVE Achieved'
  BY <1>10, LoseIs DEF Achieved
<1>11. CASE UNCHANGED vars
  BY <1>11 DEF vars, Achieved
<1> QED BY <1>5, <1>6, <1>7, <1>8, <1>9, <1>10, <1>11 DEF Next

-----------------------------------------------------------------------------
(* What a clone of a disk contains.                                        *)

\* The snapshot q clones, if any, has data that q saw on the disk.
SeenSnap(a, q) == HasSnap(a, q.v, q.c) => CopyOf(a, q.v, q.c).data \in q.seen

\* A clone that can be made comes from such a snapshot, unless it fails.
Clones ==
    \A p \in Proc : LET q == pr[p] IN
        q.op = "clone" =>
            /\ q.at = "cAgain" => SeenSnap(pool, q)
            /\ q.at = "cClone" => SeenSnap(pool, q) \/ Has(pool, q.c)
            /\ q.at = "cProv" \/ (q.at = "done" /\ q.res = "ok") =>
                  Has(pool, q.c) /\ pool.zvol[q.c].data \in q.seen

\* A snapshot that was not there before has what the disk contained.
LEMMA SeenMoves ==
    ASSUME NEW x, x.at # "nDo", NEW a, NEW b, Moves(x, a, b), NEW v \in Vol, NEW c \in Vol, NEW S,
           HasSnap(a, v, c) => CopyOf(a, v, c).data \in S,
           Has(a, v) => a.zvol[v].data \in S, HasSnap(b, v, c)
    PROVE  CopyOf(b, v, c).data \in S
<1>1. v \in Name /\ Has(b, v) /\ b.zvol[v].snaps # <<>>
  BY DEF Name, HasSnap, SnapNames
<1>2. Has(a, v)
  BY <1>1 DEF Moves, Added
<1>3. Contents(x, a, b, v)
  BY <1>1, <1>2 DEF Moves
<1> QED BY <1>2, <1>3 DEF Contents

\* The steps of a clone of a disk.
LEMMA CloneSteps ==
    ASSUME Types, NEW p \in Proc, Step(p), pr[p].op = "clone"
    PROVE  \/ CloneSnapshot(p) \/ ClearSnapshot(p) \/ MakeClone(p) \/ UndoSnapshot(p)
           \/ NextName(p) \/ Provision(p)
<1>1. pr[p].at \in {"again", "cSnap", "cClear", "cAgain", "cClone", "cUndo", "taken", "cProv", "done"}
  BY DEF Types, Task, Steps
<1>2. CASE CreateLun(p) \/ ListSnapshots(p) \/ CreateSnapshot(p) \/ FindForClone(p) \/ MakeCloneFrom(p)
  BY <1>1, <1>2, CreateLunIs, ListSnapshotsIs, CreateSnapshotIs, FindForCloneIs, MakeCloneFromIs
<1>3. CASE FindSnapshot(p) \/ SnapshotClones(p) \/ RemoveMount(p) \/ DeleteSnapshot(p) \/ MakeMount(p)
  BY <1>1, <1>3, FindSnapshotIs, SnapshotClonesIs, RemoveMountIs, DeleteSnapshotIs, MakeMountIs
<1>4. CASE IsLun(p) \/ GetLun(p) \/ DeleteLun(p) \/ DeleteOrigin(p) \/ Dependencies(p)
  BY <1>1, <1>4, IsLunIs, GetLunIs, DeleteLunIs, DeleteOriginIs, DependenciesIs
<1>5. CASE \/ RollbackList(p) \/ Rollback(p) \/ NewName(p) \/ OldName(p) \/ Rename(p) \/ Confirm(p)
  BY <1>1, <1>5, RollbackListIs, RollbackIs, NewNameIs, OldNameIs, RenameIs, ConfirmIs
<1> QED BY <1>2, <1>3, <1>4, <1>5 DEF Step

LEMMA ClonesStep ==
    ASSUME Types, Seeing, Clones, Own(pool'), "cClear" \notin Faults, NEW p \in Proc, Step(p),
           pr[p].op = "clone"
    PROVE  LET q == pr'[p] IN
           /\ q.at = "cAgain" => SeenSnap(pool', q)
           /\ q.at = "cClone" => SeenSnap(pool', q) \/ Has(pool', q.c)
           /\ q.at = "cProv" \/ (q.at = "done" /\ q.res = "ok") =>
                 Has(pool', q.c) /\ pool'.zvol[q.c].data \in q.seen
<1> DEFINE q == pr[p]
           r == pr'[p]
<1>1. /\ Stepped(p) /\ q.v \in Vol /\ q.c \in Vol /\ q.v \in Name /\ q.c # q.v
      /\ q.at # "done" /\ q.at # "nDo"
  <2>1. Stepped(p) /\ Task(q)
    BY StepIs DEF Types
  <2>2. q.v \in Vol /\ q.c \in Vol /\ q.c # q.v
    BY <2>1 DEF Task, Args
  <2>3. q.at # "done" /\ q.at # "nDo"
    BY CloneSteps, CloneSnapshotIs, ClearSnapshotIs, MakeCloneIs, UndoSnapshotIs, NextNameIs, ProvisionIs
  <2> QED BY <2>1, <2>2, <2>3 DEF Name
<1>2. Has(pool, q.v) => pool.zvol[q.v].data \in q.seen
  BY <1>1 DEF Seeing
<1>3. ASSUME HasSnap(pool, q.v, q.c) => CopyOf(pool, q.v, q.c).data \in q.seen, HasSnap(pool', q.v, q.c)
      PROVE  CopyOf(pool', q.v, q.c).data \in q.seen
  BY <1>1, <1>2, <1>3, SeenMoves DEF Stepped
<1>4. CASE CloneSnapshot(p)
  <2>1. /\ q.at \in {"cSnap", "cAgain"} /\ r.at \in {"cClone", "cClear", "done"}
        /\ r.at = "done" => r.res = "failed"
        /\ q.at = "cSnap" /\ r.at = "cClone" => ~HasSnap(pool, q.v, q.c)
        /\ q.seen \subseteq r.seen /\ r.v = q.v /\ r.c = q.c
    BY <1>1, <1>4, CloneSnapshotIs DEF Stepped
  <2>2. ASSUME r.at = "cClone" PROVE SeenSnap(pool', r)
    <3>1. HasSnap(pool, q.v, q.c) => CopyOf(pool, q.v, q.c).data \in q.seen
      BY <2>1, <2>2 DEF Clones, SeenSnap
    <3> QED BY <1>3, <2>1, <3>1 DEF SeenSnap
  <2> QED BY <2>1, <2>2
<1>5. CASE ClearSnapshot(p)
  <2>1. /\ q.at = "cClear" /\ r.at \in {"cAgain", "cClone"}
        /\ r.at = "cAgain" => ~HasSnap(pool', q.v, q.c)
        /\ \/ ~HasSnap(pool', q.v, q.c)
           \/ get_snapshot_clones(pool', q.v, q.c) # {}
        /\ r.v = q.v /\ r.c = q.c
    BY <1>1, <1>5, ClearSnapshotIs DEF Stepped
  <2>2. ASSUME HasSnap(pool', q.v, q.c), NEW m \in get_snapshot_clones(pool', q.v, q.c)
        PROVE  Has(pool', q.c)
    <3>1. /\ m \in Name /\ Has(pool', m)
          /\ pool'.zvol[m].origin = <<pool'.zvol[q.v].id, q.c>>
      BY <2>2 DEF get_snapshot_clones
    <3>2. pool'.zvol[q.v].id \in Nat
      BY <1>1, <2>2, ZvolIs DEF HasSnap, Stepped, Moves, Proper
    <3>3. <<pool'.zvol[q.v].id, q.c>> \in Origin
      BY <1>1, <3>2 DEF Origin
    <3>4. pool'.zvol[m].origin # None
      BY <3>1, <3>3, SnapshotsAssumption
    <3>5. pool'.zvol[m].origin[2] = q.c /\ q.c \in Vol
      BY <1>1, <3>1
    <3>6. m = q.c
      BY <3>1, <3>4, <3>5 DEF Own
    <3> QED BY <3>1, <3>6
  <2> QED BY <2>1, <2>2 DEF SeenSnap
<1>6. CASE MakeClone(p)
  <2>1. /\ q.at = "cClone" /\ r.at \in {"cProv", "cUndo"}
        /\ r.at = "cProv" =>
              /\ ~Has(pool, q.c) /\ Has(pool', q.c) /\ HasSnap(pool', q.v, q.c)
              /\ pool'.zvol[q.c].data = CopyOf(pool', q.v, q.c).data
        /\ q.seen \subseteq r.seen /\ r.v = q.v /\ r.c = q.c
    BY <1>1, <1>6, MakeCloneIs DEF Stepped
  <2>2. ASSUME r.at = "cProv" PROVE Has(pool', r.c) /\ pool'.zvol[r.c].data \in r.seen
    <3>1. HasSnap(pool, q.v, q.c) => CopyOf(pool, q.v, q.c).data \in q.seen
      BY <2>1, <2>2 DEF Clones, SeenSnap
    <3> QED BY <1>3, <2>1, <2>2, <3>1
  <2> QED BY <2>1, <2>2
<1>7. CASE UndoSnapshot(p) \/ NextName(p)
  <2>1. r.at \in {"taken", "again", "done"} /\ (r.at = "done" => r.res = "failed")
    BY <1>7, UndoSnapshotIs, NextNameIs
  <2> QED BY <2>1
<1>8. CASE Provision(p)
  <2>1. q.at = "cProv" /\ r.at = "done" /\ pool' = pool /\ q.seen \subseteq r.seen /\ r.c = q.c
    BY <1>1, <1>8, ProvisionIs DEF Stepped
  <2>2. Has(pool, q.c) /\ pool.zvol[q.c].data \in q.seen
    BY <2>1 DEF Clones
  <2> QED BY <2>1, <2>2
<1> QED BY <1>4, <1>5, <1>6, <1>7, <1>8, CloneSteps

LEMMA ClonesStay ==
    ASSUME Types, Alone, Seeing, Clones, Own(pool'), "cClear" \notin Faults, [Next]_vars
    PROVE  Clones'
<1> DEFINE Fine(a, q) == q.op = "clone" =>
               /\ q.at = "cAgain" => SeenSnap(a, q)
               /\ q.at = "cClone" => SeenSnap(a, q) \/ Has(a, q.c)
               /\ q.at = "cProv" \/ (q.at = "done" /\ q.res = "ok") =>
                     Has(a, q.c) /\ a.zvol[q.c].data \in q.seen
           Busy(q) == q.op = "clone" /\ q.at \in {"cAgain", "cClone", "cProv", "done"}
<1>1. \A p \in Proc : Fine(pool, pr[p]) /\ Task(pr[p]) /\ (Busy(pr[p]) => Running(p))
  BY DEF Clones, Types, Running
<1>2. ASSUME \A o \in Proc : Fine(pool', pr'[o]) PROVE Clones'
  BY <1>2 DEF Clones
<1>3. ASSUME NEW q, ~Busy(q), NEW a PROVE Fine(a, q)
  BY <1>3
<1>4. ASSUME NEW p \in Proc, Running(p) \/ Turn(p), NEW o \in Proc \ {p}, Like(pr'[o], pr[o])
      PROVE  Fine(pool', pr'[o])
  <2>1. ~Busy(pr'[o])
    BY <1>1, <1>4 DEF Alone, Turn, Like
  <2> QED BY <1>3, <2>1
\* What else happens takes no clone, and no snapshot but to make a newer one.
<1>5. ASSUME NEW o \in Proc, Like(pr'[o], pr[o]), pr[o].seen \subseteq pr'[o].seen,
             Busy(pr[o]) =>
                /\ Has(pool, pr[o].c) => /\ Has(pool', pr[o].c)
                                         /\ pool'.zvol[pr[o].c].data = pool.zvol[pr[o].c].data
                /\ pr[o].at # "done" /\ SeenSnap(pool, pr[o]) /\ HasSnap(pool', pr[o].v, pr[o].c) =>
                      CopyOf(pool', pr[o].v, pr[o].c).data \in pr[o].seen
      PROVE  Fine(pool', pr'[o])
  <2> DEFINE q == pr[o]
             r == pr'[o]
  <2>1. /\ r.op = q.op /\ r.at = q.at /\ r.v = q.v /\ r.c = q.c /\ r.res = q.res
        /\ q.seen \subseteq r.seen
    BY <1>5 DEF Like
  <2>2. ASSUME Busy(q), q.at # "done", SeenSnap(pool, q) PROVE SeenSnap(pool', r)
    BY <1>5, <2>1, <2>2 DEF SeenSnap
  <2>3. ASSUME Busy(q), Has(pool, q.c)
        PROVE  Has(pool', r.c) /\ (pool.zvol[q.c].data \in q.seen => pool'.zvol[r.c].data \in r.seen)
    BY <1>5, <2>1, <2>3
  <2>4. Fine(pool, q)
    BY <1>1
  <2>5. CASE Busy(q)
    BY <2>1, <2>2, <2>3, <2>4, <2>5
  <2>6. CASE ~Busy(q)
    BY <1>3, <2>1, <2>6
  <2> QED BY <2>5, <2>6
<1>6. ASSUME NEW p \in Proc, Step(p) PROVE Clones'
  <2>1. Stepped(p)
    BY <1>6, StepIs
  <2>2. Fine(pool', pr'[p])
    BY <1>6, <2>1, ClonesStep DEF Stepped
  <2>3. \A o \in Proc \ {p} : Fine(pool', pr'[o])
    BY <1>4, <2>1 DEF Stepped
  <2> HIDE DEF Fine
  <2> QED BY <1>2, <2>2, <2>3
<1>7. ASSUME NEW p \in Proc, Kill(p) \/ Begin(p) \/ Run(p) PROVE Clones'
  <2>1. /\ \A o \in Proc \ {p} : Like(pr'[o], pr[o])
        /\ Running(p) \/ Turn(p)
    BY <1>7, KillIs, BeginIs, RunIs DEF Between
  <2>2. Fine(pool', pr'[p])
    BY <1>7, KillIs, BeginIs, RunIs
  <2>3. \A o \in Proc \ {p} : Fine(pool', pr'[o])
    BY <1>4, <2>1
  <2> HIDE DEF Fine
  <2> QED BY <1>2, <2>2, <2>3
<1>8. ASSUME NEW p \in Proc, End(p) PROVE Clones'
  <2>1. pool' = pool /\ pr'[p].op = "none" /\ \A o \in Proc \ {p} : pr'[o] = pr[o]
    BY <1>8, EndIs DEF Between, End, Types
  <2>2. \A o \in Proc : Fine(pool', pr'[o])
    BY <1>1, <2>1
  <2> HIDE DEF Fine
  <2> QED BY <1>2, <2>2
<1>9. ASSUME NEW r \in late, Deliver(r) PROVE Clones'
  <2>1. Beside /\ Late(r) /\ Moves(r, pool, pool')
    BY <1>9, DeliverIs
  <2>2. r.at \in {"snap", "cSnap", "cAgain", "cClone"}
    BY <2>1, SnapshotsAssumption DEF Late
  <2>3. ASSUME NEW o \in Proc PROVE Fine(pool', pr'[o])
    <3>1. Like(pr'[o], pr[o]) /\ pr[o].seen \subseteq pr'[o].seen
      BY <2>1 DEF Beside
    <3>2. ASSUME Busy(pr[o]) PROVE pr[o].v \in Vol /\ pr[o].c \in Vol /\ pr[o].c \in Name
      BY <1>1, <3>2 DEF Task, Args, Name
    <3>3. ASSUME Busy(pr[o]), Has(pool, pr[o].c)
          PROVE  Has(pool', pr[o].c) /\ pool'.zvol[pr[o].c].data = pool.zvol[pr[o].c].data
      <4>1. Has(pool', pr[o].c)
        BY <2>1, <3>2, <3>3, LateKeeps DEF Alike
      <4> QED BY <2>1, <2>2, <3>2, <3>3, <4>1 DEF Moves, Contents
    <3>4. ASSUME Busy(pr[o]), pr[o].at # "done", SeenSnap(pool, pr[o]), HasSnap(pool', pr[o].v, pr[o].c)
          PROVE  CopyOf(pool', pr[o].v, pr[o].c).data \in pr[o].seen
      <4>1. Has(pool, pr[o].v) => pool.zvol[pr[o].v].data \in pr[o].seen
        BY <3>4 DEF Seeing
      <4> QED BY <2>1, <2>2, <3>2, <3>4, <4>1, SeenMoves DEF SeenSnap
    <3> HIDE DEF Fine, Busy
    <3> QED BY <1>5, <3>1, <3>3, <3>4
  <2> HIDE DEF Fine
  <2> QED BY <1>2, <2>3
<1>10. ASSUME NEW v \in Vol, Write(v) PROVE Clones'
  <2>1. Beside /\ Steady(pool, pool') /\ Elsewhere(pool, pool', v)
    BY <1>10, WriteIs
  <2>2. ASSUME NEW o \in Proc PROVE Fine(pool', pr'[o])
    <3>1. Like(pr'[o], pr[o]) /\ pr[o].seen \subseteq pr'[o].seen
      BY <2>1 DEF Beside
    <3>2. ASSUME Busy(pr[o]) PROVE pr[o].v \in Name /\ pr[o].c \in Name /\ pr[o].c # v
      <4>1. Locked(pr[o]) = {pr[o].c} /\ v \notin Locked(pr[o])
        BY <1>10, <3>2 DEF Locked, Write
      <4> QED BY <1>1, <3>2, <4>1 DEF Task, Args, Name
    <3>3. ASSUME Busy(pr[o]) PROVE pool'.zvol[pr[o].c] = pool.zvol[pr[o].c]
      BY <2>1, <3>2, <3>3 DEF Elsewhere
    <3>4. ASSUME Busy(pr[o]), SeenSnap(pool, pr[o]), HasSnap(pool', pr[o].v, pr[o].c)
          PROVE  CopyOf(pool', pr[o].v, pr[o].c).data \in pr[o].seen
      <4>1. pool'.zvol[pr[o].v].snaps = pool.zvol[pr[o].v].snaps /\ Has(pool, pr[o].v)
        BY <2>1, <3>2, <3>4 DEF Steady, HasSnap
      <4>2. /\ HasSnap(pool, pr[o].v, pr[o].c)
            /\ CopyOf(pool', pr[o].v, pr[o].c) = CopyOf(pool, pr[o].v, pr[o].c)
        BY <3>4, <4>1 DEF HasSnap, SnapNames, CopyOf, Position
      <4> QED BY <3>4, <4>2 DEF SeenSnap
    <3> HIDE DEF Fine, Busy
    <3> QED BY <1>5, <3>1, <3>3, <3>4 DEF Has
  <2> HIDE DEF Fine
  <2> QED BY <1>2, <2>2
<1>11. ASSUME NEW r \in late, Lose(r) PROVE Clones'
  BY <1>11, LoseIs DEF Clones, SeenSnap
<1>12. CASE UNCHANGED vars
  BY <1>12 DEF vars, Clones, SeenSnap
<1> QED BY <1>6, <1>7, <1>8, <1>9, <1>10, <1>11, <1>12 DEF Next

-----------------------------------------------------------------------------
(* What commands that report success have done.                            *)

\* The pool and the methods at all times.
Held ==
    /\ Types /\ Alone /\ Apart /\ Withdrawn /\ LateHeld /\ Renamed
    /\ Rooted(pool) /\ Shown(pool) /\ Issued /\ Offers /\ SingleUse /\ Achieved

LEMMA InitHeld == Init => Held /\ Own(pool) /\ Seeing /\ Clones
<1> SUFFICES ASSUME Init PROVE Held /\ Own(pool) /\ Seeing /\ Clones
  OBVIOUS
<1>1. Types
  BY InitTypes
<1>2. \A p \in Proc : pr[p].op = "none" /\ pr[p].at = "idle" /\ ~Running(p) /\ Locked(pr[p]) = {}
  BY NoRunIs DEF Init, Running, Locked
<1>3. /\ \A n \in Name : ~Has(pool, n)
      /\ Vol \subseteq Name /\ Mount \subseteq Name
  BY DEF Init, Has, Name
<1>4. Alone /\ Apart /\ Withdrawn /\ Renamed /\ Issued /\ Offers /\ Seeing /\ Clones
  BY <1>2 DEF Alone, Apart, Withdrawn, Renamed, Issued, Offers, Seeing, Clones
<1>5. LateHeld
  BY DEF Init, LateHeld
<1>6. Rooted(pool) /\ Shown(pool) /\ Own(pool)
  BY <1>3 DEF Rooted, Shown, Own
<1>7. SingleUse
  <2>1. \A v \in Vol, s \in Snap : ~Uses(v, s)
    BY <1>2, <1>3 DEF Init, Uses, HasSnap
  <2> QED BY <2>1 DEF SingleUse
<1>8. Achieved
  BY <1>2 DEF Achieved, Worked
<1> QED BY <1>1, <1>4, <1>5, <1>6, <1>7, <1>8 DEF Held

LEMMA HeldStays == ASSUME Held, [Next]_vars PROVE Held'
<1>1. Types' /\ Alone' /\ Apart' /\ Withdrawn'
  BY NextTypes, AloneApart, WithdrawnStays DEF Held
<1>2. LateHeld' /\ Renamed' /\ Issued' /\ Offers' /\ SingleUse' /\ Achieved'
  BY LateHeldStays, RenamedStays, IssuedStays, OffersStay, SingleUseStays, AchievedStays DEF Held
<1>3. Rooted(pool)' /\ Shown(pool)'
  BY OriginsStay DEF Held
<1> QED BY <1>1, <1>2, <1>3 DEF Held

\* A clone of a snapshot that is offered comes from the disk that it is offered
\* for: the origin names a disk that has the snapshot, and only one has it.
LEMMA OriginFound ==
    ASSUME Types, Rooted(pool), SingleUse, ~SharedNames, NEW m \in Name, Has(pool, m),
           NEW v \in Vol, NEW s \in conf[v], pool.zvol[m].origin \in Nat \X {s}
    PROVE  pool.zvol[m].origin = <<pool.zvol[v].id, s>>
<1>1. s \in Snap /\ Uses(v, s)
  BY DEF Types, Uses
<1>2. pool.zvol[m].origin # None
  BY <1>1, SnapshotsAssumption DEF Origin
<1>3. PICK w \in Vol : pool.zvol[w].id = pool.zvol[m].origin[1] /\ HasSnap(pool, w, pool.zvol[m].origin[2])
  BY <1>2 DEF Rooted
<1>4. Uses(w, s)
  BY <1>3 DEF Uses
<1>5. w = v
  BY <1>1, <1>4 DEF SingleUse
<1> QED BY <1>3, <1>5

LEMMA HeldKept == ASSUME Held, ~SharedNames PROVE Kept
<1> SUFFICES ASSUME NEW p \in Proc, pr[p].at = "done", pr[p].res = "ok"
             PROVE  LET q == pr[p] IN
        /\ Ended(p, "create") => Has(pool, q.v)
        /\ Ended(p, "snap") => HasSnap(pool, q.v, q.s)
        /\ Ended(p, "delsnap") => q.blind \/ ~HasSnap(pool, q.v, q.s)
        /\ Ended(p, "mount") => pool.zvol[<<q.v, q.s>>].origin = <<pool.zvol[q.v].id, q.s>>
        /\ Ended(p, "destroy") => ~Has(pool, q.v) \/ Dependents(pool, q.v) # {}
        /\ Ended(p, "rename") => ~Has(pool, q.v) /\ Has(pool, q.c) /\ pool.zvol[q.c].id = q.id
        /\ Ended(p, "rollback") =>
              /\ HasSnap(pool, q.v, q.s)
              /\ pool.zvol[q.v].data = pool.zvol[q.v].snaps[Position(pool, q.v, q.s)].data
  BY DEF Kept, Ended
<1> DEFINE q == pr[p]
<1>1. Work(pool, q) /\ Types
  BY DEF Held, Achieved, Worked
<1>2. Task(q) /\ Proper(pool)
  BY <1>1 DEF Types
<1>3. ASSUME q.op = "mount" PROVE pool.zvol[<<q.v, q.s>>].origin = <<pool.zvol[q.v].id, q.s>>
  <2> DEFINE m == <<q.v, q.s>>
  <2>1. q.v \in Vol /\ q.s \in Snap /\ m \in Mount /\ m \in Name /\ Has(pool, m) /\ m[2] = q.s
    BY <1>1, <1>2, <1>3 DEF Task, Args, Work, Mount, Name
  <2>2. pool.zvol[m].origin \in Nat \X Snap /\ pool.zvol[m].origin[2] = q.s
    <3> HIDE DEF m
    <3> QED BY <1>2, <2>1 DEF Held, Shown, Proper, Published
  <2>3. pool.zvol[m].origin \in Nat \X {q.s}
    BY <2>2
  <2>4. q.s \in conf[q.v]
    BY <1>3 DEF Held, Offers
  <2> HIDE DEF m
  <2>5. pool.zvol[m].origin = <<pool.zvol[q.v].id, q.s>>
    BY <1>1, <2>1, <2>3, <2>4, OriginFound DEF Held
  <2> QED BY <2>5 DEF m
<1>4. ASSUME q.op = "rename" PROVE ~Has(pool, q.v) /\ Has(pool, q.c) /\ pool.zvol[q.c].id = q.id
  <2>1. Has(pool, q.c) /\ q.v \in Vol /\ q.c \in Vol /\ q.c # q.v
    BY <1>1, <1>2, <1>4 DEF Work, Task, Args
  <2>2. /\ pool.zvol[q.c].id = q.id
        /\ Has(pool, q.v) => pool.zvol[q.v].id = q.id
    BY <1>4, <2>1 DEF Held, Renamed
  <2> QED BY <1>2, <2>1, <2>2 DEF Proper
<1> QED BY <1>1, <1>3, <1>4 DEF Ended, Work, CopyOf

\* While no snapshot name is given to two disks, a command that reports success
\* has done its work, whatever runs beside, before and between its own runs:
\* what it should have made is there and what it should have removed is not, also
\* when a call was executed twice, late, or its error taken for an answer (driver.py
\* create_volume, create_snapshot, delete_snapshot, create_export_snapshot,
\* delete_volume, rename_volume, rollback).
THEOREM SuccessIsDone == ASSUME ~SharedNames PROVE Spec => []Kept
<1>1. Init => Held
  BY InitHeld
<1>2. Held /\ [Next]_vars => Held'
  BY HeldStays
<1>3. Held => Kept
  BY HeldKept
<1> QED BY <1>1, <1>2, <1>3, PTL DEF Spec

\* A clone of a disk that reports success is there, with data that its source
\* had while it was made, for any methods beside it; so no snapshot left by an
\* earlier run is ever cloned (driver.py _clone_object), as long as no removal of
\* one fails and clones keep their names.
ClonesNew == \A p \in Proc : Ended(p, "clone") => Has(pool, pr[p].c) /\ pool.zvol[pr[p].c].data \in pr[p].seen

THEOREM ClonesAreNew == ASSUME ~RenameClones, "cClear" \notin Faults PROVE Spec => []ClonesNew
<1> DEFINE Inv == Held /\ Own(pool) /\ Seeing /\ Clones
<1>1. Init => Inv
  BY InitHeld
<1>2. Inv /\ [Next]_vars => Inv'
  <2> SUFFICES ASSUME Inv, [Next]_vars PROVE Inv'
    OBVIOUS
  <2>1. Held' /\ Own(pool)' /\ Seeing'
    BY HeldStays, OwnStays, SeeingStays DEF Held
  <2>2. Clones'
    BY <2>1, ClonesStay DEF Held
  <2> QED BY <2>1, <2>2
<1>3. Inv => ClonesNew
  BY DEF Clones, ClonesNew, Ended
<1> QED BY <1>1, <1>2, <1>3, PTL DEF Spec

\* A clone of a snapshot that reports success, while the config of the disk named
\* still offers the snapshot, comes from this snapshot of this disk: for any
\* methods beside it, and any names of disks and clones that hold copies of the
\* disk (driver.py create_cloned_volume, _find_snapshot_parent).
ClonesAsOffered ==
    \A p \in Proc : LET q == pr[p] IN
        Ended(p, "cloneSnap") /\ q.s \in conf[q.v] =>
            Has(pool, q.c) /\ pool.zvol[q.c].origin = <<pool.zvol[q.v].id, q.s>>

LEMMA HeldClones == ASSUME Held, ~SharedNames PROVE ClonesAsOffered
<1> SUFFICES ASSUME NEW p \in Proc, Ended(p, "cloneSnap"), pr[p].s \in conf[pr[p].v]
             PROVE  LET q == pr[p] IN
                    Has(pool, q.c) /\ pool.zvol[q.c].origin = <<pool.zvol[q.v].id, q.s>>
  BY DEF ClonesAsOffered
<1> DEFINE q == pr[p]
<1>1. Work(pool, q) /\ q.op = "cloneSnap" /\ Task(q)
  BY DEF Held, Achieved, Worked, Ended, Types
<1>2. q.v \in Vol /\ q.c \in Name /\ Has(pool, q.c) /\ pool.zvol[q.c].origin \in Nat \X {q.s}
  BY <1>1 DEF Work, Task, Args, Name
<1> QED BY <1>2, OriginFound DEF Held

THEOREM ClonesAreAsOffered == ASSUME ~SharedNames PROVE Spec => []ClonesAsOffered
<1>1. Init => Held
  BY InitHeld
<1>2. Held /\ [Next]_vars => Held'
  BY HeldStays
<1>3. Held => ClonesAsOffered
  BY HeldClones
<1> QED BY <1>1, <1>2, <1>3, PTL DEF Spec

\* A clone that reports success holds what was asked for: that of a disk data
\* that its source had while it was made, that of a snapshot the snapshot named
\* on the disk named.  The latter as long as no method removes snapshots or
\* disks beside: create_cloned_volume locks the VM of the new disk only.
THEOREM ClonesHold ==
    ASSUME ~SharedNames, ~RenameClones, "cClear" \notin Faults, Offered
    PROVE  Spec => []CloneHolds
<1>1. Spec => []ClonesNew
  BY ClonesAreNew
<1>2. Held /\ ClonesNew => CloneHolds
  <2>1. Held => ClonesAsOffered
    BY HeldClones
  <2>2. Held => \A p \in Proc : Ended(p, "cloneSnap") => pr[p].s \in conf[pr[p].v]
    BY DEF Held, Offers, Ended
  <2> QED BY <2>1, <2>2 DEF CloneHolds, ClonesNew, ClonesAsOffered
<1>3. Init => Held
  BY InitHeld
<1>4. Held /\ [Next]_vars => Held'
  BY HeldStays
<1> QED BY <1>1, <1>2, <1>3, <1>4, PTL DEF Spec
=============================================================================
