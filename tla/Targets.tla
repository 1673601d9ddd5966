------------------------------- MODULE Targets --------------------------------
(***************************************************************************)
(* How jdssc places volumes on iSCSI targets: ensure_target_volume,        *)
(* create_export_snapshot, remove_export, remove_export_snapshot,          *)
(* get_volume_target and the detach in delete_volume, one REST call a      *)
(* step.  One group of targets (<prefix><group>-<index>) of one pool.      *)
(***************************************************************************)
EXTENDS Integers, FiniteSets

CONSTANTS
    Proc,       \* jdssc processes
    Volume,     \* zvols
    Clone,      \* those that are clones made to export a snapshot
    Own,        \* indices of the targets of the group
    Foreign,    \* targets of other prefixes
    Luns,       \* luns_per_target
    User,       \* CHAP users
    Modes,      \* credentials a command may be given: a user, or None
    Cmds,       \* commands that are issued
    Overlap,    \* commands that may run beside each other
    Faults,     \* REST calls that may end with an error
    MaxErrs,    \* failures in one command
    Lossy,      \* whether a request may be answered the second time it is sent
    LateCalls,  \* calls of killed processes that the array may still execute
    Clash,      \* targets of whose names another pool may have one, with the same volume
    Rounds,     \* max_retries of ensure_target_volume
    Attempts,   \* max_attempts of _attach_target_volume_lun
    None

Target == Own \cup Foreign
Slot == Target \X (0..Luns - 1)

Commands == {"create", "export", "remove", "unexport", "get", "getCurrent", "destroy",
             "update", "delete"}

ASSUME TargetsAssumption ==
    /\ Clone \subseteq Volume /\ Modes \subseteq User \cup {None} /\ Cmds \subseteq Commands
    /\ Own = 0..Cardinality(Own) - 1 /\ Cardinality(Own) \in Nat \ {0} /\ (\A t \in Foreign : t \notin Nat)
    /\ Luns \in Nat \ {0} /\ MaxErrs \in Nat /\ Rounds \in Nat \ {0} /\ Attempts \in Nat \ {0}
    /\ Lossy \in BOOLEAN /\ Clash \subseteq Target
    /\ None \notin User \cup Target \cup Volume \cup Slot

VARIABLES
    array,      \* zvols, targets, LUNs and CHAP settings of the pool
    session,    \* targets with iSCSI sessions
    pr,         \* the processes
    late        \* requests of killed processes under way

vars == <<array, session, pr, late>>

-----------------------------------------------------------------------------
(* The array: what its REST calls do, and how rest.py names the outcomes.  *)

On(a, t) == {v \in Volume : a.att[v] # None /\ a.att[v][1] = t}

LunsOf(a, t) == {a.att[v][2] : v \in On(a, t)}

Ret(a, r) == [a |-> a, r |-> r]

create_target(a, t, u) ==
    IF t \in a.made THEN Ret(a, "exists")
    ELSE Ret([a EXCEPT !.made = @ \cup {t}, !.chap[t] = u # None], "ok")

\* The LUNs and the CHAP users of a target go with it.
delete_target(a, t) ==
    IF t \notin a.made THEN Ret(a, "notfound")
    ELSE Ret([a EXCEPT !.made = @ \ {t}, !.chap[t] = FALSE, !.users[t] = {},
                       !.att = [v \in Volume |-> IF v \in On(a, t) THEN None ELSE @[v]]],
             "ok")

attach_target_vol(a, t, v, l) ==
    IF t \notin a.made \/ v \notin a.zvol THEN Ret(a, "notfound")
    ELSE IF a.att[v] # None THEN Ret(a, "busy")
    ELSE IF l \in LunsOf(a, t) THEN Ret(a, "exists")
    ELSE Ret([a EXCEPT !.att[v] = <<t, l>>], "ok")

detach_target_vol(a, t, v) ==
    IF v \notin On(a, t) THEN Ret(a, "notfound") ELSE Ret([a EXCEPT !.att[v] = None], "ok")

create_target_user(a, t, u) ==
    IF t \notin a.made THEN Ret(a, "notfound")
    ELSE Ret([a EXCEPT !.users[t] = @ \cup {u}], "ok")

delete_target_user(a, t, u) ==
    IF u \notin a.users[t] THEN Ret(a, "notfound")
    ELSE Ret([a EXCEPT !.users[t] = @ \ {u}], "ok")

set_target_incoming_users_active(a, t, b) ==
    IF t \notin a.made THEN Ret(a, "notfound") ELSE Ret([a EXCEPT !.chap[t] = b], "ok")

create_volume_from_snapshot(a, v) ==
    IF v \in a.zvol THEN Ret(a, "exists") ELSE Ret([a EXCEPT !.zvol = @ \cup {v}], "ok")

\* What is still attached loses its volume, or is detached with it.
delete_lun(a, v, detach) ==
    IF v \notin a.zvol THEN Ret(a, "notfound")
    ELSE Ret([a EXCEPT !.zvol = @ \ {v}, !.att[v] = IF detach THEN None ELSE @], "ok")

-----------------------------------------------------------------------------
(* The processes *)

\* _detach_target_volume; _detach_volume; _delete_zombie_targets.
Detaching == {"busy", "detach", "left", "drop"}
Scanning == {"sList", "sLuns", "sDetach", "sDrop", "sGone"}
Sweeping == {"zList", "zLuns", "zCheck", "zDetach", "zAgain", "zDrop"}

Steps == {"idle", "exists", "clone", "lookup", "rehome", "list", "slot", "pick", "vipsNew",
          "create", "target", "vips", "getLun", "attach", "resolve", "confirm", "users",
          "delUser", "setUser", "dropBad", "active", "removed", "destroy", "done"}
         \cup Detaching \cup Scanning \cup Sweeping

NoRun == [at |-> "idle", cmd |-> "none", vol |-> None, user |-> None,
          tgt |-> None, lun |-> 0,          \* the slot the command works towards
          fresh |-> FALSE,                  \* _create_target_volume_lun
          known |-> FALSE,                  \* the scsi id came with the lookup
          from |-> None, only |-> FALSE, back |-> "done",   \* a detach and its return
          seen |-> {}, todo |-> {}, idx |-> 0, item |-> None,  \* loops
          flag |-> FALSE,                   \* incoming_users_active when it was read
          tries |-> 0, round |-> 0,
          errs |-> 0, res |-> "ok"]

Go(q, at) == [q EXCEPT !.at = at]

\* A command meets at most MaxErrs failures that are not its own.
Errors(q, c) ==
    IF c \in Faults /\ q.errs < MaxErrs THEN {"error", "cfg"} ELSE {}

\* The ways a request c can end, when r is the answer to the request and
\* again the answer to the request sent once more.
Answers(q, c, r, again) ==
    {r} \cup (IF Lossy THEN {again} ELSE {})
        \cup {Ret(array, e) : e \in Errors(q, c)} \cup {Ret(r.a, "error") : e \in Errors(q, c)}

Felt(q, r) == IF r \in {"error", "cfg", "blocked", "clash", "inuse"} THEN [q EXCEPT !.errs = @ + 1] ELSE q

Finish(q, r) == [NoRun EXCEPT !.at = "done", !.cmd = q.cmd, !.vol = q.vol, !.user = q.user,
                              !.tgt = q.tgt, !.lun = q.lun, !.errs = q.errs, !.res = r]

\* An exception e in process q goes to the nearest handler.
Raised(q, e) ==
    LET h == Felt(q, e) IN
    IF q.at \in Scanning THEN Go(h, "destroy")
    ELSE IF q.cmd = "create" /\ e = "cfg" /\ q.at # "exists" /\ q.round + 1 < Rounds
    THEN [NoRun EXCEPT !.at = "lookup", !.cmd = q.cmd, !.vol = q.vol, !.user = q.user,
                       !.round = q.round + 1, !.errs = h.errs]
    ELSE IF \/ q.cmd = "export" /\ q.at # "clone"
            \/ q.cmd = "unexport" /\ q.at \in Detaching
    THEN [Go(h, "sList") EXCEPT !.res = "failed"]
    ELSE IF q.cmd = "remove" /\ q.at \in Detaching THEN Go(h, "removed")
    ELSE Finish(h, "failed")

Read(p, q) == pr' = [pr EXCEPT ![p] = q] /\ UNCHANGED <<array, session, late>>

\* Sessions end with their target.
Write(p, a, q) ==
    /\ array' = a
    /\ session' = session \cap a.made
    /\ pr' = [pr EXCEPT ![p] = q]
    /\ UNCHANGED late

\* A GET that fails.
Refused(p, c) == \E e \in Errors(pr[p], c) : Read(p, Raised(pr[p], e))

Smallest(S) == CHOOSE i \in S : \A j \in S : i <= j

-----------------------------------------------------------------------------
(* The beginning of the commands *)

Quiet == \A p \in Proc : pr[p].at = "idle"

Begin(p, c, v, u) ==
    /\ pr[p].at = "idle"
    /\ \A o \in Proc : pr[o].at # "idle" =>
          {c, pr[o].cmd} \subseteq Overlap /\ pr[o].vol # v /\ pr[o].user = u
    /\ c \notin {"update", "delete"}
    /\ v \in Clone <=> c \in {"export", "unexport"}
    /\ u \in IF c \in {"create", "export"} THEN {m \in Modes : \A r \in late : r.u = m} ELSE {None}
    /\ pr' = [pr EXCEPT ![p] = [NoRun EXCEPT
                !.cmd = c, !.vol = v, !.user = u,
                !.at = CASE c = "export" -> "clone" [] c = "remove" -> "lookup"
                         [] OTHER -> "exists"]]
    /\ UNCHANGED <<array, session, late>>

\* The commands that name a target instead of a volume.
BeginTarget(p, c, t, u) ==
    /\ pr[p].at = "idle" /\ Quiet
    /\ c \in {"update", "delete"}
    /\ u \in IF c = "update" THEN Modes ELSE {None}
    /\ pr' = [pr EXCEPT ![p] = [NoRun EXCEPT
                !.cmd = c, !.user = u, !.tgt = t, !.from = t,
                !.at = IF c = "update" THEN "target" ELSE "drop"]]
    /\ UNCHANGED <<array, session, late>>

\* is_lun takes an error for the answer that there is no volume.
Exists(p) ==
    LET q == pr[p] IN
    /\ q.at = "exists"
    /\ \E there \in {q.vol \in array.zvol} \cup {FALSE : e \in Errors(q, "is_lun")} :
          Read(p, IF there THEN Go(q, IF q.cmd = "destroy" THEN "sList" ELSE "lookup")
                  ELSE Finish([q EXCEPT !.errs = IF q.vol \in array.zvol THEN 1 ELSE 0],
                              IF q.cmd = "unexport" THEN "ok" ELSE "failed"))

\* Wrong: a clone that exists is an error.
CloneSnapshotWrong(p) ==
    LET q == pr[p]
        r == create_volume_from_snapshot(array, q.vol) IN
    /\ q.at = "clone"
    /\ Write(p, r.a, IF r.r = "ok" THEN Go(q, "lookup") ELSE Raised(q, r.r))

\* The clone of the snapshot; one that exists is used as it is.
CloneSnapshot(p) ==
    LET q == pr[p]
        r == create_volume_from_snapshot(array, q.vol) IN
    /\ q.at = "clone"
    /\ \E o \in Answers(q, "clone", r, create_volume_from_snapshot(r.a, q.vol)) :
          Write(p, o.a, IF o.r \in {"ok", "exists"} THEN Go(q, "lookup") ELSE Raised(q, o.r))

-----------------------------------------------------------------------------
(* _acquire_taget_volume_lun *)

\* What the commands do with the slot they were given.
Acquired(q, t, l, attached, fresh) ==
    LET s == [q EXCEPT !.tgt = t, !.lun = l, !.fresh = fresh, !.seen = {}, !.todo = {},
                       !.idx = 0, !.known = attached /\ q.cmd = "export"] IN
    CASE q.cmd \in {"create", "export"} -> Go(s, IF fresh THEN "vipsNew" ELSE "target")
      [] q.cmd \in {"get", "getCurrent"} ->
            IF attached THEN Go(s, "vipsNew")
            ELSE Finish([s EXCEPT !.tgt = None, !.lun = 0], "ok")
      [] q.cmd = "remove" ->
            IF attached THEN [Go(s, "detach") EXCEPT !.from = t, !.back = "removed"]
            ELSE Go(s, "removed")
      [] OTHER ->
            IF attached THEN [Go(s, "detach") EXCEPT !.from = t, !.back = "destroy"]
            ELSE Go(s, "destroy")

\* Wrong: only targets of the group count as attached.
LookupWrong(p) ==
    LET q == pr[p]
        slot == array.att[q.vol]
        current == q.cmd \in {"getCurrent", "remove", "unexport"} IN
    /\ q.at = "lookup"
    /\ Read(p, IF slot # None /\ slot \in Own \X (0..Luns - 1)
                THEN Acquired(q, slot[1], slot[2], TRUE, FALSE)
                ELSE IF current THEN Acquired(q, None, 0, FALSE, FALSE) ELSE Go(q, "list"))

\* get_target_by_lun_name; a target that does not match the prefix is left
\* when nothing is connected to it, except by a read-only lookup.
Lookup(p) ==
    LET q == pr[p]
        slot == array.att[q.vol]
        current == q.cmd \in {"getCurrent", "remove", "unexport"} IN
    /\ q.at = "lookup"
    /\ \/ Refused(p, "lookup")
       \/ slot # None /\ (current \/ slot[1] \in Own)
          /\ Read(p, Acquired(q, slot[1], slot[2], TRUE, FALSE))
       \/ slot # None /\ ~current /\ slot[1] \in Foreign
          /\ Read(p, [Go(q, "rehome") EXCEPT !.tgt = slot[1], !.lun = slot[2]])
       \/ slot = None /\ current /\ Read(p, Acquired(q, None, 0, FALSE, FALSE))
       \/ slot = None /\ ~current /\ Read(p, Go(q, "list"))

\* Wrong: a target of another prefix is left without a look at its sessions.
RehomeWrong(p) ==
    /\ pr[p].at = "rehome"
    /\ Read(p, [Go(pr[p], "detach") EXCEPT !.from = pr[p].tgt, !.back = "list"])

Rehome(p) ==
    LET q == pr[p] IN
    /\ q.at = "rehome"
    /\ \/ Refused(p, "sessions")
       \/ q.tgt \in session /\ Read(p, Acquired(q, q.tgt, q.lun, TRUE, FALSE))
       \/ q.tgt \notin session
          /\ Read(p, [Go(q, "detach") EXCEPT !.from = q.tgt, !.back = "list"])

List(p) ==
    LET q == pr[p]
        related == array.made \cap Own IN
    /\ q.at = "list"
    /\ \/ Refused(p, "list")
       \/ Read(p, [Go(q, IF related = {} THEN "pick" ELSE "slot") EXCEPT
                      !.seen = related, !.todo = related, !.tgt = None, !.lun = 0])

\* Wrong: LUNs are counted from one.
SlotOfWrong(p) ==
    LET q == pr[p]
        t == Smallest(q.todo)
        free == (1..Luns) \ LunsOf(array, t) IN
    /\ q.at = "slot"
    /\ Read(p, IF free = {} THEN [Go(q, IF q.todo = {t} THEN "pick" ELSE "slot") EXCEPT !.todo = @ \ {t}]
                ELSE Acquired(q, t, Smallest(free), FALSE, FALSE))

\* The first free LUN of the first target that has one.
SlotOf(p) ==
    LET q == pr[p]
        t == Smallest(q.todo)
        free == (0..Luns - 1) \ LunsOf(array, t)
        next == [Go(q, IF q.todo = {t} THEN "pick" ELSE "slot") EXCEPT !.todo = @ \ {t}] IN
    /\ q.at = "slot"
    /\ \/ Refused(p, "luns")
       \/ (t \notin array.made \/ free = {}) /\ Read(p, next)
       \/ t \in array.made /\ free # {}
          /\ Read(p, Acquired(q, t, Smallest(free), FALSE, FALSE))

\* Wrong: the index is not advanced past a target that came into being.
PickWrong(p) ==
    LET q == pr[p]
        candidates == {i \in q.idx..Cardinality(q.seen) : i \notin q.seen} IN
    /\ q.at = "pick"
    /\ IF candidates = {} THEN Read(p, Acquired(q, 0, 0, FALSE, TRUE))
       ELSE Smallest(candidates) \notin array.made /\ Read(p, Acquired(q, Smallest(candidates), 0, FALSE, TRUE))

\* The lowest index not listed, unless the target came into being meanwhile
\* (Own bounds the indices).
Pick(p) ==
    LET q == pr[p]
        candidates == {i \in q.idx..Cardinality(q.seen) : i \notin q.seen}
        i == Smallest(candidates) IN
    /\ q.at = "pick"
    /\ \/ candidates = {} /\ Read(p, Acquired(q, 0, 0, FALSE, TRUE))
       \/ candidates # {} /\ Refused(p, "get_target")
       \/ candidates # {} /\ i \in Own \ array.made /\ Read(p, Acquired(q, i, 0, FALSE, TRUE))
       \/ candidates # {} /\ i \in array.made /\ Read(p, [q EXCEPT !.idx = i + 1])

-----------------------------------------------------------------------------
(* _create_target_volume_lun and _ensure_target_volume_lun *)

VipsNew(p) ==
    /\ pr[p].at = "vipsNew"
    /\ \/ Errors(pr[p], "vips") # {} /\ Read(p, Raised(pr[p], "error"))
       \/ Read(p, IF pr[p].cmd \in {"get", "getCurrent"} THEN Finish(pr[p], "ok")
                  ELSE Go(pr[p], "create"))

CreateTarget(p) ==
    LET q == pr[p]
        r == create_target(array, q.tgt, q.user) IN
    /\ q.at = "create"
    /\ \E o \in Answers(q, "create_target", r, create_target(r.a, q.tgt, q.user)) :
          Write(p, o.a, IF o.r \in {"ok", "exists"} THEN [Go(q, "attach") EXCEPT !.tries = 0]
                        ELSE Raised(q, o.r))

GetTarget(p) ==
    LET q == pr[p] IN
    /\ q.at = "target"
    /\ \/ Refused(p, "get_target")
       \/ q.tgt \notin array.made
          /\ Read(p, IF q.cmd = "update" THEN Raised(q, "notfound")
                     ELSE [Go(q, "vipsNew") EXCEPT !.fresh = TRUE])
       \/ q.tgt \in array.made
          /\ Read(p, [Go(q, IF q.cmd # "update" THEN "vips"
                            ELSE IF q.user = None THEN "active" ELSE "users")
                        EXCEPT !.flag = array.chap[q.tgt]])

\* The credentials come next, with CHAP in another order than without.
Published(q) ==
    IF q.fresh THEN IF q.user = None THEN Finish(q, "ok") ELSE Go(q, "setUser")
    ELSE Go(q, IF q.user = None THEN "active" ELSE "users")

\* The assigned VIPs are brought in line with the configuration.
Vips(p) ==
    LET q == pr[p] IN
    /\ q.at = "vips"
    /\ \/ Refused(p, "vips")
       \/ Read(p, IF q.known THEN Published(q) ELSE Go(q, "getLun"))
       \/ q.tgt \notin array.made /\ Read(p, Raised(q, "notfound"))

GetLun(p) ==
    LET q == pr[p] IN
    /\ q.at = "getLun"
    /\ \/ Refused(p, "get_lun")
       \/ q.vol \in On(array, q.tgt) /\ Read(p, Published(q))
       \/ q.vol \notin On(array, q.tgt) /\ Read(p, [Go(q, "attach") EXCEPT !.tries = 0])

-----------------------------------------------------------------------------
(* _attach_target_volume_lun *)

\* Wrong: a LUN that exists is taken for the volume's own.
AttachWrong(p) ==
    LET q == pr[p]
        r == attach_target_vol(array, q.tgt, q.vol, q.lun) IN
    /\ q.at = "attach"
    /\ Write(p, r.a, IF r.r \in {"ok", "exists"} THEN Published(q) ELSE Raised(q, r.r))

Attach(p) ==
    LET q == pr[p]
        r == attach_target_vol(array, q.tgt, q.vol, q.lun) IN
    /\ q.at = "attach"
    /\ \E o \in Answers(q, "attach", r, attach_target_vol(r.a, q.tgt, q.vol, q.lun))
                \cup {Ret(array, "blocked") : e \in Errors(q, "blocked")} :
          Write(p, o.a,
                IF o.r = "ok" THEN Published(q)
                ELSE IF o.r \in {"busy", "blocked"} /\ q.tries + 1 < Attempts
                     THEN [Go(Felt(q, o.r), "resolve") EXCEPT !.tries = @ + 1]
                     ELSE Raised(q, o.r))

\* Wrong: a volume that is attached anywhere is taken for published.
ResolveNoMove(p) ==
    LET q == pr[p] IN
    /\ q.at = "resolve"
    /\ Read(p, IF array.att[q.vol] = None THEN Go(q, "attach") ELSE Published(q))

\* Wrong: a volume that is in its slot already is an error.
ResolveNoConfirm(p) ==
    LET q == pr[p]
        slot == array.att[q.vol] IN
    /\ q.at = "resolve"
    /\ Read(p, IF slot = None THEN Go(q, "attach")
                ELSE IF slot = <<q.tgt, q.lun>> THEN Raised(q, "busy")
                ELSE [Go(q, "busy") EXCEPT !.from = slot[1], !.only = slot[1] = q.tgt,
                                           !.back = "attach"])

\* Where the volume is decides whether it stays, is moved to the LUN, or is
\* moved from its target.
Resolve(p) ==
    LET q == pr[p]
        slot == array.att[q.vol] IN
    /\ q.at = "resolve"
    /\ \/ Refused(p, "lookup")
       \/ q.tgt \in Clash /\ Read(p, Raised(q, "clash"))
       \/ slot = None /\ Read(p, Go(q, "attach"))
       \/ slot = <<q.tgt, q.lun>> /\ Read(p, Go(q, "confirm"))
       \/ slot \notin {None, <<q.tgt, q.lun>>}
          /\ Read(p, [Go(q, "busy") EXCEPT !.from = slot[1], !.only = slot[1] = q.tgt,
                                           !.back = "attach"])

Confirm(p) ==
    LET q == pr[p] IN
    /\ q.at = "confirm"
    /\ \/ Refused(p, "get_lun")
       \/ Read(p, IF q.vol \in On(array, q.tgt) THEN Published(q) ELSE Raised(q, "notfound"))

-----------------------------------------------------------------------------
(* Credentials *)

\* An update replaces the user of the same name, whose password it cannot see.
Users(p) ==
    LET q == pr[p]
        wanted == {q.user} \ {None}
        users == array.users[q.tgt]
        settled == IF q.user = None THEN Finish(q, "ok") ELSE Go(q, "active") IN
    /\ q.at = "users"
    /\ \/ Refused(p, "users")
       \/ q.tgt \notin array.made
          /\ Read(p, IF q.user = None THEN settled
                     ELSE IF q.cmd = "update" THEN Go(q, "setUser") ELSE Raised(q, "notfound"))
       \/ /\ q.tgt \in array.made
          /\ users = wanted /\ (q.cmd # "update" \/ wanted = {})
          /\ Read(p, settled)
       \/ /\ q.tgt \in array.made
          /\ users # wanted \/ (q.cmd = "update" /\ wanted # {})
          /\ Read(p, [Go(q, IF users = {} THEN "setUser" ELSE "delUser") EXCEPT !.todo = users])

DelUser(p) ==
    LET q == pr[p] IN
    /\ q.at = "delUser"
    /\ \E u \in q.todo :
        LET r == delete_target_user(array, q.tgt, u)
            last == q.todo = {u}
            next == [q EXCEPT !.todo = @ \ {u},
                              !.at = IF last THEN "setUser" ELSE "delUser"] IN
        \E o \in Answers(q, "users", r, delete_target_user(r.a, q.tgt, u)) :
           Write(p, o.a,
                 IF o.r = "ok"
                 THEN IF last /\ q.user = None THEN Finish(q, "ok") ELSE next
                 ELSE IF o.r = "notfound" /\ q.user = None THEN Finish(q, "ok")
                      ELSE Raised(q, o.r))

\* _set_target_credentials: a target that gets no credentials is removed.
SetUser(p) ==
    LET q == pr[p]
        r == create_target_user(array, q.tgt, q.user) IN
    /\ q.at = "setUser"
    /\ \E o \in Answers(q, "set_user", r, create_target_user(r.a, q.tgt, q.user)) :
          Write(p, o.a,
                IF o.r = "ok" THEN IF q.fresh THEN Finish(q, "ok") ELSE Go(q, "active")
                ELSE IF q.cmd = "update" THEN Raised(q, o.r)
                ELSE [Go(Felt(q, o.r), "dropBad") EXCEPT !.back = o.r])

\* Wrong: the failure is not raised again.
DropBadWrong(p) ==
    /\ pr[p].at = "dropBad"
    /\ Write(p, delete_target(array, pr[p].tgt).a, Finish(pr[p], "ok"))

DropBad(p) ==
    LET q == pr[p]
        r == delete_target(array, q.tgt) IN
    /\ q.at = "dropBad"
    /\ \E o \in Answers(q, "delete_target", r, delete_target(r.a, q.tgt)) :
          Write(p, o.a, Raised(q, q.back))

\* Wrong: CHAP is switched on and never off.
ActiveWrong(p) ==
    LET q == pr[p] IN
    /\ q.at = "active"
    /\ Write(p, IF q.user # None THEN set_target_incoming_users_active(array, q.tgt, TRUE).a ELSE array,
                IF q.user # None THEN Finish(q, "ok") ELSE Go(q, "users"))

\* incoming_users_active, judged by the target data of GetTarget.
Active(p) ==
    LET q == pr[p]
        want == q.user # None
        next == IF want THEN Finish(q, "ok") ELSE Go(q, "users")
        r == set_target_incoming_users_active(array, q.tgt, want) IN
    /\ q.at = "active"
    /\ \/ q.flag = want /\ Read(p, next)
       \/ /\ q.flag # want
          /\ \E o \in Answers(q, "active", r, r) :
                Write(p, o.a, IF o.r = "ok" THEN next ELSE Raised(q, o.r))

-----------------------------------------------------------------------------
(* _detach_target_volume *)

\* Wrong: the sessions of the target are not looked at.
BusyWrong(p) == pr[p].at = "busy" /\ Read(p, Go(pr[p], "detach"))

\* check_in_use
Busy(p) ==
    LET q == pr[p] IN
    /\ q.at = "busy"
    /\ \/ Refused(p, "sessions")
       \/ Read(p, IF q.from \in session THEN Raised(q, "inuse") ELSE Go(q, "detach"))

Detach(p) ==
    LET q == pr[p]
        r == detach_target_vol(array, q.from, q.vol) IN
    /\ q.at = "detach"
    /\ \E o \in Answers(q, "detach", r, detach_target_vol(r.a, q.from, q.vol)) :
          Write(p, o.a, IF o.r \in {"ok", "notfound"} THEN Go(q, IF q.only THEN q.back ELSE "left")
                        ELSE Raised(q, o.r))

\* Wrong: the target is dropped whatever is left on it.
LeftWrong(p) == pr[p].at = "left" /\ Read(p, Go(pr[p], "drop"))

Left(p) ==
    LET q == pr[p] IN
    /\ q.at = "left"
    /\ \/ Refused(p, "luns")
       \/ Read(p, IF q.from \notin array.made THEN Raised(q, "notfound")
                  ELSE Go(q, IF On(array, q.from) = {} THEN "drop" ELSE q.back))

Drop(p) ==
    LET q == pr[p]
        r == delete_target(array, q.from) IN
    /\ q.at = "drop"
    /\ \E o \in Answers(q, "delete_target", r, delete_target(r.a, q.from)) :
          Write(p, o.a, IF q.cmd = "delete" THEN Finish(Felt(q, o.r), IF o.r = "ok" THEN "ok" ELSE "failed")
                        ELSE IF o.r \in {"ok", "notfound"} THEN Go(q, q.back)
                        ELSE Raised(q, o.r))

-----------------------------------------------------------------------------
(* The end of remove_export: once in a hundred times, _delete_zombie_targets. *)

Removed(p) ==
    /\ pr[p].at = "removed"
    /\ Read(p, Finish(pr[p], "ok")) \/ Read(p, Go(pr[p], "zList"))

SweepList(p) ==
    /\ pr[p].at = "zList"
    /\ \/ Errors(pr[p], "list") # {} /\ Read(p, Finish(Felt(pr[p], "error"), "ok"))
       \/ Read(p, [Go(pr[p], "zLuns") EXCEPT !.todo = array.made \cap Own])

SweepLuns(p) ==
    LET q == pr[p]
        t == Smallest(q.todo) IN
    /\ q.at = "zLuns"
    /\ \/ q.todo = {} /\ Read(p, Finish(q, "ok"))
       \/ q.todo # {} /\ Errors(q, "luns") # {}
          /\ Read(p, [Felt(q, "error") EXCEPT !.todo = @ \ {t}])
       \/ q.todo # {}
          /\ Read(p, [Go(q, "zCheck") EXCEPT !.from = t, !.seen = On(array, t)])

SweepCheck(p) ==
    LET q == pr[p] IN
    /\ q.at = "zCheck"
    /\ \/ q.seen = {} /\ Read(p, Go(q, "zAgain"))
       \/ \E v \in q.seen : \E there \in {v \in array.zvol} \cup {FALSE : e \in Errors(q, "is_lun")} :
             Read(p, IF there THEN [q EXCEPT !.seen = @ \ {v}]
                     ELSE [Go(q, "zDetach") EXCEPT !.item = v])

SweepDetach(p) ==
    LET q == pr[p]
        r == detach_target_vol(array, q.from, q.item) IN
    /\ q.at = "zDetach"
    /\ \E o \in Answers(q, "detach", r, detach_target_vol(r.a, q.from, q.item)) :
          Write(p, o.a, [Go(Felt(q, o.r), "zCheck") EXCEPT !.seen = @ \ {q.item}, !.item = None])

SweepAgain(p) ==
    LET q == pr[p] IN
    /\ q.at = "zAgain"
    /\ \/ Errors(q, "luns") # {} /\ Read(p, [Go(Felt(q, "error"), "zLuns") EXCEPT !.todo = @ \ {q.from}])
       \/ Read(p, IF q.from \in array.made /\ On(array, q.from) = {} THEN Go(q, "zDrop")
                  ELSE [Go(q, "zLuns") EXCEPT !.todo = @ \ {q.from}])

SweepDrop(p) ==
    LET q == pr[p]
        r == delete_target(array, q.from) IN
    /\ q.at = "zDrop"
    /\ \E o \in Answers(q, "delete_target", r, delete_target(r.a, q.from)) :
          Write(p, o.a, [Go(Felt(q, o.r), "zLuns") EXCEPT !.todo = @ \ {q.from}])

-----------------------------------------------------------------------------
(* _delete_volume: _detach_volume, whose errors are logged, and the delete. *)

\* With a target group name only the targets of the group are looked at.
ScanList(p) ==
    LET q == pr[p]
        candidates == IF q.cmd = "destroy" THEN array.made \cap Own ELSE array.made IN
    /\ q.at = "sList"
    /\ \/ Refused(p, "list")
       \/ Read(p, [Go(q, "sLuns") EXCEPT !.todo = candidates])

ScanLuns(p) ==
    LET q == pr[p] IN
    /\ q.at = "sLuns"
    /\ \/ q.todo = {} /\ Read(p, Go(q, "destroy"))
       \/ q.todo # {} /\ Refused(p, "luns")
       \/ \E t \in q.todo :
             Read(p, IF q.vol \notin On(array, t) THEN [q EXCEPT !.todo = @ \ {t}]
                     ELSE [Go(q, "sDetach") EXCEPT !.from = t, !.todo = {}, !.tries = 0,
                                                   !.only = On(array, t) # {q.vol}])

ScanDetach(p) ==
    LET q == pr[p]
        r == detach_target_vol(array, q.from, q.vol) IN
    /\ q.at = "sDetach"
    /\ \E o \in Answers(q, "detach", r, detach_target_vol(r.a, q.from, q.vol)) :
          Write(p, o.a, IF o.r = "ok" THEN Go(q, IF q.only THEN "destroy" ELSE "sDrop")
                        ELSE Raised(q, o.r))

\* Three times, whatever the answer, until the target is gone.
ScanDrop(p) ==
    LET q == pr[p]
        r == delete_target(array, q.from) IN
    /\ q.at = "sDrop"
    /\ \E o \in Answers(q, "delete_target", r, delete_target(r.a, q.from)) :
          Write(p, o.a, Go(Felt(q, o.r), IF o.r = "notfound" THEN "destroy" ELSE "sGone"))

ScanGone(p) ==
    LET q == pr[p] IN
    /\ q.at = "sGone"
    /\ \/ Refused(p, "get_target")
       \/ Read(p, IF q.from \notin array.made \/ q.tries = 2 THEN Go(q, "destroy")
                  ELSE [Go(q, "sDrop") EXCEPT !.tries = @ + 1])

Destroy(p) ==
    LET q == pr[p] IN
    /\ q.at = "destroy"
    /\ \E detach \in BOOLEAN :
        LET r == delete_lun(array, q.vol, detach) IN
        \E o \in Answers(q, "delete_lun", r, delete_lun(r.a, q.vol, detach)) :
           Write(p, o.a, IF o.r \in {"ok", "notfound"} THEN Finish(q, q.res)
                         ELSE Finish(Felt(q, o.r), "failed"))

-----------------------------------------------------------------------------
(* The rest of the world *)

Exit(p) == pr[p].at = "done" /\ Read(p, NoRun)

\* The request a process waits for.
Request(q) == [c |-> q.at, t |-> q.tgt, v |-> q.vol, l |-> q.lun, u |-> q.user]

\* joviandss_cmd kills a process at its timeout; the array may answer later.
Kill(p) ==
    /\ pr[p].at \in LateCalls /\ late = {}
    /\ late' = {Request(pr[p])}
    /\ pr' = [pr EXCEPT ![p] = NoRun]
    /\ UNCHANGED <<array, session>>

Serve(r) ==
    /\ late' = late \ {r}
    /\ array' = IF r.c = "create" THEN create_target(array, r.t, r.u).a
                ELSE attach_target_vol(array, r.t, r.v, r.l).a
    /\ UNCHANGED <<session, pr>>

\* Nodes log in and out between the commands of a VM, under its lock.
Login(t) ==
    /\ Quiet /\ On(array, t) # {}
    /\ session' = session \cup {t}
    /\ UNCHANGED <<array, pr, late>>

Logout(t) ==
    /\ Quiet /\ t \in session
    /\ session' = session \ {t}
    /\ UNCHANGED <<array, pr, late>>

\* A volume that was deleted is created anew.
CreateVolume(v) ==
    /\ Quiet /\ v \notin array.zvol /\ v \notin Clone
    /\ array' = [array EXCEPT !.zvol = @ \cup {v}]
    /\ UNCHANGED <<session, pr, late>>

\* Volumes may be on targets of a prefix that was configured before.
Init ==
    /\ \E att \in [Volume \ Clone -> (Foreign \X (0..Luns - 1)) \cup {None}] :
          /\ \A v, w \in Volume \ Clone : v # w /\ att[v] # None => att[v] # att[w]
          /\ array = [zvol |-> Volume \ Clone,
                      made |-> {t \in Foreign : \E v \in Volume \ Clone : att[v] # None /\ att[v][1] = t},
                      att |-> [v \in Volume |-> IF v \in Clone THEN None ELSE att[v]],
                      chap |-> [t \in Target |-> FALSE], users |-> [t \in Target |-> {}]]
    /\ session = {}
    /\ pr = [p \in Proc |-> NoRun]
    /\ late = {}

Step(p) ==
    \/ Exists(p) \/ CloneSnapshot(p) \/ Lookup(p) \/ Rehome(p) \/ List(p) \/ SlotOf(p) \/ Pick(p)
    \/ VipsNew(p) \/ CreateTarget(p) \/ GetTarget(p) \/ Vips(p) \/ GetLun(p)
    \/ Attach(p) \/ Resolve(p) \/ Confirm(p)
    \/ Users(p) \/ DelUser(p) \/ SetUser(p) \/ DropBad(p) \/ Active(p)
    \/ Busy(p) \/ Detach(p) \/ Left(p) \/ Drop(p)
    \/ Removed(p) \/ SweepList(p) \/ SweepLuns(p) \/ SweepCheck(p) \/ SweepDetach(p)
    \/ SweepAgain(p) \/ SweepDrop(p)
    \/ ScanList(p) \/ ScanLuns(p) \/ ScanDetach(p) \/ ScanDrop(p) \/ ScanGone(p) \/ Destroy(p)
    \/ Exit(p)

Next ==
    \/ \E p \in Proc : Step(p) \/ Kill(p)
    \/ \E p \in Proc, c \in Cmds, u \in Modes \cup {None} :
          \/ \E v \in Volume : Begin(p, c, v, u)
          \/ \E t \in Own : BeginTarget(p, c, t, u)
    \/ \E r \in late : Serve(r)
    \/ \E t \in Target : Login(t) \/ Logout(t)
    \/ \E v \in Volume : CreateVolume(v)

Spec == Init /\ [][Next]_vars

\* A process that runs goes on: a request that is not answered times out, and
\* no step waits for another process.  Nothing is assumed of the others.
FairSpec == Spec /\ \A p \in Proc : WF_vars(Step(p))

-----------------------------------------------------------------------------
(* Properties *)

Ended(p, C, r) == pr[p].at = "done" /\ pr[p].cmd \in C /\ pr[p].res = r

\* The type invariant.
TypeOK ==
    /\ array \in [zvol : SUBSET Volume, made : SUBSET Target, att : [Volume -> Slot \cup {None}],
                  chap : [Target -> BOOLEAN], users : [Target -> SUBSET User]]
    /\ session \subseteq Target
    /\ \A p \in Proc :
          /\ DOMAIN pr[p] = DOMAIN NoRun /\ pr[p].at \in Steps
          /\ pr[p].vol \in Volume \cup {None} /\ pr[p].tgt \in Target \cup {None}
    /\ Cardinality(late) <= 1

\* No step of a command detaches a volume that exists and is not its own: a
\* target is removed only when nothing is left on it.  (A target that gets no
\* credentials is removed by _set_target_credentials with what is on it.)
OthersStay ==
    [][\A p \in Proc, v \in Volume :
          /\ pr[p] # pr'[p] /\ pr[p].at # "dropBad" /\ pr[p].cmd # "delete"
          /\ pr[p].vol # v /\ v \in array.zvol /\ array.att[v] # None
          => array'.att[v] = array.att[v]]_vars

\* Publishing a volume, looking one up and changing credentials take no LUN from
\* a target with iSCSI sessions, whatever target the volume has to leave.
SessionsKept ==
    [][\A p \in Proc, v \in Volume :
          /\ pr[p] # pr'[p] /\ pr[p].cmd \in {"create", "get", "getCurrent", "update"}
          /\ pr[p].at # "dropBad" /\ array.att[v] # None /\ array.att[v][1] \in session
          => array'.att[v] = array.att[v]]_vars

\* The target and LUN that ensure_target_volume and create_export_snapshot
\* return are where the volume is, whatever failed and was resent meanwhile.
AnswerHolds ==
    \A p \in Proc : Ended(p, {"create", "export"}, "ok") => array.att[pr[p].vol] = <<pr[p].tgt, pr[p].lun>>

\* With an attach request of a killed command under way, the target at least
\* is the one that was returned.
AnswerOnTarget ==
    \A p \in Proc :
       Ended(p, {"create"}, "ok") => array.att[pr[p].vol] \in {pr[p].tgt} \X (0..Luns - 1)

\* A command that succeeds leaves the target with exactly the user it was given
\* and with CHAP switched on just when there is one, however the target came
\* to be and whatever it had before.
ChapApplied ==
    \A p \in Proc :
       Ended(p, {"create", "export", "update"}, "ok") =>
          /\ array.users[pr[p].tgt] = {pr[p].user} \ {None}
          /\ array.chap[pr[p].tgt] = (pr[p].user # None)

\* An unpublish that met no failure leaves the volume detached, and an
\* unexport leaves no clone.
RemoveCompletes ==
    \A p \in Proc :
       Ended(p, {"remove", "unexport"}, "ok") /\ pr[p].errs = 0 =>
          /\ pr[p].cmd = "remove" => array.att[pr[p].vol] = None
          /\ pr[p].cmd = "unexport" => pr[p].vol \notin array.zvol

\* A command that met no failure, no clash and no target in use fails only when
\* its volume does not exist: no resent request and no leftover stops a retry.
Explained ==
    \A p \in Proc :
       Ended(p, Cmds \ {"update", "delete"}, "failed") /\ pr[p].errs = 0 => pr[p].vol \notin array.zvol

\* Of commands beside each other, one that met no failure fails only when
\* another volume took its LUN.
LostRace ==
    \A p \in Proc :
       Ended(p, {"create"}, "failed") /\ pr[p].errs = 0 /\ pr[p].tgt \in Own =>
          \E w \in Volume \ {pr[p].vol} : array.att[w] = <<pr[p].tgt, pr[p].lun>>

\* Every command ends: the loops over indices, targets and attempts are bounded.
CommandEnds == \A p \in Proc : pr[p].at # "idle" ~> pr[p].at = "idle"
=============================================================================
