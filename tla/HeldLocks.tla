------------------------------ MODULE HeldLocks ------------------------------
(***************************************************************************)
(* The lock primitive of the storage plugins, OpenEJovianDSS/Lock.pm.      *)
(*                                                                         *)
(* Every process keeps a registry of the locks it commissioned, outermost  *)
(* first (held), the subset it owns (owned) and, per owned lock, the time  *)
(* left to the hold deadline (left).  One SIGALRM per process (alarm) is   *)
(* the backstop against a wedged holder; it is suspended while a timed     *)
(* command, a flock wait or a poll sleep is in progress (blind counts that *)
(* suspended time since the last cooperation point).                       *)
(*                                                                         *)
(* A lock lives either in pmxcfs as a directory (cluster backend: atomic   *)
(* mkdir, removed by rmdir, reclaimed by a waiter's utime(0,0) poke once   *)
(* it has been idle for CFS_LOCK_TIMEOUT) or in the kernel as a flock      *)
(* (node backend: never expires, dropped when the process dies).           *)
(* pmxcfs and flock are external: they are modelled from how Lock.pm uses  *)
(* them.                                                                   *)
(*                                                                         *)
(* Time is discrete.  There is no absolute clock: every timer counts the   *)
(* ticks that are left, so the state space is finite without a bound on    *)
(* the length of a behaviour.                                              *)
(***************************************************************************)
EXTENDS Naturals, Sequences

CONSTANTS
  Proc,         \* plugin processes (one $ctx each), on any cluster node
  Lock,         \* resolved lock paths (a node-scope path exists per node)
  None,         \* no process: the lock artifact does not exist
  Leaf,         \* component-class locks: jdssc_general, jdssc_info, multipath
  ClusterLeaf,  \* the leaf locks whose <class>_lock_type is 'cluster'
  Shared,       \* the storage is shared: vm / storage locks use pmxcfs
  Plan,         \* Plan[p]: nests of with_lock calls p may make, outermost first
  Acquire,      \* Acquire[l]: seconds to wait to acquire l
  MaxHold,      \* MaxHold[l]: hold cap of l, 0 = no cap
  Ceiling,      \* PROXMOX_CLUSTER_LOCK_TIMEOUT_MAX
  Cfs,          \* CFS_LOCK_TIMEOUT of pmxcfs
  RunMax,       \* RunMax[l]: longest timed command run under the leaf lock l
  BlindMax,     \* longest suspended time a method body spends between two
                \* cooperation points (timed commands, waits)
  QuorumLoss    \* the cluster may lose quorum while a process waits

ASSUME LockSets == Leaf \subseteq Lock /\ ClusterLeaf \subseteq Leaf
ASSUME NoneIsNoProc == None \notin Proc
ASSUME Timings ==
  /\ Acquire \in [Lock -> Nat] /\ MaxHold \in [Lock -> Nat]
  /\ Ceiling \in Nat \ {0} /\ Cfs \in Nat /\ RunMax \in [Leaf -> Nat \ {0}]
  /\ BlindMax \in Nat
ASSUME Switches == Shared \in BOOLEAN /\ QuorumLoss \in BOOLEAN
ASSUME Nests == Plan \in [Proc -> SUBSET Seq(Lock)]

VARIABLES
  held,     \* held[p]: the registry, lock paths in commission order
  owned,    \* owned[p]: the records whose owned flag is set
  left,     \* left[p][l]: ticks to the hold deadline; 0 = deadline passed
  alarm,    \* alarm[p]: ticks to the armed hold alarm, while it is not suspended
  blind,    \* blind[p]: ticks the alarm has been suspended since the last refresh
  pc,       \* pc[p]: what p is doing
  timer,    \* timer[p]: ticks left of the wait or the command in progress
  err,      \* err[p]: class of the error in flight, as the callers classify it
  overran,  \* overran[p]: a hold-cap overrun is unwinding p (history)
  dir,      \* dir[l]: the process that created the lock artifact, or None
  idle,     \* idle[l]: ticks since the artifact was last touched
  quiet     \* quiet[p]: ticks since p last refreshed all it owns, Cfs at most (history)

vars == <<held, owned, left, alarm, blind, pc, timer, err, overran, dir, idle, quiet>>

(***************************************************************************)
(* "body": in Perl code, under the innermost held section or under none;   *)
(* "poll": about to attempt the mkdir; "sleep": between two attempts;      *)
(* "flock": blocked in the kernel; "run": a timed command is in flight;    *)
(* "leave": the innermost section is being left, with err or without.      *)
(***************************************************************************)
Where  == {"body", "poll", "sleep", "flock", "run", "leave"}
Errors == {"none", "fatal", "acquire", "other"}

TypeOK ==
  /\ held \in [Proc -> Seq(Lock)]
  /\ owned \in [Proc -> SUBSET Lock]
  /\ left \in [Proc -> [Lock -> Nat]]
  /\ alarm \in [Proc -> Nat]
  /\ blind \in [Proc -> Nat]
  /\ pc \in [Proc -> Where]
  /\ timer \in [Proc -> Nat]
  /\ err \in [Proc -> Errors]
  /\ overran \in [Proc -> BOOLEAN]
  /\ dir \in [Lock -> Proc \cup {None}]
  /\ idle \in [Lock -> 0..Cfs]
  /\ quiet \in [Proc -> 0..Cfs]

-----------------------------------------------------------------------------
(* Resolution and the registry.                                            *)

Cluster(l) == IF l \in Leaf THEN l \in ClusterLeaf ELSE Shared

Top(p)   == held[p][Len(held[p])]
Below(p) == SubSeq(held[p], 1, Len(held[p]) - 1)

\* Wrong variants of an operator are named ...Wrong here and below; nothing uses
\* them but the experiments that show that a property notices the mistake.
AlarmCapWrong(l) == MaxHold[l]    \* no ceiling on pmxcfs

\* The alarm cap frozen at commission: the hold cap, ceilinged on pmxcfs.
AlarmCap(l) ==
  IF Cluster(l) /\ (MaxHold[l] = 0 \/ MaxHold[l] > Ceiling)
  THEN Ceiling ELSE MaxHold[l]

HoldTicksWrong(l) == MaxHold[l]   \* overdue at the cap

HoldTicks(l) == MaxHold[l] + 1    \* overdue strictly after the cap

OverdueWrong(p, l) == FALSE       \* refresh_locks without the deadline

Overdue(p, l) == l \in owned[p] /\ MaxHold[l] > 0 /\ left[p][l] = 0

AnyOverdue(p) == \E l \in owned[p] : Overdue(p, l)

\* The owned records that refresh_locks reaches before it dies, all if it does not.
Reached(p) ==
  {l \in owned[p] : \E i \in DOMAIN held[p] :
                       /\ held[p][i] = l
                       /\ \A j \in 1..i : ~Overdue(p, held[p][j])}

TouchedWrong(S) == idle           \* refresh_locks without utime

\* utime on every cluster record in S.
Touched(S) == [l \in Lock |-> IF l \in S /\ Cluster(l) THEN 0 ELSE idle[l]]

\* Indices of the registry h that hold an armed alarm section, and the
\* alarm value that re-arming the innermost of them gives (0: none is armed).
ArmedAt(h, own) == {i \in DOMAIN h : h[i] \in own /\ AlarmCap(h[i]) > 0}

Rearms(h, own, a) ==
  \/ ArmedAt(h, own) = {} /\ a = 0
  \/ \E i \in ArmedAt(h, own) :
        (\A j \in ArmedAt(h, own) : j <= i) /\ a = AlarmCap(h[i])

AlarmValues == {0} \cup {AlarmCap(l) : l \in Lock}

AlarmArmed(p) == \E l \in owned[p] : AlarmCap(l) > 0

Init ==
  /\ held = [p \in Proc |-> <<>>]
  /\ owned = [p \in Proc |-> {}]
  /\ left = [p \in Proc |-> [l \in Lock |-> 0]]
  /\ alarm = [p \in Proc |-> 0]
  /\ blind = [p \in Proc |-> 0]
  /\ pc = [p \in Proc |-> "body"]
  /\ timer = [p \in Proc |-> 0]
  /\ err = [p \in Proc |-> "none"]
  /\ overran = [p \in Proc |-> FALSE]
  /\ dir = [l \in Lock |-> None]
  /\ idle = [l \in Lock |-> 0]
  /\ quiet = [p \in Proc |-> 0]

Goto(p, where) == pc' = [pc EXCEPT ![p] = where]

Raise(p, e) == err' = [err EXCEPT ![p] = e] /\ Goto(p, "leave")

\* refresh_locks finds a record past its deadline and dies.
RefreshDies(p) ==
  /\ AnyOverdue(p)
  /\ idle' = Touched(Reached(p))
  /\ overran' = [overran EXCEPT ![p] = TRUE]
  /\ UNCHANGED <<alarm, blind, quiet>>

\* refresh_locks succeeds: every owned pmxcfs directory is touched and the
\* innermost alarm section is re-armed, so both clocks restart together.
RefreshLives(p) ==
  /\ ~AnyOverdue(p)
  /\ idle' = Touched(owned[p])
  /\ \E a \in AlarmValues :
        Rearms(held[p], owned[p], a) /\ alarm' = [alarm EXCEPT ![p] = a]
  /\ blind' = [blind EXCEPT ![p] = 0]
  /\ quiet' = [quiet EXCEPT ![p] = 0]
  /\ UNCHANGED overran

-----------------------------------------------------------------------------
(* with_lock: commission, then the cooperation point that opens            *)
(* _lock_acquire, then the wait of the backend.                            *)

MayNest(p, l) ==
  \E plan \in Plan[p] :
     /\ Len(held[p]) < Len(plan)
     /\ SubSeq(plan, 1, Len(held[p]) + 1) = Append(held[p], l)

CallLock(p, l) ==
  /\ pc[p] = "body"
  /\ MayNest(p, l)
  /\ \A i \in DOMAIN held[p] : held[p][i] # l
  /\ held' = [held EXCEPT ![p] = Append(@, l)]
  /\ \/ RefreshDies(p) /\ Raise(p, "fatal") /\ UNCHANGED timer
     \/ /\ RefreshLives(p)
        /\ Goto(p, IF Cluster(l) THEN "poll" ELSE "flock")
        /\ timer' = [timer EXCEPT ![p] = Acquire[l]]
        /\ UNCHANGED err
  /\ UNCHANGED <<owned, left, dir>>

\* Ownership starts: the artifact exists, owned is set, the deadline is armed
\* and the body's opening refresh_locks runs under the new alarm section.  A
\* leaf body is one timed command, started at once.
Enter(p, l) ==
  /\ dir' = [dir EXCEPT ![l] = p]
  /\ owned' = [owned EXCEPT ![p] = @ \cup {l}]
  /\ left' = [left EXCEPT ![p][l] = HoldTicks(l)]
  /\ idle' = [Touched(IF AnyOverdue(p) THEN Reached(p) ELSE owned[p])
                EXCEPT ![l] = 0]
  /\ IF AnyOverdue(p)
     THEN /\ Raise(p, "fatal")
          /\ overran' = [overran EXCEPT ![p] = TRUE]
          /\ UNCHANGED <<alarm, blind, timer, quiet>>
     ELSE /\ \E a \in AlarmValues :
                /\ Rearms(held[p], owned[p] \cup {l}, a)
                /\ alarm' = [alarm EXCEPT ![p] = a]
          /\ blind' = [blind EXCEPT ![p] = 0]
          /\ quiet' = [quiet EXCEPT ![p] = 0]
          /\ timer' = [timer EXCEPT ![p] = IF l \in Leaf THEN RunMax[l] ELSE 0]
          /\ Goto(p, IF l \in Leaf THEN "run" ELSE "body")
          /\ UNCHANGED <<err, overran>>
  /\ UNCHANGED held

\* A directory that p created and does not own.
LeaveBehind(p, l) ==
  /\ dir' = [dir EXCEPT ![l] = p]
  /\ idle' = [idle EXCEPT ![l] = 0]

\* The cluster poll: mkdir succeeds.
PollAcquires(p) ==
  /\ pc[p] = "poll" /\ timer[p] > 0
  /\ dir[Top(p)] = None
  /\ Enter(p, Top(p))

\* mkdir succeeds and cfs_update dies: the body never runs and the directory
\* is removed at once, or left behind when rmdir fails.
PollAcquiresThenDies(p) ==
  /\ pc[p] = "poll" /\ timer[p] > 0
  /\ dir[Top(p)] = None
  /\ \/ UNCHANGED <<dir, idle>>
     \/ LeaveBehind(p, Top(p))
  /\ Raise(p, "other")
  /\ UNCHANGED <<held, owned, left, alarm, blind, timer, overran, quiet>>

\* utime(0,0): pmxcfs drops the directory if it has been idle too long.
Stale(l) == idle[l] >= Cfs

Poke(l) == dir' = [dir EXCEPT ![l] = IF Stale(l) THEN None ELSE @]

Poked(l) == IF Stale(l) THEN 0 ELSE idle[l]

FailWaitWrong(p, e) == Raise(p, "other")    \* the cause is always replaced
FailWaitUnclassed(p, e) == Raise(p, "contention")   \* a wording no caller knows

\* An error that ends the wait without the lock: with the quorum lost, the
\* poll loop's handler replaces it, whatever it was.
FailWait(p, e) ==
  \/ Raise(p, e)
  \/ QuorumLoss /\ Raise(p, "other")

\* mkdir fails (the directory exists, or no quorum): poke the directory, keep
\* the outer locks alive, sleep.
PollMisses(p) ==
  /\ pc[p] = "poll" /\ timer[p] > 0
  /\ dir[Top(p)] # None \/ QuorumLoss
  /\ Poke(Top(p))
  /\ \/ /\ AnyOverdue(p)
        /\ idle' = [Touched(Reached(p)) EXCEPT ![Top(p)] = Poked(Top(p))]
        /\ overran' = [overran EXCEPT ![p] = TRUE]
        /\ FailWait(p, "fatal")
        /\ UNCHANGED <<blind, quiet>>
     \/ /\ ~AnyOverdue(p)
        /\ idle' = [Touched(owned[p]) EXCEPT ![Top(p)] = Poked(Top(p))]
        /\ blind' = [blind EXCEPT ![p] = 0]
        /\ quiet' = [quiet EXCEPT ![p] = 0]
        /\ Goto(p, "sleep")
        /\ UNCHANGED <<overran, err>>
  /\ UNCHANGED <<held, owned, left, alarm, timer>>

\* A sleep shorter than a tick: it matters when the lock is free by now.
Wake(p) ==
  /\ pc[p] = "sleep" /\ dir[Top(p)] = None
  /\ Goto(p, "poll")
  /\ UNCHANGED <<held, owned, left, alarm, blind, timer, err, overran, dir, idle, quiet>>

PollTimesOutWrong(p) == FALSE     \* the poll loop checks no deadline

\* The acquire budget is spent.  The guard alarm around mkdir can also land
\* between the syscall and the owned flag: the directory then stays behind.
PollTimesOut(p) ==
  /\ pc[p] = "poll" /\ timer[p] = 0
  /\ FailWait(p, "acquire")
  /\ \/ UNCHANGED <<dir, idle>>
     \/ dir[Top(p)] = None /\ LeaveBehind(p, Top(p))
  /\ UNCHANGED <<held, owned, left, alarm, blind, timer, overran, quiet>>

\* flock(LOCK_EX) returns.
FlockAcquires(p) ==
  /\ pc[p] = "flock" /\ dir[Top(p)] = None
  /\ Enter(p, Top(p))

\* run_with_timeout expires.
FlockTimesOut(p) ==
  /\ pc[p] = "flock" /\ timer[p] = 0
  /\ Raise(p, "acquire")
  /\ UNCHANGED <<held, owned, left, alarm, blind, timer, overran, dir, idle, quiet>>

\* The wait does not start: pmxcfs is not online, or the lock file cannot be
\* opened.
WaitBreaks(p) ==
  /\ pc[p] \in {"poll", "flock"} /\ timer[p] = Acquire[Top(p)]
  /\ Raise(p, "other")
  /\ UNCHANGED <<held, owned, left, alarm, blind, timer, overran, dir, idle, quiet>>

-----------------------------------------------------------------------------
(* The locked body.                                                        *)

\* An explicit refresh_locks tick (sleep-wait loops of the activation).
Cooperate(p) ==
  /\ pc[p] = "body" /\ owned[p] # {}
  /\ \/ RefreshDies(p) /\ Raise(p, "fatal")
     \/ RefreshLives(p) /\ UNCHANGED <<pc, err>>
  /\ UNCHANGED <<held, owned, left, timer, dir>>

\* A timed command run directly by a method body (iscsiadm, blockdev, ...):
\* run_command suspends the hold alarm for as long as it runs.
StartRun(p) ==
  /\ pc[p] = "body" /\ owned[p] # {}
  /\ blind[p] < BlindMax
  /\ \E t \in 1..(BlindMax - blind[p]) : timer' = [timer EXCEPT ![p] = t]
  /\ Goto(p, "run")
  /\ UNCHANGED <<held, owned, left, alarm, blind, err, overran, dir, idle, quiet>>

\* The command of a method body returns, or is killed at its timeout.
EndRun(p) ==
  /\ pc[p] = "run" /\ Top(p) \notin Leaf
  /\ \/ Goto(p, "body") /\ UNCHANGED err
     \/ timer[p] = 0 /\ Raise(p, "other")
  /\ UNCHANGED <<held, owned, left, alarm, blind, timer, overran, dir, idle, quiet>>

\* The command that is the body of a leaf section ends, well or not.
EndLeafRun(p) ==
  /\ pc[p] = "run" /\ Top(p) \in Leaf
  /\ \E e \in {"none", "other"} : Raise(p, e)
  /\ UNCHANGED <<held, owned, left, alarm, blind, timer, overran, dir, idle, quiet>>

\* The body of a method section returns or dies.
EndBody(p) ==
  /\ pc[p] = "body" /\ held[p] # <<>>
  /\ \E e \in {"none", "other"} : Raise(p, e)
  /\ UNCHANGED <<held, owned, left, alarm, blind, timer, overran, dir, idle, quiet>>

\* The hold alarm: too long in Perl without a cooperation point.
AlarmFires(p) ==
  /\ pc[p] = "body" /\ AlarmArmed(p) /\ alarm[p] = 0
  /\ Raise(p, "fatal")
  /\ overran' = [overran EXCEPT ![p] = TRUE]
  /\ UNCHANGED <<held, owned, left, alarm, blind, timer, dir, idle, quiet>>

-----------------------------------------------------------------------------
(* Leaving a section: the closing refresh_locks (when the body ran), the   *)
(* divest, the decommission, and the error in the enclosing body.          *)

DivestWrong(p, l) == dir' = [dir EXCEPT ![l] = None]   \* no owned guard

\* rmdir / close.  rmdir removes whatever directory is at the path; when it
\* fails or its guard expires the directory is left for the stale reclaim.
Divest(p, l) ==
  IF l \in owned[p]
  THEN \/ dir' = [dir EXCEPT ![l] = None]
       \/ Cluster(l) /\ UNCHANGED dir
  ELSE UNCHANGED dir

\* The enclosing body sees the error e: the outermost caller reports it and is
\* done, any other may rethrow or absorb it.  A fatal error is rethrown, but for
\* that of a component run: the eval around the unpublication of a snapshot
\* absorbs it.
Resume(p, e) ==
  IF Len(held[p]) = 1 \/ e = "none"
  THEN Goto(p, "body") /\ err' = [err EXCEPT ![p] = "none"]
  ELSE \/ Raise(p, e)
       \/ /\ e # "fatal" \/ Top(p) \in Leaf
          /\ Goto(p, "body")
          /\ err' = [err EXCEPT ![p] = "none"]

LeaveSection(p) ==
  LET l == Top(p)
      ran == l \in owned[p]
      dies == ran /\ AnyOverdue(p)
      e == IF dies THEN "fatal" ELSE err[p]
  IN  /\ pc[p] = "leave"
      /\ idle' = IF ran THEN Touched(Reached(p)) ELSE idle
      /\ Divest(p, l)
      /\ held' = [held EXCEPT ![p] = Below(p)]
      /\ owned' = [owned EXCEPT ![p] = @ \ {l}]
      /\ IF ran
         THEN /\ \E a \in AlarmValues :
                    /\ Rearms(Below(p), owned[p] \ {l}, a)
                    /\ alarm' = [alarm EXCEPT ![p] = a]
              /\ blind' = [blind EXCEPT ![p] = IF dies /\ Len(held[p]) > 1
                                                  THEN @ ELSE 0]
         ELSE /\ UNCHANGED alarm
              /\ blind' = [blind EXCEPT ![p] = IF Len(held[p]) > 1 THEN @ ELSE 0]
      /\ Resume(p, e)
      /\ overran' = [overran EXCEPT ![p] = (@ \/ dies) /\ Len(held[p]) > 1
                                              /\ pc'[p] = "leave"]
      /\ timer' = [timer EXCEPT ![p] = 0]
      /\ left' = [left EXCEPT ![p][l] = 0]
      /\ quiet' = [quiet EXCEPT ![p] = IF ran /\ owned[p] \ {l} \subseteq Reached(p)
                                          THEN 0 ELSE @]

\* The process dies: the kernel drops its flocks, its pmxcfs directories stay.
Crash(p) ==
  /\ held[p] # <<>>
  /\ dir' = [l \in Lock |-> IF l \in owned[p] /\ ~Cluster(l) THEN None ELSE dir[l]]
  /\ held' = [held EXCEPT ![p] = <<>>]
  /\ owned' = [owned EXCEPT ![p] = {}]
  /\ pc' = [pc EXCEPT ![p] = "body"]
  /\ err' = [err EXCEPT ![p] = "none"]
  /\ overran' = [overran EXCEPT ![p] = FALSE]
  /\ alarm' = [alarm EXCEPT ![p] = 0]
  /\ blind' = [blind EXCEPT ![p] = 0]
  /\ timer' = [timer EXCEPT ![p] = 0]
  /\ left' = [left EXCEPT ![p] = [l \in Lock |-> 0]]
  /\ quiet' = [quiet EXCEPT ![p] = 0]
  /\ UNCHANGED idle

-----------------------------------------------------------------------------
(* Time.  A step that is due now goes before the next tick.                *)

Due(p) ==
  \/ pc[p] \in {"poll", "leave"}
  \/ pc[p] = "body" /\ AlarmArmed(p) /\ alarm[p] = 0
  \/ pc[p] = "run" /\ timer[p] = 0
  \/ pc[p] = "flock" /\ (timer[p] = 0 \/ dir[Top(p)] = None)

Suspended(p) == pc[p] \in {"sleep", "flock", "run"}

Less(n) == IF n = 0 THEN 0 ELSE n - 1

\* The poll loop that takes its deadline anew on every iteration.
RemainingWrong(p) == IF pc[p] = "sleep" THEN timer[p] ELSE Less(timer[p])

\* What is left of the wait or of the command in progress.
Remaining(p) == Less(timer[p])

Tick ==
  /\ \A p \in Proc : ~Due(p)
  /\ idle' = [l \in Lock |-> IF Cluster(l) /\ dir[l] # None /\ idle[l] < Cfs
                             THEN idle[l] + 1 ELSE idle[l]]
  /\ left' = [p \in Proc |-> [l \in Lock |->
                IF l \in owned[p] THEN Less(left[p][l]) ELSE left[p][l]]]
  /\ alarm' = [p \in Proc |-> IF Suspended(p) THEN alarm[p] ELSE Less(alarm[p])]
  /\ blind' = [p \in Proc |-> IF Suspended(p) THEN blind[p] + 1 ELSE blind[p]]
  /\ timer' = [p \in Proc |-> IF Suspended(p) THEN Remaining(p) ELSE timer[p]]
  /\ pc' = [p \in Proc |-> IF pc[p] = "sleep" THEN "poll" ELSE pc[p]]
  /\ quiet' = [p \in Proc |-> IF owned[p] # {} /\ quiet[p] < Cfs
                               THEN quiet[p] + 1 ELSE quiet[p]]
  /\ UNCHANGED <<held, owned, err, overran, dir>>

Next ==
  \/ Tick
  \/ \E p \in Proc :
        \/ \E l \in Lock : CallLock(p, l)
        \/ PollAcquires(p) \/ PollAcquiresThenDies(p) \/ PollMisses(p)
        \/ Wake(p) \/ PollTimesOut(p)
        \/ FlockAcquires(p) \/ FlockTimesOut(p) \/ WaitBreaks(p)
        \/ Cooperate(p) \/ StartRun(p) \/ EndRun(p) \/ EndLeafRun(p)
        \/ EndBody(p) \/ AlarmFires(p)
        \/ LeaveSection(p) \/ Crash(p)

Spec == Init /\ [][Next]_vars

-----------------------------------------------------------------------------
(* Fairness.  Time passes: a behaviour with infinitely many steps within   *)
(* one tick is not one of the system.  A step that is due is taken before  *)
(* the next tick: a signal is delivered, a timed command is killed, a poll *)
(* or an unwinding section goes on.  A locked body is never assumed to     *)
(* finish or to cooperate, a lock never to be released.                    *)

DueStep(p) ==
  /\ Due(p)
  /\ \/ PollAcquires(p) \/ PollMisses(p) \/ PollTimesOut(p)
     \/ FlockAcquires(p) \/ FlockTimesOut(p)
     \/ EndRun(p) \/ EndLeafRun(p)
     \/ AlarmFires(p) \/ LeaveSection(p)

TimePasses == []<><<Tick>>_vars

FairSpec == Spec /\ TimePasses /\ \A p \in Proc : WF_vars(DueStep(p))

-----------------------------------------------------------------------------
(* Properties.                                                             *)

\* Every holder of a pmxcfs lock reaches a cooperation point in time: the
\* condition under which the locks are exclusive.  AlarmBounds says how far the
\* alarm alone takes a process.
Timely ==
  \A p \in Proc : (\E l \in owned[p] : Cluster(l)) => quiet[p] < Cfs

\* A process that believes it owns a lock is the one whose artifact is at the
\* path: no waiter reclaimed the directory of a live holder, and no rmdir of a
\* holder hit the directory of another one (refresh_locks, _lock_divest).
OwnerHasArtifact == \A p \in Proc : \A l \in owned[p] : dir[l] = p

\* The alarm bounds the time between two refreshes of a holder, but for the time
\* in which it is suspended and once the hold deadline has passed: in all its
\* sections the alarm and the pmxcfs clocks run from one epoch (refresh_locks).
AlarmBounds ==
  \A p \in Proc :
     ~AnyOverdue(p) /\ (\E l \in owned[p] : Cluster(l)) => quiet[p] <= Ceiling + blind[p]

\* While a hold-cap overrun unwinds a process, every frame sees an error that
\* lock_error_fatal recognises, so no best-effort handler can absorb it.
FatalSurvives ==
  \A p \in Proc : overran[p] /\ pc[p] = "leave" => err[p] = "fatal"

\* A component run of maximal length is not failed by the hold cap of its own
\* lock: the cap sits above run_command's kill and its clock starts with the
\* ownership, not with the wait.
MaximalRunSurvives ==
  \A p \in Proc :
     pc[p] = "leave" /\ held[p] # <<>> /\ Top(p) \in Leaf => ~Overdue(p, Top(p))

\* No set of processes wait for each other: the nests take the locks of two
\* VMs in one order and component locks last.
NoWaitCycle ==
  \A S \in (SUBSET Proc) \ {{}} :
     \E p \in S : pc[p] \in {"poll", "sleep", "flock"}
                    => \A q \in S \ {p} : Top(p) \notin owned[q]

\* A step that is due can be taken: no process is stuck in a poll, in a wait
\* that is over, at an expired alarm or while it unwinds.
DueIsPossible == \A p \in Proc : Due(p) => ENABLED DueStep(p)

\* Every wait for a lock ends, with the lock or with an error.
WaitEnds ==
  \A p \in Proc : pc[p] \in {"poll", "sleep", "flock"} ~> pc[p] \in {"body", "run", "leave"}

\* Every hold ends, whatever the locked body does: the alarm stops a body that
\* never cooperates, the deadline one that always does.
HoldEnds == \A p \in Proc : \A l \in Lock : l \in owned[p] ~> l \notin owned[p]

-----------------------------------------------------------------------------
(* Refinement: with_lock implements the lock service.                      *)

Service == INSTANCE LockService WITH inside <- owned, token <- dir

\* Whatever the waiters, the dying holders and the failing releases do, the
\* locks behave as the abstract service: in particular only abandoned locks
\* are reclaimed.
ImplementsService == Service!Spec
=============================================================================
