--------------------------- MODULE HeldLocksProofs ---------------------------
(***************************************************************************)
(* Proofs about HeldLocks, for every set of processes, locks and nests and *)
(* every value of the timings; and, with the nests of PluginNests, that    *)
(* processes which take their locks in one order never wait for each       *)
(* other.                                                                  *)
(*                                                                         *)
(* The alarm does not see the time in which it is suspended, so exclusion  *)
(* is not a fact of the timings alone.  What is proved is the bound that   *)
(* the alarm gives (AlarmBounds), and that the locks are exclusive and     *)
(* implement the lock service for as long as every holder reaches its next *)
(* cooperation point before pmxcfs expires its directory (Timely).         *)
(***************************************************************************)
EXTENDS HeldLocks, PluginNests, WellFoundedInduction, TLAPS

-----------------------------------------------------------------------------
(* The inductive invariant.                                                *)

Waiting(p) == pc[p] \in {"poll", "sleep", "flock"}

\* The registry of p: no lock twice; every lock but the innermost is owned and
\* is no component lock; where p is tells whether the innermost is owned.
Registry(p) ==
  /\ \A i, j \in 1..Len(held[p]) : held[p][i] = held[p][j] => i = j
  /\ \A l \in owned[p] : \E i \in 1..Len(held[p]) : held[p][i] = l
  /\ \A i \in 1..Len(held[p]) :
        i < Len(held[p]) => held[p][i] \in owned[p] /\ held[p][i] \notin Leaf
  /\ pc[p] # "body" => held[p] # <<>>
  /\ pc[p] = "body" /\ held[p] # <<>> => Top(p) \in owned[p] /\ Top(p) \notin Leaf
  /\ pc[p] = "run" => Top(p) \in owned[p]
  /\ Waiting(p) => Top(p) \notin owned[p]
  /\ pc[p] \in {"poll", "sleep"} => Cluster(Top(p))
  /\ pc[p] = "flock" => ~Cluster(Top(p))

LeafRun(p) == pc[p] = "run" /\ Top(p) \in Leaf

InLeaf(p) == held[p] # <<>> /\ Top(p) \in Leaf /\ Top(p) \in owned[p]

OwnsCluster(p) == \E l \in owned[p] : Cluster(l)

\* No directory of p is older than its last refresh.  In a component section,
\* one timed command, all time since the refresh was suspended; elsewhere what is
\* left of the alarm and what has passed fit under the ceiling, but for the time
\* the alarm does not see.
Clocks(p) ==
  /\ \A l \in owned[p] : Cluster(l) => idle[l] <= quiet[p]
  /\ OwnsCluster(p) /\ ~AnyOverdue(p) =>
       /\ InLeaf(p) => quiet[p] <= blind[p]
       /\ ~InLeaf(p) => alarm[p] <= Ceiling /\ quiet[p] + alarm[p] <= Ceiling + blind[p]

IInv == TypeOK /\ \A p \in Proc : Registry(p) /\ Clocks(p)

-----------------------------------------------------------------------------
(* Facts about the operators.                                              *)

\* A pmxcfs lock always arms an alarm, within the ceiling, whatever its hold
\* cap is (_lock_ctx_commission).
LEMMA Caps ==
  ASSUME NEW l \in Lock
  PROVE  /\ AlarmCap(l) \in Nat
         /\ Cluster(l) => AlarmCap(l) > 0 /\ AlarmCap(l) <= Ceiling
         /\ l \notin Leaf => (Cluster(l) <=> Shared)
         /\ HoldTicks(l) \in Nat
  <1>1. l \notin Leaf => (Cluster(l) <=> Shared)
    BY DEF Cluster
  <1>2. MaxHold[l] \in Nat /\ Ceiling \in Nat /\ Ceiling > 0
    BY Timings
  <1>3. /\ AlarmCap(l) \in Nat
        /\ Cluster(l) => AlarmCap(l) > 0 /\ AlarmCap(l) <= Ceiling
    <2>1. CASE Cluster(l)
      BY <2>1, <1>2 DEF AlarmCap
    <2>2. CASE ~Cluster(l)
      BY <2>2, <1>2 DEF AlarmCap
    <2> QED BY <2>1, <2>2
  <1> QED BY <1>1, <1>2, <1>3 DEF HoldTicks

\* A touch never ages a directory, and resets the pmxcfs directories it is for.
LEMMA Touches ==
  ASSUME TypeOK, NEW S
  PROVE  /\ Touched(S) \in [Lock -> 0..Cfs]
         /\ \A l \in Lock : Touched(S)[l] <= idle[l]
         /\ \A l \in Lock : l \in S /\ Cluster(l) => Touched(S)[l] = 0
  BY Timings DEF TypeOK, Touched

\* The innermost entry of a registry and the registry without it.
LEMMA Tops ==
  ASSUME TypeOK, NEW p \in Proc, held[p] # <<>>
  PROVE  /\ Len(held[p]) \in Nat \ {0}
         /\ Top(p) \in Lock
         /\ Below(p) \in Seq(Lock)
         /\ Len(Below(p)) = Len(held[p]) - 1
         /\ \A i \in 1..Len(Below(p)) : Below(p)[i] = held[p][i]
  <1> DEFINE h == held[p]
  <1>1. h \in Seq(Lock) /\ Len(h) \in Nat \ {0}
    BY DEF TypeOK
  <1>2. h[Len(h)] \in Lock
    BY <1>1
  <1>3. /\ SubSeq(h, 1, Len(h) - 1) \in Seq(Lock)
        /\ Len(SubSeq(h, 1, Len(h) - 1)) = Len(h) - 1
        /\ \A i \in 1..(Len(h) - 1) : SubSeq(h, 1, Len(h) - 1)[i] = h[i]
    BY <1>1
  <1> QED BY <1>1, <1>2, <1>3 DEF Top, Below

\* A refresh that does not die reaches every owned record (refresh_locks).
LEMMA AllReached ==
  ASSUME TypeOK, NEW p \in Proc, Registry(p), ~AnyOverdue(p)
  PROVE  Reached(p) = owned[p]
  <1>1. ASSUME NEW l \in owned[p] PROVE l \in Reached(p)
    <2>1. PICK i \in 1..Len(held[p]) : held[p][i] = l
      BY DEF Registry
    <2>2. \A j \in 1..i : ~Overdue(p, held[p][j])
      BY DEF AnyOverdue, Overdue
    <2> QED BY <2>1, <2>2 DEF Reached, TypeOK
  <1> QED BY <1>1 DEF Reached

\* Re-arming with all pmxcfs locks of p among the method locks stays within
\* the ceiling (_lock_alarm_innermost).
LEMMA RearmCap ==
  ASSUME NEW h \in Seq(Lock), NEW own \in SUBSET Lock, NEW a \in AlarmValues,
         Rearms(h, own, a),
         \A l \in own : \E i \in 1..Len(h) : h[i] = l,
         \A l \in own : l \notin Leaf,
         NEW c \in own, Cluster(c)
  PROVE  a <= Ceiling
  <1>1. \A i \in 1..Len(h) : h[i] \in Lock
    OBVIOUS
  <1>2. ArmedAt(h, own) # {}
    BY Caps DEF ArmedAt
  <1>3. PICK i \in ArmedAt(h, own) : a = AlarmCap(h[i])
    BY <1>2 DEF Rearms
  <1>4. h[i] \in own /\ h[i] \in Lock
    BY <1>3 DEF ArmedAt
  <1>5. Cluster(h[i])
    BY <1>4, Caps
  <1> QED BY <1>3, <1>4, <1>5, Caps

\* Alarm caps are numbers of seconds.
LEMMA ArmValues == AlarmValues \subseteq Nat
  BY Caps DEF AlarmValues

-----------------------------------------------------------------------------
(* The clocks of one process.                                              *)

\* The clocks of a process whose sections are left alone, when other processes
\* only lower idle times.
LEMMA ClocksStay ==
  ASSUME TypeOK, TypeOK', NEW p \in Proc, Clocks(p),
         held'[p] = held[p], owned'[p] = owned[p], left'[p] = left[p],
         alarm'[p] = alarm[p], blind'[p] = blind[p], quiet'[p] = quiet[p],
         \A l \in Lock : idle'[l] <= idle[l]
  PROVE  Clocks(p)'
  <1>1. /\ AnyOverdue(p)' <=> AnyOverdue(p)
        /\ InLeaf(p)' <=> InLeaf(p)
        /\ OwnsCluster(p)' <=> OwnsCluster(p)
    BY DEF AnyOverdue, Overdue, InLeaf, Top, OwnsCluster, Cluster
  <1>2. ASSUME NEW l \in owned[p], Cluster(l) PROVE idle'[l] <= quiet[p]
    <2>1. /\ l \in Lock /\ idle[l] \in Nat /\ idle'[l] \in Nat /\ quiet[p] \in Nat
          /\ idle'[l] <= idle[l] /\ idle[l] <= quiet[p]
      BY <1>2, Timings DEF TypeOK, Clocks
    <2> QED BY <2>1
  <1> QED BY <1>1, <1>2 DEF Clocks, Cluster

\* The clocks of a process after a refresh that renewed all it owns.
LEMMA ClocksRenewed ==
  ASSUME TypeOK', NEW p \in Proc, quiet'[p] = 0,
         \A l \in owned'[p] : Cluster(l) => idle'[l] = 0,
         OwnsCluster(p)' /\ ~InLeaf(p)' => alarm'[p] <= Ceiling
  PROVE  Clocks(p)'
  <1>1. alarm'[p] \in Nat /\ blind'[p] \in Nat /\ Ceiling \in Nat
    BY Timings DEF TypeOK
  <1> QED BY <1>1 DEF Clocks, Cluster

\* The clocks of a process that is past a hold deadline.
LEMMA ClocksOverdue ==
  ASSUME TypeOK, TypeOK', NEW p \in Proc, Clocks(p), AnyOverdue(p)',
         quiet'[p] = quiet[p],
         \A l \in owned'[p] : l \in owned[p] \/ idle'[l] = 0,
         \A l \in Lock : idle'[l] <= idle[l]
  PROVE  Clocks(p)'
  <1>1. ASSUME NEW l \in owned'[p], Cluster(l) PROVE idle'[l] <= quiet[p]
    <2>1. /\ l \in Lock /\ idle[l] \in Nat /\ idle'[l] \in Nat /\ quiet[p] \in Nat
          /\ idle'[l] <= idle[l]
      BY <1>1, Timings DEF TypeOK
    <2>2. l \in owned[p] => idle[l] <= quiet[p]
      BY <1>1 DEF Clocks
    <2> QED BY <2>1, <2>2
  <1> QED BY <1>1 DEF Clocks, Cluster

\* A step of p leaves the other processes inside the invariant when it only
\* lowers idle times.
LEMMA OthersKeep ==
  ASSUME IInv, TypeOK', NEW p \in Proc,
         \A q \in Proc \ {p} :
            /\ held'[q] = held[q] /\ owned'[q] = owned[q] /\ left'[q] = left[q]
            /\ pc'[q] = pc[q] /\ alarm'[q] = alarm[q] /\ blind'[q] = blind[q]
            /\ quiet'[q] = quiet[q],
         \A l \in Lock : idle'[l] <= idle[l]
  PROVE  \A q \in Proc \ {p} : Registry(q)' /\ Clocks(q)'
  <1> SUFFICES ASSUME NEW q \in Proc \ {p} PROVE Registry(q)' /\ Clocks(q)'
    OBVIOUS
  <1>1. TypeOK /\ Registry(q) /\ Clocks(q)
    BY DEF IInv
  <1>2. Registry(q)'
    BY <1>1 DEF Registry, Top, Waiting
  <1>3. Clocks(q)'
    BY <1>1, ClocksStay
  <1> QED BY <1>2, <1>3

-----------------------------------------------------------------------------
(* Every step keeps the invariant.                                         *)

\* Where a process is tells what it owns.
LEMMA Whereabouts ==
  ASSUME IInv, NEW p \in Proc
  PROVE  /\ TypeOK /\ Registry(p) /\ Clocks(p)
         /\ pc[p] # "body" \/ owned[p] # {} => held[p] # <<>>
         /\ pc[p] \in {"body", "run"} /\ held[p] # <<>> => Top(p) \in owned[p]
         /\ pc[p] = "body" => \A l \in owned[p] : l \notin Leaf
  <1>1. TypeOK /\ Registry(p) /\ Clocks(p) /\ held[p] \in Seq(Lock)
    BY DEF IInv, TypeOK
  <1>2. held[p] = <<>> => Len(held[p]) = 0
    OBVIOUS
  <1>3. pc[p] # "body" \/ owned[p] # {} => held[p] # <<>>
    BY <1>1, <1>2 DEF Registry
  <1>4. ASSUME pc[p] = "body", NEW l \in owned[p] PROVE l \notin Leaf
    <2>1. PICK i \in 1..Len(held[p]) : held[p][i] = l
      BY <1>1 DEF Registry
    <2>2. held[p] # <<>> /\ Len(held[p]) \in Nat
      BY <1>1, <1>3, <1>4
    <2> QED BY <1>1, <1>4, <2>1, <2>2 DEF Registry, Top
  <1> QED BY <1>1, <1>3, <1>4 DEF Registry

\* A step that leaves the sections of p and their clocks alone keeps the
\* invariant, if the registry fits the place that p goes to.
LEMMA PlaceKeeps ==
  ASSUME IInv, TypeOK', NEW p \in Proc, Registry(p)',
         UNCHANGED <<held, owned, left, alarm, blind, quiet>>,
         \A q \in Proc \ {p} : pc'[q] = pc[q],
         \A l \in Lock : idle'[l] <= idle[l]
  PROVE  IInv'
  <1>1. Clocks(p)'
    BY ClocksStay DEF IInv
  <1>2. \A q \in Proc \ {p} : Registry(q)' /\ Clocks(q)'
    BY OthersKeep
  <1> QED BY <1>1, <1>2 DEF IInv

\* The steps that only raise an error.
LEMMA RaiseKeeps ==
  ASSUME IInv, NEW p \in Proc, NEW e \in Errors, Raise(p, e), held[p] # <<>>,
         UNCHANGED <<held, owned, left, alarm, blind, timer, quiet>>,
         overran' \in [Proc -> BOOLEAN], idle' \in [Lock -> 0..Cfs],
         dir' \in [Lock -> Proc \cup {None}],
         \A l \in Lock : idle'[l] <= idle[l]
  PROVE  IInv'
  <1>1. TypeOK /\ Registry(p)
    BY DEF IInv
  <1>2. TypeOK'
    BY <1>1 DEF TypeOK, Raise, Goto, Where, Errors
  <1>3. pc'[p] = "leave" /\ \A q \in Proc \ {p} : pc'[q] = pc[q]
    BY <1>1 DEF TypeOK, Raise, Goto
  <1>4. Registry(p)'
    BY <1>1, <1>3 DEF Registry, Waiting, Top
  <1> QED BY <1>2, <1>3, <1>4, PlaceKeeps

\* A refresh that does not die renews all that p owns.
LEMMA RefreshKeeps ==
  ASSUME TypeOK, NEW p \in Proc, Registry(p), RefreshLives(p),
         \A l \in owned[p] : l \notin Leaf
  PROVE  /\ idle' \in [Lock -> 0..Cfs] /\ alarm' \in [Proc -> Nat]
         /\ blind' \in [Proc -> Nat] /\ quiet' \in [Proc -> 0..Cfs]
         /\ \A q \in Proc \ {p} : /\ alarm'[q] = alarm[q] /\ blind'[q] = blind[q]
                                  /\ quiet'[q] = quiet[q]
         /\ overran' = overran /\ blind'[p] = 0 /\ quiet'[p] = 0
         /\ \A l \in Lock : idle'[l] <= idle[l]
         /\ \A l \in owned[p] : Cluster(l) =>
               alarm'[p] <= Ceiling /\ idle'[l] = 0
  <1>1. PICK a \in AlarmValues : Rearms(held[p], owned[p], a)
                                 /\ alarm' = [alarm EXCEPT ![p] = a]
    BY DEF RefreshLives
  <1>2. a \in Nat
    BY ArmValues
  <1>3. /\ idle' = Touched(owned[p]) /\ blind' = [blind EXCEPT ![p] = 0]
        /\ quiet' = [quiet EXCEPT ![p] = 0] /\ overran' = overran
    BY DEF RefreshLives
  <1>4. ASSUME NEW l \in owned[p], Cluster(l)
        PROVE  a <= Ceiling
    <2>1. held[p] \in Seq(Lock) /\ owned[p] \in SUBSET Lock
      BY DEF TypeOK
    <2>2. \A m \in owned[p] : \E i \in 1..Len(held[p]) : held[p][i] = m
      BY DEF Registry
    <2> QED BY <1>1, <1>4, <2>1, <2>2, RearmCap
  <1>5. quiet' \in [Proc -> 0..Cfs]
    BY <1>3, Timings DEF TypeOK
  <1> QED BY <1>1, <1>2, <1>3, <1>4, <1>5, Touches DEF TypeOK

\* A refresh that dies touches some directories and changes no clock of p.
LEMMA RefreshDiesKeeps ==
  ASSUME TypeOK, NEW p \in Proc, RefreshDies(p)
  PROVE  /\ idle' \in [Lock -> 0..Cfs]
         /\ alarm' = alarm /\ blind' = blind /\ quiet' = quiet
         /\ overran' \in [Proc -> BOOLEAN]
         /\ \A l \in Lock : idle'[l] <= idle[l]
  BY Touches DEF RefreshDies, TypeOK

\* Commissioning a lock and opening its wait keeps the invariant.
LEMMA CallLockKeeps ==
  ASSUME IInv, NEW p \in Proc, NEW l \in Lock, CallLock(p, l)
  PROVE  IInv'
  <1> DEFINE h == held[p]
  <1>1. /\ TypeOK /\ Registry(p) /\ Clocks(p)
        /\ h \in Seq(Lock) /\ owned[p] \in SUBSET Lock /\ Len(h) \in Nat
    BY DEF IInv, TypeOK
  <1>2. pc[p] = "body" /\ (\A i \in 1..Len(h) : h[i] # l)
    BY <1>1 DEF CallLock
  <1>3. /\ held' = [held EXCEPT ![p] = Append(h, l)] /\ held'[p] = Append(h, l)
        /\ owned' = owned /\ left' = left /\ dir' = dir
    BY <1>1 DEF CallLock, TypeOK
  <1>4. /\ Append(h, l) \in Seq(Lock) /\ Len(Append(h, l)) = Len(h) + 1
        /\ \A i \in 1..Len(h) : Append(h, l)[i] = h[i]
        /\ Append(h, l)[Len(h) + 1] = l
        /\ Append(h, l) # <<>>
    BY <1>1
  <1>5. \A i \in 1..Len(h) : h[i] \in owned[p] /\ h[i] \notin Leaf
    BY <1>1, <1>2 DEF Registry, Top
  <1>6. l \notin owned[p] /\ (\A m \in owned[p] : m \notin Leaf)
    <2>1. \A m \in owned[p] : \E i \in 1..Len(h) : h[i] = m
      BY <1>1 DEF Registry
    <2> HIDE DEF h
    <2> QED BY <1>2, <1>5, <2>1
  <1>7. /\ held' \in [Proc -> Seq(Lock)] /\ Top(p)' = l
        /\ \A q \in Proc \ {p} : held'[q] = held[q]
    BY <1>1, <1>3, <1>4 DEF TypeOK, Top
  <1>8. ASSUME pc'[p] \in {"leave", "poll", "flock"},
               pc'[p] = "poll" => Cluster(l), pc'[p] = "flock" => ~Cluster(l)
        PROVE  Registry(p)'
    <2> DEFINE g == Append(h, l)
    <2>1. /\ held'[p] = g /\ g # <<>> /\ Len(g) = Len(h) + 1 /\ g[Len(g)] = l
          /\ \A i \in 1..Len(h) : g[i] = h[i] /\ g[i] # l
          /\ \A i \in 1..Len(g) : i < Len(g) => i \in 1..Len(h)
          /\ owned'[p] = owned[p]
      BY <1>1, <1>2, <1>3, <1>4
    <2>2. \A i, j \in 1..Len(g) : g[i] = g[j] => i = j
      BY <1>1, <2>1 DEF Registry
    <2>3. \A m \in owned[p] : \E i \in 1..Len(g) : g[i] = m
      BY <1>1, <2>1 DEF Registry
    <2>4. \A i \in 1..Len(g) : i < Len(g) => g[i] \in owned[p] /\ g[i] \notin Leaf
      BY <1>5, <2>1
    <2>5. Cluster(l)' <=> Cluster(l)
      BY DEF Cluster
    <2> HIDE DEF g
    <2> QED BY <1>6, <1>7, <1>8, <2>1, <2>2, <2>3, <2>4, <2>5 DEF Registry, Waiting
  <1>9. CASE RefreshDies(p) /\ Raise(p, "fatal") /\ UNCHANGED timer
    <2>1. TypeOK' /\ (\A m \in Lock : idle'[m] <= idle[m])
      <3>1. /\ pc' \in [Proc -> Where] /\ err' \in [Proc -> Errors]
            /\ timer' \in [Proc -> Nat]
        BY <1>1, <1>9 DEF TypeOK, Raise, Goto, Where, Errors
      <3>2. /\ idle' \in [Lock -> 0..Cfs] /\ overran' \in [Proc -> BOOLEAN]
            /\ alarm' = alarm /\ blind' = blind /\ quiet' = quiet
            /\ \A m \in Lock : idle'[m] <= idle[m]
        BY <1>1, <1>9, RefreshDiesKeeps
      <3> QED BY <1>1, <1>3, <1>7, <3>1, <3>2 DEF TypeOK
    <2>2. pc'[p] = "leave" /\ \A q \in Proc \ {p} : pc'[q] = pc[q]
      BY <1>1, <1>9 DEF TypeOK, Raise, Goto
    <2>3. Registry(p)'
      BY <1>8, <2>2
    <2>4. Clocks(p)'
      <3>1. AnyOverdue(p)'
        BY <1>3, <1>9 DEF RefreshDies, AnyOverdue, Overdue
      <3>2. quiet' = quiet
        BY <1>9 DEF RefreshDies
      <3> QED BY <1>1, <1>3, <2>1, <3>1, <3>2, ClocksOverdue
    <2>5. \A q \in Proc \ {p} : Registry(q)' /\ Clocks(q)'
      BY <1>1, <1>3, <1>7, <1>9, <2>1, <2>2, RefreshDiesKeeps, OthersKeep
    <2> QED BY <2>1, <2>3, <2>4, <2>5 DEF IInv
  <1>10. CASE /\ RefreshLives(p)
              /\ Goto(p, IF Cluster(l) THEN "poll" ELSE "flock")
              /\ timer' = [timer EXCEPT ![p] = Acquire[l]]
              /\ UNCHANGED err
    <2>0. /\ idle' \in [Lock -> 0..Cfs] /\ alarm' \in [Proc -> Nat]
          /\ blind' \in [Proc -> Nat] /\ quiet' \in [Proc -> 0..Cfs]
          /\ \A q \in Proc \ {p} : /\ alarm'[q] = alarm[q] /\ blind'[q] = blind[q]
                                   /\ quiet'[q] = quiet[q]
          /\ overran' = overran /\ quiet'[p] = 0
          /\ \A m \in Lock : idle'[m] <= idle[m]
          /\ \A m \in owned[p] : Cluster(m) =>
                alarm'[p] <= Ceiling /\ idle'[m] = 0
      BY <1>1, <1>6, <1>10, RefreshKeeps
    <2>1. TypeOK'
      BY <1>1, <1>3, <1>7, <1>10, <2>0, Timings DEF TypeOK, Goto, Where
    <2>2. /\ pc'[p] = (IF Cluster(l) THEN "poll" ELSE "flock")
          /\ \A q \in Proc \ {p} : pc'[q] = pc[q]
      BY <1>1, <1>10 DEF TypeOK, Goto
    <2>3. Registry(p)'
      BY <1>8, <2>2
    <2>4. Clocks(p)'
      BY <1>3, <2>0, <2>1, ClocksRenewed DEF OwnsCluster, Cluster
    <2>5. \A q \in Proc \ {p} : Registry(q)' /\ Clocks(q)'
      BY <1>3, <1>7, <2>0, <2>1, <2>2, OthersKeep
    <2> QED BY <2>1, <2>3, <2>4, <2>5 DEF IInv
  <1> QED BY <1>9, <1>10 DEF CallLock

\* A wait ends without the lock, with a directory left behind or without: the
\* invariant is kept.
LEMMA WaitFailsKeeps ==
  ASSUME IInv, NEW p \in Proc,
         PollAcquiresThenDies(p) \/ PollTimesOut(p) \/ FlockTimesOut(p) \/ WaitBreaks(p)
  PROVE  IInv'
  <1>1. PICK e \in Errors : Raise(p, e)
    BY DEF PollAcquiresThenDies, PollTimesOut, FlockTimesOut, WaitBreaks, FailWait, Errors
  <1>2. TypeOK /\ held[p] # <<>> /\ Top(p) \in Lock
    BY Whereabouts, Tops DEF PollAcquiresThenDies, PollTimesOut, FlockTimesOut, WaitBreaks
  <1>3. /\ UNCHANGED <<held, owned, left, alarm, blind, timer, overran, quiet>>
        /\ UNCHANGED <<dir, idle>> \/ LeaveBehind(p, Top(p))
    BY DEF PollAcquiresThenDies, PollTimesOut, FlockTimesOut, WaitBreaks
  <1>4. /\ dir' \in [Lock -> Proc \cup {None}] /\ idle' \in [Lock -> 0..Cfs]
        /\ \A m \in Lock : idle'[m] <= idle[m]
    <2>1. CASE UNCHANGED <<dir, idle>>
      BY <1>2, <2>1 DEF TypeOK
    <2>2. CASE LeaveBehind(p, Top(p))
      <3> DEFINE l == Top(p)
      <3>1. l \in Lock /\ dir' = [dir EXCEPT ![l] = p] /\ idle' = [idle EXCEPT ![l] = 0]
        BY <1>2, <2>2 DEF LeaveBehind
      <3>2. 0 \in 0..Cfs /\ idle \in [Lock -> 0..Cfs] /\ \A m \in Lock : idle[m] \in Nat
        BY <1>2, Timings DEF TypeOK
      <3> HIDE DEF l
      <3>3. dir' \in [Lock -> Proc \cup {None}]
        BY <1>2, <3>1 DEF TypeOK
      <3>4. idle' \in [Lock -> 0..Cfs] /\ \A m \in Lock : idle'[m] <= idle[m]
        BY <3>1, <3>2
      <3> QED BY <3>3, <3>4
    <2> QED BY <1>3, <2>1, <2>2
  <1>5. overran' \in [Proc -> BOOLEAN]
    BY <1>2, <1>3 DEF TypeOK
  <1> QED BY <1>1, <1>2, <1>3, <1>4, <1>5, RaiseKeeps

\* The ends of a command and of a body, and the hold alarm.
LEMMA EndsKeep ==
  ASSUME IInv, NEW p \in Proc,
         \/ EndRun(p) /\ pc'[p] # "body"
         \/ EndLeafRun(p) \/ EndBody(p) \/ AlarmFires(p)
  PROVE  IInv'
  <1>0. TypeOK
    BY DEF IInv
  <1>1. PICK e \in Errors : Raise(p, e)
    BY <1>0 DEF EndRun, EndLeafRun, EndBody, AlarmFires, Errors, Goto, TypeOK
  <1>2. held[p] # <<>>
    BY Whereabouts DEF EndRun, EndLeafRun, EndBody, AlarmFires, AlarmArmed
  <1>4. UNCHANGED <<held, owned, left, alarm, blind, timer, dir, idle, quiet>>
    BY DEF EndRun, EndLeafRun, EndBody, AlarmFires
  <1>5. overran' \in [Proc -> BOOLEAN]
    BY <1>0 DEF EndRun, EndLeafRun, EndBody, AlarmFires, TypeOK
  <1>6. /\ dir' \in [Lock -> Proc \cup {None}] /\ idle' \in [Lock -> 0..Cfs]
        /\ \A m \in Lock : idle'[m] <= idle[m]
    BY <1>0, <1>4 DEF TypeOK
  <1> QED BY <1>1, <1>2, <1>4, <1>5, <1>6, RaiseKeeps

\* A failed poll attempt keeps the invariant: a stale directory is reclaimed, or
\* the outer locks are renewed.
LEMMA PollMissesKeeps ==
  ASSUME IInv, NEW p \in Proc, PollMisses(p)
  PROVE  IInv'
  <1> DEFINE l == Top(p)
  <1>1. /\ pc[p] = "poll" /\ Waiting(p) /\ Poke(l)
        /\ UNCHANGED <<held, owned, left, alarm, timer>>
    BY DEF PollMisses, Waiting
  <1>2. /\ TypeOK /\ Registry(p) /\ Clocks(p)
        /\ held[p] # <<>> /\ l \in Lock /\ Cluster(l) /\ l \notin owned[p]
    BY <1>1, Whereabouts, Tops DEF Registry
  <1>4. dir' \in [Lock -> Proc \cup {None}]
    BY <1>1, <1>2 DEF Poke, TypeOK
  <1>5. Poked(l) \in 0..Cfs /\ Poked(l) <= idle[l]
    BY <1>2, Timings DEF Poked, TypeOK
  <1>6. CASE /\ AnyOverdue(p)
             /\ idle' = [Touched(Reached(p)) EXCEPT ![l] = Poked(l)]
             /\ overran' = [overran EXCEPT ![p] = TRUE]
             /\ FailWait(p, "fatal")
             /\ UNCHANGED <<blind, quiet>>
    <2>1. PICK e \in Errors : Raise(p, e)
      BY <1>6 DEF FailWait, Errors
    <2>2. idle' \in [Lock -> 0..Cfs] /\ (\A m \in Lock : idle'[m] <= idle[m])
      BY <1>2, <1>5, <1>6, Touches DEF TypeOK
    <2>3. overran' \in [Proc -> BOOLEAN]
      BY <1>2, <1>6 DEF TypeOK
    <2> QED BY <1>1, <1>2, <1>4, <1>6, <2>1, <2>2, <2>3, RaiseKeeps
  <1>7. CASE /\ ~AnyOverdue(p)
             /\ idle' = [Touched(owned[p]) EXCEPT ![l] = Poked(l)]
             /\ blind' = [blind EXCEPT ![p] = 0]
             /\ quiet' = [quiet EXCEPT ![p] = 0]
             /\ Goto(p, "sleep")
             /\ UNCHANGED <<overran, err>>
    <2>1. idle' \in [Lock -> 0..Cfs] /\ (\A m \in Lock : idle'[m] <= idle[m])
      BY <1>2, <1>5, <1>7, Touches DEF TypeOK
    <2>2. TypeOK'
      <3>1. pc' \in [Proc -> Where] /\ quiet' \in [Proc -> 0..Cfs] /\ blind' \in [Proc -> Nat]
        BY <1>2, <1>7, Timings DEF TypeOK, Goto, Where
      <3> QED BY <1>1, <1>2, <1>4, <1>7, <2>1, <3>1 DEF TypeOK
    <2>3. /\ pc'[p] = "sleep" /\ quiet'[p] = 0
          /\ \A q \in Proc \ {p} : /\ pc'[q] = pc[q] /\ blind'[q] = blind[q]
                                   /\ quiet'[q] = quiet[q]
      BY <1>2, <1>7, Timings DEF TypeOK, Goto
    <2>4. Registry(p)'
      BY <1>1, <1>2, <2>3 DEF Registry, Waiting, Top, Cluster
    <2>5. Clocks(p)'
      <3>1. ASSUME NEW m \in owned[p], Cluster(m) PROVE idle'[m] = 0
        <4>1. m \in Lock /\ m # l
          BY <1>2 DEF TypeOK
        <4> QED BY <1>2, <1>7, <3>1, <4>1, Touches
      <3>2. ~InLeaf(p) /\ AnyOverdue(p) = FALSE
        BY <1>2, <1>7 DEF InLeaf
      <3>3. OwnsCluster(p) => alarm[p] <= Ceiling
        BY <1>2, <3>2 DEF Clocks
      <3>4. OwnsCluster(p)' => alarm'[p] <= Ceiling
        BY <1>1, <3>3 DEF OwnsCluster, Cluster
      <3> QED BY <1>1, <2>2, <2>3, <3>1, <3>4, ClocksRenewed
    <2>6. \A q \in Proc \ {p} : Registry(q)' /\ Clocks(q)'
      BY <1>1, <2>1, <2>2, <2>3, OthersKeep
    <2> QED BY <2>2, <2>4, <2>5, <2>6 DEF IInv
  <1> QED BY <1>6, <1>7 DEF PollMisses

\* An early wake-up, the start of a timed command and its return keep the
\* invariant.
LEMMA MovesKeep ==
  ASSUME IInv, NEW p \in Proc,
         Wake(p) \/ StartRun(p) \/ (EndRun(p) /\ pc'[p] = "body")
  PROVE  IInv'
  <1>1. TypeOK /\ Registry(p)
    BY Whereabouts
  <1>2. /\ UNCHANGED <<held, owned, left, alarm, blind, quiet, err, overran, dir, idle>>
        /\ \/ pc[p] = "sleep" /\ Goto(p, "poll") /\ UNCHANGED timer
           \/ /\ pc[p] = "body" /\ owned[p] # {} /\ Goto(p, "run")
              /\ \E t \in 1..(BlindMax - blind[p]) : timer' = [timer EXCEPT ![p] = t]
           \/ pc[p] = "run" /\ Top(p) \notin Leaf /\ Goto(p, "body") /\ UNCHANGED timer
    BY <1>1 DEF Wake, StartRun, EndRun, Raise, Goto, TypeOK
  <1>3. TypeOK' /\ \A q \in Proc \ {p} : pc'[q] = pc[q]
    <2>1. timer' \in [Proc -> Nat]
      <3>1. timer \in [Proc -> Nat]
        BY <1>1 DEF TypeOK
      <3>2. ASSUME NEW t \in 1..(BlindMax - blind[p]) PROVE [timer EXCEPT ![p] = t] \in [Proc -> Nat]
        <4>1. t \in Nat
          BY <1>1, Timings DEF TypeOK
        <4> QED BY <3>1, <4>1
      <3> QED BY <1>2, <3>1, <3>2
    <2>2. pc' \in [Proc -> Where] /\ \A q \in Proc \ {p} : pc'[q] = pc[q]
      BY <1>1, <1>2 DEF TypeOK, Goto, Where
    <2> QED BY <1>1, <1>2, <2>1, <2>2 DEF TypeOK
  <1>4. Registry(p)'
    <2>1. CASE pc[p] = "sleep" /\ Goto(p, "poll")
      <3>1. pc'[p] = "poll"
        BY <1>1, <2>1 DEF TypeOK, Goto
      <3> QED BY <1>1, <1>2, <2>1, <3>1 DEF Registry, Waiting, Top, Cluster
    <2>2. CASE pc[p] = "body" /\ owned[p] # {} /\ Goto(p, "run")
      <3>1. pc'[p] = "run" /\ held[p] # <<>>
        BY <1>1, <2>2, Whereabouts DEF TypeOK, Goto
      <3> QED BY <1>1, <1>2, <2>2, <3>1 DEF Registry, Waiting, Top, Cluster
    <2>3. CASE pc[p] = "run" /\ Top(p) \notin Leaf /\ Goto(p, "body")
      <3>1. pc'[p] = "body"
        BY <1>1, <2>3 DEF TypeOK, Goto
      <3> QED BY <1>1, <1>2, <2>3, <3>1 DEF Registry, Waiting, Top, Cluster
    <2> QED BY <1>2, <2>1, <2>2, <2>3
  <1>5. \A m \in Lock : idle'[m] <= idle[m]
    BY <1>1, <1>2 DEF TypeOK
  <1> QED BY <1>2, <1>3, <1>4, <1>5, PlaceKeeps

\* An explicit refresh keeps the invariant.
LEMMA CooperateKeeps ==
  ASSUME IInv, NEW p \in Proc, Cooperate(p)
  PROVE  IInv'
  <1>1. /\ pc[p] = "body" /\ owned[p] # {}
        /\ UNCHANGED <<held, owned, left, timer, dir>>
    BY DEF Cooperate
  <1>2. /\ TypeOK /\ Registry(p) /\ held[p] # <<>>
        /\ \A l \in owned[p] : l \notin Leaf
    BY <1>1, Whereabouts
  <1>3. CASE RefreshDies(p) /\ Raise(p, "fatal")
    BY <1>1, <1>2, <1>3, RefreshDiesKeeps, RaiseKeeps DEF Errors, TypeOK
  <1>4. CASE RefreshLives(p) /\ UNCHANGED <<pc, err>>
    <2>0. /\ idle' \in [Lock -> 0..Cfs] /\ alarm' \in [Proc -> Nat]
          /\ blind' \in [Proc -> Nat] /\ quiet' \in [Proc -> 0..Cfs]
          /\ \A q \in Proc \ {p} : /\ alarm'[q] = alarm[q] /\ blind'[q] = blind[q]
                                   /\ quiet'[q] = quiet[q]
          /\ overran' = overran /\ quiet'[p] = 0
          /\ \A m \in Lock : idle'[m] <= idle[m]
          /\ \A m \in owned[p] : Cluster(m) =>
                alarm'[p] <= Ceiling /\ idle'[m] = 0
      BY <1>2, <1>4, RefreshKeeps
    <2>1. TypeOK'
      BY <1>1, <1>2, <1>4, <2>0 DEF TypeOK
    <2>2. Registry(p)'
      BY <1>1, <1>2, <1>4 DEF Registry, Waiting, Top
    <2>3. Clocks(p)'
      BY <1>1, <2>0, <2>1, ClocksRenewed DEF OwnsCluster, Cluster
    <2>4. \A q \in Proc \ {p} : Registry(q)' /\ Clocks(q)'
      BY <1>1, <1>4, <2>0, <2>1, OthersKeep
    <2> QED BY <2>1, <2>2, <2>3, <2>4 DEF IInv
  <1> QED BY <1>3, <1>4 DEF Cooperate

\* A crash keeps the invariant: the dead process owns nothing.
LEMMA CrashKeeps ==
  ASSUME IInv, NEW p \in Proc, Crash(p)
  PROVE  IInv'
  <1>1. TypeOK
    BY DEF IInv
  <1>2. /\ held'[p] = <<>> /\ owned'[p] = {} /\ pc'[p] = "body"
        /\ \A q \in Proc \ {p} :
              /\ held'[q] = held[q] /\ owned'[q] = owned[q] /\ left'[q] = left[q]
              /\ pc'[q] = pc[q] /\ alarm'[q] = alarm[q] /\ blind'[q] = blind[q]
              /\ quiet'[q] = quiet[q]
        /\ idle' = idle
    BY <1>1 DEF Crash, TypeOK
  <1>3. dir' = [l \in Lock |-> IF l \in owned[p] /\ ~Cluster(l) THEN None ELSE dir[l]]
    BY DEF Crash
  <1>4. <<>> \in Seq(Lock) /\ Len(<<>>) = 0
    OBVIOUS
  <1>5. held' \in [Proc -> Seq(Lock)] /\ owned' \in [Proc -> SUBSET Lock]
    BY <1>1, <1>4 DEF Crash, TypeOK
  <1>6. left' \in [Proc -> [Lock -> Nat]]
    <2>1. [l \in Lock |-> 0] \in [Lock -> Nat]
      OBVIOUS
    <2> QED BY <1>1, <2>1 DEF Crash, TypeOK
  <1>7. dir' \in [Lock -> Proc \cup {None}] /\ quiet' \in [Proc -> 0..Cfs]
    BY <1>1, <1>3, Timings DEF TypeOK, Crash
  <1>8. TypeOK'
    BY <1>1, <1>2, <1>5, <1>6, <1>7 DEF Crash, TypeOK, Where, Errors
  <1>9. Registry(p)' /\ Clocks(p)'
    BY <1>2, <1>4 DEF Registry, Clocks, Waiting, OwnsCluster
  <1>10. \A m \in Lock : idle'[m] <= idle[m]
    BY <1>1, <1>2 DEF TypeOK
  <1>11. \A q \in Proc \ {p} : Registry(q)' /\ Clocks(q)'
    BY <1>2, <1>8, <1>10, OthersKeep
  <1> QED BY <1>8, <1>9, <1>11 DEF IInv

\* An acquisition keeps the invariant: the new lock starts with both of its
\* clocks at zero, and the opening refresh renews or fails the others.
LEMMA EnterKeeps ==
  ASSUME IInv, NEW p \in Proc, Waiting(p), Enter(p, Top(p))
  PROVE  IInv'
  <1> DEFINE l == Top(p)
             S == IF AnyOverdue(p) THEN Reached(p) ELSE owned[p]
  <1>1. /\ TypeOK /\ Registry(p) /\ Clocks(p)
        /\ held[p] # <<>> /\ l \in Lock /\ l \notin owned[p]
    BY Whereabouts, Tops DEF Waiting, Registry
  <1>2. /\ dir' = [dir EXCEPT ![l] = p] /\ held' = held
        /\ owned' = [owned EXCEPT ![p] = @ \cup {l}]
        /\ left' = [left EXCEPT ![p][l] = HoldTicks(l)]
        /\ idle' = [Touched(S) EXCEPT ![l] = 0]
    BY DEF Enter
  <1>3. /\ idle' \in [Lock -> 0..Cfs] /\ idle'[l] = 0
        /\ \A m \in Lock : idle'[m] <= idle[m]
        /\ \A m \in Lock : m \in S /\ Cluster(m) => idle'[m] = 0
    <2> HIDE DEF S
    <2>1. /\ Touched(S) \in [Lock -> 0..Cfs]
          /\ \A m \in Lock : Touched(S)[m] <= idle[m]
          /\ \A m \in Lock : m \in S /\ Cluster(m) => Touched(S)[m] = 0
      BY <1>1, Touches
    <2>2. 0 \in 0..Cfs /\ (\A m \in Lock : idle[m] \in Nat)
      BY <1>1, Timings DEF TypeOK
    <2>3. /\ idle' \in [Lock -> 0..Cfs] /\ idle'[l] = 0
          /\ \A m \in Lock \ {l} : idle'[m] = Touched(S)[m]
      BY <1>1, <1>2, <2>1, <2>2
    <2> QED BY <1>1, <2>1, <2>2, <2>3
  <1>4. /\ owned' \in [Proc -> SUBSET Lock] /\ owned'[p] = owned[p] \cup {l}
        /\ \A q \in Proc \ {p} : owned'[q] = owned[q]
    BY <1>1, <1>2 DEF TypeOK
  <1>5. left' \in [Proc -> [Lock -> Nat]] /\ \A q \in Proc \ {p} : left'[q] = left[q]
    BY <1>1, <1>2, Caps DEF TypeOK
  <1>6. dir' \in [Lock -> Proc \cup {None}]
    BY <1>1, <1>2 DEF TypeOK
  <1>7. CASE /\ AnyOverdue(p) /\ Raise(p, "fatal")
             /\ overran' = [overran EXCEPT ![p] = TRUE]
             /\ UNCHANGED <<alarm, blind, timer, quiet>>
    <2>1. TypeOK'
      BY <1>1, <1>2, <1>3, <1>4, <1>5, <1>6, <1>7
      DEF TypeOK, Raise, Goto, Where, Errors
    <2>2. pc'[p] = "leave" /\ \A q \in Proc \ {p} : pc'[q] = pc[q]
      BY <1>1, <1>7 DEF TypeOK, Raise, Goto
    <2>3. Registry(p)'
      BY <1>1, <1>2, <1>4, <2>2, Tops DEF Registry, Waiting, Top
    <2>4. AnyOverdue(p)'
      <3>1. PICK m \in owned[p] : Overdue(p, m)
        BY <1>7 DEF AnyOverdue
      <3>2. left'[p][m] = left[p][m]
        BY <1>1, <1>2, <3>1 DEF TypeOK
      <3> QED BY <1>4, <3>1, <3>2 DEF AnyOverdue, Overdue
    <2>5. Clocks(p)'
      BY <1>1, <1>3, <1>4, <1>7, <2>1, <2>4, ClocksOverdue
    <2>6. \A q \in Proc \ {p} : Registry(q)' /\ Clocks(q)'
      BY <1>2, <1>3, <1>4, <1>5, <1>7, <2>1, <2>2, OthersKeep
    <2> QED BY <2>1, <2>3, <2>5, <2>6 DEF IInv
  <1>8. ASSUME ~AnyOverdue(p), NEW a \in AlarmValues,
               Rearms(held[p], owned[p] \cup {l}, a),
               alarm' = [alarm EXCEPT ![p] = a],
               blind' = [blind EXCEPT ![p] = 0],
               quiet' = [quiet EXCEPT ![p] = 0],
               timer' = [timer EXCEPT ![p] = IF l \in Leaf THEN RunMax[l] ELSE 0],
               Goto(p, IF l \in Leaf THEN "run" ELSE "body"),
               UNCHANGED <<err, overran>>
        PROVE  IInv'
    <2>0. /\ timer' \in [Proc -> Nat] /\ quiet' \in [Proc -> 0..Cfs]
          /\ alarm' \in [Proc -> Nat] /\ blind' \in [Proc -> Nat]
      <3>1. (IF l \in Leaf THEN RunMax[l] ELSE 0) \in Nat /\ a \in Nat /\ 0 \in 0..Cfs
        BY ArmValues, Timings
      <3> QED BY <1>1, <1>8, <3>1 DEF TypeOK
    <2>1. TypeOK'
      BY <1>1, <1>2, <1>3, <1>4, <1>5, <1>6, <1>8, <2>0 DEF TypeOK, Goto, Where
    <2>2. /\ pc'[p] = (IF l \in Leaf THEN "run" ELSE "body")
          /\ alarm'[p] = a /\ quiet'[p] = 0 /\ Top(p)' = l
          /\ \A q \in Proc \ {p} :
                /\ pc'[q] = pc[q] /\ alarm'[q] = alarm[q]
                /\ blind'[q] = blind[q] /\ quiet'[q] = quiet[q]
      BY <1>1, <1>2, <1>8, Timings DEF TypeOK, Goto, Top
    <2>3. Registry(p)'
      BY <1>1, <1>2, <1>4, <2>2, Tops DEF Registry, Waiting, Top
    <2>4. ASSUME NEW m \in owned'[p], Cluster(m) PROVE idle'[m] = 0
      BY <1>1, <1>3, <1>4, <1>8, <2>4 DEF TypeOK
    <2>5. ASSUME NEW m \in owned'[p], Cluster(m), l \notin Leaf PROVE a <= Ceiling
      <3>1. \A k \in owned[p] \cup {l} : \E i \in 1..Len(held[p]) : held[p][i] = k
        BY <1>2, <1>4, <2>3 DEF Registry
      <3>2. ASSUME NEW k \in owned[p] PROVE k \notin Leaf
        <4>1. PICK i \in 1..Len(held[p]) : held[p][i] = k
          BY <1>1 DEF Registry
        <4>2. i < Len(held[p])
          BY <1>1, <4>1, Tops DEF Top
        <4> QED BY <1>1, <4>1, <4>2 DEF Registry
      <3>3. held[p] \in Seq(Lock) /\ owned[p] \cup {l} \in SUBSET Lock
        BY <1>1 DEF TypeOK
      <3>4. \A k \in owned[p] \cup {l} : k \notin Leaf
        BY <2>5, <3>2
      <3>5. m \in owned[p] \cup {l} /\ Cluster(m)
        BY <1>4, <2>5
      <3> DEFINE own == owned[p] \cup {l}
      <3> HIDE DEF own
      <3>6. /\ own \in SUBSET Lock /\ Rearms(held[p], own, a)
            /\ \A k \in own : \E i \in 1..Len(held[p]) : held[p][i] = k
            /\ \A k \in own : k \notin Leaf
            /\ m \in own
        BY <1>8, <3>1, <3>3, <3>4, <3>5 DEF own
      <3> QED BY <3>3, <3>5, <3>6, RearmCap
    <2>6. Clocks(p)'
      <3>1. ~InLeaf(p)' => l \notin Leaf
        BY <1>1, <1>2, <1>4, <2>2 DEF InLeaf
      <3>2. OwnsCluster(p)' /\ ~InLeaf(p)' => alarm'[p] <= Ceiling
        BY <2>2, <2>5, <3>1 DEF OwnsCluster, Cluster
      <3> QED BY <2>1, <2>2, <2>4, <3>2, ClocksRenewed
    <2>7. \A q \in Proc \ {p} : Registry(q)' /\ Clocks(q)'
      BY <1>2, <1>3, <1>4, <1>5, <2>1, <2>2, OthersKeep
    <2> QED BY <2>1, <2>3, <2>6, <2>7 DEF IInv
  <1> QED BY <1>7, <1>8 DEF Enter

\* Leaving a section keeps the invariant: a closing refresh that does not die
\* renews every clock, and so does one that dies at the innermost section only.
LEMMA LeaveSectionKeeps ==
  ASSUME IInv, NEW p \in Proc, LeaveSection(p)
  PROVE  IInv'
  <1> DEFINE l == Top(p)
             h == held[p]
             ran == l \in owned[p]
             dies == ran /\ AnyOverdue(p)
             e == IF dies THEN "fatal" ELSE err[p]
             all == owned[p] \ {l} \subseteq Reached(p)
  <1>1. pc[p] = "leave" /\ ~Waiting(p)
    BY DEF LeaveSection, Waiting
  <1>2. /\ TypeOK /\ Registry(p) /\ Clocks(p)
        /\ h # <<>> /\ l \in Lock /\ h \in Seq(Lock) /\ Len(h) \in Nat \ {0}
        /\ Below(p) \in Seq(Lock) /\ Len(Below(p)) = Len(h) - 1
        /\ \A i \in 1..Len(Below(p)) : Below(p)[i] = h[i]
    BY <1>1, Whereabouts, Tops DEF TypeOK
  <1>0. /\ Len(Below(p)) \in Nat /\ Len(h) = Len(Below(p)) + 1
        /\ Len(h) # 1 => Len(h) > 1 /\ Len(Below(p)) \in 1..Len(Below(p))
    <2> DEFINE n == Len(h)
               m == Len(Below(p))
    <2>1. n \in Nat \ {0} /\ m = n - 1
      BY <1>2
    <2> HIDE DEF n, m
    <2>2. m \in Nat /\ n = m + 1 /\ (n # 1 => n > 1 /\ m \in 1..m)
      BY <2>1
    <2> QED BY <2>2 DEF n, m
  <1>3. /\ held' = [held EXCEPT ![p] = Below(p)]
        /\ owned' = [owned EXCEPT ![p] = @ \ {l}]
        /\ left' = [left EXCEPT ![p][l] = 0]
        /\ timer' = [timer EXCEPT ![p] = 0]
        /\ idle' = IF ran THEN Touched(Reached(p)) ELSE idle
        /\ quiet' = [quiet EXCEPT ![p] = IF ran /\ all THEN 0 ELSE @]
        /\ Divest(p, l) /\ Resume(p, e)
    BY DEF LeaveSection
  <1>4. /\ held'[p] = Below(p) /\ owned'[p] = owned[p] \ {l}
        /\ held' \in [Proc -> Seq(Lock)] /\ owned' \in [Proc -> SUBSET Lock]
        /\ left' \in [Proc -> [Lock -> Nat]] /\ timer' \in [Proc -> Nat]
        /\ \A m \in Lock \ {l} : left'[p][m] = left[p][m]
        /\ \A q \in Proc \ {p} : /\ held'[q] = held[q] /\ owned'[q] = owned[q]
                                  /\ left'[q] = left[q]
    BY <1>2, <1>3 DEF TypeOK
  <1>5. idle' \in [Lock -> 0..Cfs] /\ (\A m \in Lock : idle'[m] <= idle[m])
    <2>1. CASE ran
      BY <1>2, <1>3, <2>1, Touches
    <2>2. CASE ~ran
      BY <1>2, <1>3, <2>2 DEF TypeOK
    <2> QED BY <2>1, <2>2
  <1>6. dir' \in [Lock -> Proc \cup {None}]
    BY <1>2, <1>3 DEF Divest, TypeOK
  <1>7. e \in Errors
    BY <1>2 DEF TypeOK, Errors
  <1>8. /\ pc' \in [Proc -> Where] /\ err' \in [Proc -> Errors]
        /\ \A q \in Proc \ {p} : pc'[q] = pc[q]
        /\ \/ pc'[p] = "body"
           \/ pc'[p] = "leave" /\ Len(h) # 1
    <2>1. CASE Goto(p, "body") /\ err' = [err EXCEPT ![p] = "none"]
      BY <1>2, <2>1 DEF TypeOK, Goto, Where, Errors
    <2>2. CASE Raise(p, e) /\ Len(h) # 1
      BY <1>2, <1>7, <2>2 DEF TypeOK, Raise, Goto, Where
    <2> QED BY <1>3, <2>1, <2>2 DEF Resume
  <1>9. overran' \in [Proc -> BOOLEAN]
    <2>1. overran' = [overran EXCEPT ![p] = (@ \/ dies) /\ Len(h) > 1 /\ pc'[p] = "leave"]
      BY DEF LeaveSection
    <2>2. ((overran[p] \/ dies) /\ Len(h) > 1 /\ pc'[p] = "leave") \in BOOLEAN
      OBVIOUS
    <2> QED BY <1>2, <2>1, <2>2 DEF TypeOK
  <1>10. /\ alarm' \in [Proc -> Nat] /\ blind' \in [Proc -> Nat]
         /\ quiet' \in [Proc -> 0..Cfs]
         /\ \A q \in Proc \ {p} : /\ alarm'[q] = alarm[q] /\ blind'[q] = blind[q]
                                  /\ quiet'[q] = quiet[q]
         /\ quiet'[p] = IF ran /\ all THEN 0 ELSE quiet[p]
         /\ ran => \E a \in AlarmValues :
                      Rearms(Below(p), owned[p] \ {l}, a) /\ alarm'[p] = a
         /\ ~ran => alarm'[p] = alarm[p] /\ (Len(h) > 1 => blind'[p] = blind[p])
    <2>0. /\ quiet' \in [Proc -> 0..Cfs]
          /\ quiet'[p] = IF ran /\ all THEN 0 ELSE quiet[p]
          /\ \A q \in Proc \ {p} : quiet'[q] = quiet[q]
      BY <1>2, <1>3, Timings DEF TypeOK
    <2>1. CASE ran
      <3>1. PICK a \in AlarmValues : /\ Rearms(Below(p), owned[p] \ {l}, a)
                                     /\ alarm' = [alarm EXCEPT ![p] = a]
        BY <2>1 DEF LeaveSection
      <3>2. blind' = [blind EXCEPT ![p] = IF dies /\ Len(h) > 1 THEN @ ELSE 0]
        BY <2>1 DEF LeaveSection
      <3> QED BY <1>2, <2>0, <2>1, <3>1, <3>2, ArmValues DEF TypeOK
    <2>2. CASE ~ran
      <3>1. /\ alarm' = alarm
            /\ blind' = [blind EXCEPT ![p] = IF Len(h) > 1 THEN @ ELSE 0]
        BY <2>2 DEF LeaveSection
      <3> QED BY <1>2, <2>0, <2>2, <3>1 DEF TypeOK
    <2> QED BY <2>1, <2>2
  <1>11. TypeOK'
    BY <1>4, <1>5, <1>6, <1>8, <1>9, <1>10 DEF TypeOK
  <1>12. /\ \A i \in 1..Len(Below(p)) : Below(p)[i] \in owned[p] \ {l} /\ Below(p)[i] \notin Leaf
         /\ \A m \in owned[p] \ {l} : \E i \in 1..Len(Below(p)) : Below(p)[i] = m
    <2>1. ASSUME NEW i \in 1..Len(Below(p))
          PROVE  Below(p)[i] \in owned[p] \ {l} /\ Below(p)[i] \notin Leaf
      <3>1. i \in 1..Len(h) /\ i < Len(h) /\ Below(p)[i] = h[i]
        BY <1>2
      <3>2. h[i] # h[Len(h)]
        BY <1>2, <3>1 DEF Registry
      <3> QED BY <1>2, <3>1, <3>2 DEF Registry, Top
    <2>2. ASSUME NEW m \in owned[p] \ {l}
          PROVE  \E i \in 1..Len(Below(p)) : Below(p)[i] = m
      <3>1. PICK i \in 1..Len(h) : h[i] = m
        BY <1>2 DEF Registry
      <3>2. i # Len(h)
        BY <3>1 DEF Top
      <3> QED BY <1>2, <3>1, <3>2
    <2> QED BY <2>1, <2>2
  <1>13. Registry(p)'
    <2> DEFINE b == Below(p)
               own == owned[p] \ {l}
    <2>1. /\ held'[p] = b /\ owned'[p] = own
          /\ Len(b) \in Nat
          /\ b # <<>> => Len(b) \in 1..Len(b)
      <3>1. b \in Seq(Lock)
        BY <1>2
      <3> HIDE DEF b
      <3>2. Len(b) \in Nat /\ (b # <<>> => Len(b) \in 1..Len(b))
        BY <3>1
      <3> QED BY <1>4, <3>2 DEF b
    <2>5. ASSUME NEW i \in 1..Len(b), NEW j \in 1..Len(b), b[i] = b[j] PROVE i = j
      <3>1. i \in 1..Len(h) /\ j \in 1..Len(h)
        <4> HIDE DEF b, h
        <4> QED BY <1>0 DEF b
      <3>2. h[i] = h[j]
        BY <1>2, <2>5
      <3> QED BY <1>2, <3>1, <3>2 DEF Registry
    <2>2. Len(h) # 1 => b # <<>>
      <3>1. b = <<>> => Len(b) = 0
        OBVIOUS
      <3> QED BY <1>0, <3>1
    <2>3. /\ pc'[p] \in {"body", "leave"}
          /\ pc'[p] = "leave" => b # <<>>
      BY <1>8, <2>2
    <2>4. /\ \A i \in 1..Len(b) : b[i] \in own /\ b[i] \notin Leaf
          /\ \A m \in own : \E i \in 1..Len(b) : b[i] = m
      BY <1>12
    <2> HIDE DEF b, own
    <2> QED BY <2>1, <2>3, <2>4, <2>5 DEF Registry, Waiting, Top
  <1>14. Clocks(p)'
    <2>1. CASE ran /\ all
      <3>1. ASSUME NEW m \in owned'[p], Cluster(m)
            PROVE  idle'[m] = 0 /\ alarm'[p] <= Ceiling
        <4>1. m \in owned[p] \ {l} /\ m \in Lock /\ owned[p] \ {l} \in SUBSET Lock
          BY <1>2, <1>4, <3>1 DEF TypeOK
        <4>2. idle'[m] = 0
          BY <1>2, <1>3, <2>1, <3>1, <4>1, Touches
        <4>3. PICK a \in AlarmValues :
                 Rearms(Below(p), owned[p] \ {l}, a) /\ alarm'[p] = a
          BY <1>10, <2>1
        <4>4. \A k \in owned[p] \ {l} : k \notin Leaf
          BY <1>12
        <4>5. a <= Ceiling
          BY <1>2, <1>12, <3>1, <4>1, <4>3, <4>4, RearmCap
        <4> QED BY <4>2, <4>3, <4>5
      <3>2. quiet'[p] = 0
        BY <1>10, <2>1
      <3> QED BY <1>11, <3>1, <3>2, ClocksRenewed DEF OwnsCluster, Cluster
    <2>2. CASE ran /\ ~all
      <3>1. PICK m \in owned[p] \ {l} : m \notin Reached(p)
        BY <2>2
      <3>2. PICK i \in 1..Len(Below(p)) : Below(p)[i] = m
        BY <1>12
      <3>3. i \in 1..Len(h) /\ h[i] = m
        BY <1>0, <1>2, <3>2
      <3>4. PICK j \in 1..i : Overdue(p, h[j])
        BY <1>2, <3>1, <3>3 DEF Reached
      <3>5. j \in 1..Len(Below(p)) /\ Below(p)[j] = h[j]
        BY <1>0, <1>2, <3>2, <3>4
      <3>6. h[j] \in owned'[p] /\ h[j] \in Lock \ {l}
        BY <1>2, <1>4, <1>12, <3>5 DEF TypeOK
      <3>7. AnyOverdue(p)'
        BY <1>4, <3>4, <3>6 DEF AnyOverdue, Overdue
      <3>8. quiet'[p] = quiet[p] /\ \A k \in owned'[p] : k \in owned[p]
        BY <1>4, <1>10, <2>2
      <3> QED BY <1>2, <1>5, <1>11, <3>7, <3>8, ClocksOverdue
    <2>3. CASE ~ran
      <3>1. owned'[p] = owned[p]
        BY <1>4, <2>3
      <3>2. CASE Len(h) = 1
        <4>1. 1..Len(Below(p)) = {}
          <5> DEFINE m == Len(Below(p))
                     n == Len(h)
          <5>1. m \in Nat /\ n = m + 1 /\ n = 1
            BY <1>0, <3>2
          <5> HIDE DEF m, n
          <5>2. 1..m = {}
            BY <5>1
          <5> QED BY <5>2 DEF m
        <4>2. owned'[p] = {}
          BY <1>4, <1>12, <4>1
        <4> QED BY <4>2 DEF Clocks, OwnsCluster
      <3>3. CASE Len(h) # 1
        <4>1. alarm'[p] = alarm[p] /\ blind'[p] = blind[p] /\ quiet'[p] = quiet[p]
          BY <1>0, <1>10, <2>3, <3>3
        <4>2. ~InLeaf(p)
          BY <2>3 DEF InLeaf
        <4>3. ~InLeaf(p)'
          <5>1. Len(Below(p)) \in 1..Len(Below(p))
            BY <1>0, <3>3
          <5>2. Top(p)' = Below(p)[Len(Below(p))]
            BY <1>4 DEF Top
          <5> QED BY <1>12, <5>1, <5>2 DEF InLeaf
        <4>4. \A m \in owned[p] : left'[p][m] = left[p][m] /\ m \in Lock
          BY <1>2, <1>4, <2>3 DEF TypeOK
        <4>5. AnyOverdue(p)' <=> AnyOverdue(p)
          BY <3>1, <4>4 DEF AnyOverdue, Overdue
        <4>6. OwnsCluster(p)' <=> OwnsCluster(p)
          BY <3>1 DEF OwnsCluster, Cluster
        <4>7. ASSUME NEW m \in owned[p], Cluster(m) PROVE idle'[m] <= quiet[p]
          <5>1. idle[m] <= quiet[p] /\ idle' = idle
            BY <1>2, <1>3, <2>3, <4>7 DEF Clocks
          <5> QED BY <5>1
        <4> QED BY <1>2, <3>1, <4>1, <4>2, <4>3, <4>5, <4>6, <4>7 DEF Clocks, Cluster
      <3> QED BY <3>2, <3>3
    <2> QED BY <2>1, <2>2, <2>3
  <1>15. \A q \in Proc \ {p} : Registry(q)' /\ Clocks(q)'
    BY <1>4, <1>5, <1>8, <1>10, <1>11, OthersKeep
  <1> QED BY <1>11, <1>13, <1>14, <1>15 DEF IInv

\* A tick keeps the invariant: where the alarm is suspended the suspended time
\* is charged, elsewhere the alarm moves, and it has not expired yet.
LEMMA TickKeeps ==
  ASSUME IInv, Tick
  PROVE  IInv'
  <1>1. TypeOK
    BY DEF IInv
  <1>2. /\ held' = held /\ owned' = owned /\ err' = err /\ dir' = dir /\ overran' = overran
        /\ idle' = [l \in Lock |-> IF Cluster(l) /\ dir[l] # None /\ idle[l] < Cfs
                                   THEN idle[l] + 1 ELSE idle[l]]
        /\ left' = [p \in Proc |-> [l \in Lock |->
                       IF l \in owned[p] THEN Less(left[p][l]) ELSE left[p][l]]]
        /\ alarm' = [p \in Proc |-> IF Suspended(p) THEN alarm[p] ELSE Less(alarm[p])]
        /\ blind' = [p \in Proc |-> IF Suspended(p) THEN blind[p] + 1 ELSE blind[p]]
        /\ timer' = [p \in Proc |-> IF Suspended(p) THEN Less(timer[p]) ELSE timer[p]]
        /\ pc' = [p \in Proc |-> IF pc[p] = "sleep" THEN "poll" ELSE pc[p]]
        /\ quiet' = [p \in Proc |-> IF owned[p] # {} /\ quiet[p] < Cfs
                                    THEN quiet[p] + 1 ELSE quiet[p]]
    BY DEF Tick, Remaining
  <1>3. \A n \in Nat : /\ Less(n) \in Nat /\ (n > 0 => Less(n) = n - 1)
                       /\ (n = 0 => Less(n) = 0)
    BY DEF Less
  <1>4. idle' \in [Lock -> 0..Cfs] /\ quiet' \in [Proc -> 0..Cfs]
    BY <1>1, <1>2, Timings DEF TypeOK
  <1>5. left' \in [Proc -> [Lock -> Nat]]
    BY <1>1, <1>2, <1>3 DEF TypeOK
  <1>6. alarm' \in [Proc -> Nat] /\ timer' \in [Proc -> Nat] /\ blind' \in [Proc -> Nat]
    <2>1. ASSUME NEW p \in Proc
          PROVE  /\ alarm[p] \in Nat /\ Less(alarm[p]) \in Nat
                 /\ timer[p] \in Nat /\ Less(timer[p]) \in Nat
                 /\ blind[p] \in Nat /\ blind[p] + 1 \in Nat
      <3>1. alarm[p] \in Nat /\ timer[p] \in Nat /\ blind[p] \in Nat
        BY <1>1 DEF TypeOK
      <3> QED BY <1>3, <3>1
    <2>2. alarm' \in [Proc -> Nat]
      BY <1>2, <2>1
    <2>3. timer' \in [Proc -> Nat]
      BY <1>2, <2>1
    <2>4. blind' \in [Proc -> Nat]
      BY <1>2, <2>1
    <2> QED BY <2>2, <2>3, <2>4
  <1>7. TypeOK'
    <2>1. pc' \in [Proc -> Where]
      BY <1>1, <1>2 DEF TypeOK, Where
    <2> QED BY <1>1, <1>2, <1>4, <1>5, <1>6, <2>1 DEF TypeOK
  <1>8. ASSUME NEW p \in Proc PROVE Registry(p)' /\ Clocks(p)'
    <2>1. Registry(p) /\ Clocks(p) /\ ~Due(p)
      BY DEF IInv, Tick
    <2>2. /\ pc[p] \in {"body", "sleep", "flock", "run"}
          /\ pc'[p] = (IF pc[p] = "sleep" THEN "poll" ELSE pc[p])
          /\ alarm[p] \in Nat /\ blind[p] \in Nat /\ quiet[p] \in 0..Cfs
          /\ owned[p] \in SUBSET Lock
      BY <1>1, <1>2, <2>1 DEF TypeOK, Where, Due
    <2>3. Registry(p)'
      BY <1>2, <2>1, <2>2 DEF Registry, Waiting, Top, Cluster
    <2>4. ASSUME NEW l \in owned[p], Cluster(l) PROVE idle'[l] <= quiet'[p]
      <3>1. /\ l \in Lock /\ idle[l] \in 0..Cfs /\ idle[l] <= quiet[p]
        BY <1>1, <2>1, <2>2, <2>4 DEF TypeOK, Clocks
      <3>2. quiet'[p] = IF quiet[p] < Cfs THEN quiet[p] + 1 ELSE quiet[p]
        BY <1>2, <2>4
      <3>3. idle'[l] <= (IF idle[l] < Cfs THEN idle[l] + 1 ELSE idle[l])
        BY <1>2, <3>1, Timings
      <3>4. idle'[l] \in 0..Cfs /\ Cfs \in Nat
        BY <1>4, <3>1, Timings
      <3> QED BY <2>2, <3>1, <3>2, <3>3, <3>4
    <2>5. AnyOverdue(p) => AnyOverdue(p)'
      <3> SUFFICES ASSUME NEW l \in owned[p], Overdue(p, l) PROVE Overdue(p, l)'
        BY <1>2 DEF AnyOverdue
      <3>1. left[p][l] = 0 /\ l \in Lock
        BY <2>2 DEF Overdue
      <3>2. left'[p][l] = 0
        BY <1>2, <1>3, <3>1
      <3> QED BY <1>2, <3>2 DEF Overdue
    <2>6. ASSUME OwnsCluster(p), ~AnyOverdue(p)
          PROVE  /\ InLeaf(p) => quiet'[p] <= blind'[p]
                 /\ ~InLeaf(p) => /\ alarm'[p] <= Ceiling
                                  /\ quiet'[p] + alarm'[p] <= Ceiling + blind'[p]
      <3>1. /\ InLeaf(p) => quiet[p] <= blind[p]
            /\ ~InLeaf(p) => alarm[p] <= Ceiling /\ quiet[p] + alarm[p] <= Ceiling + blind[p]
        BY <2>1, <2>6 DEF Clocks
      <3>2. quiet'[p] <= quiet[p] + 1 /\ quiet'[p] \in Nat /\ quiet[p] \in Nat /\ Ceiling \in Nat
        BY <1>2, <1>4, <2>2, Timings
      <3>3. CASE Suspended(p)
        <4>1. alarm'[p] = alarm[p] /\ blind'[p] = blind[p] + 1
          BY <1>2, <3>3
        <4> QED BY <2>2, <3>1, <3>2, <4>1
      <3>4. CASE ~Suspended(p)
        <4>1. pc[p] = "body" /\ ~InLeaf(p)
          BY <2>1, <2>2, <3>4 DEF Suspended, InLeaf, Registry
        <4>2. AlarmArmed(p)
          BY <2>2, <2>6, Caps DEF AlarmArmed, OwnsCluster
        <4>3. alarm[p] > 0
          BY <2>1, <2>2, <4>1, <4>2 DEF Due
        <4>4. alarm'[p] = alarm[p] - 1 /\ blind'[p] = blind[p]
          BY <1>2, <1>3, <2>2, <3>4, <4>3
        <4> QED BY <2>2, <3>1, <3>2, <4>1, <4>4
      <3> QED BY <3>3, <3>4
    <2>7. (InLeaf(p)' <=> InLeaf(p)) /\ (OwnsCluster(p)' <=> OwnsCluster(p))
      BY <1>2 DEF InLeaf, OwnsCluster, Top, Cluster
    <2>8. Clocks(p)'
      BY <1>2, <2>4, <2>5, <2>6, <2>7 DEF Clocks, Cluster
    <2> QED BY <2>3, <2>8
  <1> QED BY <1>7, <1>8 DEF IInv

\* The invariant is inductive.
LEMMA Inductive == IInv /\ [Next]_vars => IInv'
  <1> SUFFICES ASSUME IInv, [Next]_vars PROVE IInv'
    OBVIOUS
  <1>1. CASE Tick
    BY <1>1, TickKeeps
  <1>2. ASSUME NEW p \in Proc, NEW l \in Lock, CallLock(p, l) PROVE IInv'
    BY <1>2, CallLockKeeps
  <1>3. ASSUME NEW p \in Proc, PollAcquires(p) \/ FlockAcquires(p) PROVE IInv'
    BY <1>3, EnterKeeps DEF PollAcquires, FlockAcquires, Waiting
  <1>4. ASSUME NEW p \in Proc,
               \/ PollAcquiresThenDies(p) \/ PollMisses(p) \/ Wake(p) \/ PollTimesOut(p)
               \/ FlockTimesOut(p) \/ WaitBreaks(p)
        PROVE  IInv'
    BY <1>4, WaitFailsKeeps, PollMissesKeeps, MovesKeep
  <1>5. ASSUME NEW p \in Proc,
               \/ Cooperate(p) \/ StartRun(p) \/ EndRun(p) \/ EndLeafRun(p)
               \/ EndBody(p) \/ AlarmFires(p)
        PROVE  IInv'
    BY <1>5, CooperateKeeps, MovesKeep, EndsKeep
  <1>6. ASSUME NEW p \in Proc, LeaveSection(p) \/ Crash(p) PROVE IInv'
    BY <1>6, LeaveSectionKeeps, CrashKeeps
  <1>7. CASE UNCHANGED vars
    BY <1>7 DEF vars, IInv, TypeOK, Registry, Clocks, InLeaf, OwnsCluster, AnyOverdue,
                Overdue, Waiting, Top, Cluster
  <1> QED BY <1>1, <1>2, <1>3, <1>4, <1>5, <1>6, <1>7 DEF Next

\* No process holds a lock at the start.
LEMMA Starts == Init => IInv
  <1> SUFFICES ASSUME Init PROVE IInv
    OBVIOUS
  <1>1. <<>> \in Seq(Lock) /\ Len(<<>>) = 0
    OBVIOUS
  <1>2. TypeOK
    <2>1. /\ [l \in Lock |-> 0] \in [Lock -> Nat] /\ idle \in [Lock -> 0..Cfs]
          /\ quiet \in [Proc -> 0..Cfs]
      BY Timings DEF Init
    <2>2. left \in [Proc -> [Lock -> Nat]]
      BY <2>1 DEF Init
    <2>3. held \in [Proc -> Seq(Lock)]
      BY <1>1 DEF Init
    <2> QED BY <2>1, <2>2, <2>3 DEF Init, TypeOK, Where, Errors
  <1>3. ASSUME NEW p \in Proc PROVE Registry(p) /\ Clocks(p)
    <2>1. held[p] = <<>> /\ owned[p] = {} /\ pc[p] = "body"
      BY DEF Init
    <2>2. Len(held[p]) = 0
      BY <1>1, <2>1
    <2> QED BY <2>1, <2>2 DEF Registry, Clocks, Waiting, OwnsCluster
  <1> QED BY <1>2, <1>3 DEF IInv

-----------------------------------------------------------------------------
(* The theorems.                                                           *)

\* The inductive invariant holds in every reachable state.
THEOREM Invariance == Spec => []IInv
  <1>1. Init => IInv
    BY Starts
  <1>2. IInv /\ [Next]_vars => IInv'
    BY Inductive
  <1> QED BY <1>1, <1>2, PTL DEF Spec

\* Type correctness of the lock primitive.
THEOREM TypeCorrect == Spec => []TypeOK
  <1>1. IInv => TypeOK
    BY DEF IInv
  <1> QED BY <1>1, Invariance, PTL

\* Whatever a process does, waits for or fails at, the alarm bounds the time from
\* one refresh to the next, but for suspended time: of refresh_locks, the touch of
\* the directories and the re-arming of the alarm go together in every section.
THEOREM AlarmBoundsHold == Spec => []AlarmBounds
  <1>1. IInv => AlarmBounds
    <2> SUFFICES ASSUME IInv, NEW p \in Proc, ~AnyOverdue(p), OwnsCluster(p)
                 PROVE  quiet[p] <= Ceiling + blind[p]
      BY DEF AlarmBounds, OwnsCluster
    <2>1. /\ Clocks(p) /\ quiet[p] \in Nat /\ blind[p] \in Nat /\ alarm[p] \in Nat
          /\ Ceiling \in Nat
      BY Timings DEF IInv, TypeOK
    <2> QED BY <2>1 DEF Clocks
  <1> QED BY <1>1, Invariance, PTL

-----------------------------------------------------------------------------
(* The ownership of the locks.                                             *)

\* The directory of a timely holder is not stale.
LEMMA NotStale ==
  ASSUME IInv, Timely, NEW p \in Proc, NEW l \in owned[p], Cluster(l)
  PROVE  ~Stale(l)
  <1>1. idle[l] <= quiet[p] /\ quiet[p] < Cfs
    BY DEF IInv, Clocks, Timely
  <1>2. l \in Lock /\ idle[l] \in Nat /\ quiet[p] \in Nat /\ Cfs \in Nat
    BY Timings DEF IInv, TypeOK
  <1> QED BY <1>1, <1>2 DEF Stale

\* While the holders are timely no step takes the artifact of an owner.
LEMMA OwnersKept ==
  ASSUME IInv, Timely, OwnerHasArtifact, [Next]_vars
  PROVE  OwnerHasArtifact'
  <1>1. TypeOK
    BY DEF IInv
  <1>2. ASSUME UNCHANGED <<owned, dir>> PROVE OwnerHasArtifact'
    BY <1>2 DEF OwnerHasArtifact
  <1>3. ASSUME NEW l \in Lock, dir[l] = None, UNCHANGED owned,
               \E p \in Proc : dir' = [dir EXCEPT ![l] = p]
        PROVE  OwnerHasArtifact'
    BY <1>1, <1>3, NoneIsNoProc DEF OwnerHasArtifact, TypeOK
  <1>4. CASE Tick \/ UNCHANGED vars
    BY <1>2, <1>4 DEF Tick, vars
  <1>5. ASSUME NEW p \in Proc,
               \/ \E l \in Lock : CallLock(p, l)
               \/ Wake(p) \/ FlockTimesOut(p) \/ WaitBreaks(p) \/ Cooperate(p) \/ StartRun(p)
               \/ EndRun(p) \/ EndLeafRun(p) \/ EndBody(p) \/ AlarmFires(p)
        PROVE  OwnerHasArtifact'
    BY <1>2, <1>5 DEF CallLock, Wake, FlockTimesOut, WaitBreaks, Cooperate, StartRun, EndRun,
       EndLeafRun, EndBody, AlarmFires
  <1>6. ASSUME NEW p \in Proc, PollAcquiresThenDies(p) \/ PollTimesOut(p)
        PROVE  OwnerHasArtifact'
    <2>1. Top(p) \in Lock
      BY <1>6, Whereabouts, Tops DEF PollAcquiresThenDies, PollTimesOut
    <2> QED BY <1>2, <1>3, <1>6, <2>1 DEF PollAcquiresThenDies, PollTimesOut, LeaveBehind
  <1>7. ASSUME NEW p \in Proc, PollAcquires(p) \/ FlockAcquires(p)
        PROVE  OwnerHasArtifact'
    <2> DEFINE l == Top(p)
    <2>1. l \in Lock /\ dir[l] = None
      BY <1>7, Whereabouts, Tops DEF PollAcquires, FlockAcquires
    <2>2. dir' = [dir EXCEPT ![l] = p] /\ owned' = [owned EXCEPT ![p] = @ \cup {l}]
      BY <1>7 DEF PollAcquires, FlockAcquires, Enter
    <2> HIDE DEF l
    <2> QED BY <1>1, <2>1, <2>2, NoneIsNoProc DEF OwnerHasArtifact, TypeOK
  <1>8. ASSUME NEW p \in Proc, PollMisses(p) PROVE OwnerHasArtifact'
    <2> DEFINE l == Top(p)
    <2>1. Poke(l) /\ owned' = owned
      BY <1>8 DEF PollMisses
    <2>2. l \in Lock /\ Cluster(l)
      BY <1>8, Whereabouts, Tops DEF PollMisses, Registry
    <2>3. Stale(l) => \A q \in Proc : l \notin owned[q]
      BY <2>2, NotStale
    <2> HIDE DEF l
    <2> QED BY <1>1, <2>1, <2>2, <2>3 DEF Poke, OwnerHasArtifact, TypeOK
  <1>9. ASSUME NEW p \in Proc, LeaveSection(p) PROVE OwnerHasArtifact'
    <2> DEFINE l == Top(p)
    <2>1. owned' = [owned EXCEPT ![p] = @ \ {l}] /\ Divest(p, l)
      BY <1>9 DEF LeaveSection
    <2>2. l \in Lock
      BY <1>9, Whereabouts, Tops DEF LeaveSection
    <2> HIDE DEF l
    <2>3. CASE UNCHANGED dir
      BY <1>1, <2>1, <2>3 DEF OwnerHasArtifact, TypeOK
    <2>4. CASE l \in owned[p] /\ dir' = [dir EXCEPT ![l] = None]
      <3>1. \A q \in Proc \ {p} : l \notin owned[q]
        BY <2>4 DEF OwnerHasArtifact
      <3>2. ASSUME NEW q \in Proc, NEW m \in owned'[q] PROVE dir'[m] = q
        <4>1. m \in owned[q] /\ m # l /\ m \in Lock
          BY <1>1, <2>1, <3>1, <3>2 DEF TypeOK
        <4>2. dir[m] = q
          BY <4>1 DEF OwnerHasArtifact
        <4> QED BY <1>1, <2>4, <4>1, <4>2 DEF TypeOK
      <3> QED BY <3>2 DEF OwnerHasArtifact
    <2> QED BY <2>1, <2>3, <2>4 DEF Divest
  <1>10. ASSUME NEW p \in Proc, Crash(p) PROVE OwnerHasArtifact'
    <2>1. /\ dir' = [l \in Lock |-> IF l \in owned[p] /\ ~Cluster(l) THEN None ELSE dir[l]]
          /\ owned' = [owned EXCEPT ![p] = {}]
      BY <1>10 DEF Crash
    <2>2. ASSUME NEW q \in Proc, NEW m \in owned'[q] PROVE dir'[m] = q
      <3>1. m \in owned[q] /\ q # p /\ m \in Lock
        BY <1>1, <2>1, <2>2 DEF TypeOK
      <3>2. dir[m] = q /\ m \notin owned[p]
        BY <3>1 DEF OwnerHasArtifact
      <3> QED BY <2>1, <3>1, <3>2
    <2> QED BY <2>2 DEF OwnerHasArtifact
  <1> QED BY <1>4, <1>5, <1>6, <1>7, <1>8, <1>9, <1>10 DEF Next

\* A process that believes it owns a lock finds its own artifact at the path, for
\* as long as every holder reaches its cooperation points before pmxcfs expires
\* its directories: no waiter, no crash and no failing release breaks ownership.
THEOREM OwnersKeepArtifact == Spec /\ []Timely => []OwnerHasArtifact
  <1>1. Init => OwnerHasArtifact
    BY DEF Init, OwnerHasArtifact
  <1>2. IInv /\ Timely /\ OwnerHasArtifact /\ [Next]_vars => OwnerHasArtifact'
    BY OwnersKept
  <1> QED BY <1>1, <1>2, Invariance, PTL DEF Spec

-----------------------------------------------------------------------------
(* with_lock implements the lock service.                                  *)

\* An acquisition is a grant.
LEMMA EnterGrants ==
  ASSUME IInv, NEW p \in Proc, Waiting(p), dir[Top(p)] = None, Enter(p, Top(p))
  PROVE  Service!Next
  <1>1. Top(p) \in Lock
    BY Whereabouts, Tops DEF Waiting
  <1>2. Service!Grant(p, Top(p))
    BY DEF Enter, Service!Grant
  <1> QED BY <1>1, <1>2 DEF Service!Next

\* A directory left behind by a process that never owned it is a lost grant.
LEMMA LeaveBehindIsLost ==
  ASSUME NEW p \in Proc, NEW l \in Lock, dir[l] = None, LeaveBehind(p, l), owned' = owned
  PROVE  Service!Next
  <1>1. Service!GrantLost(p, l)
    BY DEF LeaveBehind, Service!GrantLost
  <1> QED BY <1>1 DEF Service!Next

\* A failed poll reclaims an abandoned lock or changes nothing.
LEMMA PollMissesReclaims ==
  ASSUME IInv, Timely, NEW p \in Proc, PollMisses(p)
  PROVE  Service!Next \/ UNCHANGED <<owned, dir>>
  <1> DEFINE l == Top(p)
  <1>1. pc[p] = "poll" /\ Waiting(p) /\ Poke(l) /\ owned' = owned
    BY DEF PollMisses, Waiting
  <1>2. TypeOK /\ Registry(p) /\ l \in Lock /\ Cluster(l)
    BY <1>1, Whereabouts, Tops DEF Waiting, Registry
  <1>3. CASE Stale(l) /\ dir[l] # None
    <2>1. dir[l] \in Proc
      BY <1>2, <1>3 DEF TypeOK
    <2>2. l \notin owned[dir[l]]
      BY <1>2, <1>3, <2>1, NotStale
    <2>3. Service!Reclaim(l)
      BY <1>1, <1>3, <2>2 DEF Service!Reclaim, Service!Abandoned, Poke
    <2> QED BY <1>2, <2>3 DEF Service!Next
  <1>4. CASE ~(Stale(l) /\ dir[l] # None)
    <2>1. dir' = dir
      BY <1>1, <1>2, <1>4 DEF Poke, TypeOK
    <2> QED BY <1>1, <2>1
  <1> QED BY <1>3, <1>4

\* Leaving a section releases the lock, or changes nothing after a failed wait.
LEMMA LeaveReleases ==
  ASSUME IInv, NEW p \in Proc, LeaveSection(p)
  PROVE  Service!Next \/ UNCHANGED <<owned, dir>>
  <1> DEFINE l == Top(p)
  <1>1. /\ owned' = [owned EXCEPT ![p] = @ \ {l}] /\ Divest(p, l)
    BY DEF LeaveSection
  <1>2. TypeOK /\ l \in Lock
    BY Whereabouts, Tops DEF LeaveSection
  <1>3. CASE l \in owned[p]
    <2>1. Service!Release(p, l)
      BY <1>1, <1>3 DEF Service!Release, Divest
    <2> QED BY <1>2, <2>1 DEF Service!Next
  <1>4. CASE l \notin owned[p]
    <2>1. owned[p] \ {l} = owned[p]
      BY <1>4
    <2>2. owned' = owned
      BY <1>1, <1>2, <2>1 DEF TypeOK
    <2> QED BY <1>1, <1>4, <2>2 DEF Divest
  <1> QED BY <1>3, <1>4

\* A crash frees the flocks of the process and leaves its directories behind.
LEMMA CrashDies ==
  ASSUME IInv, NEW p \in Proc, Crash(p)
  PROVE  Service!Next
  <1> DEFINE freed == {l \in owned[p] : ~Cluster(l)}
  <1>1. TypeOK
    BY DEF IInv
  <1>2. freed \in SUBSET owned[p] /\ owned' = [owned EXCEPT ![p] = {}]
    BY DEF Crash
  <1>3. dir' = [l \in Lock |-> IF l \in freed THEN None ELSE dir[l]]
    BY DEF Crash
  <1>4. Service!Die(p)
    BY <1>2, <1>3 DEF Service!Die
  <1> QED BY <1>4 DEF Service!Next

\* While the holders are timely, every step of the lock primitive is a step of the
\* service, or none.
LEMMA StepRefines ==
  IInv /\ Timely /\ [Next]_vars => [Service!Next]_(Service!vars)
  <1> SUFFICES ASSUME IInv, Timely, [Next]_vars
               PROVE  Service!Next \/ UNCHANGED <<owned, dir>>
    BY DEF Service!vars
  <1>1. CASE Tick \/ UNCHANGED vars
    BY <1>1 DEF Tick, vars
  <1>2. ASSUME NEW p \in Proc, NEW l \in Lock, CallLock(p, l)
        PROVE  UNCHANGED <<owned, dir>>
    BY <1>2 DEF CallLock
  <1>3. ASSUME NEW p \in Proc, PollAcquires(p) \/ FlockAcquires(p)
        PROVE  Service!Next
    BY <1>3, EnterGrants DEF PollAcquires, FlockAcquires, Waiting
  <1>4. ASSUME NEW p \in Proc, PollAcquiresThenDies(p) \/ PollTimesOut(p)
        PROVE  Service!Next \/ UNCHANGED <<owned, dir>>
    <2>1. held[p] # <<>> /\ Top(p) \in Lock
      BY <1>4, Whereabouts, Tops DEF PollAcquiresThenDies, PollTimesOut
    <2> QED BY <1>4, <2>1, LeaveBehindIsLost DEF PollAcquiresThenDies, PollTimesOut
  <1>5. ASSUME NEW p \in Proc,
               \/ Wake(p) \/ FlockTimesOut(p) \/ WaitBreaks(p) \/ Cooperate(p)
               \/ StartRun(p) \/ EndRun(p) \/ EndLeafRun(p) \/ EndBody(p) \/ AlarmFires(p)
        PROVE  UNCHANGED <<owned, dir>>
    BY <1>5 DEF Wake, FlockTimesOut, WaitBreaks, Cooperate, StartRun, EndRun,
                EndLeafRun, EndBody, AlarmFires
  <1>6. ASSUME NEW p \in Proc, PollMisses(p) \/ LeaveSection(p) \/ Crash(p)
        PROVE  Service!Next \/ UNCHANGED <<owned, dir>>
    BY <1>6, PollMissesReclaims, LeaveReleases, CrashDies
  <1> QED BY <1>1, <1>2, <1>3, <1>4, <1>5, <1>6 DEF Next

\* The lock primitive implements the service for as long as the holders are timely:
\* only locks with nobody inside are reclaimed, and only free ones are granted,
\* whatever waits, dies or fails.
THEOREM Refinement == Spec /\ []Timely => ImplementsService
  <1>1. Init => Service!Init
    BY DEF Init, Service!Init
  <1>2. IInv /\ Timely /\ [Next]_vars => [Service!Next]_(Service!vars)
    BY StepRefines
  <1> QED BY <1>1, <1>2, Invariance, PTL DEF Spec, ImplementsService, Service!Spec

-----------------------------------------------------------------------------
(* The fatal marker.                                                       *)

OverrunIsFatal ==
  \A p \in Proc : overran[p] => pc[p] = "leave" /\ err[p] = "fatal"

\* Without quorum loss no step drops the fatal class of an overrun.
LEMMA OverrunInductive ==
  ASSUME QuorumLoss = FALSE
  PROVE  IInv /\ OverrunIsFatal /\ [Next]_vars => OverrunIsFatal'
  <1> SUFFICES ASSUME IInv, OverrunIsFatal, [Next]_vars,
                      NEW q \in Proc, overran'[q]
               PROVE  pc'[q] = "leave" /\ err'[q] = "fatal"
    BY DEF OverrunIsFatal
  <1>1. TypeOK
    BY DEF IInv
  <1>2. overran[q] => pc[q] = "leave" /\ err[q] = "fatal"
    BY DEF OverrunIsFatal
  <1>3. CASE Tick \/ UNCHANGED vars
    BY <1>1, <1>2, <1>3 DEF Tick, vars, TypeOK
  <1>4. ASSUME NEW p \in Proc, NEW l \in Lock, CallLock(p, l)
        PROVE  pc'[q] = "leave" /\ err'[q] = "fatal"
    BY <1>1, <1>2, <1>4 DEF CallLock, RefreshDies, RefreshLives, Raise, Goto, TypeOK
  <1>5. ASSUME NEW p \in Proc, PollAcquires(p) \/ FlockAcquires(p)
        PROVE  pc'[q] = "leave" /\ err'[q] = "fatal"
    BY <1>1, <1>2, <1>5 DEF PollAcquires, FlockAcquires, Enter, Raise, Goto, TypeOK
  <1>6. ASSUME NEW p \in Proc, PollMisses(p)
        PROVE  pc'[q] = "leave" /\ err'[q] = "fatal"
    BY <1>1, <1>2, <1>6 DEF PollMisses, FailWait, Raise, Goto, TypeOK
  <1>7. ASSUME NEW p \in Proc,
               \/ PollAcquiresThenDies(p) \/ Wake(p) \/ PollTimesOut(p)
               \/ FlockTimesOut(p) \/ WaitBreaks(p)
        PROVE  pc'[q] = "leave" /\ err'[q] = "fatal"
    BY <1>1, <1>2, <1>7 DEF PollAcquiresThenDies, Wake, PollTimesOut, FlockTimesOut,
       WaitBreaks, FailWait, Raise, Goto, TypeOK
  <1>8. ASSUME NEW p \in Proc,
               \/ Cooperate(p) \/ StartRun(p) \/ EndRun(p) \/ EndLeafRun(p)
               \/ EndBody(p) \/ AlarmFires(p)
        PROVE  pc'[q] = "leave" /\ err'[q] = "fatal"
    BY <1>1, <1>2, <1>8 DEF Cooperate, RefreshDies, RefreshLives, StartRun, EndRun,
       EndLeafRun, EndBody, AlarmFires, Raise, Goto, TypeOK
  <1>9. ASSUME NEW p \in Proc, LeaveSection(p)
        PROVE  pc'[q] = "leave" /\ err'[q] = "fatal"
    <2> DEFINE dies == Top(p) \in owned[p] /\ AnyOverdue(p)
               e == IF dies THEN "fatal" ELSE err[p]
    <2>1. Resume(p, e)
      BY <1>9 DEF LeaveSection
    <2>2. overran' = [overran EXCEPT ![p] =
                        (@ \/ dies) /\ Len(held[p]) > 1 /\ pc'[p] = "leave"]
      BY <1>9 DEF LeaveSection
    <2>3. CASE q = p
      <3>1. (overran[p] \/ dies) /\ pc'[p] = "leave"
        BY <1>1, <2>2, <2>3 DEF TypeOK
      <3>2. e = "fatal"
        BY <1>2, <2>3, <3>1
      <3>3. Raise(p, e)
        BY <1>1, <2>1, <3>1 DEF Resume, Goto, TypeOK
      <3> QED BY <1>1, <2>3, <3>1, <3>2, <3>3 DEF Raise, TypeOK
    <2>4. CASE q # p
      <3>1. overran[q]
        BY <1>1, <2>2, <2>4 DEF TypeOK
      <3> QED BY <1>1, <1>2, <2>1, <2>4, <3>1 DEF Resume, Raise, Goto, TypeOK
    <2> QED BY <2>3, <2>4
  <1>10. ASSUME NEW p \in Proc, Crash(p)
         PROVE  pc'[q] = "leave" /\ err'[q] = "fatal"
    BY <1>1, <1>2, <1>10 DEF Crash, TypeOK
  <1> QED BY <1>3, <1>4, <1>5, <1>6, <1>7, <1>8, <1>9, <1>10 DEF Next

\* As long as no process loses quorum while it waits, a hold-cap overrun stays
\* recognisable as fatal in every frame it unwinds through.
THEOREM FatalStaysFatal ==
  ASSUME QuorumLoss = FALSE
  PROVE  Spec => []FatalSurvives
  <1>1. Init => OverrunIsFatal
    BY DEF Init, OverrunIsFatal
  <1>2. IInv /\ OverrunIsFatal /\ [Next]_vars => OverrunIsFatal'
    BY OverrunInductive
  <1>3. OverrunIsFatal => FatalSurvives
    BY DEF OverrunIsFatal, FatalSurvives
  <1> QED BY <1>1, <1>2, <1>3, Invariance, PTL DEF Spec

-----------------------------------------------------------------------------
(* The hold caps of the component locks.                                   *)

\* A component run is given less time than its lock has left to the deadline;
\* when the run is over, so is the reach of the deadline.
RunFits ==
  \A p \in Proc :
     /\ LeafRun(p) /\ MaxHold[Top(p)] > 0 => timer[p] < left[p][Top(p)]
     /\ pc[p] = "leave" /\ Top(p) \in Leaf => ~Overdue(p, Top(p))

\* Both clocks of a component run start with the ownership of its lock.
LEMMA EnterFits ==
  ASSUME \A l \in Leaf : MaxHold[l] > 0 => RunMax[l] <= MaxHold[l],
         TypeOK, NEW p \in Proc, held[p] # <<>>, Enter(p, Top(p))
  PROVE  /\ LeafRun(p)' /\ MaxHold[Top(p)'] > 0 => timer'[p] < left'[p][Top(p)']
         /\ ~Overdue(p, Top(p))'
  <1> DEFINE l == Top(p)
  <1>1. l \in Lock /\ held' = held /\ Top(p)' = l
    BY Tops DEF Enter, Top
  <1>2. /\ left'[p][l] = MaxHold[l] + 1 /\ MaxHold[l] \in Nat
        /\ l \in Leaf => RunMax[l] \in Nat
    BY <1>1, Timings DEF Enter, TypeOK, HoldTicks
  <1>3. ~Overdue(p, l)'
    BY <1>1, <1>2 DEF Overdue
  <1>4. ASSUME pc'[p] = "run", l \in Leaf, MaxHold[l] > 0 PROVE timer'[p] < left'[p][l]
    <2>1. CASE AnyOverdue(p)
      BY <1>4, <2>1 DEF Enter, Raise, Goto, TypeOK
    <2>2. CASE ~AnyOverdue(p)
      <3>1. timer' = [timer EXCEPT ![p] = IF l \in Leaf THEN RunMax[l] ELSE 0]
        BY <2>2 DEF Enter
      <3>2. timer'[p] = RunMax[l]
        BY <1>4, <3>1 DEF TypeOK
      <3> QED BY <1>2, <1>4, <3>2
    <2> QED BY <2>1, <2>2
  <1> QED BY <1>1, <1>3, <1>4 DEF LeafRun

LEMMA RunFitsInductive ==
  ASSUME \A l \in Leaf : MaxHold[l] > 0 => RunMax[l] <= MaxHold[l],
         IInv, RunFits, [Next]_vars
  PROVE  RunFits'
  <1>1. TypeOK
    BY DEF IInv
  <1>2. ASSUME NEW q \in Proc, NEW p \in Proc, q # p,
               held'[q] = held[q], owned'[q] = owned[q], left'[q] = left[q],
               pc'[q] = pc[q], timer'[q] = timer[q]
        PROVE  /\ LeafRun(q)' /\ MaxHold[Top(q)'] > 0 => timer'[q] < left'[q][Top(q)']
               /\ pc'[q] = "leave" /\ Top(q)' \in Leaf => ~Overdue(q, Top(q))'
    BY <1>2 DEF RunFits, LeafRun, Top, Overdue
  <1> SUFFICES ASSUME NEW q \in Proc
               PROVE  /\ LeafRun(q)' /\ MaxHold[Top(q)'] > 0 => timer'[q] < left'[q][Top(q)']
                      /\ pc'[q] = "leave" /\ Top(q)' \in Leaf => ~Overdue(q, Top(q))'
    BY DEF RunFits
  <1>3. /\ LeafRun(q) /\ MaxHold[Top(q)] > 0 => timer[q] < left[q][Top(q)]
        /\ pc[q] = "leave" /\ Top(q) \in Leaf => ~Overdue(q, Top(q))
    BY DEF RunFits
  <1>4. CASE UNCHANGED vars
    BY <1>3, <1>4 DEF vars, LeafRun, Top, Overdue
  <1>5. CASE Tick
    <2>1. held' = held /\ owned' = owned /\ Top(q)' = Top(q)
      BY <1>5 DEF Tick, Top
    <2>2. CASE LeafRun(q) /\ MaxHold[Top(q)] > 0
      <3>1. timer[q] \in Nat \ {0} /\ timer[q] < left[q][Top(q)]
        BY <1>1, <1>3, <1>5, <2>2 DEF Tick, Due, LeafRun, TypeOK
      <3>2. Top(q) \in owned[q] /\ Top(q) \in Lock /\ left[q][Top(q)] \in Nat
        BY <1>1, <2>2, Whereabouts, Tops DEF LeafRun, Registry, TypeOK
      <3>3. left'[q][Top(q)] = left[q][Top(q)] - 1 /\ timer'[q] = timer[q] - 1
        BY <1>5, <2>2, <3>1, <3>2 DEF Tick, Less, Remaining, Suspended, LeafRun
      <3>4. pc'[q] = "run"
        BY <1>1, <1>5, <2>2 DEF Tick, LeafRun
      <3> QED BY <2>1, <3>1, <3>2, <3>3, <3>4
    <2>3. CASE ~(LeafRun(q) /\ MaxHold[Top(q)] > 0)
      <3>1. pc'[q] = "run" => pc[q] = "run"
        BY <1>5 DEF Tick
      <3>2. pc'[q] # "leave"
        BY <1>5 DEF Tick, Due
      <3> QED BY <2>1, <2>3, <3>1, <3>2 DEF LeafRun
    <2> QED BY <2>2, <2>3
  <1>6. ASSUME NEW p \in Proc, NEW l \in Lock, CallLock(p, l)
        PROVE  /\ LeafRun(q)' /\ MaxHold[Top(q)'] > 0 => timer'[q] < left'[q][Top(q)']
               /\ pc'[q] = "leave" /\ Top(q)' \in Leaf => ~Overdue(q, Top(q))'
    <2>1. CASE q # p
      BY <1>1, <1>2, <1>6, <2>1 DEF CallLock, Raise, Goto, TypeOK
    <2>2. CASE q = p
      <3>1. held'[p] = Append(held[p], l) /\ held[p] \in Seq(Lock) /\ owned' = owned
        BY <1>1, <1>6 DEF CallLock, TypeOK
      <3>2. Top(p)' = l
        BY <3>1 DEF Top
      <3>3. l \notin owned[p]
        BY <1>6, Whereabouts DEF CallLock, Registry
      <3>4. pc'[p] # "run"
        BY <1>1, <1>6 DEF CallLock, Raise, Goto, TypeOK
      <3> QED BY <2>2, <3>1, <3>2, <3>3, <3>4 DEF LeafRun, Overdue
    <2> QED BY <2>1, <2>2
  <1>7. ASSUME NEW p \in Proc, PollAcquires(p) \/ FlockAcquires(p)
        PROVE  /\ LeafRun(q)' /\ MaxHold[Top(q)'] > 0 => timer'[q] < left'[q][Top(q)']
               /\ pc'[q] = "leave" /\ Top(q)' \in Leaf => ~Overdue(q, Top(q))'
    <2>1. Enter(p, Top(p)) /\ held[p] # <<>>
      BY <1>7, Whereabouts DEF PollAcquires, FlockAcquires, Registry
    <2>2. CASE q = p
      BY <1>1, <2>1, <2>2, EnterFits
    <2>3. CASE q # p
      <3>1. /\ held'[q] = held[q] /\ owned'[q] = owned[q] /\ left'[q] = left[q]
            /\ pc'[q] = pc[q] /\ timer'[q] = timer[q]
        BY <1>1, <2>1, <2>3 DEF Enter, Raise, Goto, TypeOK
      <3> QED BY <1>2, <2>3, <3>1
    <2> QED BY <2>2, <2>3
  <1>8. ASSUME NEW p \in Proc,
               \/ PollAcquiresThenDies(p) \/ PollMisses(p) \/ Wake(p) \/ PollTimesOut(p)
               \/ FlockTimesOut(p) \/ WaitBreaks(p)
        PROVE  /\ LeafRun(q)' /\ MaxHold[Top(q)'] > 0 => timer'[q] < left'[q][Top(q)']
               /\ pc'[q] = "leave" /\ Top(q)' \in Leaf => ~Overdue(q, Top(q))'
    <2>1. held' = held /\ owned' = owned /\ left' = left /\ Waiting(p)
      BY <1>8 DEF PollAcquiresThenDies, PollMisses, Wake, PollTimesOut, FlockTimesOut, WaitBreaks, Waiting
    <2>2. timer' = timer /\ \A r \in Proc \ {p} : pc'[r] = pc[r]
      BY <1>1, <1>8 DEF PollAcquiresThenDies, PollMisses, Wake, PollTimesOut, FlockTimesOut,
         WaitBreaks, FailWait, Raise, Goto, TypeOK
    <2>3. pc'[p] # "run"
      BY <1>1, <1>8 DEF PollAcquiresThenDies, PollMisses, Wake, PollTimesOut, FlockTimesOut,
         WaitBreaks, FailWait, Raise, Goto, TypeOK
    <2>4. CASE q = p
      <3>1. Top(p) \notin owned[p]
        BY <2>1, Whereabouts DEF Registry
      <3> QED BY <2>1, <2>3, <2>4, <3>1 DEF LeafRun, Overdue, Top
    <2>5. CASE q # p
      BY <1>2, <2>1, <2>2, <2>5
    <2> QED BY <2>4, <2>5
  <1>9. ASSUME NEW p \in Proc,
               \/ Cooperate(p) \/ StartRun(p) \/ EndRun(p) \/ EndBody(p) \/ AlarmFires(p)
        PROVE  /\ LeafRun(q)' /\ MaxHold[Top(q)'] > 0 => timer'[q] < left'[q][Top(q)']
               /\ pc'[q] = "leave" /\ Top(q)' \in Leaf => ~Overdue(q, Top(q))'
    <2>1. held' = held /\ owned' = owned /\ left' = left
      BY <1>9 DEF Cooperate, StartRun, EndRun, EndBody, AlarmFires
    <2>2. /\ \A r \in Proc \ {p} : pc'[r] = pc[r] /\ timer'[r] = timer[r]
          /\ held[p] # <<>> => Top(p) \notin Leaf
      <3>1. \A r \in Proc \ {p} : pc'[r] = pc[r] /\ timer'[r] = timer[r]
        BY <1>1, <1>9 DEF Cooperate, RefreshDies, RefreshLives, StartRun, EndRun, EndBody, AlarmFires, Raise, Goto, TypeOK
      <3>2. held[p] # <<>> => Top(p) \notin Leaf
        BY <1>9, Whereabouts DEF Cooperate, StartRun, EndRun, EndBody, AlarmFires, Registry
      <3> QED BY <3>1, <3>2
    <2>3. CASE q = p
      <3>1. held[p] # <<>>
        BY <1>9, Whereabouts DEF Cooperate, StartRun, EndRun, EndBody, AlarmFires, Registry, AlarmArmed
      <3> QED BY <2>1, <2>2, <2>3, <3>1 DEF LeafRun, Top
    <2>4. CASE q # p
      BY <1>2, <2>1, <2>2, <2>4
    <2> QED BY <2>3, <2>4
  <1>10. ASSUME NEW p \in Proc, EndLeafRun(p)
         PROVE  /\ LeafRun(q)' /\ MaxHold[Top(q)'] > 0 => timer'[q] < left'[q][Top(q)']
                /\ pc'[q] = "leave" /\ Top(q)' \in Leaf => ~Overdue(q, Top(q))'
    <2>1. held' = held /\ owned' = owned /\ left' = left /\ timer' = timer /\ LeafRun(p)
      BY <1>10 DEF EndLeafRun, LeafRun
    <2>2. pc' = [pc EXCEPT ![p] = "leave"]
      BY <1>10 DEF EndLeafRun, Raise, Goto
    <2>3. CASE q = p
      <3>1. ~Overdue(p, Top(p))
        BY <1>1, <1>3, <2>1, <2>3, Timings DEF Overdue, TypeOK
      <3>2. ~Overdue(p, Top(p))'
        BY <2>1, <3>1 DEF Overdue, Top
      <3> QED BY <1>1, <2>2, <2>3, <3>2 DEF LeafRun, TypeOK
    <2>4. CASE q # p
      BY <1>1, <1>2, <2>1, <2>2, <2>4 DEF TypeOK
    <2> QED BY <2>3, <2>4
  <1>11. ASSUME NEW p \in Proc, LeaveSection(p)
         PROVE  /\ LeafRun(q)' /\ MaxHold[Top(q)'] > 0 => timer'[q] < left'[q][Top(q)']
                /\ pc'[q] = "leave" /\ Top(q)' \in Leaf => ~Overdue(q, Top(q))'
    <2>1. /\ held' = [held EXCEPT ![p] = Below(p)] /\ owned' = [owned EXCEPT ![p] = @ \ {Top(p)}]
          /\ timer' = [timer EXCEPT ![p] = 0] /\ left' = [left EXCEPT ![p][Top(p)] = 0]
      BY <1>11 DEF LeaveSection
    <2>2. /\ \A r \in Proc \ {p} : pc'[r] = pc[r]
          /\ pc'[p] # "run"
          /\ pc'[p] = "leave" => Len(held[p]) > 1
      <3> DEFINE e == IF Top(p) \in owned[p] /\ AnyOverdue(p) THEN "fatal" ELSE err[p]
      <3>1. Resume(p, e)
        BY <1>11 DEF LeaveSection
      <3>2. Len(held[p]) \in Nat \ {0}
        BY <1>1, <1>11, Whereabouts, Tops DEF LeaveSection, Registry
      <3> HIDE DEF e
      <3>3. CASE Len(held[p]) = 1 \/ e = "none"
        BY <1>1, <3>1, <3>3 DEF Resume, Goto, TypeOK
      <3>4. CASE ~(Len(held[p]) = 1 \/ e = "none")
        <4>1. Goto(p, "leave") \/ Goto(p, "body")
          BY <3>1, <3>4 DEF Resume, Raise
        <4>2. Len(held[p]) # 1
          BY <3>4
        <4>3. Len(held[p]) > 1
          <5>1. \A n \in Nat \ {0} : n # 1 => n > 1
            OBVIOUS
          <5> QED BY <3>2, <4>2, <5>1
        <4>4. (\A r \in Proc \ {p} : pc'[r] = pc[r]) /\ pc'[p] # "run"
          BY <1>1, <4>1 DEF Goto, TypeOK
        <4> QED BY <4>3, <4>4
      <3> QED BY <3>3, <3>4
    <2>3. CASE q = p
      <3>1. held[p] # <<>> /\ Registry(p)
        BY <1>11, Whereabouts DEF LeaveSection, Registry
      <3>2. ASSUME pc'[p] = "leave" PROVE Top(p)' \notin Leaf
        <4>1. /\ Len(Below(p)) = Len(held[p]) - 1 /\ Len(held[p]) \in Nat /\ Len(held[p]) > 1
              /\ \A i \in 1..Len(Below(p)) : Below(p)[i] = held[p][i]
          BY <1>1, <2>2, <3>1, <3>2, Tops
        <4>2. Top(p)' = held[p][Len(held[p]) - 1]
          <5>1. Top(p)' = Below(p)[Len(Below(p))]
            BY <1>1, <2>1 DEF Top, TypeOK
          <5>2. Len(Below(p)) \in 1..Len(Below(p))
            BY <4>1
          <5> QED BY <4>1, <5>1, <5>2
        <4>3. Len(held[p]) - 1 \in 1..Len(held[p]) /\ Len(held[p]) - 1 < Len(held[p])
          BY <4>1
        <4> QED BY <3>1, <4>2, <4>3 DEF Registry
      <3> QED BY <2>2, <2>3, <3>2 DEF LeafRun
    <2>4. CASE q # p
      <3>1. /\ held'[q] = held[q] /\ owned'[q] = owned[q] /\ left'[q] = left[q]
            /\ pc'[q] = pc[q] /\ timer'[q] = timer[q]
        BY <1>1, <2>1, <2>2, <2>4 DEF TypeOK
      <3> QED BY <1>2, <2>4, <3>1
    <2> QED BY <2>3, <2>4
  <1>12. ASSUME NEW p \in Proc, Crash(p)
         PROVE  /\ LeafRun(q)' /\ MaxHold[Top(q)'] > 0 => timer'[q] < left'[q][Top(q)']
                /\ pc'[q] = "leave" /\ Top(q)' \in Leaf => ~Overdue(q, Top(q))'
    <2>1. CASE q = p
      BY <1>1, <1>12, <2>1 DEF Crash, LeafRun, TypeOK
    <2>2. CASE q # p
      BY <1>1, <1>2, <1>12, <2>2 DEF Crash, TypeOK
    <2> QED BY <2>1, <2>2
  <1> QED BY <1>4, <1>5, <1>6, <1>7, <1>8, <1>9, <1>10, <1>11, <1>12 DEF Next

\* A component run of maximal length is never failed by the hold cap of its own
\* lock, however long its process waited for it (cap above the kill of run_command).
THEOREM MaximalRunsSurvive ==
  ASSUME \A l \in Leaf : MaxHold[l] > 0 => RunMax[l] <= MaxHold[l]
  PROVE  Spec => []MaximalRunSurvives
  <1>1. Init => RunFits
    BY DEF Init, RunFits, LeafRun
  <1>2. IInv /\ RunFits /\ [Next]_vars => RunFits'
    BY RunFitsInductive
  <1>3. RunFits => MaximalRunSurvives
    BY DEF RunFits, MaximalRunSurvives
  <1> QED BY <1>1, <1>2, <1>3, Invariance, PTL DEF Spec
-----------------------------------------------------------------------------
(* A set of numbers with an upper bound has a greatest element.            *)

LEMMA Smallest ==
  ASSUME NEW T \in SUBSET Nat, T # {}
  PROVE  \E x \in T : \A y \in T : x <= y
  <1>1. PICK x \in T : \A y \in T : <<y, x>> \notin OpToRel(<, Nat)
    BY NatLessThanWellFounded, WFMin
  <1>2. \A y \in T : ~(y < x)
    BY <1>1 DEF OpToRel
  <1> QED BY <1>2

LEMMA Greatest ==
  ASSUME NEW top \in Nat, NEW T \in SUBSET (0..top), T # {}
  PROVE  \E x \in T : \A y \in T : y <= x
  <1> DEFINE D == {top - x : x \in T}
  <1>1. D \in SUBSET Nat /\ D # {}
    <2>1. PICK x \in T : TRUE
      OBVIOUS
    <2>2. top - x \in D
      OBVIOUS
    <2>3. \A y \in T : top - y \in Nat
      OBVIOUS
    <2> QED BY <2>2, <2>3
  <1>2. PICK d \in D : \A y \in D : d <= y
    BY <1>1, Smallest
  <1>3. PICK x \in T : d = top - x
    OBVIOUS
  <1>4. ASSUME NEW y \in T PROVE y <= x
    <2>1. d <= top - y
      BY <1>2
    <2>2. top - x <= top - y
      BY <1>3, <2>1
    <2> HIDE DEF D
    <2>3. x \in Nat /\ y \in Nat
      OBVIOUS
    <2> QED BY <2>2, <2>3
  <1> QED BY <1>4

-----------------------------------------------------------------------------
(* The order of the locks.                                                 *)

\* Every nest takes its locks in ascending order of their ranks, 0..top.
Ordered(rank, top) ==
  /\ rank \in [Lock -> 0..top]
  /\ \A p \in Proc : \A nest \in Plan[p] : \A i, j \in 1..Len(nest) :
        i < j => rank[nest[i]] < rank[nest[j]]

\* So does the registry of every process.
Ascending(rank) ==
  \A p \in Proc : \A i, j \in 1..Len(held[p]) :
     i < j => rank[held[p][i]] < rank[held[p][j]]

\* A call stays in one of the nests of the process, every other step keeps its
\* registry, or shortens it.
LEMMA AscendingInductive ==
  ASSUME NEW rank, NEW top \in Nat, Ordered(rank, top), IInv, Ascending(rank), [Next]_vars
  PROVE  Ascending(rank)'
  <1>1. TypeOK
    BY DEF IInv
  <1>2. ASSUME held' = held PROVE Ascending(rank)'
    BY <1>2 DEF Ascending
  <1>3. ASSUME NEW p \in Proc, NEW l \in Lock, CallLock(p, l) PROVE Ascending(rank)'
    <2> DEFINE h == held[p]
               g == Append(h, l)
    <2>1. h \in Seq(Lock) /\ held' = [held EXCEPT ![p] = g] /\ Len(h) \in Nat
      BY <1>1, <1>3 DEF CallLock, TypeOK
    <2>2. PICK nest \in Plan[p] : Len(h) < Len(nest) /\ SubSeq(nest, 1, Len(h) + 1) = g
      BY <1>3 DEF CallLock, MayNest
    <2>3. nest \in Seq(Lock) /\ Len(nest) \in Nat
      BY Nests
    <2>4. /\ Len(g) = Len(h) + 1 /\ Len(g) <= Len(nest)
          /\ \A i \in 1..Len(g) : g[i] = nest[i]
      <3> DEFINE n == Len(h) + 1
      <3>1. Len(g) = n
        BY <2>1
      <3>2. n \in 1..Len(nest)
        BY <2>1, <2>2, <2>3
      <3> HIDE DEF g, n
      <3>3. \A i \in 1..n : SubSeq(nest, 1, n)[i] = nest[i]
        BY <2>3, <3>2
      <3>4. SubSeq(nest, 1, n) = g
        BY <2>2 DEF n
      <3>5. \A i \in 1..Len(g) : g[i] = nest[i]
        BY <3>1, <3>3, <3>4
      <3> QED BY <2>3, <3>1, <3>2, <3>5 DEF n
    <2> HIDE DEF g
    <2>5. ASSUME NEW i \in 1..Len(g), NEW j \in 1..Len(g), i < j
          PROVE  rank[g[i]] < rank[g[j]]
      <3>1. i \in 1..Len(nest) /\ j \in 1..Len(nest) /\ g[i] = nest[i] /\ g[j] = nest[j]
        BY <2>1, <2>3, <2>4
      <3>2. rank[nest[i]] < rank[nest[j]]
        BY <2>5, <3>1 DEF Ordered
      <3> QED BY <3>1, <3>2
    <2> QED BY <1>1, <2>1, <2>5 DEF Ascending, TypeOK
  <1>4. ASSUME NEW p \in Proc, LeaveSection(p) PROVE Ascending(rank)'
    <2>1. held[p] # <<>>
      BY <1>4, Whereabouts DEF LeaveSection, Registry
    <2>2. held' = [held EXCEPT ![p] = Below(p)]
      BY <1>4 DEF LeaveSection
    <2>3. /\ Len(Below(p)) = Len(held[p]) - 1 /\ Len(held[p]) \in Nat
          /\ \A i \in 1..Len(Below(p)) : Below(p)[i] = held[p][i]
      BY <1>1, <2>1, Tops
    <2>4. ASSUME NEW i \in 1..Len(Below(p)), NEW j \in 1..Len(Below(p)), i < j
          PROVE  rank[Below(p)[i]] < rank[Below(p)[j]]
      <3>1. i \in 1..Len(held[p]) /\ j \in 1..Len(held[p])
        BY <2>3
      <3>2. rank[held[p][i]] < rank[held[p][j]]
        BY <2>4, <3>1 DEF Ascending
      <3> QED BY <2>3, <3>2
    <2> QED BY <1>1, <2>2, <2>4 DEF Ascending, TypeOK
  <1>5. ASSUME NEW p \in Proc, Crash(p) PROVE Ascending(rank)'
    <2>1. held' = [held EXCEPT ![p] = <<>>] /\ Len(<<>>) = 0
      BY <1>5 DEF Crash
    <2>2. ASSUME NEW q \in Proc PROVE held'[q] = held[q] \/ held'[q] = <<>>
      BY <1>1, <2>1 DEF TypeOK
    <2>3. ASSUME NEW q \in Proc, NEW i \in 1..Len(held'[q]), NEW j \in 1..Len(held'[q]), i < j
          PROVE  rank[held'[q][i]] < rank[held'[q][j]]
      <3>1. held'[q] # <<>>
        BY <2>1, <2>3
      <3>2. held'[q] = held[q]
        BY <2>2, <3>1
      <3> QED BY <2>3, <3>2 DEF Ascending
    <2> QED BY <2>3 DEF Ascending
  <1>6. CASE Tick \/ UNCHANGED vars
    BY <1>2, <1>6 DEF Tick, vars
  <1>7. ASSUME NEW p \in Proc,
               \/ PollAcquires(p) \/ PollAcquiresThenDies(p) \/ PollMisses(p) \/ Wake(p)
               \/ PollTimesOut(p) \/ FlockAcquires(p) \/ FlockTimesOut(p) \/ WaitBreaks(p)
               \/ Cooperate(p) \/ StartRun(p) \/ EndRun(p) \/ EndLeafRun(p)
               \/ EndBody(p) \/ AlarmFires(p)
        PROVE  Ascending(rank)'
    BY <1>2, <1>7 DEF PollAcquires, PollAcquiresThenDies, PollMisses, Wake, PollTimesOut,
       FlockAcquires, FlockTimesOut, WaitBreaks, Cooperate, StartRun, EndRun, EndLeafRun,
       EndBody, AlarmFires, Enter
  <1> QED BY <1>3, <1>4, <1>5, <1>6, <1>7 DEF Next

\* The lock that a process waits for ranks above all it owns, so among processes
\* that wait for each other's locks nobody waits for the highest one.
LEMMA NobodyWaitsForTheLast ==
  ASSUME NEW rank, NEW top \in Nat, Ordered(rank, top), IInv, Ascending(rank)
  PROVE  NoWaitCycle
  <1> SUFFICES ASSUME NEW S \in (SUBSET Proc) \ {{}},
                      \A p \in S : Waiting(p) /\ \E q \in S \ {p} : Top(p) \in owned[q]
               PROVE  FALSE
    BY DEF NoWaitCycle, Waiting
  <1>1. ASSUME NEW p \in S
        PROVE  /\ Top(p) \in Lock /\ rank[Top(p)] \in 0..top
               /\ \A l \in owned[p] : rank[l] < rank[Top(p)]
    <2>1. TypeOK /\ Registry(p) /\ Waiting(p) /\ held[p] # <<>>
      BY Whereabouts DEF Registry, Waiting
    <2>2. Top(p) \in Lock /\ Len(held[p]) \in Nat \ {0}
      BY <2>1, Tops
    <2>3. ASSUME NEW l \in owned[p] PROVE rank[l] < rank[Top(p)]
      <3>1. PICK i \in 1..Len(held[p]) : held[p][i] = l
        BY <2>1 DEF Registry
      <3>2. i # Len(held[p])
        BY <2>1, <3>1 DEF Registry, Top
      <3> QED BY <2>2, <3>1, <3>2 DEF Ascending, Top
    <2> QED BY <2>2, <2>3 DEF Ordered
  <1> DEFINE T == {rank[Top(p)] : p \in S}
  <1>2. T \in SUBSET (0..top) /\ T # {}
    <2>1. S # {}
      OBVIOUS
    <2>2. \A q \in S : rank[Top(q)] \in 0..top
      BY <1>1
    <2> QED BY <2>1, <2>2
  <1>3. PICK x \in T : \A y \in T : y <= x
    BY <1>2, Greatest
  <1>4. PICK p \in S : x = rank[Top(p)]
    OBVIOUS
  <1>5. PICK q \in S \ {p} : Top(p) \in owned[q]
    OBVIOUS
  <1>6. rank[Top(p)] < rank[Top(q)] /\ rank[Top(q)] <= x
    BY <1>1, <1>3, <1>5
  <1> QED BY <1>1, <1>4, <1>6

\* No processes wait for each other, whatever fails, expires or dies, as long as
\* all of them take their locks in one order (the lock classes of Lock.pm).
THEOREM OrderPreventsWaitCycles ==
  ASSUME NEW rank, NEW top \in Nat, Ordered(rank, top)
  PROVE  Spec => []NoWaitCycle
  <1>1. Init => Ascending(rank)
    BY DEF Init, Ascending
  <1>2. IInv /\ Ascending(rank) /\ [Next]_vars => Ascending(rank)'
    BY AscendingInductive
  <1>3. IInv /\ Ascending(rank) => NoWaitCycle
    BY NobodyWaitsForTheLast
  <1> QED BY <1>1, <1>2, <1>3, Invariance, PTL DEF Spec

-----------------------------------------------------------------------------
(* The nests of the plugins have such an order: the storage lock, the vm   *)
(* locks by vmid, the component locks.                                     *)

VmIds(last) == 1..last

PluginLocks(last, nodes) ==
  {VmLock(v) : v \in VmIds(last)} \cup {StorageLock} \cup UNION {Components(n) : n \in nodes}

MethodNests(last) ==
  {NoNest} \cup {VolumeNest(v) : v \in 0..last} \cup {PairNest(v, w) : v, w \in VmIds(last)}

PluginPlan(last, nodes) ==
  UNION {Running(nest, UNION {Components(n) : n \in nodes}) : nest \in MethodNests(last)}

Place(l, last) == IF l[1] = "vm" THEN l[2] ELSE IF l[1] = "storage" THEN 0 ELSE last + 1

\* A nest of method locks in ascending order, with the component lock last.
LEMMA MethodNestsAscend ==
  ASSUME NEW last \in Nat, NEW nest \in MethodNests(last)
  PROVE  /\ Len(nest) \in 0..2 /\ nest \in Seq({VmLock(v) : v \in VmIds(last)} \cup {StorageLock})
         /\ \A i \in 1..Len(nest) : Place(nest[i], last) \in 0..last
         /\ Len(nest) = 2 => Place(nest[1], last) < Place(nest[2], last)
  <1> DEFINE M == {VmLock(v) : v \in VmIds(last)} \cup {StorageLock}
  <1>1. ASSUME NEW v \in VmIds(last)
        PROVE  VmLock(v) \in M /\ Place(VmLock(v), last) = v /\ v \in 0..last
    BY DEF VmIds, Place, VmLock
  <1>2. StorageLock \in M /\ Place(StorageLock, last) = 0
    BY DEF Place, StorageLock
  <1> HIDE DEF M
  <1>3. NoNest \in Seq(M) /\ Len(NoNest) = 0
    BY DEF NoNest
  <1>4. ASSUME NEW v \in 0..last, nest = VolumeNest(v)
        PROVE  /\ Len(nest) = 1 /\ nest \in Seq(M)
               /\ \A i \in 1..Len(nest) : Place(nest[i], last) \in 0..last
    <2>1. CASE v = 0
      <3>1. nest = <<StorageLock>>
        BY <1>4, <2>1 DEF VolumeNest
      <3> QED BY <1>2, <3>1
    <2>2. CASE v # 0
      <3>1. nest = <<VmLock(v)>> /\ v \in VmIds(last)
        BY <1>4, <2>2 DEF VolumeNest, VmIds
      <3> QED BY <1>1, <3>1
    <2> QED BY <2>1, <2>2
  <1>5. ASSUME NEW a \in VmIds(last), NEW b \in VmIds(last), a < b, nest = <<VmLock(a), VmLock(b)>>
        PROVE  /\ Len(nest) = 2 /\ nest \in Seq(M)
               /\ \A i \in 1..Len(nest) : Place(nest[i], last) \in 0..last
               /\ Place(nest[1], last) < Place(nest[2], last)
    BY <1>1, <1>5
  <1>6. ASSUME NEW v \in VmIds(last), NEW w \in VmIds(last), nest = PairNest(v, w)
        PROVE  \/ nest = <<VmLock(w)>>
               \/ \E a, b \in VmIds(last) : a < b /\ nest = <<VmLock(a), VmLock(b)>>
    BY <1>6 DEF PairNest, VmIds
  <1>7. ASSUME NEW v \in VmIds(last), nest = <<VmLock(v)>>
        PROVE  /\ Len(nest) = 1 /\ nest \in Seq(M)
               /\ \A i \in 1..Len(nest) : Place(nest[i], last) \in 0..last
    BY <1>1, <1>7
  <1>8. /\ Len(nest) \in 0..2 /\ nest \in Seq(M)
        /\ \A i \in 1..Len(nest) : Place(nest[i], last) \in 0..last
        /\ Len(nest) = 2 => Place(nest[1], last) < Place(nest[2], last)
    <2>1. CASE nest = NoNest
      BY <1>3, <2>1 DEF NoNest
    <2>2. CASE \E v \in 0..last : nest = VolumeNest(v)
      BY <1>4, <2>2
    <2>3. CASE \E v, w \in VmIds(last) : nest = PairNest(v, w)
      BY <1>5, <1>6, <1>7, <2>3
    <2> QED BY <2>1, <2>2, <2>3 DEF MethodNests
  <1> QED BY <1>8 DEF M

LEMMA PluginPlansAreOrdered ==
  ASSUME NEW last \in Nat, NEW nodes, Lock \subseteq PluginLocks(last, nodes),
         \A p \in Proc : Plan[p] \subseteq PluginPlan(last, nodes)
  PROVE  Ordered([l \in Lock |-> Place(l, last)], last + 1)
  <1> DEFINE rank == [l \in Lock |-> Place(l, last)]
             Comps == UNION {Components(n) : n \in nodes}
             M == {VmLock(v) : v \in VmIds(last)} \cup {StorageLock}
  <1>1. Lock \subseteq M \cup Comps
    BY DEF PluginLocks
  <1>2. \A c \in Comps : Place(c, last) = last + 1
    BY DEF Components, General, Info, Multipath, Place
  <1>3. \A l \in M : Place(l, last) \in 0..last
    BY DEF VmIds, VmLock, StorageLock, Place
  <1>4. rank \in [Lock -> 0..last + 1]
    <2>1. \A l \in Lock : Place(l, last) \in 0..last + 1
      BY <1>1, <1>2, <1>3
    <2> QED BY <2>1
  <1>5. ASSUME NEW p \in Proc, NEW nest \in Plan[p], NEW i \in 1..Len(nest), NEW j \in 1..Len(nest), i < j
        PROVE  rank[nest[i]] < rank[nest[j]]
    <2>0. nest[i] \in Lock /\ nest[j] \in Lock
      BY Nests
    <2>1. PICK h \in MethodNests(last), c \in Comps : nest = Append(h, c)
      BY <1>5 DEF PluginPlan, Running
    <2> HIDE DEF M, Comps
    <2>2. /\ Len(h) \in 0..2 /\ h \in Seq(M)
          /\ \A k \in 1..Len(h) : Place(h[k], last) \in 0..last
          /\ Len(h) = 2 => Place(h[1], last) < Place(h[2], last)
      BY MethodNestsAscend DEF M
    <2>3. /\ Len(nest) = Len(h) + 1 /\ nest[Len(h) + 1] = c
          /\ \A k \in 1..Len(h) : nest[k] = h[k] /\ h[k] \in M
      BY <2>1, <2>2
    <2>4. i \in 1..Len(h) /\ nest[i] = h[i] /\ rank[nest[i]] = Place(h[i], last)
      BY <1>5, <2>0, <2>2, <2>3
    <2>5. CASE j = Len(h) + 1
      <3>1. rank[nest[j]] = last + 1
        BY <1>2, <2>0, <2>3, <2>5
      <3> QED BY <2>2, <2>4, <3>1
    <2>6. CASE j # Len(h) + 1
      <3>1. i = 1 /\ j = 2 /\ Len(h) = 2
        BY <1>5, <2>2, <2>3, <2>6
      <3>2. nest[j] = h[j] /\ rank[nest[j]] = Place(h[j], last)
        BY <2>0, <2>3, <3>1
      <3> QED BY <2>2, <2>4, <3>1, <3>2
    <2> QED BY <2>5, <2>6
  <1> QED BY <1>4, <1>5 DEF Ordered

\* The methods of both plugins, on any nodes and for any VMs, never wait for each
\* other: a method of two VMs takes the vm lock of the lower vmid first, and a
\* component lock is only asked for by a run inside.
THEOREM PluginsNeverWaitInACycle ==
  ASSUME NEW last \in Nat, NEW nodes, Lock \subseteq PluginLocks(last, nodes),
         \A p \in Proc : Plan[p] \subseteq PluginPlan(last, nodes)
  PROVE  Spec => []NoWaitCycle
  <1> DEFINE rank == [l \in Lock |-> Place(l, last)]
  <1>1. Ordered(rank, last + 1) /\ last + 1 \in Nat
    BY PluginPlansAreOrdered
  <1> HIDE DEF rank
  <1> QED BY <1>1, OrderPreventsWaitCycles
=============================================================================
