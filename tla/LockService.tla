---------------------------- MODULE LockService ----------------------------
(***************************************************************************)
(* What with_lock promises: a set of exclusive locks.  A lock is free, or  *)
(* some process is inside it, or it was left behind by a process that is   *)
(* no longer inside (it died, or its release did not get through) and then *)
(* it may be reclaimed.  A lock with a process inside is never reclaimed   *)
(* and never granted to another one.                                       *)
(***************************************************************************)
CONSTANTS Proc, Lock, None

VARIABLES
  inside,   \* inside[p]: the locks process p is inside of
  token     \* token[l]: the process the lock was last granted to, None if free

vars == <<inside, token>>

TypeOK ==
  /\ inside \in [Proc -> SUBSET Lock]
  /\ token \in [Lock -> Proc \cup {None}]

Init ==
  /\ inside = [p \in Proc |-> {}]
  /\ token = [l \in Lock |-> None]

Grant(p, l) ==
  /\ token[l] = None
  /\ token' = [token EXCEPT ![l] = p]
  /\ inside' = [inside EXCEPT ![p] = @ \cup {l}]

\* The grant took place but the process never learned of it.
GrantLost(p, l) ==
  /\ token[l] = None
  /\ token' = [token EXCEPT ![l] = p]
  /\ UNCHANGED inside

\* The process leaves; the lock is free, or is left behind.
Release(p, l) ==
  /\ l \in inside[p]
  /\ inside' = [inside EXCEPT ![p] = @ \ {l}]
  /\ \/ token' = [token EXCEPT ![l] = None]
     \/ UNCHANGED token

\* The process dies inside its locks: each is freed or left behind.
Die(p) ==
  /\ inside' = [inside EXCEPT ![p] = {}]
  /\ \E freed \in SUBSET inside[p] :
        token' = [l \in Lock |-> IF l \in freed THEN None ELSE token[l]]

Abandoned(l) == token[l] # None /\ l \notin inside[token[l]]

Reclaim(l) ==
  /\ Abandoned(l)
  /\ token' = [token EXCEPT ![l] = None]
  /\ UNCHANGED inside

Next ==
  \/ \E p \in Proc : Die(p)
  \/ \E l \in Lock : Reclaim(l)
  \/ \E p \in Proc, l \in Lock : Grant(p, l) \/ GrantLost(p, l) \/ Release(p, l)

Spec == Init /\ [][Next]_vars
=============================================================================
