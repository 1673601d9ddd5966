------------------------------ MODULE RestCommand ------------------------------
(***************************************************************************)
(* One command of the plugin: joviandss_cmd runs jdssc, kills it at the     *)
(* timeout and, if its caller asked for retries, runs it again.  A run      *)
(* sends its requests one by one over the control addresses                 *)
(* (JovianDSSRESTProxy.request) and prints what it found.                   *)
(*                                                                         *)
(* Abstracted: what requests say; an answer is usable, or an error the     *)
(* caller ends on, or one of the kinds the proxy tries again.               *)
(***************************************************************************)
EXTENDS Integers, Sequences

CONSTANTS
    Hosts,      \* number of control addresses
    Rounds,     \* rounds over the addresses (17)
    Tries,      \* sendings to one address while it answers no JSON (5)
    Retries,    \* runs after the first one, if they are killed
    Requests,   \* number of requests of a run
    Changes,    \* those which are no GET
    Lines       \* lines a run prints

ASSUME CommandAssumption ==
    /\ Hosts \in Nat \ {0} /\ Rounds \in Nat \ {0} /\ Tries \in Nat \ {0}
    /\ Retries \in Nat /\ Requests \in Nat \ {0} /\ Lines \in Nat \ {0}
    /\ Changes \subseteq 1..Requests

VARIABLES
    phase,      \* of the run: "send", "hang" (no answer comes), "print", "over"
    runs,       \* runs started
    req,        \* the request being sent
    active,     \* active_host
    round, turn, try,   \* rounds, addresses of this round, sendings to this address
    bad,        \* per address: failed turns in this request
    executed,   \* per request: executions by the array
    lost,       \* executions whose answer the run did not get, or could not use
    msg,        \* the output so far: the runs that printed its lines
    result

vars == <<phase, runs, req, active, round, turn, try, bad, executed, lost, msg, result>>

Host == 0..Hosts - 1
Zero == [h \in Host |-> 0]

Init ==
    /\ phase = "send" /\ runs = 1 /\ req = 1 /\ active = 0
    /\ round = 0 /\ turn = 0 /\ try = 0 /\ bad = Zero
    /\ executed = [r \in 1..Requests |-> 0] /\ lost = [r \in 1..Requests |-> 0]
    /\ msg = <<>> /\ result = "none"

-----------------------------------------------------------------------------
(* request and _send *)

Fresh == round' = 0 /\ turn' = 0 /\ try' = 0 /\ bad' = Zero

\* The array may have executed a change although its answer is not usable.
Unanswered(x) ==
    LET add(f) == IF x /\ req \in Changes THEN [f EXCEPT ![req] = @ + 1] ELSE f
    IN executed' = add(executed) /\ lost' = add(lost)

\* Wrong: no wrap to the first address.
NextAddressWrong == active' = IF active + 1 < Hosts THEN active + 1 ELSE active

NextAddress == active' = (active + 1) % Hosts

\* The next address is tried; after the last round the request is given up
\* (JDSSCommunicationFailure) and the run exits with an error.
NextHost ==
    /\ NextAddress
    /\ bad' = [bad EXCEPT ![active] = @ + 1]
    /\ try' = 0
    /\ IF turn + 1 < Hosts THEN turn' = turn + 1 /\ round' = round
       ELSE turn' = 0 /\ round' = round + 1
    /\ IF turn + 1 = Hosts /\ round + 1 = Rounds
       THEN phase' = "over" /\ result' = "gaveup" ELSE UNCHANGED <<phase, result>>

\* A usable answer: the next request, or the output.
Answer ==
    /\ phase = "send"
    /\ executed' = IF req \in Changes THEN [executed EXCEPT ![req] = @ + 1] ELSE executed
    /\ IF req < Requests THEN req' = req + 1 /\ phase' = phase ELSE req' = req /\ phase' = "print"
    /\ Fresh
    /\ UNCHANGED <<runs, active, lost, msg, result>>

\* An answer without data and without an error: no answer to a GET, but one to
\* a change.
Empty ==
    /\ phase = "send" /\ req \notin Changes
    /\ NextHost
    /\ UNCHANGED <<runs, req, executed, lost, msg>>

\* The connection breaks, or the array reports an OS error (_handle_500).
Broken ==
    /\ phase = "send"
    /\ \E x \in BOOLEAN : Unanswered(x)
    /\ NextHost
    /\ UNCHANGED <<runs, req, msg>>

\* No JSON: _send sends again to the same address.
Garbage ==
    /\ phase = "send"
    /\ \E x \in BOOLEAN : Unanswered(x)
    /\ IF try + 1 < Tries
       THEN try' = try + 1 /\ UNCHANGED <<active, bad, turn, round, phase, result>>
       ELSE NextHost
    /\ UNCHANGED <<runs, req, msg>>

\* An address that never answers: the timeout of a request (570 s) is longer
\* than a run may last.
Hang ==
    /\ phase = "send"
    /\ \E x \in BOOLEAN : Unanswered(x)
    /\ phase' = "hang"
    /\ UNCHANGED <<runs, req, active, round, turn, try, bad, msg, result>>

\* An error that ends the run: certificate, credentials, or one the caller of
\* the request raises.
Fail ==
    /\ phase = "send"
    /\ phase' = "over" /\ result' = "error"
    /\ UNCHANGED <<runs, req, active, round, turn, try, bad, executed, lost, msg>>

-----------------------------------------------------------------------------
(* joviandss_cmd *)

\* A line of the output; the run exits after the last one.
PrintLine ==
    /\ phase = "print"
    /\ msg' = Append(msg, runs)
    /\ IF Len(msg') = Lines THEN phase' = "over" /\ result' = "ok" ELSE UNCHANGED <<phase, result>>
    /\ UNCHANGED <<runs, req, active, round, turn, try, bad, executed, lost>>

\* Wrong: the lines stay.
DroppedWrong(m) == m

\* Output of a killed run is dropped.
Dropped(m) == <<>>

\* The run is killed at the timeout; the next one starts from the first
\* request and the first address.
Kill ==
    /\ phase \in {"send", "hang", "print"}
    /\ \E x \in BOOLEAN : Unanswered(x /\ phase = "send")
    /\ IF runs <= Retries
       THEN /\ runs' = runs + 1 /\ req' = 1 /\ active' = 0 /\ phase' = "send"
            /\ msg' = Dropped(msg) /\ Fresh /\ UNCHANGED result
       ELSE /\ phase' = "over" /\ result' = "timeout"
            /\ UNCHANGED <<runs, req, active, round, turn, try, bad, msg>>

Next == Answer \/ Empty \/ Broken \/ Garbage \/ Hang \/ Fail \/ PrintLine \/ Kill

Spec == Init /\ [][Next]_vars

-----------------------------------------------------------------------------
(* Properties *)

\* Every counter is within its bounds.
TypeOK ==
    /\ phase \in {"send", "hang", "print", "over"}
    /\ result \in {"none", "ok", "error", "gaveup", "timeout"}
    /\ runs \in 1..Retries + 1 /\ req \in 1..Requests /\ active \in Host
    /\ round \in 0..Rounds /\ turn \in 0..Hosts - 1 /\ try \in 0..Tries - 1
    /\ bad \in [Host -> Nat]
    /\ executed \in [1..Requests -> Nat] /\ lost \in [1..Requests -> Nat]
    /\ msg \in Seq(1..Retries + 1)

\* A request is given up (request of the proxy) only after every control
\* address failed in every round, whatever mixture of failures there was.
GivesUpLast == result = "gaveup" => \A h \in Host : bad[h] = Rounds

\* A command reports success only with the whole output of its last run and
\* nothing of a killed one, after every change was executed; and a change is
\* executed again only in another run, or when no usable answer to an earlier
\* execution came.
OneWholeRun ==
    /\ result = "ok" => /\ msg = [i \in 1..Lines |-> runs]
                        /\ \A r \in Changes : executed[r] > 0
    /\ \A r \in Changes : executed[r] <= runs + lost[r]

=============================================================================
