--------------------------- MODULE RestCommandProofs ---------------------------
(***************************************************************************)
(* Theorems about RestCommand, for any number of addresses, rounds,         *)
(* sendings, retries, requests and lines.                                  *)
(***************************************************************************)
EXTENDS RestCommand, TLAPS

\* How many addresses were tried after h: 0 for the one tried last.
Since(h) == IF h < active THEN active - 1 - h ELSE active - 1 - h + Hosts

\* While a request is sent, an address has failed once per finished round, and
\* once more if its turn of this round is over.
Turns == /\ phase # "over" =>
                /\ round < Rounds
                /\ \A h \in Host : bad[h] = IF Since(h) < turn THEN round + 1 ELSE round
         /\ result = "gaveup" => phase = "over" /\ \A h \in Host : bad[h] = Rounds

\* A run prints after all its requests, and only it has printed; a change is
\* executed with a usable answer once per run, when its turn was.
Before(r) == phase = "print" \/ r < req
Pending(r) == phase \in {"send", "hang"} /\ req <= r

Output == /\ phase \in {"send", "hang"} => msg = <<>>
          /\ phase = "print" => Len(msg) < Lines /\ \A i \in 1..Len(msg) : msg[i] = runs
          /\ result = "ok" => /\ phase = "over"
                              /\ Len(msg) = Lines /\ \A i \in 1..Len(msg) : msg[i] = runs
                              /\ \A r \in Changes : executed[r] > 0
          /\ \A r \in Changes :
                /\ phase # "over" /\ Before(r) => executed[r] > 0
                /\ executed[r] <= runs + lost[r]
                /\ Pending(r) => executed[r] < runs + lost[r]

\* The arithmetic of _next_host.
LEMMA NextOfHost ==
    ASSUME NEW a \in Host
    PROVE  (a + 1) % Hosts = IF a + 1 = Hosts THEN 0 ELSE a + 1
BY CommandAssumption, SMT DEF Host

\* What NextHost does to the counters.
LEMMA NextHostTypes ==
    ASSUME TypeOK, NextHost, phase # "over", round < Rounds
    PROVE  /\ active' \in Host /\ bad' \in [Host -> Nat] /\ try' \in 0..Tries - 1
           /\ turn' \in 0..Hosts - 1 /\ round' \in 0..Rounds
           /\ phase' \in {phase, "over"} /\ result' \in {result, "gaveup"}
           /\ active' = IF active + 1 = Hosts THEN 0 ELSE active + 1
<1>1. active' = IF active + 1 = Hosts THEN 0 ELSE active + 1
  BY NextOfHost DEF TypeOK, NextHost, NextAddress
<1>2. active' \in Host
  BY <1>1, CommandAssumption DEF TypeOK, Host
<1>3. bad' \in [Host -> Nat]
  BY DEF TypeOK, NextHost
<1>4. try' \in 0..Tries - 1 /\ turn' \in 0..Hosts - 1 /\ round' \in 0..Rounds
  BY CommandAssumption DEF TypeOK, NextHost
<1>5. phase' \in {phase, "over"} /\ result' \in {result, "gaveup"}
  BY DEF NextHost
<1> QED BY <1>1, <1>2, <1>3, <1>4, <1>5

\* A lost execution counts as one.
LEMMA UnansweredTypes ==
    ASSUME TypeOK, NEW x \in BOOLEAN, Unanswered(x)
    PROVE  /\ executed' \in [1..Requests -> Nat] /\ lost' \in [1..Requests -> Nat]
           /\ \A r \in 1..Requests : /\ executed'[r] - lost'[r] = executed[r] - lost[r]
                                     /\ executed'[r] >= executed[r]
<1>1. req \in 1..Requests /\ executed \in [1..Requests -> Nat] /\ lost \in [1..Requests -> Nat]
  BY DEF TypeOK
<1>2. CASE x /\ req \in Changes
  <2>1. executed' = [executed EXCEPT ![req] = @ + 1] /\ lost' = [lost EXCEPT ![req] = @ + 1]
    BY <1>2 DEF Unanswered
  <2> QED BY <1>1, <2>1
<1>3. CASE ~(x /\ req \in Changes)
  <2>1. executed' = executed /\ lost' = lost
    BY <1>3 DEF Unanswered
  <2> QED BY <1>1, <2>1
<1> QED BY <1>2, <1>3

\* Type correctness, with the rounds within their bound.
THEOREM TypeCorrect == Spec => [](TypeOK /\ Turns)
<1>1. Init => TypeOK /\ Turns
  BY CommandAssumption DEF Init, TypeOK, Turns, Zero, Host, Since
<1>2. ASSUME TypeOK, Turns, [Next]_vars PROVE TypeOK' /\ Turns'
  <2> USE <1>2
  <2>1. CASE Answer
    <3>1. TypeOK'
      <4>1. executed' \in [1..Requests -> Nat]
        BY <2>1 DEF TypeOK, Answer
      <4>2. bad' \in [Host -> Nat] /\ round' \in 0..Rounds /\ turn' \in 0..Hosts - 1 /\ try' \in 0..Tries - 1
        BY <2>1, CommandAssumption DEF Answer, Fresh, Zero, Host
      <4>3. req' \in 1..Requests /\ phase' \in {"send", "print"}
        <5>1. req \in Nat /\ req >= 1 /\ req <= Requests /\ Requests \in Nat
          BY CommandAssumption DEF TypeOK
        <5> QED BY <2>1, <5>1 DEF Answer
      <4> QED BY <2>1, <4>1, <4>2, <4>3 DEF TypeOK, Answer
    <3>2. bad' = Zero /\ round' = 0 /\ turn' = 0 /\ active' = active /\ result' = result /\ phase # "over"
      BY <2>1 DEF Answer, Fresh
    <3>3. \A h \in Host : Since(h)' >= 0
      BY <3>2, CommandAssumption DEF TypeOK, Since, Host
    <3>4. \A h \in Host : bad'[h] = 0 /\ ~(Since(h)' < 0)
      BY <3>2, <3>3, CommandAssumption DEF Zero, Since, TypeOK, Host
    <3> QED BY <2>1, <3>1, <3>2, <3>4, CommandAssumption DEF Turns
  <2>2. ASSUME NextHost, phase # "over" PROVE Turns'
    <3>1. active' = IF active + 1 = Hosts THEN 0 ELSE active + 1
      BY <2>2, NextHostTypes DEF Turns
    <3>2. bad' = [bad EXCEPT ![active] = @ + 1]
      BY <2>2 DEF NextHost
    <3>3. ASSUME NEW h \in Host
          PROVE  /\ Since(h)' = IF h = active THEN 0 ELSE Since(h) + 1
                 /\ Since(h) \in 0..Hosts - 1
                 /\ Since(h)' \in 0..Hosts - 1
                 /\ h = active => Since(h) = Hosts - 1
      <4>1. /\ h \in Int /\ 0 <= h /\ h < Hosts /\ Hosts \in Int
            /\ active \in Int /\ 0 <= active /\ active < Hosts
        BY CommandAssumption DEF TypeOK, Host
      <4>2. CASE active + 1 = Hosts
        BY <3>1, <4>1, <4>2 DEF Since
      <4>3. CASE active + 1 # Hosts
        BY <3>1, <4>1, <4>3 DEF Since
      <4> QED BY <4>2, <4>3
    <3>4. ASSUME NEW h \in Host
          PROVE  bad'[h] = IF Since(h)' < turn + 1 THEN round + 1 ELSE round
      <4>1. /\ bad[h] = IF Since(h) < turn THEN round + 1 ELSE round
            /\ round \in Nat /\ turn \in Nat /\ turn <= Hosts - 1 /\ Hosts \in Nat
        BY <2>2, CommandAssumption DEF TypeOK, Turns
      <4>2. bad'[h] = IF h = active THEN bad[h] + 1 ELSE bad[h]
        BY <3>2 DEF TypeOK
      <4> QED BY <3>3, <4>1, <4>2
    <3>5. CASE turn + 1 < Hosts
      BY <2>2, <3>4, <3>5 DEF NextHost, Turns, TypeOK
    <3>6. CASE turn + 1 = Hosts
      <4>1. \A h \in Host : bad'[h] = round + 1 /\ ~(Since(h)' < 0)
        BY <3>3, <3>4, <3>6, CommandAssumption DEF TypeOK
      <4>2. turn' = 0 /\ round' = round + 1
        BY <2>2, <3>6, CommandAssumption DEF NextHost, TypeOK
      <4>3. CASE round + 1 = Rounds
        <5>1. phase' = "over" /\ result' = "gaveup"
          BY <2>2, <3>6, <4>3 DEF NextHost
        <5> QED BY <4>1, <4>3, <5>1 DEF Turns
      <4>4. CASE round + 1 # Rounds
        <5>1. phase' = phase /\ result' = result
          BY <2>2, <3>6, <4>4 DEF NextHost
        <5>2. round < Rounds /\ round \in Nat /\ Rounds \in Nat
          BY <2>2, CommandAssumption DEF Turns, TypeOK
        <5> QED BY <2>2, <4>1, <4>2, <4>4, <5>1, <5>2 DEF Turns
      <4> QED BY <4>3, <4>4
    <3>7. turn + 1 <= Hosts
      BY CommandAssumption DEF TypeOK
    <3> QED BY <3>5, <3>6, <3>7, CommandAssumption DEF TypeOK
  <2>3. CASE Empty
    <3>1. TypeOK'
      BY <2>3, NextHostTypes DEF Empty, TypeOK, Turns
    <3> QED BY <2>2, <2>3, <3>1 DEF Empty
  <2>4. CASE Broken
    <3>1. executed' \in [1..Requests -> Nat] /\ lost' \in [1..Requests -> Nat]
      BY <2>4, UnansweredTypes DEF Broken
    <3>2. TypeOK'
      BY <2>4, <3>1, NextHostTypes DEF Broken, TypeOK, Turns
    <3> QED BY <2>2, <2>4, <3>2 DEF Broken
  <2>5. CASE Garbage
    <3>1. executed' \in [1..Requests -> Nat] /\ lost' \in [1..Requests -> Nat]
      BY <2>5, UnansweredTypes DEF Garbage
    <3>2. CASE try + 1 < Tries
      <4>1. try' \in 0..Tries - 1 /\ UNCHANGED <<active, bad, turn, round, phase, result>>
        BY <2>5, <3>2, CommandAssumption DEF Garbage, TypeOK
      <4> QED BY <2>5, <3>1, <4>1 DEF Garbage, TypeOK, Turns, Since
    <3>3. CASE ~(try + 1 < Tries)
      <4>1. NextHost /\ phase = "send"
        BY <2>5, <3>3 DEF Garbage
      <4>2. TypeOK'
        BY <2>5, <3>1, <4>1, NextHostTypes DEF Garbage, TypeOK, Turns
      <4> QED BY <2>2, <4>1, <4>2
    <3> QED BY <3>2, <3>3
  <2>6. CASE Hang
    <3>1. TypeOK'
      BY <2>6, UnansweredTypes DEF Hang, TypeOK
    <3> QED BY <2>6, <3>1 DEF Hang, Turns, Since
  <2>7. CASE Fail
    BY <2>7 DEF Fail, TypeOK, Turns
  <2>8. CASE PrintLine
    <3>1. TypeOK'
      BY <2>8 DEF PrintLine, TypeOK
    <3> QED BY <2>8, <3>1 DEF PrintLine, Turns, Since
  <2>9. CASE Kill
    <3>1. executed' \in [1..Requests -> Nat] /\ lost' \in [1..Requests -> Nat]
      BY <2>9, UnansweredTypes DEF Kill
    <3>2. CASE runs <= Retries
      <4>1. /\ runs' = runs + 1 /\ req' = 1 /\ active' = 0 /\ phase' = "send"
            /\ round' = 0 /\ turn' = 0 /\ try' = 0 /\ bad' = Zero /\ msg' = <<>> /\ result' = result
        BY <2>9, <3>2 DEF Kill, Fresh, Dropped
      <4>2. runs' \in 1..Retries + 1 /\ req' \in 1..Requests /\ active' \in Host
        BY <3>2, <4>1, CommandAssumption DEF TypeOK, Host
      <4>3. round' \in 0..Rounds /\ turn' \in 0..Hosts - 1 /\ try' \in 0..Tries - 1 /\ bad' \in [Host -> Nat]
        BY <4>1, CommandAssumption DEF Zero
      <4>4. TypeOK'
        BY <3>1, <4>1, <4>2, <4>3 DEF TypeOK
      <4>5. \A h \in Host : bad'[h] = 0 /\ ~(Since(h)' < 0)
        BY <4>1, CommandAssumption DEF Zero, Since, Host
      <4>6. result # "gaveup"
        BY <2>9 DEF Kill, Turns
      <4> QED BY <4>1, <4>4, <4>5, <4>6, CommandAssumption DEF Turns
    <3>3. CASE ~(runs <= Retries)
      <4>1. phase' = "over" /\ result' = "timeout" /\ UNCHANGED <<runs, req, active, round, turn, try, bad, msg>>
        BY <2>9, <3>3 DEF Kill
      <4> QED BY <3>1, <4>1 DEF TypeOK, Turns
    <3> QED BY <3>2, <3>3
  <2>10. CASE UNCHANGED vars
    BY <2>10 DEF vars, TypeOK, Turns, Since
  <2> QED BY <2>1, <2>3, <2>4, <2>5, <2>6, <2>7, <2>8, <2>9, <2>10 DEF Next
<1> QED BY <1>1, <1>2, PTL DEF Spec

\* No address is left out: a request is given up (JDSSCommunicationFailure)
\* only when each failed in every round.
THEOREM AllAddressesTried == Spec => []GivesUpLast
<1>1. TypeOK /\ Turns => GivesUpLast
  BY DEF Turns, GivesUpLast
<1> QED BY <1>1, TypeCorrect, PTL

-----------------------------------------------------------------------------
(* Executions and output. *)

\* What a run that goes on keeps of Output, whatever was executed unanswered.
LEMMA OutputKept ==
    ASSUME TypeOK, Output, NEW x \in BOOLEAN, Unanswered(x),
           UNCHANGED <<runs, req, msg>>, phase = "send",
           phase' \in {"send", "hang", "over"}, result' # "ok"
    PROVE  Output'
<1>1. \A r \in 1..Requests : /\ executed'[r] - lost'[r] = executed[r] - lost[r]
                             /\ executed'[r] >= executed[r]
                             /\ executed[r] \in Nat /\ executed'[r] \in Nat
                             /\ lost[r] \in Nat /\ lost'[r] \in Nat
  BY UnansweredTypes DEF TypeOK
<1>2. runs \in Nat /\ req \in Nat
  BY CommandAssumption DEF TypeOK
<1>3. ASSUME NEW r \in Changes
      PROVE  /\ (phase # "over" /\ Before(r) => executed[r] > 0)'
             /\ (executed[r] <= runs + lost[r])'
             /\ (Pending(r) => executed[r] < runs + lost[r])'
  <2>1. r \in 1..Requests
    BY CommandAssumption
  <2>2. /\ executed[r] <= runs + lost[r]
        /\ Before(r) => executed[r] > 0
        /\ Pending(r) => executed[r] < runs + lost[r]
    BY DEF Output
  <2>3. Before(r)' => Before(r)
    BY DEF Before
  <2>4. Pending(r)' => Pending(r)
    BY DEF Pending
  <2> QED BY <1>1, <1>2, <2>1, <2>2, <2>3, <2>4
<1>4. msg' = <<>>
  BY DEF Output
<1>5. /\ phase' \in {"send", "hang"} => msg' = <<>>
      /\ phase' # "print" /\ result' # "ok"
  BY <1>4
<1> QED BY <1>3, <1>5 DEF Output

\* Success means the whole output of one run whose changes were executed, and
\* nothing is executed again while a usable answer to it exists in that run.
THEOREM WholeOutput == Spec => []OneWholeRun
<1>1. Init => Output
  BY CommandAssumption DEF Init, Output, Before, Pending
<1>2. ASSUME TypeOK, Turns, Output, [Next]_vars PROVE Output'
  <2> USE <1>2
  <2>1. CASE Answer
    <3>1. /\ runs' = runs /\ lost' = lost /\ msg' = msg /\ result' = result /\ phase = "send"
          /\ msg = <<>> /\ result # "ok"
      BY <2>1 DEF Answer, Output
    <3>2. /\ req \in Nat /\ runs \in Nat /\ Requests \in Nat /\ req <= Requests /\ Lines > 0 /\ Lines \in Nat
      BY CommandAssumption DEF TypeOK
    <3>3. \/ req' = req + 1 /\ phase' = "send"
          \/ req' = req /\ phase' = "print" /\ req = Requests
      BY <2>1, <3>1, <3>2 DEF Answer
    <3>4. ASSUME NEW r \in Changes
          PROVE  /\ (phase # "over" /\ Before(r) => executed[r] > 0)'
                 /\ (executed[r] <= runs + lost[r])'
                 /\ (Pending(r) => executed[r] < runs + lost[r])'
      <4>1. r \in 1..Requests /\ r \in Nat /\ r <= Requests /\ executed[r] \in Nat /\ lost[r] \in Nat
        BY CommandAssumption DEF TypeOK
      <4>2. executed'[r] = IF r = req THEN executed[r] + 1 ELSE executed[r]
        BY <2>1, <4>1 DEF Answer, TypeOK
      <4>3. /\ executed[r] <= runs + lost[r]
            /\ r < req => executed[r] > 0
            /\ req <= r => executed[r] < runs + lost[r]
        BY <3>1 DEF Output, Before, Pending
      <4>4. Before(r)' => r < req \/ r = req
        BY <3>2, <3>3, <4>1 DEF Before
      <4>5. Pending(r)' => req <= r /\ r # req
        BY <3>2, <3>3, <4>1 DEF Pending
      <4> QED BY <3>1, <3>2, <4>1, <4>2, <4>3, <4>4, <4>5
    <3>5. phase' = "print" => Len(msg') < Lines /\ \A i \in 1..Len(msg') : msg'[i] = runs'
      BY <3>1, <3>2
    <3>6. phase' \in {"send", "hang"} => msg' = <<>>
      BY <3>1
    <3> QED BY <3>1, <3>4, <3>5, <3>6 DEF Output
  <2>2. ASSUME NextHost, phase = "send" PROVE phase' \in {"send", "over"} /\ result' # "ok"
    BY <2>2 DEF NextHost, Output
  <2>3. CASE Empty
    <3>1. phase' \in {"send", "over"} /\ result' # "ok" /\ UNCHANGED <<runs, req, executed, lost, msg>> /\ phase = "send"
      BY <2>2, <2>3 DEF Empty
    <3> QED BY <3>1 DEF Output, Before, Pending
  <2>4. CASE Broken
    BY <2>2, <2>4, OutputKept DEF Broken
  <2>5. CASE Garbage
    <3>1. phase' \in {"send", "over"} /\ result' # "ok"
      <4>1. CASE try + 1 < Tries
        BY <2>5, <4>1 DEF Garbage, Output
      <4>2. CASE ~(try + 1 < Tries)
        BY <2>2, <2>5, <4>2 DEF Garbage
      <4> QED BY <4>1, <4>2
    <3> QED BY <2>5, <3>1, OutputKept DEF Garbage
  <2>6. CASE Hang
    <3>1. result' # "ok"
      BY <2>6 DEF Hang, Output
    <3> QED BY <2>6, <3>1, OutputKept DEF Hang
  <2>7. CASE Fail
    BY <2>7 DEF Fail, Output, Before, Pending
  <2>8. CASE PrintLine
    <3>1. /\ msg' = Append(msg, runs) /\ phase = "print" /\ runs' = runs
          /\ UNCHANGED <<req, executed, lost>>
      BY <2>8 DEF PrintLine
    <3>2. phase' \in {"print", "over"} /\ (result' = "ok" => phase' = "over" /\ Len(msg') = Lines)
      BY <2>8 DEF PrintLine, Output
    <3>3. phase' = "print" => Len(msg') < Lines
      <4>1. phase' = "print" => Len(msg') # Lines
        BY <2>8 DEF PrintLine
      <4>2. Len(msg) < Lines /\ Len(msg') = Len(msg) + 1 /\ Len(msg) \in Nat /\ Lines \in Nat
        BY <3>1, CommandAssumption DEF Output, TypeOK
      <4> QED BY <4>1, <4>2
    <3>4. \A i \in 1..Len(msg') : msg'[i] = runs'
      BY <3>1 DEF Output, TypeOK
    <3>5. \A r \in Changes : /\ (phase # "over" /\ Before(r) => executed[r] > 0)'
                             /\ (executed[r] <= runs + lost[r])'
                             /\ ~Pending(r)' /\ executed'[r] > 0
      BY <3>1, <3>2 DEF Output, Before, Pending
    <3> QED BY <3>2, <3>3, <3>4, <3>5 DEF Output
  <2>9. CASE Kill
    <3>1. \A r \in 1..Requests : /\ executed'[r] - lost'[r] = executed[r] - lost[r]
                                 /\ executed[r] \in Nat /\ executed'[r] \in Nat
                                 /\ lost[r] \in Nat /\ lost'[r] \in Nat
      BY <2>9, UnansweredTypes DEF Kill, TypeOK
    <3>2. \A r \in Changes : executed[r] <= runs + lost[r] /\ r \in 1..Requests
      BY CommandAssumption DEF Output
    <3>3. runs \in Nat /\ result # "ok"
      BY <2>9, CommandAssumption DEF TypeOK, Output, Kill
    <3>4. CASE runs <= Retries
      <4>1. runs' = runs + 1 /\ req' = 1 /\ phase' = "send" /\ msg' = <<>> /\ result' = result
        BY <2>9, <3>4 DEF Kill, Dropped
      <4>2. ASSUME NEW r \in Changes
            PROVE  executed'[r] < runs' + lost'[r] /\ executed'[r] <= runs' + lost'[r]
        <5>1. r \in 1..Requests /\ executed[r] <= runs + lost[r]
          BY <3>2
        <5>2. /\ executed'[r] - lost'[r] = executed[r] - lost[r]
              /\ executed[r] \in Nat /\ executed'[r] \in Nat
              /\ lost[r] \in Nat /\ lost'[r] \in Nat
          BY <3>1, <5>1
        <5> QED BY <3>3, <4>1, <5>1, <5>2
      <4>3. \A r \in Changes : executed'[r] <= runs' + lost'[r]
        BY <4>2
      <4>4. \A r \in Changes : ~Before(r)'
        BY <3>2, <4>1 DEF Before
      <4> QED BY <3>3, <4>1, <4>2, <4>3, <4>4 DEF Output
    <3>5. CASE ~(runs <= Retries)
      <4>1. runs' = runs /\ phase' = "over" /\ result' = "timeout"
        BY <2>9, <3>5 DEF Kill
      <4>2. \A r \in Changes : executed'[r] <= runs' + lost'[r]
        BY <3>1, <3>2, <3>3, <4>1
      <4> QED BY <4>1, <4>2 DEF Output, Pending
    <3> QED BY <3>4, <3>5
  <2>10. CASE UNCHANGED vars
    BY <2>10 DEF vars, Output, Before, Pending
  <2> QED BY <2>1, <2>3, <2>4, <2>5, <2>6, <2>7, <2>8, <2>9, <2>10 DEF Next
<1>3. TypeOK /\ Output => OneWholeRun
  <2> SUFFICES ASSUME TypeOK, Output PROVE OneWholeRun
    OBVIOUS
  <2>1. ASSUME result = "ok" PROVE msg = [i \in 1..Lines |-> runs]
    BY <2>1, CommandAssumption DEF Output, TypeOK
  <2> QED BY <2>1 DEF Output, OneWholeRun
<1> QED BY <1>1, <1>2, <1>3, TypeCorrect, PTL DEF Spec

=============================================================================
