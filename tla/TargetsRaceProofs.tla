--------------------------- MODULE TargetsRaceProofs ---------------------------
(***************************************************************************)
(* Proofs about Targets when commands interleave: any number of them, for  *)
(* any volumes and targets, each call of which may fall between two calls  *)
(* of the others.                                                          *)
(***************************************************************************)
EXTENDS TargetsProofs

-----------------------------------------------------------------------------
(* Publications beside each other: commands that create or export, each for *)
(* a volume of its own, whose steps come in any order.                      *)

\* No request fails or comes late, no other pool has a target of the same
\* name, an attach is tried twice, and there is one CHAP user at most.
Racing ==
    /\ Overlap \subseteq Publishers /\ Faults = {} /\ LateCalls = {} /\ Clash = {} /\ Attempts > 1
    /\ \A u, w \in User : u = w

\* Two commands are beside each other only when they publish two volumes.
Beside ==
    \A p, o \in Proc :
       \/ p = o \/ pr[p].at = "idle" \/ pr[o].at = "idle"
       \/ {pr[p].cmd, pr[o].cmd} \subseteq Publishers /\ pr[p].vol # pr[o].vol

\* The LUN that a publication worked towards is another volume's.
Lost(q, a) == \E w \in Volume \ {q.vol} : a.att[w] = <<q.tgt, q.lun>>

\* What a publication knows whatever other publications do: it leaves only
\* targets of other prefixes, its target stays, and nobody moves its volume.
Claims(q, a) ==
    q.cmd \in Publishers =>
       /\ q.at \notin {"busy", "dropBad", "sDetach", "sDrop", "sGone"}
       /\ q.at \notin {"idle", "exists", "clone", "done"} => q.vol \in a.zvol
       /\ q.at = "exists" => q.tgt = None
       /\ q.at = "rehome" => q.tgt \in Foreign
       /\ q.at \in {"detach", "left", "drop"} => q.from \in Foreign /\ q.back = "list" /\ q.tgt \notin Own
       /\ q.at \in {"vipsNew", "create"} => q.tgt \in Own /\ a.att[q.vol] = None
       /\ q.at \in {"target", "vips", "getLun"} =>
             q.tgt \in a.made /\ (q.tgt \in Foreign => a.att[q.vol] = <<q.tgt, q.lun>>)
       /\ q.at = "attach" => q.tries = 0 /\ q.tgt \in Own \cap a.made /\ a.att[q.vol] = None
       /\ q.at = "resolve" => a.att[q.vol] = <<q.tgt, q.lun>>
       /\ q.at = "delUser" => q.user = None
       /\ q.at \in {"sList", "sLuns", "destroy"} => a.att[q.vol] = None
       /\ q.cmd = "create" /\ q.at = "done" /\ q.res = "failed" /\ q.tgt \in Own => Lost(q, a)

\* What a publication of v changes: v comes to a target of the group or leaves
\* one of another prefix, a target of another prefix may go, and v alone may
\* come into being or go.
Gentle(v, b) ==
    /\ \A w \in Volume : w # v => b.att[w] = array.att[w]
    /\ \/ b.att[v] = array.att[v]
       \/ array.att[v] = None /\ b.att[v] # None /\ b.att[v][1] \in Own
       \/ b.att[v] = None /\ array.att[v] # None /\ array.att[v][1] \in Foreign
    /\ array.made \cap Own \subseteq b.made
    /\ array.zvol \ {v} \subseteq b.zvol

Runner(p) ==
    /\ Types /\ Housed(array) /\ Fine(pr[p], array) /\ Claims(pr[p], array)
    /\ pr[p].cmd \in Publishers

\* The process goes on with its command and its volume, or is through with it.
Races(p) ==
    /\ Claims(pr'[p], array') /\ Gentle(pr[p].vol, array')
    /\ pr'[p].at = "idle" \/ (pr'[p].cmd = pr[p].cmd /\ pr'[p].vol = pr[p].vol)

LEMMA Prefixes == Own \cap Foreign = {} /\ Target = Own \cup Foreign /\ None \notin Target
<1> QED BY TargetsAssumption DEF Target

LEMMA RunnerWorks ==
    ASSUME NEW p \in Proc, Runner(p)
    PROVE  /\ pr[p] \in RunType /\ Job(pr[p]) /\ array \in ArrayType /\ Housed(array)
           /\ Placed(pr[p], array) /\ Emptied(pr[p], array) /\ Claims(pr[p], array)
           /\ pr[p].cmd \in Publishers /\ pr[p].cmd \in {"create", "export"}
           /\ pr[p].cmd \in Lookups /\ pr[p].cmd \notin {"get", "getCurrent", "remove", "unexport", "destroy", "update", "delete"}
           /\ pr[p].vol \in Volume /\ pr[p].lun \in 0..Luns - 1
           /\ pr[p].user \in User \cup {None} /\ pr[p].tgt \in Target \cup {None}
<1>1. pr[p] \in RunType /\ Job(pr[p]) /\ array \in ArrayType
  BY Working DEF Runner
<1>2. pr[p].cmd \in {"create", "export"}
  BY DEF Runner, Publishers
<1>3. pr[p].vol \in Volume
  BY <1>1, <1>2 DEF Job, Args
<1>4. pr[p].lun \in 0..Luns - 1 /\ pr[p].user \in User \cup {None} /\ pr[p].tgt \in Target \cup {None}
  BY <1>1 DEF RunType
<1> QED BY <1>1, <1>2, <1>3, <1>4 DEF Runner, Fine, Lookups

LEMMA GentleSame ==
    ASSUME NEW v, NEW b, b.att = array.att, array.made \cap Own \subseteq b.made,
           array.zvol \ {v} \subseteq b.zvol
    PROVE  Gentle(v, b)
<1> QED BY DEF Gentle

\* The same command for the same volume.
Same(q, n) == n.cmd = q.cmd /\ n.vol = q.vol

LEMMA ReadRaces ==
    ASSUME NEW p \in Proc, Runner(p), NEW n, Read(p, n), Claims(n, array),
           n.at = "idle" \/ Same(pr[p], n)
    PROVE  Races(p)
<1>1. pr'[p] = n /\ array' = array
  BY DEF Read, Runner, Types
<1>2. Gentle(pr[p].vol, array)
  BY GentleSame
<1> QED BY <1>1, <1>2 DEF Races, Same

LEMMA WriteRaces ==
    ASSUME NEW p \in Proc, Runner(p), NEW n, NEW b, Write(p, b, n), Claims(n, b),
           Same(pr[p], n), Gentle(pr[p].vol, b)
    PROVE  Races(p)
<1>1. pr'[p] = n /\ array' = b
  BY DEF Write, Runner, Types
<1> QED BY <1>1 DEF Races, Same

\* No request fails.
LEMMA NoErrors ==
    ASSUME Racing
    PROVE  \A q, c : Errors(q, c) = {}
<1> QED BY DEF Racing, Errors

LEMMA NotRefused ==
    ASSUME Racing, NEW p, NEW c
    PROVE  ~Refused(p, c)
<1> QED BY NoErrors DEF Refused

LEMMA TwoAnswers ==
    ASSUME Racing, NEW q, NEW c, NEW r, NEW again, NEW o \in Answers(q, c, r, again)
    PROVE  o = r \/ o = again
<1>1. Errors(q, c) = {}
  BY NoErrors
<1> QED BY <1>1, TargetsAssumption DEF Answers

\* A failure that is not one of the transport ends a creation, and sends an
\* export to its clean-up.
LEMMA RaisedClaims ==
    ASSUME NEW q \in RunType, q.cmd \in Publishers, q.vol \in Volume,
           q.at \notin Scanning, q.at # "clone", NEW e, e # "cfg", NEW a,
           q.cmd = "export" => a.att[q.vol] = None /\ q.vol \in a.zvol,
           q.cmd = "create" /\ q.tgt \in Own => Lost(q, a)
    PROVE  Claims(Raised(q, e), a) /\ Same(q, Raised(q, e))
<1> DEFINE h == Felt(q, e)
           n == Raised(q, e)
<1>1. h \in RunType /\ h = [q EXCEPT !.errs = h.errs]
  BY FeltFields
<1>2. h.cmd = q.cmd /\ h.vol = q.vol /\ h.tgt = q.tgt /\ h.lun = q.lun
  <2> HIDE DEF h
  <2> QED BY <1>1 DEF RunType
<1>3. CASE q.cmd = "create"
  <2>1. n = Finish(h, "failed")
    BY <1>3 DEF Raised
  <2> HIDE DEF h, n
  <2>2. /\ n.at = "done" /\ n.cmd = q.cmd /\ n.vol = q.vol /\ n.tgt = q.tgt /\ n.lun = q.lun
    BY <1>1, <1>2, <2>1, FinishFields DEF Results
  <2>3. n.tgt \in Own => Lost(n, a)
    BY <1>3, <2>2 DEF Lost
  <2> QED BY <2>2, <2>3 DEF Claims, Same, n
<1>4. CASE q.cmd = "export"
  <2> DEFINE g == Go(h, "sList")
  <2>1. n = [g EXCEPT !.res = "failed"]
    BY <1>4 DEF Raised
  <2> HIDE DEF h, n
  <2>2. g \in RunType /\ g.at = "sList" /\ g.cmd = q.cmd /\ g.vol = q.vol
    <3>1. "sList" \in Steps
      BY StepNames DEF Scanning
    <3> QED BY <1>1, <1>2, <3>1, GoFields
  <2> HIDE DEF g
  <2>3. n.at = "sList" /\ n.cmd = q.cmd /\ n.vol = q.vol
    BY <2>1, <2>2 DEF RunType
  <2> QED BY <1>4, <2>3 DEF Claims, Same, n
<1> QED BY <1>3, <1>4 DEF Publishers

LEMMA ExistsRaces == ASSUME NEW p \in Proc, Runner(p), Exists(p) PROVE Races(p)
<1> DEFINE q == pr[p]
<1>1. /\ q \in RunType /\ q.at = "exists" /\ q.cmd \in Publishers /\ q.cmd \notin {"destroy", "unexport"}
      /\ Claims(q, array)
  BY RunnerWorks DEF Exists
<1>2. q.tgt = None
  BY <1>1 DEF Claims
<1>3. CASE q.vol \in array.zvol /\ Read(p, Go(q, "lookup"))
  <2> DEFINE n == Go(q, "lookup")
  <2>1. n.at = "lookup" /\ Same(q, n)
    BY <1>1, GoFields, StepNames DEF Same
  <2> HIDE DEF n
  <2>2. Claims(n, array)
    BY <1>3, <2>1 DEF Claims, Same
  <2> QED BY <1>3, <2>1, <2>2, ReadRaces DEF n
<1>4. CASE Read(p, Finish([q EXCEPT !.errs = IF q.vol \in array.zvol THEN 1 ELSE 0], "failed"))
  <2> DEFINE k == IF q.vol \in array.zvol THEN 1 ELSE 0
             s == [q EXCEPT !.errs = k]
             n == Finish(s, "failed")
  <2>1. k \in Nat
    OBVIOUS
  <2> HIDE DEF k
  <2>2. s \in RunType /\ s.vol = q.vol /\ s.cmd = q.cmd /\ s.tgt = q.tgt
    BY <1>1, <2>1 DEF RunType
  <2> HIDE DEF s
  <2>3. n.at = "done" /\ Same(q, n) /\ n.tgt = None
    BY <1>2, <2>2, FinishFields DEF Same, Results
  <2> HIDE DEF n
  <2>4. Claims(n, array)
    BY <2>3, Prefixes DEF Claims
  <2> QED BY <1>4, <2>3, <2>4, ReadRaces DEF n, s, k
<1>5. PICK there \in {q.vol \in array.zvol} \cup {FALSE : e \in Errors(q, "is_lun")} :
          Read(p, IF there THEN Go(q, "lookup")
                  ELSE Finish([q EXCEPT !.errs = IF q.vol \in array.zvol THEN 1 ELSE 0], "failed"))
  BY <1>1 DEF Exists
<1>6. CASE there
  BY <1>3, <1>5, <1>6
<1>7. CASE ~there
  BY <1>4, <1>5, <1>7
<1> QED BY <1>6, <1>7

LEMMA CloneSnapshotRaces == ASSUME Racing, NEW p \in Proc, Runner(p), CloneSnapshot(p) PROVE Races(p)
<1> DEFINE q == pr[p]
           r == create_volume_from_snapshot(array, q.vol)
           again == create_volume_from_snapshot(r.a, q.vol)
<1>1. q \in RunType /\ array \in ArrayType /\ q.vol \in Volume
  BY RunnerWorks
<1>2. /\ r.a.att = array.att /\ r.a.zvol = array.zvol \cup {q.vol} /\ r.a.made = array.made
      /\ r.r \in {"ok", "exists"} /\ again = Ret(r.a, "exists")
  BY <1>1, create_clone_Effect
<1>3. PICK o \in Answers(q, "clone", r, again) :
         Write(p, o.a, IF o.r \in {"ok", "exists"} THEN Go(q, "lookup") ELSE Raised(q, o.r))
  BY DEF CloneSnapshot
<1>4. again.a = r.a /\ again.r = "exists"
  BY <1>2 DEF Ret
<1> HIDE DEF r, again
<1>5. o.a = r.a /\ o.r \in {"ok", "exists"}
  BY <1>2, <1>3, <1>4, TwoAnswers
<1> DEFINE n == Go(q, "lookup")
<1>6. n.at = "lookup" /\ Same(q, n)
  BY <1>1, GoFields, StepNames DEF Same
<1>7. Write(p, r.a, n)
  BY <1>3, <1>5
<1> HIDE DEF n
<1>8. Claims(n, r.a)
  BY <1>2, <1>6 DEF Claims, Same
<1>9. Gentle(q.vol, r.a)
  BY <1>2, GentleSame
<1> QED BY <1>6, <1>7, <1>8, <1>9, WriteRaces

\* The slot that was found for the volume, or that it has.
LEMMA AcquiredClaims ==
    ASSUME NEW q \in RunType, q.cmd \in Publishers, q.vol \in Volume, NEW a, q.vol \in a.zvol,
           NEW t \in Target, NEW l \in 0..Luns - 1, NEW attached \in BOOLEAN, NEW fresh \in BOOLEAN,
           fresh => t \in Own /\ a.att[q.vol] = None,
           ~fresh => t \in a.made /\ (t \in Foreign => a.att[q.vol] = <<t, l>>)
    PROVE  LET n == Acquired(q, t, l, attached, fresh) IN Claims(n, a) /\ Same(q, n)
<1> DEFINE n == Acquired(q, t, l, attached, fresh)
<1>1. q.cmd \in Lookups \cup {"getCurrent", "remove", "unexport"} /\ t \in Target \cup {None}
      /\ q.cmd \notin {"get", "getCurrent", "remove", "unexport"}
  BY DEF Lookups, Publishers
<1>2. AcquiredAs(q, t, l, attached, fresh, n)
  BY <1>1, AcquiredShape
<1> HIDE DEF n
<1>3. /\ n.cmd = q.cmd /\ n.vol = q.vol /\ n.at = IF fresh THEN "vipsNew" ELSE "target"
      /\ n.tgt = t /\ n.lun = l
  BY <1>1, <1>2 DEF AcquiredAs
<1>4. Claims(n, a)
  BY <1>3 DEF Claims
<1> QED BY <1>3, <1>4 DEF Same, n

LEMMA LookupRaces == ASSUME Racing, NEW p \in Proc, Runner(p), Lookup(p) PROVE Races(p)
<1> DEFINE q == pr[p]
           slot == array.att[q.vol]
<1>1. /\ q \in RunType /\ array \in ArrayType /\ q.at = "lookup" /\ q.cmd \in Publishers
      /\ Housed(array) /\ Claims(q, array) /\ q.vol \in Volume
      /\ q.cmd \notin {"getCurrent", "remove", "unexport"}
  BY RunnerWorks DEF Lookup
<1>2. q.vol \in array.zvol
  BY <1>1 DEF Claims
<1>3. slot # None => /\ slot[1] \in array.made /\ slot[1] \in Target /\ slot[2] \in 0..Luns - 1
                     /\ slot = <<slot[1], slot[2]>>
  BY <1>1, Slots DEF Housed
<1>4. CASE slot # None /\ Read(p, Acquired(q, slot[1], slot[2], TRUE, FALSE))
  <2>1. ASSUME NEW t \in array.made, t \in Target, NEW l \in 0..Luns - 1, slot = <<t, l>>
        PROVE  Claims(Acquired(q, t, l, TRUE, FALSE), array) /\ Same(q, Acquired(q, t, l, TRUE, FALSE))
    <3> HIDE DEF q
    <3> QED BY <1>1, <1>2, <2>1, AcquiredClaims DEF q
  <2> DEFINE n == Acquired(q, slot[1], slot[2], TRUE, FALSE)
  <2>2. Claims(n, array) /\ Same(q, n)
    BY <1>3, <1>4, <2>1
  <2> HIDE DEF n
  <2> QED BY <1>4, <2>2, ReadRaces DEF n
<1>5. CASE slot # None /\ slot[1] \in Foreign
           /\ Read(p, [Go(q, "rehome") EXCEPT !.tgt = slot[1], !.lun = slot[2]])
  <2> DEFINE g == Go(q, "rehome")
             n == [g EXCEPT !.tgt = slot[1], !.lun = slot[2]]
  <2>1. g \in RunType /\ g.at = "rehome" /\ Same(q, g)
    <3>1. "rehome" \in Steps
      BY StepNames
    <3> QED BY <1>1, <3>1, GoFields DEF Same
  <2> HIDE DEF g, slot
  <2>2. n.at = "rehome" /\ Same(q, n) /\ n.tgt = slot[1]
    BY <2>1 DEF RunType, Same
  <2>3. Read(p, n)
    BY <1>5 DEF g, slot
  <2> HIDE DEF n
  <2>4. slot[1] \in Foreign
    BY <1>5 DEF slot
  <2>5. Claims(n, array)
    BY <1>2, <2>2, <2>4 DEF Claims, Same
  <2> QED BY <2>2, <2>3, <2>5, ReadRaces
<1>6. CASE Read(p, Go(q, "list"))
  <2> DEFINE n == Go(q, "list")
  <2>1. n.at = "list" /\ Same(q, n)
    <3>1. "list" \in Steps
      BY StepNames DEF Choosing
    <3> QED BY <1>1, <3>1, GoFields DEF Same
  <2> HIDE DEF n
  <2>2. Claims(n, array)
    BY <1>2, <2>1 DEF Claims, Same
  <2> QED BY <1>6, <2>1, <2>2, ReadRaces DEF n
<1> QED BY <1>1, <1>4, <1>5, <1>6, NotRefused DEF Lookup

LEMMA RehomeRaces == ASSUME Racing, NEW p \in Proc, Runner(p), Rehome(p) PROVE Races(p)
<1> DEFINE q == pr[p]
<1>1. /\ q \in RunType /\ array \in ArrayType /\ q.at = "rehome" /\ q.cmd \in Publishers
      /\ Housed(array) /\ Claims(q, array) /\ Placed(q, array) /\ q.vol \in Volume /\ q.lun \in 0..Luns - 1
  BY RunnerWorks DEF Rehome
<1>2. q.vol \in array.zvol /\ q.tgt \in Foreign /\ q.tgt \in Target /\ q.tgt \notin Own
  BY <1>1, Prefixes DEF Claims
<1>3. array.att[q.vol] = <<q.tgt, q.lun>> /\ q.tgt \in array.made
  <2>1. array.att[q.vol] = <<q.tgt, q.lun>>
    BY <1>1 DEF Placed
  <2>2. array.att[q.vol] # None /\ array.att[q.vol][1] = q.tgt
    BY <1>1, <1>2, <2>1, SlotNotNone
  <2> QED BY <1>1, <2>1, <2>2 DEF Housed
<1>4. CASE Read(p, Acquired(q, q.tgt, q.lun, TRUE, FALSE))
  <2> DEFINE n == Acquired(q, q.tgt, q.lun, TRUE, FALSE)
  <2>1. Claims(n, array) /\ Same(q, n)
    <3>1. ASSUME NEW t \in Target, NEW l \in 0..Luns - 1, t = q.tgt, l = q.lun
          PROVE  Claims(Acquired(q, t, l, TRUE, FALSE), array) /\ Same(q, Acquired(q, t, l, TRUE, FALSE))
      <4> HIDE DEF q
      <4> QED BY <1>1, <1>2, <1>3, <3>1, AcquiredClaims
    <3> QED BY <1>1, <1>2, <3>1
  <2> HIDE DEF n
  <2> QED BY <1>4, <2>1, ReadRaces DEF n
<1>5. CASE Read(p, [Go(q, "detach") EXCEPT !.from = q.tgt, !.back = "list"])
  <2> DEFINE g == Go(q, "detach")
             n == [g EXCEPT !.from = q.tgt, !.back = "list"]
  <2>1. g \in RunType /\ g.at = "detach" /\ Same(q, g) /\ g.tgt = q.tgt
    <3>1. "detach" \in Steps
      BY DEF Steps, Detaching
    <3> HIDE DEF q
    <3> QED BY <1>1, <3>1, GoFields DEF Same
  <2> HIDE DEF g
  <2>2. n.at = "detach" /\ n.from = q.tgt /\ Same(q, n) /\ n.tgt = q.tgt /\ n.back = "list"
    BY <2>1 DEF RunType, Same
  <2>3. Read(p, n)
    BY <1>5 DEF g
  <2> HIDE DEF n
  <2>4. Claims(n, array)
    BY <1>2, <2>2 DEF Claims, Same
  <2> QED BY <2>2, <2>3, <2>4, ReadRaces
<1> QED BY <1>4, <1>5, NotRefused DEF Rehome

LEMMA ListRaces == ASSUME Racing, NEW p \in Proc, Runner(p), List(p) PROVE Races(p)
<1> DEFINE q == pr[p]
           related == array.made \cap Own
           at == IF related = {} THEN "pick" ELSE "slot"
           g == Go(q, at)
           n == [g EXCEPT !.seen = related, !.todo = related, !.tgt = None, !.lun = 0]
<1>1. q \in RunType /\ q.at = "list" /\ Claims(q, array) /\ q.cmd \in Publishers
  BY RunnerWorks DEF List
<1>2. q.vol \in array.zvol
  BY <1>1 DEF Claims
<1>3. Read(p, n)
  BY NotRefused DEF List
<1>4. at \in Steps /\ at \in {"slot", "pick"}
  BY DEF Steps
<1> HIDE DEF at, related
<1>5. g \in RunType /\ g.at = at /\ Same(q, g)
  BY <1>1, <1>4, GoFields DEF Same
<1> HIDE DEF g
<1>6. n.at = at /\ Same(q, n)
  BY <1>5 DEF RunType, Same
<1> HIDE DEF n
<1>7. Claims(n, array)
  BY <1>2, <1>4, <1>6 DEF Claims, Same
<1> QED BY <1>3, <1>6, <1>7, ReadRaces

LEMMA SlotOfRaces == ASSUME Racing, NEW p \in Proc, Runner(p), SlotOf(p) PROVE Races(p)
<1> DEFINE q == pr[p]
           t == Smallest(q.todo)
           free == (0..Luns - 1) \ LunsOf(array, t)
           at == IF q.todo = {t} THEN "pick" ELSE "slot"
           g == Go(q, at)
           n == [g EXCEPT !.todo = @ \ {t}]
<1>1. /\ q \in RunType /\ q.at = "slot" /\ Job(q) /\ Claims(q, array) /\ q.cmd \in Publishers
      /\ q.vol \in Volume
  BY RunnerWorks DEF SlotOf
<1>2. q.vol \in array.zvol /\ q.todo \subseteq Own /\ q.todo # {}
  BY <1>1 DEF Claims, Job, Args
<1>3. t \in Own /\ t \in Target /\ t \notin Foreign
  BY <1>2, Indices, SmallestIn, Prefixes
<1>4. CASE Read(p, n)
  <2>1. at \in Steps /\ at \in {"slot", "pick"}
    BY DEF Steps
  <2> HIDE DEF at, free, t
  <2>2. g \in RunType /\ g.at = at /\ Same(q, g)
    BY <1>1, <2>1, GoFields DEF Same
  <2> HIDE DEF g
  <2>3. n.at = at /\ Same(q, n)
    BY <2>2 DEF RunType, Same
  <2> HIDE DEF n
  <2>4. Claims(n, array)
    BY <1>2, <2>1, <2>3 DEF Claims, Same
  <2> QED BY <1>4, <2>3, <2>4, ReadRaces
<1>5. CASE t \in array.made /\ free # {} /\ Read(p, Acquired(q, t, Smallest(free), FALSE, FALSE))
  <2>1. free \in SUBSET Nat
    <3>1. free \subseteq 0..Luns - 1 /\ 0..Luns - 1 \subseteq Nat
      BY TargetsAssumption
    <3> QED BY <3>1
  <2> DEFINE l == Smallest(free)
             m == Acquired(q, t, l, FALSE, FALSE)
  <2>2. l \in 0..Luns - 1
    BY <1>5, <2>1, SmallestIn
  <2>3. Claims(m, array) /\ Same(q, m)
    <3> HIDE DEF q, t, l
    <3> QED BY <1>1, <1>2, <1>3, <1>5, <2>2, AcquiredClaims DEF q
  <2>4. Read(p, m)
    BY <1>5
  <2> HIDE DEF m
  <2> QED BY <2>3, <2>4, ReadRaces
<1> QED BY <1>4, <1>5, NotRefused DEF SlotOf

LEMMA PickRaces == ASSUME Racing, NEW p \in Proc, Runner(p), Pick(p) PROVE Races(p)
<1> DEFINE q == pr[p]
           candidates == {i \in q.idx..Cardinality(q.seen) : i \notin q.seen}
           i == Smallest(candidates)
           n == [q EXCEPT !.idx = i + 1]
<1>1. /\ q \in RunType /\ q.at = "pick" /\ Placed(q, array) /\ Claims(q, array) /\ q.cmd \in Publishers
      /\ q.vol \in Volume
  BY RunnerWorks DEF Pick
<1>2. q.vol \in array.zvol /\ array.att[q.vol] = None /\ 0 \in 0..Luns - 1
  BY <1>1, TargetsAssumption DEF Claims, Placed, Choosing
<1>3. ASSUME NEW t \in Own
      PROVE  LET m == Acquired(q, t, 0, FALSE, TRUE) IN Claims(m, array) /\ Same(q, m)
  <2>1. t \in Target /\ TRUE \in BOOLEAN /\ FALSE \in BOOLEAN
    BY Indices
  <2> HIDE DEF q
  <2> QED BY <1>1, <1>2, <2>1, AcquiredClaims DEF q
<1>4. CASE Read(p, Acquired(q, 0, 0, FALSE, TRUE))
  BY <1>3, <1>4, Indices, ReadRaces
<1>5. CASE i \in Own \ array.made /\ Read(p, Acquired(q, i, 0, FALSE, TRUE))
  <2> HIDE DEF i
  <2> QED BY <1>3, <1>5, ReadRaces
<1>6. CASE Read(p, n)
  <2> HIDE DEF i
  <2>1. Same(q, n) /\ n.at = "pick"
    BY <1>1 DEF RunType, Same
  <2> HIDE DEF n
  <2>2. Claims(n, array)
    BY <1>2, <2>1 DEF Claims, Same
  <2> QED BY <1>6, <2>1, <2>2, ReadRaces
<1> QED BY <1>4, <1>5, <1>6, NotRefused DEF Pick

\* Where a publication goes with its target and its LUN unchanged.
LEMMA Onward ==
    ASSUME NEW q \in RunType, NEW at \in Steps
    PROVE  /\ Go(q, at).at = at /\ Same(q, Go(q, at))
           /\ Go(q, at).tgt = q.tgt /\ Go(q, at).lun = q.lun
<1> QED BY GoFields DEF Same

\* A volume in its slot is on a target that is there.
LEMMA InItsSlot ==
    ASSUME NEW a, Housed(a), NEW v \in Volume, NEW t, NEW l, a.att[v] = <<t, l>>, <<t, l>> # None
    PROVE  t \in a.made /\ v \in On(a, t)
<1>1. a.att[v] # None /\ a.att[v][1] = t
  OBVIOUS
<1> QED BY <1>1 DEF Housed, On

\* A process that publishes its volume on a target.
LEMMA RunnerPublishes ==
    ASSUME NEW p \in Proc, Runner(p), pr[p].at \in Attaching \cup Crediting \cup {"vipsNew"}
    PROVE  Publishing(pr[p]) /\ pr[p].tgt \in Target /\ pr[p].vol \in array.zvol /\ <<pr[p].tgt, pr[p].lun>> # None
<1>1. /\ pr[p] \in RunType /\ Job(pr[p]) /\ pr[p].cmd \in Publishers /\ pr[p].vol \in Volume
      /\ pr[p].lun \in 0..Luns - 1 /\ Claims(pr[p], array)
  BY RunnerWorks
<1>2. pr[p].tgt \in Target
  BY <1>1 DEF Job, Args
<1>3. pr[p].vol \in array.zvol
  BY <1>1 DEF Claims, Attaching, Crediting
<1> QED BY <1>1, <1>2, <1>3, SlotNotNone DEF Publishing

LEMMA PublishedClaims ==
    ASSUME NEW q, Publishing(q), NEW a, q.vol \in a.zvol
    PROVE  Claims(Published(q), a) /\ Same(q, Published(q))
<1> DEFINE n == Published(q)
<1>1. PublishedAs(q, n)
  BY PublishedShape DEF Publishing
<1> HIDE DEF n
<1>2. Same(q, n) /\ (n.at \in {"setUser", "active", "users"} \/ (n.at = "done" /\ n.res = "ok"))
  BY <1>1 DEF PublishedAs, Same
<1>3. Claims(n, a)
  BY <1>2 DEF Claims, Same
<1> QED BY <1>2, <1>3 DEF n

LEMMA VipsNewRaces == ASSUME Racing, NEW p \in Proc, Runner(p), VipsNew(p) PROVE Races(p)
<1> DEFINE q == pr[p]
           n == Go(q, "create")
<1>1. /\ q \in RunType /\ q.at = "vipsNew" /\ q.cmd \notin {"get", "getCurrent"} /\ Claims(q, array)
      /\ q.cmd \in Publishers
  BY RunnerWorks DEF VipsNew
<1>2. q.vol \in array.zvol /\ q.tgt \in Own /\ array.att[q.vol] = None
  BY <1>1 DEF Claims
<1>3. Read(p, n)
  BY <1>1, NoErrors DEF VipsNew
<1>4. n.at = "create" /\ Same(q, n) /\ n.tgt = q.tgt
  BY <1>1, Onward DEF Steps
<1> HIDE DEF n
<1>5. Claims(n, array)
  BY <1>2, <1>4 DEF Claims, Same
<1> QED BY <1>3, <1>4, <1>5, ReadRaces

LEMMA CreateTargetRaces == ASSUME Racing, NEW p \in Proc, Runner(p), CreateTarget(p) PROVE Races(p)
<1> DEFINE q == pr[p]
           r == create_target(array, q.tgt, q.user)
           again == create_target(r.a, q.tgt, q.user)
<1>1. q.at = "create" /\ q.at \in Attaching
  BY DEF CreateTarget, Attaching
<1>2. q \in RunType /\ array \in ArrayType /\ Claims(q, array) /\ q.cmd \in Publishers
  BY RunnerWorks
<1>3. q.tgt \in Target /\ q.vol \in array.zvol
  BY <1>1, RunnerPublishes
<1>4. q.tgt \in Own /\ array.att[q.vol] = None
  BY <1>1, <1>2 DEF Claims
<1>5. /\ r.r \in {"ok", "exists"} /\ r.a.att = array.att /\ r.a.zvol = array.zvol
      /\ array.made \subseteq r.a.made /\ q.tgt \in r.a.made /\ again = Ret(r.a, "exists")
  BY <1>2, <1>3, create_target_Effect
<1>6. PICK o \in Answers(q, "create_target", r, again) :
         Write(p, o.a, IF o.r \in {"ok", "exists"} THEN [Go(q, "attach") EXCEPT !.tries = 0]
                       ELSE Raised(q, o.r))
  BY DEF CreateTarget
<1>7. again.a = r.a /\ again.r = "exists"
  BY <1>5 DEF Ret
<1> HIDE DEF r, again
<1>8. o.a = r.a /\ o.r \in {"ok", "exists"}
  BY <1>5, <1>6, <1>7, TwoAnswers
<1> DEFINE g == Go(q, "attach")
           n == [g EXCEPT !.tries = 0]
<1>9. g \in RunType /\ g.at = "attach" /\ Same(q, g) /\ g.tgt = q.tgt
  BY <1>2, GoFields DEF Steps, Same
<1>10. Write(p, r.a, n)
  BY <1>6, <1>8
<1> HIDE DEF g
<1>11. n.at = "attach" /\ Same(q, n) /\ n.tgt = q.tgt /\ n.tries = 0
  BY <1>9 DEF RunType, Same
<1> HIDE DEF n
<1>12. Claims(n, r.a)
  BY <1>3, <1>4, <1>5, <1>11 DEF Claims, Same
<1>13. Gentle(q.vol, r.a)
  BY <1>5, GentleSame
<1> QED BY <1>10, <1>11, <1>12, <1>13, WriteRaces

LEMMA GetTargetRaces == ASSUME Racing, NEW p \in Proc, Runner(p), GetTarget(p) PROVE Races(p)
<1> DEFINE q == pr[p]
<1>1. /\ q \in RunType /\ q.at = "target" /\ q.cmd # "update" /\ Claims(q, array) /\ q.cmd \in Publishers
  BY RunnerWorks DEF GetTarget
<1>2. q.vol \in array.zvol /\ q.tgt \in array.made /\ (q.tgt \in Foreign => array.att[q.vol] = <<q.tgt, q.lun>>)
  BY <1>1 DEF Claims
<1> DEFINE g == Go(q, "vips")
           c == array.chap[q.tgt]
           n == [g EXCEPT !.flag = c]
<1>3. Read(p, n)
  BY <1>1, <1>2, NotRefused DEF GetTarget
<1> HIDE DEF c
<1>4. g \in RunType /\ g.at = "vips" /\ Same(q, g) /\ g.tgt = q.tgt /\ g.lun = q.lun
  BY <1>1, GoFields DEF Steps, Same
<1> HIDE DEF g
<1>5. n.at = "vips" /\ Same(q, n) /\ n.tgt = q.tgt /\ n.lun = q.lun
  BY <1>4 DEF RunType, Same
<1> HIDE DEF n
<1>6. Claims(n, array)
  BY <1>2, <1>5 DEF Claims, Same
<1> QED BY <1>3, <1>5, <1>6, ReadRaces

LEMMA VipsRaces == ASSUME Racing, NEW p \in Proc, Runner(p), Vips(p) PROVE Races(p)
<1> DEFINE q == pr[p]
<1>1. q.at = "vips" /\ q.at \in Attaching
  BY DEF Vips, Attaching
<1>2. q \in RunType /\ Claims(q, array) /\ q.cmd \in Publishers /\ Publishing(q)
  BY <1>1, RunnerWorks, RunnerPublishes
<1>3. q.vol \in array.zvol /\ q.tgt \in array.made /\ (q.tgt \in Foreign => array.att[q.vol] = <<q.tgt, q.lun>>)
  BY <1>1, <1>2 DEF Claims
<1>4. CASE Read(p, Published(q))
  BY <1>2, <1>3, <1>4, PublishedClaims, ReadRaces
<1>5. CASE Read(p, Go(q, "getLun"))
  <2> DEFINE n == Go(q, "getLun")
  <2>1. n.at = "getLun" /\ Same(q, n) /\ n.tgt = q.tgt /\ n.lun = q.lun
    BY <1>2, Onward DEF Steps
  <2> HIDE DEF n
  <2>2. Claims(n, array)
    BY <1>3, <2>1 DEF Claims, Same
  <2> QED BY <1>5, <2>1, <2>2, ReadRaces DEF n
<1> QED BY <1>3, <1>4, <1>5, NotRefused DEF Vips

LEMMA GetLunRaces == ASSUME Racing, NEW p \in Proc, Runner(p), GetLun(p) PROVE Races(p)
<1> DEFINE q == pr[p]
<1>1. q.at = "getLun" /\ q.at \in Attaching
  BY DEF GetLun, Attaching
<1>2. /\ q \in RunType /\ Claims(q, array) /\ q.cmd \in Publishers /\ Publishing(q) /\ Placed(q, array)
      /\ q.tgt \in Target /\ <<q.tgt, q.lun>> # None /\ Housed(array)
  BY <1>1, RunnerWorks, RunnerPublishes
<1>3. q.vol \in array.zvol /\ q.tgt \in array.made /\ (q.tgt \in Foreign => array.att[q.vol] = <<q.tgt, q.lun>>)
  BY <1>1, <1>2 DEF Claims
<1>4. CASE Read(p, Published(q))
  BY <1>2, <1>3, <1>4, PublishedClaims, ReadRaces
<1>5. CASE q.vol \notin On(array, q.tgt) /\ Read(p, [Go(q, "attach") EXCEPT !.tries = 0])
  <2> DEFINE g == Go(q, "attach")
             n == [g EXCEPT !.tries = 0]
  <2>1. g \in RunType /\ g.at = "attach" /\ Same(q, g) /\ g.tgt = q.tgt
    BY <1>2, GoFields DEF Steps, Same
  <2>2. Read(p, n)
    BY <1>5
  <2> HIDE DEF g
  <2>3. n.at = "attach" /\ Same(q, n) /\ n.tgt = q.tgt /\ n.tries = 0
    BY <2>1 DEF RunType, Same
  <2> HIDE DEF n
  <2>4. array.att[q.vol] # <<q.tgt, q.lun>>
    BY <1>2, <1>5, InItsSlot DEF Publishing
  <2>5. array.att[q.vol] = None
    BY <1>1, <1>2, <2>4 DEF Placed
  <2>6. q.tgt \in Own
    BY <1>2, <1>3, <2>4, Prefixes
  <2>7. Claims(n, array)
    BY <1>3, <2>3, <2>5, <2>6 DEF Claims, Same
  <2> QED BY <2>2, <2>3, <2>7, ReadRaces
<1> QED BY <1>4, <1>5, NotRefused DEF GetLun

\* An attach beside others: it is answered ok, as busy when it is resent, or as
\* to a LUN that another volume has.
LEMMA RacedAttach ==
    ASSUME NEW a \in ArrayType, NEW t \in a.made, NEW v \in a.zvol, NEW l \in 0..Luns - 1,
           a.att[v] = None, <<t, l>> # None,
           NEW r, r = attach_target_vol(a, t, v, l),
           NEW again, again = attach_target_vol(r.a, t, v, l)
    PROVE  \/ l \in LunsOf(a, t) /\ r = Ret(a, "exists") /\ again = Ret(a, "exists")
           \/ r.r = "ok" /\ again = Ret(r.a, "busy") /\ r.a.att[v] = <<t, l>>
<1>1. CASE l \in LunsOf(a, t)
  <2>1. r = Ret(a, "exists")
    BY <1>1 DEF attach_target_vol
  <2>2. r.a = a
    BY <2>1 DEF Ret
  <2> QED BY <1>1, <2>1, <2>2 DEF attach_target_vol
<1>2. CASE l \notin LunsOf(a, t)
  <2>1. v \in Volume
    BY Fields
  <2>2. /\ a.att[v] = None /\ l \notin LunsOf(a, t) /\ v \in a.zvol
        /\ \/ v \notin a.zvol /\ r = Ret(a, "notfound") /\ again = Ret(a, "notfound")
           \/ r.r = "ok" /\ again = Ret(r.a, "busy") /\ r.a.att[v] = <<t, l>>
    BY <1>2, <2>1, FreeAttach
  <2> QED BY <2>2
<1> QED BY <1>1, <1>2

LEMMA AttachRaces == ASSUME Racing, NEW p \in Proc, Runner(p), Attach(p) PROVE Races(p)
<1> DEFINE q == pr[p]
           r == attach_target_vol(array, q.tgt, q.vol, q.lun)
           again == attach_target_vol(r.a, q.tgt, q.vol, q.lun)
<1>1. q.at = "attach" /\ q.at \in Attaching
  BY DEF Attach, Attaching
<1>2. /\ q \in RunType /\ Claims(q, array) /\ q.cmd \in Publishers /\ Publishing(q) /\ array \in ArrayType
      /\ q.tgt \in Target /\ <<q.tgt, q.lun>> # None /\ q.vol \in Volume /\ q.lun \in 0..Luns - 1
  BY <1>1, RunnerWorks, RunnerPublishes
<1>3. q.vol \in array.zvol /\ q.tries = 0 /\ q.tgt \in Own /\ q.tgt \in array.made /\ array.att[q.vol] = None
  BY <1>1, <1>2 DEF Claims
<1>4. \/ q.lun \in LunsOf(array, q.tgt) /\ r = Ret(array, "exists") /\ again = Ret(array, "exists")
      \/ r.r = "ok" /\ again = Ret(r.a, "busy") /\ r.a.att[q.vol] = <<q.tgt, q.lun>>
  <2> HIDE DEF q
  <2> QED BY <1>2, <1>3, RacedAttach
<1>5. /\ r.a.zvol = array.zvol /\ r.a.made = array.made /\ again.a = r.a
      /\ \A w \in Volume : (w = q.vol /\ array.att[w] = None) \/ r.a.att[w] = array.att[w]
  BY <1>2, attach_target_vol_Effect
<1>6. PICK o \in Answers(q, "attach", r, again) \cup {Ret(array, "blocked") : e \in Errors(q, "blocked")} :
         Write(p, o.a, IF o.r = "ok" THEN Published(q)
                       ELSE IF o.r \in {"busy", "blocked"} /\ q.tries + 1 < Attempts
                            THEN [Go(Felt(q, o.r), "resolve") EXCEPT !.tries = @ + 1]
                            ELSE Raised(q, o.r))
  BY DEF Attach
<1>7. o = r \/ o = again
  <2>1. Errors(q, "blocked") = {}
    BY NoErrors
  <2>2. o \in Answers(q, "attach", r, again)
    BY <1>6, <2>1
  <2> HIDE DEF r, again
  <2> QED BY <2>2, TwoAnswers
<1> HIDE DEF r, again
<1>8. o.a = r.a /\ o.a.zvol = array.zvol
  BY <1>5, <1>7
<1>9. \/ o.r = "exists" /\ o.a = array /\ q.lun \in LunsOf(array, q.tgt)
      \/ o.r \in {"ok", "busy"} /\ o.a.att[q.vol] = <<q.tgt, q.lun>>
  BY <1>4, <1>7, <1>8 DEF Ret
<1>10. Gentle(q.vol, o.a)
  <2>1. \A w \in Volume : w # q.vol => o.a.att[w] = array.att[w]
    BY <1>5, <1>8
  <2>2. CASE o.a = array
    BY <2>2, GentleSame
  <2>3. CASE o.a.att[q.vol] = <<q.tgt, q.lun>>
    <3>1. o.a.att[q.vol] # None /\ o.a.att[q.vol][1] \in Own
      BY <1>2, <1>3, <2>3
    <3> QED BY <1>3, <1>5, <1>8, <2>1, <3>1 DEF Gentle
  <2> QED BY <1>9, <2>2, <2>3
<1>11. CASE o.r = "ok"
  <2>1. Write(p, o.a, Published(q))
    BY <1>6, <1>11
  <2>2. Claims(Published(q), o.a) /\ Same(q, Published(q))
    BY <1>2, <1>3, <1>8, PublishedClaims
  <2> QED BY <1>10, <2>1, <2>2, WriteRaces
<1>12. CASE o.r = "busy" /\ o.a.att[q.vol] = <<q.tgt, q.lun>>
  <2> DEFINE g == Go(q, "resolve")
             n == [g EXCEPT !.tries = @ + 1]
  <2>1. Felt(q, o.r) = q /\ q.tries + 1 < Attempts
    BY <1>3, <1>12 DEF Felt, Racing
  <2>2. Write(p, o.a, n)
    BY <1>6, <1>12, <2>1
  <2>3. g \in RunType /\ g.at = "resolve" /\ Same(q, g) /\ g.tgt = q.tgt /\ g.lun = q.lun
    BY <1>2, GoFields DEF Steps, Same
  <2> HIDE DEF g
  <2>4. n.at = "resolve" /\ Same(q, n) /\ n.tgt = q.tgt /\ n.lun = q.lun
    BY <2>3 DEF RunType, Same
  <2> HIDE DEF n
  <2>5. Claims(n, o.a)
    BY <1>3, <1>8, <1>12, <2>4 DEF Claims, Same
  <2> QED BY <1>10, <2>2, <2>4, <2>5, WriteRaces
<1>13. CASE o.r = "exists" /\ o.a = array /\ q.lun \in LunsOf(array, q.tgt)
  <2>1. Write(p, o.a, Raised(q, o.r))
    BY <1>6, <1>13
  <2>2. Lost(q, array)
    <3>1. PICK w \in On(array, q.tgt) : array.att[w][2] = q.lun
      BY <1>13 DEF LunsOf
    <3>2. w \in Volume /\ array.att[w] # None /\ array.att[w][1] = q.tgt
      BY DEF On
    <3>3. array.att[w] = <<q.tgt, q.lun>>
      BY <1>2, <3>1, <3>2, Slots
    <3>4. w # q.vol
      BY <1>3, <3>2
    <3> QED BY <3>2, <3>3, <3>4 DEF Lost
  <2>3. Claims(Raised(q, o.r), o.a) /\ Same(q, Raised(q, o.r))
    <3>1. q.at \notin Scanning /\ q.at # "clone" /\ o.r # "cfg"
      BY <1>1, <1>13 DEF Scanning
    <3> HIDE DEF q
    <3> QED BY <1>2, <1>3, <1>13, <2>2, <3>1, RaisedClaims
  <2> QED BY <1>10, <2>1, <2>3, WriteRaces
<1> QED BY <1>9, <1>11, <1>12, <1>13

LEMMA ResolveRaces == ASSUME Racing, NEW p \in Proc, Runner(p), Resolve(p) PROVE Races(p)
<1> DEFINE q == pr[p]
           slot == array.att[q.vol]
           n == Go(q, "confirm")
<1>1. q.at = "resolve" /\ q.at \in Attaching
  BY DEF Resolve, Attaching
<1>2. /\ q \in RunType /\ Claims(q, array) /\ q.cmd \in Publishers
      /\ <<q.tgt, q.lun>> # None /\ q.vol \in array.zvol
  BY <1>1, RunnerWorks, RunnerPublishes
<1>3. slot = <<q.tgt, q.lun>> /\ slot # None /\ q.tgt \notin Clash
  BY <1>1, <1>2 DEF Claims, Racing
<1>4. Read(p, n)
  BY <1>3, NotRefused DEF Resolve
<1>5. n.at = "confirm" /\ Same(q, n)
  BY <1>2, Onward DEF Steps
<1> HIDE DEF n
<1>6. Claims(n, array)
  BY <1>2, <1>5 DEF Claims, Same
<1> QED BY <1>4, <1>5, <1>6, ReadRaces

LEMMA ConfirmRaces == ASSUME Racing, NEW p \in Proc, Runner(p), Confirm(p) PROVE Races(p)
<1> DEFINE q == pr[p]
<1>1. q.at = "confirm" /\ q.at \in Attaching
  BY DEF Confirm, Attaching
<1>2. /\ q.cmd \in Publishers /\ Publishing(q) /\ Placed(q, array) /\ Housed(array)
      /\ <<q.tgt, q.lun>> # None /\ q.vol \in array.zvol
  BY <1>1, RunnerWorks, RunnerPublishes
<1>3. q.vol \in On(array, q.tgt)
  BY <1>1, <1>2, InItsSlot DEF Placed, Publishing
<1>4. Read(p, Published(q))
  BY <1>3, NotRefused DEF Confirm
<1> QED BY <1>2, <1>4, PublishedClaims, ReadRaces

\* A publication of which the volume is in its slot.
LEMMA RunnerCredits ==
    ASSUME NEW p \in Proc, Runner(p), pr[p].at \in {"users", "delUser", "setUser", "active"}
    PROVE  /\ Publishing(pr[p]) /\ pr[p].tgt \in array.made /\ pr[p].vol \in array.zvol
           /\ pr[p].cmd # "update" /\ array \in ArrayType /\ pr[p].user \in User \cup {None}
           /\ pr[p].at = "delUser" => pr[p].user = None /\ pr[p].todo \subseteq User
           /\ pr[p].at = "setUser" => pr[p].user \in User
<1> DEFINE q == pr[p]
<1>1. Publishing(q) /\ q.vol \in array.zvol /\ <<q.tgt, q.lun>> # None
  BY RunnerPublishes DEF Crediting
<1>2. /\ Job(q) /\ Housed(array) /\ Placed(q, array) /\ Claims(q, array) /\ q.cmd \in Publishers
      /\ q.cmd # "update" /\ array \in ArrayType /\ q.vol \in Volume /\ q.user \in User \cup {None}
  BY RunnerWorks
<1>3. array.att[q.vol] = <<q.tgt, q.lun>>
  BY <1>2 DEF Placed
<1>4. q.tgt \in array.made
  BY <1>1, <1>2, <1>3, InItsSlot
<1> QED BY <1>1, <1>2, <1>4 DEF Claims, Job, Args

\* An answer about credentials leaves a publication with its claims.
LEMMA CreditedClaims ==
    ASSUME NEW q, Publishing(q), NEW n, Same(q, n), NEW a, q.vol \in a.zvol,
           \/ n.at \in {"active", "users", "setUser"}
           \/ n.at = "delUser" /\ n.user = None
           \/ n.at = "done" /\ n.res = "ok"
    PROVE  Claims(n, a)
<1> QED BY DEF Claims, Same

LEMMA UsersRaces == ASSUME Racing, NEW p \in Proc, Runner(p), Users(p) PROVE Races(p)
<1> DEFINE q == pr[p]
           wanted == {q.user} \ {None}
           users == array.users[q.tgt]
           settled == IF q.user = None THEN Finish(q, "ok") ELSE Go(q, "active")
<1>1. q.at = "users" /\ q.at \in {"users", "delUser", "setUser", "active"}
  BY DEF Users
<1>2. /\ Publishing(q) /\ q.tgt \in array.made /\ q.vol \in array.zvol /\ q.cmd # "update"
      /\ q.user \in User \cup {None} /\ array \in ArrayType /\ q \in RunType
  BY <1>1, RunnerCredits DEF Publishing
<1>3. users \subseteq User
  BY <1>2 DEF ArrayType, Publishing
<1>4. CASE Read(p, settled)
  <2>1. Same(q, settled) /\ (settled.at = "active" \/ (settled.at = "done" /\ settled.res = "ok"))
    BY <1>2, GoFields, FinishFields DEF Same, Steps, Results
  <2> HIDE DEF settled
  <2>2. Claims(settled, array)
    BY <1>2, <2>1, CreditedClaims
  <2> QED BY <1>4, <2>1, <2>2, ReadRaces
<1>5. CASE users # wanted /\ Read(p, [Go(q, IF users = {} THEN "setUser" ELSE "delUser") EXCEPT !.todo = users])
  <2> DEFINE at == IF users = {} THEN "setUser" ELSE "delUser"
             g == Go(q, at)
             n == [g EXCEPT !.todo = users]
  <2>1. at \in Steps /\ at \in {"setUser", "delUser"}
    BY DEF Steps
  <2>2. at = "delUser" => q.user = None
    <3>1. SUFFICES ASSUME users # {}, q.user \in User PROVE users = {q.user}
      BY <1>2, <1>5, TargetsAssumption
    <3> QED BY <1>3, <3>1 DEF Racing
  <2>3. Read(p, n)
    BY <1>5
  <2> HIDE DEF at
  <2>4. g \in RunType /\ g.at = at /\ Same(q, g) /\ g.user = q.user
    BY <1>2, <2>1, GoFields DEF Same
  <2> HIDE DEF g
  <2>5. n.at = at /\ Same(q, n) /\ n.user = q.user
    BY <2>4 DEF RunType, Same
  <2> HIDE DEF n
  <2>6. Claims(n, array)
    BY <1>2, <2>1, <2>2, <2>5, CreditedClaims
  <2> QED BY <2>3, <2>5, <2>6, ReadRaces
<1> QED BY <1>2, <1>4, <1>5, NotRefused DEF Users

LEMMA DelUserRaces == ASSUME Racing, NEW p \in Proc, Runner(p), DelUser(p) PROVE Races(p)
<1> DEFINE q == pr[p]
<1>1. q.at = "delUser" /\ q.at \in {"users", "delUser", "setUser", "active"}
  BY DEF DelUser
<1>2. /\ Publishing(q) /\ q.tgt \in array.made /\ q.vol \in array.zvol
      /\ q.user = None /\ array \in ArrayType /\ q \in RunType /\ q.tgt \in Target
  BY <1>1, RunnerCredits DEF Publishing
<1>3. PICK u \in q.todo :
         LET r == delete_target_user(array, q.tgt, u)
             last == q.todo = {u}
             next == [q EXCEPT !.todo = @ \ {u}, !.at = IF last THEN "setUser" ELSE "delUser"] IN
         \E o \in Answers(q, "users", r, delete_target_user(r.a, q.tgt, u)) :
            Write(p, o.a,
                  IF o.r = "ok"
                  THEN IF last /\ q.user = None THEN Finish(q, "ok") ELSE next
                  ELSE IF o.r = "notfound" /\ q.user = None THEN Finish(q, "ok")
                       ELSE Raised(q, o.r))
  BY DEF DelUser
<1> DEFINE r == delete_target_user(array, q.tgt, u)
           again == delete_target_user(r.a, q.tgt, u)
           last == q.todo = {u}
           at == IF last THEN "setUser" ELSE "delUser"
           next == [q EXCEPT !.todo = @ \ {u}, !.at = at]
<1>4. /\ r.r \in {"ok", "notfound"} /\ r.a.att = array.att /\ r.a.zvol = array.zvol
      /\ r.a.made = array.made /\ again = Ret(r.a, "notfound")
  BY <1>2, delete_target_user_Effect
<1>5. PICK o \in Answers(q, "users", r, again) :
         Write(p, o.a,
               IF o.r = "ok"
               THEN IF last /\ q.user = None THEN Finish(q, "ok") ELSE next
               ELSE IF o.r = "notfound" /\ q.user = None THEN Finish(q, "ok")
                    ELSE Raised(q, o.r))
  BY <1>3
<1>6. again.a = r.a /\ again.r = "notfound"
  BY <1>4 DEF Ret
<1> HIDE DEF r, again
<1>7. o.a = r.a /\ o.r \in {"ok", "notfound"}
  BY <1>4, <1>5, <1>6, TwoAnswers
<1>8. Gentle(q.vol, r.a) /\ q.vol \in r.a.zvol
  BY <1>2, <1>4, GentleSame
<1>9. \/ Write(p, r.a, Finish(q, "ok"))
      \/ ~last /\ Write(p, r.a, next)
  BY <1>2, <1>5, <1>7
<1>10. CASE Write(p, r.a, Finish(q, "ok"))
  <2> DEFINE n == Finish(q, "ok")
  <2>1. n.at = "done" /\ n.res = "ok" /\ Same(q, n)
    BY <1>2, FinishFields DEF Same, Results
  <2> HIDE DEF n
  <2>2. Claims(n, r.a)
    BY <1>2, <1>8, <2>1, CreditedClaims
  <2> QED BY <1>8, <1>10, <2>1, <2>2, WriteRaces DEF n
<1>11. CASE ~last /\ Write(p, r.a, next)
  <2>1. at = "delUser"
    BY <1>11
  <2> HIDE DEF at
  <2>2. next.at = "delUser" /\ next.user = None /\ Same(q, next)
    BY <1>2, <2>1 DEF RunType, Same
  <2> HIDE DEF next
  <2>3. Claims(next, r.a)
    BY <1>2, <1>8, <2>2, CreditedClaims
  <2> QED BY <1>8, <1>11, <2>2, <2>3, WriteRaces
<1> QED BY <1>9, <1>10, <1>11

LEMMA SetUserRaces == ASSUME Racing, NEW p \in Proc, Runner(p), SetUser(p) PROVE Races(p)
<1> DEFINE q == pr[p]
           r == create_target_user(array, q.tgt, q.user)
           again == create_target_user(r.a, q.tgt, q.user)
           n == IF q.fresh THEN Finish(q, "ok") ELSE Go(q, "active")
<1>1. q.at = "setUser" /\ q.at \in {"users", "delUser", "setUser", "active"}
  BY DEF SetUser
<1>2. /\ Publishing(q) /\ q.tgt \in array.made /\ q.vol \in array.zvol
      /\ q.user \in User /\ array \in ArrayType /\ q \in RunType /\ q.tgt \in Target
  BY <1>1, RunnerCredits DEF Publishing
<1>3. r.a.att = array.att /\ r.a.zvol = array.zvol /\ r.a.made = array.made /\ again = r
  BY <1>2, create_target_user_Effect
<1>4. r.r = "ok"
  BY <1>2 DEF create_target_user, Ret
<1>5. PICK o \in Answers(q, "set_user", r, again) :
          Write(p, o.a,
                IF o.r = "ok" THEN IF q.fresh THEN Finish(q, "ok") ELSE Go(q, "active")
                ELSE IF q.cmd = "update" THEN Raised(q, o.r)
                ELSE [Go(Felt(q, o.r), "dropBad") EXCEPT !.back = o.r])
  BY DEF SetUser
<1> HIDE DEF r, again
<1>6. o = r
  BY <1>3, <1>5, TwoAnswers
<1>7. Write(p, r.a, n)
  BY <1>4, <1>5, <1>6
<1>8. Gentle(q.vol, r.a) /\ q.vol \in r.a.zvol
  BY <1>2, <1>3, GentleSame
<1>9. Same(q, n) /\ (n.at = "active" \/ (n.at = "done" /\ n.res = "ok"))
  BY <1>2, GoFields, FinishFields DEF Same, Steps, Results
<1> HIDE DEF n
<1>10. Claims(n, r.a)
  BY <1>2, <1>8, <1>9, CreditedClaims
<1> QED BY <1>7, <1>8, <1>9, <1>10, WriteRaces

LEMMA ActiveRaces == ASSUME Racing, NEW p \in Proc, Runner(p), Active(p) PROVE Races(p)
<1> DEFINE q == pr[p]
           want == q.user # None
           n == IF want THEN Finish(q, "ok") ELSE Go(q, "users")
           r == set_target_incoming_users_active(array, q.tgt, want)
<1>1. q.at = "active" /\ q.at \in {"users", "delUser", "setUser", "active"}
  BY DEF Active
<1>2. /\ Publishing(q) /\ q.tgt \in array.made /\ q.vol \in array.zvol
      /\ array \in ArrayType /\ q \in RunType /\ q.tgt \in Target
  BY <1>1, RunnerCredits DEF Publishing
<1>3. r.a.att = array.att /\ r.a.zvol = array.zvol /\ r.a.made = array.made
  <2>1. want \in BOOLEAN
    OBVIOUS
  <2> HIDE DEF want
  <2> QED BY <1>2, <2>1, set_active_Effect
<1>4. r.r = "ok"
  BY <1>2 DEF set_target_incoming_users_active, Ret
<1>5. \/ Read(p, n)
      \/ \E o \in Answers(q, "active", r, r) : Write(p, o.a, IF o.r = "ok" THEN n ELSE Raised(q, o.r))
  BY DEF Active
<1>6. Same(q, n) /\ (n.at = "users" \/ (n.at = "done" /\ n.res = "ok"))
  BY <1>2, GoFields, FinishFields DEF Same, Steps, Results
<1> HIDE DEF n, r
<1>7. CASE Read(p, n)
  BY <1>2, <1>6, <1>7, CreditedClaims, ReadRaces
<1>8. CASE \E o \in Answers(q, "active", r, r) : Write(p, o.a, IF o.r = "ok" THEN n ELSE Raised(q, o.r))
  <2>1. PICK o \in Answers(q, "active", r, r) : Write(p, o.a, IF o.r = "ok" THEN n ELSE Raised(q, o.r))
    BY <1>8
  <2>2. Write(p, r.a, n)
    BY <1>4, <2>1, TwoAnswers
  <2>3. Gentle(q.vol, r.a) /\ Claims(n, r.a)
    BY <1>2, <1>3, <1>6, CreditedClaims, GentleSame
  <2> QED BY <1>6, <2>2, <2>3, WriteRaces
<1> QED BY <1>5, <1>7, <1>8

\* A publication that takes its volume from a target of another prefix.
LEMMA RunnerLeaves ==
    ASSUME NEW p \in Proc, Runner(p), pr[p].at \in {"detach", "left", "drop"}
    PROVE  /\ pr[p] \in RunType /\ array \in ArrayType /\ pr[p].vol \in Volume /\ pr[p].vol \in array.zvol
           /\ pr[p].cmd \in Publishers /\ pr[p].cmd # "delete"
           /\ pr[p].from \in Foreign /\ pr[p].from \in Target /\ pr[p].back = "list" /\ pr[p].tgt \notin Own
           /\ pr[p].at # "detach" => array.att[pr[p].vol] = None
           /\ pr[p].at = "drop" => On(array, pr[p].from) = {}
<1> DEFINE q == pr[p]
<1>1. /\ q \in RunType /\ array \in ArrayType /\ q.vol \in Volume /\ q.cmd \in Publishers
      /\ q.cmd \in Lookups /\ q.cmd # "delete"
      /\ Claims(q, array) /\ Placed(q, array) /\ Emptied(q, array)
  BY RunnerWorks
<1>2. q.vol \in array.zvol /\ q.from \in Foreign /\ q.back = "list" /\ q.tgt \notin Own
  BY <1>1 DEF Claims
<1>3. q.at # "detach" => array.att[q.vol] = None
  BY <1>1, <1>2 DEF Placed
<1>4. q.at = "drop" => On(array, q.from) = {}
  BY <1>1 DEF Emptied
<1> QED BY <1>1, <1>2, <1>3, <1>4, Prefixes

\* Where it goes on, its claims hold.
LEMMA LeavingClaims ==
    ASSUME NEW p \in Proc, Runner(p), pr[p].at \in {"detach", "left", "drop"}, NEW at \in {"left", "drop", "list"},
           NEW a, pr[p].vol \in a.zvol
    PROVE  Claims(Go(pr[p], at), a) /\ Same(pr[p], Go(pr[p], at))
<1> DEFINE q == pr[p]
           n == Go(q, at)
<1>1. q \in RunType /\ q.from \in Foreign /\ q.back = "list" /\ q.tgt \notin Own /\ at \in Steps
  BY RunnerLeaves DEF Steps, Detaching
<1>2. n.at = at /\ Same(q, n) /\ n.from = q.from /\ n.back = q.back /\ n.tgt = q.tgt
  BY <1>1, GoFields DEF Same
<1> HIDE DEF n
<1>3. Claims(n, a)
  BY <1>1, <1>2 DEF Claims, Same
<1> QED BY <1>2, <1>3 DEF n

LEMMA DetachRaces == ASSUME Racing, NEW p \in Proc, Runner(p), Detach(p) PROVE Races(p)
<1> DEFINE q == pr[p]
           r == detach_target_vol(array, q.from, q.vol)
           again == detach_target_vol(r.a, q.from, q.vol)
           at == IF q.only THEN q.back ELSE "left"
<1>1. q.at = "detach" /\ q.at \in {"detach", "left", "drop"}
  BY DEF Detach
<1>2. /\ q \in RunType /\ array \in ArrayType /\ q.vol \in Volume /\ q.vol \in array.zvol
      /\ q.from \in Foreign /\ q.back = "list"
  BY <1>1, RunnerLeaves
<1>3. /\ r.r \in {"ok", "notfound"} /\ r.a.zvol = array.zvol /\ r.a.made = array.made
      /\ \A w \in Volume : \/ r.a.att[w] = array.att[w]
                           \/ w = q.vol /\ q.vol \in On(array, q.from) /\ r.a.att[w] = None
      /\ again = Ret(r.a, "notfound")
  BY <1>2, detach_target_vol_Effect
<1>4. PICK o \in Answers(q, "detach", r, again) :
          Write(p, o.a, IF o.r \in {"ok", "notfound"} THEN Go(q, at) ELSE Raised(q, o.r))
  BY DEF Detach
<1>5. again.a = r.a /\ again.r = "notfound"
  BY <1>3 DEF Ret
<1> HIDE DEF r, again
<1>6. o.a = r.a /\ o.r \in {"ok", "notfound"}
  BY <1>3, <1>4, <1>5, TwoAnswers
<1>7. Write(p, r.a, Go(q, at)) /\ at \in {"left", "list"}
  BY <1>2, <1>4, <1>6
<1>8. Gentle(q.vol, r.a)
  BY <1>2, <1>3 DEF Gentle, On
<1> HIDE DEF at
<1>9. Claims(Go(q, at), r.a) /\ Same(q, Go(q, at))
  BY <1>1, <1>2, <1>3, <1>7, LeavingClaims
<1> QED BY <1>7, <1>8, <1>9, WriteRaces

LEMMA LeftRaces == ASSUME Racing, NEW p \in Proc, Runner(p), Left(p) PROVE Races(p)
<1> DEFINE q == pr[p]
           at == IF On(array, q.from) = {} THEN "drop" ELSE q.back
<1>1. q.at = "left" /\ q.at \in {"detach", "left", "drop"}
  BY DEF Left
<1>2. /\ q \in RunType /\ q.vol \in Volume /\ q.vol \in array.zvol /\ q.cmd \in Publishers
      /\ q.back = "list" /\ q.tgt \notin Own /\ array.att[q.vol] = None
  BY <1>1, RunnerLeaves
<1>3. Read(p, IF q.from \notin array.made THEN Raised(q, "notfound") ELSE Go(q, at))
  BY NotRefused DEF Left
<1>4. CASE Read(p, Raised(q, "notfound"))
  <2>1. Claims(Raised(q, "notfound"), array) /\ Same(q, Raised(q, "notfound"))
    <3>1. q.at \notin Scanning /\ q.at # "clone"
      BY <1>1 DEF Scanning
    <3> HIDE DEF q
    <3> QED BY <1>2, <3>1, RaisedClaims
  <2> QED BY <1>4, <2>1, ReadRaces
<1>5. CASE Read(p, Go(q, at))
  <2>1. at \in {"drop", "list"}
    BY <1>2
  <2> HIDE DEF at
  <2>2. Claims(Go(q, at), array) /\ Same(q, Go(q, at))
    BY <1>1, <1>2, <2>1, LeavingClaims
  <2> QED BY <1>5, <2>2, ReadRaces
<1> QED BY <1>3, <1>4, <1>5

LEMMA DropRaces == ASSUME Racing, NEW p \in Proc, Runner(p), Drop(p) PROVE Races(p)
<1> DEFINE q == pr[p]
           r == delete_target(array, q.from)
           again == delete_target(r.a, q.from)
<1>1. q.at = "drop" /\ q.at \in {"detach", "left", "drop"}
  BY DEF Drop
<1>2. /\ q \in RunType /\ array \in ArrayType /\ q.vol \in Volume /\ q.vol \in array.zvol /\ q.cmd # "delete"
      /\ q.from \in Foreign /\ q.from \in Target /\ q.back = "list" /\ On(array, q.from) = {}
  BY <1>1, RunnerLeaves
<1>3. /\ r.r \in {"ok", "notfound"} /\ r.a.zvol = array.zvol /\ r.a.made = array.made \ {q.from}
      /\ \A w \in Volume : r.a.att[w] = array.att[w]
      /\ again = Ret(r.a, "notfound")
  BY <1>2, delete_target_Effect
<1>4. PICK o \in Answers(q, "delete_target", r, again) :
          Write(p, o.a, IF o.r \in {"ok", "notfound"} THEN Go(q, q.back) ELSE Raised(q, o.r))
  BY <1>2 DEF Drop
<1>5. again.a = r.a /\ again.r = "notfound"
  BY <1>3 DEF Ret
<1> HIDE DEF r, again
<1>6. o.a = r.a /\ o.r \in {"ok", "notfound"}
  BY <1>3, <1>4, <1>5, TwoAnswers
<1>7. Write(p, r.a, Go(q, "list"))
  BY <1>2, <1>4, <1>6
<1>8. Gentle(q.vol, r.a)
  BY <1>2, <1>3, Prefixes DEF Gentle
<1>9. Claims(Go(q, "list"), r.a) /\ Same(q, Go(q, "list"))
  BY <1>1, <1>2, <1>3, LeavingClaims
<1> QED BY <1>7, <1>8, <1>9, WriteRaces

\* An export that failed has its volume on no target, and cleans nothing up.
LEMMA RunnerFailed ==
    ASSUME NEW p \in Proc, Runner(p), pr[p].at \in {"sList", "sLuns", "destroy"}
    PROVE  /\ pr[p] \in RunType /\ array \in ArrayType /\ pr[p].vol \in Volume /\ pr[p].vol \in array.zvol
           /\ pr[p].cmd = "export" /\ array.att[pr[p].vol] = None
<1> DEFINE q == pr[p]
<1>1. q \in RunType /\ array \in ArrayType /\ q.vol \in Volume /\ Claims(q, array) /\ q.cmd \in Publishers /\ Job(q)
  BY RunnerWorks
<1>2. q.cmd = "export"
  BY <1>1 DEF Job, Method, Publishers, Scanning
<1> QED BY <1>1, <1>2 DEF Claims

LEMMA ScanListRaces == ASSUME Racing, NEW p \in Proc, Runner(p), ScanList(p) PROVE Races(p)
<1> DEFINE q == pr[p]
           candidates == IF q.cmd = "destroy" THEN array.made \cap Own ELSE array.made
           g == Go(q, "sLuns")
           n == [g EXCEPT !.todo = candidates]
<1>1. q.at = "sList" /\ q.at \in {"sList", "sLuns", "destroy"}
  BY DEF ScanList
<1>2. q \in RunType /\ q.vol \in array.zvol /\ array.att[q.vol] = None
  BY <1>1, RunnerFailed
<1>3. Read(p, n)
  BY NotRefused DEF ScanList
<1>4. g \in RunType /\ g.at = "sLuns" /\ Same(q, g)
  BY <1>2, GoFields DEF Same, Steps, Scanning
<1> HIDE DEF g, candidates
<1>5. n.at = "sLuns" /\ Same(q, n)
  BY <1>4 DEF RunType, Same
<1> HIDE DEF n
<1>6. Claims(n, array)
  BY <1>2, <1>5 DEF Claims, Same
<1> QED BY <1>3, <1>5, <1>6, ReadRaces

LEMMA ScanLunsRaces == ASSUME Racing, NEW p \in Proc, Runner(p), ScanLuns(p) PROVE Races(p)
<1> DEFINE q == pr[p]
<1>1. q.at = "sLuns" /\ q.at \in {"sList", "sLuns", "destroy"}
  BY DEF ScanLuns
<1>2. q \in RunType /\ q.vol \in array.zvol /\ array.att[q.vol] = None
  BY <1>1, RunnerFailed
<1>3. \A t : q.vol \notin On(array, t)
  BY <1>2 DEF On
<1>4. \/ Read(p, Go(q, "destroy"))
      \/ \E t \in q.todo : Read(p, [q EXCEPT !.todo = @ \ {t}])
  BY <1>3, NotRefused DEF ScanLuns
<1>5. CASE Read(p, Go(q, "destroy"))
  <2> DEFINE n == Go(q, "destroy")
  <2>1. n.at = "destroy" /\ Same(q, n)
    BY <1>2, Onward DEF Steps
  <2> HIDE DEF n
  <2>2. Claims(n, array)
    BY <1>2, <2>1 DEF Claims, Same
  <2> QED BY <1>5, <2>1, <2>2, ReadRaces DEF n
<1>6. CASE \E t \in q.todo : Read(p, [q EXCEPT !.todo = @ \ {t}])
  <2>1. PICK t \in q.todo : Read(p, [q EXCEPT !.todo = @ \ {t}])
    BY <1>6
  <2> DEFINE n == [q EXCEPT !.todo = @ \ {t}]
  <2>2. n.at = "sLuns" /\ Same(q, n)
    BY <1>1, <1>2 DEF RunType, Same
  <2> HIDE DEF n
  <2>3. Claims(n, array)
    BY <1>2, <2>2 DEF Claims, Same
  <2> QED BY <2>1, <2>2, <2>3, ReadRaces DEF n
<1> QED BY <1>4, <1>5, <1>6

LEMMA DestroyRaces == ASSUME Racing, NEW p \in Proc, Runner(p), Destroy(p) PROVE Races(p)
<1> DEFINE q == pr[p]
<1>1. q.at = "destroy" /\ q.at \in {"sList", "sLuns", "destroy"}
  BY DEF Destroy
<1>2. /\ q \in RunType /\ array \in ArrayType /\ q.vol \in Volume
      /\ array.att[q.vol] = None /\ q.cmd = "export"
  BY <1>1, RunnerFailed
<1>3. PICK detach \in BOOLEAN :
         \E o \in Answers(q, "delete_lun", delete_lun(array, q.vol, detach),
                          delete_lun(delete_lun(array, q.vol, detach).a, q.vol, detach)) :
            Write(p, o.a, IF o.r \in {"ok", "notfound"} THEN Finish(q, q.res)
                          ELSE Finish(Felt(q, o.r), "failed"))
  BY DEF Destroy
<1> DEFINE r == delete_lun(array, q.vol, detach)
           again == delete_lun(r.a, q.vol, detach)
<1>4. /\ r.r \in {"ok", "notfound"} /\ r.a.zvol = array.zvol \ {q.vol} /\ r.a.made = array.made
      /\ \A w \in Volume : w # q.vol => r.a.att[w] = array.att[w]
      /\ again = Ret(r.a, "notfound")
  BY <1>2, delete_lun_Effect
<1>5. r.a.att[q.vol] = None
  <2> DEFINE x == IF detach THEN None ELSE array.att[q.vol]
  <2>1. x = None
    BY <1>2
  <2>2. r.a \in {array, [array EXCEPT !.zvol = @ \ {q.vol}, !.att[q.vol] = x]}
    BY DEF delete_lun, Ret
  <2> HIDE DEF x, r
  <2>3. [array EXCEPT !.zvol = @ \ {q.vol}, !.att[q.vol] = x].att[q.vol] = x
    BY <1>2 DEF ArrayType
  <2> QED BY <1>2, <2>1, <2>2, <2>3
<1>6. PICK o \in Answers(q, "delete_lun", r, again) :
         Write(p, o.a, IF o.r \in {"ok", "notfound"} THEN Finish(q, q.res)
                       ELSE Finish(Felt(q, o.r), "failed"))
  BY <1>3
<1>7. again.a = r.a /\ again.r = "notfound"
  BY <1>4 DEF Ret
<1> HIDE DEF r, again
<1> DEFINE n == Finish(q, q.res)
<1>8. Write(p, r.a, n)
  BY <1>4, <1>6, <1>7, TwoAnswers
<1>9. Gentle(q.vol, r.a)
  BY <1>2, <1>4, <1>5 DEF Gentle
<1>10. n.at = "done" /\ Same(q, n)
  BY <1>2, FinishFields DEF Same, RunType
<1> HIDE DEF n
<1>11. Claims(n, r.a)
  BY <1>2, <1>10 DEF Claims, Same
<1> QED BY <1>8, <1>9, <1>10, <1>11, WriteRaces

LEMMA ExitRaces == ASSUME NEW p \in Proc, Runner(p), Exit(p) PROVE Races(p)
<1>1. Read(p, NoRun)
  BY DEF Exit
<1>2. NoRun.at = "idle" /\ NoRun.cmd \notin Publishers
  BY NoRunIdle DEF NoRun, Publishers
<1>3. Claims(NoRun, array)
  BY <1>2 DEF Claims
<1> QED BY <1>1, <1>2, <1>3, ReadRaces

\* What a publication never does beside others.
LEMMA NeverRaced ==
    ASSUME NEW p \in Proc, Runner(p),
           \/ DropBad(p) \/ Busy(p) \/ ScanDetach(p) \/ ScanDrop(p) \/ ScanGone(p)
           \/ Removed(p) \/ SweepList(p) \/ SweepLuns(p) \/ SweepCheck(p) \/ SweepDetach(p)
           \/ SweepAgain(p) \/ SweepDrop(p)
    PROVE  FALSE
<1> DEFINE q == pr[p]
<1>1. Claims(q, array) /\ q.cmd \in Publishers /\ q.cmd # "remove" /\ Job(q)
  BY RunnerWorks
<1>2. CASE DropBad(p) \/ Busy(p) \/ ScanDetach(p) \/ ScanDrop(p) \/ ScanGone(p)
  <2>1. q.at \in {"busy", "dropBad", "sDetach", "sDrop", "sGone"}
    BY <1>2 DEF DropBad, Busy, ScanDetach, ScanDrop, ScanGone
  <2> QED BY <1>1, <2>1 DEF Claims
<1>3. CASE \/ Removed(p) \/ SweepList(p) \/ SweepLuns(p) \/ SweepCheck(p) \/ SweepDetach(p)
           \/ SweepAgain(p) \/ SweepDrop(p)
  <2>1. q.at \in Sweeping \cup {"removed"}
    BY <1>3 DEF Removed, SweepList, SweepLuns, SweepCheck, SweepDetach, SweepAgain, SweepDrop, Sweeping
  <2> QED BY <1>1, <2>1 DEF Job, Method
<1> QED BY <1>2, <1>3

LEMMA StepRaces == ASSUME Racing, NEW p \in Proc, Runner(p), Step(p) PROVE Races(p)
<1>1. CASE Exists(p) \/ CloneSnapshot(p) \/ Lookup(p) \/ Rehome(p) \/ List(p) \/ SlotOf(p) \/ Pick(p)
  BY <1>1, ExistsRaces, CloneSnapshotRaces, LookupRaces, RehomeRaces, ListRaces, SlotOfRaces, PickRaces
<1>2. CASE \/ VipsNew(p) \/ CreateTarget(p) \/ GetTarget(p) \/ Vips(p) \/ GetLun(p)
           \/ Attach(p) \/ Resolve(p) \/ Confirm(p)
  BY <1>2, VipsNewRaces, CreateTargetRaces, GetTargetRaces, VipsRaces, GetLunRaces,
     AttachRaces, ResolveRaces, ConfirmRaces
<1>3. CASE Users(p) \/ DelUser(p) \/ SetUser(p) \/ Active(p) \/ Detach(p) \/ Left(p) \/ Drop(p)
  BY <1>3, UsersRaces, DelUserRaces, SetUserRaces, ActiveRaces, DetachRaces, LeftRaces, DropRaces
<1>4. CASE ScanList(p) \/ ScanLuns(p) \/ Destroy(p) \/ Exit(p)
  BY <1>4, ScanListRaces, ScanLunsRaces, DestroyRaces, ExitRaces
<1>5. CASE \/ DropBad(p) \/ Busy(p) \/ ScanDetach(p) \/ ScanDrop(p) \/ ScanGone(p)
           \/ Removed(p) \/ SweepList(p) \/ SweepLuns(p) \/ SweepCheck(p) \/ SweepDetach(p)
           \/ SweepAgain(p) \/ SweepDrop(p)
  BY <1>5, NeverRaced
<1> QED BY <1>1, <1>2, <1>3, <1>4, <1>5 DEF Step

\* What a publication knows is not touched by one of another volume.
LEMMA Aside ==
    ASSUME NEW v, NEW b, Gentle(v, b), Housed(b), NEW q, Job(q), q.cmd \in Publishers, q.vol # v,
           Claims(q, array), Fine(q, array)
    PROVE  Claims(q, b) /\ Fine(q, b)
<1>1. /\ q \in RunType /\ q.vol \in Volume /\ q.lun \in 0..Luns - 1
      /\ q.cmd \notin {"remove", "unexport"} /\ q.at \notin Sweeping
  BY DEF Job, Args, Method, Publishers, RunType
<1>2. b.att[q.vol] = array.att[q.vol]
  BY <1>1 DEF Gentle
<1>3. q.vol \in array.zvol => q.vol \in b.zvol
  BY DEF Gentle
<1>4. q.at \notin {"busy", "dropBad", "sDetach", "sDrop", "sGone"}
  BY DEF Claims
<1>5. ASSUME q.at \in {"target", "vips", "getLun"} PROVE q.tgt \in b.made
  <2>1. /\ q.tgt \in Target /\ q.tgt \in array.made
        /\ q.tgt \in Foreign => array.att[q.vol] = <<q.tgt, q.lun>>
    BY <1>5 DEF Claims, Job, Args, Attaching, Crediting
  <2>2. CASE q.tgt \in Own
    BY <2>1, <2>2 DEF Gentle
  <2>3. CASE q.tgt \in Foreign
    BY <1>1, <1>2, <2>1, <2>3, SlotNotNone, InItsSlot
  <2> QED BY <2>1, <2>2, <2>3, Prefixes
<1>6. ASSUME q.tgt \in Own, Lost(q, array) PROVE Lost(q, b)
  <2>1. PICK w \in Volume \ {q.vol} : array.att[w] = <<q.tgt, q.lun>>
    BY <1>6 DEF Lost
  <2>2. array.att[w] # None /\ array.att[w][1] = q.tgt /\ q.tgt \notin Foreign
    BY <1>1, <1>6, <2>1, SlotNotNone, Prefixes
  <2>3. b.att[w] = array.att[w]
    BY <2>2 DEF Gentle
  <2> QED BY <2>1, <2>3 DEF Lost
<1>7. q.at = "attach" => q.tgt \in b.made
  BY DEF Gentle, Claims
<1>8. Claims(q, b)
  BY <1>2, <1>3, <1>5, <1>6, <1>7 DEF Claims
<1>9. ASSUME q.at = "drop" PROVE On(b, q.from) = {}
  <2>1. q.from \in Foreign /\ q.from \notin Own /\ On(array, q.from) = {}
    BY <1>9, Prefixes DEF Claims, Fine, Emptied, Publishers
  <2>2. SUFFICES ASSUME NEW w \in Volume, b.att[w] # None, b.att[w][1] = q.from PROVE FALSE
    BY DEF On
  <2>3. b.att[w] = array.att[w]
    BY <2>1, <2>2 DEF Gentle
  <2> QED BY <2>1, <2>2, <2>3 DEF On
<1>10. Placed(q, b) /\ Removal(q, b)
  BY <1>1, <1>2 DEF Placed, Removal, Fine
<1>11. Emptied(q, b)
  BY <1>1, <1>4, <1>9 DEF Emptied, Sweeping
<1> QED BY <1>8, <1>10, <1>11 DEF Fine

LEMMA IdleClaims == ASSUME NEW q, NEW a, q.at = "idle" PROVE Claims(q, a) /\ Fine(q, a)
<1> QED BY PlainFine DEF Claims, Plain

-----------------------------------------------------------------------------
(* The steps of all.                                                       *)

Racy == /\ Types /\ Unused /\ Sound /\ Beside /\ late = {} /\ Housed(array)
        /\ \A p \in Proc : Claims(pr[p], array)

LEMMA RacyFine == ASSUME Racy, NEW p \in Proc PROVE Fine(pr[p], array) /\ Claims(pr[p], array)
<1> QED BY SoundFine DEF Racy

\* As n, the process p is beside the others; the others keep what they know.
Joins(p, n) ==
    \A o \in Proc : \/ o = p \/ n.at = "idle" \/ pr[o].at = "idle"
                    \/ {n.cmd, pr[o].cmd} \subseteq Publishers /\ n.vol # pr[o].vol

Others(p, a) == \A o \in Proc : o # p => Fine(pr[o], a) /\ Claims(pr[o], a)

\* One process goes on as n, with all it knows.
LEMMA OneRacy ==
    ASSUME Racy, Types', Unused', NEW p \in Proc, NEW n, pr' = [pr EXCEPT ![p] = n], late' = late, Housed(array'),
           Fine(n, array'), Claims(n, array'), Joins(p, n), Others(p, array')
    PROVE  Racy'
<1>1. pr'[p] = n /\ \A o \in Proc : o # p => pr'[o] = pr[o]
  BY DEF Racy, Types
<1>2. \A o \in Proc : Fine(pr'[o], array') /\ Claims(pr'[o], array')
  BY <1>1 DEF Others
<1>3. Sound'
  BY <1>2 DEF Sound, Fine
<1>4. Beside'
  <2> SUFFICES ASSUME NEW x \in Proc, NEW o \in Proc
               PROVE  \/ x = o \/ pr'[x].at = "idle" \/ pr'[o].at = "idle"
                      \/ {pr'[x].cmd, pr'[o].cmd} \subseteq Publishers /\ pr'[x].vol # pr'[o].vol
    BY DEF Beside
  <2>1. CASE x = p \/ o = p
    BY <1>1, <2>1 DEF Joins
  <2>2. CASE x # p /\ o # p
    BY <1>1, <2>2 DEF Racy, Beside
  <2> QED BY <2>1, <2>2
<1> QED BY <1>2, <1>3, <1>4 DEF Racy

LEMMA InitRacy == ASSUME Init PROVE Racy
<1>1. Types /\ Unused
  BY InitTypes
<1>2. \A p \in Proc : pr[p].at = "idle"
  BY NoRunIdle DEF Init
<1>3. Housed(array) /\ late = {}
  BY InitUnfailing DEF Unfailing
<1>4. Sound /\ \A p \in Proc : Claims(pr[p], array)
  BY <1>2, IdleClaims, SoundFine
<1> QED BY <1>1, <1>2, <1>3, <1>4 DEF Racy, Beside

LEMMA StepRacy ==
    ASSUME Racing, Racy, Types', Unused', NEW p \in Proc, Step(p)
    PROVE  Racy'
<1>1. Types /\ Beside /\ Housed(array) /\ pr[p].at # "idle"
  BY StepWorks DEF Racy
<1>2. PICK n \in RunType, b \in ArrayType : Goes(p, n, b) /\ Job(n) /\ Keeps(pr[p], n, b)
  BY <1>1, StepAdvances DEF Advances
<1>3. pr' = [pr EXCEPT ![p] = n] /\ array' = b /\ late' = late /\ pr'[p] = n
  BY <1>1, <1>2 DEF Goes, Types
<1>4. Fine(n, array')
  BY <1>2, <1>3, RacyFine DEF Keeps, Racing
<1>5. Housed(array')
  BY <1>1, StepHoused
<1>6. CASE pr[p].cmd \in Publishers
  <2>1. Runner(p)
    BY <1>1, <1>6, RacyFine DEF Runner
  <2>2. /\ Claims(n, array') /\ Gentle(pr[p].vol, array')
        /\ n.at = "idle" \/ (n.cmd = pr[p].cmd /\ n.vol = pr[p].vol)
    BY <1>3, <2>1, StepRaces DEF Races
  <2>3. ASSUME NEW o \in Proc, o # p PROVE Fine(pr[o], array') /\ Claims(pr[o], array')
    <3>1. CASE pr[o].at = "idle"
      BY <3>1, IdleClaims
    <3>2. CASE pr[o].at # "idle"
      <4>1. pr[o].cmd \in Publishers /\ pr[o].vol # pr[p].vol
        BY <1>1, <2>3, <3>2 DEF Beside
      <4>2. Job(pr[o]) /\ Fine(pr[o], array) /\ Claims(pr[o], array)
        BY <1>1, Working, RacyFine
      <4> QED BY <1>5, <2>2, <4>1, <4>2, Aside
    <3> QED BY <3>1, <3>2
  <2>4. Others(p, array')
    BY <2>3 DEF Others
  <2>5. Joins(p, n)
    BY <1>1, <2>2 DEF Beside, Joins
  <2> QED BY <1>3, <1>4, <1>5, <2>2, <2>4, <2>5, OneRacy
<1>7. CASE pr[p].cmd \notin Publishers
  <2>1. \A o \in Proc : o # p => pr[o].at = "idle"
    BY <1>1, <1>7 DEF Beside
  <2>2. n.cmd \notin Publishers
    <3>1. CASE Exit(p)
      <4>1. pr' = [pr EXCEPT ![p] = NoRun]
        BY <3>1 DEF Exit, Read
      <4>2. n = NoRun
        BY <1>1, <1>3, <4>1 DEF Types
      <4> QED BY <4>2 DEF NoRun, Publishers
    <3>2. CASE ~Exit(p)
      BY <1>1, <1>3, <1>7, <3>2, StepKin DEF Kin
    <3> QED BY <3>1, <3>2
  <2>3. Claims(n, array')
    BY <2>2 DEF Claims
  <2>4. Others(p, array') /\ Joins(p, n)
    BY <2>1, IdleClaims DEF Others, Joins
  <2> QED BY <1>3, <1>4, <1>5, <2>3, <2>4, OneRacy
<1> QED BY <1>6, <1>7

LEMMA BeginRacy ==
    ASSUME Racing, Racy, Types', Unused', NEW p \in Proc, NEW c \in Cmds, NEW v \in Volume,
           NEW u \in Modes \cup {None}, Begin(p, c, v, u)
    PROVE  Racy'
<1>1. PICK n \in RunType : /\ pr' = [pr EXCEPT ![p] = n] /\ UNCHANGED <<array, session, late>>
                           /\ Job(n) /\ n.at \in Plain /\ n.at # "idle"
  BY BeginJob
<1>2. n.cmd = c /\ n.vol = v /\ n.tgt = None /\ (c \in Publishers => n.at \in {"clone", "exists"})
  <2> DEFINE at == CASE c = "export" -> "clone" [] c = "remove" -> "lookup" [] OTHER -> "exists"
             m == [NoRun EXCEPT !.cmd = c, !.vol = v, !.user = u, !.at = at]
  <2>1. pr' = [pr EXCEPT ![p] = m]
    BY DEF Begin
  <2>2. n = m
    BY <1>1, <2>1 DEF Racy, Types
  <2>3. c \in Publishers => at \in {"clone", "exists"}
    BY DEF Publishers
  <2> HIDE DEF at
  <2>4. m.cmd = c /\ m.vol = v /\ m.at = at /\ m.tgt = None
    BY DEF NoRun
  <2> QED BY <2>2, <2>3, <2>4
<1>3. Fine(n, array')
  BY <1>1, PlainFine
<1>4. Claims(n, array')
  BY <1>2 DEF Claims
<1>5. Joins(p, n)
  BY <1>2 DEF Begin, Racing, Joins
<1>6. Housed(array')
  BY <1>1 DEF Racy
<1>7. Others(p, array')
  BY <1>1, RacyFine DEF Others
<1> QED BY <1>1, <1>3, <1>4, <1>5, <1>6, <1>7, OneRacy

LEMMA BeginTargetRacy ==
    ASSUME Racy, Types', Unused', NEW p \in Proc, NEW c \in Cmds, NEW t \in Own,
           NEW u \in Modes \cup {None}, BeginTarget(p, c, t, u)
    PROVE  Racy'
<1>1. PICK n \in RunType : /\ pr' = [pr EXCEPT ![p] = n] /\ UNCHANGED <<array, session, late>>
                           /\ Job(n) /\ UnusedBy(n, session) /\ Fine(n, array)
  BY BeginTargetJob
<1>2. n.cmd = c /\ c \in {"update", "delete"}
  <2> DEFINE at == IF c = "update" THEN "target" ELSE "drop"
             m == [NoRun EXCEPT !.cmd = c, !.user = u, !.tgt = t, !.from = t, !.at = at]
  <2>1. pr' = [pr EXCEPT ![p] = m] /\ c \in {"update", "delete"}
    BY DEF BeginTarget
  <2>2. n = m
    BY <1>1, <2>1 DEF Racy, Types
  <2> HIDE DEF at
  <2>3. m.cmd = c
    BY DEF NoRun
  <2> QED BY <2>1, <2>2, <2>3
<1>3. Claims(n, array')
  BY <1>2 DEF Claims, Publishers
<1>4. Joins(p, n)
  BY DEF BeginTarget, Quiet, Joins
<1>5. Others(p, array')
  BY <1>1, RacyFine DEF Others
<1>6. Housed(array')
  BY <1>1 DEF Racy
<1> QED BY <1>1, <1>3, <1>4, <1>5, <1>6, OneRacy

LEMMA NextRacy ==
    ASSUME Racing, Racy, [Next]_vars
    PROVE  Racy'
<1>1. Types /\ Unused /\ Sound /\ Beside /\ late = {} /\ Housed(array) /\ \A p \in Proc : Claims(pr[p], array)
  BY DEF Racy
<1>2. Types' /\ Unused'
  BY <1>1, NextTypes
<1>3. ASSUME NEW p \in Proc, Step(p) PROVE Racy'
  BY <1>2, <1>3, StepRacy
<1>4. ASSUME NEW p \in Proc, Kill(p) PROVE FALSE
  BY <1>4 DEF Kill, Racing
<1>5. ASSUME NEW p \in Proc, NEW c \in Cmds, NEW u \in Modes \cup {None}, NEW v \in Volume, Begin(p, c, v, u)
      PROVE  Racy'
  BY <1>2, <1>5, BeginRacy
<1>6. ASSUME NEW p \in Proc, NEW c \in Cmds, NEW u \in Modes \cup {None}, NEW t \in Own, BeginTarget(p, c, t, u)
      PROVE  Racy'
  BY <1>2, <1>6, BeginTargetRacy
<1>7. ASSUME NEW r \in late, Serve(r) PROVE FALSE
  BY <1>1
<1>8. ASSUME NEW t \in Target, Login(t) \/ Logout(t) PROVE Racy'
  <2>1. UNCHANGED <<array, pr, late>>
    BY <1>8 DEF Login, Logout
  <2> QED BY <1>1, <1>2, <2>1 DEF Racy, Sound, Beside
<1>9. ASSUME NEW v \in Volume, CreateVolume(v) PROVE Racy'
  <2>1. UNCHANGED <<session, pr, late>> /\ \A p \in Proc : pr'[p].at = "idle"
    BY <1>1, <1>9, CreateVolumeArray DEF Quiet
  <2>2. array'.att = array.att /\ array'.made = array.made
    BY <1>1, <1>9 DEF CreateVolume, ArrayType, Types
  <2>3. Housed(array')
    BY <1>1, <2>2 DEF Housed
  <2>4. \A p \in Proc : Claims(pr'[p], array') /\ Fine(pr'[p], array')
    BY <2>1, IdleClaims
  <2>5. Sound'
    BY <2>4 DEF Sound, Fine
  <2> QED BY <1>1, <1>2, <2>1, <2>3, <2>4, <2>5 DEF Racy, Beside
<1>10. CASE UNCHANGED vars
  BY <1>1, <1>2, <1>10 DEF vars, Racy, Sound, Beside
<1> QED BY <1>3, <1>4, <1>5, <1>6, <1>7, <1>8, <1>9, <1>10 DEF Next

\* Each of the publications beside each other knows of its volume and its
\* target what no step of another one changes.
THEOREM RaceInvariance == ASSUME Racing PROVE Spec => []Racy
<1>1. Init => Racy
  BY InitRacy
<1>2. Racy /\ [Next]_vars => Racy'
  BY NextRacy
<1> QED BY <1>1, <1>2, PTL DEF Spec

\* Of publications in any interleaving, each that succeeds returns the target
\* and the LUN where its volume is, though no lock keeps them apart.
THEOREM RacersAnswered == ASSUME Racing PROVE Spec => []AnswerHolds
<1>1. Racy => AnswerHolds
  BY DEF Racy, Sound, Placed, AnswerHolds, Ended, Publishers
<1> QED BY <1>1, RaceInvariance, PTL

\* A publication beside others that fails on a target of the group lost the
\* LUN to another volume, which has it still.
THEOREM RacesExplained == ASSUME Racing PROVE Spec => []LostRace
<1>1. Racy => LostRace
  BY DEF Racy, Claims, Lost, LostRace, Ended, Publishers
<1> QED BY <1>1, RaceInvariance, PTL
=============================================================================
