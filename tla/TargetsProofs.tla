---------------------------- MODULE TargetsProofs ----------------------------
(***************************************************************************)
(* Proofs about Targets, for all volumes, targets, users and processes.    *)
(***************************************************************************)
EXTENDS Targets, FiniteSetTheorems, WellFoundedInduction, TLAPS

-----------------------------------------------------------------------------
(* The inductive invariant.                                                *)

Results == {"ok", "failed"}

\* What a detach goes back to, or the failure that is raised again.
Backs == {"done", "list", "attach", "removed", "destroy", "notfound", "error", "cfg"}

RunType == [at : Steps, cmd : Commands \cup {"none"}, vol : Volume \cup {None},
            user : User \cup {None}, tgt : Target \cup {None}, lun : 0..Luns - 1,
            fresh : BOOLEAN, known : BOOLEAN, from : Target \cup {None}, only : BOOLEAN,
            back : Backs, seen : SUBSET (Target \cup Volume), todo : SUBSET (Target \cup User),
            idx : Nat, item : Volume \cup {None}, flag : BOOLEAN, tries : Nat, round : Nat,
            errs : Nat, res : Results]

ArrayType == [zvol : SUBSET Volume, made : SUBSET Target, att : [Volume -> Slot \cup {None}],
              chap : [Target -> BOOLEAN], users : [Target -> SUBSET User]]

RequestType == [c : Steps, t : Target \cup {None}, v : Volume \cup {None}, l : 0..Luns - 1,
                u : User \cup {None}]

Publishers == {"create", "export"}
Lookups == {"create", "export", "get"}

Choosing == {"list", "slot", "pick"}
Attaching == {"create", "vips", "getLun", "attach", "resolve", "confirm", "dropBad"}
Crediting == {"target", "users", "delUser", "setUser", "active"}

\* Which steps belong to which commands.
Method(q) ==
    /\ q.at = "exists" => q.cmd \in {"create", "get", "getCurrent", "unexport", "destroy"}
    /\ q.at = "clone" => q.cmd = "export"
    /\ q.at = "lookup" => q.cmd \in Lookups \cup {"getCurrent", "remove", "unexport"}
    /\ q.at \in Choosing \cup {"rehome"} => q.cmd \in Lookups
    /\ q.at = "vipsNew" => q.cmd \in Lookups \cup {"getCurrent"}
    /\ q.at \in Attaching \cup {"busy"} => q.cmd \in Publishers
    /\ q.at \in Crediting => q.cmd \in Publishers \cup {"update"}
    /\ q.at \in {"detach", "left"} => q.cmd \in Lookups \cup {"remove", "unexport"}
    /\ q.at = "drop" => q.cmd \in Lookups \cup {"remove", "unexport", "delete"}
    /\ q.at \in Sweeping \cup {"removed"} => q.cmd = "remove"
    /\ q.at \in Scanning \cup {"destroy"} => q.cmd \in {"export", "unexport", "destroy"}

\* Where a detach returns to.
Returns(q) ==
    q.at \in Detaching /\ q.cmd # "delete" =>
       /\ q.cmd \in Lookups => q.back \in {"list", "attach"}
       /\ q.back = "attach" => q.cmd \in Publishers /\ q.tgt \in Target
       /\ q.cmd = "remove" => q.back = "removed"
       /\ q.cmd = "unexport" => q.back = "destroy"
       /\ q.at = "busy" => q.back = "attach"

\* What the steps have been given.
Args(q) ==
    /\ q.cmd \notin {"none", "update", "delete"} => q.vol \in Volume
    /\ q.at \in Attaching \cup Crediting \cup {"rehome", "vipsNew"} => q.tgt \in Target
    /\ q.at \in Detaching \cup (Scanning \ {"sList", "sLuns"}) \cup (Sweeping \ {"zList", "zLuns"})
          => q.from \in Target
    /\ q.at = "setUser" => q.user \in User
    /\ q.at \in {"slot", "pick"} => q.seen \subseteq Own
    /\ q.at = "slot" => q.todo \subseteq Own /\ q.todo # {}
    /\ q.at = "delUser" => q.todo \subseteq User /\ q.todo # {}
    /\ q.at \in Sweeping \ {"zList"} => q.todo \subseteq Own
    /\ q.at = "sLuns" => q.todo \subseteq Target
    /\ q.at \in {"zCheck", "zDetach"} => q.seen \subseteq Volume
    /\ q.at = "zDetach" => q.item \in Volume

\* A process at work.
Job(q) == q \in RunType /\ Method(q) /\ Returns(q) /\ Args(q)

\* A request that may be executed late names what it needs.
Pending(r) == r \in RequestType /\ (r.c = "create" => r.t \in Target)

Types ==
    /\ array \in ArrayType
    /\ session \subseteq Target
    /\ pr \in [Proc -> RunType] /\ \A p \in Proc : Job(pr[p])
    /\ \A r \in late : Pending(r)
    /\ \A r, s \in late : r = s

\* The target a publication or a lookup takes the volume from has no sessions.
Unused ==
    \A p \in Proc :
       pr[p].at \in {"detach", "left", "drop"} /\ pr[p].cmd \in Lookups => pr[p].from \notin session

\* One command at a time.
Alone == \A p, o \in Proc : p # o => pr[p].at = "idle" \/ pr[o].at = "idle"

\* Only target creations come late.
OnlyCreates == \A r \in late : r.c = "create"

\* What a publication knows of its volume.
Placed(q, a) ==
    /\ q.at = "rehome" => a.att[q.vol] = <<q.tgt, q.lun>>
    /\ q.at \in Choosing => a.att[q.vol] = None
    /\ q.at \in {"detach", "left", "drop"} /\ q.cmd \in Lookups /\ q.back = "list" =>
          a.att[q.vol] = None \/ (q.at = "detach" /\ a.att[q.vol][1] = q.from)
    /\ q.cmd \in Publishers =>
          /\ q.at \in {"confirm", "users", "delUser", "setUser", "active"}
                => a.att[q.vol] = <<q.tgt, q.lun>>
          /\ q.at = "done" /\ q.res = "ok" => a.att[q.vol] = <<q.tgt, q.lun>>
          /\ q.at \in {"target", "vips", "getLun"} =>
                /\ a.att[q.vol] \in {None, <<q.tgt, q.lun>>}
                /\ q.known => a.att[q.vol] = <<q.tgt, q.lun>>
    /\ q.cmd = "export" /\ q.at \in Scanning \cup {"destroy"} => q.res = "failed"

\* What an unpublication that met no failure has reached.
Removal(q, a) ==
    /\ q.cmd = "remove" /\ q.errs = 0 =>
          /\ q.at = "detach" => a.att[q.vol] = None \/ a.att[q.vol][1] = q.from
          /\ q.at \in {"left", "drop", "removed"} \cup Sweeping => a.att[q.vol] = None
          /\ q.at = "done" /\ q.res = "ok" => a.att[q.vol] = None
    /\ q.cmd = "unexport" /\ q.errs = 0 /\ q.at = "done" /\ q.res = "ok" => q.vol \notin a.zvol

\* What is known of the target that is about to be removed.
Emptied(q, a) ==
    /\ q.at \in {"drop", "zDrop", "sDrop", "sGone"} /\ q.cmd # "delete" => On(a, q.from) = {}
    /\ q.at = "sDetach" /\ ~q.only => On(a, q.from) \subseteq {q.vol}
    /\ q.at = "zDetach" => q.item \notin a.zvol

Sound == \A p \in Proc : Placed(pr[p], array) /\ Removal(pr[p], array) /\ Emptied(pr[p], array)

-----------------------------------------------------------------------------
(* The REST calls: what they leave alone, and that a second one changes      *)
(* nothing more.                                                             *)

LEMMA Fields ==
    ASSUME NEW a \in ArrayType
    PROVE  /\ a = [zvol |-> a.zvol, made |-> a.made, att |-> a.att, chap |-> a.chap, users |-> a.users]
           /\ a.zvol \subseteq Volume /\ a.made \subseteq Target
           /\ a.att \in [Volume -> Slot \cup {None}]
           /\ a.chap \in [Target -> BOOLEAN] /\ a.users \in [Target -> SUBSET User]
<1> QED BY DEF ArrayType

LEMMA ArrayOf ==
    ASSUME NEW z \in SUBSET Volume, NEW m \in SUBSET Target, NEW f \in [Volume -> Slot \cup {None}],
           NEW c \in [Target -> BOOLEAN], NEW u \in [Target -> SUBSET User]
    PROVE  [zvol |-> z, made |-> m, att |-> f, chap |-> c, users |-> u] \in ArrayType
<1> QED BY DEF ArrayType

\* A volume is on no target, or on that of its slot.
LEMMA Slots ==
    ASSUME NEW a \in ArrayType, NEW v \in Volume, a.att[v] # None
    PROVE  /\ a.att[v] \in Slot /\ a.att[v] = <<a.att[v][1], a.att[v][2]>>
           /\ a.att[v][1] \in Target /\ a.att[v][2] \in 0..Luns - 1
<1> QED BY Fields DEF Slot

LEMMA create_target_Effect ==
    ASSUME NEW a \in ArrayType, NEW t \in Target, NEW u,
           NEW r, r = create_target(a, t, u)
    PROVE  /\ r.a \in ArrayType /\ r.r \in {"ok", "exists"}
           /\ r.a.att = a.att /\ r.a.zvol = a.zvol /\ r.a.users = a.users
           /\ a.made \subseteq r.a.made /\ t \in r.a.made
           /\ create_target(r.a, t, u) = Ret(r.a, "exists")
<1>1. CASE t \in a.made
  BY <1>1 DEF create_target, Ret
<1>2. CASE t \notin a.made
  <2> DEFINE b == u # None
  <2>1. r.a = [a EXCEPT !.made = @ \cup {t}, !.chap[t] = b] /\ r.r = "ok"
    BY <1>2 DEF create_target, Ret
  <2>2. b \in BOOLEAN
    OBVIOUS
  <2>3. r.a \in ArrayType /\ r.a.att = a.att /\ r.a.zvol = a.zvol /\ r.a.users = a.users
        /\ r.a.made = a.made \cup {t}
    <3> HIDE DEF b
    <3>1. r.a \in ArrayType
      <4>1. r.a.chap = [a.chap EXCEPT ![t] = b] /\ r.a.chap \in [Target -> BOOLEAN]
        BY <2>1, <2>2 DEF ArrayType
      <4>2. r.a = [zvol |-> a.zvol, made |-> r.a.made, att |-> a.att, chap |-> r.a.chap,
                   users |-> a.users]
        BY <2>1 DEF ArrayType
      <4>3. r.a.made \subseteq Target
        BY <2>1 DEF ArrayType
      <4> QED BY <4>1, <4>2, <4>3 DEF ArrayType
    <3>2. r.a.att = a.att /\ r.a.zvol = a.zvol /\ r.a.users = a.users /\ r.a.made = a.made \cup {t}
      BY <2>1 DEF ArrayType
    <3> QED BY <3>1, <3>2
  <2> QED BY <2>1, <2>3 DEF create_target
<1> QED BY <1>1, <1>2

LEMMA delete_target_Effect ==
    ASSUME NEW a \in ArrayType, NEW t \in Target, NEW r, r = delete_target(a, t)
    PROVE  /\ r.a \in ArrayType /\ r.r \in {"ok", "notfound"}
           /\ r.a.zvol = a.zvol /\ r.a.made = a.made \ {t}
           /\ \A v \in Volume : \/ r.a.att[v] = a.att[v]
                                \/ r.a.att[v] = None /\ v \in On(a, t)
           /\ delete_target(r.a, t) = Ret(r.a, "notfound")
<1>1. CASE t \notin a.made
  BY <1>1 DEF delete_target, Ret
<1>2. CASE t \in a.made
  <2> DEFINE f == [v \in Volume |-> IF v \in On(a, t) THEN None ELSE a.att[v]]
  <2>1. r.a = [a EXCEPT !.made = @ \ {t}, !.chap[t] = FALSE, !.users[t] = {}, !.att = f] /\ r.r = "ok"
    BY <1>2 DEF delete_target, Ret
  <2>2. f \in [Volume -> Slot \cup {None}]
    BY Fields
  <2>3. r.a \in ArrayType /\ r.a.zvol = a.zvol /\ r.a.made = a.made \ {t} /\ r.a.att = f
    <3> HIDE DEF f
    <3>1. r.a \in ArrayType
      <4> DEFINE m == r.a.made
                 c == r.a.chap
                 u == r.a.users
      <4>1. m \in SUBSET Target /\ a.zvol \in SUBSET Volume
        BY <2>1 DEF ArrayType
      <4>2. c = [a.chap EXCEPT ![t] = FALSE] /\ c \in [Target -> BOOLEAN]
        BY <2>1 DEF ArrayType
      <4>3. u = [a.users EXCEPT ![t] = {}] /\ u \in [Target -> SUBSET User]
        BY <2>1 DEF ArrayType
      <4>4. r.a = [zvol |-> a.zvol, made |-> m, att |-> f, chap |-> c, users |-> u]
        BY <2>1 DEF ArrayType
      <4> HIDE DEF m, c, u
      <4>5. c \in [Target -> BOOLEAN] /\ u \in [Target -> SUBSET User]
        BY <4>2, <4>3
      <4>6. [zvol |-> a.zvol, made |-> m, att |-> f, chap |-> c, users |-> u] \in ArrayType
        BY <2>2, <4>1, <4>5, ArrayOf
      <4> QED BY <4>4, <4>6
    <3>2. r.a.zvol = a.zvol /\ r.a.made = a.made \ {t} /\ r.a.att = f
      BY <2>1 DEF ArrayType
    <3> QED BY <3>1, <3>2
  <2>4. delete_target(r.a, t) = Ret(r.a, "notfound")
    BY <2>3 DEF delete_target
  <2> QED BY <2>1, <2>3, <2>4
<1> QED BY <1>1, <1>2

LEMMA attach_target_vol_Effect ==
    ASSUME NEW a \in ArrayType, NEW t, NEW v, NEW l \in 0..Luns - 1,
           NEW r, r = attach_target_vol(a, t, v, l)
    PROVE  /\ r.a \in ArrayType /\ r.r \in {"ok", "notfound", "busy", "exists"}
           /\ r.a.zvol = a.zvol /\ r.a.made = a.made
           /\ \A w \in Volume : (w = v /\ a.att[w] = None) \/ r.a.att[w] = a.att[w]
           /\ r.r = "ok" => v \in Volume /\ r.a.att[v] = <<t, l>>
           /\ attach_target_vol(r.a, t, v, l).a = r.a
           /\ attach_target_vol(r.a, t, v, l).r \in {"notfound", "busy", "exists"}
<1>1. CASE t \notin a.made \/ v \notin a.zvol
  <2>1. r = Ret(a, "notfound")
    BY <1>1 DEF attach_target_vol
  <2>2. r.a = a /\ r.r = "notfound"
    BY <2>1 DEF Ret
  <2> QED BY <2>1, <2>2
<1>2. CASE t \in a.made /\ v \in a.zvol /\ a.att[v] # None
  <2>1. r = Ret(a, "busy")
    BY <1>2 DEF attach_target_vol
  <2>2. r.a = a /\ r.r = "busy"
    BY <2>1 DEF Ret
  <2> QED BY <2>1, <2>2
<1>3. CASE t \in a.made /\ v \in a.zvol /\ a.att[v] = None /\ l \in LunsOf(a, t)
  <2>1. r = Ret(a, "exists")
    BY <1>3 DEF attach_target_vol
  <2>2. r.a = a /\ r.r = "exists"
    BY <2>1 DEF Ret
  <2> QED BY <2>1, <2>2
<1>4. CASE t \in a.made /\ v \in a.zvol /\ a.att[v] = None /\ l \notin LunsOf(a, t)
  <2>1. r.a = [a EXCEPT !.att[v] = <<t, l>>] /\ r.r = "ok"
    BY <1>4 DEF attach_target_vol, Ret
  <2>2. <<t, l>> \in Slot /\ v \in Volume
    BY <1>4, Fields DEF Slot
  <2>3. r.a \in ArrayType /\ r.a.zvol = a.zvol /\ r.a.made = a.made
        /\ r.a.att = [a.att EXCEPT ![v] = <<t, l>>]
    BY <2>1, <2>2, Fields DEF ArrayType
  <2>4. \A w \in Volume : (w = v /\ a.att[w] = None) \/ r.a.att[w] = a.att[w]
    <3>1. \A w \in Volume \ {v} : r.a.att[w] = a.att[w]
      BY <2>3, Fields
    <3> QED BY <1>4, <3>1
  <2>5. r.a.att[v] = <<t, l>>
    BY <2>2, <2>3, Fields
  <2>6. attach_target_vol(r.a, t, v, l) = Ret(r.a, "busy")
    BY <1>4, <2>2, <2>3, <2>5, TargetsAssumption DEF attach_target_vol
  <2> QED BY <2>1, <2>2, <2>3, <2>4, <2>5, <2>6 DEF Ret
<1> QED BY <1>1, <1>2, <1>3, <1>4

LEMMA detach_target_vol_Effect ==
    ASSUME NEW a \in ArrayType, NEW t, NEW v, NEW r, r = detach_target_vol(a, t, v)
    PROVE  /\ r.a \in ArrayType /\ r.r \in {"ok", "notfound"}
           /\ r.a.zvol = a.zvol /\ r.a.made = a.made
           /\ \A w \in Volume : \/ r.a.att[w] = a.att[w]
                                \/ w = v /\ v \in On(a, t) /\ r.a.att[w] = None
           /\ v \notin On(r.a, t)
           /\ detach_target_vol(r.a, t, v) = Ret(r.a, "notfound")
<1>1. CASE v \notin On(a, t)
  BY <1>1 DEF detach_target_vol, Ret
<1>2. CASE v \in On(a, t)
  <2>1. r.a = [a EXCEPT !.att[v] = None] /\ r.r = "ok" /\ v \in Volume
    BY <1>2 DEF detach_target_vol, Ret, On
  <2>2. r.a \in ArrayType /\ r.a.zvol = a.zvol /\ r.a.made = a.made
        /\ r.a.att = [a.att EXCEPT ![v] = None]
    BY <2>1, Fields DEF ArrayType
  <2>3. \A w \in Volume : (w = v /\ r.a.att[w] = None) \/ r.a.att[w] = a.att[w]
    <3>1. (\A w \in Volume \ {v} : r.a.att[w] = a.att[w]) /\ r.a.att[v] = None
      BY <2>1, <2>2, Fields
    <3> QED BY <3>1
  <2>4. v \notin On(r.a, t)
    BY <2>1, <2>2, Fields DEF On
  <2> QED BY <1>2, <2>1, <2>2, <2>3, <2>4 DEF detach_target_vol
<1> QED BY <1>1, <1>2

LEMMA create_target_user_Effect ==
    ASSUME NEW a \in ArrayType, NEW t \in Target, NEW u \in User,
           NEW r, r = create_target_user(a, t, u)
    PROVE  /\ r.a \in ArrayType /\ r.r \in {"ok", "notfound"}
           /\ r.a.att = a.att /\ r.a.zvol = a.zvol /\ r.a.made = a.made /\ r.a.chap = a.chap
           /\ create_target_user(r.a, t, u) = r
<1>1. CASE t \notin a.made
  BY <1>1 DEF create_target_user, Ret
<1>2. CASE t \in a.made
  <2>1. r.a = [a EXCEPT !.users[t] = @ \cup {u}] /\ r = Ret(r.a, "ok")
    BY <1>2 DEF create_target_user, Ret
  <2>2. /\ r.a \in ArrayType /\ r.a.att = a.att /\ r.a.zvol = a.zvol /\ r.a.made = a.made
        /\ r.a.chap = a.chap /\ r.a.users = [a.users EXCEPT ![t] = @ \cup {u}]
    BY <2>1, Fields DEF ArrayType
  <2>3. [r.a EXCEPT !.users[t] = @ \cup {u}] = r.a
    <3> DEFINE f == r.a.users
    <3>0. f[t] = a.users[t] \cup {u} /\ f \in [Target -> SUBSET User]
      BY <2>2, Fields
    <3>1. [f EXCEPT ![t] = @ \cup {u}] = f
      <4>1. f[t] \cup {u} = f[t]
        BY <3>0
      <4> HIDE DEF f
      <4> QED BY <3>0, <4>1
    <3>2. [r.a EXCEPT !.users = [f EXCEPT ![t] = @ \cup {u}]] = [r.a EXCEPT !.users[t] = @ \cup {u}]
      OBVIOUS
    <3>3. [r.a EXCEPT !.users = r.a.users] = r.a
      BY <2>2 DEF ArrayType
    <3> QED BY <3>1, <3>2, <3>3
  <2> QED BY <1>2, <2>1, <2>2, <2>3 DEF create_target_user, Ret
<1> QED BY <1>1, <1>2

LEMMA delete_target_user_Effect ==
    ASSUME NEW a \in ArrayType, NEW t \in Target, NEW u, NEW r, r = delete_target_user(a, t, u)
    PROVE  /\ r.a \in ArrayType /\ r.r \in {"ok", "notfound"}
           /\ r.a.att = a.att /\ r.a.zvol = a.zvol /\ r.a.made = a.made /\ r.a.chap = a.chap
           /\ delete_target_user(r.a, t, u) = Ret(r.a, "notfound")
<1>1. CASE u \notin a.users[t]
  BY <1>1 DEF delete_target_user, Ret
<1>2. CASE u \in a.users[t]
  <2>1. r.a = [a EXCEPT !.users[t] = @ \ {u}] /\ r.r = "ok"
    BY <1>2 DEF delete_target_user, Ret
  <2>2. /\ r.a \in ArrayType /\ r.a.att = a.att /\ r.a.zvol = a.zvol /\ r.a.made = a.made
        /\ r.a.chap = a.chap /\ r.a.users = [a.users EXCEPT ![t] = @ \ {u}]
    BY <2>1, Fields DEF ArrayType
  <2>3. u \notin r.a.users[t]
    BY <2>2, Fields
  <2> QED BY <2>1, <2>2, <2>3 DEF delete_target_user
<1> QED BY <1>1, <1>2

LEMMA set_active_Effect ==
    ASSUME NEW a \in ArrayType, NEW t \in Target, NEW b \in BOOLEAN,
           NEW r, r = set_target_incoming_users_active(a, t, b)
    PROVE  /\ r.a \in ArrayType /\ r.r \in {"ok", "notfound"}
           /\ r.a.att = a.att /\ r.a.zvol = a.zvol /\ r.a.made = a.made
<1>1. CASE t \notin a.made
  BY <1>1 DEF set_target_incoming_users_active, Ret
<1>2. CASE t \in a.made
  <2>1. r.a = [a EXCEPT !.chap[t] = b] /\ r.r = "ok"
    BY <1>2 DEF set_target_incoming_users_active, Ret
  <2> QED BY <2>1, Fields DEF ArrayType
<1> QED BY <1>1, <1>2

LEMMA create_clone_Effect ==
    ASSUME NEW a \in ArrayType, NEW v \in Volume, NEW r, r = create_volume_from_snapshot(a, v)
    PROVE  /\ r.a \in ArrayType /\ r.r \in {"ok", "exists"}
           /\ r.a.att = a.att /\ r.a.zvol = a.zvol \cup {v} /\ r.a.made = a.made
           /\ create_volume_from_snapshot(r.a, v) = Ret(r.a, "exists")
<1>1. CASE v \in a.zvol
  BY <1>1 DEF create_volume_from_snapshot, Ret
<1>2. CASE v \notin a.zvol
  <2>1. r.a = [a EXCEPT !.zvol = @ \cup {v}] /\ r.r = "ok"
    BY <1>2 DEF create_volume_from_snapshot, Ret
  <2>2. r.a \in ArrayType /\ r.a.att = a.att /\ r.a.zvol = a.zvol \cup {v} /\ r.a.made = a.made
    BY <2>1, Fields DEF ArrayType
  <2> QED BY <2>1, <2>2 DEF create_volume_from_snapshot
<1> QED BY <1>1, <1>2

LEMMA delete_lun_Effect ==
    ASSUME NEW a \in ArrayType, NEW v \in Volume, NEW d \in BOOLEAN, NEW r, r = delete_lun(a, v, d)
    PROVE  /\ r.a \in ArrayType /\ r.r \in {"ok", "notfound"}
           /\ r.a.zvol = a.zvol \ {v} /\ r.a.made = a.made
           /\ \A w \in Volume : w # v => r.a.att[w] = a.att[w]
           /\ delete_lun(r.a, v, d) = Ret(r.a, "notfound")
<1>1. CASE v \notin a.zvol
  BY <1>1 DEF delete_lun, Ret
<1>2. CASE v \in a.zvol
  <2> DEFINE x == IF d THEN None ELSE a.att[v]
  <2>1. r.a = [a EXCEPT !.zvol = @ \ {v}, !.att[v] = x] /\ r.r = "ok"
    BY <1>2 DEF delete_lun, Ret
  <2>2. x \in Slot \cup {None}
    BY Fields
  <2>3. r.a \in ArrayType /\ r.a.zvol = a.zvol \ {v} /\ r.a.made = a.made
        /\ r.a.att = [a.att EXCEPT ![v] = x]
    <3> HIDE DEF x
    <3> QED BY <2>1, <2>2, Fields DEF ArrayType
  <2>4. \A w \in Volume : w # v => r.a.att[w] = a.att[w]
    BY <2>3, Fields
  <2> QED BY <2>1, <2>3, <2>4 DEF delete_lun
<1> QED BY <1>1, <1>2

\* How a request ends: with its effect, or without one and with an error.
LEMMA Answer ==
    ASSUME NEW q, NEW c, NEW r, NEW again, again.a = r.a, NEW o \in Answers(q, c, r, again)
    PROVE  \/ o = r
           \/ o = again
           \/ o.a \in {array, r.a} /\ o.r \in {"error", "cfg"}
<1>1. \A e \in Errors(q, c) : e \in {"error", "cfg"}
  BY DEF Errors
<1> QED BY <1>1 DEF Answers, Ret

-----------------------------------------------------------------------------
(* How a command goes on.                                                  *)

LEMMA StepNames ==
    /\ Detaching \subseteq Steps /\ Scanning \subseteq Steps /\ Sweeping \subseteq Steps
    /\ Attaching \subseteq Steps /\ Crediting \subseteq Steps /\ Choosing \subseteq Steps
    /\ {"idle", "done", "lookup", "rehome", "vipsNew", "removed", "destroy", "exists", "clone"}
          \subseteq Steps
<1> QED BY DEF Steps, Detaching, Scanning, Sweeping, Attaching, Crediting, Choosing

LEMMA NoRunIdle ==
    /\ NoRun \in RunType /\ NoRun.at = "idle" /\ Job(NoRun)
<1>1. 0 \in 0..Luns - 1
  BY TargetsAssumption
<1>2. NoRun \in RunType
  BY <1>1, StepNames DEF NoRun, RunType, Results, Backs, Commands
<1>3. NoRun.at = "idle" /\ NoRun.cmd = "none"
  BY DEF NoRun
<1> QED BY <1>2, <1>3 DEF Job, Method, Returns, Args, Detaching, Scanning, Sweeping, Attaching, Crediting, Choosing

LEMMA GoFields ==
    ASSUME NEW q \in RunType, NEW at \in Steps
    PROVE  /\ Go(q, at) \in RunType /\ Go(q, at).at = at
           /\ Go(q, at).cmd = q.cmd /\ Go(q, at).vol = q.vol /\ Go(q, at).user = q.user
           /\ Go(q, at).tgt = q.tgt /\ Go(q, at).lun = q.lun /\ Go(q, at).known = q.known
           /\ Go(q, at).fresh = q.fresh
           /\ Go(q, at).from = q.from /\ Go(q, at).only = q.only /\ Go(q, at).back = q.back
           /\ Go(q, at).seen = q.seen /\ Go(q, at).todo = q.todo /\ Go(q, at).item = q.item
           /\ Go(q, at).errs = q.errs /\ Go(q, at).res = q.res /\ Go(q, at).idx = q.idx
           /\ Go(q, at).flag = q.flag
<1> QED BY DEF Go, RunType

LEMMA FinishFields ==
    ASSUME NEW q \in RunType, NEW r \in Results
    PROVE  /\ Finish(q, r) \in RunType /\ Finish(q, r).at = "done" /\ Finish(q, r).res = r
           /\ Finish(q, r).cmd = q.cmd /\ Finish(q, r).vol = q.vol /\ Finish(q, r).user = q.user
           /\ Finish(q, r).tgt = q.tgt /\ Finish(q, r).lun = q.lun /\ Finish(q, r).errs = q.errs
<1> DEFINE n == Finish(q, r)
<1>1. NoRun \in RunType /\ "done" \in Steps
  BY NoRunIdle, StepNames
<1>2. n = [NoRun EXCEPT !.at = "done", !.cmd = q.cmd, !.vol = q.vol, !.user = q.user,
                        !.tgt = q.tgt, !.lun = q.lun, !.errs = q.errs, !.res = r]
  BY DEF Finish
<1> HIDE DEF n
<1>3. n \in RunType
  BY <1>1, <1>2 DEF RunType
<1>4. /\ n.at = "done" /\ n.res = r /\ n.cmd = q.cmd /\ n.vol = q.vol /\ n.user = q.user
      /\ n.tgt = q.tgt /\ n.lun = q.lun /\ n.errs = q.errs
  BY <1>1, <1>2 DEF RunType
<1> QED BY <1>3, <1>4 DEF n

LEMMA FeltFields ==
    ASSUME NEW q \in RunType, NEW e
    PROVE  /\ Felt(q, e) \in RunType /\ Felt(q, e) = [q EXCEPT !.errs = Felt(q, e).errs]
           /\ Felt(q, e).errs \in {q.errs, q.errs + 1}
           /\ e \in {"error", "cfg", "blocked", "clash", "inuse"} => Felt(q, e).errs = q.errs + 1
<1> QED BY DEF Felt, RunType

LEMMA EndJob ==
    ASSUME NEW n \in RunType, n.at = "done", n.cmd \notin {"none", "update", "delete"} => n.vol \in Volume
    PROVE  Job(n)
<1> QED BY DEF Job, Method, Returns, Args, Detaching, Scanning, Sweeping, Attaching, Crediting, Choosing

\* An end, or the beginning of a last part that needs nothing but the volume.
LEMMA FinishJob ==
    ASSUME NEW q, Job(q), NEW r \in Results
    PROVE  Job(Finish(q, r))
<1> DEFINE n == Finish(q, r)
<1>1. q \in RunType /\ (q.cmd \notin {"none", "update", "delete"} => q.vol \in Volume)
  BY DEF Job, Args
<1>2. n \in RunType /\ n.at = "done" /\ n.cmd = q.cmd /\ n.vol = q.vol
  BY <1>1, FinishFields
<1> HIDE DEF n
<1>3. Job(n)
  BY <1>1, <1>2, EndJob
<1> QED BY <1>3 DEF n

LEMMA LastPartJob ==
    ASSUME NEW n \in RunType, n.cmd \notin {"none", "update", "delete"}, n.vol \in Volume,
           \/ n.at = "lookup" /\ n.cmd \in Lookups \cup {"getCurrent", "remove", "unexport"}
           \/ n.at \in {"sList", "destroy"} /\ n.cmd \in {"export", "unexport", "destroy"}
           \/ n.at = "removed" /\ n.cmd = "remove"
           \/ n.at = "list" /\ n.cmd \in Lookups
    PROVE  Job(n)
<1> QED BY DEF Job, Method, Returns, Args, Lookups, Detaching, Scanning, Sweeping, Attaching, Crediting, Choosing

\* An exception ends the command as failed, or leads to a step that expects it.
Handled(q, e, n) ==
    /\ n.cmd = q.cmd /\ n.vol = q.vol /\ n.user = q.user
    /\ n.errs \in {q.errs, q.errs + 1}
    /\ e \in {"error", "cfg", "blocked", "clash", "inuse"} => n.errs = q.errs + 1
    /\ \/ n.at = "done" /\ n.res = "failed"
       \/ n.at = "lookup" /\ q.cmd = "create"
       \/ n.at = "sList" /\ n.res = "failed" /\ q.cmd \in {"export", "unexport"}
       \/ n.at = "destroy" /\ n.res = q.res /\ q.at \in Scanning
       \/ n.at = "removed" /\ q.cmd = "remove" /\ q.at \in Detaching

LEMMA RaisedHandled ==
    ASSUME NEW q, Job(q), NEW e
    PROVE  Job(Raised(q, e)) /\ Handled(q, e, Raised(q, e))
<1> DEFINE h == Felt(q, e)
           n == Raised(q, e)
<1>1. q \in RunType /\ (q.cmd \notin {"none", "update", "delete"} => q.vol \in Volume)
  BY DEF Job, Args
<1>2. /\ h \in RunType /\ h = [q EXCEPT !.errs = h.errs] /\ h.errs \in {q.errs, q.errs + 1}
      /\ e \in {"error", "cfg", "blocked", "clash", "inuse"} => h.errs = q.errs + 1
  BY <1>1, FeltFields
<1>3. /\ h.cmd = q.cmd /\ h.vol = q.vol /\ h.user = q.user /\ h.res = q.res
  BY <1>1, <1>2 DEF RunType
<1>4. CASE q.at \in Scanning
  <2>1. n = Go(h, "destroy")
    BY <1>4 DEF Raised
  <2>2. q.cmd \in {"export", "unexport", "destroy"}
    BY <1>4 DEF Job, Method
  <2> HIDE DEF n, h
  <2>3. /\ n \in RunType /\ n.at = "destroy" /\ n.cmd = q.cmd /\ n.vol = q.vol /\ n.user = q.user
        /\ n.errs = h.errs /\ n.res = q.res
    <3>1. "destroy" \in Steps
      BY DEF Steps
    <3> QED BY <1>2, <1>3, <2>1, <3>1, GoFields
  <2>4. Job(n)
    BY <1>1, <2>2, <2>3, LastPartJob
  <2> QED BY <1>2, <1>4, <2>3, <2>4 DEF Handled, n
<1>5. CASE q.at \notin Scanning /\ q.cmd = "create" /\ e = "cfg" /\ q.at # "exists" /\ q.round + 1 < Rounds
  <2>1. n = [NoRun EXCEPT !.at = "lookup", !.cmd = q.cmd, !.vol = q.vol, !.user = q.user,
                          !.round = q.round + 1, !.errs = h.errs]
    BY <1>5 DEF Raised
  <2>2. q.round + 1 \in Nat /\ h.errs \in Nat
    BY <1>1, <1>2 DEF RunType
  <2> HIDE DEF n, h
  <2>3. /\ n \in RunType /\ n.at = "lookup" /\ n.cmd = q.cmd /\ n.vol = q.vol /\ n.user = q.user
        /\ n.errs = h.errs
    BY <1>1, <2>1, <2>2, NoRunIdle, StepNames DEF RunType
  <2>4. Job(n)
    BY <1>1, <1>5, <2>3, LastPartJob DEF Lookups
  <2> QED BY <1>2, <1>5, <2>3, <2>4 DEF Handled, n
<1>6. CASE /\ q.at \notin Scanning
           /\ ~(q.cmd = "create" /\ e = "cfg" /\ q.at # "exists" /\ q.round + 1 < Rounds)
           /\ \/ q.cmd = "export" /\ q.at # "clone"
              \/ q.cmd = "unexport" /\ q.at \in Detaching
  <2>1. n = [Go(h, "sList") EXCEPT !.res = "failed"]
    BY <1>6 DEF Raised
  <2>2. "sList" \in Steps
    BY DEF Steps, Scanning
  <2> HIDE DEF n, h
  <2>3. /\ n \in RunType /\ n.at = "sList" /\ n.cmd = q.cmd /\ n.vol = q.vol /\ n.user = q.user
        /\ n.errs = h.errs /\ n.res = "failed"
    <3> DEFINE g == Go(h, "sList")
    <3>1. g \in RunType /\ g.at = "sList" /\ g.cmd = q.cmd /\ g.vol = q.vol /\ g.user = q.user /\ g.errs = h.errs
      BY <1>2, <1>3, <2>2, GoFields
    <3> HIDE DEF g
    <3>2. n = [g EXCEPT !.res = "failed"] /\ "failed" \in Results
      BY <2>1 DEF g, Results
    <3> QED BY <3>1, <3>2 DEF RunType
  <2>4. q.cmd \in {"export", "unexport"}
    BY <1>6
  <2>5. Job(n)
    BY <1>1, <2>3, <2>4, LastPartJob
  <2> QED BY <1>2, <2>3, <2>4, <2>5 DEF Handled, n
<1>7. CASE /\ q.at \notin Scanning
           /\ ~(q.cmd = "create" /\ e = "cfg" /\ q.at # "exists" /\ q.round + 1 < Rounds)
           /\ ~(\/ q.cmd = "export" /\ q.at # "clone"
                \/ q.cmd = "unexport" /\ q.at \in Detaching)
           /\ q.cmd = "remove" /\ q.at \in Detaching
  <2>1. n = Go(h, "removed")
    BY <1>7 DEF Raised
  <2> HIDE DEF n, h
  <2>3. /\ n \in RunType /\ n.at = "removed" /\ n.cmd = q.cmd /\ n.vol = q.vol /\ n.user = q.user
        /\ n.errs = h.errs
    <3>1. "removed" \in Steps
      BY DEF Steps
    <3> QED BY <1>2, <1>3, <2>1, <3>1, GoFields
  <2>4. Job(n)
    BY <1>1, <1>7, <2>3, LastPartJob
  <2> QED BY <1>2, <1>7, <2>3, <2>4 DEF Handled, n
<1>8. CASE /\ q.at \notin Scanning
           /\ ~(q.cmd = "create" /\ e = "cfg" /\ q.at # "exists" /\ q.round + 1 < Rounds)
           /\ ~(\/ q.cmd = "export" /\ q.at # "clone"
                \/ q.cmd = "unexport" /\ q.at \in Detaching)
           /\ ~(q.cmd = "remove" /\ q.at \in Detaching)
  <2>1. n = Finish(h, "failed")
    BY <1>8 DEF Raised
  <2>2. "failed" \in Results
    BY DEF Results
  <2> HIDE DEF n, h
  <2>3. /\ n \in RunType /\ n.at = "done" /\ n.cmd = q.cmd /\ n.vol = q.vol /\ n.user = q.user
        /\ n.errs = h.errs /\ n.res = "failed"
    BY <1>2, <1>3, <2>1, <2>2, FinishFields
  <2>4. Job(n)
    BY <1>1, <2>3, EndJob
  <2> QED BY <1>2, <2>3, <2>4 DEF Handled, n
<1> QED BY <1>4, <1>5, <1>6, <1>7, <1>8

\* The volume is in its slot; the credentials come next.
PublishedAs(q, n) ==
    /\ n.cmd = q.cmd /\ n.vol = q.vol /\ n.user = q.user /\ n.tgt = q.tgt /\ n.lun = q.lun
    /\ n.errs = q.errs
    /\ \/ q.fresh /\ q.user = None /\ n.at = "done" /\ n.res = "ok"
       \/ q.fresh /\ q.user # None /\ n.at = "setUser" /\ n.fresh
       \/ ~q.fresh /\ q.user = None /\ n.at = "active" /\ ~n.fresh /\ n.flag = q.flag
       \/ ~q.fresh /\ q.user # None /\ n.at = "users" /\ ~n.fresh /\ n.flag = q.flag

LEMMA CreditJob ==
    ASSUME NEW n \in RunType, n.cmd \in Publishers, n.vol \in Volume, n.tgt \in Target,
           \/ n.at = "setUser" /\ n.user \in User
           \/ n.at \in {"active", "users", "target", "vips", "vipsNew", "create", "getLun",
                        "attach", "resolve", "confirm", "dropBad"}
    PROVE  Job(n)
<1> QED BY DEF Job, Method, Returns, Args, Publishers, Lookups, Detaching, Scanning, Sweeping,
               Attaching, Crediting, Choosing

LEMMA PublishedShape ==
    ASSUME NEW q \in RunType, q.cmd \in Publishers, q.vol \in Volume, q.tgt \in Target
    PROVE  Job(Published(q)) /\ PublishedAs(q, Published(q))
<1> DEFINE n == Published(q)
<1>1. q.fresh \in BOOLEAN /\ q.user \in User \cup {None}
  BY DEF RunType
<1>2. "setUser" \in Steps /\ "active" \in Steps /\ "users" \in Steps /\ "ok" \in Results
  BY DEF Steps, Results
<1>3. CASE q.fresh /\ q.user = None
  <2>1. n = Finish(q, "ok")
    BY <1>3 DEF Published
  <2> HIDE DEF n
  <2>2. /\ n \in RunType /\ n.at = "done" /\ n.res = "ok" /\ n.cmd = q.cmd /\ n.vol = q.vol
        /\ n.user = q.user /\ n.tgt = q.tgt /\ n.lun = q.lun /\ n.errs = q.errs
    BY <1>2, <2>1, FinishFields
  <2>3. Job(n)
    BY <2>2, EndJob
  <2> QED BY <1>3, <2>2, <2>3 DEF PublishedAs, n
<1>4. ASSUME ~(q.fresh /\ q.user = None)
      PROVE  Job(n) /\ PublishedAs(q, n)
  <2> DEFINE at == IF q.fresh THEN "setUser" ELSE IF q.user = None THEN "active" ELSE "users"
  <2>1. n = Go(q, at)
    BY <1>1, <1>4 DEF Published
  <2>2. at \in Steps
    BY <1>2
  <2> HIDE DEF n, at
  <2>3. /\ n \in RunType /\ n.at = at /\ n.cmd = q.cmd /\ n.vol = q.vol
        /\ n.user = q.user /\ n.tgt = q.tgt /\ n.lun = q.lun /\ n.errs = q.errs
        /\ n.fresh = q.fresh /\ n.flag = q.flag
    BY <2>1, <2>2, GoFields
  <2>4. /\ q.fresh => at = "setUser" /\ q.user # None
        /\ ~q.fresh /\ q.user = None => at = "active"
        /\ ~q.fresh /\ q.user # None => at = "users"
    BY <1>4 DEF at
  <2>5. Job(n)
    BY <1>1, <2>3, <2>4, CreditJob
  <2>6. PublishedAs(q, n)
    BY <1>1, <2>3, <2>4 DEF PublishedAs
  <2> QED BY <2>5, <2>6
<1> QED BY <1>3, <1>4

\* A slot has been found for the volume, or there is none.
AcquiredAs(q, t, l, attached, fresh, n) ==
    /\ n.cmd = q.cmd /\ n.vol = q.vol /\ n.user = q.user /\ n.errs = q.errs
    /\ \/ /\ q.cmd \in Publishers
          /\ n.at = IF fresh THEN "vipsNew" ELSE "target"
          /\ n.tgt = t /\ n.lun = l /\ n.fresh = fresh
          /\ n.known => attached
       \/ q.cmd \in {"get", "getCurrent"} /\ n.at = "vipsNew" /\ attached
       \/ q.cmd \in {"get", "getCurrent"} /\ n.at = "done" /\ n.res = "ok" /\ ~attached
       \/ q.cmd = "remove" /\ attached /\ n.at = "detach" /\ n.from = t
       \/ q.cmd = "remove" /\ ~attached /\ n.at = "removed"
       \/ q.cmd = "unexport" /\ attached /\ n.at = "detach" /\ n.from = t
       \/ q.cmd = "unexport" /\ ~attached /\ n.at = "destroy"

LEMMA DetachJob ==
    ASSUME NEW n \in RunType, n.vol \in Volume, n.from \in Target, n.at \in {"detach", "left", "drop"},
           \/ n.cmd \in Lookups /\ n.back = "list"
           \/ n.cmd \in Publishers /\ n.back = "attach" /\ n.tgt \in Target
           \/ n.cmd = "remove" /\ n.back = "removed"
           \/ n.cmd = "unexport" /\ n.back = "destroy"
    PROVE  Job(n)
<1> QED BY DEF Job, Method, Returns, Args, Publishers, Lookups, Detaching, Scanning, Sweeping,
               Attaching, Crediting, Choosing

LEMMA LookedUpJob ==
    ASSUME NEW n \in RunType, n.vol \in Volume, n.tgt \in Target, n.at = "vipsNew",
           n.cmd \in {"get", "getCurrent"}
    PROVE  Job(n)
<1> QED BY DEF Job, Method, Returns, Args, Publishers, Lookups, Detaching, Scanning, Sweeping,
               Attaching, Crediting, Choosing

LEMMA AcquiredShape ==
    ASSUME NEW q \in RunType, q.vol \in Volume,
           NEW t \in Target \cup {None}, NEW l \in 0..Luns - 1,
           NEW attached \in BOOLEAN, NEW fresh \in BOOLEAN,
           q.cmd \in Lookups \cup {"getCurrent", "remove", "unexport"},
           q.cmd \in Publishers \/ attached => t \in Target
    PROVE  /\ Job(Acquired(q, t, l, attached, fresh))
           /\ AcquiredAs(q, t, l, attached, fresh, Acquired(q, t, l, attached, fresh))
<1> DEFINE k == attached /\ q.cmd = "export"
           s == [q EXCEPT !.tgt = t, !.lun = l, !.fresh = fresh, !.seen = {}, !.todo = {},
                          !.idx = 0, !.known = k]
           n == Acquired(q, t, l, attached, fresh)
<1>1. k \in BOOLEAN /\ (k => attached)
  OBVIOUS
<1>2. s \in RunType
  <2> HIDE DEF k
  <2> QED BY <1>1 DEF RunType
<1>3. /\ s.cmd = q.cmd /\ s.vol = q.vol /\ s.user = q.user /\ s.errs = q.errs
      /\ s.tgt = t /\ s.lun = l /\ s.fresh = fresh /\ s.known = k
  <2> HIDE DEF k
  <2> QED BY DEF RunType
<1>4. CASE q.cmd \in Publishers
  <2> DEFINE at == IF fresh THEN "vipsNew" ELSE "target"
  <2>1. n = Go(s, at)
    BY <1>4 DEF Acquired, Publishers
  <2>2. at \in Steps
    BY DEF Steps
  <2> HIDE DEF n, at, s, k
  <2>3. /\ n \in RunType /\ n.at = at /\ n.cmd = q.cmd /\ n.vol = q.vol /\ n.user = q.user
        /\ n.errs = q.errs /\ n.tgt = t /\ n.lun = l /\ n.fresh = fresh /\ n.known = k
    BY <1>2, <1>3, <2>1, <2>2, GoFields
  <2>4. Job(n)
    BY <1>4, <2>3, CreditJob DEF at
  <2> QED BY <1>1, <1>4, <2>3, <2>4 DEF AcquiredAs, at, n
<1>5. CASE q.cmd \in {"get", "getCurrent"} /\ attached
  <2>1. n = Go(s, "vipsNew")
    BY <1>5 DEF Acquired
  <2> HIDE DEF n, s, k
  <2>2. /\ n \in RunType /\ n.at = "vipsNew" /\ n.cmd = q.cmd /\ n.vol = q.vol /\ n.user = q.user
        /\ n.errs = q.errs /\ n.tgt = t
    <3>1. "vipsNew" \in Steps
      BY DEF Steps
    <3> QED BY <1>2, <1>3, <2>1, <3>1, GoFields
  <2>3. Job(n)
    BY <1>5, <2>2, LookedUpJob
  <2> QED BY <1>5, <2>2, <2>3 DEF AcquiredAs, n
<1>6. CASE q.cmd \in {"get", "getCurrent"} /\ ~attached
  <2> DEFINE y == [s EXCEPT !.tgt = None]
             x == [y EXCEPT !.lun = 0]
  <2>1. n = Finish(x, "ok")
    BY <1>6 DEF Acquired
  <2>2. 0 \in 0..Luns - 1 /\ "ok" \in Results
    BY TargetsAssumption DEF Results
  <2> HIDE DEF n, s, k
  <2>6. /\ y \in RunType /\ y.cmd = q.cmd /\ y.vol = q.vol /\ y.user = q.user /\ y.errs = q.errs
    BY <1>2, <1>3 DEF RunType
  <2> HIDE DEF y
  <2>3. /\ x \in RunType /\ x.cmd = q.cmd /\ x.vol = q.vol /\ x.user = q.user /\ x.errs = q.errs
    BY <2>2, <2>6 DEF RunType
  <2> HIDE DEF x
  <2>4. /\ n \in RunType /\ n.at = "done" /\ n.cmd = q.cmd /\ n.vol = q.vol /\ n.user = q.user
        /\ n.res = "ok" /\ n.errs = q.errs
    BY <2>1, <2>2, <2>3, FinishFields
  <2>5. Job(n)
    BY <2>4, EndJob
  <2> QED BY <1>6, <2>4, <2>5 DEF AcquiredAs, n
<1>7. ASSUME q.cmd \in {"remove", "unexport"}, attached
      PROVE  Job(n) /\ AcquiredAs(q, t, l, attached, fresh, n)
  <2> DEFINE b == IF q.cmd = "remove" THEN "removed" ELSE "destroy"
             g == Go(s, "detach")
  <2>1. n = [g EXCEPT !.from = t, !.back = b]
    BY <1>7 DEF Acquired
  <2>2. b \in Backs /\ "detach" \in Steps /\ t \in Target
    BY <1>7 DEF Backs, Steps, Detaching
  <2> HIDE DEF n, s, k, b
  <2>3. /\ g \in RunType /\ g.at = "detach" /\ g.cmd = q.cmd /\ g.vol = q.vol /\ g.user = q.user
        /\ g.errs = q.errs
    BY <1>2, <1>3, <2>2, GoFields
  <2> HIDE DEF g
  <2>4. /\ n \in RunType /\ n.at = "detach" /\ n.cmd = q.cmd /\ n.vol = q.vol /\ n.user = q.user
        /\ n.errs = q.errs /\ n.from = t /\ n.back = b
    BY <2>1, <2>2, <2>3 DEF RunType
  <2>5. Job(n)
    BY <1>7, <2>2, <2>4, DetachJob DEF b
  <2> QED BY <1>7, <2>4, <2>5 DEF AcquiredAs
<1>8. ASSUME q.cmd \in {"remove", "unexport"}, ~attached
      PROVE  Job(n) /\ AcquiredAs(q, t, l, attached, fresh, n)
  <2> DEFINE b == IF q.cmd = "remove" THEN "removed" ELSE "destroy"
  <2>1. n = Go(s, b)
    BY <1>8 DEF Acquired
  <2>2. b \in Steps
    BY DEF Steps
  <2> HIDE DEF n, s, k, b
  <2>3. /\ n \in RunType /\ n.at = b /\ n.cmd = q.cmd /\ n.vol = q.vol /\ n.user = q.user
        /\ n.errs = q.errs
    BY <1>2, <1>3, <2>1, <2>2, GoFields
  <2>4. Job(n)
    BY <1>8, <2>3, LastPartJob DEF b
  <2> QED BY <1>8, <2>3, <2>4 DEF AcquiredAs, b
<1> QED BY <1>4, <1>5, <1>6, <1>7, <1>8 DEF Lookups, Publishers

-----------------------------------------------------------------------------
(* What every step of a process keeps.                                     *)

UnusedBy(q, s) == q.at \in {"detach", "left", "drop"} /\ q.cmd \in Lookups => q.from \notin s

Fine(q, a) == Placed(q, a) /\ Removal(q, a) /\ Emptied(q, a)

\* The process q goes on as n, and leaves the array as b.
Keeps(q, n, b) ==
    /\ "is_lun" \notin Faults /\ Fine(q, array) => Fine(n, b)
    /\ UnusedBy(q, session) => UnusedBy(n, session)

Goes(p, n, b) ==
    /\ pr' = [pr EXCEPT ![p] = n] /\ array' = b
    /\ session' \subseteq session /\ late' = late

Advances(p) ==
    \E n \in RunType, b \in ArrayType : Goes(p, n, b) /\ Job(n) /\ Keeps(pr[p], n, b)

LEMMA ReadAdvances ==
    ASSUME NEW p \in Proc, NEW n, array \in ArrayType, Read(p, n), Job(n), Keeps(pr[p], n, array)
    PROVE  Advances(p)
<1>1. Goes(p, n, array)
  BY DEF Read, Goes
<1>2. n \in RunType
  BY DEF Job
<1> QED BY <1>1, <1>2 DEF Advances

LEMMA WriteAdvances ==
    ASSUME NEW p \in Proc, NEW n, NEW b \in ArrayType, Write(p, b, n), Job(n), Keeps(pr[p], n, b)
    PROVE  Advances(p)
<1>1. Goes(p, n, b)
  BY DEF Write, Goes
<1>2. n \in RunType
  BY DEF Job
<1> QED BY <1>1, <1>2 DEF Advances

\* Steps at which nothing is claimed.
Plain == {"exists", "clone", "lookup", "vipsNew", "create", "attach", "resolve", "dropBad",
          "busy", "idle"}

LEMMA PlainKeeps ==
    ASSUME NEW q, NEW n, NEW b, n.at \in Plain
    PROVE  Keeps(q, n, b)
<1> QED BY DEF Keeps, UnusedBy, Fine, Placed, Removal, Emptied, Plain, Scanning, Sweeping, Choosing

\* Choosing a slot for a volume that is on no target.
LEMMA ChoosingKeeps ==
    ASSUME NEW q, NEW n, NEW b, n.at \in Choosing, Fine(q, array) => b.att[n.vol] = None
    PROVE  Keeps(q, n, b)
<1> QED BY DEF Keeps, UnusedBy, Fine, Placed, Removal, Emptied, Scanning, Sweeping, Choosing

\* An exception, if an unpublication knows of it or has detached the volume.
LEMMA RaisedKeeps ==
    ASSUME NEW q, Job(q), NEW e, NEW b,
           q.cmd = "remove" /\ q.at \in Detaching =>
              \/ e \in {"error", "cfg", "blocked", "clash", "inuse"}
              \/ Fine(q, array) /\ q.errs = 0 => b.att[q.vol] = None
    PROVE  Job(Raised(q, e)) /\ Keeps(q, Raised(q, e), b)
<1> DEFINE n == Raised(q, e)
<1>1. Job(n) /\ Handled(q, e, n)
  BY RaisedHandled
<1>2. q.errs \in Nat /\ n \in RunType
  BY <1>1 DEF Job, RunType
<1> HIDE DEF n
<1>3. UnusedBy(n, session)
  BY <1>1 DEF Handled, UnusedBy
<1>4. ASSUME Fine(q, array) PROVE Fine(n, b)
  <2>1. Placed(n, b)
    BY <1>1, <1>4 DEF Fine, Handled, Placed, Scanning, Choosing
  <2>2. Removal(n, b)
    <3>1. n.at \notin {"detach", "left", "drop"} /\ n.at \notin Sweeping /\ ~(n.at = "done" /\ n.res = "ok")
      BY <1>1 DEF Handled, Sweeping
    <3>2. ASSUME n.at = "removed", n.errs = 0 PROVE b.att[n.vol] = None
      <4>1. q.errs = 0 /\ n.vol = q.vol /\ q.cmd = "remove" /\ q.at \in Detaching
        BY <1>1, <1>2, <3>2 DEF Handled
      <4>2. e \notin {"error", "cfg", "blocked", "clash", "inuse"}
        BY <1>1, <1>2, <3>2 DEF Handled
      <4> QED BY <1>4, <4>1, <4>2
    <3> QED BY <3>1, <3>2 DEF Removal
  <2>3. Emptied(n, b)
    BY <1>1 DEF Handled, Emptied
  <2> QED BY <2>1, <2>2, <2>3 DEF Fine
<1> QED BY <1>1, <1>3, <1>4 DEF Keeps, n

LEMMA RefusedAdvances ==
    ASSUME Types, NEW p \in Proc, NEW c, Refused(p, c)
    PROVE  Advances(p)
<1>1. PICK e \in Errors(pr[p], c) : Read(p, Raised(pr[p], e))
  BY DEF Refused
<1>2. e \in {"error", "cfg"}
  BY DEF Errors
<1>3. Job(pr[p]) /\ array \in ArrayType
  BY DEF Types
<1>4. Job(Raised(pr[p], e)) /\ Keeps(pr[p], Raised(pr[p], e), array)
  BY <1>2, <1>3, RaisedKeeps
<1> QED BY <1>1, <1>3, <1>4, ReadAdvances

\* An error in place of the answer to a request.
LEMMA FailedAdvances ==
    ASSUME Types, NEW p \in Proc, NEW b \in ArrayType, NEW e \in {"error", "cfg"},
           Write(p, b, Raised(pr[p], e))
    PROVE  Advances(p)
<1>1. Job(pr[p])
  BY DEF Types
<1>2. Job(Raised(pr[p], e)) /\ Keeps(pr[p], Raised(pr[p], e), b)
  BY <1>1, RaisedKeeps
<1> QED BY <1>2, WriteAdvances

\* The step names of a process in its types.
LEMMA Working ==
    ASSUME Types, NEW p \in Proc
    PROVE  /\ Job(pr[p]) /\ pr[p] \in RunType /\ array \in ArrayType
           /\ pr[p].at \in Steps /\ pr[p].errs \in Nat
<1> QED BY DEF Types, Job, RunType

-----------------------------------------------------------------------------
(* The beginning of a command, and the choice of a slot.                   *)

\* A step with nothing to claim that needs only the command and the volume.
LEMMA PlainJob ==
    ASSUME NEW n \in RunType, n.vol \in Volume,
           \/ n.at = "lookup" /\ n.cmd \in Lookups \cup {"getCurrent", "remove", "unexport"}
           \/ n.at = "list" /\ n.cmd \in Lookups
           \/ n.at = "slot" /\ n.cmd \in Lookups /\ n.seen \subseteq Own /\ n.todo \subseteq Own /\ n.todo # {}
           \/ n.at = "pick" /\ n.cmd \in Lookups /\ n.seen \subseteq Own
           \/ n.at = "rehome" /\ n.cmd \in Lookups /\ n.tgt \in Target
           \/ n.at = "sList" /\ n.cmd \in {"export", "unexport", "destroy"}
           \/ n.at = "sLuns" /\ n.cmd \in {"export", "unexport", "destroy"} /\ n.todo \subseteq Target
    PROVE  Job(n)
<1> QED BY DEF Job, Method, Returns, Args, Lookups, Detaching, Scanning, Sweeping,
               Attaching, Crediting, Choosing

LEMMA ExistsAdvances ==
    ASSUME Types, NEW p \in Proc, Exists(p)
    PROVE  Advances(p)
<1> DEFINE q == pr[p]
<1>1. q \in RunType /\ array \in ArrayType /\ q.at = "exists"
  BY Working DEF Exists
<1>2. q.vol \in Volume /\ q.cmd \in {"create", "get", "getCurrent", "unexport", "destroy"}
  BY <1>1, Working DEF Job, Method, Args
<1>3. CASE Read(p, Go(q, IF q.cmd = "destroy" THEN "sList" ELSE "lookup"))
  <2> DEFINE at == IF q.cmd = "destroy" THEN "sList" ELSE "lookup"
             n == Go(q, at)
  <2>1. at \in Steps
    BY DEF Steps, Scanning
  <2> HIDE DEF at
  <2>2. n \in RunType /\ n.at = at /\ n.cmd = q.cmd /\ n.vol = q.vol
    BY <1>1, <2>1, GoFields
  <2> HIDE DEF n
  <2>3. Job(n)
    BY <1>2, <2>2, PlainJob DEF Lookups, at
  <2>4. Keeps(q, n, array)
    <3>1. CASE at = "lookup"
      BY <2>2, <3>1, PlainKeeps DEF Plain
    <3>2. CASE at # "lookup"
      BY <2>2, <3>2 DEF at, Keeps, Fine, Placed, Removal, Emptied, UnusedBy, Scanning, Sweeping, Choosing
    <3> QED BY <3>1, <3>2
  <2> QED BY <1>1, <1>3, <2>3, <2>4, ReadAdvances DEF n, at
<1>4. CASE Read(p, Finish([q EXCEPT !.errs = IF q.vol \in array.zvol THEN 1 ELSE 0],
                          IF q.cmd = "unexport" THEN "ok" ELSE "failed"))
  <2> DEFINE k == IF q.vol \in array.zvol THEN 1 ELSE 0
             r == IF q.cmd = "unexport" THEN "ok" ELSE "failed"
             s == [q EXCEPT !.errs = k]
             n == Finish(s, r)
  <2>1. k \in Nat /\ r \in Results
    BY DEF Results
  <2> HIDE DEF k, r
  <2>2. s \in RunType /\ s.cmd = q.cmd /\ s.vol = q.vol /\ s.errs = k
    BY <1>1, <2>1 DEF RunType
  <2> HIDE DEF s
  <2>3. /\ n \in RunType /\ n.at = "done" /\ n.cmd = q.cmd /\ n.vol = q.vol /\ n.res = r /\ n.errs = k
    BY <2>1, <2>2, FinishFields
  <2> HIDE DEF n
  <2>4. Job(n)
    BY <1>2, <2>3, EndJob
  <2>5. Keeps(q, n, array)
    BY <1>2, <2>3 DEF k, r, Keeps, Fine, Placed, Removal, Emptied, UnusedBy, Publishers, Scanning, Sweeping, Choosing
  <2> QED BY <1>1, <1>4, <2>4, <2>5, ReadAdvances DEF n, r, s, k
<1> QED BY <1>3, <1>4 DEF Exists

LEMMA CloneSnapshotAdvances ==
    ASSUME Types, NEW p \in Proc, CloneSnapshot(p)
    PROVE  Advances(p)
<1> DEFINE q == pr[p]
           r == create_volume_from_snapshot(array, q.vol)
           again == create_volume_from_snapshot(r.a, q.vol)
<1>1. q \in RunType /\ array \in ArrayType /\ q.at = "clone" /\ Job(q)
  BY Working DEF CloneSnapshot
<1>2. q.vol \in Volume /\ q.cmd = "export"
  BY <1>1 DEF Job, Method, Args
<1>3. r.a \in ArrayType /\ r.r \in {"ok", "exists"} /\ again = Ret(r.a, "exists")
  BY <1>1, <1>2, create_clone_Effect
<1>4. PICK o \in Answers(q, "clone", r, again) :
         Write(p, o.a, IF o.r \in {"ok", "exists"} THEN Go(q, "lookup") ELSE Raised(q, o.r))
  BY DEF CloneSnapshot
<1>5. again.a = r.a /\ again.r = "exists"
  BY <1>3 DEF Ret
<1> HIDE DEF r, again
<1>6. o.a \in ArrayType /\ o.r \in {"ok", "exists", "error", "cfg"}
  BY <1>1, <1>3, <1>4, <1>5, Answer
<1>7. CASE o.r \in {"ok", "exists"}
  <2> DEFINE n == Go(q, "lookup")
  <2>1. n \in RunType /\ n.at = "lookup" /\ n.cmd = q.cmd /\ n.vol = q.vol
    BY <1>1, GoFields, StepNames
  <2>2. Write(p, o.a, n)
    BY <1>4, <1>7
  <2> HIDE DEF n
  <2>3. Job(n)
    BY <1>2, <2>1, PlainJob DEF Lookups
  <2>4. Keeps(q, n, o.a)
    BY <2>1, PlainKeeps DEF Plain
  <2> QED BY <1>6, <2>2, <2>3, <2>4, WriteAdvances
<1>8. CASE o.r \in {"error", "cfg"}
  <2>1. Write(p, o.a, Raised(q, o.r))
    BY <1>4, <1>8
  <2> QED BY <1>6, <1>8, <2>1, FailedAdvances
<1> QED BY <1>6, <1>7, <1>8

\* Acquired goes on with a slot that holds the volume, or with one it may get.
LEMMA AcquiredKeeps ==
    ASSUME NEW q \in RunType, q.vol \in Volume,
           NEW t \in Target \cup {None}, NEW l \in 0..Luns - 1,
           NEW attached \in BOOLEAN, NEW fresh \in BOOLEAN,
           q.cmd \in Lookups \cup {"getCurrent", "remove", "unexport"},
           q.cmd \in Publishers \/ attached => t \in Target,
           fresh => ~attached /\ q.cmd \in Lookups,
           attached => array.att[q.vol] = <<t, l>>,
           "is_lun" \notin Faults /\ Fine(q, array) /\ ~attached /\ ~fresh => array.att[q.vol] = None
    PROVE  /\ Job(Acquired(q, t, l, attached, fresh))
           /\ Keeps(q, Acquired(q, t, l, attached, fresh), array)
<1> DEFINE n == Acquired(q, t, l, attached, fresh)
<1>1. Job(n) /\ AcquiredAs(q, t, l, attached, fresh, n)
  BY AcquiredShape
<1> HIDE DEF n
<1>2. UnusedBy(n, session)
  BY <1>1 DEF AcquiredAs, UnusedBy, Lookups
<1>3. ASSUME "is_lun" \notin Faults, Fine(q, array) PROVE Fine(n, array)
  <2>1. Placed(n, array)
    BY <1>1, <1>3 DEF AcquiredAs, Placed, Publishers, Lookups, Scanning, Choosing
  <2>2. Removal(n, array)
    <3>1. attached => <<t, l>>[1] = t
      OBVIOUS
    <3> QED BY <1>1, <1>3, <3>1 DEF AcquiredAs, Removal, Publishers, Lookups, Sweeping
  <2>3. Emptied(n, array)
    BY <1>1 DEF AcquiredAs, Emptied
  <2> QED BY <2>1, <2>2, <2>3 DEF Fine
<1> QED BY <1>1, <1>2, <1>3 DEF Keeps, n

LEMMA LookupAdvances ==
    ASSUME Types, NEW p \in Proc, Lookup(p)
    PROVE  Advances(p)
<1> DEFINE q == pr[p]
           slot == array.att[q.vol]
           current == q.cmd \in {"getCurrent", "remove", "unexport"}
<1>1. q \in RunType /\ array \in ArrayType /\ q.at = "lookup" /\ Job(q)
  BY Working DEF Lookup
<1>2. q.vol \in Volume /\ q.cmd \in Lookups \cup {"getCurrent", "remove", "unexport"}
  BY <1>1 DEF Job, Method, Args, Lookups
<1>3. slot # None => slot = <<slot[1], slot[2]>> /\ slot[1] \in Target /\ slot[2] \in 0..Luns - 1
  BY <1>1, <1>2, Slots
<1>4. CASE Refused(p, "lookup")
  BY <1>4, RefusedAdvances
<1>5. CASE slot # None /\ Read(p, Acquired(q, slot[1], slot[2], TRUE, FALSE))
  <2> HIDE DEF slot
  <2> DEFINE n == Acquired(q, slot[1], slot[2], TRUE, FALSE)
  <2>1. Job(n) /\ Keeps(q, n, array)
    BY <1>1, <1>2, <1>3, <1>5, AcquiredKeeps DEF slot
  <2> QED BY <1>1, <1>5, <2>1, ReadAdvances
<1>6. CASE slot # None /\ ~current /\ slot[1] \in Foreign
           /\ Read(p, [Go(q, "rehome") EXCEPT !.tgt = slot[1], !.lun = slot[2]])
  <2> DEFINE g == Go(q, "rehome")
             n == [g EXCEPT !.tgt = slot[1], !.lun = slot[2]]
  <2>1. g \in RunType /\ g.at = "rehome" /\ g.cmd = q.cmd /\ g.vol = q.vol
    BY <1>1, GoFields, StepNames
  <2> HIDE DEF g, slot
  <2>2. n \in RunType /\ n.at = "rehome" /\ n.cmd = q.cmd /\ n.vol = q.vol /\ n.tgt = slot[1] /\ n.lun = slot[2]
    BY <1>3, <1>6, <2>1 DEF RunType
  <2>3. Read(p, n)
    BY <1>6 DEF g, slot
  <2> HIDE DEF n
  <2>4. q.cmd \in Lookups
    BY <1>2, <1>6
  <2>5. Job(n)
    BY <1>2, <1>3, <1>6, <2>2, <2>4, PlainJob
  <2>6. array.att[n.vol] = <<n.tgt, n.lun>>
    BY <1>3, <1>6, <2>2 DEF slot
  <2>7. Keeps(q, n, array)
    BY <2>2, <2>6 DEF Keeps, UnusedBy, Fine, Placed, Removal, Emptied, Scanning, Sweeping, Choosing
  <2> QED BY <1>1, <2>3, <2>5, <2>7, ReadAdvances
<1>7. CASE slot = None /\ current /\ Read(p, Acquired(q, None, 0, FALSE, FALSE))
  <2>1. 0 \in 0..Luns - 1 /\ q.cmd \notin Publishers
    BY <1>7, TargetsAssumption DEF Publishers
  <2> DEFINE n == Acquired(q, None, 0, FALSE, FALSE)
  <2>2. Job(n) /\ Keeps(q, n, array)
    BY <1>1, <1>2, <1>7, <2>1, AcquiredKeeps
  <2> QED BY <1>1, <1>7, <2>2, ReadAdvances
<1>8. CASE slot = None /\ ~current /\ Read(p, Go(q, "list"))
  <2> DEFINE n == Go(q, "list")
  <2>1. n \in RunType /\ n.at = "list" /\ n.cmd = q.cmd /\ n.vol = q.vol
    BY <1>1, GoFields, StepNames DEF Choosing
  <2> HIDE DEF n
  <2>2. Job(n)
    BY <1>2, <1>8, <2>1, PlainJob
  <2>3. Keeps(q, n, array)
    BY <1>8, <2>1, ChoosingKeeps DEF Choosing
  <2> QED BY <1>1, <1>8, <2>2, <2>3, ReadAdvances DEF n
<1> QED BY <1>4, <1>5, <1>6, <1>7, <1>8 DEF Lookup

LEMMA RehomeAdvances ==
    ASSUME Types, NEW p \in Proc, Rehome(p)
    PROVE  Advances(p)
<1> DEFINE q == pr[p]
<1>1. q \in RunType /\ array \in ArrayType /\ q.at = "rehome" /\ Job(q)
  BY Working DEF Rehome
<1>2. q.vol \in Volume /\ q.cmd \in Lookups /\ q.tgt \in Target /\ q.lun \in 0..Luns - 1
  BY <1>1 DEF Job, Method, Args, Lookups, RunType
<1>3. CASE Refused(p, "sessions")
  BY <1>3, RefusedAdvances
<1>4. CASE q.tgt \in session /\ Read(p, Acquired(q, q.tgt, q.lun, TRUE, FALSE))
  <2> DEFINE n == Acquired(q, q.tgt, q.lun, TRUE, FALSE)
  <2>1. Job(n) /\ AcquiredAs(q, q.tgt, q.lun, TRUE, FALSE, n)
    BY <1>1, <1>2, AcquiredShape
  <2>2. Read(p, n)
    BY <1>4
  <2> HIDE DEF n
  <2>3. Keeps(q, n, array)
    <3>1. UnusedBy(n, session)
      BY <1>2, <2>1 DEF AcquiredAs, UnusedBy, Lookups
    <3>2. ASSUME Fine(q, array) PROVE Fine(n, array)
      <4>1. array.att[q.vol] = <<q.tgt, q.lun>>
        BY <1>1, <3>2 DEF Fine, Placed
      <4> QED BY <1>2, <2>1, <4>1 DEF AcquiredAs, Fine, Placed, Removal, Emptied, Lookups, Publishers, Scanning, Sweeping, Choosing
    <3> QED BY <3>1, <3>2 DEF Keeps
  <2> QED BY <1>1, <2>1, <2>2, <2>3, ReadAdvances
<1>5. CASE q.tgt \notin session /\ Read(p, [Go(q, "detach") EXCEPT !.from = q.tgt, !.back = "list"])
  <2> DEFINE g == Go(q, "detach")
             n == [g EXCEPT !.from = q.tgt, !.back = "list"]
  <2>1. g \in RunType /\ g.at = "detach" /\ g.cmd = q.cmd /\ g.vol = q.vol
    BY <1>1, GoFields, StepNames DEF Detaching
  <2> HIDE DEF g
  <2>2. n \in RunType /\ n.at = "detach" /\ n.cmd = q.cmd /\ n.vol = q.vol /\ n.from = q.tgt /\ n.back = "list"
    BY <1>2, <2>1 DEF RunType, Backs
  <2>3. Read(p, n)
    BY <1>5 DEF g
  <2> HIDE DEF n
  <2>4. Job(n)
    BY <1>2, <2>2, DetachJob
  <2>5. Keeps(q, n, array)
    <3>1. <<q.tgt, q.lun>>[1] = q.tgt
      OBVIOUS
    <3>2. Fine(q, array) => array.att[n.vol][1] = n.from
      BY <1>1, <2>2, <3>1 DEF Fine, Placed
    <3> QED BY <1>2, <1>5, <2>2, <3>2 DEF Keeps, UnusedBy, Fine, Placed, Removal, Emptied, Lookups, Scanning, Sweeping, Choosing
  <2> QED BY <1>1, <2>3, <2>4, <2>5, ReadAdvances
<1> QED BY <1>3, <1>4, <1>5 DEF Rehome

LEMMA ListAdvances ==
    ASSUME Types, NEW p \in Proc, List(p)
    PROVE  Advances(p)
<1> DEFINE q == pr[p]
           related == array.made \cap Own
           at == IF related = {} THEN "pick" ELSE "slot"
           g == Go(q, at)
           n == [g EXCEPT !.seen = related, !.todo = related, !.tgt = None, !.lun = 0]
<1>1. q \in RunType /\ array \in ArrayType /\ q.at = "list" /\ Job(q)
  BY Working DEF List
<1>2. q.vol \in Volume /\ q.cmd \in Lookups
  BY <1>1 DEF Job, Method, Args, Lookups, Choosing
<1>3. CASE Refused(p, "list")
  BY <1>3, RefusedAdvances
<1>4. CASE Read(p, n)
  <2>1. at \in Steps /\ related \subseteq Own /\ related \subseteq Target /\ 0 \in 0..Luns - 1
    BY TargetsAssumption DEF Steps, Target
  <2>2. (at = "slot" /\ related # {}) \/ at = "pick"
    OBVIOUS
  <2> HIDE DEF at, related
  <2>3. g \in RunType /\ g.at = at /\ g.cmd = q.cmd /\ g.vol = q.vol
    BY <1>1, <2>1, GoFields
  <2> HIDE DEF g
  <2>4. n \in RunType /\ n.at = at /\ n.cmd = q.cmd /\ n.vol = q.vol /\ n.seen = related /\ n.todo = related
    BY <2>1, <2>3 DEF RunType
  <2> HIDE DEF n
  <2>5. Job(n)
    BY <1>2, <2>1, <2>2, <2>4, PlainJob
  <2>6. Keeps(q, n, array)
    BY <1>1, <2>2, <2>4, ChoosingKeeps DEF Choosing, Fine, Placed
  <2> QED BY <1>1, <1>4, <2>5, <2>6, ReadAdvances
<1> QED BY <1>3, <1>4 DEF List

LEMMA SmallestIn ==
    ASSUME NEW S \in SUBSET Nat, S # {}
    PROVE  Smallest(S) \in S /\ \A j \in S : Smallest(S) <= j
<1>1. PICK x \in S : \A y \in S : <<y, x>> \notin OpToRel(<, Nat)
  BY NatLessThanWellFounded, WFMin
<1>2. \A y \in S : ~(y < x)
  BY <1>1 DEF OpToRel
<1>3. \A y \in S : x <= y
  BY <1>2
<1> QED BY <1>3 DEF Smallest

LEMMA Indices ==
    /\ Own \subseteq Nat /\ 0 \in Own /\ Own \subseteq Target
    /\ \A i \in Own : i + 1 \in Nat
<1> QED BY TargetsAssumption DEF Target

LEMMA SlotOfAdvances ==
    ASSUME Types, NEW p \in Proc, SlotOf(p)
    PROVE  Advances(p)
<1> DEFINE q == pr[p]
           t == Smallest(q.todo)
           free == (0..Luns - 1) \ LunsOf(array, t)
           at == IF q.todo = {t} THEN "pick" ELSE "slot"
           g == Go(q, at)
           n == [g EXCEPT !.todo = @ \ {t}]
<1>1. q \in RunType /\ array \in ArrayType /\ q.at = "slot" /\ Job(q)
  BY Working DEF SlotOf
<1>2. q.vol \in Volume /\ q.cmd \in Lookups /\ q.seen \subseteq Own /\ q.todo \subseteq Own /\ q.todo # {}
  BY <1>1 DEF Job, Method, Args, Lookups, Choosing
<1>3. t \in q.todo
  BY <1>2, Indices, SmallestIn
<1>4. CASE Refused(p, "luns")
  BY <1>4, RefusedAdvances
<1>5. CASE Read(p, n)
  <2>1. at \in Steps /\ ((at = "slot" /\ q.todo \ {t} # {}) \/ at = "pick")
    BY <1>2, <1>3 DEF Steps
  <2> HIDE DEF at, t
  <2>2. g \in RunType /\ g.at = at /\ g.cmd = q.cmd /\ g.vol = q.vol /\ g.seen = q.seen /\ g.todo = q.todo
    BY <1>1, <2>1, GoFields
  <2> HIDE DEF g
  <2>3. n \in RunType /\ n.at = at /\ n.cmd = q.cmd /\ n.vol = q.vol /\ n.seen = q.seen /\ n.todo = q.todo \ {t}
    BY <2>2 DEF RunType
  <2> HIDE DEF n
  <2>4. Job(n)
    BY <1>2, <2>1, <2>3, PlainJob
  <2>5. Keeps(q, n, array)
    BY <1>1, <2>1, <2>3, ChoosingKeeps DEF Choosing, Fine, Placed
  <2> QED BY <1>1, <1>5, <2>4, <2>5, ReadAdvances
<1>6. CASE t \in array.made /\ free # {} /\ Read(p, Acquired(q, t, Smallest(free), FALSE, FALSE))
  <2> DEFINE l == Smallest(free)
             k == Acquired(q, t, l, FALSE, FALSE)
  <2>1. l \in 0..Luns - 1
    <3>1. free \in SUBSET Nat /\ free # {}
      BY <1>6, TargetsAssumption
    <3> QED BY <3>1, SmallestIn
  <2>2. t \in Target
    BY <1>2, <1>3, Indices
  <2> HIDE DEF l, t
  <2>3. Fine(q, array) => array.att[q.vol] = None
    BY <1>1 DEF Fine, Placed, Choosing
  <2>4. Job(k) /\ Keeps(q, k, array)
    BY <1>1, <1>2, <2>1, <2>2, <2>3, AcquiredKeeps
  <2>5. Read(p, k)
    BY <1>6 DEF t, l
  <2> HIDE DEF k
  <2> QED BY <1>1, <2>4, <2>5, ReadAdvances
<1> QED BY <1>4, <1>5, <1>6 DEF SlotOf

LEMMA PickAdvances ==
    ASSUME Types, NEW p \in Proc, Pick(p)
    PROVE  Advances(p)
<1> DEFINE q == pr[p]
           candidates == {i \in q.idx..Cardinality(q.seen) : i \notin q.seen}
           i == Smallest(candidates)
<1>1. q \in RunType /\ array \in ArrayType /\ q.at = "pick" /\ Job(q)
  BY Working DEF Pick
<1>2. q.vol \in Volume /\ q.cmd \in Lookups /\ q.seen \subseteq Own
  BY <1>1 DEF Job, Method, Args, Lookups, Choosing
<1>3. Fine(q, array) => array.att[q.vol] = None
  BY <1>1 DEF Fine, Placed, Choosing
<1>4. ASSUME NEW t \in Own, Read(p, Acquired(q, t, 0, FALSE, TRUE))
      PROVE  Advances(p)
  <2> DEFINE k == Acquired(q, t, 0, FALSE, TRUE)
  <2>1. 0 \in 0..Luns - 1 /\ t \in Target
    BY Indices, TargetsAssumption
  <2>2. Job(k) /\ Keeps(q, k, array)
    BY <1>1, <1>2, <1>3, <2>1, AcquiredKeeps
  <2> QED BY <1>1, <1>4, <2>2, ReadAdvances
<1>5. CASE Read(p, Acquired(q, 0, 0, FALSE, TRUE))
  BY <1>4, <1>5, Indices
<1>6. CASE Refused(p, "get_target")
  BY <1>6, RefusedAdvances
<1>7. CASE i \in Own \ array.made /\ Read(p, Acquired(q, i, 0, FALSE, TRUE))
  <2> HIDE DEF i
  <2> QED BY <1>4, <1>7
<1>8. CASE candidates # {} /\ i \in array.made /\ Read(p, [q EXCEPT !.idx = i + 1])
  <2> DEFINE n == [q EXCEPT !.idx = i + 1]
  <2>1. i + 1 \in Nat
    <3>1. q.idx \in Nat
      BY <1>1 DEF RunType
    <3>2. \A j \in candidates : j \in Nat
      BY <3>1
    <3>3. i \in candidates
      <4> HIDE DEF candidates
      <4> QED BY <1>8, <3>2, SmallestIn
    <3> QED BY <3>2, <3>3
  <2> HIDE DEF i
  <2>2. n \in RunType /\ n.at = "pick" /\ n.cmd = q.cmd /\ n.vol = q.vol /\ n.seen = q.seen
    BY <1>1, <2>1 DEF RunType
  <2>3. Read(p, n)
    BY <1>8
  <2> HIDE DEF n
  <2>4. Job(n)
    BY <1>2, <2>2, PlainJob
  <2>5. Keeps(q, n, array)
    BY <1>3, <2>2, ChoosingKeeps DEF Choosing
  <2> QED BY <1>1, <2>3, <2>4, <2>5, ReadAdvances
<1> QED BY <1>5, <1>6, <1>7, <1>8 DEF Pick

-----------------------------------------------------------------------------
(* Publishing a volume in its slot.                                        *)

LEMMA RaisedReadAdvances ==
    ASSUME Types, NEW p \in Proc, NEW e, Read(p, Raised(pr[p], e)),
           \/ e \in {"error", "cfg", "blocked", "clash", "inuse"}
           \/ pr[p].cmd # "remove"
           \/ Fine(pr[p], array) /\ pr[p].errs = 0 => array.att[pr[p].vol] = None
    PROVE  Advances(p)
<1>1. Job(pr[p]) /\ array \in ArrayType
  BY Working
<1>2. Job(Raised(pr[p], e)) /\ Keeps(pr[p], Raised(pr[p], e), array)
  BY <1>1, RaisedKeeps
<1> QED BY <1>1, <1>2, ReadAdvances

LEMMA RaisedWriteAdvances ==
    ASSUME Types, NEW p \in Proc, NEW e, NEW b \in ArrayType, Write(p, b, Raised(pr[p], e)),
           \/ e \in {"error", "cfg", "blocked", "clash", "inuse"}
           \/ pr[p].cmd # "remove"
    PROVE  Advances(p)
<1>1. Job(pr[p])
  BY Working
<1>2. Job(Raised(pr[p], e)) /\ Keeps(pr[p], Raised(pr[p], e), b)
  BY <1>1, RaisedKeeps
<1> QED BY <1>2, WriteAdvances

\* A process that publishes a volume on a target.
Publishing(q) ==
    q \in RunType /\ q.cmd \in Publishers /\ q.vol \in Volume /\ q.tgt \in Target /\ q.lun \in 0..Luns - 1

LEMMA PublisherWorks ==
    ASSUME Types, NEW p \in Proc, pr[p].at \in Attaching
    PROVE  Publishing(pr[p])
<1>1. Job(pr[p]) /\ pr[p] \in RunType
  BY Working
<1> QED BY <1>1 DEF Publishing, Job, Method, Args, Publishers, RunType

LEMMA PublishedKeeps ==
    ASSUME NEW q, Publishing(q), NEW b,
           Fine(q, array) => b.att[q.vol] = <<q.tgt, q.lun>>
    PROVE  Job(Published(q)) /\ Keeps(q, Published(q), b)
<1> DEFINE n == Published(q)
<1>1. Job(n) /\ PublishedAs(q, n)
  BY PublishedShape DEF Publishing
<1> HIDE DEF n
<1>2. UnusedBy(n, session)
  BY <1>1 DEF PublishedAs, UnusedBy
<1>3. ASSUME Fine(q, array) PROVE Fine(n, b)
  BY <1>1, <1>3 DEF PublishedAs, Publishing, Fine, Placed, Removal, Emptied, Publishers, Lookups,
     Scanning, Sweeping, Choosing
<1> QED BY <1>1, <1>2, <1>3 DEF Keeps, n

LEMMA VipsNewAdvances ==
    ASSUME Types, NEW p \in Proc, VipsNew(p)
    PROVE  Advances(p)
<1> DEFINE q == pr[p]
<1>1. q \in RunType /\ array \in ArrayType /\ q.at = "vipsNew" /\ Job(q)
  BY Working DEF VipsNew
<1>2. q.vol \in Volume /\ q.cmd \in Lookups \cup {"getCurrent"} /\ q.tgt \in Target
  BY <1>1 DEF Job, Method, Args, Lookups
<1>3. CASE Read(p, Raised(q, "error"))
  BY <1>3, RaisedReadAdvances
<1>4. CASE q.cmd \in {"get", "getCurrent"} /\ Read(p, Finish(q, "ok"))
  <2> DEFINE n == Finish(q, "ok")
  <2>1. /\ n \in RunType /\ n.at = "done" /\ n.cmd = q.cmd /\ n.vol = q.vol
    BY <1>1, FinishFields DEF Results
  <2> HIDE DEF n
  <2>2. Job(n)
    BY <1>2, <2>1, EndJob
  <2>3. Keeps(q, n, array)
    BY <1>4, <2>1 DEF Keeps, Fine, Placed, Removal, Emptied, UnusedBy, Publishers, Scanning, Sweeping, Choosing
  <2> QED BY <1>1, <1>4, <2>2, <2>3, ReadAdvances DEF n
<1>5. CASE q.cmd \notin {"get", "getCurrent"} /\ Read(p, Go(q, "create"))
  <2> DEFINE n == Go(q, "create")
  <2>1. /\ n \in RunType /\ n.at = "create" /\ n.cmd = q.cmd /\ n.vol = q.vol /\ n.tgt = q.tgt
    <3>1. "create" \in Steps
      BY DEF Steps
    <3> QED BY <1>1, <3>1, GoFields
  <2> HIDE DEF n
  <2>2. Job(n)
    BY <1>2, <1>5, <2>1, CreditJob DEF Lookups, Publishers
  <2>3. Keeps(q, n, array)
    BY <2>1, PlainKeeps DEF Plain
  <2> QED BY <1>1, <1>5, <2>2, <2>3, ReadAdvances DEF n
<1> QED BY <1>3, <1>4, <1>5 DEF VipsNew

\* To the next attempt at the LUN.
LEMMA ToAttach ==
    ASSUME NEW q, Publishing(q), NEW n, n = [Go(q, "attach") EXCEPT !.tries = 0], NEW b
    PROVE  Job(n) /\ Keeps(q, n, b)
<1> DEFINE g == Go(q, "attach")
<1>1. g \in RunType /\ g.at = "attach" /\ g.cmd = q.cmd /\ g.vol = q.vol /\ g.tgt = q.tgt
  <2>1. "attach" \in Steps
    BY DEF Steps
  <2> QED BY <2>1, GoFields DEF Publishing
<1> HIDE DEF g
<1>2. n \in RunType /\ n.at = "attach" /\ n.cmd = q.cmd /\ n.vol = q.vol /\ n.tgt = q.tgt
  BY <1>1 DEF RunType, g
<1>3. Job(n)
  BY <1>2, CreditJob DEF Publishing
<1>4. n.at \in Plain
  BY <1>2 DEF Plain
<1>5. Keeps(q, n, b)
  BY <1>4, PlainKeeps, Zenon
<1> QED BY <1>3, <1>5

LEMMA CreateTargetAdvances ==
    ASSUME Types, NEW p \in Proc, CreateTarget(p)
    PROVE  Advances(p)
<1> DEFINE q == pr[p]
           r == create_target(array, q.tgt, q.user)
           again == create_target(r.a, q.tgt, q.user)
<1>1. array \in ArrayType /\ q.at = "create"
  BY Working DEF CreateTarget
<1>2. Publishing(q)
  BY <1>1, PublisherWorks DEF Attaching
<1>3. r.a \in ArrayType /\ r.r \in {"ok", "exists"} /\ again = Ret(r.a, "exists")
  BY <1>1, <1>2, create_target_Effect DEF Publishing
<1>4. PICK o \in Answers(q, "create_target", r, again) :
         Write(p, o.a, IF o.r \in {"ok", "exists"} THEN [Go(q, "attach") EXCEPT !.tries = 0]
                       ELSE Raised(q, o.r))
  BY DEF CreateTarget
<1>5. again.a = r.a /\ again.r = "exists"
  BY <1>3 DEF Ret
<1> HIDE DEF r, again
<1>6. o.a \in ArrayType /\ o.r \in {"ok", "exists", "error", "cfg"}
  BY <1>1, <1>3, <1>4, <1>5, Answer
<1>7. CASE o.r \in {"ok", "exists"}
  <2>1. Write(p, o.a, [Go(q, "attach") EXCEPT !.tries = 0])
    BY <1>4, <1>7
  <2> QED BY <1>2, <1>6, <2>1, ToAttach, WriteAdvances
<1>8. CASE o.r \in {"error", "cfg"}
  <2>1. Write(p, o.a, Raised(q, o.r))
    BY <1>4, <1>8
  <2> QED BY <1>6, <1>8, <2>1, FailedAdvances
<1> QED BY <1>6, <1>7, <1>8

LEMMA GetTargetAdvances ==
    ASSUME Types, NEW p \in Proc, GetTarget(p)
    PROVE  Advances(p)
<1> DEFINE q == pr[p]
<1>1. q \in RunType /\ array \in ArrayType /\ q.at = "target" /\ Job(q)
  BY Working DEF GetTarget
<1>2. /\ q.cmd \in Publishers \cup {"update"} /\ q.tgt \in Target /\ q.user \in User \cup {None}
      /\ q.cmd # "update" => q.vol \in Volume
  BY <1>1 DEF Job, Method, Args, Publishers, Crediting, RunType
<1>3. CASE Refused(p, "get_target")
  BY <1>3, RefusedAdvances
<1>4. CASE q.cmd = "update" /\ Read(p, Raised(q, "notfound"))
  BY <1>4, RaisedReadAdvances
<1>5. CASE q.cmd # "update" /\ Read(p, [Go(q, "vipsNew") EXCEPT !.fresh = TRUE])
  <2> DEFINE g == Go(q, "vipsNew")
             n == [g EXCEPT !.fresh = TRUE]
  <2>1. g \in RunType /\ g.at = "vipsNew" /\ g.cmd = q.cmd /\ g.vol = q.vol /\ g.tgt = q.tgt
    <3>1. "vipsNew" \in Steps
      BY DEF Steps
    <3> QED BY <1>1, <3>1, GoFields
  <2> HIDE DEF g
  <2>2. n \in RunType /\ n.at = "vipsNew" /\ n.cmd = q.cmd /\ n.vol = q.vol /\ n.tgt = q.tgt
    BY <2>1 DEF RunType
  <2>3. Read(p, n)
    BY <1>5 DEF g
  <2> HIDE DEF n
  <2>4. Job(n)
    BY <1>2, <1>5, <2>2, CreditJob
  <2>5. Keeps(q, n, array)
    BY <2>2, PlainKeeps DEF Plain
  <2> QED BY <1>1, <2>3, <2>4, <2>5, ReadAdvances
<1>6. CASE Read(p, [Go(q, IF q.cmd # "update" THEN "vips"
                          ELSE IF q.user = None THEN "active" ELSE "users")
                      EXCEPT !.flag = array.chap[q.tgt]])
  <2> DEFINE at == IF q.cmd # "update" THEN "vips" ELSE IF q.user = None THEN "active" ELSE "users"
             g == Go(q, at)
             f == array.chap[q.tgt]
             n == [g EXCEPT !.flag = f]
  <2>1. at \in Steps /\ f \in BOOLEAN
    BY <1>1, <1>2, Fields DEF Steps
  <2>2. /\ q.cmd # "update" => at = "vips"
        /\ q.cmd = "update" => at \in {"active", "users"}
    OBVIOUS
  <2> HIDE DEF at, f
  <2>3. /\ g \in RunType /\ g.at = at /\ g.cmd = q.cmd /\ g.vol = q.vol /\ g.tgt = q.tgt
        /\ g.lun = q.lun /\ g.known = q.known
    BY <1>1, <2>1, GoFields
  <2> HIDE DEF g
  <2>4. /\ n \in RunType /\ n.at = at /\ n.cmd = q.cmd /\ n.vol = q.vol /\ n.tgt = q.tgt
        /\ n.lun = q.lun /\ n.known = q.known
    BY <2>1, <2>3 DEF RunType
  <2>5. Read(p, n)
    BY <1>6 DEF g, at, f
  <2> HIDE DEF n
  <2>6. Job(n)
    <3>1. CASE q.cmd = "update"
      BY <1>2, <2>2, <2>4, <3>1 DEF Job, Method, Returns, Args, Detaching, Scanning, Sweeping,
         Attaching, Crediting, Choosing
    <3>2. CASE q.cmd # "update"
      BY <1>2, <2>2, <2>4, <3>2, CreditJob
    <3> QED BY <3>1, <3>2
  <2>7. Keeps(q, n, array)
    BY <1>1, <1>2, <2>2, <2>4 DEF Keeps, Fine, Placed, Removal, Emptied, UnusedBy, Publishers,
       Scanning, Sweeping, Choosing
  <2> QED BY <1>1, <2>5, <2>6, <2>7, ReadAdvances
<1> QED BY <1>3, <1>4, <1>5, <1>6 DEF GetTarget

LEMMA VipsAdvances ==
    ASSUME Types, NEW p \in Proc, Vips(p)
    PROVE  Advances(p)
<1> DEFINE q == pr[p]
<1>1. array \in ArrayType /\ q.at = "vips"
  BY Working DEF Vips
<1>2. Publishing(q)
  BY <1>1, PublisherWorks DEF Attaching
<1>3. CASE Refused(p, "vips")
  BY <1>3, RefusedAdvances
<1>4. CASE q.known /\ Read(p, Published(q))
  <2>1. Fine(q, array) => array.att[q.vol] = <<q.tgt, q.lun>>
    BY <1>1, <1>2, <1>4 DEF Fine, Placed, Publishing
  <2> QED BY <1>1, <1>2, <1>4, <2>1, PublishedKeeps, ReadAdvances
<1>5. CASE ~q.known /\ Read(p, Go(q, "getLun"))
  <2> DEFINE n == Go(q, "getLun")
  <2>1. /\ n \in RunType /\ n.at = "getLun" /\ n.cmd = q.cmd /\ n.vol = q.vol /\ n.tgt = q.tgt
        /\ n.lun = q.lun /\ n.known = q.known
    <3>1. "getLun" \in Steps
      BY DEF Steps
    <3> QED BY <1>2, <3>1, GoFields DEF Publishing
  <2> HIDE DEF n
  <2>2. Job(n)
    BY <1>2, <2>1, CreditJob DEF Publishing
  <2>3. Keeps(q, n, array)
    BY <1>1, <1>2, <2>1 DEF Keeps, Fine, Placed, Removal, Emptied, UnusedBy, Publishing, Publishers,
       Scanning, Sweeping, Choosing
  <2> QED BY <1>1, <1>5, <2>2, <2>3, ReadAdvances DEF n
<1>6. CASE Read(p, Raised(q, "notfound"))
  BY <1>2, <1>6, RaisedReadAdvances DEF Publishing, Publishers
<1> QED BY <1>3, <1>4, <1>5, <1>6 DEF Vips

LEMMA GetLunAdvances ==
    ASSUME Types, NEW p \in Proc, GetLun(p)
    PROVE  Advances(p)
<1> DEFINE q == pr[p]
<1>1. array \in ArrayType /\ q.at = "getLun"
  BY Working DEF GetLun
<1>2. Publishing(q)
  BY <1>1, PublisherWorks DEF Attaching
<1>3. CASE Refused(p, "get_lun")
  BY <1>3, RefusedAdvances
<1>4. CASE q.vol \in On(array, q.tgt) /\ Read(p, Published(q))
  <2>1. Fine(q, array) => array.att[q.vol] = <<q.tgt, q.lun>>
    BY <1>1, <1>2, <1>4 DEF Fine, Placed, Publishing, On
  <2> QED BY <1>1, <1>2, <1>4, <2>1, PublishedKeeps, ReadAdvances
<1>5. CASE Read(p, [Go(q, "attach") EXCEPT !.tries = 0])
  BY <1>1, <1>2, <1>5, ToAttach, ReadAdvances
<1> QED BY <1>3, <1>4, <1>5 DEF GetLun

LEMMA AttachAdvances ==
    ASSUME Types, NEW p \in Proc, Attach(p)
    PROVE  Advances(p)
<1> DEFINE q == pr[p]
           r == attach_target_vol(array, q.tgt, q.vol, q.lun)
           again == attach_target_vol(r.a, q.tgt, q.vol, q.lun)
<1>1. array \in ArrayType /\ q.at = "attach"
  BY Working DEF Attach
<1>2. Publishing(q)
  BY <1>1, PublisherWorks DEF Attaching
<1>3. /\ r.a \in ArrayType /\ r.r \in {"ok", "notfound", "busy", "exists"}
      /\ r.r = "ok" => r.a.att[q.vol] = <<q.tgt, q.lun>>
      /\ again.a = r.a /\ again.r \in {"notfound", "busy", "exists"}
  BY <1>1, <1>2, attach_target_vol_Effect DEF Publishing
<1>4. PICK o \in Answers(q, "attach", r, again) \cup {Ret(array, "blocked") : e \in Errors(q, "blocked")} :
         Write(p, o.a, IF o.r = "ok" THEN Published(q)
                       ELSE IF o.r \in {"busy", "blocked"} /\ q.tries + 1 < Attempts
                            THEN [Go(Felt(q, o.r), "resolve") EXCEPT !.tries = @ + 1]
                            ELSE Raised(q, o.r))
  BY DEF Attach
<1> HIDE DEF r, again
<1>5. o.a \in ArrayType /\ (o.r = "ok" => o.a.att[q.vol] = <<q.tgt, q.lun>>)
  <2>1. CASE o \in Answers(q, "attach", r, again)
    BY <1>1, <1>3, <2>1, Answer
  <2>2. CASE o \in {Ret(array, "blocked") : e \in Errors(q, "blocked")}
    BY <1>1, <2>2 DEF Ret
  <2> QED BY <1>4, <2>1, <2>2
<1>6. CASE o.r = "ok"
  <2>1. Write(p, o.a, Published(q))
    BY <1>4, <1>6
  <2> QED BY <1>2, <1>5, <1>6, <2>1, PublishedKeeps, WriteAdvances
<1>7. CASE o.r # "ok" /\ o.r \in {"busy", "blocked"} /\ q.tries + 1 < Attempts
  <2> DEFINE h == Felt(q, o.r)
             g == Go(h, "resolve")
             n == [g EXCEPT !.tries = @ + 1]
  <2>1. h \in RunType /\ h = [q EXCEPT !.errs = h.errs]
    BY <1>2, FeltFields DEF Publishing
  <2>2. h.cmd = q.cmd /\ h.vol = q.vol /\ h.tgt = q.tgt
    <3> HIDE DEF h
    <3> QED BY <1>2, <2>1 DEF Publishing, RunType
  <2> HIDE DEF h
  <2>3. g \in RunType /\ g.at = "resolve" /\ g.cmd = q.cmd /\ g.vol = q.vol /\ g.tgt = q.tgt
    <3>1. "resolve" \in Steps
      BY DEF Steps
    <3> QED BY <2>1, <2>2, <3>1, GoFields
  <2> HIDE DEF g
  <2>4. n \in RunType /\ n.at = "resolve" /\ n.cmd = q.cmd /\ n.vol = q.vol /\ n.tgt = q.tgt
    BY <2>3 DEF RunType
  <2>5. Write(p, o.a, n)
    BY <1>4, <1>7 DEF g, h
  <2> HIDE DEF n
  <2>6. Job(n)
    BY <1>2, <2>4, CreditJob DEF Publishing
  <2>7. Keeps(q, n, o.a)
    BY <2>4, PlainKeeps DEF Plain
  <2> QED BY <1>5, <2>5, <2>6, <2>7, WriteAdvances
<1>8. CASE o.r # "ok" /\ ~(o.r \in {"busy", "blocked"} /\ q.tries + 1 < Attempts)
  <2>1. Write(p, o.a, Raised(q, o.r))
    BY <1>4, <1>8
  <2> QED BY <1>2, <1>5, <2>1, RaisedWriteAdvances DEF Publishing, Publishers
<1> QED BY <1>6, <1>7, <1>8

LEMMA ResolveAdvances ==
    ASSUME Types, NEW p \in Proc, Resolve(p)
    PROVE  Advances(p)
<1> DEFINE q == pr[p]
           slot == array.att[q.vol]
<1>1. array \in ArrayType /\ q.at = "resolve"
  BY Working DEF Resolve
<1>2. Publishing(q)
  BY <1>1, PublisherWorks DEF Attaching
<1>3. slot # None => slot[1] \in Target
  BY <1>1, <1>2, Slots DEF Publishing
<1>4. CASE Refused(p, "lookup")
  BY <1>4, RefusedAdvances
<1>5. CASE Read(p, Raised(q, "clash"))
  BY <1>5, RaisedReadAdvances
<1>6. CASE Read(p, Go(q, "attach"))
  <2> DEFINE n == Go(q, "attach")
  <2>1. /\ n \in RunType /\ n.at = "attach" /\ n.cmd = q.cmd /\ n.vol = q.vol /\ n.tgt = q.tgt
    <3>1. "attach" \in Steps
      BY DEF Steps
    <3> QED BY <1>2, <3>1, GoFields DEF Publishing
  <2> HIDE DEF n
  <2>2. Job(n)
    BY <1>2, <2>1, CreditJob DEF Publishing
  <2>3. Keeps(q, n, array)
    BY <2>1, PlainKeeps DEF Plain
  <2> QED BY <1>1, <1>6, <2>2, <2>3, ReadAdvances DEF n
<1>7. CASE slot = <<q.tgt, q.lun>> /\ Read(p, Go(q, "confirm"))
  <2> DEFINE n == Go(q, "confirm")
  <2>1. /\ n \in RunType /\ n.at = "confirm" /\ n.cmd = q.cmd /\ n.vol = q.vol /\ n.tgt = q.tgt /\ n.lun = q.lun
    <3>1. "confirm" \in Steps
      BY DEF Steps
    <3> QED BY <1>2, <3>1, GoFields DEF Publishing
  <2> HIDE DEF n
  <2>2. Job(n)
    BY <1>2, <2>1, CreditJob DEF Publishing
  <2>3. Keeps(q, n, array)
    BY <1>2, <1>7, <2>1 DEF Keeps, Fine, Placed, Removal, Emptied, UnusedBy, Publishing, Publishers,
       Scanning, Sweeping, Choosing
  <2> QED BY <1>1, <1>7, <2>2, <2>3, ReadAdvances DEF n
<1>8. CASE /\ slot \notin {None, <<q.tgt, q.lun>>}
           /\ Read(p, [Go(q, "busy") EXCEPT !.from = slot[1], !.only = slot[1] = q.tgt,
                                            !.back = "attach"])
  <2> DEFINE g == Go(q, "busy")
             f == slot[1]
             m == slot[1] = q.tgt
             n == [g EXCEPT !.from = f, !.only = m, !.back = "attach"]
  <2>1. f \in Target /\ m \in BOOLEAN /\ "attach" \in Backs
    BY <1>3, <1>8 DEF Backs
  <2>2. /\ g \in RunType /\ g.at = "busy" /\ g.cmd = q.cmd /\ g.vol = q.vol /\ g.tgt = q.tgt
    BY <1>2, GoFields, StepNames DEF Publishing, Detaching
  <2>3. Read(p, n)
    BY <1>8
  <2> HIDE DEF g, f, m
  <2>4. /\ n \in RunType /\ n.at = "busy" /\ n.cmd = q.cmd /\ n.vol = q.vol /\ n.tgt = q.tgt
        /\ n.from = f /\ n.back = "attach"
    BY <2>1, <2>2 DEF RunType
  <2> HIDE DEF n
  <2>5. Job(n)
    BY <1>2, <2>1, <2>4 DEF Publishing, Publishers, Job, Method, Returns, Args, Lookups, Detaching, Scanning, Sweeping,
       Attaching, Crediting, Choosing
  <2>6. Keeps(q, n, array)
    BY <2>4, PlainKeeps DEF Plain
  <2> QED BY <1>1, <2>3, <2>5, <2>6, ReadAdvances
<1> QED BY <1>4, <1>5, <1>6, <1>7, <1>8 DEF Resolve

LEMMA ConfirmAdvances ==
    ASSUME Types, NEW p \in Proc, Confirm(p)
    PROVE  Advances(p)
<1> DEFINE q == pr[p]
<1>1. array \in ArrayType /\ q.at = "confirm"
  BY Working DEF Confirm
<1>2. Publishing(q)
  BY <1>1, PublisherWorks DEF Attaching
<1>3. CASE Refused(p, "get_lun")
  BY <1>3, RefusedAdvances
<1>4. CASE Read(p, Published(q))
  <2>1. Fine(q, array) => array.att[q.vol] = <<q.tgt, q.lun>>
    BY <1>1, <1>2 DEF Fine, Placed, Publishing
  <2> QED BY <1>1, <1>2, <1>4, <2>1, PublishedKeeps, ReadAdvances
<1>5. CASE Read(p, Raised(q, "notfound"))
  BY <1>2, <1>5, RaisedReadAdvances DEF Publishing, Publishers
<1> QED BY <1>3, <1>4, <1>5 DEF Confirm

-----------------------------------------------------------------------------
(* Credentials.                                                            *)

\* A process that brings the credentials of its target in line.
Crediter(q) ==
    /\ q \in RunType /\ q.at \in {"users", "delUser", "setUser", "active"}
    /\ q.cmd \in Publishers \cup {"update"} /\ q.tgt \in Target
    /\ q.cmd # "update" => q.vol \in Volume
    /\ q.user \in User \cup {None}

LEMMA CrediterWorks ==
    ASSUME Types, NEW p \in Proc, pr[p].at \in {"users", "delUser", "setUser", "active"}
    PROVE  Crediter(pr[p]) /\ array \in ArrayType /\ Job(pr[p])
<1>1. Job(pr[p]) /\ pr[p] \in RunType /\ array \in ArrayType
  BY Working
<1> QED BY <1>1 DEF Crediter, Job, Method, Args, Publishers, Crediting, RunType

LEMMA CreditOn ==
    ASSUME NEW q, Crediter(q), NEW n \in RunType, NEW b,
           n.cmd = q.cmd, n.vol = q.vol, n.tgt = q.tgt, n.lun = q.lun, n.user = q.user,
           \/ n.at \in {"active", "users", "done"}
           \/ n.at = "setUser" /\ q.user \in User
           \/ n.at = "delUser" /\ n.todo \subseteq User /\ n.todo # {},
           b.att = array.att
    PROVE  Job(n) /\ Keeps(q, n, b)
<1>1. Job(n)
  BY DEF Crediter, Job, Method, Returns, Args, Publishers, Lookups, Detaching, Scanning, Sweeping,
         Attaching, Crediting, Choosing
<1>2. UnusedBy(n, session)
  BY DEF UnusedBy
<1>3. Fine(q, array) => Fine(n, b)
  BY DEF Crediter, Fine, Placed, Removal, Emptied, Publishers, Lookups, Scanning, Sweeping, Choosing
<1> QED BY <1>1, <1>2, <1>3 DEF Keeps

LEMMA CreditGo ==
    ASSUME NEW q, Crediter(q), NEW at, NEW b, b.att = array.att,
           \/ at \in {"active", "users"}
           \/ at = "setUser" /\ q.user \in User
    PROVE  Job(Go(q, at)) /\ Keeps(q, Go(q, at), b)
<1> DEFINE n == Go(q, at)
<1>1. at \in Steps
  BY DEF Steps
<1>2. /\ n \in RunType /\ n.at = at /\ n.cmd = q.cmd /\ n.vol = q.vol /\ n.tgt = q.tgt /\ n.lun = q.lun
      /\ n.user = q.user
  BY <1>1, GoFields DEF Crediter
<1> HIDE DEF n
<1>3. Job(n) /\ Keeps(q, n, b)
  BY <1>2, CreditOn
<1> QED BY <1>3 DEF n

LEMMA CreditDone ==
    ASSUME NEW q, Crediter(q), NEW b, b.att = array.att
    PROVE  Job(Finish(q, "ok")) /\ Keeps(q, Finish(q, "ok"), b)
<1> DEFINE n == Finish(q, "ok")
<1>1. /\ n \in RunType /\ n.at = "done" /\ n.cmd = q.cmd /\ n.vol = q.vol /\ n.tgt = q.tgt /\ n.lun = q.lun
      /\ n.user = q.user
  BY FinishFields DEF Crediter, Results
<1> HIDE DEF n
<1>2. Job(n) /\ Keeps(q, n, b)
  BY <1>1, CreditOn
<1> QED BY <1>2 DEF n

LEMMA UsersAdvances ==
    ASSUME Types, NEW p \in Proc, Users(p)
    PROVE  Advances(p)
<1> DEFINE q == pr[p]
           users == array.users[q.tgt]
           wanted == {q.user} \ {None}
<1>1. Crediter(q) /\ array \in ArrayType
  BY CrediterWorks DEF Users
<1>2. users \subseteq User /\ (q.user # None => q.user \in User)
  BY <1>1, Fields DEF Crediter
<1>3. CASE Refused(p, "users")
  BY <1>3, RefusedAdvances
<1>4. CASE Read(p, IF q.user = None THEN Finish(q, "ok") ELSE Go(q, "active"))
  <2>1. CASE q.user = None
    BY <1>1, <1>4, <2>1, CreditDone, ReadAdvances
  <2>2. CASE q.user # None
    BY <1>1, <1>4, <2>2, CreditGo, ReadAdvances
  <2> QED BY <2>1, <2>2
<1>5. CASE q.user # None /\ Read(p, IF q.cmd = "update" THEN Go(q, "setUser") ELSE Raised(q, "notfound"))
  <2>1. CASE q.cmd = "update"
    BY <1>1, <1>2, <1>5, <2>1, CreditGo, ReadAdvances
  <2>2. CASE q.cmd # "update"
    BY <1>1, <1>5, <2>2, RaisedReadAdvances DEF Crediter, Publishers
  <2> QED BY <2>1, <2>2
<1>6. CASE /\ users # wanted \/ (q.cmd = "update" /\ wanted # {})
           /\ Read(p, [Go(q, IF users = {} THEN "setUser" ELSE "delUser") EXCEPT !.todo = users])
  <2> DEFINE at == IF users = {} THEN "setUser" ELSE "delUser"
             g == Go(q, at)
             n == [g EXCEPT !.todo = users]
  <2>1. at \in Steps
    BY DEF Steps
  <2>2. (at = "setUser" /\ q.user \in User) \/ (at = "delUser" /\ users # {})
    <3>1. users = {} => q.user # None
      BY <1>6
    <3> QED BY <1>2, <3>1
  <2>3. Read(p, n)
    BY <1>6
  <2> HIDE DEF at, users
  <2>4. /\ g \in RunType /\ g.at = at /\ g.cmd = q.cmd /\ g.vol = q.vol /\ g.tgt = q.tgt /\ g.lun = q.lun
        /\ g.user = q.user
    BY <1>1, <2>1, GoFields DEF Crediter
  <2> HIDE DEF g
  <2>5. /\ n \in RunType /\ n.at = at /\ n.cmd = q.cmd /\ n.vol = q.vol /\ n.tgt = q.tgt /\ n.lun = q.lun
        /\ n.user = q.user /\ n.todo = users
    BY <1>2, <2>4 DEF RunType
  <2> HIDE DEF n
  <2>6. Job(n) /\ Keeps(q, n, array)
    BY <1>1, <1>2, <2>2, <2>5, CreditOn
  <2> QED BY <1>1, <2>3, <2>6, ReadAdvances
<1>7. CASE q.user = None /\ Read(p, Finish(q, "ok"))
  BY <1>4, <1>7
<1> QED BY <1>3, <1>4, <1>5, <1>6 DEF Users

LEMMA DelUserAdvances ==
    ASSUME Types, NEW p \in Proc, DelUser(p)
    PROVE  Advances(p)
<1> DEFINE q == pr[p]
<1>1. Crediter(q) /\ array \in ArrayType /\ q.at = "delUser" /\ Job(q)
  BY CrediterWorks DEF DelUser
<1>2. q.todo \subseteq User
  BY <1>1 DEF Job, Args
<1>3. PICK u \in q.todo :
        LET r == delete_target_user(array, q.tgt, u)
            last == q.todo = {u}
            next == [q EXCEPT !.todo = @ \ {u},
                              !.at = IF last THEN "setUser" ELSE "delUser"] IN
        \E o \in Answers(q, "users", r, delete_target_user(r.a, q.tgt, u)) :
           Write(p, o.a,
                 IF o.r = "ok"
                 THEN IF last /\ q.user = None THEN Finish(q, "ok") ELSE next
                 ELSE IF o.r = "notfound" /\ q.user = None THEN Finish(q, "ok")
                      ELSE Raised(q, o.r))
  BY DEF DelUser
<1> DEFINE r == delete_target_user(array, q.tgt, u)
           again == delete_target_user(r.a, q.tgt, u)
           last == q.todo = {u}
           at == IF last THEN "setUser" ELSE "delUser"
           next == [q EXCEPT !.todo = @ \ {u}, !.at = at]
<1>4. PICK o \in Answers(q, "users", r, again) :
           Write(p, o.a,
                 IF o.r = "ok"
                 THEN IF last /\ q.user = None THEN Finish(q, "ok") ELSE next
                 ELSE IF o.r = "notfound" /\ q.user = None THEN Finish(q, "ok")
                      ELSE Raised(q, o.r))
  BY <1>3
<1>5. r.a \in ArrayType /\ r.r \in {"ok", "notfound"} /\ r.a.att = array.att /\ again = Ret(r.a, "notfound")
  BY <1>1, delete_target_user_Effect DEF Crediter
<1>6. again.a = r.a /\ again.r = "notfound"
  BY <1>5 DEF Ret
<1> HIDE DEF r, again
<1>7. o.a \in ArrayType /\ o.a.att = array.att /\ o.r \in {"ok", "notfound", "error", "cfg"}
  BY <1>1, <1>4, <1>5, <1>6, Answer
<1>8. CASE Write(p, o.a, Finish(q, "ok"))
  BY <1>1, <1>7, <1>8, CreditDone, WriteAdvances
<1>9. CASE o.r = "ok" /\ ~(last /\ q.user = None)
  <2>1. Write(p, o.a, next)
    BY <1>4, <1>9
  <2>2. at \in Steps
    BY DEF Steps
  <2>3. (at = "setUser" /\ q.user \in User) \/ (at = "delUser" /\ q.todo \ {u} # {})
    <3>1. last => q.user # None
      BY <1>9
    <3>2. ~last => q.todo \ {u} # {}
      BY <1>3
    <3> QED BY <1>1, <3>1, <3>2 DEF Crediter
  <2> HIDE DEF at, last
  <2>4. /\ next \in RunType /\ next.at = at /\ next.cmd = q.cmd /\ next.vol = q.vol /\ next.tgt = q.tgt
        /\ next.lun = q.lun /\ next.user = q.user /\ next.todo = q.todo \ {u}
    BY <1>1, <2>2 DEF Crediter, RunType
  <2> HIDE DEF next
  <2>5. Job(next) /\ Keeps(q, next, o.a)
    BY <1>1, <1>2, <1>7, <2>3, <2>4, CreditOn
  <2> QED BY <1>7, <2>1, <2>5, WriteAdvances
<1>10. CASE Write(p, o.a, Raised(q, o.r)) /\ o.r \in {"notfound", "error", "cfg"}
  BY <1>1, <1>7, <1>10, RaisedWriteAdvances DEF Crediter, Publishers
<1> QED BY <1>4, <1>7, <1>8, <1>9, <1>10

LEMMA SetUserAdvances ==
    ASSUME Types, NEW p \in Proc, SetUser(p)
    PROVE  Advances(p)
<1> DEFINE q == pr[p]
           r == create_target_user(array, q.tgt, q.user)
           again == create_target_user(r.a, q.tgt, q.user)
<1>1. Crediter(q) /\ array \in ArrayType /\ q.at = "setUser" /\ Job(q)
  BY CrediterWorks DEF SetUser
<1>2. q.user \in User
  BY <1>1 DEF Job, Args
<1>3. r.a \in ArrayType /\ r.r \in {"ok", "notfound"} /\ r.a.att = array.att /\ again = r
  BY <1>1, <1>2, create_target_user_Effect DEF Crediter
<1>4. PICK o \in Answers(q, "set_user", r, again) :
          Write(p, o.a,
                IF o.r = "ok" THEN IF q.fresh THEN Finish(q, "ok") ELSE Go(q, "active")
                ELSE IF q.cmd = "update" THEN Raised(q, o.r)
                ELSE [Go(Felt(q, o.r), "dropBad") EXCEPT !.back = o.r])
  BY DEF SetUser
<1> HIDE DEF r, again
<1>5. o.a \in ArrayType /\ o.a.att = array.att /\ o.r \in {"ok", "notfound", "error", "cfg"}
  BY <1>1, <1>3, <1>4, Answer
<1>6. CASE o.r = "ok"
  <2>1. CASE q.fresh
    BY <1>1, <1>4, <1>5, <1>6, <2>1, CreditDone, WriteAdvances
  <2>2. CASE ~q.fresh
    BY <1>1, <1>4, <1>5, <1>6, <2>2, CreditGo, WriteAdvances
  <2> QED BY <2>1, <2>2
<1>7. CASE o.r # "ok" /\ q.cmd = "update"
  BY <1>4, <1>5, <1>7, RaisedWriteAdvances
<1>8. CASE o.r # "ok" /\ q.cmd # "update"
  <2> DEFINE h == Felt(q, o.r)
             g == Go(h, "dropBad")
             n == [g EXCEPT !.back = o.r]
  <2>1. h \in RunType /\ h = [q EXCEPT !.errs = h.errs]
    BY <1>1, FeltFields DEF Crediter
  <2>2. h.cmd = q.cmd /\ h.vol = q.vol /\ h.tgt = q.tgt
    <3> HIDE DEF h
    <3> QED BY <1>1, <2>1 DEF Crediter, RunType
  <2> HIDE DEF h
  <2>3. g \in RunType /\ g.at = "dropBad" /\ g.cmd = q.cmd /\ g.vol = q.vol /\ g.tgt = q.tgt
    <3>1. "dropBad" \in Steps
      BY DEF Steps
    <3> QED BY <2>1, <2>2, <3>1, GoFields
  <2> HIDE DEF g
  <2>4. n \in RunType /\ n.at = "dropBad" /\ n.cmd = q.cmd /\ n.vol = q.vol /\ n.tgt = q.tgt
    <3>1. o.r \in Backs
      BY <1>5, <1>8 DEF Backs
    <3> QED BY <2>3, <3>1 DEF RunType
  <2>5. Write(p, o.a, n)
    BY <1>4, <1>8 DEF g, h
  <2> HIDE DEF n
  <2>6. Job(n)
    BY <1>1, <1>8, <2>4, CreditJob DEF Crediter
  <2>7. Keeps(q, n, o.a)
    BY <2>4, PlainKeeps DEF Plain
  <2> QED BY <1>5, <2>5, <2>6, <2>7, WriteAdvances
<1> QED BY <1>6, <1>7, <1>8

LEMMA DropBadAdvances ==
    ASSUME Types, NEW p \in Proc, DropBad(p)
    PROVE  Advances(p)
<1> DEFINE q == pr[p]
           r == delete_target(array, q.tgt)
           again == delete_target(r.a, q.tgt)
<1>1. array \in ArrayType /\ q.at = "dropBad"
  BY Working DEF DropBad
<1>2. Publishing(q)
  BY <1>1, PublisherWorks DEF Attaching
<1>3. r.a \in ArrayType /\ again = Ret(r.a, "notfound")
  BY <1>1, <1>2, delete_target_Effect DEF Publishing
<1>4. again.a = r.a
  BY <1>3 DEF Ret
<1>5. PICK o \in Answers(q, "delete_target", r, again) : Write(p, o.a, Raised(q, q.back))
  BY DEF DropBad
<1> HIDE DEF r, again
<1>6. o.a \in ArrayType
  BY <1>1, <1>3, <1>4, <1>5, Answer
<1> QED BY <1>2, <1>5, <1>6, RaisedWriteAdvances DEF Publishing, Publishers

LEMMA ActiveAdvances ==
    ASSUME Types, NEW p \in Proc, Active(p)
    PROVE  Advances(p)
<1> DEFINE q == pr[p]
           want == q.user # None
           r == set_target_incoming_users_active(array, q.tgt, want)
           next == IF want THEN Finish(q, "ok") ELSE Go(q, "users")
<1>1. Crediter(q) /\ array \in ArrayType
  BY CrediterWorks DEF Active
<1>2. want \in BOOLEAN
  OBVIOUS
<1>3. \A b \in ArrayType : b.att = array.att => Job(next) /\ Keeps(q, next, b)
  <2>1. CASE want
    BY <1>1, <2>1, CreditDone
  <2>2. CASE ~want
    BY <1>1, <2>2, CreditGo
  <2> QED BY <2>1, <2>2
<1>4. CASE Read(p, next)
  <2> HIDE DEF next
  <2> QED BY <1>1, <1>3, <1>4, ReadAdvances
<1>5. CASE \E o \in Answers(q, "active", r, r) :
              Write(p, o.a, IF o.r = "ok" THEN next ELSE Raised(q, o.r))
  <2>1. r.a \in ArrayType /\ r.r \in {"ok", "notfound"} /\ r.a.att = array.att
    <3> HIDE DEF want
    <3> QED BY <1>1, <1>2, set_active_Effect DEF Crediter
  <2> HIDE DEF r, next, want
  <2>2. PICK o \in Answers(q, "active", r, r) :
              Write(p, o.a, IF o.r = "ok" THEN next ELSE Raised(q, o.r))
    BY <1>5
  <2>3. o.a \in ArrayType /\ o.a.att = array.att
    BY <1>1, <2>1, <2>2, Answer
  <2>4. CASE o.r = "ok"
    BY <1>3, <2>2, <2>3, <2>4, WriteAdvances
  <2>5. CASE o.r # "ok"
    BY <1>1, <2>2, <2>3, <2>5, RaisedWriteAdvances DEF Crediter, Publishers
  <2> QED BY <2>4, <2>5
<1> QED BY <1>4, <1>5 DEF Active

-----------------------------------------------------------------------------
(* Detaching a volume from its target.                                     *)

\* A process that detaches its volume from the target `from`.
Leaving(q) ==
    /\ Job(q) /\ q \in RunType /\ q.at \in {"detach", "left", "drop"} /\ q.cmd # "delete"
    /\ q.vol \in Volume /\ q.from \in Target

LEMMA LeavingWorks ==
    ASSUME Types, NEW p \in Proc, pr[p].at \in {"detach", "left", "drop"}, pr[p].cmd # "delete"
    PROVE  Leaving(pr[p]) /\ array \in ArrayType
<1>1. Job(pr[p]) /\ pr[p] \in RunType /\ array \in ArrayType
  BY Working
<1> QED BY <1>1 DEF Leaving, Job, Method, Args, Lookups, Detaching

\* The volume has left the target, as far as that is known.
HasLeft(q, b) ==
    Fine(q, array) =>
       /\ q.cmd \in Lookups /\ q.back = "list" => b.att[q.vol] = None
       /\ q.cmd = "remove" /\ q.errs = 0 => b.att[q.vol] = None

LEMMA OnwardKeeps ==
    ASSUME NEW q, Leaving(q), NEW b, HasLeft(q, b), NEW at \in {"left", "drop"},
           at = "drop" => On(b, q.from) = {}
    PROVE  Job(Go(q, at)) /\ Keeps(q, Go(q, at), b)
<1> DEFINE n == Go(q, at)
<1>1. at \in Steps
  BY DEF Steps, Detaching
<1>2. /\ n \in RunType /\ n.at = at /\ n.cmd = q.cmd /\ n.vol = q.vol /\ n.tgt = q.tgt /\ n.errs = q.errs
      /\ n.from = q.from /\ n.back = q.back
  BY <1>1, GoFields DEF Leaving
<1> HIDE DEF n
<1>3. Job(n)
  <2>1. Returns(n) /\ Method(n)
    BY <1>2 DEF Leaving, Job, Returns, Method, Lookups, Publishers, Detaching, Scanning, Sweeping,
                Attaching, Crediting, Choosing
  <2>2. Args(n)
    BY <1>2 DEF Leaving, Args, Detaching, Scanning, Sweeping, Attaching, Crediting
  <2> QED BY <1>2, <2>1, <2>2 DEF Job
<1>4. UnusedBy(q, session) => UnusedBy(n, session)
  BY <1>2 DEF UnusedBy, Leaving
<1>5. ASSUME Fine(q, array) PROVE Fine(n, b)
  BY <1>2, <1>5 DEF HasLeft, Leaving, Fine, Placed, Removal, Emptied, Publishers, Lookups, Scanning, Sweeping, Choosing
<1> QED BY <1>3, <1>4, <1>5 DEF Keeps, n

LEMMA BackKeeps ==
    ASSUME NEW q, Leaving(q), NEW b, HasLeft(q, b)
    PROVE  Job(Go(q, q.back)) /\ Keeps(q, Go(q, q.back), b)
<1> DEFINE n == Go(q, q.back)
<1>1. \/ q.cmd \in Lookups /\ q.back = "list"
      \/ q.cmd \in Publishers /\ q.back = "attach" /\ q.tgt \in Target
      \/ q.cmd = "remove" /\ q.back = "removed"
      \/ q.cmd = "unexport" /\ q.back = "destroy"
  BY DEF Leaving, Job, Returns, Method, Lookups, Publishers, Detaching
<1>2. q.back \in Steps
  BY <1>1 DEF Steps
<1>3. /\ n \in RunType /\ n.at = q.back /\ n.cmd = q.cmd /\ n.vol = q.vol /\ n.tgt = q.tgt /\ n.errs = q.errs
  BY <1>2, GoFields DEF Leaving
<1> HIDE DEF n
<1>4. CASE q.cmd \in Lookups /\ q.back = "list"
  <2>1. Job(n)
    BY <1>3, <1>4, PlainJob DEF Leaving
  <2>2. Keeps(q, n, b)
    BY <1>3, <1>4, ChoosingKeeps DEF HasLeft, Choosing
  <2> QED BY <2>1, <2>2 DEF n
<1>5. CASE q.cmd \in Publishers /\ q.back = "attach" /\ q.tgt \in Target
  <2>1. Job(n)
    BY <1>3, <1>5, CreditJob DEF Leaving
  <2>2. Keeps(q, n, b)
    BY <1>3, <1>5, PlainKeeps DEF Plain
  <2> QED BY <2>1, <2>2 DEF n
<1>6. CASE \/ q.cmd = "remove" /\ q.back = "removed"
           \/ q.cmd = "unexport" /\ q.back = "destroy"
  <2>1. Job(n)
    BY <1>3, <1>6, LastPartJob DEF Leaving
  <2>2. Keeps(q, n, b)
    BY <1>3, <1>6 DEF HasLeft, Keeps, UnusedBy, Fine, Placed, Removal, Emptied, Publishers, Lookups, Scanning, Sweeping, Choosing
  <2> QED BY <2>1, <2>2 DEF n
<1> QED BY <1>1, <1>4, <1>5, <1>6

LEMMA BusyAdvances ==
    ASSUME Types, NEW p \in Proc, Busy(p)
    PROVE  Advances(p)
<1> DEFINE q == pr[p]
<1>1. q \in RunType /\ array \in ArrayType /\ q.at = "busy" /\ Job(q)
  BY Working DEF Busy
<1>2. q.cmd \in Publishers /\ q.vol \in Volume /\ q.from \in Target /\ q.back = "attach" /\ q.tgt \in Target
  BY <1>1 DEF Job, Method, Args, Returns, Publishers, Detaching, Attaching
<1>3. CASE Refused(p, "sessions")
  BY <1>3, RefusedAdvances
<1>4. CASE Read(p, Raised(q, "inuse"))
  BY <1>4, RaisedReadAdvances
<1>5. CASE q.from \notin session /\ Read(p, Go(q, "detach"))
  <2> DEFINE n == Go(q, "detach")
  <2>1. "detach" \in Steps
    BY DEF Steps, Detaching
  <2>2. /\ n \in RunType /\ n.at = "detach" /\ n.cmd = q.cmd /\ n.vol = q.vol /\ n.tgt = q.tgt
        /\ n.from = q.from /\ n.back = "attach"
    BY <1>1, <1>2, <2>1, GoFields
  <2> HIDE DEF n
  <2>3. Job(n)
    BY <1>2, <2>2, DetachJob
  <2>4. Keeps(q, n, array)
    BY <1>2, <1>5, <2>2 DEF Keeps, UnusedBy, Fine, Placed, Removal, Emptied, Publishers, Lookups, Scanning, Sweeping, Choosing
  <2> QED BY <1>1, <1>5, <2>3, <2>4, ReadAdvances DEF n
<1> QED BY <1>3, <1>4, <1>5 DEF Busy

LEMMA DetachAdvances ==
    ASSUME Types, NEW p \in Proc, Detach(p)
    PROVE  Advances(p)
<1> DEFINE q == pr[p]
           r == detach_target_vol(array, q.from, q.vol)
           again == detach_target_vol(r.a, q.from, q.vol)
<1>1. q.at = "detach" /\ Job(q)
  BY Working DEF Detach
<1>2. Leaving(q) /\ array \in ArrayType
  <2>1. q.cmd # "delete"
    BY <1>1 DEF Job, Method, Lookups
  <2> QED BY <1>1, <2>1, LeavingWorks
<1>3. /\ r.a \in ArrayType /\ r.r \in {"ok", "notfound"} /\ again = Ret(r.a, "notfound")
      /\ array.att[q.vol] = None \/ array.att[q.vol][1] = q.from => r.a.att[q.vol] = None
  BY <1>2, detach_target_vol_Effect DEF Leaving, On
<1>4. PICK o \in Answers(q, "detach", r, again) :
          Write(p, o.a, IF o.r \in {"ok", "notfound"} THEN Go(q, IF q.only THEN q.back ELSE "left")
                        ELSE Raised(q, o.r))
  BY DEF Detach
<1>5. again.a = r.a /\ again.r = "notfound"
  BY <1>3 DEF Ret
<1> HIDE DEF r, again
<1>6. /\ o.a \in ArrayType /\ o.r \in {"ok", "notfound", "error", "cfg"}
      /\ o.r \in {"ok", "notfound"} => o.a = r.a
  BY <1>2, <1>3, <1>4, <1>5, Answer
<1>7. CASE o.r \in {"ok", "notfound"}
  <2>1. HasLeft(q, o.a)
    BY <1>1, <1>3, <1>6, <1>7 DEF HasLeft, Fine, Placed, Removal
  <2>2. Write(p, o.a, Go(q, q.back)) \/ Write(p, o.a, Go(q, "left"))
    BY <1>4, <1>7
  <2>3. CASE Write(p, o.a, Go(q, q.back))
    BY <1>2, <1>6, <2>1, <2>3, BackKeeps, WriteAdvances
  <2>4. CASE Write(p, o.a, Go(q, "left"))
    BY <1>2, <1>6, <2>1, <2>4, OnwardKeeps, WriteAdvances
  <2> QED BY <2>2, <2>3, <2>4
<1>8. CASE o.r \in {"error", "cfg"}
  <2>1. Write(p, o.a, Raised(q, o.r))
    BY <1>4, <1>8
  <2> QED BY <1>6, <1>8, <2>1, FailedAdvances
<1> QED BY <1>6, <1>7, <1>8

LEMMA LeftAdvances ==
    ASSUME Types, NEW p \in Proc, Left(p)
    PROVE  Advances(p)
<1> DEFINE q == pr[p]
<1>1. q.at = "left" /\ Job(q)
  BY Working DEF Left
<1>2. Leaving(q) /\ array \in ArrayType
  <2>1. q.cmd # "delete"
    BY <1>1 DEF Job, Method, Lookups
  <2> QED BY <1>1, <2>1, LeavingWorks
<1>3. HasLeft(q, array)
  BY <1>1 DEF HasLeft, Fine, Placed, Removal
<1>4. CASE Refused(p, "luns")
  BY <1>4, RefusedAdvances
<1>5. CASE Read(p, Raised(q, "notfound"))
  <2>1. q.cmd = "remove" /\ Fine(q, array) /\ q.errs = 0 => array.att[q.vol] = None
    BY <1>3 DEF HasLeft
  <2> QED BY <1>5, <2>1, RaisedReadAdvances
<1>6. CASE On(array, q.from) = {} /\ Read(p, Go(q, "drop"))
  BY <1>2, <1>3, <1>6, OnwardKeeps, ReadAdvances
<1>7. CASE Read(p, Go(q, q.back))
  BY <1>2, <1>3, <1>7, BackKeeps, ReadAdvances
<1> QED BY <1>4, <1>5, <1>6, <1>7 DEF Left

LEMMA DropAdvances ==
    ASSUME Types, NEW p \in Proc, Drop(p)
    PROVE  Advances(p)
<1> DEFINE q == pr[p]
           r == delete_target(array, q.from)
           again == delete_target(r.a, q.from)
<1>1. q \in RunType /\ array \in ArrayType /\ q.at = "drop" /\ Job(q)
  BY Working DEF Drop
<1>2. q.from \in Target
  BY <1>1 DEF Job, Args, Detaching
<1>3. /\ r.a \in ArrayType /\ r.r \in {"ok", "notfound"} /\ again = Ret(r.a, "notfound")
      /\ \A v \in Volume : array.att[v] = None => r.a.att[v] = None
  BY <1>1, <1>2, delete_target_Effect
<1>4. PICK o \in Answers(q, "delete_target", r, again) :
          Write(p, o.a, IF q.cmd = "delete" THEN Finish(Felt(q, o.r), IF o.r = "ok" THEN "ok" ELSE "failed")
                        ELSE IF o.r \in {"ok", "notfound"} THEN Go(q, q.back)
                        ELSE Raised(q, o.r))
  BY DEF Drop
<1>5. again.a = r.a /\ again.r = "notfound"
  BY <1>3 DEF Ret
<1> HIDE DEF r, again
<1>6. /\ o.a \in ArrayType /\ o.r \in {"ok", "notfound", "error", "cfg"}
      /\ \A v \in Volume : array.att[v] = None => o.a.att[v] = None
  BY <1>1, <1>3, <1>4, <1>5, Answer
<1>7. CASE q.cmd = "delete"
  <2> DEFINE h == Felt(q, o.r)
             x == IF o.r = "ok" THEN "ok" ELSE "failed"
             n == Finish(h, x)
  <2>1. Write(p, o.a, n)
    BY <1>4, <1>7
  <2>2. h \in RunType /\ h = [q EXCEPT !.errs = h.errs] /\ x \in Results
    BY <1>1, FeltFields DEF Results
  <2>3. h.cmd = "delete"
    <3> HIDE DEF h
    <3> QED BY <1>1, <1>7, <2>2 DEF RunType
  <2> HIDE DEF h, x
  <2>4. n \in RunType /\ n.at = "done" /\ n.cmd = "delete"
    BY <2>2, <2>3, FinishFields
  <2> HIDE DEF n
  <2>5. Job(n)
    BY <2>4, EndJob
  <2>6. Keeps(q, n, o.a)
    BY <2>4 DEF Keeps, UnusedBy, Fine, Placed, Removal, Emptied, Publishers, Lookups, Scanning, Sweeping, Choosing
  <2> QED BY <1>6, <2>1, <2>5, <2>6, WriteAdvances
<1>8. CASE q.cmd # "delete" /\ o.r \in {"ok", "notfound"}
  <2>1. Leaving(q)
    BY <1>1, <1>8, LeavingWorks
  <2>2. HasLeft(q, o.a)
    BY <1>1, <1>6, <2>1 DEF HasLeft, Leaving, Fine, Placed, Removal
  <2>3. Write(p, o.a, Go(q, q.back))
    BY <1>4, <1>8
  <2> QED BY <1>6, <2>1, <2>2, <2>3, BackKeeps, WriteAdvances
<1>9. CASE q.cmd # "delete" /\ o.r \in {"error", "cfg"}
  <2>1. Write(p, o.a, Raised(q, o.r))
    BY <1>4, <1>9
  <2> QED BY <1>6, <1>9, <2>1, FailedAdvances
<1> QED BY <1>6, <1>7, <1>8, <1>9

-----------------------------------------------------------------------------
(* The sweep over targets that lost their volumes.                         *)

\* A process that sweeps after an unpublication.
Sweeper(q) ==
    /\ Job(q) /\ q \in RunType /\ q.at \in Sweeping \cup {"removed"} /\ q.cmd = "remove"
    /\ q.vol \in Volume

LEMMA SweeperWorks ==
    ASSUME Types, NEW p \in Proc, pr[p].at \in Sweeping \cup {"removed"}
    PROVE  /\ Sweeper(pr[p]) /\ array \in ArrayType
           /\ pr[p].at \in Sweeping \ {"zList"} => pr[p].todo \subseteq Own
           /\ pr[p].at \in Sweeping \ {"zList", "zLuns"} => pr[p].from \in Target
<1>1. Job(pr[p]) /\ pr[p] \in RunType /\ array \in ArrayType
  BY Working
<1> QED BY <1>1 DEF Sweeper, Job, Method, Args, Sweeping

\* The volumes that were on no target still are on none.
Frees(b) == \A v \in Volume : array.att[v] = None => b.att[v] = None

LEMMA SweepOn ==
    ASSUME NEW q, Sweeper(q), NEW n \in RunType, NEW b, Frees(b),
           n.cmd = q.cmd, n.vol = q.vol, n.errs \in {q.errs, q.errs + 1},
           \/ n.at = "done"
           \/ n.at = "zList"
           \/ n.at = "zLuns" /\ n.todo \subseteq Own
           \/ n.at \in {"zCheck", "zDetach", "zAgain", "zDrop"} /\ n.todo \subseteq Own /\ n.from \in Target,
           n.at \in {"zCheck", "zDetach"} => n.seen \subseteq Volume,
           n.at = "zDetach" => n.item \in Volume /\ ("is_lun" \notin Faults => n.item \notin b.zvol),
           n.at = "zDrop" => On(b, n.from) = {}
    PROVE  Job(n) /\ Keeps(q, n, b)
<1>1. Job(n)
  <2>1. Returns(n) /\ Method(n)
    BY DEF Sweeper, Returns, Method, Lookups, Publishers, Detaching, Scanning, Sweeping,
           Attaching, Crediting, Choosing
  <2>2. Args(n)
    BY DEF Sweeper, Args, Detaching, Scanning, Sweeping, Attaching, Crediting
  <2> QED BY <2>1, <2>2 DEF Job
<1>2. UnusedBy(n, session)
  BY DEF UnusedBy
<1>3. ASSUME "is_lun" \notin Faults, Fine(q, array) PROVE Fine(n, b)
  <2>1. Placed(n, b)
    BY DEF Sweeper, Placed, Publishers, Lookups, Scanning, Choosing
  <2>2. Removal(n, b)
    <3>1. q.errs \in Nat
      BY DEF Sweeper, RunType
    <3>2. n.errs = 0 => q.errs = 0
      BY <3>1
    <3>3. q.errs = 0 => array.att[q.vol] = None
      BY <1>3 DEF Fine, Removal, Sweeper
    <3>4. n.errs = 0 => b.att[n.vol] = None
      BY <3>2, <3>3 DEF Frees, Sweeper
    <3> QED BY <3>4 DEF Removal, Sweeper
  <2>3. Emptied(n, b)
    BY <1>3 DEF Emptied
  <2> QED BY <2>1, <2>2, <2>3 DEF Fine
<1> QED BY <1>1, <1>2, <1>3 DEF Keeps

LEMMA SameFrees == Frees(array)
<1> QED BY DEF Frees

LEMMA SweepDone ==
    ASSUME NEW q, Sweeper(q)
    PROVE  /\ Job(Finish(q, "ok")) /\ Keeps(q, Finish(q, "ok"), array)
           /\ Job(Finish(Felt(q, "error"), "ok")) /\ Keeps(q, Finish(Felt(q, "error"), "ok"), array)
<1>1. q \in RunType /\ "ok" \in Results /\ Felt(q, q.res) \in RunType
  BY FeltFields DEF Sweeper, Results
<1>2. ASSUME NEW h \in RunType, h.cmd = q.cmd, h.vol = q.vol, h.errs \in {q.errs, q.errs + 1}
      PROVE  Job(Finish(h, "ok")) /\ Keeps(q, Finish(h, "ok"), array)
  <2> DEFINE n == Finish(h, "ok")
  <2>1. n \in RunType /\ n.at = "done" /\ n.cmd = q.cmd /\ n.vol = q.vol /\ n.errs \in {q.errs, q.errs + 1}
    BY <1>1, <1>2, FinishFields
  <2> HIDE DEF n
  <2>2. Job(n) /\ Keeps(q, n, array)
    BY <2>1, SweepOn, SameFrees
  <2> QED BY <2>2 DEF n
<1> DEFINE h == Felt(q, "error")
<1>3. h \in RunType /\ h = [q EXCEPT !.errs = h.errs] /\ h.errs \in {q.errs, q.errs + 1}
  BY <1>1, FeltFields
<1> HIDE DEF h
<1>4. h.cmd = q.cmd /\ h.vol = q.vol
  BY <1>1, <1>3 DEF RunType
<1> QED BY <1>1, <1>2, <1>3, <1>4 DEF h

\* The sweep goes on with another list of targets, and perhaps a failure more.
LEMMA SweepNext ==
    ASSUME NEW q, Sweeper(q), NEW e, NEW b, Frees(b), NEW T, T \subseteq Own,
           NEW n, n = [Go(Felt(q, e), "zLuns") EXCEPT !.todo = T]
    PROVE  Job(n) /\ Keeps(q, n, b)
<1> DEFINE h == Felt(q, e)
           g == Go(h, "zLuns")
<1>1. q \in RunType /\ "zLuns" \in Steps /\ T \in SUBSET (Target \cup User)
  BY DEF Sweeper, Steps, Sweeping, Target
<1>2. h \in RunType /\ h = [q EXCEPT !.errs = h.errs] /\ h.errs \in {q.errs, q.errs + 1}
  BY <1>1, FeltFields
<1> HIDE DEF h
<1>3. h.cmd = q.cmd /\ h.vol = q.vol
  BY <1>1, <1>2 DEF RunType
<1>4. g \in RunType /\ g.at = "zLuns" /\ g.cmd = q.cmd /\ g.vol = q.vol /\ g.errs = h.errs
  BY <1>1, <1>2, <1>3, GoFields
<1>5. n = [g EXCEPT !.todo = T]
  BY DEF h
<1> HIDE DEF g
<1>6. n \in RunType /\ n.at = "zLuns" /\ n.cmd = q.cmd /\ n.vol = q.vol /\ n.errs = h.errs /\ n.todo = T
  BY <1>1, <1>4, <1>5 DEF RunType
<1> QED BY <1>2, <1>6, SweepOn

\* The sweep goes on with the next target.
LEMMA SweepBack ==
    ASSUME NEW q, Sweeper(q), NEW e, NEW b, Frees(b), q.todo \subseteq Own,
           NEW n, n = [Go(Felt(q, e), "zLuns") EXCEPT !.todo = @ \ {q.from}]
    PROVE  Job(n) /\ Keeps(q, n, b)
<1> DEFINE h == Felt(q, e)
           g == Go(h, "zLuns")
           f == q.from
           T == q.todo \ {f}
<1>1. q \in RunType /\ "zLuns" \in Steps
  BY DEF Sweeper, Steps, Sweeping
<1>2. h \in RunType /\ h = [q EXCEPT !.errs = h.errs]
  BY <1>1, FeltFields
<1>3. h.todo = q.todo
  <2> HIDE DEF h
  <2> QED BY <1>1, <1>2 DEF RunType
<1>4. g \in RunType /\ g.todo = q.todo
  <2> HIDE DEF h
  <2> QED BY <1>1, <1>2, <1>3, GoFields
<1>5. n = [g EXCEPT !.todo = @ \ {f}]
  OBVIOUS
<1>6. n = [g EXCEPT !.todo = T]
  <2> HIDE DEF g, f
  <2> QED BY <1>4, <1>5
<1>7. T \subseteq Own
  OBVIOUS
<1>8. n = [Go(Felt(q, e), "zLuns") EXCEPT !.todo = T]
  BY <1>6
<1> HIDE DEF g, h, T
<1> QED BY <1>7, <1>8, SweepNext

LEMMA RemovedAdvances ==
    ASSUME Types, NEW p \in Proc, Removed(p)
    PROVE  Advances(p)
<1> DEFINE q == pr[p]
<1>1. Sweeper(q) /\ array \in ArrayType
  BY SweeperWorks DEF Removed
<1>2. CASE Read(p, Finish(q, "ok"))
  BY <1>1, <1>2, SweepDone, ReadAdvances
<1>3. CASE Read(p, Go(q, "zList"))
  <2> DEFINE n == Go(q, "zList")
  <2>1. "zList" \in Steps
    BY DEF Steps, Sweeping
  <2>2. n \in RunType /\ n.at = "zList" /\ n.cmd = q.cmd /\ n.vol = q.vol /\ n.errs = q.errs
    BY <1>1, <2>1, GoFields DEF Sweeper
  <2> HIDE DEF n
  <2>3. Job(n) /\ Keeps(q, n, array)
    BY <1>1, <2>2, SweepOn, SameFrees
  <2> QED BY <1>1, <1>3, <2>3, ReadAdvances DEF n
<1> QED BY <1>2, <1>3 DEF Removed

LEMMA SweepListAdvances ==
    ASSUME Types, NEW p \in Proc, SweepList(p)
    PROVE  Advances(p)
<1> DEFINE q == pr[p]
<1>1. Sweeper(q) /\ array \in ArrayType
  BY SweeperWorks DEF SweepList, Sweeping
<1>2. CASE Read(p, Finish(Felt(q, "error"), "ok"))
  BY <1>1, <1>2, SweepDone, ReadAdvances
<1>3. CASE Read(p, [Go(q, "zLuns") EXCEPT !.todo = array.made \cap Own])
  <2> DEFINE T == array.made \cap Own
             n == [Go(q, "zLuns") EXCEPT !.todo = T]
  <2>1. T \subseteq Own /\ Felt(q, "ok") = q
    BY DEF Felt
  <2>2. n = [Go(Felt(q, "ok"), "zLuns") EXCEPT !.todo = T]
    BY <2>1
  <2> HIDE DEF n, T
  <2>3. Job(n) /\ Keeps(q, n, array)
    BY <1>1, <2>1, <2>2, SweepNext, SameFrees
  <2> QED BY <1>1, <1>3, <2>3, ReadAdvances DEF n, T
<1> QED BY <1>2, <1>3 DEF SweepList

LEMMA SweepLunsAdvances ==
    ASSUME Types, NEW p \in Proc, SweepLuns(p)
    PROVE  Advances(p)
<1> DEFINE q == pr[p]
           t == Smallest(q.todo)
<1>1. Sweeper(q) /\ array \in ArrayType /\ q.at = "zLuns" /\ q.todo \subseteq Own
  BY SweeperWorks DEF SweepLuns, Sweeping
<1>2. CASE Read(p, Finish(q, "ok"))
  BY <1>1, <1>2, SweepDone, ReadAdvances
<1>3. CASE Read(p, [Felt(q, "error") EXCEPT !.todo = @ \ {t}])
  <2> DEFINE h == Felt(q, "error")
             T == q.todo \ {t}
             n == [h EXCEPT !.todo = @ \ {t}]
  <2>1. h \in RunType /\ h = [q EXCEPT !.errs = h.errs] /\ h.errs \in {q.errs, q.errs + 1}
    BY <1>1, FeltFields DEF Sweeper
  <2> HIDE DEF h
  <2>2. h.cmd = q.cmd /\ h.vol = q.vol /\ h.at = "zLuns" /\ h.todo = q.todo
    BY <1>1, <2>1 DEF Sweeper, RunType
  <2>3. n = [h EXCEPT !.todo = T] /\ T \subseteq Own /\ T \in SUBSET (Target \cup User)
    BY <1>1, <2>2 DEF Target
  <2> HIDE DEF T, n
  <2>4. n \in RunType /\ n.at = "zLuns" /\ n.cmd = q.cmd /\ n.vol = q.vol /\ n.errs = h.errs /\ n.todo = T
    BY <2>1, <2>2, <2>3 DEF RunType
  <2>5. Job(n) /\ Keeps(q, n, array)
    BY <1>1, <2>1, <2>3, <2>4, SweepOn, SameFrees
  <2> QED BY <1>1, <1>3, <2>5, ReadAdvances DEF n, h
<1>4. CASE q.todo # {} /\ Read(p, [Go(q, "zCheck") EXCEPT !.from = t, !.seen = On(array, t)])
  <2> DEFINE g == Go(q, "zCheck")
             S == On(array, t)
             n == [g EXCEPT !.from = t, !.seen = S]
  <2>1. t \in Own
    BY <1>1, <1>4, SmallestIn, Indices
  <2>2. t \in Target /\ S \subseteq Volume /\ S \in SUBSET (Target \cup Volume) /\ "zCheck" \in Steps
    BY <2>1 DEF Target, On, Steps, Sweeping
  <2>3. g \in RunType /\ g.at = "zCheck" /\ g.cmd = q.cmd /\ g.vol = q.vol /\ g.errs = q.errs /\ g.todo = q.todo
    BY <1>1, <2>2, GoFields DEF Sweeper
  <2> HIDE DEF g, S, t
  <2>4. /\ n \in RunType /\ n.at = "zCheck" /\ n.cmd = q.cmd /\ n.vol = q.vol /\ n.errs = q.errs
        /\ n.todo = q.todo /\ n.from = t /\ n.seen = S
    BY <2>2, <2>3 DEF RunType
  <2> HIDE DEF n
  <2>5. Job(n) /\ Keeps(q, n, array)
    BY <1>1, <2>2, <2>4, SweepOn, SameFrees
  <2> QED BY <1>1, <1>4, <2>5, ReadAdvances DEF n, g, S, t
<1> QED BY <1>2, <1>3, <1>4 DEF SweepLuns

LEMMA SweepCheckAdvances ==
    ASSUME Types, NEW p \in Proc, SweepCheck(p)
    PROVE  Advances(p)
<1> DEFINE q == pr[p]
<1>1. /\ Sweeper(q) /\ array \in ArrayType /\ q.at = "zCheck" /\ q.todo \subseteq Own
      /\ q.from \in Target
  BY SweeperWorks DEF SweepCheck, Sweeping
<1>2. q.seen \subseteq Volume
  BY <1>1 DEF Sweeper, Job, Args
<1>3. CASE Read(p, Go(q, "zAgain"))
  <2> DEFINE n == Go(q, "zAgain")
  <2>1. "zAgain" \in Steps
    BY DEF Steps, Sweeping
  <2>2. /\ n \in RunType /\ n.at = "zAgain" /\ n.cmd = q.cmd /\ n.vol = q.vol /\ n.errs = q.errs
        /\ n.todo = q.todo /\ n.from = q.from
    BY <1>1, <2>1, GoFields DEF Sweeper
  <2> HIDE DEF n
  <2>3. Job(n) /\ Keeps(q, n, array)
    BY <1>1, <2>2, SweepOn, SameFrees
  <2> QED BY <1>1, <1>3, <2>3, ReadAdvances DEF n
<1>4. ASSUME NEW v \in q.seen, Read(p, [q EXCEPT !.seen = @ \ {v}])
      PROVE  Advances(p)
  <2> DEFINE S == q.seen \ {v}
             n == [q EXCEPT !.seen = @ \ {v}]
  <2>1. n = [q EXCEPT !.seen = S] /\ S \subseteq Volume /\ S \in SUBSET (Target \cup Volume)
    BY <1>1, <1>2 DEF Sweeper, RunType
  <2> HIDE DEF S, n
  <2>2. /\ n \in RunType /\ n.at = "zCheck" /\ n.cmd = q.cmd /\ n.vol = q.vol /\ n.errs = q.errs
        /\ n.todo = q.todo /\ n.from = q.from /\ n.seen = S
    BY <1>1, <2>1 DEF Sweeper, RunType
  <2>3. Job(n) /\ Keeps(q, n, array)
    BY <1>1, <2>1, <2>2, SweepOn, SameFrees
  <2> QED BY <1>1, <1>4, <2>3, ReadAdvances DEF n
<1>5. ASSUME NEW v \in q.seen, "is_lun" \notin Faults => v \notin array.zvol,
             Read(p, [Go(q, "zDetach") EXCEPT !.item = v])
      PROVE  Advances(p)
  <2> DEFINE g == Go(q, "zDetach")
             n == [g EXCEPT !.item = v]
  <2>1. "zDetach" \in Steps /\ v \in Volume
    BY <1>2 DEF Steps, Sweeping
  <2>2. /\ g \in RunType /\ g.at = "zDetach" /\ g.cmd = q.cmd /\ g.vol = q.vol /\ g.errs = q.errs
        /\ g.todo = q.todo /\ g.from = q.from /\ g.seen = q.seen
    BY <1>1, <2>1, GoFields DEF Sweeper
  <2> HIDE DEF g
  <2>3. /\ n \in RunType /\ n.at = "zDetach" /\ n.cmd = q.cmd /\ n.vol = q.vol /\ n.errs = q.errs
        /\ n.todo = q.todo /\ n.from = q.from /\ n.seen = q.seen /\ n.item = v
    BY <2>1, <2>2 DEF RunType
  <2> HIDE DEF n
  <2>4. Job(n) /\ Keeps(q, n, array)
    BY <1>1, <1>2, <1>5, <2>1, <2>3, SweepOn, SameFrees
  <2> QED BY <1>1, <1>5, <2>4, ReadAdvances DEF n, g
<1>6. ASSUME NEW v \in q.seen, NEW there \in {v \in array.zvol} \cup {FALSE : e \in Errors(q, "is_lun")},
             Read(p, IF there THEN [q EXCEPT !.seen = @ \ {v}] ELSE [Go(q, "zDetach") EXCEPT !.item = v])
      PROVE  Advances(p)
  <2>1. CASE there
    <3>1. Read(p, [q EXCEPT !.seen = @ \ {v}])
      BY <1>6, <2>1
    <3> QED BY <1>4, <3>1
  <2>2. CASE ~there
    <3>1. Read(p, [Go(q, "zDetach") EXCEPT !.item = v])
      BY <1>6, <2>2
    <3>2. "is_lun" \notin Faults => Errors(q, "is_lun") = {}
      BY DEF Errors
    <3>3. "is_lun" \notin Faults => v \notin array.zvol
      BY <1>6, <2>2, <3>2
    <3> QED BY <1>5, <3>1, <3>3
  <2> QED BY <2>1, <2>2
<1> QED BY <1>3, <1>6 DEF SweepCheck

LEMMA SweepDetachAdvances ==
    ASSUME Types, NEW p \in Proc, SweepDetach(p)
    PROVE  Advances(p)
<1> DEFINE q == pr[p]
           r == detach_target_vol(array, q.from, q.item)
           again == detach_target_vol(r.a, q.from, q.item)
<1>1. /\ Sweeper(q) /\ array \in ArrayType /\ q.at = "zDetach" /\ q.todo \subseteq Own
      /\ q.from \in Target
  BY SweeperWorks DEF SweepDetach, Sweeping
<1>2. q.seen \subseteq Volume
  BY <1>1 DEF Sweeper, Job, Args
<1>3. /\ r.a \in ArrayType /\ again = Ret(r.a, "notfound")
      /\ \A v \in Volume : array.att[v] = None => r.a.att[v] = None
  BY <1>1, detach_target_vol_Effect
<1>4. PICK o \in Answers(q, "detach", r, again) :
          Write(p, o.a, [Go(Felt(q, o.r), "zCheck") EXCEPT !.seen = @ \ {q.item}, !.item = None])
  BY DEF SweepDetach
<1>5. again.a = r.a
  BY <1>3 DEF Ret
<1> HIDE DEF r, again
<1>6. o.a \in ArrayType /\ Frees(o.a)
  BY <1>1, <1>3, <1>4, <1>5, Answer DEF Frees
<1> DEFINE h == Felt(q, o.r)
           g == Go(h, "zCheck")
           i == q.item
           n == [g EXCEPT !.seen = @ \ {i}, !.item = None]
<1>7. h \in RunType /\ h = [q EXCEPT !.errs = h.errs] /\ h.errs \in {q.errs, q.errs + 1}
  BY <1>1, FeltFields DEF Sweeper
<1>8. h.cmd = q.cmd /\ h.vol = q.vol /\ h.todo = q.todo /\ h.from = q.from /\ h.seen = q.seen
  <2> HIDE DEF h
  <2> QED BY <1>1, <1>7 DEF Sweeper, RunType
<1>9. Write(p, o.a, n)
  BY <1>4
<1> HIDE DEF h, i
<1>10. /\ g \in RunType /\ g.at = "zCheck" /\ g.cmd = q.cmd /\ g.vol = q.vol /\ g.errs = h.errs
       /\ g.todo = q.todo /\ g.from = q.from /\ g.seen = q.seen
  <2>1. "zCheck" \in Steps
    BY DEF Steps, Sweeping
  <2> QED BY <1>7, <1>8, <2>1, GoFields
<1> HIDE DEF g
<1>11. /\ n \in RunType /\ n.at = "zCheck" /\ n.cmd = q.cmd /\ n.vol = q.vol /\ n.errs = h.errs
       /\ n.todo = q.todo /\ n.from = q.from /\ n.seen \subseteq Volume
  <2> DEFINE S == q.seen \ {i}
  <2>1. n = [g EXCEPT !.seen = S, !.item = None] /\ S \subseteq Volume /\ S \in SUBSET (Target \cup Volume)
    BY <1>2, <1>10
  <2> HIDE DEF S, n
  <2> QED BY <1>10, <2>1 DEF RunType
<1> HIDE DEF n
<1>12. Job(n) /\ Keeps(q, n, o.a)
  BY <1>1, <1>6, <1>7, <1>11, SweepOn
<1> QED BY <1>6, <1>9, <1>12, WriteAdvances

LEMMA SweepAgainAdvances ==
    ASSUME Types, NEW p \in Proc, SweepAgain(p)
    PROVE  Advances(p)
<1> DEFINE q == pr[p]
<1>1. /\ Sweeper(q) /\ array \in ArrayType /\ q.at = "zAgain" /\ q.todo \subseteq Own
      /\ q.from \in Target
  BY SweeperWorks DEF SweepAgain, Sweeping
<1>2. ASSUME NEW e, Read(p, [Go(Felt(q, e), "zLuns") EXCEPT !.todo = @ \ {q.from}])
      PROVE  Advances(p)
  BY <1>1, <1>2, SweepBack, SameFrees, ReadAdvances
<1>3. CASE Read(p, [Go(q, "zLuns") EXCEPT !.todo = @ \ {q.from}])
  <2>1. Felt(q, "ok") = q
    BY DEF Felt
  <2> QED BY <1>2, <1>3, <2>1
<1>4. CASE On(array, q.from) = {} /\ Read(p, Go(q, "zDrop"))
  <2> DEFINE n == Go(q, "zDrop")
  <2>1. "zDrop" \in Steps
    BY DEF Steps, Sweeping
  <2>2. /\ n \in RunType /\ n.at = "zDrop" /\ n.cmd = q.cmd /\ n.vol = q.vol /\ n.errs = q.errs
        /\ n.todo = q.todo /\ n.from = q.from
    BY <1>1, <2>1, GoFields DEF Sweeper
  <2> HIDE DEF n
  <2>3. Job(n) /\ Keeps(q, n, array)
    BY <1>1, <1>4, <2>2, SweepOn, SameFrees
  <2> QED BY <1>1, <1>4, <2>3, ReadAdvances DEF n
<1> QED BY <1>2, <1>3, <1>4 DEF SweepAgain

LEMMA SweepDropAdvances ==
    ASSUME Types, NEW p \in Proc, SweepDrop(p)
    PROVE  Advances(p)
<1> DEFINE q == pr[p]
           r == delete_target(array, q.from)
           again == delete_target(r.a, q.from)
<1>1. /\ Sweeper(q) /\ array \in ArrayType /\ q.at = "zDrop" /\ q.todo \subseteq Own
      /\ q.from \in Target
  BY SweeperWorks DEF SweepDrop, Sweeping
<1>2. /\ r.a \in ArrayType /\ again = Ret(r.a, "notfound")
      /\ \A v \in Volume : array.att[v] = None => r.a.att[v] = None
  BY <1>1, delete_target_Effect
<1>3. PICK o \in Answers(q, "delete_target", r, again) :
          Write(p, o.a, [Go(Felt(q, o.r), "zLuns") EXCEPT !.todo = @ \ {q.from}])
  BY DEF SweepDrop
<1>4. again.a = r.a
  BY <1>2 DEF Ret
<1> HIDE DEF r, again
<1>5. o.a \in ArrayType /\ Frees(o.a)
  BY <1>1, <1>2, <1>3, <1>4, Answer DEF Frees
<1> QED BY <1>1, <1>3, <1>5, SweepBack, WriteAdvances

-----------------------------------------------------------------------------
(* Deleting a volume.                                                      *)

\* A process that looks for its volume on the targets, and deletes it.
Deleter(q) ==
    /\ Job(q) /\ q \in RunType /\ q.at \in Scanning \cup {"destroy"}
    /\ q.cmd \in {"export", "unexport", "destroy"} /\ q.vol \in Volume

LEMMA DeleterWorks ==
    ASSUME Types, NEW p \in Proc, pr[p].at \in Scanning \cup {"destroy"}
    PROVE  /\ Deleter(pr[p]) /\ array \in ArrayType
           /\ pr[p].at \in {"sDetach", "sDrop", "sGone"} => pr[p].from \in Target
           /\ pr[p].at = "sLuns" => pr[p].todo \subseteq Target
<1>1. Job(pr[p]) /\ pr[p] \in RunType /\ array \in ArrayType
  BY Working
<1> QED BY <1>1 DEF Deleter, Job, Method, Args, Scanning

LEMMA DeleteOn ==
    ASSUME NEW q, Deleter(q), NEW n \in RunType, NEW b,
           n.cmd = q.cmd, n.vol = q.vol, n.res = q.res,
           \/ n.at = "destroy"
           \/ n.at = "sLuns" /\ n.todo \subseteq Target
           \/ n.at = "sDetach" /\ n.from \in Target /\ (~n.only => On(b, n.from) \subseteq {n.vol})
           \/ /\ n.at \in {"sDrop", "sGone"} /\ n.from \in Target
              /\ Fine(q, array) => On(b, n.from) = {}
    PROVE  Job(n) /\ Keeps(q, n, b)
<1>1. Job(n)
  <2>1. Returns(n) /\ Method(n)
    BY DEF Deleter, Returns, Method, Lookups, Publishers, Detaching, Scanning, Sweeping,
           Attaching, Crediting, Choosing
  <2>2. Args(n)
    BY DEF Deleter, Args, Detaching, Scanning, Sweeping, Attaching, Crediting
  <2> QED BY <2>1, <2>2 DEF Job
<1>2. UnusedBy(n, session)
  BY DEF UnusedBy
<1>3. ASSUME Fine(q, array) PROVE Fine(n, b)
  <2>1. Placed(n, b)
    BY <1>3 DEF Fine, Deleter, Placed, Publishers, Lookups, Scanning, Choosing
  <2>2. Removal(n, b)
    BY DEF Removal, Deleter, Sweeping
  <2>3. Emptied(n, b)
    BY <1>3 DEF Emptied
  <2> QED BY <2>1, <2>2, <2>3 DEF Fine
<1> QED BY <1>1, <1>2, <1>3 DEF Keeps

LEMMA DeleteGo ==
    ASSUME NEW q, Deleter(q), NEW e, NEW b, NEW at,
           NEW n, n = Go(Felt(q, e), at),
           \/ at = "destroy"
           \/ at \in {"sDrop", "sGone"} /\ q.from \in Target /\ (Fine(q, array) => On(b, q.from) = {})
    PROVE  Job(n) /\ Keeps(q, n, b)
<1> DEFINE h == Felt(q, e)
<1>1. q \in RunType /\ at \in Steps
  BY DEF Deleter, Steps, Scanning
<1>2. h \in RunType /\ h = [q EXCEPT !.errs = h.errs]
  BY <1>1, FeltFields
<1> HIDE DEF h
<1>3. h.cmd = q.cmd /\ h.vol = q.vol /\ h.res = q.res /\ h.from = q.from
  BY <1>1, <1>2 DEF RunType
<1>4. n = Go(h, at)
  BY DEF h
<1>5. n \in RunType /\ n.at = at /\ n.cmd = q.cmd /\ n.vol = q.vol /\ n.res = q.res /\ n.from = q.from
  BY <1>1, <1>2, <1>3, <1>4, GoFields
<1>6. CASE at = "destroy"
  BY <1>5, <1>6, DeleteOn
<1>7. CASE at \in {"sDrop", "sGone"} /\ q.from \in Target /\ (Fine(q, array) => On(b, q.from) = {})
  <2>1. Fine(q, array) => On(b, n.from) = {}
    BY <1>5, <1>7
  <2>2. n.at \in {"sDrop", "sGone"} /\ n.from \in Target
    BY <1>5, <1>7
  <2> QED BY <1>5, <2>1, <2>2, DeleteOn
<1> QED BY <1>6, <1>7

LEMMA ScanListAdvances ==
    ASSUME Types, NEW p \in Proc, ScanList(p)
    PROVE  Advances(p)
<1> DEFINE q == pr[p]
           T == IF q.cmd = "destroy" THEN array.made \cap Own ELSE array.made
           g == Go(q, "sLuns")
           n == [g EXCEPT !.todo = T]
<1>1. Deleter(q) /\ array \in ArrayType /\ q.at = "sList"
  BY DeleterWorks DEF ScanList, Scanning
<1>2. CASE Refused(p, "list")
  BY <1>2, RefusedAdvances
<1>3. CASE Read(p, n)
  <2>1. "sLuns" \in Steps /\ T \subseteq Target
    BY <1>1, Fields DEF Steps, Scanning
  <2>2. g \in RunType /\ g.at = "sLuns" /\ g.cmd = q.cmd /\ g.vol = q.vol /\ g.res = q.res
    BY <1>1, <2>1, GoFields DEF Deleter
  <2> HIDE DEF g, T
  <2>3. T \in SUBSET (Target \cup User)
    BY <2>1
  <2>4. n \in RunType /\ n.at = "sLuns" /\ n.cmd = q.cmd /\ n.vol = q.vol /\ n.res = q.res /\ n.todo = T
    BY <2>2, <2>3 DEF RunType
  <2> HIDE DEF n
  <2>5. Job(n) /\ Keeps(q, n, array)
    BY <1>1, <2>1, <2>4, DeleteOn
  <2> QED BY <1>1, <1>3, <2>5, ReadAdvances
<1> QED BY <1>2, <1>3 DEF ScanList

LEMMA ScanLunsAdvances ==
    ASSUME Types, NEW p \in Proc, ScanLuns(p)
    PROVE  Advances(p)
<1> DEFINE q == pr[p]
<1>1. Deleter(q) /\ array \in ArrayType /\ q.at = "sLuns" /\ q.todo \subseteq Target
  BY DeleterWorks DEF ScanLuns, Scanning
<1>2. CASE Refused(p, "luns")
  BY <1>2, RefusedAdvances
<1>3. CASE Read(p, Go(q, "destroy"))
  <2>1. Felt(q, "ok") = q
    BY DEF Felt
  <2> QED BY <1>1, <1>3, <2>1, DeleteGo, ReadAdvances
<1>4. ASSUME NEW t \in q.todo, Read(p, [q EXCEPT !.todo = @ \ {t}])
      PROVE  Advances(p)
  <2> DEFINE T == q.todo \ {t}
             n == [q EXCEPT !.todo = @ \ {t}]
  <2>1. n = [q EXCEPT !.todo = T] /\ T \subseteq Target /\ T \in SUBSET (Target \cup User)
    BY <1>1 DEF Deleter, RunType
  <2> HIDE DEF n, T
  <2>2. n \in RunType /\ n.at = "sLuns" /\ n.cmd = q.cmd /\ n.vol = q.vol /\ n.res = q.res /\ n.todo = T
    BY <1>1, <2>1 DEF Deleter, RunType
  <2>3. Job(n) /\ Keeps(q, n, array)
    BY <1>1, <2>1, <2>2, DeleteOn
  <2> QED BY <1>1, <1>4, <2>3, ReadAdvances DEF n
<1>5. ASSUME NEW t \in q.todo,
             Read(p, [Go(q, "sDetach") EXCEPT !.from = t, !.todo = {}, !.tries = 0,
                                              !.only = On(array, t) # {q.vol}])
      PROVE  Advances(p)
  <2> DEFINE g == Go(q, "sDetach")
             m == On(array, t) # {q.vol}
             n == [g EXCEPT !.from = t, !.todo = {}, !.tries = 0, !.only = m]
  <2>1. m \in BOOLEAN /\ t \in Target /\ "sDetach" \in Steps
    BY <1>1 DEF Steps, Scanning
  <2>2. ~m => On(array, t) \subseteq {q.vol}
    OBVIOUS
  <2>3. Read(p, n)
    BY <1>5
  <2> HIDE DEF m
  <2>4. g \in RunType /\ g.at = "sDetach" /\ g.cmd = q.cmd /\ g.vol = q.vol /\ g.res = q.res
    BY <1>1, <2>1, GoFields DEF Deleter
  <2> HIDE DEF g
  <2>5. /\ n \in RunType /\ n.at = "sDetach" /\ n.cmd = q.cmd /\ n.vol = q.vol /\ n.res = q.res
        /\ n.from = t /\ n.only = m
    BY <2>1, <2>4 DEF RunType
  <2> HIDE DEF n
  <2>6. Job(n) /\ Keeps(q, n, array)
    BY <1>1, <2>1, <2>2, <2>5, DeleteOn
  <2> QED BY <1>1, <2>3, <2>6, ReadAdvances
<1> QED BY <1>2, <1>3, <1>4, <1>5 DEF ScanLuns

LEMMA ScanDetachAdvances ==
    ASSUME Types, NEW p \in Proc, ScanDetach(p)
    PROVE  Advances(p)
<1> DEFINE q == pr[p]
           r == detach_target_vol(array, q.from, q.vol)
           again == detach_target_vol(r.a, q.from, q.vol)
<1>1. Deleter(q) /\ array \in ArrayType /\ q.at = "sDetach" /\ q.from \in Target
  BY DeleterWorks DEF ScanDetach, Scanning
<1>2. /\ r.a \in ArrayType /\ r.r \in {"ok", "notfound"} /\ again = Ret(r.a, "notfound")
      /\ \A w \in Volume : r.a.att[w] = array.att[w] \/ (w = q.vol /\ r.a.att[w] = None)
      /\ q.vol \notin On(r.a, q.from)
  BY <1>1, detach_target_vol_Effect
<1>3. On(array, q.from) \subseteq {q.vol} => On(r.a, q.from) = {}
  BY <1>2 DEF On
<1>4. PICK o \in Answers(q, "detach", r, again) :
          Write(p, o.a, IF o.r = "ok" THEN Go(q, IF q.only THEN "destroy" ELSE "sDrop")
                        ELSE Raised(q, o.r))
  BY DEF ScanDetach
<1>5. again.a = r.a /\ again.r = "notfound"
  BY <1>2 DEF Ret
<1> HIDE DEF r, again
<1>6. o.a \in ArrayType /\ (o.r = "ok" => o.a = r.a)
  BY <1>1, <1>2, <1>4, <1>5, Answer
<1>7. Felt(q, "ok") = q
  BY DEF Felt
<1>8. CASE o.r = "ok" /\ q.only
  <2>1. Write(p, o.a, Go(q, "destroy"))
    BY <1>4, <1>8
  <2> QED BY <1>1, <1>6, <1>7, <2>1, DeleteGo, WriteAdvances
<1>9. CASE o.r = "ok" /\ ~q.only
  <2>1. Write(p, o.a, Go(q, "sDrop"))
    BY <1>4, <1>9
  <2>2. Fine(q, array) => On(o.a, q.from) = {}
    BY <1>1, <1>3, <1>6, <1>9 DEF Fine, Emptied
  <2>3. Job(Go(q, "sDrop")) /\ Keeps(q, Go(q, "sDrop"), o.a)
    BY <1>1, <1>7, <2>2, DeleteGo
  <2> QED BY <1>6, <2>1, <2>3, WriteAdvances
<1>10. CASE o.r # "ok"
  <2>1. Write(p, o.a, Raised(q, o.r))
    BY <1>4, <1>10
  <2> QED BY <1>1, <1>6, <2>1, RaisedWriteAdvances DEF Deleter
<1> QED BY <1>8, <1>9, <1>10

LEMMA ScanDropAdvances ==
    ASSUME Types, NEW p \in Proc, ScanDrop(p)
    PROVE  Advances(p)
<1> DEFINE q == pr[p]
           r == delete_target(array, q.from)
           again == delete_target(r.a, q.from)
<1>1. Deleter(q) /\ array \in ArrayType /\ q.at = "sDrop" /\ q.from \in Target
  BY DeleterWorks DEF ScanDrop, Scanning
<1>2. /\ r.a \in ArrayType /\ again = Ret(r.a, "notfound")
      /\ \A v \in Volume : r.a.att[v] = array.att[v] \/ r.a.att[v] = None
  BY <1>1, delete_target_Effect
<1>3. PICK o \in Answers(q, "delete_target", r, again) :
          Write(p, o.a, Go(Felt(q, o.r), IF o.r = "notfound" THEN "destroy" ELSE "sGone"))
  BY DEF ScanDrop
<1>4. again.a = r.a
  BY <1>2 DEF Ret
<1> HIDE DEF r, again
<1>5. o.a \in ArrayType /\ (On(array, q.from) = {} => On(o.a, q.from) = {})
  BY <1>1, <1>2, <1>3, <1>4, Answer DEF On
<1>6. CASE Write(p, o.a, Go(Felt(q, o.r), "destroy"))
  BY <1>1, <1>5, <1>6, DeleteGo, WriteAdvances
<1>7. CASE Write(p, o.a, Go(Felt(q, o.r), "sGone"))
  <2>1. Fine(q, array) => On(o.a, q.from) = {}
    BY <1>1, <1>5 DEF Fine, Emptied, Deleter
  <2> DEFINE n == Go(Felt(q, o.r), "sGone")
  <2>2. Job(n) /\ Keeps(q, n, o.a)
    BY <1>1, <2>1, DeleteGo
  <2> QED BY <1>5, <1>7, <2>2, WriteAdvances
<1> QED BY <1>3, <1>6, <1>7

LEMMA ScanGoneAdvances ==
    ASSUME Types, NEW p \in Proc, ScanGone(p)
    PROVE  Advances(p)
<1> DEFINE q == pr[p]
<1>1. Deleter(q) /\ array \in ArrayType /\ q.at = "sGone" /\ q.from \in Target
  BY DeleterWorks DEF ScanGone, Scanning
<1>2. CASE Refused(p, "get_target")
  BY <1>2, RefusedAdvances
<1>3. CASE Read(p, Go(q, "destroy"))
  <2>1. Felt(q, "ok") = q
    BY DEF Felt
  <2> QED BY <1>1, <1>3, <2>1, DeleteGo, ReadAdvances
<1>4. CASE Read(p, [Go(q, "sDrop") EXCEPT !.tries = @ + 1])
  <2> DEFINE g == Go(q, "sDrop")
             k == g.tries + 1
             n == [g EXCEPT !.tries = @ + 1]
  <2>1. "sDrop" \in Steps
    BY DEF Steps, Scanning
  <2>2. g \in RunType /\ g.at = "sDrop" /\ g.cmd = q.cmd /\ g.vol = q.vol /\ g.res = q.res /\ g.from = q.from
    BY <1>1, <2>1, GoFields DEF Deleter
  <2> HIDE DEF g
  <2>3. n = [g EXCEPT !.tries = k] /\ k \in Nat
    BY <2>2 DEF RunType
  <2> HIDE DEF n, k
  <2>4. /\ n \in RunType /\ n.at = "sDrop" /\ n.cmd = q.cmd /\ n.vol = q.vol /\ n.res = q.res
        /\ n.from = q.from
    BY <2>2, <2>3 DEF RunType
  <2>5. Fine(q, array) => On(array, n.from) = {}
    BY <1>1, <2>4 DEF Fine, Emptied, Deleter
  <2>6. Job(n) /\ Keeps(q, n, array)
    BY <1>1, <2>4, <2>5, DeleteOn
  <2> QED BY <1>1, <1>4, <2>6, ReadAdvances DEF n, g
<1> QED BY <1>2, <1>3, <1>4 DEF ScanGone

LEMMA DestroyAdvances ==
    ASSUME Types, NEW p \in Proc, Destroy(p)
    PROVE  Advances(p)
<1> DEFINE q == pr[p]
<1>1. Deleter(q) /\ array \in ArrayType /\ q.at = "destroy"
  BY DeleterWorks DEF Destroy
<1>2. PICK detach \in BOOLEAN :
        LET r == delete_lun(array, q.vol, detach) IN
        \E o \in Answers(q, "delete_lun", r, delete_lun(r.a, q.vol, detach)) :
           Write(p, o.a, IF o.r \in {"ok", "notfound"} THEN Finish(q, q.res)
                         ELSE Finish(Felt(q, o.r), "failed"))
  BY DEF Destroy
<1> DEFINE r == delete_lun(array, q.vol, detach)
           again == delete_lun(r.a, q.vol, detach)
<1>3. /\ r.a \in ArrayType /\ again = Ret(r.a, "notfound") /\ r.a.zvol = array.zvol \ {q.vol}
  BY <1>1, delete_lun_Effect DEF Deleter
<1>4. PICK o \in Answers(q, "delete_lun", r, again) :
           Write(p, o.a, IF o.r \in {"ok", "notfound"} THEN Finish(q, q.res)
                         ELSE Finish(Felt(q, o.r), "failed"))
  BY <1>2
<1>5. again.a = r.a
  BY <1>3 DEF Ret
<1> HIDE DEF r, again
<1>6. o.a \in ArrayType /\ (o.r \in {"ok", "notfound"} => q.vol \notin o.a.zvol)
  BY <1>1, <1>3, <1>4, <1>5, Answer
<1>7. ASSUME NEW h \in RunType, h.cmd = q.cmd, h.vol = q.vol, NEW x \in Results,
             x = "failed" \/ (x = q.res /\ q.vol \notin o.a.zvol),
             Write(p, o.a, Finish(h, x))
      PROVE  Advances(p)
  <2> DEFINE n == Finish(h, x)
  <2>1. n \in RunType /\ n.at = "done" /\ n.cmd = q.cmd /\ n.vol = q.vol /\ n.res = x
    BY <1>7, FinishFields
  <2> HIDE DEF n
  <2>2. Job(n)
    BY <1>1, <2>1, EndJob DEF Deleter
  <2>3. UnusedBy(n, session)
    BY <2>1 DEF UnusedBy
  <2>4. ASSUME Fine(q, array) PROVE Fine(n, o.a)
    <3>1. q.cmd = "export" => q.res = "failed"
      BY <1>1, <2>4 DEF Fine, Placed
    <3>2. n.cmd = "export" => n.res = "failed"
      BY <1>7, <2>1, <3>1
    <3>3. Placed(n, o.a) /\ Emptied(n, o.a)
      BY <1>1, <2>1, <3>2 DEF Deleter, Placed, Emptied, Publishers, Lookups, Choosing, Scanning
    <3>4. Removal(n, o.a)
      BY <1>1, <1>7, <2>1 DEF Deleter, Removal, Sweeping
    <3> QED BY <3>3, <3>4 DEF Fine
  <2>5. Keeps(q, n, o.a)
    BY <2>3, <2>4 DEF Keeps
  <2> QED BY <1>6, <1>7, <2>2, <2>5, WriteAdvances DEF n
<1>8. CASE o.r \in {"ok", "notfound"}
  <2>1. Write(p, o.a, Finish(q, q.res)) /\ q \in RunType /\ q.res \in Results
    BY <1>1, <1>4, <1>8 DEF Deleter, RunType
  <2> QED BY <1>6, <1>7, <1>8, <2>1
<1>9. CASE o.r \notin {"ok", "notfound"}
  <2> DEFINE h == Felt(q, o.r)
  <2>1. Write(p, o.a, Finish(h, "failed")) /\ "failed" \in Results
    BY <1>4, <1>9 DEF Results
  <2>2. h \in RunType /\ h = [q EXCEPT !.errs = h.errs] /\ q \in RunType
    BY <1>1, FeltFields DEF Deleter
  <2> HIDE DEF h
  <2>3. h.cmd = q.cmd /\ h.vol = q.vol
    BY <2>2 DEF RunType
  <2> QED BY <1>7, <2>1, <2>2, <2>3
<1> QED BY <1>8, <1>9

LEMMA ExitAdvances ==
    ASSUME Types, NEW p \in Proc, Exit(p)
    PROVE  Advances(p)
<1>1. array \in ArrayType
  BY Working
<1>2. Job(NoRun) /\ NoRun.at \in Plain
  BY NoRunIdle DEF Plain
<1>3. Keeps(pr[p], NoRun, array)
  BY <1>2, PlainKeeps
<1> QED BY <1>1, <1>2, <1>3, ReadAdvances DEF Exit

-----------------------------------------------------------------------------
(* The types, and the targets that lookups take volumes from, hold always.  *)

LEMMA StepAdvances ==
    ASSUME Types, NEW p \in Proc, Step(p)
    PROVE  Advances(p)
<1>1. CASE Exists(p) \/ CloneSnapshot(p) \/ Lookup(p) \/ Rehome(p) \/ List(p) \/ SlotOf(p) \/ Pick(p)
  BY <1>1, ExistsAdvances, CloneSnapshotAdvances, LookupAdvances, RehomeAdvances, ListAdvances,
     SlotOfAdvances, PickAdvances
<1>2. CASE VipsNew(p) \/ CreateTarget(p) \/ GetTarget(p) \/ Vips(p) \/ GetLun(p)
  BY <1>2, VipsNewAdvances, CreateTargetAdvances, GetTargetAdvances, VipsAdvances, GetLunAdvances
<1>3. CASE Attach(p) \/ Resolve(p) \/ Confirm(p)
  BY <1>3, AttachAdvances, ResolveAdvances, ConfirmAdvances
<1>4. CASE Users(p) \/ DelUser(p) \/ SetUser(p) \/ DropBad(p) \/ Active(p)
  BY <1>4, UsersAdvances, DelUserAdvances, SetUserAdvances, DropBadAdvances, ActiveAdvances
<1>5. CASE Busy(p) \/ Detach(p) \/ Left(p) \/ Drop(p)
  BY <1>5, BusyAdvances, DetachAdvances, LeftAdvances, DropAdvances
<1>6. CASE Removed(p) \/ SweepList(p) \/ SweepLuns(p) \/ SweepCheck(p) \/ SweepDetach(p)
  BY <1>6, RemovedAdvances, SweepListAdvances, SweepLunsAdvances, SweepCheckAdvances, SweepDetachAdvances
<1>7. CASE SweepAgain(p) \/ SweepDrop(p)
  BY <1>7, SweepAgainAdvances, SweepDropAdvances
<1>8. CASE ScanList(p) \/ ScanLuns(p) \/ ScanDetach(p) \/ ScanDrop(p) \/ ScanGone(p) \/ Destroy(p)
  BY <1>8, ScanListAdvances, ScanLunsAdvances, ScanDetachAdvances, ScanDropAdvances, ScanGoneAdvances,
     DestroyAdvances
<1>9. CASE Exit(p)
  BY <1>9, ExitAdvances
<1> QED BY <1>1, <1>2, <1>3, <1>4, <1>5, <1>6, <1>7, <1>8, <1>9 DEF Step

\* A step of a process, and what it may do to the rest.
LEMMA AdvanceTypes ==
    ASSUME Types, Unused, NEW p \in Proc, NEW n, Job(n), NEW b \in ArrayType, Goes(p, n, b),
           UnusedBy(pr[p], session) => UnusedBy(n, session)
    PROVE  Types' /\ Unused'
<1>1. /\ pr' = [pr EXCEPT ![p] = n] /\ array' = b /\ session' \subseteq session /\ late' = late
      /\ pr \in [Proc -> RunType] /\ n \in RunType
  BY DEF Goes, Types, Job
<1>2. pr' \in [Proc -> RunType] /\ pr'[p] = n /\ \A o \in Proc : o # p => pr'[o] = pr[o]
  BY <1>1
<1>3. \A o \in Proc : Job(pr'[o])
  BY <1>2 DEF Types
<1>4. Types'
  BY <1>1, <1>2, <1>3 DEF Types
<1>5. \A o \in Proc : UnusedBy(pr[o], session)
  BY DEF Unused, UnusedBy
<1>6. \A o \in Proc : UnusedBy(pr'[o], session)
  BY <1>2, <1>5
<1>7. \A o \in Proc : UnusedBy(pr'[o], session')
  BY <1>1, <1>6 DEF UnusedBy
<1>8. Unused'
  BY <1>7 DEF Unused, UnusedBy
<1> QED BY <1>4, <1>8

\* The beginning of a command.
LEMMA BeginJob ==
    ASSUME NEW p \in Proc, NEW c \in Cmds, NEW v \in Volume, NEW u \in Modes \cup {None}, Begin(p, c, v, u)
    PROVE  \E n \in RunType : /\ pr' = [pr EXCEPT ![p] = n] /\ UNCHANGED <<array, session, late>>
                              /\ Job(n) /\ n.at \in Plain /\ n.at # "idle"
<1> DEFINE at == CASE c = "export" -> "clone" [] c = "remove" -> "lookup" [] OTHER -> "exists"
           n == [NoRun EXCEPT !.cmd = c, !.vol = v, !.user = u, !.at = at]
<1>1. c \in Commands /\ u \in User \cup {None} /\ c \notin {"update", "delete"}
  BY TargetsAssumption DEF Begin
<1>2. /\ c = "export" => at = "clone"
      /\ c = "remove" => at = "lookup"
      /\ c \notin {"export", "remove"} => at = "exists"
  OBVIOUS
<1>3. pr' = [pr EXCEPT ![p] = n] /\ UNCHANGED <<array, session, late>>
  BY DEF Begin
<1> HIDE DEF at
<1>4. at \in Steps /\ at \in Plain /\ at # "idle"
  BY <1>2 DEF Steps, Plain
<1>5. n \in RunType /\ n.cmd = c /\ n.vol = v /\ n.user = u /\ n.at = at
  BY <1>1, <1>4, NoRunIdle DEF RunType
<1> HIDE DEF n
<1>6. Job(n)
  <2>1. CASE c = "remove"
    BY <1>2, <1>5, <2>1, LastPartJob
  <2>2. CASE c # "remove"
    BY <1>1, <1>2, <1>5, <2>2 DEF Job, Method, Returns, Args, Commands, Lookups, Publishers, Detaching, Scanning,
       Sweeping, Attaching, Crediting, Choosing
  <2> QED BY <2>1, <2>2
<1> QED BY <1>3, <1>4, <1>5, <1>6

LEMMA BeginTargetJob ==
    ASSUME NEW p \in Proc, NEW c, NEW t \in Own, NEW u \in Modes \cup {None}, BeginTarget(p, c, t, u)
    PROVE  \E n \in RunType : /\ pr' = [pr EXCEPT ![p] = n] /\ UNCHANGED <<array, session, late>>
                              /\ Job(n) /\ UnusedBy(n, session) /\ Fine(n, array)
<1> DEFINE at == IF c = "update" THEN "target" ELSE "drop"
           n == [NoRun EXCEPT !.cmd = c, !.user = u, !.tgt = t, !.from = t, !.at = at]
<1>1. c \in {"update", "delete"} /\ u \in User \cup {None} /\ t \in Target
  BY TargetsAssumption, Indices DEF BeginTarget
<1>2. (c = "update" => at = "target") /\ (c = "delete" => at = "drop") /\ at \in Steps /\ c \in Commands
  BY <1>1 DEF Steps, Detaching, Commands
<1>3. pr' = [pr EXCEPT ![p] = n] /\ UNCHANGED <<array, session, late>>
  BY DEF BeginTarget
<1> HIDE DEF at
<1>4. n \in RunType /\ n.cmd = c /\ n.tgt = t /\ n.from = t /\ n.at = at
  BY <1>1, <1>2, NoRunIdle DEF RunType
<1> HIDE DEF n
<1>5. Job(n)
  BY <1>1, <1>2, <1>4 DEF Job, Method, Returns, Args, Lookups, Publishers, Detaching, Scanning,
     Sweeping, Attaching, Crediting, Choosing
<1>6. UnusedBy(n, session) /\ Fine(n, array)
  BY <1>1, <1>2, <1>4 DEF UnusedBy, Fine, Placed, Removal, Emptied, Lookups, Publishers, Scanning,
     Sweeping, Choosing
<1> QED BY <1>3, <1>4, <1>5, <1>6

LEMMA ServeArray ==
    ASSUME Types, NEW r \in late, Serve(r)
    PROVE  /\ array' \in ArrayType /\ late' \subseteq late /\ UNCHANGED <<session, pr>>
           /\ r.c = "create" => array'.att = array.att /\ array'.zvol = array.zvol
<1>1. array \in ArrayType /\ Pending(r)
  BY DEF Types
<1>2. late' \subseteq late /\ UNCHANGED <<session, pr>>
  BY DEF Serve
<1>3. CASE r.c = "create"
  <2>1. r.t \in Target
    BY <1>1, <1>3 DEF Pending
  <2>2. array' = create_target(array, r.t, r.u).a
    BY <1>3 DEF Serve
  <2> QED BY <1>1, <1>2, <2>1, <2>2, create_target_Effect
<1>4. CASE r.c # "create"
  <2>1. array' = attach_target_vol(array, r.t, r.v, r.l).a /\ r.l \in 0..Luns - 1
    BY <1>1, <1>4 DEF Serve, Pending, RequestType
  <2> QED BY <1>1, <1>2, <1>4, <2>1, attach_target_vol_Effect
<1> QED BY <1>3, <1>4

LEMMA KillRequest ==
    ASSUME Types, NEW p \in Proc, Kill(p)
    PROVE  /\ late' = {Request(pr[p])} /\ Pending(Request(pr[p])) /\ Request(pr[p]).c = pr[p].at
           /\ pr[p].at \in LateCalls
           /\ pr' = [pr EXCEPT ![p] = NoRun] /\ UNCHANGED <<array, session>>
<1> DEFINE q == pr[p]
<1>1. q \in RunType /\ Job(q)
  BY Working
<1>2. q.at = "create" => q.tgt \in Target
  BY <1>1 DEF Job, Args, Attaching
<1>3. Pending(Request(q)) /\ Request(q).c = q.at
  <2> HIDE DEF q
  <2> QED BY <1>1, <1>2 DEF Pending, Request, RequestType, RunType
<1> QED BY <1>3 DEF Kill

LEMMA CreateVolumeArray ==
    ASSUME Types, NEW v \in Volume, CreateVolume(v)
    PROVE  Quiet /\ array' \in ArrayType /\ UNCHANGED <<session, pr, late>>
<1> DEFINE Z == array.zvol \cup {v}
<1>1. array \in ArrayType
  BY DEF Types
<1>2. Z \in SUBSET Volume
  BY <1>1, Fields
<1>3. array' = [array EXCEPT !.zvol = Z] /\ Quiet /\ UNCHANGED <<session, pr, late>>
  BY DEF CreateVolume
<1> HIDE DEF Z
<1> QED BY <1>1, <1>2, <1>3 DEF ArrayType

LEMMA InitTypes ==
    ASSUME Init
    PROVE  Types /\ Unused
<1>1. PICK att \in [Volume \ Clone -> (Foreign \X (0..Luns - 1)) \cup {None}] :
          array = [zvol |-> Volume \ Clone,
                   made |-> {t \in Foreign : \E v \in Volume \ Clone : att[v] # None /\ att[v][1] = t},
                   att |-> [v \in Volume |-> IF v \in Clone THEN None ELSE att[v]],
                   chap |-> [t \in Target |-> FALSE], users |-> [t \in Target |-> {}]]
  BY DEF Init
<1> DEFINE z == Volume \ Clone
           m == {t \in Foreign : \E v \in Volume \ Clone : att[v] # None /\ att[v][1] = t}
           f == [v \in Volume |-> IF v \in Clone THEN None ELSE att[v]]
           c == [t \in Target |-> FALSE]
           u == [t \in Target |-> {}]
<1>2. z \in SUBSET Volume /\ m \in SUBSET Target /\ c \in [Target -> BOOLEAN] /\ u \in [Target -> SUBSET User]
  BY DEF Target
<1>3. f \in [Volume -> Slot \cup {None}]
  <2>1. \A v \in Volume \ Clone : att[v] \in Slot \cup {None}
    BY DEF Slot, Target
  <2> QED BY <2>1
<1>4. array = [zvol |-> z, made |-> m, att |-> f, chap |-> c, users |-> u]
  BY <1>1
<1> HIDE DEF z, m, f, c, u
<1>5. array \in ArrayType
  BY <1>2, <1>3, <1>4, ArrayOf
<1>6. pr = [p \in Proc |-> NoRun] /\ session = {} /\ late = {}
  BY DEF Init
<1>7. \A p \in Proc : pr[p] = NoRun
  BY <1>6
<1>8. Types
  BY <1>5, <1>6, <1>7, NoRunIdle DEF Types
<1>9. Unused
  BY <1>6 DEF Unused
<1> QED BY <1>8, <1>9

LEMMA NextTypes ==
    ASSUME Types, Unused, [Next]_vars
    PROVE  Types' /\ Unused'
<1>1. array \in ArrayType /\ \A p \in Proc : Job(pr[p])
  BY DEF Types
<1>2. ASSUME NEW p \in Proc, Step(p) PROVE Types' /\ Unused'
  <2>1. PICK n \in RunType, b \in ArrayType : Goes(p, n, b) /\ Job(n) /\ Keeps(pr[p], n, b)
    BY <1>2, StepAdvances DEF Advances
  <2> QED BY <2>1, AdvanceTypes DEF Keeps
<1>3. ASSUME NEW p \in Proc, Kill(p) PROVE Types' /\ Unused'
  <2>1. /\ late' = {Request(pr[p])} /\ Pending(Request(pr[p]))
        /\ pr' = [pr EXCEPT ![p] = NoRun] /\ UNCHANGED <<array, session>>
    BY <1>3, KillRequest
  <2>2. pr' \in [Proc -> RunType] /\ \A o \in Proc : pr'[o] \in {NoRun, pr[o]}
    BY <2>1, NoRunIdle DEF Types
  <2>3. Types'
    BY <2>1, <2>2, NoRunIdle DEF Types
  <2>4. Unused'
    BY <2>1, <2>2, NoRunIdle DEF Unused
  <2> QED BY <2>3, <2>4
<1>4. ASSUME NEW p \in Proc, NEW c \in Cmds, NEW u \in Modes \cup {None}, NEW v \in Volume, Begin(p, c, v, u)
      PROVE  Types' /\ Unused'
  <2>1. PICK n \in RunType : /\ pr' = [pr EXCEPT ![p] = n] /\ UNCHANGED <<array, session, late>>
                             /\ Job(n) /\ n.at \in Plain
    BY <1>4, BeginJob
  <2>2. Goes(p, n, array) /\ UnusedBy(n, session)
    BY <2>1 DEF Goes, UnusedBy, Plain
  <2> QED BY <1>1, <2>1, <2>2, AdvanceTypes
<1>5. ASSUME NEW p \in Proc, NEW c \in Cmds, NEW u \in Modes \cup {None}, NEW t \in Own, BeginTarget(p, c, t, u)
      PROVE  Types' /\ Unused'
  <2>1. PICK n \in RunType : /\ pr' = [pr EXCEPT ![p] = n] /\ UNCHANGED <<array, session, late>>
                             /\ Job(n) /\ UnusedBy(n, session)
    BY <1>5, BeginTargetJob
  <2>2. Goes(p, n, array)
    BY <2>1 DEF Goes
  <2> QED BY <1>1, <2>1, <2>2, AdvanceTypes
<1>6. ASSUME NEW r \in late, Serve(r) PROVE Types' /\ Unused'
  <2>1. array' \in ArrayType /\ late' \subseteq late /\ UNCHANGED <<session, pr>>
    BY <1>6, ServeArray
  <2> QED BY <2>1 DEF Types, Unused
<1>7. ASSUME NEW t \in Target, Login(t) \/ Logout(t) PROVE Types' /\ Unused'
  <2>1. Quiet /\ UNCHANGED <<array, pr, late>> /\ session' \subseteq session \cup {t}
    BY <1>7 DEF Login, Logout
  <2>2. Types'
    BY <2>1 DEF Types
  <2>3. Unused'
    BY <2>1 DEF Unused, Quiet
  <2> QED BY <2>2, <2>3
<1>8. ASSUME NEW v \in Volume, CreateVolume(v) PROVE Types' /\ Unused'
  <2>1. array' \in ArrayType /\ UNCHANGED <<session, pr, late>>
    BY <1>8, CreateVolumeArray
  <2> QED BY <2>1 DEF Types, Unused
<1>9. CASE UNCHANGED vars
  BY <1>9 DEF vars, Types, Unused
<1> QED BY <1>2, <1>3, <1>4, <1>5, <1>6, <1>7, <1>8, <1>9 DEF Next

\* The types of the state and of the arguments a process works with, and that
\* a publication or a lookup never takes a volume from a target in use, hold in
\* every reachable state.
THEOREM Invariance == Spec => [](Types /\ Unused)
<1>1. Init => Types /\ Unused
  BY InitTypes
<1>2. Types /\ Unused /\ [Next]_vars => (Types /\ Unused)'
  BY NextTypes
<1> QED BY <1>1, <1>2, PTL DEF Spec

\* The type invariant of the commands and the array.
THEOREM TypeCorrect == Spec => []TypeOK
<1>1. Types => TypeOK
  <2> SUFFICES ASSUME Types PROVE TypeOK
    OBVIOUS
  <2>1. \A p \in Proc : /\ DOMAIN pr[p] = DOMAIN NoRun /\ pr[p].at \in Steps
                        /\ pr[p].vol \in Volume \cup {None} /\ pr[p].tgt \in Target \cup {None}
    <3>1. \A q \in RunType : /\ DOMAIN q = DOMAIN NoRun /\ q.at \in Steps
                             /\ q.vol \in Volume \cup {None} /\ q.tgt \in Target \cup {None}
      BY DEF RunType, NoRun
    <3> QED BY <3>1, Working
  <2>2. Cardinality(late) <= 1
    <3>1. CASE late = {}
      BY <3>1, FS_EmptySet
    <3>2. CASE late # {}
      <4>1. PICK r \in late : TRUE
        BY <3>2
      <4>2. late = {r}
        BY <4>1 DEF Types
      <4>3. Cardinality({r}) = 1
        BY FS_Singleton
      <4> QED BY <4>2, <4>3
    <3> QED BY <3>1, <3>2
  <2> QED BY <2>1, <2>2 DEF Types, TypeOK, ArrayType
<1> QED BY <1>1, Invariance, PTL

-----------------------------------------------------------------------------
(* Which volumes a step takes from their targets.                          *)

\* Process q takes volume v from the target it is on.
Takes(q, v) ==
    \/ q.at \in {"detach", "sDetach"} /\ v = q.vol /\ v \in On(array, q.from)
    \/ q.at = "destroy" /\ v = q.vol
    \/ q.at \in {"drop", "zDrop", "sDrop"} /\ v \in On(array, q.from)
    \/ q.at = "zDetach" /\ v = q.item /\ v \in On(array, q.from)
    \/ q.at = "dropBad"

\* A volume on a target stays there, or the process takes it.
Stays(p, b) == \A v \in Volume : array.att[v] # None => b.att[v] = array.att[v] \/ Takes(pr[p], v)

LEMMA SameStays == ASSUME NEW p, NEW b, b.att = array.att PROVE Stays(p, b)
<1> QED BY DEF Stays

\* The outcomes of a request that is answered, answered again or lost.
LEMMA WrittenStays ==
    ASSUME NEW p, NEW q, NEW c, NEW r, NEW again, Stays(p, r.a), again.a = r.a,
           \E o \in Answers(q, c, r, again) : array' = o.a
    PROVE  Stays(p, array')
<1> QED BY Answer, SameStays

LEMMA DetachStays ==
    ASSUME Types, NEW p \in Proc, Detach(p)
    PROVE  Stays(p, array')
<1> DEFINE q == pr[p]
           r == detach_target_vol(array, q.from, q.vol)
           again == detach_target_vol(r.a, q.from, q.vol)
<1>1. array \in ArrayType /\ q.at = "detach" /\ Job(q)
  BY Working DEF Detach
<1>2. /\ again = Ret(r.a, "notfound")
      /\ \A w \in Volume : r.a.att[w] = array.att[w] \/ (w = q.vol /\ q.vol \in On(array, q.from))
  BY <1>1, detach_target_vol_Effect
<1>3. again.a = r.a
  BY <1>2 DEF Ret
<1>4. Stays(p, r.a)
  BY <1>1, <1>2 DEF Stays, Takes
<1>5. \E o \in Answers(q, "detach", r, again) : array' = o.a
  BY DEF Detach, Write
<1> HIDE DEF r, again
<1> QED BY <1>3, <1>4, <1>5, WrittenStays

LEMMA SweepDetachStays ==
    ASSUME Types, NEW p \in Proc, SweepDetach(p)
    PROVE  Stays(p, array')
<1> DEFINE q == pr[p]
           r == detach_target_vol(array, q.from, q.item)
           again == detach_target_vol(r.a, q.from, q.item)
<1>1. array \in ArrayType /\ q.at = "zDetach" /\ Job(q)
  BY Working DEF SweepDetach
<1>2. /\ again = Ret(r.a, "notfound")
      /\ \A w \in Volume : r.a.att[w] = array.att[w] \/ (w = q.item /\ q.item \in On(array, q.from))
  BY <1>1, detach_target_vol_Effect
<1>3. again.a = r.a
  BY <1>2 DEF Ret
<1>4. Stays(p, r.a)
  BY <1>1, <1>2 DEF Stays, Takes
<1>5. \E o \in Answers(q, "detach", r, again) : array' = o.a
  BY DEF SweepDetach, Write
<1> HIDE DEF r, again
<1> QED BY <1>3, <1>4, <1>5, WrittenStays

LEMMA ScanDetachStays ==
    ASSUME Types, NEW p \in Proc, ScanDetach(p)
    PROVE  Stays(p, array')
<1> DEFINE q == pr[p]
           r == detach_target_vol(array, q.from, q.vol)
           again == detach_target_vol(r.a, q.from, q.vol)
<1>1. array \in ArrayType /\ q.at = "sDetach" /\ Job(q)
  BY Working DEF ScanDetach
<1>2. /\ again = Ret(r.a, "notfound")
      /\ \A w \in Volume : r.a.att[w] = array.att[w] \/ (w = q.vol /\ q.vol \in On(array, q.from))
  BY <1>1, detach_target_vol_Effect
<1>3. again.a = r.a
  BY <1>2 DEF Ret
<1>4. Stays(p, r.a)
  BY <1>1, <1>2 DEF Stays, Takes
<1>5. \E o \in Answers(q, "detach", r, again) : array' = o.a
  BY DEF ScanDetach, Write
<1> HIDE DEF r, again
<1> QED BY <1>3, <1>4, <1>5, WrittenStays

LEMMA DropStays ==
    ASSUME Types, NEW p \in Proc, Drop(p)
    PROVE  Stays(p, array')
<1> DEFINE q == pr[p]
           r == delete_target(array, q.from)
           again == delete_target(r.a, q.from)
<1>1. array \in ArrayType /\ q.at = "drop" /\ Job(q)
  BY Working DEF Drop
<1>2. /\ again = Ret(r.a, "notfound")
      /\ \A w \in Volume : r.a.att[w] = array.att[w] \/ w \in On(array, q.from)
  BY <1>1, delete_target_Effect DEF Job, Args, Detaching
<1>3. again.a = r.a
  BY <1>2 DEF Ret
<1>4. Stays(p, r.a)
  BY <1>1, <1>2 DEF Stays, Takes
<1>5. \E o \in Answers(q, "delete_target", r, again) : array' = o.a
  BY DEF Drop, Write
<1> HIDE DEF r, again
<1> QED BY <1>3, <1>4, <1>5, WrittenStays

LEMMA SweepDropStays ==
    ASSUME Types, NEW p \in Proc, SweepDrop(p)
    PROVE  Stays(p, array')
<1> DEFINE q == pr[p]
           r == delete_target(array, q.from)
           again == delete_target(r.a, q.from)
<1>1. array \in ArrayType /\ q.at = "zDrop" /\ Job(q)
  BY Working DEF SweepDrop
<1>2. /\ again = Ret(r.a, "notfound")
      /\ \A w \in Volume : r.a.att[w] = array.att[w] \/ w \in On(array, q.from)
  BY <1>1, delete_target_Effect DEF Job, Args, Sweeping
<1>3. again.a = r.a
  BY <1>2 DEF Ret
<1>4. Stays(p, r.a)
  BY <1>1, <1>2 DEF Stays, Takes
<1>5. \E o \in Answers(q, "delete_target", r, again) : array' = o.a
  BY DEF SweepDrop, Write
<1> HIDE DEF r, again
<1> QED BY <1>3, <1>4, <1>5, WrittenStays

LEMMA ScanDropStays ==
    ASSUME Types, NEW p \in Proc, ScanDrop(p)
    PROVE  Stays(p, array')
<1> DEFINE q == pr[p]
           r == delete_target(array, q.from)
           again == delete_target(r.a, q.from)
<1>1. array \in ArrayType /\ q.at = "sDrop" /\ Job(q)
  BY Working DEF ScanDrop
<1>2. /\ again = Ret(r.a, "notfound")
      /\ \A w \in Volume : r.a.att[w] = array.att[w] \/ w \in On(array, q.from)
  BY <1>1, delete_target_Effect DEF Job, Args, Scanning
<1>3. again.a = r.a
  BY <1>2 DEF Ret
<1>4. Stays(p, r.a)
  BY <1>1, <1>2 DEF Stays, Takes
<1>5. \E o \in Answers(q, "delete_target", r, again) : array' = o.a
  BY DEF ScanDrop, Write
<1> HIDE DEF r, again
<1> QED BY <1>3, <1>4, <1>5, WrittenStays

LEMMA DropBadStays ==
    ASSUME Types, NEW p \in Proc, DropBad(p)
    PROVE  Stays(p, array')
<1> DEFINE q == pr[p]
           r == delete_target(array, q.tgt)
           again == delete_target(r.a, q.tgt)
<1>1. array \in ArrayType /\ q.at = "dropBad" /\ Job(q)
  BY Working DEF DropBad
<1>2. /\ again = Ret(r.a, "notfound")
      /\ \A w \in Volume : r.a.att[w] = array.att[w] \/ w \in On(array, q.tgt)
  BY <1>1, delete_target_Effect DEF Job, Args, Attaching
<1>3. again.a = r.a
  BY <1>2 DEF Ret
<1>4. Stays(p, r.a)
  BY <1>1, <1>2 DEF Stays, Takes
<1>5. \E o \in Answers(q, "delete_target", r, again) : array' = o.a
  BY DEF DropBad, Write
<1> HIDE DEF r, again
<1> QED BY <1>3, <1>4, <1>5, WrittenStays

LEMMA CloneSnapshotStays ==
    ASSUME Types, NEW p \in Proc, CloneSnapshot(p)
    PROVE  Stays(p, array')
<1> DEFINE q == pr[p]
           r == create_volume_from_snapshot(array, q.vol)
           again == create_volume_from_snapshot(r.a, q.vol)
<1>1. array \in ArrayType /\ q.at = "clone" /\ Job(q)
  BY Working DEF CloneSnapshot
<1>2. r.a.att = array.att /\ again = Ret(r.a, "exists")
  BY <1>1, create_clone_Effect DEF Job, Args, Method
<1>3. again.a = r.a
  BY <1>2 DEF Ret
<1>4. Stays(p, r.a)
  BY <1>1, <1>2 DEF Stays
<1>5. \E o \in Answers(q, "clone", r, again) : array' = o.a
  BY DEF CloneSnapshot, Write
<1> HIDE DEF r, again
<1> QED BY <1>3, <1>4, <1>5, WrittenStays

LEMMA CreateTargetStays ==
    ASSUME Types, NEW p \in Proc, CreateTarget(p)
    PROVE  Stays(p, array')
<1> DEFINE q == pr[p]
           r == create_target(array, q.tgt, q.user)
           again == create_target(r.a, q.tgt, q.user)
<1>1. array \in ArrayType /\ q.at = "create" /\ Job(q)
  BY Working DEF CreateTarget
<1>2. r.a.att = array.att /\ again = Ret(r.a, "exists")
  BY <1>1, create_target_Effect DEF Job, Args, Attaching
<1>3. again.a = r.a
  BY <1>2 DEF Ret
<1>4. Stays(p, r.a)
  BY <1>1, <1>2 DEF Stays
<1>5. \E o \in Answers(q, "create_target", r, again) : array' = o.a
  BY DEF CreateTarget, Write
<1> HIDE DEF r, again
<1> QED BY <1>3, <1>4, <1>5, WrittenStays

LEMMA SetUserStays ==
    ASSUME Types, NEW p \in Proc, SetUser(p)
    PROVE  Stays(p, array')
<1> DEFINE q == pr[p]
           r == create_target_user(array, q.tgt, q.user)
           again == create_target_user(r.a, q.tgt, q.user)
<1>1. array \in ArrayType /\ q.at = "setUser" /\ Job(q)
  BY Working DEF SetUser
<1>2. r.a.att = array.att /\ again = r
  BY <1>1, create_target_user_Effect DEF Job, Args, Crediting
<1>3. again.a = r.a
  BY <1>2 DEF Ret
<1>4. Stays(p, r.a)
  BY <1>1, <1>2 DEF Stays
<1>5. \E o \in Answers(q, "set_user", r, again) : array' = o.a
  BY DEF SetUser, Write
<1> HIDE DEF r, again
<1> QED BY <1>3, <1>4, <1>5, WrittenStays

LEMMA AttachStays ==
    ASSUME Types, NEW p \in Proc, Attach(p)
    PROVE  Stays(p, array')
<1> DEFINE q == pr[p]
           r == attach_target_vol(array, q.tgt, q.vol, q.lun)
           again == attach_target_vol(r.a, q.tgt, q.vol, q.lun)
<1>1. array \in ArrayType /\ q.at = "attach"
  BY Working DEF Attach
<1>2. Publishing(q)
  BY <1>1, PublisherWorks DEF Attaching
<1>3. /\ again.a = r.a
      /\ \A w \in Volume : array.att[w] = None \/ r.a.att[w] = array.att[w]
  BY <1>1, <1>2, attach_target_vol_Effect DEF Publishing
<1>4. Stays(p, r.a)
  BY <1>3 DEF Stays
<1>5. \/ \E o \in Answers(q, "attach", r, again) : array' = o.a
      \/ \E o \in {Ret(array, "blocked") : e \in Errors(q, "blocked")} : array' = o.a
  BY DEF Attach, Write
<1>6. CASE \E o \in Answers(q, "attach", r, again) : array' = o.a
  <2> HIDE DEF r, again
  <2> QED BY <1>3, <1>4, <1>6, WrittenStays
<1>7. CASE \E o \in {Ret(array, "blocked") : e \in Errors(q, "blocked")} : array' = o.a
  BY <1>7, SameStays DEF Ret
<1> QED BY <1>5, <1>6, <1>7

LEMMA DelUserStays ==
    ASSUME Types, NEW p \in Proc, DelUser(p)
    PROVE  Stays(p, array')
<1> DEFINE q == pr[p]
<1>1. Crediter(q) /\ array \in ArrayType
  BY CrediterWorks DEF DelUser
<1>2. PICK u \in q.todo :
         \E o \in Answers(q, "users", delete_target_user(array, q.tgt, u),
                          delete_target_user(delete_target_user(array, q.tgt, u).a, q.tgt, u)) : array' = o.a
  BY DEF DelUser, Write
<1> DEFINE r == delete_target_user(array, q.tgt, u)
           again == delete_target_user(r.a, q.tgt, u)
<1>3. r.a.att = array.att /\ again = Ret(r.a, "notfound")
  BY <1>1, delete_target_user_Effect DEF Crediter
<1>4. again.a = r.a
  BY <1>3 DEF Ret
<1>5. Stays(p, r.a)
  BY <1>3, SameStays
<1> HIDE DEF r, again
<1> QED BY <1>2, <1>4, <1>5, WrittenStays DEF r, again

LEMMA ActiveStays ==
    ASSUME Types, NEW p \in Proc, Active(p)
    PROVE  Stays(p, array')
<1> DEFINE q == pr[p]
           want == q.user # None
           r == set_target_incoming_users_active(array, q.tgt, want)
<1>1. Crediter(q) /\ array \in ArrayType /\ want \in BOOLEAN
  BY CrediterWorks DEF Active
<1>2. r.a.att = array.att
  <2> HIDE DEF want
  <2> QED BY <1>1, set_active_Effect DEF Crediter
<1>3. (array' = array) \/ \E o \in Answers(q, "active", r, r) : array' = o.a
  BY DEF Active, Read, Write
<1>4. Stays(p, r.a) /\ (array' = array => Stays(p, array'))
  BY <1>2, SameStays
<1> HIDE DEF r
<1> QED BY <1>3, <1>4, WrittenStays

LEMMA DestroyStays ==
    ASSUME Types, NEW p \in Proc, Destroy(p)
    PROVE  Stays(p, array')
<1> DEFINE q == pr[p]
<1>1. Deleter(q) /\ array \in ArrayType /\ q.at = "destroy"
  BY DeleterWorks DEF Destroy
<1>2. PICK d \in BOOLEAN :
         \E o \in Answers(q, "delete_lun", delete_lun(array, q.vol, d),
                          delete_lun(delete_lun(array, q.vol, d).a, q.vol, d)) : array' = o.a
  BY DEF Destroy, Write
<1> DEFINE r == delete_lun(array, q.vol, d)
           again == delete_lun(r.a, q.vol, d)
<1>3. again = Ret(r.a, "notfound") /\ \A w \in Volume : w # q.vol => r.a.att[w] = array.att[w]
  BY <1>1, delete_lun_Effect DEF Deleter
<1>4. again.a = r.a
  BY <1>3 DEF Ret
<1>5. Stays(p, r.a)
  BY <1>1, <1>3 DEF Stays, Takes
<1> HIDE DEF r, again
<1> QED BY <1>2, <1>4, <1>5, WrittenStays DEF r, again

\* The steps that only read.
LEMMA ReadStays ==
    ASSUME NEW p \in Proc,
           \/ Exists(p) \/ Lookup(p) \/ Rehome(p) \/ List(p) \/ SlotOf(p) \/ Pick(p)
           \/ VipsNew(p) \/ GetTarget(p) \/ Vips(p) \/ GetLun(p) \/ Resolve(p) \/ Confirm(p)
           \/ Users(p) \/ Busy(p) \/ Left(p) \/ Removed(p)
           \/ SweepList(p) \/ SweepLuns(p) \/ SweepCheck(p) \/ SweepAgain(p)
           \/ ScanList(p) \/ ScanLuns(p) \/ ScanGone(p) \/ Exit(p)
    PROVE  array' = array
<1>1. \A q, c : (Read(p, q) => array' = array) /\ (Refused(p, c) => array' = array)
  BY DEF Read, Refused
<1>2. CASE Exists(p) \/ Lookup(p) \/ Rehome(p) \/ List(p)
  BY <1>1, <1>2, Zenon DEF Exists, Lookup, Rehome, List
<1>3. CASE SlotOf(p) \/ Pick(p) \/ VipsNew(p) \/ GetTarget(p) \/ Vips(p) \/ GetLun(p)
  BY <1>1, <1>3, Zenon DEF SlotOf, Pick, VipsNew, GetTarget, Vips, GetLun
<1>4. CASE Resolve(p) \/ Confirm(p) \/ Users(p) \/ Busy(p) \/ Left(p) \/ Removed(p)
  BY <1>1, <1>4, Zenon DEF Resolve, Confirm, Users, Busy, Left, Removed
<1>5. CASE SweepList(p) \/ SweepLuns(p) \/ SweepCheck(p) \/ SweepAgain(p)
  BY <1>1, <1>5, Zenon DEF SweepList, SweepLuns, SweepCheck, SweepAgain
<1>6. CASE ScanList(p) \/ ScanLuns(p) \/ ScanGone(p) \/ Exit(p)
  BY <1>1, <1>6, Zenon DEF ScanList, ScanLuns, ScanGone, Exit
<1> QED BY <1>2, <1>3, <1>4, <1>5, <1>6

LEMMA StepStays ==
    ASSUME Types, NEW p \in Proc, Step(p)
    PROVE  Stays(p, array')
<1> USE ReadStays, SameStays
<1>1. CASE Exists(p) \/ Lookup(p) \/ Rehome(p) \/ List(p) \/ SlotOf(p) \/ Pick(p)
           \/ VipsNew(p) \/ GetTarget(p) \/ Vips(p) \/ GetLun(p) \/ Resolve(p) \/ Confirm(p)
  BY <1>1
<1>2. CASE Users(p) \/ Busy(p) \/ Left(p) \/ Removed(p)
           \/ SweepList(p) \/ SweepLuns(p) \/ SweepCheck(p) \/ SweepAgain(p)
           \/ ScanList(p) \/ ScanLuns(p) \/ ScanGone(p) \/ Exit(p)
  BY <1>2
<1>3. CASE CloneSnapshot(p) \/ CreateTarget(p) \/ Attach(p) \/ DelUser(p) \/ SetUser(p) \/ DropBad(p) \/ Active(p)
  BY <1>3, CloneSnapshotStays, CreateTargetStays, AttachStays, DelUserStays, SetUserStays, DropBadStays,
     ActiveStays
<1>4. CASE \/ Detach(p) \/ Drop(p) \/ SweepDetach(p) \/ SweepDrop(p)
           \/ ScanDetach(p) \/ ScanDrop(p) \/ Destroy(p)
  BY <1>4, DetachStays, DropStays, SweepDetachStays, SweepDropStays, ScanDetachStays, ScanDropStays, DestroyStays
<1> QED BY <1>1, <1>2, <1>3, <1>4 DEF Step

\* A step of the system that changes process p, and takes a volume from a
\* target, is a step of p that takes it.
LEMMA Taken ==
    ASSUME Types, Next, NEW p \in Proc, pr[p] # pr'[p], NEW v \in Volume,
           array.att[v] # None, array'.att[v] # array.att[v]
    PROVE  Step(p) /\ Takes(pr[p], v)
<1>1. ASSUME NEW o \in Proc, Step(o) PROVE o = p
  <2>1. PICK n, b : Goes(o, n, b)
    BY <1>1, StepAdvances DEF Advances
  <2>2. pr' = [pr EXCEPT ![o] = n] /\ pr \in [Proc -> RunType]
    BY <2>1 DEF Goes, Types
  <2> QED BY <2>2
<1>2. ASSUME NEW o \in Proc, Kill(o) PROVE FALSE
  BY <1>2 DEF Kill
<1>3. ASSUME NEW o \in Proc, NEW c, NEW w, NEW u, Begin(o, c, w, u) \/ BeginTarget(o, c, w, u) PROVE FALSE
  BY <1>3 DEF Begin, BeginTarget
<1>4. ASSUME NEW r \in late, Serve(r) PROVE FALSE
  BY <1>4 DEF Serve
<1>5. ASSUME NEW t \in Target, Login(t) \/ Logout(t) PROVE FALSE
  BY <1>5 DEF Login, Logout
<1>6. ASSUME NEW w \in Volume, CreateVolume(w) PROVE FALSE
  BY <1>6 DEF CreateVolume
<1>7. Step(p)
  BY <1>1, <1>2, <1>3, <1>4, <1>5, <1>6 DEF Next
<1>8. Stays(p, array')
  BY <1>7, StepStays
<1> QED BY <1>7, <1>8 DEF Stays

\* Publications, lookups and changes of credentials take no volume from a
\* target with iSCSI sessions, whatever processes run beside each other,
\* whatever fails, and whatever is executed late.
THEOREM SessionsSafe == Spec => SessionsKept
<1> DEFINE A == \A p \in Proc, v \in Volume :
          /\ pr[p] # pr'[p] /\ pr[p].cmd \in {"create", "get", "getCurrent", "update"}
          /\ pr[p].at # "dropBad" /\ array.att[v] # None /\ array.att[v][1] \in session
          => array'.att[v] = array.att[v]
<1>1. Types /\ Unused /\ [Next]_vars => [A]_vars
  <2> SUFFICES ASSUME Types, Unused, Next, NEW p \in Proc, NEW v \in Volume,
                      pr[p] # pr'[p], pr[p].cmd \in {"create", "get", "getCurrent", "update"},
                      pr[p].at # "dropBad", array.att[v] # None, array.att[v][1] \in session,
                      array'.att[v] # array.att[v]
               PROVE  FALSE
    OBVIOUS
  <2> DEFINE q == pr[p]
  <2>1. Takes(q, v)
    BY Taken
  <2>2. Method(q) /\ UnusedBy(q, session)
    BY Working DEF Job, Unused, UnusedBy
  <2>3. q.at \notin {"destroy", "sDetach", "sDrop", "zDrop", "zDetach"}
    BY <2>2 DEF Method, Scanning, Sweeping
  <2>4. q.at \in {"detach", "drop"} /\ v \in On(array, q.from)
    BY <2>1, <2>3 DEF Takes
  <2>5. q.cmd \in Lookups
    BY <2>2, <2>4 DEF Method, Lookups
  <2>6. q.from \notin session
    BY <2>2, <2>4, <2>5 DEF UnusedBy
  <2> QED BY <2>4, <2>6 DEF On
<1>2. SessionsKept <=> [][A]_vars
  BY DEF SessionsKept
<1> QED BY <1>1, <1>2, Invariance, PTL DEF Spec

-----------------------------------------------------------------------------
(* One command after the other, as the locks of the plugin see to it, with  *)
(* no request of a killed command but a target creation to come, and with   *)
(* is_lun right: what a command knows of its volume stays true.             *)

Sequential == Overlap = {} /\ LateCalls \subseteq {"create"} /\ "is_lun" \notin Faults

Orderly == Types /\ Unused /\ Alone /\ OnlyCreates /\ Sound

LEMMA StepWorks ==
    ASSUME NEW p \in Proc, Step(p)
    PROVE  pr[p].at # "idle"
<1>1. CASE \/ Exists(p) \/ CloneSnapshot(p) \/ Lookup(p) \/ Rehome(p) \/ List(p) \/ SlotOf(p) \/ Pick(p)
           \/ VipsNew(p) \/ CreateTarget(p) \/ GetTarget(p) \/ Vips(p) \/ GetLun(p)
           \/ Attach(p) \/ Resolve(p) \/ Confirm(p)
  BY <1>1 DEF Exists, CloneSnapshot, Lookup, Rehome, List, SlotOf, Pick, VipsNew, CreateTarget, GetTarget,
              Vips, GetLun, Attach, Resolve, Confirm
<1>2. CASE \/ Users(p) \/ DelUser(p) \/ SetUser(p) \/ DropBad(p) \/ Active(p)
           \/ Busy(p) \/ Detach(p) \/ Left(p) \/ Drop(p)
  BY <1>2 DEF Users, DelUser, SetUser, DropBad, Active, Busy, Detach, Left, Drop
<1>3. CASE \/ Removed(p) \/ SweepList(p) \/ SweepLuns(p) \/ SweepCheck(p) \/ SweepDetach(p)
           \/ SweepAgain(p) \/ SweepDrop(p)
  BY <1>3 DEF Removed, SweepList, SweepLuns, SweepCheck, SweepDetach, SweepAgain, SweepDrop
<1>4. CASE ScanList(p) \/ ScanLuns(p) \/ ScanDetach(p) \/ ScanDrop(p) \/ ScanGone(p) \/ Destroy(p) \/ Exit(p)
  BY <1>4 DEF ScanList, ScanLuns, ScanDetach, ScanDrop, ScanGone, Destroy, Exit
<1> QED BY <1>1, <1>2, <1>3, <1>4 DEF Step

\* Of a step that claims nothing, nothing can be wrong.
LEMMA PlainFine ==
    ASSUME NEW n, NEW b, n.at \in Plain
    PROVE  Fine(n, b)
<1> QED BY DEF Fine, Placed, Removal, Emptied, Plain, Scanning, Sweeping, Choosing

LEMMA FineSame ==
    ASSUME NEW q, NEW a, NEW b, b.att = a.att, b.zvol = a.zvol, Fine(q, a)
    PROVE  Fine(q, b)
<1>1. \A t : On(b, t) = On(a, t)
  BY DEF On
<1> QED BY <1>1 DEF Fine, Placed, Removal, Emptied

LEMMA SoundFine == Sound <=> \A p \in Proc : Fine(pr[p], array)
<1> QED BY DEF Sound, Fine

\* One process goes on while the others are idle.
LEMMA OneOrderly ==
    ASSUME Types, NEW p \in Proc, \A o \in Proc : o # p => pr[o].at = "idle",
           NEW n \in RunType, pr' = [pr EXCEPT ![p] = n], Fine(n, array')
    PROVE  Alone' /\ Sound'
<1>1. pr \in [Proc -> RunType]
  BY DEF Types
<1>2. pr'[p] = n /\ \A o \in Proc : o # p => pr'[o] = pr[o]
  BY <1>1
<1>3. \A o \in Proc : o # p => pr'[o].at = "idle"
  BY <1>2
<1>4. Alone'
  BY <1>3 DEF Alone
<1>5. \A o \in Proc : Fine(pr'[o], array')
  <2>1. "idle" \in Plain
    BY DEF Plain
  <2> QED BY <1>2, <1>3, <2>1, PlainFine
<1>6. Sound'
  BY <1>5 DEF Sound, Fine
<1> QED BY <1>4, <1>6

LEMMA InitOrderly ==
    ASSUME Init
    PROVE  Orderly
<1>1. Types /\ Unused
  BY InitTypes
<1>2. \A p \in Proc : pr[p] = NoRun
  BY DEF Init
<1>3. NoRun.at = "idle" /\ "idle" \in Plain
  BY NoRunIdle DEF Plain
<1>4. Alone
  BY <1>2, <1>3 DEF Alone
<1>5. OnlyCreates
  BY DEF Init, OnlyCreates
<1>6. Sound
  BY <1>2, <1>3, PlainFine, SoundFine
<1> QED BY <1>1, <1>4, <1>5, <1>6 DEF Orderly

LEMMA NextOrderly ==
    ASSUME Sequential, Orderly, [Next]_vars
    PROVE  Orderly'
<1>1. Types /\ Unused /\ Alone /\ OnlyCreates /\ Sound
  BY DEF Orderly
<1>2. Types' /\ Unused'
  BY <1>1, NextTypes
<1>3. array \in ArrayType /\ \A p \in Proc : Fine(pr[p], array)
  BY <1>1, SoundFine DEF Types
<1> SUFFICES Alone' /\ OnlyCreates' /\ Sound'
  BY <1>2 DEF Orderly
<1>4. ASSUME NEW p \in Proc, Step(p) PROVE Alone' /\ OnlyCreates' /\ Sound'
  <2>1. PICK n \in RunType, b \in ArrayType : Goes(p, n, b) /\ Job(n) /\ Keeps(pr[p], n, b)
    BY <1>1, <1>4, StepAdvances DEF Advances
  <2>2. Fine(n, b)
    BY <1>3, <2>1 DEF Keeps, Sequential
  <2>3. pr' = [pr EXCEPT ![p] = n] /\ array' = b /\ late' = late
    BY <2>1 DEF Goes
  <2>4. \A o \in Proc : o # p => pr[o].at = "idle"
    BY <1>1, <1>4, StepWorks DEF Alone
  <2>5. Alone' /\ Sound'
    BY <1>1, <2>2, <2>3, <2>4, OneOrderly
  <2> QED BY <1>1, <2>3, <2>5 DEF OnlyCreates
<1>5. ASSUME NEW p \in Proc, Kill(p) PROVE Alone' /\ OnlyCreates' /\ Sound'
  <2>1. /\ late' = {Request(pr[p])} /\ Request(pr[p]).c = pr[p].at /\ pr[p].at \in LateCalls
        /\ pr' = [pr EXCEPT ![p] = NoRun] /\ array' = array
    BY <1>1, <1>5, KillRequest
  <2>2. pr[p].at = "create"
    BY <2>1 DEF Sequential
  <2>3. \A o \in Proc : o # p => pr[o].at = "idle"
    BY <1>1, <2>2 DEF Alone
  <2>4. NoRun \in RunType /\ Fine(NoRun, array')
    BY NoRunIdle, PlainFine DEF Plain
  <2>5. Alone' /\ Sound'
    BY <1>1, <2>1, <2>3, <2>4, OneOrderly
  <2> QED BY <2>1, <2>2, <2>5 DEF OnlyCreates
<1>6. ASSUME NEW p \in Proc, NEW c \in Cmds, NEW u \in Modes \cup {None}, NEW v \in Volume, Begin(p, c, v, u)
      PROVE  Alone' /\ OnlyCreates' /\ Sound'
  <2>1. PICK n \in RunType : /\ pr' = [pr EXCEPT ![p] = n] /\ UNCHANGED <<array, session, late>>
                             /\ Job(n) /\ n.at \in Plain
    BY <1>6, BeginJob
  <2>2. \A o \in Proc : pr[o].at = "idle"
    BY <1>6 DEF Begin, Sequential
  <2>3. Fine(n, array')
    BY <2>1, PlainFine
  <2>4. Alone' /\ Sound'
    BY <1>1, <2>1, <2>2, <2>3, OneOrderly
  <2> QED BY <1>1, <2>1, <2>4 DEF OnlyCreates
<1>7. ASSUME NEW p \in Proc, NEW c \in Cmds, NEW u \in Modes \cup {None}, NEW t \in Own, BeginTarget(p, c, t, u)
      PROVE  Alone' /\ OnlyCreates' /\ Sound'
  <2>1. PICK n \in RunType : /\ pr' = [pr EXCEPT ![p] = n] /\ UNCHANGED <<array, session, late>>
                             /\ Job(n) /\ UnusedBy(n, session) /\ Fine(n, array)
    BY <1>7, BeginTargetJob
  <2>2. \A o \in Proc : pr[o].at = "idle"
    BY <1>7 DEF BeginTarget, Quiet
  <2>3. Alone' /\ Sound'
    BY <1>1, <2>1, <2>2, OneOrderly
  <2> QED BY <1>1, <2>1, <2>3 DEF OnlyCreates
<1>8. ASSUME NEW r \in late, Serve(r) PROVE Alone' /\ OnlyCreates' /\ Sound'
  <2>1. r.c = "create"
    BY <1>1 DEF OnlyCreates
  <2>2. late' \subseteq late /\ pr' = pr /\ array'.att = array.att /\ array'.zvol = array.zvol
    BY <1>1, <1>8, <2>1, ServeArray
  <2>3. \A p \in Proc : Fine(pr[p], array')
    BY <1>3, <2>2, FineSame
  <2> QED BY <1>1, <2>2, <2>3 DEF Alone, OnlyCreates, Sound, Fine
<1>9. ASSUME NEW t \in Target, Login(t) \/ Logout(t) PROVE Alone' /\ OnlyCreates' /\ Sound'
  <2>1. UNCHANGED <<array, pr, late>>
    BY <1>9 DEF Login, Logout
  <2> QED BY <1>1, <2>1 DEF Alone, OnlyCreates, Sound
<1>10. ASSUME NEW v \in Volume, CreateVolume(v) PROVE Alone' /\ OnlyCreates' /\ Sound'
  <2>1. Quiet /\ UNCHANGED <<session, pr, late>>
    BY <1>1, <1>10, CreateVolumeArray
  <2>2. \A p \in Proc : pr[p].at \in Plain
    BY <2>1 DEF Quiet, Plain
  <2>3. \A p \in Proc : Fine(pr[p], array')
    BY <2>2, PlainFine
  <2> QED BY <1>1, <2>1, <2>3 DEF Alone, OnlyCreates, Sound, Fine
<1>11. CASE UNCHANGED vars
  BY <1>1, <1>11 DEF vars, Alone, OnlyCreates, Sound
<1> QED BY <1>4, <1>5, <1>6, <1>7, <1>8, <1>9, <1>10, <1>11 DEF Next

\* What a command knows of its volume and of its target stays true.
THEOREM SequentialInvariance == ASSUME Sequential PROVE Spec => []Orderly
<1>1. Init => Orderly
  BY InitOrderly
<1>2. Orderly /\ [Next]_vars => Orderly'
  BY NextOrderly
<1> QED BY <1>1, <1>2, PTL DEF Spec

\* The target and LUN that a publication returns are those of the volume,
\* whatever failed, was resent or was executed late on the way.
THEOREM PublishedWhereAnswered == ASSUME Sequential PROVE Spec => []AnswerHolds
<1>1. Orderly => AnswerHolds
  BY DEF Orderly, Sound, Placed, AnswerHolds, Ended, Publishers
<1> QED BY <1>1, SequentialInvariance, PTL

\* An unpublication that met no failure leaves no LUN, and no clone.
THEOREM RemovalComplete == ASSUME Sequential PROVE Spec => []RemoveCompletes
<1>1. Orderly => RemoveCompletes
  BY DEF Orderly, Sound, Removal, RemoveCompletes, Ended
<1> QED BY <1>1, SequentialInvariance, PTL

\* No command takes the LUN of a volume that exists and is not its own.
THEOREM OthersUntouched == ASSUME Sequential PROVE Spec => OthersStay
<1> DEFINE A == \A p \in Proc, v \in Volume :
          /\ pr[p] # pr'[p] /\ pr[p].at # "dropBad" /\ pr[p].cmd # "delete"
          /\ pr[p].vol # v /\ v \in array.zvol /\ array.att[v] # None
          => array'.att[v] = array.att[v]
<1>1. Orderly /\ [Next]_vars => [A]_vars
  <2> SUFFICES ASSUME Orderly, Next, NEW p \in Proc, NEW v \in Volume,
                      pr[p] # pr'[p], pr[p].at # "dropBad", pr[p].cmd # "delete",
                      pr[p].vol # v, v \in array.zvol, array.att[v] # None,
                      array'.att[v] # array.att[v]
               PROVE  FALSE
    OBVIOUS
  <2> DEFINE q == pr[p]
  <2>1. Types /\ Emptied(q, array)
    BY DEF Orderly, Sound
  <2>2. Takes(q, v)
    BY <2>1, Taken
  <2>3. CASE q.at \in {"drop", "zDrop", "sDrop"} /\ v \in On(array, q.from)
    BY <2>1, <2>3 DEF Emptied
  <2>4. CASE q.at = "zDetach" /\ v = q.item
    BY <2>1, <2>4 DEF Emptied
  <2> QED BY <2>2, <2>3, <2>4 DEF Takes
<1>2. OthersStay <=> [][A]_vars
  BY DEF OthersStay
<1> QED BY <1>1, <1>2, SequentialInvariance, PTL DEF Spec

-----------------------------------------------------------------------------
(* The credentials of the targets.                                         *)

\* A target that is not there has no users, and no target has two.
FewUsers(a) ==
    \A t \in Target : /\ t \notin a.made => a.users[t] = {}
                      /\ \A x, y \in a.users[t] : x = y

\* A target as create_target leaves it.
New(a, t, u) == a.users[t] = {} /\ a.chap[t] = (u # None)

\* The LUN the command works towards is another volume's.
Vain(q, a) == a.att[q.vol] = None /\ q.lun \in LunsOf(a, q.tgt)

Placing == {"vipsNew", "create", "attach", "resolve", "confirm"}

\* What a publication knows of the target it has chosen.
Chosen(q, a) ==
    /\ q.at \in {"slot", "pick"} =>
          /\ q.seen \subseteq a.made /\ (q.at = "pick" => q.todo = {})
          /\ \A t \in q.seen \ q.todo : 0 \in LunsOf(a, t)
          /\ \A t \in (a.made \cap Own) \ q.seen : New(a, t, q.user)
    /\ q.at \in Placing \ {"confirm"} => a.att[q.vol] \in {None, <<q.tgt, q.lun>>}
    /\ q.at \in {"vipsNew", "create"} => q.fresh
    /\ q.at \in {"target", "vips", "getLun"} => ~q.fresh
    /\ q.at \in {"attach", "resolve", "confirm"} => q.tgt \in a.made
    /\ q.at \in Placing /\ q.fresh /\ q.tgt \in a.made => New(a, q.tgt, q.user) \/ Vain(q, a)
    /\ q.at \in {"vips", "getLun", "attach", "resolve", "confirm"} /\ ~q.fresh
          => q.tgt \in a.made /\ q.flag = a.chap[q.tgt]
    /\ q.at # "busy" /\ (q.at \in {"detach", "left", "drop"} => q.back = "list")

\* What is known of the credentials of the target.
Credits(q, a) ==
    /\ q.at = "target" => ~q.fresh
    /\ q.at \in Crediting \ {"target"} => q.tgt \in a.made
    /\ q.at \in {"users", "delUser", "active"} => ~q.fresh
    /\ q.at \in Crediting \ {"target"} /\ ~q.fresh =>
          IF q.user = None /\ q.at # "active" THEN ~a.chap[q.tgt] ELSE q.flag = a.chap[q.tgt]
    /\ q.at = "delUser" => q.todo = a.users[q.tgt]
    /\ q.at = "setUser" => a.users[q.tgt] = {} /\ (q.fresh => a.chap[q.tgt])
    /\ q.at = "active" /\ q.user # None => a.users[q.tgt] = {q.user}
    /\ q.at = "done" /\ q.res = "ok" =>
          /\ q.tgt \in a.made
          /\ a.users[q.tgt] = {q.user} \ {None} /\ a.chap[q.tgt] = (q.user # None)

Chapped(q, a) ==
    /\ q.cmd \in Publishers => Chosen(q, a)
    /\ q.cmd \in Publishers \cup {"update"} => Credits(q, a)

\* What a step has to show.
Chaps(p) == FewUsers(array') /\ Chapped(pr'[p], array')

\* What the step of a process may rely on.
Ready(p) == Types /\ Fine(pr[p], array) /\ FewUsers(array) /\ Chapped(pr[p], array)

-----------------------------------------------------------------------------
(* The REST calls and the CHAP settings.                                   *)

Settings(a, b) == b.made = a.made /\ b.users = a.users /\ b.chap = a.chap

LEMMA SettingsFew == ASSUME NEW a, NEW b, Settings(a, b), FewUsers(a) PROVE FewUsers(b)
<1> QED BY DEF Settings, FewUsers

LEMMA VolumeSettings ==
    ASSUME NEW a \in ArrayType, NEW t, NEW v, NEW l, NEW d
    PROVE  /\ Settings(a, attach_target_vol(a, t, v, l).a)
           /\ Settings(a, detach_target_vol(a, t, v).a)
           /\ Settings(a, create_volume_from_snapshot(a, v).a)
           /\ Settings(a, delete_lun(a, v, d).a)
<1> USE DEF Settings, Ret, ArrayType
<1>1. Settings(a, attach_target_vol(a, t, v, l).a)
  BY DEF attach_target_vol
<1>2. Settings(a, detach_target_vol(a, t, v).a)
  BY DEF detach_target_vol
<1>3. Settings(a, create_volume_from_snapshot(a, v).a)
  BY DEF create_volume_from_snapshot
<1>4. Settings(a, delete_lun(a, v, d).a)
  <2> DEFINE x == IF d THEN None ELSE a.att[v]
  <2>1. delete_lun(a, v, d).a \in {a, [a EXCEPT !.zvol = @ \ {v}, !.att[v] = x]}
    BY DEF delete_lun
  <2> HIDE DEF x
  <2> QED BY <2>1
<1> QED BY <1>1, <1>2, <1>3, <1>4

LEMMA create_target_Chap ==
    ASSUME NEW a \in ArrayType, NEW t \in Target, NEW u, NEW b, b = create_target(a, t, u).a
    PROVE  /\ b.made = a.made \cup {t} /\ b.users = a.users
           /\ \A s \in Target : s # t \/ t \in a.made => b.chap[s] = a.chap[s]
           /\ t \notin a.made => b.chap[t] = (u # None)
           /\ FewUsers(a) => FewUsers(b)
           /\ FewUsers(a) /\ t \notin a.made => New(b, t, u)
<1>1. CASE t \in a.made
  BY <1>1 DEF create_target, Ret
<1>2. CASE t \notin a.made
  <2> DEFINE c == u # None
  <2>1. b = [a EXCEPT !.made = @ \cup {t}, !.chap[t] = c]
    BY <1>2 DEF create_target, Ret
  <2> HIDE DEF c
  <2>2. b.made = a.made \cup {t} /\ b.users = a.users /\ b.chap = [a.chap EXCEPT ![t] = c]
    BY <2>1 DEF ArrayType
  <2>3. (\A s \in Target : s # t => b.chap[s] = a.chap[s]) /\ b.chap[t] = c
    BY <2>2 DEF ArrayType
  <2> QED BY <1>2, <2>2, <2>3 DEF FewUsers, New, c
<1> QED BY <1>1, <1>2

LEMMA delete_target_Chap ==
    ASSUME NEW a \in ArrayType, NEW t \in Target, FewUsers(a)
    PROVE  FewUsers(delete_target(a, t).a)
<1> DEFINE b == delete_target(a, t).a
           f == [v \in Volume |-> IF v \in On(a, t) THEN None ELSE a.att[v]]
<1>1. CASE t \in a.made
  <2>1. b = [a EXCEPT !.made = @ \ {t}, !.chap[t] = FALSE, !.users[t] = {}, !.att = f]
    BY <1>1 DEF delete_target, Ret
  <2> HIDE DEF b, f
  <2>2. b.made = a.made \ {t} /\ b.users = [a.users EXCEPT ![t] = {}]
    BY <2>1 DEF ArrayType
  <2> QED BY <2>2 DEF FewUsers, ArrayType, b
<1>2. CASE t \notin a.made
  BY <1>2 DEF delete_target, Ret
<1> QED BY <1>1, <1>2

LEMMA create_target_user_Chap ==
    ASSUME NEW a \in ArrayType, NEW t \in Target, NEW u, NEW r, r = create_target_user(a, t, u)
    PROVE  /\ r.r = "ok" => r.a.users[t] = a.users[t] \cup {u}
           /\ FewUsers(a) /\ a.users[t] = {} => FewUsers(r.a)
<1>1. CASE t \notin a.made
  BY <1>1 DEF create_target_user, Ret
<1>2. CASE t \in a.made
  <2>1. r.a = [a EXCEPT !.users[t] = @ \cup {u}]
    BY <1>2 DEF create_target_user, Ret
  <2>2. r.a.made = a.made /\ r.a.users[t] = a.users[t] \cup {u}
        /\ \A s \in Target : s # t => r.a.users[s] = a.users[s]
    BY <2>1 DEF ArrayType
  <2> QED BY <1>2, <2>2 DEF FewUsers
<1> QED BY <1>1, <1>2

LEMMA delete_target_user_Chap ==
    ASSUME NEW a \in ArrayType, NEW t \in Target, NEW u, NEW r, r = delete_target_user(a, t, u)
    PROVE  /\ u \in a.users[t] => r.r = "ok"
           /\ r.a.users[t] = a.users[t] \ {u}
           /\ FewUsers(a) => FewUsers(r.a)
<1>1. CASE u \notin a.users[t]
  <2>1. a.users[t] \ {u} = a.users[t]
    BY <1>1
  <2> QED BY <1>1, <2>1 DEF delete_target_user, Ret
<1>2. CASE u \in a.users[t]
  <2>1. r.a = [a EXCEPT !.users[t] = @ \ {u}] /\ r.r = "ok"
    BY <1>2 DEF delete_target_user, Ret
  <2>2. r.a.made = a.made /\ r.a.users[t] = a.users[t] \ {u}
        /\ \A s \in Target : s # t => r.a.users[s] = a.users[s]
    BY <2>1 DEF ArrayType
  <2> QED BY <2>1, <2>2 DEF FewUsers
<1> QED BY <1>1, <1>2

LEMMA set_active_Chap ==
    ASSUME NEW a \in ArrayType, NEW t \in Target, NEW c \in BOOLEAN,
           NEW r, r = set_target_incoming_users_active(a, t, c)
    PROVE  /\ r.a.users = a.users /\ r.a.made = a.made
           /\ r.r = "ok" => r.a.chap[t] = c
<1>1. CASE t \notin a.made
  BY <1>1 DEF set_target_incoming_users_active, Ret
<1>2. CASE t \in a.made
  <2>1. r.a = [a EXCEPT !.chap[t] = c]
    BY <1>2 DEF set_target_incoming_users_active, Ret
  <2> QED BY <2>1 DEF ArrayType
<1> QED BY <1>1, <1>2

-----------------------------------------------------------------------------
LEMMA ReadChaps ==
    ASSUME NEW p \in Proc, Ready(p), NEW n, Read(p, n), Chapped(n, array)
    PROVE  Chaps(p)
<1>1. pr'[p] = n /\ array' = array
  BY DEF Read, Ready, Types
<1> QED BY <1>1 DEF Chaps, Ready

LEMMA WriteChaps ==
    ASSUME NEW p \in Proc, Ready(p), NEW n, NEW b, Write(p, b, n), FewUsers(b), Chapped(n, b)
    PROVE  Chaps(p)
<1>1. pr'[p] = n /\ array' = b
  BY DEF Write, Ready, Types
<1> QED BY <1>1 DEF Chaps

Claiming == {"slot", "pick", "target", "vips", "getLun", "busy", "detach", "left", "drop"}
            \cup Placing \cup Crediting

\* Where nothing is claimed of the credentials, nothing can be wrong.
LEMMA UnclaimedChapped ==
    ASSUME NEW n, NEW b, n.at \notin Claiming,
           n.at = "done" /\ n.cmd \in Publishers \cup {"update"} => n.res # "ok"
    PROVE  Chapped(n, b)
<1>1. Chosen(n, b)
  BY DEF Claiming, Chosen, Placing
<1>2. n.cmd \in Publishers \cup {"update"} => Credits(n, b)
  BY DEF Claiming, Credits, Crediting
<1> QED BY <1>1, <1>2 DEF Chapped

LEMMA OthersChapped ==
    ASSUME NEW n, NEW b, n.cmd \notin Publishers \cup {"update"}
    PROVE  Chapped(n, b)
<1> QED BY DEF Chapped

LEMMA RaisedChapped ==
    ASSUME NEW q, Job(q), NEW e, NEW b
    PROVE  Chapped(Raised(q, e), b)
<1> DEFINE n == Raised(q, e)
<1>1. Handled(q, e, n)
  BY RaisedHandled
<1> HIDE DEF n
<1>2. n.at \notin Claiming /\ (n.at = "done" => n.res # "ok")
  BY <1>1 DEF Handled, Claiming, Placing, Crediting
<1> QED BY <1>2, UnclaimedChapped DEF n

LEMMA RefusedChaps ==
    ASSUME NEW p \in Proc, Ready(p), NEW c, Refused(p, c)
    PROVE  Chaps(p)
<1>1. Job(pr[p])
  BY Working DEF Ready
<1> QED BY <1>1, RaisedChapped, ReadChaps DEF Refused

LEMMA ReadyWorks ==
    ASSUME NEW p \in Proc, Ready(p)
    PROVE  /\ Job(pr[p]) /\ pr[p] \in RunType /\ array \in ArrayType /\ FewUsers(array)
           /\ Chapped(pr[p], array) /\ Placed(pr[p], array)
<1> QED BY Working DEF Ready, Fine

\* A request that leaves the settings alone, or is a failure.
LEMMA FailedChaps ==
    ASSUME NEW p \in Proc, Ready(p), NEW b, FewUsers(b), NEW e, Write(p, b, Raised(pr[p], e))
    PROVE  Chaps(p)
<1> QED BY ReadyWorks, RaisedChapped, WriteChaps

LEMMA ExistsChaps == ASSUME NEW p \in Proc, Ready(p), Exists(p) PROVE Chaps(p)
<1> DEFINE q == pr[p]
<1>1. q \in RunType /\ q.at = "exists" /\ Job(q)
  BY ReadyWorks DEF Exists
<1>2. q.cmd \in {"create", "get", "getCurrent", "unexport", "destroy"}
  BY <1>1 DEF Job, Method
<1>3. CASE Read(p, Go(q, IF q.cmd = "destroy" THEN "sList" ELSE "lookup"))
  <2> DEFINE at == IF q.cmd = "destroy" THEN "sList" ELSE "lookup"
             n == Go(q, at)
  <2>1. n.at = at
    BY <1>1, GoFields DEF Steps, Scanning
  <2> HIDE DEF n
  <2>2. n.at \notin Claiming /\ n.at # "done"
    BY <2>1 DEF Claiming, Placing, Crediting
  <2> QED BY <1>3, <2>2, UnclaimedChapped, ReadChaps DEF n
<1>4. CASE Read(p, Finish([q EXCEPT !.errs = IF q.vol \in array.zvol THEN 1 ELSE 0],
                          IF q.cmd = "unexport" THEN "ok" ELSE "failed"))
  <2> DEFINE k == IF q.vol \in array.zvol THEN 1 ELSE 0
             r == IF q.cmd = "unexport" THEN "ok" ELSE "failed"
             s == [q EXCEPT !.errs = k]
             n == Finish(s, r)
  <2>1. k \in Nat /\ r \in Results
    BY DEF Results
  <2> HIDE DEF k
  <2>2. s \in RunType /\ s.cmd = q.cmd
    BY <1>1, <2>1 DEF RunType
  <2> HIDE DEF s, r
  <2>3. n.at = "done" /\ n.cmd = q.cmd /\ n.res = r
    BY <2>1, <2>2, FinishFields
  <2> HIDE DEF n
  <2>4. n.at \notin Claiming /\ (n.cmd \in Publishers \cup {"update"} => n.res # "ok")
    BY <1>2, <2>3 DEF Claiming, Placing, Crediting, Publishers, r
  <2> QED BY <1>4, <2>4, UnclaimedChapped, ReadChaps DEF n, s, r, k
<1> QED BY <1>3, <1>4 DEF Exists

LEMMA CloneSnapshotChaps == ASSUME NEW p \in Proc, Ready(p), CloneSnapshot(p) PROVE Chaps(p)
<1> DEFINE q == pr[p]
           r == create_volume_from_snapshot(array, q.vol)
           again == create_volume_from_snapshot(r.a, q.vol)
<1>1. q \in RunType /\ array \in ArrayType /\ FewUsers(array) /\ q.at = "clone" /\ Job(q)
  BY ReadyWorks DEF CloneSnapshot
<1>2. q.vol \in Volume
  BY <1>1 DEF Job, Method, Args
<1>3. again = Ret(r.a, "exists") /\ Settings(array, r.a)
  BY <1>1, <1>2, create_clone_Effect, VolumeSettings
<1>4. PICK o \in Answers(q, "clone", r, again) :
         Write(p, o.a, IF o.r \in {"ok", "exists"} THEN Go(q, "lookup") ELSE Raised(q, o.r))
  BY DEF CloneSnapshot
<1>5. again.a = r.a /\ FewUsers(r.a)
  BY <1>1, <1>3, SettingsFew DEF Ret
<1> HIDE DEF r, again
<1>6. FewUsers(o.a)
  BY <1>1, <1>4, <1>5, Answer
<1>7. Chapped(Go(q, "lookup"), o.a)
  <2> DEFINE n == Go(q, "lookup")
  <2>1. n.at = "lookup"
    BY <1>1, GoFields, StepNames
  <2> HIDE DEF n
  <2>2. n.at \notin Claiming /\ n.at # "done"
    BY <2>1 DEF Claiming, Placing, Crediting
  <2> QED BY <2>2, UnclaimedChapped DEF n
<1> QED BY <1>1, <1>4, <1>6, <1>7, WriteChaps, FailedChaps

\* The slot that was found: the volume's own, or a free one, or one of a target
\* that is to be made.
LEMMA AcquiredChapped ==
    ASSUME NEW q \in RunType, q.vol \in Volume,
           NEW t \in Target \cup {None}, NEW l \in 0..Luns - 1,
           NEW attached \in BOOLEAN, NEW fresh \in BOOLEAN,
           q.cmd \in Lookups \cup {"getCurrent", "remove", "unexport"},
           q.cmd \in Publishers \/ attached => t \in Target,
           NEW a,
           q.cmd \in Publishers /\ fresh =>
              /\ a.att[q.vol] = None
              /\ t \in a.made => New(a, t, q.user) \/ l \in LunsOf(a, t)
    PROVE  Chapped(Acquired(q, t, l, attached, fresh), a)
<1> DEFINE n == Acquired(q, t, l, attached, fresh)
<1>1. AcquiredAs(q, t, l, attached, fresh, n)
  BY AcquiredShape
<1> HIDE DEF n
<1>2. CASE q.cmd \in Publishers
  <2>1. /\ n.cmd = q.cmd /\ n.vol = q.vol /\ n.user = q.user /\ n.at = IF fresh THEN "vipsNew" ELSE "target"
        /\ n.tgt = t /\ n.lun = l /\ n.fresh = fresh
    BY <1>1, <1>2 DEF AcquiredAs, Publishers
  <2>2. Chosen(n, a)
    BY <1>2, <2>1 DEF Chosen, Placing, Vain
  <2>3. Credits(n, a)
    BY <2>1 DEF Credits, Crediting
  <2> QED BY <2>2, <2>3 DEF Chapped, n
<1>3. CASE q.cmd \notin Publishers
  <2>1. n.cmd \notin Publishers \cup {"update"}
    BY <1>1, <1>3 DEF AcquiredAs, Lookups
  <2> QED BY <2>1, OthersChapped DEF n
<1> QED BY <1>2, <1>3

LEMMA LookupChaps == ASSUME NEW p \in Proc, Ready(p), Lookup(p) PROVE Chaps(p)
<1> DEFINE q == pr[p]
           slot == array.att[q.vol]
           current == q.cmd \in {"getCurrent", "remove", "unexport"}
<1>1. q \in RunType /\ array \in ArrayType /\ q.at = "lookup" /\ Job(q)
  BY ReadyWorks DEF Lookup
<1>2. q.vol \in Volume /\ q.cmd \in Lookups \cup {"getCurrent", "remove", "unexport"}
  BY <1>1 DEF Job, Method, Args, Lookups
<1>3. slot # None => slot[1] \in Target /\ slot[2] \in 0..Luns - 1
  BY <1>1, <1>2, Slots
<1>4. CASE Refused(p, "lookup")
  BY <1>4, RefusedChaps
<1>5. CASE slot # None /\ Read(p, Acquired(q, slot[1], slot[2], TRUE, FALSE))
  <2> HIDE DEF slot
  <2>1. Chapped(Acquired(q, slot[1], slot[2], TRUE, FALSE), array)
    BY <1>1, <1>2, <1>3, <1>5, AcquiredChapped
  <2> QED BY <1>5, <2>1, ReadChaps
<1>6. CASE slot # None /\ Read(p, [Go(q, "rehome") EXCEPT !.tgt = slot[1], !.lun = slot[2]])
  <2> DEFINE g == Go(q, "rehome")
             n == [g EXCEPT !.tgt = slot[1], !.lun = slot[2]]
  <2>1. g \in RunType /\ g.at = "rehome"
    BY <1>1, GoFields, StepNames
  <2> HIDE DEF g, slot
  <2>2. n.at = "rehome"
    BY <2>1 DEF RunType
  <2>3. Read(p, n)
    BY <1>6 DEF g, slot
  <2> HIDE DEF n
  <2>4. n.at \notin Claiming /\ n.at # "done"
    BY <2>2 DEF Claiming, Placing, Crediting
  <2> QED BY <2>3, <2>4, UnclaimedChapped, ReadChaps
<1>7. CASE current /\ Read(p, Acquired(q, None, 0, FALSE, FALSE))
  <2>1. 0 \in 0..Luns - 1 /\ q.cmd \notin Publishers
    BY <1>7, TargetsAssumption DEF Publishers
  <2>2. Chapped(Acquired(q, None, 0, FALSE, FALSE), array)
    BY <1>1, <1>2, <2>1, AcquiredChapped
  <2> QED BY <1>7, <2>2, ReadChaps
<1>8. CASE Read(p, Go(q, "list"))
  <2> DEFINE n == Go(q, "list")
  <2>1. n.at = "list"
    BY <1>1, GoFields, StepNames DEF Choosing
  <2> HIDE DEF n
  <2>2. n.at \notin Claiming /\ n.at # "done"
    BY <2>1 DEF Claiming, Placing, Crediting
  <2> QED BY <1>8, <2>2, UnclaimedChapped, ReadChaps DEF n
<1> QED BY <1>4, <1>5, <1>6, <1>7, <1>8 DEF Lookup

LEMMA RehomeChaps == ASSUME NEW p \in Proc, Ready(p), Rehome(p) PROVE Chaps(p)
<1> DEFINE q == pr[p]
<1>1. q \in RunType /\ array \in ArrayType /\ q.at = "rehome" /\ Job(q)
  BY ReadyWorks DEF Rehome
<1>2. q.vol \in Volume /\ q.cmd \in Lookups /\ q.tgt \in Target /\ q.lun \in 0..Luns - 1
  BY <1>1 DEF Job, Method, Args, Lookups, RunType
<1>3. CASE Refused(p, "sessions")
  BY <1>3, RefusedChaps
<1>4. CASE Read(p, Acquired(q, q.tgt, q.lun, TRUE, FALSE))
  BY <1>1, <1>2, <1>4, AcquiredChapped, ReadChaps
<1>5. CASE Read(p, [Go(q, "detach") EXCEPT !.from = q.tgt, !.back = "list"])
  <2> DEFINE g == Go(q, "detach")
             n == [g EXCEPT !.from = q.tgt, !.back = "list"]
  <2>1. g \in RunType /\ g.at = "detach"
    BY <1>1, GoFields, StepNames DEF Detaching
  <2> HIDE DEF g
  <2>2. n.at = "detach" /\ n.back = "list"
    BY <2>1 DEF RunType
  <2>3. Read(p, n)
    BY <1>5 DEF g
  <2> HIDE DEF n
  <2>4. Chapped(n, array)
    BY <2>2 DEF Chapped, Chosen, Credits, Placing, Crediting
  <2> QED BY <2>3, <2>4, ReadChaps
<1> QED BY <1>3, <1>4, <1>5 DEF Rehome

LEMMA ListChaps == ASSUME NEW p \in Proc, Ready(p), List(p) PROVE Chaps(p)
<1> DEFINE q == pr[p]
           related == array.made \cap Own
           at == IF related = {} THEN "pick" ELSE "slot"
           g == Go(q, at)
           n == [g EXCEPT !.seen = related, !.todo = related, !.tgt = None, !.lun = 0]
<1>1. q \in RunType
  BY ReadyWorks
<1>2. CASE Refused(p, "list")
  BY <1>2, RefusedChaps
<1>3. CASE Read(p, n)
  <2>1. at \in Steps
    BY DEF Steps
  <2>2. (at = "slot" \/ (at = "pick" /\ related = {})) /\ related \subseteq array.made
        /\ related = array.made \cap Own
    OBVIOUS
  <2> HIDE DEF at, related
  <2>3. g \in RunType /\ g.at = at
    BY <1>1, <2>1, GoFields
  <2> HIDE DEF g
  <2>4. n.at = at /\ n.seen = related /\ n.todo = related
    BY <2>3 DEF RunType
  <2> HIDE DEF n
  <2>5. Chapped(n, array)
    BY <2>2, <2>4 DEF Chapped, Chosen, Credits, Placing, Crediting
  <2> QED BY <1>3, <2>5, ReadChaps
<1> QED BY <1>2, <1>3 DEF List

LEMMA SlotOfChaps == ASSUME NEW p \in Proc, Ready(p), SlotOf(p) PROVE Chaps(p)
<1> DEFINE q == pr[p]
           t == Smallest(q.todo)
           free == (0..Luns - 1) \ LunsOf(array, t)
           at == IF q.todo = {t} THEN "pick" ELSE "slot"
           g == Go(q, at)
           n == [g EXCEPT !.todo = @ \ {t}]
<1>1. q \in RunType /\ array \in ArrayType /\ q.at = "slot" /\ Job(q) /\ Chapped(q, array)
  BY ReadyWorks DEF SlotOf
<1>2. q.vol \in Volume /\ q.cmd \in Lookups /\ q.seen \subseteq Own /\ q.todo \subseteq Own /\ q.todo # {}
  BY <1>1 DEF Job, Method, Args, Lookups, Choosing
<1>3. t \in q.todo
  BY <1>2, Indices, SmallestIn
<1>4. CASE Refused(p, "luns")
  BY <1>4, RefusedChaps
<1>5. CASE (t \notin array.made \/ free = {}) /\ Read(p, n)
  <2>1. 0 \in 0..Luns - 1
    BY TargetsAssumption
  <2>2. t \in array.made => 0 \in LunsOf(array, t)
    BY <1>5, <2>1
  <2>3. at \in Steps /\ (at = "slot" \/ (at = "pick" /\ q.todo = {t}))
    BY DEF Steps
  <2> HIDE DEF at, free, t
  <2>4. g \in RunType /\ g.at = at /\ g.cmd = q.cmd /\ g.user = q.user /\ g.seen = q.seen /\ g.todo = q.todo
    BY <1>1, <2>3, GoFields
  <2> HIDE DEF g
  <2>5. n.at = at /\ n.cmd = q.cmd /\ n.user = q.user /\ n.seen = q.seen /\ n.todo = q.todo \ {t}
    BY <2>4 DEF RunType
  <2> HIDE DEF n
  <2>6. ASSUME q.cmd \in Publishers PROVE Chosen(n, array)
    <3>1. /\ q.seen \subseteq array.made /\ \A s \in q.seen \ q.todo : 0 \in LunsOf(array, s)
          /\ \A s \in (array.made \cap Own) \ q.seen : New(array, s, q.user)
      BY <1>1, <2>6 DEF Chapped, Chosen
    <3>2. n.at = "pick" => n.todo = {}
      BY <2>3, <2>5
    <3>3. \A s \in n.seen \ n.todo : 0 \in LunsOf(array, s)
      BY <2>2, <2>5, <3>1
    <3> QED BY <2>3, <2>5, <3>1, <3>2, <3>3 DEF Chosen, Placing
  <2>7. Credits(n, array)
    BY <2>3, <2>5 DEF Credits, Crediting
  <2>8. Chapped(n, array)
    BY <2>5, <2>6, <2>7 DEF Chapped
  <2> QED BY <1>5, <2>8, ReadChaps DEF n, g, at, t
<1>6. CASE free # {} /\ Read(p, Acquired(q, t, Smallest(free), FALSE, FALSE))
  <2>1. free \in SUBSET Nat /\ t \in Target
    <3>1. t \in Target
      BY <1>2, <1>3, Indices
    <3>2. free \subseteq 0..Luns - 1 /\ 0..Luns - 1 \subseteq Nat
      BY TargetsAssumption
    <3> QED BY <3>1, <3>2
  <2>2. Smallest(free) \in 0..Luns - 1
    BY <1>6, <2>1, SmallestIn
  <2> HIDE DEF free, t
  <2>3. Chapped(Acquired(q, t, Smallest(free), FALSE, FALSE), array)
    BY <1>1, <1>2, <2>1, <2>2, AcquiredChapped
  <2> QED BY <1>6, <2>3, ReadChaps
<1> QED BY <1>4, <1>5, <1>6 DEF SlotOf

LEMMA PickChaps == ASSUME NEW p \in Proc, Ready(p), Pick(p) PROVE Chaps(p)
<1> DEFINE q == pr[p]
           candidates == {i \in q.idx..Cardinality(q.seen) : i \notin q.seen}
           i == Smallest(candidates)
<1>1. q \in RunType /\ array \in ArrayType /\ q.at = "pick" /\ Job(q) /\ Chapped(q, array) /\ Placed(q, array)
  BY ReadyWorks DEF Pick
<1>2. q.vol \in Volume /\ q.cmd \in Lookups /\ array.att[q.vol] = None
  BY <1>1 DEF Job, Method, Args, Lookups, Choosing, Placed
<1>3. 0 \in 0..Luns - 1
  BY TargetsAssumption
<1>4. CASE Read(p, Acquired(q, 0, 0, FALSE, TRUE))
  <2>1. q.cmd \in Publishers /\ 0 \in array.made => New(array, 0, q.user) \/ 0 \in LunsOf(array, 0)
    BY <1>1, Indices DEF Chapped, Chosen
  <2>2. Chapped(Acquired(q, 0, 0, FALSE, TRUE), array)
    BY <1>1, <1>2, <1>3, <2>1, Indices, AcquiredChapped
  <2> QED BY <1>4, <2>2, ReadChaps
<1>5. CASE Refused(p, "get_target")
  BY <1>5, RefusedChaps
<1>6. CASE i \in Own \ array.made /\ Read(p, Acquired(q, i, 0, FALSE, TRUE))
  <2> HIDE DEF i
  <2>1. Chapped(Acquired(q, i, 0, FALSE, TRUE), array)
    BY <1>1, <1>2, <1>3, <1>6, Indices, AcquiredChapped
  <2> QED BY <1>6, <2>1, ReadChaps
<1>7. CASE Read(p, [q EXCEPT !.idx = i + 1])
  <2> DEFINE n == [q EXCEPT !.idx = i + 1]
  <2>1. n.at = "pick" /\ n.cmd = q.cmd /\ n.user = q.user /\ n.seen = q.seen /\ n.todo = q.todo
    BY <1>1 DEF RunType
  <2> HIDE DEF n
  <2>2. Credits(n, array)
    BY <2>1 DEF Credits, Crediting
  <2>3. q.cmd \in Publishers => Chosen(n, array)
    BY <1>1, <2>1 DEF Chapped, Chosen, Placing
  <2>4. Chapped(n, array)
    BY <2>1, <2>2, <2>3 DEF Chapped
  <2> QED BY <1>7, <2>4, ReadChaps DEF n
<1> QED BY <1>4, <1>5, <1>6, <1>7 DEF Pick

LEMMA VipsNewChaps == ASSUME NEW p \in Proc, Ready(p), VipsNew(p) PROVE Chaps(p)
<1> DEFINE q == pr[p]
<1>1. q \in RunType /\ q.at = "vipsNew" /\ Job(q) /\ Chapped(q, array)
  BY ReadyWorks DEF VipsNew
<1>2. CASE Read(p, Raised(q, "error"))
  BY <1>1, <1>2, RaisedChapped, ReadChaps
<1>3. CASE q.cmd \in {"get", "getCurrent"} /\ Read(p, Finish(q, "ok"))
  <2>1. Finish(q, "ok").cmd = q.cmd
    BY <1>1, FinishFields DEF Results
  <2> QED BY <1>3, <2>1, OthersChapped, ReadChaps DEF Publishers
<1>4. CASE Read(p, Go(q, "create"))
  <2> DEFINE n == Go(q, "create")
  <2>1. /\ n.at = "create" /\ n.cmd = q.cmd /\ n.vol = q.vol /\ n.user = q.user /\ n.tgt = q.tgt
        /\ n.lun = q.lun /\ n.fresh = q.fresh
    BY <1>1, GoFields DEF Steps
  <2> HIDE DEF n
  <2>2. q.cmd \in Publishers => Chosen(n, array)
    BY <1>1, <2>1 DEF Chapped, Chosen, Placing, Vain
  <2>3. Credits(n, array)
    BY <2>1 DEF Credits, Crediting
  <2>4. Chapped(n, array)
    BY <2>1, <2>2, <2>3 DEF Chapped
  <2> QED BY <1>4, <2>4, ReadChaps DEF n
<1> QED BY <1>2, <1>3, <1>4 DEF VipsNew

LEMMA CreateTargetChaps == ASSUME NEW p \in Proc, Ready(p), CreateTarget(p) PROVE Chaps(p)
<1> DEFINE q == pr[p]
           r == create_target(array, q.tgt, q.user)
           again == create_target(r.a, q.tgt, q.user)
<1>1. /\ q \in RunType /\ array \in ArrayType /\ FewUsers(array) /\ q.at = "create" /\ Job(q)
      /\ Chapped(q, array)
  BY ReadyWorks DEF CreateTarget
<1>2. q.cmd \in Publishers /\ q.tgt \in Target
  BY <1>1 DEF Job, Method, Args, Attaching
<1>3. /\ again = Ret(r.a, "exists") /\ r.a.att = array.att /\ q.tgt \in r.a.made
      /\ FewUsers(r.a) /\ r.a.users = array.users
      /\ q.tgt \in array.made => r.a.chap[q.tgt] = array.chap[q.tgt]
      /\ q.tgt \notin array.made => New(r.a, q.tgt, q.user)
  BY <1>1, <1>2, create_target_Effect, create_target_Chap
<1>4. PICK o \in Answers(q, "create_target", r, again) :
         Write(p, o.a, IF o.r \in {"ok", "exists"} THEN [Go(q, "attach") EXCEPT !.tries = 0]
                       ELSE Raised(q, o.r))
  BY DEF CreateTarget
<1>5. again.a = r.a
  BY <1>3 DEF Ret
<1> HIDE DEF r, again
<1>6. (o.a = r.a \/ o.r \in {"error", "cfg"}) /\ FewUsers(o.a)
  BY <1>1, <1>3, <1>4, <1>5, Answer
<1>7. CASE o.r \in {"ok", "exists"}
  <2> DEFINE g == Go(q, "attach")
             n == [g EXCEPT !.tries = 0]
  <2>1. /\ g \in RunType /\ g.at = "attach" /\ g.cmd = q.cmd /\ g.vol = q.vol /\ g.user = q.user
        /\ g.tgt = q.tgt /\ g.lun = q.lun /\ g.fresh = q.fresh
    BY <1>1, GoFields DEF Steps
  <2> HIDE DEF g
  <2>2. /\ n.at = "attach" /\ n.cmd = q.cmd /\ n.vol = q.vol /\ n.user = q.user
        /\ n.tgt = q.tgt /\ n.lun = q.lun /\ n.fresh = q.fresh
    BY <2>1 DEF RunType
  <2>3. Write(p, r.a, n)
    BY <1>4, <1>6, <1>7 DEF g
  <2> HIDE DEF n
  <2>4. /\ array.att[q.vol] \in {None, <<q.tgt, q.lun>>} /\ q.fresh
        /\ q.tgt \in array.made => New(array, q.tgt, q.user) \/ Vain(q, array)
    BY <1>1, <1>2 DEF Chapped, Chosen, Placing
  <2>5. Vain(q, array) => Vain(n, r.a)
    BY <1>3, <2>2 DEF Vain, LunsOf, On
  <2>6. q.tgt \in array.made => New(r.a, q.tgt, q.user) \/ Vain(n, r.a)
    BY <1>3, <2>4, <2>5 DEF New
  <2>7. Chosen(n, r.a)
    BY <1>3, <2>2, <2>4, <2>6 DEF Chosen, Placing
  <2>8. Credits(n, r.a)
    BY <2>2 DEF Credits, Crediting
  <2> QED BY <1>3, <2>3, <2>7, <2>8, WriteChaps DEF Chapped
<1>8. CASE o.r \notin {"ok", "exists"}
  BY <1>4, <1>6, <1>8, FailedChaps
<1> QED BY <1>7, <1>8

LEMMA GetTargetChaps == ASSUME NEW p \in Proc, Ready(p), GetTarget(p) PROVE Chaps(p)
<1> DEFINE q == pr[p]
<1>1. q \in RunType /\ q.at = "target" /\ Job(q) /\ Chapped(q, array) /\ Placed(q, array) /\ array \in ArrayType
  BY ReadyWorks DEF GetTarget
<1>2. q.cmd \in Publishers \cup {"update"} /\ q.tgt \in Target
  BY <1>1 DEF Job, Method, Args, Crediting
<1>3. ~q.fresh
  BY <1>1, <1>2 DEF Chapped, Credits
<1>4. CASE Refused(p, "get_target")
  BY <1>4, RefusedChaps
<1>5. CASE Read(p, Raised(q, "notfound"))
  BY <1>1, <1>5, RaisedChapped, ReadChaps
<1>6. CASE q.tgt \notin array.made /\ q.cmd # "update" /\ Read(p, [Go(q, "vipsNew") EXCEPT !.fresh = TRUE])
  <2> DEFINE g == Go(q, "vipsNew")
             n == [g EXCEPT !.fresh = TRUE]
  <2>1. g \in RunType /\ g.at = "vipsNew" /\ g.cmd = q.cmd /\ g.vol = q.vol /\ g.tgt = q.tgt /\ g.lun = q.lun
    <3>1. "vipsNew" \in Steps
      BY DEF Steps
    <3> QED BY <1>1, <3>1, GoFields
  <2> HIDE DEF g
  <2>2. n.at = "vipsNew" /\ n.cmd = q.cmd /\ n.vol = q.vol /\ n.tgt = q.tgt /\ n.lun = q.lun /\ n.fresh
    BY <2>1 DEF RunType
  <2>3. Read(p, n)
    BY <1>6 DEF g
  <2> HIDE DEF n
  <2>4. array.att[n.vol] \in {None, <<n.tgt, n.lun>>}
    BY <1>1, <1>2, <1>6, <2>2 DEF Placed
  <2>5. Chapped(n, array)
    BY <1>6, <2>2, <2>4 DEF Chapped, Chosen, Credits, Placing, Crediting
  <2> QED BY <2>3, <2>5, ReadChaps
<1>7. CASE /\ q.tgt \in array.made
           /\ Read(p, [Go(q, IF q.cmd # "update" THEN "vips" ELSE IF q.user = None THEN "active" ELSE "users")
                         EXCEPT !.flag = array.chap[q.tgt]])
  <2> DEFINE at == IF q.cmd # "update" THEN "vips" ELSE IF q.user = None THEN "active" ELSE "users"
             g == Go(q, at)
             c == array.chap[q.tgt]
             n == [g EXCEPT !.flag = c]
  <2>1. at \in Steps
    BY DEF Steps
  <2>2. \/ at = "vips" /\ q.cmd \in Publishers
        \/ at = "active" /\ q.user = None /\ q.cmd = "update"
        \/ at = "users" /\ q.user # None /\ q.cmd = "update"
    BY <1>2
  <2> HIDE DEF at, c
  <2>3. g \in RunType /\ g.at = at /\ g.cmd = q.cmd /\ g.user = q.user /\ g.tgt = q.tgt /\ g.fresh = q.fresh
    BY <1>1, <2>1, GoFields
  <2> HIDE DEF g
  <2>4. n.at = at /\ n.cmd = q.cmd /\ n.user = q.user /\ n.tgt = q.tgt /\ n.fresh = q.fresh /\ n.flag = c
    BY <2>3 DEF RunType
  <2> HIDE DEF n
  <2>5. n.flag = array.chap[n.tgt]
    BY <2>4 DEF c
  <2>6. Chapped(n, array)
    BY <1>3, <1>7, <2>2, <2>4, <2>5 DEF Chapped, Chosen, Credits, Placing, Crediting, Publishers
  <2> QED BY <1>7, <2>6, ReadChaps DEF n, g, at, c
<1> QED BY <1>4, <1>5, <1>6, <1>7 DEF GetTarget

\* The volume is in its slot on a target that is known, or that is new.
LEMMA PublishedChapped ==
    ASSUME NEW q, Publishing(q), NEW a, q.tgt \in a.made,
           q.fresh => New(a, q.tgt, q.user),
           ~q.fresh => q.flag = a.chap[q.tgt]
    PROVE  Chapped(Published(q), a)
<1> DEFINE n == Published(q)
<1>1. PublishedAs(q, n)
  BY PublishedShape DEF Publishing
<1> HIDE DEF n
<1>2. Chosen(n, a)
  BY <1>1 DEF PublishedAs, Chosen, Placing
<1>3. Credits(n, a)
  BY <1>1 DEF PublishedAs, Credits, Crediting, New
<1> QED BY <1>2, <1>3 DEF Chapped, n

LEMMA PublisherReady ==
    ASSUME NEW p \in Proc, Ready(p), pr[p].at \in Attaching
    PROVE  /\ Publishing(pr[p]) /\ array \in ArrayType /\ FewUsers(array)
           /\ Chosen(pr[p], array) /\ Placed(pr[p], array) /\ Job(pr[p])
<1>1. Publishing(pr[p])
  BY PublisherWorks DEF Ready
<1> QED BY <1>1, ReadyWorks DEF Chapped, Publishing

\* On the way to the attach, with the target there.
LEMMA AttachChapped ==
    ASSUME NEW q, NEW a, NEW n, n.at \in {"attach", "resolve", "confirm"}, n.cmd = q.cmd, n.vol = q.vol,
           n.tgt = q.tgt, n.lun = q.lun, n.user = q.user, n.fresh = q.fresh, n.flag = q.flag,
           q.tgt \in a.made, a.att[q.vol] \in {None, <<q.tgt, q.lun>>},
           q.fresh => New(a, q.tgt, q.user) \/ Vain(q, a),
           ~q.fresh => q.flag = a.chap[q.tgt]
    PROVE  Chapped(n, a)
<1>1. Chosen(n, a)
  BY DEF Chosen, Placing, Vain
<1>2. Credits(n, a)
  BY DEF Credits, Crediting
<1> QED BY <1>1, <1>2 DEF Chapped

LEMMA VipsChaps == ASSUME NEW p \in Proc, Ready(p), Vips(p) PROVE Chaps(p)
<1> DEFINE q == pr[p]
<1>1. q.at = "vips" /\ q.at \in Attaching
  BY DEF Vips, Attaching
<1>2. Publishing(q) /\ Chosen(q, array) /\ Job(q)
  BY <1>1, PublisherReady
<1>3. ~q.fresh /\ q.tgt \in array.made /\ q.flag = array.chap[q.tgt]
  BY <1>1, <1>2 DEF Chosen
<1>4. CASE Refused(p, "vips")
  BY <1>4, RefusedChaps
<1>5. CASE Read(p, Published(q))
  BY <1>2, <1>3, <1>5, PublishedChapped, ReadChaps
<1>6. CASE Read(p, Go(q, "getLun"))
  <2> DEFINE n == Go(q, "getLun")
  <2>1. n.at = "getLun" /\ n.tgt = q.tgt /\ n.fresh = q.fresh /\ n.flag = q.flag
    <3>1. "getLun" \in Steps
      BY DEF Steps
    <3> QED BY <1>2, <3>1, GoFields DEF Publishing
  <2> HIDE DEF n
  <2>2. Chapped(n, array)
    BY <1>3, <2>1 DEF Chapped, Chosen, Credits, Placing, Crediting
  <2> QED BY <1>6, <2>2, ReadChaps DEF n
<1>7. CASE Read(p, Raised(q, "notfound"))
  BY <1>2, <1>7, RaisedChapped, ReadChaps
<1> QED BY <1>4, <1>5, <1>6, <1>7 DEF Vips

LEMMA GetLunChaps == ASSUME NEW p \in Proc, Ready(p), GetLun(p) PROVE Chaps(p)
<1> DEFINE q == pr[p]
<1>1. q.at = "getLun" /\ q.at \in Attaching
  BY DEF GetLun, Attaching
<1>2. Publishing(q) /\ Chosen(q, array) /\ Placed(q, array)
  BY <1>1, PublisherReady
<1>3. /\ ~q.fresh /\ q.tgt \in array.made /\ q.flag = array.chap[q.tgt]
      /\ array.att[q.vol] \in {None, <<q.tgt, q.lun>>}
  BY <1>1, <1>2 DEF Chosen, Placed, Publishing
<1>4. CASE Refused(p, "get_lun")
  BY <1>4, RefusedChaps
<1>5. CASE Read(p, Published(q))
  BY <1>2, <1>3, <1>5, PublishedChapped, ReadChaps
<1>6. CASE Read(p, [Go(q, "attach") EXCEPT !.tries = 0])
  <2> DEFINE g == Go(q, "attach")
             n == [g EXCEPT !.tries = 0]
  <2>1. /\ g \in RunType /\ g.at = "attach" /\ g.cmd = q.cmd /\ g.vol = q.vol /\ g.tgt = q.tgt
        /\ g.lun = q.lun /\ g.user = q.user /\ g.fresh = q.fresh /\ g.flag = q.flag
    <3>1. "attach" \in Steps
      BY DEF Steps
    <3> QED BY <1>2, <3>1, GoFields DEF Publishing
  <2>2. Read(p, n)
    BY <1>6
  <2> HIDE DEF g
  <2>3. /\ n.at = "attach" /\ n.cmd = q.cmd /\ n.vol = q.vol /\ n.tgt = q.tgt
        /\ n.lun = q.lun /\ n.user = q.user /\ n.fresh = q.fresh /\ n.flag = q.flag
    BY <2>1 DEF RunType
  <2> HIDE DEF n
  <2>4. Chapped(n, array)
    BY <1>3, <2>3, AttachChapped
  <2> QED BY <2>2, <2>4, ReadChaps
<1> QED BY <1>4, <1>5, <1>6 DEF GetLun

\* The attach of a volume that is not elsewhere.
LEMMA attach_Chap ==
    ASSUME NEW a \in ArrayType, NEW t, NEW v \in Volume, NEW l \in 0..Luns - 1, NEW r,
           r = attach_target_vol(a, t, v, l), a.att[v] \in {None, <<t, l>>}
    PROVE  /\ r.a.att[v] \in {None, <<t, l>>}
           /\ a.att[v] = None /\ l \in LunsOf(a, t) => r.a = a /\ r.r # "ok"
<1>1. \/ r.a = a /\ r.r # "ok"
      \/ r.r = "ok" /\ a.att[v] = None /\ l \notin LunsOf(a, t)
  BY DEF attach_target_vol, Ret
<1>2. r.r = "ok" => r.a.att[v] = <<t, l>>
  BY attach_target_vol_Effect
<1> QED BY <1>1, <1>2

LEMMA AttachChaps == ASSUME NEW p \in Proc, Ready(p), Attach(p) PROVE Chaps(p)
<1> DEFINE q == pr[p]
           r == attach_target_vol(array, q.tgt, q.vol, q.lun)
           again == attach_target_vol(r.a, q.tgt, q.vol, q.lun)
<1>1. q.at = "attach" /\ q.at \in Attaching
  BY DEF Attach, Attaching
<1>2. Publishing(q) /\ Chosen(q, array) /\ array \in ArrayType /\ FewUsers(array)
  BY <1>1, PublisherReady
<1>3. /\ q.tgt \in array.made /\ array.att[q.vol] \in {None, <<q.tgt, q.lun>>}
      /\ q.fresh => New(array, q.tgt, q.user) \/ Vain(q, array)
      /\ ~q.fresh => q.flag = array.chap[q.tgt]
  BY <1>1, <1>2 DEF Chosen, Placing
<1>4. /\ Settings(array, r.a) /\ r.a.att[q.vol] \in {None, <<q.tgt, q.lun>>}
      /\ Vain(q, array) => r.a = array /\ r.r # "ok"
      /\ again.a = r.a /\ again.r \in {"notfound", "busy", "exists"}
  <2>1. q.vol \in Volume /\ q.lun \in 0..Luns - 1
    BY <1>2 DEF Publishing
  <2>2. Settings(array, r.a)
    BY <1>2, VolumeSettings
  <2>3. again.a = r.a /\ again.r \in {"notfound", "busy", "exists"}
    BY <1>2, <2>1, attach_target_vol_Effect
  <2>4. /\ r.a.att[q.vol] \in {None, <<q.tgt, q.lun>>}
        /\ array.att[q.vol] = None /\ q.lun \in LunsOf(array, q.tgt) => r.a = array /\ r.r # "ok"
    BY <1>2, <1>3, <2>1, attach_Chap
  <2> QED BY <2>2, <2>3, <2>4 DEF Vain
<1>5. PICK o \in Answers(q, "attach", r, again) \cup {Ret(array, "blocked") : e \in Errors(q, "blocked")} :
         Write(p, o.a, IF o.r = "ok" THEN Published(q)
                       ELSE IF o.r \in {"busy", "blocked"} /\ q.tries + 1 < Attempts
                            THEN [Go(Felt(q, o.r), "resolve") EXCEPT !.tries = @ + 1]
                            ELSE Raised(q, o.r))
  BY DEF Attach
<1> HIDE DEF r, again
<1>6. /\ o.a \in {array, r.a}
      /\ o.r = "ok" => o = r
  <2>1. CASE o \in Answers(q, "attach", r, again)
    BY <1>4, <2>1, Answer
  <2>2. CASE o \in {Ret(array, "blocked") : e \in Errors(q, "blocked")}
    BY <2>2 DEF Ret
  <2> QED BY <1>5, <2>1, <2>2
<1>7. Settings(array, array)
  BY DEF Settings
<1>8. /\ q.tgt \in o.a.made /\ o.a.att[q.vol] \in {None, <<q.tgt, q.lun>>} /\ FewUsers(o.a)
      /\ q.fresh => New(o.a, q.tgt, q.user) \/ (Vain(q, o.a) /\ o.r # "ok")
      /\ ~q.fresh => q.flag = o.a.chap[q.tgt]
  BY <1>2, <1>3, <1>4, <1>6, <1>7, SettingsFew DEF Settings, New
<1>9. CASE o.r = "ok"
  <2>1. Write(p, o.a, Published(q))
    BY <1>5, <1>9
  <2> QED BY <1>2, <1>8, <1>9, <2>1, PublishedChapped, WriteChaps
<1>10. CASE o.r # "ok" /\ o.r \in {"busy", "blocked"} /\ q.tries + 1 < Attempts
  <2> DEFINE h == Felt(q, o.r)
             g == Go(h, "resolve")
             n == [g EXCEPT !.tries = @ + 1]
  <2>1. h \in RunType /\ h = [q EXCEPT !.errs = h.errs]
    BY <1>2, FeltFields DEF Publishing
  <2>2. /\ h.cmd = q.cmd /\ h.vol = q.vol /\ h.tgt = q.tgt /\ h.lun = q.lun /\ h.user = q.user
        /\ h.fresh = q.fresh /\ h.flag = q.flag
    <3> HIDE DEF h
    <3> QED BY <1>2, <2>1 DEF Publishing, RunType
  <2> HIDE DEF h
  <2>3. /\ g \in RunType /\ g.at = "resolve" /\ g.cmd = q.cmd /\ g.vol = q.vol /\ g.tgt = q.tgt
        /\ g.lun = q.lun /\ g.user = q.user /\ g.fresh = q.fresh /\ g.flag = q.flag
    <3>1. "resolve" \in Steps
      BY DEF Steps
    <3> QED BY <2>1, <2>2, <3>1, GoFields
  <2> HIDE DEF g
  <2>4. /\ n.at = "resolve" /\ n.cmd = q.cmd /\ n.vol = q.vol /\ n.tgt = q.tgt
        /\ n.lun = q.lun /\ n.user = q.user /\ n.fresh = q.fresh /\ n.flag = q.flag
    BY <2>3 DEF RunType
  <2>5. Write(p, o.a, n)
    BY <1>5, <1>10 DEF g, h
  <2> HIDE DEF n
  <2>6. Chapped(n, o.a)
    BY <1>8, <2>4, AttachChapped
  <2> QED BY <1>8, <2>5, <2>6, WriteChaps
<1>11. CASE o.r # "ok" /\ ~(o.r \in {"busy", "blocked"} /\ q.tries + 1 < Attempts)
  <2>1. Write(p, o.a, Raised(q, o.r))
    BY <1>5, <1>11
  <2> QED BY <1>8, <2>1, FailedChaps
<1> QED BY <1>9, <1>10, <1>11

LEMMA ResolveChaps == ASSUME NEW p \in Proc, Ready(p), Resolve(p) PROVE Chaps(p)
<1> DEFINE q == pr[p]
           slot == array.att[q.vol]
<1>1. q.at = "resolve" /\ q.at \in Attaching
  BY DEF Resolve, Attaching
<1>2. Publishing(q) /\ Chosen(q, array) /\ Job(q)
  BY <1>1, PublisherReady
<1>3. /\ q.tgt \in array.made /\ slot \in {None, <<q.tgt, q.lun>>}
      /\ q.fresh => New(array, q.tgt, q.user) \/ Vain(q, array)
      /\ ~q.fresh => q.flag = array.chap[q.tgt]
  BY <1>1, <1>2 DEF Chosen, Placing
<1>4. ASSUME NEW at \in {"attach", "confirm"} PROVE Chapped(Go(q, at), array)
  <2> DEFINE n == Go(q, at)
  <2>1. at \in Steps
    BY DEF Steps
  <2>2. /\ n.at = at /\ n.cmd = q.cmd /\ n.vol = q.vol /\ n.tgt = q.tgt
        /\ n.lun = q.lun /\ n.user = q.user /\ n.fresh = q.fresh /\ n.flag = q.flag
    BY <1>2, <2>1, GoFields DEF Publishing
  <2> HIDE DEF n
  <2>3. Chapped(n, array)
    BY <1>3, <2>2, AttachChapped
  <2> QED BY <2>3 DEF n
<1>5. CASE Refused(p, "lookup")
  BY <1>5, RefusedChaps
<1>6. CASE Read(p, Raised(q, "clash"))
  BY <1>2, <1>6, RaisedChapped, ReadChaps
<1>7. CASE Read(p, Go(q, "attach")) \/ Read(p, Go(q, "confirm"))
  BY <1>4, <1>7, ReadChaps
<1> QED BY <1>3, <1>5, <1>6, <1>7 DEF Resolve

LEMMA ConfirmChaps == ASSUME NEW p \in Proc, Ready(p), Confirm(p) PROVE Chaps(p)
<1> DEFINE q == pr[p]
<1>1. q.at = "confirm" /\ q.at \in Attaching
  BY DEF Confirm, Attaching
<1>2. Publishing(q) /\ Chosen(q, array) /\ Job(q)
  BY <1>1, PublisherReady
<1>3. CASE Refused(p, "get_lun")
  BY <1>3, RefusedChaps
<1>4. CASE q.vol \in On(array, q.tgt) /\ Read(p, Published(q))
  <2>1. array.att[q.vol] # None
    BY <1>4 DEF On
  <2>2. /\ q.tgt \in array.made
        /\ q.fresh => New(array, q.tgt, q.user)
        /\ ~q.fresh => q.flag = array.chap[q.tgt]
    BY <1>1, <1>2, <2>1 DEF Chosen, Placing, Vain
  <2> QED BY <1>2, <1>4, <2>2, PublishedChapped, ReadChaps
<1>5. CASE Read(p, Raised(q, "notfound"))
  BY <1>2, <1>5, RaisedChapped, ReadChaps
<1> QED BY <1>3, <1>4, <1>5 DEF Confirm

LEMMA CrediterReady ==
    ASSUME NEW p \in Proc, Ready(p), pr[p].at \in {"users", "delUser", "setUser", "active"}
    PROVE  /\ Crediter(pr[p]) /\ array \in ArrayType /\ Job(pr[p]) /\ FewUsers(array)
           /\ Credits(pr[p], array)
<1>1. Crediter(pr[p]) /\ array \in ArrayType /\ Job(pr[p])
  BY CrediterWorks DEF Ready
<1> QED BY <1>1, ReadyWorks DEF Chapped, Crediter

\* At the credentials, only they are claimed.
LEMMA CreditChapped ==
    ASSUME NEW n, NEW a, n.at \in {"users", "delUser", "setUser", "active", "done"}, Credits(n, a)
    PROVE  Chapped(n, a)
<1> QED BY DEF Chapped, Chosen, Placing

LEMMA DoneChapped ==
    ASSUME NEW q, Crediter(q), NEW a, q.tgt \in a.made, a.users[q.tgt] = {q.user} \ {None},
           a.chap[q.tgt] = (q.user # None)
    PROVE  Chapped(Finish(q, "ok"), a)
<1> DEFINE n == Finish(q, "ok")
<1>1. n.at = "done" /\ n.tgt = q.tgt /\ n.user = q.user
  BY FinishFields DEF Crediter, Results
<1> HIDE DEF n
<1>2. Credits(n, a)
  BY <1>1 DEF Credits, Crediting
<1> QED BY <1>1, <1>2, CreditChapped DEF n

LEMMA CreditGoes ==
    ASSUME NEW q, Crediter(q), NEW at \in {"users", "setUser", "active"}
    PROVE  /\ Go(q, at).at = at /\ Go(q, at).tgt = q.tgt /\ Go(q, at).user = q.user
           /\ Go(q, at).fresh = q.fresh /\ Go(q, at).flag = q.flag
<1>1. at \in Steps
  BY DEF Steps
<1> QED BY <1>1, GoFields DEF Crediter

LEMMA UsersChaps == ASSUME NEW p \in Proc, Ready(p), Users(p) PROVE Chaps(p)
<1> DEFINE q == pr[p]
           users == array.users[q.tgt]
           wanted == {q.user} \ {None}
           settled == IF q.user = None THEN Finish(q, "ok") ELSE Go(q, "active")
<1>1. q.at = "users" /\ Crediter(q) /\ array \in ArrayType /\ Credits(q, array)
  BY CrediterReady DEF Users
<1>2. /\ q.tgt \in array.made /\ ~q.fresh
      /\ q.user = None => array.chap[q.tgt] = FALSE
      /\ q.user # None => q.flag = array.chap[q.tgt]
  <2>1. array.chap[q.tgt] \in BOOLEAN
    BY <1>1, Fields DEF Crediter
  <2> QED BY <1>1, <2>1 DEF Credits, Crediting
<1>3. CASE Refused(p, "users")
  BY <1>3, RefusedChaps
<1>4. CASE users = wanted /\ Read(p, settled)
  <2>1. CASE q.user = None
    <3>1. array.chap[q.tgt] = (q.user # None)
      BY <1>2, <2>1
    <3>2. Chapped(Finish(q, "ok"), array)
      BY <1>1, <1>2, <1>4, <3>1, DoneChapped
    <3> QED BY <1>4, <2>1, <3>2, ReadChaps
  <2>2. CASE q.user # None
    <3> DEFINE n == Go(q, "active")
    <3>1. n.at = "active" /\ n.tgt = q.tgt /\ n.user = q.user /\ n.fresh = q.fresh /\ n.flag = q.flag
      BY <1>1, CreditGoes
    <3> HIDE DEF n
    <3>2. Credits(n, array)
      BY <1>2, <1>4, <2>2, <3>1 DEF Credits, Crediting
    <3>3. Chapped(n, array)
      BY <3>1, <3>2, CreditChapped
    <3> QED BY <1>4, <2>2, <3>3, ReadChaps DEF n
  <2> QED BY <2>1, <2>2
<1>5. CASE /\ users # wanted \/ (q.cmd = "update" /\ wanted # {})
           /\ Read(p, [Go(q, IF users = {} THEN "setUser" ELSE "delUser") EXCEPT !.todo = users])
  <2> DEFINE at == IF users = {} THEN "setUser" ELSE "delUser"
             g == Go(q, at)
             n == [g EXCEPT !.todo = users]
  <2>1. at \in Steps
    BY DEF Steps
  <2>2. (at = "setUser" /\ users = {} /\ q.user # None) \/ at = "delUser"
    BY <1>5
  <2>3. Read(p, n)
    BY <1>5
  <2> HIDE DEF at
  <2>4. g \in RunType /\ g.at = at /\ g.tgt = q.tgt /\ g.user = q.user /\ g.fresh = q.fresh /\ g.flag = q.flag
    BY <1>1, <2>1, GoFields DEF Crediter
  <2> HIDE DEF g
  <2>5. /\ n.at = at /\ n.tgt = q.tgt /\ n.user = q.user /\ n.fresh = q.fresh /\ n.flag = q.flag
        /\ n.todo = array.users[q.tgt]
    <3> HIDE DEF users
    <3>1. n.at = at /\ n.tgt = q.tgt /\ n.user = q.user /\ n.fresh = q.fresh /\ n.flag = q.flag /\ n.todo = users
      BY <2>4 DEF RunType
    <3> QED BY <3>1 DEF users
  <2> HIDE DEF n
  <2>6. Credits(n, array)
    BY <1>2, <2>2, <2>5 DEF Credits, Crediting
  <2>7. Chapped(n, array)
    BY <2>2, <2>5, <2>6, CreditChapped
  <2> QED BY <2>3, <2>7, ReadChaps
<1> QED BY <1>2, <1>3, <1>4, <1>5 DEF Users

LEMMA DelUserChaps == ASSUME NEW p \in Proc, Ready(p), DelUser(p) PROVE Chaps(p)
<1> DEFINE q == pr[p]
<1>1. /\ Crediter(q) /\ array \in ArrayType /\ q.at = "delUser" /\ Job(q) /\ FewUsers(array)
      /\ Credits(q, array)
  BY CrediterReady DEF DelUser
<1>2. /\ q.tgt \in array.made /\ ~q.fresh /\ q.todo = array.users[q.tgt]
      /\ q.user = None => array.chap[q.tgt] = FALSE
      /\ q.user # None => q.flag = array.chap[q.tgt]
  <2>1. array.chap[q.tgt] \in BOOLEAN
    BY <1>1, Fields DEF Crediter
  <2> QED BY <1>1, <2>1 DEF Credits, Crediting
<1>3. PICK u \in q.todo :
        LET r == delete_target_user(array, q.tgt, u)
            last == q.todo = {u}
            next == [q EXCEPT !.todo = @ \ {u},
                              !.at = IF last THEN "setUser" ELSE "delUser"] IN
        \E o \in Answers(q, "users", r, delete_target_user(r.a, q.tgt, u)) :
           Write(p, o.a,
                 IF o.r = "ok"
                 THEN IF last /\ q.user = None THEN Finish(q, "ok") ELSE next
                 ELSE IF o.r = "notfound" /\ q.user = None THEN Finish(q, "ok")
                      ELSE Raised(q, o.r))
  BY DEF DelUser
<1> DEFINE r == delete_target_user(array, q.tgt, u)
           again == delete_target_user(r.a, q.tgt, u)
           last == q.todo = {u}
           at == IF last THEN "setUser" ELSE "delUser"
           next == [q EXCEPT !.todo = @ \ {u}, !.at = at]
<1>4. PICK o \in Answers(q, "users", r, again) :
           Write(p, o.a,
                 IF o.r = "ok"
                 THEN IF last /\ q.user = None THEN Finish(q, "ok") ELSE next
                 ELSE IF o.r = "notfound" /\ q.user = None THEN Finish(q, "ok")
                      ELSE Raised(q, o.r))
  BY <1>3
<1>5. /\ r.a.made = array.made /\ r.a.chap = array.chap /\ again = Ret(r.a, "notfound")
  BY <1>1, delete_target_user_Effect DEF Crediter
<1>6. r.r = "ok" /\ r.a.users[q.tgt] = q.todo \ {u} /\ FewUsers(r.a)
  BY <1>1, <1>2, delete_target_user_Chap DEF Crediter
<1>7. again.a = r.a /\ again.r = "notfound"
  BY <1>5 DEF Ret
<1> HIDE DEF r, again
<1>8. FewUsers(o.a) /\ (o.r \in {"ok", "notfound"} => o.a = r.a)
  BY <1>1, <1>4, <1>6, <1>7, Answer
<1>9. last
  BY <1>1, <1>2 DEF FewUsers, Crediter
<1>10. r.a.users[q.tgt] = {}
  BY <1>6, <1>9
<1>11. CASE o.r \in {"ok", "notfound"} /\ q.user = None /\ Write(p, o.a, Finish(q, "ok"))
  <2>1. r.a.users[q.tgt] = {q.user} \ {None} /\ r.a.chap[q.tgt] = (q.user # None)
    BY <1>2, <1>5, <1>10, <1>11
  <2>2. Chapped(Finish(q, "ok"), r.a)
    BY <1>1, <1>2, <1>5, <2>1, DoneChapped
  <2> QED BY <1>8, <1>11, <2>2, WriteChaps
<1>12. CASE o.r = "ok" /\ q.user # None
  <2>1. Write(p, r.a, next)
    BY <1>4, <1>8, <1>12
  <2>2. at = "setUser"
    BY <1>9
  <2> HIDE DEF at
  <2>3. next.at = "setUser" /\ next.tgt = q.tgt /\ next.user = q.user /\ next.fresh = q.fresh /\ next.flag = q.flag
    BY <1>1, <2>2 DEF Crediter, RunType
  <2> HIDE DEF next
  <2>4. Credits(next, r.a)
    BY <1>2, <1>5, <1>10, <1>12, <2>3 DEF Credits, Crediting
  <2>5. Chapped(next, r.a)
    BY <2>3, <2>4, CreditChapped
  <2> QED BY <1>6, <2>1, <2>5, WriteChaps
<1>13. CASE Write(p, o.a, Raised(q, o.r))
  BY <1>8, <1>13, FailedChaps
<1> QED BY <1>4, <1>9, <1>11, <1>12, <1>13

LEMMA SetUserChaps == ASSUME NEW p \in Proc, Ready(p), SetUser(p) PROVE Chaps(p)
<1> DEFINE q == pr[p]
           r == create_target_user(array, q.tgt, q.user)
           again == create_target_user(r.a, q.tgt, q.user)
<1>1. /\ Crediter(q) /\ array \in ArrayType /\ q.at = "setUser" /\ Job(q) /\ FewUsers(array)
      /\ Credits(q, array)
  BY CrediterReady DEF SetUser
<1>2. q.user \in User /\ q.user # None
  BY <1>1, TargetsAssumption DEF Job, Args
<1>3. /\ q.tgt \in array.made /\ array.users[q.tgt] = {}
      /\ q.fresh => array.chap[q.tgt] = TRUE
      /\ ~q.fresh => q.flag = array.chap[q.tgt]
  <2>1. array.chap[q.tgt] \in BOOLEAN
    BY <1>1, Fields DEF Crediter
  <2> QED BY <1>1, <1>2, <2>1 DEF Credits, Crediting
<1>4. again = r /\ r.a.made = array.made /\ r.a.chap = array.chap
  BY <1>1, <1>2, create_target_user_Effect DEF Crediter
<1>5. (r.r = "ok" => r.a.users[q.tgt] = {q.user}) /\ FewUsers(r.a)
  <2>1. r.r = "ok" => r.a.users[q.tgt] = array.users[q.tgt] \cup {q.user}
    BY <1>1, create_target_user_Chap DEF Crediter
  <2>2. FewUsers(r.a)
    BY <1>1, <1>3, create_target_user_Chap DEF Crediter
  <2> HIDE DEF r, q
  <2> QED BY <1>3, <2>1, <2>2
<1>6. PICK o \in Answers(q, "set_user", r, again) :
          Write(p, o.a,
                IF o.r = "ok" THEN IF q.fresh THEN Finish(q, "ok") ELSE Go(q, "active")
                ELSE IF q.cmd = "update" THEN Raised(q, o.r)
                ELSE [Go(Felt(q, o.r), "dropBad") EXCEPT !.back = o.r])
  BY DEF SetUser
<1> HIDE DEF r, again
<1>7. FewUsers(o.a) /\ (o.r = "ok" => o = r) /\ o.r \in {r.r, "error", "cfg"}
  BY <1>1, <1>4, <1>5, <1>6, Answer
<1>8. CASE o.r = "ok" /\ q.fresh
  <2>1. r.a.users[q.tgt] = {q.user} \ {None} /\ r.a.chap[q.tgt] = (q.user # None)
    BY <1>2, <1>3, <1>4, <1>5, <1>7, <1>8
  <2>2. Chapped(Finish(q, "ok"), r.a)
    BY <1>1, <1>3, <1>4, <2>1, DoneChapped
  <2>3. Write(p, r.a, Finish(q, "ok"))
    BY <1>6, <1>7, <1>8
  <2> QED BY <1>5, <2>2, <2>3, WriteChaps
<1>9. CASE o.r = "ok" /\ ~q.fresh
  <2> DEFINE n == Go(q, "active")
  <2>1. n.at = "active" /\ n.tgt = q.tgt /\ n.user = q.user /\ n.fresh = q.fresh /\ n.flag = q.flag
    BY <1>1, CreditGoes
  <2>2. Write(p, r.a, n)
    BY <1>6, <1>7, <1>9
  <2> HIDE DEF n
  <2>3. Credits(n, r.a)
    BY <1>3, <1>4, <1>5, <1>7, <1>9, <2>1 DEF Credits, Crediting
  <2>4. Chapped(n, r.a)
    BY <2>1, <2>3, CreditChapped
  <2> QED BY <1>5, <2>2, <2>4, WriteChaps
<1>10. CASE o.r # "ok" /\ q.cmd = "update"
  BY <1>6, <1>7, <1>10, FailedChaps
<1>11. CASE o.r # "ok" /\ q.cmd # "update"
  <2> DEFINE h == Felt(q, o.r)
             g == Go(h, "dropBad")
             n == [g EXCEPT !.back = o.r]
  <2>1. h \in RunType
    BY <1>1, FeltFields DEF Crediter
  <2>2. Write(p, o.a, n)
    BY <1>6, <1>11
  <2> HIDE DEF h
  <2>3. g \in RunType /\ g.at = "dropBad"
    <3>1. "dropBad" \in Steps
      BY DEF Steps
    <3> QED BY <2>1, <3>1, GoFields
  <2> HIDE DEF g
  <2>4. n.at = "dropBad"
    BY <2>3 DEF RunType
  <2> HIDE DEF n
  <2>5. n.at \notin Claiming /\ n.at # "done"
    BY <2>4 DEF Claiming, Placing, Crediting
  <2> QED BY <1>7, <2>2, <2>5, UnclaimedChapped, WriteChaps
<1> QED BY <1>8, <1>9, <1>10, <1>11

LEMMA DropBadChaps == ASSUME NEW p \in Proc, Ready(p), DropBad(p) PROVE Chaps(p)
<1> DEFINE q == pr[p]
           r == delete_target(array, q.tgt)
           again == delete_target(r.a, q.tgt)
<1>1. q.at = "dropBad" /\ q.at \in Attaching
  BY DEF DropBad, Attaching
<1>2. Publishing(q) /\ array \in ArrayType /\ FewUsers(array)
  BY <1>1, PublisherReady
<1>3. again = Ret(r.a, "notfound") /\ FewUsers(r.a)
  BY <1>2, delete_target_Effect, delete_target_Chap DEF Publishing
<1>4. again.a = r.a
  BY <1>3 DEF Ret
<1>5. PICK o \in Answers(q, "delete_target", r, again) : Write(p, o.a, Raised(q, q.back))
  BY DEF DropBad
<1> HIDE DEF r, again
<1>6. FewUsers(o.a)
  BY <1>2, <1>3, <1>4, <1>5, Answer
<1> QED BY <1>5, <1>6, FailedChaps

LEMMA ActiveChaps == ASSUME NEW p \in Proc, Ready(p), Active(p) PROVE Chaps(p)
<1> DEFINE q == pr[p]
           want == q.user # None
           r == set_target_incoming_users_active(array, q.tgt, want)
           next == IF want THEN Finish(q, "ok") ELSE Go(q, "users")
<1>1. Crediter(q) /\ array \in ArrayType /\ q.at = "active" /\ FewUsers(array) /\ Credits(q, array)
  BY CrediterReady DEF Active
<1>2. /\ q.tgt \in array.made /\ ~q.fresh /\ q.flag = array.chap[q.tgt]
      /\ q.user # None => array.users[q.tgt] = {q.user}
  BY <1>1 DEF Credits, Crediting
<1>3. ASSUME NEW b, b.chap[q.tgt] = want, b.made = array.made, b.users = array.users
      PROVE  Chapped(next, b)
  <2>1. CASE want
    <3>1. b.users[q.tgt] = {q.user} \ {None} /\ b.chap[q.tgt] = (q.user # None)
      BY <1>2, <1>3, <2>1
    <3>2. Chapped(Finish(q, "ok"), b)
      BY <1>1, <1>2, <1>3, <3>1, DoneChapped
    <3> QED BY <2>1, <3>2
  <2>2. CASE ~want
    <3> DEFINE n == Go(q, "users")
    <3>1. n.at = "users" /\ n.tgt = q.tgt /\ n.user = q.user /\ n.fresh = q.fresh /\ n.flag = q.flag
      BY <1>1, CreditGoes
    <3> HIDE DEF n
    <3>2. Credits(n, b)
      BY <1>2, <1>3, <2>2, <3>1 DEF Credits, Crediting
    <3>3. Chapped(n, b)
      BY <3>1, <3>2, CreditChapped
    <3> QED BY <2>2, <3>3 DEF n
  <2> QED BY <2>1, <2>2
<1>4. CASE q.flag = want /\ Read(p, next)
  <2>1. Chapped(next, array)
    BY <1>2, <1>3, <1>4
  <2> QED BY <1>4, <2>1, ReadChaps
<1>5. CASE \E o \in Answers(q, "active", r, r) :
              Write(p, o.a, IF o.r = "ok" THEN next ELSE Raised(q, o.r))
  <2>1. want \in BOOLEAN
    OBVIOUS
  <2>2. r.a.users = array.users /\ r.a.made = array.made /\ (r.r = "ok" => r.a.chap[q.tgt] = want)
    <3> HIDE DEF want
    <3> QED BY <1>1, <2>1, set_active_Chap DEF Crediter
  <2> HIDE DEF r, next, want
  <2>3. PICK o \in Answers(q, "active", r, r) :
              Write(p, o.a, IF o.r = "ok" THEN next ELSE Raised(q, o.r))
    BY <1>5
  <2>4. FewUsers(r.a)
    BY <1>1, <2>2 DEF FewUsers
  <2>5. FewUsers(o.a) /\ (o.r = "ok" => o = r)
    BY <1>1, <2>3, <2>4, Answer
  <2>6. CASE o.r = "ok"
    <3>1. Chapped(next, r.a)
      BY <1>3, <2>2, <2>5, <2>6
    <3> QED BY <2>3, <2>4, <2>5, <2>6, <3>1, WriteChaps
  <2>7. CASE o.r # "ok"
    BY <2>3, <2>5, <2>7, FailedChaps
  <2> QED BY <2>6, <2>7
<1> QED BY <1>4, <1>5 DEF Active

-----------------------------------------------------------------------------
(* A process keeps its command and its credentials.                        *)

\* The same command with the same credentials; the scsi id comes only with the
\* lookup of an export.
Kin(q, n) ==
    /\ DOMAIN n = DOMAIN q /\ n.cmd = q.cmd /\ n.user = q.user
    /\ n.known => q.known \/ q.cmd = "export"

Complete(q) == {"at", "cmd", "user", "known"} \subseteq DOMAIN q

LEMMA GoKin == ASSUME NEW q, Complete(q), NEW at PROVE Kin(q, Go(q, at))
<1> QED BY DEF Kin, Go, Complete

LEMMA FeltKin == ASSUME NEW q, Complete(q), NEW e PROVE Kin(q, Felt(q, e))
<1> QED BY DEF Kin, Felt, Complete

LEMMA FinishKin ==
    ASSUME NEW q, Complete(q), DOMAIN q = DOMAIN NoRun, NEW r
    PROVE  Kin(q, Finish(q, r)) /\ Finish(q, r).known = FALSE
<1>1. NoRun.known = FALSE
  BY DEF NoRun
<1> QED BY <1>1 DEF Kin, Finish, Complete

LEMMA RaisedKin ==
    ASSUME NEW q, Job(q), NEW e
    PROVE  Kin(q, Raised(q, e))
<1> DEFINE h == Felt(q, e)
           n == Raised(q, e)
<1>1. Job(n) /\ Handled(q, e, n)
  BY RaisedHandled
<1>2. q \in RunType /\ Complete(q) /\ DOMAIN q = DOMAIN NoRun
  BY DEF Job, Complete, RunType, NoRun
<1>3. Kin(q, h) /\ Complete(h) /\ DOMAIN h = DOMAIN NoRun
  BY <1>2, FeltKin DEF Kin, Complete
<1>4. n.known => q.known \/ q.cmd = "export"
  <2>1. \/ \E at : n = Go(h, at)
        \/ n = [NoRun EXCEPT !.at = "lookup", !.cmd = q.cmd, !.vol = q.vol, !.user = q.user,
                             !.round = q.round + 1, !.errs = h.errs]
        \/ n = [Go(h, "sList") EXCEPT !.res = "failed"]
        \/ n = Finish(h, "failed")
    BY DEF Raised
  <2> HIDE DEF n, h
  <2>2. CASE \E at : n = Go(h, at)
    BY <1>3, <2>2, GoKin DEF Kin
  <2>3. CASE n = [NoRun EXCEPT !.at = "lookup", !.cmd = q.cmd, !.vol = q.vol, !.user = q.user,
                              !.round = q.round + 1, !.errs = h.errs]
    <3>1. NoRun.known = FALSE /\ "known" \in DOMAIN NoRun
      BY DEF NoRun
    <3> QED BY <2>3, <3>1
  <2>4. CASE n = [Go(h, "sList") EXCEPT !.res = "failed"]
    BY <1>3, <2>4 DEF Kin, Go, Complete
  <2>5. CASE n = Finish(h, "failed")
    BY <1>3, <2>5, FinishKin
  <2> QED BY <2>1, <2>2, <2>3, <2>4, <2>5
<1> HIDE DEF n
<1>5. DOMAIN n = DOMAIN q
  BY <1>1, <1>2 DEF Job, RunType
<1>6. Kin(q, n)
  BY <1>1, <1>4, <1>5 DEF Kin, Handled
<1> QED BY <1>6 DEF n

LEMMA AcquiredKin ==
    ASSUME NEW q, Complete(q), DOMAIN q = DOMAIN NoRun, NEW t, NEW l, NEW attached, NEW fresh
    PROVE  Kin(q, Acquired(q, t, l, attached, fresh))
<1> DEFINE k == attached /\ q.cmd = "export"
           s == [q EXCEPT !.tgt = t, !.lun = l, !.fresh = fresh, !.seen = {}, !.todo = {},
                          !.idx = 0, !.known = k]
           w == [s EXCEPT !.tgt = None, !.lun = 0]
           f(n, back) == [n EXCEPT !.from = t, !.back = back]
<1>1. DOMAIN s = DOMAIN q /\ s.cmd = q.cmd /\ s.user = q.user /\ (s.known => q.cmd = "export")
  <2>1. DOMAIN s = DOMAIN q /\ s.cmd = q.cmd /\ s.user = q.user /\ s.known = k
    <3> HIDE DEF k
    <3> QED BY DEF Complete
  <2>2. k => q.cmd = "export"
    OBVIOUS
  <2> QED BY <2>1, <2>2
<1>2. /\ \A at : Kin(s, Go(s, at))
      /\ \A at, back : Kin(s, f(Go(s, at), back))
      /\ Kin(s, Finish(w, "ok"))
  <2> HIDE DEF s
  <2>1. /\ Complete(s) /\ DOMAIN w = DOMAIN s /\ w.cmd = s.cmd /\ w.user = s.user /\ Complete(w)
        /\ w.known = s.known
    BY <1>1 DEF Complete
  <2>2. Kin(w, Finish(w, "ok"))
    <3> HIDE DEF w
    <3> QED BY <1>1, <2>1, FinishKin
  <2>3. \A at : Kin(s, Go(s, at))
    BY <2>1, GoKin
  <2>4. ASSUME NEW g, Kin(s, g), NEW back PROVE Kin(s, f(g, back))
    BY <2>1, <2>4 DEF Kin, Complete
  <2> HIDE DEF f, w
  <2> QED BY <2>1, <2>2, <2>3, <2>4 DEF Kin
<1>3. \A n : Kin(s, n) => Kin(q, n)
  <2> HIDE DEF s
  <2> QED BY <1>1 DEF Kin
<1>4. \/ \E at : Acquired(q, t, l, attached, fresh) = Go(s, at)
      \/ \E at, back : Acquired(q, t, l, attached, fresh) = f(Go(s, at), back)
      \/ Acquired(q, t, l, attached, fresh) = Finish(w, "ok")
  <2> DEFINE m == IF fresh THEN "vipsNew" ELSE "target"
  <2>1. CASE q.cmd \in {"create", "export"}
    <3>1. Acquired(q, t, l, attached, fresh) = Go(s, m)
      BY <2>1 DEF Acquired
    <3> QED BY <3>1
  <2>2. CASE q.cmd \in {"get", "getCurrent"}
    BY <2>2 DEF Acquired
  <2>3. CASE q.cmd = "remove"
    BY <2>3 DEF Acquired
  <2>4. CASE q.cmd \notin {"create", "export", "get", "getCurrent", "remove"}
    BY <2>4 DEF Acquired
  <2> QED BY <2>1, <2>2, <2>3, <2>4
<1> HIDE DEF s, w, f
<1> QED BY <1>2, <1>3, <1>4

\* The forms in which a step leaves its process.
LEMMA Kindred ==
    ASSUME Types, NEW p \in Proc
    PROVE  LET q == pr[p] IN
           /\ \A n : Read(p, n) /\ Kin(q, n) => Kin(q, pr'[p])
           /\ \A b, n : Write(p, b, n) /\ Kin(q, n) => Kin(q, pr'[p])
           /\ \A c : Refused(p, c) => Kin(q, pr'[p])
           /\ \A at : Kin(q, Go(q, at))
           /\ \A r : Kin(q, Finish(q, r))
           /\ \A e : Kin(q, Raised(q, e))
           /\ \A t, l, attached, fresh : Kin(q, Acquired(q, t, l, attached, fresh))
           /\ Kin(q, q) /\ Complete(q) /\ DOMAIN q = DOMAIN NoRun
           /\ \A n : Kin(q, n) => Complete(n) /\ DOMAIN n = DOMAIN NoRun
           /\ \A m, n : Kin(q, m) /\ Kin(m, n) => Kin(q, n)
<1> DEFINE q == pr[p]
<1>1. Job(q) /\ q \in RunType /\ pr \in [Proc -> RunType]
  BY Working DEF Types
<1>2. Complete(q) /\ DOMAIN q = DOMAIN NoRun
  BY <1>1 DEF Complete, RunType, NoRun
<1>3. (\A n : Read(p, n) => pr'[p] = n) /\ (\A b, n : Write(p, b, n) => pr'[p] = n)
  BY <1>1 DEF Read, Write
<1>4. \A e : Kin(q, Raised(q, e))
  BY <1>1, RaisedKin
<1>5. \A c : Refused(p, c) => Kin(q, pr'[p])
  BY <1>3, <1>4 DEF Refused
<1>6. \A n : Kin(q, n) => Complete(n) /\ DOMAIN n = DOMAIN NoRun
  BY <1>2 DEF Kin, Complete
<1>7. \A m, n : Kin(q, m) /\ Kin(m, n) => Kin(q, n)
  BY DEF Kin
<1>8. Kin(q, q)
  BY DEF Kin
<1>9. (\A at : Kin(q, Go(q, at))) /\ (\A r : Kin(q, Finish(q, r)))
  BY <1>2, GoKin, FinishKin
<1>10. \A t, l, attached, fresh : Kin(q, Acquired(q, t, l, attached, fresh))
  BY <1>2, AcquiredKin
<1> HIDE DEF q
<1> QED BY <1>2, <1>3, <1>4, <1>5, <1>6, <1>7, <1>8, <1>9, <1>10 DEF q

LEMMA ChoosingKin ==
    ASSUME Types, NEW p \in Proc,
           \/ Exists(p) \/ Lookup(p) \/ Rehome(p) \/ List(p) \/ SlotOf(p) \/ Pick(p)
    PROVE  Kin(pr[p], pr'[p])
<1> DEFINE q == pr[p]
           K == Kin(q, pr'[p])
<1> SUFFICES K
  OBVIOUS
<1> HIDE DEF q, K
<1>0. /\ \A n : Read(p, n) /\ Kin(q, n) => K
      /\ \A c : Refused(p, c) => K
      /\ \A at : Kin(q, Go(q, at))
      /\ \A e : Kin(q, Raised(q, e))
      /\ \A t, l, attached, fresh : Kin(q, Acquired(q, t, l, attached, fresh))
      /\ Kin(q, q) /\ Complete(q) /\ DOMAIN q = DOMAIN NoRun
  BY Kindred DEF q, K
<1>1. CASE Exists(p)
  <2> DEFINE k == IF q.vol \in array.zvol THEN 1 ELSE 0
             h == [q EXCEPT !.errs = k]
  <2>1. Kin(q, h) /\ Complete(h) /\ DOMAIN h = DOMAIN NoRun
    <3> HIDE DEF k
    <3> QED BY <1>0 DEF Kin, Complete
  <2>2. \A r : Kin(q, Finish(h, r))
    <3> HIDE DEF h
    <3> QED BY <2>1, FinishKin DEF Kin
  <2>3. PICK n : Read(p, n) /\ ((\E at : n = Go(q, at)) \/ (\E r : n = Finish(h, r)))
    BY <1>1 DEF Exists, q
  <2> QED BY <1>0, <2>2, <2>3
<1>2. CASE List(p)
  <2>1. CASE Refused(p, "list")
    BY <1>0, <2>1
  <2>2. ASSUME NEW at, NEW S, Read(p, [Go(q, at) EXCEPT !.seen = S, !.todo = S, !.tgt = None, !.lun = 0])
        PROVE  K
    <3>1. Kin(q, [Go(q, at) EXCEPT !.seen = S, !.todo = S, !.tgt = None, !.lun = 0])
      BY <1>0 DEF Kin, Go, Complete
    <3> QED BY <1>0, <2>2, <3>1
  <2> QED BY <1>2, <2>1, <2>2 DEF List, q
<1>3. CASE Rehome(p)
  <2> DEFINE n == [Go(q, "detach") EXCEPT !.from = q.tgt, !.back = "list"]
  <2>1. Kin(q, n)
    BY <1>0 DEF Kin, Go, Complete
  <2>2. Refused(p, "sessions") \/ Read(p, Acquired(q, q.tgt, q.lun, TRUE, FALSE)) \/ Read(p, n)
    BY <1>3 DEF Rehome, q
  <2> QED BY <1>0, <2>1, <2>2
<1>4. CASE Lookup(p)
  <2> DEFINE slot == array.att[q.vol]
             n(s) == [Go(q, "rehome") EXCEPT !.tgt = s[1], !.lun = s[2]]
  <2>1. \A s : Kin(q, n(s))
    BY <1>0 DEF Kin, Go, Complete
  <2>2. \/ Refused(p, "lookup")
        \/ Read(p, Acquired(q, slot[1], slot[2], TRUE, FALSE)) \/ Read(p, n(slot))
        \/ Read(p, Acquired(q, None, 0, FALSE, FALSE)) \/ Read(p, Go(q, "list"))
    BY <1>4 DEF Lookup, q
  <2> HIDE DEF n, slot
  <2> QED BY <1>0, <2>1, <2>2
<1>5. CASE SlotOf(p)
  <2> DEFINE t == Smallest(q.todo)
             l == Smallest((0..Luns - 1) \ LunsOf(array, t))
             at == IF q.todo = {t} THEN "pick" ELSE "slot"
             n == [Go(q, at) EXCEPT !.todo = @ \ {t}]
  <2>1. Refused(p, "luns") \/ Read(p, n) \/ Read(p, Acquired(q, t, l, FALSE, FALSE))
    BY <1>5 DEF SlotOf, q
  <2> HIDE DEF t, at, l
  <2>2. Kin(q, n)
    BY <1>0 DEF Kin, Go, Complete
  <2> HIDE DEF n
  <2> QED BY <1>0, <2>1, <2>2
<1>6. CASE Pick(p)
  <2> DEFINE i == Smallest({x \in q.idx..Cardinality(q.seen) : x \notin q.seen})
             n == [q EXCEPT !.idx = i + 1]
  <2>1. \/ Refused(p, "get_target") \/ Read(p, n)
        \/ Read(p, Acquired(q, i, 0, FALSE, TRUE)) \/ Read(p, Acquired(q, 0, 0, FALSE, TRUE))
    BY <1>6 DEF Pick, q
  <2> HIDE DEF i
  <2>2. Kin(q, n)
    BY <1>0 DEF Kin, Complete
  <2> HIDE DEF n
  <2> QED BY <1>0, <2>1, <2>2
<1> QED BY <1>1, <1>2, <1>3, <1>4, <1>5, <1>6

LEMMA PublishingKin ==
    ASSUME Types, NEW p \in Proc,
           \/ VipsNew(p) \/ CreateTarget(p) \/ GetTarget(p) \/ Vips(p) \/ GetLun(p)
           \/ Attach(p) \/ Resolve(p) \/ Confirm(p)
    PROVE  Kin(pr[p], pr'[p])
<1> DEFINE q == pr[p]
           K == Kin(q, pr'[p])
<1> SUFFICES K
  OBVIOUS
<1> HIDE DEF q, K
<1>0. /\ \A n : Read(p, n) /\ Kin(q, n) => K
      /\ \A b, n : Write(p, b, n) /\ Kin(q, n) => K
      /\ \A c : Refused(p, c) => K
      /\ \A at : Kin(q, Go(q, at))
      /\ \A r : Kin(q, Finish(q, r))
      /\ \A e : Kin(q, Raised(q, e))
      /\ Kin(q, q) /\ Complete(q) /\ DOMAIN q = DOMAIN NoRun
  BY Kindred DEF q, K
<1>1. Kin(q, Published(q))
  BY <1>0 DEF Published
<1>2. \A at, k : Kin(q, [Go(q, at) EXCEPT !.tries = k])
  BY <1>0 DEF Kin, Go, Complete
<1>3. CASE VipsNew(p)
  BY <1>0, <1>3 DEF VipsNew, q
<1>4. CASE CreateTarget(p)
  <2> DEFINE n == [Go(q, "attach") EXCEPT !.tries = 0]
  <2>1. Kin(q, n)
    BY <1>2
  <2>2. \E o : Write(p, o.a, n) \/ Write(p, o.a, Raised(q, o.r))
    BY <1>4 DEF CreateTarget, q
  <2> HIDE DEF n
  <2> QED BY <1>0, <2>1, <2>2
<1>5. CASE GetTarget(p)
  <2> DEFINE m == [Go(q, "vipsNew") EXCEPT !.fresh = TRUE]
             at == IF q.cmd # "update" THEN "vips" ELSE IF q.user = None THEN "active" ELSE "users"
             n == [Go(q, at) EXCEPT !.flag = array.chap[q.tgt]]
  <2>1. Kin(q, m)
    BY <1>0 DEF Kin, Go, Complete
  <2>2. \/ Refused(p, "get_target") \/ Read(p, Raised(q, "notfound")) \/ Read(p, m) \/ Read(p, n)
    BY <1>5 DEF GetTarget, q
  <2> HIDE DEF at, m
  <2>3. Kin(q, n)
    BY <1>0 DEF Kin, Go, Complete
  <2> HIDE DEF n
  <2> QED BY <1>0, <2>1, <2>2, <2>3
<1>6. CASE Vips(p)
  BY <1>0, <1>1, <1>6 DEF Vips, q
<1>7. CASE GetLun(p)
  <2> DEFINE n == [Go(q, "attach") EXCEPT !.tries = 0]
  <2>1. Kin(q, n)
    BY <1>2
  <2>2. Refused(p, "get_lun") \/ Read(p, Published(q)) \/ Read(p, n)
    BY <1>7 DEF GetLun, q
  <2> HIDE DEF n
  <2> QED BY <1>0, <1>1, <2>1, <2>2
<1>8. CASE Attach(p)
  <2> DEFINE n(e) == [Go(Felt(q, e), "resolve") EXCEPT !.tries = @ + 1]
  <2>1. ASSUME NEW e PROVE Kin(q, n(e))
    <3> DEFINE h == Felt(q, e)
    <3>1. Kin(q, h)
      BY <1>0, FeltKin
    <3> HIDE DEF h
    <3>2. Kin(q, [Go(h, "resolve") EXCEPT !.tries = @ + 1])
      BY <1>0, <3>1 DEF Kin, Go, Complete
    <3> QED BY <3>2 DEF h
  <2>2. \E o : Write(p, o.a, Published(q)) \/ Write(p, o.a, n(o.r)) \/ Write(p, o.a, Raised(q, o.r))
    BY <1>8 DEF Attach, q
  <2> HIDE DEF n
  <2> QED BY <1>0, <1>1, <2>1, <2>2
<1>9. CASE Resolve(p)
  <2> DEFINE slot == array.att[q.vol]
             n == [Go(q, "busy") EXCEPT !.from = slot[1], !.only = slot[1] = q.tgt, !.back = "attach"]
  <2>1. \/ Refused(p, "lookup") \/ Read(p, Raised(q, "clash")) \/ Read(p, Go(q, "attach"))
        \/ Read(p, Go(q, "confirm")) \/ Read(p, n)
    BY <1>9 DEF Resolve, q
  <2> HIDE DEF slot
  <2>2. Kin(q, n)
    BY <1>0 DEF Kin, Go, Complete
  <2> HIDE DEF n
  <2> QED BY <1>0, <2>1, <2>2
<1>10. CASE Confirm(p)
  BY <1>0, <1>1, <1>10 DEF Confirm, q
<1> QED BY <1>3, <1>4, <1>5, <1>6, <1>7, <1>8, <1>9, <1>10

LEMMA CreditKin ==
    ASSUME Types, NEW p \in Proc,
           Users(p) \/ DelUser(p) \/ SetUser(p) \/ DropBad(p) \/ Active(p)
    PROVE  Kin(pr[p], pr'[p])
<1> DEFINE q == pr[p]
           K == Kin(q, pr'[p])
<1> SUFFICES K
  OBVIOUS
<1> HIDE DEF q, K
<1>0. /\ \A n : Read(p, n) /\ Kin(q, n) => K
      /\ \A b, n : Write(p, b, n) /\ Kin(q, n) => K
      /\ \A c : Refused(p, c) => K
      /\ \A at : Kin(q, Go(q, at))
      /\ \A r : Kin(q, Finish(q, r))
      /\ \A e : Kin(q, Raised(q, e))
      /\ Kin(q, q) /\ Complete(q) /\ DOMAIN q = DOMAIN NoRun
  BY Kindred DEF q, K
<1>1. CASE Users(p)
  <2> DEFINE users == array.users[q.tgt]
             at == IF users = {} THEN "setUser" ELSE "delUser"
             n == [Go(q, at) EXCEPT !.todo = users]
  <2>1. \/ Refused(p, "users") \/ Read(p, Raised(q, "notfound")) \/ Read(p, Go(q, "setUser"))
        \/ Read(p, Finish(q, "ok")) \/ Read(p, Go(q, "active")) \/ Read(p, n)
    BY <1>1 DEF Users, q
  <2> HIDE DEF users, at
  <2>2. Kin(q, n)
    BY <1>0 DEF Kin, Go, Complete
  <2> HIDE DEF n
  <2> QED BY <1>0, <2>1, <2>2
<1>2. CASE DelUser(p)
  <2> DEFINE n(u, at) == [q EXCEPT !.todo = @ \ {u}, !.at = at]
  <2>1. \A u, at : Kin(q, n(u, at))
    BY <1>0 DEF Kin, Complete
  <2>2. \E o, u, at : Write(p, o.a, Finish(q, "ok")) \/ Write(p, o.a, n(u, at)) \/ Write(p, o.a, Raised(q, o.r))
    <3>1. PICK u \in q.todo :
            LET r == delete_target_user(array, q.tgt, u)
                last == q.todo = {u}
                next == [q EXCEPT !.todo = @ \ {u},
                                  !.at = IF last THEN "setUser" ELSE "delUser"] IN
            \E o \in Answers(q, "users", r, delete_target_user(r.a, q.tgt, u)) :
               Write(p, o.a,
                     IF o.r = "ok"
                     THEN IF last /\ q.user = None THEN Finish(q, "ok") ELSE next
                     ELSE IF o.r = "notfound" /\ q.user = None THEN Finish(q, "ok")
                          ELSE Raised(q, o.r))
      BY <1>2 DEF DelUser, q
    <3> DEFINE at == IF q.todo = {u} THEN "setUser" ELSE "delUser"
    <3>2. \E o : Write(p, o.a, Finish(q, "ok")) \/ Write(p, o.a, n(u, at)) \/ Write(p, o.a, Raised(q, o.r))
      BY <3>1
    <3> HIDE DEF n, at
    <3> QED BY <3>2
  <2> HIDE DEF n
  <2> QED BY <1>0, <2>1, <2>2
<1>3. CASE SetUser(p)
  <2> DEFINE n(e) == [Go(Felt(q, e), "dropBad") EXCEPT !.back = e]
  <2>1. ASSUME NEW e PROVE Kin(q, n(e))
    <3> DEFINE h == Felt(q, e)
    <3>1. Kin(q, h)
      BY <1>0, FeltKin
    <3> HIDE DEF h
    <3>2. Kin(q, [Go(h, "dropBad") EXCEPT !.back = e])
      BY <1>0, <3>1 DEF Kin, Go, Complete
    <3> QED BY <3>2 DEF h
  <2>2. \E o : \/ Write(p, o.a, Finish(q, "ok")) \/ Write(p, o.a, Go(q, "active")) \/ Write(p, o.a, n(o.r))
               \/ Write(p, o.a, Raised(q, o.r))
    BY <1>3 DEF SetUser, q
  <2> HIDE DEF n
  <2> QED BY <1>0, <2>1, <2>2
<1>4. CASE DropBad(p)
  BY <1>0, <1>4 DEF DropBad, q
<1>5. CASE Active(p)
  <2>1. \/ Read(p, Finish(q, "ok")) \/ Read(p, Go(q, "users"))
        \/ \E o : \/ Write(p, o.a, Finish(q, "ok")) \/ Write(p, o.a, Go(q, "users"))
                  \/ Write(p, o.a, Raised(q, o.r))
    BY <1>5 DEF Active, q
  <2> QED BY <1>0, <2>1
<1> QED BY <1>1, <1>2, <1>3, <1>4, <1>5

LEMMA DetachKin ==
    ASSUME Types, NEW p \in Proc,
           Busy(p) \/ Detach(p) \/ Left(p) \/ Drop(p) \/ Removed(p) \/ Destroy(p)
    PROVE  Kin(pr[p], pr'[p])
<1> DEFINE q == pr[p]
           K == Kin(q, pr'[p])
<1> SUFFICES K
  OBVIOUS
<1> HIDE DEF q, K
<1>0. /\ \A n : Read(p, n) /\ Kin(q, n) => K
      /\ \A b, n : Write(p, b, n) /\ Kin(q, n) => K
      /\ \A c : Refused(p, c) => K
      /\ \A at : Kin(q, Go(q, at))
      /\ \A r : Kin(q, Finish(q, r))
      /\ \A e : Kin(q, Raised(q, e))
      /\ Kin(q, q) /\ Complete(q) /\ DOMAIN q = DOMAIN NoRun
  BY Kindred DEF q, K
<1>1. ASSUME NEW e, NEW r PROVE Kin(q, Finish(Felt(q, e), r))
  <2> DEFINE h == Felt(q, e)
  <2>1. Kin(q, h)
    BY <1>0, FeltKin
  <2> HIDE DEF h
  <2>2. Kin(h, Finish(h, r))
    BY <1>0, <2>1, FinishKin DEF Kin, Complete
  <2>3. Kin(q, Finish(h, r))
    BY <2>1, <2>2 DEF Kin
  <2> QED BY <2>3 DEF h
<1>2. CASE Busy(p)
  BY <1>0, <1>2 DEF Busy, q
<1>3. CASE Detach(p)
  <2>1. \E o : Write(p, o.a, Raised(q, o.r)) \/ Write(p, o.a, Go(q, "left")) \/ Write(p, o.a, Go(q, q.back))
    BY <1>3 DEF Detach, q
  <2> QED BY <1>0, <2>1
<1>4. CASE Left(p)
  <2>1. Refused(p, "luns") \/ Read(p, Raised(q, "notfound")) \/ Read(p, Go(q, "drop")) \/ Read(p, Go(q, q.back))
    BY <1>4 DEF Left, q
  <2> QED BY <1>0, <2>1
<1>5. CASE Drop(p)
  <2>1. \E o, r : \/ Write(p, o.a, Finish(Felt(q, o.r), r)) \/ Write(p, o.a, Go(q, q.back))
                  \/ Write(p, o.a, Raised(q, o.r))
    BY <1>5 DEF Drop, q
  <2> QED BY <1>0, <1>1, <2>1
<1>6. CASE Removed(p)
  BY <1>0, <1>6 DEF Removed, q
<1>7. CASE Destroy(p)
  <2>1. \E o : Write(p, o.a, Finish(q, q.res)) \/ Write(p, o.a, Finish(Felt(q, o.r), "failed"))
    BY <1>7 DEF Destroy, q
  <2> QED BY <1>0, <1>1, <2>1
<1> QED BY <1>2, <1>3, <1>4, <1>5, <1>6, <1>7

LEMMA SweepKin ==
    ASSUME Types, NEW p \in Proc,
           \/ SweepList(p) \/ SweepLuns(p) \/ SweepCheck(p) \/ SweepDetach(p)
           \/ SweepAgain(p) \/ SweepDrop(p)
    PROVE  Kin(pr[p], pr'[p])
<1> DEFINE q == pr[p]
           K == Kin(q, pr'[p])
<1> SUFFICES K
  OBVIOUS
<1> HIDE DEF q, K
<1>0. /\ \A n : Read(p, n) /\ Kin(q, n) => K
      /\ \A b, n : Write(p, b, n) /\ Kin(q, n) => K
      /\ \A at : Kin(q, Go(q, at))
      /\ \A r : Kin(q, Finish(q, r))
      /\ Kin(q, q) /\ Complete(q) /\ DOMAIN q = DOMAIN NoRun
  BY Kindred DEF q, K
<1> DEFINE h(e) == Felt(q, e)
<1>1. \A e : Kin(q, h(e)) /\ Complete(h(e)) /\ DOMAIN h(e) = DOMAIN NoRun
  BY <1>0, FeltKin DEF Kin, Complete
<1> HIDE DEF h
<1>2. ASSUME NEW e PROVE Kin(q, Finish(h(e), "ok"))
  <2>1. Kin(h(e), Finish(h(e), "ok"))
    BY <1>1, FinishKin
  <2> QED BY <1>1, <2>1 DEF Kin
<1> DEFINE g(e, f) == [Go(h(e), "zLuns") EXCEPT !.todo = @ \ {f}]
<1>3. ASSUME NEW e, NEW f PROVE Kin(q, g(e, f))
  BY <1>1 DEF Kin, Go, Complete
<1>4. CASE SweepList(p)
  <2> DEFINE n == [Go(q, "zLuns") EXCEPT !.todo = array.made \cap Own]
  <2>1. Kin(q, n)
    BY <1>0 DEF Kin, Go, Complete
  <2>2. Read(p, Finish(h("error"), "ok")) \/ Read(p, n)
    BY <1>4 DEF SweepList, q, h
  <2> HIDE DEF n
  <2> QED BY <1>0, <1>2, <2>1, <2>2
<1>5. CASE SweepLuns(p)
  <2> DEFINE t == Smallest(q.todo)
             m == [h("error") EXCEPT !.todo = @ \ {t}]
             S == On(array, t)
             n == [Go(q, "zCheck") EXCEPT !.from = t, !.seen = S]
  <2>1. Read(p, Finish(q, "ok")) \/ Read(p, m) \/ Read(p, n)
    BY <1>5 DEF SweepLuns, q, h
  <2> HIDE DEF t, S
  <2>2. Kin(q, m)
    BY <1>1 DEF Kin, Complete
  <2>3. Kin(q, n)
    BY <1>0 DEF Kin, Go, Complete
  <2> HIDE DEF m, n
  <2> QED BY <1>0, <2>1, <2>2, <2>3
<1>6. CASE SweepCheck(p)
  <2> DEFINE m(v) == [q EXCEPT !.seen = @ \ {v}]
             n(v) == [Go(q, "zDetach") EXCEPT !.item = v]
  <2>1. Read(p, Go(q, "zAgain")) \/ \E v : Read(p, m(v)) \/ Read(p, n(v))
    BY <1>6 DEF SweepCheck, q
  <2>2. \A v : Kin(q, m(v)) /\ Kin(q, n(v))
    BY <1>0 DEF Kin, Go, Complete
  <2> HIDE DEF m, n
  <2> QED BY <1>0, <2>1, <2>2
<1>7. CASE SweepDetach(p)
  <2> DEFINE i == q.item
             n(e) == [Go(h(e), "zCheck") EXCEPT !.seen = @ \ {i}, !.item = None]
  <2>1. \E o : Write(p, o.a, n(o.r))
    BY <1>7 DEF SweepDetach, q, h
  <2> HIDE DEF i
  <2>2. \A e : Kin(q, n(e))
    BY <1>1 DEF Kin, Go, Complete
  <2> HIDE DEF n
  <2> QED BY <1>0, <2>1, <2>2
<1>8. CASE SweepAgain(p)
  <2>1. h("ok") = q
    BY DEF h, Felt
  <2>2. Read(p, g("error", q.from)) \/ Read(p, Go(q, "zDrop")) \/ Read(p, [Go(q, "zLuns") EXCEPT !.todo = @ \ {q.from}])
    BY <1>8 DEF SweepAgain, q, h
  <2>3. [Go(q, "zLuns") EXCEPT !.todo = @ \ {q.from}] = g("ok", q.from)
    BY <2>1
  <2> HIDE DEF g
  <2> QED BY <1>0, <1>3, <2>2, <2>3
<1>9. CASE SweepDrop(p)
  <2>1. \E o : Write(p, o.a, g(o.r, q.from))
    BY <1>9 DEF SweepDrop, q, h
  <2> HIDE DEF g
  <2> QED BY <1>0, <1>3, <2>1
<1> QED BY <1>4, <1>5, <1>6, <1>7, <1>8, <1>9

LEMMA ScanKin ==
    ASSUME Types, NEW p \in Proc,
           ScanList(p) \/ ScanLuns(p) \/ ScanDetach(p) \/ ScanDrop(p) \/ ScanGone(p)
    PROVE  /\ Kin(pr[p], pr'[p])
           /\ pr'[p].at \in Scanning \cup {"destroy"}
<1> DEFINE q == pr[p]
           K == Kin(q, pr'[p]) /\ pr'[p].at \in Scanning \cup {"destroy"}
           Good(n) == Kin(q, n) /\ n.at \in Scanning \cup {"destroy"}
<1> SUFFICES K
  OBVIOUS
<1>a. /\ \A n : Read(p, n) => pr'[p] = n
      /\ \A b, n : Write(p, b, n) => pr'[p] = n
  BY DEF Types, Read, Write
<1> HIDE DEF q
<1>b. q.at \in Scanning
  BY DEF q, ScanList, ScanLuns, ScanDetach, ScanDrop, ScanGone, Scanning
<1>c. /\ \A at : Kin(q, Go(q, at))
      /\ \A e : Kin(q, Raised(q, e))
      /\ Kin(q, q) /\ Complete(q) /\ DOMAIN q = DOMAIN NoRun
  BY Kindred DEF q
<1>d. ASSUME NEW r, Complete(r), NEW at PROVE Go(r, at).at = at
  BY <1>d DEF Complete, Go
<1>e. ASSUME NEW e PROVE Good(Raised(q, e))
  <2>1. Raised(q, e) = Go(Felt(q, e), "destroy")
    BY <1>b DEF Raised
  <2>2. Complete(Felt(q, e))
    BY <1>c, FeltKin DEF Kin, Complete
  <2> QED BY <1>c, <1>d, <2>1, <2>2
<1>0. /\ \A n : Read(p, n) /\ Good(n) => K
      /\ \A b, n : Write(p, b, n) /\ Good(n) => K
      /\ \A at : at \in Scanning \cup {"destroy"} => Good(Go(q, at))
      /\ \A c : Refused(p, c) => K
  <2>1. \A at : at \in Scanning \cup {"destroy"} => Good(Go(q, at))
    BY <1>c, <1>d
  <2>2. (\A n : Read(p, n) /\ Good(n) => K) /\ \A b, n : Write(p, b, n) /\ Good(n) => K
    BY <1>a
  <2> HIDE DEF Good, K
  <2>3. \A c : Refused(p, c) => K
    BY <1>e, <2>2 DEF Refused, q
  <2> QED BY <2>1, <2>2, <2>3
<1> HIDE DEF K
<1>1. CASE ScanList(p)
  <2> DEFINE T == IF q.cmd = "destroy" THEN array.made \cap Own ELSE array.made
             n == [Go(q, "sLuns") EXCEPT !.todo = T]
  <2>1. Refused(p, "list") \/ Read(p, n)
    BY <1>1 DEF ScanList, q
  <2> HIDE DEF T
  <2>2. Good(n)
    BY <1>c DEF Kin, Go, Complete, Scanning
  <2> HIDE DEF n, Good
  <2> QED BY <1>0, <2>1, <2>2
<1>2. CASE ScanLuns(p)
  <2> DEFINE m(t) == [q EXCEPT !.todo = @ \ {t}]
             n(t, x) == [Go(q, "sDetach") EXCEPT !.from = t, !.todo = {}, !.tries = 0, !.only = x]
  <2>1. \/ Refused(p, "luns") \/ Read(p, Go(q, "destroy"))
        \/ \E t \in q.todo : Read(p, m(t)) \/ Read(p, n(t, On(array, t) # {q.vol}))
    BY <1>2 DEF ScanLuns, q
  <2>2. \A t : Good(m(t))
    BY <1>b, <1>c DEF Kin, Complete
  <2>3. \A t, x : Good(n(t, x))
    BY <1>c DEF Kin, Go, Complete, Scanning
  <2> HIDE DEF m, n, Good
  <2> QED BY <1>0, <2>1, <2>2, <2>3
<1>3. CASE ScanDetach(p)
  <2>1. \E o : Write(p, o.a, Go(q, "destroy")) \/ Write(p, o.a, Go(q, "sDrop")) \/ Write(p, o.a, Raised(q, o.r))
    BY <1>3 DEF ScanDetach, q
  <2>2. "sDrop" \in Scanning
    BY DEF Scanning
  <2> HIDE DEF Good
  <2> QED BY <1>0, <1>e, <2>1, <2>2
<1>4. CASE ScanDrop(p)
  <2>1. \E o : Write(p, o.a, Go(Felt(q, o.r), "destroy")) \/ Write(p, o.a, Go(Felt(q, o.r), "sGone"))
    BY <1>4 DEF ScanDrop, q
  <2>2. ASSUME NEW e, NEW at \in {"destroy", "sGone"} PROVE Good(Go(Felt(q, e), at))
    <3> DEFINE h == Felt(q, e)
    <3>1. Kin(q, h) /\ Complete(h)
      BY <1>c, FeltKin DEF Kin, Complete
    <3> HIDE DEF h
    <3>2. Kin(h, Go(h, at)) /\ Go(h, at).at = at
      BY <3>1, <1>d, GoKin
    <3>3. Good(Go(h, at))
      BY <3>1, <3>2 DEF Kin, Scanning
    <3> QED BY <3>3 DEF h
  <2> HIDE DEF Good
  <2> QED BY <1>0, <2>1, <2>2
<1>5. CASE ScanGone(p)
  <2> DEFINE n == [Go(q, "sDrop") EXCEPT !.tries = @ + 1]
  <2>1. Refused(p, "get_target") \/ Read(p, Go(q, "destroy")) \/ Read(p, n)
    BY <1>5 DEF ScanGone, q
  <2>2. Good(n)
    BY <1>c DEF Kin, Go, Complete, Scanning
  <2> HIDE DEF n, Good
  <2> QED BY <1>0, <2>1, <2>2
<1> QED BY <1>1, <1>2, <1>3, <1>4, <1>5

\* A step of a command keeps the command and the credentials it was given.
LEMMA StepKin ==
    ASSUME Types, NEW p \in Proc, Step(p), ~Exit(p)
    PROVE  Kin(pr[p], pr'[p])
<1>1. CASE Exists(p) \/ Lookup(p) \/ Rehome(p) \/ List(p) \/ SlotOf(p) \/ Pick(p)
  BY <1>1, ChoosingKin
<1>2. CASE \/ VipsNew(p) \/ CreateTarget(p) \/ GetTarget(p) \/ Vips(p) \/ GetLun(p)
           \/ Attach(p) \/ Resolve(p) \/ Confirm(p)
  BY <1>2, PublishingKin
<1>3. CASE Users(p) \/ DelUser(p) \/ SetUser(p) \/ DropBad(p) \/ Active(p)
  BY <1>3, CreditKin
<1>4. CASE Busy(p) \/ Detach(p) \/ Left(p) \/ Drop(p) \/ Removed(p) \/ Destroy(p)
  BY <1>4, DetachKin
<1>5. CASE \/ SweepList(p) \/ SweepLuns(p) \/ SweepCheck(p) \/ SweepDetach(p)
           \/ SweepAgain(p) \/ SweepDrop(p)
  BY <1>5, SweepKin
<1>6. CASE ScanList(p) \/ ScanLuns(p) \/ ScanDetach(p) \/ ScanDrop(p) \/ ScanGone(p)
  BY <1>6, ScanKin
<1>7. CASE CloneSnapshot(p)
  <2> DEFINE q == pr[p]
  <2>1. \E o : Write(p, o.a, Go(q, "lookup")) \/ Write(p, o.a, Raised(q, o.r))
    BY <1>7 DEF CloneSnapshot
  <2> QED BY <2>1, Kindred
<1> QED BY <1>1, <1>2, <1>3, <1>4, <1>5, <1>6, <1>7 DEF Step

-----------------------------------------------------------------------------
(* Detaching, sweeping and deleting.                                       *)

\* A step that leaves the settings alone, or removes a target.
LEMMA FewerUsers ==
    ASSUME NEW p \in Proc, Ready(p), NEW r, NEW again, NEW c, NEW o \in Answers(pr[p], c, r, again),
           FewUsers(r.a), again.a = r.a, NEW n, Write(p, o.a, n)
    PROVE  array' = o.a /\ FewUsers(array')
<1>1. array \in ArrayType /\ FewUsers(array)
  BY ReadyWorks
<1>2. FewUsers(o.a)
  BY <1>1, Answer
<1> QED BY <1>2 DEF Write

LEMMA DetachFew ==
    ASSUME NEW p \in Proc, Ready(p),
           Detach(p) \/ SweepDetach(p) \/ ScanDetach(p)
    PROVE  FewUsers(array')
<1> DEFINE q == pr[p]
<1>1. Job(q) /\ array \in ArrayType /\ FewUsers(array)
  BY ReadyWorks
<1>2. q.at \in {"detach", "zDetach", "sDetach"} => q.from \in Target
  BY <1>1 DEF Job, Args, Detaching, Scanning, Sweeping
<1>3. ASSUME NEW v, q.from \in Target, v \in Volume
      PROVE  LET r == detach_target_vol(array, q.from, v) IN
             FewUsers(r.a) /\ detach_target_vol(r.a, q.from, v).a = r.a
  <2> DEFINE r == detach_target_vol(array, q.from, v)
             again == detach_target_vol(r.a, q.from, v)
  <2>1. again = Ret(r.a, "notfound")
    BY <1>1, <1>3, detach_target_vol_Effect
  <2>2. Settings(array, r.a)
    BY <1>1, VolumeSettings
  <2> HIDE DEF r, again
  <2>3. FewUsers(r.a) /\ again.a = r.a
    BY <1>1, <2>1, <2>2, SettingsFew DEF Ret
  <2> QED BY <2>3 DEF r, again
<1>4. CASE Detach(p)
  <2> DEFINE r == detach_target_vol(array, q.from, q.vol)
             again == detach_target_vol(r.a, q.from, q.vol)
  <2>1. q.at = "detach"
    BY <1>4 DEF Detach
  <2>2. q.vol \in Volume
    BY <1>1, <2>1 DEF Job, Method, Args, Lookups
  <2>3. \E o \in Answers(q, "detach", r, again) : \E n : Write(p, o.a, n)
    BY <1>4 DEF Detach
  <2>4. FewUsers(r.a) /\ again.a = r.a
    BY <1>2, <1>3, <2>1, <2>2
  <2> HIDE DEF r, again
  <2> QED BY <2>3, <2>4, FewerUsers
<1>5. CASE SweepDetach(p)
  <2> DEFINE r == detach_target_vol(array, q.from, q.item)
             again == detach_target_vol(r.a, q.from, q.item)
  <2>1. q.at = "zDetach"
    BY <1>5 DEF SweepDetach
  <2>2. q.item \in Volume
    BY <1>1, <2>1 DEF Job, Args
  <2>3. \E o \in Answers(q, "detach", r, again) : \E n : Write(p, o.a, n)
    BY <1>5 DEF SweepDetach
  <2>4. FewUsers(r.a) /\ again.a = r.a
    BY <1>2, <1>3, <2>1, <2>2
  <2> HIDE DEF r, again
  <2> QED BY <2>3, <2>4, FewerUsers
<1>6. CASE ScanDetach(p)
  <2> DEFINE r == detach_target_vol(array, q.from, q.vol)
             again == detach_target_vol(r.a, q.from, q.vol)
  <2>1. q.at = "sDetach"
    BY <1>6 DEF ScanDetach
  <2>2. q.vol \in Volume
    BY <1>1, <2>1 DEF Job, Method, Args, Scanning
  <2>3. \E o \in Answers(q, "detach", r, again) : \E n : Write(p, o.a, n)
    BY <1>6 DEF ScanDetach
  <2>4. FewUsers(r.a) /\ again.a = r.a
    BY <1>2, <1>3, <2>1, <2>2
  <2> HIDE DEF r, again
  <2> QED BY <2>3, <2>4, FewerUsers
<1> QED BY <1>4, <1>5, <1>6

LEMMA DropFew ==
    ASSUME NEW p \in Proc, Ready(p),
           Drop(p) \/ SweepDrop(p) \/ ScanDrop(p)
    PROVE  FewUsers(array')
<1> DEFINE q == pr[p]
           r == delete_target(array, q.from)
           again == delete_target(r.a, q.from)
<1>1. Job(q) /\ array \in ArrayType /\ FewUsers(array)
  BY ReadyWorks
<1>2. q.at \in {"drop", "zDrop", "sDrop"}
  BY DEF Drop, SweepDrop, ScanDrop
<1>3. q.from \in Target
  BY <1>1, <1>2 DEF Job, Args, Detaching, Scanning, Sweeping
<1>4. again = Ret(r.a, "notfound") /\ FewUsers(r.a)
  BY <1>1, <1>3, delete_target_Effect, delete_target_Chap
<1>5. again.a = r.a
  BY <1>4 DEF Ret
<1>6. \E o \in Answers(q, "delete_target", r, again) : \E n : Write(p, o.a, n)
  BY DEF Drop, SweepDrop, ScanDrop
<1> HIDE DEF r, again
<1> QED BY <1>4, <1>5, <1>6, FewerUsers

LEMMA DestroyFew ==
    ASSUME NEW p \in Proc, Ready(p), Destroy(p)
    PROVE  FewUsers(array')
<1> DEFINE q == pr[p]
<1>1. Job(q) /\ array \in ArrayType /\ FewUsers(array) /\ q.at = "destroy"
  BY ReadyWorks DEF Destroy
<1>2. q.vol \in Volume
  BY <1>1 DEF Job, Method, Args
<1>3. PICK detach \in BOOLEAN :
        LET r == delete_lun(array, q.vol, detach) IN
        \E o \in Answers(q, "delete_lun", r, delete_lun(r.a, q.vol, detach)) : \E n : Write(p, o.a, n)
  BY DEF Destroy
<1> DEFINE r == delete_lun(array, q.vol, detach)
           again == delete_lun(r.a, q.vol, detach)
<1>4. again = Ret(r.a, "notfound")
  BY <1>1, <1>2, delete_lun_Effect
<1>5. Settings(array, r.a)
  BY <1>1, VolumeSettings
<1>6. \E o \in Answers(q, "delete_lun", r, again) : \E n : Write(p, o.a, n)
  BY <1>3
<1> HIDE DEF r, again
<1>7. FewUsers(r.a) /\ again.a = r.a
  BY <1>1, <1>4, <1>5, SettingsFew DEF Ret
<1> QED BY <1>6, <1>7, FewerUsers

\* Nothing is claimed of another command.
LEMMA OtherChaps ==
    ASSUME NEW p \in Proc, Ready(p), FewUsers(array'), Kin(pr[p], pr'[p]),
           pr[p].cmd \notin Publishers \cup {"update"}
    PROVE  Chaps(p)
<1> QED BY OthersChapped DEF Chaps, Kin

\* A publication that takes its volume from a target of another prefix.
LEMMA LeavesChapped ==
    ASSUME NEW q \in RunType, q.at # "done", q.back = "list",
           NEW at \in {"left", "drop", "list"}, NEW b
    PROVE  Chapped(Go(q, at), b)
<1> DEFINE n == Go(q, at)
<1>1. at \in Steps
  BY DEF Steps, Detaching
<1>2. n.at = at /\ n.back = "list"
  BY <1>1, GoFields
<1> HIDE DEF n
<1>3. Chapped(n, b)
  BY <1>2 DEF Chapped, Chosen, Credits, Placing, Crediting
<1> QED BY <1>3 DEF n

LEMMA LeaveChaps ==
    ASSUME NEW p \in Proc, Ready(p), Busy(p) \/ Detach(p) \/ Left(p) \/ Drop(p)
    PROVE  Chaps(p)
<1> DEFINE q == pr[p]
<1>1. /\ q \in RunType /\ Job(q) /\ array \in ArrayType /\ FewUsers(array) /\ Chapped(q, array)
      /\ q.at \in Detaching
  BY ReadyWorks DEF Busy, Detach, Left, Drop, Detaching
<1>2. Kin(q, pr'[p]) /\ Types /\ pr \in [Proc -> RunType]
  BY DetachKin DEF Ready, Types
<1>3. FewUsers(array')
  <2>1. Busy(p) \/ Left(p) => array' = array
    BY ReadStays
  <2> QED BY <1>1, <2>1, DetachFew, DropFew
<1>4. CASE q.cmd \notin Publishers \cup {"update"}
  BY <1>2, <1>3, <1>4, OtherChaps
<1>5. CASE q.cmd \in Publishers \cup {"update"}
  <2>1. q.cmd \in Publishers /\ q.cmd # "delete"
    BY <1>1, <1>5 DEF Job, Method, Detaching, Publishers, Lookups
  <2>2. q.at # "busy" /\ q.back = "list"
    BY <1>1, <2>1 DEF Chapped, Chosen, Detaching
  <2>3. \A b, e : Chapped(Raised(q, e), b)
    BY <1>1, RaisedChapped
  <2>4. \A b, at : at \in {"left", "drop", "list"} => Chapped(Go(q, at), b)
    BY <1>1, <2>2, LeavesChapped DEF Detaching
  <2>5. /\ \A n : Read(p, n) => pr'[p] = n
        /\ \A b, n : Write(p, b, n) => pr'[p] = n
    BY <1>2 DEF Read, Write
  <2>6. CASE Detach(p)
    <3>1. \E o : Write(p, o.a, Raised(q, o.r)) \/ Write(p, o.a, Go(q, "left")) \/ Write(p, o.a, Go(q, "list"))
      BY <2>2, <2>6 DEF Detach
    <3> QED BY <1>3, <2>3, <2>4, <2>5, <3>1 DEF Chaps
  <2>7. CASE Left(p)
    <3>1. \/ \E e : Read(p, Raised(q, e))
          \/ Read(p, Go(q, "drop")) \/ Read(p, Go(q, "list"))
      BY <2>2, <2>7 DEF Left, Refused
    <3> QED BY <1>3, <2>3, <2>4, <2>5, <3>1 DEF Chaps
  <2>8. CASE Drop(p)
    <3>1. \E o : Write(p, o.a, Raised(q, o.r)) \/ Write(p, o.a, Go(q, "list"))
      BY <2>1, <2>2, <2>8 DEF Drop
    <3> QED BY <1>3, <2>3, <2>4, <2>5, <3>1 DEF Chaps
  <2> QED BY <2>2, <2>6, <2>7, <2>8 DEF Busy
<1> QED BY <1>4, <1>5

LEMMA SweepChaps ==
    ASSUME NEW p \in Proc, Ready(p),
           \/ Removed(p) \/ SweepList(p) \/ SweepLuns(p) \/ SweepCheck(p) \/ SweepDetach(p)
           \/ SweepAgain(p) \/ SweepDrop(p)
    PROVE  Chaps(p)
<1>1. Job(pr[p]) /\ FewUsers(array) /\ Types
  BY ReadyWorks DEF Ready
<1>2. pr[p].at \in Sweeping \cup {"removed"}
  BY DEF Removed, SweepList, SweepLuns, SweepCheck, SweepDetach, SweepAgain, SweepDrop, Sweeping
<1>3. pr[p].cmd \notin Publishers \cup {"update"}
  BY <1>1, <1>2 DEF Job, Method, Publishers
<1>4. Kin(pr[p], pr'[p])
  BY <1>1, SweepKin, DetachKin
<1>5. FewUsers(array')
  <2>1. Removed(p) \/ SweepList(p) \/ SweepLuns(p) \/ SweepCheck(p) \/ SweepAgain(p) => array' = array
    BY ReadStays
  <2> QED BY <1>1, <2>1, DetachFew, DropFew
<1> QED BY <1>3, <1>4, <1>5, OtherChaps

LEMMA ScanChaps ==
    ASSUME NEW p \in Proc, Ready(p),
           ScanList(p) \/ ScanLuns(p) \/ ScanDetach(p) \/ ScanDrop(p) \/ ScanGone(p)
    PROVE  Chaps(p)
<1>1. FewUsers(array)
  BY ReadyWorks
<1>2. FewUsers(array')
  <2>1. ScanList(p) \/ ScanLuns(p) \/ ScanGone(p) => array' = array
    BY ReadStays
  <2> QED BY <1>1, <2>1, DetachFew, DropFew
<1>3. pr'[p].at \in Scanning \cup {"destroy"}
  BY ScanKin DEF Ready
<1>4. pr'[p].at \notin Claiming /\ pr'[p].at # "done"
  BY <1>3 DEF Scanning, Claiming, Placing, Crediting
<1> QED BY <1>2, <1>4, UnclaimedChapped DEF Chaps

LEMMA DestroyChaps == ASSUME NEW p \in Proc, Ready(p), Destroy(p) PROVE Chaps(p)
<1> DEFINE q == pr[p]
<1>1. q \in RunType /\ Job(q) /\ q.at = "destroy" /\ Placed(q, array) /\ Types /\ pr \in [Proc -> RunType]
  BY ReadyWorks DEF Destroy, Ready, Types
<1>2. FewUsers(array') /\ Kin(q, pr'[p])
  BY <1>1, DestroyFew, DetachKin
<1>3. q.cmd \in {"export", "unexport", "destroy"}
  BY <1>1 DEF Job, Method
<1>4. CASE q.cmd = "export"
  <2>1. q.res = "failed"
    BY <1>1, <1>4 DEF Placed
  <2>2. \E o : Write(p, o.a, Finish(q, "failed")) \/ Write(p, o.a, Finish(Felt(q, o.r), "failed"))
    BY <2>1 DEF Destroy
  <2>3. \A h \in RunType : Finish(h, "failed").at = "done" /\ Finish(h, "failed").res = "failed"
    BY FinishFields DEF Results
  <2>4. \A e : Felt(q, e) \in RunType
    BY <1>1, FeltFields
  <2>5. pr'[p].at = "done" /\ pr'[p].res = "failed"
    <3>1. \A b, n : Write(p, b, n) => pr'[p] = n
      BY <1>1 DEF Write
    <3> QED BY <1>1, <2>2, <2>3, <2>4, <3>1
  <2>6. pr'[p].at \notin Claiming /\ pr'[p].res # "ok"
    BY <2>5 DEF Claiming, Placing, Crediting
  <2> QED BY <1>2, <2>6, UnclaimedChapped DEF Chaps
<1>5. CASE q.cmd # "export"
  <2>1. q.cmd \notin Publishers \cup {"update"}
    BY <1>3, <1>5 DEF Publishers
  <2> QED BY <1>2, <2>1, OtherChaps
<1> QED BY <1>4, <1>5

LEMMA ExitChaps == ASSUME NEW p \in Proc, Ready(p), Exit(p) PROVE Chaps(p)
<1>1. NoRun.at \notin Claiming /\ NoRun.at # "done"
  BY NoRunIdle DEF Claiming, Placing, Crediting
<1>2. Chapped(NoRun, array)
  BY <1>1, UnclaimedChapped
<1> QED BY <1>2, ReadChaps DEF Exit

LEMMA StepChaps ==
    ASSUME NEW p \in Proc, Ready(p), Step(p)
    PROVE  Chaps(p)
<1>1. CASE Exists(p) \/ CloneSnapshot(p) \/ Lookup(p) \/ Rehome(p) \/ List(p) \/ SlotOf(p) \/ Pick(p)
  BY <1>1, ExistsChaps, CloneSnapshotChaps, LookupChaps, RehomeChaps, ListChaps, SlotOfChaps, PickChaps
<1>2. CASE VipsNew(p) \/ CreateTarget(p) \/ GetTarget(p) \/ Vips(p) \/ GetLun(p)
  BY <1>2, VipsNewChaps, CreateTargetChaps, GetTargetChaps, VipsChaps, GetLunChaps
<1>3. CASE Attach(p) \/ Resolve(p) \/ Confirm(p)
  BY <1>3, AttachChaps, ResolveChaps, ConfirmChaps
<1>4. CASE Users(p) \/ DelUser(p) \/ SetUser(p) \/ DropBad(p) \/ Active(p)
  BY <1>4, UsersChaps, DelUserChaps, SetUserChaps, DropBadChaps, ActiveChaps
<1>5. CASE Busy(p) \/ Detach(p) \/ Left(p) \/ Drop(p)
  BY <1>5, LeaveChaps
<1>6. CASE \/ Removed(p) \/ SweepList(p) \/ SweepLuns(p) \/ SweepCheck(p) \/ SweepDetach(p)
           \/ SweepAgain(p) \/ SweepDrop(p)
  BY <1>6, SweepChaps
<1>7. CASE ScanList(p) \/ ScanLuns(p) \/ ScanDetach(p) \/ ScanDrop(p) \/ ScanGone(p)
  BY <1>7, ScanChaps
<1>8. CASE Destroy(p) \/ Exit(p)
  BY <1>8, DestroyChaps, ExitChaps
<1> QED BY <1>1, <1>2, <1>3, <1>4, <1>5, <1>6, <1>7, <1>8 DEF Step

-----------------------------------------------------------------------------
(* Credentials, one command after the other.                               *)

\* A target that is still to be made for a killed command gets the credentials
\* of the publication at work.
Told == \A p \in Proc, r \in late : pr[p].at # "idle" /\ pr[p].cmd \in Publishers => r.u = pr[p].user

Credited == FewUsers(array) /\ (\A p \in Proc : Chapped(pr[p], array)) /\ Told

LEMMA IdleChapped == ASSUME NEW n, NEW b, n.at = "idle" PROVE Chapped(n, b)
<1> QED BY UnclaimedChapped DEF Claiming, Placing, Crediting

\* A target that comes late.
LEMMA ServeChapped ==
    ASSUME NEW a \in ArrayType, FewUsers(a), NEW t \in Target, NEW u, NEW b,
           b = create_target(a, t, u).a,
           NEW q, Chapped(q, a), q.at # "idle" /\ q.cmd \in Publishers => u = q.user
    PROVE  Chapped(q, b)
<1>1. /\ b.made = a.made \cup {t} /\ b.users = a.users
      /\ \A s \in Target : s # t \/ t \in a.made => b.chap[s] = a.chap[s]
      /\ t \notin a.made => New(b, t, u)
  BY create_target_Chap
<1>2. b.att = a.att /\ a.made \subseteq Target
  BY create_target_Effect, Fields
<1>3. \A s : LunsOf(b, s) = LunsOf(a, s)
  BY <1>2 DEF LunsOf, On
<1>4. \A s \in a.made : b.chap[s] = a.chap[s] /\ \A x : New(a, s, x) => New(b, s, x)
  BY <1>1, <1>2 DEF New
<1>5. Vain(q, a) => Vain(q, b)
  BY <1>2, <1>3 DEF Vain
<1>6. ASSUME q.cmd \in Publishers, q.at # "idle" PROVE Chosen(q, b)
  <2>1. Chosen(q, a) /\ u = q.user
    BY <1>6 DEF Chapped
  <2>2. q.at \in {"slot", "pick"} =>
          /\ q.seen \subseteq b.made /\ (q.at = "pick" => q.todo = {})
          /\ \A s \in q.seen \ q.todo : 0 \in LunsOf(b, s)
          /\ \A s \in (b.made \cap Own) \ q.seen : New(b, s, q.user)
    BY <1>1, <1>3, <1>4, <2>1 DEF Chosen
  <2>3. q.at \in Placing /\ q.fresh /\ q.tgt \in b.made => New(b, q.tgt, q.user) \/ Vain(q, b)
    BY <1>1, <1>4, <1>5, <2>1 DEF Chosen
  <2>4. q.at \in {"vips", "getLun", "attach", "resolve", "confirm"} /\ ~q.fresh
          => q.tgt \in b.made /\ q.flag = b.chap[q.tgt]
    BY <1>1, <1>4, <2>1 DEF Chosen
  <2> QED BY <1>1, <1>2, <2>1, <2>2, <2>3, <2>4 DEF Chosen
<1>7. ASSUME q.cmd \in Publishers \cup {"update"} PROVE Credits(q, b)
  <2>1. Credits(q, a)
    BY <1>7 DEF Chapped
  <2>2. q.tgt \in a.made => q.tgt \in b.made /\ b.chap[q.tgt] = a.chap[q.tgt] /\ b.users[q.tgt] = a.users[q.tgt]
    BY <1>1, <1>4
  <2>3. q.at \in Crediting \ {"target"} \/ (q.at = "done" /\ q.res = "ok") => q.tgt \in a.made
    BY <2>1 DEF Credits
  <2> QED BY <2>1, <2>2, <2>3 DEF Credits, Crediting
<1>8. CASE q.at = "idle"
  BY <1>8, IdleChapped
<1> QED BY <1>6, <1>7, <1>8 DEF Chapped

LEMMA BeginChapped ==
    ASSUME Types, NEW p \in Proc, NEW c \in Cmds, NEW v \in Volume, NEW u \in Modes \cup {None}, Begin(p, c, v, u)
    PROVE  /\ Chapped(pr'[p], array) /\ array' = array /\ late' = late
           /\ \A o \in Proc : o # p => pr'[o] = pr[o]
           /\ \A r \in late : pr'[p].cmd \in Publishers => r.u = pr'[p].user
<1> DEFINE at == CASE c = "export" -> "clone" [] c = "remove" -> "lookup" [] OTHER -> "exists"
           n == [NoRun EXCEPT !.cmd = c, !.vol = v, !.user = u, !.at = at]
<1>1. at \in {"clone", "lookup", "exists"}
  OBVIOUS
<1>2. pr' = [pr EXCEPT ![p] = n] /\ array' = array /\ late' = late
  BY DEF Begin
<1>3. pr'[p] = n /\ \A o \in Proc : o # p => pr'[o] = pr[o]
  BY <1>2 DEF Types
<1> HIDE DEF at
<1>4. n.at = at /\ n.cmd = c /\ n.user = u
  BY NoRunIdle DEF RunType
<1> HIDE DEF n
<1>5. n.at \notin Claiming /\ n.at # "done"
  BY <1>1, <1>4 DEF Claiming, Placing, Crediting
<1>6. \A r \in late : c \in Publishers => r.u = u
  BY DEF Begin, Publishers
<1> QED BY <1>2, <1>3, <1>4, <1>5, <1>6, UnclaimedChapped

LEMMA BeginTargetChapped ==
    ASSUME Types, NEW p \in Proc, NEW c, NEW t \in Own, NEW u \in Modes \cup {None}, BeginTarget(p, c, t, u)
    PROVE  /\ Chapped(pr'[p], array) /\ array' = array /\ late' = late
           /\ \A o \in Proc : o # p => pr'[o] = pr[o]
           /\ pr'[p].cmd \notin Publishers
<1> DEFINE at == IF c = "update" THEN "target" ELSE "drop"
           n == [NoRun EXCEPT !.cmd = c, !.user = u, !.tgt = t, !.from = t, !.at = at]
<1>1. c \in {"update", "delete"} /\ (c = "update" => at = "target")
  BY DEF BeginTarget
<1>2. pr' = [pr EXCEPT ![p] = n] /\ array' = array /\ late' = late
  BY DEF BeginTarget
<1>3. pr'[p] = n /\ \A o \in Proc : o # p => pr'[o] = pr[o]
  BY <1>2 DEF Types
<1> HIDE DEF at
<1>4. n.at = at /\ n.cmd = c /\ n.fresh = FALSE
  BY NoRunIdle DEF RunType, NoRun
<1> HIDE DEF n
<1>5. c \notin Publishers
  BY <1>1 DEF Publishers
<1>6. c = "update" => Credits(n, array)
  BY <1>1, <1>4 DEF Credits, Crediting
<1>7. Chapped(n, array)
  BY <1>1, <1>4, <1>5, <1>6 DEF Chapped
<1> QED BY <1>2, <1>3, <1>4, <1>5, <1>7

LEMMA InitCredited ==
    ASSUME Init
    PROVE  Credited
<1>1. array.users = [t \in Target |-> {}] /\ late = {}
  BY DEF Init
<1>2. \A p \in Proc : pr[p].at = "idle"
  BY NoRunIdle DEF Init
<1>3. FewUsers(array)
  BY <1>1 DEF FewUsers
<1> QED BY <1>1, <1>2, <1>3, IdleChapped DEF Credited, Told

\* One process goes on while the others are idle.
LEMMA OneCredited ==
    ASSUME NEW p \in Proc, \A o \in Proc : o # p => pr[o].at = "idle" /\ pr'[o] = pr[o],
           FewUsers(array'), Chapped(pr'[p], array'), late' \subseteq late,
           \A r \in late : pr'[p].at # "idle" /\ pr'[p].cmd \in Publishers => r.u = pr'[p].user
    PROVE  Credited'
<1>1. \A o \in Proc : o # p => pr'[o].at = "idle"
  OBVIOUS
<1>2. \A o \in Proc : Chapped(pr'[o], array')
  BY <1>1, IdleChapped
<1>3. Told'
  BY <1>1 DEF Told
<1> QED BY <1>2, <1>3 DEF Credited

LEMMA NextCredited ==
    ASSUME Sequential, Orderly, Credited, [Next]_vars
    PROVE  Credited'
<1>1. /\ Types /\ Alone /\ OnlyCreates /\ Sound /\ array \in ArrayType
      /\ FewUsers(array) /\ (\A p \in Proc : Chapped(pr[p], array)) /\ Told
  BY DEF Orderly, Credited, Types
<1>2. ASSUME NEW p \in Proc, Step(p) PROVE Credited'
  <2>1. Ready(p)
    BY <1>1, SoundFine DEF Ready
  <2>2. FewUsers(array') /\ Chapped(pr'[p], array')
    BY <1>2, <2>1, StepChaps DEF Chaps
  <2>3. \A o \in Proc : o # p => pr[o].at = "idle"
    BY <1>1, <1>2, StepWorks DEF Alone
  <2>4. PICK n \in RunType, b \in ArrayType : Goes(p, n, b)
    BY <1>1, <1>2, StepAdvances DEF Advances
  <2>5. late' = late /\ \A o \in Proc : o # p => pr'[o] = pr[o]
    BY <1>1, <2>4 DEF Goes, Types
  <2>6. \A r \in late : pr'[p].at # "idle" /\ pr'[p].cmd \in Publishers => r.u = pr'[p].user
    <3>1. CASE Exit(p)
      <4>1. pr'[p].at = "idle"
        BY <1>1, <3>1, NoRunIdle DEF Exit, Read, Types
      <4> QED BY <4>1
    <3>2. CASE ~Exit(p)
      <4>1. Kin(pr[p], pr'[p]) /\ pr[p].at # "idle"
        BY <1>1, <1>2, <3>2, StepKin, StepWorks
      <4> QED BY <1>1, <4>1 DEF Told, Kin
    <3> QED BY <3>1, <3>2
  <2> QED BY <2>2, <2>3, <2>5, <2>6, OneCredited
<1>3. ASSUME NEW p \in Proc, Kill(p) PROVE Credited'
  <2>1. /\ pr[p].at \in LateCalls
        /\ pr' = [pr EXCEPT ![p] = NoRun] /\ array' = array
    BY <1>1, <1>3, KillRequest
  <2>2. pr[p].at # "idle"
    BY <2>1 DEF Sequential
  <2>3. \A o \in Proc : pr'[o].at = "idle"
    BY <1>1, <2>1, <2>2, NoRunIdle DEF Alone, Types
  <2> QED BY <1>1, <2>1, <2>3, IdleChapped DEF Credited, Told
<1>4. ASSUME NEW p \in Proc, NEW c \in Cmds, NEW u \in Modes \cup {None}, NEW v \in Volume, Begin(p, c, v, u)
      PROVE  Credited'
  <2>1. \A o \in Proc : pr[o].at = "idle"
    BY <1>4 DEF Begin, Sequential
  <2> QED BY <1>1, <1>4, <2>1, BeginChapped, OneCredited
<1>5. ASSUME NEW p \in Proc, NEW c \in Cmds, NEW u \in Modes \cup {None}, NEW t \in Own, BeginTarget(p, c, t, u)
      PROVE  Credited'
  <2>1. \A o \in Proc : pr[o].at = "idle"
    BY <1>5 DEF BeginTarget, Quiet
  <2> QED BY <1>1, <1>5, <2>1, BeginTargetChapped, OneCredited
<1>6. ASSUME NEW r \in late, Serve(r) PROVE Credited'
  <2>1. r.c = "create" /\ r.t \in Target
    BY <1>1 DEF OnlyCreates, Types, Pending
  <2>2. array' = create_target(array, r.t, r.u).a /\ pr' = pr /\ late' \subseteq late
    BY <1>6, <2>1 DEF Serve
  <2>3. FewUsers(array')
    BY <1>1, <2>1, <2>2, create_target_Chap
  <2>4. \A p \in Proc : Chapped(pr[p], array')
    BY <1>1, <2>1, <2>2, ServeChapped DEF Told
  <2> QED BY <1>1, <2>2, <2>3, <2>4 DEF Credited, Told
<1>7. ASSUME NEW t \in Target, Login(t) \/ Logout(t) PROVE Credited'
  <2>1. UNCHANGED <<array, pr, late>>
    BY <1>7 DEF Login, Logout
  <2> QED BY <1>1, <2>1 DEF Credited, Told
<1>8. ASSUME NEW v \in Volume, CreateVolume(v) PROVE Credited'
  <2>1. \A p \in Proc : pr'[p].at = "idle"
    BY <1>1, <1>8, CreateVolumeArray DEF Quiet
  <2>2. Settings(array, array') /\ late' = late
    BY <1>1, <1>8 DEF CreateVolume, Settings, ArrayType
  <2>3. FewUsers(array')
    BY <1>1, <2>2, SettingsFew
  <2> QED BY <2>1, <2>2, <2>3, IdleChapped DEF Credited, Told
<1>9. CASE UNCHANGED vars
  BY <1>1, <1>9 DEF vars, Credited, Told
<1> QED BY <1>2, <1>3, <1>4, <1>5, <1>6, <1>7, <1>8, <1>9 DEF Next

\* What the commands know of users and of CHAP, whatever is executed late.
THEOREM CredentialsInvariance == ASSUME Sequential PROVE Spec => []Credited
<1>1. Init => Credited
  BY InitCredited
<1>2. Orderly /\ Credited /\ [Next]_vars => Credited'
  BY NextCredited
<1> QED BY <1>1, <1>2, SequentialInvariance, PTL DEF Spec

\* A command that succeeds leaves the target with exactly the user it was given,
\* and with CHAP on just when there is one.
THEOREM CredentialsApplied == ASSUME Sequential PROVE Spec => []ChapApplied
<1>1. Credited => ChapApplied
  BY DEF Credited, Chapped, Credits, ChapApplied, Ended, Publishers
<1> QED BY <1>1, CredentialsInvariance, PTL

-----------------------------------------------------------------------------
(* The answer of ensure_target_volume, with any request of a killed command  *)
(* to come: the volume is on the target at least.                            *)

Settling == {"users", "delUser", "setUser", "active"}

\* The command is about to answer, or has answered.
Settled(q) == q.at \in Settling \/ (q.at = "done" /\ q.res = "ok")

OnTarget(q, a) == a.att[q.vol] # None /\ a.att[q.vol][1] = q.tgt

\* What ensure_target_volume knows of its volume, whatever comes late.
Answering(q, a) == q.cmd = "create" => ~q.known /\ (Settled(q) => OnTarget(q, a))

LEMMA PublishedOn ==
    ASSUME NEW q, Publishing(q), NEW b, OnTarget(q, b)
    PROVE  OnTarget(Published(q), b)
<1>1. PublishedAs(q, Published(q))
  BY PublishedShape DEF Publishing
<1> QED BY <1>1 DEF PublishedAs, OnTarget

\* The forms in which a step leaves ensure_target_volume unsettled.
LEMMA Unsettled ==
    ASSUME Types, NEW p \in Proc, pr[p].cmd = "create"
    PROVE  LET q == pr[p] IN
           /\ \A n : Read(p, n) => pr'[p] = n /\ array' = array
           /\ \A b, n : Write(p, b, n) => pr'[p] = n /\ array' = b
           /\ \A e : ~Settled(Raised(q, e))
           /\ \A c : Refused(p, c) => ~Settled(pr'[p])
           /\ \A at \in Steps : Go(q, at) \in RunType /\ Go(q, at).at = at
           /\ \A t, l, attached, fresh : ~Settled(Acquired(q, t, l, attached, fresh))
<1> DEFINE q == pr[p]
<1>1. Job(q) /\ q \in RunType /\ pr \in [Proc -> RunType]
  BY Working DEF Types
<1>2. (\A n : Read(p, n) => pr'[p] = n /\ array' = array) /\ (\A b, n : Write(p, b, n) => pr'[p] = n /\ array' = b)
  BY <1>1 DEF Read, Write
<1>3. ASSUME NEW e PROVE ~Settled(Raised(q, e))
  <2>1. Handled(q, e, Raised(q, e))
    BY <1>1, RaisedHandled
  <2> QED BY <2>1 DEF Handled, Settled, Settling
<1>4. \A c : Refused(p, c) => ~Settled(pr'[p])
  BY <1>2, <1>3 DEF Refused
<1>5. \A at \in Steps : Go(q, at) \in RunType /\ Go(q, at).at = at
  BY <1>1, GoFields
<1>6. ASSUME NEW t, NEW l, NEW attached, NEW fresh
      PROVE  ~Settled(Acquired(q, t, l, attached, fresh))
  <2> DEFINE k == attached /\ q.cmd = "export"
             s == [q EXCEPT !.tgt = t, !.lun = l, !.fresh = fresh, !.seen = {}, !.todo = {},
                            !.idx = 0, !.known = k]
             at == IF fresh THEN "vipsNew" ELSE "target"
  <2>1. Acquired(q, t, l, attached, fresh) = Go(s, at)
    BY DEF Acquired
  <2>2. at \in {"vipsNew", "target"}
    OBVIOUS
  <2> HIDE DEF k, at
  <2>3. "at" \in DOMAIN s
    BY <1>1 DEF RunType
  <2> HIDE DEF s
  <2>4. Go(s, at).at = at
    BY <2>3 DEF Go
  <2> QED BY <2>1, <2>2, <2>4 DEF Settled, Settling
<1> QED BY <1>2, <1>3, <1>4, <1>5, <1>6

LEMMA ChooseUnsettled ==
    ASSUME Types, NEW p \in Proc, pr[p].cmd = "create",
           \/ Exists(p) \/ Lookup(p) \/ Rehome(p) \/ List(p) \/ SlotOf(p) \/ Pick(p)
    PROVE  ~Settled(pr'[p])
<1> DEFINE q == pr[p]
           U == ~Settled(pr'[p])
           Good(n) == ~Settled(n)
<1> SUFFICES U
  OBVIOUS
<1>b. q \in RunType
  BY Working
<1> HIDE DEF q
<1>0. /\ \A n : Read(p, n) /\ Good(n) => U
      /\ \A c : Refused(p, c) => U
      /\ \A e : Good(Raised(q, e))
      /\ \A at \in Steps : Go(q, at) \in RunType /\ Go(q, at).at = at
      /\ \A t, l, attached, fresh : Good(Acquired(q, t, l, attached, fresh))
  BY Unsettled DEF q
<1>a. ASSUME NEW n, n.at \in {"sList", "lookup", "rehome", "detach", "slot", "pick", "list"} PROVE Good(n)
  BY <1>a DEF Settled, Settling
<1>c. {"sList", "lookup", "rehome", "detach", "slot", "pick", "list"} \subseteq Steps
  BY DEF Steps, Scanning, Detaching
<1>d. \A at \in {"sList", "lookup", "rehome", "detach", "slot", "pick", "list"} : Good(Go(q, at))
  BY <1>0, <1>a, <1>c
<1> HIDE DEF U, Good
<1>1. CASE Exists(p)
  <2> DEFINE k == IF q.vol \in array.zvol THEN 1 ELSE 0
             h == [q EXCEPT !.errs = k]
  <2>1. h \in RunType
    <3>1. k \in Nat
      OBVIOUS
    <3> HIDE DEF k
    <3> QED BY <1>b, <3>1 DEF RunType
  <2>2. Good(Finish(h, "failed"))
    <3> HIDE DEF h
    <3> QED BY <2>1, FinishFields DEF Results, Good, Settled, Settling
  <2>3. Read(p, Go(q, "sList")) \/ Read(p, Go(q, "lookup")) \/ Read(p, Finish(h, "failed"))
    BY <1>1 DEF Exists, q
  <2> HIDE DEF h
  <2> QED BY <1>0, <1>d, <2>2, <2>3
<1>2. CASE List(p)
  <2> DEFINE S == array.made \cap Own
             at == IF S = {} THEN "pick" ELSE "slot"
             g == Go(q, at)
             n == [g EXCEPT !.seen = S, !.todo = S, !.tgt = None, !.lun = 0]
  <2>1. Refused(p, "list") \/ Read(p, n)
    BY <1>2 DEF List, q
  <2>2. at \in {"slot", "pick"} /\ at \in Steps
    BY <1>c
  <2> HIDE DEF S, at
  <2>3. g \in RunType /\ g.at = at
    BY <1>0, <2>2
  <2> HIDE DEF g
  <2>4. n.at = at
    BY <2>3 DEF RunType
  <2>5. Good(n)
    BY <2>2, <2>4 DEF Good, Settled, Settling
  <2> HIDE DEF n
  <2> QED BY <1>0, <2>1, <2>5
<1>3. CASE Rehome(p)
  <2> DEFINE g == Go(q, "detach")
             n == [g EXCEPT !.from = q.tgt, !.back = "list"]
  <2>1. Refused(p, "sessions") \/ Read(p, Acquired(q, q.tgt, q.lun, TRUE, FALSE)) \/ Read(p, n)
    BY <1>3 DEF Rehome, q
  <2>2. g \in RunType /\ g.at = "detach"
    BY <1>0, <1>c
  <2> HIDE DEF g
  <2>3. n.at = "detach"
    BY <2>2 DEF RunType
  <2>5. Good(n)
    BY <2>3 DEF Good, Settled, Settling
  <2> HIDE DEF n
  <2> QED BY <1>0, <2>1, <2>5
<1>4. CASE Lookup(p)
  <2> DEFINE slot == array.att[q.vol]
             g == Go(q, "rehome")
             n == [g EXCEPT !.tgt = slot[1], !.lun = slot[2]]
  <2>1. \/ Refused(p, "lookup")
        \/ Read(p, Acquired(q, slot[1], slot[2], TRUE, FALSE)) \/ Read(p, n)
        \/ Read(p, Acquired(q, None, 0, FALSE, FALSE)) \/ Read(p, Go(q, "list"))
    BY <1>4 DEF Lookup, q
  <2>2. g \in RunType /\ g.at = "rehome"
    BY <1>0, <1>c
  <2> HIDE DEF g, slot
  <2>3. n.at = "rehome"
    BY <2>2 DEF RunType
  <2>5. Good(n)
    BY <2>3 DEF Good, Settled, Settling
  <2> HIDE DEF n
  <2> QED BY <1>0, <1>d, <2>1, <2>5
<1>5. CASE SlotOf(p)
  <2> DEFINE t == Smallest(q.todo)
             l == Smallest((0..Luns - 1) \ LunsOf(array, t))
             at == IF q.todo = {t} THEN "pick" ELSE "slot"
             g == Go(q, at)
             n == [g EXCEPT !.todo = @ \ {t}]
  <2>1. Refused(p, "luns") \/ Read(p, n) \/ Read(p, Acquired(q, t, l, FALSE, FALSE))
    BY <1>5 DEF SlotOf, q
  <2>2. at \in {"slot", "pick"} /\ at \in Steps
    BY <1>c
  <2> HIDE DEF t, at, l
  <2>3. g \in RunType /\ g.at = at
    BY <1>0, <2>2
  <2> HIDE DEF g
  <2>4. n.at = at
    BY <2>3 DEF RunType
  <2>5. Good(n)
    BY <2>2, <2>4 DEF Good, Settled, Settling
  <2> HIDE DEF n
  <2> QED BY <1>0, <2>1, <2>5
<1>6. CASE Pick(p)
  <2> DEFINE i == Smallest({x \in q.idx..Cardinality(q.seen) : x \notin q.seen})
             n == [q EXCEPT !.idx = i + 1]
  <2>1. \/ Refused(p, "get_target") \/ Read(p, n)
        \/ Read(p, Acquired(q, i, 0, FALSE, TRUE)) \/ Read(p, Acquired(q, 0, 0, FALSE, TRUE))
    BY <1>6 DEF Pick, q
  <2>2. q.at = "pick"
    BY <1>6 DEF Pick, q
  <2> HIDE DEF i
  <2>3. n.at = "pick"
    BY <1>b, <2>2 DEF RunType
  <2>5. Good(n)
    BY <2>3 DEF Good, Settled, Settling
  <2> HIDE DEF n
  <2> QED BY <1>0, <2>1, <2>5
<1> QED BY <1>1, <1>2, <1>3, <1>4, <1>5, <1>6

LEMMA PlaceUnsettled ==
    ASSUME Types, NEW p \in Proc, pr[p].cmd = "create",
           \/ VipsNew(p) \/ CreateTarget(p) \/ GetTarget(p) \/ Resolve(p)
    PROVE  ~Settled(pr'[p])
<1> DEFINE q == pr[p]
           U == ~Settled(pr'[p])
           Good(n) == ~Settled(n)
<1> SUFFICES U
  OBVIOUS
<1>b. q \in RunType /\ q.cmd = "create"
  BY Working
<1> HIDE DEF q
<1>0. /\ \A n : Read(p, n) /\ Good(n) => U
      /\ \A b, n : Write(p, b, n) /\ Good(n) => U
      /\ \A c : Refused(p, c) => U
      /\ \A e : Good(Raised(q, e))
      /\ \A at \in Steps : Go(q, at) \in RunType /\ Go(q, at).at = at
  BY Unsettled DEF q
<1>c. {"create", "vipsNew", "vips", "attach", "confirm", "busy"} \subseteq Steps
  BY DEF Steps, Scanning, Detaching
<1>d. \A at \in {"create", "vipsNew", "vips", "attach", "confirm", "busy"} : Good(Go(q, at))
  BY <1>0, <1>c DEF Settled, Settling
<1> HIDE DEF U, Good
<1>1. CASE VipsNew(p)
  <2>1. Read(p, Raised(q, "error")) \/ Read(p, Go(q, "create"))
    BY <1>1, <1>b DEF VipsNew, q
  <2> QED BY <1>0, <1>d, <2>1
<1>2. CASE CreateTarget(p)
  <2> DEFINE g == Go(q, "attach")
             n == [g EXCEPT !.tries = 0]
  <2>1. PICK o : Write(p, o.a, IF o.r \in {"ok", "exists"} THEN n ELSE Raised(q, o.r))
    BY <1>2 DEF CreateTarget, q
  <2>2. g \in RunType /\ g.at = "attach"
    BY <1>0, <1>c
  <2> HIDE DEF g
  <2>3. n.at = "attach"
    BY <2>2 DEF RunType
  <2>4. Good(n)
    BY <2>3 DEF Good, Settled, Settling
  <2> HIDE DEF n
  <2>5. Good(IF o.r \in {"ok", "exists"} THEN n ELSE Raised(q, o.r))
    BY <1>0, <2>4
  <2> QED BY <1>0, <2>1, <2>5
<1>3. CASE GetTarget(p)
  <2> DEFINE g == Go(q, "vipsNew")
             n == [g EXCEPT !.fresh = TRUE]
             h == Go(q, "vips")
             m == [h EXCEPT !.flag = array.chap[q.tgt]]
  <2>1. Refused(p, "get_target") \/ Read(p, n) \/ Read(p, m)
    BY <1>3, <1>b DEF GetTarget, q
  <2>2. g \in RunType /\ g.at = "vipsNew" /\ h \in RunType /\ h.at = "vips"
    BY <1>0, <1>c
  <2> HIDE DEF g, h
  <2>3. n.at = "vipsNew" /\ m.at = "vips"
    BY <2>2 DEF RunType
  <2>4. Good(n) /\ Good(m)
    BY <2>3 DEF Good, Settled, Settling
  <2> HIDE DEF n, m
  <2> QED BY <1>0, <2>1, <2>4
<1>4. CASE Resolve(p)
  <2> DEFINE g == Go(q, "busy")
             f == array.att[q.vol][1]
             o == f = q.tgt
             n == [g EXCEPT !.from = f, !.only = o, !.back = "attach"]
  <2>1. \/ Refused(p, "lookup") \/ Read(p, Raised(q, "clash")) \/ Read(p, n)
        \/ Read(p, Go(q, "attach")) \/ Read(p, Go(q, "confirm"))
    BY <1>4 DEF Resolve, q
  <2>2. g \in RunType /\ g.at = "busy"
    BY <1>0, <1>c
  <2> HIDE DEF g, f, o
  <2>3. n.at = "busy"
    BY <2>2 DEF RunType
  <2>4. Good(n)
    BY <2>3 DEF Good, Settled, Settling
  <2> HIDE DEF n
  <2> QED BY <1>0, <1>d, <2>1, <2>4
<1> QED BY <1>1, <1>2, <1>3, <1>4

LEMMA MoveUnsettled ==
    ASSUME Types, NEW p \in Proc, pr[p].cmd = "create",
           \/ DropBad(p) \/ Busy(p) \/ Detach(p) \/ Left(p) \/ Drop(p)
    PROVE  ~Settled(pr'[p])
<1> DEFINE q == pr[p]
           U == ~Settled(pr'[p])
           Good(n) == ~Settled(n)
<1> SUFFICES U
  OBVIOUS
<1>b. q \in RunType /\ q.cmd = "create" /\ Job(q)
  BY Working
<1> HIDE DEF q
<1>0. /\ \A n : Read(p, n) /\ Good(n) => U
      /\ \A b, n : Write(p, b, n) /\ Good(n) => U
      /\ \A c : Refused(p, c) => U
      /\ \A e : Good(Raised(q, e))
      /\ \A at \in Steps : Go(q, at) \in RunType /\ Go(q, at).at = at
  BY Unsettled DEF q
<1>c. {"detach", "left", "drop", "list", "attach"} \subseteq Steps
  BY DEF Steps, Scanning, Detaching
<1>d. \A at \in {"detach", "left", "drop", "list", "attach"} : Good(Go(q, at))
  BY <1>0, <1>c DEF Settled, Settling
<1>e. q.at \in Detaching => q.back \in {"list", "attach"}
  BY <1>b DEF Job, Returns, Lookups, Publishers
<1> HIDE DEF U, Good
<1>1. CASE DropBad(p)
  <2>1. PICK o : Write(p, o.a, Raised(q, q.back))
    BY <1>1 DEF DropBad, q
  <2> QED BY <1>0, <2>1
<1>2. CASE Busy(p)
  <2>1. Refused(p, "sessions") \/ Read(p, Raised(q, "inuse")) \/ Read(p, Go(q, "detach"))
    BY <1>2 DEF Busy, q
  <2> QED BY <1>0, <1>d, <2>1
<1>3. CASE Detach(p)
  <2> DEFINE at == IF q.only THEN q.back ELSE "left"
  <2>1. PICK o : Write(p, o.a, IF o.r \in {"ok", "notfound"} THEN Go(q, at) ELSE Raised(q, o.r))
    BY <1>3 DEF Detach, q
  <2>2. at \in {"list", "attach", "left"}
    BY <1>3, <1>e DEF Detach, Detaching, q
  <2> HIDE DEF at
  <2>3. Good(IF o.r \in {"ok", "notfound"} THEN Go(q, at) ELSE Raised(q, o.r))
    BY <1>0, <1>d, <2>2
  <2> QED BY <1>0, <2>1, <2>3
<1>4. CASE Left(p)
  <2>1. \/ Refused(p, "luns") \/ Read(p, Raised(q, "notfound"))
        \/ Read(p, Go(q, "drop")) \/ Read(p, Go(q, q.back))
    BY <1>4 DEF Left, q
  <2>2. q.back \in {"list", "attach"}
    BY <1>4, <1>e DEF Left, Detaching, q
  <2> QED BY <1>0, <1>d, <2>1, <2>2
<1>5. CASE Drop(p)
  <2>1. PICK o : Write(p, o.a, IF o.r \in {"ok", "notfound"} THEN Go(q, q.back) ELSE Raised(q, o.r))
    BY <1>5, <1>b DEF Drop, q
  <2>2. q.back \in {"list", "attach"}
    BY <1>5, <1>e DEF Drop, Detaching, q
  <2>3. Good(IF o.r \in {"ok", "notfound"} THEN Go(q, q.back) ELSE Raised(q, o.r))
    BY <1>0, <1>d, <2>2
  <2> QED BY <1>0, <2>1, <2>3
<1> QED BY <1>1, <1>2, <1>3, <1>4, <1>5

\* Where the publication comes to its credentials, the volume is on the target.
LEMMA ArrivesOnTarget ==
    ASSUME Types, NEW p \in Proc, pr[p].cmd = "create", ~pr[p].known,
           Vips(p) \/ GetLun(p) \/ Attach(p) \/ Confirm(p)
    PROVE  Settled(pr'[p]) => OnTarget(pr'[p], array')
<1> DEFINE q == pr[p]
           W == Settled(pr'[p]) => OnTarget(pr'[p], array')
           Good(n) == ~Settled(n)
<1> SUFFICES W
  OBVIOUS
<1>1. q.at \in Attaching
  BY DEF Vips, GetLun, Attach, Confirm, Attaching
<1>2. Publishing(q) /\ q \in RunType /\ array \in ArrayType /\ ~q.known
  BY <1>1, PublisherWorks, Working
<1> HIDE DEF q
<1>3. q.vol \in Volume /\ q.tgt \in Target
  BY <1>2 DEF Publishing
<1>0. /\ \A n : Read(p, n) /\ Good(n) => W
      /\ \A b, n : Write(p, b, n) /\ Good(n) => W
      /\ \A c : Refused(p, c) => W
      /\ \A e : Good(Raised(q, e))
      /\ \A at \in Steps : Go(q, at) \in RunType /\ Go(q, at).at = at
  BY Unsettled DEF q
<1>4. ASSUME Read(p, Published(q)), OnTarget(q, array) PROVE W
  <2>1. pr'[p] = Published(q) /\ array' = array
    BY <1>4, Unsettled
  <2> QED BY <1>2, <1>4, <2>1, PublishedOn
<1>5. ASSUME NEW b, Write(p, b, Published(q)), OnTarget(q, b) PROVE W
  <2>1. pr'[p] = Published(q) /\ array' = b
    BY <1>5, Unsettled
  <2> QED BY <1>2, <1>5, <2>1, PublishedOn
<1>6. q.vol \in On(array, q.tgt) => OnTarget(q, array)
  BY <1>3 DEF On, OnTarget
<1>c. {"getLun", "attach", "resolve"} \subseteq Steps
  BY DEF Steps, Scanning, Detaching
<1>d. \A at \in {"getLun", "attach", "resolve"} : Good(Go(q, at))
  BY <1>0, <1>c DEF Settled, Settling
<1> HIDE DEF W, Good
<1>7. CASE Vips(p)
  <2>1. Refused(p, "vips") \/ Read(p, Go(q, "getLun")) \/ Read(p, Raised(q, "notfound"))
    BY <1>7, <1>2 DEF Vips, q
  <2> QED BY <1>0, <1>d, <2>1
<1>8. CASE GetLun(p)
  <2> DEFINE g == Go(q, "attach")
             n == [g EXCEPT !.tries = 0]
  <2>1. Refused(p, "get_lun") \/ (Read(p, Published(q)) /\ q.vol \in On(array, q.tgt)) \/ Read(p, n)
    BY <1>8 DEF GetLun, q
  <2>2. g \in RunType /\ g.at = "attach"
    BY <1>0, <1>c
  <2> HIDE DEF g
  <2>3. n.at = "attach"
    BY <2>2 DEF RunType
  <2>4. Good(n)
    BY <2>3 DEF Good, Settled, Settling
  <2> HIDE DEF n
  <2> QED BY <1>0, <1>4, <1>6, <2>1, <2>4
<1>9. CASE Confirm(p)
  <2>1. \/ Refused(p, "get_lun") \/ (Read(p, Published(q)) /\ q.vol \in On(array, q.tgt))
        \/ Read(p, Raised(q, "notfound"))
    BY <1>9 DEF Confirm, q
  <2> QED BY <1>0, <1>4, <1>6, <2>1
<1>10. CASE Attach(p)
  <2> DEFINE r == attach_target_vol(array, q.tgt, q.vol, q.lun)
             again == attach_target_vol(r.a, q.tgt, q.vol, q.lun)
             h(e) == Felt(q, e)
             n(e) == [Go(h(e), "resolve") EXCEPT !.tries = @ + 1]
  <2>1. PICK o \in Answers(q, "attach", r, again) \cup {Ret(array, "blocked")} :
          Write(p, o.a, IF o.r = "ok" THEN Published(q)
                        ELSE IF o.r \in {"busy", "blocked"} /\ q.tries + 1 < Attempts THEN n(o.r)
                        ELSE Raised(q, o.r))
    BY <1>10 DEF Attach, q
  <2>2. o.r = "ok" => OnTarget(q, o.a)
    <3>1. /\ r.a \in ArrayType /\ r.r \in {"ok", "notfound", "busy", "exists"}
          /\ r.r = "ok" => r.a.att[q.vol] = <<q.tgt, q.lun>>
          /\ again.a = r.a /\ again.r \in {"notfound", "busy", "exists"}
      BY <1>2, attach_target_vol_Effect DEF Publishing
    <3>2. CASE o \in Answers(q, "attach", r, again)
      <4> HIDE DEF r, again
      <4>1. o.r = "ok" => o.a.att[q.vol] = <<q.tgt, q.lun>>
        BY <1>2, <3>1, <3>2, Answer
      <4>2. <<q.tgt, q.lun>> # None
        BY <1>2, TargetsAssumption DEF Publishing, Slot
      <4>3. ASSUME NEW x, NEW y PROVE <<x, y>>[1] = x
        OBVIOUS
      <4>4. <<q.tgt, q.lun>>[1] = q.tgt
        BY <4>3
      <4> DEFINE slot == <<q.tgt, q.lun>>
      <4>5. o.r = "ok" => o.a.att[q.vol] = slot
        BY <4>1
      <4>6. slot # None /\ slot[1] = q.tgt
        BY <4>2, <4>4
      <4> HIDE DEF slot
      <4> QED BY <4>5, <4>6 DEF OnTarget
    <3>3. CASE o = Ret(array, "blocked")
      BY <3>3 DEF Ret
    <3> QED BY <2>1, <3>2, <3>3
  <2>3. \A e : Good(n(e))
    <3> TAKE e
    <3> DEFINE g == Go(h(e), "resolve")
    <3>1. h(e) \in RunType
      BY <1>2, FeltFields
    <3> HIDE DEF h
    <3>2. g \in RunType /\ g.at = "resolve"
      BY <1>c, <3>1, GoFields
    <3>3. n(e) = [g EXCEPT !.tries = @ + 1]
      OBVIOUS
    <3> HIDE DEF g, n
    <3>4. n(e).at = "resolve"
      BY <3>2, <3>3 DEF RunType
    <3> QED BY <3>4 DEF Good, Settled, Settling
  <2> HIDE DEF r, again, n
  <2>4. CASE o.r = "ok"
    <3>1. Write(p, o.a, Published(q))
      BY <2>1, <2>4
    <3> QED BY <1>5, <2>2, <2>4, <3>1
  <2>5. CASE o.r # "ok"
    <3> DEFINE m == IF o.r \in {"busy", "blocked"} /\ q.tries + 1 < Attempts THEN n(o.r)
                    ELSE Raised(q, o.r)
    <3>1. Write(p, o.a, m)
      BY <2>1, <2>5
    <3>2. Good(m)
      BY <1>0, <2>3
    <3> HIDE DEF m
    <3> QED BY <1>0, <3>1, <3>2
  <2> QED BY <2>4, <2>5
<1> QED BY <1>7, <1>8, <1>9, <1>10

\* The credentials leave the volume and the target of the command.
LEMMA SettlesSame ==
    ASSUME Types, NEW p \in Proc, pr[p].cmd = "create",
           Users(p) \/ DelUser(p) \/ SetUser(p) \/ Active(p)
    PROVE  Settled(pr'[p]) => pr'[p].vol = pr[p].vol /\ pr'[p].tgt = pr[p].tgt
<1> DEFINE q == pr[p]
           W == Settled(pr'[p]) => pr'[p].vol = pr[p].vol /\ pr'[p].tgt = pr[p].tgt
           Good(n) == ~Settled(n) \/ (n.vol = q.vol /\ n.tgt = q.tgt)
<1> SUFFICES W
  OBVIOUS
<1>b. q \in RunType /\ q.cmd = "create"
  BY Working
<1>0. /\ \A n : Read(p, n) /\ Good(n) => W
      /\ \A b, n : Write(p, b, n) /\ Good(n) => W
      /\ \A c : Refused(p, c) => W
      /\ \A e : Good(Raised(q, e))
  <2>1. /\ (\A n : Read(p, n) => pr'[p] = n) /\ (\A b, n : Write(p, b, n) => pr'[p] = n)
    BY DEF Types, Read, Write
  <2>2. \A e : ~Settled(Raised(q, e))
    BY Unsettled
  <2>3. \A e : Good(Raised(q, e))
    BY <2>2
  <2> QED BY <2>1, <2>3 DEF Refused
<1> HIDE DEF q, W
<1>c. {"active", "users", "delUser", "setUser"} \subseteq Steps /\ "ok" \in Results
  BY DEF Steps, Results
<1>d. \A at \in {"active", "users", "setUser"} : Good(Go(q, at))
  <2> SUFFICES ASSUME NEW at \in {"active", "users", "setUser"} PROVE Good(Go(q, at))
    OBVIOUS
  <2>1. at \in Steps
    BY <1>c
  <2>2. Go(q, at).vol = q.vol /\ Go(q, at).tgt = q.tgt
    BY <1>b, <2>1, GoFields
  <2> QED BY <2>2
<1>e. Good(Finish(q, "ok"))
  BY <1>b, <1>c, FinishFields
<1>1. CASE Users(p)
  <2> DEFINE at == IF array.users[q.tgt] = {} THEN "setUser" ELSE "delUser"
             g == Go(q, at)
             n == [g EXCEPT !.todo = array.users[q.tgt]]
  <2>1. \/ Refused(p, "users") \/ Read(p, Finish(q, "ok")) \/ Read(p, Go(q, "active"))
        \/ Read(p, Raised(q, "notfound")) \/ Read(p, n)
    BY <1>1, <1>b DEF Users, q
  <2>2. at \in Steps
    BY <1>c
  <2> HIDE DEF at
  <2>3. g \in RunType /\ g.vol = q.vol /\ g.tgt = q.tgt
    BY <1>b, <2>2, GoFields
  <2> HIDE DEF g
  <2>4. n.vol = q.vol /\ n.tgt = q.tgt
    BY <2>3 DEF RunType
  <2> HIDE DEF n
  <2> QED BY <1>0, <1>d, <1>e, <2>1, <2>4
<1>2. CASE DelUser(p)
  <2> DEFINE n(u) == [q EXCEPT !.todo = @ \ {u}, !.at = IF q.todo = {u} THEN "setUser" ELSE "delUser"]
  <2>1. PICK u, o : \/ Write(p, o.a, Finish(q, "ok")) \/ Write(p, o.a, n(u)) \/ Write(p, o.a, Raised(q, o.r))
    BY <1>2 DEF DelUser, q
  <2>2. n(u).vol = q.vol /\ n(u).tgt = q.tgt
    BY <1>b DEF RunType
  <2> HIDE DEF n
  <2> QED BY <1>0, <1>e, <2>1, <2>2
<1>3. CASE SetUser(p)
  <2> DEFINE h(e) == Felt(q, e)
             n(e) == [Go(h(e), "dropBad") EXCEPT !.back = e]
  <2>1. PICK o : Write(p, o.a, Finish(q, "ok")) \/ Write(p, o.a, Go(q, "active")) \/ Write(p, o.a, n(o.r))
    BY <1>3, <1>b DEF SetUser, q
  <2>2. Good(n(o.r))
    <3> DEFINE g == Go(h(o.r), "dropBad")
    <3>1. h(o.r) \in RunType /\ "dropBad" \in Steps
      BY <1>b, FeltFields DEF Steps
    <3> HIDE DEF h
    <3>2. g \in RunType /\ g.at = "dropBad"
      BY <3>1, GoFields
    <3>3. n(o.r) = [g EXCEPT !.back = o.r]
      OBVIOUS
    <3> HIDE DEF g, n
    <3>4. n(o.r).at = "dropBad"
      BY <3>2, <3>3 DEF RunType
    <3> QED BY <3>4 DEF Settled, Settling
  <2> HIDE DEF n
  <2> QED BY <1>0, <1>d, <1>e, <2>1, <2>2
<1>4. CASE Active(p)
  <2> DEFINE n == IF q.user # None THEN Finish(q, "ok") ELSE Go(q, "users")
  <2>1. Read(p, n) \/ \E o : Write(p, o.a, IF o.r = "ok" THEN n ELSE Raised(q, o.r))
    BY <1>4 DEF Active, q
  <2>2. Good(n)
    BY <1>d, <1>e
  <2> HIDE DEF n
  <2>3. CASE Read(p, n)
    BY <1>0, <2>2, <2>3
  <2>4. CASE \E o : Write(p, o.a, IF o.r = "ok" THEN n ELSE Raised(q, o.r))
    <3>1. PICK o : Write(p, o.a, IF o.r = "ok" THEN n ELSE Raised(q, o.r))
      BY <2>4
    <3>2. Good(IF o.r = "ok" THEN n ELSE Raised(q, o.r))
      BY <1>0, <2>2
    <3> QED BY <1>0, <3>1, <3>2
  <2> QED BY <2>1, <2>3, <2>4
<1> QED BY <1>1, <1>2, <1>3, <1>4

\* No step of a publication makes it forget where its volume is.
LEMMA StepAnswering ==
    ASSUME Types, NEW p \in Proc, Step(p), Answering(pr[p], array)
    PROVE  Answering(pr'[p], array')
<1>1. CASE Exit(p)
  <2>1. pr'[p] = NoRun
    BY <1>1 DEF Exit, Read, Types
  <2> QED BY <2>1 DEF Answering, NoRun
<1>2. CASE ~Exit(p)
  <2> SUFFICES ASSUME pr'[p].cmd = "create"
               PROVE  ~pr'[p].known /\ (Settled(pr'[p]) => OnTarget(pr'[p], array'))
    BY DEF Answering
  <2>1. Kin(pr[p], pr'[p]) /\ Job(pr[p]) /\ Method(pr[p])
    BY <1>2, StepKin, Working DEF Job
  <2>2. pr[p].cmd = "create" /\ ~pr[p].known /\ ~pr'[p].known
    BY <2>1 DEF Kin, Answering
  <2>3. CASE \/ Exists(p) \/ Lookup(p) \/ Rehome(p) \/ List(p) \/ SlotOf(p) \/ Pick(p)
    BY <2>2, <2>3, ChooseUnsettled
  <2>4. CASE \/ VipsNew(p) \/ CreateTarget(p) \/ GetTarget(p) \/ Resolve(p)
    BY <2>2, <2>4, PlaceUnsettled
  <2>5. CASE \/ DropBad(p) \/ Busy(p) \/ Detach(p) \/ Left(p) \/ Drop(p)
    BY <2>2, <2>5, MoveUnsettled
  <2>6. CASE Vips(p) \/ GetLun(p) \/ Attach(p) \/ Confirm(p)
    BY <2>2, <2>6, ArrivesOnTarget
  <2>7. CASE Users(p) \/ DelUser(p) \/ SetUser(p) \/ Active(p)
    <3>1. pr[p].at \in Settling
      BY <2>7 DEF Users, DelUser, SetUser, Active, Settling
    <3>2. OnTarget(pr[p], array) /\ pr[p].vol \in Volume
      BY <2>1, <2>2, <3>1 DEF Answering, Settled, Job, Args
    <3>3. ~Takes(pr[p], pr[p].vol)
      BY <3>1 DEF Takes, Settling
    <3>4. array'.att[pr[p].vol] = array.att[pr[p].vol]
      BY <3>2, <3>3, StepStays DEF Stays, OnTarget
    <3>5. Settled(pr'[p]) => pr'[p].vol = pr[p].vol /\ pr'[p].tgt = pr[p].tgt
      BY <2>2, <2>7, SettlesSame
    <3> QED BY <2>2, <3>2, <3>4, <3>5 DEF OnTarget
  <2>8. CASE CloneSnapshot(p) \/ Removed(p) \/ Destroy(p)
    BY <2>1, <2>2, <2>8 DEF CloneSnapshot, Removed, Destroy, Method
  <2>9. CASE \/ SweepList(p) \/ SweepLuns(p) \/ SweepCheck(p) \/ SweepDetach(p)
             \/ SweepAgain(p) \/ SweepDrop(p)
    <3>1. pr[p].at \in Sweeping
      BY <2>9 DEF SweepList, SweepLuns, SweepCheck, SweepDetach, SweepAgain, SweepDrop, Sweeping
    <3> QED BY <2>1, <2>2, <3>1 DEF Method
  <2>10. CASE ScanList(p) \/ ScanLuns(p) \/ ScanDetach(p) \/ ScanDrop(p) \/ ScanGone(p)
    <3>1. pr[p].at \in Scanning
      BY <2>10 DEF ScanList, ScanLuns, ScanDetach, ScanDrop, ScanGone, Scanning
    <3> QED BY <2>1, <2>2, <3>1 DEF Method
  <2> QED BY <1>2, <2>3, <2>4, <2>5, <2>6, <2>7, <2>8, <2>9, <2>10 DEF Step
<1> QED BY <1>1, <1>2

\* One command at a time, and what each knows of its volume.
Answered == Alone /\ \A p \in Proc : Answering(pr[p], array)

\* What happens between the commands leaves a volume on its target.
LEMMA AnsweringStays ==
    ASSUME NEW q, Answering(q, array), q.cmd = "create" => q.vol \in Volume,
           \A v \in Volume : array.att[v] # None => array'.att[v] = array.att[v]
    PROVE  Answering(q, array')
<1> QED BY DEF Answering, OnTarget

LEMMA NextAnswered ==
    ASSUME Overlap = {}, Types, Answered, [Next]_vars
    PROVE  Answered'
<1>1. /\ Alone /\ array \in ArrayType /\ pr \in [Proc -> RunType]
      /\ \A p \in Proc : Answering(pr[p], array) /\ (pr[p].cmd = "create" => pr[p].vol \in Volume)
  BY Working DEF Answered, Types, Job, Args
\* An idle process, or one whose command begins, has nothing to answer.
<1>2. ASSUME NEW p \in Proc, \A o \in Proc : o # p => pr[o].at = "idle" /\ pr'[o] = pr[o],
             Answering(pr'[p], array')
      PROVE  Answered'
  <2>1. \A o \in Proc : o # p => Answering(pr'[o], array')
    BY <1>1, <1>2 DEF Answering, Settled, Settling
  <2> QED BY <1>2, <2>1 DEF Answered, Alone
<1>3. ASSUME UNCHANGED pr, \A v \in Volume : array.att[v] # None => array'.att[v] = array.att[v]
      PROVE  Answered'
  BY <1>1, <1>3, AnsweringStays DEF Answered, Alone
<1>4. ASSUME NEW p \in Proc, Step(p) PROVE Answered'
  <2>1. PICK n \in RunType, b \in ArrayType : Goes(p, n, b)
    BY <1>1, <1>4, StepAdvances DEF Advances
  <2>2. \A o \in Proc : o # p => pr[o].at = "idle" /\ pr'[o] = pr[o]
    BY <1>1, <1>4, <2>1, StepWorks DEF Alone, Goes
  <2>3. Answering(pr'[p], array')
    BY <1>1, <1>4, StepAnswering
  <2> QED BY <1>2, <2>2, <2>3
<1>5. ASSUME NEW p \in Proc, Kill(p) PROVE Answered'
  <2>1. pr' = [pr EXCEPT ![p] = NoRun] /\ array' = array
    BY <1>5, KillRequest
  <2>2. \A o \in Proc : pr'[o] \in {NoRun, pr[o]}
    BY <1>1, <2>1
  <2>3. \A o \in Proc : Answering(pr'[o], array')
    BY <1>1, <2>1, <2>2 DEF Answering, NoRun
  <2>4. Alone'
    BY <1>1, <2>2, NoRunIdle DEF Alone
  <2> QED BY <2>3, <2>4 DEF Answered
<1>6. ASSUME NEW p \in Proc, NEW c \in Cmds, NEW u \in Modes \cup {None}, NEW v \in Volume, Begin(p, c, v, u)
      PROVE  Answered'
  <2>1. \A o \in Proc : pr[o].at = "idle"
    BY <1>6 DEF Begin
  <2> DEFINE at == CASE c = "export" -> "clone" [] c = "remove" -> "lookup" [] OTHER -> "exists"
             n == [NoRun EXCEPT !.cmd = c, !.vol = v, !.user = u, !.at = at]
  <2>2. pr' = [pr EXCEPT ![p] = n]
    BY <1>6 DEF Begin
  <2>3. at \in {"clone", "lookup", "exists"}
    OBVIOUS
  <2> HIDE DEF at
  <2>4. n.at = at /\ n.known = FALSE
    BY DEF NoRun
  <2> HIDE DEF n
  <2>5. Answering(n, array')
    BY <2>3, <2>4 DEF Answering, Settled, Settling
  <2> QED BY <1>1, <1>2, <2>1, <2>2, <2>5
<1>7. ASSUME NEW p \in Proc, NEW c \in Cmds, NEW u \in Modes \cup {None}, NEW t \in Own, BeginTarget(p, c, t, u)
      PROVE  Answered'
  <2>1. \A o \in Proc : pr[o].at = "idle"
    BY <1>7 DEF BeginTarget, Quiet
  <2> DEFINE at == IF c = "update" THEN "target" ELSE "drop"
             n == [NoRun EXCEPT !.cmd = c, !.user = u, !.tgt = t, !.from = t, !.at = at]
  <2>2. pr' = [pr EXCEPT ![p] = n] /\ c \in {"update", "delete"}
    BY <1>7 DEF BeginTarget
  <2> HIDE DEF at
  <2>3. n.cmd = c
    BY DEF NoRun
  <2> HIDE DEF n
  <2>4. Answering(n, array')
    BY <2>2, <2>3 DEF Answering
  <2> QED BY <1>1, <1>2, <2>1, <2>2, <2>4
<1>8. ASSUME NEW r \in late, Serve(r) PROVE Answered'
  <2>1. UNCHANGED pr /\ Pending(r)
    BY <1>8, ServeArray DEF Types
  <2>2. CASE r.c = "create"
    BY <1>3, <1>8, <2>1, <2>2, ServeArray
  <2>3. CASE r.c # "create"
    <3>1. array' = attach_target_vol(array, r.t, r.v, r.l).a /\ r.l \in 0..Luns - 1
      BY <1>8, <2>1, <2>3 DEF Serve, Pending, RequestType
    <3>2. \A w \in Volume : array.att[w] # None => array'.att[w] = array.att[w]
      BY <1>1, <3>1, attach_target_vol_Effect
    <3> QED BY <1>3, <2>1, <3>2
  <2> QED BY <2>2, <2>3
<1>9. ASSUME NEW t \in Target, Login(t) \/ Logout(t) PROVE Answered'
  BY <1>3, <1>9 DEF Login, Logout
<1>10. ASSUME NEW v \in Volume, CreateVolume(v) PROVE Answered'
  <2>1. array'.att = array.att /\ UNCHANGED pr
    BY <1>1, <1>10 DEF CreateVolume, ArrayType
  <2> QED BY <1>3, <2>1
<1>11. CASE UNCHANGED vars
  BY <1>3, <1>11 DEF vars
<1> QED BY <1>4, <1>5, <1>6, <1>7, <1>8, <1>9, <1>10, <1>11 DEF Next

\* A publication that succeeds leaves the volume on the target it answers with,
\* where commands do not overlap: whatever fails, is executed twice or is
\* executed late, an attach of a killed publication among it.
THEOREM TargetAnswered == ASSUME Overlap = {} PROVE Spec => []AnswerOnTarget
<1>1. Init => Answered
  BY NoRunIdle DEF Init, Answered, Alone, Answering, NoRun
<1>2. Types /\ Answered /\ [Next]_vars => Answered'
  BY NextAnswered
<1>3. Types /\ Answered => AnswerOnTarget
  <2> SUFFICES ASSUME Types, Answered, NEW p \in Proc, Ended(p, {"create"}, "ok")
               PROVE  array.att[pr[p].vol] \in {pr[p].tgt} \X (0..Luns - 1)
    BY DEF AnswerOnTarget
  <2>1. OnTarget(pr[p], array)
    BY DEF Answered, Answering, Settled, Ended
  <2>2. pr[p].vol \in Volume /\ array \in ArrayType
    BY Working DEF Job, Args, Ended
  <2>3. /\ array.att[pr[p].vol] = <<array.att[pr[p].vol][1], array.att[pr[p].vol][2]>>
        /\ array.att[pr[p].vol][2] \in 0..Luns - 1
    BY <2>1, <2>2, Slots DEF OnTarget
  <2> QED BY <2>1, <2>3 DEF OnTarget
<1> QED BY <1>1, <1>2, <1>3, Invariance, PTL DEF Spec

-----------------------------------------------------------------------------
(* A command that met no failure fails only when its volume is not there.   *)

\* No request of a killed command comes late, an attach is tried twice, and a
\* request is resent only where there is one user at most.
Undisturbed ==
    /\ Sequential /\ LateCalls = {} /\ Attempts > 1
    /\ Lossy => \A u, w \in User : u = w

\* A volume is on targets that are there.
Housed(a) == \A v \in Volume : a.att[v] # None => a.att[v][1] \in a.made

Seeking == {"exists", "lookup", "rehome", "list", "slot", "pick", "detach", "left", "drop"}

\* What a publication that met no failure knows of the slot it works towards:
\* the target is there, or is not, as the step expects, and the LUN is free.
Slotted(q, a) ==
    /\ q.at \in Seeking => q.idx = 0
    /\ q.at \in {"slot", "pick"} => q.seen = a.made \cap Own
    /\ q.at \in {"vipsNew", "create"} => q.tgt \notin a.made /\ a.att[q.vol] = None
    /\ q.at \in {"target", "vips", "getLun"} =>
          q.tgt \in a.made /\ (a.att[q.vol] = None => q.lun \notin LunsOf(a, q.tgt))
    /\ q.at = "attach" => q.tries = 0 /\ a.att[q.vol] = None /\ q.lun \notin LunsOf(a, q.tgt)
    /\ q.at = "resolve" => a.att[q.vol] = <<q.tgt, q.lun>>
    /\ q.at = "delUser" /\ Lossy => q.user = None
    /\ q.at # "dropBad"

\* A command that met no failure has nothing before it that stops it.
Excused(q, a) ==
    q.errs = 0 =>
       /\ q.cmd \in {"create", "get"} /\ q.at \in {"detach", "left"} => q.from \in a.made
       /\ q.cmd = "create" => Slotted(q, a)
       /\ q.at = "done" /\ q.res = "failed" /\ q.cmd \notin {"update", "delete"} => q.vol \notin a.zvol

Poised(p) == Ready(p) /\ Housed(array) /\ Excused(pr[p], array)

Excuses(p) == Excused(pr'[p], array')

LEMMA PoisedWorks ==
    ASSUME NEW p \in Proc, Poised(p)
    PROVE  /\ Ready(p) /\ Job(pr[p]) /\ pr[p] \in RunType /\ array \in ArrayType /\ Housed(array)
           /\ Chapped(pr[p], array) /\ Placed(pr[p], array) /\ Excused(pr[p], array)
<1> QED BY ReadyWorks DEF Poised

LEMMA ReadExcuses ==
    ASSUME NEW p \in Proc, Poised(p), NEW n, Read(p, n), Excused(n, array)
    PROVE  Excuses(p)
<1>1. pr'[p] = n /\ array' = array
  BY DEF Read, Poised, Ready, Types
<1> QED BY <1>1 DEF Excuses

LEMMA WriteExcuses ==
    ASSUME NEW p \in Proc, Poised(p), NEW n, NEW b, Write(p, b, n), Excused(n, b)
    PROVE  Excuses(p)
<1>1. pr'[p] = n /\ array' = b
  BY DEF Write, Poised, Ready, Types
<1> QED BY <1>1 DEF Excuses

Minded == Seeking \cup {"vipsNew", "create", "target", "vips", "getLun", "attach", "resolve", "delUser", "dropBad"}

\* Where nothing is claimed of the slot, nothing can be wrong.
LEMMA UnmindedExcused ==
    ASSUME NEW n, NEW b, n.at \notin Minded, n.at = "done" => n.res # "failed"
    PROVE  Excused(n, b)
<1> QED BY DEF Excused, Slotted, Minded, Seeking

LEMMA OthersExcused ==
    ASSUME NEW n, NEW b, n.cmd \notin {"create", "get"}, n.at = "done" => n.res # "failed"
    PROVE  Excused(n, b)
<1> QED BY DEF Excused

LEMMA UpdateExcused ==
    ASSUME NEW n, NEW b, n.cmd \in {"update", "delete"}
    PROVE  Excused(n, b)
<1> QED BY DEF Excused

\* A command that met a failure is excused.
LEMMA FailedExcused ==
    ASSUME NEW q, Job(q), NEW e, NEW b,
           q.errs # 0 \/ e \in {"error", "cfg", "blocked", "clash", "inuse"}
    PROVE  Excused(Raised(q, e), b)
<1> DEFINE n == Raised(q, e)
<1>1. Handled(q, e, n) /\ q.errs \in Nat
  BY RaisedHandled DEF Job, RunType
<1> HIDE DEF n
<1>2. n.errs # 0
  BY <1>1 DEF Handled
<1> QED BY <1>2 DEF Excused, n

LEMMA RefusedExcuses ==
    ASSUME NEW p \in Proc, Poised(p), NEW c, Refused(p, c)
    PROVE  Excuses(p)
<1>1. PICK e \in Errors(pr[p], c) : Read(p, Raised(pr[p], e))
  BY DEF Refused
<1>2. e \in {"error", "cfg"}
  BY DEF Errors
<1> QED BY <1>1, <1>2, PoisedWorks, FailedExcused, ReadExcuses

\* What an export or a removal cannot do is not the end of it.
LEMMA SparedExcused ==
    ASSUME NEW q, Job(q), NEW e, NEW b,
           \/ q.cmd = "export" /\ q.at # "clone"
           \/ q.cmd \in {"remove", "unexport"} /\ q.at \in Detaching
    PROVE  Excused(Raised(q, e), b)
<1> DEFINE h == Felt(q, e)
           n == Raised(q, e)
<1>1. Handled(q, e, n) /\ h \in RunType
  BY RaisedHandled, FeltFields DEF Job
<1>2. n \in {Go(h, "destroy"), [Go(h, "sList") EXCEPT !.res = "failed"], Go(h, "removed")}
  BY DEF Raised
<1> HIDE DEF n, h
<1>3. Go(h, "destroy").at = "destroy" /\ Go(h, "removed").at = "removed"
  BY <1>1, GoFields, StepNames
<1>4. [Go(h, "sList") EXCEPT !.res = "failed"].at = "sList"
  <2> DEFINE g == Go(h, "sList")
  <2>1. g \in RunType /\ g.at = "sList"
    BY <1>1, GoFields, StepNames DEF Scanning
  <2> HIDE DEF g
  <2>2. [g EXCEPT !.res = "failed"].at = "sList"
    BY <2>1 DEF RunType
  <2> QED BY <2>2 DEF g
<1>5. n.at \in {"destroy", "sList", "removed"}
  BY <1>2, <1>3, <1>4
<1>6. n.at \notin Minded /\ n.at # "done"
  BY <1>5 DEF Minded, Seeking
<1>7. Excused(n, b)
  BY <1>6, UnmindedExcused
<1> QED BY <1>7 DEF n

\* On the way to the choice of a slot.
LEMMA SeekExcused ==
    ASSUME NEW q, NEW a, NEW n, NEW b, q.at \in Seeking, Excused(q, a), n.at \in Seeking \ {"slot", "pick"},
           n.cmd = q.cmd, n.errs = q.errs, n.idx = q.idx, n.at \in {"detach", "left"} => n.from \in b.made
    PROVE  Excused(n, b)
<1>1. q.errs = 0 /\ q.cmd = "create" => q.idx = 0
  BY DEF Excused, Slotted
<1>2. n.errs = 0 /\ n.cmd = "create" => Slotted(n, b)
  BY <1>1 DEF Slotted, Seeking
<1> QED BY <1>2 DEF Excused, Seeking

\* The slot that was found.
LEMMA AcquiredExcused ==
    ASSUME NEW q \in RunType, q.vol \in Volume,
           NEW t \in Target \cup {None}, NEW l \in 0..Luns - 1,
           NEW attached \in BOOLEAN, NEW fresh \in BOOLEAN,
           q.cmd \in Lookups \cup {"getCurrent", "remove", "unexport"},
           q.cmd \in Publishers \/ attached => t \in Target,
           NEW a,
           q.cmd = "create" /\ q.errs = 0 /\ fresh => t \notin a.made /\ a.att[q.vol] = None,
           q.cmd = "create" /\ q.errs = 0 /\ ~fresh =>
              t \in a.made /\ (a.att[q.vol] = None => l \notin LunsOf(a, t))
    PROVE  Excused(Acquired(q, t, l, attached, fresh), a)
<1> DEFINE n == Acquired(q, t, l, attached, fresh)
<1>1. AcquiredAs(q, t, l, attached, fresh, n)
  BY AcquiredShape
<1> HIDE DEF n
<1>2. CASE q.cmd \in Publishers
  <2>1. /\ n.cmd = q.cmd /\ n.vol = q.vol /\ n.errs = q.errs /\ n.at = IF fresh THEN "vipsNew" ELSE "target"
        /\ n.tgt = t /\ n.lun = l
    BY <1>1, <1>2 DEF AcquiredAs, Publishers
  <2>2. n.cmd = "create" /\ n.errs = 0 => Slotted(n, a)
    BY <2>1 DEF Slotted, Seeking
  <2> QED BY <1>2, <2>1, <2>2 DEF Excused, n
<1>3. CASE q.cmd \notin Publishers
  <2>1. n.cmd = q.cmd /\ q.cmd # "create"
    BY <1>1, <1>3 DEF AcquiredAs, Publishers
  <2>2. /\ n.cmd = "get" => n.at \notin {"detach", "left"}
        /\ n.at = "done" => n.res = "ok"
    BY <1>1, <2>1 DEF AcquiredAs, Publishers
  <2> QED BY <2>1, <2>2 DEF Excused, n
<1> QED BY <1>2, <1>3

LEMMA ExistsExcuses == ASSUME NEW p \in Proc, Poised(p), Exists(p) PROVE Excuses(p)
<1> DEFINE q == pr[p]
<1>1. q \in RunType /\ q.at = "exists" /\ Job(q) /\ Excused(q, array)
  BY PoisedWorks DEF Exists
<1>2. CASE Read(p, Go(q, IF q.cmd = "destroy" THEN "sList" ELSE "lookup"))
  <2> DEFINE at == IF q.cmd = "destroy" THEN "sList" ELSE "lookup"
             n == Go(q, at)
  <2>1. at \in Steps
    BY DEF Steps, Scanning
  <2>2. n.at = at /\ n.cmd = q.cmd /\ n.errs = q.errs /\ n.idx = q.idx
    <3> HIDE DEF at
    <3> QED BY <1>1, <2>1, GoFields
  <2> HIDE DEF n
  <2>3. CASE at = "lookup"
    BY <1>1, <1>2, <2>2, <2>3, SeekExcused, ReadExcuses DEF n, Seeking
  <2>4. CASE at = "sList"
    <3>1. n.at \notin Minded /\ n.at # "done"
      BY <2>2, <2>4 DEF Minded, Seeking
    <3> QED BY <1>2, <3>1, UnmindedExcused, ReadExcuses DEF n
  <2> QED BY <2>3, <2>4
<1>3. CASE Read(p, Finish([q EXCEPT !.errs = IF q.vol \in array.zvol THEN 1 ELSE 0],
                          IF q.cmd = "unexport" THEN "ok" ELSE "failed"))
  <2> DEFINE k == IF q.vol \in array.zvol THEN 1 ELSE 0
             r == IF q.cmd = "unexport" THEN "ok" ELSE "failed"
             s == [q EXCEPT !.errs = k]
             n == Finish(s, r)
  <2>1. k \in Nat /\ r \in Results /\ (k = 0 => q.vol \notin array.zvol)
    BY DEF Results
  <2> HIDE DEF k, r
  <2>2. s \in RunType /\ s.vol = q.vol /\ s.errs = k
    BY <1>1, <2>1 DEF RunType
  <2> HIDE DEF s
  <2>3. n.at = "done" /\ n.vol = q.vol /\ n.errs = k
    BY <2>1, <2>2, FinishFields
  <2> HIDE DEF n
  <2>4. Excused(n, array)
    BY <2>1, <2>3 DEF Excused, Slotted, Seeking
  <2> QED BY <1>3, <2>4, ReadExcuses DEF n, s, r, k
<1> QED BY <1>2, <1>3 DEF Exists

LEMMA CloneSnapshotExcuses == ASSUME NEW p \in Proc, Poised(p), CloneSnapshot(p) PROVE Excuses(p)
<1> DEFINE q == pr[p]
           r == create_volume_from_snapshot(array, q.vol)
           again == create_volume_from_snapshot(r.a, q.vol)
<1>1. q \in RunType /\ array \in ArrayType /\ q.at = "clone" /\ Job(q)
  BY PoisedWorks DEF CloneSnapshot
<1>2. q.vol \in Volume /\ q.cmd = "export"
  BY <1>1 DEF Job, Method, Args
<1>3. r.r \in {"ok", "exists"} /\ again = Ret(r.a, "exists")
  BY <1>1, <1>2, create_clone_Effect
<1>4. PICK o \in Answers(q, "clone", r, again) :
         Write(p, o.a, IF o.r \in {"ok", "exists"} THEN Go(q, "lookup") ELSE Raised(q, o.r))
  BY DEF CloneSnapshot
<1>5. again.a = r.a /\ again.r = "exists"
  BY <1>3 DEF Ret
<1> HIDE DEF r, again
<1>6. o.r \in {"ok", "exists", "error", "cfg"}
  BY <1>3, <1>4, <1>5, Answer
<1>7. CASE o.r \in {"ok", "exists"}
  <2> DEFINE n == Go(q, "lookup")
  <2>1. n.at = "lookup" /\ n.cmd = q.cmd
    BY <1>1, GoFields, StepNames
  <2> HIDE DEF n
  <2>2. Excused(n, o.a)
    BY <1>2, <2>1, OthersExcused
  <2> QED BY <1>4, <1>7, <2>2, WriteExcuses DEF n
<1>8. CASE o.r \notin {"ok", "exists"}
  BY <1>1, <1>4, <1>6, <1>8, FailedExcused, WriteExcuses
<1> QED BY <1>7, <1>8

LEMMA FoundExcused ==
    ASSUME NEW a, NEW q \in RunType, q.vol \in Volume, NEW t \in Target, NEW l \in 0..Luns - 1,
           q.cmd \in Lookups \cup {"getCurrent", "remove", "unexport"},
           t \in a.made, a.att[q.vol] # None
    PROVE  Excused(Acquired(q, t, l, TRUE, FALSE), a)
<1>1. TRUE \in BOOLEAN /\ FALSE \in BOOLEAN /\ t \in Target \cup {None}
  OBVIOUS
<1> QED BY <1>1, AcquiredExcused

LEMMA LookupExcuses == ASSUME NEW p \in Proc, Poised(p), Lookup(p) PROVE Excuses(p)
<1> DEFINE q == pr[p]
           slot == array.att[q.vol]
           current == q.cmd \in {"getCurrent", "remove", "unexport"}
<1>1. /\ q \in RunType /\ array \in ArrayType /\ q.at = "lookup" /\ Job(q)
      /\ Housed(array) /\ Excused(q, array) /\ q.at \in Seeking
  BY PoisedWorks DEF Lookup, Seeking
<1>2. q.vol \in Volume /\ q.cmd \in Lookups \cup {"getCurrent", "remove", "unexport"}
  BY <1>1 DEF Job, Method, Args, Lookups
<1>3. slot # None => slot[1] \in array.made /\ slot[1] \in Target /\ slot[2] \in 0..Luns - 1
  BY <1>1, <1>2, Slots DEF Housed
<1>4. CASE Refused(p, "lookup")
  BY <1>4, RefusedExcuses
<1>5. CASE slot # None /\ Read(p, Acquired(q, slot[1], slot[2], TRUE, FALSE))
  <2>1. array.att[q.vol] # None
    BY <1>5
  <2> HIDE DEF slot
  <2>2. ASSUME NEW t \in array.made, t \in Target, NEW l \in 0..Luns - 1
        PROVE  Excused(Acquired(q, t, l, TRUE, FALSE), array)
    <3> HIDE DEF q
    <3> QED BY <1>1, <1>2, <2>1, <2>2, FoundExcused
  <2>3. Excused(Acquired(q, slot[1], slot[2], TRUE, FALSE), array)
    BY <1>3, <1>5, <2>2
  <2> QED BY <1>5, <2>3, ReadExcuses
<1>6. CASE slot # None /\ Read(p, [Go(q, "rehome") EXCEPT !.tgt = slot[1], !.lun = slot[2]])
  <2> DEFINE g == Go(q, "rehome")
             n == [g EXCEPT !.tgt = slot[1], !.lun = slot[2]]
  <2>1. g \in RunType /\ g.at = "rehome" /\ g.cmd = q.cmd /\ g.errs = q.errs /\ g.idx = q.idx
    BY <1>1, GoFields, StepNames
  <2> HIDE DEF g, slot
  <2>2. n.at = "rehome" /\ n.cmd = q.cmd /\ n.errs = q.errs /\ n.idx = q.idx
    BY <2>1 DEF RunType
  <2>3. Read(p, n)
    BY <1>6 DEF g, slot
  <2> HIDE DEF n
  <2>4. Excused(n, array)
    BY <1>1, <2>2, SeekExcused DEF Seeking
  <2> QED BY <2>3, <2>4, ReadExcuses
<1>7. CASE current /\ Read(p, Acquired(q, None, 0, FALSE, FALSE))
  <2>1. 0 \in 0..Luns - 1 /\ q.cmd \notin Publishers /\ q.cmd # "create"
    BY <1>7, TargetsAssumption DEF Publishers
  <2>2. Excused(Acquired(q, None, 0, FALSE, FALSE), array)
    BY <1>1, <1>2, <2>1, AcquiredExcused
  <2> QED BY <1>7, <2>2, ReadExcuses
<1>8. CASE Read(p, Go(q, "list"))
  <2> DEFINE n == Go(q, "list")
  <2>1. n.at = "list" /\ n.cmd = q.cmd /\ n.errs = q.errs /\ n.idx = q.idx
    BY <1>1, GoFields, StepNames DEF Choosing
  <2> HIDE DEF n
  <2>2. Excused(n, array)
    BY <1>1, <2>1, SeekExcused DEF Seeking
  <2> QED BY <1>8, <2>2, ReadExcuses DEF n
<1> QED BY <1>4, <1>5, <1>6, <1>7, <1>8 DEF Lookup

LEMMA RehomeExcuses == ASSUME NEW p \in Proc, Poised(p), Rehome(p) PROVE Excuses(p)
<1> DEFINE q == pr[p]
<1>1. /\ q \in RunType /\ array \in ArrayType /\ q.at = "rehome" /\ Job(q)
      /\ Housed(array) /\ Excused(q, array) /\ Placed(q, array) /\ q.at \in Seeking
  BY PoisedWorks DEF Rehome, Seeking
<1>2. q.vol \in Volume /\ q.cmd \in Lookups /\ q.tgt \in Target /\ q.lun \in 0..Luns - 1
  BY <1>1 DEF Job, Method, Args, Lookups, RunType
<1>3. array.att[q.vol] # None /\ q.tgt \in array.made
  <2>1. array.att[q.vol] = <<q.tgt, q.lun>>
    BY <1>1 DEF Placed
  <2>2. <<q.tgt, q.lun>> # None
    BY <1>2, TargetsAssumption DEF Slot
  <2>3. array.att[q.vol] # None /\ array.att[q.vol][1] = q.tgt
    BY <2>1, <2>2
  <2> QED BY <1>1, <1>2, <2>3 DEF Housed
<1>4. CASE Refused(p, "sessions")
  BY <1>4, RefusedExcuses
<1>5. CASE Read(p, Acquired(q, q.tgt, q.lun, TRUE, FALSE))
  <2>2. ASSUME NEW t \in array.made, t \in Target, NEW l \in 0..Luns - 1
        PROVE  Excused(Acquired(q, t, l, TRUE, FALSE), array)
    <3>1. q.cmd \in Lookups \cup {"getCurrent", "remove", "unexport"}
      BY <1>2
    <3> HIDE DEF q
    <3> QED BY <1>1, <1>2, <1>3, <2>2, <3>1, FoundExcused
  <2>1. Excused(Acquired(q, q.tgt, q.lun, TRUE, FALSE), array)
    BY <1>2, <1>3, <2>2
  <2> QED BY <1>5, <2>1, ReadExcuses
<1>6. CASE Read(p, [Go(q, "detach") EXCEPT !.from = q.tgt, !.back = "list"])
  <2> DEFINE g == Go(q, "detach")
             n == [g EXCEPT !.from = q.tgt, !.back = "list"]
  <2>1. g \in RunType /\ g.at = "detach" /\ g.cmd = q.cmd /\ g.errs = q.errs /\ g.idx = q.idx
    <3>1. "detach" \in Steps
      BY DEF Steps, Detaching
    <3> HIDE DEF q
    <3> QED BY <1>1, <3>1, GoFields
  <2> HIDE DEF g
  <2>2. n.at = "detach" /\ n.from = q.tgt /\ n.cmd = q.cmd /\ n.errs = q.errs /\ n.idx = q.idx
    BY <2>1 DEF RunType
  <2>3. Read(p, n)
    BY <1>6 DEF g
  <2> HIDE DEF n
  <2>4. Excused(n, array)
    BY <1>1, <1>3, <2>2, SeekExcused DEF Seeking
  <2> QED BY <2>3, <2>4, ReadExcuses
<1> QED BY <1>4, <1>5, <1>6 DEF Rehome

LEMMA ListExcuses == ASSUME NEW p \in Proc, Poised(p), List(p) PROVE Excuses(p)
<1> DEFINE q == pr[p]
           related == array.made \cap Own
           at == IF related = {} THEN "pick" ELSE "slot"
           g == Go(q, at)
           n == [g EXCEPT !.seen = related, !.todo = related, !.tgt = None, !.lun = 0]
<1>1. q \in RunType /\ q.at = "list" /\ Excused(q, array)
  BY PoisedWorks DEF List
<1>2. CASE Refused(p, "list")
  BY <1>2, RefusedExcuses
<1>3. CASE Read(p, n)
  <2>1. at \in Steps /\ at \in {"slot", "pick"} /\ related = array.made \cap Own
    BY DEF Steps
  <2> HIDE DEF at, related
  <2>2. g \in RunType /\ g.at = at /\ g.cmd = q.cmd /\ g.errs = q.errs /\ g.idx = q.idx
    BY <1>1, <2>1, GoFields
  <2> HIDE DEF g
  <2>3. n.at = at /\ n.cmd = q.cmd /\ n.errs = q.errs /\ n.idx = q.idx /\ n.seen = related
    BY <2>2 DEF RunType
  <2> HIDE DEF n
  <2>4. n.cmd = "create" /\ n.errs = 0 => n.idx = 0
    BY <1>1, <2>3 DEF Excused, Slotted, Seeking
  <2>5. Excused(n, array)
    BY <2>1, <2>3, <2>4 DEF Excused, Slotted, Seeking
  <2> QED BY <1>3, <2>5, ReadExcuses
<1> QED BY <1>2, <1>3 DEF List

LEMMA SlotOfExcuses == ASSUME NEW p \in Proc, Poised(p), SlotOf(p) PROVE Excuses(p)
<1> DEFINE q == pr[p]
           t == Smallest(q.todo)
           free == (0..Luns - 1) \ LunsOf(array, t)
           at == IF q.todo = {t} THEN "pick" ELSE "slot"
           g == Go(q, at)
           n == [g EXCEPT !.todo = @ \ {t}]
<1>1. q \in RunType /\ q.at = "slot" /\ Job(q) /\ Excused(q, array)
  BY PoisedWorks DEF SlotOf
<1>2. q.vol \in Volume /\ q.cmd \in Lookups /\ q.todo \subseteq Own /\ q.todo # {}
  BY <1>1 DEF Job, Method, Args, Lookups, Choosing
<1>3. t \in q.todo
  BY <1>2, Indices, SmallestIn
<1>4. CASE Refused(p, "luns")
  BY <1>4, RefusedExcuses
<1>5. CASE (t \notin array.made \/ free = {}) /\ Read(p, n)
  <2>1. at \in Steps /\ at \in {"slot", "pick"}
    BY DEF Steps
  <2> HIDE DEF at, free, t
  <2>2. g \in RunType /\ g.at = at /\ g.cmd = q.cmd /\ g.errs = q.errs /\ g.idx = q.idx /\ g.seen = q.seen
    BY <1>1, <2>1, GoFields
  <2> HIDE DEF g
  <2>3. n.at = at /\ n.cmd = q.cmd /\ n.errs = q.errs /\ n.idx = q.idx /\ n.seen = q.seen
    BY <2>2 DEF RunType
  <2> HIDE DEF n
  <2>4. n.cmd = "create" /\ n.errs = 0 => n.idx = 0 /\ n.seen = array.made \cap Own
    BY <1>1, <2>3 DEF Excused, Slotted, Seeking
  <2>5. Excused(n, array)
    BY <2>1, <2>3, <2>4 DEF Excused, Slotted, Seeking
  <2> QED BY <1>5, <2>5, ReadExcuses
<1>6. CASE t \in array.made /\ free # {} /\ Read(p, Acquired(q, t, Smallest(free), FALSE, FALSE))
  <2>1. free \in SUBSET Nat /\ t \in Target
    <3>1. t \in Target
      BY <1>2, <1>3, Indices
    <3>2. free \subseteq 0..Luns - 1 /\ 0..Luns - 1 \subseteq Nat
      BY TargetsAssumption
    <3> QED BY <3>1, <3>2
  <2>2. Smallest(free) \in free
    BY <1>6, <2>1, SmallestIn
  <2> DEFINE l == Smallest(free)
  <2>3. l \in 0..Luns - 1 /\ l \notin LunsOf(array, t)
    BY <2>2
  <2>4. FALSE \in BOOLEAN /\ t \in Target \cup {None} /\ q.cmd \in Lookups \cup {"getCurrent", "remove", "unexport"}
    BY <1>2, <2>1
  <2>5. Excused(Acquired(q, t, l, FALSE, FALSE), array)
    <3> HIDE DEF q, t, l
    <3> QED BY <1>1, <1>2, <1>6, <2>1, <2>3, <2>4, AcquiredExcused
  <2> QED BY <1>6, <2>5, ReadExcuses
<1> QED BY <1>4, <1>5, <1>6 DEF SlotOf

LEMMA SomeIndices ==
    ASSUME NEW S \in SUBSET Own
    PROVE  IsFiniteSet(S) /\ Cardinality(S) \in Nat
<1>1. IsFiniteSet(0..Cardinality(Own) - 1)
  BY TargetsAssumption, FS_Interval
<1>2. IsFiniteSet(Own)
  BY <1>1, TargetsAssumption
<1> QED BY <1>2, FS_Subset, FS_CardinalityType

\* Of n + 1 numbers one is not among n indices.
LEMMA SomeIndexFree ==
    ASSUME NEW S \in SUBSET Own
    PROVE  \E i \in 0..Cardinality(S) : i \notin S
<1>1. IsFiniteSet(S) /\ Cardinality(S) \in Nat
  BY SomeIndices
<1> SUFFICES ASSUME 0..Cardinality(S) \subseteq S PROVE FALSE
  OBVIOUS
<1>2. Cardinality(0..Cardinality(S)) = Cardinality(S) + 1
  BY <1>1, FS_Interval
<1>3. Cardinality(0..Cardinality(S)) <= Cardinality(S)
  BY <1>1, FS_Subset
<1> QED BY <1>1, <1>2, <1>3

LEMMA PickExcuses == ASSUME NEW p \in Proc, Poised(p), Pick(p) PROVE Excuses(p)
<1> DEFINE q == pr[p]
           candidates == {i \in q.idx..Cardinality(q.seen) : i \notin q.seen}
           i == Smallest(candidates)
           n == [q EXCEPT !.idx = i + 1]
<1>1. q \in RunType /\ q.at = "pick" /\ Job(q) /\ Placed(q, array) /\ Excused(q, array)
  BY PoisedWorks DEF Pick
<1>2. q.vol \in Volume /\ q.cmd \in Lookups /\ q.seen \subseteq Own /\ array.att[q.vol] = None
  BY <1>1 DEF Job, Method, Args, Lookups, Choosing, Placed
<1>3. q.cmd = "create" /\ q.errs = 0 => q.idx = 0 /\ q.seen = array.made \cap Own
  BY <1>1 DEF Excused, Slotted, Seeking
<1>4. q.cmd = "create" /\ q.errs = 0 => candidates # {}
  BY <1>2, <1>3, SomeIndexFree
<1>5. /\ 0 \in 0..Luns - 1 /\ TRUE \in BOOLEAN /\ FALSE \in BOOLEAN
      /\ q.cmd \in Lookups \cup {"getCurrent", "remove", "unexport"}
  BY <1>2, TargetsAssumption
<1>6. ASSUME NEW t \in Own, q.cmd = "create" /\ q.errs = 0 => t \notin array.made
      PROVE  Excused(Acquired(q, t, 0, FALSE, TRUE), array)
  <2>1. t \in Target /\ t \in Target \cup {None}
    BY Indices
  <2> HIDE DEF q
  <2> QED BY <1>1, <1>2, <1>5, <1>6, <2>1, AcquiredExcused
<1>7. CASE candidates = {} /\ Read(p, Acquired(q, 0, 0, FALSE, TRUE))
  <2>1. Excused(Acquired(q, 0, 0, FALSE, TRUE), array)
    BY <1>4, <1>6, <1>7, Indices
  <2> QED BY <1>7, <2>1, ReadExcuses
<1>8. CASE Refused(p, "get_target")
  BY <1>8, RefusedExcuses
<1>9. CASE i \in Own \ array.made /\ Read(p, Acquired(q, i, 0, FALSE, TRUE))
  <2> HIDE DEF i
  <2>1. Excused(Acquired(q, i, 0, FALSE, TRUE), array)
    BY <1>6, <1>9
  <2> QED BY <1>9, <2>1, ReadExcuses
<1>10. CASE candidates # {} /\ i \in array.made /\ Read(p, n)
  <2>1. candidates \subseteq Nat
    <3>1. q.idx \in Nat /\ Cardinality(q.seen) \in Nat
      BY <1>1, <1>2, SomeIndices DEF RunType
    <3> QED BY <3>1
  <2>2. i \in candidates
    BY <1>10, <2>1, SmallestIn
  <2>3. i \in Nat /\ i \notin q.seen
    BY <2>1, <2>2
  <2> HIDE DEF i
  <2>4. ~(q.cmd = "create" /\ q.errs = 0)
    <3>1. i \notin Own => i \in Foreign
      BY <1>10, PoisedWorks DEF ArrayType, Target
    <3> QED BY <1>3, <1>10, <2>3, <3>1, TargetsAssumption
  <2>5. n.cmd = q.cmd /\ n.errs = q.errs /\ n.at = "pick"
    BY <1>1 DEF RunType
  <2> HIDE DEF n
  <2>6. Excused(n, array)
    BY <2>4, <2>5 DEF Excused
  <2> QED BY <1>10, <2>6, ReadExcuses
<1> QED BY <1>7, <1>8, <1>9, <1>10 DEF Pick


LEMMA PublishedExcused ==
    ASSUME NEW q, Publishing(q), NEW b
    PROVE  Excused(Published(q), b)
<1> DEFINE n == Published(q)
<1>1. PublishedAs(q, n)
  BY PublishedShape DEF Publishing
<1> HIDE DEF n
<1>2. n.at \notin Minded /\ (n.at = "done" => n.res # "failed")
  BY <1>1 DEF PublishedAs, Minded, Seeking
<1> QED BY <1>2, UnmindedExcused DEF n

\* Only the steps of a publication without a failure have to be sure of the slot.
LEMMA FreeExcused ==
    ASSUME NEW q, NEW n, NEW b, q.cmd # "create" \/ q.errs # 0, n.cmd = q.cmd, n.errs = q.errs,
           n.at \notin {"done", "detach", "left"}
    PROVE  Excused(n, b)
<1> QED BY DEF Excused

\* What an attach, a VIP or a LUN that is not there can end.
LEMMA MishapExcused ==
    ASSUME NEW q, Publishing(q), Job(q), q.at # "clone", NEW e, NEW b,
           q.cmd = "create" => q.errs # 0 \/ e \in {"error", "cfg", "blocked", "clash", "inuse"}
    PROVE  Excused(Raised(q, e), b)
<1>1. q.cmd \in {"create", "export"}
  BY DEF Publishing, Publishers
<1> QED BY <1>1, SparedExcused, FailedExcused

LEMMA PoisedPublisher ==
    ASSUME NEW p \in Proc, Poised(p), pr[p].at \in Attaching
    PROVE  /\ Publishing(pr[p]) /\ pr[p] \in RunType /\ array \in ArrayType /\ FewUsers(array)
           /\ Chosen(pr[p], array) /\ Placed(pr[p], array) /\ Job(pr[p])
           /\ pr[p].at # "clone" /\ pr[p].at # "done"
           /\ pr[p].cmd = "create" /\ pr[p].errs = 0 => Slotted(pr[p], array)
<1>1. Ready(p) /\ Excused(pr[p], array)
  BY PoisedWorks
<1>2. pr[p].at # "clone" /\ pr[p].at # "done"
  BY DEF Attaching
<1>3. pr[p].cmd = "create" /\ pr[p].errs = 0 => Slotted(pr[p], array)
  BY <1>1 DEF Excused
<1> QED BY <1>1, <1>2, <1>3, PublisherReady DEF Publishing

LEMMA VipsNewExcuses == ASSUME NEW p \in Proc, Poised(p), VipsNew(p) PROVE Excuses(p)
<1> DEFINE q == pr[p]
<1>1. q \in RunType /\ q.at = "vipsNew" /\ Job(q) /\ Excused(q, array)
  BY PoisedWorks DEF VipsNew
<1>2. CASE Read(p, Raised(q, "error"))
  BY <1>1, <1>2, FailedExcused, ReadExcuses
<1>3. CASE Read(p, Finish(q, "ok"))
  <2> DEFINE n == Finish(q, "ok")
  <2>1. n.at = "done" /\ n.res = "ok"
    BY <1>1, FinishFields DEF Results
  <2> HIDE DEF n
  <2>2. Excused(n, array)
    BY <2>1, UnmindedExcused DEF Minded, Seeking
  <2> QED BY <1>3, <2>2, ReadExcuses DEF n
<1>4. CASE Read(p, Go(q, "create"))
  <2> DEFINE n == Go(q, "create")
  <2>1. /\ n.at = "create" /\ n.cmd = q.cmd /\ n.vol = q.vol /\ n.tgt = q.tgt /\ n.errs = q.errs
    BY <1>1, GoFields DEF Steps
  <2> HIDE DEF n
  <2>2. n.errs = 0 /\ n.cmd = "create" => n.tgt \notin array.made /\ array.att[n.vol] = None
    BY <1>1, <2>1 DEF Excused, Slotted
  <2>3. Excused(n, array)
    BY <2>1, <2>2 DEF Excused, Slotted, Seeking
  <2> QED BY <1>4, <2>3, ReadExcuses DEF n
<1> QED BY <1>2, <1>3, <1>4 DEF VipsNew

LEMMA CreateTargetExcuses == ASSUME NEW p \in Proc, Poised(p), CreateTarget(p) PROVE Excuses(p)
<1> DEFINE q == pr[p]
           r == create_target(array, q.tgt, q.user)
           again == create_target(r.a, q.tgt, q.user)
<1>1. q.at = "create" /\ q.at \in Attaching
  BY DEF CreateTarget, Attaching
<1>2. /\ Publishing(q) /\ q \in RunType /\ array \in ArrayType /\ Job(q) /\ Housed(array) /\ q.tgt \in Target
      /\ q.cmd = "create" /\ q.errs = 0 => Slotted(q, array)
  BY <1>1, PoisedPublisher, PoisedWorks DEF Publishing
<1>3. /\ again = Ret(r.a, "exists") /\ r.a.att = array.att
  BY <1>2, create_target_Effect
<1>4. PICK o \in Answers(q, "create_target", r, again) :
         Write(p, o.a, IF o.r \in {"ok", "exists"} THEN [Go(q, "attach") EXCEPT !.tries = 0]
                       ELSE Raised(q, o.r))
  BY DEF CreateTarget
<1>5. again.a = r.a /\ again.r = "exists" /\ r.r \in {"ok", "exists"}
  BY <1>2, <1>3, create_target_Effect DEF Ret
<1> HIDE DEF r, again
<1>6. \/ o.a = r.a /\ o.r \in {"ok", "exists"}
      \/ o.r \in {"error", "cfg"}
  BY <1>4, <1>5, Answer
<1>7. CASE o.r \in {"ok", "exists"}
  <2> DEFINE g == Go(q, "attach")
             n == [g EXCEPT !.tries = 0]
  <2>1. /\ g \in RunType /\ g.at = "attach" /\ g.cmd = q.cmd /\ g.vol = q.vol
        /\ g.tgt = q.tgt /\ g.lun = q.lun /\ g.errs = q.errs
    BY <1>2, GoFields DEF Steps
  <2> HIDE DEF g
  <2>2. /\ n.at = "attach" /\ n.cmd = q.cmd /\ n.vol = q.vol /\ n.tries = 0
        /\ n.tgt = q.tgt /\ n.lun = q.lun /\ n.errs = q.errs
    BY <2>1 DEF RunType
  <2>3. Write(p, r.a, n)
    BY <1>4, <1>6, <1>7 DEF g
  <2> HIDE DEF n
  <2>4. q.tgt \notin array.made => LunsOf(r.a, q.tgt) = {}
    BY <1>2, <1>3 DEF LunsOf, On, Housed
  <2>5. q.cmd = "create" /\ q.errs = 0 => q.tgt \notin array.made /\ array.att[q.vol] = None
    BY <1>1, <1>2 DEF Slotted
  <2>6. n.cmd = "create" /\ n.errs = 0 =>
           n.tries = 0 /\ r.a.att[n.vol] = None /\ n.lun \notin LunsOf(r.a, n.tgt)
    BY <1>3, <2>2, <2>4, <2>5
  <2>7. Excused(n, r.a)
    BY <2>2, <2>6 DEF Excused, Slotted, Seeking
  <2> QED BY <2>3, <2>7, WriteExcuses
<1>8. CASE o.r \notin {"ok", "exists"}
  BY <1>2, <1>4, <1>6, <1>8, FailedExcused, WriteExcuses
<1> QED BY <1>7, <1>8

LEMMA GetTargetExcuses == ASSUME NEW p \in Proc, Poised(p), GetTarget(p) PROVE Excuses(p)
<1> DEFINE q == pr[p]
<1>1. q \in RunType /\ q.at = "target" /\ Job(q) /\ Excused(q, array)
  BY PoisedWorks DEF GetTarget
<1>2. q.cmd \in {"create", "export", "update"}
  BY <1>1 DEF Job, Method, Crediting, Publishers
<1>3. q.cmd = "create" /\ q.errs = 0 =>
         q.tgt \in array.made /\ (array.att[q.vol] = None => q.lun \notin LunsOf(array, q.tgt))
  BY <1>1 DEF Excused, Slotted
<1>4. CASE Refused(p, "get_target")
  BY <1>4, RefusedExcuses
<1>5. CASE q.cmd = "update" /\ Read(p, Raised(q, "notfound"))
  <2> DEFINE n == Raised(q, "notfound")
  <2>1. n.cmd = q.cmd
    BY <1>1, RaisedHandled DEF Handled
  <2> HIDE DEF n
  <2>2. Excused(n, array)
    BY <1>5, <2>1, UpdateExcused
  <2> QED BY <1>5, <2>2, ReadExcuses DEF n
<1>6. CASE q.tgt \notin array.made /\ q.cmd # "update" /\ Read(p, [Go(q, "vipsNew") EXCEPT !.fresh = TRUE])
  <2> DEFINE g == Go(q, "vipsNew")
             n == [g EXCEPT !.fresh = TRUE]
  <2>1. g \in RunType /\ g.at = "vipsNew" /\ g.cmd = q.cmd /\ g.errs = q.errs
    BY <1>1, GoFields, StepNames
  <2> HIDE DEF g
  <2>2. n.at = "vipsNew" /\ n.cmd = q.cmd /\ n.errs = q.errs
    BY <2>1 DEF RunType
  <2>3. Read(p, n)
    BY <1>6 DEF g
  <2> HIDE DEF n
  <2>4. Excused(n, array)
    BY <1>3, <1>6, <2>2, FreeExcused
  <2> QED BY <2>3, <2>4, ReadExcuses
<1>7. CASE Read(p, [Go(q, IF q.cmd # "update" THEN "vips" ELSE IF q.user = None THEN "active" ELSE "users")
                         EXCEPT !.flag = array.chap[q.tgt]])
  <2> DEFINE at == IF q.cmd # "update" THEN "vips" ELSE IF q.user = None THEN "active" ELSE "users"
             g == Go(q, at)
             c == array.chap[q.tgt]
             n == [g EXCEPT !.flag = c]
  <2>1. at \in Steps /\ at \in {"vips", "active", "users"}
    BY DEF Steps
  <2> HIDE DEF at, c
  <2>2. /\ g \in RunType /\ g.at = at /\ g.cmd = q.cmd /\ g.vol = q.vol /\ g.tgt = q.tgt /\ g.lun = q.lun
        /\ g.errs = q.errs
    BY <1>1, <2>1, GoFields
  <2> HIDE DEF g
  <2>3. n.at = at /\ n.cmd = q.cmd /\ n.vol = q.vol /\ n.tgt = q.tgt /\ n.lun = q.lun /\ n.errs = q.errs
    BY <2>2 DEF RunType
  <2> HIDE DEF n
  <2>4. n.cmd = "create" /\ n.errs = 0 =>
           n.tgt \in array.made /\ (array.att[n.vol] = None => n.lun \notin LunsOf(array, n.tgt))
    BY <1>3, <2>3
  <2>5. Excused(n, array)
    BY <2>1, <2>3, <2>4 DEF Excused, Slotted, Seeking
  <2> QED BY <1>7, <2>5, ReadExcuses DEF n, g, at, c
<1> QED BY <1>4, <1>5, <1>6, <1>7 DEF GetTarget

LEMMA VipsExcuses == ASSUME NEW p \in Proc, Poised(p), Vips(p) PROVE Excuses(p)
<1> DEFINE q == pr[p]
<1>1. q.at = "vips" /\ q.at \in Attaching
  BY DEF Vips, Attaching
<1>2. /\ Publishing(q) /\ q \in RunType /\ Job(q) /\ q.at # "clone"
      /\ q.cmd = "create" /\ q.errs = 0 => Slotted(q, array)
  BY <1>1, PoisedPublisher
<1>3. q.cmd = "create" /\ q.errs = 0 =>
         q.tgt \in array.made /\ (array.att[q.vol] = None => q.lun \notin LunsOf(array, q.tgt))
  BY <1>1, <1>2 DEF Slotted
<1>4. CASE Refused(p, "vips")
  BY <1>4, RefusedExcuses
<1>5. CASE Read(p, Published(q))
  BY <1>2, <1>5, PublishedExcused, ReadExcuses
<1>6. CASE Read(p, Go(q, "getLun"))
  <2> DEFINE n == Go(q, "getLun")
  <2>1. /\ n.at = "getLun" /\ n.cmd = q.cmd /\ n.vol = q.vol /\ n.tgt = q.tgt /\ n.lun = q.lun
        /\ n.errs = q.errs
    <3>1. "getLun" \in Steps
      BY DEF Steps
    <3> HIDE DEF q
    <3> QED BY <1>2, <3>1, GoFields
  <2> HIDE DEF n
  <2>2. n.cmd = "create" /\ n.errs = 0 =>
           n.tgt \in array.made /\ (array.att[n.vol] = None => n.lun \notin LunsOf(array, n.tgt))
    BY <1>3, <2>1
  <2>3. Excused(n, array)
    BY <2>1, <2>2 DEF Excused, Slotted, Seeking
  <2> QED BY <1>6, <2>3, ReadExcuses DEF n
<1>7. CASE q.tgt \notin array.made /\ Read(p, Raised(q, "notfound"))
  <2>1. q.cmd = "create" => q.errs # 0
    BY <1>2, <1>3, <1>7 DEF RunType
  <2>2. Excused(Raised(q, "notfound"), array)
    BY <1>2, <2>1, MishapExcused
  <2> QED BY <1>7, <2>2, ReadExcuses
<1> QED BY <1>4, <1>5, <1>6, <1>7 DEF Vips

LEMMA GetLunExcuses == ASSUME NEW p \in Proc, Poised(p), GetLun(p) PROVE Excuses(p)
<1> DEFINE q == pr[p]
<1>1. q.at = "getLun" /\ q.at \in Attaching
  BY DEF GetLun, Attaching
<1>2. /\ Publishing(q) /\ q \in RunType /\ Placed(q, array)
      /\ q.cmd = "create" /\ q.errs = 0 => Slotted(q, array)
  BY <1>1, PoisedPublisher
<1>3. CASE Refused(p, "get_lun")
  BY <1>3, RefusedExcuses
<1>4. CASE Read(p, Published(q))
  BY <1>2, <1>4, PublishedExcused, ReadExcuses
<1>5. CASE q.vol \notin On(array, q.tgt) /\ Read(p, [Go(q, "attach") EXCEPT !.tries = 0])
  <2> DEFINE g == Go(q, "attach")
             n == [g EXCEPT !.tries = 0]
  <2>1. /\ g \in RunType /\ g.at = "attach" /\ g.cmd = q.cmd /\ g.vol = q.vol
        /\ g.tgt = q.tgt /\ g.lun = q.lun /\ g.errs = q.errs
    BY <1>2, GoFields DEF Steps
  <2> HIDE DEF g
  <2>2. /\ n.at = "attach" /\ n.cmd = q.cmd /\ n.vol = q.vol /\ n.tries = 0
        /\ n.tgt = q.tgt /\ n.lun = q.lun /\ n.errs = q.errs
    BY <2>1 DEF RunType
  <2>3. Read(p, n)
    BY <1>5 DEF g
  <2> HIDE DEF n
  <2>4. array.att[q.vol] = None
    <3>1. array.att[q.vol] \in {None, <<q.tgt, q.lun>>} /\ q.vol \in Volume
      BY <1>1, <1>2 DEF Placed, Publishing
    <3>2. <<q.tgt, q.lun>>[1] = q.tgt
      OBVIOUS
    <3> QED BY <1>5, <3>1, <3>2 DEF On
  <2>5. n.cmd = "create" /\ n.errs = 0 =>
           n.tries = 0 /\ array.att[n.vol] = None /\ n.lun \notin LunsOf(array, n.tgt)
    BY <1>1, <1>2, <2>2, <2>4 DEF Slotted
  <2>6. Excused(n, array)
    BY <2>2, <2>5 DEF Excused, Slotted, Seeking
  <2> QED BY <2>3, <2>6, ReadExcuses
<1> QED BY <1>3, <1>4, <1>5 DEF GetLun


\* A request is answered once, or a second time, or not at all.
LEMMA AnswerOnce ==
    ASSUME NEW q, NEW c, NEW r, NEW again, NEW o \in Answers(q, c, r, again)
    PROVE  o = r \/ (Lossy /\ o = again) \/ o.r \in {"error", "cfg"}
<1>1. CASE o \in {Ret(array, e) : e \in Errors(q, c)} \cup {Ret(r.a, "error") : e \in Errors(q, c)}
  BY <1>1 DEF Ret, Errors
<1> QED BY <1>1, TargetsAssumption DEF Answers

\* An attach to a free LUN, as it is answered the first and the second time.
LEMMA FreeAttach ==
    ASSUME NEW a \in ArrayType, NEW t \in a.made, NEW v \in Volume, NEW l \in 0..Luns - 1,
           a.att[v] = None, l \notin LunsOf(a, t), <<t, l>> # None,
           NEW r, r = attach_target_vol(a, t, v, l),
           NEW again, again = attach_target_vol(r.a, t, v, l)
    PROVE  \/ v \notin a.zvol /\ r = Ret(a, "notfound") /\ again = Ret(a, "notfound")
           \/ r.r = "ok" /\ again = Ret(r.a, "busy") /\ r.a.att[v] = <<t, l>>
<1>1. CASE v \notin a.zvol
  <2>1. r = Ret(a, "notfound")
    BY <1>1 DEF attach_target_vol
  <2>2. r.a = a
    BY <2>1 DEF Ret
  <2> QED BY <1>1, <2>1, <2>2 DEF attach_target_vol
<1>2. CASE v \in a.zvol
  <2>1. r = Ret([a EXCEPT !.att[v] = <<t, l>>], "ok")
    BY <1>2 DEF attach_target_vol
  <2>2. r.r = "ok"
    BY <2>1 DEF Ret
  <2>3. r.a.zvol = a.zvol /\ r.a.made = a.made /\ r.a.att[v] = <<t, l>>
    BY <2>2, attach_target_vol_Effect
  <2>4. again = Ret(r.a, "busy")
    BY <1>2, <2>3 DEF attach_target_vol
  <2> QED BY <2>2, <2>3, <2>4
<1> QED BY <1>1, <1>2

LEMMA SlotNotNone == ASSUME NEW t \in Target, NEW l \in 0..Luns - 1 PROVE <<t, l>> # None
<1> QED BY TargetsAssumption DEF Slot

LEMMA AttachExcuses == ASSUME Undisturbed, NEW p \in Proc, Poised(p), Attach(p) PROVE Excuses(p)
<1> DEFINE q == pr[p]
           r == attach_target_vol(array, q.tgt, q.vol, q.lun)
           again == attach_target_vol(r.a, q.tgt, q.vol, q.lun)
<1>1. q.at = "attach" /\ q.at \in Attaching
  BY DEF Attach, Attaching
<1>2. /\ Publishing(q) /\ q \in RunType /\ Job(q) /\ q.at # "clone" /\ array \in ArrayType
      /\ Chosen(q, array) /\ q.cmd \in {"create", "export"}
      /\ q.cmd = "create" /\ q.errs = 0 => Slotted(q, array)
  BY <1>1, PoisedPublisher DEF Publishing, Publishers
<1>3. q.vol \in Volume /\ q.lun \in 0..Luns - 1 /\ q.tgt \in Target /\ q.tgt \in array.made /\ q.errs \in Nat
  BY <1>1, <1>2 DEF Publishing, Chosen, Placing, RunType
<1>4. PICK o \in Answers(q, "attach", r, again) \cup {Ret(array, "blocked") : e \in Errors(q, "blocked")} :
         Write(p, o.a, IF o.r = "ok" THEN Published(q)
                       ELSE IF o.r \in {"busy", "blocked"} /\ q.tries + 1 < Attempts
                            THEN [Go(Felt(q, o.r), "resolve") EXCEPT !.tries = @ + 1]
                            ELSE Raised(q, o.r))
  BY DEF Attach
<1>5. q.cmd = "create" /\ q.errs = 0 =>
         /\ q.tries = 0
         /\ \/ o.r \in {"error", "cfg", "blocked"}
            \/ q.vol \notin o.a.zvol /\ o.r = "notfound"
            \/ o.r = "ok"
            \/ o.r = "busy" /\ o.a.att[q.vol] = <<q.tgt, q.lun>>
  <2> SUFFICES ASSUME q.cmd = "create", q.errs = 0
               PROVE  /\ q.tries = 0
                      /\ \/ o.r \in {"error", "cfg", "blocked"}
                         \/ q.vol \notin o.a.zvol /\ o.r = "notfound"
                         \/ o.r = "ok"
                         \/ o.r = "busy" /\ o.a.att[q.vol] = <<q.tgt, q.lun>>
    OBVIOUS
  <2>1. q.tries = 0 /\ array.att[q.vol] = None /\ q.lun \notin LunsOf(array, q.tgt)
    BY <1>1, <1>2 DEF Slotted
  <2>2. \/ q.vol \notin array.zvol /\ r = Ret(array, "notfound") /\ again = Ret(array, "notfound")
        \/ r.r = "ok" /\ again = Ret(r.a, "busy") /\ r.a.att[q.vol] = <<q.tgt, q.lun>>
    <3>1. <<q.tgt, q.lun>> # None
      BY <1>3, SlotNotNone
    <3> HIDE DEF q
    <3> QED BY <1>2, <1>3, <2>1, <3>1, FreeAttach
  <2> HIDE DEF r, again
  <2>3. CASE o \in Answers(q, "attach", r, again)
    BY <2>1, <2>2, <2>3, AnswerOnce DEF Ret
  <2>4. CASE o \in {Ret(array, "blocked") : e \in Errors(q, "blocked")}
    BY <2>1, <2>4 DEF Ret
  <2> QED BY <1>4, <2>3, <2>4
<1> HIDE DEF r, again
<1>6. CASE o.r = "ok"
  <2>1. Write(p, o.a, Published(q))
    BY <1>4, <1>6
  <2> QED BY <1>2, <2>1, PublishedExcused, WriteExcuses
<1>7. CASE o.r # "ok" /\ o.r \in {"busy", "blocked"} /\ q.tries + 1 < Attempts
  <2> DEFINE h == Felt(q, o.r)
             g == Go(h, "resolve")
             n == [g EXCEPT !.tries = @ + 1]
  <2>1. /\ h \in RunType /\ h = [q EXCEPT !.errs = h.errs] /\ h.errs \in {q.errs, q.errs + 1}
        /\ o.r = "blocked" => h.errs = q.errs + 1
    BY <1>2, FeltFields
  <2>2. h.cmd = q.cmd /\ h.vol = q.vol /\ h.tgt = q.tgt /\ h.lun = q.lun
    <3> HIDE DEF h
    <3> QED BY <1>2, <2>1 DEF RunType
  <2> HIDE DEF h
  <2>3. /\ g \in RunType /\ g.at = "resolve" /\ g.cmd = q.cmd /\ g.vol = q.vol /\ g.tgt = q.tgt
        /\ g.lun = q.lun /\ g.errs = h.errs
    BY <2>1, <2>2, GoFields DEF Steps
  <2> HIDE DEF g
  <2>4. /\ n.at = "resolve" /\ n.cmd = q.cmd /\ n.vol = q.vol /\ n.tgt = q.tgt
        /\ n.lun = q.lun /\ n.errs = h.errs
    BY <2>3 DEF RunType
  <2>5. Write(p, o.a, n)
    BY <1>4, <1>7 DEF g, h
  <2> HIDE DEF n
  <2>6. n.cmd = "create" /\ n.errs = 0 => q.cmd = "create" /\ q.errs = 0 /\ o.r = "busy"
    BY <1>3, <1>7, <2>1, <2>4
  <2>7. n.cmd = "create" /\ n.errs = 0 => o.a.att[n.vol] = <<n.tgt, n.lun>>
    BY <1>5, <2>4, <2>6
  <2>8. Excused(n, o.a)
    BY <2>4, <2>7 DEF Excused, Slotted, Seeking
  <2> QED BY <2>5, <2>8, WriteExcuses
<1>8. CASE o.r # "ok" /\ ~(o.r \in {"busy", "blocked"} /\ q.tries + 1 < Attempts)
  <2>1. Write(p, o.a, Raised(q, o.r))
    BY <1>4, <1>8
  <2>2. CASE q.cmd = "create" => q.errs # 0 \/ o.r \in {"error", "cfg", "blocked"}
    <3>1. Excused(Raised(q, o.r), o.a)
      BY <1>2, <2>2, MishapExcused
    <3> QED BY <2>1, <3>1, WriteExcuses
  <2>3. CASE q.cmd = "create" /\ q.errs = 0 /\ o.r \notin {"error", "cfg", "blocked"}
    <3>1. q.tries = 0 /\ q.tries + 1 < Attempts
      BY <1>5, <2>3 DEF Undisturbed
    <3>2. q.vol \notin o.a.zvol
      BY <1>5, <1>8, <2>3, <3>1
    <3> DEFINE n == Raised(q, o.r)
    <3>3. Handled(q, o.r, n)
      BY <1>2, RaisedHandled
    <3> HIDE DEF n
    <3>4. n.vol = q.vol /\ n.cmd = "create" /\ n.at \in {"done", "lookup"}
      BY <1>1, <2>3, <3>3 DEF Handled, Detaching, Scanning
    <3>5. CASE n.at = "done"
      <4>1. Excused(n, o.a)
        BY <3>2, <3>4, <3>5 DEF Excused, Slotted, Seeking
      <4> QED BY <2>1, <4>1, WriteExcuses DEF n
    <3>6. CASE n.at = "lookup"
      <4>1. o.r = "cfg"
        <5>1. n = Finish(Felt(q, o.r), "failed") \/ o.r = "cfg"
          BY <1>1, <2>3 DEF Raised, n, Detaching, Scanning
        <5>2. Finish(Felt(q, o.r), "failed").at = "done"
          BY <1>2, FeltFields, FinishFields DEF Results
        <5> QED BY <3>6, <5>1, <5>2
      <4> QED BY <2>3, <4>1
    <3> QED BY <3>4, <3>5, <3>6
  <2> QED BY <2>2, <2>3
<1> QED BY <1>6, <1>7, <1>8

LEMMA ResolveExcuses == ASSUME NEW p \in Proc, Poised(p), Resolve(p) PROVE Excuses(p)
<1> DEFINE q == pr[p]
           slot == array.att[q.vol]
<1>1. q.at = "resolve" /\ q.at \in Attaching
  BY DEF Resolve, Attaching
<1>2. /\ Publishing(q) /\ q \in RunType /\ Job(q) /\ Chosen(q, array)
      /\ q.cmd = "create" /\ q.errs = 0 => Slotted(q, array)
  BY <1>1, PoisedPublisher
<1>3. slot \in {None, <<q.tgt, q.lun>>} /\ <<q.tgt, q.lun>> # None
  BY <1>1, <1>2, SlotNotNone DEF Chosen, Placing, Publishing
<1>4. q.cmd = "create" /\ q.errs = 0 => slot # None
  BY <1>1, <1>2, <1>3 DEF Slotted
<1>5. CASE Refused(p, "lookup")
  BY <1>5, RefusedExcuses
<1>6. CASE Read(p, Raised(q, "clash"))
  BY <1>2, <1>6, FailedExcused, ReadExcuses
<1>7. CASE slot = None /\ Read(p, Go(q, "attach"))
  <2> DEFINE n == Go(q, "attach")
  <2>1. n.at = "attach" /\ n.cmd = q.cmd /\ n.errs = q.errs
    BY <1>2, GoFields DEF Steps
  <2> HIDE DEF n
  <2>2. Excused(n, array)
    BY <1>4, <1>7, <2>1, FreeExcused
  <2> QED BY <1>7, <2>2, ReadExcuses DEF n
<1>8. CASE Read(p, Go(q, "confirm"))
  <2> DEFINE n == Go(q, "confirm")
  <2>1. n.at = "confirm"
    BY <1>2, GoFields DEF Steps
  <2> HIDE DEF n
  <2>2. Excused(n, array)
    BY <2>1, UnmindedExcused DEF Minded, Seeking
  <2> QED BY <1>8, <2>2, ReadExcuses DEF n
<1> QED BY <1>3, <1>5, <1>6, <1>7, <1>8 DEF Resolve

LEMMA ConfirmExcuses == ASSUME NEW p \in Proc, Poised(p), Confirm(p) PROVE Excuses(p)
<1> DEFINE q == pr[p]
<1>1. q.at = "confirm" /\ q.at \in Attaching
  BY DEF Confirm, Attaching
<1>2. Publishing(q) /\ Placed(q, array)
  BY <1>1, PoisedPublisher
<1>3. q.vol \in On(array, q.tgt)
  <2>1. array.att[q.vol] = <<q.tgt, q.lun>> /\ q.vol \in Volume /\ <<q.tgt, q.lun>> # None
    BY <1>1, <1>2, SlotNotNone DEF Placed, Publishing
  <2>2. array.att[q.vol] # None /\ array.att[q.vol][1] = q.tgt
    BY <2>1
  <2> QED BY <2>1, <2>2 DEF On
<1>4. CASE Refused(p, "get_lun")
  BY <1>4, RefusedExcuses
<1>5. CASE Read(p, Published(q))
  BY <1>2, <1>5, PublishedExcused, ReadExcuses
<1> QED BY <1>3, <1>4, <1>5 DEF Confirm


LEMMA PoisedCrediter ==
    ASSUME NEW p \in Proc, Poised(p), pr[p].at \in {"users", "delUser", "setUser", "active"}
    PROVE  /\ Crediter(pr[p]) /\ pr[p] \in RunType /\ array \in ArrayType /\ Job(pr[p])
           /\ FewUsers(array) /\ Credits(pr[p], array) /\ pr[p].tgt \in array.made
           /\ pr[p].cmd \in {"create", "export", "update"} /\ pr[p].at # "clone"
           /\ pr[p].cmd = "create" /\ pr[p].errs = 0 => Slotted(pr[p], array)
<1>1. Ready(p) /\ Excused(pr[p], array)
  BY PoisedWorks
<1>2. Crediter(pr[p]) /\ array \in ArrayType /\ Job(pr[p]) /\ FewUsers(array) /\ Credits(pr[p], array)
  BY <1>1, CrediterReady
<1>3. pr[p].tgt \in array.made
  BY <1>2 DEF Credits, Crediting
<1>4. pr[p] \in RunType /\ pr[p].cmd \in {"create", "export", "update"}
  BY <1>2 DEF Crediter, Publishers
<1>5. pr[p].cmd = "create" /\ pr[p].errs = 0 => Slotted(pr[p], array)
  BY <1>1 DEF Excused
<1> QED BY <1>2, <1>3, <1>4, <1>5

\* Settling the credentials goes on, or ends well.
LEMMA SettledExcused ==
    ASSUME NEW q, Crediter(q), NEW b
    PROVE  /\ \A at \in {"users", "setUser", "active"} : Excused(Go(q, at), b)
           /\ Excused(Finish(q, "ok"), b)
<1>1. ASSUME NEW at \in {"users", "setUser", "active"} PROVE Excused(Go(q, at), b)
  <2> DEFINE n == Go(q, at)
  <2>1. n.at = at
    BY CreditGoes
  <2> HIDE DEF n
  <2>2. Excused(n, b)
    BY <2>1, UnmindedExcused DEF Minded, Seeking
  <2> QED BY <2>2 DEF n
<1>2. Excused(Finish(q, "ok"), b)
  <2> DEFINE n == Finish(q, "ok")
  <2>1. n.at = "done" /\ n.res = "ok"
    BY FinishFields DEF Crediter, Results
  <2> HIDE DEF n
  <2>2. Excused(n, b)
    BY <2>1, UnmindedExcused DEF Minded, Seeking
  <2> QED BY <2>2 DEF n
<1> QED BY <1>1, <1>2

\* What an export or an update cannot settle is not asked for.
LEMMA UnsettledExcused ==
    ASSUME NEW q, Crediter(q), Job(q), NEW e, NEW b,
           q.cmd = "create" => q.errs # 0 \/ e \in {"error", "cfg", "blocked", "clash", "inuse"}
    PROVE  Excused(Raised(q, e), b)
<1>1. q.cmd \in {"create", "export", "update"} /\ q.at # "clone"
  BY DEF Crediter, Publishers
<1>2. CASE q.cmd = "update"
  <2> DEFINE n == Raised(q, e)
  <2>1. n.cmd = q.cmd
    BY RaisedHandled DEF Handled
  <2> HIDE DEF n
  <2>2. Excused(n, b)
    BY <1>2, <2>1, UpdateExcused
  <2> QED BY <2>2 DEF n
<1> QED BY <1>1, <1>2, SparedExcused, FailedExcused

LEMMA UsersExcuses == ASSUME Undisturbed, NEW p \in Proc, Poised(p), Users(p) PROVE Excuses(p)
<1> DEFINE q == pr[p]
           users == array.users[q.tgt]
           wanted == {q.user} \ {None}
           settled == IF q.user = None THEN Finish(q, "ok") ELSE Go(q, "active")
<1>1. /\ q.at = "users" /\ Crediter(q) /\ q \in RunType /\ array \in ArrayType /\ q.tgt \in array.made
      /\ q.cmd \in {"create", "export", "update"}
  BY PoisedCrediter DEF Users
<1>2. CASE Refused(p, "users")
  BY <1>2, RefusedExcuses
<1>3. CASE Read(p, settled)
  BY <1>1, <1>3, SettledExcused, ReadExcuses
<1>4. CASE /\ users # wanted \/ (q.cmd = "update" /\ wanted # {})
           /\ Read(p, [Go(q, IF users = {} THEN "setUser" ELSE "delUser") EXCEPT !.todo = users])
  <2> DEFINE at == IF users = {} THEN "setUser" ELSE "delUser"
             g == Go(q, at)
             n == [g EXCEPT !.todo = users]
  <2>1. at \in Steps
    BY DEF Steps
  <2>2. q.cmd = "create" /\ at = "delUser" /\ Lossy => q.user = None
    <3> SUFFICES ASSUME q.cmd = "create", users # {}, Lossy, q.user # None PROVE FALSE
      OBVIOUS
    <3>1. q.user \in User /\ users \subseteq User
      BY <1>1, Fields DEF Crediter
    <3>2. users = {q.user}
      BY <3>1 DEF Undisturbed
    <3> QED BY <1>4, <3>2
  <2>3. Read(p, n)
    BY <1>4
  <2>4. at \in {"setUser", "delUser"}
    OBVIOUS
  <2> HIDE DEF at, users
  <2>5. g \in RunType /\ g.at = at /\ g.cmd = q.cmd /\ g.user = q.user
    BY <1>1, <2>1, GoFields
  <2> HIDE DEF g
  <2>6. n.at = at /\ n.cmd = q.cmd /\ n.user = q.user
    BY <2>5 DEF RunType
  <2> HIDE DEF n
  <2>7. Excused(n, array)
    BY <2>2, <2>4, <2>6 DEF Excused, Slotted, Seeking
  <2> QED BY <2>3, <2>7, ReadExcuses
<1> QED BY <1>1, <1>2, <1>3, <1>4 DEF Users

LEMMA DelUserExcuses == ASSUME NEW p \in Proc, Poised(p), DelUser(p) PROVE Excuses(p)
<1> DEFINE q == pr[p]
<1>1. /\ Crediter(q) /\ q \in RunType /\ array \in ArrayType /\ q.at = "delUser" /\ Job(q)
      /\ FewUsers(array) /\ Credits(q, array)
      /\ q.cmd = "create" /\ q.errs = 0 => Slotted(q, array)
  BY PoisedCrediter DEF DelUser
<1>2. q.todo = array.users[q.tgt]
  BY <1>1 DEF Credits, Crediting
<1>3. PICK u \in q.todo :
        LET r == delete_target_user(array, q.tgt, u)
            last == q.todo = {u}
            next == [q EXCEPT !.todo = @ \ {u},
                              !.at = IF last THEN "setUser" ELSE "delUser"] IN
        \E o \in Answers(q, "users", r, delete_target_user(r.a, q.tgt, u)) :
           Write(p, o.a,
                 IF o.r = "ok"
                 THEN IF last /\ q.user = None THEN Finish(q, "ok") ELSE next
                 ELSE IF o.r = "notfound" /\ q.user = None THEN Finish(q, "ok")
                      ELSE Raised(q, o.r))
  BY DEF DelUser
<1> DEFINE r == delete_target_user(array, q.tgt, u)
           again == delete_target_user(r.a, q.tgt, u)
           last == q.todo = {u}
           at == IF last THEN "setUser" ELSE "delUser"
           next == [q EXCEPT !.todo = @ \ {u}, !.at = at]
<1>4. PICK o \in Answers(q, "users", r, again) :
           Write(p, o.a,
                 IF o.r = "ok"
                 THEN IF last /\ q.user = None THEN Finish(q, "ok") ELSE next
                 ELSE IF o.r = "notfound" /\ q.user = None THEN Finish(q, "ok")
                      ELSE Raised(q, o.r))
  BY <1>3
<1>5. r.r = "ok" /\ again = Ret(r.a, "notfound")
  BY <1>1, <1>2, delete_target_user_Effect, delete_target_user_Chap DEF Crediter
<1>6. again.r = "notfound"
  BY <1>5 DEF Ret
<1> HIDE DEF r, again
<1>7. o.r = "ok" \/ (o.r = "notfound" /\ Lossy) \/ o.r \in {"error", "cfg"}
  BY <1>4, <1>5, <1>6, AnswerOnce
<1>8. last
  BY <1>1, <1>2 DEF FewUsers, Crediter
<1>9. q.cmd = "create" /\ q.errs = 0 /\ Lossy => q.user = None
  BY <1>1 DEF Slotted
<1>10. CASE Write(p, o.a, Finish(q, "ok"))
  BY <1>1, <1>10, SettledExcused, WriteExcuses
<1>11. CASE Write(p, o.a, next)
  <2>1. at = "setUser"
    BY <1>8
  <2> HIDE DEF at
  <2>2. next.at = "setUser"
    BY <1>1, <2>1 DEF RunType
  <2> HIDE DEF next
  <2>3. Excused(next, o.a)
    BY <2>2, UnmindedExcused DEF Minded, Seeking
  <2> QED BY <1>11, <2>3, WriteExcuses
<1>12. CASE o.r # "ok" /\ ~(o.r = "notfound" /\ q.user = None) /\ Write(p, o.a, Raised(q, o.r))
  <2>1. q.cmd = "create" => q.errs # 0 \/ o.r \in {"error", "cfg"}
    BY <1>7, <1>9, <1>12
  <2>2. Excused(Raised(q, o.r), o.a)
    BY <1>1, <2>1, UnsettledExcused
  <2> QED BY <1>12, <2>2, WriteExcuses
<1> QED BY <1>4, <1>10, <1>11, <1>12

LEMMA SetUserExcuses == ASSUME NEW p \in Proc, Poised(p), SetUser(p) PROVE Excuses(p)
<1> DEFINE q == pr[p]
           r == create_target_user(array, q.tgt, q.user)
           again == create_target_user(r.a, q.tgt, q.user)
<1>1. /\ Crediter(q) /\ q \in RunType /\ array \in ArrayType /\ q.at = "setUser" /\ Job(q)
      /\ q.tgt \in array.made /\ q.cmd \in {"create", "export", "update"}
  BY PoisedCrediter DEF SetUser
<1>2. q.user \in User /\ q.tgt \in Target
  BY <1>1 DEF Job, Args, Crediter
<1>3. r.r = "ok" /\ again = r
  <2>1. again = r
    BY <1>1, <1>2, create_target_user_Effect
  <2>2. r.r = "ok"
    BY <1>1 DEF create_target_user, Ret
  <2> QED BY <2>1, <2>2
<1>4. PICK o \in Answers(q, "set_user", r, again) :
          Write(p, o.a,
                IF o.r = "ok" THEN IF q.fresh THEN Finish(q, "ok") ELSE Go(q, "active")
                ELSE IF q.cmd = "update" THEN Raised(q, o.r)
                ELSE [Go(Felt(q, o.r), "dropBad") EXCEPT !.back = o.r])
  BY DEF SetUser
<1> HIDE DEF r, again
<1>5. o.r \in {"ok", "error", "cfg"}
  BY <1>3, <1>4, AnswerOnce
<1>6. CASE Write(p, o.a, Finish(q, "ok")) \/ Write(p, o.a, Go(q, "active"))
  BY <1>1, <1>6, SettledExcused, WriteExcuses
<1>7. CASE o.r # "ok" /\ Write(p, o.a, Raised(q, o.r))
  <2>1. Excused(Raised(q, o.r), o.a)
    BY <1>1, <1>5, <1>7, UnsettledExcused
  <2> QED BY <1>7, <2>1, WriteExcuses
<1>8. CASE o.r # "ok" /\ Write(p, o.a, [Go(Felt(q, o.r), "dropBad") EXCEPT !.back = o.r])
  <2> DEFINE h == Felt(q, o.r)
             g == Go(h, "dropBad")
             n == [g EXCEPT !.back = o.r]
  <2>1. h \in RunType /\ h.errs = q.errs + 1 /\ q.errs \in Nat
    BY <1>1, <1>5, <1>8, FeltFields DEF RunType
  <2>2. Write(p, o.a, n)
    BY <1>8
  <2> HIDE DEF h
  <2>3. g \in RunType /\ g.errs = h.errs
    BY <2>1, GoFields DEF Steps
  <2> HIDE DEF g
  <2>4. n.errs = h.errs
    BY <2>3 DEF RunType
  <2> HIDE DEF n
  <2>5. Excused(n, o.a)
    BY <2>1, <2>4 DEF Excused
  <2> QED BY <2>2, <2>5, WriteExcuses
<1> QED BY <1>4, <1>6, <1>7, <1>8

LEMMA DropBadExcuses == ASSUME NEW p \in Proc, Poised(p), DropBad(p) PROVE Excuses(p)
<1> DEFINE q == pr[p]
           r == delete_target(array, q.tgt)
<1>1. q.at = "dropBad" /\ q.at \in Attaching
  BY DEF DropBad, Attaching
<1>2. /\ Publishing(q) /\ Job(q) /\ q.at # "clone"
      /\ q.cmd = "create" /\ q.errs = 0 => Slotted(q, array)
  BY <1>1, PoisedPublisher
<1>3. q.cmd = "create" => q.errs # 0
  BY <1>1, <1>2 DEF Slotted
<1>4. PICK o \in Answers(q, "delete_target", r, delete_target(r.a, q.tgt)) : Write(p, o.a, Raised(q, q.back))
  BY DEF DropBad
<1>5. Excused(Raised(q, q.back), o.a)
  BY <1>2, <1>3, MishapExcused
<1> QED BY <1>4, <1>5, WriteExcuses

LEMMA ActiveExcuses == ASSUME NEW p \in Proc, Poised(p), Active(p) PROVE Excuses(p)
<1> DEFINE q == pr[p]
           want == q.user # None
           next == IF want THEN Finish(q, "ok") ELSE Go(q, "users")
           r == set_target_incoming_users_active(array, q.tgt, want)
<1>1. /\ Crediter(q) /\ q \in RunType /\ array \in ArrayType /\ q.at = "active" /\ Job(q)
      /\ q.tgt \in array.made
  BY PoisedCrediter DEF Active
<1>2. r.r = "ok"
  BY <1>1 DEF set_target_incoming_users_active, Ret
<1>3. \A b : Excused(next, b)
  BY <1>1, SettledExcused
<1>4. CASE Read(p, next)
  BY <1>3, <1>4, ReadExcuses
<1>5. CASE \E o \in Answers(q, "active", r, r) :
              Write(p, o.a, IF o.r = "ok" THEN next ELSE Raised(q, o.r))
  <2> HIDE DEF r, next, want
  <2>1. PICK o \in Answers(q, "active", r, r) :
              Write(p, o.a, IF o.r = "ok" THEN next ELSE Raised(q, o.r))
    BY <1>5
  <2>2. o.r \in {"ok", "error", "cfg"}
    BY <1>2, <2>1, AnswerOnce
  <2>3. CASE o.r = "ok"
    BY <1>3, <2>1, <2>3, WriteExcuses
  <2>4. CASE o.r # "ok"
    <3>1. Excused(Raised(q, o.r), o.a)
      BY <1>1, <2>2, <2>4, UnsettledExcused
    <3> QED BY <2>1, <2>4, <3>1, WriteExcuses
  <2> QED BY <2>3, <2>4
<1> QED BY <1>4, <1>5 DEF Active

\* A publication that is not beside another has nothing to move away.
LEMMA BusyExcuses == ASSUME NEW p \in Proc, Poised(p), Busy(p) PROVE Excuses(p)
<1> DEFINE q == pr[p]
<1>1. q.at = "busy" /\ Job(q) /\ Chapped(q, array)
  BY PoisedWorks DEF Busy
<1>2. q.cmd \in Publishers
  BY <1>1 DEF Job, Method
<1> QED BY <1>1, <1>2 DEF Chapped, Chosen


\* A process that takes its volume from a target.
LEMMA PoisedLeaving ==
    ASSUME NEW p \in Proc, Poised(p), pr[p].at \in {"detach", "left", "drop"}, pr[p].cmd # "delete"
    PROVE  /\ Leaving(pr[p]) /\ pr[p] \in RunType /\ Job(pr[p]) /\ array \in ArrayType
           /\ pr[p].cmd \in {"create", "export", "get", "remove", "unexport"}
           /\ pr[p].cmd \in {"create", "get"} => pr[p].back = "list"
           /\ pr[p].cmd = "create" /\ pr[p].errs = 0 => pr[p].idx = 0
           /\ pr[p].cmd \in {"create", "get"} /\ pr[p].errs = 0 /\ pr[p].at \in {"detach", "left"}
                 => pr[p].from \in array.made
<1> DEFINE q == pr[p]
<1>1. /\ Leaving(q) /\ q \in RunType /\ Job(q) /\ array \in ArrayType
      /\ Chapped(q, array) /\ Excused(q, array)
  BY PoisedWorks, LeavingWorks DEF Ready
<1>2. q.cmd \in {"create", "export", "get", "remove", "unexport"}
  BY <1>1 DEF Job, Method, Lookups
<1>3. q.cmd = "create" => q.back = "list"
  BY <1>1 DEF Chapped, Chosen, Publishers
<1>4. q.cmd = "get" => q.back = "list"
  BY <1>1 DEF Job, Returns, Detaching, Lookups, Publishers
<1> QED BY <1>1, <1>2, <1>3, <1>4 DEF Excused, Slotted, Seeking

\* The next step of the way, or the way back.
LEMMA OnwardExcused ==
    ASSUME NEW p \in Proc, Poised(p), pr[p].at \in {"detach", "left", "drop"}, pr[p].cmd # "delete",
           NEW at \in {"left", "drop", pr[p].back}, at = "left" => pr[p].at = "detach",
           NEW b, b.made = array.made \/ at # "left"
    PROVE  Excused(Go(pr[p], at), b)
<1> DEFINE q == pr[p]
           n == Go(q, at)
<1>1. /\ Leaving(q) /\ q \in RunType /\ Job(q)
      /\ q.cmd \in {"create", "get"} => q.back = "list"
      /\ q.cmd = "create" /\ q.errs = 0 => q.idx = 0
      /\ q.cmd \in {"create", "get"} /\ q.errs = 0 /\ q.at \in {"detach", "left"} => q.from \in array.made
  BY PoisedLeaving
<1>2. at \in Steps /\ at # "done"
  <2>1. q.back \in {"list", "attach", "removed", "destroy"}
    BY <1>1 DEF Leaving, Job, Method, Returns, Lookups, Detaching
  <2> QED BY <2>1, StepNames DEF Detaching, Choosing, Attaching
<1>3. n.at = at /\ n.cmd = q.cmd /\ n.errs = q.errs /\ n.idx = q.idx /\ n.from = q.from
  BY <1>1, <1>2, GoFields
<1> HIDE DEF n
<1>4. n.cmd \in {"create", "get"} => n.at \in {"left", "drop", "list"}
  BY <1>1, <1>3
<1>5. n.cmd = "create" /\ n.errs = 0 => Slotted(n, b)
  BY <1>1, <1>3, <1>4 DEF Slotted
<1>6. n.errs = 0 /\ n.cmd \in {"create", "get"} /\ n.at \in {"detach", "left"} => n.from \in b.made
  BY <1>1, <1>3, <1>4
<1>7. Excused(n, b)
  BY <1>2, <1>3, <1>5, <1>6 DEF Excused
<1> QED BY <1>7 DEF n

LEMMA DetachExcuses == ASSUME NEW p \in Proc, Poised(p), Detach(p) PROVE Excuses(p)
<1> DEFINE q == pr[p]
           r == detach_target_vol(array, q.from, q.vol)
           again == detach_target_vol(r.a, q.from, q.vol)
<1>1. q.at = "detach" /\ q.at \in {"detach", "left", "drop"}
  BY DEF Detach
<1>2. q.cmd # "delete"
  BY <1>1, PoisedWorks DEF Job, Method, Lookups
<1>3. /\ Leaving(q) /\ q \in RunType /\ Job(q) /\ array \in ArrayType
  BY <1>1, <1>2, PoisedLeaving
<1>4. /\ r.a.made = array.made /\ r.r \in {"ok", "notfound"} /\ again = Ret(r.a, "notfound")
  BY <1>3, detach_target_vol_Effect
<1>5. again.a = r.a /\ again.r = "notfound"
  BY <1>4 DEF Ret
<1>6. PICK o \in Answers(q, "detach", r, again) :
          Write(p, o.a, IF o.r \in {"ok", "notfound"} THEN Go(q, IF q.only THEN q.back ELSE "left")
                        ELSE Raised(q, o.r))
  BY DEF Detach
<1> HIDE DEF r, again
<1>7. /\ o.r \in {"ok", "notfound", "error", "cfg"}
      /\ o.a.made = array.made
  BY <1>4, <1>5, <1>6, Answer
<1>8. CASE o.r \in {"ok", "notfound"}
  <2> DEFINE at == IF q.only THEN q.back ELSE "left"
  <2>1. at \in {"left", "drop", q.back}
    OBVIOUS
  <2>2. Write(p, o.a, Go(q, at))
    BY <1>6, <1>8
  <2> HIDE DEF at
  <2>3. Excused(Go(q, at), o.a)
    BY <1>1, <1>2, <1>7, <2>1, OnwardExcused
  <2> QED BY <2>2, <2>3, WriteExcuses
<1>9. CASE o.r \notin {"ok", "notfound"}
  BY <1>3, <1>6, <1>7, <1>9, FailedExcused, WriteExcuses
<1> QED BY <1>8, <1>9

LEMMA LeftExcuses == ASSUME NEW p \in Proc, Poised(p), Left(p) PROVE Excuses(p)
<1> DEFINE q == pr[p]
<1>1. q.at = "left" /\ q.at \in {"detach", "left", "drop"}
  BY DEF Left
<1>2. q.cmd # "delete"
  BY <1>1, PoisedWorks DEF Job, Method, Lookups
<1>3. /\ Leaving(q) /\ q \in RunType /\ Job(q)
      /\ q.cmd \in {"create", "export", "get", "remove", "unexport"}
      /\ q.cmd \in {"create", "get"} /\ q.errs = 0 => q.from \in array.made
  BY <1>1, <1>2, PoisedLeaving
<1>4. CASE Refused(p, "luns")
  BY <1>4, RefusedExcuses
<1>5. CASE q.from \notin array.made /\ Read(p, Raised(q, "notfound"))
  <2>1. \/ q.errs # 0
        \/ q.cmd = "export" /\ q.at # "clone"
        \/ q.cmd \in {"remove", "unexport"} /\ q.at \in Detaching
    BY <1>1, <1>3, <1>5 DEF Detaching
  <2>2. Excused(Raised(q, "notfound"), array)
    BY <1>3, <2>1, FailedExcused, SparedExcused
  <2> QED BY <1>5, <2>2, ReadExcuses
<1>6. CASE Read(p, Go(q, IF On(array, q.from) = {} THEN "drop" ELSE q.back))
  <2> DEFINE at == IF On(array, q.from) = {} THEN "drop" ELSE q.back
  <2>1. at \in {"drop", q.back}
    OBVIOUS
  <2>2. Read(p, Go(q, at))
    BY <1>6
  <2> HIDE DEF at
  <2>3. at # "left"
    BY <1>3, <2>1 DEF Leaving, Job, Returns, Detaching, Lookups
  <2>4. Excused(Go(q, at), array)
    BY <1>1, <1>2, <2>1, <2>3, OnwardExcused
  <2> QED BY <2>2, <2>4, ReadExcuses
<1> QED BY <1>4, <1>5, <1>6 DEF Left

LEMMA DropExcuses == ASSUME NEW p \in Proc, Poised(p), Drop(p) PROVE Excuses(p)
<1> DEFINE q == pr[p]
           r == delete_target(array, q.from)
           again == delete_target(r.a, q.from)
<1>1. q.at = "drop" /\ q.at \in {"detach", "left", "drop"} /\ q \in RunType /\ array \in ArrayType /\ Job(q)
  BY PoisedWorks DEF Drop
<1>2. q.from \in Target
  BY <1>1 DEF Job, Args, Detaching
<1>3. r.r \in {"ok", "notfound"} /\ again = Ret(r.a, "notfound")
  BY <1>1, <1>2, delete_target_Effect
<1>4. again.r = "notfound"
  BY <1>3 DEF Ret
<1>5. PICK o \in Answers(q, "delete_target", r, again) :
          Write(p, o.a, IF q.cmd = "delete" THEN Finish(Felt(q, o.r), IF o.r = "ok" THEN "ok" ELSE "failed")
                        ELSE IF o.r \in {"ok", "notfound"} THEN Go(q, q.back)
                        ELSE Raised(q, o.r))
  BY DEF Drop
<1> HIDE DEF r, again
<1>6. o.r \in {"ok", "notfound", "error", "cfg"}
  BY <1>3, <1>4, <1>5, AnswerOnce
<1>7. CASE q.cmd = "delete"
  <2> DEFINE h == Felt(q, o.r)
             s == IF o.r = "ok" THEN "ok" ELSE "failed"
             n == Finish(h, s)
  <2>1. h \in RunType /\ h = [q EXCEPT !.errs = h.errs] /\ s \in Results
    BY <1>1, FeltFields DEF Results
  <2>2. Write(p, o.a, n)
    BY <1>5, <1>7
  <2> HIDE DEF h, s
  <2>3. h.cmd = q.cmd
    BY <1>1, <2>1 DEF RunType
  <2>4. n.cmd = h.cmd
    BY <2>1, FinishFields
  <2> HIDE DEF n
  <2>5. Excused(n, o.a)
    BY <1>7, <2>3, <2>4, UpdateExcused
  <2> QED BY <2>2, <2>5, WriteExcuses
<1>8. CASE q.cmd # "delete" /\ o.r \in {"ok", "notfound"}
  <2>1. q.back # "left" /\ q.back \in {"left", "drop", q.back}
    BY <1>1, <1>8 DEF Job, Method, Returns, Detaching, Lookups
  <2>2. Excused(Go(q, q.back), o.a)
    <3> DEFINE at == q.back
               b == o.a
    <3>1. at \in {"left", "drop", pr[p].back} /\ at # "left"
      BY <2>1
    <3> HIDE DEF at, b
    <3>2. Excused(Go(pr[p], at), b)
      BY <1>1, <1>8, <3>1, OnwardExcused
    <3> QED BY <3>2 DEF at, b
  <2>3. Write(p, o.a, Go(q, q.back))
    BY <1>5, <1>8
  <2> QED BY <2>2, <2>3, WriteExcuses
<1>9. CASE q.cmd # "delete" /\ o.r \notin {"ok", "notfound"}
  <2>1. Excused(Raised(q, o.r), o.a)
    BY <1>1, <1>6, <1>9, FailedExcused
  <2>2. Write(p, o.a, Raised(q, o.r))
    BY <1>5, <1>9
  <2> QED BY <2>1, <2>2, WriteExcuses
<1> QED BY <1>7, <1>8, <1>9


\* The end of a removal, and the sweep after it, cannot fail.
LEMMA SweptExcuses ==
    ASSUME NEW p \in Proc, Poised(p),
           \/ Removed(p) \/ SweepList(p) \/ SweepLuns(p) \/ SweepCheck(p) \/ SweepDetach(p)
           \/ SweepAgain(p) \/ SweepDrop(p)
    PROVE  Excuses(p)
<1> DEFINE q == pr[p]
           h(e) == Felt(q, e)
           Good(n) == n.cmd = "remove" /\ (n.at = "done" => n.res # "failed")
           K == Good(pr'[p])
<1>a. q.at \in Sweeping \cup {"removed"}
  BY DEF Removed, SweepList, SweepLuns, SweepCheck, SweepDetach, SweepAgain, SweepDrop, Sweeping
<1>b. q \in RunType /\ q.cmd = "remove" /\ q.at # "done"
  BY <1>a, PoisedWorks DEF Job, Method, Sweeping
<1>c. Complete(q) /\ DOMAIN q = DOMAIN NoRun
  BY <1>b DEF Complete, RunType, NoRun
<1>d. ASSUME NEW e PROVE h(e).cmd = "remove" /\ Complete(h(e)) /\ h(e).at # "done" /\ h(e) \in RunType
  BY <1>b, <1>c DEF Felt, Complete, RunType
<1>e. h("ok") = q
  BY DEF Felt
<1> SUFFICES K
  <2>1. K => Excused(pr'[p], array')
    BY OthersExcused
  <2> QED BY <2>1 DEF Excuses
<1>0. /\ \A n : Read(p, n) /\ Good(n) => K
      /\ \A b, n : Write(p, b, n) /\ Good(n) => K
  BY DEF Read, Write, Poised, Ready, Types
<1> HIDE DEF q, K, h
<1>1. ASSUME NEW e PROVE Good(Finish(h(e), "ok"))
  <2>1. Finish(h(e), "ok").cmd = h(e).cmd /\ Finish(h(e), "ok").res = "ok"
    BY <1>d, FinishFields DEF Results
  <2> QED BY <1>d, <2>1
<1>2. ASSUME NEW e, NEW at, at # "done" PROVE Good(Go(h(e), at))
  BY <1>d, <1>2 DEF Complete, Go
<1>3. ASSUME NEW e, NEW at, at # "done", NEW x PROVE Good([Go(h(e), at) EXCEPT !.todo = @ \ {x}])
  BY <1>d, <1>3 DEF Complete, Go
<1>4. CASE Removed(p)
  <2>1. Read(p, Finish(h("ok"), "ok")) \/ Read(p, Go(h("ok"), "zList"))
    BY <1>4, <1>e DEF Removed, q
  <2> HIDE DEF Good
  <2> QED BY <1>0, <1>1, <1>2, <2>1
<1>5. CASE SweepList(p)
  <2> DEFINE T == array.made \cap Own
             n == [Go(q, "zLuns") EXCEPT !.todo = T]
  <2>1. Read(p, Finish(h("error"), "ok")) \/ Read(p, n)
    BY <1>5 DEF SweepList, q, h
  <2> HIDE DEF T
  <2>2. Good(n)
    BY <1>b, <1>c DEF Go, Complete
  <2> HIDE DEF Good, n
  <2> QED BY <1>0, <1>1, <2>1, <2>2
<1>6. CASE SweepLuns(p)
  <2> DEFINE t == Smallest(q.todo)
             S == On(array, t)
             m == [h("error") EXCEPT !.todo = @ \ {t}]
             n == [Go(q, "zCheck") EXCEPT !.from = t, !.seen = S]
  <2>1. Read(p, Finish(h("ok"), "ok")) \/ Read(p, m) \/ Read(p, n)
    BY <1>6, <1>e DEF SweepLuns, q, h
  <2> HIDE DEF t, S
  <2>2. Good(m)
    BY <1>d DEF Complete
  <2>3. Good(n)
    BY <1>b, <1>c DEF Go, Complete
  <2> HIDE DEF Good, m, n
  <2> QED BY <1>0, <1>1, <2>1, <2>2, <2>3
<1>7. CASE SweepCheck(p)
  <2> DEFINE m(v) == [q EXCEPT !.seen = @ \ {v}]
             n(v) == [Go(q, "zDetach") EXCEPT !.item = v]
  <2>1. Read(p, Go(h("ok"), "zAgain")) \/ \E v : Read(p, m(v)) \/ Read(p, n(v))
    BY <1>7, <1>e DEF SweepCheck, q
  <2>2. \A v : Good(m(v)) /\ Good(n(v))
    BY <1>b, <1>c DEF Go, Complete
  <2> HIDE DEF Good, m, n
  <2> QED BY <1>0, <1>2, <2>1, <2>2
<1>8. CASE SweepDetach(p)
  <2> DEFINE i == q.item
             n(e) == [Go(h(e), "zCheck") EXCEPT !.seen = @ \ {i}, !.item = None]
  <2>1. \E o : Write(p, o.a, n(o.r))
    BY <1>8 DEF SweepDetach, q, h
  <2> HIDE DEF i
  <2>2. \A e : Good(n(e))
    BY <1>d DEF Go, Complete
  <2> HIDE DEF Good, n
  <2> QED BY <1>0, <2>1, <2>2
<1>9. CASE SweepAgain(p)
  <2> DEFINE n(e) == [Go(h(e), "zLuns") EXCEPT !.todo = @ \ {q.from}]
  <2>1. Read(p, n("error")) \/ Read(p, Go(h("ok"), "zDrop")) \/ Read(p, n("ok"))
    BY <1>9, <1>e DEF SweepAgain, q, h
  <2>2. \A e : Good(n(e))
    BY <1>3
  <2> HIDE DEF Good, n
  <2> QED BY <1>0, <1>2, <2>1, <2>2
<1>10. CASE SweepDrop(p)
  <2> DEFINE n(e) == [Go(h(e), "zLuns") EXCEPT !.todo = @ \ {q.from}]
  <2>1. \E o : Write(p, o.a, n(o.r))
    BY <1>10 DEF SweepDrop, q, h
  <2>2. \A e : Good(n(e))
    BY <1>3
  <2> HIDE DEF Good, n
  <2> QED BY <1>0, <2>1, <2>2
<1> QED BY <1>4, <1>5, <1>6, <1>7, <1>8, <1>9, <1>10

LEMMA ScanExcuses ==
    ASSUME NEW p \in Proc, Poised(p),
           ScanList(p) \/ ScanLuns(p) \/ ScanDetach(p) \/ ScanDrop(p) \/ ScanGone(p)
    PROVE  Excuses(p)
<1>1. pr'[p].at \in Scanning \cup {"destroy"}
  BY ScanKin DEF Poised, Ready
<1>2. pr'[p].at \notin Minded /\ pr'[p].at # "done"
  BY <1>1 DEF Scanning, Minded, Seeking
<1> QED BY <1>2, UnmindedExcused DEF Excuses

LEMMA DestroyExcuses == ASSUME NEW p \in Proc, Poised(p), Destroy(p) PROVE Excuses(p)
<1> DEFINE q == pr[p]
<1>1. q \in RunType /\ q.at = "destroy" /\ Job(q) /\ array \in ArrayType
  BY PoisedWorks DEF Destroy
<1>2. q.vol \in Volume /\ q.cmd \in {"export", "unexport", "destroy"} /\ q.res \in Results /\ q.errs \in Nat
  BY <1>1 DEF Job, Method, Args, RunType
<1>3. PICK detach \in BOOLEAN :
        LET r == delete_lun(array, q.vol, detach) IN
        \E o \in Answers(q, "delete_lun", r, delete_lun(r.a, q.vol, detach)) :
           Write(p, o.a, IF o.r \in {"ok", "notfound"} THEN Finish(q, q.res)
                         ELSE Finish(Felt(q, o.r), "failed"))
  BY DEF Destroy
<1> DEFINE r == delete_lun(array, q.vol, detach)
           again == delete_lun(r.a, q.vol, detach)
<1>4. PICK o \in Answers(q, "delete_lun", r, again) :
           Write(p, o.a, IF o.r \in {"ok", "notfound"} THEN Finish(q, q.res)
                         ELSE Finish(Felt(q, o.r), "failed"))
  BY <1>3
<1>5. q.vol \notin r.a.zvol /\ r.r \in {"ok", "notfound"} /\ again = Ret(r.a, "notfound")
  BY <1>1, <1>2, delete_lun_Effect
<1>6. again.a = r.a /\ again.r = "notfound"
  BY <1>5 DEF Ret
<1> HIDE DEF r, again
<1>7. \/ o.a = r.a /\ o.r \in {"ok", "notfound"}
      \/ o.r \in {"error", "cfg"}
  BY <1>4, <1>5, <1>6, Answer
<1>8. CASE o.r \in {"ok", "notfound"}
  <2> DEFINE s == q.res
             n == Finish(q, s)
  <2>1. n.at = "done" /\ n.vol = q.vol /\ n.cmd = q.cmd
    <3>1. s \in Results
      BY <1>2
    <3> HIDE DEF s
    <3> QED BY <1>1, <3>1, FinishFields
  <2>2. Write(p, o.a, n)
    BY <1>4, <1>8
  <2> HIDE DEF n
  <2>3. n.vol \notin o.a.zvol /\ n.cmd # "create"
    BY <1>2, <1>5, <1>7, <1>8, <2>1
  <2>4. Excused(n, o.a)
    BY <2>1, <2>3 DEF Excused
  <2> QED BY <2>2, <2>4, WriteExcuses
<1>9. CASE o.r \notin {"ok", "notfound"}
  <2> DEFINE h == Felt(q, o.r)
             n == Finish(h, "failed")
  <2>1. h \in RunType /\ h.errs = q.errs + 1
    BY <1>1, <1>7, <1>9, FeltFields
  <2>2. Write(p, o.a, n)
    BY <1>4, <1>9
  <2> HIDE DEF h
  <2>3. n.errs = h.errs
    BY <2>1, FinishFields DEF Results
  <2> HIDE DEF n
  <2>4. Excused(n, o.a)
    BY <1>2, <2>1, <2>3 DEF Excused
  <2> QED BY <2>2, <2>4, WriteExcuses
<1> QED BY <1>8, <1>9

LEMMA ExitExcuses == ASSUME NEW p \in Proc, Poised(p), Exit(p) PROVE Excuses(p)
<1>1. NoRun.at \notin Minded /\ NoRun.at # "done"
  BY DEF NoRun, Minded, Seeking
<1> QED BY <1>1, UnmindedExcused, ReadExcuses DEF Exit

\* No step of a command that met no failure ends it while its volume is there.
LEMMA StepExcuses == ASSUME Undisturbed, NEW p \in Proc, Poised(p), Step(p) PROVE Excuses(p)
<1>1. CASE Exists(p) \/ CloneSnapshot(p) \/ Lookup(p) \/ Rehome(p) \/ List(p) \/ SlotOf(p) \/ Pick(p)
  BY <1>1, ExistsExcuses, CloneSnapshotExcuses, LookupExcuses, RehomeExcuses, ListExcuses,
     SlotOfExcuses, PickExcuses
<1>2. CASE \/ VipsNew(p) \/ CreateTarget(p) \/ GetTarget(p) \/ Vips(p) \/ GetLun(p)
           \/ Attach(p) \/ Resolve(p) \/ Confirm(p)
  BY <1>2, VipsNewExcuses, CreateTargetExcuses, GetTargetExcuses, VipsExcuses, GetLunExcuses,
     AttachExcuses, ResolveExcuses, ConfirmExcuses
<1>3. CASE Users(p) \/ DelUser(p) \/ SetUser(p) \/ DropBad(p) \/ Active(p)
  BY <1>3, UsersExcuses, DelUserExcuses, SetUserExcuses, DropBadExcuses, ActiveExcuses
<1>4. CASE Busy(p) \/ Detach(p) \/ Left(p) \/ Drop(p) \/ Destroy(p) \/ Exit(p)
  BY <1>4, BusyExcuses, DetachExcuses, LeftExcuses, DropExcuses, DestroyExcuses, ExitExcuses
<1>5. CASE \/ Removed(p) \/ SweepList(p) \/ SweepLuns(p) \/ SweepCheck(p) \/ SweepDetach(p)
           \/ SweepAgain(p) \/ SweepDrop(p)
  BY <1>5, SweptExcuses
<1>6. CASE ScanList(p) \/ ScanLuns(p) \/ ScanDetach(p) \/ ScanDrop(p) \/ ScanGone(p)
  BY <1>6, ScanExcuses
<1> QED BY <1>1, <1>2, <1>3, <1>4, <1>5, <1>6 DEF Step

-----------------------------------------------------------------------------
(* A volume is on targets that are there.                                  *)

LEMMA FewerHoused ==
    ASSUME NEW a, NEW b, Housed(a), a.made \subseteq b.made,
           \A v \in Volume : b.att[v] \in {a.att[v], None}
    PROVE  Housed(b)
<1> QED BY DEF Housed

\* The outcomes of a request that is answered, answered again or lost.
LEMMA WrittenHoused ==
    ASSUME Housed(array), NEW q, NEW c, NEW r, NEW again, Housed(r.a), again.a = r.a,
           \E o \in Answers(q, c, r, again) : array' = o.a
    PROVE  Housed(array')
<1> QED BY Answer

LEMMA DetachedHoused ==
    ASSUME array \in ArrayType, Housed(array), NEW q, NEW c, NEW t, NEW v,
           \E o \in Answers(q, c, detach_target_vol(array, t, v),
                            detach_target_vol(detach_target_vol(array, t, v).a, t, v)) : array' = o.a
    PROVE  Housed(array')
<1> DEFINE r == detach_target_vol(array, t, v)
           again == detach_target_vol(r.a, t, v)
<1>1. /\ again = Ret(r.a, "notfound") /\ r.a.made = array.made
      /\ \A w \in Volume : r.a.att[w] \in {array.att[w], None}
  BY detach_target_vol_Effect
<1>2. again.a = r.a /\ Housed(r.a)
  BY <1>1, FewerHoused DEF Ret
<1>3. \E o \in Answers(q, c, r, again) : array' = o.a
  OBVIOUS
<1> HIDE DEF r, again
<1> QED BY <1>2, <1>3, WrittenHoused

\* The LUNs of a target go with it.
LEMMA DroppedHoused ==
    ASSUME array \in ArrayType, Housed(array), NEW q, NEW c, NEW t \in Target,
           \E o \in Answers(q, c, delete_target(array, t),
                            delete_target(delete_target(array, t).a, t)) : array' = o.a
    PROVE  Housed(array')
<1> DEFINE r == delete_target(array, t)
           again == delete_target(r.a, t)
<1>1. again = Ret(r.a, "notfound") /\ r.a.made = array.made \ {t}
  BY delete_target_Effect
<1>2. CASE t \in array.made
  <2>1. \A v \in Volume : r.a.att[v] = IF v \in On(array, t) THEN None ELSE array.att[v]
    BY <1>2 DEF delete_target, Ret, ArrayType
  <2>2. Housed(r.a)
    BY <1>1, <2>1 DEF Housed, On
  <2>3. \E o \in Answers(q, c, r, again) : array' = o.a
    OBVIOUS
  <2>4. again.a = r.a
    BY <1>1 DEF Ret
  <2> HIDE DEF r, again
  <2> QED BY <2>2, <2>3, <2>4, WrittenHoused
<1>3. CASE t \notin array.made
  <2>1. r.a = array
    BY <1>3 DEF delete_target, Ret
  <2>2. \E o \in Answers(q, c, r, again) : array' = o.a
    OBVIOUS
  <2>3. again.a = r.a
    BY <1>1 DEF Ret
  <2> HIDE DEF r, again
  <2> QED BY <2>1, <2>2, <2>3, WrittenHoused
<1> QED BY <1>2, <1>3

LEMMA DestroyedHoused ==
    ASSUME array \in ArrayType, Housed(array), NEW q, NEW c, NEW v \in Volume, NEW d \in BOOLEAN,
           \E o \in Answers(q, c, delete_lun(array, v, d),
                            delete_lun(delete_lun(array, v, d).a, v, d)) : array' = o.a
    PROVE  Housed(array')
<1> DEFINE r == delete_lun(array, v, d)
           again == delete_lun(r.a, v, d)
<1>1. /\ again = Ret(r.a, "notfound") /\ r.a.made = array.made
      /\ \A w \in Volume : w # v => r.a.att[w] = array.att[w]
  BY delete_lun_Effect
<1>2. r.a.att[v] \in {array.att[v], None}
  BY DEF delete_lun, Ret, ArrayType
<1>3. again.a = r.a /\ Housed(r.a)
  BY <1>1, <1>2, FewerHoused DEF Ret
<1>4. \E o \in Answers(q, c, r, again) : array' = o.a
  OBVIOUS
<1> HIDE DEF r, again
<1> QED BY <1>3, <1>4, WrittenHoused

LEMMA AttachedHoused ==
    ASSUME array \in ArrayType, Housed(array), NEW q, NEW c, NEW t, NEW v, NEW l \in 0..Luns - 1,
           \E o \in Answers(q, c, attach_target_vol(array, t, v, l),
                            attach_target_vol(attach_target_vol(array, t, v, l).a, t, v, l)) : array' = o.a
    PROVE  Housed(array')
<1> DEFINE r == attach_target_vol(array, t, v, l)
           again == attach_target_vol(r.a, t, v, l)
<1>1. /\ again.a = r.a /\ r.a.made = array.made
      /\ \A w \in Volume : (w = v /\ array.att[w] = None) \/ r.a.att[w] = array.att[w]
  BY attach_target_vol_Effect
<1>2. CASE r.r = "ok"
  <2>1. t \in array.made /\ r.a.att[v] = <<t, l>>
    <3>1. t \in array.made
      BY <1>2 DEF attach_target_vol, Ret
    <3> QED BY <1>2, <3>1, attach_target_vol_Effect
  <2>2. Housed(r.a)
    BY <1>1, <2>1 DEF Housed
  <2>3. \E o \in Answers(q, c, r, again) : array' = o.a
    OBVIOUS
  <2> HIDE DEF r, again
  <2> QED BY <1>1, <2>2, <2>3, WrittenHoused
<1>3. CASE r.r # "ok"
  <2>1. r.a = array
    BY <1>3 DEF attach_target_vol, Ret
  <2>2. \E o \in Answers(q, c, r, again) : array' = o.a
    OBVIOUS
  <2> HIDE DEF r, again
  <2> QED BY <1>1, <2>1, <2>2, WrittenHoused
<1> QED BY <1>2, <1>3

\* The requests that leave every volume where it is.
LEMMA LeftHoused ==
    ASSUME Housed(array), NEW q, NEW c, NEW r, NEW again,
           again.a = r.a, r.a.att = array.att, array.made \subseteq r.a.made,
           \E o \in Answers(q, c, r, again) : array' = o.a
    PROVE  Housed(array')
<1>1. Housed(r.a)
  BY DEF Housed
<1> QED BY <1>1, WrittenHoused

LEMMA DetachHoused ==
    ASSUME Types, Housed(array), NEW p \in Proc, Detach(p) \/ SweepDetach(p) \/ ScanDetach(p)
    PROVE  Housed(array')
<1>1. array \in ArrayType
  BY DEF Types
<1>2. CASE Detach(p)
  <2>1. \E o \in Answers(pr[p], "detach", detach_target_vol(array, pr[p].from, pr[p].vol),
                     detach_target_vol(detach_target_vol(array, pr[p].from, pr[p].vol).a,
                                       pr[p].from, pr[p].vol)) : array' = o.a
    BY <1>2 DEF Detach, Write
  <2> QED BY <1>1, <2>1, DetachedHoused
<1>3. CASE SweepDetach(p)
  <2>1. \E o \in Answers(pr[p], "detach", detach_target_vol(array, pr[p].from, pr[p].item),
                     detach_target_vol(detach_target_vol(array, pr[p].from, pr[p].item).a,
                                       pr[p].from, pr[p].item)) : array' = o.a
    BY <1>3 DEF SweepDetach, Write
  <2> QED BY <1>1, <2>1, DetachedHoused
<1>4. CASE ScanDetach(p)
  <2>1. \E o \in Answers(pr[p], "detach", detach_target_vol(array, pr[p].from, pr[p].vol),
                     detach_target_vol(detach_target_vol(array, pr[p].from, pr[p].vol).a,
                                       pr[p].from, pr[p].vol)) : array' = o.a
    BY <1>4 DEF ScanDetach, Write
  <2> QED BY <1>1, <2>1, DetachedHoused
<1> QED BY <1>2, <1>3, <1>4

LEMMA DropHoused ==
    ASSUME Types, Housed(array), NEW p \in Proc, Drop(p) \/ SweepDrop(p) \/ ScanDrop(p) \/ DropBad(p)
    PROVE  Housed(array')
<1>1. array \in ArrayType /\ Job(pr[p])
  BY Working DEF Drop, SweepDrop, ScanDrop, DropBad
<1>2. CASE Drop(p)
  <2>1. pr[p].from \in Target
    BY <1>1, <1>2 DEF Drop, Job, Args, Detaching
  <2>2. \E o \in Answers(pr[p], "delete_target", delete_target(array, pr[p].from),
                     delete_target(delete_target(array, pr[p].from).a, pr[p].from)) : array' = o.a
    BY <1>2 DEF Drop, Write
  <2> QED BY <1>1, <2>1, <2>2, DroppedHoused
<1>3. CASE SweepDrop(p)
  <2>1. pr[p].from \in Target
    BY <1>1, <1>3 DEF SweepDrop, Job, Args, Sweeping
  <2>2. \E o \in Answers(pr[p], "delete_target", delete_target(array, pr[p].from),
                     delete_target(delete_target(array, pr[p].from).a, pr[p].from)) : array' = o.a
    BY <1>3 DEF SweepDrop, Write
  <2> QED BY <1>1, <2>1, <2>2, DroppedHoused
<1>4. CASE ScanDrop(p)
  <2>1. pr[p].from \in Target
    BY <1>1, <1>4 DEF ScanDrop, Job, Args, Scanning
  <2>2. \E o \in Answers(pr[p], "delete_target", delete_target(array, pr[p].from),
                     delete_target(delete_target(array, pr[p].from).a, pr[p].from)) : array' = o.a
    BY <1>4 DEF ScanDrop, Write
  <2> QED BY <1>1, <2>1, <2>2, DroppedHoused
<1>5. CASE DropBad(p)
  <2>1. pr[p].tgt \in Target
    BY <1>1, <1>5 DEF DropBad, Job, Args, Attaching
  <2>2. \E o \in Answers(pr[p], "delete_target", delete_target(array, pr[p].tgt),
                     delete_target(delete_target(array, pr[p].tgt).a, pr[p].tgt)) : array' = o.a
    BY <1>5 DEF DropBad, Write
  <2> QED BY <1>1, <2>1, <2>2, DroppedHoused
<1> QED BY <1>2, <1>3, <1>4, <1>5

LEMMA DestroyHoused ==
    ASSUME Types, Housed(array), NEW p \in Proc, Destroy(p)
    PROVE  Housed(array')
<1>1. Deleter(pr[p]) /\ array \in ArrayType
  BY DeleterWorks DEF Destroy
<1>2. pr[p].vol \in Volume
  BY <1>1 DEF Deleter
<1>3. PICK d \in BOOLEAN :
         \E o \in Answers(pr[p], "delete_lun", delete_lun(array, pr[p].vol, d),
                          delete_lun(delete_lun(array, pr[p].vol, d).a, pr[p].vol, d)) : array' = o.a
  BY DEF Destroy, Write
<1> QED BY <1>1, <1>2, <1>3, DestroyedHoused

LEMMA AttachHoused ==
    ASSUME Types, Housed(array), NEW p \in Proc, Attach(p)
    PROVE  Housed(array')
<1> DEFINE q == pr[p]
           r == attach_target_vol(array, q.tgt, q.vol, q.lun)
<1>1. array \in ArrayType /\ q.at = "attach"
  BY Working DEF Attach
<1>2. q.lun \in 0..Luns - 1
  BY <1>1, PublisherWorks DEF Attaching, Publishing
<1>3. \/ \E o \in Answers(q, "attach", r, attach_target_vol(r.a, q.tgt, q.vol, q.lun)) : array' = o.a
      \/ \E o \in {Ret(array, "blocked") : e \in Errors(q, "blocked")} : array' = o.a
  BY DEF Attach, Write
<1>4. CASE \E o \in {Ret(array, "blocked") : e \in Errors(q, "blocked")} : array' = o.a
  BY <1>4 DEF Ret
<1>5. CASE \E o \in Answers(q, "attach", r, attach_target_vol(r.a, q.tgt, q.vol, q.lun)) : array' = o.a
  BY <1>1, <1>2, <1>5, AttachedHoused
<1> QED BY <1>3, <1>4, <1>5

\* The requests about clones, targets and credentials.
LEMMA SettingHoused ==
    ASSUME Types, Housed(array), NEW p \in Proc,
           CloneSnapshot(p) \/ CreateTarget(p) \/ SetUser(p) \/ DelUser(p) \/ Active(p)
    PROVE  Housed(array')
<1> DEFINE q == pr[p]
<1>1. array \in ArrayType /\ Job(q)
  BY Working DEF CloneSnapshot, CreateTarget, SetUser, DelUser, Active
<1>2. CASE CloneSnapshot(p)
  <2> DEFINE r == create_volume_from_snapshot(array, q.vol)
             again == create_volume_from_snapshot(r.a, q.vol)
  <2>1. again = Ret(r.a, "exists") /\ r.a.att = array.att /\ r.a.made = array.made
    BY <1>1, <1>2, create_clone_Effect DEF CloneSnapshot, Job, Args, Method
  <2>2. again.a = r.a
    BY <2>1 DEF Ret
  <2>3. \E o \in Answers(q, "clone", r, again) : array' = o.a
    BY <1>2 DEF CloneSnapshot, Write
  <2> HIDE DEF r, again
  <2> QED BY <2>1, <2>2, <2>3, LeftHoused
<1>3. CASE CreateTarget(p)
  <2> DEFINE r == create_target(array, q.tgt, q.user)
             again == create_target(r.a, q.tgt, q.user)
  <2>1. again = Ret(r.a, "exists") /\ r.a.att = array.att /\ array.made \subseteq r.a.made
    BY <1>1, <1>3, create_target_Effect DEF CreateTarget, Job, Args, Attaching
  <2>2. again.a = r.a
    BY <2>1 DEF Ret
  <2>3. \E o \in Answers(q, "create_target", r, again) : array' = o.a
    BY <1>3 DEF CreateTarget, Write
  <2> HIDE DEF r, again
  <2> QED BY <2>1, <2>2, <2>3, LeftHoused
<1>4. CASE SetUser(p)
  <2> DEFINE r == create_target_user(array, q.tgt, q.user)
             again == create_target_user(r.a, q.tgt, q.user)
  <2>1. again = r /\ r.a.att = array.att /\ r.a.made = array.made
    BY <1>1, <1>4, create_target_user_Effect DEF SetUser, Job, Args, Crediting
  <2>2. \E o \in Answers(q, "set_user", r, again) : array' = o.a
    BY <1>4 DEF SetUser, Write
  <2> HIDE DEF r, again
  <2> QED BY <2>1, <2>2, LeftHoused
<1>5. CASE DelUser(p)
  <2>1. Crediter(q)
    BY <1>5, CrediterWorks DEF DelUser
  <2>2. PICK u \in q.todo :
           \E o \in Answers(q, "users", delete_target_user(array, q.tgt, u),
                            delete_target_user(delete_target_user(array, q.tgt, u).a, q.tgt, u)) : array' = o.a
    BY <1>5 DEF DelUser, Write
  <2> DEFINE r == delete_target_user(array, q.tgt, u)
             again == delete_target_user(r.a, q.tgt, u)
  <2>3. again = Ret(r.a, "notfound") /\ r.a.att = array.att /\ r.a.made = array.made
    BY <1>1, <2>1, delete_target_user_Effect DEF Crediter
  <2>4. again.a = r.a
    BY <2>3 DEF Ret
  <2>5. \E o \in Answers(q, "users", r, again) : array' = o.a
    BY <2>2
  <2> HIDE DEF r, again
  <2> QED BY <2>3, <2>4, <2>5, LeftHoused
<1>6. CASE Active(p)
  <2> DEFINE want == q.user # None
             r == set_target_incoming_users_active(array, q.tgt, want)
  <2>1. Crediter(q) /\ want \in BOOLEAN
    BY <1>6, CrediterWorks DEF Active
  <2>2. r.a.att = array.att /\ r.a.made = array.made
    <3> HIDE DEF want
    <3> QED BY <1>1, <2>1, set_active_Effect DEF Crediter
  <2>3. (array' = array) \/ \E o \in Answers(q, "active", r, r) : array' = o.a
    BY <1>6 DEF Active, Read, Write
  <2> HIDE DEF r
  <2> QED BY <2>2, <2>3, LeftHoused
<1> QED BY <1>2, <1>3, <1>4, <1>5, <1>6

LEMMA StepHoused ==
    ASSUME Types, Housed(array), NEW p \in Proc, Step(p)
    PROVE  Housed(array')
<1>1. CASE Exists(p) \/ Lookup(p) \/ Rehome(p) \/ List(p) \/ SlotOf(p) \/ Pick(p)
           \/ VipsNew(p) \/ GetTarget(p) \/ Vips(p) \/ GetLun(p) \/ Resolve(p) \/ Confirm(p)
  BY <1>1, ReadStays
<1>2. CASE Users(p) \/ Busy(p) \/ Left(p) \/ Removed(p)
           \/ SweepList(p) \/ SweepLuns(p) \/ SweepCheck(p) \/ SweepAgain(p)
           \/ ScanList(p) \/ ScanLuns(p) \/ ScanGone(p) \/ Exit(p)
  BY <1>2, ReadStays
<1>3. CASE CloneSnapshot(p) \/ CreateTarget(p) \/ DelUser(p) \/ SetUser(p) \/ Active(p)
  BY <1>3, SettingHoused
<1>4. CASE \/ Attach(p) \/ Detach(p) \/ Drop(p) \/ SweepDetach(p) \/ SweepDrop(p)
           \/ ScanDetach(p) \/ ScanDrop(p) \/ DropBad(p) \/ Destroy(p)
  BY <1>4, AttachHoused, DetachHoused, DropHoused, DestroyHoused
<1> QED BY <1>1, <1>2, <1>3, <1>4 DEF Step

-----------------------------------------------------------------------------
(* Failures, one command after the other.                                  *)

Unfailing == Housed(array) /\ late = {} /\ \A p \in Proc : Excused(pr[p], array)

LEMMA IdleExcused == ASSUME NEW n, NEW b, n.at = "idle" PROVE Excused(n, b)
<1> QED BY UnmindedExcused DEF Minded, Seeking

LEMMA InitUnfailing ==
    ASSUME Init
    PROVE  Unfailing
<1>1. \A p \in Proc : pr[p].at = "idle"
  BY NoRunIdle DEF Init
<1>2. Housed(array)
  <2>1. PICK att \in [Volume \ Clone -> (Foreign \X (0..Luns - 1)) \cup {None}] :
           array = [zvol |-> Volume \ Clone,
                    made |-> {t \in Foreign : \E v \in Volume \ Clone : att[v] # None /\ att[v][1] = t},
                    att |-> [v \in Volume |-> IF v \in Clone THEN None ELSE att[v]],
                    chap |-> [t \in Target |-> FALSE], users |-> [t \in Target |-> {}]]
    BY DEF Init
  <2>2. ASSUME NEW v \in Volume, array.att[v] # None PROVE array.att[v][1] \in array.made
    <3>1. v \in Volume \ Clone /\ array.att[v] = att[v] /\ att[v] # None
      BY <2>1, <2>2
    <3>2. att[v] \in Foreign \X (0..Luns - 1)
      BY <3>1
    <3>3. att[v][1] \in Foreign
      BY <3>2
    <3> QED BY <2>1, <3>1, <3>3
  <2> QED BY <2>2 DEF Housed
<1>3. late = {}
  BY DEF Init
<1> QED BY <1>1, <1>2, <1>3, IdleExcused DEF Unfailing

\* One process goes on while the others are idle.
LEMMA OneUnfailing ==
    ASSUME NEW p \in Proc, \A o \in Proc : o # p => pr[o].at = "idle" /\ pr'[o] = pr[o],
           Housed(array'), Excuses(p), late' = {}
    PROVE  Unfailing'
<1>1. \A o \in Proc : o # p => Excused(pr'[o], array')
  BY IdleExcused
<1> QED BY <1>1 DEF Unfailing, Excuses

LEMMA BeginExcuses ==
    ASSUME Types, NEW p \in Proc, NEW c, NEW v, NEW u, Begin(p, c, v, u)
    PROVE  /\ Excuses(p) /\ array' = array /\ late' = late
           /\ \A o \in Proc : o # p => pr'[o] = pr[o]
<1> DEFINE at == CASE c = "export" -> "clone" [] c = "remove" -> "lookup" [] OTHER -> "exists"
           n == [NoRun EXCEPT !.cmd = c, !.vol = v, !.user = u, !.at = at]
<1>1. at \in {"clone", "lookup", "exists"}
  OBVIOUS
<1>2. pr' = [pr EXCEPT ![p] = n] /\ array' = array /\ late' = late
  BY DEF Begin
<1>3. pr'[p] = n /\ \A o \in Proc : o # p => pr'[o] = pr[o]
  BY <1>2 DEF Types
<1> HIDE DEF at
<1>4. n.at = at /\ n.idx = 0
  BY NoRunIdle DEF RunType, NoRun
<1> HIDE DEF n
<1>5. Slotted(n, array)
  BY <1>1, <1>4 DEF Slotted
<1>6. Excused(n, array)
  BY <1>1, <1>4, <1>5 DEF Excused
<1> QED BY <1>2, <1>3, <1>6 DEF Excuses

LEMMA BeginTargetExcuses ==
    ASSUME Types, NEW p \in Proc, NEW c, NEW t, NEW u, BeginTarget(p, c, t, u)
    PROVE  /\ Excuses(p) /\ array' = array /\ late' = late
           /\ \A o \in Proc : o # p => pr'[o] = pr[o]
<1> DEFINE at == IF c = "update" THEN "target" ELSE "drop"
           n == [NoRun EXCEPT !.cmd = c, !.user = u, !.tgt = t, !.from = t, !.at = at]
<1>1. pr' = [pr EXCEPT ![p] = n] /\ array' = array /\ late' = late /\ c \in {"update", "delete"}
  BY DEF BeginTarget
<1>2. pr'[p] = n /\ \A o \in Proc : o # p => pr'[o] = pr[o]
  BY <1>1 DEF Types
<1> HIDE DEF at
<1>3. n.cmd = c
  BY DEF NoRun
<1> HIDE DEF n
<1> QED BY <1>1, <1>2, <1>3, UpdateExcused DEF Excuses

LEMMA NextUnfailing ==
    ASSUME Undisturbed, Orderly, Credited, Unfailing, [Next]_vars
    PROVE  Unfailing'
<1>1. /\ Types /\ Alone /\ Sound /\ array \in ArrayType /\ Sequential /\ LateCalls = {}
      /\ FewUsers(array) /\ (\A p \in Proc : Chapped(pr[p], array))
      /\ Housed(array) /\ late = {} /\ (\A p \in Proc : Excused(pr[p], array))
  BY DEF Orderly, Credited, Unfailing, Types, Undisturbed
<1>2. ASSUME NEW p \in Proc, Step(p) PROVE Unfailing'
  <2>1. Poised(p)
    BY <1>1, SoundFine DEF Ready, Poised
  <2>2. Excuses(p) /\ Housed(array')
    BY <1>1, <1>2, <2>1, StepExcuses, StepHoused
  <2>3. \A o \in Proc : o # p => pr[o].at = "idle"
    BY <1>1, <1>2, StepWorks DEF Alone
  <2>4. PICK n \in RunType, b \in ArrayType : Goes(p, n, b)
    BY <1>1, <1>2, StepAdvances DEF Advances
  <2>5. late' = {} /\ \A o \in Proc : o # p => pr'[o] = pr[o]
    BY <1>1, <2>4 DEF Goes, Types
  <2> QED BY <2>2, <2>3, <2>5, OneUnfailing
<1>3. ASSUME NEW p \in Proc, Kill(p) PROVE FALSE
  BY <1>1, <1>3 DEF Kill
<1>4. ASSUME NEW p \in Proc, NEW c \in Cmds, NEW u \in Modes \cup {None}, NEW v \in Volume, Begin(p, c, v, u)
      PROVE  Unfailing'
  <2>1. \A o \in Proc : pr[o].at = "idle"
    BY <1>1, <1>4 DEF Begin, Sequential
  <2>2. /\ Excuses(p) /\ array' = array /\ late' = late
        /\ \A o \in Proc : o # p => pr'[o] = pr[o]
    BY <1>1, <1>4, BeginExcuses
  <2> QED BY <1>1, <2>1, <2>2, OneUnfailing
<1>5. ASSUME NEW p \in Proc, NEW c \in Cmds, NEW u \in Modes \cup {None}, NEW t \in Own, BeginTarget(p, c, t, u)
      PROVE  Unfailing'
  <2>1. \A o \in Proc : pr[o].at = "idle"
    BY <1>5 DEF BeginTarget, Quiet
  <2>2. /\ Excuses(p) /\ array' = array /\ late' = late
        /\ \A o \in Proc : o # p => pr'[o] = pr[o]
    BY <1>1, <1>5, BeginTargetExcuses
  <2> QED BY <1>1, <2>1, <2>2, OneUnfailing
<1>6. ASSUME NEW r \in late, Serve(r) PROVE FALSE
  BY <1>1
<1>7. ASSUME NEW t \in Target, Login(t) \/ Logout(t) PROVE Unfailing'
  <2>1. UNCHANGED <<array, pr, late>>
    BY <1>7 DEF Login, Logout
  <2> QED BY <1>1, <2>1 DEF Unfailing
<1>8. ASSUME NEW v \in Volume, CreateVolume(v) PROVE Unfailing'
  <2>1. \A p \in Proc : pr'[p].at = "idle"
    BY <1>1, <1>8, CreateVolumeArray DEF Quiet
  <2>2. array'.att = array.att /\ array'.made = array.made /\ late' = late
    BY <1>1, <1>8 DEF CreateVolume, ArrayType
  <2>3. Housed(array')
    BY <1>1, <2>2 DEF Housed
  <2> QED BY <1>1, <2>1, <2>2, <2>3, IdleExcused DEF Unfailing
<1>9. CASE UNCHANGED vars
  BY <1>1, <1>9 DEF vars, Unfailing
<1> QED BY <1>2, <1>3, <1>4, <1>5, <1>6, <1>7, <1>8, <1>9 DEF Next

\* A command that met no failure, no clash and no target in use fails only when
\* its volume does not exist, one command after the other, with nothing
\* executed late and no request resent beside several CHAP users.
THEOREM FailuresExplained == ASSUME Undisturbed PROVE Spec => []Explained
<1>1. Init => Unfailing
  BY InitUnfailing
<1>2. Orderly /\ Credited /\ Unfailing /\ [Next]_vars => Unfailing'
  BY NextUnfailing
<1>3. Unfailing => Explained
  BY DEF Unfailing, Excused, Explained, Ended
<1>4. Sequential
  BY DEF Undisturbed
<1>5. Spec => []Orderly
  BY <1>4, SequentialInvariance
<1>6. Spec => []Credited
  BY <1>4, CredentialsInvariance
<1> QED BY <1>1, <1>2, <1>3, <1>5, <1>6, PTL DEF Spec
=============================================================================
