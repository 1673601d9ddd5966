---------------------------- MODULE SnapshotsCalls -----------------------------
(***************************************************************************)
(* The calls of Snapshots: what each does to the pool, how it ends, and    *)
(* that a call made a second time changes nothing more.  For any disks and *)
(* snapshots.                                                              *)
(***************************************************************************)
EXTENDS Snapshots, SequenceTheorems, TLAPS

-----------------------------------------------------------------------------
(* The pool: what holds of it between any two calls.                       *)

PoolType == [zvol : [Name -> Zvol \cup {None}], made : Nat]

\* No two snapshots of a zvol have one name.
Distinct(z) == \A i, j \in 1..Len(z.snaps) : z.snaps[i].name = z.snaps[j].name => i = j

\* A published snapshot has an origin which a user made, and no snapshots.
Published(z) == z.id = 0 /\ z.origin \in Nat \X Snap /\ z.snaps = <<>>

\* Ids are given to disks in turn.
Proper(a) ==
    /\ a \in PoolType
    /\ \A n \in Vol : Has(a, n) => a.zvol[n].id \in 1..a.made
    /\ \A n, m \in Vol : Has(a, n) /\ Has(a, m) /\ a.zvol[n].id = a.zvol[m].id => n = m
    /\ \A m \in Mount : Has(a, m) => Published(a.zvol[m])
    /\ \A n \in Name : Has(a, n) => Distinct(a.zvol[n])

\* b is a, but for what n stands for.
Elsewhere(a, b, n) == \A m \in Name \ {n} : b.zvol[m] = a.zvol[m]

LEMMA ZvolIs ==
    ASSUME NEW a, a \in PoolType, NEW n \in Name, Has(a, n)
    PROVE  /\ a.zvol[n] \in Zvol
           /\ a.zvol[n].id \in Nat /\ a.zvol[n].origin \in Origin \cup {None}
           /\ a.zvol[n].data \in Nat /\ a.zvol[n].snaps \in Seq(Copy)
           /\ Len(a.zvol[n].snaps) \in Nat
           /\ \A i \in 1..Len(a.zvol[n].snaps) : a.zvol[n].snaps[i] \in Copy
<1>1. a.zvol[n] \in Zvol
  BY DEF PoolType, Has
<1>2. a.zvol[n].snaps \in Seq(Copy)
  BY <1>1 DEF Zvol
<1>3. /\ Len(a.zvol[n].snaps) \in Nat
      /\ \A i \in 1..Len(a.zvol[n].snaps) : a.zvol[n].snaps[i] \in Copy
  BY <1>2
<1>4. /\ a.zvol[n].id \in Nat /\ a.zvol[n].origin \in Origin \cup {None}
      /\ a.zvol[n].data \in Nat
  BY <1>1 DEF Zvol
<1> QED BY <1>1, <1>2, <1>3, <1>4

\* The place of a snapshot among those of its zvol.
LEMMA PlaceIs ==
    ASSUME NEW a, a \in PoolType, NEW n \in Name, NEW s, HasSnap(a, n, s)
    PROVE  /\ Position(a, n, s) \in 1..Len(a.zvol[n].snaps)
           /\ a.zvol[n].snaps[Position(a, n, s)].name = s
<1>1. PICK i \in 1..Len(a.zvol[n].snaps) : a.zvol[n].snaps[i].name = s
  BY DEF HasSnap, SnapNames
<1> QED BY <1>1 DEF Position

\* A change of one zvol that gives no id twice keeps the pool proper.
LEMMA OneChanged ==
    ASSUME NEW a, Proper(a), NEW b, NEW n \in Name, NEW z \in Zvol,
           b.zvol = [a.zvol EXCEPT ![n] = z], b.made \in Nat, b = [zvol |-> b.zvol, made |-> b.made],
           b.made >= a.made,
           n \in Vol => z.id \in 1..b.made,
           n \in Vol => \A m \in Vol \ {n} : Has(a, m) => a.zvol[m].id # z.id,
           n \in Mount => Published(z),
           Distinct(z)
    PROVE  /\ Proper(b) /\ Has(b, n) /\ b.zvol[n] = z /\ Elsewhere(a, b, n)
<1>1. a \in PoolType /\ DOMAIN a.zvol = Name /\ a.zvol \in [Name -> Zvol \cup {None}] /\ a.made \in Nat
  BY DEF Proper, PoolType
<1>2. b.zvol \in [Name -> Zvol \cup {None}] /\ b.zvol[n] = z /\ Elsewhere(a, b, n)
  BY <1>1 DEF Elsewhere
<1>3. b \in PoolType
  BY <1>2 DEF PoolType
<1>4. Has(b, n) /\ \A m \in Name \ {n} : Has(b, m) <=> Has(a, m)
  BY <1>2, SnapshotsAssumption DEF Has, Elsewhere
<1>5. Vol \subseteq Name /\ Mount \subseteq Name
  BY DEF Name
<1>6. \A m \in Vol : Has(b, m) => b.zvol[m].id \in 1..b.made
  <2>1. SUFFICES ASSUME NEW m \in Vol, Has(b, m), m # n PROVE b.zvol[m].id \in 1..b.made
    BY <1>2
  <2>2. a.zvol[m].id \in 1..a.made /\ b.zvol[m] = a.zvol[m]
    BY <2>1, <1>2, <1>4, <1>5 DEF Proper, Elsewhere
  <2> QED BY <2>2, <1>1
<1>7. \A m, k \in Vol : Has(b, m) /\ Has(b, k) /\ b.zvol[m].id = b.zvol[k].id => m = k
  BY <1>2, <1>4, <1>5 DEF Proper, Elsewhere
<1>8. \A m \in Mount : Has(b, m) => Published(b.zvol[m])
  BY <1>2, <1>4, <1>5 DEF Proper, Elsewhere
<1>9. \A m \in Name : Has(b, m) => Distinct(b.zvol[m])
  BY <1>2, <1>4, <1>5 DEF Proper, Elsewhere
<1> QED BY <1>2, <1>3, <1>4, <1>6, <1>7, <1>8, <1>9 DEF Proper

\* A new zvol.
LEMMA MadeIs ==
    ASSUME NEW a, Proper(a), NEW n \in Name, ~Has(a, n), NEW o \in Origin \cup {None}, NEW d \in Nat,
           n \in Mount => o \in Nat \X Snap
    PROVE  LET b == Made(a, n, o, d) IN
           /\ Proper(b) /\ Has(b, n) /\ Elsewhere(a, b, n)
           /\ b.zvol[n].origin = o /\ b.zvol[n].data = d /\ b.zvol[n].snaps = <<>>
           /\ n \in Vol => b.zvol[n].id = a.made + 1
<1> DEFINE b == Made(a, n, o, d)
           i == IF n \in Vol THEN a.made + 1 ELSE 0
           z == [id |-> i, origin |-> o, data |-> d, snaps |-> <<>>]
<1>1. a.made \in Nat /\ a.zvol \in [Name -> Zvol \cup {None}]
  BY DEF Proper, PoolType
<1>2. i \in Nat
  BY <1>1
<1>3. z \in Zvol
  <2>1. <<>> \in Seq(Copy)
    OBVIOUS
  <2> HIDE DEF i
  <2> QED BY <1>2, <2>1 DEF Zvol
<1>4. /\ b.zvol = [a.zvol EXCEPT ![n] = z] /\ b = [zvol |-> b.zvol, made |-> b.made]
      /\ b.made = IF n \in Vol THEN i ELSE a.made
  BY DEF Made
<1>5. b.made \in Nat /\ b.made >= a.made /\ (n \in Vol => z.id \in 1..b.made)
  BY <1>1, <1>4
<1>6. n \in Vol => \A m \in Vol \ {n} : Has(a, m) => a.zvol[m].id # z.id
  BY <1>1 DEF Proper
<1>7. Distinct(z)
  BY DEF Distinct
<1>8. n \in Mount => Published(z)
  BY SnapshotsAssumption DEF Published
<1>9. z.origin = o /\ z.data = d /\ z.snaps = <<>> /\ (n \in Vol => z.id = a.made + 1)
  OBVIOUS
<1> HIDE DEF z, b, i
<1>10. Proper(b) /\ Has(b, n) /\ b.zvol[n] = z /\ Elsewhere(a, b, n)
  BY <1>3, <1>4, <1>5, <1>6, <1>7, <1>8, OneChanged
<1>11. /\ Proper(b) /\ Has(b, n) /\ Elsewhere(a, b, n)
       /\ b.zvol[n].origin = o /\ b.zvol[n].data = d /\ b.zvol[n].snaps = <<>>
       /\ n \in Vol => b.zvol[n].id = a.made + 1
  BY <1>9, <1>10
<1> QED BY <1>11 DEF b

\* The zvol n of a with other data and snapshots.
Changed(a, n, d, t) ==
    [zvol |-> [a.zvol EXCEPT ![n] = [id |-> a.zvol[n].id, origin |-> a.zvol[n].origin,
                                     data |-> d, snaps |-> t]],
     made |-> a.made]

\* The names of a sequence of snapshots.
Names(t) == {t[i].name : i \in 1..Len(t)}

LEMMA ChangedIs ==
    ASSUME NEW a, Proper(a), NEW n \in Name, Has(a, n), NEW d \in Nat, NEW t \in Seq(Copy),
           n \in Mount => t = <<>>,
           \A i, j \in 1..Len(t) : t[i].name = t[j].name => i = j
    PROVE  LET b == Changed(a, n, d, t) IN
           /\ Proper(b) /\ Has(b, n) /\ Elsewhere(a, b, n)
           /\ b.zvol[n].id = a.zvol[n].id /\ b.zvol[n].origin = a.zvol[n].origin
           /\ b.zvol[n].data = d /\ b.zvol[n].snaps = t /\ SnapNames(b, n) = Names(t)
           /\ b.made = a.made
<1> DEFINE z == [id |-> a.zvol[n].id, origin |-> a.zvol[n].origin, data |-> d, snaps |-> t]
           b == Changed(a, n, d, t)
<1>1. a \in PoolType
  BY DEF Proper
<1>2. a.made \in Nat
  BY <1>1 DEF PoolType
<1>3. z \in Zvol
  BY <1>1, ZvolIs DEF Zvol
<1>4. /\ b.zvol = [a.zvol EXCEPT ![n] = z] /\ b.made = a.made
      /\ b = [zvol |-> b.zvol, made |-> b.made]
  BY DEF Changed
<1>5. n \in Vol => z.id \in 1..b.made
  BY <1>4 DEF Proper
<1>6. n \in Vol => \A m \in Vol \ {n} : Has(a, m) => a.zvol[m].id # z.id
  BY DEF Proper
<1>7. n \in Mount => Published(z)
  BY DEF Proper, Published
<1>8. Distinct(z)
  BY DEF Distinct
<1>9. /\ z.id = a.zvol[n].id /\ z.origin = a.zvol[n].origin /\ z.data = d /\ z.snaps = t
      /\ b.made \in Nat /\ b.made >= a.made
  BY <1>2, <1>4
<1> HIDE DEF z, b
<1>10. Proper(b) /\ Has(b, n) /\ b.zvol[n] = z /\ Elsewhere(a, b, n)
  BY <1>9, <1>3, <1>4, <1>5, <1>6, <1>7, <1>8, OneChanged
<1>11. SnapNames(b, n) = Names(t)
  BY <1>9, <1>10 DEF SnapNames, Names
<1> QED BY <1>4, <1>9, <1>10, <1>11 DEF b

\* Snapshots have one place each.
LEMMA OnePlace ==
    ASSUME NEW a, Proper(a), NEW n \in Name, Has(a, n), NEW i \in 1..Len(a.zvol[n].snaps)
    PROVE  /\ HasSnap(a, n, a.zvol[n].snaps[i].name)
           /\ Position(a, n, a.zvol[n].snaps[i].name) = i
<1> DEFINE s == a.zvol[n].snaps[i].name
<1>1. HasSnap(a, n, s)
  BY DEF HasSnap, SnapNames
<1>2. Position(a, n, s) \in 1..Len(a.zvol[n].snaps) /\ a.zvol[n].snaps[Position(a, n, s)].name = s
  BY <1>1, PlaceIs DEF Proper
<1>3. Position(a, n, s) = i
  BY <1>2 DEF Proper, Distinct
<1> QED BY <1>1, <1>3

\* Snapshot s of zvol n, and that it has the same contents and place in b.
CopyOf(a, n, s) == a.zvol[n].snaps[Position(a, n, s)]

Copied(a, b, n, s) ==
    HasSnap(b, n, s) /\ Position(b, n, s) = Position(a, n, s) /\ CopyOf(b, n, s) = CopyOf(a, n, s)

\* A new snapshot.
Snapped(a, n, s) ==
    Changed(a, n, a.zvol[n].data, Append(a.zvol[n].snaps, [name |-> s, data |-> a.zvol[n].data]))

LEMMA SnappedIs ==
    ASSUME NEW a, Proper(a), NEW n \in Vol, Has(a, n), NEW s \in Vol \cup Snap,
           s \notin SnapNames(a, n), NEW b, b = Snapped(a, n, s)
    PROVE  /\ create_snapshot(a, n, s) = Ret(b, "ok")
           /\ Proper(b) /\ Has(b, n) /\ Elsewhere(a, b, n)
           /\ b.zvol[n].id = a.zvol[n].id /\ b.zvol[n].origin = a.zvol[n].origin
           /\ b.zvol[n].data = a.zvol[n].data
           /\ SnapNames(b, n) = SnapNames(a, n) \cup {s}
           /\ \A t : HasSnap(a, n, t) => Copied(a, b, n, t)
           /\ HasSnap(b, n, s) /\ CopyOf(b, n, s).data = a.zvol[n].data
<1> DEFINE u == a.zvol[n].snaps
           d == a.zvol[n].data
           e == [name |-> s, data |-> d]
           t == Append(u, e)
<1>1. a \in PoolType /\ n \in Name /\ n \notin Mount
  BY SnapshotsAssumption DEF Proper, Name
<1>2. u \in Seq(Copy) /\ d \in Nat /\ Len(u) \in Nat /\ a.zvol[n] \in Zvol
  BY <1>1, ZvolIs
<1>3. e \in Copy /\ e.name = s
  BY <1>2 DEF Copy
<1>4. \A i, j \in 1..Len(u) : u[i].name = u[j].name => i = j
  BY <1>1 DEF Proper, Distinct
<1>5. \A i \in 1..Len(u) : u[i].name # s
  BY DEF SnapNames
<1>6. [a EXCEPT !.zvol[n].snaps = t] = Changed(a, n, d, t)
  <2>1. a = [zvol |-> a.zvol, made |-> a.made]
    BY <1>1 DEF PoolType
  <2>2. ASSUME NEW z \in Zvol, NEW y PROVE [z EXCEPT !.snaps = y] =
            [id |-> z.id, origin |-> z.origin, data |-> z.data, snaps |-> y]
    BY DEF Zvol
  <2>3. [a.zvol[n] EXCEPT !.snaps = t] =
            [id |-> a.zvol[n].id, origin |-> a.zvol[n].origin, data |-> d, snaps |-> t]
    <3> HIDE DEF t
    <3> QED BY <1>2, <2>2
  <2> HIDE DEF t, u, d
  <2>4. [a EXCEPT !.zvol[n].snaps = t] =
            [zvol |-> [a.zvol EXCEPT ![n] = [a.zvol[n] EXCEPT !.snaps = t]], made |-> a.made]
    BY <2>1
  <2> QED BY <2>3, <2>4 DEF Changed
<1> HIDE DEF e, u, d
<1>7. /\ t \in Seq(Copy) /\ Len(t) = Len(u) + 1
      /\ \A i \in 1..Len(u) : t[i] = u[i]
      /\ t[Len(u) + 1] = e
  BY <1>2, <1>3, AppendProperties
<1> HIDE DEF t
<1>8. \A i, j \in 1..Len(t) : t[i].name = t[j].name => i = j
  <2>1. SUFFICES ASSUME NEW i \in 1..Len(t), NEW j \in 1..Len(t), t[i].name = t[j].name
                 PROVE  i = j
    OBVIOUS
  <2>2. /\ i \in 1..Len(u) \/ i = Len(u) + 1
        /\ j \in 1..Len(u) \/ j = Len(u) + 1
    BY <1>2, <1>7
  <2> QED BY <1>3, <1>4, <1>5, <1>7, <2>1, <2>2
<1>9. Names(t) = SnapNames(a, n) \cup {s}
  <2>1. 1..Len(t) = 1..Len(u) \cup {Len(u) + 1}
    BY <1>2, <1>7
  <2>2. SnapNames(a, n) = {u[i].name : i \in 1..Len(u)}
    BY DEF SnapNames, u
  <2>3. (\A i \in 1..Len(u) : t[i].name = u[i].name) /\ t[Len(u) + 1].name = s
    BY <1>3, <1>7
  <2>4. ASSUME NEW x PROVE x \in Names(t) <=> x \in SnapNames(a, n) \cup {s}
    <3>1. x \in Names(t) <=> \E i \in 1..Len(t) : x = t[i].name
      BY DEF Names
    <3>2. x \in SnapNames(a, n) <=> \E i \in 1..Len(u) : x = u[i].name
      BY <2>2
    <3>3. (\E i \in 1..Len(t) : x = t[i].name)
            <=> (\E i \in 1..Len(u) : x = t[i].name) \/ x = t[Len(u) + 1].name
      BY <2>1, Zenon
    <3> QED BY <2>3, <3>1, <3>2, <3>3, Zenon
  <2> QED BY <2>4, Zenon
<1>11. b = Changed(a, n, d, t)
  BY DEF Snapped, t, e, u, d
<1>10. /\ Proper(b) /\ Has(b, n) /\ Elsewhere(a, b, n)
       /\ b.zvol[n].id = a.zvol[n].id /\ b.zvol[n].origin = a.zvol[n].origin
       /\ b.zvol[n].data = d /\ b.zvol[n].snaps = t /\ SnapNames(b, n) = Names(t)
  <2>1. n \in Name /\ d \in Nat /\ t \in Seq(Copy) /\ (n \in Mount => t = <<>>)
    BY <1>1, <1>2, <1>7
  <2>2. LET c == Changed(a, n, d, t) IN
        /\ Proper(c) /\ Has(c, n) /\ Elsewhere(a, c, n)
        /\ c.zvol[n].id = a.zvol[n].id /\ c.zvol[n].origin = a.zvol[n].origin
        /\ c.zvol[n].data = d /\ c.zvol[n].snaps = t /\ SnapNames(c, n) = Names(t)
        /\ c.made = a.made
    BY <2>1, <1>8, ChangedIs, SMTT(30)
  <2> QED BY <2>2, <1>11, Zenon
<1>12. create_snapshot(a, n, s) = Ret(b, "ok")
  BY <1>6, <1>11 DEF create_snapshot, t, e, u, d
<1>13. \A x : HasSnap(a, n, x) => Copied(a, b, n, x)
  <2>1. SUFFICES ASSUME NEW x, HasSnap(a, n, x) PROVE Copied(a, b, n, x)
    OBVIOUS
  <2> DEFINE i == Position(a, n, x)
  <2>2. i \in 1..Len(u) /\ u[i].name = x
    BY <1>1, <2>1, PlaceIs DEF u
  <2>3. i \in 1..Len(b.zvol[n].snaps) /\ b.zvol[n].snaps[i] = u[i]
    BY <1>2, <1>7, <1>10, <2>2
  <2>4. HasSnap(b, n, x) /\ Position(b, n, x) = i
    BY <1>1, <1>10, <2>2, <2>3, OnePlace
  <2> QED BY <2>3, <2>4 DEF Copied, CopyOf, u
<1>14. HasSnap(b, n, s) /\ CopyOf(b, n, s).data = d
  <2> DEFINE i == Len(u) + 1
  <2>1. i \in 1..Len(b.zvol[n].snaps) /\ b.zvol[n].snaps[i] = e /\ e.data = d
    BY <1>2, <1>7, <1>10 DEF e
  <2>2. HasSnap(b, n, s) /\ Position(b, n, s) = i
    BY <1>1, <1>3, <1>10, <2>1, OnePlace
  <2> QED BY <2>1, <2>2 DEF CopyOf
<1> QED BY <1>9, <1>10, <1>12, <1>13, <1>14 DEF t, e, u, d

\* Without a snapshot.
Unsnapped(a, n, s) ==
    Changed(a, n, a.zvol[n].data, RemoveAt(a.zvol[n].snaps, Position(a, n, s)))

LEMMA UnsnappedIs ==
    ASSUME NEW a, Proper(a), NEW n \in Name, NEW s, HasSnap(a, n, s),
           get_snapshot_clones(a, n, s) = {}, NEW b, b = Unsnapped(a, n, s)
    PROVE  /\ delete_snapshot(a, n, s) = Ret(b, "ok")
           /\ Proper(b) /\ Has(b, n) /\ Elsewhere(a, b, n)
           /\ b.zvol[n].id = a.zvol[n].id /\ b.zvol[n].origin = a.zvol[n].origin
           /\ b.zvol[n].data = a.zvol[n].data
           /\ SnapNames(b, n) = SnapNames(a, n) \ {s}
           /\ \A x : HasSnap(b, n, x) => CopyOf(b, n, x) = CopyOf(a, n, x)
<1> DEFINE u == a.zvol[n].snaps
           d == a.zvol[n].data
           k == Position(a, n, s)
           t == RemoveAt(u, k)
<1>1. a \in PoolType /\ Has(a, n)
  BY DEF Proper, HasSnap
<1>2. u \in Seq(Copy) /\ d \in Nat /\ Len(u) \in Nat /\ a.zvol[n] \in Zvol
  BY <1>1, ZvolIs
<1>3. k \in 1..Len(u) /\ u[k].name = s
  BY <1>1, PlaceIs
<1>4. \A i, j \in 1..Len(u) : u[i].name = u[j].name => i = j
  BY <1>1 DEF Proper, Distinct
<1>5. [a EXCEPT !.zvol[n].snaps = t] = Changed(a, n, d, t)
  <2>1. a = [zvol |-> a.zvol, made |-> a.made]
    BY <1>1 DEF PoolType
  <2>2. ASSUME NEW z \in Zvol, NEW y PROVE [z EXCEPT !.snaps = y] =
            [id |-> z.id, origin |-> z.origin, data |-> z.data, snaps |-> y]
    BY DEF Zvol
  <2>3. [a.zvol[n] EXCEPT !.snaps = t] =
            [id |-> a.zvol[n].id, origin |-> a.zvol[n].origin, data |-> d, snaps |-> t]
    <3> HIDE DEF t
    <3> QED BY <1>2, <2>2
  <2> HIDE DEF t, u, d, k
  <2>4. [a EXCEPT !.zvol[n].snaps = t] =
            [zvol |-> [a.zvol EXCEPT ![n] = [a.zvol[n] EXCEPT !.snaps = t]], made |-> a.made]
    BY <2>1
  <2> QED BY <2>3, <2>4 DEF Changed
<1>6. n \notin Mount
  BY <1>1, <1>2, <1>3 DEF Proper, Published
<1> HIDE DEF u, d, k
<1>7. /\ t \in Seq(Copy) /\ Len(t) = Len(u) - 1
      /\ \A i \in 1..Len(u) - 1 : t[i] = IF i < k THEN u[i] ELSE u[i + 1]
  <2> DEFINE x == SubSeq(u, 1, k - 1)
             y == SubSeq(u, k + 1, Len(u))
  <2>1. /\ k \in Int /\ k - 1 \in Int /\ k + 1 \in Int /\ Len(u) \in Int
        /\ \A i \in 1..Len(u) : u[i] \in Copy
    BY <1>2, <1>3
  <2>2. \A i \in 1..(k - 1) : u[i] \in Copy
    BY <1>3, <2>1
  <2>3. \A i \in (k + 1)..Len(u) : u[i] \in Copy
    BY <1>3, <2>1
  <2>4. /\ x \in Seq(Copy) /\ Len(x) = IF 1 <= k - 1 THEN k - 1 - 1 + 1 ELSE 0
        /\ \A i \in 1..(k - 1) - 1 + 1 : x[i] = u[1 + i - 1]
    BY <2>1, <2>2, SubSeqProperties
  <2>5. /\ y \in Seq(Copy) /\ Len(y) = IF k + 1 <= Len(u) THEN Len(u) - (k + 1) + 1 ELSE 0
        /\ \A i \in 1..Len(u) - (k + 1) + 1 : y[i] = u[k + 1 + i - 1]
    BY <2>1, <2>3, SubSeqProperties
  <2> HIDE DEF x, y
  <2>6. /\ Len(x) = k - 1 /\ \A i \in 1..k - 1 : x[i] = u[i]
        /\ Len(y) = Len(u) - k /\ \A i \in 1..Len(u) - k : y[i] = u[k + i]
    BY <1>2, <1>3, <2>4, <2>5
  <2>7. t = x \o y
    BY DEF x, y, RemoveAt
  <2>8. /\ t \in Seq(Copy) /\ Len(t) = Len(x) + Len(y)
        /\ \A i \in 1..Len(x) + Len(y) : t[i] = IF i <= Len(x) THEN x[i] ELSE y[i - Len(x)]
    BY <2>4, <2>5, <2>7
  <2>9. \A i \in 1..Len(u) - 1 : t[i] = IF i < k THEN u[i] ELSE u[i + 1]
    <3>1. SUFFICES ASSUME NEW i \in 1..Len(u) - 1
                   PROVE  t[i] = IF i < k THEN u[i] ELSE u[i + 1]
      OBVIOUS
    <3>2. i \in 1..Len(x) + Len(y)
      BY <1>2, <1>3, <2>6
    <3>3. CASE i < k
      BY <1>3, <2>6, <2>8, <3>2, <3>3
    <3>4. CASE i >= k
      <4>1. i - (k - 1) \in 1..Len(u) - k /\ k + (i - (k - 1)) = i + 1 /\ ~(i <= Len(x))
        BY <1>2, <1>3, <2>6, <3>4
      <4>2. t[i] = y[i - (k - 1)]
        BY <2>6, <2>8, <3>2, <4>1
      <4>3. y[i - (k - 1)] = u[k + (i - (k - 1))]
        BY <2>6, <4>1
      <4> QED BY <3>4, <4>1, <4>2, <4>3, <1>3
    <3> QED BY <1>3, <3>3, <3>4
  <2> QED BY <1>2, <1>3, <2>6, <2>8, <2>9
<1> HIDE DEF t
<1>8. \A i, j \in 1..Len(t) : t[i].name = t[j].name => i = j
  <2>1. SUFFICES ASSUME NEW i \in 1..Len(t), NEW j \in 1..Len(t), t[i].name = t[j].name
                 PROVE  i = j
    OBVIOUS
  <2>2. \A l \in 1..Len(t) : /\ l \in 1..Len(u) - 1 /\ l \in 1..Len(u) /\ l + 1 \in 1..Len(u)
    BY <1>2, <1>7
  <2>3. /\ t[i] = IF i < k THEN u[i] ELSE u[i + 1]
        /\ t[j] = IF j < k THEN u[j] ELSE u[j + 1]
    BY <1>7, <2>2
  <2>4. (IF i < k THEN i ELSE i + 1) = (IF j < k THEN j ELSE j + 1)
    BY <1>4, <2>1, <2>2, <2>3
  <2> QED BY <1>3, <2>2, <2>4
<1>9. Names(t) = SnapNames(a, n) \ {s}
  <2>1. SnapNames(a, n) = {u[i].name : i \in 1..Len(u)}
    BY DEF SnapNames, u
  <2>2. \A i \in 1..Len(t) : \E j \in 1..Len(u) : j # k /\ t[i] = u[j]
    <3>1. SUFFICES ASSUME NEW i \in 1..Len(t) PROVE \E j \in 1..Len(u) : j # k /\ t[i] = u[j]
      OBVIOUS
    <3>2. i \in 1..Len(u) /\ i + 1 \in 1..Len(u) /\ i \in 1..Len(u) - 1
      BY <1>2, <1>7
    <3>3. CASE i < k
      BY <1>3, <1>7, <3>2, <3>3
    <3>4. CASE i >= k
      <4>1. i + 1 # k /\ ~(i < k)
        BY <1>3, <3>2, <3>4
      <4> QED BY <1>7, <3>2, <4>1
    <3> QED BY <1>3, <3>2, <3>3, <3>4
  <2>3. \A j \in 1..Len(u) : j # k => \E i \in 1..Len(t) : t[i] = u[j]
    <3>1. SUFFICES ASSUME NEW j \in 1..Len(u), j # k PROVE \E i \in 1..Len(t) : t[i] = u[j]
      OBVIOUS
    <3>2. CASE j < k
      <4>1. j \in 1..Len(u) - 1
        BY <1>2, <1>3, <3>2
      <4> QED BY <1>7, <3>2, <4>1
    <3>3. CASE j > k
      <4>1. j - 1 \in 1..Len(u) - 1 /\ ~(j - 1 < k) /\ (j - 1) + 1 = j
        BY <1>2, <1>3, <3>3
      <4> QED BY <1>7, <4>1
    <3> QED BY <1>3, <3>1, <3>2, <3>3
  <2>4. \A j \in 1..Len(u) : j # k <=> u[j].name # s
    BY <1>3, <1>4
  <2>5. Names(t) = {t[i].name : i \in 1..Len(t)}
    BY DEF Names
  <2>6. Names(t) \subseteq SnapNames(a, n) \ {s}
    BY <2>1, <2>2, <2>4, <2>5
  <2>7. SnapNames(a, n) \ {s} \subseteq Names(t)
    BY <2>1, <2>3, <2>4, <2>5
  <2> QED BY <2>6, <2>7
<1>11. b = Changed(a, n, d, t)
  BY DEF Unsnapped, t, k, u, d
<1>10. /\ Proper(b) /\ Has(b, n) /\ Elsewhere(a, b, n)
       /\ b.zvol[n].id = a.zvol[n].id /\ b.zvol[n].origin = a.zvol[n].origin
       /\ b.zvol[n].data = d /\ b.zvol[n].snaps = t /\ SnapNames(b, n) = Names(t)
  <2>1. Has(a, n) /\ d \in Nat /\ t \in Seq(Copy) /\ (n \in Mount => t = <<>>)
    BY <1>1, <1>2, <1>6, <1>7
  <2> QED BY <2>1, <1>8, <1>11, ChangedIs
<1>12. delete_snapshot(a, n, s) = Ret(b, "ok")
  BY <1>5, <1>11 DEF delete_snapshot, t, k, u, d
<1>13. \A x : HasSnap(b, n, x) => CopyOf(b, n, x) = CopyOf(a, n, x)
  <2>1. SUFFICES ASSUME NEW x, HasSnap(b, n, x) PROVE CopyOf(b, n, x) = CopyOf(a, n, x)
    OBVIOUS
  <2> DEFINE i == Position(b, n, x)
             j == IF i < k THEN i ELSE i + 1
  <2>2. i \in 1..Len(t) /\ t[i].name = x
    <3>1. b \in PoolType
      BY <1>10 DEF Proper
    <3>2. i \in 1..Len(b.zvol[n].snaps) /\ b.zvol[n].snaps[i].name = x
      BY <2>1, <3>1, PlaceIs
    <3> QED BY <1>10, <3>2
  <2>3. j \in 1..Len(u) /\ u[j] = t[i]
    BY <1>2, <1>3, <1>7, <2>2
  <2>4. Position(a, n, x) = j
    BY <1>1, <2>2, <2>3, OnePlace DEF u
  <2> QED BY <1>10, <2>3, <2>4 DEF CopyOf, u
<1> QED BY <1>9, <1>10, <1>12, <1>13 DEF t, k, u, d

LEMMA OtherContents ==
    ASSUME NEW z \in Zvol, NEW d \in Nat, NEW t \in Seq(Copy)
    PROVE  [z EXCEPT !.data = d, !.snaps = t] =
               [id |-> z.id, origin |-> z.origin, data |-> d, snaps |-> t]
<1> DEFINE y == [z EXCEPT !.data = d, !.snaps = t]
<1>1. y \in Zvol
  BY DEF Zvol
<1>2. y.id = z.id /\ y.origin = z.origin /\ y.data = d /\ y.snaps = t
  BY DEF Zvol
<1> HIDE DEF y
<1>3. y = [id |-> z.id, origin |-> z.origin, data |-> d, snaps |-> t]
  BY <1>1, <1>2 DEF Zvol
<1> QED BY <1>3 DEF y

\* A rollback of zvol n to its snapshot s.
RolledBack(a, n, s) ==
    Changed(a, n, a.zvol[n].snaps[Position(a, n, s)].data,
            SubSeq(a.zvol[n].snaps, 1, Position(a, n, s)))

LEMMA RolledBackIs ==
    ASSUME NEW a, Proper(a), NEW n \in Name, NEW s, HasSnap(a, n, s), Blockers(a, n, s) = {},
           NEW b, b = RolledBack(a, n, s)
    PROVE  /\ snapshot_rollback(a, n, s) = Ret(b, "ok")
           /\ Proper(b) /\ Has(b, n) /\ Elsewhere(a, b, n)
           /\ b.zvol[n].id = a.zvol[n].id /\ b.zvol[n].origin = a.zvol[n].origin
           /\ SnapNames(b, n) = SnapNames(a, n) \ Newer(a, n, s)
           /\ HasSnap(b, n, s) /\ Newer(b, n, s) = {}
           /\ b.zvol[n].data = CopyOf(b, n, s).data
           /\ \A x : HasSnap(b, n, x) => CopyOf(b, n, x) = CopyOf(a, n, x)
           /\ RolledBack(b, n, s) = b
<1> DEFINE z == a.zvol[n]
           u == z.snaps
           k == Position(a, n, s)
           e == u[k]
           d == e.data
           t == SubSeq(u, 1, k)
<1>1. a \in PoolType /\ Has(a, n)
  BY DEF Proper, HasSnap
<1>2. u \in Seq(Copy) /\ Len(u) \in Nat /\ a.zvol[n] \in Zvol
  BY <1>1, ZvolIs
<1>3. k \in 1..Len(u) /\ u[k].name = s
  BY <1>1, PlaceIs
<1>4. \A i, j \in 1..Len(u) : u[i].name = u[j].name => i = j
  BY <1>1 DEF Proper, Distinct
<1>5. e \in Copy /\ d \in Nat
  <2>1. e \in Copy
    BY <1>2, <1>3
  <2> QED BY <2>1 DEF Copy
<1>7. n \notin Mount
  BY <1>1, <1>2, <1>3 DEF Proper, Published
<1> HIDE DEF u, d, k, e, z
<1>8. /\ t \in Seq(Copy) /\ Len(t) = k /\ \A i \in 1..k : t[i] = u[i]
      /\ SubSeq(t, 1, k) = t
  <2>1. /\ k \in Int /\ 1 \in Int /\ \A i \in 1..k : u[i] \in Copy
    BY <1>2, <1>3
  <2>2. /\ t \in Seq(Copy) /\ Len(t) = IF 1 <= k THEN k - 1 + 1 ELSE 0
        /\ \A i \in 1..k - 1 + 1 : t[i] = u[1 + i - 1]
    BY <2>1, SubSeqProperties
  <2> HIDE DEF t
  <2>3. t \in Seq(Copy) /\ Len(t) = k /\ \A i \in 1..k : t[i] = u[i]
    BY <1>3, <2>2
  <2>4. SubSeq(t, 1, Len(t)) = t
    BY <2>3, SubSeqFull
  <2> QED BY <2>3, <2>4
<1>6. [a EXCEPT !.zvol[n] = [z EXCEPT !.data = d, !.snaps = t]] = Changed(a, n, d, t)
  <2>1. a = [zvol |-> a.zvol, made |-> a.made]
    BY <1>1 DEF PoolType
  <2>2. z \in Zvol
    BY <1>2 DEF z
  <2> HIDE DEF t
  <2>3. [z EXCEPT !.data = d, !.snaps = t] =
            [id |-> z.id, origin |-> z.origin, data |-> d, snaps |-> t]
    BY <1>5, <1>8, <2>2, OtherContents
  <2>4. [a EXCEPT !.zvol[n] = [z EXCEPT !.data = d, !.snaps = t]] =
            [zvol |-> [a.zvol EXCEPT ![n] = [z EXCEPT !.data = d, !.snaps = t]], made |-> a.made]
    BY <2>1
  <2> QED BY <2>3, <2>4 DEF Changed, z, t
<1> HIDE DEF t
<1>9. \A i, j \in 1..Len(t) : t[i].name = t[j].name => i = j
  BY <1>2, <1>3, <1>4, <1>8
<1>15. b = Changed(a, n, d, t)
  BY DEF RolledBack, t, d, e, u, k, z
<1>10. /\ Proper(b) /\ Has(b, n) /\ Elsewhere(a, b, n)
       /\ b.zvol[n].id = a.zvol[n].id /\ b.zvol[n].origin = a.zvol[n].origin
       /\ b.zvol[n].data = d /\ b.zvol[n].snaps = t /\ SnapNames(b, n) = Names(t)
  <2>1. Has(a, n) /\ d \in Nat /\ t \in Seq(Copy) /\ (n \in Mount => t = <<>>)
    BY <1>1, <1>5, <1>7, <1>8
  <2> QED BY <2>1, <1>9, <1>15, ChangedIs
<1>11. Names(t) = SnapNames(a, n) \ Newer(a, n, s)
  <2>1. SnapNames(a, n) = {u[i].name : i \in 1..Len(u)}
    BY DEF SnapNames, u, z
  <2>2. Newer(a, n, s) = {u[i].name : i \in k + 1..Len(u)}
    BY DEF Newer, u, k, z
  <2>3. Names(t) = {u[i].name : i \in 1..k}
    BY <1>8 DEF Names
  <2>4. 1..Len(u) = 1..k \cup (k + 1..Len(u))
    BY <1>2, <1>3
  <2>5. \A i \in 1..k, j \in k + 1..Len(u) : u[i].name # u[j].name
    <3>1. SUFFICES ASSUME NEW i \in 1..k, NEW j \in k + 1..Len(u) PROVE u[i].name # u[j].name
      OBVIOUS
    <3>2. i \in 1..Len(u) /\ j \in 1..Len(u) /\ i # j
      BY <1>2, <1>3
    <3> QED BY <1>4, <3>2
  <2> QED BY <2>1, <2>2, <2>3, <2>4, <2>5, Zenon
<1>12. HasSnap(b, n, s) /\ Position(b, n, s) = k
  <2>1. k \in 1..Len(b.zvol[n].snaps) /\ b.zvol[n].snaps[k].name = s
    BY <1>3, <1>8, <1>10
  <2>2. n \in Name /\ Proper(b) /\ Has(b, n)
    BY <1>10
  <2> QED BY <2>1, <2>2, OnePlace
<1>13. Newer(b, n, s) = {}
  <2>1. k + 1..Len(b.zvol[n].snaps) = {}
    BY <1>3, <1>8, <1>10
  <2> QED BY <1>12, <2>1 DEF Newer
<1>14. b.zvol[n].snaps[Position(b, n, s)] = e
  BY <1>3, <1>8, <1>10, <1>12 DEF e
<1>16. snapshot_rollback(a, n, s) = Ret(b, "ok")
  BY <1>6, <1>15 DEF snapshot_rollback, t, d, e, u, k, z
<1>17. RolledBack(b, n, s) = b
  <2>1. RolledBack(b, n, s) = Changed(b, n, d, t)
    BY <1>8, <1>10, <1>12, <1>14 DEF RolledBack, d
  <2>2. b.zvol[n] = [id |-> a.zvol[n].id, origin |-> a.zvol[n].origin, data |-> d, snaps |-> t]
    BY <1>1, <1>15 DEF Changed, PoolType
  <2>3. b \in PoolType
    BY <1>10 DEF Proper
  <2>4. [b.zvol EXCEPT ![n] = [id |-> a.zvol[n].id, origin |-> a.zvol[n].origin,
                               data |-> d, snaps |-> t]] = b.zvol
    BY <2>2, <2>3 DEF PoolType
  <2>5. b = [zvol |-> b.zvol, made |-> b.made]
    BY <2>3 DEF PoolType
  <2> QED BY <1>10, <2>1, <2>4, <2>5 DEF Changed
<1>18. \A x : HasSnap(b, n, x) => CopyOf(b, n, x) = CopyOf(a, n, x)
  <2>1. SUFFICES ASSUME NEW x, HasSnap(b, n, x) PROVE CopyOf(b, n, x) = CopyOf(a, n, x)
    OBVIOUS
  <2> DEFINE i == Position(b, n, x)
  <2>2. i \in 1..Len(t) /\ t[i].name = x
    <3>1. b \in PoolType
      BY <1>10 DEF Proper
    <3>2. i \in 1..Len(b.zvol[n].snaps) /\ b.zvol[n].snaps[i].name = x
      BY <2>1, <3>1, PlaceIs
    <3> QED BY <1>10, <3>2
  <2>3. i \in 1..Len(u) /\ u[i] = t[i]
    BY <1>2, <1>3, <1>8, <2>2
  <2>4. Position(a, n, x) = i
    BY <1>1, <2>2, <2>3, OnePlace DEF u, z
  <2> QED BY <1>10, <2>3, <2>4 DEF CopyOf, u, z
<1> QED BY <1>10, <1>11, <1>12, <1>13, <1>14, <1>16, <1>17, <1>18 DEF d, CopyOf

\* Without a zvol.
LEMMA GoneIs ==
    ASSUME NEW a, Proper(a), NEW n \in Name
    PROVE  Proper(Gone(a, n)) /\ ~Has(Gone(a, n), n) /\ Elsewhere(a, Gone(a, n), n)
<1> DEFINE b == Gone(a, n)
<1>1. a.zvol \in [Name -> Zvol \cup {None}] /\ a.made \in Nat /\ a = [zvol |-> a.zvol, made |-> a.made]
  BY DEF Proper, PoolType
<1>2. b.zvol = [a.zvol EXCEPT ![n] = None] /\ b.made = a.made /\ b = [zvol |-> b.zvol, made |-> b.made]
  BY <1>1 DEF Gone
<1> HIDE DEF b
<1>3. b \in PoolType /\ b.zvol[n] = None /\ Elsewhere(a, b, n)
  BY <1>1, <1>2 DEF PoolType, Elsewhere
<1>4. ~Has(b, n) /\ \A m \in Name \ {n} : Has(b, m) <=> Has(a, m)
  BY <1>3 DEF Has, Elsewhere
<1>5. Proper(b)
  BY <1>2, <1>3, <1>4 DEF Proper, Elsewhere, Name
<1> QED BY <1>3, <1>4, <1>5 DEF b

\* A disk under another name.
LEMMA RenamedIs ==
    ASSUME NEW a, Proper(a), NEW v \in Vol, NEW w \in Vol, Has(a, v), ~Has(a, w)
    PROVE  LET b == modify_lun(a, v, w).a IN
           /\ Proper(b) /\ ~Has(b, v) /\ Has(b, w) /\ b.zvol[w] = a.zvol[v]
           /\ \A m \in Name \ {v, w} : b.zvol[m] = a.zvol[m]
<1> DEFINE b == modify_lun(a, v, w).a
<1>1. a.zvol \in [Name -> Zvol \cup {None}] /\ a.made \in Nat /\ a = [zvol |-> a.zvol, made |-> a.made]
  BY DEF Proper, PoolType
<1>2. v \in Name /\ w \in Name /\ v # w
  BY DEF Name
<1>3. b = [a EXCEPT !.zvol[w] = a.zvol[v], !.zvol[v] = None]
  BY DEF modify_lun, Ret
<1>4. /\ b.zvol = [[a.zvol EXCEPT ![w] = a.zvol[v]] EXCEPT ![v] = None]
      /\ b.made = a.made /\ b = [zvol |-> b.zvol, made |-> b.made]
  BY <1>1, <1>3
<1> HIDE DEF b
<1>5. /\ b \in PoolType /\ b.zvol[v] = None /\ b.zvol[w] = a.zvol[v]
      /\ \A m \in Name \ {v, w} : b.zvol[m] = a.zvol[m]
  BY <1>1, <1>2, <1>4 DEF PoolType
<1>6. ~Has(b, v) /\ Has(b, w) /\ \A m \in Name \ {v, w} : Has(b, m) <=> Has(a, m)
  BY <1>5 DEF Has
<1>7. v \notin Mount /\ w \notin Mount
  BY SnapshotsAssumption
<1>8. Proper(b)
  <2>1. \A n \in Vol : Has(b, n) => b.zvol[n].id \in 1..b.made
    BY <1>2, <1>4, <1>5, <1>6 DEF Proper, Name
  <2>2. \A n, m \in Vol : Has(b, n) /\ Has(b, m) /\ b.zvol[n].id = b.zvol[m].id => n = m
    BY <1>2, <1>5, <1>6 DEF Proper, Name
  <2>3. \A m \in Mount : Has(b, m) => Published(b.zvol[m])
    BY <1>5, <1>6, <1>7 DEF Proper, Name
  <2>4. \A n \in Name : Has(b, n) => Distinct(b.zvol[n])
    BY <1>2, <1>5, <1>6 DEF Proper
  <2> QED BY <1>5, <2>1, <2>2, <2>3, <2>4 DEF Proper
<1> QED BY <1>5, <1>6, <1>8 DEF b

\* Newer snapshots are those further on.
LEMMA NewerIs ==
    ASSUME NEW a, Proper(a), NEW n \in Name, NEW s, HasSnap(a, n, s), NEW t
    PROVE  t \in Newer(a, n, s) <=> HasSnap(a, n, t) /\ Position(a, n, t) > Position(a, n, s)
<1> DEFINE k == Position(a, n, s)
<1>1. Has(a, n) /\ Len(a.zvol[n].snaps) \in Nat /\ k \in 1..Len(a.zvol[n].snaps)
  BY ZvolIs, PlaceIs DEF Proper, HasSnap
<1>2. ASSUME t \in Newer(a, n, s) PROVE HasSnap(a, n, t) /\ Position(a, n, t) > k
  <2>1. PICK i \in k + 1..Len(a.zvol[n].snaps) : t = a.zvol[n].snaps[i].name
    BY <1>2 DEF Newer
  <2>2. i \in 1..Len(a.zvol[n].snaps) /\ i > k
    BY <1>1
  <2>3. HasSnap(a, n, t) /\ Position(a, n, t) = i
    BY <1>1, <2>1, <2>2, OnePlace
  <2> QED BY <2>2, <2>3
<1>3. ASSUME HasSnap(a, n, t), Position(a, n, t) > k PROVE t \in Newer(a, n, s)
  <2>1. Position(a, n, t) \in 1..Len(a.zvol[n].snaps) /\ a.zvol[n].snaps[Position(a, n, t)].name = t
    BY <1>3, PlaceIs DEF Proper
  <2>2. Position(a, n, t) \in k + 1..Len(a.zvol[n].snaps)
    BY <1>1, <1>3, <2>1
  <2> QED BY <2>1, <2>2 DEF Newer
<1> QED BY <1>2, <1>3

-----------------------------------------------------------------------------
(* What a call does to the pool, as its caller sees it.                    *)

\* The arguments of the calls.
Fit(q) ==
    /\ q.at \in {"mkvol", "snap", "cSnap", "cAgain", "cClear", "cUndo", "cClone", "unmount",
                 "unsnap", "mClone", "rDo", "nDo"} => q.v \in Vol
    /\ q.at \in {"snap", "cFrom", "unmount", "unsnap", "mClone", "rDo"} => q.s \in Snap
    /\ q.at \in {"cSnap", "cAgain", "cClear", "cUndo", "cClone", "cFrom", "nDo"} => q.c \in Vol
    /\ q.at = "cFrom" => q.n \in Vol
    /\ q.at = "del" => q.n \in Name

\* Zvol n is still there, and is the same one.
Alike(a, b, n) ==
    /\ Has(b, n)
    /\ b.zvol[n].id = a.zvol[n].id /\ b.zvol[n].origin = a.zvol[n].origin

\* Zvol n goes by a deletion, or goes on under another name.
Removed(q, a, b, n) ==
    /\ ~Has(b, n)
    /\ \/ q.at = "del" /\ n = q.n /\ Dependents(a, n) = {}
       \/ q.at = "unmount" /\ n = <<q.v, q.s>>
       \/ q.at = "deps" /\ n \in Mount
       \/ q.at = "nDo" /\ n = q.v /\ ~Has(a, q.c) /\ b.zvol[q.c] = a.zvol[n]

\* Zvol n is made, or got its name from the one renamed.
Added(q, a, b, n) ==
    \/ /\ b.zvol[n].snaps = <<>>
       /\ \/ q.at = "mkvol" /\ n = q.v /\ b.zvol[n].origin = None
          \/ q.at = "cClone" /\ n = q.c /\ HasSnap(a, q.v, q.c)
             /\ b.zvol[n].origin = <<a.zvol[q.v].id, q.c>>
             /\ b.zvol[n].data = CopyOf(a, q.v, q.c).data
          \/ q.at = "cFrom" /\ n = q.c /\ HasSnap(a, q.n, q.s)
             /\ b.zvol[n].origin = <<a.zvol[q.n].id, q.s>>
          \/ q.at = "mClone" /\ n = <<q.v, q.s>> /\ HasSnap(a, q.v, q.s)
             /\ b.zvol[n].origin = <<a.zvol[q.v].id, q.s>>
    \/ /\ q.at = "nDo" /\ n = q.c /\ q.v \in Vol /\ Has(a, q.v) /\ ~Has(b, q.v)
       /\ b.zvol[n] = a.zvol[q.v]

\* The call creates, and deletes, snapshot s of zvol n.
Taken(q, n, s) ==
    /\ n = q.v
    /\ \/ q.at = "snap" /\ s = q.s
       \/ q.at \in {"cSnap", "cAgain"} /\ s = q.c

Dropped(q, a, n, s) ==
    /\ get_snapshot_clones(a, n, s) = {}
    /\ \/ q.at = "unsnap" /\ n = q.v /\ s = q.s
       \/ q.at \in {"cClear", "cUndo"} /\ n = q.v /\ s = q.c
       \/ q.at = "origin" /\ n \in Vol /\ a.zvol[n].id = q.org[1] /\ s = q.org[2]
       \/ q.at = "rDo" /\ n = q.v /\ HasSnap(a, n, q.s) /\ s \in Newer(a, n, q.s)

\* What zvol n and its snapshots contain stays, but for a rollback; a new
\* snapshot contains what the zvol did.
Contents(q, a, b, n) ==
    /\ (q.at = "rDo" => n # q.v) => b.zvol[n].data = a.zvol[n].data
    /\ \A s \in Vol \cup Snap : HasSnap(b, n, s) =>
          IF HasSnap(a, n, s) THEN CopyOf(b, n, s) = CopyOf(a, n, s)
          ELSE CopyOf(b, n, s).data = a.zvol[n].data

Moves(q, a, b) ==
    /\ Proper(b)
    /\ \A n \in Name : Has(a, n) => Alike(a, b, n) \/ Removed(q, a, b, n)
    /\ \A n \in Name : Has(b, n) /\ ~Has(a, n) => Added(q, a, b, n)
    /\ \A n \in Name, s \in Vol \cup Snap :
          HasSnap(b, n, s) /\ Has(a, n) => HasSnap(a, n, s) \/ Taken(q, n, s)
    /\ \A n \in Name, s \in Vol \cup Snap :
          HasSnap(a, n, s) /\ Has(b, n) => HasSnap(b, n, s) \/ Dropped(q, a, n, s)
    /\ \A n \in Name : Has(a, n) /\ Has(b, n) => Contents(q, a, b, n)

LEMMA MovesNot == ASSUME NEW q, NEW a, Proper(a) PROVE Moves(q, a, a)
BY DEF Moves, Alike, HasSnap, Contents

\* What a change of one zvol leaves alone.
LEMMA OthersAlike ==
    ASSUME NEW q, NEW a, NEW b, NEW n \in Name, Elsewhere(a, b, n), NEW m \in Name \ {n}
    PROVE  /\ Has(b, m) <=> Has(a, m)
           /\ Has(a, m) => Alike(a, b, m)
           /\ SnapNames(b, m) = SnapNames(a, m)
           /\ \A s : HasSnap(b, m, s) <=> HasSnap(a, m, s)
           /\ Contents(q, a, b, m)
<1>1. b.zvol[m] = a.zvol[m]
  BY DEF Elsewhere
<1>2. (Has(b, m) <=> Has(a, m)) /\ SnapNames(b, m) = SnapNames(a, m)
  BY <1>1 DEF Has, SnapNames
<1>3. \A s : CopyOf(b, m, s) = CopyOf(a, m, s)
  BY <1>1 DEF CopyOf, Position
<1> QED BY <1>1, <1>2, <1>3 DEF Alike, HasSnap, Contents

\* The three ways to change one zvol.
LEMMA NewMoves ==
    ASSUME NEW q, NEW a, Proper(a), NEW b, Proper(b), NEW n \in Name, Elsewhere(a, b, n),
           ~Has(a, n), Has(b, n), Added(q, a, b, n)
    PROVE  Moves(q, a, b)
<1>1. \A m \in Name \ {n} : (Has(b, m) <=> Has(a, m)) /\ (Has(a, m) => Alike(a, b, m))
  BY OthersAlike
<1>2. \A m \in Name \ {n} : Contents(q, a, b, m) /\ \A s : HasSnap(b, m, s) <=> HasSnap(a, m, s)
  BY OthersAlike
<1> QED BY <1>1, <1>2 DEF Moves, HasSnap

LEMMA GoneMoves ==
    ASSUME NEW q, NEW a, Proper(a), NEW b, Proper(b), NEW n \in Name, Elsewhere(a, b, n),
           Has(a, n), ~Has(b, n), Removed(q, a, b, n)
    PROVE  Moves(q, a, b)
<1>1. \A m \in Name \ {n} : (Has(b, m) <=> Has(a, m)) /\ (Has(a, m) => Alike(a, b, m))
  BY OthersAlike
<1>2. \A m \in Name \ {n} : Contents(q, a, b, m) /\ \A s : HasSnap(b, m, s) <=> HasSnap(a, m, s)
  BY OthersAlike
<1> QED BY <1>1, <1>2 DEF Moves, HasSnap

LEMMA SameMoves ==
    ASSUME NEW q, NEW a, Proper(a), NEW b, Proper(b), NEW n \in Name, Elsewhere(a, b, n),
           Has(a, n), Alike(a, b, n), Contents(q, a, b, n),
           \A s \in SnapNames(b, n) \ SnapNames(a, n) : Taken(q, n, s),
           \A s \in SnapNames(a, n) \ SnapNames(b, n) : Dropped(q, a, n, s)
    PROVE  Moves(q, a, b)
<1>1. \A m \in Name \ {n} : (Has(b, m) <=> Has(a, m)) /\ (Has(a, m) => Alike(a, b, m))
  BY OthersAlike
<1>2. \A m \in Name \ {n} : Contents(q, a, b, m) /\ \A s : HasSnap(b, m, s) <=> HasSnap(a, m, s)
  BY OthersAlike
<1>3. Has(b, n)
  BY DEF Alike
<1> QED BY <1>1, <1>2, <1>3 DEF Moves, HasSnap

\* The calls.
LEMMA CreateMoves ==
    ASSUME NEW q, NEW a, Proper(a), NEW v \in Vol, q.at = "mkvol", q.v = v
    PROVE  Moves(q, a, create_lun(a, v).a)
<1> DEFINE b == create_lun(a, v).a
<1>1. CASE Has(a, v)
  BY <1>1, MovesNot DEF create_lun, Ret
<1>2. CASE ~Has(a, v)
  <2>1. b = Made(a, v, None, 0) /\ v \in Name /\ v \notin Mount
    BY <1>2, SnapshotsAssumption DEF create_lun, Ret, Name
  <2>2. /\ Proper(b) /\ Has(b, v) /\ Elsewhere(a, b, v)
        /\ b.zvol[v].origin = None /\ b.zvol[v].snaps = <<>>
    BY <1>2, <2>1, MadeIs
  <2>3. Added(q, a, b, v)
    BY <2>2 DEF Added
  <2> QED BY <1>2, <2>1, <2>2, <2>3, NewMoves
<1> QED BY <1>1, <1>2

LEMMA SnapMoves ==
    ASSUME NEW q, NEW a, Proper(a), NEW v \in Vol, NEW s \in Vol \cup Snap, Taken(q, v, s)
    PROVE  Moves(q, a, create_snapshot(a, v, s).a)
<1> DEFINE b == create_snapshot(a, v, s).a
<1>1. CASE ~Has(a, v) \/ s \in SnapNames(a, v)
  BY <1>1, MovesNot DEF create_snapshot, Ret
<1>2. CASE Has(a, v) /\ s \notin SnapNames(a, v)
  <2>1. /\ Proper(b) /\ Has(b, v) /\ Elsewhere(a, b, v)
        /\ b.zvol[v].id = a.zvol[v].id /\ b.zvol[v].origin = a.zvol[v].origin
        /\ b.zvol[v].data = a.zvol[v].data /\ SnapNames(b, v) = SnapNames(a, v) \cup {s}
        /\ \A t : HasSnap(a, v, t) => CopyOf(b, v, t) = CopyOf(a, v, t)
        /\ CopyOf(b, v, s).data = a.zvol[v].data
    <3>1. b = Snapped(a, v, s)
      BY <1>2, SnappedIs DEF Ret
    <3> HIDE DEF b
    <3> QED BY <1>2, <3>1, SnappedIs DEF Copied
  <2>2. v \in Name /\ Alike(a, b, v) /\ Contents(q, a, b, v)
    <3>1. v \in Name /\ Alike(a, b, v)
      BY <2>1 DEF Name, Alike
    <3>2. \A t : HasSnap(b, v, t) => HasSnap(a, v, t) \/ t = s
      BY <1>2, <2>1 DEF HasSnap
    <3> HIDE DEF b
    <3>3. Contents(q, a, b, v)
      BY <2>1, <3>2 DEF Contents
    <3> QED BY <3>1, <3>3 DEF b
  <2> HIDE DEF b
  <2>9. Moves(q, a, b)
    BY <1>2, <2>1, <2>2, SameMoves
  <2> QED BY <2>9 DEF b
<1> QED BY <1>1, <1>2

LEMMA UnsnapMoves ==
    ASSUME NEW q, NEW a, Proper(a), NEW v \in Vol, NEW s,
           get_snapshot_clones(a, v, s) = {} => Dropped(q, a, v, s)
    PROVE  Moves(q, a, delete_snapshot(a, v, s).a)
<1> DEFINE b == delete_snapshot(a, v, s).a
<1>1. CASE ~HasSnap(a, v, s) \/ get_snapshot_clones(a, v, s) # {}
  BY <1>1, MovesNot DEF delete_snapshot, Ret
<1>2. CASE HasSnap(a, v, s) /\ get_snapshot_clones(a, v, s) = {}
  <2>1. v \in Name
    BY DEF Name
  <2>2. /\ Proper(b) /\ Has(b, v) /\ Elsewhere(a, b, v)
        /\ b.zvol[v].id = a.zvol[v].id /\ b.zvol[v].origin = a.zvol[v].origin
        /\ b.zvol[v].data = a.zvol[v].data /\ SnapNames(b, v) = SnapNames(a, v) \ {s}
        /\ \A t : HasSnap(b, v, t) => CopyOf(b, v, t) = CopyOf(a, v, t)
    <3>1. b = Unsnapped(a, v, s)
      BY <1>2, <2>1, UnsnappedIs DEF Ret
    <3> HIDE DEF b
    <3> QED BY <1>2, <2>1, <3>1, UnsnappedIs
  <2>3. Has(a, v) /\ Alike(a, b, v) /\ Contents(q, a, b, v)
    BY <1>2, <2>2 DEF Alike, HasSnap, Contents
  <2> HIDE DEF b
  <2>9. Moves(q, a, b)
    BY <1>2, <2>1, <2>2, <2>3, SameMoves
  <2> QED BY <2>9 DEF b
<1> QED BY <1>1, <1>2

LEMMA CloneMoves ==
    ASSUME NEW q, NEW a, Proper(a), NEW c \in Name, NEW n \in Vol, NEW s \in Vol \cup Snap,
           c \in Mount => s \in Snap,
           \/ q.at = "cClone" /\ c = q.c /\ n = q.v /\ s = q.c
           \/ q.at = "cFrom" /\ c = q.c /\ n = q.n /\ s = q.s
           \/ q.at = "mClone" /\ c = <<q.v, q.s>> /\ n = q.v /\ s = q.s
    PROVE  Moves(q, a, create_volume_from_snapshot(a, c, n, s).a)
<1> DEFINE b == create_volume_from_snapshot(a, c, n, s).a
<1>1. CASE Has(a, c) \/ ~HasSnap(a, n, s)
  BY <1>1, MovesNot DEF create_volume_from_snapshot, Ret
<1>2. CASE ~Has(a, c) /\ HasSnap(a, n, s)
  <2> DEFINE o == <<a.zvol[n].id, s>>
             e == CopyOf(a, n, s)
             d == e.data
  <2>1. b = Made(a, c, o, d)
    BY <1>2 DEF create_volume_from_snapshot, Ret, CopyOf
  <2>2. n \in Name /\ a \in PoolType /\ Has(a, n)
    BY <1>2 DEF Name, Proper, HasSnap
  <2>3. a.zvol[n].id \in Nat
    BY <2>2, ZvolIs
  <2>4. e \in Copy
    <3>1. Position(a, n, s) \in 1..Len(a.zvol[n].snaps)
      BY <1>2, <2>2, PlaceIs
    <3> QED BY <2>2, <3>1, ZvolIs DEF CopyOf
  <2>5. d \in Nat
    BY <2>4 DEF Copy
  <2>6. o \in Origin \cup {None} /\ (c \in Mount => o \in Nat \X Snap)
    BY <2>3 DEF Origin
  <2> HIDE DEF d, e, o, b
  <2>7. /\ Proper(b) /\ Has(b, c) /\ Elsewhere(a, b, c)
        /\ b.zvol[c].origin = o /\ b.zvol[c].snaps = <<>> /\ b.zvol[c].data = d
    BY <1>2, <2>1, <2>5, <2>6, MadeIs
  <2>8. Added(q, a, b, c)
    BY <1>2, <2>7 DEF Added, o, d, e
  <2>9. Moves(q, a, b)
    BY <1>2, <2>7, <2>8, NewMoves
  <2> QED BY <2>9 DEF b
<1> QED BY <1>1, <1>2

LEMMA DeleteMoves ==
    ASSUME NEW q, NEW a, Proper(a), NEW n \in Name, NEW recursively,
           \/ q.at = "del" /\ n = q.n
           \/ q.at = "unmount" /\ n = <<q.v, q.s>>
           \/ q.at = "deps" /\ n \in Mount
    PROVE  Moves(q, a, delete_lun(a, n, recursively).a)
<1> DEFINE b == delete_lun(a, n, recursively).a
<1>1. CASE b = a
  BY <1>1, MovesNot
<1>2. CASE b # a
  <2>1. Has(a, n) /\ Dependents(a, n) = {} /\ b = Gone(a, n)
    BY <1>2 DEF delete_lun, Ret
  <2> HIDE DEF b
  <2>2. Proper(b) /\ ~Has(b, n) /\ Elsewhere(a, b, n)
    BY <2>1, GoneIs
  <2>3. Removed(q, a, b, n)
    BY <2>1, <2>2 DEF Removed
  <2>9. Moves(q, a, b)
    BY <2>1, <2>2, <2>3, GoneMoves
  <2> QED BY <2>9 DEF b
<1> QED BY <1>1, <1>2

LEMMA RollbackMoves ==
    ASSUME NEW q, NEW a, Proper(a), NEW v \in Vol, NEW s, q.at = "rDo", q.v = v, q.s = s
    PROVE  Moves(q, a, snapshot_rollback(a, v, s).a)
<1> DEFINE b == snapshot_rollback(a, v, s).a
<1>1. CASE ~HasSnap(a, v, s) \/ Blockers(a, v, s) # {}
  BY <1>1, MovesNot DEF snapshot_rollback, Ret
<1>2. CASE HasSnap(a, v, s) /\ Blockers(a, v, s) = {}
  <2>1. v \in Name /\ Has(a, v)
    BY <1>2 DEF Name, HasSnap
  <2>2. /\ Proper(b) /\ Has(b, v) /\ Elsewhere(a, b, v)
        /\ b.zvol[v].id = a.zvol[v].id /\ b.zvol[v].origin = a.zvol[v].origin
        /\ SnapNames(b, v) = SnapNames(a, v) \ Newer(a, v, s)
        /\ \A t : HasSnap(b, v, t) => CopyOf(b, v, t) = CopyOf(a, v, t)
    <3>1. b = RolledBack(a, v, s)
      BY <1>2, <2>1, RolledBackIs DEF Ret
    <3> HIDE DEF b
    <3> QED BY <1>2, <2>1, <3>1, RolledBackIs
  <2>3. Alike(a, b, v) /\ Contents(q, a, b, v)
    BY <2>1, <2>2 DEF Alike, Contents, HasSnap
  <2>4. \A t \in Newer(a, v, s) : Dropped(q, a, v, t)
    BY <1>2 DEF Blockers, Dropped
  <2> HIDE DEF b
  <2>9. Moves(q, a, b)
    BY <2>1, <2>2, <2>3, <2>4, SameMoves
  <2> QED BY <2>9 DEF b
<1> QED BY <1>1, <1>2

LEMMA RenameMoves ==
    ASSUME NEW q, NEW a, Proper(a), NEW v \in Vol, NEW w \in Vol, q.at = "nDo", q.v = v, q.c = w
    PROVE  Moves(q, a, modify_lun(a, v, w).a)
<1> DEFINE b == modify_lun(a, v, w).a
<1>1. CASE ~Has(a, v) \/ Has(a, w)
  BY <1>1, MovesNot DEF modify_lun, Ret
<1>2. CASE Has(a, v) /\ ~Has(a, w)
  <2>1. /\ Proper(b) /\ ~Has(b, v) /\ Has(b, w) /\ b.zvol[w] = a.zvol[v]
        /\ \A m \in Name \ {v, w} : b.zvol[m] = a.zvol[m]
    BY <1>2, RenamedIs
  <2> HIDE DEF b
  <2>2. \A m \in Name \ {v, w} : /\ Has(b, m) <=> Has(a, m)
                                 /\ SnapNames(b, m) = SnapNames(a, m)
    BY <2>1 DEF Has, SnapNames
  <2>3. Removed(q, a, b, v) /\ Added(q, a, b, w)
    BY <1>2, <2>1 DEF Removed, Added
  <2>4. v \in Name /\ w \in Name /\ v # w
    BY <1>2 DEF Name
  <2>5. \A n \in Name : Has(a, n) => Alike(a, b, n) \/ Removed(q, a, b, n)
    BY <1>2, <2>1, <2>2, <2>3 DEF Alike
  <2>6. \A n \in Name : Has(b, n) /\ ~Has(a, n) => Added(q, a, b, n)
    BY <1>2, <2>1, <2>2, <2>3
  <2>7. \A n \in Name, s \in Vol \cup Snap :
            HasSnap(b, n, s) /\ Has(a, n) => HasSnap(a, n, s)
    BY <1>2, <2>1, <2>2 DEF HasSnap
  <2>8. \A n \in Name, s \in Vol \cup Snap :
            HasSnap(a, n, s) /\ Has(b, n) => HasSnap(b, n, s)
    BY <1>2, <2>1, <2>2 DEF HasSnap
  <2>10. \A n \in Name : Has(a, n) /\ Has(b, n) => Contents(q, a, b, n)
    <3>1. SUFFICES ASSUME NEW n \in Name, Has(a, n), Has(b, n) PROVE Contents(q, a, b, n)
      OBVIOUS
    <3>2. b.zvol[n] = a.zvol[n]
      BY <1>2, <2>1, <3>1
    <3>3. SnapNames(b, n) = SnapNames(a, n) /\ \A s : CopyOf(b, n, s) = CopyOf(a, n, s)
      BY <3>2 DEF SnapNames, CopyOf, Position
    <3> QED BY <3>1, <3>2, <3>3 DEF Contents, HasSnap
  <2>9. Moves(q, a, b)
    BY <2>1, <2>5, <2>6, <2>7, <2>8, <2>10 DEF Moves
  <2> QED BY <2>9 DEF b
<1> QED BY <1>1, <1>2

\* The disk with an id.
LEMMA NameIs ==
    ASSUME NEW a, Proper(a), NEW id, Lives(a, id)
    PROVE  /\ NameOf(a, id) \in Vol /\ Has(a, NameOf(a, id)) /\ a.zvol[NameOf(a, id)].id = id
           /\ \A n \in Vol : Has(a, n) /\ a.zvol[n].id = id => n = NameOf(a, id)
<1>1. NameOf(a, id) \in Vol /\ Has(a, NameOf(a, id)) /\ a.zvol[NameOf(a, id)].id = id
  BY DEF Lives, NameOf
<1> QED BY <1>1 DEF Proper

\* What holds of the pool after call q was answered with r.
Outcome(q, b, r) ==
    /\ q.at = "mkvol" => Has(b, q.v)
    /\ q.at = "snap" => (r \in {"ok", "exists"} => HasSnap(b, q.v, q.s))
    /\ q.at \in {"cSnap", "cAgain"} =>
          /\ r \in {"ok", "exists"} => HasSnap(b, q.v, q.c)
          /\ r = "notfound" => ~Has(b, q.v)
          /\ r \in {"ok", "exists", "notfound"}
    /\ q.at \in {"cClear", "cUndo"} =>
          /\ r \in {"ok", "notfound"} => ~HasSnap(b, q.v, q.c)
          /\ r = "busy" => get_snapshot_clones(b, q.v, q.c) # {}
          /\ r \in {"ok", "notfound", "busy"}
    /\ q.at = "cClone" =>
          (r = "ok" => /\ Has(b, q.c) /\ HasSnap(b, q.v, q.c)
                       /\ b.zvol[q.c].origin = <<b.zvol[q.v].id, q.c>>
                       /\ b.zvol[q.c].data = CopyOf(b, q.v, q.c).data)
    /\ q.at = "cFrom" =>
          (r = "ok" => /\ Has(b, q.c) /\ HasSnap(b, q.n, q.s)
                       /\ b.zvol[q.c].origin = <<b.zvol[q.n].id, q.s>>)
    /\ q.at = "mClone" =>
          /\ r \in {"ok", "exists"} => Has(b, <<q.v, q.s>>)
          /\ r = "ok" => /\ HasSnap(b, q.v, q.s)
                         /\ b.zvol[<<q.v, q.s>>].origin = <<b.zvol[q.v].id, q.s>>
    /\ q.at = "unmount" => (r = "ok" => ~Has(b, <<q.v, q.s>>))
    /\ q.at = "unsnap" => (r \in {"ok", "notfound"} => ~HasSnap(b, q.v, q.s))
    /\ q.at = "del" =>
          /\ r = "ok" => ~Has(b, q.n)
          /\ r = "busy" => Dependents(b, q.n) # {}
          /\ r \in {"ok", "busy"}
    /\ q.at = "origin" =>
          /\ r \in {"ok", "notfound"} =>
                \A n \in Vol : Has(b, n) /\ b.zvol[n].id = q.org[1] => ~HasSnap(b, n, q.org[2])
          /\ r = "busy" =>
                \A n \in Vol : Has(b, n) /\ b.zvol[n].id = q.org[1] =>
                                   get_snapshot_clones(b, n, q.org[2]) # {}
          /\ r \in {"ok", "notfound", "busy"}
    /\ q.at = "rDo" =>
          (r = "ok" => HasSnap(b, q.v, q.s) /\ b.zvol[q.v].data = CopyOf(b, q.v, q.s).data)
    /\ q.at = "nDo" => (r = "ok" => ~Has(b, q.v) /\ Has(b, q.c))

Results == {"ok", "exists", "notfound", "busy", "error", "cfg"}

\* Each operation: the answer says what the pool is like, and when it is sent
\* again, nothing more happens.
LEMMA CreateTwice ==
    ASSUME NEW a, Proper(a), NEW v \in Vol, NEW o, o = create_lun(a, v)
    PROVE  /\ Has(o.a, v) /\ o.r \in Results
           /\ create_lun(o.a, v).a = o.a
<1>1. CASE Has(a, v)
  BY <1>1 DEF create_lun, Ret, Results
<1>2. CASE ~Has(a, v)
  <2>1. o.a = Made(a, v, None, 0) /\ o.r = "ok" /\ v \in Name /\ v \notin Mount
    BY <1>2, SnapshotsAssumption DEF create_lun, Ret, Name
  <2>2. Has(o.a, v)
    BY <1>2, <2>1, MadeIs
  <2> QED BY <2>1, <2>2 DEF create_lun, Ret, Results
<1> QED BY <1>1, <1>2

LEMMA SnapTwice ==
    ASSUME NEW a, Proper(a), NEW v \in Vol, NEW s \in Vol \cup Snap,
           NEW o, o = create_snapshot(a, v, s)
    PROVE  /\ o.r \in {"ok", "exists"} => HasSnap(o.a, v, s)
           /\ o.r = "notfound" => ~Has(o.a, v)
           /\ o.r \in {"ok", "exists", "notfound"} /\ o.r \in Results
           /\ create_snapshot(o.a, v, s).a = o.a
<1>1. CASE ~Has(a, v)
  BY <1>1 DEF create_snapshot, Ret, Results
<1>2. CASE Has(a, v) /\ s \in SnapNames(a, v)
  BY <1>2 DEF create_snapshot, Ret, Results, HasSnap
<1>3. CASE Has(a, v) /\ s \notin SnapNames(a, v)
  <2>1. o = Ret(Snapped(a, v, s), "ok")
    BY <1>3, SnappedIs
  <2>2. o.a = Snapped(a, v, s) /\ o.r = "ok"
    BY <2>1 DEF Ret
  <2>3. HasSnap(o.a, v, s)
    BY <1>3, <2>2, SnappedIs
  <2> QED BY <2>2, <2>3 DEF create_snapshot, Ret, Results, HasSnap
<1> QED BY <1>1, <1>2, <1>3

LEMMA UnsnapTwice ==
    ASSUME NEW a, Proper(a), NEW v \in Vol, NEW s, NEW o, o = delete_snapshot(a, v, s)
    PROVE  /\ o.r \in {"ok", "notfound"} => ~HasSnap(o.a, v, s)
           /\ o.r = "busy" => get_snapshot_clones(o.a, v, s) # {}
           /\ o.r \in {"ok", "notfound", "busy"} /\ o.r \in Results
           /\ delete_snapshot(o.a, v, s).a = o.a
<1>1. CASE ~HasSnap(a, v, s) \/ get_snapshot_clones(a, v, s) # {}
  BY <1>1 DEF delete_snapshot, Ret, Results
<1>2. CASE HasSnap(a, v, s) /\ get_snapshot_clones(a, v, s) = {}
  <2>1. v \in Name
    BY DEF Name
  <2>2. o = Ret(Unsnapped(a, v, s), "ok")
    BY <1>2, <2>1, UnsnappedIs
  <2>3. o.a = Unsnapped(a, v, s) /\ o.r = "ok"
    BY <2>2 DEF Ret
  <2>4. SnapNames(o.a, v) = SnapNames(a, v) \ {s}
    BY <1>2, <2>1, <2>3, UnsnappedIs
  <2>5. ~HasSnap(o.a, v, s)
    BY <2>4 DEF HasSnap
  <2> QED BY <2>3, <2>5 DEF delete_snapshot, Ret, Results
<1> QED BY <1>1, <1>2

LEMMA CloneTwice ==
    ASSUME NEW a, Proper(a), NEW c \in Name, NEW n \in Vol, NEW s \in Vol \cup Snap,
           c \in Mount => s \in Snap, NEW o, o = create_volume_from_snapshot(a, c, n, s)
    PROVE  /\ o.r = "ok" => /\ Has(o.a, c) /\ HasSnap(o.a, n, s)
                            /\ o.a.zvol[c].origin = <<o.a.zvol[n].id, s>>
                            /\ o.a.zvol[c].data = CopyOf(o.a, n, s).data
           /\ o.r = "exists" => Has(o.a, c)
           /\ o.r \in Results
           /\ create_volume_from_snapshot(o.a, c, n, s).a = o.a
<1>1. CASE Has(a, c)
  BY <1>1 DEF create_volume_from_snapshot, Ret, Results
<1>2. CASE ~Has(a, c) /\ ~HasSnap(a, n, s)
  BY <1>2 DEF create_volume_from_snapshot, Ret, Results
<1>3. CASE ~Has(a, c) /\ HasSnap(a, n, s)
  <2> DEFINE i == <<a.zvol[n].id, s>>
             d == CopyOf(a, n, s).data
             b == o.a
  <2>1. b = Made(a, c, i, d) /\ o.r = "ok"
    BY <1>3 DEF create_volume_from_snapshot, Ret, CopyOf
  <2>2. n \in Name /\ a \in PoolType /\ Has(a, n)
    BY <1>3 DEF Name, Proper, HasSnap
  <2>3. a.zvol[n].id \in Nat
    BY <2>2, ZvolIs
  <2>4. CopyOf(a, n, s) \in Copy
    <3>1. Position(a, n, s) \in 1..Len(a.zvol[n].snaps)
      BY <1>3, <2>2, PlaceIs
    <3> QED BY <2>2, <3>1, ZvolIs DEF CopyOf
  <2>5. d \in Nat
    BY <2>4 DEF Copy
  <2>6. i \in Origin \cup {None} /\ (c \in Mount => i \in Nat \X Snap)
    BY <2>3 DEF Origin
  <2> HIDE DEF d, i, b
  <2>7. Has(b, c) /\ Elsewhere(a, b, c) /\ b.zvol[c].origin = i /\ b.zvol[c].data = d
    BY <1>3, <2>1, <2>5, <2>6, MadeIs
  <2>8. b.zvol[n] = a.zvol[n] /\ n # c
    BY <1>3, <2>2, <2>7 DEF Elsewhere
  <2>9. HasSnap(b, n, s) /\ CopyOf(b, n, s) = CopyOf(a, n, s)
    BY <1>3, <2>8 DEF HasSnap, SnapNames, Has, CopyOf, Position
  <2>10. create_volume_from_snapshot(b, c, n, s).a = b
    BY <2>7 DEF create_volume_from_snapshot, Ret
  <2> QED BY <2>1, <2>7, <2>8, <2>9, <2>10 DEF b, d, i, Results
<1> QED BY <1>1, <1>2, <1>3

\* The deletion of a disk, and of a published snapshot.
Destroyed(a, n) == delete_lun(a, n, TRUE)

Unpublished(a, n) == delete_lun(a, n, FALSE)

LEMMA DeleteTwice ==
    ASSUME NEW a, Proper(a), NEW n \in Name, NEW o, o = Destroyed(a, n)
    PROVE  /\ o.r = "ok" => ~Has(o.a, n)
           /\ o.r = "busy" => Dependents(o.a, n) # {}
           /\ o.r = "ok" \/ o.r = "busy"
           /\ o.r \in Results
           /\ Destroyed(o.a, n).a = o.a
<1>1. ~Has(Gone(a, n), n)
  BY GoneIs
<1>2. CASE ~Has(a, n)
  BY <1>2 DEF Destroyed, delete_lun, Ret, Results
<1>3. CASE Has(a, n) /\ Dependents(a, n) # {}
  BY <1>3 DEF Destroyed, delete_lun, Ret, Results
<1>4. CASE Has(a, n) /\ ~(Dependents(a, n) # {})
  BY <1>1, <1>4 DEF Destroyed, delete_lun, Ret, Results
<1> QED BY <1>2, <1>3, <1>4

LEMMA UnpublishTwice ==
    ASSUME NEW a, Proper(a), NEW n \in Name, NEW o, o = Unpublished(a, n)
    PROVE  /\ o.r = "ok" => ~Has(o.a, n)
           /\ o.r \in Results
           /\ Unpublished(o.a, n).a = o.a
<1>1. ~Has(Gone(a, n), n)
  BY GoneIs
<1>2. CASE ~Has(a, n)
  BY <1>2 DEF Unpublished, delete_lun, Ret, Results
<1>3. CASE Has(a, n) /\ (Dependents(a, n) # {} \/ SnapNames(a, n) # {})
  BY <1>3 DEF Unpublished, delete_lun, Ret, Results
<1>4. CASE Has(a, n) /\ ~((Dependents(a, n) # {} \/ SnapNames(a, n) # {}))
  BY <1>1, <1>4 DEF Unpublished, delete_lun, Ret, Results
<1> QED BY <1>2, <1>3, <1>4

LEMMA RollbackTwice ==
    ASSUME NEW a, Proper(a), NEW v \in Vol, NEW s, NEW o, o = snapshot_rollback(a, v, s)
    PROVE  /\ o.r = "ok" => HasSnap(o.a, v, s) /\ o.a.zvol[v].data = CopyOf(o.a, v, s).data
           /\ o.r = "ok" => Newer(o.a, v, s) = {}
           /\ o.r \in Results
           /\ snapshot_rollback(o.a, v, s).a = o.a
<1>1. CASE ~HasSnap(a, v, s) \/ Blockers(a, v, s) # {}
  BY <1>1 DEF snapshot_rollback, Ret, Results
<1>2. CASE HasSnap(a, v, s) /\ Blockers(a, v, s) = {}
  <2>1. v \in Name
    BY DEF Name
  <2>2. o = Ret(RolledBack(a, v, s), "ok")
    BY <1>2, <2>1, RolledBackIs
  <2>3. o.a = RolledBack(a, v, s) /\ o.r = "ok"
    BY <2>2 DEF Ret
  <2>4. /\ Proper(o.a) /\ HasSnap(o.a, v, s) /\ o.a.zvol[v].data = CopyOf(o.a, v, s).data
        /\ Newer(o.a, v, s) = {} /\ RolledBack(o.a, v, s) = o.a
    BY <1>2, <2>1, <2>3, RolledBackIs
  <2>5. Blockers(o.a, v, s) = {}
    BY <2>4 DEF Blockers
  <2>6. snapshot_rollback(o.a, v, s) = Ret(o.a, "ok")
    BY <2>1, <2>4, <2>5, RolledBackIs
  <2> QED BY <2>3, <2>4, <2>6 DEF Ret, Results
<1> QED BY <1>1, <1>2

LEMMA RenameTwice ==
    ASSUME NEW a, Proper(a), NEW v \in Vol, NEW w \in Vol, NEW o, o = modify_lun(a, v, w)
    PROVE  /\ o.r = "ok" => ~Has(o.a, v) /\ Has(o.a, w)
           /\ o.r \in Results
           /\ modify_lun(o.a, v, w).a = o.a
<1>1. CASE ~Has(a, v) \/ Has(a, w)
  BY <1>1 DEF modify_lun, Ret, Results
<1>2. CASE Has(a, v) /\ ~Has(a, w)
  <2>1. ~Has(o.a, v) /\ Has(o.a, w)
    BY <1>2, RenamedIs
  <2>2. o.r = "ok"
    BY <1>2 DEF modify_lun, Ret
  <2> QED BY <2>1, <2>2 DEF modify_lun, Ret, Results
<1> QED BY <1>1, <1>2

LEMMA CallIs ==
    ASSUME NEW q, NEW a, Proper(a), Fit(q), NEW o, o = Call(q, a)
    PROVE  /\ Moves(q, a, o.a) /\ Outcome(q, o.a, o.r) /\ o.r \in Results
           /\ Call(q, o.a).a = o.a
<1>1. CASE q.at = "mkvol"
  <2>1. \A x : Call(q, x) = create_lun(x, q.v)
    BY <1>1 DEF Call
  <2>2. q.v \in Vol
    BY <1>1 DEF Fit
  <2>3. Moves(q, a, o.a)
    BY <1>1, <2>1, <2>2, CreateMoves
  <2>4. /\ Has(o.a, q.v)
        /\ o.r \in Results
        /\ create_lun(o.a, q.v).a = o.a
    BY <2>1, <2>2, CreateTwice
  <2> QED BY <1>1, <2>1, <2>3, <2>4 DEF Outcome
<1>2. CASE q.at = "snap"
  <2>1. \A x : Call(q, x) = create_snapshot(x, q.v, q.s)
    BY <1>2 DEF Call
  <2>2. q.v \in Vol /\ q.s \in Vol \cup Snap
    BY <1>2 DEF Fit
  <2>3. Moves(q, a, o.a)
    BY <1>2, <2>1, <2>2, SnapMoves DEF Taken
  <2>4. /\ o.r \in {"ok", "exists"} => HasSnap(o.a, q.v, q.s)
        /\ o.r = "notfound" => ~Has(o.a, q.v)
        /\ o.r \in {"ok", "exists", "notfound"} /\ o.r \in Results
        /\ create_snapshot(o.a, q.v, q.s).a = o.a
    BY <2>1, <2>2, SnapTwice
  <2> QED BY <1>2, <2>1, <2>3, <2>4 DEF Outcome
<1>3. CASE q.at \in {"cSnap", "cAgain"}
  <2>1. \A x : Call(q, x) = create_snapshot(x, q.v, q.c)
    BY <1>3 DEF Call
  <2>2. q.v \in Vol /\ q.c \in Vol \cup Snap
    BY <1>3 DEF Fit
  <2>3. Moves(q, a, o.a)
    BY <1>3, <2>1, <2>2, SnapMoves DEF Taken
  <2>4. /\ o.r \in {"ok", "exists"} => HasSnap(o.a, q.v, q.c)
        /\ o.r = "notfound" => ~Has(o.a, q.v)
        /\ o.r \in {"ok", "exists", "notfound"} /\ o.r \in Results
        /\ create_snapshot(o.a, q.v, q.c).a = o.a
    BY <2>1, <2>2, SnapTwice
  <2> QED BY <1>3, <2>1, <2>3, <2>4 DEF Outcome
<1>4. CASE q.at \in {"cClear", "cUndo"}
  <2>1. \A x : Call(q, x) = delete_snapshot(x, q.v, q.c)
    BY <1>4 DEF Call
  <2>2. q.v \in Vol /\ q.c \in Vol
    BY <1>4 DEF Fit
  <2>3. Moves(q, a, o.a)
    BY <1>4, <2>1, <2>2, UnsnapMoves DEF Dropped
  <2>4. /\ o.r \in {"ok", "notfound"} => ~HasSnap(o.a, q.v, q.c)
        /\ o.r = "busy" => get_snapshot_clones(o.a, q.v, q.c) # {}
        /\ o.r \in {"ok", "notfound", "busy"} /\ o.r \in Results
        /\ delete_snapshot(o.a, q.v, q.c).a = o.a
    BY <2>1, <2>2, UnsnapTwice
  <2> QED BY <1>4, <2>1, <2>3, <2>4 DEF Outcome
<1>5. CASE q.at = "cClone"
  <2>1. \A x : Call(q, x) = create_volume_from_snapshot(x, q.c, q.v, q.c)
    BY <1>5 DEF Call
  <2>2. q.v \in Vol /\ q.c \in Vol \cup Snap /\ q.c \in Name /\ q.c \notin Mount
    BY <1>5, SnapshotsAssumption DEF Fit, Name, Mount
  <2>3. Moves(q, a, o.a)
    BY <1>5, <2>1, <2>2, CloneMoves
  <2>4. /\ o.r = "ok" => /\ Has(o.a, q.c) /\ HasSnap(o.a, q.v, q.c)
                         /\ o.a.zvol[q.c].origin = <<o.a.zvol[q.v].id, q.c>>
                         /\ o.a.zvol[q.c].data = CopyOf(o.a, q.v, q.c).data
        /\ o.r = "exists" => Has(o.a, q.c)
        /\ o.r \in Results
        /\ create_volume_from_snapshot(o.a, q.c, q.v, q.c).a = o.a
    BY <2>1, <2>2, CloneTwice
  <2> QED BY <1>5, <2>1, <2>3, <2>4 DEF Outcome
<1>6. CASE q.at = "cFrom"
  <2>1. \A x : Call(q, x) = create_volume_from_snapshot(x, q.c, q.n, q.s)
    BY <1>6 DEF Call
  <2>2. q.n \in Vol /\ q.s \in Snap /\ q.s \in Vol \cup Snap /\ q.c \in Name
    BY <1>6 DEF Fit, Name, Mount
  <2>3. Moves(q, a, o.a)
    BY <1>6, <2>1, <2>2, CloneMoves
  <2>4. /\ o.r = "ok" => /\ Has(o.a, q.c) /\ HasSnap(o.a, q.n, q.s)
                         /\ o.a.zvol[q.c].origin = <<o.a.zvol[q.n].id, q.s>>
                         /\ o.a.zvol[q.c].data = CopyOf(o.a, q.n, q.s).data
        /\ o.r = "exists" => Has(o.a, q.c)
        /\ o.r \in Results
        /\ create_volume_from_snapshot(o.a, q.c, q.n, q.s).a = o.a
    BY <2>1, <2>2, CloneTwice
  <2> QED BY <1>6, <2>1, <2>3, <2>4 DEF Outcome
<1>7. CASE q.at = "unmount"
  <2>1. \A x : Call(q, x) = Unpublished(x, <<q.v, q.s>>)
    BY <1>7 DEF Call, Unpublished
  <2>2. <<q.v, q.s>> \in Name
    BY <1>7 DEF Fit, Name, Mount
  <2>3. Moves(q, a, o.a)
    BY <1>7, <2>1, <2>2, DeleteMoves DEF Unpublished
  <2>4. /\ o.r = "ok" => ~Has(o.a, <<q.v, q.s>>)
        /\ o.r \in Results
        /\ Unpublished(o.a, <<q.v, q.s>>).a = o.a
    BY <2>1, <2>2, UnpublishTwice
  <2> QED BY <1>7, <2>1, <2>3, <2>4 DEF Outcome
<1>8. CASE q.at = "unsnap"
  <2>1. \A x : Call(q, x) = delete_snapshot(x, q.v, q.s)
    BY <1>8 DEF Call
  <2>2. q.v \in Vol /\ q.s \in Snap
    BY <1>8 DEF Fit
  <2>3. Moves(q, a, o.a)
    BY <1>8, <2>1, <2>2, UnsnapMoves DEF Dropped
  <2>4. /\ o.r \in {"ok", "notfound"} => ~HasSnap(o.a, q.v, q.s)
        /\ o.r \in Results
        /\ delete_snapshot(o.a, q.v, q.s).a = o.a
    BY <2>1, <2>2, UnsnapTwice
  <2> QED BY <1>8, <2>1, <2>3, <2>4 DEF Outcome
<1>9. CASE q.at = "mClone"
  <2>1. \A x : Call(q, x) = create_volume_from_snapshot(x, <<q.v, q.s>>, q.v, q.s)
    BY <1>9 DEF Call
  <2>2. q.v \in Vol /\ q.s \in Snap /\ q.s \in Vol \cup Snap /\ <<q.v, q.s>> \in Name
    BY <1>9 DEF Fit, Name, Mount
  <2>3. Moves(q, a, o.a)
    BY <1>9, <2>1, <2>2, CloneMoves
  <2>4. /\ o.r = "ok" => /\ Has(o.a, <<q.v, q.s>>) /\ HasSnap(o.a, q.v, q.s)
                         /\ o.a.zvol[<<q.v, q.s>>].origin = <<o.a.zvol[q.v].id, q.s>>
                         /\ o.a.zvol[<<q.v, q.s>>].data = CopyOf(o.a, q.v, q.s).data
        /\ o.r = "exists" => Has(o.a, <<q.v, q.s>>)
        /\ o.r \in Results
        /\ create_volume_from_snapshot(o.a, <<q.v, q.s>>, q.v, q.s).a = o.a
    BY <2>1, <2>2, CloneTwice
  <2> QED BY <1>9, <2>1, <2>3, <2>4 DEF Outcome
<1>10. CASE q.at = "del"
  <2>1. \A x : Call(q, x) = Destroyed(x, q.n)
    BY <1>10 DEF Call, Destroyed
  <2>2. q.n \in Name
    BY <1>10 DEF Fit, Name, Mount
  <2>3. Moves(q, a, o.a)
    BY <1>10, <2>1, <2>2, DeleteMoves DEF Destroyed
  <2>4. /\ o.r = "ok" => ~Has(o.a, q.n)
        /\ o.r = "busy" => Dependents(o.a, q.n) # {}
        /\ o.r = "ok" \/ o.r = "busy"
        /\ o.r \in Results
        /\ Destroyed(o.a, q.n).a = o.a
    BY <2>1, <2>2, DeleteTwice
  <2> QED BY <1>10, <2>1, <2>3, <2>4 DEF Outcome
<1>11. CASE q.at = "rDo"
  <2>1. \A x : Call(q, x) = snapshot_rollback(x, q.v, q.s)
    BY <1>11 DEF Call
  <2>2. q.v \in Vol /\ q.s \in Snap
    BY <1>11 DEF Fit
  <2>3. Moves(q, a, o.a)
    BY <1>11, <2>1, <2>2, RollbackMoves
  <2>4. /\ o.r = "ok" => HasSnap(o.a, q.v, q.s) /\ o.a.zvol[q.v].data = CopyOf(o.a, q.v, q.s).data
        /\ o.r \in Results
        /\ snapshot_rollback(o.a, q.v, q.s).a = o.a
    BY <2>1, <2>2, RollbackTwice
  <2> QED BY <1>11, <2>1, <2>3, <2>4 DEF Outcome
<1>12. CASE q.at = "nDo"
  <2>1. \A x : Call(q, x) = modify_lun(x, q.v, q.c)
    BY <1>12 DEF Call
  <2>2. q.v \in Vol /\ q.c \in Vol
    BY <1>12 DEF Fit
  <2>3. Moves(q, a, o.a)
    BY <1>12, <2>1, <2>2, RenameMoves
  <2>4. /\ o.r = "ok" => ~Has(o.a, q.v) /\ Has(o.a, q.c)
        /\ o.r \in Results
        /\ modify_lun(o.a, q.v, q.c).a = o.a
    BY <2>1, <2>2, RenameTwice
  <2> QED BY <1>12, <2>1, <2>3, <2>4 DEF Outcome
<1>13. CASE q.at = "origin" /\ Lives(a, q.org[1])
  <2> DEFINE n == NameOf(a, q.org[1])
             s == q.org[2]
  <2>1. /\ n \in Vol /\ n \in Name /\ Has(a, n) /\ a.zvol[n].id = q.org[1]
        /\ \A m \in Vol : Has(a, m) /\ a.zvol[m].id = q.org[1] => m = n
    BY <1>13, NameIs DEF Name
  <2>2. o = delete_snapshot(a, n, s)
    BY <1>13 DEF Call
  <2> HIDE DEF n
  <2>3. Moves(q, a, o.a)
    BY <1>13, <2>1, <2>2, UnsnapMoves DEF Dropped
  <2>4. /\ o.r \in {"ok", "notfound"} => ~HasSnap(o.a, n, s)
        /\ o.r = "busy" => get_snapshot_clones(o.a, n, s) # {}
        /\ o.r \in {"ok", "notfound", "busy"} /\ o.r \in Results
        /\ delete_snapshot(o.a, n, s).a = o.a
    BY <2>1, <2>2, UnsnapTwice
  <2>5. Proper(o.a) /\ Has(o.a, n) /\ o.a.zvol[n].id = q.org[1]
    BY <1>13, <2>1, <2>3 DEF Moves, Alike, Removed
  <2>6. Lives(o.a, q.org[1])
    BY <2>1, <2>5 DEF Lives
  <2>7. \A m \in Vol : Has(o.a, m) /\ o.a.zvol[m].id = q.org[1] => m = n
    BY <2>1, <2>5 DEF Proper
  <2>8. NameOf(o.a, q.org[1]) = n
    BY <2>5, <2>6, <2>7, NameIs
  <2>9. Call(q, o.a) = delete_snapshot(o.a, n, s)
    BY <1>13, <2>6, <2>8 DEF Call
  <2>10. Outcome(q, o.a, o.r)
    BY <1>13, <2>4, <2>7 DEF Outcome
  <2> QED BY <2>3, <2>4, <2>9, <2>10
<1>14. CASE q.at = "origin" /\ ~Lives(a, q.org[1])
  <2>1. o = Ret(a, "notfound")
    BY <1>14 DEF Call
  <2>2. Moves(q, a, a)
    BY MovesNot
  <2>3. \A n \in Vol : ~(Has(a, n) /\ a.zvol[n].id = q.org[1])
    BY <1>14 DEF Lives
  <2>4. o.a = a /\ o.r = "notfound"
    BY <2>1 DEF Ret
  <2>5. Outcome(q, a, "notfound")
    BY <1>14, <2>3 DEF Outcome
  <2> QED BY <2>1, <2>2, <2>4, <2>5 DEF Results
<1>15. CASE q.at \notin {"mkvol", "snap", "cSnap", "cAgain", "cClear", "cUndo", "cClone", "cFrom",
                         "unmount", "unsnap", "mClone", "del", "origin", "rDo", "nDo"}
  <2>1. o = Ret(a, "notfound")
    BY <1>15 DEF Call
  <2>2. Moves(q, a, a)
    BY MovesNot
  <2>3. o.a = a /\ o.r = "notfound"
    BY <2>1 DEF Ret
  <2>4. Outcome(q, a, "notfound")
    BY <1>15 DEF Outcome
  <2> QED BY <2>1, <2>2, <2>3, <2>4 DEF Results
<1> QED BY <1>1, <1>2, <1>3, <1>4, <1>5, <1>6, <1>7, <1>8, <1>9, <1>10, <1>11, <1>12, <1>13,
           <1>14, <1>15

\* How a call ends: as asked, or with an error, the pool as it was or as the
\* call leaves it.
LEMMA EndsAre ==
    ASSUME NEW q, Proper(pool), Fit(q), NEW o, o \in Ends(q)
    PROVE  /\ o.a \in {pool, Call(q, pool).a} /\ Moves(q, pool, o.a) /\ o.r \in Results
           /\ ~Wrong(o) => o.a = Call(q, pool).a /\ Outcome(q, o.a, o.r)
<1> DEFINE b == Call(q, pool).a
<1>1. Moves(q, pool, pool)
  BY MovesNot
<1>2. /\ Moves(q, pool, b) /\ Outcome(q, b, Call(q, pool).r) /\ Call(q, pool).r \in Results
      /\ Call(q, b).a = b
  BY CallIs
<1>3. Proper(b)
  BY <1>2 DEF Moves
<1>4. Outcome(q, b, Call(q, b).r) /\ Call(q, b).r \in Results
  <2> HIDE DEF b
  <2>1. Outcome(q, Call(q, b).a, Call(q, b).r) /\ Call(q, b).r \in Results
    BY <1>3, CallIs
  <2> QED BY <1>2, <2>1
<1>5. \/ o = Call(q, pool)
      \/ o = Call(q, b)
      \/ \E e \in {"error", "cfg"} : \E d \in {pool, b} : o = Ret(d, e)
  <2>1. o \in {Call(q, pool)} \cup (IF q.at \in Lossy THEN {Call(q, b)} ELSE {})
                \cup {Ret(d, e) : d \in {pool, b}, e \in Errors(q, q.at)}
    BY DEF Ends, Answers
  <2>2. Errors(q, q.at) \subseteq {"error", "cfg"}
    BY DEF Errors
  <2> HIDE DEF b
  <2> QED BY <2>1, <2>2
<1>6. CASE o = Call(q, pool)
  BY <1>2, <1>6
<1>7. CASE o = Call(q, b)
  <2> HIDE DEF b
  <2>1. o.a = b /\ o.r = Call(q, b).r
    BY <1>2, <1>7
  <2> QED BY <1>2, <1>4, <2>1 DEF b
<1>8. CASE \E e \in {"error", "cfg"} : \E d \in {pool, b} : o = Ret(d, e)
  <2> HIDE DEF b
  <2>1. o.a \in {pool, b} /\ o.r \in {"error", "cfg"}
    BY <1>8 DEF Ret
  <2>2. Wrong(o)
    BY <2>1 DEF Wrong
  <2>3. o.r \in Results
    BY <2>1 DEF Results
  <2> QED BY <1>1, <1>2, <2>1, <2>2, <2>3 DEF b
<1> QED BY <1>5, <1>6, <1>7, <1>8
================================================================================
