--------------------------- MODULE ActivationProofs ---------------------------
(***************************************************************************)
(* Proofs about Activation, for all nodes, volumes, storages, targets and  *)
(* snapshots, any number of cycles and any faults.                         *)
(***************************************************************************)
EXTENDS Activation, FiniteSetTheorems, TLAPS

-----------------------------------------------------------------------------
(* The operation in progress, and how the steps change it.                 *)

OpType == [at : Steps, node : Node \cup {None}, vol : Volume \cup {None},
           item : Volume \cup {None}, slot : Slot \cup {None},
           cycle : 1..Cycles, done : SUBSET {"published", "iscsi", "map"},
           todo : SUBSET (Volume \X Slot), own : BOOLEAN,
           then : {"end", "publish", "unpublish"},
           back : {"cycle", "unstack"},
           err : Classes \cup {"none"}, marked : BOOLEAN]

\* o is the same operation, with the same coordinates, perhaps at another step.
Keeps(o) ==
    /\ o \in OpType
    /\ o.node = op.node /\ o.vol = op.vol /\ o.item = op.item
    /\ o.slot = op.slot /\ o.then = op.then /\ o.back = op.back

\* The marker of a fatal error takes an attempt to its classification, and
\* everything else to the end.
Stops(o) == o.marked => o.at = "failed" \/ (o.at = "caught" /\ o.err = "fatal")

\* o continues the operation at one of the steps S.
Walks(o, S) == Keeps(o) /\ o.at \in S /\ (Stops(op) /\ ~op.marked => Stops(o))

LEMMA GoWalks ==
    ASSUME op \in OpType, NEW a \in Steps
    PROVE  Walks([op EXCEPT !.at = a], {a})
  BY DEF OpType, Walks, Keeps, Stops

LEMMA ErrorKeeps ==
    ASSUME op \in OpType, NEW a \in Steps, NEW c \in Classes
    PROVE  /\ Keeps(Error(c, a))
           /\ Error(c, a).at = a /\ Error(c, a).err = c
           /\ Error(c, a).marked = (op.marked \/ c = "fatal")
  BY DEF OpType, Keeps, Error

LEMMA ErrorWalks ==
    ASSUME op \in OpType, NEW a \in {"caught", "failed"}, NEW c \in Classes
    PROVE  Walks(Error(c, a), {a}) /\ Error(c, a).err = c
  BY ErrorKeeps DEF Walks, Stops, Steps, OpType

LEMMA AbsorbedWalks ==
    ASSUME op \in OpType, NEW a \in Steps, NEW c \in Classes
    PROVE  Walks(Absorbed(c, a), {a, "failed"})
  BY GoWalks, ErrorWalks DEF Walks, Absorbed

LEMMA ReachedWalks ==
    ASSUME op \in OpType, NEW a \in Steps, NEW s \in {"published", "iscsi", "map"}
    PROVE  Walks(Reached(s, a), {a})
  BY DEF OpType, Walks, Keeps, Stops, Reached

\* A done-flag is set before its step, so that it is there when the step dies.
LEMMA DiesWalks ==
    ASSUME op \in OpType, NEW c \in Classes, NEW s \in {"published", "iscsi", "map"}
    PROVE  Walks([Error(c, "caught") EXCEPT !.done = @ \cup {s}], {"caught"})
<1> DEFINE e == Error(c, "caught")
<1>1. Walks(e, {"caught"})
  BY ErrorWalks
<1>2. e \in OpType
  BY <1>1 DEF Walks, Keeps
<1> HIDE DEF e
<1>3. /\ [e EXCEPT !.done = @ \cup {s}] \in OpType
      /\ \A f \in {"node", "vol", "item", "slot", "then", "back", "at", "err", "marked"} :
            [e EXCEPT !.done = @ \cup {s}][f] = e[f]
  BY <1>2 DEF OpType
<1> QED
  BY <1>1, <1>3 DEF Walks, Keeps, Stops, e

LEMMA NoOpType == NoOp \in OpType /\ NoOp.at = "idle" /\ NoOp.marked = FALSE
  BY ActivationAssumption DEF NoOp, OpType, Steps, Classes

-----------------------------------------------------------------------------
(* Where each action of an attempt, a teardown or a deactivation leads.     *)

\* The actions that keep the coordinates of the operation.
LEMMA ActionWalks ==
    ASSUME op \in OpType
    PROVE  /\ Guard => Walks(op', {"stage", "caught"})
           /\ Stage => Walks(op', {"map", "record", "caught"})
           /\ Map => Walks(op', {"record", "caught"})
           /\ Classify /\ op.err # "fatal" => Walks(op', {"failed", "cycle", "tStage"})
           /\ TeardownStage => Walks(op', {"tMap", "failed"})
           /\ TeardownMap => Walks(op', {"tQuery", "failed"})
           /\ TeardownQuery => Walks(op', {"tDetach", "tRecord", "failed"})
           /\ TeardownDetach => Walks(op', {"tRecord", "failed"})
           /\ DropRecord => Walks(op', {"dropDir", op.back, "failed"})
           /\ DropLunDir => Walks(op', {"dropSession", op.back})
           /\ DropSession => Walks(op', {"dropTarget"})
           /\ DropTargetDir => Walks(op', {op.back})
           /\ UnstackDevice => Walks(op', {"xMap", "failed"})
           /\ UnstackMap => Walks(op', {"xDetach", "drop", "failed"})
           /\ UnpublishState => Walks(op', {"end", "failed"})
<1> USE DEF Raised, Walks
<1>1. \A a \in Steps : Go(a) => Walks(op', {a})
  BY GoWalks DEF Go
<1>2. op.back \in Steps
  BY DEF OpType, Steps
<1>3. ASSUME Guard PROVE Walks(op', {"stage", "caught"})
  BY <1>1, <1>3, ErrorWalks DEF Guard, Steps, Classes
<1>4. ASSUME Stage PROVE Walks(op', {"map", "record", "caught"})
  <2>1. CASE op' = Reached("iscsi", IF Multipath THEN "map" ELSE "record")
    BY <2>1, ReachedWalks DEF Steps
  <2>2. CASE \E c \in Classes : StageFails(c)
    BY <2>2, DiesWalks DEF StageFails
  <2> QED
    BY <1>4, <2>1, <2>2 DEF Stage, Classes
<1>5. ASSUME Map PROVE Walks(op', {"record", "caught"})
  <2>1. CASE op' = Reached("map", "record")
    BY <2>1, ReachedWalks DEF Steps
  <2>2. CASE \E c \in Raised("map") :
              op' = [Error(c, "caught") EXCEPT !.done = @ \cup {"map"}]
    BY <2>2, DiesWalks
  <2> QED
    BY <1>5, <2>1, <2>2 DEF Map
<1>6. ASSUME Classify, op.err # "fatal" PROVE Walks(op', {"failed", "cycle", "tStage"})
  BY <1>1, <1>6 DEF Classify, Steps
<1>7. ASSUME TeardownStage PROVE Walks(op', {"tMap", "failed"})
  BY <1>1, <1>7, AbsorbedWalks DEF TeardownStage, Steps
<1>8. ASSUME TeardownMap PROVE Walks(op', {"tQuery", "failed"})
  BY <1>1, <1>8, AbsorbedWalks DEF TeardownMap, Steps
<1>9. ASSUME TeardownQuery PROVE Walks(op', {"tDetach", "tRecord", "failed"})
  <2>1. CASE Go("tDetach") \/ Go("tRecord")
    BY <1>1, <2>1 DEF Steps
  <2>2. CASE \E c \in Raised("query") : op' = Absorbed(c, "tRecord")
    BY <2>2, AbsorbedWalks DEF Steps
  <2> QED
    BY <1>9, <2>1, <2>2 DEF TeardownQuery
<1>10. ASSUME TeardownDetach PROVE Walks(op', {"tRecord", "failed"})
  BY <1>1, <1>10, AbsorbedWalks DEF TeardownDetach, Steps
<1>11. ASSUME DropRecord PROVE Walks(op', {"dropDir", op.back, "failed"})
  <2>1. CASE Go("dropDir") \/ Go(op.back)
    BY <1>1, <1>2, <2>1 DEF Steps
  <2>2. CASE DropFails("drop")
    <3>1. CASE op.back = "cycle"
      BY <2>2, <3>1, AbsorbedWalks DEF DropFails, Steps
    <3>2. CASE op.back # "cycle"
      BY <2>2, <3>2, ErrorWalks DEF DropFails
    <3> QED
      BY <3>1, <3>2
  <2> QED
    BY <1>11, <2>1, <2>2 DEF DropRecord
<1>12. ASSUME DropLunDir PROVE Walks(op', {"dropSession", op.back})
  BY <1>1, <1>2, <1>12 DEF DropLunDir, Steps
<1>13. ASSUME DropSession PROVE Walks(op', {"dropTarget"})
  BY <1>1, <1>13 DEF DropSession, Steps
<1>14. ASSUME DropTargetDir PROVE Walks(op', {op.back})
  BY <1>1, <1>2, <1>14 DEF DropTargetDir, Steps
<1>15. ASSUME UnstackDevice PROVE Walks(op', {"xMap", "failed"})
  BY <1>1, <1>15, ErrorWalks DEF UnstackDevice, Steps
<1>16. ASSUME UnstackMap PROVE Walks(op', {"xDetach", "drop", "failed"})
  BY <1>1, <1>16, ErrorWalks DEF UnstackMap, Steps, Classes
<1>17. ASSUME UnpublishState PROVE Walks(op', {"end", "failed"})
  BY <1>1, <1>17, ErrorWalks DEF UnpublishState, Steps
<1> QED
  BY <1>3, <1>4, <1>5, <1>6, <1>7, <1>8, <1>9, <1>10, <1>11, <1>12, <1>13, <1>14,
     <1>15, <1>16, <1>17

\* The actions that begin an operation, or change what it works on.
LEMMA BeginGoes ==
    ASSUME TypeOK, NEW n \in Node, NEW v \in Volume, NEW a \in {"publish", "unstack"},
           NEW t \in {"end", "publish", "unpublish"}, Begin(n, v, a, t)
    PROVE  /\ op' \in OpType
           /\ op'.at = a /\ op'.node = n /\ op'.vol = v /\ op'.item = v
           /\ op'.slot = None /\ op'.then = t /\ op'.marked = FALSE
<1>1. SnapRecords(n, v) \subseteq Volume \X Slot
  BY DEF SnapRecords, TypeOK
<1> DEFINE todo == IF a = "unstack" THEN SnapRecords(n, v) ELSE {}
<1>2. todo \in SUBSET (Volume \X Slot)
  BY <1>1
<1>3. op' = [NoOp EXCEPT !.at = a, !.node = n, !.vol = v, !.item = v, !.then = t,
                         !.own = a = "unstack", !.todo = todo]
  BY DEF Begin
<1>4. a \in Steps /\ (a = "unstack") \in BOOLEAN
  BY DEF Steps
<1> HIDE DEF todo
<1>5. op' \in OpType
  BY <1>2, <1>3, <1>4, NoOpType DEF OpType
<1> QED
  BY <1>3, <1>5 DEF NoOp

LEMMA PublishGoes ==
    ASSUME TypeOK, op \in OpType, Publish
    PROVE  \/ Walks(op', {"caught"})
           \/ /\ op' \in OpType
              /\ op'.at = "guard" /\ op'.node = op.node /\ op'.vol = op.vol
              /\ op'.item = op.item /\ op'.slot \in Slot
              /\ op'.then = op.then /\ op'.back = op.back /\ op'.marked = op.marked
              /\ lun' = [lun EXCEPT ![op.item] = op'.slot]
<1>1. PICK s \in Offered(item) :
        \/ /\ lun' = [lun EXCEPT ![item] = s]
           /\ op' = [Reached("published", "guard") EXCEPT !.slot = s]
        \/ \E c \in Raised("publish") :
            op' = [Error(c, "caught") EXCEPT !.done = @ \cup {"published"}]
  BY DEF Publish
<1>2. s \in Slot
  BY <1>1 DEF Publish, Offered, TypeOK, item, Steps
<1>3. CASE \E c \in Raised("publish") :
            op' = [Error(c, "caught") EXCEPT !.done = @ \cup {"published"}]
  BY <1>3, DiesWalks DEF Raised
<1>4. CASE /\ lun' = [lun EXCEPT ![item] = s]
           /\ op' = [Reached("published", "guard") EXCEPT !.slot = s]
  BY <1>2, <1>4 DEF Reached, OpType, Steps, item
<1> QED
  BY <1>1, <1>3, <1>4

LEMMA RecordGoes ==
    ASSUME op \in OpType, Record
    PROVE  op' = NoOp \/ Walks(op', {"caught"})
  BY ErrorWalks DEF Record, Raised

LEMMA NextCycleGoes ==
    ASSUME op \in OpType, NextCycle
    PROVE  \/ Walks(op', {"failed"})
           \/ /\ op' \in OpType
              /\ op'.at = "publish" /\ op'.node = op.node /\ op'.vol = op.vol
              /\ op'.item = op.item /\ op'.slot = None /\ op'.then = op.then
              /\ op'.back = op.back /\ op'.marked = op.marked
<1>1. CASE Go("failed")
  BY <1>1, GoWalks DEF Go, Steps
<1>2. CASE /\ op.cycle < Cycles
           /\ op' = [op EXCEPT !.at = "publish", !.cycle = @ + 1, !.done = {},
                               !.slot = None, !.err = "none"]
  <2>1. op.cycle + 1 \in 1..Cycles
    BY <1>2, ActivationAssumption DEF OpType
  <2> QED
    BY <1>2, <2>1 DEF OpType, Steps
<1> QED
  BY <1>1, <1>2 DEF NextCycle

LEMMA TeardownRecordGoes ==
    ASSUME op \in OpType, TeardownRecord
    PROVE  \/ op.slot = None /\ Walks(op', {"cycle"})
           \/ /\ op.slot # None
              /\ op' \in OpType
              /\ op'.at = "drop" /\ op'.node = op.node /\ op'.vol = op.vol
              /\ op'.item = op.item /\ op'.slot = op.slot /\ op'.then = op.then
              /\ op'.back = "cycle" /\ op'.marked = op.marked
<1>1. CASE op.slot = None
  BY <1>1, GoWalks DEF TeardownRecord, Go, tgt, Steps
<1>2. CASE op.slot # None
  <2>1. op' = [op EXCEPT !.at = "drop", !.back = "cycle"]
    BY <1>2 DEF TeardownRecord, tgt
  <2> QED
    BY <1>2, <2>1 DEF OpType, Steps
<1> QED
  BY <1>1, <1>2

LEMMA UnstackGoes ==
    ASSUME TypeOK, op \in OpType, Unstack
    PROVE  /\ op' \in OpType
           /\ op'.node = op.node /\ op'.vol = op.vol /\ op'.then = op.then
           /\ op'.marked = op.marked
           /\ \/ /\ op'.at = "xStage" /\ op'.back = "unstack"
                 /\ op'.item \in Volume /\ op'.slot \in Slot
              \/ op'.at = op.then /\ op'.item = op.vol /\ op'.slot = None
<1>1. ASSUME NEW r \in Volume \X Slot, NEW t \in SUBSET (Volume \X Slot),
             op' = [ByRecord(r) EXCEPT !.todo = t]
      PROVE  /\ op' \in OpType
             /\ op'.node = op.node /\ op'.vol = op.vol /\ op'.then = op.then
             /\ op'.marked = op.marked
             /\ op'.at = "xStage" /\ op'.back = "unstack"
             /\ op'.item \in Volume /\ op'.slot \in Slot
  <2>1. PICK i \in Volume, d \in Slot : r[1] = i /\ r[2] = d
    OBVIOUS
  <2> DEFINE o == [op EXCEPT !.at = "xStage", !.item = i, !.slot = d, !.back = "unstack"]
  <2>2. op' = [o EXCEPT !.todo = t]
    BY <1>1, <2>1, Zenon DEF ByRecord
  <2>3. o \in OpType
    <3>1. "xStage" \in Steps
      BY DEF Steps
    <3>2. i \in Volume \cup {None} /\ d \in Slot \cup {None}
      OBVIOUS
    <3> QED
      BY <3>1, <3>2 DEF OpType
  <2>4. /\ o.node = op.node /\ o.vol = op.vol /\ o.then = op.then /\ o.marked = op.marked
        /\ o.at = "xStage" /\ o.back = "unstack" /\ o.item = i /\ o.slot = d
    BY DEF OpType
  <2> HIDE DEF o
  <2> QED
    BY <2>2, <2>3, <2>4 DEF OpType
<1>2. CASE \E r \in op.todo : op' = [ByRecord(r) EXCEPT !.todo = @ \ {r}]
  <2>1. PICK r \in op.todo : op' = [ByRecord(r) EXCEPT !.todo = @ \ {r}]
    BY <1>2
  <2>2. r \in Volume \X Slot /\ op.todo \ {r} \in SUBSET (Volume \X Slot)
    BY DEF OpType
  <2>3. op' = [ByRecord(r) EXCEPT !.todo = op.todo \ {r}]
    BY <2>1 DEF ByRecord, OpType
  <2> QED
    BY <1>1, <2>2, <2>3
<1>3. CASE \E r \in OwnRecord : op' = [ByRecord(r) EXCEPT !.own = FALSE]
  <2>1. PICK r \in OwnRecord : op' = [ByRecord(r) EXCEPT !.own = FALSE]
    BY <1>3
  <2>2. op.node \in Node
    BY DEF Unstack, TypeOK
  <2>3. r \in Volume \X Slot
    BY <2>1, <2>2 DEF OwnRecord, Records, TypeOK, here
  <2> QED
    BY <2>1, <2>3 DEF ByRecord, OpType, Steps
<1>4. CASE op' = Deactivated
  BY <1>4, ActivationAssumption DEF Deactivated, OpType, Steps
<1> QED
  BY <1>2, <1>3, <1>4 DEF Unstack

LEMMA UnstackDetachGoes ==
    ASSUME op \in OpType, UnstackDetach
    PROVE  Keeps(op') /\ op'.at = "drop"
<1>1. CASE op' = [op EXCEPT !.at = "drop"]
  BY <1>1, GoWalks DEF Walks, Steps
<1>2. CASE \E c \in Classes : op' = Error(c, "drop")
  BY <1>2, ErrorKeeps DEF Steps
<1> QED
  BY <1>1, <1>2 DEF UnstackDetach, Go, Raised

-----------------------------------------------------------------------------
(* Type correctness *)

StateType ==
    /\ lun \in [Volume -> Slot \cup {None}]
    /\ session \in [Node -> SUBSET Target]
    /\ seen \in [Node -> SUBSET (Volume \X Slot)]
    /\ maps \in [Node -> SUBSET Volume]
    /\ rec \in [Node -> SUBSET (Volume \X Slot)]
    /\ ldir \in [Node -> SUBSET (Store \X Slot)]
    /\ tdir \in [Node -> SUBSET (Store \X Target)]
    /\ sized \in [Node -> SUBSET (Volume \X Slot)]
    /\ active \in [Node -> SUBSET Volume]

\* An operation in progress has its coordinates.
Placed(o) ==
    /\ o.at # "idle" => o.node \in Node /\ o.vol \in Volume /\ o.item \in Volume
    /\ o.at \in {"guard", "stage", "map", "record", "xStage", "xMap", "xDetach",
                 "drop", "dropDir", "dropSession", "dropTarget"} => o.slot # None

LEMMA TypeParts == TypeOK <=> StateType /\ op \in OpType /\ Placed(op)
  BY DEF TypeOK, StateType, OpType, Placed

KernelType ==
    /\ session \in [Node -> SUBSET Target]
    /\ seen \in [Node -> SUBSET (Volume \X Slot)]

\* After a login or a rescan a device has been there, or is of a volume that is
\* attached at its slot; no slot that shows something loses it.
LEMMA LoginSeen ==
    ASSUME NEW n, NEW t, LoggedIn(n, t)
    PROVE  \E kept \in SUBSET seen[n], more \in SUBSET Presented(t) :
              seen' = [seen EXCEPT ![n] = kept \cup more]
<1>1. PICK stale \in SUBSET {d \in seen[n] : \E a \in Presented(t) : a[2] = d[2] /\ a # d} :
          LET kept == seen[n] \ stale
          IN  seen' = [seen EXCEPT ![n] =
                  kept \cup {a \in Presented(t) : \A d \in kept : d[2] # a[2]}]
  BY Zenon DEF LoggedIn
<1> DEFINE k == seen[n] \ stale
           m == {a \in Presented(t) : \A d \in k : d[2] # a[2]}
<1>2. k \in SUBSET seen[n] /\ m \in SUBSET Presented(t) /\ seen' = [seen EXCEPT ![n] = k \cup m]
  BY <1>1
<1> HIDE DEF k, m
<1> QED
  BY <1>2

LEMMA LoginType ==
    ASSUME StateType, NEW n \in Node, NEW t \in Target, LoggedIn(n, t)
    PROVE  KernelType'
<1>1. Presented(t) \subseteq Volume \X Slot
  BY DEF StateType, Presented
<1>2. session' = [session EXCEPT ![n] = @ \cup {t}]
  BY DEF LoggedIn
<1>3. PICK kept \in SUBSET seen[n], more \in SUBSET Presented(t) :
          seen' = [seen EXCEPT ![n] = kept \cup more]
  BY LoginSeen
<1>4. kept \cup more \in SUBSET (Volume \X Slot)
  BY <1>1, <1>3 DEF StateType
<1> QED
  BY <1>2, <1>3, <1>4 DEF StateType, KernelType

LEMMA LogoutType ==
    ASSUME StateType, op.node \in Node, op.slot \in Slot, ResidualLogout
    PROVE  KernelType'
  BY DEF StateType, KernelType, ResidualLogout, LoggedOut, here, tgt

\* What the array, the kernel and the files hold keeps its type.
LEMMA StateTypeStep == ASSUME TypeOK, [Next]_vars PROVE StateType'
<1> USE ActivationAssumption
<1> StateType /\ op \in OpType /\ Placed(op)
  BY TypeParts
<1>1. ASSUME NEW n \in Node, NEW v \in Volume, Activate(n, v) PROVE StateType'
  BY <1>1 DEF Activate, StateType, array, kernel, files
<1>2. ASSUME NEW n \in Node, NEW v \in Volume, Accept(n, v) PROVE StateType'
  <2>1. PICK r \in rec[n] :
          /\ \/ UNCHANGED <<session, seen>>
             \/ LoggedIn(n, TargetOf[r[2]])
          /\ UNCHANGED sized \/ sized' = [sized EXCEPT ![n] = @ \cup {r}]
    BY <1>2 DEF Accept
  <2>2. r \in Volume \X Slot
    BY <2>1 DEF StateType
  <2>3. KernelType'
    BY <2>1, <2>2, LoginType DEF KernelType, StateType
  <2>4. sized' \in [Node -> SUBSET (Volume \X Slot)]
    BY <2>1, <2>2 DEF StateType
  <2>5. UNCHANGED <<array, maps, rec, ldir, tdir>> /\ active' = [active EXCEPT ![n] = @ \cup {v}]
    BY <1>2 DEF Accept
  <2> QED
    BY <2>3, <2>4, <2>5 DEF KernelType, StateType, array
<1>3. ASSUME NEW n \in Node, NEW v \in Volume, Reactivate(n, v) PROVE StateType'
  BY <1>3 DEF Reactivate, StateType, array, kernel, files, NoLongerActive
<1>4. ASSUME NEW n \in Node, NEW v \in Volume, Deactivate(n, v) PROVE StateType'
  BY <1>4 DEF Deactivate, StateType, array, kernel, files, NoLongerActive
<1>5. CASE Classify \/ NextCycle \/ TeardownQuery \/ TeardownRecord \/ Unstack \/ Return \/ Crash
  BY <1>5 DEF Classify, NextCycle, TeardownQuery, TeardownRecord, Unstack, Return, Crash,
     StateType, array, kernel, files
<1>6. CASE Publish
  <2>1. \E s \in Offered(item) : lun' \in {lun, [lun EXCEPT ![item] = s]}
    BY <1>6 DEF Publish
  <2>2. Offered(item) \subseteq Slot \cup {None}
    BY <1>6 DEF Offered, item, Publish, Placed, StateType
  <2> QED
    BY <1>6, <2>1, <2>2 DEF Publish, StateType, kernel, files
<1>7. CASE Guard
  BY <1>7 DEF Guard, StateType, array, kernel, files, Placed, here, item, tgt, mine, Unpublished
<1>8. CASE Stage
  <2>1. op.node \in Node /\ op.slot \in Slot /\ TargetOf[op.slot] \in Target
    BY <1>8 DEF Stage, Placed, OpType
  <2>2. KernelType'
    <3>1. CASE UNCHANGED <<session, seen>>
      BY <3>1 DEF KernelType, StateType
    <3> QED
      BY <1>8, <2>1, <3>1, LoginType DEF Stage, here, tgt
  <2> QED
    BY <1>8, <2>2 DEF Stage, KernelType, StateType, array, files
<1>9. CASE Map
  BY <1>9 DEF Map, StateType, array, kernel, files, Placed, here, item, tgt, mine
<1>10. CASE Record
  <2>1. /\ op.node \in Node /\ op.item \in Volume /\ op.slot \in Slot
        /\ mine \in Store /\ tgt \in Target
    BY <1>10 DEF Record, Placed, OpType, mine, tgt
  <2>2. UNCHANGED ldir \/ ldir' = [ldir EXCEPT ![op.node] = @ \cup {<<mine, op.slot>>}]
    BY <1>10 DEF Record, here
  <2>3. UNCHANGED tdir \/ tdir' = [tdir EXCEPT ![op.node] = @ \cup {<<mine, tgt>>}]
    BY <1>10 DEF Record, here
  <2>4. \/ UNCHANGED rec
        \/ rec' = [rec EXCEPT ![op.node] = OtherFiles(@)]
        \/ rec' = [rec EXCEPT ![op.node] = OtherFiles(@) \cup {<<op.item, op.slot>>}]
    BY <1>10 DEF Record, here, item
  <2>5. UNCHANGED active \/ active' = [active EXCEPT ![op.node] = @ \cup {op.item}]
    BY <1>10 DEF Record, here, item
  <2>6. UNCHANGED <<array, kernel>> /\ sized' = [sized EXCEPT ![op.node] = OtherFiles(@)]
    BY <1>10 DEF Record, here
  <2>7. /\ OtherFiles(rec[op.node]) \subseteq Volume \X Slot
        /\ OtherFiles(sized[op.node]) \subseteq Volume \X Slot
    BY <2>1 DEF OtherFiles, StateType
  <2>8. rec' \in [Node -> SUBSET (Volume \X Slot)]
    BY <2>1, <2>4, <2>7 DEF StateType
  <2>9. sized' \in [Node -> SUBSET (Volume \X Slot)]
    BY <2>6, <2>7 DEF StateType
  <2> QED
    BY <2>1, <2>2, <2>3, <2>5, <2>6, <2>8, <2>9 DEF StateType, array, kernel
<1>11. CASE TeardownStage
  <2>1. UNCHANGED seen \/ DeviceDeleted
    BY <1>11 DEF TeardownStage
  <2> QED
    BY <1>11, <2>1 DEF TeardownStage, DeviceDeleted, StateType, array, files, here
<1>12. CASE TeardownMap
  BY <1>12 DEF TeardownMap, StateType, array, kernel, files, Placed, here, item, tgt, mine
<1>13. CASE TeardownDetach
  BY <1>13 DEF TeardownDetach, StateType, array, kernel, files, Placed, here, item, tgt, mine, Unpublished
<1>14. CASE DropRecord
  <2>1. op.node \in Node /\ op.slot \in Slot
    BY <1>14 DEF DropRecord, Placed, OpType
  <2>2. KernelType'
    <3>1. CASE UNCHANGED <<session, seen>>
      BY <3>1 DEF KernelType, StateType
    <3> QED
      BY <1>14, <2>1, <3>1, LogoutType DEF DropRecord
  <2>3. /\ UNCHANGED rec \/ rec' = [rec EXCEPT ![op.node] = OtherFiles(@)]
        /\ UNCHANGED sized \/ sized' = [sized EXCEPT ![op.node] = OtherFiles(@)]
        /\ UNCHANGED <<array, maps, ldir, tdir, active>>
    BY <1>14 DEF DropRecord, here
  <2>4. /\ OtherFiles(rec[op.node]) \subseteq Volume \X Slot
        /\ OtherFiles(sized[op.node]) \subseteq Volume \X Slot
    BY <2>1 DEF OtherFiles, StateType
  <2> QED
    BY <2>2, <2>3, <2>4 DEF KernelType, StateType, array
<1>15. CASE DropLunDir
  <2>1. UNCHANGED ldir \/ ldir' = [ldir EXCEPT ![op.node] = @ \ {<<mine, op.slot>>}]
    BY <1>15 DEF DropLunDir, here
  <2> QED
    BY <1>15, <2>1 DEF DropLunDir, StateType, array, kernel
<1>16. CASE DropSession
  <2>1. KernelType'
    BY <1>16, LogoutType DEF DropSession, Placed, OpType
  <2> QED
    BY <1>16, <2>1 DEF DropSession, KernelType, StateType, array, files
<1>17. CASE DropTargetDir
  BY <1>17 DEF DropTargetDir, StateType, array, kernel, files, Placed, here, item, tgt, mine
<1>18. CASE UnstackDevice
  BY <1>18 DEF UnstackDevice, DeviceDeleted, StateType, array, files, here
<1>19. CASE UnstackMap
  BY <1>19 DEF UnstackMap, StateType, array, kernel, files, Placed, here, item, tgt, mine
<1>20. CASE UnstackDetach
  BY <1>20 DEF UnstackDetach, StateType, array, kernel, files, Placed, here, item, tgt, mine, Unpublished
<1>21. CASE UnpublishState
  BY <1>21 DEF UnpublishState, StateType, array, kernel, files, Placed, here, item, tgt, mine, Unpublished
<1>22. ASSUME NEW n \in Node, Reboot(n) PROVE StateType'
  BY <1>22 DEF Reboot, StateType, array, kernel, files
<1>23. CASE UNCHANGED vars
  BY <1>23 DEF vars, StateType
<1> QED
  BY <1>1, <1>2, <1>3, <1>4, <1>5, <1>6, <1>7, <1>8, <1>9, <1>10, <1>11, <1>12, <1>13, <1>14, <1>15, <1>16, <1>17, <1>18, <1>19, <1>20, <1>21, <1>22, <1>23
  DEF Next, Proceed, Attempt, Teardown, Drop, Unwind

LEMMA OpTypeStep ==
    ASSUME TypeOK, [Next]_vars
    PROVE  op' \in OpType /\ Placed(op')
<1> StateType /\ op \in OpType /\ Placed(op)
  BY TypeParts
<1>1. ASSUME NEW n \in Node, NEW v \in Volume,
             Activate(n, v) \/ Reactivate(n, v) \/ Deactivate(n, v)
      PROVE  op' \in OpType /\ Placed(op')
  BY <1>1, BeginGoes DEF Activate, Reactivate, Deactivate, Placed
<1>3. CASE Publish
  BY <1>3, PublishGoes, ActivationAssumption DEF Publish, Walks, Keeps, Placed
<1>4. CASE Guard
  BY <1>4, ActionWalks DEF Guard, Walks, Keeps, Placed
<1>5. CASE Stage
  BY <1>5, ActionWalks DEF Stage, Walks, Keeps, Placed
<1>6. CASE Map
  BY <1>6, ActionWalks DEF Map, Walks, Keeps, Placed
<1>7. CASE Record
  BY <1>7, RecordGoes, NoOpType DEF Record, Walks, Keeps, Placed
<1>8. CASE Classify
  BY <1>8, GoWalks DEF Classify, Go, Walks, Keeps, Placed, Steps
<1>9. CASE NextCycle
  BY <1>9, NextCycleGoes DEF NextCycle, Walks, Keeps, Placed
<1>10. CASE TeardownStage \/ TeardownMap \/ TeardownQuery \/ TeardownDetach
  BY <1>10, ActionWalks DEF TeardownStage, TeardownMap, TeardownQuery, TeardownDetach,
     Walks, Keeps, Placed
<1>11. CASE TeardownRecord
  BY <1>11, TeardownRecordGoes DEF TeardownRecord, Walks, Keeps, Placed
<1>12. CASE DropRecord \/ DropLunDir \/ DropSession \/ DropTargetDir
  BY <1>12, ActionWalks DEF DropRecord, DropLunDir, DropSession, DropTargetDir,
     Walks, Keeps, Placed, OpType
<1>13. CASE Unstack
  BY <1>13, UnstackGoes, ActivationAssumption DEF Unstack, Placed, OpType
<1>14. CASE UnstackDevice \/ UnstackMap \/ UnpublishState
  BY <1>14, ActionWalks DEF UnstackDevice, UnstackMap, UnpublishState, Walks, Keeps, Placed
<1>15. CASE UnstackDetach
  BY <1>15, UnstackDetachGoes DEF UnstackDetach, Keeps, Placed
<1>16. CASE Return \/ Crash
  BY <1>16, NoOpType DEF Return, Crash, Placed
<1>17. ASSUME NEW n \in Node, NEW v \in Volume, Accept(n, v)
       PROVE  op' \in OpType /\ Placed(op')
  BY <1>17 DEF Accept
<1>18. CASE UNCHANGED vars
  BY <1>18 DEF vars
<1>19. ASSUME NEW n \in Node, Reboot(n)
       PROVE  op' \in OpType /\ Placed(op')
  BY <1>19, NoOpType DEF Reboot, Placed
<1> QED
  BY <1>1, <1>3, <1>4, <1>5, <1>6, <1>7, <1>8, <1>9, <1>10, <1>11, <1>12, <1>13, <1>14,
     <1>15, <1>16, <1>17, <1>18, <1>19
  DEF Next, Proceed, Attempt, Teardown, Drop, Unwind

LEMMA TypeInit == Init => TypeOK
  BY NoOpType, ActivationAssumption DEF Init, TypeOK, OpType, NoOp

LEMMA TypeStep == TypeOK /\ [Next]_vars => TypeOK'
<1> SUFFICES ASSUME TypeOK, [Next]_vars PROVE TypeOK'
  OBVIOUS
<1>1. StateType' /\ op' \in OpType /\ Placed(op')
  BY StateTypeStep, OpTypeStep
<1> QED
  BY <1>1 DEF TypeOK, StateType, OpType, Placed

\* Every variable keeps its type, and an operation in progress its coordinates,
\* whatever fails, is killed or restarts (volume_activate, volume_deactivate and
\* the plugin methods around them).
THEOREM TypeCorrect == Spec => []TypeOK
<1> QED
  BY TypeInit, TypeStep, PTL DEF Spec

-----------------------------------------------------------------------------
(* A fatal error stops the operation.                                      *)

\* What a marked error has stopped is not running; only snapshots get to the
\* unpublish that turns errors into warnings.
Halts == Stops(op) /\ (op.at = "xDetach" => op.item \in Snap)

LEMMA HaltsInit == Init => Halts
  BY NoOpType DEF Init, Halts, Stops

LEMMA HaltsStep ==
    ASSUME Snap = {}, TypeOK, Halts, [Next]_vars
    PROVE  Halts'
<1> StateType /\ op \in OpType /\ Placed(op)
  BY TypeParts
<1> USE DEF Halts
<1>1. ASSUME NEW n \in Node, NEW v \in Volume,
             Activate(n, v) \/ Reactivate(n, v) \/ Deactivate(n, v)
      PROVE  Halts'
  BY <1>1, BeginGoes DEF Activate, Reactivate, Deactivate, Stops
<1>2. CASE Publish
  BY <1>2, PublishGoes DEF Publish, Walks, Stops
<1>3. CASE Guard \/ Stage \/ Map
  BY <1>3, ActionWalks DEF Guard, Stage, Map, Walks, Stops
<1>4. CASE Record
  BY <1>4, RecordGoes, NoOpType DEF Record, Walks, Stops
<1>5. CASE Classify
  <2>1. CASE op.err \in {"fatal", "refused"}
    <3>1. op'.at = "failed"
      BY <1>5, <2>1, GoWalks DEF Classify, Go, Walks, Steps
    <3> QED
      BY <3>1 DEF Stops
  <2>2. CASE op.err \notin {"fatal", "refused"}
    BY <1>5, <2>2, ActionWalks DEF Classify, Walks, Stops
  <2> QED
    BY <2>1, <2>2
<1>6. CASE NextCycle
  BY <1>6, NextCycleGoes DEF NextCycle, Walks, Stops
<1>7. CASE TeardownStage \/ TeardownMap \/ TeardownQuery \/ TeardownDetach
  BY <1>7, ActionWalks DEF TeardownStage, TeardownMap, TeardownQuery, TeardownDetach,
     Walks, Stops
<1>8. CASE TeardownRecord
  BY <1>8, TeardownRecordGoes DEF TeardownRecord, Walks, Stops
<1>9. CASE DropRecord \/ DropLunDir \/ DropSession \/ DropTargetDir
  BY <1>9, ActionWalks DEF DropRecord, DropLunDir, DropSession, DropTargetDir,
     Walks, Stops, OpType
<1>10. CASE Unstack
  BY <1>10, UnstackGoes DEF Unstack, Stops, OpType
<1>11. CASE UnstackDevice \/ UnpublishState
  BY <1>11, ActionWalks DEF UnstackDevice, UnpublishState, Walks, Stops
<1>12. CASE UnstackMap
  <2>1. op'.at # "xDetach"
    <3>1. CASE Go("drop")
      BY <3>1, GoWalks DEF Go, Walks, Steps
    <3>2. CASE \E c \in Classes : op' = Error(c, "failed")
      BY <3>2, ErrorWalks DEF Walks
    <3> QED
      BY <1>12, <3>1, <3>2 DEF UnstackMap, Raised, Classes
  <2> QED
    BY <1>12, <2>1, ActionWalks DEF UnstackMap, Walks, Stops
<1>13. CASE UnstackDetach
  BY <1>13 DEF UnstackDetach
<1>14. CASE Return \/ Crash
  BY <1>14, NoOpType DEF Return, Crash, Stops
<1>15. ASSUME NEW n \in Node, NEW v \in Volume, Accept(n, v)
       PROVE  Halts'
  BY <1>15 DEF Accept, Stops
<1>16. ASSUME NEW n \in Node, Reboot(n)
       PROVE  Halts'
  BY <1>16, NoOpType DEF Reboot, Stops
<1>17. CASE UNCHANGED vars
  BY <1>17 DEF vars, Stops
<1> QED
  BY <1>1, <1>2, <1>3, <1>4, <1>5, <1>6, <1>7, <1>8, <1>9, <1>10, <1>11, <1>12, <1>13,
     <1>14, <1>15, <1>16, <1>17
  DEF Next, Proceed, Attempt, Teardown, Drop, Unwind

LEMMA HaltsSpec == ASSUME Snap = {} PROVE Spec => [](TypeOK /\ Halts)
<1>1. Init => TypeOK /\ Halts
  BY TypeInit, HaltsInit
<1>2. (TypeOK /\ Halts) /\ [Next]_vars => (TypeOK /\ Halts)'
  BY TypeStep, HaltsStep
<1> QED
  BY <1>1, <1>2, PTL DEF Spec

Touches ==
    op.marked /\ op'.marked =>
          /\ lun' = lun
          /\ session'[op.node] = session[op.node] /\ seen'[op.node] = seen[op.node]
          /\ maps'[op.node] = maps[op.node] /\ rec'[op.node] = rec[op.node]

LEMMA MarkedTouchesNothing ==
    ASSUME TypeOK, Halts, [Next]_vars PROVE Touches
<1> SUFFICES ASSUME op.marked, op'.marked
             PROVE  /\ lun' = lun
                    /\ session'[op.node] = session[op.node] /\ seen'[op.node] = seen[op.node]
                    /\ maps'[op.node] = maps[op.node] /\ rec'[op.node] = rec[op.node]
  BY DEF Touches
<1>1. op.at \in {"failed", "caught"}
  BY DEF Halts, Stops
<1>2. CASE Classify \/ UNCHANGED vars
  BY <1>2 DEF Classify, array, kernel, files, vars
<1>3. ASSUME NEW n \in Node, Reboot(n)
      PROVE  n # op.node /\ UNCHANGED <<lun, rec>>
  BY <1>3, NoOpType DEF Reboot, here, array, files
<1>4. ASSUME NEW n \in Node, Reboot(n)
      PROVE  /\ session'[op.node] = session[op.node] /\ seen'[op.node] = seen[op.node]
             /\ maps'[op.node] = maps[op.node]
  <2>1. op.node \in Node
    BY <1>1 DEF TypeOK
  <2> QED
    BY <1>3, <1>4, <2>1 DEF Reboot, TypeOK
<1>5. ~Return /\ ~Crash
  BY NoOpType DEF Return, Crash
<1>6. \/ Classify \/ UNCHANGED vars \/ Return \/ Crash \/ \E n \in Node : Reboot(n)
  BY <1>1 DEF Next, Proceed, Attempt, Teardown, Drop, Unwind, Activate, Accept, Reactivate,
     Deactivate, Publish, Guard, Stage, Map, Record, NextCycle, TeardownStage, TeardownMap,
     TeardownQuery, TeardownDetach, TeardownRecord, DropRecord, DropLunDir, DropSession,
     DropTargetDir, Unstack, UnstackDevice, UnstackMap, UnstackDetach, UnpublishState
<1> QED
  BY <1>2, <1>3, <1>4, <1>5, <1>6

\* Without snapshots, nothing is touched after an error with the fatal marker:
\* neither teardown steps nor record deletes go on.  With snapshots the code
\* itself goes on, in the unpublish of volume_deactivate_by_lun_record.
THEOREM FatalErrorsStop == ASSUME Snap = {} PROVE Spec => FatalStops
<1>1. (TypeOK /\ Halts) /\ [Next]_vars => [Touches]_vars
  BY MarkedTouchesNothing
<1> QED
  BY <1>1, HaltsSpec, PTL DEF Spec, FatalStops, Touches

-----------------------------------------------------------------------------
(* The records of two storages.                                            *)

\* An attempt, its teardown and the unpublish of a state volume work on the
\* volume of the operation, and so does the record delete of a teardown.
Own(o) ==
    /\ o.at \in {"publish", "guard", "stage", "map", "record", "caught", "cycle",
                 "tStage", "tMap", "tQuery", "tDetach", "tRecord"} => o.item = o.vol
    /\ o.at \in {"drop", "dropDir", "dropSession", "dropTarget"} /\ o.back = "cycle"
                                                                => o.item = o.vol
    /\ o.at \in {"xStage", "xMap", "xDetach"} => o.back = "unstack"

\* A record lies in a LUN directory of its storage.
Filed == \A n \in Node : \A r \in rec[n] : <<StoreOf[r[1]], r[2]>> \in ldir[n]

\* The LUN directories of two storages are on different targets.
Apart ==
    \A n \in Node : \A d1, d2 \in ldir[n] :
        TargetOf[d1[2]] = TargetOf[d2[2]] => d1[1] = d2[1]

\* Between the shared-target guard and the record no other storage comes to
\* the target.
Alone ==
    op.at \in {"stage", "map", "record"}
        => ~OtherStoreUses(op.node, StoreOf[op.vol], TargetOf[op.slot])

Separate == Own(op) /\ Filed /\ Apart /\ Alone

LEMMA SeparateInit == Init => Separate
  BY NoOpType DEF Init, Separate, Own, Filed, Apart, Alone

\* What a step on the operation alone does to the invariant.
LEMMA SeparateKeeps ==
    ASSUME TypeOK, Separate, UNCHANGED <<rec, ldir>>, Own(op'),
           op'.at \in {"stage", "map", "record"} =>
               /\ Keeps(op')
               /\ \/ op.at \in {"stage", "map", "record"}
                  \/ ~OtherStoreUses(op.node, StoreOf[op.vol], TargetOf[op.slot])
    PROVE  Separate'
  BY DEF Separate, Filed, Apart, Alone, OtherStoreUses, Keeps

LEMMA SeparateStep ==
    ASSUME TypeOK, Separate, [Next]_vars
    PROVE  Separate'
<1> StateType /\ op \in OpType /\ Placed(op)
  BY TypeParts
<1> Own(op) /\ Filed /\ Apart /\ Alone
  BY DEF Separate
<1>1. ASSUME NEW n \in Node, NEW v \in Volume,
             Activate(n, v) \/ Reactivate(n, v) \/ Deactivate(n, v)
      PROVE  Separate'
  BY <1>1, BeginGoes, SeparateKeeps DEF Activate, Reactivate, Deactivate, Own, files
<1>2. CASE Publish
  BY <1>2, PublishGoes, SeparateKeeps DEF Publish, Walks, Keeps, Own, files
<1>3. CASE Guard
  <2>1. op'.at = "stage" => ~OtherStoreUses(op.node, StoreOf[op.vol], TargetOf[op.slot])
    <3>1. ASSUME OtherStoreUses(here, mine, tgt) PROVE op'.at = "caught"
      BY <1>3, <3>1, ErrorKeeps DEF Guard, Steps, Classes
    <3> QED
      BY <3>1 DEF here, mine, tgt
  <2> QED
    BY <1>3, <2>1, ActionWalks, SeparateKeeps DEF Guard, Walks, Keeps, Own, files
<1>4. CASE Stage \/ Map
  BY <1>4, ActionWalks, SeparateKeeps DEF Stage, Map, Walks, Keeps, Own, files
<1>5. CASE Record
  <2>1. /\ op.node \in Node /\ op.item \in Volume /\ op.slot \in Slot /\ op.item = op.vol
        /\ mine = StoreOf[op.item]
    BY <1>5 DEF Record, Placed, OpType, Own, mine
  <2> DEFINE dir == <<mine, op.slot>>
  <2>2. \/ UNCHANGED <<rec, ldir>>
        \/ /\ rec' \in [Node -> SUBSET (Volume \X Slot)]
           /\ \A n \in Node : \A r \in rec'[n] :
                 r \in rec[n] \/ (n = op.node /\ r = <<op.item, op.slot>>)
           /\ ldir' = [ldir EXCEPT ![op.node] = @ \cup {dir}]
    BY <1>5, <2>1, ActivationAssumption DEF Record, here, item, OtherFiles, StateType
  <2>3. op'.at \in {"idle", "caught"} /\ Own(op')
    BY <1>5, RecordGoes, NoOpType DEF Record, Walks, Keeps, Own
  <2>4. Filed'
    <3>1. CASE UNCHANGED <<rec, ldir>>
      BY <3>1 DEF Filed
    <3>2. CASE ~UNCHANGED <<rec, ldir>>
      <4> SUFFICES ASSUME NEW n \in Node, NEW r \in rec'[n]
                   PROVE  <<StoreOf[r[1]], r[2]>> \in ldir'[n]
        BY DEF Filed
      <4>1. ldir[n] \subseteq ldir'[n] /\ (n = op.node => dir \in ldir'[n])
        BY <2>1, <2>2, <3>2 DEF StateType
      <4> HIDE DEF dir
      <4>2. CASE r \in rec[n]
        BY <4>1, <4>2 DEF Filed
      <4>3. CASE n = op.node /\ r = <<op.item, op.slot>>
        BY <2>1, <4>1, <4>3 DEF dir
      <4> QED
        BY <2>2, <3>2, <4>2, <4>3
    <3> QED
      BY <3>1, <3>2
  <2>5. \A d \in ldir[op.node] : TargetOf[d[2]] = TargetOf[op.slot] => d[1] = mine
    BY <1>5, <2>1 DEF Record, Alone, OtherStoreUses
  <2>6. Apart'
    <3> SUFFICES ASSUME NEW n \in Node, NEW d1 \in ldir'[n], NEW d2 \in ldir'[n],
                        TargetOf[d1[2]] = TargetOf[d2[2]]
                 PROVE  d1[1] = d2[1]
      BY DEF Apart
    <3>1. \A d \in ldir'[n] : d \in ldir[n] \/ (n = op.node /\ d = dir)
      BY <2>1, <2>2 DEF StateType
    <3>2. CASE n = op.node /\ (d1 = dir \/ d2 = dir)
      BY <2>5, <3>1, <3>2
    <3>3. CASE d1 \in ldir[n] /\ d2 \in ldir[n]
      BY <3>3 DEF Apart
    <3> QED
      BY <3>1, <3>2, <3>3
  <2> QED
    BY <2>3, <2>4, <2>6 DEF Separate, Alone
<1>6. CASE Classify
  BY <1>6, GoWalks, SeparateKeeps DEF Classify, Go, Walks, Keeps, Own, files, Steps
<1>7. CASE NextCycle
  BY <1>7, NextCycleGoes, SeparateKeeps DEF NextCycle, Walks, Keeps, Own, files
<1>8. CASE TeardownStage \/ TeardownMap \/ TeardownQuery \/ TeardownDetach
  BY <1>8, ActionWalks, SeparateKeeps DEF TeardownStage, TeardownMap, TeardownQuery,
     TeardownDetach, Walks, Keeps, Own, files
<1>9. CASE TeardownRecord
  BY <1>9, TeardownRecordGoes, SeparateKeeps DEF TeardownRecord, Walks, Keeps, Own, files
<1>10. CASE DropRecord
  <2>1. /\ Keeps(op') /\ op'.at \in {"dropDir", op.back, "failed"} /\ ldir' = ldir
        /\ \A n \in Node : rec'[n] \subseteq rec[n]
    BY <1>10, ActionWalks DEF DropRecord, Walks, OtherFiles, StateType
  <2>2. Own(op')
    BY <1>10, <2>1 DEF DropRecord, Keeps, Own, OpType
  <2>3. Filed' /\ Apart'
    BY <2>1 DEF Filed, Apart
  <2>4. Alone'
    BY <2>1 DEF Alone, OpType
  <2> QED
    BY <2>2, <2>3, <2>4 DEF Separate
<1>11. CASE DropLunDir
  <2>1. op.node \in Node
    BY <1>11 DEF DropLunDir, Placed
  <2>2. /\ Keeps(op') /\ op'.at \in {"dropSession", op.back} /\ rec' = rec
        /\ \/ ldir' = ldir
           \/ /\ ldir' = [ldir EXCEPT ![op.node] = @ \ {<<mine, op.slot>>}]
              /\ \A r \in rec[op.node] : ~(r[2] = op.slot /\ StoreOf[r[1]] = mine)
    BY <1>11, ActionWalks DEF DropLunDir, Walks, here
  <2>3. Own(op')
    BY <1>11, <2>2 DEF DropLunDir, Keeps, Own, OpType
  <2>4. Filed'
    <3> SUFFICES ASSUME NEW n \in Node, NEW r \in rec[n]
                 PROVE  <<StoreOf[r[1]], r[2]>> \in ldir'[n]
      BY <2>2 DEF Filed
    <3>1. CASE n = op.node
      BY <2>1, <2>2, <3>1 DEF Filed, StateType
    <3>2. CASE n # op.node
      BY <2>1, <2>2, <3>2 DEF Filed, StateType
    <3> QED
      BY <3>1, <3>2
  <2>5. Apart'
    BY <2>1, <2>2 DEF Apart, StateType
  <2>6. Alone'
    BY <2>2 DEF Alone, OpType
  <2> QED
    BY <2>3, <2>4, <2>5, <2>6 DEF Separate
<1>12. CASE DropSession \/ DropTargetDir
  BY <1>12, ActionWalks, SeparateKeeps DEF DropSession, DropTargetDir, Walks, Keeps, Own,
     files, OpType
<1>13. CASE Unstack
  BY <1>13, UnstackGoes, SeparateKeeps DEF Unstack, Own, files, OpType
<1>14. CASE UnstackDevice \/ UnstackMap \/ UnpublishState
  BY <1>14, ActionWalks, SeparateKeeps DEF UnstackDevice, UnstackMap, UnpublishState,
     Walks, Keeps, Own, files
<1>15. CASE UnstackDetach
  BY <1>15, UnstackDetachGoes, SeparateKeeps DEF UnstackDetach, Keeps, Own, files
<1>16. CASE Return \/ Crash
  BY <1>16, NoOpType, SeparateKeeps DEF Return, Crash, Own, files
<1>17. ASSUME NEW n \in Node, NEW v \in Volume, Accept(n, v)
       PROVE  Separate'
  BY <1>17, SeparateKeeps DEF Accept, Own
<1>18. ASSUME NEW n \in Node, Reboot(n)
       PROVE  Separate'
  <2>1. CASE op' = op
    BY <1>18, <2>1 DEF Reboot, files, Separate, Filed, Apart, Alone, OtherStoreUses
  <2>2. CASE op' = NoOp
    BY <1>18, <2>2, NoOpType, SeparateKeeps DEF Reboot, files, Own
  <2> QED
    BY <1>18, <2>1, <2>2 DEF Reboot
<1>19. CASE UNCHANGED vars
  BY <1>19 DEF vars, Separate, Filed, Apart, Alone, OtherStoreUses
<1> QED
  BY <1>1, <1>2, <1>3, <1>4, <1>5, <1>6, <1>7, <1>8, <1>9, <1>10, <1>11, <1>12, <1>13,
     <1>14, <1>15, <1>16, <1>17, <1>18, <1>19
  DEF Next, Proceed, Attempt, Teardown, Drop, Unwind

\* The records of two storages of a node never name the same target, so that no
\* logout by target name takes the other storage's devices - whatever target
\* the array assigns, whatever fails (the shared-target guard of
\* _volume_activate_attempt).
THEOREM StoragesStayApart == Spec => []NoSharedTarget
<1>1. TypeOK /\ Separate /\ [Next]_vars => (TypeOK /\ Separate)'
  BY TypeStep, SeparateStep
<1>2. TypeOK /\ Separate => NoSharedTarget
  <2> SUFFICES ASSUME Filed, Apart, NEW n \in Node, NEW r1 \in rec[n], NEW r2 \in rec[n],
                      TargetOf[r1[2]] = TargetOf[r2[2]]
               PROVE  StoreOf[r1[1]] = StoreOf[r2[1]]
    BY DEF Separate, NoSharedTarget
  <2> DEFINE d(r) == <<StoreOf[r[1]], r[2]>>
  <2>1. d(r1) \in ldir[n] /\ d(r2) \in ldir[n]
    BY DEF Filed
  <2>2. d(r1)[1] = d(r2)[1]
    BY <2>1, Zenon DEF Apart
  <2> QED
    BY <2>2
<1> QED
  BY <1>1, <1>2, TypeInit, SeparateInit, PTL DEF Spec

-----------------------------------------------------------------------------
(* The gate of the recovery detach.                                        *)

\* One storage, and no state volumes: what the theorem below is about.
Plain == StateVol = {} /\ \A s1, s2 \in Store : s1 = s2

\* An attempt that knows a target has its volume attached there.
Attached ==
    /\ op.at = "publish" => op.slot = None
    /\ \/ op.at \in {"guard", "stage", "map", "record", "tStage", "tMap", "tQuery", "tDetach"}
       \/ op.at = "caught" /\ op.err \notin {"fatal", "refused"}
       => op.slot = None \/ lun[op.item] = op.slot

\* Where a volume is about to be detached, no other node has a session.
Gated ==
    /\ op.at = "tDetach" /\ op.item \notin Snap
        => op.slot # None /\ \A n \in Node \ {op.node} : TargetOf[op.slot] \notin session[n]
    /\ op.at = "xDetach" => op.item \in Snap
    /\ op.at # "unpublish" /\ op.then # "unpublish"

Spares == Attached /\ Gated

LEMMA SparesInit == Init => Spares
  BY NoOpType DEF Init, Spares, Attached, Gated, NoOp

LEMMA NothingForeign ==
    ASSUME Plain, TypeOK, op.at # "idle", NEW t
    PROVE  ~OtherStoreUses(here, mine, t)
  BY ActivationAssumption DEF Plain, TypeOK, OtherStoreUses, mine, here

\* What a step on the operation alone does to the invariant.
LEMMA SparesKeeps ==
    ASSUME TypeOK, Spares, UNCHANGED lun, Keeps(op'),
           op'.at \notin {"publish", "tDetach", "xDetach", "unpublish"},
           \/ op'.at \notin {"guard", "stage", "map", "record", "tStage", "tMap", "tQuery"}
           \/ op.at \in {"guard", "stage", "map", "record", "tStage", "tMap"}
           \/ op.at = "caught" /\ op.err \notin {"fatal", "refused"},
           op'.at = "caught" => op.at \in {"guard", "stage", "map", "record"}
    PROVE  Spares'
  BY DEF Spares, Attached, Gated, Keeps

\* At these steps the invariant says nothing.
LEMMA SparesFree ==
    ASSUME op'.then # "unpublish",
           op'.at \in {"idle", "cycle", "tRecord", "drop", "dropDir", "dropSession",
                      "dropTarget", "unstack", "xStage", "xMap", "end", "failed"}
    PROVE  Spares'
  BY DEF Spares, Attached, Gated

LEMMA SparesStep ==
    ASSUME Plain, TypeOK, Spares, [Next]_vars
    PROVE  Spares'
<1> StateType /\ op \in OpType /\ Placed(op)
  BY TypeParts
<1> Attached /\ Gated /\ op.then # "unpublish"
  BY DEF Spares, Gated
<1>1. ASSUME NEW n \in Node, NEW v \in Volume,
             Activate(n, v) \/ Reactivate(n, v) \/ Deactivate(n, v)
      PROVE  Spares'
  <2>1. ASSUME NEW a \in {"publish", "unstack"}, NEW t \in {"end", "publish"}, Begin(n, v, a, t)
        PROVE  Spares'
    <3>1. op'.at = a /\ op'.then = t /\ op'.slot = None
      BY <2>1 DEF Begin, NoOp
    <3> QED
      BY <3>1 DEF Spares, Attached, Gated
  <2>2. v \notin StateVol
    BY DEF Plain
  <2> QED
    BY <1>1, <2>1, <2>2 DEF Activate, Reactivate, Deactivate
<1>2. CASE Publish
  <2>1. op.slot = None /\ op.item \in Volume
    BY <1>2 DEF Publish, Attached, Placed
  <2>2. CASE Walks(op', {"caught"})
    BY <2>1, <2>2 DEF Walks, Keeps, Spares, Attached, Gated
  <2> QED
    BY <1>2, <2>1, <2>2, PublishGoes DEF Spares, Attached, Gated, StateType
<1>3. CASE Guard
  <2>1. UNCHANGED lun /\ Go("stage")
    BY <1>3, NothingForeign DEF Guard
  <2> QED
    BY <1>3, <2>1, GoWalks, SparesKeeps DEF Guard, Go, Walks, Steps
<1>4. CASE Stage \/ Map
  BY <1>4, ActionWalks, SparesKeeps DEF Stage, Map, Walks, array
<1>5. CASE Record
  <2>1. CASE op' = NoOp
    BY <2>1, SparesFree, NoOpType DEF NoOp
  <2>2. CASE Walks(op', {"caught"})
    BY <1>5, <2>2, SparesKeeps DEF Record, Walks, array
  <2> QED
    BY <1>5, <2>1, <2>2, RecordGoes
<1>6. CASE Classify
  <2>1. CASE op.err \in {"fatal", "refused", "contention"}
    <3>1. Go("failed") \/ Go("cycle")
      BY <1>6, <2>1 DEF Classify
    <3>2. op'.at \in {"failed", "cycle"} /\ op'.then = op.then
      BY <3>1 DEF Go, OpType
    <3> QED
      BY <3>2, SparesFree
  <2>2. CASE op.err \notin {"fatal", "refused", "contention"}
    <3>1. Go("tStage")
      BY <1>6, <2>2 DEF Classify
    <3> QED
      BY <1>6, <2>2, <3>1, GoWalks, SparesKeeps DEF Classify, Go, Walks, Steps, array
  <2> QED
    BY <2>1, <2>2
<1>7. CASE NextCycle
  BY <1>7, NextCycleGoes, SparesFree DEF Walks, Keeps, Spares, Attached, Gated
<1>8. CASE TeardownStage \/ TeardownMap
  BY <1>8, ActionWalks, SparesKeeps DEF TeardownStage, TeardownMap, Walks, array
<1>9. CASE TeardownQuery
  <2>1. CASE op'.at = "tDetach"
    <3>1. Keeps(op') /\ UNCHANGED <<lun, session>>
      BY <1>9, ActionWalks DEF TeardownQuery, Walks, array, kernel
    <3>2. op.item \notin Snap => op.slot # None /\ ForeignSessions(TargetOf[op.slot]) = {}
      <4>1. \A c \in Classes : op' # Absorbed(c, "tRecord")
        BY <2>1, AbsorbedWalks DEF Walks, Steps
      <4>2. ~Go("tRecord")
        BY <2>1, GoWalks DEF Go, Walks, Steps
      <4> QED
        BY <1>9, <4>1, <4>2 DEF TeardownQuery, Raised, item, tgt
    <3>3. op.item \notin Snap => \A n \in Node \ {op.node} : TargetOf[op.slot] \notin session[n]
      BY <3>2 DEF ForeignSessions, here
    <3> QED
      BY <1>9, <2>1, <3>1, <3>2, <3>3 DEF TeardownQuery, Keeps, Spares, Attached, Gated
  <2>2. CASE op'.at # "tDetach"
    BY <1>9, <2>2, ActionWalks, SparesFree DEF Walks, Keeps
  <2> QED
    BY <2>1, <2>2
<1>10. CASE TeardownDetach \/ DropSession
  BY <1>10, ActionWalks, SparesFree DEF Walks, Keeps
<1>11. CASE TeardownRecord
  BY <1>11, TeardownRecordGoes, SparesFree DEF Walks, Keeps
<1>12. CASE DropRecord \/ DropLunDir \/ DropTargetDir
  BY <1>12, ActionWalks, SparesFree DEF Walks, Keeps, OpType
<1>13. CASE Unstack
  BY <1>13, UnstackGoes, SparesFree DEF Spares, Attached, Gated, OpType
<1>14. CASE UnstackDevice
  BY <1>14, ActionWalks, SparesFree DEF Walks, Keeps
<1>15. CASE UnstackMap
  <2>1. CASE op'.at = "xDetach"
    <3>1. op.item \in Snap
      <4>1. ~Go("drop")
        BY <2>1, GoWalks DEF Go, Walks, Steps
      <4>2. \A c \in Classes : op' # Error(c, "failed")
        BY <2>1, ErrorWalks DEF Walks
      <4> QED
        BY <1>15, <4>1, <4>2 DEF UnstackMap, Raised, Classes, item
    <3> QED
      BY <1>15, <2>1, <3>1, ActionWalks DEF Walks, Keeps, Spares, Attached, Gated
  <2>2. CASE op'.at # "xDetach"
    BY <1>15, <2>2, ActionWalks, SparesFree DEF Walks, Keeps
  <2> QED
    BY <2>1, <2>2
<1>16. CASE UnstackDetach
  BY <1>16, UnstackDetachGoes, SparesFree DEF Keeps
<1>17. ~UnpublishState
  BY DEF UnpublishState, Gated
<1>18. CASE Return \/ Crash
  BY <1>18, NoOpType, SparesFree DEF Return, Crash, NoOp
<1>19. ASSUME NEW n \in Node, NEW v \in Volume, Accept(n, v)
       PROVE  Spares'
  BY <1>19, SparesFree DEF Accept
<1>20. ASSUME NEW n \in Node, Reboot(n)
       PROVE  Spares'
  <2>1. CASE op' = op
    <3>1. UNCHANGED lun /\ \A m \in Node : session'[m] \subseteq session[m]
      BY <1>20 DEF Reboot, array, StateType
    <3> QED
      BY <2>1, <3>1 DEF Spares, Attached, Gated
  <2>2. CASE op' = NoOp
    BY <2>2, NoOpType, SparesFree DEF NoOp
  <2> QED
    BY <1>20, <2>1, <2>2 DEF Reboot
<1>21. CASE UNCHANGED vars
  BY <1>21 DEF vars, Spares, Attached, Gated
<1> QED
  BY <1>1, <1>2, <1>3, <1>4, <1>5, <1>6, <1>7, <1>8, <1>9, <1>10, <1>11, <1>12, <1>13,
     <1>14, <1>15, <1>16, <1>17, <1>18, <1>19, <1>20, <1>21
  DEF Next, Proceed, Attempt, Teardown, Drop, Unwind

\* Whether the volume of a step that detaches is used by no other node.
Detaches ==
    \A v \in Volume \ Snap :
        lun[v] # None /\ lun'[v] = None => \A n \in Node \ {op.node} : TargetOf[lun[v]] \notin session[n]

LEMMA DetachIsGated ==
    ASSUME Plain, TypeOK, Spares, [Next]_vars PROVE Detaches
<1> StateType /\ op \in OpType /\ Placed(op)
  BY TypeParts
<1> Attached /\ Gated
  BY DEF Spares
<1>1. CASE UNCHANGED lun
  BY <1>1 DEF Detaches
<1>2. CASE Publish
  <2>1. PICK t \in Slot : lun' \in {lun, [lun EXCEPT ![item] = t]}
    BY <1>2 DEF Publish, Offered, StateType, Placed, item
  <2>2. t # None
    BY ActivationAssumption
  <2> QED
    BY <2>1, <2>2 DEF Detaches, StateType
<1>3. CASE Guard
  BY <1>1, <1>3, NothingForeign DEF Guard
<1>4. CASE TeardownDetach \/ UnstackDetach
  <2> SUFFICES ASSUME NEW v \in Volume \ Snap, lun[v] # None, lun'[v] = None,
                      NEW n \in Node \ {op.node}
               PROVE  TargetOf[lun[v]] \notin session[n]
    BY DEF Detaches
  <2>1. v = op.item
    BY <1>4 DEF TeardownDetach, UnstackDetach, Unpublished, item, StateType
  <2>2. op.at = "tDetach"
    BY <1>4, <2>1 DEF TeardownDetach, UnstackDetach, Gated
  <2> QED
    BY <2>1, <2>2 DEF Attached, Gated
<1>5. ~UnpublishState
  BY DEF UnpublishState, Spares, Gated
<1> QED
  BY <1>1, <1>2, <1>3, <1>4, <1>5
  DEF Next, Proceed, Attempt, Teardown, Drop, Unwind, vars, array, Activate, Accept,
      Reactivate, Deactivate, Stage, Map, Record, Classify, NextCycle, TeardownStage,
      TeardownMap, TeardownQuery, TeardownRecord, DropRecord, DropLunDir, DropSession,
      DropTargetDir, Unstack, UnstackDevice, UnstackMap, Return, Crash, Reboot

LEMMA SparesSpec == ASSUME Plain PROVE Spec => [](TypeOK /\ Spares)
<1>1. Init => TypeOK /\ Spares
  BY TypeInit, SparesInit
<1>2. (TypeOK /\ Spares) /\ [Next]_vars => (TypeOK /\ Spares)'
  BY TypeStep, SparesStep
<1> QED
  BY <1>1, <1>2, PTL DEF Spec

\* With one storage and no state volumes, no operation takes a volume off its
\* target while another node has a session there: the session query and the
\* detach after it cannot be told apart by what other nodes do, because logging
\* in needs the vm lock (_volume_deactivate_attempt).
THEOREM DetachSparesSessions == ASSUME Plain PROVE Spec => DetachSpares
<1>1. (TypeOK /\ Spares) /\ [Next]_vars => [Detaches]_vars
  BY DetachIsGated
<1> QED
  BY <1>1, SparesSpec, PTL DEF Spec, DetachSpares, Detaches

-----------------------------------------------------------------------------
(* At most one record of a volume on a node.                               *)

Single == \A n \in Node : \A r, s \in rec[n] : r[1] = s[1] => r = s

\* A record lies in the directory of its target, which goes when the storage
\* has nothing left there.
Shelved ==
    /\ \A n \in Node : \A r \in rec[n] : <<StoreOf[r[1]], TargetOf[r[2]]>> \in tdir[n]
    /\ op.at \in {"dropSession", "dropTarget"}
          => \A d \in ldir[op.node] :
                ~(d[1] = StoreOf[op.vol] /\ TargetOf[d[2]] = TargetOf[op.slot])

Attempting == {"publish", "guard", "stage", "map", "record", "cycle",
               "tStage", "tMap", "tQuery", "tDetach", "tRecord"}
Drops      == {"drop", "dropDir", "dropSession", "dropTarget"}
Dropped    == {"dropDir", "dropSession", "dropTarget"}

\* o deactivates by a record.
Dropping(o) == \/ o.at \in {"xStage", "xMap", "xDetach"}
               \/ o.at \in Drops /\ o.back = "unstack"

\* What is left to be deactivated, snapshots first.
Queued(o) ==
    /\ \A r \in o.todo : r[1] \in Snap /\ Parent[r[1]] = o.vol
    /\ ~o.own => o.todo = {}
    /\ Dropping(o) => IF o.own THEN o.item \in Snap /\ Parent[o.item] = o.vol
                      ELSE o.item = o.vol

\* An attempt works on a volume without a record, a deactivation leaves none.
Bare(o) == \/ o.at \in Attempting
           \/ o.at = "caught" /\ o.err # "fatal"
           \/ o.at = "unstack" /\ ~o.own
           \/ o.at \in Drops /\ o.back = "cycle"
           \/ o.at \in Dropped /\ ~o.own

\* o has only this one record to delete.
Last(o) == o.at \in {"xStage", "xMap", "xDetach", "drop"} /\ ~o.own

Clear ==
    /\ Bare(op) => Records(op.node, op.vol) = {}
    /\ Last(op) => Records(op.node, op.vol) \subseteq {<<op.vol, op.slot>>}

Sole == Single /\ Shelved /\ Queued(op) /\ Clear

LEMMA SoleInit == Init => Sole
  BY NoOpType DEF Init, NoOp, Sole, Single, Shelved, Queued, Dropping, Clear, Bare, Last,
     Attempting, Drops, Dropped

\* The operation keeps what it has to deactivate.
Carries(o) == o.todo = op.todo /\ o.own = op.own

LEMMA StepsCarry ==
    ASSUME op \in OpType, NEW a, NEW c, NEW s
    PROVE  /\ Carries([op EXCEPT !.at = a]) /\ Carries(Error(c, a)) /\ Carries(Absorbed(c, a))
           /\ Carries(Reached(s, a)) /\ Carries([Error(c, a) EXCEPT !.done = @ \cup {s}])
  BY DEF OpType, Carries, Error, Absorbed, Reached

LEMMA ActionsCarry ==
    ASSUME op \in OpType
    PROVE  /\ Guard => Carries(op')
           /\ Stage => Carries(op')
           /\ Map => Carries(op')
           /\ Classify => Carries(op')
           /\ TeardownStage => Carries(op')
           /\ TeardownMap => Carries(op')
           /\ TeardownQuery => Carries(op')
           /\ TeardownDetach => Carries(op')
           /\ DropRecord => Carries(op')
           /\ DropLunDir => Carries(op')
           /\ DropSession => Carries(op')
           /\ DropTargetDir => Carries(op')
           /\ UnstackDevice => Carries(op')
           /\ UnstackMap => Carries(op')
           /\ UnstackDetach => Carries(op')
           /\ UnpublishState => Carries(op')
<1>1. Guard => Carries(op')
  BY StepsCarry DEF Guard, Go
<1>2. Stage => Carries(op')
  <2>1. op' = Reached("iscsi", IF Multipath THEN "map" ELSE "record") => Carries(op')
    BY StepsCarry
  <2>2. ASSUME NEW c, StageFails(c)
        PROVE  Carries(op')
    BY <2>2, StepsCarry, Zenon DEF StageFails
  <2> QED
    BY <2>1, <2>2 DEF Stage
<1>3. Map => Carries(op')
  <2>1. op' = Reached("map", "record") => Carries(op')
    BY StepsCarry
  <2>2. ASSUME NEW c, op' = [Error(c, "caught") EXCEPT !.done = @ \cup {"map"}]
        PROVE  Carries(op')
    BY <2>2, StepsCarry, Zenon
  <2> QED
    BY <2>1, <2>2 DEF Map
<1>4. Classify => Carries(op')
  BY StepsCarry DEF Classify, Go
<1>5. TeardownStage => Carries(op')
  BY StepsCarry DEF TeardownStage, Go
<1>6. TeardownMap => Carries(op')
  BY StepsCarry DEF TeardownMap, Go
<1>7. TeardownQuery => Carries(op')
  BY StepsCarry DEF TeardownQuery, Go
<1>8. TeardownDetach => Carries(op')
  BY StepsCarry DEF TeardownDetach, Go
<1>9. DropRecord => Carries(op')
  BY StepsCarry DEF DropRecord, DropFails, Go
<1>10. DropLunDir => Carries(op')
  BY StepsCarry DEF DropLunDir, Go
<1>11. DropSession => Carries(op')
  BY StepsCarry DEF DropSession, Go
<1>12. DropTargetDir => Carries(op')
  BY StepsCarry DEF DropTargetDir, Go
<1>13. UnstackDevice => Carries(op')
  BY StepsCarry DEF UnstackDevice, Go
<1>14. UnstackMap => Carries(op')
  BY StepsCarry DEF UnstackMap, Go
<1>15. UnstackDetach => Carries(op')
  BY StepsCarry DEF UnstackDetach, Go
<1>16. UnpublishState => Carries(op')
  BY StepsCarry DEF UnpublishState, Go
<1> QED
  BY <1>1, <1>2, <1>3, <1>4, <1>5, <1>6, <1>7, <1>8, <1>9, <1>10, <1>11, <1>12, <1>13,
     <1>14, <1>15, <1>16

\* What a step on the operation alone does to the invariant.
LEMMA SoleKeeps ==
    ASSUME Sole, UNCHANGED <<rec, ldir, tdir>>, Keeps(op'), Carries(op'),
           Bare(op') => Bare(op),
           Last(op') => Last(op) \/ Bare(op),
           Dropping(op') => Dropping(op),
           op'.at \in {"dropSession", "dropTarget"} => op.at \in {"dropSession", "dropTarget"}
    PROVE  Sole'
<1>1. Single' /\ Shelved'
  BY DEF Sole, Single, Shelved, Keeps
<1>2. Queued(op')
  BY DEF Sole, Queued, Keeps, Carries
<1>3. Clear'
  BY DEF Sole, Clear, Bare, Last, Records, Keeps
<1> QED
  BY <1>1, <1>2, <1>3 DEF Sole, Queued, Dropping

\* At these steps the invariant says nothing of the operation.
LEMMA SoleFree ==
    ASSUME Sole, UNCHANGED <<rec, ldir, tdir>>,
           op'.todo = {}, op'.at \in {"idle", "failed", "end", "unpublish"}
    PROVE  Sole'
  BY DEF Sole, Single, Shelved, Queued, Dropping, Clear, Bare, Last, Attempting, Drops, Dropped

LEMMA SoleRecord ==
    ASSUME TypeOK, Separate, Sole, Record
    PROVE  Sole'
<1> StateType /\ op \in OpType /\ Placed(op) /\ Own(op)
  BY TypeParts DEF Separate
<1>1. /\ op.node \in Node /\ op.item \in Volume /\ op.slot \in Slot
      /\ op.item = op.vol /\ Records(op.node, op.vol) = {}
  BY DEF Record, Placed, OpType, Own, Sole, Clear, Bare, Attempting
<1> DEFINE dir == <<StoreOf[op.vol], TargetOf[op.slot]>>
<1>2. /\ \/ UNCHANGED tdir /\ UNCHANGED rec
         \/ tdir' = [tdir EXCEPT ![op.node] = @ \cup {dir}]
      /\ rec' \in [Node -> SUBSET (Volume \X Slot)]
      /\ \A n \in Node : \A r \in rec'[n] :
            \/ r \in rec[n]
            \/ /\ n = op.node /\ r = <<op.vol, op.slot>>
               /\ op' = NoOp \/ \E a : op' = Error("fatal", a)
               /\ tdir' = [tdir EXCEPT ![op.node] = @ \cup {dir}]
  BY <1>1 DEF Record, here, item, tgt, mine, OtherFiles, StateType
<1>3. (op' = NoOp \/ \E a : op' = Error("fatal", a)) => op'.at = "idle" \/ op'.err = "fatal"
  BY NoOpType DEF Error, OpType
<1>4. op' = NoOp \/ (Walks(op', {"caught"}) /\ Carries(op'))
  <2>1. op' = NoOp \/ \E c \in Raised("record") : op' = Error(c, "caught")
    BY DEF Record
  <2>2. op' = NoOp \/ Carries(op')
    BY <2>1, StepsCarry
  <2> QED
    BY <2>2, RecordGoes
<1>5. Single'
  <2> SUFFICES ASSUME NEW n \in Node, NEW r \in rec'[n], NEW s \in rec'[n], r[1] = s[1]
               PROVE  r = s
    BY DEF Single
  <2>1. \A q \in rec'[n] : q \in rec[n] \/ (n = op.node /\ q = <<op.vol, op.slot>>)
    BY <1>2
  <2>2. \A q \in rec[op.node] : q[1] # op.vol
    BY <1>1 DEF Records
  <2> QED
    BY <2>1, <2>2 DEF Sole, Single
<1>6. Shelved'
  <2>1. \A n \in Node : \A r \in rec'[n] : <<StoreOf[r[1]], TargetOf[r[2]]>> \in tdir'[n]
    <3> SUFFICES ASSUME NEW n \in Node, NEW r \in rec'[n]
                 PROVE  <<StoreOf[r[1]], TargetOf[r[2]]>> \in tdir'[n]
      OBVIOUS
    <3>1. tdir[n] \subseteq tdir'[n]
      BY <1>1, <1>2 DEF StateType
    <3>2. CASE r \in rec[n]
      BY <3>1, <3>2 DEF Sole, Shelved
    <3>3. CASE r \notin rec[n]
      BY <1>1, <1>2, <3>3 DEF StateType
    <3> QED
      BY <3>2, <3>3
  <2>2. op'.at \notin {"dropSession", "dropTarget"}
    BY <1>4, NoOpType DEF Walks
  <2> QED
    BY <2>1, <2>2 DEF Shelved
<1>7. Queued(op')
  <2>1. CASE op' = NoOp
    <3>1. NoOp.todo = {} /\ NoOp.at = "idle"
      BY DEF NoOp
    <3> QED
      BY <2>1, <3>1 DEF Queued, Dropping, Drops
  <2>2. CASE Walks(op', {"caught"}) /\ Carries(op')
    BY <2>2 DEF Sole, Queued, Dropping, Drops, Walks, Keeps, Carries
  <2> QED
    BY <1>4, <2>1, <2>2
<1>8. Clear'
  <2>1. op'.at \in {"idle", "caught"}
    BY <1>4, NoOpType DEF Walks
  <2>2. CASE ~Bare(op')
    BY <2>1, <2>2 DEF Clear, Bare, Last
  <2>3. CASE Bare(op')
    <3>1. op'.at = "caught" /\ op'.err # "fatal"
      BY <2>1, <2>3 DEF Bare, Attempting, Drops, Dropped
    <3>2. Keeps(op') /\ \A r \in rec'[op.node] : r \in rec[op.node]
      BY <1>1, <1>2, <1>3, <1>4, <3>1, NoOpType DEF Walks
    <3> QED
      BY <1>1, <2>1, <3>2 DEF Clear, Last, Records, Keeps
  <2> QED
    BY <2>2, <2>3
<1> QED
  BY <1>5, <1>6, <1>7, <1>8 DEF Sole, Queued, Dropping

LEMMA SoleDropRecord ==
    ASSUME TypeOK, Separate, Sole, DropRecord
    PROVE  Sole'
<1> StateType /\ op \in OpType /\ Placed(op) /\ Own(op)
  BY TypeParts DEF Separate
<1>1. op.at = "drop" /\ op.node \in Node /\ op.vol \in Volume /\ op.slot \in Slot
  BY DEF DropRecord, Placed, OpType
<1>2. /\ Keeps(op') /\ Carries(op') /\ op'.at \in {"dropDir", op.back, "failed"}
      /\ UNCHANGED <<ldir, tdir>>
  BY ActionWalks, ActionsCarry DEF DropRecord, Walks
<1>3. rec' \in {rec, [rec EXCEPT ![op.node] = OtherFiles(@)]}
  BY DEF DropRecord, here
<1>4. \A n \in Node : rec'[n] \subseteq rec[n]
  BY <1>1, <1>3 DEF StateType, OtherFiles
<1>5. Single' /\ Shelved'
  <2>1. op'.at \notin {"dropSession", "dropTarget"}
    BY <1>2 DEF OpType
  <2> QED
    BY <1>2, <1>4, <2>1 DEF Sole, Single, Shelved
<1>6. Queued(op')
  BY <1>1, <1>2 DEF Sole, Queued, Dropping, Drops, Keeps, Carries, OpType
<1>7. Clear'
  <2>1. ~Last(op')
    BY <1>2 DEF Last, OpType
  <2>2. CASE op.back = "cycle"
    <3>1. Records(op.node, op.vol) = {}
      BY <1>1, <2>2 DEF Sole, Clear, Bare, Drops
    <3>2. {r \in rec'[op.node] : r[1] = op.vol} = {}
      BY <1>1, <1>2, <1>4, <3>1 DEF Records
    <3> QED
      BY <1>2, <2>1, <3>2 DEF Clear, Records, Keeps
  <2>3. CASE op.back = "unstack" /\ ~op.own /\ op'.at # "failed"
    <3>1. Records(op.node, op.vol) \subseteq {<<op.vol, op.slot>>}
      BY <1>1, <2>3 DEF Sole, Clear, Last
    <3>2. op.item = op.vol
      BY <1>1, <2>3 DEF Sole, Queued, Dropping, Drops
    <3>3. <<op.vol, op.slot>> \notin rec'[op.node]
      <4> DEFINE dir == <<StoreOf[op.vol], TargetOf[op.slot]>>
      <4>1. CASE dir \in tdir[op.node]
        <5>1. ~DropFails("drop")
          BY <2>3, ErrorWalks DEF DropFails, Raised, Walks
        <5>2. rec' = [rec EXCEPT ![op.node] = OtherFiles(@)]
          BY <4>1, <5>1 DEF DropRecord, here, tgt, mine
        <5> QED
          BY <1>1, <3>2, <5>2 DEF StateType, OtherFiles, item
      <4>2. CASE dir \notin tdir[op.node]
        <5>1. <<op.vol, op.slot>> \notin rec[op.node]
          BY <1>1, <4>2 DEF Sole, Shelved
        <5> QED
          BY <1>1, <1>4, <5>1
      <4> QED
        BY <4>1, <4>2
    <3>4. {r \in rec'[op.node] : r[1] = op.vol} = {}
      BY <1>1, <1>2, <1>4, <3>1, <3>3 DEF Records
    <3> QED
      BY <1>2, <2>1, <3>4 DEF Clear, Records, Keeps
  <2>4. CASE op.back = "unstack" /\ (op.own \/ op'.at = "failed")
    <3>1. ~Bare(op')
      BY <1>2, <2>4 DEF Bare, Attempting, Drops, Dropped, Keeps, Carries, OpType
    <3> QED
      BY <2>1, <3>1 DEF Clear
  <2> QED
    BY <2>2, <2>3, <2>4 DEF OpType
<1> QED
  BY <1>5, <1>6, <1>7 DEF Sole, Queued, Dropping

LEMMA SoleDropLunDir ==
    ASSUME TypeOK, Separate, Sole, DropLunDir
    PROVE  Sole'
<1> StateType /\ op \in OpType /\ Placed(op)
  BY TypeParts
<1>1. op.at = "dropDir" /\ op.node \in Node /\ op.vol \in Volume /\ op.slot \in Slot
  BY DEF DropLunDir, Placed, OpType
<1>2. /\ Keeps(op') /\ Carries(op') /\ op'.at \in {"dropSession", op.back}
      /\ UNCHANGED <<rec, tdir>>
  BY ActionWalks, ActionsCarry DEF DropLunDir, Walks
<1>3. op'.at = "dropSession"
         => \A d \in ldir'[op.node] :
               ~(d[1] = StoreOf[op.vol] /\ TargetOf[d[2]] = TargetOf[op.slot])
  <2>1. Go(op.back) => op'.at # "dropSession"
    BY GoWalks DEF Go, Walks, OpType, Steps
  <2>2. op'.at = "dropSession" => LunDirs(ldir'[here]) = {}
    BY <2>1 DEF DropLunDir
  <2> QED
    BY <2>2 DEF LunDirs, here, mine, tgt
<1>4. Single' /\ Shelved'
  <2>1. op'.at # "dropTarget"
    BY <1>2 DEF OpType
  <2> QED
    BY <1>2, <1>3, <2>1 DEF Sole, Single, Shelved, Keeps
<1>5. Queued(op')
  BY <1>1, <1>2 DEF Sole, Queued, Dropping, Drops, Keeps, Carries, OpType
<1>6. Clear'
  <2>1. ~Last(op')
    BY <1>2 DEF Last, OpType
  <2>2. Bare(op') => Bare(op)
    BY <1>1, <1>2 DEF Bare, Attempting, Drops, Dropped, Keeps, Carries, OpType
  <2> QED
    BY <1>2, <2>1, <2>2 DEF Sole, Clear, Records, Keeps
<1> QED
  BY <1>4, <1>5, <1>6 DEF Sole, Queued, Dropping

LEMMA SoleDropTargetDir ==
    ASSUME TypeOK, Separate, Sole, DropTargetDir
    PROVE  Sole'
<1> StateType /\ op \in OpType /\ Placed(op)
  BY TypeParts
<1>1. op.at = "dropTarget" /\ op.node \in Node /\ op.vol \in Volume /\ op.slot \in Slot
  BY DEF DropTargetDir, Placed, OpType
<1>2. /\ Keeps(op') /\ Carries(op') /\ op'.at = op.back /\ UNCHANGED rec
      /\ tdir' = [tdir EXCEPT ![op.node] = @ \ {<<StoreOf[op.vol], TargetOf[op.slot]>>}]
  BY ActionWalks, ActionsCarry DEF DropTargetDir, Walks, here, mine, tgt
<1>3. Single' /\ Shelved'
  <2>1. op'.at \notin {"dropSession", "dropTarget"}
    BY <1>2 DEF OpType
  <2>2. ASSUME NEW n \in Node, NEW r \in rec[n]
        PROVE  <<StoreOf[r[1]], TargetOf[r[2]]>> \in tdir'[n]
    <3> DEFINE d == <<StoreOf[r[1]], r[2]>>
               dir == <<StoreOf[r[1]], TargetOf[r[2]]>>
    <3>1. dir \in tdir[n] /\ d \in ldir[n]
      BY DEF Sole, Shelved, Separate, Filed
    <3>2. n = op.node => ~(d[1] = StoreOf[op.vol] /\ TargetOf[d[2]] = TargetOf[op.slot])
      BY <1>1, <3>1 DEF Sole, Shelved
    <3>3. n = op.node => dir # <<StoreOf[op.vol], TargetOf[op.slot]>>
      BY <3>2
    <3> QED
      BY <1>1, <1>2, <3>1, <3>3 DEF StateType
  <2> QED
    BY <1>2, <2>1, <2>2 DEF Sole, Single, Shelved
<1>4. Queued(op')
  BY <1>1, <1>2 DEF Sole, Queued, Dropping, Drops, Keeps, Carries, OpType
<1>5. Clear'
  <2>1. ~Last(op')
    BY <1>2 DEF Last, OpType
  <2>2. Bare(op') => Bare(op)
    BY <1>1, <1>2 DEF Bare, Attempting, Drops, Dropped, Keeps, Carries, OpType
  <2> QED
    BY <1>2, <2>1, <2>2 DEF Sole, Clear, Records, Keeps
<1> QED
  BY <1>3, <1>4, <1>5 DEF Sole, Queued, Dropping

LEMMA RecordsAtMostOne ==
    ASSUME TypeOK, Single, NEW n \in Node, NEW v \in Volume
    PROVE  Cardinality(Records(n, v)) = IF Records(n, v) = {} THEN 0 ELSE 1
<1>1. CASE Records(n, v) = {}
  BY <1>1, FS_EmptySet
<1>2. CASE Records(n, v) # {}
  <2>1. PICK r : r \in Records(n, v)
    BY <1>2
  <2>2. Records(n, v) = {r}
    BY <2>1 DEF Records, Single
  <2> QED
    BY <1>2, <2>2, FS_Singleton
<1> QED
  BY <1>1, <1>2

LEMMA SoleUnstack ==
    ASSUME TypeOK, Separate, Sole, Unstack
    PROVE  Sole'
<1> StateType /\ op \in OpType /\ Placed(op)
  BY TypeParts
<1>1. op.at = "unstack" /\ op.node \in Node /\ op.vol \in Volume /\ UNCHANGED <<rec, ldir, tdir>>
  BY DEF Unstack, Placed, files
<1>2. op' \in OpType /\ op'.node = op.node /\ op'.vol = op.vol
  BY UnstackGoes
<1>3. Single' /\ Shelved'
  <2>1. op'.at \notin {"dropSession", "dropTarget"}
    BY UnstackGoes DEF OpType
  <2> QED
    BY <1>1, <2>1 DEF Sole, Single, Shelved
<1>4. ASSUME NEW r \in op.todo, op' = [ByRecord(r) EXCEPT !.todo = @ \ {r}]
      PROVE  Queued(op') /\ Clear'
  <2>1. /\ op'.at = "xStage" /\ op'.item = r[1] /\ op'.own = op.own
        /\ op'.todo = op.todo \ {r}
    BY <1>4 DEF ByRecord, OpType
  <2>2. op.own /\ r[1] \in Snap /\ Parent[r[1]] = op.vol
    BY DEF Sole, Queued
  <2> QED
    BY <1>2, <2>1, <2>2 DEF Sole, Queued, Dropping, Clear, Bare, Last, Attempting, Drops, Dropped
<1>5. ASSUME NEW r \in OwnRecord, op.todo = {}, op' = [ByRecord(r) EXCEPT !.own = FALSE]
      PROVE  Queued(op') /\ Clear'
  <2>1. /\ op'.at = "xStage" /\ op'.item = r[1] /\ op'.slot = r[2] /\ op'.own = FALSE
        /\ op'.todo = {}
    BY <1>5 DEF ByRecord, OpType
  <2>2. r \in Records(op.node, op.vol)
    BY DEF OwnRecord, here
  <2>3. r[1] = op.vol /\ r = <<op.vol, r[2]>>
    BY <1>1, <2>2 DEF Records, StateType
  <2>4. Records(op.node, op.vol) \subseteq {<<op.vol, r[2]>>}
    BY <1>1, <2>2, <2>3 DEF Sole, Single, Records
  <2>5. Last(op') => {s \in rec[op.node] : s[1] = op.vol} \subseteq {<<op.vol, op'.slot>>}
    BY <2>1, <2>4 DEF Records
  <2>6. ~Bare(op')
    BY <2>1 DEF Bare, Attempting, Drops, Dropped
  <2>7. Clear'
    BY <1>1, <1>2, <2>5, <2>6 DEF Clear, Records
  <2> QED
    BY <1>2, <2>1, <2>3, <2>7 DEF Queued
<1>6. ASSUME op.todo = {}, ~op.own \/ OwnRecord = {}, op' = Deactivated
      PROVE  Queued(op') /\ Clear'
  <2>1. op'.at = op.then /\ op'.own = FALSE /\ op'.todo = {}
    BY <1>6 DEF Deactivated, OpType
  <2>2. Records(op.node, op.vol) = {}
    <3>1. CASE ~op.own
      BY <1>1, <3>1 DEF Sole, Clear, Bare
    <3>2. CASE OwnRecord = {}
      BY <1>1, <3>2, RecordsAtMostOne DEF OwnRecord, Sole, here
    <3> QED
      BY <1>6, <3>1, <3>2
  <2>3. op.then \in {"end", "publish", "unpublish"}
    BY DEF OpType
  <2>4. Queued(op')
    BY <2>1, <2>3 DEF Queued, Dropping, Drops
  <2>5. ~Last(op')
    BY <2>1, <2>3 DEF Last
  <2> QED
    BY <1>1, <1>2, <2>2, <2>4, <2>5 DEF Clear, Records
<1>7. Queued(op') /\ Clear'
  BY <1>4, <1>5, <1>6 DEF Unstack
<1> QED
  BY <1>3, <1>7 DEF Sole, Queued, Dropping

LEMMA SoleBegin ==
    ASSUME TypeOK, Sole, NEW n \in Node, NEW v \in Volume,
           Activate(n, v) \/ Reactivate(n, v) \/ Deactivate(n, v)
    PROVE  Sole'
<1>1. PICK a \in {"publish", "unstack"}, t \in {"end", "publish", "unpublish"} :
        Begin(n, v, a, t) /\ (a = "publish" => Records(n, v) = {})
  BY DEF Activate, Reactivate, Deactivate
<1>2. /\ op'.at = a /\ op'.node = n /\ op'.vol = v
      /\ op'.own = (a = "unstack")
      /\ op'.todo = IF a = "unstack" THEN SnapRecords(n, v) ELSE {}
  BY <1>1 DEF Begin, NoOp
<1>3. UNCHANGED <<rec, ldir, tdir>>
  BY DEF Activate, Reactivate, Deactivate, files
<1>4. Single' /\ Shelved'
  BY <1>2, <1>3 DEF Sole, Single, Shelved
<1>5. Queued(op')
  BY <1>2 DEF Queued, Dropping, Drops, SnapRecords
<1>6. Clear'
  <2>1. ~Last(op') /\ (Bare(op') => a = "publish")
    BY <1>2 DEF Last, Bare, Attempting, Drops, Dropped
  <2> QED
    BY <1>1, <1>2, <1>3, <2>1 DEF Clear, Records
<1> QED
  BY <1>4, <1>5, <1>6 DEF Sole, Queued, Dropping

\* The step starts or goes on with an attempt: the volume has no record.
LEMMA SoleAttempts ==
    ASSUME Sole, UNCHANGED <<rec, ldir, tdir>>, op'.node = op.node, op'.vol = op.vol,
           op'.todo = op.todo, op'.own = op.own,
           Bare(op), ~Dropping(op'), ~Last(op') \/ op'.at = "drop",
           op'.at \notin {"dropSession", "dropTarget"}
    PROVE  Sole'
<1>1. Single' /\ Shelved'
  BY DEF Sole, Single, Shelved
<1>2. Queued(op')
  BY DEF Sole, Queued
<1>3. Clear'
  BY DEF Sole, Clear, Records
<1> QED
  BY <1>1, <1>2, <1>3 DEF Sole, Queued, Dropping

LEMMA SoleStep ==
    ASSUME TypeOK, Separate, Sole, [Next]_vars
    PROVE  Sole'
<1> StateType /\ op \in OpType /\ Placed(op) /\ Own(op)
  BY TypeParts DEF Separate
<1> USE DEF Bare, Last, Dropping, Attempting, Drops, Dropped, files
<1>1. ASSUME NEW n \in Node, NEW v \in Volume,
             Activate(n, v) \/ Reactivate(n, v) \/ Deactivate(n, v)
      PROVE  Sole'
  BY <1>1, SoleBegin
<1>2. CASE Publish
  <2>1. op.at = "publish" /\ UNCHANGED <<rec, ldir, tdir>>
    BY <1>2 DEF Publish
  <2>2. Carries(op')
    <3>1. ASSUME NEW t, op' = [Reached("published", "guard") EXCEPT !.slot = t]
          PROVE  Carries(op')
      BY <3>1 DEF Reached, Carries, OpType
    <3>2. ASSUME NEW c, op' = [Error(c, "caught") EXCEPT !.done = @ \cup {"published"}]
          PROVE  Carries(op')
      BY <3>2, StepsCarry, Zenon
    <3> QED
      BY <1>2, <3>1, <3>2 DEF Publish
  <2>3. op'.at \in {"guard", "caught"} /\ op'.node = op.node /\ op'.vol = op.vol
    BY <1>2, PublishGoes DEF Walks, Keeps
  <2> QED
    BY <2>1, <2>2, <2>3, SoleAttempts DEF Carries
<1>3. CASE Guard \/ Stage \/ Map
  <2>1. op.at \in {"guard", "stage", "map"} /\ UNCHANGED <<rec, ldir, tdir>>
    BY <1>3 DEF Guard, Stage, Map
  <2>2. Carries(op') /\ Keeps(op') /\ op'.at \in {"stage", "map", "record", "caught"}
    BY <1>3, ActionWalks, ActionsCarry DEF Walks
  <2> QED
    BY <2>1, <2>2, SoleKeeps
<1>4. CASE Record
  BY <1>4, SoleRecord
<1>5. CASE Classify
  <2>1. op.at = "caught" /\ UNCHANGED <<rec, ldir, tdir>>
    BY <1>5 DEF Classify
  <2>2. Carries(op')
    BY <1>5, ActionsCarry
  <2>3. Keeps(op') /\ op'.at \in {"failed", "cycle", "tStage"}
        /\ (op.err = "fatal" => op'.at = "failed")
    BY <1>5, GoWalks DEF Classify, Go, Walks, Steps
  <2> QED
    BY <2>1, <2>2, <2>3, SoleKeeps
<1>6. CASE NextCycle
  <2>1. op.at = "cycle" /\ UNCHANGED <<rec, ldir, tdir>>
    BY <1>6 DEF NextCycle
  <2>2. Carries(op')
    BY <1>6, StepsCarry DEF NextCycle, Go, Carries, OpType
  <2>3. op'.at \in {"publish", "failed"} /\ op'.node = op.node /\ op'.vol = op.vol
    BY <1>6, NextCycleGoes DEF Walks, Keeps
  <2> QED
    BY <2>1, <2>2, <2>3, SoleAttempts DEF Carries
<1>7. CASE TeardownStage \/ TeardownMap \/ TeardownQuery \/ TeardownDetach
  <2>1. op.at \in {"tStage", "tMap", "tQuery", "tDetach"} /\ UNCHANGED <<rec, ldir, tdir>>
    BY <1>7 DEF TeardownStage, TeardownMap, TeardownQuery, TeardownDetach
  <2>2. /\ Carries(op') /\ Keeps(op')
        /\ op'.at \in {"tMap", "tQuery", "tDetach", "tRecord", "failed"}
    BY <1>7, ActionWalks, ActionsCarry DEF Walks
  <2> QED
    BY <2>1, <2>2, SoleKeeps
<1>8. CASE TeardownRecord
  <2>1. op.at = "tRecord" /\ UNCHANGED <<rec, ldir, tdir>>
    BY <1>8 DEF TeardownRecord
  <2>2. Carries(op')
    BY <1>8 DEF TeardownRecord, Go, Carries, OpType
  <2>3. /\ op'.at = "cycle" \/ (op'.at = "drop" /\ op'.back = "cycle")
        /\ op'.node = op.node /\ op'.vol = op.vol
    BY <1>8, TeardownRecordGoes DEF Walks, Keeps
  <2> QED
    BY <2>1, <2>2, <2>3, SoleAttempts DEF Carries
<1>9. CASE DropRecord \/ DropLunDir \/ DropTargetDir
  BY <1>9, SoleDropRecord, SoleDropLunDir, SoleDropTargetDir
<1>10. CASE DropSession
  <2>1. op.at = "dropSession" /\ UNCHANGED <<rec, ldir, tdir>>
    BY <1>10 DEF DropSession
  <2>2. Carries(op') /\ Keeps(op') /\ op'.at = "dropTarget"
    BY <1>10, ActionWalks, ActionsCarry DEF Walks
  <2>3. op'.back = op.back /\ op'.own = op.own
    BY <2>2 DEF Keeps, Carries
  <2> QED
    BY <2>1, <2>2, <2>3, SoleKeeps
<1>11. CASE Unstack
  BY <1>11, SoleUnstack
<1>12. CASE UnstackDevice \/ UnstackMap
  <2>1. op.at \in {"xStage", "xMap"} /\ UNCHANGED <<rec, ldir, tdir>>
    BY <1>12 DEF UnstackDevice, UnstackMap
  <2>2. Carries(op') /\ Keeps(op') /\ op'.at \in {"xMap", "xDetach", "drop", "failed"}
    BY <1>12, ActionWalks, ActionsCarry DEF Walks
  <2>3. op'.back = "unstack" /\ op'.own = op.own
    BY <2>1, <2>2 DEF Keeps, Carries, Own
  <2> QED
    BY <2>1, <2>2, <2>3, SoleKeeps
<1>13. CASE UnstackDetach
  <2>1. op.at = "xDetach" /\ UNCHANGED <<rec, ldir, tdir>>
    BY <1>13 DEF UnstackDetach
  <2>2. Carries(op') /\ Keeps(op') /\ op'.at = "drop"
    BY <1>13, UnstackDetachGoes, ActionsCarry
  <2>3. op'.back = "unstack" /\ op'.own = op.own
    BY <2>1, <2>2 DEF Keeps, Carries, Own
  <2> QED
    BY <2>1, <2>2, <2>3, SoleKeeps
<1>14. CASE UnpublishState
  <2>1. op.at = "unpublish" /\ UNCHANGED <<rec, ldir, tdir>>
    BY <1>14 DEF UnpublishState
  <2>2. Carries(op') /\ Keeps(op') /\ op'.at \in {"end", "failed"}
    BY <1>14, ActionWalks, ActionsCarry DEF Walks
  <2> QED
    BY <2>1, <2>2, SoleKeeps
<1>15. NoOp.todo = {} /\ NoOp.at = "idle"
  BY DEF NoOp
<1>16. CASE Return \/ Crash
  BY <1>15, <1>16, SoleFree DEF Return, Crash
<1>17. CASE UNCHANGED <<rec, ldir, tdir, op>>
  <2>1. Single' /\ Shelved' /\ Queued(op') /\ Clear'
    BY <1>17 DEF Sole, Single, Shelved, Queued, Clear, Records
  <2> QED
    BY <1>17, <2>1 DEF Sole
<1>18. ASSUME NEW n \in Node, NEW v \in Volume, Accept(n, v)
       PROVE  Sole'
  BY <1>17, <1>18 DEF Accept
<1>19. ASSUME NEW n \in Node, Reboot(n)
       PROVE  Sole'
  BY <1>15, <1>17, <1>19, SoleFree DEF Reboot
<1>20. CASE UNCHANGED vars
  BY <1>17, <1>20 DEF vars
<1> QED
  BY <1>1, <1>2, <1>3, <1>4, <1>5, <1>6, <1>7, <1>8, <1>9, <1>10, <1>11, <1>12, <1>13,
     <1>14, <1>16, <1>18, <1>19, <1>20
  DEF Next, Proceed, Attempt, Teardown, Drop, Unwind

\* A node never holds a second record of a volume, for any targets, storages,
\* snapshots and faults, also when the volume has moved to another target: an
\* attempt starts without a record (_activate_volume and volume_activate after
\* volume_deactivate), and it is the only step that makes one.
THEOREM RecordsStaySingle == Spec => []OneRecord
<1>1. Init => TypeOK /\ Separate /\ Sole
  BY TypeInit, SeparateInit, SoleInit
<1>2. TypeOK /\ Separate /\ Sole /\ [Next]_vars => (TypeOK /\ Separate /\ Sole)'
  BY TypeStep, SeparateStep, SoleStep
<1>3. TypeOK /\ Separate /\ Sole => OneRecord
  BY RecordsAtMostOne DEF Sole, OneRecord
<1> QED
  BY <1>1, <1>2, <1>3, PTL DEF Spec

-----------------------------------------------------------------------------
(* What an activated volume keeps.                                         *)

\* Beyond this the volume may lose its device.  The array gives a free LUN number
\* to another volume, and the nodes go by the number: a record that outlives its
\* device, or a device its volume, points at whatever volume comes there next.
\* So do the records of a node that rebooted, of snapshots (their unpublish asks
\* for no sessions) and of state volumes, and the devices a teardown fails to
\* delete; and with multipath a dead map is taken for its volume.
Lone == /\ Plain /\ Snap = {} /\ ~Multipath
        /\ <<"reboot", "fail">> \notin Faults
        /\ Raised("tStage") \subseteq {"fatal"}

\* No LUN number is given twice.
Distinct == \A v, w \in Volume : lun[v] # None /\ lun[v] = lun[w] => v = w

\* An activated volume has its record and its device.
Held == \A n \in Node : \A v \in active[n] :
            \E s \in Slot : <<v, s>> \in rec[n] /\ <<v, s>> \in seen[n]

\* A device or a record belongs to a session ...
InSession == \A n \in Node : \A d \in seen[n] \cup rec[n] : TargetOf[d[2]] \in session[n]

\* ... and to the volume that is attached there.
Shown == \A n \in Node : \A d \in seen[n] \cup rec[n] : lun[d[1]] = d[2]

\* No operation works on an activated volume; a record is made for a device, and
\* leads a deactivation to that device.
Ours == /\ op.at # "idle" => op.vol \notin active[op.node]
        /\ op.at # "map"
        /\ op.at = "record" => <<op.item, op.slot>> \in seen[op.node]
        /\ op.at = "xStage" => op.item = op.vol /\ lun[op.item] = op.slot

\* A teardown that may detach the volume has deleted its device.
Undone == /\ op.at \in {"record", "caught", "tStage"} /\ op.slot # None
                => "iscsi" \in op.done
          /\ op.at \in {"tMap", "tQuery", "tDetach"} /\ op.slot # None
                => \A d \in seen[op.node] : d[2] # op.slot

Live == Distinct /\ Held /\ InSession /\ Shown /\ Ours /\ Undone

LEMMA LiveInit == Init => Live
  BY NoOpType DEF Init, Live, Distinct, Held, InSession, Shown, Ours, Undone

\* What the steps on the operation alone do to the invariant.
LEMMA LiveKeeps ==
    ASSUME Live, UNCHANGED <<lun, session, seen, rec, active>>, Ours', Undone'
    PROVE  Live'
  BY DEF Live, Distinct, Held, InSession, Shown

\* At these steps the invariant says nothing of the operation but its volume.
LEMMA OursFree ==
    ASSUME Live, UNCHANGED active,
           op'.at = "idle" \/ (op.at # "idle" /\ op'.node = op.node /\ op'.vol = op.vol),
           op'.at \notin {"map", "record", "xStage", "caught", "tStage", "tMap", "tQuery",
                          "tDetach"}
    PROVE  Ours' /\ Undone'
  BY DEF Live, Ours, Undone

\* Every operation works on its volume.
LEMMA WorksOn ==
    ASSUME Snap = {}, TypeOK, Separate, Sole,
           \/ op.at \in {"publish", "guard", "stage", "record", "tStage", "tDetach"}
           \/ op.at \in Drops \/ op.at \in {"xStage", "xMap", "xDetach"}
    PROVE  op.item = op.vol
<1>1. Own(op) /\ Queued(op)
  BY DEF Separate, Sole
<1>2. CASE Dropping(op)
  BY <1>1, <1>2 DEF Queued
<1>3. CASE ~Dropping(op)
  BY <1>1, <1>3 DEF Own, Dropping, Drops, TypeOK
<1> QED
  BY <1>2, <1>3

\* A logout takes the devices of a target on which the node has no records.
LEMMA LiveLogout ==
    ASSUME TypeOK, Live, NEW n \in Node, NEW t, LoggedOut(n, t),
           \A r \in rec[n] : TargetOf[r[2]] # t,
           UNCHANGED <<lun, active, rec>>
    PROVE  Distinct' /\ Held' /\ InSession' /\ Shown'
<1>1. /\ \A m \in Node : seen'[m] \subseteq seen[m]
      /\ \A m \in Node \ {n} : seen'[m] = seen[m] /\ session'[m] = session[m]
      /\ \A d \in seen[n] : TargetOf[d[2]] # t => d \in seen'[n]
      /\ \/ session' = session
         \/ session'[n] = session[n] \ {t} /\ \A d \in seen'[n] : TargetOf[d[2]] # t
  BY DEF LoggedOut, TypeOK
<1>2. Held'
  <2> SUFFICES ASSUME NEW m \in Node, NEW v \in active[m]
               PROVE  \E s \in Slot : <<v, s>> \in rec[m] /\ <<v, s>> \in seen'[m]
    BY DEF Held
  <2>1. PICK s \in Slot : <<v, s>> \in rec[m] /\ <<v, s>> \in seen[m]
    BY DEF Live, Held
  <2>2. m = n => TargetOf[s] # t
    BY <2>1
  <2>3. <<v, s>> \in seen'[m]
    BY <1>1, <2>1, <2>2
  <2> QED
    BY <2>1, <2>3
<1>3. InSession'
  <2> SUFFICES ASSUME NEW m \in Node, NEW d \in seen'[m] \cup rec[m]
               PROVE  TargetOf[d[2]] \in session'[m]
    BY DEF InSession
  <2>1. TargetOf[d[2]] \in session[m]
    BY <1>1 DEF Live, InSession
  <2> QED
    BY <1>1, <2>1
<1>4. Distinct' /\ Shown'
  BY <1>1 DEF Live, Distinct, Shown
<1> QED
  BY <1>2, <1>3, <1>4

\* A login shows what is attached, in the places that are free.
LEMMA LiveLogin ==
    ASSUME TypeOK, Live, NEW n \in Node, NEW t \in Target, LoggedIn(n, t), UNCHANGED <<lun, rec>>
    PROVE  /\ Distinct' /\ InSession' /\ Shown'
           /\ \A m \in Node : seen[m] \subseteq seen'[m]
<1>1. session' = [session EXCEPT ![n] = @ \cup {t}]
  BY DEF LoggedIn
<1>2. {d \in seen[n] : \E a \in Presented(t) : a[2] = d[2] /\ a # d} = {}
  <2> SUFFICES ASSUME NEW d \in seen[n], NEW w \in Volume, lun[w] # None, lun[w] = d[2],
                      <<w, lun[w]>> # d
               PROVE  FALSE
    BY DEF Presented
  <2>1. d[1] \in Volume /\ d = <<d[1], d[2]>> /\ lun[d[1]] = d[2]
    BY DEF TypeOK, Live, Shown
  <2> QED
    BY <2>1 DEF Live, Distinct
<1>3. PICK more \in SUBSET Presented(t) : seen' = [seen EXCEPT ![n] = @ \cup more]
  <2>1. PICK stale \in SUBSET {d \in seen[n] : \E a \in Presented(t) : a[2] = d[2] /\ a # d} :
          LET kept == seen[n] \ stale
          IN  seen' = [seen EXCEPT ![n] =
                  kept \cup {a \in Presented(t) : \A d \in kept : d[2] # a[2]}]
    BY Zenon DEF LoggedIn
  <2> DEFINE k == seen[n] \ stale
             m == {a \in Presented(t) : \A d \in k : d[2] # a[2]}
  <2>2. k = seen[n] /\ m \in SUBSET Presented(t) /\ seen' = [seen EXCEPT ![n] = k \cup m]
    BY <1>2, <2>1
  <2> HIDE DEF k, m
  <2> QED
    BY <2>2
<1>4. \A d \in more : d[1] \in Volume /\ lun[d[1]] = d[2] /\ TargetOf[d[2]] = t
  BY DEF Presented
<1>5. /\ \A m \in Node : seen[m] \subseteq seen'[m] /\ session[m] \subseteq session'[m]
      /\ t \in session'[n]
      /\ \A m \in Node : \A d \in seen'[m] : d \in seen[m] \/ (m = n /\ d \in more)
  BY <1>1, <1>3 DEF TypeOK
<1>6. InSession'
  <2> SUFFICES ASSUME NEW m \in Node, NEW d \in seen'[m] \cup rec[m]
               PROVE  TargetOf[d[2]] \in session'[m]
    BY DEF InSession
  <2>1. CASE d \in seen[m] \cup rec[m]
    BY <1>5, <2>1 DEF Live, InSession
  <2>2. CASE m = n /\ d \in more
    BY <1>4, <1>5, <2>2
  <2> QED
    BY <1>5, <2>1, <2>2
<1>7. Distinct' /\ Shown'
  BY <1>4, <1>5 DEF Live, Distinct, Shown
<1> QED
  BY <1>5, <1>6, <1>7

\* The device at the LUN number of the volume goes: it is the volume's own.
LEMMA LiveUnshown ==
    ASSUME TypeOK, Live, op.at \in {"tStage", "xStage"}, op.item = op.vol,
           lun[op.item] = op.slot, DeviceDeleted,
           UNCHANGED <<session, lun, rec, active>>
    PROVE  Distinct' /\ Held' /\ InSession' /\ Shown'
<1>1. op.node \in Node /\ op.item \in Volume /\ op.item \notin active[op.node]
  BY DEF TypeOK, Live, Ours
<1>2. /\ \A m \in Node : seen'[m] \subseteq seen[m]
      /\ \A m \in Node : \A d \in seen[m] : d \in seen'[m] \/ (m = op.node /\ d[2] = op.slot)
  BY <1>1 DEF TypeOK, DeviceDeleted, here
<1>3. Held'
  <2> SUFFICES ASSUME NEW m \in Node, NEW v \in active[m]
               PROVE  \E s \in Slot : <<v, s>> \in rec[m] /\ <<v, s>> \in seen'[m]
    BY DEF Held
  <2>1. PICK s \in Slot : <<v, s>> \in rec[m] /\ <<v, s>> \in seen[m]
    BY DEF Live, Held
  <2>2. lun[v] = s /\ s # None /\ v \in Volume
    BY <2>1, ActivationAssumption DEF Live, Shown, TypeOK
  <2>3. m = op.node => s # op.slot
    BY <1>1, <2>2 DEF Live, Distinct
  <2> QED
    BY <1>2, <2>1, <2>3
<1>4. Distinct' /\ InSession' /\ Shown'
  BY <1>2 DEF Live, Distinct, InSession, Shown
<1> QED
  BY <1>3, <1>4

\* Only the step of the login and the steps after it set done-flags.
LEMMA Marks ==
    ASSUME op \in OpType
    PROVE  /\ Stage => "iscsi" \in op'.done
           /\ Classify => op'.done = op.done
           /\ Record => op' = NoOp \/ op'.done = op.done
<1>1. Stage => "iscsi" \in op'.done
  <2>1. \A a : "iscsi" \in Reached("iscsi", a).done
    BY DEF Reached, OpType
  <2>2. ASSUME NEW c, StageFails(c) PROVE "iscsi" \in op'.done
    <3>1. \A a : Error(c, a).done = op.done
      BY DEF Error, OpType
    <3>2. \A a : [Error(c, a) EXCEPT !.done = @ \cup {"iscsi"}].done = Error(c, a).done \cup {"iscsi"}
      BY DEF Error, OpType
    <3> QED
      BY <2>2, <3>2 DEF StageFails
  <2> QED
    BY <2>1, <2>2 DEF Stage
<1>2. Classify => op'.done = op.done
  BY DEF Classify, Go, OpType
<1>3. Record => op' = NoOp \/ op'.done = op.done
  BY DEF Record, Error, OpType
<1> QED
  BY <1>1, <1>2, <1>3

LEMMA LiveStep ==
    ASSUME Lone, TypeOK, Separate, Sole, Spares, Live, [Next]_vars
    PROVE  Live'
<1> StateType /\ op \in OpType /\ Placed(op) /\ Plain /\ Snap = {}
  BY TypeParts DEF Lone
<1> /\ Distinct /\ Held /\ InSession /\ Shown /\ Ours /\ Undone
    /\ Attached /\ Gated /\ Own(op) /\ Filed /\ Shelved /\ Clear
  BY DEF Live, Spares, Separate, Sole
<1>1. ASSUME NEW n \in Node, NEW v \in Volume,
             Activate(n, v) \/ Reactivate(n, v) \/ Deactivate(n, v)
      PROVE  Live'
  <2>1. op'.at \in {"publish", "unstack"} /\ op'.node = n /\ op'.vol = v
    BY <1>1, BeginGoes DEF Activate, Reactivate, Deactivate
  <2>2. /\ UNCHANGED <<lun, session, seen, rec>>
        /\ active' \in [Node -> SUBSET Volume] /\ \A m \in Node : active'[m] \subseteq active[m]
    BY <1>1 DEF Activate, Reactivate, Deactivate, NoLongerActive, array, kernel, files, StateType
  <2>3. v \notin active'[n]
    <3>1. CASE Activate(n, v)
      <4>1. \A t \in Slot : <<v, t>> \notin rec[n]
        BY <3>1 DEF Activate, Records
      <4>2. v \notin active[n]
        BY <4>1 DEF Held
      <4> QED
        BY <2>2, <4>2
    <3>2. CASE Reactivate(n, v) \/ Deactivate(n, v)
      BY <3>2 DEF Reactivate, Deactivate, NoLongerActive, StateType
    <3> QED
      BY <1>1, <3>1, <3>2
  <2>4. Distinct' /\ Held' /\ InSession' /\ Shown'
    BY <2>2 DEF Distinct, Held, InSession, Shown
  <2> QED
    BY <2>1, <2>3, <2>4 DEF Live, Ours, Undone
<1>2. CASE Publish
  <2>1. op.at = "publish" /\ op.item \in Volume /\ UNCHANGED <<session, seen, rec, active>>
    BY <1>2 DEF Publish, Placed, kernel, files
  <2>2. PICK s \in Offered(op.item) : lun' \in {lun, [lun EXCEPT ![op.item] = s]}
    BY <1>2 DEF Publish, item
  <2>3. \A v \in Volume : lun[v] # None => lun'[v] = lun[v]
    BY <2>1, <2>2 DEF Offered, StateType
  <2>4. Distinct'
    <3>1. \A v \in Volume : v # op.item => lun'[v] = lun[v] /\ (lun'[op.item] # None => lun'[op.item] # lun[v])
      BY <2>1, <2>2 DEF Offered, StateType, Distinct
    <3> QED
      BY <2>1, <3>1 DEF Distinct
  <2>5. Shown'
    <3> SUFFICES ASSUME NEW n \in Node, NEW d \in seen[n] \cup rec[n]
                 PROVE  lun'[d[1]] = d[2]
      BY <2>1 DEF Shown
    <3>1. d[1] \in Volume /\ d[2] \in Slot /\ lun[d[1]] = d[2]
      BY DEF StateType, Shown
    <3> QED
      BY <2>3, <3>1, ActivationAssumption
  <2>6. Held' /\ InSession'
    BY <2>1 DEF Held, InSession
  <2>7. /\ op'.node = op.node /\ op'.vol = op.vol /\ op'.at \in {"caught", "guard"}
        /\ op'.at = "caught" => op'.slot = None
    BY <1>2, <2>1, PublishGoes DEF Walks, Keeps, Attached
  <2>8. Ours' /\ Undone'
    BY <2>1, <2>7 DEF Ours, Undone
  <2> QED
    BY <2>4, <2>5, <2>6, <2>8 DEF Live
<1>3. CASE Guard
  <2>1. op.at = "guard" /\ UNCHANGED <<lun, session, seen, rec, active>> /\ Go("stage")
    BY <1>3, NothingForeign DEF Guard, kernel, files
  <2>2. op'.at = "stage" /\ op'.node = op.node /\ op'.vol = op.vol
    BY <2>1, GoWalks DEF Go, Walks, Keeps, Steps
  <2> QED
    BY <2>1, <2>2, OursFree, LiveKeeps
<1>4. CASE Stage
  <2>1. /\ op.at = "stage" /\ op.node \in Node /\ op.slot \in Slot /\ op.item \in Volume
        /\ lun[op.item] = op.slot /\ TargetOf[op.slot] \in Target
        /\ UNCHANGED <<lun, rec, active>>
    BY <1>4, ActivationAssumption DEF Stage, Placed, OpType, Attached, array, files
  <2>2. Keeps(op') /\ op'.at \in {"map", "record", "caught"} /\ "iscsi" \in op'.done
    BY <1>4, ActionWalks, Marks DEF Walks
  <2>3. LoggedIn(op.node, TargetOf[op.slot]) \/ UNCHANGED <<session, seen>>
    BY <1>4 DEF Stage, here, tgt
  <2>4. /\ op'.at # "map"
        /\ op'.at = "record" => \E s \in Slot : <<op.item, s>> \in seen'[op.node]
    <3>1. ASSUME NEW c \in Classes, StageFails(c) PROVE op'.at = "caught"
      BY <3>1, DiesWalks DEF StageFails, Walks
    <3>2. Reached("iscsi", "record").at = "record"
      BY DEF Reached, OpType
    <3> QED
      BY <1>4, <3>1, <3>2 DEF Stage, Lone, here, item, Raised, Classes
  <2>5. Distinct' /\ InSession' /\ Shown' /\ \A m \in Node : seen[m] \subseteq seen'[m]
    <3>1. CASE LoggedIn(op.node, TargetOf[op.slot])
      BY <2>1, <3>1, LiveLogin
    <3>2. CASE UNCHANGED <<session, seen>>
      BY <2>1, <3>2 DEF Distinct, InSession, Shown
    <3> QED
      BY <2>3, <3>1, <3>2
  <2>6. Held'
    BY <2>1, <2>5 DEF Held
  <2>7. op'.at = "record" => <<op.item, op.slot>> \in seen'[op.node]
    <3> SUFFICES ASSUME NEW s \in Slot, <<op.item, s>> \in seen'[op.node]
                 PROVE  s = op.slot
      BY <2>4
    <3>1. lun'[op.item] = s
      BY <2>1, <2>5 DEF Shown
    <3> QED
      BY <2>1, <3>1
  <2>8. Ours' /\ Undone'
    BY <2>1, <2>2, <2>4, <2>7 DEF Ours, Undone, Keeps
  <2> QED
    BY <2>5, <2>6, <2>8 DEF Live
<1>5. CASE Map
  BY <1>5 DEF Map, Ours
<1>6. CASE Record
  <2>1. /\ op.at = "record" /\ op.node \in Node /\ op.slot \in Slot /\ op.item \in Volume
        /\ op.item = op.vol /\ lun[op.item] = op.slot /\ <<op.item, op.slot>> \in seen[op.node]
        /\ op.item \notin active[op.node] /\ UNCHANGED <<lun, session, seen>>
    BY <1>6 DEF Record, Placed, OpType, Attached, Own, Ours, array, kernel
  <2> DEFINE r == <<op.item, op.slot>>
  <2>2. /\ \A m \in Node : \A d \in rec[m] : d \in rec'[m] \/ (m = op.node /\ d[1] = op.item)
        /\ \A m \in Node : \A d \in rec'[m] : d \in rec[m] \/ (m = op.node /\ d = r)
    BY <1>6, <2>1 DEF Record, StateType, OtherFiles, File, here, item
  <2>3. \/ active' = active /\ (op' = NoOp \/ Walks(op', {"caught"}))
        \/ /\ active' = [active EXCEPT ![op.node] = @ \cup {op.item}]
           /\ r \in rec'[op.node] /\ op' = NoOp
    BY <1>6, <2>1, RecordGoes DEF Record, StateType, here, item
  <2>4. Held'
    <3> SUFFICES ASSUME NEW m \in Node, NEW v \in active'[m]
                 PROVE  \E s \in Slot : <<v, s>> \in rec'[m] /\ <<v, s>> \in seen[m]
      BY <2>1 DEF Held
    <3>1. CASE m = op.node /\ v = op.item
      BY <2>1, <2>3, <3>1
    <3>2. CASE ~(m = op.node /\ v = op.item)
      <4>1. v \in active[m]
        BY <2>1, <2>3, <3>2 DEF StateType
      <4>2. PICK s \in Slot : <<v, s>> \in rec[m] /\ <<v, s>> \in seen[m]
        BY <4>1 DEF Held
      <4> QED
        BY <2>2, <3>2, <4>2
    <3> QED
      BY <3>1, <3>2
  <2>5. Distinct' /\ InSession' /\ Shown'
    <3> SUFFICES ASSUME NEW m \in Node, NEW d \in seen[m] \cup rec'[m]
                 PROVE  TargetOf[d[2]] \in session[m] /\ lun[d[1]] = d[2]
      BY <2>1 DEF Distinct, InSession, Shown
    <3>1. d \in seen[m] \cup rec[m] \/ (m = op.node /\ d = r)
      BY <2>2
    <3>2. d \in seen[m] \cup rec[m]
      BY <2>1, <3>1
    <3> QED
      BY <3>2 DEF InSession, Shown
  <2>6. Ours' /\ Undone'
    <3>1. op'.at \in {"idle", "caught"}
      BY <2>3, NoOpType DEF Walks
    <3>2. op'.at = "caught" => active' = active /\ Keeps(op') /\ op'.done = op.done
      BY <1>6, <2>3, Marks, NoOpType DEF Walks
    <3> QED
      BY <2>1, <3>1, <3>2 DEF Ours, Undone, Keeps
  <2> QED
    BY <2>4, <2>5, <2>6 DEF Live
<1>7. CASE Classify
  <2>1. /\ op.at = "caught" /\ UNCHANGED <<lun, session, seen, rec, active>>
        /\ Keeps(op') /\ op'.at \in {"failed", "cycle", "tStage"} /\ op'.done = op.done
    BY <1>7, GoWalks, Marks DEF Classify, Go, Walks, Steps, array, kernel, files
  <2>2. Ours' /\ Undone'
    BY <2>1 DEF Ours, Undone, Keeps
  <2> QED
    BY <2>1, <2>2, LiveKeeps
<1>8. CASE NextCycle \/ TeardownRecord \/ UnstackMap \/ DropLunDir \/ DropTargetDir
            \/ Return \/ Crash
  <2>1. UNCHANGED <<lun, session, seen, rec, active>>
    BY <1>8 DEF NextCycle, TeardownRecord, UnstackMap, DropLunDir, DropTargetDir, Return, Crash,
       array, kernel, files
  <2>2. \/ op'.at = "idle"
        \/ /\ op.at # "idle" /\ op'.node = op.node /\ op'.vol = op.vol
           /\ op'.at \in {"publish", "failed", "cycle", "drop", "xDetach", "dropSession", op.back}
    BY <1>8, NextCycleGoes, TeardownRecordGoes, ActionWalks, NoOpType
    DEF NextCycle, TeardownRecord, UnstackMap, DropLunDir, DropTargetDir, Return, Crash, Walks, Keeps
  <2>3. op.back \in {"cycle", "unstack"}
    BY DEF OpType
  <2> QED
    BY <2>1, <2>2, <2>3, OursFree, LiveKeeps
<1>9. CASE TeardownStage
  <2>1. /\ op.at = "tStage" /\ op.item = op.vol /\ UNCHANGED <<session, lun, rec, active>>
        /\ op.slot # None => lun[op.item] = op.slot /\ "iscsi" \in op.done
        /\ op.node \in Node
    BY <1>9, WorksOn DEF TeardownStage, Attached, Undone, Placed, array, files
  <2>2. Keeps(op') /\ op'.at \in {"tMap", "failed"}
    BY <1>9, ActionWalks DEF Walks
  <2>3. CASE DeviceDeleted /\ "iscsi" \in op.done /\ op.slot # None
    <3>1. Distinct' /\ Held' /\ InSession' /\ Shown'
      BY <2>1, <2>3, LiveUnshown
    <3>2. \A d \in seen'[op.node] : d[2] # op.slot
      BY <2>1, <2>3 DEF DeviceDeleted, here, StateType
    <3>3. Ours' /\ Undone'
      BY <2>1, <2>2, <3>2 DEF Ours, Undone, Keeps
    <3> QED
      BY <3>1, <3>3 DEF Live
  <2>4. CASE op.slot = None /\ op'.at = "tMap"
    <3>1. \A m \in Node : seen'[m] = seen[m]
      <4>1. seen' = seen \/ DeviceDeleted
        BY <1>9 DEF TeardownStage
      <4>2. \A d \in seen[op.node] : d[2] # None
        BY <2>1, ActivationAssumption DEF StateType
      <4>3. {d \in seen[op.node] : d[2] # op.slot} = seen[op.node]
        BY <2>4, <4>2
      <4> QED
        BY <2>1, <4>1, <4>3 DEF DeviceDeleted, here, StateType
    <3>2. Distinct' /\ Held' /\ InSession' /\ Shown'
      BY <2>1, <3>1 DEF Distinct, Held, InSession, Shown
    <3>3. Ours' /\ Undone'
      BY <2>1, <2>2, <2>4 DEF Ours, Undone, Keeps
    <3> QED
      BY <3>2, <3>3 DEF Live
  <2>5. CASE UNCHANGED seen /\ op'.at = "failed"
    BY <2>1, <2>2, <2>5, OursFree, LiveKeeps DEF Keeps
  <2>6. \/ DeviceDeleted /\ "iscsi" \in op.done
        \/ "iscsi" \notin op.done /\ Go("tMap")
        \/ UNCHANGED seen /\ op'.at = "failed"
    <3>1. \A c \in Raised("tStage") : c = "fatal" /\ Absorbed(c, "tMap").at = "failed"
      BY ErrorWalks DEF Lone, Absorbed, Walks, Classes
    <3> QED
      BY <1>9, <3>1 DEF TeardownStage
  <2>7. op'.at = "failed" => UNCHANGED seen
    <3>1. Go("tMap") => op'.at # "failed"
      BY GoWalks DEF Go, Walks, Steps
    <3> QED
      BY <1>9, <3>1 DEF TeardownStage
  <2> QED
    BY <2>1, <2>2, <2>3, <2>4, <2>5, <2>6, <2>7
<1>10. CASE TeardownMap \/ TeardownQuery
  <2>1. /\ op.at \in {"tMap", "tQuery"} /\ UNCHANGED <<lun, session, seen, rec, active>>
        /\ Keeps(op') /\ op'.at \in {"tQuery", "tDetach", "tRecord", "failed"}
    BY <1>10, ActionWalks DEF TeardownMap, TeardownQuery, Walks, array, kernel, files
  <2>2. Ours' /\ Undone'
    BY <2>1 DEF Ours, Undone, Keeps
  <2> QED
    BY <2>1, <2>2, LiveKeeps
<1>11. CASE TeardownDetach
  <2>1. /\ op.at = "tDetach" /\ op.item = op.vol /\ op.item \in Volume /\ op.node \in Node
        /\ UNCHANGED <<session, seen, rec, active>>
        /\ op.slot # None /\ lun[op.item] = op.slot
        /\ \A n \in Node \ {op.node} : TargetOf[op.slot] \notin session[n]
        /\ \A d \in seen[op.node] : d[2] # op.slot
        /\ Records(op.node, op.vol) = {}
    BY <1>11 DEF TeardownDetach, Placed, Own, Gated, Attached, Undone, Clear, Bare, Attempting,
       kernel, files
  <2>2. lun' \in {lun, [lun EXCEPT ![op.item] = None]}
    BY <1>11 DEF TeardownDetach, Unpublished, item
  <2>3. Shown'
    <3> SUFFICES ASSUME NEW n \in Node, NEW d \in seen[n] \cup rec[n]
                 PROVE  lun'[d[1]] = d[2]
      BY <2>1 DEF Shown
    <3>1. d[1] \in Volume /\ lun[d[1]] = d[2] /\ TargetOf[d[2]] \in session[n]
      BY DEF StateType, Shown, InSession
    <3>2. d[1] # op.item
      <4> SUFFICES ASSUME d[1] = op.item PROVE FALSE
        OBVIOUS
      <4>1. n = op.node
        BY <2>1, <3>1
      <4> QED
        BY <2>1, <3>1, <4>1 DEF Records
    <3> QED
      BY <2>1, <2>2, <3>1, <3>2 DEF StateType
  <2>4. Distinct' /\ Held' /\ InSession'
    BY <2>1, <2>2 DEF Distinct, Held, InSession, StateType
  <2>5. Ours' /\ Undone'
    <3>1. Keeps(op') /\ op'.at \in {"tRecord", "failed"}
      BY <1>11, ActionWalks DEF Walks
    <3> QED
      BY <2>1, <3>1, OursFree DEF Keeps
  <2> QED
    BY <2>3, <2>4, <2>5 DEF Live
<1>12. ~UnstackDetach /\ ~UnpublishState
  BY DEF UnstackDetach, UnpublishState, Gated
<1>13. CASE DropRecord
  <2>1. /\ op.at = "drop" /\ op.node \in Node /\ op.vol \in Volume /\ op.slot \in Slot
        /\ op.item = op.vol /\ op.item \notin active[op.node] /\ UNCHANGED <<lun, active>>
    BY <1>13, WorksOn DEF DropRecord, Placed, OpType, array, Drops, Ours
  <2>2. Ours' /\ Undone'
    <3>1. Keeps(op') /\ op'.at \in {"dropDir", op.back, "failed"}
      BY <1>13, ActionWalks DEF Walks
    <3> QED
      BY <2>1, <3>1, OursFree DEF Keeps, OpType
  <2>3. CASE UNCHANGED <<session, seen, rec>>
    BY <2>1, <2>2, <2>3, LiveKeeps
  <2>4. CASE UNCHANGED <<session, seen>> /\ rec' = [rec EXCEPT ![op.node] = OtherFiles(@)]
    <3>1. /\ \A m \in Node : rec'[m] \subseteq rec[m]
          /\ \A m \in Node : \A d \in rec[m] : d \in rec'[m] \/ (m = op.node /\ d[1] = op.item)
      BY <2>1, <2>4 DEF StateType, OtherFiles, File, item
    <3>2. Held'
      <4> SUFFICES ASSUME NEW m \in Node, NEW v \in active[m]
                   PROVE  \E s \in Slot : <<v, s>> \in rec'[m] /\ <<v, s>> \in seen[m]
        BY <2>1, <2>4 DEF Held
      <4>1. PICK s \in Slot : <<v, s>> \in rec[m] /\ <<v, s>> \in seen[m]
        BY DEF Held
      <4> QED
        BY <2>1, <3>1, <4>1
    <3>3. Distinct' /\ InSession' /\ Shown'
      BY <2>1, <2>4, <3>1 DEF Distinct, InSession, Shown
    <3> QED
      BY <2>2, <3>2, <3>3 DEF Live
  <2> DEFINE dir == <<StoreOf[op.vol], TargetOf[op.slot]>>
  <2>5. CASE dir \notin tdir[op.node] /\ rec' = rec /\ LoggedOut(op.node, TargetOf[op.slot])
    <3>1. \A r \in rec[op.node] : TargetOf[r[2]] # TargetOf[op.slot]
      <4> SUFFICES ASSUME NEW r \in rec[op.node], TargetOf[r[2]] = TargetOf[op.slot]
                   PROVE  FALSE
        OBVIOUS
      <4>1. StoreOf[r[1]] = StoreOf[op.vol]
        BY <2>1, ActivationAssumption DEF StateType, Plain
      <4> QED
        BY <2>1, <2>5, <4>1 DEF Shelved
    <3> QED
      BY <2>1, <2>2, <2>5, <3>1, LiveLogout DEF Live
  <2> QED
    BY <1>13, <2>1, <2>3, <2>4, <2>5, NothingForeign DEF DropRecord, ResidualLogout, here, tgt, mine
<1>14. CASE DropSession
  <2>1. /\ op.at = "dropSession" /\ op.node \in Node /\ op.vol \in Volume /\ op.slot \in Slot
        /\ UNCHANGED <<lun, active, rec>>
        /\ LoggedOut(op.node, TargetOf[op.slot])
    BY <1>14, NothingForeign DEF DropSession, Placed, OpType, array, files, ResidualLogout, here, tgt
  <2>2. \A r \in rec[op.node] : TargetOf[r[2]] # TargetOf[op.slot]
    <3> SUFFICES ASSUME NEW r \in rec[op.node], TargetOf[r[2]] = TargetOf[op.slot] PROVE FALSE
      OBVIOUS
    <3> DEFINE d == <<StoreOf[r[1]], r[2]>>
    <3>1. d \in ldir[op.node] /\ StoreOf[r[1]] = StoreOf[op.vol]
      BY <2>1, ActivationAssumption DEF StateType, Filed, Plain
    <3> QED
      BY <2>1, <3>1 DEF Shelved
  <2>3. Ours' /\ Undone'
    <3>1. Keeps(op') /\ op'.at = "dropTarget"
      BY <1>14, ActionWalks DEF Walks
    <3> QED
      BY <2>1, <3>1, OursFree DEF Keeps
  <2> QED
    BY <2>1, <2>2, <2>3, LiveLogout DEF Live
<1>15. CASE Unstack
  <2>1. op.at = "unstack" /\ op.node \in Node /\ UNCHANGED <<lun, session, seen, rec, active>>
    BY <1>15 DEF Unstack, Placed, array, kernel, files
  <2>2. op.todo = {}
    BY DEF Sole, Queued
  <2>3. op'.node = op.node /\ op'.vol = op.vol /\ op'.at \in {"xStage", "end", "publish"}
    BY <1>15, UnstackGoes DEF OpType, Gated
  <2>4. op'.at = "xStage" => op'.item = op.vol /\ lun[op'.item] = op'.slot
    <3>1. ASSUME NEW r \in OwnRecord, op' = [ByRecord(r) EXCEPT !.own = FALSE]
          PROVE  op'.item = op.vol /\ lun[op'.item] = op'.slot
      <4>1. r \in rec[op.node] /\ r[1] = op.vol
        BY DEF OwnRecord, Records, here
      <4>2. op'.item = r[1] /\ op'.slot = r[2]
        BY <3>1 DEF ByRecord, OpType
      <4> QED
        BY <2>1, <4>1, <4>2 DEF Shown
    <3>2. op' = Deactivated => op'.at # "xStage"
      BY DEF Deactivated, OpType
    <3> QED
      BY <1>15, <2>2, <3>1, <3>2 DEF Unstack
  <2>5. Ours' /\ Undone'
    BY <2>1, <2>3, <2>4 DEF Ours, Undone
  <2> QED
    BY <2>1, <2>5, LiveKeeps
<1>16. CASE UnstackDevice
  <2>1. /\ op.at = "xStage" /\ op.item = op.vol /\ lun[op.item] = op.slot
        /\ UNCHANGED <<session, lun, rec, active>> /\ (DeviceDeleted \/ UNCHANGED seen)
    BY <1>16 DEF UnstackDevice, Ours, array, files
  <2>2. Ours' /\ Undone'
    <3>1. Keeps(op') /\ op'.at \in {"xMap", "failed"}
      BY <1>16, ActionWalks DEF Walks
    <3> QED
      BY <2>1, <3>1, OursFree DEF Keeps
  <2> QED
    BY <2>1, <2>2, LiveUnshown, LiveKeeps DEF Live
<1>17. ASSUME NEW n \in Node, NEW v \in Volume, Accept(n, v)
       PROVE  Live'
  <2>1. PICK r \in rec[n] :
          /\ Records(n, v) = {r}
          /\ UNCHANGED <<session, seen>> \/ LoggedIn(n, TargetOf[r[2]])
    BY <1>17 DEF Accept
  <2>2. UNCHANGED <<lun, rec, op>> /\ active' = [active EXCEPT ![n] = @ \cup {v}] /\ op.at = "idle"
    BY <1>17 DEF Accept, array
  <2>3. r[2] \in Slot /\ TargetOf[r[2]] \in Target /\ r = <<v, r[2]>> /\ lun[v] = r[2]
    BY <2>1, ActivationAssumption DEF Records, StateType, Shown
  <2>4. r \in seen[n]
    <3>1. PICK s \in Slot : <<v, s>> \in seen[n]
      BY <1>17 DEF Accept, DevicePresent, HasDevice, Lone
    <3> QED
      BY <2>3, <3>1 DEF Shown
  <2>5. Distinct' /\ InSession' /\ Shown' /\ \A m \in Node : seen[m] \subseteq seen'[m]
    <3>1. CASE UNCHANGED <<session, seen>>
      BY <2>2, <3>1 DEF Distinct, InSession, Shown
    <3>2. CASE LoggedIn(n, TargetOf[r[2]])
      BY <2>2, <2>3, <3>2, LiveLogin
    <3> QED
      BY <2>1, <3>1, <3>2
  <2>6. Held'
    <3> SUFFICES ASSUME NEW m \in Node, NEW w \in active'[m]
                 PROVE  \E s \in Slot : <<w, s>> \in rec[m] /\ <<w, s>> \in seen'[m]
      BY <2>2 DEF Held
    <3>1. w \in active[m] \/ (m = n /\ w = v)
      BY <2>2 DEF StateType
    <3>2. CASE w \in active[m]
      BY <2>5, <3>2 DEF Held
    <3>3. CASE m = n /\ w = v
      BY <2>1, <2>3, <2>4, <2>5, <3>3
    <3> QED
      BY <3>1, <3>2, <3>3
  <2> QED
    BY <2>2, <2>5, <2>6 DEF Live, Ours, Undone
<1>18. ~(\E n \in Node : Reboot(n))
  BY DEF Reboot, Lone
<1>19. CASE UNCHANGED vars
  BY <1>19 DEF vars, Live, Distinct, Held, InSession, Shown, Ours, Undone
<1> QED
  BY <1>1, <1>2, <1>3, <1>4, <1>5, <1>6, <1>7, <1>8, <1>9, <1>10, <1>11, <1>12, <1>13,
     <1>14, <1>15, <1>16, <1>17, <1>18, <1>19
  DEF Next, Proceed, Attempt, Teardown, Drop, Unwind

\* What volume_activate reported active stays so until it is deactivated: with
\* one storage and path, whatever fails, crashes, or is torn down for other
\* volumes or on other nodes, as long as no reboot and no failed device deletion
\* leaves a record or a device behind that names a LUN number given away since.
THEOREM ActiveStaysActive == ASSUME Lone PROVE Spec => []ActiveHolds
<1>1. Init => TypeOK /\ Separate /\ Sole /\ Spares /\ Live
  BY TypeInit, SeparateInit, SoleInit, SparesInit, LiveInit
<1>2. TypeOK /\ Separate /\ Sole /\ Spares /\ Live /\ [Next]_vars
        => (TypeOK /\ Separate /\ Sole /\ Spares /\ Live)'
  BY TypeStep, SeparateStep, SoleStep, SparesStep, LiveStep DEF Lone
<1>3. TypeOK /\ Live => ActiveHolds
  <2> SUFFICES ASSUME TypeOK, Live, NEW n \in Node, NEW v \in active[n]
               PROVE  \E s \in Slot : /\ <<v, s>> \in rec[n] /\ lun[v] = s
                                      /\ TargetOf[s] \in session[n] /\ <<v, s>> \in seen[n]
    BY DEF ActiveHolds, Lone
  <2>1. PICK s \in Slot : <<v, s>> \in rec[n] /\ <<v, s>> \in seen[n]
    BY DEF Live, Held
  <2>2. <<v, s>> \in seen[n] \cup rec[n]
    BY <2>1
  <2> QED
    BY <2>1, <2>2 DEF Live, InSession, Shown
<1> QED
  BY <1>1, <1>2, <1>3, PTL DEF Spec

-----------------------------------------------------------------------------
(* What a failed operation leaves on its node.                             *)

\* Ordinary errors at any step but a logout and a record delete, no timeout, no
\* fatal error, no kill and no reboot: every teardown has its chance.
Repairing == \A f \in Faults : f[2] = "fail" /\ f[1] \notin {"logout", "drop", "crash", "reboot"}

\* o tears down what it has built, up to the delete of its record.
Cleans(o) == \/ o.at = "caught" /\ o.err = "fail"
             \/ o.at \in {"tStage", "tMap", "tQuery", "tDetach", "tRecord"}
             \/ o.at = "drop" /\ o.back = "cycle"

\* What o has made or taken away, and the rest of it not yet: a directory
\* without a record, a session without a directory, an empty target directory.
Unrecorded(o) == Cleans(o) \/ o.at = "dropDir"
Unfiled(o)    == Cleans(o) \/ o.at \in {"map", "record", "dropSession"}
Emptied(o)    == o.at \in {"dropSession", "dropTarget"}

\* A LUN directory has its record, and its target directory ...
Recorded == \A n \in Node : \A d \in ldir[n] :
                \/ \E r \in rec[n] : <<StoreOf[r[1]], r[2]>> = d
                \/ Unrecorded(op) /\ n = op.node /\ d = <<StoreOf[op.vol], op.slot>>

InTarget == \A n \in Node : \A d \in ldir[n] : <<d[1], TargetOf[d[2]]>> \in tdir[n]

\* ... a target directory holds a LUN directory ...
Nonempty == \A n \in Node : \A s \in tdir[n] :
                \/ \E d \in ldir[n] : <<d[1], TargetOf[d[2]]>> = s
                \/ Emptied(op) /\ n = op.node /\ s = <<StoreOf[op.vol], TargetOf[op.slot]>>

\* ... and a session is one of a target with a LUN directory.
Explained == \A n \in Node : \A t \in session[n] :
                \/ \E d \in ldir[n] : TargetOf[d[2]] = t
                \/ Unfiled(op) /\ n = op.node /\ op.slot # None /\ t = TargetOf[op.slot]

Covered == Recorded /\ InTarget /\ Nonempty /\ Explained

LEMMA CoveredInit == Init => Covered
  BY NoOpType DEF Init, Covered, Recorded, InTarget, Nonempty, Explained

\* Both work on the same thing.
Same(o) == o.node = op.node /\ o.vol = op.vol /\ o.item = op.item /\ o.slot = op.slot

\* What a step on the operation alone does to the invariant.
LEMMA CoveredKeeps ==
    ASSUME Covered, UNCHANGED <<session, rec, ldir, tdir>>,
           Unrecorded(op) => Same(op') /\ Unrecorded(op'),
           Unfiled(op) => Same(op') /\ Unfiled(op'),
           Emptied(op) => Same(op') /\ Emptied(op')
    PROVE  Covered'
<1>1. Recorded'
  BY DEF Covered, Recorded, Same
<1>2. InTarget'
  BY DEF Covered, InTarget
<1>3. Nonempty'
  BY DEF Covered, Nonempty, Same
<1>4. Explained'
  BY DEF Covered, Explained, Same
<1> QED
  BY <1>1, <1>2, <1>3, <1>4 DEF Covered

\* Every error is an ordinary one, and a teardown goes on after it.
LEMMA OnlyOrdinary ==
    ASSUME Repairing, NEW s, NEW c \in Raised(s)
    PROVE  c = "fail" /\ s \notin {"logout", "drop", "crash", "reboot"}
<1>1. <<s, c>> \in Faults
  BY DEF Raised
<1> QED
  BY <1>1 DEF Repairing

LEMMA AttemptsClean ==
    ASSUME Repairing, op \in OpType
    PROVE  /\ Stage => Keeps(op') /\ Unfiled(op')
           /\ Map => Keeps(op') /\ Unfiled(op')
           /\ Record => op' = NoOp \/ (Keeps(op') /\ op'.at = "caught" /\ op'.err = "fail")
<1>1. ASSUME NEW s \in {"iscsi", "map"}
      PROVE  /\ Keeps([Error("fail", "caught") EXCEPT !.done = @ \cup {s}])
             /\ Unfiled([Error("fail", "caught") EXCEPT !.done = @ \cup {s}])
  <2>1. Error("fail", "caught") \in OpType /\ Error("fail", "caught").err = "fail"
    BY ErrorKeeps DEF Classes, Steps, Keeps
  <2>2. [Error("fail", "caught") EXCEPT !.done = @ \cup {s}].err = "fail"
    BY <2>1 DEF OpType
  <2>3. Walks([Error("fail", "caught") EXCEPT !.done = @ \cup {s}], {"caught"})
    BY DiesWalks DEF Classes
  <2> QED
    BY <2>2, <2>3 DEF Walks, Unfiled, Cleans
<1>2. Stage => Keeps(op') /\ Unfiled(op')
  <2>1. CASE op' = Reached("iscsi", IF Multipath THEN "map" ELSE "record")
    BY <2>1, ReachedWalks DEF Steps, Walks, Unfiled
  <2>2. CASE \E c \in Raised("stage") \cup {"fail"} : StageFails(c)
    BY <1>1, <2>2, OnlyOrdinary DEF StageFails
  <2> QED
    BY <2>1, <2>2 DEF Stage
<1>3. Map => Keeps(op') /\ Unfiled(op')
  <2>1. CASE op' = Reached("map", "record")
    BY <2>1, ReachedWalks DEF Steps, Walks, Unfiled
  <2>2. CASE \E c \in Raised("map") :
              op' = [Error(c, "caught") EXCEPT !.done = @ \cup {"map"}]
    BY <1>1, <2>2, OnlyOrdinary
  <2> QED
    BY <2>1, <2>2 DEF Map
<1>4. Record => op' = NoOp \/ (Keeps(op') /\ op'.at = "caught" /\ op'.err = "fail")
  <2>1. ASSUME NEW c \in Raised("record"), op' = Error(c, "caught")
        PROVE  Keeps(op') /\ op'.at = "caught" /\ op'.err = "fail"
    BY <2>1, OnlyOrdinary, ErrorKeeps DEF Classes, Steps
  <2> QED
    BY <2>1 DEF Record
<1> QED
  BY <1>2, <1>3, <1>4

LEMMA TeardownsGoOn ==
    ASSUME Repairing, op \in OpType
    PROVE  /\ TeardownStage => Keeps(op') /\ Cleans(op')
           /\ TeardownMap => Keeps(op') /\ Cleans(op')
           /\ TeardownQuery => Keeps(op') /\ Cleans(op')
           /\ TeardownDetach => Keeps(op') /\ Cleans(op')
<1> DEFINE S == {"tMap", "tQuery", "tDetach", "tRecord"}
<1>1. ASSUME NEW a \in S, Go(a) PROVE Keeps(op') /\ Cleans(op')
  <2>1. op' = [op EXCEPT !.at = a] /\ a \in Steps
    BY <1>1 DEF Go, Steps
  <2>2. Keeps(op') /\ op'.at = a
    BY <2>1, GoWalks DEF Walks
  <2> QED
    BY <2>2 DEF Cleans
<1>2. ASSUME NEW a \in S, NEW s, NEW c \in Raised(s), op' = Absorbed(c, a)
      PROVE  Keeps(op') /\ Cleans(op')
  <2>1. Absorbed(c, a) = [op EXCEPT !.at = a]
    BY OnlyOrdinary DEF Absorbed
  <2> QED
    BY <1>1, <1>2, <2>1 DEF Go
<1>3. TeardownStage => Keeps(op') /\ Cleans(op')
  BY <1>1, <1>2 DEF TeardownStage
<1>4. TeardownMap => Keeps(op') /\ Cleans(op')
  BY <1>1, <1>2 DEF TeardownMap
<1>5. TeardownQuery => Keeps(op') /\ Cleans(op')
  <2>1. CASE Go("tDetach") \/ Go("tRecord")
    BY <1>1, <2>1
  <2>2. CASE \E c \in Raised("query") : op' = Absorbed(c, "tRecord")
    BY <1>2, <2>2
  <2> QED
    BY <2>1, <2>2 DEF TeardownQuery
<1>6. TeardownDetach => Keeps(op') /\ Cleans(op')
  BY <1>1, <1>2 DEF TeardownDetach
<1> QED
  BY <1>3, <1>4, <1>5, <1>6

\* Without failing logouts, the residual logout leaves a session only if
\* another storage has a directory of the target.
LEMMA LogsOut ==
    ASSUME Repairing, TypeOK, op.node \in Node, ResidualLogout
    PROVE  /\ \A n \in Node : session'[n] \subseteq session[n]
           /\ TargetOf[op.slot] \in session'[op.node]
                 => \E d \in ldir[op.node] : TargetOf[d[2]] = TargetOf[op.slot]
<1>1. CASE OtherStoreUses(op.node, StoreOf[op.vol], TargetOf[op.slot])
  BY <1>1 DEF ResidualLogout, OtherStoreUses, here, mine, tgt
<1>2. CASE ~OtherStoreUses(op.node, StoreOf[op.vol], TargetOf[op.slot])
  <2>1. <<"logout", "fail">> \notin Faults
    BY DEF Repairing
  <2>2. session' = [session EXCEPT ![op.node] = @ \ {TargetOf[op.slot]}]
    BY <1>2, <2>1 DEF ResidualLogout, LoggedOut, here, mine, tgt
  <2> QED
    BY <2>2 DEF TypeOK
<1> QED
  BY <1>1, <1>2

\* A record is deleted of the storage of the operation.
LEMMA SameStore ==
    ASSUME TypeOK, Separate, Sole, op.at \in Drops
    PROVE  /\ op.node \in Node /\ op.item \in Volume /\ op.slot \in Slot
           /\ StoreOf[op.item] = StoreOf[op.vol]
<1>1. op.node \in Node /\ op.item \in Volume /\ op.slot \in Slot
  BY DEF TypeOK, Drops
<1>2. op.item = op.vol \/ (op.item \in Snap /\ Parent[op.item] = op.vol)
  <2>1. Own(op) /\ Queued(op)
    BY DEF Separate, Sole
  <2>2. op.back \in {"cycle", "unstack"}
    BY DEF TypeOK
  <2> QED
    BY <2>1, <2>2 DEF Own, Queued, Dropping, Drops
<1> QED
  BY <1>1, <1>2, ActivationAssumption

\* The files of a name belong to one storage.
LEMMA FileStore ==
    ASSUME TypeOK, op.item \in Volume, StoreOf[op.item] = StoreOf[op.vol],
           NEW n \in Node, NEW r \in rec[n] \ OtherFiles(rec[n])
    PROVE  <<StoreOf[r[1]], r[2]>> = <<StoreOf[op.vol], op.slot>>
<1>1. r[1] \in Volume /\ r[2] = op.slot /\ File(r[1]) = File(op.item)
  BY DEF TypeOK, OtherFiles, item
<1>2. \A v \in Volume : StoreOf[File(v)] = StoreOf[v]
  BY ActivationAssumption DEF File
<1> QED
  BY <1>1, <1>2

\* The record file and the directories of a new record.
LEMMA CoveredRecord ==
    ASSUME Repairing, TypeOK, Separate, Covered, Record
    PROVE  Covered'
<1> StateType /\ op \in OpType /\ Placed(op)
  BY TypeParts
<1> Recorded /\ InTarget /\ Nonempty /\ Explained
  BY DEF Covered
<1> DEFINE d   == <<StoreOf[op.vol], op.slot>>
           dir == <<StoreOf[op.vol], TargetOf[op.slot]>>
<1>1. /\ op.node \in Node /\ op.item \in Volume /\ op.slot \in Slot
      /\ op.item = op.vol /\ op.at = "record"
  BY DEF Record, Placed, OpType, Separate, Own
<1>2. UNCHANGED session
  BY DEF Record, kernel
<1>3. \/ UNCHANGED <<ldir, tdir, rec>>
      \/ /\ ldir' = [ldir EXCEPT ![op.node] = @ \cup {d}]
         /\ tdir' = [tdir EXCEPT ![op.node] = @ \cup {dir}]
         /\ \/ rec' = [rec EXCEPT ![op.node] = OtherFiles(@)]
            \/ rec' = [rec EXCEPT ![op.node] = OtherFiles(@) \cup {<<op.item, op.slot>>}]
  BY DEF Record, here, item, tgt, mine
<1>4. \/ op'.at = "caught" /\ op'.err = "fail" /\ Keeps(op')
      \/ /\ ldir' = [ldir EXCEPT ![op.node] = @ \cup {d}]
         /\ rec' = [rec EXCEPT ![op.node] = OtherFiles(@) \cup {<<op.item, op.slot>>}]
  <2>1. op' = NoOp =>
          /\ ldir' = [ldir EXCEPT ![op.node] = @ \cup {d}]
          /\ rec' = [rec EXCEPT ![op.node] = OtherFiles(@) \cup {<<op.item, op.slot>>}]
    <3>1. \A c \in Classes : Error(c, "caught") # NoOp
      BY ErrorKeeps, NoOpType DEF Steps
    <3> QED
      BY <3>1 DEF Record, Raised, here, item, mine
  <2> QED
    BY <2>1, AttemptsClean
<1>5. /\ \A n \in Node : ldir[n] \subseteq ldir'[n] /\ tdir[n] \subseteq tdir'[n]
      /\ \A n \in Node : \A e \in ldir'[n] :
            e \in ldir[n] \/ (n = op.node /\ e = d /\ dir \in tdir'[n])
      /\ \A n \in Node : \A s \in tdir'[n] :
            s \in tdir[n] \/ (n = op.node /\ s = dir /\ d \in ldir'[n])
  <2>1. CASE UNCHANGED <<ldir, tdir>>
    BY <2>1
  <2>2. CASE /\ ldir' = [ldir EXCEPT ![op.node] = @ \cup {d}]
             /\ tdir' = [tdir EXCEPT ![op.node] = @ \cup {dir}]
    BY <1>1, <2>2 DEF StateType
  <2> QED
    BY <1>3, <2>1, <2>2
<1>6. \A n \in Node : \A r \in rec[n] :
          r \in rec'[n] \/ (n = op.node /\ <<StoreOf[r[1]], r[2]>> = d)
  <2> SUFFICES ASSUME NEW n \in Node, NEW r \in rec[n], r \notin rec'[n]
               PROVE  n = op.node /\ <<StoreOf[r[1]], r[2]>> = d
    OBVIOUS
  <2>1. n = op.node /\ r \notin OtherFiles(rec[n])
    BY <1>1, <1>3 DEF StateType
  <2> QED
    BY <1>1, <2>1, FileStore
<1>7. \/ op'.at = "caught" /\ op'.err = "fail" /\ Keeps(op')
      \/ <<op.item, op.slot>> \in rec'[op.node] /\ d \in ldir'[op.node]
  BY <1>1, <1>4 DEF StateType
<1>8. ~Unrecorded(op) /\ ~Emptied(op)
  BY <1>1 DEF Unrecorded, Cleans, Emptied
<1>9. Recorded'
  <2> SUFFICES ASSUME NEW n \in Node, NEW e \in ldir'[n]
               PROVE  \/ \E r \in rec'[n] : <<StoreOf[r[1]], r[2]>> = e
                      \/ Unrecorded(op') /\ n = op'.node /\ e = <<StoreOf[op'.vol], op'.slot>>
    BY DEF Recorded
  <2>1. CASE n = op.node /\ e = d
    <3>1. CASE op'.at = "caught" /\ op'.err = "fail" /\ Keeps(op')
      BY <2>1, <3>1 DEF Unrecorded, Cleans, Keeps
    <3>2. CASE <<op.item, op.slot>> \in rec'[op.node]
      BY <1>1, <2>1, <3>2
    <3> QED
      BY <1>7, <3>1, <3>2
  <2>2. CASE ~(n = op.node /\ e = d)
    <3>1. PICK r \in rec[n] : <<StoreOf[r[1]], r[2]>> = e
      BY <1>5, <1>8, <2>2 DEF Recorded
    <3>2. r \in rec'[n]
      BY <1>6, <2>2, <3>1
    <3> QED
      BY <3>1, <3>2
  <2> QED
    BY <2>1, <2>2
<1>10. InTarget'
  <2> SUFFICES ASSUME NEW n \in Node, NEW e \in ldir'[n]
               PROVE  <<e[1], TargetOf[e[2]]>> \in tdir'[n]
    BY DEF InTarget
  <2>1. CASE e \in ldir[n]
    BY <1>5, <2>1 DEF InTarget
  <2>2. CASE n = op.node /\ e = d /\ dir \in tdir'[n]
    BY <1>1, <2>2
  <2> QED
    BY <1>5, <2>1, <2>2
<1>11. Nonempty'
  <2> SUFFICES ASSUME NEW n \in Node, NEW s \in tdir'[n]
               PROVE  \E e \in ldir'[n] : <<e[1], TargetOf[e[2]]>> = s
    BY DEF Nonempty
  <2>1. CASE s \in tdir[n]
    BY <1>5, <1>8, <2>1 DEF Nonempty
  <2>2. CASE s = dir /\ d \in ldir'[n]
    BY <1>1, <2>2
  <2> QED
    BY <1>5, <2>1, <2>2
<1>12. Explained'
  <2> SUFFICES ASSUME NEW n \in Node, NEW t \in session[n]
               PROVE  \/ \E e \in ldir'[n] : TargetOf[e[2]] = t
                      \/ Unfiled(op') /\ n = op'.node /\ op'.slot # None /\ t = TargetOf[op'.slot]
    BY <1>2 DEF Explained
  <2>1. CASE \E e \in ldir[n] : TargetOf[e[2]] = t
    BY <1>5, <2>1
  <2>2. CASE n = op.node /\ op.slot # None /\ t = TargetOf[op.slot]
    BY <1>7, <2>2 DEF Unfiled, Cleans, Keeps
  <2> QED
    BY <2>1, <2>2 DEF Explained
<1> QED
  BY <1>9, <1>10, <1>11, <1>12 DEF Covered

\* The record goes, or a missing target directory says there is none.
LEMMA CoveredDropRecord ==
    ASSUME Repairing, TypeOK, Separate, Sole, Covered, DropRecord
    PROVE  Covered'
<1> StateType /\ op \in OpType /\ Placed(op)
  BY TypeParts
<1> Recorded /\ InTarget /\ Nonempty /\ Explained /\ Filed
  BY DEF Covered, Separate
<1> DEFINE d   == <<StoreOf[op.vol], op.slot>>
           dir == <<StoreOf[op.vol], TargetOf[op.slot]>>
<1>1. /\ op.node \in Node /\ op.item \in Volume /\ op.slot \in Slot
      /\ StoreOf[op.item] = StoreOf[op.vol] /\ op.at = "drop" /\ op.slot # None
  BY SameStore DEF DropRecord, Drops, Placed
<1>2. UNCHANGED <<ldir, tdir>>
  BY DEF DropRecord
<1>3. ~DropFails("drop")
  BY OnlyOrdinary DEF DropFails
<1>4. op.back \in {"cycle", "unstack"} /\ op.back \in Steps
  BY DEF OpType, Steps
<1>5. ~Emptied(op) /\ InTarget' /\ Nonempty'
  BY <1>1, <1>2 DEF Emptied, InTarget, Nonempty
<1>6. CASE dir \in tdir[op.node]
  <2>1. /\ UNCHANGED session
        /\ rec' = [rec EXCEPT ![op.node] = OtherFiles(@)]
        /\ op' = [op EXCEPT !.at = IF d \in ldir[op.node] THEN "dropDir" ELSE op.back]
    BY <1>3, <1>6 DEF DropRecord, Go, here, tgt, mine
  <2>2. /\ op'.at = IF d \in ldir[op.node] THEN "dropDir" ELSE op.back
        /\ Keeps(op')
    <3>1. (IF d \in ldir[op.node] THEN "dropDir" ELSE op.back) \in Steps
      BY <1>4 DEF Steps
    <3> HIDE DEF d
    <3> QED
      BY <2>1, <3>1, GoWalks DEF Walks
  <2>3. \A n \in Node : \A r \in rec[n] :
            r \in rec'[n] \/ (n = op.node /\ <<StoreOf[r[1]], r[2]>> = d)
    <3> SUFFICES ASSUME NEW n \in Node, NEW r \in rec[n], r \notin rec'[n]
                 PROVE  n = op.node /\ <<StoreOf[r[1]], r[2]>> = d
      OBVIOUS
    <3>1. n = op.node /\ r \notin OtherFiles(rec[n])
      BY <1>1, <2>1 DEF StateType
    <3> QED
      BY <1>1, <3>1, FileStore
  <2>4. Recorded'
    <3> SUFFICES ASSUME NEW n \in Node, NEW e \in ldir[n]
                 PROVE  \/ \E r \in rec'[n] : <<StoreOf[r[1]], r[2]>> = e
                        \/ Unrecorded(op') /\ n = op'.node /\ e = <<StoreOf[op'.vol], op'.slot>>
      BY <1>2 DEF Recorded
    <3>1. CASE n = op.node /\ e = d
      BY <2>2, <3>1 DEF Unrecorded, Keeps
    <3>2. CASE ~(n = op.node /\ e = d)
      <4>1. PICK r \in rec[n] : <<StoreOf[r[1]], r[2]>> = e
        BY <3>2 DEF Recorded
      <4> QED
        BY <2>3, <3>2, <4>1
    <3> QED
      BY <3>1, <3>2
  <2>5. Explained'
    <3>1. \E e \in ldir[op.node] : TargetOf[e[2]] = TargetOf[op.slot]
      <4>1. PICK e \in ldir[op.node] : <<e[1], TargetOf[e[2]]>> = dir
        BY <1>1, <1>5, <1>6 DEF Nonempty
      <4> QED
        BY <4>1
    <3> QED
      BY <1>1, <1>2, <2>1, <3>1 DEF Explained
  <2> QED
    BY <1>5, <2>4, <2>5 DEF Covered
<1>7. CASE dir \notin tdir[op.node]
  <2>1. UNCHANGED rec /\ ResidualLogout
    BY <1>7 DEF DropRecord, here, tgt, mine
  <2>2. Recorded'
    <3>1. d \notin ldir[op.node]
      BY <1>1, <1>7 DEF InTarget
    <3> QED
      BY <1>1, <1>2, <2>1, <3>1 DEF Recorded
  <2>3. Explained'
    BY <1>1, <1>2, <2>1, LogsOut DEF Explained
  <2> QED
    BY <1>5, <2>2, <2>3 DEF Covered
<1> QED
  BY <1>6, <1>7

LEMMA CoveredDropLunDir ==
    ASSUME TypeOK, Separate, Sole, Covered, DropLunDir
    PROVE  Covered'
<1> StateType /\ op \in OpType /\ Placed(op)
  BY TypeParts
<1> Recorded /\ InTarget /\ Nonempty /\ Explained
  BY DEF Covered
<1> DEFINE d   == <<StoreOf[op.vol], op.slot>>
           dir == <<StoreOf[op.vol], TargetOf[op.slot]>>
<1>1. op.node \in Node /\ op.slot \in Slot /\ op.slot # None /\ op.at = "dropDir"
  BY SameStore DEF DropLunDir, Drops, Placed
<1>2. UNCHANGED <<session, rec, tdir>>
  BY DEF DropLunDir, kernel
<1>3. Keeps(op') /\ op'.at \in {"dropSession", op.back}
  BY ActionWalks DEF Walks
<1>4. ~Emptied(op) /\ ~Unfiled(op)
  BY <1>1 DEF Emptied, Unfiled, Cleans
<1>5. CASE \E r \in rec[op.node] : r[2] = op.slot /\ StoreOf[r[1]] = StoreOf[op.vol]
  <2>1. UNCHANGED ldir
    BY <1>5 DEF DropLunDir, here, mine
  <2>2. Recorded'
    <3>1. \E r \in rec[op.node] : <<StoreOf[r[1]], r[2]>> = d
      BY <1>5
    <3> QED
      BY <1>2, <2>1, <3>1 DEF Recorded
  <2> QED
    BY <1>2, <1>4, <2>1, <2>2 DEF Covered, InTarget, Nonempty, Explained
<1>6. CASE ~\E r \in rec[op.node] : r[2] = op.slot /\ StoreOf[r[1]] = StoreOf[op.vol]
  <2>1. /\ ldir' = [ldir EXCEPT ![op.node] = @ \ {d}]
        /\ Go("dropSession") \/ LunDirs(ldir'[op.node]) # {}
    BY <1>6 DEF DropLunDir, here, mine
  <2>2. /\ \A n \in Node : ldir'[n] \subseteq ldir[n]
        /\ \A n \in Node : \A e \in ldir[n] : e \in ldir'[n] <=> ~(n = op.node /\ e = d)
    BY <1>1, <2>1 DEF StateType
  <2>3. \/ op'.at = "dropSession"
        \/ \E e \in ldir'[op.node] : <<e[1], TargetOf[e[2]]>> = dir
    BY <2>1, GoWalks DEF Go, Walks, Steps, LunDirs, mine, tgt
  <2>4. Recorded' /\ InTarget'
    BY <1>2, <2>2 DEF Recorded, InTarget
  <2>5. Nonempty'
    <3> SUFFICES ASSUME NEW n \in Node, NEW s \in tdir[n]
                 PROVE  \/ \E e \in ldir'[n] : <<e[1], TargetOf[e[2]]>> = s
                        \/ /\ Emptied(op') /\ n = op'.node
                           /\ s = <<StoreOf[op'.vol], TargetOf[op'.slot]>>
      BY <1>2 DEF Nonempty
    <3>1. PICK e \in ldir[n] : <<e[1], TargetOf[e[2]]>> = s
      BY <1>4 DEF Nonempty
    <3>2. CASE e \in ldir'[n]
      BY <3>1, <3>2
    <3>3. CASE n = op.node /\ s = dir
      BY <1>3, <2>3, <3>3 DEF Emptied, Keeps
    <3> QED
      BY <2>2, <3>1, <3>2, <3>3
  <2>6. Explained'
    <3> SUFFICES ASSUME NEW n \in Node, NEW t \in session[n]
                 PROVE  \/ \E e \in ldir'[n] : TargetOf[e[2]] = t
                        \/ /\ Unfiled(op') /\ n = op'.node /\ op'.slot # None
                           /\ t = TargetOf[op'.slot]
      BY <1>2 DEF Explained
    <3>1. PICK e \in ldir[n] : TargetOf[e[2]] = t
      BY <1>4 DEF Explained
    <3>2. CASE e \in ldir'[n]
      BY <3>1, <3>2
    <3>3. CASE n = op.node /\ t = TargetOf[op.slot]
      <4>1. CASE op'.at = "dropSession"
        BY <1>1, <1>3, <3>3, <4>1 DEF Unfiled, Keeps
      <4>2. CASE \E c \in ldir'[op.node] : <<c[1], TargetOf[c[2]]>> = dir
        BY <3>3, <4>2
      <4> QED
        BY <2>3, <4>1, <4>2
    <3> QED
      BY <2>2, <3>1, <3>2, <3>3
  <2> QED
    BY <2>4, <2>5, <2>6 DEF Covered
<1> QED
  BY <1>5, <1>6

LEMMA CoveredDropSession ==
    ASSUME Repairing, TypeOK, Separate, Sole, Covered, DropSession
    PROVE  Covered'
<1> op \in OpType
  BY TypeParts
<1> Recorded /\ InTarget /\ Nonempty /\ Explained
  BY DEF Covered
<1>1. op.node \in Node /\ op.at = "dropSession" /\ ResidualLogout
  BY SameStore DEF DropSession, Drops
<1>2. UNCHANGED <<rec, ldir, tdir>>
  BY DEF DropSession, files
<1>3. Keeps(op') /\ op'.at = "dropTarget"
  BY ActionWalks DEF Walks
<1>4. Recorded' /\ InTarget'
  BY <1>1, <1>2 DEF Recorded, Unrecorded, Cleans, InTarget
<1>5. Nonempty'
  BY <1>2, <1>3 DEF Nonempty, Emptied, Keeps
<1>6. Explained'
  BY <1>1, <1>2, LogsOut DEF Explained
<1> QED
  BY <1>4, <1>5, <1>6 DEF Covered

LEMMA CoveredDropTargetDir ==
    ASSUME TypeOK, Separate, Sole, Covered, DropTargetDir
    PROVE  Covered'
<1> StateType /\ op \in OpType
  BY TypeParts
<1> Recorded /\ InTarget /\ Nonempty /\ Explained
  BY DEF Covered
<1>1. op.node \in Node /\ op.at = "dropTarget"
  BY SameStore DEF DropTargetDir, Drops
<1>2. UNCHANGED <<session, rec, ldir>>
  BY DEF DropTargetDir, kernel
<1>3. \A n \in Node : \A s : s \in tdir'[n] <=>
          s \in tdir[n] /\ ~(n = op.node /\ s = <<StoreOf[op.vol], TargetOf[op.slot]>>)
  BY <1>1 DEF DropTargetDir, StateType, here, mine, tgt
<1>4. ~Unrecorded(op) /\ ~Unfiled(op)
  BY <1>1 DEF Unrecorded, Unfiled, Cleans
<1>5. Recorded' /\ Explained'
  BY <1>2, <1>4 DEF Recorded, Explained
<1>6. InTarget'
  <2> SUFFICES ASSUME NEW n \in Node, NEW d \in ldir[n]
               PROVE  <<d[1], TargetOf[d[2]]>> \in tdir'[n]
    BY <1>2 DEF InTarget
  <2>1. <<d[1], TargetOf[d[2]]>> \in tdir[n]
    BY DEF InTarget
  <2>2. ~(n = op.node /\ <<d[1], TargetOf[d[2]]>> = <<StoreOf[op.vol], TargetOf[op.slot]>>)
    BY <1>1 DEF Sole, Shelved
  <2> QED
    BY <1>3, <2>1, <2>2
<1>7. Nonempty'
  BY <1>2, <1>3 DEF Nonempty
<1> QED
  BY <1>5, <1>6, <1>7 DEF Covered

LEMMA CoveredStep ==
    ASSUME Repairing, TypeOK, Separate, Sole, Covered, [Next]_vars
    PROVE  Covered'
<1> StateType /\ op \in OpType /\ Placed(op)
  BY TypeParts
<1> USE DEF Unrecorded, Unfiled, Emptied, Cleans
<1>1. ASSUME NEW n \in Node, NEW v \in Volume,
             Activate(n, v) \/ Reactivate(n, v) \/ Deactivate(n, v)
      PROVE  Covered'
  BY <1>1, CoveredKeeps DEF Activate, Reactivate, Deactivate, kernel, files
<1>2. ASSUME NEW n \in Node, NEW v \in Volume, Accept(n, v)
      PROVE  Covered'
  <2>1. UNCHANGED session
    <3>1. PICK r \in rec[n] : \/ UNCHANGED session
                              \/ TargetOf[r[2]] \in session[n] /\ LoggedIn(n, TargetOf[r[2]])
      BY <1>2 DEF Accept
    <3>2. CASE TargetOf[r[2]] \in session[n] /\ LoggedIn(n, TargetOf[r[2]])
      <4>1. session' = [session EXCEPT ![n] = session[n] \cup {TargetOf[r[2]]}]
        BY <3>2 DEF LoggedIn
      <4>2. session[n] \cup {TargetOf[r[2]]} = session[n]
        BY <3>2
      <4> QED
        BY <4>1, <4>2 DEF StateType
    <3> QED
      BY <3>1, <3>2
  <2> QED
    BY <1>2, <2>1, CoveredKeeps DEF Accept, Same
<1>3. CASE Publish \/ NextCycle \/ Unstack \/ UnstackDevice \/ UnstackMap \/ UnstackDetach
             \/ UnpublishState \/ Return
  BY <1>3, CoveredKeeps
  DEF Publish, NextCycle, Unstack, UnstackDevice, UnstackMap, UnstackDetach, UnpublishState,
      Return, kernel, files
<1>4. CASE Guard
  BY <1>4, CoveredKeeps DEF Guard, kernel, files
<1>5. CASE Stage
  <2>1. op.node \in Node /\ op.slot \in Slot /\ op.slot # None /\ op.at = "stage"
    BY <1>5 DEF Stage, Placed, OpType
  <2>2. Keeps(op') /\ Unfiled(op')
    BY <1>5, AttemptsClean
  <2>3. UNCHANGED <<rec, ldir, tdir>>
    BY <1>5 DEF Stage, files
  <2>4. Recorded' /\ InTarget' /\ Nonempty'
    BY <2>1, <2>3 DEF Covered, Recorded, InTarget, Nonempty
  <2>5. \A n \in Node : \A t \in session'[n] :
            t \in session[n] \/ (n = op.node /\ t = TargetOf[op.slot])
    BY <1>5, <2>1 DEF Stage, LoggedIn, StateType, here, tgt
  <2>6. Explained'
    BY <2>1, <2>2, <2>3, <2>5 DEF Covered, Explained, Keeps
  <2> QED
    BY <2>4, <2>6 DEF Covered
<1>6. CASE Map
  BY <1>6, AttemptsClean, CoveredKeeps DEF Map, files, Keeps, Same
<1>7. CASE Record
  BY <1>7, CoveredRecord
<1>8. CASE Classify
  <2>1. op.err = "fail" => Keeps(op') /\ op'.at = "tStage"
    <3>1. \A a \in Steps : Go(a) => Walks(op', {a})
      BY GoWalks DEF Go
    <3>2. op.err = "fail" => Go("tStage")
      BY <1>8 DEF Classify
    <3> QED
      BY <3>1, <3>2 DEF Walks, Steps
  <2>2. Unrecorded(op) \/ Unfiled(op) \/ Emptied(op)
           => Same(op') /\ Unrecorded(op') /\ Unfiled(op')
    <3>1. op.at = "caught"
      BY <1>8 DEF Classify
    <3>2. CASE op.err = "fail"
      BY <2>1, <3>2 DEF Keeps, Same
    <3>3. op.err # "fail" => ~Unrecorded(op) /\ ~Unfiled(op)
      BY <3>1
    <3>4. ~Emptied(op)
      BY <3>1
    <3> HIDE DEF Unrecorded, Unfiled, Emptied, Cleans
    <3> QED
      BY <3>2, <3>3, <3>4
  <2> QED
    BY <1>8, <2>2, CoveredKeeps DEF Classify, kernel, files
<1>9. CASE TeardownStage \/ TeardownMap \/ TeardownQuery \/ TeardownDetach
  <2>1. Keeps(op') /\ Cleans(op')
    BY <1>9, TeardownsGoOn
  <2>2. UNCHANGED <<session, rec, ldir, tdir>>
    BY <1>9 DEF TeardownStage, TeardownMap, TeardownQuery, TeardownDetach, kernel, files
  <2>3. ~Emptied(op)
    BY <1>9 DEF TeardownStage, TeardownMap, TeardownQuery, TeardownDetach
  <2> QED
    BY <2>1, <2>2, <2>3, CoveredKeeps DEF Keeps, Same
<1>10. CASE TeardownRecord
  <2>1. UNCHANGED <<session, rec, ldir, tdir>> /\ op.at = "tRecord" /\ op.node \in Node
    BY <1>10 DEF TeardownRecord, kernel, files, Placed
  <2>2. CASE op.slot = None
    <3>1. \A n \in Node : \A d \in ldir[n] : d # <<StoreOf[op.vol], op.slot>>
      BY <2>2, ActivationAssumption DEF StateType
    <3> QED
      BY <2>1, <2>2, <3>1 DEF Covered, Recorded, InTarget, Nonempty, Explained
  <2>3. CASE op.slot # None
    BY <1>10, <2>1, <2>3, TeardownRecordGoes, CoveredKeeps DEF Same
  <2> QED
    BY <2>2, <2>3
<1>11. CASE Drop
  BY <1>11, CoveredDropRecord, CoveredDropLunDir, CoveredDropSession, CoveredDropTargetDir
  DEF Drop
<1>12. ASSUME NEW n \in Node, Crash \/ Reboot(n)
       PROVE  Covered'
  BY <1>12 DEF Crash, Reboot, Repairing
<1>13. CASE Crash
  BY <1>13 DEF Crash, Repairing
<1>14. CASE UNCHANGED vars
  BY <1>14 DEF vars, Covered, Recorded, InTarget, Nonempty, Explained
<1> QED
  BY <1>1, <1>2, <1>3, <1>4, <1>5, <1>6, <1>7, <1>8, <1>9, <1>10, <1>11, <1>12, <1>13, <1>14
  DEF Next, Proceed, Attempt, Teardown, Unwind

\* When the last cycle of volume_activate has failed with an ordinary error,
\* its teardowns and deactivations have left the node no session but with
\* targets it has records on - for any nodes, volumes, storages, targets,
\* snapshots and state volumes, and any number of cycles, as long as the errors
\* leave every teardown its chance.
THEOREM FailedIsTornDown == ASSUME Repairing PROVE Spec => []TornDown
<1>1. Init => TypeOK /\ Separate /\ Sole /\ Covered
  BY TypeInit, SeparateInit, SoleInit, CoveredInit
<1>2. TypeOK /\ Separate /\ Sole /\ Covered /\ [Next]_vars
        => (TypeOK /\ Separate /\ Sole /\ Covered)'
  BY TypeStep, SeparateStep, SoleStep, CoveredStep
<1>3. TypeOK /\ Covered => TornDown
  <2> SUFFICES ASSUME TypeOK, Covered, op.at = "cycle", NEW t \in session[op.node]
               PROVE  \E r \in rec[op.node] : TargetOf[r[2]] = t
    BY DEF TornDown
  <2>1. op.node \in Node /\ ~Unrecorded(op) /\ ~Unfiled(op)
    BY DEF TypeOK, Unrecorded, Unfiled, Cleans
  <2>2. PICK d \in ldir[op.node] : TargetOf[d[2]] = t
    BY <2>1 DEF Covered, Explained
  <2>3. PICK r \in rec[op.node] : <<StoreOf[r[1]], r[2]>> = d
    BY <2>1 DEF Covered, Recorded
  <2> QED
    BY <2>2, <2>3
<1> QED
  BY <1>1, <1>2, <1>3, PTL DEF Spec
=============================================================================
