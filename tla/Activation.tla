----------------------------- MODULE Activation -----------------------------
(***************************************************************************)
(* volume_activate, volume_deactivate and the plugin methods around them:  *)
(* the volumes of one VM, its iSCSI targets on the array, and what the     *)
(* nodes keep of them - sessions, devices, multipath maps and the record   *)
(* files of the storages.  The vm lock (LockService) lets one operation of *)
(* the VM run at a time in the whole cluster; any step of it may fail, be  *)
(* killed, or be cut by a reboot of its node.                              *)
(*                                                                         *)
(* A slot is a LUN number of a target.  The array gives a number that has  *)
(* become free to the next volume; the nodes go by the number.             *)
(***************************************************************************)
EXTENDS Naturals, FiniteSets

CONSTANTS
    Node, Volume, Store, Target,
    Slot,        \* the LUN numbers of the targets ...
    TargetOf,    \* ... and the target of each
    None,        \* no slot, no node, no volume
    Snap,        \* the volumes that are activated snapshots ...
    Parent,      \* ... and the volume each of them is a snapshot of
    StateVol,    \* the vm-<id>-state-<name> volumes
    StoreOf,     \* the storage a volume belongs to
    Multipath,   \* whether the storages use multipath
    Cycles,      \* VOLUME_ACTIVATE_CYCLE_ATTEMPTS
    Faults       \* what may go wrong: pairs of a step and an error class

ASSUME ActivationAssumption ==
    /\ Snap \subseteq Volume /\ StateVol \subseteq Volume \ Snap
    /\ Parent \in [Snap -> Volume \ Snap]
    /\ StoreOf \in [Volume -> Store]
    /\ \A s \in Snap : StoreOf[s] = StoreOf[Parent[s]]
    /\ Multipath \in BOOLEAN /\ Cycles \in Nat \ {0}
    /\ TargetOf \in [Slot -> Target]
    /\ None \notin Slot \cup Node \cup Volume

VARIABLES
    lun,       \* array: the slot each volume is attached at
    session,   \* node: targets logged in to
    seen,      \* node: sd devices, <<volume it shows, slot>>, one at a slot
    maps,      \* node: volumes with a multipath map
    rec,       \* node: the lun record files, <<volume, slot>>
    ldir,      \* node: lun directories, <<store, slot>>
    tdir,      \* node: target directories, <<store, target>>
    sized,     \* node: the records that hold a verified size
    active,    \* history: activated on the node, and not deactivated since
    op         \* the operation that holds the vm lock, and where it stands

array  == <<lun>>
kernel == <<session, seen, maps>>
files  == <<rec, ldir, tdir, sized>>
vars   == <<lun, session, seen, maps, rec, ldir, tdir, sized, active, op>>

\* vol is the volume of the operation; item and slot are what the current
\* step works on; done are the reached-stage flags of the attempt; todo are the
\* snapshot records still to be deactivated, "own" the volume's own; then is
\* what follows a deactivation, back what follows a record delete; marked:
\* an error with the fatal marker was raised.
NoOp == [at |-> "idle", node |-> None, vol |-> None, item |-> None,
         slot |-> None, cycle |-> 1, done |-> {}, todo |-> {}, own |-> FALSE,
         then |-> "end", back |-> "cycle", err |-> "none", marked |-> FALSE]

here == op.node
item == op.item
tgt  == TargetOf[op.slot]
mine == StoreOf[op.vol]

-----------------------------------------------------------------------------
(* Failures.  A class is "fail" (an ordinary die), "contention" (an acquire *)
(* timeout), "fatal" (marked by the lock machinery) or "refused" (the array *)
(* side refuses: the target is in use, or owned by another pool).           *)

Classes == {"fail", "contention", "fatal", "refused"}

Raised(step) == {c \in Classes : <<step, c>> \in Faults}

Error(c, at) == [op EXCEPT !.at = at, !.err = c,
                           !.marked = op.marked \/ c = "fatal"]

\* Wrong: a teardown absorbs every error, also the fatal ones.
AbsorbedWrong(c, next) == [Error(c, next) EXCEPT !.err = op.err]

\* A step of a teardown is best-effort: only a fatal error leaves it.
Absorbed(c, next) ==
    IF c = "fatal" THEN Error(c, "failed") ELSE [op EXCEPT !.at = next]

Go(at) == op' = [op EXCEPT !.at = at]

Reached(stage, at) == [op EXCEPT !.done = @ \cup {stage}, !.at = at]

-----------------------------------------------------------------------------
(* What the steps do to the node and the array *)

\* Wrong: this storage is looked up instead of the others.
OtherStoreUsesWrong(n, s, t) ==
    \E d \in ldir[n] : d[1] = s /\ d[2] # op.slot /\ TargetOf[d[2]] = t

\* lun_record_local_search_by_target: another storage has entries for t.
OtherStoreUses(n, s, t) ==
    \E d \in ldir[n] : d[1] # s /\ TargetOf[d[2]] = t

\* What the array presents to a session with target t.
Presented(t) ==
    {<<w, lun[w]>> : w \in {w \in Volume : lun[w] # None /\ TargetOf[lun[w]] = t}}

\* A login, or the rescan of a session, shows every LUN of the target.  A device
\* that is there stays; one whose slot has been given to another volume goes on
\* showing the old one, or shows the new one.
LoggedIn(n, t) ==
    /\ session' = [session EXCEPT ![n] = @ \cup {t}]
    /\ \E stale \in SUBSET {d \in seen[n] : \E a \in Presented(t) : a[2] = d[2] /\ a # d} :
        LET kept == seen[n] \ stale
        IN  seen' = [seen EXCEPT ![n] =
                kept \cup {a \in Presented(t) : \A d \in kept : d[2] # a[2]}]

\* volume_unstage_iscsi ignores what iscsiadm reports.
LoggedOut(n, t) ==
    \/ /\ session' = [session EXCEPT ![n] = @ \ {t}]
       /\ seen' = [seen EXCEPT ![n] = {d \in @ : TargetOf[d[2]] # t}]
    \/ <<"logout", "fail">> \in Faults /\ UNCHANGED <<session, seen>>

\* volume_unstage_iscsi_device goes by target and LUN number: it deletes the
\* device that is there, whichever volume it shows.
DeviceDeleted == seen' = [seen EXCEPT ![here] = {d \in @ : d[2] # op.slot}]

\* The residual logout of lun_record_local_delete.
ResidualLogout ==
    IF OtherStoreUses(here, mine, tgt)
    THEN UNCHANGED <<session, seen>>
    ELSE LoggedOut(here, tgt)

\* jdssc reports success, too, when the array refused to detach.
Unpublished(w) == \/ lun' = [lun EXCEPT ![w] = None]
                  \/ <<"unpublish", "fail">> \in Faults /\ UNCHANGED lun

\* Devices are found by the scsi id of the volume.
HasDevice(n, v) == \E s \in Slot : <<v, s>> \in seen[n]

\* block_device_path_from_lun_rec.
DevicePresent(n, v) == IF Multipath THEN v \in maps[n] ELSE HasDevice(n, v)

\* A record file has the name of the volume; that of a snapshot has the name of
\* the volume it is one of.
File(v) == IF v \in Snap THEN Parent[v] ELSE v

\* The records without the file of item at its slot.
OtherFiles(records) == {r \in records : r[2] # op.slot \/ File(r[1]) # File(item)}

Records(n, v) == {r \in rec[n] : r[1] = v}

SnapRecords(n, v) == {r \in rec[n] : r[1] \in Snap /\ Parent[r[1]] = v}

-----------------------------------------------------------------------------
(* The operations begin *)

Begin(n, v, at, then) ==
    op' = [NoOp EXCEPT !.at = at, !.node = n, !.vol = v, !.item = v, !.then = then,
                       !.own = at = "unstack",
                       !.todo = IF at = "unstack" THEN SnapRecords(n, v) ELSE {}]

\* A deactivation takes the snapshots of the volume with it.
NoLongerActive(n, v) ==
    active' = [active EXCEPT ![n] = @ \ ({v} \cup {s \in Snap : Parent[s] = v})]

\* _activate_volume, without a record: the full activation.
Activate(n, v) ==
    /\ op.at = "idle"
    /\ Records(n, v) = {}
    /\ Begin(n, v, "publish", "end")
    /\ UNCHANGED <<array, kernel, files, active>>

\* A recorded volume whose device is there is accepted.  Its device is
\* refreshed (lun_record_update_device) if the record holds no size, or if the
\* volume has grown: a rescan shows the LUNs of the session, and the size is
\* recorded if the device verifies - if it does not, that is only a warning.
Accept(n, v) ==
    /\ op.at = "idle"
    /\ DevicePresent(n, v)
    /\ \E r \in rec[n] :
        /\ Records(n, v) = {r}
        /\ \/ r \in sized[n] /\ UNCHANGED <<session, seen, sized>>
           \/ IF TargetOf[r[2]] \in session[n]
              THEN /\ LoggedIn(n, TargetOf[r[2]])
                   /\ \/ UNCHANGED sized
                      \/ /\ lun[v] = r[2]
                         /\ sized' = [sized EXCEPT ![n] = @ \cup {r}]
              ELSE UNCHANGED <<session, seen, sized>>
    /\ active' = [active EXCEPT ![n] = @ \cup {v}]
    /\ UNCHANGED <<array, maps, rec, ldir, tdir, op>>

\* Wrong: re-activation without the deactivation before it.
ReactivateWrong(n, v) ==
    /\ op.at = "idle"
    /\ Records(n, v) # {} /\ ~DevicePresent(n, v)
    /\ Begin(n, v, "publish", "end")
    /\ NoLongerActive(n, v)
    /\ UNCHANGED <<array, kernel, files>>

\* A recorded volume whose device is missing is deactivated, then activated.
Reactivate(n, v) ==
    /\ op.at = "idle"
    /\ Records(n, v) # {} /\ ~DevicePresent(n, v)
    /\ Begin(n, v, "unstack", "publish")
    /\ NoLongerActive(n, v)
    /\ UNCHANGED <<array, kernel, files>>

\* _deactivate_volume: a state volume that has a record is unpublished, too.
Deactivate(n, v) ==
    /\ op.at = "idle"
    /\ Begin(n, v, "unstack",
             IF v \in StateVol /\ Records(n, v) # {} THEN "unpublish" ELSE "end")
    /\ NoLongerActive(n, v)
    /\ UNCHANGED <<array, kernel, files>>

-----------------------------------------------------------------------------
(* One activation attempt (_volume_activate_attempt).  A done-flag is set   *)
(* before its step, and a step that dies may have had its effect.           *)

\* A volume that is attached keeps its slot, another one gets a free one.
Offered(v) ==
    IF lun[v] = None THEN {s \in Slot : \A w \in Volume : lun[w] # s} ELSE {lun[v]}

\* Wrong: the coordinates are not kept for the later steps.
PublishWrong ==
    /\ op.at = "publish"
    /\ \E s \in Offered(item) : lun' = [lun EXCEPT ![item] = s]
    /\ op' = Reached("published", "guard")
    /\ UNCHANGED <<kernel, files, active>>

\* volume_publish: jdssc targets create.
Publish ==
    /\ op.at = "publish"
    /\ \E s \in Offered(item) :
        \/ /\ lun' = [lun EXCEPT ![item] = s]
           /\ op' = [Reached("published", "guard") EXCEPT !.slot = s]
        \/ \E c \in Raised("publish") :
            /\ lun' \in {lun, [lun EXCEPT ![item] = s]}
            /\ op' = [Error(c, "caught") EXCEPT !.done = @ \cup {"published"}]
    /\ UNCHANGED <<kernel, files, active>>

\* The shared-target guard; the unpublish is best-effort, whatever it raises.
Guard ==
    /\ op.at = "guard"
    /\ IF OtherStoreUses(here, mine, tgt)
       THEN Unpublished(item) /\ op' = Error("refused", "caught")
       ELSE UNCHANGED lun /\ Go("stage")
    /\ UNCHANGED <<kernel, files, active>>

StageFails(c) == op' = [Error(c, "caught") EXCEPT !.done = @ \cup {"iscsi"}]

\* volume_stage_iscsi: no login for a device that is there, wherever it is; an
\* error if the login does not show it.
Stage ==
    /\ op.at = "stage"
    /\ \/ /\ \/ UNCHANGED <<session, seen>>
             \/ LoggedIn(here, tgt)
          /\ \E s \in Slot : <<item, s>> \in seen'[here]
          /\ op' = Reached("iscsi", IF Multipath THEN "map" ELSE "record")
       \/ /\ LoggedIn(here, tgt)
          /\ \A s \in Slot : <<item, s>> \notin seen'[here]
          /\ StageFails("fail")
       \/ \E c \in Raised("stage") :
            /\ UNCHANGED <<session, seen>> \/ LoggedIn(here, tgt)
            /\ StageFails(c)
    /\ UNCHANGED <<array, maps, files, active>>

Map ==
    /\ op.at = "map"
    /\ \/ /\ maps' = [maps EXCEPT ![here] = @ \cup {item}]
          /\ op' = Reached("map", "record")
       \/ \E c \in Raised("map") :
            /\ maps' \in {maps, [maps EXCEPT ![here] = @ \cup {item}]}
            /\ op' = [Error(c, "caught") EXCEPT !.done = @ \cup {"map"}]
    /\ UNCHANGED <<array, session, seen, files, active>>

\* lun_record_local_create, with the directories it makes.
Record ==
    /\ op.at = "record"
    /\ \/ /\ ldir' = [ldir EXCEPT ![here] = @ \cup {<<mine, op.slot>>}]
          /\ tdir' = [tdir EXCEPT ![here] = @ \cup {<<mine, tgt>>}]
          /\ \/ /\ rec' = [rec EXCEPT ![here] = OtherFiles(@) \cup {<<item, op.slot>>}]
                /\ active' = [active EXCEPT ![here] = @ \cup {item}]
                /\ op' = NoOp
             \/ \E c \in Raised("record") :
                  \* an unfinished file is no record; the alarm may come after it
                  /\ \/ rec' = [rec EXCEPT ![here] = OtherFiles(@)]
                     \/ /\ c = "fatal"
                        /\ rec' = [rec EXCEPT ![here] = OtherFiles(@) \cup {<<item, op.slot>>}]
                  /\ op' = Error(c, "caught")
                  /\ UNCHANGED active
       \/ \E c \in Raised("record") :
            op' = Error(c, "caught") /\ UNCHANGED <<rec, ldir, tdir, active>>
    /\ sized' = [sized EXCEPT ![here] = OtherFiles(@)]
    /\ UNCHANGED <<array, kernel>>

\* The error classification of volume_activate.
Classify ==
    /\ op.at = "caught"
    /\ Go(CASE op.err \in {"fatal", "refused"} -> "failed"
            [] op.err = "contention"           -> "cycle"
            [] OTHER                           -> "tStage")
    /\ UNCHANGED <<array, kernel, files, active>>

\* Wrong: the cycle is not counted.
NextCycleWrong ==
    /\ op.at = "cycle"
    /\ \/ /\ op.cycle < Cycles
          /\ op' = [op EXCEPT !.at = "publish", !.done = {}, !.slot = None,
                              !.err = "none"]
       \/ op.cycle = Cycles /\ Go("failed")
    /\ UNCHANGED <<array, kernel, files, active>>

\* The next cycle starts with a fresh $state; too little time left on the vm
\* lock, or no cycle left, ends the operation.
NextCycle ==
    /\ op.at = "cycle"
    /\ \/ /\ op.cycle < Cycles
          /\ op' = [op EXCEPT !.at = "publish", !.cycle = @ + 1, !.done = {},
                              !.slot = None, !.err = "none"]
       \/ Go("failed")
    /\ UNCHANGED <<array, kernel, files, active>>

-----------------------------------------------------------------------------
(* The teardown of a failed attempt (_volume_deactivate_attempt) *)

TeardownStage ==
    /\ op.at = "tStage"
    /\ \/ /\ IF "iscsi" \in op.done THEN DeviceDeleted ELSE UNCHANGED seen
          /\ Go("tMap")
       \/ \E c \in Raised("tStage") :
            /\ "iscsi" \in op.done
            /\ UNCHANGED seen
            /\ op' = Absorbed(c, "tMap")
    /\ UNCHANGED <<array, session, maps, files, active>>

TeardownMap ==
    /\ op.at = "tMap"
    /\ \/ /\ maps' = IF "map" \in op.done
                     THEN [maps EXCEPT ![here] = @ \ {item}] ELSE maps
          /\ Go("tQuery")
       \/ \E c \in Raised("tMap") :
            /\ "map" \in op.done
            /\ UNCHANGED maps
            /\ op' = Absorbed(c, "tQuery")
    /\ UNCHANGED <<array, session, seen, files, active>>

\* Wrong: the record files are asked instead of the array.
ForeignSessionsWrong(t) == {n \in Node \ {here} : \E r \in rec[n] : TargetOf[r[2]] = t}

\* _target_foreign_sessions: initiators on the target besides this node.
ForeignSessions(t) == {n \in Node \ {here} : t \in session[n]}

\* A snapshot is unpublished in every pass.  A volume only in the pass before
\* the final cycle, if its target is known and no foreign initiator is on it;
\* a query that fails counts as one.
TeardownQuery ==
    /\ op.at = "tQuery"
    /\ IF item \in Snap THEN Go("tDetach")
       ELSE \/ /\ Go(IF op.slot # None /\ op.cycle = Cycles - 1
                          /\ ForeignSessions(tgt) = {}
                     THEN "tDetach" ELSE "tRecord")
            \/ \E c \in Raised("query") :
                /\ op.slot # None /\ op.cycle = Cycles - 1
                /\ op' = Absorbed(c, "tRecord")
    /\ UNCHANGED <<array, kernel, files, active>>

TeardownDetach ==
    /\ op.at = "tDetach"
    /\ Unpublished(item)
    /\ \/ Go("tRecord")
       \/ \E c \in Raised("unpublish") : op' = Absorbed(c, "tRecord")
    /\ UNCHANGED <<kernel, files, active>>

\* The record goes last, if the attempt learned the target.
TeardownRecord ==
    /\ op.at = "tRecord"
    /\ IF op.slot = None THEN Go("cycle")
       ELSE op' = [op EXCEPT !.at = "drop", !.back = "cycle"]
    /\ UNCHANGED <<array, kernel, files, active>>

-----------------------------------------------------------------------------
(* lun_record_local_delete: of item's record at the slot.  What its caller   *)
(* does with an error depends on the caller.                                 *)

DropFails(step) ==
    \E c \in Raised(step) :
        op' = IF op.back = "cycle" THEN Absorbed(c, "cycle") ELSE Error(c, "failed")

\* Wrong: no logout when the target directory is already gone.
DropRecordWrong ==
    /\ op.at = "drop"
    /\ IF <<mine, tgt>> \in tdir[here]
       THEN /\ \/ /\ rec' = [rec EXCEPT ![here] = OtherFiles(@)]
                  /\ Go(IF <<mine, op.slot>> \in ldir[here] THEN "dropDir" ELSE op.back)
               \/ UNCHANGED rec /\ DropFails("drop")
       ELSE UNCHANGED rec /\ Go(op.back)
    /\ UNCHANGED <<array, kernel, ldir, tdir, sized, active>>

DropRecord ==
    /\ op.at = "drop"
    /\ IF <<mine, tgt>> \in tdir[here]
       THEN /\ UNCHANGED <<session, seen>>
            /\ \/ /\ rec' = [rec EXCEPT ![here] = OtherFiles(@)]
                  /\ sized' = [sized EXCEPT ![here] = OtherFiles(@)]
                  /\ Go(IF <<mine, op.slot>> \in ldir[here] THEN "dropDir" ELSE op.back)
               \/ UNCHANGED <<rec, sized>> /\ DropFails("drop")
       ELSE UNCHANGED <<rec, sized>> /\ ResidualLogout /\ Go(op.back)
    /\ UNCHANGED <<array, maps, ldir, tdir, active>>

\* The directories of op's storage on the target.
LunDirs(dirs) == {d \in dirs : d[1] = mine /\ TargetOf[d[2]] = tgt}

\* Wrong: the directory is judged empty before its entries are read.
DropLunDirWrong ==
    /\ op.at = "dropDir"
    /\ ldir' = [ldir EXCEPT ![here] = @ \ {<<mine, op.slot>>}]
    /\ Go("dropSession")
    /\ UNCHANGED <<array, kernel, rec, tdir, sized, active>>

\* The rmdir fails as long as there is another record.
DropLunDir ==
    /\ op.at = "dropDir"
    /\ IF \E r \in rec[here] : r[2] = op.slot /\ StoreOf[r[1]] = mine
       THEN UNCHANGED ldir /\ Go(op.back)
       ELSE /\ ldir' = [ldir EXCEPT ![here] = @ \ {<<mine, op.slot>>}]
            /\ Go(IF LunDirs(ldir'[here]) = {} THEN "dropSession" ELSE op.back)
    /\ UNCHANGED <<array, kernel, rec, tdir, sized, active>>

\* Nothing of the storage is left on the target.
DropSession ==
    /\ op.at = "dropSession"
    /\ ResidualLogout
    /\ Go("dropTarget")
    /\ UNCHANGED <<array, maps, files, active>>

DropTargetDir ==
    /\ op.at = "dropTarget"
    /\ tdir' = [tdir EXCEPT ![here] = @ \ {<<mine, tgt>>}]
    /\ Go(op.back)
    /\ UNCHANGED <<array, kernel, rec, ldir, sized, active>>

-----------------------------------------------------------------------------
(* volume_deactivate: snapshot records first, then the volume's own record  *)

ByRecord(r) == [op EXCEPT !.at = "xStage", !.item = r[1], !.slot = r[2],
                          !.back = "unstack"]

\* Of several records only the one of the array's current slot counts.
OwnRecord ==
    IF Cardinality(Records(here, op.vol)) = 1 THEN Records(here, op.vol)
    ELSE {r \in Records(here, op.vol) : r[2] = lun[op.vol]}

Deactivated ==
    [op EXCEPT !.at = op.then, !.own = FALSE, !.item = op.vol, !.slot = None]

Unstack ==
    /\ op.at = "unstack"
    /\ \/ \E r \in op.todo : op' = [ByRecord(r) EXCEPT !.todo = @ \ {r}]
       \/ /\ op.todo = {} /\ op.own
          /\ \E r \in OwnRecord : op' = [ByRecord(r) EXCEPT !.own = FALSE]
       \/ /\ op.todo = {}
          /\ ~op.own \/ OwnRecord = {}
          /\ op' = Deactivated
    /\ UNCHANGED <<array, kernel, files, active>>

\* volume_deactivate_by_lun_record, from here to the record delete.
UnstackDevice ==
    /\ op.at = "xStage"
    /\ \/ /\ DeviceDeleted
          /\ Go("xMap")
       \/ \E c \in Raised("xStage") : UNCHANGED seen /\ op' = Error(c, "failed")
    /\ UNCHANGED <<array, session, maps, files, active>>

\* Three tries; a contention counts as one.
UnstackMap ==
    /\ op.at = "xMap"
    /\ \/ /\ maps' = IF Multipath THEN [maps EXCEPT ![here] = @ \ {item}] ELSE maps
          /\ Go(IF item \in Snap THEN "xDetach" ELSE "drop")
       \/ \E c \in Raised("xMap") :
            /\ Multipath
            /\ UNCHANGED maps
            /\ op' = Error(IF c = "fatal" THEN c ELSE "fail", "failed")
    /\ UNCHANGED <<array, session, seen, files, active>>

\* The unpublish of a snapshot: every error becomes a warning.
UnstackDetach ==
    /\ op.at = "xDetach"
    /\ Unpublished(item)
    /\ \/ Go("drop")
       \/ \E c \in Raised("unpublish") : op' = Error(c, "drop")
    /\ UNCHANGED <<kernel, files, active>>

\* _deactivate_volume, of a state volume that had a record.
UnpublishState ==
    /\ op.at = "unpublish"
    /\ Unpublished(item)
    /\ \/ Go("end")
       \/ \E c \in Raised("unpublish") : op' = Error(c, "failed")
    /\ UNCHANGED <<kernel, files, active>>

-----------------------------------------------------------------------------
(* The end of an operation *)

Return ==
    /\ op.at \in {"end", "failed"}
    /\ op' = NoOp
    /\ UNCHANGED <<array, kernel, files, active>>

\* The process dies, or the hold alarm kills it.
Crash ==
    /\ <<"crash", "fail">> \in Faults
    /\ op.at # "idle"
    /\ op' = NoOp
    /\ UNCHANGED <<array, kernel, files, active>>

\* The record files survive, the kernel state does not.
Reboot(n) ==
    /\ <<"reboot", "fail">> \in Faults
    /\ op' = IF here = n THEN NoOp ELSE op
    /\ session' = [session EXCEPT ![n] = {}]
    /\ seen' = [seen EXCEPT ![n] = {}]
    /\ maps' = [maps EXCEPT ![n] = {}]
    /\ active' = [active EXCEPT ![n] = {}]
    /\ UNCHANGED <<array, files>>

-----------------------------------------------------------------------------

Attempt  == Publish \/ Guard \/ Stage \/ Map \/ Record \/ Classify \/ NextCycle
Teardown == TeardownStage \/ TeardownMap \/ TeardownQuery \/ TeardownDetach
                \/ TeardownRecord
Drop     == DropRecord \/ DropLunDir \/ DropSession \/ DropTargetDir
Unwind   == Unstack \/ UnstackDevice \/ UnstackMap \/ UnstackDetach \/ UnpublishState

Proceed == Attempt \/ Teardown \/ Drop \/ Unwind \/ Return

Init ==
    /\ lun = [v \in Volume |-> None]
    /\ session = [n \in Node |-> {}]
    /\ seen = [n \in Node |-> {}]
    /\ maps = [n \in Node |-> {}]
    /\ rec = [n \in Node |-> {}]
    /\ ldir = [n \in Node |-> {}]
    /\ tdir = [n \in Node |-> {}]
    /\ sized = [n \in Node |-> {}]
    /\ active = [n \in Node |-> {}]
    /\ op = NoOp

Next ==
    \/ \E n \in Node, v \in Volume :
         Activate(n, v) \/ Accept(n, v) \/ Reactivate(n, v) \/ Deactivate(n, v)
    \/ Proceed
    \/ Crash
    \/ \E n \in Node : Reboot(n)

Spec == Init /\ [][Next]_vars

FairSpec == Spec /\ WF_vars(Proceed)

-----------------------------------------------------------------------------
(* Properties *)

Steps == {"idle", "publish", "guard", "stage", "map", "record", "caught", "cycle",
          "tStage", "tMap", "tQuery", "tDetach", "tRecord",
          "drop", "dropDir", "dropSession", "dropTarget",
          "unstack", "xStage", "xMap", "xDetach", "unpublish", "end", "failed"}

\* Every variable has its type, and an operation in progress its coordinates.
TypeOK ==
    /\ lun \in [Volume -> Slot \cup {None}]
    /\ session \in [Node -> SUBSET Target]
    /\ seen \in [Node -> SUBSET (Volume \X Slot)]
    /\ maps \in [Node -> SUBSET Volume]
    /\ rec \in [Node -> SUBSET (Volume \X Slot)]
    /\ ldir \in [Node -> SUBSET (Store \X Slot)]
    /\ tdir \in [Node -> SUBSET (Store \X Target)]
    /\ sized \in [Node -> SUBSET (Volume \X Slot)]
    /\ active \in [Node -> SUBSET Volume]
    /\ op \in [at : Steps, node : Node \cup {None}, vol : Volume \cup {None},
               item : Volume \cup {None}, slot : Slot \cup {None},
               cycle : 1..Cycles, done : SUBSET {"published", "iscsi", "map"},
               todo : SUBSET (Volume \X Slot), own : BOOLEAN,
               then : {"end", "publish", "unpublish"},
               back : {"cycle", "unstack"},
               err : Classes \cup {"none"}, marked : BOOLEAN]
    /\ op.at # "idle" => op.node \in Node /\ op.vol \in Volume /\ op.item \in Volume
    /\ op.at \in {"guard", "stage", "map", "record", "xStage", "xMap", "xDetach",
                  "drop", "dropDir", "dropSession", "dropTarget"} => op.slot # None

\* A volume that volume_activate reported active keeps its device, its session,
\* its LUN on the array and its record until it is deactivated there, whatever
\* fails, crashes or is torn down for other volumes or on other nodes.
ActiveHolds ==
    \A n \in Node : \A v \in active[n] \ Snap : \E s \in Slot :
        /\ <<v, s>> \in rec[n]
        /\ lun[v] = s
        /\ TargetOf[s] \in session[n]
        /\ <<v, s>> \in seen[n]
        /\ Multipath => v \in maps[n]

\* No step of an operation takes a volume off its target while another node
\* has a session there (the session-evidence gate of the recovery detach, and
\* the unpublish of state volumes).
DetachSpares ==
    [][\A v \in Volume \ Snap :
          lun[v] # None /\ lun'[v] = None
              => \A n \in Node \ {op.node} : TargetOf[lun[v]] \notin session[n]]_vars

\* The records of two storages are never on one target of a node: a logout by
\* target name would take the other's devices (the shared-target guard).
NoSharedTarget ==
    \A n \in Node : \A r1, r2 \in rec[n] :
        TargetOf[r1[2]] = TargetOf[r2[2]] => StoreOf[r1[1]] = StoreOf[r2[1]]

\* _activate_volume and path die over a second record of a volume; whatever
\* moved the volume to another target meanwhile, there is never a second one.
OneRecord == \A n \in Node, v \in Volume : Cardinality(Records(n, v)) <= 1

\* Once an error with the fatal marker was raised, the operation touches
\* neither the array nor the node any more.
FatalStops ==
    [][op.marked /\ op'.marked =>
          /\ lun' = lun
          /\ session'[op.node] = session[op.node] /\ seen'[op.node] = seen[op.node]
          /\ maps'[op.node] = maps[op.node] /\ rec'[op.node] = rec[op.node]]_vars

\* The cycle-completion contract: when the last cycle fails with an ordinary
\* error, the node keeps a session only with a target it has records on.
TornDown ==
    op.at = "cycle" /\ op.cycle = Cycles /\ op.err = "fail"
        => \A t \in session[op.node] : \E r \in rec[op.node] : TargetOf[r[2]] = t

\* Every operation ends: the cycles are bounded, no teardown loops.
OpEnds == op.at # "idle" ~> op.at = "idle"

=============================================================================
