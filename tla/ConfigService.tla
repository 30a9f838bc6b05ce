--------------------------- MODULE ConfigService ---------------------------
(***************************************************************************)
(* The persistent-configuration service: the Settings/NVS store            *)
(* (config_store.c), the save policy (config_policy.c, config_codec.c),    *)
(* the replay engine (config_replay.c) and the service that ties them      *)
(* together under one mutex and two arbiters (config_service.c), on top of *)
(* the live hardware of Control.                                           *)
(*                                                                         *)
(* A save or clear is a sequence of steps of one thread: take the service  *)
(* mutex, take the capture owner, take the flash owner, capture the live   *)
(* values, write flash, replay entry by entry, release flash, release      *)
(* capture and the mutex.  The ordinary setters of Control take none of    *)
(* these, so they run between any two of the steps.  The main thread runs  *)
(* store_init and service_init at boot, before any client can call.        *)
(***************************************************************************)
EXTENDS Control

CONSTANTS
  Main,        \* the boot thread
  None,        \* no thread
  Selections,  \* the item lists clients ask to save
  CaptureKinds, FlashKinds,  \* the owners competing with the service
  StoreFaults  \* whether the Settings backend may fail

Clients == Threads \ {Main}

ASSUME ServiceAssumption ==
  /\ Main \in Threads
  /\ None \notin Threads
  /\ Selections \subseteq (SUBSET Items) \ {{}}
  /\ {"none", "config"} \cap (CaptureKinds \cup FlashKinds) = {}
  /\ StoreFaults \in BOOLEAN

(* The state:
     flash       the blob under linkr/config/snapshot
     store       config_store.c's store_status
     svc         config_service.c's service_status and saved_snapshot
     lock        the holder of service_mutex
     op          [Threads -> the service operation each thread executes]
     snap        the snapshot local to the operation that holds the mutex
     todo        the entries its replay has not reached
     capOwner    the capture arbiter
     flashOwner  the flash arbiter
     authorized  history: the stored snapshot came from a confirmed save
     touched     history: items changed by others since they were replayed *)
VARIABLES flash, store, svc, lock, op, snap, todo,
          capOwner, flashOwner, authorized, touched

svcVars == <<flash, store, svc, lock, op, snap, todo, capOwner, flashOwner,
             authorized, touched>>
vars == <<ctlVars, svcVars>>

-----------------------------------------------------------------------------
(* Snapshots: a value for every listed item, "none" for the others.  The   *)
(* code keeps them as sorted entry lists; a canonical list is this         *)
(* function.                                                               *)

Snapshots == [Items -> Values \cup {"none"}]
EmptySnap == [i \in Items |-> "none"]
Listed(s) == {i \in Items : s[i] # "none"}

\* linkr_debugger_config_classify_entry.
requires_confirmation(i, v) ==
  \/ i \in Power /\ v = "on"
  \/ i = "usb"
  \/ i = "vin" /\ v = "1.8v"
  \/ i \in Gpio /\ v # "in"

Dangerous(s) == {i \in Listed(s) : requires_confirmation(i, s[i])}

\* linkr_debugger_config_replay_order_snapshot: the ten stages, GPIOs of one
\* stage in catalog order.
Stage(i, v) ==
  CASE i \in Gpio /\ v = "in" -> 1
    [] i = "sd"      -> 2
    [] i = "tf_wp"   -> 3
    [] i = "usb"     -> 4
    [] i = "vdd_5v"  -> 5
    [] i = "12v_out" -> 6
    [] i = "5v_out"  -> 7
    [] i = "20v_out" -> 8
    [] i = "vin"     -> 9
    [] OTHER         -> 10

Rank(i, v) ==
  100 * Stage(i, v)
    + (IF i \in Gpio THEN CHOOSE n \in 1..15 : GpioOrder[n] = i ELSE 0)

-----------------------------------------------------------------------------
(* State.                                                                  *)

Reasons == {"uninitialized", "ready", "absent", "backend_unavailable",
            "storage_error", "invalid_snapshot", "unsupported_version"}
BlobKinds == {"absent", "valid", "corrupt", "unsupported"}
ApplyStates == {"not_saved", "pending", "applied", "failed"}
OpPcs == {"idle", "store_init", "service_init", "wait", "acquire",
          "acquire_flash", "capture", "store", "delete", "replay", "setting",
          "release_flash", "release_capture"}
Results == {"ok", "busy_capture", "busy_flash", "item_unavailable",
            "confirmation_required", "backend_unavailable", "storage_error",
            "apply_failed"}

Idle == [pc |-> "idle", kind |-> "none", sel |-> {}, conf |-> FALSE,
         res |-> "ok"]
Boot == [Idle EXCEPT !.pc = "store_init", !.kind = "boot"]

\* store_status and service_status before any init: zeroed.
StoreReset == [avail |-> FALSE, valid |-> FALSE, snap |-> EmptySnap,
               reason |-> "backend_unavailable"]
StatusReset == [init |-> FALSE, reason |-> "uninitialized", present |-> FALSE,
                saved |-> EmptySnap,
                state |-> [i \in Items |-> "not_saved"],
                applied |-> 0, pending |-> 0, failed |-> 0]

Ops == [pc : OpPcs, kind : {"none", "boot", "save", "clear"},
        sel : SUBSET Items, conf : BOOLEAN, res : Results]
Stores == [avail : BOOLEAN, valid : BOOLEAN, snap : Snapshots,
           reason : Reasons]
Services == [init : BOOLEAN, reason : Reasons, present : BOOLEAN,
             saved : Snapshots, state : [Items -> ApplyStates],
             applied : Int, pending : Int, failed : 0..1]

TypeOK ==
  /\ ControlTypeOK
  /\ flash \in [kind : BlobKinds, snap : Snapshots]
  /\ store \in Stores
  /\ svc \in Services
  /\ lock \in Threads \cup {None}
  /\ op \in [Threads -> Ops]
  /\ snap \in Snapshots
  /\ todo \in SUBSET Items
  /\ capOwner \in {"none", "config"} \cup CaptureKinds
  /\ flashOwner \in {"none", "config"} \cup FlashKinds
  /\ authorized \in BOOLEAN
  /\ touched \in SUBSET Items

\* Power-on with whatever an earlier firmware left in flash: a snapshot is
\* there only because a save stored it.
Blobs ==
  {[kind |-> k, snap |-> EmptySnap] : k \in {"absent", "corrupt",
                                             "unsupported"}}

Init ==
  /\ ControlInit
  /\ flash \in Blobs
  /\ store = StoreReset
  /\ svc = StatusReset
  /\ lock = None
  /\ op = [t \in Threads |-> IF t = Main THEN Boot ELSE Idle]
  /\ snap = EmptySnap
  /\ todo = {}
  /\ capOwner = "none"
  /\ flashOwner = "none"
  /\ authorized = FALSE
  /\ touched = {}

Goes(t, p) == op' = [op EXCEPT ![t].pc = p]
Fails(t, r) == op' = [op EXCEPT ![t].pc = "release_flash", ![t].res = r]

\* linkr_debugger_config_service_state_sync_saved, with the counters.
sync_saved(s, reason, state) ==
  [init |-> TRUE, reason |-> reason, present |-> reason = "ready", saved |-> s,
   state |-> [i \in Items |-> IF s[i] # "none" THEN state ELSE "not_saved"],
   applied |-> 0,
   pending |-> IF state = "pending" THEN Cardinality(Listed(s)) ELSE 0,
   failed |-> 0]

-----------------------------------------------------------------------------
(* Boot.                                                                   *)

\* linkr_debugger_config_store_load: what the decoder makes of the blob.
load_reason(kind) ==
  CASE kind = "absent"  -> "absent"
    [] kind = "valid"   -> "ready"
    [] kind = "corrupt" -> "invalid_snapshot"
    [] OTHER            -> "unsupported_version"

\* linkr_debugger_config_store_init: initialise the backend and load the
\* blob; a corrupt or unsupported blob is kept as it is.
store_init ==
  /\ op[Main].pc = "store_init"
  /\ \/ /\ StoreFaults
        /\ store' = StoreReset
     \/ /\ StoreFaults
        /\ store' = [StoreReset EXCEPT !.avail = TRUE,
                                       !.reason = "storage_error"]
     \/ store' = [avail |-> TRUE, valid |-> flash.kind = "valid",
                  snap |-> flash.snap,
                  reason |-> load_reason(flash.kind)]
  /\ Goes(Main, "service_init")
  /\ UNCHANGED <<ctlVars, flash, svc, lock, snap, todo, capOwner, flashOwner,
                 authorized, touched>>

\* linkr_debugger_config_service_init_with_ops, up to owners_acquire: only a
\* loaded snapshot is replayed.
service_init ==
  /\ op[Main].pc = "service_init"
  /\ lock = None
  /\ IF store.reason = "ready"
     THEN /\ svc' = sync_saved(store.snap, "ready", "pending")
          /\ snap' = store.snap
          /\ lock' = Main
          /\ Goes(Main, "acquire")
     ELSE /\ svc' = sync_saved(EmptySnap, store.reason, "not_saved")
          /\ op' = [op EXCEPT ![Main] = Idle]
          /\ UNCHANGED <<snap, lock>>
  /\ UNCHANGED <<ctlVars, flash, store, todo, capOwner, flashOwner,
                 authorized, touched>>

-----------------------------------------------------------------------------
(* Save and clear.                                                         *)

\* The servers start after service_init has returned.
Up == svc.init /\ op[Main].pc = "idle"

\* A request whose item list resolves; the others return before the mutex.
save_request(t) ==
  /\ Up
  /\ op[t].pc = "idle"
  /\ call[t].pc = "idle"
  /\ \E sel \in Selections, conf \in BOOLEAN :
       op' = [op EXCEPT ![t] = [pc |-> "wait", kind |-> "save", sel |-> sel,
                                conf |-> conf, res |-> "ok"]]
  /\ UNCHANGED <<ctlVars, flash, store, svc, lock, snap, todo, capOwner,
                 flashOwner, authorized, touched>>

clear_request(t) ==
  /\ Up
  /\ op[t].pc = "idle"
  /\ call[t].pc = "idle"
  /\ op' = [op EXCEPT ![t] = [Idle EXCEPT !.pc = "wait", !.kind = "clear"]]
  /\ UNCHANGED <<ctlVars, flash, store, svc, lock, snap, todo, capOwner,
                 flashOwner, authorized, touched>>

service_lock(t) ==
  /\ op[t].pc = "wait"
  /\ lock = None
  /\ lock' = t
  /\ Goes(t, "acquire")
  /\ UNCHANGED <<ctlVars, flash, store, svc, snap, todo, capOwner, flashOwner,
                 authorized, touched>>

\* Mutant of capture_try_acquire: a busy capture returns without unlocking.
capture_try_acquire_keeps_mutex(t) ==
  /\ op[t].pc = "acquire"
  /\ IF capOwner = "none"
     THEN /\ capOwner' = "config"
          /\ Goes(t, "acquire_flash")
     ELSE /\ op' = [op EXCEPT ![t] = Idle]
          /\ UNCHANGED capOwner
  /\ UNCHANGED <<ctlVars, flash, store, svc, lock, snap, todo, flashOwner,
                 authorized, touched>>

\* owners_acquire, first the capture owner.
capture_try_acquire(t) ==
  /\ op[t].pc = "acquire"
  /\ IF capOwner = "none"
     THEN /\ capOwner' = "config"
          /\ Goes(t, "acquire_flash")
          /\ UNCHANGED <<lock, snap>>
     ELSE /\ op' = [op EXCEPT ![t] = Idle]  \* busy_capture
          /\ lock' = None
          /\ snap' = EmptySnap
          /\ UNCHANGED capOwner
  /\ UNCHANGED <<ctlVars, flash, store, svc, todo, flashOwner, authorized,
                 touched>>

\* Mutant of flash_try_acquire: a busy flash leaves the capture owner taken.
flash_try_acquire_leaks(t) ==
  /\ op[t].pc = "acquire_flash"
  /\ IF flashOwner = "none"
     THEN /\ flashOwner' = "config"
          /\ Goes(t, CASE op[t].kind = "save"  -> "capture"
                       [] op[t].kind = "clear" -> "delete"
                       [] OTHER                -> "replay")
          /\ todo' = Listed(snap)
          /\ UNCHANGED <<lock, snap, capOwner>>
     ELSE /\ op' = [op EXCEPT ![t] = Idle]
          /\ lock' = None
          /\ snap' = EmptySnap
          /\ UNCHANGED <<flashOwner, todo, capOwner>>
  /\ UNCHANGED <<ctlVars, flash, store, svc, authorized, touched>>

\* Mutant of flash_try_acquire: the arbiter's answer is ignored.
flash_try_acquire_ignores_busy(t) ==
  /\ op[t].pc = "acquire_flash"
  /\ flashOwner' = IF flashOwner = "none" THEN "config" ELSE flashOwner
  /\ Goes(t, CASE op[t].kind = "save"  -> "capture"
               [] op[t].kind = "clear" -> "delete"
               [] OTHER                -> "replay")
  /\ todo' = Listed(snap)
  /\ UNCHANGED <<ctlVars, flash, store, svc, lock, snap, capOwner, authorized,
                 touched>>

\* owners_acquire, then the flash owner; a busy flash gives the capture
\* owner back.
flash_try_acquire(t) ==
  /\ op[t].pc = "acquire_flash"
  /\ IF flashOwner = "none"
     THEN /\ flashOwner' = "config"
          /\ Goes(t, CASE op[t].kind = "save"  -> "capture"
                       [] op[t].kind = "clear" -> "delete"
                       [] OTHER                -> "replay")
          /\ todo' = Listed(snap)
          /\ UNCHANGED <<lock, snap, capOwner>>
     ELSE /\ capOwner' = "none"
          /\ op' = [op EXCEPT ![t] = Idle]  \* busy_flash
          /\ lock' = None
          /\ snap' = EmptySnap
          /\ UNCHANGED <<flashOwner, todo>>
  /\ UNCHANGED <<ctlVars, flash, store, svc, authorized, touched>>

\* Mutant of capture: the confirmation is checked on the values that were
\* saved before instead of the captured ones.
capture_stale_policy(t) ==
  /\ op[t].pc = "capture"
  /\ LET s == [i \in Items |-> IF i \in op[t].sel THEN live[i] ELSE "none"]
     IN IF Dangerous(svc.saved) # {} /\ ~op[t].conf
        THEN /\ Fails(t, "confirmation_required")
             /\ UNCHANGED snap
        ELSE /\ snap' = s
             /\ Goes(t, "store")
  /\ UNCHANGED <<ctlVars, flash, store, svc, lock, todo, capOwner, flashOwner,
                 authorized, touched>>

\* control_snapshot_get, project_available_snapshot, canonicalize_snapshot
\* and populate_confirmation_report: one consistent read of the live values,
\* and the danger gate applied to what was read.  That the read itself fails
\* (control_capture_failed) does not happen: it refuses only a null pointer and
\* a catalog longer than the constant it is built with.
capture(t) ==
  /\ op[t].pc = "capture"
  /\ LET s == [i \in Items |-> IF i \in op[t].sel THEN live[i] ELSE "none"]
     IN IF op[t].sel \cap Missing # {}
        THEN /\ Fails(t, "item_unavailable")
             /\ UNCHANGED snap
        ELSE IF Dangerous(s) # {} /\ ~op[t].conf
        THEN /\ Fails(t, "confirmation_required")
             /\ UNCHANGED snap
        ELSE /\ snap' = s
             /\ Goes(t, "store")
  /\ UNCHANGED <<ctlVars, flash, store, svc, lock, todo, capOwner, flashOwner,
                 authorized, touched>>

\* Mutant of store_save: a failed write is taken for a stored snapshot.
store_save_unchecked(t) ==
  /\ op[t].pc = "store"
  /\ flash' \in {flash, [kind |-> "valid", snap |-> snap]}
  /\ store' = [store EXCEPT !.valid = TRUE, !.snap = snap, !.reason = "ready"]
  /\ svc' = sync_saved(snap, "ready", "pending")
  /\ todo' = Listed(snap)
  /\ authorized' = op[t].conf
  /\ Goes(t, "replay")
  /\ UNCHANGED <<ctlVars, lock, snap, capOwner, flashOwner, touched>>

\* Mutant of store_save: the values are read again when they are written.
store_save_rereads(t) ==
  /\ op[t].pc = "store"
  /\ LET s == [i \in Items |-> IF snap[i] # "none" THEN live[i] ELSE "none"]
     IN /\ flash' = [kind |-> "valid", snap |-> s]
        /\ store' = [store EXCEPT !.valid = TRUE, !.snap = s,
                                  !.reason = "ready"]
        /\ svc' = sync_saved(s, "ready", "pending")
        /\ snap' = s
        /\ todo' = Listed(s)
  /\ authorized' = op[t].conf
  /\ Goes(t, "replay")
  /\ UNCHANGED <<ctlVars, lock, capOwner, flashOwner, touched>>

\* linkr_debugger_config_store_save and, when it succeeds, the service's own
\* record of the snapshot.  A failed write leaves the old blob.
store_save(t) ==
  /\ op[t].pc = "store"
  /\ \/ /\ store.avail
        /\ flash' = [kind |-> "valid", snap |-> snap]
        /\ store' = [store EXCEPT !.valid = TRUE, !.snap = snap,
                                  !.reason = "ready"]
        /\ svc' = sync_saved(snap, "ready", "pending")
        /\ todo' = Listed(snap)
        /\ authorized' = op[t].conf
        /\ Goes(t, "replay")
     \/ /\ store.avail
        /\ StoreFaults
        /\ store' = [store EXCEPT !.reason = "storage_error"]
        /\ Fails(t, "storage_error")
        /\ UNCHANGED <<flash, svc, todo, authorized>>
     \/ /\ ~store.avail
        /\ Fails(t, "backend_unavailable")
        /\ UNCHANGED <<flash, store, svc, todo, authorized>>
  /\ UNCHANGED <<ctlVars, lock, snap, capOwner, flashOwner, touched>>

\* linkr_debugger_config_store_clear and the service's record of it; the
\* hardware keeps its state.
store_clear(t) ==
  /\ op[t].pc = "delete"
  /\ \/ /\ store.avail
        /\ flash' = [kind |-> "absent", snap |-> EmptySnap]
        /\ store' = [store EXCEPT !.valid = FALSE, !.snap = EmptySnap,
                                  !.reason = "absent"]
        /\ svc' = sync_saved(EmptySnap, "absent", "not_saved")
        /\ authorized' = FALSE
        /\ Goes(t, "release_flash")
     \/ /\ store.avail
        /\ StoreFaults
        /\ store' = [store EXCEPT !.reason = "storage_error"]
        /\ Fails(t, "storage_error")
        /\ UNCHANGED <<flash, svc, authorized>>
     \/ /\ ~store.avail
        /\ Fails(t, "backend_unavailable")
        /\ UNCHANGED <<flash, store, svc, authorized>>
  /\ UNCHANGED <<ctlVars, lock, snap, todo, capOwner, flashOwner, touched>>

-----------------------------------------------------------------------------
(* Replay: linkr_debugger_config_replay_execute.                           *)

\* The next entry in replay order goes to its setter.
replay_entry(t) ==
  /\ op[t].pc = "replay"
  /\ \E i \in todo :
       /\ \A j \in todo : Rank(i, snap[i]) <= Rank(j, snap[j])
       /\ BeginSet(t, i, snap[i])
       /\ touched' = touched \ {i}
  /\ Goes(t, "setting")
  /\ UNCHANGED <<flash, store, svc, lock, snap, todo, capOwner, flashOwner,
                 authorized>>

\* Mutant of replay_result: a failed entry does not stop the replay.
replay_result_continues(t) ==
  /\ op[t].pc = "setting"
  /\ EndSet(t)
  /\ LET i == call[t].item
     IN /\ svc' = [svc EXCEPT
             !.state[i] = IF call[t].ok THEN "applied" ELSE "failed",
             !.pending = @ - 1,
             !.applied = IF call[t].ok THEN @ + 1 ELSE @,
             !.failed = IF call[t].ok THEN @ ELSE 1]
        /\ todo' = todo \ {i}
        /\ Goes(t, "replay")
  /\ UNCHANGED <<flash, store, lock, snap, capOwner, flashOwner, authorized,
                 touched>>

\* Mutant of replay_result: every failure is counted and the replay goes on.
replay_result_counts_on(t) ==
  /\ op[t].pc = "setting"
  /\ EndSet(t)
  /\ svc' = [svc EXCEPT !.pending = @ - 1, !.failed = @ + 1]
  /\ todo' = todo \ {call[t].item}
  /\ Goes(t, "replay")
  /\ UNCHANGED <<flash, store, lock, snap, capOwner, flashOwner, authorized,
                 touched>>

\* Its result: the first failure stops the replay, earlier entries stay
\* applied and later ones pending.
replay_result(t) ==
  /\ op[t].pc = "setting"
  /\ EndSet(t)
  /\ LET i == call[t].item
     IN IF call[t].ok
        THEN /\ svc' = [svc EXCEPT !.state[i] = "applied",
                                   !.pending = @ - 1,
                                   !.applied = @ + 1]
             /\ todo' = todo \ {i}
             /\ Goes(t, "replay")
        ELSE /\ svc' = [svc EXCEPT !.state[i] = "failed",
                                   !.pending = @ - 1,
                                   !.failed = 1]
             /\ todo' = {}
             /\ Fails(t, "apply_failed")
  /\ UNCHANGED <<flash, store, lock, snap, capOwner, flashOwner, authorized,
                 touched>>

replay_end(t) ==
  /\ op[t].pc = "replay"
  /\ todo = {}
  /\ Goes(t, "release_flash")
  /\ UNCHANGED <<ctlVars, flash, store, svc, lock, snap, todo, capOwner,
                 flashOwner, authorized, touched>>

\* owners_release: the flash owner first.
flash_release(t) ==
  /\ op[t].pc = "release_flash"
  /\ flashOwner' = "none"
  /\ Goes(t, "release_capture")
  /\ UNCHANGED <<ctlVars, flash, store, svc, lock, snap, todo, capOwner,
                 authorized, touched>>

\* Then the capture owner and the mutex; the operation returns.
capture_release(t) ==
  /\ op[t].pc = "release_capture"
  /\ capOwner' = "none"
  /\ lock' = None
  /\ op' = [op EXCEPT ![t] = Idle]
  /\ snap' = EmptySnap
  /\ UNCHANGED <<ctlVars, flash, store, svc, todo, flashOwner, authorized,
                 touched>>

-----------------------------------------------------------------------------
(* The rest of the board.                                                  *)

\* An ordinary setter or VIN status read starts in a client's thread.
client_call(t) ==
  /\ Up
  /\ op[t].pc = "idle"
  /\ \/ \E i \in Items : \E v \in ValuesOf(i) : BeginSet(t, i, v)
     \/ vin_route_read(t)
  /\ UNCHANGED svcVars

client_return(t) ==
  /\ op[t].pc = "idle"
  /\ EndSet(t)
  /\ UNCHANGED svcVars

\* One lock section of a setter.  Changes made by a thread other than the
\* one that replays are remembered in touched.
control_section(t) ==
  /\ Section(t)
  /\ touched' = IF op[t].pc = "setting" THEN touched
                ELSE touched \cup {i \in Items : live'[i] # live[i]}
  /\ UNCHANGED <<flash, store, svc, lock, op, snap, todo, capOwner,
                 flashOwner, authorized>>

\* The logic analyzer, the sigrok session, a task mutation or an OTA takes or
\* returns an arbiter.
capture_taken(k) ==
  /\ Up /\ capOwner = "none" /\ capOwner' = k
  /\ UNCHANGED <<ctlVars, flash, store, svc, lock, op, snap, todo,
                 flashOwner, authorized, touched>>

capture_returned(k) ==
  /\ capOwner = k /\ capOwner' = "none"
  /\ UNCHANGED <<ctlVars, flash, store, svc, lock, op, snap, todo,
                 flashOwner, authorized, touched>>

flash_taken(k) ==
  /\ Up /\ flashOwner = "none" /\ flashOwner' = k
  /\ UNCHANGED <<ctlVars, flash, store, svc, lock, op, snap, todo, capOwner,
                 authorized, touched>>

flash_returned(k) ==
  /\ flashOwner = k /\ flashOwner' = "none"
  /\ UNCHANGED <<ctlVars, flash, store, svc, lock, op, snap, todo, capOwner,
                 authorized, touched>>

\* Power loss or reset at any point: everything but flash is lost and the
\* main thread boots again.
crash ==
  /\ live' = [i \in Items |-> Default(i)]
  /\ vio' = "3.3v"
  /\ call' = [t \in Threads |-> NoCall]
  /\ store' = StoreReset
  /\ svc' = StatusReset
  /\ lock' = None
  /\ op' = [t \in Threads |-> IF t = Main THEN Boot ELSE Idle]
  /\ snap' = EmptySnap
  /\ todo' = {}
  /\ capOwner' = "none"
  /\ flashOwner' = "none"
  /\ touched' = {}
  /\ UNCHANGED <<flash, authorized>>

-----------------------------------------------------------------------------
\* The steps of an operation that holds, or is about to take, the mutex.
ServiceStep(t) ==
  \/ capture_try_acquire(t)
  \/ flash_try_acquire(t)
  \/ capture(t)
  \/ store_save(t)
  \/ store_clear(t)
  \/ replay_entry(t)
  \/ replay_result(t)
  \/ replay_end(t)
  \/ flash_release(t)
  \/ capture_release(t)

Next ==
  \/ store_init
  \/ service_init
  \/ \E t \in Threads : ServiceStep(t) \/ control_section(t)
  \/ \E t \in Clients :
       \/ save_request(t)
       \/ clear_request(t)
       \/ service_lock(t)
       \/ client_call(t)
       \/ client_return(t)
  \/ \E k \in CaptureKinds : capture_taken(k) \/ capture_returned(k)
  \/ \E k \in FlashKinds : flash_taken(k) \/ flash_returned(k)
  \/ crash

Spec == Init /\ [][Next]_vars

\* The scheduler runs a thread that can run: boot, the operation that holds
\* the mutex and the setters keep going.  Nothing is assumed of clients,
\* crashes or the other owners.
Fairness ==
  /\ WF_vars(store_init)
  /\ WF_vars(service_init)
  /\ \A t \in Threads : WF_vars(ServiceStep(t)) /\ WF_vars(control_section(t))

FairSpec == Spec /\ Fairness

-----------------------------------------------------------------------------
(* Properties.                                                             *)

\* What GET /api/v1/config reports can be read only while no operation holds
\* the mutex (linkr_debugger_config_service_status_get takes it).
Quiet == svc.init /\ lock = None

\* The operation between owners_acquire and owners_release holds the mutex
\* and both arbiters, and no path leaves one taken behind: outside an
\* operation the service owns neither.
OwnersHeld ==
  /\ \A t \in Threads :
       op[t].pc \in {"capture", "store", "delete", "replay", "setting",
                     "release_flash"} =>
         lock = t /\ capOwner = "config" /\ flashOwner = "config"
  /\ lock = None => capOwner # "config" /\ flashOwner # "config"

\* What the service reports as saved is what the next boot will find: ready
\* with the very snapshot in flash, absent with no blob, also after failed
\* writes, failed deletes and crashes.
ReportMatchesFlash ==
  Quiet =>
    /\ svc.reason = "ready" => flash = [kind |-> "valid", snap |-> svc.saved]
    /\ svc.reason = "absent" => flash.kind = "absent"
    /\ svc.present <=> svc.reason = "ready"

\* The counters, kept by increments and decrements through every replay, are
\* the numbers of items in each state.
CountersMatchItems ==
  svc.init =>
    /\ svc.applied = Cardinality({i \in Items : svc.state[i] = "applied"})
    /\ svc.pending = Cardinality({i \in Items : svc.state[i] = "pending"})
    /\ svc.failed = Cardinality({i \in Items : svc.state[i] = "failed"})
    /\ Listed(svc.saved) = {i \in Items : svc.state[i] # "not_saved"}

\* The replay stops at the first failure: no entry is applied after, in
\* replay order, one that failed or was not reached.
AppliedIsAPrefix ==
  \A i, j \in Items :
    svc.state[i] = "applied" /\ svc.state[j] \in {"pending", "failed"} =>
      Rank(i, svc.saved[i]) < Rank(j, svc.saved[j])

\* An item reported applied has its saved value on the hardware, unless an
\* ordinary setter changed it since; a later entry of the replay never
\* undoes an earlier one (the USB route drives the hub rail).
AppliedIsCurrent ==
  Quiet =>
    \A i \in Items :
      svc.state[i] = "applied" /\ i \notin touched => live[i] = svc.saved[i]

\* What a replay leaves, however far it got.
ReplayIsExact == CountersMatchItems /\ AppliedIsAPrefix /\ AppliedIsCurrent

\* The danger gate: a snapshot with a dangerous value is in flash, from where
\* every boot replays it, only if the save that stored it was confirmed.
DangerConfirmed ==
  flash.kind = "valid" /\ Dangerous(flash.snap) # {} => authorized

\* A save or boot replay that is about to report success has every listed
\* item applied and, for both, exactly that snapshot in flash.
OkMeansApplied ==
  \A t \in Threads :
    op[t].pc = "release_flash" /\ op[t].res = "ok"
      /\ op[t].kind \in {"save", "boot"} =>
        /\ flash = [kind |-> "valid", snap |-> snap]
        /\ \A i \in Listed(snap) : svc.state[i] = "applied"

\* The blob changes only while the service owns the flash and no capture
\* session runs.
FlashWrittenByOwner ==
  [][ flash' # flash => flashOwner = "config" /\ capOwner = "config" ]_vars

\* The parts of the inductive invariants from which ConfigService_proofs derives
\* the properties above.
TypedSnap(s) == \A i \in Items : s[i] \in ValuesOf(i) \cup {"none"}

SnapsTyped == TypedSnap(flash.snap) /\ TypedSnap(store.snap) /\ TypedSnap(snap)

FlashPcs == {"capture", "store", "delete", "replay", "setting",
             "release_flash"}
CapturePcs == FlashPcs \cup {"acquire_flash", "release_capture"}
LockedPcs == CapturePcs \cup {"acquire"}

\* The mutex and the two owners are held exactly by the thread that is
\* between taking and releasing them.
MutexInv ==
  /\ \A t \in Threads :
       /\ op[t].pc \in LockedPcs => lock = t
       /\ op[t].pc \in CapturePcs => capOwner = "config"
       /\ op[t].pc \in FlashPcs => flashOwner = "config"
  /\ lock # None => lock \in Threads /\ op[lock].pc \in LockedPcs
  /\ capOwner = "config" => lock # None /\ op[lock].pc \in CapturePcs
  /\ flashOwner = "config" => lock # None /\ op[lock].pc \in FlashPcs

\* The store's and the service's records agree with flash also while an
\* operation runs.
RecordInv ==
  /\ store.reason = "ready" => flash = [kind |-> "valid", snap |-> store.snap]
  /\ store.reason = "absent" => flash.kind = "absent"
  /\ svc.reason = "ready" => flash = [kind |-> "valid", snap |-> svc.saved]
  /\ svc.reason = "absent" => flash.kind = "absent"
  /\ svc.init => (svc.present <=> svc.reason = "ready")

\* What a save has captured passed the danger gate, and so did what is in
\* flash.
GateInv ==
  /\ DangerConfirmed
  /\ \A t \in Threads :
       op[t].pc = "store" /\ Dangerous(snap) # {} => op[t].conf

\* A replay works through the snapshot that is in flash, and what it has
\* left behind is applied.
ReplayInv ==
  \A t \in Threads :
    /\ op[t].pc = "delete" => op[t].kind = "clear"
    /\ op[t].pc = "wait" => op[t].kind # "boot"
    /\ op[t].pc \in {"replay", "setting"} => todo \subseteq Listed(snap)
    /\ op[t].pc \in {"replay", "setting"} /\ op[t].kind \in {"save", "boot"} =>
         \A i \in Listed(snap) \ todo : svc.state[i] = "applied"
    /\ \/ op[t].pc \in {"replay", "setting"} /\ op[t].kind \in {"save", "boot"}
       \/ op[t].pc \in {"acquire", "acquire_flash"} /\ op[t].kind = "boot"
       => flash = [kind |-> "valid", snap |-> snap]

\* The counters also agree with the items before the service is initialised.
StateItems(state, a) == {i \in Items : state[i] = a}
ItemsIn(a) == StateItems(svc.state, a)

CountInv ==
  /\ svc.applied = Cardinality(ItemsIn("applied"))
  /\ svc.pending = Cardinality(ItemsIn("pending"))
  /\ svc.failed = Cardinality(ItemsIn("failed"))
  /\ \A i \in Items : svc.state[i] = "not_saved" <=> svc.saved[i] = "none"

\* The boot has a replay before it whose entries are all pending; a replay
\* has those left that are, of the snapshot the service reports, and takes
\* them in their order.
WorkOf(t) ==
  /\ op[t].pc \in {"store_init", "service_init"} => op[t].kind = "boot"
  /\ op[t].pc = "wait" => op[t].kind \in {"save", "clear"}
  /\ op[t].pc \in {"acquire", "acquire_flash"} =>
       /\ op[t].kind \in {"save", "clear", "boot"}
       /\ op[t].kind = "boot" =>
            /\ svc.saved = snap
            /\ ItemsIn("applied") = {} /\ ItemsIn("failed") = {}
  /\ op[t].pc \in {"replay", "setting"} =>
       /\ svc.saved = snap
       /\ todo = ItemsIn("pending") /\ ItemsIn("failed") = {}

\* While an entry is set, its setter runs with the saved value; once the
\* setter has written it, the value stays until somebody else changes it.
SettingOf(t) ==
  op[t].pc = "setting" =>
    LET i == call[t].item
    IN /\ call[t].pc \notin {"idle", "vin_store"}
       /\ i \in todo /\ call[t].val = snap[i]
       /\ \A j \in todo : Rank(i, snap[i]) <= Rank(j, snap[j])
       /\ \/ call[t].pc = "vdd_off"
          \/ call[t].pc = "done" /\ call[t].ok
          => i \in touched \/ live[i] = snap[i]

\* What is applied is current also while an operation runs.
CurrentInv ==
  \A i \in Items :
    svc.state[i] = "applied" /\ i \notin touched => live[i] = svc.saved[i]

ReplayWorkInv ==
  /\ CountInv /\ AppliedIsAPrefix /\ CurrentInv
  /\ \A t \in Threads : WorkOf(t) /\ SettingOf(t)

\* Nobody keeps the service mutex: every operation that takes it, boot
\* included, ends and releases it (or the board is reset).
MutexReleased == \A t \in Threads : lock = t ~> lock # t

\* The service implements the abstract PersistentConfig: what is in flash
\* changes only by storing a snapshot that was captured in one consistent
\* read, confirmed if dangerous, or by a clear.
Captured ==
  LET saving == {t \in Threads : op[t].pc = "store"}
  IN [some |-> saving # {}, snap |-> IF saving # {} THEN snap ELSE EmptySnap]

Abstract == INSTANCE PersistentConfig
  WITH States <- [Items -> Values], Blobs <- Blobs, Dangerous <- Dangerous,
       stored <- flash, captured <- Captured, live <- live

ImplementsPersistentConfig == Abstract!AbstractSpec

\* GET's "pending" as docs/reference/persistent-configuration.md defines it:
\* "the count of saved items that are not currently applied".
PendingCountsUnapplied ==
  Quiet =>
    svc.pending =
      Cardinality({i \in Items : svc.state[i] \in {"pending", "failed"}})
=============================================================================
