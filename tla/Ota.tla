-------------------------------- MODULE Ota --------------------------------
(***************************************************************************)
(* Over-the-air update: linkr_debugger_ota.c with the watchdog half of     *)
(* linkr_debugger_control.c.  An image is uploaded to the secondary slot,  *)
(* booted once as a test by MCUboot, and confirmed by hand or by the       *)
(* watchdog health gate; a reset before that makes MCUboot swap back.      *)
(*                                                                         *)
(* One step is one stretch between two points at which another thread or a *)
(* reset can come in.  ota_lock serializes the handlers, so most of them   *)
(* are one step; the test request and the confirm write flash while they   *)
(* hold the lock, and busy says what the holder does next.  The supervisor *)
(* and the fault hook take only control_lock and run between those steps.  *)
(* The reboot and auto-confirm handlers share the cooperative system work  *)
(* queue, so neither starts while the other is under way, and nothing runs *)
(* between the unlock and the sys_reboot of the first.                     *)
(***************************************************************************)
EXTENDS Integers, FiniteSets

CONSTANTS
  Uploaders,      \* connections that POST to /api/v1/ota/upload
  NoUploader,     \* no connection
  Images,         \* MCUboot images
  Factory,        \* the image the board starts with
  Size,           \* bound: the fragments an image takes
  Others,         \* the other users of the flash arbiter
  FaultBuild,     \* CONFIG_LINKR_DEBUGGER_FAULT_INJECTION
  Sites           \* what may happen to a board: who uploads and which images,
                  \* whether the server hands over the body of a POST already
                  \* refused, and what clears the scratch registers

ASSUME OtaAssumption ==
  /\ NoUploader \notin Uploaders
  /\ Factory \in Images
  /\ Size \in Nat \ {0}
  /\ {"none", "ota"} \cap Others = {}
  /\ {"empty", "partial"} \cap Images = {}
  /\ FaultBuild \in BOOLEAN
  /\ Sites \subseteq [uploaders : SUBSET Uploaders, images : SUBSET Images,
                       drains : BOOLEAN, interruptions : SUBSET {"power", "bootsel"}]

(* The state:
     site        what may happen to this board; it never changes
     mode        the application runs, or the ROM is in BOOTSEL
     ota         linkr_debugger_ota, with the upload and failed clients
     uploads     [Uploaders -> how far the server is with the connection's POST]
     busy        the handler that holds ota_lock across steps, and its step
     otaFlash    the flash arbiter
     slot        the MCUboot slots, image_ok and a requested test swap
     scratch     the retained OTA test marker and BOOTSEL marker
     wd          the watchdog and the fault hook
     work        the reboot and auto-confirm work items
     lastGood    history: the last image that ran confirmed
     accepted    history: a test request was answered 202 since boot *)
VARIABLES site, mode, ota, uploads, busy, otaFlash, slot, scratch, wd, work,
          lastGood, accepted

otaVars == <<site, mode, ota, uploads, busy, otaFlash, slot, scratch, wd, work,
             lastGood, accepted>>

States == {"idle", "uploading", "verified", "pending_test", "rebooting",
           "failed"}

OtaStates == [st: States, upl: Uploaders \cup {NoUploader},
              failc: Uploaders \cup {NoUploader},
              img: Images, written: 0..Size, intact: BOOLEAN]

Slots == [primary: Images, secondary: Images \cup {"empty", "partial"},
          confirmed: BOOLEAN, test: BOOLEAN]

OtaTypeOK ==
  /\ site \in Sites
  /\ mode \in {"run", "bootsel"}
  /\ ota \in OtaStates
  /\ uploads \in [Uploaders -> {"idle", "body", "tail"}]
  /\ busy \in {"free", "test_request", "test_plan", "manual_write",
               "manual_clear", "auto_write", "auto_clear"}
  /\ otaFlash \in {"none", "ota"} \cup Others
  /\ slot \in Slots
  /\ scratch \in [ota: BOOLEAN, bootsel: BOOLEAN]
  /\ wd \in [armed: BOOLEAN, planned: BOOLEAN, fault: BOOLEAN,
             confirming: BOOLEAN]
  /\ work \in [reboot: BOOLEAN, auto: {"off", "scheduled", "health", "gate"}]
  /\ lastGood \in Images
  /\ accepted \in BOOLEAN

Idle == [st |-> "idle", upl |-> NoUploader, failc |-> NoUploader, img |-> Factory,
         written |-> 0, intact |-> TRUE]
Quiet == [armed |-> FALSE, planned |-> FALSE, fault |-> FALSE,
          confirming |-> FALSE]

OtaInit ==
  /\ site \in Sites
  /\ mode = "run"
  /\ ota = Idle
  /\ uploads = [c \in Uploaders |-> "idle"]
  /\ busy = "free"
  /\ otaFlash = "none"
  /\ slot = [primary |-> Factory, secondary |-> "empty", confirmed |-> TRUE,
             test |-> FALSE]
  /\ scratch = [ota |-> FALSE, bootsel |-> FALSE]
  /\ wd = Quiet
  /\ work = [reboot |-> FALSE, auto |-> "off"]
  /\ lastGood = Factory
  /\ accepted = FALSE

Free == mode = "run" /\ busy = "free"

-----------------------------------------------------------------------------
(* Helpers of linkr_debugger_ota.c.                                        *)

\* linkr_debugger_ota_flash_owner_release: a no-op unless OTA owns the flash.
Released == IF otaFlash = "ota" THEN "none" ELSE otaFlash

\* linkr_debugger_ota_refresh_persistent_state_locked on state s, for the
\* given marker and image_ok flag.
Refreshed(s, marker, confirmed) ==
  IF /\ marker /\ ~confirmed
     /\ s \notin {"uploading", "verified", "rebooting"}
  THEN "pending_test"
  ELSE IF ~marker /\ confirmed /\ s = "pending_test" THEN "idle"
  ELSE s

\* The POST of c after a fragment: over, or more body to come.  After an
\* early answer only a draining server delivers the rest.
DeliverPost(c, final, answered) ==
  uploads' = [uploads EXCEPT ![c] =
             IF final \/ (answered /\ ~site.drains) THEN "tail" ELSE "body"]

\* linkr_debugger_ota_set_failed_locked, and the context of the upload is
\* cleaned up if it has one.
Failed(o) == [o EXCEPT !.st = "failed", !.upl = NoUploader]

-----------------------------------------------------------------------------
(* The upload.                                                             *)

\* The failed upload of c is remembered, and the flash handed back.
write_fails(o, c) ==
  /\ ota' = [Failed(o) EXCEPT !.failc = c]
  /\ otaFlash' = "none"

\* The secondary slot holds x.  The erase ahead of the first write may or may
\* not reach a swap request in the slot's trailer.
slot_holds(x) ==
  \E keep \in {slot.test, FALSE} :
    slot' = [slot EXCEPT !.secondary = x, !.test = keep]

\* linkr_debugger_ota_write_locked: len units from connection c, intact or
\* not.  The size is checked before the write; size, digest and MCUboot
\* header once the final fragment is written.
write_locked(o, c, len, good, final) ==
  LET n    == o.written + len
      next == [o EXCEPT !.written = n, !.intact = IF good THEN @ ELSE FALSE]
  IN \/ n > Size /\ write_fails(o, c) /\ UNCHANGED slot
     \/ n <= Size /\ write_fails(o, c) /\ slot_holds("partial")   \* flash_write_failed
     \/ /\ n <= Size /\ ~final
        /\ ota' = next /\ otaFlash' = "ota" /\ slot_holds("partial")
     \/ /\ final /\ n = Size /\ next.intact
        /\ ota' = [next EXCEPT !.st = "verified", !.upl = NoUploader]
        /\ otaFlash' = "none"
        /\ slot_holds(o.img)

\* Mutant of Refuses: a pending test does not keep the slot.
RefusesUnlessPending == ota.st \in {"uploading", "rebooting"} \/ otaFlash # "none"

\* linkr_debugger_ota_begin_locked, the -EBUSY cases.
Refuses ==
  \/ ota.st \in {"uploading", "pending_test", "rebooting"}
  \/ otaFlash # "none"

\* linkr_debugger_ota_handle_upload with headers: the first fragment of a
\* POST.  A refusal is answered 409, or swallowed when an earlier error still
\* stands; bad headers fail the upload; good ones start it and the fragment
\* is written.
upload_first(c, img, len, good, final) ==
  /\ Free
  /\ uploads[c] = "idle"
  /\ \/ /\ Refuses
        /\ IF ota.st = "failed"
           THEN /\ ota' = [ota EXCEPT !.failc = c]
                /\ DeliverPost(c, final, FALSE)
           ELSE /\ UNCHANGED ota
                /\ DeliverPost(c, final, TRUE)
        /\ UNCHANGED <<otaFlash, slot>>
     \/ /\ ~Refuses
        /\ ota' = [Failed(ota) EXCEPT !.failc = c]
        /\ DeliverPost(c, final, FALSE)
        /\ UNCHANGED <<otaFlash, slot>>
     \/ /\ ~Refuses
        /\ write_locked([st |-> "uploading", upl |-> c, failc |-> NoUploader,
                         img |-> img, written |-> 0, intact |-> TRUE],
                        c, len, good, final)
        /\ DeliverPost(c, final, FALSE)
  /\ UNCHANGED <<mode, busy, scratch, wd, work, lastGood, accepted>>

\* linkr_debugger_ota_handle_upload without headers: a later fragment.
upload_more(c, len, good, final) ==
  /\ Free
  /\ uploads[c] = "body"
  /\ \/ /\ ota.st = "failed" /\ ota.failc = c
        /\ DeliverPost(c, final, FALSE)
        /\ UNCHANGED <<ota, otaFlash, slot>>
     \/ /\ ota.st # "uploading"
        /\ ~(ota.st = "failed" /\ ota.failc = c)
        /\ ota' = [ota EXCEPT !.st = "failed"]     \* upload_not_started
        /\ otaFlash' = Released
        /\ DeliverPost(c, final, TRUE)
        /\ UNCHANGED slot
     \/ /\ ota.st = "uploading" /\ ota.upl # c
        /\ DeliverPost(c, final, TRUE)
        /\ UNCHANGED <<ota, otaFlash, slot>>
     \/ /\ ota.st = "uploading" /\ ota.upl = c
        /\ write_locked(ota, c, len, good, final)
        /\ DeliverPost(c, final, FALSE)
  /\ UNCHANGED <<mode, busy, scratch, wd, work, lastGood, accepted>>

\* linkr_debugger_ota_handle_upload, transaction aborted or complete:
\* linkr_debugger_ota_abort_locked for the client of the upload.
upload_end(c) ==
  LET aborts == c = ota.upl /\ ota.st = "uploading"
      o      == IF aborts THEN Failed(ota) ELSE ota
  IN /\ Free
     /\ uploads[c] # "idle"
     /\ ota' = [o EXCEPT !.failc = IF @ = c THEN NoUploader ELSE @]
     /\ otaFlash' = IF aborts THEN Released ELSE otaFlash
     /\ uploads' = [uploads EXCEPT ![c] = "idle"]
     /\ UNCHANGED <<mode, busy, slot, scratch, wd, work, lastGood, accepted>>

\* linkr_debugger_ota_handle_status.
handle_status ==
  /\ Free
  /\ ota' = [ota EXCEPT !.st = Refreshed(@, scratch.ota, slot.confirmed)]
  /\ UNCHANGED <<mode, uploads, busy, otaFlash, slot, scratch, wd, work,
                 lastGood, accepted>>

-----------------------------------------------------------------------------
(* The test request.                                                       *)

\* linkr_debugger_ota_handle_test, up to the marker: the flash is taken, the
\* reboot work scheduled and the retained marker set.
handle_test ==
  /\ Free
  /\ ota.st = "verified"
  /\ otaFlash = "none"
  /\ ota' = [ota EXCEPT !.st = "rebooting"]
  /\ otaFlash' = "ota"
  /\ work' = [work EXCEPT !.reboot = TRUE]
  /\ scratch' = [scratch EXCEPT !.ota = TRUE]
  /\ busy' = "test_request"
  /\ UNCHANGED <<mode, uploads, slot, wd, lastGood, accepted>>

\* Mutant of test_request: a failed request leaves the flash taken.
test_request_leaks ==
  /\ mode = "run" /\ busy = "test_request"
  /\ scratch' = [scratch EXCEPT !.ota = FALSE]
  /\ ota' = [ota EXCEPT !.st = "verified"]
  /\ work' = [work EXCEPT !.reboot = FALSE]
  /\ busy' = "free"
  /\ UNCHANGED <<mode, uploads, slot, otaFlash, wd, lastGood, accepted>>

\* linkr_debugger_ota_handle_test, boot_request_upgrade.  When it fails all
\* is undone; the cancel is too late for a work item that already waits for
\* ota_lock.
test_request ==
  /\ mode = "run" /\ busy = "test_request"
  /\ \/ /\ slot' = [slot EXCEPT !.test = TRUE]
        /\ busy' = "test_plan"
        /\ UNCHANGED <<ota, otaFlash, scratch, work>>
     \/ /\ \E late \in BOOLEAN : work' = [work EXCEPT !.reboot = late]
        /\ scratch' = [scratch EXCEPT !.ota = FALSE]
        /\ ota' = [ota EXCEPT !.st = "verified"]
        /\ otaFlash' = Released
        /\ busy' = "free"
        /\ UNCHANGED slot
  /\ UNCHANGED <<mode, uploads, wd, lastGood, accepted>>

\* linkr_debugger_watchdog_prepare_planned_reboot, then the 202 answer: the
\* supervisor stands still, the watchdog is off and the BOOTSEL marker gone,
\* unless the hardware refuses to be disabled.
test_plan ==
  /\ mode = "run" /\ busy = "test_plan"
  /\ \/ /\ wd' = [wd EXCEPT !.planned = TRUE, !.armed = FALSE]
        /\ scratch' = [scratch EXCEPT !.bootsel = FALSE]
     \/ /\ wd' = [wd EXCEPT !.planned = FALSE]
        /\ UNCHANGED scratch
  /\ accepted' = TRUE
  /\ busy' = "free"
  /\ UNCHANGED <<mode, ota, uploads, otaFlash, slot, work, lastGood>>

-----------------------------------------------------------------------------
(* Confirming the running image.                                           *)

\* The confirm sections shared by linkr_debugger_ota_handle_confirm and the
\* auto-confirm handler.  fault_injection_confirm_begin and the flash come
\* first ...
confirm_enter(who) ==
  /\ ~wd.fault
  /\ otaFlash = "none"
  /\ wd' = [wd EXCEPT !.confirming = TRUE]
  /\ otaFlash' = "ota"
  /\ busy' = who

\* ... then boot_write_img_confirmed; a failure ends the attempt, and for
\* the automatic one there is no other ...
confirm_write(who, clear) ==
  /\ mode = "run" /\ busy = who
  /\ \/ /\ slot' = [slot EXCEPT !.confirmed = TRUE]
        /\ lastGood' = slot.primary
        /\ busy' = clear
        /\ UNCHANGED <<otaFlash, wd, work>>
     \/ /\ wd' = [wd EXCEPT !.confirming = FALSE]
        /\ otaFlash' = Released
        /\ busy' = "free"
        /\ work' = [work EXCEPT !.auto = IF who = "auto_write" THEN "off"
                                         ELSE @]
        /\ UNCHANGED <<slot, lastGood>>
  /\ UNCHANGED <<mode, ota, uploads, scratch, accepted>>

\* ... then the marker is cleared, confirm_end and the release.
confirm_clear(clear) ==
  /\ mode = "run" /\ busy = clear
  /\ scratch' = [scratch EXCEPT !.ota = FALSE]
  /\ wd' = [wd EXCEPT !.confirming = FALSE]
  /\ ota' = [ota EXCEPT !.st = "idle"]
  /\ otaFlash' = Released
  /\ busy' = "free"
  /\ work' = [work EXCEPT !.auto = IF clear = "auto_clear" THEN "off" ELSE @]
  /\ UNCHANGED <<mode, uploads, slot, lastGood, accepted>>

\* linkr_debugger_ota_handle_confirm.
handle_confirm ==
  /\ Free
  /\ ota.st # "uploading"
  /\ confirm_enter("manual_write")
  /\ UNCHANGED <<mode, ota, uploads, slot, scratch, work, lastGood, accepted>>

RefreshedOta ==
  [ota EXCEPT !.st = Refreshed(@, scratch.ota, slot.confirmed)]

\* Both locked stretches of linkr_debugger_ota_auto_confirm_work_handler
\* begin alike.  Without a marker the work is done, before or after the
\* state is refreshed; ...
auto_unmarked ==
  /\ ~scratch.ota
  /\ ota' \in {ota, RefreshedOta}
  /\ work' = [work EXCEPT !.auto = "off"]
  /\ UNCHANGED <<busy, otaFlash, scratch, wd>>

\* ... a marker left over from a rollback is cleared; ...
auto_leftover ==
  /\ scratch.ota /\ slot.confirmed /\ RefreshedOta.st = "idle" /\ ~wd.fault
  /\ ota' = RefreshedOta
  /\ scratch' = [scratch EXCEPT !.ota = FALSE]
  /\ work' = [work EXCEPT !.auto = "off"]
  /\ UNCHANGED <<busy, otaFlash, wd>>

\* ... in any other state than a pending test the work is tried again later.
auto_again ==
  /\ ota' = RefreshedOta
  /\ work' = [work EXCEPT !.auto = "scheduled"]
  /\ UNCHANGED <<busy, otaFlash, scratch, wd>>

auto_not_pending ==
  /\ scratch.ota
  /\ \/ slot.confirmed /\ RefreshedOta.st = "idle" /\ wd.fault
     \/ RefreshedOta.st \notin {"idle", "pending_test"}
     \/ RefreshedOta.st = "idle" /\ ~slot.confirmed
  /\ auto_again

\* The first stretch.
auto_check ==
  /\ Free
  /\ work.auto = "scheduled"
  /\ \/ auto_unmarked
     \/ auto_leftover
     \/ auto_not_pending
     \/ /\ scratch.ota /\ RefreshedOta.st = "pending_test"
        /\ ota' = RefreshedOta
        /\ work' = [work EXCEPT !.auto = "health"]
        /\ UNCHANGED <<busy, otaFlash, scratch, wd>>
  /\ UNCHANGED <<mode, uploads, slot, lastGood, accepted>>

\* Between the stretches: linkr_debugger_watchdog_status_get, under
\* control_lock alone.  An armed fault counts as unhealthy.
auto_health ==
  /\ mode = "run"
  /\ work.auto = "health"
  /\ \/ /\ wd.armed /\ ~wd.fault
        /\ work' = [work EXCEPT !.auto = "gate"]
     \/ work' = [work EXCEPT !.auto = "scheduled"]
  /\ UNCHANGED <<mode, ota, uploads, busy, otaFlash, slot, scratch, wd,
                 lastGood, accepted>>

\* The second stretch, up to the confirm write.
auto_gate ==
  /\ Free
  /\ work.auto = "gate"
  /\ \/ auto_unmarked
     \/ auto_leftover
     \/ auto_not_pending
     \/ /\ scratch.ota /\ RefreshedOta.st = "pending_test"
        /\ otaFlash # "none" \/ wd.fault
        /\ auto_again
     \/ /\ scratch.ota /\ RefreshedOta.st = "pending_test"
        /\ ota' = RefreshedOta
        /\ confirm_enter("auto_write")
        /\ UNCHANGED <<scratch, work>>
  /\ UNCHANGED <<mode, uploads, slot, lastGood, accepted>>

-----------------------------------------------------------------------------
(* The watchdog.                                                           *)

\* linkr_debugger_watchdog_supervisor_thread_main, a healthy round: arm and
\* feed, or give up until the next round.  It skips a planned reboot, and an
\* unhealthy round (an armed fault is one) touches neither.
supervisor ==
  /\ mode = "run"
  /\ ~wd.planned /\ ~wd.fault
  /\ \E fed \in BOOLEAN :
       /\ wd' = [wd EXCEPT !.armed = fed]
       /\ scratch' = [scratch EXCEPT !.bootsel = fed]
  /\ UNCHANGED <<mode, ota, uploads, busy, otaFlash, slot, work, lastGood,
                 accepted>>

\* linkr_debugger_watchdog_fault_injection_arm.
fault_injection_arm ==
  /\ mode = "run" /\ FaultBuild
  /\ ~wd.fault /\ ~wd.confirming /\ scratch.ota
  /\ wd' = [wd EXCEPT !.fault = TRUE]
  /\ UNCHANGED <<mode, ota, uploads, busy, otaFlash, slot, scratch, work,
                 lastGood, accepted>>

\* linkr_debugger_watchdog_fault_injection_disarm, or the armed window ran
\* out.
fault_injection_disarm ==
  /\ mode = "run" /\ wd.fault
  /\ wd' = [wd EXCEPT !.fault = FALSE]
  /\ UNCHANGED <<mode, ota, uploads, busy, otaFlash, slot, scratch, work,
                 lastGood, accepted>>

-----------------------------------------------------------------------------
(* Resets.                                                                 *)

\* MCUboot in swap mode (external): a requested test of a complete image is
\* swapped in unconfirmed; an image that was not confirmed is swapped back,
\* if the secondary slot still holds one.
mcuboot ==
  LET swap == slot.secondary \in Images /\ (slot.test \/ ~slot.confirmed)
  IN [primary   |-> IF swap THEN slot.secondary ELSE slot.primary,
      secondary |-> IF swap THEN slot.primary ELSE slot.secondary,
      confirmed |-> IF swap THEN ~slot.test ELSE slot.confirmed,
      test      |-> FALSE]

\* Mutant of boot_check: the OTA test marker does not spare the test image.
boot_check_ignores_test(timer, marks) ==
  IF timer /\ marks.bootsel
  THEN /\ mode' = "bootsel"
       /\ scratch' = [marks EXCEPT !.bootsel = FALSE]
  ELSE mode' = "run" /\ scratch' = marks

\* linkr_debugger_watchdog_boot_check: after a timer reset with the BOOTSEL
\* marker the ROM takes over, unless an OTA test is marked.
boot_check(timer, marks) ==
  /\ mode' = IF timer /\ marks.bootsel /\ ~marks.ota THEN "bootsel" ELSE "run"
  /\ scratch' = IF timer THEN [marks EXCEPT !.bootsel = FALSE] ELSE marks

\* main: MCUboot, boot_check, then linkr_debugger_ota_init and
\* linkr_debugger_ota_auto_confirm_ready on fresh RAM.
Boot(timer, marks) ==
  /\ slot' = mcuboot
  /\ boot_check(timer, marks)
  /\ ota' = [Idle EXCEPT !.st = Refreshed("idle", marks.ota, slot'.confirmed)]
  /\ work' = [reboot |-> FALSE, auto |-> IF marks.ota THEN "scheduled"
                                         ELSE "off"]
  /\ uploads' = [c \in Uploaders |-> "idle"]
  /\ busy' = "free"
  /\ otaFlash' = "none"
  /\ wd' = Quiet
  /\ lastGood' = IF slot'.confirmed THEN slot'.primary ELSE lastGood
  /\ accepted' = FALSE

Unmarked == [ota |-> FALSE, bootsel |-> FALSE]

\* The system work queue is not inside the auto-confirm handler.
QueueFree == work.auto \in {"off", "scheduled"}

\* linkr_debugger_ota_reboot_work_handler that finds the state gone.
reboot_work_skipped ==
  /\ Free /\ QueueFree
  /\ work.reboot
  /\ ota.st # "rebooting" \/ otaFlash # "ota"
  /\ work' = [work EXCEPT !.reboot = FALSE]
  /\ UNCHANGED <<mode, ota, uploads, busy, otaFlash, slot, scratch, wd,
                 lastGood, accepted>>

\* linkr_debugger_ota_reboot_work_handler: a cold reboot keeps the scratch
\* registers; the chip may report it as a timer reset.
reboot_work ==
  /\ Free /\ QueueFree
  /\ work.reboot /\ ota.st = "rebooting" /\ otaFlash = "ota"
  /\ \E timer \in BOOLEAN : Boot(timer, scratch)

\* The hardware watchdog runs out: a hang, or an armed fault.
watchdog_reset ==
  /\ mode = "run" /\ wd.armed
  /\ Boot(TRUE, scratch)

power_cycle ==
  /\ mode = "bootsel" \/ "power" \in site.interruptions
  /\ Boot(FALSE, Unmarked)

\* linkr_debugger_bootloader_now: both markers go, the ROM takes over.
bootloader_now ==
  /\ mode = "run" /\ "bootsel" \in site.interruptions
  /\ mode' = "bootsel"
  /\ scratch' = Unmarked
  /\ wd' = [wd EXCEPT !.armed = FALSE]
  /\ UNCHANGED <<ota, uploads, busy, otaFlash, slot, work, lastGood, accepted>>

\* The other users of the flash arbiter.
other_users ==
  /\ mode = "run"
  /\ \/ otaFlash = "none" /\ otaFlash' \in Others
     \/ otaFlash \in Others /\ otaFlash' = "none"
  /\ UNCHANGED <<mode, ota, uploads, busy, slot, scratch, wd, work, lastGood,
                 accepted>>

-----------------------------------------------------------------------------
Uploads ==
  \E c \in site.uploaders :
    \/ \E len \in 0..1, good \in BOOLEAN, final \in BOOLEAN :
         \/ \E img \in site.images : upload_first(c, img, len, good, final)
         \/ upload_more(c, len, good, final)
    \/ upload_end(c)

OtaStep ==
  \/ Uploads
  \/ handle_status
  \/ handle_test \/ test_request \/ test_plan
  \/ handle_confirm
  \/ confirm_write("manual_write", "manual_clear")
  \/ confirm_clear("manual_clear")
  \/ auto_check \/ auto_health \/ auto_gate
  \/ confirm_write("auto_write", "auto_clear")
  \/ confirm_clear("auto_clear")
  \/ supervisor \/ fault_injection_arm \/ fault_injection_disarm
  \/ reboot_work \/ reboot_work_skipped
  \/ watchdog_reset \/ power_cycle \/ bootloader_now
  \/ other_users

OtaNext == OtaStep /\ UNCHANGED site

OtaSpec == OtaInit /\ [][OtaNext]_otaVars

-----------------------------------------------------------------------------
(* Properties.                                                             *)

\* The flash arbiter is held by OTA exactly while an upload, a reboot into a
\* test or a confirm needs it: every failing path of every handler hands it
\* back, and none loses it early.
FlashHeldWhileNeeded ==
  mode = "run" =>
    (otaFlash = "ota" <=>
       \/ ota.st \in {"uploading", "rebooting"}
       \/ busy \in {"manual_write", "manual_clear", "auto_write",
                    "auto_clear"})

\* An upload in progress belongs to a connection whose POST is still open,
\* so an aborted or complete transaction always ends it; and no connection is
\* remembered as uploading without one.
UploadHasOpenPost ==
  mode = "run" =>
    IF ota.st = "uploading" THEN ota.upl \in Uploaders /\ uploads[ota.upl] = "body"
    ELSE ota.upl = NoUploader

\* The gate between two locks: no confirm is between its entry and its end
\* while the fault that is to prove the rollback is armed.
FaultExcludesConfirm ==
  busy \in {"manual_write", "manual_clear", "auto_write", "auto_clear"} =>
    ~wd.fault

\* The owners and gates of the three handlers agree with what they do.
HandlersAreGuarded == FlashHeldWhileNeeded /\ UploadHasOpenPost /\ FaultExcludesConfirm

\* A test request that was answered 202 reboots: until the reset the state
\* and the flash stay as the reboot work wants them, so it cannot be skipped.
AcceptedTestReboots ==
  mode = "run" /\ accepted =>
    work.reboot /\ ota.st = "rebooting" /\ otaFlash = "ota"

\* While an unconfirmed image runs, the secondary slot holds the image that
\* last ran confirmed: MCUboot has something to roll back to.
RollbackImageKept == ~slot.confirmed => slot.secondary = lastGood

\* MCUboot is never asked to test a half-written image.
TestedImageIsComplete == slot.test => slot.secondary \in Images

\* One client, a refused body that ends with the refusal, and scratch
\* registers that last: what the roll back of a test relies on.
Undisturbed ==
  ~site.drains /\ site.interruptions = {} /\ \E c \in Uploaders : site.uploaders = {c}

\* Then a test that was accepted happens, of a whole image, and the image to
\* roll back to stays.
UpdateCanRollBack ==
  Undisturbed => AcceptedTestReboots /\ TestedImageIsComplete /\ RollbackImageKept

\* "an unconfirmed test image reset can request MCUboot rollback rather than
\* ROM BOOTSEL": a watchdog reset of an unconfirmed image ends in the
\* application, running the image that last ran confirmed.
RollsBack ==
  watchdog_reset /\ ~slot.confirmed =>
    mode' = "run" /\ slot'.primary = lastGood /\ slot'.confirmed
UpdateRollsBack == [][Undisturbed => RollsBack]_otaVars

=============================================================================
