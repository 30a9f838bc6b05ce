------------------------------ MODULE OtaClient ------------------------------
(***************************************************************************)
(* The firmware page of the web application: the card of the over-the-air  *)
(* update (OtaCard.tsx with lib/ota.ts) and the card that enters the       *)
(* bootloader (BootCard.tsx).  The card polls the state of the update while*)
(* it is visible, hashes the image that was picked, and uploads, tests and *)
(* confirms under the automation lock.  Leaving the card aborts nothing:   *)
(* what it started ends behind it and writes the status, which belongs to  *)
(* the page.                                                               *)
(***************************************************************************)
EXTENDS Integers, FiniteSets

CONSTANTS
  Images,       \* bound: the kinds of file that are picked, [bin, size]
  SlotSize,     \* max_size of the firmware
  MaxCards,     \* bound: how often the card is opened
  MaxEvents     \* bound: the clicks, picks, turns of the page and lost requests

Cards == 1..MaxCards

(* The state:
     oc     the mount of OtaCard: busyAction, the file and the sha it shows,
            selectedJobRef, the generation of the poll effect and whether it
            was cleaned up, the timers that run, pollTimerRef
     otaPage what outlives it: the status, the automation lock, whether the
            document is hidden, the mounts within their reboot grace
     calls  the requests and hashes under way, each with the mount it is of
     odev   the debugger: the state it reports, is it reachable *)
VARIABLES oc, otaPage, calls, odev

otaClientVars == <<oc, otaPage, calls, odev>>

OtaStates ==
  {"idle", "uploading", "verified", "pending_test", "rebooting", "failed", "unknown"}
NoStatus == [state |-> "none", confirmed |-> "null", max |-> 0]

(* normalizeOtaStatus: a state this page does not know is "unknown".        *)
Normalize(report) ==
  [state |-> IF report.state \in OtaStates THEN report.state ELSE "unknown",
   confirmed |-> report.confirmed, max |-> report.max]

Report == [state |-> odev.state, confirmed |-> odev.confirmed, max |-> SlotSize]

NoCall ==
  [kind |-> "none", mount |-> 0, pc |-> "out", ok |-> FALSE, file |-> 0, sha |-> 0,
   job |-> 0, mode |-> "poll", then |-> 0, report |-> NoStatus]
StatusCall(mount, mode, then) ==
  [NoCall EXCEPT !.kind = "status", !.mount = mount, !.mode = mode, !.then = then]
Confirming == -1    \* the continuation of a status request: handleConfirm

NewCard(mount) ==
  [mount |-> mount, mounted |-> TRUE, busy |-> "none", file |-> 0, sha |-> 0,
   job |-> 0, picks |-> 0, gen |-> 1, live |-> ~otaPage.hidden,
   timers |-> IF otaPage.hidden THEN {} ELSE {1}, ref |-> IF otaPage.hidden THEN 0 ELSE 1]

OtaClientInit ==
  /\ otaPage = [status |-> NoStatus, lock |-> "none", hidden |-> FALSE, grace |-> {},
                events |-> 0]
  /\ oc = NewCard(1)
  /\ calls = {StatusCall(1, "poll", 0)}
  /\ odev = [state |-> "idle", confirmed |-> "yes", online |-> TRUE]

Here(call) == oc.mounted /\ call.mount = oc.mount
InFlight(mount) == \E call \in calls : call.kind = "status" /\ call.mount = mount
Acting == {call \in calls : call.kind \in {"upload", "test", "confirm", "boot"}
                              \/ call.then = Confirming}

CanUpload(status) ==
  status.state \notin {"none", "uploading", "pending_test", "rebooting", "unknown"}
CanStartTest(status) == status.state = "verified"
CanConfirm(status) == status.state = "pending_test" /\ status.confirmed = "no"

-----------------------------------------------------------------------------
(* The poll.  refreshStatus asks unless it is asking already; the loop      *)
(* awaits it and sets its next timer unless its effect was cleaned up.      *)
Looped(card, gen) ==
  IF gen = card.gen /\ card.live
  THEN [card EXCEPT !.timers = @ \cup {gen}, !.ref = gen] ELSE card

PollTimer(gen) ==
  /\ oc.mounted /\ gen \in oc.timers /\ UNCHANGED <<otaPage, odev>>
  /\ LET fired == [oc EXCEPT !.timers = @ \ {gen}]
     IN IF InFlight(oc.mount) THEN oc' = Looped(fired, gen) /\ UNCHANGED calls
        ELSE oc' = fired /\ calls' = calls \cup {StatusCall(oc.mount, "poll", gen)}

RefreshOta ==
  /\ oc.mounted /\ ~InFlight(oc.mount) /\ oc.busy # "uploading"
  /\ otaPage.events < MaxEvents /\ otaPage' = [otaPage EXCEPT !.events = @ + 1]
  /\ calls' = calls \cup {StatusCall(oc.mount, "manual", 0)}
  /\ UNCHANGED <<oc, odev>>

(* The cleanup of the poll effect.                                          *)
Stopped(card) ==
  [card EXCEPT !.live = FALSE, !.timers = @ \ {card.ref}, !.ref = 0]

TurnPage ==
  /\ otaPage.events < MaxEvents
  /\ otaPage' = [otaPage EXCEPT !.hidden = ~@, !.events = @ + 1]
  /\ UNCHANGED <<calls, odev>>
  /\ oc' = IF ~oc.mounted THEN oc
           ELSE IF otaPage.hidden
           THEN [oc EXCEPT !.gen = @ + 1, !.live = TRUE, !.timers = @ \cup {oc.gen + 1},
                           !.ref = oc.gen + 1]
           ELSE Stopped(oc)

LeaveOta ==
  /\ oc.mounted /\ oc.mount < MaxCards /\ otaPage.events < MaxEvents
  /\ oc' = [Stopped(oc) EXCEPT !.mounted = FALSE, !.busy = "none", !.file = 0,
                               !.sha = 0]
  /\ otaPage' = [otaPage EXCEPT !.events = @ + 1]
  /\ UNCHANGED <<calls, odev>>

OpenOta ==
  /\ ~oc.mounted
  /\ oc' = NewCard(oc.mount + 1)
  /\ calls' = calls \cup {StatusCall(oc.mount + 1, "poll", 0)}
  /\ UNCHANGED <<otaPage, odev>>

-----------------------------------------------------------------------------
(* The image.  A file is known by the pick that brought it.  The input stays reachable while the card is busy, the drop   *)
(* does not; a file that is refused leaves the hash of another running.     *)
PickImage(image) ==
  LET picked == [oc EXCEPT !.file = 0, !.sha = 0]
      max == otaPage.status.max
  IN /\ oc.mounted /\ otaPage.events < MaxEvents
     /\ otaPage' = [otaPage EXCEPT !.events = @ + 1] /\ UNCHANGED odev
     /\ IF ~image.bin \/ image.size = 0 \/ (max # 0 /\ image.size > max)
        THEN oc' = picked /\ UNCHANGED calls
        ELSE /\ oc' = [picked EXCEPT !.job = @ + 1, !.file = oc.job + 1, !.busy = "hashing"]
             /\ calls' = calls \cup
                  {[NoCall EXCEPT !.kind = "hash", !.mount = oc.mount, !.job = oc.job + 1,
                                  !.file = oc.job + 1]}

FileChanged == \E image \in Images : PickImage(image)
FileDropped == oc.busy = "none" /\ \E image \in Images : PickImage(image)

\* Mutant of Hashed: the hash of a file that was replaced is taken as well.
HashedAnyway(card, call, ok) ==
  IF ok THEN [card EXCEPT !.sha = call.file, !.busy = "none"]
  ELSE [card EXCEPT !.file = 0, !.sha = 0, !.busy = "none"]

Hashed(card, call, ok) ==
  IF card.job # call.job THEN card
  ELSE IF ok THEN [card EXCEPT !.sha = call.file, !.busy = "none"]
  ELSE [card EXCEPT !.file = 0, !.sha = 0, !.busy = "none"]

HashEnds(call) ==
  /\ call.kind = "hash" /\ calls' = calls \ {call} /\ UNCHANGED <<otaPage, odev>>
  /\ \E ok \in BOOLEAN : oc' = IF Here(call) THEN Hashed(oc, call, ok) ELSE oc

-----------------------------------------------------------------------------
(* The actions.  A button is dead while any task of the page has the lock.  *)
Begin(kind, busy, call) ==
  /\ oc.mounted /\ otaPage.lock = "none" /\ otaPage.events < MaxEvents
  /\ otaPage' = [otaPage EXCEPT !.events = @ + 1, !.lock = IF kind = "boot" THEN "boot" ELSE "ota"]
  /\ oc' = [oc EXCEPT !.busy = busy]
  /\ calls' = calls \cup {[call EXCEPT !.kind = kind, !.mount = oc.mount]}
  /\ UNCHANGED odev

UploadClicked ==
  /\ oc.file # 0 /\ oc.sha # 0 /\ oc.busy = "none" /\ CanUpload(otaPage.status)
  /\ Begin("upload", "uploading", [NoCall EXCEPT !.file = oc.file, !.sha = oc.sha])
TestClicked ==
  oc.busy = "none" /\ CanStartTest(otaPage.status) /\ Begin("test", "testing", NoCall)
ConfirmClicked ==
  oc.busy = "none" /\ CanConfirm(otaPage.status) /\ Begin("confirm", "confirming", NoCall)
BootClicked == Begin("boot", oc.busy, NoCall)

(* The end of an action: busyAction is cleared where it still shows, the    *)
(* lock goes back from wherever it was taken.                               *)
Cleared(call) ==
  IF Here(call) /\ call.kind # "boot" THEN [oc EXCEPT !.busy = "none"] ELSE oc
Done(call, status) ==
  /\ oc' = Cleared(call)
  /\ otaPage' = [otaPage EXCEPT !.lock = "none", !.status = status]
  /\ calls' = calls \ {call} /\ UNCHANGED odev

UploadEnds(call) ==
  /\ call.kind = "upload" /\ call.pc = "back"
  /\ Done(call, IF call.ok THEN Normalize(call.report) ELSE otaPage.status)

CancelUpload(call) ==
  /\ call.kind = "upload" /\ Here(call) /\ oc.busy = "uploading"
  /\ oc' = Cleared(call) /\ otaPage' = [otaPage EXCEPT !.lock = "none"]
  /\ calls' = calls \ {call}
  /\ odev' = IF call.pc = "in" THEN [odev EXCEPT !.state = "failed"] ELSE odev

(* The grace is that of the mount that tests.                               *)
SetLocalRebooting(page, mount) ==
  [page EXCEPT !.grace = @ \cup {mount}, !.status.state = "rebooting"]

TestEnds(call) ==
  /\ call.kind = "test" /\ call.pc = "back" /\ UNCHANGED odev
  /\ oc' = Cleared(call) /\ calls' = calls \ {call}
  /\ LET page == [otaPage EXCEPT !.lock = "none"]
     IN otaPage' = IF call.ok THEN SetLocalRebooting(page, call.mount) ELSE page

GraceEnds(mount) ==
  /\ mount \in otaPage.grace
  /\ otaPage' = [otaPage EXCEPT !.grace = @ \ {mount}]
  /\ UNCHANGED <<oc, calls, odev>>

(* Behind a confirm the status is refreshed, unless it is being asked for.  *)
ConfirmEnds(call) ==
  /\ call.kind = "confirm" /\ call.pc = "back"
  /\ IF call.ok /\ ~InFlight(call.mount)
     THEN /\ calls' = (calls \ {call}) \cup {StatusCall(call.mount, "manual", Confirming)}
          /\ UNCHANGED <<oc, otaPage, odev>>
     ELSE Done(call, otaPage.status)

BootEnds(call) ==
  call.kind = "boot" /\ call.pc = "back" /\ Done(call, otaPage.status)

(* The try, catch and continuation of refreshStatus.                        *)
StatusArrives(call) ==
  LET report == Normalize(call.report)
      within == call.mount \in otaPage.grace
      over == \/ report.state = "pending_test"
              \/ report.state = "idle" /\ report.confirmed = "yes"
      lock == IF call.then = Confirming THEN "none" ELSE otaPage.lock
      page == [otaPage EXCEPT !.lock = lock]
  IN /\ call.kind = "status" /\ call.pc = "back" /\ calls' = calls \ {call} /\ UNCHANGED odev
     /\ otaPage' =
          CASE call.ok ->
                 [page EXCEPT !.status = IF within /\ report.state = "verified" THEN @ ELSE report,
                              !.grace = IF over THEN @ \ {call.mount} ELSE @]
            [] ~call.ok /\ call.mode = "poll" /\ within ->
                 [page EXCEPT !.status.state = "rebooting"]
            [] OTHER -> page
     /\ oc' = CASE ~Here(call) -> oc
                [] Here(call) /\ call.then = Confirming -> [oc EXCEPT !.busy = "none"]
                [] OTHER -> Looped(oc, call.then)

-----------------------------------------------------------------------------
(* The debugger and the way to it.                                          *)
Answer(call, ok, device) ==
  /\ calls' = (calls \ {call}) \cup
       {[call EXCEPT !.pc = "back", !.ok = ok,
           !.report = IF ok /\ call.kind \in {"status", "upload"}
                      THEN [Report EXCEPT !.state = device.state] ELSE NoStatus]}
  /\ odev' = device /\ UNCHANGED <<oc, otaPage>>

Serve(call) ==
  /\ call.pc = "out" /\ call.kind # "hash" /\ odev.online
  /\ CASE call.kind = "status" -> Answer(call, TRUE, odev)
       [] call.kind = "upload" /\ odev.state \in {"idle", "verified", "failed"} ->
            /\ odev' = [odev EXCEPT !.state = "uploading"]
            /\ calls' = (calls \ {call}) \cup {[call EXCEPT !.pc = "in"]}
            /\ UNCHANGED <<oc, otaPage>>
       [] call.kind = "test" /\ odev.state = "verified" ->
            Answer(call, TRUE, [odev EXCEPT !.state = "rebooting"])
       [] call.kind = "confirm" /\ odev.state = "pending_test" ->
            Answer(call, TRUE, [odev EXCEPT !.state = "idle", !.confirmed = "yes"])
       [] call.kind = "boot" -> Answer(call, TRUE, [odev EXCEPT !.state = "boot", !.online = FALSE])
       [] OTHER -> Answer(call, FALSE, odev)

(* The image is verified against the sha of its headers.                    *)
Received(call) ==
  /\ call.pc = "in"
  /\ IF call.sha = call.file
     THEN Answer(call, TRUE, [odev EXCEPT !.state = "verified"])
     ELSE Answer(call, FALSE, [odev EXCEPT !.state = "failed"])

(* The debugger cannot be reached, or the way to it or back fails.          *)
Lost(call) ==
  /\ call.kind # "hash"
  /\ \/ ~odev.online /\ call.pc = "out" /\ Answer(call, FALSE, odev)
     \/ /\ otaPage.events < MaxEvents /\ (call.pc = "back" => call.ok)
        /\ otaPage' = [otaPage EXCEPT !.events = @ + 1]
        /\ calls' = (calls \ {call}) \cup
             {[call EXCEPT !.pc = "back", !.ok = FALSE, !.report = NoStatus]}
        /\ odev' = IF call.pc = "in" THEN [odev EXCEPT !.state = "failed"] ELSE odev
        /\ UNCHANGED oc

(* The reboot of a test boot; the image may be confirmed by the debugger    *)
(* itself, and a reset before that takes it back.                           *)
GoesDown ==
  /\ odev.online /\ odev.state \in {"rebooting", "pending_test"}
  /\ odev' = [odev EXCEPT !.online = FALSE,
                          !.state = IF @ = "pending_test" THEN "rolled" ELSE @]
  /\ UNCHANGED <<oc, otaPage, calls>>
ComesUp ==
  /\ ~odev.online /\ odev.state \in {"rebooting", "rolled"}
  /\ odev' = [odev EXCEPT !.online = TRUE,
                !.state = IF @ = "rebooting" THEN "pending_test" ELSE "idle",
                !.confirmed = IF odev.state = "rebooting" THEN "no" ELSE "yes"]
  /\ UNCHANGED <<oc, otaPage, calls>>
ConfirmsItself ==
  /\ odev.online /\ odev.state = "pending_test"
  /\ odev' = [odev EXCEPT !.state = "idle", !.confirmed = "yes"]
  /\ UNCHANGED <<oc, otaPage, calls>>

-----------------------------------------------------------------------------
Arrives(call) ==
  UploadEnds(call) \/ TestEnds(call) \/ ConfirmEnds(call) \/ BootEnds(call)
    \/ StatusArrives(call) \/ HashEnds(call)
CallAnswers(call) == Serve(call) \/ Received(call) \/ Lost(call) \/ Arrives(call)
Polls == \E gen \in oc.timers : PollTimer(gen)

OtaClientNext ==
  \/ Polls \/ \E call \in calls : CallAnswers(call) \/ CancelUpload(call)
  \/ RefreshOta \/ TurnPage \/ LeaveOta \/ OpenOta
  \/ FileChanged \/ FileDropped \/ UploadClicked \/ TestClicked \/ ConfirmClicked \/ BootClicked
  \/ \E mount \in Cards : GraceEnds(mount)
  \/ GoesDown \/ ComesUp \/ ConfirmsItself

StatusAnswers == \E call \in calls : call.kind = "status" /\ CallAnswers(call)

(* Timers fire, and the requests of the status are answered or fail.        *)
OtaClientFairSpec ==
  /\ OtaClientInit /\ [][OtaClientNext]_otaClientVars
  /\ WF_otaClientVars(Polls)
  /\ WF_otaClientVars(StatusAnswers)

-----------------------------------------------------------------------------
\* One action at a time, on whichever mount it was started: two uploads, or a
\* test beside an upload, would meet at the debugger (automationTaskControl).
ActsAlone ==
  /\ Cardinality(Acting) <= 1
  /\ otaPage.lock # "none" <=> Acting # {}

\* The headers carry the sha of the file they are sent with, whatever was
\* picked while another file was hashed or uploaded (selectedJobRef).
SendsOwnSha ==
  /\ \A call \in calls : call.kind = "upload" => call.sha = call.file
  /\ oc.file # 0 /\ oc.sha # 0 => oc.sha = oc.file

\* A visible card has one poll loop, asleep or asking, also when it was hidden
\* and shown while it asked; a hidden one lets its loop run out.
PollsOnce ==
  IF oc.mounted /\ ~otaPage.hidden
  THEN /\ oc.timers \subseteq {oc.gen}
       /\ (oc.gen \in oc.timers) # (\E call \in calls : Here(call) /\ call.then = oc.gen)
  ELSE oc.timers = {}

\* What the card says it is busy with is under way: it never stays busy.
BusyIsReal ==
  oc.busy # "none" => \E call \in calls : Here(call) /\ call.kind # "boot"

\* What holds of the firmware page, on whichever mount of the card.
UpdatePageIsSound == ActsAlone /\ SendsOwnSha /\ PollsOnce /\ BusyIsReal

(* A visible card does not show what the debugger's update state is.        *)
StatusIsOld ==
  /\ oc.mounted /\ ~otaPage.hidden /\ odev.online
  /\ otaPage.status # Normalize(Report)
=============================================================================
