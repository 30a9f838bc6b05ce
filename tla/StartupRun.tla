----------------------------- MODULE StartupRun -----------------------------
(***************************************************************************)
(* The startup power analysis (StartupPowerAnalysis.tsx): a task that      *)
(* switches a rail off, arms a power capture, switches the rail on and     *)
(* follows the serial output until the target has booted.  With it the     *)
(* power analyzer of the other mode (PowerAnalyzer.tsx), and the lock that *)
(* keeps automated tasks apart (automationTask.ts).                        *)
(*                                                                         *)
(* start() is a chain of awaits; a step is what runs between two of them.  *)
(* Completion, failure and cancellation first restore the power of the     *)
(* target, a chain of awaits of its own.  The recording of PowerCapture is *)
(* seen through captureState, the promise of the arm and what it appends.  *)
(***************************************************************************)
EXTENDS Integers, FiniteSets

CONSTANTS
  MaxStarts,    \* bound: the runs started in a behaviour
  StartupModes  \* what a behaviour may do, chosen once:
                \*   logs_in  automation.enabled
                \*   early    the end of a run may be asked for while start()
                \*            still waits for the power or for the first byte
                \*   strays   what a cancelled run left may still come: a write
                \*            that fails, a recording that is saved, a timeout
                \*            that finds the next run, a request answered late

ASSUME StartupAssumption ==
  /\ MaxStarts \in Nat \ {0}
  /\ \A m \in StartupModes : m \in [logs_in : BOOLEAN, early : BOOLEAN,
                                      strays : BOOLEAN]

(* The state:
     su     operationRef (the run whose it is), activeRunRef, phase, timeoutRef, the subscription,
            the runs started so far, the mode of the workspace
     run    [Starts -> StartupRun, with the await its start() is at]
     ender  the cancel or failRun that is restoring the power
     timers the timeouts that are set
     cap    captureState, whom the recording is for, a save that goes on
     lock   the owner of the automation lock
     rail   what the debugger drives: "on" or "off"
     serialBusy  setAutomationActive
     pa     the power analyzer: ownsTaskRef and captureStartedRef
     startupMode  what this behaviour may do *)
VARIABLES su, run, ender, timers, cap, lock, rail, serialBusy, pa, startupMode

startupVars == <<su, run, ender, timers, cap, lock, rail, serialBusy, pa,
                 startupMode>>

Starts == 1..MaxStarts
NoRun == 0
Nobody == [run |-> NoRun, attempt |-> 0]

FreshRun ==
  [pc |-> "off_set", attempt |-> 1, arm |-> "none",
   powered |-> FALSE, bytes |-> FALSE, login |-> FALSE, complete |-> FALSE,
   closing |-> FALSE,
   closer |-> "none", stopAsked |-> FALSE, capture |-> "none", of |-> Nobody,
   timedBy |-> NoRun,
   auto |-> IF startupMode.logs_in THEN "waiting" ELSE "disabled"]

StartupInit ==
  /\ startupMode \in StartupModes
  /\ su = [op |-> NoRun, active |-> NoRun, phase |-> "idle", timerRef |-> NoRun,
           listening |-> FALSE, started |-> 0, mode |-> "startup"]
  /\ run = [r \in Starts |-> [FreshRun EXCEPT !.pc = "ended"]]
  /\ ender = [kind |-> "none", run |-> NoRun, pc |-> "none"]
  /\ timers = {}
  /\ cap = [state |-> "idle", for |-> Nobody, late |-> Nobody]
  /\ lock = "none" /\ rail = "on" /\ serialBusy = FALSE
  /\ pa = [owns |-> FALSE, started |-> FALSE]

-----------------------------------------------------------------------------
(* Helpers of several handlers.                                             *)

Release(owner) == lock' = IF lock = owner THEN "none" ELSE lock

\* cancelCapture: the promise of an arm is rejected; a save that has begun
\* may go on and append what it has.
Cancelled(c) ==
  [c EXCEPT !.state = "idle", !.for = Nobody,
            !.late = IF startupMode.strays /\ c.state = "receiving"
                       THEN c.for ELSE @]
RejectArm(rr) ==
  IF cap.for.run = NoRun \/ cap.state # "connecting" THEN rr
  ELSE [rr EXCEPT ![cap.for.run].arm = "failed"]

\* clearRuntime.
Unhooked(s) == [s EXCEPT !.listening = FALSE, !.timerRef = NoRun]

\* failRun up to its first await.  Without a run there is nothing to restore.
Fail(rr) ==
  /\ run' = RejectArm(rr)
  /\ cap' = Cancelled(cap)
  /\ timers' = timers \ {su.timerRef}
  /\ IF su.active = NoRun
       THEN /\ su' = [Unhooked(su) EXCEPT !.op = NoRun, !.phase = "error"]
            /\ Release("startup") /\ UNCHANGED ender
       ELSE /\ su' = [Unhooked(su) EXCEPT !.op = NoRun, !.phase = "finalizing"]
            /\ ender' = [kind |-> "fail", run |-> su.active, pc |-> "set"]
            /\ UNCHANGED lock
  /\ UNCHANGED <<serialBusy, pa>>

\* maybeCompleteRun, and completeRun up to its first await; rr is what the
\* handler has made of the runs, s of the references, ts of the timeouts.
MaybeComplete(rr, s, ts, r) ==
  LET x == rr[r]
      stops == x.complete /\ x.capture = "none" /\ ~x.stopAsked
      closes == x.complete /\ x.capture # "none" /\ ~x.closing
  IN  /\ run' = [rr EXCEPT ![r].stopAsked = @ \/ stops,
                           ![r].closing = @ \/ closes,
                           ![r].closer = IF closes THEN "set" ELSE @]
      /\ cap' = IF stops /\ cap.state = "recording"
                  THEN [cap EXCEPT !.state = "receiving"] ELSE cap
      /\ su' = IF closes THEN [Unhooked(s) EXCEPT !.phase = "finalizing"] ELSE s
      /\ timers' = IF closes THEN ts \ {s.timerRef} ELSE ts

AutoStopped(x) ==
  IF x.auto \in {"waiting", "command"} THEN [x EXCEPT !.auto = "failed"] ELSE x

\* taskPassed.
Passed(x) == x.capture = "ok" /\ x.login /\ x.auto \in {"disabled", "passed"}

-----------------------------------------------------------------------------
(* start().                                                                 *)

Busy == su.phase \in {"powering_off", "waiting", "arming", "capturing",
                      "retrying", "logging_in", "executing", "finalizing"}

StartClicked ==
  /\ su.mode = "startup" /\ ~Busy /\ su.started < MaxStarts
  /\ cap.state = "idle" /\ lock = "none"
  /\ LET r == su.started + 1 IN
     /\ lock' = "startup"
     /\ run' = [run EXCEPT ![r] = FreshRun]
     /\ su' = [su EXCEPT !.op = r, !.started = r, !.active = r,
                         !.listening = TRUE, !.phase = "powering_off"]
     /\ serialBusy' = TRUE
  /\ UNCHANGED <<ender, timers, cap, rail, pa, startupMode>>

\* operationRef is no longer the operation of the run.
Stale(r) == su.op # r
Ends(r) == /\ run' = [run EXCEPT ![r].pc = "ended"]
           /\ UNCHANGED <<su, ender, timers, cap, lock, serialBusy, pa>>

\* The end of start(): the timeout is set.
SetTimer(r) ==
  /\ run' = [run EXCEPT ![r].pc = "ended"]
  /\ timers' = timers \cup {r}
  /\ su' = [su EXCEPT !.timerRef = r]
  /\ UNCHANGED <<ender, cap, lock, serialBusy, pa>>

\* A power cycle that finds its operation gone only returns; the wait for the
\* first byte looks at the operation, what follows it does not.
Abandons(r) == IF run[r].attempt = 2 \/ (run[r].powered /\ run[r].bytes)
                 THEN SetTimer(r) ELSE Ends(r)

FailUnlessStale(r) ==
  IF Stale(r) THEN Ends(r) ELSE Fail([run EXCEPT ![r].pc = "ended"])
Goes(r, pc, phase) ==
  /\ run' = [run EXCEPT ![r].pc = pc]
  /\ su' = [su EXCEPT !.phase = phase]
  /\ UNCHANGED <<ender, timers, cap, lock, serialBusy, pa>>

\* A power command that fails may have taken effect.
Switched(to, ok) == rail' \in IF ok THEN {to} ELSE {rail, to}

OffSet(r) ==
  /\ run[r].pc = "off_set"
  /\ \E ok \in BOOLEAN :
       /\ Switched("off", ok)
       /\ IF ~ok THEN FailUnlessStale(r)
          ELSE IF Stale(r) THEN Abandons(r)
          ELSE Goes(r, "off_read", "waiting")
  /\ UNCHANGED startupMode

\* The wait, the poll of the rail until it is discharged, and armCapture.
OffRead(r) ==
  /\ run[r].pc = "off_read"
  /\ IF Stale(r) THEN Abandons(r)
     ELSE \/ /\ rail = "off"
             /\ run' = [RejectArm(run) EXCEPT ![r].pc = "arming",
                                              ![r].arm = "pending"]
             /\ cap' = [cap EXCEPT !.state = "connecting",
                          !.for = [run |-> r, attempt |-> run[r].attempt]]
             /\ su' = [su EXCEPT !.phase = "arming"]
             /\ UNCHANGED <<ender, timers, lock, serialBusy, pa>>
          \/ Fail([run EXCEPT ![r].pc = "ended"])
  /\ UNCHANGED <<rail, startupMode>>

ArmSettled(r) ==
  /\ run[r].pc = "arming" /\ run[r].arm \in {"ok", "failed"}
  /\ IF run[r].arm = "failed" THEN FailUnlessStale(r)
     ELSE IF Stale(r) THEN Abandons(r)
     ELSE /\ run' = [run EXCEPT ![r].pc = "on_set", ![r].powered = TRUE,
                                ![r].bytes = FALSE]
          /\ su' = [su EXCEPT !.phase = "capturing"]
          /\ UNCHANGED <<ender, timers, cap, lock, serialBusy, pa>>
  /\ UNCHANGED <<rail, startupMode>>

OnSet(r) ==
  /\ run[r].pc = "on_set"
  /\ \E ok \in BOOLEAN :
       /\ Switched("on", ok)
       /\ IF ~ok THEN FailUnlessStale(r)
          ELSE IF Stale(r) THEN Abandons(r)
          ELSE Goes(r, "on_read", su.phase)
  /\ UNCHANGED startupMode

OnRead(r) ==
  /\ run[r].pc = "on_read"
  /\ IF Stale(r) THEN Abandons(r)
     ELSE \/ /\ rail = "on"
             /\ IF run[r].attempt = 2 THEN SetTimer(r)
                ELSE Goes(r, "uart", su.phase)
          \/ Fail([run EXCEPT ![r].pc = "ended"])
  /\ UNCHANGED <<rail, startupMode>>

\* No byte within five seconds: the recording is dropped for one retry.
UartWait(r) ==
  /\ run[r].pc = "uart"
  /\ IF run[r].bytes THEN SetTimer(r)
     ELSE IF Stale(r) THEN Ends(r)
     ELSE /\ run' = [RejectArm(run) EXCEPT ![r].pc = "retry"]
          /\ su' = [su EXCEPT !.phase = "retrying"]
          /\ cap' = Cancelled(cap)
          /\ UNCHANGED <<ender, timers, lock, serialBusy, pa>>
  /\ UNCHANGED <<rail, startupMode>>

Retry(r) ==
  /\ run[r].pc = "retry"
  /\ IF Stale(r) THEN Ends(r)
     ELSE /\ run' = [run EXCEPT ![r] =
               [@ EXCEPT !.pc = "off_set", !.attempt = 2, !.capture = "none",
                         !.of = Nobody, !.stopAsked = FALSE, !.powered = FALSE,
                         !.bytes = FALSE, !.login = FALSE,
                         !.auto = FreshRun.auto]]
          /\ su' = [su EXCEPT !.phase = "powering_off"]
          /\ UNCHANGED <<ender, timers, cap, lock, serialBusy, pa>>
  /\ UNCHANGED <<rail, startupMode>>

-----------------------------------------------------------------------------
(* What the run waits for: serial output, its timeout, its recording.       *)

Returned(r) == startupMode.early \/ run[r].pc = "ended"

\* Text from the target: the handler works on activeRunRef.  A prompt ends a
\* run without automation, or starts the login; then the command completes.
SerialText(kind) ==
  /\ su.listening /\ su.active # NoRun
  /\ LET r == su.active
         x == [run[r] EXCEPT !.bytes = TRUE]
     IN  /\ x.powered
         /\ \/ /\ kind = "text" /\ ~run[r].bytes
               /\ run' = [run EXCEPT ![r] = x]
               /\ UNCHANGED <<su, cap, timers>>
            \/ /\ kind = "prompt" /\ x.auto = "disabled" /\ Returned(r)
               /\ MaybeComplete([run EXCEPT ![r] =
                      [x EXCEPT !.login = TRUE, !.complete = TRUE]],
                    su, timers, r)
            \/ /\ kind = "prompt" /\ x.auto = "waiting"
               /\ MaybeComplete([run EXCEPT ![r] =
                      [x EXCEPT !.login = TRUE, !.auto = "command"]],
                    [su EXCEPT !.phase = "executing"], timers, r)
            \/ /\ kind \in {"exit_0", "exit_1"} /\ x.auto = "command" /\ Returned(r)
               /\ MaybeComplete([run EXCEPT ![r] =
                      [x EXCEPT !.complete = TRUE,
                                !.auto = IF kind = "exit_0" THEN "passed"
                                                            ELSE "failed"]],
                    su, timers, r)
  /\ UNCHANGED <<ender, lock, rail, serialBusy, pa, startupMode>>

\* A write of the login or the command fails.
SerialWriteFails(r) ==
  /\ su.active = r /\ run[r].auto = "command" /\ Returned(r)
  /\ startupMode.strays \/ ender.pc = "none"
  /\ MaybeComplete([run EXCEPT ![r].auto = "failed", ![r].complete = TRUE],
                   su, timers, r)
  /\ UNCHANGED <<ender, lock, rail, serialBusy, pa, startupMode>>

\* The timeout that run t has set acts on whichever run is active.
TimerFires(t) ==
  /\ t \in timers
  /\ startupMode.strays \/ (su.active \in {NoRun, t} /\ ender.pc = "none")
  /\ IF su.active = NoRun
       THEN timers' = timers \ {t} /\ UNCHANGED <<su, run, cap>>
       ELSE LET r == su.active
                x == [AutoStopped(run[r]) EXCEPT !.complete = TRUE, !.timedBy = t]
            IN  MaybeComplete([run EXCEPT ![r] = x], su, timers \ {t}, r)
  /\ UNCHANGED <<ender, lock, rail, serialBusy, pa, startupMode>>

StopAndReport ==
  /\ su.active # NoRun /\ su.phase = "capturing" /\ Returned(su.active)
  /\ LET r == su.active IN
     MaybeComplete([run EXCEPT ![r] =
         [AutoStopped(run[r]) EXCEPT !.complete = TRUE]], su, timers, r)
  /\ UNCHANGED <<ender, lock, rail, serialBusy, pa, startupMode>>

-----------------------------------------------------------------------------
(* The end of a run: the power of the target is restored first.             *)

\* cancel() up to its first await.
CancelRunClicked ==
  /\ su.mode = "startup" /\ Busy /\ su.phase # "finalizing"
  /\ timers' = timers \ {su.timerRef}
  /\ cap' = IF cap.state = "idle" THEN cap ELSE Cancelled(cap)
  /\ run' = RejectArm(run)
  /\ IF su.active = NoRun
       THEN /\ su' = [Unhooked(su) EXCEPT !.op = NoRun, !.phase = "cancelled"]
            /\ Release("startup") /\ UNCHANGED ender
       ELSE /\ su' = [Unhooked(su) EXCEPT !.op = NoRun, !.phase = "finalizing"]
            /\ ender' = [kind |-> "cancel", run |-> su.active, pc |-> "set"]
            /\ UNCHANGED lock
  /\ UNCHANGED <<rail, serialBusy, pa, startupMode>>

\* Requests are answered in the order they were sent.
InOrder == startupMode.strays \/ \A r \in Starts : run[r].pc \notin {"off_set", "on_set"}

\* restoreTargetPower of the cancel or the failed run; what follows does not
\* look which run is active.
EnderEnds(restored) ==
  /\ ender' = [kind |-> "none", run |-> NoRun, pc |-> "none"]
  /\ serialBusy' = FALSE
  /\ Release("startup")
  /\ su' = [su EXCEPT !.active = NoRun,
              !.phase = IF restored /\ ender.kind = "cancel" THEN "cancelled"
                                                             ELSE "error"]
\* Mutant of EnderSet: cancelled without a look at the rail.
EnderSetUnconfirmed ==
  /\ ender.pc = "set" /\ InOrder
  /\ \E ok \in BOOLEAN : Switched("on", ok) /\ EnderEnds(TRUE)
  /\ UNCHANGED <<run, timers, cap, pa, startupMode>>

EnderSet ==
  /\ ender.pc = "set" /\ InOrder
  /\ \E ok \in BOOLEAN :
       /\ Switched("on", ok)
       /\ IF ok THEN /\ ender' = [ender EXCEPT !.pc = "read"]
                     /\ UNCHANGED <<su, lock, serialBusy>>
          ELSE EnderEnds(FALSE)
  /\ UNCHANGED <<run, timers, cap, pa, startupMode>>
EnderRead ==
  /\ ender.pc = "read"
  /\ \E restored \in BOOLEAN : (restored => rail = "on") /\ EnderEnds(restored)
  /\ UNCHANGED <<run, timers, cap, rail, pa, startupMode>>

\* The same of completeRun, for run r, if it is still the active one.
CloserEnds(r, phase) ==
  /\ run' = [run EXCEPT ![r].closer = "none"]
  /\ IF su.active # r THEN UNCHANGED <<su, lock, serialBusy>>
     ELSE /\ serialBusy' = FALSE /\ Release("startup")
          /\ su' = [su EXCEPT !.active = NoRun, !.phase = phase]

CloserSet(r) ==
  /\ run[r].closer = "set" /\ InOrder
  /\ \E ok \in BOOLEAN :
       /\ Switched("on", ok)
       /\ IF ok THEN /\ run' = [run EXCEPT ![r].closer = "read"]
                     /\ UNCHANGED <<su, lock, serialBusy>>
          ELSE CloserEnds(r, "error")
  /\ UNCHANGED <<ender, timers, cap, pa, startupMode>>
CloserRead(r) ==
  /\ run[r].closer = "read"
  /\ \/ /\ rail = "on"
        /\ CloserEnds(r, IF run[r].capture = "none" THEN "error"
                         ELSE IF Passed(run[r]) THEN "complete" ELSE "partial")
     \/ CloserEnds(r, "error")
  /\ UNCHANGED <<ender, timers, cap, rail, pa, startupMode>>

-----------------------------------------------------------------------------
(* The recording, seen from here.                                           *)

capOnly == <<su, ender, timers, lock, rail, serialBusy, pa, startupMode>>

\* The arm of run cap.for is acknowledged, or refused.
CapArmed ==
  /\ cap.state = "connecting"
  /\ cap' = [cap EXCEPT !.state = "armed"]
  /\ run' = IF cap.for.run = NoRun THEN run
            ELSE [run EXCEPT ![cap.for.run].arm = "ok"]
  /\ UNCHANGED capOnly
CapFails ==
  /\ cap.state \in {"connecting", "armed"}
  /\ cap' = [cap EXCEPT !.state = "idle", !.for = Nobody]
  /\ run' = RejectArm(run)
  /\ UNCHANGED capOnly

CapTriggers ==
  /\ cap.state = "armed" /\ rail = "on"
  /\ cap' = [cap EXCEPT !.state = "recording"]
  /\ UNCHANGED <<run, capOnly>>

\* The stop of its own after stopAfterMs, or a socket that is lost.
CapStops ==
  /\ cap.state = "recording"
  /\ cap' = [cap EXCEPT !.state = "receiving"]
  /\ UNCHANGED <<run, capOnly>>

\* A recording joins the list: the active run takes it if it has none.
Appends(for, quality, c) ==
  LET r == su.active IN
  IF r = NoRun \/ quality = "none" \/ run[r].capture # "none"
    THEN cap' = c /\ UNCHANGED <<run, su, timers>>
  ELSE LET rr == [run EXCEPT ![r].capture = quality, ![r].of = for]
           closes == rr[r].complete /\ ~rr[r].closing
       IN  /\ cap' = c
           /\ run' = IF closes THEN [rr EXCEPT ![r].closing = TRUE,
                                               ![r].closer = "set"] ELSE rr
           /\ su' = IF closes THEN [Unhooked(su) EXCEPT !.phase = "finalizing"]
                               ELSE su
           /\ timers' = IF closes THEN timers \ {su.timerRef} ELSE timers

CapSaved(quality) ==
  /\ cap.state = "receiving"
  /\ Appends(cap.for, quality, [cap EXCEPT !.state = "idle", !.for = Nobody])
  /\ UNCHANGED <<ender, lock, rail, serialBusy, pa, startupMode>>
CapSavedLate(quality) ==
  /\ cap.late # Nobody
  /\ Appends(cap.late, quality, [cap EXCEPT !.late = Nobody])
  /\ UNCHANGED <<ender, lock, rail, serialBusy, pa, startupMode>>

-----------------------------------------------------------------------------
(* The power analyzer, and the switch between the two modes.                *)

PaArm ==
  /\ su.mode = "capture" /\ cap.state = "idle" /\ lock = "none"
  /\ lock' = "power"
  /\ pa' = [owns |-> TRUE, started |-> TRUE]
  /\ cap' = [cap EXCEPT !.state = "connecting", !.for = Nobody]
  /\ UNCHANGED <<su, run, ender, timers, rail, serialBusy, startupMode>>
PaStop ==
  /\ pa.owns /\ cap.state = "recording"
  /\ cap' = [cap EXCEPT !.state = "receiving"]
  /\ UNCHANGED <<run, capOnly>>
PaCancel ==
  /\ pa.owns /\ cap.state # "idle"
  /\ cap' = Cancelled(cap)
  /\ UNCHANGED <<run, capOnly>>
\* The effect that gives the lock back once the recording is over.
PaReleases ==
  /\ pa.owns /\ pa.started /\ cap.state = "idle"
  /\ pa' = [owns |-> FALSE, started |-> FALSE]
  /\ Release("power")
  /\ UNCHANGED <<su, run, ender, timers, cap, rail, serialBusy, startupMode>>

ModeSwitchLocked == cap.state # "idle" \/ lock \in {"startup", "power"}

\* The mode that is left is unmounted.
SwitchMode ==
  /\ ~ModeSwitchLocked
  /\ IF su.mode = "startup"
       THEN /\ su' = [Unhooked(su) EXCEPT !.mode = "capture", !.op = NoRun,
                                          !.active = NoRun, !.phase = "idle"]
            /\ timers' = timers \ {su.timerRef}
       ELSE su' = [su EXCEPT !.mode = "startup"] /\ UNCHANGED timers
  /\ UNCHANGED <<run, ender, cap, lock, rail, serialBusy, pa, startupMode>>

-----------------------------------------------------------------------------
StartStep(r) ==
  \/ OffSet(r) \/ OffRead(r) \/ ArmSettled(r) \/ OnSet(r) \/ OnRead(r)
  \/ UartWait(r) \/ Retry(r)
StartupNext ==
  \/ StartClicked \/ StopAndReport \/ CancelRunClicked \/ SwitchMode
  \/ EnderSet \/ EnderRead
  \/ \E r \in Starts :
       \/ OffSet(r) \/ OffRead(r) \/ ArmSettled(r) \/ OnSet(r) \/ OnRead(r)
       \/ UartWait(r) \/ Retry(r) \/ SerialWriteFails(r) \/ TimerFires(r)
       \/ CloserSet(r) \/ CloserRead(r)
  \/ \E kind \in {"text", "prompt", "exit_0", "exit_1"} : SerialText(kind)
  \/ CapArmed \/ CapFails \/ CapTriggers \/ CapStops
  \/ \E q \in {"ok", "bad", "none"} : CapSaved(q) \/ CapSavedLate(q)
  \/ PaArm \/ PaStop \/ PaCancel \/ PaReleases

\* Awaits come back, and a recording that is being saved is saved.
StartupSpec == StartupInit /\ [][StartupNext]_startupVars
StartupFairSpec ==
  /\ StartupSpec
  /\ WF_startupVars(EnderSet) /\ WF_startupVars(EnderRead)
  /\ \A r \in Starts : /\ WF_startupVars(StartStep(r))
                       /\ WF_startupVars(CloserSet(r))
                       /\ WF_startupVars(CloserRead(r))

-----------------------------------------------------------------------------
(* Properties.                                                              *)

\* Every variable has its type, and a restore belongs to a run.
StartupTypeOK ==
  /\ su \in [op : {NoRun} \cup Starts, active : {NoRun} \cup Starts, listening : BOOLEAN,
            phase : {"idle", "powering_off", "waiting", "arming", "capturing",
                     "retrying", "executing", "finalizing", "complete",
                     "partial", "cancelled", "error"},
            timerRef : {NoRun} \cup Starts, started : 0..MaxStarts,
            mode : {"startup", "capture"}]
  /\ timers \subseteq Starts
  /\ lock \in {"none", "startup", "power"} /\ rail \in {"on", "off"}
  /\ (ender.pc = "none") = (ender.run = NoRun)
  /\ serialBusy \in BOOLEAN /\ pa \in [owns : BOOLEAN, started : BOOLEAN]

\* While a run is active the lock is its, and the serial channel is held from
\* manual use: no other task can drive the rail under it.
ActiveHoldsLock == su.active # NoRun => lock = "startup" /\ serialBusy

\* "Completion is not safe until the target rail is confirmed on": a run that
\* is over and did not end in an error leaves its target powered.
RunEndsPowered ==
  su.phase \in {"complete", "partial", "cancelled"} => rail = "on"

\* The curve a run reports was recorded by its own arm, and by the attempt
\* whose serial milestones it is shown with.
CaptureIsOwn ==
  \A r \in Starts : run[r].capture # "none" =>
    run[r].of = [run |-> r, attempt |-> run[r].attempt]

\* Nothing is left armed or recording for a run that is over, and the power
\* analyzer can own only its own recording.
NoOrphanCapture ==
  /\ cap.state \in {"connecting", "armed"} /\ cap.for.run # NoRun =>
       cap.for.run = su.active
  /\ pa.owns => cap.for = Nobody /\ lock = "power"

\* What holds of the startup analysis in every state: the lock, the rail at the
\* end of a run, whose curve a run reports, and no recording without a run.
AnalysisIsSound ==
  /\ StartupTypeOK
  /\ ActiveHoldsLock
  /\ RunEndsPowered
  /\ CaptureIsOwn
  /\ NoOrphanCapture
=============================================================================
