------------------------------ MODULE TestRun ------------------------------
(***************************************************************************)
(* A run of a test script (testRunner.ts, started and ended by             *)
(* TestAutomation.tsx): the runner takes the steps of the plan one after   *)
(* the other, each a chain of awaits, may be aborted at any of them, and   *)
(* always ends with a safe cleanup.  With it what the runner drives: one   *)
(* rail, one pin and the power capture, and the serial channel it reads,   *)
(* whose buffer is cut at a limit while a cursor marks what is consumed.   *)
(*                                                                         *)
(* A command has its effect when it is sent and is answered later; one     *)
(* that fails may have had its effect.                                     *)
(***************************************************************************)
EXTENDS Integers, Sequences, FiniteSets

CONSTANTS
  Plans,        \* bound: the execution plans that are run
  BufferLimit,  \* SERIAL_BUFFER_LIMIT, in chunks of text
  MaxChunks,    \* bound: the chunks the serial channel receives
  Hits,         \* the chunks in which the pattern of a wait ends
  MaxRuns       \* bound: the runs started

Ops == {"on", "off", "delay", "wait", "send", "expect", "adc", "set", "assert",
        "route", "capture"}
PlanSteps == [op : Ops, power : BOOLEAN, cond : Nat, continue : BOOLEAN,
              role : {"none", "check", "then", "else"}]

\* buildExecutionPlan: the branches of a condition follow its one check.
Expanded(plan) ==
  \A i \in DOMAIN plan :
    /\ plan[i].role \in {"then", "else"} =>
         \E j \in 1..(i - 1) : plan[j].role = "check" /\ plan[j].cond = plan[i].cond
    /\ \A j \in DOMAIN plan :
         plan[i].role = "check" /\ plan[j].role = "check" /\ plan[i].cond = plan[j].cond
           => i = j

ASSUME TestRunAssumption ==
  /\ \A plan \in Plans : plan \in Seq(PlanSteps) /\ Expanded(plan)
  /\ BufferLimit \in Nat \ {0} /\ MaxChunks \in Nat /\ MaxRuns \in Nat
  /\ Hits \subseteq 1..MaxChunks

(* The state:
     runner  the closure of createTestRunner: the await it is at, the plan and
             the index of the step in it, results, conditionOutcomes, the
             flags, what it touched, what the cleanup has left to do
     uart    rx: the chunks received so far; the state of the serial buffer;
             local: the length of the buffer of a waitForPattern
     bench   what is on the board, the automation lock, the summary
     seen    for the properties: the steps that ran and those that went
             wrong, the conditions whose check passed, what was commanded,
             the chunk up to which text is consumed *)
VARIABLES runner, uart, bench, seen

testRunVars == <<runner, uart, bench, seen>>

IdleRunner ==
  [pc |-> "idle", plan |-> <<>>, at |-> 0, results |-> <<>>, outcomes |-> {},
   aborted |-> FALSE, capture |-> FALSE, lost |-> FALSE, infra |-> FALSE,
   touched |-> {}, cleanup |-> TRUE]
NoSummary == [plan |-> <<>>, results |-> <<>>, completed |-> FALSE, aborted |-> FALSE,
              infra |-> FALSE, cleanup |-> TRUE]
NothingSeen == [ran |-> {}, wrong |-> {}, held |-> {}, driven |-> {}, consumed |-> 0]

TestRunInit ==
  /\ runner = IdleRunner
  /\ uart = [rx |-> 0, len |-> 0, cursor |-> 0, local |-> 0]
  /\ bench = [rail |-> "off", pin |-> "in", capture |-> "idle", lock |-> "none",
              summary |-> NoSummary, runs |-> 0]
  /\ seen = NothingSeen

Step == runner.plan[runner.at]

\* Here the runner is at no await, and nothing else can happen.
NoAwait == runner.pc \in {"begin", "cycle"}

-----------------------------------------------------------------------------
(* The serial buffer: appendSerialBuffer and consumeSerialBuffer.  The text *)
(* is the last uart.len chunks; uart.cursor of them are consumed.           *)

Least(a, b) == IF a < b THEN a ELSE b
Most(a, b)  == IF a < b THEN b ELSE a

Appended(u) ==
  LET cut == Most(0, u.len + 1 - BufferLimit)
  IN [u EXCEPT !.rx = @ + 1, !.len = @ + 1 - cut, !.cursor = Most(0, @ - cut)]

Consumed(u, n) == [u EXCEPT !.cursor = Least(u.len, @ + n)]

\* the position after the first match in the last n chunks, or 0
MatchEnd(u, n) ==
  LET ends == {i \in 1..n : u.rx - n + i \in Hits}
  IN IF ends = {} THEN 0 ELSE CHOOSE i \in ends : \A j \in ends : i <= j

-----------------------------------------------------------------------------
(* The end of a step: its result, what a condition makes of it, and whether *)
(* the run goes on.                                                         *)

Verdict(status) ==
  IF Step.role = "check" /\ status = "fail" THEN "pass" ELSE status
Outcome(status) ==
  IF Step.role = "check" /\ status \in {"pass", "fail"}
  THEN {<<Step.cond, status = "pass">>} ELSE {}
Stops(status) ==
  \/ status = "aborted"
  \/ Step.role = "check" /\ status = "error"
  \/ Step.role # "check" /\ status \in {"fail", "error"} /\ ~Step.continue

Ended(r, status) ==
  [r EXCEPT !.results = Append(@, [at |-> r.at, skip |-> FALSE, status |-> Verdict(status)]),
            !.outcomes = @ \cup Outcome(status), !.capture = FALSE,
            !.pc = IF Stops(status) THEN "finally" ELSE "next"]

\* The finally of executeStep cancels a capture that is still active.
Uncaptured(b, r) == [b EXCEPT !.capture = IF r.capture THEN "idle" ELSE @]
Noted(status) ==
  [seen EXCEPT !.ran = @ \cup {runner.at},
               !.wrong = IF status = "error" \/ (status = "fail" /\ Step.role # "check")
                         THEN @ \cup {runner.at} ELSE @,
               !.held = IF status = "pass" /\ Step.role = "check"
                        THEN @ \cup {Step.cond} ELSE @]
EndStep(status) ==
  /\ runner' = Ended(runner, status)
  /\ bench' = Uncaptured(bench, runner)
  /\ seen' = Noted(status)

-----------------------------------------------------------------------------
(* startRun, the abort button and the steps of the loop.                    *)

Acquire ==
  /\ bench.lock = "none"
  /\ bench' = [bench EXCEPT !.lock = "test", !.summary = NoSummary, !.runs = @ + 1]

\* preflightTestRun passed; the runner's own check of the same may still fail.
StartRun == \E plan \in Plans, ready \in BOOLEAN :
  /\ runner.pc = "idle" /\ plan # <<>> /\ bench.runs < MaxRuns
  /\ Acquire
  /\ runner' = [IdleRunner EXCEPT !.plan = plan, !.infra = ~ready,
                                  !.pc = IF ready THEN "next" ELSE "finally"]
  /\ uart' = [uart EXCEPT !.len = 0, !.cursor = 0]
  /\ seen' = [NothingSeen EXCEPT !.consumed = uart.rx]

Abort ==
  /\ runner.pc # "idle" /\ ~runner.aborted /\ ~NoAwait
  /\ runner' = [runner EXCEPT !.aborted = TRUE, !.capture = FALSE]
  /\ bench' = Uncaptured(bench, runner)
  /\ UNCHANGED <<uart, seen>>

NextStep ==
  /\ runner.pc = "next"
  /\ runner' = IF runner.aborted \/ runner.at = Len(runner.plan)
               THEN [runner EXCEPT !.pc = "finally"]
               ELSE [runner EXCEPT !.pc = "begin", !.at = @ + 1]
  /\ UNCHANGED <<uart, bench, seen>>

Selected == <<Step.cond, Step.role = "then">> \in runner.outcomes

SkipStep ==
  /\ runner.pc = "begin" /\ Step.role \in {"then", "else"} /\ ~Selected
  /\ runner' = [runner EXCEPT !.pc = "next",
       !.results = Append(@, [at |-> runner.at, skip |-> TRUE, status |-> "skip"])]
  /\ UNCHANGED <<uart, bench, seen>>

Begins(op) ==
  /\ runner.pc = "begin" /\ Step.op = op
  /\ Step.role \in {"then", "else"} => Selected

-----------------------------------------------------------------------------
(* Commands: setPower, setGpio, setSwitch, readPower and a serial write.    *)

\* Mutant of Touches: a rail that is switched on is not remembered.
TouchesOff(target) ==
  CASE target = "off" -> {"rail"} [] target = "out" -> {"pin"} [] OTHER -> {}

Touches(target) ==
  CASE target \in {"on", "off"} -> {"rail"} [] target = "out" -> {"pin"} [] OTHER -> {}

\* The board after a command, whose answer is awaited at pc.
Send(pc, target, took) ==
  /\ bench' = IF ~took THEN bench
              ELSE CASE target = "on"  -> [bench EXCEPT !.rail = "on"]
                     [] target = "off" -> [bench EXCEPT !.rail = "off"]
                     [] target = "in"  -> [bench EXCEPT !.pin = "in"]
                     [] target = "out" -> [bench EXCEPT !.pin = "out"]
                     [] OTHER -> bench
  /\ runner' = [runner EXCEPT !.pc = pc, !.touched = @ \cup Touches(target)]
  /\ seen' = [seen EXCEPT !.driven = @ \cup CASE target \in {"on", "off"} -> {"rail"}
                                              [] target = "out" -> {"pin"}
                                              [] OTHER -> {}]
  /\ UNCHANGED uart

Commands == \E took \in BOOLEAN :
  \/ \E op \in {"off", "set", "route", "adc", "send"} :
       Begins(op) /\ Send("answer", IF op = "set" THEN "out" ELSE op, took)
  \/ Begins("on") /\ Send("power", "on", took)

\* The answer of a command that is the whole step; a reading may fail its assertion.
Answered ==
  /\ runner.pc = "answer"
  /\ \E status \in {"pass", "error"} \cup IF Step.op = "adc" THEN {"fail"} ELSE {} :
       EndStep(status)
  /\ UNCHANGED uart

\* power_on sleeps once the rail has answered.
PowerAnswered ==
  /\ runner.pc = "power"
  /\ \/ runner' = [runner EXCEPT !.pc = "sleep"] /\ UNCHANGED <<bench, seen>>
     \/ EndStep("error")
  /\ UNCHANGED uart

BeginSleep == \E op \in {"delay", "assert"} :
  /\ Begins(op)
  /\ runner' = [runner EXCEPT !.pc = "sleep"]
  /\ UNCHANGED <<uart, bench, seen>>

\* A sleep ends, or ends at once when the run is aborted; gpio_assert then looks
\* at the snapshot.
SleepEnds ==
  /\ runner.pc = "sleep"
  /\ \E status \in IF runner.aborted THEN {"aborted"}
                   ELSE IF Step.op = "assert" THEN {"pass", "fail", "error"}
                   ELSE {"pass"} : EndStep(status)
  /\ UNCHANGED uart

-----------------------------------------------------------------------------
(* The serial steps.                                                        *)

EndWait(u, n, status) ==
  /\ runner' = Ended(runner, status) /\ bench' = Uncaptured(bench, runner)
  /\ uart' = [Consumed(u, n) EXCEPT !.local = 0]
  /\ seen' = [Noted(status) EXCEPT !.consumed = u.rx - u.local + n]

\* Mutant of BeginWait: the whole text is searched, what is consumed too.
BeginWaitFromStart ==
  /\ Begins("wait")
  /\ LET unread == uart.len
         u == [uart EXCEPT !.local = unread]
     IN IF MatchEnd(u, unread) > 0
        THEN EndWait(u, MatchEnd(u, unread), "pass")
        ELSE /\ uart' = u /\ runner' = [runner EXCEPT !.pc = "wait"]
             /\ UNCHANGED <<bench, seen>>

(* waitForPattern first searches the text that was not consumed.            *)
BeginWait ==
  /\ Begins("wait")
  /\ LET unread == uart.len - uart.cursor
         u == [uart EXCEPT !.local = unread]
     IN IF MatchEnd(u, unread) > 0
        THEN EndWait(u, MatchEnd(u, unread), "pass")
        ELSE /\ uart' = u /\ runner' = [runner EXCEPT !.pc = "wait"]
             /\ UNCHANGED <<bench, seen>>

\* The channel of a serial step is not connected any more.
Disconnected ==
  /\ \E op \in {"wait", "send", "expect"} : Begins(op)
  /\ EndStep("error")
  /\ UNCHANGED uart

(* A chunk arrives: the runner appends it to the buffer while it listens,   *)
(* then a waitForPattern to its own, which it searches.                     *)
Receive ==
  /\ uart.rx < MaxChunks /\ ~NoAwait
  /\ LET listens == runner.pc \notin {"idle", "finally", "cleanup"}
         u == IF listens THEN Appended(uart) ELSE [uart EXCEPT !.rx = @ + 1]
         n == Least(uart.local + 1, BufferLimit)
         v == [u EXCEPT !.local = n]
     IN IF runner.pc # "wait"
        THEN uart' = u /\ UNCHANGED <<runner, bench, seen>>
        ELSE IF MatchEnd(v, n) > 0
        THEN EndWait(v, MatchEnd(v, n), "pass")
        ELSE uart' = v /\ UNCHANGED <<runner, bench, seen>>

WaitEnds ==
  /\ runner.pc = "wait"
  /\ IF runner.aborted
     THEN /\ EndStep("aborted") /\ uart' = [uart EXCEPT !.local = 0]
     ELSE EndWait(uart, uart.local, "error")

BeginExpect ==
  /\ Begins("expect")
  /\ runner' = [runner EXCEPT !.pc = "expect"]
  /\ UNCHANGED <<uart, bench, seen>>

\* The command completed, its write failed, it timed out, or the run is aborted:
\* all the text received is consumed.
ExpectEnds == \E status \in {"pass", "fail", "error", "aborted"} :
  /\ runner.pc = "expect"
  /\ (status = "aborted") = runner.aborted
  /\ runner' = Ended(runner, status) /\ bench' = Uncaptured(bench, runner)
  /\ uart' = [uart EXCEPT !.cursor = uart.len]
  /\ seen' = [Noted(status) EXCEPT !.consumed = uart.rx]

-----------------------------------------------------------------------------
(* A capture: armed, triggered at once or by a power cycle, and awaited.    *)

BeginCapture ==
  /\ Begins("capture")
  /\ runner' = [runner EXCEPT !.pc = "arm"]
  /\ bench' = [bench EXCEPT !.capture = "arming"]
  /\ UNCHANGED <<uart, seen>>

\* captureActive is set once the arm is confirmed, even if the run was aborted.
Armed ==
  /\ runner.pc = "arm"
  /\ \/ /\ runner' = [runner EXCEPT !.capture = TRUE,
                                    !.pc = IF Step.power THEN "cycle" ELSE "capture"]
        /\ bench' = [bench EXCEPT !.capture = "armed"]
        /\ UNCHANGED seen
     \/ /\ runner' = Ended(runner, "error") /\ seen' = Noted("error")
        /\ bench' = [bench EXCEPT !.capture = "idle"]
  /\ UNCHANGED uart

CycleOff == \E took \in BOOLEAN : runner.pc = "cycle" /\ Send("cycle_off", "off", took)

CycleAnswered ==
  /\ runner.pc \in {"cycle_off", "cycle_on"}
  /\ \/ /\ runner' = [runner EXCEPT !.pc = IF @ = "cycle_off" THEN "cycle_sleep"
                                           ELSE "capture"]
        /\ UNCHANGED <<bench, seen>>
     \/ EndStep("error")
  /\ UNCHANGED uart

CycleOn == \E took \in BOOLEAN :
  /\ runner.pc = "cycle_sleep" /\ ~runner.aborted
  /\ Send("cycle_on", "on", took)

CycleAborted ==
  /\ runner.pc = "cycle_sleep" /\ runner.aborted
  /\ EndStep("aborted")
  /\ UNCHANGED uart

\* Mutant of CaptureEnds: the wait for the recording has no timeout.
CaptureEndsUntimed ==
  /\ runner.pc = "capture" /\ ~runner.aborted /\ bench.capture = "armed"
  /\ \E status \in {"pass", "fail"} :
       /\ runner' = Ended(runner, status) /\ seen' = Noted(status)
       /\ bench' = [bench EXCEPT !.capture = "idle"]
  /\ UNCHANGED uart

\* waitForCapture: the recording is there (whole or incomplete), or it timed out.
CaptureEnds ==
  /\ runner.pc = "capture" /\ ~runner.aborted
  /\ \/ \E status \in {"pass", "fail"} :
          /\ bench.capture = "armed"
          /\ runner' = Ended(runner, status) /\ seen' = Noted(status)
          /\ bench' = [bench EXCEPT !.capture = "idle"]
     \/ /\ bench.capture = "armed"
        /\ runner' = [Ended(runner, "error") EXCEPT !.lost = TRUE]
        /\ seen' = Noted("error") /\ bench' = [bench EXCEPT !.capture = "idle"]
     \/ EndStep("error")
  /\ UNCHANGED uart

CaptureAborted ==
  /\ runner.pc = "capture" /\ runner.aborted
  /\ EndStep("aborted")
  /\ UNCHANGED uart

\* The live connection is lost: an armed recording is dropped.
CaptureDropped ==
  /\ bench.capture = "armed" /\ ~NoAwait
  /\ bench' = [bench EXCEPT !.capture = "idle"]
  /\ UNCHANGED <<runner, uart, seen>>

-----------------------------------------------------------------------------
(* The end: the serial channel is let go, what was touched is made safe,    *)
(* and the summary gives the lock back.                                     *)

Finally ==
  /\ runner.pc = "finally"
  /\ runner' = [runner EXCEPT !.pc = "cleanup"]
  /\ UNCHANGED <<uart, bench, seen>>

CleanupTarget == IF "pin" \in runner.touched THEN "pin" ELSE "rail"

\* One command of performSafeCleanup and its answer; a failure is recorded and
\* the rest is still done.
CleanUp == \E passed, took \in BOOLEAN :
  /\ runner.pc = "cleanup" /\ runner.touched # {}
  /\ passed => took
  /\ runner' = [runner EXCEPT !.touched = @ \ {CleanupTarget}, !.cleanup = @ /\ passed]
  /\ bench' = IF ~took THEN bench
              ELSE IF CleanupTarget = "pin" THEN [bench EXCEPT !.pin = "in"]
              ELSE [bench EXCEPT !.rail = "off"]
  /\ UNCHANGED <<uart, seen>>

Summary ==
  LET infra == runner.infra \/ runner.lost \/ ~runner.cleanup
  IN [plan |-> runner.plan, results |-> runner.results, aborted |-> runner.aborted,
      infra |-> infra, cleanup |-> runner.cleanup,
      completed |-> ~runner.aborted /\ ~infra /\ runner.cleanup
                      /\ Len(runner.results) = Len(runner.plan)]

Complete ==
  /\ runner.pc = "cleanup" /\ runner.touched = {}
  /\ runner' = IdleRunner
  /\ bench' = [bench EXCEPT !.lock = "none", !.summary = Summary]
  /\ UNCHANGED <<uart, seen>>

\* Another automated task has the lock for a while.
OtherTask ==
  /\ \/ bench.lock = "none" /\ bench' = [bench EXCEPT !.lock = "other"]
     \/ bench.lock = "other" /\ bench' = [bench EXCEPT !.lock = "none"]
  /\ UNCHANGED <<runner, uart, seen>>

RunnerStep ==
  \/ NextStep \/ SkipStep \/ Commands \/ Answered \/ PowerAnswered \/ BeginSleep
  \/ SleepEnds \/ BeginWait \/ Disconnected \/ WaitEnds \/ BeginExpect \/ ExpectEnds
  \/ BeginCapture \/ Armed \/ CycleOff \/ CycleAnswered \/ CycleOn \/ CycleAborted
  \/ CaptureEnds \/ CaptureAborted \/ Finally \/ CleanUp \/ Complete

TestRunNext == RunnerStep \/ StartRun \/ Abort \/ Receive \/ CaptureDropped \/ OtherTask

TestRunSpec == TestRunInit /\ [][TestRunNext]_testRunVars
TestRunFairSpec == TestRunSpec /\ WF_testRunVars(RunnerStep)

-----------------------------------------------------------------------------
Successful(summary) ==  \* isRunSuccessful
  /\ summary.completed /\ ~summary.aborted /\ ~summary.infra
  /\ \A i \in DOMAIN summary.results : summary.results[i].status \in {"pass", "skip"}

\* A run whose cleanup passed leaves nothing behind: a rail it drove is off, a
\* pin it drove is an input, no recording goes on (performSafeCleanup and the
\* finally of executeStep, however the run ended or was aborted).
LeavesBoardSafe ==
  runner.pc = "idle" /\ bench.summary.cleanup =>
    /\ bench.capture = "idle"
    /\ "rail" \in seen.driven => bench.rail = "off"
    /\ "pin" \in seen.driven => bench.pin = "in"

\* A run is called successful only if every step of its plan, in order, ran and
\* went well or is a branch that was not selected (isRunSuccessful).
VerdictIsHonest ==
  runner.pc = "idle" /\ Successful(bench.summary) =>
    LET plan == bench.summary.plan
        results == bench.summary.results
    IN /\ seen.wrong = {} /\ Len(results) = Len(plan)
       /\ \A i \in DOMAIN plan :
            /\ results[i].at = i
            /\ i \in seen.ran <=> ~results[i].skip
            /\ i \in seen.ran <=> \/ plan[i].role \in {"none", "check"}
                                  \/ plan[i].role = "then" /\ plan[i].cond \in seen.held
                                  \/ plan[i].role = "else" /\ plan[i].cond \notin seen.held

\* Only the branch the check selected runs (conditionOutcomes), even in a run
\* that fails.
BranchesFollowCheck ==
  runner.pc # "idle" =>
    \A i \in seen.ran :
      /\ runner.plan[i].role = "then" => runner.plan[i].cond \in seen.held
      /\ runner.plan[i].role = "else" => runner.plan[i].cond \notin seen.held

\* While the runner listens, the cursor of its buffer stands where the text is
\* consumed to, or at the cut (appendSerialBuffer, consumeSerialBuffer).
CursorIsExact ==
  runner.pc \notin {"idle", "finally", "cleanup"} =>
    uart.rx - uart.len + uart.cursor = Most(seen.consumed, uart.rx - uart.len)

\* A wait passes on the first match nobody consumed before, and times out only
\* if there is none in the text that is left (waitForPattern).
WaitsSeeUnread ==
  [][\A status \in {"pass", "error"} :
       /\ runner.pc \in {"begin", "wait"} /\ Step.op = "wait"
       /\ Len(runner'.results) > Len(runner.results)
       /\ runner'.results[Len(runner'.results)].status = status
       /\ ~Disconnected
       => LET unread == {h \in Hits : h > Most(seen.consumed, uart'.rx - BufferLimit)
                                      /\ h <= uart'.rx}
          IN IF status = "error" THEN unread = {}
             ELSE seen'.consumed \in unread /\ \A h \in unread : seen'.consumed <= h
    ]_testRunVars

\* Once a run is aborted it never switches a rail on (the checks of the signal
\* and of aborted between two awaits).
AbortNeverPowers ==
  [][runner.aborted /\ bench.rail = "off" => bench'.rail = "off"]_testRunVars

\* What holds of a run and of its outcome, however it ends.
RunnerIsSound ==
  LeavesBoardSafe /\ VerdictIsHonest /\ BranchesFollowCheck /\ CursorIsExact

\* What no step of a run does: overlook a match, or power an aborted bench.
RunnerStepsSafely == WaitsSeeUnread /\ AbortNeverPowers
=============================================================================
