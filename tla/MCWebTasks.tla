----------------------------- MODULE MCWebTasks -----------------------------
(***************************************************************************)
(* The tasks of the web application for TLC, with the fairness under which *)
(* they end.  A behaviour is about the task of one page (focus); the       *)
(* variables of the others keep their initial values.                      *)
(***************************************************************************)
EXTENDS StartupRun, TestRun, LogicCapture, TaskPage, OtaClient, ConfigUI,
        LiveBoard, SerialLog

VARIABLE focus

MCStartupModes == [logs_in : BOOLEAN, early : {FALSE}, strays : {FALSE}]

(* Plans of the test runner: with power and a capture, with serial waits,   *)
(* with a condition, with a route.                                          *)
Plain(op) == [op |-> op, power |-> FALSE, cond |-> 0, continue |-> FALSE, role |-> "none"]
Branch(op, role) == [Plain(op) EXCEPT !.cond = 1, !.role = role]
Lenient(op) == [Plain(op) EXCEPT !.continue = TRUE]
MCPlans ==
  {<<Plain("on"), [Plain("capture") EXCEPT !.power = TRUE], Lenient("set")>>,
   <<Plain("wait"), Lenient("wait"), Plain("expect"), Plain("wait")>>,
   <<Branch("adc", "check"), Branch("on", "then"), Branch("send", "else"), Plain("capture")>>,
   <<Plain("delay"), Plain("assert"), Lenient("route")>>}

(* The task card: a recipe of the firmware, and one without a cleanup, with *)
(* which the catalog is refused; four plans, of which only one is stored;   *)
(* blobs of another client, of which one is not run.                         *)
MCStep(op, ms) == [op |-> op, ms |-> ms]
MCCatalogs ==
  {<<[id |-> "b1", reqs |-> <<Request("rail", 1)>>,
      cleanup |-> <<Request("off", 0)>>]>>,
   <<[id |-> "b1", reqs |-> <<Request("rail", 1)>>, cleanup |-> <<>>]>>}
MCTaskPlans ==
  {<<MCStep("rail", 0), MCStep("delay", 1), MCStep("pin", 0)>>,
   <<MCStep("delay", 1), MCStep("pin", 0)>>,
   <<MCStep("pin", 0), MCStep("unsupported", 0)>>,
   <<MCStep("rail", 0), MCStep("delay", 2), MCStep("delay", 2)>>}
MCOtherBlobs ==
  {BuildBlob("s1", <<Request("pin", 0)>>)
     \o <<Line("blank"), [Line("task") EXCEPT !.id = "b1"], Line("comment"),
          [Line("request") EXCEPT !.req = <<Request("evil", 0)>>]>>,
   BuildBlob("bad", <<[Request("pin", 0) EXCEPT !.path = "other"]>>)}

(* The firmware page: a good image and one too large.                       *)
MCImages == {[bin |-> TRUE, size |-> 1], [bin |-> TRUE, size |-> 3]}

tasksVars ==
  <<focus, startupVars, testRunVars, la, taskPageVars, otaClientVars, configUIVars,
    liveBoardVars, serialLogVars>>

TasksInit ==
  /\ StartupInit /\ TestRunInit /\ LogicInit /\ TaskPageInit
  /\ OtaClientInit /\ ConfigUIInit /\ LiveBoardInit /\ SerialLogInit
  /\ focus \in {"startup", "test", "logic", "card", "ota", "config", "board", "serial"}
  /\ focus # "startup" => startupMode.logs_in

(* A step of one task leaves the others alone.                              *)
Startup ==
  /\ focus = "startup"
  /\ UNCHANGED <<focus, testRunVars, la, taskPageVars, otaClientVars,
                 configUIVars, liveBoardVars, serialLogVars>>
Runner ==
  /\ focus = "test"
  /\ UNCHANGED <<focus, startupVars, la, taskPageVars, otaClientVars,
                 configUIVars, liveBoardVars, serialLogVars>>
Logic ==
  /\ focus = "logic"
  /\ UNCHANGED <<focus, startupVars, testRunVars, taskPageVars, otaClientVars,
                 configUIVars, liveBoardVars, serialLogVars>>
TaskCard ==
  /\ focus = "card"
  /\ UNCHANGED <<focus, startupVars, testRunVars, la, otaClientVars,
                 configUIVars, liveBoardVars, serialLogVars>>
Firmware ==
  /\ focus = "ota"
  /\ UNCHANGED <<focus, startupVars, testRunVars, la, taskPageVars,
                 configUIVars, liveBoardVars, serialLogVars>>
Settings ==
  /\ focus = "config"
  /\ UNCHANGED <<focus, startupVars, testRunVars, la, taskPageVars,
                 otaClientVars, liveBoardVars, serialLogVars>>
Board ==
  /\ focus = "board"
  /\ UNCHANGED <<focus, startupVars, testRunVars, la, taskPageVars,
                 otaClientVars, configUIVars, serialLogVars>>
Terminal ==
  /\ focus = "serial"
  /\ UNCHANGED <<focus, startupVars, testRunVars, la, taskPageVars,
                 otaClientVars, configUIVars, liveBoardVars>>

TasksNext ==
  \/ Startup /\ StartupNext
  \/ Runner /\ TestRunNext
  \/ Logic /\ LogicNext
  \/ TaskCard /\ TaskPageNext
  \/ Firmware /\ OtaClientNext
  \/ Settings /\ ConfigUINext
  \/ Board /\ LiveBoardNext
  \/ Terminal /\ SerialLogNext

(* What goes on by itself: the fairness of the FairSpec of each module.     *)
(* Polling goes on even where the rest of the page never comes to rest.     *)
TasksGoOn ==
  \/ Startup /\ (EnderSet \/ EnderRead \/ \E r \in Starts : StartStep(r) \/ CloserSet(r) \/ CloserRead(r))
  \/ Runner /\ RunnerStep
  \/ Logic /\ LogicSystem
  \/ TaskCard /\ \E j \in Jobs : JobStep(j)
  \/ Firmware /\ Polls
  \/ Settings /\ ConfigGoesOn
  \/ Board /\ BoardGoesOn
  \/ Terminal /\ LogGoesOn

TasksSpec ==
  /\ TasksInit /\ [][TasksNext]_tasksVars
  /\ WF_tasksVars(TasksGoOn)
  /\ WF_tasksVars((Firmware /\ StatusAnswers) \/ (Board /\ BoardPolls))

-----------------------------------------------------------------------------
(* A task of the page is under way, or what it shows is old.                *)
UnderWay ==
  \/ su.phase = "finalizing"
  \/ runner.pc # "idle"
  \/ ~AtRest
  \/ \E j \in Jobs : jobs[j].pc \notin {"new", "over"}
  \/ focus = "ota" /\ StatusIsOld
  \/ focus = "config" /\ ConfigUnderWay
  \/ focus = "board" /\ BoardUnderWay
  \/ focus = "serial" /\ TextUnderWay

\* Every task of a page ends: a startup run leaves "finalizing" and gives the
\* lock and the serial channel back, the test runner returns whatever its
\* commands answer, no capture or stream of the logic analyzer waits for ever
\* for an answer, a frame or a close, and the runs of the task card end; a
\* visible firmware page comes to show the state of the debugger, every save
\* and refresh of the configuration is answered, a mode of the board and its
\* capture settle, and received text reaches the log and the screen.
TasksFinish == UnderWay ~> ~UnderWay
=============================================================================
