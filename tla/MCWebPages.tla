----------------------------- MODULE MCWebPages -----------------------------
(***************************************************************************)
(* Pages of the web application for TLC.  A behaviour is about one page    *)
(* (focus); the variables of the others keep their initial values.         *)
(*                                                                         *)
(* The power workspace: two recordings that interact, the same with a      *)
(* failing database and the startup analysis, and one recording of several *)
(* chunks from a debugger that drops samples; the startup analysis, which  *)
(* sees a recording by its state only; the workflow editor; the GPIO       *)
(* pinout; the sessions of two serial channels without a broker and of one *)
(* with it; the data of three recordings of three samples.                  *)
(***************************************************************************)
EXTENDS PowerCapture, StartupRun, Workflow, GpioPad, SerialLink,
        PowerArchive

VARIABLE focus

MCLimits ==
  {[arms |-> 2, samples |-> 1, drops |-> 0, chunk |-> 1, pre |-> 1,
    faults |-> TRUE, startup |-> TRUE, tab |-> TRUE],
   [arms |-> 1, samples |-> 3, drops |-> 1, chunk |-> 2, pre |-> 1,
    faults |-> FALSE, startup |-> FALSE, tab |-> FALSE]}

MCStartupModes == [logs_in : {TRUE}, early : {FALSE}, strays : {FALSE}]

MCImportFiles ==
  {<<[kind |-> "cond", id |-> 101, check |-> NewStep("expect", 102),
      then |-> <<UnitFrom(<<NewStep("other", 1)>>, 103)>>, else |-> <<>>]>>,
   <<[kind |-> "loop", id |-> 101, count |-> 1,
      kids |-> <<UnitFrom(<<NewStep("wait", 1)>>, 103), NewStep("other", 107)>>]>>}

MCLinkModes ==
  {[chans |-> {"uart0", "uart1"}, web |-> TRUE, bridge |-> FALSE, sockets |-> 0, calls |-> 4],
   [chans |-> {"uart0"}, web |-> TRUE, bridge |-> TRUE, sockets |-> 2, calls |-> 1]}

MCForms ==
  {[rate |-> 1, pre |-> 1, stop |-> 0], [rate |-> 2, pre |-> 0, stop |-> 1],
   [rate |-> 2, pre |-> 0, stop |-> 3]}
MCReadings == [n \in 1..3 |-> {[on |-> n # 2, ua |-> n]}]

pagesVars ==
  <<focus, captureVars, startupVars, workflowVars, gpioPadVars, serialLinkVars,
    archiveVars>>

PagesInit ==
  /\ CaptureInit /\ StartupInit /\ WorkflowInit /\ GpioPadInit /\ SessionInit
  /\ ArchiveInit
  /\ focus \in {"capture", "startup", "workflow", "gpio", "serial", "archive"}
  /\ focus # "capture" => limits.drops = 1
  /\ focus # "startup" => startupMode.logs_in
  /\ focus # "serial" => linkMode.sockets = 0

PagesNext ==
  \/ /\ focus = "capture" /\ CaptureNext
     /\ UNCHANGED <<focus, startupVars, workflowVars, gpioPadVars, serialLinkVars, archiveVars>>
  \/ /\ focus = "startup" /\ StartupNext
     /\ UNCHANGED <<focus, captureVars, workflowVars, gpioPadVars, serialLinkVars, archiveVars>>
  \/ /\ focus = "workflow" /\ WorkflowNext
     /\ UNCHANGED <<focus, captureVars, startupVars, gpioPadVars, serialLinkVars, archiveVars>>
  \/ /\ focus = "gpio" /\ GpioPadNext
     /\ UNCHANGED <<focus, captureVars, startupVars, workflowVars, serialLinkVars, archiveVars>>
  \/ /\ focus = "serial" /\ SessionNext
     /\ UNCHANGED <<focus, captureVars, startupVars, workflowVars, gpioPadVars, archiveVars>>
  \/ /\ focus = "archive" /\ ArchiveNext
     /\ UNCHANGED <<focus, captureVars, startupVars, workflowVars, gpioPadVars, serialLinkVars>>

PagesSpec == PagesInit /\ [][PagesNext]_pagesVars
=============================================================================
