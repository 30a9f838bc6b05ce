---------------------------- MODULE MCStartupRun ----------------------------
(* The startup power analysis with a user who may press "Stop and report"   *)
(* while start() still waits.                                               *)
EXTENDS StartupRun

MCStartupModes == [logs_in : {FALSE}, early : {TRUE}, strays : {FALSE}]
=============================================================================
