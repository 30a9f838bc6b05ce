------------------------------ MODULE MCUploads ------------------------------
(***************************************************************************)
(* The two uploads of the firmware for TLC: the task document and the      *)
(* image.  A behaviour is about one of them (focus), the image with all    *)
(* that may happen to a board or with as little as its roll back needs.    *)
(***************************************************************************)
EXTENDS TaskStore, Ota

VARIABLE focus

MCSites ==
  {[uploaders |-> Uploaders, images |-> {Factory}, drains |-> TRUE,
    interruptions |-> {"power", "bootsel"}]}
  \cup {[uploaders |-> {c}, images |-> Images, drains |-> FALSE, interruptions |-> {}] :
         c \in {CHOOSE c \in Uploaders : TRUE}}

\* A board of one client whose server drains refused bodies, and nothing else.
MCDrainingSites ==
  {[uploaders |-> {c}, images |-> Images, drains |-> TRUE, interruptions |-> {}] :
   c \in {CHOOSE c \in Uploaders : TRUE}}

UploadsInit ==
  /\ TaskInit /\ OtaInit
  /\ focus \in {"tasks", "ota"}
  /\ focus = "tasks" => site.drains
  /\ focus = "ota" => flash = NoDoc

UploadsNext ==
  \/ focus = "tasks" /\ TaskNext /\ UNCHANGED <<focus, otaVars>>
  \/ focus = "ota" /\ OtaNext /\ UNCHANGED <<focus, taskVars>>

UploadsSpec == UploadsInit /\ [][UploadsNext]_<<focus, taskVars, otaVars>>
=============================================================================
