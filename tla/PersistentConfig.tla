-------------------------- MODULE PersistentConfig --------------------------
(***************************************************************************)
(* What the persistent-configuration feature promises its user, without    *)
(* mutexes, arbiters or replay: ordinary setters change the hardware only; *)
(* a save stores a snapshot of values the hardware had at one moment, and  *)
(* stores a dangerous one only when confirmed; a clear removes it; nothing *)
(* else, no crash, boot or failed operation, changes what is stored.       *)
(* ConfigService implements this specification.                            *)
(***************************************************************************)
CONSTANTS
  Items,            \* the catalog
  States,           \* the possible hardware states, functions on Items
  Blobs,            \* the possible contents of flash
  Dangerous(_)      \* the listed items of a snapshot that need confirmation

VARIABLES
  stored,    \* the blob in flash
  captured,  \* the snapshot a save is about to store, if any
  live       \* the hardware state

abstractVars == <<stored, captured, live>>

Nothing == [some |-> FALSE, snap |-> [i \in Items |-> "none"]]

AbstractInit ==
  /\ stored \in Blobs
  /\ captured = Nothing
  /\ live \in States

\* Setters, replays, resets.
Hardware ==
  /\ live' \in States
  /\ captured' \in {captured, Nothing}
  /\ UNCHANGED stored

\* A save reads the selected values, all at the same moment.
Capture ==
  /\ \E sel \in SUBSET Items, conf \in BOOLEAN :
       LET s == [i \in Items |-> IF i \in sel THEN live[i] ELSE "none"]
       IN /\ Dangerous(s) # {} => conf
          /\ captured' = [some |-> TRUE, snap |-> s]
  /\ UNCHANGED <<stored, live>>

Commit ==
  /\ captured.some
  /\ stored' = [kind |-> "valid", snap |-> captured.snap]
  /\ captured' = Nothing
  /\ UNCHANGED live

\* A write that failed, or a reset before it.
Abandon ==
  /\ captured' = Nothing
  /\ UNCHANGED <<stored, live>>

Clear ==
  /\ stored' = [kind |-> "absent", snap |-> [i \in Items |-> "none"]]
  /\ UNCHANGED <<captured, live>>

AbstractNext == Hardware \/ Capture \/ Commit \/ Abandon \/ Clear

AbstractSpec == AbstractInit /\ [][AbstractNext]_abstractVars
=============================================================================
