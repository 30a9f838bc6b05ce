--------------------------- MODULE WorkflowHistory ---------------------------
(***************************************************************************)
(* The undo history of the workflow editor (useWorkflowHistory.ts), for    *)
(* any kind of snapshot: what the editor is promised.  An edit pushes a    *)
(* snapshot and forgets what was undone; undo and redo move along the line *)
(* of scripts without losing one, though both cut their lists.             *)
(***************************************************************************)
EXTENDS Integers, Sequences

CONSTANTS
  Snapshot,    \* the scripts
  MaxHistory   \* MAX_HISTORY, a natural number other than 0

VARIABLES
  current,  \* the script of the editor
  past,     \* the snapshots to undo to, the newest last
  future    \* the snapshots to redo, the next first

historyVars == <<current, past, future>>

Newest(s, n) == IF Len(s) <= n THEN s ELSE SubSeq(s, Len(s) - n + 1, Len(s))
Oldest(s, n) == IF Len(s) <= n THEN s ELSE SubSeq(s, 1, n)

Pushed(s, snapshot) == Append(Newest(s, MaxHistory - 1), snapshot)

HistoryInit == current \in Snapshot /\ past = <<>> /\ future = <<>>

(* The snapshot is the script at hand, or, of an import, the one at hand    *)
(* when its file was picked.                                                *)
Edit ==
  /\ past' # <<>>
  /\ LET snapshot == past'[Len(past')]
     IN snapshot \in Snapshot /\ past' = Pushed(past, snapshot)
  /\ future' = <<>>
  /\ current' \in Snapshot

(* A script that takes the place of the one at hand: the letters of a name  *)
(* after the first, or a new workflow.                                      *)
Replace == current' \in Snapshot /\ UNCHANGED <<past, future>>

Undo ==
  /\ past # <<>>
  /\ current' = past[Len(past)]
  /\ past' = SubSeq(past, 1, Len(past) - 1)
  /\ future' = Oldest(<<current>> \o future, MaxHistory)

Redo ==
  /\ future # <<>>
  /\ current' = future[1]
  /\ future' = Tail(future)
  /\ past' = Newest(Append(past, current), MaxHistory)

(* The editor is left and opened again, or the page is loaded again.        *)
Forget == past' = <<>> /\ future' = <<>> /\ current' \in Snapshot

HistoryNext == Edit \/ Replace \/ Undo \/ Redo \/ Forget
HistorySpec == HistoryInit /\ [][HistoryNext]_historyVars

-----------------------------------------------------------------------------
\* The two lists together never hold more than MaxHistory snapshots, though
\* each is cut on its own (useWorkflowHistory).
HistoryFits ==
  /\ past \in Seq(Snapshot) /\ future \in Seq(Snapshot) /\ current \in Snapshot
  /\ Len(past) + Len(future) <= MaxHistory

Line == past \o <<current>> \o future

\* Undo and redo lose no script: what can be reached by them stays the same
\* (undo and redo of useWorkflowHistory, which cut the lists they make).
UndoLosesNothing == [][Undo \/ Redo => Line' = Line]_historyVars
=============================================================================
