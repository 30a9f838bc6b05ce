--------------------------- MODULE TestPage_proofs ---------------------------
(***************************************************************************)
(* Theorems about the test page, for every value of the constants: the     *)
(* undo history of its editor, whose two lists are cut but fit together,   *)
(* so that undo and redo never cut anything; and the runner, for every     *)
(* plan, text and order of answers, aborts and losses.                     *)
(*                                                                         *)
(* The invariant of the runner, RunIInv, has ten parts.  Recorded, Decided *)
(* and Branching tie the results and the outcomes of conditions to the     *)
(* steps that ran; InPlace, InHand and LeavesBoardSafe tie what was driven *)
(* to what the cleanup has left to do; TextInv and CursorIsExact tie the   *)
(* serial buffer and the text of a wait to what was consumed of all that   *)
(* came.                                                                   *)
(***************************************************************************)
EXTENDS WorkflowHistory, TestRun, SequenceTheorems, WellFoundedInduction, TLAPS

-----------------------------------------------------------------------------
(* The history.                                                             *)

(* Cutting a list keeps it a list and bounds it.                            *)
LEMMA NewestType ==
  ASSUME NEW S, NEW s \in Seq(S), NEW n \in Nat
  PROVE  /\ Newest(s, n) \in Seq(S)
         /\ Len(Newest(s, n)) <= n
         /\ Len(Newest(s, n)) <= Len(s)
         /\ Len(s) <= n => Newest(s, n) = s
<1>1. CASE Len(s) <= n
  BY <1>1 DEF Newest
<1>2. CASE Len(s) > n
  <2>1. Newest(s, n) = SubSeq(s, Len(s) - n + 1, Len(s))
    BY <1>2 DEF Newest
  <2>2. Len(s) - n + 1 \in 1..(Len(s) + 1) /\ Len(s) \in 0..Len(s)
    BY <1>2
  <2>3. \A i \in (Len(s) - n + 1)..Len(s) : s[i] \in S
    BY <2>2
  <2>4. SubSeq(s, Len(s) - n + 1, Len(s)) \in Seq(S)
    BY <2>2, <2>3, SubSeqProperties
  <2>5. Len(SubSeq(s, Len(s) - n + 1, Len(s))) = n
    BY <2>2, <1>2, SubSeqProperties
  <2> QED BY <2>1, <2>4, <2>5, <1>2
<1> QED BY <1>1, <1>2

LEMMA OldestType ==
  ASSUME NEW S, NEW s \in Seq(S), NEW n \in Nat
  PROVE  Len(s) <= n => Oldest(s, n) = s
BY DEF Oldest

(* What an undo makes of the lists while they fit: nothing is cut.          *)
LEMMA UndoStep ==
  ASSUME MaxHistory \in Nat \ {0}, HistoryFits, Undo
  PROVE  /\ current' \in Snapshot
         /\ past' \in Seq(Snapshot)
         /\ future' \in Seq(Snapshot)
         /\ future' = <<current>> \o future
         /\ Len(past') = Len(past) - 1
         /\ Len(future') = Len(future) + 1
         /\ past = Append(past', current')
<1>1. past \in Seq(Snapshot) /\ future \in Seq(Snapshot) /\ current \in Snapshot
  BY DEF HistoryFits
<1>2. Len(past) \in Nat \ {0}
  BY <1>1 DEF Undo
<1>3. current' = past[Len(past)] /\ past' = SubSeq(past, 1, Len(past) - 1)
  BY DEF Undo
<1>4. current' \in Snapshot
  BY <1>1, <1>2, <1>3
<1>5. past' \in Seq(Snapshot) /\ Len(past') = Len(past) - 1
      /\ \A i \in 1..(Len(past) - 1) : past'[i] = past[i]
  <2>1. \A i \in 1..(Len(past) - 1) : past[i] \in Snapshot
    BY <1>1, <1>2
  <2> DEFINE n == Len(past) - 1
             t == SubSeq(past, 1, n)
  <2>2. n \in Int /\ 1 \in Int /\ \A i \in 1..n : past[i] \in Snapshot
    BY <1>2, <2>1
  <2>3. /\ t \in Seq(Snapshot)
        /\ Len(t) = IF 1 <= n THEN n - 1 + 1 ELSE 0
        /\ \A i \in 1..(n - 1 + 1) : t[i] = past[1 + i - 1]
    <3> HIDE DEF n
    <3> QED BY <2>2, SubSeqProperties
  <2>4. Len(t) = n /\ \A i \in 1..n : t[i] = past[i]
    <3>1. n \in Nat /\ n - 1 + 1 = n /\ (1 <= n \/ n = 0)
      <4>1. PICK k \in Nat \ {0} : k = Len(past)
        BY <1>2
      <4>2. n \in Nat
        BY <4>1
      <4> HIDE DEF n
      <4> QED BY <4>2
    <3> HIDE DEF n, t
    <3>2. Len(t) = n
      BY <2>3, <3>1
    <3>3. ASSUME NEW i \in 1..n PROVE t[i] = past[i]
      <4>1. i \in 1..(n - 1 + 1) /\ 1 + i - 1 = i
        BY <3>1
      <4> QED BY <2>3, <4>1
    <3> QED BY <3>2, <3>3
  <2> QED BY <1>3, <2>3, <2>4
<1>6. <<current>> \o future \in Seq(Snapshot)
      /\ Len(<<current>> \o future) = Len(future) + 1
  BY <1>1
<1>7. Len(<<current>> \o future) <= MaxHistory
  BY <1>1, <1>2, <1>6 DEF HistoryFits
<1>8. future' = <<current>> \o future
  <2>1. future' = Oldest(<<current>> \o future, MaxHistory)
    BY DEF Undo
  <2> QED BY <2>1, <1>6, <1>7, OldestType
<1>9. past = Append(past', current')
  <2>1. Append(past', current') \in Seq(Snapshot)
        /\ Len(Append(past', current')) = Len(past)
    BY <1>1, <1>2, <1>4, <1>5
  <2>2. \A i \in 1..Len(past) : Append(past', current')[i] = past[i]
    BY <1>1, <1>2, <1>3, <1>4, <1>5
  <2> QED BY <2>1, <2>2, <1>1, SeqEqual
<1> QED BY <1>4, <1>5, <1>6, <1>8, <1>9

(* The same of a redo.                                                      *)
LEMMA RedoStep ==
  ASSUME MaxHistory \in Nat \ {0}, HistoryFits, Redo
  PROVE  /\ current' \in Snapshot
         /\ past' \in Seq(Snapshot)
         /\ future' \in Seq(Snapshot)
         /\ past' = Append(past, current)
         /\ Len(past') = Len(past) + 1
         /\ Len(future') = Len(future) - 1
         /\ future = <<current'>> \o future'
<1>1. past \in Seq(Snapshot) /\ future \in Seq(Snapshot) /\ current \in Snapshot
  BY DEF HistoryFits
<1>2. Len(future) \in Nat \ {0}
  BY <1>1 DEF Redo
<1>3. current' = future[1] /\ future' = Tail(future)
  BY DEF Redo
<1>4. current' \in Snapshot /\ future' \in Seq(Snapshot)
      /\ Len(future') = Len(future) - 1
  BY <1>1, <1>2, <1>3
<1>5. Append(past, current) \in Seq(Snapshot)
      /\ Len(Append(past, current)) = Len(past) + 1
  BY <1>1
<1>6. Len(Append(past, current)) <= MaxHistory
  BY <1>1, <1>2, <1>5 DEF HistoryFits
<1>7. past' = Append(past, current)
  <2>1. past' = Newest(Append(past, current), MaxHistory)
    BY DEF Redo
  <2> QED BY <2>1, <1>5, <1>6, NewestType
<1>8. future = <<current'>> \o future'
  <2>1. <<current'>> \o future' \in Seq(Snapshot)
        /\ Len(<<current'>> \o future') = Len(future)
    BY <1>1, <1>2, <1>4
  <2>2. \A i \in 1..Len(future') : future'[i] = future[i + 1]
    BY <1>1, <1>2, <1>3, HeadTailProperties
  <2>3. \A i \in 1..Len(future) : (<<current'>> \o future')[i] = future[i]
    BY <1>1, <1>2, <1>3, <1>4, <2>2
  <2> QED BY <2>1, <2>3, <1>1, SeqEqual
<1> QED BY <1>4, <1>5, <1>7, <1>8

(* The lists of useWorkflowHistory fit together in every reachable state.   *)
THEOREM HistoryAlwaysFits ==
  ASSUME MaxHistory \in Nat \ {0}
  PROVE  HistorySpec => []HistoryFits
<1>1. HistoryInit => HistoryFits
  BY DEF HistoryInit, HistoryFits
<1>2. HistoryFits /\ [HistoryNext]_historyVars => HistoryFits'
  <2> SUFFICES ASSUME HistoryFits, [HistoryNext]_historyVars PROVE HistoryFits'
    OBVIOUS
  <2>0. past \in Seq(Snapshot) /\ future \in Seq(Snapshot) /\ current \in Snapshot
        /\ Len(past) + Len(future) <= MaxHistory
    BY DEF HistoryFits
  <2>1. CASE Edit
    <3>1. PICK snapshot \in Snapshot : past' = Pushed(past, snapshot)
      BY <2>1 DEF Edit
    <3>2. Newest(past, MaxHistory - 1) \in Seq(Snapshot)
          /\ Len(Newest(past, MaxHistory - 1)) <= MaxHistory - 1
      BY <2>0, NewestType
    <3>3. past' \in Seq(Snapshot) /\ Len(past') <= MaxHistory
      BY <3>1, <3>2 DEF Pushed
    <3>4. future' = <<>> /\ current' \in Snapshot
      BY <2>1 DEF Edit
    <3> QED BY <3>3, <3>4 DEF HistoryFits
  <2>2. CASE Replace
    BY <2>0, <2>2 DEF Replace, HistoryFits
  <2>3. CASE Undo
    <3>1. /\ current' \in Snapshot /\ past' \in Seq(Snapshot)
          /\ future' \in Seq(Snapshot)
          /\ Len(past') = Len(past) - 1 /\ Len(future') = Len(future) + 1
      BY <2>3, UndoStep
    <3>2. Len(past') + Len(future') = Len(past) + Len(future)
      BY <3>1, <2>0
    <3> QED BY <2>0, <3>1, <3>2 DEF HistoryFits
  <2>4. CASE Redo
    <3>1. /\ current' \in Snapshot /\ past' \in Seq(Snapshot)
          /\ future' \in Seq(Snapshot)
          /\ Len(past') = Len(past) + 1 /\ Len(future') = Len(future) - 1
      BY <2>4, RedoStep
    <3>2. Len(past') + Len(future') = Len(past) + Len(future)
      BY <3>1, <2>0
    <3> QED BY <2>0, <3>1, <3>2 DEF HistoryFits
  <2>5. CASE Forget
    BY <2>5 DEF Forget, HistoryFits
  <2>6. CASE UNCHANGED historyVars
    BY <2>0, <2>6 DEF historyVars, HistoryFits
  <2> QED BY <2>1, <2>2, <2>3, <2>4, <2>5, <2>6 DEF HistoryNext
<1> QED BY <1>1, <1>2, PTL DEF HistorySpec

(* Undo and redo keep the line of scripts they move along.                  *)
THEOREM UndoNeverLoses ==
  ASSUME MaxHistory \in Nat \ {0}
  PROVE  HistorySpec => UndoLosesNothing
<1>1. HistoryFits /\ [HistoryNext]_historyVars => [Undo \/ Redo => Line' = Line]_historyVars
  <2> SUFFICES ASSUME HistoryFits, Undo \/ Redo PROVE Line' = Line
    OBVIOUS
  <2>0. past \in Seq(Snapshot) /\ future \in Seq(Snapshot) /\ current \in Snapshot
    BY DEF HistoryFits
  <2>1. CASE Undo
    <3>1. past' \in Seq(Snapshot) /\ current' \in Snapshot
          /\ past = Append(past', current') /\ future' = <<current>> \o future
      BY <2>1, UndoStep
    <3>2. Append(past', current') = past' \o <<current'>>
      BY <3>1
    <3>3. Line' = past' \o <<current'>> \o (<<current>> \o future)
      BY <3>1 DEF Line
    <3>4. past' \o <<current'>> \o (<<current>> \o future)
            = (past' \o <<current'>>) \o <<current>> \o future
      BY <2>0, <3>1
    <3> QED BY <3>1, <3>2, <3>3, <3>4 DEF Line
  <2>2. CASE Redo
    <3>1. future' \in Seq(Snapshot) /\ current' \in Snapshot
          /\ past' = Append(past, current) /\ future = <<current'>> \o future'
      BY <2>2, RedoStep
    <3>2. Append(past, current) = past \o <<current>>
      BY <2>0
    <3>3. Line' = (past \o <<current>>) \o <<current'>> \o future'
      BY <3>1, <3>2 DEF Line
    <3>4. (past \o <<current>>) \o <<current'>> \o future'
            = past \o <<current>> \o (<<current'>> \o future')
      BY <2>0, <3>1
    <3> QED BY <3>1, <3>3, <3>4 DEF Line
  <2> QED BY <2>1, <2>2
<1> QED BY <1>1, HistoryAlwaysFits, PTL DEF HistorySpec, UndoLosesNothing

-----------------------------------------------------------------------------
(* The runner: its types and its invariant.                                 *)

Doing == {"answer", "power", "sleep", "wait", "expect", "arm", "cycle", "cycle_off",
          "cycle_sleep", "cycle_on", "capture"}
Capturing == {"cycle", "cycle_off", "cycle_sleep", "cycle_on", "capture"}
MidStep == Doing \cup {"begin"}
RunnerPcs == MidStep \cup {"idle", "next", "finally", "cleanup"}
Statuses == {"pass", "fail", "error", "aborted", "skip"}
StepResults == [at : Nat, skip : BOOLEAN, status : Statuses]
Targets == {"rail", "pin"}

RunnerTypeOK ==
  runner \in [pc : RunnerPcs, plan : Plans \cup {<<>>}, at : Nat,
              results : Seq(StepResults), outcomes : SUBSET (Nat \X BOOLEAN),
              aborted : BOOLEAN, capture : BOOLEAN, lost : BOOLEAN, infra : BOOLEAN,
              touched : SUBSET Targets, cleanup : BOOLEAN]
UartTypeOK == uart \in [rx : Nat, len : Nat, cursor : Nat, local : Nat]
Summaries == [plan : Plans \cup {<<>>}, results : Seq(StepResults), completed : BOOLEAN,
              aborted : BOOLEAN, infra : BOOLEAN, cleanup : BOOLEAN]
BenchTypeOK ==
  bench \in [rail : {"on", "off"}, pin : {"in", "out"},
             capture : {"idle", "arming", "armed"}, lock : {"none", "test", "other"},
             summary : Summaries, runs : Nat]
SeenTypeOK ==
  seen \in [ran : SUBSET Nat, wrong : SUBSET Nat, held : SUBSET Nat,
            driven : SUBSET Targets, consumed : Nat]
RunTypeOK == RunnerTypeOK /\ UartTypeOK /\ BenchTypeOK /\ SeenTypeOK

\* The step at hand is one of the plan, and the results are those of the steps
\* before it, or, between two steps, of those up to it.
InPlace ==
  /\ runner.pc = "idle" => runner = IdleRunner
  /\ runner.at <= Len(runner.plan)
  /\ runner.pc \in MidStep => runner.at > 0 /\ Len(runner.results) = runner.at - 1
  /\ runner.pc \in {"next", "finally", "cleanup"} => Len(runner.results) = runner.at

\* A result says of its step whether it ran and went well.
Recorded ==
  runner.pc # "idle" =>
    /\ seen.wrong \subseteq seen.ran /\ seen.ran \subseteq 1..Len(runner.results)
    /\ \A i \in 1..Len(runner.results) :
         /\ runner.results[i].at = i
         /\ i \in seen.ran <=> ~runner.results[i].skip
         /\ i \in seen.wrong => runner.results[i].status \in {"fail", "error"}

\* The outcomes are those of the checks that ran, of each one at most.
Decided ==
  runner.pc # "idle" =>
    /\ \A c \in Nat : c \in seen.held <=> <<c, TRUE>> \in runner.outcomes
    /\ \A c \in Nat : ~(<<c, TRUE>> \in runner.outcomes /\ <<c, FALSE>> \in runner.outcomes)
    /\ \A c \in Nat, b \in BOOLEAN : <<c, b>> \in runner.outcomes =>
         \E j \in 1..Len(runner.results) :
           runner.plan[j].role = "check" /\ runner.plan[j].cond = c
    /\ runner.pc \notin {"finally", "cleanup"} =>
         \A j \in 1..Len(runner.results) : runner.plan[j].role = "check" =>
           \/ <<runner.plan[j].cond, TRUE>> \in runner.outcomes
           \/ <<runner.plan[j].cond, FALSE>> \in runner.outcomes

\* Of the steps that are over the checks, the selected branches and the plain
\* ones ran; the step at hand is no branch that was not selected.
BranchOf(i) ==
  CASE runner.plan[i].role = "then" -> runner.plan[i].cond \in seen.held
    [] runner.plan[i].role = "else" -> runner.plan[i].cond \notin seen.held
    [] OTHER -> TRUE
Branching ==
  runner.pc # "idle" =>
    /\ \A i \in 1..Len(runner.results) : i \in seen.ran <=> BranchOf(i)
    /\ runner.pc \in Doing /\ Step.role \in {"then", "else"} => Selected

\* A recording goes on only while its step is at hand; what was driven is to be
\* made safe, or is safe when the cleanup has passed so far.
InHand ==
  /\ runner.pc = "begin" => ~runner.aborted
  /\ bench.capture = "arming" => runner.pc = "arm"
  /\ bench.capture = "armed" => runner.capture
  /\ runner.capture => runner.pc \in Capturing
  /\ runner.pc \notin {"idle", "cleanup"} => seen.driven \subseteq runner.touched
  /\ runner.pc = "cleanup" /\ runner.cleanup =>
       /\ "rail" \in seen.driven \ runner.touched => bench.rail = "off"
       /\ "pin" \in seen.driven \ runner.touched => bench.pin = "in"

Listens == runner.pc \notin {"idle", "finally", "cleanup"}

\* The buffer holds all that came since the run began, or as much as it can; a
\* wait searches what is not consumed and has found nothing yet.
TextInv ==
  /\ uart.len <= BufferLimit /\ uart.len <= uart.rx /\ uart.cursor <= uart.len
  /\ uart.local <= BufferLimit /\ uart.local <= uart.rx /\ seen.consumed <= uart.rx
  /\ runner.pc # "wait" => uart.local = 0
  /\ Listens /\ uart.len < BufferLimit => uart.rx - uart.len <= seen.consumed
  /\ runner.pc = "wait" =>
       /\ uart.local = uart.len - uart.cursor
       /\ \A h \in Hits : ~(uart.rx - uart.local < h /\ h <= uart.rx)

RunIInv ==
  /\ RunTypeOK /\ InPlace /\ Recorded /\ Decided /\ Branching /\ InHand /\ TextInv
  /\ LeavesBoardSafe /\ VerdictIsHonest /\ CursorIsExact

-----------------------------------------------------------------------------
(* What a step does to the run: it ends the step at hand, or the runner     *)
(* moves on and keeps the results.                                          *)

Branched == runner.pc = "begin" /\ Step.role \in {"then", "else"} => Selected

Ending(status) ==
  /\ runner.pc \in MidStep /\ Branched
  /\ \E lost \in BOOLEAN : runner' = [Ended(runner, status) EXCEPT !.lost = lost]
  /\ \E n \in Nat : seen' = [Noted(status) EXCEPT !.consumed = n]

Moving ==
  /\ RunnerTypeOK' /\ SeenTypeOK'
  /\ runner'.plan = runner.plan /\ runner'.at = runner.at
  /\ runner'.results = runner.results /\ runner'.outcomes = runner.outcomes
  /\ seen'.ran = seen.ran /\ seen'.wrong = seen.wrong /\ seen'.held = seen.held
  /\ bench'.summary = bench.summary
  /\ \/ runner' = runner
     \/ runner.pc # "idle" /\ runner'.pc = runner.pc
     \/ runner.pc \in MidStep /\ runner'.pc \in Doing /\ Branched
     \/ runner.pc = "finally" /\ runner'.pc = "cleanup"

\* The plan of a run is expanded, and its steps are steps.
LEMMA PlanTyped ==
  ASSUME TestRunAssumption, RunnerTypeOK
  PROVE  /\ runner.plan \in Seq(PlanSteps) /\ Expanded(runner.plan)
         /\ Len(runner.plan) \in Nat /\ runner.at \in Nat
         /\ runner.results \in Seq(StepResults) /\ Len(runner.results) \in Nat
  <1>1. runner.plan \in Plans \cup {<<>>} /\ runner.at \in Nat
        /\ runner.results \in Seq(StepResults)
    BY DEF RunnerTypeOK
  <1>2. <<>> \in Seq(PlanSteps) /\ Expanded(<<>>)
    BY DEF Expanded
  <1>3. runner.plan \in Seq(PlanSteps) /\ Expanded(runner.plan)
    BY <1>1, <1>2 DEF TestRunAssumption
  <1>4. Len(runner.plan) \in Nat /\ Len(runner.results) \in Nat
    BY <1>1, <1>3, LenProperties
  <1> QED BY <1>1, <1>3, <1>4

LEMMA StepTyped ==
  ASSUME TestRunAssumption, RunnerTypeOK, InPlace, runner.pc \in MidStep
  PROVE  runner.at \in 1..Len(runner.plan) /\ Step \in PlanSteps
  <1>1. runner.at \in 1..Len(runner.plan)
    BY PlanTyped DEF InPlace
  <1>2. Step \in PlanSteps
    BY <1>1, PlanTyped, ElementOfSeq DEF Step
  <1> QED BY <1>1, <1>2

\* The search of the last n chunks finds the first match of the pattern, if any.
LEMMA MatchEndIsFirst ==
  ASSUME TestRunAssumption, NEW u, u.rx \in Nat, NEW n \in Nat
  PROVE  \/ MatchEnd(u, n) = 0 /\ \A i \in 1..n : u.rx - n + i \notin Hits
         \/ /\ MatchEnd(u, n) \in 1..n /\ u.rx - n + MatchEnd(u, n) \in Hits
            /\ \A i \in 1..n : u.rx - n + i \in Hits => MatchEnd(u, n) <= i
  <1> DEFINE ends == {i \in 1..n : u.rx - n + i \in Hits}
  <1>1. CASE ends = {}
    BY <1>1 DEF MatchEnd
  <1>2. CASE ends # {}
    <2>1. ends \subseteq Nat
      OBVIOUS
    <2>2. PICK x \in ends : \A y \in ends : ~(<<y, x>> \in OpToRel(<, Nat))
      BY <1>2, <2>1, WFMin, NatLessThanWellFounded, Zenon
    <2>3. \A y \in ends : x <= y
      <3>1. OpToRel(<, Nat) = {ss \in Nat \X Nat : ss[1] < ss[2]}
        BY DEF OpToRel
      <3>2. SUFFICES ASSUME NEW y \in ends, y < x PROVE FALSE
        BY <2>1
      <3>3. <<y, x>> \in Nat \X Nat /\ <<y, x>>[1] = y /\ <<y, x>>[2] = x
        BY <2>1
      <3>4. <<y, x>> \in {ss \in Nat \X Nat : ss[1] < ss[2]}
        BY <3>2, <3>3
      <3> QED BY <2>2, <3>1, <3>4, Zenon
    <2>4. MatchEnd(u, n) = CHOOSE i \in ends : \A j \in ends : i <= j
      BY <1>2 DEF MatchEnd
    <2>5. MatchEnd(u, n) \in ends /\ \A j \in ends : MatchEnd(u, n) <= j
      BY <2>3, <2>4, Zenon
    <2> QED BY <2>5
  <1> QED BY <1>1, <1>2

\* The end of a step leaves a typed run, with one more result.
LEMMA EndingTyped ==
  ASSUME TestRunAssumption, RunTypeOK, InPlace,
         NEW status \in Statuses \ {"skip"}, Ending(status)
  PROVE  /\ RunnerTypeOK' /\ SeenTypeOK'
         /\ runner'.pc = IF Stops(status) THEN "finally" ELSE "next"
         /\ runner'.plan = runner.plan /\ runner'.at = runner.at
         /\ runner'.results = Append(runner.results, [at |-> runner.at, skip |-> FALSE,
                                                      status |-> Verdict(status)])
         /\ Verdict(status) \in Statuses \ {"skip"}
         /\ runner'.outcomes = runner.outcomes \cup Outcome(status)
         /\ runner'.aborted = runner.aborted /\ runner'.capture = FALSE
         /\ runner'.touched = runner.touched /\ runner'.cleanup = runner.cleanup
         /\ seen'.ran = Noted(status).ran /\ seen'.wrong = Noted(status).wrong
         /\ seen'.held = Noted(status).held /\ seen'.driven = seen.driven
  <1>1. PICK lost \in BOOLEAN, n \in Nat :
          /\ runner' = [Ended(runner, status) EXCEPT !.lost = lost]
          /\ seen' = [Noted(status) EXCEPT !.consumed = n]
    BY DEF Ending
  <1>2. Step \in PlanSteps /\ runner.at \in Nat
    BY StepTyped, PlanTyped DEF Ending, RunTypeOK
  <1>3. Verdict(status) \in Statuses \ {"skip"}
    BY DEF Verdict, Statuses
  <1> DEFINE result == [at |-> runner.at, skip |-> FALSE, status |-> Verdict(status)]
             pc == IF Stops(status) THEN "finally" ELSE "next"
  <1>4. result \in StepResults
    BY <1>2, <1>3 DEF StepResults
  <1>5. Append(runner.results, result) \in Seq(StepResults)
    BY <1>4, PlanTyped, AppendProperties DEF RunTypeOK
  <1>6. runner.outcomes \cup Outcome(status) \in SUBSET (Nat \X BOOLEAN)
    <2>1. Step.cond \in Nat
      BY <1>2 DEF PlanSteps
    <2>2. (status = "pass") \in BOOLEAN
      OBVIOUS
    <2>3. <<Step.cond, status = "pass">> \in Nat \X BOOLEAN
      BY <2>1, <2>2
    <2>4. Outcome(status) \subseteq Nat \X BOOLEAN
      BY <2>3 DEF Outcome
    <2>5. runner.outcomes \subseteq Nat \X BOOLEAN
      BY DEF RunTypeOK, RunnerTypeOK
    <2> QED BY <2>4, <2>5
  <1> HIDE DEF result, pc
  <1>7. runner' = [runner EXCEPT !.results = Append(runner.results, result),
                     !.outcomes = runner.outcomes \cup Outcome(status),
                     !.capture = FALSE, !.pc = pc, !.lost = lost]
    BY <1>1 DEF Ended, result, pc, RunTypeOK, RunnerTypeOK
  <1>8. pc \in RunnerPcs /\ FALSE \in BOOLEAN
    BY DEF pc, RunnerPcs
  <1>9. RunnerTypeOK'
    BY <1>5, <1>6, <1>7, <1>8 DEF RunTypeOK, RunnerTypeOK
  <1>10. Noted(status) \in [ran : SUBSET Nat, wrong : SUBSET Nat, held : SUBSET Nat,
                            driven : SUBSET Targets, consumed : Nat]
         /\ Noted(status).driven = seen.driven
    BY <1>2 DEF Noted, RunTypeOK, SeenTypeOK, PlanSteps
  <1>11. SeenTypeOK'
    BY <1>1, <1>10 DEF SeenTypeOK
  <1>12. /\ runner'.pc = pc /\ runner'.plan = runner.plan /\ runner'.at = runner.at
         /\ runner'.results = Append(runner.results, result)
         /\ runner'.outcomes = runner.outcomes \cup Outcome(status)
         /\ runner'.aborted = runner.aborted /\ runner'.capture = FALSE
         /\ runner'.touched = runner.touched /\ runner'.cleanup = runner.cleanup
    BY <1>7 DEF RunTypeOK, RunnerTypeOK
  <1>13. /\ seen'.ran = Noted(status).ran /\ seen'.wrong = Noted(status).wrong
         /\ seen'.held = Noted(status).held /\ seen'.driven = seen.driven
    BY <1>1, <1>10
  <1> QED BY <1>3, <1>9, <1>11, <1>12, <1>13 DEF pc, result

Endings == Statuses \ {"skip"}

LEMMA EndStepEnds ==
  ASSUME RunTypeOK, runner.pc \in MidStep, Branched, NEW status \in Endings, EndStep(status)
  PROVE  Ending(status) /\ bench'.summary = bench.summary
  <1>1. runner' = [Ended(runner, status) EXCEPT !.lost = runner.lost]
        /\ runner.lost \in BOOLEAN
    BY DEF EndStep, Ended, RunTypeOK, RunnerTypeOK
  <1>2. seen' = [Noted(status) EXCEPT !.consumed = seen.consumed] /\ seen.consumed \in Nat
    BY DEF EndStep, Noted, RunTypeOK, SeenTypeOK
  <1>3. bench'.summary = bench.summary
    BY DEF EndStep, Uncaptured, RunTypeOK, BenchTypeOK
  <1> QED BY <1>1, <1>2, <1>3 DEF Ending

LEMMA EndWaitEnds ==
  ASSUME RunTypeOK, runner.pc \in MidStep, Branched, NEW status \in Endings,
         NEW u, NEW n, u.rx - u.local + n \in Nat, EndWait(u, n, status)
  PROVE  Ending(status) /\ bench'.summary = bench.summary
  <1>1. runner' = [Ended(runner, status) EXCEPT !.lost = runner.lost]
        /\ runner.lost \in BOOLEAN
    BY DEF EndWait, Ended, RunTypeOK, RunnerTypeOK
  <1>2. seen' = [Noted(status) EXCEPT !.consumed = u.rx - u.local + n]
    BY DEF EndWait
  <1>3. bench'.summary = bench.summary
    BY DEF EndWait, Uncaptured, RunTypeOK, BenchTypeOK
  <1> QED BY <1>1, <1>2, <1>3 DEF Ending

\* A step that only goes to another await.
LEMMA PcMoves ==
  ASSUME RunTypeOK, NEW pc \in Doing, runner.pc \in MidStep, Branched,
         runner' = [runner EXCEPT !.pc = pc], UNCHANGED seen, bench'.summary = bench.summary
  PROVE  Moving
  <1>1. pc \in RunnerPcs
    BY DEF RunnerPcs, MidStep
  <1>2. RunnerTypeOK' /\ runner'.pc = pc
        /\ runner'.plan = runner.plan /\ runner'.at = runner.at
        /\ runner'.results = runner.results /\ runner'.outcomes = runner.outcomes
    BY <1>1 DEF RunTypeOK, RunnerTypeOK
  <1>3. SeenTypeOK' /\ seen' = seen
    BY DEF RunTypeOK, SeenTypeOK
  <1> QED BY <1>2, <1>3 DEF Moving

LEMMA SendMoves ==
  ASSUME RunTypeOK, NEW pc \in Doing, NEW target, NEW took \in BOOLEAN,
         runner.pc \in MidStep, Branched, Send(pc, target, took)
  PROVE  Moving
  <1>1. pc \in RunnerPcs /\ runner.touched \cup Touches(target) \in SUBSET Targets
    BY DEF RunnerPcs, MidStep, Touches, Targets, RunTypeOK, RunnerTypeOK
  <1>2. RunnerTypeOK' /\ runner'.pc = pc
        /\ runner'.plan = runner.plan /\ runner'.at = runner.at
        /\ runner'.results = runner.results /\ runner'.outcomes = runner.outcomes
    BY <1>1 DEF Send, RunTypeOK, RunnerTypeOK
  <1>3. SeenTypeOK' /\ seen'.ran = seen.ran /\ seen'.wrong = seen.wrong
        /\ seen'.held = seen.held
    BY DEF Send, RunTypeOK, SeenTypeOK, Targets
  <1>4. bench'.summary = bench.summary
    BY DEF Send, RunTypeOK, BenchTypeOK
  <1> QED BY <1>2, <1>3, <1>4 DEF Moving

Kinds ==
  \/ Moving
  \/ \E status \in Endings : Ending(status) /\ bench'.summary = bench.summary
  \/ NextStep \/ SkipStep \/ StartRun \/ Complete

\* Every step moves on, ends the step at hand, or is one of the four others.
LEMMA StepsAreOfAKind ==
  ASSUME TestRunAssumption, RunIInv, TestRunNext
  PROVE  Kinds
  <1> USE DEF RunIInv
  <1>0. Step \in PlanSteps \/ runner.pc \notin MidStep
    BY StepTyped DEF RunTypeOK
  <1>1. runner.pc \in Doing => Branched /\ runner.pc \in MidStep
    BY DEF Branched, Doing, MidStep
  <1>2. \A op \in Ops : Begins(op) => runner.pc \in MidStep /\ Branched
    BY DEF Begins, Branched, MidStep
  <1>3. CASE Commands
    <2>1. PICK took \in BOOLEAN :
            \/ \E op \in {"off", "set", "route", "adc", "send"} :
                 Begins(op) /\ Send("answer", IF op = "set" THEN "out" ELSE op, took)
            \/ Begins("on") /\ Send("power", "on", took)
      BY <1>3 DEF Commands
    <2>2. "answer" \in Doing /\ "power" \in Doing
      BY DEF Doing
    <2>3. CASE Begins("on") /\ Send("power", "on", took)
      <3>1. "on" \in Ops
        BY DEF Ops
      <3> QED BY <1>2, <2>2, <2>3, <3>1, SendMoves DEF Kinds
    <2>4. CASE \E op \in {"off", "set", "route", "adc", "send"} :
                 Begins(op) /\ Send("answer", IF op = "set" THEN "out" ELSE op, took)
      <3>1. PICK op \in {"off", "set", "route", "adc", "send"} :
                 Begins(op) /\ Send("answer", IF op = "set" THEN "out" ELSE op, took)
        BY <2>4
      <3>2. op \in Ops
        BY DEF Ops
      <3> DEFINE target == IF op = "set" THEN "out" ELSE op
      <3>3. Send("answer", target, took)
        BY <3>1
      <3> HIDE DEF target
      <3> QED BY <1>2, <2>2, <3>1, <3>2, <3>3, SendMoves DEF Kinds
    <2> QED BY <2>1, <2>3, <2>4
  <1>4. CASE \E status \in Endings : runner.pc \in Doing /\ EndStep(status)
    BY <1>1, <1>4, EndStepEnds DEF Kinds
  <1>5. CASE Answered
    <2>1. PICK status \in {"pass", "error", "fail"} : EndStep(status)
      BY <1>5 DEF Answered
    <2>2. status \in Endings /\ runner.pc \in Doing
      BY <1>5 DEF Answered, Doing, Endings, Statuses
    <2> QED BY <1>4, <2>1, <2>2
  <1>6. CASE PowerAnswered
    <2>1. runner.pc \in Doing /\ "sleep" \in Doing /\ "error" \in Endings
      BY <1>6 DEF PowerAnswered, Doing, Endings, Statuses
    <2>2. CASE runner' = [runner EXCEPT !.pc = "sleep"] /\ UNCHANGED <<bench, seen>>
      BY <1>1, <2>1, <2>2, PcMoves DEF Kinds
    <2> QED BY <1>4, <1>6, <2>1, <2>2 DEF PowerAnswered
  <1>7. CASE BeginSleep
    <2>1. PICK op \in {"delay", "assert"} : Begins(op)
      BY <1>7 DEF BeginSleep
    <2>2. runner.pc \in MidStep /\ Branched /\ "sleep" \in Doing
      BY <1>2, <2>1 DEF Ops, Doing
    <2>3. runner' = [runner EXCEPT !.pc = "sleep"] /\ UNCHANGED <<bench, seen>>
      BY <1>7 DEF BeginSleep
    <2> QED BY <2>2, <2>3, PcMoves DEF Kinds
  <1>8. CASE SleepEnds
    <2>1. PICK status \in {"aborted", "pass", "error", "fail"} : EndStep(status)
      BY <1>8 DEF SleepEnds
    <2>2. status \in Endings /\ runner.pc \in Doing
      BY <1>8 DEF SleepEnds, Doing, Endings, Statuses
    <2> QED BY <1>4, <2>1, <2>2
  <1>9. CASE BeginWait
    <2> DEFINE unread == uart.len - uart.cursor
               u == [uart EXCEPT !.local = unread]
    <2>1. runner.pc \in MidStep /\ Branched
      BY <1>2, <1>9 DEF BeginWait, Ops
    <2>2. unread \in Nat /\ u.rx = uart.rx /\ u.rx \in Nat /\ u.local = unread
          /\ unread <= u.rx
      BY DEF RunTypeOK, UartTypeOK, TextInv
    <2>3. CASE MatchEnd(u, unread) > 0 /\ EndWait(u, MatchEnd(u, unread), "pass")
      <3> HIDE DEF u, unread
      <3>1. PICK m \in 1..unread : m = MatchEnd(u, unread)
        BY <2>2, <2>3, MatchEndIsFirst
      <3>2. u.rx - u.local + m \in Nat
        BY <2>2, <3>1
      <3>3. "pass" \in Endings
        BY DEF Endings, Statuses
      <3>4. EndWait(u, m, "pass")
        BY <2>3, <3>1
      <3> QED BY <2>1, <3>2, <3>3, <3>4, EndWaitEnds DEF Kinds
    <2>4. CASE runner' = [runner EXCEPT !.pc = "wait"] /\ UNCHANGED <<bench, seen>>
      <3>1. "wait" \in Doing
        BY DEF Doing
      <3> QED BY <2>1, <2>4, <3>1, PcMoves DEF Kinds
    <2> QED BY <1>9, <2>3, <2>4 DEF BeginWait
  <1>10. CASE Disconnected
    <2>1. runner.pc \in MidStep /\ Branched /\ "error" \in Endings
      BY <1>2, <1>10 DEF Disconnected, Ops, Endings, Statuses
    <2> QED BY <1>10, <2>1, EndStepEnds DEF Disconnected, Kinds
  <1>11. CASE Receive
    <2> DEFINE u == IF Listens THEN Appended(uart) ELSE [uart EXCEPT !.rx = @ + 1]
               n == Least(uart.local + 1, BufferLimit)
               v == [u EXCEPT !.local = n]
    <2>1. CASE UNCHANGED <<runner, bench, seen>>
      BY <2>1 DEF Moving, Kinds, RunTypeOK, RunnerTypeOK, SeenTypeOK
    <2>2. CASE runner.pc = "wait" /\ MatchEnd(v, n) > 0 /\ EndWait(v, MatchEnd(v, n), "pass")
      <3>1. n \in Nat /\ n <= uart.rx + 1 /\ uart.rx + 1 \in Nat
        BY DEF Least, RunTypeOK, UartTypeOK, TextInv, TestRunAssumption
      <3>2. v.rx = uart.rx + 1 /\ v.local = n
        BY DEF Appended, RunTypeOK, UartTypeOK
      <3> HIDE DEF u, v, n
      <3>3. PICK m \in 1..n : m = MatchEnd(v, n)
        BY <2>2, <3>1, <3>2, MatchEndIsFirst
      <3>4. v.rx - v.local + m \in Nat
        BY <3>1, <3>2, <3>3
      <3>5. EndWait(v, m, "pass") /\ "pass" \in Endings
        BY <2>2, <3>3 DEF Endings, Statuses
      <3>6. runner.pc \in MidStep /\ Branched
        BY <1>1, <2>2 DEF Doing
      <3> QED BY <3>4, <3>5, <3>6, EndWaitEnds DEF Kinds
    <2> QED BY <1>11, <2>1, <2>2 DEF Receive, Listens
  <1>12. CASE WaitEnds
    <2>1. runner.pc \in Doing /\ "aborted" \in Endings /\ "error" \in Endings
      BY <1>12 DEF WaitEnds, Doing, Endings, Statuses
    <2>2. CASE EndStep("aborted")
      BY <1>4, <2>1, <2>2
    <2>3. CASE EndWait(uart, uart.local, "error")
      <3>1. uart.rx - uart.local + uart.local \in Nat
        BY DEF RunTypeOK, UartTypeOK
      <3> QED BY <1>1, <2>1, <2>3, <3>1, EndWaitEnds DEF Kinds
    <2> QED BY <1>12, <2>2, <2>3 DEF WaitEnds
  <1>13. CASE BeginExpect
    <2>1. runner.pc \in MidStep /\ Branched /\ "expect" \in Doing
      BY <1>2, <1>13 DEF BeginExpect, Ops, Doing
    <2> QED BY <1>13, <2>1, PcMoves DEF BeginExpect, Kinds
  <1>14. CASE ExpectEnds
    <2>1. PICK status \in {"pass", "fail", "error", "aborted"} :
            /\ runner' = Ended(runner, status) /\ bench' = Uncaptured(bench, runner)
            /\ seen' = [Noted(status) EXCEPT !.consumed = uart.rx]
      BY <1>14 DEF ExpectEnds
    <2>2. status \in Endings /\ runner.pc \in Doing
      BY <1>14 DEF ExpectEnds, Doing, Endings, Statuses
    <2>3. runner' = [Ended(runner, status) EXCEPT !.lost = runner.lost]
          /\ runner.lost \in BOOLEAN
      BY <2>1 DEF Ended, RunTypeOK, RunnerTypeOK
    <2>4. uart.rx \in Nat
      BY DEF RunTypeOK, UartTypeOK
    <2>5. bench'.summary = bench.summary
      BY <2>1 DEF Uncaptured, RunTypeOK, BenchTypeOK
    <2>6. Ending(status)
      BY <1>1, <2>1, <2>2, <2>3, <2>4 DEF Ending
    <2> QED BY <2>2, <2>5, <2>6 DEF Kinds
  <1>15. CASE BeginCapture
    <2>1. runner.pc \in MidStep /\ Branched /\ "arm" \in Doing
      BY <1>2, <1>15 DEF BeginCapture, Ops, Doing
    <2>2. bench'.summary = bench.summary
      BY <1>15 DEF BeginCapture, RunTypeOK, BenchTypeOK
    <2> QED BY <1>15, <2>1, <2>2, PcMoves DEF BeginCapture, Kinds
  <1> DEFINE EndsAs(status, lost) ==
               /\ runner' = [Ended(runner, status) EXCEPT !.lost = lost]
               /\ seen' = Noted(status) /\ bench' = [bench EXCEPT !.capture = "idle"]
  <1>16. ASSUME runner.pc \in Doing, NEW status \in Endings, NEW lost \in BOOLEAN,
                EndsAs(status, lost)
         PROVE  Kinds
    <2>1. seen' = [Noted(status) EXCEPT !.consumed = seen.consumed] /\ seen.consumed \in Nat
      BY <1>16 DEF Noted, RunTypeOK, SeenTypeOK
    <2>2. bench'.summary = bench.summary
      BY <1>16 DEF RunTypeOK, BenchTypeOK
    <2>3. Ending(status)
      BY <1>1, <1>16, <2>1 DEF Ending
    <2> QED BY <2>2, <2>3 DEF Kinds
  <1>17. \A status \in Endings : /\ runner.lost \in BOOLEAN
            /\ Ended(runner, status) = [Ended(runner, status) EXCEPT !.lost = runner.lost]
    BY DEF Ended, RunTypeOK, RunnerTypeOK
  <1>18. CASE Armed
    <2>1. runner.pc \in Doing /\ "error" \in Endings
      BY <1>18 DEF Armed, Doing, Endings, Statuses
    <2>2. CASE /\ runner' = Ended(runner, "error") /\ seen' = Noted("error")
               /\ bench' = [bench EXCEPT !.capture = "idle"]
      <3>1. EndsAs("error", runner.lost)
        BY <1>17, <2>1, <2>2
      <3> HIDE DEF EndsAs
      <3> QED BY <1>16, <1>17, <2>1, <3>1
    <2>3. CASE /\ runner' = [runner EXCEPT !.capture = TRUE,
                                           !.pc = IF Step.power THEN "cycle" ELSE "capture"]
               /\ bench' = [bench EXCEPT !.capture = "armed"] /\ UNCHANGED seen
      <3>1. PICK pc \in {"cycle", "capture"} :
              runner' = [runner EXCEPT !.capture = TRUE, !.pc = pc]
        BY <2>3
      <3>2. pc \in RunnerPcs /\ pc \in Doing /\ TRUE \in BOOLEAN
        BY DEF RunnerPcs, MidStep, Doing
      <3>3. RunnerTypeOK' /\ runner'.pc = pc
            /\ runner'.plan = runner.plan /\ runner'.at = runner.at
            /\ runner'.results = runner.results /\ runner'.outcomes = runner.outcomes
        BY <3>1, <3>2 DEF RunTypeOK, RunnerTypeOK
      <3>4. SeenTypeOK' /\ seen' = seen /\ bench'.summary = bench.summary
        BY <2>3 DEF RunTypeOK, SeenTypeOK, BenchTypeOK
      <3> QED BY <1>1, <2>1, <3>2, <3>3, <3>4 DEF Moving, Kinds
    <2> QED BY <1>18, <2>2, <2>3 DEF Armed
  <1>19. CASE CycleOff \/ CycleOn
    <2>1. runner.pc \in Doing /\ "cycle_off" \in Doing /\ "cycle_on" \in Doing
      BY <1>19 DEF CycleOff, CycleOn, Doing
    <2> QED BY <1>1, <1>19, <2>1, SendMoves DEF CycleOff, CycleOn, Kinds
  <1>20. CASE CycleAnswered
    <2>1. runner.pc \in Doing /\ "error" \in Endings
          /\ "cycle_sleep" \in Doing /\ "capture" \in Doing
      BY <1>20 DEF CycleAnswered, Doing, Endings, Statuses
    <2>2. CASE EndStep("error")
      BY <1>4, <2>1, <2>2
    <2>3. CASE /\ runner' = [runner EXCEPT !.pc = IF @ = "cycle_off" THEN "cycle_sleep"
                                                  ELSE "capture"]
               /\ UNCHANGED <<bench, seen>>
      <3>1. PICK pc \in {"cycle_sleep", "capture"} : runner' = [runner EXCEPT !.pc = pc]
        BY <2>3
      <3> QED BY <1>1, <2>1, <2>3, <3>1, PcMoves DEF Kinds
    <2> QED BY <1>20, <2>2, <2>3 DEF CycleAnswered
  <1>21. CASE CycleAborted \/ CaptureAborted
    <2>1. runner.pc \in Doing /\ "aborted" \in Endings /\ EndStep("aborted")
      BY <1>21 DEF CycleAborted, CaptureAborted, Doing, Endings, Statuses
    <2> QED BY <1>4, <2>1
  <1>22. CASE CaptureEnds
    <2>1. runner.pc \in Doing /\ {"error", "pass", "fail"} \subseteq Endings
          /\ TRUE \in BOOLEAN
      BY <1>22 DEF CaptureEnds, Doing, Endings, Statuses
    <2>2. CASE EndStep("error")
      BY <1>4, <2>1, <2>2
    <2>3. CASE EndsAs("error", TRUE)
      <3> HIDE DEF EndsAs
      <3> QED BY <1>16, <2>1, <2>3
    <2>4. CASE \E status \in {"pass", "fail"} :
                 /\ runner' = Ended(runner, status) /\ seen' = Noted(status)
                 /\ bench' = [bench EXCEPT !.capture = "idle"]
      <3>1. PICK status \in {"pass", "fail"} : EndsAs(status, runner.lost)
        BY <1>17, <2>1, <2>4
      <3> HIDE DEF EndsAs
      <3> QED BY <1>16, <1>17, <2>1, <3>1
    <2> QED BY <1>22, <2>2, <2>3, <2>4 DEF CaptureEnds
  <1>23. CASE Finally
    <2>1. "cleanup" \in RunnerPcs /\ runner' = [runner EXCEPT !.pc = "cleanup"]
          /\ UNCHANGED <<bench, seen>>
      BY <1>23 DEF RunnerPcs, Finally
    <2>2. RunnerTypeOK' /\ runner'.pc = "cleanup"
            /\ runner'.plan = runner.plan /\ runner'.at = runner.at
            /\ runner'.results = runner.results /\ runner'.outcomes = runner.outcomes
      BY <2>1 DEF RunTypeOK, RunnerTypeOK
    <2>3. SeenTypeOK'
      BY <2>1 DEF RunTypeOK, SeenTypeOK
    <2> QED BY <1>23, <2>1, <2>2, <2>3 DEF Moving, Kinds, Finally
  <1>24. CASE CleanUp
    <2>1. PICK passed \in BOOLEAN, took \in BOOLEAN :
            /\ runner' = [runner EXCEPT !.touched = @ \ {CleanupTarget},
                                        !.cleanup = @ /\ passed]
            /\ bench' = IF ~took THEN bench
                        ELSE IF CleanupTarget = "pin" THEN [bench EXCEPT !.pin = "in"]
                        ELSE [bench EXCEPT !.rail = "off"]
      BY <1>24 DEF CleanUp
    <2>2. runner.touched \ {CleanupTarget} \in SUBSET Targets
          /\ (runner.cleanup /\ passed) \in BOOLEAN
      BY DEF RunTypeOK, RunnerTypeOK
    <2>3. RunnerTypeOK' /\ runner'.pc = runner.pc
            /\ runner'.plan = runner.plan /\ runner'.at = runner.at
            /\ runner'.results = runner.results /\ runner'.outcomes = runner.outcomes
      BY <2>1, <2>2 DEF RunTypeOK, RunnerTypeOK
    <2>4. SeenTypeOK' /\ seen' = seen
      BY <1>24 DEF CleanUp, RunTypeOK, SeenTypeOK
    <2>5. bench'.summary = bench.summary
      BY <2>1 DEF RunTypeOK, BenchTypeOK
    <2>6. runner.pc # "idle"
      BY <1>24 DEF CleanUp
    <2> QED BY <2>3, <2>4, <2>5, <2>6 DEF Moving, Kinds
  <1>25. CASE Abort
    <2>1. runner' = [runner EXCEPT !.aborted = TRUE, !.capture = FALSE]
          /\ bench' = Uncaptured(bench, runner) /\ UNCHANGED seen /\ runner.pc # "idle"
          /\ TRUE \in BOOLEAN /\ FALSE \in BOOLEAN
      BY <1>25 DEF Abort
    <2>2. RunnerTypeOK' /\ runner'.pc = runner.pc
            /\ runner'.plan = runner.plan /\ runner'.at = runner.at
            /\ runner'.results = runner.results /\ runner'.outcomes = runner.outcomes
      BY <2>1 DEF RunTypeOK, RunnerTypeOK
    <2>3. SeenTypeOK' /\ seen' = seen /\ bench'.summary = bench.summary
      BY <2>1 DEF RunTypeOK, SeenTypeOK, BenchTypeOK, Uncaptured
    <2> QED BY <2>1, <2>2, <2>3 DEF Moving, Kinds
  <1>26. CASE CaptureDropped \/ OtherTask
    <2>1. UNCHANGED <<runner, seen>> /\ bench'.summary = bench.summary
      BY <1>26 DEF CaptureDropped, OtherTask, RunTypeOK, BenchTypeOK
    <2> QED BY <2>1 DEF Moving, Kinds, RunTypeOK, RunnerTypeOK, SeenTypeOK
  <1>27. CASE NextStep \/ SkipStep \/ StartRun \/ Complete
    BY <1>27 DEF Kinds
  <1> QED BY <1>3, <1>5, <1>6, <1>7, <1>8, <1>9, <1>10, <1>11, <1>12, <1>13, <1>14, <1>15,
             <1>18, <1>19, <1>20, <1>21, <1>22, <1>23, <1>24, <1>25, <1>26, <1>27
          DEF TestRunNext, RunnerStep

-----------------------------------------------------------------------------
(* What the run has recorded, for each kind of step.                        *)

Records == RunnerTypeOK /\ SeenTypeOK /\ InPlace /\ Recorded /\ Decided /\ Branching

\* The outcomes stay as they are when nothing is recorded.
LEMMA DecidedCarries ==
  ASSUME Decided,
         runner'.pc # "idle" => runner.pc # "idle",
         runner'.pc \notin {"idle", "finally", "cleanup"} =>
           runner.pc \notin {"idle", "finally", "cleanup"},
         runner'.plan = runner.plan, runner'.results = runner.results,
         runner'.outcomes = runner.outcomes, seen'.held = seen.held
  PROVE  Decided'
  <1>1. ASSUME runner.pc # "idle"
        PROVE  /\ \A c \in Nat : c \in seen'.held <=> <<c, TRUE>> \in runner'.outcomes
               /\ \A c \in Nat : ~ (/\ <<c, TRUE>> \in runner'.outcomes
                                    /\ <<c, FALSE>> \in runner'.outcomes)
    BY <1>1 DEF Decided
  <1>2. ASSUME runner.pc # "idle", NEW c \in Nat, NEW b \in BOOLEAN,
               <<c, b>> \in runner'.outcomes
        PROVE  \E j \in 1..Len(runner'.results) :
                 runner'.plan[j].role = "check" /\ runner'.plan[j].cond = c
    <2>1. PICK j \in 1..Len(runner.results) :
            runner.plan[j].role = "check" /\ runner.plan[j].cond = c
      BY <1>2 DEF Decided
    <2> QED BY <2>1
  <1>3. runner.pc \notin {"idle", "finally", "cleanup"} =>
          \A j \in 1..Len(runner'.results) : runner'.plan[j].role = "check" =>
            \/ <<runner'.plan[j].cond, TRUE>> \in runner'.outcomes
            \/ <<runner'.plan[j].cond, FALSE>> \in runner'.outcomes
    BY DEF Decided
  <1> QED BY <1>1, <1>2, <1>3 DEF Decided

LEMMA MovingKeepsRecords ==
  ASSUME TestRunAssumption, RunIInv, Moving
  PROVE  Records'
  <1> USE DEF RunIInv
  <1>1. RunnerTypeOK' /\ SeenTypeOK'
    BY DEF Moving
  <1>2. InPlace'
    BY DEF Moving, InPlace, RunnerPcs, MidStep, Doing
  <1>3. Recorded'
    BY DEF Moving, Recorded, MidStep, Doing
  <1>4. Decided'
    <2>1. /\ runner'.pc # "idle" => runner.pc # "idle"
          /\ runner'.pc \notin {"idle", "finally", "cleanup"} =>
               runner.pc \notin {"idle", "finally", "cleanup"}
      BY DEF Moving, MidStep, Doing
    <2>2. runner'.plan = runner.plan /\ runner'.results = runner.results
          /\ runner'.outcomes = runner.outcomes /\ seen'.held = seen.held
      BY DEF Moving
    <2> QED BY <2>1, <2>2, DecidedCarries
  <1>5. Branching'
    <2>1. runner'.pc # "idle" => runner.pc # "idle"
      BY DEF Moving, MidStep, Doing
    <2>2. \A i \in 1..Len(runner.results) : BranchOf(i)' = BranchOf(i)
      BY DEF Moving, BranchOf
    <2>3. Step' = Step /\ Selected' = Selected
      BY DEF Moving, Step, Selected
    <2>4. runner'.pc \in Doing => runner.pc \in Doing \/ (runner.pc \in MidStep /\ Branched)
      BY DEF Moving, Doing
    <2>5. runner'.pc \in Doing /\ Step.role \in {"then", "else"} => Selected
      <3>1. CASE runner.pc \in Doing
        BY <3>1 DEF Branching, Doing
      <3>2. CASE runner.pc \notin Doing
        BY <2>4, <3>2 DEF Branched, MidStep
      <3> QED BY <3>1, <3>2
    <2> QED BY <2>1, <2>2, <2>3, <2>5 DEF Branching, Moving
  <1> QED BY <1>1, <1>2, <1>3, <1>4, <1>5 DEF Records

LEMMA EndingKeepsRecords ==
  ASSUME TestRunAssumption, RunIInv, NEW status \in Endings, Ending(status)
  PROVE  Records'
  <1> USE DEF RunIInv
  <1> DEFINE result == [at |-> runner.at, skip |-> FALSE, status |-> Verdict(status)]
  <1>0. PICK n \in Nat : n = runner.at
    BY PlanTyped DEF RunTypeOK
  <1>1. /\ RunnerTypeOK' /\ SeenTypeOK'
        /\ runner'.pc = IF Stops(status) THEN "finally" ELSE "next"
        /\ runner'.plan = runner.plan /\ runner'.at = n
        /\ runner'.results = Append(runner.results, result)
        /\ Verdict(status) \in Endings
        /\ runner'.outcomes = runner.outcomes \cup Outcome(status)
        /\ seen'.ran = Noted(status).ran /\ seen'.wrong = Noted(status).wrong
        /\ seen'.held = Noted(status).held
    BY <1>0, EndingTyped DEF Endings
  <1>2. n \in 1..Len(runner.plan) /\ Step \in PlanSteps /\ Step = runner.plan[n]
    BY <1>0, StepTyped DEF Ending, RunTypeOK, Step
  <1>3. n \in Nat /\ n > 0 /\ Len(runner.results) = n - 1
        /\ runner.results \in Seq(StepResults) /\ Len(runner.plan) \in Nat
    BY <1>0, <1>2, PlanTyped DEF Ending, InPlace, RunTypeOK
  <1>4. result \in StepResults
    BY <1>0, <1>1, <1>3 DEF StepResults, Endings
  <1> HIDE DEF result
  <1>5. /\ Len(runner'.results) = n /\ runner'.results[n] = result
        /\ \A i \in 1..(n - 1) : runner'.results[i] = runner.results[i]
    BY <1>1, <1>3, <1>4, AppendProperties
  <1>6. runner.pc \notin {"idle", "finally", "cleanup"}
    BY DEF Ending, MidStep, Doing
  <1>7. InPlace'
    BY <1>1, <1>2, <1>3, <1>5 DEF InPlace, MidStep, Doing
  <1>8. seen'.ran = seen.ran \cup {n}
    BY <1>0, <1>1 DEF Noted, RunTypeOK, SeenTypeOK
  <1>9. seen'.wrong \subseteq seen.wrong \cup {n}
        /\ (n \in seen'.wrong => \/ n \in seen.wrong \/ status = "error"
                                 \/ (status = "fail" /\ Step.role # "check"))
    BY <1>0, <1>1 DEF Noted, RunTypeOK, SeenTypeOK
  <1>10. seen.wrong \subseteq seen.ran /\ seen.ran \subseteq 1..(n - 1)
    BY <1>3, <1>6 DEF Recorded
  <1>11. Recorded'
    <2>1. seen'.wrong \subseteq seen'.ran /\ seen'.ran \subseteq 1..n
      BY <1>3, <1>8, <1>9, <1>10
    <2>2. ASSUME NEW i \in 1..n
          PROVE  /\ runner'.results[i].at = i
                 /\ i \in seen'.ran <=> ~runner'.results[i].skip
                 /\ i \in seen'.wrong => runner'.results[i].status \in {"fail", "error"}
      <3>1. CASE i \in 1..(n - 1)
        <4>1. i # n
          BY <1>3, <3>1
        <4> QED BY <1>3, <1>5, <1>6, <1>8, <1>9, <3>1, <4>1 DEF Recorded
      <3>2. CASE i = n
        <4>1. n \notin seen.wrong
          BY <1>3, <1>10
        <4>2. result.at = n /\ result.skip = FALSE /\ result.status = Verdict(status)
          BY <1>0 DEF result
        <4> QED BY <1>5, <1>8, <1>9, <3>2, <4>1, <4>2 DEF Verdict
      <3> QED BY <1>3, <3>1, <3>2
    <2> QED BY <1>5, <2>1, <2>2 DEF Recorded
  <1>12. Step.cond \in Nat /\ Step.role \in {"none", "check", "then", "else"}
    BY <1>2 DEF PlanSteps
  <1>13. Expanded(runner.plan) /\ DOMAIN runner.plan = 1..Len(runner.plan)
    BY PlanTyped, LenProperties DEF RunTypeOK
  <1>14. Step.role = "check" => \A j \in 1..(n - 1) :
           ~ (runner.plan[j].role = "check" /\ runner.plan[j].cond = Step.cond)
    <2> SUFFICES ASSUME Step.role = "check", NEW j \in 1..(n - 1),
                        runner.plan[j].role = "check", runner.plan[j].cond = Step.cond
                 PROVE  FALSE
      OBVIOUS
    <2>1. j \in 1..Len(runner.plan) /\ j # n
      BY <1>2, <1>3
    <2> QED BY <1>2, <1>13, <2>1 DEF Expanded
  <1>15. \A c \in Nat, b \in BOOLEAN : <<c, b>> \in runner.outcomes =>
           \E j \in 1..(n - 1) : runner.plan[j].role = "check" /\ runner.plan[j].cond = c
    BY <1>3, <1>6 DEF Decided
  <1>16. \A c \in Nat, b \in BOOLEAN : <<c, b>> \in runner'.outcomes <=>
           \/ <<c, b>> \in runner.outcomes
           \/ /\ Step.role = "check" /\ c = Step.cond
              /\ (status = "pass" /\ b = TRUE) \/ (status = "fail" /\ b = FALSE)
    BY <1>1 DEF Outcome
  <1>17. \A c \in Nat : c \in seen'.held <=>
           c \in seen.held \/ (status = "pass" /\ Step.role = "check" /\ c = Step.cond)
    BY <1>1 DEF Noted, RunTypeOK, SeenTypeOK
  <1>18. Step.role = "check" => \A b \in BOOLEAN : <<Step.cond, b>> \notin runner.outcomes
    BY <1>12, <1>14, <1>15
  <1>19. TRUE \in BOOLEAN /\ FALSE \in BOOLEAN
    OBVIOUS
  <1>20. Decided'
    <2>1. \A c \in Nat : c \in seen'.held <=> <<c, TRUE>> \in runner'.outcomes
      BY <1>6, <1>16, <1>17, <1>19 DEF Decided
    <2>2. \A c \in Nat : ~ (<<c, TRUE>> \in runner'.outcomes /\ <<c, FALSE>> \in runner'.outcomes)
      BY <1>6, <1>16, <1>18, <1>19 DEF Decided
    <2>3. ASSUME NEW c \in Nat, NEW b \in BOOLEAN, <<c, b>> \in runner'.outcomes
          PROVE  \E j \in 1..n : runner.plan[j].role = "check" /\ runner.plan[j].cond = c
      <3>1. CASE <<c, b>> \in runner.outcomes
        <4>1. PICK j \in 1..(n - 1) : runner.plan[j].role = "check" /\ runner.plan[j].cond = c
          BY <1>15, <3>1
        <4>2. j \in 1..n
          BY <1>3
        <4> QED BY <4>1, <4>2
      <3>2. CASE Step.role = "check" /\ c = Step.cond
        <4>1. n \in 1..n
          BY <1>3
        <4> QED BY <1>2, <3>2, <4>1
      <3> QED BY <1>16, <2>3, <3>1, <3>2
    <2>4. ASSUME runner'.pc \notin {"finally", "cleanup"},
                 NEW j \in 1..n, runner.plan[j].role = "check"
          PROVE  \/ <<runner.plan[j].cond, TRUE>> \in runner'.outcomes
                 \/ <<runner.plan[j].cond, FALSE>> \in runner'.outcomes
      <3>1. CASE j \in 1..(n - 1)
        BY <1>1, <1>3, <1>6, <2>4, <3>1 DEF Decided
      <3>2. CASE j = n
        <4>1. ~Stops(status) /\ Step.role = "check"
          BY <1>1, <1>2, <2>4, <3>2
        <4>2. status \in {"pass", "fail"}
          BY <4>1 DEF Stops, Endings, Statuses
        <4>3. status = "pass" => <<Step.cond, TRUE>> \in runner'.outcomes
          BY <1>12, <1>16, <1>19, <4>1
        <4>4. status = "fail" => <<Step.cond, FALSE>> \in runner'.outcomes
          BY <1>12, <1>16, <1>19, <4>1
        <4>5. runner.plan[j] = Step
          BY <1>2, <3>2
        <4> QED BY <4>2, <4>3, <4>4, <4>5
      <3> QED BY <1>3, <3>1, <3>2
    <2>5. runner'.plan = runner.plan /\ Len(runner'.results) = n
      BY <1>1, <1>5
    <2>6. \A c \in Nat, b \in BOOLEAN : <<c, b>> \in runner'.outcomes =>
            \E j \in 1..Len(runner'.results) :
              runner'.plan[j].role = "check" /\ runner'.plan[j].cond = c
      BY <2>3, <2>5
    <2>7. runner'.pc \notin {"finally", "cleanup"} =>
            \A j \in 1..Len(runner'.results) : runner'.plan[j].role = "check" =>
              \/ <<runner'.plan[j].cond, TRUE>> \in runner'.outcomes
              \/ <<runner'.plan[j].cond, FALSE>> \in runner'.outcomes
      BY <2>4, <2>5
    <2> QED BY <2>1, <2>2, <2>6, <2>7 DEF Decided
  <1>21. \A i \in 1..n : (i \in seen'.ran) <=> BranchOf(i)'
    <2> SUFFICES ASSUME NEW i \in 1..n PROVE (i \in seen'.ran) <=> BranchOf(i)'
      OBVIOUS
    <2>1. CASE i = n
      <3>1. n \in seen'.ran
        BY <1>8
      <3>2. Step.role \in {"then", "else"} =>
              (Step.cond \in seen'.held <=> Step.cond \in seen.held)
        BY <1>12, <1>17
      <3>3. Step.role \in {"then", "else"} => Selected
        <4>1. CASE runner.pc = "begin"
          BY <4>1 DEF Ending, Branched
        <4>2. CASE runner.pc # "begin"
          BY <1>6, <4>2 DEF Ending, MidStep, Branching
        <4> QED BY <4>1, <4>2
      <3>4. Step.role = "then" => Step.cond \in seen.held
        BY <1>6, <1>12, <3>3 DEF Selected, Decided
      <3>5. Step.role = "else" => Step.cond \notin seen.held
        BY <1>6, <1>12, <3>3 DEF Selected, Decided
      <3>6. BranchOf(n)'
        BY <1>1, <1>2, <3>2, <3>4, <3>5 DEF BranchOf
      <3> QED BY <2>1, <3>1, <3>6
    <2>2. CASE i \in 1..(n - 1)
      <3>1. i # n /\ (i \in seen'.ran <=> i \in seen.ran) /\ i \in 1..Len(runner.plan)
        BY <1>2, <1>3, <1>8, <2>2
      <3>2. runner.plan[i].cond \in Nat
        <4>1. runner.plan \in Seq(PlanSteps)
          BY PlanTyped DEF RunTypeOK
        <4>2. runner.plan[i] \in PlanSteps
          BY <3>1, <4>1, ElementOfSeq
        <4> QED BY <4>2 DEF PlanSteps
      <3>3. runner.plan[i].role \in {"then", "else"} =>
              (runner.plan[i].cond \in seen'.held <=> runner.plan[i].cond \in seen.held)
        <4> SUFFICES ASSUME runner.plan[i].role \in {"then", "else"}, Step.role = "check",
                            Step.cond = runner.plan[i].cond
                     PROVE  FALSE
          <5>1. PICK c \in Nat : c = runner.plan[i].cond
            BY <3>2
          <5>2. c \in seen'.held <=>
                  c \in seen.held \/ (status = "pass" /\ Step.role = "check" /\ c = Step.cond)
            BY <1>17
          <5> QED BY <5>1, <5>2
        <4>1. PICK j \in 1..(i - 1) : runner.plan[j].role = "check"
                                      /\ runner.plan[j].cond = runner.plan[i].cond
          BY <1>13, <3>1 DEF Expanded
        <4>2. j \in 1..(n - 1)
          BY <1>3, <2>2
        <4> QED BY <1>14, <4>1, <4>2
      <3>4. BranchOf(i)' <=> BranchOf(i)
        BY <1>1, <3>3 DEF BranchOf
      <3>5. i \in seen.ran <=> BranchOf(i)
        BY <1>3, <1>6, <2>2 DEF Branching
      <3> QED BY <3>1, <3>4, <3>5
    <2> QED BY <1>3, <2>1, <2>2
  <1>22. Branching'
    BY <1>1, <1>5, <1>21 DEF Branching, Doing
  <1> QED BY <1>1, <1>7, <1>11, <1>20, <1>22 DEF Records

LEMMA NextStepKeepsRecords ==
  ASSUME TestRunAssumption, RunIInv, NextStep
  PROVE  Records'
  <1> USE DEF RunIInv
  <1>1. runner.at \in Nat /\ Len(runner.plan) \in Nat /\ Len(runner.results) = runner.at
        /\ runner.at <= Len(runner.plan) /\ runner.at + 1 \in Nat /\ runner.pc = "next"
    BY PlanTyped DEF NextStep, InPlace, RunTypeOK
  <1>2. PICK pc \in {"finally", "begin"} :
          /\ \/ pc = "finally" /\ runner' = [runner EXCEPT !.pc = "finally"]
             \/ /\ pc = "begin" /\ runner.at < Len(runner.plan)
                /\ runner' = [runner EXCEPT !.pc = "begin", !.at = runner.at + 1]
    BY <1>1 DEF NextStep, RunTypeOK, RunnerTypeOK
  <1>3. pc \in RunnerPcs /\ "finally" \in RunnerPcs /\ "begin" \in RunnerPcs
    BY DEF RunnerPcs, MidStep
  <1>4. RunnerTypeOK'
    <2>1. runner.at \in Nat /\ runner.at + 1 \in Nat
      BY DEF RunTypeOK, RunnerTypeOK
    <2> QED BY <1>2, <1>3, <2>1 DEF RunTypeOK, RunnerTypeOK
  <1>5. SeenTypeOK' /\ seen' = seen
    BY DEF NextStep, RunTypeOK, SeenTypeOK
  <1>6. runner'.plan = runner.plan /\ runner'.results = runner.results
        /\ runner'.outcomes = runner.outcomes /\ runner'.pc = pc
    BY <1>2 DEF RunTypeOK, RunnerTypeOK
  <1>7. runner'.at = IF pc = "begin" THEN runner.at + 1 ELSE runner.at
    BY <1>2 DEF RunTypeOK, RunnerTypeOK
  <1>8. InPlace'
    BY <1>1, <1>2, <1>6, <1>7 DEF InPlace, MidStep, Doing
  <1>9. Recorded'
    BY <1>1, <1>5, <1>6 DEF Recorded
  <1>10. Decided'
    <2>1. runner.pc \notin {"idle", "finally", "cleanup"}
      BY <1>1
    <2>2. runner'.plan = runner.plan /\ runner'.results = runner.results
          /\ runner'.outcomes = runner.outcomes /\ seen'.held = seen.held
      BY <1>5, <1>6
    <2> QED BY <2>1, <2>2, DecidedCarries
  <1>11. \A i \in 1..Len(runner.results) : BranchOf(i)' = BranchOf(i)
    BY <1>5, <1>6 DEF BranchOf
  <1>12. Branching'
    BY <1>1, <1>5, <1>6, <1>11 DEF Branching, Doing
  <1> QED BY <1>4, <1>5, <1>8, <1>9, <1>10, <1>12 DEF Records

LEMMA SkipStepKeepsRecords ==
  ASSUME TestRunAssumption, RunIInv, SkipStep
  PROVE  Records'
  <1> USE DEF RunIInv
  <1> DEFINE result == [at |-> runner.at, skip |-> TRUE, status |-> "skip"]
  <1>0. PICK n \in Nat : n = runner.at
    BY PlanTyped DEF RunTypeOK
  <1>1. runner.pc = "begin" /\ Step.role \in {"then", "else"} /\ ~Selected
        /\ runner' = [runner EXCEPT !.pc = "next", !.results = Append(runner.results, result)]
        /\ seen' = seen
    BY DEF SkipStep, RunTypeOK, RunnerTypeOK
  <1>2. n \in 1..Len(runner.plan) /\ Step \in PlanSteps /\ Step = runner.plan[n]
    BY <1>0, <1>1, StepTyped DEF MidStep, RunTypeOK, Step
  <1>3. n > 0 /\ Len(runner.results) = n - 1
        /\ runner.results \in Seq(StepResults) /\ Len(runner.plan) \in Nat
    BY <1>0, <1>1, <1>2, PlanTyped DEF MidStep, InPlace, RunTypeOK
  <1>4. result \in StepResults /\ result.at = n /\ result.skip = TRUE /\ result.status = "skip"
    BY <1>0, <1>3 DEF StepResults, Statuses
  <1> HIDE DEF result
  <1>5. /\ Append(runner.results, result) \in Seq(StepResults)
        /\ Len(Append(runner.results, result)) = n
        /\ Append(runner.results, result)[n] = result
        /\ \A i \in 1..(n - 1) : Append(runner.results, result)[i] = runner.results[i]
    BY <1>3, <1>4, AppendProperties
  <1>6. "next" \in RunnerPcs
    BY DEF RunnerPcs
  <1>7. RunnerTypeOK'
    BY <1>1, <1>5, <1>6 DEF RunTypeOK, RunnerTypeOK
  <1>8. SeenTypeOK'
    BY <1>1 DEF RunTypeOK, SeenTypeOK
  <1>9. /\ runner'.plan = runner.plan /\ runner'.at = n /\ runner'.pc = "next"
        /\ runner'.results = Append(runner.results, result)
        /\ runner'.outcomes = runner.outcomes
    BY <1>0, <1>1 DEF RunTypeOK, RunnerTypeOK
  <1>10. InPlace'
    BY <1>2, <1>3, <1>5, <1>9 DEF InPlace, MidStep, Doing
  <1>11. seen.ran \subseteq 1..(n - 1) /\ seen.wrong \subseteq seen.ran /\ n \notin seen.ran
    BY <1>1, <1>3 DEF Recorded
  <1>12. Recorded'
    <2>1. ASSUME NEW i \in 1..n
          PROVE  /\ runner'.results[i].at = i
                 /\ i \in seen'.ran <=> ~runner'.results[i].skip
                 /\ i \in seen'.wrong => runner'.results[i].status \in {"fail", "error"}
      <3>1. CASE i \in 1..(n - 1)
        BY <1>1, <1>3, <1>5, <1>9, <3>1 DEF Recorded
      <3>2. CASE i = n
        BY <1>1, <1>4, <1>5, <1>9, <1>11, <3>2
      <3> QED BY <1>3, <3>1, <3>2
    <2>2. seen'.wrong \subseteq seen'.ran /\ seen'.ran \subseteq 1..n
      BY <1>1, <1>3, <1>11
    <2>3. Len(runner'.results) = n
      BY <1>5, <1>9
    <2> QED BY <2>1, <2>2, <2>3 DEF Recorded
  <1>13. Decided'
    <2>1. \A c \in Nat : c \in seen'.held <=> <<c, TRUE>> \in runner'.outcomes
      BY <1>1, <1>9 DEF Decided
    <2>2. \A c \in Nat : ~ (<<c, TRUE>> \in runner'.outcomes /\ <<c, FALSE>> \in runner'.outcomes)
      BY <1>1, <1>9 DEF Decided
    <2>3. Len(runner'.results) = n
      BY <1>5, <1>9
    <2>4. ASSUME NEW c \in Nat, NEW b \in BOOLEAN, <<c, b>> \in runner'.outcomes
          PROVE  \E j \in 1..Len(runner'.results) :
                   runner'.plan[j].role = "check" /\ runner'.plan[j].cond = c
      <3>1. <<c, b>> \in runner.outcomes /\ runner.pc # "idle"
        BY <1>1, <1>9, <2>4
      <3>2. PICK j \in 1..(n - 1) : runner.plan[j].role = "check" /\ runner.plan[j].cond = c
        BY <1>3, <3>1 DEF Decided
      <3>3. j \in 1..n
        BY <1>3
      <3> QED BY <1>9, <2>3, <3>2, <3>3
    <2>5. ASSUME NEW j \in 1..n, runner.plan[j].role = "check"
          PROVE  \/ <<runner.plan[j].cond, TRUE>> \in runner'.outcomes
                 \/ <<runner.plan[j].cond, FALSE>> \in runner'.outcomes
      <3>1. j # n
        BY <1>1, <1>2, <2>5
      <3>2. j \in 1..(n - 1)
        BY <1>3, <3>1
      <3> QED BY <1>1, <1>3, <1>9, <2>5, <3>2 DEF Decided
    <2>6. \A j \in 1..Len(runner'.results) : runner'.plan[j].role = "check" =>
            \/ <<runner'.plan[j].cond, TRUE>> \in runner'.outcomes
            \/ <<runner'.plan[j].cond, FALSE>> \in runner'.outcomes
      BY <1>9, <2>3, <2>5
    <2> QED BY <2>1, <2>2, <2>4, <2>6 DEF Decided
  <1>14. \A i \in 1..n : (i \in seen.ran) <=> BranchOf(i)
    <2> SUFFICES ASSUME NEW i \in 1..n PROVE (i \in seen.ran) <=> BranchOf(i)
      OBVIOUS
    <2>1. CASE i \in 1..(n - 1)
      BY <1>1, <1>3, <2>1 DEF Branching
    <2>2. CASE i = n
      <3>1. Step.cond \in Nat
        BY <1>2 DEF PlanSteps
      <3>2. Step.role = "then" => Step.cond \notin seen.held
        BY <1>1, <3>1 DEF Selected, Decided
      <3>3. ASSUME Step.role = "else" PROVE Step.cond \in seen.held
        <4>1. Expanded(runner.plan) /\ DOMAIN runner.plan = 1..Len(runner.plan)
          BY PlanTyped, LenProperties DEF RunTypeOK
        <4>2. PICK j \in 1..(n - 1) : runner.plan[j].role = "check"
                                      /\ runner.plan[j].cond = Step.cond
          BY <1>2, <3>3, <4>1 DEF Expanded
        <4>3. \/ <<Step.cond, TRUE>> \in runner.outcomes
              \/ <<Step.cond, FALSE>> \in runner.outcomes
          BY <1>1, <1>3, <4>2 DEF Decided
        <4>4. <<Step.cond, FALSE>> \notin runner.outcomes
          BY <1>1, <3>3 DEF Selected
        <4> QED BY <1>1, <3>1, <4>3, <4>4 DEF Decided
      <3>4. ~BranchOf(n)
        BY <1>1, <1>2, <3>2, <3>3 DEF BranchOf
      <3> QED BY <1>11, <2>2, <3>4
    <2> QED BY <1>3, <2>1, <2>2
  <1>15. Branching'
    <2>1. \A i \in 1..n : BranchOf(i)' = BranchOf(i)
      BY <1>1, <1>9 DEF BranchOf
    <2>2. Len(runner'.results) = n
      BY <1>5, <1>9
    <2> QED BY <1>1, <1>9, <1>14, <2>1, <2>2 DEF Branching, Doing
  <1> QED BY <1>7, <1>8, <1>10, <1>12, <1>13, <1>15 DEF Records

LEMMA StartRunKeepsRecords ==
  ASSUME TestRunAssumption, RunIInv, StartRun
  PROVE  Records'
  <1> USE DEF RunIInv
  <1>1. PICK plan \in Plans, ready \in BOOLEAN :
          /\ runner' = [IdleRunner EXCEPT !.plan = plan, !.infra = ~ready,
                                          !.pc = IF ready THEN "next" ELSE "finally"]
          /\ seen' = [NothingSeen EXCEPT !.consumed = uart.rx]
    BY DEF StartRun
  <1>2. <<>> \in Seq(StepResults) /\ Len(<<>>) = 0
    BY EmptySeq
  <1>3. RunnerTypeOK'
    BY <1>1, <1>2 DEF RunnerTypeOK, IdleRunner, RunnerPcs
  <1>4. SeenTypeOK'
    BY <1>1 DEF RunTypeOK, UartTypeOK, SeenTypeOK, NothingSeen
  <1>5. /\ runner'.plan = plan /\ runner'.at = 0 /\ runner'.results = <<>>
        /\ runner'.outcomes = {} /\ runner'.pc \in {"next", "finally"}
        /\ seen'.ran = {} /\ seen'.wrong = {} /\ seen'.held = {}
    BY <1>1 DEF IdleRunner, NothingSeen
  <1>6. Len(plan) \in Nat /\ Len(runner'.results) = 0
    BY <1>2, <1>5, LenProperties DEF TestRunAssumption
  <1>7. InPlace'
    BY <1>5, <1>6 DEF InPlace, MidStep, Doing
  <1>8. Recorded' /\ Decided' /\ Branching'
    BY <1>5, <1>6 DEF Recorded, Decided, Branching, Doing
  <1> QED BY <1>3, <1>4, <1>7, <1>8 DEF Records

LEMMA IdleRunnerTyped ==
  IdleRunner \in [pc : RunnerPcs, plan : Plans \cup {<<>>}, at : Nat,
              results : Seq(StepResults), outcomes : SUBSET (Nat \X BOOLEAN),
              aborted : BOOLEAN, capture : BOOLEAN, lost : BOOLEAN, infra : BOOLEAN,
              touched : SUBSET Targets, cleanup : BOOLEAN]
  <1>1. <<>> \in Seq(StepResults)
    BY EmptySeq
  <1> QED BY <1>1 DEF IdleRunner, RunnerPcs

LEMMA IdleKeepsRecords ==
  ASSUME runner' = IdleRunner, SeenTypeOK'
  PROVE  Records'
  <1>1. RunnerTypeOK'
    BY IdleRunnerTyped DEF RunnerTypeOK
  <1>2. runner'.pc = "idle" /\ runner'.at = 0 /\ runner'.plan = <<>> /\ Len(<<>>) = 0
    BY EmptySeq DEF IdleRunner
  <1> QED BY <1>1, <1>2 DEF Records, InPlace, Recorded, Decided, Branching, MidStep, Doing

LEMMA RecordsStep ==
  ASSUME TestRunAssumption, RunIInv, Kinds
  PROVE  Records'
  <1>1. CASE Complete
    <2>1. runner' = IdleRunner /\ SeenTypeOK'
      BY <1>1 DEF Complete, RunIInv, RunTypeOK, SeenTypeOK
    <2> QED BY <2>1, IdleKeepsRecords
  <1> QED BY <1>1, MovingKeepsRecords, EndingKeepsRecords, NextStepKeepsRecords,
             SkipStepKeepsRecords, StartRunKeepsRecords DEF Kinds

\* What is recorded gives the verdict.
LEMMA VerdictStep ==
  ASSUME TestRunAssumption, RunIInv, Kinds
  PROVE  VerdictIsHonest'
  <1> USE DEF RunIInv
  <1>1. CASE runner'.pc # "idle"
    BY <1>1 DEF VerdictIsHonest
  <1>2. CASE Moving /\ runner'.pc = "idle"
    <2>1. runner.pc = "idle"
      BY <1>2 DEF Moving, Doing
    <2> QED BY <1>2, <2>1 DEF Moving, VerdictIsHonest, Successful
  <1>3. CASE Complete
    <2> SUFFICES ASSUME Successful(bench.summary)'
                 PROVE  LET plan == bench'.summary.plan
                            results == bench'.summary.results
                        IN /\ seen'.wrong = {} /\ Len(results) = Len(plan)
                           /\ \A i \in DOMAIN plan :
                                /\ results[i].at = i
                                /\ i \in seen'.ran <=> ~results[i].skip
                                /\ i \in seen'.ran <=>
                                     \/ plan[i].role \in {"none", "check"}
                                     \/ plan[i].role = "then" /\ plan[i].cond \in seen'.held
                                     \/ plan[i].role = "else" /\ plan[i].cond \notin seen'.held
      BY DEF VerdictIsHonest
    <2>1. bench'.summary = Summary /\ seen' = seen /\ runner.pc = "cleanup"
      BY <1>3 DEF Complete, RunTypeOK, BenchTypeOK
    <2>2. /\ Summary.plan = runner.plan /\ Summary.results = runner.results
          /\ Summary.completed => Len(runner.results) = Len(runner.plan)
      BY DEF Summary
    <2>3. Summary.completed /\ \A i \in DOMAIN runner.results :
             runner.results[i].status \in {"pass", "skip"}
      BY <2>1, <2>2 DEF Successful
    <2>4. /\ runner.results \in Seq(StepResults) /\ runner.plan \in Seq(PlanSteps)
          /\ DOMAIN runner.results = 1..Len(runner.results)
          /\ DOMAIN runner.plan = 1..Len(runner.plan)
      BY PlanTyped, LenProperties DEF RunTypeOK
    <2>5. seen.wrong = {}
      <3> SUFFICES ASSUME NEW i \in seen.wrong PROVE FALSE
        OBVIOUS
      <3>1. i \in 1..Len(runner.results) /\ runner.results[i].status \in {"fail", "error"}
        BY <2>1 DEF Recorded
      <3> QED BY <2>3, <2>4, <3>1
    <2>6. ASSUME NEW i \in DOMAIN runner.plan
          PROVE  /\ runner.results[i].at = i
                 /\ i \in seen.ran <=> ~runner.results[i].skip
                 /\ i \in seen.ran <=>
                      \/ runner.plan[i].role \in {"none", "check"}
                      \/ runner.plan[i].role = "then" /\ runner.plan[i].cond \in seen.held
                      \/ runner.plan[i].role = "else" /\ runner.plan[i].cond \notin seen.held
      <3>1. i \in 1..Len(runner.results) /\ i \in 1..Len(runner.plan)
        BY <2>2, <2>3, <2>4
      <3>2. runner.results[i].at = i /\ (i \in seen.ran <=> ~runner.results[i].skip)
        BY <2>1, <3>1 DEF Recorded
      <3>3. i \in seen.ran <=> BranchOf(i)
        BY <2>1, <3>1 DEF Branching
      <3>4. runner.plan[i] \in PlanSteps
        BY <2>4, <3>1, ElementOfSeq
      <3>5. runner.plan[i].role \in {"none", "check", "then", "else"}
        BY <3>4 DEF PlanSteps
      <3> QED BY <3>2, <3>3, <3>5 DEF BranchOf
    <2> QED BY <2>1, <2>2, <2>3, <2>5, <2>6
  <1>4. CASE NextStep \/ SkipStep \/ StartRun
    <2>1. runner'.pc # "idle"
      <3>1. CASE NextStep
        BY <3>1 DEF NextStep, RunTypeOK, RunnerTypeOK
      <3>2. CASE SkipStep
        BY <3>2 DEF SkipStep, RunTypeOK, RunnerTypeOK
      <3>3. CASE StartRun
        BY <3>3 DEF StartRun, IdleRunner
      <3> QED BY <1>4, <3>1, <3>2, <3>3
    <2> QED BY <1>1, <2>1
  <1>5. CASE \E status \in Endings : Ending(status)
    <2>1. runner'.pc # "idle"
      BY <1>5, EndingTyped DEF Endings
    <2> QED BY <1>1, <2>1
  <1> QED BY <1>1, <1>2, <1>3, <1>4, <1>5 DEF Kinds

\* Only the branch the check selected has run.
LEMMA BranchesHold ==
  ASSUME TestRunAssumption, RunTypeOK, Recorded, Branching
  PROVE  BranchesFollowCheck
  <1> SUFFICES ASSUME runner.pc # "idle", NEW i \in seen.ran
               PROVE  /\ runner.plan[i].role = "then" => runner.plan[i].cond \in seen.held
                      /\ runner.plan[i].role = "else" => runner.plan[i].cond \notin seen.held
    BY DEF BranchesFollowCheck
  <1>1. i \in 1..Len(runner.results)
    BY DEF Recorded
  <1>2. BranchOf(i)
    BY <1>1 DEF Branching
  <1> QED BY <1>2 DEF BranchOf

-----------------------------------------------------------------------------
(* The board: what is recorded, and what is left to be made safe.           *)

Board == BenchTypeOK /\ InHand /\ LeavesBoardSafe

Released ==
  \/ runner.pc # "arm" /\ bench' = Uncaptured(bench, runner)
  \/ bench' = [bench EXCEPT !.capture = "idle"]

LEMMA EndedFields ==
  ASSUME RunTypeOK, NEW status, NEW lost
  PROVE  LET r == [Ended(runner, status) EXCEPT !.lost = lost]
         IN /\ Ended(runner, status).pc \in {"next", "finally"} /\ r.pc \in {"next", "finally"}
            /\ Ended(runner, status).capture = FALSE /\ r.capture = FALSE
            /\ Ended(runner, status).touched = runner.touched /\ r.touched = runner.touched
            /\ Noted(status).driven = seen.driven
  BY DEF Ended, Noted, RunTypeOK, RunnerTypeOK, SeenTypeOK

LEMMA ReleasedIsSafe ==
  ASSUME RunTypeOK, InHand, runner.pc \in MidStep, Released,
         runner'.pc \in {"next", "finally"}, runner'.capture = FALSE,
         runner'.touched = runner.touched, seen'.driven = seen.driven
  PROVE  Board'
  <1>1. bench'.capture = "idle" /\ BenchTypeOK'
    <2>1. CASE bench' = [bench EXCEPT !.capture = "idle"]
      BY <2>1 DEF RunTypeOK, BenchTypeOK
    <2>2. CASE runner.pc # "arm" /\ bench' = Uncaptured(bench, runner)
      <3>1. CASE runner.capture
        BY <2>2, <3>1 DEF Uncaptured, RunTypeOK, BenchTypeOK
      <3>2. CASE ~runner.capture
        <4>1. bench.capture = "idle"
          BY <2>2, <3>2 DEF InHand, RunTypeOK, BenchTypeOK
        <4>2. bench' = bench
          BY <2>2, <3>2 DEF Uncaptured, RunTypeOK, BenchTypeOK
        <4> QED BY <4>1, <4>2 DEF RunTypeOK, BenchTypeOK
      <3> QED BY <3>1, <3>2
    <2> QED BY <2>1, <2>2 DEF Released
  <1>2. seen.driven \subseteq runner.touched
    BY DEF InHand, MidStep, Doing
  <1>3. InHand'
    BY <1>1, <1>2 DEF InHand
  <1>4. LeavesBoardSafe'
    BY DEF LeavesBoardSafe
  <1> QED BY <1>1, <1>3, <1>4 DEF Board

\* A step that keeps the board, and its recording, as they are.
LEMMA PcKeepsBoard ==
  ASSUME RunTypeOK, InHand, NEW pc \in Doing, runner.pc \in MidStep \ {"arm"},
         runner.pc \in Capturing => pc \in Capturing,
         runner' = [runner EXCEPT !.pc = pc], UNCHANGED bench, seen'.driven = seen.driven
  PROVE  Board'
  <1>1. runner'.pc = pc /\ runner'.capture = runner.capture
        /\ runner'.touched = runner.touched /\ bench' = bench
    BY DEF RunTypeOK, RunnerTypeOK
  <1>2. seen.driven \subseteq runner.touched /\ pc \notin {"begin", "idle", "cleanup"}
    BY DEF InHand, MidStep, Doing
  <1>3. InHand'
    BY <1>1, <1>2 DEF InHand
  <1>4. LeavesBoardSafe'
    BY <1>1, <1>2 DEF LeavesBoardSafe
  <1>5. BenchTypeOK'
    BY DEF RunTypeOK, BenchTypeOK
  <1> QED BY <1>3, <1>4, <1>5 DEF Board

LEMMA SendKeepsBoard ==
  ASSUME RunTypeOK, InHand, NEW pc \in Doing, NEW target, NEW took \in BOOLEAN,
         runner.pc \in MidStep \ {"arm"}, runner.pc \in Capturing => pc \in Capturing,
         Send(pc, target, took)
  PROVE  Board'
  <1>1. runner'.pc = pc /\ runner'.capture = runner.capture
        /\ runner'.touched = runner.touched \cup Touches(target)
    BY DEF Send, RunTypeOK, RunnerTypeOK
  <1>2. bench'.capture = bench.capture /\ BenchTypeOK'
    BY DEF Send, RunTypeOK, BenchTypeOK
  <1>3. seen'.driven = seen.driven \cup Touches(target)
    BY DEF Send, Touches, RunTypeOK, SeenTypeOK
  <1>4. seen.driven \subseteq runner.touched /\ pc \notin {"begin", "idle", "cleanup"}
    BY DEF InHand, MidStep, Doing
  <1>5. InHand'
    BY <1>1, <1>2, <1>3, <1>4 DEF InHand
  <1>6. LeavesBoardSafe'
    BY <1>1, <1>4 DEF LeavesBoardSafe
  <1> QED BY <1>2, <1>5, <1>6 DEF Board

LEMMA BoardStep ==
  ASSUME TestRunAssumption, RunIInv, TestRunNext
  PROVE  Board'
  <1> USE DEF RunIInv
  <1>1. \A pc \in Capturing : pc \in MidStep
    BY DEF Capturing, MidStep, Doing
  <1>2. \A op \in Ops : Begins(op) => runner.pc = "begin"
    BY DEF Begins
  <1>3. "begin" \in MidStep \ {"arm"} /\ "begin" \notin Capturing
    BY DEF MidStep, Capturing
  <1>4. ASSUME NEW status, EndStep(status), runner.pc \in MidStep \ {"arm"} PROVE Board'
    <2>1. runner' = Ended(runner, status) /\ seen' = Noted(status)
          /\ bench' = Uncaptured(bench, runner)
      BY <1>4 DEF EndStep
    <2>2. Released
      BY <1>4, <2>1 DEF Released
    <2> QED BY <1>4, <2>1, <2>2, EndedFields, ReleasedIsSafe
  <1>5. ASSUME NEW u, NEW n, NEW status, EndWait(u, n, status),
               runner.pc \in MidStep \ {"arm"} PROVE Board'
    <2>1. runner' = Ended(runner, status) /\ bench' = Uncaptured(bench, runner)
          /\ seen'.driven = Noted(status).driven
      BY <1>5 DEF EndWait, Noted, RunTypeOK, SeenTypeOK
    <2>2. Released
      BY <1>5, <2>1 DEF Released
    <2> QED BY <1>5, <2>1, <2>2, EndedFields, ReleasedIsSafe
  <1>6. CASE Commands
    <2>1. PICK took \in BOOLEAN :
            \/ \E op \in {"off", "set", "route", "adc", "send"} :
                 Begins(op) /\ Send("answer", IF op = "set" THEN "out" ELSE op, took)
            \/ Begins("on") /\ Send("power", "on", took)
      BY <1>6 DEF Commands
    <2>2. runner.pc = "begin" /\ "answer" \in Doing /\ "power" \in Doing
      BY <2>1 DEF Doing, Begins
    <2>3. CASE Begins("on") /\ Send("power", "on", took)
      BY <1>3, <2>2, <2>3, SendKeepsBoard
    <2>4. CASE \E op \in {"off", "set", "route", "adc", "send"} :
                 Begins(op) /\ Send("answer", IF op = "set" THEN "out" ELSE op, took)
      <3>1. PICK op \in {"off", "set", "route", "adc", "send"} :
              Send("answer", IF op = "set" THEN "out" ELSE op, took)
        BY <2>4
      <3> DEFINE target == IF op = "set" THEN "out" ELSE op
      <3>2. Send("answer", target, took)
        BY <3>1
      <3> HIDE DEF target
      <3> QED BY <1>3, <2>2, <3>2, SendKeepsBoard
    <2> QED BY <2>1, <2>3, <2>4
  <1>7. CASE Answered
    <2>1. runner.pc \in MidStep \ {"arm"} /\ \E status \in Endings : EndStep(status)
      BY <1>7 DEF Answered, MidStep, Doing, Endings, Statuses
    <2> QED BY <1>4, <2>1
  <1>8. CASE PowerAnswered
    <2>1. runner.pc \in MidStep \ {"arm"} /\ "sleep" \in Doing /\ runner.pc \notin Capturing
      BY <1>8 DEF PowerAnswered, MidStep, Doing, Capturing
    <2> QED BY <1>4, <1>8, <2>1, PcKeepsBoard DEF PowerAnswered
  <1>9. CASE BeginSleep \/ BeginExpect
    <2>1. runner.pc = "begin" /\ "sleep" \in Doing /\ "expect" \in Doing
          /\ UNCHANGED bench /\ seen' = seen
      BY <1>9 DEF BeginSleep, BeginExpect, Begins, Doing
    <2>2. \E pc \in {"sleep", "expect"} : runner' = [runner EXCEPT !.pc = pc]
      BY <1>9 DEF BeginSleep, BeginExpect
    <2> QED BY <1>3, <2>1, <2>2, PcKeepsBoard
  <1>10. CASE SleepEnds
    <2>1. runner.pc \in MidStep \ {"arm"} /\ \E status \in Endings : EndStep(status)
      BY <1>10 DEF SleepEnds, MidStep, Doing, Endings, Statuses
    <2> QED BY <1>4, <2>1
  <1>11. CASE BeginWait
    <2>1. runner.pc = "begin" /\ "wait" \in Doing
      BY <1>11 DEF BeginWait, Begins, Doing
    <2>2. \/ \E u, n : EndWait(u, n, "pass")
          \/ runner' = [runner EXCEPT !.pc = "wait"] /\ UNCHANGED <<bench, seen>>
      BY <1>11 DEF BeginWait
    <2> QED BY <1>3, <1>5, <2>1, <2>2, PcKeepsBoard
  <1>12. CASE Disconnected
    <2>1. runner.pc = "begin" /\ EndStep("error")
      BY <1>12 DEF Disconnected, Begins
    <2> QED BY <1>3, <1>4, <2>1
  <1>13. CASE UNCHANGED <<runner, bench, seen>>
    <2>1. runner' = runner /\ bench' = bench /\ seen' = seen
      BY <1>13
    <2> QED BY <2>1 DEF Board, RunTypeOK, BenchTypeOK, InHand, LeavesBoardSafe
  <1>14. CASE Receive
    <2>1. \/ UNCHANGED <<runner, bench, seen>>
          \/ runner.pc = "wait" /\ \E u, n : EndWait(u, n, "pass")
      BY <1>14 DEF Receive
    <2>2. "wait" \in MidStep \ {"arm"}
      BY DEF MidStep, Doing
    <2> QED BY <1>5, <1>13, <2>1, <2>2
  <1>15. CASE WaitEnds
    <2>1. runner.pc \in MidStep \ {"arm"}
      BY <1>15 DEF WaitEnds, MidStep, Doing
    <2> QED BY <1>4, <1>5, <1>15, <2>1 DEF WaitEnds
  <1>16. CASE ExpectEnds
    <2>1. PICK status \in {"pass", "fail", "error", "aborted"} :
            /\ runner' = Ended(runner, status) /\ bench' = Uncaptured(bench, runner)
            /\ seen' = [Noted(status) EXCEPT !.consumed = uart.rx]
      BY <1>16 DEF ExpectEnds
    <2>2. runner.pc \in MidStep \ {"arm"} /\ seen'.driven = Noted(status).driven
      BY <1>16, <2>1 DEF ExpectEnds, MidStep, Doing, Noted, RunTypeOK, SeenTypeOK
    <2>3. Released
      BY <2>1, <2>2 DEF Released
    <2> QED BY <2>1, <2>2, <2>3, EndedFields, ReleasedIsSafe
  <1>17. CASE BeginCapture
    <2>1. runner.pc = "begin" /\ runner' = [runner EXCEPT !.pc = "arm"]
          /\ bench' = [bench EXCEPT !.capture = "arming"] /\ seen' = seen
      BY <1>17 DEF BeginCapture, Begins
    <2>2. runner'.pc = "arm" /\ runner'.capture = runner.capture
          /\ runner'.touched = runner.touched
      BY <2>1 DEF RunTypeOK, RunnerTypeOK
    <2>3. bench'.capture = "arming" /\ BenchTypeOK'
      BY <2>1 DEF RunTypeOK, BenchTypeOK
    <2>4. ~runner.capture /\ seen.driven \subseteq runner.touched
      BY <2>1 DEF InHand, Capturing
    <2> QED BY <2>1, <2>2, <2>3, <2>4 DEF Board, InHand, LeavesBoardSafe
  <1>18. CASE Armed
    <2>1. runner.pc = "arm" /\ runner.pc \in MidStep
      BY <1>18 DEF Armed, MidStep, Doing
    <2>2. CASE /\ runner' = [runner EXCEPT !.capture = TRUE,
                                           !.pc = IF Step.power THEN "cycle" ELSE "capture"]
               /\ bench' = [bench EXCEPT !.capture = "armed"] /\ UNCHANGED seen
      <3>1. runner'.pc \in {"cycle", "capture"} /\ runner'.capture = TRUE
            /\ runner'.touched = runner.touched
        BY <2>2 DEF RunTypeOK, RunnerTypeOK
      <3>2. bench'.capture = "armed" /\ BenchTypeOK' /\ seen' = seen
        BY <2>2 DEF RunTypeOK, BenchTypeOK
      <3>3. seen.driven \subseteq runner.touched
        BY <2>1 DEF InHand
      <3> QED BY <3>1, <3>2, <3>3 DEF Board, InHand, LeavesBoardSafe, Capturing
    <2>3. CASE /\ runner' = Ended(runner, "error") /\ seen' = Noted("error")
               /\ bench' = [bench EXCEPT !.capture = "idle"]
      <3>1. Released
        BY <2>3 DEF Released
      <3> QED BY <2>1, <2>3, <3>1, EndedFields, ReleasedIsSafe
    <2> QED BY <1>18, <2>2, <2>3 DEF Armed
  <1>19. CASE CycleOff \/ CycleOn
    <2>1. runner.pc \in MidStep \ {"arm"} /\ \A pc \in Capturing : pc \in Doing
      BY <1>19 DEF CycleOff, CycleOn, MidStep, Doing, Capturing
    <2>2. \E took \in BOOLEAN, pc \in {"cycle_off", "cycle_on"}, target \in {"off", "on"} :
            Send(pc, target, took)
      BY <1>19 DEF CycleOff, CycleOn
    <2>3. "cycle_off" \in Capturing /\ "cycle_on" \in Capturing
      BY DEF Capturing
    <2> QED BY <2>1, <2>2, <2>3, SendKeepsBoard
  <1>20. CASE CycleAnswered
    <2>1. runner.pc \in MidStep \ {"arm"}
      BY <1>20 DEF CycleAnswered, MidStep, Doing
    <2>2. CASE EndStep("error")
      BY <1>4, <2>1, <2>2
    <2>3. CASE /\ runner' = [runner EXCEPT !.pc = IF @ = "cycle_off" THEN "cycle_sleep"
                                                  ELSE "capture"]
               /\ UNCHANGED <<bench, seen>>
      <3>1. PICK pc \in {"cycle_sleep", "capture"} : runner' = [runner EXCEPT !.pc = pc]
        BY <2>3
      <3>2. pc \in Doing /\ pc \in Capturing /\ seen' = seen
        BY <2>3 DEF Doing, Capturing
      <3> QED BY <2>1, <2>3, <3>1, <3>2, PcKeepsBoard
    <2> QED BY <1>20, <2>2, <2>3 DEF CycleAnswered
  <1>21. CASE CycleAborted \/ CaptureAborted
    <2>1. runner.pc \in MidStep \ {"arm"} /\ EndStep("aborted")
      BY <1>21 DEF CycleAborted, CaptureAborted, MidStep, Doing
    <2> QED BY <1>4, <2>1
  <1>22. CASE CaptureEnds
    <2>1. runner.pc \in MidStep \ {"arm"}
      BY <1>22 DEF CaptureEnds, MidStep, Doing
    <2>2. CASE EndStep("error")
      BY <1>4, <2>1, <2>2
    <2>3. CASE ~EndStep("error")
      <3>1. PICK status \in Endings :
              /\ \/ runner' = Ended(runner, status)
                 \/ runner' = [Ended(runner, status) EXCEPT !.lost = TRUE]
              /\ seen' = Noted(status) /\ bench' = [bench EXCEPT !.capture = "idle"]
        BY <1>22, <2>3 DEF CaptureEnds, Endings, Statuses
      <3>2. Released
        BY <3>1 DEF Released
      <3>3. runner'.pc \in {"next", "finally"} /\ runner'.capture = FALSE
            /\ runner'.touched = runner.touched /\ seen'.driven = seen.driven
        BY <3>1, EndedFields
      <3> QED BY <2>1, <3>2, <3>3, ReleasedIsSafe
    <2> QED BY <2>2, <2>3
  <1>23. CASE Finally
    <2>1. runner.pc = "finally" /\ bench' = bench /\ seen' = seen
      BY <1>23 DEF Finally
    <2>2. runner'.pc = "cleanup" /\ runner'.capture = runner.capture
          /\ runner'.touched = runner.touched
      BY <1>23 DEF Finally, RunTypeOK, RunnerTypeOK
    <2>3. seen.driven \subseteq runner.touched /\ ~runner.capture /\ bench.capture = "idle"
      BY <2>1 DEF InHand, Capturing, RunTypeOK, BenchTypeOK
    <2>4. InHand' /\ LeavesBoardSafe'
      BY <2>1, <2>2, <2>3 DEF InHand, LeavesBoardSafe
    <2> QED BY <2>1, <2>4 DEF Board, RunTypeOK, BenchTypeOK
  <1>24. CASE CleanUp
    <2>1. PICK passed \in BOOLEAN, took \in BOOLEAN :
            /\ passed => took
            /\ runner' = [runner EXCEPT !.touched = @ \ {CleanupTarget},
                                        !.cleanup = @ /\ passed]
            /\ bench' = IF ~took THEN bench
                        ELSE IF CleanupTarget = "pin" THEN [bench EXCEPT !.pin = "in"]
                        ELSE [bench EXCEPT !.rail = "off"]
      BY <1>24 DEF CleanUp
    <2>2. runner.pc = "cleanup" /\ seen' = seen /\ CleanupTarget \in {"pin", "rail"}
      BY <1>24 DEF CleanUp, CleanupTarget
    <2>3. /\ runner'.pc = "cleanup" /\ runner'.capture = runner.capture
          /\ runner'.touched = runner.touched \ {CleanupTarget}
          /\ runner'.cleanup <=> (runner.cleanup /\ passed)
      BY <2>1, <2>2 DEF RunTypeOK, RunnerTypeOK
    <2>4. bench'.capture = bench.capture /\ BenchTypeOK'
      BY <2>1 DEF RunTypeOK, BenchTypeOK
    <2>5. passed => IF CleanupTarget = "pin" THEN bench'.pin = "in" /\ bench'.rail = bench.rail
                    ELSE bench'.rail = "off" /\ bench'.pin = bench.pin
      BY <2>1, <2>2 DEF RunTypeOK, BenchTypeOK
    <2>6. ~runner.capture /\ bench.capture = "idle"
      BY <2>2 DEF InHand, Capturing, RunTypeOK, BenchTypeOK
    <2>7. runner'.cleanup =>
            /\ "rail" \in seen.driven \ runner'.touched => bench'.rail = "off"
            /\ "pin" \in seen.driven \ runner'.touched => bench'.pin = "in"
      BY <2>2, <2>3, <2>5 DEF InHand
    <2>8. InHand'
      BY <2>2, <2>3, <2>4, <2>6, <2>7 DEF InHand
    <2>9. LeavesBoardSafe'
      BY <2>3 DEF LeavesBoardSafe
    <2> QED BY <2>4, <2>8, <2>9 DEF Board
  <1>25. CASE Complete
    <2>1. /\ runner.pc = "cleanup" /\ runner.touched = {} /\ runner' = IdleRunner
          /\ bench' = [bench EXCEPT !.lock = "none", !.summary = Summary] /\ seen' = seen
      BY <1>25 DEF Complete
    <2>2. Summary \in Summaries /\ Summary.cleanup = runner.cleanup
      BY DEF Summary, Summaries, RunTypeOK, RunnerTypeOK
    <2>3. /\ BenchTypeOK' /\ bench'.summary = Summary /\ bench'.capture = bench.capture
          /\ bench'.rail = bench.rail /\ bench'.pin = bench.pin
      BY <2>1, <2>2 DEF RunTypeOK, BenchTypeOK
    <2>4. bench.capture = "idle"
      BY <2>1 DEF InHand, Capturing, RunTypeOK, BenchTypeOK
    <2>5. runner'.pc = "idle" /\ runner'.capture = FALSE
      BY <2>1 DEF IdleRunner
    <2>6. InHand'
      BY <2>3, <2>4, <2>5 DEF InHand
    <2>7. LeavesBoardSafe'
      BY <2>1, <2>2, <2>3, <2>4 DEF LeavesBoardSafe, InHand
    <2> QED BY <2>3, <2>6, <2>7 DEF Board
  <1>26. CASE StartRun
    <2>1. runner.pc = "idle" /\ runner'.pc \in {"next", "finally"} /\ runner'.capture = FALSE
          /\ seen'.driven = {}
      BY <1>26 DEF StartRun, IdleRunner, NothingSeen
    <2>2. NoSummary \in Summaries /\ bench.runs + 1 \in Nat
      <3>1. <<>> \in Seq(StepResults)
        BY EmptySeq
      <3> QED BY <3>1 DEF NoSummary, Summaries, RunTypeOK, BenchTypeOK
    <2>3. bench' = [bench EXCEPT !.lock = "test", !.summary = NoSummary,
                                 !.runs = bench.runs + 1]
      BY <1>26 DEF StartRun, Acquire, RunTypeOK, BenchTypeOK
    <2>4. BenchTypeOK' /\ bench'.capture = bench.capture
      BY <2>2, <2>3 DEF RunTypeOK, BenchTypeOK
    <2>5. bench.capture = "idle"
      BY <2>1 DEF InHand, Capturing, RunTypeOK, BenchTypeOK
    <2>6. InHand' /\ LeavesBoardSafe'
      BY <2>1, <2>4, <2>5 DEF InHand, LeavesBoardSafe
    <2> QED BY <2>4, <2>6 DEF Board
  <1>27. CASE Abort
    <2>1. /\ runner.pc # "idle" /\ ~NoAwait /\ seen' = seen
          /\ runner' = [runner EXCEPT !.aborted = TRUE, !.capture = FALSE]
          /\ bench' = Uncaptured(bench, runner)
      BY <1>27 DEF Abort
    <2>2. runner'.pc = runner.pc /\ runner'.capture = FALSE
          /\ runner'.touched = runner.touched /\ runner'.cleanup = runner.cleanup
      BY <2>1 DEF RunTypeOK, RunnerTypeOK
    <2>3. BenchTypeOK' /\ bench'.rail = bench.rail /\ bench'.pin = bench.pin
          /\ bench'.capture = IF runner.capture THEN "idle" ELSE bench.capture
      BY <2>1 DEF Uncaptured, RunTypeOK, BenchTypeOK
    <2>4. runner.pc # "begin"
      BY <2>1 DEF NoAwait
    <2>5. InHand'
      BY <2>1, <2>2, <2>3, <2>4 DEF InHand
    <2>6. LeavesBoardSafe'
      BY <2>1, <2>2 DEF LeavesBoardSafe
    <2> QED BY <2>3, <2>5, <2>6 DEF Board
  <1>28. CASE CaptureDropped \/ OtherTask
    <2>1. runner' = runner /\ seen' = seen
      BY <1>28 DEF CaptureDropped, OtherTask
    <2>2. /\ BenchTypeOK' /\ bench'.rail = bench.rail /\ bench'.pin = bench.pin
          /\ bench'.summary = bench.summary
          /\ bench'.capture \in {bench.capture, "idle"}
      BY <1>28 DEF CaptureDropped, OtherTask, RunTypeOK, BenchTypeOK
    <2>3. InHand' /\ LeavesBoardSafe'
      BY <2>1, <2>2 DEF InHand, LeavesBoardSafe
    <2> QED BY <2>2, <2>3 DEF Board
  <1>29. CASE NextStep
    <2>1. runner.pc = "next" /\ bench' = bench /\ seen' = seen
      BY <1>29 DEF NextStep
    <2>2. /\ runner'.capture = runner.capture /\ runner'.touched = runner.touched
          /\ runner'.pc \in {"finally", "begin"} /\ runner'.aborted = runner.aborted
          /\ runner'.pc = "begin" => ~runner.aborted
      BY <1>29 DEF NextStep, RunTypeOK, RunnerTypeOK
    <2>3. seen.driven \subseteq runner.touched /\ ~runner.capture /\ bench.capture = "idle"
      BY <2>1 DEF InHand, Capturing, RunTypeOK, BenchTypeOK
    <2>4. InHand' /\ LeavesBoardSafe'
      BY <2>1, <2>2, <2>3 DEF InHand, LeavesBoardSafe
    <2> QED BY <2>1, <2>4 DEF Board, RunTypeOK, BenchTypeOK
  <1>30. CASE SkipStep
    <2>1. runner.pc = "begin" /\ bench' = bench /\ seen' = seen
      BY <1>30 DEF SkipStep
    <2>2. /\ runner'.capture = runner.capture /\ runner'.touched = runner.touched
          /\ runner'.pc = "next"
      BY <1>30 DEF SkipStep, RunTypeOK, RunnerTypeOK
    <2>3. seen.driven \subseteq runner.touched /\ ~runner.capture /\ bench.capture = "idle"
      BY <2>1 DEF InHand, Capturing, RunTypeOK, BenchTypeOK
    <2>4. InHand' /\ LeavesBoardSafe'
      BY <2>1, <2>2, <2>3 DEF InHand, LeavesBoardSafe
    <2> QED BY <2>1, <2>4 DEF Board, RunTypeOK, BenchTypeOK
  <1> QED BY <1>6, <1>7, <1>8, <1>9, <1>10, <1>11, <1>12, <1>14, <1>15, <1>16, <1>17, <1>18,
             <1>19, <1>20, <1>21, <1>22, <1>23, <1>24, <1>25, <1>26, <1>27, <1>28, <1>29, <1>30
          DEF TestRunNext, RunnerStep

-----------------------------------------------------------------------------
(* The serial buffer: the cursor follows what is consumed and cut.          *)

Text == UartTypeOK /\ TextInv /\ CursorIsExact

\* The text, while the runner listens: x chunks came, l are in the buffer, c of
\* them are consumed, and m is the chunk consumed up to.
Aligned(x, l, c, m) ==
  /\ x \in Nat /\ l \in Nat /\ c \in Nat /\ m \in Nat
  /\ l <= BufferLimit /\ l <= x /\ c <= l /\ m <= x
  /\ x - l + c = Most(m, x - l) /\ (l < BufferLimit => x - l <= m)

Buffer(x, l, c, k) == [rx |-> x, len |-> l, cursor |-> c, local |-> k]

\* What is not consumed is at most what the buffer holds.
LEMMA UnreadIs ==
  ASSUME TestRunAssumption, NEW x, NEW l, NEW c, NEW m, Aligned(x, l, c, m)
  PROVE  x - (l - c) = Most(m, x - BufferLimit)
  <1>1. BufferLimit \in Nat
    BY DEF TestRunAssumption
  <1> QED BY <1>1 DEF Most, Aligned

\* One more chunk: appendSerialBuffer cuts the text and moves the cursor back.
LEMMA AppendKeepsCursor ==
  ASSUME TestRunAssumption, NEW x, NEW l, NEW c, NEW m, NEW k, Aligned(x, l, c, m),
         uart = Buffer(x, l, c, k)
  PROVE  \E a, b \in Nat :
           /\ Appended(uart) = Buffer(x + 1, a, b, k)
           /\ Aligned(x + 1, a, b, m) /\ Least(l - c + 1, BufferLimit) = a - b
  <1>1. BufferLimit \in Nat /\ BufferLimit > 0 /\ x \in Nat /\ l \in Nat /\ c \in Nat
    BY DEF TestRunAssumption, Aligned
  <1> DEFINE cut == Most(0, l + 1 - BufferLimit)
             a == l + 1 - cut
             b == Most(0, c - cut)
  <1>2. a \in Nat /\ b \in Nat /\ Aligned(x + 1, a, b, m) /\ Least(l - c + 1, BufferLimit) = a - b
    <2>1. CASE l < BufferLimit
      <3>1. cut = 0
        BY <1>1, <2>1 DEF Most
      <3>2. a = l + 1 /\ b = c
        BY <1>1, <3>1 DEF Most
      <3> HIDE DEF a, b
      <3> QED BY <1>1, <2>1, <3>2 DEF Aligned, Most, Least
    <2>2. CASE l = BufferLimit
      <3>1. cut = 1
        BY <1>1, <2>2 DEF Most
      <3>2. a = l /\ b = IF c = 0 THEN 0 ELSE c - 1
        BY <1>1, <3>1 DEF Most
      <3> HIDE DEF a, b
      <3> QED BY <1>1, <2>2, <3>2 DEF Aligned, Most, Least
    <2> QED BY <1>1, <2>1, <2>2 DEF Aligned
  <1>3. Appended(uart) = Buffer(x + 1, a, b, k)
    <2>1. uart.rx = x /\ uart.len = l /\ uart.cursor = c
      BY DEF Buffer
    <2>2. Appended(uart) = [uart EXCEPT !.rx = x + 1, !.len = a, !.cursor = b]
      BY <2>1 DEF Appended
    <2> HIDE DEF a, b
    <2> QED BY <2>2 DEF Buffer
  <1> HIDE DEF a, b
  <1> QED BY <1>2, <1>3

\* Of what is not consumed, n chunks more are.
LEMMA ConsumeKeepsCursor ==
  ASSUME NEW x \in Nat, NEW l \in Nat, NEW c \in Nat, NEW n \in Nat,
         l <= x, c <= l, n <= l - c
  PROVE  /\ Least(l, c + n) = c + n /\ c + n \in Nat /\ c + n <= l
         /\ x - l + (c + n) = Most(x - (l - c) + n, x - l)
         /\ x - (l - c) + n <= x /\ x - l <= x - (l - c) + n
         /\ x - (l - c) + n \in Nat
  BY DEF Least, Most

LEMMA TextStill ==
  ASSUME RunTypeOK, TextInv, CursorIsExact, uart' = uart, seen'.consumed = seen.consumed,
         runner'.pc = "wait" <=> runner.pc = "wait",
         runner'.pc \notin {"idle", "finally", "cleanup"} => Listens
  PROVE  Text'
  <1>1. UartTypeOK'
    BY DEF RunTypeOK, UartTypeOK
  <1>2. CursorIsExact'
    BY DEF CursorIsExact, Listens
  <1>3. TextInv'
    BY DEF TextInv, Listens
  <1> QED BY <1>1, <1>2, <1>3 DEF Text

\* A wait that ends after n of the chunks it searched has consumed them.
LEMMA EndedWait ==
  ASSUME TestRunAssumption, NEW x \in Nat, NEW l \in Nat, NEW c \in Nat, NEW n \in Nat,
         l <= BufferLimit, l <= x, c <= l, n <= l - c,
         runner'.pc \in {"next", "finally"},
         uart' = [rx |-> x, len |-> l, cursor |-> c + n, local |-> 0],
         seen'.consumed = x - (l - c) + n
  PROVE  Text'
  <1>1. c + n \in Nat /\ c + n <= l
        /\ x - l + (c + n) = Most(x - (l - c) + n, x - l)
        /\ x - (l - c) + n <= x /\ x - l <= x - (l - c) + n
    BY ConsumeKeepsCursor
  <1>2. UartTypeOK'
    BY <1>1 DEF UartTypeOK
  <1>3. uart'.rx = x /\ uart'.len = l /\ uart'.cursor = c + n /\ uart'.local = 0
    OBVIOUS
  <1>4. CursorIsExact'
    BY <1>1, <1>3 DEF CursorIsExact
  <1>5. BufferLimit \in Nat /\ 0 <= BufferLimit
    BY DEF TestRunAssumption
  <1>6. TextInv'
    BY <1>1, <1>3, <1>5 DEF TextInv
  <1> QED BY <1>2, <1>4, <1>6 DEF Text

\* The same, said of the buffer in which it searched.
LEMMA EndWaitKeepsText ==
  ASSUME TestRunAssumption, RunTypeOK, NEW x \in Nat, NEW l \in Nat, NEW c \in Nat,
         l <= BufferLimit, l <= x, c <= l,
         NEW n \in Nat, n <= l - c, NEW status,
         EndWait([rx |-> x, len |-> l, cursor |-> c, local |-> l - c], n, status)
  PROVE  Text'
  <1> DEFINE u == [rx |-> x, len |-> l, cursor |-> c, local |-> l - c]
  <1>1. Least(l, c + n) = c + n
    BY DEF Least
  <1>2. uart' = [rx |-> x, len |-> l, cursor |-> c + n, local |-> 0]
    BY <1>1 DEF EndWait, Consumed
  <1>3. seen'.consumed = x - (l - c) + n
    BY DEF EndWait, Noted, RunTypeOK, SeenTypeOK
  <1>4. runner'.pc \in {"next", "finally"}
    BY EndedFields DEF EndWait
  <1> QED BY <1>2, <1>3, <1>4, EndedWait

\* The record of the serial buffer, by its fields.
LEMMA UartFields ==
  ASSUME RunIInv
  PROVE  \E x, l, c, k, m \in Nat :
           /\ uart = [rx |-> x, len |-> l, cursor |-> c, local |-> k] /\ seen.consumed = m
           /\ l <= BufferLimit /\ l <= x /\ c <= l /\ k <= BufferLimit /\ k <= x /\ m <= x
           /\ runner.pc # "wait" => k = 0
           /\ Listens => Aligned(x, l, c, m)
           /\ runner.pc = "wait" =>
                k = l - c /\ \A h \in Hits : ~(x - k < h /\ h <= x)
  <1>1. PICK x \in Nat, l \in Nat, c \in Nat, k \in Nat, m \in Nat :
          uart = [rx |-> x, len |-> l, cursor |-> c, local |-> k] /\ seen.consumed = m
    BY DEF RunIInv, RunTypeOK, UartTypeOK, SeenTypeOK
  <1>2. uart.rx = x /\ uart.len = l /\ uart.cursor = c /\ uart.local = k
    BY <1>1
  <1>3. /\ uart = [rx |-> x, len |-> l, cursor |-> c, local |-> k] /\ seen.consumed = m
        /\ l <= BufferLimit /\ l <= x /\ c <= l /\ k <= BufferLimit /\ k <= x /\ m <= x
        /\ runner.pc # "wait" => k = 0
        /\ runner.pc = "wait" =>
             k = l - c /\ \A h \in Hits : ~(x - k < h /\ h <= x)
    BY <1>1, <1>2 DEF RunIInv, TextInv, CursorIsExact, Listens
  <1>4. Listens => Aligned(x, l, c, m)
    BY <1>1, <1>2 DEF RunIInv, TextInv, CursorIsExact, Listens, Aligned
  <1> QED BY <1>3, <1>4, Zenon

LEMMA TextStep ==
  ASSUME TestRunAssumption, RunIInv, TestRunNext
  PROVE  Text'
  <1> USE DEF RunIInv
  <1> DEFINE Off == {"idle", "finally", "cleanup"}
  <1>1. ASSUME uart' = uart, seen'.consumed = seen.consumed,
               runner.pc # "wait", runner'.pc # "wait", runner'.pc \in Off \/ runner.pc \notin Off
        PROVE  Text'
    BY <1>1, TextStill DEF Listens
  <1>2. \A pc \in MidStep : pc \notin Off
    BY DEF MidStep, Doing
  <1>3. ASSUME NEW status, EndStep(status), runner.pc # "wait", runner.pc \in MidStep,
               uart' = uart
        PROVE  Text'
    <2>1. runner'.pc \in {"next", "finally"} /\ seen'.consumed = seen.consumed
      BY <1>3, EndedFields DEF EndStep, Noted, RunTypeOK, SeenTypeOK
    <2> QED BY <1>1, <1>2, <1>3, <2>1
  <1>4. ASSUME NEW pc, NEW target, NEW took, Send(pc, target, took),
               runner.pc # "wait", pc # "wait", runner.pc \in MidStep
        PROVE  Text'
    <2>1. uart' = uart /\ seen'.consumed = seen.consumed /\ runner'.pc = pc
      BY <1>4 DEF Send, RunTypeOK, RunnerTypeOK, SeenTypeOK
    <2> QED BY <1>1, <1>2, <1>4, <2>1
  <1>5. PICK x \in Nat, l \in Nat, c \in Nat, k \in Nat, m \in Nat :
          /\ uart = [rx |-> x, len |-> l, cursor |-> c, local |-> k] /\ seen.consumed = m
          /\ l <= BufferLimit /\ l <= x /\ c <= l /\ k <= BufferLimit /\ k <= x /\ m <= x
          /\ runner.pc # "wait" => k = 0
          /\ Listens => Aligned(x, l, c, m)
          /\ runner.pc = "wait" =>
               k = l - c /\ \A h \in Hits : ~(x - k < h /\ h <= x)
    BY UartFields
  <1>6. BufferLimit \in Nat /\ BufferLimit > 0 /\ Hits \subseteq Nat
    BY DEF TestRunAssumption
  <1>7. CASE Commands
    <2>1. runner.pc = "begin" /\ "begin" \in MidStep
      BY <1>7 DEF Commands, Begins, MidStep
    <2>2. PICK took \in BOOLEAN :
            \/ \E op \in {"off", "set", "route", "adc", "send"} :
                 Send("answer", IF op = "set" THEN "out" ELSE op, took)
            \/ Send("power", "on", took)
      BY <1>7 DEF Commands
    <2>3. uart' = uart /\ seen'.consumed = seen.consumed /\ runner'.pc \in {"answer", "power"}
      BY <2>2 DEF Send, RunTypeOK, RunnerTypeOK, SeenTypeOK
    <2> QED BY <1>1, <1>2, <2>1, <2>3
  <1>8. CASE Answered \/ SleepEnds
    <2>1. /\ runner.pc # "wait" /\ runner.pc \in MidStep /\ uart' = uart
          /\ \E status \in Endings : EndStep(status)
      BY <1>8 DEF Answered, SleepEnds, MidStep, Doing, Endings, Statuses
    <2> QED BY <1>3, <2>1
  <1>9. CASE PowerAnswered \/ CycleAnswered
    <2>1. runner.pc # "wait" /\ runner.pc \in MidStep /\ uart' = uart
      BY <1>9 DEF PowerAnswered, CycleAnswered, MidStep, Doing
    <2>2. CASE EndStep("error")
      BY <1>3, <2>1, <2>2
    <2>3. CASE ~EndStep("error")
      <3>1. runner'.pc \in {"sleep", "cycle_sleep", "capture"} /\ seen' = seen
        BY <1>9, <2>3 DEF PowerAnswered, CycleAnswered, RunTypeOK, RunnerTypeOK
      <3> QED BY <1>1, <1>2, <2>1, <3>1
    <2> QED BY <2>2, <2>3
  <1>10. CASE BeginSleep \/ BeginExpect \/ BeginCapture
    <2>1. runner.pc = "begin" /\ uart' = uart /\ seen' = seen /\ "begin" \in MidStep
      BY <1>10 DEF BeginSleep, BeginExpect, BeginCapture, Begins, MidStep
    <2>2. runner'.pc \in {"sleep", "expect", "arm"}
      BY <1>10 DEF BeginSleep, BeginExpect, BeginCapture, RunTypeOK, RunnerTypeOK
    <2> QED BY <1>1, <1>2, <2>1, <2>2
  <1>11. CASE Disconnected
    <2>1. runner.pc = "begin" /\ uart' = uart /\ "begin" \in MidStep /\ EndStep("error")
      BY <1>11 DEF Disconnected, Begins, MidStep
    <2> QED BY <1>3, <2>1
  <1>12. CASE BeginWait
    <2>1. runner.pc = "begin" /\ Listens
      BY <1>12 DEF BeginWait, Begins, Listens
    <2>2. PICK n \in Nat : n = l - c
      BY <1>5
    <2> DEFINE u == [rx |-> x, len |-> l, cursor |-> c, local |-> n]
    <2>3. u.rx = x /\ u.rx \in Nat
      BY <1>5
    <2>4. /\ n <= l /\ n <= x /\ n <= BufferLimit
          /\ uart.len - uart.cursor = n /\ [uart EXCEPT !.local = n] = u
      BY <1>5, <1>6, <2>2
    <2>5. CASE MatchEnd(u, n) > 0 /\ EndWait(u, MatchEnd(u, n), "pass")
      <3> HIDE DEF u
      <3>1. PICK i \in 1..n : i = MatchEnd(u, n)
        BY <2>3, <2>5, MatchEndIsFirst
      <3>2. i \in Nat /\ i <= l - c
        BY <2>2, <3>1
      <3>3. EndWait([rx |-> x, len |-> l, cursor |-> c, local |-> l - c], i, "pass")
        BY <2>2, <2>5, <3>1 DEF u
      <3> QED BY <1>5, <3>2, <3>3, EndWaitKeepsText
    <2>6. CASE /\ ~(MatchEnd(u, n) > 0) /\ uart' = u
               /\ runner' = [runner EXCEPT !.pc = "wait"] /\ seen' = seen
      <3> HIDE DEF u
      <3>1. \A i \in 1..n : x - n + i \notin Hits
        <4>1. \/ MatchEnd(u, n) \in 1..n \/ \A i \in 1..n : u.rx - n + i \notin Hits
          BY <2>3, MatchEndIsFirst
        <4>2. MatchEnd(u, n) \notin 1..n
          BY <2>6
        <4> QED BY <2>3, <4>1, <4>2
      <3>2. \A h \in Hits : ~(x - n < h /\ h <= x)
        <4> SUFFICES ASSUME NEW h \in Hits, x - n < h, h <= x PROVE FALSE
          OBVIOUS
        <4>1. PICK i \in 1..n : i = h - (x - n)
          BY <1>6, <2>4
        <4>2. x - n + i = h
          BY <1>6, <4>1
        <4> QED BY <3>1, <4>2
      <3>3. runner'.pc = "wait" /\ seen'.consumed = m
        BY <1>5, <2>6 DEF RunTypeOK, RunnerTypeOK
      <3>4. uart'.rx = x /\ uart'.len = l /\ uart'.cursor = c /\ uart'.local = n
        BY <2>6 DEF u
      <3>5. UartTypeOK'
        BY <2>6 DEF u, UartTypeOK
      <3>6. CursorIsExact'
        BY <1>5, <2>1, <3>3, <3>4 DEF CursorIsExact
      <3>7. TextInv'
        BY <1>5, <2>1, <2>2, <2>4, <3>2, <3>3, <3>4 DEF TextInv
      <3> QED BY <3>5, <3>6, <3>7 DEF Text
    <2> HIDE DEF u
    <2> QED BY <1>12, <2>4, <2>5, <2>6 DEF BeginWait
  <1>13. CASE Receive
    <2>3. PICK l2 \in Nat, c2 \in Nat :
            Listens => /\ Appended(uart) = Buffer(x + 1, l2, c2, k)
                       /\ Aligned(x + 1, l2, c2, m) /\ Least(l - c + 1, BufferLimit) = l2 - c2
      <3>1. CASE Listens
        <4>1. Aligned(x, l, c, m)
          BY <1>5, <3>1
        <4>2. uart = Buffer(x, l, c, k)
          BY <1>5 DEF Buffer
        <4> QED BY <4>1, <4>2, AppendKeepsCursor
      <3>2. CASE ~Listens
        BY <3>2
      <3> QED BY <3>1, <3>2
    <2>4. Listens =>
            /\ l2 <= BufferLimit /\ l2 <= x + 1 /\ c2 <= l2 /\ m <= x + 1
            /\ x + 1 - l2 + c2 = Most(m, x + 1 - l2)
            /\ l2 < BufferLimit => x + 1 - l2 <= m
            /\ Least(l - c + 1, BufferLimit) = l2 - c2
      BY <2>3 DEF Aligned
    <2>5. CASE ~Listens
      <3>1. uart' = [uart EXCEPT !.rx = x + 1] /\ runner' = runner /\ seen' = seen
        BY <1>5, <1>13, <2>5 DEF Receive, Listens
      <3>2. uart' = [rx |-> x + 1, len |-> l, cursor |-> c, local |-> k] /\ x + 1 \in Nat
        BY <1>5, <3>1
      <3>3. UartTypeOK'
        BY <3>2 DEF UartTypeOK
      <3>4. uart'.rx = x + 1 /\ uart'.len = l /\ uart'.cursor = c /\ uart'.local = k
        BY <3>2
      <3>5. CursorIsExact'
        BY <2>5, <3>1 DEF CursorIsExact, Listens
      <3>6. runner'.pc # "wait" /\ ~Listens'
        BY <2>5, <3>1 DEF Listens
      <3>7. TextInv'
        BY <1>5, <1>6, <3>1, <3>4, <3>6 DEF TextInv
      <3> QED BY <3>3, <3>5, <3>7 DEF Text
    <2>6. CASE Listens /\ runner.pc # "wait"
      <3>1. uart' = Appended(uart) /\ runner' = runner /\ seen' = seen
        BY <1>13, <2>6 DEF Receive, Listens
      <3>2. UartTypeOK'
        BY <2>3, <2>6, <3>1 DEF UartTypeOK, Buffer
      <3>3. uart'.rx = x + 1 /\ uart'.len = l2 /\ uart'.cursor = c2 /\ uart'.local = 0
        BY <1>5, <2>3, <2>6, <3>1 DEF Buffer
      <3>4. /\ seen'.consumed = m /\ m <= x + 1 /\ runner'.pc # "wait" /\ 0 <= x + 1
            /\ l2 <= BufferLimit /\ l2 <= x + 1 /\ c2 <= l2
            /\ x + 1 - l2 + c2 = Most(m, x + 1 - l2)
            /\ l2 < BufferLimit => x + 1 - l2 <= m
        BY <1>5, <2>4, <2>6, <3>1
      <3>5. CursorIsExact'
        BY <3>3, <3>4 DEF CursorIsExact
      <3>6. TextInv'
        BY <1>6, <3>3, <3>4 DEF TextInv
      <3> QED BY <3>2, <3>5, <3>6 DEF Text
    <2>7. CASE runner.pc = "wait"
      <3>1. Listens
        BY <2>7 DEF Listens
      <3>2. PICK n \in Nat : n = l2 - c2
        BY <2>4, <3>1
      <3> DEFINE v == [rx |-> x + 1, len |-> l2, cursor |-> c2, local |-> n]
      <3>3. Least(uart.local + 1, BufferLimit) = n
        BY <1>5, <2>4, <2>7, <3>1, <3>2
      <3>4. [Appended(uart) EXCEPT !.local = n] = v /\ v.rx = x + 1 /\ v.rx \in Nat
        <4>1. PICK a : a = Appended(uart)
          OBVIOUS
        <4>2. a = [rx |-> x + 1, len |-> l2, cursor |-> c2, local |-> k]
          BY <2>3, <3>1, <4>1 DEF Buffer
        <4>3. [a EXCEPT !.local = n] = v
          BY <4>2
        <4> QED BY <1>5, <4>1, <4>3
      <3> HIDE DEF v
      <3>5. \/ MatchEnd(v, n) > 0 /\ EndWait(v, MatchEnd(v, n), "pass")
            \/ ~(MatchEnd(v, n) > 0) /\ uart' = v /\ UNCHANGED <<runner, bench, seen>>
        BY <1>13, <2>7, <3>3, <3>4 DEF Receive
      <3>6. CASE MatchEnd(v, n) > 0 /\ EndWait(v, MatchEnd(v, n), "pass")
        <4>1. PICK i \in 1..n : i = MatchEnd(v, n)
          BY <3>4, <3>6, MatchEndIsFirst
        <4>2. i \in Nat /\ i <= l2 - c2
          BY <3>2, <4>1
        <4>3. EndWait([rx |-> x + 1, len |-> l2, cursor |-> c2, local |-> l2 - c2], i, "pass")
          BY <3>2, <3>6, <4>1 DEF v
        <4>4. x + 1 \in Nat /\ l2 <= BufferLimit /\ l2 <= x + 1 /\ c2 <= l2
          BY <2>4, <3>1
        <4> QED BY <4>2, <4>3, <4>4, EndWaitKeepsText
      <3>7. CASE ~(MatchEnd(v, n) > 0) /\ uart' = v /\ UNCHANGED <<runner, bench, seen>>
        <4>1. \A i \in 1..n : x + 1 - n + i \notin Hits
          <5>1. \/ MatchEnd(v, n) \in 1..n \/ \A i \in 1..n : v.rx - n + i \notin Hits
            BY <3>4, MatchEndIsFirst
          <5>2. MatchEnd(v, n) \notin 1..n
            BY <3>7
          <5> QED BY <3>4, <5>1, <5>2
        <4>2. n <= l2 /\ n <= x + 1 /\ n <= BufferLimit
          BY <1>6, <2>4, <3>1, <3>2
        <4>3. \A h \in Hits : ~(x + 1 - n < h /\ h <= x + 1)
          <5> SUFFICES ASSUME NEW h \in Hits, x + 1 - n < h, h <= x + 1 PROVE FALSE
            OBVIOUS
          <5>1. PICK i \in 1..n : i = h - (x + 1 - n)
            BY <1>6, <4>2
          <5>2. x + 1 - n + i = h
            BY <1>6, <5>1
          <5> QED BY <4>1, <5>2
        <4>4. runner' = runner /\ seen' = seen
          BY <3>7
        <4>5. uart'.rx = x + 1 /\ uart'.len = l2 /\ uart'.cursor = c2 /\ uart'.local = n
          BY <3>7 DEF v
        <4>6. UartTypeOK'
          BY <3>7 DEF v, UartTypeOK
        <4>7. CursorIsExact'
          BY <1>5, <2>4, <3>1, <4>4, <4>5 DEF CursorIsExact
        <4>8. TextInv'
          BY <1>5, <2>4, <2>7, <3>1, <3>2, <4>2, <4>3, <4>4, <4>5 DEF TextInv
        <4> QED BY <4>6, <4>7, <4>8 DEF Text
      <3> QED BY <3>5, <3>6, <3>7
    <2> QED BY <2>5, <2>6, <2>7
  <1>14. CASE WaitEnds
    <2>1. runner.pc = "wait" /\ Listens
      BY <1>14 DEF WaitEnds, Listens
    <2>2. CASE EndStep("aborted") /\ uart' = [uart EXCEPT !.local = 0]
      <3>1. runner'.pc \in {"next", "finally"} /\ seen'.consumed = m
        BY <1>5, <2>2, EndedFields DEF EndStep, Noted, RunTypeOK, SeenTypeOK
      <3>2. uart' = [rx |-> x, len |-> l, cursor |-> c, local |-> 0]
        BY <1>5, <2>2
      <3>3. uart'.rx = x /\ uart'.len = l /\ uart'.cursor = c /\ uart'.local = 0 /\ UartTypeOK'
        BY <3>2 DEF UartTypeOK
      <3>4. CursorIsExact'
        BY <1>5, <2>1, <3>1, <3>3 DEF CursorIsExact
      <3>5. TextInv'
        BY <1>5, <1>6, <2>1, <3>1, <3>3 DEF TextInv
      <3> QED BY <3>3, <3>4, <3>5 DEF Text
    <2>3. CASE EndWait(uart, uart.local, "error")
      <3>1. k = l - c /\ k <= l - c
        BY <1>5, <2>1
      <3>2. EndWait([rx |-> x, len |-> l, cursor |-> c, local |-> l - c], k, "error")
        BY <1>5, <2>3, <3>1
      <3> QED BY <1>5, <3>1, <3>2, EndWaitKeepsText
    <2> QED BY <1>14, <2>2, <2>3 DEF WaitEnds
  <1>15. CASE ExpectEnds
    <2>1. uart' = [rx |-> x, len |-> l, cursor |-> l, local |-> k] /\ runner.pc = "expect"
      BY <1>5, <1>15 DEF ExpectEnds
    <2>2. seen'.consumed = x /\ runner'.pc \in {"next", "finally"}
      BY <1>5, <1>15, EndedFields DEF ExpectEnds, Noted, RunTypeOK, SeenTypeOK
    <2>3. /\ uart'.rx = x /\ uart'.len = l /\ uart'.cursor = l /\ uart'.local = 0 /\ UartTypeOK'
          /\ x - l + l = Most(x, x - l)
      BY <1>5, <2>1 DEF UartTypeOK, Most
    <2>4. CursorIsExact'
      BY <2>2, <2>3 DEF CursorIsExact
    <2>5. TextInv'
      BY <1>5, <1>6, <2>2, <2>3 DEF TextInv
    <2> QED BY <2>3, <2>4, <2>5 DEF Text
  <1>16. CASE Armed
    <2>1. runner.pc = "arm" /\ uart' = uart /\ "arm" \in MidStep
      BY <1>16 DEF Armed, MidStep, Doing
    <2>2. seen'.consumed = seen.consumed /\ runner'.pc \in {"cycle", "capture", "next", "finally"}
      BY <1>16, EndedFields DEF Armed, Noted, RunTypeOK, RunnerTypeOK, SeenTypeOK
    <2> QED BY <1>1, <1>2, <2>1, <2>2
  <1>17. CASE CycleOff \/ CycleOn
    <2>1. runner.pc # "wait" /\ runner.pc \in MidStep
      BY <1>17 DEF CycleOff, CycleOn, MidStep, Doing
    <2>2. uart' = uart /\ seen'.consumed = seen.consumed
          /\ runner'.pc \in {"cycle_off", "cycle_on"}
      BY <1>17 DEF CycleOff, CycleOn, Send, RunTypeOK, RunnerTypeOK, SeenTypeOK
    <2> QED BY <1>1, <1>2, <2>1, <2>2
  <1>18. CASE CycleAborted \/ CaptureAborted
    <2>1. runner.pc # "wait" /\ runner.pc \in MidStep /\ uart' = uart /\ EndStep("aborted")
      BY <1>18 DEF CycleAborted, CaptureAborted, MidStep, Doing
    <2> QED BY <1>3, <2>1
  <1>19. CASE CaptureEnds
    <2>1. runner.pc # "wait" /\ runner.pc \in MidStep /\ uart' = uart
      BY <1>19 DEF CaptureEnds, MidStep, Doing
    <2>2. PICK status \in Endings :
            /\ \/ runner' = Ended(runner, status)
               \/ runner' = [Ended(runner, status) EXCEPT !.lost = TRUE]
            /\ seen' = Noted(status)
      BY <1>19 DEF CaptureEnds, EndStep, Endings, Statuses
    <2>3. runner'.pc \in {"next", "finally"}
      BY <2>2, EndedFields
    <2>4. seen'.consumed = seen.consumed
      BY <2>2 DEF Noted, RunTypeOK, SeenTypeOK
    <2> QED BY <1>1, <1>2, <2>1, <2>3, <2>4
  <1>20. CASE Finally \/ CleanUp \/ Complete
    <2>1. runner.pc \in {"finally", "cleanup"} /\ uart' = uart /\ seen' = seen
      BY <1>20 DEF Finally, CleanUp, Complete
    <2>2. runner'.pc \in {"cleanup", "idle"}
      <3>1. CASE Finally
        BY <3>1 DEF Finally, RunTypeOK, RunnerTypeOK
      <3>2. CASE CleanUp
        BY <3>2 DEF CleanUp, RunTypeOK, RunnerTypeOK
      <3>3. CASE Complete
        BY <3>3 DEF Complete, IdleRunner
      <3> QED BY <1>20, <3>1, <3>2, <3>3
    <2> QED BY <1>1, <2>1, <2>2
  <1>21. CASE NextStep \/ SkipStep
    <2>1. runner.pc \in {"next", "begin"} /\ uart' = uart /\ seen' = seen
      BY <1>21 DEF NextStep, SkipStep
    <2>2. runner'.pc \in {"next", "begin", "finally"}
      BY <1>21 DEF NextStep, SkipStep, RunTypeOK, RunnerTypeOK
    <2> QED BY <1>1, <2>1, <2>2
  <1>22. CASE Abort \/ CaptureDropped \/ OtherTask
    <2>1. runner'.pc = runner.pc /\ uart' = uart /\ seen' = seen
      BY <1>22 DEF Abort, CaptureDropped, OtherTask, RunTypeOK, RunnerTypeOK
    <2> QED BY <2>1, TextStill DEF Listens
  <1>23. CASE StartRun
    <2>1. runner.pc = "idle" /\ runner'.pc \in {"next", "finally"}
          /\ uart' = [uart EXCEPT !.len = 0, !.cursor = 0]
          /\ seen' = [NothingSeen EXCEPT !.consumed = x]
      BY <1>5, <1>23 DEF StartRun, IdleRunner
    <2>2. /\ uart' = [rx |-> x, len |-> 0, cursor |-> 0, local |-> 0] /\ seen'.consumed = x
          /\ x - 0 + 0 = Most(x, x - 0)
      <3>1. k = 0
        BY <1>5, <2>1
      <3>2. uart' = [rx |-> x, len |-> 0, cursor |-> 0, local |-> 0]
        BY <1>5, <2>1, <3>1
      <3>3. seen'.consumed = x
        BY <2>1 DEF NothingSeen
      <3> QED BY <3>2, <3>3 DEF Most
    <2>3. uart'.rx = x /\ uart'.len = 0 /\ uart'.cursor = 0 /\ uart'.local = 0 /\ UartTypeOK'
      BY <2>2 DEF UartTypeOK
    <2>4. CursorIsExact'
      BY <2>2, <2>3 DEF CursorIsExact
    <2>5. TextInv'
      BY <1>6, <2>1, <2>2, <2>3 DEF TextInv
    <2> QED BY <2>3, <2>4, <2>5 DEF Text
  <1> QED BY <1>7, <1>8, <1>9, <1>10, <1>11, <1>12, <1>13, <1>14, <1>15, <1>16, <1>17, <1>18,
             <1>19, <1>20, <1>21, <1>22, <1>23
          DEF TestRunNext, RunnerStep

-----------------------------------------------------------------------------
(* The invariant, and what no step does.                                    *)

LEMMA RunInitInv ==
  ASSUME TestRunAssumption, TestRunInit
  PROVE  RunIInv
  <1>1. <<>> \in Seq(StepResults) /\ Len(<<>>) = 0
    BY EmptySeq
  <1>2. runner = IdleRunner /\ seen = NothingSeen
        /\ uart = [rx |-> 0, len |-> 0, cursor |-> 0, local |-> 0]
        /\ bench = [rail |-> "off", pin |-> "in", capture |-> "idle", lock |-> "none",
                    summary |-> NoSummary, runs |-> 0]
    BY DEF TestRunInit
  <1>3. RunnerTypeOK /\ SeenTypeOK /\ UartTypeOK
    BY <1>2, IdleRunnerTyped DEF RunnerTypeOK, SeenTypeOK, UartTypeOK, NothingSeen
  <1>4. NoSummary \in Summaries
    BY <1>1 DEF NoSummary, Summaries
  <1>5. BenchTypeOK
    BY <1>2, <1>4 DEF BenchTypeOK
  <1>6. runner.pc = "idle" /\ runner.at = 0 /\ runner.plan = <<>> /\ runner.capture = FALSE
    BY <1>2 DEF IdleRunner
  <1>7. InPlace /\ Recorded /\ Decided /\ Branching
    BY <1>1, <1>2, <1>6 DEF InPlace, Recorded, Decided, Branching, MidStep, Doing
  <1>8. bench.capture = "idle" /\ ~bench.summary.completed
        /\ seen.driven = {} /\ seen.consumed = 0
    BY <1>2 DEF NoSummary, NothingSeen
  <1>9. InHand /\ LeavesBoardSafe /\ VerdictIsHonest
    BY <1>6, <1>8 DEF InHand, LeavesBoardSafe, VerdictIsHonest, Successful
  <1>10. uart.rx = 0 /\ uart.len = 0 /\ uart.cursor = 0 /\ uart.local = 0
    BY <1>2
  <1>11. BufferLimit \in Nat /\ 0 <= BufferLimit
    BY DEF TestRunAssumption
  <1>12. TextInv /\ CursorIsExact
    BY <1>6, <1>8, <1>10, <1>11 DEF TextInv, CursorIsExact, Listens
  <1> QED BY <1>3, <1>5, <1>7, <1>9, <1>12 DEF RunIInv, RunTypeOK

LEMMA RunStepInv ==
  ASSUME TestRunAssumption, RunIInv, [TestRunNext]_testRunVars
  PROVE  RunIInv'
  <1>1. CASE TestRunNext
    <2>1. Kinds
      BY <1>1, StepsAreOfAKind
    <2>2. Records' /\ VerdictIsHonest'
      BY <2>1, RecordsStep, VerdictStep
    <2>3. Board' /\ Text'
      BY <1>1, BoardStep, TextStep
    <2> QED BY <2>2, <2>3 DEF Records, Board, Text, RunIInv, RunTypeOK
  <1>2. CASE UNCHANGED testRunVars
    <2>1. runner' = runner /\ uart' = uart /\ bench' = bench /\ seen' = seen
      BY <1>2 DEF testRunVars
    <2>2. RunTypeOK'
      BY <2>1 DEF RunIInv, RunTypeOK, RunnerTypeOK, UartTypeOK, BenchTypeOK, SeenTypeOK
    <2>3. InPlace' /\ Recorded' /\ Branching' /\ InHand'
      BY <2>1 DEF RunIInv, InPlace, Recorded, Branching, InHand, BranchOf, Step, Selected
    <2>4. Decided'
      BY <2>1, DecidedCarries DEF RunIInv
    <2>5. TextInv' /\ CursorIsExact' /\ LeavesBoardSafe'
      BY <2>1 DEF RunIInv, TextInv, CursorIsExact, LeavesBoardSafe, Listens
    <2>6. VerdictIsHonest'
      BY <2>1 DEF RunIInv, VerdictIsHonest, Successful
    <2> QED BY <2>2, <2>3, <2>4, <2>5, <2>6 DEF RunIInv
  <1> QED BY <1>1, <1>2

\* The invariant holds of every run, whatever its plan, its answers and its text.
THEOREM RunInvariant == TestRunSpec => []RunIInv
  <1>1. TestRunInit => RunIInv
    BY RunInitInv, TestRunAssumption
  <1>2. RunIInv /\ [TestRunNext]_testRunVars => RunIInv'
    BY RunStepInv, TestRunAssumption
  <1> QED BY <1>1, <1>2, PTL DEF TestRunSpec

\* Whatever fails, is aborted or is lost, a run whose cleanup passed leaves the
\* board safe, a success was one, only selected branches ran, and the cursor of
\* the serial buffer is where the text is consumed to (testRunner.ts).
THEOREM RunSound == TestRunSpec => []RunnerIsSound
  <1>1. RunIInv => RunnerIsSound
    BY TestRunAssumption, BranchesHold DEF RunIInv, RunnerIsSound
  <1> QED BY <1>1, RunInvariant, PTL

LEMMA PowerStep ==
  ASSUME RunIInv, TestRunNext, runner.aborted, bench.rail = "off"
  PROVE  bench'.rail = "off"
  <1> USE DEF RunIInv
  <1>1. runner.pc # "begin"
    BY DEF InHand
  <1>2. ASSUME NEW b, b = Uncaptured(bench, runner) PROVE b.rail = "off"
    BY <1>2 DEF Uncaptured, RunTypeOK, BenchTypeOK
  <1>3. CASE UNCHANGED bench
    BY <1>3
  <1>4. CASE bench' = Uncaptured(bench, runner)
    BY <1>2, <1>4
  <1>5. \A capture : [bench EXCEPT !.capture = capture].rail = "off"
    BY DEF RunTypeOK, BenchTypeOK
  <1>6. CASE CleanUp
    BY <1>6 DEF CleanUp, RunTypeOK, BenchTypeOK
  <1>7. CASE CycleOff
    BY <1>7 DEF CycleOff, Send, RunTypeOK, BenchTypeOK
  <1>8. CASE StartRun \/ Complete \/ OtherTask
    BY <1>8 DEF StartRun, Acquire, Complete, OtherTask, RunTypeOK, BenchTypeOK
  <1>9. CASE Commands \/ BeginSleep \/ BeginWait \/ Disconnected \/ BeginExpect
             \/ BeginCapture \/ SkipStep \/ CycleOn
    BY <1>1, <1>9 DEF Commands, BeginSleep, BeginWait, Disconnected, BeginExpect,
                      BeginCapture, SkipStep, CycleOn, Begins
  <1>10. CASE NextStep \/ Finally
    BY <1>3, <1>10 DEF NextStep, Finally
  <1>11. CASE Answered \/ PowerAnswered \/ SleepEnds \/ WaitEnds \/ ExpectEnds
              \/ CycleAnswered \/ CycleAborted \/ CaptureAborted \/ Abort
    BY <1>3, <1>4, <1>11 DEF Answered, PowerAnswered, SleepEnds, WaitEnds, ExpectEnds,
         CycleAnswered, CycleAborted, CaptureAborted, Abort, EndStep, EndWait
  <1>12. CASE Receive
    BY <1>3, <1>4, <1>12 DEF Receive, EndWait
  <1>13. CASE Armed \/ CaptureDropped
    BY <1>5, <1>13 DEF Armed, CaptureDropped
  <1>14. CASE CaptureEnds
    BY <1>4, <1>5, <1>14 DEF CaptureEnds, EndStep
  <1> QED BY <1>6, <1>7, <1>8, <1>9, <1>10, <1>11, <1>12, <1>13, <1>14
          DEF TestRunNext, RunnerStep

\* A chunk that arrives in a wait: the wait has in its text what the buffer has
\* not consumed, also when both are cut.
LEMMA WaitGoesOn ==
  ASSUME TestRunAssumption, RunIInv, runner.pc = "wait"
  PROVE  \E r \in Nat, a \in Nat, b \in Nat, o \in Nat :
           /\ Appended(uart) = [rx |-> r, len |-> a, cursor |-> b, local |-> o]
           /\ b <= a /\ Least(uart.local + 1, BufferLimit) = a - b
           /\ r - (a - b) = Most(seen.consumed, r - BufferLimit)
  <1>1. PICK x \in Nat, l \in Nat, c \in Nat, k \in Nat, m \in Nat :
          /\ uart = [rx |-> x, len |-> l, cursor |-> c, local |-> k] /\ seen.consumed = m
          /\ Aligned(x, l, c, m) /\ k = l - c
    BY UartFields DEF Listens
  <1>2. PICK a \in Nat, b \in Nat :
          /\ Appended(uart) = Buffer(x + 1, a, b, k)
          /\ Aligned(x + 1, a, b, m) /\ Least(l - c + 1, BufferLimit) = a - b
    <2>1. uart = Buffer(x, l, c, k) /\ Aligned(x, l, c, m)
      BY <1>1 DEF Buffer
    <2> QED BY <2>1, AppendKeepsCursor
  <1>3. PICK y \in Nat : y = x + 1
    BY <1>1
  <1>4. Aligned(y, a, b, m) /\ Appended(uart) = [rx |-> y, len |-> a, cursor |-> b, local |-> k]
    BY <1>2, <1>3 DEF Buffer
  <1>5. b <= a /\ y - (a - b) = Most(seen.consumed, y - BufferLimit)
    <2>1. b <= a
      BY <1>4 DEF Aligned
    <2>2. y - (a - b) = Most(m, y - BufferLimit)
      BY <1>4, UnreadIs
    <2> QED BY <1>1, <2>1, <2>2
  <1>6. Least(uart.local + 1, BufferLimit) = a - b
    BY <1>1, <1>2
  <1> QED BY <1>4, <1>5, <1>6

NewResult(status) ==
  /\ Len(runner'.results) > Len(runner.results)
  /\ runner'.results[Len(runner'.results)].status = status

\* A step of a wait that ends is the end of a search.
LEMMA EndedWaitResult ==
  ASSUME TestRunAssumption, RunIInv, NEW status \in Endings, NEW said, NewResult(said),
         runner'.results = Ended(runner, status).results
  PROVE  said = Verdict(status)
  <1> DEFINE result == [at |-> runner.at, skip |-> FALSE, status |-> Verdict(status)]
  <1>1. runner'.results = Append(runner.results, result)
    BY DEF Ended, RunIInv, RunTypeOK, RunnerTypeOK
  <1>2. result \in StepResults /\ runner.results \in Seq(StepResults)
    BY PlanTyped DEF StepResults, Verdict, Endings, Statuses, RunIInv, RunTypeOK
  <1> HIDE DEF result
  <1>3. Append(runner.results, result)[Len(Append(runner.results, result))] = result
    BY <1>2, AppendProperties
  <1>4. said = result.status
    BY <1>1, <1>3 DEF NewResult
  <1> QED BY <1>4 DEF result

\* The text that is not consumed: of what came, as much as the buffer holds.
Unread == {h \in Hits : h > Most(seen.consumed, uart'.rx - BufferLimit) /\ h <= uart'.rx}

\* A search that finds a match in its n chunks finds the first of them.
LEMMA FirstIsSeen ==
  ASSUME TestRunAssumption, RunTypeOK, NEW x \in Nat, NEW n \in Nat, NEW u, NEW status,
         u.rx = x, u.local = n, MatchEnd(u, n) > 0, EndWait(u, MatchEnd(u, n), status),
         uart'.rx = x, x - n = Most(seen.consumed, x - BufferLimit)
  PROVE  seen'.consumed \in Unread /\ \A h \in Unread : seen'.consumed <= h
  <1>1. PICK i \in 1..n : /\ i = MatchEnd(u, n) /\ x - n + i \in Hits
                          /\ \A j \in 1..n : x - n + j \in Hits => i <= j
    <2>1. MatchEnd(u, n) # 0 /\ u.rx \in Nat
      OBVIOUS
    <2>2. /\ MatchEnd(u, n) \in 1..n /\ u.rx - n + MatchEnd(u, n) \in Hits
          /\ \A j \in 1..n : u.rx - n + j \in Hits => MatchEnd(u, n) <= j
      BY <2>1, MatchEndIsFirst, Zenon
    <2> QED BY <2>2
  <1>2. seen'.consumed = x - n + i
    BY <1>1 DEF EndWait, Noted, RunTypeOK, SeenTypeOK
  <1>3. Hits \subseteq Nat
    BY DEF TestRunAssumption
  <1>4. seen'.consumed \in Unread
    BY <1>1, <1>2, <1>3 DEF Unread
  <1>5. ASSUME NEW h \in Unread PROVE x - n + i <= h
    <2>1. h \in Nat /\ x - n < h /\ h <= x /\ h \in Hits
      BY <1>3 DEF Unread
    <2>2. PICK j \in 1..n : j = h - (x - n)
      BY <2>1
    <2>3. x - n + j = h
      BY <2>1, <2>2
    <2>4. i <= j
      BY <1>1, <2>1, <2>3
    <2> QED BY <2>1, <2>2, <2>4
  <1> QED BY <1>2, <1>4, <1>5

LEMMA WaitStep ==
  ASSUME TestRunAssumption, RunIInv, TestRunNext, NEW status \in {"pass", "error"},
         runner.pc \in {"begin", "wait"}, Step.op = "wait", NewResult(status), ~Disconnected
  PROVE  IF status = "error" THEN Unread = {}
         ELSE seen'.consumed \in Unread /\ \A h \in Unread : seen'.consumed <= h
  <1> USE DEF RunIInv
  <1>1. runner'.results # runner.results
    BY PlanTyped DEF NewResult, RunTypeOK
  <1>2. PICK x \in Nat, l \in Nat, c \in Nat, k \in Nat, m \in Nat :
          /\ uart = [rx |-> x, len |-> l, cursor |-> c, local |-> k] /\ seen.consumed = m
          /\ l <= BufferLimit /\ l <= x /\ c <= l /\ k <= BufferLimit /\ k <= x /\ m <= x
          /\ runner.pc # "wait" => k = 0
          /\ Listens => Aligned(x, l, c, m)
          /\ runner.pc = "wait" =>
               k = l - c /\ \A h \in Hits : ~(x - k < h /\ h <= x)
    BY UartFields
  <1>3. Listens
    BY DEF Listens
  <1>4. x - (l - c) = Most(m, x - BufferLimit)
    <2>1. Aligned(x, l, c, m)
      BY <1>2, <1>3
    <2> QED BY <2>1, UnreadIs
  <1>5. CASE BeginWait
    <2>1. PICK n \in Nat : n = l - c
      BY <1>2
    <2> DEFINE u == [rx |-> x, len |-> l, cursor |-> c, local |-> n]
    <2>2. uart.len - uart.cursor = n /\ [uart EXCEPT !.local = n] = u
      BY <1>2, <2>1
    <2>3. u.rx = x /\ u.local = n
      OBVIOUS
    <2> HIDE DEF u
    <2>4. CASE MatchEnd(u, n) > 0 /\ EndWait(u, MatchEnd(u, n), "pass")
      <3>1. uart'.rx = x
        BY <2>4 DEF EndWait, Consumed, u
      <3>2. x - n = Most(seen.consumed, x - BufferLimit)
        BY <1>2, <1>4, <2>1
      <3>3. status = "pass"
        <4>1. runner'.results = Ended(runner, "pass").results /\ "pass" \in Endings
          BY <2>4 DEF EndWait, Endings, Statuses
        <4> QED BY <4>1, EndedWaitResult DEF Verdict
      <3> QED BY <2>3, <2>4, <3>1, <3>2, <3>3, FirstIsSeen
    <2>5. CASE runner' = [runner EXCEPT !.pc = "wait"]
      BY <1>1, <2>5 DEF RunTypeOK, RunnerTypeOK
    <2> QED BY <1>5, <2>2, <2>4, <2>5 DEF BeginWait
  <1>6. CASE Receive
    <2>1. runner' # runner
      BY <1>1
    <2>2. runner.pc = "wait"
      BY <1>6, <2>1 DEF Receive
    <2>3. PICK y \in Nat, l2 \in Nat, c2 \in Nat, o \in Nat :
            /\ Appended(uart) = [rx |-> y, len |-> l2, cursor |-> c2, local |-> o]
            /\ c2 <= l2 /\ Least(uart.local + 1, BufferLimit) = l2 - c2
            /\ y - (l2 - c2) = Most(seen.consumed, y - BufferLimit)
      BY <2>2, WaitGoesOn
    <2>4. PICK n \in Nat : n = l2 - c2
      BY <2>3
    <2>5. n = Least(uart.local + 1, BufferLimit) /\ y - n = Most(seen.consumed, y - BufferLimit)
      BY <2>3, <2>4
    <2> DEFINE v == [rx |-> y, len |-> l2, cursor |-> c2, local |-> n]
    <2>6. [Appended(uart) EXCEPT !.local = n] = v /\ v.rx = y /\ v.local = n
      <3>1. PICK a : a = Appended(uart)
        OBVIOUS
      <3>2. a = [rx |-> y, len |-> l2, cursor |-> c2, local |-> o]
        BY <2>3, <3>1
      <3>3. [a EXCEPT !.local = n] = v
        BY <3>2
      <3> QED BY <3>1, <3>3
    <2> HIDE DEF v
    <2>7. MatchEnd(v, n) > 0 /\ EndWait(v, MatchEnd(v, n), "pass")
      BY <1>3, <1>6, <2>1, <2>2, <2>5, <2>6 DEF Receive, Listens
    <2>8. uart'.rx = y
      BY <2>7 DEF EndWait, Consumed, v
    <2>9. status = "pass"
      <3>1. runner'.results = Ended(runner, "pass").results /\ "pass" \in Endings
        BY <2>7 DEF EndWait, Endings, Statuses
      <3> QED BY <3>1, EndedWaitResult DEF Verdict
    <2>10. seen'.consumed \in Unread /\ \A h \in Unread : seen'.consumed <= h
      BY <2>5, <2>6, <2>7, <2>8, FirstIsSeen
    <2> QED BY <2>9, <2>10
  <1>7. CASE WaitEnds
    <2>1. runner.pc = "wait"
      BY <1>7 DEF WaitEnds
    <2>2. "aborted" \in Endings /\ "error" \in Endings
      BY DEF Endings, Statuses
    <2>3. ~EndStep("aborted")
      <3> SUFFICES ASSUME EndStep("aborted") PROVE FALSE
        OBVIOUS
      <3>1. status = Verdict("aborted")
        BY <2>2, EndedWaitResult DEF EndStep
      <3> QED BY <3>1 DEF Verdict
    <2>4. EndWait(uart, uart.local, "error")
      BY <1>7, <2>3 DEF WaitEnds
    <2>5. status = "error"
      <3>1. status = Verdict("error")
        BY <2>2, <2>4, EndedWaitResult DEF EndWait
      <3> QED BY <3>1 DEF Verdict
    <2>6. uart'.rx = x
      BY <1>2, <2>4 DEF EndWait, Consumed
    <2>7. x - k = Most(seen.consumed, x - BufferLimit)
      BY <1>2, <1>4, <2>1
    <2>8. Unread = {}
      <3> SUFFICES ASSUME NEW h \in Unread PROVE FALSE
        OBVIOUS
      <3>1. h \in Hits /\ h > x - k /\ h <= x /\ h \in Nat
        BY <2>6, <2>7 DEF Unread, TestRunAssumption
      <3> QED BY <1>2, <2>1, <3>1
    <2> QED BY <2>5, <2>8
  <1>8. CASE UNCHANGED runner
    BY <1>1, <1>8
  <1>9. CASE CaptureDropped \/ OtherTask
    BY <1>8, <1>9 DEF CaptureDropped, OtherTask
  <1>10. CASE Abort \/ BeginSleep \/ BeginExpect \/ BeginCapture \/ Commands
    BY <1>1, <1>10 DEF Abort, BeginSleep, BeginExpect, BeginCapture, Commands, Send,
                       RunTypeOK, RunnerTypeOK
  <1>11. CASE SkipStep
    <2> DEFINE result == [at |-> runner.at, skip |-> TRUE, status |-> "skip"]
    <2>1. runner'.results = Append(runner.results, result)
      BY <1>11 DEF SkipStep, RunTypeOK, RunnerTypeOK
    <2>2. result \in StepResults /\ runner.results \in Seq(StepResults)
          /\ result.status = "skip"
      BY PlanTyped DEF StepResults, Statuses, RunTypeOK
    <2> HIDE DEF result
    <2>3. Append(runner.results, result)[Len(Append(runner.results, result))] = result
      BY <2>2, AppendProperties
    <2>4. status = "skip"
      BY <2>1, <2>2, <2>3 DEF NewResult
    <2> QED BY <2>4
  <1>12. CASE NextStep \/ Answered \/ PowerAnswered \/ SleepEnds \/ ExpectEnds \/ Armed
              \/ CycleOff \/ CycleAnswered \/ CycleOn \/ CycleAborted \/ CaptureEnds
              \/ CaptureAborted \/ Finally \/ CleanUp \/ Complete \/ StartRun
    BY <1>12 DEF NextStep, Answered, PowerAnswered, SleepEnds, ExpectEnds, Armed, CycleOff,
                 CycleAnswered, CycleOn, CycleAborted, CaptureEnds, CaptureAborted,
                 Finally, CleanUp, Complete, StartRun
  <1> QED BY <1>5, <1>6, <1>7, <1>9, <1>10, <1>11, <1>12 DEF TestRunNext, RunnerStep

\* A wait passes on the first match that nobody consumed and times out only if
\* there is none (waitForPattern); an aborted run never switches a rail on.
THEOREM RunSafe == TestRunSpec => RunnerStepsSafely
  <1>1. RunIInv /\ [TestRunNext]_testRunVars =>
          [runner.aborted /\ bench.rail = "off" => bench'.rail = "off"]_testRunVars
    BY PowerStep
  <1>2. RunIInv /\ [TestRunNext]_testRunVars =>
          [\A status \in {"pass", "error"} :
             /\ runner.pc \in {"begin", "wait"} /\ Step.op = "wait"
             /\ Len(runner'.results) > Len(runner.results)
             /\ runner'.results[Len(runner'.results)].status = status
             /\ ~Disconnected
             => LET unread == {h \in Hits : h > Most(seen.consumed, uart'.rx - BufferLimit)
                                            /\ h <= uart'.rx}
                IN IF status = "error" THEN unread = {}
                   ELSE seen'.consumed \in unread /\ \A h \in unread : seen'.consumed <= h
          ]_testRunVars
    <2> SUFFICES ASSUME RunIInv, [TestRunNext]_testRunVars
                 PROVE  [\A status \in {"pass", "error"} :
                           /\ runner.pc \in {"begin", "wait"} /\ Step.op = "wait"
                           /\ NewResult(status) /\ ~Disconnected
                           => IF status = "error" THEN Unread = {}
                              ELSE /\ seen'.consumed \in Unread
                                   /\ \A h \in Unread : seen'.consumed <= h]_testRunVars
      BY DEF NewResult, Unread
    <2>1. CASE UNCHANGED testRunVars
      BY <2>1
    <2>2. CASE TestRunNext
      BY <2>2, WaitStep, TestRunAssumption
    <2> QED BY <2>1, <2>2
  <1> QED BY <1>1, <1>2, RunInvariant, PTL
          DEF TestRunSpec, RunnerStepsSafely, WaitsSeeUnread, AbortNeverPowers
=============================================================================
