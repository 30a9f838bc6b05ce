------------------------------ MODULE Workflow ------------------------------
(***************************************************************************)
(* The workflow editor (WorkflowComposer.tsx and components/workflow/): the*)
(* script under edit, its undo history, the templates of custom units, the *)
(* import of a file.  What is selected is abstracted: an operation takes   *)
(* any item, or any run of items, the user may have selected.              *)
(***************************************************************************)
EXTENDS TestScript

CONSTANTS
  MaxHistory,  \* MAX_HISTORY
  MaxEdits,    \* bound: the operations that add to the history
  MaxItems,    \* bound: the items of the script, and of a container
  Palette,     \* bound: the types of the steps the user adds or picks
  ImportFiles  \* bound: the scripts the files to import hold

ASSUME WorkflowAssumption ==
  /\ MaxHistory \in Nat \ {0} /\ MaxEdits \in Nat /\ Palette \subseteq StepTypes
  /\ \A f \in ImportFiles : Parses(f, TRUE)

(* The state:
     script   the script of the editor
     past, future  the lists of useWorkflowHistory
     units    the templates of custom units: the steps of each (their ids are
              never used: a template is cloned)
     reading  <<the script when the file was picked>>, or <<>>
     nextId   the ids generated so far are below it
     edits    the operations that pushed a snapshot *)
VARIABLES script, past, future, units, reading, nextId, edits

workflowVars == <<script, past, future, units, reading, nextId, edits>>

History == INSTANCE WorkflowHistory WITH current <- script, Snapshot <- Scripts

WorkflowInit ==
  /\ script = <<>> /\ past = <<>> /\ future = <<>>
  /\ units = <<>> /\ reading = <<>> /\ nextId = 1 /\ edits = 0

-----------------------------------------------------------------------------
(* Fresh ids: cloneStep, cloneNestedItem, cloneItem, unitFromTemplate.      *)

NewStep(type, id) == [kind |-> "step", id |-> id, type |-> type, set |-> TRUE]
CloneSteps(steps, id) == [i \in DOMAIN steps |-> [steps[i] EXCEPT !.id = id + i - 1]]
UnitFrom(template, id) ==
  [kind |-> "unit", id |-> id, name |-> "plain", kids |-> CloneSteps(template, id + 1)]

Size(item) == IF item.kind = "unit" THEN 1 + Len(item.kids) ELSE 1
SizeOf(items) == FoldSeq(LAMBDA k, n : n + Size(k), 0, items)

CloneNested(item, id) ==
  IF item.kind = "unit" THEN [item EXCEPT !.id = id, !.kids = CloneSteps(@, id + 1)]
  ELSE [item EXCEPT !.id = id]
CloneKids(items, id) ==
  [i \in DOMAIN items |-> CloneNested(items[i], id + SizeOf(SubSeq(items, 1, i - 1)))]

\* Mutant of Clone: a condition is cloned with the branches of the original.
CloneShallow(item, id) ==
  CASE item.kind = "loop" -> [item EXCEPT !.id = id, !.kids = CloneKids(@, id + 1)]
    [] item.kind = "cond" -> [item EXCEPT !.id = id, !.check.id = id + 1]
    [] OTHER -> CloneNested(item, id)

Clone(item, id) ==
  CASE item.kind = "loop" -> [item EXCEPT !.id = id, !.kids = CloneKids(@, id + 1)]
    [] item.kind = "cond" ->
         [item EXCEPT !.id = id, !.check.id = id + 1,
                      !.then = CloneKids(@, id + 2),
                      !.else = CloneKids(@, id + 2 + SizeOf(item.then))]
    [] OTHER -> CloneNested(item, id)

\* flattenGroupItems: the steps of the selected items, units opened
FlatSteps(items) ==
  Concat([i \in DOMAIN items |-> IF items[i].kind = "unit" THEN items[i].kids
                                 ELSE <<items[i]>>])

-----------------------------------------------------------------------------
(* commitSteps: a change is refused only when its plan would exceed the     *)
(* limit; a workflow that breaks another rule is a draft.                   *)

\* Mutant of Commit: what was undone can still be redone.
CommitKeepsRedo(steps) ==
  /\ edits < MaxEdits
  /\ BuildPlan(steps).why # "limit"
  /\ past' = History!Pushed(past, script) /\ future' = future /\ script' = steps
  /\ edits' = edits + 1

Commit(steps) ==
  /\ edits < MaxEdits
  /\ BuildPlan(steps).why # "limit"
  /\ past' = History!Pushed(past, script) /\ future' = <<>> /\ script' = steps
  /\ edits' = edits + 1

\* a commit that adds fresh items, whose ids are below next
CommitNew(steps, next) == Commit(steps) /\ nextId' = next /\ UNCHANGED <<units, reading>>
CommitOld(steps) == Commit(steps) /\ UNCHANGED <<units, reading, nextId>>

Places == 1..(Len(script) + 1)
Room == Len(script) < MaxItems

AddStep == \E type \in Palette, at \in Places :
  /\ Room
  /\ Len(BuildPlan(script).plan) < MaxSteps
  /\ CommitNew(InsertAt(script, at, NewStep(type, nextId)), nextId + 1)

AddLoop == \E at \in Places :
  /\ Room
  /\ CommitNew(InsertAt(script, at, [kind |-> "loop", id |-> nextId, count |-> 2,
                 kids |-> <<NewStep("other", nextId + 1)>>]), nextId + 2)

AddCondition == \E at \in Places :
  /\ Room
  /\ CommitNew(InsertAt(script, at, [kind |-> "cond", id |-> nextId,
                 check |-> NewStep("expect", nextId + 1),
                 then |-> <<NewStep("other", nextId + 2)>>, else |-> <<>>]), nextId + 3)

AddUnit == \E at \in Places, u \in DOMAIN units :
  /\ Room
  /\ CommitNew(InsertAt(script, at, UnitFrom(units[u], nextId)),
               nextId + 1 + Len(units[u]))

DeleteUnit == \E u \in DOMAIN units :
  /\ units' = SubSeq(units, 1, u - 1) \o SubSeq(units, u + 1, Len(units))
  /\ UNCHANGED <<script, past, future, reading, nextId, edits>>

Without(s, i) == SubSeq(s, 1, i - 1) \o SubSeq(s, i + 1, Len(s))

\* moveItem, and the drop of an item between two others
MoveItem == \E from \in DOMAIN script, to \in DOMAIN script :
  from # to /\ CommitOld(InsertAt(Without(script, from), to, script[from]))

DeleteItem == \E i \in DOMAIN script : CommitOld(Without(script, i))

DuplicateItem == \E i \in DOMAIN script :
  /\ Room
  /\ CommitNew(InsertAt(script, i + 1, Clone(script[i], nextId)),
               nextId + 1 + Cardinality(IdsOf(script[i])))

(* createGroup: the selected items, all steps or units and next to each     *)
(* other, become a loop or a unit; a unit is kept as a template as well.    *)
CreateGroup == \E kind \in {"loop", "unit"}, a, b \in DOMAIN script :
  LET steps == CloneSteps(FlatSteps(SubSeq(script, a, b)), nextId + 1)
      next  == nextId + 1 + Len(steps)
      group == IF kind = "unit"
               THEN [kind |-> "unit", id |-> nextId, name |-> "plain", kids |-> steps]
               ELSE [kind |-> "loop", id |-> nextId, count |-> 2, kids |-> steps]
  IN /\ a <= b
     /\ \A i \in a..b : script[i].kind \in {"step", "unit"}
     /\ Commit(SubSeq(script, 1, a - 1) \o <<group>> \o SubSeq(script, b + 1, Len(script)))
     /\ nextId' = next
     /\ units' = IF kind = "unit" THEN Append(units, CloneSteps(steps, 0)) ELSE units
     /\ UNCHANGED reading

Ungroup == \E i \in DOMAIN script :
  /\ script[i].kind \in {"loop", "unit"}
  /\ CommitOld(SubSeq(script, 1, i - 1) \o script[i].kids
                 \o SubSeq(script, i + 1, Len(script)))

(* The drop of an item into a container: a new step, a template, or an item *)
(* of the script, which moves.                                              *)
Branches == {"kids", "then", "else"}
NestDrop == \E c \in DOMAIN script, branch \in Branches :
  LET drop(item, source) == Nest(script, item, script[c].id, branch, source)
  IN \/ \E type \in Palette :
          /\ drop(NewStep(type, nextId), 0) # Refused
          /\ CommitNew(drop(NewStep(type, nextId), 0), nextId + 1)
     \/ \E u \in DOMAIN units :
          /\ drop(UnitFrom(units[u], nextId), 0) # Refused
          /\ CommitNew(drop(UnitFrom(units[u], nextId), 0), nextId + 1 + Len(units[u]))
     \/ \E s \in DOMAIN script :
          /\ script[s].kind \in {"step", "unit"}
          /\ drop(script[s], script[s].id) # Refused
          /\ CommitOld(drop(script[s], script[s].id))

RemoveItem == \E c \in DOMAIN script, branch \in Branches :
  /\ HasBranch(script[c], branch)
  /\ \E k \in ToSet(script[c][branch]) :
       CommitOld(RemoveNested(script, script[c].id, branch, k.id))

-----------------------------------------------------------------------------
(* The inspector: what one change of a field makes of an item.              *)

StepEdits(s) == {[s EXCEPT !.set = ~@]} \cup
                {[s EXCEPT !.type = t, !.set = (t # "adc")] : t \in Palette \ {s.type}}
KidEdits(kids) ==
  UNION {{[kids EXCEPT ![i] = e] :
            e \in IF kids[i].kind = "unit"
                  THEN {[kids[i] EXCEPT !.name = n] : n \in UnitNames \ {kids[i].name}}
                  ELSE {[kids[i] EXCEPT !.set = ~@]}} : i \in DOMAIN kids}
BranchEdits(kids) == KidEdits(kids) \cup {Without(kids, i) : i \in DOMAIN kids}
Edits(item) ==
  CASE item.kind = "step" -> StepEdits(item)
    [] item.kind = "unit" ->
         {[item EXCEPT !.name = n] : n \in UnitNames \ {item.name}}
           \cup {[item EXCEPT !.kids = k] : k \in KidEdits(item.kids)}
    [] item.kind = "loop" ->
         {[item EXCEPT !.count = n] : n \in (1..MaxLoop) \ {item.count}}
           \cup {[item EXCEPT !.kids = k] : k \in KidEdits(item.kids)}
    [] item.kind = "cond" ->
         {[item EXCEPT !.check = s] :
            s \in {s \in StepEdits(item.check) : s.type \in CheckTypes}}
           \cup {[item EXCEPT !.then = k] : k \in BranchEdits(item.then)}
           \cup {[item EXCEPT !.else = k] : k \in BranchEdits(item.else)}

UpdateItem == \E i \in DOMAIN script : \E e \in Edits(script[i]) :
  CommitOld([script EXCEPT ![i] = e])

-----------------------------------------------------------------------------
(* History, import, a new workflow, and the tabs.                           *)

Undo == History!Undo /\ UNCHANGED <<units, reading, nextId, edits>>
Redo == History!Redo /\ UNCHANGED <<units, reading, nextId, edits>>

PickFile ==
  /\ reading = <<>> /\ edits < MaxEdits
  /\ reading' = <<script>>
  /\ UNCHANGED <<script, past, future, units, nextId, edits>>

(* The file has been read: the snapshot pushed is the script of the render  *)
(* the file was picked in.                                                  *)
Import == \E file \in ImportFiles :
  /\ reading # <<>>
  /\ script' = Reloaded(file)
  /\ past' = History!Pushed(past, reading[1]) /\ future' = <<>>
  /\ reading' = <<>> /\ edits' = edits + 1
  /\ UNCHANGED <<units, nextId>>

NewWorkflow ==
  /\ script # <<>>
  /\ script' = <<>>
  /\ UNCHANGED <<past, future, units, reading, nextId, edits>>

LeaveEditor ==
  /\ past \o future # <<>> /\ reading = <<>>
  /\ past' = <<>> /\ future' = <<>>
  /\ UNCHANGED <<script, units, reading, nextId, edits>>

\* The page is loaded again: the script is the stored draft, or a new one.
LoadPage ==
  /\ past \o future # <<>>
  /\ script' = IF Parses(script, FALSE) THEN Reloaded(script) ELSE <<>>
  /\ past' = <<>> /\ future' = <<>> /\ reading' = <<>>
  /\ UNCHANGED <<units, nextId, edits>>

WorkflowNext ==
  \/ AddStep \/ AddLoop \/ AddCondition \/ AddUnit \/ DeleteUnit \/ MoveItem
  \/ DeleteItem \/ DuplicateItem \/ CreateGroup \/ Ungroup \/ NestDrop \/ RemoveItem \/ UpdateItem
  \/ Undo \/ Redo \/ PickFile \/ Import \/ NewWorkflow \/ LeaveEditor \/ LoadPage

WorkflowSpec == WorkflowInit /\ [][WorkflowNext]_workflowVars

-----------------------------------------------------------------------------
\* No two items of a script have the same id, whatever was cloned, nested,
\* grouped, undone or imported (cloneItem, nestItemInScript, flattenGroupItems).
IdsUnique ==
  /\ \A i, j \in DOMAIN script : i # j => IdsOf(script[i]) \cap IdsOf(script[j]) = {}
  /\ \A i \in DOMAIN script :
       LET item == script[i]
           inside == CASE item.kind = "cond" -> <<item.check>> \o item.then \o item.else
                       [] item.kind = "step" -> <<>>
                       [] OTHER -> item.kids
       IN Cardinality(IdsOf(item)) = 1 + SizeOf(inside)

\* The script never has a plan longer than the limit (commitSteps, undo, redo,
\* parseTestScript of an import).
PlanFits == BuildPlan(script).why # "limit"

Named(s) == \A i \in DOMAIN s :
  \A k \in {s[i]} \cup CASE s[i].kind = "loop" -> ToSet(s[i].kids)
                         [] s[i].kind = "cond" -> ToSet(s[i].then) \cup ToSet(s[i].else)
                         [] OTHER -> {} :
    k.kind = "unit" => k.name # "blank"

\* A draft is read back as it is, but for the white space of its unit names,
\* and one with a plan can be run, once every unit has a name
\* (persistTestScript and loadStoredTestScript, startRun).
DraftSurvives == Named(script) =>
  /\ Parses(script, FALSE)
  /\ BuildPlan(script).ok => Parses(script, TRUE) /\ BuildPlan(Reloaded(script)).ok

\* The plan holds every command of the workflow: once, or once a round
\* (buildExecutionPlan, countScriptCommands).
PlanIsComplete == BuildPlan(script).ok =>
  LET plan == BuildPlan(script).plan
      loops == {i \in DOMAIN script : script[i].kind = "loop"}
      rounds(i) == (script[i].count - 1) * CountNested(script[i].kids)
  IN /\ Len(plan) = CountCommands(script) + FoldSet(LAMBDA i, n : n + rounds(i), 0, loops)
     /\ Cardinality({plan[i].exec : i \in DOMAIN plan}) = Len(plan)

\* Moving, nesting, grouping and ungrouping keep the number of commands of the
\* workflow (moveItem, handleNestedItemDrop, createGroup, ungroupSelected).
RearrangingKeepsCommands ==
  [][MoveItem \/ CreateGroup \/ Ungroup \/ (NestDrop /\ nextId' = nextId)
       => CountCommands(script') = CountCommands(script)]_workflowVars

\* The editor keeps its history as useWorkflowHistory promises.
ImplementsHistory == History!HistorySpec

\* What holds of the script after every edit: its ids, its plan and its draft.
ScriptIsSound == IdsUnique /\ PlanFits /\ DraftSurvives /\ PlanIsComplete
=============================================================================
