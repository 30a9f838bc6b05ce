----------------------------- MODULE TestScript -----------------------------
(***************************************************************************)
(* Test scripts (lib/testScript.ts): what the rules of a workflow are, how *)
(* it is expanded into an execution plan, how items are nested, and how a  *)
(* script is read back from the draft it is stored as.  Constant level:    *)
(* the editor (Workflow) applies these operators.                          *)
(*                                                                         *)
(* A step keeps its type and whether its pattern, or the assertion of an   *)
(* adc_read, is there ("set"); the name of a unit is "blank", "padded"     *)
(* with white space or "plain".  An execution id, in the code a string of  *)
(* the step's id and the ids around it, is a tuple of them.                *)
(***************************************************************************)
EXTENDS Integers, Sequences, SequencesExt, FiniteSetsExt

CONSTANTS
  MaxSteps,  \* MAX_EXECUTION_STEPS
  MaxLoop    \* MAX_LOOP_COUNT

ASSUME ScriptAssumption == MaxSteps \in Nat /\ MaxLoop \in Nat \ {0}

StepTypes  == {"wait", "expect", "adc", "other"}
CheckTypes == {"expect", "adc"}
UnitNames  == {"blank", "padded", "plain"}

Steps == [kind : {"step"}, id : Nat, type : StepTypes, set : BOOLEAN]
Units == [kind : {"unit"}, id : Nat, name : UnitNames, kids : Seq(Steps)]
Nested == Steps \cup Units
Loops == [kind : {"loop"}, id : Nat, count : Nat, kids : Seq(Nested)]
Conditions == [kind : {"cond"}, id : Nat, check : Steps, then : Seq(Nested),
               else : Seq(Nested)]
Scripts == Seq(Nested \cup Loops \cup Conditions)

Concat(seqs) == FlattenSeq(seqs)

\* every id of an item: its own and those nested in it
IdsOf(item) ==
  LET kids(k) == {k.id} \cup IF k.kind = "unit" THEN {s.id : s \in ToSet(k.kids)}
                                                ELSE {}
      inside == CASE item.kind = "loop" -> ToSet(item.kids)
                  [] item.kind = "cond" -> {item.check} \cup ToSet(item.then)
                                                        \cup ToSet(item.else)
                  [] OTHER -> {item}
  IN {item.id} \cup UNION {kids(k) : k \in inside}

-----------------------------------------------------------------------------
(* buildExecutionPlan.  Expanding an item yields, in order, the steps it    *)
(* appends and the errors it would throw; the first error decides.          *)

Error == [error |-> TRUE]
ErrorIf(wrong) == IF wrong THEN <<Error>> ELSE <<>>

NoPattern(step) == step.type = "wait" /\ ~step.set
BadCheck(step) == step.type \notin CheckTypes \/ ~step.set
Repeats(kids) == \E i, j \in DOMAIN kids : i # j /\ kids[i].id = kids[j].id

Primitive(step, suffix, role) ==
  <<[error |-> FALSE, exec |-> <<step.id>> \o suffix, source |-> step.id,
     role |-> role]>>

ExpandUnit(unit, suffix, role) ==
  ErrorIf(unit.kids = <<>>) \o ErrorIf(Repeats(unit.kids)) \o
  Concat([i \in DOMAIN unit.kids |->
    ErrorIf(NoPattern(unit.kids[i])) \o
    Primitive(unit.kids[i], <<unit.id, 1>> \o suffix, role)])

ExpandNested(item, suffix, role) ==
  IF item.kind = "unit" THEN ExpandUnit(item, suffix, role)
  ELSE ErrorIf(NoPattern(item)) \o Primitive(item, suffix, role)

ExpandAll(items, suffix, role) ==
  Concat([i \in DOMAIN items |-> ExpandNested(items[i], suffix, role)])

ExpandCondition(c) ==
  ErrorIf(BadCheck(c.check)) \o ErrorIf(Repeats(<<c.check>> \o c.then \o c.else)) \o
  Primitive(c.check, <<c.id, "check">>, "check") \o
  ExpandAll(c.then, <<c.id, "then">>, "then") \o
  ExpandAll(c.else, <<c.id, "else">>, "else")

ExpandLoop(l) ==
  ErrorIf(l.count \notin 1..MaxLoop) \o ErrorIf(l.kids = <<>>) \o
  ErrorIf(Repeats(l.kids)) \o
  Concat([n \in 1..l.count |-> ExpandAll(l.kids, <<l.id, n>>, "none")])

Expand(item) ==
  CASE item.kind = "step" -> ErrorIf(NoPattern(item)) \o Primitive(item, <<>>, "none")
    [] item.kind = "unit" -> ExpandUnit(item, <<>>, "none")
    [] item.kind = "loop" -> ExpandLoop(item)
    [] item.kind = "cond" -> ExpandCondition(item)

\* The plan, or why there is none: "limit" or "rule", whichever is met first.
BuildPlan(script) ==
  LET trace == Concat([i \in DOMAIN script |->
                 ErrorIf(\E j \in 1..(i - 1) : script[j].id = script[i].id)
                 \o Expand(script[i])])
      again(i) == /\ ~trace[i].error
                  /\ \E j \in 1..(i - 1) : ~trace[j].error /\ trace[j].exec = trace[i].exec
      wrong == {i \in DOMAIN trace : trace[i].error \/ again(i)}
      good  == IF wrong = {} THEN Len(trace) ELSE Min(wrong) - 1
  IN IF good > MaxSteps THEN [ok |-> FALSE, why |-> "limit", plan |-> <<>>]
     ELSE IF wrong # {} THEN [ok |-> FALSE, why |-> "rule",  plan |-> <<>>]
     ELSE                    [ok |-> TRUE,  why |-> "",      plan |-> trace]

CountNested(items) ==
  FoldSeq(LAMBDA k, n : n + IF k.kind = "unit" THEN Len(k.kids) ELSE 1, 0, items)

\* countScriptCommands
CountCommands(script) ==
  FoldSeq(LAMBDA k, n : n + CASE k.kind = "loop" -> CountNested(k.kids)
                              [] k.kind = "cond" -> 1 + CountNested(k.then)
                                                      + CountNested(k.else)
                              [] OTHER           -> CountNested(<<k>>),
          0, script)

-----------------------------------------------------------------------------
(* nestItemInScript, removeNestedItemFromScript.  <<>> stands for null: the *)
(* script they return is never empty.                                       *)

Refused == <<>>
Index(script, id) == SelectInSeq(script, LAMBDA k : k.id = id)
HasBranch(item, branch) ==
  \/ item.kind = "cond" /\ branch \in {"then", "else"}
  \/ item.kind \in {"loop", "unit"} /\ branch = "kids"

\* Mutant of Nest: the item is copied into the container and stays where it was.
NestCopies(script, item, container, branch, source) ==
  LET at == Index(script, container)
  IN IF at = 0 \/ script[at].kind = "unit" \/ ~HasBranch(script[at], branch)
     THEN Refused
     ELSE [script EXCEPT ![at][branch] = Append(@, item)]

Nest(script, item, container, branch, source) ==
  LET rest == IF source = 0 THEN script
              ELSE SelectSeq(script, LAMBDA k : k.id # source)
      at   == Index(rest, container)
  IN IF \/ item.kind \notin {"step", "unit"}
        \/ at = 0
        \/ rest[at].kind = "unit"
        \/ ~HasBranch(rest[at], branch)
        \/ \E k \in ToSet(rest[at][branch]) : k.id = item.id
     THEN Refused
     ELSE [rest EXCEPT ![at][branch] = Append(@, item)]

RemoveNested(script, container, branch, id) ==
  LET at == Index(script, container)
  IN IF \/ at = 0
        \/ ~HasBranch(script[at], branch)
        \/ \A k \in ToSet(script[at][branch]) : k.id # id
     THEN Refused
     ELSE [script EXCEPT ![at][branch] = SelectSeq(@, LAMBDA k : k.id # id)]

-----------------------------------------------------------------------------
(* serializeTestScript and parseTestScript: what is read back, and whether. *)

TrimmedUnit(k) == IF k.kind = "unit" /\ k.name = "padded"
                  THEN [k EXCEPT !.name = "plain"] ELSE k
TrimmedItem(item) ==
  CASE item.kind = "loop" -> [item EXCEPT !.kids = [i \in DOMAIN @ |-> TrimmedUnit(@[i])]]
    [] item.kind = "cond" -> [item EXCEPT !.then = [i \in DOMAIN @ |-> TrimmedUnit(@[i])],
                                          !.else = [i \in DOMAIN @ |-> TrimmedUnit(@[i])]]
    [] OTHER -> TrimmedUnit(item)
Reloaded(script) == [i \in DOMAIN script |-> TrimmedItem(script[i])]

ParsesUnit(unit, validate) ==
  /\ unit.name # "blank"
  /\ validate => unit.kids # <<>> /\ \A k \in ToSet(unit.kids) : ~NoPattern(k)

ParsesNested(item, validate) ==
  IF item.kind = "unit" THEN ParsesUnit(item, validate)
  ELSE validate => ~NoPattern(item)

ParsesItem(item, validate) ==
  CASE item.kind = "loop" ->
         /\ item.count \in 1..MaxLoop
         /\ validate => item.kids # <<>>
         /\ \A k \in ToSet(item.kids) : ParsesNested(k, validate)
    [] item.kind = "cond" ->
         /\ item.check.type \in CheckTypes
         /\ validate => ~BadCheck(item.check)
         /\ \A k \in ToSet(item.then) \cup ToSet(item.else) : ParsesNested(k, validate)
    [] OTHER -> ParsesNested(item, validate)

\* parseTestScript(serializeTestScript(script), {validatePlan: validate}) does not throw
Parses(script, validate) ==
  /\ \A i \in DOMAIN script : ParsesItem(script[i], validate)
  /\ validate => BuildPlan(script).ok
=============================================================================
