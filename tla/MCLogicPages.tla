---------------------------- MODULE MCLogicPages ----------------------------
(* The settings and the decoder of the logic analyzer page for TLC.         *)
EXTENDS LogicSetup, LogicDecode

MCServers ==
  {[v2 |-> TRUE, generic |-> TRUE, pre |-> Modes],
   [v2 |-> TRUE, generic |-> FALSE, pre |-> {"FAST8"}],
   [v2 |-> FALSE, generic |-> TRUE, pre |-> {}]}
MCFirstPins == {<<13>>, [i \in 1..11 |-> 9 + i]}
MCPreInputs == {-1, 0, 1, 511, 512}

MCSelections == {<<>>, <<1, 2, 3>>}

(* Rows that overlap, and an annotation that ends behind the last sample.   *)
Note(s, e, row) == [s |-> s, e |-> e, row |-> row]
MCAnnotations ==
  {<<Note(0, 3, "a"), Note(1, 2, "b"), Note(2, 4, "a"), Note(0, 1, "a"), Note(1, 2, "a")>>,
   <<Note(3, 5, "a")>>}

VARIABLE focus
logicPagesVars == <<focus, logicSetupVars, logicDecodeVars>>

LogicPagesInit ==
  /\ SetupInit /\ DecodeInit
  /\ focus \in {"setup", "decode"}
  /\ focus # "setup" => setup.pins = <<13>>
  /\ focus # "decode" => selected = <<>>

LogicPagesNext ==
  \/ focus = "setup" /\ SetupNext /\ UNCHANGED <<focus, logicDecodeVars>>
  \/ focus = "decode" /\ DecodeNext /\ UNCHANGED <<focus, logicSetupVars>>

LogicPagesSpec == LogicPagesInit /\ [][LogicPagesNext]_logicPagesVars
=============================================================================
