---------------------------- MODULE LogicDecode ----------------------------
(***************************************************************************)
(* The protocol decoder of the logic analyzer page (LogicAnalyzerCard.tsx, *)
(* lib/logicDecoder.ts): the signals of each protocol are mapped to the    *)
(* pins of what is shown, a click decodes the shown capture, and a running *)
(* stream is decoded at intervals.  Both wait for a module that is loaded  *)
(* at the first use, and while they wait the page goes on.                 *)
(*                                                                         *)
(* Once the module is there an answer comes in the microtasks behind the   *)
(* click or the timer, before any other event; and the effects of the page *)
(* run before the next event is handled.  A capture is taken only with the *)
(* page cleared, and a stream runs only without a capture.                 *)
(***************************************************************************)
EXTENDS Integers, Sequences, FiniteSets, SequencesExt, FiniteSetsExt, TLC

CONSTANTS
  Selections,   \* pins that are selected for a capture, in order
  Options,      \* values of the protocols' other settings, of which 0 is one
  Annotations,  \* lists a decoder answers, each annotation with the sample it
                \* starts at (s), that behind its end (e) and its row
  DecodeCount,  \* samples of a capture
  MaxTaken      \* bound: captures and streams

Nothing == [id |-> 0, pins |-> <<>>]
NoDecode == [from |-> 0]
NoResult == [of |-> NoDecode, list |-> <<>>]
NoLive == [of |-> NoDecode, cancelled |-> FALSE]
FreshDecoder == [status |-> "idle", result |-> NoResult, error |-> FALSE, last |-> NoDecode]

(* The state:
     selected  the pins of the next capture
     shown     the capture of the page
     stream    the running stream
     taken     captures and streams so far
     protocol, signals, option   the settings of the decoder, a signal is a
               pin or 0
     decoder   decoderState; a result carries the request it answers
     waiting   requests of clicks that wait for the module
     module    none | loading | ready (cachedModulePromise)
     live      the decode of a stream that waits (streamDecodeBusyRef), and
               whether its effect is over (cancelled)
     notes     liveAnnotations *)
VARIABLES selected, shown, stream, taken, protocol, signals, option,
          decoder, waiting, module, live, notes

decoderVars == <<protocol, signals, option>>
logicDecodeVars ==
  <<selected, shown, stream, taken, decoderVars, decoder, waiting, module, live, notes>>

-----------------------------------------------------------------------------
(* The signals of the protocols.                                            *)

Order == [uart |-> <<"rx">>, i2c |-> <<"scl", "sda">>,
          spi |-> <<"sclk", "mosi", "miso", "cs">>]
OptionalSignals == {"mosi", "miso", "cs"}
Signals == UNION {ToSet(Order[p]) : p \in DOMAIN Order}

(* nextDistinctPin: the preferred pin, else the first that is not used.     *)
NextPin(pins, used, preferred, optional) ==
  LET free == SelectSeq(pins, LAMBDA p : p \notin used)
  IN IF preferred \in ToSet(free) THEN preferred
     ELSE IF free # <<>> THEN free[1]
     ELSE IF optional \/ pins = <<>> THEN 0 ELSE pins[1]

(* reconcileLogicDecoderConfigs, protocol by protocol.                      *)
Reconciled(s, pins) ==
  LET Protocol(map, names) ==
        FoldLeftDomain(
          LAMBDA m, i :
            [m EXCEPT ![names[i]] =
               NextPin(pins, {m[names[j]] : j \in 1..i-1}, s[names[i]],
                       names[i] \in OptionalSignals)],
          map, names)
  IN Protocol(Protocol(Protocol(s, Order.uart), Order.i2c), Order.spi)

(* buildLogicDecoderRequest: every signal that is needed, no pin twice.     *)
BuildDecode(id, pins, name, s) ==
  LET used == {n \in ToSet(Order[name]) : s[n] # 0}
  IN IF /\ id # 0
        /\ ToSet(Order[name]) \ OptionalSignals \subseteq used
        /\ name = "spi" => used \cap {"mosi", "miso"} # {}
        /\ \A n \in used : s[n] \in ToSet(pins)
        /\ \A m, n \in used : s[m] = s[n] => m = n
     THEN [from |-> id, option |-> option,
           channels |-> [n \in used |-> SelectInSeq(pins, LAMBDA p : p = s[n]) - 1]]
     ELSE NoDecode

CapturePins == IF shown.id # 0 THEN shown.pins ELSE selected

(* decodePreparation, and currentDecodeSignatureRef of its effect.          *)
CurrentDecode == BuildDecode(shown.id, shown.pins, protocol, signals)

DecodeIsStale == decoder.last # NoDecode /\ decoder.last # CurrentDecode
ShownResult == IF DecodeIsStale THEN NoResult ELSE decoder.result

-----------------------------------------------------------------------------
(* The lanes of annotations.                                                *)

(* validateDecoderResult, with the bounds of the samples.                   *)
ValidList(list) ==
  \A i \in DOMAIN list : list[i].s \in 0..DecodeCount-1 /\ list[i].e \in list[i].s+1..DecodeCount

(* layoutLogicDecoderAnnotations: row by row in the order of appearance,    *)
(* each annotation in the first lane of its row that has ended.             *)
Layout(list) ==
  LET rows == FoldLeft(LAMBDA seen, a : IF a.row \in ToSet(seen) THEN seen ELSE Append(seen, a.row),
                       <<>>, list)
      Place(base, at, a) ==
        LET open == SelectInSeq(at.ends, LAMBDA e : a.s >= e)
            lane == IF open = 0 THEN Len(at.ends) + 1 ELSE open
        IN [placed |-> Append(at.placed, [note |-> a, lane |-> base + lane]),
            ends |-> IF open = 0 THEN Append(at.ends, a.e) ELSE [at.ends EXCEPT ![lane] = a.e]]
      Row(at, row) ==
        LET sorted == SortSeq(SelectSeq(list, LAMBDA a : a.row = row),
                              LAMBDA a, b : a.s < b.s \/ (a.s = b.s /\ a.e < b.e))
            base == at.lanes
            done == FoldLeft(LAMBDA acc, a : Place(base, acc, a),
                             [placed |-> at.placed, ends |-> <<>>], sorted)
        IN [placed |-> done.placed, lanes |-> base + Len(done.ends)]
  IN FoldLeft(Row, [placed |-> <<>>, lanes |-> 0], rows)

-----------------------------------------------------------------------------
(* The page.                                                                *)

DecodeInit ==
  /\ selected \in Selections
  /\ shown = Nothing /\ stream = Nothing /\ taken = 0
  /\ protocol = "uart" /\ option = 0
  /\ signals = Reconciled([n \in Signals |-> 0], selected)
  /\ decoder = FreshDecoder /\ waiting = {} /\ module = "none"
  /\ live = NoLive /\ notes = NoResult

(* The pins of the next capture change; without one that is shown they are  *)
(* those of the decoder, and the effect reconciles.                         *)
SelectPins ==
  /\ stream = Nothing
  /\ selected' \in Selections
  /\ signals' = IF shown = Nothing THEN Reconciled(signals, selected') ELSE signals
  /\ UNCHANGED <<shown, stream, taken, protocol, option, decoder, waiting, module, live, notes>>

CaptureShown ==
  /\ shown = Nothing /\ stream = Nothing /\ selected # <<>> /\ taken < MaxTaken
  /\ taken' = taken + 1
  /\ shown' = [id |-> taken', pins |-> selected]
  /\ UNCHANGED <<selected, stream, decoderVars, decoder, waiting, module, live, notes>>

(* handleClear, and the effect for the pins that are selected by now.       *)
ClearCapture ==
  /\ shown # Nothing
  /\ shown' = Nothing
  /\ decoder' = FreshDecoder
  /\ signals' = Reconciled(signals, selected)
  /\ UNCHANGED <<selected, stream, taken, protocol, option, waiting, module, live, notes>>

PageUnchanged ==
  UNCHANGED <<selected, shown, stream, taken, decoder, waiting, module, live, notes>>

(* A pin another signal of the protocol has is not offered, 0 is none.      *)
SetSignal(n, pin) ==
  /\ shown # Nothing
  /\ n \in ToSet(Order[protocol])
  /\ pin \in ToSet(shown.pins) \cup (IF n \in OptionalSignals THEN {0} ELSE {})
  /\ pin # 0 => \A m \in ToSet(Order[protocol]) \ {n} : signals[m] # pin
  /\ signals' = Reconciled([signals EXCEPT ![n] = pin], shown.pins)
  /\ UNCHANGED <<protocol, option>> /\ PageUnchanged

SetOption ==
  /\ shown # Nothing
  /\ option' \in Options
  /\ signals' = Reconciled(signals, shown.pins)
  /\ UNCHANGED protocol /\ PageUnchanged

SetProtocol ==
  /\ shown # Nothing
  /\ protocol' \in DOMAIN Order
  /\ UNCHANGED <<signals, option>> /\ PageUnchanged

Result(request, list) == [of |-> request, list |-> list]

(* runDecode goes on behind its await: the answer of a request that is not  *)
(* the current one is dropped.                                              *)
Answered(request, list) ==
  IF request # CurrentDecode THEN decoder
  ELSE [status |-> "done", last |-> request, error |-> ~ValidList(list),
        result |-> IF ValidList(list) THEN Result(request, list) ELSE NoResult]

Failed(request) ==
  IF request # CurrentDecode THEN decoder
  ELSE [status |-> "done", last |-> request, error |-> TRUE, result |-> NoResult]

RunDecode ==
  /\ decoder.status # "loading" /\ CurrentDecode # NoDecode
  /\ IF module = "ready"
     THEN /\ \E list \in Annotations : decoder' = Answered(CurrentDecode, list)
          /\ UNCHANGED <<waiting, module>>
     ELSE /\ decoder' = [FreshDecoder EXCEPT !.status = "loading", !.last = CurrentDecode]
          /\ waiting' = waiting \cup {CurrentDecode}
          /\ module' = "loading"
  /\ UNCHANGED <<selected, shown, stream, taken, decoderVars, live, notes>>

StartStream ==
  /\ shown = Nothing /\ stream = Nothing /\ selected # <<>> /\ taken < MaxTaken
  /\ taken' = taken + 1
  /\ stream' = [id |-> taken', pins |-> selected]
  /\ UNCHANGED <<selected, shown, decoderVars, decoder, waiting, module, live, notes>>

\* Mutant of StopStream: the decode under way is not told that its effect is over.
StopStreamGoesOn ==
  /\ stream # Nothing
  /\ stream' = Nothing /\ notes' = NoResult
  /\ UNCHANGED <<selected, shown, taken, decoderVars, decoder, waiting, module, live>>

(* The stream stops or ends: the effect is cleaned up, and the next one     *)
(* clears the annotations.                                                  *)
StopStream ==
  /\ stream # Nothing
  /\ stream' = Nothing /\ notes' = NoResult
  /\ live' = [live EXCEPT !.cancelled = (live # NoLive)]
  /\ UNCHANGED <<selected, shown, taken, decoderVars, decoder, waiting, module>>

(* decodeWindow of the timer, with samples in the window.                   *)
LiveDecode ==
  LET request == BuildDecode(stream.id, stream.pins, protocol, signals)
  IN /\ stream # Nothing /\ live = NoLive
     /\ IF request = NoDecode
        THEN notes' = NoResult /\ UNCHANGED <<module, live>>
        ELSE IF module = "ready"
        THEN /\ \E list \in Annotations :
                  notes' = IF ValidList(list) THEN Result(request, list) ELSE NoResult
             /\ UNCHANGED <<module, live>>
        ELSE /\ live' = [of |-> request, cancelled |-> FALSE]
             /\ module' = "loading"
             /\ UNCHANGED notes
     /\ UNCHANGED <<selected, shown, stream, taken, decoderVars, decoder, waiting>>

(* The import ends.  A failed one is forgotten, so that the next use loads  *)
(* again; all who waited go on.                                             *)
ModuleArrives ==
  /\ module = "loading" /\ module' = "ready"
  /\ \E list \in Annotations :
       /\ decoder' = IF CurrentDecode \in waiting THEN Answered(CurrentDecode, list) ELSE decoder
       /\ notes' = IF live = NoLive \/ live.cancelled THEN notes
                   ELSE IF ValidList(list) THEN Result(live.of, list) ELSE NoResult
  /\ waiting' = {} /\ live' = NoLive
  /\ UNCHANGED <<selected, shown, stream, taken, decoderVars>>

ModuleFails ==
  /\ module = "loading" /\ module' = "none"
  /\ decoder' = IF CurrentDecode \in waiting THEN Failed(CurrentDecode) ELSE decoder
  /\ notes' = IF live = NoLive \/ live.cancelled THEN notes ELSE NoResult
  /\ waiting' = {} /\ live' = NoLive
  /\ UNCHANGED <<selected, shown, stream, taken, decoderVars>>

DecodeNext ==
  \/ SelectPins \/ CaptureShown \/ ClearCapture \/ SetOption \/ SetProtocol
  \/ \E n \in Signals : \E pin \in {0} \cup ToSet(shown.pins) : SetSignal(n, pin)
  \/ RunDecode \/ StartStream \/ StopStream \/ LiveDecode \/ ModuleArrives \/ ModuleFails

DecodeSpec == DecodeInit /\ [][DecodeNext]_logicDecodeVars

-----------------------------------------------------------------------------
(* The result and the error of the page are of its capture and settings, a  *)
(* decode of them that is under way is shown, and everything that waits has *)
(* a load that will end.                                                    *)
ShownIsCurrent ==
  /\ ShownResult # NoResult => ShownResult.of = CurrentDecode
  /\ ~DecodeIsStale /\ decoder.error => decoder.last = CurrentDecode
  /\ CurrentDecode # NoDecode /\ CurrentDecode \in waiting =>
       decoder.status = "loading" /\ ~DecodeIsStale
  /\ waiting # {} \/ live # NoLive => module = "loading"

(* However pins came and went, with enough of them every protocol decodes:  *)
(* no signal keeps a pin that is gone or that another one took.             *)
SignalsFit ==
  \A name \in DOMAIN Order :
    Len(CapturePins) >= (IF name = "uart" THEN 1 ELSE 2) =>
      BuildDecode(1, CapturePins, name, signals) # NoDecode

(* Annotations of a stream are of the one that runs.                        *)
NotesAreLive == notes # NoResult => stream # Nothing /\ notes.of.from = stream.id

(* Annotations of a lane are of one row and follow each other, and a row    *)
(* has no more lanes than annotations at one sample.                        *)
LayoutIsSound(list) ==
  LET layout == Layout(list)
      Rows == {list[i].row : i \in DOMAIN list}
      Depth(row) ==
        Max({Cardinality({j \in DOMAIN list : /\ list[j].row = row
                                              /\ list[j].s <= list[i].s /\ list[i].s < list[j].e}) :
               i \in {k \in DOMAIN list : list[k].row = row}})
  IN /\ Len(layout.placed) = Len(list)
     /\ layout.lanes = MapThenSumSet(Depth, Rows)
     /\ \A i, j \in DOMAIN layout.placed :
          i < j /\ layout.placed[i].lane = layout.placed[j].lane =>
            /\ layout.placed[i].note.row = layout.placed[j].note.row
            /\ layout.placed[i].note.e <= layout.placed[j].note.s

\* What holds of the decoder of the page.
DecoderIsSound ==
  /\ ShownIsCurrent /\ SignalsFit /\ NotesAreLive
  /\ LayoutIsSound(ShownResult.list) /\ LayoutIsSound(notes.list)
=============================================================================
