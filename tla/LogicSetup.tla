----------------------------- MODULE LogicSetup -----------------------------
(***************************************************************************)
(* What a logic capture asks for.  The page (LogicAnalyzerCard.tsx) edits  *)
(* pins, rate, trigger and sample counts one input at a time; every edit   *)
(* is normalised, and when a capture starts the settings become a request  *)
(* (lib/logicAnalyzer.ts) under what the connected debugger advertises.    *)
(* The debugger decides by itself, with its own code, what it accepts      *)
(* (linkr_debugger_sigrok_linkr.c, linkr_debugger_logic_analyzer.c), and   *)
(* numbers the trigger anew.                                               *)
(***************************************************************************)
EXTENDS Integers, Sequences, FiniteSets, SequencesExt, FiniteSetsExt

CONSTANTS
  SetupPins,   \* pins of the pinout that are clicked, of 10..20
  FirstPins,   \* selections to begin with, that of the fresh page is <<13>>
  Triggers,    \* the trigger types that are chosen
  Rates,       \* sample rates of the list, in kHz
  PreInputs,   \* what is typed as samples before the trigger
  PostInputs,  \* what is typed as samples behind it
  Servers      \* what debuggers advertise: CONFIG_V2 (v2),
               \* GENERIC_PACKED_BURST (generic), the modes with PRE_TRIGGER (pre)

ASSUME LogicSetupAssumption ==
  /\ SetupPins \subseteq 10..20 /\ Rates \subseteq 100..125000
  /\ Triggers \subseteq {"none", "rising", "falling", "either"}

Modes == {"FAST8", "WIDE11"}
Unconnected == [v2 |-> FALSE, generic |-> FALSE, pre |-> Modes]
NoRequest == [mode |-> "none"]

(* The state:
     setup    the settings of the page; trigger is an index of pins
     server   what the connected debugger advertises; before there is one the
              page assumes that it has samples before the trigger
     clicked  the pin the last left click made the trigger, else 0 *)
VARIABLES setup, server, clicked

logicSetupVars == <<setup, server, clicked>>

-----------------------------------------------------------------------------
(* Normal settings.                                                         *)

Clamped(n, low, high) == Min({high, Max({low, n})})

SortedPins(pins) ==
  [i \in 1..Cardinality(pins) |->
     CHOOSE p \in pins : Cardinality({q \in pins : q < p}) = i - 1]

NormalBase(c) ==
  LET pins == SortedPins(ToSet(c.pins))
  IN [c EXCEPT !.pins = pins, !.post = Max({1, @}),
               !.trigger = Clamped(@, 0, Max({0, Len(pins) - 1}))]

WithinFast8(pins) == pins # <<>> /\ ToSet(pins) \subseteq 10..17

(* The samples the ring of a plan can keep.                                 *)
UsableCapacity(pins) ==
  CASE Len(pins) = 0 -> 0
    [] Len(pins) = 1 -> 260096
    [] Len(pins) > 1 /\ WithinFast8(pins) -> 30720
    [] OTHER -> 14336

(* Samples before the trigger: an edge, a rate the ring can poll, and room. *)
PreTriggerFits(c, total) ==
  /\ c.pre \in 1..511 /\ c.type # "none" /\ c.rate \in 1000..25000 /\ c.post >= 1
  /\ total => c.pre + c.post <= 512
  /\ UsableCapacity(c.pins) >= 2 * c.rate

(* normalizeLogicAnalyzerLocalConfig, of every edit.                        *)
NormalLocal(c) ==
  LET base == NormalBase(c)
  IN IF base.pre > 0 /\ PreTriggerFits(base, FALSE)
     THEN [base EXCEPT !.post = Min({@, 512 - base.pre})]
     ELSE [base EXCEPT !.pre = 0]

-----------------------------------------------------------------------------
(* The request.                                                             *)

RateUnsupported(c) == c.pins # <<>> /\ c.rate = 125000 /\ ~WithinFast8(c.pins)
HighRateBurst(c) ==
  c.pins # <<>> /\ (c.rate = 100000 \/ (c.rate = 125000 /\ WithinFast8(c.pins)))
ExactWide11(c) == c.rate = 100000 /\ ToSet(c.pins) = 10..20
StreamAllowed(c) == ~RateUnsupported(c) /\ (c.rate <= 25000 \/ HighRateBurst(c))

(* getLogicAnalyzerNegotiatedCapabilityReason finds nothing.                *)
Negotiated(c, s, stream) ==
  IF stream THEN c.rate <= 25000 \/ ~HighRateBurst(c) \/ s.generic
  ELSE IF c.post <= 65535 THEN s.generic \/ ~(HighRateBurst(c) /\ WithinFast8(c.pins))
  ELSE /\ s.v2
       /\ \/ ExactWide11(c) /\ c.post = 100000
          \/ c.pins # <<>> /\ ~RateUnsupported(c) /\ s.generic /\ c.post <= 100000

ModeOf(pins) == IF \E p \in ToSet(pins) : p >= 18 THEN "WIDE11" ELSE "FAST8"
PreTriggerReady(c, s) == PreTriggerFits(c, TRUE) /\ ModeOf(c.pins) \in s.pre

Valid(c, s, stream) ==
  /\ ~RateUnsupported(c)
  /\ stream => StreamAllowed(c)
  /\ c.pre # 0 => PreTriggerReady(c, s)
  /\ Negotiated(c, s, stream)

(* The page's bound of what may be asked for behind the trigger.            *)
MaxPost(c, s) ==
  IF s.v2 /\ ((s.generic /\ c.pins # <<>> /\ ~RateUnsupported(c)) \/ ExactWide11(c))
  THEN 100000 ELSE 65535

ShownTrigger(c) ==
  IF c.type = "none" \/ c.pins = <<>> THEN 0 ELSE c.pins[c.trigger + 1]

\* Mutant of BuildRequest: the trigger is sent as the index of its pin.
BuildRequestByIndex(config, s, stream) ==
  LET c == NormalBase(IF stream THEN [config EXCEPT !.pre = 0, !.post = 1] ELSE config)
  IN IF c.pins = <<>> \/ ~Valid(c, s, stream) THEN NoRequest
     ELSE [mode |-> ModeOf(c.pins), type |-> c.type,
           channel |-> IF c.type = "none" THEN 0 ELSE c.trigger,
           mask |-> {p - 10 : p \in ToSet(c.pins)}, rate |-> c.rate,
           pre |-> IF stream THEN 0 ELSE c.pre, post |-> IF stream THEN 0 ELSE c.post]

(* buildSigrokCaptureRequest, or NoRequest when it throws.                  *)
BuildRequest(config, s, stream) ==
  LET c == NormalBase(IF stream THEN [config EXCEPT !.pre = 0, !.post = 1] ELSE config)
  IN IF c.pins = <<>> \/ ~Valid(c, s, stream) THEN NoRequest
     ELSE [mode |-> ModeOf(c.pins), type |-> c.type,
           channel |-> IF c.type = "none" THEN 0 ELSE ShownTrigger(c) - 10,
           mask |-> {p - 10 : p \in ToSet(c.pins)}, rate |-> c.rate,
           pre |-> IF stream THEN 0 ELSE c.pre, post |-> IF stream THEN 0 ELSE c.post]

(* buildSigrokConfigFrameRequest throws for no other counts.                *)
Encodable(r, s) ==
  /\ r.channel \in 0..255 /\ r.rate \in 0..16777215 /\ r.pre >= 0 /\ r.post >= 0
  /\ (r.pre > 65535 \/ r.post > 65535) => s.v2

-----------------------------------------------------------------------------
(* The debugger.                                                            *)

ModeChannels(mode) == IF mode = "FAST8" THEN 0..7 ELSE 0..10

(* map_la_config: the pins of the mask, and the trigger as one of them.     *)
DebuggerConfig(r) ==
  LET channels == SortedPins(r.mask)
  IN [pins |-> [i \in DOMAIN channels |-> 10 + channels[i]], rate |-> r.rate, type |-> r.type,
      trigger |-> IF r.type = "none" THEN 0 ELSE SelectInSeq(channels, LAMBDA n : n = r.channel),
      pre |-> r.pre, post |-> r.post]

SinglePlan(c) == Len(c.pins) = 1
Fast8Plan(c) == Len(c.pins) \in 1..8 /\ ToSet(c.pins) \subseteq 10..17
Wide11Plan(c) == Len(c.pins) \in 1..11 /\ ToSet(c.pins) \subseteq 10..20

(* la_rate_from_clock at 125 MHz, in kHz: the divider has eight bits of     *)
(* fraction and is at least one.                                            *)
ActualRate(rate) ==
  (125000 * 256) \div Max({256, (125000 * 256 + rate \div 2) \div rate})

(* packed_ring_plan: 32 KiB of words, less the samples kept for safety.     *)
RingSamples(c) ==
  -2048 + (CASE SinglePlan(c) -> 8192 * 32
             [] ~SinglePlan(c) /\ Fast8Plan(c) -> 8192 * 4
             [] OTHER -> Min({4096 * 4, 2048 * 10}))

PreTriggerPlanSupported(c) ==
  /\ c.type # "none" /\ c.rate \in 1000..25000
  /\ c.pre > 0 /\ c.post > 0 /\ c.pre + c.post <= 512
  /\ Wide11Plan(c) /\ RingSamples(c) >= 2 * ActualRate(c.rate)

RateLimit(c) == IF SinglePlan(c) \/ Fast8Plan(c) THEN 125000 ELSE 100000

(* packed_burst_plan: the lanes of the aligned samples fit the arena.       *)
BurstPlanned(c) ==
  LET Aligned(n) == ((c.post + n - 1) \div n) * n
      bytes == CASE SinglePlan(c) -> Aligned(32) \div 8
                 [] ~SinglePlan(c) /\ Fast8Plan(c) -> Aligned(4)
                 [] OTHER -> Aligned(20) + (Aligned(20) \div 10) * 4
  IN /\ c.pre = 0 /\ c.post \in 1..100000 /\ Wide11Plan(c) /\ c.rate <= RateLimit(c)
     /\ bytes <= 140000

(* select_hardware_plan.                                                    *)
PlanSelected(c) ==
  /\ c.type # "none" => c.trigger \in 1..Len(c.pins)
  /\ c.pre # 0 => PreTriggerPlanSupported(c)
  /\ Wide11Plan(c) /\ c.rate <= RateLimit(c) /\ c.post <= 100000

(* CONFIG and START are answered with OK, and the capture is prepared.      *)
DebuggerAccepts(r) ==
  LET c == DebuggerConfig(r)
  IN /\ r.mask # {} /\ r.mask \subseteq ModeChannels(r.mode) /\ r.rate \in 1..125000
     /\ r.type # "none" => r.channel \in r.mask
     /\ r.pre > 0 => PreTriggerPlanSupported(c)
     /\ ~(r.mode = "WIDE11" /\ r.rate = 125000)
     /\ r.post > 65535 => BurstPlanned(c)
     /\ r.post <= 100000 /\ PlanSelected(c)

-----------------------------------------------------------------------------
(* The inputs of the page, of which each is an edit.                        *)

SetupInit ==
  /\ \E pins \in FirstPins :
       setup = [pins |-> pins, rate |-> 1000, pre |-> 0, post |-> 65535,
                type |-> "none", trigger |-> 0]
  /\ server = Unconnected
  /\ clicked = 0

Edited(c) == setup' = NormalLocal(c) /\ clicked' = 0 /\ UNCHANGED server

(* Right click: a pin that goes leaves the index, within what is left.      *)
TogglePin(p) ==
  LET left == SelectSeq(setup.pins, LAMBDA q : q # p)
  IN IF p \in ToSet(setup.pins)
     THEN Edited([setup EXCEPT !.pins = left,
                              !.trigger = IF left = <<>> THEN 0 ELSE Min({@, Len(left) - 1})])
     ELSE Edited([setup EXCEPT !.pins = Append(@, p)])

(* Left click: no trigger when it was the trigger, else the trigger, as its *)
(* index in the pins before they are sorted.                                *)
ClickTrigger(p) ==
  LET pins == IF p \in ToSet(setup.pins) THEN setup.pins ELSE Append(setup.pins, p)
  IN IF ShownTrigger(setup) = p THEN Edited([setup EXCEPT !.type = "none"])
     ELSE /\ setup' = NormalLocal([setup EXCEPT
                        !.pins = pins, !.trigger = SelectInSeq(pins, LAMBDA q : q = p) - 1,
                        !.type = IF @ = "none" THEN "either" ELSE @])
          /\ clicked' = p
          /\ UNCHANGED server

ChooseRate == \E rate \in Rates : Edited([setup EXCEPT !.rate = rate])
ChooseType == \E type \in Triggers : Edited([setup EXCEPT !.type = type])
ChooseTrigger ==
  /\ setup.type # "none"
  /\ \E i \in DOMAIN setup.pins : Edited([setup EXCEPT !.trigger = i - 1])
TypePost == \E n \in PostInputs : Edited([setup EXCEPT !.post = n])

(* The field is enabled by a probe of the smallest capture.                 *)
PreTriggerAvailable ==
  PreTriggerReady(IF setup.pre > 0 THEN setup ELSE [setup EXCEPT !.pre = 1, !.post = 1], server)
TypePre ==
  /\ PreTriggerAvailable
  /\ \E n \in PreInputs : Edited([setup EXCEPT !.pre = n])

(* HELLO and CAPS are answered, or the connection is closed.                *)
ServerChanges ==
  /\ \E s \in Servers \cup {Unconnected} : server' = s
  /\ UNCHANGED <<setup, clicked>>

SetupNext ==
  \/ \E p \in SetupPins : TogglePin(p) \/ ClickTrigger(p)
  \/ ChooseRate \/ ChooseType \/ ChooseTrigger \/ TypePost \/ TypePre \/ ServerChanges

SetupSpec == SetupInit /\ [][SetupNext]_logicSetupVars

-----------------------------------------------------------------------------
(* Whatever was edited, the settings are normal: an edit of one input never *)
(* leaves another one with what no capture can be, and the page's second    *)
(* normalisation (normalizedConfig) changes nothing of what is shown.       *)
SettingsAreNormal == setup = NormalLocal(setup)

(* A request the page sends is one the debugger's own code accepts, and the *)
(* trigger the debugger makes of it is the pin the page shows: the two      *)
(* sides agree on capacities, limits and the numbering of channels.         *)
RequestIsAccepted ==
  \A stream \in BOOLEAN :
    LET r == BuildRequest(setup, server, stream)
        c == DebuggerConfig(r)
    IN r # NoRequest =>
         /\ Encodable(r, server) /\ DebuggerAccepts(r) /\ c.pins = setup.pins
         /\ ShownTrigger(setup) = IF c.type = "none" THEN 0 ELSE c.pins[c.trigger]

(* With a debugger that advertises everything, what the buttons offer within *)
(* the shown bound is a request: it is not refused behind the click.         *)
OfferedIsBuilt ==
  server = [v2 |-> TRUE, generic |-> TRUE, pre |-> Modes] /\ setup.pins # <<>> =>
    /\ StreamAllowed(setup) => BuildRequest(setup, server, TRUE) # NoRequest
    /\ ~RateUnsupported(setup) /\ setup.post <= MaxPost(setup, server) =>
         BuildRequest(setup, server, FALSE) # NoRequest

\* What holds of the settings of a capture.
SetupIsSound == SettingsAreNormal /\ RequestIsAccepted /\ OfferedIsBuilt

\* "Left click - Trigger" (i18n.tsx): the pin that was clicked is the trigger
\* the page then shows.
ClickedIsTrigger == clicked # 0 => ShownTrigger(setup) = clicked
=============================================================================
