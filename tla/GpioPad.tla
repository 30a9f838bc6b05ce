------------------------------- MODULE GpioPad -------------------------------
(***************************************************************************)
(* The pinout of the GPIO card (GpioCard.tsx, GpioPin.tsx): on every pin a *)
(* gesture (useGpioPinGesture.ts) makes one write out of presses, releases *)
(* and two timers - a press is "low", a double press "input", a hold       *)
(* "high" - and the card lets one write at a time through.  A write blocks *)
(* the gestures of all pins, but they learn of it when React renders, and  *)
(* cancel in an effect behind that.                                        *)
(***************************************************************************)
EXTENDS Integers, Sequences, FiniteSets, SequencesExt

CONSTANTS
  Pins,        \* the pins of the pinout
  MaxPresses,  \* bound: the presses, and the keys, of all the pins together
  MaxPads      \* bound: how often the card is opened

Levels == {"input", "low", "high"}

-----------------------------------------------------------------------------
(* The state:
     pad      of every pin its gesture: phase, whether its press is the
              second, its timer, and its number
     gpioCard pendingRef, what the gestures know of it, the effect that
              cancels them, the writes that are out,
              whether the card may be used, and which card it is
     log      what became of every gesture, for the properties: its presses,
              whether it was held and whether cancelled, and its writes *)
VARIABLES pad, gpioCard, log

gpioPadVars == <<pad, gpioCard, log>>

NoGesture == [phase |-> "idle", second |-> FALSE, timer |-> "none", id |-> 0]

GpioPadInit ==
  /\ pad = [p \in Pins |-> NoGesture]
  /\ gpioCard = [pending |-> FALSE, blocked |-> FALSE, due |-> FALSE, effect |-> FALSE,
                 out |-> <<>>, usable |-> TRUE, mount |-> 1]
  /\ log = <<>>

(* The ring of the hold is drawn around a pin that is pressed.              *)
Holding(p) == pad[p].phase = "down"

GestureCancelled(ids) ==
  [g \in DOMAIN log |-> IF g \in ids THEN [log[g] EXCEPT !.cancelled = TRUE] ELSE log[g]]

\* Mutant of Act: the card relies on the gestures for what is pending.
ActUnlocked(p, level, gestures, history) ==
  LET writes == gpioCard.usable
  IN /\ pad' = gestures
     /\ log' = IF writes THEN [history EXCEPT ![gestures[p].id].writes = Append(@, level)]
               ELSE history
     /\ gpioCard' = IF writes THEN [gpioCard EXCEPT !.pending = TRUE, !.due = TRUE,
                                      !.out = Append(@, <<gpioCard.mount, p, level>>)]
                    ELSE gpioCard

(* onAction: handleGpioAction, which drops what comes while a write is out. *)
Act(p, level, gestures, history) ==
  LET writes == gpioCard.usable /\ ~gpioCard.pending
  IN /\ pad' = gestures
     /\ log' = IF writes THEN [history EXCEPT ![gestures[p].id].writes = Append(@, level)]
               ELSE history
     /\ gpioCard' = IF writes THEN [gpioCard EXCEPT !.pending = TRUE, !.due = TRUE,
                                      !.out = Append(@, <<gpioCard.mount, p, level>>)]
                    ELSE gpioCard

(* An action of the gesture, unless it knows that it is blocked.            *)
ActUnlessBlocked(p, level, gestures, history) ==
  IF gpioCard.blocked
  THEN pad' = gestures /\ log' = history /\ UNCHANGED gpioCard
  ELSE Act(p, level, gestures, history)

Quiet(gestures, history) ==
  pad' = gestures /\ log' = history /\ UNCHANGED gpioCard

-----------------------------------------------------------------------------
(* The pointer.                                                             *)

(* handlePointerDown: a first press begins a gesture, one within the window *)
(* of the last is its second.                                               *)
PointerDown(p) ==
  LET second == pad[p].phase = "awaitSecond"
      id == IF second THEN pad[p].id ELSE Len(log) + 1
      history == IF second THEN [log EXCEPT ![id].presses = 2]
                 ELSE Append(log, [presses |-> 1, held |-> FALSE, cancelled |-> FALSE,
                                   writes |-> <<>>])
  IN /\ ~gpioCard.blocked /\ pad[p].phase \in {"idle", "awaitSecond"}
     /\ second \/ Len(log) < MaxPresses
     /\ Quiet([pad EXCEPT ![p] = [phase |-> "down", second |-> second, timer |-> "hold",
                                  id |-> id]], history)

(* fireHold, of the timer or of a release that comes late.                  *)
FireHold(p, phase) ==
  ActUnlessBlocked(p, "high", [pad EXCEPT ![p].phase = phase, ![p].timer = "none"],
                   [log EXCEPT ![pad[p].id].held = TRUE])

HoldTimer(p) == pad[p].timer = "hold" /\ pad[p].phase = "down" /\ FireHold(p, "holdFired")

(* handlePointerUp; the clock says whether the press was a long one whose   *)
(* timer has not run yet.                                                   *)
PointerUp(p) ==
  LET gesture == pad[p]
      idle == [pad EXCEPT ![p].phase = "idle", ![p].second = FALSE, ![p].timer = "none"]
  IN \/ gesture.phase = "holdFired" /\ Quiet(idle, log)
     \/ gesture.phase = "down" /\ FireHold(p, "idle")
     \/ /\ gesture.phase = "down" /\ gesture.second
        /\ ActUnlessBlocked(p, "input", idle, log)
     \/ /\ gesture.phase = "down" /\ ~gesture.second
        /\ Quiet([pad EXCEPT ![p].phase = "awaitSecond", ![p].timer = "short"], log)

ShortTimer(p) ==
  /\ pad[p].timer = "short"
  /\ ActUnlessBlocked(p, "low", [pad EXCEPT ![p].phase = "idle", ![p].timer = "none"], log)

(* cancelGesture: the pointer moves away or is lost, or Escape is pressed.  *)
CancelGestures(pins) ==
  Quiet([p \in Pins |-> IF p \in pins THEN [NoGesture EXCEPT !.id = pad[p].id] ELSE pad[p]],
        GestureCancelled({pad[p].id : p \in {q \in pins : pad[q].phase \in {"down", "awaitSecond"}}}))

PointerLost(p) == pad[p].phase \in {"down", "holdFired"} /\ CancelGestures({p})
EscapePressed(p) == pad[p].phase # "idle" /\ CancelGestures({p})

(* handleKeyDown: a key acts at once, and ends the gesture there may be.    *)
KeyDown(p) ==
  /\ Len(log) < MaxPresses
  /\ \E level \in Levels :
       LET ended == GestureCancelled({pad[p].id} \cap IF pad[p].phase \in {"down", "awaitSecond"}
                                               THEN DOMAIN log ELSE {})
           key == [presses |-> 0, held |-> FALSE, cancelled |-> FALSE, writes |-> <<>>]
       IN ActUnlessBlocked(p, level, [pad EXCEPT ![p] = [NoGesture EXCEPT !.id = Len(log) + 1]],
                           Append(ended, key))

-----------------------------------------------------------------------------
(* React, the card and the debugger.                                        *)

(* A render: the gestures see whether a write is out.                       *)
PadRenders ==
  /\ gpioCard.due
  /\ gpioCard' = [gpioCard EXCEPT !.due = FALSE, !.blocked = gpioCard.pending,
                                  !.effect = gpioCard.pending /\ ~gpioCard.blocked]
  /\ UNCHANGED <<pad, log>>

\* Behind it: "a pending transition cancels any in-progress gesture without
\* writing".
BlockEffect ==
  /\ gpioCard.effect
  /\ gpioCard' = [gpioCard EXCEPT !.effect = FALSE]
  /\ pad' = [p \in Pins |-> [NoGesture EXCEPT !.id = pad[p].id]]
  /\ log' = GestureCancelled({pad[p].id : p \in {q \in Pins : pad[q].phase \in {"down", "awaitSecond"}}})

(* A write is answered, or fails; the finally is of the card it was on.     *)
WriteAnswered ==
  /\ \E i \in DOMAIN gpioCard.out :
       gpioCard' = IF gpioCard.out[i][1] = gpioCard.mount
                   THEN [gpioCard EXCEPT !.pending = FALSE, !.due = TRUE, !.out = RemoveAt(@, i)]
                   ELSE [gpioCard EXCEPT !.out = RemoveAt(@, i)]
  /\ UNCHANGED <<pad, log>>

(* The board is lost or found, or another task takes or returns the lock.   *)
UsableChanges ==
  /\ gpioCard' = [gpioCard EXCEPT !.usable = ~@]
  /\ UNCHANGED <<pad, log>>

(* The drawer with the card is closed and opened: the timers are cleared,   *)
(* what is out stays out.                                                   *)
PadReopened ==
  /\ gpioCard.mount < MaxPads
  /\ gpioCard' = [gpioCard EXCEPT !.mount = @ + 1, !.pending = FALSE, !.blocked = FALSE,
                                  !.due = FALSE, !.effect = FALSE]
  /\ pad' = [p \in Pins |-> NoGesture]
  /\ log' = GestureCancelled({pad[p].id : p \in {q \in Pins : pad[q].phase \in {"down", "awaitSecond"}}})

PadGoesOn ==
  \/ PadRenders \/ BlockEffect \/ WriteAnswered
  \/ \E p \in Pins : HoldTimer(p) \/ ShortTimer(p)

GpioPadNext ==
  \/ PadGoesOn \/ UsableChanges \/ PadReopened
  \/ \E p \in Pins : PointerDown(p) \/ PointerUp(p) \/ PointerLost(p) \/ EscapePressed(p)
                       \/ KeyDown(p)

GpioPadFairSpec ==
  GpioPadInit /\ [][GpioPadNext]_gpioPadVars /\ WF_gpioPadVars(PadGoesOn)

-----------------------------------------------------------------------------
\* A gesture is one write at most, of what was done: a hold is "high", two
\* presses are "input", and never the "low" of the first of them; a gesture that
\* was cancelled writes nothing (fireHold, handlePointerUp, cancelGesture).
GesturesAreOne ==
  \A g \in DOMAIN log :
    LET gesture == log[g]
    IN /\ Len(gesture.writes) <= IF gesture.cancelled THEN 0 ELSE 1
       /\ gesture.presses > 0 /\ gesture.writes # <<>> =>
            gesture.writes = << IF gesture.held THEN "high"
                                ELSE IF gesture.presses = 2 THEN "input" ELSE "low" >>

\* The card has one write out at a time, however many pins are touched:
\* pendingRef is set from the gesture on until the answer, also while no gesture
\* knows of it yet.  The write of a card that was closed may still be out.
WritesAreSerial ==
  LET own == {i \in DOMAIN gpioCard.out : gpioCard.out[i][1] = gpioCard.mount}
  IN /\ \A i, j \in own : i = j
     /\ gpioCard.pending <=> own # {}

\* A timer runs for a gesture that waits for it, and for no other.
TimersBelong ==
  \A p \in Pins :
    /\ pad[p].timer = "hold" <=> pad[p].phase = "down"
    /\ pad[p].timer = "short" <=> pad[p].phase = "awaitSecond"

\* What holds of the pinout.
PadIsSound == GesturesAreOne /\ WritesAreSerial /\ TimersBelong
=============================================================================
