------------------------------ MODULE ConfigUI ------------------------------
(***************************************************************************)
(* The saved configuration in the browser: the hook that keeps the newest  *)
(* configuration the debugger answered (usePersistentConfig.ts) and the    *)
(* card on which items are selected, saved and cleared                     *)
(* (usePersistentConfigCardModel.ts).  Every refresh has a generation; an  *)
(* answer counts only if its generation is the latest, and whoever waits   *)
(* for one waits until that generation, or a later one, is accepted.       *)
(* React effects run behind the render they belong to, at a step of their  *)
(* own.                                                                    *)
(***************************************************************************)
EXTENDS Integers, FiniteSets

CONSTANTS
  CfgItems,      \* the items of the catalog
  CfgDanger,     \* those whose value is dangerous at first
  CfgSaved,      \* those saved at first, with a value that is not
  MaxCfgCalls,   \* bound: the saves, clears and refreshes that are asked for
  MaxCfgEvents   \* bound: the clicks, and the changes of the debugger

ASSUME ConfigAssumption == MaxCfgCalls \in Nat /\ MaxCfgEvents \in Nat

CfgCalls == 1..MaxCfgCalls

-----------------------------------------------------------------------------
(* The state:
     cfgFw    the debugger: the value of every item now, the value saved
              ("none", "safe", "danger"), the number of its changes
     cu       the hook: what it was rendered with, its refs, the requests
              under way, who waits for which generation (0 for its effect),
              what it shows
     cfgCard  the mounted card: selection overrides, dialog, requestPending
     cfgCalls what was asked for, at which await it is, and how it ended
     cfgEvents how many events there were *)
VARIABLES cfgFw, cu, cfgCard, cfgCalls, cfgEvents

configUIVars == <<cfgFw, cu, cfgCard, cfgCalls, cfgEvents>>

NoConfig == [gen |-> 0, ver |-> 0, saved |-> [i \in CfgItems |-> "none"],
             risk |-> [i \in CfgItems |-> "safe"]]
NoDialog == [kind |-> "none", ids |-> {}, selected |-> {}]
CardMounted(mount) ==
  [mount |-> mount, over |-> [i \in CfgItems |-> "none"], dialog |-> NoDialog,
   pending |-> FALSE, notice |-> "none"]
NoCfgCall == [st |-> "none", mount |-> 0, kind |-> "none", ids |-> {}, asked |-> {},
           confirm |-> FALSE, ver |-> 0]

ConfigUIInit ==
  /\ cfgFw = [now |-> [i \in CfgItems |-> IF i \in CfgDanger THEN "danger" ELSE "safe"],
              saved |-> [i \in CfgItems |-> IF i \in CfgSaved THEN "safe" ELSE "none"],
              ver |-> 1]
  /\ cu = [conn |-> TRUE, supp |-> TRUE, due |-> TRUE, connRef |-> TRUE, suppRef |-> TRUE,
           alive |-> TRUE, latest |-> 0, acked |-> FALSE, shown |-> NoConfig,
           gets |-> {}, waiters |-> {}, loading |-> FALSE, busy |-> "none", error |-> "none"]
  /\ cfgCard = CardMounted(1)
  /\ cfgCalls = [c \in CfgCalls |-> NoCfgCall]
  /\ cfgEvents = 0

(* What GET /config answers: of an item that is saved, the risk of the      *)
(* saved value.                                                             *)
CfgAnswer ==
  [ver |-> cfgFw.ver, saved |-> cfgFw.saved,
   risk |-> [i \in CfgItems |->
               IF cfgFw.saved[i] # "none" THEN cfgFw.saved[i] ELSE cfgFw.now[i]]]

(* The selection of the card.                                               *)
Visible == IF cu.shown.gen = 0 THEN {} ELSE CfgItems
SelectedItems ==
  {i \in Visible : IF cfgCard.over[i] = "none" THEN cu.shown.saved[i] # "none"
                   ELSE cfgCard.over[i] = "on"}
DangerousSelected == {i \in SelectedItems : cu.shown.risk[i] = "danger"}

CfgWaiting(call) == call.st \notin {"none", "ok", "failed"}
Mutating == {c \in CfgCalls : CfgWaiting(cfgCalls[c]) /\ cfgCalls[c].kind # "refresh"}

-----------------------------------------------------------------------------
(* What a call of the card does when the hook's promise settles: the record *)
(* of the call, and the card, if it is still there.  Only an error of save  *)
(* names the items to confirm.                                              *)
CallEnds(calls, ended, outcome) ==
  [c \in CfgCalls |-> IF c \in ended THEN [calls[c] EXCEPT !.st = outcome] ELSE calls[c]]

CardAfter(card, call, ok, toConfirm) ==
  IF call.kind = "refresh"
  THEN [card EXCEPT !.pending = FALSE, !.notice = IF ok THEN "refreshed" ELSE @]
  ELSE IF ok
  THEN [card EXCEPT !.pending = FALSE, !.dialog = NoDialog, !.notice = call.kind,
          !.over = [i \in CfgItems |-> IF call.kind = "clear" THEN "none"
                                       ELSE IF i \in call.ids THEN "off" ELSE @[i]]]
  ELSE [card EXCEPT !.pending = FALSE,
          !.dialog = IF toConfirm = {} THEN NoDialog
                     ELSE [kind |-> "save", ids |-> toConfirm, selected |-> call.ids]]

(* The end of the calls in the set ended; a mutation sets the error.  The    *)
(* calls of cards that are gone leave the card alone, and a card has at      *)
(* most one call out.                                                        *)
CardSettles(ended, ok, toConfirm) ==
  \/ (\A c \in ended : cfgCalls[c].mount # cfgCard.mount) /\ UNCHANGED cfgCard
  \/ \E c \in ended : /\ cfgCalls[c].mount = cfgCard.mount
                       /\ cfgCard' = CardAfter(cfgCard, cfgCalls[c], ok, toConfirm)

CallsEnd(hook, ended, ok, toConfirm, error) ==
  LET mutated == \E c \in ended : cfgCalls[c].kind # "refresh"
  IN /\ cfgCalls' = CallEnds(cfgCalls, ended, IF ok THEN "ok" ELSE "failed")
     /\ CardSettles(ended, ok, toConfirm)
     /\ cu' = IF mutated /\ hook.alive
              THEN [hook EXCEPT !.busy = "none", !.error = IF ok THEN @ ELSE error]
              ELSE hook

Callers(waiters) == {w.call : w \in waiters} \ {0}

(* The waiters a generation settles.                                        *)
WaitersThrough(gen) == {w \in cu.waiters : w.gen <= gen}

Available(hook) == hook.alive /\ hook.connRef /\ hook.suppRef

(* refresh, behind its check.                                               *)
RefreshStarted(hook, call) ==
  LET gen == hook.latest + 1
  IN [hook EXCEPT !.latest = gen, !.loading = TRUE,
        !.gets = @ \cup {[gen |-> gen, st |-> "sent", answer |-> CfgAnswer]},
        !.waiters = @ \cup {[gen |-> gen, call |-> call]}]

(* All waiters are rejected, and no answer under way counts any more.       *)
RejectsAll(hook, error) ==
  CallsEnd([hook EXCEPT !.latest = @ + 1, !.waiters = {}], Callers(cu.waiters),
           FALSE, {}, error)

-----------------------------------------------------------------------------
(* The effects of the hook.                                                 *)

\* Behind setAuthority.
AuthorityEffect ==
  /\ cu.acked
  /\ LET settled == WaitersThrough(cu.shown.gen)
     IN CallsEnd([cu EXCEPT !.acked = FALSE, !.waiters = @ \ settled],
                 Callers(settled), TRUE, {}, "none")
  /\ UNCHANGED <<cfgFw, cfgEvents>>

\* Behind a render with another connection, summary or state of the board.
SummaryEffect ==
  /\ cu.due /\ cu.alive
  /\ LET hook == [cu EXCEPT !.due = FALSE, !.connRef = cu.conn, !.suppRef = cu.supp]
     IN IF ~hook.suppRef
        THEN RejectsAll([hook EXCEPT !.loading = FALSE, !.error = "none",
                                     !.shown = NoConfig, !.acked = FALSE], "other")
        ELSE IF ~hook.connRef THEN RejectsAll([hook EXCEPT !.loading = FALSE], "other")
        ELSE cu' = RefreshStarted(hook, 0) /\ UNCHANGED <<cfgCard, cfgCalls>>
  /\ UNCHANGED <<cfgFw, cfgEvents>>

(* The application renders: the board is lost, found, of another firmware,  *)
(* or in another state.                                                     *)
BoardRenders ==
  /\ cfgEvents < MaxCfgEvents /\ ~cu.due /\ cu.alive
  /\ \E conn, supp \in BOOLEAN : cu' = [cu EXCEPT !.conn = conn, !.supp = supp, !.due = TRUE]
  /\ cfgEvents' = cfgEvents + 1
  /\ UNCHANGED <<cfgFw, cfgCard, cfgCalls>>

HookUnmounts ==
  /\ cu.alive /\ cfgEvents = MaxCfgEvents
  /\ RejectsAll([cu EXCEPT !.alive = FALSE, !.due = FALSE], "other")
  /\ UNCHANGED <<cfgFw, cfgEvents>>

-----------------------------------------------------------------------------
(* The requests.                                                            *)

(* GET /config: read at the debugger, and answered later, or failed.        *)
GetServed(get) ==
  /\ get.st = "sent"
  /\ \E st \in {"read", "lost"} :
       cu' = [cu EXCEPT !.gets = (@ \ {get})
                                   \cup {[get EXCEPT !.st = st, !.answer = CfgAnswer]}]
  /\ UNCHANGED <<cfgFw, cfgCard, cfgCalls, cfgEvents>>

\* Mutant of Counts: any answer counts while the board is there.
CountsLate(get) == Available(cu)

(* Only the answer to the latest request counts.                            *)
Counts(get) == Available(cu) /\ get.gen = cu.latest

GetAnswered(get) ==
  LET hook == [cu EXCEPT !.gets = @ \ {get}]
      shown == [gen |-> get.gen, ver |-> get.answer.ver, saved |-> get.answer.saved,
                risk |-> get.answer.risk]
  IN /\ get.st # "sent"
     /\ IF ~Counts(get) THEN cu' = hook /\ UNCHANGED <<cfgCard, cfgCalls>>
        ELSE IF get.st = "read"
        THEN /\ cu' = [hook EXCEPT !.shown = shown, !.acked = TRUE, !.error = "none",
                                   !.loading = FALSE]
             /\ UNCHANGED <<cfgCard, cfgCalls>>
        ELSE LET settled == WaitersThrough(get.gen)
             IN CallsEnd([hook EXCEPT !.error = "other", !.loading = FALSE,
                                      !.waiters = @ \ settled],
                         Callers(settled), FALSE, {}, "other")
     /\ UNCHANGED <<cfgFw, cfgEvents>>

(* PUT and DELETE at the debugger: done or refused; whatever it did, the    *)
(* answer may be an error.                                                  *)
OpServed(c) ==
  LET call == cfgCalls[c]
      danger == {i \in call.ids : cfgFw.now[i] = "danger"}
      saved == [i \in CfgItems |-> IF i \in call.ids THEN cfgFw.now[i] ELSE "none"]
      Served(st, ver) == cfgCalls' = [cfgCalls EXCEPT ![c].st = st, ![c].ver = ver]
  IN /\ call.st = "op"
     /\ IF call.kind = "save" /\ danger # {} /\ ~call.confirm
        THEN /\ cfgCalls' = [cfgCalls EXCEPT ![c].st = "refused", ![c].asked = danger]
             /\ UNCHANGED cfgFw
        ELSE \/ Served("error", 0) /\ UNCHANGED cfgFw
             \/ \E st \in {"done", "error", "apply_failed"} :
                  /\ Served(st, cfgFw.ver + 1)
                  /\ cfgFw' = [cfgFw EXCEPT !.saved = saved, !.ver = @ + 1]
     /\ UNCHANGED <<cu, cfgCard, cfgEvents>>

(* The answer: mutate goes on to its refresh, or ends.                      *)
OpAnswered(c) ==
  /\ CASE cfgCalls[c].st = "done" ->
            IF ~Available(cu) THEN CallsEnd(cu, {c}, FALSE, {}, "other")
            ELSE /\ cu' = RefreshStarted(cu, c)
                 /\ cfgCalls' = [cfgCalls EXCEPT ![c].st = "wait"]
                 /\ UNCHANGED cfgCard
       [] cfgCalls[c].st = "refused" ->
            CallsEnd(cu, {c}, FALSE, cfgCalls[c].asked, "confirmation_required")
       [] cfgCalls[c].st \in {"error", "apply_failed"} ->
            CallsEnd(cu, {c}, FALSE, {}, cfgCalls[c].st)
       [] OTHER -> FALSE
  /\ UNCHANGED <<cfgFw, cfgEvents>>

-----------------------------------------------------------------------------
(* The card.  A save or clear takes the automation lock, which another task *)
(* of the page may hold.                                                    *)

(* What the card has to offer: nothing, a refresh, or its items.            *)
CardShows ==
  LET hidden == ~cu.supp \/ (~cu.conn /\ cu.shown.gen = 0)
      items == cu.shown.gen > 0
  IN IF hidden \/ (~items /\ cu.loading) THEN "nothing"
     ELSE IF items THEN "items" ELSE "refresh"
CardDisabled == ~cu.conn \/ cu.busy # "none" \/ cu.loading
Unused(c) == cfgCalls[c].st = "none" /\ \A d \in 1..(c - 1) : cfgCalls[d].st # "none"
Click == cfgEvents < MaxCfgEvents /\ cu.alive /\ cfgEvents' = cfgEvents + 1

(* runSave and runClear with the start of mutate: nothing else is in its    *)
(* queue, as the lock is there for one.                                     *)
RunMutation(kind, ids, asked, confirm) ==
  \/ cfgCard' = [cfgCard EXCEPT !.dialog = NoDialog] /\ UNCHANGED <<cu, cfgCalls>>
  \/ \E c \in CfgCalls :
       LET call == [st |-> "op", mount |-> cfgCard.mount, kind |-> kind, ids |-> ids,
                    asked |-> asked, confirm |-> confirm, ver |-> 0]
       IN /\ ~cfgCard.pending /\ Mutating = {} /\ Unused(c)
          /\ IF Available(cu)
             THEN /\ cfgCalls' = [cfgCalls EXCEPT ![c] = call]
                  /\ cu' = [cu EXCEPT !.busy = kind, !.error = "none"]
                  /\ cfgCard' = [cfgCard EXCEPT !.pending = TRUE, !.notice = "none",
                                                !.dialog = NoDialog]
             ELSE /\ cfgCalls' = [cfgCalls EXCEPT ![c] = [call EXCEPT !.st = "failed"]]
                  /\ cfgCard' = [cfgCard EXCEPT !.notice = "none", !.dialog = NoDialog]
                  /\ UNCHANGED cu

MayToggle(i) == CardShows = "items" /\ ~CardDisabled /\ i \in Visible

ToggleItem ==
  /\ Click
  /\ \E i \in CfgItems :
       /\ MayToggle(i)
       /\ cfgCard' = [cfgCard EXCEPT !.over[i] = IF i \in SelectedItems THEN "off" ELSE "on",
                                     !.notice = "none"]
  /\ UNCHANGED <<cfgFw, cu, cfgCalls>>

SaveClicked ==
  /\ Click /\ CardShows = "items" /\ ~CardDisabled /\ SelectedItems # {}
  /\ IF DangerousSelected = {} THEN RunMutation("save", SelectedItems, {}, FALSE)
     ELSE /\ cfgCard' = [cfgCard EXCEPT !.dialog = [kind |-> "save", ids |-> DangerousSelected,
                                                    selected |-> SelectedItems]]
          /\ UNCHANGED <<cu, cfgCalls>>
  /\ UNCHANGED cfgFw

ClearAsked ==
  /\ Click /\ CardShows = "items" /\ ~CardDisabled
  /\ \E i \in CfgItems : cu.shown.saved[i] # "none"
  /\ cfgCard' = [cfgCard EXCEPT !.dialog = [NoDialog EXCEPT !.kind = "clear"]]
  /\ UNCHANGED <<cfgFw, cu, cfgCalls>>

(* The dialog: its buttons, and Escape, are dead while a mutation runs.     *)
DialogCancelled ==
  /\ Click /\ cfgCard.dialog.kind # "none" /\ cu.busy = "none"
  /\ cfgCard' = [cfgCard EXCEPT !.dialog = NoDialog]
  /\ UNCHANGED <<cfgFw, cu, cfgCalls>>

DialogConfirmed ==
  LET dialog == cfgCard.dialog
  IN /\ Click /\ dialog.kind # "none" /\ cu.busy = "none"
     /\ RunMutation(dialog.kind, dialog.selected, dialog.ids, dialog.kind = "save")
     /\ UNCHANGED cfgFw

ConfigRefreshClicked ==
  /\ Click /\ CardShows # "nothing" /\ ~CardDisabled /\ ~cfgCard.pending
  /\ \E c \in CfgCalls :
       LET call == [NoCfgCall EXCEPT !.mount = cfgCard.mount, !.kind = "refresh"]
       IN /\ Unused(c)
          /\ IF Available(cu)
             THEN /\ cu' = RefreshStarted(cu, c)
                  /\ cfgCalls' = [cfgCalls EXCEPT ![c] = [call EXCEPT !.st = "wait"]]
                  /\ cfgCard' = [cfgCard EXCEPT !.pending = TRUE, !.notice = "none"]
             ELSE /\ cfgCalls' = [cfgCalls EXCEPT ![c] = [call EXCEPT !.st = "failed"]]
                  /\ cfgCard' = [cfgCard EXCEPT !.notice = "none"] /\ UNCHANGED cu
  /\ UNCHANGED cfgFw

(* Another section of the workspace and back: a card of its own.            *)
SectionChanged ==
  /\ Click /\ cfgCard' = CardMounted(cfgCard.mount + 1)
  /\ UNCHANGED <<cfgFw, cu, cfgCalls>>

(* A value changes at the debugger.                                         *)
HardwareChanges ==
  /\ cfgEvents < MaxCfgEvents /\ cfgEvents' = cfgEvents + 1
  /\ \E i \in CfgItems :
       cfgFw' = [cfgFw EXCEPT !.now[i] = IF @ = "safe" THEN "danger" ELSE "safe",
                              !.ver = @ + 1]
  /\ UNCHANGED <<cu, cfgCard, cfgCalls>>

ConfigGoesOn ==
  \/ AuthorityEffect \/ SummaryEffect
  \/ \E get \in cu.gets : GetServed(get) \/ GetAnswered(get)
  \/ \E c \in CfgCalls : OpServed(c) \/ OpAnswered(c)

ConfigUINext ==
  \/ ConfigGoesOn \/ BoardRenders \/ HookUnmounts \/ ToggleItem \/ SaveClicked
  \/ ClearAsked \/ DialogCancelled \/ DialogConfirmed \/ ConfigRefreshClicked
  \/ SectionChanged \/ HardwareChanges

(* Effects run, and requests are answered or fail.                          *)
ConfigUIFairSpec ==
  ConfigUIInit /\ [][ConfigUINext]_configUIVars /\ WF_configUIVars(ConfigGoesOn)

-----------------------------------------------------------------------------
\* Whoever waits for a configuration waits for one that can come: behind every
\* waiter is the request of the latest generation, or the effect of its answer
\* (refresh, waitForAuthority, rejectWaitersThrough).
NobodyForgotten ==
  \A w \in cu.waiters :
    /\ w.gen <= cu.latest
    /\ (cu.acked /\ w.gen <= cu.shown.gen) \/ \E get \in cu.gets : get.gen = cu.latest

\* "Saved" and "cleared" are said of what the page shows: once a mutation ended
\* well, the configuration shown was read behind it (mutate awaits its refresh),
\* also when answers come out of order.
ShowsWhatWasSaved ==
  \A c \in CfgCalls :
    cfgCalls[c].st = "ok" /\ cfgCalls[c].kind # "refresh" /\ cu.shown.gen > 0
      => cu.shown.ver >= cfgCalls[c].ver

\* A save is confirmed only as the answer to a dialog that named dangerous items,
\* and what that dialog named is among what is sent: the page never confirms on its
\* own, not after a refusal either, and neither a change of the selection nor
\* another dialog comes between (confirm, runSave).  The dialog need not have named
\* all that is dangerous: the confirmation is for all of the ids that are sent, and
\* covers an item of them that turned dangerous meanwhile, or that was shown with
\* the risk of the value saved before.
AskedIsSent ==
  \A c \in CfgCalls :
    LET call == cfgCalls[c]
    IN call.confirm => call.asked # {} /\ call.asked \subseteq call.ids

\* The buttons tell the truth: busy and the lock belong to the one mutation that
\* runs, also behind a card that is gone; a card refuses clicks exactly while a
\* call of its own is out.
BusyWhileMutating ==
  /\ Cardinality(Mutating) <= 1
  /\ cu.alive => (cu.busy # "none" <=> Mutating # {})
  /\ cfgCard.pending
       <=> \E c \in CfgCalls : CfgWaiting(cfgCalls[c]) /\ cfgCalls[c].mount = cfgCard.mount

\* What holds of the configuration page.
ConfigPageIsSound ==
  /\ NobodyForgotten
  /\ ShowsWhatWasSaved
  /\ AskedIsSent
  /\ BusyWhileMutating

\* A call is out, or the page loads.
ConfigUnderWay == cu.waiters # {} \/ \E c \in CfgCalls : CfgWaiting(cfgCalls[c])
=============================================================================
