---------------------------- MODULE ConfigUI_proofs ----------------------------
(***************************************************************************)
(* Proofs about ConfigUI: for any catalog, any number of calls and any     *)
(* number of events, the configuration page is sound.                      *)
(*                                                                         *)
(* The inductive invariant relates every waiter to the requests that can   *)
(* settle it: a request of its generation, or a later one, was read behind *)
(* the change its call made; and it keeps one call out per card.           *)
(***************************************************************************)
EXTENDS ConfigUI, FiniteSetTheorems, TLAPS

-----------------------------------------------------------------------------
(* Types.                                                                   *)
CfgValues == {"none", "safe", "danger"}
CfgAnswers == [ver : Nat, saved : [CfgItems -> CfgValues], risk : [CfgItems -> CfgValues]]
CfgShown ==
  [gen : Nat, ver : Nat, saved : [CfgItems -> CfgValues], risk : [CfgItems -> CfgValues]]
CfgGets == [gen : Nat, st : {"sent", "read", "lost"}, answer : CfgAnswers]
CfgWaiters == [gen : Nat, call : {0} \cup CfgCalls]
CfgDialogs ==
  [kind : {"none", "save", "clear"}, ids : SUBSET CfgItems, selected : SUBSET CfgItems]

FwType ==
  cfgFw \in [now : [CfgItems -> CfgValues], saved : [CfgItems -> CfgValues], ver : Nat]

CfgErrors == {"none", "other", "confirmation_required", "error", "apply_failed"}
HookTypes ==
  [conn : BOOLEAN, supp : BOOLEAN, due : BOOLEAN, connRef : BOOLEAN,
   suppRef : BOOLEAN, alive : BOOLEAN, latest : Nat, acked : BOOLEAN,
   shown : CfgShown, gets : SUBSET CfgGets, waiters : SUBSET CfgWaiters,
   loading : BOOLEAN, busy : {"none", "save", "clear"},
   error : CfgErrors]
HookType == cu \in HookTypes

CardTypes ==
  [mount : Nat, over : [CfgItems -> {"none", "on", "off"}], dialog : CfgDialogs,
   pending : BOOLEAN, notice : {"none", "refreshed", "save", "clear"}]
CardType == cfgCard \in CardTypes

CfgCallTypes ==
  [st : {"none", "op", "done", "error", "apply_failed", "refused", "wait", "ok", "failed"},
   mount : Nat, kind : {"none", "refresh", "save", "clear"}, ids : SUBSET CfgItems,
   asked : SUBSET CfgItems, confirm : BOOLEAN, ver : Nat]
CallsType == cfgCalls \in [CfgCalls -> CfgCallTypes]

-----------------------------------------------------------------------------
(* What a mutation changed at the debugger.                                 *)
Changes(c) == cfgCalls[c].kind # "refresh"

(* Nothing is newer than the debugger, no request is of a later generation. *)
NothingIsNewer ==
  /\ cu.shown.gen <= cu.latest /\ cu.shown.ver <= cfgFw.ver
  /\ \A get \in cu.gets : get.gen <= cu.latest /\ get.answer.ver <= cfgFw.ver
  /\ \A c \in CfgCalls : cfgCalls[c].ver <= cfgFw.ver

(* Waiters are there while the board is; each call among them is at its     *)
(* last await, and whatever can settle it was read behind its change.       *)
WaitersWait ==
  /\ cu.waiters # {} => Available(cu)
  /\ \A v, w \in cu.waiters : v.call = w.call /\ v.call # 0 => v = w
  /\ \A w \in cu.waiters :
       w.call # 0 =>
         /\ cfgCalls[w.call].st = "wait"
         /\ \A get \in cu.gets :
              get.gen >= w.gen => get.answer.ver >= cfgCalls[w.call].ver
         /\ cu.shown.gen >= w.gen => cu.shown.ver >= cfgCalls[w.call].ver

(* What may still be shown was read behind every mutation that ended well.  *)
LatestIsBehind ==
  \A c \in CfgCalls : cfgCalls[c].st = "ok" /\ Changes(c) =>
    \A get \in cu.gets : get.gen = cu.latest => get.answer.ver >= cfgCalls[c].ver

(* A dialog to save asks for items that are selected, and so does a refusal.*)
AsksForSelected ==
  /\ cfgCard.dialog.kind = "save" =>
       cfgCard.dialog.ids # {} /\ cfgCard.dialog.ids \subseteq cfgCard.dialog.selected
  /\ \A c \in CfgCalls : cfgCalls[c].st = "refused" =>
       cfgCalls[c].asked # {} /\ cfgCalls[c].asked \subseteq cfgCalls[c].ids
  /\ \A c \in CfgCalls : cfgCalls[c].st # "none" => cfgCalls[c].kind # "none"

(* One call is out per card, and of the page one mutation.                  *)
Own(c) == CfgWaiting(cfgCalls[c]) /\ cfgCalls[c].mount = cfgCard.mount
OneCallPerCard ==
  /\ \A c \in CfgCalls : cfgCalls[c].mount <= cfgCard.mount
  /\ \A c, d \in CfgCalls : Own(c) /\ Own(d) => c = d
  /\ cfgCard.pending = TRUE <=> \E c \in CfgCalls : Own(c)
OneMutation ==
  /\ \A c, d \in Mutating : c = d
  /\ cu.alive = TRUE => (cu.busy # "none" <=> Mutating # {})

CfgTypeOK == FwType /\ HookType /\ CardType /\ CallsType

CfgIInv ==
  /\ CfgTypeOK
  /\ NothingIsNewer /\ WaitersWait /\ LatestIsBehind
  /\ AsksForSelected /\ OneCallPerCard /\ OneMutation
  /\ NobodyForgotten /\ ShowsWhatWasSaved /\ AskedIsSent

-----------------------------------------------------------------------------
(* The end of calls.                                                        *)

\* A call that ends keeps what it was asked; its record says how it ended.
LEMMA EndedCalls ==
  ASSUME CallsType, NEW ended \in SUBSET CfgCalls, NEW outcome \in {"ok", "failed"},
         cfgCalls' = CallEnds(cfgCalls, ended, outcome)
  PROVE  /\ CallsType'
         /\ \A c \in CfgCalls :
              /\ cfgCalls'[c].mount = cfgCalls[c].mount
              /\ cfgCalls'[c].kind = cfgCalls[c].kind
              /\ cfgCalls'[c].ids = cfgCalls[c].ids
              /\ cfgCalls'[c].asked = cfgCalls[c].asked
              /\ cfgCalls'[c].confirm = cfgCalls[c].confirm
              /\ cfgCalls'[c].ver = cfgCalls[c].ver
              /\ cfgCalls'[c].st = IF c \in ended THEN outcome ELSE cfgCalls[c].st
<1>1. \A c \in CfgCalls : cfgCalls[c] \in CfgCallTypes
  BY DEF CallsType
<1>2. \A c \in CfgCalls :
        cfgCalls'[c] = IF c \in ended THEN [cfgCalls[c] EXCEPT !.st = outcome]
                       ELSE cfgCalls[c]
  BY DEF CallEnds
<1>3. ASSUME NEW c \in CfgCalls PROVE cfgCalls'[c] \in CfgCallTypes
  <2>1. PICK call \in CfgCallTypes : call = cfgCalls[c]
    BY <1>1
  <2>2. [call EXCEPT !.st = outcome] \in CfgCallTypes
    BY <2>1 DEF CfgCallTypes
  <2>3. QED
    BY <1>2, <2>1, <2>2
<1>4. CallsType'
  BY <1>3 DEF CallsType, CallEnds
<1>5. QED
  BY <1>1, <1>2, <1>4 DEF CfgCallTypes

\* The card behind it has its type and its mount, and is pending no more if the
\* call was its own.
LEMMA SettledCard ==
  ASSUME CardType, CallsType, NEW ended \in SUBSET CfgCalls, NEW ok \in BOOLEAN,
         NEW toConfirm \in SUBSET CfgItems, CardSettles(ended, ok, toConfirm),
         \A c \in ended : cfgCalls[c].kind # "none",
         \A c \in ended : toConfirm \subseteq cfgCalls[c].ids,
         AsksForSelected
  PROVE  /\ CardType'
         /\ cfgCard'.mount = cfgCard.mount
         /\ cfgCard'.pending =
              IF \E c \in ended : cfgCalls[c].mount = cfgCard.mount THEN FALSE
              ELSE cfgCard.pending
         /\ cfgCard'.dialog.kind = "save" =>
              /\ cfgCard'.dialog.ids # {}
              /\ cfgCard'.dialog.ids \subseteq cfgCard'.dialog.selected
<1>1. CASE (\A c \in ended : cfgCalls[c].mount # cfgCard.mount) /\ UNCHANGED cfgCard
  BY <1>1 DEF CardType, AsksForSelected
<1>2. ASSUME NEW c \in ended, cfgCalls[c].mount = cfgCard.mount,
             cfgCard' = CardAfter(cfgCard, cfgCalls[c], ok, toConfirm)
      PROVE  /\ CardType'
             /\ cfgCard'.mount = cfgCard.mount
             /\ cfgCard'.pending = FALSE
             /\ cfgCard'.dialog.kind = "save" =>
                  /\ cfgCard'.dialog.ids # {}
                  /\ cfgCard'.dialog.ids \subseteq cfgCard'.dialog.selected
  <2>1. PICK call \in CfgCallTypes : call = cfgCalls[c]
    BY DEF CallsType
  <2>2. PICK card \in CardTypes : card = cfgCard
    BY DEF CardType
  <2>3. CASE call.kind = "refresh"
    BY <1>2, <2>1, <2>2, <2>3 DEF CardAfter, CardTypes, CardType, AsksForSelected
  <2>4. CASE call.kind # "refresh" /\ ok
    <3>1. NoDialog \in CfgDialogs /\ NoDialog.kind = "none"
      BY DEF NoDialog, CfgDialogs
    <3>2. PICK over \in [CfgItems -> {"none", "on", "off"}] :
            over = [i \in CfgItems |-> IF call.kind = "clear" THEN "none"
                                       ELSE IF i \in call.ids THEN "off" ELSE card.over[i]]
      BY <2>2 DEF CardTypes
    <3>3. cfgCard' = [card EXCEPT !.pending = FALSE, !.dialog = NoDialog,
                                  !.notice = call.kind, !.over = over]
      BY <1>2, <2>1, <2>2, <2>4, <3>2 DEF CardAfter
    <3>4. call.kind \in {"save", "clear"}
      BY <2>1, <2>4 DEF CfgCallTypes
    <3>5. QED
      BY <2>2, <3>1, <3>2, <3>3, <3>4 DEF CardTypes, CardType
  <2>5. CASE call.kind # "refresh" /\ ~ok
    <3>1. PICK dialog : dialog = IF toConfirm = {} THEN NoDialog
                                 ELSE [kind |-> "save", ids |-> toConfirm,
                                       selected |-> call.ids]
      OBVIOUS
    <3>2. dialog \in CfgDialogs
      BY <2>1, <3>1 DEF CfgDialogs, NoDialog, CfgCallTypes
    <3>3. dialog.kind = "save" => dialog.ids # {} /\ dialog.ids \subseteq dialog.selected
      BY <2>1, <3>1 DEF NoDialog
    <3>4. cfgCard' = [card EXCEPT !.pending = FALSE, !.dialog = dialog]
      BY <1>2, <2>1, <2>2, <2>5, <3>1 DEF CardAfter
    <3>5. QED
      BY <2>2, <3>2, <3>3, <3>4 DEF CardTypes, CardType
  <2>6. QED
    BY <2>3, <2>4, <2>5
<1>3. QED
  BY <1>1, <1>2 DEF CardSettles

\* The hook behind the end of calls differs from the one it was given in the
\* error, and in busy, which is "none" if a mutation ended.
LEMMA SettledHook ==
  ASSUME NEW hook \in HookTypes, NEW ended \in SUBSET CfgCalls, NEW ok \in BOOLEAN,
         NEW toConfirm, NEW error \in CfgErrors, CallsEnd(hook, ended, ok, toConfirm, error)
  PROVE  /\ HookType'
         /\ cu'.alive = hook.alive /\ cu'.connRef = hook.connRef
         /\ cu'.suppRef = hook.suppRef /\ cu'.latest = hook.latest
         /\ cu'.acked = hook.acked /\ cu'.shown = hook.shown
         /\ cu'.gets = hook.gets /\ cu'.waiters = hook.waiters
         /\ cu'.busy = IF hook.alive /\ \E c \in ended : Changes(c) THEN "none" ELSE hook.busy
<1>1. PICK err \in CfgErrors : err = IF ok THEN hook.error ELSE error
  BY DEF HookTypes
<1>2. cu' = IF (\E c \in ended : Changes(c)) /\ hook.alive
            THEN [hook EXCEPT !.busy = "none", !.error = err] ELSE hook
  BY <1>1 DEF CallsEnd, Changes
<1>3. [hook EXCEPT !.busy = "none", !.error = err] \in HookTypes
  BY <1>1 DEF HookTypes
<1>4. CASE (\E c \in ended : Changes(c)) /\ hook.alive
  BY <1>2, <1>3, <1>4 DEF HookType, HookTypes
<1>5. CASE ~((\E c \in ended : Changes(c)) /\ hook.alive)
  BY <1>2, <1>5 DEF HookType, HookTypes
<1>6. QED
  BY <1>4, <1>5

\* What an effect or an answer may do to the hook when it ends calls: it keeps
\* the requests of the latest generation, or gives up all waiters.
EndsSoundly(hook, ended, ok) ==
  /\ hook.busy = cu.busy /\ (hook.alive = TRUE => cu.alive = TRUE)
  /\ hook.gets \subseteq cu.gets /\ hook.waiters \subseteq cu.waiters
  /\ hook.latest >= cu.latest
  /\ hook.shown = cu.shown \/ hook.shown = NoConfig
  /\ \A c \in ended : CfgWaiting(cfgCalls[c])
  /\ \A w \in hook.waiters : w.call \notin ended
  /\ hook.waiters # {} => Available(hook) /\ hook.shown = cu.shown
  /\ \A w \in hook.waiters :
       \/ hook.acked = TRUE /\ w.gen <= hook.shown.gen
       \/ \E get \in hook.gets : get.gen = hook.latest
  /\ ok => \A c \in ended : Changes(c) =>
       /\ \A get \in hook.gets : get.gen = hook.latest => get.answer.ver >= cfgCalls[c].ver
       /\ hook.shown.gen > 0 => hook.shown.ver >= cfgCalls[c].ver

LEMMA CallsEndKeeps ==
  ASSUME CfgIInv, UNCHANGED cfgFw, NEW hook \in HookTypes, NEW ended \in SUBSET CfgCalls,
         NEW ok \in BOOLEAN, NEW toConfirm \in SUBSET CfgItems, NEW error \in CfgErrors,
         CallsEnd(hook, ended, ok, toConfirm, error), EndsSoundly(hook, ended, ok),
         \A c \in ended : toConfirm \subseteq cfgCalls[c].ids
  PROVE  CfgIInv'
<1>1. cfgCalls' = CallEnds(cfgCalls, ended, IF ok THEN "ok" ELSE "failed")
  BY DEF CallsEnd
<1>2. PICK outcome \in {"ok", "failed"} : outcome = IF ok THEN "ok" ELSE "failed"
  OBVIOUS
<1>3. /\ CallsType'
      /\ \A c \in CfgCalls :
           /\ cfgCalls'[c].mount = cfgCalls[c].mount
           /\ cfgCalls'[c].kind = cfgCalls[c].kind
           /\ cfgCalls'[c].ids = cfgCalls[c].ids
           /\ cfgCalls'[c].asked = cfgCalls[c].asked
           /\ cfgCalls'[c].confirm = cfgCalls[c].confirm
           /\ cfgCalls'[c].ver = cfgCalls[c].ver
           /\ cfgCalls'[c].st = IF c \in ended THEN outcome ELSE cfgCalls[c].st
  BY <1>1, <1>2, EndedCalls DEF CfgIInv, CfgTypeOK
<1>4. /\ CardType'
      /\ cfgCard'.mount = cfgCard.mount
      /\ cfgCard'.pending =
           IF \E c \in ended : cfgCalls[c].mount = cfgCard.mount THEN FALSE
           ELSE cfgCard.pending
      /\ cfgCard'.dialog.kind = "save" =>
           /\ cfgCard'.dialog.ids # {}
           /\ cfgCard'.dialog.ids \subseteq cfgCard'.dialog.selected
  <2>1. \A c \in ended : cfgCalls[c].kind # "none"
    BY DEF CfgIInv, AsksForSelected, EndsSoundly, CfgWaiting
  <2>2. CardSettles(ended, ok, toConfirm)
    BY DEF CallsEnd
  <2>3. QED
    BY <2>1, <2>2, SettledCard DEF CfgIInv, CfgTypeOK
<1>5. /\ HookType'
      /\ cu'.alive = hook.alive /\ cu'.connRef = hook.connRef
      /\ cu'.suppRef = hook.suppRef /\ cu'.latest = hook.latest
      /\ cu'.acked = hook.acked /\ cu'.shown = hook.shown
      /\ cu'.gets = hook.gets /\ cu'.waiters = hook.waiters
      /\ cu'.busy = IF hook.alive /\ \E c \in ended : Changes(c) THEN "none" ELSE hook.busy
  BY SettledHook
<1>6. cfgFw' = cfgFw /\ CfgTypeOK'
  BY <1>3, <1>4, <1>5 DEF CfgIInv, CfgTypeOK, FwType
<1>7. /\ HookType /\ CallsType /\ FwType /\ CardType
      /\ NothingIsNewer /\ WaitersWait /\ LatestIsBehind
      /\ AsksForSelected /\ OneCallPerCard /\ OneMutation
      /\ NobodyForgotten /\ ShowsWhatWasSaved /\ AskedIsSent
  BY DEF CfgIInv, CfgTypeOK
<1>8. cu \in HookTypes /\ cfgFw.ver \in Nat /\ NoConfig.gen = 0 /\ NoConfig.ver = 0
  BY <1>7 DEF HookType, FwType, NoConfig
<1>9. /\ \A get \in cu.gets : get.gen \in Nat /\ get.answer.ver \in Nat
      /\ \A w \in cu.waiters : w.gen \in Nat /\ w.call \in {0} \cup CfgCalls
      /\ cu.latest \in Nat /\ hook.latest \in Nat /\ cu.shown.gen \in Nat
      /\ cu.shown.ver \in Nat /\ hook.shown.gen \in Nat /\ hook.shown.ver \in Nat
      /\ \A c \in CfgCalls : cfgCalls[c].ver \in Nat /\ cfgCalls[c].mount \in Nat
  BY <1>7, <1>8 DEF HookTypes, CfgGets, CfgAnswers, CfgWaiters, CfgShown, CallsType, CfgCallTypes
<1>10. NothingIsNewer'
  BY <1>3, <1>5, <1>6, <1>7, <1>8, <1>9 DEF NothingIsNewer, EndsSoundly
<1>11. WaitersWait'
  <2>1. cu'.waiters # {} => Available(cu)'
    BY <1>5 DEF EndsSoundly, Available
  <2>2. ASSUME NEW w \in cu'.waiters, w.call # 0
        PROVE  /\ cfgCalls'[w.call].st = "wait"
               /\ \A get \in cu'.gets :
                    get.gen >= w.gen => get.answer.ver >= cfgCalls'[w.call].ver
               /\ cu'.shown.gen >= w.gen => cu'.shown.ver >= cfgCalls'[w.call].ver
    <3>1. w \in cu.waiters /\ w.call \notin ended /\ cu'.shown = cu.shown
      BY <1>5, <2>2 DEF EndsSoundly
    <3>2. w.call \in CfgCalls /\ cu'.gets \subseteq cu.gets
      BY <1>5, <1>9, <2>2, <3>1 DEF EndsSoundly
    <3>3. QED
      BY <1>3, <1>7, <2>2, <3>1, <3>2 DEF WaitersWait
  <2>3. \A v, w \in cu'.waiters : v.call = w.call /\ v.call # 0 => v = w
    BY <1>5, <1>7 DEF EndsSoundly, WaitersWait
  <2>4. QED
    BY <2>1, <2>2, <2>3 DEF WaitersWait
<1>12. LatestIsBehind'
  <2>1. SUFFICES ASSUME NEW c \in CfgCalls, cfgCalls'[c].st = "ok", cfgCalls'[c].kind # "refresh",
                        NEW get \in cu'.gets, get.gen = cu'.latest
                 PROVE  get.answer.ver >= cfgCalls'[c].ver
    BY DEF LatestIsBehind, Changes
  <2>2. cfgCalls'[c].ver = cfgCalls[c].ver /\ Changes(c)
    BY <1>3, <2>1 DEF Changes
  <2>3. CASE c \in ended
    BY <1>2, <1>3, <1>5, <2>1, <2>2, <2>3 DEF EndsSoundly
  <2>4. CASE c \notin ended
    <3>1. cfgCalls[c].st = "ok" /\ get \in cu.gets /\ get.gen >= cu.latest
      BY <1>3, <1>5, <2>1, <2>4 DEF EndsSoundly
    <3>2. get.gen = cu.latest
      BY <1>7, <1>9, <3>1 DEF NothingIsNewer
    <3>3. QED
      BY <1>7, <2>2, <3>1, <3>2 DEF LatestIsBehind
  <2>5. QED
    BY <2>3, <2>4
<1>13. AsksForSelected'
  BY <1>2, <1>3, <1>4, <1>7 DEF AsksForSelected, EndsSoundly, CfgWaiting
<1>14. \A c \in CfgCalls :
         /\ Own(c)' <=> Own(c) /\ c \notin ended
         /\ CfgWaiting(cfgCalls[c])' <=> CfgWaiting(cfgCalls[c]) /\ c \notin ended
  BY <1>2, <1>3, <1>4 DEF Own, CfgWaiting
<1>15. OneCallPerCard'
  <2>1. (\E c \in ended : cfgCalls[c].mount = cfgCard.mount) <=> \E c \in ended : Own(c)
    BY DEF EndsSoundly, Own
  <2>2. cfgCard'.pending = TRUE <=> \E c \in CfgCalls : Own(c)'
    <3>1. CASE \E c \in ended : Own(c)
      BY <1>4, <1>7, <1>14, <2>1, <3>1 DEF OneCallPerCard
    <3>2. CASE ~\E c \in ended : Own(c)
      BY <1>4, <1>7, <1>14, <2>1, <3>2 DEF OneCallPerCard
    <3>3. QED
      BY <3>1, <3>2
  <2>3. QED
    BY <1>3, <1>4, <1>7, <1>14, <2>2 DEF OneCallPerCard
<1>16. OneMutation'
  <2>1. Mutating' = Mutating \ ended
    BY <1>3, <1>14 DEF Mutating
  <2>2. (\E c \in ended : Changes(c)) <=> Mutating \cap ended # {}
    BY DEF Mutating, Changes, EndsSoundly
  <2>3. \A c, d \in Mutating' : c = d
    BY <1>7, <2>1 DEF OneMutation
  <2>4. ASSUME cu'.alive = TRUE PROVE cu'.busy # "none" <=> Mutating' # {}
    <3>1. cu.alive = TRUE /\ hook.alive = TRUE /\ hook.busy = cu.busy
      BY <1>5, <2>4 DEF EndsSoundly
    <3>2. CASE Mutating \cap ended # {}
      BY <1>5, <1>7, <2>1, <2>2, <3>1, <3>2 DEF OneMutation
    <3>3. CASE Mutating \cap ended = {}
      BY <1>5, <1>7, <2>1, <2>2, <3>1, <3>3 DEF OneMutation
    <3>4. QED
      BY <3>2, <3>3
  <2>5. QED
    BY <2>3, <2>4 DEF OneMutation
<1>17. NobodyForgotten'
  BY <1>5, <1>7, <1>9 DEF NobodyForgotten, EndsSoundly
<1>18. ShowsWhatWasSaved'
  <2>1. SUFFICES ASSUME NEW c \in CfgCalls, cfgCalls'[c].st = "ok", cfgCalls'[c].kind # "refresh",
                        cu'.shown.gen > 0
                 PROVE  cu'.shown.ver >= cfgCalls'[c].ver
    BY DEF ShowsWhatWasSaved
  <2>2. cfgCalls'[c].ver = cfgCalls[c].ver /\ Changes(c)
    BY <1>3, <2>1 DEF Changes
  <2>3. CASE c \in ended
    BY <1>2, <1>3, <1>5, <2>1, <2>2, <2>3 DEF EndsSoundly
  <2>4. CASE c \notin ended
    BY <1>3, <1>5, <1>7, <1>8, <2>1, <2>2, <2>4 DEF EndsSoundly, ShowsWhatWasSaved, Changes
  <2>5. QED
    BY <2>3, <2>4
<1>19. AskedIsSent'
  BY <1>3, <1>7 DEF AskedIsSent
<1>20. QED
  BY <1>6, <1>10, <1>11, <1>12, <1>13, <1>15, <1>16, <1>17, <1>18, <1>19 DEF CfgIInv

-----------------------------------------------------------------------------
(* A refresh.                                                               *)

\* Its request reads the debugger behind everything that has changed it, and
\* is the one all waiters can wait for.
LEMMA RefreshKeeps ==
  ASSUME CfgIInv, UNCHANGED cfgFw, NEW hook \in HookTypes, NEW call \in {0} \cup CfgCalls,
         Available(hook), hook.alive = cu.alive, hook.latest = cu.latest,
         hook.gets = cu.gets, hook.waiters = cu.waiters, hook.shown = cu.shown,
         hook.acked = cu.acked, cu' = RefreshStarted(hook, call),
         \A c \in CfgCalls : c # call => cfgCalls'[c] = cfgCalls[c],
         call # 0 => /\ cfgCalls[call].st # "wait" /\ cfgCalls'[call].st = "wait"
                     /\ cfgCalls'[call].ver \in Nat /\ cfgCalls'[call].ver <= cfgFw.ver
  PROVE  /\ HookType' /\ cu'.busy = hook.busy /\ cu'.alive = cu.alive
         /\ NothingIsNewer' /\ WaitersWait' /\ LatestIsBehind'
         /\ NobodyForgotten' /\ ShowsWhatWasSaved'
<1>1. /\ HookType /\ CallsType /\ FwType
      /\ NothingIsNewer /\ WaitersWait /\ LatestIsBehind
      /\ NobodyForgotten /\ ShowsWhatWasSaved
  BY DEF CfgIInv, CfgTypeOK
<1>2. PICK get \in CfgGets :
        get = [gen |-> hook.latest + 1, st |-> "sent", answer |-> CfgAnswer]
  <2>1. \A i \in CfgItems : cfgFw.now[i] \in CfgValues /\ cfgFw.saved[i] \in CfgValues
    BY <1>1 DEF FwType
  <2>2. cfgFw.ver \in Nat /\ cfgFw.saved \in [CfgItems -> CfgValues]
    BY <1>1 DEF FwType
  <2>3. [i \in CfgItems |-> IF cfgFw.saved[i] # "none" THEN cfgFw.saved[i] ELSE cfgFw.now[i]]
          \in [CfgItems -> CfgValues]
    BY <2>1
  <2>4. CfgAnswer \in CfgAnswers
    BY <2>2, <2>3 DEF CfgAnswer, CfgAnswers
  <2>5. hook.latest + 1 \in Nat
    BY DEF HookTypes
  <2>6. QED
    BY <2>4, <2>5 DEF CfgGets
<1>3. get.gen = cu.latest + 1 /\ get.answer.ver = cfgFw.ver
  BY <1>2 DEF CfgAnswer
<1>4. PICK w \in CfgWaiters : w = [gen |-> hook.latest + 1, call |-> call]
  <2>1. PICK gen \in Nat : gen = hook.latest + 1
    BY DEF HookTypes
  <2>2. [gen |-> gen, call |-> call] \in CfgWaiters
    BY DEF CfgWaiters
  <2>3. QED
    BY <2>1, <2>2
<1>5. w.gen = cu.latest + 1 /\ w.call = call
  BY <1>4
<1>6. cu' = [hook EXCEPT !.latest = @ + 1, !.loading = TRUE, !.gets = @ \cup {get},
                         !.waiters = @ \cup {w}]
  BY <1>2, <1>4 DEF RefreshStarted, HookTypes
<1>7. /\ cu'.latest = cu.latest + 1 /\ cu'.gets = cu.gets \cup {get}
      /\ cu'.waiters = cu.waiters \cup {w}
      /\ cu'.shown = cu.shown /\ cu'.acked = cu.acked /\ cu'.alive = cu.alive
      /\ cu'.busy = hook.busy /\ Available(cu)'
  BY <1>6 DEF HookTypes, Available
<1>8. HookType'
  <2>1. hook.latest + 1 \in Nat /\ hook.gets \cup {get} \in SUBSET CfgGets
        /\ hook.waiters \cup {w} \in SUBSET CfgWaiters
    BY DEF HookTypes
  <2>2. QED
    BY <1>6, <2>1 DEF HookType, HookTypes
<1>9. /\ \A g \in cu.gets : g.gen \in Nat /\ g.answer.ver \in Nat
      /\ \A v \in cu.waiters : v.gen \in Nat /\ v.call \in {0} \cup CfgCalls
      /\ cu.latest \in Nat /\ cu.shown.gen \in Nat /\ cu.shown.ver \in Nat
      /\ \A c \in CfgCalls : cfgCalls[c].ver \in Nat
      /\ cfgFw.ver \in Nat /\ cfgFw' = cfgFw
  BY <1>1 DEF HookType, HookTypes, CfgGets, CfgAnswers, CfgWaiters, CfgShown, CallsType,
              CfgCallTypes, FwType
<1>10. 0 \notin CfgCalls
  BY ConfigAssumption DEF CfgCalls
<1>11. NothingIsNewer'
  BY <1>1, <1>3, <1>7, <1>9, <1>10 DEF NothingIsNewer
<1>12. WaitersWait'
  <2>1. \A v \in cu.waiters : v.call # 0 => v.call # call
    BY <1>1 DEF WaitersWait
  <2>2. \A u, v \in cu'.waiters : u.call = v.call /\ u.call # 0 => u = v
    BY <1>1, <1>5, <1>7, <2>1 DEF WaitersWait
  <2>3. ASSUME NEW v \in cu.waiters, v.call # 0
        PROVE  /\ cfgCalls'[v.call].st = "wait"
               /\ \A g \in cu'.gets :
                    g.gen >= v.gen => g.answer.ver >= cfgCalls'[v.call].ver
               /\ cu'.shown.gen >= v.gen => cu'.shown.ver >= cfgCalls'[v.call].ver
    <3>1. cfgCalls'[v.call] = cfgCalls[v.call] /\ v.call \in CfgCalls
      BY <1>9, <2>1, <2>3
    <3>2. get.answer.ver >= cfgCalls[v.call].ver
      BY <1>1, <1>3, <1>9, <3>1 DEF NothingIsNewer
    <3>3. QED
      BY <1>1, <1>7, <2>3, <3>1, <3>2 DEF WaitersWait
  <2>4. ASSUME call # 0
        PROVE  /\ cfgCalls'[call].st = "wait"
               /\ \A g \in cu'.gets :
                    g.gen >= w.gen => g.answer.ver >= cfgCalls'[call].ver
               /\ cu'.shown.gen >= w.gen => cu'.shown.ver >= cfgCalls'[call].ver
    BY <1>1, <1>3, <1>5, <1>7, <1>9, <2>4 DEF NothingIsNewer
  <2>5. \A v \in cu'.waiters : v.call # 0 =>
          /\ cfgCalls'[v.call].st = "wait"
          /\ \A g \in cu'.gets : g.gen >= v.gen => g.answer.ver >= cfgCalls'[v.call].ver
          /\ cu'.shown.gen >= v.gen => cu'.shown.ver >= cfgCalls'[v.call].ver
    BY <1>5, <1>7, <2>3, <2>4
  <2>6. QED
    BY <1>7, <2>2, <2>5 DEF WaitersWait
<1>13. LatestIsBehind'
  <2>1. SUFFICES ASSUME NEW c \in CfgCalls, cfgCalls'[c].st = "ok", cfgCalls'[c].kind # "refresh",
                        NEW g \in cu'.gets, g.gen = cu'.latest
                 PROVE  g.answer.ver >= cfgCalls'[c].ver
    BY DEF LatestIsBehind, Changes
  <2>2. cfgCalls'[c] = cfgCalls[c]
    BY <1>10, <2>1
  <2>3. g = get
    BY <1>1, <1>7, <1>9, <2>1 DEF NothingIsNewer
  <2>4. QED
    BY <1>1, <1>3, <1>9, <2>2, <2>3 DEF NothingIsNewer
<1>14. NobodyForgotten'
  BY <1>1, <1>3, <1>5, <1>7, <1>9 DEF NobodyForgotten
<1>15. ShowsWhatWasSaved'
  <2>1. SUFFICES ASSUME NEW c \in CfgCalls, cfgCalls'[c].st = "ok", cfgCalls'[c].kind # "refresh",
                        cu'.shown.gen > 0
                 PROVE  cu'.shown.ver >= cfgCalls'[c].ver
    BY DEF ShowsWhatWasSaved
  <2>2. cfgCalls'[c] = cfgCalls[c]
    BY <1>10, <2>1
  <2>3. QED
    BY <1>1, <1>7, <2>1, <2>2 DEF ShowsWhatWasSaved
<1>16. QED
  BY <1>7, <1>8, <1>11, <1>12, <1>13, <1>14, <1>15

-----------------------------------------------------------------------------
(* The effects.                                                             *)

\* The callers of waiters are calls at their last await, each with one waiter.
LEMMA CallersWait ==
  ASSUME CfgIInv, NEW settled \in SUBSET cu.waiters
  PROVE  /\ Callers(settled) \in SUBSET CfgCalls
         /\ \A c \in Callers(settled) : cfgCalls[c].st = "wait"
         /\ \A w \in cu.waiters \ settled : w.call \notin Callers(settled)
<1>1. \A w \in cu.waiters : w.call \in {0} \cup CfgCalls
  BY DEF CfgIInv, CfgTypeOK, HookType, HookTypes, CfgWaiters
<1>2. QED
  BY <1>1 DEF CfgIInv, WaitersWait, Callers

\* The effect of an answer settles those it was for: what is shown was read
\* behind the changes of their calls.
LEMMA AuthorityKeeps == CfgIInv /\ AuthorityEffect => CfgIInv'
<1> SUFFICES ASSUME CfgIInv, AuthorityEffect PROVE CfgIInv'
  OBVIOUS
<1>1. PICK settled \in SUBSET cu.waiters : settled = WaitersThrough(cu.shown.gen)
  BY DEF WaitersThrough
<1>2. PICK hook : hook = [cu EXCEPT !.acked = FALSE, !.waiters = @ \ settled]
  OBVIOUS
<1>3. cu \in HookTypes
  BY DEF CfgIInv, CfgTypeOK, HookType
<1>4. cu.waiters \ settled \in SUBSET CfgWaiters
  BY <1>3 DEF HookTypes
<1>5. hook \in HookTypes
  BY <1>2, <1>3, <1>4 DEF HookTypes
<1>6. /\ hook.waiters = cu.waiters \ settled /\ hook.alive = cu.alive /\ hook.busy = cu.busy
      /\ hook.gets = cu.gets /\ hook.latest = cu.latest /\ hook.shown = cu.shown
      /\ hook.connRef = cu.connRef /\ hook.suppRef = cu.suppRef
  BY <1>2, <1>3 DEF HookTypes
<1>7. /\ Callers(settled) \in SUBSET CfgCalls
      /\ \A c \in Callers(settled) : cfgCalls[c].st = "wait"
      /\ \A w \in cu.waiters \ settled : w.call \notin Callers(settled)
  BY CallersWait
<1>8. CallsEnd(hook, Callers(settled), TRUE, {}, "none")
  BY <1>1, <1>2 DEF AuthorityEffect
<1>9. /\ \A w \in settled : w.gen <= cu.shown.gen
      /\ \A w \in cu.waiters \ settled : ~(w.gen <= cu.shown.gen)
  BY <1>1 DEF WaitersThrough
<1>10. /\ \A w \in cu.waiters : w.gen \in Nat
       /\ cu.latest \in Nat /\ cu.shown.gen \in Nat /\ cu.shown.gen <= cu.latest
       /\ \A w \in cu.waiters : w.gen <= cu.latest
  BY <1>3 DEF HookTypes, CfgWaiters, CfgShown, CfgIInv, NothingIsNewer, NobodyForgotten
<1>11. \A c \in Callers(settled) :
         /\ \A get \in cu.gets : get.gen = cu.latest => get.answer.ver >= cfgCalls[c].ver
         /\ cu.shown.ver >= cfgCalls[c].ver
  <2>1. SUFFICES ASSUME NEW w \in settled, w.call # 0
                 PROVE  /\ \A get \in cu.gets :
                             get.gen = cu.latest => get.answer.ver >= cfgCalls[w.call].ver
                        /\ cu.shown.ver >= cfgCalls[w.call].ver
    BY DEF Callers
  <2>2. cu.shown.gen >= w.gen /\ cu.latest >= w.gen
    BY <1>9, <1>10
  <2>3. QED
    BY <2>1, <2>2 DEF CfgIInv, WaitersWait
<1>12. \A w \in hook.waiters : \E get \in hook.gets : get.gen = hook.latest
  BY <1>6, <1>9 DEF CfgIInv, NobodyForgotten
<1>13. EndsSoundly(hook, Callers(settled), TRUE)
  <2>1. hook.waiters # {} => Available(hook)
    BY <1>6 DEF CfgIInv, WaitersWait, Available
  <2>2. \A c \in Callers(settled) : CfgWaiting(cfgCalls[c])
    BY <1>7 DEF CfgWaiting
  <2>3. hook.latest >= cu.latest /\ hook.waiters \subseteq cu.waiters
    BY <1>6, <1>10
  <2>4. QED
    BY <1>6, <1>7, <1>11, <1>12, <2>1, <2>2, <2>3 DEF EndsSoundly
<1>14. cfgFw' = cfgFw
  BY DEF AuthorityEffect
<1>15. "none" \in CfgErrors /\ {} \in SUBSET CfgItems
       /\ \A c \in Callers(settled) : {} \subseteq cfgCalls[c].ids
  BY DEF CfgErrors
<1>16. QED
  BY <1>5, <1>7, <1>8, <1>13, <1>14, <1>15, CallsEndKeeps

\* All waiters are given up: by a board that is lost, or a page that is gone.
LEMMA RejectionKeeps ==
  ASSUME CfgIInv, UNCHANGED cfgFw, NEW hook \in HookTypes, RejectsAll(hook, "other"),
         hook.busy = cu.busy, hook.alive = TRUE => cu.alive = TRUE, hook.gets = cu.gets,
         hook.latest = cu.latest, hook.shown = cu.shown \/ hook.shown = NoConfig
  PROVE  CfgIInv'
<1>1. PICK given : given = [hook EXCEPT !.latest = @ + 1, !.waiters = {}]
  OBVIOUS
<1>2. given \in HookTypes
  <2>1. hook.latest + 1 \in Nat
    BY DEF HookTypes
  <2>2. QED
    BY <1>1, <2>1 DEF HookTypes
<1>3. /\ given.waiters = {} /\ given.alive = hook.alive /\ given.busy = hook.busy
      /\ given.gets = hook.gets /\ given.latest = hook.latest + 1 /\ given.shown = hook.shown
      /\ hook.latest \in Nat
  BY <1>1 DEF HookTypes
<1>4. /\ Callers(cu.waiters) \in SUBSET CfgCalls
      /\ \A c \in Callers(cu.waiters) : cfgCalls[c].st = "wait"
  BY CallersWait
<1>5. CallsEnd(given, Callers(cu.waiters), FALSE, {}, "other")
  BY <1>1 DEF RejectsAll
<1>6. EndsSoundly(given, Callers(cu.waiters), FALSE)
  <2>1. given.latest >= cu.latest
    BY <1>3
  <2>2. QED
    BY <1>3, <1>4, <2>1 DEF EndsSoundly, CfgWaiting
<1>7. "other" \in CfgErrors /\ {} \in SUBSET CfgItems
       /\ \A c \in Callers(cu.waiters) : {} \subseteq cfgCalls[c].ids
  BY DEF CfgErrors
<1>8. FALSE \in BOOLEAN /\ UNCHANGED cfgFw
  OBVIOUS
<1>9. QED
  BY <1>2, <1>4, <1>5, <1>6, <1>7, <1>8, CallsEndKeeps, ZenonT(30)

LEMMA UnmountKeeps == CfgIInv /\ HookUnmounts => CfgIInv'
<1> SUFFICES ASSUME CfgIInv, HookUnmounts PROVE CfgIInv'
  OBVIOUS
<1>1. PICK hook : hook = [cu EXCEPT !.alive = FALSE, !.due = FALSE]
  OBVIOUS
<1>2. cu \in HookTypes
  BY DEF CfgIInv, CfgTypeOK, HookType
<1>3. /\ hook \in HookTypes /\ hook.alive = FALSE /\ hook.busy = cu.busy
      /\ hook.gets = cu.gets /\ hook.latest = cu.latest /\ hook.shown = cu.shown
  BY <1>1, <1>2 DEF HookTypes
<1>4. RejectsAll(hook, "other") /\ cfgFw' = cfgFw
  BY <1>1 DEF HookUnmounts
<1>5. QED
  BY <1>3, <1>4, RejectionKeeps

LEMMA SummaryKeeps == CfgIInv /\ SummaryEffect => CfgIInv'
<1> SUFFICES ASSUME CfgIInv, SummaryEffect PROVE CfgIInv'
  OBVIOUS
<1>1. PICK hook : hook = [cu EXCEPT !.due = FALSE, !.connRef = cu.conn, !.suppRef = cu.supp]
  OBVIOUS
<1>2. cu \in HookTypes
  BY DEF CfgIInv, CfgTypeOK, HookType
<1>3. /\ hook \in HookTypes /\ hook.alive = cu.alive /\ hook.busy = cu.busy
      /\ hook.gets = cu.gets /\ hook.latest = cu.latest /\ hook.shown = cu.shown
      /\ hook.waiters = cu.waiters /\ hook.acked = cu.acked
  BY <1>1, <1>2 DEF HookTypes
<1>4. cfgFw' = cfgFw /\ cu.alive
  BY DEF SummaryEffect
<1>5. CASE ~hook.suppRef
  <2>1. PICK gone : gone = [hook EXCEPT !.loading = FALSE, !.error = "none",
                                        !.shown = NoConfig, !.acked = FALSE]
    OBVIOUS
  <2>2. NoConfig \in CfgShown
    BY DEF NoConfig, CfgShown, CfgValues
  <2>3. /\ gone \in HookTypes /\ gone.alive = cu.alive /\ gone.busy = cu.busy
        /\ gone.gets = cu.gets /\ gone.latest = cu.latest /\ gone.shown = NoConfig
    BY <1>3, <2>1, <2>2 DEF HookTypes, CfgErrors
  <2>4. RejectsAll(gone, "other")
    BY <1>1, <1>5, <2>1 DEF SummaryEffect
  <2>5. QED
    BY <1>4, <2>3, <2>4, RejectionKeeps
<1>6. CASE hook.suppRef /\ ~hook.connRef
  <2>1. PICK lost : lost = [hook EXCEPT !.loading = FALSE]
    OBVIOUS
  <2>2. /\ lost \in HookTypes /\ lost.alive = cu.alive /\ lost.busy = cu.busy
        /\ lost.gets = cu.gets /\ lost.latest = cu.latest /\ lost.shown = cu.shown
    BY <1>3, <2>1 DEF HookTypes
  <2>3. RejectsAll(lost, "other")
    BY <1>1, <1>6, <2>1 DEF SummaryEffect
  <2>4. QED
    BY <1>4, <2>2, <2>3, RejectionKeeps
<1>7. CASE hook.suppRef /\ hook.connRef
  <2>1. cu' = RefreshStarted(hook, 0) /\ UNCHANGED <<cfgCard, cfgCalls>>
    BY <1>1, <1>7 DEF SummaryEffect
  <2>2. Available(hook)
    BY <1>3, <1>4, <1>7 DEF Available
  <2>3. /\ HookType' /\ cu'.busy = hook.busy /\ cu'.alive = cu.alive
        /\ NothingIsNewer' /\ WaitersWait' /\ LatestIsBehind'
        /\ NobodyForgotten' /\ ShowsWhatWasSaved'
    BY <1>3, <1>4, <2>1, <2>2, RefreshKeeps
  <2>4. CfgTypeOK' /\ AsksForSelected' /\ OneCallPerCard' /\ AskedIsSent'
    BY <1>4, <2>1, <2>3 DEF CfgIInv, CfgTypeOK, FwType, CardType, CallsType, AsksForSelected,
                            OneCallPerCard, Own, AskedIsSent
  <2>5. OneMutation'
    BY <1>3, <2>1, <2>3 DEF CfgIInv, OneMutation, Mutating
  <2>6. QED
    BY <2>3, <2>4, <2>5 DEF CfgIInv
<1>8. QED
  BY <1>5, <1>6, <1>7

\* A render changes nothing but what the effect behind it will look at.
LEMMA RenderKeeps == CfgIInv /\ BoardRenders => CfgIInv'
<1> SUFFICES ASSUME CfgIInv, BoardRenders PROVE CfgIInv'
  OBVIOUS
<1>1. PICK conn, supp \in BOOLEAN : cu' = [cu EXCEPT !.conn = conn, !.supp = supp, !.due = TRUE]
  BY DEF BoardRenders
<1>2. cu \in HookTypes /\ UNCHANGED <<cfgFw, cfgCard, cfgCalls>>
  BY DEF CfgIInv, CfgTypeOK, HookType, BoardRenders
<1>3. /\ HookType'
      /\ cu'.alive = cu.alive /\ cu'.busy = cu.busy /\ cu'.connRef = cu.connRef
      /\ cu'.suppRef = cu.suppRef /\ cu'.gets = cu.gets /\ cu'.latest = cu.latest
      /\ cu'.shown = cu.shown /\ cu'.waiters = cu.waiters /\ cu'.acked = cu.acked
  BY <1>1, <1>2 DEF HookTypes, HookType
<1>4. CfgTypeOK'
  BY <1>2, <1>3 DEF CfgIInv, CfgTypeOK, FwType, CardType, CallsType
<1>5. NothingIsNewer' /\ WaitersWait' /\ LatestIsBehind'
  BY <1>2, <1>3 DEF CfgIInv, NothingIsNewer, WaitersWait, LatestIsBehind, Available, Changes
<1>6. AsksForSelected' /\ OneCallPerCard' /\ OneMutation'
  BY <1>2, <1>3 DEF CfgIInv, AsksForSelected, OneCallPerCard, OneMutation, Own, Mutating
<1>7. NobodyForgotten' /\ ShowsWhatWasSaved' /\ AskedIsSent'
  BY <1>2, <1>3 DEF CfgIInv, NobodyForgotten, ShowsWhatWasSaved, AskedIsSent
<1>8. QED
  BY <1>4, <1>5, <1>6, <1>7 DEF CfgIInv

-----------------------------------------------------------------------------
(* The requests.                                                            *)

\* The answer is read at the debugger as it is then.
LEMMA ServedGetKeeps ==
  ASSUME CfgIInv, NEW get \in cu.gets, GetServed(get)
  PROVE  CfgIInv'
<1>1. PICK st \in {"read", "lost"} :
        cu' = [cu EXCEPT !.gets = (@ \ {get}) \cup {[get EXCEPT !.st = st, !.answer = CfgAnswer]}]
  BY DEF GetServed
<1>2. cu \in HookTypes /\ UNCHANGED <<cfgFw, cfgCard, cfgCalls>>
  BY DEF CfgIInv, CfgTypeOK, HookType, GetServed
<1>3. CfgAnswer \in CfgAnswers /\ CfgAnswer.ver = cfgFw.ver
  <2>1. \A i \in CfgItems : cfgFw.now[i] \in CfgValues /\ cfgFw.saved[i] \in CfgValues
    BY DEF CfgIInv, CfgTypeOK, FwType
  <2>2. cfgFw.ver \in Nat /\ cfgFw.saved \in [CfgItems -> CfgValues]
    BY DEF CfgIInv, CfgTypeOK, FwType
  <2>3. [i \in CfgItems |-> IF cfgFw.saved[i] # "none" THEN cfgFw.saved[i] ELSE cfgFw.now[i]]
          \in [CfgItems -> CfgValues]
    BY <2>1
  <2>4. QED
    BY <2>2, <2>3 DEF CfgAnswer, CfgAnswers
<1>4. get \in CfgGets
  BY <1>2 DEF HookTypes
<1>5. PICK read \in CfgGets : read = [get EXCEPT !.st = st, !.answer = CfgAnswer]
  BY <1>3, <1>4 DEF CfgGets
<1>6. read.gen = get.gen /\ read.answer.ver = cfgFw.ver
  BY <1>3, <1>4, <1>5 DEF CfgGets
<1>7. (cu.gets \ {get}) \cup {read} \in SUBSET CfgGets
  BY <1>2, <1>5 DEF HookTypes
<1>8. cu' = [cu EXCEPT !.gets = (cu.gets \ {get}) \cup {read}]
  BY <1>1, <1>2, <1>5 DEF HookTypes
<1>9. /\ HookType'
      /\ cu'.alive = cu.alive /\ cu'.busy = cu.busy /\ cu'.connRef = cu.connRef
      /\ cu'.suppRef = cu.suppRef /\ cu'.latest = cu.latest /\ cu'.shown = cu.shown
      /\ cu'.waiters = cu.waiters /\ cu'.acked = cu.acked
      /\ cu'.gets = (cu.gets \ {get}) \cup {read}
  BY <1>2, <1>7, <1>8 DEF HookTypes, HookType
<1>10. CfgTypeOK'
  BY <1>2, <1>9 DEF CfgIInv, CfgTypeOK, FwType, CardType, CallsType
<1>11. cfgFw.ver \in Nat /\ \A c \in CfgCalls : cfgCalls[c].ver <= cfgFw.ver /\ cfgCalls[c].ver \in Nat
  BY DEF CfgIInv, CfgTypeOK, FwType, NothingIsNewer, CallsType, CfgCallTypes
<1>12. NothingIsNewer'
  BY <1>2, <1>6, <1>9, <1>11 DEF CfgIInv, NothingIsNewer
<1>13. WaitersWait'
  <2>1. \A w \in cu.waiters : w.call \in {0} \cup CfgCalls
    BY <1>2 DEF HookTypes, CfgWaiters
  <2>2. \A w \in cu.waiters : w.call # 0 => read.answer.ver >= cfgCalls[w.call].ver
    BY <1>6, <1>11, <2>1
  <2>3. \A w \in cu.waiters : w.call # 0 => \A g \in cu'.gets :
          g.gen >= w.gen => g.answer.ver >= cfgCalls[w.call].ver
    BY <1>9, <2>2 DEF CfgIInv, WaitersWait
  <2>4. QED
    BY <1>2, <1>9, <2>3 DEF CfgIInv, WaitersWait, Available
<1>14. LatestIsBehind'
  BY <1>2, <1>6, <1>9, <1>11 DEF CfgIInv, LatestIsBehind, Changes
<1>15. AsksForSelected' /\ OneCallPerCard' /\ OneMutation'
  BY <1>2, <1>9 DEF CfgIInv, AsksForSelected, OneCallPerCard, OneMutation, Own, Mutating
<1>16. NobodyForgotten'
  BY <1>6, <1>9 DEF CfgIInv, NobodyForgotten
<1>17. ShowsWhatWasSaved' /\ AskedIsSent'
  BY <1>2, <1>9 DEF CfgIInv, ShowsWhatWasSaved, AskedIsSent
<1>18. QED
  BY <1>10, <1>12, <1>13, <1>14, <1>15, <1>16, <1>17 DEF CfgIInv

\* The latest answer is shown, or fails those who wait; an earlier one is dropped,
\* and whoever waits has the latest request still to come.
LEMMA AnsweredGetKeeps ==
  ASSUME CfgIInv, NEW get \in cu.gets, GetAnswered(get)
  PROVE  CfgIInv'
<1>1. PICK hook : hook = [cu EXCEPT !.gets = @ \ {get}]
  OBVIOUS
<1>2. cu \in HookTypes /\ get \in CfgGets
  BY DEF CfgIInv, CfgTypeOK, HookType, HookTypes
<1>3. cu.gets \ {get} \in SUBSET CfgGets
  BY <1>2 DEF HookTypes
<1>4. /\ hook \in HookTypes /\ hook.gets = cu.gets \ {get}
      /\ hook.alive = cu.alive /\ hook.busy = cu.busy /\ hook.connRef = cu.connRef
      /\ hook.suppRef = cu.suppRef /\ hook.latest = cu.latest /\ hook.shown = cu.shown
      /\ hook.waiters = cu.waiters /\ hook.acked = cu.acked
  BY <1>1, <1>2, <1>3 DEF HookTypes
<1>5. cfgFw' = cfgFw
  BY DEF GetAnswered
<1>6. CASE ~Counts(get)
  <2>1. cu' = hook /\ UNCHANGED <<cfgFw, cfgCard, cfgCalls>>
    BY <1>1, <1>6 DEF GetAnswered
  <2>2. CfgTypeOK'
    BY <1>4, <2>1 DEF CfgIInv, CfgTypeOK, HookType, FwType, CardType, CallsType
  <2>3. NothingIsNewer' /\ WaitersWait' /\ LatestIsBehind'
    BY <1>4, <2>1 DEF CfgIInv, NothingIsNewer, WaitersWait, LatestIsBehind, Available, Changes
  <2>4. AsksForSelected' /\ OneCallPerCard' /\ OneMutation'
    BY <1>4, <2>1 DEF CfgIInv, AsksForSelected, OneCallPerCard, OneMutation, Own, Mutating
  <2>5. NobodyForgotten'
    <3>1. cu.waiters # {} => get.gen # cu.latest
      BY <1>6 DEF Counts, CfgIInv, WaitersWait
    <3>2. QED
      BY <1>4, <2>1, <3>1 DEF CfgIInv, NobodyForgotten
  <2>6. ShowsWhatWasSaved' /\ AskedIsSent'
    BY <1>4, <2>1 DEF CfgIInv, ShowsWhatWasSaved, AskedIsSent
  <2>7. QED
    BY <2>2, <2>3, <2>4, <2>5, <2>6 DEF CfgIInv
<1>7. CASE Counts(get) /\ get.st = "read"
  <2>1. PICK shown : shown = [gen |-> get.gen, ver |-> get.answer.ver,
                              saved |-> get.answer.saved, risk |-> get.answer.risk]
    OBVIOUS
  <2>2. shown \in CfgShown /\ shown.gen = get.gen /\ shown.ver = get.answer.ver
    BY <1>2, <2>1 DEF CfgGets, CfgAnswers, CfgShown
  <2>3. /\ cu' = [hook EXCEPT !.shown = shown, !.acked = TRUE, !.error = "none",
                              !.loading = FALSE]
        /\ UNCHANGED <<cfgFw, cfgCard, cfgCalls>>
    BY <1>1, <1>7, <2>1 DEF GetAnswered
  <2>4. /\ HookType'
        /\ cu'.alive = cu.alive /\ cu'.busy = cu.busy /\ cu'.connRef = cu.connRef
        /\ cu'.suppRef = cu.suppRef /\ cu'.latest = cu.latest /\ cu'.shown = shown
        /\ cu'.waiters = cu.waiters /\ cu'.acked = TRUE /\ cu'.gets = cu.gets \ {get}
    BY <1>4, <2>2, <2>3 DEF HookTypes, HookType, CfgErrors
  <2>5. get.gen = cu.latest /\ cu.latest \in Nat /\ \A w \in cu.waiters : w.gen \in Nat
    BY <1>2, <1>7 DEF Counts, HookTypes, CfgWaiters
  <2>6. CfgTypeOK'
    BY <2>3, <2>4 DEF CfgIInv, CfgTypeOK, FwType, CardType, CallsType
  <2>7. NothingIsNewer'
    BY <2>2, <2>3, <2>4 DEF CfgIInv, NothingIsNewer
  <2>8. WaitersWait'
    BY <2>2, <2>3, <2>4 DEF CfgIInv, WaitersWait, Available
  <2>9. LatestIsBehind' /\ AsksForSelected'
    BY <2>3, <2>4 DEF CfgIInv, LatestIsBehind, Changes, AsksForSelected
  <2>10. OneCallPerCard' /\ OneMutation' /\ AskedIsSent'
    BY <2>3, <2>4 DEF CfgIInv, OneCallPerCard, OneMutation, Own, Mutating, AskedIsSent
  <2>11. NobodyForgotten'
    BY <2>2, <2>4, <2>5 DEF CfgIInv, NobodyForgotten
  <2>12. ShowsWhatWasSaved'
    BY <2>2, <2>3, <2>4, <2>5 DEF CfgIInv, ShowsWhatWasSaved, LatestIsBehind, Changes
  <2>13. QED
    BY <2>6, <2>7, <2>8, <2>9, <2>10, <2>11, <2>12 DEF CfgIInv
<1>8. CASE Counts(get) /\ get.st # "read"
  <2>1. PICK settled \in SUBSET cu.waiters : settled = WaitersThrough(get.gen)
    BY DEF WaitersThrough
  <2>2. settled = cu.waiters
    BY <1>8, <2>1 DEF Counts, WaitersThrough, CfgIInv, NobodyForgotten
  <2>3. PICK given : given = [hook EXCEPT !.error = "other", !.loading = FALSE,
                                          !.waiters = @ \ settled]
    OBVIOUS
  <2>4. hook.waiters \ settled = {} /\ {} \in SUBSET CfgWaiters
    BY <1>4, <2>2
  <2>5. /\ given \in HookTypes /\ given.waiters = {} /\ given.alive = cu.alive
        /\ given.busy = cu.busy /\ given.gets = cu.gets \ {get} /\ given.latest = cu.latest
        /\ given.shown = cu.shown
    BY <1>4, <2>3, <2>4 DEF HookTypes, CfgErrors
  <2>6. /\ Callers(settled) \in SUBSET CfgCalls
        /\ \A c \in Callers(settled) : cfgCalls[c].st = "wait"
    BY CallersWait
  <2>7. CallsEnd(given, Callers(settled), FALSE, {}, "other")
    BY <1>1, <1>8, <2>1, <2>3 DEF GetAnswered
  <2>8. EndsSoundly(given, Callers(settled), FALSE)
    <3>1. given.latest >= cu.latest
      BY <1>2, <2>5 DEF HookTypes
    <3>2. QED
      BY <2>5, <2>6, <3>1 DEF EndsSoundly, CfgWaiting
  <2>9. "other" \in CfgErrors /\ {} \in SUBSET CfgItems /\ FALSE \in BOOLEAN
        /\ \A c \in Callers(settled) : {} \subseteq cfgCalls[c].ids
    BY DEF CfgErrors
  <2>10. QED
    BY <1>5, <2>5, <2>6, <2>7, <2>8, <2>9, CallsEndKeeps, ZenonT(30)
<1>9. QED
  BY <1>6, <1>7, <1>8

\* A call that the debugger has served is still out, for the same items.
LEMMA ServedOpKeeps ==
  ASSUME CfgIInv, NEW c \in CfgCalls, OpServed(c)
  PROVE  CfgIInv'
<1>1. PICK danger : danger = {i \in cfgCalls[c].ids : cfgFw.now[i] = "danger"}
  OBVIOUS
<1>2. PICK saved : saved = [i \in CfgItems |-> IF i \in cfgCalls[c].ids THEN cfgFw.now[i] ELSE "none"]
  OBVIOUS
<1>3. PICK call \in CfgCallTypes : call = cfgCalls[c]
  BY DEF CfgIInv, CfgTypeOK, CallsType
<1>4. /\ cfgFw \in [now : [CfgItems -> CfgValues], saved : [CfgItems -> CfgValues], ver : Nat]
      /\ call.st = "op" /\ UNCHANGED <<cu, cfgCard>> /\ cfgCalls \in [CfgCalls -> CfgCallTypes]
  BY <1>3 DEF CfgIInv, CfgTypeOK, FwType, OpServed, CallsType
<1>5. saved \in [CfgItems -> CfgValues]
  <2>1. \A i \in CfgItems : cfgFw.now[i] \in CfgValues
    BY <1>4
  <2>2. QED
    BY <1>2, <2>1 DEF CfgValues
<1>6. danger \in SUBSET CfgItems /\ danger \subseteq call.ids
  BY <1>1, <1>3 DEF CfgCallTypes
<1>7. \E served \in CfgCallTypes :
        /\ cfgCalls' = [cfgCalls EXCEPT ![c] = served]
        /\ served.st \in {"refused", "done", "error", "apply_failed"}
        /\ served.mount = call.mount /\ served.kind = call.kind /\ served.ids = call.ids
        /\ served.confirm = call.confirm
        /\ \/ /\ served.st = "refused" /\ served.asked = danger /\ danger # {}
              /\ call.confirm = FALSE /\ served.ver = call.ver /\ cfgFw' = cfgFw
           \/ /\ served.st # "refused" /\ served.asked = call.asked /\ served.ver = 0
              /\ cfgFw' = cfgFw
           \/ /\ served.st # "refused" /\ served.asked = call.asked
              /\ served.ver = cfgFw.ver + 1
              /\ cfgFw' = [cfgFw EXCEPT !.saved = saved, !.ver = @ + 1]
  <2>1. CASE call.kind = "save" /\ danger # {} /\ ~call.confirm
    <3>1. cfgFw' = cfgFw /\ cfgCalls' = [cfgCalls EXCEPT ![c].st = "refused", ![c].asked = danger]
      BY <1>1, <1>3, <2>1 DEF OpServed
    <3>2. PICK served : served = [call EXCEPT !.st = "refused", !.asked = danger]
      OBVIOUS
    <3>3. cfgCalls' = [cfgCalls EXCEPT ![c] = served]
      BY <1>3, <1>4, <3>1, <3>2
    <3>4. /\ served \in CfgCallTypes /\ served.st = "refused" /\ served.asked = danger
          /\ served.mount = call.mount /\ served.kind = call.kind /\ served.ids = call.ids
          /\ served.confirm = call.confirm /\ served.ver = call.ver /\ call.confirm = FALSE
      BY <1>6, <2>1, <3>2 DEF CfgCallTypes
    <3>5. QED
      BY <2>1, <3>1, <3>3, <3>4
  <2> DEFINE Recorded(st, ver) == [cfgCalls EXCEPT ![c].st = st, ![c].ver = ver]
  <2>2. ASSUME NEW st \in {"done", "error", "apply_failed"}, NEW ver \in Nat
        PROVE  \E served \in CfgCallTypes :
                 /\ Recorded(st, ver) = [cfgCalls EXCEPT ![c] = served]
                 /\ served.st = st /\ served.ver = ver /\ served.asked = call.asked
                 /\ served.mount = call.mount /\ served.kind = call.kind
                 /\ served.ids = call.ids /\ served.confirm = call.confirm
    <3>1. PICK served : served = [call EXCEPT !.st = st, !.ver = ver]
      OBVIOUS
    <3>2. Recorded(st, ver) = [cfgCalls EXCEPT ![c] = served]
      BY <1>3, <1>4, <3>1
    <3>3. /\ served \in CfgCallTypes /\ served.st = st /\ served.asked = call.asked
          /\ served.mount = call.mount /\ served.kind = call.kind /\ served.ids = call.ids
          /\ served.confirm = call.confirm /\ served.ver = ver
      BY <3>1 DEF CfgCallTypes
    <3>4. QED
      BY <3>2, <3>3
  <2>3. CASE ~(call.kind = "save" /\ danger # {} /\ ~call.confirm)
    <3>1. \/ cfgFw' = cfgFw /\ cfgCalls' = Recorded("error", 0)
          \/ \E st \in {"done", "error", "apply_failed"} :
               /\ cfgCalls' = Recorded(st, cfgFw.ver + 1)
               /\ cfgFw' = [cfgFw EXCEPT !.saved = saved, !.ver = @ + 1]
      BY <1>1, <1>2, <1>3, <2>3 DEF OpServed
    <3> HIDE DEF Recorded
    <3>2. CASE cfgFw' = cfgFw /\ cfgCalls' = Recorded("error", 0)
      <4>1. PICK served \in CfgCallTypes :
                 /\ Recorded("error", 0) = [cfgCalls EXCEPT ![c] = served]
                 /\ served.st = "error" /\ served.ver = 0 /\ served.asked = call.asked
                 /\ served.mount = call.mount /\ served.kind = call.kind
                 /\ served.ids = call.ids /\ served.confirm = call.confirm
        BY <2>2
      <4>2. QED
        BY <3>2, <4>1
    <3>3. CASE \E st \in {"done", "error", "apply_failed"} :
                 /\ cfgCalls' = Recorded(st, cfgFw.ver + 1)
                 /\ cfgFw' = [cfgFw EXCEPT !.saved = saved, !.ver = @ + 1]
      <4>1. PICK st \in {"done", "error", "apply_failed"} :
                 /\ cfgCalls' = Recorded(st, cfgFw.ver + 1)
                 /\ cfgFw' = [cfgFw EXCEPT !.saved = saved, !.ver = @ + 1]
        BY <3>3
      <4>2. PICK ver \in Nat : ver = cfgFw.ver + 1
        BY <1>4
      <4>3. PICK served \in CfgCallTypes :
                 /\ Recorded(st, ver) = [cfgCalls EXCEPT ![c] = served]
                 /\ served.st = st /\ served.ver = ver /\ served.asked = call.asked
                 /\ served.mount = call.mount /\ served.kind = call.kind
                 /\ served.ids = call.ids /\ served.confirm = call.confirm
        BY <2>2
      <4>4. cfgCalls' = [cfgCalls EXCEPT ![c] = served] /\ served.ver = cfgFw.ver + 1
        BY <4>1, <4>2, <4>3
      <4>5. served.st \in {"done", "error", "apply_failed"} /\ served.st # "refused"
        BY <4>3
      <4>6. QED
        BY <4>1, <4>3, <4>4, <4>5
    <3>4. QED
      BY <3>1, <3>2, <3>3
  <2>4. QED
    BY <2>1, <2>3
<1>8. PICK served \in CfgCallTypes :
        /\ cfgCalls' = [cfgCalls EXCEPT ![c] = served]
        /\ served.st \in {"refused", "done", "error", "apply_failed"}
        /\ served.mount = call.mount /\ served.kind = call.kind /\ served.ids = call.ids
        /\ served.confirm = call.confirm
        /\ \/ /\ served.st = "refused" /\ served.asked = danger /\ danger # {}
              /\ call.confirm = FALSE /\ served.ver = call.ver /\ cfgFw' = cfgFw
           \/ /\ served.st # "refused" /\ served.asked = call.asked /\ served.ver = 0
              /\ cfgFw' = cfgFw
           \/ /\ served.st # "refused" /\ served.asked = call.asked
              /\ served.ver = cfgFw.ver + 1
              /\ cfgFw' = [cfgFw EXCEPT !.saved = saved, !.ver = @ + 1]
  BY <1>7
<1>9. /\ \A d \in CfgCalls : d # c => cfgCalls'[d] = cfgCalls[d]
      /\ cfgCalls'[c] = served /\ CallsType' /\ cfgCalls[c] = call
  BY <1>3, <1>4, <1>8 DEF CallsType
<1>10. FwType' /\ cfgFw'.ver >= cfgFw.ver /\ served.ver <= cfgFw'.ver
  <2>1. CASE cfgFw' = cfgFw /\ (served.ver = 0 \/ served.ver = call.ver)
    <3>1. call.ver <= cfgFw.ver /\ cfgFw.ver \in Nat
      BY <1>3, <1>4 DEF CfgIInv, NothingIsNewer
    <3>2. served.ver <= cfgFw.ver
      BY <2>1, <3>1
    <3>3. FwType'
      BY <1>4, <2>1 DEF FwType
    <3>4. cfgFw'.ver = cfgFw.ver
      BY <2>1
    <3>5. QED
      BY <3>1, <3>2, <3>3, <3>4
  <2>2. CASE served.ver = cfgFw.ver + 1 /\ cfgFw' = [cfgFw EXCEPT !.saved = saved, !.ver = @ + 1]
    <3>1. PICK ver \in Nat : ver = cfgFw.ver + 1 /\ ver >= cfgFw.ver
      BY <1>4
    <3>2. cfgFw' = [cfgFw EXCEPT !.saved = saved, !.ver = ver]
      BY <1>4, <2>2, <3>1
    <3>3. FwType' /\ cfgFw'.ver = ver
      BY <1>4, <1>5, <3>1, <3>2 DEF FwType
    <3>4. QED
      BY <2>2, <3>1, <3>3
  <2>3. QED
    BY <1>8, <2>1, <2>2
<1>11. CfgTypeOK'
  BY <1>4, <1>9, <1>10 DEF CfgIInv, CfgTypeOK, HookType, CardType
<1>12. NothingIsNewer'
  <2>1. /\ \A get \in cu.gets : get.answer.ver \in Nat
        /\ cu.shown.ver \in Nat /\ cfgFw.ver \in Nat /\ cfgFw'.ver \in Nat
        /\ \A d \in CfgCalls : cfgCalls[d].ver \in Nat
    BY <1>10 DEF CfgIInv, CfgTypeOK, HookType, HookTypes, CfgGets, CfgAnswers, CfgShown,
                CallsType, CfgCallTypes, FwType
  <2>2. cu' = cu
    BY <1>4
  <2>3. QED
    BY <1>9, <1>10, <2>1, <2>2 DEF CfgIInv, NothingIsNewer
<1>13. WaitersWait'
  <2>1. \A w \in cu.waiters : w.call \in {0} \cup CfgCalls
    BY DEF CfgIInv, CfgTypeOK, HookType, HookTypes, CfgWaiters
  <2>2. \A w \in cu.waiters : w.call # 0 => cfgCalls'[w.call] = cfgCalls[w.call]
    BY <1>4, <1>9, <2>1 DEF CfgIInv, WaitersWait
  <2>3. cu' = cu
    BY <1>4
  <2>4. QED
    BY <2>2, <2>3 DEF CfgIInv, WaitersWait, Available
<1>14. \A d \in CfgCalls :
         /\ cfgCalls'[d].mount = cfgCalls[d].mount /\ cfgCalls'[d].kind = cfgCalls[d].kind
         /\ CfgWaiting(cfgCalls[d])' <=> CfgWaiting(cfgCalls[d])
         /\ cfgCalls'[d].st = "ok" => cfgCalls'[d] = cfgCalls[d]
  BY <1>4, <1>8, <1>9 DEF CfgWaiting
<1>15. LatestIsBehind' /\ ShowsWhatWasSaved'
  BY <1>4, <1>14 DEF CfgIInv, LatestIsBehind, Changes, ShowsWhatWasSaved
<1>16. AsksForSelected'
  <2>1. call.kind # "none" /\ cfgCard' = cfgCard
    BY <1>3, <1>4 DEF CfgIInv, AsksForSelected
  <2>2. served.st = "refused" => served.asked # {} /\ served.asked \subseteq served.ids
    BY <1>6, <1>8
  <2>3. QED
    BY <1>8, <1>9, <2>1, <2>2 DEF CfgIInv, AsksForSelected
<1>17. OneCallPerCard' /\ OneMutation'
  <2>1. cu' = cu /\ cfgCard' = cfgCard /\ \A d \in CfgCalls : Own(d)' <=> Own(d)
    BY <1>4, <1>14 DEF Own
  <2>2. Mutating' = Mutating
    BY <1>14 DEF Mutating
  <2>3. QED
    BY <1>14, <2>1, <2>2 DEF CfgIInv, OneCallPerCard, OneMutation
<1>18. NobodyForgotten'
  BY <1>4 DEF CfgIInv, NobodyForgotten
<1>19. AskedIsSent'
  BY <1>8, <1>9 DEF CfgIInv, AskedIsSent
<1>20. QED
  BY <1>11, <1>12, <1>13, <1>15, <1>16, <1>17, <1>18, <1>19 DEF CfgIInv

\* A mutation that was done waits for its refresh; one that was not ends.
LEMMA AnsweredOpKeeps ==
  ASSUME CfgIInv, NEW c \in CfgCalls, OpAnswered(c)
  PROVE  CfgIInv'
<1>1. PICK call \in CfgCallTypes : call = cfgCalls[c]
  BY DEF CfgIInv, CfgTypeOK, CallsType
<1>2. /\ cu \in HookTypes /\ cfgCalls \in [CfgCalls -> CfgCallTypes] /\ cfgFw' = cfgFw
      /\ call.st \in {"done", "refused", "error", "apply_failed"}
  BY <1>1 DEF CfgIInv, CfgTypeOK, HookType, CallsType, OpAnswered
<1>3. EndsSoundly(cu, {c}, FALSE)
  <2>1. CfgWaiting(cfgCalls[c])
    BY <1>1, <1>2 DEF CfgWaiting
  <2>2. \A w \in cu.waiters : w.call \notin {c}
    <3>1. 0 \notin CfgCalls
      BY ConfigAssumption DEF CfgCalls
    <3>2. QED
      BY <1>1, <1>2, <3>1 DEF CfgIInv, WaitersWait
  <2>3. cu.latest >= cu.latest
    BY <1>2 DEF HookTypes
  <2>4. \A w \in cu.waiters : \/ cu.acked = TRUE /\ w.gen <= cu.shown.gen
                              \/ \E get \in cu.gets : get.gen = cu.latest
    BY <1>2 DEF HookTypes, CfgIInv, NobodyForgotten
  <2>5. cu.waiters # {} => Available(cu)
    BY DEF CfgIInv, WaitersWait
  <2>6. QED
    BY <2>1, <2>2, <2>3, <2>4, <2>5 DEF EndsSoundly
<1>4. {c} \in SUBSET CfgCalls /\ FALSE \in BOOLEAN
  OBVIOUS
<1>5. CASE \E error \in CfgErrors, toConfirm \in SUBSET CfgItems :
             toConfirm \subseteq call.ids /\ CallsEnd(cu, {c}, FALSE, toConfirm, error)
  <2>1. PICK error \in CfgErrors, toConfirm \in SUBSET CfgItems :
          toConfirm \subseteq call.ids /\ CallsEnd(cu, {c}, FALSE, toConfirm, error)
    BY <1>5
  <2>2. \A d \in {c} : toConfirm \subseteq cfgCalls[d].ids
    BY <1>1, <2>1
  <2>3. QED
    BY <1>2, <1>3, <1>4, <2>1, <2>2, CallsEndKeeps, ZenonT(30)
<1>6. CASE call.st = "done" /\ ~Available(cu)
  <2>1. CallsEnd(cu, {c}, FALSE, {}, "other") /\ "other" \in CfgErrors
    BY <1>1, <1>6 DEF OpAnswered, CfgErrors
  <2>2. QED
    BY <1>5, <2>1
<1>7. CASE call.st = "refused"
  <2>1. CallsEnd(cu, {c}, FALSE, call.asked, "confirmation_required")
        /\ "confirmation_required" \in CfgErrors
    BY <1>1, <1>7 DEF OpAnswered, CfgErrors
  <2>2. call.asked \in SUBSET CfgItems /\ call.asked \subseteq call.ids
    BY <1>1, <1>7 DEF CfgCallTypes, CfgIInv, AsksForSelected
  <2>3. QED
    BY <1>5, <2>1, <2>2
<1>8. CASE call.st \in {"error", "apply_failed"}
  <2>1. CallsEnd(cu, {c}, FALSE, {}, call.st) /\ call.st \in CfgErrors
    BY <1>1, <1>8 DEF OpAnswered, CfgErrors
  <2>2. QED
    BY <1>5, <2>1
<1>9. CASE call.st = "done" /\ Available(cu)
  <2>1. /\ cu' = RefreshStarted(cu, c) /\ cfgCalls' = [cfgCalls EXCEPT ![c].st = "wait"]
        /\ cfgCard' = cfgCard
    BY <1>1, <1>9 DEF OpAnswered
  <2>2. PICK waits : waits = [call EXCEPT !.st = "wait"]
    OBVIOUS
  <2>3. cfgCalls' = [cfgCalls EXCEPT ![c] = waits]
    BY <1>1, <1>2, <2>1, <2>2
  <2>4. /\ waits \in CfgCallTypes /\ waits.st = "wait" /\ waits.mount = call.mount
        /\ waits.kind = call.kind /\ waits.ids = call.ids /\ waits.asked = call.asked
        /\ waits.confirm = call.confirm /\ waits.ver = call.ver
    BY <2>2 DEF CfgCallTypes
  <2>5. /\ \A d \in CfgCalls : d # c => cfgCalls'[d] = cfgCalls[d]
        /\ cfgCalls'[c] = waits /\ CallsType' /\ cfgCalls[c] = call
    BY <1>1, <1>2, <2>3, <2>4 DEF CallsType
  <2>6. waits.ver \in Nat /\ waits.ver <= cfgFw.ver
    BY <1>1, <2>4 DEF CfgCallTypes, CfgIInv, NothingIsNewer
  <2>7. c \in {0} \cup CfgCalls /\ cfgCalls[c].st # "wait"
    BY <1>1, <1>9
  <2>8. /\ HookType' /\ cu'.busy = cu.busy /\ cu'.alive = cu.alive
        /\ NothingIsNewer' /\ WaitersWait' /\ LatestIsBehind'
        /\ NobodyForgotten' /\ ShowsWhatWasSaved'
    BY <1>2, <1>9, <2>1, <2>4, <2>5, <2>6, <2>7, RefreshKeeps
  <2>9. CfgTypeOK'
    BY <1>2, <2>1, <2>5, <2>8 DEF CfgIInv, CfgTypeOK, FwType, CardType
  <2>10. \A d \in CfgCalls :
           /\ cfgCalls'[d].mount = cfgCalls[d].mount /\ cfgCalls'[d].kind = cfgCalls[d].kind
           /\ CfgWaiting(cfgCalls[d])' <=> CfgWaiting(cfgCalls[d])
    BY <1>9, <2>4, <2>5 DEF CfgWaiting
  <2>11. AsksForSelected'
    BY <1>9, <2>1, <2>4, <2>5 DEF CfgIInv, AsksForSelected
  <2>12. OneCallPerCard' /\ OneMutation'
    <3>1. \A d \in CfgCalls : Own(d)' <=> Own(d)
      BY <2>1, <2>10 DEF Own
    <3>2. Mutating' = Mutating
      BY <2>10 DEF Mutating
    <3>3. QED
      BY <2>1, <2>8, <2>10, <3>1, <3>2 DEF CfgIInv, OneCallPerCard, OneMutation
  <2>13. AskedIsSent'
    BY <2>4, <2>5 DEF CfgIInv, AskedIsSent
  <2>14. QED
    BY <2>8, <2>9, <2>11, <2>12, <2>13 DEF CfgIInv
<1>10. QED
  BY <1>2, <1>6, <1>7, <1>8, <1>9

-----------------------------------------------------------------------------
(* The card.                                                                *)

\* A click that changes the card alone.
LEMMA CardKeeps ==
  ASSUME CfgIInv, UNCHANGED <<cfgFw, cu, cfgCalls>>, CardType', OneCallPerCard',
         cfgCard'.dialog.kind = "save" =>
           cfgCard'.dialog.ids # {} /\ cfgCard'.dialog.ids \subseteq cfgCard'.dialog.selected
  PROVE  CfgIInv'
<1>1. CfgTypeOK'
  BY DEF CfgIInv, CfgTypeOK, FwType, HookType, CallsType
<1>2. NothingIsNewer' /\ WaitersWait' /\ LatestIsBehind'
  BY DEF CfgIInv, NothingIsNewer, WaitersWait, LatestIsBehind, Available, Changes
<1>3. AsksForSelected' /\ OneMutation'
  BY DEF CfgIInv, AsksForSelected, OneMutation, Mutating
<1>4. NobodyForgotten' /\ ShowsWhatWasSaved' /\ AskedIsSent'
  BY DEF CfgIInv, NobodyForgotten, ShowsWhatWasSaved, AskedIsSent
<1>5. QED
  BY <1>1, <1>2, <1>3, <1>4 DEF CfgIInv

\* The same, when the card stays mounted and its call stays out.
LEMMA SameCardKeeps ==
  ASSUME CfgIInv, UNCHANGED <<cfgFw, cu, cfgCalls>>, CardType', cfgCard'.mount = cfgCard.mount,
         cfgCard'.pending = cfgCard.pending,
         cfgCard'.dialog.kind = "save" =>
           cfgCard'.dialog.ids # {} /\ cfgCard'.dialog.ids \subseteq cfgCard'.dialog.selected
  PROVE  CfgIInv'
<1>1. OneCallPerCard'
  BY DEF CfgIInv, OneCallPerCard, Own
<1>2. QED
  BY <1>1, CardKeeps

\* A call that is refused for want of a board: it is over at once.
LEMMA GoneCallKeeps ==
  ASSUME CfgIInv, UNCHANGED <<cfgFw, cu>>, NEW c \in CfgCalls, NEW call \in CfgCallTypes,
         Unused(c), cfgCalls' = [cfgCalls EXCEPT ![c] = call],
         call.st = "failed", call.mount = cfgCard.mount, call.kind # "none", call.ver = 0,
         call.confirm => call.asked # {} /\ call.asked \subseteq call.ids,
         CardType', cfgCard'.mount = cfgCard.mount, cfgCard'.pending = cfgCard.pending,
         cfgCard'.dialog.kind = "save" =>
           cfgCard'.dialog.ids # {} /\ cfgCard'.dialog.ids \subseteq cfgCard'.dialog.selected
  PROVE  CfgIInv'
<1>1. /\ CallsType' /\ cfgCalls'[c] = call /\ cfgCalls[c].st = "none"
      /\ \A d \in CfgCalls : d # c => cfgCalls'[d] = cfgCalls[d]
  BY DEF CfgIInv, CfgTypeOK, CallsType, Unused
<1>2. CfgTypeOK'
  BY <1>1 DEF CfgIInv, CfgTypeOK, FwType, HookType
<1>3. NothingIsNewer'
  <2>1. 0 <= cfgFw.ver
    BY DEF CfgIInv, CfgTypeOK, FwType
  <2>2. QED
    BY <1>1, <2>1 DEF CfgIInv, NothingIsNewer
<1>4. WaitersWait'
  <2>1. \A w \in cu.waiters : w.call \in {0} \cup CfgCalls
    BY DEF CfgIInv, CfgTypeOK, HookType, HookTypes, CfgWaiters
  <2>2. \A w \in cu.waiters : w.call # 0 => cfgCalls'[w.call] = cfgCalls[w.call]
    BY <1>1, <2>1 DEF CfgIInv, WaitersWait
  <2>3. QED
    BY <2>2 DEF CfgIInv, WaitersWait, Available
<1>5. LatestIsBehind' /\ ShowsWhatWasSaved' /\ NobodyForgotten'
  BY <1>1 DEF CfgIInv, LatestIsBehind, Changes, ShowsWhatWasSaved, NobodyForgotten
<1>6. AsksForSelected' /\ AskedIsSent'
  BY <1>1 DEF CfgIInv, AsksForSelected, AskedIsSent
<1>7. \A d \in CfgCalls :
        /\ Own(d)' <=> Own(d)
        /\ CfgWaiting(cfgCalls[d])' <=> CfgWaiting(cfgCalls[d])
        /\ CfgWaiting(cfgCalls[d]) => cfgCalls'[d] = cfgCalls[d]
  BY <1>1 DEF Own, CfgWaiting
<1>8. OneCallPerCard'
  <2>1. \A d \in CfgCalls : cfgCalls'[d].mount <= cfgCard'.mount
    BY <1>1 DEF CfgIInv, OneCallPerCard, CfgTypeOK, CardType, CardTypes
  <2>2. QED
    BY <1>7, <2>1 DEF CfgIInv, OneCallPerCard
<1>9. OneMutation'
  <2>1. Mutating' = Mutating
    BY <1>7 DEF Mutating
  <2>2. QED
    BY <2>1 DEF CfgIInv, OneMutation
<1>10. QED
  BY <1>2, <1>3, <1>4, <1>5, <1>6, <1>8, <1>9 DEF CfgIInv

\* A mutation starts: no other is out, nor another call of its card.
LEMMA MutationKeeps ==
  ASSUME CfgIInv, UNCHANGED cfgFw, NEW kind \in {"save", "clear"}, NEW ids \in SUBSET CfgItems,
         NEW asked \in SUBSET CfgItems, NEW confirm \in BOOLEAN,
         confirm => asked # {} /\ asked \subseteq ids, RunMutation(kind, ids, asked, confirm)
  PROVE  CfgIInv'
<1>1. /\ cfgCard \in CardTypes /\ cu \in HookTypes /\ cfgCalls \in [CfgCalls -> CfgCallTypes]
      /\ NoDialog \in CfgDialogs /\ NoDialog.kind = "none" /\ cfgFw' = cfgFw
  BY DEF CfgIInv, CfgTypeOK, CardType, HookType, CallsType, NoDialog, CfgDialogs
<1>2. CASE cfgCard' = [cfgCard EXCEPT !.dialog = NoDialog] /\ UNCHANGED <<cu, cfgCalls>>
  <2>1. /\ CardType' /\ cfgCard'.mount = cfgCard.mount /\ cfgCard'.pending = cfgCard.pending
        /\ cfgCard'.dialog.kind = "none"
    BY <1>1, <1>2 DEF CardType, CardTypes
  <2>2. QED
    BY <1>1, <1>2, <2>1, SameCardKeeps
<1>3. ASSUME NEW c \in CfgCalls, NEW call,
             call = [st |-> "op", mount |-> cfgCard.mount, kind |-> kind, ids |-> ids,
                     asked |-> asked, confirm |-> confirm, ver |-> 0],
             ~cfgCard.pending, Mutating = {}, Unused(c), Available(cu),
             cfgCalls' = [cfgCalls EXCEPT ![c] = call],
             cu' = [cu EXCEPT !.busy = kind, !.error = "none"],
             cfgCard' = [cfgCard EXCEPT !.pending = TRUE, !.notice = "none", !.dialog = NoDialog]
      PROVE  CfgIInv'
  <2>1. call \in CfgCallTypes
    BY <1>1, <1>3 DEF CfgCallTypes, CardTypes
  <2>2. /\ CallsType' /\ cfgCalls'[c] = call
        /\ \A d \in CfgCalls : d # c => cfgCalls'[d] = cfgCalls[d]
    BY <1>1, <1>3, <2>1 DEF CallsType
  <2>3. /\ CardType' /\ cfgCard'.mount = cfgCard.mount /\ cfgCard'.pending = TRUE
        /\ cfgCard'.dialog.kind = "none"
    BY <1>1, <1>3 DEF CardType, CardTypes
  <2>4. /\ HookType' /\ cu'.busy = kind
        /\ cu'.alive = cu.alive /\ cu'.connRef = cu.connRef
        /\ cu'.suppRef = cu.suppRef /\ cu'.gets = cu.gets /\ cu'.latest = cu.latest
        /\ cu'.shown = cu.shown /\ cu'.waiters = cu.waiters /\ cu'.acked = cu.acked
    BY <1>1, <1>3 DEF HookType, HookTypes, CfgErrors
  <2>5. CfgTypeOK'
    BY <1>1, <2>2, <2>3, <2>4 DEF CfgIInv, CfgTypeOK, FwType
  <2>6. /\ call.st = "op" /\ call.mount = cfgCard.mount /\ call.kind = kind
        /\ call.ids = ids /\ call.asked = asked /\ call.confirm = confirm /\ call.ver = 0
        /\ cfgCalls[c].st = "none"
    BY <1>3 DEF Unused
  <2>7. NothingIsNewer'
    <3>1. 0 <= cfgFw.ver
      BY DEF CfgIInv, CfgTypeOK, FwType
    <3>2. QED
      BY <1>1, <2>2, <2>4, <2>6, <3>1 DEF CfgIInv, NothingIsNewer
  <2>8. WaitersWait'
    <3>1. \A w \in cu.waiters : w.call \in {0} \cup CfgCalls
      BY <1>1 DEF HookTypes, CfgWaiters
    <3>2. \A w \in cu.waiters : w.call # 0 => cfgCalls'[w.call] = cfgCalls[w.call]
      BY <2>2, <2>6, <3>1 DEF CfgIInv, WaitersWait
    <3>3. QED
      BY <2>4, <3>2 DEF CfgIInv, WaitersWait, Available
  <2>9. LatestIsBehind' /\ ShowsWhatWasSaved' /\ NobodyForgotten'
    BY <2>2, <2>4, <2>6 DEF CfgIInv, LatestIsBehind, Changes, ShowsWhatWasSaved, NobodyForgotten
  <2>10. AsksForSelected' /\ AskedIsSent'
    BY <2>2, <2>3, <2>6 DEF CfgIInv, AsksForSelected, AskedIsSent
  <2>11. OneCallPerCard'
    <3>1. \A d \in CfgCalls : ~Own(d)
      BY <1>3 DEF CfgIInv, OneCallPerCard
    <3>2. \A d \in CfgCalls : Own(d)' <=> d = c
      BY <2>2, <2>3, <2>6, <3>1 DEF Own, CfgWaiting
    <3>3. \A d \in CfgCalls : cfgCalls'[d].mount <= cfgCard'.mount
      BY <1>1, <2>2, <2>3, <2>6 DEF CfgIInv, OneCallPerCard, CardTypes
    <3>4. QED
      BY <2>3, <3>2, <3>3 DEF OneCallPerCard
  <2>12. OneMutation'
    <3>1. Mutating' = {c}
      BY <1>3, <2>2, <2>6 DEF Mutating, CfgWaiting
    <3>2. QED
      BY <2>4, <3>1 DEF OneMutation
  <2>13. QED
    BY <2>5, <2>7, <2>8, <2>9, <2>10, <2>11, <2>12 DEF CfgIInv
<1>4. ASSUME NEW c \in CfgCalls, NEW call,
             call = [st |-> "failed", mount |-> cfgCard.mount, kind |-> kind, ids |-> ids,
                     asked |-> asked, confirm |-> confirm, ver |-> 0],
             Unused(c), cfgCalls' = [cfgCalls EXCEPT ![c] = call],
             cfgCard' = [cfgCard EXCEPT !.notice = "none", !.dialog = NoDialog],
             UNCHANGED cu
      PROVE  CfgIInv'
  <2>1. call \in CfgCallTypes
    BY <1>1, <1>4 DEF CfgCallTypes, CardTypes
  <2>2. /\ CardType' /\ cfgCard'.mount = cfgCard.mount /\ cfgCard'.pending = cfgCard.pending
        /\ cfgCard'.dialog.kind = "none"
    BY <1>1, <1>4 DEF CardType, CardTypes
  <2>3. /\ call.st = "failed" /\ call.mount = cfgCard.mount /\ call.kind = kind
        /\ call.ids = ids /\ call.asked = asked /\ call.confirm = confirm /\ call.ver = 0
    BY <1>4
  <2>4. call.confirm => call.asked # {} /\ call.asked \subseteq call.ids
    BY <2>3
  <2>5. QED
    BY <1>1, <1>4, <2>1, <2>2, <2>3, <2>4, GoneCallKeeps
<1>5. QED
  <2>1. CASE \E c \in CfgCalls :
          LET call == [st |-> "op", mount |-> cfgCard.mount, kind |-> kind, ids |-> ids,
                       asked |-> asked, confirm |-> confirm, ver |-> 0]
          IN /\ ~cfgCard.pending /\ Mutating = {} /\ Unused(c)
             /\ IF Available(cu)
                THEN /\ cfgCalls' = [cfgCalls EXCEPT ![c] = call]
                     /\ cu' = [cu EXCEPT !.busy = kind, !.error = "none"]
                     /\ cfgCard' = [cfgCard EXCEPT !.pending = TRUE, !.notice = "none",
                                                   !.dialog = NoDialog]
                ELSE /\ cfgCalls' = [cfgCalls EXCEPT ![c] = [call EXCEPT !.st = "failed"]]
                     /\ cfgCard' = [cfgCard EXCEPT !.notice = "none", !.dialog = NoDialog]
                     /\ UNCHANGED cu
    <3>1. PICK c \in CfgCalls :
          /\ ~cfgCard.pending /\ Mutating = {} /\ Unused(c)
          /\ \/ /\ Available(cu)
                /\ cfgCalls' = [cfgCalls EXCEPT ![c] =
                      [st |-> "op", mount |-> cfgCard.mount, kind |-> kind, ids |-> ids,
                       asked |-> asked, confirm |-> confirm, ver |-> 0]]
                /\ cu' = [cu EXCEPT !.busy = kind, !.error = "none"]
                /\ cfgCard' = [cfgCard EXCEPT !.pending = TRUE, !.notice = "none",
                                              !.dialog = NoDialog]
             \/ /\ cfgCalls' = [cfgCalls EXCEPT ![c] =
                      [st |-> "failed", mount |-> cfgCard.mount, kind |-> kind, ids |-> ids,
                       asked |-> asked, confirm |-> confirm, ver |-> 0]]
                /\ cfgCard' = [cfgCard EXCEPT !.notice = "none", !.dialog = NoDialog]
                /\ UNCHANGED cu
      BY <2>1
    <3>2. QED
      BY <1>3, <1>4, <3>1
  <2>2. QED
    BY <1>2, <2>1 DEF RunMutation

LEMMA ToggleKeeps == CfgIInv /\ ToggleItem => CfgIInv'
<1> SUFFICES ASSUME CfgIInv, ToggleItem PROVE CfgIInv'
  OBVIOUS
<1>1. PICK i \in CfgItems :
        cfgCard' = [cfgCard EXCEPT !.over[i] = IF i \in SelectedItems THEN "off" ELSE "on",
                                   !.notice = "none"]
  BY DEF ToggleItem
<1>2. PICK now \in {"on", "off"} : now = IF i \in SelectedItems THEN "off" ELSE "on"
  OBVIOUS
<1>3. cfgCard \in CardTypes /\ UNCHANGED <<cfgFw, cu, cfgCalls>>
  BY DEF CfgIInv, CfgTypeOK, CardType, ToggleItem
<1>4. PICK over : over = [cfgCard.over EXCEPT ![i] = now]
  OBVIOUS
<1>5. over \in [CfgItems -> {"none", "on", "off"}]
  BY <1>3, <1>4 DEF CardTypes
<1>6. cfgCard' = [cfgCard EXCEPT !.over = over, !.notice = "none"]
  BY <1>1, <1>2, <1>3, <1>4 DEF CardTypes
<1>7. /\ CardType' /\ cfgCard'.mount = cfgCard.mount /\ cfgCard'.pending = cfgCard.pending
      /\ cfgCard'.dialog = cfgCard.dialog
  BY <1>3, <1>5, <1>6 DEF CardType, CardTypes
<1>8. QED
  BY <1>3, <1>7, SameCardKeeps DEF CfgIInv, AsksForSelected

LEMMA ClearAskedKeeps == CfgIInv /\ ClearAsked => CfgIInv'
<1> SUFFICES ASSUME CfgIInv, ClearAsked PROVE CfgIInv'
  OBVIOUS
<1>1. PICK dialog : dialog = [NoDialog EXCEPT !.kind = "clear"]
  OBVIOUS
<1>2. dialog \in CfgDialogs /\ dialog.kind = "clear"
  BY <1>1 DEF NoDialog, CfgDialogs
<1>3. cfgCard \in CardTypes /\ UNCHANGED <<cfgFw, cu, cfgCalls>>
      /\ cfgCard' = [cfgCard EXCEPT !.dialog = dialog]
  BY <1>1 DEF CfgIInv, CfgTypeOK, CardType, ClearAsked
<1>4. /\ CardType' /\ cfgCard'.mount = cfgCard.mount /\ cfgCard'.pending = cfgCard.pending
      /\ cfgCard'.dialog.kind = "clear"
  BY <1>2, <1>3 DEF CardType, CardTypes
<1>5. QED
  BY <1>3, <1>4, SameCardKeeps

LEMMA CancelledDialogKeeps == CfgIInv /\ DialogCancelled => CfgIInv'
<1> SUFFICES ASSUME CfgIInv, DialogCancelled PROVE CfgIInv'
  OBVIOUS
<1>1. cfgCard \in CardTypes /\ UNCHANGED <<cfgFw, cu, cfgCalls>>
      /\ cfgCard' = [cfgCard EXCEPT !.dialog = NoDialog]
  BY DEF CfgIInv, CfgTypeOK, CardType, DialogCancelled
<1>2. NoDialog \in CfgDialogs /\ NoDialog.kind = "none"
  BY DEF NoDialog, CfgDialogs
<1>3. /\ CardType' /\ cfgCard'.mount = cfgCard.mount /\ cfgCard'.pending = cfgCard.pending
      /\ cfgCard'.dialog.kind = "none"
  BY <1>1, <1>2 DEF CardType, CardTypes
<1>4. QED
  BY <1>1, <1>3, SameCardKeeps

\* A save of dangerous values opens a dialog that names them.
LEMMA SaveKeeps == CfgIInv /\ SaveClicked => CfgIInv'
<1> SUFFICES ASSUME CfgIInv, SaveClicked PROVE CfgIInv'
  OBVIOUS
<1>1. /\ SelectedItems \in SUBSET CfgItems /\ DangerousSelected \in SUBSET CfgItems
      /\ DangerousSelected \subseteq SelectedItems
  BY DEF SelectedItems, DangerousSelected, Visible
<1>2. cfgCard \in CardTypes /\ cfgFw' = cfgFw
  BY DEF CfgIInv, CfgTypeOK, CardType, SaveClicked
<1>3. CASE DangerousSelected = {} /\ RunMutation("save", SelectedItems, {}, FALSE)
  <2>1. {} \in SUBSET CfgItems /\ FALSE \in BOOLEAN /\ "save" \in {"save", "clear"}
    OBVIOUS
  <2>2. QED
    BY <1>1, <1>2, <1>3, <2>1, MutationKeeps
<1>4. CASE DangerousSelected # {}
  <2>1. PICK dialog : dialog = [kind |-> "save", ids |-> DangerousSelected,
                                selected |-> SelectedItems]
    OBVIOUS
  <2>2. /\ dialog \in CfgDialogs /\ dialog.ids # {} /\ dialog.ids \subseteq dialog.selected
    BY <1>1, <1>4, <2>1 DEF CfgDialogs
  <2>3. cfgCard' = [cfgCard EXCEPT !.dialog = dialog] /\ UNCHANGED <<cfgFw, cu, cfgCalls>>
    BY <1>4, <2>1 DEF SaveClicked
  <2>4. /\ CardType' /\ cfgCard'.mount = cfgCard.mount /\ cfgCard'.pending = cfgCard.pending
        /\ cfgCard'.dialog = dialog
    BY <1>2, <2>2, <2>3 DEF CardType, CardTypes
  <2>5. QED
    BY <2>2, <2>3, <2>4, SameCardKeeps
<1>5. QED
  BY <1>3, <1>4 DEF SaveClicked

\* What a confirmed dialog sends is what it was opened for.
LEMMA ConfirmedKeeps == CfgIInv /\ DialogConfirmed => CfgIInv'
<1> SUFFICES ASSUME CfgIInv, DialogConfirmed PROVE CfgIInv'
  OBVIOUS
<1>1. PICK dialog \in CfgDialogs : dialog = cfgCard.dialog
  BY DEF CfgIInv, CfgTypeOK, CardType, CardTypes
<1>2. dialog.kind # "none" /\ cfgFw' = cfgFw
      /\ RunMutation(dialog.kind, dialog.selected, dialog.ids, dialog.kind = "save")
  BY <1>1 DEF DialogConfirmed
<1>3. /\ dialog.kind \in {"save", "clear"} /\ dialog.selected \in SUBSET CfgItems
      /\ dialog.ids \in SUBSET CfgItems
  BY <1>1, <1>2 DEF CfgDialogs
<1>4. PICK confirm \in BOOLEAN : confirm = (dialog.kind = "save")
  OBVIOUS
<1>5. confirm => dialog.ids # {} /\ dialog.ids \subseteq dialog.selected
  BY <1>1, <1>4 DEF CfgIInv, AsksForSelected
<1>6. RunMutation(dialog.kind, dialog.selected, dialog.ids, confirm)
  BY <1>2, <1>4
<1>7. QED
  BY <1>2, <1>3, <1>5, <1>6, MutationKeeps

LEMMA RefreshClickKeeps == CfgIInv /\ ConfigRefreshClicked => CfgIInv'
<1> SUFFICES ASSUME CfgIInv, ConfigRefreshClicked PROVE CfgIInv'
  OBVIOUS
<1>1. PICK c \in CfgCalls :
        /\ Unused(c) /\ ~cfgCard.pending
        /\ IF Available(cu)
           THEN /\ cu' = RefreshStarted(cu, c)
                /\ cfgCalls' = [cfgCalls EXCEPT ![c] =
                     [[NoCfgCall EXCEPT !.mount = cfgCard.mount, !.kind = "refresh"]
                        EXCEPT !.st = "wait"]]
                /\ cfgCard' = [cfgCard EXCEPT !.pending = TRUE, !.notice = "none"]
           ELSE /\ cfgCalls' = [cfgCalls EXCEPT ![c] =
                     [[NoCfgCall EXCEPT !.mount = cfgCard.mount, !.kind = "refresh"]
                        EXCEPT !.st = "failed"]]
                /\ cfgCard' = [cfgCard EXCEPT !.notice = "none"] /\ UNCHANGED cu
  BY DEF ConfigRefreshClicked
<1>2. PICK st \in {"wait", "failed"} : st = IF Available(cu) THEN "wait" ELSE "failed"
  OBVIOUS
<1>3. PICK call : call = [NoCfgCall EXCEPT !.mount = cfgCard.mount, !.kind = "refresh", !.st = st]
  OBVIOUS
<1>4. /\ cfgCard \in CardTypes /\ cu \in HookTypes /\ cfgFw' = cfgFw
      /\ cfgCalls \in [CfgCalls -> CfgCallTypes] /\ cfgCalls[c].st = "none"
  BY <1>1 DEF CfgIInv, CfgTypeOK, CardType, HookType, CallsType, ConfigRefreshClicked, Unused
<1>5. /\ call \in CfgCallTypes /\ call.st = st /\ call.mount = cfgCard.mount
      /\ call.kind = "refresh" /\ call.confirm = FALSE /\ call.ver = 0
  BY <1>3, <1>4 DEF CfgCallTypes, NoCfgCall, CardTypes
<1>6. cfgCalls' = [cfgCalls EXCEPT ![c] = call]
  BY <1>1, <1>2, <1>3 DEF NoCfgCall
<1>7. CASE ~Available(cu)
  <2>1. /\ CardType' /\ cfgCard'.mount = cfgCard.mount /\ cfgCard'.pending = cfgCard.pending
        /\ cfgCard'.dialog = cfgCard.dialog /\ UNCHANGED <<cfgFw, cu>>
    BY <1>1, <1>4, <1>7 DEF CardType, CardTypes
  <2>2. call.st = "failed" /\ call.kind # "none" /\ (call.confirm => call.asked # {} /\ call.asked \subseteq call.ids)
    BY <1>2, <1>5, <1>7
  <2>3. cfgCard'.dialog.kind = "save" =>
           cfgCard'.dialog.ids # {} /\ cfgCard'.dialog.ids \subseteq cfgCard'.dialog.selected
    BY <2>1 DEF CfgIInv, AsksForSelected
  <2>4. QED
    BY <1>1, <1>5, <1>6, <2>1, <2>2, <2>3, GoneCallKeeps
<1>8. CASE Available(cu)
  <2>1. /\ CallsType' /\ cfgCalls'[c] = call
        /\ \A d \in CfgCalls : d # c => cfgCalls'[d] = cfgCalls[d]
    BY <1>4, <1>5, <1>6 DEF CallsType
  <2>2. call.st = "wait" /\ cu' = RefreshStarted(cu, c)
    BY <1>1, <1>2, <1>5, <1>8
  <2>3. 0 <= cfgFw.ver /\ 0 \in Nat /\ c \in {0} \cup CfgCalls
    BY DEF CfgIInv, CfgTypeOK, FwType
  <2>4. /\ HookType' /\ cu'.busy = cu.busy /\ cu'.alive = cu.alive
        /\ NothingIsNewer' /\ WaitersWait' /\ LatestIsBehind'
        /\ NobodyForgotten' /\ ShowsWhatWasSaved'
    BY <1>4, <1>5, <1>8, <2>1, <2>2, <2>3, RefreshKeeps
  <2>5. /\ CardType' /\ cfgCard'.mount = cfgCard.mount /\ cfgCard'.pending = TRUE
        /\ cfgCard'.dialog = cfgCard.dialog
    BY <1>1, <1>4, <1>8 DEF CardType, CardTypes
  <2>6. CfgTypeOK'
    BY <1>4, <2>1, <2>4, <2>5 DEF CfgIInv, CfgTypeOK, FwType
  <2>7. AsksForSelected' /\ AskedIsSent'
    BY <1>5, <2>1, <2>2, <2>5 DEF CfgIInv, AsksForSelected, AskedIsSent
  <2>8. OneCallPerCard'
    <3>1. \A d \in CfgCalls : ~Own(d)
      BY <1>1 DEF CfgIInv, OneCallPerCard
    <3>2. \A d \in CfgCalls : Own(d)' <=> d = c
      BY <1>5, <2>1, <2>2, <2>5, <3>1 DEF Own, CfgWaiting
    <3>3. \A d \in CfgCalls : cfgCalls'[d].mount <= cfgCard'.mount
      BY <1>4, <1>5, <2>1, <2>5 DEF CfgIInv, OneCallPerCard, CardTypes
    <3>4. QED
      BY <2>5, <3>2, <3>3 DEF OneCallPerCard
  <2>9. OneMutation'
    <3>1. Mutating' = Mutating
      BY <1>4, <1>5, <2>1, <2>2 DEF Mutating, CfgWaiting
    <3>2. QED
      BY <2>4, <3>1 DEF CfgIInv, OneMutation
  <2>10. QED
    BY <2>4, <2>6, <2>7, <2>8, <2>9 DEF CfgIInv
<1>9. QED
  BY <1>7, <1>8

\* Another card: no call is its own.
LEMMA SectionKeeps == CfgIInv /\ SectionChanged => CfgIInv'
<1> SUFFICES ASSUME CfgIInv, SectionChanged PROVE CfgIInv'
  OBVIOUS
<1>1. /\ cfgCard \in CardTypes /\ cfgCard' = CardMounted(cfgCard.mount + 1)
      /\ UNCHANGED <<cfgFw, cu, cfgCalls>>
  BY DEF CfgIInv, CfgTypeOK, CardType, SectionChanged
<1>2. PICK mount \in Nat : mount = cfgCard.mount + 1
  BY <1>1 DEF CardTypes
<1>3. NoDialog \in CfgDialogs /\ NoDialog.kind = "none"
  BY DEF NoDialog, CfgDialogs
<1>4. /\ CardType' /\ cfgCard'.mount = mount /\ cfgCard'.pending = FALSE
      /\ cfgCard'.dialog.kind = "none"
  BY <1>1, <1>2, <1>3 DEF CardType, CardTypes, CardMounted
<1>5. OneCallPerCard'
  <2>1. \A c \in CfgCalls : cfgCalls[c].mount \in Nat /\ cfgCalls[c].mount < mount
    BY <1>1, <1>2 DEF CfgIInv, CfgTypeOK, CallsType, CfgCallTypes, OneCallPerCard, CardTypes
  <2>2. \A c \in CfgCalls : ~Own(c)'
    BY <1>1, <1>4, <2>1 DEF Own
  <2>3. QED
    BY <1>1, <1>4, <2>1, <2>2 DEF OneCallPerCard
<1>6. QED
  BY <1>1, <1>4, <1>5, CardKeeps

LEMMA HardwareKeeps == CfgIInv /\ HardwareChanges => CfgIInv'
<1> SUFFICES ASSUME CfgIInv, HardwareChanges PROVE CfgIInv'
  OBVIOUS
<1>1. PICK i \in CfgItems :
        cfgFw' = [cfgFw EXCEPT !.now[i] = IF @ = "safe" THEN "danger" ELSE "safe", !.ver = @ + 1]
  BY DEF HardwareChanges
<1>2. /\ cfgFw \in [now : [CfgItems -> CfgValues], saved : [CfgItems -> CfgValues], ver : Nat]
      /\ UNCHANGED <<cu, cfgCard, cfgCalls>>
  BY DEF CfgIInv, CfgTypeOK, FwType, HardwareChanges
<1>3. PICK ver \in Nat : ver = cfgFw.ver + 1 /\ ver >= cfgFw.ver
  BY <1>2
<1>4. PICK now : now = [cfgFw.now EXCEPT ![i] = IF @ = "safe" THEN "danger" ELSE "safe"]
  OBVIOUS
<1>5. now \in [CfgItems -> CfgValues]
  BY <1>2, <1>4 DEF CfgValues
<1>6. cfgFw' = [cfgFw EXCEPT !.now = now, !.ver = ver]
  BY <1>1, <1>2, <1>3, <1>4
<1>7. FwType' /\ cfgFw'.ver = ver
  BY <1>2, <1>3, <1>5, <1>6 DEF FwType
<1>8. CfgTypeOK'
  BY <1>2, <1>7 DEF CfgIInv, CfgTypeOK, HookType, CardType, CallsType
<1>9. NothingIsNewer'
  <2>1. /\ \A get \in cu.gets : get.answer.ver \in Nat
        /\ cu.shown.ver \in Nat /\ cfgFw.ver \in Nat
        /\ \A d \in CfgCalls : cfgCalls[d].ver \in Nat
    BY DEF CfgIInv, CfgTypeOK, HookType, HookTypes, CfgGets, CfgAnswers, CfgShown,
           CallsType, CfgCallTypes, FwType
  <2>2. QED
    BY <1>2, <1>3, <1>7, <2>1 DEF CfgIInv, NothingIsNewer
<1>10. WaitersWait' /\ LatestIsBehind'
  BY <1>2 DEF CfgIInv, WaitersWait, LatestIsBehind, Available, Changes
<1>11. AsksForSelected' /\ OneCallPerCard' /\ OneMutation'
  BY <1>2 DEF CfgIInv, AsksForSelected, OneCallPerCard, OneMutation, Own, Mutating
<1>12. NobodyForgotten' /\ ShowsWhatWasSaved' /\ AskedIsSent'
  BY <1>2 DEF CfgIInv, NobodyForgotten, ShowsWhatWasSaved, AskedIsSent
<1>13. QED
  BY <1>8, <1>9, <1>10, <1>11, <1>12 DEF CfgIInv

-----------------------------------------------------------------------------
(* The theorem.                                                             *)

LEMMA CfgInitHolds == ConfigUIInit => CfgIInv
<1> SUFFICES ASSUME ConfigUIInit PROVE CfgIInv
  OBVIOUS
<1>1. FwType
  BY DEF ConfigUIInit, FwType, CfgValues
<1>2. NoConfig \in CfgShown /\ NoConfig.gen = 0 /\ NoConfig.ver = 0
  BY DEF NoConfig, CfgShown, CfgValues
<1>3. HookType /\ cu.shown = NoConfig /\ cu.gets = {} /\ cu.waiters = {} /\ cu.latest = 0
      /\ cu.busy = "none" /\ cfgFw.ver = 1
  BY <1>2 DEF ConfigUIInit, HookType, HookTypes, CfgErrors
<1>4. CardType /\ cfgCard.mount = 1 /\ cfgCard.pending = FALSE /\ cfgCard.dialog.kind = "none"
  BY DEF ConfigUIInit, CardMounted, CardType, CardTypes, NoDialog, CfgDialogs
<1>5. CallsType /\ \A c \in CfgCalls :
        /\ cfgCalls[c].st = "none" /\ cfgCalls[c].mount = 0 /\ cfgCalls[c].ver = 0
        /\ cfgCalls[c].confirm = FALSE
  BY DEF ConfigUIInit, CallsType, NoCfgCall, CfgCallTypes
<1>6. CfgTypeOK /\ NothingIsNewer /\ WaitersWait /\ LatestIsBehind
  BY <1>1, <1>2, <1>3, <1>4, <1>5 DEF CfgTypeOK, NothingIsNewer, WaitersWait, LatestIsBehind
<1>7. AsksForSelected /\ OneCallPerCard /\ OneMutation
  BY <1>3, <1>4, <1>5 DEF AsksForSelected, OneCallPerCard, OneMutation, Own, CfgWaiting, Mutating
<1>8. NobodyForgotten /\ ShowsWhatWasSaved /\ AskedIsSent
  BY <1>3, <1>5 DEF NobodyForgotten, ShowsWhatWasSaved, AskedIsSent
<1>9. QED
  BY <1>6, <1>7, <1>8 DEF CfgIInv

LEMMA CfgStepHolds == CfgIInv /\ [ConfigUINext]_configUIVars => CfgIInv'
<1> SUFFICES ASSUME CfgIInv, [ConfigUINext]_configUIVars PROVE CfgIInv'
  OBVIOUS
<1>1. CASE AuthorityEffect
  BY <1>1, AuthorityKeeps
<1>2. CASE SummaryEffect
  BY <1>2, SummaryKeeps
<1>3. ASSUME NEW get \in cu.gets, GetServed(get) \/ GetAnswered(get) PROVE CfgIInv'
  BY <1>3, ServedGetKeeps, AnsweredGetKeeps
<1>4. ASSUME NEW c \in CfgCalls, OpServed(c) \/ OpAnswered(c) PROVE CfgIInv'
  BY <1>4, ServedOpKeeps, AnsweredOpKeeps
<1>5. CASE BoardRenders \/ HookUnmounts
  BY <1>5, RenderKeeps, UnmountKeeps
<1>6. CASE ToggleItem \/ SaveClicked \/ ClearAsked
  BY <1>6, ToggleKeeps, SaveKeeps, ClearAskedKeeps
<1>7. CASE DialogCancelled \/ DialogConfirmed \/ ConfigRefreshClicked
  BY <1>7, CancelledDialogKeeps, ConfirmedKeeps, RefreshClickKeeps
<1>8. CASE SectionChanged \/ HardwareChanges
  BY <1>8, SectionKeeps, HardwareKeeps
<1>9. CASE UNCHANGED configUIVars
  <2>1. UNCHANGED <<cfgFw, cu, cfgCalls, cfgCard>>
    BY <1>9 DEF configUIVars
  <2>2. CardType' /\ cfgCard' = cfgCard
    BY <2>1 DEF CfgIInv, CfgTypeOK, CardType
  <2>3. QED
    BY <2>1, <2>2, SameCardKeeps DEF CfgIInv, AsksForSelected
<1>10. QED
  BY <1>1, <1>2, <1>3, <1>4, <1>5, <1>6, <1>7, <1>8, <1>9 DEF ConfigUINext, ConfigGoesOn

\* The busy flag and the lock belong to the one mutation that runs.
LEMMA CfgIInvSound == CfgIInv => ConfigPageIsSound
<1> SUFFICES ASSUME CfgIInv PROVE ConfigPageIsSound
  OBVIOUS
<1>1. Cardinality(Mutating) <= 1
  <2>1. CASE Mutating = {}
    BY <2>1, FS_EmptySet
  <2>2. CASE Mutating # {}
    <3>1. PICK c \in Mutating : TRUE
      BY <2>2
    <3>2. Mutating = {c}
      BY <3>1 DEF CfgIInv, OneMutation
    <3>3. Cardinality({c}) = 1
      BY FS_Singleton
    <3>4. QED
      BY <3>2, <3>3
  <2>3. QED
    BY <2>1, <2>2
<1>2. cu.alive \in BOOLEAN /\ cfgCard.pending \in BOOLEAN
  BY DEF CfgIInv, CfgTypeOK, HookType, HookTypes, CardType, CardTypes
<1>3. BusyWhileMutating
  BY <1>1, <1>2 DEF CfgIInv, OneMutation, OneCallPerCard, Own, BusyWhileMutating
<1>4. QED
  BY <1>3 DEF CfgIInv, ConfigPageIsSound

\* The configuration page is sound (ConfigUI!ConfigPageIsSound), whatever the
\* catalog and however many calls are out of how many cards: no waiter of
\* usePersistentConfig is forgotten, what is shown behind a save was read behind
\* it, a save is confirmed only as the answer to a dialog and sends what that
\* dialog named, and the buttons tell the truth.
THEOREM ConfigPageSound == ConfigUIFairSpec => []ConfigPageIsSound
BY CfgInitHolds, CfgStepHolds, CfgIInvSound, PTL DEF ConfigUIFairSpec
=============================================================================
