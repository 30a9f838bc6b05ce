--------------------------- MODULE OtaClient_proofs ---------------------------
(***************************************************************************)
(* Theorems about the firmware page, for any number of mounts of its card, *)
(* clicks and files.                                                       *)
(***************************************************************************)
EXTENDS OtaClient, FiniteSetTheorems, TLAPS

Busies == {"none", "hashing", "uploading", "testing", "confirming"}
Kinds == {"none", "status", "hash", "upload", "test", "confirm", "boot"}
CardRecords ==
  [mount : Nat, mounted : BOOLEAN, busy : Busies, file : Nat, sha : Nat, job : Nat,
   picks : {0}, gen : Nat, live : BOOLEAN, timers : SUBSET Nat, ref : Nat]

\* A call is known by what it is and where it came from; that is never changed.
CallShape(call) ==
  /\ call.kind \in Kinds /\ call.mount \in Nat /\ call.then \in Int
  /\ DOMAIN call = DOMAIN NoCall

\* A call is of this mount or one before, and continues a poll loop of it or a
\* confirm; a hash is of the file of its job, an upload carries the sha of its file.
CallInv(call) ==
  /\ CallShape(call)
  /\ call.mount <= oc.mount /\ call.then \in {Confirming} \cup Nat
  /\ call.mount = oc.mount => call.then <= oc.gen
  /\ call.kind # "status" => call.then = 0
  /\ call.kind = "hash" => call.file = call.job
  /\ call.kind = "upload" => call.sha = call.file

PageFields == {"status", "lock", "hidden", "grace", "events"}

\* The file and the sha are of the last pick, or none is shown; only the poll effect
\* of now has a timer, which pollTimerRef knows.
CardInv ==
  /\ oc \in CardRecords /\ oc.gen # 0
  /\ DOMAIN otaPage = PageFields /\ otaPage.hidden \in BOOLEAN
  /\ oc.file \in {0, oc.job} /\ oc.sha \in {0, oc.job}
  /\ oc.live = TRUE <=> oc.mounted = TRUE /\ otaPage.hidden = FALSE
  /\ oc.timers \subseteq {oc.gen}
  /\ oc.timers # {} => oc.live = TRUE /\ oc.ref = oc.gen

Acts(call) == call.kind \in {"upload", "test", "confirm", "boot"} \/ call.then = Confirming
\* Whoever has the lock is the one call that acts.
LockInv ==
  /\ \A call, other \in calls : Acts(call) /\ Acts(other) => call = other
  /\ otaPage.lock # "none" <=> \E call \in calls : Acts(call)

\* The loop of the effect of now is asleep or in one call.
LoopOf(call) == call.mount = oc.mount /\ call.then = oc.gen
LoopInv ==
  /\ \A call, other \in calls : LoopOf(call) /\ LoopOf(other) => call = other
  /\ oc.live = TRUE => (oc.timers # {} <=> ~\E call \in calls : LoopOf(call))

\* The call that will end what the card is busy with.
Settles(busy, call) ==
  CASE busy = "hashing" -> call.kind = "hash" /\ call.job = oc.job
    [] busy = "uploading" -> call.kind = "upload"
    [] busy = "testing" -> call.kind = "test"
    [] busy = "confirming" -> call.kind = "confirm" \/ call.then = Confirming
    [] OTHER -> FALSE
BusyInv ==
  oc.busy # "none" =>
    oc.mounted = TRUE /\ \E call \in calls : call.mount = oc.mount /\ Settles(oc.busy, call)

CardsInv ==
  /\ \A call \in calls : CallInv(call)
  /\ CardInv /\ LockInv /\ LoopInv /\ BusyInv

-----------------------------------------------------------------------------
(* The calls.                                                              *)

\* What tells calls apart.
Same(call, other) ==
  /\ CallShape(other) /\ other.kind = call.kind /\ other.mount = call.mount
  /\ other.then = call.then /\ other.file = call.file /\ other.sha = call.sha
  /\ other.job = call.job

\* An answer, or the way to it, leaves a call what it is.
LEMMA AnswerIsSame ==
  ASSUME NEW call, CallShape(call), NEW pc, NEW ok, NEW report
  PROVE  /\ Same(call, [call EXCEPT !.pc = pc, !.ok = ok, !.report = report])
         /\ Same(call, [call EXCEPT !.pc = pc])
  BY DEF Same, CallShape, NoCall

LEMMA NewStatus ==
  ASSUME NEW mount \in Nat, NEW mode, NEW then \in Int
  PROVE  /\ CallShape(StatusCall(mount, mode, then))
         /\ StatusCall(mount, mode, then).kind = "status"
         /\ StatusCall(mount, mode, then).mount = mount
         /\ StatusCall(mount, mode, then).then = then
  BY DEF CallShape, NoCall, StatusCall, Kinds

NewHash(mount, job) ==
  [NoCall EXCEPT !.kind = "hash", !.mount = mount, !.job = job, !.file = job]

LEMMA NewHashIs ==
  ASSUME NEW mount \in Nat, NEW job
  PROVE  /\ CallShape(NewHash(mount, job)) /\ NewHash(mount, job).kind = "hash"
         /\ NewHash(mount, job).mount = mount /\ NewHash(mount, job).then = 0
         /\ NewHash(mount, job).job = job /\ NewHash(mount, job).file = job
  BY DEF CallShape, NoCall, Kinds, NewHash

\* A call that acts, made from one without a mount.
NewAct(base, kind) == [base EXCEPT !.kind = kind, !.mount = oc.mount]

LEMMA NewActIs ==
  ASSUME NEW kind \in {"upload", "test", "confirm", "boot"}, oc.mount \in Nat,
         NEW base, CallShape(base), base.then = 0
  PROVE  /\ CallShape(NewAct(base, kind)) /\ NewAct(base, kind).kind = kind
         /\ NewAct(base, kind).mount = oc.mount /\ NewAct(base, kind).then = 0
         /\ NewAct(base, kind).file = base.file /\ NewAct(base, kind).sha = base.sha
  BY DEF CallShape, NoCall, Kinds, NewAct

LEMMA NoCallIs == CallShape(NoCall) /\ NoCall.then = 0
  BY DEF CallShape, NoCall, Kinds

\* The fields of the card.
LEMMA CardFields ==
  ASSUME NEW card \in CardRecords
  PROVE  /\ card.mount \in Nat /\ card.mounted \in BOOLEAN /\ card.busy \in Busies
         /\ card.file \in Nat /\ card.sha \in Nat /\ card.job \in Nat /\ card.gen \in Nat
         /\ card.live \in BOOLEAN /\ card.timers \in SUBSET Nat /\ card.ref \in Nat
  BY DEF CardRecords

-----------------------------------------------------------------------------
(* What keeps each conjunct of the invariant.                              *)

\* The mount or its effect only gets newer.
Newer ==
  /\ oc'.mount \in Nat /\ oc.mount <= oc'.mount /\ oc'.gen \in Nat
  /\ oc'.mount = oc.mount => oc.gen <= oc'.gen

LEMMA CallsKept ==
  ASSUME CardsInv, Newer, \A call \in calls' : call \in calls \/ CallInv(call)'
  PROVE  (\A call \in calls : CallInv(call))'
  <1> SUFFICES ASSUME NEW call \in calls' PROVE CallInv(call)'
    OBVIOUS
  <1>1. CASE CallInv(call)'
    BY <1>1
  <1>2. CASE call \in calls
    <2>1. CallInv(call) /\ oc.mount \in Nat /\ oc.gen \in Nat
      BY <1>2, CardFields DEF CardsInv, CardInv
    <2>2. call.mount \in Nat /\ call.then \in Int
      BY <2>1 DEF CallInv, CallShape
    <2>3. call.mount <= oc'.mount /\ (call.mount = oc'.mount => call.then <= oc'.gen)
      BY <2>1, <2>2 DEF CallInv, Newer
    <2> QED
      BY <2>1, <2>3 DEF CallInv
  <1> QED
    BY <1>1, <1>2

\* The lock is with the call that acts; another call comes or goes.
LEMMA LockKept ==
  ASSUME LockInv, otaPage'.lock = otaPage.lock,
         \A call \in calls' : Acts(call) => call \in calls,
         \A call \in calls : Acts(call) => call \in calls'
  PROVE  LockInv'
  <1>1. (\A call, other \in calls : Acts(call) /\ Acts(other) => call = other)'
    BY DEF LockInv, Acts
  <1>2. (\E call \in calls : Acts(call))' <=> \E call \in calls : Acts(call)
    BY DEF Acts
  <1> QED
    BY <1>1, <1>2 DEF LockInv

LEMMA LockTaken ==
  ASSUME LockInv, otaPage.lock = "none", otaPage'.lock # "none",
         NEW call, Acts(call), calls' = calls \cup {call}
  PROVE  LockInv'
  <1>1. \A other \in calls : ~Acts(other)
    BY DEF LockInv
  <1>2. \A other \in calls' : Acts(other) => other = call
    BY <1>1
  <1> QED
    BY <1>2 DEF LockInv, Acts

LEMMA LockLeft ==
  ASSUME LockInv, NEW call \in calls, Acts(call), calls' = calls \ {call},
         otaPage'.lock = "none"
  PROVE  LockInv'
  <1>1. \A other \in calls' : ~Acts(other)
    BY DEF LockInv
  <1> QED
    BY <1>1 DEF LockInv, Acts

\* The same for a call that becomes another.
LEMMA LockMoves ==
  ASSUME LockInv, otaPage'.lock = otaPage.lock, NEW call \in calls, NEW moved,
         Acts(call) <=> Acts(moved), calls' = (calls \ {call}) \cup {moved}
  PROVE  LockInv'
  <1>1. (\A one, other \in calls : Acts(one) /\ Acts(other) => one = other)'
    BY DEF LockInv, Acts
  <1>2. (\E one \in calls : Acts(one))' <=> \E one \in calls : Acts(one)
    BY DEF Acts
  <1> QED
    BY <1>1, <1>2 DEF LockInv

\* The effect and its timer are the same, and so is the call of its loop.
LEMMA LoopKept ==
  ASSUME LoopInv, oc'.mount = oc.mount, oc'.gen = oc.gen,
         oc'.live = oc.live \/ oc'.live = FALSE,
         oc'.live = TRUE => (oc'.timers = {} <=> oc.timers = {}),
         \A call \in calls' : LoopOf(call) => call \in calls,
         \A call \in calls : LoopOf(call) => call \in calls'
  PROVE  LoopInv'
  <1>1. \A call : LoopOf(call)' <=> LoopOf(call)
    BY DEF LoopOf
  <1>2. (\A call, other \in calls : LoopOf(call) /\ LoopOf(other) => call = other)'
    BY <1>1 DEF LoopInv
  <1>3. (\E call \in calls : LoopOf(call))' <=> \E call \in calls : LoopOf(call)
    BY <1>1
  <1> QED
    BY <1>2, <1>3 DEF LoopInv

LEMMA LoopMoves ==
  ASSUME LoopInv, oc' = oc, NEW call \in calls, NEW moved,
         LoopOf(call) <=> LoopOf(moved), calls' = (calls \ {call}) \cup {moved}
  PROVE  LoopInv'
  <1>1. \A one : LoopOf(one)' <=> LoopOf(one)
    BY DEF LoopOf
  <1>2. (\A one, other \in calls : LoopOf(one) /\ LoopOf(other) => one = other)'
    BY <1>1 DEF LoopInv
  <1>3. (\E one \in calls : LoopOf(one))' <=> \E one \in calls : LoopOf(one)
    BY <1>1
  <1> QED
    BY <1>2, <1>3 DEF LoopInv

\* The card is busy with the same, and the call that ends it is still there.
LEMMA BusyKept ==
  ASSUME BusyInv, oc'.busy = "none" \/ oc'.busy = oc.busy, oc'.mount = oc.mount,
         oc'.busy # "none" => oc'.mounted = oc.mounted,
         oc'.busy = "hashing" => oc'.job = oc.job,
         oc'.busy # "none" =>
           \A call \in calls : call.mount = oc.mount /\ Settles(oc.busy, call) =>
             \E other \in calls' : Same(call, other)  \/ other = call
  PROVE  BusyInv'
  <1> SUFFICES ASSUME oc'.busy # "none"
               PROVE  oc'.mounted = TRUE /\
                      \E call \in calls' : call.mount = oc'.mount /\ Settles(oc.busy, call)'
    BY DEF BusyInv
  <1>1. oc'.busy = oc.busy /\ oc'.mounted = TRUE
    BY DEF BusyInv
  <1>2. PICK call \in calls : call.mount = oc.mount /\ Settles(oc.busy, call)
    BY <1>1 DEF BusyInv
  <1>3. PICK other \in calls' : Same(call, other) \/ other = call
    BY <1>2
  <1>4. other.mount = oc'.mount
    BY <1>2, <1>3 DEF Same
  <1>5. Settles(oc.busy, other)'
    BY <1>1, <1>2, <1>3 DEF Same, Settles
  <1> QED
    BY <1>1, <1>4, <1>5

-----------------------------------------------------------------------------
(* The steps.                                                              *)

\* What the properties see of the page.
PageIs(page, lock, hidden) ==
  DOMAIN page = PageFields /\ page.lock = lock /\ page.hidden = hidden

LEMMA PageChanges ==
  ASSUME CardInv
  PROVE  /\ PageIs(otaPage, otaPage.lock, otaPage.hidden)
         /\ \A n : PageIs([otaPage EXCEPT !.events = n], otaPage.lock, otaPage.hidden)
         /\ \A n, hidden : PageIs([otaPage EXCEPT !.hidden = hidden, !.events = n],
                                  otaPage.lock, hidden)
         /\ \A n, lock : PageIs([otaPage EXCEPT !.events = n, !.lock = lock],
                                lock, otaPage.hidden)
         /\ \A lock, status : PageIs([otaPage EXCEPT !.lock = lock, !.status = status],
                                     lock, otaPage.hidden)
         /\ \A set : PageIs([otaPage EXCEPT !.grace = set], otaPage.lock, otaPage.hidden)
         /\ \A lock : PageIs([otaPage EXCEPT !.lock = lock], lock, otaPage.hidden)
  BY DEF CardInv, PageFields, PageIs

\* The status and the grace of a page are not looked at.
LEMMA StatusChanges ==
  ASSUME NEW page, NEW lock, NEW hidden, PageIs(page, lock, hidden)
  PROVE  /\ \A status, set : PageIs([page EXCEPT !.status = status, !.grace = set], lock, hidden)
         /\ \A state : PageIs([page EXCEPT !.status.state = state], lock, hidden)
         /\ \A mount : PageIs(SetLocalRebooting(page, mount), lock, hidden)
  BY DEF PageIs, PageFields, SetLocalRebooting

LEMMA CardSame ==
  ASSUME CardInv, oc' = oc, NEW lock, PageIs(otaPage', lock, otaPage.hidden)
  PROVE  CardInv'
  BY DEF CardInv, PageIs

LEMMA SameIsSame ==
  ASSUME CardsInv, NEW call \in calls, NEW moved, Same(call, moved)
  PROVE  /\ Acts(call) <=> Acts(moved)
         /\ LoopOf(call) <=> LoopOf(moved)
         /\ CallInv(moved)
  <1>1. Acts(call) <=> Acts(moved)
    BY DEF Same, Acts
  <1>2. LoopOf(call) <=> LoopOf(moved)
    BY DEF Same, LoopOf
  <1>3. CallInv(moved)
    BY DEF Same, CallInv, CardsInv
  <1> QED
    BY <1>1, <1>2, <1>3

LEMMA SameMount ==
  ASSUME CardsInv, oc'.mount = oc.mount, oc'.gen = oc.gen
  PROVE  Newer
  BY CardFields DEF Newer, CardsInv, CardInv

LEMMA CallMoves ==
  ASSUME CardsInv, NEW call \in calls, NEW moved, Same(call, moved),
         calls' = (calls \ {call}) \cup {moved}, oc' = oc,
         PageIs(otaPage', otaPage.lock, otaPage.hidden)
  PROVE  CardsInv'
  <1>1. CardInv'
    BY CardSame DEF CardsInv
  <1>2. (\A c \in calls : CallInv(c))'
    <2>1. CallInv(moved)'
      BY SameIsSame DEF CallInv
    <2>2. Newer
      BY SameMount
    <2> QED
      BY <2>1, <2>2, CallsKept
  <1>3. LockInv'
    BY SameIsSame, LockMoves DEF CardsInv, PageIs
  <1>4. LoopInv'
    BY SameIsSame, LoopMoves DEF CardsInv
  <1>5. BusyInv'
    <2>1. \A c \in calls : \E other \in calls' : Same(c, other) \/ other = c
      OBVIOUS
    <2> QED
      BY <2>1, BusyKept DEF CardsInv
  <1> QED
    BY <1>1, <1>2, <1>3, <1>4, <1>5 DEF CardsInv

LEMMA AnswerStep ==
  ASSUME CardsInv, NEW call \in calls, Serve(call) \/ Received(call) \/ Lost(call)
  PROVE  CardsInv'
  <1>1. CallShape(call)
    BY DEF CardsInv, CallInv
  <1>2. ASSUME NEW ok, NEW device, Answer(call, ok, device)
        PROVE  CardsInv'
    <2> DEFINE report == IF ok /\ call.kind \in {"status", "upload"}
                         THEN [Report EXCEPT !.state = device.state] ELSE NoStatus
               moved == [call EXCEPT !.pc = "back", !.ok = ok, !.report = report]
    <2>1. calls' = (calls \ {call}) \cup {moved} /\ oc' = oc /\ otaPage' = otaPage
      BY <1>2 DEF Answer
    <2> HIDE DEF report
    <2>2. Same(call, moved)
      BY <1>1, AnswerIsSame
    <2>3. PageIs(otaPage', otaPage.lock, otaPage.hidden)
      BY <2>1, PageChanges DEF CardsInv
    <2> HIDE DEF moved
    <2> QED
      BY <2>1, <2>2, <2>3, CallMoves
  <1>3. ASSUME calls' = (calls \ {call}) \cup {[call EXCEPT !.pc = "in"]},
               oc' = oc, otaPage' = otaPage
        PROVE  CardsInv'
    <2>1. PageIs(otaPage', otaPage.lock, otaPage.hidden)
      BY <1>3, PageChanges DEF CardsInv
    <2>2. Same(call, [call EXCEPT !.pc = "in"])
      BY <1>1, AnswerIsSame
    <2> QED
      BY <1>3, <2>1, <2>2, CallMoves
  <1>4. CASE Serve(call)
    BY <1>2, <1>3, <1>4 DEF Serve
  <1>5. CASE Received(call)
    BY <1>2, <1>5 DEF Received
  <1>6. CASE Lost(call)
    <2>1. CASE Answer(call, FALSE, odev)
      BY <1>2, <2>1
    <2>2. CASE /\ otaPage' = [otaPage EXCEPT !.events = @ + 1]
               /\ calls' = (calls \ {call}) \cup
                    {[call EXCEPT !.pc = "back", !.ok = FALSE, !.report = NoStatus]}
               /\ UNCHANGED oc
      <3>1. PageIs(otaPage', otaPage.lock, otaPage.hidden)
        BY <2>2, PageChanges DEF CardsInv
      <3>2. Same(call, [call EXCEPT !.pc = "back", !.ok = FALSE, !.report = NoStatus])
        BY <1>1, AnswerIsSame
      <3> QED
        BY <2>2, <3>1, <3>2, CallMoves
    <2> QED
      BY <1>6, <2>1, <2>2 DEF Lost
  <1> QED
    BY <1>4, <1>5, <1>6

\* The card is busy with something else.
LEMMA BusyChanges ==
  ASSUME CardsInv, NEW busy \in Busies, oc' = [oc EXCEPT !.busy = busy],
         NEW lock, PageIs(otaPage', lock, otaPage.hidden)
  PROVE  /\ CardInv' /\ Newer /\ oc'.busy = busy
         /\ oc'.mount = oc.mount /\ oc'.mounted = oc.mounted /\ oc'.gen = oc.gen
         /\ oc'.job = oc.job /\ oc'.live = oc.live /\ oc'.timers = oc.timers
         /\ oc'.file = oc.file /\ oc'.sha = oc.sha
  <1>1. oc \in CardRecords
    BY DEF CardsInv, CardInv
  <1>2. /\ oc' \in CardRecords /\ oc'.busy = busy
        /\ oc'.mount = oc.mount /\ oc'.mounted = oc.mounted /\ oc'.gen = oc.gen
        /\ oc'.job = oc.job /\ oc'.live = oc.live /\ oc'.timers = oc.timers
        /\ oc'.file = oc.file /\ oc'.sha = oc.sha /\ oc'.ref = oc.ref
    BY <1>1 DEF CardRecords
  <1>3. CardInv'
    BY <1>2 DEF CardsInv, CardInv, PageIs
  <1>4. Newer
    BY <1>2, SameMount
  <1> QED
    BY <1>2, <1>3, <1>4

\* A call that acts is over: the lock is free, and a card that waited for it too.
LEMMA ActEnds ==
  ASSUME CardsInv, NEW call \in calls, Acts(call), calls' = calls \ {call},
         oc' = Cleared(call), PageIs(otaPage', "none", otaPage.hidden)
  PROVE  CardsInv'
  <1>1. CallInv(call) /\ oc.gen \in Nat /\ oc.gen # 0 /\ oc.mounted \in BOOLEAN
    BY CardFields DEF CardsInv, CardInv
  <1>2. call.then \in {0, Confirming} /\ ~LoopOf(call)
    BY <1>1 DEF CallInv, Acts, LoopOf, Confirming
  <1>3. LockInv'
    BY LockLeft DEF CardsInv, PageIs
  <1>4. CASE Here(call) /\ call.kind # "boot"
    <2>1. oc' = [oc EXCEPT !.busy = "none"]
      BY <1>4 DEF Cleared
    <2>2. /\ CardInv' /\ Newer /\ oc'.busy = "none" /\ oc'.mount = oc.mount
          /\ oc'.gen = oc.gen /\ oc'.live = oc.live /\ oc'.timers = oc.timers
      BY <2>1, BusyChanges DEF Busies
    <2>3. (\A c \in calls : CallInv(c))'
      BY <2>2, CallsKept
    <2>4. LoopInv'
      BY <1>2, <2>2, LoopKept DEF CardsInv
    <2>5. BusyInv'
      BY <2>2 DEF BusyInv
    <2> QED
      BY <1>3, <2>2, <2>3, <2>4, <2>5 DEF CardsInv
  <1>5. CASE ~(Here(call) /\ call.kind # "boot")
    <2>1. oc' = oc
      BY <1>5 DEF Cleared
    <2>2. CardInv' /\ Newer
      BY <2>1, CardSame, SameMount DEF CardsInv
    <2>3. (\A c \in calls : CallInv(c))'
      BY <2>2, CallsKept
    <2>4. LoopInv'
      BY <1>2, <2>1, LoopKept DEF CardsInv
    <2>5. BusyInv'
      <3>1. ASSUME oc.busy # "none", call.mount = oc.mount, Settles(oc.busy, call)
            PROVE  FALSE
        <4>1. oc.mounted = TRUE
          BY <3>1 DEF CardsInv, BusyInv
        <4>2. call.kind = "boot"
          BY <1>5, <3>1, <4>1 DEF Here
        <4>3. call.then = 0
          BY <1>1, <4>2 DEF CallInv
        <4> QED
          BY <3>1, <4>2, <4>3 DEF Settles, Confirming
      <3> QED
        BY <2>1, <3>1, BusyKept DEF CardsInv
    <2> QED
      BY <1>3, <2>2, <2>3, <2>4, <2>5 DEF CardsInv
  <1> QED
    BY <1>4, <1>5

LEMMA ActEndsStep ==
  ASSUME CardsInv, NEW call \in calls,
         UploadEnds(call) \/ CancelUpload(call) \/ TestEnds(call) \/ BootEnds(call)
  PROVE  CardsInv'
  <1>1. ASSUME NEW status, Acts(call), Done(call, status)
        PROVE  CardsInv'
    <2>1. PageIs(otaPage', "none", otaPage.hidden)
      BY <1>1, PageChanges DEF Done, CardsInv
    <2> QED
      BY <1>1, <2>1, ActEnds DEF Done
  <1>2. CASE UploadEnds(call)
    BY <1>1, <1>2 DEF UploadEnds, Acts
  <1>3. CASE BootEnds(call)
    BY <1>1, <1>3 DEF BootEnds, Acts
  <1>4. CASE CancelUpload(call)
    <2>1. PageIs(otaPage', "none", otaPage.hidden)
      BY <1>4, PageChanges DEF CancelUpload, CardsInv
    <2> QED
      BY <1>4, <2>1, ActEnds DEF CancelUpload, Acts
  <1>5. CASE TestEnds(call)
    <2>1. PageIs(otaPage', "none", otaPage.hidden)
      <3> DEFINE page == [otaPage EXCEPT !.lock = "none"]
      <3>1. PageIs(page, "none", otaPage.hidden)
        BY PageChanges DEF CardsInv
      <3>2. otaPage' = IF call.ok THEN SetLocalRebooting(page, call.mount) ELSE page
        BY <1>5 DEF TestEnds
      <3> HIDE DEF page
      <3> QED
        BY <3>1, <3>2, StatusChanges
    <2> QED
      BY <1>5, <2>1, ActEnds DEF TestEnds, Acts
  <1> QED
    BY <1>2, <1>3, <1>4, <1>5

\* A confirm goes on as a request of the status, which has the lock still.
LEMMA ConfirmStep ==
  ASSUME CardsInv, NEW call \in calls, ConfirmEnds(call)
  PROVE  CardsInv'
  <1>1. CASE Done(call, otaPage.status)
    <2>1. PageIs(otaPage', "none", otaPage.hidden)
      BY <1>1, PageChanges DEF Done, CardsInv
    <2> QED
      BY <1>1, <2>1, ActEnds DEF Done, ConfirmEnds, Acts
  <1>2. CASE calls' = (calls \ {call}) \cup {StatusCall(call.mount, "manual", Confirming)}
             /\ oc' = oc /\ otaPage' = otaPage
    <2> DEFINE moved == StatusCall(call.mount, "manual", Confirming)
    <2>1. call.kind = "confirm" /\ CallInv(call)
      BY DEF ConfirmEnds, CardsInv
    <2>2. call.mount \in Nat /\ Confirming \in Int /\ Confirming < 0 /\ call.then = 0
      BY <2>1 DEF CallInv, CallShape, Confirming
    <2>3. /\ CallShape(moved) /\ moved.kind = "status" /\ moved.mount = call.mount
          /\ moved.then = Confirming
      BY <2>2, NewStatus
    <2> HIDE DEF moved
    <2>4. oc.gen \in Nat /\ oc.gen # 0
      BY CardFields DEF CardsInv, CardInv
    <2>5. CardInv' /\ Newer
      BY <1>2, CardSame, SameMount, PageChanges DEF CardsInv
    <2>6. (\A c \in calls : CallInv(c))'
      <3>1. CallInv(moved)
        BY <2>1, <2>2, <2>3, <2>4 DEF CallInv
      <3>2. CallInv(moved)'
        BY <1>2, <3>1 DEF CallInv
      <3> QED
        BY <1>2, <2>5, <3>2, CallsKept DEF moved
    <2>7. LockInv'
      BY <1>2, <2>1, <2>3, LockMoves DEF CardsInv, Acts, moved
    <2>8. LoopInv'
      <3>1. ~LoopOf(call) /\ ~LoopOf(moved)
        BY <2>2, <2>3, <2>4 DEF LoopOf
      <3> QED
        BY <1>2, <3>1, LoopMoves DEF CardsInv, moved
    <2>9. BusyInv'
      <3> SUFFICES ASSUME oc.busy # "none"
                   PROVE  \E c \in calls' : c.mount = oc.mount /\ Settles(oc.busy, c)
        BY <1>2 DEF CardsInv, BusyInv, Settles
      <3>1. PICK c \in calls : c.mount = oc.mount /\ Settles(oc.busy, c)
        BY DEF CardsInv, BusyInv
      <3>2. CASE c # call
        BY <1>2, <3>1, <3>2
      <3>3. CASE c = call
        <4>1. Settles(oc.busy, moved)
          BY <2>1, <2>2, <2>3, <3>1, <3>3 DEF Settles
        <4> QED
          BY <1>2, <2>3, <3>1, <3>3, <4>1 DEF moved
      <3> QED
        BY <3>2, <3>3
    <2> QED
      BY <2>5, <2>6, <2>7, <2>8, <2>9 DEF CardsInv
  <1> QED
    BY <1>1, <1>2 DEF ConfirmEnds

\* A hash is done: it is of the last pick, or it counts for nothing.
LEMMA HashStep ==
  ASSUME CardsInv, NEW call \in calls, HashEnds(call)
  PROVE  CardsInv'
  <1>1. /\ call.kind = "hash" /\ calls' = calls \ {call} /\ otaPage' = otaPage
        /\ CallInv(call) /\ call.then = 0 /\ call.file = call.job
    BY DEF HashEnds, CardsInv, CallInv
  <1>2. PICK ok \in BOOLEAN : oc' = IF Here(call) THEN Hashed(oc, call, ok) ELSE oc
    BY DEF HashEnds
  <1>3. /\ oc \in CardRecords /\ oc.gen \in Nat /\ oc.gen # 0 /\ oc.job \in Nat
        /\ oc.mounted \in BOOLEAN
    BY CardFields DEF CardsInv, CardInv
  <1>4. ~Acts(call) /\ ~LoopOf(call)
    BY <1>1, <1>3 DEF Acts, LoopOf, Confirming
  <1>5. /\ CardInv' /\ oc'.mount = oc.mount /\ oc'.mounted = oc.mounted /\ oc'.gen = oc.gen
        /\ oc'.live = oc.live /\ oc'.timers = oc.timers /\ oc'.job = oc.job
        /\ oc'.busy \in {oc.busy, "none"}
        /\ oc'.busy # "none" => ~(Here(call) /\ oc.job = call.job)
    <2>1. CASE oc' = oc /\ ~(Here(call) /\ oc.job = call.job)
      BY <1>1, <2>1 DEF CardsInv, CardInv
    <2>2. CASE oc' = [oc EXCEPT !.sha = call.file, !.busy = "none"] /\ oc.job = call.job
      <3>1. oc' = [oc EXCEPT !.sha = oc.job, !.busy = "none"]
        BY <1>1, <2>2
      <3>2. /\ oc' \in CardRecords /\ oc'.busy = "none" /\ oc'.sha = oc.job
            /\ oc'.mount = oc.mount /\ oc'.mounted = oc.mounted /\ oc'.gen = oc.gen
            /\ oc'.live = oc.live /\ oc'.timers = oc.timers /\ oc'.job = oc.job
            /\ oc'.file = oc.file /\ oc'.ref = oc.ref
        BY <1>3, <3>1 DEF CardRecords, Busies
      <3> QED
        BY <1>1, <3>2 DEF CardsInv, CardInv
    <2>3. CASE oc' = [oc EXCEPT !.file = 0, !.sha = 0, !.busy = "none"]
      <3>1. /\ oc' \in CardRecords /\ oc'.busy = "none" /\ oc'.sha = 0
            /\ oc'.mount = oc.mount /\ oc'.mounted = oc.mounted /\ oc'.gen = oc.gen
            /\ oc'.live = oc.live /\ oc'.timers = oc.timers /\ oc'.job = oc.job
            /\ oc'.file = 0 /\ oc'.ref = oc.ref
        BY <1>3, <2>3 DEF CardRecords, Busies
      <3> QED
        BY <1>1, <3>1 DEF CardsInv, CardInv
    <2> QED
      BY <1>2, <2>1, <2>2, <2>3 DEF Hashed
  <1>6. (\A c \in calls : CallInv(c))'
    BY <1>1, <1>5, SameMount, CallsKept
  <1>7. LockInv'
    BY <1>1, <1>4, LockKept DEF CardsInv
  <1>8. LoopInv'
    BY <1>1, <1>4, <1>5, LoopKept DEF CardsInv
  <1>9. BusyInv'
    <2>1. ASSUME oc'.busy # "none", call.mount = oc.mount, Settles(oc.busy, call)
          PROVE  FALSE
      <3>1. oc'.busy = oc.busy /\ oc.mounted = TRUE
        BY <1>5, <2>1 DEF CardsInv, BusyInv
      <3>2. oc.job # call.job
        BY <1>5, <2>1, <3>1 DEF Here
      <3> QED
        BY <1>1, <2>1, <3>2 DEF Settles, Confirming
    <2>2. oc'.busy # "none" =>
            \A c \in calls : c.mount = oc.mount /\ Settles(oc.busy, c) =>
              \E other \in calls' : Same(c, other) \/ other = c
      BY <1>1, <2>1
    <2> QED
      BY <1>5, <2>2, BusyKept DEF CardsInv
  <1> QED
    BY <1>5, <1>6, <1>7, <1>8, <1>9 DEF CardsInv

\* The loop of the effect of now sleeps again; another one does nothing.
LEMMA LoopedIs ==
  ASSUME CardInv, NEW gen
  PROVE  /\ gen = oc.gen /\ oc.live = TRUE =>
              Looped(oc, gen) = [oc EXCEPT !.timers = {oc.gen}, !.ref = oc.gen]
         /\ ~(gen = oc.gen /\ oc.live = TRUE) => Looped(oc, gen) = oc
  <1>1. oc.timers \subseteq {oc.gen} /\ oc.live \in BOOLEAN
    BY CardFields DEF CardInv
  <1>2. oc.timers \cup {oc.gen} = {oc.gen}
    BY <1>1
  <1> QED
    BY <1>1, <1>2 DEF Looped

\* The timers of the card change.
LEMMA TimersChange ==
  ASSUME CardInv, NEW timers \in SUBSET {oc.gen}, NEW ref \in Nat,
         timers # {} => oc.live = TRUE /\ ref = oc.gen,
         oc' = [oc EXCEPT !.timers = timers, !.ref = ref],
         NEW lock, PageIs(otaPage', lock, otaPage.hidden)
  PROVE  /\ CardInv' /\ oc'.busy = oc.busy /\ oc'.timers = timers
         /\ oc'.mount = oc.mount /\ oc'.mounted = oc.mounted /\ oc'.gen = oc.gen
         /\ oc'.job = oc.job /\ oc'.live = oc.live
  <1>1. oc \in CardRecords /\ oc.gen \in Nat
    BY CardFields DEF CardInv
  <1>2. /\ oc' \in CardRecords /\ oc'.busy = oc.busy /\ oc'.timers = timers /\ oc'.ref = ref
        /\ oc'.mount = oc.mount /\ oc'.mounted = oc.mounted /\ oc'.gen = oc.gen
        /\ oc'.job = oc.job /\ oc'.live = oc.live
        /\ oc'.file = oc.file /\ oc'.sha = oc.sha
    BY <1>1 DEF CardRecords
  <1>3. CardInv'
    BY <1>2 DEF CardInv, PageIs
  <1> QED
    BY <1>2, <1>3

\* The status arrives: a confirm is over, or a poll loop goes on where it is that of
\* now.
LEMMA StatusStep ==
  ASSUME CardsInv, NEW call \in calls, StatusArrives(call)
  PROVE  CardsInv'
  <1>1. /\ call.kind = "status" /\ calls' = calls \ {call} /\ CallInv(call)
        /\ oc' = CASE ~Here(call) -> oc
                   [] Here(call) /\ call.then = Confirming -> [oc EXCEPT !.busy = "none"]
                   [] OTHER -> Looped(oc, call.then)
    BY DEF StatusArrives, CardsInv
  <1>2. PageIs(otaPage', IF call.then = Confirming THEN "none" ELSE otaPage.lock,
               otaPage.hidden)
    <2> DEFINE lock == IF call.then = Confirming THEN "none" ELSE otaPage.lock
               page == [otaPage EXCEPT !.lock = lock]
               report == Normalize(call.report)
               within == call.mount \in otaPage.grace
               over == \/ report.state = "pending_test"
                       \/ report.state = "idle" /\ report.confirmed = "yes"
               status == IF within /\ report.state = "verified" THEN page.status ELSE report
               set == IF over THEN page.grace \ {call.mount} ELSE page.grace
    <2>1. PageIs(page, lock, otaPage.hidden)
      BY PageChanges DEF CardsInv
    <2>2. otaPage' = CASE call.ok -> [page EXCEPT !.status = status, !.grace = set]
                       [] ~call.ok /\ call.mode = "poll" /\ within ->
                            [page EXCEPT !.status.state = "rebooting"]
                       [] OTHER -> page
      BY DEF StatusArrives
    <2> HIDE DEF page, lock, status, set, within
    <2>3. PageIs([page EXCEPT !.status = status, !.grace = set], lock, otaPage.hidden)
      BY <2>1, StatusChanges
    <2>4. PageIs([page EXCEPT !.status.state = "rebooting"], lock, otaPage.hidden)
      BY <2>1, StatusChanges
    <2>5. PageIs(otaPage', lock, otaPage.hidden)
      BY <2>1, <2>2, <2>3, <2>4
    <2> QED
      BY <2>5 DEF lock
  <1>3. ~Here(call) => oc' = oc
    BY <1>1 DEF Here
  <1>4. Here(call) /\ call.then = Confirming =>
          oc' = [oc EXCEPT !.busy = "none"] /\ call.kind # "boot"
    BY <1>1
  <1>5. Here(call) /\ call.then # Confirming => oc' = Looped(oc, call.then)
    BY <1>1
  <1>6. CASE call.then = Confirming
    <2>1. oc' = Cleared(call)
      BY <1>3, <1>4, <1>6 DEF Cleared
    <2> QED
      BY <1>1, <1>2, <1>6, <2>1, ActEnds DEF Acts
  <1>7. CASE call.then # Confirming
    <2>1. ~Acts(call) /\ PageIs(otaPage', otaPage.lock, otaPage.hidden)
      BY <1>1, <1>2, <1>7 DEF Acts
    <2>2. LockInv'
      BY <1>1, <2>1, LockKept DEF CardsInv, PageIs
    <2>3. \A busy : ~Settles(busy, call)
      BY <1>1, <1>7 DEF Settles
    <2>4. CardInv /\ oc.live \in BOOLEAN /\ oc.mounted \in BOOLEAN /\ oc.gen \in Nat /\ oc.gen # 0
      BY CardFields DEF CardsInv, CardInv
    <2>5. CASE LoopOf(call) /\ oc.live = TRUE
      <3>1. oc' = [oc EXCEPT !.timers = {oc.gen}, !.ref = oc.gen]
        <4>1. Here(call)
          BY <2>4, <2>5 DEF LoopOf, Here, CardInv
        <4> QED
          BY <1>5, <1>7, <2>4, <2>5, <4>1, LoopedIs DEF LoopOf
      <3>2. /\ CardInv' /\ oc'.busy = oc.busy /\ oc'.timers = {oc.gen}
            /\ oc'.mount = oc.mount /\ oc'.mounted = oc.mounted /\ oc'.gen = oc.gen
            /\ oc'.job = oc.job /\ oc'.live = oc.live
        BY <2>1, <2>4, <2>5, <3>1, TimersChange
      <3>3. (\A c \in calls : CallInv(c))'
        BY <1>1, <3>2, SameMount, CallsKept
      <3>4. LoopInv'
        <4>1. \A c : LoopOf(c)' <=> LoopOf(c)
          BY <3>2 DEF LoopOf
        <4>2. \A c \in calls' : ~LoopOf(c)
          BY <1>1, <2>5 DEF CardsInv, LoopInv
        <4> QED
          BY <3>2, <4>1, <4>2 DEF LoopInv
      <3>5. BusyInv'
        BY <1>1, <2>3, <3>2, BusyKept DEF CardsInv
      <3> QED
        BY <2>2, <3>2, <3>3, <3>4, <3>5 DEF CardsInv
    <2>6. CASE ~(LoopOf(call) /\ oc.live = TRUE)
      <3>1. oc' = oc
        <4>1. CASE ~Here(call)
          BY <1>3, <4>1
        <4>2. CASE Here(call)
          <5>1. ~(call.then = oc.gen /\ oc.live = TRUE)
            BY <2>6, <4>2 DEF LoopOf, Here
          <5> QED
            BY <1>5, <1>7, <2>4, <4>2, <5>1, LoopedIs
        <4> QED
          BY <4>1, <4>2
      <3>2. CardInv'
        BY <2>1, <2>4, <3>1, CardSame
      <3>3. (\A c \in calls : CallInv(c))'
        BY <1>1, <3>1, SameMount, CallsKept
      <3>4. LoopInv'
        <4>1. CASE ~LoopOf(call)
          BY <1>1, <3>1, <4>1, LoopKept DEF CardsInv
        <4>2. CASE oc.live # TRUE
          <5>1. \A c, d \in calls' : LoopOf(c) /\ LoopOf(d) => c = d
            BY <1>1 DEF CardsInv, LoopInv
          <5> QED
            BY <3>1, <4>2, <5>1 DEF LoopInv, LoopOf
        <4> QED
          BY <2>6, <4>1, <4>2
      <3>5. BusyInv'
        BY <1>1, <2>3, <3>1, BusyKept DEF CardsInv
      <3> QED
        BY <2>2, <3>2, <3>3, <3>4, <3>5 DEF CardsInv
    <2> QED
      BY <2>5, <2>6
  <1> QED
    BY <1>6, <1>7

\* The timer of the loop of now is due: its request is made, or one is under way.
LEMMA PollStep ==
  ASSUME CardsInv, NEW gen \in oc.timers, PollTimer(gen)
  PROVE  CardsInv'
  <1> DEFINE fired == [oc EXCEPT !.timers = {}, !.ref = oc.ref]
  <1>1. /\ oc \in CardRecords /\ oc.gen \in Nat /\ oc.gen # 0 /\ oc.mount \in Nat
        /\ oc.timers \subseteq {oc.gen} /\ oc.live = TRUE /\ oc.ref = oc.gen /\ oc.ref \in Nat
        /\ gen = oc.gen /\ oc.timers = {oc.gen} /\ CardInv
    BY CardFields DEF CardsInv, CardInv
  <1>2. /\ otaPage' = otaPage /\ PageIs(otaPage', otaPage.lock, otaPage.hidden)
        /\ otaPage'.lock = otaPage.lock
    BY PageChanges DEF PollTimer, CardsInv
  <1>3. [oc EXCEPT !.timers = @ \ {gen}] = fired
    <2>1. oc.timers \ {gen} = {}
      BY <1>1
    <2>2. [oc EXCEPT !.timers = @ \ {gen}] = [oc EXCEPT !.timers = {}]
      BY <2>1
    <2>3. [oc EXCEPT !.timers = {}] = fired
      BY <1>1 DEF CardRecords
    <2> QED
      BY <2>2, <2>3
  <1>4. CASE oc' = Looped(fired, gen) /\ calls' = calls
    <2>1. oc' = [oc EXCEPT !.timers = {oc.gen}, !.ref = oc.gen]
      <3>1. /\ fired.gen = oc.gen /\ fired.live = oc.live /\ fired.timers = {}
        BY <1>1 DEF CardRecords
      <3>2. Looped(fired, gen) = [fired EXCEPT !.timers = {} \cup {gen}, !.ref = gen]
        BY <1>1, <3>1 DEF Looped
      <3>3. {} \cup {gen} = {oc.gen}
        BY <1>1
      <3>4. [fired EXCEPT !.timers = {oc.gen}, !.ref = gen]
            = [oc EXCEPT !.timers = {oc.gen}, !.ref = oc.gen]
        BY <1>1 DEF CardRecords
      <3> QED
        BY <1>4, <3>2, <3>3, <3>4
    <2>2. /\ CardInv' /\ oc'.busy = oc.busy /\ oc'.timers = {oc.gen}
          /\ oc'.mount = oc.mount /\ oc'.mounted = oc.mounted /\ oc'.gen = oc.gen
          /\ oc'.job = oc.job /\ oc'.live = oc.live
      BY <1>1, <1>2, <2>1, TimersChange
    <2>3. (\A c \in calls : CallInv(c))'
      BY <1>4, <2>2, SameMount, CallsKept
    <2>4. LockInv'
      BY <1>2, <1>4, LockKept DEF CardsInv
    <2>5. LoopInv'
      BY <1>1, <1>4, <2>2, LoopKept DEF CardsInv
    <2>6. BusyInv'
      BY <1>4, <2>2, BusyKept DEF CardsInv
    <2> QED
      BY <2>2, <2>3, <2>4, <2>5, <2>6 DEF CardsInv
  <1>5. CASE oc' = fired /\ calls' = calls \cup {StatusCall(oc.mount, "poll", gen)}
    <2> PICK call : call = StatusCall(oc.mount, "poll", gen)
      OBVIOUS
    <2>1. /\ CallShape(call) /\ call.kind = "status" /\ call.mount = oc.mount
          /\ call.then = oc.gen /\ calls' = calls \cup {call}
      BY <1>1, <1>5, NewStatus
    <2>2. /\ CardInv' /\ oc'.busy = oc.busy /\ oc'.timers = {}
          /\ oc'.mount = oc.mount /\ oc'.mounted = oc.mounted /\ oc'.gen = oc.gen
          /\ oc'.job = oc.job /\ oc'.live = oc.live
      <3>1. {} \in SUBSET {oc.gen} /\ oc' = [oc EXCEPT !.timers = {}, !.ref = oc.ref]
        BY <1>5
      <3> HIDE DEF fired
      <3> QED
        BY <1>1, <1>2, <3>1, TimersChange
    <2> HIDE DEF fired
    <2>3. (\A c \in calls : CallInv(c))'
      <3>1. call.mount <= oc'.mount /\ call.then \in Nat /\ call.then <= oc'.gen
        BY <1>1, <2>1, <2>2
      <3>2. CallInv(call)'
        BY <2>1, <3>1 DEF CallInv
      <3>3. Newer
        BY <2>2, SameMount
      <3> QED
        BY <2>1, <3>2, <3>3, CallsKept
    <2>4. LockInv'
      <3>1. ~Acts(call)
        BY <1>1, <2>1 DEF Acts, Confirming
      <3> QED
        BY <1>2, <2>1, <3>1, LockKept DEF CardsInv
    <2>5. LoopInv'
      <3>1. \A c : LoopOf(c)' <=> LoopOf(c)
        BY <2>2 DEF LoopOf
      <3>2. \A c \in calls : ~LoopOf(c)
        BY <1>1 DEF CardsInv, LoopInv
      <3>3. LoopOf(call)
        BY <2>1 DEF LoopOf
      <3>4. \A c \in calls' : LoopOf(c) <=> c = call
        BY <2>1, <3>2, <3>3
      <3>5. call \in calls'
        BY <2>1
      <3> QED
        BY <2>2, <3>1, <3>4, <3>5 DEF LoopInv
    <2>6. BusyInv'
      BY <2>1, <2>2, BusyKept DEF CardsInv
    <2> QED
      BY <2>2, <2>3, <2>4, <2>5, <2>6 DEF CardsInv
  <1> HIDE DEF fired
  <1> QED
    BY <1>1, <1>3, <1>4, <1>5 DEF PollTimer

\* A request that no loop waits for.
LEMMA AsksStep ==
  ASSUME CardsInv, oc' = oc, NEW mount, mount = oc.mount,
         calls' = calls \cup {StatusCall(mount, "manual", 0)},
         PageIs(otaPage', otaPage.lock, otaPage.hidden)
  PROVE  CardsInv'
  <1> DEFINE call == StatusCall(mount, "manual", 0)
  <1>1. /\ CardInv /\ oc.gen \in Nat /\ oc.gen # 0 /\ oc.mount \in Nat
    BY CardFields DEF CardsInv, CardInv
  <1>2. /\ CallShape(call) /\ call.kind = "status" /\ call.mount = oc.mount /\ call.then = 0
    BY <1>1, NewStatus
  <1> HIDE DEF call
  <1>3. calls' = calls \cup {call}
    BY DEF call
  <1>4. CardInv'
    BY <1>1, CardSame
  <1>5. (\A c \in calls : CallInv(c))'
    <2>1. CallInv(call)'
      BY <1>1, <1>2 DEF CallInv
    <2> QED
      BY <1>3, <2>1, SameMount, CallsKept
  <1>6. LockInv'
    <2>1. ~Acts(call) /\ otaPage'.lock = otaPage.lock
      BY <1>2 DEF Acts, Confirming, PageIs
    <2> QED
      BY <1>3, <2>1, LockKept DEF CardsInv
  <1>7. LoopInv'
    <2>1. ~LoopOf(call)
      BY <1>1, <1>2 DEF LoopOf
    <2> QED
      BY <1>3, <2>1, LoopKept DEF CardsInv
  <1>8. BusyInv'
    BY <1>3, BusyKept DEF CardsInv
  <1> QED
    BY <1>4, <1>5, <1>6, <1>7, <1>8 DEF CardsInv

LEMMA RefreshStep == CardsInv /\ RefreshOta => CardsInv'
  <1> SUFFICES ASSUME CardsInv, RefreshOta PROVE CardsInv'
    OBVIOUS
  <1>1. PageIs(otaPage', otaPage.lock, otaPage.hidden)
    BY PageChanges DEF RefreshOta, CardsInv
  <1>2. oc' = oc /\ calls' = calls \cup {StatusCall(oc.mount, "manual", 0)}
    BY DEF RefreshOta
  <1> PICK mount : mount = oc.mount
    OBVIOUS
  <1> QED
    BY <1>1, <1>2, AsksStep

\* The cleanup of the poll effect leaves no timer.
LEMMA StoppedIs ==
  ASSUME CardInv
  PROVE  Stopped(oc) = [oc EXCEPT !.live = FALSE, !.timers = {}, !.ref = 0]
  <1>1. oc.timers \ {oc.ref} = {}
    BY DEF CardInv
  <1> QED
    BY <1>1 DEF Stopped

\* A card that only loses its loop, or what it shows.
LEMMA CardStops ==
  ASSUME CardsInv, calls' = calls, oc' \in CardRecords, oc'.live = FALSE, oc'.timers = {},
         oc'.mount = oc.mount, oc'.gen = oc.gen, oc'.job = oc.job,
         oc'.file \in {oc.file, 0}, oc'.sha \in {oc.sha, 0},
         NEW hidden \in BOOLEAN, PageIs(otaPage', otaPage.lock, hidden),
         ~(oc'.mounted = TRUE /\ hidden = FALSE),
         \/ oc'.busy = "none"
         \/ oc'.busy = oc.busy /\ oc'.mounted = oc.mounted
  PROVE  CardsInv'
  <1>1. CardInv'
    BY DEF CardsInv, CardInv, PageIs
  <1>2. (\A c \in calls : CallInv(c))'
    BY SameMount, CallsKept
  <1>3. LockInv'
    BY LockKept DEF CardsInv, PageIs
  <1>4. LoopInv'
    BY LoopKept DEF CardsInv
  <1>5. BusyInv'
    BY BusyKept DEF CardsInv
  <1> QED
    BY <1>1, <1>2, <1>3, <1>4, <1>5 DEF CardsInv

\* A new effect with its own timer: no call is of its loop yet.
LEMMA EffectBegins ==
  ASSUME CardsInv, calls' = calls,
         oc' = [oc EXCEPT !.gen = @ + 1, !.live = TRUE, !.timers = {oc.gen + 1},
                          !.ref = oc.gen + 1],
         oc.mounted = TRUE, PageIs(otaPage', otaPage.lock, FALSE)
  PROVE  CardsInv'
  <1>1. oc \in CardRecords /\ oc.gen \in Nat /\ oc.mount \in Nat
    BY CardFields DEF CardsInv, CardInv
  <1>2. /\ oc' \in CardRecords /\ oc'.gen = oc.gen + 1 /\ oc'.live = TRUE
        /\ oc'.timers = {oc.gen + 1} /\ oc'.ref = oc.gen + 1
        /\ oc'.mount = oc.mount /\ oc'.mounted = oc.mounted /\ oc'.busy = oc.busy
        /\ oc'.file = oc.file /\ oc'.sha = oc.sha /\ oc'.job = oc.job
    <2> DEFINE gen == oc.gen + 1
               timers == {gen}
    <2>1. gen \in Nat /\ timers \in SUBSET Nat
      BY <1>1
    <2>2. oc' = [oc EXCEPT !.gen = gen, !.live = TRUE, !.timers = timers, !.ref = gen]
      OBVIOUS
    <2> HIDE DEF gen, timers
    <2>3. /\ oc' \in CardRecords /\ oc'.gen = gen /\ oc'.live = TRUE
          /\ oc'.timers = timers /\ oc'.ref = gen
          /\ oc'.mount = oc.mount /\ oc'.mounted = oc.mounted /\ oc'.busy = oc.busy
          /\ oc'.file = oc.file /\ oc'.sha = oc.sha /\ oc'.job = oc.job
      BY <1>1, <2>1, <2>2, ZenonT(30) DEF CardRecords
    <2> QED
      BY <2>3 DEF gen, timers
  <1>3. CardInv'
    <2>1. oc'.gen # 0 /\ oc'.timers \subseteq {oc'.gen}
      BY <1>1, <1>2
    <2> QED
      BY <1>2, <2>1 DEF CardsInv, CardInv, PageIs
  <1>4. Newer
    BY <1>1, <1>2 DEF Newer
  <1>5. (\A c \in calls : CallInv(c))'
    BY <1>4, CallsKept
  <1>6. LockInv'
    BY LockKept DEF CardsInv, PageIs
  <1>7. LoopInv'
    <2>1. \A c \in calls : ~LoopOf(c)'
      <3> SUFFICES ASSUME NEW c \in calls, c.mount = oc.mount, c.then = oc.gen + 1
                   PROVE  FALSE
        BY <1>2 DEF LoopOf
      <3>1. c.then <= oc.gen
        BY DEF CardsInv, CallInv
      <3> QED
        BY <1>1, <3>1
    <2> QED
      BY <1>2, <2>1 DEF LoopInv
  <1>8. BusyInv'
    BY <1>2, BusyKept DEF CardsInv
  <1> QED
    BY <1>3, <1>5, <1>6, <1>7, <1>8 DEF CardsInv

LEMMA TurnStep == CardsInv /\ TurnPage => CardsInv'
  <1> SUFFICES ASSUME CardsInv, TurnPage PROVE CardsInv'
    OBVIOUS
  <1>1. /\ oc \in CardRecords /\ CardInv /\ oc.mounted \in BOOLEAN /\ oc.live \in BOOLEAN
        /\ oc.gen \in Nat /\ otaPage.hidden \in BOOLEAN
    BY CardFields DEF CardsInv, CardInv
  <1>2. calls' = calls /\ PageIs(otaPage', otaPage.lock, ~otaPage.hidden)
    BY <1>1, PageChanges DEF TurnPage
  <1>3. CASE oc.mounted = FALSE
    <2>1. oc' = oc
      BY <1>3 DEF TurnPage
    <2>2. oc.live = FALSE /\ oc.timers = {}
      BY <1>1, <1>3 DEF CardInv
    <2>3. (~otaPage.hidden) \in BOOLEAN
      OBVIOUS
    <2> QED
      BY <1>1, <1>2, <1>3, <2>1, <2>2, <2>3, CardStops
  <1>4. CASE oc.mounted = TRUE /\ otaPage.hidden = TRUE
    <2>1. oc.timers = {} /\ oc.timers \cup {oc.gen + 1} = {oc.gen + 1}
      BY <1>1, <1>4 DEF CardInv
    <2>2. oc' = [oc EXCEPT !.gen = @ + 1, !.live = TRUE, !.timers = {oc.gen + 1},
                           !.ref = oc.gen + 1]
      BY <1>4, <2>1 DEF TurnPage
    <2>3. PageIs(otaPage', otaPage.lock, FALSE)
      BY <1>2, <1>4
    <2> QED
      BY <1>2, <1>4, <2>2, <2>3, EffectBegins
  <1>5. CASE oc.mounted = TRUE /\ otaPage.hidden = FALSE
    <2>1. oc' = [oc EXCEPT !.live = FALSE, !.timers = {}, !.ref = 0]
      BY <1>1, <1>5, StoppedIs DEF TurnPage
    <2>2. /\ oc' \in CardRecords /\ oc'.live = FALSE /\ oc'.timers = {}
          /\ oc'.mount = oc.mount /\ oc'.gen = oc.gen /\ oc'.job = oc.job
          /\ oc'.file = oc.file /\ oc'.sha = oc.sha /\ oc'.busy = oc.busy
          /\ oc'.mounted = oc.mounted
      BY <1>1, <2>1 DEF CardRecords
    <2>3. PageIs(otaPage', otaPage.lock, TRUE)
      BY <1>2, <1>5
    <2> QED
      BY <1>2, <2>2, <2>3, CardStops
  <1> QED
    BY <1>1, <1>3, <1>4, <1>5

LEMMA LeaveStep == CardsInv /\ LeaveOta => CardsInv'
  <1> SUFFICES ASSUME CardsInv, LeaveOta PROVE CardsInv'
    OBVIOUS
  <1>1. oc \in CardRecords /\ CardInv /\ otaPage.hidden \in BOOLEAN
    BY DEF CardsInv, CardInv
  <1>2. calls' = calls /\ PageIs(otaPage', otaPage.lock, otaPage.hidden)
    BY <1>1, PageChanges DEF LeaveOta
  <1>3. oc' = [oc EXCEPT !.live = FALSE, !.timers = {}, !.ref = 0, !.mounted = FALSE,
                         !.busy = "none", !.file = 0, !.sha = 0]
    BY <1>1, StoppedIs DEF LeaveOta
  <1>4. /\ oc' \in CardRecords /\ oc'.live = FALSE /\ oc'.timers = {}
        /\ oc'.mount = oc.mount /\ oc'.gen = oc.gen /\ oc'.job = oc.job
        /\ oc'.file = 0 /\ oc'.sha = 0 /\ oc'.busy = "none" /\ oc'.mounted = FALSE
    BY <1>1, <1>3 DEF CardRecords, Busies
  <1> QED
    BY <1>1, <1>2, <1>4, CardStops

\* The card a mount begins with.
LEMMA NewCardIs ==
  ASSUME NEW mount \in Nat, otaPage.hidden \in BOOLEAN
  PROVE  /\ NewCard(mount) \in CardRecords
         /\ NewCard(mount).mount = mount /\ NewCard(mount).mounted = TRUE
         /\ NewCard(mount).busy = "none" /\ NewCard(mount).file = 0
         /\ NewCard(mount).sha = 0 /\ NewCard(mount).gen = 1
         /\ (NewCard(mount).live = TRUE <=> otaPage.hidden = FALSE)
         /\ (otaPage.hidden = FALSE => NewCard(mount).timers = {1} /\ NewCard(mount).ref = 1)
         /\ (otaPage.hidden = TRUE => NewCard(mount).timers = {})
  <1> DEFINE live == ~otaPage.hidden
             timers == IF otaPage.hidden THEN {} ELSE {1}
             ref == IF otaPage.hidden THEN 0 ELSE 1
  <1>1. live \in BOOLEAN /\ timers \in SUBSET Nat /\ ref \in Nat
    BY SMT
  <1>2. NewCard(mount) =
          [mount |-> mount, mounted |-> TRUE, busy |-> "none", file |-> 0, sha |-> 0,
           job |-> 0, picks |-> 0, gen |-> 1, live |-> live, timers |-> timers, ref |-> ref]
    BY DEF NewCard
  <1>3. /\ live = TRUE <=> otaPage.hidden = FALSE
        /\ otaPage.hidden = FALSE => timers = {1} /\ ref = 1
        /\ otaPage.hidden = TRUE => timers = {}
    OBVIOUS
  <1> HIDE DEF live, timers, ref
  <1>4. NewCard(mount) \in CardRecords
    BY <1>1, <1>2 DEF CardRecords, Busies
  <1> QED
    BY <1>2, <1>3, <1>4

LEMMA OpenStep == CardsInv /\ OpenOta => CardsInv'
  <1> SUFFICES ASSUME CardsInv, OpenOta PROVE CardsInv'
    OBVIOUS
  <1> PICK mount : mount = oc.mount + 1
    OBVIOUS
  <1> PICK call : call = StatusCall(mount, "poll", 0)
    OBVIOUS
  <1>1. /\ oc.mount \in Nat /\ mount \in Nat /\ oc.mount < mount
        /\ otaPage.hidden \in BOOLEAN /\ DOMAIN otaPage = PageFields
    BY CardFields DEF CardsInv, CardInv
  <1>2. oc' = NewCard(mount) /\ calls' = calls \cup {call} /\ otaPage' = otaPage
    BY DEF OpenOta
  <1>3. /\ CallShape(call) /\ call.kind = "status" /\ call.mount = mount /\ call.then = 0
    BY <1>1, NewStatus
  <1>4. /\ oc' \in CardRecords /\ oc'.mount = mount /\ oc'.mounted = TRUE
        /\ oc'.busy = "none" /\ oc'.file = 0 /\ oc'.sha = 0 /\ oc'.gen = 1
        /\ (oc'.live = TRUE <=> otaPage.hidden = FALSE)
        /\ (otaPage.hidden = FALSE => oc'.timers = {1} /\ oc'.ref = 1)
        /\ (otaPage.hidden = TRUE => oc'.timers = {})
    BY <1>1, <1>2, NewCardIs
  <1>5. CardInv'
    <2>1. oc'.timers \subseteq {1} /\ (oc'.timers # {} => otaPage.hidden = FALSE)
      BY <1>1, <1>4
    <2> QED
      BY <1>1, <1>2, <1>4, <2>1 DEF CardInv
  <1>6. (\A c \in calls : CallInv(c))'
    <2>1. Newer
      BY <1>1, <1>4 DEF Newer
    <2>2. CallInv(call)'
      BY <1>1, <1>3, <1>4 DEF CallInv
    <2> QED
      BY <1>2, <2>1, <2>2, CallsKept
  <1>7. LockInv'
    <2>1. ~Acts(call)
      BY <1>3 DEF Acts, Confirming
    <2> QED
      BY <1>2, <2>1, LockKept DEF CardsInv
  <1>8. LoopInv'
    <2>1. \A c \in calls' : ~LoopOf(c)'
      <3> SUFFICES ASSUME NEW c \in calls', c.mount = mount, c.then = 1
                   PROVE  FALSE
        BY <1>4 DEF LoopOf
      <3>1. c \in calls
        BY <1>2, <1>3
      <3>2. c.mount <= oc.mount
        BY <3>1 DEF CardsInv, CallInv
      <3> QED
        BY <1>1, <3>2
    <2>2. oc'.live = TRUE => oc'.timers # {}
      BY <1>4
    <2> QED
      BY <2>1, <2>2 DEF LoopInv
  <1>9. BusyInv'
    BY <1>4 DEF BusyInv
  <1> QED
    BY <1>5, <1>6, <1>7, <1>8, <1>9 DEF CardsInv

\* A file that is picked: its hash is begun, or it is refused.
LEMMA PickStep ==
  ASSUME CardsInv, NEW image, PickImage(image)
  PROVE  CardsInv'
  <1>1. /\ oc \in CardRecords /\ CardInv /\ oc.job \in Nat /\ oc.mount \in Nat /\ oc.gen \in Nat
    BY CardFields DEF CardsInv, CardInv
  <1>2. PageIs(otaPage', otaPage.lock, otaPage.hidden)
    BY <1>1, PageChanges DEF PickImage
  <1> PICK job : job = oc.job + 1
    OBVIOUS
  <1> PICK call : call = NewHash(oc.mount, job)
    OBVIOUS
  <1>3. \/ oc' = [oc EXCEPT !.file = 0, !.sha = 0] /\ calls' = calls
        \/ /\ oc' = [oc EXCEPT !.file = job, !.sha = 0, !.job = job, !.busy = "hashing"]
           /\ calls' = calls \cup {call} /\ oc.mounted
    <2>1. [oc EXCEPT !.file = 0, !.sha = 0].job = oc.job
      BY <1>1 DEF CardRecords
    <2>2. [[oc EXCEPT !.file = 0, !.sha = 0] EXCEPT
             !.job = oc.job + 1, !.file = oc.job + 1, !.busy = "hashing"]
          = [oc EXCEPT !.file = oc.job + 1, !.sha = 0, !.job = oc.job + 1, !.busy = "hashing"]
      BY <1>1 DEF CardRecords
    <2> QED
      BY <2>1, <2>2 DEF PickImage, NewHash
  <1>4. CASE oc' = [oc EXCEPT !.file = 0, !.sha = 0] /\ calls' = calls
    <2>1. /\ oc' \in CardRecords /\ oc'.mount = oc.mount /\ oc'.gen = oc.gen
          /\ oc'.live = oc.live /\ oc'.timers = oc.timers /\ oc'.ref = oc.ref
          /\ oc'.job = oc.job /\ oc'.busy = oc.busy /\ oc'.mounted = oc.mounted
          /\ oc'.file = 0 /\ oc'.sha = 0
      BY <1>1, <1>4 DEF CardRecords
    <2>2. CardInv'
      BY <1>1, <1>2, <2>1 DEF CardInv, PageIs
    <2>3. (\A c \in calls : CallInv(c))'
      BY <1>4, <2>1, SameMount, CallsKept
    <2>4. LockInv'
      BY <1>2, <1>4, LockKept DEF CardsInv, PageIs
    <2>5. LoopInv'
      BY <1>4, <2>1, LoopKept DEF CardsInv
    <2>6. BusyInv'
      BY <1>4, <2>1, BusyKept DEF CardsInv
    <2> QED
      BY <2>2, <2>3, <2>4, <2>5, <2>6 DEF CardsInv
  <1>5. CASE /\ oc' = [oc EXCEPT !.file = job, !.sha = 0, !.job = job, !.busy = "hashing"]
             /\ calls' = calls \cup {call} /\ oc.mounted
    <2>1. job \in Nat
      BY <1>1
    <2>2. /\ CallShape(call) /\ call.kind = "hash" /\ call.mount = oc.mount
          /\ call.then = 0 /\ call.job = job /\ call.file = job
      BY <1>1, NewHashIs
    <2>3. /\ oc' \in CardRecords /\ oc'.mount = oc.mount /\ oc'.gen = oc.gen
          /\ oc'.live = oc.live /\ oc'.timers = oc.timers /\ oc'.ref = oc.ref
          /\ oc'.job = job /\ oc'.busy = "hashing" /\ oc'.mounted = oc.mounted
          /\ oc'.file = job /\ oc'.sha = 0
      BY <1>1, <1>5, <2>1 DEF CardRecords, Busies
    <2>4. CardInv'
      BY <1>1, <1>2, <2>3 DEF CardInv, PageIs
    <2>5. (\A c \in calls : CallInv(c))'
      <3>1. CallInv(call)'
        BY <1>1, <2>2, <2>3 DEF CallInv
      <3> QED
        BY <1>5, <2>3, <3>1, SameMount, CallsKept
    <2>6. LockInv'
      <3>1. ~Acts(call)
        BY <2>2 DEF Acts, Confirming
      <3> QED
        BY <1>2, <1>5, <3>1, LockKept DEF CardsInv, PageIs
    <2>7. LoopInv'
      <3>1. ~LoopOf(call)
        BY <1>1, <2>2 DEF LoopOf, CardInv
      <3> QED
        BY <1>5, <2>3, <3>1, LoopKept DEF CardsInv
    <2>8. BusyInv'
      <3>1. Settles("hashing", call)'
        BY <2>2, <2>3 DEF Settles
      <3>2. call \in calls' /\ oc.mounted = TRUE
        BY <1>1, <1>5, CardFields
      <3> QED
        BY <2>2, <2>3, <3>1, <3>2 DEF BusyInv
    <2> QED
      BY <2>4, <2>5, <2>6, <2>7, <2>8 DEF CardsInv
  <1> QED
    BY <1>3, <1>4, <1>5

\* An action begins: it takes the lock, and the card is busy with it.
LEMMA ActBegins ==
  ASSUME CardsInv, NEW kind \in {"upload", "test", "confirm", "boot"}, NEW busy,
         \/ kind = "boot" /\ busy = oc.busy
         \/ oc.busy = "none" /\ \/ kind = "upload" /\ busy = "uploading"
                                \/ kind = "test" /\ busy = "testing"
                                \/ kind = "confirm" /\ busy = "confirming",
         NEW base, CallShape(base), base.then = 0, kind = "upload" => base.sha = base.file,
         Begin(kind, busy, base)
  PROVE  CardsInv'
  <1> PICK call : call = NewAct(base, kind)
    OBVIOUS
  <1>1. /\ oc \in CardRecords /\ CardInv /\ oc.mount \in Nat /\ oc.gen \in Nat /\ oc.gen # 0
        /\ oc.busy \in Busies /\ oc.mounted \in BOOLEAN
    BY CardFields DEF CardsInv, CardInv
  <1>2. /\ CallShape(call) /\ call.kind = kind /\ call.mount = oc.mount /\ call.then = 0
        /\ call.file = base.file /\ call.sha = base.sha
    BY <1>1, NewActIs
  <1>3. /\ calls' = calls \cup {call} /\ oc.mounted = TRUE /\ otaPage.lock = "none"
        /\ oc' = [oc EXCEPT !.busy = busy]
    BY <1>1 DEF Begin, NewAct
  <1>4. PICK lock : lock # "none" /\ PageIs(otaPage', lock, otaPage.hidden)
    <2> PICK lock : lock = IF kind = "boot" THEN "boot" ELSE "ota"
      OBVIOUS
    <2>1. otaPage' = [otaPage EXCEPT !.events = otaPage.events + 1, !.lock = lock]
      BY DEF Begin
    <2>2. lock # "none"
      OBVIOUS
    <2> QED
      BY <1>1, <2>1, <2>2, PageChanges
  <1>5. /\ oc' \in CardRecords /\ oc'.mount = oc.mount /\ oc'.gen = oc.gen
        /\ oc'.live = oc.live /\ oc'.timers = oc.timers /\ oc'.ref = oc.ref
        /\ oc'.job = oc.job /\ oc'.busy = busy /\ oc'.mounted = oc.mounted
        /\ oc'.file = oc.file /\ oc'.sha = oc.sha
    <2>1. busy \in Busies
      BY <1>1 DEF Busies
    <2> QED
      BY <1>1, <1>3, <2>1 DEF CardRecords
  <1>6. CardInv'
    BY <1>1, <1>4, <1>5 DEF CardInv, PageIs
  <1>7. (\A c \in calls : CallInv(c))'
    <2>1. call.mount <= oc'.mount /\ call.then <= oc'.gen /\ call.then \in Nat
      BY <1>1, <1>2, <1>5
    <2>2. CallInv(call)'
      BY <1>2, <2>1 DEF CallInv
    <2> QED
      BY <1>3, <1>5, <2>2, SameMount, CallsKept
  <1>8. LockInv'
    BY <1>2, <1>3, <1>4, LockTaken DEF CardsInv, PageIs, Acts
  <1>9. LoopInv'
    <2>1. ~LoopOf(call)
      BY <1>1, <1>2 DEF LoopOf
    <2> QED
      BY <1>3, <1>5, <2>1, LoopKept DEF CardsInv
  <1>10. BusyInv'
    <2>1. CASE kind = "boot" /\ busy = oc.busy
      BY <1>3, <1>5, <2>1, BusyKept DEF CardsInv
    <2>2. CASE \/ kind = "upload" /\ busy = "uploading"
               \/ kind = "test" /\ busy = "testing"
               \/ kind = "confirm" /\ busy = "confirming"
      <3>1. Settles(busy, call)' /\ call \in calls'
        BY <1>2, <1>3, <2>2 DEF Settles
      <3> QED
        BY <1>2, <1>3, <1>5, <3>1 DEF BusyInv
    <2> QED
      BY <2>1, <2>2
  <1> QED
    BY <1>6, <1>7, <1>8, <1>9, <1>10 DEF CardsInv

LEMMA BeginStep ==
  ASSUME CardsInv, UploadClicked \/ TestClicked \/ ConfirmClicked \/ BootClicked
  PROVE  CardsInv'
  <1>1. CASE UploadClicked
    <2> PICK base : base = [NoCall EXCEPT !.file = oc.file, !.sha = oc.sha]
      OBVIOUS
    <2>1. CallShape(base) /\ base.then = 0 /\ base.file = oc.file /\ base.sha = oc.sha
      BY DEF CallShape, NoCall, Kinds
    <2>2. oc.sha = oc.file
      BY <1>1 DEF UploadClicked, CardsInv, CardInv
    <2>3. Begin("upload", "uploading", base) /\ oc.busy = "none"
      BY <1>1 DEF UploadClicked
    <2> QED
      BY <2>1, <2>2, <2>3, ActBegins
  <1>2. CASE TestClicked
    <2>1. Begin("test", "testing", NoCall) /\ oc.busy = "none"
      BY <1>2 DEF TestClicked
    <2> QED
      BY <2>1, NoCallIs, ActBegins
  <1>3. CASE ConfirmClicked
    <2>1. Begin("confirm", "confirming", NoCall) /\ oc.busy = "none"
      BY <1>3 DEF ConfirmClicked
    <2> QED
      BY <2>1, NoCallIs, ActBegins
  <1>4. CASE BootClicked
    <2>1. Begin("boot", oc.busy, NoCall)
      BY <1>4 DEF BootClicked
    <2> QED
      BY <2>1, NoCallIs, ActBegins
  <1> QED
    BY <1>1, <1>2, <1>3, <1>4

\* Nothing that the invariant relates is changed.
LEMMA StillStep ==
  ASSUME CardsInv, oc' = oc, calls' = calls, PageIs(otaPage', otaPage.lock, otaPage.hidden)
  PROVE  CardsInv'
  <1>1. CardInv'
    BY CardSame DEF CardsInv
  <1>2. (\A c \in calls : CallInv(c))'
    BY SameMount, CallsKept
  <1>3. LockInv'
    BY LockKept DEF CardsInv, PageIs
  <1>4. LoopInv'
    BY LoopKept DEF CardsInv
  <1>5. BusyInv'
    BY BusyKept DEF CardsInv
  <1> QED
    BY <1>1, <1>2, <1>3, <1>4, <1>5 DEF CardsInv

LEMMA CardsNext == CardsInv /\ [OtaClientNext]_otaClientVars => CardsInv'
  <1> SUFFICES ASSUME CardsInv, [OtaClientNext]_otaClientVars PROVE CardsInv'
    OBVIOUS
  <1>1. CASE Polls
    BY <1>1, PollStep DEF Polls
  <1>2. ASSUME NEW call \in calls, CallAnswers(call) \/ CancelUpload(call)
        PROVE  CardsInv'
    BY <1>2, AnswerStep, ActEndsStep, ConfirmStep, StatusStep, HashStep
      DEF CallAnswers, Arrives
  <1>3. CASE RefreshOta \/ TurnPage \/ LeaveOta \/ OpenOta
    BY <1>3, RefreshStep, TurnStep, LeaveStep, OpenStep
  <1>4. CASE FileChanged \/ FileDropped
    BY <1>4, PickStep DEF FileChanged, FileDropped
  <1>5. CASE UploadClicked \/ TestClicked \/ ConfirmClicked \/ BootClicked
    BY <1>5, BeginStep
  <1>6. ASSUME NEW mount \in Cards, GraceEnds(mount)
        PROVE  CardsInv'
    <2>1. PageIs(otaPage', otaPage.lock, otaPage.hidden)
      BY <1>6, PageChanges DEF GraceEnds, CardsInv
    <2> QED
      BY <1>6, <2>1, StillStep DEF GraceEnds
  <1>7. CASE GoesDown \/ ComesUp \/ ConfirmsItself \/ UNCHANGED otaClientVars
    <2>1. oc' = oc /\ calls' = calls /\ otaPage' = otaPage
      BY <1>7 DEF GoesDown, ComesUp, ConfirmsItself, otaClientVars
    <2> QED
      BY <2>1, StillStep, PageChanges DEF CardsInv
  <1> QED
    BY <1>1, <1>2, <1>3, <1>4, <1>5, <1>6, <1>7 DEF OtaClientNext

LEMMA CardsInit == OtaClientInit => CardsInv
  <1> SUFFICES ASSUME OtaClientInit PROVE CardsInv
    OBVIOUS
  <1> PICK call : call = StatusCall(1, "poll", 0)
    OBVIOUS
  <1>1. /\ calls = {call} /\ oc = NewCard(1) /\ DOMAIN otaPage = PageFields
        /\ otaPage.lock = "none" /\ otaPage.hidden = FALSE
    BY DEF OtaClientInit, PageFields
  <1>2. CallShape(call) /\ call.kind = "status" /\ call.mount = 1 /\ call.then = 0
    BY NewStatus
  <1>3. /\ oc \in CardRecords /\ oc.mount = 1 /\ oc.mounted = TRUE /\ oc.busy = "none"
        /\ oc.file = 0 /\ oc.sha = 0 /\ oc.gen = 1 /\ oc.live = TRUE
        /\ oc.timers = {1} /\ oc.ref = 1
    BY <1>1, NewCardIs
  <1>4. CardInv
    <2>1. oc.gen # 0 /\ oc.file \in {0, oc.job} /\ oc.sha \in {0, oc.job}
      BY <1>3
    <2>2. oc.timers \subseteq {oc.gen} /\ oc.ref = oc.gen
      BY <1>3
    <2>3. otaPage.hidden \in BOOLEAN
      BY <1>1
    <2> QED
      BY <1>1, <1>3, <2>1, <2>2, <2>3, Zenon DEF CardInv
  <1>5. CallInv(call)
    BY <1>2, <1>3 DEF CallInv
  <1>6. LockInv
    BY <1>1, <1>2 DEF LockInv, Acts, Confirming
  <1>7. LoopInv
    BY <1>1, <1>2, <1>3 DEF LoopInv, LoopOf
  <1>8. BusyInv
    BY <1>3 DEF BusyInv
  <1> QED
    BY <1>1, <1>4, <1>5, <1>6, <1>7, <1>8 DEF CardsInv

\* The lock of the page, its call, the loop of the card and what the card says agree,
\* over all mounts and whatever was clicked behind them (OtaCard.tsx, BootCard.tsx).
THEOREM CardsInvariant == OtaClientFairSpec => []CardsInv
  BY CardsInit, CardsNext, PTL DEF OtaClientFairSpec

\* At most one call acts on the debugger, and the lock says so.
LEMMA OneActs == LockInv => ActsAlone
  <1> SUFFICES ASSUME LockInv PROVE ActsAlone
    OBVIOUS
  <1>1. \A call : call \in Acting <=> call \in calls /\ Acts(call)
    BY DEF Acting, Acts
  <1>2. Acting # {} <=> \E call \in calls : Acts(call)
    BY <1>1
  <1>3. Cardinality(Acting) <= 1
    <2>1. CASE Acting = {}
      BY <2>1, FS_EmptySet
    <2>2. ASSUME NEW call \in Acting PROVE Cardinality(Acting) <= 1
      <3>1. Acting = {call}
        BY <1>1 DEF LockInv
      <3> QED
        BY <3>1, FS_Singleton
    <2> QED
      BY <2>1, <2>2
  <1> QED
    BY <1>2, <1>3 DEF LockInv, ActsAlone

LEMMA LoopsOnce == CardsInv => PollsOnce
  <1> SUFFICES ASSUME CardsInv PROVE PollsOnce
    OBVIOUS
  <1>1. /\ CardInv /\ LoopInv /\ oc.mounted \in BOOLEAN /\ oc.live \in BOOLEAN
        /\ otaPage.hidden \in BOOLEAN
    BY CardFields DEF CardsInv, CardInv
  <1>2. CASE oc.mounted = TRUE /\ otaPage.hidden = FALSE
    <2>1. oc.timers \subseteq {oc.gen} /\ (oc.gen \in oc.timers <=> oc.timers # {})
      BY <1>1 DEF CardInv
    <2>2. oc.timers # {} <=> ~\E call \in calls : LoopOf(call)
      BY <1>1, <1>2 DEF CardInv, LoopInv
    <2>3. \A call : LoopOf(call) <=> Here(call) /\ call.then = oc.gen
      BY <1>2 DEF LoopOf, Here
    <2>4. (oc.gen \in oc.timers) <=> ~\E call \in calls : Here(call) /\ call.then = oc.gen
      BY <2>1, <2>2, <2>3
    <2>5. (oc.gen \in oc.timers) # (\E call \in calls : Here(call) /\ call.then = oc.gen)
      BY <2>4
    <2> QED
      BY <1>2, <2>1, <2>5 DEF PollsOnce
  <1>3. CASE ~(oc.mounted = TRUE /\ otaPage.hidden = FALSE)
    <2>1. oc.timers = {}
      BY <1>1, <1>3 DEF CardInv
    <2> QED
      BY <1>1, <1>3, <2>1 DEF PollsOnce
  <1> QED
    BY <1>2, <1>3

LEMMA ShaIsOwn == CardsInv => SendsOwnSha
  BY DEF CardsInv, CardInv, CallInv, SendsOwnSha

LEMMA BusyShows == CardsInv => BusyIsReal
  <1> SUFFICES ASSUME CardsInv, oc.busy # "none"
               PROVE  \E call \in calls : Here(call) /\ call.kind # "boot"
    BY DEF BusyIsReal
  <1>1. oc.mounted = TRUE /\ oc.busy \in Busies
    BY CardFields DEF CardsInv, CardInv, BusyInv
  <1>2. PICK call \in calls : call.mount = oc.mount /\ Settles(oc.busy, call)
    BY DEF CardsInv, BusyInv
  <1>3. call.kind # "status" => call.then = 0
    BY DEF CardsInv, CallInv
  <1>4. call.kind # "boot"
    BY <1>1, <1>2, <1>3 DEF Settles, Busies, Confirming
  <1> QED
    BY <1>1, <1>2, <1>4 DEF Here

\* On every mount of the card: one action at a time, with the sha of its own file; one
\* poll loop while the card is visible; nothing it is busy with is left to no call.
THEOREM UpdatePageHolds == OtaClientFairSpec => []UpdatePageIsSound
  <1>1. CardsInv => UpdatePageIsSound
    BY OneActs, LoopsOnce, ShaIsOwn, BusyShows DEF UpdatePageIsSound, CardsInv
  <1> QED
    BY <1>1, CardsInvariant, PTL

=============================================================================
