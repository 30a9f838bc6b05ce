------------------------- MODULE LogicCapture_proofs -------------------------
(***************************************************************************)
(* Proofs about LogicCapture: for any number of clicks and frames, and any *)
(* size of a capture, the page of the logic analyzer is sound.             *)
(*                                                                         *)
(* A step is a chain of operators on the state, so the invariant LogicInv  *)
(* is a predicate of a state, and each operator has a lemma that says it   *)
(* keeps it.  Its parts say what a task owns while it lives: the busy      *)
(* marks, what the page shows, the connection, the session; and what the   *)
(* frames on their way belong to while a capture runs that began alone.    *)
(***************************************************************************)
EXTENDS LogicCapture, SequenceTheorems, TLAPS

-----------------------------------------------------------------------------
(* Types.                                                                   *)
StartPcs == {"start", "create", "drop", "open", "config", "begin"}
LoopPcs == {"loop", "read"}
HaltPcs == {"halt", "settle"}
WakeTypes == {"none", "ok", "err", "fail", "null", "running", "armed", "stopped",
              "triggered", "data", "overrun"}
LogicWakes == [t : WakeTypes, op : Nat]
LogicFrames == [t : WakeTypes, op : Nat, req : {"none", "config", "begin", "halt"}]
LogicTasks ==
  [kind : {"bounded", "stream", "cancel", "stop"}, pc : StartPcs \cup LoopPcs \cup HaltPcs \cup {"over"},
   wake : LogicWakes,
   next : {"none", "finish", "complete", "unstreamed", "streamed", "cancelled", "stopped"},
   gen : Nat, count : Nat, own : BOOLEAN, triggered : BOOLEAN, cancelled : BOOLEAN,
   quiet : BOOLEAN]
LogicShots ==
  [op : Nat, own : BOOLEAN, count : Nat, quiet : BOOLEAN, triggered : BOOLEAN,
   cancelled : BOOLEAN]
LogicStates ==
  [tasks : Seq(LogicTasks), busy : {"none", "bounded", "stream"}, cancel : BOOLEAN,
   stream : BOOLEAN, streaming : BOOLEAN, arming : BOOLEAN, starting : BOOLEAN,
   state : {"idle", "armed", "capturing", "done"}, shot : LogicShots, active : BOOLEAN,
   mounted : BOOLEAN, gen : Nat, session : Nat, queue : Seq(LogicFrames), reader : Nat,
   ws : Nat, up : BOOLEAN, down : Seq(LogicFrames), slots : SUBSET Nat,
   deleting : SUBSET Nat, phase : {"none", "configured", "armed", "running"},
   run : Nat, sent : Nat]

-----------------------------------------------------------------------------
(* The invariant.                                                           *)
(* One task occupies the card: a bounded capture until it is over, a stream *)
(* until it runs or has failed to.                                          *)
Occupying(task) ==
  \/ task.kind = "bounded" /\ task.pc # "over"
  \/ task.kind = "stream" /\ (task.pc \in StartPcs \/ task.next = "unstreamed")

Ids(s) == DOMAIN s.tasks
Live(s, i) == s.tasks[i].pc # "over"
Bounded(s, i) == s.tasks[i].kind = "bounded" /\ Live(s, i)
Cancelling(s) == \E i \in Ids(s) : s.tasks[i].kind = "cancel" /\ Live(s, i)
Working(s) == \E i \in Ids(s) : Live(s, i)
Capturing(s) == \E i \in Ids(s) : Bounded(s, i)
Shooting(s) == \E i \in Ids(s) : Bounded(s, i) /\ s.tasks[i].next # "finish"
Reading(s) == \E i \in Ids(s) : s.tasks[i].kind = "stream" /\ s.tasks[i].pc \in LoopPcs
Occupied(s) == \E i \in Ids(s) : Occupying(s.tasks[i])

(* The await a task is at goes with its kind and with what follows.         *)
ShapeOf(task) ==
  /\ task.kind \in {"cancel", "stop"} => task.pc \in HaltPcs \cup {"start", "over"}
  /\ task.pc \notin HaltPcs => task.next = "none"
  /\ task.pc \in HaltPcs =>
       CASE task.kind = "bounded" -> task.next \in {"finish", "complete"}
         [] task.kind = "stream" -> task.next \in {"unstreamed", "streamed"}
         [] task.kind = "cancel" -> task.next = "cancelled"
         [] OTHER -> task.next = "stopped"
Shapes(s) == \A i \in Ids(s) : ShapeOf(s.tasks[i])

OneOccupies(s) ==
  /\ \A i, j \in Ids(s) : Occupying(s.tasks[i]) /\ Occupying(s.tasks[j]) => i = j
  /\ \A i \in Ids(s) : Occupying(s.tasks[i]) => s.busy = s.tasks[i].kind
  /\ s.busy # "none" => Occupied(s)
  /\ s.arming = TRUE <=> s.busy = "bounded"
  /\ s.starting = TRUE <=> s.busy = "stream"

(* Who shows a stream is one that reads.                                    *)
Streams(s) ==
  /\ s.stream = TRUE => s.streaming = TRUE
  /\ s.streaming = TRUE => Reading(s)

(* What is shown as armed or capturing is a capture that will end it, or    *)
(* one that was cancelled by a task that will.                              *)
Shown(s) ==
  /\ s.mounted = TRUE /\ s.state \in {"armed", "capturing"} =>
       \/ Cancelling(s)
       \/ s.cancel = FALSE /\ Shooting(s)
  /\ \A i \in Ids(s) : s.tasks[i].kind = "bounded" /\ s.tasks[i].pc \in StartPcs =>
       /\ s.state \in {"idle", "done"}
       /\ s.cancel = TRUE => s.mounted = FALSE

(* The socket and the session are one task's, which waits for it to open;   *)
(* without a socket nothing is on its way.                                  *)
Linked(s) ==
  /\ s.session = s.ws
  /\ s.up = TRUE => s.ws # 0
  /\ s.ws # 0 => s.ws \in Ids(s)
  /\ s.ws # 0 /\ s.up = FALSE =>
       s.tasks[s.ws].pc = "open" /\ s.tasks[s.ws].wake = NoWake
  /\ s.ws = 0 => s.phase = "none" /\ s.down = <<>>
  /\ \A i \in Ids(s) : s.tasks[i].pc = "create" => s.ws = 0

(* A session of the debugger is that of the socket, is to be deleted, or    *)
(* was just made.                                                           *)
Sessions(s) ==
  /\ s.slots \subseteq Ids(s) /\ s.deleting \subseteq Ids(s)
  /\ \A i \in s.slots :
       \/ i \in s.deleting \/ i = s.session
       \/ s.tasks[i].pc = "create" /\ s.tasks[i].wake.t = "ok"

(* A page that is gone connects no more.                                    *)
Gone(s) ==
  s.mounted = FALSE =>
    /\ s.active = FALSE /\ s.ws = 0
    /\ \A i \in Ids(s) :
         /\ s.tasks[i].pc \in NetAwaits => s.tasks[i].wake.t = "fail"
         /\ s.tasks[i].pc = "create" => s.tasks[i].gen # s.gen
Generations(s) == \A i \in Ids(s) : s.tasks[i].gen <= s.gen

(* Connection, frames and activity have a task that will close them; behind *)
(* a cancelled capture it is the one that cancels.                          *)
Tended(s) ==
  /\ s.ws # 0 \/ s.queue # <<>> \/ s.active = TRUE => Working(s)
  /\ (s.ws # 0 \/ s.queue # <<>>) /\ s.cancel = TRUE /\ Capturing(s) => Cancelling(s)
  /\ s.reader # 0 =>
       s.reader \in Ids(s) /\ s.tasks[s.reader].pc = "read" /\ s.tasks[s.reader].wake = NoWake

(* While a capture runs that began alone, samples are its own.              *)
Carries(f, i) == f.t \in {"data", "triggered"} => f.op = i
OwnRun(s, i) ==
  /\ \A j \in Ids(s) : Live(s, j) => j = i \/ s.tasks[j].kind = "cancel"
  /\ \A k \in DOMAIN s.queue : Carries(s.queue[k], i)
  /\ \A k \in DOMAIN s.down : Carries(s.down[k], i)
  /\ s.phase \in {"armed", "running"} => s.run = i
  /\ s.tasks[i].pc = "read" => Carries(s.tasks[i].wake, i)
QuietRuns(s) ==
  \A i \in Ids(s) : s.tasks[i].kind = "bounded" /\ s.tasks[i].quiet = TRUE =>
    /\ s.tasks[i].own = TRUE
    /\ Live(s, i) => OwnRun(s, i)

(* A capture that was cancelled will see it; one that is shown was not.     *)
Cancelled(s) ==
  /\ \A i \in Ids(s) : Bounded(s, i) /\ s.tasks[i].cancelled = TRUE => s.cancel = TRUE
  /\ s.shot.cancelled = FALSE
  /\ s.shot.op # 0 /\ s.shot.quiet = TRUE =>
       s.shot.own = TRUE /\ s.shot.triggered = TRUE /\ s.shot.count >= Target

LogicInv(s) ==
  /\ s \in LogicStates
  /\ Shapes(s) /\ OneOccupies(s) /\ Streams(s) /\ Shown(s) /\ Linked(s) /\ Sessions(s)
  /\ Gone(s) /\ Generations(s) /\ Tended(s) /\ QuietRuns(s) /\ Cancelled(s)

-----------------------------------------------------------------------------
(* One task of a state changes.                                             *)

\* The tasks of t are those of s but for i.
Puts(s, t, i) ==
  Ids(t) = Ids(s) /\ \A j \in Ids(s) : j # i => t.tasks[j] = s.tasks[j]

\* The fields of the connection, and those of the card.
SameNet(s, t) ==
  /\ t.gen = s.gen /\ t.session = s.session /\ t.queue = s.queue /\ t.reader = s.reader
  /\ t.ws = s.ws /\ t.up = s.up
SameSlots(s, t) == t.slots = s.slots /\ t.deleting = s.deleting
SameWire(s, t) == t.down = s.down /\ t.phase = s.phase /\ t.run = s.run
SameLink(s, t) == SameNet(s, t) /\ SameSlots(s, t) /\ SameWire(s, t)

SameBusy(s, t) == t.busy = s.busy /\ t.arming = s.arming /\ t.starting = s.starting
SameStream(s, t) == t.stream = s.stream /\ t.streaming = s.streaming
SameShow(s, t) ==
  t.cancel = s.cancel /\ t.state = s.state /\ t.active = s.active /\ t.mounted = s.mounted
SameCard(s, t) ==
  SameBusy(s, t) /\ SameStream(s, t) /\ SameShow(s, t) /\ t.shot = s.shot

\* What a task keeps when it moves.
SameTask(a, x) ==
  /\ x.kind = a.kind /\ x.gen = a.gen /\ x.count = a.count /\ x.own = a.own
  /\ x.triggered = a.triggered /\ x.cancelled = a.cancelled /\ x.quiet = a.quiet

\* Nothing but task i changes.
OnlyPuts(s, t, i) ==
  /\ t \in LogicStates /\ t.tasks[i] \in LogicTasks
  /\ Puts(s, t, i) /\ SameLink(s, t) /\ SameCard(s, t)

\* A sequence with one element replaced.
LEMMA SeqUpdate ==
  ASSUME NEW S, NEW q \in Seq(S), NEW i \in DOMAIN q, NEW x \in S
  PROVE  /\ [q EXCEPT ![i] = x] \in Seq(S)
         /\ Len([q EXCEPT ![i] = x]) = Len(q)
         /\ DOMAIN [q EXCEPT ![i] = x] = DOMAIN q
         /\ [q EXCEPT ![i] = x][i] = x
         /\ \A j \in DOMAIN q : j # i => [q EXCEPT ![i] = x][j] = q[j]
OBVIOUS

Put(s, i, x) == [s EXCEPT !.tasks = [s.tasks EXCEPT ![i] = x]]

\* A task is replaced, and nothing else.
LEMMA PutFacts ==
  ASSUME NEW s \in LogicStates, NEW i \in Ids(s), NEW x \in LogicTasks,
         NEW t, t = Put(s, i, x)
  PROVE  OnlyPuts(s, t, i) /\ t.tasks[i] = x
<1>1. s.tasks \in Seq(LogicTasks) /\ i \in DOMAIN s.tasks
  BY DEF LogicStates, Ids
<1> DEFINE q == [s.tasks EXCEPT ![i] = x]
<1>2. /\ q \in Seq(LogicTasks) /\ DOMAIN q = DOMAIN s.tasks /\ q[i] = x
      /\ \A j \in DOMAIN s.tasks : j # i => q[j] = s.tasks[j]
  BY <1>1, SeqUpdate
<1>3. t = [s EXCEPT !.tasks = q]
  BY DEF Put
<1> HIDE DEF q
<1>4. t \in LogicStates /\ t.tasks = q
  BY <1>2, <1>3, ZenonT(60) DEF LogicStates
<1>5. SameLink(s, t) /\ SameCard(s, t)
  BY <1>2, <1>3 DEF LogicStates, SameLink, SameNet, SameSlots, SameWire,
                   SameCard, SameBusy, SameStream, SameShow
<1> QED BY <1>2, <1>4, <1>5 DEF OnlyPuts, Puts, Ids

\* A task is woken, and nothing else changes.
LEMMA WakeFacts ==
  ASSUME NEW s \in LogicStates, NEW i \in Ids(s), NEW w \in WakeTypes,
         NEW t, t = Wake(s, i, w)
  PROVE  /\ OnlyPuts(s, t, i) /\ SameTask(s.tasks[i], t.tasks[i])
         /\ t.tasks[i].pc = s.tasks[i].pc /\ t.tasks[i].next = s.tasks[i].next
         /\ t.tasks[i].wake.t = w /\ t.tasks[i].wake.op = i
<1>1. s.tasks \in Seq(LogicTasks) /\ i \in DOMAIN s.tasks /\ s.tasks[i] \in LogicTasks
      /\ i \in Nat
  BY DEF LogicStates, Ids
<1> DEFINE x == [s.tasks[i] EXCEPT !.wake = [t |-> w, op |-> i]]
<1>2. /\ x \in LogicTasks /\ SameTask(s.tasks[i], x)
      /\ x.pc = s.tasks[i].pc /\ x.next = s.tasks[i].next /\ x.wake.t = w /\ x.wake.op = i
  BY <1>1 DEF LogicTasks, LogicWakes, SameTask
<1>3. t = Put(s, i, x)
  BY <1>1 DEF Wake, Put, LogicStates, LogicTasks
<1> HIDE DEF x
<1>4. OnlyPuts(s, t, i) /\ t.tasks[i] = x
  BY <1>2, <1>3, PutFacts
<1> QED BY <1>2, <1>4

\* A task goes to its next await, and nothing else changes.
LEMMA AtFacts ==
  ASSUME NEW s \in LogicStates, NEW i \in Ids(s),
         NEW pc \in StartPcs \cup LoopPcs \cup HaltPcs \cup {"over"},
         NEW t, t = At(s, i, pc)
  PROVE  /\ OnlyPuts(s, t, i) /\ SameTask(s.tasks[i], t.tasks[i])
         /\ t.tasks[i].pc = pc /\ t.tasks[i].next = s.tasks[i].next /\ t.tasks[i].wake = NoWake
<1>1. s.tasks \in Seq(LogicTasks) /\ i \in DOMAIN s.tasks /\ s.tasks[i] \in LogicTasks
      /\ i \in Nat
  BY DEF LogicStates, Ids
<1> DEFINE x == [s.tasks[i] EXCEPT !.pc = pc, !.wake = NoWake]
<1>2. /\ x \in LogicTasks /\ SameTask(s.tasks[i], x)
      /\ x.pc = pc /\ x.next = s.tasks[i].next /\ x.wake = NoWake
  BY <1>1 DEF LogicTasks, LogicWakes, SameTask, NoWake, WakeTypes
<1>3. t = Put(s, i, x)
  BY <1>1, ZenonT(60) DEF At, Put, LogicStates, LogicTasks
<1> HIDE DEF x
<1>4. OnlyPuts(s, t, i) /\ t.tasks[i] = x
  BY <1>2, <1>3, PutFacts
<1> QED BY <1>2, <1>4

\* What else of a state is edited does not matter to a move.
LEMMA AtIs ==
  ASSUME NEW s \in LogicStates, NEW u \in LogicStates, u.tasks = s.tasks, NEW i \in Ids(s),
         NEW pc
  PROVE  \E q : At(s, i, pc) = [s EXCEPT !.tasks = q] /\ At(u, i, pc) = [u EXCEPT !.tasks = q]
<1>1. s.tasks \in Seq(LogicTasks) /\ i \in DOMAIN s.tasks /\ s.tasks[i] \in LogicTasks
  BY SMTT(30) DEF LogicStates, Ids
<1>2. PICK x : x = [s.tasks[i] EXCEPT !.pc = pc, !.wake = NoWake]
  OBVIOUS
<1>3. At(s, i, pc) = [s EXCEPT !.tasks = [s.tasks EXCEPT ![i] = x]]
  BY <1>1, <1>2, ZenonT(60) DEF At, LogicStates, LogicTasks
<1>4. At(u, i, pc) = [u EXCEPT !.tasks = [s.tasks EXCEPT ![i] = x]]
  BY <1>1, <1>2, ZenonT(60) DEF At, LogicStates, LogicTasks
<1> QED
  BY <1>3, <1>4

\* A task is over, and nothing else changes.
LEMMA OverFacts ==
  ASSUME NEW s \in LogicStates, NEW i \in Ids(s),
         NEW t, t = Over(s, i)
  PROVE  /\ OnlyPuts(s, t, i) /\ SameTask(s.tasks[i], t.tasks[i])
         /\ t.tasks[i].pc = "over" /\ t.tasks[i].next = "none" /\ t.tasks[i].wake = NoWake
<1>1. s.tasks \in Seq(LogicTasks) /\ i \in DOMAIN s.tasks /\ s.tasks[i] \in LogicTasks
      /\ i \in Nat
  BY DEF LogicStates, Ids
<1> DEFINE x == [s.tasks[i] EXCEPT !.pc = "over", !.wake = NoWake, !.next = "none"]
<1>2. /\ x \in LogicTasks /\ SameTask(s.tasks[i], x)
      /\ x.pc = "over" /\ x.next = "none" /\ x.wake = NoWake
  BY <1>1 DEF LogicTasks, LogicWakes, SameTask, NoWake, WakeTypes
<1>3. t = Put(s, i, x)
  BY <1>1 DEF Over, Put, LogicStates, LogicTasks
<1> HIDE DEF x
<1>4. OnlyPuts(s, t, i) /\ t.tasks[i] = x
  BY <1>2, <1>3, PutFacts
<1> QED BY <1>2, <1>4

\* What some task of s is, some task of t is, if i stays one.
LEMMA StayOnes ==
  ASSUME NEW s, NEW t, NEW i \in Ids(s), Puts(s, t, i)
  PROVE  /\ Working(s) /\ (Live(s, i) => Live(t, i)) => Working(t)
         /\ Cancelling(s) /\ (Live(s, i) /\ s.tasks[i].kind = "cancel"
                                => Live(t, i) /\ t.tasks[i].kind = "cancel") => Cancelling(t)
         /\ Shooting(s) /\ (Bounded(s, i) /\ s.tasks[i].next # "finish"
                              => Bounded(t, i) /\ t.tasks[i].next # "finish") => Shooting(t)
         /\ Reading(s) /\ (s.tasks[i].kind = "stream" /\ s.tasks[i].pc \in LoopPcs
                             => t.tasks[i].kind = "stream" /\ t.tasks[i].pc \in LoopPcs)
              => Reading(t)
         /\ Occupied(s) /\ (Occupying(s.tasks[i]) => Occupying(t.tasks[i])) => Occupied(t)
         /\ Capturing(t) /\ (Bounded(t, i) => Bounded(s, i)) => Capturing(s)
<1>1. ASSUME Working(s), Live(s, i) => Live(t, i) PROVE Working(t)
  BY <1>1 DEF Working, Live, Puts
<1>2. ASSUME Cancelling(s), Live(s, i) /\ s.tasks[i].kind = "cancel"
                              => Live(t, i) /\ t.tasks[i].kind = "cancel"
      PROVE  Cancelling(t)
  BY <1>2 DEF Cancelling, Live, Puts
<1>3. ASSUME Shooting(s), Bounded(s, i) /\ s.tasks[i].next # "finish"
                            => Bounded(t, i) /\ t.tasks[i].next # "finish"
      PROVE  Shooting(t)
  BY <1>3 DEF Shooting, Bounded, Live, Puts
<1>4. ASSUME Reading(s), s.tasks[i].kind = "stream" /\ s.tasks[i].pc \in LoopPcs
                           => t.tasks[i].kind = "stream" /\ t.tasks[i].pc \in LoopPcs
      PROVE  Reading(t)
  BY <1>4 DEF Reading, Puts
<1>5. ASSUME Occupied(s), Occupying(s.tasks[i]) => Occupying(t.tasks[i]) PROVE Occupied(t)
  BY <1>5 DEF Occupied, Puts
<1>6. ASSUME Capturing(t), Bounded(t, i) => Bounded(s, i) PROVE Capturing(s)
  BY <1>6 DEF Capturing, Bounded, Live, Puts
<1> QED BY <1>1, <1>2, <1>3, <1>4, <1>5, <1>6

\* A task moves and stays what it is.
LEMMA SameOnes ==
  ASSUME NEW s, NEW t, NEW i \in Ids(s), Puts(s, t, i),
         t.tasks[i].kind = s.tasks[i].kind, t.tasks[i].next = s.tasks[i].next,
         Live(s, i) <=> Live(t, i), s.tasks[i].pc \in StartPcs <=> t.tasks[i].pc \in StartPcs,
         s.tasks[i].pc \in LoopPcs <=> t.tasks[i].pc \in LoopPcs
  PROVE  /\ Working(s) => Working(t)
         /\ Cancelling(s) => Cancelling(t)
         /\ Shooting(s) => Shooting(t)
         /\ Reading(s) => Reading(t)
         /\ Occupied(s) => Occupied(t)
         /\ Capturing(t) => Capturing(s)
         /\ Occupying(s.tasks[i]) <=> Occupying(t.tasks[i])
<1>1. Occupying(s.tasks[i]) <=> Occupying(t.tasks[i])
  BY DEF Occupying, Live
<1>2. Bounded(s, i) <=> Bounded(t, i)
  BY DEF Bounded
<1> QED BY <1>1, <1>2, StayOnes

\* What is on its way is the same, or new frames and a new phase are what captures
\* that began alone may have.
WireFits(s, t) ==
  /\ t.ws = 0 => t.phase = "none" /\ t.down = <<>>
  /\ \A j \in Ids(s) :
       s.tasks[j].kind = "bounded" /\ s.tasks[j].quiet = TRUE /\ Live(s, j) =>
         /\ \A k \in DOMAIN t.down : Carries(t.down[k], j)
         /\ t.phase \in {"armed", "running"} => t.run = j

\* A task moves on, or is woken; what it occupies is the same, or the card says so.
LEMMA StepHolds ==
  ASSUME NEW s, LogicInv(s), NEW i \in Ids(s), NEW t, t \in LogicStates,
         Puts(s, t, i), SameNet(s, t), SameSlots(s, t),
         SameStream(s, t), SameShow(s, t), t.shot = s.shot,
         SameWire(s, t) \/ WireFits(s, t),
         SameTask(s.tasks[i], t.tasks[i]),
         Live(s, i), Live(t, i), ShapeOf(t.tasks[i]),
         \/ SameBusy(s, t) /\ (Occupying(s.tasks[i]) <=> Occupying(t.tasks[i]))
         \/ OneOccupies(t),
         t.tasks[i].pc \in StartPcs => s.tasks[i].pc \in StartPcs,
         s.tasks[i].kind = "stream" /\ s.tasks[i].pc \in LoopPcs
           => t.tasks[i].pc \in LoopPcs \/ s.streaming = FALSE,
         s.tasks[i].kind = "bounded" /\ t.tasks[i].next = "finish"
           => \/ s.tasks[i].next = "finish" \/ s.cancel = TRUE
              \/ s.state \in {"idle", "done"},
         s.ws = i /\ s.up = FALSE => t.tasks[i].pc = "open" /\ t.tasks[i].wake = NoWake,
         t.tasks[i].pc = "create" => s.ws = 0,
         i \in s.slots =>
           \/ i \in s.deleting \/ i = s.session
           \/ t.tasks[i].pc = "create" /\ t.tasks[i].wake.t = "ok",
         s.mounted = FALSE =>
           /\ t.tasks[i].pc \in NetAwaits => t.tasks[i].wake.t = "fail"
           /\ t.tasks[i].pc = "create" => t.tasks[i].gen # t.gen,
         s.reader # i,
         s.tasks[i].kind = "bounded" /\ s.tasks[i].quiet = TRUE /\ t.tasks[i].pc = "read"
           => Carries(t.tasks[i].wake, i)
  PROVE  LogicInv(t)
<1>0. Puts(s, t, i) /\ SameTask(s.tasks[i], t.tasks[i])
  OBVIOUS
<1>1. /\ Working(s) => Working(t)
      /\ Cancelling(s) => Cancelling(t)
      /\ Occupied(s) /\ (Occupying(s.tasks[i]) <=> Occupying(t.tasks[i])) => Occupied(t)
      /\ Capturing(t) => Capturing(s)
      /\ Reading(s) => Reading(t) \/ s.streaming = FALSE
      /\ Shooting(s) => \/ Shooting(t) \/ s.cancel = TRUE \/ s.state \in {"idle", "done"}
  <2>1. Bounded(s, i) <=> Bounded(t, i)
    BY DEF Bounded, SameTask
  <2>2. (Working(s) => Working(t)) /\ (Capturing(t) => Capturing(s))
    BY <2>1, StayOnes
  <2>3. Cancelling(s) => Cancelling(t)
    BY StayOnes DEF SameTask
  <2>4. Occupied(s) /\ (Occupying(s.tasks[i]) <=> Occupying(t.tasks[i])) => Occupied(t)
    BY StayOnes
  <2>5. Reading(s) => Reading(t) \/ s.streaming = FALSE
    BY StayOnes DEF SameTask
  <2>6. ASSUME Shooting(s), s.cancel # TRUE, s.state \notin {"idle", "done"} PROVE Shooting(t)
    <3>1. Bounded(s, i) /\ s.tasks[i].next # "finish" => Bounded(t, i) /\ t.tasks[i].next # "finish"
      BY <2>1, <2>6 DEF Bounded
    <3> QED
      BY <2>6, <3>1, StayOnes
  <2> QED
    BY <2>2, <2>3, <2>4, <2>5, <2>6
<1>2. Shapes(t)
  BY <1>0 DEF LogicInv, Shapes, Puts
<1>3. OneOccupies(t)
  <2>1. CASE OneOccupies(t)
    BY <2>1
  <2>2. CASE SameBusy(s, t) /\ (Occupying(s.tasks[i]) <=> Occupying(t.tasks[i]))
    <3>1. OneOccupies(s)
      BY DEF LogicInv
    <3>2. \A j \in Ids(t) : Occupying(t.tasks[j]) => Occupying(s.tasks[j]) /\ j \in Ids(s)
      BY <1>0, <2>2 DEF Puts
    <3>3. \A j \in Ids(t) : t.tasks[j].kind = s.tasks[j].kind
      BY <1>0 DEF Puts, SameTask
    <3> QED
      BY <1>1, <2>2, <3>1, <3>2, <3>3 DEF OneOccupies, SameBusy
  <2> QED
    BY <2>1, <2>2
<1>4. Streams(t)
  BY <1>1 DEF LogicInv, Streams, SameStream
<1>5. Shown(t)
  <2>1. Shown(s) /\ SameShow(s, t)
    BY DEF LogicInv
  <2>2. s.cancel \in BOOLEAN
    BY DEF LogicInv, LogicStates
  <2>3. t.mounted = TRUE /\ t.state \in {"armed", "capturing"} =>
          Cancelling(t) \/ (t.cancel = FALSE /\ Shooting(t))
    BY <1>1, <2>1, <2>2 DEF Shown, SameShow
  <2>4. \A j \in Ids(t) : t.tasks[j].kind = "bounded" /\ t.tasks[j].pc \in StartPcs =>
          j \in Ids(s) /\ s.tasks[j].kind = "bounded" /\ s.tasks[j].pc \in StartPcs
    BY <1>0 DEF Puts, SameTask
  <2> QED BY <2>1, <2>3, <2>4 DEF Shown, SameShow
<1>6. Linked(t)
  <2>1. Linked(s)
    BY DEF LogicInv
  <2>2. t.ws = 0 => t.phase = "none" /\ t.down = <<>>
    BY <2>1 DEF Linked, SameNet, SameWire, WireFits
  <2> QED BY <1>0, <2>1, <2>2 DEF Linked, SameNet, Puts
<1>7. Sessions(t)
  <2>1. Sessions(s)
    BY DEF LogicInv
  <2>2. t.slots \subseteq Ids(t) /\ t.deleting \subseteq Ids(t)
    BY <1>0, <2>1 DEF Sessions, SameSlots, Puts
  <2>3. ASSUME NEW j \in t.slots
        PROVE  \/ j \in t.deleting \/ j = t.session
               \/ t.tasks[j].pc = "create" /\ t.tasks[j].wake.t = "ok"
    <3>1. j \in s.slots /\ j \in Ids(s)
      BY <2>1, <2>3 DEF Sessions, SameSlots
    <3>2. \/ j \in s.deleting \/ j = s.session
          \/ s.tasks[j].pc = "create" /\ s.tasks[j].wake.t = "ok"
      BY <2>1, <3>1 DEF Sessions
    <3>3. CASE j = i
      BY <3>1, <3>3 DEF SameSlots, SameNet
    <3>4. CASE j # i
      BY <1>0, <3>1, <3>2, <3>4 DEF SameSlots, SameNet, Puts
    <3> QED BY <3>3, <3>4
  <2> QED BY <2>2, <2>3 DEF Sessions
<1>8. Gone(t) /\ Generations(t)
  <2>1. Gone(s) /\ Generations(s)
    BY DEF LogicInv
  <2> QED BY <1>0, <2>1 DEF Gone, Generations, SameShow, SameNet, Puts, SameTask
<1>9. Tended(t)
  <2>1. Tended(s)
    BY DEF LogicInv
  <2>2. t.ws # 0 \/ t.queue # <<>> \/ t.active = TRUE => Working(t)
    BY <1>1, <2>1 DEF Tended, SameNet, SameShow
  <2>3. (t.ws # 0 \/ t.queue # <<>>) /\ t.cancel = TRUE /\ Capturing(t) => Cancelling(t)
    BY <1>1, <2>1 DEF Tended, SameNet, SameShow
  <2>4. t.reader # 0 => t.reader \in Ids(t) /\ t.tasks[t.reader].pc = "read"
                        /\ t.tasks[t.reader].wake = NoWake
    BY <1>0, <2>1 DEF Tended, SameNet, Puts
  <2> QED BY <2>2, <2>3, <2>4 DEF Tended
<1>10. QuietRuns(t)
  <2>1. QuietRuns(s)
    BY DEF LogicInv
  <2>2. \A j \in Ids(s) : /\ t.tasks[j].kind = s.tasks[j].kind /\ t.tasks[j].own = s.tasks[j].own
                          /\ t.tasks[j].quiet = s.tasks[j].quiet /\ (Live(t, j) <=> Live(s, j))
    BY <1>0 DEF Puts, SameTask, Live
  <2>3. ASSUME NEW j \in Ids(s), OwnRun(s, j), s.tasks[j].kind = "bounded",
               s.tasks[j].quiet = TRUE, Live(s, j)
        PROVE  OwnRun(t, j)
    <3>1. /\ \A k \in DOMAIN t.down : Carries(t.down[k], j)
          /\ t.phase \in {"armed", "running"} => t.run = j
      BY <2>3 DEF OwnRun, SameWire, WireFits
    <3>2. \A k \in DOMAIN t.queue : Carries(t.queue[k], j)
      BY <2>3 DEF OwnRun, SameNet
    <3>3. \A k \in Ids(t) : Live(t, k) => k = j \/ t.tasks[k].kind = "cancel"
      BY <1>0, <2>2, <2>3 DEF OwnRun, Puts
    <3>4. t.tasks[j].pc = "read" => Carries(t.tasks[j].wake, j)
      BY <1>0, <2>3 DEF OwnRun, Puts
    <3> QED BY <3>1, <3>2, <3>3, <3>4 DEF OwnRun
  <2>4. Ids(t) = Ids(s)
    BY <1>0 DEF Puts
  <2> QED BY <2>1, <2>2, <2>3, <2>4 DEF QuietRuns
<1>11. Cancelled(t)
  <2>1. Cancelled(s)
    BY DEF LogicInv
  <2>2. \A j \in Ids(t) : Bounded(t, j) /\ t.tasks[j].cancelled = TRUE =>
          j \in Ids(s) /\ Bounded(s, j) /\ s.tasks[j].cancelled = TRUE
    BY <1>0 DEF Bounded, Live, Puts, SameTask
  <2> QED BY <2>1, <2>2 DEF Cancelled, SameShow
<1> QED
  BY <1>2, <1>3, <1>4, <1>5, <1>6, <1>7, <1>8, <1>9, <1>10, <1>11 DEF LogicInv

\* A task moves on, or is woken, and keeps what it occupies.
LEMMA MoveHolds ==
  ASSUME NEW s, LogicInv(s), NEW i \in Ids(s), NEW t, t \in LogicStates,
         Puts(s, t, i), SameNet(s, t), SameSlots(s, t), SameCard(s, t),
         SameWire(s, t) \/ WireFits(s, t),
         SameTask(s.tasks[i], t.tasks[i]),
         Live(s, i), Live(t, i), ShapeOf(t.tasks[i]),
         Occupying(s.tasks[i]) <=> Occupying(t.tasks[i]),
         t.tasks[i].pc \in StartPcs => s.tasks[i].pc \in StartPcs,
         s.tasks[i].kind = "stream" /\ s.tasks[i].pc \in LoopPcs
           => t.tasks[i].pc \in LoopPcs \/ s.streaming = FALSE,
         s.tasks[i].kind = "bounded" /\ t.tasks[i].next = "finish"
           => \/ s.tasks[i].next = "finish" \/ s.cancel = TRUE
              \/ s.state \in {"idle", "done"},
         s.ws = i /\ s.up = FALSE => t.tasks[i].pc = "open" /\ t.tasks[i].wake = NoWake,
         t.tasks[i].pc = "create" => s.ws = 0,
         i \in s.slots =>
           \/ i \in s.deleting \/ i = s.session
           \/ t.tasks[i].pc = "create" /\ t.tasks[i].wake.t = "ok",
         s.mounted = FALSE =>
           /\ t.tasks[i].pc \in NetAwaits => t.tasks[i].wake.t = "fail"
           /\ t.tasks[i].pc = "create" => t.tasks[i].gen # t.gen,
         s.reader # i,
         s.tasks[i].kind = "bounded" /\ s.tasks[i].quiet = TRUE /\ t.tasks[i].pc = "read"
           => Carries(t.tasks[i].wake, i)
  PROVE  LogicInv(t)
<1>1. SameStream(s, t) /\ SameShow(s, t) /\ t.shot = s.shot /\ SameBusy(s, t)
  BY DEF SameCard
<1> QED
  BY <1>1, StepHolds

\* The same as one predicate.
Moves(s, t, i) ==
  /\ t \in LogicStates
  /\ Puts(s, t, i)
  /\ SameNet(s, t)
  /\ SameSlots(s, t)
  /\ SameCard(s, t)
  /\ SameWire(s, t) \/ WireFits(s, t)
  /\ SameTask(s.tasks[i], t.tasks[i])
  /\ Live(s, i)
  /\ Live(t, i)
  /\ ShapeOf(t.tasks[i])
  /\ Occupying(s.tasks[i]) <=> Occupying(t.tasks[i])
  /\ t.tasks[i].pc \in StartPcs => s.tasks[i].pc \in StartPcs
  /\ s.tasks[i].kind = "stream" /\ s.tasks[i].pc \in LoopPcs
       => t.tasks[i].pc \in LoopPcs \/ s.streaming = FALSE
  /\ s.tasks[i].kind = "bounded" /\ t.tasks[i].next = "finish"
       => \/ s.tasks[i].next = "finish" \/ s.cancel = TRUE
          \/ s.state \in {"idle", "done"}
  /\ s.ws = i /\ s.up = FALSE => t.tasks[i].pc = "open" /\ t.tasks[i].wake = NoWake
  /\ t.tasks[i].pc = "create" => s.ws = 0
  /\ i \in s.slots =>
       \/ i \in s.deleting \/ i = s.session
       \/ t.tasks[i].pc = "create" /\ t.tasks[i].wake.t = "ok"
  /\ s.mounted = FALSE =>
       /\ t.tasks[i].pc \in NetAwaits => t.tasks[i].wake.t = "fail"
       /\ t.tasks[i].pc = "create" => t.tasks[i].gen # t.gen
  /\ s.reader # i
  /\ s.tasks[i].kind = "bounded" /\ s.tasks[i].quiet = TRUE /\ t.tasks[i].pc = "read"
       => Carries(t.tasks[i].wake, i)

\* MoveHolds, with its hypotheses in one name.
LEMMA MovesHolds ==
  ASSUME NEW s, LogicInv(s), NEW i \in Ids(s), NEW t, Moves(s, t, i)
  PROVE  LogicInv(t)
  BY MoveHolds DEF Moves

\* A task is woken that nothing else wakes.
LEMMA WakeHolds ==
  ASSUME NEW s, LogicInv(s), NEW i \in Ids(s), NEW w \in WakeTypes, Live(s, i),
         s.reader # i, s.ws = i => s.up = TRUE,
         s.mounted = FALSE /\ s.tasks[i].pc \in NetAwaits => w = "fail",
         s.tasks[i].pc = "create" => s.tasks[i].wake = NoWake,
         NEW t, t = Wake(s, i, w)
  PROVE  LogicInv(t)
<1>1. s \in LogicStates /\ i \in Nat
  BY DEF LogicInv, LogicStates, Ids
<1>2. /\ OnlyPuts(s, t, i) /\ SameTask(s.tasks[i], t.tasks[i])
      /\ t.tasks[i].pc = s.tasks[i].pc /\ t.tasks[i].next = s.tasks[i].next
      /\ t.tasks[i].wake.t = w /\ t.tasks[i].wake.op = i
  BY <1>1, WakeFacts
<1>3. /\ Puts(s, t, i) /\ SameCard(s, t) /\ t \in LogicStates
      /\ SameNet(s, t) /\ SameSlots(s, t) /\ SameWire(s, t)
  BY <1>2 DEF OnlyPuts, SameLink
<1>4. ShapeOf(t.tasks[i]) /\ Live(t, i) /\ (Occupying(s.tasks[i]) <=> Occupying(t.tasks[i]))
  BY <1>2 DEF LogicInv, Shapes, ShapeOf, SameTask, Live, Occupying
<1>5. t.tasks[i].wake.t = w /\ t.tasks[i].wake.op = i
  BY <1>2
<1>6. i \in s.slots => i \in s.deleting \/ i = s.session
  <2>1. Sessions(s)
    BY DEF LogicInv
  <2>2. s.tasks[i].pc = "create" => s.tasks[i].wake.t = "none"
    BY DEF NoWake
  <2> QED BY <2>1, <2>2 DEF Sessions
<1>7. /\ t.tasks[i].pc = "create" => s.ws = 0
      /\ s.ws = i => s.up = TRUE
      /\ s.mounted = FALSE =>
           /\ t.tasks[i].pc \in NetAwaits => t.tasks[i].wake.t = "fail"
           /\ t.tasks[i].pc = "create" => t.tasks[i].gen # t.gen
  <2>1. Gone(s) /\ Linked(s)
    BY DEF LogicInv
  <2> QED BY <1>2, <1>3, <1>5, <2>1 DEF Gone, Linked, SameTask, SameNet
<1>8. Carries(t.tasks[i].wake, i)
  BY <1>5 DEF Carries
<1> QED
  BY <1>2, <1>3, <1>4, <1>6, <1>7, <1>8, MoveHolds, ZenonT(60)
-----------------------------------------------------------------------------
(* The tasks stay as they are.                                              *)

\* Each part of the invariant is kept by the fields it is about, or shown anew.
LEMMA EditHolds ==
  ASSUME NEW s, LogicInv(s), NEW t, t \in LogicStates, t.tasks = s.tasks,
         SameBusy(s, t) \/ OneOccupies(t),
         SameStream(s, t) \/ Streams(t),
         (t.cancel = s.cancel /\ t.state = s.state /\ t.mounted = s.mounted) \/ Shown(t),
         (t.session = s.session /\ t.ws = s.ws /\ t.up = s.up /\ SameWire(s, t)) \/ Linked(t),
         (SameSlots(s, t) /\ t.session = s.session) \/ Sessions(t),
         (/\ t.mounted = s.mounted /\ t.ws = s.ws /\ t.gen = s.gen
          /\ t.active = s.active) \/ Gone(t),
         t.gen = s.gen \/ Generations(t),
         (/\ t.ws = s.ws /\ t.queue = s.queue /\ t.active = s.active /\ t.cancel = s.cancel
          /\ t.reader = s.reader) \/ Tended(t),
         (t.queue = s.queue /\ SameWire(s, t)) \/ QuietRuns(t),
         (t.cancel = s.cancel /\ t.shot = s.shot) \/ Cancelled(t)
  PROVE  LogicInv(t)
<1>1. Shapes(t) /\ OneOccupies(t) /\ Streams(t)
  BY DEF LogicInv, Shapes, OneOccupies, SameBusy, Streams, SameStream, Reading, Occupied, Ids
<1>2. Shown(t)
  <2>1. Shown(s) /\ (Cancelling(s) <=> Cancelling(t)) /\ (Shooting(s) <=> Shooting(t))
    BY DEF LogicInv, Cancelling, Shooting, Bounded, Live, Ids
  <2> QED
    BY <2>1 DEF Shown, Ids
<1>3. Linked(t)
  <2>1. Linked(s)
    BY DEF LogicInv
  <2> QED
    BY <2>1 DEF Linked, SameWire, Ids
<1>4. Sessions(t)
  <2>1. Sessions(s)
    BY DEF LogicInv
  <2> QED
    BY <2>1 DEF Sessions, SameSlots, Ids
<1>5. Gone(t) /\ Generations(t)
  <2>1. Gone(s) /\ Generations(s)
    BY DEF LogicInv
  <2> QED
    BY <2>1 DEF Gone, Generations, Ids
<1>6. Tended(t)
  <2>1. /\ Tended(s) /\ (Working(s) <=> Working(t)) /\ (Cancelling(s) <=> Cancelling(t))
        /\ (Capturing(s) <=> Capturing(t))
    BY DEF LogicInv, Working, Cancelling, Capturing, Bounded, Live, Ids
  <2> QED
    BY <2>1 DEF Tended, Ids
<1>7. QuietRuns(t)
  <2>1. QuietRuns(s)
    BY DEF LogicInv
  <2> QED
    BY <2>1 DEF QuietRuns, OwnRun, SameWire, Live, Ids
<1>8. Cancelled(t)
  <2>1. Cancelled(s)
    BY DEF LogicInv
  <2> QED
    BY <2>1 DEF Cancelled, Bounded, Live, Ids
<1> QED
  BY <1>1, <1>2, <1>3, <1>4, <1>5, <1>6, <1>7, <1>8 DEF LogicInv

-----------------------------------------------------------------------------
(* The connection is lost or closed.                                        *)

\* A task that waited for the connection is woken by its loss; every task is where
\* it was.
TaskDropped(a, x) ==
  /\ SameTask(a, x) /\ x.pc = a.pc /\ x.next = a.next
  /\ a.pc \in NetAwaits /\ a.wake = NoWake => x.wake.t = "fail"
  /\ a.pc \notin NetAwaits \/ a.wake # NoWake => x.wake = a.wake

\* What a dropped connection leaves.
LEMMA DroppedFacts ==
  ASSUME NEW s \in LogicStates, NEW t, t = Dropped(s)
  PROVE  /\ t \in LogicStates /\ SameCard(s, t) /\ Ids(t) = Ids(s)
         /\ t.gen = s.gen /\ t.queue = s.queue /\ t.reader = s.reader /\ t.slots = s.slots
         /\ t.ws = 0 /\ t.up = FALSE /\ t.down = <<>> /\ t.phase = "none" /\ t.run = 0
         /\ t.session = 0
         /\ t.deleting = IF s.session = 0 THEN s.deleting ELSE s.deleting \cup {s.session}
         /\ \A i \in Ids(s) : TaskDropped(s.tasks[i], t.tasks[i])
<1> DEFINE x(i) == IF s.tasks[i].pc \in NetAwaits /\ s.tasks[i].wake = NoWake
                   THEN [s.tasks[i] EXCEPT !.wake = [t |-> "fail", op |-> i]] ELSE s.tasks[i]
           q == [i \in 1..Len(s.tasks) |-> x(i)]
<1>1. s.tasks \in Seq(LogicTasks) /\ s.session \in Nat /\ s.deleting \in SUBSET Nat
  BY DEF LogicStates
<1>2. Ids(s) = 1..Len(s.tasks) /\ Len(s.tasks) \in Nat
  BY <1>1 DEF Ids
<1>3. ASSUME NEW i \in Ids(s)
      PROVE  x(i) \in LogicTasks /\ TaskDropped(s.tasks[i], x(i))
  <2>1. s.tasks[i] \in LogicTasks /\ i \in Nat
    BY <1>1, <1>2, <1>3
  <2> QED
    BY <2>1 DEF LogicTasks, LogicWakes, WakeTypes, SameTask, TaskDropped
<1>5. t = [s EXCEPT !.ws = 0, !.up = FALSE, !.down = <<>>, !.phase = "none", !.run = 0,
            !.session = 0, !.deleting = IF s.session = 0 THEN @ ELSE @ \cup {s.session},
            !.tasks = q]
  BY DEF Dropped
<1> HIDE DEF x
<1>4. q \in Seq(LogicTasks) /\ DOMAIN q = Ids(s) /\ \A i \in Ids(s) : q[i] = x(i)
  <2>1. q \in [1..Len(s.tasks) -> LogicTasks]
    BY <1>2, <1>3
  <2> QED
    BY <1>2, <2>1
<1> HIDE DEF q
<1>6. (IF s.session = 0 THEN s.deleting ELSE s.deleting \cup {s.session}) \in SUBSET Nat
      /\ <<>> \in Seq(LogicFrames)
  BY <1>1
<1>7. t \in LogicStates /\ t.tasks = q
  <2> DEFINE kept == IF s.session = 0 THEN s.deleting ELSE s.deleting \cup {s.session}
  <2>1. t = [s EXCEPT !.ws = 0, !.up = FALSE, !.down = <<>>, !.phase = "none", !.run = 0,
              !.session = 0, !.deleting = kept, !.tasks = q]
    BY <1>5 DEF LogicStates
  <2>2. kept \in SUBSET Nat
    BY <1>6
  <2> HIDE DEF kept
  <2> QED
    <3>1. PICK u : u = [s EXCEPT !.ws = 0, !.up = FALSE, !.down = <<>>, !.phase = "none"]
      OBVIOUS
    <3>2. u \in LogicStates
      BY <1>6, <3>1 DEF LogicStates
    <3>3. t = [u EXCEPT !.run = 0, !.session = 0, !.deleting = kept, !.tasks = q]
      BY <2>1, <3>1
    <3> QED
      <4>1. q \in Seq(LogicTasks)
        BY <1>4
      <4>2. t \in LogicStates
        <5>1. PICK v : v = [u EXCEPT !.run = 0, !.session = 0, !.deleting = kept]
          OBVIOUS
        <5>2. v \in LogicStates
          BY <2>2, <3>2, <5>1 DEF LogicStates
        <5>3. t = [v EXCEPT !.tasks = q]
          BY <3>3, <5>1
        <5> QED
          BY <4>1, <5>2, <5>3, ZenonT(60) DEF LogicStates
      <4>3. t.tasks = q
        BY <3>2, <3>3 DEF LogicStates
      <4> QED
        BY <4>2, <4>3
<1>8. SameCard(s, t)
  BY <1>5 DEF LogicStates, SameCard, SameBusy, SameStream, SameShow
<1>9. /\ t.gen = s.gen /\ t.queue = s.queue /\ t.reader = s.reader /\ t.slots = s.slots
      /\ t.ws = 0 /\ t.up = FALSE /\ t.down = <<>> /\ t.phase = "none" /\ t.run = 0
      /\ t.session = 0
      /\ t.deleting = IF s.session = 0 THEN s.deleting ELSE s.deleting \cup {s.session}
  BY <1>5 DEF LogicStates
<1> QED
  BY <1>3, <1>4, <1>7, <1>8, <1>9 DEF Ids

\* The loss of the socket keeps the invariant.
LEMMA DroppedHolds ==
  ASSUME NEW s, LogicInv(s), NEW t, t = Dropped(s)
  PROVE  LogicInv(t)
<1>0. s \in LogicStates
  BY DEF LogicInv
<1>1. /\ t \in LogicStates /\ SameCard(s, t) /\ Ids(t) = Ids(s)
      /\ t.gen = s.gen /\ t.queue = s.queue /\ t.reader = s.reader /\ t.slots = s.slots
      /\ t.ws = 0 /\ t.up = FALSE /\ t.down = <<>> /\ t.phase = "none" /\ t.run = 0
      /\ t.session = 0
      /\ t.deleting = IF s.session = 0 THEN s.deleting ELSE s.deleting \cup {s.session}
  BY <1>0, DroppedFacts
<1>15. \A i \in Ids(s) : TaskDropped(s.tasks[i], t.tasks[i])
  BY <1>0, DroppedFacts
<1>2. \A i \in Ids(s) :
        /\ t.tasks[i].kind = s.tasks[i].kind /\ t.tasks[i].gen = s.tasks[i].gen
        /\ t.tasks[i].own = s.tasks[i].own /\ t.tasks[i].quiet = s.tasks[i].quiet
        /\ t.tasks[i].cancelled = s.tasks[i].cancelled
        /\ t.tasks[i].pc = s.tasks[i].pc /\ t.tasks[i].next = s.tasks[i].next
  BY <1>1, <1>15 DEF SameTask, TaskDropped
<1>3. \A i \in Ids(s) :
        /\ s.tasks[i].pc \in NetAwaits /\ s.tasks[i].wake = NoWake => t.tasks[i].wake.t = "fail"
        /\ s.tasks[i].pc \notin NetAwaits \/ s.tasks[i].wake # NoWake
             => t.tasks[i].wake = s.tasks[i].wake
  BY <1>15 DEF TaskDropped
<1>4. /\ SameBusy(s, t) /\ SameStream(s, t) /\ t.cancel = s.cancel /\ t.state = s.state
      /\ t.active = s.active /\ t.mounted = s.mounted /\ t.shot = s.shot
  BY <1>1 DEF SameCard, SameShow
<1>5. /\ \A i \in Ids(s) : /\ Live(s, i) <=> Live(t, i)
                           /\ Bounded(s, i) <=> Bounded(t, i)
                           /\ Occupying(s.tasks[i]) <=> Occupying(t.tasks[i])
      /\ Working(s) => Working(t)
      /\ Cancelling(s) => Cancelling(t)
      /\ Shooting(s) => Shooting(t)
      /\ Reading(s) => Reading(t)
      /\ Occupied(s) => Occupied(t)
      /\ Capturing(t) => Capturing(s)
  <2>1. \A i \in Ids(s) : /\ Live(s, i) <=> Live(t, i)
                          /\ Bounded(s, i) <=> Bounded(t, i)
                          /\ Occupying(s.tasks[i]) <=> Occupying(t.tasks[i])
    BY <1>2 DEF Live, Bounded, Occupying
  <2> QED
    BY <1>1, <1>2, <2>1 DEF Working, Cancelling, Shooting, Reading, Occupied, Capturing
<1>6. Shapes(t)
  BY <1>1, <1>2 DEF LogicInv, Shapes, ShapeOf
<1>7. OneOccupies(t) /\ Streams(t)
  <2>1. OneOccupies(s) /\ Streams(s)
    BY DEF LogicInv
  <2> QED
    BY <1>1, <1>2, <1>4, <1>5, <2>1 DEF OneOccupies, Streams, SameBusy, SameStream
<1>8. Shown(t)
  <2>1. Shown(s)
    BY DEF LogicInv
  <2> QED
    BY <1>1, <1>2, <1>4, <1>5, <2>1 DEF Shown
<1>9. Linked(t)
  BY <1>1 DEF Linked
<1>10. Sessions(t)
  <2>1. Sessions(s) /\ Linked(s) /\ s.session \in Nat
    BY DEF LogicInv, LogicStates
  <2>2. s.session # 0 => s.session \in Ids(s)
    BY <2>1 DEF Linked
  <2>3. \A i \in Ids(s) : s.tasks[i].pc = "create" => t.tasks[i].wake = s.tasks[i].wake
    BY <1>3 DEF NetAwaits
  <2> QED
    BY <1>1, <1>2, <2>1, <2>2, <2>3 DEF Sessions
<1>11. Gone(t) /\ Generations(t)
  <2>1. Gone(s) /\ Generations(s)
    BY DEF LogicInv
  <2>2. ASSUME NEW i \in Ids(s), s.tasks[i].wake.t = "fail" PROVE t.tasks[i].wake.t = "fail"
    <3>1. CASE s.tasks[i].pc \in NetAwaits /\ s.tasks[i].wake = NoWake
      BY <1>3, <3>1
    <3>2. CASE ~(s.tasks[i].pc \in NetAwaits /\ s.tasks[i].wake = NoWake)
      BY <1>3, <2>2, <3>2
    <3> QED
      BY <3>1, <3>2
  <2> QED
    BY <1>1, <1>2, <1>4, <2>1, <2>2 DEF Gone, Generations
<1>12. Tended(t)
  <2>1. Tended(s)
    BY DEF LogicInv
  <2>2. \A i \in Ids(s) : s.tasks[i].pc = "read" => t.tasks[i].wake = s.tasks[i].wake
    BY <1>3 DEF NetAwaits
  <2> QED
    BY <1>1, <1>2, <1>4, <1>5, <2>1, <2>2 DEF Tended
<1>13. QuietRuns(t)
  <2>1. QuietRuns(s)
    BY DEF LogicInv
  <2>2. \A i \in Ids(s) : s.tasks[i].pc = "read" => t.tasks[i].wake = s.tasks[i].wake
    BY <1>3 DEF NetAwaits
  <2>3. ASSUME NEW i \in Ids(s), OwnRun(s, i) PROVE OwnRun(t, i)
    BY <1>1, <1>2, <1>5, <2>2, <2>3 DEF OwnRun
  <2> QED
    BY <1>1, <1>2, <1>5, <2>1, <2>3 DEF QuietRuns
<1>14. Cancelled(t)
  <2>1. Cancelled(s)
    BY DEF LogicInv
  <2> QED
    BY <1>1, <1>2, <1>4, <1>5, <2>1 DEF Cancelled
<1> QED
  BY <1>1, <1>6, <1>7, <1>8, <1>9, <1>10, <1>11, <1>12, <1>13, <1>14 DEF LogicInv

\* The scope is closed: nothing is connected, queued or read any more, and a task
\* that does not read is where it was.
LEMMA ClosedHolds ==
  ASSUME NEW s, LogicInv(s), NEW t, t = Closed(s)
  PROVE  /\ LogicInv(t) /\ SameCard(s, t) /\ Ids(t) = Ids(s)
         /\ t.ws = 0 /\ t.queue = <<>> /\ t.reader = 0 /\ t.gen = s.gen + 1
         /\ \A i \in Ids(s) : /\ SameTask(s.tasks[i], t.tasks[i])
                              /\ t.tasks[i].pc = s.tasks[i].pc
                              /\ t.tasks[i].next = s.tasks[i].next
                              /\ s.tasks[i].pc \in NetAwaits /\ s.tasks[i].wake = NoWake
                                   => t.tasks[i].wake.t = "fail"
<1>0. s \in LogicStates
  BY DEF LogicInv
<1>1. PICK d : d = Dropped(s)
  OBVIOUS
<1>2. /\ LogicInv(d) /\ d \in LogicStates /\ SameCard(s, d) /\ Ids(d) = Ids(s)
      /\ d.gen = s.gen /\ d.reader = s.reader /\ d.ws = 0 /\ d.session = 0
      /\ d.down = <<>> /\ d.phase = "none" /\ d.up = FALSE
  BY <1>0, <1>1, DroppedHolds, DroppedFacts
<1>3. \A i \in Ids(s) : /\ SameTask(s.tasks[i], d.tasks[i]) /\ d.tasks[i].pc = s.tasks[i].pc
                        /\ d.tasks[i].next = s.tasks[i].next
                        /\ s.tasks[i].pc \in NetAwaits /\ s.tasks[i].wake = NoWake
                             => d.tasks[i].wake.t = "fail"
  <2>1. \A i \in Ids(s) : TaskDropped(s.tasks[i], d.tasks[i])
    BY <1>0, <1>1, DroppedFacts
  <2> QED
    BY <2>1 DEF TaskDropped
<1>4. PICK e : e = [d EXCEPT !.gen = @ + 1, !.reader = 0, !.queue = <<>>]
  OBVIOUS
<1>5. /\ e \in LogicStates /\ e.tasks = d.tasks /\ SameCard(d, e) /\ e.gen = d.gen + 1
      /\ e.reader = 0 /\ e.queue = <<>> /\ e.ws = d.ws /\ e.session = d.session
      /\ e.up = d.up /\ SameWire(d, e) /\ SameSlots(d, e)
  <2>1. d.gen + 1 \in Nat /\ <<>> \in Seq(LogicFrames)
    BY <1>2 DEF LogicStates
  <2>2. PICK gen \in Nat : gen = d.gen + 1
    BY <2>1
  <2>3. e = [d EXCEPT !.gen = gen, !.reader = 0, !.queue = <<>>]
    BY <1>2, <1>4, <2>2 DEF LogicStates
  <2>4. e \in LogicStates
    BY <1>2, <2>1, <2>3 DEF LogicStates
  <2>5. /\ e.tasks = d.tasks /\ e.gen = gen
        /\ e.reader = 0 /\ e.queue = <<>> /\ e.ws = d.ws /\ e.session = d.session
        /\ e.up = d.up /\ SameWire(d, e) /\ SameSlots(d, e)
    BY <1>2, <2>3 DEF LogicStates, SameWire, SameSlots
  <2>6. SameCard(d, e)
    BY <1>2, <2>3 DEF LogicStates, SameCard, SameBusy, SameStream, SameShow
  <2> QED
    BY <2>2, <2>4, <2>5, <2>6
<1>6. LogicInv(e)
  <2>1. Generations(d) /\ d.gen \in Nat /\ Ids(e) = Ids(d)
        /\ \A i \in Ids(d) : d.tasks[i].gen \in Nat
    <3>1. Generations(d) /\ d.gen \in Nat /\ Ids(e) = Ids(d)
      BY <1>2, <1>5 DEF LogicInv, LogicStates, Ids
    <3>2. \A i \in Ids(d) : d.tasks[i] \in LogicTasks
      BY <1>2 DEF LogicStates, Ids
    <3> QED
      BY <3>1, <3>2 DEF LogicTasks
  <2>2. \A i \in Ids(d) : d.tasks[i].gen <= e.gen /\ d.tasks[i].gen # e.gen
    BY <1>5, <2>1 DEF Generations
  <2>3. Gone(e) /\ Generations(e)
    BY <1>2, <1>5, <2>1, <2>2 DEF LogicInv, Gone, Generations, SameCard, SameShow
  <2>4. Tended(e)
    <3>1. Tended(d) /\ (Working(d) => Working(e))
      BY <1>2, <1>5 DEF LogicInv, Working, Live, Ids
    <3> QED
      BY <1>2, <1>5, <3>1 DEF Tended, SameCard, SameShow
  <2>5. QuietRuns(e)
    <3>1. QuietRuns(d)
      BY <1>2 DEF LogicInv
    <3> QED
      BY <1>5, <3>1 DEF QuietRuns, OwnRun, Live, Ids, SameWire
  <2> QED
    BY <1>2, <1>5, <2>3, <2>4, <2>5, EditHolds DEF SameCard, SameShow
<1>7. t = IF s.reader # 0 THEN Wake(e, s.reader, "null") ELSE e
  BY <1>1, <1>4 DEF Closed
<1>8. CASE s.reader = 0
  BY <1>2, <1>3, <1>5, <1>6, <1>7, <1>8
     DEF SameCard, SameBusy, SameStream, SameShow, SameTask, Ids
<1>9. CASE s.reader # 0
  <2> DEFINE i == s.reader
  <2>1. i \in Ids(s) /\ s.tasks[i].pc = "read" /\ i \in Nat
    BY <1>9 DEF LogicInv, Tended, LogicStates
  <2> HIDE DEF i
  <2>2. t = Wake(e, i, "null")
    BY <1>7, <1>9 DEF i
  <2>3. i \in Ids(e) /\ e.tasks[i].pc = "read" /\ Live(e, i) /\ "null" \in WakeTypes
        /\ "read" \notin NetAwaits
    BY <1>2, <1>3, <1>5, <2>1 DEF Ids, Live, WakeTypes, NetAwaits
  <2>4. e.ws # i /\ e.reader # i /\ i # 0
    BY <1>2, <1>5, <1>9 DEF i
  <2>5. LogicInv(t)
    BY <1>6, <2>2, <2>3, <2>4, WakeHolds
  <2>6. /\ OnlyPuts(e, t, i) /\ SameTask(e.tasks[i], t.tasks[i])
        /\ t.tasks[i].pc = e.tasks[i].pc /\ t.tasks[i].next = e.tasks[i].next
    <3>1. e \in LogicStates /\ i \in Ids(e) /\ "null" \in WakeTypes /\ t = Wake(e, i, "null")
      BY <1>5, <2>2, <2>3
    <3> QED
      BY <3>1, WakeFacts
  <2>7. SameCard(s, t)
    BY <1>2, <1>5, <2>6 DEF OnlyPuts, SameCard, SameBusy, SameStream, SameShow
  <2>8. Ids(t) = Ids(s) /\ t.ws = 0 /\ t.queue = <<>> /\ t.reader = 0 /\ t.gen = s.gen + 1
    BY <1>2, <1>5, <2>6 DEF OnlyPuts, Puts, SameLink, SameNet, Ids
  <2>9. ASSUME NEW j \in Ids(s)
        PROVE  /\ SameTask(s.tasks[j], t.tasks[j]) /\ t.tasks[j].pc = s.tasks[j].pc
               /\ t.tasks[j].next = s.tasks[j].next
               /\ s.tasks[j].pc \in NetAwaits /\ s.tasks[j].wake = NoWake
                    => t.tasks[j].wake.t = "fail"
    <3>1. /\ SameTask(s.tasks[j], e.tasks[j]) /\ e.tasks[j].pc = s.tasks[j].pc
          /\ e.tasks[j].next = s.tasks[j].next /\ j \in Ids(e)
          /\ s.tasks[j].pc \in NetAwaits /\ s.tasks[j].wake = NoWake
               => e.tasks[j].wake.t = "fail"
      BY <1>2, <1>3, <1>5 DEF Ids
    <3>2. CASE j = i
      BY <2>1, <2>3, <2>6, <3>1, <3>2 DEF SameTask
    <3>3. CASE j # i
      BY <2>6, <3>1, <3>3 DEF OnlyPuts, Puts
    <3> QED
      BY <3>2, <3>3
  <2> QED
    BY <2>5, <2>7, <2>8, <2>9
<1> QED
  BY <1>8, <1>9
-----------------------------------------------------------------------------
(* A request goes out, or fails at once.                                    *)

Phases == {"none", "configured", "armed", "running"}
Requests == {"config", "begin", "halt"}
AnswerRecords == [phase : Phases, frames : Seq(LogicFrames)]

\* No answer brings samples, and only a START begins a run.
LEMMA AnswersFacts ==
  ASSUME NEW s \in LogicStates, NEW i \in Nat, NEW req \in Requests, NEW a \in Answers(s, i, req)
  PROVE  /\ a \in AnswerRecords
         /\ \A k \in DOMAIN a.frames : a.frames[k].t \notin {"data", "triggered"}
         /\ a.phase \in {"armed", "running"} => req = "begin" \/ a.phase = s.phase
<1> DEFINE ok == Reply("ok", i, req)
           err == Reply("err", i, req)
           Fits(b) == /\ b \in AnswerRecords
                      /\ \A k \in DOMAIN b.frames : b.frames[k].t \notin {"data", "triggered"}
           Says(phase, frames) == [phase |-> phase, frames |-> frames]
<1>1. /\ ok \in LogicFrames /\ err \in LogicFrames /\ ok.t = "ok" /\ err.t = "err"
      /\ s.phase \in Phases /\ s.run \in Nat
  BY DEF Reply, LogicFrames, WakeTypes, Requests, LogicStates, Phases
<1>2. \A t \in WakeTypes, op \in Nat : Frame(t, op) \in LogicFrames /\ Frame(t, op).t = t
  BY DEF Frame, LogicFrames
<1> HIDE DEF ok, err
<1>3. \A phase \in Phases, f \in LogicFrames :
        f.t \notin {"data", "triggered"} => Fits(Says(phase, <<f>>)) /\ Says(phase, <<f>>).phase = phase
  BY DEF AnswerRecords
<1>4. \A phase \in Phases, f \in LogicFrames, g \in LogicFrames :
        f.t \notin {"data", "triggered"} /\ g.t \notin {"data", "triggered"} =>
          Fits(Says(phase, <<f, g>>)) /\ Says(phase, <<f, g>>).phase = phase
  BY DEF AnswerRecords
<1>5. CASE req = "config"
  <2>1. a \in {Says(s.phase, <<err>>), Says("configured", <<ok>>)}
    BY <1>5 DEF Answers, ok, err
  <2> HIDE DEF Says, Fits
  <2>2. Fits(a) /\ (a.phase = s.phase \/ a.phase = "configured")
    BY <1>1, <1>3, <2>1 DEF Phases
  <2> QED
    BY <2>2 DEF Fits
<1>6. CASE req = "begin"
  <2>1. a \in {Says(s.phase, <<err>>), Says("running", <<ok, Frame("running", i)>>),
               Says("armed", <<ok, Frame("armed", i)>>)}
    BY <1>6 DEF Answers, ok, err
  <2>2. /\ Frame("running", i) \in LogicFrames /\ Frame("running", i).t = "running"
        /\ Frame("armed", i) \in LogicFrames /\ Frame("armed", i).t = "armed"
    BY <1>2 DEF WakeTypes
  <2> HIDE DEF Says, Fits
  <2>3. Fits(a)
    BY <1>1, <1>3, <1>4, <2>1, <2>2 DEF Phases
  <2> QED
    BY <1>6, <2>3 DEF Fits
<1>7. CASE req = "halt"
  <2>1. a \in {Says(s.phase, <<err>>), Says("configured", <<ok>>),
               Says("configured", <<ok, Frame("stopped", s.run)>>)}
    BY <1>7 DEF Answers, ok, err
  <2>2. Frame("stopped", s.run) \in LogicFrames /\ Frame("stopped", s.run).t = "stopped"
    BY <1>1, <1>2 DEF WakeTypes
  <2> HIDE DEF Says, Fits
  <2>3. Fits(a) /\ (a.phase = s.phase \/ a.phase = "configured")
    BY <1>1, <1>3, <1>4, <2>1, <2>2 DEF Phases
  <2> QED
    BY <2>3 DEF Fits
<1> QED
  BY <1>5, <1>6, <1>7 DEF Requests

\* Frames that carry nothing of another run, and an end that carries no samples.
LEMMA JoinedCarry ==
  ASSUME NEW q \in Seq(LogicFrames), NEW r \in Seq(LogicFrames), NEW i,
         \A k \in DOMAIN q : Carries(q[k], i), \A k \in DOMAIN r : Carries(r[k], i)
  PROVE  q \o r \in Seq(LogicFrames) /\ \A k \in DOMAIN (q \o r) : Carries((q \o r)[k], i)
<1>1. q \o r \in Seq(LogicFrames) /\ DOMAIN (q \o r) = 1..(Len(q) + Len(r))
  OBVIOUS
<1>2. ASSUME NEW k \in DOMAIN (q \o r) PROVE Carries((q \o r)[k], i)
  <2>1. CASE k <= Len(q)
    <3>1. (q \o r)[k] = q[k] /\ k \in DOMAIN q
      BY <1>1, <1>2, <2>1
    <3> QED
      BY <3>1
  <2>2. CASE k > Len(q)
    <3>1. (q \o r)[k] = r[k - Len(q)] /\ k - Len(q) \in DOMAIN r
      BY <1>1, <1>2, <2>2
    <3> QED
      BY <3>1
  <2> QED
    BY <1>1, <1>2, <2>1, <2>2
<1> QED
  BY <1>1, <1>2

\* What is on its way behind a request.
Answered(s, t, i, req) ==
  /\ \A x \in Nat : (\A k \in DOMAIN s.down : Carries(s.down[k], x))
                      => \A k \in DOMAIN t.down : Carries(t.down[k], x)
  /\ t.phase \in {"armed", "running"} =>
       (req = "begin" /\ t.run = i) \/ (s.phase = t.phase /\ t.run = s.run)

\* What a request changes.
LEMMA RequestFacts ==
  ASSUME NEW s \in LogicStates, NEW i \in Ids(s), NEW req \in Requests,
         NEW t \in Requested(s, i, req)
  PROVE  /\ t \in LogicStates /\ Puts(s, t, i) /\ SameNet(s, t) /\ SameSlots(s, t)
         /\ SameCard(s, t) /\ SameTask(s.tasks[i], t.tasks[i])
         /\ t.tasks[i].pc = req /\ t.tasks[i].next = s.tasks[i].next
         /\ IF s.up THEN t.tasks[i].wake = NoWake /\ Answered(s, t, i, req)
            ELSE t.tasks[i].wake.t = "fail" /\ SameWire(s, t)
<1>1. i \in Nat /\ i \in DOMAIN s.tasks /\ s.tasks[i] \in LogicTasks /\ s.up \in BOOLEAN
  BY DEF Ids, LogicStates
<1>2. req \in StartPcs \cup LoopPcs \cup HaltPcs \cup {"over"}
  BY DEF Requests, StartPcs, HaltPcs
<1>3. CASE s.up = FALSE
  <2> DEFINE x == [s.tasks[i] EXCEPT !.pc = req]
  <2>1. PICK u : u = Put(s, i, x)
    OBVIOUS
  <2>2. t = Wake(u, i, "fail")
    BY <1>1, <1>3, <2>1 DEF Requested, Put, LogicStates, LogicTasks
  <2>3. /\ x \in LogicTasks /\ SameTask(s.tasks[i], x) /\ x.pc = req /\ x.next = s.tasks[i].next
    BY <1>1, <1>2 DEF LogicTasks, SameTask
  <2> HIDE DEF x
  <2>4. OnlyPuts(s, u, i) /\ u.tasks[i] = x
    BY <2>1, <2>3, PutFacts
  <2>5. u \in LogicStates /\ i \in Ids(u) /\ "fail" \in WakeTypes
    BY <2>4 DEF OnlyPuts, Puts, WakeTypes
  <2>6. /\ OnlyPuts(u, t, i) /\ SameTask(u.tasks[i], t.tasks[i])
        /\ t.tasks[i].pc = u.tasks[i].pc /\ t.tasks[i].next = u.tasks[i].next
        /\ t.tasks[i].wake.t = "fail"
    BY <2>2, <2>5, WakeFacts
  <2>7. t \in LogicStates /\ Puts(s, t, i)
    BY <2>4, <2>6 DEF OnlyPuts, Puts
  <2>8. SameNet(s, t) /\ SameSlots(s, t) /\ SameWire(s, t)
    BY <2>4, <2>6 DEF OnlyPuts, SameLink, SameNet, SameSlots, SameWire
  <2>9. SameCard(s, t)
    BY <2>4, <2>6 DEF OnlyPuts, SameCard, SameBusy, SameStream, SameShow
  <2>10. SameTask(s.tasks[i], t.tasks[i])
    BY <2>3, <2>4, <2>6 DEF SameTask
  <2> QED
    BY <1>3, <2>3, <2>4, <2>6, <2>7, <2>8, <2>9, <2>10
<1>4. CASE s.up = TRUE
  <2>1. PICK a \in Answers(s, i, req) :
          t = [At(s, i, req) EXCEPT !.phase = a.phase, !.down = @ \o a.frames,
                 !.run = IF req = "begin" /\ a.phase # s.phase THEN i ELSE @]
    BY <1>4 DEF Requested
  <2>2. /\ a \in AnswerRecords
        /\ \A k \in DOMAIN a.frames : a.frames[k].t \notin {"data", "triggered"}
        /\ a.phase \in {"armed", "running"} => req = "begin" \/ a.phase = s.phase
    BY <1>1, AnswersFacts
  <2>3. PICK u : u = At(s, i, req)
    OBVIOUS
  <2>4. /\ OnlyPuts(s, u, i) /\ SameTask(s.tasks[i], u.tasks[i])
        /\ u.tasks[i].pc = req /\ u.tasks[i].next = s.tasks[i].next /\ u.tasks[i].wake = NoWake
    BY <1>2, <2>3, AtFacts
  <2>5. /\ u \in LogicStates /\ Puts(s, u, i) /\ SameCard(s, u) /\ SameNet(s, u)
        /\ SameSlots(s, u) /\ u.down = s.down /\ u.run = s.run
    BY <2>4 DEF OnlyPuts, SameLink, SameWire
  <2> DEFINE down == s.down \o a.frames
             run == IF req = "begin" /\ a.phase # s.phase THEN i ELSE s.run
  <2>6. s.down \in Seq(LogicFrames) /\ a.frames \in Seq(LogicFrames) /\ a.phase \in Phases
    BY <2>2 DEF LogicStates, AnswerRecords
  <2>7. down \in Seq(LogicFrames) /\ run \in Nat
    BY <1>1, <2>6 DEF LogicStates
  <2>8. t = [u EXCEPT !.phase = a.phase, !.down = down, !.run = run]
    BY <2>1, <2>3, <2>5 DEF LogicStates
  <2>9. ASSUME NEW x \in Nat, \A k \in DOMAIN s.down : Carries(s.down[k], x)
        PROVE  \A k \in DOMAIN down : Carries(down[k], x)
    <3>1. \A k \in DOMAIN a.frames : Carries(a.frames[k], x)
      BY <2>2 DEF Carries
    <3> QED
      BY <2>6, <2>9, <3>1, JoinedCarry
  <2> HIDE DEF down, run
  <2>10. /\ t \in LogicStates /\ t.tasks = u.tasks /\ t.phase = a.phase /\ t.down = down
         /\ t.run = run
    BY <2>5, <2>6, <2>7, <2>8 DEF LogicStates, Phases
  <2>11. SameCard(u, t) /\ SameNet(u, t) /\ SameSlots(u, t)
    BY <2>5, <2>8 DEF LogicStates, SameCard, SameBusy, SameStream, SameShow, SameNet, SameSlots
  <2>12. SameCard(s, t) /\ SameNet(s, t) /\ SameSlots(s, t)
    BY <2>5, <2>11 DEF SameCard, SameBusy, SameStream, SameShow, SameNet, SameSlots
  <2>13. Puts(s, t, i)
    BY <2>5, <2>10 DEF Puts, Ids
  <2>14. Answered(s, t, i, req)
    BY <2>2, <2>9, <2>10 DEF Answered, run
  <2> QED
    BY <1>4, <2>4, <2>10, <2>12, <2>13, <2>14
<1> QED
  BY <1>1, <1>3, <1>4
\* A task i of s has asked req in t, and goes on with next behind it.
Asked(s, t, i, req, next) ==
  /\ t \in LogicStates /\ Puts(s, t, i) /\ SameNet(s, t) /\ SameSlots(s, t)
  /\ SameCard(s, t) /\ SameTask(s.tasks[i], t.tasks[i])
  /\ t.tasks[i].pc = req /\ t.tasks[i].next = next
  /\ IF s.up THEN t.tasks[i].wake = NoWake /\ Answered(s, t, i, req)
     ELSE t.tasks[i].wake.t = "fail" /\ SameWire(s, t)

Nexts == {"none", "finish", "complete", "unstreamed", "streamed", "cancelled", "stopped"}

\* What stopAndCloseSigrok changes at once.
LEMMA HaltFacts ==
  ASSUME NEW s \in LogicStates, NEW i \in Ids(s), NEW next \in Nexts, NEW t \in Halt(s, i, next)
  PROVE  Asked(s, t, i, "halt", next)
<1> DEFINE x == [s.tasks[i] EXCEPT !.next = next]
<1>1. i \in DOMAIN s.tasks /\ s.tasks[i] \in LogicTasks
  BY DEF Ids, LogicStates
<1>2. PICK u : u = Put(s, i, x)
  OBVIOUS
<1>3. t \in Requested(u, i, "halt")
  BY <1>1, <1>2 DEF Halt, Put, LogicStates, LogicTasks
<1>4. x \in LogicTasks /\ SameTask(s.tasks[i], x) /\ x.next = next
  BY <1>1 DEF LogicTasks, SameTask, Nexts
<1> HIDE DEF x
<1>5. OnlyPuts(s, u, i) /\ u.tasks[i] = x
  BY <1>2, <1>4, PutFacts
<1>6. u \in LogicStates /\ i \in Ids(u) /\ "halt" \in Requests
  BY <1>5 DEF OnlyPuts, Puts, Requests
<1>7. /\ t \in LogicStates /\ Puts(u, t, i) /\ SameNet(u, t) /\ SameSlots(u, t)
      /\ SameCard(u, t) /\ SameTask(u.tasks[i], t.tasks[i])
      /\ t.tasks[i].pc = "halt" /\ t.tasks[i].next = u.tasks[i].next
      /\ IF u.up THEN t.tasks[i].wake = NoWake /\ Answered(u, t, i, "halt")
         ELSE t.tasks[i].wake.t = "fail" /\ SameWire(u, t)
  BY <1>3, <1>6, RequestFacts
<1>8. Puts(s, t, i)
  BY <1>5, <1>7 DEF OnlyPuts, Puts
<1>9. SameNet(s, u) /\ SameSlots(s, u) /\ SameWire(s, u) /\ SameCard(s, u)
  BY <1>5 DEF OnlyPuts, SameLink
<1>10. SameNet(s, t) /\ SameSlots(s, t)
  BY <1>7, <1>9 DEF SameNet, SameSlots
<1>11. SameCard(s, t)
  BY <1>7, <1>9 DEF SameCard, SameBusy, SameStream, SameShow
<1>12. SameTask(s.tasks[i], t.tasks[i]) /\ t.tasks[i].next = next
  BY <1>4, <1>5, <1>7 DEF SameTask
<1>13. IF s.up THEN t.tasks[i].wake = NoWake /\ Answered(s, t, i, "halt")
       ELSE t.tasks[i].wake.t = "fail" /\ SameWire(s, t)
  BY <1>7, <1>9 DEF Answered, SameNet, SameWire
<1> QED
  BY <1>7, <1>8, <1>10, <1>11, <1>12, <1>13 DEF Asked

\* A request that keeps what follows it.
LEMMA AskFacts ==
  ASSUME NEW s \in LogicStates, NEW i \in Ids(s), NEW req \in Requests,
         NEW t \in Requested(s, i, req)
  PROVE  Asked(s, t, i, req, s.tasks[i].next)
  BY RequestFacts DEF Asked

\* What may be asked by which task, and what follows: a capture stops when it is
\* full, or when what it showed is taken back; a stream when it no longer streams.
MayAsk(s, i, req, next) ==
  LET task == s.tasks[i]
  IN \/ /\ req \in {"config", "begin"} /\ next = "none"
        /\ task.kind \in {"bounded", "stream"} /\ task.pc \in StartPcs
     \/ /\ req = "halt" /\ task.kind = "bounded" /\ next \in {"finish", "complete"}
        /\ next = "finish" => s.cancel = TRUE \/ s.state \in {"idle", "done"}
     \/ /\ req = "halt" /\ task.kind = "stream" /\ next = "unstreamed" /\ task.pc \in StartPcs
     \/ /\ req = "halt" /\ task.kind = "stream" /\ next = "streamed" /\ task.pc \in LoopPcs
        /\ s.streaming = FALSE
     \/ req = "halt" /\ task.kind = "cancel" /\ next = "cancelled"
     \/ req = "halt" /\ task.kind = "stop" /\ next = "stopped"

\* Asking keeps the invariant, when the task may ask for it.
LEMMA AskHolds ==
  ASSUME NEW s, LogicInv(s), NEW i \in Ids(s), NEW req \in Requests, NEW next, NEW t,
         Live(s, i), s.ws = i => s.up = TRUE, s.reader # i,
         ~(s.tasks[i].pc = "create" /\ s.tasks[i].wake.t = "ok"),
         MayAsk(s, i, req, next), Asked(s, t, i, req, next)
  PROVE  LogicInv(t)
<1>0. s \in LogicStates /\ i \in Nat /\ s.up \in BOOLEAN /\ s.tasks[i] \in LogicTasks
  BY DEF LogicInv, LogicStates, Ids
<1>1. /\ t \in LogicStates /\ Puts(s, t, i) /\ SameNet(s, t) /\ SameSlots(s, t)
      /\ SameCard(s, t) /\ SameTask(s.tasks[i], t.tasks[i])
      /\ t.tasks[i].pc = req /\ t.tasks[i].next = next
      /\ IF s.up THEN t.tasks[i].wake = NoWake /\ Answered(s, t, i, req)
         ELSE t.tasks[i].wake.t = "fail" /\ SameWire(s, t)
  BY DEF Asked
<1>2. /\ t.tasks[i].kind = s.tasks[i].kind
      /\ req \in {"config", "begin", "halt"}
  BY <1>1 DEF SameTask, Requests
<1>3. ShapeOf(s.tasks[i])
  BY DEF LogicInv, Shapes
<1>4. ShapeOf(t.tasks[i])
  BY <1>1, <1>2 DEF ShapeOf, MayAsk, HaltPcs
<1>5. Live(t, i) /\ t.tasks[i].pc # "create" /\ t.tasks[i].pc # "read"
  BY <1>1, <1>2 DEF Live
<1>6. Occupying(s.tasks[i]) <=> Occupying(t.tasks[i])
  BY <1>1, <1>2, <1>3, <1>5 DEF Occupying, MayAsk, StartPcs, LoopPcs, HaltPcs, ShapeOf, Live
<1>7. /\ t.tasks[i].pc \in StartPcs => s.tasks[i].pc \in StartPcs
      /\ s.tasks[i].kind = "stream" /\ s.tasks[i].pc \in LoopPcs
           => t.tasks[i].pc \in LoopPcs \/ s.streaming = FALSE
      /\ s.tasks[i].kind = "bounded" /\ t.tasks[i].next = "finish"
           => s.cancel = TRUE \/ s.state \in {"idle", "done"}
  BY <1>1, <1>2 DEF MayAsk, StartPcs, LoopPcs
<1>8. i \in s.slots => i \in s.deleting \/ i = s.session
  BY DEF LogicInv, Sessions
<1>9. s.mounted = FALSE => t.tasks[i].wake.t = "fail"
  <2>1. s.mounted = FALSE => s.up = FALSE
    BY <1>0 DEF LogicInv, Gone, Linked
  <2> QED
    BY <1>1, <2>1
<1>10. SameWire(s, t) \/ WireFits(s, t)
  <2>1. CASE s.up = FALSE
    BY <1>1, <2>1
  <2>2. CASE s.up = TRUE
    <3>1. t.ws # 0
      BY <1>1, <2>2 DEF LogicInv, Linked, SameNet
    <3>2. ASSUME NEW j \in Ids(s), s.tasks[j].kind = "bounded", s.tasks[j].quiet = TRUE, Live(s, j)
          PROVE  /\ \A k \in DOMAIN t.down : Carries(t.down[k], j)
                 /\ t.phase \in {"armed", "running"} => t.run = j
      <4>1. OwnRun(s, j) /\ j \in Nat
        BY <1>0, <3>2 DEF LogicInv, QuietRuns, LogicStates, Ids
      <4>2. Answered(s, t, i, req)
        BY <1>1, <2>2
      <4>3. \A k \in DOMAIN t.down : Carries(t.down[k], j)
        BY <4>1, <4>2 DEF OwnRun, Answered
      <4>4. req = "begin" => i = j
        BY <4>1 DEF OwnRun, MayAsk
      <4>5. t.phase \in {"armed", "running"} => t.run = j
        BY <4>1, <4>2, <4>4 DEF OwnRun, Answered
      <4> QED
        BY <4>3, <4>5
    <3> QED
      BY <3>1, <3>2 DEF WireFits
  <2> QED
    BY <1>0, <2>1, <2>2
<1> HIDE DEF MayAsk, Asked
<1> QED
  BY <1>1, <1>4, <1>5, <1>6, <1>7, <1>8, <1>9, <1>10, MoveHolds

\* sendRequest keeps the invariant.
LEMMA RequestHolds ==
  ASSUME NEW s, LogicInv(s), NEW i \in Ids(s), NEW req \in Requests, NEW t \in Requested(s, i, req),
         Live(s, i), s.ws = i => s.up = TRUE, s.reader # i,
         ~(s.tasks[i].pc = "create" /\ s.tasks[i].wake.t = "ok"),
         MayAsk(s, i, req, s.tasks[i].next)
  PROVE  LogicInv(t)
<1>1. s \in LogicStates
  BY DEF LogicInv
<1> QED
  BY <1>1, AskFacts, AskHolds

\* stopAndCloseSigrok keeps it up to the answer.
LEMMA HaltHolds ==
  ASSUME NEW s, LogicInv(s), NEW i \in Ids(s), NEW next \in Nexts, NEW t \in Halt(s, i, next),
         Live(s, i), s.ws = i => s.up = TRUE, s.reader # i,
         ~(s.tasks[i].pc = "create" /\ s.tasks[i].wake.t = "ok"),
         MayAsk(s, i, "halt", next)
  PROVE  LogicInv(t)
<1>1. s \in LogicStates /\ "halt" \in Requests
  BY DEF LogicInv, Requests
<1>2. Asked(s, t, i, "halt", next)
  BY <1>1, HaltFacts
<1> QED
  BY <1>1, <1>2, AskHolds

\* The catch of handleArm takes back what is shown, and stops.
LEMMA GivesUpHolds ==
  ASSUME NEW s, LogicInv(s), NEW i \in Ids(s), Bounded(s, i), s.ws = i => s.up = TRUE,
         s.reader # i, ~(s.tasks[i].pc = "create" /\ s.tasks[i].wake.t = "ok"),
         NEW t \in Halt([s EXCEPT !.state = "idle"], i, "finish")
  PROVE  LogicInv(t)
<1>1. s \in LogicStates
  BY DEF LogicInv
<1>2. PICK u : u = [s EXCEPT !.state = "idle"]
  OBVIOUS
<1>3. /\ u \in LogicStates /\ u.tasks = s.tasks /\ u.state = "idle" /\ SameNet(s, u)
      /\ SameSlots(s, u) /\ SameWire(s, u)
  BY <1>1, <1>2 DEF LogicStates, SameNet, SameSlots, SameWire
<1>4. /\ SameBusy(s, u) /\ SameStream(s, u) /\ u.cancel = s.cancel
      /\ u.active = s.active /\ u.mounted = s.mounted /\ u.shot = s.shot
  BY <1>1, <1>2 DEF LogicStates, SameBusy, SameStream
<1>5. Shown(u)
  <2>1. Shown(s)
    BY DEF LogicInv
  <2> QED
    BY <1>3, <1>4, <2>1 DEF Shown, Ids
<1>6. LogicInv(u)
  BY <1>3, <1>4, <1>5, EditHolds DEF SameNet
<1>7. /\ i \in Ids(u) /\ Live(u, i) /\ u.tasks[i] = s.tasks[i] /\ (u.ws = i => u.up = TRUE)
      /\ u.reader # i
  BY <1>3 DEF Ids, Bounded, Live, SameNet
<1>8. MayAsk(u, i, "halt", "finish") /\ "finish" \in Nexts
  BY <1>3, <1>7 DEF MayAsk, Nexts, Bounded
<1> QED
  BY <1>2, <1>6, <1>7, <1>8, HaltHolds

\* A woken task that fails (handleArm's catch, and that of the stream).
LEMMA FailsHolds ==
  ASSUME LogicInv(la), NEW i \in Ids(la), Task(i).wake # NoWake, Live(la, i),
         ~(Task(i).pc = "create" /\ Task(i).wake.t = "ok"),
         Task(i).kind = "bounded" \/ (Task(i).kind = "stream" /\ Task(i).pc \in StartPcs),
         NEW t \in Fails(la, i)
  PROVE  LogicInv(t)
<1>1. la \in LogicStates /\ (la.ws = i => la.up = TRUE) /\ la.reader # i
  <2>1. la \in LogicStates /\ Linked(la) /\ Tended(la) /\ la.reader \in Nat /\ i # 0
    BY DEF LogicInv, LogicStates, Ids
  <2>2. la.up \in BOOLEAN
    BY <2>1 DEF LogicStates
  <2> QED
    BY <2>1, <2>2 DEF Linked, Tended, Task
<1>2. CASE Task(i).kind = "bounded"
  <2>1. t \in Halt([la EXCEPT !.state = "idle"], i, "finish")
    BY <1>2 DEF Fails
  <2> QED
    BY <1>1, <1>2, <2>1, GivesUpHolds DEF Bounded, Task
<1>3. CASE Task(i).kind = "stream" /\ Task(i).pc \in StartPcs
  <2>1. t \in Halt(la, i, "unstreamed")
    BY <1>3 DEF Fails
  <2>2. MayAsk(la, i, "halt", "unstreamed") /\ "unstreamed" \in Nexts
    BY <1>3 DEF MayAsk, Nexts, Task
  <2> QED
    BY <1>1, <2>1, <2>2, HaltHolds DEF Task
<1> QED
  BY <1>2, <1>3
-----------------------------------------------------------------------------
(* A task is over.                                                          *)

\* Nothing of the connection changes, and the card as the parts say that are about
\* it.
LEMMA EndHolds ==
  ASSUME NEW s, LogicInv(s), NEW i \in Ids(s), Live(s, i), NEW t, t \in LogicStates,
         s.tasks[i].pc \in LoopPcs \cup HaltPcs, s.reader # i,
         Puts(s, t, i), SameNet(s, t), SameSlots(s, t), SameWire(s, t),
         SameTask(s.tasks[i], t.tasks[i]), t.tasks[i].pc = "over", t.tasks[i].next = "none",
         t.mounted = s.mounted, t.active = FALSE,
         OneOccupies(t), Streams(t), Shown(t), Cancelled(t),
         t.ws # 0 \/ t.queue # <<>> => Working(t),
         (t.ws # 0 \/ t.queue # <<>>) /\ t.cancel = TRUE /\ Capturing(t) => Cancelling(t)
  PROVE  LogicInv(t)
<1>0. Puts(s, t, i) /\ SameTask(s.tasks[i], t.tasks[i])
  OBVIOUS
<1>1. Shapes(t)
  <2>1. ShapeOf(t.tasks[i])
    BY DEF ShapeOf, HaltPcs
  <2> QED
    BY <1>0, <2>1 DEF LogicInv, Shapes, Puts
<1>2. s.tasks[i].pc \notin {"create", "open"} /\ t.tasks[i].pc \notin {"create", "read"} \cup NetAwaits
  BY DEF LoopPcs, HaltPcs, NetAwaits
<1>3. Linked(t)
  <2>1. Linked(s)
    BY DEF LogicInv
  <2> QED
    BY <1>0, <1>2, <2>1 DEF Linked, SameNet, SameWire, Puts
<1>4. Sessions(t)
  <2>1. Sessions(s)
    BY DEF LogicInv
  <2>2. t.slots \subseteq Ids(t) /\ t.deleting \subseteq Ids(t)
    BY <1>0, <2>1 DEF Sessions, SameSlots, Puts
  <2>3. ASSUME NEW j \in t.slots
        PROVE  \/ j \in t.deleting \/ j = t.session
               \/ t.tasks[j].pc = "create" /\ t.tasks[j].wake.t = "ok"
    <3>1. j \in s.slots /\ j \in Ids(s)
      BY <2>1, <2>3 DEF Sessions, SameSlots
    <3>2. \/ j \in s.deleting \/ j = s.session
          \/ s.tasks[j].pc = "create" /\ s.tasks[j].wake.t = "ok"
      BY <2>1, <3>1 DEF Sessions
    <3> QED
      BY <1>0, <1>2, <3>1, <3>2 DEF SameSlots, SameNet, Puts
  <2> QED
    BY <2>2, <2>3 DEF Sessions
<1>5. Gone(t) /\ Generations(t)
  <2>1. Gone(s) /\ Generations(s)
    BY DEF LogicInv
  <2> QED
    BY <1>0, <1>2, <2>1 DEF Gone, Generations, SameNet, Puts, SameTask
<1>6. Tended(t)
  <2>1. t.reader # 0 => t.reader \in Ids(t) /\ t.tasks[t.reader].pc = "read"
                        /\ t.tasks[t.reader].wake = NoWake
    BY <1>0 DEF LogicInv, Tended, SameNet, Puts
  <2> QED
    BY <2>1 DEF Tended
<1>7. QuietRuns(t)
  <2>1. QuietRuns(s)
    BY DEF LogicInv
  <2>2. \A j \in Ids(s) : /\ t.tasks[j].kind = s.tasks[j].kind /\ t.tasks[j].own = s.tasks[j].own
                          /\ t.tasks[j].quiet = s.tasks[j].quiet /\ (Live(t, j) => Live(s, j))
    BY <1>0 DEF Puts, SameTask, Live
  <2>3. ASSUME NEW j \in Ids(s), OwnRun(s, j) PROVE OwnRun(t, j)
    <3>1. \A k \in Ids(t) : Live(t, k) => k = j \/ t.tasks[k].kind = "cancel"
      BY <1>0, <2>2, <2>3 DEF OwnRun, Puts
    <3>2. t.tasks[j].pc = "read" => Carries(t.tasks[j].wake, j)
      BY <1>0, <1>2, <2>3 DEF OwnRun, Puts
    <3> QED
      BY <2>3, <3>1, <3>2 DEF OwnRun, SameNet, SameWire
  <2>4. Ids(t) = Ids(s)
    BY <1>0 DEF Puts
  <2> QED
    BY <2>1, <2>2, <2>3, <2>4 DEF QuietRuns
<1> QED
  BY <1>1, <1>3, <1>4, <1>5, <1>6, <1>7 DEF LogicInv

\* The card was edited to u, and the task is over in t.
LEMMA OverEditFacts ==
  ASSUME NEW s \in LogicStates, NEW i \in Ids(s), NEW u \in LogicStates,
         u.tasks = s.tasks, SameLink(s, u), NEW t, t = Over(u, i)
  PROVE  /\ t \in LogicStates /\ Puts(s, t, i)
         /\ SameNet(s, t) /\ SameSlots(s, t) /\ SameWire(s, t) /\ SameCard(u, t)
         /\ SameTask(s.tasks[i], t.tasks[i])
         /\ t.tasks[i].pc = "over" /\ t.tasks[i].next = "none"
         /\ \A j \in Ids(s) : Occupying(t.tasks[j]) <=> j # i /\ Occupying(s.tasks[j])
         /\ \A j \in Ids(s) : Bounded(t, j) <=> j # i /\ Bounded(s, j)
         /\ s.tasks[i].kind # "cancel" /\ Cancelling(s) => Cancelling(t)
         /\ s.tasks[i].kind # "bounded" /\ Shooting(s) => Shooting(t)
         /\ (s.tasks[i].kind # "stream" \/ s.tasks[i].pc \notin LoopPcs)
              /\ Reading(s) => Reading(t)
<1>1. i \in Ids(u)
  BY DEF Ids
<1>2. /\ OnlyPuts(u, t, i) /\ SameTask(u.tasks[i], t.tasks[i])
      /\ t.tasks[i].pc = "over" /\ t.tasks[i].next = "none"
  BY <1>1, OverFacts
<1>3. t \in LogicStates /\ Puts(s, t, i) /\ SameCard(u, t) /\ SameTask(s.tasks[i], t.tasks[i])
  BY <1>2 DEF OnlyPuts, Puts, Ids
<1>4. SameNet(s, t) /\ SameSlots(s, t) /\ SameWire(s, t)
  BY <1>2 DEF OnlyPuts, SameLink, SameNet, SameSlots, SameWire
<1>5. /\ \A j \in Ids(s) : Occupying(t.tasks[j]) <=> j # i /\ Occupying(s.tasks[j])
      /\ \A j \in Ids(s) : Bounded(t, j) <=> j # i /\ Bounded(s, j)
  BY <1>2, <1>3 DEF Occupying, Bounded, Live, Puts, StartPcs
<1>6. /\ s.tasks[i].kind # "cancel" /\ Cancelling(s) => Cancelling(t)
      /\ s.tasks[i].kind # "bounded" /\ Shooting(s) => Shooting(t)
      /\ (s.tasks[i].kind # "stream" \/ s.tasks[i].pc \notin LoopPcs) /\ Reading(s) => Reading(t)
  BY <1>3, StayOnes DEF Bounded
<1> QED
  BY <1>2, <1>3, <1>4, <1>5, <1>6

\* The finally of handleArm: nothing is shown of the capture that is over but its
\* result.
LEMMA FinishedHolds ==
  ASSUME NEW s, LogicInv(s), NEW i \in Ids(s), Bounded(s, i),
         s.tasks[i].pc \in LoopPcs \cup HaltPcs, s.reader # i,
         NEW v, v \in LogicStates, v.tasks = s.tasks, SameLink(s, v), SameBusy(s, v),
         SameStream(s, v), v.cancel = s.cancel, v.mounted = s.mounted,
         \/ v.state = "done"
         \/ v.state = s.state /\ (s.cancel = TRUE \/ s.tasks[i].next = "finish"),
         \/ v.shot = s.shot
         \/ /\ v.shot.cancelled = FALSE
            /\ v.shot.op # 0 /\ v.shot.quiet = TRUE =>
                 v.shot.own = TRUE /\ v.shot.triggered = TRUE /\ v.shot.count >= Target,
         s.cancel = TRUE \/ (s.ws = 0 /\ s.queue = <<>>),
         NEW t, t = Finished(v, i)
  PROVE  LogicInv(t)
<1>0. s \in LogicStates
  BY DEF LogicInv
<1>1. s.busy = "bounded" /\ s.arming = TRUE /\ s.starting = FALSE
      /\ \A j \in Ids(s) : Occupying(s.tasks[j]) => j = i
  BY <1>0 DEF LogicInv, OneOccupies, Occupying, Bounded, Live, LogicStates
<1>2. PICK u : u = [v EXCEPT !.busy = IF @ = "bounded" THEN "none" ELSE @, !.cancel = FALSE,
                             !.arming = FALSE, !.active = FALSE]
  OBVIOUS
<1>3. t = Over(u, i)
  BY <1>2 DEF Finished
<1>4. v.busy = "bounded"
  BY <1>1 DEF SameBusy
<1>5. /\ u \in LogicStates /\ u.tasks = s.tasks /\ u.busy = "none" /\ u.cancel = FALSE
      /\ u.arming = FALSE /\ u.active = FALSE /\ u.state = v.state /\ u.shot = v.shot
      /\ u.mounted = v.mounted /\ u.starting = v.starting /\ SameStream(v, u)
  BY <1>2, <1>4 DEF LogicStates, SameStream
<1>6. SameLink(v, u)
  BY <1>2 DEF LogicStates, SameLink, SameNet, SameSlots, SameWire
<1>7. SameLink(s, u)
  BY <1>6 DEF SameLink, SameNet, SameSlots, SameWire
<1>8. /\ t \in LogicStates /\ Puts(s, t, i)
      /\ SameNet(s, t) /\ SameSlots(s, t) /\ SameWire(s, t) /\ SameCard(u, t)
      /\ SameTask(s.tasks[i], t.tasks[i])
      /\ t.tasks[i].pc = "over" /\ t.tasks[i].next = "none"
      /\ \A j \in Ids(s) : Occupying(t.tasks[j]) <=> j # i /\ Occupying(s.tasks[j])
      /\ \A j \in Ids(s) : Bounded(t, j) <=> j # i /\ Bounded(s, j)
      /\ Cancelling(s) => Cancelling(t)
      /\ Reading(s) => Reading(t)
  BY <1>0, <1>3, <1>5, <1>7, OverEditFacts DEF Bounded
<1>9. /\ t.busy = "none" /\ t.cancel = FALSE /\ t.arming = FALSE /\ t.active = FALSE
      /\ t.state = v.state /\ t.shot = v.shot /\ t.mounted = s.mounted /\ t.starting = FALSE
      /\ t.stream = s.stream /\ t.streaming = s.streaming
  BY <1>1, <1>5, <1>8 DEF SameCard, SameBusy, SameStream, SameShow
<1>10. Ids(t) = Ids(s)
  BY <1>8 DEF Puts
<1>11. \A j \in Ids(s) : ~Occupying(t.tasks[j]) /\ ~Bounded(t, j)
  <2>1. \A j \in Ids(s) : Bounded(s, j) => Occupying(s.tasks[j])
    BY DEF Bounded, Live, Occupying
  <2> QED
    BY <1>1, <1>8, <2>1
<1>12. OneOccupies(t) /\ Streams(t)
  <2>1. Streams(s)
    BY DEF LogicInv
  <2> QED
    BY <1>8, <1>9, <1>10, <1>11, <2>1 DEF OneOccupies, Streams
<1>13. Shown(t)
  <2>1. \A j \in Ids(t) : ~(t.tasks[j].kind = "bounded" /\ t.tasks[j].pc \in StartPcs)
    BY <1>10, <1>11 DEF Bounded, Live, StartPcs
  <2>2. ASSUME t.mounted = TRUE, t.state \in {"armed", "capturing"} PROVE Cancelling(t)
    <3>1. v.state = s.state /\ s.mounted = TRUE
      BY <1>9, <2>2
    <3>2. s.cancel = TRUE \/ s.tasks[i].next = "finish"
      BY <1>9, <2>2
    <3>3. Shooting(s) => s.tasks[i].next # "finish"
      BY <1>1 DEF Shooting, Bounded, Live, Occupying
    <3> QED
      BY <1>8, <1>9, <2>2, <3>1, <3>2, <3>3 DEF LogicInv, Shown
  <2> QED
    BY <2>1, <2>2 DEF Shown
<1>14. Cancelled(t)
  <2>1. Cancelled(s)
    BY DEF LogicInv
  <2> QED
    BY <1>9, <1>10, <1>11, <2>1 DEF Cancelled
<1>15. t.ws # 0 \/ t.queue # <<>> => Working(t)
  <2>1. ASSUME s.ws # 0 \/ s.queue # <<>> PROVE Cancelling(s)
    BY <2>1 DEF LogicInv, Tended, Capturing
  <2>2. Cancelling(t) => Working(t)
    BY DEF Cancelling, Working
  <2> QED
    BY <1>8, <2>1, <2>2 DEF SameNet
<1> QED
  BY <1>8, <1>9, <1>12, <1>13, <1>14, <1>15, EndHolds DEF Bounded

\* A cancel or a stop, and a stream, is over behind its close; what comes with it is
\* u: the state taken back by a cancel, busy and starting by a stream that failed.
LEMMA StoppedHolds ==
  ASSUME NEW s, LogicInv(s), NEW i \in Ids(s), s.tasks[i].pc \in HaltPcs,
         s.tasks[i].kind \in {"cancel", "stop", "stream"},
         s.reader # i, s.ws = 0, s.queue = <<>>,
         NEW u, u \in LogicStates, u.tasks = s.tasks, SameLink(s, u), SameStream(s, u),
         u.cancel = s.cancel, u.mounted = s.mounted, u.shot = s.shot, u.active = FALSE,
         u.arming = s.arming,
         \/ s.tasks[i].kind = "cancel" /\ u.state = "idle" /\ SameBusy(s, u)
         \/ /\ s.tasks[i].next = "unstreamed" /\ u.state = s.state /\ u.starting = FALSE
            /\ u.busy = IF s.busy = "stream" THEN "none" ELSE s.busy
         \/ /\ s.tasks[i].kind # "cancel" /\ s.tasks[i].next # "unstreamed"
            /\ u.state = s.state /\ SameBusy(s, u),
         NEW t, t = Over(u, i)
  PROVE  LogicInv(t)
<1>0. s \in LogicStates /\ Live(s, i) /\ s.tasks[i].pc \notin LoopPcs \cup StartPcs
  BY DEF LogicInv, HaltPcs, LoopPcs, StartPcs, Live
<1>1. /\ t \in LogicStates /\ Puts(s, t, i)
      /\ SameNet(s, t) /\ SameSlots(s, t) /\ SameWire(s, t) /\ SameCard(u, t)
      /\ SameTask(s.tasks[i], t.tasks[i])
      /\ t.tasks[i].pc = "over" /\ t.tasks[i].next = "none"
      /\ \A j \in Ids(s) : Occupying(t.tasks[j]) <=> j # i /\ Occupying(s.tasks[j])
      /\ \A j \in Ids(s) : Bounded(t, j) <=> j # i /\ Bounded(s, j)
      /\ s.tasks[i].kind # "cancel" /\ Cancelling(s) => Cancelling(t)
      /\ Shooting(s) => Shooting(t)
      /\ Reading(s) => Reading(t)
  BY <1>0, OverEditFacts
<1>2. /\ t.cancel = s.cancel /\ t.arming = s.arming /\ t.active = FALSE
      /\ t.shot = s.shot /\ t.mounted = s.mounted /\ t.stream = s.stream
      /\ t.streaming = s.streaming /\ t.state = u.state /\ t.busy = u.busy
      /\ t.starting = u.starting
  BY <1>1 DEF SameCard, SameBusy, SameStream, SameShow
<1>3. Ids(t) = Ids(s) /\ \A j \in Ids(s) : t.tasks[j].kind = s.tasks[j].kind
  BY <1>1 DEF Puts, SameTask
<1>4. OneOccupies(t)
  <2>1. OneOccupies(s) /\ ShapeOf(s.tasks[i])
    BY DEF LogicInv, Shapes
  <2>2. CASE s.tasks[i].next = "unstreamed"
    <3>1. Occupying(s.tasks[i]) /\ s.tasks[i].kind = "stream"
      BY <2>1, <2>2 DEF Occupying, ShapeOf
    <3>2. s.busy = "stream" /\ s.arming = FALSE /\ \A j \in Ids(s) : Occupying(s.tasks[j]) => j = i
      BY <1>0, <2>1, <3>1 DEF OneOccupies, LogicStates
    <3>3. u.busy = "none" /\ u.starting = FALSE
      BY <2>1, <2>2, <3>1, <3>2 DEF ShapeOf
    <3> QED
      BY <1>1, <1>2, <1>3, <3>2, <3>3 DEF OneOccupies
  <2>3. CASE s.tasks[i].next # "unstreamed"
    <3>1. ~Occupying(s.tasks[i])
      BY <1>0, <2>3 DEF Occupying
    <3>2. SameBusy(s, u)
      BY <2>3
    <3>3. \A j \in Ids(s) : Occupying(t.tasks[j]) <=> Occupying(s.tasks[j])
      BY <1>1, <3>1
    <3>4. Occupied(s) => Occupied(t)
      BY <1>3, <3>3 DEF Occupied
    <3> QED
      BY <1>2, <1>3, <2>1, <3>2, <3>3, <3>4 DEF OneOccupies, SameBusy
  <2> QED
    BY <2>2, <2>3
<1>5. Streams(t)
  BY <1>1, <1>2 DEF LogicInv, Streams
<1>6. Shown(t)
  <2>1. Shown(s)
    BY DEF LogicInv
  <2>2. \A j \in Ids(t) : t.tasks[j].kind = "bounded" /\ t.tasks[j].pc \in StartPcs =>
          s.tasks[j].kind = "bounded" /\ s.tasks[j].pc \in StartPcs
    BY <1>1, <1>3 DEF Puts, StartPcs
  <2>3. ASSUME t.mounted = TRUE, t.state \in {"armed", "capturing"}
        PROVE  Cancelling(t) \/ (t.cancel = FALSE /\ Shooting(t))
    <3>1. s.tasks[i].kind # "cancel" /\ u.state = s.state
      BY <1>0, <1>2, <2>3 DEF LogicInv, Shapes, ShapeOf
    <3> QED
      BY <1>1, <1>2, <2>1, <2>3, <3>1 DEF Shown
  <2>4. t.state \in {"idle", s.state}
    BY <1>2
  <2> QED
    BY <1>2, <1>3, <2>1, <2>2, <2>3, <2>4 DEF Shown
<1>7. Cancelled(t)
  <2>1. Cancelled(s)
    BY DEF LogicInv
  <2>2. \A j \in Ids(t) : Bounded(t, j) /\ t.tasks[j].cancelled = TRUE =>
          Bounded(s, j) /\ s.tasks[j].cancelled = TRUE
    BY <1>1, <1>3 DEF Puts
  <2> QED
    BY <1>2, <1>3, <2>1, <2>2 DEF Cancelled
<1>8. t.ws = 0 /\ t.queue = <<>>
  BY <1>1 DEF SameNet
<1> QED
  BY <1>0, <1>1, <1>2, <1>4, <1>5, <1>6, <1>7, <1>8, EndHolds

\* Behind stopAndCloseSigrok, on a closed connection.
LEMMA AfterHaltHolds ==
  ASSUME NEW s, LogicInv(s), s.ws = 0, s.queue = <<>>, s.reader = 0,
         NEW i \in Ids(s), s.tasks[i].pc \in HaltPcs, Task(i).kind = s.tasks[i].kind,
         NEW t \in AfterHalt(s, i)
  PROVE  LogicInv(t)
<1>0. s \in LogicStates /\ s.reader # i /\ s.ws # i
  BY DEF LogicInv, LogicStates, Ids
<1>1. ShapeOf(s.tasks[i]) /\ Live(s, i) /\ s.tasks[i].pc # "create"
  BY DEF LogicInv, Shapes, Live, HaltPcs
<1> DEFINE next == s.tasks[i].next
<1>2. SameLink(s, s) /\ SameBusy(s, s) /\ SameStream(s, s)
  BY DEF SameLink, SameNet, SameSlots, SameWire, SameBusy, SameStream
<1>3. CASE next = "finish"
  <2>1. Bounded(s, i) /\ t = Finished(s, i)
    BY <1>1, <1>3 DEF AfterHalt, ShapeOf, Bounded, HaltPcs
  <2> QED
    BY <1>0, <1>2, <1>3, <2>1, FinishedHolds
<1>4. CASE next = "complete"
  <2>1. Bounded(s, i) /\ t \in Completed(s, i)
    BY <1>1, <1>4 DEF AfterHalt, ShapeOf, Bounded, HaltPcs
  <2>2. CASE s.cancel
    <3>1. t = Finished(s, i) /\ s.cancel = TRUE
      BY <1>0, <2>1, <2>2 DEF Completed, LogicStates
    <3> QED
      BY <1>0, <1>2, <2>1, <3>1, FinishedHolds
  <2>3. CASE ~s.cancel /\ (~s.tasks[i].triggered \/ s.tasks[i].count < Target)
    <3>1. t \in Fails(s, i)
      BY <2>1, <2>3 DEF Completed
    <3>2. t \in Halt([s EXCEPT !.state = "idle"], i, "finish")
      BY <2>1, <3>1 DEF Fails, Bounded
    <3> QED
      BY <1>0, <1>1, <2>1, <3>2, GivesUpHolds
  <2>4. CASE ~s.cancel /\ ~(~s.tasks[i].triggered \/ s.tasks[i].count < Target)
    <3>1. PICK shot : shot = ShotOf(s, i)
      OBVIOUS
    <3>2. /\ s.tasks[i] \in LogicTasks /\ i \in Nat /\ Target \in Nat
          /\ s.tasks[i].count \in Nat
      <4>1. s.tasks[i] \in LogicTasks
        BY <1>0 DEF LogicStates, Ids
      <4>2. i \in Nat
        BY <1>0 DEF LogicStates, Ids
      <4> QED
        BY <4>1, <4>2, LogicCaptureAssumption DEF LogicTasks
    <3>3. /\ shot \in LogicShots /\ shot.cancelled = s.tasks[i].cancelled
          /\ shot.quiet = s.tasks[i].quiet /\ shot.own = s.tasks[i].own
          /\ shot.triggered = s.tasks[i].triggered /\ shot.count = s.tasks[i].count
      BY <3>1, <3>2 DEF ShotOf, LogicShots, LogicTasks
    <3>4. PICK v : v = [s EXCEPT !.shot = shot, !.state = "done"]
      OBVIOUS
    <3>5. /\ v \in LogicStates /\ v.tasks = s.tasks /\ v.state = "done" /\ v.shot = shot
          /\ v.cancel = s.cancel /\ v.mounted = s.mounted
      BY <1>0, <3>3, <3>4 DEF LogicStates
    <3>6. SameLink(s, v) /\ SameBusy(s, v) /\ SameStream(s, v)
      BY <1>0, <3>4 DEF LogicStates, SameLink, SameNet, SameSlots, SameWire, SameBusy, SameStream
    <3>7. t = Finished(v, i)
      BY <2>1, <2>4, <3>1, <3>4 DEF Completed
    <3>8. shot.cancelled = FALSE
      <4>1. s.tasks[i].cancelled = TRUE => s.cancel = TRUE
        BY <2>1 DEF LogicInv, Cancelled
      <4> QED
        BY <2>4, <3>2, <3>3, <4>1 DEF LogicTasks
    <3>9. shot.quiet = TRUE => shot.own = TRUE /\ shot.triggered = TRUE /\ shot.count >= Target
      <4>1. s.tasks[i].quiet = TRUE => s.tasks[i].own = TRUE
        BY <2>1 DEF LogicInv, QuietRuns, Bounded
      <4>2. s.tasks[i].triggered = TRUE
        BY <2>4, <3>2 DEF LogicTasks
      <4>3. s.tasks[i].count >= Target
        BY <2>4, <3>2
      <4> QED
        BY <3>3, <4>1, <4>2, <4>3
    <3> QED
      BY <1>0, <2>1, <3>5, <3>6, <3>7, <3>8, <3>9, FinishedHolds
  <2> QED
    BY <2>2, <2>3, <2>4
<1>5. CASE next = "cancelled"
  <2>1. s.tasks[i].kind = "cancel"
    BY <1>1, <1>5 DEF ShapeOf, HaltPcs
  <2>2. PICK u : u = [s EXCEPT !.state = "idle", !.active = FALSE]
    OBVIOUS
  <2>3. /\ u \in LogicStates /\ u.tasks = s.tasks /\ u.state = "idle" /\ u.active = FALSE
        /\ u.cancel = s.cancel /\ u.mounted = s.mounted /\ u.shot = s.shot
        /\ u.arming = s.arming
    BY <1>0, <2>2 DEF LogicStates
  <2>4. SameLink(s, u) /\ SameBusy(s, u) /\ SameStream(s, u)
    BY <1>0, <2>2 DEF LogicStates, SameLink, SameNet, SameSlots, SameWire, SameBusy, SameStream
  <2>5. t = Over(u, i)
    BY <1>5, <2>2 DEF AfterHalt
  <2> QED
    BY <1>0, <2>1, <2>3, <2>4, <2>5, StoppedHolds
<1>6. CASE next = "unstreamed"
  <2>1. s.tasks[i].kind = "stream"
    BY <1>1, <1>6 DEF ShapeOf, HaltPcs
  <2>2. PICK busy : busy = IF s.busy = "stream" THEN "none" ELSE s.busy
    OBVIOUS
  <2>3. busy \in {"none", "bounded", "stream"}
    BY <1>0, <2>2 DEF LogicStates
  <2>4. PICK u : u = [s EXCEPT !.active = FALSE, !.starting = FALSE, !.busy = busy]
    OBVIOUS
  <2>5. /\ u \in LogicStates /\ u.tasks = s.tasks /\ u.state = s.state /\ u.active = FALSE
        /\ u.cancel = s.cancel /\ u.mounted = s.mounted /\ u.shot = s.shot
        /\ u.arming = s.arming /\ u.starting = FALSE /\ u.busy = busy
    BY <1>0, <2>3, <2>4 DEF LogicStates
  <2>6. SameLink(s, u) /\ SameStream(s, u)
    BY <1>0, <2>4 DEF LogicStates, SameLink, SameNet, SameSlots, SameWire, SameStream
  <2>7. t = Over(u, i)
    <3>1. u = [s EXCEPT !.active = FALSE, !.starting = FALSE,
                        !.busy = IF @ = "stream" THEN "none" ELSE @]
      BY <1>0, <2>2, <2>4 DEF LogicStates
    <3> QED
      BY <1>6, <3>1 DEF AfterHalt
  <2> QED
    BY <1>0, <1>6, <2>1, <2>2, <2>5, <2>6, <2>7, StoppedHolds
<1>7. CASE next \in {"streamed", "stopped", "none"}
  <2>1. s.tasks[i].kind \in {"stream", "stop"}
    <3>1. s.tasks[i] \in LogicTasks
      BY <1>0 DEF LogicStates, Ids
    <3> QED
      BY <1>1, <1>7, <3>1 DEF ShapeOf, HaltPcs, LogicTasks
  <2>2. PICK u : u = [s EXCEPT !.active = FALSE]
    OBVIOUS
  <2>3. /\ u \in LogicStates /\ u.tasks = s.tasks /\ u.state = s.state /\ u.active = FALSE
        /\ u.cancel = s.cancel /\ u.mounted = s.mounted /\ u.shot = s.shot
        /\ u.arming = s.arming
    BY <1>0, <2>2 DEF LogicStates
  <2>4. SameLink(s, u) /\ SameBusy(s, u) /\ SameStream(s, u)
    BY <1>0, <2>2 DEF LogicStates, SameLink, SameNet, SameSlots, SameWire, SameBusy, SameStream
  <2>5. t = Over(u, i)
    BY <1>7, <2>2 DEF AfterHalt
  <2> QED
    BY <1>0, <1>7, <2>1, <2>3, <2>4, <2>5, StoppedHolds
<1>8. next \in Nexts
  <2>1. s.tasks[i] \in LogicTasks
    BY <1>0 DEF LogicStates, Ids
  <2> QED
    BY <2>1 DEF LogicTasks, Nexts
<1> QED
  BY <1>3, <1>4, <1>5, <1>6, <1>7, <1>8 DEF Nexts

\* A task that closes the connection goes on behind it.
LEMMA ClosesHolds ==
  ASSUME LogicInv(la), NEW i \in Ids(la), Task(i).pc \in HaltPcs,
         NEW t \in AfterHalt(Closed(la), i)
  PROVE  LogicInv(t)
<1>1. PICK s : s = Closed(la)
  OBVIOUS
<1>2. /\ LogicInv(s) /\ Ids(s) = Ids(la) /\ s.ws = 0 /\ s.queue = <<>> /\ s.reader = 0
      /\ SameTask(la.tasks[i], s.tasks[i]) /\ s.tasks[i].pc = la.tasks[i].pc
  BY <1>1, ClosedHolds
<1> QED
  BY <1>1, <1>2, AfterHaltHolds DEF Task, SameTask
-----------------------------------------------------------------------------
(* What wakes the tasks.                                                    *)

\* A task that is woken, or is at no await of the connection.
LEMMA TaskFacts ==
  ASSUME LogicInv(la), NEW i \in TaskIds
  PROVE  /\ la \in LogicStates /\ i \in Ids(la) /\ i \in Nat /\ i # 0
         /\ la.tasks[i] \in LogicTasks /\ ShapeOf(la.tasks[i])
         /\ Task(i).wake # NoWake \/ Task(i).pc # "read" => la.reader # i
         /\ Task(i).wake # NoWake \/ Task(i).pc # "open" => (la.ws = i => la.up = TRUE)
<1>1. la \in LogicStates /\ Linked(la) /\ Tended(la) /\ Shapes(la)
  BY DEF LogicInv
<1>2. i \in Ids(la) /\ i \in Nat /\ i # 0
  BY <1>1 DEF TaskIds, Ids, LogicStates
<1>3. la.tasks[i] \in LogicTasks /\ ShapeOf(la.tasks[i])
  BY <1>1, <1>2 DEF LogicStates, Ids, Shapes
<1>4. la.reader \in Nat /\ la.up \in BOOLEAN
  BY <1>1 DEF LogicStates
<1> QED
  BY <1>1, <1>2, <1>3, <1>4 DEF Linked, Tended, Task

\* createSession is answered.
LEMMA SessionMadeHolds ==
  ASSUME LogicInv(la), SessionMade
  PROVE  LogicInv(la')
<1>1. PICK i \in TaskIds :
        /\ Quiet /\ Task(i).pc = "create"
        /\ \/ la' = [Wake(la, i, "ok") EXCEPT !.slots = @ \cup {i}]
           \/ la' = Wake(la, i, "fail")
  BY DEF SessionMade
<1>2. Task(i).wake = NoWake
  BY <1>1 DEF Quiet, Woken
<1>3. /\ i \in Ids(la) /\ i \in Nat /\ la.reader # i /\ (la.ws = i => la.up = TRUE)
      /\ Live(la, i) /\ la.tasks[i].pc \notin NetAwaits /\ la \in LogicStates
  BY <1>1, TaskFacts DEF Live, Task, NetAwaits
<1>4. PICK w \in {"ok", "fail"} :
        la' = IF w = "ok" THEN [Wake(la, i, "ok") EXCEPT !.slots = @ \cup {i}]
              ELSE Wake(la, i, "fail")
  BY <1>1
<1>5. PICK u : u = Wake(la, i, w)
  OBVIOUS
<1>6. LogicInv(u)
  BY <1>2, <1>3, <1>5, WakeHolds DEF WakeTypes, Task
<1>7. /\ OnlyPuts(la, u, i) /\ u.tasks[i].pc = "create" /\ u.tasks[i].wake.t = w
  BY <1>1, <1>3, <1>5, WakeFacts DEF WakeTypes, Task
<1>8. CASE w = "fail"
  BY <1>4, <1>5, <1>6, <1>8
<1>9. CASE w = "ok"
  <2>1. la' = [u EXCEPT !.slots = @ \cup {i}]
    BY <1>4, <1>5, <1>9
  <2>2. u \in LogicStates /\ Sessions(u) /\ i \in Ids(u)
    BY <1>3, <1>6, <1>7 DEF LogicInv, OnlyPuts, Puts
  <2>3. PICK slots : slots = u.slots \cup {i}
    OBVIOUS
  <2>4. slots \in SUBSET Nat
    BY <1>3, <2>2, <2>3 DEF LogicStates
  <2>5. la' = [u EXCEPT !.slots = slots]
    BY <2>1, <2>2, <2>3 DEF LogicStates
  <2>6. /\ la' \in LogicStates /\ la'.tasks = u.tasks /\ SameNet(u, la') /\ SameWire(u, la')
        /\ la'.slots = slots /\ la'.deleting = u.deleting
    BY <2>2, <2>4, <2>5 DEF LogicStates, SameNet, SameWire
  <2>7. SameBusy(u, la') /\ SameStream(u, la') /\ SameShow(u, la') /\ la'.shot = u.shot
    BY <2>2, <2>5 DEF LogicStates, SameBusy, SameStream, SameShow
  <2>8. Sessions(la')
    BY <1>7, <1>9, <2>2, <2>3, <2>6 DEF Sessions, SameNet, Ids
  <2> QED
    BY <1>6, <2>6, <2>7, <2>8, EditHolds DEF SameNet, SameShow
<1> QED
  BY <1>8, <1>9

\* deleteSession is answered.
LEMMA SessionDeletedHolds ==
  ASSUME LogicInv(la), SessionDeleted
  PROVE  LogicInv(la')
<1>1. PICK i \in la.deleting :
        /\ Quiet
        /\ LET s == [la EXCEPT !.slots = @ \ {i}, !.deleting = @ \ {i}]
           IN la' = IF Task(i).pc = "drop" THEN Wake(s, i, "ok") ELSE s
  BY DEF SessionDeleted
<1>2. i \in Ids(la) /\ la \in LogicStates /\ Sessions(la) /\ Quiet
  BY <1>1 DEF LogicInv, Sessions
<1>3. PICK s : s = [la EXCEPT !.slots = @ \ {i}, !.deleting = @ \ {i}]
  OBVIOUS
<1>4. /\ s \in LogicStates /\ s.tasks = la.tasks /\ SameNet(la, s) /\ SameWire(la, s)
      /\ s.slots = la.slots \ {i} /\ s.deleting = la.deleting \ {i}
  BY <1>2, <1>3 DEF LogicStates, SameNet, SameWire
<1>5. SameBusy(la, s) /\ SameStream(la, s) /\ SameShow(la, s) /\ s.shot = la.shot
  BY <1>2, <1>3 DEF LogicStates, SameBusy, SameStream, SameShow
<1>6. Sessions(s)
  BY <1>2, <1>4 DEF Sessions, SameNet, Ids
<1>7. LogicInv(s)
  BY <1>4, <1>5, <1>6, EditHolds DEF SameNet, SameShow
<1>8. CASE Task(i).pc = "drop"
  <2>1. la' = Wake(s, i, "ok")
    BY <1>1, <1>3, <1>8
  <2>2. la.reader # i /\ (la.ws = i => la.up = TRUE) /\ i \in TaskIds
    BY <1>2, <1>8, TaskFacts DEF TaskIds, Ids
  <2>3. /\ i \in Ids(s) /\ s.tasks[i].pc = "drop" /\ Live(s, i) /\ s.reader # i
        /\ (s.ws = i => s.up = TRUE)
    BY <1>2, <1>4, <1>8, <2>2 DEF Ids, Live, Task, SameNet
  <2> QED
    BY <1>7, <2>1, <2>3, WakeHolds DEF WakeTypes, NetAwaits
<1>9. CASE Task(i).pc # "drop"
  BY <1>1, <1>3, <1>7, <1>9
<1> QED
  BY <1>8, <1>9

\* The socket is ready.
LEMMA OpenedHolds ==
  ASSUME LogicInv(la), Opened
  PROVE  LogicInv(la')
<1>1. /\ la \in LogicStates /\ la.ws # 0 /\ la.up = FALSE /\ Linked(la) /\ Gone(la) /\ Tended(la)
      /\ la' = Wake([la EXCEPT !.up = TRUE], la.ws, "ok")
  BY DEF LogicInv, Opened, LogicStates
<1>2. /\ la.ws \in Ids(la) /\ la.tasks[la.ws].pc = "open" /\ la.reader # la.ws
      /\ la.mounted = TRUE
  <2>1. la.ws \in Ids(la) /\ la.tasks[la.ws].pc = "open"
    BY <1>1 DEF Linked
  <2>2. la.mounted \in BOOLEAN
    BY <1>1 DEF LogicStates
  <2> QED
    BY <1>1, <2>1, <2>2 DEF Gone, Tended
<1>3. PICK s : s = [la EXCEPT !.up = TRUE]
  OBVIOUS
<1>4. /\ s \in LogicStates /\ s.tasks = la.tasks /\ SameSlots(la, s) /\ SameWire(la, s)
      /\ s.gen = la.gen /\ s.session = la.session /\ s.queue = la.queue
      /\ s.reader = la.reader /\ s.ws = la.ws /\ s.up = TRUE
  BY <1>1, <1>3 DEF LogicStates, SameSlots, SameWire
<1>5. SameBusy(la, s) /\ SameStream(la, s) /\ SameShow(la, s) /\ s.shot = la.shot
  BY <1>1, <1>3 DEF LogicStates, SameBusy, SameStream, SameShow
<1>6. Linked(s)
  BY <1>1, <1>4 DEF Linked, SameWire, Ids
<1>7. LogicInv(s)
  BY <1>4, <1>5, <1>6, EditHolds DEF SameShow
<1>8. /\ s.ws \in Ids(s) /\ s.tasks[s.ws].pc = "open" /\ Live(s, s.ws) /\ s.reader # s.ws
      /\ s.mounted = TRUE
  BY <1>2, <1>4, <1>5 DEF Ids, Live, SameShow
<1>9. la' = Wake(s, s.ws, "ok")
  BY <1>1, <1>3, <1>4
<1> QED
  BY <1>4, <1>7, <1>8, <1>9, WakeHolds DEF WakeTypes

\* The socket is lost.
LEMMA LinkLostHolds ==
  ASSUME LogicInv(la), LinkLost
  PROVE  LogicInv(la')
  BY DroppedHolds DEF LinkLost

\* No capture frame came in time.
LEMMA ReadTimesOutHolds ==
  ASSUME LogicInv(la), ReadTimesOut
  PROVE  LogicInv(la')
<1>1. PICK i \in TaskIds :
        Task(i).pc = "read" /\ la' = [Wake(la, i, "null") EXCEPT !.reader = 0]
  BY DEF ReadTimesOut
<1>2. /\ la \in LogicStates /\ i \in Ids(la) /\ i \in Nat /\ i # 0
      /\ (la.ws = i => la.up = TRUE)
  BY <1>1, TaskFacts
<1>3. PICK s : s = [la EXCEPT !.reader = 0]
  OBVIOUS
<1>4. /\ s \in LogicStates /\ s.tasks = la.tasks /\ SameSlots(la, s) /\ SameWire(la, s)
      /\ s.gen = la.gen /\ s.session = la.session /\ s.queue = la.queue
      /\ s.reader = 0 /\ s.ws = la.ws /\ s.up = la.up
  BY <1>2, <1>3 DEF LogicStates, SameSlots, SameWire
<1>5. SameBusy(la, s) /\ SameStream(la, s) /\ SameShow(la, s) /\ s.shot = la.shot
  BY <1>2, <1>3 DEF LogicStates, SameBusy, SameStream, SameShow
<1>6. Tended(s)
  <2>1. Tended(la)
    BY DEF LogicInv
  <2> QED
    BY <1>4, <1>5, <2>1 DEF Tended, SameShow, Working, Cancelling, Capturing, Bounded, Live, Ids
<1>7. LogicInv(s)
  BY <1>4, <1>5, <1>6, EditHolds DEF SameShow
<1>8. /\ i \in Ids(s) /\ s.tasks[i].pc = "read" /\ Live(s, i) /\ s.reader # i
      /\ (s.ws = i => s.up = TRUE)
  BY <1>1, <1>2, <1>4 DEF Ids, Live, Task
<1>9. la' = Wake(s, i, "null")
  BY <1>1, <1>2, <1>3 DEF Wake, LogicStates
<1> QED
  BY <1>7, <1>8, <1>9, WakeHolds DEF WakeTypes, NetAwaits

\* No answer came in time.
LEMMA RequestTimesOutHolds ==
  ASSUME LogicInv(la), RequestTimesOut
  PROVE  LogicInv(la')
<1>1. PICK i \in TaskIds :
        Task(i).pc \in {"config", "begin", "halt"} /\ la' = Wake(la, i, "fail")
  BY DEF RequestTimesOut
<1>2. /\ i \in Ids(la) /\ la.reader # i /\ (la.ws = i => la.up = TRUE)
      /\ Live(la, i) /\ la.tasks[i].pc # "create"
  BY <1>1, TaskFacts DEF Live, Task
<1> QED
  BY <1>1, <1>2, WakeHolds DEF WakeTypes

\* The wait behind STOP is over, the scope is closed.
LEMMA SettledHolds ==
  ASSUME LogicInv(la), Settled
  PROVE  LogicInv(la')
  BY ClosesHolds DEF Settled, TaskIds, Ids, HaltPcs

\* What is appended carries what captures that began alone may take.
LEMMA AppendCarry ==
  ASSUME NEW q \in Seq(LogicFrames), NEW f \in LogicFrames
  PROVE  /\ Append(q, f) \in Seq(LogicFrames) /\ Append(q, f) # <<>>
         /\ \A i : (\A k \in DOMAIN q : Carries(q[k], i)) /\ Carries(f, i) =>
              \A k \in DOMAIN Append(q, f) : Carries(Append(q, f)[k], i)
<1>1. /\ Append(q, f) \in Seq(LogicFrames) /\ Append(q, f) # <<>>
      /\ DOMAIN Append(q, f) = 1..(Len(q) + 1) /\ DOMAIN q = 1..Len(q) /\ Len(q) \in Nat
      /\ \A k \in 1..Len(q) : Append(q, f)[k] = q[k]
      /\ Append(q, f)[Len(q) + 1] = f
  OBVIOUS
<1>2. \A k \in DOMAIN Append(q, f) : k \in DOMAIN q \/ k = Len(q) + 1
  BY <1>1
<1> QED
  BY <1>1, <1>2

\* The rest of what was on its way carries no more.
LEMMA TailCarry ==
  ASSUME NEW q \in Seq(LogicFrames), q # <<>>
  PROVE  /\ Head(q) \in LogicFrames /\ Tail(q) \in Seq(LogicFrames)
         /\ \A i : (\A k \in DOMAIN q : Carries(q[k], i)) =>
              Carries(Head(q), i) /\ \A k \in DOMAIN Tail(q) : Carries(Tail(q)[k], i)
<1>1. /\ Head(q) = q[1] /\ 1 \in DOMAIN q /\ Tail(q) \in Seq(LogicFrames)
      /\ Head(q) \in LogicFrames
      /\ \A k \in DOMAIN Tail(q) : k + 1 \in DOMAIN q /\ Tail(q)[k] = q[k + 1]
  OBVIOUS
<1> QED
  BY <1>1

\* The debugger sends a frame of its run and is in a phase of it.
LEMMA SendHolds ==
  ASSUME LogicInv(la), NEW f \in LogicFrames, f.op = la.run,
         la.phase \in {"armed", "running"},
         NEW phase \in {"configured", "running"}, NEW sent \in Nat,
         NEW t, t = [la EXCEPT !.down = Append(@, f), !.phase = phase, !.sent = sent]
  PROVE  LogicInv(t)
<1>1. la \in LogicStates /\ Linked(la) /\ QuietRuns(la)
  BY DEF LogicInv
<1>2. PICK down : down = Append(la.down, f)
  OBVIOUS
<1>3. /\ down \in Seq(LogicFrames)
      /\ \A i : (\A k \in DOMAIN la.down : Carries(la.down[k], i)) /\ Carries(f, i) =>
           \A k \in DOMAIN down : Carries(down[k], i)
  BY <1>1, <1>2, AppendCarry DEF LogicStates
<1>4. t = [la EXCEPT !.down = down, !.phase = phase, !.sent = sent]
  BY <1>1, <1>2 DEF LogicStates
<1>5. /\ t \in LogicStates /\ t.tasks = la.tasks /\ SameNet(la, t) /\ SameSlots(la, t)
      /\ t.down = down /\ t.phase = phase /\ t.run = la.run
  BY <1>1, <1>3, <1>4, ZenonT(60) DEF LogicStates, SameNet, SameSlots
<1>6. SameBusy(la, t) /\ SameStream(la, t) /\ SameShow(la, t) /\ t.shot = la.shot
  BY <1>1, <1>4 DEF LogicStates, SameBusy, SameStream, SameShow
<1>7. Linked(t)
  <2>1. la.ws # 0
    BY <1>1 DEF Linked
  <2> QED
    BY <1>1, <1>5, <2>1 DEF Linked, SameNet, Ids
<1>8. QuietRuns(t)
  <2>1. ASSUME NEW i \in Ids(la), OwnRun(la, i) PROVE OwnRun(t, i)
    <3>1. la.run = i
      BY <2>1 DEF OwnRun
    <3>2. \A k \in DOMAIN down : Carries(down[k], i)
      BY <1>3, <2>1, <3>1 DEF OwnRun, Carries
    <3> QED
      BY <1>5, <2>1, <3>1, <3>2 DEF OwnRun, SameNet, Live, Ids
  <2> QED
    BY <1>1, <1>5, <2>1 DEF QuietRuns, Live, Ids
<1> QED
  BY <1>5, <1>6, <1>7, <1>8, EditHolds DEF SameNet, SameShow

\* The debugger captures.
LEMMA SampleHolds ==
  ASSUME LogicInv(la), Sample
  PROVE  LogicInv(la')
<1>1. la \in LogicStates /\ la.run \in Nat /\ la.sent \in Nat
  BY DEF LogicInv, LogicStates
<1>2. \A t \in WakeTypes : Frame(t, la.run) \in LogicFrames /\ Frame(t, la.run).op = la.run
  BY <1>1 DEF Frame, LogicFrames
<1>3. CASE la.phase = "armed" /\ la' = [Sends("triggered") EXCEPT !.phase = "running"]
  <2>1. la' = [la EXCEPT !.down = Append(@, Frame("triggered", la.run)), !.phase = "running",
                         !.sent = la.sent]
    BY <1>1, <1>3 DEF Sends, LogicStates
  <2>2. "triggered" \in WakeTypes
    BY DEF WakeTypes
  <2> QED
    BY <1>1, <1>2, <1>3, <2>1, <2>2, SendHolds
<1>4. CASE la.phase = "running" /\ la' = [Sends("data") EXCEPT !.sent = @ + 1]
  <2>1. la' = [la EXCEPT !.down = Append(@, Frame("data", la.run)), !.phase = "running",
                         !.sent = la.sent + 1]
    BY <1>1, <1>4 DEF Sends, LogicStates
  <2>2. "data" \in WakeTypes /\ la.sent + 1 \in Nat
    BY <1>1 DEF WakeTypes
  <2> QED
    BY <1>1, <1>2, <1>4, <2>1, <2>2, SendHolds
<1>5. CASE \E t \in {"stopped", "overrun"} :
             la.phase = "running" /\ la' = [Sends(t) EXCEPT !.phase = "configured"]
  <2>1. PICK t \in {"stopped", "overrun"} :
             la.phase = "running" /\ la' = [Sends(t) EXCEPT !.phase = "configured"]
    BY <1>5
  <2>2. la' = [la EXCEPT !.down = Append(@, Frame(t, la.run)), !.phase = "configured",
                         !.sent = la.sent]
    BY <1>1, <2>1 DEF Sends, LogicStates
  <2>3. t \in WakeTypes
    BY <2>1 DEF WakeTypes
  <2> QED
    BY <1>1, <1>2, <2>1, <2>2, <2>3, SendHolds
<1> QED
  BY <1>3, <1>4, <1>5 DEF Sample

\* The capture is cleared.
LEMMA ClearHolds ==
  ASSUME LogicInv(la), Clear
  PROVE  LogicInv(la')
<1>1. la \in LogicStates /\ la' = [la EXCEPT !.state = "idle", !.shot = NoShot]
  BY DEF LogicInv, Clear
<1>2. /\ NoShot \in LogicShots /\ NoShot.op = 0 /\ NoShot.cancelled = FALSE
  BY DEF NoShot, LogicShots
<1>3. /\ la' \in LogicStates /\ la'.tasks = la.tasks /\ SameNet(la, la') /\ SameSlots(la, la')
      /\ SameWire(la, la') /\ SameBusy(la, la') /\ SameStream(la, la')
  BY <1>1, <1>2 DEF LogicStates, SameNet, SameSlots, SameWire, SameBusy, SameStream
<1>4. /\ la'.state = "idle" /\ la'.shot = NoShot /\ la'.cancel = la.cancel
      /\ la'.active = la.active /\ la'.mounted = la.mounted
  BY <1>1 DEF LogicStates
<1>5. Shown(la')
  BY <1>3, <1>4 DEF LogicInv, Shown, Ids
<1>6. Cancelled(la')
  BY <1>2, <1>3, <1>4 DEF LogicInv, Cancelled, Bounded, Live, Ids
<1> QED
  BY <1>3, <1>4, <1>5, <1>6, EditHolds DEF SameNet

\* The page goes.
LEMMA UnmountHolds ==
  ASSUME LogicInv(la), Unmount
  PROVE  LogicInv(la')
<1>1. PICK s : s = Closed(la)
  OBVIOUS
<1>2. /\ LogicInv(s) /\ SameCard(la, s) /\ Ids(s) = Ids(la)
      /\ s.ws = 0 /\ s.queue = <<>> /\ s.reader = 0 /\ s.gen = la.gen + 1
  BY <1>1, ClosedHolds
<1>3. \A i \in Ids(la) : /\ SameTask(la.tasks[i], s.tasks[i]) /\ s.tasks[i].pc = la.tasks[i].pc
                         /\ la.tasks[i].pc \in NetAwaits /\ la.tasks[i].wake = NoWake
                              => s.tasks[i].wake.t = "fail"
  BY <1>1, ClosedHolds
<1>4. /\ \A i \in Ids(la) : la.tasks[i].wake = NoWake
      /\ la' = [s EXCEPT !.mounted = FALSE, !.cancel = TRUE, !.stream = FALSE, !.active = FALSE]
  BY <1>1 DEF Unmount, Woken, TaskIds, Task, Ids
<1>5. s \in LogicStates
  BY <1>2 DEF LogicInv
<1>6. /\ la' \in LogicStates /\ la'.tasks = s.tasks /\ SameNet(s, la') /\ SameSlots(s, la')
      /\ SameWire(s, la') /\ SameBusy(s, la')
  BY <1>4, <1>5, ZenonT(60) DEF LogicStates, SameNet, SameSlots, SameWire, SameBusy
<1>7. /\ la'.mounted = FALSE /\ la'.cancel = TRUE /\ la'.stream = FALSE /\ la'.active = FALSE
      /\ la'.state = s.state /\ la'.streaming = s.streaming /\ la'.shot = s.shot
  BY <1>4, <1>5 DEF LogicStates
<1>8. Streams(la')
  BY <1>2, <1>6, <1>7 DEF LogicInv, Streams, Reading, Ids
<1>9. Shown(la')
  BY <1>2, <1>6, <1>7 DEF LogicInv, Shown, Ids
<1>10. Gone(la')
  <2>1. \A i \in Ids(la) : la.tasks[i].gen < s.gen /\ s.tasks[i].gen = la.tasks[i].gen
    <3>1. Generations(la) /\ la \in LogicStates
      BY DEF LogicInv
    <3>2. la.gen \in Nat /\ \A i \in Ids(la) : la.tasks[i] \in LogicTasks
      BY <3>1 DEF LogicStates, Ids
    <3> QED
      BY <1>2, <1>3, <3>1, <3>2 DEF Generations, LogicTasks, SameTask
  <2>2. \A i \in Ids(la) : s.tasks[i].gen # s.gen
    <3>1. s.gen \in Nat
      BY <1>5 DEF LogicStates
    <3>2. \A i \in Ids(la) : s.tasks[i].gen \in Nat
      <4>1. \A i \in Ids(la) : s.tasks[i] \in LogicTasks
        BY <1>2, <1>5 DEF LogicStates, Ids
      <4> QED
        BY <4>1 DEF LogicTasks
    <3> QED
      BY <2>1, <3>1, <3>2
  <2>3. \A i \in Ids(la) : s.tasks[i].pc \in NetAwaits => s.tasks[i].wake.t = "fail"
    BY <1>3, <1>4
  <2>4. Ids(la') = Ids(la) /\ la'.ws = 0 /\ la'.gen = s.gen
    BY <1>2, <1>6 DEF Ids, SameNet
  <2> QED
    BY <1>6, <1>7, <2>2, <2>3, <2>4 DEF Gone
<1>11. Tended(la')
  BY <1>2, <1>6, <1>7 DEF Tended, SameNet
<1>12. Cancelled(la')
  BY <1>2, <1>6, <1>7 DEF LogicInv, Cancelled, Bounded, Live, Ids
<1> QED
  BY <1>2, <1>6, <1>7, <1>8, <1>9, <1>10, <1>11, <1>12, EditHolds DEF SameNet

\* A task that reads, or is about to, is handed a frame.
LEMMA HandHolds ==
  ASSUME NEW s, LogicInv(s), NEW i \in Ids(s), s.tasks[i].pc \in LoopPcs, s.reader # i,
         s.ws = i => s.up = TRUE,
         NEW f \in LogicFrames,
         s.tasks[i].kind = "bounded" /\ s.tasks[i].quiet = TRUE => Carries(f, i),
         NEW t, t = Put(s, i, [s.tasks[i] EXCEPT !.pc = "read", !.wake = [t |-> f.t, op |-> f.op]])
  PROVE  LogicInv(t)
<1>1. s \in LogicStates /\ ShapeOf(s.tasks[i]) /\ Sessions(s)
  BY DEF LogicInv, Shapes
<1>2. s.tasks[i] \in LogicTasks
  BY <1>1 DEF LogicStates, Ids
<1> DEFINE x == [s.tasks[i] EXCEPT !.pc = "read", !.wake = [t |-> f.t, op |-> f.op]]
<1>3. /\ x \in LogicTasks /\ SameTask(s.tasks[i], x) /\ x.pc = "read" /\ x.next = s.tasks[i].next
      /\ x.wake.t = f.t /\ x.wake.op = f.op
  BY <1>2 DEF LogicTasks, LogicWakes, LogicFrames, SameTask, LoopPcs
<1> HIDE DEF x
<1>4. OnlyPuts(s, t, i) /\ t.tasks[i] = x
  BY <1>1, <1>3, PutFacts DEF x
<1>5. /\ t \in LogicStates /\ Puts(s, t, i) /\ SameNet(s, t) /\ SameSlots(s, t) /\ SameWire(s, t)
      /\ SameCard(s, t)
  BY <1>4 DEF OnlyPuts, SameLink
<1>6. /\ Live(s, i) /\ Live(t, i) /\ t.tasks[i].pc = "read" /\ t.tasks[i].pc \in LoopPcs
      /\ s.tasks[i].pc \notin StartPcs \cup HaltPcs /\ t.tasks[i].pc \notin StartPcs \cup HaltPcs
      /\ s.tasks[i].pc # "create" /\ t.tasks[i].pc \notin {"create"} \cup NetAwaits
  BY <1>3, <1>4 DEF Live, LoopPcs, StartPcs, HaltPcs, NetAwaits
<1>7. /\ s.tasks[i].next = "none" /\ t.tasks[i].next = "none"
      /\ t.tasks[i].kind = s.tasks[i].kind /\ s.tasks[i].kind \notin {"cancel", "stop"}
  BY <1>1, <1>3, <1>4, <1>6 DEF ShapeOf, SameTask, LoopPcs, HaltPcs
<1>8. ShapeOf(t.tasks[i]) /\ (Occupying(s.tasks[i]) <=> Occupying(t.tasks[i]))
  BY <1>6, <1>7 DEF ShapeOf, Occupying, Live
<1>9. s.tasks[i].kind = "bounded" /\ s.tasks[i].quiet = TRUE => Carries(t.tasks[i].wake, i)
  BY <1>3, <1>4 DEF Carries
<1>10. i \in s.slots => i \in s.deleting \/ i = s.session
  BY <1>1, <1>6 DEF Sessions
<1>11. SameTask(s.tasks[i], t.tasks[i])
  BY <1>3, <1>4
<1> QED
  BY <1>5, <1>6, <1>7, <1>8, <1>9, <1>10, <1>11, MoveHolds

\* What a task that reads for a capture that began alone may be handed.
LEMMA QuietFacts ==
  ASSUME NEW s, LogicInv(s), NEW i \in Ids(s), s.tasks[i].kind = "bounded",
         s.tasks[i].quiet = TRUE, Live(s, i)
  PROVE  /\ \A k \in DOMAIN s.queue : Carries(s.queue[k], i)
         /\ \A k \in DOMAIN s.down : Carries(s.down[k], i)
  BY DEF LogicInv, QuietRuns, OwnRun

\* A frame that is no answer goes to the reader or into the queue.
Kept(s, f, t) ==
  \/ /\ s.reader # 0
     /\ t = [s EXCEPT !.reader = 0, !.tasks[s.reader].wake = [t |-> f.t, op |-> f.op]]
  \/ s.reader = 0 /\ t = [s EXCEPT !.queue = Append(@, f)]

\* A capture frame goes to the reader or into the queue.
LEMMA KeptHolds ==
  ASSUME NEW s, LogicInv(s), NEW f \in LogicFrames, s.ws # 0,
         \A i \in Ids(s) : s.tasks[i].kind = "bounded" /\ s.tasks[i].quiet = TRUE /\ Live(s, i)
           => Carries(f, i),
         NEW t,
         Kept(s, f, t)
  PROVE  /\ LogicInv(t) /\ SameShow(s, t) /\ t.ws = s.ws /\ t.up = s.up /\ t.reader = 0
         /\ Ids(t) = Ids(s)
         /\ \A i \in Ids(s) : t.tasks[i].pc = s.tasks[i].pc
         /\ \A i \in Ids(s) : s.tasks[i].pc # "read" => t.tasks[i] = s.tasks[i]
<1>1. s \in LogicStates /\ Tended(s) /\ Linked(s) /\ s.reader \in Nat
  BY DEF LogicInv, LogicStates
<1>2. CASE s.reader # 0
  <2>1. PICK i : i = s.reader
    OBVIOUS
  <2>2. i \in Ids(s) /\ s.tasks[i].pc = "read" /\ i # 0
    BY <1>1, <1>2, <2>1 DEF Tended
  <2>3. s.ws = i => s.up = TRUE
    <3>1. s.up \in BOOLEAN
      BY <1>1 DEF LogicStates
    <3> QED
      BY <1>1, <2>2, <3>1 DEF Linked
  <2>4. PICK u : u = [s EXCEPT !.reader = 0]
    OBVIOUS
  <2>5. /\ u \in LogicStates /\ u.tasks = s.tasks /\ SameSlots(s, u) /\ SameWire(s, u)
        /\ u.gen = s.gen /\ u.session = s.session /\ u.queue = s.queue
        /\ u.reader = 0 /\ u.ws = s.ws /\ u.up = s.up
    BY <1>1, <2>4 DEF LogicStates, SameSlots, SameWire
  <2>6. SameBusy(s, u) /\ SameStream(s, u) /\ SameShow(s, u) /\ u.shot = s.shot
    BY <1>1, <2>4 DEF LogicStates, SameBusy, SameStream, SameShow
  <2>7. Tended(u)
    BY <1>1, <2>5, <2>6 DEF Tended, SameShow, Working, Cancelling, Capturing, Bounded, Live, Ids
  <2>8. LogicInv(u)
    BY <2>5, <2>6, <2>7, EditHolds DEF SameShow
  <2>9. /\ i \in Ids(u) /\ u.tasks[i] = s.tasks[i] /\ u.tasks[i].pc = "read"
        /\ u.tasks[i].pc \in LoopPcs /\ u.reader # i /\ (u.ws = i => u.up = TRUE)
    BY <2>2, <2>3, <2>5 DEF Ids, LoopPcs
  <2>10. u.tasks[i].kind = "bounded" /\ u.tasks[i].quiet = TRUE => Carries(f, i)
    BY <2>2, <2>9 DEF Live
  <2> DEFINE x == [u.tasks[i] EXCEPT !.pc = "read", !.wake = [t |-> f.t, op |-> f.op]]
  <2>11. x = [s.tasks[i] EXCEPT !.wake = [t |-> f.t, op |-> f.op]]
    <3>1. s.tasks[i] \in LogicTasks
      BY <1>1, <2>2 DEF LogicStates, Ids
    <3> QED
      BY <2>2, <2>9, <3>1 DEF LogicTasks
  <2>12. t = Put(u, i, x)
    <3>1. t = [s EXCEPT !.reader = 0, !.tasks = [s.tasks EXCEPT ![i] =
                 [s.tasks[i] EXCEPT !.wake = [t |-> f.t, op |-> f.op]]]]
      BY <1>1, <1>2, <2>1, <2>2 DEF Kept, LogicStates, Ids
    <3> HIDE DEF x
    <3> QED
      BY <1>1, <2>4, <2>5, <2>11, <3>1 DEF Put, LogicStates
  <2>13. LogicInv(t)
    BY <2>8, <2>9, <2>10, <2>12, HandHolds
  <2>14. OnlyPuts(u, t, i) /\ t.tasks[i].pc = "read"
    <3>1. x \in LogicTasks /\ x.pc = "read"
      <4>1. u.tasks[i] \in LogicTasks
        BY <2>5, <2>9 DEF LogicStates, Ids
      <4> QED
        BY <4>1 DEF LogicTasks, LogicWakes, LogicFrames, LoopPcs
    <3> HIDE DEF x
    <3> QED
      BY <2>5, <2>9, <2>12, <3>1, PutFacts
  <2>15. SameShow(s, t) /\ t.ws = s.ws /\ t.up = s.up /\ t.reader = 0
    BY <2>5, <2>6, <2>14 DEF OnlyPuts, SameCard, SameShow, SameLink, SameNet
  <2>16. /\ Ids(t) = Ids(s)
         /\ \A j \in Ids(s) : j # i => t.tasks[j] = s.tasks[j]
    BY <2>5, <2>14 DEF OnlyPuts, Puts, Ids
  <2> QED
    BY <2>2, <2>13, <2>14, <2>15, <2>16
<1>3. CASE s.reader = 0
  <2>1. PICK queue : queue = Append(s.queue, f)
    OBVIOUS
  <2>2. /\ queue \in Seq(LogicFrames)
        /\ \A i : (\A k \in DOMAIN s.queue : Carries(s.queue[k], i)) /\ Carries(f, i) =>
             \A k \in DOMAIN queue : Carries(queue[k], i)
    BY <1>1, <2>1, AppendCarry DEF LogicStates
  <2>3. t = [s EXCEPT !.queue = queue]
    BY <1>1, <1>3, <2>1 DEF Kept, LogicStates
  <2>4. /\ t \in LogicStates /\ t.tasks = s.tasks /\ SameSlots(s, t) /\ SameWire(s, t)
        /\ t.gen = s.gen /\ t.session = s.session /\ t.queue = queue
        /\ t.reader = 0 /\ t.ws = s.ws /\ t.up = s.up
    BY <1>1, <1>3, <2>2, <2>3 DEF LogicStates, SameSlots, SameWire
  <2>5. SameBusy(s, t) /\ SameStream(s, t) /\ SameShow(s, t) /\ t.shot = s.shot
    BY <1>1, <2>3 DEF LogicStates, SameBusy, SameStream, SameShow
  <2>6. Tended(t)
    BY <1>1, <2>4, <2>5 DEF Tended, SameShow, Working, Cancelling, Capturing, Bounded, Live, Ids
  <2>7. QuietRuns(t)
    <3>1. QuietRuns(s)
      BY DEF LogicInv
    <3>2. ASSUME NEW i \in Ids(s), OwnRun(s, i), s.tasks[i].kind = "bounded",
                 s.tasks[i].quiet = TRUE, Live(s, i)
          PROVE  OwnRun(t, i)
      <4>1. \A k \in DOMAIN queue : Carries(queue[k], i)
        BY <2>2, <3>2 DEF OwnRun
      <4> QED
        BY <2>4, <3>2, <4>1 DEF OwnRun, SameWire, Live, Ids
    <3> QED
      BY <2>4, <3>1, <3>2 DEF QuietRuns, Live, Ids
  <2>8. LogicInv(t)
    BY <2>4, <2>5, <2>6, <2>7, EditHolds DEF SameShow
  <2> QED
    BY <2>4, <2>5, <2>8 DEF Ids
<1> QED
  BY <1>2, <1>3

\* A frame arrives.
LEMMA DeliverHolds ==
  ASSUME LogicInv(la), Deliver
  PROVE  LogicInv(la')
<1>1. la \in LogicStates /\ Linked(la) /\ Gone(la) /\ Tended(la) /\ QuietRuns(la) /\ Quiet
      /\ la.down # <<>>
  BY DEF LogicInv, Deliver
<1>2. /\ la.ws # 0 /\ la.mounted = TRUE
  <2>1. la.mounted \in BOOLEAN
    BY <1>1 DEF LogicStates
  <2> QED
    BY <1>1, <2>1 DEF Linked, Gone
<1>3. PICK f : f = Head(la.down)
  OBVIOUS
<1>4. PICK down : down = Tail(la.down)
  OBVIOUS
<1>5. /\ f \in LogicFrames /\ down \in Seq(LogicFrames)
      /\ \A i : (\A k \in DOMAIN la.down : Carries(la.down[k], i)) =>
           Carries(f, i) /\ \A k \in DOMAIN down : Carries(down[k], i)
  BY <1>1, <1>3, <1>4, TailCarry DEF LogicStates
<1>6. PICK s : s = [la EXCEPT !.down = down]
  OBVIOUS
<1>7. PICK kept : kept = CASE f.t = "ok" -> s
                   [] f.t # "ok" /\ s.reader # 0 ->
                        [s EXCEPT !.reader = 0, !.tasks[s.reader].wake = [t |-> f.t, op |-> f.op]]
                   [] OTHER -> [s EXCEPT !.queue = Append(@, f)]
  OBVIOUS
<1>8. la' = IF f.req # "none" /\ Task(f.op).pc = f.req THEN Wake(kept, f.op, f.t) ELSE kept
  <2>1. s = [la EXCEPT !.down = Tail(@)]
    BY <1>1, <1>4, <1>6 DEF LogicStates
  <2> QED
    BY <1>3, <1>7, <2>1 DEF Deliver
<1>9. /\ s \in LogicStates /\ s.tasks = la.tasks /\ SameNet(la, s) /\ SameSlots(la, s)
      /\ s.down = down /\ s.phase = la.phase /\ s.run = la.run
  BY <1>1, <1>5, <1>6 DEF LogicStates, SameNet, SameSlots
<1>10. SameBusy(la, s) /\ SameStream(la, s) /\ SameShow(la, s) /\ s.shot = la.shot
  BY <1>1, <1>6 DEF LogicStates, SameBusy, SameStream, SameShow
<1>11. Linked(s)
  BY <1>1, <1>2, <1>9 DEF Linked, SameNet, Ids
<1>12. QuietRuns(s)
  <2>1. ASSUME NEW i \in Ids(la), OwnRun(la, i) PROVE OwnRun(s, i)
    <3>1. \A k \in DOMAIN down : Carries(down[k], i)
      BY <1>5, <2>1 DEF OwnRun
    <3> QED
      BY <1>9, <2>1, <3>1 DEF OwnRun, SameNet, Live, Ids
  <2> QED
    BY <1>1, <1>9, <2>1 DEF QuietRuns, Live, Ids
<1>13. LogicInv(s)
  BY <1>9, <1>10, <1>11, <1>12, EditHolds DEF SameNet, SameShow
<1>14. \A i \in Ids(s) : s.tasks[i].kind = "bounded" /\ s.tasks[i].quiet = TRUE /\ Live(s, i)
         => Carries(f, i)
  BY <1>5, <1>9, QuietFacts DEF Ids, Live
<1>15. /\ LogicInv(kept) /\ SameShow(s, kept) /\ kept.ws = s.ws /\ kept.up = s.up
       /\ kept.reader = 0 \/ kept.reader = s.reader
       /\ Ids(kept) = Ids(s)
       /\ \A i \in Ids(s) : s.tasks[i].pc # "read" => kept.tasks[i] = s.tasks[i]
  <2>1. CASE f.t = "ok"
    <3>1. kept = s
      BY <1>7, <2>1
    <3> QED
      BY <1>13, <3>1 DEF SameShow
  <2>2. CASE f.t # "ok"
    <3>1. Kept(s, f, kept)
      BY <1>7, <2>2 DEF Kept
    <3>2. s.ws # 0
      BY <1>2, <1>9 DEF SameNet
    <3>3. \A i \in Ids(s) : s.tasks[i].kind = "bounded" /\ s.tasks[i].quiet = TRUE /\ Live(s, i)
            => Carries(f, i)
      BY <1>14
    <3>4. /\ LogicInv(kept) /\ SameShow(s, kept) /\ kept.ws = s.ws /\ kept.up = s.up
          /\ kept.reader = 0 /\ Ids(kept) = Ids(s)
          /\ \A i \in Ids(s) : s.tasks[i].pc # "read" => kept.tasks[i] = s.tasks[i]
      <4>1. f \in LogicFrames
        BY <1>5
      <4> HIDE <1>5
      <4> QED
        BY <1>13, <3>1, <3>2, <3>3, <4>1, KeptHolds, ZenonT(60)
    <3> QED
      BY <3>4
  <2> QED
    BY <2>1, <2>2
<1>16. CASE ~(f.req # "none" /\ Task(f.op).pc = f.req)
  BY <1>8, <1>15, <1>16
<1>17. CASE f.req # "none" /\ Task(f.op).pc = f.req /\ f.op \notin Ids(la)
  <2>1. kept \in LogicStates /\ f.op \notin DOMAIN kept.tasks
    BY <1>9, <1>15, <1>17 DEF LogicInv, Ids
  <2>2. Wake(kept, f.op, f.t) = kept
    <3>1. Wake(kept, f.op, f.t) = [kept EXCEPT !.tasks = [kept.tasks EXCEPT ![f.op] =
            [kept.tasks[f.op] EXCEPT !.wake = [t |-> f.t, op |-> f.op]]]]
      BY <2>1 DEF Wake, LogicStates
    <3>2. kept.tasks \in Seq(LogicTasks)
      BY <2>1 DEF LogicStates
    <3>3. \A x : [kept.tasks EXCEPT ![f.op] = x] = kept.tasks
      BY <2>1, <3>2
    <3> QED
      BY <2>1, <3>1, <3>3 DEF LogicStates
  <2> QED
    BY <1>8, <1>15, <1>17, <2>2
<1>18. CASE f.req # "none" /\ Task(f.op).pc = f.req /\ f.op \in Ids(la)
  <2>1. PICK i : i = f.op
    OBVIOUS
  <2>2. /\ i \in Ids(la) /\ la.tasks[i].pc \in {"config", "begin", "halt"}
        /\ f.t \in WakeTypes /\ i \in TaskIds
    BY <1>5, <1>18, <2>1 DEF LogicFrames, Task, Ids, TaskIds
  <2>3. la.reader # i /\ (la.ws = i => la.up = TRUE) /\ i # 0
    BY <2>2, TaskFacts DEF Task
  <2>4. /\ i \in Ids(kept) /\ kept.tasks[i].pc \in {"config", "begin", "halt"} /\ Live(kept, i)
    BY <1>9, <1>15, <2>2 DEF Ids, Live
  <2>5. kept.reader # i /\ (kept.ws = i => kept.up = TRUE) /\ kept.mounted = TRUE
    BY <1>2, <1>9, <1>10, <1>15, <2>3 DEF SameNet, SameShow
  <2>6. la' = Wake(kept, i, f.t)
    BY <1>8, <1>18, <2>1
  <2> QED
    BY <1>15, <2>2, <2>4, <2>5, <2>6, WakeHolds
<1> QED
  BY <1>16, <1>17, <1>18

-----------------------------------------------------------------------------
(* The tasks between two awaits.                                            *)

\* A task reads its next frame.
LEMMA ReadHolds ==
  ASSUME LogicInv(la), ~Woken, NEW i \in TaskIds, Read(i)
  PROVE  LogicInv(la')
<1>1. Task(i).pc = "loop" /\ Task(i).wake = NoWake
  BY DEF Read, Woken
<1>2. /\ la \in LogicStates /\ i \in Ids(la) /\ la.tasks[i] \in LogicTasks
      /\ ShapeOf(la.tasks[i]) /\ la.reader # i /\ (la.ws = i => la.up = TRUE) /\ i \in Nat
  BY <1>1, TaskFacts
<1>3. /\ Tended(la) /\ QuietRuns(la) /\ Sessions(la) /\ Live(la, i) /\ la.tasks[i].pc \in LoopPcs
      /\ la.tasks[i].pc # "create"
  BY <1>1 DEF LogicInv, Live, Task, LoopPcs
<1>4. CASE la.queue # <<>>
  <2>1. PICK f : f = Head(la.queue)
    OBVIOUS
  <2>2. PICK queue : queue = Tail(la.queue)
    OBVIOUS
  <2>3. /\ f \in LogicFrames /\ queue \in Seq(LogicFrames)
        /\ \A j : (\A k \in DOMAIN la.queue : Carries(la.queue[k], j)) =>
             Carries(f, j) /\ \A k \in DOMAIN queue : Carries(queue[k], j)
    BY <1>2, <1>4, <2>1, <2>2, TailCarry DEF LogicStates
  <2>4. PICK u : u = [la EXCEPT !.queue = queue]
    OBVIOUS
  <2>5. /\ u \in LogicStates /\ u.tasks = la.tasks /\ SameSlots(la, u) /\ SameWire(la, u)
        /\ u.gen = la.gen /\ u.session = la.session /\ u.queue = queue
        /\ u.reader = la.reader /\ u.ws = la.ws /\ u.up = la.up
    BY <1>2, <2>3, <2>4 DEF LogicStates, SameSlots, SameWire
  <2>6. SameBusy(la, u) /\ SameStream(la, u) /\ SameShow(la, u) /\ u.shot = la.shot
    BY <1>2, <2>4 DEF LogicStates, SameBusy, SameStream, SameShow
  <2>7. Tended(u)
    BY <1>3, <1>4, <2>5, <2>6 DEF Tended, SameShow, Working, Cancelling, Capturing, Bounded, Live, Ids
  <2>8. QuietRuns(u)
    <3>1. ASSUME NEW j \in Ids(la), OwnRun(la, j) PROVE OwnRun(u, j)
      <4>1. \A k \in DOMAIN queue : Carries(queue[k], j)
        BY <2>3, <3>1 DEF OwnRun
      <4> QED
        BY <2>5, <3>1, <4>1 DEF OwnRun, SameWire, Live, Ids
    <3> QED
      BY <1>3, <2>5, <3>1 DEF QuietRuns, Live, Ids
  <2>9. LogicInv(u)
    BY <2>5, <2>6, <2>7, <2>8, EditHolds DEF SameShow
  <2>10. /\ i \in Ids(u) /\ u.tasks[i] = la.tasks[i] /\ u.tasks[i].pc \in LoopPcs
         /\ u.reader # i /\ (u.ws = i => u.up = TRUE)
    BY <1>2, <1>3, <2>5 DEF Ids
  <2>11. u.tasks[i].kind = "bounded" /\ u.tasks[i].quiet = TRUE => Carries(f, i)
    BY <1>2, <1>3, <2>3, <2>10, QuietFacts
  <2>12. la' = Put(u, i, [u.tasks[i] EXCEPT !.pc = "read", !.wake = [t |-> f.t, op |-> f.op]])
    <3>1. la' = [la EXCEPT !.queue = queue, !.tasks[i].pc = "read",
                           !.tasks[i].wake = [t |-> f.t, op |-> f.op]]
      BY <1>2, <1>4, <2>1, <2>2 DEF Read, LogicStates
    <3>2. PICK w : w = [t |-> f.t, op |-> f.op]
      OBVIOUS
    <3>3. la' = [u EXCEPT !.tasks[i].pc = "read", !.tasks[i].wake = w]
      BY <2>4, <3>1, <3>2
    <3>4. PICK x : x = [u.tasks[i] EXCEPT !.pc = "read", !.wake = w]
      OBVIOUS
    <3>5. la' = Put(u, i, x)
      <4>1. u.tasks[i] \in LogicTasks /\ i \in DOMAIN u.tasks /\ u.tasks \in Seq(LogicTasks)
        BY <1>2, <2>5, <2>10 DEF LogicStates, Ids
      <4>2. PICK v : v = Put(u, i, [u.tasks[i] EXCEPT !.pc = "read"])
        OBVIOUS
      <4>3. v = [u EXCEPT !.tasks[i].pc = "read"]
        BY <2>5, <4>1, <4>2 DEF Put, LogicStates, LogicTasks
      <4>4. la' = [v EXCEPT !.tasks[i].wake = w]
        BY <3>3, <4>3
      <4> QED
        BY <2>5, <3>4, <4>1, <4>2, <4>4, ZenonT(60) DEF Put, LogicStates, LogicTasks
    <3> QED
      BY <2>10, <3>2, <3>4, <3>5
  <2> QED
    BY <2>3, <2>9, <2>10, <2>11, <2>12, HandHolds
<1>5. CASE la.queue = <<>>
  <2>1. PICK u : u = At(la, i, "read")
    OBVIOUS
  <2>2. /\ OnlyPuts(la, u, i) /\ SameTask(la.tasks[i], u.tasks[i])
        /\ u.tasks[i].pc = "read" /\ u.tasks[i].next = la.tasks[i].next
        /\ u.tasks[i].wake = NoWake
    BY <1>2, <2>1, AtFacts DEF LoopPcs
  <2>3. /\ u \in LogicStates /\ Puts(la, u, i) /\ SameNet(la, u) /\ SameSlots(la, u)
        /\ SameWire(la, u) /\ SameCard(la, u)
    BY <2>2 DEF OnlyPuts, SameLink
  <2>4. /\ Live(u, i) /\ u.tasks[i].pc \in LoopPcs /\ u.tasks[i].kind = la.tasks[i].kind
        /\ u.tasks[i].pc \notin StartPcs \cup HaltPcs \cup NetAwaits \cup {"create"}
        /\ la.tasks[i].pc \notin StartPcs \cup HaltPcs
    BY <1>1, <2>2 DEF Live, LoopPcs, StartPcs, HaltPcs, NetAwaits, SameTask, Task
  <2>5. ShapeOf(u.tasks[i]) /\ (Occupying(la.tasks[i]) <=> Occupying(u.tasks[i]))
    BY <1>1, <1>2, <1>3, <2>2, <2>4 DEF ShapeOf, Occupying, Live, Task
  <2>6. Carries(u.tasks[i].wake, i)
    BY <2>2 DEF Carries, NoWake
  <2>7. i \in la.slots => i \in la.deleting \/ i = la.session
    BY <1>3 DEF Sessions
  <2>8. LogicInv(u)
    BY <1>2, <1>3, <2>2, <2>3, <2>4, <2>5, <2>6, <2>7, MoveHolds
  <2>9. la' = [u EXCEPT !.reader = i]
    BY <1>5, <2>1 DEF Read
  <2>10. /\ la' \in LogicStates /\ la'.tasks = u.tasks /\ SameSlots(u, la') /\ SameWire(u, la')
         /\ la'.gen = u.gen /\ la'.session = u.session /\ la'.queue = u.queue
         /\ la'.reader = i /\ la'.ws = u.ws /\ la'.up = u.up
    BY <1>2, <2>3, <2>9 DEF LogicStates, SameSlots, SameWire
  <2>11. SameBusy(u, la') /\ SameStream(u, la') /\ SameShow(u, la') /\ la'.shot = u.shot
    BY <2>3, <2>9 DEF LogicStates, SameBusy, SameStream, SameShow
  <2>12. Tended(la')
    <3>1. Tended(u) /\ i \in Ids(la')
      BY <1>2, <2>3, <2>8, <2>10 DEF LogicInv, Puts, Ids
    <3> QED
      BY <2>2, <2>10, <2>11, <3>1
         DEF Tended, SameShow, Working, Cancelling, Capturing, Bounded, Live, Ids
  <2> QED
    BY <2>8, <2>10, <2>11, <2>12, EditHolds DEF SameShow
<1> QED
  BY <1>4, <1>5

\* Where a task may go on to, and keep what it occupies.
GoesOn(s, i, pc) ==
  \/ pc = "loop" /\ s.tasks[i].pc = "read"
  \/ pc = "loop" /\ s.tasks[i].pc \in StartPcs /\ s.tasks[i].kind = "bounded"
  \/ pc = "settle" /\ s.tasks[i].pc = "halt"
  \/ pc = "drop" /\ s.tasks[i].pc = "create"
  \/ pc = "open" /\ s.tasks[i].pc = "create" /\ s.mounted = TRUE
  \/ /\ pc = "create" /\ s.tasks[i].pc = "start" /\ s.mounted = TRUE /\ s.ws = 0
     /\ s.tasks[i].kind \in {"bounded", "stream"}

\* A task that is woken goes on to an await of its own, and nothing else changes.
LEMMA GoesOnHolds ==
  ASSUME NEW s, LogicInv(s), NEW i \in Ids(s), Live(s, i), s.reader # i,
         s.ws = i => s.up = TRUE,
         NEW pc,
         GoesOn(s, i, pc),
         i \in s.slots => i \in s.deleting \/ i = s.session,
         NEW t, t = At(s, i, pc)
  PROVE  /\ LogicInv(t) /\ OnlyPuts(s, t, i) /\ SameTask(s.tasks[i], t.tasks[i])
         /\ t.tasks[i].pc = pc /\ t.tasks[i].next = s.tasks[i].next /\ t.tasks[i].wake = NoWake
<1>1. s \in LogicStates /\ ShapeOf(s.tasks[i])
  BY DEF LogicInv, Shapes
<1>2. pc \in StartPcs \cup LoopPcs \cup HaltPcs \cup {"over"}
  BY DEF GoesOn, StartPcs, LoopPcs, HaltPcs
<1>3. /\ OnlyPuts(s, t, i) /\ SameTask(s.tasks[i], t.tasks[i])
      /\ t.tasks[i].pc = pc /\ t.tasks[i].next = s.tasks[i].next
      /\ t.tasks[i].wake = NoWake
  BY <1>1, <1>2, AtFacts
<1>4. /\ t \in LogicStates /\ Puts(s, t, i) /\ SameNet(s, t) /\ SameSlots(s, t)
      /\ SameWire(s, t) /\ SameCard(s, t)
  BY <1>3 DEF OnlyPuts, SameLink
<1>5. t.tasks[i].kind = s.tasks[i].kind
  BY <1>3 DEF SameTask
<1>6. /\ Live(t, i) /\ t.tasks[i].pc # "read"
      /\ t.tasks[i].pc \in StartPcs => s.tasks[i].pc \in StartPcs
      /\ t.tasks[i].pc \in StartPcs => s.mounted = TRUE \/ t.tasks[i].pc = "drop"
      /\ s.tasks[i].pc \in LoopPcs => t.tasks[i].pc \in LoopPcs
      /\ t.tasks[i].pc \in NetAwaits => s.mounted = TRUE
      /\ t.tasks[i].pc = "create" => s.ws = 0 /\ s.mounted = TRUE
  BY <1>3 DEF GoesOn, Live, StartPcs, LoopPcs, HaltPcs, NetAwaits
<1>7. ShapeOf(t.tasks[i])
  BY <1>1, <1>3, <1>5 DEF GoesOn, ShapeOf, StartPcs, HaltPcs
<1>8. Occupying(s.tasks[i]) <=> Occupying(t.tasks[i])
  BY <1>1, <1>3, <1>5 DEF GoesOn, Occupying, StartPcs, Live
<1>9. /\ s.ws = i /\ s.up = FALSE => t.tasks[i].pc = "open" /\ t.tasks[i].wake = NoWake
      /\ s.tasks[i].kind = "stream" /\ s.tasks[i].pc \in LoopPcs
           => t.tasks[i].pc \in LoopPcs \/ s.streaming = FALSE
      /\ s.tasks[i].kind = "bounded" /\ t.tasks[i].next = "finish"
           => \/ s.tasks[i].next = "finish" \/ s.cancel = TRUE
              \/ s.state \in {"idle", "done"}
      /\ i \in s.slots =>
           \/ i \in s.deleting \/ i = s.session
           \/ t.tasks[i].pc = "create" /\ t.tasks[i].wake.t = "ok"
      /\ s.mounted = FALSE =>
           /\ t.tasks[i].pc \in NetAwaits => t.tasks[i].wake.t = "fail"
           /\ t.tasks[i].pc = "create" => t.tasks[i].gen # t.gen
      /\ s.tasks[i].kind = "bounded" /\ s.tasks[i].quiet = TRUE /\ t.tasks[i].pc = "read"
           => Carries(t.tasks[i].wake, i)
  BY <1>3, <1>6
<1>10. LogicInv(t)
  <2>1. SameTask(s.tasks[i], t.tasks[i]) /\ (SameWire(s, t) \/ WireFits(s, t))
    BY <1>3, <1>4
  <2>2. /\ Live(t, i)
        /\ t.tasks[i].pc \in StartPcs => s.tasks[i].pc \in StartPcs
        /\ t.tasks[i].pc = "create" => s.ws = 0
    BY <1>6
  <2>3. Live(s, i) /\ s.reader # i
    OBVIOUS
  <2> QED
    <3>1. Moves(s, t, i)
      BY <1>4, <1>7, <1>8, <1>9, <2>1, <2>2, <2>3 DEF Moves
    <3> QED
      BY <3>1, MovesHolds
<1> QED
  BY <1>3, <1>10

\* A session came: it is marked to be deleted, or becomes that of the page.
LEMMA ConnectingHolds ==
  ASSUME LogicInv(la), NEW i \in TaskIds, Connecting(i)
  PROVE  LogicInv(la')
<1>1. Task(i).pc = "create" /\ Task(i).wake # NoWake
  BY DEF Connecting
<1>2. /\ la \in LogicStates /\ i \in Ids(la) /\ i \in Nat /\ i # 0 /\ la.tasks[i] \in LogicTasks
      /\ ShapeOf(la.tasks[i]) /\ la.reader # i /\ (la.ws = i => la.up = TRUE)
  BY <1>1, TaskFacts
<1>3. /\ la.tasks[i].kind \in {"bounded", "stream"} /\ la.tasks[i].pc \in StartPcs /\ Live(la, i)
      /\ la.tasks[i].pc = "create" /\ Occupying(la.tasks[i])
  <2>1. la.tasks[i].kind \in {"bounded", "stream", "cancel", "stop"}
    BY <1>2 DEF LogicTasks
  <2> QED
    BY <1>1, <1>2, <2>1 DEF ShapeOf, StartPcs, HaltPcs, Live, Task, Occupying
<1>4. /\ Linked(la) /\ Sessions(la) /\ Gone(la) /\ Tended(la) /\ OneOccupies(la) /\ Shown(la)
      /\ Shapes(la)
  BY DEF LogicInv
<1>5. la.ws = 0 /\ la.session = 0 /\ la.up = FALSE
  <2>1. la.up \in BOOLEAN
    BY <1>2 DEF LogicStates
  <2> QED
    BY <1>2, <1>3, <1>4, <2>1 DEF Linked
<1>6. CASE Task(i).wake.t = "fail"
  <2>1. la' \in Fails(la, i)
    BY <1>6 DEF Connecting
  <2>2. Task(i).kind = "bounded" \/ (Task(i).kind = "stream" /\ Task(i).pc \in StartPcs)
    BY <1>3 DEF Task
  <2> QED
    BY <1>1, <1>2, <1>3, <1>6, <2>1, <2>2, FailsHolds
<1>7. PICK u : u = [la EXCEPT !.deleting = @ \cup {i}]
  OBVIOUS
<1>8. /\ u \in LogicStates /\ u.tasks = la.tasks /\ SameNet(la, u) /\ SameWire(la, u)
      /\ u.slots = la.slots /\ u.deleting = la.deleting \cup {i}
  BY <1>2, <1>7 DEF LogicStates, SameNet, SameWire
<1>9. SameBusy(la, u) /\ SameStream(la, u) /\ SameShow(la, u) /\ u.shot = la.shot
  BY <1>2, <1>7 DEF LogicStates, SameBusy, SameStream, SameShow
<1>10. Sessions(u)
  BY <1>2, <1>4, <1>8 DEF Sessions, SameNet, Ids
<1>11. LogicInv(u)
  BY <1>8, <1>9, <1>10, EditHolds DEF SameNet, SameShow
<1>12. /\ i \in Ids(u) /\ u.tasks[i] = la.tasks[i] /\ Live(u, i) /\ u.reader # i
       /\ (u.ws = i => u.up = TRUE) /\ i \in u.deleting
  BY <1>2, <1>3, <1>8 DEF Ids, Live, SameNet
<1>13. CASE Task(i).wake.t # "fail" /\ Task(i).gen # la.gen
  <2>1. la' = [At(la, i, "drop") EXCEPT !.deleting = @ \cup {i}]
    BY <1>13 DEF Connecting
  <2>2. la' = At(u, i, "drop")
    <3>1. PICK q : /\ At(la, i, "drop") = [la EXCEPT !.tasks = q]
                   /\ At(u, i, "drop") = [u EXCEPT !.tasks = q]
      BY <1>2, <1>8, AtIs
    <3> QED
      BY <1>2, <1>7, <2>1, <3>1 DEF LogicStates
  <2>3. GoesOn(u, i, "drop")
    BY <1>3, <1>12 DEF GoesOn
  <2> QED
    BY <1>11, <1>12, <2>2, <2>3, GoesOnHolds
<1>14. CASE Task(i).wake.t # "fail" /\ Task(i).gen = la.gen
  <2>1. la' = [At(la, i, "open") EXCEPT !.session = i, !.ws = i]
    BY <1>14 DEF Connecting
  <2>2. la.mounted = TRUE
    <3>1. la.mounted \in BOOLEAN
      BY <1>2 DEF LogicStates
    <3> QED
      BY <1>2, <1>3, <1>4, <1>14, <3>1 DEF Gone, Task
  <2>3. PICK v : v = At(u, i, "open")
    OBVIOUS
  <2>4. GoesOn(u, i, "open")
    BY <1>3, <1>9, <1>12, <2>2 DEF GoesOn, SameShow
  <2>5. /\ LogicInv(v) /\ OnlyPuts(u, v, i) /\ SameTask(u.tasks[i], v.tasks[i])
        /\ v.tasks[i].pc = "open" /\ v.tasks[i].wake = NoWake
    <3>1. Live(u, i) /\ u.reader # i /\ (u.ws = i => u.up = TRUE) /\ i \in Ids(u)
      BY <1>12
    <3>2. i \in u.slots => i \in u.deleting \/ i = u.session
      BY <1>12
    <3>3. LogicInv(v)
      BY <1>11, <2>3, <2>4, <3>1, <3>2, GoesOnHolds
    <3>4. /\ OnlyPuts(u, v, i) /\ SameTask(u.tasks[i], v.tasks[i])
          /\ v.tasks[i].pc = "open" /\ v.tasks[i].wake = NoWake
      BY <1>8, <2>3, <3>1, AtFacts DEF StartPcs
    <3> QED
      BY <3>3, <3>4
  <2>6. /\ v \in LogicStates /\ Puts(u, v, i) /\ SameNet(u, v) /\ SameSlots(u, v)
        /\ SameWire(u, v) /\ SameCard(u, v)
    BY <2>5 DEF OnlyPuts, SameLink
  <2>7. la' = [v EXCEPT !.session = i, !.ws = i, !.deleting = la.deleting]
    <3>1. PICK q : /\ At(la, i, "open") = [la EXCEPT !.tasks = q]
                   /\ At(u, i, "open") = [u EXCEPT !.tasks = q]
      BY <1>2, <1>8, AtIs
    <3> QED
      <4>1. PICK w : w = [la EXCEPT !.tasks = q]
        OBVIOUS
      <4>2. la' = [w EXCEPT !.session = i, !.ws = i]
        BY <2>1, <3>1, <4>1
      <4>3. w = [v EXCEPT !.deleting = la.deleting]
        BY <1>2, <1>7, <2>3, <3>1, <4>1 DEF LogicStates
      <4>4. la' = [[v EXCEPT !.deleting = la.deleting] EXCEPT !.session = i, !.ws = i]
        BY <4>2, <4>3
      <4> QED
        BY <2>6, <4>4 DEF LogicStates
  <2>8. la.deleting \in SUBSET Nat
    BY <1>2 DEF LogicStates
  <2>9. /\ la' \in LogicStates /\ la'.tasks = v.tasks /\ SameWire(v, la')
        /\ la'.gen = v.gen /\ la'.session = i /\ la'.queue = v.queue
        /\ la'.reader = v.reader /\ la'.ws = i /\ la'.up = v.up
        /\ la'.slots = v.slots /\ la'.deleting = la.deleting
    BY <1>2, <2>6, <2>7, <2>8 DEF LogicStates, SameWire
  <2>10. SameBusy(v, la') /\ SameStream(v, la') /\ SameShow(v, la') /\ la'.shot = v.shot
    BY <2>6, <2>7 DEF LogicStates, SameBusy, SameStream, SameShow
  <2>11. /\ Ids(la') = Ids(la) /\ la'.tasks[i].pc = "open" /\ la'.tasks[i].wake = NoWake
         /\ \A j \in Ids(la) : j # i => la'.tasks[j] = la.tasks[j]
         /\ la'.tasks[i].kind = la.tasks[i].kind
    BY <1>8, <1>12, <2>5, <2>6, <2>9 DEF Puts, Ids, SameTask
  <2>12. la'.up = FALSE /\ la'.slots = la.slots /\ la'.mounted = TRUE /\ la'.cancel = la.cancel
    BY <1>5, <1>8, <1>9, <2>2, <2>6, <2>9, <2>10 DEF SameNet, SameSlots, SameCard, SameShow
  <2>13. Linked(la')
    <3>1. ASSUME NEW j \in Ids(la'), la'.tasks[j].pc = "create" PROVE FALSE
      <4>1. j # i /\ j \in Ids(la) /\ la.tasks[j].pc = "create"
        BY <2>11, <3>1
      <4>2. Occupying(la.tasks[j])
        <5>1. la.tasks[j].kind \in {"bounded", "stream", "cancel", "stop"}
          <6>1. la.tasks[j] \in LogicTasks
            BY <1>2, <4>1 DEF LogicStates, Ids
          <6> QED
            BY <6>1 DEF LogicTasks
        <5>2. ShapeOf(la.tasks[j])
          BY <1>4, <4>1 DEF Shapes
        <5> QED
          BY <4>1, <5>1, <5>2 DEF ShapeOf, Occupying, StartPcs, HaltPcs
      <4> QED
        BY <1>2, <1>3, <1>4, <4>1, <4>2 DEF OneOccupies
    <3> QED
      BY <1>2, <2>9, <2>11, <2>12, <3>1 DEF Linked
  <2>14. Sessions(la')
    <3>1. \A j \in la.slots : j # i =>
            \/ j \in la.deleting
            \/ la.tasks[j].pc = "create" /\ la.tasks[j].wake.t = "ok"
      <4>1. \A j \in la.slots : j # 0
        BY <1>2, <1>4 DEF Sessions, LogicStates, Ids
      <4> QED
        BY <1>4, <1>5, <4>1 DEF Sessions
    <3> QED
      BY <1>4, <2>9, <2>11, <2>12, <3>1 DEF Sessions
  <2>15. Gone(la')
    BY <2>12 DEF Gone
  <2>16. Tended(la')
    <3>1. Tended(v)
      BY <2>5 DEF LogicInv
    <3>2. Working(la')
      BY <1>2, <2>11 DEF Working, Live
    <3>3. la'.cancel = TRUE /\ Capturing(la') => Cancelling(la')
      <4>1. CASE la.tasks[i].kind = "bounded"
        BY <1>2, <1>3, <1>4, <2>2, <2>12, <4>1 DEF Shown
      <4>2. CASE la.tasks[i].kind = "stream"
        <5>1. \A j \in Ids(la) : ~Bounded(la', j)
          <6>1. \A j \in Ids(la) : Bounded(la, j) => j = i
            BY <1>2, <1>3, <1>4 DEF OneOccupies, Occupying, Bounded, Live
          <6> QED
            BY <2>11, <4>2, <6>1 DEF Bounded, Live
        <5> QED
          BY <2>11, <5>1 DEF Capturing
      <4> QED
        BY <1>3, <4>1, <4>2
    <3>4. /\ la'.reader # 0 => la'.reader \in Ids(la') /\ la'.tasks[la'.reader].pc = "read"
                               /\ la'.tasks[la'.reader].wake = NoWake
      BY <2>9, <3>1 DEF Tended, Ids
    <3> QED
      BY <3>2, <3>3, <3>4 DEF Tended
  <2> QED
    BY <2>5, <2>9, <2>10, <2>13, <2>14, <2>15, <2>16, EditHolds DEF SameShow
<1> QED
  BY <1>6, <1>13, <1>14

\* A session of an older generation is deleted, the task fails.
LEMMA SessionDroppedHolds ==
  ASSUME LogicInv(la), NEW i \in TaskIds, SessionDropped(i)
  PROVE  LogicInv(la')
<1>1. Task(i).pc = "drop" /\ Task(i).wake # NoWake /\ la' \in Fails(la, i)
  BY DEF SessionDropped
<1>2. i \in Ids(la) /\ la.tasks[i] \in LogicTasks /\ ShapeOf(la.tasks[i])
  BY <1>1, TaskFacts
<1>3. Task(i).kind \in {"bounded", "stream"} /\ Task(i).pc \in StartPcs /\ Live(la, i)
  <2>1. la.tasks[i].kind \in {"bounded", "stream", "cancel", "stop"}
    BY <1>2 DEF LogicTasks
  <2> QED
    BY <1>1, <1>2, <2>1 DEF ShapeOf, StartPcs, HaltPcs, Live, Task
<1> QED
  BY <1>1, <1>2, <1>3, FailsHolds

\* The request is sent, or could not be built.
LEMMA StartingHolds ==
  ASSUME LogicInv(la), NEW i \in TaskIds, Starting(i)
  PROVE  LogicInv(la')
<1>1. Task(i).pc \in {"open", "config"} /\ Task(i).wake # NoWake
  BY DEF Starting
<1>2. /\ i \in Ids(la) /\ la.tasks[i] \in LogicTasks /\ ShapeOf(la.tasks[i])
      /\ la.reader # i /\ (la.ws = i => la.up = TRUE)
  BY <1>1, TaskFacts
<1>3. /\ Task(i).kind \in {"bounded", "stream"} /\ Task(i).pc \in StartPcs /\ Live(la, i)
      /\ la.tasks[i].next = "none" /\ Task(i).pc # "create"
  <2>1. la.tasks[i].kind \in {"bounded", "stream", "cancel", "stop"}
    BY <1>2 DEF LogicTasks
  <2> QED
    BY <1>1, <1>2, <2>1 DEF ShapeOf, StartPcs, HaltPcs, Live, Task
<1>4. CASE la' \in Fails(la, i)
  BY <1>1, <1>2, <1>3, <1>4, FailsHolds
<1>5. CASE la' \in Requested(la, i, IF Task(i).pc = "open" THEN "config" ELSE "begin")
  <2>1. PICK req : req = IF Task(i).pc = "open" THEN "config" ELSE "begin"
    OBVIOUS
  <2>2. /\ req \in Requests /\ la' \in Requested(la, i, req)
        /\ MayAsk(la, i, req, la.tasks[i].next)
    BY <1>3, <1>5, <2>1 DEF Requests, MayAsk, Task
  <2>3. ~(la.tasks[i].pc = "create" /\ la.tasks[i].wake.t = "ok")
    BY <1>3 DEF Task
  <2> QED
    BY <1>2, <1>3, <2>2, <2>3, RequestHolds
<1> QED
  BY <1>4, <1>5 DEF Starting

\* A bounded capture that reads, and was not cancelled, shows how far it is.
ShownAs(s, active, state) == [s EXCEPT !.active = active, !.state = state]

\* What is shown of a capture that runs.
LEMMA ShowHolds ==
  ASSUME NEW s, LogicInv(s), NEW i \in Ids(s), s.tasks[i].kind = "bounded",
         s.tasks[i].pc \in LoopPcs, s.cancel = FALSE,
         NEW state \in {"armed", "capturing"}, NEW active \in BOOLEAN,
         active = s.active \/ s.mounted = TRUE,
         NEW t, t = ShownAs(s, active, state)
  PROVE  LogicInv(t)
<1>1. /\ s \in LogicStates /\ Shown(s) /\ Gone(s) /\ Tended(s) /\ OneOccupies(s)
      /\ ShapeOf(s.tasks[i])
  BY DEF LogicInv, Shapes
<1>2. /\ t \in LogicStates /\ t.tasks = s.tasks /\ SameNet(s, t) /\ SameSlots(s, t)
      /\ SameWire(s, t) /\ SameBusy(s, t) /\ SameStream(s, t)
  BY <1>1 DEF ShownAs, LogicStates, SameNet, SameSlots, SameWire, SameBusy, SameStream
<1>3. /\ t.state = state /\ t.active = active /\ t.cancel = FALSE /\ t.mounted = s.mounted
      /\ t.shot = s.shot
  BY <1>1 DEF ShownAs, LogicStates
<1>4. Live(s, i) /\ s.tasks[i].next = "none" /\ s.tasks[i].pc \notin StartPcs
  BY <1>1 DEF ShapeOf, Live, LoopPcs, HaltPcs, StartPcs
<1>5. Shown(t)
  <2>1. Shooting(t)
    BY <1>2, <1>4 DEF Shooting, Bounded, Live, Ids
  <2>2. \A j \in Ids(t) : ~(t.tasks[j].kind = "bounded" /\ t.tasks[j].pc \in StartPcs)
    <3>1. ASSUME NEW j \in Ids(s), s.tasks[j].kind = "bounded", s.tasks[j].pc \in StartPcs
          PROVE  FALSE
      <4>1. Occupying(s.tasks[j]) /\ Occupying(s.tasks[i])
        BY <1>4, <3>1 DEF Occupying, Live, StartPcs
      <4> QED
        BY <1>1, <1>4, <3>1, <4>1 DEF OneOccupies
    <3> QED
      BY <1>2, <3>1 DEF Ids
  <2> QED
    BY <1>3, <2>1, <2>2 DEF Shown
<1>6. Gone(t)
  <2>1. CASE s.mounted = TRUE
    BY <1>3, <2>1 DEF Gone
  <2>2. CASE active = s.active
    BY <1>1, <1>2, <1>3, <2>2 DEF Gone, SameNet, Ids
  <2> QED
    BY <2>1, <2>2
<1>7. Tended(t)
  <2>1. Working(t)
    BY <1>2, <1>4 DEF Working, Live, Ids
  <2> QED
    BY <1>1, <1>2, <1>3, <2>1 DEF Tended, SameNet, Ids
<1> QED
  BY <1>2, <1>3, <1>5, <1>6, <1>7, EditHolds DEF SameNet

\* START is answered: the task reads, or stops what was cancelled meanwhile.
LEMMA BegunHolds ==
  ASSUME LogicInv(la), NEW i \in TaskIds, Begun(i)
  PROVE  LogicInv(la')
<1>1. Task(i).pc = "begin" /\ Task(i).wake # NoWake
  BY DEF Begun
<1>2. /\ la \in LogicStates /\ i \in Ids(la) /\ la.tasks[i] \in LogicTasks
      /\ ShapeOf(la.tasks[i]) /\ la.reader # i /\ (la.ws = i => la.up = TRUE)
  BY <1>1, TaskFacts
<1>3. /\ Task(i).kind \in {"bounded", "stream"} /\ Task(i).pc \in StartPcs /\ Live(la, i)
      /\ la.tasks[i].next = "none" /\ Task(i).pc # "create" /\ la.tasks[i].pc \in NetAwaits
      /\ la.tasks[i].pc \notin LoopPcs
  <2>1. la.tasks[i].kind \in {"bounded", "stream", "cancel", "stop"}
    BY <1>2 DEF LogicTasks
  <2> QED
    BY <1>1, <1>2, <2>1 DEF ShapeOf, StartPcs, HaltPcs, LoopPcs, NetAwaits, Live, Task
<1>4. la.cancel \in BOOLEAN /\ la.mounted \in BOOLEAN
  BY <1>2 DEF LogicStates
<1>5. CASE Task(i).wake.t # "ok" /\ la' \in Fails(la, i)
  BY <1>1, <1>2, <1>3, <1>5, FailsHolds
<1>6. CASE /\ la.cancel = TRUE
           /\ la' \in Halt(la, i, IF Task(i).kind = "bounded" THEN "finish" ELSE "unstreamed")
  <2>1. PICK next : next = IF Task(i).kind = "bounded" THEN "finish" ELSE "unstreamed"
    OBVIOUS
  <2>2. next \in Nexts /\ la' \in Halt(la, i, next) /\ MayAsk(la, i, "halt", next)
    BY <1>3, <1>6, <2>1 DEF Nexts, MayAsk, Task
  <2>3. ~(la.tasks[i].pc = "create" /\ la.tasks[i].wake.t = "ok")
    BY <1>3 DEF Task
  <2> QED
    BY <1>2, <1>3, <2>2, <2>3, HaltHolds
<1>7. Task(i).wake.t = "ok" => la.mounted = TRUE
  BY <1>2, <1>3, <1>4 DEF LogicInv, Gone, Task
<1>8. i \in la.slots => i \in la.deleting \/ i = la.session
  BY <1>3 DEF LogicInv, Sessions, Task
<1>9. PICK u : u = At(la, i, "loop")
  OBVIOUS
<1>10. /\ OnlyPuts(la, u, i) /\ SameTask(la.tasks[i], u.tasks[i])
       /\ u.tasks[i].pc = "loop" /\ u.tasks[i].next = la.tasks[i].next
       /\ u.tasks[i].wake = NoWake
  BY <1>2, <1>9, AtFacts DEF LoopPcs
<1>11. /\ u \in LogicStates /\ Puts(la, u, i) /\ SameNet(la, u) /\ SameSlots(la, u)
       /\ SameWire(la, u) /\ SameCard(la, u) /\ i \in Ids(u)
       /\ u.tasks[i].kind = la.tasks[i].kind
  BY <1>2, <1>10 DEF OnlyPuts, SameLink, Puts, SameTask
<1>12. CASE /\ Task(i).wake.t = "ok" /\ la.cancel = FALSE /\ Task(i).kind = "bounded"
            /\ la' = [At(la, i, "loop") EXCEPT !.active = TRUE,
                        !.state = IF Task(i).triggered THEN "capturing" ELSE "armed"]
  <2>1. PICK state : state = IF Task(i).triggered THEN "capturing" ELSE "armed"
    OBVIOUS
  <2>2. la' = ShownAs(u, TRUE, state)
    BY <1>9, <1>12, <2>1 DEF ShownAs
  <2>3. GoesOn(la, i, "loop")
    BY <1>3, <1>12 DEF GoesOn, Task
  <2>4. LogicInv(u)
    BY <1>2, <1>3, <1>8, <1>9, <2>3, GoesOnHolds
  <2>5. /\ u.tasks[i].kind = "bounded" /\ u.tasks[i].pc \in LoopPcs /\ u.cancel = FALSE
        /\ u.mounted = TRUE /\ state \in {"armed", "capturing"}
    BY <1>7, <1>10, <1>11, <1>12, <2>1 DEF LoopPcs, SameCard, SameShow, Task
  <2> QED
    BY <1>11, <2>2, <2>4, <2>5, ShowHolds
<1>13. CASE /\ Task(i).wake.t = "ok" /\ la.cancel = FALSE /\ Task(i).kind = "stream"
            /\ la' = [At(la, i, "loop") EXCEPT !.active = TRUE, !.stream = TRUE,
                        !.streaming = TRUE, !.starting = FALSE, !.busy = "none"]
  <2>1. PICK v : v = [u EXCEPT !.starting = FALSE, !.busy = "none"]
    OBVIOUS
  <2>2. la' = [v EXCEPT !.active = TRUE, !.stream = TRUE, !.streaming = TRUE]
    <3>1. la' = [u EXCEPT !.active = TRUE, !.stream = TRUE,
                          !.streaming = TRUE, !.starting = FALSE, !.busy = "none"]
      BY <1>9, <1>13
    <3> QED
      BY <1>11, <2>1, <3>1 DEF LogicStates
  <2>3. /\ v \in LogicStates /\ v.tasks = u.tasks /\ SameNet(u, v) /\ SameSlots(u, v)
        /\ SameWire(u, v) /\ v.starting = FALSE /\ v.busy = "none" /\ v.arming = u.arming
    BY <1>11, <2>1 DEF LogicStates, SameNet, SameSlots, SameWire
  <2>4. SameStream(u, v) /\ SameShow(u, v) /\ v.shot = u.shot
    BY <1>11, <2>1 DEF LogicStates, SameStream, SameShow
  <2>5. /\ Puts(la, v, i) /\ SameNet(la, v) /\ SameSlots(la, v) /\ SameWire(la, v)
        /\ SameTask(la.tasks[i], v.tasks[i]) /\ v.tasks[i] = u.tasks[i]
    BY <1>10, <1>11, <2>3 DEF Puts, Ids, SameNet, SameSlots, SameWire
  <2>6. SameStream(la, v) /\ SameShow(la, v) /\ v.shot = la.shot
    BY <1>11, <2>4 DEF SameCard, SameStream, SameShow
  <2>7. OneOccupies(v)
    <3>1. OneOccupies(la) /\ la.tasks[i].kind = "stream" /\ Occupying(la.tasks[i])
      BY <1>3, <1>13 DEF LogicInv, Occupying, Task
    <3>2. la.busy = "stream" /\ v.arming = FALSE
      <4>1. la.busy = "stream" /\ la.arming # TRUE
        BY <1>2, <3>1 DEF OneOccupies
      <4>2. la.arming \in BOOLEAN
        BY <1>2 DEF LogicStates
      <4> QED
        BY <1>11, <2>3, <4>1, <4>2 DEF SameCard, SameBusy
    <3>3. \A j \in Ids(v) : ~Occupying(v.tasks[j])
      <4>1. ~Occupying(v.tasks[i])
        BY <1>3, <1>10, <1>11, <2>5, <3>1 DEF Occupying, StartPcs
      <4>2. ASSUME NEW j \in Ids(v), j # i PROVE ~Occupying(v.tasks[j])
        BY <1>2, <2>5, <3>1, <4>2 DEF Puts, OneOccupies
      <4> QED
        BY <4>1, <4>2
    <3> QED
      BY <2>3, <3>2, <3>3 DEF OneOccupies
  <2>8. /\ Live(v, i) /\ v.tasks[i].pc = "loop" /\ v.tasks[i].pc \in LoopPcs
        /\ v.tasks[i].pc \notin StartPcs \cup NetAwaits /\ v.tasks[i].kind = "stream"
    BY <1>10, <1>11, <1>13, <2>5 DEF Live, LoopPcs, StartPcs, NetAwaits, Task
  <2>9. ShapeOf(v.tasks[i])
    BY <1>3, <1>10, <2>5, <2>8 DEF ShapeOf, HaltPcs
  <2>10. LogicInv(v)
    <3>1. v.tasks[i].pc # "create" /\ v.tasks[i].pc # "read"
      BY <2>8
    <3>2. v.tasks[i].pc \notin StartPcs /\ v.tasks[i].pc \notin NetAwaits
      BY <2>8
    <3>3. la.tasks[i].kind # "bounded"
      BY <1>13 DEF Task
    <3>4. la.ws # i \/ la.up = TRUE
      BY <1>2
    <3> QED
      BY <1>2, <1>3, <1>8, <2>3, <2>5, <2>6, <2>7, <2>8, <2>9, <3>1, <3>2, <3>3, <3>4, StepHolds
  <2>11. /\ la' \in LogicStates /\ la'.tasks = v.tasks /\ SameNet(v, la') /\ SameSlots(v, la')
         /\ SameWire(v, la') /\ SameBusy(v, la')
    BY <2>2, <2>3 DEF LogicStates, SameNet, SameSlots, SameWire, SameBusy
  <2>12. /\ la'.active = TRUE /\ la'.stream = TRUE /\ la'.streaming = TRUE
         /\ la'.cancel = v.cancel /\ la'.state = v.state /\ la'.mounted = v.mounted
         /\ la'.shot = v.shot
    BY <2>2, <2>3 DEF LogicStates
  <2>13. Streams(la')
    <3>1. Reading(la')
      BY <1>11, <2>3, <2>8, <2>11 DEF Reading, Ids
    <3> QED
      BY <2>12, <3>1 DEF Streams
  <2>14. Gone(la')
    <3>1. la'.mounted = TRUE
      BY <1>7, <1>13, <2>6, <2>12 DEF SameShow
    <3> QED
      BY <3>1 DEF Gone
  <2>15. Tended(la')
    <3>1. Tended(v) /\ Working(la')
      BY <1>11, <2>3, <2>8, <2>10, <2>11 DEF LogicInv, Working, Live, Ids
    <3> QED
      BY <2>11, <2>12, <3>1 DEF Tended, SameNet, Cancelling, Capturing, Bounded, Live, Ids
  <2> QED
    BY <2>10, <2>11, <2>12, <2>13, <2>14, <2>15, EditHolds DEF SameNet
<1> QED
  BY <1>3, <1>4, <1>5, <1>6, <1>12, <1>13 DEF Begun

\* The tasks keep what the invariant tells apart, but for marks that it allows.
MarksOnly(s, t) ==
  /\ Ids(t) = Ids(s)
  /\ \A j \in Ids(s) :
       /\ t.tasks[j].kind = s.tasks[j].kind /\ t.tasks[j].pc = s.tasks[j].pc
       /\ t.tasks[j].wake = s.tasks[j].wake /\ t.tasks[j].next = s.tasks[j].next
       /\ t.tasks[j].gen = s.tasks[j].gen /\ t.tasks[j].quiet = s.tasks[j].quiet
       /\ t.tasks[j].cancelled = s.tasks[j].cancelled \/ s.cancel = TRUE
       /\ t.tasks[j].kind = "bounded" /\ t.tasks[j].quiet = TRUE => t.tasks[j].own = TRUE

\* Marks on the tasks keep the invariant.
LEMMA MarksHolds ==
  ASSUME NEW s, LogicInv(s), NEW t, t \in LogicStates, SameLink(s, t), SameCard(s, t),
         MarksOnly(s, t)
  PROVE  LogicInv(t)
<1>1. SameNet(s, t) /\ SameSlots(s, t) /\ SameWire(s, t)
  BY DEF SameLink
<1>2. /\ Ids(t) = Ids(s)
      /\ \A j \in Ids(s) :
           /\ t.tasks[j].kind = s.tasks[j].kind /\ t.tasks[j].pc = s.tasks[j].pc
           /\ t.tasks[j].wake = s.tasks[j].wake /\ t.tasks[j].next = s.tasks[j].next
           /\ t.tasks[j].gen = s.tasks[j].gen /\ t.tasks[j].quiet = s.tasks[j].quiet
  BY DEF MarksOnly
<1>3. /\ \A j \in Ids(s) : /\ Live(s, j) <=> Live(t, j)
                           /\ Bounded(s, j) <=> Bounded(t, j)
                           /\ Occupying(s.tasks[j]) <=> Occupying(t.tasks[j])
                           /\ ShapeOf(s.tasks[j]) <=> ShapeOf(t.tasks[j])
  BY <1>2 DEF Live, Bounded, Occupying, ShapeOf
<1>4. /\ Working(s) <=> Working(t)
      /\ Cancelling(s) <=> Cancelling(t)
      /\ Shooting(s) <=> Shooting(t)
      /\ Reading(s) <=> Reading(t)
      /\ Occupied(s) <=> Occupied(t)
      /\ Capturing(s) <=> Capturing(t)
  BY <1>2, <1>3 DEF Working, Cancelling, Shooting, Reading, Occupied, Capturing
<1>5. Shapes(t) /\ OneOccupies(t) /\ Streams(t)
  <2>1. Shapes(s) /\ OneOccupies(s) /\ Streams(s)
    BY DEF LogicInv
  <2>2. Shapes(t)
    BY <1>2, <1>3, <2>1 DEF Shapes
  <2>3. OneOccupies(t)
    BY <1>2, <1>3, <1>4, <2>1 DEF OneOccupies, SameCard, SameBusy
  <2>4. Streams(t)
    BY <1>4, <2>1 DEF Streams, SameCard, SameStream
  <2> QED
    BY <2>2, <2>3, <2>4
<1>6. Shown(t)
  BY <1>2, <1>4 DEF LogicInv, Shown, SameCard, SameShow
<1>7. Linked(t)
  BY <1>1, <1>2 DEF LogicInv, Linked, SameNet, SameWire
<1>8. Sessions(t)
  <2>1. Sessions(s)
    BY DEF LogicInv
  <2> QED
    BY <1>1, <1>2, <2>1 DEF Sessions, SameNet, SameSlots
<1>9. Gone(t) /\ Generations(t)
  BY <1>1, <1>2 DEF LogicInv, Gone, Generations, SameCard, SameShow, SameNet
<1>10. Tended(t)
  <2>1. Tended(s)
    BY DEF LogicInv
  <2> QED
    BY <1>1, <1>2, <1>4, <2>1 DEF Tended, SameCard, SameShow, SameNet
<1>11. QuietRuns(t)
  <2>1. QuietRuns(s)
    BY DEF LogicInv
  <2>2. ASSUME NEW j \in Ids(s), OwnRun(s, j) PROVE OwnRun(t, j)
    BY <1>1, <1>2, <1>3, <2>2 DEF OwnRun, SameNet, SameWire
  <2> QED
    BY <1>2, <1>3, <2>1, <2>2 DEF QuietRuns, MarksOnly
<1>12. Cancelled(t)
  <2>1. Cancelled(s) /\ t.cancel = s.cancel /\ t.shot = s.shot
    BY DEF LogicInv, SameCard, SameShow
  <2>2. \A j \in Ids(t) : Bounded(t, j) /\ t.tasks[j].cancelled = TRUE => t.cancel = TRUE
    BY <1>2, <1>3, <2>1 DEF Cancelled, MarksOnly
  <2> QED
    BY <2>1, <2>2 DEF Cancelled
<1> QED
  BY <1>5, <1>6, <1>7, <1>8, <1>9, <1>10, <1>11, <1>12 DEF LogicInv

\* A capture counts what it takes: of what it owns, only its own frames.
LEMMA CountHolds ==
  ASSUME NEW s, LogicInv(s), NEW i \in Ids(s), s.tasks[i].kind = "bounded",
         NEW x \in LogicTasks, x.kind = "bounded", x.pc = s.tasks[i].pc,
         x.wake = s.tasks[i].wake, x.next = s.tasks[i].next, x.gen = s.tasks[i].gen,
         x.cancelled = s.tasks[i].cancelled, x.quiet = s.tasks[i].quiet,
         x.quiet = TRUE => x.own = TRUE,
         NEW t, t = Put(s, i, x)
  PROVE  LogicInv(t)
<1>1. s \in LogicStates /\ QuietRuns(s)
  BY DEF LogicInv
<1>2. OnlyPuts(s, t, i) /\ t.tasks[i] = x
  BY <1>1, PutFacts
<1>3. t \in LogicStates /\ Puts(s, t, i) /\ SameLink(s, t) /\ SameCard(s, t)
  BY <1>2 DEF OnlyPuts
<1>4. MarksOnly(s, t)
  BY <1>1, <1>2, <1>3 DEF MarksOnly, Puts, QuietRuns
<1> QED
  BY <1>3, <1>4, MarksHolds

\* What a capture takes is counted, shown, and may be all it asked for.
LEMMA TakesHolds ==
  ASSUME LogicInv(la), NEW i \in Ids(la), la.tasks[i].kind = "bounded",
         la.tasks[i].pc = "read", la.cancel = FALSE, la.reader # i, la.ws = i => la.up = TRUE,
         NEW x \in LogicTasks, x.kind = "bounded", x.pc = "read",
         x.wake = la.tasks[i].wake, x.next = la.tasks[i].next, x.gen = la.tasks[i].gen,
         x.cancelled = la.tasks[i].cancelled, x.quiet = la.tasks[i].quiet,
         x.quiet = TRUE => x.own = TRUE,
         NEW v, v = Put(ShownAs(la, la.active, "capturing"), i, x),
         NEW t, t \in Halt(v, i, "complete") \/ t = At(v, i, "loop")
  PROVE  LogicInv(t)
<1>1. PICK u : u = ShownAs(la, la.active, "capturing")
  OBVIOUS
<1>2. /\ LogicInv(u) /\ u.tasks = la.tasks /\ u.reader = la.reader /\ u.ws = la.ws
      /\ u.up = la.up
  <2>1. la.tasks[i].pc \in LoopPcs /\ la.active \in BOOLEAN /\ la \in LogicStates
    BY DEF LoopPcs, LogicInv, LogicStates
  <2>2. LogicInv(u)
    BY <1>1, <2>1, ShowHolds
  <2>3. u.tasks = la.tasks /\ u.reader = la.reader /\ u.ws = la.ws /\ u.up = la.up
    BY <1>1, <2>1 DEF ShownAs, LogicStates
  <2> QED
    BY <2>2, <2>3
<1>3. i \in Ids(u) /\ u.tasks[i] = la.tasks[i] /\ v = Put(u, i, x)
  BY <1>1, <1>2 DEF Ids
<1>4. LogicInv(v) /\ OnlyPuts(u, v, i) /\ v.tasks[i] = x
  <2>1. /\ u.tasks[i].kind = "bounded" /\ x.pc = u.tasks[i].pc
        /\ x.wake = u.tasks[i].wake /\ x.next = u.tasks[i].next /\ x.gen = u.tasks[i].gen
        /\ x.cancelled = u.tasks[i].cancelled /\ x.quiet = u.tasks[i].quiet
    BY <1>3
  <2>2. LogicInv(u) /\ i \in Ids(u) /\ v = Put(u, i, x) /\ u \in LogicStates
    BY <1>2, <1>3 DEF LogicInv
  <2>3. LogicInv(v)
    BY <2>1, <2>2, CountHolds
  <2>4. OnlyPuts(u, v, i) /\ v.tasks[i] = x
    BY <2>2, PutFacts
  <2> QED
    BY <2>3, <2>4
<1>5. /\ i \in Ids(v) /\ v.tasks[i].kind = "bounded" /\ v.tasks[i].pc = "read" /\ Live(v, i)
      /\ v.reader # i /\ (v.ws = i => v.up = TRUE)
  BY <1>2, <1>3, <1>4 DEF OnlyPuts, Puts, SameLink, SameNet, Live
<1>6. CASE t \in Halt(v, i, "complete")
  <2>1. MayAsk(v, i, "halt", "complete") /\ "complete" \in Nexts
    BY <1>5 DEF MayAsk, Nexts
  <2>2. ~(v.tasks[i].pc = "create" /\ v.tasks[i].wake.t = "ok")
    BY <1>5
  <2> QED
    BY <1>4, <1>5, <1>6, <2>1, <2>2, HaltHolds
<1>7. CASE t = At(v, i, "loop")
  <2>1. GoesOn(v, i, "loop")
    BY <1>5 DEF GoesOn
  <2>2. i \in v.slots => i \in v.deleting \/ i = v.session
    BY <1>4, <1>5 DEF LogicInv, Sessions
  <2> QED
    BY <1>4, <1>5, <1>7, <2>1, <2>2, GoesOnHolds
<1> QED
  BY <1>6, <1>7

\* A bounded capture takes a frame.
LEMMA TakenHolds ==
  ASSUME LogicInv(la), NEW i \in TaskIds, Taken(i)
  PROVE  LogicInv(la')
<1>1. Task(i).pc = "read" /\ Task(i).wake # NoWake /\ Task(i).kind = "bounded"
  BY DEF Taken
<1>2. /\ la \in LogicStates /\ i \in Ids(la) /\ la.tasks[i] \in LogicTasks /\ i \in Nat
      /\ ShapeOf(la.tasks[i]) /\ la.reader # i /\ (la.ws = i => la.up = TRUE)
  BY <1>1, TaskFacts
<1>3. /\ Live(la, i) /\ Bounded(la, i) /\ la.tasks[i].pc \in LoopPcs /\ la.tasks[i].pc = "read"
      /\ la.tasks[i].next = "none" /\ la.tasks[i].pc # "create" /\ la.tasks[i].kind = "bounded"
  BY <1>1, <1>2 DEF ShapeOf, LoopPcs, HaltPcs, Live, Bounded, Task
<1>4. la.cancel \in BOOLEAN /\ la.active \in BOOLEAN
  BY <1>2 DEF LogicStates
<1>5. la.tasks[i].quiet = TRUE => la.tasks[i].own = TRUE /\ Carries(la.tasks[i].wake, i)
  <2>1. QuietRuns(la)
    BY DEF LogicInv
  <2>2. la.tasks[i].quiet = TRUE => la.tasks[i].own = TRUE /\ OwnRun(la, i)
    BY <1>2, <1>3, <2>1 DEF QuietRuns
  <2> QED
    BY <1>3, <2>2 DEF OwnRun
<1>6. /\ la.tasks[i].count \in Nat /\ la.tasks[i].own \in BOOLEAN
      /\ la.tasks[i].quiet \in BOOLEAN
  BY <1>2 DEF LogicTasks
<1>7. i \in la.slots => i \in la.deleting \/ i = la.session
  BY <1>3 DEF LogicInv, Sessions
<1> DEFINE wake == la.tasks[i].wake
           Loop(s) == IF s.tasks[i].triggered /\ s.tasks[i].count >= Target
                      THEN Halt(s, i, "complete") ELSE {At(s, i, "loop")}
           u == ShownAs(la, la.active, "capturing")
<1>8. CASE la.cancel
  <2>1. la' = Finished(la, i) /\ la.cancel = TRUE
    BY <1>1, <1>4, <1>8 DEF Taken
  <2>2. SameLink(la, la) /\ SameBusy(la, la) /\ SameStream(la, la)
    BY DEF SameLink, SameNet, SameSlots, SameWire, SameBusy, SameStream
  <2>3. la.tasks[i].pc \in LoopPcs \cup HaltPcs
    BY <1>3
  <2> QED
    BY <1>2, <1>3, <2>1, <2>2, <2>3, FinishedHolds
<1>9. CASE ~la.cancel /\ wake.t = "data"
  <2>1. la' \in Loop([la EXCEPT !.tasks[i].count = @ + 1, !.state = "capturing",
                                !.tasks[i].own = @ /\ wake.op = i])
    BY <1>9 DEF Taken, Task
  <2>2. PICK own \in BOOLEAN : own = (la.tasks[i].own /\ wake.op = i)
    OBVIOUS
  <2>3. PICK count \in Nat : count = la.tasks[i].count + 1
    BY <1>6
  <2>4. PICK x : x = [la.tasks[i] EXCEPT !.count = count, !.own = own]
    OBVIOUS
  <2>5. PICK v : v = Put(u, i, x)
    OBVIOUS
  <2>6. la' \in Loop(v)
    <3>1. [la EXCEPT !.tasks[i].count = @ + 1, !.state = "capturing",
                     !.tasks[i].own = @ /\ wake.op = i]
            = [la EXCEPT !.state = "capturing", !.tasks = [la.tasks EXCEPT ![i] = x]]
      <4>1. la.tasks \in Seq(LogicTasks) /\ i \in DOMAIN la.tasks
        BY <1>2 DEF LogicStates, Ids
      <4>2. PICK y : y = [la.tasks[i] EXCEPT !.count = count]
        OBVIOUS
      <4>3. PICK p : p = [la EXCEPT !.tasks = [la.tasks EXCEPT ![i] = y]]
        OBVIOUS
      <4>4. [la EXCEPT !.tasks[i].count = @ + 1] = p
        BY <1>2, <2>3, <4>1, <4>2, <4>3 DEF LogicStates, LogicTasks
      <4>5. PICK r : r = [p EXCEPT !.state = "capturing"]
        OBVIOUS
      <4>6. y \in LogicTasks /\ x = [y EXCEPT !.own = own] /\ y.own = la.tasks[i].own
        BY <1>2, <2>2, <2>4, <2>3, <4>2 DEF LogicTasks
      <4>7. p.tasks[i] = y /\ r.tasks = p.tasks /\ r.tasks = [la.tasks EXCEPT ![i] = y]
        BY <1>2, <4>1, <4>3, <4>5 DEF LogicStates
      <4>8. [r EXCEPT !.tasks[i].own = @ /\ wake.op = i]
              = [r EXCEPT !.tasks = [la.tasks EXCEPT ![i] = x]]
        <5>1. [r EXCEPT !.tasks[i].own = @ /\ wake.op = i] = [r EXCEPT !.tasks[i].own = own]
          BY <2>2, <4>6, <4>7
        <5> QED
          BY <4>1, <4>6, <4>7, <5>1, SMTT(30)
      <4>9. [r EXCEPT !.tasks = [la.tasks EXCEPT ![i] = x]]
              = [la EXCEPT !.state = "capturing", !.tasks = [la.tasks EXCEPT ![i] = x]]
        BY <1>2, <4>3, <4>5 DEF LogicStates
      <4>10. [la EXCEPT !.tasks[i].count = @ + 1, !.state = "capturing",
                        !.tasks[i].own = @ /\ wake.op = i]
               = [[[la EXCEPT !.tasks[i].count = @ + 1] EXCEPT !.state = "capturing"]
                    EXCEPT !.tasks[i].own = @ /\ wake.op = i]
        OBVIOUS
      <4> QED
        BY <4>4, <4>5, <4>8, <4>9, <4>10
    <3>2. v = [la EXCEPT !.state = "capturing", !.tasks = [la.tasks EXCEPT ![i] = x]]
      BY <1>2, <2>5 DEF ShownAs, Put, LogicStates
    <3> QED
      BY <2>1, <3>1, <3>2
  <2>7. /\ x \in LogicTasks /\ x.kind = "bounded" /\ x.pc = "read"
        /\ x.wake = la.tasks[i].wake /\ x.next = la.tasks[i].next /\ x.gen = la.tasks[i].gen
        /\ x.cancelled = la.tasks[i].cancelled /\ x.quiet = la.tasks[i].quiet /\ x.own = own
    BY <1>2, <1>3, <2>4 DEF LogicTasks
  <2>8. x.quiet = TRUE => x.own = TRUE
    <3>1. la.tasks[i].quiet = TRUE => wake.op = i
      BY <1>5, <1>9 DEF Carries
    <3> QED
      BY <1>5, <2>2, <2>7, <3>1
  <2>9. la' \in Halt(v, i, "complete") \/ la' = At(v, i, "loop")
    BY <2>6
  <2>10. la.cancel = FALSE
    BY <1>4, <1>9
  <2> QED
    BY <1>2, <1>3, <2>5, <2>7, <2>8, <2>9, <2>10, TakesHolds
<1>10. CASE ~la.cancel /\ wake.t = "triggered"
  <2>1. la' \in Loop([la EXCEPT !.tasks[i].triggered = TRUE, !.state = "capturing",
                                !.tasks[i].own = @ /\ wake.op = i])
    BY <1>10 DEF Taken, Task
  <2>2. PICK own \in BOOLEAN : own = (la.tasks[i].own /\ wake.op = i)
    OBVIOUS
  <2>3. PICK x : x = [la.tasks[i] EXCEPT !.triggered = TRUE, !.own = own]
    OBVIOUS
  <2>4. PICK v : v = Put(u, i, x)
    OBVIOUS
  <2>5. la' \in Loop(v)
    <3>1. [la EXCEPT !.tasks[i].triggered = TRUE, !.state = "capturing",
                     !.tasks[i].own = @ /\ wake.op = i]
            = [la EXCEPT !.state = "capturing", !.tasks = [la.tasks EXCEPT ![i] = x]]
      <4>1. la.tasks \in Seq(LogicTasks) /\ i \in DOMAIN la.tasks
        BY <1>2 DEF LogicStates, Ids
      <4>2. PICK y : y = [la.tasks[i] EXCEPT !.triggered = TRUE]
        OBVIOUS
      <4>3. PICK p : p = [la EXCEPT !.tasks = [la.tasks EXCEPT ![i] = y]]
        OBVIOUS
      <4>4. [la EXCEPT !.tasks[i].triggered = TRUE] = p
        BY <1>2, <1>2, <4>1, <4>2, <4>3 DEF LogicStates, LogicTasks
      <4>5. PICK r : r = [p EXCEPT !.state = "capturing"]
        OBVIOUS
      <4>6. y \in LogicTasks /\ x = [y EXCEPT !.own = own] /\ y.own = la.tasks[i].own
        BY <1>2, <2>2, <2>3, <4>2 DEF LogicTasks
      <4>7. p.tasks[i] = y /\ r.tasks = p.tasks /\ r.tasks = [la.tasks EXCEPT ![i] = y]
        BY <1>2, <4>1, <4>3, <4>5 DEF LogicStates
      <4>8. [r EXCEPT !.tasks[i].own = @ /\ wake.op = i]
              = [r EXCEPT !.tasks = [la.tasks EXCEPT ![i] = x]]
        <5>1. [r EXCEPT !.tasks[i].own = @ /\ wake.op = i] = [r EXCEPT !.tasks[i].own = own]
          BY <2>2, <4>6, <4>7
        <5> QED
          BY <4>1, <4>6, <4>7, <5>1, ZenonT(60)
      <4>9. [r EXCEPT !.tasks = [la.tasks EXCEPT ![i] = x]]
              = [la EXCEPT !.state = "capturing", !.tasks = [la.tasks EXCEPT ![i] = x]]
        BY <1>2, <4>3, <4>5 DEF LogicStates
      <4>10. [la EXCEPT !.tasks[i].triggered = TRUE, !.state = "capturing",
                        !.tasks[i].own = @ /\ wake.op = i]
               = [[[la EXCEPT !.tasks[i].triggered = TRUE] EXCEPT !.state = "capturing"]
                    EXCEPT !.tasks[i].own = @ /\ wake.op = i]
        OBVIOUS
      <4> QED
        BY <4>4, <4>5, <4>8, <4>9, <4>10
    <3>2. v = [la EXCEPT !.state = "capturing", !.tasks = [la.tasks EXCEPT ![i] = x]]
      BY <1>2, <2>4 DEF ShownAs, Put, LogicStates
    <3> QED
      BY <2>1, <3>1, <3>2
  <2>6. /\ x \in LogicTasks /\ x.kind = "bounded" /\ x.pc = "read"
        /\ x.wake = la.tasks[i].wake /\ x.next = la.tasks[i].next /\ x.gen = la.tasks[i].gen
        /\ x.cancelled = la.tasks[i].cancelled /\ x.quiet = la.tasks[i].quiet /\ x.own = own
    BY <1>2, <1>3, <2>3 DEF LogicTasks
  <2>7. x.quiet = TRUE => x.own = TRUE
    <3>1. la.tasks[i].quiet = TRUE => wake.op = i
      BY <1>5, <1>10 DEF Carries
    <3> QED
      BY <1>5, <2>2, <2>6, <3>1
  <2>8. la' \in Halt(v, i, "complete") \/ la' = At(v, i, "loop")
    BY <2>5
  <2>9. la.cancel = FALSE
    BY <1>4, <1>10
  <2> QED
    BY <1>2, <1>3, <2>4, <2>6, <2>7, <2>8, <2>9, TakesHolds
<1>11. CASE ~la.cancel /\ wake.t \in {"armed", "running"}
  <2>1. PICK state \in {"armed", "capturing"} : la' = [At(la, i, "loop") EXCEPT !.state = state]
    BY <1>11 DEF Taken, Task
  <2>2. PICK v : v = At(la, i, "loop")
    OBVIOUS
  <2>3. GoesOn(la, i, "loop")
    BY <1>3 DEF GoesOn
  <2>4. LogicInv(v)
    BY <1>2, <1>3, <1>7, <2>2, <2>3, GoesOnHolds
  <2>5. /\ OnlyPuts(la, v, i) /\ SameTask(la.tasks[i], v.tasks[i]) /\ v.tasks[i].pc = "loop"
    BY <1>2, <2>2, AtFacts DEF LoopPcs
  <2>6. /\ i \in Ids(v) /\ v.tasks[i].kind = "bounded" /\ v.tasks[i].pc \in LoopPcs
        /\ v.cancel = FALSE /\ v.active \in BOOLEAN /\ v \in LogicStates
    BY <1>2, <1>3, <1>4, <1>11, <2>5
       DEF OnlyPuts, Puts, SameTask, LoopPcs, SameCard, SameShow
  <2>7. la' = ShownAs(v, v.active, state)
    BY <2>1, <2>2, <2>6 DEF ShownAs, LogicStates
  <2> QED
    BY <2>4, <2>6, <2>7, ShowHolds
<1>12. CASE la' \in Halt(la, i, "complete")
  <2>1. MayAsk(la, i, "halt", "complete") /\ "complete" \in Nexts
    BY <1>3 DEF MayAsk, Nexts
  <2>2. ~(la.tasks[i].pc = "create" /\ la.tasks[i].wake.t = "ok")
    BY <1>3
  <2> QED
    BY <1>2, <1>3, <1>12, <2>1, <2>2, HaltHolds
<1>13. CASE la' \in Fails(la, i)
  BY <1>1, <1>2, <1>3, <1>13, FailsHolds DEF Task
<1>14. \/ la.cancel
       \/ ~la.cancel /\ wake.t \in {"data", "triggered", "armed", "running"}
       \/ la' \in Halt(la, i, "complete")
       \/ la' \in Fails(la, i)
  BY DEF Taken, Task
<1> QED
  BY <1>8, <1>9, <1>10, <1>11, <1>12, <1>13, <1>14

\* A stream takes a frame.
LEMMA StreamTakenHolds ==
  ASSUME LogicInv(la), NEW i \in TaskIds, StreamTaken(i)
  PROVE  LogicInv(la')
<1>1. Task(i).pc = "read" /\ Task(i).wake # NoWake /\ Task(i).kind = "stream"
  BY DEF StreamTaken
<1>2. /\ la \in LogicStates /\ i \in Ids(la) /\ la.reader # i /\ (la.ws = i => la.up = TRUE)
  BY <1>1, TaskFacts
<1>3. /\ Live(la, i) /\ la.tasks[i].pc \in LoopPcs /\ la.tasks[i].pc = "read"
      /\ la.tasks[i].pc # "create" /\ la.tasks[i].kind = "stream"
  BY <1>1 DEF LoopPcs, Live, Task
<1>4. CASE la' = At(la, i, "loop")
  <2>1. GoesOn(la, i, "loop")
    BY <1>3 DEF GoesOn
  <2>2. i \in la.slots => i \in la.deleting \/ i = la.session
    BY <1>3 DEF LogicInv, Sessions
  <2> QED
    BY <1>2, <1>3, <1>4, <2>1, <2>2, GoesOnHolds
<1>5. CASE la' \in Streamed(la, i)
  <2>1. PICK u : u = [la EXCEPT !.stream = FALSE, !.streaming = FALSE]
    OBVIOUS
  <2>2. /\ u \in LogicStates /\ u.tasks = la.tasks /\ SameNet(la, u) /\ SameSlots(la, u)
        /\ SameWire(la, u) /\ u.stream = FALSE /\ u.streaming = FALSE
    BY <1>2, <2>1 DEF LogicStates, SameNet, SameSlots, SameWire
  <2>3. SameBusy(la, u) /\ SameShow(la, u) /\ u.shot = la.shot
    BY <1>2, <2>1 DEF LogicStates, SameBusy, SameShow
  <2>4. Streams(u)
    BY <2>2 DEF Streams
  <2>5. LogicInv(u)
    BY <2>2, <2>3, <2>4, EditHolds DEF SameNet, SameShow
  <2>6. /\ i \in Ids(u) /\ u.tasks[i] = la.tasks[i] /\ Live(u, i) /\ u.reader # i
        /\ (u.ws = i => u.up = TRUE)
    BY <1>2, <1>3, <2>2 DEF Ids, Live, SameNet
  <2>7. MayAsk(u, i, "halt", "streamed") /\ "streamed" \in Nexts
    BY <1>3, <2>2, <2>6 DEF MayAsk, Nexts
  <2>8. ~(u.tasks[i].pc = "create" /\ u.tasks[i].wake.t = "ok")
    BY <1>3, <2>6
  <2>9. la' \in Halt(u, i, "streamed")
    BY <1>5, <2>1 DEF Streamed
  <2> QED
    BY <2>5, <2>6, <2>7, <2>8, <2>9, HaltHolds
<1> QED
  BY <1>4, <1>5 DEF StreamTaken

\* STOP is answered, or not.
LEMMA HaltedHolds ==
  ASSUME LogicInv(la), NEW i \in TaskIds, Halted(i)
  PROVE  LogicInv(la')
<1>1. Task(i).pc = "halt" /\ Task(i).wake # NoWake
  BY DEF Halted
<1>2. /\ i \in Ids(la) /\ la.reader # i /\ (la.ws = i => la.up = TRUE)
  BY <1>1, TaskFacts
<1>3. Live(la, i) /\ Task(i).pc \in HaltPcs /\ la.tasks[i].pc # "create"
  BY <1>1 DEF HaltPcs, Live, Task
<1>4. CASE la' = At(la, i, "settle")
  <2>1. GoesOn(la, i, "settle")
    BY <1>1 DEF GoesOn, Task
  <2>2. i \in la.slots => i \in la.deleting \/ i = la.session
    BY <1>3 DEF LogicInv, Sessions
  <2> QED
    BY <1>2, <1>3, <1>4, <2>1, <2>2, GoesOnHolds
<1>5. CASE la' \in AfterHalt(Closed(la), i)
  BY <1>2, <1>3, <1>5, ClosesHolds
<1> QED
  BY <1>4, <1>5 DEF Halted

-----------------------------------------------------------------------------
(* The clicks.                                                              *)

\* A task n of the kind begins in t.
Added(t, n, kind) ==
  /\ n \in Nat /\ n # 0 /\ n \notin Ids(la) /\ Ids(t) = Ids(la) \cup {n}
  /\ \A j \in Ids(la) : t.tasks[j] = la.tasks[j]
  /\ t.tasks[n].kind = kind /\ t.tasks[n].pc = "start" /\ t.tasks[n].wake = NoWake
  /\ t.tasks[n].next = "none" /\ t.tasks[n].gen = la.gen /\ t.tasks[n].own = TRUE
  /\ t.tasks[n].cancelled = FALSE
  /\ t.tasks[n].quiet = TRUE => ~Working(la)

\* What a click adds.
LEMMA ClickedFacts ==
  ASSUME la \in LogicStates, NEW kind \in {"bounded", "stream", "cancel", "stop"},
         NEW immediate \in BOOLEAN, NEW s \in LogicStates, s.tasks = la.tasks,
         NEW t, t = Clicked(kind, immediate, s),
         NEW n, n = Len(la.tasks) + 1
  PROVE  /\ t \in LogicStates /\ Added(t, n, kind) /\ SameLink(s, t) /\ SameCard(s, t)
         /\ Len(t.tasks) = n
<1>1. /\ la.tasks \in Seq(LogicTasks) /\ Len(la.tasks) \in Nat /\ Ids(la) = 1..Len(la.tasks)
      /\ la.gen \in Nat
  BY DEF LogicStates, Ids
<1>2. PICK x : x = NewTask(kind, immediate)
  OBVIOUS
<1>3. x \in LogicTasks
  <2>1. PICK quiet \in BOOLEAN : quiet = \A i \in TaskIds : Task(i).pc = "over"
    OBVIOUS
  <2>2. x = [kind |-> kind, pc |-> "start", wake |-> NoWake, next |-> "none", gen |-> la.gen,
             count |-> 0, own |-> TRUE, triggered |-> immediate, cancelled |-> FALSE,
             quiet |-> quiet]
    BY <1>2, <2>1 DEF NewTask
  <2>3. NoWake \in LogicWakes
    BY DEF NoWake, LogicWakes, WakeTypes
  <2> QED
    BY <1>1, <2>2, <2>3 DEF LogicTasks, StartPcs
<1>4. /\ x.kind = kind /\ x.pc = "start" /\ x.wake = NoWake /\ x.next = "none"
      /\ x.gen = la.gen /\ x.own = TRUE /\ x.cancelled = FALSE
      /\ x.quiet = TRUE => ~Working(la)
  BY <1>2 DEF NewTask, Working, Live, TaskIds, Task, Ids
<1>5. n \in Nat /\ n # 0 /\ n \notin Ids(la) /\ 1..n = Ids(la) \cup {n}
  BY <1>1
<1>6. PICK q : q = [i \in 1..n |-> IF i \in DOMAIN la.tasks THEN la.tasks[i] ELSE x]
  OBVIOUS
<1>7. /\ q \in Seq(LogicTasks) /\ DOMAIN q = Ids(la) \cup {n} /\ q[n] = x /\ Len(q) = n
      /\ \A j \in Ids(la) : q[j] = la.tasks[j]
  <2>1. \A i \in 1..n : (IF i \in DOMAIN la.tasks THEN la.tasks[i] ELSE x) \in LogicTasks
    BY <1>1, <1>3
  <2>2. q \in [1..n -> LogicTasks]
    BY <1>6, <2>1
  <2>3. q \in Seq(LogicTasks) /\ Len(q) = n
    BY <1>5, <2>2
  <2> QED
    BY <1>5, <1>6, <2>3 DEF Ids
<1>8. t = [s EXCEPT !.tasks = q]
  BY <1>2, <1>6 DEF Clicked
<1>9. t \in LogicStates /\ t.tasks = q
  BY <1>7, <1>8, ZenonT(60) DEF LogicStates
<1>10. SameLink(s, t) /\ SameCard(s, t)
  BY <1>8 DEF LogicStates, SameLink, SameNet, SameSlots, SameWire, SameCard, SameBusy,
              SameStream, SameShow
<1>11. Added(t, n, kind)
  BY <1>4, <1>5, <1>7, <1>9 DEF Added, Ids
<1> QED
  BY <1>7, <1>9, <1>10, <1>11

\* A task begins: what the card then shows fits the tasks there were and the new one.
LEMMA AddHolds ==
  ASSUME LogicInv(la), la.mounted = TRUE,
         NEW kind \in {"bounded", "stream", "cancel", "stop"}, NEW n, NEW t,
         t \in LogicStates, Added(t, n, kind), SameLink(la, t),
         t.active = la.active, t.mounted = TRUE,
         OneOccupies(t), Streams(t), Shown(t), Cancelled(t),
         (t.ws # 0 \/ t.queue # <<>>) /\ t.cancel = TRUE /\ Capturing(t) => Cancelling(t),
         \/ kind = "cancel"
         \/ \A j \in Ids(la) : Bounded(la, j) => la.tasks[j].quiet # TRUE
  PROVE  LogicInv(t) /\ t.reader # n /\ t.ws # n /\ n \notin t.slots
<1>1. /\ n \in Nat /\ n # 0 /\ n \notin Ids(la) /\ Ids(t) = Ids(la) \cup {n}
      /\ \A j \in Ids(la) : t.tasks[j] = la.tasks[j]
      /\ t.tasks[n].kind = kind /\ t.tasks[n].pc = "start" /\ t.tasks[n].wake = NoWake
      /\ t.tasks[n].next = "none" /\ t.tasks[n].gen = la.gen /\ t.tasks[n].own = TRUE
      /\ t.tasks[n].cancelled = FALSE
      /\ t.tasks[n].quiet = TRUE => ~Working(la)
  BY DEF Added
<1>2. /\ la \in LogicStates /\ Shapes(la) /\ Linked(la) /\ Sessions(la) /\ Tended(la)
      /\ Generations(la) /\ QuietRuns(la)
  BY DEF LogicInv
<1>3. SameNet(la, t) /\ SameSlots(la, t) /\ SameWire(la, t)
  BY DEF SameLink
<1>4. Shapes(t)
  <2>1. ShapeOf(t.tasks[n])
    BY <1>1 DEF ShapeOf, HaltPcs
  <2> QED
    BY <1>1, <1>2, <2>1 DEF Shapes
<1>5. Linked(t)
  BY <1>1, <1>2, <1>3 DEF Linked, SameNet, SameWire
<1>6. Sessions(t)
  <2>1. \A j \in t.slots : j \in Ids(la)
    BY <1>2, <1>3 DEF Sessions, SameSlots
  <2> QED
    BY <1>1, <1>2, <1>3, <2>1 DEF Sessions, SameNet, SameSlots
<1>7. Gone(t) /\ Generations(t)
  <2>1. la.gen \in Nat
    BY <1>2 DEF LogicStates
  <2> QED
    BY <1>1, <1>2, <1>3, <2>1 DEF Gone, Generations, SameNet
<1>8. Tended(t)
  <2>1. Working(t)
    BY <1>1 DEF Working, Live
  <2> QED
    BY <1>1, <1>2, <1>3, <2>1 DEF Tended, SameNet
<1>9. QuietRuns(t)
  <2>1. ASSUME NEW j \in Ids(la), t.tasks[j].kind = "bounded", t.tasks[j].quiet = TRUE
        PROVE  t.tasks[j].own = TRUE /\ (Live(t, j) => OwnRun(t, j))
    <3>1. t.tasks[j] = la.tasks[j]
      BY <1>1
    <3>2. ASSUME Live(t, j) PROVE OwnRun(t, j)
      <4>1. Live(la, j) /\ Bounded(la, j)
        BY <2>1, <3>1, <3>2 DEF Live, Bounded
      <4>2. OwnRun(la, j)
        BY <1>2, <2>1, <3>1, <4>1 DEF QuietRuns
      <4>3. kind = "cancel"
        BY <2>1, <3>1, <4>1
      <4>4. \A k \in Ids(t) : Live(t, k) => k = j \/ t.tasks[k].kind = "cancel"
        BY <1>1, <4>2, <4>3 DEF OwnRun, Live
      <4> QED
        BY <1>3, <3>1, <4>2, <4>4 DEF OwnRun, SameNet, SameWire
    <3> QED
      BY <1>2, <2>1, <3>1, <3>2 DEF QuietRuns
  <2>2. ASSUME t.tasks[n].quiet = TRUE PROVE OwnRun(t, n)
    <3>1. ~Working(la)
      BY <1>1, <2>2
    <3>2. la.ws = 0 /\ la.queue = <<>>
      BY <1>2, <3>1 DEF Tended
    <3>3. la.phase = "none" /\ la.down = <<>>
      BY <1>2, <3>2 DEF Linked
    <3>4. \A k \in Ids(t) : Live(t, k) => k = n
      BY <1>1, <3>1 DEF Working, Live
    <3> QED
      BY <1>1, <1>3, <3>2, <3>3, <3>4 DEF OwnRun, SameNet, SameWire
  <2> QED
    BY <1>1, <2>1, <2>2 DEF QuietRuns
<1>10. LogicInv(t)
  BY <1>4, <1>5, <1>6, <1>7, <1>8, <1>9 DEF LogicInv
<1> QED
  BY <1>1, <1>2, <1>3, <1>10 DEF Tended, Linked, Sessions, SameNet, SameSlots

\* ensureConnected, and what follows at once.
LEMMA EnsuredHolds ==
  ASSUME NEW s, LogicInv(s), NEW n \in Ids(s), s.tasks[n].kind \in {"bounded", "stream"},
         s.tasks[n].pc = "start", s.tasks[n].wake = NoWake, s.reader # n, s.ws # n,
         n \notin s.slots, s.mounted = TRUE, NEW t \in Ensured(s, n)
  PROVE  LogicInv(t)
<1>1. /\ s \in LogicStates /\ Linked(s) /\ OneOccupies(s) /\ Shapes(s) /\ s.up \in BOOLEAN
      /\ Live(s, n) /\ s.tasks[n].pc \in StartPcs
  BY DEF LogicInv, LogicStates, Live, StartPcs
<1>2. s.tasks[n].next = "none" /\ Occupying(s.tasks[n])
  BY <1>1 DEF Shapes, ShapeOf, HaltPcs, Occupying
<1>3. CASE s.up = TRUE
  <2>1. t \in Requested(s, n, "config") /\ "config" \in Requests
    BY <1>3 DEF Ensured, Requests
  <2>2. MayAsk(s, n, "config", s.tasks[n].next)
    BY <1>1, <1>2 DEF MayAsk
  <2> QED
    BY <1>1, <2>1, <2>2, RequestHolds
<1>4. CASE s.up = FALSE
  <2>1. t = At(s, n, "create")
    BY <1>4 DEF Ensured
  <2>2. s.ws = 0
    <3>1. ASSUME s.ws # 0 PROVE FALSE
      <4>1. s.ws \in Ids(s) /\ s.tasks[s.ws].pc = "open"
        BY <1>1, <1>4, <3>1 DEF Linked
      <4>2. Occupying(s.tasks[s.ws])
        <5>1. s.tasks[s.ws].kind \in {"bounded", "stream", "cancel", "stop"}
          <6>1. s.tasks[s.ws] \in LogicTasks
            BY <1>1, <4>1 DEF LogicStates, Ids
          <6> QED
            BY <6>1 DEF LogicTasks
        <5>2. ShapeOf(s.tasks[s.ws])
          BY <1>1, <4>1 DEF Shapes
        <5> QED
          BY <4>1, <5>1, <5>2 DEF ShapeOf, Occupying, StartPcs, HaltPcs
      <4> QED
        BY <1>1, <1>2, <4>1, <4>2 DEF OneOccupies
    <3> QED
      BY <3>1
  <2>3. GoesOn(s, n, "create")
    BY <2>2 DEF GoesOn
  <2> QED
    BY <1>1, <2>1, <2>3, GoesOnHolds
<1> QED
  BY <1>1, <1>3, <1>4

\* Whom the card's busy mark is for.
LEMMA IdleFacts ==
  ASSUME LogicInv(la), la.busy = "none"
  PROVE  /\ \A j \in Ids(la) : ~Occupying(la.tasks[j]) /\ ~Bounded(la, j)
         /\ la.arming = FALSE /\ la.starting = FALSE
<1>1. OneOccupies(la) /\ la \in LogicStates
  BY DEF LogicInv
<1>2. \A j \in Ids(la) : ~Occupying(la.tasks[j])
  <2>1. ASSUME NEW j \in Ids(la), Occupying(la.tasks[j]) PROVE FALSE
    <3>1. la.tasks[j].kind = "none"
      BY <1>1, <2>1 DEF OneOccupies
    <3> QED
      BY <2>1, <3>1 DEF Occupying
  <2> QED
    BY <2>1
<1>3. \A j \in Ids(la) : ~Bounded(la, j)
  BY <1>2 DEF Bounded, Occupying, Live
<1>4. la.arming \in BOOLEAN /\ la.starting \in BOOLEAN
  BY <1>1 DEF LogicStates
<1> QED
  BY <1>1, <1>2, <1>3, <1>4 DEF OneOccupies

\* A bounded capture is begun.
LEMMA ArmHolds ==
  ASSUME LogicInv(la), Arm
  PROVE  LogicInv(la')
<1>1. PICK immediate \in BOOLEAN :
        /\ MayClick /\ la.busy = "none" /\ ~la.stream
        /\ la' \in Ensured(Clicked("bounded", immediate,
             [la EXCEPT !.cancel = FALSE, !.busy = "bounded", !.arming = TRUE,
                        !.state = "idle", !.shot = NoShot]), Len(la.tasks) + 1)
  BY DEF Arm
<1>2. la \in LogicStates /\ la.mounted = TRUE /\ Streams(la)
  BY <1>1 DEF LogicInv, MayClick, LogicStates
<1>3. /\ \A j \in Ids(la) : ~Occupying(la.tasks[j]) /\ ~Bounded(la, j)
      /\ la.arming = FALSE /\ la.starting = FALSE
  BY <1>1, IdleFacts
<1>4. PICK s : s = [la EXCEPT !.cancel = FALSE, !.busy = "bounded", !.arming = TRUE,
                              !.state = "idle", !.shot = NoShot]
  OBVIOUS
<1>5. NoShot \in LogicShots /\ NoShot.op = 0 /\ NoShot.cancelled = FALSE
  BY DEF NoShot, LogicShots
<1>6. /\ s \in LogicStates /\ s.tasks = la.tasks /\ SameLink(la, s) /\ SameStream(la, s)
      /\ s.active = la.active /\ s.mounted = TRUE /\ s.starting = FALSE
      /\ s.cancel = FALSE /\ s.busy = "bounded" /\ s.arming = TRUE /\ s.state = "idle"
      /\ s.shot = NoShot
  <2>1. PICK w : w = [la EXCEPT !.cancel = FALSE, !.busy = "bounded", !.arming = TRUE]
    OBVIOUS
  <2>2. w \in LogicStates /\ w.tasks = la.tasks
    BY <1>2, <2>1 DEF LogicStates
  <2>3. s = [w EXCEPT !.state = "idle", !.shot = NoShot]
    BY <1>4, <2>1
  <2>4. s \in LogicStates /\ s.tasks = la.tasks
    BY <1>5, <2>2, <2>3 DEF LogicStates
  <2>5. SameLink(la, s) /\ SameStream(la, s)
    BY <1>2, <1>4 DEF LogicStates, SameLink, SameNet, SameSlots, SameWire, SameStream
  <2>6. /\ s.active = la.active /\ s.mounted = TRUE /\ s.starting = FALSE
        /\ s.cancel = FALSE /\ s.busy = "bounded" /\ s.arming = TRUE /\ s.state = "idle"
        /\ s.shot = NoShot
    BY <1>2, <1>3, <1>4 DEF LogicStates
  <2> QED
    BY <2>4, <2>5, <2>6
<1>7. PICK n : n = Len(la.tasks) + 1
  OBVIOUS
<1>8. PICK t : t = Clicked("bounded", immediate, s)
  OBVIOUS
<1>9. t \in LogicStates /\ Added(t, n, "bounded") /\ SameLink(s, t) /\ SameCard(s, t)
  BY <1>2, <1>6, <1>7, <1>8, ClickedFacts
<1>10. /\ n \in Ids(t) /\ Ids(t) = Ids(la) \cup {n} /\ n \notin Ids(la)
       /\ \A j \in Ids(la) : t.tasks[j] = la.tasks[j]
       /\ t.tasks[n].kind = "bounded" /\ t.tasks[n].pc = "start" /\ t.tasks[n].wake = NoWake
       /\ t.tasks[n].cancelled = FALSE
  BY <1>9 DEF Added
<1>11. /\ SameLink(la, t) /\ t.active = la.active /\ t.mounted = TRUE /\ t.starting = FALSE
       /\ t.cancel = FALSE /\ t.busy = "bounded" /\ t.arming = TRUE /\ t.state = "idle"
       /\ t.shot = NoShot /\ t.stream = la.stream /\ t.streaming = la.streaming
  BY <1>6, <1>9 DEF SameLink, SameNet, SameSlots, SameWire, SameCard, SameBusy, SameStream,
                    SameShow
<1>12. OneOccupies(t)
  <2>1. Occupying(t.tasks[n]) /\ \A j \in Ids(la) : ~Occupying(t.tasks[j])
    BY <1>3, <1>10 DEF Occupying
  <2> QED
    BY <1>10, <1>11, <2>1 DEF OneOccupies, Occupied
<1>13. Streams(t) /\ Shown(t)
  <2>1. Reading(la) => Reading(t)
    BY <1>10 DEF Reading
  <2> QED
    BY <1>2, <1>11, <2>1 DEF Streams, Shown
<1>14. Cancelled(t)
  BY <1>3, <1>5, <1>10, <1>11 DEF Cancelled, Bounded, Live
<1>15. LogicInv(t) /\ t.reader # n /\ t.ws # n /\ n \notin t.slots
  BY <1>2, <1>3, <1>9, <1>11, <1>12, <1>13, <1>14, AddHolds
<1>16. la' \in Ensured(t, n)
  BY <1>1, <1>4, <1>7, <1>8
<1> QED
  BY <1>10, <1>11, <1>15, <1>16, EnsuredHolds
\* A stream is begun.
LEMMA StartStreamHolds ==
  ASSUME LogicInv(la), StartStream
  PROVE  LogicInv(la')
<1>1. /\ MayClick /\ la.busy = "none" /\ la.state = "idle"
      /\ la' \in Ensured(Clicked("stream", TRUE, [la EXCEPT !.busy = "stream", !.starting = TRUE]),
                         Len(la.tasks) + 1)
  BY DEF StartStream
<1>2. la \in LogicStates /\ la.mounted = TRUE /\ Streams(la) /\ Cancelled(la)
  BY <1>1 DEF LogicInv, MayClick, LogicStates
<1>3. /\ \A j \in Ids(la) : ~Occupying(la.tasks[j]) /\ ~Bounded(la, j)
      /\ la.arming = FALSE /\ la.starting = FALSE
  BY <1>1, IdleFacts
<1>4. PICK s : s = [la EXCEPT !.busy = "stream", !.starting = TRUE]
  OBVIOUS
<1>5. s \in LogicStates /\ s.tasks = la.tasks
  BY <1>2, <1>4 DEF LogicStates
<1>6. /\ SameLink(la, s) /\ SameStream(la, s) /\ SameShow(la, s) /\ s.shot = la.shot
      /\ s.arming = FALSE /\ s.busy = "stream" /\ s.starting = TRUE
  BY <1>2, <1>3, <1>4 DEF LogicStates, SameLink, SameNet, SameSlots, SameWire, SameStream,
                          SameShow
<1>7. PICK n : n = Len(la.tasks) + 1
  OBVIOUS
<1>8. PICK t : t = Clicked("stream", TRUE, s)
  OBVIOUS
<1>9. t \in LogicStates /\ Added(t, n, "stream") /\ SameLink(s, t) /\ SameCard(s, t)
  BY <1>2, <1>5, <1>7, <1>8, ClickedFacts
<1>10. /\ n \in Ids(t) /\ Ids(t) = Ids(la) \cup {n} /\ n \notin Ids(la)
       /\ \A j \in Ids(la) : t.tasks[j] = la.tasks[j]
       /\ t.tasks[n].kind = "stream" /\ t.tasks[n].pc = "start" /\ t.tasks[n].wake = NoWake
  BY <1>9 DEF Added
<1>11. /\ SameLink(la, t) /\ SameShow(la, t) /\ t.starting = TRUE /\ t.arming = FALSE
       /\ t.busy = "stream" /\ t.shot = la.shot /\ t.stream = la.stream
       /\ t.streaming = la.streaming
  BY <1>6, <1>9 DEF SameLink, SameNet, SameSlots, SameWire, SameCard, SameBusy, SameStream,
                    SameShow
<1>12. OneOccupies(t)
  <2>1. Occupying(t.tasks[n]) /\ \A j \in Ids(la) : ~Occupying(la.tasks[j])
    BY <1>3, <1>10 DEF Occupying, StartPcs
  <2> QED
    BY <1>10, <1>11, <2>1 DEF OneOccupies, Occupied
<1>13. \A j \in Ids(t) : ~Bounded(t, j)
  BY <1>3, <1>10 DEF Bounded, Live
<1>14. Streams(t)
  <2>1. Reading(la) => Reading(t)
    BY <1>10 DEF Reading
  <2> QED
    BY <1>2, <1>11, <2>1 DEF Streams
<1>15. Shown(t)
  <2>1. \A j \in Ids(t) : ~(t.tasks[j].kind = "bounded" /\ t.tasks[j].pc \in StartPcs)
    BY <1>13 DEF Bounded, Live, StartPcs
  <2> QED
    BY <1>1, <1>11, <2>1 DEF Shown, SameShow
<1>16. Cancelled(t)
  BY <1>2, <1>11, <1>13 DEF Cancelled
<1>17. /\ t.active = la.active /\ t.mounted = TRUE
       /\ ~Capturing(t)
  BY <1>2, <1>11, <1>13 DEF SameShow, Capturing
<1>18. LogicInv(t) /\ t.reader # n /\ t.ws # n /\ n \notin t.slots
  BY <1>2, <1>3, <1>9, <1>11, <1>12, <1>14, <1>15, <1>16, <1>17, AddHolds
<1>19. la' \in Ensured(t, n)
  BY <1>1, <1>4, <1>7, <1>8
<1> QED
  BY <1>10, <1>17, <1>18, <1>19, EnsuredHolds

\* A stream is stopped.
LEMMA StopStreamHolds ==
  ASSUME LogicInv(la), StopStream
  PROVE  LogicInv(la')
<1>1. /\ MayClick /\ la.streaming
      /\ la' \in Halt(Clicked("stop", TRUE, [la EXCEPT !.stream = FALSE, !.streaming = FALSE]),
                      Len(la.tasks) + 1, "stopped")
  BY DEF StopStream
<1>2. /\ la \in LogicStates /\ la.mounted = TRUE /\ la.streaming = TRUE
      /\ OneOccupies(la) /\ Shown(la) /\ Cancelled(la) /\ Tended(la) /\ Streams(la)
      /\ QuietRuns(la)
  BY <1>1 DEF LogicInv, MayClick, LogicStates
<1>3. PICK s : s = [la EXCEPT !.stream = FALSE, !.streaming = FALSE]
  OBVIOUS
<1>4. s \in LogicStates /\ s.tasks = la.tasks
  BY <1>2, <1>3 DEF LogicStates
<1>5. /\ SameLink(la, s) /\ SameBusy(la, s) /\ SameShow(la, s) /\ s.shot = la.shot
      /\ s.stream = FALSE /\ s.streaming = FALSE
  BY <1>2, <1>3 DEF LogicStates, SameLink, SameNet, SameSlots, SameWire, SameBusy, SameShow
<1>6. PICK n : n = Len(la.tasks) + 1
  OBVIOUS
<1>7. PICK t : t = Clicked("stop", TRUE, s)
  OBVIOUS
<1>8. t \in LogicStates /\ Added(t, n, "stop") /\ SameLink(s, t) /\ SameCard(s, t)
  BY <1>2, <1>4, <1>6, <1>7, ClickedFacts
<1>9. /\ n \in Ids(t) /\ Ids(t) = Ids(la) \cup {n} /\ n \notin Ids(la)
      /\ \A j \in Ids(la) : t.tasks[j] = la.tasks[j]
      /\ t.tasks[n].kind = "stop" /\ t.tasks[n].pc = "start" /\ t.tasks[n].wake = NoWake
      /\ t.tasks[n].next = "none"
  BY <1>8 DEF Added
<1>10. /\ SameLink(la, t) /\ SameBusy(la, t) /\ SameShow(la, t) /\ t.shot = la.shot
       /\ t.stream = FALSE /\ t.streaming = FALSE
  BY <1>5, <1>8 DEF SameLink, SameNet, SameSlots, SameWire, SameCard, SameBusy, SameStream,
                    SameShow
<1>11. OneOccupies(t)
  <2>1. ~Occupying(t.tasks[n])
    BY <1>9 DEF Occupying
  <2>2. Occupied(la) => Occupied(t)
    BY <1>9 DEF Occupied
  <2> QED
    BY <1>2, <1>9, <1>10, <2>1, <2>2 DEF OneOccupies, SameBusy
<1>12. Streams(t)
  BY <1>10 DEF Streams
<1>13. (Cancelling(la) => Cancelling(t)) /\ (Shooting(la) => Shooting(t))
       /\ (Capturing(t) => Capturing(la))
  <2>1. Cancelling(la) => Cancelling(t)
    BY <1>9 DEF Cancelling, Live
  <2>2. Shooting(la) => Shooting(t)
    BY <1>9 DEF Shooting, Bounded, Live
  <2>3. Capturing(t) => Capturing(la)
    BY <1>9 DEF Capturing, Bounded, Live
  <2> QED
    BY <2>1, <2>2, <2>3
<1>14. Shown(t)
  <2>1. t.cancel = la.cancel /\ t.state = la.state /\ t.mounted = la.mounted
    BY <1>10 DEF SameShow
  <2>2. ASSUME NEW j \in Ids(t), t.tasks[j].kind = "bounded" /\ t.tasks[j].pc \in StartPcs
        PROVE  j \in Ids(la) /\ la.tasks[j].kind = "bounded" /\ la.tasks[j].pc \in StartPcs
    BY <1>9, <2>2
  <2> QED
    BY <1>2, <1>13, <2>1, <2>2 DEF Shown
<1>15. Cancelled(t)
  <2>1. \A j \in Ids(t) : Bounded(t, j) => j \in Ids(la) /\ Bounded(la, j) /\ t.tasks[j] = la.tasks[j]
    BY <1>9 DEF Bounded, Live
  <2>2. t.cancel = la.cancel
    BY <1>10 DEF SameShow
  <2> QED
    BY <1>2, <1>10, <2>1, <2>2 DEF Cancelled
<1>16. (t.ws # 0 \/ t.queue # <<>>) /\ t.cancel = TRUE /\ Capturing(t) => Cancelling(t)
  BY <1>2, <1>10, <1>13 DEF Tended, SameLink, SameNet, SameShow
<1>17. \A j \in Ids(la) : Bounded(la, j) => la.tasks[j].quiet # TRUE
  <2>1. PICK k \in Ids(la) : la.tasks[k].kind = "stream" /\ la.tasks[k].pc \in LoopPcs
    BY <1>2 DEF Streams, Reading
  <2>2. Live(la, k)
    BY <2>1 DEF Live, LoopPcs
  <2>3. ASSUME NEW j \in Ids(la), Bounded(la, j), la.tasks[j].quiet = TRUE PROVE FALSE
    <3>1. OwnRun(la, j)
      BY <1>2, <2>3 DEF QuietRuns, Bounded
    <3>2. j = k
      BY <2>1, <2>2, <3>1 DEF OwnRun
    <3> QED
      BY <2>1, <2>3, <3>2 DEF Bounded
  <2> QED
    BY <2>3
<1>18. t.active = la.active /\ t.mounted = TRUE
  BY <1>2, <1>10 DEF SameShow
<1>19. LogicInv(t) /\ t.reader # n /\ t.ws # n /\ n \notin t.slots
  BY <1>2, <1>8, <1>10, <1>11, <1>12, <1>14, <1>15, <1>16, <1>17, <1>18, AddHolds
<1>20. la' \in Halt(t, n, "stopped")
  BY <1>1, <1>3, <1>6, <1>7
<1>21. /\ Live(t, n) /\ MayAsk(t, n, "halt", "stopped") /\ "stopped" \in Nexts
       /\ ~(t.tasks[n].pc = "create" /\ t.tasks[n].wake.t = "ok")
  BY <1>9 DEF Live, MayAsk, Nexts
<1> QED
  BY <1>9, <1>19, <1>20, <1>21, HaltHolds
\* A capture is cancelled: the task that cancels answers for what is shown.
LEMMA CancelHolds ==
  ASSUME LogicInv(la), Cancel
  PROVE  LogicInv(la')
<1> DEFINE Marked(u) ==
      [i \in 1..Len(u.tasks) |->
         IF u.tasks[i].kind = "bounded" /\ u.tasks[i].pc # "over"
         THEN [u.tasks[i] EXCEPT !.cancelled = TRUE] ELSE u.tasks[i]]
<1> HIDE DEF Marked
<1>1. PICK s : s = [la EXCEPT !.cancel = TRUE]
  OBVIOUS
<1>2. PICK t : t = Clicked("cancel", TRUE, s)
  OBVIOUS
<1>3. /\ MayClick /\ la.state \in {"armed", "capturing"}
      /\ la' \in Halt([t EXCEPT !.tasks = Marked(t)], Len(t.tasks), "cancelled")
  BY <1>1, <1>2 DEF Cancel, Marked
<1>4. /\ la \in LogicStates /\ la.mounted = TRUE
      /\ OneOccupies(la) /\ Shown(la) /\ Cancelled(la) /\ Streams(la)
  BY <1>3 DEF LogicInv, MayClick, LogicStates
<1>5. s \in LogicStates /\ s.tasks = la.tasks
  BY <1>1, <1>4 DEF LogicStates
<1>6. /\ SameLink(la, s) /\ SameBusy(la, s) /\ SameStream(la, s) /\ s.shot = la.shot
      /\ s.cancel = TRUE /\ s.state = la.state /\ s.active = la.active /\ s.mounted = TRUE
  BY <1>1, <1>4 DEF LogicStates, SameLink, SameNet, SameSlots, SameWire, SameBusy, SameStream
<1>7. PICK n : n = Len(la.tasks) + 1
  OBVIOUS
<1>8. /\ t \in LogicStates /\ Added(t, n, "cancel") /\ SameLink(s, t) /\ SameCard(s, t)
      /\ Len(t.tasks) = n
  <2>1. t \in LogicStates /\ Added(t, n, "cancel") /\ SameLink(s, t) /\ SameCard(s, t)
    BY <1>2, <1>4, <1>5, <1>7, ClickedFacts
  <2>2. Len(t.tasks) = n
    <3>1. /\ la.tasks \in Seq(LogicTasks) /\ Len(la.tasks) \in Nat
          /\ Ids(la) = 1..Len(la.tasks)
      BY <1>4 DEF LogicStates, Ids
    <3>2. t.tasks \in Seq(LogicTasks) /\ Len(t.tasks) \in Nat /\ Ids(t) = 1..Len(t.tasks)
      BY <2>1 DEF LogicStates, Ids
    <3>3. 1..Len(t.tasks) = 1..n
      BY <1>7, <2>1, <3>1, <3>2, SMTT(30) DEF Added
    <3> QED
      BY <1>7, <3>1, <3>2, <3>3
  <2> QED
    BY <2>1, <2>2
<1>9. /\ n \in Ids(t) /\ Ids(t) = Ids(la) \cup {n} /\ n \notin Ids(la)
      /\ \A j \in Ids(la) : t.tasks[j] = la.tasks[j]
      /\ t.tasks[n].kind = "cancel" /\ t.tasks[n].pc = "start" /\ t.tasks[n].wake = NoWake
      /\ t.tasks[n].next = "none"
  BY <1>8 DEF Added
<1>10. /\ SameLink(la, t) /\ SameBusy(la, t) /\ SameStream(la, t) /\ t.shot = la.shot
       /\ t.cancel = TRUE /\ t.state = la.state /\ t.active = la.active /\ t.mounted = TRUE
  BY <1>6, <1>8 DEF SameLink, SameNet, SameSlots, SameWire, SameCard, SameBusy, SameStream,
                    SameShow
<1>11. OneOccupies(t)
  <2>1. ~Occupying(t.tasks[n])
    BY <1>9 DEF Occupying
  <2>2. Occupied(la) => Occupied(t)
    BY <1>9 DEF Occupied
  <2> QED
    BY <1>4, <1>9, <1>10, <2>1, <2>2 DEF OneOccupies, SameBusy
<1>12. Streams(t)
  <2>1. Reading(la) => Reading(t)
    BY <1>9 DEF Reading
  <2> QED
    BY <1>4, <1>10, <2>1 DEF Streams, SameStream
<1>13. Cancelling(t)
  BY <1>9 DEF Cancelling, Live
<1>14. Shown(t)
  <2>1. \A j \in Ids(t) : ~(t.tasks[j].kind = "bounded" /\ t.tasks[j].pc \in StartPcs)
    BY <1>3, <1>4, <1>9 DEF Shown
  <2> QED
    BY <1>13, <2>1 DEF Shown
<1>15. Cancelled(t)
  BY <1>4, <1>10 DEF Cancelled
<1>16. LogicInv(t) /\ t.reader # n /\ t.ws # n /\ n \notin t.slots
  BY <1>4, <1>8, <1>10, <1>11, <1>12, <1>13, <1>14, <1>15, AddHolds
<1>17. PICK q : q = Marked(t)
  OBVIOUS
<1> USE DEF Marked
<1>18. /\ q \in Seq(LogicTasks) /\ DOMAIN q = Ids(t)
       /\ \A j \in Ids(t) :
            /\ q[j].kind = t.tasks[j].kind /\ q[j].pc = t.tasks[j].pc
            /\ q[j].wake = t.tasks[j].wake /\ q[j].next = t.tasks[j].next
            /\ q[j].gen = t.tasks[j].gen /\ q[j].quiet = t.tasks[j].quiet
            /\ q[j].own = t.tasks[j].own
  <2>1. t.tasks \in Seq(LogicTasks) /\ Len(t.tasks) \in Nat /\ Ids(t) = 1..Len(t.tasks)
    BY <1>8 DEF LogicStates, Ids
  <2>2. ASSUME NEW j \in Ids(t)
        PROVE  /\ q[j] \in LogicTasks
               /\ q[j].kind = t.tasks[j].kind /\ q[j].pc = t.tasks[j].pc
               /\ q[j].wake = t.tasks[j].wake /\ q[j].next = t.tasks[j].next
               /\ q[j].gen = t.tasks[j].gen /\ q[j].quiet = t.tasks[j].quiet
               /\ q[j].own = t.tasks[j].own
    <3>1. t.tasks[j] \in LogicTasks
      BY <2>1, <2>2
    <3>2. q[j] = t.tasks[j] \/ q[j] = [t.tasks[j] EXCEPT !.cancelled = TRUE]
      BY <1>17, <2>1, <2>2
    <3> QED
      BY <3>1, <3>2 DEF LogicTasks
  <2>3. q \in [1..Len(t.tasks) -> LogicTasks]
    <3>1. DOMAIN q = 1..Len(t.tasks) /\ q = [j \in 1..Len(t.tasks) |-> q[j]]
      BY <1>17
    <3>2. \A j \in 1..Len(t.tasks) : q[j] \in LogicTasks
      BY <2>1, <2>2
    <3> QED
      BY <3>1, <3>2
  <2>4. q \in Seq(LogicTasks) /\ DOMAIN q = Ids(t)
    BY <2>1, <2>3
  <2> QED
    BY <2>2, <2>4
<1> HIDE DEF Marked
<1>19. PICK v : v = [t EXCEPT !.tasks = q]
  OBVIOUS
<1>20. v \in LogicStates /\ v.tasks = q
  BY <1>8, <1>18, <1>19 DEF LogicStates
<1>21. SameLink(t, v) /\ SameCard(t, v)
  BY <1>8, <1>19 DEF LogicStates, SameLink, SameNet, SameSlots, SameWire, SameCard, SameBusy,
                     SameStream, SameShow
<1>22. MarksOnly(t, v)
  <2>1. QuietRuns(t)
    BY <1>16 DEF LogicInv
  <2> QED
    BY <1>10, <1>18, <1>20, <2>1 DEF MarksOnly, QuietRuns, Ids
<1>23. LogicInv(v)
  BY <1>16, <1>20, <1>21, <1>22, MarksHolds
<1>24. la' \in Halt(v, n, "cancelled")
  BY <1>3, <1>8, <1>17, <1>19
<1>25. /\ n \in Ids(v) /\ v.tasks[n].kind = "cancel" /\ v.tasks[n].pc = "start"
  BY <1>9, <1>18, <1>20 DEF Ids
<1>26. /\ Live(v, n) /\ MayAsk(v, n, "halt", "cancelled") /\ "cancelled" \in Nexts
       /\ ~(v.tasks[n].pc = "create" /\ v.tasks[n].wake.t = "ok")
  BY <1>25 DEF Live, MayAsk, Nexts
<1>27. v.ws # n /\ v.reader # n
  BY <1>16, <1>21 DEF SameLink, SameNet
<1> QED
  BY <1>23, <1>24, <1>25, <1>26, <1>27, HaltHolds
-----------------------------------------------------------------------------
(* The theorems.                                                            *)

\* The page as it is opened.
LEMMA LogicInitHolds ==
  ASSUME LogicInit
  PROVE  LogicInv(la)
<1>1. /\ la.tasks = <<>> /\ la.queue = <<>> /\ la.down = <<>> /\ la.slots = {}
      /\ la.deleting = {} /\ la.shot = NoShot
      /\ la.busy = "none" /\ la.cancel = FALSE /\ la.stream = FALSE /\ la.streaming = FALSE
      /\ la.arming = FALSE /\ la.starting = FALSE /\ la.state = "idle" /\ la.active = FALSE
      /\ la.mounted = TRUE /\ la.gen = 0 /\ la.session = 0 /\ la.reader = 0 /\ la.ws = 0
      /\ la.up = FALSE /\ la.phase = "none" /\ la.run = 0 /\ la.sent = 0
  BY DEF LogicInit
<1>2. /\ NoShot \in LogicShots /\ NoShot.op = 0 /\ NoShot.cancelled = FALSE
      /\ <<>> \in Seq(LogicTasks) /\ <<>> \in Seq(LogicFrames) /\ DOMAIN <<>> = {}
  BY DEF NoShot, LogicShots
<1>3. la \in LogicStates
  <2>1. PICK q : q = <<>>
    OBVIOUS
  <2>2. PICK shot : shot = NoShot
    OBVIOUS
  <2>3. la = [tasks |-> q, busy |-> "none", cancel |-> FALSE, stream |-> FALSE,
              streaming |-> FALSE, arming |-> FALSE, starting |-> FALSE, state |-> "idle",
              shot |-> shot, active |-> FALSE, mounted |-> TRUE,
              gen |-> 0, session |-> 0, queue |-> q, reader |-> 0, ws |-> 0, up |-> FALSE,
              down |-> q, slots |-> {}, deleting |-> {}, phase |-> "none", run |-> 0, sent |-> 0]
    BY <2>1, <2>2 DEF LogicInit
  <2>3a. q \in Seq(LogicTasks) /\ q \in Seq(LogicFrames) /\ shot \in LogicShots
    BY <1>2, <2>1, <2>2
  <2> QED
    BY <2>3, <2>3a DEF LogicStates
<1>4. Ids(la) = {}
  BY <1>1, <1>2 DEF Ids
<1>5. Shapes(la) /\ OneOccupies(la) /\ Streams(la) /\ Shown(la)
  BY <1>1, <1>4 DEF Shapes, OneOccupies, Streams, Shown
<1>6. Linked(la) /\ Sessions(la) /\ Gone(la) /\ Generations(la)
  BY <1>1, <1>4 DEF Linked, Sessions, Gone, Generations
<1>7. Tended(la) /\ QuietRuns(la) /\ Cancelled(la)
  BY <1>1, <1>2, <1>4 DEF Tended, QuietRuns, Cancelled
<1> QED
  BY <1>3, <1>5, <1>6, <1>7 DEF LogicInv

\* A woken task runs up to its next await.
LEMMA ContinueHolds ==
  ASSUME LogicInv(la), Continue
  PROVE  LogicInv(la')
<1>1. PICK i \in TaskIds :
        \/ Connecting(i) \/ SessionDropped(i) \/ Starting(i) \/ Begun(i) \/ Taken(i)
        \/ StreamTaken(i) \/ Halted(i)
  BY DEF Continue
<1> QED
  BY <1>1, ConnectingHolds, SessionDroppedHolds, StartingHolds, BegunHolds, TakenHolds,
     StreamTakenHolds, HaltedHolds

\* Every step keeps the invariant.
LEMMA LogicStepHolds ==
  ASSUME LogicInv(la), [LogicNext]_la
  PROVE  LogicInv(la')
<1>1. CASE Continue
  BY <1>1, ContinueHolds
<1>2. CASE ~Woken /\ \E i \in TaskIds : Read(i)
  BY <1>2, ReadHolds
<1>3. CASE SessionMade
  BY <1>3, SessionMadeHolds
<1>4. CASE SessionDeleted
  BY <1>4, SessionDeletedHolds
<1>5. CASE Opened
  BY <1>5, OpenedHolds
<1>6. CASE Deliver
  BY <1>6, DeliverHolds
<1>7. CASE ReadTimesOut
  BY <1>7, ReadTimesOutHolds
<1>8. CASE RequestTimesOut
  BY <1>8, RequestTimesOutHolds
<1>9. CASE Settled
  BY <1>9, SettledHolds
<1>10. CASE Arm
  BY <1>10, ArmHolds
<1>11. CASE StartStream
  BY <1>11, StartStreamHolds
<1>12. CASE Cancel
  BY <1>12, CancelHolds
<1>13. CASE StopStream
  BY <1>13, StopStreamHolds
<1>14. CASE Clear
  BY <1>14, ClearHolds
<1>15. CASE Unmount
  BY <1>15, UnmountHolds
<1>16. CASE LinkLost
  BY <1>16, LinkLostHolds
<1>17. CASE Sample
  BY <1>17, SampleHolds
<1>18. CASE UNCHANGED la
  BY <1>18
<1> QED
  BY <1>1, <1>2, <1>3, <1>4, <1>5, <1>6, <1>7, <1>8, <1>9, <1>10, <1>11, <1>12, <1>13,
     <1>14, <1>15, <1>16, <1>17, <1>18 DEF LogicNext, LogicSystem

\* When no task is left, nothing that a task answers for is.
LEMMA RestFacts ==
  ASSUME LogicInv(la), AtRest
  PROVE  /\ la.ws = 0 /\ la.session = 0 /\ la.active = FALSE
         /\ la.mounted = TRUE => la.state \in {"idle", "done"}
         /\ la.busy = "none" /\ la.stream = FALSE /\ la.streaming = FALSE
         /\ la.arming = FALSE /\ la.starting = FALSE
<1>1. /\ la \in LogicStates /\ Shapes(la) /\ OneOccupies(la) /\ Streams(la) /\ Shown(la)
      /\ Linked(la) /\ Tended(la)
  BY DEF LogicInv
<1>2. \A i \in Ids(la) : la.tasks[i].pc = "over"
  BY DEF AtRest, TaskIds, Task, Ids
<1>3. \A i \in Ids(la) : la.tasks[i].next = "none"
  BY <1>1, <1>2 DEF Shapes, ShapeOf, HaltPcs
<1>4. ~Working(la) /\ ~Cancelling(la) /\ ~Shooting(la)
  BY <1>2 DEF Working, Cancelling, Shooting, Bounded, Live
<1>5. ~Reading(la)
  BY <1>2 DEF Reading, LoopPcs
<1>6. ~Occupied(la)
  BY <1>2, <1>3 DEF Occupied, Occupying, StartPcs
<1>7. la.ws = 0 /\ la.session = 0 /\ la.active # TRUE
  BY <1>1, <1>4 DEF Tended, Linked
<1>8. la.busy = "none" /\ la.arming # TRUE /\ la.starting # TRUE
  BY <1>1, <1>6 DEF OneOccupies
<1>9. la.streaming # TRUE /\ la.stream # TRUE
  BY <1>1, <1>5 DEF Streams
<1>10. la.mounted = TRUE => la.state \notin {"armed", "capturing"}
  BY <1>1, <1>4 DEF Shown
<1>11. /\ la.active \in BOOLEAN /\ la.arming \in BOOLEAN /\ la.starting \in BOOLEAN
       /\ la.streaming \in BOOLEAN /\ la.stream \in BOOLEAN
       /\ la.state \in {"idle", "armed", "capturing", "done"}
  BY <1>1 DEF LogicStates
<1> QED
  BY <1>7, <1>8, <1>9, <1>10, <1>11

\* The invariant says of the page what is to be shown.
LEMMA LogicInvSound ==
  ASSUME LogicInv(la)
  PROVE  LogicPageIsSound
<1>1. la \in LogicStates /\ Sessions(la) /\ Gone(la) /\ Cancelled(la)
  BY DEF LogicInv
<1>2. NoSessionLeaks
  <2>1. \A i \in la.slots :
          i \in la.deleting \/ i = la.session \/ (la.tasks[i].pc = "create" /\ i \in Ids(la))
    BY <1>1 DEF Sessions
  <2>2. la.slots \subseteq la.deleting \cup {la.session}
                              \cup {i \in TaskIds : Task(i).pc = "create"}
    BY <2>1 DEF TaskIds, Task, Ids
  <2>3. ASSUME AtRest PROVE la.ws = 0 /\ la.slots \subseteq la.deleting
    <3>1. la.ws = 0 /\ la.session = 0
      BY <2>3, RestFacts
    <3>2. 0 \notin la.slots
      BY <1>1 DEF Sessions, LogicStates, Ids
    <3>3. \A i \in Ids(la) : la.tasks[i].pc # "create"
      BY <2>3 DEF AtRest, TaskIds, Task, Ids
    <3> QED
      BY <2>1, <3>1, <3>2, <3>3
  <2> QED
    BY <2>2, <2>3 DEF NoSessionLeaks
<1>3. PageMatchesTasks
  <2>1. la.mounted \in BOOLEAN /\ la.active \in BOOLEAN
    BY <1>1 DEF LogicStates
  <2>2. la.mounted = FALSE => la.active = FALSE
    BY <1>1 DEF Gone
  <2>3. ASSUME AtRest, la.mounted
        PROVE  /\ la.state \in {"idle", "done"} /\ la.busy = "none" /\ ~la.stream
               /\ ~la.streaming /\ ~la.arming /\ ~la.starting /\ ~la.active
    BY <2>1, <2>3, RestFacts
  <2> QED
    BY <2>1, <2>2, <2>3 DEF PageMatchesTasks
<1>4. la.shot \in LogicShots
  BY <1>1 DEF LogicStates
<1>5. ShownCaptureIsOwn
  <2>1. la.shot.quiet \in BOOLEAN /\ la.shot.own \in BOOLEAN /\ la.shot.triggered \in BOOLEAN
    BY <1>4 DEF LogicShots
  <2> QED
    BY <1>1, <2>1 DEF ShownCaptureIsOwn, Cancelled
<1>6. CancelledIsNotShown
  BY <1>1 DEF CancelledIsNotShown, Cancelled
<1> QED
  BY <1>2, <1>3, <1>5, <1>6 DEF LogicPageIsSound

LogicInvariant == LogicInv(la)

\* What the tasks own, and what the page and the debugger keep for them, holds
\* in every state: after every click, loss, frame and late answer.
THEOREM LogicPageInvariant == LogicSpec => []LogicInvariant
<1>1. LogicInit => LogicInvariant
  BY LogicInitHolds DEF LogicInvariant
<1>2. LogicInvariant /\ [LogicNext]_la => LogicInvariant'
  BY LogicStepHolds DEF LogicInvariant
<1> QED
  BY <1>1, <1>2, PTL DEF LogicSpec

\* The page of the logic analyzer is sound for any number of clicks and frames:
\* no live session of the debugger is lost, the page at rest shows no activity,
\* a capture shown as done is complete and its own, and was not cancelled.
THEOREM LogicPageSound == LogicFairSpec => []LogicPageIsSound
<1>1. LogicInvariant => LogicPageIsSound
  BY LogicInvSound DEF LogicInvariant
<1> QED
  BY <1>1, LogicPageInvariant, PTL DEF LogicFairSpec
=============================================================================
