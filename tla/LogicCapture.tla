---------------------------- MODULE LogicCapture ----------------------------
(***************************************************************************)
(* The logic analyzer page: LogicAnalyzerCard.tsx starts bounded captures  *)
(* and streams, cancels and stops them; useSigrokScope.ts keeps one live   *)
(* session, its connection and the queue of capture frames; SigrokClient   *)
(* answers each request with the frame of its id.  The debugger's side of  *)
(* the session (linkr_debugger_sigrok_linkr.c) is what answers.            *)
(*                                                                         *)
(* Every click starts a task of its own, a chain of awaits that shares the *)
(* one connection with the tasks before it.  A promise that settles wakes  *)
(* its task, and a woken task runs up to its next await before anything    *)
(* else happens.                                                           *)
(***************************************************************************)
EXTENDS Integers, Sequences, FiniteSets

CONSTANTS
  MaxTasks,   \* bound: the clicks that start a task
  MaxData,    \* bound: the DATA frames the debugger sends
  Target      \* the samples a bounded capture asks for, in DATA frames

ASSUME LogicCaptureAssumption ==
  MaxTasks \in Nat /\ MaxData \in Nat /\ Target \in Nat \ {0}

NoWake == [t |-> "none", op |-> 0]
NoShot == [op |-> 0, own |-> TRUE, count |-> 0, quiet |-> FALSE, triggered |-> TRUE,
           cancelled |-> FALSE]

(* The state:
     tasks                one per click: kind, the await it is at (pc), what
                          woke it, connectionGeneration when it began, what
                          follows the stop and close it is in (next), what
                          it collected; for the properties: whether it began
                          alone (quiet), whether it was cancelled
     busy cancel stream   captureOperationRef, boundedCancelRef, streamingRef
     streaming arming starting state shot active mounted    what is shown
     gen session queue reader     connectionGenerationRef, sessionRef,
                          frameQueueRef, the task of frameResolveRef
     ws up                the socket of the client, whether it is ready
     down                 the frames on their way to the page
     slots deleting       live sessions the debugger keeps, and is to delete
     phase run sent       its capture session, the task that started it *)
VARIABLE la

LogicInit ==
  la = [tasks |-> <<>>, busy |-> "none", cancel |-> FALSE, stream |-> FALSE,
        streaming |-> FALSE, arming |-> FALSE, starting |-> FALSE, state |-> "idle",
        shot |-> NoShot, active |-> FALSE, mounted |-> TRUE,
        gen |-> 0, session |-> 0, queue |-> <<>>, reader |-> 0, ws |-> 0, up |-> FALSE,
        down |-> <<>>, slots |-> {}, deleting |-> {}, phase |-> "none", run |-> 0, sent |-> 0]

TaskIds == DOMAIN la.tasks
Task(i) == la.tasks[i]
Woken == \E i \in TaskIds : Task(i).wake # NoWake
At(s, i, pc) == [s EXCEPT !.tasks[i].pc = pc, !.tasks[i].wake = NoWake]
Wake(s, i, t) == [s EXCEPT !.tasks[i].wake = [t |-> t, op |-> i]]

-----------------------------------------------------------------------------
(* The connection.                                                          *)

NetAwaits == {"open", "config", "begin", "halt"}

(* The socket is gone: SigrokClient rejects what waits on it, and the       *)
(* disconnected state releases the session.                                 *)
Dropped(s) ==
  [s EXCEPT !.ws = 0, !.up = FALSE, !.down = <<>>, !.phase = "none", !.run = 0,
            !.session = 0, !.deleting = IF s.session = 0 THEN @ ELSE @ \cup {s.session},
            !.tasks = [i \in 1..Len(@) |->
               IF s.tasks[i].pc \in NetAwaits /\ s.tasks[i].wake = NoWake
               THEN [s.tasks[i] EXCEPT !.wake = [t |-> "fail", op |-> i]] ELSE s.tasks[i]]]

(* close of useSigrokScope.                                                 *)
Closed(s) ==
  LET d == [Dropped(s) EXCEPT !.gen = @ + 1, !.reader = 0, !.queue = <<>>]
  IN IF s.reader # 0 THEN Wake(d, s.reader, "null") ELSE d

Frame(t, i) == [t |-> t, op |-> i, req |-> "none"]
Reply(t, i, req) == [t |-> t, op |-> i, req |-> req]

(* What the debugger makes of a request, linkr_debugger_sigrok_linkr.c: the *)
(* states it may be in next with the frames it sends.                       *)
Answers(s, i, req) ==
  LET Says(phase, frames) == [phase |-> phase, frames |-> frames]
      refused == Says(s.phase, <<Reply("err", i, req)>>)
      ok == Reply("ok", i, req)
  IN CASE req = "config" ->
            {refused} \cup (IF s.phase \in {"armed", "running"} THEN {}
                            ELSE {Says("configured", <<ok>>)})
       [] req = "begin" ->
            {refused} \cup
            (IF s.phase # "configured" THEN {}
             ELSE IF s.tasks[i].triggered THEN {Says("running", <<ok, Frame("running", i)>>)}
             ELSE {Says("armed", <<ok, Frame("armed", i)>>)})
       [] req = "halt" ->
            CASE s.phase = "none" -> {refused}
              [] s.phase = "configured" -> {Says("configured", <<ok>>)}
              [] OTHER -> {Says("configured", <<ok, Frame("stopped", s.run)>>)}

(* sendRequest: a task waits for the answer of its request.                 *)
Requested(s, i, req) ==
  IF ~s.up THEN {Wake([s EXCEPT !.tasks[i].pc = req], i, "fail")}
  ELSE {[At(s, i, req) EXCEPT !.phase = a.phase, !.down = @ \o a.frames,
           !.run = IF req = "begin" /\ a.phase # s.phase THEN i ELSE @] :
        a \in Answers(s, i, req)}

(* stopAndCloseSigrok, after which the task goes on with next.              *)
Halt(s, i, next) == Requested([s EXCEPT !.tasks[i].next = next], i, "halt")

-----------------------------------------------------------------------------
(* The ends of the tasks.                                                   *)

Over(s, i) ==
  [s EXCEPT !.tasks[i] = [@ EXCEPT !.pc = "over", !.wake = NoWake, !.next = "none"]]

(* The finally of handleArm, and its catch.                                 *)
Finished(s, i) ==
  Over([s EXCEPT !.busy = IF @ = "bounded" THEN "none" ELSE @, !.cancel = FALSE,
                 !.arming = FALSE, !.active = FALSE], i)
Fails(s, i) ==
  IF Task(i).kind = "bounded" THEN Halt([s EXCEPT !.state = "idle"], i, "finish")
  ELSE Halt(s, i, "unstreamed")

Streamed(s, i) == Halt([s EXCEPT !.stream = FALSE, !.streaming = FALSE], i, "streamed")
ShotOf(s, i) ==
  LET task == s.tasks[i]
  IN [op |-> i, own |-> task.own, count |-> task.count, quiet |-> task.quiet,
      triggered |-> task.triggered, cancelled |-> task.cancelled]

(* handleArm behind its loop.                                               *)
Completed(s, i) ==
  IF s.cancel THEN {Finished(s, i)}
  ELSE IF ~s.tasks[i].triggered \/ s.tasks[i].count < Target THEN Fails(s, i)
  ELSE {Finished([s EXCEPT !.shot = ShotOf(s, i), !.state = "done"], i)}

AfterHalt(s, i) ==
  LET next == s.tasks[i].next
  IN CASE next = "finish" -> {Finished(s, i)}
       [] next = "complete" -> Completed(s, i)
       [] next = "cancelled" -> {Over([s EXCEPT !.state = "idle", !.active = FALSE], i)}
       [] next = "unstreamed" ->
            {Over([s EXCEPT !.active = FALSE, !.starting = FALSE,
                            !.busy = IF @ = "stream" THEN "none" ELSE @], i)}
       [] OTHER -> {Over([s EXCEPT !.active = FALSE], i)}

-----------------------------------------------------------------------------
(* The clicks.                                                              *)

ControlsDisabled == la.state \in {"armed", "capturing"} \/ la.arming \/ la.starting \/ la.streaming
NewTask(kind, immediate) ==
  [kind |-> kind, pc |-> "start", wake |-> NoWake, next |-> "none", gen |-> la.gen, count |-> 0,
   own |-> TRUE, triggered |-> immediate, cancelled |-> FALSE,
   quiet |-> \A i \in TaskIds : Task(i).pc = "over"]
(* (A function in place of Append, which TLC 2.19 applies to a sequence as   *)
(* it was ahead of the EXCEPTs of the same step.)                           *)
Clicked(kind, immediate, s) ==
  [s EXCEPT !.tasks = [i \in 1..(Len(s.tasks) + 1) |->
     IF i \in DOMAIN s.tasks THEN s.tasks[i] ELSE NewTask(kind, immediate)]]
MayClick == la.mounted /\ ~Woken /\ Len(la.tasks) < MaxTasks

(* ensureConnected: at once when the client is ready.                       *)
Ensured(s, i) == IF s.up THEN Requested(s, i, "config") ELSE {At(s, i, "create")}

Arm == \E immediate \in BOOLEAN :
  /\ MayClick /\ ~la.streaming /\ la.busy = "none" /\ ~la.stream
  /\ \/ la.state = "idle" /\ ~ControlsDisabled
     \/ la.state = "done" /\ ~la.arming
  /\ la' \in Ensured(Clicked("bounded", immediate,
               [la EXCEPT !.cancel = FALSE, !.busy = "bounded", !.arming = TRUE,
                          !.state = "idle", !.shot = NoShot]), Len(la.tasks) + 1)

StartStream ==
  /\ MayClick /\ la.state = "idle" /\ ~ControlsDisabled /\ la.busy = "none" /\ ~la.stream
  /\ la' \in Ensured(Clicked("stream", TRUE, [la EXCEPT !.busy = "stream", !.starting = TRUE]),
                     Len(la.tasks) + 1)

Cancel ==
  /\ MayClick /\ ~la.streaming /\ la.state \in {"armed", "capturing"}
  /\ LET s == Clicked("cancel", TRUE, [la EXCEPT !.cancel = TRUE])
     IN la' \in Halt([s EXCEPT !.tasks = [i \in 1..Len(@) |->
                        IF s.tasks[i].kind = "bounded" /\ s.tasks[i].pc # "over"
                        THEN [s.tasks[i] EXCEPT !.cancelled = TRUE] ELSE s.tasks[i]]],
                     Len(s.tasks), "cancelled")

StopStream ==
  /\ MayClick /\ la.streaming
  /\ la' \in Halt(Clicked("stop", TRUE, [la EXCEPT !.stream = FALSE, !.streaming = FALSE]),
                  Len(la.tasks) + 1, "stopped")

Clear ==
  /\ la.mounted /\ ~Woken /\ la.state = "done"
  /\ la' = [la EXCEPT !.state = "idle", !.shot = NoShot]

(* The page goes: the scope disconnects, then the card marks its refs.      *)
Unmount ==
  /\ la.mounted /\ ~Woken
  /\ la' = [Closed(la) EXCEPT !.mounted = FALSE, !.cancel = TRUE, !.stream = FALSE,
                              !.active = FALSE]

-----------------------------------------------------------------------------
(* The tasks between two awaits.                                            *)

\* Mutant of Connecting: a session that comes after the connection was
\* cancelled is not deleted.
ConnectingForgets(i) ==
  /\ Task(i).pc = "create" /\ Task(i).wake # NoWake
  /\ IF Task(i).wake.t = "fail" \/ Task(i).gen # la.gen THEN la' \in Fails(la, i)
     ELSE la' = [At(la, i, "open") EXCEPT !.session = i, !.ws = i]

(* createSession has its answer: a session of an older generation is        *)
(* deleted, before the task fails.                                          *)
Connecting(i) ==
  /\ Task(i).pc = "create" /\ Task(i).wake # NoWake
  /\ IF Task(i).wake.t = "fail" THEN la' \in Fails(la, i)
     ELSE IF Task(i).gen # la.gen
     THEN la' = [At(la, i, "drop") EXCEPT !.deleting = @ \cup {i}]
     ELSE la' = [At(la, i, "open") EXCEPT !.session = i, !.ws = i]

SessionDropped(i) ==
  /\ Task(i).pc = "drop" /\ Task(i).wake # NoWake
  /\ la' \in Fails(la, i)

(* Connected, the request is built, which may throw, and sent; then START.  *)
Starting(i) ==
  /\ Task(i).pc \in {"open", "config"} /\ Task(i).wake # NoWake
  /\ \/ /\ Task(i).wake.t = "ok"
        /\ la' \in Requested(la, i, IF Task(i).pc = "open" THEN "config" ELSE "begin")
     \/ /\ Task(i).wake.t = "ok" => Task(i).pc = "open"
        /\ la' \in Fails(la, i)

(* START is answered.                                                       *)
Begun(i) ==
  /\ Task(i).pc = "begin" /\ Task(i).wake # NoWake
  /\ \/ Task(i).wake.t # "ok" /\ la' \in Fails(la, i)
     \/ /\ Task(i).wake.t = "ok" /\ la.cancel
        /\ la' \in Halt(la, i, IF Task(i).kind = "bounded" THEN "finish" ELSE "unstreamed")
     \/ /\ Task(i).wake.t = "ok" /\ ~la.cancel /\ Task(i).kind = "bounded"
        /\ la' = [At(la, i, "loop") EXCEPT !.active = TRUE,
                    !.state = IF Task(i).triggered THEN "capturing" ELSE "armed"]
     \/ /\ Task(i).wake.t = "ok" /\ ~la.cancel /\ Task(i).kind # "bounded"
        /\ la' = [At(la, i, "loop") EXCEPT !.active = TRUE, !.stream = TRUE,
                    !.streaming = TRUE, !.starting = FALSE, !.busy = "none"]

(* readCaptureFrame: the queue first, else the task becomes the reader.     *)
Read(i) ==
  /\ Task(i).pc = "loop"
  /\ la' = IF la.queue # <<>>
           THEN [la EXCEPT !.queue = Tail(@), !.tasks[i].pc = "read",
                           !.tasks[i].wake = [t |-> Head(la.queue).t, op |-> Head(la.queue).op]]
           ELSE [At(la, i, "read") EXCEPT !.reader = i]

(* A bounded capture takes a frame.                                         *)
Taken(i) ==
  /\ Task(i).pc = "read" /\ Task(i).wake # NoWake /\ Task(i).kind = "bounded"
  /\ LET wake == Task(i).wake
         Loop(s) == IF s.tasks[i].triggered /\ s.tasks[i].count >= Target
                    THEN Halt(s, i, "complete") ELSE {At(s, i, "loop")}
     IN CASE la.cancel -> la' = Finished(la, i)
          [] ~la.cancel /\ wake.t = "data" ->
               la' \in Loop([la EXCEPT !.tasks[i].count = @ + 1, !.state = "capturing",
                                       !.tasks[i].own = @ /\ wake.op = i])
          [] ~la.cancel /\ wake.t = "triggered" ->
               la' \in Loop([la EXCEPT !.tasks[i].triggered = TRUE, !.state = "capturing",
                                       !.tasks[i].own = @ /\ wake.op = i])
          [] ~la.cancel /\ wake.t = "armed" -> la' = [At(la, i, "loop") EXCEPT !.state = "armed"]
          [] ~la.cancel /\ wake.t = "running" ->
               la' = [At(la, i, "loop") EXCEPT !.state = "capturing"]
          [] ~la.cancel /\ wake.t = "stopped" -> la' \in Halt(la, i, "complete")
          [] OTHER -> la' \in Fails(la, i)

(* A stream takes a frame; its loop ends with streamingRef, with STOPPED    *)
(* and with an error.                                                       *)
StreamTaken(i) ==
  /\ Task(i).pc = "read" /\ Task(i).wake # NoWake /\ Task(i).kind = "stream"
  /\ IF Task(i).wake.t \in {"data", "armed", "triggered", "running"} /\ la.stream
     THEN la' = At(la, i, "loop") ELSE la' \in Streamed(la, i)

(* stopAndCloseSigrok: STOP is answered, 100 ms pass, the scope is closed.  *)
Halted(i) ==
  /\ Task(i).pc = "halt" /\ Task(i).wake # NoWake
  /\ IF Task(i).wake.t = "ok" THEN la' = At(la, i, "settle")
     ELSE la' \in AfterHalt(Closed(la), i)

Continue == \E i \in TaskIds :
  \/ Connecting(i) \/ SessionDropped(i) \/ Starting(i) \/ Begun(i) \/ Taken(i)
  \/ StreamTaken(i) \/ Halted(i)

-----------------------------------------------------------------------------
(* What wakes them.                                                         *)

Quiet == ~Woken /\ \A i \in TaskIds : Task(i).pc # "loop"

SessionMade == \E i \in TaskIds :
  /\ Quiet /\ Task(i).pc = "create"
  /\ \/ la' = [Wake(la, i, "ok") EXCEPT !.slots = @ \cup {i}]
     \/ la' = Wake(la, i, "fail")

SessionDeleted == \E i \in la.deleting :
  /\ Quiet
  /\ LET s == [la EXCEPT !.slots = @ \ {i}, !.deleting = @ \ {i}]
     IN la' = IF Task(i).pc = "drop" THEN Wake(s, i, "ok") ELSE s

(* The socket opens and HELLO and CAPS are answered.                        *)
Opened ==
  /\ Quiet /\ la.ws # 0 /\ ~la.up
  /\ la' = Wake([la EXCEPT !.up = TRUE], la.ws, "ok")

LinkLost == Quiet /\ la.ws # 0 /\ la' = Dropped(la)

(* A frame arrives: a capture frame, which an ERROR is too, goes to the     *)
(* reader or into the queue; an answer wakes the task that waits for it.    *)
Deliver ==
  /\ Quiet /\ la.down # <<>>
  /\ LET f == Head(la.down)
         s == [la EXCEPT !.down = Tail(@)]
         kept == CASE f.t = "ok" -> s
                   [] f.t # "ok" /\ s.reader # 0 ->
                        [s EXCEPT !.reader = 0, !.tasks[s.reader].wake = [t |-> f.t, op |-> f.op]]
                   [] OTHER -> [s EXCEPT !.queue = Append(@, f)]
     IN la' = IF f.req # "none" /\ Task(f.op).pc = f.req THEN Wake(kept, f.op, f.t) ELSE kept

ReadTimesOut == \E i \in TaskIds :
  /\ Quiet /\ Task(i).pc = "read"
  /\ la' = [Wake(la, i, "null") EXCEPT !.reader = 0]

RequestTimesOut == \E i \in TaskIds :
  /\ Quiet /\ Task(i).pc \in {"config", "begin", "halt"}
  /\ la' = Wake(la, i, "fail")

Settled == \E i \in TaskIds :
  /\ Quiet /\ Task(i).pc = "settle"
  /\ la' \in AfterHalt(Closed(la), i)

(* The debugger captures: a trigger, samples, the end or an overrun.        *)
Sends(t) == [la EXCEPT !.down = Append(@, Frame(t, la.run))]
Sample ==
  /\ Quiet
  /\ \/ la.phase = "armed" /\ la' = [Sends("triggered") EXCEPT !.phase = "running"]
     \/ /\ la.phase = "running" /\ la.sent < MaxData
        /\ la' = [Sends("data") EXCEPT !.sent = @ + 1]
     \/ \E t \in {"stopped", "overrun"} :
          la.phase = "running" /\ la' = [Sends(t) EXCEPT !.phase = "configured"]

LogicSystem ==
  \/ Continue \/ (~Woken /\ \E i \in TaskIds : Read(i)) \/ SessionMade \/ SessionDeleted \/ Opened \/ Deliver
  \/ ReadTimesOut \/ RequestTimesOut \/ Settled
LogicNext ==
  \/ LogicSystem \/ Arm \/ StartStream \/ Cancel \/ StopStream \/ Clear \/ Unmount
  \/ LinkLost \/ Sample

LogicSpec == LogicInit /\ [][LogicNext]_la
LogicFairSpec == LogicSpec /\ WF_la(LogicSystem)

-----------------------------------------------------------------------------
AtRest == \A i \in TaskIds : Task(i).pc = "over"

(* Whatever was clicked, cancelled or lost: when the last task is over, the *)
(* page is disconnected and every live session it was given is deleted or   *)
(* about to be.  The debugger has few slots, and a lost one blocks others.  *)
NoSessionLeaks ==
  /\ la.slots \subseteq la.deleting \cup {la.session}
                         \cup {i \in TaskIds : Task(i).pc = "create"}
  /\ AtRest => la.ws = 0 /\ la.slots \subseteq la.deleting

(* When the last task is over, the page shows none: not armed or capturing, *)
(* no spinner, no activity that keeps other pages locked; and a page that   *)
(* is gone never reports activity again.                                    *)
PageMatchesTasks ==
  /\ AtRest /\ la.mounted =>
       /\ la.state \in {"idle", "done"} /\ la.busy = "none" /\ ~la.stream
       /\ ~la.streaming /\ ~la.arming /\ ~la.starting /\ ~la.active
  /\ ~la.mounted => ~la.active

(* A capture that began alone and is shown as done holds the samples asked  *)
(* for and its trigger, all of the run it started: never a frame an earlier *)
(* capture or stream left in the queue.                                     *)
ShownCaptureIsOwn ==
  la.shot.op # 0 /\ la.shot.quiet =>
    la.shot.own /\ la.shot.triggered /\ la.shot.count >= Target

(* A capture the user cancelled is not shown as done, also when its last    *)
(* sample was there and it was stopping by itself.                          *)
CancelledIsNotShown == ~la.shot.cancelled

\* What holds of the page and its connection, whatever was clicked or lost.
LogicPageIsSound ==
  NoSessionLeaks /\ PageMatchesTasks /\ ShownCaptureIsOwn /\ CancelledIsNotShown
=============================================================================
