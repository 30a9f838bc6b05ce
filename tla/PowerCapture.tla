---------------------------- MODULE PowerCapture ----------------------------
(***************************************************************************)
(* The streaming power capture of the web application: the page that arms, *)
(* triggers, stops and cancels (useBoardCapture.ts and the message handler *)
(* of useBoardCaptureMessages.ts), the session it keeps for a recording    *)
(* (streamingCaptureModel.ts, streamingCapturePersistence.ts,              *)
(* streamingCaptureFinalize.ts, powerCaptureStop.ts), the archives in      *)
(* IndexedDB (powerCaptureStore.ts), the debugger at the other end of the  *)
(* live WebSocket (linkr_debugger_ws.c) and a second browser tab, which    *)
(* recovers and clears archives of the same database.                      *)
(*                                                                         *)
(* JavaScript runs to completion, so a step of the page is one event: a    *)
(* click, a message, a timer, or a promise that settles.  Every function   *)
(* of powerCaptureStore.ts is one IndexedDB transaction, except recovery,  *)
(* which reads in one and writes in another.  The two directions of the    *)
(* WebSocket are FIFO.  A sample is its sequence number.                   *)
(***************************************************************************)
EXTENDS Integers, Sequences, FiniteSets, SequencesExt

CONSTANTS
  MaxArms,       \* bound: the recordings armed in a behaviour
  MaxCommands,   \* bound: what waits in the socket when the user adds a command
  MaxQueued,     \* POWER_ARCHIVE_MAX_QUEUED_CHUNKS
  Limits         \* what a behaviour may hold, chosen once:
                 \*   arms, samples, drops  bounds: recordings armed, samples
                 \*                         taken, samples dropped
                 \*   chunk    POWER_ARCHIVE_CHUNK_SAMPLES
                 \*   pre      config.preSamples
                 \*   faults   whether a transaction may fail
                 \*   startup  whether the startup analysis, which may cancel
                 \*            a recording that is being saved, is in use
                 \*   tab      whether archives are recovered, and a second tab
                 \*            clears them

ASSUME PowerCaptureAssumption ==
  /\ MaxArms \in Nat \ {0} /\ MaxCommands \in Nat /\ MaxQueued \in Nat \ {0}
  /\ \A l \in Limits :
       /\ l.arms \in 1..MaxArms /\ l.samples \in Nat /\ l.drops \in Nat
       /\ l.chunk \in Nat \ {0} /\ l.pre \in Nat
       /\ l.faults \in BOOLEAN /\ l.startup \in BOOLEAN /\ l.tab \in BOOLEAN

(* The state:
     archive   [Arms -> the record of the archive in the database]
     chunk     [Arms -> its chunks, by index]
     session   [Arms -> the StreamingCaptureSession of the page]
     armed     how many sessions were created
     page      captureState, pendingCaptureRef, streamingCaptureRef and the
               promise of armCapture
     live, ws  whether live mode is on, and its socket
     toDevice, toPage   the two directions of the socket
     device    the capture the debugger has armed
     sampler   its sampler: what was sampled, waits for the socket, was lost
     other     the recovery the second tab has under way
     limits    what this behaviour may hold *)
VARIABLES archive, chunk, session, armed, page, live, ws, toDevice, toPage,
          device, sampler, other, limits

captureVars == <<archive, chunk, session, armed, page, live, ws, toDevice,
                 toPage, device, sampler, other, limits>>

Arms == 1..MaxArms
NoArm == 0

\* again: a history, whether a second trigger has begun the record over.
NoArchive == [status |-> "none", chunks |-> 0, samples |-> 0,
              again |-> FALSE]

NewSession ==
  [triggered |-> FALSE, finishing |-> FALSE, incomplete |-> FALSE,
   handshake |-> "none", finalize |-> "none", begun |-> FALSE, again |-> FALSE,
   pre |-> <<>>, pending |-> <<>>, last |-> 0, total |-> 0, offset |-> -1,
   id |-> 0, trigger |-> 0, dropped |-> 0, index |-> 0, chain |-> <<>>,
   broken |-> FALSE, error |-> FALSE, timer |-> FALSE]

NoRecovery == [arm |-> NoArm, changed |-> FALSE, samples |-> -1]

NoDevice == [state |-> "idle", id |-> 0, trigger |-> 0, notice |-> FALSE,
             fire |-> FALSE]
\* crossed: a history, whether a recording that was being saved has made the page
\* idle beside another one.
IdlePage == [state |-> "idle", pending |-> FALSE, current |-> NoArm,
             promise |-> NoArm, capacity |-> FALSE, crossed |-> FALSE]

CaptureInit ==
  /\ limits \in Limits
  /\ archive = [a \in Arms |-> NoArchive]
  /\ chunk = [a \in Arms |-> <<>>]
  /\ session = [a \in Arms |-> NewSession]
  /\ armed = 0
  /\ page = IdlePage
  /\ live = FALSE /\ ws = "none"
  /\ toDevice = <<>> /\ toPage = <<>>
  /\ device = NoDevice
  /\ sampler = [seq |-> 0, ring |-> <<>>, dropped |-> 0, reported |-> 0, ids |-> 0]
  /\ other = NoRecovery

-----------------------------------------------------------------------------
(* The write chain.  Every write of a session waits for the one before it;  *)
(* after a failure the chain is broken and what waits in it is skipped.     *)

Write(op) == [op |-> op, index |-> 0, data |-> <<>>, quiet |-> FALSE]
Chunk(idx, data) ==
  [op |-> "append", index |-> idx, data |-> data, quiet |-> FALSE]

Queued(s) == Cardinality({i \in DOMAIN s.chain : s.chain[i].op = "append"})
Least(m, n) == IF m < n THEN m ELSE n

\* queueStreamingSamples: number, store and cut into chunks what is new.  Of the
\* full chunks those there is room for are taken; one that finds the queue full
\* is lost and stops the recording.
QueueSamples(s, incoming) ==
  IF s.finishing \/ s.error THEN s
  ELSE LET new == SelectSeq(incoming, LAMBDA x : x > s.last)
           hit == SelectSeq(new, LAMBDA x : x >= s.trigger)
           wait == s.pending \o new
           full == Len(wait) \div limits.chunk
           room == MaxQueued - Queued(s)
           take == Cardinality({n \in 1..room : n <= full})
           cut == Least(full, room + 1)
       IN  [s EXCEPT
              !.last = IF new = <<>> THEN @ ELSE Last(new),
              !.offset = IF @ < 0 /\ hit # <<>>
                           THEN s.total + Len(new) - Len(hit) ELSE @,
              !.total = @ + Len(new),
              !.pending = SubSeq(wait, cut * limits.chunk + 1, Len(wait)),
              !.index = @ + cut,
              !.error = full > room,
              !.chain = @ \o [i \in 1..take |->
                 Chunk(s.index + i - 1,
                       SubSeq(wait, (i - 1) * limits.chunk + 1, i * limits.chunk))]]

\* flushStreamingCaptureChunk, once the end of the recording is fixed.
Flushed(s) ==
  IF s.error \/ s.pending = <<>> THEN [s EXCEPT !.finishing = TRUE]
  ELSE [s EXCEPT !.finishing = TRUE, !.pending = <<>>, !.index = @ + 1,
                 !.chain = Append(@, [Chunk(s.index, s.pending)
                                        EXCEPT !.quiet = TRUE])]

-----------------------------------------------------------------------------
(* Ends of a recording: the helpers of several handlers.                    *)

FailedHandshake(s) ==
  [s EXCEPT !.handshake = IF @ = "pending" THEN "failed" ELSE @]

\* finalizeStreamingCaptureArchive up to its first await.
Finalized(s, inc, open) ==
  LET marked == IF inc THEN FailedHandshake([s EXCEPT !.incomplete = TRUE])
                       ELSE s
      begun == [marked EXCEPT !.timer = FALSE]
  IN  IF s.finalize # "none" THEN marked
      ELSE IF open
        THEN [begun EXCEPT !.handshake = "pending", !.finalize = "stop"]
        ELSE Flushed([begun EXCEPT !.incomplete = TRUE, !.finalize = "drain"])

\* discardStreamingCaptureArchive: the archive is deleted behind the writes
\* already in the chain.
Discarded(s) ==
  LET ended == [FailedHandshake(s) EXCEPT !.finishing = TRUE, !.timer = FALSE]
  IN  IF s.begun THEN [ended EXCEPT !.chain = Append(@, Write("delete"))]
                 ELSE ended

Triggered(ss) == page.current # NoArm /\ ss[page.current].triggered

\* Finalize the session of streamingCaptureRef, whichever session asks for it;
\* ss is what the step has made of the sessions so far.
FinalizeCurrent(ss, inc) ==
  LET c == page.current IN
  IF ~Triggered(ss) THEN session' = ss /\ UNCHANGED <<page, toDevice>>
  ELSE /\ session' = [ss EXCEPT ![c] = Finalized(@, inc, ws = "open")]
       /\ IF ss[c].finalize = "none"
            THEN /\ page' = [page EXCEPT !.state = "receiving"]
                 /\ toDevice' = IF ws = "open"
                      THEN Append(toDevice, [type |-> "stop", id |-> ss[c].id])
                      ELSE toDevice
            ELSE UNCHANGED <<page, toDevice>>

\* resetCapture: the promise of armCapture is rejected, the session discarded.
ResetPage == [page EXCEPT !.state = "idle", !.pending = FALSE,
                          !.current = NoArm, !.promise = NoArm]
ResetSessions ==
  IF page.current = NoArm THEN session
  ELSE [session EXCEPT ![page.current] = Discarded(@)]

\* The socket is gone: handleSocketFailure, or handleSessionCleanup when the
\* page left live mode while the socket was open.
EndOfSocket(open) ==
  /\ IF Triggered(session)
       THEN LET c == page.current IN
            /\ session' = [session EXCEPT ![c] = Finalized(@, TRUE, open)]
            /\ page' = IF session[c].finalize = "none"
                         THEN [page EXCEPT !.state = "receiving"] ELSE page
       ELSE session' = ResetSessions /\ page' = ResetPage
  /\ live' = FALSE /\ ws' = "none"
  /\ toDevice' = <<>> /\ toPage' = <<>>
  /\ device' = NoDevice
  /\ sampler' = [sampler EXCEPT !.ring = <<>>, !.dropped = 0, !.reported = 0]

-----------------------------------------------------------------------------
(* The user.  The buttons follow captureState; while a recording is being   *)
(* saved only the startup analysis can cancel it.                           *)

store == <<archive, chunk>>
link == <<live, ws, toPage>>
board == <<device, sampler>>

Sealed(r) == r.status \notin {"none", "recording"}

\* armCapture up to the await of ensurePowerCaptureStorageCapacity.
Arm ==
  /\ page.state = "idle" /\ ~page.capacity /\ armed < limits.arms
  /\ page' = [page EXCEPT !.capacity = TRUE]
  /\ UNCHANGED <<store, session, armed, link, toDevice, board, other>>

\* There is no room, even after old archives were pruned.
CapacityRefused ==
  /\ page.capacity
  /\ page' = [page EXCEPT !.capacity = FALSE]
  /\ UNCHANGED <<store, session, armed, link, toDevice, board, other>>

\* The rest of armCapture.  Archives may have been pruned to make the room;
\* the session of the recording before is replaced, not ended.
ArmCommit ==
  /\ page.capacity
  /\ \E pruned \in SUBSET {a \in Arms : Sealed(archive[a])} :
       /\ archive' = [a \in Arms |-> IF a \in pruned THEN NoArchive
                                                     ELSE archive[a]]
       /\ chunk' = [a \in Arms |-> IF a \in pruned THEN <<>> ELSE chunk[a]]
  /\ armed' = armed + 1
  /\ page' = [page EXCEPT !.state = "connecting", !.pending = TRUE,
                          !.current = armed + 1, !.promise = armed + 1,
                          !.capacity = FALSE]
  /\ IF ws = "open"
       THEN toDevice' = Append(toDevice, [type |-> "arm", id |-> 0])
            /\ UNCHANGED live
       ELSE live' = TRUE /\ UNCHANGED toDevice
  /\ UNCHANGED <<session, ws, toPage, board, other>>

CanSend == ws = "open" /\ Len(toDevice) + Len(toPage) < MaxCommands

TriggerClicked ==
  /\ page.state = "armed" /\ CanSend
  /\ toDevice' = Append(toDevice, [type |-> "trigger", id |-> 0])
  /\ UNCHANGED <<store, session, armed, page, link, board, other>>

StopClicked ==
  /\ page.state = "recording"
  /\ IF Triggered(session) THEN FinalizeCurrent(session, FALSE)
     ELSE /\ CanSend
          /\ toDevice' = Append(toDevice, [type |-> "stop", id |-> 0])
          /\ UNCHANGED <<session, page>>
  /\ UNCHANGED <<store, armed, link, board, other>>

\* cancelCapture.  A socket that is not open yet throws on send, and nothing
\* is reset.
CancelClicked ==
  /\ \/ page.state \in {"connecting", "armed", "recording"}
     \/ limits.startup /\ page.state = "receiving"
  /\ ws # "connecting" \/ page.current = NoArm
  /\ session' = ResetSessions /\ page' = ResetPage
  /\ toDevice' = IF ws = "open" /\ page.current # NoArm
                   THEN Append(toDevice, [type |-> "cancel", id |-> 0])
                   ELSE toDevice
  /\ UNCHANGED <<store, armed, link, board, other>>

\* clearCaptures, with the page's own archive kept.
Cleared(keep) ==
  /\ archive' = [a \in Arms |-> IF Sealed(archive[a]) /\ a # keep
                                  THEN NoArchive ELSE archive[a]]
  /\ chunk' = [a \in Arms |-> IF Sealed(archive[a]) /\ a # keep
                                THEN <<>> ELSE chunk[a]]
  /\ archive' # archive
  /\ UNCHANGED <<session, armed, page, link, toDevice, board, other>>

ClearClicked == page.state = "idle" /\ Cleared(page.current)
OtherClears == limits.tab /\ Cleared(NoArm)

\* The user opens the live session; bounded by the captures it may rearm.
GoLive ==
  /\ ~live /\ sampler.ids < limits.arms /\ live' = TRUE
  /\ UNCHANGED <<store, session, armed, page, ws, toPage, toDevice, board, other>>

LeaveLive ==
  /\ live
  /\ EndOfSocket(ws = "open")
  /\ UNCHANGED <<store, armed, other>>

\* The tab is reloaded: what its sessions had queued is gone.
PageReloads ==
  /\ armed > 0 /\ page # IdlePage
  /\ page' = IdlePage
  /\ session' = [a \in Arms |-> NewSession]
  /\ live' = FALSE /\ ws' = "none" /\ toDevice' = <<>> /\ toPage' = <<>>
  /\ device' = NoDevice
  /\ sampler' = [sampler EXCEPT !.ring = <<>>, !.dropped = 0, !.reported = 0]
  /\ UNCHANGED <<store, armed, other>>

-----------------------------------------------------------------------------
(* The live socket (useBoardLive).                                          *)

SocketCreated ==
  /\ live /\ ws = "none"
  /\ ws' = "connecting"
  /\ UNCHANGED <<store, session, armed, page, live, toDevice, toPage, board, other>>

\* onopen arms what was asked for while there was no socket.
SocketOpens ==
  /\ ws = "connecting"
  /\ ws' = "open"
  /\ toDevice' = IF page.pending THEN <<[type |-> "arm", id |-> 0]>> ELSE <<>>
  /\ UNCHANGED <<store, session, armed, page, live, toPage, board, other>>

\* The seeding requests, the session or the socket fail.
SocketFails ==
  /\ live
  /\ EndOfSocket(FALSE)
  /\ UNCHANGED <<store, armed, other>>

-----------------------------------------------------------------------------
(* The debugger.                                                            *)

ToPage(m) == toPage' = Append(toPage, m)
Reply(type, id) == ToPage([type |-> type, id |-> id, seq |-> 0, dropped |-> 0])

\* One command of the control channel.
DeviceHandles ==
  /\ toDevice # <<>> /\ ws = "open"
  /\ toDevice' = Tail(toDevice)
  /\ LET m == Head(toDevice) IN
     \/ /\ m.type = "arm"
        /\ IF device.state # "idle"
             THEN Reply("capture_error", 0) /\ UNCHANGED board
             ELSE /\ device' = [NoDevice EXCEPT !.state = "armed",
                                                !.id = sampler.ids + 1]
                  /\ sampler' = [sampler EXCEPT !.ids = @ + 1]
                  /\ Reply("armed", 0)
     \/ /\ m.type = "trigger"
        /\ UNCHANGED sampler
        /\ IF device.state # "armed"
             THEN Reply("capture_error", 0) /\ UNCHANGED device
             ELSE device' = [device EXCEPT !.fire = TRUE] /\ UNCHANGED toPage
     \/ /\ m.type = "stop"
        /\ UNCHANGED sampler
        /\ IF device.state # "triggered"
             THEN Reply("stop_error", 0) /\ UNCHANGED device
             ELSE device' = NoDevice /\ Reply("stopped", m.id)
     \/ /\ m.type = "cancel"
        /\ UNCHANGED sampler
        /\ IF device.state = "idle"
             THEN Reply("capture_error", 0) /\ UNCHANGED device
             ELSE device' = NoDevice /\ UNCHANGED toPage
  /\ UNCHANGED <<store, session, armed, page, live, ws, other>>

\* The sampler takes a sample, which may trigger the capture; a reader that
\* lags behind the ring loses the oldest.  The samples taken before anything is
\* armed leave no trace at the page and are not counted.
DeviceSamples ==
  /\ ws = "open" /\ (page.current # NoArm \/ device # NoDevice)
  /\ sampler.seq < limits.samples
  /\ LET n == sampler.seq + 1 IN
     /\ \E hit \in BOOLEAN :
          /\ hit => device.state = "armed"
          /\ device.fire => hit
          /\ device' = IF hit
               THEN [device EXCEPT !.state = "triggered", !.trigger = n,
                                   !.notice = TRUE, !.fire = FALSE]
               ELSE device
     /\ \/ sampler' = [sampler EXCEPT !.seq = n, !.ring = Append(@, n)]
        \/ /\ sampler.ring # <<>> /\ sampler.dropped < limits.drops
           /\ sampler' = [sampler EXCEPT !.seq = n, !.dropped = @ + 1,
                                         !.ring = Append(Tail(@), n)]
  /\ UNCHANGED <<store, session, armed, page, link, toDevice, other>>

DeviceTelemetry ==
  /\ sampler.ring # <<>>
  /\ ToPage([type |-> "telemetry", id |-> 0, seq |-> Head(sampler.ring),
             dropped |-> sampler.dropped - sampler.reported])
  /\ sampler' = [sampler EXCEPT !.ring = Tail(@), !.reported = sampler.dropped]
  /\ UNCHANGED <<store, session, armed, page, live, ws, toDevice, device, other>>

DeviceNotice ==
  /\ device.notice
  /\ ToPage([type |-> "triggered", id |-> device.id, seq |-> device.trigger,
             dropped |-> sampler.dropped])
  /\ device' = [device EXCEPT !.notice = FALSE]
  /\ UNCHANGED <<store, session, armed, page, live, ws, toDevice, sampler, other>>

-----------------------------------------------------------------------------
(* Messages at the page (useBoardCaptureMessages).                          *)

Received(type) ==
  /\ toPage # <<>> /\ Head(toPage).type = type
  /\ toPage' = Tail(toPage)
  /\ UNCHANGED <<store, armed, live, ws, board, other>>

Accepts(s) == ~s.finishing /\ s.handshake \in {"none", "pending"}
PreKeep == limits.pre + 2
LastOf(s, n) == IF Len(s) > n THEN SubSeq(s, Len(s) - n + 1, Len(s)) ELSE s

OnTelemetry ==
  /\ Received("telemetry")
  /\ LET c == page.current
         m == Head(toPage)
     IN  IF c = NoArm \/ ~Accepts(session[c])
           THEN UNCHANGED <<session, page, toDevice>>
         ELSE LET s == [session[c] EXCEPT !.dropped = @ + m.dropped] IN
              IF ~s.triggered
                THEN /\ session' = [session EXCEPT ![c] =
                          [s EXCEPT !.pre = LastOf(Append(@, m.seq), PreKeep)]]
                     /\ UNCHANGED <<page, toDevice>>
                ELSE \E renew \in BOOLEAN :
                       /\ renew => Write("renew") \notin Range(s.chain) /\ ~s.error
                       /\ LET r == IF renew
                                     THEN [s EXCEPT !.chain = Append(@, Write("renew"))]
                                     ELSE s
                              q == QueueSamples(r, <<m.seq>>)
                          IN  IF q.error /\ ~s.error
                                THEN FinalizeCurrent([session EXCEPT ![c] = q], TRUE)
                                ELSE /\ session' = [session EXCEPT ![c] = q]
                                     /\ UNCHANGED <<page, toDevice>>

OnArmed ==
  /\ Received("armed")
  /\ page' = [page EXCEPT !.pending = FALSE, !.state = "armed",
                          !.promise = NoArm]
  /\ UNCHANGED <<session, toDevice>>

\* The trigger starts the archive with what the buffer holds around it.  No
\* limit on the samples before the trigger keeps all of them: slice(-0).
\* A fresh write chain starts; a write of an older one still goes ahead of it.
OnTriggered ==
  /\ Received("triggered")
  /\ LET c == page.current
         m == Head(toPage)
     IN  IF c = NoArm
           THEN /\ page' = [page EXCEPT !.state = "recording"]
                /\ UNCHANGED <<session, toDevice>>
         ELSE LET s == session[c]
                  before == SelectSeq(s.pre, LAMBDA x : x < m.seq)
                  kept == IF limits.pre = 0 THEN before
                                            ELSE LastOf(before, limits.pre)
                  after == SelectSeq(s.pre, LAMBDA x : x >= m.seq)
                  begun == [s EXCEPT
                    !.id = m.id, !.trigger = m.seq, !.triggered = TRUE,
                    !.begun = TRUE, !.again = s.triggered, !.pre = <<>>, !.broken = FALSE,
                    !.dropped = IF m.dropped > @ THEN m.dropped ELSE @,
                    !.chain = IF @ = <<>> \/ s.broken THEN <<Write("begin")>>
                              ELSE <<Head(@), Write("begin")>> \o Tail(@),
                    !.timer = TRUE]
                  q == QueueSamples(begun, kept \o after)
                  stop == q.error /\ ~s.error
                  ended == IF stop THEN Finalized(q, TRUE, ws = "open") ELSE q
              IN  /\ session' = [session EXCEPT ![c] = ended]
                  /\ page' = [page EXCEPT !.state = "recording"]
                  /\ toDevice' = IF stop /\ q.finalize = "none"
                       THEN Append(toDevice, [type |-> "stop", id |-> q.id])
                       ELSE toDevice

\* Only the acknowledgement of this recording's own request counts.
OnStopped ==
  /\ Received("stopped")
  /\ LET c == page.current IN
     IF c # NoArm /\ session[c].handshake = "pending"
                  /\ Head(toPage).id = session[c].id
       THEN /\ session' = [session EXCEPT ![c].handshake = "acked"]
            /\ page' = [page EXCEPT !.state = "receiving"]
       ELSE UNCHANGED <<session, page>>
  /\ UNCHANGED toDevice

OnStopError ==
  /\ Received("stop_error")
  /\ session' = IF page.current = NoArm THEN session
                ELSE [session EXCEPT ![page.current] = FailedHandshake(@)]
  /\ UNCHANGED <<page, toDevice>>

OnCaptureError ==
  /\ Received("capture_error")
  /\ session' = ResetSessions /\ page' = ResetPage
  /\ UNCHANGED toDevice

\* config.stopAfterMs has passed, if the recording has a limit at all.
StopTimer(a) ==
  /\ session[a].timer
  /\ FinalizeCurrent([session EXCEPT ![a].timer = FALSE], FALSE)
  /\ UNCHANGED <<store, armed, link, board, other>>

\* Three seconds without an acknowledgement.
StopTimeout(a) ==
  /\ session[a].handshake = "pending"
  /\ session' = [session EXCEPT ![a].handshake = "failed"]
  /\ UNCHANGED <<store, armed, page, link, toDevice, board, other>>

-----------------------------------------------------------------------------
(* Transactions of the page.                                                *)

\* The record is stored, with a new updatedAt: a recovery that has listed this
\* archive sees it changed.
Put(a, r) ==
  /\ archive' = [archive EXCEPT ![a] = r]
  /\ other' = [other EXCEPT !.changed = @ \/ other.arm = a]

\* What a write of the chain does to the database when it succeeds.
Writable(a, w) ==
  w.op \in {"append", "renew"} => archive[a].status = "recording"

Written(a, w) ==
  \/ /\ w.op = "begin"
     /\ Put(a, [archive[a] EXCEPT !.status = "recording", !.chunks = 0,
                                  !.samples = 0,
                                  !.again = session[a].again])
     /\ UNCHANGED chunk
  \/ /\ w.op = "renew"
     /\ Put(a, archive[a])
     /\ UNCHANGED chunk
  \/ /\ w.op = "append"
     /\ LET old == chunk[a]
            known == w.index \in DOMAIN old
            had == IF known THEN Len(old[w.index]) ELSE 0
        IN  /\ chunk' = [chunk EXCEPT ![a] =
                 [i \in DOMAIN old \cup {w.index} |->
                    IF i = w.index THEN w.data ELSE old[i]]]
            /\ Put(a, [archive[a] EXCEPT
                         !.chunks = IF known THEN @ ELSE @ + 1,
                         !.samples = @ - had + Len(w.data)])
  \/ /\ w.op = "delete"
     /\ archive' = [archive EXCEPT ![a] = NoArchive]
     /\ chunk' = [chunk EXCEPT ![a] = <<>>]
     /\ UNCHANGED other

\* The next write of the chain of session a runs, or is skipped.
WriteNext(a) ==
  /\ session[a].chain # <<>>
  /\ LET s == session[a]
         w == Head(s.chain)
         rest == [s EXCEPT !.chain = Tail(@)]
         failed == [rest EXCEPT !.broken = TRUE,
                                !.error = w.op \in {"append", "renew"} \/ @]
         ss == [session EXCEPT ![a] = failed]
         Fails == /\ IF failed.error /\ ~s.error /\ ~w.quiet
                       THEN FinalizeCurrent(ss, TRUE)
                       ELSE session' = ss /\ UNCHANGED <<page, toDevice>>
                  /\ UNCHANGED <<store, other>>
     IN  IF s.broken \/ ~Writable(a, w) THEN Fails
         ELSE \/ /\ Written(a, w)
                 /\ session' = [session EXCEPT ![a] = rest]
                 /\ UNCHANGED <<page, toDevice>>
              \/ limits.faults /\ Fails
  /\ UNCHANGED <<armed, link, board>>

\* The handshake is settled: the tail is queued behind the other writes.
FinalizeStopped(a) ==
  /\ session[a].finalize = "stop" /\ session[a].handshake # "pending"
  /\ session' = [session EXCEPT ![a] =
       [Flushed(session[a]) EXCEPT !.finalize = "drain",
                          !.incomplete = @ \/ session[a].handshake = "failed"]]
  /\ UNCHANGED <<store, armed, page, link, toDevice, board, other>>

\* The finally block: whichever recording is on the page, it is idle now.
FinalizeDone(a, failed) ==
  /\ session' = [session EXCEPT ![a].finalize = "done",
                                ![a].broken = @ \/ failed]
  /\ page' = [page EXCEPT !.state = "idle",
                          !.current = IF @ = a THEN NoArm ELSE @,
                          !.crossed = @ \/ page.current \notin {a, NoArm}]

\* Mutant of Whole: what the debugger dropped is not looked at.
WholeDropped(a) ==
  /\ archive[a].chunks = session[a].index
  /\ archive[a].samples >= session[a].total /\ ~session[a].incomplete

\* The archive has every chunk and sample of the session, which lost none.
Whole(a) ==
  /\ archive[a].chunks = session[a].index
  /\ archive[a].samples >= session[a].total
  /\ ~session[a].incomplete /\ session[a].dropped = 0

\* The chain has drained: finishPowerCaptureArchive, unless a write failed.
FinalizeSeal(a) ==
  /\ session[a].finalize = "drain" /\ session[a].chain = <<>>
  /\ LET s == session[a]
         r == archive[a]
         failed == s.broken \/ s.error
     IN  \/ /\ ~failed /\ r.status # "none"
            /\ Put(a, [r EXCEPT !.status = IF Whole(a) THEN "complete"
                                                    ELSE "interrupted"])
            /\ FinalizeDone(a, FALSE)
         \/ /\ failed \/ r.status = "none" \/ limits.faults
            /\ session' = [session EXCEPT ![a].finalize = "abort"]
            /\ UNCHANGED <<archive, page, other>>
  /\ UNCHANGED <<chunk, armed, link, toDevice, board>>

\* interruptPowerCaptureArchive, whose own failure is swallowed.
FinalizeAbort(a) ==
  /\ session[a].finalize = "abort"
  /\ \/ /\ archive[a].status # "none"
        /\ Put(a, [archive[a] EXCEPT
             !.status = IF session[a].error THEN "failed" ELSE "interrupted"])
        /\ FinalizeDone(a, FALSE)
     \/ /\ archive[a].status = "none" \/ limits.faults
        /\ FinalizeDone(a, TRUE)
        /\ UNCHANGED <<archive, other>>
  /\ UNCHANGED <<chunk, armed, link, toDevice, board>>

-----------------------------------------------------------------------------
(* Recovery, of another tab or of this one when it is loaded again.         *)

pageSide == <<session, armed, page, live, ws, toDevice, toPage, device, sampler>>

\* recoverStalePowerCaptureArchives lists a recording whose lease of sixty
\* seconds has run out, counts its chunks and seals it, unless the record has
\* changed (a write also renews the lease).  A lease can run out at any time: the
\* page renews it only when telemetry arrives.
RecoverList(a) ==
  /\ limits.tab /\ other = NoRecovery
  /\ archive[a].status = "recording"
  /\ other' = [NoRecovery EXCEPT !.arm = a]
  /\ UNCHANGED <<store, pageSide>>

SampleCount(f) == FoldLeft(LAMBDA n, i : n + Len(f[i]), 0, SetToSeq(DOMAIN f))

RecoverRebuild ==
  /\ other.arm # NoArm /\ other.samples < 0
  /\ other' = [other EXCEPT !.samples = SampleCount(chunk[other.arm])]
  /\ UNCHANGED <<store, pageSide>>

\* Mutant of Recoverable: the record is not looked at again.
RecoverableAnyway(a) == archive[a].status # "none"

Recoverable(a) == archive[a].status = "recording" /\ ~other.changed

RecoverCommit ==
  /\ other.samples >= 0
  /\ LET a == other.arm IN
     archive' = IF Recoverable(a)
       THEN [archive EXCEPT ![a] = [@ EXCEPT !.status = "interrupted",
                      !.samples = other.samples]]
       ELSE archive
  /\ other' = NoRecovery
  /\ UNCHANGED <<chunk, pageSide>>

-----------------------------------------------------------------------------
UserNext == \/ Arm \/ CapacityRefused \/ ArmCommit \/ TriggerClicked
            \/ StopClicked \/ CancelClicked \/ ClearClicked \/ GoLive
            \/ LeaveLive \/ PageReloads
LinkNext == SocketCreated \/ SocketOpens \/ SocketFails
DeviceNext == DeviceHandles \/ DeviceSamples \/ DeviceTelemetry \/ DeviceNotice
MessageNext == OnTelemetry \/ OnArmed \/ OnTriggered \/ OnStopped
               \/ OnStopError \/ OnCaptureError
SaveNext == \E a \in Arms :
               \/ StopTimer(a) \/ StopTimeout(a) \/ WriteNext(a)
               \/ FinalizeStopped(a) \/ FinalizeSeal(a) \/ FinalizeAbort(a)
RecoverNext == \/ \E a \in Arms : RecoverList(a)
               \/ RecoverRebuild \/ RecoverCommit \/ OtherClears

CaptureNext ==
  /\ \/ UserNext \/ LinkNext \/ DeviceNext \/ MessageNext
     \/ SaveNext \/ RecoverNext
  /\ UNCHANGED limits

CaptureSpec == CaptureInit /\ [][CaptureNext]_captureVars

-----------------------------------------------------------------------------
(* Properties *)

CaptureTypeOK ==
  /\ archive \in [Arms -> [status : {"none", "recording", "complete",
                                     "interrupted", "failed"},
                           chunks : Nat, samples : Nat, again : BOOLEAN]]
  /\ \A a \in Arms : DOMAIN chunk[a] \subseteq Nat
  /\ page.state \in {"idle", "connecting", "armed", "recording", "receiving"}
  /\ page.current \in 0..armed /\ page.promise \in 0..armed
  /\ ws \in {"none", "connecting", "open"}
  /\ \A a \in Arms : session[a].finalize \in {"none", "stop", "drain", "abort",
                                              "done"}

\* A complete archive has lost nothing: its chunks have no hole, their
\* samples are consecutive, and the debugger dropped none.
CompleteIsWhole ==
  \A a \in Arms : archive[a].status = "complete" =>
    LET n == archive[a].chunks
        all == FoldLeft(LAMBDA x, i : x \o chunk[a][i - 1], <<>>,
                        [i \in 1..n |-> i])
    IN  /\ DOMAIN chunk[a] = 0..(n - 1)
        /\ Len(all) = archive[a].samples
        /\ \A i \in 1..(Len(all) - 1) : all[i + 1] = all[i] + 1

\* An archive that is still recording is in the hands of a session that will
\* settle it, was left behind by a failed write or by a second trigger that
\* began it again, its page is gone, or the end of an earlier recording has let
\* the page arm over it: finalizeStreamingCaptureArchive's finally makes the page
\* idle whatever it records, and the next arm replaces the session.
RecordingIsAttended ==
  \A a \in Arms : archive[a].status = "recording" =>
    LET s == session[a] IN
    \/ a = page.current /\ s.triggered
    \/ s.finalize \in {"stop", "drain", "abort"}
    \/ s.broken \/ archive[a].again \/ s = NewSession \/ page.crossed
    \/ Write("delete") \in Range(s.chain)

\* The page says that it receives the end of a recording only while one is being
\* saved: otherwise nothing would ever let the user arm again.
ReceivingIsSaved ==
  page.state = "receiving" =>
    \E a \in Arms : session[a].finalize \in {"stop", "drain", "abort"}

\* A complete archive is never reopened or changed; it can only be deleted.
CompleteIsFinal ==
  [][\A a \in Arms : archive[a].status = "complete" =>
       \/ archive'[a] = NoArchive
       \/ archive'[a] = archive[a] /\ chunk'[a] = chunk[a]]_captureVars

\* The record of an archive counts the samples of its chunks, also when another
\* tab counted them while the recorder may still have been writing.  A second
\* trigger begins the record again and keeps the chunks.
CountsMatchChunks ==
  \A a \in Arms : archive[a].status # "none" /\ ~archive[a].again =>
    /\ archive[a].samples = SampleCount(chunk[a])
    /\ archive[a].chunks = Cardinality(DOMAIN chunk[a])

\* The recordings of the page are sound: complete ones are whole, open ones are
\* attended, records agree with their chunks, and the page is never stuck.
RecordingsAreSound ==
  /\ CaptureTypeOK
  /\ CompleteIsWhole
  /\ RecordingIsAttended
  /\ ReceivingIsSaved
  /\ CountsMatchChunks
=============================================================================
