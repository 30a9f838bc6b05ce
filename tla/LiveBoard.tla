----------------------------- MODULE LiveBoard -----------------------------
(***************************************************************************)
(* What the page shows of the debugger (useBoard.ts, useBoardLive.ts,      *)
(* useBoardMutations.ts): it is polled, or pushed over the WebSocket of a  *)
(* live session, as the Live and Auto buttons and the visibility of the    *)
(* page say.  An effect of React switches between the two; what the old    *)
(* mode has under way goes on behind it.  A power capture                  *)
(* (useBoardCapture.ts) turns the live mode on and keeps a hidden page at  *)
(* work; here it is what the modes and the socket do to it and it to them, *)
(* PowerCapture has what it records.                                       *)
(*                                                                         *)
(* The state of the debugger is a version: a snapshot is the version that  *)
(* was read.                                                               *)
(***************************************************************************)
EXTENDS Integers, FiniteSets

CONSTANTS
  MaxLinks,        \* bound: how often the live mode is entered
  MaxPolls,        \* bound: the refreshes under way at a time, the last slot is
                   \* not for the interval
  MaxBoardEvents   \* bound: the clicks, failures and changes of the debugger

ASSUME LiveBoardAssumption ==
  MaxLinks \in Nat /\ MaxPolls \in Nat /\ MaxBoardEvents \in Nat

Links == 1..MaxLinks
Refreshes == 1..MaxPolls

-----------------------------------------------------------------------------
(* The state:
     lb      the hook: live, auto, whether the page is hidden, its capture, the
             mode its effect last ran for, whether its interval runs, wsRef, the
             preview that waits for a frame, what it shows, whether a command of
             the user is out and was clicked in live mode; late: the last thing
             shown was read by a refresh and came in live mode
     links   the live effects: the await or state of the socket each is at, its
             session, whether the debugger has a state to push, what is pushed
     polls   the refreshes under way: the request each is at, what it read
     boardFw the debugger: its version, its live sessions, those whose
             creation or deletion went wrong *)
VARIABLES lb, links, polls, boardFw

liveBoardVars == <<lb, links, polls, boardFw>>

NoLink == [pc |-> "none", cancelled |-> FALSE, session |-> FALSE, released |-> FALSE,
           deleting |-> FALSE, posted |-> FALSE, ver |-> 0]
NoPoll == [pc |-> "none", ver |-> 0]

(* The capture: captureState, "on" when armed or recording and "saving"     *)
(* when receiving; whether armCapture waits for room in the archive; the    *)
(* refs of the pending configuration and of the session; the sessions being *)
(* saved; the arms sent over the socket and not answered; whether the       *)
(* debugger may announce a trigger over it.                                 *)
NoCapture ==
  [state |-> "idle", room |-> FALSE, pending |-> FALSE, session |-> "none",
   saving |-> 0, asked |-> 0, due |-> FALSE]

LiveBoardInit ==
  /\ lb = [live |-> FALSE, auto |-> TRUE, hidden |-> FALSE, capture |-> NoCapture,
           mode |-> <<>>, interval |-> FALSE, ws |-> 0, preview |-> 0, shown |-> 0, late |-> FALSE,
           connected |-> TRUE, loading |-> TRUE, command |-> "none", events |-> 0]
  /\ links = [l \in Links |-> NoLink]
  /\ polls = [p \in Refreshes |-> NoPoll]
  /\ boardFw = [ver |-> 1, sessions |-> {}, lost |-> {}]

(* A capture keeps a hidden page at work.                                   *)
PageVisible == ~lb.hidden \/ lb.capture.state # "idle"
Mode == <<lb.live, PageVisible, lb.auto>>

BoardEvent == lb.events < MaxBoardEvents
Counted(page) == [page EXCEPT !.events = @ + 1]

(* Every snapshot proves that the board is there (markVerified).            *)
Shows(page, ver) ==
  [page EXCEPT !.shown = ver, !.late = FALSE, !.connected = TRUE, !.loading = FALSE]

-----------------------------------------------------------------------------
(* What ends a capture.                                                     *)

SocketOpen == lb.ws # 0 /\ links[lb.ws].pc = "open"
BeingSaved(c) == c.session \in {"stopping", "closing"}

(* resetCapture: a session that is being saved goes on without its ref.     *)
ResetCapture(c) == [c EXCEPT !.state = "idle", !.pending = FALSE, !.session = "none"]

(* finalizeStreamingCapture, once for a session: over an open socket it     *)
(* waits for the stop to be acknowledged.                                   *)
Finalized(c, session) ==
  [c EXCEPT !.state = "saving", !.session = session, !.saving = @ + 1]

(* handleSocketFailure and handleSessionCleanup: what is recorded is saved, *)
(* what is only armed is given up; nobody waits for an acknowledgement.     *)
Interrupted(c) ==
  CASE c.session = "triggered" -> Finalized(c, "closing")
    [] BeingSaved(c) -> [c EXCEPT !.session = "closing"]
    [] OTHER -> ResetCapture(c)

(* The socket is gone, and what was under way over it.                      *)
Unlinked(c) == [Interrupted(c) EXCEPT !.asked = 0, !.due = FALSE]

-----------------------------------------------------------------------------
(* The modes.                                                               *)

RefreshBegins(page, slots) ==
  \E p \in slots : /\ polls[p].pc = "none"
                   /\ polls' = [polls EXCEPT ![p] = [NoPoll EXCEPT !.pc = "status"]]
                   /\ lb' = page

(* releaseSession: once, and only of a session there is.                    *)
Released(link) ==
  IF link.session /\ ~link.released THEN [link EXCEPT !.released = TRUE, !.deleting = TRUE]
  ELSE link

\* Mutant of CleanedUp: the cleanup takes the session of an effect that is still
\* making it for released.
CleanedUpEarly(link) ==
  CASE link.pc \in {"connecting", "open"} ->
         [link EXCEPT !.cancelled = TRUE, !.pc = "closing"]
    [] link.pc = "session" -> [link EXCEPT !.cancelled = TRUE, !.released = TRUE]
    [] OTHER -> [Released(link) EXCEPT !.cancelled = TRUE]

(* The cleanup of the live effect.                                          *)
CleanedUp(link) ==
  CASE link.pc \in {"connecting", "open"} ->
         [link EXCEPT !.cancelled = TRUE, !.pc = "closing"]
    [] OTHER -> [Released(link) EXCEPT !.cancelled = TRUE]

CurrentLink(l) == links[l].pc # "none" /\ ~links[l].cancelled

(* The effect of the mode: the cleanup of the last one, then the new one.   *)
ModeEffect ==
  LET cleaned == [l \in Links |-> IF CurrentLink(l) THEN CleanedUp(links[l]) ELSE links[l]]
      left == \E l \in Links : CurrentLink(l)
      page == [lb EXCEPT !.mode = Mode, !.interval = FALSE,
                         !.ws = IF left THEN 0 ELSE @, !.preview = IF left THEN 0 ELSE @,
                         !.capture = IF left THEN Unlinked(@) ELSE @]
  IN /\ lb.mode # Mode
     /\ CASE lb.live /\ PageVisible ->
               /\ \E l \in Links :
                    /\ links[l].pc = "none" /\ \A k \in 1..(l - 1) : links[k].pc # "none"
                    /\ links' = [cleaned EXCEPT ![l].pc = "status"]
               /\ lb' = page /\ UNCHANGED polls
          [] ~PageVisible ->
               lb' = [page EXCEPT !.loading = FALSE] /\ links' = cleaned /\ UNCHANGED polls
          [] OTHER ->
               /\ RefreshBegins([page EXCEPT !.loading = TRUE, !.interval = lb.auto], Refreshes)
               /\ links' = cleaned
     /\ UNCHANGED boardFw

IntervalFires ==
  lb.interval /\ RefreshBegins(lb, Refreshes \ {MaxPolls}) /\ UNCHANGED <<links, boardFw>>

(* refresh: the status, then the readings; no answer is ever too late.      *)
PollRead(p) ==
  /\ polls[p].pc = "status"
  /\ polls' = [polls EXCEPT ![p] = [pc |-> "adc", ver |-> boardFw.ver]]
  /\ UNCHANGED <<lb, links, boardFw>>

PollAnswered(p) ==
  /\ polls[p].pc = "adc"
  /\ lb' = [Shows(lb, polls[p].ver) EXCEPT !.late = lb.live]
  /\ polls' = [polls EXCEPT ![p] = NoPoll] /\ UNCHANGED <<links, boardFw>>

PollFails(p) ==
  /\ BoardEvent /\ polls[p].pc # "none"
  /\ lb' = Counted([lb EXCEPT !.connected = FALSE, !.loading = FALSE])
  /\ polls' = [polls EXCEPT ![p] = NoPoll] /\ UNCHANGED <<links, boardFw>>

-----------------------------------------------------------------------------
(* The live effect.                                                         *)

SeedRead(l) ==
  /\ links[l].pc = "status"
  /\ links' = [links EXCEPT ![l].pc = "adc", ![l].ver = boardFw.ver]
  /\ UNCHANGED <<lb, polls, boardFw>>

Seeded(l) ==
  /\ links[l].pc = "adc"
  /\ IF links[l].cancelled THEN links' = [links EXCEPT ![l].pc = "over"] /\ UNCHANGED lb
     ELSE links' = [links EXCEPT ![l].pc = "session", ![l].ver = 0] /\ lb' = Shows(lb, links[l].ver)
  /\ UNCHANGED <<polls, boardFw>>

(* The catch does not look at cancelled: the failure of an effect that is   *)
(* over ends the live mode of the next one.                                 *)
SeedFails(l) ==
  /\ BoardEvent /\ links[l].pc \in {"status", "adc"}
  /\ links' = [links EXCEPT ![l].pc = "over"]
  /\ lb' = Counted([lb EXCEPT !.live = FALSE, !.connected = FALSE])
  /\ UNCHANGED <<polls, boardFw>>

(* The session is there: a cancelled effect gives it back at once.          *)
LiveSessionMade(l) ==
  LET link == [links[l] EXCEPT !.session = TRUE]
  IN /\ links[l].pc = "session"
     /\ boardFw' = [boardFw EXCEPT !.sessions = @ \cup {l}]
     /\ IF link.cancelled
        THEN links' = [links EXCEPT ![l] = [Released(link) EXCEPT !.pc = "over"]]
        ELSE links' = [links EXCEPT ![l] = [link EXCEPT !.pc = "connecting"]]
     /\ lb' = IF link.cancelled THEN lb ELSE [lb EXCEPT !.ws = l]
     /\ UNCHANGED polls

(* Refused, or made with an answer that is lost.                            *)
SessionFails(l) ==
  /\ BoardEvent /\ links[l].pc = "session"
  /\ links' = [links EXCEPT ![l].pc = "over"]
  /\ lb' = Counted(IF links[l].cancelled THEN lb ELSE [lb EXCEPT !.live = FALSE])
  /\ boardFw' \in {boardFw, [boardFw EXCEPT !.sessions = @ \cup {l}, !.lost = @ \cup {l}]}
  /\ UNCHANGED polls

(* A capture that waited for the socket is armed.                           *)
LinkOpens(l) ==
  /\ links[l].pc = "connecting"
  /\ links' = [links EXCEPT ![l].pc = "open", ![l].posted = TRUE]
  /\ LET sent == [lb.capture EXCEPT !.asked = IF lb.capture.pending THEN 1 ELSE 0]
     IN lb' = [lb EXCEPT !.capture = sent]
  /\ UNCHANGED <<polls, boardFw>>

(* The debugger pushes a snapshot when its state has changed, and when the  *)
(* socket subscribes; it arrives later, or is dropped after the cleanup.    *)
SnapshotPushed(l) ==
  /\ links[l].pc = "open" /\ links[l].posted
  /\ links' = [links EXCEPT ![l].posted = FALSE, ![l].ver = boardFw.ver]
  /\ UNCHANGED <<lb, polls, boardFw>>

SnapshotArrives(l) ==
  /\ links[l].pc = "open" /\ links[l].ver # 0
  /\ links' = [links EXCEPT ![l].ver = 0]
  /\ lb' = [lb EXCEPT !.shown = links[l].ver, !.late = FALSE]
  /\ UNCHANGED <<polls, boardFw>>

(* Readings are shown with the next frame of the browser.                   *)
TelemetryArrives(l) ==
  /\ links[l].pc = "open" /\ ~lb.hidden /\ lb.preview = 0
  /\ lb' = [lb EXCEPT !.preview = l] /\ UNCHANGED <<links, polls, boardFw>>

FramePublishes ==
  /\ lb.preview # 0 /\ lb' = [lb EXCEPT !.preview = 0]
  /\ UNCHANGED <<links, polls, boardFw>>

(* The socket closes: by the cleanup, or because it or the board is lost.   *)
(* The firmware ends the session of a socket that closes.                   *)
LinkCloses(l) ==
  LET link == [Released(links[l]) EXCEPT !.pc = "over"]
  IN /\ \/ links[l].pc = "closing" /\ lb' = lb
        \/ /\ BoardEvent /\ links[l].pc \in {"connecting", "open"}
           /\ lb' = Counted([lb EXCEPT !.live = FALSE, !.connected = FALSE, !.preview = 0,
                                       !.capture = Unlinked(lb.capture),
                                       !.ws = IF @ = l THEN 0 ELSE @])
     /\ links' = [links EXCEPT ![l] = link]
     /\ boardFw' \in {boardFw, [boardFw EXCEPT !.sessions = @ \ {l}]}
     /\ UNCHANGED polls

(* The DELETE of a released session; it may fail.                           *)
SessionEnds(l) ==
  /\ links[l].deleting
  /\ links' = [links EXCEPT ![l].deleting = FALSE]
  /\ \/ boardFw' = [boardFw EXCEPT !.sessions = @ \ {l}] /\ UNCHANGED lb
     \/ BoardEvent /\ boardFw' = [boardFw EXCEPT !.lost = @ \cup {l}] /\ lb' = Counted(lb)
  /\ UNCHANGED polls

-----------------------------------------------------------------------------
(* The capture.                                                             *)

CaptureBecomes(c) == lb' = [lb EXCEPT !.capture = c] /\ UNCHANGED <<links, polls, boardFw>>

(* armCapture up to its await; the button is there while nothing is on.     *)
CaptureClicked ==
  LET asking == [lb.capture EXCEPT !.room = TRUE]
  IN /\ BoardEvent /\ lb.capture.state = "idle" /\ ~lb.capture.room
     /\ lb' = Counted([lb EXCEPT !.capture = asking])
     /\ UNCHANGED <<links, polls, boardFw>>

NoRoom == lb.capture.room /\ CaptureBecomes([lb.capture EXCEPT !.room = FALSE])

(* The rest of it: sent over an open socket, or with the next that opens.   *)
CaptureArmed ==
  LET armed == [lb.capture EXCEPT !.room = FALSE, !.pending = TRUE, !.session = "armed",
                                  !.state = "connecting", !.asked = IF SocketOpen THEN @ + 1 ELSE @]
  IN /\ lb.capture.room
     /\ lb' = [lb EXCEPT !.capture = armed, !.live = lb.live \/ ~SocketOpen]
     /\ UNCHANGED <<links, polls, boardFw>>

(* The debugger arms it, or refuses.                                        *)
ArmAnswered ==
  LET c == [lb.capture EXCEPT !.asked = @ - 1]
  IN /\ SocketOpen /\ lb.capture.asked > 0
     /\ \/ CaptureBecomes([c EXCEPT !.state = "on", !.pending = FALSE, !.due = TRUE])
        \/ CaptureBecomes(ResetCapture(c))

(* A trigger is for the session there is, be it of an earlier arm.          *)
CaptureTriggered ==
  LET c == [lb.capture EXCEPT !.state = "on", !.due = FALSE]
  IN /\ SocketOpen /\ lb.capture.due
     /\ CaptureBecomes([c EXCEPT !.session = IF @ = "armed" THEN "triggered" ELSE @])

(* The button, the timer of the recording, or a failure of the archive.     *)
CaptureStops ==
  /\ lb.capture.session = "triggered"
  /\ CaptureBecomes(Finalized(lb.capture, IF SocketOpen THEN "stopping" ELSE "closing"))

StopAcknowledged ==
  /\ SocketOpen /\ lb.capture.session = "stopping"
  /\ CaptureBecomes([lb.capture EXCEPT !.state = "saving", !.session = "closing"])

(* A session is saved: the capture is idle, whatever is armed beside it.    *)
CaptureSaved ==
  LET c == [lb.capture EXCEPT !.state = "idle", !.saving = @ - 1]
  IN \/ BeingSaved(lb.capture) /\ CaptureBecomes([c EXCEPT !.session = "none"])
     \/ /\ lb.capture.saving > IF BeingSaved(lb.capture) THEN 1 ELSE 0
        /\ CaptureBecomes(c)

(* cancelCapture: a socket that is not open yet throws, and nothing is      *)
(* reset.                                                                   *)
CaptureCancelled ==
  /\ BoardEvent /\ lb.capture.state # "idle"
  /\ SocketOpen \/ lb.ws = 0 \/ lb.capture.session = "none"
  /\ lb' = Counted([lb EXCEPT !.capture = ResetCapture(lb.capture)]) /\ UNCHANGED <<links, polls, boardFw>>

(* Over an open socket: an earlier trigger or cancel is refused, or a frame *)
(* cannot be read.                                                          *)
CaptureFails ==
  /\ BoardEvent /\ SocketOpen
  /\ \/ lb' = Counted([lb EXCEPT !.capture = ResetCapture(lb.capture)])
     \/ lb' = Counted([lb EXCEPT !.capture = Interrupted(lb.capture), !.connected = FALSE])
  /\ UNCHANGED <<links, polls, boardFw>>

(* What the page does of itself, and what the debugger answers.             *)
CaptureGoesOn ==
  NoRoom \/ CaptureArmed \/ ArmAnswered \/ StopAcknowledged \/ CaptureSaved

-----------------------------------------------------------------------------
(* The user and the debugger.                                               *)

(* The buttons turn over what was rendered.                                 *)
LiveClicked ==
  /\ BoardEvent /\ lb.mode # <<>> /\ lb' = Counted([lb EXCEPT !.live = ~lb.mode[1]])
  /\ UNCHANGED <<links, polls, boardFw>>
AutoClicked ==
  /\ BoardEvent /\ lb.mode # <<>> /\ ~lb.mode[1]
  /\ lb' = Counted([lb EXCEPT !.auto = ~lb.mode[3]])
  /\ UNCHANGED <<links, polls, boardFw>>
RefreshButton ==
  /\ BoardEvent /\ (lb.loading => ~lb.connected) /\ RefreshBegins(Counted(lb), Refreshes)
  /\ UNCHANGED <<links, boardFw>>
VisibilityTurns ==
  /\ BoardEvent
  /\ lb' = Counted([lb EXCEPT !.hidden = ~@, !.preview = IF lb.hidden THEN @ ELSE 0])
  /\ UNCHANGED <<links, polls, boardFw>>

(* A command of a card: setPower, setSwitch or setGpio.                     *)
CommandClicked ==
  /\ BoardEvent /\ lb.connected /\ lb.command = "none"
  /\ lb' = Counted([lb EXCEPT !.command = IF lb.live THEN "live" ELSE "polled"])
  /\ UNCHANGED <<links, polls, boardFw>>

(* The change of state is posted to the sockets that are connected.        *)
StatePosted ==
  links' = IF boardFw'.ver = boardFw.ver THEN links
           ELSE [l \in Links |->
                   IF links[l].pc = "open" THEN [links[l] EXCEPT !.posted = TRUE] ELSE links[l]]

(* It is done, or refused; when it is confirmed and the page polled, a      *)
(* refresh follows.                                                         *)
CommandAnswered ==
  LET page == [lb EXCEPT !.command = "none"]
  IN /\ lb.command # "none"
     /\ boardFw' \in {boardFw, [boardFw EXCEPT !.ver = @ + 1]}
     /\ \/ lb' = page /\ UNCHANGED polls
        \/ lb.command = "polled" /\ boardFw' # boardFw /\ RefreshBegins(page, Refreshes)
     /\ StatePosted

LinksGoOn ==
  \E l \in Links : \/ SeedRead(l) \/ Seeded(l) \/ LiveSessionMade(l) \/ LinkOpens(l)
                   \/ SnapshotPushed(l) \/ SnapshotArrives(l)
                   \/ (links[l].pc = "closing" /\ LinkCloses(l))
                   \/ SessionEnds(l)

BoardGoesOn == ModeEffect \/ CommandAnswered \/ LinksGoOn \/ CaptureGoesOn
BoardPolls == IntervalFires \/ \E p \in Refreshes : PollRead(p) \/ PollAnswered(p)

LiveBoardNext ==
  \/ BoardGoesOn \/ BoardPolls \/ FramePublishes
  \/ LiveClicked \/ AutoClicked \/ RefreshButton \/ VisibilityTurns
  \/ CommandClicked \/ CaptureClicked \/ CaptureTriggered \/ CaptureStops
  \/ CaptureCancelled \/ CaptureFails
  \/ \E p \in Refreshes : PollFails(p)
  \/ \E l \in Links : \/ SeedFails(l) \/ SessionFails(l) \/ LinkCloses(l)
                      \/ TelemetryArrives(l)

(* Requests are answered, sockets open and close, the interval fires, and   *)
(* the debugger pushes what changed.                                        *)
LiveBoardFairSpec ==
  LiveBoardInit /\ [][LiveBoardNext]_liveBoardVars 
  /\ WF_liveBoardVars(BoardGoesOn) /\ WF_liveBoardVars(BoardPolls)

-----------------------------------------------------------------------------
\* No live session is left behind: whatever is cancelled, and at which await,
\* a session the debugger holds is one of an effect that will still release it,
\* or its request or its delete went wrong (releaseSession, the cleanup).  The
\* debugger has only a few.
SessionsAreReleased ==
  \A l \in boardFw.sessions \ boardFw.lost :
    \/ links[l].deleting
    \/ links[l].pc \in {"connecting", "open", "closing"}

\* One mode at a time: at most one live effect is not cancelled, wsRef is its
\* socket, and the preview is of it (createTelemetryFrameScheduler); the interval
\* does not run beside it, and neither does at a page nobody sees.
OneModeAtATime ==
  /\ \A k, l \in Links : CurrentLink(k) /\ CurrentLink(l) => k = l
  /\ lb.ws # 0 => CurrentLink(lb.ws) /\ links[lb.ws].pc \in {"connecting", "open"}
  /\ lb.preview # 0 => lb.preview = lb.ws /\ ~lb.hidden
  /\ lb.mode = Mode /\ lb.interval => lb.auto /\ ~lb.live /\ PageVisible
  /\ lb.mode = Mode /\ ~PageVisible => ~\E l \in Links : CurrentLink(l)

\* A recording in progress has the open socket it comes over: wherever that goes,
\* by a failure, the cleanup or a hidden page, it is being saved or given up with
\* it (handleSocketFailure, handleSessionCleanup).  A capture is shown as on only
\* over an open socket or while another is being saved, as being saved only when
\* one is, and as connecting only while its configuration waits to be armed.
CaptureKeepsSocket ==
  /\ lb.capture.session = "triggered" => SocketOpen
  /\ lb.capture.state = "on" => SocketOpen \/ lb.capture.saving > 0
  /\ lb.capture.state = "saving" => lb.capture.saving > 0
  /\ lb.capture.state = "connecting" => lb.capture.pending

\* What holds of the page's picture of the board.
BoardPageIsSound == SessionsAreReleased /\ OneModeAtATime /\ CaptureKeepsSocket

\* No live effect connects and none is due, though live may be on: it was turned
\* off by the failure of a link and on again by armCapture, or the other way
\* round, before the effect of the mode ran.
NobodyConnects == lb.mode = Mode /\ \A l \in Links : CurrentLink(l) => links[l].pc = "over"

\* The page follows the board and shows an old state, or a command is out, or a
\* capture is connecting or being saved.  An old state read by a refresh of before
\* the live mode counts for nothing: no push follows it until the board changes
\* again.  Neither does a live mode in which nobody connects.
BoardUnderWay ==
  \/ /\ PageVisible /\ (lb.live \/ lb.auto) /\ ~lb.late /\ lb.shown # boardFw.ver
     /\ lb.live => ~NobodyConnects
  \/ lb.command # "none"
  \/ lb.capture.saving > 0 \/ (lb.capture.state = "connecting" /\ ~NobodyConnects)
=============================================================================
