-------------------------- MODULE BoardPage_proofs --------------------------
(***************************************************************************)
(* Theorems about the cards of the board page, for any number of live      *)
(* effects and refreshes, of pins and presses, and of task runs, mounts    *)
(* and catalogs.                                                           *)
(***************************************************************************)
EXTENDS LiveBoard, GpioPad, TaskPage, SequenceTheorems, TLAPS

-----------------------------------------------------------------------------
(* The live state of the board.                                            *)

LinkPcs == {"none", "status", "adc", "session", "connecting", "open", "closing",
            "over"}
LinkRecords == [pc : LinkPcs, cancelled : BOOLEAN, session : BOOLEAN,
                released : BOOLEAN, deleting : BOOLEAN, posted : BOOLEAN,
                ver : Nat]
PollRecords == [pc : {"none", "status", "adc"}, ver : Nat]
Modes == BOOLEAN \X BOOLEAN \X BOOLEAN
CaptureSessions == {"none", "armed", "triggered", "stopping", "closing"}
CaptureRecords ==
  [state : {"idle", "connecting", "on", "saving"}, room : BOOLEAN, pending : BOOLEAN,
   session : CaptureSessions, saving : Nat, asked : Nat, due : BOOLEAN]
PageRecords ==
  [live : BOOLEAN, auto : BOOLEAN, hidden : BOOLEAN, capture : CaptureRecords,
   mode : {<<>>} \cup Modes, interval : BOOLEAN, ws : {0} \cup Links,
   preview : {0} \cup Links, shown : Nat, late : BOOLEAN, connected : BOOLEAN,
   loading : BOOLEAN, command : {"none", "live", "polled"}, events : Nat]

BoardTypeOK ==
  /\ lb \in PageRecords
  /\ links \in [Links -> LinkRecords]
  /\ polls \in [Refreshes -> PollRecords]
  /\ boardFw \in [ver : Nat, sessions : SUBSET Links, lost : SUBSET Links]

Linked == {"connecting", "open"}

\* A live effect has a session from its answer on, releases it once, when its
\* socket closes or the effect was cancelled before; one that is cancelled has
\* no socket but a closing one.
LinkInv(link) ==
  /\ link.released => link.session
  /\ link.session => link.pc \in Linked \cup {"closing", "over"}
  /\ link.pc \in Linked \cup {"closing"} => link.session /\ ~link.released
  /\ link.pc \in Linked => ~link.cancelled
  /\ link.pc = "closing" => link.cancelled

\* The one effect that is not cancelled belongs to the mode the page is in,
\* and a socket is wsRef from its making to its close.
ModeInv ==
  /\ \A k, l \in Links : CurrentLink(k) /\ CurrentLink(l) => k = l
  /\ \A l \in Links : CurrentLink(l) => \E a \in BOOLEAN : lb.mode = <<TRUE, TRUE, a>>
  /\ \A l \in Links : links[l].pc \in Linked => lb.ws = l
  /\ lb.ws # 0 => CurrentLink(lb.ws) /\ links[lb.ws].pc \in Linked
  /\ lb.preview # 0 => lb.preview = lb.ws /\ ~lb.hidden
  /\ lb.interval => lb.mode = <<FALSE, TRUE, TRUE>>

\* A session that is being saved is counted, and what the page shows of a
\* capture goes with what is under way.
CaptureSound(c) ==
  /\ BeingSaved(c) => c.saving > 0
  /\ c.state = "saving" => c.saving > 0
  /\ c.state = "connecting" => c.pending

\* Nothing of it needs a socket.
Unbound(c) == c.session # "triggered" /\ (c.state = "on" => c.saving > 0)

CaptureInv == CaptureSound(lb.capture) /\ (SocketOpen \/ Unbound(lb.capture))

BoardInv ==
  /\ BoardTypeOK
  /\ \A l \in Links : LinkInv(links[l])
  /\ SessionsAreReleased
  /\ ModeInv
  /\ CaptureInv

-----------------------------------------------------------------------------
(* The types.                                                              *)

\* An assignment to a field of the page keeps it a page.
LEMMA PageTyped ==
  ASSUME NEW page \in PageRecords
  PROVE  /\ Counted(page) \in PageRecords
         /\ \A b \in BOOLEAN :
              /\ [page EXCEPT !.live = b] \in PageRecords
              /\ [page EXCEPT !.auto = b] \in PageRecords
              /\ [page EXCEPT !.connected = b] \in PageRecords
              /\ [page EXCEPT !.loading = b] \in PageRecords
              /\ [page EXCEPT !.late = b] \in PageRecords
         /\ \A n \in Nat : /\ Shows(page, n) \in PageRecords
                           /\ [page EXCEPT !.shown = n, !.late = FALSE] \in PageRecords
         /\ \A l \in {0} \cup Links : /\ [page EXCEPT !.ws = l] \in PageRecords
                                      /\ [page EXCEPT !.preview = l] \in PageRecords
         /\ \A c \in {"none", "live", "polled"} :
              [page EXCEPT !.command = c] \in PageRecords
  <1>1. Counted(page) \in PageRecords
    BY DEF PageRecords, Counted
  <1>2. ASSUME NEW b \in BOOLEAN
        PROVE  /\ [page EXCEPT !.live = b] \in PageRecords
               /\ [page EXCEPT !.auto = b] \in PageRecords
               /\ [page EXCEPT !.connected = b] \in PageRecords
               /\ [page EXCEPT !.loading = b] \in PageRecords
               /\ [page EXCEPT !.late = b] \in PageRecords
    BY DEF PageRecords
  <1>3. ASSUME NEW n \in Nat
        PROVE  [page EXCEPT !.shown = n, !.late = FALSE] \in PageRecords
    BY DEF PageRecords
  <1>4. ASSUME NEW n \in Nat
        PROVE  Shows(page, n) \in PageRecords
    BY DEF PageRecords, Shows
  <1>5. ASSUME NEW l \in {0} \cup Links
        PROVE  /\ [page EXCEPT !.ws = l] \in PageRecords
               /\ [page EXCEPT !.preview = l] \in PageRecords
    BY DEF PageRecords
  <1>6. ASSUME NEW c \in {"none", "live", "polled"}
        PROVE  [page EXCEPT !.command = c] \in PageRecords
    BY DEF PageRecords
  <1> QED
    BY <1>1, <1>2, <1>3, <1>4, <1>5, <1>6

\* So does one to a field of a link.
LEMMA LinkTyped ==
  ASSUME NEW link \in LinkRecords
  PROVE  /\ Released(link) \in LinkRecords
         /\ CleanedUp(link) \in LinkRecords
         /\ \A pc \in LinkPcs : [link EXCEPT !.pc = pc] \in LinkRecords
         /\ \A b \in BOOLEAN : /\ [link EXCEPT !.session = b] \in LinkRecords
                               /\ [link EXCEPT !.deleting = b] \in LinkRecords
                               /\ [link EXCEPT !.posted = b] \in LinkRecords
         /\ \A n \in Nat : [link EXCEPT !.ver = n] \in LinkRecords
  BY ZenonT(30) DEF LinkRecords, LinkPcs, Released, CleanedUp

\* The links after the cleanup of the last mode.
Cleaned == [l \in Links |-> IF CurrentLink(l) THEN CleanedUp(links[l]) ELSE links[l]]

LEMMA CleanedTyped ==
  ASSUME links \in [Links -> LinkRecords]
  PROVE  Cleaned \in [Links -> LinkRecords]
  BY LinkTyped DEF Cleaned

\* The captures of the page after what ends one: nothing of them needs a socket.
LEMMA CaptureEnds ==
  ASSUME NEW c \in CaptureRecords, CaptureSound(c)
  PROVE  /\ ResetCapture(c) \in CaptureRecords
         /\ CaptureSound(ResetCapture(c)) /\ Unbound(ResetCapture(c))
         /\ Interrupted(c) \in CaptureRecords
         /\ CaptureSound(Interrupted(c)) /\ Unbound(Interrupted(c))
         /\ Unlinked(c) \in CaptureRecords
         /\ CaptureSound(Unlinked(c)) /\ Unbound(Unlinked(c))
  <1>1. /\ ResetCapture(c) \in CaptureRecords
        /\ CaptureSound(ResetCapture(c)) /\ Unbound(ResetCapture(c))
    BY DEF ResetCapture, CaptureRecords, CaptureSessions, CaptureSound, Unbound, BeingSaved
  <1>2. /\ Interrupted(c) \in CaptureRecords
        /\ CaptureSound(Interrupted(c)) /\ Unbound(Interrupted(c))
    <2>1. CASE c.session = "triggered"
      <3> DEFINE n == c.saving + 1
      <3>1. Interrupted(c) = [c EXCEPT !.state = "saving", !.session = "closing",
                                       !.saving = n]
        BY <2>1 DEF Interrupted, Finalized, BeingSaved
      <3>0. c.saving \in Nat
        BY DEF CaptureRecords
      <3>2. n \in Nat /\ n > 0
        BY <3>0
      <3> HIDE DEF n
      <3> QED
        BY <3>1, <3>2 DEF CaptureRecords, CaptureSessions, CaptureSound, Unbound, BeingSaved
    <2>2. CASE BeingSaved(c)
      <3>1. Interrupted(c) = [c EXCEPT !.session = "closing"]
        BY <2>2 DEF Interrupted, BeingSaved
      <3> QED
        BY <2>2, <3>1 DEF CaptureRecords, CaptureSessions, CaptureSound, Unbound, BeingSaved
    <2>3. CASE c.session # "triggered" /\ ~BeingSaved(c)
      BY <1>1, <2>3 DEF Interrupted
    <2> QED
      BY <2>1, <2>2, <2>3
  <1> DEFINE d == Interrupted(c)
  <1>3. /\ [d EXCEPT !.asked = 0, !.due = FALSE] \in CaptureRecords
        /\ CaptureSound([d EXCEPT !.asked = 0, !.due = FALSE])
        /\ Unbound([d EXCEPT !.asked = 0, !.due = FALSE])
    <2>1. d \in CaptureRecords /\ CaptureSound(d) /\ Unbound(d)
      BY <1>2
    <2> HIDE DEF d
    <2> QED
      BY <2>1 DEF CaptureRecords, CaptureSound, Unbound, BeingSaved
  <1> QED
    BY <1>1, <1>2, <1>3 DEF Unlinked

\* What the effect of the mode does.
LEMMA ModeEffectDoes ==
  ASSUME BoardTypeOK, CaptureInv, ModeEffect
  PROVE  /\ Mode \in Modes /\ boardFw' = boardFw
         /\ \/ /\ lb.live /\ PageVisible
               /\ \E l \in Links : /\ links[l].pc = "none"
                                   /\ links' = [Cleaned EXCEPT ![l].pc = "status"]
               /\ ~lb'.interval
            \/ /\ ~(lb.live /\ PageVisible)
               /\ links' = Cleaned
               /\ lb'.interval => lb.auto /\ PageVisible
         /\ lb' \in PageRecords
         /\ lb'.mode = Mode
         /\ lb'.hidden = lb.hidden
         /\ IF \E l \in Links : CurrentLink(l)
            THEN lb'.ws = 0 /\ lb'.preview = 0 /\ lb'.capture = Unlinked(lb.capture)
            ELSE lb'.ws = lb.ws /\ lb'.preview = lb.preview
                   /\ lb'.capture = lb.capture
         /\ polls' \in [Refreshes -> PollRecords]
  <1> DEFINE left == \E l \in Links : CurrentLink(l)
             page == [lb EXCEPT !.mode = Mode, !.interval = FALSE,
                         !.ws = IF left THEN 0 ELSE @,
                         !.preview = IF left THEN 0 ELSE @,
                         !.capture = IF left THEN Unlinked(@) ELSE @]
             Begins(p, q) == polls' = [polls EXCEPT ![q] = [NoPoll EXCEPT !.pc = "status"]]
                               /\ lb' = p
  <1>1. Mode \in Modes /\ lb.auto \in BOOLEAN /\ lb.live \in BOOLEAN
    BY DEF BoardTypeOK, PageRecords, Mode, Modes, PageVisible
  <1>2. /\ page \in PageRecords
        /\ page.mode = Mode /\ page.hidden = lb.hidden /\ ~page.interval
        /\ page.ws = IF left THEN 0 ELSE lb.ws
        /\ page.preview = IF left THEN 0 ELSE lb.preview
        /\ page.capture = IF left THEN Unlinked(lb.capture) ELSE lb.capture
    <2>1. lb \in PageRecords /\ Unlinked(lb.capture) \in CaptureRecords
      BY CaptureEnds DEF BoardTypeOK, PageRecords, CaptureInv
    <2> QED
      BY <1>1, <2>1, ZenonT(30) DEF PageRecords
  <1>3. /\ boardFw' = boardFw
        /\ \/ /\ lb.live /\ PageVisible
              /\ \E l \in Links : /\ links[l].pc = "none"
                                  /\ links' = [Cleaned EXCEPT ![l].pc = "status"]
              /\ lb' = page /\ UNCHANGED polls
           \/ /\ ~PageVisible
              /\ lb' = [page EXCEPT !.loading = FALSE] /\ links' = Cleaned
              /\ UNCHANGED polls
           \/ /\ ~(lb.live /\ PageVisible) /\ PageVisible
              /\ \E p \in Refreshes :
                   Begins([page EXCEPT !.loading = TRUE, !.interval = lb.auto], p)
              /\ links' = Cleaned
    BY DEF ModeEffect, RefreshBegins, Cleaned
  <1> HIDE DEF page, left
  <1>4. CASE /\ lb.live /\ PageVisible
             /\ \E l \in Links : /\ links[l].pc = "none"
                                 /\ links' = [Cleaned EXCEPT ![l].pc = "status"]
             /\ lb' = page /\ UNCHANGED polls
    BY <1>1, <1>2, <1>3, <1>4 DEF BoardTypeOK, left
  <1>5. CASE /\ ~PageVisible
             /\ lb' = [page EXCEPT !.loading = FALSE] /\ links' = Cleaned
             /\ UNCHANGED polls
    BY <1>1, <1>2, <1>3, <1>5 DEF BoardTypeOK, PageRecords, left
  <1>6. CASE /\ lb' = [page EXCEPT !.loading = TRUE, !.interval = lb.auto]
             /\ ~(lb.live /\ PageVisible) /\ PageVisible
             /\ \E p \in Refreshes :
                   polls' = [polls EXCEPT ![p] = [NoPoll EXCEPT !.pc = "status"]]
             /\ links' = Cleaned /\ boardFw' = boardFw
    <2>1. [NoPoll EXCEPT !.pc = "status"] \in PollRecords
      BY DEF NoPoll, PollRecords
    <2>2. polls' \in [Refreshes -> PollRecords]
      BY <2>1, <1>6 DEF BoardTypeOK
    <2>3. /\ lb' \in PageRecords
          /\ lb'.mode = page.mode /\ lb'.hidden = page.hidden
          /\ lb'.ws = page.ws /\ lb'.preview = page.preview
          /\ lb'.capture = page.capture /\ lb'.interval = lb.auto
      BY <1>1, <1>2, <1>6 DEF PageRecords
    <2> QED
      BY <1>1, <1>2, <1>6, <2>2, <2>3 DEF left
  <1> QED
    BY <1>3, <1>4, <1>5, <1>6

-----------------------------------------------------------------------------
(* The invariant, part by part.                                            *)

\* A link with another value keeps the links typed.
LEMMA OneLinkTyped ==
  ASSUME BoardTypeOK, NEW l \in Links, NEW link \in LinkRecords,
         links' = [links EXCEPT ![l] = link]
  PROVE  links' \in [Links -> LinkRecords]
  BY DEF BoardTypeOK

\* A capture that waits is armed when the socket opens.
LEMMA OpensDoes ==
  ASSUME lb \in PageRecords, NEW l \in Links, LinkOpens(l)
  PROVE  \E n \in Nat : /\ lb' = [lb EXCEPT !.capture = [lb.capture EXCEPT !.asked = n]]
                        /\ [lb.capture EXCEPT !.asked = n] \in CaptureRecords
                        /\ lb' \in PageRecords
  <1> DEFINE n == IF lb.capture.pending THEN 1 ELSE 0
             c == [lb.capture EXCEPT !.asked = n]
  <1>1. lb' = [lb EXCEPT !.capture = c]
    BY DEF LinkOpens
  <1>2. n \in Nat
    OBVIOUS
  <1> HIDE DEF n
  <1>3. c \in CaptureRecords
    BY <1>2 DEF PageRecords, CaptureRecords
  <1>4. lb' \in PageRecords
    BY <1>1, <1>3 DEF PageRecords
  <1> QED
    BY <1>1, <1>2, <1>3, <1>4

\* The view of the page that ModeInv has.
PageView(page) == <<page.mode, page.ws, page.preview, page.hidden, page.interval>>

\* What a step of the capture makes of the page.
WithCapture(page, next, c, b) ==
  \/ next = [page EXCEPT !.capture = c]
  \/ next = [page EXCEPT !.capture = c, !.live = b]
  \/ next = Counted([page EXCEPT !.capture = c])
  \/ next = Counted([page EXCEPT !.capture = c, !.connected = b])

\* A page with another capture.
LEMMA CaptureAssigned ==
  ASSUME NEW page \in PageRecords, NEW c \in CaptureRecords, NEW b \in BOOLEAN, NEW next,
         WithCapture(page, next, c, b)
  PROVE  /\ next \in PageRecords /\ next.capture = c /\ next.ws = page.ws
         /\ PageView(next) = PageView(page)
  <1>1. ASSUME NEW q \in PageRecords, q.capture = c, PageView(q) = PageView(page),
               q.ws = page.ws
        PROVE  /\ Counted(q) \in PageRecords /\ Counted(q).capture = c
               /\ Counted(q).ws = page.ws /\ PageView(Counted(q)) = PageView(page)
    <2>1. /\ Counted(q).capture = q.capture /\ Counted(q).mode = q.mode
          /\ Counted(q).ws = q.ws /\ Counted(q).preview = q.preview
          /\ Counted(q).hidden = q.hidden /\ Counted(q).interval = q.interval
      BY DEF PageRecords, Counted
    <2> QED
      BY <1>1, <2>1, PageTyped DEF PageView
  <1>2. ASSUME NEW q, \/ q = [page EXCEPT !.capture = c]
                      \/ q = [page EXCEPT !.capture = c, !.live = b]
                      \/ q = [page EXCEPT !.capture = c, !.connected = b]
        PROVE  /\ q \in PageRecords /\ q.capture = c /\ q.ws = page.ws
               /\ PageView(q) = PageView(page)
    <2>1. CASE q = [page EXCEPT !.capture = c]
      BY <2>1 DEF PageRecords, PageView
    <2>2. CASE q = [page EXCEPT !.capture = c, !.live = b]
      BY <2>2 DEF PageRecords, PageView
    <2>3. CASE q = [page EXCEPT !.capture = c, !.connected = b]
      BY <2>3 DEF PageRecords, PageView
    <2> QED
      BY <1>2, <2>1, <2>2, <2>3
  <1> QED
    BY <1>1, <1>2 DEF WithCapture

CaptureSteps ==
  \/ CaptureClicked \/ NoRoom \/ CaptureArmed \/ ArmAnswered \/ CaptureTriggered
  \/ CaptureStops \/ StopAcknowledged \/ CaptureSaved \/ CaptureCancelled \/ CaptureFails

\* A step of the capture leaves the modes and their links alone.
LEMMA CaptureStepDoes ==
  ASSUME BoardTypeOK, CaptureInv, CaptureSteps
  PROVE  /\ UNCHANGED <<links, polls, boardFw>>
         /\ lb' \in PageRecords /\ PageView(lb') = PageView(lb)
         /\ CaptureInv'
  <1> DEFINE c == lb.capture
  <1>0. /\ lb \in PageRecords /\ c \in CaptureRecords
        /\ CaptureSound(c) /\ (SocketOpen \/ Unbound(c))
        /\ lb.live \in BOOLEAN /\ SocketOpen \in BOOLEAN
    BY DEF BoardTypeOK, PageRecords, CaptureInv, SocketOpen
  <1>1. UNCHANGED <<links, polls, boardFw>>
    BY DEF CaptureSteps, CaptureBecomes, CaptureClicked, NoRoom, CaptureArmed, ArmAnswered,
       CaptureTriggered, CaptureStops, StopAcknowledged, CaptureSaved, CaptureCancelled,
       CaptureFails
  <1>2. ASSUME NEW d \in CaptureRecords, NEW b \in BOOLEAN,
               CaptureSound(d), SocketOpen \/ Unbound(d),
               WithCapture(lb, lb', d, b)
        PROVE  lb' \in PageRecords /\ PageView(lb') = PageView(lb) /\ CaptureInv'
    <2>1. /\ lb' \in PageRecords /\ lb'.capture = d /\ lb'.ws = lb.ws
          /\ PageView(lb') = PageView(lb)
      <3>1. lb \in PageRecords
        BY <1>0
      <3> QED
        BY <1>2, <3>1, CaptureAssigned, Zenon
    <2>2. SocketOpen' <=> SocketOpen
      <3>1. links' = links /\ lb'.ws = lb.ws
        BY <1>1, <2>1
      <3> QED
        BY <3>1, Zenon DEF SocketOpen
    <2> QED
      BY <1>2, <2>1, <2>2 DEF CaptureInv
  <1>3. CASE CaptureClicked
    <2> DEFINE d == [c EXCEPT !.room = TRUE]
    <2>1. d \in CaptureRecords /\ CaptureSound(d) /\ (SocketOpen \/ Unbound(d))
      BY <1>0 DEF CaptureRecords, CaptureSound, Unbound, BeingSaved
    <2>2. lb' = Counted([lb EXCEPT !.capture = d])
      BY <1>3 DEF CaptureClicked
    <2> QED
      BY <1>1, <1>2, <2>1, <2>2 DEF WithCapture
  <1>4. CASE NoRoom
    <2> DEFINE d == [c EXCEPT !.room = FALSE]
    <2>1. d \in CaptureRecords /\ CaptureSound(d) /\ (SocketOpen \/ Unbound(d))
      BY <1>0 DEF CaptureRecords, CaptureSound, Unbound, BeingSaved
    <2>2. lb' = [lb EXCEPT !.capture = d]
      BY <1>4 DEF NoRoom, CaptureBecomes
    <2> QED
      BY <1>1, <1>2, <2>1, <2>2 DEF WithCapture
  <1>5. CASE CaptureArmed
    <2> DEFINE sent == IF SocketOpen THEN c.asked + 1 ELSE c.asked
               d == [c EXCEPT !.room = FALSE, !.pending = TRUE, !.session = "armed",
                              !.state = "connecting", !.asked = sent]
               on == lb.live \/ ~SocketOpen
    <2>1. sent \in Nat /\ on \in BOOLEAN
      BY <1>0 DEF CaptureRecords
    <2>2. lb' = [lb EXCEPT !.capture = d, !.live = on]
      BY <1>5 DEF CaptureArmed
    <2> HIDE DEF sent, on
    <2>3. d \in CaptureRecords /\ CaptureSound(d) /\ Unbound(d)
      BY <1>0, <2>1 DEF CaptureRecords, CaptureSessions, CaptureSound, Unbound, BeingSaved
    <2> QED
      BY <1>1, <1>2, <2>1, <2>2, <2>3 DEF WithCapture
  <1>6. CASE ArmAnswered
    <2> DEFINE a == [c EXCEPT !.asked = c.asked - 1]
               d == [a EXCEPT !.state = "on", !.pending = FALSE, !.due = TRUE]
    <2>1. SocketOpen /\ c.asked > 0
          /\ (lb' = [lb EXCEPT !.capture = d] \/ lb' = [lb EXCEPT !.capture = ResetCapture(a)])
      BY <1>6 DEF ArmAnswered, CaptureBecomes
    <2>2. a \in CaptureRecords /\ CaptureSound(a)
      BY <1>0, <2>1 DEF CaptureRecords, CaptureSound, BeingSaved
    <2>3. ResetCapture(a) \in CaptureRecords /\ CaptureSound(ResetCapture(a))
      BY <2>2, CaptureEnds
    <2>4. d \in CaptureRecords /\ CaptureSound(d)
      BY <2>2 DEF CaptureRecords, CaptureSound, BeingSaved
    <2> QED
      BY <1>1, <1>2, <2>1, <2>3, <2>4 DEF WithCapture
  <1>7. CASE CaptureTriggered
    <2> DEFINE session == IF c.session = "armed" THEN "triggered" ELSE c.session
               d == [c EXCEPT !.state = "on", !.due = FALSE, !.session = session]
    <2>1. SocketOpen /\ lb' = [lb EXCEPT !.capture = d]
      BY <1>0, <1>7 DEF CaptureTriggered, CaptureBecomes, CaptureRecords
    <2>2. d \in CaptureRecords /\ CaptureSound(d)
      BY <1>0 DEF CaptureRecords, CaptureSessions, CaptureSound, BeingSaved
    <2> QED
      BY <1>1, <1>2, <2>1, <2>2 DEF WithCapture
  <1>8. CASE CaptureStops
    <2> DEFINE session == IF SocketOpen THEN "stopping" ELSE "closing"
               n == c.saving + 1
               d == [c EXCEPT !.state = "saving", !.session = session, !.saving = n]
    <2>1. lb' = [lb EXCEPT !.capture = d]
      BY <1>8 DEF CaptureStops, CaptureBecomes, Finalized
    <2>2. session \in {"stopping", "closing"} /\ n \in Nat /\ n > 0
      BY <1>0 DEF CaptureRecords
    <2> HIDE DEF session, n
    <2>3. d \in CaptureRecords /\ CaptureSound(d) /\ Unbound(d)
      BY <1>0, <2>2 DEF CaptureRecords, CaptureSessions, CaptureSound, Unbound, BeingSaved
    <2> QED
      BY <1>1, <1>2, <2>1, <2>3 DEF WithCapture
  <1>9. CASE StopAcknowledged
    <2> DEFINE d == [c EXCEPT !.state = "saving", !.session = "closing"]
    <2>1. lb' = [lb EXCEPT !.capture = d] /\ BeingSaved(c)
      BY <1>9 DEF StopAcknowledged, CaptureBecomes, BeingSaved
    <2>2. d \in CaptureRecords /\ CaptureSound(d) /\ Unbound(d)
      BY <1>0, <2>1 DEF CaptureRecords, CaptureSessions, CaptureSound, Unbound, BeingSaved
    <2> QED
      BY <1>1, <1>2, <2>1, <2>2 DEF WithCapture
  <1>10. CASE CaptureSaved
    <2> DEFINE n == c.saving - 1
               a == [c EXCEPT !.state = "idle", !.saving = n]
               d == [a EXCEPT !.session = "none"]
    <2>1. \/ BeingSaved(c) /\ lb' = [lb EXCEPT !.capture = d]
          \/ /\ c.saving > IF BeingSaved(c) THEN 1 ELSE 0
             /\ lb' = [lb EXCEPT !.capture = a]
      BY <1>10 DEF CaptureSaved, CaptureBecomes
    <2>2. CASE BeingSaved(c) /\ lb' = [lb EXCEPT !.capture = d]
      <3>1. n \in Nat
        BY <1>0, <2>2 DEF CaptureRecords, CaptureSound
      <3> HIDE DEF n
      <3>2. a \in CaptureRecords /\ a.state = "idle"
        BY <1>0, <3>1 DEF CaptureRecords
      <3> HIDE DEF a
      <3>3. d \in CaptureRecords /\ CaptureSound(d) /\ Unbound(d)
        BY <3>2 DEF CaptureRecords, CaptureSessions, CaptureSound, Unbound, BeingSaved
      <3> QED
        BY <1>1, <1>2, <2>2, <3>3 DEF WithCapture
    <2>3. CASE /\ c.saving > IF BeingSaved(c) THEN 1 ELSE 0
               /\ lb' = [lb EXCEPT !.capture = a]
      <3>1. n \in Nat /\ (BeingSaved(c) => n > 0)
        BY <1>0, <2>3 DEF CaptureRecords
      <3> HIDE DEF n
      <3>2. /\ a \in CaptureRecords /\ a.state = "idle" /\ a.saving = n
            /\ a.session = c.session
        BY <1>0, <3>1 DEF CaptureRecords
      <3> HIDE DEF a
      <3>3. CaptureSound(a)
        BY <3>1, <3>2 DEF CaptureSound, BeingSaved
      <3>4. SocketOpen \/ Unbound(a)
        BY <1>0, <3>2 DEF Unbound
      <3> QED
        BY <1>1, <1>2, <2>3, <3>2, <3>3, <3>4 DEF WithCapture
    <2> QED
      BY <2>1, <2>2, <2>3
  <1>11. CASE CaptureCancelled \/ CaptureFails
    <2>1. \/ lb' = Counted([lb EXCEPT !.capture = ResetCapture(c)])
          \/ lb' = Counted([lb EXCEPT !.capture = Interrupted(c), !.connected = FALSE])
      BY <1>11 DEF CaptureCancelled, CaptureFails
    <2> QED
      BY <1>0, <1>1, <1>2, <2>1, CaptureEnds DEF WithCapture
  <1> QED
    BY <1>3, <1>4, <1>5, <1>6, <1>7, <1>8, <1>9, <1>10, <1>11 DEF CaptureSteps

LEMMA TypeStep ==
  ASSUME BoardTypeOK, CaptureInv, [LiveBoardNext]_liveBoardVars
  PROVE  BoardTypeOK'
  <1>0. /\ lb \in PageRecords
        /\ links \in [Links -> LinkRecords] /\ \A l \in Links : links[l] \in LinkRecords
        /\ polls \in [Refreshes -> PollRecords]
        /\ boardFw \in [ver : Nat, sessions : SUBSET Links, lost : SUBSET Links]
        /\ \A l \in Links : links[l].ver \in Nat
        /\ boardFw.ver \in Nat
        /\ lb.mode \in {<<>>} \cup Modes /\ lb.live \in BOOLEAN
        /\ lb.hidden \in BOOLEAN
    BY DEF BoardTypeOK, LinkRecords, PageRecords
  <1>1. CASE ModeEffect
    <2>1. Cleaned \in [Links -> LinkRecords]
      BY <1>0, CleanedTyped
    <2>2. \A l \in Links : [Cleaned EXCEPT ![l].pc = "status"] \in [Links -> LinkRecords]
      BY <2>1 DEF LinkRecords, LinkPcs
    <2>3. links' \in [Links -> LinkRecords]
      BY <1>1, <2>1, <2>2, ModeEffectDoes
    <2> QED
      BY <1>0, <1>1, <2>3, ModeEffectDoes DEF BoardTypeOK
  <1>2. ASSUME NEW page \in PageRecords, NEW slots \in SUBSET Refreshes,
               RefreshBegins(page, slots), UNCHANGED <<links, boardFw>>
        PROVE  BoardTypeOK'
    BY <1>0, <1>2 DEF BoardTypeOK, RefreshBegins, NoPoll, PollRecords
  <1>3. CASE IntervalFires
    <2>1. Refreshes \ {MaxPolls} \in SUBSET Refreshes
      OBVIOUS
    <2> QED
      BY <1>0, <1>2, <1>3, <2>1 DEF IntervalFires
  <1>4. ASSUME NEW p \in Refreshes, PollRead(p) \/ PollAnswered(p) \/ PollFails(p)
        PROVE  BoardTypeOK'
    <2>1. polls' \in [Refreshes -> PollRecords]
      BY <1>0, <1>4, SMTT(30) DEF PollRead, PollAnswered, PollFails, NoPoll, PollRecords
    <2>2. polls[p].ver \in Nat
      BY <1>0 DEF PollRecords
    <2>3. lb' \in PageRecords
      <3>1. CASE PollRead(p)
        BY <1>0, <3>1 DEF PollRead
      <3>2. CASE PollAnswered(p)
        BY <1>0, <3>2, <2>2, PageTyped DEF PollAnswered
      <3>3. CASE PollFails(p)
        BY <1>0, <3>3, PageTyped DEF PollFails
      <3> QED
        BY <1>4, <3>1, <3>2, <3>3
    <2> QED
      BY <1>0, <1>4, <2>1, <2>3 DEF PollRead, PollAnswered, PollFails, BoardTypeOK
  <1>5. CASE FramePublishes \/ LiveClicked \/ AutoClicked \/ VisibilityTurns
             \/ CommandClicked
             \/ \E l \in Links : TelemetryArrives(l)
    <2>1. lb' \in PageRecords
      <3>1. CASE FramePublishes
        BY <1>0, <3>1, PageTyped DEF FramePublishes
      <3>3. CASE CommandClicked
        <4>1. (IF lb.live THEN "live" ELSE "polled") \in {"none", "live", "polled"}
          OBVIOUS
        <4>2. [lb EXCEPT !.command = IF lb.live THEN "live" ELSE "polled"] \in PageRecords
          BY <1>0, <4>1, PageTyped
        <4> QED
          BY <3>3, <4>2, PageTyped DEF CommandClicked
      <3>4. CASE VisibilityTurns
        <4> DEFINE hides == ~lb.hidden
                   seen == IF lb.hidden THEN lb.preview ELSE 0
        <4>1. hides \in BOOLEAN /\ seen \in {0} \cup Links
          BY <1>0 DEF PageRecords
        <4>2. lb' = Counted([lb EXCEPT !.hidden = hides, !.preview = seen])
          BY <3>4 DEF VisibilityTurns
        <4> HIDE DEF seen, hides
        <4>3. [lb EXCEPT !.hidden = hides, !.preview = seen] \in PageRecords
          BY <1>0, <4>1 DEF PageRecords
        <4> QED
          BY <4>2, <4>3, PageTyped
      <3>5. CASE LiveClicked \/ AutoClicked
        <4>1. lb.mode \in Modes
          BY <1>0, <3>5 DEF LiveClicked, AutoClicked
        <4>2. (~lb.mode[1]) \in BOOLEAN /\ (~lb.mode[3]) \in BOOLEAN
          OBVIOUS
        <4>3. /\ [lb EXCEPT !.live = ~lb.mode[1]] \in PageRecords
              /\ [lb EXCEPT !.auto = ~lb.mode[3]] \in PageRecords
          BY <1>0, <4>2, PageTyped
        <4> QED
          BY <3>5, <4>3, PageTyped DEF LiveClicked, AutoClicked
      <3>6. CASE \E l \in Links : TelemetryArrives(l)
        <4>1. PICK l \in Links : lb' = [lb EXCEPT !.preview = l]
          BY <3>6 DEF TelemetryArrives
        <4>2. [lb EXCEPT !.preview = l] \in PageRecords
          BY <1>0, PageTyped
        <4> QED
          BY <4>1, <4>2
      <3> QED
        BY <1>5, <3>1, <3>3, <3>4, <3>5, <3>6
    <2>2. UNCHANGED <<links, polls, boardFw>>
      BY <1>5 DEF FramePublishes, LiveClicked, AutoClicked, VisibilityTurns,
         CommandClicked, TelemetryArrives
    <2> QED
      BY <1>0, <2>1, <2>2 DEF BoardTypeOK
  <1>6. CASE RefreshButton
    <2>1. Counted(lb) \in PageRecords
      BY <1>0, PageTyped
    <2> QED
      BY <1>2, <1>6, <2>1 DEF RefreshButton
  <1>7. CASE CommandAnswered
    <2>1. boardFw' \in [ver : Nat, sessions : SUBSET Links, lost : SUBSET Links]
      BY <1>0, <1>7 DEF CommandAnswered
    <2>2. \A l \in Links : [links[l] EXCEPT !.posted = TRUE] \in LinkRecords
      BY <1>0, LinkTyped
    <2>3. links' \in [Links -> LinkRecords]
      BY <1>0, <1>7, <2>2 DEF CommandAnswered, StatePosted
    <2>4. [lb EXCEPT !.command = "none"] \in PageRecords
      BY <1>0, PageTyped
    <2>5. [NoPoll EXCEPT !.pc = "status"] \in PollRecords
      BY DEF NoPoll, PollRecords
    <2>6. lb' \in PageRecords /\ polls' \in [Refreshes -> PollRecords]
      BY <1>0, <1>7, <2>4, <2>5 DEF CommandAnswered, RefreshBegins
    <2> QED
      BY <2>1, <2>3, <2>6 DEF BoardTypeOK
  <1>8. ASSUME NEW l \in Links,
               \/ SeedRead(l) \/ Seeded(l) \/ SeedFails(l) \/ LinkOpens(l)
               \/ SnapshotPushed(l) \/ SnapshotArrives(l)
        PROVE  BoardTypeOK'
    <2>1. links' \in [Links -> LinkRecords]
      <3>1. \A pc \in LinkPcs, n \in Nat, b \in BOOLEAN :
              /\ [links[l] EXCEPT !.pc = pc] \in LinkRecords
              /\ [links[l] EXCEPT !.pc = pc, !.ver = n] \in LinkRecords
              /\ [links[l] EXCEPT !.pc = pc, !.posted = b] \in LinkRecords
              /\ [links[l] EXCEPT !.posted = b, !.ver = n] \in LinkRecords
              /\ [links[l] EXCEPT !.ver = n] \in LinkRecords
        BY <1>0, ZenonT(30) DEF LinkRecords
      <3>0. [links[l] EXCEPT !.ver = 0] \in LinkRecords
            /\ [links[l] EXCEPT !.posted = FALSE, !.ver = boardFw.ver] \in LinkRecords
        BY <1>0, <3>1 DEF LinkPcs
      <3>2. \E link \in LinkRecords : links' = [links EXCEPT ![l] = link]
        <4>1. CASE SeedRead(l)
          <5>1. links' = [links EXCEPT ![l] = [links[l] EXCEPT !.pc = "adc",
                                                               !.ver = boardFw.ver]]
            BY <1>0, <4>1 DEF SeedRead
          <5> QED
            BY <1>0, <3>1, <5>1 DEF LinkPcs
        <4>2. CASE Seeded(l)
          <5>1. \/ links' = [links EXCEPT ![l] = [links[l] EXCEPT !.pc = "over"]]
                \/ links' = [links EXCEPT ![l] = [links[l] EXCEPT !.pc = "session",
                                                                  !.ver = 0]]
            BY <1>0, <4>2 DEF Seeded
          <5> QED
            BY <3>1, <5>1 DEF LinkPcs
        <4>3. CASE SeedFails(l)
          <5>1. links' = [links EXCEPT ![l] = [links[l] EXCEPT !.pc = "over"]]
            BY <1>0, <4>3 DEF SeedFails
          <5> QED
            BY <3>1, <5>1 DEF LinkPcs
        <4>4. CASE LinkOpens(l)
          <5>1. links' = [links EXCEPT ![l] = [links[l] EXCEPT !.pc = "open",
                                                               !.posted = TRUE]]
            BY <1>0, <4>4 DEF LinkOpens
          <5> QED
            BY <3>1, <5>1 DEF LinkPcs
        <4>5. CASE SnapshotPushed(l)
          <5>1. links' = [links EXCEPT ![l] = [links[l] EXCEPT !.posted = FALSE,
                                                               !.ver = boardFw.ver]]
            BY <1>0, <4>5 DEF SnapshotPushed
          <5> QED
            BY <3>0, <5>1
        <4>6. CASE SnapshotArrives(l)
          <5>1. links' = [links EXCEPT ![l] = [links[l] EXCEPT !.ver = 0]]
            BY <1>0, <4>6 DEF SnapshotArrives
          <5> QED
            BY <3>0, <5>1
        <4> QED
          BY <1>8, <4>1, <4>2, <4>3, <4>4, <4>5, <4>6
      <3> QED
        BY <3>2, OneLinkTyped
    <2>2. lb' \in PageRecords
      <3>1. CASE SeedRead(l) \/ SnapshotPushed(l)
        BY <1>0, <3>1 DEF SeedRead, SnapshotPushed
      <3>4. CASE LinkOpens(l)
        BY <1>0, <3>4, OpensDoes
      <3>2. CASE Seeded(l) \/ SnapshotArrives(l)
        <4>1. links[l].ver \in Nat
          BY <1>0
        <4>2. \/ lb' = lb \/ lb' = Shows(lb, links[l].ver)
              \/ lb' = [lb EXCEPT !.shown = links[l].ver, !.late = FALSE]
          BY <3>2 DEF Seeded, SnapshotArrives
        <4>3. /\ Shows(lb, links[l].ver) \in PageRecords
              /\ [lb EXCEPT !.shown = links[l].ver, !.late = FALSE] \in PageRecords
          BY <1>0, <4>1, PageTyped
        <4> QED
          BY <1>0, <4>2, <4>3
      <3>3. CASE SeedFails(l)
        <4>1. [lb EXCEPT !.live = FALSE, !.connected = FALSE] \in PageRecords
          BY <1>0 DEF PageRecords
        <4> QED
          BY <3>3, <4>1, PageTyped DEF SeedFails
      <3> QED
        BY <1>8, <3>1, <3>2, <3>3, <3>4
    <2> QED
      BY <1>0, <1>8, <2>1, <2>2
      DEF SeedRead, Seeded, SeedFails, LinkOpens, SnapshotPushed, SnapshotArrives,
          BoardTypeOK
  <1>9. ASSUME NEW l \in Links,
               LiveSessionMade(l) \/ SessionFails(l) \/ LinkCloses(l) \/ SessionEnds(l)
        PROVE  BoardTypeOK'
    <2>1. links' \in [Links -> LinkRecords]
      <3> DEFINE made == [links[l] EXCEPT !.session = TRUE]
      <3>1. made \in LinkRecords /\ Released(links[l]) \in LinkRecords
        BY <1>0, LinkTyped
      <3>2. Released(made) \in LinkRecords
        BY <3>1, LinkTyped
      <3>3. /\ [Released(made) EXCEPT !.pc = "over"] \in LinkRecords
            /\ [made EXCEPT !.pc = "connecting"] \in LinkRecords
            /\ [Released(links[l]) EXCEPT !.pc = "over"] \in LinkRecords
            /\ [links[l] EXCEPT !.pc = "over"] \in LinkRecords
            /\ [links[l] EXCEPT !.deleting = FALSE] \in LinkRecords
        BY <1>0, <3>1, <3>2, LinkTyped DEF LinkPcs
      <3>4. \E link \in LinkRecords : links' = [links EXCEPT ![l] = link]
        <4>1. CASE LiveSessionMade(l)
          BY <3>3, <4>1 DEF LiveSessionMade
        <4>2. CASE SessionFails(l)
          BY <1>0, <3>3, <4>2 DEF SessionFails
        <4>3. CASE LinkCloses(l)
          BY <3>3, <4>3 DEF LinkCloses
        <4>4. CASE SessionEnds(l)
          BY <1>0, <3>3, <4>4 DEF SessionEnds
        <4> QED
          BY <1>9, <4>1, <4>2, <4>3, <4>4
      <3> QED
        BY <3>4, OneLinkTyped
    <2>2. lb' \in PageRecords
      <3>1. CASE LiveSessionMade(l)
        BY <1>0, <3>1, PageTyped DEF LiveSessionMade
      <3>2. CASE SessionFails(l)
        BY <1>0, <3>2, PageTyped DEF SessionFails
      <3>3. CASE LinkCloses(l)
        <4> DEFINE ws == IF lb.ws = l THEN 0 ELSE lb.ws
                   c == Unlinked(lb.capture)
        <4>1. ws \in {0} \cup Links /\ c \in CaptureRecords
          BY <1>0, CaptureEnds DEF PageRecords, CaptureInv
        <4>2. \/ lb' = lb
              \/ lb' = Counted([lb EXCEPT !.live = FALSE, !.connected = FALSE,
                                          !.preview = 0, !.capture = c, !.ws = ws])
          BY <3>3 DEF LinkCloses
        <4> HIDE DEF ws, c
        <4>3. [lb EXCEPT !.live = FALSE, !.connected = FALSE, !.preview = 0,
                         !.capture = c, !.ws = ws] \in PageRecords
          BY <1>0, <4>1 DEF PageRecords
        <4> QED
          BY <1>0, <4>2, <4>3, PageTyped
      <3>4. CASE SessionEnds(l)
        BY <1>0, <3>4, PageTyped DEF SessionEnds
      <3> QED
        BY <1>9, <3>1, <3>2, <3>3, <3>4
    <2>3. polls' = polls /\ boardFw'.ver = boardFw.ver
          /\ boardFw' \in {boardFw, [boardFw EXCEPT !.sessions = @ \cup {l}],
                            [boardFw EXCEPT !.sessions = @ \cup {l}, !.lost = @ \cup {l}],
                            [boardFw EXCEPT !.sessions = @ \ {l}],
                            [boardFw EXCEPT !.lost = @ \cup {l}]}
      BY <1>0, <1>9 DEF LiveSessionMade, SessionFails, LinkCloses, SessionEnds
    <2>4. boardFw' \in [ver : Nat, sessions : SUBSET Links, lost : SUBSET Links]
      BY <1>0, <2>3, ZenonT(30)
    <2> QED
      BY <1>0, <2>1, <2>2, <2>3, <2>4 DEF BoardTypeOK
  <1>10. CASE UNCHANGED liveBoardVars
    BY <1>0, <1>10 DEF liveBoardVars, BoardTypeOK
  <1>11. CASE CaptureSteps
    BY <1>0, <1>11, CaptureStepDoes DEF BoardTypeOK
  <1> QED
    BY <1>1, <1>3, <1>4, <1>5, <1>6, <1>7, <1>8, <1>9, <1>10, <1>11
    DEF LiveBoardNext, BoardGoesOn, BoardPolls, LinksGoOn, CaptureGoesOn, CaptureSteps

\* Every step leaves each link in a state of its own life.
LEMMA LinkStep ==
  ASSUME BoardTypeOK, \A l \in Links : LinkInv(links[l]),
         CaptureInv, [LiveBoardNext]_liveBoardVars, NEW k \in Links
  PROVE  LinkInv(links'[k])
  <1>0. links \in [Links -> LinkRecords] /\ links[k] \in LinkRecords
        /\ LinkInv(links[k])
    BY DEF BoardTypeOK
  <1>1. CASE UNCHANGED links
    BY <1>0, <1>1
  <1>2. CASE ModeEffect
    <2>1. LinkInv(Cleaned[k])
      <3>1. ASSUME CurrentLink(k) PROVE LinkInv(CleanedUp(links[k]))
        <4>1. CASE links[k].pc \in Linked
          <5>1. CleanedUp(links[k]) = [links[k] EXCEPT !.cancelled = TRUE, !.pc = "closing"]
            BY <4>1 DEF CleanedUp, Linked
          <5> QED
            BY <1>0, <4>1, <5>1 DEF LinkInv, Linked, LinkRecords
        <4>2. CASE links[k].pc \notin Linked
          <5>1. CleanedUp(links[k]) = [Released(links[k]) EXCEPT !.cancelled = TRUE]
            BY <4>2 DEF CleanedUp, Linked
          <5>2. links[k].pc # "closing"
            BY <1>0, <3>1 DEF LinkInv, CurrentLink
          <5> QED
            BY <1>0, <4>2, <5>1, <5>2 DEF Released, LinkInv, Linked, LinkRecords
        <4> QED
          BY <4>1, <4>2
      <3> QED
        BY <1>0, <3>1 DEF Cleaned
    <2>2. Cleaned \in [Links -> LinkRecords]
      BY <1>0, CleanedTyped
    <2>3. ASSUME NEW l \in Links, links[l].pc = "none",
                 links' = [Cleaned EXCEPT ![l].pc = "status"]
          PROVE  LinkInv(links'[k])
      <3>1. CASE k # l
        BY <2>1, <2>2, <2>3, <3>1
      <3>2. CASE k = l
        <4>1. Cleaned[k] = links[k]
          BY <2>3, <3>2 DEF Cleaned, CurrentLink
        <4>2. links'[k] = [links[k] EXCEPT !.pc = "status"]
          BY <2>2, <2>3, <3>2, <4>1
        <4> QED
          BY <1>0, <2>3, <3>2, <4>2 DEF LinkInv, Linked, LinkRecords
      <3> QED
        BY <3>1, <3>2
    <2> QED
      BY <1>2, <2>1, <2>3, ModeEffectDoes
  <1>3. ASSUME NEW l \in Links, NEW link,
               links' = [links EXCEPT ![l] = link],
               l = k => LinkInv(link)
        PROVE  LinkInv(links'[k])
    BY <1>0, <1>3
  <1>4. CASE CommandAnswered
    BY <1>0, <1>4 DEF CommandAnswered, StatePosted, LinkInv, LinkRecords
  <1>5. ASSUME NEW l \in Links,
               SeedRead(l) \/ Seeded(l) \/ SeedFails(l) \/ SessionFails(l)
        PROVE  LinkInv(links'[k])
    <2>1. links'[k] = links[k]
          \/ /\ links'[k].session = links[k].session
             /\ links'[k].released = links[k].released
             /\ links[k].pc \in {"status", "adc", "session"}
             /\ links'[k].pc \notin Linked \cup {"closing"}
      BY <1>0, <1>5 DEF SeedRead, Seeded, SeedFails, SessionFails, LinkRecords,
         Linked
    <2> QED
      BY <1>0, <2>1 DEF LinkInv, Linked
  <1>6. ASSUME NEW l \in Links,
               LinkOpens(l) \/ SnapshotPushed(l) \/ SnapshotArrives(l) \/ SessionEnds(l)
        PROVE  LinkInv(links'[k])
    <2>1. /\ links'[k].session = links[k].session
          /\ links'[k].released = links[k].released
          /\ links'[k].cancelled = links[k].cancelled
          /\ \/ links'[k].pc = links[k].pc
             \/ links[k].pc \in Linked /\ links'[k].pc \in Linked
      BY <1>0, <1>6 DEF LinkOpens, SnapshotPushed, SnapshotArrives, SessionEnds,
         LinkRecords, Linked
    <2> QED
      BY <1>0, <2>1 DEF LinkInv, Linked
  <1>7. ASSUME NEW l \in Links, LiveSessionMade(l)
        PROVE  LinkInv(links'[k])
    <2> DEFINE made == [links[l] EXCEPT !.session = TRUE]
    <2>1. CASE links[l].cancelled
      <3>1. links' = [links EXCEPT ![l] = [Released(made) EXCEPT !.pc = "over"]]
        BY <1>0, <1>7, <2>1 DEF LiveSessionMade, LinkRecords, BoardTypeOK
      <3>2. l = k => LinkInv([Released(made) EXCEPT !.pc = "over"])
        BY <1>0 DEF LinkInv, Released, LinkRecords, Linked
      <3> QED
        BY <1>3, <3>1, <3>2
    <2>2. CASE ~links[l].cancelled
      <3>1. links' = [links EXCEPT ![l] = [made EXCEPT !.pc = "connecting"]]
        BY <1>0, <1>7, <2>2 DEF LiveSessionMade, LinkRecords, BoardTypeOK
      <3>2. l = k => LinkInv([made EXCEPT !.pc = "connecting"])
        BY <1>0, <1>7, <2>2 DEF LinkInv, LinkRecords, Linked, LiveSessionMade
      <3> QED
        BY <1>3, <3>1, <3>2
    <2> QED
      BY <2>1, <2>2
  <1>8. ASSUME NEW l \in Links, LinkCloses(l)
        PROVE  LinkInv(links'[k])
    <2>1. links' = [links EXCEPT ![l] = [Released(links[l]) EXCEPT !.pc = "over"]]
      BY <1>8 DEF LinkCloses
    <2>2. l = k => LinkInv([Released(links[l]) EXCEPT !.pc = "over"])
      BY <1>0 DEF LinkInv, Released, LinkRecords, Linked
    <2> QED
      BY <1>3, <2>1, <2>2
  <1>9. CASE CaptureSteps
    BY <1>1, <1>9, CaptureStepDoes
  <1> QED
    BY <1>1, <1>2, <1>4, <1>5, <1>6, <1>7, <1>8, <1>9
    DEF LiveBoardNext, BoardGoesOn, BoardPolls, LinksGoOn, IntervalFires, PollRead,
        PollAnswered, PollFails, FramePublishes, LiveClicked, AutoClicked,
        RefreshButton, VisibilityTurns, CommandClicked, TelemetryArrives,
        liveBoardVars, CaptureGoesOn, CaptureSteps

Held(k) == links[k].deleting \/ links[k].pc \in {"connecting", "open", "closing"}

\* Whatever holds a session goes on to hold it, or it is deleted or lost.
LEMMA SessionStep ==
  ASSUME BoardTypeOK, \A l \in Links : LinkInv(links[l]), SessionsAreReleased,
         CaptureInv, [LiveBoardNext]_liveBoardVars
  PROVE  SessionsAreReleased'
  <1>0. /\ links \in [Links -> LinkRecords] /\ \A k \in Links : links[k] \in LinkRecords
        /\ boardFw \in [ver : Nat, sessions : SUBSET Links, lost : SUBSET Links]
        /\ \A k \in boardFw.sessions \ boardFw.lost : Held(k)
    BY DEF BoardTypeOK, SessionsAreReleased, Held
  <1>1. ASSUME \A k \in boardFw'.sessions \ boardFw'.lost : Held(k)'
        PROVE  SessionsAreReleased'
    BY <1>1 DEF SessionsAreReleased, Held
  <1>2. ASSUME boardFw'.sessions = boardFw.sessions, boardFw'.lost = boardFw.lost,
               \A k \in Links : Held(k) => Held(k)'
        PROVE  SessionsAreReleased'
    BY <1>0, <1>1, <1>2
  <1>3. CASE UNCHANGED <<links, boardFw>>
    BY <1>0, <1>2, <1>3 DEF Held
  <1>4. CASE ModeEffect
    <2>1. \A k \in Links : Held(k) => Cleaned[k].deleting
                             \/ Cleaned[k].pc \in {"connecting", "open", "closing"}
      BY <1>0 DEF Held, Cleaned, CleanedUp, Released, LinkRecords
    <2>2. Cleaned \in [Links -> LinkRecords]
      BY <1>0, CleanedTyped
    <2>3. ASSUME NEW l \in Links, links[l].pc = "none",
                 links' = [Cleaned EXCEPT ![l].pc = "status"], NEW k \in Links, Held(k)
          PROVE  Held(k)'
      <3>1. CASE k # l
        BY <2>1, <2>2, <2>3, <3>1 DEF Held
      <3>2. CASE k = l
        <4>1. Cleaned[k] = links[k]
          BY <2>3, <3>2 DEF Cleaned, CurrentLink
        <4>2. links'[k] = [links[k] EXCEPT !.pc = "status"]
          BY <2>2, <2>3, <3>2, <4>1
        <4> QED
          BY <1>0, <2>3, <3>2, <4>2 DEF Held, LinkRecords
      <3> QED
        BY <3>1, <3>2
    <2>4. \A k \in Links : Held(k) => Held(k)'
      BY <1>4, <2>1, <2>3, ModeEffectDoes DEF Held
    <2> QED
      BY <1>2, <1>4, <2>4, ModeEffectDoes
  <1>5. CASE CommandAnswered
    <2>1. \A k \in Links : Held(k) => Held(k)'
      BY <1>0, <1>5 DEF CommandAnswered, StatePosted, LinkRecords, Held
    <2>2. boardFw'.sessions = boardFw.sessions /\ boardFw'.lost = boardFw.lost
      BY <1>0, <1>5 DEF CommandAnswered
    <2> QED
      BY <1>2, <2>1, <2>2
  <1>6. ASSUME NEW l \in Links,
               \/ SeedRead(l) \/ Seeded(l) \/ SeedFails(l) \/ LinkOpens(l)
               \/ SnapshotPushed(l) \/ SnapshotArrives(l)
        PROVE  SessionsAreReleased'
    <2>1. \A k \in Links : Held(k) => Held(k)'
      BY <1>0, <1>6 DEF SeedRead, Seeded, SeedFails, LinkOpens, SnapshotPushed,
         SnapshotArrives, LinkRecords, Held
    <2>2. boardFw' = boardFw
      BY <1>6 DEF SeedRead, Seeded, SeedFails, LinkOpens, SnapshotPushed,
         SnapshotArrives
    <2> QED
      BY <1>2, <2>1, <2>2
  <1>7. ASSUME NEW l \in Links, LiveSessionMade(l)
        PROVE  SessionsAreReleased'
    <2> DEFINE made == [links[l] EXCEPT !.session = TRUE]
    <2>1. boardFw'.sessions = boardFw.sessions \cup {l} /\ boardFw'.lost = boardFw.lost
      BY <1>0, <1>7 DEF LiveSessionMade
    <2>2. ~links[l].released /\ links[l].pc = "session"
      BY <1>7 DEF LiveSessionMade, LinkInv, Linked
    <2>3. links' = [links EXCEPT ![l] = [Released(made) EXCEPT !.pc = "over"]]
          \/ links' = [links EXCEPT ![l] = [made EXCEPT !.pc = "connecting"]]
      BY <1>7 DEF LiveSessionMade
    <2>4. [Released(made) EXCEPT !.pc = "over"].deleting
          /\ [made EXCEPT !.pc = "connecting"].pc = "connecting"
      BY <1>0, <2>2 DEF Released, LinkRecords
    <2>5. Held(l)'
      BY <1>0, <2>3, <2>4 DEF Held
    <2>6. \A k \in Links \ {l} : Held(k) => Held(k)'
      BY <1>0, <2>3 DEF Held
    <2> QED
      BY <1>0, <1>1, <2>1, <2>5, <2>6
  <1>8. ASSUME NEW l \in Links, SessionFails(l) \/ SessionEnds(l)
        PROVE  SessionsAreReleased'
    <2>1. \A k \in Links \ {l} : Held(k) => Held(k)'
      BY <1>0, <1>8 DEF SessionFails, SessionEnds, Held
    <2>2. (boardFw'.sessions \ boardFw'.lost)
            \subseteq (boardFw.sessions \ boardFw.lost)
      <3>1. \/ boardFw' = boardFw
            \/ boardFw' = [boardFw EXCEPT !.sessions = @ \cup {l}, !.lost = @ \cup {l}]
            \/ boardFw' = [boardFw EXCEPT !.sessions = @ \ {l}]
            \/ boardFw' = [boardFw EXCEPT !.lost = @ \cup {l}]
        BY <1>8 DEF SessionFails, SessionEnds
      <3> QED
        BY <1>0, <3>1
    <2>3. l \in boardFw'.sessions \ boardFw'.lost => Held(l)'
      <3>1. CASE SessionFails(l)
        BY <1>0, <2>2, <3>1 DEF SessionFails, Held, LinkRecords
      <3>2. CASE SessionEnds(l)
        BY <1>0, <3>2 DEF SessionEnds
      <3> QED
        BY <1>8, <3>1, <3>2
    <2> QED
      BY <1>0, <1>1, <2>1, <2>2, <2>3
  <1>9. ASSUME NEW l \in Links, LinkCloses(l)
        PROVE  SessionsAreReleased'
    <2>1. links[l].session /\ ~links[l].released
      BY <1>9 DEF LinkCloses, LinkInv, Linked
    <2>2. [Released(links[l]) EXCEPT !.pc = "over"].deleting
      BY <1>0, <2>1 DEF Released, LinkRecords
    <2>3. links' = [links EXCEPT ![l] = [Released(links[l]) EXCEPT !.pc = "over"]]
      BY <1>9 DEF LinkCloses
    <2>4. \A k \in Links : Held(k) => Held(k)'
      BY <1>0, <2>2, <2>3 DEF Held
    <2>5. boardFw'.sessions \subseteq boardFw.sessions /\ boardFw'.lost = boardFw.lost
      BY <1>0, <1>9 DEF LinkCloses
    <2> QED
      BY <1>0, <1>1, <2>4, <2>5
  <1>10. CASE CaptureSteps
    BY <1>3, <1>10, CaptureStepDoes
  <1> QED
    BY <1>3, <1>4, <1>5, <1>6, <1>7, <1>8, <1>9, <1>10
    DEF LiveBoardNext, BoardGoesOn, BoardPolls, LinksGoOn, IntervalFires, PollRead,
        PollAnswered, PollFails, FramePublishes, LiveClicked, AutoClicked,
        RefreshButton, VisibilityTurns, CommandClicked, TelemetryArrives,
        liveBoardVars, CaptureGoesOn, CaptureSteps

LEMMA ModeKept ==
  ASSUME BoardTypeOK, ModeInv, PageView(lb)' = PageView(lb),
         \A l \in Links :
           /\ CurrentLink(l)' <=> CurrentLink(l)
           /\ links'[l].pc \in Linked <=> links[l].pc \in Linked
  PROVE  ModeInv'
  <1>1. /\ lb'.mode = lb.mode /\ lb'.ws = lb.ws /\ lb'.preview = lb.preview
        /\ lb'.hidden = lb.hidden /\ lb'.interval = lb.interval
    BY DEF PageView
  <1>2. lb.ws \in {0} \cup Links
    BY DEF BoardTypeOK, PageRecords
  <1> QED
    BY <1>1, <1>2 DEF ModeInv

\* A refresh and most clicks leave that view as it is.
LEMMA PageStays ==
  ASSUME BoardTypeOK,
         \/ IntervalFires \/ LiveClicked \/ AutoClicked \/ RefreshButton
         \/ CommandClicked \/ CommandAnswered
         \/ \E p \in Refreshes : PollRead(p) \/ PollAnswered(p) \/ PollFails(p)
         \/ \E l \in Links : \/ SeedRead(l) \/ Seeded(l) \/ SeedFails(l)
                             \/ SessionFails(l) \/ LinkOpens(l) \/ SnapshotPushed(l)
                             \/ SnapshotArrives(l) \/ SessionEnds(l)
  PROVE  PageView(lb)' = PageView(lb)
  <1>0. lb \in PageRecords
    BY DEF BoardTypeOK
  <1>1. CASE lb' = lb \/ lb' = Counted(lb)
    BY <1>0, <1>1 DEF PageView, Counted, PageRecords
  <1>2. CASE LiveClicked \/ AutoClicked
    BY <1>0, <1>2 DEF LiveClicked, AutoClicked, PageView, Counted, PageRecords
  <1>3. CASE CommandClicked \/ CommandAnswered
    BY <1>0, <1>3 DEF CommandClicked, CommandAnswered, RefreshBegins, PageView,
       Counted, PageRecords
  <1>4. CASE \E p \in Refreshes : PollAnswered(p) \/ PollFails(p)
    BY <1>0, <1>4, ZenonT(30) DEF PollAnswered, PollFails, Shows, PageView, Counted, PageRecords
  <1>5. CASE \E l \in Links : Seeded(l) \/ SeedFails(l)
    BY <1>0, <1>5 DEF Seeded, SeedFails, Shows, PageView, Counted, PageRecords
  <1>6. CASE \E l \in Links : SessionFails(l) \/ SnapshotArrives(l) \/ SessionEnds(l)
    BY <1>0, <1>6 DEF SessionFails, SnapshotArrives, SessionEnds, PageView, Counted,
       PageRecords
  <1>7. CASE \E l \in Links : LinkOpens(l)
    BY <1>0, <1>7, OpensDoes DEF PageView, PageRecords
  <1> QED
    BY <1>1, <1>2, <1>3, <1>4, <1>5, <1>6, <1>7
    DEF IntervalFires, RefreshButton, RefreshBegins, PollRead, SeedRead, SnapshotPushed

\* One mode at a time, with its socket and its preview.
LEMMA ModeStep ==
  ASSUME BoardTypeOK, \A l \in Links : LinkInv(links[l]), ModeInv,
         CaptureInv, [LiveBoardNext]_liveBoardVars
  PROVE  ModeInv'
  <1>0. /\ links \in [Links -> LinkRecords] /\ \A k \in Links : links[k] \in LinkRecords
        /\ lb \in PageRecords /\ lb.ws \in {0} \cup Links
        /\ 0 \notin Links
    BY LiveBoardAssumption DEF BoardTypeOK, PageRecords, Links
  <1>1. CASE ModeEffect
    <2>1. /\ lb'.mode = Mode /\ lb'.hidden = lb.hidden
          /\ lb'.ws = 0 /\ lb'.preview = 0
      <3>1. CASE \E l \in Links : CurrentLink(l)
        BY <1>1, <3>1, ModeEffectDoes
      <3>2. CASE ~\E l \in Links : CurrentLink(l)
        <4>1. lb.ws = 0
          BY <1>0, <3>2 DEF ModeInv
        <4>2. lb.preview = 0
          BY <4>1 DEF ModeInv
        <4> QED
          BY <1>1, <3>2, <4>1, <4>2, ModeEffectDoes
      <3> QED
        BY <3>1, <3>2
    <2>2. Cleaned \in [Links -> LinkRecords]
      BY <1>0, CleanedTyped
    <2>3. \A k \in Links : /\ Cleaned[k].pc = "none" \/ Cleaned[k].cancelled
                           /\ Cleaned[k].pc \notin Linked
      BY <1>0 DEF Cleaned, CleanedUp, Released, CurrentLink, LinkInv, LinkRecords, Linked
    <2>4. CASE lb.live /\ PageVisible
      <3>1. PICK l \in Links : links' = [Cleaned EXCEPT ![l].pc = "status"]
        BY <1>1, <2>4, ModeEffectDoes
      <3>2. \A k \in Links : /\ links'[k].pc \notin Linked
                             /\ k # l => ~CurrentLink(k)'
        BY <2>2, <2>3, <3>1 DEF CurrentLink, LinkRecords, Linked
      <3>3. Mode = <<TRUE, TRUE, lb.auto>> /\ lb.auto \in BOOLEAN
        BY <1>0, <2>4 DEF Mode, PageRecords, PageVisible
      <3>4. ~lb'.interval
        BY <1>1, <2>4, ModeEffectDoes
      <3> QED
        BY <2>1, <3>2, <3>3, <3>4, <1>0 DEF ModeInv
    <2>5. CASE ~(lb.live /\ PageVisible)
      <3>1. links' = Cleaned /\ (lb'.interval => lb.auto /\ PageVisible)
        BY <1>1, <2>5, ModeEffectDoes
      <3>2. \A k \in Links : links'[k].pc \notin Linked /\ ~CurrentLink(k)'
        BY <2>3, <3>1 DEF CurrentLink
      <3>3. lb'.interval => Mode = <<FALSE, TRUE, TRUE>>
        BY <1>0, <2>5, <3>1 DEF Mode, PageRecords, PageVisible
      <3> QED
        BY <2>1, <3>2, <3>3, <1>0 DEF ModeInv
    <2> QED
      BY <2>4, <2>5
  <1>2. CASE \/ IntervalFires \/ LiveClicked \/ AutoClicked \/ RefreshButton
             \/ CommandClicked \/ CommandAnswered
             \/ \E p \in Refreshes : PollRead(p) \/ PollAnswered(p) \/ PollFails(p)
    <2>1. PageView(lb)' = PageView(lb)
      BY <1>2, PageStays
    <2>2. \A l \in Links : /\ links'[l].cancelled = links[l].cancelled
                           /\ links'[l].pc = links[l].pc
      BY <1>0, <1>2 DEF IntervalFires, LiveClicked, AutoClicked, RefreshButton,
         CommandClicked, CommandAnswered, StatePosted, PollRead, PollAnswered,
         PollFails, LinkRecords
    <2> QED
      BY <2>1, <2>2, ModeKept DEF CurrentLink
  <1>3. ASSUME NEW l \in Links,
               \/ SeedRead(l) \/ Seeded(l) \/ SeedFails(l) \/ SessionFails(l)
               \/ LinkOpens(l) \/ SnapshotPushed(l) \/ SnapshotArrives(l)
               \/ SessionEnds(l)
        PROVE  ModeInv'
    <2>1. PageView(lb)' = PageView(lb)
      BY <1>3, PageStays
    <2>2. \A k \in Links :
            /\ links'[k].cancelled = links[k].cancelled
            /\ links'[k].pc = "none" <=> links[k].pc = "none"
            /\ links'[k].pc \in Linked <=> links[k].pc \in Linked
      BY <1>0, <1>3 DEF SeedRead, Seeded, SeedFails, SessionFails, LinkOpens,
         SnapshotPushed, SnapshotArrives, SessionEnds, LinkRecords, Linked
    <2> QED
      BY <2>1, <2>2, ModeKept DEF CurrentLink
  <1>4. ASSUME NEW l \in Links, LiveSessionMade(l)
        PROVE  ModeInv'
    <2> DEFINE made == [links[l] EXCEPT !.session = TRUE]
    <2>1. CASE links[l].cancelled
      <3>1. lb' = lb
            /\ links' = [links EXCEPT ![l] = [Released(made) EXCEPT !.pc = "over"]]
        BY <1>0, <1>4, <2>1 DEF LiveSessionMade, LinkRecords
      <3>2. Released(made).cancelled
        BY <1>0, <2>1 DEF Released, LinkRecords
      <3>3. links'[l].cancelled /\ links'[l].pc = "over"
        BY <1>0, <3>1, <3>2, LinkTyped
      <3>4. links[l].pc = "session"
        BY <1>4 DEF LiveSessionMade
      <3>5. \A k \in Links : /\ CurrentLink(k)' <=> CurrentLink(k)
                             /\ links'[k].pc \in Linked <=> links[k].pc \in Linked
                         BY <1>0, <2>1, <3>1, <3>3, <3>4 DEF CurrentLink, Linked
      <3>6. PageView(lb)' = PageView(lb)
        BY <3>1 DEF PageView
      <3> QED
        BY <3>5, <3>6, ModeKept
    <2>2. CASE ~links[l].cancelled
      <3>1. lb' = [lb EXCEPT !.ws = l]
            /\ links' = [links EXCEPT ![l] = [made EXCEPT !.pc = "connecting"]]
        BY <1>0, <1>4, <2>2 DEF LiveSessionMade, LinkRecords
      <3>2. links[l].pc = "session" /\ CurrentLink(l)
        BY <1>4, <2>2 DEF LiveSessionMade, CurrentLink
      <3>3. \A k \in Links : links[k].pc \notin Linked
        BY <3>2 DEF ModeInv, LinkInv, CurrentLink, Linked
      <3>4. lb.ws = 0
        BY <1>0, <3>3 DEF ModeInv
      <3>5. lb.preview = 0
        BY <3>4 DEF ModeInv
      <3>6. /\ lb'.mode = lb.mode /\ lb'.ws = l /\ lb'.preview = lb.preview
            /\ lb'.hidden = lb.hidden /\ lb'.interval = lb.interval
        BY <1>0, <3>1 DEF PageRecords
      <3>7. /\ \A k \in Links : CurrentLink(k)' <=> CurrentLink(k)
            /\ \A k \in Links : links'[k].pc \in Linked <=> k = l
        BY <1>0, <3>1, <3>2, <3>3 DEF CurrentLink, LinkRecords, Linked
      <3> QED
        BY <3>2, <3>5, <3>6, <3>7 DEF ModeInv
    <2> QED
      BY <2>1, <2>2
  <1>5. ASSUME NEW l \in Links, LinkCloses(l)
        PROVE  ModeInv'
    <2>1. links' = [links EXCEPT ![l] = [Released(links[l]) EXCEPT !.pc = "over"]]
      BY <1>5 DEF LinkCloses
    <2>2. links'[l].pc = "over" /\ links'[l].cancelled = links[l].cancelled
          /\ \A k \in Links \ {l} : links'[k] = links[k]
      BY <1>0, <2>1 DEF Released, LinkRecords
    <2>3. \A k \in Links : CurrentLink(k)' <=> CurrentLink(k)
      BY <1>5, <2>2 DEF CurrentLink, LinkCloses
    <2>4. CASE links[l].pc = "closing" /\ lb' = lb
      <3>1. PageView(lb)' = PageView(lb)
        BY <2>4 DEF PageView
      <3>2. \A k \in Links : /\ links'[k].pc \in Linked <=> links[k].pc \in Linked
                         BY <2>2, <2>4 DEF Linked
      <3> QED
        BY <2>3, <3>1, <3>2, ModeKept
    <2>5. CASE /\ links[l].pc \in Linked
               /\ lb' = Counted([lb EXCEPT !.live = FALSE, !.connected = FALSE,
                                           !.preview = 0, !.capture = Unlinked(lb.capture),
                                           !.ws = IF @ = l THEN 0 ELSE @])
      <3>1. lb.ws = l
        BY <2>5 DEF ModeInv
      <3>2. /\ lb'.mode = lb.mode /\ lb'.ws = 0 /\ lb'.preview = 0
            /\ lb'.interval = lb.interval
        BY <1>0, <2>5, <3>1 DEF PageRecords, Counted
      <3>3. \A k \in Links : links'[k].pc \notin Linked
        BY <1>0, <2>2, <3>1 DEF ModeInv, Linked
      <3> QED
        BY <2>3, <3>2, <3>3 DEF ModeInv
    <2> QED
      BY <1>5, <2>4, <2>5 DEF LinkCloses, Linked
  <1>6. CASE FramePublishes \/ VisibilityTurns
             \/ \E l \in Links : TelemetryArrives(l)
    <2>1. links' = links
      BY <1>6 DEF FramePublishes, VisibilityTurns, TelemetryArrives
    <2>2. lb'.mode = lb.mode /\ lb'.ws = lb.ws /\ lb'.interval = lb.interval
      BY <1>0, <1>6, ZenonT(30) DEF FramePublishes, VisibilityTurns,
         TelemetryArrives, PageRecords, Counted
    <2>4. lb'.preview # 0 => lb'.preview = lb.ws /\ ~lb'.hidden
      <3>1. CASE FramePublishes
        BY <1>0, <3>1 DEF FramePublishes, PageRecords
      <3>2. CASE VisibilityTurns
        BY <1>0, <3>2 DEF VisibilityTurns, PageRecords, Counted, ModeInv
      <3>4. CASE \E l \in Links : TelemetryArrives(l)
        BY <1>0, <3>4 DEF TelemetryArrives, PageRecords, ModeInv, Linked
      <3> QED
        BY <1>6, <3>1, <3>2, <3>4
    <2> QED
      BY <2>1, <2>2, <2>4 DEF ModeInv, CurrentLink
  <1>7. CASE UNCHANGED liveBoardVars
    <2>1. PageView(lb)' = PageView(lb) /\ links' = links
      BY <1>7 DEF liveBoardVars, PageView
    <2> QED
      BY <2>1, ModeKept DEF CurrentLink
  <1>8. CASE CaptureSteps
    BY <1>8, CaptureStepDoes, ModeKept DEF CurrentLink
  <1> QED
    BY <1>1, <1>2, <1>3, <1>4, <1>5, <1>6, <1>7, <1>8
    DEF LiveBoardNext, BoardGoesOn, BoardPolls, LinksGoOn, CaptureGoesOn, CaptureSteps

\* A step that leaves the capture as it is leaves it its socket.
LEMMA CaptureKept ==
  ASSUME CaptureInv, lb'.capture = lb.capture, lb'.ws = lb.ws,
         lb.ws # 0 => links'[lb.ws].pc = "open" \/ links[lb.ws].pc # "open"
  PROVE  CaptureInv'
  BY DEF CaptureInv, SocketOpen

\* Wherever the socket goes, what was recorded over it is being saved.
LEMMA CaptureStep ==
  ASSUME BoardTypeOK, \A l \in Links : LinkInv(links[l]), ModeInv,
         CaptureInv, [LiveBoardNext]_liveBoardVars
  PROVE  CaptureInv'
  <1>0. /\ links \in [Links -> LinkRecords] /\ lb \in PageRecords
        /\ lb.capture \in CaptureRecords /\ lb.ws \in {0} \cup Links
        /\ CaptureSound(lb.capture)
    BY DEF BoardTypeOK, PageRecords, CaptureInv
  <1>1. ASSUME lb'.capture = Unlinked(lb.capture)
        PROVE  CaptureInv'
    BY <1>0, <1>1, CaptureEnds DEF CaptureInv
  <1>2. CASE CaptureSteps
    BY <1>2, CaptureStepDoes
  <1>3. CASE ModeEffect
    <2>1. CASE \E l \in Links : CurrentLink(l)
      BY <1>1, <1>3, <2>1, ModeEffectDoes
    <2>2. CASE ~\E l \in Links : CurrentLink(l)
      <3>1. lb.ws = 0
        BY <1>0, <2>2 DEF ModeInv
      <3>2. lb'.ws = lb.ws /\ lb'.capture = lb.capture
        BY <1>3, <2>2, ModeEffectDoes
      <3> QED
        BY <3>1, <3>2, CaptureKept
    <2> QED
      BY <2>1, <2>2
  <1>4. CASE \/ IntervalFires \/ LiveClicked \/ AutoClicked \/ RefreshButton
             \/ CommandClicked \/ CommandAnswered \/ FramePublishes \/ VisibilityTurns
             \/ \E p \in Refreshes : PollRead(p) \/ PollAnswered(p) \/ PollFails(p)
             \/ \E l \in Links : TelemetryArrives(l)
    <2>1. lb'.capture = lb.capture /\ lb'.ws = lb.ws
      <3>1. CASE lb' = lb \/ lb' = Counted(lb)
        BY <1>0, <3>1 DEF Counted, PageRecords
      <3>2. CASE LiveClicked \/ AutoClicked
        BY <1>0, <3>2 DEF LiveClicked, AutoClicked, Counted, PageRecords
      <3>3. CASE CommandClicked \/ CommandAnswered
        BY <1>0, <3>3 DEF CommandClicked, CommandAnswered, RefreshBegins, Counted, PageRecords
      <3>4. CASE \E p \in Refreshes : PollAnswered(p) \/ PollFails(p)
        BY <1>0, <3>4, ZenonT(30) DEF PollAnswered, PollFails, Shows, Counted, PageRecords
      <3>5. CASE FramePublishes \/ VisibilityTurns \/ \E l \in Links : TelemetryArrives(l)
        BY <1>0, <3>5, ZenonT(30) DEF FramePublishes, VisibilityTurns, TelemetryArrives,
           Counted, PageRecords
      <3> QED
        BY <1>4, <3>1, <3>2, <3>3, <3>4, <3>5
        DEF IntervalFires, RefreshButton, RefreshBegins, PollRead
    <2>2. \A l \in Links : links'[l].pc = links[l].pc
      BY <1>0, <1>4 DEF IntervalFires, LiveClicked, AutoClicked, RefreshButton,
         CommandClicked, CommandAnswered, StatePosted, FramePublishes, VisibilityTurns,
         PollRead, PollAnswered, PollFails, TelemetryArrives, LinkRecords
    <2> QED
      BY <1>0, <2>1, <2>2, CaptureKept
  <1>5. ASSUME NEW l \in Links,
               \/ SeedRead(l) \/ Seeded(l) \/ SeedFails(l) \/ SessionFails(l)
               \/ SnapshotPushed(l) \/ SnapshotArrives(l) \/ SessionEnds(l)
        PROVE  CaptureInv'
    <2>1. lb'.capture = lb.capture /\ lb'.ws = lb.ws
      <3>1. CASE Seeded(l) \/ SeedFails(l)
        BY <1>0, <3>1 DEF Seeded, SeedFails, Shows, Counted, PageRecords
      <3>2. CASE SessionFails(l) \/ SnapshotArrives(l) \/ SessionEnds(l)
        BY <1>0, <3>2 DEF SessionFails, SnapshotArrives, SessionEnds, Counted, PageRecords
      <3> QED
        BY <1>5, <3>1, <3>2 DEF SeedRead, SnapshotPushed
    <2>2. \A k \in Links : links[k].pc = "open" => links'[k].pc = "open"
      BY <1>0, <1>5 DEF SeedRead, Seeded, SeedFails, SessionFails,
         SnapshotPushed, SnapshotArrives, SessionEnds, LinkRecords
    <2> QED
      BY <1>0, <2>1, <2>2, CaptureKept
  <1>6. ASSUME NEW l \in Links, LiveSessionMade(l)
        PROVE  CaptureInv'
    <2>1. CASE links[l].cancelled
      <3>1. lb' = lb /\ links[l].pc = "session"
        BY <1>6, <2>1 DEF LiveSessionMade
      <3>2. \A k \in Links \ {l} : links'[k] = links[k]
        BY <1>0, <1>6 DEF LiveSessionMade
      <3> QED
        BY <1>0, <3>1, <3>2, CaptureKept
    <2>2. CASE ~links[l].cancelled
      <3>1. lb' = [lb EXCEPT !.ws = l] /\ links[l].pc = "session" /\ CurrentLink(l)
        BY <1>0, <1>6, <2>2 DEF LiveSessionMade, LinkRecords, CurrentLink
      <3>2. ~SocketOpen
        BY <1>0, <3>1 DEF ModeInv, SocketOpen, CurrentLink
      <3>3. lb'.capture = lb.capture
        BY <1>0, <3>1 DEF PageRecords
      <3> QED
        BY <3>2, <3>3 DEF CaptureInv
    <2> QED
      BY <2>1, <2>2
  <1>7. ASSUME NEW l \in Links, LinkOpens(l)
        PROVE  CaptureInv'
    <2>1. PICK n \in Nat : lb' = [lb EXCEPT !.capture = [lb.capture EXCEPT !.asked = n]]
      BY <1>0, <1>7, OpensDoes
    <2>2. /\ lb'.capture = [lb.capture EXCEPT !.asked = n] /\ lb'.ws = lb.ws
      BY <1>0, <2>1 DEF PageRecords
    <2>3. /\ CaptureSound(lb'.capture) /\ (Unbound(lb.capture) => Unbound(lb'.capture))
      BY <1>0, <2>2 DEF CaptureRecords, CaptureSound, Unbound, BeingSaved
    <2>4. SocketOpen => SocketOpen'
      BY <1>0, <1>7, <2>2 DEF SocketOpen, LinkOpens
    <2> QED
      BY <2>3, <2>4 DEF CaptureInv
  <1>8. ASSUME NEW l \in Links, LinkCloses(l)
        PROVE  CaptureInv'
    <2>1. CASE links[l].pc = "closing" /\ lb' = lb
      <3>1. \A k \in Links \ {l} : links'[k] = links[k]
        BY <1>0, <1>8 DEF LinkCloses
      <3> QED
        BY <1>0, <2>1, <3>1, CaptureKept
    <2>2. CASE lb'.capture = Unlinked(lb.capture)
      BY <1>1, <2>2
    <2>3. (lb' = lb /\ links[l].pc = "closing") \/ lb'.capture = Unlinked(lb.capture)
      <3> DEFINE ws == IF lb.ws = l THEN 0 ELSE lb.ws
                 c == Unlinked(lb.capture)
      <3>1. \/ lb' = lb /\ links[l].pc = "closing"
            \/ lb' = Counted([lb EXCEPT !.live = FALSE, !.connected = FALSE,
                                        !.preview = 0, !.capture = c, !.ws = ws])
        BY <1>8 DEF LinkCloses
      <3> HIDE DEF ws, c
      <3>2. (lb' = lb /\ links[l].pc = "closing") \/ lb'.capture = c
        BY <1>0, <3>1 DEF PageRecords, Counted
      <3> QED
        BY <3>2 DEF c
    <2> QED
      BY <2>1, <2>2, <2>3
  <1>9. CASE UNCHANGED liveBoardVars
    BY <1>9, CaptureKept DEF liveBoardVars
  <1> QED
    BY <1>2, <1>3, <1>4, <1>5, <1>6, <1>7, <1>8, <1>9
    DEF LiveBoardNext, BoardGoesOn, BoardPolls, LinksGoOn, CaptureGoesOn, CaptureSteps

LEMMA BoardStarts == LiveBoardInit => BoardInv
  <1> SUFFICES ASSUME LiveBoardInit PROVE BoardInv
    OBVIOUS
  <1>1. /\ NoLink \in LinkRecords /\ NoPoll \in PollRecords
        /\ NoCapture \in CaptureRecords
    BY DEF NoLink, NoPoll, NoCapture, LinkRecords, LinkPcs, PollRecords, CaptureRecords,
       CaptureSessions
  <1>2. BoardTypeOK
    BY <1>1 DEF LiveBoardInit, BoardTypeOK, PageRecords
  <1>3. \A l \in Links : LinkInv(links[l])
    BY DEF LiveBoardInit, LinkInv, NoLink, Linked
  <1>4. SessionsAreReleased /\ ModeInv /\ CaptureInv
    BY DEF LiveBoardInit, SessionsAreReleased, ModeInv, CaptureInv, CaptureSound, Unbound,
       BeingSaved, NoCapture, CurrentLink, NoLink, Linked
  <1> QED
    BY <1>2, <1>3, <1>4 DEF BoardInv

-----------------------------------------------------------------------------
(* The theorems.                                                           *)

\* The inductive invariant of the hooks: the life of every live effect, the
\* one mode of the page and what belongs to it, and the capture with the socket
\* it comes over (useBoardLive.ts, useBoard.ts, useBoardCapture.ts).
THEOREM BoardInvariant == LiveBoardFairSpec => []BoardInv
  <1>1. BoardInv /\ [LiveBoardNext]_liveBoardVars => BoardInv'
    BY TypeStep, LinkStep, SessionStep, ModeStep, CaptureStep DEF BoardInv
  <1> QED
    BY <1>1, BoardStarts, PTL DEF LiveBoardFairSpec

\* However the modes of the page follow each other and whatever fails, no live
\* session of the debugger is left behind, one mode runs at a time, and a
\* recording whose socket goes is being saved (useBoardLive.ts, useBoardCapture.ts).
THEOREM BoardPageHolds == LiveBoardFairSpec => []BoardPageIsSound
  <1>1. BoardInv => BoardPageIsSound
    <2> SUFFICES ASSUME BoardInv PROVE BoardPageIsSound
      OBVIOUS
    <2>0. /\ lb.live \in BOOLEAN /\ lb.auto \in BOOLEAN /\ PageVisible \in BOOLEAN
          /\ Mode[1] = lb.live /\ Mode[2] = PageVisible /\ Mode[3] = lb.auto
      BY DEF BoardInv, BoardTypeOK, PageRecords, Mode, PageVisible
    <2>1. lb.mode = Mode /\ lb.interval => lb.auto /\ ~lb.live /\ PageVisible
      <3>1. lb.interval => lb.mode = <<FALSE, TRUE, TRUE>>
        BY DEF BoardInv, ModeInv
      <3>2. lb.mode = <<FALSE, TRUE, TRUE>>
            => lb.mode[1] = FALSE /\ lb.mode[2] = TRUE /\ lb.mode[3] = TRUE
        OBVIOUS
      <3> QED
        BY <2>0, <3>1, <3>2, Zenon
    <2>2. lb.mode = Mode /\ ~PageVisible => ~\E l \in Links : CurrentLink(l)
      <3>1. \A l \in Links : CurrentLink(l) => \E a \in BOOLEAN : lb.mode = <<TRUE, TRUE, a>>
        BY DEF BoardInv, ModeInv
      <3>2. \A a \in BOOLEAN : lb.mode = <<TRUE, TRUE, a>> => lb.mode[2] = TRUE
        OBVIOUS
      <3>3. (\E l \in Links : CurrentLink(l)) => lb.mode[2] = TRUE
        BY <3>1, <3>2, Zenon
      <3> QED
        BY <2>0, <3>3, Zenon
    <2>3. OneModeAtATime
      BY <2>1, <2>2 DEF BoardInv, ModeInv, OneModeAtATime, Linked
    <2>4. CaptureKeepsSocket
      BY DEF BoardInv, CaptureInv, CaptureSound, Unbound, CaptureKeepsSocket
    <2> QED
      BY <2>3, <2>4 DEF BoardInv, BoardPageIsSound
  <1> QED
    BY <1>1, BoardInvariant, PTL

-----------------------------------------------------------------------------
(* The pinout of the GPIO card.                                            *)

GestureRecords ==
  [phase : {"idle", "down", "awaitSecond", "holdFired"}, second : BOOLEAN,
   timer : {"none", "hold", "short"}, id : Nat]
EntryRecords ==
  [presses : 0..2, held : BOOLEAN, cancelled : BOOLEAN, writes : Seq(Levels)]
Writes == Nat \X Pins \X Levels
CardRecords ==
  [pending : BOOLEAN, blocked : BOOLEAN, due : BOOLEAN, effect : BOOLEAN,
   out : Seq(Writes), usable : BOOLEAN, mount : Nat]

\* A gesture whose write is still to come.
Open(gesture) == gesture.phase \in {"down", "awaitSecond"}

\* What an open gesture has behind it: presses, and nothing else.
Untouched(gesture, entry) ==
  /\ entry.writes = <<>> /\ entry.cancelled = FALSE /\ entry.held = FALSE
  /\ entry.presses = IF gesture.second = TRUE THEN 2 ELSE 1

TimerFits(gesture) ==
  /\ gesture.timer = "hold" <=> gesture.phase = "down"
  /\ gesture.timer = "short" <=> gesture.phase = "awaitSecond"
  /\ gesture.phase = "awaitSecond" => gesture.second = FALSE

Fits(entry, level) ==
  entry.presses > 0 =>
    level = IF entry.held THEN "high"
            ELSE IF entry.presses = 2 THEN "input" ELSE "low"

OneWrite(entry) ==
  /\ Len(entry.writes) <= IF entry.cancelled THEN 0 ELSE 1
  /\ entry.presses > 0 /\ entry.writes # <<>> =>
       entry.writes = << IF entry.held THEN "high"
                         ELSE IF entry.presses = 2 THEN "input" ELSE "low" >>

\* The gestures of the pins and the history of all gestures: a gesture belongs to
\* one pin, one that is open has written nothing, and each has written once at
\* most.
PadGood(gestures, history) ==
  /\ gestures \in [Pins -> GestureRecords]
  /\ history \in Seq(EntryRecords)
  /\ \A p \in Pins : gestures[p].id <= Len(history)
  /\ \A p, q \in Pins : p # q /\ gestures[p].id # 0 => gestures[q].id # gestures[p].id
  /\ \A p \in Pins : Open(gestures[p]) =>
       gestures[p].id # 0 /\ Untouched(gestures[p], history[gestures[p].id])
  /\ \A p \in Pins : TimerFits(gestures[p])
  /\ \A g \in DOMAIN history : OneWrite(history[g])

\* The card: the write of this card that is out, and pendingRef.
CardGood(panel) ==
  /\ panel \in CardRecords
  /\ \A i \in DOMAIN panel.out : panel.out[i][1] <= panel.mount
  /\ \A i, j \in DOMAIN panel.out :
       panel.out[i][1] = panel.mount /\ panel.out[j][1] = panel.mount => i = j
  /\ panel.pending = TRUE <=> \E i \in DOMAIN panel.out : panel.out[i][1] = panel.mount

PadInv == PadGood(pad, log) /\ CardGood(gpioCard)

-----------------------------------------------------------------------------
(* Changes of the gestures and of the history.                             *)

\* A gesture that ends, or goes on where it writes no more, leaves the rest.
LEMMA GestureEnds ==
  ASSUME NEW gestures, NEW history, PadGood(gestures, history),
         NEW p \in Pins, NEW gesture \in GestureRecords,
         gesture.id \in {0, gestures[p].id}, ~Open(gesture), TimerFits(gesture)
  PROVE  PadGood([gestures EXCEPT ![p] = gesture], history)
  BY DEF PadGood

\* The same of many pins.
LEMMA GesturesEnd ==
  ASSUME NEW gestures, NEW history, PadGood(gestures, history),
         NEW after \in [Pins -> GestureRecords],
         \A p \in Pins : \/ after[p] = gestures[p]
                         \/ /\ after[p].id \in {0, gestures[p].id}
                            /\ ~Open(after[p]) /\ TimerFits(after[p])
  PROVE  PadGood(after, history)
  BY DEF PadGood

\* An entry of no open gesture may become any that is one write at most.
LEMMA EntryChanges ==
  ASSUME NEW gestures, NEW history, PadGood(gestures, history),
         NEW id \in DOMAIN history, NEW entry \in EntryRecords, OneWrite(entry),
         \A p \in Pins : Open(gestures[p]) => gestures[p].id # id
  PROVE  PadGood(gestures, [history EXCEPT ![id] = entry])
  <1> DEFINE after == [history EXCEPT ![id] = entry]
  <1>1. /\ after \in Seq(EntryRecords) /\ Len(after) = Len(history)
        /\ DOMAIN after = DOMAIN history /\ after[id] = entry
        /\ \A g \in DOMAIN history : g # id => after[g] = history[g]
    BY ExceptSeq DEF PadGood
  <1> HIDE DEF after
  <1>2. \A p \in Pins : Open(gestures[p]) => after[gestures[p].id] = history[gestures[p].id]
    BY <1>1 DEF PadGood, GestureRecords
  <1> QED
    BY <1>1, <1>2 DEF PadGood

\* A new gesture is in the history before it is on a pin.
LEMMA EntryComes ==
  ASSUME NEW gestures, NEW history, PadGood(gestures, history),
         NEW entry \in EntryRecords, OneWrite(entry)
  PROVE  /\ PadGood(gestures, Append(history, entry))
         /\ Len(Append(history, entry)) = Len(history) + 1
         /\ Append(history, entry)[Len(history) + 1] = entry
         /\ DOMAIN Append(history, entry) = 1..Len(history) + 1
  <1> DEFINE after == Append(history, entry)
  <1>1. /\ after \in Seq(EntryRecords) /\ Len(after) = Len(history) + 1
        /\ DOMAIN after = 1..Len(history) + 1 /\ DOMAIN history = 1..Len(history)
        /\ after[Len(history) + 1] = entry
        /\ \A g \in DOMAIN history : after[g] = history[g]
        /\ Len(history) \in Nat
    BY DEF PadGood
  <1> HIDE DEF after
  <1>2. \A p \in Pins : Open(gestures[p]) => after[gestures[p].id] = history[gestures[p].id]
    BY <1>1 DEF PadGood, GestureRecords
  <1>3. \A p \in Pins : gestures[p].id <= Len(after)
    BY <1>1 DEF PadGood, GestureRecords
  <1>4. \A g \in DOMAIN after : OneWrite(after[g])
    BY <1>1 DEF PadGood
  <1>5. PadGood(gestures, after)
    BY <1>1, <1>2, <1>3, <1>4 DEF PadGood
  <1> QED
    BY <1>1, <1>5 DEF after

\* A pin takes the gesture that the history has got last.
LEMMA GestureComes ==
  ASSUME NEW gestures, NEW history, PadGood(gestures, history), Len(history) # 0,
         NEW p \in Pins, NEW gesture \in GestureRecords, gesture.id = Len(history),
         \A q \in Pins : gestures[q].id # Len(history), TimerFits(gesture),
         Open(gesture) => Untouched(gesture, history[Len(history)])
  PROVE  PadGood([gestures EXCEPT ![p] = gesture], history)
  BY DEF PadGood

\* Gestures that wrote nothing may be cancelled once they are on no pin.
LEMMA EntriesCancelled ==
  ASSUME NEW gestures, PadGood(gestures, log), NEW ids,
         \A g \in DOMAIN log : g \in ids => log[g].writes = <<>>,
         \A p \in Pins : Open(gestures[p]) => gestures[p].id \notin ids
  PROVE  PadGood(gestures, GestureCancelled(ids)) /\ Len(GestureCancelled(ids)) = Len(log)
  <1> DEFINE after == GestureCancelled(ids)
  <1>1. /\ DOMAIN log = 1..Len(log) /\ Len(log) \in Nat
        /\ \A g \in DOMAIN log : log[g] \in EntryRecords
    BY DEF PadGood
  <1>2. /\ DOMAIN after = DOMAIN log
        /\ \A g \in DOMAIN log : g \notin ids => after[g] = log[g]
        /\ \A g \in DOMAIN log : g \in ids => after[g] = [log[g] EXCEPT !.cancelled = TRUE]
    BY DEF GestureCancelled
  <1>3. \A g \in DOMAIN log : after[g] \in EntryRecords
    BY <1>1, <1>2 DEF EntryRecords
  <1>4. after \in [1..Len(log) -> EntryRecords]
    BY <1>1, <1>3 DEF GestureCancelled
  <1>5. after \in Seq(EntryRecords) /\ Len(after) = Len(log)
    BY <1>1, <1>4
  <1> HIDE DEF after
  <1>6. \A g \in DOMAIN log : OneWrite(after[g])
    <2> TAKE g \in DOMAIN log
    <2>1. CASE g \notin ids
      BY <2>1, <1>2 DEF PadGood
    <2>2. CASE g \in ids
      <3>1. after[g].writes = <<>>
        BY <2>2, <1>1, <1>2 DEF EntryRecords
      <3> QED
        BY <3>1 DEF OneWrite
    <2> QED
      BY <2>1, <2>2
  <1>7. \A p \in Pins : Open(gestures[p]) => after[gestures[p].id] = log[gestures[p].id]
    BY <1>1, <1>2 DEF PadGood, GestureRecords
  <1> QED
    BY <1>2, <1>5, <1>6, <1>7 DEF PadGood, after

-----------------------------------------------------------------------------
(* The card.                                                               *)

\* A write goes out of a card that has none.
LEMMA CardWrites ==
  ASSUME NEW panel, CardGood(panel), panel.pending = FALSE, NEW p \in Pins, NEW level \in Levels
  PROVE  CardGood([panel EXCEPT !.pending = TRUE, !.due = TRUE,
                               !.out = Append(@, <<panel.mount, p, level>>)])
  <1> DEFINE out == Append(panel.out, <<panel.mount, p, level>>)
             after == [panel EXCEPT !.pending = TRUE, !.due = TRUE, !.out = out]
  <1>1. panel.out \in Seq(Writes) /\ panel.mount \in Nat /\ panel \in CardRecords
    BY DEF CardGood, CardRecords
  <1>2. <<panel.mount, p, level>> \in Writes
    BY <1>1 DEF Writes
  <1>3. /\ out \in Seq(Writes) /\ DOMAIN out = 1..Len(panel.out) + 1
        /\ DOMAIN panel.out = 1..Len(panel.out) /\ Len(panel.out) \in Nat
        /\ \A i \in DOMAIN panel.out : out[i] = panel.out[i]
        /\ out[Len(panel.out) + 1] = <<panel.mount, p, level>>
    BY <1>1, <1>2
  <1> HIDE DEF out
  <1>4. /\ after \in CardRecords /\ after.out = out /\ after.mount = panel.mount
        /\ after.pending = TRUE
    BY <1>1, <1>3 DEF CardRecords
  <1>5. \A i \in DOMAIN panel.out : out[i][1] # panel.mount /\ out[i][1] <= panel.mount
    BY <1>3 DEF CardGood
  <1>6. out[Len(panel.out) + 1][1] = panel.mount
    BY <1>3
  <1> HIDE DEF after
  <1>7. \A i \in DOMAIN out : i \in DOMAIN panel.out \/ i = Len(panel.out) + 1
    BY <1>3
  <1>8. \A i \in DOMAIN out : out[i][1] <= panel.mount
    BY <1>1, <1>5, <1>6, <1>7
  <1>9. \A i \in DOMAIN out : out[i][1] = panel.mount => i = Len(panel.out) + 1
    BY <1>5, <1>7
  <1>10. \A i, j \in DOMAIN out :
           out[i][1] = panel.mount /\ out[j][1] = panel.mount => i = j
    BY <1>9, Zenon
  <1>11. Len(panel.out) + 1 \in DOMAIN out
    BY <1>3
  <1>12. \E i \in DOMAIN out : out[i][1] = panel.mount
    BY <1>6, <1>11
  <1>13. CardGood(after)
    BY <1>4, <1>8, <1>10, <1>12, Zenon DEF CardGood
  <1> QED
    BY <1>13 DEF after, out

LEMMA RemoveAtProperties ==
  ASSUME NEW S, NEW s \in Seq(S), NEW i \in 1..Len(s)
  PROVE  /\ RemoveAt(s, i) \in Seq(S)
         /\ DOMAIN RemoveAt(s, i) = 1..Len(s) - 1
         /\ \A j \in 1..Len(s) - 1 : RemoveAt(s, i)[j] = IF j < i THEN s[j] ELSE s[j + 1]
  <1> DEFINE front == SubSeq(s, 1, i - 1)
             back == SubSeq(s, i + 1, Len(s))
  <1>1. Len(s) \in Nat /\ i \in Int /\ \A j \in 1..Len(s) : s[j] \in S
    OBVIOUS
  <1>2. /\ front \in Seq(S) /\ Len(front) = i - 1
        /\ \A j \in 1..i - 1 : front[j] = s[j]
    <2>1. \A j \in 1..i - 1 : s[j] \in S
      BY <1>1
    <2>2. /\ front \in Seq(S)
          /\ Len(front) = IF 1 <= i - 1 THEN (i - 1) - 1 + 1 ELSE 0
          /\ \A j \in 1..(i - 1) - 1 + 1 : front[j] = s[1 + j - 1]
      BY <1>1, <2>1, SubSeqProperties
    <2> HIDE DEF front
    <2> QED
      BY <1>1, <2>2
  <1>3. /\ back \in Seq(S) /\ Len(back) = Len(s) - i
        /\ \A j \in 1..Len(s) - i : back[j] = s[i + j]
    <2>1. \A j \in i + 1..Len(s) : s[j] \in S
      BY <1>1
    <2>2. /\ back \in Seq(S)
          /\ Len(back) = IF i + 1 <= Len(s) THEN Len(s) - (i + 1) + 1 ELSE 0
          /\ \A j \in 1..Len(s) - (i + 1) + 1 : back[j] = s[(i + 1) + j - 1]
      BY <1>1, <2>1, SubSeqProperties
    <2> HIDE DEF back
    <2> QED
      BY <1>1, <2>2
  <1>4. RemoveAt(s, i) = front \o back
    BY DEF RemoveAt
  <1> HIDE DEF front, back
  <1>5. /\ front \o back \in Seq(S)
        /\ Len(front \o back) = Len(front) + Len(back)
        /\ \A j \in 1..Len(front) + Len(back) :
             (front \o back)[j] = IF j <= Len(front) THEN front[j] ELSE back[j - Len(front)]
    BY <1>2, <1>3, ConcatProperties
  <1> DEFINE all == front \o back
  <1> HIDE DEF all
  <1>6. /\ all \in Seq(S) /\ Len(all) = Len(s) - 1
        /\ \A j \in 1..Len(s) - 1 :
             all[j] = IF j <= i - 1 THEN front[j] ELSE back[j - (i - 1)]
    BY <1>1, <1>2, <1>3, <1>5 DEF all
  <1>7. \A j \in 1..Len(s) - 1 : all[j] = IF j < i THEN s[j] ELSE s[j + 1]
    <2> TAKE j \in 1..Len(s) - 1
    <2>1. CASE j < i
      BY <2>1, <1>1, <1>2, <1>6
    <2>2. CASE ~(j < i)
      <3>1. j - (i - 1) \in 1..Len(s) - i /\ i + (j - (i - 1)) = j + 1
        BY <2>2, <1>1
      <3> QED
        BY <2>2, <3>1, <1>1, <1>3, <1>6
    <2> QED
      BY <2>1, <2>2
  <1>8. DOMAIN all = 1..Len(s) - 1
    BY <1>6
  <1> QED
    BY <1>4, <1>6, <1>7, <1>8 DEF all

\* An answer takes its write out of what is out, and the card has none when the
\* write was its own.
LEMMA CardAnswered ==
  ASSUME NEW panel, CardGood(panel), NEW i \in DOMAIN panel.out
  PROVE  CardGood(IF panel.out[i][1] = panel.mount
                  THEN [panel EXCEPT !.pending = FALSE, !.due = TRUE, !.out = RemoveAt(@, i)]
                  ELSE [panel EXCEPT !.out = RemoveAt(@, i)])
  <1> DEFINE out == RemoveAt(panel.out, i)
             own == [panel EXCEPT !.pending = FALSE, !.due = TRUE, !.out = out]
             others == [panel EXCEPT !.out = out]
             Old(j) == IF j < i THEN j ELSE j + 1
  <1>1. panel.out \in Seq(Writes) /\ panel.mount \in Nat /\ panel \in CardRecords
    BY DEF CardGood, CardRecords
  <1>2. i \in 1..Len(panel.out) /\ Len(panel.out) \in Nat /\ DOMAIN panel.out = 1..Len(panel.out)
    BY <1>1
  <1>3. /\ out \in Seq(Writes) /\ DOMAIN out = 1..Len(panel.out) - 1
        /\ \A j \in 1..Len(panel.out) - 1 :
             out[j] = IF j < i THEN panel.out[j] ELSE panel.out[j + 1]
    BY <1>1, <1>2, RemoveAtProperties
  <1> HIDE DEF out
  <1>4. \A j \in DOMAIN out :
          Old(j) \in DOMAIN panel.out /\ Old(j) # i /\ out[j] = panel.out[Old(j)]
    BY <1>2, <1>3
  <1>5. \A j, k \in DOMAIN out : Old(j) = Old(k) => j = k
    BY <1>2, <1>3
  <1>6. \A j \in DOMAIN panel.out : j # i => \E k \in DOMAIN out : Old(k) = j
    <2> SUFFICES ASSUME NEW j \in DOMAIN panel.out, j # i
                 PROVE  \E k \in DOMAIN out : Old(k) = j
      OBVIOUS
    <2>1. CASE j < i
      <3>1. j \in DOMAIN out /\ Old(j) = j
        BY <2>1, <1>2, <1>3
      <3> QED
        BY <3>1
    <2>2. CASE ~(j < i)
      <3>1. j - 1 \in DOMAIN out /\ Old(j - 1) = j
        BY <2>2, <1>2, <1>3
      <3> QED
        BY <3>1
    <2> QED
      BY <2>1, <2>2
  <1> HIDE DEF Old
  <1>7. /\ own \in CardRecords /\ own.out = out /\ own.mount = panel.mount
        /\ own.pending = FALSE
        /\ others \in CardRecords /\ others.out = out /\ others.mount = panel.mount
        /\ others.pending = panel.pending
    BY <1>1, <1>3 DEF CardRecords
  <1> HIDE DEF own, others
  <1>8. CASE panel.out[i][1] = panel.mount
    <2>1. \A j \in DOMAIN out : out[j][1] # panel.mount /\ out[j][1] <= panel.mount
      BY <1>8, <1>4 DEF CardGood
    <2>2. CardGood(own)
      BY <1>7, <2>1 DEF CardGood
    <2> QED
      BY <1>8, <2>2 DEF own, out
  <1>9. CASE panel.out[i][1] # panel.mount
    <2>1. \A j \in DOMAIN out : out[j][1] <= panel.mount
      BY <1>4 DEF CardGood
    <2>2. \A j, k \in DOMAIN out : out[j][1] = panel.mount /\ out[k][1] = panel.mount => j = k
      BY <1>4, <1>5 DEF CardGood
    <2>3. (\E j \in DOMAIN panel.out : panel.out[j][1] = panel.mount)
          <=> \E k \in DOMAIN out : out[k][1] = panel.mount
      BY <1>9, <1>4, <1>6
    <2>4. CardGood(others)
      BY <1>7, <2>1, <2>2, <2>3 DEF CardGood
    <2> QED
      BY <1>9, <2>4 DEF others, out
  <1> QED
    BY <1>8, <1>9

\* Another card has nothing out.
LEMMA CardReopened ==
  ASSUME NEW panel, CardGood(panel)
  PROVE  CardGood([panel EXCEPT !.mount = @ + 1, !.pending = FALSE, !.blocked = FALSE,
                               !.due = FALSE, !.effect = FALSE])
  <1> DEFINE after == [panel EXCEPT !.mount = @ + 1, !.pending = FALSE, !.blocked = FALSE,
                                   !.due = FALSE, !.effect = FALSE]
  <1>1. panel.out \in Seq(Writes) /\ panel.mount \in Nat /\ panel \in CardRecords
    BY DEF CardGood, CardRecords
  <1>2. /\ after \in CardRecords /\ after.out = panel.out /\ after.mount = panel.mount + 1
        /\ after.pending = FALSE
    <2> DEFINE mount == panel.mount + 1
    <2>1. mount \in Nat
      BY <1>1
    <2> HIDE DEF mount
    <2>2. [panel EXCEPT !.mount = mount, !.pending = FALSE, !.blocked = FALSE,
                       !.due = FALSE, !.effect = FALSE] \in CardRecords
      BY <1>1, <2>1 DEF CardRecords
    <2>3. after = [panel EXCEPT !.mount = mount, !.pending = FALSE, !.blocked = FALSE,
                               !.due = FALSE, !.effect = FALSE]
      BY DEF mount
    <2>4. after.out = panel.out /\ after.mount = mount /\ after.pending = FALSE
      BY <1>1, <2>3 DEF CardRecords
    <2> QED
      BY <2>2, <2>3, <2>4 DEF mount
  <1>3. \A i \in DOMAIN panel.out : panel.out[i][1] \in Nat
    BY <1>1 DEF Writes
  <1> HIDE DEF after
  <1>4. \A i \in DOMAIN panel.out : panel.out[i][1] <= panel.mount
    BY DEF CardGood
  <1>5. \A i \in DOMAIN after.out :
          after.out[i][1] <= after.mount /\ ~(after.out[i][1] = after.mount)
    BY <1>1, <1>2, <1>3, <1>4
  <1>6. CardGood(after)
    <2>1. \A i \in DOMAIN after.out : after.out[i][1] <= after.mount
      BY <1>5
    <2>2. \A i, j \in DOMAIN after.out :
            after.out[i][1] = after.mount /\ after.out[j][1] = after.mount => i = j
      BY <1>5
    <2>3. ~(\E i \in DOMAIN after.out : after.out[i][1] = after.mount) /\ after.pending # TRUE
      BY <1>2, <1>5
    <2> QED
      BY <1>2, <2>1, <2>2, <2>3, Zenon DEF CardGood
  <1> QED
    BY <1>6 DEF after

\* A render, an effect and a change of the lock leave the writes alone.
LEMMA CardSame ==
  ASSUME NEW panel, CardGood(panel), NEW after \in CardRecords, after.out = panel.out,
         after.mount = panel.mount, after.pending = panel.pending
  PROVE  CardGood(after)
  BY DEF CardGood

-----------------------------------------------------------------------------
(* The steps.                                                              *)

\* An action of a gesture that is over and has written nothing keeps the pinout,
\* whether it is written, dropped by the card or not tried.
LEMMA ActKeeps ==
  ASSUME CardGood(gpioCard), NEW p \in Pins, NEW level \in Levels,
         NEW gestures, NEW history, PadGood(gestures, history), ~Open(gestures[p]),
         NEW id \in DOMAIN history, gestures[p].id = id, history[id].writes = <<>>,
         history[id].cancelled = FALSE, Fits(history[id], level),
         ActUnlessBlocked(p, level, gestures, history)
  PROVE  PadInv'
  <1>1. CASE pad' = gestures /\ log' = history /\ UNCHANGED gpioCard
    BY <1>1 DEF PadInv
  <1>2. CASE gpioCard.pending = FALSE /\ pad' = gestures
             /\ log' = [history EXCEPT ![id].writes = Append(@, level)]
             /\ gpioCard' = [gpioCard EXCEPT !.pending = TRUE, !.due = TRUE,
                                 !.out = Append(@, <<gpioCard.mount, p, level>>)]
    <2> DEFINE entry == [history[id] EXCEPT !.writes = <<level>>]
    <2>1. history[id] \in EntryRecords
      BY DEF PadGood
    <2>2. <<level>> \in Seq(Levels) /\ Append(history[id].writes, level) = <<level>>
      OBVIOUS
    <2>3. entry \in EntryRecords /\ entry.writes = <<level>> /\ entry.cancelled = FALSE
          /\ entry.presses = history[id].presses /\ entry.held = history[id].held
      BY <2>1, <2>2 DEF EntryRecords
    <2>4. log' = [history EXCEPT ![id] = entry]
      BY <1>2, <2>2
    <2> HIDE DEF entry
    <2>5. OneWrite(entry)
      <3>1. Len(entry.writes) <= IF entry.cancelled THEN 0 ELSE 1
        BY <2>3
      <3>2. Fits(entry, level)
        BY <2>3 DEF Fits
      <3> QED
        BY <2>3, <3>1, <3>2 DEF OneWrite, Fits
    <2>6. \A q \in Pins : Open(gestures[q]) => gestures[q].id # id
      <3>1. id # 0
        BY DEF PadGood
      <3> QED
        BY <3>1 DEF PadGood
    <2>7. PadGood(pad', log')
      <3>1. PadGood(gestures, [history EXCEPT ![id] = entry])
        BY <2>3, <2>5, <2>6, EntryChanges
      <3> QED
        BY <1>2, <2>4, <3>1
    <2>8. CardGood(gpioCard')
      BY <1>2, CardWrites
    <2> QED
      BY <2>7, <2>8 DEF PadInv
  <1>3. gpioCard.pending \in BOOLEAN /\ gpioCard.usable \in BOOLEAN
    BY DEF CardGood, CardRecords
  <1>4. CASE gpioCard.usable /\ ~gpioCard.pending /\ Act(p, level, gestures, history)
    BY <1>2, <1>3, <1>4 DEF Act
  <1>5. CASE ~(gpioCard.usable /\ ~gpioCard.pending) /\ Act(p, level, gestures, history)
    BY <1>1, <1>5 DEF Act
  <1> QED
    BY <1>1, <1>4, <1>5 DEF ActUnlessBlocked

\* Gestures that end and are cancelled, of any set of pins.
LEMMA CancelKeeps ==
  ASSUME PadGood(pad, log), NEW ended \in SUBSET Pins,
         NEW after \in [Pins -> GestureRecords],
         \A p \in Pins :
           IF p \in ended
           THEN /\ after[p].id \in {0, pad[p].id} /\ after[p].phase = "idle"
                /\ after[p].timer = "none"
           ELSE after[p] = pad[p],
         NEW ids, \A id \in ids : \E p \in ended : Open(pad[p]) /\ pad[p].id = id
  PROVE  /\ PadGood(after, GestureCancelled(ids))
         /\ Len(GestureCancelled(ids)) = Len(log)
  <1>1. PadGood(after, log)
    <2>1. \A p \in Pins : \/ after[p] = pad[p]
                          \/ /\ after[p].id \in {0, pad[p].id}
                             /\ ~Open(after[p]) /\ TimerFits(after[p])
      BY DEF Open, TimerFits
    <2> QED
      BY <2>1, GesturesEnd
  <1>2. \A g \in DOMAIN log : g \in ids => log[g].writes = <<>>
    BY DEF PadGood, Untouched
  <1>3. \A p \in Pins : Open(after[p]) => after[p].id \notin ids
    <2> SUFFICES ASSUME NEW p \in Pins, Open(after[p]), after[p].id \in ids PROVE FALSE
      OBVIOUS
    <2>1. p \notin ended /\ after[p] = pad[p]
      BY DEF Open
    <2>2. PICK q \in ended : Open(pad[q]) /\ pad[q].id = pad[p].id
      BY <2>1
    <2>3. pad[p].id # 0 /\ q # p
      BY <2>1 DEF PadGood
    <2> QED
      BY <2>2, <2>3 DEF PadGood
  <1> QED
    BY <1>1, <1>2, <1>3, EntriesCancelled

\* A pin at rest.
LEMMA RestTyped ==
  /\ NoGesture \in GestureRecords
  /\ \A n \in Nat : /\ [NoGesture EXCEPT !.id = n] \in GestureRecords
                    /\ [NoGesture EXCEPT !.id = n].id = n
                    /\ [NoGesture EXCEPT !.id = n].phase = "idle"
                    /\ [NoGesture EXCEPT !.id = n].timer = "none"
  BY DEF NoGesture, GestureRecords

LEMMA CancelStep ==
  ASSUME PadInv, NEW pins \in SUBSET Pins, CancelGestures(pins)
  PROVE  PadInv'
  <1> DEFINE after == [p \in Pins |-> IF p \in pins THEN [NoGesture EXCEPT !.id = pad[p].id]
                                      ELSE pad[p]]
             ids == {pad[p].id : p \in {q \in pins : pad[q].phase \in {"down", "awaitSecond"}}}
  <1>1. \A p \in Pins : pad[p] \in GestureRecords /\ pad[p].id \in Nat
    BY DEF PadInv, PadGood, GestureRecords
  <1>2. after \in [Pins -> GestureRecords]
    BY <1>1, RestTyped
  <1>3. \A p \in Pins : IF p \in pins
                        THEN /\ after[p].id \in {0, pad[p].id} /\ after[p].phase = "idle"
                             /\ after[p].timer = "none"
                        ELSE after[p] = pad[p]
    BY <1>1, RestTyped
  <1>4. \A id \in ids : \E p \in pins : Open(pad[p]) /\ pad[p].id = id
    BY DEF Open
  <1>5. pad' = after /\ log' = GestureCancelled(ids) /\ gpioCard' = gpioCard
    BY DEF CancelGestures, Quiet
  <1> HIDE DEF after, ids
  <1>6. PadGood(after, GestureCancelled(ids))
    BY <1>2, <1>3, <1>4, CancelKeeps DEF PadInv
  <1> QED
    BY <1>5, <1>6 DEF PadInv

\* The facts about the gesture of a pin and its entry.
LEMMA PinFacts ==
  ASSUME PadInv, NEW p \in Pins
  PROVE  /\ pad \in [Pins -> GestureRecords] /\ pad[p] \in GestureRecords
         /\ pad[p].id \in Nat /\ pad[p].second \in BOOLEAN
         /\ pad[p].phase \in {"idle", "down", "awaitSecond", "holdFired"}
         /\ Len(log) \in Nat /\ DOMAIN log = 1..Len(log) /\ pad[p].id <= Len(log)
         /\ TimerFits(pad[p]) /\ CardGood(gpioCard)
         /\ Open(pad[p]) => /\ pad[p].id \in DOMAIN log /\ log[pad[p].id] \in EntryRecords
                            /\ Untouched(pad[p], log[pad[p].id])
                            /\ \A q \in Pins \ {p} : pad[q].id # pad[p].id
  <1>1. pad \in [Pins -> GestureRecords] /\ pad[p] \in GestureRecords
    BY DEF PadInv, PadGood
  <1>2. /\ pad[p].id \in Nat /\ pad[p].second \in BOOLEAN
        /\ pad[p].phase \in {"idle", "down", "awaitSecond", "holdFired"}
    BY <1>1 DEF GestureRecords
  <1>3. /\ Len(log) \in Nat /\ DOMAIN log = 1..Len(log) /\ pad[p].id <= Len(log)
        /\ TimerFits(pad[p]) /\ CardGood(gpioCard)
        /\ \A g \in 1..Len(log) : log[g] \in EntryRecords
    BY DEF PadInv, PadGood
  <1>4. ASSUME Open(pad[p])
        PROVE  /\ pad[p].id # 0 /\ Untouched(pad[p], log[pad[p].id])
               /\ \A q \in Pins \ {p} : pad[q].id # pad[p].id
    BY <1>4 DEF PadInv, PadGood
  <1> QED
    BY <1>1, <1>2, <1>3, <1>4

\* A gesture that is over, or goes on in a phase that writes nothing.
Rested(gesture, phase, second) ==
  [gesture EXCEPT !.phase = phase, !.second = second, !.timer = "none"]

\* The entry of such a gesture is touched no more by its pin.
LEMMA PinRests ==
  ASSUME PadInv, NEW p \in Pins, NEW phase \in {"idle", "holdFired"},
         NEW second \in BOOLEAN
  PROVE  /\ Rested(pad[p], phase, second) \in GestureRecords
         /\ Rested(pad[p], phase, second).id = pad[p].id
         /\ ~Open(Rested(pad[p], phase, second))
         /\ PadGood([pad EXCEPT ![p] = Rested(pad[p], phase, second)], log)
         /\ [pad EXCEPT ![p] = Rested(pad[p], phase, second)][p]
              = Rested(pad[p], phase, second)
  <1> DEFINE after == Rested(pad[p], phase, second)
  <1>1. pad \in [Pins -> GestureRecords] /\ pad[p] \in GestureRecords
    BY PinFacts
  <1>2. /\ after \in GestureRecords /\ after.id = pad[p].id /\ after.phase = phase
        /\ after.timer = "none"
    BY <1>1 DEF GestureRecords, Rested
  <1> HIDE DEF after
  <1>3. ~Open(after) /\ TimerFits(after)
    BY <1>2 DEF Open, TimerFits
  <1>4. PadGood([pad EXCEPT ![p] = after], log)
    BY <1>2, <1>3, GestureEnds DEF PadInv
  <1>5. [pad EXCEPT ![p] = after][p] = after
    BY <1>1
  <1> QED
    BY <1>1, <1>2, <1>3, <1>4, <1>5 DEF after

LEMMA HoldStep ==
  ASSUME PadInv, NEW p \in Pins, Open(pad[p]), NEW phase \in {"idle", "holdFired"},
         FireHold(p, phase)
  PROVE  PadInv'
  <1> DEFINE id == pad[p].id
             after == Rested(pad[p], phase, pad[p].second)
             gestures == [pad EXCEPT ![p] = after]
             entry == [log[id] EXCEPT !.held = TRUE]
             history == [log EXCEPT ![id] = entry]
  <1>1. /\ pad \in [Pins -> GestureRecords] /\ pad[p] \in GestureRecords /\ CardGood(gpioCard)
        /\ id \in DOMAIN log /\ log[id] \in EntryRecords /\ Untouched(pad[p], log[id])
        /\ \A q \in Pins \ {p} : pad[q].id # id
    BY PinFacts
  <1>2. /\ after.id = id /\ ~Open(after) /\ PadGood(gestures, log) /\ gestures[p] = after
        /\ after \in GestureRecords
    <2>1. pad[p].second \in BOOLEAN
      BY PinFacts
    <2> QED
      BY <2>1, PinRests
  <1>3. \A q \in Pins \ {p} : gestures[q] = pad[q]
    BY <1>1
  <1>4. /\ entry \in EntryRecords /\ entry.writes = <<>> /\ entry.cancelled = FALSE
        /\ entry.held = TRUE
    BY <1>1 DEF EntryRecords, Untouched
  <1>5. FireHold(p, phase) => ActUnlessBlocked(p, "high", gestures, history)
    <2>1. [pad EXCEPT ![p].phase = phase, ![p].timer = "none"] = gestures
      <3>1. [pad[p] EXCEPT !.phase = phase, !.timer = "none"] = after
        BY <1>1 DEF GestureRecords, Rested
      <3>2. [pad EXCEPT ![p].phase = phase, ![p].timer = "none"]
            = [pad EXCEPT ![p] = [pad[p] EXCEPT !.phase = phase, !.timer = "none"]]
        BY <1>1
      <3> QED
        BY <3>1, <3>2
    <2>2. [log EXCEPT ![id].held = TRUE] = history
      OBVIOUS
    <2> QED
      BY <2>1, <2>2 DEF FireHold
  <1> HIDE DEF after, entry
  <1>6. history[id] = entry /\ DOMAIN history = DOMAIN log
    BY <1>1
  <1>7. PadGood(gestures, history)
    <2>1. \A q \in Pins : Open(gestures[q]) => gestures[q].id # id
      BY <1>1, <1>2, <1>3
    <2>2. OneWrite(entry)
      BY <1>4 DEF OneWrite
    <2> HIDE DEF gestures
    <2> QED
      BY <1>1, <1>2, <1>4, <2>1, <2>2, EntryChanges
  <1>8. Fits(entry, "high") /\ "high" \in Levels
    BY <1>4 DEF Fits, Levels
  <1> HIDE DEF gestures, history, id
  <1> QED
    BY <1>1, <1>2, <1>4, <1>5, <1>6, <1>7, <1>8, ActKeeps

\* The pointer goes up before the hold: the second press writes "input", the first
\* waits for another.
LEMMA PointerUpStep ==
  ASSUME PadInv, NEW p \in Pins, PointerUp(p)
  PROVE  PadInv'
  <1> DEFINE rest == Rested(pad[p], "idle", FALSE)
             idle == [pad EXCEPT ![p] = rest]
             wait == [pad[p] EXCEPT !.phase = "awaitSecond", !.timer = "short"]
  <1>1. /\ pad \in [Pins -> GestureRecords] /\ pad[p] \in GestureRecords /\ CardGood(gpioCard)
        /\ Open(pad[p]) => /\ pad[p].id \in DOMAIN log /\ log[pad[p].id] \in EntryRecords
                           /\ Untouched(pad[p], log[pad[p].id])
                           /\ \A q \in Pins \ {p} : pad[q].id # pad[p].id
        /\ pad[p].second \in BOOLEAN
    BY PinFacts
  <1>2. [pad EXCEPT ![p].phase = "idle", ![p].second = FALSE, ![p].timer = "none"] = idle
    BY <1>1 DEF Rested
  <1>3. /\ rest.id = pad[p].id /\ ~Open(rest) /\ PadGood(idle, log) /\ idle[p] = rest
    BY PinRests
  <1> HIDE DEF rest
  <1>4. CASE pad[p].phase = "holdFired" /\ Quiet(idle, log)
    BY <1>1, <1>3, <1>4 DEF Quiet, PadInv
  <1>5. CASE pad[p].phase = "down" /\ FireHold(p, "idle")
    BY <1>5, HoldStep DEF Open
  <1>6. CASE /\ pad[p].phase = "down" /\ pad[p].second
             /\ ActUnlessBlocked(p, "input", idle, log)
    <2>1. Open(pad[p])
      BY <1>6 DEF Open
    <2>2. /\ log[pad[p].id].writes = <<>> /\ log[pad[p].id].cancelled = FALSE
          /\ log[pad[p].id].held = FALSE /\ log[pad[p].id].presses = 2
      BY <1>1, <1>6, <2>1 DEF Untouched
    <2>3. Fits(log[pad[p].id], "input") /\ "input" \in Levels
      BY <2>2 DEF Fits, Levels
    <2> HIDE DEF idle
    <2> QED
      BY <1>1, <1>3, <1>6, <2>1, <2>2, <2>3, ActKeeps
  <1>7. CASE /\ pad[p].phase = "down" /\ ~pad[p].second
             /\ Quiet([pad EXCEPT ![p].phase = "awaitSecond", ![p].timer = "short"], log)
    <2>1. Open(pad[p]) /\ pad[p].second = FALSE
      BY <1>1, <1>7 DEF Open
    <2>2. /\ wait \in GestureRecords /\ wait.id = pad[p].id /\ wait.second = FALSE
          /\ wait.phase = "awaitSecond" /\ wait.timer = "short"
      BY <1>1, <2>1 DEF GestureRecords
    <2>3. pad' = [pad EXCEPT ![p] = wait] /\ log' = log /\ gpioCard' = gpioCard
      BY <1>1, <1>7 DEF Quiet
    <2> HIDE DEF wait
    <2>4. Open(wait) /\ TimerFits(wait) /\ Untouched(wait, log[wait.id])
      BY <1>1, <2>1, <2>2 DEF Open, TimerFits, Untouched
    <2>5. PadGood([pad EXCEPT ![p] = wait], log)
      <3>1. PadGood(pad, log) /\ pad[p].id # 0
        BY <1>1, <2>1 DEF PadInv, PadGood
      <3> QED
        BY <1>1, <2>2, <2>4, <3>1 DEF PadGood
    <2> QED
      BY <1>1, <2>3, <2>5 DEF PadInv
  <1> QED
    BY <1>2, <1>4, <1>5, <1>6, <1>7 DEF PointerUp

\* The window of the second press is over: the press writes "low".
LEMMA ShortStep ==
  ASSUME PadInv, NEW p \in Pins, ShortTimer(p)
  PROVE  PadInv'
  <1> DEFINE rest == Rested(pad[p], "idle", pad[p].second)
             idle == [pad EXCEPT ![p] = rest]
  <1>1. /\ pad \in [Pins -> GestureRecords] /\ pad[p] \in GestureRecords /\ CardGood(gpioCard)
        /\ Open(pad[p]) => /\ pad[p].id \in DOMAIN log /\ log[pad[p].id] \in EntryRecords
                           /\ Untouched(pad[p], log[pad[p].id])
        /\ pad[p].second \in BOOLEAN /\ TimerFits(pad[p])
    BY PinFacts
  <1>2. [pad EXCEPT ![p].phase = "idle", ![p].timer = "none"] = idle
    <2>1. [pad[p] EXCEPT !.phase = "idle", !.timer = "none"] = rest
      BY <1>1 DEF GestureRecords, Rested
    <2>2. [pad EXCEPT ![p].phase = "idle", ![p].timer = "none"]
          = [pad EXCEPT ![p] = [pad[p] EXCEPT !.phase = "idle", !.timer = "none"]]
      BY <1>1
    <2> QED
      BY <2>1, <2>2
  <1>3. /\ rest.id = pad[p].id /\ ~Open(rest) /\ PadGood(idle, log) /\ idle[p] = rest
    BY <1>1, PinRests
  <1> HIDE DEF rest
  <1>4. Open(pad[p]) /\ pad[p].second = FALSE
    BY <1>1 DEF ShortTimer, TimerFits, Open
  <1>5. /\ log[pad[p].id].writes = <<>> /\ log[pad[p].id].cancelled = FALSE
        /\ log[pad[p].id].held = FALSE /\ log[pad[p].id].presses = 1
    BY <1>1, <1>4 DEF Untouched
  <1>6. Fits(log[pad[p].id], "low") /\ "low" \in Levels
    BY <1>5 DEF Fits, Levels
  <1>7. ActUnlessBlocked(p, "low", idle, log)
    BY <1>2 DEF ShortTimer
  <1> HIDE DEF idle
  <1> QED
    BY <1>1, <1>3, <1>4, <1>5, <1>6, <1>7, ActKeeps

\* A press: of a gesture that waits for its second, or of a new one.
LEMMA PointerDownStep ==
  ASSUME PadInv, NEW p \in Pins, PointerDown(p)
  PROVE  PadInv'
  <1>1. /\ pad \in [Pins -> GestureRecords] /\ pad[p] \in GestureRecords /\ CardGood(gpioCard)
        /\ PadGood(pad, log) /\ Len(log) \in Nat
        /\ \A q \in Pins : pad[q].id \in Nat /\ pad[q].id <= Len(log)
    BY PinFacts DEF PadInv
  <1>2. CASE pad[p].phase = "awaitSecond"
    <2> DEFINE id == pad[p].id
               entry == [log[id] EXCEPT !.presses = 2]
               history == [log EXCEPT ![id] = entry]
               after == [phase |-> "down", second |-> TRUE, timer |-> "hold", id |-> id]
               rest == Rested(pad[p], "idle", FALSE)
               between == [pad EXCEPT ![p] = rest]
    <2>1. /\ Open(pad[p]) /\ id \in DOMAIN log /\ log[id] \in EntryRecords /\ id \in Nat
          /\ Untouched(pad[p], log[id]) /\ \A q \in Pins \ {p} : pad[q].id # id
      <3>1. Open(pad[p])
        BY <1>2 DEF Open
      <3> QED
        BY <3>1, PinFacts
    <2>2. pad[p].second = FALSE
      BY <1>1, <1>2, PinFacts DEF TimerFits
    <2>3. pad' = [pad EXCEPT ![p] = after] /\ log' = history /\ gpioCard' = gpioCard
      BY <1>2 DEF PointerDown, Quiet
    <2>4. /\ entry \in EntryRecords /\ entry.writes = <<>> /\ entry.cancelled = FALSE
          /\ entry.held = FALSE /\ entry.presses = 2
      BY <2>1 DEF EntryRecords, Untouched
    <2>5. /\ after \in GestureRecords /\ after.id = id /\ after.phase = "down"
          /\ after.second = TRUE /\ after.timer = "hold"
      BY <2>1 DEF GestureRecords
    <2>6. rest.id = id /\ ~Open(rest) /\ PadGood(between, log) /\ rest \in GestureRecords
      BY PinRests
    <2> HIDE DEF entry, after, rest
    <2>7. PadGood(between, history)
      <3>1. \A q \in Pins : Open(between[q]) => between[q].id # id
        BY <1>1, <2>1, <2>6
      <3>2. OneWrite(entry)
        BY <2>4 DEF OneWrite
      <3> HIDE DEF between
      <3> QED
        BY <2>1, <2>4, <2>6, <3>1, <3>2, EntryChanges
    <2>8. PadGood([between EXCEPT ![p] = after], history)
      <3>1. history[id] = entry
        BY <2>1
      <3>2. Open(after) /\ TimerFits(after) /\ Untouched(after, history[id])
        BY <2>4, <2>5, <3>1 DEF Open, TimerFits, Untouched
      <3>3. between[p].id = id /\ id # 0
        BY <1>1, <2>1, <2>6 DEF PadGood
      <3> HIDE DEF between, history, id
      <3> QED
        BY <2>5, <2>7, <3>2, <3>3 DEF PadGood
    <2>9. [between EXCEPT ![p] = after] = [pad EXCEPT ![p] = after]
      BY <1>1
    <2> QED
      BY <1>1, <2>3, <2>8, <2>9 DEF PadInv
  <1>3. CASE pad[p].phase # "awaitSecond"
    <2> DEFINE entry == [presses |-> 1, held |-> FALSE, cancelled |-> FALSE, writes |-> <<>>]
               history == Append(log, entry)
               after == [phase |-> "down", second |-> FALSE, timer |-> "hold",
                         id |-> Len(log) + 1]
    <2>1. pad' = [pad EXCEPT ![p] = after] /\ log' = history /\ gpioCard' = gpioCard
      BY <1>3 DEF PointerDown, Quiet
    <2>2. /\ entry \in EntryRecords /\ entry.writes = <<>> /\ entry.cancelled = FALSE
          /\ entry.held = FALSE /\ entry.presses = 1
      BY DEF EntryRecords
    <2>3. /\ after \in GestureRecords /\ after.id = Len(log) + 1 /\ after.phase = "down"
          /\ after.second = FALSE /\ after.timer = "hold"
      BY <1>1 DEF GestureRecords
    <2> HIDE DEF entry, after
    <2>4. /\ PadGood(pad, history) /\ Len(history) = Len(log) + 1
          /\ history[Len(log) + 1] = entry
      <3>1. OneWrite(entry)
        BY <2>2 DEF OneWrite
      <3> QED
        BY <1>1, <2>2, <3>1, EntryComes
    <2>5. TimerFits(after) /\ Untouched(after, entry)
      BY <2>2, <2>3 DEF TimerFits, Untouched
    <2> HIDE DEF history
    <2>6. Len(history) # 0 /\ \A q \in Pins : pad[q].id # Len(history)
      BY <1>1, <2>4
    <2>7. PadGood([pad EXCEPT ![p] = after], history)
      BY <2>3, <2>4, <2>5, <2>6, GestureComes
    <2> QED
      BY <1>1, <2>1, <2>7 DEF PadInv
  <1> QED
    BY <1>2, <1>3

\* A key ends the gesture of its pin and acts at once.
LEMMA KeyDownStep ==
  ASSUME PadInv, NEW p \in Pins, KeyDown(p)
  PROVE  PadInv'
  <1> DEFINE ids == {pad[p].id} \cap IF pad[p].phase \in {"down", "awaitSecond"}
                                     THEN DOMAIN log ELSE {}
             ended == GestureCancelled(ids)
             pins == {p}
             key == [presses |-> 0, held |-> FALSE, cancelled |-> FALSE, writes |-> <<>>]
             history == Append(ended, key)
             rest == Rested(pad[p], "idle", FALSE)
             between == [pad EXCEPT ![p] = rest]
             after == [NoGesture EXCEPT !.id = Len(log) + 1]
             gestures == [pad EXCEPT ![p] = after]
  <1>1. PICK level \in Levels : ActUnlessBlocked(p, level, gestures, history)
    BY DEF KeyDown
  <1>2. /\ pad \in [Pins -> GestureRecords] /\ pad[p] \in GestureRecords /\ CardGood(gpioCard)
        /\ PadGood(pad, log) /\ Len(log) \in Nat
        /\ \A q \in Pins : pad[q].id \in Nat /\ pad[q].id <= Len(log)
    BY PinFacts DEF PadInv
  <1>3. /\ rest \in GestureRecords /\ rest.id = pad[p].id /\ rest.phase = "idle"
        /\ rest.timer = "none"
    BY <1>2 DEF GestureRecords, Rested
  <1>4. /\ after \in GestureRecords /\ after.id = Len(log) + 1 /\ after.phase = "idle"
        /\ after.timer = "none"
    BY <1>2, RestTyped
  <1>5. /\ key \in EntryRecords /\ key.writes = <<>> /\ key.cancelled = FALSE
        /\ key.presses = 0
    BY DEF EntryRecords
  <1>6. \A id \in ids : \E q \in pins : Open(pad[q]) /\ pad[q].id = id
    BY DEF Open
  <1> HIDE DEF rest, after, key, ids
  <1>7. PadGood(between, ended) /\ Len(ended) = Len(log)
    <2>1. between \in [Pins -> GestureRecords]
      BY <1>2, <1>3
    <2>2. \A q \in Pins : IF q \in pins
                          THEN /\ between[q].id \in {0, pad[q].id}
                               /\ between[q].phase = "idle" /\ between[q].timer = "none"
                          ELSE between[q] = pad[q]
      BY <1>2, <1>3
    <2>3. pins \in SUBSET Pins
      OBVIOUS
    <2> HIDE DEF between, pins
    <2> QED
      BY <1>2, <1>6, <2>1, <2>2, <2>3, CancelKeeps, SMTT(30)
  <1>8. \A q \in Pins : between[q].id <= Len(log) /\ between[q].id \in Nat
    BY <1>2, <1>3
  <1>9. [between EXCEPT ![p] = after] = gestures /\ gestures[p] = after
    BY <1>2
  <1> HIDE DEF between, gestures, ended
  <1>10. /\ PadGood(between, history) /\ Len(history) = Len(log) + 1
         /\ history[Len(log) + 1] = key /\ DOMAIN history = 1..Len(log) + 1
    <2>1. OneWrite(key)
      BY <1>5 DEF OneWrite
    <2> QED
      BY <1>5, <1>7, <2>1, EntryComes
  <1> HIDE DEF history
  <1>11. PadGood(gestures, history)
    <2>1. Len(history) # 0 /\ \A q \in Pins : between[q].id # Len(history)
      BY <1>2, <1>8, <1>10
    <2>2. TimerFits(after) /\ ~Open(after)
      BY <1>4 DEF TimerFits, Open
    <2>3. PadGood([between EXCEPT ![p] = after], history)
      BY <1>4, <1>10, <2>1, <2>2, GestureComes
    <2> QED
      BY <1>9, <2>3
  <1>12. Fits(key, level) /\ ~Open(gestures[p]) /\ Len(log) + 1 \in DOMAIN history
    BY <1>2, <1>4, <1>5, <1>9, <1>10 DEF Fits, Open
  <1> QED
    BY <1>1, <1>2, <1>4, <1>5, <1>9, <1>10, <1>11, <1>12, ActKeeps

\* The effect of a card that is blocked, and a card that is opened again, end the
\* gestures of all pins.
LEMMA AllEnd ==
  ASSUME PadInv, NEW after \in [Pins -> GestureRecords],
         \A p \in Pins : /\ after[p].id \in {0, pad[p].id} /\ after[p].phase = "idle"
                         /\ after[p].timer = "none"
  PROVE  PadGood(after, GestureCancelled({pad[p].id :
                   p \in {q \in Pins : pad[q].phase \in {"down", "awaitSecond"}}}))
  <1> DEFINE ids == {pad[p].id : p \in {q \in Pins : pad[q].phase \in {"down", "awaitSecond"}}}
  <1>1. \A id \in ids : \E p \in Pins : Open(pad[p]) /\ pad[p].id = id
    BY DEF Open
  <1>2. Pins \in SUBSET Pins /\ PadGood(pad, log)
    BY DEF PadInv
  <1> HIDE DEF ids
  <1>3. PadGood(after, GestureCancelled(ids))
    BY <1>1, <1>2, CancelKeeps
  <1> QED
    BY <1>3 DEF ids

LEMMA BlockStep == PadInv /\ BlockEffect => PadInv'
  <1> SUFFICES ASSUME PadInv, BlockEffect PROVE PadInv'
    OBVIOUS
  <1> DEFINE after == [p \in Pins |-> [NoGesture EXCEPT !.id = pad[p].id]]
  <1>1. \A p \in Pins : pad[p].id \in Nat
    BY PinFacts
  <1>2. /\ after \in [Pins -> GestureRecords]
        /\ \A p \in Pins : /\ after[p].id \in {0, pad[p].id} /\ after[p].phase = "idle"
                           /\ after[p].timer = "none"
    BY <1>1, RestTyped
  <1>3. PadGood(pad', log')
    <2>1. pad' = after /\ log' = GestureCancelled({pad[p].id :
                   p \in {q \in Pins : pad[q].phase \in {"down", "awaitSecond"}}})
      BY DEF BlockEffect
    <2> HIDE DEF after
    <2> QED
      BY <1>2, <2>1, AllEnd
  <1>4. CardGood(gpioCard')
    <2>1. CardGood(gpioCard) /\ gpioCard \in CardRecords
      BY DEF PadInv, CardGood
    <2>2. gpioCard' = [gpioCard EXCEPT !.effect = FALSE]
      BY DEF BlockEffect
    <2>3. /\ gpioCard' \in CardRecords /\ gpioCard'.out = gpioCard.out
          /\ gpioCard'.mount = gpioCard.mount /\ gpioCard'.pending = gpioCard.pending
      BY <2>1, <2>2 DEF CardRecords
    <2> QED
      BY <2>1, <2>3, CardSame
  <1> QED
    BY <1>3, <1>4 DEF PadInv

LEMMA ReopenStep == PadInv /\ PadReopened => PadInv'
  <1> SUFFICES ASSUME PadInv, PadReopened PROVE PadInv'
    OBVIOUS
  <1> DEFINE after == [p \in Pins |-> NoGesture]
  <1>1. /\ after \in [Pins -> GestureRecords]
        /\ \A p \in Pins : /\ after[p].id \in {0, pad[p].id} /\ after[p].phase = "idle"
                           /\ after[p].timer = "none"
    BY RestTyped DEF NoGesture
  <1>2. PadGood(pad', log')
    <2>1. pad' = after /\ log' = GestureCancelled({pad[p].id :
                   p \in {q \in Pins : pad[q].phase \in {"down", "awaitSecond"}}})
      BY DEF PadReopened
    <2> HIDE DEF after
    <2> QED
      BY <1>1, <2>1, AllEnd
  <1>3. CardGood(gpioCard')
    BY CardReopened DEF PadInv, PadReopened
  <1> QED
    BY <1>2, <1>3 DEF PadInv

\* A render and a change of the lock.
LEMMA CardStep == PadInv /\ (PadRenders \/ UsableChanges) => PadInv'
  <1> SUFFICES ASSUME PadInv, PadRenders \/ UsableChanges PROVE PadInv'
    OBVIOUS
  <1>1. CardGood(gpioCard) /\ gpioCard \in CardRecords /\ pad' = pad /\ log' = log
    BY DEF PadInv, CardGood, PadRenders, UsableChanges
  <1>2. /\ gpioCard' \in CardRecords /\ gpioCard'.out = gpioCard.out
        /\ gpioCard'.mount = gpioCard.mount /\ gpioCard'.pending = gpioCard.pending
    <2>1. CASE PadRenders
      <3> DEFINE due == gpioCard.pending /\ ~gpioCard.blocked
      <3>1. due \in BOOLEAN /\ gpioCard.pending \in BOOLEAN
        BY <1>1 DEF CardRecords
      <3>2. gpioCard' = [gpioCard EXCEPT !.due = FALSE, !.blocked = gpioCard.pending,
                                         !.effect = due]
        BY <2>1 DEF PadRenders
      <3> HIDE DEF due
      <3> QED
        BY <1>1, <3>1, <3>2 DEF CardRecords
    <2>2. CASE UsableChanges
      <3> DEFINE usable == ~gpioCard.usable
      <3>1. usable \in BOOLEAN
        OBVIOUS
      <3>2. gpioCard' = [gpioCard EXCEPT !.usable = usable]
        BY <2>2 DEF UsableChanges
      <3> HIDE DEF usable
      <3> QED
        BY <1>1, <3>1, <3>2 DEF CardRecords
    <2> QED
      BY <2>1, <2>2
  <1>3. CardGood(gpioCard')
    BY <1>1, <1>2, CardSame
  <1> QED
    BY <1>1, <1>3 DEF PadInv

LEMMA AnswerStep == PadInv /\ WriteAnswered => PadInv'
  <1> SUFFICES ASSUME PadInv, WriteAnswered PROVE PadInv'
    OBVIOUS
  <1>1. PICK i \in DOMAIN gpioCard.out :
          gpioCard' = IF gpioCard.out[i][1] = gpioCard.mount
                      THEN [gpioCard EXCEPT !.pending = FALSE, !.due = TRUE,
                                            !.out = RemoveAt(@, i)]
                      ELSE [gpioCard EXCEPT !.out = RemoveAt(@, i)]
    BY DEF WriteAnswered
  <1>2. CardGood(gpioCard')
    BY <1>1, CardAnswered DEF PadInv
  <1> QED
    BY <1>2 DEF PadInv, WriteAnswered

LEMMA PadStep == PadInv /\ [GpioPadNext]_gpioPadVars => PadInv'
  <1> SUFFICES ASSUME PadInv, [GpioPadNext]_gpioPadVars PROVE PadInv'
    OBVIOUS
  <1>1. CASE UNCHANGED gpioPadVars
    BY <1>1 DEF gpioPadVars, PadInv
  <1>2. CASE PadRenders \/ UsableChanges
    BY <1>2, CardStep
  <1>3. CASE BlockEffect
    BY <1>3, BlockStep
  <1>4. CASE WriteAnswered
    BY <1>4, AnswerStep
  <1>5. CASE PadReopened
    BY <1>5, ReopenStep
  <1>6. ASSUME NEW p \in Pins, HoldTimer(p)
        PROVE  PadInv'
    BY <1>6, HoldStep DEF HoldTimer, Open
  <1>7. ASSUME NEW p \in Pins, ShortTimer(p)
        PROVE  PadInv'
    BY <1>7, ShortStep
  <1>8. ASSUME NEW p \in Pins, PointerDown(p) \/ PointerUp(p) \/ KeyDown(p)
        PROVE  PadInv'
    BY <1>8, PointerDownStep, PointerUpStep, KeyDownStep
  <1>9. ASSUME NEW p \in Pins, PointerLost(p) \/ EscapePressed(p)
        PROVE  PadInv'
    BY <1>9, CancelStep DEF PointerLost, EscapePressed
  <1> QED
    BY <1>1, <1>2, <1>3, <1>4, <1>5, <1>6, <1>7, <1>8, <1>9 DEF GpioPadNext, PadGoesOn

LEMMA PadStarts == GpioPadInit => PadInv
  <1> SUFFICES ASSUME GpioPadInit PROVE PadInv
    OBVIOUS
  <1>1. \A p \in Pins : /\ pad[p] = NoGesture /\ pad[p].id = 0 /\ pad[p].phase = "idle"
                        /\ pad[p].timer = "none"
    BY DEF GpioPadInit, NoGesture
  <1>2. pad \in [Pins -> GestureRecords] /\ log \in Seq(EntryRecords) /\ Len(log) = 0
    BY RestTyped DEF GpioPadInit
  <1>3. \A p \in Pins : ~Open(pad[p]) /\ TimerFits(pad[p])
    BY <1>1 DEF Open, TimerFits
  <1>4. PadGood(pad, log)
    BY <1>1, <1>2, <1>3 DEF PadGood
  <1>5. gpioCard \in CardRecords /\ gpioCard.out = <<>> /\ gpioCard.pending = FALSE
    BY DEF GpioPadInit, CardRecords
  <1>6. CardGood(gpioCard)
    BY <1>5 DEF CardGood
  <1> QED
    BY <1>4, <1>6 DEF PadInv

-----------------------------------------------------------------------------
(* The theorems.                                                           *)

\* The inductive invariant of the pinout: every gesture belongs to one pin, one
\* that may still write has written nothing, and the card has one write out
\* (useGpioPinGesture.ts, GpioCard.tsx).
THEOREM PadInvariant == GpioPadFairSpec => []PadInv
  BY PadStarts, PadStep, PTL DEF GpioPadFairSpec

\* However the presses, holds, keys and cancels of all the pins follow each
\* other and whenever React renders, a gesture is one write at most, the one that
\* was meant, and the card has one write out at a time.
THEOREM PadHolds == GpioPadFairSpec => []PadIsSound
  <1>1. PadInv => PadIsSound
    <2> SUFFICES ASSUME PadInv PROVE PadIsSound
      OBVIOUS
    <2>1. GesturesAreOne
      <3>1. \A g \in DOMAIN log : OneWrite(log[g])
        BY DEF PadInv, PadGood
      <3> QED
        BY <3>1, Zenon DEF OneWrite, GesturesAreOne
    <2>2. WritesAreSerial
      <3> DEFINE own == {i \in DOMAIN gpioCard.out : gpioCard.out[i][1] = gpioCard.mount}
      <3>1. \A i, j \in own : i = j
        BY DEF PadInv, CardGood
      <3>2. gpioCard.pending \in BOOLEAN /\ (gpioCard.pending = TRUE <=> own # {})
        <4>1. gpioCard.pending \in BOOLEAN
          BY DEF PadInv, CardGood, CardRecords
        <4>2. gpioCard.pending = TRUE
              <=> \E i \in DOMAIN gpioCard.out : gpioCard.out[i][1] = gpioCard.mount
          BY DEF PadInv, CardGood
        <4> QED
          BY <4>1, <4>2
      <3> HIDE DEF own
      <3>3. gpioCard.pending <=> own # {}
        BY <3>2
      <3> QED
        BY <3>1, <3>3 DEF WritesAreSerial, own
    <2>3. TimersBelong
      BY DEF PadInv, PadGood, TimerFits, TimersBelong
    <2> QED
      BY <2>1, <2>2, <2>3 DEF PadIsSound
  <1> QED
    BY <1>1, PadInvariant, PTL

-----------------------------------------------------------------------------
(* The task card: which run may send, which run keeps the card busy, and   *)
(* whose recipe a run follows.  None of it depends on what a blob is       *)
(* parsed to.                                                              *)

CardShape(page) ==
  page \in [mount : Nat \ {0}, mounted : BOOLEAN, busy : BOOLEAN, running : Jobs \cup {0},
            tasks : {page.tasks}, catalog : {page.catalog}, refresh : {page.refresh},
            work : {"none", "send", "refresh"}, put : {page.put}, plan : {page.plan}]
JobShape(job) ==
  job \in [pc : {"new", "fetch", "dispatch", "wait", "cleanup", "over"}, mount : Nat,
           id : {job.id}, source : {"none", "builtin", "stored"}, reqs : {job.reqs},
           cleanup : {job.cleanup}, plan : {job.plan}, at : {job.at},
           attempted : {job.attempted}, done : {job.done}, held : BOOLEAN,
           aborted : {job.aborted}, ended : {job.ended}, sent : {job.sent}]
FirmwareShape ==
  fw \in [blob : {fw.blob}, plan : {fw.plan}, owner : {"none", "task"}, changes : {fw.changes}]

\* A recipe is one that a catalog of the firmware has, a stored task is not of
\* its namespace and has no cleanup.
Recipe(job) ==
  /\ job.source = "stored" => job.id \notin BuiltinIds /\ job.cleanup = <<>>
  /\ job.source = "builtin" =>
       \E catalog \in Catalogs : /\ ParseCatalog(catalog) # <<>>
                                 /\ job.id \in Ids(catalog)
                                 /\ job.reqs = Find(catalog, job.id).reqs

\* What a run is by the place it has come to: who has yet to fetch its requests
\* was not in the catalog, and the lock is held from the first request on.
RunFits(job) ==
  /\ job.pc = "new" => job.mount = 0 /\ ~job.held
  /\ job.pc = "fetch" =>
       job.id \notin BuiltinIds /\ job.cleanup = <<>> /\ job.source = "none" /\ ~job.held
  /\ Dispatching(job) => job.held
  /\ Recipe(job)

Catalogued(catalog) ==
  catalog = <<>> \/ \E c \in Catalogs : ParseCatalog(c) # <<>> /\ catalog = ParseCatalog(c)

\* The card and a run of it: one that is not busy has nothing under way.
PageFits(page) ==
  /\ CardShape(page)
  /\ Catalogued(page.catalog)
  /\ page.running # 0 => page.mounted /\ page.work = "none"
  /\ page.mounted => (page.busy <=> page.running # 0 \/ page.work # "none")

OwnsRun(page, run) ==
  page.mounted =>
    \A j \in Jobs : run[j].mount = page.mount /\ run[j].pc # "over" <=> j = page.running

RunsTyped ==
  /\ jobs = [j \in Jobs |-> jobs[j]]
  /\ \A j \in Jobs : JobShape(jobs[j]) /\ RunFits(jobs[j]) /\ jobs[j].mount <= card.mount

TaskPageInv ==
  /\ FirmwareShape
  /\ RunsTyped
  /\ PageFits(card)
  /\ OwnsRun(card, jobs)
  /\ RunsAreExclusive

-----------------------------------------------------------------------------
(* What the operators on a run leave of it.                                 *)

SameRun(t, job) ==
  /\ t.mount = job.mount /\ t.id = job.id /\ t.source = job.source
  /\ t.reqs = job.reqs /\ t.cleanup = job.cleanup /\ t.held = job.held

\* The end of a run leaves it in its cleanup or over (executeTaskRun).
LEMMA EndsFacts ==
  ASSUME NEW job, JobShape(job), NEW kind, NEW t, t = JobEnds(job, kind)
  PROVE  JobShape(t) /\ SameRun(t, job) /\ t.pc \in {"cleanup", "over"}
  BY DEF JobEnds, JobShape, SameRun

\* The next request is out, or the run ends (runTaskRequests).
LEMMA SendsFacts ==
  ASSUME NEW job, JobShape(job), NEW i, NEW t, t = JobSends(job, i)
  PROVE  JobShape(t) /\ SameRun(t, job) /\ t.pc \in {"dispatch", "cleanup", "over"}
<1>1. CASE i > Len(job.reqs)
  BY <1>1, EndsFacts DEF JobSends
<1>2. CASE ~(i > Len(job.reqs)) /\ job.aborted
  BY <1>2, EndsFacts DEF JobSends
<1>3. CASE ~(i > Len(job.reqs)) /\ ~job.aborted
  BY <1>3 DEF JobSends, JobShape, SameRun
<1> QED
  BY <1>1, <1>2, <1>3

\* A request that is answered is followed by its wait, the next, or the end.
LEMMA AnsweredFacts ==
  ASSUME NEW job, JobShape(job), NEW t, t = JobAnswered(job)
  PROVE  JobShape(t) /\ SameRun(t, job) /\ t.pc \in {"dispatch", "wait", "cleanup", "over"}
<1> DEFINE ok == [job EXCEPT !.done = job.at]
<1>1. JobShape(ok) /\ SameRun(ok, job)
  BY DEF JobShape, SameRun
<1>2. CASE job.reqs[job.at].wait = 0
  <2>1. t = JobSends(ok, job.at + 1)
    BY <1>2 DEF JobAnswered
  <2> HIDE DEF ok
  <2> QED
    BY <1>1, <2>1, SendsFacts DEF SameRun
<1>3. CASE job.reqs[job.at].wait # 0 /\ job.aborted
  <2>1. t = JobEnds(ok, "cancelled")
    BY <1>3 DEF JobAnswered
  <2> HIDE DEF ok
  <2> QED
    BY <1>1, <2>1, EndsFacts DEF SameRun
<1>4. CASE job.reqs[job.at].wait # 0 /\ ~job.aborted
  <2>1. t = [ok EXCEPT !.pc = "wait"]
    BY <1>4 DEF JobAnswered
  <2> HIDE DEF ok
  <2> QED
    BY <1>1, <2>1 DEF JobShape, SameRun
<1> QED
  BY <1>2, <1>3, <1>4

\* A run that is aborted goes on unless it waits (controller.abort).
LEMMA AbortFacts ==
  ASSUME NEW job, JobShape(job), NEW t, t = AbortJob(job)
  PROVE  /\ JobShape(t) /\ SameRun(t, job)
         /\ t.pc = job.pc \/ (job.pc = "wait" /\ t.pc \in {"cleanup", "over"})
<1> DEFINE aborted == [job EXCEPT !.aborted = TRUE]
<1>1. JobShape(aborted) /\ SameRun(aborted, job) /\ aborted.pc = job.pc
  BY DEF JobShape, SameRun
<1>2. t = IF job.pc = "wait" THEN JobEnds(aborted, "cancelled") ELSE aborted
  BY DEF AbortJob
<1> HIDE DEF aborted
<1> QED
  BY <1>1, <1>2, EndsFacts DEF SameRun

\* A catalog is taken as it is, or not at all (parseTaskCatalog).
LEMMA CatalogFacts ==
  /\ \A catalog : ParseCatalog(catalog) \in {catalog, <<>>}
  /\ Ids(<<>>) = {}
  /\ \A catalog \in Catalogs \cup {<<>>} : Catalogued(ParseCatalog(catalog))
<1>1. \A catalog : ParseCatalog(catalog) \in {catalog, <<>>}
  BY DEF ParseCatalog
<1>2. Ids(<<>>) = {}
  BY DEF Ids
<1>3. ASSUME NEW catalog \in Catalogs \cup {<<>>}
      PROVE  Catalogued(ParseCatalog(catalog))
  BY <1>1 DEF Catalogued
<1> QED
  BY <1>1, <1>2, <1>3

-----------------------------------------------------------------------------
(* Steps that change one run.                                               *)

\* What a page that comes with run j, of the given mount, has to be: the run is the
\* page's exactly if it is the one the page has running.
Seats(j, mount, page) ==
  /\ PageFits(page) /\ page.mount = card.mount /\ mount <= card.mount
  /\ page.mounted =>
       /\ \A k \in Jobs \ {j} :
            jobs[k].mount = page.mount /\ jobs[k].pc # "over" <=> k = page.running
       /\ mount = page.mount <=> j = page.running

\* What becomes of the lock in runTask's finally: it is released by the run that
\* held it.
KeepsLock(j, job) ==
  IF job.pc = "over"
  THEN /\ Dispatching(jobs[j]) => job.held
       /\ job.held => Dispatching(jobs[j]) \/ fw.owner = "none"
  ELSE Dispatching(job) <=> Dispatching(jobs[j])

\* A run that is not over is put in the place of run j, with its page.
LEMMA PlaceHolds ==
  ASSUME TaskPageInv, NEW j \in Jobs, NEW job, NEW page,
         JobShape(job), RunFits(job), Seats(j, job.mount, page),
         jobs' = [jobs EXCEPT ![j] = job]
  PROVE  /\ jobs'[j] = job /\ \A k \in Jobs : k # j => jobs'[k] = jobs[k]
         /\ card'.mount = card.mount => RunsTyped'
         /\ card' = page => PageFits(card)'
         /\ card' = page /\ job.pc # "over" => OwnsRun(card, jobs)'
<1>1. /\ jobs = [k \in Jobs |-> jobs[k]]
      /\ \A k \in Jobs : JobShape(jobs[k]) /\ RunFits(jobs[k]) /\ jobs[k].mount <= card.mount
  BY DEF TaskPageInv, RunsTyped
<1>2. jobs'[j] = job /\ \A k \in Jobs : k # j => jobs'[k] = jobs[k]
  BY <1>1
<1>3. jobs' = [k \in Jobs |-> jobs'[k]]
  BY <1>1
<1>4. ASSUME card'.mount = card.mount PROVE RunsTyped'
  <2>1. \A k \in Jobs : JobShape(jobs'[k]) /\ RunFits(jobs'[k]) /\ jobs'[k].mount <= card'.mount
    BY <1>1, <1>2, <1>4 DEF Seats
  <2> QED
    BY <1>3, <2>1 DEF RunsTyped, JobShape, RunFits, Recipe, Dispatching
<1>5. ASSUME card' = page PROVE PageFits(card)'
  BY <1>5 DEF Seats, PageFits, CardShape, Catalogued
<1>6. ASSUME card' = page, job.pc # "over" PROVE OwnsRun(card, jobs)'
  BY <1>2, <1>6 DEF OwnsRun, Seats
<1> QED
  BY <1>2, <1>4, <1>5, <1>6

\* The step of a run with the finally of runTask.
LEMMA SettleHolds ==
  ASSUME TaskPageInv, NEW j \in Jobs, NEW job, NEW page,
         JobShape(job), RunFits(job), Seats(j, job.mount, page),
         KeepsLock(j, job), Settle(j, job, page)
  PROVE  TaskPageInv'
<1>1. jobs' = [jobs EXCEPT ![j] = job]
  BY DEF Settle
<1>2. /\ jobs'[j] = job /\ \A k \in Jobs : k # j => jobs'[k] = jobs[k]
      /\ card'.mount = card.mount => RunsTyped'
      /\ card' = page => PageFits(card)'
      /\ card' = page /\ job.pc # "over" => OwnsRun(card, jobs)'
  BY <1>1, PlaceHolds
<1>4. PageFits(page) /\ page.mount = card.mount
  BY DEF Seats
<1>5. CASE job.pc # "over"
  <2>1. card' = page /\ fw' = fw
    BY <1>5 DEF Settle
  <2>2. FirmwareShape'
    BY <2>1 DEF TaskPageInv, FirmwareShape
  <2>3. RunsTyped' /\ PageFits(card)' /\ OwnsRun(card, jobs)'
    BY <1>2, <1>4, <1>5, <2>1
  <2>6. \A k \in Jobs : Dispatching(jobs'[k]) <=> Dispatching(jobs[k])
    BY <1>2, <1>5 DEF KeepsLock
  <2>7. RunsAreExclusive'
    BY <2>1, <2>6 DEF TaskPageInv, RunsAreExclusive, Dispatching
  <2> QED
    BY <2>2, <2>3, <2>7 DEF TaskPageInv
<1>6. CASE job.pc = "over"
  <2> DEFINE mine == page.mounted /\ job.mount = page.mount
  <2>1. /\ fw' = [fw EXCEPT !.owner = IF job.held THEN "none" ELSE @]
        /\ card' = IF mine THEN [page EXCEPT !.busy = FALSE, !.running = 0] ELSE page
    BY <1>6 DEF Settle
  <2>2. FirmwareShape' /\ fw'.owner = IF job.held THEN "none" ELSE fw.owner
    BY <2>1 DEF TaskPageInv, FirmwareShape
  <2>3. CardShape(page) /\ page.mount = card.mount /\ card'.mount = card.mount
    BY <1>4, <2>1 DEF PageFits, CardShape
  <2>4. RunsTyped'
    BY <1>2, <2>3
  <2>5. mine => j = page.running /\ page.running # 0 /\ page.work = "none"
    BY <1>4, TaskPageAssumption DEF Seats, PageFits, Jobs
  <2>6. PageFits(card)'
    <3>1. CASE mine
      <4>1. /\ CardShape(card)' /\ card'.running = 0 /\ card'.busy = FALSE
            /\ card'.work = "none" /\ card'.catalog = page.catalog
        BY <2>1, <2>3, <2>5, <3>1 DEF CardShape
      <4> QED
        BY <1>4, <4>1 DEF PageFits, Catalogued
    <3>2. CASE ~mine
      BY <1>4, <2>1, <3>2 DEF PageFits, CardShape, Catalogued
    <3> QED
      BY <3>1, <3>2
  <2>7. OwnsRun(card, jobs)'
    <3>1. CASE mine
      <4>1. card'.running = 0 /\ card'.mount = page.mount
        BY <2>1, <2>3, <3>1 DEF CardShape
      <4>2. 0 \notin Jobs
        BY TaskPageAssumption DEF Jobs
      <4> QED
        BY <1>2, <1>6, <2>5, <3>1, <4>1, <4>2 DEF OwnsRun, Seats
    <3>2. CASE ~mine
      BY <1>2, <1>6, <2>1, <3>2 DEF OwnsRun, Seats
    <3> QED
      BY <3>1, <3>2
  <2>8. RunsAreExclusive'
    <3>1. ~Dispatching(job)
      BY <1>6 DEF Dispatching
    <3>2. CASE Dispatching(jobs[j])
      <4>1. job.held /\ \A k \in Jobs : Dispatching(jobs[k]) => k = j
        BY <1>6, <3>2 DEF KeepsLock, TaskPageInv, RunsAreExclusive
      <4>2. \A k \in Jobs : ~Dispatching(jobs'[k])
        BY <1>2, <3>1, <4>1
      <4>3. fw'.owner = "none"
        BY <2>2, <4>1
      <4> QED
        BY <4>2, <4>3 DEF RunsAreExclusive, Dispatching
    <3>3. CASE ~Dispatching(jobs[j])
      <4>1. \A k \in Jobs : Dispatching(jobs'[k]) <=> Dispatching(jobs[k])
        BY <1>2, <3>1, <3>3
      <4>2. fw'.owner = fw.owner
        BY <1>6, <2>2, <3>3 DEF KeepsLock
      <4> QED
        BY <4>1, <4>2 DEF TaskPageInv, RunsAreExclusive, Dispatching
    <3> QED
      BY <3>2, <3>3
  <2> QED
    BY <2>2, <2>4, <2>6, <2>7, <2>8 DEF TaskPageInv
<1> QED
  BY <1>5, <1>6

\* A run whose requests are known is refused, finds the lock taken, or takes it and
\* sends its first request (runTaskRequests, acquire).
LEMMA ConfirmHolds ==
  ASSUME TaskPageInv, NEW j \in Jobs, NEW job, NEW page,
         JobShape(job), Recipe(job), ~job.held, Seats(j, job.mount, page),
         ~Dispatching(jobs[j]), Confirm(j, job, page)
  PROVE  TaskPageInv'
<1>1. ASSUME NEW end \in {"refused", "locked"},
             Settle(j, [job EXCEPT !.pc = "over", !.ended = end], page)
      PROVE  TaskPageInv'
  <2> DEFINE t == [job EXCEPT !.pc = "over", !.ended = end]
  <2>1. JobShape(t) /\ SameRun(t, job) /\ t.pc = "over"
    BY DEF JobShape, SameRun
  <2>2. Settle(j, t, page)
    BY <1>1
  <2> HIDE DEF t
  <2>3. RunFits(t)
    BY <2>1 DEF RunFits, Recipe, SameRun, Dispatching
  <2>4. Seats(j, t.mount, page) /\ KeepsLock(j, t)
    BY <2>1 DEF SameRun, KeepsLock
  <2> QED
    BY <2>1, <2>2, <2>3, <2>4, SettleHolds
<1>2. CASE /\ fw.owner = "none"
           /\ LET held == JobSends([job EXCEPT !.held = TRUE], 1)
              IN IF held.pc = "over" THEN Settle(j, held, page)
                 ELSE /\ jobs' = [jobs EXCEPT ![j] = held]
                      /\ card' = page /\ fw' = [fw EXCEPT !.owner = "task"]
  <2> DEFINE locked == [job EXCEPT !.held = TRUE]
             t == JobSends(locked, 1)
  <2>1. /\ JobShape(locked) /\ locked.held = TRUE /\ locked.mount = job.mount
        /\ locked.id = job.id /\ locked.source = job.source /\ locked.reqs = job.reqs
        /\ locked.cleanup = job.cleanup
    BY DEF JobShape
  <2>2. /\ fw.owner = "none"
        /\ IF t.pc = "over" THEN Settle(j, t, page)
           ELSE /\ jobs' = [jobs EXCEPT ![j] = t]
                /\ card' = page /\ fw' = [fw EXCEPT !.owner = "task"]
    BY <1>2
  <2> HIDE DEF locked
  <2>3. JobShape(t) /\ SameRun(t, locked) /\ t.pc \in {"dispatch", "cleanup", "over"}
    BY <2>1, SendsFacts
  <2> HIDE DEF t
  <2>4. RunFits(t)
    BY <2>1, <2>3 DEF RunFits, Recipe, SameRun, Dispatching
  <2>5. Seats(j, t.mount, page)
    BY <2>1, <2>3 DEF SameRun
  <2>6. CASE t.pc = "over"
    <3>1. KeepsLock(j, t)
      BY <2>2, <2>6 DEF KeepsLock
    <3> QED
      BY <2>2, <2>3, <2>4, <2>5, <2>6, <3>1, SettleHolds
  <2>7. CASE t.pc # "over"
    <3>1. jobs' = [jobs EXCEPT ![j] = t] /\ card' = page /\ fw' = [fw EXCEPT !.owner = "task"]
      BY <2>2, <2>7
    <3>2. /\ jobs'[j] = t /\ \A k \in Jobs : k # j => jobs'[k] = jobs[k]
          /\ RunsTyped' /\ PageFits(card)' /\ OwnsRun(card, jobs)'
      BY <2>3, <2>4, <2>5, <2>7, <3>1, PlaceHolds DEF Seats
    <3>3. FirmwareShape' /\ fw'.owner = "task"
      BY <3>1 DEF TaskPageInv, FirmwareShape
    <3>4. Dispatching(jobs'[j]) /\ \A k \in Jobs : k # j => ~Dispatching(jobs'[k])
      BY <2>2, <2>3, <2>7, <3>2 DEF TaskPageInv, RunsAreExclusive, Dispatching
    <3>5. RunsAreExclusive'
      BY <3>3, <3>4 DEF RunsAreExclusive, Dispatching
    <3> QED
      BY <3>2, <3>3, <3>5 DEF TaskPageInv
  <2> QED
    BY <2>6, <2>7
<1> QED
  BY <1>1, <1>2 DEF Confirm

-----------------------------------------------------------------------------
(* The steps.                                                               *)

\* A step of a run that is not over seats it in the card as it was.
LEMMA SeatsSelf ==
  ASSUME TaskPageInv, NEW j \in Jobs, jobs[j].pc # "over"
  PROVE  /\ Seats(j, jobs[j].mount, card)
         /\ JobShape(jobs[j]) /\ RunFits(jobs[j])
  BY DEF TaskPageInv, RunsTyped, OwnsRun, Seats

\* A step that only goes on sending, or stops.
LEMMA GoesOnHolds ==
  ASSUME TaskPageInv, NEW j \in Jobs, Dispatching(jobs[j]), NEW t,
         JobShape(t), SameRun(t, jobs[j]), t.pc \in {"dispatch", "wait", "cleanup", "over"},
         Settle(j, t, card)
  PROVE  TaskPageInv'
<1>1. Seats(j, jobs[j].mount, card) /\ JobShape(jobs[j]) /\ RunFits(jobs[j])
  BY SeatsSelf DEF Dispatching
<1>2. RunFits(t)
  BY <1>1 DEF RunFits, Recipe, SameRun, Dispatching
<1>3. KeepsLock(j, t)
  BY <1>1 DEF RunFits, KeepsLock, SameRun, Dispatching
<1> QED
  BY <1>1, <1>2, <1>3, SettleHolds DEF SameRun

LEMMA RunClickedHolds ==
  ASSUME TaskPageInv, NEW j \in Jobs, NEW id \in Offered, RunClicked(j, id)
  PROVE  TaskPageInv'
<1> DEFINE job == [NoRunYet EXCEPT !.mount = card.mount, !.id = id]
           page == [card EXCEPT !.busy = TRUE, !.running = j]
<1>1. /\ card.mounted /\ ~card.busy /\ card.running = 0 /\ id \in Offered
      /\ jobs[j].pc = "new"
  BY DEF RunClicked
<1>2. j # 0
  BY TaskPageAssumption DEF Jobs
<1>3. PageFits(card) /\ card.mount \in Nat \ {0} /\ card.work = "none"
  BY <1>1 DEF TaskPageInv, PageFits, CardShape
<1>4. /\ CardShape(page) /\ page.mount = card.mount /\ page.mounted = card.mounted
      /\ page.busy = TRUE /\ page.running = j /\ page.work = card.work
      /\ page.catalog = card.catalog
  BY <1>3 DEF PageFits, CardShape
<1>5. /\ JobShape(job) /\ job.mount = card.mount /\ job.id = id /\ job.pc = "new"
      /\ job.source = "none" /\ job.held = FALSE /\ job.cleanup = <<>>
  BY <1>3 DEF JobShape, NoRunYet
<1>6. Seats(j, card.mount, page)
  <2> HIDE DEF page, job
  <2>1. PageFits(page)
    BY <1>1, <1>2, <1>3, <1>4 DEF PageFits
  <2>2. \A k \in Jobs : ~(jobs[k].mount = card.mount /\ jobs[k].pc # "over")
    BY <1>1, TaskPageAssumption DEF TaskPageInv, OwnsRun, Jobs
  <2>3. card.mount <= card.mount
    BY <1>3
  <2> QED
    BY <1>4, <2>1, <2>2, <2>3 DEF Seats
<1>7. IF id \in Ids(card.catalog)
      THEN LET task == Find(card.catalog, id)
           IN Confirm(j, [job EXCEPT !.source = "builtin", !.reqs = task.reqs,
                                     !.cleanup = task.cleanup], page)
      ELSE IF id \in BuiltinIds
      THEN Settle(j, [job EXCEPT !.pc = "over", !.ended = "unavailable"], page)
      ELSE /\ jobs' = [jobs EXCEPT ![j] = [job EXCEPT !.pc = "fetch"]]
           /\ card' = page /\ UNCHANGED fw
  BY DEF RunClicked
<1> HIDE DEF job, page
<1>8. ~Dispatching(jobs[j])
  BY <1>1 DEF Dispatching
<1>9. CASE id \in Ids(card.catalog)
  <2> DEFINE task == Find(card.catalog, id)
             t == [job EXCEPT !.source = "builtin", !.reqs = task.reqs,
                              !.cleanup = task.cleanup]
  <2>1. JobShape(t) /\ t.mount = job.mount /\ t.id = id /\ t.source = "builtin"
        /\ t.reqs = Find(card.catalog, id).reqs /\ t.held = FALSE
    BY <1>5 DEF JobShape
  <2>2. Confirm(j, t, page)
    BY <1>7, <1>9
  <2> HIDE DEF t
  <2>3. Catalogued(card.catalog)
    BY <1>3 DEF PageFits
  <2>4. PICK c \in Catalogs : ParseCatalog(c) # <<>> /\ card.catalog = ParseCatalog(c)
    BY <1>9, <2>3, CatalogFacts DEF Catalogued
  <2>5. card.catalog = c
    BY <2>4, CatalogFacts
  <2>6. Recipe(t)
    BY <1>9, <2>1, <2>4, <2>5 DEF Recipe
  <2> QED
    BY <1>5, <1>6, <1>8, <2>1, <2>2, <2>6, ConfirmHolds
<1>10. CASE id \notin Ids(card.catalog) /\ id \in BuiltinIds
  <2> DEFINE t == [job EXCEPT !.pc = "over", !.ended = "unavailable"]
  <2>1. JobShape(t) /\ SameRun(t, job) /\ t.pc = "over"
    BY <1>5 DEF JobShape, SameRun
  <2>2. Settle(j, t, page)
    BY <1>7, <1>10
  <2> HIDE DEF t
  <2>3. RunFits(t) /\ KeepsLock(j, t)
    BY <1>5, <1>8, <2>1 DEF RunFits, Recipe, SameRun, Dispatching, KeepsLock
  <2> QED
    BY <1>5, <1>6, <2>1, <2>2, <2>3, SettleHolds DEF SameRun
<1>11. CASE id \notin Ids(card.catalog) /\ id \notin BuiltinIds
  <2> DEFINE t == [job EXCEPT !.pc = "fetch"]
  <2>1. JobShape(t) /\ SameRun(t, job) /\ t.pc = "fetch"
    BY <1>5 DEF JobShape, SameRun
  <2>2. jobs' = [jobs EXCEPT ![j] = t] /\ card' = page /\ fw' = fw
    BY <1>7, <1>11
  <2> HIDE DEF t
  <2>3. RunFits(t)
    BY <1>5, <1>11, <2>1 DEF RunFits, Recipe, SameRun, Dispatching
  <2>4. Seats(j, t.mount, page)
    BY <1>5, <1>6, <2>1 DEF SameRun
  <2>5. /\ jobs'[j] = t /\ \A k \in Jobs : k # j => jobs'[k] = jobs[k]
        /\ RunsTyped' /\ PageFits(card)' /\ OwnsRun(card, jobs)'
    BY <1>4, <2>1, <2>2, <2>3, <2>4, PlaceHolds
  <2>6. FirmwareShape'
    BY <2>2 DEF TaskPageInv, FirmwareShape
  <2>7. \A k \in Jobs : Dispatching(jobs'[k]) <=> Dispatching(jobs[k])
    BY <1>8, <2>1, <2>5 DEF Dispatching
  <2>8. RunsAreExclusive'
    BY <2>2, <2>7 DEF TaskPageInv, RunsAreExclusive, Dispatching
  <2> QED
    BY <2>5, <2>6, <2>8 DEF TaskPageInv
<1> QED
  BY <1>9, <1>10, <1>11

LEMMA ResolvedHolds ==
  ASSUME TaskPageInv, NEW j \in Jobs, Resolved(j)
  PROVE  TaskPageInv'
<1>1. jobs[j].pc = "fetch"
  BY DEF Resolved
<1>2. /\ Seats(j, jobs[j].mount, card) /\ JobShape(jobs[j]) /\ RunFits(jobs[j])
      /\ ~Dispatching(jobs[j])
  BY <1>1, SeatsSelf DEF Dispatching
<1>3. CASE Settle(j, [jobs[j] EXCEPT !.pc = "over", !.ended = "unresolved"], card)
  <2> DEFINE t == [jobs[j] EXCEPT !.pc = "over", !.ended = "unresolved"]
  <2>1. JobShape(t) /\ SameRun(t, jobs[j]) /\ t.pc = "over"
    BY <1>2 DEF JobShape, SameRun
  <2>2. Settle(j, t, card)
    BY <1>3
  <2> HIDE DEF t
  <2>3. RunFits(t) /\ KeepsLock(j, t)
    BY <1>1, <1>2, <2>1 DEF RunFits, Recipe, SameRun, Dispatching, KeepsLock
  <2> QED
    BY <1>2, <2>1, <2>2, <2>3, SettleHolds DEF SameRun
<1>4. ASSUME NEW plan, NEW reqs, NEW tasks,
             Confirm(j, [jobs[j] EXCEPT !.source = "stored", !.plan = plan, !.reqs = reqs],
                     [card EXCEPT !.tasks = tasks])
      PROVE  TaskPageInv'
  <2> DEFINE t == [jobs[j] EXCEPT !.source = "stored", !.plan = plan, !.reqs = reqs]
             page == [card EXCEPT !.tasks = tasks]
  <2>1. /\ JobShape(t) /\ t.mount = jobs[j].mount /\ t.id = jobs[j].id /\ t.source = "stored"
        /\ t.cleanup = jobs[j].cleanup /\ t.held = jobs[j].held
    BY <1>2 DEF JobShape
  <2>2. CardShape(card)
    BY DEF TaskPageInv, PageFits
  <2>3. /\ CardShape(page) /\ page.mount = card.mount /\ page.mounted = card.mounted
        /\ page.busy = card.busy /\ page.running = card.running /\ page.work = card.work
        /\ page.catalog = card.catalog
    BY <2>2 DEF CardShape
  <2>4. Confirm(j, t, page)
    BY <1>4
  <2> HIDE DEF t, page
  <2>5. Recipe(t) /\ ~t.held
    BY <1>1, <1>2, <2>1 DEF RunFits, Recipe
  <2>6. Seats(j, t.mount, page)
    BY <1>2, <2>1, <2>3 DEF Seats, PageFits
  <2> QED
    BY <1>2, <2>1, <2>4, <2>5, <2>6, ConfirmHolds
<1> QED
  BY <1>3, <1>4 DEF Resolved

LEMMA RunsHold ==
  ASSUME TaskPageInv, NEW j \in Jobs, DispatchEnds(j) \/ WaitIsOver(j) \/ CleanupEnds(j)
  PROVE  TaskPageInv'
<1>1. jobs[j].pc \in {"dispatch", "wait", "cleanup"} /\ Dispatching(jobs[j])
  BY DEF DispatchEnds, WaitIsOver, CleanupEnds, Dispatching
<1>2. JobShape(jobs[j])
  BY DEF TaskPageInv, RunsTyped
<1>3. CASE Settle(j, JobAnswered(jobs[j]), card)
  BY <1>1, <1>2, <1>3, AnsweredFacts, GoesOnHolds
<1>4. CASE Settle(j, JobRejected(jobs[j]), card)
  BY <1>1, <1>2, <1>4, EndsFacts, GoesOnHolds DEF JobRejected
<1>5. CASE Settle(j, JobSends(jobs[j], jobs[j].at + 1), card)
  BY <1>1, <1>2, <1>5, SendsFacts, GoesOnHolds
<1>6. CASE Settle(j, [jobs[j] EXCEPT !.pc = "over"], card)
  <2> DEFINE t == [jobs[j] EXCEPT !.pc = "over"]
  <2>1. JobShape(t) /\ SameRun(t, jobs[j]) /\ t.pc = "over"
    BY <1>2 DEF JobShape, SameRun
  <2>2. Settle(j, t, card)
    BY <1>6
  <2> HIDE DEF t
  <2> QED
    BY <1>1, <2>1, <2>2, GoesOnHolds
<1> QED
  BY <1>3, <1>4, <1>5, <1>6 DEF DispatchEnds, WaitIsOver, CleanupEnds

LEMMA CancelTaskHolds ==
  ASSUME TaskPageInv, CancelTask
  PROVE  TaskPageInv'
<1> DEFINE j == card.running
<1>1. j # 0 /\ Dispatching(jobs[j]) /\ Settle(j, AbortJob(jobs[j]), card)
  BY DEF CancelTask
<1>2. j \in Jobs
  BY <1>1 DEF TaskPageInv, PageFits, CardShape
<1> HIDE DEF j
<1>3. JobShape(jobs[j])
  BY <1>2 DEF TaskPageInv, RunsTyped
<1> QED
  BY <1>1, <1>2, <1>3, AbortFacts, GoesOnHolds DEF Dispatching

\* Leaving the card aborts its run, which goes on behind it (the cleanup of the
\* effect of useTaskRun).
LEMMA LeaveHolds ==
  ASSUME TaskPageInv, Leave
  PROVE  TaskPageInv'
<1> DEFINE j == card.running
           gone == [CardOpened(card.mount) EXCEPT !.mounted = FALSE, !.refresh = FALSE]
<1>1. /\ card.mounted
      /\ IF j = 0 THEN card' = gone /\ UNCHANGED <<jobs, fw>>
         ELSE Settle(j, AbortJob(jobs[j]), gone)
  BY DEF Leave
<1>2. card.mount \in Nat \ {0} /\ j \in Jobs \cup {0}
  BY DEF TaskPageInv, PageFits, CardShape
<1>3. /\ CardShape(gone) /\ gone.mount = card.mount /\ gone.mounted = FALSE
      /\ gone.running = 0 /\ gone.catalog = <<>>
  BY <1>2 DEF CardOpened, CardShape
<1> HIDE DEF j, gone
<1>4. PageFits(gone)
  BY <1>3 DEF PageFits, Catalogued
<1>5. CASE j = 0
  <2>1. card' = gone /\ jobs' = jobs /\ fw' = fw
    BY <1>1, <1>5
  <2>2. FirmwareShape' /\ RunsAreExclusive'
    BY <2>1 DEF TaskPageInv, FirmwareShape, RunsAreExclusive, Dispatching
  <2>3. RunsTyped'
    BY <1>3, <2>1 DEF TaskPageInv, RunsTyped, JobShape, RunFits, Recipe, Dispatching
  <2>4. PageFits(card)' /\ OwnsRun(card, jobs)'
    BY <1>3, <1>4, <2>1 DEF PageFits, CardShape, Catalogued, OwnsRun
  <2> QED
    BY <2>2, <2>3, <2>4 DEF TaskPageInv
<1>6. CASE j # 0
  <2>1. j \in Jobs /\ Settle(j, AbortJob(jobs[j]), gone)
    BY <1>1, <1>2, <1>6
  <2>2. JobShape(jobs[j]) /\ RunFits(jobs[j]) /\ jobs[j].mount <= card.mount
    BY <2>1 DEF TaskPageInv, RunsTyped
  <2>3. jobs[j].pc # "over"
    BY <1>1, <2>1 DEF TaskPageInv, OwnsRun, j
  <2>4. PICK t : t = AbortJob(jobs[j])
    OBVIOUS
  <2>5. /\ JobShape(t) /\ SameRun(t, jobs[j])
        /\ t.pc = jobs[j].pc \/ (jobs[j].pc = "wait" /\ t.pc \in {"cleanup", "over"})
    BY <2>2, <2>4, AbortFacts
  <2>6. RunFits(t)
    BY <2>2, <2>5 DEF RunFits, Recipe, SameRun, Dispatching
  <2>7. KeepsLock(j, t)
    BY <2>2, <2>3, <2>5 DEF KeepsLock, RunFits, SameRun, Dispatching
  <2>8. Seats(j, t.mount, gone)
    BY <1>3, <1>4, <2>2, <2>5 DEF Seats, SameRun
  <2> QED
    BY <2>1, <2>4, <2>5, <2>6, <2>7, <2>8, SettleHolds
<1> QED
  BY <1>5, <1>6

LEMMA OpenCardHolds ==
  ASSUME TaskPageInv, OpenCard
  PROVE  TaskPageInv'
<1> DEFINE page == CardOpened(card.mount + 1)
<1>1. ~card.mounted /\ card' = page /\ jobs' = jobs /\ fw' = fw
  BY DEF OpenCard
<1>2. card.mount \in Nat \ {0}
  BY DEF TaskPageInv, PageFits, CardShape
<1>3. /\ CardShape(page) /\ page.mount = card.mount + 1 /\ page.mounted = TRUE
      /\ page.running = 0 /\ page.busy = FALSE /\ page.work = "none" /\ page.catalog = <<>>
  BY <1>2 DEF CardOpened, CardShape
<1> HIDE DEF page
<1>4. PageFits(card)'
  BY <1>1, <1>3 DEF PageFits, CardShape, Catalogued
<1>5. \A j \in Jobs : jobs[j].mount \in Nat /\ jobs[j].mount <= card.mount
  BY DEF TaskPageInv, RunsTyped, JobShape
<1>6. \A j \in Jobs : jobs[j].mount <= page.mount /\ jobs[j].mount # page.mount
  BY <1>2, <1>3, <1>5
<1>7. RunsTyped'
  BY <1>1, <1>6 DEF TaskPageInv, RunsTyped, JobShape, RunFits, Recipe, Dispatching
<1>8. OwnsRun(card, jobs)'
  BY <1>1, <1>3, <1>6, TaskPageAssumption DEF OwnsRun, Jobs
<1>9. FirmwareShape' /\ RunsAreExclusive'
  BY <1>1 DEF TaskPageInv, FirmwareShape, RunsAreExclusive, Dispatching
<1> QED
  BY <1>4, <1>7, <1>8, <1>9 DEF TaskPageInv

\* A step of the card and of the firmware that leaves the runs alone.
LEMMA CardOnlyHolds ==
  ASSUME TaskPageInv, jobs' = jobs, NEW page, card' = page, PageFits(page),
         page.mount = card.mount, page.mounted = card.mounted, page.running = card.running,
         FirmwareShape', fw'.owner = fw.owner
  PROVE  TaskPageInv'
<1>1. PageFits(card)'
  BY DEF PageFits, CardShape, Catalogued
<1>2. RunsTyped'
  BY DEF TaskPageInv, RunsTyped, JobShape, RunFits, Recipe, Dispatching
<1>3. OwnsRun(card, jobs)' /\ RunsAreExclusive'
  BY DEF TaskPageInv, OwnsRun, RunsAreExclusive, Dispatching
<1> QED
  BY <1>1, <1>2, <1>3 DEF TaskPageInv

LEMMA CardFacts ==
  ASSUME TaskPageInv
  PROVE  /\ PageFits(card) /\ CardShape(card) /\ FirmwareShape
         /\ 0 \notin Jobs
         /\ card.work # "none" => card.running = 0
  BY TaskPageAssumption DEF TaskPageInv, PageFits, Jobs

LEMMA RefreshHolds ==
  ASSUME TaskPageInv, NEW page, PageFits(page), page.mount = card.mount,
         page.mounted = card.mounted, page.running = card.running,
         Refreshed(page), UNCHANGED <<jobs, fw>>
  PROVE  TaskPageInv'
<1>1. PICK catalog \in Catalogs \cup {<<>>}, tasks \in {page.tasks, ParseList(fw.blob, page.tasks)} :
        card' = [page EXCEPT !.catalog = ParseCatalog(catalog), !.tasks = tasks]
  BY DEF Refreshed
<1> DEFINE seen == ParseCatalog(catalog)
           new == [page EXCEPT !.catalog = seen, !.tasks = tasks]
<1>2. Catalogued(seen)
  BY CatalogFacts
<1> HIDE DEF seen
<1>3. CardShape(page)
  BY DEF PageFits
<1>4. /\ CardShape(new) /\ new.mount = page.mount /\ new.mounted = page.mounted
      /\ new.busy = page.busy /\ new.running = page.running /\ new.work = page.work
      /\ new.catalog = seen
  BY <1>3 DEF CardShape
<1>5. card' = new
  BY <1>1 DEF seen
<1> HIDE DEF new
<1>6. PageFits(new)
  BY <1>2, <1>4 DEF PageFits
<1>7. FirmwareShape' /\ fw'.owner = fw.owner
  BY CardFacts DEF FirmwareShape
<1> QED
  BY <1>4, <1>5, <1>6, <1>7, CardOnlyHolds

\* The list and the catalog are asked for, and answered.
LEMMA RefreshesHold ==
  ASSUME TaskPageInv, RefreshClicked \/ RefreshAnswered
  PROVE  TaskPageInv'
<1>1. PICK refresh \in BOOLEAN :
        LET page == [card EXCEPT !.refresh = refresh]
        IN /\ UNCHANGED <<jobs, fw>>
           /\ card' = page \/ Refreshed(page)
  BY DEF RefreshClicked, RefreshAnswered
<1> DEFINE page == [card EXCEPT !.refresh = refresh]
<1>2. PageFits(card) /\ CardShape(card)
  BY CardFacts
<1>3. /\ CardShape(page) /\ page.mount = card.mount /\ page.mounted = card.mounted
      /\ page.busy = card.busy /\ page.running = card.running /\ page.work = card.work
      /\ page.catalog = card.catalog
  BY <1>2 DEF CardShape
<1>4. UNCHANGED <<jobs, fw>> /\ (card' = page \/ Refreshed(page))
  BY <1>1
<1> HIDE DEF page
<1>5. PageFits(page)
  BY <1>2, <1>3 DEF PageFits
<1>6. FirmwareShape' /\ fw'.owner = fw.owner
  BY <1>4, CardFacts DEF FirmwareShape
<1> QED
  BY <1>3, <1>4, <1>5, <1>6, RefreshHolds, CardOnlyHolds

\* Store and clear (runBusy).
LEMMA WorksHolds ==
  ASSUME TaskPageInv, NEW blob, NEW plan, Works(blob, plan)
  PROVE  TaskPageInv'
<1> DEFINE page == [card EXCEPT !.busy = TRUE, !.work = "send", !.put = blob, !.plan = plan]
<1>1. card.mounted /\ ~card.busy /\ card' = page /\ UNCHANGED <<jobs, fw>>
  BY DEF Works
<1>2. PageFits(card) /\ CardShape(card) /\ card.running = 0
  BY <1>1, CardFacts DEF PageFits
<1>3. /\ CardShape(page) /\ page.mount = card.mount /\ page.mounted = card.mounted
      /\ page.busy = TRUE /\ page.running = card.running /\ page.work = "send"
      /\ page.catalog = card.catalog
  BY <1>2 DEF CardShape
<1> HIDE DEF page
<1>4. PageFits(page)
  BY <1>2, <1>3 DEF PageFits
<1>5. FirmwareShape' /\ fw'.owner = fw.owner
  BY <1>1, CardFacts DEF FirmwareShape
<1> QED
  BY <1>1, <1>3, <1>4, <1>5, CardOnlyHolds

\* What Idle leaves of a card whose action is under way.
LEMMA IdleFacts ==
  ASSUME TaskPageInv, card.work # "none"
  PROVE  PageFits(Idle) /\ Idle.mount = card.mount /\ Idle.mounted = card.mounted
         /\ Idle.running = card.running
<1>1. PageFits(card) /\ CardShape(card) /\ card.running = 0
  BY CardFacts
<1>2. /\ CardShape(Idle) /\ Idle.mount = card.mount /\ Idle.mounted = card.mounted
      /\ Idle.busy = FALSE /\ Idle.running = card.running /\ Idle.work = "none"
      /\ Idle.catalog = card.catalog
  BY <1>1 DEF Idle, CardShape
<1> QED
  BY <1>1, <1>2 DEF PageFits

LEMMA WorkAnsweredHolds ==
  ASSUME TaskPageInv, WorkAnswered
  PROVE  TaskPageInv'
<1> DEFINE page == [card EXCEPT !.work = "refresh", !.put = <<>>, !.plan = <<>>]
<1>1. /\ card.mounted /\ card.work = "send" /\ jobs' = jobs
      /\ card' = page \/ card' = Idle
      /\ Store(card.put, card.plan) \/ UNCHANGED fw
  BY DEF WorkAnswered
<1>2. PageFits(card) /\ CardShape(card)
  BY CardFacts
<1>3. /\ CardShape(page) /\ page.mount = card.mount /\ page.mounted = card.mounted
      /\ page.busy = card.busy /\ page.running = card.running /\ page.work = "refresh"
      /\ page.catalog = card.catalog
  BY <1>2 DEF CardShape
<1> HIDE DEF page
<1>4. PageFits(page)
  BY <1>1, <1>2, <1>3, CardFacts DEF PageFits
<1>5. FirmwareShape' /\ fw'.owner = fw.owner
  BY <1>1, CardFacts DEF FirmwareShape, Store
<1>6. CASE card' = page
  BY <1>1, <1>3, <1>4, <1>5, <1>6, CardOnlyHolds
<1>7. CASE card' = Idle
  BY <1>1, <1>5, <1>7, IdleFacts, CardOnlyHolds
<1> QED
  BY <1>1, <1>6, <1>7

LEMMA WorkRefreshedHolds ==
  ASSUME TaskPageInv, WorkRefreshed
  PROVE  TaskPageInv'
<1>1. card.work = "refresh" /\ Refreshed(Idle) /\ UNCHANGED <<jobs, fw>>
  BY DEF WorkRefreshed
<1>2. PageFits(Idle) /\ Idle.mount = card.mount /\ Idle.mounted = card.mounted
      /\ Idle.running = card.running
  BY <1>1, IdleFacts
<1> QED
  BY <1>1, <1>2, RefreshHolds

LEMMA OtherStoresHolds ==
  ASSUME TaskPageInv, OtherStores
  PROVE  TaskPageInv'
<1>1. card' = card /\ jobs' = jobs
  BY DEF OtherStores
<1>2. FirmwareShape' /\ fw'.owner = fw.owner
  BY CardFacts DEF OtherStores, Store, FirmwareShape
<1> QED
  BY <1>1, <1>2, CardFacts, CardOnlyHolds

-----------------------------------------------------------------------------
LEMMA TaskPageInitHolds == TaskPageInit => TaskPageInv
<1> SUFFICES ASSUME TaskPageInit PROVE TaskPageInv
  OBVIOUS
<1> DEFINE page == CardOpened(1)
<1>1. card = page /\ jobs = [j \in Jobs |-> NoRunYet]
      /\ fw = [blob |-> <<>>, plan |-> <<>>, owner |-> "none", changes |-> 0]
  BY DEF TaskPageInit
<1>2. /\ CardShape(page) /\ page.mount = 1 /\ page.mounted = TRUE
      /\ page.running = 0 /\ page.busy = FALSE /\ page.work = "none" /\ page.catalog = <<>>
  BY DEF CardOpened, CardShape
<1> HIDE DEF page
<1>3. PageFits(card)
  BY <1>1, <1>2 DEF PageFits, Catalogued
<1>4. /\ JobShape(NoRunYet) /\ RunFits(NoRunYet) /\ NoRunYet.mount = 0 /\ NoRunYet.pc = "new"
      /\ ~Dispatching(NoRunYet)
  BY DEF NoRunYet, JobShape, RunFits, Recipe, Dispatching
<1>5. \A j \in Jobs : jobs[j] = NoRunYet
  BY <1>1
<1>6. jobs = [j \in Jobs |-> jobs[j]]
  BY <1>1
<1>7. RunsTyped
  BY <1>1, <1>2, <1>4, <1>5, <1>6 DEF RunsTyped
<1>8. OwnsRun(card, jobs)
  BY <1>1, <1>2, <1>4, <1>5, TaskPageAssumption DEF OwnsRun, Jobs
<1>9. FirmwareShape /\ RunsAreExclusive
  BY <1>1, <1>4, <1>5 DEF FirmwareShape, RunsAreExclusive
<1> QED
  BY <1>3, <1>7, <1>8, <1>9 DEF TaskPageInv

LEMMA TaskPageStepHolds == TaskPageInv /\ [TaskPageNext]_taskPageVars => TaskPageInv'
<1> SUFFICES ASSUME TaskPageInv, [TaskPageNext]_taskPageVars PROVE TaskPageInv'
  OBVIOUS
<1>1. CASE UNCHANGED taskPageVars
  BY <1>1, CardFacts, CardOnlyHolds DEF taskPageVars, FirmwareShape
<1>2. ASSUME NEW j \in Jobs, JobStep(j) PROVE TaskPageInv'
  BY <1>2, ResolvedHolds, RunsHold DEF JobStep
<1>3. ASSUME NEW j \in Jobs, NEW id \in Offered, RunClicked(j, id) PROVE TaskPageInv'
  BY <1>3, RunClickedHolds
<1>4. CASE CancelTask \/ Leave \/ OpenCard
  BY <1>4, CancelTaskHolds, LeaveHolds, OpenCardHolds
<1>5. CASE RefreshClicked \/ RefreshAnswered
  BY <1>5, RefreshesHold
<1>6. CASE StoreClicked \/ ClearClicked
  BY <1>6, WorksHolds DEF StoreClicked, ClearClicked
<1>7. CASE WorkAnswered \/ WorkRefreshed \/ OtherStores
  BY <1>7, WorkAnsweredHolds, WorkRefreshedHolds, OtherStoresHolds
<1> QED
  BY <1>1, <1>2, <1>3, <1>4, <1>5, <1>6, <1>7 DEF TaskPageNext

\* The inductive invariant of the task card, whatever its blobs are parsed to.
THEOREM TaskPageInvariant == TaskPageFairSpec => []TaskPageInv
<1>1. TaskPageInit => TaskPageInv
  BY TaskPageInitHolds
<1>2. TaskPageInv /\ [TaskPageNext]_taskPageVars => TaskPageInv'
  BY TaskPageStepHolds
<1> QED
  BY <1>1, <1>2, PTL DEF TaskPageFairSpec

\* No two runs send at the same time, on whichever mounts of the card they were
\* started: each holds the automation lock while it sends and cleans up (useTaskRun).
THEOREM TaskRunsExclusive == TaskPageFairSpec => []RunsAreExclusive
<1>1. TaskPageInv => RunsAreExclusive
  BY DEF TaskPageInv
<1> QED
  BY <1>1, TaskPageInvariant, PTL

\* A run of the firmware's namespace has a recipe the firmware announced; what is
\* stored never stands in for it, and never has a cleanup (resolveTaskRunSnapshot).
THEOREM TaskRecipesOwn == TaskPageFairSpec => []RecipesAreFirmwares
<1>1. ASSUME TaskPageInv PROVE RecipesAreFirmwares
  <2>1. \A j \in Jobs : Recipe(jobs[j])
    BY <1>1 DEF TaskPageInv, RunsTyped, RunFits
  <2> QED
    BY <2>1 DEF Recipe, RecipesAreFirmwares
<1> QED
  BY <1>1, TaskPageInvariant, PTL

\* The card is busy exactly while its own run or action is under way, whatever the
\* mounts before it left behind (TaskCard's busy and runningRef).
THEOREM TaskCardBusy == TaskPageFairSpec => []BusyWhileWorking
<1>1. TaskPageInv => BusyWhileWorking
  BY DEF TaskPageInv, PageFits, OwnsRun, BusyWhileWorking
<1> QED
  BY <1>1, TaskPageInvariant, PTL
=============================================================================
