----------------------------- MODULE SerialLink -----------------------------
(***************************************************************************)
(* The sessions of the two serial channels of the page (SerialCard.tsx,    *)
(* SerialTerminalPane.tsx): a channel is connected over Web Serial, to a   *)
(* port the user grants, or over the socket of the host's broker, and is   *)
(* disconnected by its button, by the broker, by the loss of the device,   *)
(* or because the voltage that both channels share is about to change.     *)
(*                                                                         *)
(* A connect and a disconnect are calls that wait; what they read before   *)
(* they wait may be another channel's or another session's behind it.      *)
(* Code between two waits is one step.                                     *)
(***************************************************************************)
EXTENDS Integers, Sequences, FiniteSets

CONSTANTS
  LinkModes,   \* what takes part: channels (chans), whether they have Web
               \* Serial (web) and a broker (bridge), and the bounds of
               \* sockets, calls and writes
  Ports        \* the serial ports of the adapter

(* The state:
     pane      of each channel: source, the session that is shown, and live,
               the one the code goes by (sourceRef): none | web | bridge;
               connecting; port, ws and pending, what belongs to the session
               (portRef, wsRef, brokerPendingRequestsRef); locked, another
               client of the broker owns the channel; auto, a test runs on it;
               gen, of writes (writeGenerationRef); session, counts sessions;
               queued, a write behind the one that is pending
     assigned  the port each channel keeps (assignedPortsRef), 0 is none
     granted, present, opened   ports the user granted, that are plugged in,
               and that the page has open
     sockets   those made so far: connecting | open | subscribed | closed
     calls     connects over Web Serial and disconnects that wait
     vio       idle | off | set, the change of the voltage; off waits for the
               disconnects of vio.wait, set for the debugger
     hurried   the voltage was changed while a channel was being connected, or
               a channel was connected while it was changed, or over Web Serial
               while the socket of a refused connect was still there
     mixed     a write was sent in another session than it was asked in *)
VARIABLES linkMode, pane, assigned, granted, present, opened, sockets, calls,
          vio, hurried, mixed

ports == <<assigned, granted, present, opened>>
serialLinkVars == <<linkMode, pane, ports, sockets, calls, vio, hurried, mixed>>

NewPane ==
  [source |-> "none", live |-> "none", connecting |-> FALSE, port |-> 0, ws |-> 0,
   pending |-> {}, locked |-> FALSE, auto |-> FALSE, gen |-> 0, session |-> 0,
   queued |-> <<>>]
NoVio == [pc |-> "idle", wait |-> {}]

SessionInit ==
  /\ linkMode \in LinkModes
  /\ pane = [c \in linkMode.chans |-> NewPane]
  /\ assigned = [c \in linkMode.chans |-> 0]
  /\ granted = {} /\ present = Ports /\ opened = {}
  /\ sockets = <<>> /\ calls = <<>>
  /\ vio = NoVio /\ hurried = FALSE /\ mixed = FALSE

Open(s) == s # 0 /\ sockets[s].state \in {"open", "subscribed"}
CallsWait == {i \in DOMAIN calls : calls[i].pc # "over"}
RoomFor(n) == Len(calls) + n <= linkMode.calls
ChannelOf(s) == sockets[s].chan

(* setSource(null): the effect follows the state when that changes.         *)
Unshown(p) ==
  [p EXCEPT !.source = "none", !.live = IF p.source = "none" THEN @ ELSE "none"]

-----------------------------------------------------------------------------
(* Disconnecting.                                                           *)

(* The references of the pane, and what waits for the broker, are given up; *)
(* a write that is queued finds another generation or no session.           *)
PaneCleared(p) ==
  [p EXCEPT !.port = 0, !.ws = 0, !.connecting = FALSE, !.locked = FALSE,
            !.pending = {}, !.queued = <<>>]

Asks(p, notify) == notify /\ p.live = "bridge" /\ Open(p.ws)

(* disconnect, up to its first wait: the broker is asked to close, or the   *)
(* pane is cleared and the port closed.                                     *)
OffPane(p, notify, i) ==
  LET left == [p EXCEPT !.live = "none", !.gen = @ + 1]
  IN IF Asks(p, notify)
     THEN [left EXCEPT !.pending = @ \cup {[ws |-> p.ws, call |-> i]}]
     ELSE IF p.port # 0 THEN PaneCleared(left) ELSE Unshown(PaneCleared(left))

OffCall(p, c, notify, physical) ==
  [chan |-> c, port |-> p.port, ws |-> p.ws, physical |-> physical,
   pc |-> IF Asks(p, notify) THEN "notify" ELSE IF p.port # 0 THEN "close" ELSE "over"]

Closed(set) ==
  [s \in DOMAIN sockets |-> IF s \in set THEN [sockets[s] EXCEPT !.state = "closed"] ELSE sockets[s]]
EndedBy(call) == IF call.pc = "over" THEN {call.ws} ELSE {}

(* A call i of the channel goes on as a disconnect.                         *)
GoesOff(i, c, p, notify, physical) ==
  LET call == OffCall(p, c, notify, physical)
  IN /\ pane' = [pane EXCEPT ![c] = OffPane(p, notify, i)]
     /\ calls' = [j \in 1..Len(calls) \cup {i} |-> IF j = i THEN call ELSE calls[j]]
     /\ sockets' = Closed(EndedBy(call))

Disconnect(c) ==
  /\ RoomFor(1)
  /\ pane[c].source # "none" /\ ~pane[c].auto /\ ~pane[c].connecting
  /\ GoesOff(Len(calls) + 1, c, pane[c], TRUE, FALSE)
  /\ UNCHANGED <<linkMode, ports, vio, hurried, mixed>>

(* The broker has answered the close, or has not in time, or is gone.       *)
NotifyEnds(i) ==
  LET c == calls[i].chan
      held == calls[i].port # 0
  IN /\ calls[i].pc = "notify"
     /\ pane' = [pane EXCEPT ![c] = IF held THEN PaneCleared(@) ELSE Unshown(PaneCleared(@))]
     /\ calls' = [calls EXCEPT ![i].pc = IF held THEN "close" ELSE "over"]
     /\ sockets' = Closed(IF held THEN {} ELSE {calls[i].ws})
     /\ UNCHANGED <<linkMode, ports, vio, hurried, mixed>>

(* The port is closed; one that is being opened cannot be, which is known  *)
(* at once.                                                                *)
PortCloses(i) ==
  LET c == calls[i].chan
  IN /\ calls[i].pc = "close"
     /\ opened' = opened \ {calls[i].port}
     /\ assigned' = IF calls[i].physical /\ assigned[c] = calls[i].port
                    THEN [assigned EXCEPT ![c] = 0] ELSE assigned
     /\ pane' = [pane EXCEPT ![c] = Unshown(@)]
     /\ sockets' = Closed({calls[i].ws})
     /\ calls' = [calls EXCEPT ![i].pc = "over"]
     /\ UNCHANGED <<linkMode, granted, present, vio, hurried, mixed>>

-----------------------------------------------------------------------------
(* Web Serial.                                                              *)

CanConnect(c) == pane[c].source = "none" /\ ~pane[c].connecting /\ ~pane[c].auto
(* A socket of an earlier connect that the broker refused may still be there. *)
Hurries(c, web) == hurried' = (hurried \/ vio.pc # "idle" \/ (web /\ pane[c].ws # 0))

ConnectWeb(c) ==
  /\ linkMode.web /\ RoomFor(1) /\ CanConnect(c)
  /\ LET port == assigned[c]
     IN /\ pane' = [pane EXCEPT ![c].connecting = TRUE, ![c].port = IF port # 0 THEN port ELSE @]
        /\ calls' = Append(calls, [chan |-> c, port |-> port, ws |-> 0, physical |-> FALSE,
                                   pc |-> IF port # 0 THEN "open" ELSE "ports"])
  /\ Hurries(c, TRUE)
  /\ UNCHANGED <<linkMode, ports, sockets, vio, mixed>>

TakePort(i, port) ==
  /\ assigned' = [assigned EXCEPT ![calls[i].chan] = port]
  /\ pane' = [pane EXCEPT ![calls[i].chan].port = port]
  /\ calls' = [calls EXCEPT ![i].port = port, ![i].pc = "open"]
  /\ UNCHANGED sockets

(* getPorts answers: the only free port is taken, else the user is asked.   *)
PortsListed(i) ==
  LET free == (granted \cap present) \ {assigned[c] : c \in DOMAIN assigned}
  IN /\ calls[i].pc = "ports"
     /\ IF Cardinality(free) = 1
        THEN \E port \in free : TakePort(i, port)
        ELSE calls' = [calls EXCEPT ![i].pc = "chooser"] /\ UNCHANGED <<assigned, pane, sockets>>
     /\ UNCHANGED <<linkMode, granted, present, opened, vio, hurried, mixed>>

ConnectFails(i) == GoesOff(i, calls[i].chan, pane[calls[i].chan], TRUE, FALSE)

\* Mutant of PortChosen: the port another channel was given meanwhile is taken.
PortChosenTwice(i) ==
  /\ calls[i].pc = "chooser"
  /\ \E port \in present : granted' = granted \cup {port} /\ TakePort(i, port)
  /\ UNCHANGED <<linkMode, present, opened, vio, hurried, mixed>>

(* The user chooses a port, and it may be the other channel's by now.       *)
PortChosen(i) ==
  /\ calls[i].pc = "chooser"
  /\ \E port \in present :
       /\ granted' = granted \cup {port}
       /\ IF \E c \in DOMAIN assigned \ {calls[i].chan} : assigned[c] = port
          THEN ConnectFails(i) /\ UNCHANGED assigned
          ELSE TakePort(i, port)
  /\ UNCHANGED <<linkMode, present, opened, vio, hurried, mixed>>

ChooserDismissed(i) ==
  /\ calls[i].pc = "chooser"
  /\ ConnectFails(i)
  /\ UNCHANGED <<linkMode, ports, vio, hurried, mixed>>

PortOpens(i) ==
  LET c == calls[i].chan
  IN /\ calls[i].pc = "open" /\ calls[i].port \in present \ opened
     /\ opened' = opened \cup {calls[i].port}
     /\ pane' = [pane EXCEPT ![c].live = "web", ![c].source = "web",
                             ![c].connecting = FALSE, ![c].session = @ + 1]
     /\ calls' = [calls EXCEPT ![i].pc = "over"]
     /\ UNCHANGED <<linkMode, assigned, granted, present, sockets, vio, hurried, mixed>>

(* Another program has the port, or it is gone, or the page has it open.    *)
PortOpenFails(i) ==
  /\ calls[i].pc = "open"
  /\ ConnectFails(i)
  /\ UNCHANGED <<linkMode, ports, vio, hurried, mixed>>

(* The device is unplugged: the session that has the port is ended.         *)
Unplugged(port) ==
  /\ port \in present
  /\ present' = present \ {port} /\ opened' = opened \ {port}
  /\ IF port \in opened /\ \E c \in DOMAIN pane : pane[c].port = port
     THEN \E c \in DOMAIN pane :
            /\ pane[c].port = port /\ RoomFor(1)
            /\ GoesOff(Len(calls) + 1, c, pane[c], TRUE, TRUE)
     ELSE UNCHANGED <<pane, calls, sockets>>
  /\ UNCHANGED <<linkMode, assigned, granted, vio, hurried, mixed>>

-----------------------------------------------------------------------------
(* The broker.                                                              *)

ConnectBridge(c) ==
  /\ linkMode.bridge /\ Len(sockets) < linkMode.sockets /\ CanConnect(c)
  /\ pane' = [pane EXCEPT ![c].ws = Len(sockets) + 1, ![c].connecting = TRUE,
                          ![c].locked = FALSE, ![c].pending = {}, ![c].queued = <<>>]
  /\ sockets' = Append(Closed({pane[c].ws}), [chan |-> c, state |-> "connecting"])
  /\ Hurries(c, FALSE)
  /\ UNCHANGED <<linkMode, ports, calls, vio, mixed>>

BrokerStep == UNCHANGED <<linkMode, ports, calls, vio, hurried, mixed>>
SocketIs(s, state) == sockets' = [sockets EXCEPT ![s].state = state]

BridgeOpens(s) ==
  /\ sockets[s].state = "connecting" /\ SocketIs(s, "open")
  /\ UNCHANGED pane /\ BrokerStep

Opened(s) ==
  LET c == ChannelOf(s)
  IN /\ sockets[s].state = "open" /\ SocketIs(s, "subscribed")
     /\ pane' = IF pane[c].ws # s THEN pane
                ELSE [pane EXCEPT ![c].live = "bridge", ![c].source = "bridge",
                                  ![c].connecting = FALSE, ![c].session = @ + 1]
     /\ BrokerStep

(* A write goes out when none is pending; the broker's owner locks it out.  *)
Sends(p, w) ==
  IF w.gen = p.gen /\ p.live = "bridge" /\ Open(p.ws) /\ ~p.locked
  THEN [p EXCEPT !.pending = @ \cup {[ws |-> p.ws, call |-> 0]}, !.queued = <<>>]
  ELSE [p EXCEPT !.queued = <<>>]
WritePending(p) == \E r \in p.pending : r.call = 0
Mixes(p) == mixed' = (mixed \/ (p.queued # <<>> /\ p.queued[1].gen = p.gen
                                 /\ p.live # "none" /\ p.queued[1].session # p.session))

WriteAsked(c) ==
  LET p == pane[c]
      w == [gen |-> p.gen, session |-> p.session]
  IN /\ p.live = "bridge" /\ p.queued = <<>>
     /\ pane' = [pane EXCEPT ![c] = IF WritePending(p) THEN [p EXCEPT !.queued = <<w>>] ELSE Sends(p, w)]
     /\ UNCHANGED sockets /\ BrokerStep

(* The pending write is answered or times out, and the next one goes on.    *)
WriteEnds(c) ==
  LET p == pane[c]
      q == [p EXCEPT !.pending = {r \in @ : r.call # 0}]
  IN /\ WritePending(p)
     /\ pane' = [pane EXCEPT ![c] = IF p.queued = <<>> THEN q ELSE Sends(q, p.queued[1])]
     /\ Mixes(p)
     /\ UNCHANGED <<linkMode, ports, sockets, calls, vio, hurried>>

(* The broker reports an error: the open is refused, or the channel busy.   *)
BrokerRefuses(s) ==
  LET c == ChannelOf(s)
  IN /\ Open(s)
     /\ \E busy \in BOOLEAN :
          pane' = [pane EXCEPT ![c].connecting = FALSE, ![c].locked = @ \/ busy]
     /\ UNCHANGED sockets /\ BrokerStep

OwnerReported(s) ==
  /\ Open(s)
  /\ \E other \in BOOLEAN : pane' = [pane EXCEPT ![ChannelOf(s)].locked = other]
  /\ UNCHANGED sockets /\ BrokerStep

(* The broker ends the channel, without being asked to.                     *)
BrokerCloses(s) ==
  /\ Open(s) /\ RoomFor(1)
  /\ GoesOff(Len(calls) + 1, ChannelOf(s), pane[ChannelOf(s)], FALSE, FALSE)
  /\ UNCHANGED <<linkMode, ports, vio, hurried, mixed>>

(* The socket is gone.  A disconnect that waits for its answer goes on.     *)
SocketGone(s) ==
  LET c == ChannelOf(s)
      mine == pane[c].ws = s
  IN /\ sockets[s].state # "closed" /\ SocketIs(s, "closed")
     /\ pane' = IF mine
                THEN [pane EXCEPT ![c] = [Unshown([@ EXCEPT !.ws = 0, !.connecting = FALSE,
                                                             !.locked = FALSE, !.pending = {},
                                                             !.queued = <<>>]) EXCEPT !.live = "none"]]
                ELSE pane
     /\ BrokerStep

-----------------------------------------------------------------------------
(* The rest of the page.                                                    *)

(* A tab is shown or hidden: the effect of the pane runs.                   *)
TabTurns(c) ==
  /\ pane[c].live # pane[c].source
  /\ pane' = [pane EXCEPT ![c].live = pane[c].source]
  /\ UNCHANGED sockets /\ BrokerStep

AutomationTurns(c) ==
  /\ pane[c].auto \/ pane[c].live # "none"
  /\ pane' = [pane EXCEPT ![c].auto = ~@]
  /\ UNCHANGED sockets /\ BrokerStep

(* changeVin is confirmed: every channel is disconnected first.             *)
ChangeVin ==
  LET n == Len(calls)
      index == CHOOSE f \in [linkMode.chans -> 1..Cardinality(linkMode.chans)] :
                 \A c, d \in linkMode.chans : c # d => f[c] # f[d]
      call == [c \in linkMode.chans |-> OffCall(pane[c], c, TRUE, FALSE)]
  IN /\ vio.pc = "idle" /\ RoomFor(Cardinality(linkMode.chans))
     /\ \A c \in linkMode.chans : ~pane[c].auto
     /\ pane' = [c \in linkMode.chans |-> OffPane(pane[c], TRUE, n + index[c])]
     /\ calls' = calls \o [k \in 1..Cardinality(linkMode.chans) |->
                             call[CHOOSE c \in linkMode.chans : index[c] = k]]
     /\ sockets' = Closed(UNION {EndedBy(call[c]) : c \in linkMode.chans})
     /\ vio' = [pc |-> "off", wait |-> n+1..n+Cardinality(linkMode.chans)]
     /\ hurried' = (hurried \/ CallsWait # {} \/ \E c \in linkMode.chans : pane[c].connecting)
     /\ UNCHANGED <<linkMode, ports, mixed>>

VinSent ==
  /\ vio.pc = "off" /\ vio.wait \cap CallsWait = {}
  /\ vio' = [pc |-> "set", wait |-> {}]
  /\ UNCHANGED <<linkMode, pane, ports, sockets, calls, hurried, mixed>>

VinEnds ==
  /\ vio.pc = "set" /\ vio' = NoVio
  /\ UNCHANGED <<linkMode, pane, ports, sockets, calls, hurried, mixed>>

(* A disconnect goes on before anything else when its request was given up, *)
(* or when the port it closes is not open.                                  *)
GivenUp(i) == calls[i].pc = "notify" /\ \A r \in pane[calls[i].chan].pending : r.call # i
NotOpen(i) == calls[i].pc = "close" /\ ~calls[i].physical /\ calls[i].port \notin opened

PageNext ==
  \/ \E c \in linkMode.chans :
       \/ Disconnect(c) \/ ConnectWeb(c) \/ ConnectBridge(c) \/ WriteAsked(c)
       \/ WriteEnds(c) \/ TabTurns(c) \/ AutomationTurns(c)
  \/ \E i \in CallsWait :
       \/ NotifyEnds(i) \/ PortCloses(i) \/ PortsListed(i) \/ PortChosen(i)
       \/ ChooserDismissed(i) \/ PortOpens(i) \/ PortOpenFails(i)
  \/ \E s \in DOMAIN sockets :
       \/ BridgeOpens(s) \/ Opened(s) \/ BrokerRefuses(s) \/ OwnerReported(s)
       \/ BrokerCloses(s) \/ SocketGone(s)
  \/ \E port \in present : Unplugged(port)
  \/ ChangeVin \/ VinSent \/ VinEnds

SessionNext ==
  LET first == {i \in CallsWait : GivenUp(i) \/ NotOpen(i)}
  IN IF first # {} THEN \E i \in first : NotifyEnds(i) \/ PortCloses(i) ELSE PageNext

SessionSpec == SessionInit /\ [][SessionNext]_serialLinkVars

-----------------------------------------------------------------------------
(* Two channels never keep the same port, however their choosers overlap.   *)
PortsAreDistinct ==
  \A c, d \in linkMode.chans : c # d /\ assigned[c] # 0 => assigned[c] # assigned[d]

OffUnderWay(c) == \E i \in CallsWait : calls[i].chan = c /\ calls[i].pc \in {"notify", "close"}

(* What is shown as connected is, and a port that is open has a session or  *)
(* a call that will close it.                                               *)
ConnectedIsReal ==
  /\ \A c \in linkMode.chans : ~OffUnderWay(c) =>
       /\ pane[c].source = "bridge" => Open(pane[c].ws)
       /\ pane[c].source = "web" => pane[c].port \in opened
  /\ \A port \in opened :
       \/ \E c \in linkMode.chans : pane[c].port = port
       \/ \E i \in CallsWait : calls[i].port = port

(* No write waits for a socket that is not the session's, and none is sent  *)
(* in another session than it was asked in.                                 *)
WritesStayInSession ==
  /\ ~mixed
  /\ \A c \in linkMode.chans : \A r \in pane[c].pending : r.ws = pane[c].ws /\ Open(r.ws)

(* The voltage is sent to the debugger when no channel has a session:       *)
(* "connected channels will be disconnected first" (serial.vioConfirm).     *)
OffBeforeVoltage == vio.pc = "set" => \A c \in linkMode.chans : pane[c].live = "none"

\* What holds of the serial sessions: two channels never share a port, and,
\* unless a connect ran across a change of the voltage or a stale socket,
\* what is shown as connected is connected, no port stays open without a
\* session, no write crosses sessions and the voltage changes between them.
LinksAreSound ==
  /\ PortsAreDistinct
  /\ hurried \/ (ConnectedIsReal /\ WritesStayInSession /\ OffBeforeVoltage)
=============================================================================
