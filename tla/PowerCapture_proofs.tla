------------------------ MODULE PowerCapture_proofs ------------------------
(***************************************************************************)
(* Theorems about the power recordings of the page, for any number of      *)
(* recordings, samples, faults and messages on their way: which stage an   *)
(* archive is in while its session goes on, and who settles it.            *)
(***************************************************************************)
EXTENDS PowerCapture, SequenceTheorems, FiniteSetTheorems, TLAPS

\* A session and an archive have the fields of one; the proofs look at few.
IsSession(s) ==
  s \in [triggered : {s.triggered}, finishing : {s.finishing},
         incomplete : {s.incomplete}, handshake : {s.handshake},
         finalize : {s.finalize}, begun : {s.begun}, again : {s.again},
         pre : {s.pre}, pending : {s.pending}, last : {s.last},
         total : {s.total}, offset : {s.offset}, id : {s.id},
         trigger : {s.trigger}, dropped : {s.dropped}, index : {s.index},
         chain : {s.chain}, broken : {s.broken}, error : {s.error},
         timer : {s.timer}]
IsArchive(r) ==
  r \in [status : {r.status}, chunks : {r.chunks}, samples : {r.samples},
         again : {r.again}]
IsPage(p, n) ==
  p \in [state : {p.state}, pending : {p.pending}, current : 0..n,
         promise : {p.promise}, capacity : BOOLEAN, crossed : {p.crossed}]

\* A session that is being saved; one with no write and no end under way; one
\* that awaits an acknowledgement only at the first stage of its end.
Saving(s) == s.finalize \in {"stop", "drain", "abort"}
Settled(s) == s.chain = <<>> /\ ~Saving(s)
Awaits(s) == s.handshake = "pending" => s.finalize = "stop"

Sessions(ss) ==
  /\ ss = [a \in Arms |-> ss[a]]
  /\ \A a \in Arms : IsSession(ss[a]) /\ Awaits(ss[a])

CaptureShapes ==
  /\ armed \in 0..MaxArms
  /\ limits \in Limits
  /\ IsPage(page, armed)
  /\ page.capacity => armed < MaxArms
  /\ archive = [a \in Arms |-> archive[a]]
  /\ \A a \in Arms : IsArchive(archive[a])
  /\ chunk = [a \in Arms |-> chunk[a]]
  /\ Sessions(session)

\* Nothing is known of a recording that was not armed; a complete one is not on
\* the page and has nothing under way.
Unarmed == \A a \in Arms : a > armed => session[a] = NewSession /\ archive[a] = NoArchive
CompleteRests ==
  \A a \in Arms : archive[a].status = "complete" =>
    a # page.current /\ Settled(session[a])

CaptureInv == CaptureShapes /\ Unarmed /\ CompleteRests /\ ReceivingIsSaved

-----------------------------------------------------------------------------
(* What the operators of the module do to a session.                        *)

\* How far the end of a recording has come, and whether it is awaited.
SameEnd(s, t) ==
  /\ t.finalize = s.finalize /\ t.handshake = s.handshake
  /\ t.triggered = s.triggered

LEMMA QueueSamplesDoes ==
  ASSUME NEW s, NEW incoming, IsSession(s)
  PROVE  IsSession(QueueSamples(s, incoming))
         /\ SameEnd(s, QueueSamples(s, incoming))
  BY DEF QueueSamples, IsSession, SameEnd

LEMMA FlushedDoes ==
  ASSUME NEW s, IsSession(s)
  PROVE  IsSession(Flushed(s)) /\ SameEnd(s, Flushed(s))
  BY DEF Flushed, IsSession, SameEnd

LEMMA FailedHandshakeDoes ==
  ASSUME NEW s, IsSession(s)
  PROVE  /\ IsSession(FailedHandshake(s))
         /\ FailedHandshake(s).finalize = s.finalize
         /\ FailedHandshake(s).handshake # "pending"
         /\ FailedHandshake(s).chain = s.chain
  BY DEF FailedHandshake, IsSession

\* Once begun, the end of a recording goes on.
LEMMA FinalizedDoes ==
  ASSUME NEW s, NEW inc \in BOOLEAN, NEW open \in BOOLEAN, IsSession(s), Awaits(s)
  PROVE  /\ IsSession(Finalized(s, inc, open)) /\ Awaits(Finalized(s, inc, open))
         /\ Saving(s) => Saving(Finalized(s, inc, open))
         /\ s.finalize = "none" => Saving(Finalized(s, inc, open))
<1> DEFINE inced == [s EXCEPT !.incomplete = TRUE]
           marked == IF inc THEN FailedHandshake(inced) ELSE s
           begun == [marked EXCEPT !.timer = FALSE]
           drained == [begun EXCEPT !.incomplete = TRUE, !.finalize = "drain"]
           opened == [begun EXCEPT !.handshake = "pending", !.finalize = "stop"]
<1>1. IsSession(inced) /\ inced.finalize = s.finalize /\ inced.handshake = s.handshake
  BY DEF IsSession
<1>2. /\ IsSession(marked) /\ marked.finalize = s.finalize
      /\ marked.handshake = "pending" => s.handshake = "pending"
  BY <1>1, FailedHandshakeDoes DEF FailedHandshake
<1> HIDE DEF inced
<1>3. IsSession(begun) /\ begun.handshake = marked.handshake
  BY <1>2 DEF IsSession
<1>4. IsSession(drained) /\ drained.finalize = "drain" /\ drained.handshake = marked.handshake
  BY <1>3 DEF IsSession
<1>5. IsSession(opened) /\ opened.finalize = "stop"
  BY <1>3 DEF IsSession
<1>6. Finalized(s, inc, open) = IF s.finalize # "none" THEN marked
                                ELSE IF open THEN opened ELSE Flushed(drained)
  BY DEF Finalized, inced
<1> HIDE DEF marked, begun, drained, opened
<1>7. /\ IsSession(Flushed(drained)) /\ SameEnd(drained, Flushed(drained))
  BY <1>4, FlushedDoes
<1> QED
  BY <1>2, <1>4, <1>5, <1>6, <1>7 DEF Awaits, Saving, SameEnd

LEMMA DiscardedDoes ==
  ASSUME NEW s, IsSession(s), Awaits(s)
  PROVE  /\ IsSession(Discarded(s)) /\ Awaits(Discarded(s))
         /\ Saving(s) => Saving(Discarded(s))
<1> DEFINE failed == FailedHandshake(s)
           ended == [failed EXCEPT !.finishing = TRUE, !.timer = FALSE]
<1>1. IsSession(failed) /\ failed.finalize = s.finalize /\ failed.handshake # "pending"
  BY FailedHandshakeDoes
<1> HIDE DEF failed
<1>2. IsSession(ended) /\ ended.finalize = s.finalize /\ ended.handshake # "pending"
  BY <1>1 DEF IsSession
<1> DEFINE chain == Append(ended.chain, Write("delete"))
           deleted == [ended EXCEPT !.chain = chain]
<1>3. Discarded(s) = IF s.begun THEN deleted ELSE ended
  BY DEF Discarded, failed
<1> HIDE DEF ended, chain
<1>4. /\ IsSession(deleted) /\ deleted.finalize = ended.finalize
      /\ deleted.handshake = ended.handshake
  BY <1>2 DEF IsSession
<1> HIDE DEF deleted
<1> QED
  BY <1>2, <1>3, <1>4 DEF Awaits, Saving

\* The page changes its state.
LEMMA StateChanges ==
  ASSUME NEW p, NEW n, NEW st, IsPage(p, n), NEW q, q = [p EXCEPT !.state = st]
  PROVE  /\ IsPage(q, n) /\ q.state = st /\ q.current = p.current
         /\ q.capacity = p.capacity
  BY DEF IsPage

\* One session changes.
LEMMA SessionChanges ==
  ASSUME NEW ss, Sessions(ss), NEW c \in Arms, NEW s, IsSession(s), Awaits(s),
         NEW tt, tt = [ss EXCEPT ![c] = s]
  PROVE  Sessions(tt) /\ \A a \in Arms : tt[a] = IF a = c THEN s ELSE ss[a]
<1>1. tt = [a \in Arms |-> IF a = c THEN s ELSE ss[a]]
  BY DEF Sessions
<1>2. \A a \in Arms : tt[a] = IF a = c THEN s ELSE ss[a]
  BY <1>1
<1>3. tt = [a \in Arms |-> tt[a]]
  BY <1>1
<1>4. \A a \in Arms : IsSession(tt[a]) /\ Awaits(tt[a])
  BY <1>2 DEF Sessions
<1> QED
  BY <1>2, <1>3, <1>4 DEF Sessions

\* The end of the recording on the page, whoever asks for it.
LEMMA FinalizeCurrentDoes ==
  ASSUME NEW ss, NEW inc \in BOOLEAN, Sessions(ss), NEW n \in 0..MaxArms,
         IsPage(page, n), FinalizeCurrent(ss, inc)
  PROVE  /\ Sessions(session')
         /\ \A a \in Arms : a # page.current => session'[a] = ss[a]
         /\ \A a \in Arms : Saving(ss[a]) => Saving(session'[a])
         /\ IsPage(page', n) /\ page'.current = page.current
         /\ page'.capacity = page.capacity
         /\ page'.state = "receiving" =>
              page.state = "receiving" \/ \E a \in Arms : Saving(session'[a])
<1>1. CASE ~Triggered(ss)
  BY <1>1 DEF FinalizeCurrent
<1>2. CASE Triggered(ss)
  <2> DEFINE c == page.current
             e == Finalized(ss[c], inc, ws = "open")
  <2>1. c \in Arms
    BY <1>2, PowerCaptureAssumption DEF Triggered, IsPage, NoArm, Arms
  <2>2. session' = [ss EXCEPT ![c] = e]
    BY <1>2 DEF FinalizeCurrent
  <2>3. /\ IsSession(e) /\ Awaits(e)
        /\ Saving(ss[c]) => Saving(e)
        /\ ss[c].finalize = "none" => Saving(e)
    BY <2>1, FinalizedDoes DEF Sessions
  <2>4. \/ page' = page
        \/ ss[c].finalize = "none" /\ page' = [page EXCEPT !.state = "receiving"]
    BY <1>2 DEF FinalizeCurrent
  <2> HIDE DEF e
  <2>5. /\ Sessions(session') /\ session'[c] = e
        /\ \A a \in Arms : a # c => session'[a] = ss[a]
    <3> HIDE DEF c
    <3>1. Sessions(session')
      BY <2>1, <2>2, <2>3, SessionChanges
    <3>2. \A a \in Arms : session'[a] = IF a = c THEN e ELSE ss[a]
      BY <2>1, <2>2 DEF Sessions
    <3> QED
      BY <2>1, <3>1, <3>2
  <2>6. /\ IsPage(page', n) /\ page'.current = page.current
        /\ page'.capacity = page.capacity
        /\ page'.state = page.state \/ ss[c].finalize = "none"
    <3>1. CASE page' = page
      BY <3>1
    <3>2. CASE page' = [page EXCEPT !.state = "receiving"] /\ ss[c].finalize = "none"
      BY <3>2, StateChanges
    <3> QED
      BY <2>4, <3>1, <3>2
  <2> QED
    BY <2>1, <2>2, <2>3, <2>5, <2>6
<1> QED
  BY <1>1, <1>2

-----------------------------------------------------------------------------
(* Steps that keep the invariant.                                           *)

\* The archives keep their shape, none becomes complete and none is made for a
\* recording that was not armed.
ArchivesKept ==
  /\ archive' = [a \in Arms |-> archive'[a]]
  /\ \A a \in Arms :
       /\ IsArchive(archive'[a])
       /\ archive'[a].status = "complete" => archive[a].status = "complete"
       /\ a > armed => archive'[a] = NoArchive
  /\ chunk' = [a \in Arms |-> chunk'[a]]

\* The sessions keep theirs; one that rests off the page keeps resting and the
\* end of one goes on.
SessionsKept ==
  /\ Sessions(session')
  /\ \A a \in Arms :
       /\ a > armed => session'[a] = NewSession
       /\ a # page.current /\ Settled(session[a]) => Settled(session'[a])
       /\ Saving(session[a]) => Saving(session'[a])

PageKept ==
  /\ IsPage(page', armed)
  /\ page'.capacity => armed < MaxArms
  /\ page'.current \in {page.current, NoArm}
  /\ page'.state = "receiving" =>
       page.state = "receiving" \/ \E a \in Arms : Saving(session'[a])

LEMMA KeepingStep ==
  ASSUME CaptureInv, ArchivesKept, SessionsKept, PageKept, UNCHANGED <<armed, limits>>
  PROVE  CaptureInv'
<1> USE DEF CaptureInv
<1>1. CaptureShapes'
  BY DEF CaptureShapes, ArchivesKept, SessionsKept, PageKept, IsArchive, IsPage,
         Sessions, IsSession, Awaits
<1>2. Unarmed'
  BY DEF Unarmed, ArchivesKept, SessionsKept
<1>3. CompleteRests'
  BY PowerCaptureAssumption DEF CompleteRests, ArchivesKept, SessionsKept, PageKept,
     Settled, Saving, Arms, NoArm
<1>4. ReceivingIsSaved'
  BY DEF ReceivingIsSaved, SessionsKept, PageKept, Saving
<1> QED
  BY <1>1, <1>2, <1>3, <1>4

LEMMA SameArchives ==
  ASSUME CaptureInv, UNCHANGED <<archive, chunk>>
  PROVE  ArchivesKept
  BY DEF CaptureInv, CaptureShapes, Unarmed, ArchivesKept

LEMMA SameSessions ==
  ASSUME CaptureInv, UNCHANGED session
  PROVE  SessionsKept
  BY DEF CaptureInv, CaptureShapes, Unarmed, SessionsKept

LEMMA SamePage ==
  ASSUME CaptureInv, UNCHANGED page
  PROVE  PageKept
  BY DEF CaptureInv, CaptureShapes, PageKept

\* One session takes a step.
LEMMA OneSession ==
  ASSUME CaptureInv, NEW c \in Arms, c <= armed, NEW s, IsSession(s), Awaits(s),
         session' = [session EXCEPT ![c] = s],
         Saving(session[c]) => Saving(s),
         c = page.current \/ (Settled(session[c]) => Settled(s))
  PROVE  SessionsKept /\ session'[c] = s
<1>1. Sessions(session)
  BY DEF CaptureInv, CaptureShapes
<1>2. Sessions(session')
  BY <1>1, SessionChanges
<1>4. \A a \in Arms : session'[a] = IF a = c THEN s ELSE session[a]
  BY <1>1 DEF Sessions
<1>3. armed \in Int
  BY DEF CaptureInv, CaptureShapes
<1> QED
  BY <1>2, <1>3, <1>4, PowerCaptureAssumption DEF CaptureInv, Unarmed, SessionsKept, Arms

\* The recording on the page is discarded and the page reset.
LEMMA ResetKeeps ==
  ASSUME CaptureInv, session' = ResetSessions, page' = ResetPage
  PROVE  SessionsKept /\ PageKept
<1>1. PageKept
  <2>1. IsPage(page, armed) /\ armed \in 0..MaxArms /\ (page.capacity => armed < MaxArms)
    BY DEF CaptureInv, CaptureShapes
  <2>2. /\ IsPage(page', armed) /\ page'.current = NoArm /\ page'.state = "idle"
        /\ page'.capacity = page.capacity
    <3>1. page' = [state |-> "idle", pending |-> FALSE, current |-> 0,
                   promise |-> 0, capacity |-> page.capacity,
                   crossed |-> page.crossed]
      BY <2>1 DEF ResetPage, IsPage, NoArm
    <3>2. 0 \in 0..armed /\ page.capacity \in BOOLEAN
      BY <2>1, PowerCaptureAssumption DEF IsPage
    <3> QED
      BY <3>1, <3>2 DEF IsPage, NoArm
  <2> QED
    BY <2>1, <2>2 DEF PageKept
<1>2. SessionsKept
  <2>1. CASE page.current = NoArm
    BY <2>1, SameSessions DEF ResetSessions
  <2>2. CASE page.current # NoArm
    <3> DEFINE c == page.current
               s == Discarded(session[c])
    <3>1. c \in Arms /\ c <= armed
      BY <2>2, PowerCaptureAssumption DEF CaptureInv, CaptureShapes, IsPage, NoArm, Arms
    <3>2. session' = [session EXCEPT ![c] = s]
      BY <2>2 DEF ResetSessions
    <3>3. /\ IsSession(s) /\ Awaits(s)
          /\ Saving(session[c]) => Saving(s)
      BY <3>1, DiscardedDoes DEF CaptureInv, CaptureShapes, Sessions
    <3> HIDE DEF s
    <3> QED
      BY <3>1, <3>2, <3>3, OneSession
  <2> QED
    BY <2>1, <2>2
<1> QED
  BY <1>1, <1>2

\* The end of the recording on the page begins, behind a step of the sessions.
LEMMA FinalizeKeeps ==
  ASSUME CaptureInv, NEW ss, Sessions(ss), NEW inc \in BOOLEAN,
         FinalizeCurrent(ss, inc),
         \A a \in Arms :
           /\ a > armed => ss[a] = NewSession
           /\ a # page.current /\ Settled(session[a]) => Settled(ss[a])
           /\ Saving(session[a]) => Saving(ss[a])
  PROVE  SessionsKept /\ PageKept
<1>1. IsPage(page, armed) /\ armed \in 0..MaxArms /\ (page.capacity => armed < MaxArms)
  BY DEF CaptureInv, CaptureShapes
<1>2. /\ Sessions(session')
      /\ \A a \in Arms : a # page.current => session'[a] = ss[a]
      /\ \A a \in Arms : Saving(ss[a]) => Saving(session'[a])
      /\ IsPage(page', armed) /\ page'.current = page.current
      /\ page'.capacity = page.capacity
      /\ page'.state = "receiving" =>
           page.state = "receiving" \/ \E a \in Arms : Saving(session'[a])
  BY <1>1, FinalizeCurrentDoes
<1>3. \A a \in Arms : a > armed => a # page.current
  BY <1>1, PowerCaptureAssumption DEF IsPage, Arms
<1> QED
  BY <1>1, <1>2, <1>3 DEF SessionsKept, PageKept

-----------------------------------------------------------------------------
(* The actions.                                                             *)

LEMMA CaptureFacts ==
  ASSUME CaptureInv
  PROVE  /\ Sessions(session) /\ IsPage(page, armed) /\ armed \in 0..MaxArms
         /\ armed \in Int /\ MaxArms \in Int
         /\ page.capacity => armed < MaxArms
         /\ page.current # NoArm => page.current \in Arms /\ page.current <= armed
         /\ \A a \in Arms : a > armed => session[a] = NewSession
         /\ \A a \in Arms : IsSession(session[a]) /\ Awaits(session[a])
  BY PowerCaptureAssumption
  DEF CaptureInv, CaptureShapes, Unarmed, IsPage, Sessions, Arms, NoArm

\* The page ends with its socket.
LEMMA SocketEnds ==
  ASSUME CaptureInv, NEW open \in BOOLEAN, EndOfSocket(open)
  PROVE  SessionsKept /\ PageKept
<1>1. CASE ~Triggered(session)
  BY <1>1, ResetKeeps DEF EndOfSocket
<1>2. CASE Triggered(session)
  <2> DEFINE c == page.current
             s == Finalized(session[c], TRUE, open)
  <2>1. c \in Arms /\ c <= armed /\ IsSession(session[c]) /\ Awaits(session[c])
    BY <1>2, CaptureFacts DEF Triggered
  <2>2. /\ session' = [session EXCEPT ![c] = s]
        /\ page' = IF session[c].finalize = "none"
                     THEN [page EXCEPT !.state = "receiving"] ELSE page
    BY <1>2 DEF EndOfSocket
  <2>3. /\ IsSession(s) /\ Awaits(s)
        /\ Saving(session[c]) => Saving(s)
        /\ session[c].finalize = "none" => Saving(s)
    BY <2>1, FinalizedDoes
  <2> HIDE DEF s
  <2>4. SessionsKept /\ session'[c] = s
    BY <2>1, <2>2, <2>3, OneSession
  <2>5. PageKept
    <3>1. CASE session[c].finalize = "none"
      <4>1. page' = [page EXCEPT !.state = "receiving"]
        BY <2>2, <3>1
      <4>2. /\ IsPage(page', armed) /\ page'.current = page.current
            /\ page'.capacity = page.capacity
        BY <4>1, CaptureFacts, StateChanges
      <4> QED
        BY <2>1, <2>3, <2>4, <3>1, <4>2, CaptureFacts DEF PageKept
    <3>2. CASE session[c].finalize # "none"
      BY <2>2, <3>2, SamePage
    <3> QED
      BY <3>1, <3>2
  <2> QED
    BY <2>4, <2>5
<1> QED
  BY <1>1, <1>2

\* Archives are cleared.
LEMMA ClearedStep ==
  ASSUME CaptureInv, NEW keep, Cleared(keep), UNCHANGED limits
  PROVE  CaptureInv'
<1>1. /\ archive' = [a \in Arms |-> IF Sealed(archive[a]) /\ a # keep
                                      THEN NoArchive ELSE archive[a]]
      /\ chunk' = [a \in Arms |-> IF Sealed(archive[a]) /\ a # keep
                                    THEN <<>> ELSE chunk[a]]
      /\ UNCHANGED <<session, armed, page>>
  BY DEF Cleared
<1>2. \A a \in Arms : archive'[a] \in {archive[a], NoArchive} /\ IsArchive(archive'[a])
  BY <1>1 DEF CaptureInv, CaptureShapes, NoArchive, IsArchive
<1>3. /\ archive' = [a \in Arms |-> archive'[a]]
      /\ chunk' = [a \in Arms |-> chunk'[a]]
  BY <1>1
<1>4. ArchivesKept
  BY <1>2, <1>3 DEF ArchivesKept, CaptureInv, Unarmed, NoArchive
<1> QED
  BY <1>1, <1>4, SameSessions, SamePage, KeepingStep

\* The user.
LEMMA ArmCommitStep ==
  ASSUME CaptureInv, ArmCommit, UNCHANGED limits
  PROVE  CaptureInv'
<1> DEFINE n == armed + 1
<1>1. /\ armed' = n /\ n \in 0..MaxArms /\ n \in Arms /\ session' = session
      /\ page.capacity
  BY CaptureFacts DEF ArmCommit, Arms
<1>2. PICK pruned \in SUBSET {a \in Arms : Sealed(archive[a])} :
        /\ archive' = [a \in Arms |-> IF a \in pruned THEN NoArchive ELSE archive[a]]
        /\ chunk' = [a \in Arms |-> IF a \in pruned THEN <<>> ELSE chunk[a]]
  BY DEF ArmCommit
<1>3. page' = [state |-> "connecting", pending |-> TRUE, current |-> n,
               promise |-> n, capacity |-> FALSE, crossed |-> page.crossed]
  BY CaptureFacts DEF ArmCommit, IsPage
<1>4. IsPage(page', armed')
  BY <1>1, <1>3, CaptureFacts DEF IsPage
<1>5. \A a \in Arms : archive'[a] \in {archive[a], NoArchive} /\ IsArchive(archive'[a])
  BY <1>2 DEF CaptureInv, CaptureShapes, NoArchive, IsArchive
<1>6. CaptureShapes'
  <2>1. archive' = [a \in Arms |-> archive'[a]] /\ chunk' = [a \in Arms |-> chunk'[a]]
    BY <1>2
  <2>2. limits' \in Limits /\ Sessions(session')
    BY <1>1 DEF CaptureInv, CaptureShapes
  <2> QED
    BY <1>1, <1>3, <1>4, <1>5, <2>1, <2>2 DEF CaptureShapes
<1>7. Unarmed'
  BY <1>1, <1>5, CaptureFacts DEF CaptureInv, Unarmed, Arms
<1>8. CompleteRests'
  <2> SUFFICES ASSUME NEW a \in Arms, archive'[a].status = "complete"
               PROVE  a # page'.current /\ Settled(session'[a])
    BY DEF CompleteRests, Settled, Saving
  <2>1. archive[a].status = "complete" /\ archive[a] # NoArchive
    BY <1>5 DEF NoArchive
  <2>2. a <= armed /\ a \in Int
    BY <2>1, CaptureFacts DEF CaptureInv, Unarmed, Arms
  <2> QED
    BY <1>1, <1>3, <2>1, <2>2, CaptureFacts DEF CaptureInv, CompleteRests
<1>9. ReceivingIsSaved'
  BY <1>3 DEF ReceivingIsSaved
<1> QED
  BY <1>6, <1>7, <1>8, <1>9 DEF CaptureInv

LEMMA ReloadStep ==
  ASSUME CaptureInv, PageReloads, UNCHANGED limits
  PROVE  CaptureInv'
<1>1. page' = IdlePage /\ session' = [a \in Arms |-> NewSession]
      /\ UNCHANGED <<archive, chunk, armed>>
  BY DEF PageReloads, store
<1>2. IsSession(NewSession) /\ Awaits(NewSession) /\ Settled(NewSession)
  BY DEF IsSession, Awaits, Settled, Saving, NewSession
<1>3. Sessions(session') /\ \A a \in Arms : session'[a] = NewSession
  BY <1>1, <1>2 DEF Sessions
<1>4. /\ IsPage(page', armed') /\ page'.capacity = FALSE /\ page'.current = 0
      /\ page'.state = "idle"
  BY <1>1, CaptureFacts DEF IsPage, IdlePage, NoArm
<1>5. CaptureShapes'
  BY <1>1, <1>3, <1>4 DEF CaptureInv, CaptureShapes, IsArchive
<1>6. Unarmed'
  BY <1>1, <1>3 DEF CaptureInv, Unarmed
<1>7. CompleteRests'
  BY <1>2, <1>3, <1>4 DEF CompleteRests, Settled, Saving, Arms
<1>8. ReceivingIsSaved'
  BY <1>4 DEF ReceivingIsSaved
<1> QED
  BY <1>5, <1>6, <1>7, <1>8 DEF CaptureInv

LEMMA UserStep ==
  ASSUME CaptureInv, UserNext, UNCHANGED limits
  PROVE  CaptureInv'
<1>1. CASE Arm
  <2>1. SessionsKept /\ ArchivesKept /\ armed' = armed
    BY <1>1, SameSessions, SameArchives DEF Arm, store
  <2>2. PageKept
    <3>1. page' = [page EXCEPT !.capacity = TRUE] /\ armed < limits.arms
      BY <1>1 DEF Arm
    <3>2. armed < MaxArms
      BY <3>1, CaptureFacts, PowerCaptureAssumption DEF CaptureInv, CaptureShapes
    <3>3. /\ IsPage(page', armed) /\ page'.current = page.current
          /\ page'.state = page.state
      BY <3>1, CaptureFacts DEF IsPage
    <3> QED
      BY <2>1, <3>2, <3>3 DEF PageKept, CaptureInv, ReceivingIsSaved, SessionsKept
  <2> QED
    BY <2>1, <2>2, KeepingStep
<1>2. CASE CapacityRefused
  <2>1. SessionsKept /\ ArchivesKept /\ armed' = armed
    BY <1>2, SameSessions, SameArchives DEF CapacityRefused, store
  <2>2. PageKept
    <3>1. page' = [page EXCEPT !.capacity = FALSE]
      BY <1>2 DEF CapacityRefused
    <3>2. /\ IsPage(page', armed) /\ page'.current = page.current
          /\ page'.state = page.state /\ page'.capacity = FALSE
      BY <3>1, CaptureFacts DEF IsPage
    <3> QED
      BY <3>2 DEF PageKept
  <2> QED
    BY <2>1, <2>2, KeepingStep
<1>3. CASE ArmCommit
  BY <1>3, ArmCommitStep
<1>4. CASE TriggerClicked \/ GoLive
  BY <1>4, SameSessions, SameArchives, SamePage, KeepingStep
  DEF TriggerClicked, GoLive, store
<1>5. CASE StopClicked
  <2>1. ArchivesKept /\ armed' = armed
    BY <1>5, SameArchives DEF StopClicked, store
  <2>2. CASE Triggered(session)
    <3>1. FinalizeCurrent(session, FALSE)
      BY <1>5, <2>2 DEF StopClicked
    <3> QED
      BY <2>1, <3>1, CaptureFacts, FinalizeKeeps, KeepingStep
  <2>3. CASE ~Triggered(session)
    BY <1>5, <2>1, <2>3, SameSessions, SamePage, KeepingStep DEF StopClicked
  <2> QED
    BY <2>2, <2>3
<1>6. CASE CancelClicked
  BY <1>6, SameArchives, ResetKeeps, KeepingStep DEF CancelClicked, store
<1>7. CASE ClearClicked
  <2>1. Cleared(page.current)
    BY <1>7 DEF ClearClicked
  <2> QED
    BY <2>1, ClearedStep
<1>8. CASE LeaveLive
  <2>1. EndOfSocket(ws = "open") /\ UNCHANGED <<archive, chunk, armed>>
    BY <1>8 DEF LeaveLive, store
  <2> QED
    BY <2>1, SocketEnds, SameArchives, KeepingStep
<1>9. CASE PageReloads
  BY <1>9, ReloadStep
<1> QED
  BY <1>1, <1>2, <1>3, <1>4, <1>5, <1>6, <1>7, <1>8, <1>9 DEF UserNext

\* The socket, the debugger and the recovery leave the sessions and the page
\* alone, but for a socket that fails.
LEMMA LinkStep ==
  ASSUME CaptureInv, LinkNext \/ DeviceNext, UNCHANGED limits
  PROVE  CaptureInv'
<1>1. CASE SocketFails
  <2>1. EndOfSocket(FALSE) /\ UNCHANGED <<archive, chunk, armed>>
    BY <1>1 DEF SocketFails, store
  <2> QED
    BY <2>1, SocketEnds, SameArchives, KeepingStep
<1>2. CASE ~SocketFails
  <2>1. UNCHANGED <<archive, chunk, session, armed, page>>
    BY <1>2 DEF LinkNext, DeviceNext, SocketCreated, SocketOpens, DeviceHandles,
       DeviceSamples, DeviceTelemetry, DeviceNotice, store
  <2> QED
    BY <2>1, SameSessions, SameArchives, SamePage, KeepingStep
<1> QED
  BY <1>1, <1>2

\* Telemetry: a sample that cannot be queued ends the recording on the page.
LEMMA TelemetryStep ==
  ASSUME CaptureInv, OnTelemetry
  PROVE  SessionsKept /\ PageKept
<1> DEFINE c == page.current
           m == Head(toPage)
           s == [session[c] EXCEPT !.dropped = @ + m.dropped]
<1>1. CASE UNCHANGED <<session, page>>
  BY <1>1, SameSessions, SamePage
<1>2. CASE ~UNCHANGED <<session, page>>
  <2>1. c \in Arms /\ c <= armed /\ IsSession(session[c]) /\ Awaits(session[c])
    BY <1>2, CaptureFacts DEF OnTelemetry
  <2>2. IsSession(s) /\ SameEnd(session[c], s)
    BY <2>1 DEF IsSession, SameEnd
  <2>3. CASE ~s.triggered
    <3> DEFINE t == [s EXCEPT !.pre = LastOf(Append(@, m.seq), PreKeep)]
    <3>1. session' = [session EXCEPT ![c] = t] /\ UNCHANGED page
      BY <1>2, <2>3 DEF OnTelemetry
    <3> HIDE DEF s
    <3>2. IsSession(t) /\ SameEnd(s, t)
      BY <2>2 DEF IsSession, SameEnd
    <3> HIDE DEF t
    <3>3. Awaits(t) /\ (Saving(session[c]) => Saving(t))
      BY <2>1, <2>2, <3>2 DEF SameEnd, Awaits, Saving
    <3> QED
      BY <2>1, <3>1, <3>2, <3>3, OneSession, SamePage
  <2>4. CASE s.triggered
    <3> DEFINE R(renew) == IF renew THEN [s EXCEPT !.chain = Append(@, Write("renew"))]
                                    ELSE s
               Q(renew) == QueueSamples(R(renew), <<m.seq>>)
    <3>1. PICK renew \in BOOLEAN :
            IF Q(renew).error /\ ~s.error
              THEN FinalizeCurrent([session EXCEPT ![c] = Q(renew)], TRUE)
              ELSE session' = [session EXCEPT ![c] = Q(renew)] /\ UNCHANGED page
      BY <1>2, <2>4 DEF OnTelemetry
    <3> HIDE DEF s
    <3>2. IsSession(R(renew)) /\ SameEnd(s, R(renew))
      BY <2>2 DEF IsSession, SameEnd
    <3> HIDE DEF R
    <3>3. IsSession(Q(renew)) /\ SameEnd(R(renew), Q(renew))
      BY <3>2, QueueSamplesDoes
    <3> HIDE DEF Q
    <3>4. Awaits(Q(renew)) /\ (Saving(session[c]) => Saving(Q(renew)))
      BY <2>1, <2>2, <3>2, <3>3 DEF SameEnd, Awaits, Saving
    <3>5. CASE Q(renew).error /\ ~s.error
      <4> DEFINE ss == [session EXCEPT ![c] = Q(renew)]
      <4>1. FinalizeCurrent(ss, TRUE)
        BY <3>1, <3>5
      <4>2. Sessions(ss)
        BY <2>1, <3>3, <3>4, CaptureFacts, SessionChanges
      <4>3. \A a \in Arms : ss[a] = IF a = c THEN Q(renew) ELSE session[a]
        BY <2>1, CaptureFacts DEF Sessions
      <4> HIDE DEF ss
      <4>4. \A a \in Arms :
              /\ a > armed => ss[a] = NewSession
              /\ a # page.current /\ Settled(session[a]) => Settled(ss[a])
              /\ Saving(session[a]) => Saving(ss[a])
        BY <2>1, <3>4, <4>3, CaptureFacts DEF Arms
      <4> QED
        BY <4>1, <4>2, <4>4, FinalizeKeeps
    <3>6. CASE ~(Q(renew).error /\ ~s.error)
      <4>1. session' = [session EXCEPT ![c] = Q(renew)] /\ UNCHANGED page
        BY <3>1, <3>6
      <4> QED
        BY <2>1, <3>3, <3>4, <4>1, OneSession, SamePage
    <3> QED
      BY <3>5, <3>6
  <2> QED
    BY <2>3, <2>4
<1> QED
  BY <1>1, <1>2

\* The trigger: the session begins its archive, and may end at once.
LEMMA TriggeredStep ==
  ASSUME CaptureInv, OnTriggered
  PROVE  SessionsKept /\ PageKept
<1> DEFINE c == page.current
<1>1. page' = [page EXCEPT !.state = "recording"]
  BY DEF OnTriggered
<1>2. PageKept
  <2>1. /\ IsPage(page', armed) /\ page'.state = "recording"
        /\ page'.current = page.current /\ page'.capacity = page.capacity
    BY <1>1, CaptureFacts, StateChanges
  <2> QED
    BY <2>1, CaptureFacts DEF PageKept
<1>3. CASE c = NoArm
  <2>1. UNCHANGED session
    BY <1>3 DEF OnTriggered
  <2> QED
    BY <1>2, <2>1, SameSessions
<1>4. CASE c # NoArm
  <2>1. c \in Arms /\ c <= armed /\ IsSession(session[c]) /\ Awaits(session[c])
    BY <1>4, CaptureFacts
  <2> DEFINE s == session[c]
             m == Head(toPage)
             before == SelectSeq(s.pre, LAMBDA x : x < m.seq)
             kept == IF limits.pre = 0 THEN before ELSE LastOf(before, limits.pre)
             after == SelectSeq(s.pre, LAMBDA x : x >= m.seq)
             dropped == IF m.dropped > s.dropped THEN m.dropped ELSE s.dropped
             chain == IF s.chain = <<>> \/ s.broken THEN <<Write("begin")>>
                      ELSE <<Head(s.chain), Write("begin")>> \o Tail(s.chain)
             b == [s EXCEPT !.id = m.id, !.trigger = m.seq, !.triggered = TRUE,
                     !.begun = TRUE, !.again = s.triggered, !.pre = <<>>,
                     !.broken = FALSE, !.dropped = dropped, !.chain = chain,
                     !.timer = TRUE]
             q == QueueSamples(b, kept \o after)
             e == Finalized(q, TRUE, ws = "open")
             t == IF q.error /\ ~s.error THEN e ELSE q
  <2>4. session' = [session EXCEPT ![c] = t]
    BY <1>4 DEF OnTriggered
  <2> HIDE DEF chain, dropped, m
  <2>5. IsSession(b) /\ b.finalize = s.finalize /\ b.handshake = s.handshake
    BY <2>1 DEF IsSession
  <2> HIDE DEF b
  <2>6. IsSession(q) /\ q.finalize = s.finalize /\ q.handshake = s.handshake
    BY <2>5, QueueSamplesDoes DEF SameEnd
  <2> HIDE DEF q
  <2>7. Awaits(q) /\ (Saving(s) => Saving(q))
    BY <2>1, <2>6 DEF Awaits, Saving
  <2>8. IsSession(e) /\ Awaits(e) /\ (Saving(q) => Saving(e))
    BY <2>6, <2>7, FinalizedDoes
  <2> HIDE DEF e
  <2>9. IsSession(t) /\ Awaits(t) /\ (Saving(s) => Saving(t))
    BY <2>6, <2>7, <2>8
  <2> HIDE DEF t
  <2> QED
    BY <1>2, <2>1, <2>4, <2>9, OneSession
<1> QED
  BY <1>3, <1>4

LEMMA MessageStep ==
  ASSUME CaptureInv, MessageNext, UNCHANGED limits
  PROVE  CaptureInv'
<1>1. ArchivesKept /\ armed' = armed
  BY SameArchives DEF MessageNext, OnTelemetry, OnArmed, OnTriggered, OnStopped,
     OnStopError, OnCaptureError, Received, store
<1>2. CASE OnTelemetry
  BY <1>1, <1>2, TelemetryStep, KeepingStep
<1>3. CASE OnArmed
  <2>1. SessionsKept
    BY <1>3, SameSessions DEF OnArmed
  <2>2. page' = [page EXCEPT !.pending = FALSE, !.state = "armed", !.promise = NoArm]
    BY <1>3 DEF OnArmed
  <2>3. /\ IsPage(page', armed) /\ page'.state = "armed"
        /\ page'.current = page.current /\ page'.capacity = page.capacity
    BY <2>2, CaptureFacts DEF IsPage
  <2>4. PageKept
    BY <2>3, CaptureFacts DEF PageKept
  <2> QED
    BY <1>1, <2>1, <2>4, KeepingStep
<1>4. CASE OnTriggered
  BY <1>1, <1>4, TriggeredStep, KeepingStep
<1>5. CASE OnStopped
  <2> DEFINE c == page.current
             s == [session[c] EXCEPT !.handshake = "acked"]
  <2>1. CASE UNCHANGED <<session, page>>
    BY <1>1, <2>1, SameSessions, SamePage, KeepingStep
  <2>2. CASE ~UNCHANGED <<session, page>>
    <3>1. /\ c # NoArm /\ session[c].handshake = "pending"
          /\ session' = [session EXCEPT ![c] = s]
          /\ page' = [page EXCEPT !.state = "receiving"]
      BY <1>5, <2>2 DEF OnStopped
    <3>2. c \in Arms /\ c <= armed /\ IsSession(session[c]) /\ Awaits(session[c])
      BY <3>1, CaptureFacts
    <3>3. IsSession(s) /\ s.handshake = "acked" /\ s.finalize = session[c].finalize
      BY <3>2 DEF IsSession
    <3> HIDE DEF s
    <3>4. Awaits(s) /\ Saving(s)
      BY <3>1, <3>2, <3>3 DEF Awaits, Saving
    <3>5. SessionsKept /\ session'[c] = s
      BY <3>1, <3>2, <3>3, <3>4, OneSession
    <3>6. IsPage(page', armed) /\ page'.current = page.current
          /\ page'.capacity = page.capacity
      BY <3>1, CaptureFacts, StateChanges
    <3>7. PageKept
      BY <3>2, <3>4, <3>5, <3>6, CaptureFacts DEF PageKept
    <3> QED
      BY <1>1, <3>5, <3>7, KeepingStep
  <2> QED
    BY <2>1, <2>2
<1>6. CASE OnStopError
  <2> DEFINE c == page.current
             s == FailedHandshake(session[c])
  <2>1. PageKept
    BY <1>6, SamePage DEF OnStopError
  <2>2. CASE c = NoArm
    BY <1>1, <1>6, <2>1, <2>2, SameSessions, KeepingStep DEF OnStopError
  <2>3. CASE c # NoArm
    <3>1. session' = [session EXCEPT ![c] = s]
      BY <1>6, <2>3 DEF OnStopError
    <3>2. c \in Arms /\ c <= armed /\ IsSession(session[c])
      BY <2>3, CaptureFacts
    <3>3. IsSession(s) /\ s.handshake # "pending" /\ s.finalize = session[c].finalize
      BY <3>2, FailedHandshakeDoes
    <3> HIDE DEF s
    <3>4. Awaits(s) /\ (Saving(session[c]) => Saving(s))
      BY <3>3 DEF Awaits, Saving
    <3> QED
      BY <1>1, <2>1, <3>1, <3>2, <3>3, <3>4, OneSession, KeepingStep
  <2> QED
    BY <2>2, <2>3
<1>7. CASE OnCaptureError
  BY <1>1, <1>7, ResetKeeps, KeepingStep DEF OnCaptureError
<1> QED
  BY <1>2, <1>3, <1>4, <1>5, <1>6, <1>7 DEF MessageNext

\* One archive changes; that of a recording under way is not complete.
LEMMA OneArchive ==
  ASSUME CaptureInv, NEW a \in Arms, a <= armed, NEW r, IsArchive(r),
         r.status = "complete" => archive[a].status = "complete",
         archive' = [archive EXCEPT ![a] = r],
         chunk' = [x \in Arms |-> chunk'[x]]
  PROVE  ArchivesKept
<1>1. /\ archive = [x \in Arms |-> archive[x]]
      /\ \A x \in Arms : IsArchive(archive[x])
  BY DEF CaptureInv, CaptureShapes
<1>2. archive' = [x \in Arms |-> IF x = a THEN r ELSE archive[x]]
  BY <1>1
<1>3. \A x \in Arms : archive'[x] = IF x = a THEN r ELSE archive[x]
  BY <1>2
<1>4. archive' = [x \in Arms |-> archive'[x]]
  BY <1>2
<1>5. \A x \in Arms : x > armed => archive'[x] = NoArchive
  BY <1>3, CaptureFacts DEF CaptureInv, Unarmed, Arms
<1> QED
  BY <1>1, <1>3, <1>4, <1>5 DEF ArchivesKept

\* A write of a session that succeeds.
LEMMA WrittenKeeps ==
  ASSUME CaptureInv, NEW a \in Arms, a <= armed, NEW w, Written(a, w),
         archive[a].status # "complete"
  PROVE  ArchivesKept
<1>1. chunk = [x \in Arms |-> chunk[x]] /\ IsArchive(archive[a])
  BY DEF CaptureInv, CaptureShapes
<1>2. CASE w.op = "begin" /\ UNCHANGED chunk
           /\ Put(a, [archive[a] EXCEPT !.status = "recording", !.chunks = 0,
                        !.samples = 0, !.again = session[a].again])
  <2> DEFINE r == [archive[a] EXCEPT !.status = "recording", !.chunks = 0,
                     !.samples = 0, !.again = session[a].again]
  <2>1. IsArchive(r) /\ r.status = "recording"
    BY <1>1 DEF IsArchive
  <2>2. archive' = [archive EXCEPT ![a] = r]
    BY <1>2 DEF Put
  <2> HIDE DEF r
  <2> QED
    BY <1>1, <1>2, <2>1, <2>2, OneArchive
<1>3. CASE Put(a, archive[a]) /\ UNCHANGED chunk
  BY <1>1, <1>3, OneArchive DEF Put
<1>4. ASSUME NEW n, NEW k, NEW f,
             chunk' = [chunk EXCEPT ![a] = f],
             Put(a, [archive[a] EXCEPT !.chunks = n, !.samples = k])
      PROVE  ArchivesKept
  <2> DEFINE r == [archive[a] EXCEPT !.chunks = n, !.samples = k]
  <2>1. IsArchive(r) /\ r.status = archive[a].status
    BY <1>1 DEF IsArchive
  <2>2. archive' = [archive EXCEPT ![a] = r]
    BY <1>4 DEF Put
  <2>3. chunk' = [x \in Arms |-> IF x = a THEN f ELSE chunk[x]]
    BY <1>1, <1>4
  <2>4. chunk' = [x \in Arms |-> chunk'[x]]
    BY <2>3
  <2> HIDE DEF r
  <2> QED
    BY <2>1, <2>2, <2>4, OneArchive
<1>5. CASE archive' = [archive EXCEPT ![a] = NoArchive] /\ chunk' = [chunk EXCEPT ![a] = <<>>]
  <2>1. IsArchive(NoArchive) /\ NoArchive.status = "none"
    BY DEF IsArchive, NoArchive
  <2>2. chunk' = [x \in Arms |-> IF x = a THEN <<>> ELSE chunk[x]]
    BY <1>1, <1>5
  <2>3. chunk' = [x \in Arms |-> chunk'[x]]
    BY <2>2
  <2> QED
    BY <1>5, <2>1, <2>3, OneArchive
<1>6. CASE w.op = "append"
  <2> DEFINE old == chunk[a]
             known == w.index \in DOMAIN old
             had == IF known THEN Len(old[w.index]) ELSE 0
             n == IF known THEN archive[a].chunks ELSE archive[a].chunks + 1
             k == archive[a].samples - had + Len(w.data)
             f == [i \in DOMAIN old \cup {w.index} |->
                     IF i = w.index THEN w.data ELSE old[i]]
  <2>1. /\ chunk' = [chunk EXCEPT ![a] = f]
        /\ Put(a, [archive[a] EXCEPT !.chunks = n, !.samples = k])
    BY <1>6 DEF Written
  <2> HIDE DEF n, k, f
  <2> QED
    BY <1>4, <2>1
<1> QED
  BY <1>2, <1>3, <1>5, <1>6 DEF Written

LEMMA WriteStep ==
  ASSUME CaptureInv, NEW a \in Arms, WriteNext(a), UNCHANGED limits
  PROVE  CaptureInv'
<1> DEFINE s == session[a]
           w == Head(s.chain)
           rest == [s EXCEPT !.chain = Tail(@)]
           failed == [rest EXCEPT !.broken = TRUE,
                                  !.error = w.op \in {"append", "renew"} \/ @]
           ss == [session EXCEPT ![a] = failed]
           Fails == /\ IF failed.error /\ ~s.error /\ ~w.quiet
                         THEN FinalizeCurrent(ss, TRUE)
                         ELSE session' = ss /\ UNCHANGED <<page, toDevice>>
                    /\ UNCHANGED <<store, other>>
<1>1. s.chain # <<>> /\ armed' = armed
  BY DEF WriteNext
<1>2. a <= armed /\ IsSession(s) /\ Awaits(s) /\ ~Settled(s)
  BY <1>1, CaptureFacts DEF NewSession, Settled, Arms
<1>3. archive[a].status # "complete"
  BY <1>2 DEF CaptureInv, CompleteRests
<1>4. IsSession(rest) /\ SameEnd(s, rest)
  BY <1>2 DEF IsSession, SameEnd
<1>5. IsSession(failed) /\ SameEnd(rest, failed)
  <2> HIDE DEF rest
  <2> QED
    BY <1>4 DEF IsSession, SameEnd
<1>6. Fails \/ (Written(a, w) /\ session' = [session EXCEPT ![a] = rest] /\ UNCHANGED page)
  BY DEF WriteNext
<1> HIDE DEF rest
<1>7. CASE Fails
  <2> HIDE DEF failed
  <2>1. Awaits(failed) /\ (Saving(s) => Saving(failed))
    BY <1>2, <1>4, <1>5 DEF SameEnd, Awaits, Saving
  <2>2. ArchivesKept
    BY <1>7, SameArchives DEF store
  <2>3. CASE FinalizeCurrent(ss, TRUE)
    <3>1. Sessions(ss)
      BY <1>5, <2>1, CaptureFacts, SessionChanges
    <3>2. \A x \in Arms : ss[x] = IF x = a THEN failed ELSE session[x]
      BY CaptureFacts DEF Sessions
    <3> HIDE DEF ss
    <3>3. \A x \in Arms :
            /\ x > armed => ss[x] = NewSession
            /\ x # page.current /\ Settled(session[x]) => Settled(ss[x])
            /\ Saving(session[x]) => Saving(ss[x])
      BY <1>2, <2>1, <3>2, CaptureFacts DEF Arms
    <3> QED
      BY <1>1, <2>2, <2>3, <3>1, <3>3, FinalizeKeeps, KeepingStep
  <2>4. CASE session' = ss /\ UNCHANGED page
    BY <1>1, <1>2, <1>5, <2>1, <2>2, <2>4, OneSession, SamePage, KeepingStep
  <2> QED
    BY <1>7, <2>3, <2>4
<1>8. CASE Written(a, w) /\ session' = [session EXCEPT ![a] = rest] /\ UNCHANGED page
  <2>1. Awaits(rest) /\ (Saving(s) => Saving(rest))
    BY <1>2, <1>4 DEF SameEnd, Awaits, Saving
  <2>2. ArchivesKept
    BY <1>2, <1>3, <1>8, WrittenKeeps
  <2> QED
    BY <1>1, <1>2, <1>4, <1>8, <2>1, <2>2, OneSession, SamePage, KeepingStep
<1> QED
  BY <1>6, <1>7, <1>8

\* A recording is sealed, or its seal has failed: its archive may become
\* complete once the chain has drained, and the page is idle.
LEMMA DoneStep ==
  ASSUME CaptureInv, NEW a \in Arms, Saving(session[a]), NEW failed \in BOOLEAN,
         FinalizeDone(a, failed), NEW r, IsArchive(r),
         archive' = [archive EXCEPT ![a] = r],
         r.status = "complete" => session[a].chain = <<>>,
         session[a].handshake # "pending",
         UNCHANGED <<chunk, armed, limits>>
  PROVE  CaptureInv'
<1> DEFINE s == session[a]
           t == [s EXCEPT !.finalize = "done", !.broken = @ \/ failed]
<1>1. a <= armed /\ IsSession(s)
  BY CaptureFacts DEF NewSession, Saving, Arms
<1>2. session' = [session EXCEPT ![a] = t]
  BY CaptureFacts DEF FinalizeDone, Sessions
<1>3. /\ IsSession(t) /\ Awaits(t) /\ t.finalize = "done" /\ t.chain = s.chain
  BY <1>1 DEF IsSession, Awaits
<1> HIDE DEF t
<1>4. Sessions(session')
  BY <1>2, <1>3, CaptureFacts, SessionChanges
<1>5. \A x \in Arms : session'[x] = IF x = a THEN t ELSE session[x]
  BY <1>2, CaptureFacts DEF Sessions
<1>6. /\ IsPage(page', armed) /\ page'.state = "idle"
      /\ page'.capacity = page.capacity
      /\ page'.current = IF page.current = a THEN NoArm ELSE page.current
  <2> DEFINE n == IF page.current = a THEN 0 ELSE page.current
             x == page.crossed \/ page.current \notin {a, NoArm}
  <2>1. page' = [page EXCEPT !.state = "idle", !.current = n, !.crossed = x]
    BY CaptureFacts DEF FinalizeDone, IsPage, NoArm
  <2>2. n \in 0..armed
    BY CaptureFacts DEF IsPage
  <2> HIDE DEF x, n
  <2>3. /\ IsPage(page', armed) /\ page'.state = "idle"
        /\ page'.capacity = page.capacity /\ page'.current = n
    BY <2>1, <2>2, CaptureFacts DEF IsPage
  <2> QED
    BY <2>3 DEF n, NoArm
<1>7. /\ archive = [x \in Arms |-> archive[x]] /\ \A x \in Arms : IsArchive(archive[x])
      /\ chunk = [x \in Arms |-> chunk[x]]
  BY DEF CaptureInv, CaptureShapes
<1>8. archive' = [x \in Arms |-> IF x = a THEN r ELSE archive[x]]
  BY <1>7
<1>9. /\ archive' = [x \in Arms |-> archive'[x]]
      /\ \A x \in Arms : archive'[x] = IF x = a THEN r ELSE archive[x]
  BY <1>8
<1>10. CaptureShapes'
  <2>1. \A x \in Arms : IsArchive(archive'[x])
    BY <1>7, <1>9
  <2> QED
    BY <1>4, <1>6, <1>7, <1>9, <2>1, CaptureFacts DEF CaptureInv, CaptureShapes
<1>11. Unarmed'
  BY <1>1, <1>5, <1>9, CaptureFacts DEF CaptureInv, Unarmed, Arms
<1>12. CompleteRests'
  <2> SUFFICES ASSUME NEW x \in Arms, archive'[x].status = "complete"
               PROVE  x # page'.current /\ Settled(session'[x])
    BY DEF CompleteRests, Settled, Saving
  <2>1. CASE x = a
    BY <1>3, <1>5, <1>6, <1>9, <2>1, PowerCaptureAssumption
    DEF Settled, Saving, Arms, NoArm
  <2>2. CASE x # a
    BY <1>5, <1>6, <1>9, <2>2, PowerCaptureAssumption
    DEF CaptureInv, CompleteRests, Arms, NoArm
  <2> QED
    BY <2>1, <2>2
<1>13. ReceivingIsSaved'
  BY <1>6 DEF ReceivingIsSaved
<1> QED
  BY <1>10, <1>11, <1>12, <1>13 DEF CaptureInv

LEMMA SealStep ==
  ASSUME CaptureInv, NEW a \in Arms, FinalizeSeal(a) \/ FinalizeAbort(a),
         UNCHANGED limits
  PROVE  CaptureInv'
<1> DEFINE s == session[a]
<1>1. /\ Saving(s) /\ s.handshake # "pending" /\ IsSession(s)
      /\ UNCHANGED <<chunk, armed>>
  BY CaptureFacts DEF FinalizeSeal, FinalizeAbort, Saving, Awaits
<1>2. a <= armed
  BY <1>1, CaptureFacts DEF NewSession, Saving, Arms
<1>3. IsArchive(archive[a]) /\ archive[a].status # "complete"
      /\ archive = [x \in Arms |-> archive[x]]
  BY <1>1 DEF CaptureInv, CaptureShapes, CompleteRests, Settled
<1>4. ASSUME NEW st, Put(a, [archive[a] EXCEPT !.status = st]), FinalizeDone(a, FALSE),
             st = "complete" => s.chain = <<>>
      PROVE  CaptureInv'
  <2> DEFINE r == [archive[a] EXCEPT !.status = st]
  <2>1. IsArchive(r) /\ r.status = st /\ archive' = [archive EXCEPT ![a] = r]
    BY <1>3, <1>4 DEF IsArchive, Put
  <2> HIDE DEF r
  <2> QED
    BY <1>1, <1>4, <2>1, DoneStep
<1>5. CASE FinalizeSeal(a)
  <2>1. CASE s.chain = <<>> /\ Put(a, [archive[a] EXCEPT !.status =
               IF Whole(a) THEN "complete" ELSE "interrupted"])
             /\ FinalizeDone(a, FALSE)
    BY <1>4, <2>1
  <2>2. CASE session' = [session EXCEPT ![a].finalize = "abort"]
             /\ UNCHANGED <<archive, page, other>>
    <3> DEFINE t == [s EXCEPT !.finalize = "abort"]
    <3>1. session' = [session EXCEPT ![a] = t]
      BY <2>2, CaptureFacts DEF Sessions
    <3>2. IsSession(t) /\ Awaits(t) /\ Saving(t)
      BY <1>1 DEF IsSession, Awaits, Saving
    <3> HIDE DEF t
    <3>3. SessionsKept
      BY <1>1, <1>2, <3>1, <3>2, OneSession DEF Settled
    <3> QED
      BY <1>1, <2>2, <3>3, SameArchives, SamePage, KeepingStep
  <2> QED
    BY <1>5, <2>1, <2>2 DEF FinalizeSeal
<1>6. CASE FinalizeAbort(a)
  <2>1. CASE Put(a, [archive[a] EXCEPT !.status =
               IF session[a].error THEN "failed" ELSE "interrupted"])
             /\ FinalizeDone(a, FALSE)
    BY <1>4, <2>1
  <2>2. CASE FinalizeDone(a, TRUE) /\ UNCHANGED archive
    <3>1. archive' = [archive EXCEPT ![a] = archive[a]]
      BY <1>3, <2>2
    <3> QED
      BY <1>1, <1>3, <2>2, <3>1, DoneStep
  <2> QED
    BY <1>6, <2>1, <2>2 DEF FinalizeAbort
<1> QED
  BY <1>5, <1>6

LEMMA SaveStep ==
  ASSUME CaptureInv, SaveNext, UNCHANGED limits
  PROVE  CaptureInv'
<1>1. PICK a \in Arms : \/ StopTimer(a) \/ StopTimeout(a) \/ WriteNext(a)
                        \/ FinalizeStopped(a) \/ FinalizeSeal(a) \/ FinalizeAbort(a)
  BY DEF SaveNext
<1> DEFINE s == session[a]
<1>2. IsSession(s) /\ Awaits(s) /\ (s = NewSession \/ a <= armed)
  BY CaptureFacts DEF Arms
<1>3. CASE StopTimer(a)
  <2> DEFINE t == [s EXCEPT !.timer = FALSE]
             ss == [session EXCEPT ![a] = t]
  <2>1. /\ s.timer /\ FinalizeCurrent([session EXCEPT ![a].timer = FALSE], FALSE)
        /\ UNCHANGED <<archive, chunk, armed>>
    BY <1>3 DEF StopTimer, store
  <2>2. [session EXCEPT ![a].timer = FALSE] = ss
    BY CaptureFacts DEF Sessions
  <2>3. /\ IsSession(t) /\ SameEnd(s, t) /\ t.chain = s.chain
    BY <1>2 DEF IsSession, SameEnd
  <2> HIDE DEF t
  <2>4. Awaits(t)
    BY <1>2, <2>3 DEF Awaits, SameEnd
  <2>5. Sessions(ss)
    BY <2>3, <2>4, CaptureFacts, SessionChanges
  <2>6. \A x \in Arms : ss[x] = IF x = a THEN t ELSE session[x]
    BY CaptureFacts DEF Sessions
  <2>7. a <= armed
    BY <1>2, <2>1 DEF NewSession
  <2>8. FinalizeCurrent(ss, FALSE)
    BY <2>1, <2>2
  <2> HIDE DEF ss
  <2>9. \A x \in Arms :
          /\ x > armed => ss[x] = NewSession
          /\ x # page.current /\ Settled(session[x]) => Settled(ss[x])
          /\ Saving(session[x]) => Saving(ss[x])
    BY <2>3, <2>6, <2>7, CaptureFacts DEF Arms, SameEnd, Settled, Saving
  <2> QED
    BY <2>1, <2>5, <2>8, <2>9, FinalizeKeeps, SameArchives, KeepingStep
<1>4. CASE StopTimeout(a)
  <2> DEFINE t == [s EXCEPT !.handshake = "failed"]
  <2>1. /\ s.handshake = "pending" /\ UNCHANGED <<archive, chunk, armed, page>>
        /\ session' = [session EXCEPT ![a] = t]
    BY <1>4, CaptureFacts DEF StopTimeout, store, Sessions
  <2>2. /\ IsSession(t) /\ t.handshake = "failed" /\ t.finalize = s.finalize
        /\ t.chain = s.chain
    BY <1>2 DEF IsSession
  <2> HIDE DEF t
  <2>3. a <= armed
    BY <1>2, <2>1 DEF NewSession
  <2>4. SessionsKept
    BY <2>1, <2>2, <2>3, OneSession DEF Awaits, Saving, Settled
  <2> QED
    BY <2>1, <2>4, SameArchives, SamePage, KeepingStep
<1>5. CASE FinalizeStopped(a)
  <2> DEFINE f == Flushed(s)
             t == [f EXCEPT !.finalize = "drain",
                            !.incomplete = @ \/ s.handshake = "failed"]
  <2>1. /\ s.finalize = "stop" /\ s.handshake # "pending"
        /\ session' = [session EXCEPT ![a] = t]
        /\ UNCHANGED <<archive, chunk, armed, page>>
    BY <1>5 DEF FinalizeStopped, store
  <2>2. IsSession(f) /\ SameEnd(s, f)
    BY <1>2, FlushedDoes
  <2> HIDE DEF f
  <2>3. IsSession(t) /\ t.handshake = f.handshake /\ t.finalize = "drain"
    BY <2>2 DEF IsSession
  <2> HIDE DEF t
  <2>4. a <= armed
    BY <1>2, <2>1 DEF NewSession
  <2>5. Awaits(t) /\ Saving(t) /\ ~Settled(s)
    BY <2>1, <2>2, <2>3 DEF Awaits, Saving, Settled, SameEnd
  <2>6. SessionsKept
    BY <2>1, <2>3, <2>4, <2>5, OneSession
  <2> QED
    BY <2>1, <2>6, SameArchives, SamePage, KeepingStep
<1> QED
  BY <1>1, <1>3, <1>4, <1>5, WriteStep, SealStep

LEMMA RecoverStep ==
  ASSUME CaptureInv, RecoverNext, UNCHANGED limits
  PROVE  CaptureInv'
<1>1. CASE OtherClears
  BY <1>1, ClearedStep DEF OtherClears
<1>2. CASE ~OtherClears
  <2>1. UNCHANGED <<session, armed, page, chunk>>
    BY <1>2 DEF RecoverNext, RecoverList, RecoverRebuild, RecoverCommit, store, pageSide
  <2>2. CASE UNCHANGED archive
    BY <2>1, <2>2, SameArchives, SameSessions, SamePage, KeepingStep
  <2>3. CASE ~UNCHANGED archive
    <3> DEFINE a == other.arm
               r == [archive[a] EXCEPT !.status = "interrupted", !.samples = other.samples]
    <3>1. Recoverable(a) /\ archive' = [archive EXCEPT ![a] = r]
      BY <1>2, <2>3 DEF RecoverNext, RecoverList, RecoverRebuild, RecoverCommit, store
    <3>2. /\ archive = [x \in Arms |-> archive[x]]
          /\ \A x \in Arms : IsArchive(archive[x])
          /\ chunk' = [x \in Arms |-> chunk'[x]]
      BY <2>1 DEF CaptureInv, CaptureShapes
    <3>3. a \in Arms
      BY <2>3, <3>1, <3>2
    <3>4. a <= armed
      BY <3>1, <3>3, CaptureFacts DEF CaptureInv, Unarmed, Recoverable, NoArchive, Arms
    <3>5. IsArchive(r) /\ r.status = "interrupted"
      BY <3>2, <3>3 DEF IsArchive
    <3> HIDE DEF r
    <3>6. ArchivesKept
      BY <3>1, <3>2, <3>3, <3>4, <3>5, OneArchive
    <3> QED
      BY <2>1, <3>6, SameSessions, SamePage, KeepingStep
  <2> QED
    BY <2>2, <2>3
<1> QED
  BY <1>1, <1>2

LEMMA CaptureStep ==
  ASSUME CaptureInv, [CaptureNext]_captureVars
  PROVE  CaptureInv'
<1>1. CASE UNCHANGED captureVars
  <2>1. UNCHANGED <<archive, chunk, session, armed, page, limits>>
    BY <1>1 DEF captureVars
  <2> QED
    BY <2>1, SameArchives, SameSessions, SamePage, KeepingStep
<1>2. CASE CaptureNext
  BY <1>2, UserStep, LinkStep, MessageStep, SaveStep, RecoverStep DEF CaptureNext
<1> QED
  BY <1>1, <1>2

LEMMA CaptureStarts ==
  ASSUME CaptureInit
  PROVE  CaptureInv
<1>1. IsSession(NewSession) /\ Awaits(NewSession) /\ IsArchive(NoArchive)
  BY DEF IsSession, Awaits, NewSession, IsArchive, NoArchive
<1>2. /\ Sessions(session) /\ \A a \in Arms : session[a] = NewSession
  BY <1>1 DEF CaptureInit, Sessions
<1>3. IsPage(page, armed) /\ page.state = "idle" /\ page.capacity = FALSE
  BY DEF CaptureInit, IsPage, IdlePage, NoArm
<1>4. \A a \in Arms : archive[a] = NoArchive
  BY DEF CaptureInit
<1>5. CaptureShapes
  BY <1>1, <1>2, <1>3, <1>4, PowerCaptureAssumption DEF CaptureInit, CaptureShapes
<1>6. Unarmed /\ CompleteRests
  BY <1>2, <1>4 DEF Unarmed, CompleteRests, NoArchive
<1> QED
  BY <1>3, <1>5, <1>6 DEF CaptureInv, ReceivingIsSaved

\* However recordings are armed, triggered, stopped, cancelled, saved, recovered and
\* pruned: a complete archive has no recorder, write or end under way, only the
\* end of a recording that can still be settled is awaited, and the page says that it
\* receives only while a recording is being saved (ReceivingIsSaved, a part of
\* RecordingsAreSound).
THEOREM CaptureInvariant == CaptureSpec => []CaptureInv
<1>1. CaptureInit => CaptureInv
  BY CaptureStarts
<1>2. CaptureInv /\ [CaptureNext]_captureVars => CaptureInv'
  BY CaptureStep
<1> QED
  BY <1>1, <1>2, PTL DEF CaptureSpec

\* The steps that write to an archive are those of a recording that is under way,
\* of a recovery and of who deletes it.
LEMMA CompleteStays ==
  ASSUME CaptureInv, [CaptureNext]_captureVars, NEW a \in Arms,
         archive[a].status = "complete"
  PROVE  \/ archive'[a] = NoArchive
         \/ archive'[a] = archive[a] /\ chunk'[a] = chunk[a]
<1>1. /\ archive = [x \in Arms |-> archive[x]] /\ chunk = [x \in Arms |-> chunk[x]]
  BY DEF CaptureInv, CaptureShapes
<1>2. Settled(session[a])
  BY DEF CaptureInv, CompleteRests
<1>3. CASE UNCHANGED <<archive, chunk>>
  BY <1>3
<1>4. ASSUME NEW x \in Arms, x # a,
             \E r : archive' = [archive EXCEPT ![x] = r],
             \/ UNCHANGED chunk
             \/ \E f : chunk' = [chunk EXCEPT ![x] = f]
      PROVE  archive'[a] = archive[a] /\ chunk'[a] = chunk[a]
  BY <1>1, <1>4
<1>5. CASE ArmCommit
  BY <1>5 DEF ArmCommit
<1>6. CASE ClearClicked \/ OtherClears
  BY <1>6 DEF ClearClicked, OtherClears, Cleared
<1>7. ASSUME NEW x \in Arms, WriteNext(x) \/ FinalizeSeal(x) \/ FinalizeAbort(x)
      PROVE  archive'[a] = archive[a] /\ chunk'[a] = chunk[a]
  <2>1. x # a
    BY <1>2, <1>7 DEF WriteNext, FinalizeSeal, FinalizeAbort, Settled, Saving
  <2>2. \/ UNCHANGED archive
        \/ \E r : archive' = [archive EXCEPT ![x] = r]
    BY <1>7 DEF WriteNext, FinalizeSeal, FinalizeAbort, Written, Put, store
  <2>3. \/ UNCHANGED chunk
        \/ \E f : chunk' = [chunk EXCEPT ![x] = f]
    BY <1>7 DEF WriteNext, FinalizeSeal, FinalizeAbort, Written, Put, store
  <2> QED
    BY <1>1, <2>1, <2>2, <2>3
<1>8. CASE RecoverCommit
  <2>1. UNCHANGED chunk
    BY <1>8 DEF RecoverCommit
  <2>2. \/ UNCHANGED archive
        \/ /\ archive[other.arm].status = "recording"
           /\ \E r : archive' = [archive EXCEPT ![other.arm] = r]
    BY <1>8 DEF RecoverCommit, Recoverable
  <2> QED
    BY <1>1, <2>1, <2>2
<1>9. CASE CaptureNext /\ ~UNCHANGED <<archive, chunk>>
  BY <1>5, <1>6, <1>7, <1>8, <1>9
  DEF CaptureNext, UserNext, LinkNext, DeviceNext, MessageNext, SaveNext, RecoverNext,
      Arm, CapacityRefused, TriggerClicked, StopClicked, CancelClicked, GoLive,
      LeaveLive, PageReloads, SocketCreated, SocketOpens, SocketFails, DeviceHandles,
      DeviceSamples, DeviceTelemetry, DeviceNotice, OnTelemetry, OnArmed, OnTriggered,
      OnStopped, OnStopError, OnCaptureError, Received, StopTimer, StopTimeout,
      FinalizeStopped, RecoverList, RecoverRebuild, store
<1> QED
  BY <1>3, <1>9 DEF captureVars

\* A complete archive is never reopened or changed, by a late write, a second end,
\* a recovery or another tab; it can only be deleted.
THEOREM CompleteHolds == CaptureSpec => CompleteIsFinal
<1>1. CaptureInv /\ [CaptureNext]_captureVars =>
        [\A a \in Arms : archive[a].status = "complete" =>
           \/ archive'[a] = NoArchive
           \/ archive'[a] = archive[a] /\ chunk'[a] = chunk[a]]_captureVars
  BY CompleteStays
<1> QED
  BY <1>1, CaptureInvariant, PTL DEF CaptureSpec, CompleteIsFinal

-----------------------------------------------------------------------------
(* Open recordings are attended.                                           *)

\* What waits in a chain of writes: a chain is a sequence of some set.
IsList(q) == \E S : q \in Seq(S)
Begins(q) == \E i \in 1..Len(q) : q[i].op = "begin"
Deletes(q) == \E i \in 1..Len(q) : q[i] = Write("delete")
InOrder(q) ==
  \A i, j \in 1..Len(q) : i < j /\ q[i] = Write("delete") => q[j].op # "begin"

\* A session has flags and a chain; before its trigger nothing is written or
\* ended; a begin that waits while its archive is aborted is of a second trigger.
IsRecorder(s) ==
  /\ IsList(s.chain) /\ InOrder(s.chain)
  /\ s.triggered \in BOOLEAN /\ s.again \in BOOLEAN /\ s.broken \in BOOLEAN
  /\ s.begun = s.triggered
  /\ s.triggered = FALSE => s.chain = <<>> /\ s.finalize = "none"
  /\ s.finalize = "abort" /\ Begins(s.chain) => s.again = TRUE

\* Who settles the recording of session s, if its archive is or becomes open.
Held(a, s) ==
  \/ a = page.current /\ s.triggered = TRUE
  \/ Saving(s)
  \/ s.broken = TRUE \/ s = NewSession \/ page.crossed = TRUE
  \/ Deletes(s.chain)

Tended(a) ==
  LET s == session[a] IN
  /\ IsRecorder(s)
  /\ Deletes(s.chain) => a # page.current
  /\ archive[a].status = "recording" /\ s.triggered = FALSE =>
       s = NewSession /\ a # page.current
  /\ archive[a].status = "recording" /\ archive[a].again = FALSE => Held(a, s)
  /\ Begins(s.chain) /\ s.again = FALSE => Held(a, s)

\* A page that may arm has no recording of its own.
PageFree ==
  /\ page.crossed \in BOOLEAN
  /\ page.state = "idle" \/ page.capacity =>
       page.current = NoArm \/ page.crossed = TRUE

AttendInv == CaptureInv /\ PageFree /\ \A a \in Arms : Tended(a) /\ archive[a].again \in BOOLEAN

-----------------------------------------------------------------------------
(* The chains.                                                             *)

\* Writes were added behind, none of which begins or deletes.
Grows(q, t) ==
  /\ IsList(t)
  /\ Begins(t) => Begins(q)
  /\ Deletes(q) <=> Deletes(t)
  /\ InOrder(q) => InOrder(t)

LEMMA ListLen ==
  ASSUME NEW q, IsList(q)
  PROVE  Len(q) \in Nat
  BY LenProperties DEF IsList

LEMMA GrowsSelf ==
  ASSUME NEW q, IsList(q)
  PROVE  Grows(q, q)
  BY DEF Grows

LEMMA GrowsOn ==
  ASSUME NEW q, NEW r, NEW t, Grows(q, r), Grows(r, t)
  PROVE  Grows(q, t)
  BY DEF Grows

\* One list behind another, as one set of elements sees them.
LEMMA ListsJoin ==
  ASSUME NEW q, NEW r, IsList(q), IsList(r)
  PROVE  /\ IsList(q \o r) /\ Len(q \o r) = Len(q) + Len(r)
         /\ \A i \in 1..(Len(q) + Len(r)) :
              (q \o r)[i] = IF i <= Len(q) THEN q[i] ELSE r[i - Len(q)]
<1>1. PICK S : q \in Seq(S)
  BY DEF IsList
<1>2. PICK T : r \in Seq(T)
  BY DEF IsList
<1> DEFINE U == S \cup T
<1>3. q \in Seq(U) /\ r \in Seq(U)
  <2>1. S \subseteq U /\ T \subseteq U
    OBVIOUS
  <2> HIDE DEF U
  <2> QED
    BY <1>1, <1>2, <2>1, SeqMonotonic
<1> HIDE DEF U
<1> QED
  BY <1>3, ConcatProperties DEF IsList

LEMMA ListOf ==
  ASSUME NEW n \in Nat, NEW r, r = [i \in 1..n |-> r[i]]
  PROVE  IsList(r) /\ Len(r) = n
<1> DEFINE S == {r[i] : i \in 1..n}
<1>1. r \in [1..n -> S] /\ DOMAIN r = 1..n
  OBVIOUS
<1> HIDE DEF S
<1>2. r \in Seq(S)
  BY <1>1, SeqDef
<1>3. Len(r) \in Nat /\ DOMAIN r = 1..Len(r)
  BY <1>2, LenProperties
<1>4. Len(r) = n
  BY <1>1, <1>3
<1> QED
  BY <1>2, <1>4 DEF IsList

LEMMA ListOne ==
  ASSUME NEW w
  PROVE  IsList(<<w>>) /\ Len(<<w>>) = 1 /\ <<w>>[1] = w
<1>1. <<w>> \in Seq({w})
  OBVIOUS
<1> QED
  BY <1>1 DEF IsList

LEMMA ListAppend ==
  ASSUME NEW q, IsList(q), NEW w
  PROVE  /\ IsList(Append(q, w)) /\ Len(Append(q, w)) = Len(q) + 1
         /\ \A i \in 1..Len(q) : Append(q, w)[i] = q[i]
         /\ Append(q, w)[Len(q) + 1] = w
<1>1. PICK S : q \in Seq(S)
  BY DEF IsList
<1> DEFINE U == S \cup {w}
<1>2. S \subseteq U /\ w \in U
  OBVIOUS
<1> HIDE DEF U
<1>3. q \in Seq(U)
  BY <1>1, <1>2, SeqMonotonic
<1> QED
  BY <1>2, <1>3, AppendProperties DEF IsList

LEMMA ListTail ==
  ASSUME NEW q, IsList(q), q # <<>>
  PROVE  /\ IsList(Tail(q)) /\ Len(q) \in Nat \ {0} /\ Len(Tail(q)) = Len(q) - 1
         /\ \A i \in 1..Len(Tail(q)) : Tail(q)[i] = q[i + 1]
         /\ Head(q) = q[1]
<1>1. PICK S : q \in Seq(S)
  BY DEF IsList
<1>2. Len(q) \in Nat \ {0}
  BY <1>1, EmptySeq
<1>3. Head(q) = q[1]
  BY <1>1
<1> QED
  BY <1>1, <1>2, <1>3, HeadTailProperties DEF IsList

LEMMA JoinGrows ==
  ASSUME NEW q, NEW r, IsList(q), IsList(r),
         \A i \in 1..Len(r) : r[i].op \notin {"begin", "delete"}
  PROVE  Grows(q, q \o r)
<1> DEFINE t == q \o r
<1>1. /\ IsList(t) /\ Len(t) = Len(q) + Len(r) /\ Len(q) \in Nat /\ Len(r) \in Nat
      /\ \A i \in 1..Len(t) : t[i] = IF i <= Len(q) THEN q[i] ELSE r[i - Len(q)]
  BY ListsJoin, ListLen
<1> HIDE DEF t
<1>2. \A i \in 1..Len(q) : i \in 1..Len(t) /\ t[i] = q[i]
  BY <1>1
<1>3. \A i \in 1..Len(t) : i \in 1..Len(q) \/ (i - Len(q) \in 1..Len(r) /\ t[i] = r[i - Len(q)])
  BY <1>1
<1>4. \A i \in 1..Len(t) :
        \/ i \in 1..Len(q) /\ t[i] = q[i]
        \/ t[i].op \notin {"begin", "delete"}
  BY <1>2, <1>3
<1>5. Write("delete").op = "delete"
  BY DEF Write
<1>6. Begins(t) => Begins(q)
  BY <1>4 DEF Begins
<1>7. Deletes(q) <=> Deletes(t)
  BY <1>2, <1>4, <1>5 DEF Deletes
<1>8. InOrder(q) => InOrder(t)
  BY <1>4, <1>5 DEF InOrder
<1> QED
  BY <1>1, <1>6, <1>7, <1>8 DEF Grows, t

LEMMA AppendGrows ==
  ASSUME NEW q, IsList(q), NEW w
  PROVE  /\ IsList(Append(q, w))
         /\ w.op \notin {"begin", "delete"} => Grows(q, Append(q, w))
         /\ w = Write("delete") => /\ Deletes(Append(q, w))
                                   /\ Begins(Append(q, w)) => Begins(q)
                                   /\ InOrder(q) => InOrder(Append(q, w))
<1> DEFINE t == Append(q, w)
           n == Len(q)
<1>1. /\ IsList(t) /\ Len(t) = n + 1 /\ n \in Nat /\ t[n + 1] = w
      /\ \A i \in 1..n : t[i] = q[i]
  BY ListAppend, ListLen
<1> HIDE DEF t, n
<1>2. \A i \in 1..n : i \in 1..(n + 1)
  BY <1>1
<1>3. \A i \in 1..(n + 1) : i \in 1..n \/ i = n + 1
  BY <1>1
<1>4. n + 1 \in 1..(n + 1)
  BY <1>1
<1>5. Write("delete").op = "delete"
  BY DEF Write
<1>6. ASSUME w.op \notin {"begin", "delete"}
      PROVE  Grows(q, t)
  <2>1. Begins(t) => Begins(q)
    BY <1>1, <1>3, <1>6 DEF Begins, n
  <2>2. Deletes(q) <=> Deletes(t)
    BY <1>1, <1>2, <1>3, <1>5, <1>6 DEF Deletes, n
  <2>3. InOrder(q) => InOrder(t)
    BY <1>1, <1>3, <1>5, <1>6 DEF InOrder, n
  <2> QED
    BY <1>1, <2>1, <2>2, <2>3 DEF Grows
<1>7. ASSUME w = Write("delete")
      PROVE  Deletes(t) /\ (Begins(t) => Begins(q)) /\ (InOrder(q) => InOrder(t))
  <2>1. Deletes(t)
    BY <1>1, <1>4, <1>7 DEF Deletes
  <2>2. Begins(t) => Begins(q)
    BY <1>1, <1>3, <1>5, <1>7 DEF Begins, n
  <2>3. InOrder(q) => InOrder(t)
    BY <1>1, <1>3, <1>5, <1>7 DEF InOrder, n
  <2> QED
    BY <2>1, <2>2, <2>3
<1> QED
  BY <1>1, <1>6, <1>7 DEF t

\* The first write is taken from the chain.
LEMMA TailShrinks ==
  ASSUME NEW q, IsList(q), q # <<>>
  PROVE  /\ IsList(Tail(q))
         /\ Begins(Tail(q)) => Begins(q)
         /\ Deletes(Tail(q)) => Deletes(q)
         /\ Deletes(q) => Deletes(Tail(q)) \/ Head(q) = Write("delete")
         /\ InOrder(q) => InOrder(Tail(q))
         /\ InOrder(q) /\ Head(q) = Write("delete") => ~Begins(Tail(q))
         /\ Head(q).op = "begin" => Begins(q)
<1> DEFINE t == Tail(q)
<1>1. /\ IsList(t) /\ Len(q) \in Nat \ {0} /\ Len(t) = Len(q) - 1
      /\ \A i \in 1..Len(t) : t[i] = q[i + 1]
      /\ Head(q) = q[1]
  BY ListTail
<1> HIDE DEF t
<1>2. \A i \in 1..Len(t) : i + 1 \in 1..Len(q) /\ 1 < i + 1
  BY <1>1
<1>3. \A i \in 1..Len(q) : i = 1 \/ (i - 1 \in 1..Len(t) /\ q[i] = t[i - 1])
  BY <1>1
<1>4. 1 \in 1..Len(q)
  BY <1>1
<1>5. Begins(t) => Begins(q)
  BY <1>1, <1>2 DEF Begins
<1>6. Deletes(t) => Deletes(q)
  BY <1>1, <1>2 DEF Deletes
<1>7. Deletes(q) => Deletes(t) \/ q[1] = Write("delete")
  BY <1>3 DEF Deletes
<1>8. InOrder(q) => InOrder(t)
  <2> SUFFICES ASSUME InOrder(q), NEW i \in 1..Len(t), NEW j \in 1..Len(t), i < j,
                      t[i] = Write("delete")
               PROVE  t[j].op # "begin"
    BY DEF InOrder
  <2>1. i + 1 \in 1..Len(q) /\ j + 1 \in 1..Len(q) /\ i + 1 < j + 1
    BY <1>1, <1>2
  <2>2. q[i + 1] = Write("delete") /\ t[j] = q[j + 1]
    BY <1>1
  <2> QED
    BY <2>1, <2>2 DEF InOrder
<1>9. InOrder(q) /\ q[1] = Write("delete") => ~Begins(t)
  BY <1>1, <1>2, <1>4 DEF InOrder, Begins
<1>10. q[1].op = "begin" => Begins(q)
  BY <1>4 DEF Begins
<1> QED
  BY <1>1, <1>5, <1>6, <1>7, <1>8, <1>9, <1>10 DEF t

\* A begin goes ahead of all but the write that is under way.
LEMMA BeginGoesAhead ==
  ASSUME NEW q, IsList(q), ~Deletes(q)
  PROVE  LET t == IF q = <<>> THEN <<Write("begin")>>
                  ELSE <<Head(q), Write("begin")>> \o Tail(q)
         IN  IsList(t) /\ ~Deletes(t)
<1>1. Write("begin") # Write("delete")
  BY DEF Write
<1>2. CASE q = <<>>
  <2> DEFINE b == Write("begin")
  <2>1. IsList(<<b>>) /\ Len(<<b>>) = 1 /\ <<b>>[1] = b
    BY ListOne
  <2> QED
    BY <1>1, <1>2, <2>1 DEF Deletes
<1>3. CASE q # <<>>
  <2> DEFINE h == <<Head(q), Write("begin")>>
             t == h \o Tail(q)
  <2>1. IsList(h) /\ Len(h) = 2 /\ h[1] = Head(q) /\ h[2] = Write("begin")
    <3>1. \A v, w : <<v, w>> \in Seq({v, w}) /\ Len(<<v, w>>) = 2
                     /\ <<v, w>>[1] = v /\ <<v, w>>[2] = w
      OBVIOUS
    <3> QED
      BY <3>1 DEF IsList
  <2>2. /\ IsList(Tail(q)) /\ Len(Tail(q)) \in Nat /\ Head(q) = q[1] /\ 1 \in 1..Len(q)
        /\ ~Deletes(Tail(q))
    BY <1>3, ListTail, ListLen, TailShrinks
  <2> HIDE DEF h
  <2>3. /\ IsList(t) /\ Len(t) = 2 + Len(Tail(q))
        /\ \A i \in 1..(2 + Len(Tail(q))) : t[i] = IF i <= 2 THEN h[i] ELSE Tail(q)[i - 2]
    <3> DEFINE r == Tail(q)
    <3>1. IsList(h) /\ IsList(r) /\ Len(h) = 2 /\ Len(r) \in Nat
      BY <2>1, <2>2
    <3> HIDE DEF r
    <3>2. /\ IsList(h \o r) /\ Len(h \o r) = Len(h) + Len(r)
          /\ \A i \in 1..(Len(h) + Len(r)) :
               (h \o r)[i] = IF i <= Len(h) THEN h[i] ELSE r[i - Len(h)]
      BY <3>1, ListsJoin
    <3>3. \A i \in 1..(2 + Len(r)) : (h \o r)[i] = IF i <= 2 THEN h[i] ELSE r[i - 2]
      BY <3>1, <3>2
    <3> QED
      BY <3>1, <3>2, <3>3 DEF r
  <2> HIDE DEF t
  <2>4. ~Deletes(t)
    <3> SUFFICES ASSUME NEW i \in 1..Len(t) PROVE t[i] # Write("delete")
      BY DEF Deletes
    <3>1. CASE i <= 2
      <4>1. i = 1 \/ i = 2
        BY <2>2, <2>3, <3>1
      <4> QED
        BY <1>1, <2>1, <2>2, <2>3, <3>1, <4>1 DEF Deletes
    <3>2. CASE ~(i <= 2)
      <4>1. i - 2 \in 1..Len(Tail(q)) /\ t[i] = Tail(q)[i - 2]
        BY <2>2, <2>3, <3>2
      <4> QED
        BY <2>2, <4>1 DEF Deletes
    <3> QED
      BY <3>1, <3>2
  <2> QED
    BY <1>3, <2>3, <2>4 DEF t, h
<1> QED
  BY <1>2, <1>3

-----------------------------------------------------------------------------
(* What the operators of the module do to the chain of a session.           *)

\* A session goes on: it stays triggered, what ends it stays, its chain grows or
\* is worked off.
GoesOn(s, t) ==
  /\ t.triggered = s.triggered /\ t.begun = s.begun /\ t.again = s.again
  /\ t.broken \in {s.broken, TRUE}
  /\ s.broken = TRUE => t.broken = TRUE
  /\ Saving(s) => Saving(t)
  /\ t.finalize = "abort" => s.finalize = "abort" \/ ~Begins(t.chain)
  /\ s.triggered = FALSE => t.finalize = s.finalize /\ t.chain = s.chain
  /\ IsList(t.chain)
  /\ Begins(t.chain) => Begins(s.chain)
  /\ Deletes(s.chain) => Deletes(t.chain) \/ t.broken = TRUE
  /\ InOrder(s.chain) => InOrder(t.chain)

\* So does one that nobody discards.
Stays(s, t) == GoesOn(s, t) /\ (Deletes(t.chain) => Deletes(s.chain))

LEMMA StaysOn ==
  ASSUME NEW s, NEW t, NEW u, Stays(s, t), Stays(t, u)
  PROVE  Stays(s, u)
  BY DEF Stays, GoesOn

LEMMA StaysSame ==
  ASSUME NEW s, IsList(s.chain), NEW t, t.chain = s.chain,
         t.triggered = s.triggered, t.begun = s.begun, t.again = s.again,
         t.broken = s.broken, t.finalize = s.finalize
  PROVE  Stays(s, t)
  BY DEF Stays, GoesOn, Saving

LEMMA StaysGrown ==
  ASSUME NEW s, s.triggered = TRUE, NEW t, Grows(s.chain, t.chain),
         t.triggered = s.triggered, t.begun = s.begun, t.again = s.again,
         t.broken = s.broken, t.finalize = s.finalize
  PROVE  Stays(s, t)
  BY DEF Stays, GoesOn, Grows, Saving

\* A chunk is cut only for a place in the queue.
LEMMA QueuedIsNat ==
  ASSUME NEW s, IsList(s.chain), NEW full
  PROVE  Cardinality({n \in 1..(MaxQueued - Queued(s)) : n <= full}) \in Nat
<1>1. PICK S : s.chain \in Seq(S)
  BY DEF IsList
<1>2. Len(s.chain) \in Nat /\ DOMAIN s.chain = 1..Len(s.chain)
  BY <1>1, LenProperties
<1> DEFINE Q == {i \in DOMAIN s.chain : s.chain[i].op = "append"}
<1>3. Q \in SUBSET (1..Len(s.chain)) /\ IsFiniteSet(1..Len(s.chain))
  BY <1>2, FS_Interval
<1>4. IsFiniteSet(Q)
  BY <1>3, FS_Subset
<1>5. Queued(s) \in Nat
  BY <1>4, FS_CardinalityType DEF Queued
<1>6. MaxQueued - Queued(s) \in Int
  BY <1>5, PowerCaptureAssumption
<1> DEFINE room == MaxQueued - Queued(s)
           T == {n \in 1..room : n <= full}
<1>7. IsFiniteSet(1..room) /\ T \in SUBSET (1..room)
  BY <1>6, FS_Interval
<1> HIDE DEF T
<1>8. IsFiniteSet(T)
  BY <1>7, FS_Subset
<1>9. Cardinality(T) \in Nat
  BY <1>8, FS_CardinalityType
<1> QED
  BY <1>9 DEF T

LEMMA QueueSamplesStays ==
  ASSUME NEW s, NEW incoming, IsSession(s), IsList(s.chain), s.triggered = TRUE
  PROVE  Stays(s, QueueSamples(s, incoming))
<1> DEFINE new == SelectSeq(incoming, LAMBDA x : x > s.last)
           hit == SelectSeq(new, LAMBDA x : x >= s.trigger)
           wait == s.pending \o new
           full == Len(wait) \div limits.chunk
           room == MaxQueued - Queued(s)
           take == Cardinality({n \in 1..room : n <= full})
           cut == Least(full, room + 1)
           r == [i \in 1..take |->
                   Chunk(s.index + i - 1,
                         SubSeq(wait, (i - 1) * limits.chunk + 1, i * limits.chunk))]
           chain == s.chain \o r
           last == IF new = <<>> THEN s.last ELSE Last(new)
           offset == IF s.offset < 0 /\ hit # <<>>
                       THEN s.total + Len(new) - Len(hit) ELSE s.offset
           total == s.total + Len(new)
           pending == SubSeq(wait, cut * limits.chunk + 1, Len(wait))
           index == s.index + cut
           error == full > room
           t == [s EXCEPT !.last = last, !.offset = offset, !.total = total,
                          !.pending = pending, !.index = index, !.error = error,
                          !.chain = chain]
<1>1. QueueSamples(s, incoming) = IF s.finishing \/ s.error THEN s ELSE t
  BY DEF QueueSamples
<1>2. take \in Nat
  BY QueuedIsNat
<1>3. \A i \in 1..take : r[i].op = "append"
  BY DEF Chunk
<1> HIDE DEF new, hit, full, room, take, cut
<1>4. IsList(r) /\ Len(r) = take
  <2>1. r = [i \in 1..take |-> r[i]]
    OBVIOUS
  <2> HIDE DEF r
  <2> QED
    BY <1>2, <2>1, ListOf
<1> HIDE DEF r
<1>5. Grows(s.chain, chain)
  BY <1>3, <1>4, JoinGrows
<1> HIDE DEF chain, last, offset, total, pending, index, error
<1>6. /\ t.chain = chain /\ t.triggered = s.triggered /\ t.begun = s.begun
      /\ t.again = s.again /\ t.broken = s.broken /\ t.finalize = s.finalize
  BY DEF IsSession
<1> HIDE DEF t
<1>7. Stays(s, t)
  BY <1>5, <1>6, StaysGrown
<1>8. Stays(s, s)
  BY StaysSame
<1> QED
  BY <1>1, <1>7, <1>8

LEMMA FlushedStays ==
  ASSUME NEW s, IsSession(s), IsList(s.chain), s.triggered = TRUE
  PROVE  Stays(s, Flushed(s))
<1> DEFINE w == [Chunk(s.index, s.pending) EXCEPT !.quiet = TRUE]
           chain == Append(s.chain, w)
           kept == [s EXCEPT !.finishing = TRUE]
           t == [s EXCEPT !.finishing = TRUE, !.pending = <<>>, !.index = @ + 1,
                          !.chain = chain]
<1>1. Flushed(s) = IF s.error \/ s.pending = <<>> THEN kept ELSE t
  BY DEF Flushed
<1>2. w.op = "append"
  BY DEF Chunk
<1> HIDE DEF w
<1>3. Grows(s.chain, chain)
  BY <1>2, AppendGrows
<1> HIDE DEF chain
<1>4. /\ t.chain = chain /\ t.triggered = s.triggered /\ t.begun = s.begun
      /\ t.again = s.again /\ t.broken = s.broken /\ t.finalize = s.finalize
  BY DEF IsSession
<1>5. /\ kept.chain = s.chain /\ kept.triggered = s.triggered
      /\ kept.begun = s.begun /\ kept.again = s.again
      /\ kept.broken = s.broken /\ kept.finalize = s.finalize
  BY DEF IsSession
<1> HIDE DEF t, kept
<1> QED
  BY <1>1, <1>3, <1>4, <1>5, StaysGrown, StaysSame

LEMMA FailedHandshakeStays ==
  ASSUME NEW s, IsSession(s), IsList(s.chain)
  PROVE  Stays(s, FailedHandshake(s))
<1>1. LET t == FailedHandshake(s)
      IN  /\ t.chain = s.chain /\ t.triggered = s.triggered /\ t.begun = s.begun
          /\ t.again = s.again /\ t.broken = s.broken /\ t.finalize = s.finalize
  BY DEF FailedHandshake, IsSession
<1> QED
  BY <1>1, StaysSame

LEMMA FinalizedStays ==
  ASSUME NEW s, NEW inc \in BOOLEAN, NEW open \in BOOLEAN, IsSession(s),
         IsList(s.chain), s.triggered = TRUE
  PROVE  Stays(s, Finalized(s, inc, open))
<1> DEFINE inced == [s EXCEPT !.incomplete = TRUE]
           marked == IF inc THEN FailedHandshake(inced) ELSE s
           begun == [marked EXCEPT !.timer = FALSE]
           drained == [begun EXCEPT !.incomplete = TRUE, !.finalize = "drain"]
           opened == [begun EXCEPT !.handshake = "pending", !.finalize = "stop"]
<1>1. IsSession(inced) /\ Stays(s, inced) /\ IsList(inced.chain)
  <2>1. /\ IsSession(inced) /\ inced.chain = s.chain
        /\ inced.triggered = s.triggered /\ inced.begun = s.begun
        /\ inced.again = s.again /\ inced.broken = s.broken
        /\ inced.finalize = s.finalize
    BY DEF IsSession
  <2> HIDE DEF inced
  <2> QED
    BY <2>1, StaysSame
<1>2. IsSession(marked) /\ Stays(s, marked)
  BY <1>1, FailedHandshakeDoes, FailedHandshakeStays, StaysOn, StaysSame
<1> HIDE DEF inced
<1>3. IsList(marked.chain) /\ marked.triggered = TRUE
  BY <1>2 DEF Stays, GoesOn
<1>6. Finalized(s, inc, open) = IF s.finalize # "none" THEN marked
                                ELSE IF open THEN opened ELSE Flushed(drained)
  BY DEF Finalized, inced
<1> HIDE DEF marked
<1>4. CASE s.finalize # "none"
  BY <1>2, <1>4, <1>6
<1>5. CASE s.finalize = "none"
  <2>1. /\ IsSession(begun) /\ begun.chain = marked.chain
        /\ begun.triggered = marked.triggered /\ begun.begun = marked.begun
        /\ begun.again = marked.again /\ begun.broken = marked.broken
    BY <1>2 DEF IsSession
  <2> HIDE DEF begun
  <2>2. /\ IsSession(drained) /\ drained.chain = marked.chain
        /\ drained.triggered = marked.triggered /\ drained.begun = marked.begun
        /\ drained.again = marked.again /\ drained.broken = marked.broken
        /\ drained.finalize = "drain"
    BY <2>1 DEF IsSession
  <2>3. /\ opened.chain = marked.chain
        /\ opened.triggered = marked.triggered /\ opened.begun = marked.begun
        /\ opened.again = marked.again /\ opened.broken = marked.broken
        /\ opened.finalize = "stop"
    BY <2>1 DEF IsSession
  <2> HIDE DEF drained, opened
  <2>4. Stays(s, opened) /\ Stays(s, drained)
    BY <1>2, <1>3, <1>5, <2>2, <2>3 DEF Stays, GoesOn, Saving
  <2>5. Stays(drained, Flushed(drained))
    BY <1>3, <2>2, FlushedStays
  <2>6. Stays(s, Flushed(drained))
    BY <2>4, <2>5, StaysOn
  <2> QED
    BY <1>5, <1>6, <2>4, <2>6
<1> QED
  BY <1>4, <1>5

\* A session is discarded: what it has begun is deleted behind its writes.
LEMMA DiscardedGoesOn ==
  ASSUME NEW s, IsSession(s), IsRecorder(s)
  PROVE  /\ GoesOn(s, Discarded(s))
         /\ s.triggered = TRUE => Deletes(Discarded(s).chain)
<1> DEFINE failed == FailedHandshake(s)
           ended == [failed EXCEPT !.finishing = TRUE, !.timer = FALSE]
           chain == Append(ended.chain, Write("delete"))
           deleted == [ended EXCEPT !.chain = chain]
<1>1. IsSession(failed) /\ Stays(s, failed) /\ failed.finalize = s.finalize
      /\ failed.chain = s.chain
  BY FailedHandshakeDoes, FailedHandshakeStays DEF IsRecorder
<1>2. Discarded(s) = IF s.begun THEN deleted ELSE ended
  BY DEF Discarded
<1> HIDE DEF failed
<1>3. /\ IsSession(ended) /\ ended.chain = s.chain
      /\ ended.triggered = failed.triggered /\ ended.begun = failed.begun
      /\ ended.again = failed.again /\ ended.broken = failed.broken
      /\ ended.finalize = s.finalize
  BY <1>1 DEF IsSession
<1> HIDE DEF ended
<1>4. /\ IsList(chain) /\ Deletes(chain)
      /\ Begins(chain) => Begins(s.chain)
  BY <1>3, AppendGrows DEF IsRecorder
<1>5. InOrder(chain)
  BY <1>3, AppendGrows DEF IsRecorder
<1> HIDE DEF chain
<1>6. /\ deleted.chain = chain
      /\ deleted.triggered = ended.triggered /\ deleted.begun = ended.begun
      /\ deleted.again = ended.again /\ deleted.broken = ended.broken
      /\ deleted.finalize = s.finalize
  BY <1>3 DEF IsSession
<1> HIDE DEF deleted
<1>7. s.triggered = TRUE => s.begun
  BY DEF IsRecorder
<1>8. s.begun => s.triggered = TRUE
  BY DEF IsRecorder
<1>9. CASE s.begun
  <2>1. Discarded(s) = deleted
    BY <1>2, <1>9
  <2> QED
    BY <1>1, <1>3, <1>4, <1>5, <1>6, <1>8, <1>9, <2>1 DEF Stays, GoesOn, Saving
<1>10. CASE ~s.begun
  <2>1. Discarded(s) = ended
    BY <1>2, <1>10
  <2>2. GoesOn(s, ended)
    BY <1>1, <1>3 DEF Stays, GoesOn, Saving
  <2> QED
    BY <1>7, <1>10, <2>1, <2>2
<1> QED
  BY <1>9, <1>10

-----------------------------------------------------------------------------
(* Steps that leave every open recording attended.                          *)

SessionsGoOn ==
  \A a \in Arms :
    /\ GoesOn(session[a], session'[a])
    /\ session[a] = NewSession => session'[a] = NewSession \/ a = page.current
    /\ Deletes(session'[a].chain) => Deletes(session[a].chain) \/ a # page'.current

PageGoesOn ==
  /\ page'.crossed = page.crossed
  /\ page'.state = "idle" \/ page'.capacity =>
       page'.current = NoArm \/ page.crossed = TRUE
  /\ \/ page'.current = page.current
     \/ /\ page'.current = NoArm
        /\ \A a \in Arms : a = page.current /\ session[a].triggered = TRUE =>
             Deletes(session'[a].chain)

ArchivesGoOn ==
  \A a \in Arms :
    /\ archive'[a].again \in BOOLEAN
    /\ archive'[a].status = "recording" =>
         archive[a].status = "recording" /\ archive'[a].again = archive[a].again

LEMMA RecorderGoesOn ==
  ASSUME NEW s, NEW t, IsRecorder(s), GoesOn(s, t)
  PROVE  IsRecorder(t)
<1>1. t.triggered = FALSE => t.chain = <<>> /\ t.finalize = "none"
  BY DEF IsRecorder, GoesOn
<1>2. t.finalize = "abort" /\ Begins(t.chain) => t.again = TRUE
  BY DEF IsRecorder, GoesOn
<1> QED
  BY <1>1, <1>2 DEF IsRecorder, GoesOn

LEMMA NewIsQuiet ==
  /\ NewSession.triggered = FALSE /\ NewSession.chain = <<>>
  /\ NewSession.again = FALSE /\ NewSession.broken = FALSE
  /\ NewSession.begun = FALSE /\ NewSession.finalize = "none"
  /\ ~Begins(<<>>) /\ ~Deletes(<<>>) /\ InOrder(<<>>) /\ IsList(<<>>)
  /\ IsRecorder(NewSession)
<1>1. /\ NewSession.triggered = FALSE /\ NewSession.chain = <<>>
      /\ NewSession.again = FALSE /\ NewSession.broken = FALSE
      /\ NewSession.begun = FALSE /\ NewSession.finalize = "none"
  BY DEF NewSession
<1>2. /\ Len(<<>>) = 0 /\ <<>> \in Seq({})
  BY EmptySeq
<1>3. ~Begins(<<>>) /\ ~Deletes(<<>>) /\ InOrder(<<>>) /\ IsList(<<>>)
  BY <1>2 DEF Begins, Deletes, InOrder, IsList
<1> QED
  BY <1>1, <1>3 DEF IsRecorder

LEMMA GoingOn ==
  ASSUME AttendInv, CaptureInv', SessionsGoOn, PageGoesOn, ArchivesGoOn
  PROVE  AttendInv'
<1>1. PageFree'
  BY DEF AttendInv, PageFree, PageGoesOn
<1> SUFFICES ASSUME NEW a \in Arms
             PROVE  Tended(a)' /\ archive'[a].again \in BOOLEAN
  BY <1>1 DEF AttendInv
<1> DEFINE s == session[a]
           t == session'[a]
<1>2. /\ IsRecorder(s)
      /\ Deletes(s.chain) => a # page.current
      /\ archive[a].status = "recording" /\ s.triggered = FALSE =>
           s = NewSession /\ a # page.current
      /\ archive[a].status = "recording" /\ archive[a].again = FALSE => Held(a, s)
      /\ Begins(s.chain) /\ s.again = FALSE => Held(a, s)
  BY DEF AttendInv, Tended
<1>3. /\ GoesOn(s, t)
      /\ s = NewSession => t = NewSession \/ a = page.current
      /\ Deletes(t.chain) => Deletes(s.chain) \/ a # page'.current
  BY DEF SessionsGoOn
<1>4. a \in Int /\ a # NoArm
  BY PowerCaptureAssumption DEF Arms, NoArm
<1>5. a = page'.current => a = page.current
  BY <1>4 DEF PageGoesOn
<1>6. a = page.current /\ s.triggered = TRUE =>
        a = page'.current \/ Deletes(t.chain)
  BY <1>4 DEF PageGoesOn
<1>7. page'.crossed = page.crossed
  BY DEF PageGoesOn
<1>8. IsRecorder(t)
  BY <1>2, <1>3, RecorderGoesOn
<1>9. archive'[a].status = "recording" =>
        archive[a].status = "recording" /\ archive'[a].again = archive[a].again
  BY DEF ArchivesGoOn
<1> DEFINE HeldNext == \/ a = page'.current /\ t.triggered = TRUE
                       \/ Saving(t)
                       \/ t.broken = TRUE \/ t = NewSession \/ page'.crossed = TRUE
                       \/ Deletes(t.chain)
<1>10. Held(a, s) /\ s # NewSession => HeldNext
  <2>1. s.broken = TRUE => t.broken = TRUE
    BY <1>3 DEF GoesOn
  <2>2. t.triggered = s.triggered /\ (Saving(s) => Saving(t))
    BY <1>3 DEF GoesOn
  <2>3. Deletes(s.chain) => Deletes(t.chain) \/ t.broken = TRUE
    BY <1>3 DEF GoesOn
  <2> QED
    BY <1>6, <1>7, <2>1, <2>2, <2>3 DEF Held
<1>11. Deletes(t.chain) => a # page'.current
  BY <1>2, <1>3, <1>5
<1>12. archive'[a].status = "recording" /\ t.triggered = FALSE =>
         t = NewSession /\ a # page'.current
  BY <1>2, <1>3, <1>5, <1>9 DEF GoesOn
<1>13. archive'[a].status = "recording" /\ archive'[a].again = FALSE => HeldNext
  <2> SUFFICES ASSUME archive'[a].status = "recording", archive'[a].again = FALSE
               PROVE  HeldNext
    OBVIOUS
  <2>1. Held(a, s)
    BY <1>2, <1>9
  <2>2. CASE s = NewSession
    BY <1>2, <1>3, <1>9, <2>2, NewIsQuiet
  <2> QED
    BY <1>10, <2>1, <2>2
<1>14. Begins(t.chain) /\ t.again = FALSE => HeldNext
  <2> SUFFICES ASSUME Begins(t.chain), t.again = FALSE
               PROVE  HeldNext
    OBVIOUS
  <2>1. Begins(s.chain) /\ s.again = FALSE
    BY <1>3 DEF GoesOn
  <2> QED
    BY <1>2, <1>10, <2>1, NewIsQuiet
<1>15. archive'[a].again \in BOOLEAN
  BY DEF ArchivesGoOn
<1>16. Tended(a)'
  BY <1>8, <1>11, <1>12, <1>13, <1>14 DEF Tended, Held, Saving, IsRecorder, Begins,
     Deletes, InOrder, IsList
<1> QED
  BY <1>15, <1>16

LEMMA AttendFacts ==
  ASSUME AttendInv
  PROVE  /\ CaptureInv
         /\ \A a \in Arms : /\ IsRecorder(session[a]) /\ IsList(session[a].chain)
                            /\ session[a].triggered \in BOOLEAN
                            /\ Deletes(session[a].chain) => a # page.current
                            /\ archive[a].again \in BOOLEAN
         /\ page.crossed \in BOOLEAN
         /\ page.state = "idle" \/ page.capacity =>
              page.current = NoArm \/ page.crossed = TRUE
  BY DEF AttendInv, Tended, IsRecorder, PageFree

LEMMA StillArchives ==
  ASSUME AttendInv, UNCHANGED archive
  PROVE  ArchivesGoOn
  BY AttendFacts DEF ArchivesGoOn

LEMMA StillSessions ==
  ASSUME AttendInv, UNCHANGED <<session, page>>
  PROVE  SessionsGoOn /\ PageGoesOn
<1>1. \A a \in Arms : Stays(session[a], session[a])
  BY AttendFacts, StaysSame
<1>2. SessionsGoOn
  BY <1>1 DEF SessionsGoOn, Stays
<1> QED
  BY <1>2, AttendFacts DEF PageGoesOn

\* The sessions go on, the recording stays on the page.
LEMMA SessionsStay ==
  ASSUME AttendInv,
         \A a \in Arms :
           /\ Stays(session[a], session'[a])
           /\ session[a] = NewSession => session'[a] = NewSession \/ a = page.current,
         page'.crossed = page.crossed, page'.current = page.current,
         page'.state = "idle" \/ page'.capacity => page.state = "idle" \/ page.capacity
  PROVE  SessionsGoOn /\ PageGoesOn
<1>1. SessionsGoOn
  BY DEF SessionsGoOn, Stays
<1>2. PageGoesOn
  BY AttendFacts DEF PageGoesOn
<1> QED
  BY <1>1, <1>2

\* One session goes on.
LEMMA OneStays ==
  ASSUME AttendInv, NEW c \in Arms, NEW t, Stays(session[c], t),
         session' = [session EXCEPT ![c] = t],
         c = page.current \/ session[c] # NewSession
  PROVE  \A a \in Arms :
           /\ Stays(session[a], session'[a])
           /\ session[a] = NewSession => session'[a] = NewSession \/ a = page.current
<1>1. \A a \in Arms : session'[a] = IF a = c THEN t ELSE session[a]
  BY AttendFacts, CaptureFacts DEF Sessions
<1>2. \A a \in Arms : Stays(session[a], session[a])
  BY AttendFacts, StaysSame
<1> QED
  BY <1>1, <1>2

LEMMA OneGoesOn ==
  ASSUME AttendInv, NEW c \in Arms, NEW t, Stays(session[c], t),
         session' = [session EXCEPT ![c] = t],
         c = page.current \/ session[c] # NewSession,
         page'.crossed = page.crossed, page'.current = page.current,
         page'.state = "idle" \/ page'.capacity => page.state = "idle" \/ page.capacity
  PROVE  SessionsGoOn /\ PageGoesOn
  BY OneStays, SessionsStay

LEMMA ResetGoesOn ==
  ASSUME AttendInv, session' = ResetSessions, page' = ResetPage
  PROVE  SessionsGoOn /\ PageGoesOn
<1>1. page'.crossed = page.crossed /\ page'.current = NoArm
  BY AttendFacts, CaptureFacts DEF ResetPage, IsPage
<1>2. \A a \in Arms : Stays(session[a], session[a])
  BY AttendFacts, StaysSame
<1>3. \A a \in Arms : a # NoArm
  BY PowerCaptureAssumption DEF Arms, NoArm
<1>4. CASE page.current = NoArm
  <2>1. session' = session
    BY <1>4 DEF ResetSessions
  <2>2. SessionsGoOn
    BY <1>2, <2>1 DEF SessionsGoOn, Stays
  <2>3. PageGoesOn
    BY <1>1, <1>4 DEF PageGoesOn
  <2> QED
    BY <2>2, <2>3
<1>5. CASE page.current # NoArm
  <2> DEFINE c == page.current
             t == Discarded(session[c])
  <2>1. c \in Arms /\ IsSession(session[c])
    BY <1>5, AttendFacts, CaptureFacts
  <2>2. session' = [session EXCEPT ![c] = t]
    BY <1>5 DEF ResetSessions
  <2>3. \A a \in Arms : session'[a] = IF a = c THEN t ELSE session[a]
    BY <2>1, <2>2, AttendFacts, CaptureFacts DEF Sessions
  <2>4. /\ GoesOn(session[c], t)
        /\ session[c].triggered = TRUE => Deletes(t.chain)
    BY <2>1, AttendFacts, DiscardedGoesOn
  <2> HIDE DEF t
  <2>5. SessionsGoOn
    BY <1>1, <1>2, <1>3, <2>3, <2>4 DEF SessionsGoOn, Stays
  <2>6. PageGoesOn
    BY <1>1, <2>1, <2>3, <2>4 DEF PageGoesOn
  <2> QED
    BY <2>5, <2>6
<1> QED
  BY <1>4, <1>5

\* The end of the recording on the page begins.
LEMMA FinalizeGoesOn ==
  ASSUME AttendInv, NEW ss, Sessions(ss), NEW inc \in BOOLEAN,
         FinalizeCurrent(ss, inc),
         \A a \in Arms :
           /\ Stays(session[a], ss[a])
           /\ session[a] = NewSession => ss[a] = NewSession \/ a = page.current
  PROVE  SessionsGoOn /\ PageGoesOn
<1>1. /\ page'.crossed = page.crossed /\ page'.current = page.current
      /\ page'.capacity = page.capacity
      /\ page'.state = page.state \/ page'.state = "receiving"
  <2>1. page' = page \/ page' = [page EXCEPT !.state = "receiving"]
    BY DEF FinalizeCurrent
  <2> QED
    BY <2>1, AttendFacts, CaptureFacts DEF IsPage
<1>2. CASE ~Triggered(ss)
  <2>1. session' = ss
    BY <1>2 DEF FinalizeCurrent
  <2> QED
    BY <1>1, <2>1, SessionsStay
<1>3. CASE Triggered(ss)
  <2> DEFINE c == page.current
             e == Finalized(ss[c], inc, ws = "open")
  <2>1. c \in Arms /\ ss[c].triggered
    BY <1>3, AttendFacts, CaptureFacts DEF Triggered
  <2>2. session' = [ss EXCEPT ![c] = e]
    BY <1>3 DEF FinalizeCurrent
  <2>3. ss[c].triggered = TRUE /\ IsList(ss[c].chain) /\ IsSession(ss[c])
    BY <2>1, AttendFacts DEF Stays, GoesOn, Sessions
  <2>4. Stays(ss[c], e)
    BY <2>3, FinalizedStays
  <2>5. \A a \in Arms : session'[a] = IF a = c THEN e ELSE ss[a]
    BY <2>1, <2>2 DEF Sessions
  <2> HIDE DEF e
  <2>6. Stays(session[c], e)
    BY <2>1, <2>4, StaysOn
  <2>7. \A a \in Arms :
          /\ Stays(session[a], session'[a])
          /\ session[a] = NewSession => session'[a] = NewSession \/ a = page.current
    BY <2>5, <2>6
  <2> QED
    BY <1>1, <2>7, SessionsStay
<1> QED
  BY <1>2, <1>3

LEMMA SocketEndGoesOn ==
  ASSUME AttendInv, NEW open \in BOOLEAN, EndOfSocket(open)
  PROVE  SessionsGoOn /\ PageGoesOn
<1>1. CASE ~Triggered(session)
  BY <1>1, ResetGoesOn DEF EndOfSocket
<1>2. CASE Triggered(session)
  <2> DEFINE c == page.current
             t == Finalized(session[c], TRUE, open)
  <2>1. c \in Arms /\ IsSession(session[c]) /\ session[c].triggered
    BY <1>2, AttendFacts, CaptureFacts DEF Triggered
  <2>2. /\ session' = [session EXCEPT ![c] = t]
        /\ page' = page \/ page' = [page EXCEPT !.state = "receiving"]
    BY <1>2 DEF EndOfSocket
  <2>3. session[c].triggered = TRUE /\ IsList(session[c].chain)
    BY <2>1, AttendFacts
  <2>4. Stays(session[c], t)
    BY <2>1, <2>3, FinalizedStays
  <2>5. /\ page'.crossed = page.crossed /\ page'.current = page.current
        /\ page'.capacity = page.capacity
        /\ page'.state = page.state \/ page'.state = "receiving"
    BY <2>2, AttendFacts, CaptureFacts DEF IsPage
  <2> HIDE DEF t
  <2> QED
    BY <2>1, <2>2, <2>4, <2>5, OneGoesOn
<1> QED
  BY <1>1, <1>2

\* A new recording has neither session nor archive; the one before was not the
\* page's any more.
LEMMA ArmCommitAttends ==
  ASSUME AttendInv, CaptureInv', ArmCommit
  PROVE  AttendInv'
<1> DEFINE n == armed + 1
<1>1. /\ n \in Arms /\ n > armed /\ session' = session /\ page.capacity
  BY AttendFacts, CaptureFacts DEF ArmCommit, Arms
<1>2. PICK pruned \in SUBSET {a \in Arms : Sealed(archive[a])} :
        archive' = [a \in Arms |-> IF a \in pruned THEN NoArchive ELSE archive[a]]
  BY DEF ArmCommit
<1>3. page' = [state |-> "connecting", pending |-> TRUE, current |-> n,
               promise |-> n, capacity |-> FALSE, crossed |-> page.crossed]
  BY AttendFacts, CaptureFacts DEF ArmCommit, IsPage
<1>4. /\ page'.state = "connecting" /\ page'.current = n /\ page'.capacity = FALSE
      /\ page'.crossed = page.crossed
  BY <1>3
<1>5. PageFree'
  BY <1>4, AttendFacts DEF PageFree
<1>6. \A a \in Arms : archive'[a] = archive[a] \/ archive'[a] = NoArchive
  BY <1>2
<1>7. session[n] = NewSession /\ archive[n] = NoArchive
  BY <1>1, AttendFacts DEF CaptureInv, Unarmed
<1>8. page.current = NoArm \/ page.crossed = TRUE
  BY <1>1, AttendFacts
<1> SUFFICES ASSUME NEW a \in Arms
             PROVE  Tended(a)' /\ archive'[a].again \in BOOLEAN
  BY <1>5 DEF AttendInv
<1>10. NoArchive.status # "recording" /\ NoArchive.again \in BOOLEAN
  BY DEF NoArchive
<1>9. archive'[a].again \in BOOLEAN
  BY <1>6, <1>10, AttendFacts
<1>11. a \in Int /\ a # NoArm
  BY PowerCaptureAssumption DEF Arms, NoArm
<1>12. CASE a = n
  <2>1. session'[a] = NewSession /\ archive'[a] = NoArchive
    BY <1>1, <1>6, <1>7, <1>12
  <2>2. Tended(a)'
    BY <2>1, <1>10, NewIsQuiet DEF Tended
  <2> QED
    BY <2>2, <1>9
<1>13. CASE a # n
  <2>1. Held(a, session[a]) => Held(a, session[a])'
    BY <1>1, <1>4, <1>8, <1>11 DEF Held, Saving, Deletes
  <2>2. Tended(a)
    BY DEF AttendInv
  <2>3. Tended(a)'
    BY <1>1, <1>4, <1>6, <1>10, <1>13, <2>1, <2>2
    DEF Tended, IsRecorder, IsList, Begins, Deletes, InOrder
  <2> QED
    BY <2>3, <1>9
<1> QED
  BY <1>12, <1>13

\* A reload forgets every session.
LEMMA ReloadAttends ==
  ASSUME AttendInv, CaptureInv', PageReloads
  PROVE  AttendInv'
<1>1. /\ page'.current = NoArm /\ page'.crossed = FALSE
      /\ archive' = archive /\ \A a \in Arms : session'[a] = NewSession
  BY DEF PageReloads, IdlePage, store
<1>2. PageFree'
  BY <1>1 DEF PageFree
<1>3. \A a \in Arms : a # NoArm
  BY PowerCaptureAssumption DEF Arms, NoArm
<1>4. ASSUME NEW a \in Arms
      PROVE  Tended(a)' /\ archive'[a].again \in BOOLEAN
  BY <1>1, <1>3, <1>4, NewIsQuiet, AttendFacts DEF Tended, Held
<1> QED
  BY <1>2, <1>4 DEF AttendInv

LEMMA ClearedAttends ==
  ASSUME AttendInv, CaptureInv', NEW keep, Cleared(keep)
  PROVE  AttendInv'
<1>1. \A a \in Arms : archive'[a] = archive[a] \/ archive'[a] = NoArchive
  BY DEF Cleared
<1>2. ArchivesGoOn
  <2>1. NoArchive.status # "recording" /\ NoArchive.again \in BOOLEAN
    BY DEF NoArchive
  <2> QED
    BY <1>1, <2>1, AttendFacts DEF ArchivesGoOn
<1>3. UNCHANGED <<session, page>>
  BY DEF Cleared
<1> QED
  BY <1>2, <1>3, StillSessions, GoingOn

\* The page changes in its state and flags only.
LEMMA PageOnly ==
  ASSUME AttendInv, CaptureInv', UNCHANGED <<archive, session>>,
         page'.crossed = page.crossed, page'.current = page.current,
         page'.state = "idle" \/ page'.capacity => page.state = "idle" \/ page.capacity
  PROVE  AttendInv'
<1>1. \A a \in Arms : Stays(session[a], session[a])
  BY AttendFacts, StaysSame
<1> QED
  BY <1>1, SessionsStay, StillArchives, GoingOn

LEMMA UserAttends ==
  ASSUME AttendInv, CaptureInv', UserNext
  PROVE  AttendInv'
<1>1. CASE Arm \/ CapacityRefused
  <2>1. PICK b \in BOOLEAN : page' = [page EXCEPT !.capacity = b]
    BY <1>1 DEF Arm, CapacityRefused
  <2>2. page.state = "idle" \/ page.capacity
    BY <1>1 DEF Arm, CapacityRefused
  <2>3. /\ page'.crossed = page.crossed /\ page'.current = page.current
    BY <2>1, AttendFacts, CaptureFacts DEF IsPage
  <2>4. UNCHANGED <<archive, session>>
    BY <1>1 DEF Arm, CapacityRefused, store
  <2> QED
    BY <2>2, <2>3, <2>4, PageOnly
<1>2. CASE ArmCommit
  BY <1>2, ArmCommitAttends
<1>3. CASE TriggerClicked \/ GoLive
  BY <1>3, StillSessions, StillArchives, GoingOn DEF TriggerClicked, GoLive, store
<1>4. CASE StopClicked
  <2>1. ArchivesGoOn
    BY <1>4, StillArchives DEF StopClicked, store
  <2>2. CASE Triggered(session)
    <3>1. FinalizeCurrent(session, FALSE)
      BY <1>4, <2>2 DEF StopClicked
    <3>2. Sessions(session) /\ \A a \in Arms : Stays(session[a], session[a])
      BY AttendFacts, CaptureFacts, StaysSame
    <3> QED
      BY <2>1, <3>1, <3>2, FinalizeGoesOn, GoingOn
  <2>3. CASE ~Triggered(session)
    BY <1>4, <2>1, <2>3, StillSessions, GoingOn DEF StopClicked
  <2> QED
    BY <2>2, <2>3
<1>5. CASE CancelClicked
  BY <1>5, StillArchives, ResetGoesOn, GoingOn DEF CancelClicked, store
<1>6. CASE ClearClicked
  <2>1. Cleared(page.current)
    BY <1>6 DEF ClearClicked
  <2> QED
    BY <2>1, ClearedAttends
<1>7. CASE LeaveLive
  <2>1. EndOfSocket(ws = "open") /\ UNCHANGED archive
    BY <1>7 DEF LeaveLive, store
  <2> QED
    BY <2>1, SocketEndGoesOn, StillArchives, GoingOn
<1>8. CASE PageReloads
  BY <1>8, ReloadAttends
<1> QED
  BY <1>1, <1>2, <1>3, <1>4, <1>5, <1>6, <1>7, <1>8 DEF UserNext

LEMMA LinkAttends ==
  ASSUME AttendInv, CaptureInv', LinkNext \/ DeviceNext
  PROVE  AttendInv'
<1>1. CASE SocketFails
  <2>1. EndOfSocket(FALSE) /\ UNCHANGED archive
    BY <1>1 DEF SocketFails, store
  <2> QED
    BY <2>1, SocketEndGoesOn, StillArchives, GoingOn
<1>2. CASE ~SocketFails
  <2>1. UNCHANGED <<archive, session, page>>
    BY <1>2 DEF LinkNext, DeviceNext, SocketCreated, SocketOpens, DeviceHandles,
       DeviceSamples, DeviceTelemetry, DeviceNotice, store
  <2> QED
    BY <2>1, StillSessions, StillArchives, GoingOn
<1> QED
  BY <1>1, <1>2

LEMMA TelemetryAttends ==
  ASSUME AttendInv, OnTelemetry
  PROVE  SessionsGoOn /\ PageGoesOn
<1> DEFINE c == page.current
           m == Head(toPage)
           s == [session[c] EXCEPT !.dropped = @ + m.dropped]
<1>1. CASE UNCHANGED <<session, page>>
  BY <1>1, StillSessions
<1>2. CASE ~UNCHANGED <<session, page>>
  <2>1. /\ c \in Arms /\ IsSession(session[c]) /\ IsList(session[c].chain)
        /\ session[c].triggered \in BOOLEAN /\ Awaits(session[c])
    BY <1>2, AttendFacts, CaptureFacts DEF OnTelemetry
  <2>2. /\ IsSession(s) /\ s.chain = session[c].chain
        /\ s.triggered = session[c].triggered /\ s.begun = session[c].begun
        /\ s.again = session[c].again /\ s.broken = session[c].broken
        /\ s.finalize = session[c].finalize /\ s.handshake = session[c].handshake
    BY <2>1 DEF IsSession
  <2>3. CASE ~s.triggered
    <3> DEFINE t == [s EXCEPT !.pre = LastOf(Append(@, m.seq), PreKeep)]
    <3>1. session' = [session EXCEPT ![c] = t] /\ UNCHANGED page
      BY <1>2, <2>3 DEF OnTelemetry
    <3> HIDE DEF s
    <3>2. /\ t.chain = session[c].chain
          /\ t.triggered = session[c].triggered /\ t.begun = session[c].begun
          /\ t.again = session[c].again /\ t.broken = session[c].broken
          /\ t.finalize = session[c].finalize
      BY <2>2 DEF IsSession
    <3> HIDE DEF t
    <3>3. Stays(session[c], t)
      BY <2>1, <3>2, StaysSame
    <3> QED
      BY <2>1, <3>1, <3>3, OneGoesOn
  <2>4. CASE s.triggered
    <3> DEFINE w == Write("renew")
               R(renew) == IF renew THEN [s EXCEPT !.chain = Append(@, w)] ELSE s
               Q(renew) == QueueSamples(R(renew), <<m.seq>>)
    <3>1. PICK renew \in BOOLEAN :
            IF Q(renew).error /\ ~s.error
              THEN FinalizeCurrent([session EXCEPT ![c] = Q(renew)], TRUE)
              ELSE session' = [session EXCEPT ![c] = Q(renew)] /\ UNCHANGED page
      BY <1>2, <2>4 DEF OnTelemetry
    <3>2. s.triggered = TRUE
      BY <2>1, <2>2, <2>4
    <3> HIDE DEF s
    <3>3. w.op \notin {"begin", "delete"}
      BY DEF Write
    <3> HIDE DEF w
    <3> DEFINE chain == Append(s.chain, w)
               rs == [s EXCEPT !.chain = chain]
    <3>4. Grows(s.chain, chain)
      BY <2>1, <2>2, <3>3, AppendGrows
    <3> HIDE DEF chain
    <3>5. /\ IsSession(rs) /\ rs.chain = chain
          /\ rs.triggered = s.triggered /\ rs.begun = s.begun
          /\ rs.again = s.again /\ rs.broken = s.broken
          /\ rs.finalize = s.finalize /\ rs.handshake = s.handshake
      BY <2>2 DEF IsSession
    <3> HIDE DEF rs
    <3>6. Stays(s, rs) /\ Stays(s, s)
      BY <2>1, <2>2, <3>2, <3>4, <3>5, StaysGrown, StaysSame
    <3>7. R(renew) = IF renew THEN rs ELSE s
      BY DEF rs, chain
    <3> HIDE DEF R
    <3>8. /\ IsSession(R(renew)) /\ Stays(s, R(renew))
          /\ R(renew).handshake = s.handshake /\ R(renew).finalize = s.finalize
      BY <2>2, <3>5, <3>6, <3>7
    <3>9. R(renew).triggered = TRUE /\ IsList(R(renew).chain)
      BY <3>2, <3>8 DEF Stays, GoesOn
    <3>10. /\ IsSession(Q(renew)) /\ Stays(R(renew), Q(renew))
           /\ SameEnd(R(renew), Q(renew))
      BY <3>8, <3>9, QueueSamplesDoes, QueueSamplesStays
    <3> HIDE DEF Q
    <3>11. Stays(session[c], Q(renew))
      <4>1. Stays(session[c], s)
        BY <2>1, <2>2, StaysSame
      <4> QED
        BY <4>1, <3>8, <3>10, StaysOn
    <3>12. Awaits(Q(renew))
      BY <2>1, <2>2, <3>8, <3>10 DEF Awaits, SameEnd
    <3>13. CASE Q(renew).error /\ ~s.error
      <4> DEFINE ss == [session EXCEPT ![c] = Q(renew)]
      <4>1. FinalizeCurrent(ss, TRUE)
        BY <3>1, <3>13
      <4>2. Sessions(ss)
        BY <2>1, <3>10, <3>12, AttendFacts, CaptureFacts, SessionChanges
      <4>3. \A a \in Arms : ss[a] = IF a = c THEN Q(renew) ELSE session[a]
        BY <2>1, AttendFacts, CaptureFacts DEF Sessions
      <4> HIDE DEF ss
      <4>4. \A a \in Arms : Stays(session[a], session[a])
        BY AttendFacts, StaysSame
      <4>5. \A a \in Arms :
              /\ Stays(session[a], ss[a])
              /\ session[a] = NewSession => ss[a] = NewSession \/ a = page.current
        BY <3>11, <4>3, <4>4
      <4> QED
        BY <4>1, <4>2, <4>5, FinalizeGoesOn
    <3>14. CASE ~(Q(renew).error /\ ~s.error)
      <4>1. session' = [session EXCEPT ![c] = Q(renew)] /\ UNCHANGED page
        BY <3>1, <3>14
      <4> QED
        BY <2>1, <3>11, <4>1, OneGoesOn
    <3> QED
      BY <3>13, <3>14
  <2> QED
    BY <2>3, <2>4
<1> QED
  BY <1>1, <1>2

\* The triggered recording is on the page, which attends it; it has no delete in
\* its chain.
LEMMA TriggeredAttends ==
  ASSUME AttendInv, CaptureInv', OnTriggered
  PROVE  AttendInv'
<1> DEFINE c == page.current
<1>1. page' = [page EXCEPT !.state = "recording"] /\ archive' = archive
  BY DEF OnTriggered, Received, store
<1>2. /\ page'.crossed = page.crossed /\ page'.current = page.current
      /\ page'.capacity = page.capacity /\ page'.state = "recording"
  BY <1>1, AttendFacts, CaptureFacts DEF IsPage
<1>3. CASE c = NoArm
  <2>1. UNCHANGED session
    BY <1>3 DEF OnTriggered
  <2> QED
    BY <1>1, <1>2, <2>1, PageOnly
<1>4. CASE c # NoArm
  <2>1. /\ c \in Arms /\ IsSession(session[c]) /\ IsRecorder(session[c])
        /\ ~Deletes(session[c].chain)
    BY <1>4, AttendFacts, CaptureFacts
  <2> DEFINE s == session[c]
             m == Head(toPage)
             before == SelectSeq(s.pre, LAMBDA x : x < m.seq)
             kept == IF limits.pre = 0 THEN before ELSE LastOf(before, limits.pre)
             after == SelectSeq(s.pre, LAMBDA x : x >= m.seq)
             dropped == IF m.dropped > s.dropped THEN m.dropped ELSE s.dropped
             ahead == IF s.chain = <<>> THEN <<Write("begin")>>
                      ELSE <<Head(s.chain), Write("begin")>> \o Tail(s.chain)
             chain == IF s.chain = <<>> \/ s.broken THEN <<Write("begin")>>
                      ELSE <<Head(s.chain), Write("begin")>> \o Tail(s.chain)
             b == [s EXCEPT !.id = m.id, !.trigger = m.seq, !.triggered = TRUE,
                     !.begun = TRUE, !.again = s.triggered, !.pre = <<>>,
                     !.broken = FALSE, !.dropped = dropped, !.chain = chain,
                     !.timer = TRUE]
             q == QueueSamples(b, kept \o after)
             e == Finalized(q, TRUE, ws = "open")
             t == IF q.error /\ ~s.error THEN e ELSE q
  <2>2. session' = [session EXCEPT ![c] = t]
    BY <1>4 DEF OnTriggered
  <2>3. IsList(chain) /\ ~Deletes(chain)
    <3>1. IsList(ahead) /\ ~Deletes(ahead)
      BY <2>1, BeginGoesAhead DEF IsRecorder
    <3>2. IsList(<<Write("begin")>>) /\ ~Deletes(<<Write("begin")>>)
      <4>1. IsList(<<>>) /\ ~Deletes(<<>>)
        BY NewIsQuiet
      <4> QED
        BY <4>1, BeginGoesAhead
    <3>3. chain = ahead \/ chain = <<Write("begin")>>
      OBVIOUS
    <3> HIDE DEF chain, ahead
    <3> QED
      BY <3>1, <3>2, <3>3
  <2> HIDE DEF chain, ahead, dropped, m
  <2>4. /\ IsSession(b) /\ b.chain = chain /\ b.triggered = TRUE
        /\ b.begun = TRUE /\ b.again = s.triggered /\ b.broken = FALSE
        /\ b.finalize = s.finalize
    BY <2>1 DEF IsSession
  <2> HIDE DEF b
  <2>5. IsSession(q) /\ Stays(b, q) /\ q.finalize = s.finalize
    BY <2>3, <2>4, QueueSamplesDoes, QueueSamplesStays DEF SameEnd
  <2> HIDE DEF q
  <2>6. IsList(q.chain) /\ q.triggered = TRUE
    BY <2>4, <2>5 DEF Stays, GoesOn
  <2>7. Stays(q, e) /\ Stays(q, q)
    BY <2>5, <2>6, FinalizedStays, StaysSame
  <2> HIDE DEF e
  <2>8. Stays(b, t)
    BY <2>5, <2>7, StaysOn
  <2> HIDE DEF t
  <2>9. /\ t.triggered = TRUE /\ t.begun = TRUE /\ t.again = s.triggered
        /\ t.broken \in BOOLEAN /\ IsList(t.chain) /\ ~Deletes(t.chain)
        /\ t.finalize = "abort" => s.finalize = "abort" \/ ~Begins(t.chain)
    BY <2>3, <2>4, <2>8 DEF Stays, GoesOn
  <2>10. IsRecorder(t)
    <3>1. InOrder(t.chain)
      BY <2>9 DEF InOrder, Deletes
    <3>2. s.finalize = "abort" => s.triggered = TRUE
      BY <2>1 DEF IsRecorder
    <3> QED
      BY <2>1, <2>9, <3>1, <3>2 DEF IsRecorder
  <2>11. \A a \in Arms : session'[a] = IF a = c THEN t ELSE session[a]
    BY <2>1, <2>2, AttendFacts, CaptureFacts DEF Sessions
  <2>12. PageFree'
    BY <1>2, AttendFacts DEF PageFree
  <2>13. ASSUME NEW a \in Arms
         PROVE  Tended(a)' /\ archive'[a].again \in BOOLEAN
    <3>1. CASE a = c
      <4>1. session'[a] = t
        BY <2>11, <3>1
      <4>2. Tended(a)'
        BY <1>2, <2>9, <2>10, <3>1, <4>1 DEF Tended, Held
      <4> QED
        BY <1>1, <4>2, AttendFacts
    <3>2. CASE a # c
      <4>1. session'[a] = session[a]
        BY <2>11, <3>2
      <4>2. Tended(a)
        BY DEF AttendInv
      <4>3. Tended(a)'
        BY <1>1, <1>2, <4>1, <4>2 DEF Tended, Held, Saving, IsRecorder, IsList, Begins,
           Deletes, InOrder
      <4> QED
        BY <1>1, <4>3, AttendFacts
    <3> QED
      BY <3>1, <3>2
  <2> QED
    BY <2>12, <2>13 DEF AttendInv
<1> QED
  BY <1>3, <1>4

LEMMA MessageAttends ==
  ASSUME AttendInv, CaptureInv', MessageNext
  PROVE  AttendInv'
<1>1. ArchivesGoOn
  BY StillArchives DEF MessageNext, OnTelemetry, OnArmed, OnTriggered, OnStopped,
     OnStopError, OnCaptureError, Received, store
<1>2. CASE OnTelemetry
  BY <1>1, <1>2, TelemetryAttends, GoingOn
<1>3. CASE OnArmed
  <2>1. page' = [page EXCEPT !.pending = FALSE, !.state = "armed", !.promise = NoArm]
        /\ UNCHANGED <<archive, session>>
    BY <1>3 DEF OnArmed, Received, store
  <2>2. /\ page'.crossed = page.crossed /\ page'.current = page.current
        /\ page'.capacity = page.capacity /\ page'.state = "armed"
    BY <2>1, AttendFacts, CaptureFacts DEF IsPage
  <2> QED
    BY <2>1, <2>2, PageOnly
<1>4. CASE OnTriggered
  BY <1>4, TriggeredAttends
<1>5. CASE OnStopped
  <2> DEFINE c == page.current
             t == [session[c] EXCEPT !.handshake = "acked"]
  <2>1. CASE UNCHANGED <<session, page>>
    BY <1>1, <2>1, StillSessions, GoingOn
  <2>2. CASE ~UNCHANGED <<session, page>>
    <3>1. /\ c # NoArm
          /\ session' = [session EXCEPT ![c] = t]
          /\ page' = [page EXCEPT !.state = "receiving"]
      BY <1>5, <2>2 DEF OnStopped
    <3>2. c \in Arms /\ IsSession(session[c]) /\ IsList(session[c].chain)
      BY <3>1, AttendFacts, CaptureFacts
    <3>3. /\ t.chain = session[c].chain
          /\ t.triggered = session[c].triggered /\ t.begun = session[c].begun
          /\ t.again = session[c].again /\ t.broken = session[c].broken
          /\ t.finalize = session[c].finalize
      BY <3>2 DEF IsSession
    <3> HIDE DEF t
    <3>4. Stays(session[c], t)
      BY <3>2, <3>3, StaysSame
    <3>5. /\ page'.crossed = page.crossed /\ page'.current = page.current
          /\ page'.capacity = page.capacity /\ page'.state = "receiving"
      BY <3>1, AttendFacts, CaptureFacts DEF IsPage
    <3> QED
      BY <1>1, <3>1, <3>2, <3>4, <3>5, OneGoesOn, GoingOn
  <2> QED
    BY <2>1, <2>2
<1>6. CASE OnStopError
  <2> DEFINE c == page.current
             t == FailedHandshake(session[c])
  <2>1. CASE c = NoArm
    BY <1>1, <1>6, <2>1, StillSessions, GoingOn DEF OnStopError
  <2>2. CASE c # NoArm
    <3>1. session' = [session EXCEPT ![c] = t] /\ page' = page
      BY <1>6, <2>2 DEF OnStopError
    <3>2. c \in Arms /\ IsSession(session[c]) /\ IsList(session[c].chain)
      BY <2>2, AttendFacts, CaptureFacts
    <3>3. Stays(session[c], t)
      BY <3>2, FailedHandshakeStays
    <3> HIDE DEF t
    <3> QED
      BY <1>1, <3>1, <3>2, <3>3, OneGoesOn, GoingOn
  <2> QED
    BY <2>1, <2>2
<1>7. CASE OnCaptureError
  BY <1>1, <1>7, ResetGoesOn, GoingOn DEF OnCaptureError
<1> QED
  BY <1>2, <1>3, <1>4, <1>5, <1>6, <1>7 DEF MessageNext

\* A write that succeeds: it opens the archive only for a session that begins it,
\* and when a deletion leaves the chain the archive is gone.
LEMMA WrittenAttends ==
  ASSUME AttendInv, CaptureInv', NEW a \in Arms, session[a].chain # <<>>,
         NEW t, t = [session[a] EXCEPT !.chain = Tail(@)],
         session' = [session EXCEPT ![a] = t], page' = page,
         \A b \in Arms : b # a => archive'[b] = archive[b],
         archive'[a].again \in BOOLEAN,
         \/ archive'[a].status # "recording"
         \/ /\ Head(session[a].chain).op = "begin"
            /\ archive'[a].again = session[a].again
         \/ /\ archive[a].status = "recording"
            /\ Head(session[a].chain) # Write("delete")
            /\ archive'[a].again = archive[a].again
  PROVE  AttendInv'
<1> DEFINE s == session[a]
           q == s.chain
           w == Head(q)
<1>1. /\ IsSession(s) /\ IsRecorder(s) /\ IsList(q)
      /\ Deletes(q) => a # page.current
      /\ archive[a].status = "recording" /\ archive[a].again = FALSE => Held(a, s)
      /\ Begins(q) /\ s.again = FALSE => Held(a, s)
  BY AttendFacts, CaptureFacts DEF AttendInv, Tended
<1>2. s.triggered = TRUE /\ s # NewSession
  BY <1>1, NewIsQuiet DEF IsRecorder
<1>3. /\ t.chain = Tail(q) /\ t.triggered = TRUE /\ t.begun = s.begun
      /\ t.again = s.again /\ t.broken = s.broken /\ t.finalize = s.finalize
  BY <1>1, <1>2 DEF IsSession
<1>4. /\ IsList(Tail(q))
      /\ Begins(Tail(q)) => Begins(q)
      /\ Deletes(Tail(q)) => Deletes(q)
      /\ Deletes(q) => Deletes(Tail(q)) \/ w = Write("delete")
      /\ InOrder(Tail(q))
      /\ w = Write("delete") => ~Begins(Tail(q))
      /\ w.op = "begin" => Begins(q)
  BY <1>1, TailShrinks DEF IsRecorder
<1>5. IsRecorder(t)
  BY <1>1, <1>2, <1>3, <1>4 DEF IsRecorder
<1>6. Held(a, s) /\ w # Write("delete") => Held(a, t)
  BY <1>2, <1>3, <1>4 DEF Held, Saving
<1>7. Write("delete").op # "begin"
  BY DEF Write
<1>8. archive'[a].status = "recording" /\ archive'[a].again = FALSE => Held(a, t)
  BY <1>1, <1>4, <1>6, <1>7
<1>9. Begins(t.chain) /\ t.again = FALSE => Held(a, t)
  BY <1>1, <1>3, <1>4, <1>6
<1>10. \A b \in Arms : session'[b] = IF b = a THEN t ELSE session[b]
  BY AttendFacts, CaptureFacts DEF Sessions
<1>11. PageFree'
  BY AttendFacts DEF PageFree
<1>12. ASSUME NEW b \in Arms
       PROVE  Tended(b)' /\ archive'[b].again \in BOOLEAN
  <2>1. CASE b = a
    <3>1. session'[b] = t
      BY <1>10, <2>1
    <3>2. Held(a, t)' <=> Held(a, t)
      BY DEF Held
    <3>3. Tended(b)'
      <4>1. Deletes(t.chain) => a # page'.current
        BY <1>1, <1>3, <1>4
      <4>2. t.triggered = TRUE
        BY <1>3
      <4> HIDE DEF q
      <4> QED
        BY <1>5, <1>8, <1>9, <2>1, <3>1, <3>2, <4>1, <4>2 DEF Tended
    <3> QED
      BY <2>1, <3>3
  <2>2. CASE b # a
    <3>1. session'[b] = session[b] /\ archive'[b] = archive[b]
      BY <1>10, <2>2
    <3>2. Tended(b)
      BY DEF AttendInv
    <3>3. IsRecorder(session'[b])
      BY <3>1, <3>2 DEF Tended
    <3>4. /\ Begins(session'[b].chain) <=> Begins(session[b].chain)
          /\ Deletes(session'[b].chain) <=> Deletes(session[b].chain)
      BY <3>1
    <3>5. Held(b, session[b])' <=> Held(b, session[b])
      BY <3>1 DEF Held, Saving, Deletes
    <3>6. Tended(b)'
      BY <3>1, <3>2, <3>3, <3>4, <3>5 DEF Tended
    <3> QED
      BY <3>1, <3>6, AttendFacts
  <2> QED
    BY <2>1, <2>2
<1> QED
  BY <1>11, <1>12 DEF AttendInv

LEMMA WriteAttends ==
  ASSUME AttendInv, CaptureInv', NEW a \in Arms, WriteNext(a)
  PROVE  AttendInv'
<1> DEFINE s == session[a]
           w == Head(s.chain)
           rest == [s EXCEPT !.chain = Tail(@)]
           failed == [rest EXCEPT !.broken = TRUE,
                                  !.error = w.op \in {"append", "renew"} \/ @]
           ss == [session EXCEPT ![a] = failed]
           Fails == /\ IF failed.error /\ ~s.error /\ ~w.quiet
                         THEN FinalizeCurrent(ss, TRUE)
                         ELSE session' = ss /\ UNCHANGED <<page, toDevice>>
                    /\ UNCHANGED <<store, other>>
<1>1. s.chain # <<>>
  BY DEF WriteNext
<1>2. IsSession(s) /\ IsRecorder(s) /\ s # NewSession /\ s.triggered = TRUE
      /\ Awaits(s)
  BY <1>1, AttendFacts, CaptureFacts, NewIsQuiet DEF IsRecorder
<1>3. Fails \/ (Writable(a, w) /\ Written(a, w)
                /\ session' = [session EXCEPT ![a] = rest] /\ UNCHANGED page)
  BY DEF WriteNext
<1>4. CASE Fails
  <2>1. /\ IsSession(rest) /\ rest.chain = Tail(s.chain)
        /\ rest.triggered = s.triggered /\ rest.begun = s.begun
        /\ rest.again = s.again /\ rest.finalize = s.finalize
        /\ rest.handshake = s.handshake
    BY <1>2 DEF IsSession
  <2> HIDE DEF rest
  <2>2. /\ IsSession(failed) /\ failed.chain = Tail(s.chain)
        /\ failed.triggered = s.triggered /\ failed.begun = s.begun
        /\ failed.again = s.again /\ failed.finalize = s.finalize
        /\ failed.broken = TRUE /\ failed.handshake = s.handshake
    BY <2>1 DEF IsSession
  <2> HIDE DEF failed
  <2>3. /\ IsList(Tail(s.chain))
        /\ Begins(Tail(s.chain)) => Begins(s.chain)
        /\ Deletes(Tail(s.chain)) => Deletes(s.chain)
        /\ InOrder(s.chain) => InOrder(Tail(s.chain))
    BY <1>1, <1>2, TailShrinks DEF IsRecorder
  <2>4. Stays(s, failed)
    BY <1>2, <2>2, <2>3 DEF Stays, GoesOn, Saving
  <2>5. ArchivesGoOn
    BY <1>4, StillArchives DEF store
  <2>6. Awaits(failed)
    BY <1>2, <2>2 DEF Awaits
  <2>7. CASE FinalizeCurrent(ss, TRUE)
    <3>1. Sessions(ss)
      BY <2>2, <2>6, AttendFacts, CaptureFacts, SessionChanges
    <3>2. \A x \in Arms : ss[x] = IF x = a THEN failed ELSE session[x]
      BY AttendFacts, CaptureFacts DEF Sessions
    <3> HIDE DEF ss
    <3>3. \A x \in Arms : Stays(session[x], session[x])
      BY AttendFacts, StaysSame
    <3>4. \A x \in Arms :
            /\ Stays(session[x], ss[x])
            /\ session[x] = NewSession => ss[x] = NewSession \/ x = page.current
      BY <1>2, <2>4, <3>2, <3>3
    <3> QED
      BY <2>5, <2>7, <3>1, <3>4, FinalizeGoesOn, GoingOn
  <2>8. CASE session' = ss /\ UNCHANGED page
    BY <1>2, <2>4, <2>5, <2>8, OneGoesOn, GoingOn
  <2> QED
    BY <1>4, <2>7, <2>8
<1>5. CASE Writable(a, w) /\ Written(a, w)
           /\ session' = [session EXCEPT ![a] = rest] /\ UNCHANGED page
  <2> DEFINE r == archive[a]
  <2>1. /\ archive = [x \in Arms |-> archive[x]] /\ IsArchive(r)
        /\ r.again \in BOOLEAN /\ s.again \in BOOLEAN
    BY <1>2, AttendFacts DEF CaptureInv, CaptureShapes, IsRecorder
  <2>2. PICK n : archive' = [archive EXCEPT ![a] = n]
    BY <1>5 DEF Written, Put
  <2>3. archive'[a] = n /\ \A b \in Arms : b # a => archive'[b] = archive[b]
    BY <2>1, <2>2
  <2>4. CASE w.op = "begin"
    <3>1. archive' = [archive EXCEPT ![a] =
            [r EXCEPT !.status = "recording", !.chunks = 0, !.samples = 0,
                      !.again = s.again]]
      BY <1>5, <2>4 DEF Written, Put
    <3>2. archive'[a].again = s.again
      BY <2>1, <3>1 DEF IsArchive
    <3> QED
      BY <1>1, <1>5, <2>1, <2>3, <2>4, <3>2, WrittenAttends
  <2>5. CASE w.op \in {"renew", "append"}
    <3>1. r.status = "recording"
      BY <1>5, <2>5 DEF Writable
    <3>2. archive'[a].again = r.again
      <4>1. CASE w.op = "renew"
        BY <1>5, <2>1, <4>1 DEF Written, Put
      <4>2. CASE w.op = "append"
        <5>1. \E k, m : archive' = [archive EXCEPT ![a] =
                [r EXCEPT !.chunks = k, !.samples = m]]
          BY <1>5, <4>2 DEF Written, Put
        <5> QED
          BY <2>1, <5>1 DEF IsArchive
      <4> QED
        BY <2>5, <4>1, <4>2
    <3>3. w # Write("delete")
      BY <2>5 DEF Write
    <3>4. archive'[a].again \in BOOLEAN /\ archive'[a].again = archive[a].again
      BY <2>1, <3>2
    <3>5. archive[a].status = "recording"
      BY <3>1
    <3> HIDE DEF r
    <3> QED
      BY <1>1, <1>5, <2>3, <3>3, <3>4, <3>5, WrittenAttends
  <2>6. CASE w.op = "delete"
    <3>1. archive' = [archive EXCEPT ![a] = NoArchive]
      BY <1>5, <2>6 DEF Written
    <3>2. archive'[a].status # "recording" /\ archive'[a].again \in BOOLEAN
      BY <2>1, <3>1 DEF NoArchive
    <3> QED
      BY <1>1, <1>5, <2>3, <3>2, WrittenAttends
  <2> QED
    BY <1>5, <2>4, <2>5, <2>6 DEF Written
<1> QED
  BY <1>3, <1>4, <1>5

\* A recording is sealed, unless its seal has failed, and the page is idle.
LEMMA DoneAttends ==
  ASSUME AttendInv, CaptureInv', NEW a \in Arms, Saving(session[a]),
         NEW failed \in BOOLEAN, FinalizeDone(a, failed),
         \A b \in Arms : b # a => archive'[b] = archive[b],
         archive'[a].again \in BOOLEAN,
         archive'[a].status = "recording" => failed,
         Begins(session[a].chain) => session[a].again = TRUE
  PROVE  AttendInv'
<1> DEFINE s == session[a]
           t == [s EXCEPT !.finalize = "done", !.broken = @ \/ failed]
<1>1. /\ IsSession(s) /\ IsRecorder(s) /\ s.triggered = TRUE
      /\ Deletes(s.chain) => a # page.current
  BY AttendFacts, CaptureFacts DEF IsRecorder, Saving
<1>2. session' = [session EXCEPT ![a] = t]
  BY AttendFacts, CaptureFacts DEF FinalizeDone, Sessions
<1>3. \A b \in Arms : session'[b] = IF b = a THEN t ELSE session[b]
  BY <1>2, AttendFacts, CaptureFacts DEF Sessions
<1>4. /\ t.chain = s.chain /\ t.triggered = TRUE /\ t.begun = s.begun
      /\ t.again = s.again /\ t.finalize = "done"
      /\ t.broken \in BOOLEAN
      /\ failed => t.broken = TRUE
  <2> DEFINE broken == s.broken \/ failed
             u == [s EXCEPT !.finalize = "done", !.broken = broken]
  <2>1. broken \in BOOLEAN /\ (failed => broken = TRUE)
    BY <1>1 DEF IsRecorder
  <2>2. t = u
    OBVIOUS
  <2> HIDE DEF broken, t
  <2>3. /\ u.chain = s.chain /\ u.triggered = TRUE /\ u.begun = s.begun
        /\ u.again = s.again /\ u.finalize = "done" /\ u.broken = broken
    BY <1>1 DEF IsSession
  <2> QED
    BY <2>1, <2>2, <2>3
<1> HIDE DEF t
<1>5. /\ page'.state = "idle"
      /\ page'.current = (IF page.current = a THEN NoArm ELSE page.current)
      /\ page'.crossed \in BOOLEAN
      /\ page.crossed = TRUE => page'.crossed = TRUE
      /\ page.current \notin {a, NoArm} => page'.crossed = TRUE
  <2> DEFINE n == IF page.current = a THEN NoArm ELSE page.current
             x == page.crossed \/ page.current \notin {a, NoArm}
  <2>1. page' = [page EXCEPT !.state = "idle", !.current = n, !.crossed = x]
    BY AttendFacts, CaptureFacts DEF FinalizeDone, IsPage
  <2>2. /\ x \in BOOLEAN
        /\ page.crossed = TRUE => x = TRUE
        /\ page.current \notin {a, NoArm} => x = TRUE
    BY AttendFacts
  <2> HIDE DEF x, n
  <2>3. page'.state = "idle" /\ page'.crossed = x /\ page'.current = n
    BY <2>1, AttendFacts, CaptureFacts DEF IsPage
  <2> QED
    BY <2>2, <2>3 DEF n
<1>6. PageFree'
  BY <1>5 DEF PageFree
<1>7. \A b \in Arms : b # NoArm
  BY PowerCaptureAssumption DEF Arms, NoArm
<1>8. ASSUME NEW b \in Arms
      PROVE  Tended(b)' /\ archive'[b].again \in BOOLEAN
  <2>1. CASE b = a
    <3>1. session'[b] = t
      BY <1>3, <2>1
    <3>2. IsRecorder(t)
      BY <1>1, <1>4 DEF IsRecorder
    <3>3. b # page'.current
      BY <1>5, <1>7, <2>1
    <3>4. archive'[b].status = "recording" => t.broken = TRUE
      BY <1>4, <2>1
    <3>5. Begins(t.chain) => t.again # FALSE
      BY <1>4
    <3>6. Tended(b)'
      BY <1>4, <3>1, <3>2, <3>3, <3>4, <3>5 DEF Tended, Held
    <3> QED
      BY <2>1, <3>6
  <2>2. CASE b # a
    <3>1. session'[b] = session[b] /\ archive'[b] = archive[b]
      BY <1>3, <2>2
    <3>2. Tended(b)
      BY DEF AttendInv
    <3>3. b = page'.current <=> b = page.current
      BY <1>5, <1>7, <2>2
    <3>4. Held(b, session[b]) => Held(b, session[b])'
      BY <1>5, <3>1, <3>3 DEF Held, Saving, Deletes
    <3>5. Tended(b)'
      BY <3>1, <3>2, <3>3, <3>4
      DEF Tended, IsRecorder, IsList, Begins, Deletes, InOrder
    <3> QED
      BY <3>1, <3>5, AttendFacts
  <2> QED
    BY <2>1, <2>2
<1> QED
  BY <1>6, <1>8 DEF AttendInv

LEMMA SealAttends ==
  ASSUME AttendInv, CaptureInv', NEW a \in Arms, FinalizeSeal(a) \/ FinalizeAbort(a)
  PROVE  AttendInv'
<1> DEFINE s == session[a]
           r == archive[a]
<1>1. /\ Saving(s) /\ IsSession(s) /\ IsRecorder(s)
      /\ archive = [x \in Arms |-> archive[x]] /\ IsArchive(r)
      /\ r.again \in BOOLEAN
  BY AttendFacts DEF FinalizeSeal, FinalizeAbort, Saving, CaptureInv, CaptureShapes,
     Sessions
<1>2. Begins(s.chain) => s.again = TRUE \/ s.chain # <<>>
  BY NewIsQuiet
<1>3. ASSUME NEW st, st # "recording", Put(a, [r EXCEPT !.status = st]),
             FinalizeDone(a, FALSE), Begins(s.chain) => s.again = TRUE
      PROVE  AttendInv'
  <2> DEFINE n == [r EXCEPT !.status = st]
  <2>1. n.status = st /\ n.again = r.again /\ archive' = [archive EXCEPT ![a] = n]
    BY <1>1, <1>3 DEF IsArchive, Put
  <2> HIDE DEF n
  <2>2. archive'[a] = n /\ \A b \in Arms : b # a => archive'[b] = archive[b]
    BY <1>1, <2>1
  <2> QED
    BY <1>1, <1>3, <2>1, <2>2, DoneAttends
<1>4. CASE FinalizeSeal(a)
  <2>1. s.chain = <<>> /\ ~Begins(s.chain)
    BY <1>4, NewIsQuiet DEF FinalizeSeal
  <2>2. CASE Put(a, [r EXCEPT !.status = IF Whole(a) THEN "complete"
                                                   ELSE "interrupted"])
             /\ FinalizeDone(a, FALSE)
    BY <1>3, <2>1, <2>2
  <2>3. CASE session' = [session EXCEPT ![a].finalize = "abort"]
             /\ UNCHANGED <<archive, page, other>>
    <3> DEFINE t == [s EXCEPT !.finalize = "abort"]
    <3>1. session' = [session EXCEPT ![a] = t]
      BY <2>3, AttendFacts, CaptureFacts DEF Sessions
    <3>2. /\ t.chain = s.chain /\ t.triggered = s.triggered /\ t.begun = s.begun
          /\ t.again = s.again /\ t.broken = s.broken /\ t.finalize = "abort"
      BY <1>1 DEF IsSession
    <3> HIDE DEF t
    <3>3. s # NewSession /\ s.triggered = TRUE
      BY <1>1, NewIsQuiet DEF IsRecorder, Saving
    <3>4. Stays(s, t)
      BY <1>1, <2>1, <3>2, <3>3 DEF Stays, GoesOn, Saving, IsRecorder
    <3> QED
      BY <2>3, <3>1, <3>3, <3>4, OneGoesOn, StillArchives, GoingOn
  <2> QED
    BY <1>4, <2>2, <2>3 DEF FinalizeSeal
<1>5. CASE FinalizeAbort(a)
  <2>1. Begins(s.chain) => s.again = TRUE
    BY <1>1, <1>5 DEF FinalizeAbort, IsRecorder
  <2>2. CASE Put(a, [r EXCEPT !.status = IF s.error THEN "failed" ELSE "interrupted"])
             /\ FinalizeDone(a, FALSE)
    BY <1>3, <2>1, <2>2
  <2>3. CASE FinalizeDone(a, TRUE) /\ UNCHANGED archive
    BY <1>1, <2>1, <2>3, DoneAttends
  <2> QED
    BY <1>5, <2>2, <2>3 DEF FinalizeAbort
<1> QED
  BY <1>4, <1>5

LEMMA SaveAttends ==
  ASSUME AttendInv, CaptureInv', SaveNext
  PROVE  AttendInv'
<1>1. PICK a \in Arms : \/ StopTimer(a) \/ StopTimeout(a) \/ WriteNext(a)
                        \/ FinalizeStopped(a) \/ FinalizeSeal(a) \/ FinalizeAbort(a)
  BY DEF SaveNext
<1> DEFINE s == session[a]
<1>2. IsSession(s) /\ IsRecorder(s) /\ IsList(s.chain) /\ Awaits(s)
  BY AttendFacts, CaptureFacts
<1>3. CASE StopTimer(a)
  <2> DEFINE t == [s EXCEPT !.timer = FALSE]
             ss == [session EXCEPT ![a] = t]
  <2>1. /\ s.timer /\ FinalizeCurrent([session EXCEPT ![a].timer = FALSE], FALSE)
        /\ UNCHANGED archive
    BY <1>3 DEF StopTimer, store
  <2>2. [session EXCEPT ![a].timer = FALSE] = ss
    BY AttendFacts, CaptureFacts DEF Sessions
  <2>3. /\ IsSession(t) /\ t.chain = s.chain /\ t.triggered = s.triggered
        /\ t.begun = s.begun /\ t.again = s.again /\ t.broken = s.broken
        /\ t.finalize = s.finalize /\ t.handshake = s.handshake
    BY <1>2 DEF IsSession
  <2> HIDE DEF t
  <2>4. Awaits(t) /\ Stays(s, t)
    BY <1>2, <2>3, StaysSame DEF Awaits
  <2>5. Sessions(ss)
    BY <2>3, <2>4, AttendFacts, CaptureFacts, SessionChanges
  <2>6. \A x \in Arms : ss[x] = IF x = a THEN t ELSE session[x]
    BY AttendFacts, CaptureFacts DEF Sessions
  <2>7. s # NewSession
    BY <2>1 DEF NewSession
  <2>8. FinalizeCurrent(ss, FALSE)
    BY <2>1, <2>2
  <2> HIDE DEF ss
  <2>9. \A x \in Arms : Stays(session[x], session[x])
    BY AttendFacts, StaysSame
  <2>10. \A x \in Arms :
           /\ Stays(session[x], ss[x])
           /\ session[x] = NewSession => ss[x] = NewSession \/ x = page.current
    BY <2>4, <2>6, <2>7, <2>9
  <2> QED
    BY <2>1, <2>5, <2>8, <2>10, FinalizeGoesOn, StillArchives, GoingOn
<1>4. CASE StopTimeout(a)
  <2> DEFINE t == [s EXCEPT !.handshake = "failed"]
  <2>1. /\ s.handshake = "pending" /\ UNCHANGED <<archive, page>>
        /\ session' = [session EXCEPT ![a] = t]
    BY <1>4, AttendFacts, CaptureFacts DEF StopTimeout, store, Sessions
  <2>2. /\ t.chain = s.chain /\ t.triggered = s.triggered
        /\ t.begun = s.begun /\ t.again = s.again /\ t.broken = s.broken
        /\ t.finalize = s.finalize
    BY <1>2 DEF IsSession
  <2> HIDE DEF t
  <2>3. s # NewSession
    BY <2>1 DEF NewSession
  <2>4. Stays(s, t)
    BY <1>2, <2>2, StaysSame
  <2> QED
    BY <2>1, <2>3, <2>4, OneGoesOn, StillArchives, GoingOn
<1>5. CASE FinalizeStopped(a)
  <2> DEFINE f == Flushed(s)
             t == [f EXCEPT !.finalize = "drain",
                            !.incomplete = @ \/ s.handshake = "failed"]
  <2>1. /\ s.finalize = "stop"
        /\ session' = [session EXCEPT ![a] = t]
        /\ UNCHANGED <<archive, page>>
    BY <1>5 DEF FinalizeStopped, store
  <2>2. s.triggered = TRUE /\ s # NewSession
    BY <1>2, <2>1, NewIsQuiet DEF IsRecorder
  <2>3. IsSession(f) /\ Stays(s, f)
    BY <1>2, <2>2, FlushedDoes, FlushedStays
  <2> HIDE DEF f
  <2>4. /\ t.chain = f.chain /\ t.triggered = f.triggered
        /\ t.begun = f.begun /\ t.again = f.again /\ t.broken = f.broken
        /\ t.finalize = "drain"
    BY <2>3 DEF IsSession
  <2> HIDE DEF t
  <2>5. Stays(s, t)
    BY <2>2, <2>3, <2>4 DEF Stays, GoesOn, Saving
  <2> QED
    BY <2>1, <2>2, <2>5, OneGoesOn, StillArchives, GoingOn
<1> QED
  BY <1>1, <1>3, <1>4, <1>5, WriteAttends, SealAttends

LEMMA RecoverAttends ==
  ASSUME AttendInv, CaptureInv', RecoverNext
  PROVE  AttendInv'
<1>1. CASE OtherClears
  BY <1>1, ClearedAttends DEF OtherClears
<1>2. CASE ~OtherClears
  <2>1. UNCHANGED <<session, page>>
    BY <1>2 DEF RecoverNext, RecoverList, RecoverRebuild, RecoverCommit, pageSide
  <2>2. CASE UNCHANGED archive
    BY <2>1, <2>2, StillArchives, StillSessions, GoingOn
  <2>3. CASE ~UNCHANGED archive
    <3> DEFINE a == other.arm
               r == [archive[a] EXCEPT !.status = "interrupted", !.samples = other.samples]
    <3>1. archive' = [archive EXCEPT ![a] = r]
      BY <1>2, <2>3 DEF RecoverNext, RecoverList, RecoverRebuild, RecoverCommit, store
    <3>2. /\ archive = [x \in Arms |-> archive[x]]
          /\ \A x \in Arms : IsArchive(archive[x]) /\ archive[x].again \in BOOLEAN
      BY AttendFacts DEF CaptureInv, CaptureShapes
    <3>3. a \in Arms
      BY <2>3, <3>1, <3>2
    <3>4. r.status = "interrupted" /\ r.again = archive[a].again
      BY <3>2, <3>3 DEF IsArchive
    <3> HIDE DEF r
    <3>5. \A x \in Arms : archive'[x] = IF x = a THEN r ELSE archive[x]
      BY <3>1, <3>2
    <3>6. ArchivesGoOn
      BY <3>2, <3>4, <3>5 DEF ArchivesGoOn
    <3> QED
      BY <2>1, <3>6, StillSessions, GoingOn
  <2> QED
    BY <2>2, <2>3
<1> QED
  BY <1>1, <1>2

LEMMA AttendStep ==
  ASSUME AttendInv, [CaptureNext]_captureVars
  PROVE  AttendInv'
<1>1. CaptureInv'
  BY AttendFacts, CaptureStep
<1>2. CASE UNCHANGED captureVars
  <2>1. UNCHANGED <<archive, session, page>>
    BY <1>2 DEF captureVars
  <2> QED
    BY <1>1, <2>1, StillArchives, StillSessions, GoingOn
<1>3. CASE CaptureNext
  BY <1>1, <1>3, UserAttends, LinkAttends, MessageAttends, SaveAttends, RecoverAttends
  DEF CaptureNext
<1> QED
  BY <1>2, <1>3

LEMMA AttendStarts ==
  ASSUME CaptureInit
  PROVE  AttendInv
<1>1. CaptureInv
  BY CaptureStarts
<1>2. /\ \A a \in Arms : session[a] = NewSession /\ archive[a] = NoArchive
      /\ page = IdlePage
  BY DEF CaptureInit
<1>3. PageFree
  BY <1>2 DEF PageFree, IdlePage
<1>4. NoArchive.status # "recording" /\ NoArchive.again \in BOOLEAN
  BY DEF NoArchive
<1>5. \A a \in Arms : Tended(a) /\ archive[a].again \in BOOLEAN
  BY <1>2, <1>4, NewIsQuiet DEF Tended
<1> QED
  BY <1>1, <1>3, <1>5 DEF AttendInv

\* An archive that is still recording has a session that settles it, has lost it by
\* a failed write, or is excused by name: for any number of recordings, whatever
\* the debugger sends, the user clicks and the database refuses (a part of
\* RecordingsAreSound).
THEOREM RecordingsAttended == CaptureSpec => []RecordingIsAttended
<1>1. CaptureInit => AttendInv
  BY AttendStarts
<1>2. AttendInv /\ [CaptureNext]_captureVars => AttendInv'
  BY AttendStep
<1>3. AttendInv => RecordingIsAttended
  <2> SUFFICES ASSUME AttendInv, NEW a \in Arms, archive[a].status = "recording"
               PROVE  LET s == session[a] IN
                      \/ a = page.current /\ s.triggered
                      \/ s.finalize \in {"stop", "drain", "abort"}
                      \/ s.broken \/ archive[a].again \/ s = NewSession \/ page.crossed
                      \/ Write("delete") \in Range(s.chain)
    BY DEF RecordingIsAttended
  <2> DEFINE s == session[a]
  <2>1. /\ archive[a].again \in BOOLEAN
        /\ archive[a].again = FALSE => Held(a, s)
        /\ IsList(s.chain)
    BY DEF AttendInv, Tended, IsRecorder
  <2>2. Deletes(s.chain) => Write("delete") \in Range(s.chain)
    <3>1. PICK S : s.chain \in Seq(S)
      BY <2>1 DEF IsList
    <3>2. DOMAIN s.chain = 1..Len(s.chain)
      BY <3>1, LenProperties
    <3> QED
      BY <3>2 DEF Deletes, Range
  <2>3. CASE archive[a].again = TRUE
    BY <2>3
  <2>4. CASE archive[a].again = FALSE
    BY <2>1, <2>2, <2>4 DEF Held, Saving
  <2> QED
    BY <2>1, <2>3, <2>4
<1> QED
  BY <1>1, <1>2, <1>3, PTL DEF CaptureSpec
=============================================================================
