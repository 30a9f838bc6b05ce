----------------------------- MODULE SerialLog -----------------------------
(***************************************************************************)
(* The text of one serial channel on the page (SerialTerminalPane.tsx,     *)
(* serialLogCache.ts): what arrives goes to the terminal, through a buffer *)
(* that is drawn frame by frame, and to a log in IndexedDB, through a      *)
(* buffer and a queue of transactions.  The user clears both, downloads    *)
(* the log, hides the terminal and reloads the page; the database fails.   *)
(*                                                                         *)
(* Text is a sequence of numbers, in the order in which it was received.   *)
(***************************************************************************)
EXTENDS Integers, Sequences, SequencesExt

CONSTANTS
  LogCap,        \* SERIAL_LOG_MAX_BYTES
  RestoreBytes,  \* SERIAL_LOG_RESTORE_BYTES
  FlushChars,    \* LOG_FLUSH_CHARS
  DrawCap,       \* TERMINAL_RENDER_BUFFER_CHARS
  MaxRx,         \* bound: the pieces of text received
  MaxLogEvents   \* bound: the clicks, failures and reloads

-----------------------------------------------------------------------------
(* The state:
     sl     the pane: whether its terminal is there, what was read to restore
            it, whether it is visible, the text to draw and whether a frame is
            requested, what the terminal shows, the text to log and its timer,
            whether writing is put off after a failure; the download: how many
            transactions it waits for, whether the last is its own, of what it is
     logOps the queue of transactions (logWriteQueueRef)
     logDb  the database: the chunks and the number of bytes, of one channel
     heard  history: how much was received, how much when the last clear was
            asked for and when the last one done was, the text lost to failures,
            clears, reloads and the cap, what a download should have had *)
VARIABLES sl, logOps, logDb, heard

serialLogVars == <<sl, logOps, logDb, heard>>

NewPane ==
  [term |-> "reading", restore |-> <<>>, visible |-> TRUE, draw |-> <<>>, frame |-> FALSE,
   shown |-> <<>>, plog |-> <<>>, timer |-> FALSE, retry |-> FALSE,
   download |-> [on |-> FALSE, wait |-> 0, own |-> FALSE, of |-> 0]]

SerialLogInit ==
  /\ sl = NewPane
  /\ logOps = <<>>
  /\ logDb = [chunks |-> <<>>, total |-> 0]
  /\ heard = [rx |-> 0, asked |-> 0, cleared |-> 0, lost |-> {}, missed |-> {},
              events |-> 0]

LogEvent == heard.events < MaxLogEvents
LogCounted == [heard EXCEPT !.events = @ + 1]
Loses(history, text) == [history EXCEPT !.lost = @ \cup ToSet(text)]

LastOf(s, n) == SubSeq(s, Max({1, Len(s) - n + 1}), Len(s))
TextOf(chunks) == FlattenSeq(chunks)

-----------------------------------------------------------------------------
(* The terminal.                                                            *)

(* scheduleTerminalOutput                                                   *)
Scheduled(pane) ==
  [pane EXCEPT !.frame = @ \/ (pane.visible /\ pane.term = "ready")]

(* trimTerminalOutputBuffer: the oldest text is not drawn.                  *)
ToDraw(pane, text) == Scheduled([pane EXCEPT !.draw = LastOf(text, DrawCap)])

(* A frame draws some of the text, in order.                                *)
FrameDraws ==
  /\ sl.frame
  /\ sl' = IF sl.visible /\ sl.term = "ready" /\ sl.draw # <<>>
           THEN Scheduled([sl EXCEPT !.frame = FALSE, !.shown = Append(@, Head(sl.draw)),
                                     !.draw = Tail(@)])
           ELSE [sl EXCEPT !.frame = FALSE]
  /\ UNCHANGED <<logOps, logDb, heard>>

(* The tab of the channel is left, or shown again.                          *)
VisibleTurns ==
  /\ LogEvent /\ heard' = LogCounted
  /\ sl' = [sl EXCEPT !.visible = ~@, !.frame = ~sl.visible]
  /\ UNCHANGED <<logOps, logDb>>

(* The terminal begins with the end of the log; that text is told apart from *)
(* what arrives by its sign.                                                *)
Restored(text) == [i \in 1..Len(text) |-> -text[i]]

RestoreRead ==
  /\ sl.term = "reading"
  /\ \/ /\ sl' = [sl EXCEPT !.term = "loading",
                            !.restore = Restored(LastOf(TextOf(logDb.chunks), RestoreBytes))]
        /\ UNCHANGED heard
     \/ /\ LogEvent /\ heard' = LogCounted
        /\ sl' = [sl EXCEPT !.term = "loading"]
  /\ UNCHANGED <<logOps, logDb>>

TerminalReady ==
  /\ sl.term = "loading"
  /\ sl' = ToDraw([sl EXCEPT !.term = "ready", !.restore = <<>>], sl.restore \o sl.draw)
  /\ UNCHANGED <<logOps, logDb, heard>>

-----------------------------------------------------------------------------
(* The log.                                                                 *)

(* flushLogCache: the pane and the queue after it.                          *)
FlushedPane(pane) == [pane EXCEPT !.timer = FALSE, !.plog = <<>>]
FlushedOps(pane) ==
  IF pane.plog = <<>> THEN logOps ELSE Append(logOps, [kind |-> "append", text |-> pane.plog])

(* appendReceived; while writing is put off nothing is kept for the log.    *)
TextReceived ==
  /\ heard.rx < MaxRx
  /\ LET n == heard.rx + 1
         drawn == ToDraw(sl, Append(sl.draw, n))
         logged == [drawn EXCEPT !.plog = Append(@, n), !.timer = TRUE]
         full == Len(logged.plog) >= FlushChars
     IN /\ sl' = IF sl.retry THEN drawn ELSE IF full THEN FlushedPane(logged) ELSE logged
        /\ logOps' = IF ~sl.retry /\ full THEN FlushedOps(logged) ELSE logOps
        /\ heard' = IF sl.retry THEN Loses([heard EXCEPT !.rx = n], <<n>>)
                    ELSE [heard EXCEPT !.rx = n]
  /\ UNCHANGED logDb

(* The timer, or the page goes to the background.                           *)
LogFlushes ==
  /\ sl.timer
  /\ sl' = FlushedPane(sl) /\ logOps' = FlushedOps(sl)
  /\ UNCHANGED <<logDb, heard>>

(* appendSerialLogChunk: one transaction adds the chunk and deletes the     *)
(* oldest ones until the bytes fit.                                         *)
Bytes(chunks) == Len(TextOf(chunks))
LogAppended(text) ==
  LET kept == LastOf(text, LogCap)
      chunks == Append(logDb.chunks, kept)
      total == logDb.total + Len(kept)
      Over(k) == total - Bytes(SubSeq(chunks, 1, k))
      deleted == CHOOSE k \in 0..Len(chunks) :
                   /\ Over(k) <= LogCap \/ k = Len(chunks)
                   /\ \A j \in 0..(k - 1) : Over(j) > LogCap
  IN [chunks |-> SubSeq(chunks, deleted + 1, Len(chunks)), total |-> Max({0, Over(deleted)})]

(* A download counts the transactions before it, and is given up when the   *)
(* one of its own fails.                                                    *)
OpDone(pane, ok) ==
  LET d == pane.download
  IN [pane EXCEPT !.download.wait = Max({0, @ - 1}),
                  !.download.on = @ /\ (ok \/ d.wait # 1 \/ ~d.own)]

(* A failure: what waits for the log is dropped, and writing put off.       *)
OpFailed(pane) == [OpDone(pane, FALSE) EXCEPT !.retry = TRUE, !.plog = <<>>]

(* The first transaction of the queue; it fails as a whole, and an append   *)
(* is skipped while writing is put off.                                     *)
OpRuns ==
  /\ logOps # <<>> /\ logOps' = Tail(logOps)
  /\ LET op == Head(logOps)
         lost == Loses(LogCounted, op.text \o sl.plog)
     IN \/ /\ op.kind = "append" /\ ~sl.retry
           /\ logDb' = LogAppended(op.text)
           /\ heard' = Loses(heard, SelectSeq(TextOf(logDb.chunks) \o op.text,
                                              LAMBDA n : n \notin ToSet(TextOf(logDb'.chunks))))
           /\ sl' = OpDone(sl, TRUE)
        \/ /\ op.kind = "append" /\ sl.retry
           /\ heard' = Loses(heard, op.text) /\ sl' = OpDone(sl, TRUE) /\ UNCHANGED logDb
        \/ /\ op.kind = "clear"
           /\ logDb' = [chunks |-> <<>>, total |-> 0]
           /\ sl' = [OpDone(sl, TRUE) EXCEPT !.retry = FALSE]
           /\ heard' = [heard EXCEPT !.cleared = op.upto]
        \/ /\ LogEvent /\ (op.kind = "append" => ~sl.retry)
           /\ sl' = OpFailed(sl) /\ heard' = lost /\ UNCHANGED logDb

(* The time to wait is over.                                                *)
RetryAgain ==
  /\ sl.retry /\ sl' = [sl EXCEPT !.retry = FALSE] /\ UNCHANGED <<logOps, logDb, heard>>

-----------------------------------------------------------------------------
(* The user.                                                                *)

\* Mutant of ClearedPane: the text that waits for the log is kept.
ClearedKeepsLog(pane) ==
  [pane EXCEPT !.draw = <<>>, !.frame = FALSE, !.shown = <<>>]

(* clear: the buffers at once, the log behind what is in the queue.         *)
ClearedPane(pane) ==
  [pane EXCEPT !.draw = <<>>, !.frame = FALSE, !.shown = <<>>, !.plog = <<>>, !.timer = FALSE]

ClearLogClicked ==
  /\ LogEvent
  /\ sl' = ClearedPane(sl)
  /\ logOps' = Append(logOps, [kind |-> "clear", text |-> <<>>, upto |-> heard.rx])
  /\ heard' = Loses([LogCounted EXCEPT !.asked = heard.rx], sl.plog)
  /\ UNCHANGED logDb

(* downloadCachedLog: flush, wait for the queue, read.                      *)
DownloadClicked ==
  /\ LogEvent /\ ~sl.download.on
  /\ sl' = [FlushedPane(sl) EXCEPT
              !.download = [on |-> TRUE, wait |-> Len(FlushedOps(sl)), own |-> sl.plog # <<>>,
                            of |-> heard.rx]]
  /\ logOps' = FlushedOps(sl)
  /\ heard' = LogCounted /\ UNCHANGED logDb

Kept(n) == n > heard.cleared /\ n \notin heard.lost
DownloadRead ==
  /\ sl.download.on /\ sl.download.wait = 0
  /\ sl' = [sl EXCEPT !.download.on = FALSE]
  /\ heard' = [heard EXCEPT !.missed = {n \in 1..sl.download.of :
                                          Kept(n) /\ n \notin ToSet(TextOf(logDb.chunks))}]
  /\ UNCHANGED <<logOps, logDb>>

(* The page is loaded again: what is not in the database is gone.           *)
PageReloads ==
  /\ LogEvent
  /\ sl' = NewPane /\ logOps' = <<>>
  /\ heard' = Loses(LogCounted, sl.plog \o FlattenSeq([i \in 1..Len(logOps) |-> logOps[i].text]))
  /\ UNCHANGED logDb

LogGoesOn ==
  \/ FrameDraws \/ RestoreRead \/ TerminalReady \/ LogFlushes \/ OpRuns \/ RetryAgain
  \/ DownloadRead

SerialLogNext ==
  \/ LogGoesOn \/ TextReceived
  \/ VisibleTurns \/ ClearLogClicked \/ DownloadClicked \/ PageReloads

(* Frames are drawn, transactions end, timers run.                          *)
SerialLogFairSpec ==
  SerialLogInit /\ [][SerialLogNext]_serialLogVars /\ WF_serialLogVars(LogGoesOn)

-----------------------------------------------------------------------------
Grows(text) == \A i \in 1..(Len(text) - 1) : text[i] < text[i + 1]
Live(text) == SelectSeq(text, LAMBDA n : n > 0)
Waiting == FlattenSeq([i \in 1..Len(logOps) |-> logOps[i].text]) \o sl.plog

\* The log is what was received, in order, once, in chunks whose bytes are counted
\* right and fit the cap, across failures and reloads (appendSerialLogChunk,
\* logWriteQueueRef); nothing from before a clear that was done comes back; what
\* is neither in the log nor on its way was lost to a failure, a reload or the cap.
LogKeepsText ==
  /\ Grows(TextOf(logDb.chunks) \o Waiting)
  /\ logDb.total = Bytes(logDb.chunks) /\ logDb.total <= LogCap
  /\ \A n \in ToSet(TextOf(logDb.chunks)) : n > heard.cleared
  /\ \A n \in 1..heard.rx :
       Kept(n) => n \in ToSet(TextOf(logDb.chunks)) \cup ToSet(Waiting)

\* A download has everything that was received before the click, and was neither
\* cleared nor lost.
DownloadsAreWhole == heard.missed = {}

\* The terminal shows what arrives in order and once, however often it is hidden
\* while frames are requested; nothing from before a clear is drawn after it, and
\* only the oldest text of what waits is left out.
TerminalInOrder ==
  /\ Grows(Live(sl.shown \o sl.draw))
  /\ \A n \in ToSet(Live(sl.shown \o sl.draw)) : n > heard.asked
  /\ Live(sl.draw) # <<>> =>
       ToSet(Live(sl.draw)) = (heard.rx - Len(Live(sl.draw)) + 1)..heard.rx

\* What holds of the text of a channel.
SerialTextIsSound == LogKeepsText /\ DownloadsAreWhole /\ TerminalInOrder

\* Text waits to be drawn in a visible terminal, or to be logged; a download is
\* under way.
TextUnderWay ==
  \/ sl.visible /\ sl.draw # <<>>
  \/ Waiting # <<>> \/ logOps # <<>> \/ sl.download.on
=============================================================================
