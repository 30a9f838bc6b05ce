---------------------------- MODULE PowerArchive ----------------------------
(***************************************************************************)
(* The data of the power analyzer's recordings (powerCapture.ts,           *)
(* powerCaptureStore.ts, powerCaptureExport.ts, PowerAnalyzer.tsx): what   *)
(* is computed while samples arrive, what the archive gives back, which    *)
(* recording is shown, and what an export writes while recordings are      *)
(* pruned for space or cleared by another tab.                             *)
(*                                                                         *)
(* One recording of one rail at a time, each chunk stored as it fills;     *)
(* PowerCapture has the sessions, the queue of writes, leases and faults.  *)
(***************************************************************************)
EXTENDS Integers, Sequences, FiniteSets, SequencesExt

CONSTANTS
  MaxKept,       \* bound: recordings
  MaxRecorded,   \* bound: samples of one recording
  PreviewMax,    \* POWER_PREVIEW_MAX_SAMPLES, RECOVERY_PREVIEW_MAX_SAMPLES
  ChunkMax,      \* POWER_ARCHIVE_CHUNK_SAMPLES
  BatchMax,      \* EXPORT_CURSOR_BATCH_CHUNKS
  PreMax,        \* MAX_POWER_CAPTURE_PRE_TRIGGER_SAMPLES
  Quota,         \* bytes of the browser's storage
  SampleBytes,   \* ESTIMATED_SAMPLE_BYTES * STORAGE_SAFETY_FACTOR, and what
                 \* a stored sample takes
  MemoryMax,     \* FALLBACK_EXPORT_LIMIT_BYTES
  Forms,         \* settings: rate, and pre and stop in seconds, 0 is no stop
  ReadingsSeen   \* readings of the rail, [on, ua], that each sample may have

(* The state:
     kept     the archives made so far: state (recording | complete |
              interrupted | gone) and chunks, the samples of each
     rec      the recording under way: id (0 is none), all, the samples
              that were taken, acc, preview, stride, pending, trigger
     listed   the recordings of the page: id, samples (the preview), trigger
              (triggerOffset), count, summary, live (not read from the archive)
     view     stage (setup | capture | results), selected and latest, ids
     out      the export: pc (idle | read | write | close | done | failed),
              capture, native (a file, not memory), next (firstIndex), batch
              and rows *)
VARIABLES kept, rec, listed, view, out

archiveVars == <<kept, rec, listed, view, out>>

Fewer(a, b) == IF a < b THEN a ELSE b
Most(a, b) == IF a < b THEN b ELSE a
Total(s) == FoldSeq(LAMBDA x, t : x + t, 0, s)

-----------------------------------------------------------------------------
(* What is computed of the samples.                                         *)

NoAcc == [first |-> -1, last |-> -1, ua |-> 0, area |-> 0, peak |-> 0]
Current(s) == IF s.on THEN Most(0, s.ua) ELSE 0

(* appendPowerCaptureSummary; area is twice the integral of the current.    *)
Accumulated(acc, s) ==
  [first |-> IF acc.first < 0 THEN s.time ELSE acc.first,
   last |-> s.time, ua |-> Current(s), peak |-> Most(acc.peak, Current(s)),
   area |-> IF acc.last >= 0 /\ s.time >= acc.last
            THEN acc.area + (acc.ua + Current(s)) * (s.time - acc.last) ELSE acc.area]
Summary(acc) == [duration |-> Most(0, acc.last - acc.first), area |-> acc.area, peak |-> acc.peak]

OnStride(s, stride) == s.triggered \/ s.offset % stride = 0
RECURSIVE Compacted(_)
Compacted(p) ==
  IF Len(p.list) <= PreviewMax THEN p
  ELSE Compacted([stride |-> 2 * p.stride,
                  list |-> SelectSeq(p.list, LAMBDA s : OnStride(s, 2 * p.stride))])

\* Mutant of Previewed: the stride of a full preview is not kept.
PreviewedAnew(p, s) ==
  LET q == Compacted([p EXCEPT !.list = IF OnStride(s, p.stride) THEN Append(@, s) ELSE @])
  IN [q EXCEPT !.stride = 1]

(* appendPowerCapturePreview: every stride-th sample and the trigger.       *)
Previewed(p, s) ==
  Compacted([p EXCEPT !.list = IF OnStride(s, p.stride) THEN Append(@, s) ELSE @])

NoPreview == [stride |-> 1, list |-> <<>>]
TriggerIn(list) ==
  IF \E i \in DOMAIN list : list[i].triggered
  THEN SelectInSeq(list, LAMBDA s : s.triggered) - 1 ELSE -1

SamplesOf(id) == FlattenSeq(kept[id].chunks)

(* rebuildPowerCaptureData: the same functions over the stored chunks.      *)
Rebuilt(id) ==
  LET all == SamplesOf(id)
  IN [id |-> id, count |-> Len(all), trigger |-> TriggerIn(all), live |-> FALSE,
      samples |-> FoldLeft(Previewed, NoPreview, all).list,
      summary |-> Summary(FoldLeft(Accumulated, NoAcc, all))]

-----------------------------------------------------------------------------
(* The space.                                                               *)

Held(id) == SampleBytes * Len(SamplesOf(id))
Finished(set) == {i \in set : kept[i].state \in {"complete", "interrupted"}}
Present == {i \in DOMAIN kept : kept[i].state # "gone"}
Bytes(set) == Total([i \in DOMAIN kept |-> IF i \in set THEN Held(i) ELSE 0])

PreSamples(form) == Fewer(PreMax, form.pre * form.rate)
Projected(form) == SampleBytes * (PreSamples(form) + 1 + Most(1, form.stop * form.rate))
Reserve == Quota \div 10
Sufficient(form, usage) ==
  form.stop = 0 \/ Projected(form) <= Most(0, Most(0, Quota - usage) - Reserve)

(* ensurePowerCaptureStorageCapacity: what has to go for the recording to   *)
(* fit, or for the storage to be filled to 55 percent when over 70.         *)
ToFree(form) ==
  LET usage == Bytes(Present)
      short == IF form.stop = 0 THEN 0
               ELSE Most(0, Projected(form) + Reserve - Most(0, Quota - usage))
      pressure == IF 10 * usage > 7 * Quota THEN usage - (55 * Quota) \div 100 ELSE 0
  IN Most(short, pressure)

(* prunePowerCaptureArchives: the oldest go until enough is left out.       *)
Pruned(form) ==
  LET finished == Finished(DOMAIN kept)
      limit == Most(0, Bytes(finished) - ToFree(form))
  IN IF ToFree(form) = 0 THEN {}
     ELSE {i \in finished : Bytes({j \in finished : j >= i}) > limit}

Gone(set) ==
  [i \in DOMAIN kept |-> IF i \in set THEN [state |-> "gone", chunks |-> <<>>] ELSE kept[i]]

-----------------------------------------------------------------------------
(* What the page shows: the effects of the list and of the state.           *)

Idle == rec.id = 0
LatestOf(list) == IF list = <<>> THEN 0 ELSE Last(list).id
Ids(list) == {c.id : c \in ToSet(list)}

Viewed(list) ==
  LET latest == LatestOf(list)
      fresh == latest # 0 /\ latest # view.latest
  IN [latest |-> latest,
      stage |-> IF fresh THEN "results"
                ELSE IF latest = 0 /\ view.stage = "results" THEN "setup" ELSE view.stage,
      selected |-> IF fresh \/ view.selected \notin Ids(list) THEN latest ELSE view.selected]

NoRec == [id |-> 0, all |-> <<>>, acc |-> NoAcc, preview |-> NoPreview, pending |-> <<>>,
          trigger |-> 0]
NoExport == [pc |-> "idle", capture |-> 0, native |-> TRUE, next |-> 1, batch |-> <<>>,
             rows |-> <<>>]
FirstView == [stage |-> "setup", selected |-> 0, latest |-> 0]

ArchiveInit ==
  kept = <<>> /\ rec = NoRec /\ listed = <<>> /\ view = FirstView /\ out = NoExport

-----------------------------------------------------------------------------
(* Recording.                                                               *)

(* The page is busy, then the debugger reports the trigger: from a sample   *)
(* of sequence at on.                                                       *)
RecordingStarts(form, at) ==
  /\ Idle /\ Len(kept) < MaxKept /\ at <= PreSamples(form) + 1
  /\ LET gone == Pruned(form)
         fits == Sufficient(form, Bytes(Present \ gone))
     IN IF fits
        THEN /\ kept' = Append(Gone(gone), [state |-> "recording", chunks |-> <<>>])
             /\ rec' = [NoRec EXCEPT !.id = Len(kept) + 1, !.trigger = at]
             /\ view' = [view EXCEPT !.stage = "capture"]
        ELSE kept' = Gone(gone) /\ UNCHANGED <<rec, view>>
  /\ UNCHANGED <<listed, out>>

(* queueStreamingSamples, a sample at a time, and a chunk that is full.     *)
SampleTaken(reading) ==
  LET n == Len(rec.all)
      s == [seq |-> n + 1, offset |-> n, time |-> (n * (n + 1)) \div 2, on |-> reading.on,
            ua |-> reading.ua,
            triggered |-> n + 1 >= rec.trigger /\ \A i \in 1..n : ~rec.all[i].triggered]
      pending == Append(rec.pending, s)
      full == Len(pending) = ChunkMax
  IN /\ ~Idle /\ n < MaxRecorded /\ reading \in ReadingsSeen[n + 1]
     /\ rec' = [rec EXCEPT !.all = Append(@, s), !.acc = Accumulated(@, s),
                           !.preview = Previewed(@, s), !.pending = IF full THEN <<>> ELSE pending]
     /\ kept' = IF full THEN [kept EXCEPT ![rec.id].chunks = Append(@, pending)]
                ELSE kept
     /\ UNCHANGED <<listed, view, out>>

(* The recording is stopped: the rest is stored and it joins the list.      *)
Saved ==
  LET capture == [id |-> rec.id, count |-> Len(rec.all), live |-> TRUE,
                  samples |-> rec.preview.list, trigger |-> TriggerIn(rec.preview.list),
                  summary |-> Summary(rec.acc)]
      list == Append(listed, capture)
  IN /\ ~Idle /\ \E i \in DOMAIN rec.all : rec.all[i].triggered
     /\ kept' = [kept EXCEPT ![rec.id].state = "complete",
                             ![rec.id].chunks = IF rec.pending = <<>> THEN @ ELSE Append(@, rec.pending)]
     /\ listed' = list /\ view' = Viewed(list) /\ rec' = NoRec
     /\ UNCHANGED out

(* The page is loaded anew: recordings that nobody ends are recovered, and  *)
(* the list is read.                                                        *)
PageLoads ==
  LET recovered == [i \in DOMAIN kept |-> IF kept[i].state = "recording"
                                          THEN [kept[i] EXCEPT !.state = "interrupted"] ELSE kept[i]]
      ids == SelectSeq([i \in DOMAIN kept |-> i], LAMBDA i : recovered[i].state # "gone")
      list == [k \in DOMAIN ids |->
                 IF kept[ids[k]].state = "recording" \/ ids[k] \notin Ids(listed) THEN Rebuilt(ids[k])
                 ELSE SelectSeq(listed, LAMBDA c : c.id = ids[k])[1]]
  IN /\ kept # <<>> /\ kept' = recovered /\ rec' = NoRec /\ out' = NoExport
     /\ listed' = list
     /\ view' = [latest |-> LatestOf(list), selected |-> LatestOf(list),
                 stage |-> IF list = <<>> THEN "setup" ELSE "results"]

(* All that is finished is deleted, by the page, which reads the list again, *)
(* or by another tab.                                                       *)
ClearAll ==
  /\ Idle /\ view.stage = "results" /\ out.pc \notin {"read", "write", "close"}
  /\ kept' = Gone(Finished(DOMAIN kept))
  /\ listed' = <<>> /\ view' = Viewed(<<>>)
  /\ UNCHANGED <<rec, out>>

OtherTabClears ==
  /\ Finished(DOMAIN kept) # {}
  /\ kept' = Gone(Finished(DOMAIN kept))
  /\ UNCHANGED <<rec, listed, view, out>>

(* Bound: neither is clicked during an export. *)
StageClicked(stage) ==
  /\ Idle /\ out.pc = "idle" /\ view.stage # stage /\ stage \in {"setup", "capture"}
  /\ view' = [view EXCEPT !.stage = stage]
  /\ UNCHANGED <<kept, rec, listed, out>>

CaptureClicked(id) ==
  /\ out.pc = "idle" /\ view.stage = "results" /\ id \in Ids(listed)
  /\ view' = [view EXCEPT !.selected = id]
  /\ UNCHANGED <<kept, rec, listed, out>>

-----------------------------------------------------------------------------
(* Exporting.                                                               *)

CaptureOf(id) == SelectSeq(listed, LAMBDA c : c.id = id)[1]
Row(s) == [offset |-> s.offset, triggered |-> s.triggered, time |-> s.time,
           ua |-> IF s.on THEN s.ua ELSE 0]
Failed == [NoExport EXCEPT !.pc = "failed"]
ExportOnly == UNCHANGED <<kept, rec, listed, view>>

(* Without a file to write to, one that may be too large is refused. Bound:  *)
(* the page exports once.                                                   *)
ExportClicked(native) ==
  /\ Idle /\ view.stage = "results" /\ view.selected # 0 /\ out.pc = "idle"
  /\ LET large == SampleBytes * CaptureOf(view.selected).count > MemoryMax
     IN out' = IF ~native /\ large THEN Failed
               ELSE [NoExport EXCEPT !.pc = "read", !.capture = view.selected, !.native = native]
  /\ ExportOnly

BatchRead ==
  LET chunks == kept[out.capture].chunks
      batch == SubSeq(chunks, out.next, Fewer(Len(chunks), out.next + BatchMax - 1))
  IN /\ out.pc = "read"
     /\ out' = [out EXCEPT !.batch = batch, !.pc = IF batch = <<>> THEN "close" ELSE "write"]
     /\ ExportOnly

(* The rows of one chunk; the next batch starts behind the last one.        *)
ChunkWritten ==
  LET rows == [i \in DOMAIN out.batch[1] |-> Row(out.batch[1][i])]
      over == ~out.native /\ SampleBytes * (Len(out.rows) + Len(rows)) > MemoryMax
      whole == (out.next % BatchMax) = 0
  IN /\ out.pc = "write"
     /\ out' = IF over THEN Failed
               ELSE [out EXCEPT !.rows = @ \o rows, !.batch = Tail(@), !.next = @ + 1,
                                !.pc = IF Len(out.batch) > 1 THEN "write"
                                       ELSE IF whole THEN "read" ELSE "close"]
     /\ ExportOnly

ExportEnds ==
  /\ out.pc = "close" /\ out' = [out EXCEPT !.pc = "done", !.native = TRUE, !.next = 1]
  /\ ExportOnly

(* The disk is full, or the file or the archive cannot be used.             *)
ExportFails ==
  /\ out.pc \in {"read", "write", "close"} /\ out' = Failed
  /\ ExportOnly

ArchiveNext ==
  \/ \E form \in Forms, at \in 1..PreMax + 1 : RecordingStarts(form, at)
  \/ \E reading \in UNION {ReadingsSeen[n] : n \in 1..MaxRecorded} : SampleTaken(reading)
  \/ Saved \/ PageLoads \/ ClearAll \/ OtherTabClears
  \/ \E stage \in {"setup", "capture"} : StageClicked(stage)
  \/ \E id \in 1..MaxKept : CaptureClicked(id)
  \/ \E native \in BOOLEAN : ExportClicked(native)
  \/ BatchRead \/ ChunkWritten \/ ExportEnds \/ ExportFails

ArchiveSpec == ArchiveInit /\ [][ArchiveNext]_archiveVars

-----------------------------------------------------------------------------
(* The summary of samples, from its meaning.                                *)
SummaryOf(all) ==
  [duration |-> Last(all).time - all[1].time,
   area |-> Total([i \in 1..Len(all)-1 |-> (Current(all[i]) + Current(all[i+1])) * (all[i+1].time - all[i].time)]),
   peak |-> CHOOSE m \in {Current(s) : s \in ToSet(all)} : \A s \in ToSet(all) : Current(s) <= m]

(* The preview is evenly thinned, short enough, and has the trigger.        *)
PreviewIsEven ==
  /\ rec.preview.list = SelectSeq(rec.all, LAMBDA s : OnStride(s, rec.preview.stride))
  /\ Len(rec.preview.list) <= PreviewMax

(* What is listed says of a recording what its archive says, when the page  *)
(* has recorded it and when it was recovered.                               *)
ListedIsKept ==
  \A c \in ToSet(listed) : kept[c.id].state # "gone" =>
    LET all == SamplesOf(c.id)
    IN /\ c.count = Len(all)
       /\ all # <<>> => c.summary = SummaryOf(all)
       /\ c.samples = Rebuilt(c.id).samples
       /\ c.live => c.samples[c.trigger + 1].triggered

(* An export writes the samples in order, and all of them, unless the       *)
(* recording is deleted meanwhile.                                          *)
ExportIsWhole ==
  LET all == SamplesOf(out.capture)
  IN out.capture # 0 /\ kept[out.capture].state # "gone" =>
       /\ out.rows = [i \in 1..Len(out.rows) |-> Row(all[i])]
       /\ out.pc = "done" => Len(out.rows) = Len(all)

(* Space is made of the oldest recordings only.                             *)
NewestAreKept == \A i, j \in DOMAIN kept : i < j /\ i \in Present => j \in Present

ShownIsListed ==
  /\ view.selected # 0 => view.selected \in Ids(listed)
  /\ view.stage = "results" => listed # <<>>

\* What the page keeps, shows and exports of recordings agrees with the
\* samples, however recordings are recovered, pruned and cleared.
ArchiveIsSound ==
  PreviewIsEven /\ ListedIsKept /\ ExportIsWhole /\ NewestAreKept /\ ShownIsListed
=============================================================================
