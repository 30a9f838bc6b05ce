--------------------------- MODULE Uploads_proofs ---------------------------
(***************************************************************************)
(* Theorems about the two uploads of the firmware, the task document and   *)
(* the image.  TaskStore, for any number of connections, any limit and any *)
(* set of other owners: its types, its lock, and that it implements the    *)
(* store it promises.  Ota, for every set of connections and images, image *)
(* size and site: its types, the owners and gates of its handlers, and, on *)
(* an undisturbed site, that an accepted test happens and that the image   *)
(* to roll back to stays and is rolled back to.                            *)
(***************************************************************************)
EXTENDS TaskStore, Ota, SequenceTheorems, TLAPS

-----------------------------------------------------------------------------
(* The task store.                                                          *)

\* The lock is held across steps exactly by the thread that has written flash
\* and not yet copied the document to RAM.
MutexFollowsCommit == \A t \in Threads : mutex = t <=> op[t].pc = "commit"

\* RAM is the readable part of flash outside a commit, and the summaries are
\* of the document in RAM also when the backend is missing.
RamInv ==
  /\ ram.blob = ram.tasks
  /\ up /\ ram.avail /\ mutex = "none" => ram.blob = Readable(flash)

\* What the thread in a mutation has in hand: a clear stores no document, a
\* store one that was sent, and the shell only clears.
OpInv ==
  /\ \A t \in Threads :
       /\ op[t].doc # Alien
       /\ op[t].kind = "clear" => op[t].doc = NoDoc
       /\ op[t].pc \in {"commit", "release_flash", "release_capture"}
            /\ op[t].ok => flash = op[t].doc
       /\ op[t].pc \in {"flash", "mutate", "commit"} => op[t].ok
  /\ op["shell"].kind = "clear"
  /\ op["shell"].pc # "visit"

\* During a GET only a clear can have changed the document.
ListInv == op["http"].pc = "visit" => up /\ ram.blob \in {listed, NoDoc}

\* What is in the buffer was sent.
UploadInv ==
  \A i \in 1..Len(upload.buf) : upload.buf[i].conn \in Conns

TaskInv == /\ TaskTypeOK
           /\ OwnersFollowMutation
           /\ MutexFollowsCommit
           /\ RamInv
           /\ OpInv
           /\ ListInv
           /\ UploadInv

-----------------------------------------------------------------------------
(* The buffer.                                                             *)

\* A fragment is a sequence of units of its connection.
LEMMA SentTyped ==
  ASSUME TaskTypeOK, NEW c \in Conns, NEW len \in 0..Limit,
         post[c].at + len <= MaxBody
  PROVE  /\ Sent(c, len) \in Seq(Units)
         /\ Len(Sent(c, len)) = len
         /\ \A i \in 1..len : Sent(c, len)[i].conn \in Conns
  <1>1. len \in Nat /\ post[c].at \in Nat /\ MaxBody \in Nat
    BY TaskAssumption DEF TaskTypeOK
  <1>2. \A i \in 1..len : post[c].at + i \in 0..MaxBody
    BY <1>1
  <1>3. \A i \in 1..len : [conn |-> c, at |-> post[c].at + i] \in Units
    BY <1>2 DEF Units
  <1> DEFINE unit(i) == [conn |-> c, at |-> post[c].at + i]
  <1>4. Sent(c, len) = [i \in 1..len |-> unit(i)]
    BY DEF Sent
  <1>5. \A i \in 1..len : unit(i) \in Units /\ unit(i).conn \in Conns
    BY <1>3
  <1> HIDE DEF unit
  <1>6. [i \in 1..len |-> unit(i)] \in Seq(Units)
        /\ Len([i \in 1..len |-> unit(i)]) = len
    BY <1>1, <1>5
  <1> QED
    BY <1>4, <1>5, <1>6

\* The buffer after a fragment: the units it held and those sent.
LEMMA BufferUnits ==
  ASSUME TaskTypeOK, NEW c \in Conns, NEW len \in 0..Limit,
         post[c].at + len <= MaxBody,
         NEW buf \in {<<>>, upload.buf}
  PROVE  /\ buf \in Seq(Units)
         /\ buf \o Sent(c, len) \in Seq(Units)
         /\ Len(buf \o Sent(c, len)) = Len(buf) + len
         /\ \A i \in 1..Len(buf) + len :
              (buf \o Sent(c, len))[i] =
                 IF i <= Len(buf) THEN buf[i] ELSE Sent(c, len)[i - Len(buf)]
  <1>1. buf \in Seq(Units)
    <2>1. upload.buf \in Docs
      BY DEF TaskTypeOK
    <2>2. upload.buf \in Seq(Units)
      BY <2>1 DEF Docs
    <2>3. CASE buf = upload.buf
      BY <2>2, <2>3
    <2>4. CASE buf = <<>>
      BY <2>4
    <2> QED
      BY <2>3, <2>4
  <1> DEFINE sent == Sent(c, len)
  <1>2. sent \in Seq(Units) /\ Len(sent) = len
    BY SentTyped
  <1> HIDE DEF sent
  <1>3. /\ buf \o sent \in Seq(Units)
        /\ Len(buf \o sent) = Len(buf) + Len(sent)
        /\ \A i \in 1..Len(buf) + Len(sent) :
             (buf \o sent)[i] = IF i <= Len(buf) THEN buf[i]
                                ELSE sent[i - Len(buf)]
    BY <1>1, <1>2, ConcatProperties, Zenon
  <1> QED
    BY <1>1, <1>2, <1>3, Zenon DEF sent

\* The buffer after a fragment: typed when it fits, and of the connections.
LEMMA BufferTyped ==
  ASSUME TaskTypeOK, UploadInv, NEW c \in Conns, NEW len \in 0..Limit,
         post[c].at + len <= MaxBody,
         NEW buf \in {<<>>, upload.buf}, NEW all, all = buf \o Sent(c, len)
  PROVE  /\ Fits(all) => all \in Docs
         /\ \A i \in 1..Len(all) : all[i].conn \in Conns
         /\ all # Alien
  <1>1. Len(Sent(c, len)) = len /\ \A i \in 1..len : Sent(c, len)[i].conn \in Conns
    BY SentTyped
  <1>2. \A i \in 1..Len(buf) : buf[i].conn \in Conns
    BY DEF UploadInv
  <1>3. /\ buf \in Seq(Units)
        /\ all \in Seq(Units)
        /\ Len(all) = Len(buf) + len
        /\ \A i \in 1..Len(buf) + len :
             all[i] = IF i <= Len(buf) THEN buf[i]
                      ELSE Sent(c, len)[i - Len(buf)]
    <2>1. /\ buf \in Seq(Units)
          /\ buf \o Sent(c, len) \in Seq(Units)
          /\ Len(buf \o Sent(c, len)) = Len(buf) + len
          /\ \A i \in 1..Len(buf) + len :
               (buf \o Sent(c, len))[i] =
                  IF i <= Len(buf) THEN buf[i] ELSE Sent(c, len)[i - Len(buf)]
      BY BufferUnits, Zenon
    <2> QED
      BY <2>1, Zenon
  <1>4. ASSUME NEW i \in 1..Len(all)
        PROVE  all[i].conn \in Conns
    <2>1. Len(buf) \in Nat /\ len \in Nat
      BY <1>3, TaskAssumption
    <2>2. CASE i <= Len(buf)
      BY <1>2, <1>3, <2>1, <2>2
    <2>3. CASE i > Len(buf)
      <3>1. i - Len(buf) \in 1..len
        BY <2>1, <2>3, <1>3
      <3>2. all[i] = Sent(c, len)[i - Len(buf)]
        BY <2>1, <2>3, <1>3
      <3> QED
        BY <3>1, <3>2, <1>1
    <2> QED
      BY <2>1, <2>2, <2>3
  <1>5. all # Alien
    <2>1. SUFFICES ASSUME all = Alien PROVE FALSE
      OBVIOUS
    <2>2. 1 \in 1..Len(all) /\ all[1].conn = None
      BY <2>1 DEF Alien
    <2> QED
      BY <2>2, <1>4, TaskAssumption
  <1> QED
    BY <1>3, <1>4, <1>5 DEF Docs, Fits

LEMMA DeliverTyped ==
  ASSUME TaskTypeOK, NEW c \in Conns, NEW len \in 0..Limit,
         post[c].at + len <= MaxBody,
         NEW final \in BOOLEAN, NEW refused \in BOOLEAN,
         DeliverPut(c, len, final, refused)
  PROVE  post' \in [Conns -> [phase : {"idle", "body", "tail"},
                             at : 0..MaxBody, refused : BOOLEAN]]
  <1> DEFINE Posts == [phase : {"idle", "body", "tail"}, at : 0..MaxBody,
                       refused : BOOLEAN]
  <1>1. post \in [Conns -> Posts]
    BY DEF TaskTypeOK
  <1>2. post[c].at + len \in 0..MaxBody
    BY <1>1, TaskAssumption
  <1>3. [phase |-> IF final \/ (refused /\ ~Drains) THEN "tail" ELSE "body",
         at |-> post[c].at + len,
         refused |-> post[c].refused \/ refused] \in Posts
    BY <1>1, <1>2
  <1> QED
    BY <1>1, <1>3 DEF DeliverPut

\* What a fragment does: the buffer, and perhaps the start of a mutation.
LEMMA PutEffect ==
  ASSUME TaskTypeOK, UploadInv, NEW c \in Conns, tasks_put(c)
  PROVE  /\ up /\ op["http"].pc = "idle"
         /\ upload' \in [client : Conns \cup {None}, buf : Docs]
         /\ UploadInv'
         /\ post' \in [Conns -> [phase : {"idle", "body", "tail"},
                                 at : 0..MaxBody, refused : BOOLEAN]]
         /\ \/ UNCHANGED <<capture, op>>
            \/ /\ capture = "none" /\ capture' = "task"
               /\ \E d \in Docs \ {Alien} :
                    op' = [op EXCEPT !["http"] =
                             [pc |-> "flash", kind |-> "store", doc |-> d,
                              ok |-> TRUE]]
         /\ UNCHANGED <<up, flash, ram, mutex, flashOwner, listed>>
  <1> PICK len \in 0..Limit, final \in BOOLEAN :
             post[c].at + len <= MaxBody /\ handle_tasks_put(c, len, final)
    BY DEF tasks_put
  <1> DEFINE buf == IF upload.client = None THEN <<>> ELSE upload.buf
             all == buf \o Sent(c, len)
             Bodies == [client : Conns \cup {None}, buf : Docs]
  <1>1. /\ Fits(all) => all \in Docs
        /\ \A i \in 1..Len(all) : all[i].conn \in Conns
        /\ all # Alien
    <2>1. buf \in {<<>>, upload.buf}
      OBVIOUS
    <2> HIDE DEF buf
    <2> QED
      BY <2>1, BufferTyped
  <1>2. upload \in Bodies
    BY DEF TaskTypeOK
  <1>3. NoUpload \in Bodies /\ \A i \in 1..Len(NoUpload.buf) :
                                  NoUpload.buf[i].conn \in Conns
    BY TaskAssumption DEF NoUpload, Docs
  <1>4. Fits(all) => [client |-> c, buf |-> all] \in Bodies
    BY <1>1
  <1>5. /\ upload' \in {upload, NoUpload}
             \/ (Fits(all) /\ upload' = [client |-> c, buf |-> all])
        /\ \/ DeliverPut(c, len, final, ~final)
           \/ DeliverPut(c, len, final, FALSE)
        /\ \/ UNCHANGED <<capture, op>>
           \/ Fits(all) /\ capture_acquire("http", [pc |-> "flash",
                            kind |-> "store", doc |-> all, ok |-> TRUE])
    BY DEF handle_tasks_put, put_busy
  <1> HIDE DEF all, buf
  <1>6. upload' \in Bodies
    BY <1>2, <1>3, <1>4, <1>5
  <1>7. UploadInv'
    <2>1. CASE upload' = upload
      BY <2>1 DEF UploadInv
    <2>2. CASE upload' = NoUpload
      BY <2>2, <1>3 DEF UploadInv
    <2>3. CASE upload' = [client |-> c, buf |-> all]
      BY <2>3, <1>1 DEF UploadInv
    <2> QED
      BY <2>1, <2>2, <2>3, <1>5
  <1>8. post' \in [Conns -> [phase : {"idle", "body", "tail"},
                            at : 0..MaxBody, refused : BOOLEAN]]
    BY <1>5, DeliverTyped
  <1>9. \/ UNCHANGED <<capture, op>>
        \/ /\ capture = "none" /\ capture' = "task"
           /\ \E d \in Docs \ {Alien} :
                op' = [op EXCEPT !["http"] =
                         [pc |-> "flash", kind |-> "store", doc |-> d,
                          ok |-> TRUE]]
    BY <1>1, <1>5 DEF capture_acquire
  <1> QED
    BY <1>6, <1>7, <1>8, <1>9 DEF tasks_put, HttpFree

-----------------------------------------------------------------------------
(* The invariant, part by part.                                            *)

\* One mutation at a time, and it holds the owners its step needs.
LEMMA OwnersStep ==
  ASSUME TaskTypeOK, OwnersFollowMutation, UploadInv, [TaskNext]_taskVars
  PROVE  OwnersFollowMutation'
  <1>1. CASE task_init
    BY <1>1 DEF task_init, OwnersFollowMutation, Holding
  <1>2. ASSUME NEW t \in Threads, clear_request(t)
        PROVE  OwnersFollowMutation'
    BY <1>2 DEF clear_request, capture_acquire, OwnersFollowMutation, Holding,
       TaskTypeOK, Threads
  <1>3. ASSUME NEW t \in Threads, flash_acquire(t)
        PROVE  OwnersFollowMutation'
    BY <1>3 DEF flash_acquire, Goes, NoOp, OwnersFollowMutation, Holding,
       TaskTypeOK, Threads
  <1>4. ASSUME NEW t \in Threads, mutate(t)
        PROVE  OwnersFollowMutation'
    BY <1>4 DEF mutate, Goes, Fails, OwnersFollowMutation, Holding, TaskTypeOK,
       Threads
  <1>5. ASSUME NEW t \in Threads, commit(t)
        PROVE  OwnersFollowMutation'
    BY <1>5 DEF commit, Goes, OwnersFollowMutation, Holding, TaskTypeOK, Threads
  <1>6. ASSUME NEW t \in Threads, release_flash(t)
        PROVE  OwnersFollowMutation'
    BY <1>6 DEF release_flash, Goes, OwnersFollowMutation, Holding, TaskTypeOK,
       Threads
  <1>7. ASSUME NEW t \in Threads, release_capture(t)
        PROVE  OwnersFollowMutation'
    BY <1>7 DEF release_capture, NoOp, OwnersFollowMutation, Holding, TaskTypeOK,
       Threads
  <1>8. ASSUME NEW c \in Conns, tasks_put(c)
        PROVE  OwnersFollowMutation'
    BY <1>8, PutEffect DEF OwnersFollowMutation, Holding, TaskTypeOK, Threads
  <1>9. ASSUME NEW c \in Conns, put_end(c)
        PROVE  OwnersFollowMutation'
    BY <1>9 DEF put_end, OwnersFollowMutation, Holding
  <1>10. CASE get_status
    <2>1. \A t \in Threads : op'[t].pc = op[t].pc \/ {op[t].pc, op'[t].pc} = {"idle", "visit"}
      BY <1>10 DEF get_status, HttpFree, Goes, TaskTypeOK, Threads
    <2>2. UNCHANGED <<capture, flashOwner>>
      BY <1>10 DEF get_status
    <2> QED
      BY <2>1, <2>2, ZenonT(30) DEF OwnersFollowMutation, Holding
  <1>11. CASE get_visit
    BY <1>11 DEF get_visit, NoOp, OwnersFollowMutation, Holding, TaskTypeOK,
       Threads
  <1>12. CASE others
    BY <1>12, TaskAssumption DEF others, OwnersFollowMutation, Holding
  <1>13. CASE reset
    BY <1>13 DEF reset, NoOp, OwnersFollowMutation, Holding
  <1>14. CASE UNCHANGED taskVars
    BY <1>14 DEF taskVars, OwnersFollowMutation, Holding
  <1> QED
    BY <1>1, <1>2, <1>3, <1>4, <1>5, <1>6, <1>7, <1>8, <1>9, <1>10, <1>11,
       <1>12, <1>13, <1>14 DEF TaskNext, Mutation

\* The lock outlives a step only between the write and the copy.
LEMMA MutexStep ==
  ASSUME TaskTypeOK, MutexFollowsCommit, UploadInv, [TaskNext]_taskVars
  PROVE  MutexFollowsCommit'
  <1>1. CASE task_init
    BY <1>1 DEF task_init, MutexFollowsCommit, Threads
  <1>2. ASSUME NEW t \in Threads, clear_request(t)
        PROVE  MutexFollowsCommit'
    BY <1>2 DEF clear_request, capture_acquire, MutexFollowsCommit, TaskTypeOK,
       Threads
  <1>3. ASSUME NEW t \in Threads, flash_acquire(t)
        PROVE  MutexFollowsCommit'
    BY <1>3 DEF flash_acquire, Goes, NoOp, MutexFollowsCommit, TaskTypeOK, Threads
  <1>4. ASSUME NEW t \in Threads, mutate(t)
        PROVE  MutexFollowsCommit'
    BY <1>4 DEF mutate, Goes, Fails, MutexFollowsCommit, TaskTypeOK, Threads
  <1>5. ASSUME NEW t \in Threads, commit(t)
        PROVE  MutexFollowsCommit'
    BY <1>5 DEF commit, Goes, MutexFollowsCommit, TaskTypeOK, Threads
  <1>6. ASSUME NEW t \in Threads, release_flash(t)
        PROVE  MutexFollowsCommit'
    BY <1>6 DEF release_flash, Goes, MutexFollowsCommit, TaskTypeOK, Threads
  <1>7. ASSUME NEW t \in Threads, release_capture(t)
        PROVE  MutexFollowsCommit'
    BY <1>7 DEF release_capture, NoOp, MutexFollowsCommit, TaskTypeOK, Threads
  <1>8. ASSUME NEW c \in Conns, tasks_put(c)
        PROVE  MutexFollowsCommit'
    BY <1>8, PutEffect DEF MutexFollowsCommit, TaskTypeOK, Threads
  <1>9. ASSUME NEW c \in Conns, put_end(c)
        PROVE  MutexFollowsCommit'
    BY <1>9 DEF put_end, MutexFollowsCommit, Threads
  <1>10. CASE get_status
    BY <1>10 DEF get_status, Goes, HttpFree, MutexFollowsCommit, TaskTypeOK,
       Threads
  <1>11. CASE get_visit
    BY <1>11 DEF get_visit, NoOp, MutexFollowsCommit, TaskTypeOK, Threads
  <1>12. CASE others
    BY <1>12 DEF others, MutexFollowsCommit, Threads
  <1>13. CASE reset
    BY <1>13 DEF reset, NoOp, MutexFollowsCommit, Threads
  <1>14. CASE UNCHANGED taskVars
    BY <1>14 DEF taskVars, MutexFollowsCommit, Threads
  <1> QED
    BY <1>1, <1>2, <1>3, <1>4, <1>5, <1>6, <1>7, <1>8, <1>9, <1>10, <1>11,
       <1>12, <1>13, <1>14 DEF TaskNext, Mutation


\* The values of a fresh start are typed.
LEMMA EmptyTyped ==
  /\ NoDoc \in Docs
  /\ NoOp \in [pc : Pcs, kind : {"store", "clear"}, doc : Docs, ok : BOOLEAN]
  /\ NoPost \in [phase : {"idle", "body", "tail"}, at : 0..MaxBody,
                 refused : BOOLEAN]
  /\ NoUpload \in [client : Conns \cup {None}, buf : Docs]
  /\ Off \in [avail : BOOLEAN, blob : Docs, tasks : Docs]
  <1>1. NoDoc \in Docs
    BY TaskAssumption DEF NoDoc, Docs
  <1>2. 0 \in 0..MaxBody
    BY TaskAssumption
  <1> QED
    BY <1>1, <1>2 DEF NoDoc, NoOp, NoPost, NoUpload, Off, Pcs

\* Every step keeps the types.
LEMMA TaskTypeStep ==
  ASSUME TaskTypeOK, UploadInv, [TaskNext]_taskVars
  PROVE  TaskTypeOK'
  <1>1. CASE task_init
    <2>1. Readable(flash) \in Docs
      BY EmptyTyped DEF TaskTypeOK, Readable
    <2>2. [avail |-> TRUE, blob |-> Readable(flash), tasks |-> Readable(flash)]
            \in [avail : BOOLEAN, blob : Docs, tasks : Docs]
      BY <2>1
    <2>3. ram' \in [avail : BOOLEAN, blob : Docs, tasks : Docs]
      BY <1>1, <2>2, EmptyTyped, Zenon DEF task_init
    <2> QED
      BY <1>1, <2>3 DEF task_init, TaskTypeOK
  <1>2. ASSUME NEW t \in Threads, clear_request(t)
        PROVE  TaskTypeOK'
    <2> DEFINE Ops == [pc : Pcs, kind : {"store", "clear"}, doc : Docs, ok : BOOLEAN]
    <2>1. [pc |-> "flash", kind |-> "clear", doc |-> NoDoc, ok |-> TRUE]
            \in Ops
      BY EmptyTyped DEF Pcs
    <2>2. op' \in [Threads -> Ops]
      BY <1>2, <2>1 DEF clear_request, capture_acquire, TaskTypeOK
    <2> QED
      BY <1>2, <2>2 DEF clear_request, capture_acquire, TaskTypeOK
  <1>3. ASSUME NEW t \in Threads, flash_acquire(t)
        PROVE  TaskTypeOK'
    BY <1>3, EmptyTyped DEF flash_acquire, Goes, TaskTypeOK, Threads, Pcs
  <1>4. ASSUME NEW t \in Threads, mutate(t)
        PROVE  TaskTypeOK'
    BY <1>4, EmptyTyped DEF mutate, Goes, Fails, TaskTypeOK, Threads, Pcs
  <1>5. ASSUME NEW t \in Threads, commit(t)
        PROVE  TaskTypeOK'
    <2> DEFINE Ops == [pc : Pcs, kind : {"store", "clear"}, doc : Docs, ok : BOOLEAN]
    <2>1. op[t] \in Ops
      BY <1>5 DEF TaskTypeOK
    <2>2. op' \in [Threads -> Ops]
      BY <1>5, <2>1 DEF commit, Goes, TaskTypeOK, Pcs
    <2>3. ram' \in [avail : BOOLEAN, blob : Docs, tasks : Docs]
      BY <1>5, <2>1 DEF commit, TaskTypeOK
    <2> QED
      BY <1>5, <2>2, <2>3 DEF commit, TaskTypeOK
  <1>6. ASSUME NEW t \in Threads, release_flash(t)
        PROVE  TaskTypeOK'
    BY <1>6, EmptyTyped DEF release_flash, Goes, TaskTypeOK, Threads, Pcs
  <1>7. ASSUME NEW t \in Threads, release_capture(t)
        PROVE  TaskTypeOK'
    BY <1>7, EmptyTyped DEF release_capture, TaskTypeOK, Threads, Pcs
  <1>8. ASSUME NEW c \in Conns, tasks_put(c)
        PROVE  TaskTypeOK'
    <2> DEFINE Ops == [pc : Pcs, kind : {"store", "clear"}, doc : Docs, ok : BOOLEAN]
    <2>1. op' \in [Threads -> Ops]
      <3>1. CASE UNCHANGED op
        BY <3>1 DEF TaskTypeOK
      <3>2. CASE op' # op
        <4>1. PICK d \in Docs \ {Alien} :
                op' = [op EXCEPT !["http"] =
                         [pc |-> "flash", kind |-> "store", doc |-> d,
                          ok |-> TRUE]]
          BY <1>8, <3>2, PutEffect
        <4>2. [pc |-> "flash", kind |-> "store", doc |-> d, ok |-> TRUE]
                \in Ops
          BY DEF Pcs
        <4> QED
          BY <4>1, <4>2 DEF TaskTypeOK, Threads
      <3> QED
        BY <3>1, <3>2
    <2>2. capture' \in CaptureKinds \cup {"none", "task"}
      BY <1>8, PutEffect DEF TaskTypeOK
    <2> QED
      BY <1>8, <2>1, <2>2, PutEffect DEF TaskTypeOK
  <1>9. ASSUME NEW c \in Conns, put_end(c)
        PROVE  TaskTypeOK'
    BY <1>9, EmptyTyped DEF put_end, TaskTypeOK
  <1>10. CASE get_status
    BY <1>10, EmptyTyped DEF get_status, Goes, TaskTypeOK, Threads, Pcs
  <1>11. CASE get_visit
    BY <1>11, EmptyTyped DEF get_visit, TaskTypeOK, Threads, Pcs
  <1>12. CASE others
    BY <1>12 DEF others, TaskTypeOK
  <1>13. CASE reset
    BY <1>13, EmptyTyped DEF reset, TaskTypeOK, Threads
  <1>14. CASE UNCHANGED taskVars
    BY <1>14 DEF taskVars, TaskTypeOK
  <1> QED
    BY <1>1, <1>2, <1>3, <1>4, <1>5, <1>6, <1>7, <1>8, <1>9, <1>10, <1>11,
       <1>12, <1>13, <1>14 DEF TaskNext, Mutation

\* A copy brings RAM to what was written.
LEMMA RamStep ==
  ASSUME TaskTypeOK, RamInv, OpInv, UploadInv, [TaskNext]_taskVars
  PROVE  RamInv'
  <1>1. CASE task_init
    BY <1>1 DEF task_init, Off, RamInv
  <1>2. ASSUME NEW t \in Threads, clear_request(t)
        PROVE  RamInv'
    BY <1>2 DEF clear_request, RamInv
  <1>3. ASSUME NEW t \in Threads, flash_acquire(t)
        PROVE  RamInv'
    BY <1>3 DEF flash_acquire, RamInv
  <1>4. ASSUME NEW t \in Threads, mutate(t)
        PROVE  RamInv'
    BY <1>4 DEF mutate, RamInv, TaskTypeOK, Threads
  <1>5. ASSUME NEW t \in Threads, commit(t)
        PROVE  RamInv'
    <2>1. op[t].doc # Alien /\ flash = op[t].doc
      BY <1>5 DEF commit, OpInv
    <2> QED
      BY <1>5, <2>1 DEF commit, RamInv, Readable, TaskTypeOK
  <1>6. ASSUME NEW t \in Threads, release_flash(t)
        PROVE  RamInv'
    BY <1>6 DEF release_flash, RamInv
  <1>7. ASSUME NEW t \in Threads, release_capture(t)
        PROVE  RamInv'
    BY <1>7 DEF release_capture, RamInv
  <1>8. ASSUME NEW c \in Conns, tasks_put(c)
        PROVE  RamInv'
    BY <1>8, PutEffect DEF RamInv
  <1>9. ASSUME NEW c \in Conns, put_end(c)
        PROVE  RamInv'
    BY <1>9 DEF put_end, RamInv
  <1>10. CASE get_status
    BY <1>10 DEF get_status, RamInv
  <1>11. CASE get_visit
    BY <1>11 DEF get_visit, RamInv
  <1>12. CASE others
    BY <1>12 DEF others, RamInv
  <1>13. CASE reset
    BY <1>13 DEF reset, Off, RamInv
  <1>14. CASE UNCHANGED taskVars
    BY <1>14 DEF taskVars, RamInv
  <1> QED
    BY <1>1, <1>2, <1>3, <1>4, <1>5, <1>6, <1>7, <1>8, <1>9, <1>10, <1>11,
       <1>12, <1>13, <1>14 DEF TaskNext, Mutation

\* The thread in a mutation is alone with flash.
LEMMA OpStep ==
  ASSUME TaskTypeOK, OwnersFollowMutation, OpInv, UploadInv, [TaskNext]_taskVars
  PROVE  OpInv'
  <1>1. CASE task_init
    BY <1>1 DEF task_init, OpInv
  <1>2. ASSUME NEW t \in Threads, clear_request(t)
        PROVE  OpInv'
    BY <1>2 DEF clear_request, capture_acquire, NoDoc, Alien, OpInv, TaskTypeOK,
       Threads
  <1>3. ASSUME NEW t \in Threads, flash_acquire(t)
        PROVE  OpInv'
    BY <1>3 DEF flash_acquire, Goes, NoOp, NoDoc, Alien, OpInv, TaskTypeOK,
       Threads
  <1>4. ASSUME NEW t \in Threads, mutate(t)
        PROVE  OpInv'
    <2>1. \A u \in Threads :
            u # t => op[u].pc \notin {"commit", "release_flash",
                                     "release_capture"}
      BY <1>4 DEF mutate, OwnersFollowMutation, Holding
    <2>2. CASE Goes(t, "commit") /\ flash' = op[t].doc
      BY <1>4, <2>1, <2>2 DEF mutate, Goes, OpInv, TaskTypeOK, Threads
    <2>3. CASE Fails(t) /\ UNCHANGED flash
      BY <1>4, <2>3 DEF Fails, OpInv, TaskTypeOK, Threads
    <2> QED
      BY <1>4, <2>2, <2>3 DEF mutate
  <1>5. ASSUME NEW t \in Threads, commit(t)
        PROVE  OpInv'
    BY <1>5 DEF commit, Goes, OpInv, TaskTypeOK, Threads
  <1>6. ASSUME NEW t \in Threads, release_flash(t)
        PROVE  OpInv'
    BY <1>6 DEF release_flash, Goes, OpInv, TaskTypeOK, Threads
  <1>7. ASSUME NEW t \in Threads, release_capture(t)
        PROVE  OpInv'
    BY <1>7 DEF release_capture, NoOp, NoDoc, Alien, OpInv, TaskTypeOK, Threads
  <1>8. ASSUME NEW c \in Conns, tasks_put(c)
        PROVE  OpInv'
    <2>1. CASE UNCHANGED op
      BY <1>8, <2>1, PutEffect DEF OpInv
    <2>2. CASE op' # op
      <3>1. PICK e \in Docs \ {Alien} :
              op' = [op EXCEPT !["http"] =
                       [pc |-> "flash", kind |-> "store", doc |-> e,
                        ok |-> TRUE]]
        BY <1>8, <2>2, PutEffect
      <3>2. UNCHANGED flash
        BY <1>8, PutEffect
      <3> QED
        BY <3>1, <3>2 DEF OpInv, TaskTypeOK, Threads
    <2> QED
      BY <2>1, <2>2
  <1>9. ASSUME NEW c \in Conns, put_end(c)
        PROVE  OpInv'
    BY <1>9 DEF put_end, OpInv
  <1>10. CASE get_status
    BY <1>10 DEF get_status, Goes, HttpFree, OpInv, TaskTypeOK, Threads
  <1>11. CASE get_visit
    BY <1>11 DEF get_visit, NoOp, NoDoc, Alien, OpInv, TaskTypeOK, Threads
  <1>12. CASE others
    BY <1>12 DEF others, OpInv
  <1>13. CASE reset
    BY <1>13 DEF reset, NoOp, NoDoc, Alien, OpInv, Threads
  <1>14. CASE UNCHANGED taskVars
    BY <1>14 DEF taskVars, OpInv
  <1> QED
    BY <1>1, <1>2, <1>3, <1>4, <1>5, <1>6, <1>7, <1>8, <1>9, <1>10, <1>11,
       <1>12, <1>13, <1>14 DEF TaskNext, Mutation

\* While the HTTP thread is in a GET only the shell mutates, and it clears.
LEMMA ListStep ==
  ASSUME TaskTypeOK, RamInv, OpInv, ListInv, UploadInv, [TaskNext]_taskVars
  PROVE  ListInv'
  <1>1. CASE task_init
    BY <1>1 DEF task_init, ListInv
  <1>2. ASSUME NEW t \in Threads, clear_request(t)
        PROVE  ListInv'
    BY <1>2 DEF clear_request, capture_acquire, ListInv, TaskTypeOK, Threads
  <1>3. ASSUME NEW t \in Threads, flash_acquire(t)
        PROVE  ListInv'
    BY <1>3 DEF flash_acquire, Goes, NoOp, ListInv, TaskTypeOK, Threads
  <1>4. ASSUME NEW t \in Threads, mutate(t)
        PROVE  ListInv'
    BY <1>4 DEF mutate, Goes, Fails, ListInv, TaskTypeOK, Threads
  <1>5. ASSUME NEW t \in Threads, commit(t)
        PROVE  ListInv'
    <2>1. op["http"].pc = "visit" => t = "shell" /\ op[t].doc = NoDoc
      BY <1>5 DEF commit, OpInv, Threads
    <2> QED
      BY <1>5, <2>1 DEF commit, Goes, ListInv, TaskTypeOK, Threads
  <1>6. ASSUME NEW t \in Threads, release_flash(t)
        PROVE  ListInv'
    BY <1>6 DEF release_flash, Goes, ListInv, TaskTypeOK, Threads
  <1>7. ASSUME NEW t \in Threads, release_capture(t)
        PROVE  ListInv'
    BY <1>7 DEF release_capture, NoOp, ListInv, TaskTypeOK, Threads
  <1>8. ASSUME NEW c \in Conns, tasks_put(c)
        PROVE  ListInv'
    BY <1>8, PutEffect DEF ListInv, TaskTypeOK, Threads
  <1>9. ASSUME NEW c \in Conns, put_end(c)
        PROVE  ListInv'
    BY <1>9 DEF put_end, ListInv
  <1>10. CASE get_status
    BY <1>10 DEF get_status, HttpFree, RamInv, ListInv, TaskTypeOK, Threads
  <1>11. CASE get_visit
    BY <1>11 DEF get_visit, NoOp, ListInv, TaskTypeOK, Threads
  <1>12. CASE others
    BY <1>12 DEF others, ListInv
  <1>13. CASE reset
    BY <1>13 DEF reset, NoOp, ListInv, Threads
  <1>14. CASE UNCHANGED taskVars
    BY <1>14 DEF taskVars, ListInv
  <1> QED
    BY <1>1, <1>2, <1>3, <1>4, <1>5, <1>6, <1>7, <1>8, <1>9, <1>10, <1>11,
       <1>12, <1>13, <1>14 DEF TaskNext, Mutation

\* Only a fragment fills the buffer.
LEMMA UploadStep ==
  ASSUME TaskTypeOK, UploadInv, [TaskNext]_taskVars
  PROVE  UploadInv'
  <1>1. CASE task_init
    BY <1>1 DEF task_init, UploadInv
  <1>2. ASSUME NEW t \in Threads, clear_request(t)
        PROVE  UploadInv'
    BY <1>2 DEF clear_request, UploadInv
  <1>3. ASSUME NEW t \in Threads, flash_acquire(t)
        PROVE  UploadInv'
    BY <1>3 DEF flash_acquire, NoUpload, UploadInv
  <1>4. ASSUME NEW t \in Threads, mutate(t)
        PROVE  UploadInv'
    BY <1>4 DEF mutate, UploadInv
  <1>5. ASSUME NEW t \in Threads, commit(t)
        PROVE  UploadInv'
    BY <1>5 DEF commit, UploadInv
  <1>6. ASSUME NEW t \in Threads, release_flash(t)
        PROVE  UploadInv'
    BY <1>6 DEF release_flash, NoUpload, UploadInv
  <1>7. ASSUME NEW t \in Threads, release_capture(t)
        PROVE  UploadInv'
    BY <1>7 DEF release_capture, UploadInv
  <1>8. ASSUME NEW c \in Conns, tasks_put(c)
        PROVE  UploadInv'
    BY <1>8, PutEffect
  <1>9. ASSUME NEW c \in Conns, put_end(c)
        PROVE  UploadInv'
    BY <1>9 DEF put_end, NoUpload, UploadInv
  <1>10. CASE get_status
    BY <1>10 DEF get_status, UploadInv
  <1>11. CASE get_visit
    BY <1>11 DEF get_visit, UploadInv
  <1>12. CASE others
    BY <1>12 DEF others, UploadInv
  <1>13. CASE reset
    BY <1>13 DEF reset, NoUpload, UploadInv
  <1>14. CASE UNCHANGED taskVars
    BY <1>14 DEF taskVars, UploadInv
  <1> QED
    BY <1>1, <1>2, <1>3, <1>4, <1>5, <1>6, <1>7, <1>8, <1>9, <1>10, <1>11,
       <1>12, <1>13, <1>14 DEF TaskNext, Mutation


LEMMA InitHolds == TaskInit => TaskInv
  <1> SUFFICES ASSUME TaskInit PROVE TaskInv
    OBVIOUS
  <1>1. Alien \in Docs
    BY TaskAssumption DEF Alien, Docs, Units
  <1>2. TaskTypeOK
    BY <1>1, EmptyTyped DEF TaskInit, TaskTypeOK, Threads
  <1>3. OwnersFollowMutation
    BY DEF TaskInit, OwnersFollowMutation, Holding, NoOp
  <1>4. MutexFollowsCommit /\ RamInv /\ ListInv
    BY DEF TaskInit, MutexFollowsCommit, RamInv, ListInv, Off, NoOp, Threads
  <1>5. OpInv /\ UploadInv
    BY DEF TaskInit, OpInv, UploadInv, NoOp, NoDoc, Alien, NoUpload, Threads
  <1> QED
    BY <1>2, <1>3, <1>4, <1>5 DEF TaskInv

-----------------------------------------------------------------------------
(* The body of a PUT.                                                      *)

\* buf is the end of what c has sent so far, and all of it unless c was
\* answered before; p is how far the PUT of c is.
Stretch(buf, c, p) ==
  \E from \in 0..MaxBody :
    /\ \A i \in 1..Len(buf) : buf[i] = [conn |-> c, at |-> from + i]
    /\ from + Len(buf) = p.at
    /\ from = 0 \/ p.refused

\* The buffer follows the PUT it belongs to; a PUT that does not own it has
\* sent nothing, was refused or is over; a document on its way to flash is
\* the buffer, and nothing more of its PUT will come.
BodyInv ==
  /\ upload.client = None => upload.buf = <<>>
  /\ upload.client \in Conns =>
       Stretch(upload.buf, upload.client, post[upload.client])
  /\ \A c \in Conns : post[c].phase # "tail" /\ upload.client # c =>
                        post[c].at = 0 \/ post[c].refused
  /\ op["http"].kind = "store"
       /\ op["http"].pc \in {"flash", "mutate", "commit", "release_flash"} =>
     /\ upload.client \in Conns
     /\ post[upload.client].phase = "tail"
     /\ upload.buf = op["http"].doc

\* An accepted fragment lengthens the stretch.
LEMMA StretchGrows ==
  ASSUME TaskTypeOK, BodyInv, NEW c \in Conns, NEW len \in 0..Limit,
         post[c].at + len <= MaxBody, post[c].phase # "tail",
         upload.client \in {None, c},
         NEW all, all = upload.buf \o Sent(c, len),
         NEW p, p.at = post[c].at + len, p.refused = post[c].refused
  PROVE  Stretch(all, c, p)
  <1>1. /\ upload.buf \in Seq(Units)
        /\ Len(all) = Len(upload.buf) + len
        /\ \A i \in 1..Len(upload.buf) + len :
             all[i] = IF i <= Len(upload.buf) THEN upload.buf[i]
                      ELSE Sent(c, len)[i - Len(upload.buf)]
    <2>1. upload.buf \in {<<>>, upload.buf}
      OBVIOUS
    <2> QED
      BY <2>1, BufferUnits, Zenon
  <1>2. len \in Nat /\ Len(upload.buf) \in Nat /\ post[c].at \in 0..MaxBody
    BY <1>1, TaskAssumption DEF TaskTypeOK
  <1>3. PICK from \in 0..MaxBody :
          /\ \A i \in 1..Len(upload.buf) :
               upload.buf[i] = [conn |-> c, at |-> from + i]
          /\ from + Len(upload.buf) = post[c].at
          /\ from = 0 \/ post[c].refused
    <2>1. CASE upload.client = c
      BY <2>1 DEF BodyInv, Stretch
    <2>2. CASE upload.client = None
      <3>1. upload.buf = <<>> /\ (post[c].at = 0 \/ post[c].refused)
        BY <2>2, TaskAssumption DEF BodyInv
      <3>2. Len(upload.buf) = 0
        BY <3>1
      <3> QED
        BY <3>1, <3>2, <1>2
    <2> QED
      BY <2>1, <2>2
  <1>4. ASSUME NEW i \in 1..Len(all)
        PROVE  all[i] = [conn |-> c, at |-> from + i]
    <2>1. CASE i <= Len(upload.buf)
      <3>1. i \in 1..Len(upload.buf) /\ all[i] = upload.buf[i]
        BY <2>1, <1>1, <1>2
      <3> QED
        BY <3>1, <1>3
    <2>2. CASE i > Len(upload.buf)
      <3>1. i - Len(upload.buf) \in 1..len
            /\ all[i] = Sent(c, len)[i - Len(upload.buf)]
        BY <2>2, <1>1, <1>2
      <3>2. all[i] = [conn |-> c, at |-> post[c].at + (i - Len(upload.buf))]
        BY <3>1 DEF Sent
      <3>3. post[c].at + (i - Len(upload.buf)) = from + i
        BY <1>2, <1>3
      <3> QED
        BY <3>2, <3>3
    <2> QED
      BY <2>1, <2>2, <1>2
  <1>5. from + Len(all) = p.at /\ (from = 0 \/ p.refused)
    BY <1>1, <1>2, <1>3
  <1> QED
    BY <1>4, <1>5 DEF Stretch

\* What DeliverPut makes of the PUT of c, and of the others.
LEMMA Delivered ==
  ASSUME TaskTypeOK, NEW c \in Conns, NEW len, NEW final \in BOOLEAN,
         NEW refused \in BOOLEAN, DeliverPut(c, len, final, refused)
  PROVE  /\ post'[c].at = post[c].at + len
         /\ post'[c].refused = (post[c].refused \/ refused)
         /\ final => post'[c].phase = "tail"
         /\ \A e \in Conns \ {c} : post'[e] = post[e]
  <1> DEFINE Posts == [phase : {"idle", "body", "tail"}, at : 0..MaxBody,
                       refused : BOOLEAN]
  <1>1. post \in [Conns -> Posts]
    BY DEF TaskTypeOK
  <1>2. /\ post'[c] = [phase |-> IF final \/ (refused /\ ~Drains) THEN "tail"
                                 ELSE "body",
                       at |-> post[c].at + len,
                       refused |-> post[c].refused \/ refused]
        /\ \A e \in Conns \ {c} : post'[e] = post[e]
    BY <1>1 DEF DeliverPut
  <1> QED
    BY <1>2

\* A fragment keeps the buffer and the PUT it belongs to together.
LEMMA BodyPut ==
  ASSUME TaskTypeOK, BodyInv, NEW c \in Conns, tasks_put(c)
  PROVE  BodyInv'
  <1> PICK len \in 0..Limit, final \in BOOLEAN :
             post[c].at + len <= MaxBody /\ handle_tasks_put(c, len, final)
    BY DEF tasks_put
  <1>1. op["http"].pc = "idle" /\ post[c].phase # "tail"
    BY DEF tasks_put, HttpFree
  <1>2. op["http"] \in [pc : Pcs, kind : {"store", "clear"}, doc : Docs,
                        ok : BOOLEAN]
        /\ post[c].refused \in BOOLEAN
    BY DEF TaskTypeOK, Threads
  <1> DEFINE all == upload.buf \o Sent(c, len)
             Mine == upload.client \in {None, c}
  <1>3. Mine => (IF upload.client = None THEN <<>> ELSE upload.buf) = upload.buf
    BY DEF BodyInv
  <1>4. \/ /\ ~Mine
           /\ DeliverPut(c, len, final, ~final)
           /\ UNCHANGED <<upload, op>>
        \/ /\ Mine
           /\ upload' = NoUpload
           /\ DeliverPut(c, len, final, ~final)
           /\ UNCHANGED op
        \/ /\ Mine /\ ~final
           /\ upload' = [client |-> c, buf |-> all]
           /\ DeliverPut(c, len, final, FALSE)
           /\ UNCHANGED op
        \/ /\ Mine /\ final
           /\ DeliverPut(c, len, final, FALSE)
           /\ upload' = NoUpload
           /\ UNCHANGED op
        \/ /\ Mine /\ final
           /\ DeliverPut(c, len, final, FALSE)
           /\ upload' = [client |-> c, buf |-> all]
           /\ op' = [op EXCEPT !["http"] = [pc |-> "flash", kind |-> "store",
                                            doc |-> all, ok |-> TRUE]]
    BY <1>3 DEF handle_tasks_put, put_busy, capture_acquire
  <1>5. CASE /\ ~Mine
             /\ DeliverPut(c, len, final, ~final)
             /\ UNCHANGED <<upload, op>>
    <2>1. /\ post'[c].refused \/ post'[c].phase = "tail"
          /\ \A e \in Conns \ {c} : post'[e] = post[e]
      BY <1>5, Delivered
    <2> QED
      BY <2>1, <1>1, <1>5 DEF BodyInv, Stretch
  <1>6. CASE /\ Mine
             /\ upload' = NoUpload
             /\ UNCHANGED op
             /\ \/ DeliverPut(c, len, final, ~final)
                \/ final /\ DeliverPut(c, len, final, FALSE)
    <2>1. /\ post'[c].refused \/ post'[c].phase = "tail"
          /\ \A e \in Conns \ {c} : post'[e] = post[e]
      BY <1>6, Delivered, ZenonT(30)
    <2>2. \A e \in Conns \ {c} : upload.client # e
      BY <1>6, TaskAssumption
    <2> QED
      BY <2>1, <2>2, <1>1, <1>6, TaskAssumption DEF BodyInv, NoUpload
  <1>7. CASE /\ Mine
             /\ upload' = [client |-> c, buf |-> all]
             /\ DeliverPut(c, len, final, FALSE)
             /\ \/ UNCHANGED op
                \/ /\ final
                   /\ op' = [op EXCEPT !["http"] =
                               [pc |-> "flash", kind |-> "store",
                                doc |-> all, ok |-> TRUE]]
    <2>1. /\ post'[c].at = post[c].at + len
          /\ post'[c].refused = post[c].refused
          /\ final => post'[c].phase = "tail"
          /\ \A e \in Conns \ {c} : post'[e] = post[e]
      <3>1. DeliverPut(c, len, final, FALSE) /\ FALSE \in BOOLEAN
        BY <1>7
      <3>2. /\ post'[c].at = post[c].at + len
            /\ post'[c].refused = (post[c].refused \/ FALSE)
            /\ final => post'[c].phase = "tail"
            /\ \A e \in Conns \ {c} : post'[e] = post[e]
        BY <3>1, Delivered, Zenon
      <3> QED
        BY <3>2, <1>2
    <2>2. \A e \in Conns \ {c} : upload.client # e
      BY <1>7, TaskAssumption
    <2>3. Stretch(all, c, post'[c])
      BY <1>1, <1>7, <2>1, StretchGrows
    <2>4. op'["http"].pc \in {"flash", "mutate", "commit", "release_flash"} =>
            final /\ op'["http"].doc = all
      BY <1>1, <1>7 DEF TaskTypeOK, Threads
    <2> HIDE DEF all
    <2>5. upload'.client = c /\ upload'.buf = all
      BY <1>7
    <2> QED
      BY <2>1, <2>2, <2>3, <2>4, <2>5, TaskAssumption DEF BodyInv, Stretch
  <1> QED
    BY <1>4, <1>5, <1>6, <1>7

\* Every step keeps them together.
LEMMA BodyStep ==
  ASSUME TaskInv, BodyInv, [TaskNext]_taskVars
  PROVE  BodyInv'
  <1> USE DEF TaskInv
  <1>1. CASE task_init
    BY <1>1 DEF task_init, BodyInv
  <1>2. ASSUME NEW t \in Threads, clear_request(t)
        PROVE  BodyInv'
    <2>1. op'["http"] = op["http"] \/ op'["http"].kind = "clear"
      BY <1>2 DEF clear_request, capture_acquire, TaskTypeOK, Threads
    <2> QED
      BY <2>1, <1>2 DEF clear_request, BodyInv
  <1>3. ASSUME NEW t \in Threads, flash_acquire(t)
        PROVE  BodyInv'
    <2>1. CASE t = "http" /\ op[t].kind = "store" /\ flashOwner # "none"
      <3>1. upload' = NoUpload /\ op'["http"].pc = "idle" /\ post' = post
        BY <1>3, <2>1 DEF flash_acquire, NoOp, TaskTypeOK, Threads
      <3>2. upload.client \in Conns /\ post[upload.client].phase = "tail"
        BY <1>3, <2>1 DEF flash_acquire, BodyInv
      <3> QED
        BY <3>1, <3>2, TaskAssumption DEF BodyInv, NoUpload
    <2>2. CASE ~(t = "http" /\ op[t].kind = "store" /\ flashOwner # "none")
      <3>1. upload' = upload /\ post' = post
        BY <1>3, <2>2 DEF flash_acquire, OpInv, Threads
      <3>2. \/ op'["http"].pc = "idle"
            \/ /\ op'["http"].kind = op["http"].kind
               /\ op'["http"].doc = op["http"].doc
               /\ op["http"].pc \in {"flash", "mutate", "commit", "release_flash"}
                    <=> op'["http"].pc \in {"flash", "mutate", "commit",
                                            "release_flash"}
        BY <1>3, <2>2 DEF flash_acquire, Goes, NoOp, TaskTypeOK, Threads
      <3> QED
        BY <3>1, <3>2 DEF BodyInv
    <2> QED
      BY <2>1, <2>2
  <1>4. ASSUME NEW t \in Threads, mutate(t) \/ commit(t)
        PROVE  BodyInv'
    <2>1. upload' = upload /\ post' = post
      BY <1>4 DEF mutate, commit
    <2>2. /\ op'["http"].kind = op["http"].kind
          /\ op'["http"].doc = op["http"].doc
          /\ op["http"].pc \in {"flash", "mutate", "commit", "release_flash"}
               <=> op'["http"].pc \in {"flash", "mutate", "commit",
                                       "release_flash"}
      BY <1>4 DEF mutate, commit, Goes, Fails, TaskTypeOK, Threads
    <2> QED
      BY <2>1, <2>2 DEF BodyInv
  <1>6. ASSUME NEW t \in Threads, release_flash(t)
        PROVE  BodyInv'
    <2>1. CASE t = "http" /\ op[t].kind = "store"
      <3>1. upload' = NoUpload /\ op'["http"].pc = "release_capture"
            /\ post' = post
        BY <1>6, <2>1 DEF release_flash, Goes, TaskTypeOK, Threads
      <3>2. upload.client \in Conns /\ post[upload.client].phase = "tail"
        BY <1>6, <2>1 DEF release_flash, BodyInv
      <3> QED
        BY <3>1, <3>2, TaskAssumption DEF BodyInv, NoUpload
    <2>2. CASE ~(t = "http" /\ op[t].kind = "store")
      <3>1. upload' = upload /\ post' = post
        BY <1>6, <2>2 DEF release_flash, OpInv, Threads
      <3>2. op'["http"] = op["http"] \/ op'["http"].pc = "release_capture"
        BY <1>6, <2>2 DEF release_flash, Goes, TaskTypeOK, Threads
      <3> QED
        BY <3>1, <3>2 DEF BodyInv
    <2> QED
      BY <2>1, <2>2
  <1>7. ASSUME NEW t \in Threads, release_capture(t)
        PROVE  BodyInv'
    <2>1. op'["http"] = op["http"] \/ op'["http"].pc = "idle"
      BY <1>7 DEF release_capture, NoOp, TaskTypeOK, Threads
    <2> QED
      BY <2>1, <1>7 DEF release_capture, BodyInv
  <1>8. ASSUME NEW c \in Conns, tasks_put(c)
        PROVE  BodyInv'
    BY <1>8, BodyPut
  <1>9. ASSUME NEW c \in Conns, put_end(c)
        PROVE  BodyInv'
    <2>1. /\ op["http"].pc = "idle" /\ op' = op
          /\ post'[c].at = 0
          /\ \A e \in Conns \ {c} : post'[e] = post[e]
          /\ upload' = IF upload.client = c THEN NoUpload ELSE upload
      BY <1>9 DEF put_end, HttpFree, NoPost, TaskTypeOK
    <2>2. CASE upload.client = c
      BY <2>1, <2>2, TaskAssumption DEF BodyInv, NoUpload
    <2>3. CASE upload.client # c
      BY <2>1, <2>3 DEF BodyInv
    <2> QED
      BY <2>2, <2>3
  <1>10. CASE get_status
    <2>1. op'["http"].pc = "visit"
      BY <1>10 DEF get_status, Goes, TaskTypeOK, Threads
    <2> QED
      BY <2>1, <1>10 DEF get_status, BodyInv
  <1>11. CASE get_visit
    <2>1. op'["http"].pc = "idle"
      BY <1>11 DEF get_visit, NoOp, TaskTypeOK, Threads
    <2> QED
      BY <2>1, <1>11 DEF get_visit, BodyInv
  <1>12. CASE others
    BY <1>12 DEF others, BodyInv
  <1>13. CASE reset
    BY <1>13, TaskAssumption
    DEF reset, NoUpload, NoPost, NoOp, BodyInv, Threads
  <1>14. CASE UNCHANGED taskVars
    BY <1>14 DEF taskVars, BodyInv
  <1> QED
    BY <1>1, <1>2, <1>3, <1>4, <1>6, <1>7, <1>8, <1>9, <1>10, <1>11,
       <1>12, <1>13, <1>14 DEF TaskNext, Mutation

\* Only a store writes a document, and it writes the buffer of its PUT.
LEMMA OneBodyStep ==
  ASSUME TaskInv, BodyInv, [TaskNext]_taskVars, flash' \notin {flash, NoDoc}
  PROVE  \E c \in Conns : \E from \in 0..MaxBody :
           /\ flash' = [i \in 1..Len(flash') |-> [conn |-> c, at |-> from + i]]
           /\ from + Len(flash') = post[c].at
           /\ from = 0 \/ post[c].refused
  <1>1. PICK t \in Threads : mutate(t)
    BY DEF TaskNext, Mutation, task_init, clear_request, flash_acquire, commit,
       release_flash, release_capture, tasks_put, put_end, get_status,
       get_visit, others, reset, taskVars
  <1>2. op[t].pc = "mutate" /\ flash' = op[t].doc /\ flash' # NoDoc
    BY <1>1 DEF mutate
  <1>3. op[t].kind # "clear" /\ op[t].kind \in {"store", "clear"}
    BY <1>2 DEF TaskInv, OpInv, TaskTypeOK
  <1>4. t = "http" /\ op[t].kind = "store"
    BY <1>3 DEF TaskInv, OpInv, Threads
  <1>5. upload.client \in Conns /\ flash' = upload.buf
    BY <1>2, <1>4 DEF BodyInv
  <1>6. PICK from \in 0..MaxBody :
          /\ \A i \in 1..Len(flash') :
               flash'[i] = [conn |-> upload.client, at |-> from + i]
          /\ from + Len(flash') = post[upload.client].at
          /\ from = 0 \/ post[upload.client].refused
    BY <1>5 DEF BodyInv, Stretch
  <1>7. upload.buf \in Seq(Units)
    <2>1. upload.buf \in Docs
      BY DEF TaskInv, TaskTypeOK
    <2> QED
      BY <2>1 DEF Docs
  <1>8. flash' = [i \in 1..Len(flash') |-> flash'[i]]
    BY <1>5, <1>7
  <1>9. flash' = [i \in 1..Len(flash') |->
                    [conn |-> upload.client, at |-> from + i]]
    BY <1>6, <1>8
  <1> QED
    BY <1>5, <1>6, <1>9

-----------------------------------------------------------------------------
(* The theorems.                                                           *)

\* The inductive invariant holds in every state the store reaches: each part
\* of it is kept by every handler of task.c, task_mutation.c and task_http.c.
THEOREM TaskInvariant == TaskSpec => []TaskInv
  <1>1. TaskInv /\ [TaskNext]_taskVars => TaskInv'
    BY TaskTypeStep, OwnersStep, MutexStep, RamStep, OpStep, ListStep, UploadStep
    DEF TaskInv
  <1> QED
    BY <1>1, InitHolds, PTL DEF TaskSpec

\* Every variable of the store keeps its type; in particular the upload
\* buffer never grows past LINKR_DEBUGGER_TASK_MAX_BLOB_SIZE.
THEOREM TaskTyped == TaskSpec => []TaskTypeOK
  <1>1. TaskInv => TaskTypeOK
    BY DEF TaskInv
  <1> QED
    BY <1>1, TaskInvariant, PTL

\* The task owners of both arbiters are held exactly by the one mutation
\* under way and never leak (task_mutation.c).
THEOREM OwnersDiscipline == TaskSpec => []OwnersFollowMutation
  <1>1. TaskInv => OwnersFollowMutation
    BY DEF TaskInv
  <1> QED
    BY <1>1, TaskInvariant, PTL

\* What GET reads from RAM is what a reboot would load from flash (task.c).
THEOREM RamAgrees == TaskSpec => []RamIsFlash
  <1>1. TaskInv => RamIsFlash
    BY DEF TaskInv, RamInv, RamIsFlash
  <1> QED
    BY <1>1, TaskInvariant, PTL

\* A mutation answered with success is in flash when it is answered, whatever
\* the other thread does (task_mutation.c).
THEOREM AnswersHold == TaskSpec => []AnswerIsStored
  <1>1. TaskInv => AnswerIsStored
    BY DEF TaskInv, OpInv, AnswerIsStored
  <1> QED
    BY <1>1, TaskInvariant, PTL

\* The two reads of a GET never see two different documents (task_http.c).
THEOREM ListsAgree == TaskSpec => []ListNeverMixes
  <1>1. TaskInv => ListNeverMixes
    BY DEF TaskInv, ListInv, ListNeverMixes
  <1> QED
    BY <1>1, TaskInvariant, PTL

\* The buffer of an upload is at every moment the end of what its PUT sent,
\* whatever other connections, mutations and resets come in between
\* (task_http_handle_tasks_put).
THEOREM BufferFollowsPut == TaskSpec => []BodyInv
  <1>1. TaskInit => BodyInv
    BY TaskAssumption
    DEF TaskInit, BodyInv, NoUpload, NoPost, NoOp, Threads
  <1>2. TaskInv /\ BodyInv /\ [TaskNext]_taskVars => BodyInv'
    BY BodyStep
  <1> QED
    BY <1>1, <1>2, TaskInvariant, PTL DEF TaskSpec

\* No step writes a document that mixes two PUTs, skips a fragment or stops
\* before the end of the body; a document that misses the beginning was sent
\* by a PUT already answered 409 or 413 (task_http.c, task.c).
THEOREM StoresOneBody == TaskSpec => StoredIsOneBody
  <1> DEFINE OneBody ==
        flash' \notin {flash, NoDoc} =>
          \E c \in Conns : \E from \in 0..MaxBody :
            /\ flash' = [i \in 1..Len(flash') |-> [conn |-> c, at |-> from + i]]
            /\ from + Len(flash') = post[c].at
            /\ from = 0 \/ post[c].refused
  <1>1. TaskInv /\ BodyInv /\ [TaskNext]_taskVars => [OneBody]_taskVars
    BY OneBodyStep
  <1> QED
    BY <1>1, TaskInvariant, BufferFollowsPut, PTL DEF TaskSpec, StoredIsOneBody

-----------------------------------------------------------------------------
(* The update over the air.                                                 *)

Confirming == {"manual_write", "manual_clear", "auto_write", "auto_clear"}
Testing == {"test_request", "test_plan"}

\* What the handler that holds the lock has made of the state.
HolderInv ==
  /\ busy \in Confirming => wd.confirming /\ ota.st \notin {"uploading", "rebooting"}
  /\ busy \in Testing => ota.st = "rebooting"

GuardInv == OtaTypeOK /\ HandlersAreGuarded /\ HolderInv

\* The running image, the slots and the marker.
SlotInv ==
  /\ slot.confirmed => lastGood = slot.primary
  /\ ~slot.confirmed => /\ mode = "run" /\ ota.st = "pending_test" /\ scratch.ota
                        /\ ~slot.test /\ slot.secondary = lastGood
  /\ slot.test => mode = "run" /\ ota.st = "rebooting" /\ busy # "test_request"
  /\ ota.st \in {"verified", "rebooting"} => slot.secondary \in Images
  /\ busy \in {"manual_clear", "auto_clear"} => slot.confirmed

\* A test that was requested, and a body that is still to come.
RequestInv ==
  /\ ota.st = "rebooting" => scratch.ota /\ work.reboot
  /\ mode = "run" /\ accepted => ota.st = "rebooting" /\ busy # "test_request"
  /\ \A c \in Uploaders : uploads[c] = "body" => ota.st \in {"idle", "failed", "uploading"}
  /\ \A c \in Uploaders : uploads[c] # "idle" => c \in site.uploaders

Safe == SlotInv /\ RequestInv

OtaInv == GuardInv /\ (Undisturbed => Safe)

-----------------------------------------------------------------------------
(* The types.                                                              *)

\* The state names that a refresh gives are states of the upload.
LEMMA RefreshedState ==
  \A s \in States, marker, confirmed \in BOOLEAN : Refreshed(s, marker, confirmed) \in States
  BY DEF Refreshed, States

\* What the secondary slot may hold leaves the slots typed.
LEMMA SlotHolds ==
  ASSUME slot \in Slots, NEW x \in Images \cup {"empty", "partial"}, slot_holds(x)
  PROVE  slot' \in Slots
  BY DEF Slots, slot_holds

\* A fragment that is written leaves the upload, the flash and the slots typed.
LEMMA WriteTyped ==
  ASSUME OtaTypeOK, NEW c \in Uploaders, NEW len \in 0..1, NEW good \in BOOLEAN,
         NEW final \in BOOLEAN, NEW o \in OtaStates, write_locked(o, c, len, good, final)
  PROVE  ota' \in OtaStates /\ otaFlash' \in {"none", "ota"} /\ slot' \in Slots
  <1> DEFINE n == o.written + len
             next == [o EXCEPT !.written = n, !.intact = IF good THEN @ ELSE FALSE]
  <1>1. CASE /\ write_fails(o, c)
             /\ UNCHANGED slot \/ slot_holds("partial")
    <2>1. ota' \in OtaStates /\ otaFlash' = "none"
      BY <1>1 DEF write_fails, Failed, OtaStates, States
    <2>2. slot' \in Slots
      BY <1>1, SlotHolds DEF OtaTypeOK
    <2> QED
      BY <2>1, <2>2
  <1>2. ASSUME n <= Size PROVE next \in OtaStates
    <2>1. n \in 0..Size
      BY <1>2, OtaAssumption DEF OtaStates
    <2> QED
      BY <2>1 DEF OtaStates
  <1>3. CASE n <= Size /\ ota' = next /\ otaFlash' = "ota" /\ slot_holds("partial")
    BY <1>2, <1>3, SlotHolds DEF OtaTypeOK
  <1>4. CASE /\ n = Size /\ ota' = [next EXCEPT !.st = "verified", !.upl = NoUploader]
             /\ otaFlash' = "none" /\ slot_holds(o.img)
    <2>1. next \in OtaStates
      BY <1>2, <1>4, OtaAssumption
    <2>2. ota' \in OtaStates
      <3> HIDE DEF next
      <3> QED
        BY <2>1, <1>4 DEF OtaStates, States
    <2>3. o.img \in Images
      BY DEF OtaStates
    <2> QED
      BY <2>2, <2>3, <1>4, SlotHolds DEF OtaTypeOK
  <1> QED
    BY <1>1, <1>3, <1>4 DEF write_locked

\* So a refresh keeps the type of the update.
LEMMA RefreshedTyped == OtaTypeOK => RefreshedOta \in OtaStates
  BY RefreshedState DEF OtaTypeOK, OtaStates, Slots, RefreshedOta

\* A restart sets every variable to a value of its type.
LEMMA BootTyped ==
  ASSUME OtaTypeOK, NEW timer \in BOOLEAN, NEW marks \in [ota : BOOLEAN, bootsel : BOOLEAN],
         Boot(timer, marks), UNCHANGED site
  PROVE  OtaTypeOK'
  <1>1. slot' \in Slots
    BY DEF OtaTypeOK, Boot, mcuboot, Slots
  <1>2. mode' \in {"run", "bootsel"} /\ scratch' \in [ota : BOOLEAN, bootsel : BOOLEAN]
    BY DEF Boot, boot_check
  <1>3. ota' \in OtaStates
    <2>1. slot'.confirmed \in BOOLEAN /\ marks.ota \in BOOLEAN
      BY <1>1 DEF Slots
    <2>2. Refreshed("idle", marks.ota, slot'.confirmed) \in States
      BY <2>1, RefreshedState DEF States
    <2>3. Idle \in OtaStates
      BY OtaAssumption DEF Idle, OtaStates, States
    <2> QED
      BY <2>2, <2>3 DEF Boot, OtaStates
  <1>4. lastGood' \in Images
    BY <1>1 DEF OtaTypeOK, Boot, Slots
  <1>5. work' \in [reboot : BOOLEAN, auto : {"off", "scheduled", "health", "gate"}]
    BY DEF Boot
  <1>6. wd' \in [armed : BOOLEAN, planned : BOOLEAN, fault : BOOLEAN, confirming : BOOLEAN]
    BY DEF Boot, Quiet
  <1> QED
    BY <1>1, <1>2, <1>3, <1>4, <1>5, <1>6 DEF Boot, OtaTypeOK

\* Every step keeps the types.
LEMMA OtaTypeStep == OtaTypeOK /\ [OtaNext]_otaVars => OtaTypeOK'
  <1> SUFFICES ASSUME OtaTypeOK, [OtaNext]_otaVars PROVE OtaTypeOK'
    OBVIOUS
  <1>1. CASE UNCHANGED otaVars
    BY <1>1 DEF otaVars, OtaTypeOK, OtaStates, Slots
  <1>2. ASSUME UNCHANGED site, NEW c \in site.uploaders, NEW len \in 0..1, NEW good \in BOOLEAN,
               NEW final \in BOOLEAN, NEW img \in site.images,
               upload_first(c, img, len, good, final)
        PROVE  OtaTypeOK'
    <2>1. c \in Uploaders /\ img \in Images
      BY OtaAssumption DEF OtaTypeOK
    <2>2. uploads' \in [Uploaders -> {"idle", "body", "tail"}]
      BY <1>2 DEF OtaTypeOK, upload_first, DeliverPost
    <2> DEFINE o == [st |-> "uploading", upl |-> c, failc |-> NoUploader, img |-> img,
                     written |-> 0, intact |-> TRUE]
    <2>3. o \in OtaStates
      BY <2>1, OtaAssumption DEF OtaStates, States
    <2>4. CASE write_locked(o, c, len, good, final)
      <3> HIDE DEF o
      <3>1. ota' \in OtaStates /\ otaFlash' \in {"none", "ota"} /\ slot' \in Slots
        BY <2>1, <2>3, <2>4, WriteTyped
      <3> QED
        BY <1>2, <2>2, <3>1 DEF OtaTypeOK, upload_first
    <2>5. CASE UNCHANGED <<ota, otaFlash, slot>>
      BY <1>2, <2>2, <2>5 DEF OtaTypeOK, upload_first
    <2>6. CASE /\ \/ ota' = [ota EXCEPT !.failc = c]
                  \/ ota' = [Failed(ota) EXCEPT !.failc = c]
               /\ UNCHANGED <<otaFlash, slot>>
      <3>1. ota' \in OtaStates
        BY <2>1, <2>6, ZenonT(30) DEF OtaTypeOK, OtaStates, Failed, States
      <3> QED
        BY <1>2, <2>2, <2>6, <3>1 DEF OtaTypeOK, upload_first
    <2> QED
      BY <1>2, <2>4, <2>5, <2>6 DEF upload_first
  <1>3. ASSUME UNCHANGED site, NEW c \in site.uploaders, NEW len \in 0..1, NEW good \in BOOLEAN,
               NEW final \in BOOLEAN, upload_more(c, len, good, final)
        PROVE  OtaTypeOK'
    <2>1. c \in Uploaders
      BY OtaAssumption DEF OtaTypeOK
    <2>2. uploads' \in [Uploaders -> {"idle", "body", "tail"}]
      BY <1>3 DEF OtaTypeOK, upload_more, DeliverPost
    <2>3. CASE write_locked(ota, c, len, good, final)
      <3>1. ota' \in OtaStates /\ otaFlash' \in {"none", "ota"} /\ slot' \in Slots
        BY <2>1, <2>3, WriteTyped DEF OtaTypeOK
      <3> QED
        BY <1>3, <2>2, <3>1 DEF OtaTypeOK, upload_more
    <2>4. CASE UNCHANGED <<ota, otaFlash, slot>>
      BY <1>3, <2>2, <2>4 DEF OtaTypeOK, upload_more
    <2>5. CASE ota' = [ota EXCEPT !.st = "failed"] /\ otaFlash' = Released /\ UNCHANGED slot
      <3>1. ota' \in OtaStates
        BY <2>5 DEF OtaTypeOK, OtaStates, States
      <3> QED
        BY <1>3, <2>2, <2>5, <3>1 DEF OtaTypeOK, upload_more, Released
    <2> QED
      BY <1>3, <2>3, <2>4, <2>5 DEF upload_more
  <1>4. ASSUME UNCHANGED site, NEW c \in site.uploaders, upload_end(c) PROVE OtaTypeOK'
    <2>1. ota' \in OtaStates
      BY <1>4 DEF OtaTypeOK, upload_end, OtaStates, Failed, States
    <2>2. uploads' \in [Uploaders -> {"idle", "body", "tail"}]
      BY <1>4 DEF OtaTypeOK, upload_end
    <2>3. otaFlash' \in {"none", "ota"} \cup Others
      BY <1>4 DEF OtaTypeOK, upload_end, Released
    <2> QED
      BY <1>4, <2>1, <2>2, <2>3 DEF OtaTypeOK, upload_end
  <1>5. CASE UNCHANGED site /\ handle_status
    BY <1>5, RefreshedTyped DEF OtaTypeOK, handle_status, RefreshedOta
  <1>6. CASE UNCHANGED site /\ handle_test
    <2>1. ota' \in OtaStates
      BY <1>6 DEF OtaTypeOK, handle_test, OtaStates, States
    <2> QED
      BY <1>6, <2>1 DEF OtaTypeOK, handle_test
  <1>7. CASE UNCHANGED site /\ test_request
    <2>1. ota' \in OtaStates /\ slot' \in Slots
      BY <1>7, ZenonT(30) DEF OtaTypeOK, test_request, OtaStates, States, Slots
    <2> QED
      BY <1>7, <2>1, ZenonT(30) DEF OtaTypeOK, test_request, Released
  <1>8. CASE UNCHANGED site /\ test_plan
    BY <1>8, ZenonT(30) DEF OtaTypeOK, test_plan
  <1>9. CASE UNCHANGED site /\ handle_confirm
    BY <1>9 DEF OtaTypeOK, handle_confirm, confirm_enter
  <1>10. ASSUME UNCHANGED site, NEW who, NEW clear \in {"manual_clear", "auto_clear"},
                confirm_write(who, clear)
         PROVE  OtaTypeOK'
    <2>1. slot' \in Slots /\ lastGood' \in Images
      BY <1>10 DEF OtaTypeOK, confirm_write, Slots
    <2> QED
      BY <1>10, <2>1, ZenonT(30) DEF OtaTypeOK, confirm_write, Released
  <1>11. ASSUME UNCHANGED site, NEW clear, confirm_clear(clear) PROVE OtaTypeOK'
    <2>1. ota' \in OtaStates
      BY <1>11 DEF OtaTypeOK, confirm_clear, OtaStates, States
    <2> QED
      BY <1>11, <2>1 DEF OtaTypeOK, confirm_clear, Released
  <1>12. CASE UNCHANGED site /\ auto_check
    BY <1>12, RefreshedTyped, ZenonT(30) DEF OtaTypeOK, auto_check, auto_unmarked, auto_leftover,
       auto_not_pending, auto_again
  <1>13. CASE UNCHANGED site /\ auto_health
    BY <1>13 DEF OtaTypeOK, auto_health
  <1>14. CASE UNCHANGED site /\ auto_gate
    BY <1>14, RefreshedTyped, ZenonT(30) DEF OtaTypeOK, auto_gate, auto_unmarked, auto_leftover,
       auto_not_pending, auto_again, confirm_enter
  <1>15. CASE UNCHANGED site /\ (supervisor \/ fault_injection_arm \/ fault_injection_disarm)
    BY <1>15, ZenonT(30) DEF OtaTypeOK, supervisor, fault_injection_arm, fault_injection_disarm
  <1>16. CASE UNCHANGED site /\ reboot_work_skipped
    <2>1. work' \in [reboot : BOOLEAN, auto : {"off", "scheduled", "health", "gate"}]
      BY <1>16 DEF OtaTypeOK, reboot_work_skipped
    <2> QED
      BY <1>16, <2>1 DEF OtaTypeOK, reboot_work_skipped
  <1>17. CASE UNCHANGED site /\ (reboot_work \/ watchdog_reset)
    <2>1. scratch \in [ota : BOOLEAN, bootsel : BOOLEAN]
      BY DEF OtaTypeOK
    <2> QED
      BY <1>17, <2>1, BootTyped DEF reboot_work, watchdog_reset
  <1>18. CASE UNCHANGED site /\ power_cycle
    <2>1. Unmarked \in [ota : BOOLEAN, bootsel : BOOLEAN]
      BY DEF Unmarked
    <2> QED
      BY <1>18, <2>1, BootTyped DEF power_cycle
  <1>19. CASE UNCHANGED site /\ bootloader_now
    <2>1. wd' \in [armed : BOOLEAN, planned : BOOLEAN, fault : BOOLEAN, confirming : BOOLEAN]
      BY <1>19 DEF OtaTypeOK, bootloader_now
    <2> QED
      BY <1>19, <2>1 DEF OtaTypeOK, bootloader_now, Unmarked
  <1>20. CASE UNCHANGED site /\ other_users
    BY <1>20 DEF OtaTypeOK, other_users
  <1> QED
    BY <1>1, <1>2, <1>3, <1>4, <1>5, <1>6, <1>7, <1>8, <1>9, <1>10, <1>11, <1>12, <1>13,
       <1>14, <1>15, <1>16, <1>17, <1>18, <1>19, <1>20 DEF OtaNext, OtaStep, Uploads

-----------------------------------------------------------------------------
(* The owners and gates.                                                   *)

\* A write fails the upload, goes on with it, or ends it with a whole image
\* in the secondary slot; only going on keeps the flash.
LEMMA WriteOutcome ==
  ASSUME OtaTypeOK, NEW c \in Uploaders, NEW len \in 0..1, NEW good \in BOOLEAN,
         NEW final \in BOOLEAN, NEW o \in OtaStates, write_locked(o, c, len, good, final)
  PROVE  /\ \/ ota'.st = "failed" /\ ota'.upl = NoUploader /\ otaFlash' = "none"
            \/ ~final /\ ota'.st = o.st /\ ota'.upl = o.upl /\ otaFlash' = "ota"
            \/ /\ final /\ ota'.st = "verified" /\ ota'.upl = NoUploader /\ otaFlash' = "none"
               /\ slot'.secondary \in Images
         /\ slot'.primary = slot.primary /\ slot'.confirmed = slot.confirmed
         /\ slot'.test => slot.test
  <1> DEFINE n == o.written + len
             next == [o EXCEPT !.written = n, !.intact = IF good THEN @ ELSE FALSE]
  <1>0. slot_holds(o.img) \/ slot_holds("partial") \/ UNCHANGED slot
    BY DEF write_locked
  <1>1. /\ slot'.primary = slot.primary /\ slot'.confirmed = slot.confirmed
        /\ slot'.test => slot.test
    BY <1>0 DEF slot_holds, OtaTypeOK, Slots
  <1>2. CASE write_fails(o, c)
    BY <1>1, <1>2 DEF write_fails, Failed, OtaStates
  <1>3. CASE ~final /\ ota' = next /\ otaFlash' = "ota"
    BY <1>1, <1>3 DEF OtaStates
  <1>4. CASE final /\ ota' = [next EXCEPT !.st = "verified", !.upl = NoUploader]
             /\ otaFlash' = "none" /\ slot_holds(o.img)
    <2>1. slot'.secondary = o.img
      BY <1>4 DEF slot_holds, OtaTypeOK, Slots
    <2> QED
      BY <1>1, <1>4, <2>1 DEF OtaStates
  <1> QED
    BY <1>2, <1>3, <1>4 DEF write_locked

\* A refresh leaves an upload and a reboot alone, and makes no other state
\* one of them.
LEMMA RefreshedOutcome ==
  ASSUME OtaTypeOK
  PROVE  /\ RefreshedOta.upl = ota.upl
         /\ \A s \in {"uploading", "rebooting", "verified", "failed"} :
              RefreshedOta.st = s => ota.st = s
         /\ \A s \in {"uploading", "rebooting", "verified"} : ota.st = s => RefreshedOta.st = s
  BY DEF OtaTypeOK, OtaStates, RefreshedOta, Refreshed

\* A board that has just started holds no flash and runs no handler.
LEMMA BootGuards ==
  ASSUME NEW timer, NEW marks, Boot(timer, marks)
  PROVE  HandlersAreGuarded' /\ HolderInv'
  <1>1. /\ ota'.st \notin {"uploading", "rebooting", "verified"} /\ ota'.upl = NoUploader
        /\ busy' = "free" /\ otaFlash' = "none"
    BY DEF Boot, Idle, Refreshed
  <1> QED
    BY <1>1 DEF HandlersAreGuarded, FlashHeldWhileNeeded, UploadHasOpenPost, FaultExcludesConfirm,
       HolderInv, Confirming, Testing

\* Every step keeps the owner of the flash, the connection of the upload and
\* the gate between the fault hook and a confirm.
LEMMA GuardStep ==
  ASSUME GuardInv, [OtaNext]_otaVars
  PROVE  HandlersAreGuarded' /\ HolderInv'
  <1> USE DEF GuardInv, HandlersAreGuarded, HolderInv, Confirming, Testing
  <1>1. CASE UNCHANGED otaVars
    BY <1>1 DEF otaVars, FlashHeldWhileNeeded, UploadHasOpenPost, FaultExcludesConfirm
  <1>2. ASSUME NEW c \in Uploaders, NEW len \in 0..1, NEW good \in BOOLEAN,
               NEW final \in BOOLEAN, NEW img \in Images, upload_first(c, img, len, good, final)
        PROVE  HandlersAreGuarded' /\ HolderInv'
    <2>1. busy = "free" /\ busy' = "free" /\ mode = "run" /\ mode' = "run" /\ uploads[c] = "idle"
      BY <1>2 DEF upload_first, Free
    <2>2. \A d \in Uploaders \ {c} : uploads'[d] = uploads[d]
      BY <1>2 DEF upload_first, DeliverPost, OtaTypeOK
    <2>3. CASE Refuses
      <3>1. ota'.st = ota.st /\ ota'.upl = ota.upl /\ otaFlash' = otaFlash
        BY <1>2, <2>3 DEF upload_first, OtaTypeOK, OtaStates
      <3> QED
        BY <2>1, <2>2, <3>1 DEF FlashHeldWhileNeeded, UploadHasOpenPost, FaultExcludesConfirm
    <2>4. CASE ~Refuses /\ ota' = [Failed(ota) EXCEPT !.failc = c] /\ UNCHANGED otaFlash
      <3>1. ota'.st = "failed" /\ ota'.upl = NoUploader /\ otaFlash' = "none"
        BY <2>4 DEF Refuses, Failed, OtaTypeOK, OtaStates
      <3> QED
        BY <2>1, <3>1 DEF FlashHeldWhileNeeded, UploadHasOpenPost, FaultExcludesConfirm
    <2> DEFINE o == [st |-> "uploading", upl |-> c, failc |-> NoUploader, img |-> img,
                     written |-> 0, intact |-> TRUE]
    <2>5. CASE write_locked(o, c, len, good, final) /\ DeliverPost(c, final, FALSE)
      <3>1. o \in OtaStates /\ o.st = "uploading" /\ o.upl = c
        BY OtaAssumption DEF OtaStates, States
      <3> HIDE DEF o
      <3>2. \/ ota'.st = "failed" /\ ota'.upl = NoUploader /\ otaFlash' = "none"
            \/ ~final /\ ota'.st = "uploading" /\ ota'.upl = c /\ otaFlash' = "ota"
            \/ ota'.st = "verified" /\ ota'.upl = NoUploader /\ otaFlash' = "none"
        BY <2>5, <3>1, WriteOutcome
      <3>3. ~final => uploads'[c] = "body"
        BY <2>5 DEF DeliverPost, OtaTypeOK
      <3> QED
        BY <2>1, <3>2, <3>3 DEF FlashHeldWhileNeeded, UploadHasOpenPost, FaultExcludesConfirm
    <2> QED
      BY <1>2, <2>3, <2>4, <2>5 DEF upload_first
  <1>3. ASSUME NEW c \in Uploaders, NEW len \in 0..1, NEW good \in BOOLEAN,
               NEW final \in BOOLEAN, upload_more(c, len, good, final)
        PROVE  HandlersAreGuarded' /\ HolderInv'
    <2>1. busy = "free" /\ busy' = "free" /\ mode = "run" /\ mode' = "run"
      BY <1>3 DEF upload_more, Free
    <2>2. \A d \in Uploaders \ {c} : uploads'[d] = uploads[d]
      BY <1>3 DEF upload_more, DeliverPost, OtaTypeOK
    <2>3. CASE ota.st # "uploading" /\ UNCHANGED <<ota, otaFlash>>
      BY <2>1, <2>3 DEF FlashHeldWhileNeeded, UploadHasOpenPost, FaultExcludesConfirm
    <2>4. CASE ota.st # "uploading" /\ ota' = [ota EXCEPT !.st = "failed"] /\ otaFlash' = Released
      <3>1. ota'.st = "failed" /\ ota'.upl = ota.upl /\ otaFlash' # "ota"
        BY <2>4 DEF OtaTypeOK, OtaStates, Released
      <3> QED
        BY <2>1, <2>4, <3>1 DEF FlashHeldWhileNeeded, UploadHasOpenPost, FaultExcludesConfirm
    <2>5. CASE ota.upl # c /\ UNCHANGED <<ota, otaFlash>>
      BY <2>1, <2>2, <2>5 DEF FlashHeldWhileNeeded, UploadHasOpenPost, FaultExcludesConfirm
    <2>6. CASE ota.st = "uploading" /\ ota.upl = c /\ write_locked(ota, c, len, good, final)
               /\ DeliverPost(c, final, FALSE)
      <3>1. \/ ota'.st = "failed" /\ ota'.upl = NoUploader /\ otaFlash' = "none"
            \/ ~final /\ ota'.st = "uploading" /\ ota'.upl = c /\ otaFlash' = "ota"
            \/ ota'.st = "verified" /\ ota'.upl = NoUploader /\ otaFlash' = "none"
        BY <2>6, WriteOutcome DEF OtaTypeOK
      <3>2. ~final => uploads'[c] = "body"
        BY <2>6 DEF DeliverPost, OtaTypeOK
      <3> QED
        BY <2>1, <3>1, <3>2 DEF FlashHeldWhileNeeded, UploadHasOpenPost, FaultExcludesConfirm
    <2> QED
      BY <1>3, <2>3, <2>4, <2>5, <2>6 DEF upload_more
  <1>4. ASSUME NEW c \in Uploaders, upload_end(c) PROVE HandlersAreGuarded' /\ HolderInv'
    <2>1. busy = "free" /\ busy' = "free" /\ mode = "run" /\ mode' = "run"
      BY <1>4 DEF upload_end, Free
    <2>2. \A d \in Uploaders \ {c} : uploads'[d] = uploads[d]
      BY <1>4 DEF upload_end, OtaTypeOK
    <2>3. CASE ota.st = "uploading" /\ ota.upl = c
      <3>1. ota'.st = "failed" /\ ota'.upl = NoUploader /\ otaFlash' # "ota"
        BY <1>4, <2>3 DEF upload_end, Failed, OtaTypeOK, OtaStates, Released
      <3> QED
        BY <2>1, <3>1 DEF FlashHeldWhileNeeded, UploadHasOpenPost, FaultExcludesConfirm
    <2>4. CASE ~(ota.st = "uploading" /\ ota.upl = c)
      <3>1. ota'.st = ota.st /\ ota'.upl = ota.upl /\ otaFlash' = otaFlash
        BY <1>4, <2>4 DEF upload_end, OtaTypeOK, OtaStates
      <3> QED
        BY <2>1, <2>2, <2>4, <3>1 DEF FlashHeldWhileNeeded, UploadHasOpenPost, FaultExcludesConfirm
    <2> QED
      BY <2>3, <2>4
  <1>5. CASE handle_status
    BY <1>5, RefreshedOutcome DEF handle_status, Free, RefreshedOta, FlashHeldWhileNeeded,
       UploadHasOpenPost, FaultExcludesConfirm
  <1>6. CASE handle_test
    <2>1. ota'.st = "rebooting" /\ ota'.upl = ota.upl
      BY <1>6 DEF handle_test, OtaTypeOK, OtaStates
    <2> QED
      BY <1>6, <2>1 DEF handle_test, Free, FlashHeldWhileNeeded, UploadHasOpenPost, FaultExcludesConfirm
  <1>7. CASE test_request
    <2>1. ota'.upl = ota.upl /\ ota'.st \in {ota.st, "verified"}
      BY <1>7 DEF test_request, OtaTypeOK, OtaStates
    <2>2. \/ ota'.st = "rebooting" /\ busy' = "test_plan" /\ otaFlash' = otaFlash
          \/ ota'.st = "verified" /\ busy' = "free" /\ otaFlash' # "ota"
      BY <1>7 DEF test_request, OtaTypeOK, OtaStates, Released
    <2> QED
      BY <1>7, <2>1, <2>2 DEF test_request, FlashHeldWhileNeeded, UploadHasOpenPost, FaultExcludesConfirm
  <1>8. CASE test_plan
    BY <1>8 DEF test_plan, FlashHeldWhileNeeded, UploadHasOpenPost, FaultExcludesConfirm
  <1>9. CASE handle_confirm
    <2>1. wd'.fault = FALSE /\ wd'.confirming = TRUE
      BY <1>9 DEF handle_confirm, confirm_enter, OtaTypeOK
    <2> QED
      BY <1>9, <2>1 DEF handle_confirm, confirm_enter, Free, FlashHeldWhileNeeded, UploadHasOpenPost, FaultExcludesConfirm
  <1>10. ASSUME NEW who, NEW clear,
                <<who, clear>> \in {<<"manual_write", "manual_clear">>, <<"auto_write", "auto_clear">>},
                confirm_write(who, clear)
         PROVE  HandlersAreGuarded' /\ HolderInv'
    <2>1. who \in {"manual_write", "auto_write"} /\ clear \in {"manual_clear", "auto_clear"}
      BY <1>10
    <2> QED
      BY <1>10, <2>1 DEF confirm_write, Released, FlashHeldWhileNeeded, UploadHasOpenPost, FaultExcludesConfirm
  <1>11. ASSUME NEW clear \in {"manual_clear", "auto_clear"}, confirm_clear(clear)
         PROVE  HandlersAreGuarded' /\ HolderInv'
    <2>1. ota'.st = "idle" /\ ota'.upl = ota.upl
      BY <1>11 DEF confirm_clear, OtaTypeOK, OtaStates
    <2> QED
      BY <1>11, <2>1 DEF confirm_clear, Released, FlashHeldWhileNeeded, UploadHasOpenPost, FaultExcludesConfirm
  <1>12. CASE auto_check
    <2>1. ota' \in {ota, RefreshedOta} /\ UNCHANGED <<mode, uploads, busy, otaFlash, wd>>
      BY <1>12 DEF auto_check, auto_unmarked, auto_leftover, auto_not_pending, auto_again
    <2> QED
      BY <1>12, <2>1, RefreshedOutcome DEF auto_check, Free, FlashHeldWhileNeeded, UploadHasOpenPost, FaultExcludesConfirm
  <1>13. CASE auto_health
    BY <1>13 DEF auto_health, FlashHeldWhileNeeded, UploadHasOpenPost, FaultExcludesConfirm
  <1>14. CASE auto_gate
    <2>1. CASE UNCHANGED <<busy, otaFlash, wd>>
      <3>1. ota' \in {ota, RefreshedOta}
        BY <1>14 DEF auto_gate, auto_unmarked, auto_leftover, auto_not_pending, auto_again
      <3> QED
        BY <1>14, <2>1, <3>1, RefreshedOutcome DEF auto_gate, Free, FlashHeldWhileNeeded, UploadHasOpenPost, FaultExcludesConfirm
    <2>2. CASE ota' = RefreshedOta /\ RefreshedOta.st = "pending_test" /\ confirm_enter("auto_write")
      <3>1. wd'.fault = FALSE /\ wd'.confirming = TRUE
        BY <2>2 DEF confirm_enter, OtaTypeOK
      <3> QED
        BY <1>14, <2>2, <3>1, RefreshedOutcome DEF auto_gate, Free, confirm_enter, FlashHeldWhileNeeded, UploadHasOpenPost, FaultExcludesConfirm
    <2> QED
      BY <1>14, <2>1, <2>2 DEF auto_gate, auto_unmarked, auto_leftover, auto_not_pending, auto_again
  <1>15. CASE supervisor \/ fault_injection_arm \/ fault_injection_disarm
    <2>1. wd'.confirming = wd.confirming
      BY <1>15 DEF supervisor, fault_injection_arm, fault_injection_disarm, OtaTypeOK
    <2>2. wd'.fault => wd.fault \/ ~wd.confirming
      BY <1>15 DEF supervisor, fault_injection_arm, fault_injection_disarm, OtaTypeOK
    <2> QED
      BY <1>15, <2>1, <2>2 DEF supervisor, fault_injection_arm, fault_injection_disarm, FlashHeldWhileNeeded,
         UploadHasOpenPost, FaultExcludesConfirm
  <1>16. CASE reboot_work_skipped
    BY <1>16 DEF reboot_work_skipped, FlashHeldWhileNeeded, UploadHasOpenPost, FaultExcludesConfirm
  <1>17. CASE reboot_work \/ watchdog_reset \/ power_cycle
    BY <1>17, BootGuards DEF reboot_work, watchdog_reset, power_cycle
  <1>18. CASE bootloader_now
    BY <1>18 DEF bootloader_now, FlashHeldWhileNeeded, UploadHasOpenPost, FaultExcludesConfirm, OtaTypeOK
  <1>19. CASE other_users
    <2>1. otaFlash # "ota" /\ otaFlash' # "ota"
      BY <1>19, OtaAssumption DEF other_users
    <2> QED
      BY <1>19, <2>1 DEF other_users, FlashHeldWhileNeeded, UploadHasOpenPost, FaultExcludesConfirm
  <1>20. site.uploaders \subseteq Uploaders /\ site.images \subseteq Images
    BY OtaAssumption DEF OtaTypeOK
  <1> QED
    BY <1>1, <1>2, <1>3, <1>4, <1>5, <1>6, <1>7, <1>8, <1>9, <1>10, <1>11, <1>12, <1>13,
       <1>14, <1>15, <1>16, <1>17, <1>18, <1>19, <1>20 DEF OtaNext, OtaStep, Uploads

-----------------------------------------------------------------------------
(* The slots, and an accepted test, on an undisturbed site.                *)

\* A step that moves neither the slots, the state of the update, the handler
\* nor the requested reboot leaves the slots as they were.
LEMMA SafeFrame ==
  ASSUME Safe, UNCHANGED <<site, slot, lastGood, mode, busy, accepted, uploads>>,
         ota'.st = ota.st, scratch'.ota = scratch.ota, work'.reboot = work.reboot
  PROVE  Safe'
  BY DEF Safe, SlotInv, RequestInv

\* Nothing is marked and then left behind when the state of the update is
\* refreshed: a pending test is one of an unconfirmed image.
LEMMA RefreshedSafe ==
  ASSUME OtaTypeOK, Safe
  PROVE  /\ RefreshedOta.st = ota.st \/ RefreshedOta.st = "idle"
         /\ ~slot.confirmed => RefreshedOta.st = "pending_test"
         /\ ota.st \in {"rebooting", "uploading", "verified"} => RefreshedOta.st = ota.st
  BY DEF OtaTypeOK, OtaStates, Slots, Safe, SlotInv, RefreshedOta, Refreshed

\* MCUboot swaps in the image of a requested test, and swaps back one that
\* was not confirmed.
LEMMA BootSafe ==
  ASSUME OtaTypeOK, Safe, UNCHANGED site, NEW timer \in BOOLEAN, NEW marks, Boot(timer, marks),
         marks = scratch \/ (mode = "bootsel" /\ marks = Unmarked)
  PROVE  Safe'
  <1>1. /\ busy' = "free" /\ accepted' = FALSE
        /\ uploads' = [c \in Uploaders |-> "idle"] /\ slot'.test = FALSE
    BY DEF Boot, mcuboot
  <1>2. ota'.st = Refreshed("idle", marks.ota, slot'.confirmed) /\ slot' = mcuboot
        /\ lastGood' = IF slot'.confirmed THEN slot'.primary ELSE lastGood
    BY DEF Boot, Idle
  <1>3. CASE ~slot.confirmed
    <2>1. slot.secondary = lastGood /\ lastGood \in Images /\ ~slot.test
      BY <1>3 DEF Safe, SlotInv, OtaTypeOK
    <2>2. slot'.confirmed
      BY <1>2, <1>3, <2>1 DEF mcuboot
    <2>3. ota'.st = "idle"
      BY <1>2, <2>2 DEF Refreshed
    <2> QED
      BY <1>1, <1>2, <2>2, <2>3 DEF Safe, SlotInv, RequestInv
  <1>4. CASE slot.confirmed /\ slot.test
    <2>1. marks = scratch /\ scratch.ota /\ slot.secondary \in Images /\ lastGood = slot.primary
      BY <1>4 DEF Safe, SlotInv, RequestInv
    <2>2. slot'.confirmed = FALSE /\ slot'.secondary = lastGood /\ lastGood' = lastGood
      BY <1>2, <1>4, <2>1 DEF mcuboot
    <2>3. ota'.st = "pending_test"
      BY <1>2, <2>1, <2>2 DEF Refreshed
    <2>4. mode' = "run" /\ scratch'.ota
      BY <2>1 DEF Boot, boot_check, OtaTypeOK
    <2> QED
      BY <1>1, <2>2, <2>3, <2>4 DEF Safe, SlotInv, RequestInv
  <1>5. CASE slot.confirmed /\ ~slot.test
    <2>1. slot'.confirmed /\ slot'.primary = slot.primary
      BY <1>2, <1>5 DEF mcuboot
    <2>2. ota'.st = "idle"
      BY <1>2, <2>1 DEF Refreshed
    <2> QED
      BY <1>1, <1>2, <2>1, <2>2 DEF Safe, SlotInv, RequestInv
  <1> QED
    BY <1>3, <1>4, <1>5

\* A fragment that is written goes to a slot that no test needs.
LEMMA WriteSafe ==
  ASSUME OtaTypeOK, Safe, UNCHANGED <<site, mode, busy, scratch, work, lastGood, accepted>>,
         NEW c \in Uploaders, site.uploaders = {c},
         NEW len \in 0..1, NEW good \in BOOLEAN, NEW final \in BOOLEAN,
         NEW o \in OtaStates, o.st = "uploading", write_locked(o, c, len, good, final),
         ota.st \notin {"pending_test", "rebooting"},
         uploads' = [uploads EXCEPT ![c] = IF final THEN "tail" ELSE "body"]
  PROVE  Safe'
  <1>1. /\ \/ ota'.st \in {"failed", "uploading"}
           \/ final /\ ota'.st = "verified" /\ slot'.secondary \in Images
        /\ slot'.primary = slot.primary /\ slot'.confirmed = slot.confirmed
        /\ slot'.test => slot.test
    BY WriteOutcome
  <1>2. slot.confirmed /\ ~slot.test
    BY DEF Safe, SlotInv
  <1>3. /\ \A d \in Uploaders \ {c} : uploads'[d] = uploads[d] /\ uploads[d] = "idle"
        /\ final => uploads'[c] = "tail"
    BY DEF OtaTypeOK, Safe, RequestInv
  <1>4. SlotInv'
    BY <1>1, <1>2 DEF Safe, SlotInv
  <1>5. RequestInv'
    BY <1>1, <1>3 DEF Safe, RequestInv
  <1> QED
    BY <1>4, <1>5 DEF Safe

\* Every step on an undisturbed site keeps what the roll back relies on.
LEMMA SafeStep ==
  ASSUME GuardInv, Safe, Undisturbed, [OtaNext]_otaVars
  PROVE  Safe'
  <1>0. PICK c0 \in Uploaders : site.uploaders = {c0}
    BY DEF Undisturbed
  <1> USE DEF GuardInv
  <1>1. CASE UNCHANGED otaVars
    BY <1>1 DEF otaVars, Safe, SlotInv, RequestInv
  <1> SUFFICES ASSUME OtaStep, UNCHANGED site PROVE Safe'
    BY <1>1 DEF OtaNext
  <1>2. ASSUME NEW c \in {c0}, NEW len \in 0..1, NEW good \in BOOLEAN,
               NEW final \in BOOLEAN, NEW img \in Images, upload_first(c, img, len, good, final)
        PROVE  Safe'
    <2>1. UNCHANGED <<mode, busy, scratch, work, lastGood, accepted>> /\ c \in Uploaders
      BY <1>2 DEF upload_first
    <2> DEFINE o == [st |-> "uploading", upl |-> c, failc |-> NoUploader, img |-> img,
                     written |-> 0, intact |-> TRUE]
    <2>2. CASE ~Refuses /\ write_locked(o, c, len, good, final) /\ DeliverPost(c, final, FALSE)
      <3>1. o \in OtaStates /\ o.st = "uploading"
        BY <2>1, OtaAssumption DEF OtaStates, States
      <3> HIDE DEF o
      <3>2. ota.st \notin {"pending_test", "rebooting"}
        BY <2>2 DEF Refuses
      <3>3. /\ site.uploaders = {c}
            /\ uploads' = [uploads EXCEPT ![c] = IF final THEN "tail" ELSE "body"]
        BY <1>0, <2>2 DEF DeliverPost
      <3> QED
        BY <2>1, <2>2, <3>1, <3>2, <3>3, WriteSafe
    <2>3. CASE ~Refuses /\ ota' = [Failed(ota) EXCEPT !.failc = c] /\ UNCHANGED slot
      <3>1. ota'.st = "failed" /\ slot.confirmed /\ ~slot.test
        BY <2>3 DEF Refuses, Failed, OtaTypeOK, OtaStates, Safe, SlotInv
      <3>2. ~(mode = "run" /\ accepted)
        BY <2>3 DEF Safe, RequestInv, Refuses
      <3>3. \A d \in Uploaders : uploads'[d] # "idle" => uploads[d] # "idle" \/ d = c
        BY <1>2 DEF upload_first, DeliverPost, OtaTypeOK
      <3> QED
        BY <1>0, <2>1, <2>3, <3>1, <3>2, <3>3 DEF Safe, SlotInv, RequestInv
    <2>4. CASE /\ ota'.st = ota.st /\ UNCHANGED slot
               /\ DeliverPost(c, final, TRUE) \/ (ota.st = "failed" /\ DeliverPost(c, final, FALSE))
      <3>1. /\ \A d \in Uploaders : uploads'[d] = "body" => uploads[d] = "body" \/ ota.st = "failed"
            /\ \A d \in Uploaders : uploads'[d] # "idle" => uploads[d] # "idle" \/ d = c
        BY <2>4 DEF DeliverPost, OtaTypeOK, Undisturbed
      <3> QED
        BY <1>0, <2>1, <2>4, <3>1 DEF Safe, SlotInv, RequestInv
    <2>5. CASE Refuses
      <3>1. ota' = [ota EXCEPT !.failc = c] => ota'.st = ota.st
        BY DEF OtaTypeOK, OtaStates
      <3> HIDE DEF o
      <3> QED
        BY <1>2, <2>4, <2>5, <3>1 DEF upload_first
    <2>6. CASE ~Refuses
      BY <1>2, <2>2, <2>3, <2>6 DEF upload_first
    <2> QED
      BY <2>5, <2>6
  <1>3. ASSUME NEW c \in {c0}, NEW len \in 0..1, NEW good \in BOOLEAN,
               NEW final \in BOOLEAN, upload_more(c, len, good, final)
        PROVE  Safe'
    <2>1. UNCHANGED <<mode, busy, scratch, work, lastGood, accepted>> /\ c \in Uploaders
      BY <1>3 DEF upload_more
    <2>2. ota.st \in {"idle", "failed", "uploading"} /\ slot.confirmed /\ ~slot.test
      BY <1>3 DEF upload_more, Safe, RequestInv, SlotInv
    <2>3. CASE ota.st = "uploading" /\ write_locked(ota, c, len, good, final)
               /\ DeliverPost(c, final, FALSE)
      <3>1. /\ site.uploaders = {c} /\ ota \in OtaStates
            /\ uploads' = [uploads EXCEPT ![c] = IF final THEN "tail" ELSE "body"]
        BY <1>0, <2>3 DEF DeliverPost, OtaTypeOK
      <3> QED
        BY <2>1, <2>2, <2>3, <3>1, WriteSafe
    <2>4. CASE ota'.st \in {ota.st, "failed"} /\ UNCHANGED slot
      <3>1. \A d \in Uploaders : uploads'[d] # "idle" => uploads[d] # "idle" \/ d = c
        BY <1>3 DEF upload_more, DeliverPost, OtaTypeOK
      <3>2. ~(mode = "run" /\ accepted)
        BY <2>2 DEF Safe, RequestInv
      <3> QED
        BY <1>0, <2>1, <2>2, <2>4, <3>1, <3>2 DEF Safe, SlotInv, RequestInv
    <2>5. ota' = [ota EXCEPT !.st = "failed"] => ota'.st = "failed"
      BY DEF OtaTypeOK, OtaStates
    <2> QED
      BY <1>3, <2>3, <2>4, <2>5 DEF upload_more
  <1>4. ASSUME NEW c \in {c0}, upload_end(c) PROVE Safe'
    <2>1. UNCHANGED <<mode, busy, slot, scratch, work, lastGood, accepted>>
      BY <1>4 DEF upload_end
    <2>2. ota'.st = ota.st \/ (ota.st = "uploading" /\ ota'.st = "failed")
      BY <1>4 DEF upload_end, Failed, OtaTypeOK, OtaStates
    <2>3. \A d \in Uploaders : uploads'[d] # "idle" => uploads'[d] = uploads[d]
      BY <1>4 DEF upload_end, OtaTypeOK
    <2> QED
      BY <2>1, <2>2, <2>3 DEF Safe, SlotInv, RequestInv
  <1>5. CASE handle_status \/ auto_check
    <2>1. UNCHANGED <<mode, uploads, busy, slot, lastGood, accepted>> /\ Free
          /\ work'.reboot = work.reboot
      BY <1>5 DEF handle_status, auto_check, auto_unmarked, auto_leftover, auto_not_pending,
         auto_again, OtaTypeOK
    <2>2. ota' \in {ota, RefreshedOta}
      BY <1>5 DEF handle_status, RefreshedOta, auto_check, auto_unmarked, auto_leftover,
         auto_not_pending, auto_again
    <2>3. scratch'.ota = scratch.ota \/ (slot.confirmed /\ ota'.st = "idle")
      BY <1>5 DEF handle_status, auto_check, auto_unmarked, auto_leftover, auto_not_pending,
         auto_again, OtaTypeOK
    <2> QED
      BY <2>1, <2>2, <2>3, RefreshedSafe DEF Safe, SlotInv, RequestInv, Free
  <1>6. CASE handle_test
    <2>1. ota'.st = "rebooting" /\ scratch'.ota /\ work'.reboot
      BY <1>6 DEF handle_test, OtaTypeOK, OtaStates
    <2>2. ~accepted /\ slot.confirmed /\ ~slot.test /\ slot.secondary \in Images
      BY <1>6 DEF handle_test, Free, Safe, SlotInv, RequestInv
    <2> QED
      BY <1>6, <2>1, <2>2 DEF handle_test, Safe, SlotInv, RequestInv
  <1>7. CASE test_request
    <2>1. ota.st = "rebooting" /\ slot.confirmed /\ ~slot.test /\ ~accepted /\ slot.secondary \in Images
      BY <1>7 DEF test_request, HolderInv, Testing, Safe, SlotInv, RequestInv
    <2>2. CASE slot' = [slot EXCEPT !.test = TRUE] /\ busy' = "test_plan"
               /\ UNCHANGED <<ota, scratch, work>>
      <3>1. slot'.confirmed /\ slot'.primary = slot.primary /\ slot'.secondary = slot.secondary
        BY <2>1, <2>2 DEF OtaTypeOK, Slots
      <3> QED
        BY <1>7, <2>1, <2>2, <3>1 DEF test_request, Safe, SlotInv, RequestInv
    <2>3. CASE ota' = [ota EXCEPT !.st = "verified"] /\ busy' = "free" /\ UNCHANGED slot
      <3>1. ota'.st = "verified"
        BY <2>3 DEF OtaTypeOK, OtaStates
      <3> QED
        BY <1>7, <2>1, <2>3, <3>1 DEF test_request, Safe, SlotInv, RequestInv
    <2> QED
      BY <1>7, <2>2, <2>3 DEF test_request
  <1>8. CASE test_plan
    <2>1. ota.st = "rebooting" /\ scratch'.ota = scratch.ota
      BY <1>8 DEF test_plan, HolderInv, Testing, OtaTypeOK
    <2> QED
      BY <1>8, <2>1 DEF test_plan, Safe, SlotInv, RequestInv
  <1>9. CASE handle_confirm
    BY <1>9 DEF handle_confirm, Free, confirm_enter, Safe, SlotInv, RequestInv
  <1>10. ASSUME NEW who \in {"manual_write", "auto_write"}, NEW clear,
                clear \in {"manual_clear", "auto_clear"}, confirm_write(who, clear)
         PROVE  Safe'
    <2>1. ~slot.test /\ work'.reboot = work.reboot
      BY <1>10 DEF confirm_write, HolderInv, Confirming, Safe, SlotInv, OtaTypeOK
    <2>2. \/ slot'.confirmed /\ lastGood' = slot'.primary /\ slot'.secondary = slot.secondary
             /\ slot'.test = slot.test
          \/ slot' = slot /\ lastGood' = lastGood /\ busy' = "free"
      BY <1>10 DEF confirm_write, OtaTypeOK, Slots
    <2>3. busy' \in {"free", "manual_clear", "auto_clear"} /\ UNCHANGED <<mode, ota, uploads, scratch, accepted>>
      BY <1>10 DEF confirm_write
    <2> QED
      BY <2>1, <2>2, <2>3 DEF Safe, SlotInv, RequestInv
  <1>11. ASSUME NEW clear \in {"manual_clear", "auto_clear"}, confirm_clear(clear)
         PROVE  Safe'
    <2>1. ota'.st = "idle"
      BY <1>11 DEF confirm_clear, OtaTypeOK, OtaStates
    <2>2. slot.confirmed /\ ~slot.test /\ ~(mode = "run" /\ accepted)
      BY <1>11 DEF confirm_clear, HolderInv, Confirming, Safe, SlotInv, RequestInv
    <2> QED
      BY <1>11, <2>1, <2>2 DEF confirm_clear, Safe, SlotInv, RequestInv
  <1>12. CASE auto_health
    BY <1>12, SafeFrame DEF auto_health, OtaTypeOK
  <1>13. CASE auto_gate
    <2>1. UNCHANGED <<mode, uploads, slot, lastGood, accepted>> /\ Free
          /\ work'.reboot = work.reboot /\ busy' \in {"free", "auto_write"}
      BY <1>13 DEF auto_gate, Free, auto_unmarked, auto_leftover, auto_not_pending, auto_again,
         confirm_enter, OtaTypeOK
    <2>2. ota' \in {ota, RefreshedOta}
      BY <1>13 DEF auto_gate, auto_unmarked, auto_leftover, auto_not_pending, auto_again
    <2>3. scratch'.ota = scratch.ota \/ (slot.confirmed /\ ota'.st = "idle")
      BY <1>13 DEF auto_gate, auto_unmarked, auto_leftover, auto_not_pending, auto_again, OtaTypeOK
    <2> QED
      BY <2>1, <2>2, <2>3, RefreshedSafe DEF Safe, SlotInv, RequestInv, Free
  <1>14. CASE supervisor \/ fault_injection_arm \/ fault_injection_disarm \/ other_users
    <2>1. scratch'.ota = scratch.ota
      BY <1>14 DEF supervisor, fault_injection_arm, fault_injection_disarm, other_users, OtaTypeOK
    <2> QED
      BY <1>14, <2>1, SafeFrame DEF supervisor, fault_injection_arm, fault_injection_disarm, other_users
  <1>15. CASE reboot_work_skipped
    <2>1. ota.st # "rebooting"
      BY <1>15 DEF reboot_work_skipped, Free, HandlersAreGuarded, FlashHeldWhileNeeded
    <2> QED
      BY <1>15, <2>1 DEF reboot_work_skipped, Safe, SlotInv, RequestInv
  <1>16. CASE reboot_work \/ watchdog_reset
    BY <1>16, BootSafe DEF reboot_work, watchdog_reset
  <1>17. CASE power_cycle
    BY <1>17, BootSafe DEF power_cycle, Undisturbed
  <1>18. CASE bootloader_now
    BY <1>18 DEF bootloader_now, Undisturbed
  <1>19. site.images \subseteq Images
    BY OtaAssumption DEF OtaTypeOK
  <1> QED
    BY <1>0, <1>2, <1>3, <1>4, <1>5, <1>6, <1>7, <1>8, <1>9, <1>10, <1>11, <1>12, <1>13,
       <1>14, <1>15, <1>16, <1>17, <1>18, <1>19 DEF OtaStep, Uploads

-----------------------------------------------------------------------------
(* The theorems.                                                           *)

\* The factory image satisfies the inductive invariant ...
LEMMA OtaInvInit == OtaInit => OtaInv
  <1> SUFFICES ASSUME OtaInit PROVE OtaInv
    OBVIOUS
  <1>1. OtaTypeOK
    <2>1. ota \in OtaStates
      BY OtaAssumption DEF OtaInit, OtaStates, States, Idle
    <2>2. slot \in Slots
      BY OtaAssumption DEF OtaInit, Slots
    <2>3. wd \in [armed : BOOLEAN, planned : BOOLEAN, fault : BOOLEAN, confirming : BOOLEAN]
      BY DEF OtaInit, Quiet
    <2> QED
      BY <2>1, <2>2, <2>3, OtaAssumption DEF OtaInit, OtaTypeOK
  <1>2. HandlersAreGuarded /\ HolderInv
    BY DEF OtaInit, Idle, HandlersAreGuarded, FlashHeldWhileNeeded, UploadHasOpenPost,
       FaultExcludesConfirm, HolderInv, Confirming, Testing
  <1>3. Safe
    BY DEF OtaInit, Idle, Safe, SlotInv, RequestInv
  <1> QED
    BY <1>1, <1>2, <1>3 DEF OtaInv, GuardInv

\* ... and every step keeps it.
LEMMA OtaInvStep == OtaInv /\ [OtaNext]_otaVars => OtaInv'
  <1> SUFFICES ASSUME OtaInv, [OtaNext]_otaVars PROVE OtaInv'
    OBVIOUS
  <1>1. GuardInv'
    BY OtaTypeStep, GuardStep DEF OtaInv, GuardInv
  <1>2. site' = site
    BY DEF OtaNext, otaVars
  <1>3. Undisturbed' => Undisturbed
    BY <1>2 DEF Undisturbed
  <1>4. Undisturbed => Safe'
    BY SafeStep DEF OtaInv
  <1> QED
    BY <1>1, <1>3, <1>4 DEF OtaInv

\* Every reachable state satisfies the inductive invariant.
THEOREM OtaInvHolds == OtaSpec => []OtaInv
  BY OtaInvInit, OtaInvStep, PTL DEF OtaSpec

\* The state of the update, the slots, the arbiter and the work items keep
\* their types.
THEOREM OtaTyped == OtaSpec => []OtaTypeOK
  <1>1. OtaInv => OtaTypeOK
    BY DEF OtaInv, GuardInv
  <1> QED
    BY <1>1, OtaInvHolds, PTL

\* Every handler of linkr_debugger_ota.c hands the flash back on every path
\* and never early, an upload ends with its connection, and the fault hook
\* never comes between the entry of a confirm and its end: for any number of
\* connections, any image size, and whatever interrupts the board.
THEOREM HandlersStayGuarded == OtaSpec => []HandlersAreGuarded
  <1>1. OtaInv => HandlersAreGuarded
    BY DEF OtaInv, GuardInv
  <1> QED
    BY <1>1, OtaInvHolds, PTL

\* On an undisturbed site a test request that was answered 202 reboots into
\* a whole image, and the image that last ran confirmed stays in the
\* secondary slot until the one under test is confirmed.
THEOREM RollBackStaysPossible == OtaSpec => []UpdateCanRollBack
  <1>1. ASSUME OtaInv, Undisturbed
        PROVE  AcceptedTestReboots /\ TestedImageIsComplete /\ RollbackImageKept
    <2>1. Safe /\ FlashHeldWhileNeeded
      BY <1>1 DEF OtaInv, GuardInv, HandlersAreGuarded
    <2> QED
      BY <2>1 DEF Safe, SlotInv, RequestInv, FlashHeldWhileNeeded, AcceptedTestReboots,
         TestedImageIsComplete, RollbackImageKept
  <1>2. OtaInv => UpdateCanRollBack
    BY <1>1 DEF UpdateCanRollBack
  <1> QED
    BY <1>2, OtaInvHolds, PTL

\* On an undisturbed site a watchdog reset of an image that was not confirmed
\* ends in the application, with the image that last ran confirmed.
THEOREM WatchdogRollsBack == OtaSpec => UpdateRollsBack
  <1>1. ASSUME OtaInv, Undisturbed, watchdog_reset, ~slot.confirmed
        PROVE  mode' = "run" /\ slot'.primary = lastGood /\ slot'.confirmed
    <2>1. /\ scratch.ota /\ ~slot.test /\ slot.secondary = lastGood /\ lastGood \in Images
      BY <1>1 DEF OtaInv, GuardInv, OtaTypeOK, Safe, SlotInv
    <2>2. slot' = mcuboot /\ mode' = "run"
      BY <1>1, <2>1 DEF watchdog_reset, Boot, boot_check
    <2> QED
      BY <1>1, <2>1, <2>2 DEF mcuboot
  <1>2. OtaInv => (Undisturbed => RollsBack)
    BY <1>1 DEF RollsBack
  <1>3. OtaInv /\ [OtaNext]_otaVars => [Undisturbed => RollsBack]_otaVars
    BY <1>2
  <1> QED
    BY <1>3, OtaInvHolds, PTL DEF UpdateRollsBack, OtaSpec

=============================================================================
