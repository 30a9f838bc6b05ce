----------------------------- MODULE TaskStore -----------------------------
(***************************************************************************)
(* The task store: linkr_debugger_task.c, the mutation owners of           *)
(* linkr_debugger_task_mutation.c, and the two front ends that reach it,   *)
(* the HTTP endpoint of linkr_debugger_task_http.c and the shell commands. *)
(* One document of saved tasks is kept in flash and, with the summaries of *)
(* its tasks, in RAM.                                                      *)
(*                                                                         *)
(* The HTTP server calls every handler from one thread, so a PUT is        *)
(* interleaved with other requests only between its fragments; the shell   *)
(* has a thread of its own.  A step of a thread ends where the other       *)
(* thread, another user of an arbiter or a reset can come in.              *)
(*                                                                         *)
(* A document is the sequence of the units it is made of; a unit knows the *)
(* connection that sent it and its place in the body.                      *)
(***************************************************************************)
EXTENDS Integers, Sequences, FiniteSets

CONSTANTS
  Conns,         \* connections that PUT /api/v1/tasks
  None,          \* no connection
  Limit,         \* LINKR_DEBUGGER_TASK_MAX_BLOB_SIZE, in units
  MaxBody,       \* bound: the units of a body
  CaptureKinds,  \* the other users of the capture arbiter
  FlashKinds,    \* the other users of the flash arbiter
  Drains,        \* the server hands over the body of a PUT already refused
  StoreFaults    \* whether the Settings backend may fail

ASSUME TaskAssumption ==
  /\ None \notin Conns
  /\ Limit \in Nat \ {0}
  /\ MaxBody \in Nat
  /\ {"none", "task"} \cap (CaptureKinds \cup FlashKinds) = {}
  /\ Drains \in BOOLEAN /\ StoreFaults \in BOOLEAN

(* The state:
     up            task_init has run and the HTTP server was started
     flash         what the settings hold under linkr/task/tasks
     ram           task_runtime: the document and the one summarized
     mutex         the thread that holds task_runtime_lock across steps
     capture       the capture arbiter
     flashOwner    the flash arbiter
     upload        task_upload, the buffer up to its length
     post          [Conns -> how far the PUT of the connection is]
     op            [Threads -> the operation under way]
     listed        the summaries a GET has read *)
VARIABLES up, flash, ram, mutex, capture, flashOwner, upload, post, op, listed

taskVars == <<up, flash, ram, mutex, capture, flashOwner, upload, post, op,
              listed>>

Threads == {"http", "shell"}

Units == [conn : Conns \cup {None}, at : 0..MaxBody]
Docs == {d \in Seq(Units) : Len(d) <= Limit}

NoDoc == <<>>
\* Something an older firmware stored and this one does not parse.
Alien == <<[conn |-> None, at |-> 0]>>

\* What task_init makes of the bytes it loads.
Readable(doc) == IF doc = Alien THEN NoDoc ELSE doc

Pcs == {"idle", "flash", "mutate", "commit", "release_flash",
        "release_capture", "visit"}

TaskTypeOK ==
  /\ up \in BOOLEAN
  /\ flash \in Docs
  /\ ram \in [avail : BOOLEAN, blob : Docs, tasks : Docs]
  /\ mutex \in Threads \cup {"none"}
  /\ capture \in CaptureKinds \cup {"none", "task"}
  /\ flashOwner \in FlashKinds \cup {"none", "task"}
  /\ upload \in [client : Conns \cup {None}, buf : Docs]
  /\ post \in [Conns -> [phase : {"idle", "body", "tail"}, at : 0..MaxBody,
                         refused : BOOLEAN]]
  /\ op \in [Threads -> [pc : Pcs, kind : {"store", "clear"}, doc : Docs,
                         ok : BOOLEAN]]
  /\ listed \in Docs

NoOp == [pc |-> "idle", kind |-> "clear", doc |-> NoDoc, ok |-> TRUE]
NoPost == [phase |-> "idle", at |-> 0, refused |-> FALSE]
NoUpload == [client |-> None, buf |-> <<>>]

\* RAM after a reset.
Off == [avail |-> FALSE, blob |-> NoDoc, tasks |-> NoDoc]

TaskInit ==
  /\ flash \in {NoDoc, Alien}
  /\ up = FALSE
  /\ ram = Off
  /\ mutex = "none"
  /\ capture = "none"
  /\ flashOwner = "none"
  /\ upload = NoUpload
  /\ post = [c \in Conns |-> NoPost]
  /\ op = [t \in Threads |-> NoOp]
  /\ listed = NoDoc


Goes(t, p) == op' = [op EXCEPT ![t].pc = p]
Fails(t) == op' = [op EXCEPT ![t].pc = "release_flash", ![t].ok = FALSE]

-----------------------------------------------------------------------------
(* Boot.                                                                   *)

\* Mutant of task_init: the loaded bytes are kept although they do not parse.
task_init_keeps_unparsed ==
  /\ ~up
  /\ mutex = "none"
  /\ up' = TRUE
  /\ ram' = [avail |-> TRUE, blob |-> flash, tasks |-> Readable(flash)]
  /\ UNCHANGED <<flash, mutex, capture, flashOwner, upload, post, op, listed>>

\* linkr_debugger_task_init; main starts the servers after it.  The shell
\* thread may have run before it.
task_init ==
  /\ ~up
  /\ mutex = "none"
  /\ up' = TRUE
  /\ \/ ram' = [avail |-> TRUE, blob |-> Readable(flash),
                tasks |-> Readable(flash)]
     \/ /\ StoreFaults
        /\ ram' = Off
  /\ UNCHANGED <<flash, mutex, capture, flashOwner, upload, post, op, listed>>

-----------------------------------------------------------------------------
(* The owners and the store, for either thread.                            *)

\* Mutant of capture_acquire: a second mutation is let in.
capture_acquire_shared(t, o) ==
  IF capture \in {"none", "task"}
  THEN /\ capture' = "task"
       /\ op' = [op EXCEPT ![t] = o]
  ELSE UNCHANGED <<capture, op>>

\* linkr_debugger_task_mutation_acquire, the capture owner: op[t] becomes o,
\* or nothing is done and the request is answered busy.
capture_acquire(t, o) ==
  IF capture = "none"
  THEN /\ capture' = "task"
       /\ op' = [op EXCEPT ![t] = o]
  ELSE UNCHANGED <<capture, op>>

\* Mutant of flash_acquire: a busy flash leaves the capture owner taken.
flash_acquire_leaks(t) ==
  /\ op[t].pc = "flash"
  /\ IF flashOwner = "none"
     THEN flashOwner' = "task" /\ Goes(t, "mutate")
     ELSE op' = [op EXCEPT ![t] = NoOp] /\ UNCHANGED flashOwner
  /\ upload' = IF op[t].kind = "store" /\ flashOwner # "none" THEN NoUpload
               ELSE upload
  /\ UNCHANGED <<up, flash, ram, mutex, capture, post, listed>>

\* linkr_debugger_task_mutation_acquire, the flash owner: a busy flash gives
\* the capture owner back, and a PUT drops its upload.
flash_acquire(t) ==
  /\ op[t].pc = "flash"
  /\ IF flashOwner = "none"
     THEN /\ flashOwner' = "task"
          /\ Goes(t, "mutate")
          /\ UNCHANGED <<capture, upload>>
     ELSE /\ capture' = "none"
          /\ op' = [op EXCEPT ![t] = NoOp]
          /\ upload' = IF op[t].kind = "store" THEN NoUpload ELSE upload
          /\ UNCHANGED flashOwner
  /\ UNCHANGED <<up, flash, ram, mutex, post, listed>>

\* linkr_debugger_task_tasks_store and tasks_clear, up to the write: nothing
\* is touched when the backend is missing, the document does not parse or
\* the write fails.
mutate(t) ==
  /\ op[t].pc = "mutate"
  /\ mutex = "none"
  /\ \/ /\ ram.avail
        /\ op[t].kind = "store" => op[t].doc # NoDoc
        /\ flash' = op[t].doc
        /\ mutex' = t
        /\ Goes(t, "commit")
     \/ /\ ~ram.avail \/ op[t].kind = "store" \/ StoreFaults
        /\ Fails(t)
        /\ UNCHANGED <<flash, mutex>>
  /\ UNCHANGED <<up, ram, capture, flashOwner, upload, post, listed>>

\* Mutant of commit: the summaries of the previous document stay.
commit_keeps_summaries(t) ==
  /\ op[t].pc = "commit"
  /\ ram' = [ram EXCEPT !.blob = op[t].doc]
  /\ mutex' = "none"
  /\ Goes(t, "release_flash")
  /\ UNCHANGED <<up, flash, capture, flashOwner, upload, post, listed>>

\* tasks_store and tasks_clear after the write: the copy in RAM.
commit(t) ==
  /\ op[t].pc = "commit"
  /\ ram' = [ram EXCEPT !.blob = op[t].doc, !.tasks = op[t].doc]
  /\ mutex' = "none"
  /\ Goes(t, "release_flash")
  /\ UNCHANGED <<up, flash, capture, flashOwner, upload, post, listed>>

\* linkr_debugger_task_mutation_release, after the upload of a PUT is reset.
release_flash(t) ==
  /\ op[t].pc = "release_flash"
  /\ flashOwner' = "none"
  /\ upload' = IF op[t].kind = "store" THEN NoUpload ELSE upload
  /\ Goes(t, "release_capture")
  /\ UNCHANGED <<up, flash, ram, mutex, capture, post, listed>>

\* ... and the request is answered.
release_capture(t) ==
  /\ op[t].pc = "release_capture"
  /\ capture' = "none"
  /\ op' = [op EXCEPT ![t] = NoOp]
  /\ UNCHANGED <<up, flash, ram, mutex, flashOwner, upload, post, listed>>

Mutation(t) == flash_acquire(t) \/ mutate(t) \/ commit(t)
               \/ release_flash(t) \/ release_capture(t)

-----------------------------------------------------------------------------
(* The HTTP endpoint.                                                      *)

HttpFree == up /\ op["http"].pc = "idle"

\* The PUT of c after len more units.  A refusal before the end of the body
\* is an answer: what follows it is delivered only by a draining server.
DeliverPut(c, len, final, refused) ==
  post' = [post EXCEPT ![c] =
             [phase   |-> IF final \/ (refused /\ ~Drains) THEN "tail"
                          ELSE "body",
              at      |-> @.at + len,
              refused |-> @.refused \/ refused]]

Sent(c, len) == [i \in 1..len |-> [conn |-> c, at |-> post[c].at + i]]

\* The fragment still fits the buffer.
Fits(buf) == Len(buf) <= Limit

\* A fragment of another connection's PUT while an upload is under way: 409.
put_busy(c, len, final) ==
  /\ upload.client \notin {None, c}
  /\ DeliverPut(c, len, final, ~final)
  /\ UNCHANGED <<upload, capture, op>>

\* task_http_handle_tasks_put, a fragment of len units that may be the last.
\* The first of an upload takes the buffer; one that does not fit is
\* answered 413 and drops it; the last one leads to the store, unless the
\* body is empty, its JSON string is bad or the capture is taken.
handle_tasks_put(c, len, final) ==
  LET buf == IF upload.client = None THEN <<>> ELSE upload.buf
      all == buf \o Sent(c, len)
  IN \/ put_busy(c, len, final)
     \/ /\ upload.client \in {None, c}
        /\ ~Fits(all)
        /\ upload' = NoUpload
        /\ DeliverPut(c, len, final, ~final)
        /\ UNCHANGED <<capture, op>>
     \/ /\ upload.client \in {None, c}
        /\ Fits(all) /\ ~final
        /\ upload' = [client |-> c, buf |-> all]
        /\ DeliverPut(c, len, final, FALSE)
        /\ UNCHANGED <<capture, op>>
     \/ /\ upload.client \in {None, c}
        /\ Fits(all) /\ final
        /\ DeliverPut(c, len, final, FALSE)
        /\ \/ upload' = NoUpload /\ UNCHANGED <<capture, op>>
           \/ /\ all # <<>>
              /\ capture_acquire("http", [pc |-> "flash", kind |-> "store",
                                          doc |-> all, ok |-> TRUE])
              /\ upload' = IF capture = "none"
                           THEN [client |-> c, buf |-> all] ELSE NoUpload

tasks_put(c) ==
  /\ HttpFree
  /\ post[c].phase # "tail"
  /\ \E len \in 0..Limit, final \in BOOLEAN :
       /\ post[c].at + len <= MaxBody
       /\ len > 0 \/ final
       /\ handle_tasks_put(c, len, final)
  /\ UNCHANGED <<up, flash, ram, mutex, flashOwner, listed>>

\* Mutant of put_end: the upload of a closed connection stays.
put_end_keeps(c) ==
  /\ HttpFree
  /\ post[c].phase # "idle"
  /\ post' = [post EXCEPT ![c] = NoPost]
  /\ UNCHANGED <<up, flash, ram, mutex, capture, flashOwner, upload, op, listed>>

\* task_http_handle_tasks_put, transaction aborted or complete: only the
\* connection the upload belongs to resets it.
put_end(c) ==
  /\ HttpFree
  /\ post[c].phase # "idle"
  /\ post' = [post EXCEPT ![c] = NoPost]
  /\ upload' = IF upload.client = c THEN NoUpload ELSE upload
  /\ UNCHANGED <<up, flash, ram, mutex, capture, flashOwner, op, listed>>

\* task_http_handle_get, linkr_debugger_task_status_get: the summaries.
get_status ==
  /\ HttpFree
  /\ mutex = "none"
  /\ listed' = ram.tasks
  /\ Goes("http", "visit")
  /\ UNCHANGED <<up, flash, ram, mutex, capture, flashOwner, upload, post>>

\* task_http_handle_get, linkr_debugger_task_blob_visit: the document is
\* encoded under the lock, next to the summaries read before.
get_visit ==
  /\ op["http"].pc = "visit"
  /\ mutex = "none"
  /\ op' = [op EXCEPT !["http"] = NoOp]
  /\ listed' = NoDoc
  /\ UNCHANGED <<up, flash, ram, mutex, capture, flashOwner, upload, post>>

\* task_http_handle_tasks_delete, and the shell's linkr_debugger_task_shell_clear.
clear_request(t) ==
  /\ op[t].pc = "idle"
  /\ t = "http" => up
  /\ capture_acquire(t, [pc |-> "flash", kind |-> "clear", doc |-> NoDoc,
                         ok |-> TRUE])
  /\ UNCHANGED <<up, flash, ram, mutex, flashOwner, upload, post, listed>>

-----------------------------------------------------------------------------
(* The other users of the arbiters, and resets.                            *)

others ==
  /\ \/ /\ capture = "none" /\ capture' \in CaptureKinds
        /\ UNCHANGED flashOwner
     \/ /\ capture \in CaptureKinds /\ capture' = "none"
        /\ UNCHANGED flashOwner
     \/ /\ flashOwner = "none" /\ flashOwner' \in FlashKinds
        /\ UNCHANGED capture
     \/ /\ flashOwner \in FlashKinds /\ flashOwner' = "none"
        /\ UNCHANGED capture
  /\ UNCHANGED <<up, flash, ram, mutex, upload, post, op, listed>>

\* A reset by the watchdog, a command or the power switch.
reset ==
  /\ up' = FALSE
  /\ ram' = Off
  /\ mutex' = "none"
  /\ capture' = "none"
  /\ flashOwner' = "none"
  /\ upload' = NoUpload
  /\ post' = [c \in Conns |-> NoPost]
  /\ op' = [t \in Threads |-> NoOp]
  /\ listed' = NoDoc
  /\ UNCHANGED flash

TaskNext ==
  \/ task_init
  \/ \E t \in Threads : clear_request(t) \/ Mutation(t)
  \/ \E c \in Conns : tasks_put(c) \/ put_end(c)
  \/ get_status
  \/ get_visit
  \/ others
  \/ reset

TaskSpec == TaskInit /\ [][TaskNext]_taskVars

-----------------------------------------------------------------------------
(* Properties.                                                             *)

Holding(t) == op[t].pc \in {"flash", "mutate", "commit", "release_flash",
                            "release_capture"}

\* The task owner of the capture arbiter is held exactly while one thread is
\* in a mutation, and that of the flash arbiter from its second acquisition
\* to its first release: a busy flash or a failed write leaks neither, and
\* two mutations never overlap (task_mutation.c).
OwnersFollowMutation ==
  /\ \A t, u \in Threads : Holding(t) /\ Holding(u) => t = u
  /\ capture = "task" <=> \E t \in Threads : Holding(t)
  /\ flashOwner = "task" <=>
       \E t \in Threads : op[t].pc \in {"mutate", "commit", "release_flash"}

\* Whenever the lock is free the document in RAM is the one a reboot would
\* load, and the summaries are of that document: a failed write or a clear
\* never leaves one of the three behind (task.c).
RamIsFlash ==
  up /\ ram.avail /\ mutex = "none" =>
    ram.blob = Readable(flash) /\ ram.tasks = ram.blob

\* A request answered with success finds its document stored when it is
\* answered: no other thread's mutation slips in before the answer.
AnswerIsStored ==
  \A t \in Threads :
    op[t].pc \in {"release_flash", "release_capture"} /\ op[t].ok =>
      flash = op[t].doc

\* A GET never answers the summaries of one document with the text of
\* another: between its two reads the document can only have been cleared.
ListNeverMixes ==
  op["http"].pc = "visit" /\ mutex = "none" => ram.blob \in {listed, NoDoc}

\* A document that reaches flash is one stretch of the body of one PUT and
\* runs to the end of that body; it starts at the beginning unless the same
\* PUT was answered 409 or 413 before, in which case the fragments after the
\* answer were taken for a new upload (task_http.c).
StoredIsOneBody ==
  [][flash' \notin {flash, NoDoc} =>
       \E c \in Conns : \E from \in 0..MaxBody :
         /\ flash' = [i \in 1..Len(flash') |-> [conn |-> c, at |-> from + i]]
         /\ from + Len(flash') = post[c].at
         /\ from = 0 \/ post[c].refused]_taskVars
=============================================================================
