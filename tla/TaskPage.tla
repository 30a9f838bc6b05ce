------------------------------ MODULE TaskPage ------------------------------
(***************************************************************************)
(* The task card (TaskCard.tsx, useTaskRun.ts) with what it runs: tasks of *)
(* the firmware's catalog and tasks stored as a blob of request lines,     *)
(* which the card builds from the script of the editor (taskRequests.ts)   *)
(* and reads back (taskBlob.ts).  A run resolves its requests, has them    *)
(* confirmed, sends them one after the other and, when it fails or is      *)
(* cancelled, sends a cleanup.  The card may be left at any time; what it  *)
(* started goes on behind it until it notices.                             *)
(*                                                                         *)
(* A run that is over keeps its record, for the properties.                *)
(***************************************************************************)
EXTENDS Integers, Sequences, FiniteSets, SequencesExt

CONSTANTS
  Catalogs,     \* bound: what GET /tasks/catalog may carry, well-formed or not
  TaskPlans,    \* bound: the execution plans of the editor's script
  NewIds,       \* bound: the ids typed into the card
  OtherBlobs,   \* bound: the blobs another client stores
  BuiltinIds,   \* the ids of the namespace builtin/
  BadIds,       \* the ids that are too long or hold a separator
  MaxWait,      \* TASK_MAX_WAIT_MS
  MaxRequests,  \* TASK_MAX_REQUESTS
  MaxStored,    \* TASK_MAX_TASKS
  MaxJobs,      \* bound: the runs that are started
  MaxMounts,    \* bound: how often the card is opened
  MaxChanges    \* bound: the writes of the blob

ASSUME TaskPageAssumption == MaxJobs \in Nat

Jobs == 1..MaxJobs

-----------------------------------------------------------------------------
(* A request: what it does (item), the time it waits behind, and what makes *)
(* it acceptable: its path is "control", "long" or "other", its body is     *)
(* "json", "deep", "long" or "other".                                       *)
Request(item, wait) ==
  [item |-> item, wait |-> wait, path |-> "control", method |-> "PUT", body |-> "json",
   keys |-> <<"method", "path", "body", "wait_ms">>]
RequestKeys == {"method", "path", "body", "wait_ms"}

EnvelopeValid(keys) ==
  /\ Len(keys) \in 3..4 /\ IsInjective(keys)
  /\ RequestKeys \ {"wait_ms"} \subseteq Range(keys) /\ Range(keys) \subseteq RequestKeys

RequestValid(req) ==
  /\ EnvelopeValid(req.keys) /\ req.method = "PUT"
  /\ req.path = "control" /\ req.body = "json" /\ req.wait \in 0..MaxWait

(* A line of the blob: one of those of the format, or too long; its request *)
(* is a sequence of one, or none when it is not JSON.                       *)
Line(kind) == [kind |-> kind, id |-> "none", req |-> <<>>]

(* A delay becomes the wait of the request before it.                       *)
BuildRequests(plan) ==
  LET refused == [ok |-> FALSE, reqs |-> <<>>]
      Adds(built, step) ==
        IF ~built.ok \/ step.op = "unsupported" THEN refused
        ELSE IF step.op # "delay" THEN [built EXCEPT !.reqs = Append(@, Request(step.op, 0))]
        ELSE IF built.reqs = <<>> \/ Last(built.reqs).wait + step.ms > MaxWait THEN refused
        ELSE [built EXCEPT !.reqs[Len(built.reqs)].wait = @ + step.ms]
      built == FoldLeft(Adds, [ok |-> TRUE, reqs |-> <<>>], plan)
  IN IF Len(built.reqs) > MaxRequests THEN refused ELSE built

BuildBlob(id, reqs) ==
  <<Line("marker"), [Line("task") EXCEPT !.id = id]>>
    \o [i \in DOMAIN reqs |-> [Line("request") EXCEPT !.req = <<reqs[i]>>]]

ParseRequest(line) == SelectSeq(line.req, RequestValid)

ParseLine(parsed, line) ==
  LET tasks == parsed.tasks
      n == Len(tasks)
  IN IF ~parsed.ok \/ line.kind = "blank" THEN parsed
     ELSE IF line.kind = "long" THEN [parsed EXCEPT !.ok = FALSE]
     ELSE IF ~parsed.marker
     THEN [parsed EXCEPT !.marker = line.kind = "marker", !.ok = line.kind = "marker"]
     ELSE CASE line.kind = "task" ->
            IF line.id \in BadIds \/ n >= MaxStored
                 \/ \E i \in 1..n : tasks[i].id = line.id
            THEN [parsed EXCEPT !.ok = FALSE]
            ELSE [parsed EXCEPT !.tasks = Append(@, [id |-> line.id, reqs |-> <<>>])]
       [] line.kind = "request" ->
            IF n = 0 \/ ParseRequest(line) = <<>> THEN [parsed EXCEPT !.ok = FALSE]
            ELSE IF Len(tasks[n].reqs) >= MaxRequests THEN [parsed EXCEPT !.ok = FALSE]
            ELSE [parsed EXCEPT !.tasks[n].reqs = @ \o ParseRequest(line)]
       [] OTHER -> parsed

ParseBlob(blob) ==
  LET parsed == FoldLeft(ParseLine, [ok |-> TRUE, marker |-> FALSE, tasks |-> <<>>], blob)
  IN IF parsed.ok /\ (parsed.marker \/ blob = <<>>)
     THEN [ok |-> TRUE, tasks |-> parsed.tasks] ELSE [ok |-> FALSE, tasks |-> <<>>]

Ids(tasks) == {tasks[i].id : i \in DOMAIN tasks}
Find(tasks, id) == SelectSeq(tasks, LAMBDA task : task.id = id)[1]

(* The list of the tasks: the headers of the blob, if it is one the card    *)
(* takes.                                                                   *)
ParseList(blob, old) ==
  LET ids == [i \in DOMAIN SelectSeq(blob, LAMBDA line : line.kind = "task") |->
                SelectSeq(blob, LAMBDA line : line.kind = "task")[i].id]
  IN IF Len(ids) <= MaxStored /\ IsInjective(ids) /\ Range(ids) \cap BadIds = {}
     THEN ids ELSE old

(* The catalog is taken as a whole or not at all.                           *)
ParseCatalog(catalog) ==
  IF /\ catalog # <<>> /\ Cardinality(Ids(catalog)) = Len(catalog)
     /\ Ids(catalog) \cap BadIds = {}
     /\ \A i \in DOMAIN catalog :
          catalog[i].reqs # <<>> /\ catalog[i].cleanup # <<>>
            /\ Len(catalog[i].reqs) <= MaxRequests
            /\ \A req \in Range(catalog[i].reqs \o catalog[i].cleanup) : RequestValid(req)
  THEN catalog ELSE <<>>

-----------------------------------------------------------------------------
(* The state:
     card  the mount of TaskCard and its hooks: which one, whether it is
           there, busy, runningRef, the lists it shows, the refresh and the
           action of runBusy under way
     jobs  the runs: the await each is at, its snapshot, the request it is
           at, what it attempted and was answered, what it sent
     fw    the blob the firmware stores, the plan it was built from if the
           card stored it, the automation lock *)
VARIABLES card, jobs, fw

taskPageVars == <<card, jobs, fw>>

CardOpened(mount) ==
  [mount |-> mount, mounted |-> TRUE, busy |-> FALSE, running |-> 0, tasks |-> <<>>,
   catalog |-> <<>>, refresh |-> TRUE, work |-> "none", put |-> <<>>, plan |-> <<>>]
NoRunYet ==
  [pc |-> "new", mount |-> 0, id |-> "none", source |-> "none", reqs |-> <<>>,
   cleanup |-> <<>>, plan |-> <<>>, at |-> 0, attempted |-> 0, done |-> 0,
   held |-> FALSE, aborted |-> FALSE, ended |-> "none", sent |-> <<>>]

TaskPageInit ==
  /\ card = CardOpened(1)
  /\ jobs = [j \in Jobs |-> NoRunYet]
  /\ fw = [blob |-> <<>>, plan |-> <<>>, owner |-> "none", changes |-> 0]

Dispatching(job) == job.pc \in {"dispatch", "wait", "cleanup"}

(* mergeTaskCatalog: what the card offers.                                  *)
Offered ==
  Ids(card.catalog)
    \cup ({card.tasks[i] : i \in DOMAIN card.tasks} \ BuiltinIds)

-----------------------------------------------------------------------------
(* The run, as operators on its record.                                     *)

\* Mutant of JobEnds: the cleanup is only for a run that completed a request.
JobEndsUncleaned(job, kind) ==
  IF kind # "success" /\ job.cleanup # <<>> /\ job.done > 0
  THEN [job EXCEPT !.pc = "cleanup", !.ended = kind, !.sent = @ \o job.cleanup]
  ELSE [job EXCEPT !.pc = "over", !.ended = kind]

(* executeTaskRun behind runTaskRequests.                                   *)
JobEnds(job, kind) ==
  IF kind # "success" /\ job.cleanup # <<>> /\ job.attempted > 0
  THEN [job EXCEPT !.pc = "cleanup", !.ended = kind, !.sent = @ \o job.cleanup]
  ELSE [job EXCEPT !.pc = "over", !.ended = kind]

(* The head of the loop over the requests.                                  *)
JobSends(job, i) ==
  IF i > Len(job.reqs) THEN JobEnds(job, "success")
  ELSE IF job.aborted THEN JobEnds(job, "cancelled")
  ELSE [job EXCEPT !.pc = "dispatch", !.at = i, !.attempted = i,
                   !.sent = Append(@, job.reqs[i])]

JobAnswered(job) ==
  LET ok == [job EXCEPT !.done = job.at]
  IN IF job.reqs[job.at].wait = 0 THEN JobSends(ok, job.at + 1)
     ELSE IF job.aborted THEN JobEnds(ok, "cancelled")
     ELSE [ok EXCEPT !.pc = "wait"]

JobRejected(job) == JobEnds(job, IF job.aborted THEN "cancelled" ELSE "failed")

(* controller.abort: a wait ends at once, a request is rejected.            *)
AbortJob(job) ==
  LET aborted == [job EXCEPT !.aborted = TRUE]
  IN IF job.pc = "wait" THEN JobEnds(aborted, "cancelled") ELSE aborted

(* The finally of runTask.                                                  *)
Settle(j, job, page) ==
  /\ jobs' = [jobs EXCEPT ![j] = job]
  /\ IF job.pc # "over" THEN card' = page /\ UNCHANGED fw
     ELSE /\ fw' = [fw EXCEPT !.owner = IF job.held THEN "none" ELSE @]
          /\ card' = IF page.mounted /\ job.mount = page.mount
                     THEN [page EXCEPT !.busy = FALSE, !.running = 0]
                     ELSE page

(* The snapshot is there: confirm, acquire, and the first request.  Any     *)
(* other task of the page may have the lock.                                *)
Confirm(j, job, page) ==
  \/ Settle(j, [job EXCEPT !.pc = "over", !.ended = "refused"], page)
  \/ Settle(j, [job EXCEPT !.pc = "over", !.ended = "locked"], page)
  \/ /\ fw.owner = "none"
     /\ LET held == JobSends([job EXCEPT !.held = TRUE], 1)
        IN IF held.pc = "over" THEN Settle(j, held, page)
           ELSE /\ jobs' = [jobs EXCEPT ![j] = held]
                /\ card' = page /\ fw' = [fw EXCEPT !.owner = "task"]

-----------------------------------------------------------------------------
(* The card.                                                                *)

RunClicked(j, id) ==
  LET job == [NoRunYet EXCEPT !.mount = card.mount, !.id = id]
      page == [card EXCEPT !.busy = TRUE, !.running = j]
  IN /\ card.mounted /\ ~card.busy /\ card.running = 0 /\ id \in Offered
     /\ jobs[j].pc = "new" /\ \A k \in 1..(j - 1) : jobs[k].pc # "new"
     /\ IF id \in Ids(card.catalog)
        THEN LET task == Find(card.catalog, id)
             IN Confirm(j, [job EXCEPT !.source = "builtin", !.reqs = task.reqs,
                                       !.cleanup = task.cleanup], page)
        ELSE IF id \in BuiltinIds
        THEN Settle(j, [job EXCEPT !.pc = "over", !.ended = "unavailable"], page)
        ELSE /\ jobs' = [jobs EXCEPT ![j] = [job EXCEPT !.pc = "fetch"]]
             /\ card' = page /\ UNCHANGED fw

(* getTasks of resolveTaskRunSnapshot answers, or fails.                    *)
Resolved(j) ==
  LET job == jobs[j]
      parsed == ParseBlob(fw.blob)
  IN /\ job.pc = "fetch"
     /\ \/ Settle(j, [job EXCEPT !.pc = "over", !.ended = "unresolved"], card)
        \/ /\ ~job.aborted /\ parsed.ok /\ job.id \in Ids(parsed.tasks)
           /\ Confirm(j, [job EXCEPT !.source = "stored", !.plan = fw.plan,
                                     !.reqs = Find(parsed.tasks, job.id).reqs],
                      [card EXCEPT !.tasks = ParseList(fw.blob, @)])

DispatchEnds(j) ==
  /\ jobs[j].pc = "dispatch"
  /\ Settle(j, JobAnswered(jobs[j]), card) \/ Settle(j, JobRejected(jobs[j]), card)

WaitIsOver(j) ==
  /\ jobs[j].pc = "wait"
  /\ Settle(j, JobSends(jobs[j], jobs[j].at + 1), card)

(* JobAnswered, failed or aborted after CLEANUP_TIMEOUT_MS.                    *)
CleanupEnds(j) ==
  /\ jobs[j].pc = "cleanup"
  /\ Settle(j, [jobs[j] EXCEPT !.pc = "over"], card)

CancelTask ==
  LET j == card.running
  IN /\ card.mounted /\ j # 0
     /\ Dispatching(jobs[j]) /\ ~jobs[j].aborted /\ jobs[j].id \in Offered
     /\ Settle(j, AbortJob(jobs[j]), card)

Leave ==
  LET j == card.running
      gone == [CardOpened(card.mount) EXCEPT !.mounted = FALSE, !.refresh = FALSE]
  IN /\ card.mounted /\ card.mount < MaxMounts
     /\ IF j = 0 THEN card' = gone /\ UNCHANGED <<jobs, fw>>
        ELSE Settle(j, AbortJob(jobs[j]), gone)

OpenCard == ~card.mounted /\ card' = CardOpened(card.mount + 1) /\ UNCHANGED <<jobs, fw>>

RefreshClicked ==
  /\ card.mounted /\ ~card.busy /\ ~card.refresh
  /\ card' = [card EXCEPT !.refresh = TRUE] /\ UNCHANGED <<jobs, fw>>

(* The two answers of refresh, of which either may be missing: without a    *)
(* good catalog there is none, without a list the old one stays.            *)
Refreshed(page) ==
  \E catalog \in Catalogs \cup {<<>>}, tasks \in {page.tasks, ParseList(fw.blob, page.tasks)} :
    card' = [page EXCEPT !.catalog = ParseCatalog(catalog), !.tasks = tasks]

RefreshAnswered ==
  /\ card.mounted /\ card.refresh
  /\ Refreshed([card EXCEPT !.refresh = FALSE])
  /\ UNCHANGED <<jobs, fw>>

(* Store and clear: the action of runBusy, then its refresh.                *)
Works(blob, plan) ==
  /\ card.mounted /\ ~card.busy
  /\ card' = [card EXCEPT !.busy = TRUE, !.work = "send", !.put = blob, !.plan = plan]
  /\ UNCHANGED <<jobs, fw>>

StoreClicked ==
  \E plan \in TaskPlans, id \in NewIds :
    LET built == BuildRequests(plan)
    IN built.ok /\ Works(BuildBlob(id, built.reqs), plan)

ClearClicked == card.tasks # <<>> /\ Works(<<>>, <<>>)

(* An answer may be lost.                                                   *)
Store(blob, plan) ==
  fw' = [fw EXCEPT !.blob = blob, !.plan = plan, !.changes = @ + 1]

(* The finally of runBusy.                                                  *)
Idle == [card EXCEPT !.work = "none", !.busy = FALSE, !.put = <<>>, !.plan = <<>>]

WorkAnswered ==
  /\ card.mounted /\ card.work = "send" /\ UNCHANGED jobs
  /\ \/ /\ ParseBlob(card.put).ok /\ fw.changes < MaxChanges
        /\ Store(card.put, card.plan)
        /\ card' \in {[card EXCEPT !.work = "refresh", !.put = <<>>, !.plan = <<>>], Idle}
     \/ card' = Idle /\ UNCHANGED fw

WorkRefreshed ==
  /\ card.mounted /\ card.work = "refresh"
  /\ Refreshed(Idle)
  /\ UNCHANGED <<jobs, fw>>

(* Another client stores a blob, of whatever format its firmware has.       *)
OtherStores ==
  /\ fw.changes < MaxChanges
  /\ \E blob \in OtherBlobs : Store(blob, <<>>)
  /\ UNCHANGED <<card, jobs>>

JobStep(j) == Resolved(j) \/ DispatchEnds(j) \/ WaitIsOver(j) \/ CleanupEnds(j)

TaskPageNext ==
  \/ \E j \in Jobs : JobStep(j) \/ \E id \in Offered : RunClicked(j, id)
  \/ CancelTask \/ Leave \/ OpenCard \/ RefreshClicked \/ RefreshAnswered
  \/ StoreClicked \/ ClearClicked \/ WorkAnswered \/ WorkRefreshed
  \/ OtherStores

(* A run goes on: its requests are answered or fail, its waits and the      *)
(* timeout of its cleanup are timers.                                       *)
TaskPageFairSpec ==
  TaskPageInit /\ [][TaskPageNext]_taskPageVars
    /\ WF_taskPageVars(\E j \in Jobs : JobStep(j))

-----------------------------------------------------------------------------
\* What a run sends is what was confirmed, in order and from the first; behind
\* it goes its cleanup, once, if it failed or was cancelled after anything was
\* attempted (runTaskRequests, executeTaskRun); all of it requests of control.
SendsAsConfirmed ==
  \A j \in Jobs :
    LET job == jobs[j]
        cleaned == /\ job.ended \in {"failed", "cancelled"} /\ job.attempted > 0
                   /\ job.cleanup # <<>>
    IN /\ job.sent = SubSeq(job.reqs, 1, job.attempted)
                       \o IF cleaned THEN job.cleanup ELSE <<>>
       /\ \A req \in Range(job.sent) : RequestValid(req)
       /\ job.ended = "success" => job.done = Len(job.reqs)
       /\ job.ended # "success" => job.done <= job.attempted

\* No two runs send at the same time, also when the card was left and opened
\* again behind one that still cleans up: each holds the automation lock.
RunsAreExclusive ==
  /\ \A j, k \in Jobs : Dispatching(jobs[j]) /\ Dispatching(jobs[k]) => j = k
  /\ (\E j \in Jobs : Dispatching(jobs[j])) <=> fw.owner = "task"

\* A task of the namespace builtin/ is the firmware's own: a stored blob can
\* never take its place, and what is stored never has a cleanup.
RecipesAreFirmwares ==
  \A j \in Jobs :
    LET job == jobs[j]
    IN /\ job.source = "stored" => job.id \notin BuiltinIds /\ job.cleanup = <<>>
       /\ job.source = "builtin" =>
            \E catalog \in Catalogs : /\ ParseCatalog(catalog) # <<>>
                                      /\ job.id \in Ids(catalog)
                                      /\ job.reqs = Find(catalog, job.id).reqs

\* A stored script runs its commands in their order, each as long after the
\* first as its delays say (buildTaskRequests, parseTaskBlob).
RunsItsScript ==
  \A j \in Jobs : jobs[j].plan # <<>> =>
    LET plan == jobs[j].plan
        reqs == jobs[j].reqs
        at == SetToSortSeq({i \in DOMAIN plan : plan[i].op # "delay"}, LAMBDA a, b : a < b)
        delay(n) == FoldLeft(LAMBDA sum, i : sum + plan[i].ms, 0, [i \in 1..n |-> i])
        waits(n) == FoldLeft(LAMBDA sum, i : sum + reqs[i].wait, 0, [i \in 1..n |-> i])
    IN /\ Len(reqs) = Len(at) /\ waits(Len(reqs)) = delay(Len(plan))
       /\ \A i \in DOMAIN at : /\ reqs[i].item = plan[at[i]].op
                               /\ waits(i - 1) = delay(at[i] - 1)

\* The card that is not busy has nothing under way, and its run is its own.
BusyWhileWorking ==
  card.mounted =>
    /\ card.busy <=> card.running # 0 \/ card.work # "none"
    /\ \A j \in Jobs : jobs[j].mount = card.mount /\ jobs[j].pc # "over"
                         <=> j = card.running

\* What holds of the tasks, on whichever mount of the card.
TasksAreSound ==
  /\ SendsAsConfirmed
  /\ RunsAreExclusive
  /\ RecipesAreFirmwares
  /\ RunsItsScript
  /\ BusyWhileWorking
=============================================================================
