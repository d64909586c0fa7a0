------------------------------ MODULE WorkerPool ------------------------------
(***************************************************************************)
(* One call of ParallelMigrator.run (src/migrator.py): the main thread,    *)
(* the tasks of its ThreadPoolExecutor, the two connection semaphores, the *)
(* counters of GlobalStats and the job_status table.                       *)
(*                                                                         *)
(* A task is the _worker of one mailbox pair; what it does between its     *)
(* connections and its result is MailboxSync's, here one step.  The pairs  *)
(* have different source mailboxes, so a task also names its job row.      *)
(* Tasks that wait in the executor's queue are alike: any may be next.     *)
(***************************************************************************)
EXTENDS Integers, FiniteSets, StateDB

CONSTANTS
  Tasks,       \* the mailbox pairs of the CSV
  MaxWorkers,  \* cfg.max_workers
  SrcLimit,    \* cfg.source_connection_limit
  TgtLimit,    \* cfg.target_connection_limit
  Resume,      \* cfg.resume
  OldJobs,     \* what earlier runs may have left in job_status
  MaxFaults    \* bound: failures of any kind

ASSUME WorkerPoolAssumption ==
  /\ IsFiniteSet(Tasks)
  /\ {MaxWorkers, SrcLimit, TgtLimit} \subseteq Nat \ {0}
  /\ MaxFaults \in Nat
  /\ Resume \in BOOLEAN
  /\ OldJobs \subseteq [Tasks -> JobStatus]

VARIABLES
  main,      \* the thread that called run
  pc,        \* [Tasks -> where the task is]
  result,    \* [Tasks -> stats.status, or the exception the future holds]
  srcOpen,   \* tasks with a connection to the source
  tgtOpen,   \* tasks with a connection to the target
  srcSem, tgtSem,  \* the values of the semaphores
  gstats,    \* GlobalStats
  jobs,      \* job_status
  unlogged,  \* observer: tasks that raised before mailbox_start
  faults     \* how much of the bound is used

vars == <<main, pc, result, srcOpen, tgtOpen, srcSem, tgtSem, gstats, jobs,
          unlogged, faults>>
connections == <<srcOpen, tgtOpen, srcSem, tgtSem>>

Pc == {"absent", "queued", "log", "mark", "src", "srcConnect", "tgt",
       "tgtConnect", "migrate", "fail", "close", "finished", "collected"}
Result == {"none", "success", "partial", "failed", "exception"}
Counters == [pending : Nat, running : Nat, completed : Nat, failed : Nat, skipped : Nat]

TypeOK ==
  /\ main \in {"start", "collect", "unwind", "done", "raised"}
  /\ pc \in [Tasks -> Pc]
  /\ result \in [Tasks -> Result]
  /\ srcOpen \subseteq Tasks /\ tgtOpen \subseteq Tasks
  /\ srcSem \in 0 .. SrcLimit /\ tgtSem \in 0 .. TgtLimit
  /\ gstats \in Counters
  /\ jobs \in [Tasks -> JobStatus]
  /\ unlogged \subseteq Tasks
  /\ faults \in Nat

Init ==
  /\ main = "start"
  /\ pc = [t \in Tasks |-> "absent"]
  /\ result = [t \in Tasks |-> "none"]
  /\ srcOpen = {} /\ tgtOpen = {}
  /\ srcSem = SrcLimit /\ tgtSem = TgtLimit
  /\ gstats = [pending |-> 0, running |-> 0, completed |-> 0, failed |-> 0, skipped |-> 0]
  /\ jobs \in OldJobs
  /\ unlogged = {}
  /\ faults = 0

-----------------------------------------------------------------------------
(* Helpers.                                                                *)

At(t, where) == pc[t] = where
Goto(t, where) == pc' = [pc EXCEPT ![t] = where]
In(places) == {t \in Tasks : pc[t] \in places}
Submitted == {t \in Tasks : pc[t] # "absent"}
Busy == Submitted \ In({"queued", "finished", "collected"})

Fault == faults < MaxFaults /\ faults' = faults + 1
NoFault == UNCHANGED faults

(* Mutant: no clamp at 0.                                                  *)
LessUnclamped(n) == n - 1

Less(n) == IF n = 0 THEN 0 ELSE n - 1       \* max(0, n - 1)

mailbox_start(g) == [g EXCEPT !.pending = Less(@), !.running = @ + 1]

(* Mutant: a mailbox with failed messages is neither.                      *)
DoneUnlessPartial(g, status) ==
  LET rest == [g EXCEPT !.running = Less(@)]
  IN  CASE status = "success" -> [rest EXCEPT !.completed = @ + 1]
        [] status = "failed" -> [rest EXCEPT !.failed = @ + 1]
        [] OTHER -> [rest EXCEPT !.skipped = @ + 1]

mailbox_done(g, status) ==
  LET rest == [g EXCEPT !.running = Less(@)]
  IN  CASE status \in {"success", "partial"} -> [rest EXCEPT !.completed = @ + 1]
        [] status = "failed" -> [rest EXCEPT !.failed = @ + 1]
        [] OTHER -> [rest EXCEPT !.skipped = @ + 1]

-----------------------------------------------------------------------------
(* The main thread.                                                        *)

(* Mutant: under --resume a mailbox that was running is left alone too.    *)
DropAlsoRunning(was, now) ==
  {t \in Tasks : ~(Resume /\ now[t] \in {"completed", "running"})}

(* The pairs that run keeps.                                               *)
Kept(was, now) == {t \in Tasks : ~(Resume /\ is_mailbox_completed(now, t))}

Submit ==
  /\ main = "start"
  /\ jobs' = init_job(jobs, Tasks)
  /\ LET kept == Kept(jobs, jobs')
     IN  /\ main' = IF kept = {} THEN "done" ELSE "collect"
         /\ pc' = [t \in Tasks |-> IF t \in kept THEN "queued" ELSE "absent"]
         /\ gstats' = [gstats EXCEPT !.pending = Cardinality(kept)]
  /\ UNCHANGED <<result, connections, unlogged>> /\ NoFault

(* An init_job raises; each row is committed on its own.  In a dry run the *)
(* first raises, because nobody opened the database.                       *)
InitRaises ==
  /\ main = "start"
  /\ \E rows \in SUBSET Tasks : jobs' = init_job(jobs, rows)
  /\ Fault
  /\ main' = "raised"
  /\ UNCHANGED <<pc, result, connections, gstats, unlogged>>

Collect(t) ==
  /\ main = "collect" /\ At(t, "finished") /\ result[t] # "exception"
  /\ Goto(t, "collected")
  /\ gstats' = mailbox_done(gstats, result[t])
  /\ UNCHANGED <<main, result, connections, jobs, unlogged>> /\ NoFault

(* "Worker crashed": the statistics and the job row are made up here.      *)
CollectException(t) ==
  /\ main = "collect" /\ At(t, "finished") /\ result[t] = "exception"
  /\ Goto(t, "collected")
  /\ result' = [result EXCEPT ![t] = "failed"]
  /\ jobs' = mark_failed(jobs, t)
  /\ gstats' = mailbox_done(gstats, "failed")
  /\ UNCHANGED <<main, connections, unlogged>> /\ NoFault

(* mark_failed raises in the handler: run is left through the executor,    *)
(* whose __exit__ lets every task end, the queued ones too.                *)
CollectRaises(t) ==
  /\ main = "collect" /\ At(t, "finished") /\ result[t] = "exception"
  /\ main' = "unwind"
  /\ Fault
  /\ UNCHANGED <<pc, result, connections, gstats, jobs, unlogged>>

Return ==
  /\ \/ main = "collect" /\ Submitted \subseteq In({"collected"}) /\ main' = "done"
     \/ main = "unwind" /\ Submitted \subseteq In({"finished", "collected"}) /\ main' = "raised"
  /\ UNCHANGED <<pc, result, connections, gstats, jobs, unlogged>> /\ NoFault

-----------------------------------------------------------------------------
(* The tasks.                                                              *)

(* A thread of the pool is free.                                           *)
Take(t) ==
  /\ At(t, "queued") /\ Cardinality(Busy) < MaxWorkers
  /\ Goto(t, "log")
  /\ UNCHANGED <<main, result, connections, gstats, jobs, unlogged>> /\ NoFault

(* get_worker_logger, then mailbox_start.                                  *)
StartTask(t) ==
  /\ At(t, "log")
  /\ Goto(t, "mark")
  /\ gstats' = mailbox_start(gstats)
  /\ UNCHANGED <<main, result, connections, jobs, unlogged>> /\ NoFault

(* get_worker_logger cannot open the log file.                             *)
LoggerRaises(t) ==
  /\ At(t, "log")
  /\ Goto(t, "finished")
  /\ result' = [result EXCEPT ![t] = "exception"]
  /\ unlogged' = unlogged \cup {t}
  /\ Fault
  /\ UNCHANGED <<main, connections, gstats, jobs>>

MarkRunning(t) ==
  /\ At(t, "mark")
  /\ Goto(t, "src")
  /\ jobs' = mark_running(jobs, t)
  /\ UNCHANGED <<main, result, connections, gstats, unlogged>> /\ NoFault

(* Nothing in _worker catches it.                                          *)
MarkRunningRaises(t) ==
  /\ At(t, "mark")
  /\ Goto(t, "finished")
  /\ result' = [result EXCEPT ![t] = "exception"]
  /\ Fault
  /\ UNCHANGED <<main, connections, gstats, jobs, unlogged>>

(* with self._src_sem: source.connect(...)                                 *)
AcquireSource(t) ==
  /\ At(t, "src") /\ srcSem > 0
  /\ srcSem' = srcSem - 1
  /\ Goto(t, "srcConnect")
  /\ UNCHANGED <<main, result, srcOpen, tgtOpen, tgtSem, gstats, jobs, unlogged>>
  /\ NoFault

ConnectSource(t) ==
  /\ At(t, "srcConnect")
  /\ srcOpen' = srcOpen \cup {t}
  /\ srcSem' = srcSem + 1
  /\ Goto(t, "tgt")
  /\ UNCHANGED <<main, result, tgtOpen, tgtSem, gstats, jobs, unlogged>> /\ NoFault

(* Mutant: the slot is given back only after a connection is made.         *)
KeepSourceSlot(t) ==
  /\ At(t, "srcConnect")
  /\ Goto(t, "fail")
  /\ Fault
  /\ UNCHANGED <<main, result, connections, gstats, jobs, unlogged>>

(* A login that is refused leaves the connection it was tried on open.     *)
ConnectSourceFails(t) ==
  /\ At(t, "srcConnect")
  /\ srcOpen' \in {srcOpen, srcOpen \cup {t}}
  /\ srcSem' = srcSem + 1
  /\ Goto(t, "fail")
  /\ Fault
  /\ UNCHANGED <<main, result, tgtOpen, tgtSem, gstats, jobs, unlogged>>

(* with self._tgt_sem: target.connect(...)                                 *)
AcquireTarget(t) ==
  /\ At(t, "tgt") /\ tgtSem > 0
  /\ tgtSem' = tgtSem - 1
  /\ Goto(t, "tgtConnect")
  /\ UNCHANGED <<main, result, srcOpen, tgtOpen, srcSem, gstats, jobs, unlogged>>
  /\ NoFault

ConnectTarget(t) ==
  /\ At(t, "tgtConnect")
  /\ tgtOpen' = tgtOpen \cup {t}
  /\ tgtSem' = tgtSem + 1
  /\ Goto(t, "migrate")
  /\ UNCHANGED <<main, result, srcOpen, srcSem, gstats, jobs, unlogged>> /\ NoFault

ConnectTargetFails(t) ==
  /\ At(t, "tgtConnect")
  /\ tgtOpen' \in {tgtOpen, tgtOpen \cup {t}}
  /\ tgtSem' = tgtSem + 1
  /\ Goto(t, "fail")
  /\ Fault
  /\ UNCHANGED <<main, result, srcOpen, srcSem, gstats, jobs, unlogged>>

(* _migrate_folders returns; mark_completed.                               *)
Migrate(t) ==
  /\ At(t, "migrate")
  /\ \E status \in {"success", "partial"} : result' = [result EXCEPT ![t] = status]
  /\ jobs' = mark_completed(jobs, t)
  /\ Goto(t, "close")
  /\ UNCHANGED <<main, connections, gstats, unlogged>> /\ NoFault

(* _migrate_folders or mark_completed raises.                              *)
MigrateRaises(t) ==
  /\ At(t, "migrate")
  /\ Goto(t, "fail")
  /\ Fault
  /\ UNCHANGED <<main, result, connections, gstats, jobs, unlogged>>

MarkFailed(t) ==
  /\ At(t, "fail")
  /\ result' = [result EXCEPT ![t] = "failed"]
  /\ jobs' = mark_failed(jobs, t)
  /\ Goto(t, "close")
  /\ UNCHANGED <<main, connections, gstats, unlogged>> /\ NoFault

MarkFailedRaises(t) ==
  /\ At(t, "fail")
  /\ result' = [result EXCEPT ![t] = "exception"]
  /\ Goto(t, "close")
  /\ Fault
  /\ UNCHANGED <<main, connections, gstats, jobs, unlogged>>

(* Mutant: the finally clause forgets the target.                          *)
CloseSource(t) ==
  /\ At(t, "close")
  /\ srcOpen' = srcOpen \ {t}
  /\ Goto(t, "finished")
  /\ UNCHANGED <<main, result, tgtOpen, srcSem, tgtSem, gstats, jobs, unlogged>>
  /\ NoFault

(* finally: both are disconnected; then the result or the exception.       *)
Close(t) ==
  /\ At(t, "close")
  /\ srcOpen' = srcOpen \ {t} /\ tgtOpen' = tgtOpen \ {t}
  /\ Goto(t, "finished")
  /\ UNCHANGED <<main, result, srcSem, tgtSem, gstats, jobs, unlogged>> /\ NoFault

-----------------------------------------------------------------------------
TaskStep(t) ==
  \/ Take(t) \/ StartTask(t) \/ LoggerRaises(t)
  \/ MarkRunning(t) \/ MarkRunningRaises(t)
  \/ AcquireSource(t) \/ ConnectSource(t) \/ ConnectSourceFails(t)
  \/ AcquireTarget(t) \/ ConnectTarget(t) \/ ConnectTargetFails(t)
  \/ Migrate(t) \/ MigrateRaises(t)
  \/ MarkFailed(t) \/ MarkFailedRaises(t) \/ Close(t)

MainStep ==
  \/ Submit \/ InitRaises \/ Return
  \/ \E t \in Tasks : Collect(t) \/ CollectException(t) \/ CollectRaises(t)

Next == MainStep \/ \E t \in Tasks : TaskStep(t)

Spec == Init /\ [][Next]_vars

(* The scheduler runs every thread that can take a step, a thread that     *)
(* waits for a semaphore included, and servers answer connection attempts. *)
FairSpec == Spec /\ WF_vars(MainStep) /\ \A t \in Tasks : WF_vars(TaskStep(t))

-----------------------------------------------------------------------------
(* Properties.                                                             *)

Ended == main \in {"done", "raised"}

(* The counters the progress line and the web UI show are those of the     *)
(* tasks at every moment, unless a task raised before mailbox_start        *)
(* counted it.                                                             *)
CountersMatch ==
  unlogged = {} =>
    LET Collected(results) == {t \in In({"collected"}) : result[t] \in results}
    IN  /\ gstats.pending = Cardinality(In({"queued", "log"}))
        /\ gstats.running = Cardinality(Submitted \ In({"queued", "log", "collected"}))
        /\ gstats.completed = Cardinality(Collected({"success", "partial"}))
        /\ gstats.failed = Cardinality(Collected({"failed"}))

(* When run returns, job_status says of every mailbox that ran what the    *)
(* statistics say, whatever raised on the way.                             *)
JobMatchesResult ==
  main = "done" =>
    \A t \in Submitted :
      jobs[t] = IF result[t] \in {"success", "partial"} THEN "completed" ELSE "failed"

(* When run returns, no mailbox is left pending or running, not even one a *)
(* killed process left so and --resume found.                              *)
AllDecided == main = "done" => \A t \in Tasks : jobs[t] \in {"completed", "failed"}

(* However run ends, no connection stays open.                             *)
ConnectionsClosed == Ended => srcOpen = {} /\ tgtOpen = {}

(* No slot of a semaphore is lost or handed out twice.                     *)
SlotsConserved ==
  /\ srcSem + Cardinality(In({"srcConnect"})) = SrcLimit
  /\ tgtSem + Cardinality(In({"tgtConnect"})) = TgtLimit

(* run ends, whatever fails: no task waits for a slot for ever.            *)
RunReturns == <>Ended

=============================================================================
