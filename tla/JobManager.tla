------------------------------ MODULE JobManager ------------------------------
(***************************************************************************)
(* The web UI's background jobs (src/web/jobs.py): JobManager.start, called *)
(* by request threads, and _run in the thread of each job.  What the       *)
(* engine does for a test, a dry run or a migration is WorkerPool's, here  *)
(* the step from run to its end.                                           *)
(***************************************************************************)
EXTENDS Naturals

CONSTANTS
  Jobs,   \* the jobs that are ever accepted, one thread each
  NoJob

ASSUME JobManagerAssumption == NoJob \notin Jobs

VARIABLES
  state,     \* self.state: whose it is, and its status
  migrator,  \* self._migrator, as the job that made it
  pc         \* [Jobs -> where the job's thread is]

vars == <<state, migrator, pc>>

Status == {"idle", "running", "done", "failed"}
Pc == {"new", "accepted", "setup", "opened", "run", "clear", "ended", "dead"}

TypeOK ==
  /\ state \in [job : Jobs \cup {NoJob}, status : Status]
  /\ migrator \in Jobs \cup {NoJob}
  /\ pc \in [Jobs -> Pc]

Init ==
  /\ state = [job |-> NoJob, status |-> "idle"]
  /\ migrator = NoJob
  /\ pc = [j \in Jobs |-> "new"]

At(j, where) == pc[j] = where
Goto(j, where) == pc' = [pc EXCEPT ![j] = where]

-----------------------------------------------------------------------------
(* start, in a request thread.                                             *)

(* Mutant: the status is not looked at.                                    *)
AcceptAlways(j) ==
  /\ At(j, "new")
  /\ state' = [job |-> j, status |-> "running"]
  /\ Goto(j, "accepted")
  /\ UNCHANGED migrator

(* The test and the new JobState, under the lock.                          *)
Accept(j) ==
  /\ At(j, "new") /\ state.status # "running"
  /\ state' = [job |-> j, status |-> "running"]
  /\ Goto(j, "accepted")
  /\ UNCHANGED migrator

(* Thread.start, which raises when the system has no thread to give.       *)
Spawn(j) ==
  /\ At(j, "accepted")
  /\ \/ Goto(j, "setup")
     \/ Goto(j, "dead")
  /\ UNCHANGED <<state, migrator>>

-----------------------------------------------------------------------------
(* _run, in the job's thread.                                              *)

(* The configuration, the directories, the pairs, StateDB.open: all before *)
(* the try, so that nobody writes the status when one of them raises.      *)
Setup(j) ==
  /\ At(j, "setup")
  /\ \/ Goto(j, "opened")
     \/ Goto(j, "dead")
  /\ UNCHANGED <<state, migrator>>

SetMigrator(j) ==
  /\ At(j, "opened")
  /\ migrator' = j
  /\ Goto(j, "run")
  /\ UNCHANGED state

(* Mutant: the status is one of job_status.                                *)
FinishCompleted(j) ==
  /\ At(j, "run")
  /\ state' = [state EXCEPT !.status = "completed"]
  /\ Goto(j, "clear")
  /\ UNCHANGED migrator

(* Mutant: the except clause does not call _finish.                        *)
FinishUnlessRaised(j) ==
  /\ At(j, "run")
  /\ \/ state' = [state EXCEPT !.status = "done"]
     \/ UNCHANGED state
  /\ Goto(j, "clear")
  /\ UNCHANGED migrator

(* The engine and the reports are through, or raised: _finish, which       *)
(* writes to whichever JobState is there.                                  *)
Finish(j) ==
  /\ At(j, "run")
  /\ \E status \in {"done", "failed"} : state' = [state EXCEPT !.status = status]
  /\ Goto(j, "clear")
  /\ UNCHANGED migrator

(* The finally clause: the job's database is closed, and self._migrator,   *)
(* whose ever it is, is gone.                                              *)
ClearMigrator(j) ==
  /\ At(j, "clear")
  /\ migrator' = NoJob
  /\ Goto(j, "ended")
  /\ UNCHANGED state

-----------------------------------------------------------------------------
JobStep(j) ==
  Spawn(j) \/ Setup(j) \/ SetMigrator(j) \/ Finish(j) \/ ClearMigrator(j)

Next == \E j \in Jobs : Accept(j) \/ JobStep(j)

Spec == Init /\ [][Next]_vars

(* An accepted job's thread runs.  Nobody has to start a job.              *)
FairSpec == Spec /\ \A j \in Jobs : WF_vars(JobStep(j))

-----------------------------------------------------------------------------
(* Properties.                                                             *)

(* At most one job is in the engine, writing to the servers, the state     *)
(* database and the reports: a job gives up the status only after that.    *)
OneEngine == \A i, j \in Jobs : At(i, "run") /\ At(j, "run") => i = j

(* The status a job leaves is its own: no job ends in the name of another. *)
FinishIsOwn ==
  [][state'.status \in {"done", "failed"} /\ state' # state
       => At(state.job, "run") /\ state'.job = state.job]_vars

(* Unless the preparation of a job raises, "running" ends, so that another *)
(* job can be started, even when the engine raises.                        *)
Engaged == state.status = "running"
JobEnds == Engaged ~> ~Engaged
JobEndsUnlessDead == [](\A j \in Jobs : ~At(j, "dead")) => JobEnds

=============================================================================
