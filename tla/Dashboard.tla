------------------------------ MODULE Dashboard ------------------------------
(***************************************************************************)
(* What an open dashboard page (src/web/static/dashboard.js) shows of the  *)
(* job manager: it asks for the status every four seconds, whether or not  *)
(* the last answer has come, and shows each answer when it arrives.  An    *)
(* answer is taken from the manager in two steps (JobManager.snapshot):    *)
(* the status under the lock, then the counters of the migrator without.   *)
(***************************************************************************)
EXTENDS JobManager

CONSTANT Polls   \* requests of the page that may be under way at once

VARIABLES
  counting,  \* the jobs whose migrator has its GlobalStats
  polls,     \* [Polls -> where the request is, and the answer so far]
  page       \* what the page shows

pageVars == <<counting, polls, page>>
allVars == <<vars, pageVars>>

(* The counters of an answer are known by whose they are: a migrator's, or *)
(* those of JobState itself, which nobody counts up.                       *)
Answer == [job : Jobs \cup {NoJob}, status : Status, counters : Jobs \cup {NoJob}]
Blank == [job |-> NoJob, status |-> "idle", counters |-> NoJob]

PageTypeOK ==
  /\ TypeOK
  /\ counting \subseteq Jobs
  /\ polls \in [Polls -> [at : {"none", "sent", "read", "answered"}, answer : Answer]]
  /\ page \in Answer

(* The page is loaded before any job.                                      *)
PageInit ==
  /\ Init
  /\ counting = {}
  /\ polls = [i \in Polls |-> [at |-> "none", answer |-> Blank]]
  /\ page = Blank

(* A migration makes its GlobalStats; a test of the connections does not.  *)
Count(j) ==
  /\ At(j, "run") /\ j \notin counting
  /\ counting' = counting \cup {j}
  /\ UNCHANGED <<vars, polls, page>>

-----------------------------------------------------------------------------
(* A poll.                                                                 *)

(* refresh, at once and then by setInterval.                               *)
Refresh(i) ==
  /\ polls[i].at = "none"
  /\ polls' = [polls EXCEPT ![i] = [at |-> "sent", answer |-> Blank]]
  /\ UNCHANGED <<vars, counting, page>>

(* snapshot, with the lock.                                                *)
SnapshotState(i) ==
  /\ polls[i].at = "sent"
  /\ polls' = [polls EXCEPT ![i].at = "read",
                 ![i].answer = [job |-> state.job, status |-> state.status,
                                counters |-> NoJob]]
  /\ UNCHANGED <<vars, counting, page>>

LiveCounters == IF migrator \in counting THEN migrator ELSE NoJob

(* Mutant: whose status it is is read again, outside the lock.             *)
SnapshotJobAgain(i) ==
  /\ polls[i].at = "read"
  /\ polls' = [polls EXCEPT ![i].at = "answered", ![i].answer.job = state.job,
                 ![i].answer.counters = LiveCounters]
  /\ UNCHANGED <<vars, counting, page>>

(* snapshot, after it: the counters of the migrator of this moment.        *)
SnapshotCounters(i) ==
  /\ polls[i].at = "read"
  /\ polls' = [polls EXCEPT ![i].at = "answered", ![i].answer.counters = LiveCounters]
  /\ UNCHANGED <<vars, counting, page>>

(* Mutant: an answer without live counters is taken for no answer.         *)
DeliverCounting(i) ==
  /\ polls[i].at = "answered"
  /\ polls' = [polls EXCEPT ![i] = [at |-> "none", answer |-> Blank]]
  /\ page' = IF polls[i].answer.counters = NoJob THEN page ELSE polls[i].answer
  /\ UNCHANGED <<vars, counting>>

(* The answer arrives, in whatever order, and the page shows all of it.    *)
Deliver(i) ==
  /\ polls[i].at = "answered"
  /\ polls' = [polls EXCEPT ![i] = [at |-> "none", answer |-> Blank]]
  /\ page' = polls[i].answer
  /\ UNCHANGED <<vars, counting>>

(* The request or its answer is lost (to the page the same), or it is an   *)
(* error page: nothing is shown, the next tick asks again.                 *)
Fail(i) ==
  /\ polls[i].at = "answered"
  /\ polls' = [polls EXCEPT ![i] = [at |-> "none", answer |-> Blank]]
  /\ UNCHANGED <<vars, counting, page>>

-----------------------------------------------------------------------------
Managed(j) == (Accept(j) \/ JobStep(j)) /\ UNCHANGED pageVars
Polled(i) == Refresh(i) \/ SnapshotState(i) \/ SnapshotCounters(i)

PageNext ==
  \/ \E j \in Jobs : Managed(j) \/ Count(j)
  \/ \E i \in Polls : Polled(i) \/ Deliver(i) \/ Fail(i)

(* Threads run, the page keeps polling, and an answer that comes again and *)
(* again is not lost every time.                                           *)
PageSpec ==
  /\ PageInit /\ [][PageNext]_allVars
  /\ \A j \in Jobs : WF_allVars(JobStep(j) /\ UNCHANGED pageVars)
  /\ \A i \in Polls : WF_allVars(Polled(i)) /\ SF_allVars(Deliver(i))

-----------------------------------------------------------------------------
(* Properties.                                                             *)

(* A job the page, or an answer on its way, calls done or failed has left  *)
(* the engine, however old the answer is and whichever job runs by then.   *)
Left(a) == a.status \in {"done", "failed"} => pc[a.job] \in {"clear", "ended"}
DoneIsDone == Left(page) /\ \A i \in Polls : polls[i].at # "none" => Left(polls[i].answer)

(* When no job runs any more, the page comes to show the last one with the *)
(* status it ended with, and no counters of a migrator that is gone, and   *)
(* no late answer takes that back for good.                                *)
Quiet == \A j \in Jobs : pc[j] \in {"new", "ended", "dead"}
PageIsCurrent ==
  page = [job |-> state.job, status |-> state.status, counters |-> NoJob]
PageSettles == <>[]Quiet => <>[]PageIsCurrent
=============================================================================
