--------------------------- MODULE WorkerPoolProofs ---------------------------
(***************************************************************************)
(* What a run leaves behind, for any number of mailboxes, threads and      *)
(* connection slots, and any number of failures.                           *)
(***************************************************************************)
EXTENDS WorkerPool, FiniteSetTheorems, TLAPS

-----------------------------------------------------------------------------
(* The inductive invariant.                                                *)

Types ==
  /\ main \in {"start", "collect", "unwind", "done", "raised"}
  /\ pc \in [Tasks -> Pc]
  /\ result \in [Tasks -> Result]
  /\ srcSem \in Nat /\ tgtSem \in Nat
  /\ gstats \in Counters
  /\ jobs \in [Tasks -> JobStatus]
  /\ unlogged \subseteq Tasks
  /\ faults \in Nat

(* A result and the job row it leads to go together.                       *)
Decided ==
  \A t \in Tasks :
    /\ pc[t] = "collected" => result[t] \in {"success", "partial", "failed"}
    /\ pc[t] \in {"close", "finished", "collected"} =>
         /\ result[t] \in {"success", "partial"} => jobs[t] = "completed"
         /\ result[t] = "failed" => jobs[t] = "failed"
    /\ pc[t] \in {"close", "finished"} => result[t] # "none"
    /\ pc[t] # "absent" => jobs[t] # "none"

(* What the main thread knows of the tasks.                                *)
Phases ==
  \A t \in Tasks :
    /\ main = "start" => pc[t] = "absent"
    /\ main \in {"collect", "unwind", "done"} /\ pc[t] = "absent" => jobs[t] = "completed"
    /\ main = "done" => pc[t] \in {"absent", "collected"}
    /\ main = "raised" => pc[t] \in {"absent", "finished", "collected"}

(* Only a task between connect and disconnect has a connection.            *)
Connected ==
  /\ srcOpen \subseteq In({"tgt", "tgtConnect", "migrate", "fail", "close"})
  /\ tgtOpen \subseteq In({"migrate", "fail", "close"})

IInv == Types /\ Decided /\ Phases /\ Connected /\ SlotsConserved

-----------------------------------------------------------------------------
(* The operators.                                                          *)

LEMMA LessIsNat == ASSUME NEW n \in Nat PROVE Less(n) \in Nat
  BY DEF Less

LEMMA StartCounts ==
  ASSUME NEW g \in Counters
  PROVE  mailbox_start(g) \in Counters
<1>1. ASSUME NEW a \in Nat, NEW b \in Nat
      PROVE  [g EXCEPT !.pending = a, !.running = b] \in Counters
  BY DEF Counters
<1>2. Less(g.pending) \in Nat /\ g.running + 1 \in Nat
  BY LessIsNat DEF Counters
<1> QED
  BY <1>1, <1>2 DEF mailbox_start

LEMMA DoneCounts ==
  ASSUME NEW g \in Counters, NEW status
  PROVE  mailbox_done(g, status) \in Counters
<1> DEFINE rest == [g EXCEPT !.running = Less(@)]
<1>1. ASSUME NEW a \in Nat PROVE [g EXCEPT !.running = a] \in Counters
  BY DEF Counters
<1>2. Less(g.running) \in Nat
  BY LessIsNat DEF Counters
<1>3. rest \in Counters
  BY <1>1, <1>2
<1>4. mailbox_done(g, status) =
        CASE status \in {"success", "partial"} -> [rest EXCEPT !.completed = @ + 1]
          [] status = "failed" -> [rest EXCEPT !.failed = @ + 1]
          [] OTHER -> [rest EXCEPT !.skipped = @ + 1]
  BY DEF mailbox_done
<1>5. ASSUME NEW h \in Counters
      PROVE  /\ [h EXCEPT !.completed = @ + 1] \in Counters
             /\ [h EXCEPT !.failed = @ + 1] \in Counters
             /\ [h EXCEPT !.skipped = @ + 1] \in Counters
  BY DEF Counters
<1> HIDE DEF rest
<1> QED
  BY <1>3, <1>4, <1>5

(* mark writes one row, and only one that exists.                          *)
LEMMA MarkWrites ==
  ASSUME NEW j \in [Tasks -> JobStatus], NEW t \in Tasks, NEW s \in JobStatus \ {"none"}
  PROVE  /\ mark(j, t, s) \in [Tasks -> JobStatus]
         /\ j[t] # "none" => mark(j, t, s)[t] = s
         /\ \A u \in Tasks : u # t => mark(j, t, s)[u] = j[u]
         /\ \A u \in Tasks : mark(j, t, s)[u] = "none" <=> j[u] = "none"
<1> DEFINE new == IF j[t] = "none" THEN j[t] ELSE s
<1>1. mark(j, t, s) = [j EXCEPT ![t] = new]
  BY DEF mark
<1>2. new \in JobStatus
  OBVIOUS
<1> QED
  BY <1>1, <1>2

(* A task enters, or leaves, a set of places.                              *)
LEMMA Enter ==
  ASSUME NEW S, IsFiniteSet(S), NEW t, t \notin S
  PROVE  Cardinality(S \cup {t}) = Cardinality(S) + 1
  BY FS_AddElement

LEMMA Leave ==
  ASSUME NEW S, IsFiniteSet(S), NEW t \in S
  PROVE  /\ Cardinality(S \ {t}) = Cardinality(S) - 1
         /\ Cardinality(S) \in Nat /\ Cardinality(S) > 0
  BY FS_RemoveElement, FS_EmptySet, FS_CardinalityType

LEMMA InIsFinite ==
  ASSUME NEW places
  PROVE  IsFiniteSet(In(places)) /\ Cardinality(In(places)) \in Nat
  BY WorkerPoolAssumption, FS_Subset, FS_CardinalityType DEF In

(* A task that does not pass through a semaphore disturbs none.            *)
Slotted == {"srcConnect", "tgtConnect"}

LEMMA SlotsKept ==
  ASSUME Types, SlotsConserved, NEW t \in Tasks, NEW where,
         pc[t] \notin Slotted, where \notin Slotted, Goto(t, where),
         srcSem' = srcSem, tgtSem' = tgtSem
  PROVE  SlotsConserved'
<1>1. In({"srcConnect"})' = In({"srcConnect"}) /\ In({"tgtConnect"})' = In({"tgtConnect"})
  BY DEF In, Goto, Types, Slotted
<1> QED
  BY <1>1 DEF SlotsConserved

-----------------------------------------------------------------------------
(* The invariant is inductive.                                             *)

LEMMA InitIInv == Init => IInv
<1> SUFFICES ASSUME Init PROVE IInv
  OBVIOUS
<1>1. Types
  BY WorkerPoolAssumption DEF Init, Types, Pc, Result, Counters
<1>2. Decided /\ Phases /\ Connected
  BY DEF Init, Decided, Phases, Connected
<1>3. In({"srcConnect"}) = {} /\ In({"tgtConnect"}) = {}
  BY DEF Init, In
<1>4. SlotsConserved
  <2>1. SrcLimit \in Nat /\ TgtLimit \in Nat
    BY WorkerPoolAssumption
  <2>2. Cardinality({}) = 0
    BY FS_EmptySet
  <2> QED
    BY <1>3, <2>1, <2>2 DEF Init, SlotsConserved
<1> QED
  BY <1>1, <1>2, <1>4 DEF IInv

(* No step of the main thread changes the connections.                     *)
LEMMA MainStepIInv == IInv /\ MainStep => IInv'
<1> SUFFICES ASSUME IInv, MainStep PROVE IInv'
  OBVIOUS
<1>1. CASE Submit
  <2> DEFINE kept == Kept(jobs, jobs')
  <2>1. jobs' \in [Tasks -> JobStatus] /\ \A t \in Tasks : jobs'[t] # "none"
    BY <1>1 DEF Submit, init_job, IInv, Types, JobStatus
  <2>2. Cardinality(kept) \in Nat
    BY WorkerPoolAssumption, FS_Subset, FS_CardinalityType DEF Kept
  <2>3. gstats' \in Counters
    BY <1>1, <2>2 DEF Submit, IInv, Types, Counters
  <2>4. pc' = [t \in Tasks |-> IF t \in kept THEN "queued" ELSE "absent"]
    BY <1>1 DEF Submit
  <2>5. \A t \in Tasks \ kept : jobs'[t] = "completed"
    BY DEF Kept, is_mailbox_completed
  <2>6. main' = IF kept = {} THEN "done" ELSE "collect"
    BY <1>1 DEF Submit
  <2>7. UNCHANGED <<result, connections, unlogged, faults>> /\ \A t \in Tasks : pc[t] = "absent"
    BY <1>1 DEF Submit, NoFault, IInv, Phases
  <2> HIDE DEF kept
  <2>8. Types'
    BY <2>1, <2>3, <2>4, <2>6, <2>7 DEF IInv, Types, Pc, connections
  <2>9. Decided' /\ Phases'
    BY <2>1, <2>4, <2>5, <2>6 DEF Decided, Phases
  <2>10. \A places \in {{"srcConnect"}, {"tgtConnect"},
                        {"tgt", "tgtConnect", "migrate", "fail", "close"},
                        {"migrate", "fail", "close"}} :
            In(places) = {} /\ In(places)' = {}
    BY <2>4, <2>7 DEF In
  <2>11. Connected' /\ SlotsConserved'
    BY <2>7, <2>10 DEF IInv, Connected, SlotsConserved, connections
  <2> QED
    BY <2>8, <2>9, <2>11 DEF IInv
<1>2. CASE InitRaises
  <2>1. jobs' \in [Tasks -> JobStatus]
    BY <1>2 DEF InitRaises, init_job, IInv, Types, JobStatus
  <2> QED
    BY <1>2, <2>1, WorkerPoolAssumption
       DEF InitRaises, Fault, NoFault, connections, IInv, Types, Decided, Phases,
           Connected, SlotsConserved, In
<1>3. ASSUME NEW t \in Tasks, Collect(t) PROVE IInv'
  <2>1. gstats' \in Counters
    BY <1>3, DoneCounts DEF Collect, IInv, Types
  <2>2. /\ Types' /\ Phases' /\ Connected'
    BY <1>3, <2>1
       DEF Collect, NoFault, connections, IInv, Types, Phases, Connected, At, Goto, In, Pc
  <2>3. result[t] \in {"success", "partial", "failed"}
    BY <1>3 DEF Collect, IInv, Types, Decided, At, Result
  <2>4. Decided'
    BY <1>3, <2>3 DEF Collect, IInv, Types, Decided, At, Goto, Pc
  <2>5. SlotsConserved'
    BY <1>3, SlotsKept DEF Collect, connections, At, Slotted, IInv
  <2> QED
    BY <2>2, <2>4, <2>5 DEF IInv
<1>4. ASSUME NEW t \in Tasks, CollectException(t) PROVE IInv'
  <2>1. gstats' \in Counters
    BY <1>4, DoneCounts DEF CollectException, IInv, Types
  <2>2. /\ jobs' \in [Tasks -> JobStatus]
        /\ jobs[t] # "none" => jobs'[t] = "failed"
        /\ \A u \in Tasks : u # t => jobs'[u] = jobs[u]
        /\ \A u \in Tasks : jobs'[u] = "none" <=> jobs[u] = "none"
    BY <1>4, MarkWrites DEF CollectException, mark_failed, IInv, Types, JobStatus
  <2>3. Types' /\ Phases' /\ Connected'
    BY <1>4, <2>1, <2>2
       DEF CollectException, NoFault, connections, IInv, Types, Phases, Connected,
           At, Goto, In, Pc, Result
  <2>4. Decided'
    BY <1>4, <2>2 DEF CollectException, IInv, Types, Decided, At, Goto, Pc, Result
  <2>5. SlotsConserved'
    BY <1>4, SlotsKept DEF CollectException, connections, At, Slotted, IInv
  <2> QED
    BY <2>3, <2>4, <2>5 DEF IInv
<1>5. ASSUME NEW t \in Tasks, CollectRaises(t) PROVE IInv'
  BY <1>5, WorkerPoolAssumption
     DEF CollectRaises, Fault, connections, IInv, Types, Decided, Phases,
         Connected, SlotsConserved, In
<1>6. CASE Return
  BY <1>6
     DEF Return, NoFault, connections, Submitted, IInv, Types, Decided, Phases,
         Connected, SlotsConserved, In
<1> QED
  BY <1>1, <1>2, <1>3, <1>4, <1>5, <1>6 DEF MainStep

(* The steps of a task that leave job_status and the semaphores alone.     *)
LEMMA QuietStepIInv ==
  ASSUME IInv, NEW t \in Tasks,
         Take(t) \/ StartTask(t) \/ LoggerRaises(t) \/ MarkRunningRaises(t)
           \/ MigrateRaises(t) \/ MarkFailedRaises(t) \/ Close(t)
  PROVE  IInv'
<1> USE DEF IInv, connections, NoFault, Fault, At
<1>1. CASE Take(t)
  <2>1. Types' /\ Decided' /\ Phases' /\ Connected'
    BY <1>1 DEF Take, Types, Decided, Phases, Connected, Goto, In, Pc
  <2> QED
    BY <1>1, <2>1, SlotsKept DEF Take, Slotted
<1>2. CASE StartTask(t)
  <2>1. gstats' \in Counters
    BY <1>2, StartCounts DEF StartTask, Types
  <2>2. Types' /\ Decided' /\ Phases' /\ Connected'
    BY <1>2, <2>1 DEF StartTask, Types, Decided, Phases, Connected, Goto, In, Pc
  <2> QED
    BY <1>2, <2>2, SlotsKept DEF StartTask, Slotted
<1>3. CASE LoggerRaises(t)
  <2>1. Types' /\ Phases' /\ Connected'
    BY <1>3, WorkerPoolAssumption
       DEF LoggerRaises, Types, Phases, Connected, Goto, In, Pc, Result
  <2>2. Decided'
    BY <1>3 DEF LoggerRaises, Types, Decided, Goto, Pc
  <2> QED
    BY <1>3, <2>1, <2>2, SlotsKept DEF LoggerRaises, Slotted
<1>4. CASE MarkRunningRaises(t)
  <2>1. Types' /\ Phases' /\ Connected'
    BY <1>4, WorkerPoolAssumption
       DEF MarkRunningRaises, Types, Phases, Connected, Goto, In, Pc, Result
  <2>2. Decided'
    BY <1>4 DEF MarkRunningRaises, Types, Decided, Goto, Pc
  <2> QED
    BY <1>4, <2>1, <2>2, SlotsKept DEF MarkRunningRaises, Slotted
<1>5. CASE MigrateRaises(t)
  <2>1. Types' /\ Decided' /\ Phases' /\ Connected'
    BY <1>5, WorkerPoolAssumption
       DEF MigrateRaises, Types, Decided, Phases, Connected, Goto, In, Pc
  <2> QED
    BY <1>5, <2>1, SlotsKept DEF MigrateRaises, Slotted
<1>6. CASE MarkFailedRaises(t)
  <2>1. Types' /\ Phases' /\ Connected'
    BY <1>6, WorkerPoolAssumption
       DEF MarkFailedRaises, Types, Phases, Connected, Goto, In, Pc, Result
  <2>2. Decided'
    BY <1>6 DEF MarkFailedRaises, Types, Decided, Goto, Pc
  <2> QED
    BY <1>6, <2>1, <2>2, SlotsKept DEF MarkFailedRaises, Slotted
<1>7. CASE Close(t)
  <2>1. Types' /\ Decided' /\ Phases' /\ Connected'
    BY <1>7 DEF Close, Types, Decided, Phases, Connected, Goto, In, Pc
  <2> QED
    BY <1>7, <2>1, SlotsKept DEF Close, Slotted
<1> QED
  BY <1>1, <1>2, <1>3, <1>4, <1>5, <1>6, <1>7

(* The steps that write job_status.                                        *)
LEMMA MarkStepIInv ==
  ASSUME IInv, NEW t \in Tasks, MarkRunning(t) \/ Migrate(t) \/ MarkFailed(t)
  PROVE  IInv'
<1> USE DEF IInv, connections, NoFault, At
<1>1. CASE MarkRunning(t)
  <2>1. /\ jobs' \in [Tasks -> JobStatus]
        /\ \A u \in Tasks : u # t => jobs'[u] = jobs[u]
        /\ \A u \in Tasks : jobs'[u] = "none" <=> jobs[u] = "none"
    BY <1>1, MarkWrites DEF MarkRunning, mark_running, Types, JobStatus
  <2>2. Types' /\ Phases' /\ Connected'
    BY <1>1, <2>1 DEF MarkRunning, Types, Phases, Connected, Goto, In, Pc
  <2>3. Decided'
    BY <1>1, <2>1 DEF MarkRunning, Types, Decided, Goto, Pc
  <2> QED
    BY <1>1, <2>2, <2>3, SlotsKept DEF MarkRunning, Slotted
<1>2. CASE Migrate(t)
  <2>1. /\ jobs' \in [Tasks -> JobStatus]
        /\ jobs[t] # "none" => jobs'[t] = "completed"
        /\ \A u \in Tasks : u # t => jobs'[u] = jobs[u]
        /\ \A u \in Tasks : jobs'[u] = "none" <=> jobs[u] = "none"
    BY <1>2, MarkWrites DEF Migrate, mark_completed, Types, JobStatus
  <2>2. PICK status \in {"success", "partial"} : result' = [result EXCEPT ![t] = status]
    BY <1>2 DEF Migrate
  <2>3. Types'
    BY <1>2, <2>1, <2>2 DEF Migrate, Types, Goto, Pc, Result
  <2>5. Phases' /\ Connected'
    BY <1>2, <2>1 DEF Migrate, Types, Phases, Connected, Goto, In, Pc
  <2>4. Decided'
    BY <1>2, <2>1, <2>2 DEF Migrate, Types, Decided, Goto, Pc, Result
  <2> QED
    BY <1>2, <2>3, <2>4, <2>5, SlotsKept DEF Migrate, Slotted
<1>3. CASE MarkFailed(t)
  <2>1. /\ jobs' \in [Tasks -> JobStatus]
        /\ jobs[t] # "none" => jobs'[t] = "failed"
        /\ \A u \in Tasks : u # t => jobs'[u] = jobs[u]
        /\ \A u \in Tasks : jobs'[u] = "none" <=> jobs[u] = "none"
    BY <1>3, MarkWrites DEF MarkFailed, mark_failed, Types, JobStatus
  <2>2. Types' /\ Phases' /\ Connected'
    BY <1>3, <2>1 DEF MarkFailed, Types, Phases, Connected, Goto, In, Pc, Result
  <2>3. Decided'
    BY <1>3, <2>1 DEF MarkFailed, Types, Decided, Goto, Pc, Result
  <2> QED
    BY <1>3, <2>2, <2>3, SlotsKept DEF MarkFailed, Slotted
<1> QED
  BY <1>1, <1>2, <1>3

-----------------------------------------------------------------------------
(* The steps through the semaphores.                                       *)

LEMMA EnterPlace ==
  ASSUME Types, NEW t \in Tasks, NEW where \in Pc, pc[t] # where, Goto(t, where)
  PROVE  Cardinality(In({where})') = Cardinality(In({where})) + 1
<1>1. In({where})' = In({where}) \cup {t} /\ t \notin In({where})
  BY DEF In, Goto, Types
<1> QED
  BY <1>1, InIsFinite, Enter

LEMMA LeavePlace ==
  ASSUME Types, NEW t \in Tasks, NEW from \in Pc, NEW where \in Pc,
         from # where, pc[t] = from, Goto(t, where)
  PROVE  Cardinality(In({from})') = Cardinality(In({from})) - 1
<1>1. In({from})' = In({from}) \ {t} /\ t \in In({from})
  BY DEF In, Goto, Types
<1> QED
  BY <1>1, InIsFinite, Leave

LEMMA OtherPlace ==
  ASSUME Types, NEW t \in Tasks, NEW other \in Pc, NEW where \in Pc,
         pc[t] # other, other # where, Goto(t, where)
  PROVE  In({other})' = In({other})
  BY DEF In, Goto, Types

(* What is left to show of each: the place it fills or empties, and the    *)
(* place of the other semaphore.                                           *)
LEMMA SlotStepIInv ==
  ASSUME IInv, NEW t \in Tasks,
         AcquireSource(t) \/ ConnectSource(t) \/ ConnectSourceFails(t)
           \/ AcquireTarget(t) \/ ConnectTarget(t) \/ ConnectTargetFails(t)
  PROVE  IInv'
<1> USE DEF IInv, NoFault, Fault, At
<1>0. /\ {"srcConnect", "tgtConnect", "tgt", "migrate", "fail"} \subseteq Pc
      /\ Cardinality(In({"srcConnect"})) \in Nat /\ Cardinality(In({"tgtConnect"})) \in Nat
      /\ SrcLimit \in Nat /\ TgtLimit \in Nat
  BY InIsFinite, WorkerPoolAssumption DEF Pc
<1>1. CASE AcquireSource(t)
  <2>1. Types' /\ Decided' /\ Phases' /\ Connected'
    BY <1>1 DEF AcquireSource, Types, Decided, Phases, Connected, Goto, In, Pc
  <2>2. /\ Cardinality(In({"srcConnect"})') = Cardinality(In({"srcConnect"})) + 1
        /\ In({"tgtConnect"})' = In({"tgtConnect"})
    BY <1>0, <1>1, EnterPlace, OtherPlace DEF AcquireSource
  <2>3. SlotsConserved'
    BY <1>0, <1>1, <2>2 DEF AcquireSource, SlotsConserved, Types
  <2> QED
    BY <2>1, <2>3
<1>2. CASE ConnectSource(t)
  <2>1. Types' /\ Decided' /\ Phases' /\ Connected'
    BY <1>2, WorkerPoolAssumption
       DEF ConnectSource, Types, Decided, Phases, Connected, Goto, In, Pc
  <2>2. /\ Cardinality(In({"srcConnect"})') = Cardinality(In({"srcConnect"})) - 1
        /\ In({"tgtConnect"})' = In({"tgtConnect"})
    BY <1>0, <1>2, LeavePlace, OtherPlace DEF ConnectSource
  <2>3. SlotsConserved'
    BY <1>0, <1>2, <2>2 DEF ConnectSource, SlotsConserved, Types
  <2> QED
    BY <2>1, <2>3
<1>3. CASE ConnectSourceFails(t)
  <2>1. Types' /\ Decided' /\ Phases' /\ Connected'
    BY <1>3, WorkerPoolAssumption
       DEF ConnectSourceFails, Types, Decided, Phases, Connected, Goto, In, Pc
  <2>2. /\ Cardinality(In({"srcConnect"})') = Cardinality(In({"srcConnect"})) - 1
        /\ In({"tgtConnect"})' = In({"tgtConnect"})
    BY <1>0, <1>3, LeavePlace, OtherPlace DEF ConnectSourceFails
  <2>3. SlotsConserved'
    BY <1>0, <1>3, <2>2 DEF ConnectSourceFails, SlotsConserved, Types
  <2> QED
    BY <2>1, <2>3
<1>4. CASE AcquireTarget(t)
  <2>1. Types' /\ Decided' /\ Phases' /\ Connected'
    BY <1>4 DEF AcquireTarget, Types, Decided, Phases, Connected, Goto, In, Pc
  <2>2. /\ Cardinality(In({"tgtConnect"})') = Cardinality(In({"tgtConnect"})) + 1
        /\ In({"srcConnect"})' = In({"srcConnect"})
    BY <1>0, <1>4, EnterPlace, OtherPlace DEF AcquireTarget
  <2>3. SlotsConserved'
    BY <1>0, <1>4, <2>2 DEF AcquireTarget, SlotsConserved, Types
  <2> QED
    BY <2>1, <2>3
<1>5. CASE ConnectTarget(t)
  <2>1. Types' /\ Decided' /\ Phases' /\ Connected'
    BY <1>5, WorkerPoolAssumption
       DEF ConnectTarget, Types, Decided, Phases, Connected, Goto, In, Pc
  <2>2. /\ Cardinality(In({"tgtConnect"})') = Cardinality(In({"tgtConnect"})) - 1
        /\ In({"srcConnect"})' = In({"srcConnect"})
    BY <1>0, <1>5, LeavePlace, OtherPlace DEF ConnectTarget
  <2>3. SlotsConserved'
    BY <1>0, <1>5, <2>2 DEF ConnectTarget, SlotsConserved, Types
  <2> QED
    BY <2>1, <2>3
<1>6. CASE ConnectTargetFails(t)
  <2>1. Types' /\ Decided' /\ Phases' /\ Connected'
    BY <1>6, WorkerPoolAssumption
       DEF ConnectTargetFails, Types, Decided, Phases, Connected, Goto, In, Pc
  <2>2. /\ Cardinality(In({"tgtConnect"})') = Cardinality(In({"tgtConnect"})) - 1
        /\ In({"srcConnect"})' = In({"srcConnect"})
    BY <1>0, <1>6, LeavePlace, OtherPlace DEF ConnectTargetFails
  <2>3. SlotsConserved'
    BY <1>0, <1>6, <2>2 DEF ConnectTargetFails, SlotsConserved, Types
  <2> QED
    BY <2>1, <2>3
<1> QED
  BY <1>1, <1>2, <1>3, <1>4, <1>5, <1>6

LEMMA NextIInv == IInv /\ [Next]_vars => IInv'
<1> SUFFICES ASSUME IInv, [Next]_vars PROVE IInv'
  OBVIOUS
<1>1. CASE UNCHANGED vars
  BY <1>1 DEF vars, IInv, Types, Decided, Phases, Connected, SlotsConserved, In
<1>2. CASE MainStep
  BY <1>2, MainStepIInv
<1>3. ASSUME NEW t \in Tasks, TaskStep(t) PROVE IInv'
  BY <1>3, QuietStepIInv, MarkStepIInv, SlotStepIInv DEF TaskStep
<1> QED
  BY <1>1, <1>2, <1>3 DEF Next

-----------------------------------------------------------------------------
THEOREM WorkerPoolInvariant == Spec => []IInv
  BY InitIInv, NextIInv, PTL DEF Spec

(* The semaphores stay within their bounds: what a task took it gives      *)
(* back, once, however its connection attempt ends.                        *)
THEOREM WorkerPoolTypeOK == Spec => [](TypeOK /\ SlotsConserved)
<1>1. IInv => TypeOK /\ SlotsConserved
  <2> SUFFICES ASSUME IInv PROVE TypeOK
    BY DEF IInv
  <2>1. SrcLimit \in Nat /\ TgtLimit \in Nat
    BY WorkerPoolAssumption
  <2>2. srcSem \in 0 .. SrcLimit /\ tgtSem \in 0 .. TgtLimit
    BY <2>1, InIsFinite DEF IInv, Types, SlotsConserved
  <2>3. srcOpen \subseteq Tasks /\ tgtOpen \subseteq Tasks
    BY DEF IInv, Connected, In
  <2> QED
    BY <2>2, <2>3 DEF IInv, Types, TypeOK
<1> QED
  BY <1>1, WorkerPoolInvariant, PTL

(* Whatever raises, and however often: when run returns, every mailbox     *)
(* that ran has the job status its result calls for, and none of the CSV   *)
(* is left pending or running.                                             *)
THEOREM RunDecides == Spec => [](JobMatchesResult /\ AllDecided)
<1>1. IInv => JobMatchesResult /\ AllDecided
  BY DEF IInv, Types, Decided, Phases, JobMatchesResult, AllDecided, Submitted, Result
<1> QED
  BY <1>1, WorkerPoolInvariant, PTL

(* However run ends, by its return or by an exception, no connection of    *)
(* any of its tasks stays open.                                            *)
THEOREM RunDisconnects == Spec => []ConnectionsClosed
<1>1. IInv => ConnectionsClosed
  BY DEF IInv, Phases, Connected, ConnectionsClosed, Ended, In
<1> QED
  BY <1>1, WorkerPoolInvariant, PTL

-----------------------------------------------------------------------------
(* The counters.  They match however far run is, and however it ends.      *)

Waiting == {"queued", "log"}
Underway == Pc \ {"absent", "queued", "log", "collected"}
Gathered(results) == {t \in In({"collected"}) : result[t] \in results}

Counted ==
  unlogged = {} =>
    /\ gstats.pending = Cardinality(In(Waiting))
    /\ gstats.running = Cardinality(In(Underway))
    /\ gstats.completed = Cardinality(Gathered({"success", "partial"}))
    /\ gstats.failed = Cardinality(Gathered({"failed"}))

LEMMA GatheredIsFinite ==
  ASSUME NEW results
  PROVE  IsFiniteSet(Gathered(results)) /\ Cardinality(Gathered(results)) \in Nat
<1>1. Gathered(results) \subseteq Tasks
  BY DEF Gathered, In
<1> QED
  BY <1>1, WorkerPoolAssumption, FS_Subset, FS_CardinalityType

(* One task goes from one place to another.                                *)
LEMMA Passage ==
  ASSUME Types, NEW t \in Tasks, NEW where, Goto(t, where), NEW places
  PROVE  /\ (pc[t] \in places <=> where \in places) => In(places)' = In(places)
         /\ pc[t] \in places /\ where \notin places =>
              /\ Cardinality(In(places)') = Cardinality(In(places)) - 1
              /\ Cardinality(In(places)) > 0
         /\ pc[t] \notin places /\ where \in places =>
              Cardinality(In(places)') = Cardinality(In(places)) + 1
<1>1. pc' = [pc EXCEPT ![t] = where] /\ pc \in [Tasks -> Pc]
  BY DEF Goto, Types
<1>2. In(places)' = {u \in Tasks : pc'[u] \in places}
  BY DEF In
<1>3. (pc[t] \in places <=> where \in places) => In(places)' = In(places)
  BY <1>1, <1>2 DEF In
<1>4. ASSUME pc[t] \in places, where \notin places
      PROVE  /\ Cardinality(In(places)') = Cardinality(In(places)) - 1
             /\ Cardinality(In(places)) > 0
  <2>1. In(places)' = In(places) \ {t} /\ t \in In(places)
    BY <1>1, <1>2, <1>4 DEF In
  <2> QED
    BY <2>1, InIsFinite, Leave
<1>5. ASSUME pc[t] \notin places, where \in places
      PROVE  Cardinality(In(places)') = Cardinality(In(places)) + 1
  <2>1. In(places)' = In(places) \cup {t} /\ t \notin In(places)
    BY <1>1, <1>2, <1>5 DEF In
  <2> QED
    BY <2>1, InIsFinite, Enter
<1> QED
  BY <1>3, <1>4, <1>5

(* A task that is not collected yet changes no collected result.           *)
LEMMA GatheredKept ==
  ASSUME Types, NEW t \in Tasks, NEW where, Goto(t, where), where # "collected",
         pc[t] # "collected", \A u \in Tasks \ {t} : result'[u] = result[u], NEW results
  PROVE  Gathered(results)' = Gathered(results)
<1>1. \A u \in Tasks : pc'[u] = "collected" <=> pc[u] = "collected"
  BY DEF Goto, Types
<1>2. \A u \in Tasks : pc[u] = "collected" => result'[u] = result[u]
  OBVIOUS
<1> QED
  BY <1>1, <1>2 DEF Gathered, In

LEMMA GatheredMore ==
  ASSUME Types, NEW t \in Tasks, Goto(t, "collected"), pc[t] # "collected",
         \A u \in Tasks \ {t} : result'[u] = result[u], NEW results
  PROVE  Cardinality(Gathered(results)') =
           Cardinality(Gathered(results)) + IF result'[t] \in results THEN 1 ELSE 0
<1>1. \A u \in Tasks : pc'[u] = "collected" <=> pc[u] = "collected" \/ u = t
  BY DEF Goto, Types
<1>2. \A u \in Tasks : pc[u] = "collected" => result'[u] = result[u]
  OBVIOUS
<1>3. /\ Gathered(results)' = IF result'[t] \in results THEN Gathered(results) \cup {t}
                              ELSE Gathered(results)
      /\ t \notin Gathered(results)
  BY <1>1, <1>2 DEF Gathered, In
<1> QED
  BY <1>3, GatheredIsFinite, Enter

(* The steps that count nothing: a task goes on, between places that count *)
(* the same.                                                               *)
LEMMA Uncounted ==
  ASSUME IInv, Counted, NEW t \in Tasks, NEW where \in Pc, Goto(t, where),
         (pc[t] \in Waiting /\ where \in Waiting) \/ (pc[t] \in Underway /\ where \in Underway),
         \A u \in Tasks \ {t} : result'[u] = result[u], UNCHANGED <<gstats, unlogged>>
  PROVE  Counted'
<1>1. Types
  BY DEF IInv
<1>2. In(Waiting)' = In(Waiting) /\ In(Underway)' = In(Underway)
  BY <1>1, Passage DEF Waiting, Underway
<1>3. pc[t] # "collected" /\ where # "collected"
  BY DEF Waiting, Underway
<1>4. \A results : Gathered(results)' = Gathered(results)
  BY <1>1, <1>3, GatheredKept
<1> QED
  BY <1>2, <1>4 DEF Counted

LEMMA NothingMoves ==
  ASSUME Counted, UNCHANGED <<pc, result, gstats, unlogged>>
  PROVE  Counted'
<1>1. /\ In(Waiting)' = In(Waiting) /\ In(Underway)' = In(Underway)
      /\ \A results : Gathered(results)' = Gathered(results)
  BY DEF In, Gathered
<1> QED
  BY <1>1 DEF Counted

LEMMA TaskCounts ==
  ASSUME IInv, Counted, NEW t \in Tasks, TaskStep(t)
  PROVE  Counted'
<1>1. Types /\ result \in [Tasks -> Result] /\ gstats \in Counters
  BY DEF IInv, Types
<1>2. CASE StartTask(t)
  <2>1. /\ pc[t] = "log" /\ Goto(t, "mark") /\ gstats' = mailbox_start(gstats)
        /\ UNCHANGED <<result, unlogged>>
    BY <1>2 DEF StartTask, At
  <2>2. SUFFICES ASSUME unlogged = {} PROVE Counted'
    BY <2>1 DEF Counted
  <2>3. /\ Cardinality(In(Waiting)') = Cardinality(In(Waiting)) - 1
        /\ Cardinality(In(Waiting)) > 0
        /\ Cardinality(In(Underway)') = Cardinality(In(Underway)) + 1
    BY <1>1, <2>1, Passage DEF Waiting, Underway, Pc
  <2>4. \A results : Gathered(results)' = Gathered(results)
    BY <1>1, <2>1, GatheredKept
  <2>5. /\ gstats'.pending = Less(gstats.pending) /\ gstats'.running = gstats.running + 1
        /\ gstats'.completed = gstats.completed /\ gstats'.failed = gstats.failed
    BY <1>1, <2>1 DEF mailbox_start, Counters
  <2>6. Cardinality(In(Waiting)) \in Nat
    BY InIsFinite
  <2> QED
    BY <2>1, <2>2, <2>3, <2>4, <2>5, <2>6 DEF Counted, Less
<1>3. CASE LoggerRaises(t)
  BY <1>3 DEF LoggerRaises, Counted
<1>4. CASE /\ ~StartTask(t) /\ ~LoggerRaises(t)
  <2>1. /\ UNCHANGED <<gstats, unlogged>>
        /\ \A u \in Tasks \ {t} : result'[u] = result[u]
    BY <1>1, <1>4 DEF TaskStep, Take, MarkRunning, MarkRunningRaises, AcquireSource, ConnectSource,
       ConnectSourceFails, AcquireTarget, ConnectTarget, ConnectTargetFails, Migrate,
       MigrateRaises, MarkFailed, MarkFailedRaises, Close
  <2>2. \E where \in Pc :
          /\ Goto(t, where)
          /\ \/ pc[t] \in Waiting /\ where \in Waiting
             \/ pc[t] \in Underway /\ where \in Underway
    BY <1>4 DEF TaskStep, Take, MarkRunning, MarkRunningRaises, AcquireSource, ConnectSource,
       ConnectSourceFails, AcquireTarget, ConnectTarget, ConnectTargetFails, Migrate,
       MigrateRaises, MarkFailed, MarkFailedRaises, Close, At, Waiting, Underway, Pc
  <2> QED
    BY <2>1, <2>2, Uncounted
<1> QED
  BY <1>2, <1>3, <1>4

LEMMA CollectCounts ==
  ASSUME IInv, Counted, NEW t \in Tasks, Collect(t) \/ CollectException(t)
  PROVE  Counted'
<1>1. Types /\ result \in [Tasks -> Result] /\ gstats \in Counters
  BY DEF IInv, Types
<1>2. /\ pc[t] = "finished" /\ Goto(t, "collected") /\ UNCHANGED unlogged
      /\ \A u \in Tasks \ {t} : result'[u] = result[u]
      /\ gstats' = mailbox_done(gstats, result'[t])
      /\ result'[t] \in {"success", "partial", "failed"}
  <2>1. CASE Collect(t)
    BY <1>1, <2>1 DEF Collect, At, IInv, Decided, Result
  <2>2. CASE CollectException(t)
    BY <1>1, <2>2 DEF CollectException, At
  <2> QED
    BY <2>1, <2>2
<1>3. SUFFICES ASSUME unlogged = {} PROVE Counted'
  BY <1>2 DEF Counted
<1>4. /\ In(Waiting)' = In(Waiting)
      /\ Cardinality(In(Underway)') = Cardinality(In(Underway)) - 1
      /\ Cardinality(In(Underway)) > 0 /\ Cardinality(In(Underway)) \in Nat
  BY <1>1, <1>2, Passage, InIsFinite DEF Waiting, Underway, Pc
<1>5. /\ Cardinality(Gathered({"success", "partial"})') =
           Cardinality(Gathered({"success", "partial"}))
             + IF result'[t] \in {"success", "partial"} THEN 1 ELSE 0
      /\ Cardinality(Gathered({"failed"})') =
           Cardinality(Gathered({"failed"})) + IF result'[t] \in {"failed"} THEN 1 ELSE 0
      /\ Cardinality(Gathered({"success", "partial"})) \in Nat
      /\ Cardinality(Gathered({"failed"})) \in Nat
  BY <1>1, <1>2, GatheredMore, GatheredIsFinite
<1>6. /\ gstats'.pending = gstats.pending /\ gstats'.running = Less(gstats.running)
      /\ result'[t] \in {"success", "partial"} =>
           gstats'.completed = gstats.completed + 1 /\ gstats'.failed = gstats.failed
      /\ result'[t] = "failed" =>
           gstats'.completed = gstats.completed /\ gstats'.failed = gstats.failed + 1
  BY <1>1, <1>2 DEF mailbox_done, Counters
<1> QED
  BY <1>2, <1>3, <1>4, <1>5, <1>6 DEF Counted, Less

LEMMA SubmitCounts ==
  ASSUME IInv, Counted, Submit
  PROVE  Counted'
<1>1. /\ \A t \in Tasks : pc[t] = "absent"
      /\ gstats \in Counters
  BY DEF IInv, Types, Phases, Submit
<1>2. PICK kept \in SUBSET Tasks :
        /\ pc' = [t \in Tasks |-> IF t \in kept THEN "queued" ELSE "absent"]
        /\ gstats' = [gstats EXCEPT !.pending = Cardinality(kept)]
        /\ UNCHANGED <<result, unlogged>>
  BY DEF Submit, Kept
<1>3. /\ In(Underway) = {} /\ In(Underway)' = {}
      /\ \A results : Gathered(results) = {} /\ Gathered(results)' = {}
      /\ In(Waiting)' = kept
  BY <1>1, <1>2 DEF In, Gathered, Underway, Waiting, Pc
<1>4. /\ gstats'.pending = Cardinality(kept) /\ gstats'.running = gstats.running
      /\ gstats'.completed = gstats.completed /\ gstats'.failed = gstats.failed
  BY <1>1, <1>2 DEF Counters
<1> QED
  BY <1>2, <1>3, <1>4 DEF Counted

(* The counters that the progress line and the web page show are those of  *)
(* the tasks at every moment, unless a task raised before it was counted:  *)
(* the clamp at 0 of mailbox_start and mailbox_done never hides a miscount.*)
THEOREM WorkerPoolCountersMatch == Spec => []CountersMatch
<1>1. Init => IInv /\ Counted
  <2> SUFFICES ASSUME Init PROVE Counted
    BY InitIInv
  <2>1. /\ In(Waiting) = {} /\ In(Underway) = {}
        /\ \A results : Gathered(results) = {}
    BY DEF Init, In, Gathered, Waiting, Underway
  <2> QED
    BY <2>1, FS_EmptySet DEF Init, Counted
<1>2. IInv /\ Counted /\ [Next]_vars => IInv' /\ Counted'
  <2> SUFFICES ASSUME IInv, Counted, [Next]_vars PROVE Counted'
    BY NextIInv
  <2>1. CASE UNCHANGED vars \/ InitRaises \/ Return \/ \E t \in Tasks : CollectRaises(t)
    BY <2>1, NothingMoves DEF vars, InitRaises, Return, CollectRaises
  <2> QED
    BY <2>1, SubmitCounts, CollectCounts, TaskCounts DEF Next, MainStep
<1>3. IInv /\ Counted => CountersMatch
  <2>1. IInv => In(Underway) = Submitted \ In({"queued", "log", "collected"})
    BY DEF IInv, Types, Underway, In, Submitted
  <2> QED
    BY <2>1 DEF Counted, CountersMatch, Gathered, Waiting
<1> QED
  BY <1>1, <1>2, <1>3, PTL DEF Spec
=============================================================================
