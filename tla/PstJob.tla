-------------------------------- MODULE PstJob --------------------------------
(***************************************************************************)
(* A PST migration job between the portal (PstMigration.Api), the agents   *)
(* that poll it (PstMigration.Agent) and the mailboxes in Microsoft 365    *)
(* (PstMigration.Graph): handing out, importing, reporting in batches and  *)
(* completing, with calls that fail, time out or are repeated, agents that *)
(* die, and handlers of the portal that read first and save later.         *)
(***************************************************************************)
EXTENDS Integers, FiniteSets

CONSTANTS
  Agents,
  Jobs,         \* the jobs that are ever created, numbered in that order
  Mailboxes,    \* the mappings every job covers, as the portal lists them
  Items,        \* the items of the PST files
  BoxOf,        \* [Items -> Mailboxes]
  Ids, IdOf,    \* SourceItemId and type: mails of one Message-ID have one
  ModeOf,       \* what the mailbox's modes make of an item
  BatchSize,
  MaxRetries,   \* GraphRetryHandler's
  Settable,     \* the statuses an operator posts
  MaxFaults,    \* bound: calls that fail, agents that die
  MaxRequeues   \* bound: times an operator lets a job wait again

(* MigrationJobStatus, those NextJob looks for and those Complete writes.  *)
Waiting == {"Ready", "Queued"}
Ended == {"Completed", "CompletedWithErrors"}
Statuses == {"Draft", "Running", "Paused", "Failed", "Cancelled"} \cup Waiting \cup Ended

(* Created in the mailbox, only listed (MetadataOnly), not read (Disabled). *)
Modes == {"import", "inventory", "disabled"}

ASSUME PstJobAssumption ==
  /\ BatchSize \in Nat \ {0} /\ MaxRetries \in Nat
  /\ MaxFaults \in Nat /\ MaxRequeues \in Nat
  /\ Jobs \subseteq Nat \ {0} /\ Mailboxes \subseteq Nat /\ Settable \subseteq Statuses
  /\ BoxOf \in [Items -> Mailboxes] /\ IdOf \in [Items -> Ids] /\ ModeOf \in [Items -> Modes]
  \* an id is one of a mailbox and a type of item, as the rows' key is
  /\ \A m, n \in Items : IdOf[m] = IdOf[n] => BoxOf[m] = BoxOf[n] /\ ModeOf[m] = ModeOf[n]
  /\ IsFiniteSet(Items) /\ IsFiniteSet(Agents)

VARIABLES
  job,       \* [Jobs -> MigrationJob.Status, or "none" before it is created]
  row,       \* [Jobs -> [Ids -> MigrationItem.Status, or "none"]]
  copies,    \* [Jobs -> [Items -> copies the job made in the mailbox]]
  agent,     \* [Agents -> where it is, and its locals]
  faults,    \* spent of MaxFaults
  requeues,  \* [Jobs -> times an operator let it wait again]
  handouts,  \* observer: [Jobs -> times it was given to an agent]
  repeats,   \* observer: [Jobs -> POSTs that were repeated although done]
  lost,      \* observer: jobs of which a mailbox was given up or a batch lost
  posted     \* observer: jobs whose status is one an operator posted

vars == <<job, row, copies, agent, faults, requeues, handouts, repeats, lost, posted>>
observers == <<requeues, handouts, repeats, lost, posted>>

JobStatus == {"none"} \cup Statuses
ItemStatus == {"none", "Completed", "Failed", "Skipped"}
Pc == {"idle", "offered", "granted", "run", "items", "flush", "complete", "stopped", "down"}

(* batch: the items it has to report, and said the last status of each id; *)
(* seen: the rows the portal's handler found for them.                     *)
Agent == [pc : Pc, job : Jobs \cup {0}, left : SUBSET Mailboxes, todo : SUBSET Items,
          batch : SUBSET Items, said : [Ids -> ItemStatus], seen : [Ids -> ItemStatus],
          verdict : {"none", "same"} \cup Ended]

Silent == [s \in Ids |-> "none"]
Resting(pc) == [pc |-> pc, job |-> 0, left |-> {}, todo |-> {}, batch |-> {},
                said |-> Silent, seen |-> Silent, verdict |-> "none"]

TypeOK ==
  /\ job \in [Jobs -> JobStatus]
  /\ row \in [Jobs -> [Ids -> ItemStatus]]
  /\ copies \in [Jobs -> [Items -> Nat]]
  /\ agent \in [Agents -> Agent]
  /\ faults \in 0 .. MaxFaults
  /\ requeues \in [Jobs -> 0 .. MaxRequeues]
  /\ handouts \in [Jobs -> Nat] /\ repeats \in [Jobs -> Nat]
  /\ lost \subseteq Jobs /\ posted \subseteq Jobs

Init ==
  /\ job = [j \in Jobs |-> "none"]
  /\ row = [j \in Jobs |-> Silent]
  /\ copies = [j \in Jobs |-> [m \in Items |-> 0]]
  /\ agent = [a \in Agents |-> Resting("idle")]
  /\ faults = 0
  /\ requeues = [j \in Jobs |-> 0] /\ handouts = requeues /\ repeats = requeues
  /\ lost = {} /\ posted = {}

At(a, pc) == agent[a].pc = pc
JobOf(a) == agent[a].job
Fault == faults < MaxFaults /\ faults' = faults + 1

-----------------------------------------------------------------------------
(* The operator's calls.                                                   *)

(* CreateFromMappings.                                                     *)
CreateJob(j) ==
  /\ job[j] = "none" /\ \A i \in Jobs : i < j => job[i] # "none"
  /\ job' = [job EXCEPT ![j] = "Queued"]
  /\ UNCHANGED <<row, copies, agent, faults, observers>>

(* UpdateStatus: any status over any other, and the only way to wait again.*)
UpdateStatus(j, status) ==
  /\ job[j] \notin {"none", status}
  /\ job' = [job EXCEPT ![j] = status]
  /\ IF status \in Waiting /\ job[j] \notin Waiting
       THEN requeues[j] < MaxRequeues /\ requeues' = [requeues EXCEPT ![j] = @ + 1]
       ELSE UNCHANGED requeues
  /\ posted' = posted \cup {j}
  /\ UNCHANGED <<row, copies, agent, faults, handouts, repeats, lost>>

-----------------------------------------------------------------------------
(* An agent is given a job.                                                *)

(* Mutant: jobs that run are offered too.                                  *)
NextJobAnyOpen(a) ==
  /\ At(a, "idle")
  /\ \E j \in Jobs :
       /\ job[j] \in Waiting \cup {"Running"}
       /\ \A i \in Jobs : job[i] \in Waiting \cup {"Running"} => j <= i
       /\ agent' = [agent EXCEPT ![a].pc = "offered", ![a].job = j]
  /\ UNCHANGED <<job, row, copies, faults, observers>>

(* NextJob reads the oldest job that waits ...                             *)
NextJob(a) ==
  /\ At(a, "idle")
  /\ \E j \in Jobs :
       /\ job[j] \in Waiting /\ \A i \in Jobs : job[i] \in Waiting => j <= i
       /\ agent' = [agent EXCEPT ![a].pc = "offered", ![a].job = j]
  /\ UNCHANGED <<job, row, copies, faults, observers>>

(* ... and saves that it runs, whatever has become of it by then.          *)
NextJobSaved(a) ==
  /\ At(a, "offered")
  /\ job' = [job EXCEPT ![JobOf(a)] = "Running"]
  /\ handouts' = [handouts EXCEPT ![JobOf(a)] = @ + 1]
  /\ agent' = [agent EXCEPT ![a].pc = "granted"]
  /\ posted' = posted \ {JobOf(a)}
  /\ UNCHANGED <<row, copies, faults, requeues, repeats, lost>>

(* The answer is there: RunJobAsync.                                       *)
RunJob(a) ==
  /\ At(a, "granted")
  /\ agent' = [agent EXCEPT ![a].pc = "run", ![a].left = Mailboxes]
  /\ UNCHANGED <<job, row, copies, faults, observers>>

(* It is not: the agent polls again, or, when the client's timeout cancels *)
(* the call, leaves its loop for good as if the service were stopping.     *)
RunJobFails(a) ==
  /\ At(a, "granted") /\ Fault
  /\ \E pc \in {"idle", "stopped"} : agent' = [agent EXCEPT ![a] = Resting(pc)]
  /\ UNCHANGED <<job, row, copies, observers>>

-----------------------------------------------------------------------------
(* RunMailboxAsync.                                                        *)

Handled(j) == {s \in Ids : row[j][s] \in {"Completed", "Skipped"}}
ItemsOf(b) == {m \in Items : BoxOf[m] = b /\ ModeOf[m] # "disabled"}

(* What is known to be done is asked for once, then folders are ensured.   *)
RunNext(a, b) == At(a, "run") /\ b \in agent[a].left /\ \A c \in agent[a].left : b <= c
RunMailbox(a, b) ==
  /\ RunNext(a, b)
  /\ agent' = [agent EXCEPT ![a].pc = "items", ![a].left = @ \ {b},
                 ![a].todo = {m \in ItemsOf(b) : IdOf[m] \notin Handled(JobOf(a))}]
  /\ UNCHANGED <<job, row, copies, faults, observers>>

(* Mutant: a mailbox that throws is run again at once.                     *)
AbandonedRetry(a) ==
  {[Resting("run") EXCEPT !.job = JobOf(a),
      !.left = agent[a].left \cup {BoxOf[m] : m \in agent[a].todo \cup agent[a].batch}]}

(* The mailbox throws: what the batch holds is dropped, the next is run.   *)
(* A timeout ends the polling loop, and the job keeps running in name.     *)
Abandoned(a) ==
  {[Resting("run") EXCEPT !.job = JobOf(a), !.left = agent[a].left], Resting("stopped")}

Loses(a) == lost' = lost \cup {JobOf(a)} /\ UNCHANGED <<requeues, handouts, repeats, posted>>

RunMailboxFails(a, b) ==
  /\ RunNext(a, b) /\ Fault
  /\ \/ agent' = [agent EXCEPT ![a].left = @ \ {b}]
     \/ agent' = [agent EXCEPT ![a] = Resting("stopped")]
  /\ UNCHANGED <<job, row, copies>>
  /\ Loses(a)

NextItem(a, m) ==
  At(a, "items") /\ m \in agent[a].todo /\ Cardinality(agent[a].batch) < BatchSize
NextImport(a, m) == NextItem(a, m) /\ ModeOf[m] = "import"

Made(a, m, n) == copies' = [copies EXCEPT ![JobOf(a)][m] = @ + n]
Record(a, m, status) ==
  agent' = [agent EXCEPT ![a].todo = @ \ {m}, ![a].batch = @ \cup {m},
              ![a].said = [@ EXCEPT ![IdOf[m]] = status]]

(* CreateContact, CreateCalendarEvent, CreateMail.                         *)
Create(a, m) ==
  /\ NextImport(a, m)
  /\ Made(a, m, 1) /\ Record(a, m, "Completed")
  /\ UNCHANGED <<job, row, faults, observers>>

(* CreateMail of a mailbox whose mails are only listed.                    *)
Skip(a, m) ==
  /\ NextItem(a, m) /\ ModeOf[m] = "inventory"
  /\ Record(a, m, "Skipped")
  /\ UNCHANGED <<job, row, copies, faults, observers>>

(* Graph made the item and answered 429 or 5xx, n times: GraphRetryHandler *)
(* posts again, and the last POST may make it, fail or throw.              *)
CreateRepeated(a, m) ==
  /\ NextImport(a, m) /\ Fault
  /\ \E n \in 1 .. MaxRetries, last \in {0, 1} :
       /\ Made(a, m, n + last)
       /\ repeats' = [repeats EXCEPT ![JobOf(a)] = @ + n]
       /\ \/ last = 1 /\ Record(a, m, "Completed") /\ UNCHANGED lost
          \/ Record(a, m, "Failed") /\ UNCHANGED lost
          \/ /\ \E next \in Abandoned(a) : agent' = [agent EXCEPT ![a] = next]
             /\ lost' = lost \cup {JobOf(a)}
  /\ UNCHANGED <<job, row, requeues, handouts, posted>>

(* Mutant: an error of Graph is an item that was done.                     *)
CreateNotChecked(a, m) ==
  /\ NextImport(a, m) /\ Fault
  /\ \E n \in {0, 1} : Made(a, m, n)
  /\ Record(a, m, "Completed")
  /\ UNCHANGED <<job, row, observers>>

(* Graph refuses the item, or a large attachment once the message is made. *)
CreateFails(a, m) ==
  /\ NextImport(a, m) /\ Fault
  /\ \E n \in {0, 1} : Made(a, m, n)
  /\ Record(a, m, "Failed")
  /\ UNCHANGED <<job, row, observers>>

(* Any other exception, reading the item or making it.                     *)
CreateThrows(a, m) ==
  /\ NextItem(a, m) /\ Fault
  /\ \E n \in {0, 1} : Made(a, m, n) /\ (n = 1 => ModeOf[m] = "import")
  /\ \E next \in Abandoned(a) : agent' = [agent EXCEPT ![a] = next]
  /\ UNCHANGED <<job, row>>
  /\ Loses(a)

(* UpsertItems looks for the rows of what it is sent.                      *)
Sent(a) ==
  agent' = [agent EXCEPT ![a].pc = "flush",
              ![a].seen = [s \in Ids |-> IF agent[a].said[s] = "none" THEN "none"
                                         ELSE row[JobOf(a)][s]]]

(* Mutant: what is left in the batch when the items end is not sent.       *)
FlushFull(a) ==
  /\ At(a, "items") /\ agent[a].batch # {}
  /\ Cardinality(agent[a].batch) >= BatchSize
  /\ Sent(a)
  /\ UNCHANGED <<job, row, copies, faults, observers>>

(* Flush, when the batch is full and at the end.                           *)
Flush(a) ==
  /\ At(a, "items") /\ agent[a].batch # {}
  /\ Cardinality(agent[a].batch) >= BatchSize \/ agent[a].todo = {}
  /\ Sent(a)
  /\ UNCHANGED <<job, row, copies, faults, observers>>

(* The rows to insert break the unique index: another agent has inserted   *)
(* one by then, or an id is in the batch twice, for the rows that are only *)
(* added are not found.                                                    *)
Inserted(a) == {s \in Ids : agent[a].said[s] # "none" /\ agent[a].seen[s] = "none"}
Conflict(a) ==
  \/ \E s \in Inserted(a) : row[JobOf(a)][s] # "none"
  \/ \E m, n \in agent[a].batch : m # n /\ IdOf[m] = IdOf[n] /\ IdOf[m] \in Inserted(a)

(* SaveChanges writes what differs from what was read, or nothing.         *)
Reported(a) ==
  /\ ~Conflict(a)
  /\ row' = [row EXCEPT ![JobOf(a)] =
               [s \in Ids |-> IF agent[a].said[s] = agent[a].seen[s] THEN @[s]
                              ELSE agent[a].said[s]]]
Cleared(a) ==
  agent' = [agent EXCEPT ![a].pc = "items", ![a].batch = {}, ![a].said = Silent,
              ![a].seen = Silent]

FlushSaved(a) ==
  /\ At(a, "flush")
  /\ Reported(a) /\ Cleared(a)
  /\ UNCHANGED <<job, copies, faults, observers>>

(* 500, which nobody looks at.                                             *)
FlushConflict(a) ==
  /\ At(a, "flush") /\ Conflict(a)
  /\ Cleared(a)
  /\ UNCHANGED <<job, row, copies, faults>>
  /\ Loses(a)

(* The portal refuses the batch; nobody looks at that either.              *)
FlushRefused(a) ==
  /\ At(a, "flush") /\ Fault
  /\ Cleared(a)
  /\ UNCHANGED <<job, row, copies>>
  /\ Loses(a)

(* No answer, the batch saved or not.                                      *)
FlushThrows(a) ==
  /\ At(a, "flush") /\ Fault
  /\ Reported(a) \/ UNCHANGED row
  /\ \E next \in Abandoned(a) : agent' = [agent EXCEPT ![a] = next]
  /\ UNCHANGED <<job, copies>>
  /\ Loses(a)

MailboxDone(a) ==
  /\ At(a, "items") /\ agent[a].todo = {} /\ agent[a].batch = {}
  /\ agent' = [agent EXCEPT ![a].pc = "run"]
  /\ UNCHANGED <<job, row, copies, faults, observers>>

-----------------------------------------------------------------------------
(* Complete.                                                               *)

(* Mutant: a job fails with its items.                                     *)
VerdictFailed(j) ==
  IF \E s \in Ids : row[j][s] = "Failed" THEN "Failed" ELSE "Completed"

(* Mutant: only the job's own status decides, not its items.               *)
VerdictOfRows(j) == "Completed"

Verdict(j) ==
  IF \E s \in Ids : row[j][s] = "Failed" THEN "CompletedWithErrors" ELSE "Completed"

(* It reads the job and whether an item of it failed ...                   *)
Complete(a) ==
  /\ At(a, "run") /\ agent[a].left = {}
  /\ agent' = [agent EXCEPT ![a].pc = "complete",
                 ![a].verdict = IF Verdict(JobOf(a)) = job[JobOf(a)] THEN "same"
                                ELSE Verdict(JobOf(a))]
  /\ UNCHANGED <<job, row, copies, faults, observers>>

(* ... and saves the status if it is another than it read.                 *)
Concluded(a) ==
  IF agent[a].verdict = "same" THEN job ELSE [job EXCEPT ![JobOf(a)] = agent[a].verdict]

Concludes(a) ==
  /\ job' = Concluded(a)
  /\ posted' = IF agent[a].verdict = "same" THEN posted ELSE posted \ {JobOf(a)}

CompleteSaved(a) ==
  /\ At(a, "complete")
  /\ Concludes(a)
  /\ agent' = [agent EXCEPT ![a] = Resting("idle")]
  /\ UNCHANGED <<row, copies, faults, requeues, handouts, repeats, lost>>

(* The call fails, saved or not; its status is not looked at, but a        *)
(* timeout ends the polling loop.                                          *)
CompleteFails(a) ==
  /\ At(a, "complete") /\ Fault
  /\ Concludes(a) \/ UNCHANGED <<job, posted>>
  /\ \E pc \in {"idle", "stopped"} : agent' = [agent EXCEPT ![a] = Resting(pc)]
  /\ UNCHANGED <<row, copies, requeues, handouts, repeats, lost>>

-----------------------------------------------------------------------------
(* The agent's process dies, in the middle of whatever it does, and is     *)
(* started again.  What its last request had yet to save is not saved.     *)
Crash(a) ==
  /\ ~At(a, "down") /\ Fault
  /\ agent' = [agent EXCEPT ![a] = Resting("down")]
  /\ UNCHANGED <<job, row, copies, observers>>

Restart(a) ==
  /\ At(a, "down")
  /\ agent' = [agent EXCEPT ![a] = Resting("idle")]
  /\ UNCHANGED <<job, row, copies, faults, observers>>

-----------------------------------------------------------------------------
Works(a) ==
  \/ NextJob(a) \/ NextJobSaved(a) \/ RunJob(a)
  \/ \E b \in Mailboxes : RunMailbox(a, b)
  \/ \E m \in Items : Create(a, m) \/ Skip(a, m)
  \/ Flush(a) \/ FlushSaved(a) \/ FlushConflict(a) \/ MailboxDone(a)
  \/ Complete(a) \/ CompleteSaved(a)
  \/ Restart(a)

Fails(a) ==
  \/ RunJobFails(a) \/ \E b \in Mailboxes : RunMailboxFails(a, b)
  \/ \E m \in Items : CreateRepeated(a, m) \/ CreateFails(a, m) \/ CreateThrows(a, m)
  \/ FlushRefused(a) \/ FlushThrows(a) \/ CompleteFails(a) \/ Crash(a)

Next ==
  \/ \E j \in Jobs : CreateJob(j) \/ \E status \in Settable : UpdateStatus(j, status)
  \/ \E a \in Agents : Works(a) \/ Fails(a)

Spec == Init /\ [][Next]_vars

(* An agent's loop goes on, and a service that died is started again.      *)
FairSpec == Spec /\ \A a \in Agents : WF_vars(Works(a))

-----------------------------------------------------------------------------
(* Properties.                                                             *)

(* What the portal calls Completed is in the mailbox, and what it calls    *)
(* Skipped was only to be listed, whichever agents wrote the row, and      *)
(* however late; so is what a batch says.                                  *)
TrueOf(j, s, status) ==
  /\ status = "Completed" => \E m \in Items : IdOf[m] = s /\ copies[j][m] > 0
  /\ status = "Skipped" => \A m \in Items : IdOf[m] = s => ModeOf[m] = "inventory"
RowsAreTrue ==
  /\ \A j \in Jobs, s \in Ids : TrueOf(j, s, row[j][s])
  /\ \A a \in Agents, s \in Ids : TrueOf(JobOf(a), s, agent[a].said[s])

(* Every copy of an item beyond the first is owed to the job being handed  *)
(* out once more, or to a POST that was repeated.                          *)
CopiesAreOwed ==
  \A j \in Jobs, m \in Items : copies[j][m] <= handouts[j] + repeats[j]

(* A job is handed out at most once to each agent every time it waits.     *)
HandoutsBounded ==
  \A j \in Jobs : handouts[j] <= Cardinality(Agents) * (1 + requeues[j])

(* A job that its agent ended, the only one that had it, with no mailbox   *)
(* given up and no batch lost or refused, knows of every item that was to  *)
(* be read, has made each at most once but for repeated POSTs, and is      *)
(* called Completed only if each that was to be imported is in the mailbox *)
(* (one of those that share its id is) and the others are listed.          *)
EndIsTruthful ==
  \A j \in Jobs \ (lost \cup posted) : job[j] \in Ended /\ handouts[j] = 1 =>
    \A m \in Items : ModeOf[m] # "disabled" =>
      /\ row[j][IdOf[m]] # "none" /\ copies[j][m] <= 1 + repeats[j]
      /\ job[j] = "Completed" =>
           IF ModeOf[m] = "inventory" THEN row[j][IdOf[m]] = "Skipped"
           ELSE \E n \in Items : IdOf[n] = IdOf[m] /\ copies[j][n] > 0

(* A job that waits comes to an end, unless an operator posts another      *)
(* status, a call fails or an agent dies: a job whose agent is gone is     *)
(* never offered again.                                                    *)
JobEndsUnlessFault ==
  \A j \in Jobs :
    job[j] \in Waiting
      ~> job[j] \in Ended \/ (j \in posted /\ job[j] \notin Waiting) \/ faults > 0

=============================================================================
