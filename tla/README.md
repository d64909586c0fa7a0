# Verification of the IMAP migration suite

TLA+ models of the migration engine, the web UI's jobs and the two agent and portal
systems of this repository, model-checked with TLC, and theorems about them checked
with TLAPS. Paths are relative to the root of the
repository; the engine's package is `src/`.

## The system

The repository holds five programs.

**A. The IMAP engine** (`imap_migrate.py`, `src/`). Copies mailboxes from one
IMAP server to another, as often as it is run, and keeps what it did in a SQLite
database so that the next run only adds what is new.

| component | state it keeps | operations | interacts with |
|---|---|---|---|
| worker of one mailbox (`migrator.py`: `_worker` … `_migrate_one`) | two connections, the folder, UID and attempt it is at, statistics | connect, list folders, per folder a snapshot of UIDs, per UID: duplicate check, header fetch, move detection, fetch, append, record | servers (calls that fail, lose answers, break), state database (shared by all threads), move detector |
| state database (`state_db.py`) | tables `migrated_messages` (unique by source mailbox, folder, UID) and `job_status` | one committed statement per call, writes under a lock | survives crashes |
| move detector (`move_detector.py`) | none | fingerprint, `check`, `execute_move` (UID MOVE, or COPY, STORE, EXPUNGE) | target server, state database |
| thread pool (`migrator.py`: `run`, `GlobalStats`) | futures, two semaphores, counters | submit, collect, handle a crashed worker | job rows, counters shown by the progress line and the web UI |
| rate limiter (`migrator.py`: `RateLimiter`) | a bucket, a lock | `acquire`, which sleeps while it holds the lock | all workers |
| IMAP client (`imap_client.py`) | a connection | one call per IMAP command; most swallow their exception and return nothing | servers |
| reports, logging, TLS policy, command line | lists of entries | write CSV files | - |

*Hard:* a message and its row are written one after the other, to two systems;
the owner of the mailbox moves mail while it is read; a failed call often looks
like an empty answer; a move on the target and its row can come apart.
*Correct when:* what the database calls migrated is on the target and stays
there; a successful run leaves no message behind; a re-run adds only what is new;
duplicates happen only where a failure makes them unavoidable; every run ends, in
a job status that tells the truth, with its connections closed.

**B. The web UI** (`web/`, Flask, one process). `jobs.py` runs at most one job in a
thread of its own; `static/dashboard.js` polls its status every four seconds from any
number of pages; `store.py` keeps users, accounts and settings in SQLite; `auth.py`
counts failed logins. *Hard:* request threads against the job's thread; exceptions outside
the `try` of the job; answers put together in two steps and shown in any order. *Correct
when:* one job at a time is in the engine, every job ends, and what a page shows is a
job's own and, in the end, the last one's.

**C. PST migration** (`Migrate/PstMigration`, C#). Agents poll a portal for jobs, parse
PST files and create items through Microsoft Graph, reporting item status in batches.
The portal keeps `MigrationJobs` and `MigrationItems` (unique by job and item); an agent
keeps its batch. *Hard:* handlers that read first and save later; a batch lost with its
agent; POSTs repeated; timeouts taken for the end of the service. *Correct when:* the
portal believes only what was done, a copy too many is owed to something that went wrong,
and a job ends as its items did.

**D. DKS automation** (`Migrate/Automation`, C#). A portal keeps a row for each device
with its status and at most one pending command; the device's agent gets the command in
the answer to a check-in and runs the Outlook migration step by step, checking in as it
goes. *Hard:* the command is cleared before it arrives; two handlers write the same row;
the agent has steps the portal has no status for. *Correct when:* a command runs, once, and
none is forgotten. The portal's pages validate their forms in the browser
(`jquery.validate.unobtrusive.js`) and again on the server. *Hard:* two validators with
two ideas of an empty field; boxes the server filled and the browser must clear. *Correct
when:* what a box says is about what its field holds, what passes is what the server
takes, and who is refused sees why.

**E. MDaemon calendar tools** (`Migrate/MDaemonCalendar*`, C#). Sequential desktop tools
over files.

## Modules

| module | models | composed of |
|---|---|---|
| `StateDB` | the statements of `state_db.py` as operators on sets of rows | - |
| `Delivery` | abstract specification: at-least-once delivery, never retracted | - |
| `MailboxSync` | the worker of a mailbox, move detector, both servers, over several runs | `StateDB`; implements `Delivery` |
| `WorkerPool` | one call of `run`: main thread, tasks, semaphores, counters, job rows | `StateDB` |
| `JobManager` | `web/jobs.py` | - |
| `Dashboard` | a page that polls the job manager, and `snapshot` | extends `JobManager` |
| `RateLimiter` | `RateLimiter.acquire` | - |
| `PstJob` | portal API, agents and mailboxes of the PST migration | - |
| `DeviceAgent` | a device's row in the DKS portal, its operator and its agent | - |
| `FormValidation` | a form of the DKS portal, in the browser and on the server | - |
| `MC…` | constants of the instances TLC checks | the module of that name |
| `…Proofs` | theorems | the module of that name |

### MailboxSync and StateDB

A *pair* is one line of the CSV: a source mailbox (`SrcOf`) and a target mailbox of its
own. A location is a source folder with a UID. `placed` keeps what every location ever
held (a source server never reuses a UID), `present` says which still hold it. A copy on
the target has a folder, a UID in that folder (`uidNext`: each folder numbers its own), its
message and its `\Deleted` flag. `db` is
`migrated_messages` (folder, UID, target folder and UID, Message-ID, fingerprint,
status, id); `w[p]` holds the locals of `_worker` and the functions it calls, with `pc`
for the place in them:

| `pc` | code |
|---|---|
| queued, list, folder | `_worker`, `_migrate_folders`, `_migrate_folder` |
| uid, header, check, skip | `_process_batch` 1 - 4 |
| move, relocate, moved | `execute_move`, the relocation of its row, the row written after it |
| fetch, append, record, fail | `_migrate_one` |

A call and the handling of its result is one action for each outcome. An action
that models a failure spends one of `MaxFaults`, unless the connection is broken already
(`Break`), after which the calls on it fail for nothing, since the client never reconnects.
`CopyAndFlag` is a move that leaves the old copy: STORE or EXPUNGE raises or is refused and the
move counts as failed (`MoveHalfDone`), or EXPUNGE is refused and it counts as done
(`MoveDone`), since nobody looks at that status. `Folders` are those `folders_only` lets through.
`Crash` kills the process between any two steps. `UserMoves` and `UserReceives` change
the source between any two steps. `steady`, `clean` and `settled` are observers: they
record which locations held still during a run and were covered by a run in which
nothing failed; no action reads them.

Messages are told apart by content; a fingerprint is the message itself
(SHA-256 taken as injective), except that a header fetch that failed gives the
fingerprint of blanks.

### WorkerPool

Each task walks through `_worker`: logger, `mailbox_start`, `mark_running`, the two
semaphores, the connections, the migration (one step, the whole of `MailboxSync`), the
`finally` clause; an exception can leave from every statement that can raise, and a login that is
refused may leave its connection open until `finally`. The main
thread submits, collects in any order of completion, handles a crashed worker,
and may raise itself.

### JobManager and Dashboard

`Accept` is the test and the assignment under the lock; the rest of `start` and `_run` is
interleaved statement by statement with the requests that start other jobs. A job
whose `Thread.start` or whose preparation raises goes to `dead`: both are outside the `try`
that would write its status.

`Dashboard` adds a page. Each of `Polls` is a request that may be under way: sent,
`snapshot` under the lock (`SnapshotState`), the counters of whichever migrator is there
after it (`SnapshotCounters`), and an answer that arrives or is lost in any order, since
`setInterval` does not wait. `counting` holds the jobs whose migrator has its counters.

### RateLimiter

Time is discrete; `Cost` ticks are the time one message takes at the configured rate, `Cap` is
the bucket (`rate` tokens). A sleeper keeps the lock and may wake late.

### PstJob

Jobs are numbered in the order of `CreateFromMappings`. The operator posts any status over any
other (`UpdateStatus`, `Settable`); `posted` records whose status is one of his. `agent[a]` is the
polling loop and the runner: `pc`, the mailboxes left (run in the order the portal listed them,
one that throws is left behind), the items to do, the batch and what it says of each id.

`ModeOf` is what the modes of a mailbox make of an item: it is created; it is only listed
(`MetadataOnly`, the default for mails: `Skip`, a row "Skipped" and no copy); or it is not read
(a disabled mode: no row). The modes of a mapping are not edited once it is made, so they are
constants. `IdOf` is `SourceItemId` with the type of the item; contacts and events have one each,
mails of one Message-ID share it. Rows are kept by id.

The three handlers that read and later save are two actions each: `NextJob`/`NextJobSaved`,
`Flush`/`FlushSaved` or `FlushConflict` (`UpsertItems`), `Complete`/`CompleteSaved` (Entity
Framework writes the status only if it differs from the one read: the verdict `"same"`).
`UpsertItems` inserts what it did not find. If another agent has inserted one of these rows
meanwhile, or one id is new and twice in the batch (a row that is only added is not found),
the unique index refuses the whole batch, with an answer nobody looks at (`Conflict`).

`CreateRepeated` is a POST that `GraphRetryHandler` sends again, up to `MaxRetries` times, though it
was done; the last may make the item, fail or throw. `RunMailboxFails`, `CreateThrows` and
`FlushThrows` give a mailbox up or, for a timeout, end the polling loop (`stopped`); `Crash` and
`Restart` are the service. `handouts`, `repeats`, `lost` and `posted` are observers.

### DeviceAgent

`status` and `pending` are the row. An operator's request reads (`Ask`) and saves the one
column it changed (`AskSaved`); a check-in is sent, read (`CheckIn`, or refused when its
step is no `DeviceStatus`) and saved (`CheckInSaved`). The agent is one thread, so at most
one check-in is under way, though the portal may save it after the agent has died. Every
step is an entry with its check-in, a body with its outcomes, and the check-in of its end; only
the check-in of the main loop (`Report`, `answer`) looks at the command it gets.

### FormValidation

A field has `data-val` attributes; `Adapt` is the adapter that turns one into rules,
`element` the verdict of `jquery.validate` with `onError` and `onSuccess`. `setValidationValues`
keeps one rule to a method, so an adapter registered later takes the place of an earlier one
(`Order`, `Overwrites`, `Kept`): `length` with a maximum alone beside `maxlength`. `jquery.validate` is
a library: the parts of it that decide when a field is judged (a key that changes it, `Type`; another
key or a click on a select, `Rejudge`; loss of focus; submit) are
modelled as the unobtrusive script uses them. `Annotation` holds the
parameters ASP.NET renders: only length attributes have any, and `maxlength` a maximum alone.

The server's verdict (`Unmet`) reads the same attributes the way ASP.NET does. Contents have a
length, may be blank, and have two answers to whether they are an e-mail address: `address` is the
server's (`EmailAddressAttribute`: one @, something on either side), `matches` that of the
expression at `jquery.validate.js:1427`, which takes fewer; that it takes no others
is an assumption of the module. The empty content is the only one of length
zero. `found`, what the fields held when the scripts ran, is an observer.

## Runs

Every property is broken by at least one mutant of the code's model: operators
whose comment begins with "Mutant" stand right before the definition they change.

| run | instance | shows |
|---|---|---|
| `SyncOff` | no move detection; 2 messages (one without Message-ID) in 2 folders, three first contents (one each, one in both, two in one folder), 2 runs, each with or without `--resume`, 2 failures, 1 user step, header fetches may fail | `SuccessIsOnTarget`, `SkipIsJustified`, `SettledIsOnTarget`, `DuplicatesNeedFaults`, `RerunAppendsOnlyNew`, and `AtLeastOnce`: the worker implements `Delivery` |
| `SyncDedupe` | global-dedupe, header fetches do not fail | `SkipIsJustified`, `DuplicatesNeedFaults`: what is skipped is on the target; at most one copy and one for each failure |
| `SyncMove` | move-target, 3 folders, two of them with one target folder (as `_DEFAULT_FOLDER_MAP` has it), the server has UID MOVE, which may be refused; runs may delete; fairness | `SettledIsOnTarget`, `AtLeastOnce`: no failure inside a move loses a message or makes the database wrong about it; `MovesOwnCopy`; `RunEnds` |
| `PoolRun` | 3 mailboxes, 2 threads, 1 slot per server, 3 failures, `--resume` over any old job rows, fairness | `CountersMatch`, `AllDecided`, `ConnectionsClosed`; `RunReturns` |
| `Jobs` | 2 jobs whose preparation or engine may raise, a page with 2 polls under way at once, fairness | `OneEngine`, `FinishIsOwn`, `JobEndsUnlessDead`; `DoneIsDone`, `PageSettles` |
| `Rate` | 2 threads, 2 messages per 6 ticks, 12 ticks | `AtMostTwice` |
| `Forms` | 4 forms of 2 fields (the portal's two, and two with minimal lengths, e-mail, two attributes with one rule, a summary and a box with its own text), contents that are empty, blank, an address to both validators, to the server only and to neither | `FeedbackIsCurrent`, `SentPasses`, `RefusalIsExplained` |
| `Pst` | 1 job, 2 agents, 2 mailboxes: one with 3 items to create, two of them of one id, one with an item to list and one not to read; batches of 2, 1 failure (a POST is then repeated once), an operator who posts `Paused` and `Queued`, to wait again once; fairness | `RowsAreTrue`, `CopiesAreOwed`, `HandoutsBounded`, `EndIsTruthful`; `JobEndsUnlessFault` |
| `Device` | 1 device, all 8 commands, 2 requests of the operator, 2 failures, fairness | `RunsAtMostOnce`, `NotForgotten`; `CommandIsFetched` |

The three `Doc…` runs are described below. Each of `SyncOff`, `PoolRun`, `Jobs`, `Rate`, `Forms`, `Pst` and `Device`
also checks its module's type invariant.

*Bounds.* Two runs are the first and the re-run every property about re-runs speaks of. Two failures are
enough for a failure inside the handling of one (an answer lost, then a row not
written). Two messages tell a skip of the right from one of the wrong; one may
be in both folders. Two UIDs per folder leave room for one arrival; `SyncMove` has one, and a
free folder for it. One pair is enough for
properties of one pair, since pairs with different source mailboxes share only the job table
by different keys. Three tasks are one more than there are threads, which are one more than
there are slots. The second job can start while the first has its `finally` clause to run, and
two polls are enough for a late answer to follow a newer one. In `Rate`, 12 ticks fill the
bucket twice. In `Pst`, two agents may hold one job at once, one of them may die or lose a
call while the other goes on, and queueing again gives each of them the job twice; a batch of two may hold the two items of one
id or not, so it is refused or saved, and one part full follows; one failure can meet every
step, and two agents with a job waiting twice make four attempts even so. `Paused` stands for the statuses
that neither wait nor are an agent's verdict, no step of which tells them apart. In
`Device` a second command meets one that waits, is being fetched or runs; every command
after the first meets the same row. `Forms` has one field that was judged while the other
has the focus; a third field would only be another of the two.

*Deadlock* is not checked where the system may stop: a process is not started again
after `MaxRuns`, a call of `run` returns, time ends, all agents have left their loops, the
device is removed. `Jobs` and `Forms` check it: a page can always poll, a user always type.

*Symmetry* is not used: the larger runs check temporal properties.

*Fairness.* `RunEnds` takes weak fairness of the worker: a thread that can run does,
and each IMAP call answers or fails. `RunReturns` takes weak fairness of the main thread and
of each task. Weak fairness of `AcquireSource` is not enough to get a slot others keep
taking, but each task takes it once in a run, so those ahead run out. Both say that servers answer or
break: `imap_client.py` stores its timeout and never passes it to `imaplib`, so a silent
server does stop a run. `PageSpec` takes weak fairness of each job's thread (not of whoever
starts jobs) and of each poll, and strong fairness of the arrival of an answer: the page asks
again for ever, and answers are not lost for ever. `JobEndsUnlessFault` takes weak fairness of each agent:
a service polls on and is started again when it died; a request the portal has read it also saves.
`CommandIsFetched` takes weak fairness of the agent's loop and the portal's handlers together, as
one thread runs the one and answers come from the other; what the operator and failures do
is never fair.

### Where the documentation and the code part

Each of these runs checks a sentence of the repository against the model of the code, and
TLC finds the behaviour that refutes it (see `findings` in `PROJECT.json`).

| run | sentence | what happens |
|---|---|---|
| `DocFolder` | "mirror folder move on target" (`config.py:179`) | a move on the target loses the target UID, so the next one copies and a second row says success; the one after relocates both rows to one place, violates the UNIQUE key after the copy has left, and the next run skips the message as one that is in its folder |
| `DocOldCopy` | "Delete old target copy" (`move_detector.py:32`) | a run without `--allow-target-delete` relocates the row with its old target folder, and `ON CONFLICT` then sets the new target UID beside it; a later run that may delete moves the copy of another message, which has that UID in the old folder |
| `DocCommand` | "Command … queued. Agent will execute on next check-in" (`DevicesController.cs:68`) | a check-in in the middle of a step fetches the command and the step drops the answer |

The models also show, without a run of their own, these differences between text and code, and
behaviour a reader might not expect, which the properties leave out by a premise:

* `README.md:194` "ensures no message is imported twice": a failure between APPEND and the row
  imports a message again (`DuplicatesNeedFaults` bounds how often).
* `README.md:372` "Re-run … produces 0 migrated": under move-target a message that is in two
  source folders has one row that goes back and forth, and every run handles it again; this
  is why `RerunAppendsOnlyNew` is checked for the other policies only.
* `config.py:161` "retry failed ones": a mailbox with failed messages is `completed`, and
  `--resume` leaves it out.
* `move_detector.py:32` "Delete old target copy": the second time the user moves a message, the
  old copy stays, since the first move lost its target UID.
* `move_detector.py:249` "Update state DB regardless": the relocation violates the UNIQUE key when
  the new location has a row of its own, after the copy was moved; the mailbox fails.
* `config.py:148` "Max simultaneous IMAP connections": the semaphore covers `connect` only.
* `README.md:367` "`--dry-run` completes without errors": `init_job` runs on a database that
  `imap_migrate.py` does not open in a dry run, and raises (`InitRaises`).
* `web/jobs.py:9` "Only ONE job runs at a time (… the state DB …)": the next job may open the
  state database before the last one has closed it; `OneEngine` is what does hold.
* `config.py:153` "Max messages per second": time slept is credited twice; `AtMostTwice` is
  what does hold.
* `move_detector.py:25` "If the same fingerprint already exists on target (any folder), skip":
  `imap_client.py:206` returns nothing for a header fetch that failed, two of them make one
  fingerprint, and the second message is skipped. `SyncDedupe` therefore runs with
  `HeadersMayFail` false.
* `web/jobs.py:100` "A job is already running. Wait for it to finish.": after an exception
  before the `try` (line 135, or `Thread.start`) the status says so for ever; `JobEndsUnlessDead`.
* `web/jobs.py:76` "Merge in the migrator's live counters if a run is active": a finished job's
  `finally` (line 207) may clear the migrator the next job has set, whose counters are then not shown.
* `Migrate/PstMigration/README.md:46` says a re-run never imports twice: what was created since
  the last batch that arrived is created again; `CopiesAreOwed` bounds how often.
* `JobsController.cs:23` "Batched, idempotent item-status upserts": two mails of one Message-ID
  (`XstPstParser.cs:197`) that are new and come in one batch break the unique index, and no row of
  the batch is written; the agent goes on and the job may be called Completed (`FlushConflict`;
  `EndIsTruthful` leaves jobs in `lost` out, whose mailbox was given up or whose batch was lost).
* A job may be called Completed though not one mail of it was imported: `MetadataOnly` is the default,
  and skipped items are no failures (`JobsController.cs:103`). `EndIsTruthful` says so.
* `UpdateStatus` (`JobsController.cs:83`) takes every status at any time, `Completed` for a job that
  runs among them, and a paused or cancelled one is run to its end by the agent that has it;
  `EndIsTruthful` and `JobEndsUnlessFault` except jobs with a posted status.
* `AgentsController.cs:89`, `:104`: a job is marked running before the agent has
  it and offered only while it waits: if the answer or the agent is lost, nobody runs it
  (`faults > 0` in `JobEndsUnlessFault`).
* `migrator.py:375`: a folder that cannot be opened is left out and counts no failure; the run ends
  in success without it (`clean` in `SettledIsOnTarget`).
* `migrator.py:271`: when the logger of a mailbox raises, `mailbox_done` takes back a start that was
  not counted (`unlogged` in `CountersMatch`).
* `jquery.validate.js:1427` takes fewer e-mail addresses than `EmailAddressAttribute`: the browser
  refuses `user@exa_mple`, which the server would take (`Misliked` in `SentPasses`). And an
  attribute whose rule another replaced is checked by the server only (`Kept`). No page of the portal
  has such fields.
* `AgentWorker.cs:105` (PST) breaks out of its loop on `OperationCanceledException`, which a call
  that times out raises too: the agent stops polling until it is restarted.
* `DevicesController.cs:143` "Rollback flagged. Agent will execute on next check-in": `Rollback`
  sets the status and sends no command.
* `Program.cs:22` (DKS portal) reads statuses by name: `WaitingForSignIn`, `ImportingToM365` and
  `CompletedWithWarning` of the agent are none, so those check-ins are refused as a whole
  (the exception `Deaf` in `CommandIsFetched`).
* `Views/Batches/Create.cshtml:15`: its fields have no message box and its summary lists model
  errors only, so the browser refuses the form and says nothing (the condition `Explains` of
  `RefusalIsExplained`).

## Proofs

Each theorem holds for every value of the constants the module's assumption allows.

* **MailboxSync**, in two modules, by invariants each of which contains those before.
  `MailboxSyncProofs`: the types, and that every location a worker or a row names is one that
  held a message (`MailboxSyncTypeOK`, `MailboxSyncInvariant`).
  `SuccessIsOnTarget` says nothing of the worker that is about to write
  the row, so it is not inductive. `SInv` adds that what a worker remembers of its message is
  that message's or blank (`Honest`), that the same holds of a row (`HonestRow`), and that a
  copy EXPUNGE might take has a twin it does not (`Unflagged`); from it
  `MailboxSyncSuccessIsOnTarget` and `MailboxSyncSkipIsJustified` follow.

  `MailboxDeliveryProofs` has the rest:
  - *Refinement.* `RInv` adds the UNIQUE key (`KeyOK`) and that the message being handled
    does not count as migrated yet (`Unacked`). Every step maps to one of `Delivery` or a
    stutter: APPEND delivers, a row with "success" acknowledges, a relocated row reassigns
    (`MailboxSyncAtLeastOnce`).
  - *What is settled.* `SettledIsOnTarget` is about a run as a whole. `TInv` says where each
    location is in it: in a clean run every location that held still, in a folder that was
    opened, is handled, being handled or still to come (`Covered`), and what was handled stays
    so (`HandledStays`). "Handled" cannot be a row that says success: under move-target a row leaves
    with the message. It is a copy on the target there, and a row elsewhere, where
    the row must also bar the location (`MailboxSyncSettledIsOnTarget`).
  - *What is appended.* `Looked`: a message on its way to the target was looked up, and no row
    has come that bars it. With `TInv`, `MailboxSyncRerunAppendsOnlyNew`, an action property.
  - *Duplicates.* Three counts, by what relates two places of one message. `PerPlace`: copies
    are no more than failures, rows that say success, and one if a row is about to be written.
    `PerFingerprint`: the same by fingerprint, where a message whose header was lost owes a copy
    before it is made (`Owed`). `NInv`: before anything has failed, rows and workers have the
    Message-ID, and one copy needs one row. `DInv` is their conjunction
    (`MailboxSyncDuplicatesNeedFaults`). Cardinality steps cite the library's `FS_` theorems.
  - *Moves on the target.* `MovesOwnCopy` needs what every row says of UIDs. `OInv`: UIDs of a
    target folder are given once (`Numbered`), and the folder and UID of a row, or of the worker
    about to write one, are, or were, those of a copy of its message or of none (`NamesOwn`, `KeepsOwn`);
    a row's target folder is that of its place. That last part is what fails without
    permission to delete (`MailboxSyncMovesOwnCopy`, and the run `DocOldCopy`).

  The assumptions are part of the theorems. `Benign`: no two pairs share a source mailbox
  (rows are found by source mailbox and UID, one pair would confirm rows of the other), and
  under move-target a header fetch fails only if the message is gone and nothing is flagged
  `\Deleted` (the hash of blank headers relates any two messages; EXPUNGE takes all that is
  flagged). `HeadersSafe`: header fetches likewise, wherever fingerprints are compared;
  otherwise a message is skipped on account of another's failed fetch. `MayMove`: under
  move-target the engine runs with `--allow-target-delete`; without it a message that moved is
  copied again under the row of its first copy. If that fails the row becomes `failed` although
  the first copy is still there (`MoveImpossible`, then `RecordFailed`), so the promise is taken
  back; if it does not, the row keeps the old target folder beside the new copy's UID.

  The types need none of these. All other theorems about `MailboxSync` assume `Benign`,
  `SkipIsJustified` also `HeadersSafe`, `AtLeastOnce` and `MovesOwnCopy` also `MayMove`; the
  others hold whichever runs may delete. `RerunAppendsOnlyNew` and `DuplicatesNeedFaults` are for
  the policies other than move-target: see the sentence of `README.md:372` above, and a message
  whose row lost the target UID is copied again though nothing failed.
* **WorkerPool** (`WorkerPoolProofs`). `WorkerPoolInvariant` proves the inductive invariant
  `IInv`: besides the types, each semaphore's value plus the number of tasks inside its
  `with` is its limit, a task holds a connection only between connecting and `finally`, and a
  task's job row and result are determined by where it is. `SlotsConserved` alone is not
  inductive (it needs that tasks are finite and each is in one place), nor is
  `JobMatchesResult`, which speaks of the end only. From it `WorkerPoolTypeOK`, `RunDecides`
  (`JobMatchesResult`, `AllDecided`) and `RunDisconnects` (`ConnectionsClosed`) follow.
  `WorkerPoolCountersMatch` is about every moment, also after `run` raised: `Counted` splits the
  tasks by place, and each call of `GlobalStats` moves one task from one class to the next.
* **JobManager** and **Dashboard** (`JobManagerProofs`). `JobManagerInvariant`: the thread between
  `start` and `_finish` is the one whose job has the status. `OneEngineAtATime`, `OwnStatusOnly`.
  For the page, `DoneIsDone` speaks of answers only; `PInv` adds that the manager's own status
  is true, from which answers are taken, and that nothing takes a job back into the engine
  (`GoneStays`); `PageTyped`, `DoneHasLeft`, for any number of polls.
* **RateLimiter** (`RateLimiterProofs`). `Credit` is the inductive strengthening of
  `AtMostTwice`: it counts what has been spent and what is still in the bucket against the time
  credited so far, by two for the time slept. `RateLimiterTypeOK`, `TwiceTheRateAtMost`.
* **PstJob** (`PstJobProofs`). Two accounts make the counts inductive. `Owed`: the copies of an
  item plus the agents that may still make it (it has just got the job, or the item's mailbox
  or the item is still to come) are no more than handouts and repeated POSTs. `Given`: handouts
  plus offers read and not yet saved are no more than agents times rounds, and while a job
  waits its handouts are those of earlier rounds. With what an agent's place says of its
  memory (`Tidy`), every step that only moves an agent is an instance of `QuietStep`, every
  creation one of `CreatingStep`. A second invariant, `TInv`, is about the end of a job: while
  it was handed out once, at most one agent has it; that agent accounts for each item to be read without a
  row, and nobody else's row is in the way of its batch; only items to be imported are
  created; the job ends in an agent's name only when no agent has it any more. It holds for any
  modes, any items that share ids, and any statuses the operator posts at any time. `PstJobTypeOK`, `RowsTellTheTruth`, `NoCopyUnowed`, `OnceToEachAgent`,
  `EndTellsTheTruth`.
* **DeviceAgent** (`DeviceAgentProofs`). `RunsAtMostOnce` is not inductive: `Accounted` adds to
  the times a command ran one if the agent holds it, and one if it is in the row or was read
  from it by a check-in that will clear it. The row and the check-in share that one: a command
  both waiting and read is saved once, and clearing the column ends both. `Exact` makes the
  account an equation until something fails or is wasted; for that the command a check-in
  read must still be in the row when it comes to clear it (`ReadIsInRow`). `DeviceAgentTypeOK`,
  `NoCommandTwice`, `NoCommandForgotten`.
* **FormValidation** (`FormValidationProofs`). `FeedbackIsCurrent` leaves out the field that has
  the focus, so it does not survive its loss: `Judged` adds that no verdict precedes the
  validator, that a field with an error is judged at every key from then on (`submitted`), and
  that a field found right has an empty box even while it has the focus. `Shown` says what a
  refusal put into the boxes and the summary while nothing is edited, `Passed` that what was sent
  had no failing field. `OneRule` compares the rules an attribute is turned into with the server's
  reading of it, content by content, for each attribute whose rule is kept.
  What the two validators think of e-mail differs; all that is assumed is that the browser's
  expression takes nothing the server would not.
  `FormValidationTypeOK`, `FormValidationFeedbackIsCurrent`, `FormValidationSentPasses`,
  `FormValidationRefusalIsExplained`, for any forms and contents.

Every invariant and action property a passing run checks is stated by a theorem. Only
model-checked is liveness (`RunEnds`, `RunReturns`, `JobEndsUnlessDead`, `PageSettles`,
`JobEndsUnlessFault`, `CommandIsFetched`), which, with `ENABLED`, is beyond the prover.
`Credit`, `JobMatchesResult` and `SlotsConserved` are the other way round: theorems rest on
them and no run repeats them.

## Not modelled

* The branch for a dry run inside `_migrate_one`: `run` fails before it (`InitRaises`).
* Back-off, batch size, progress thread, reports and logs: they change no state a property
  reads.
* Two target mailboxes that are one, and mail that others put into the target.
* UIDVALIDITY, which the code does not read; hash collisions; source Message-IDs that are
  shared by different messages; pairs with one source mailbox (the proofs exclude them).
* Servers that never answer, and a connection limit of 0 (`migrator.py:148`), which nobody
  validates and nobody ever gets past.
* Messages flagged `\Deleted`, which EXPUNGE takes along (`move_detector.py:331`): the module has them
  (`DeletedMsgs`), the runs leave them out.
* `migrator.py:72`: `acquire` sleeps with the lock, so all threads wait for one; that is slow,
  not wrong. `migrator.py:257`: the progress thread goes on printing after `run` raised.
* TLS policy, web store, accounts, sessions and views: requests of one statement each. Two of
  them race without further state (`store.py:306`, `views.py:362`, in the hazards).
* PST migration: registration, heartbeat, inventory, the token broker and the token cache,
  PST parsing. A handler that saves after its client gave up is modelled for a lost answer
  (saved or not, at once), not for a save that comes arbitrarily late.
* DKS automation: the mailbox column (a scan's check-in may overwrite the operator's
  `SetMailbox`, `AgentWorker.cs:276`), PST rows, progress, logs, customers, batches; the inside of
  `GraphImporter` (a page of its listing that fails, `GraphImporter.cs:117`, makes items look new).
* PST migration: in `Pst`, modes that are edited while a job runs (no request of the portal edits
  a mapping), and the order of mailboxes, which the portal leaves open and the model takes as one.
* Forms: `onReset` (no form has a reset button), text areas (no form has one; the browser counts
  a line break as one character, the server as two), adapters for ranges, patterns, passwords,
  equality, files and remote checks (no model has their attributes), the browser's own
  `maxlength`.
* MDaemon calendar tools: one sequential pass over files.

## Plan

All modules named above are written, checked and proved about. What would come next:

1. `SettledIsOnTarget` and the others with messages flagged `\Deleted`: which of them hold when EXPUNGE
   takes other messages along, so that `Benign` can say less.
2. Instances of `MailboxSync` with two pairs on one source mailbox, and with UIDs that are
   used again.
3. `GraphImporter`: its duplicate check with listings that break off.
4. The web store: settings saved one by one against a starting job, and the last administrator.
