----------------------------- MODULE MailboxSync -----------------------------
(***************************************************************************)
(* The per-mailbox worker of the IMAP engine: ParallelMigrator._worker and *)
(* everything below it (src/migrator.py), with the move detector           *)
(* (src/move_detector.py), the state database (StateDB) and the two IMAP   *)
(* servers, over several runs of the process.                              *)
(*                                                                         *)
(* A pair is one MailboxPair.  Its source mailbox is SrcOf[pair]; its      *)
(* target mailbox is its own, so the pair also names it.  A location is    *)
(* <<source folder, UID>>.  A source server never gives a UID twice, so    *)
(* placed keeps what a location held after the user moved the message      *)
(* away, and present says which locations hold their message now.          *)
(***************************************************************************)
EXTENDS Naturals, FiniteSets, StateDB

CONSTANTS
  Pairs,              \* the mailbox pairs of the CSV
  Boxes,              \* source mailboxes
  SrcOf,              \* [Pairs -> Boxes]
  Folders, TFolders,  \* folders on the source, on the target
  MapFolder,          \* [Folders -> TFolders], IMAPClient.map_folder_name
  Msgs,               \* messages, told apart by their content
  HasMid,             \* those that carry a Message-ID
  DeletedMsgs,        \* those flagged \Deleted on the source
  Start,              \* possible first contents of a source mailbox
  MaxUid,             \* bound: UIDs a source folder hands out
  Policy,             \* "off" is sync_moves = False, else cfg.move_policy
  AllowTargetDelete,  \* values of cfg.allow_target_delete: each run has its own
  Resume,             \* and of cfg.resume
  RetryCount,         \* cfg.retry_count
  AppendUid,          \* the target server answers APPENDUID
  TargetMoves,        \* the target server has UID MOVE
  HeadersMayFail,     \* a header fetch may fail while the message is there
  MaxRuns,            \* bound: starts of the process
  MaxFaults,          \* bound: failures of any kind
  MaxUserSteps        \* bound: changes the user makes on the source

NoMsg == "no message"
NoFolder == "no folder"
BlankFp == "hash of blank headers"  \* compute_fingerprint("", "", "", "", 0)

Uids == 1 .. MaxUid
Loc == Folders \X Uids
Policies == {"off", "copy-only", "global-dedupe", "move-target"}

ASSUME MailboxSyncAssumption ==
  /\ SrcOf \in [Pairs -> Boxes]
  /\ MapFolder \in [Folders -> TFolders] /\ IsFiniteSet(Folders)
  /\ HasMid \subseteq Msgs
  /\ DeletedMsgs \subseteq Msgs
  /\ {NoMsg, Empty, BlankFp} \cap Msgs = {}
  /\ NoFolder \notin Folders
  /\ Empty \notin TFolders
  /\ Start \subseteq [Loc -> Msgs \cup {NoMsg}]
  /\ Policy \in Policies
  /\ AllowTargetDelete \subseteq BOOLEAN /\ Resume \subseteq BOOLEAN
  /\ {AppendUid, TargetMoves, HeadersMayFail} \subseteq BOOLEAN
  /\ {MaxUid, RetryCount, MaxRuns, MaxFaults, MaxUserSteps} \subseteq Nat

VARIABLES
  placed,   \* [Boxes -> [Loc -> message or NoMsg]], ever
  present,  \* [Boxes -> SUBSET Loc], now
  copies,   \* [Pairs -> set of copies in the target mailbox]
  uidNext,  \* [Pairs -> [TFolders -> the folder's next UID]]
  db,       \* migrated_messages
  lastId,   \* sqlite_sequence: the last AUTOINCREMENT id
  jobs,     \* job_status
  w,        \* [Pairs -> locals of the pair's _worker]
  allow,    \* cfg.allow_target_delete of this run
  runs, faults, userSteps,  \* how much of each bound is used
  steady,   \* observer: locations that held their message since the run began
  clean,    \* observer: nothing has failed in the pair's run
  settled   \* observer: locations covered by a clean run that ended "success"

source == <<placed, present>>
target == <<copies, uidNext>>
table == <<db, lastId>>
bounds == <<runs, faults, userSteps>>
observers == <<steady, clean, settled>>
vars == <<source, target, table, jobs, w, allow, bounds, observers>>

Copy == [folder : TFolders, uid : Nat, msg : Msgs, del : BOOLEAN]
Row == [box : Boxes, loc : Loc, tbox : Pairs, tfolder : TFolders, tuid : Nat,
        mid : Msgs \cup {Empty}, fp : Msgs \cup {Empty, BlankFp},
        status : RowStatus, id : Nat]
Pc == {"idle", "queued", "list", "folder", "uid", "header", "check", "skip",
       "move", "relocate", "moved", "fetch", "append", "record", "fail"}
Worker == [pc : Pc, src : BOOLEAN, tgt : BOOLEAN, failed : BOOLEAN,
           folders : SUBSET Folders, folder : Folders \cup {NoFolder},
           uids : SUBSET Uids, uid : Uids \cup {0},
           mid : Msgs \cup {Empty}, fp : Msgs \cup {Empty, BlankFp},
           attempt : Nat, tuid : Nat]

TypeOK ==
  /\ placed \in [Boxes -> [Loc -> Msgs \cup {NoMsg}]]
  /\ present \in [Boxes -> SUBSET Loc]
  /\ copies \in [Pairs -> SUBSET Copy]
  /\ uidNext \in [Pairs -> [TFolders -> Nat \ {0}]]
  /\ db \subseteq Row
  /\ lastId \in Nat
  /\ jobs \in [Boxes -> JobStatus]
  /\ w \in [Pairs -> Worker]
  /\ allow \in BOOLEAN
  /\ {runs, faults, userSteps} \subseteq Nat
  /\ steady \in [Pairs -> SUBSET Loc]
  /\ clean \in [Pairs -> BOOLEAN]
  /\ settled \in [Pairs -> SUBSET Loc]

IdleWorker == [pc |-> "idle", src |-> FALSE, tgt |-> FALSE, failed |-> FALSE,
               folders |-> {}, folder |-> NoFolder, uids |-> {}, uid |-> 0,
               mid |-> Empty, fp |-> Empty, attempt |-> 0, tuid |-> NoTuid]

Init ==
  /\ placed \in [Boxes -> Start]
  /\ present = [b \in Boxes |-> {l \in Loc : placed[b][l] # NoMsg}]
  /\ copies = [p \in Pairs |-> {}]
  /\ uidNext = [p \in Pairs |-> [t \in TFolders |-> 1]]
  /\ db = {} /\ lastId = 0
  /\ jobs = [b \in Boxes |-> "none"]
  /\ w = [p \in Pairs |-> IdleWorker]
  /\ allow = FALSE
  /\ runs = 0 /\ faults = 0 /\ userSteps = 0
  /\ steady = [p \in Pairs |-> {}]
  /\ clean = [p \in Pairs |-> FALSE]
  /\ settled = [p \in Pairs |-> {}]

-----------------------------------------------------------------------------
(* Helpers.                                                                *)

Here(p) == <<w[p].folder, w[p].uid>>         \* the message being processed
Message(p) == placed[SrcOf[p]][Here(p)]
TFolder(p) == MapFolder[w[p].folder]
OnTarget(p, m) == \E c \in copies[p] : c.msg = m
Readable(p) == w[p].src /\ Here(p) \in present[SrcOf[p]]

Goto(p, new) == w' = [w EXCEPT ![p] = new]
At(p, pc) == w[p].pc = pc
Active(p) == w[p].pc \notin {"idle", "queued"}

(* A failure the code has no part in uses up the bound and soils the run.  *)
Fault(p) ==
  /\ faults < MaxFaults
  /\ faults' = faults + 1
  /\ clean' = [clean EXCEPT ![p] = FALSE]
  /\ UNCHANGED <<allow, runs, userSteps, steady, settled>>
NoFault == UNCHANGED <<allow, bounds, observers>>

(* "continue", and falling off the end of the loop body.                   *)
NextMessage(p) ==
  [w[p] EXCEPT !.pc = "uid", !.uid = 0, !.mid = Empty, !.fp = Empty,
               !.attempt = 0, !.tuid = NoTuid]

(* Enter attempt n of the loop of _migrate_one, or leave the loop.         *)
Attempt(p, n) ==
  [w[p] EXCEPT !.pc = IF n <= RetryCount THEN "fetch" ELSE "fail",
               !.attempt = n, !.tuid = NoTuid]

(* db.record for the current message.                                      *)
Write(p, status, tuid) ==
  /\ db' = record(db, [box |-> SrcOf[p], loc |-> Here(p), tbox |-> p,
                       tfolder |-> TFolder(p), tuid |-> tuid,
                       mid |-> w[p].mid, fp |-> w[p].fp,
                       status |-> status, id |-> lastId + 1])
  /\ lastId' = IF RowsAt(db, SrcOf[p], Here(p)) = {} THEN lastId + 1 ELSE lastId

(* An exception reaches _worker: stats.status = "failed".                  *)
WorkerFails(p) ==
  /\ Goto(p, IdleWorker)
  /\ jobs' = mark_failed(jobs, SrcOf[p])

-----------------------------------------------------------------------------
(* A run of the process, and the frame of _worker.                         *)

(* ParallelMigrator.run: a job row for every pair; under --resume the      *)
(* completed mailboxes are dropped; a task is submitted for each other.    *)
StartProcess ==
  /\ \A p \in Pairs : At(p, "idle")
  /\ runs < MaxRuns /\ runs' = runs + 1
  /\ allow' \in AllowTargetDelete
  /\ jobs' = init_job(jobs, {SrcOf[p] : p \in Pairs})
  /\ \E resume \in Resume :
       w' = [p \in Pairs |->
               IF resume /\ is_mailbox_completed(jobs, SrcOf[p])
                 THEN IdleWorker
                 ELSE [IdleWorker EXCEPT !.pc = "queued"]]
  /\ clean' = [p \in Pairs |-> w'[p].pc = "queued"]
  /\ steady' = [p \in Pairs |-> present[SrcOf[p]]]
  /\ UNCHANGED <<source, target, table, faults, userSteps, settled>>

(* mark_running, then both connections are made.                           *)
Connect(p) ==
  /\ At(p, "queued")
  /\ Goto(p, [w[p] EXCEPT !.pc = "list", !.src = TRUE, !.tgt = TRUE])
  /\ jobs' = mark_running(jobs, SrcOf[p])
  /\ UNCHANGED <<source, target, table>> /\ NoFault

ConnectFails(p) ==
  /\ At(p, "queued")
  /\ WorkerFails(p)
  /\ Fault(p)
  /\ UNCHANGED <<source, target, table>>

(* list_folders swallows its errors and returns no folder.                 *)
ListFolders(p) ==
  /\ At(p, "list")
  /\ \/ /\ w[p].src
        /\ Goto(p, [w[p] EXCEPT !.pc = "folder", !.folders = Folders])
        /\ NoFault
     \/ /\ Goto(p, [w[p] EXCEPT !.pc = "folder"])
        /\ IF w[p].src THEN Fault(p) ELSE NoFault
  /\ UNCHANGED <<source, target, table, jobs>>

(* select_folder, ensure_folder, get_all_uids: the UIDs are a snapshot.    *)
OpenFolder(p, f) ==
  /\ At(p, "folder") /\ f \in w[p].folders
  /\ w[p].src /\ w[p].tgt
  /\ Goto(p, [w[p] EXCEPT !.pc = "uid", !.folder = f, !.folders = @ \ {f},
                          !.uids = {u \in Uids : <<f, u>> \in present[SrcOf[p]]}])
  /\ UNCHANGED <<source, target, table, jobs>> /\ NoFault

(* One of the three failed: the folder is skipped and counts no failure.   *)
SkipFolder(p, f) ==
  /\ At(p, "folder") /\ f \in w[p].folders
  /\ Goto(p, [w[p] EXCEPT !.folders = @ \ {f}])
  /\ IF w[p].src /\ w[p].tgt THEN Fault(p) ELSE NoFault
  /\ UNCHANGED <<source, target, table, jobs>>

(* stats.status is "success" or "partial"; job_status says "completed" of  *)
(* both.                                                                   *)
FinishRun(p) ==
  /\ At(p, "folder") /\ w[p].folders = {}
  /\ Goto(p, IdleWorker)
  /\ jobs' = mark_completed(jobs, SrcOf[p])
  /\ settled' = IF clean[p] /\ ~w[p].failed
                  THEN [settled EXCEPT ![p] = @ \cup steady[p]]
                  ELSE settled
  /\ UNCHANGED <<source, target, table, allow, bounds, steady, clean>>

-----------------------------------------------------------------------------
(* _process_batch.                                                         *)

EndFolder(p) ==
  /\ At(p, "uid") /\ w[p].uids = {}
  /\ Goto(p, [w[p] EXCEPT !.pc = "folder", !.folder = NoFolder])
  /\ UNCHANGED <<source, target, table, jobs>> /\ NoFault

(* Mutant: the check below is gone.                                        *)
NextUidUnchecked(p, u) ==
  /\ At(p, "uid") /\ u \in w[p].uids
  /\ Goto(p, [w[p] EXCEPT !.uids = @ \ {u}, !.pc = "header", !.uid = u])
  /\ UNCHANGED <<source, target, table, jobs>> /\ NoFault

(* 1. is_uid_migrated.                                                     *)
NextUid(p, u) ==
  /\ At(p, "uid") /\ u \in w[p].uids
  /\ Goto(p, IF is_uid_migrated(db, SrcOf[p], <<w[p].folder, u>>)
               THEN [w[p] EXCEPT !.uids = @ \ {u}]
               ELSE [w[p] EXCEPT !.uids = @ \ {u}, !.pc = "header", !.uid = u])
  /\ UNCHANGED <<source, target, table, jobs>> /\ NoFault

(* compute_fingerprint tells messages apart by Message-ID or by headers.   *)
Fingerprint(m) == IF Policy = "off" THEN Empty ELSE m
MessageId(m) == IF m \in HasMid THEN m ELSE Empty

(* 2. fetch_envelope_info or fetch_message_id_header: a failed fetch, like *)
(* the fetch of a message that is gone, returns blanks.                    *)
Header(p) ==
  /\ At(p, "header")
  /\ \/ /\ Readable(p)
        /\ Goto(p, [w[p] EXCEPT !.pc = "check", !.mid = MessageId(Message(p)),
                                !.fp = Fingerprint(Message(p))])
        /\ NoFault
     \/ /\ Goto(p, [w[p] EXCEPT !.pc = "check",
                                !.fp = IF Policy = "off" THEN Empty ELSE BlankFp])
        /\ IF Readable(p) THEN HeadersMayFail /\ Fault(p) ELSE NoFault
  /\ UNCHANGED <<source, target, table, jobs>>

(* Mutant: only the message's own folder counts.                           *)
ActionInFolder(p) ==
  LET existing == ByFingerprint(db, SrcOf[p], p, w[p].fp)
  IN  IF /\ Policy \in {"global-dedupe", "move-target"}
         /\ \E r \in existing : r.loc[1] = w[p].folder
        THEN "skip" ELSE "copy"

(* MoveDetector.check, for the policies that have one.                     *)
Action(p) ==
  LET existing == ByFingerprint(db, SrcOf[p], p, w[p].fp)
  IN  IF Policy \in {"off", "copy-only"} \/ existing = {} THEN "copy"
      ELSE IF \/ Newest(existing).loc[1] = w[p].folder
              \/ Policy = "global-dedupe" THEN "skip"
      ELSE "move"

(* Mutant: no look-up by Message-ID.                                       *)
CheckNoMessageId(p) ==
  /\ At(p, "check")
  /\ Goto(p, CASE Action(p) = "skip" -> [w[p] EXCEPT !.pc = "skip"]
               [] Action(p) = "move" -> [w[p] EXCEPT !.pc = "move"]
               [] OTHER -> Attempt(p, 1))
  /\ UNCHANGED <<source, target, table, jobs>> /\ NoFault

(* 3. and 4.                                                               *)
Check(p) ==
  /\ At(p, "check")
  /\ Goto(p, IF Policy = "off" /\ is_message_id_migrated(db, SrcOf[p], p, w[p].mid)
               THEN [w[p] EXCEPT !.pc = "skip"]
               ELSE CASE Action(p) = "skip" -> [w[p] EXCEPT !.pc = "skip"]
                      [] Action(p) = "move" -> [w[p] EXCEPT !.pc = "move"]
                      [] OTHER -> Attempt(p, 1))
  /\ UNCHANGED <<source, target, table, jobs>> /\ NoFault

RecordSkipped(p) ==
  /\ At(p, "skip")
  /\ Write(p, "skipped", NoTuid)
  /\ Goto(p, NextMessage(p))
  /\ UNCHANGED <<source, target, jobs>> /\ NoFault
-----------------------------------------------------------------------------
(* MoveDetector.execute_move, called with the action "move".               *)

Existing(p) == ByFingerprint(db, SrcOf[p], p, w[p].fp)
Old(p) == Newest(Existing(p))

(* update_fingerprint_location, whose IntegrityError nobody catches before *)
(* _worker.                                                                *)
Relocate(p, newTFolder, next) ==
  /\ UNCHANGED lastId
  /\ IF RelocationConflicts(db, SrcOf[p], w[p].fp, Here(p))
       THEN WorkerFails(p) /\ UNCHANGED db
       ELSE /\ db' = update_fingerprint_location(db, SrcOf[p], w[p].fp, Here(p),
                                                 newTFolder)
            /\ Goto(p, next)
            /\ UNCHANGED jobs

(* The copy on the target is in the right folder already.                  *)
MoveInPlace(p) ==
  /\ At(p, "move") /\ Existing(p) # {}
  /\ Old(p).tfolder = TFolder(p)
  /\ Relocate(p, Empty, [w[p] EXCEPT !.pc = "moved"])
  /\ UNCHANGED <<source, target>> /\ NoFault

(* No row any more, target UID unknown, or deleting not allowed (the row   *)
(* is relocated all the same): the message is copied.                      *)
MoveImpossible(p) ==
  /\ At(p, "move")
  /\ Existing(p) # {} => Old(p).tfolder # TFolder(p)
  /\ Existing(p) = {} \/ ~allow \/ Old(p).tuid = NoTuid
  /\ IF Existing(p) = {} \/ allow
       THEN Goto(p, Attempt(p, 1)) /\ UNCHANGED <<table, jobs>>
       ELSE Relocate(p, Empty, Attempt(p, 1))
  /\ UNCHANGED <<source, target>> /\ NoFault

Moving(p) ==
  /\ At(p, "move") /\ Existing(p) # {}
  /\ Old(p).tfolder # TFolder(p) /\ Old(p).tuid # NoTuid
  /\ allow
  /\ UNCHANGED <<source, table, jobs>>

(* Mutant: the old folder is not selected.                                 *)
MovedFromHere(p) == {c \in copies[p] : c.folder = TFolder(p) /\ c.uid = Old(p).tuid}

(* The copy to move, if the folder still has it under that UID (the server *)
(* answers OK if it has not), and what UID MOVE or UID COPY makes of it.   *)
Moved(p) == {c \in copies[p] : c.folder = Old(p).tfolder /\ c.uid = Old(p).tuid}
Arrived(p) == {[c EXCEPT !.folder = TFolder(p), !.uid = uidNext[p][TFolder(p)]] : c \in Moved(p)}
Expunged(p) == Moved(p) \cup {c \in copies[p] : c.folder = Old(p).tfolder /\ c.del}

NewCopies(p, new) ==
  /\ copies' = [copies EXCEPT ![p] = new]
  /\ uidNext' = [uidNext EXCEPT ![p][TFolder(p)] = @ + 1]

MoveCommand(p) == NewCopies(p, (copies[p] \ Moved(p)) \cup Arrived(p))

(* COPY, then perhaps STORE \Deleted: the old copy is there still.         *)
CopyAndFlag(p, flagged) ==
  NewCopies(p, (copies[p] \ Moved(p))
                 \cup {[c EXCEPT !.del = @ \/ flagged] : c \in Moved(p)}
                 \cup Arrived(p))

(* COPY, STORE \Deleted, EXPUNGE: it takes all that is flagged there.      *)
CopyAndExpunge(p) == NewCopies(p, (copies[p] \ Expunged(p)) \cup Arrived(p))

(* EXPUNGE may be refused: nobody looks at its status.                     *)
MoveDone(p) ==
  /\ Moving(p) /\ w[p].tgt
  /\ \/ TargetMoves /\ MoveCommand(p) /\ NoFault
     \/ CopyAndExpunge(p) /\ IF TargetMoves THEN Fault(p) ELSE NoFault
     \/ CopyAndFlag(p, TRUE) /\ Fault(p)
  /\ Goto(p, [w[p] EXCEPT !.pc = "relocate"])

(* Mutant: the status of UID COPY is not looked at.                        *)
MoveNotChecked(p) ==
  /\ Moving(p) /\ w[p].tgt
  /\ NewCopies(p, copies[p] \ Expunged(p))
  /\ Goto(p, [w[p] EXCEPT !.pc = "relocate"])
  /\ Fault(p)

(* SELECT or COPY fails: nothing happened, the message is copied.          *)
MoveRefused(p) ==
  /\ Moving(p)
  /\ Goto(p, Attempt(p, 1))
  /\ IF w[p].tgt THEN Fault(p) ELSE NoFault
  /\ UNCHANGED target

(* STORE fails after COPY, or EXPUNGE raises after STORE: one more copy.   *)
MoveHalfDone(p) ==
  /\ Moving(p) /\ w[p].tgt
  /\ \E flagged \in BOOLEAN : CopyAndFlag(p, flagged)
  /\ Goto(p, Attempt(p, 1))
  /\ Fault(p)

(* The server did it all; the answer is lost with the connection.          *)
MoveUnconfirmed(p) ==
  /\ Moving(p) /\ w[p].tgt
  /\ \/ TargetMoves /\ MoveCommand(p)
     \/ CopyAndExpunge(p)
  /\ Goto(p, [Attempt(p, 1) EXCEPT !.tgt = FALSE])
  /\ Fault(p)

RelocateRow(p) ==
  /\ At(p, "relocate")
  /\ Relocate(p, TFolder(p), [w[p] EXCEPT !.pc = "moved"])
  /\ UNCHANGED <<source, target>> /\ NoFault

RecordMoved(p) ==
  /\ At(p, "moved")
  /\ Write(p, "success", NoTuid)
  /\ Goto(p, NextMessage(p))
  /\ UNCHANGED <<source, target, jobs>> /\ NoFault

-----------------------------------------------------------------------------
(* 5. _migrate_one.                                                        *)

(* Mutant: the attempts are not counted.                                   *)
FetchForever(p) ==
  /\ At(p, "fetch")
  /\ \/ Readable(p) /\ Goto(p, [w[p] EXCEPT !.pc = "append"]) /\ NoFault
     \/ /\ Goto(p, Attempt(p, w[p].attempt))
        /\ IF Readable(p) THEN Fault(p) ELSE NoFault
  /\ UNCHANGED <<source, target, table, jobs>>

(* fetch_message returns None when the fetch fails or the message is gone. *)
Fetch(p) ==
  /\ At(p, "fetch")
  /\ \/ /\ Readable(p)
        /\ Goto(p, [w[p] EXCEPT !.pc = "append"])
        /\ NoFault
     \/ /\ Goto(p, Attempt(p, w[p].attempt + 1))
        /\ IF Readable(p) THEN Fault(p) ELSE NoFault
  /\ UNCHANGED <<source, target, table, jobs>>

Stored(p) ==
  NewCopies(p, copies[p] \cup {[folder |-> TFolder(p), uid |-> uidNext[p][TFolder(p)],
                                msg |-> Message(p),
                                del |-> Message(p) \in DeletedMsgs]})

AppendMessage(p) ==
  /\ At(p, "append") /\ w[p].tgt
  /\ Stored(p)
  /\ Goto(p, [w[p] EXCEPT !.pc = "record",
                          !.tuid = IF AppendUid THEN uidNext[p][TFolder(p)] ELSE NoTuid])
  /\ UNCHANGED <<source, table, jobs>> /\ NoFault

(* Mutant: the ok of append_message is not looked at.                      *)
AppendNotChecked(p) ==
  /\ At(p, "append")
  /\ Goto(p, [w[p] EXCEPT !.pc = "record"])
  /\ IF w[p].tgt THEN Fault(p) ELSE NoFault
  /\ UNCHANGED <<source, target, table, jobs>>

AppendFails(p) ==
  /\ At(p, "append")
  /\ Goto(p, Attempt(p, w[p].attempt + 1))
  /\ IF w[p].tgt THEN Fault(p) ELSE NoFault
  /\ UNCHANGED <<source, target, table, jobs>>

(* The message is stored, the connection breaks before the answer.         *)
AppendUnconfirmed(p) ==
  /\ At(p, "append") /\ w[p].tgt
  /\ Stored(p)
  /\ Goto(p, [Attempt(p, w[p].attempt + 1) EXCEPT !.tgt = FALSE])
  /\ Fault(p)
  /\ UNCHANGED <<source, table, jobs>>

RecordSuccess(p) ==
  /\ At(p, "record")
  /\ Write(p, "success", w[p].tuid)
  /\ Goto(p, NextMessage(p))
  /\ UNCHANGED <<source, target, jobs>> /\ NoFault

(* The except clause of the loop also catches db.record's own exceptions.  *)
RecordRaises(p) ==
  /\ At(p, "record")
  /\ Goto(p, Attempt(p, w[p].attempt + 1))
  /\ Fault(p)
  /\ UNCHANGED <<source, target, table, jobs>>

RecordFailed(p) ==
  /\ At(p, "fail")
  /\ Write(p, "failed", NoTuid)
  /\ Goto(p, [NextMessage(p) EXCEPT !.failed = TRUE])
  /\ UNCHANGED <<source, target, jobs>> /\ NoFault

(* Any other statement raises: nothing catches it before _worker.          *)
StatementRaises(p) ==
  /\ \/ w[p].pc \in {"check", "skip", "move", "relocate", "moved", "fail"}
     \/ At(p, "uid") /\ w[p].uids # {}
     \/ At(p, "folder") /\ w[p].folders = {}
  /\ WorkerFails(p)
  /\ Fault(p)
  /\ UNCHANGED <<source, target, table>>

-----------------------------------------------------------------------------
(* The environment.                                                        *)

(* A connection breaks.  The client never reconnects within a run.         *)
Break(p) ==
  /\ Active(p)
  /\ \/ w[p].src /\ Goto(p, [w[p] EXCEPT !.src = FALSE])
     \/ w[p].tgt /\ Goto(p, [w[p] EXCEPT !.tgt = FALSE])
  /\ Fault(p)
  /\ UNCHANGED <<source, target, table, jobs>>

(* The process dies.  Both databases and both servers survive.             *)
Crash ==
  /\ \E p \in Pairs : ~At(p, "idle")
  /\ faults < MaxFaults /\ faults' = faults + 1
  /\ w' = [p \in Pairs |-> IdleWorker]
  /\ clean' = [p \in Pairs |-> FALSE]
  /\ UNCHANGED <<source, target, table, jobs, allow, runs, userSteps, steady, settled>>

(* A source folder numbers its messages upwards.                           *)
IsNextSourceUid(b, f, u) ==
  /\ \A v \in Uids : v >= u => placed[b][<<f, v>>] = NoMsg
  /\ u > 1 => placed[b][<<f, u - 1>>] # NoMsg

UserStep ==
  /\ userSteps < MaxUserSteps /\ userSteps' = userSteps + 1
  /\ UNCHANGED <<target, table, jobs, w, allow, runs, faults, clean, settled>>

(* The user moves a message to another source folder: it gets a new UID.   *)
UserMoves(b, l, f) ==
  /\ l \in present[b] /\ f # l[1]
  /\ \E u \in Uids :
       /\ IsNextSourceUid(b, f, u)
       /\ placed' = [placed EXCEPT ![b][<<f, u>>] = placed[b][l]]
       /\ present' = [present EXCEPT ![b] = (@ \ {l}) \cup {<<f, u>>}]
  /\ steady' = [p \in Pairs |-> IF SrcOf[p] = b THEN steady[p] \ {l} ELSE steady[p]]
  /\ UserStep

(* New mail.                                                               *)
UserReceives(b, f, m) ==
  /\ \A l \in Loc : placed[b][l] # m
  /\ \E u \in Uids :
       /\ IsNextSourceUid(b, f, u)
       /\ placed' = [placed EXCEPT ![b][<<f, u>>] = m]
       /\ present' = [present EXCEPT ![b] = @ \cup {<<f, u>>}]
  /\ UNCHANGED steady
  /\ UserStep

-----------------------------------------------------------------------------
(* A step of the worker itself.                                            *)
WorkerStep(p) ==
  \/ Connect(p) \/ ConnectFails(p)
  \/ ListFolders(p) \/ FinishRun(p)
  \/ \E f \in Folders : OpenFolder(p, f) \/ SkipFolder(p, f)
  \/ EndFolder(p) \/ \E u \in Uids : NextUid(p, u)
  \/ Header(p) \/ Check(p) \/ RecordSkipped(p)
  \/ MoveInPlace(p) \/ MoveImpossible(p)
  \/ MoveDone(p) \/ MoveRefused(p) \/ MoveHalfDone(p) \/ MoveUnconfirmed(p)
  \/ RelocateRow(p) \/ RecordMoved(p)
  \/ Fetch(p) \/ AppendMessage(p) \/ AppendFails(p) \/ AppendUnconfirmed(p)
  \/ RecordSuccess(p) \/ RecordRaises(p) \/ RecordFailed(p) \/ StatementRaises(p)

Environment ==
  \/ StartProcess \/ Crash
  \/ \E p \in Pairs : Break(p)
  \/ \E b \in Boxes, f \in Folders :
       \/ \E l \in Loc : UserMoves(b, l, f)
       \/ \E m \in Msgs : UserReceives(b, f, m)

Next == Environment \/ \E p \in Pairs : WorkerStep(p)

Spec == Init /\ [][Next]_vars

(* A thread of the pool that can take a step eventually does.              *)
FairSpec == Spec /\ \A p \in Pairs : WF_vars(WorkerStep(p))
-----------------------------------------------------------------------------
(* Properties.                                                             *)

(* What the database calls migrated can be found on the target: rows are   *)
(* written after APPEND is confirmed, and moves lose nothing.              *)
SuccessIsOnTarget ==
  \A r \in db : r.status = "success" => OnTarget(r.tbox, placed[r.box][r.loc])

(* A message is skipped as a duplicate (by Message-ID or by fingerprint)   *)
(* only if the target has it.                                              *)
SkipIsJustified ==
  \A p \in Pairs : At(p, "skip") => OnTarget(p, Message(p))

(* When a run in which nothing failed ends in "success", every message     *)
(* that stayed put during the run is on the target, and none is lost from  *)
(* there by later runs, whatever fails in them.                            *)
SettledIsOnTarget ==
  \A p \in Pairs : \A l \in settled[p] : OnTarget(p, placed[SrcOf[p]][l])

(* Re-running after such a run imports nothing twice: as long as nothing   *)
(* fails, only locations that are new since are appended.                  *)
RerunAppendsOnlyNew ==
  [][\A p \in Pairs :
       At(p, "append") /\ uidNext'[p] # uidNext[p] /\ clean'[p]
         => Here(p) \notin settled[p]]_vars

(* Without moves on the target, each copy beyond one per location is owed  *)
(* to a failure; beyond the first, where fingerprints relate the locations *)
(* or where Message-IDs do and nothing has failed.                         *)
CopiesOf(p, m) == {c \in copies[p] : c.msg = m}
Places(p, m) == {l \in Loc : placed[SrcOf[p]][l] = m}
Deduplicated(m) ==
  Policy = "global-dedupe" \/ (Policy = "off" /\ m \in HasMid /\ faults = 0)
DuplicatesNeedFaults ==
  \A p \in Pairs : \A m \in Msgs :
    Cardinality(CopiesOf(p, m))
      <= faults + IF Deduplicated(m) THEN 1 ELSE Cardinality(Places(p, m))

(* The copy a move takes away ("Delete old target copy") is of the message *)
(* the worker is at, never of another one, though rows lose target UIDs,   *)
(* come apart from the target in failed moves, and outlive their copies.   *)
(* It needs that every run of move-target may delete on the target.        *)
MovesOwnCopy ==
  \A p \in Pairs :
    At(p, "move") /\ allow /\ Existing(p) # {}
      => \A c \in Moved(p) : c.msg = Message(p)

(* Every run of a mailbox ends: retries are bounded and every loop         *)
(* consumes its input, whatever fails.                                     *)
RunEnds == \A p \in Pairs : ~At(p, "idle") ~> At(p, "idle")

(* At-least-once delivery, never retracted: the abstract specification.    *)
Promise == INSTANCE Delivery WITH
  content   <- placed,
  delivered <- UNION {{<<p, c.msg>> : c \in copies[p]} : p \in Pairs},
  acked     <- {<<r.tbox, r.box, r.loc>> : r \in {s \in db : s.status = "success"}}
AtLeastOnce == Promise!Spec

-----------------------------------------------------------------------------
(* What the documentation says and the code does not do.                   *)

(* move-target: "mirror folder move on target": after a clean run, a       *)
(* message with one place on the source has a copy in the folder that      *)
(* place maps to.                                                          *)
AlonePlaced(p, l) ==
  /\ At(p, "idle") /\ l \in settled[p] \cap present[SrcOf[p]]
  /\ Places(p, placed[SrcOf[p]][l]) \cap present[SrcOf[p]] = {l}
FolderFollows ==
  \A p \in Pairs : \A l \in Loc :
    AlonePlaced(p, l) =>
      \E c \in CopiesOf(p, placed[SrcOf[p]][l]) : c.folder = MapFolder[l[1]]
=============================================================================
