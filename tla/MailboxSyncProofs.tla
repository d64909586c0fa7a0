-------------------------- MODULE MailboxSyncProofs --------------------------
(***************************************************************************)
(* The types of MailboxSync, for any number of mailboxes, folders,         *)
(* messages, runs and failures, and with them that whatever a worker or a  *)
(* row of the state database refers to is a place that held a message.     *)
(***************************************************************************)
EXTENDS MailboxSync, TLAPS

-----------------------------------------------------------------------------
(* The inductive invariant.                                                *)

Processing == {"header", "check", "skip", "move", "relocate", "moved",
               "fetch", "append", "record", "fail"}

(* v may be the locals of a worker of the source mailbox b: the folder it  *)
(* is at, the UIDs it has yet to look at and the UID it is at are real.    *)
Good(b, v) ==
  /\ v \in Worker
  /\ v.pc \in Processing \cup {"uid"} =>
       v.folder \in Folders /\ \A u \in v.uids : placed[b][<<v.folder, u>>] # NoMsg
  /\ v.pc \in Processing =>
       v.uid \in Uids /\ placed[b][<<v.folder, v.uid>>] # NoMsg

PlacesOK == \A b \in Boxes : \A l \in present[b] : placed[b][l] # NoMsg
WorkersOK == \A p \in Pairs : Good(SrcOf[p], w[p])
RowsOK == \A r \in db : placed[r.box][r.loc] # NoMsg

SourceOK ==
  /\ placed \in [Boxes -> [Loc -> Msgs \cup {NoMsg}]]
  /\ present \in [Boxes -> SUBSET Loc]
  /\ PlacesOK
TargetOK == copies \in [Pairs -> SUBSET Copy] /\ uidNext \in [Pairs -> [TFolders -> Nat \ {0}]]
TableOK == db \subseteq Row /\ lastId \in Nat /\ RowsOK
JobsOK == jobs \in [Boxes -> JobStatus]
LocalsOK == w \in [Pairs -> Worker] /\ WorkersOK
RestOK ==
  /\ allow \in BOOLEAN
  /\ runs \in Nat /\ faults \in Nat /\ userSteps \in Nat
  /\ steady \in [Pairs -> SUBSET Loc]
  /\ clean \in [Pairs -> BOOLEAN]
  /\ settled \in [Pairs -> SUBSET Loc]

(* The types, and the places, in parts that the actions change on their    *)
(* own.                                                                    *)
IInv == SourceOK /\ TargetOK /\ TableOK /\ JobsOK /\ LocalsOK /\ RestOK

LEMMA IInvTypes == IInv => TypeOK
  BY Zenon DEF IInv, TypeOK, SourceOK, TargetOK, TableOK, JobsOK, LocalsOK, RestOK

-----------------------------------------------------------------------------
(* The locals of a worker.                                                 *)

LEMMA GoodIdle == ASSUME NEW b PROVE Good(b, IdleWorker)
  BY DEF Good, IdleWorker, Worker, Pc, Processing, NoTuid

LEMMA GoodBroken ==
  ASSUME NEW b, NEW v, Good(b, v)
  PROVE  Good(b, [v EXCEPT !.src = FALSE]) /\ Good(b, [v EXCEPT !.tgt = FALSE])
  BY DEF Good, Worker

LEMMA GoodPc ==
  ASSUME NEW b, NEW v, Good(b, v), v.pc \in Processing, NEW pc \in Processing
  PROVE  Good(b, [v EXCEPT !.pc = pc])
  BY DEF Good, Worker, Processing, Pc

LEMMA GoodNext ==
  ASSUME NEW p \in Pairs, NEW b, Good(b, w[p]), w[p].pc \in Processing
  PROVE  /\ Good(b, NextMessage(p))
         /\ Good(b, [NextMessage(p) EXCEPT !.failed = TRUE])
  BY DEF Good, Worker, Processing, Pc, NextMessage, NoTuid

LEMMA GoodAttempt ==
  ASSUME NEW p \in Pairs, NEW b, Good(b, w[p]), w[p].pc \in Processing, NEW n \in Nat
  PROVE  /\ Good(b, Attempt(p, n))
         /\ Good(b, [Attempt(p, n) EXCEPT !.tgt = FALSE])
  BY DEF Good, Worker, Processing, Pc, Attempt, NoTuid

(* A step of one worker, put together from what it does to each part.      *)
LEMMA OneWorker ==
  ASSUME IInv, NEW p \in Pairs, NEW v, Good(SrcOf[p], v), Goto(p, v),
         UNCHANGED source, TargetOK', TableOK', JobsOK', RestOK'
  PROVE  IInv'
<1>1. SourceOK'
  BY DEF IInv, SourceOK, source, PlacesOK
<1>2. w' \in [Pairs -> Worker]
  BY DEF IInv, LocalsOK, Goto, Good
<1>3. ASSUME NEW q \in Pairs PROVE Good(SrcOf[q], w[q])'
  <2>1. Good(SrcOf[q], w'[q])
    BY DEF IInv, LocalsOK, Goto, WorkersOK
  <2> QED BY <2>1 DEF Good, source
<1> QED
  BY <1>1, <1>2, <1>3 DEF IInv, LocalsOK, WorkersOK

-----------------------------------------------------------------------------
(* The state database.                                                     *)

(* The rows after record: the new one, old ones, and old ones updated.     *)
LEMMA RecordRows ==
  ASSUME NEW rows \in SUBSET Row, NEW new \in Row, NEW r \in record(rows, new)
  PROVE  /\ r \in Row
         /\ \/ r = new \/ r \in rows
            \/ \E o \in RowsAt(rows, new.box, new.loc) :
                 /\ r.box = o.box /\ r.loc = o.loc /\ r.tbox = o.tbox /\ r.mid = o.mid
                 /\ r.tfolder = o.tfolder /\ r.status = new.status /\ r.tuid = new.tuid
                 /\ r.fp = IF new.fp # Empty THEN new.fp ELSE o.fp
<1>1. \/ r = new \/ r \in rows
      \/ \E o \in RowsAt(rows, new.box, new.loc) :
           r = [o EXCEPT !.status = new.status, !.tuid = new.tuid,
                         !.fp = IF new.fp # Empty THEN new.fp ELSE o.fp]
  BY DEF record
<1>2. CASE r = new \/ r \in rows
  BY <1>2
<1>3. ASSUME NEW o \in RowsAt(rows, new.box, new.loc),
             r = [o EXCEPT !.status = new.status, !.tuid = new.tuid,
                           !.fp = IF new.fp # Empty THEN new.fp ELSE o.fp]
      PROVE  /\ r \in Row
             /\ r.box = o.box /\ r.loc = o.loc /\ r.tbox = o.tbox /\ r.mid = o.mid
             /\ r.tfolder = o.tfolder /\ r.status = new.status /\ r.tuid = new.tuid
             /\ r.fp = IF new.fp # Empty THEN new.fp ELSE o.fp
  <2> DEFINE fp == IF new.fp # Empty THEN new.fp ELSE o.fp
  <2>1. o \in Row
    BY DEF RowsAt
  <2>2. new.status \in RowStatus /\ new.tuid \in Nat /\ fp \in Msgs \cup {Empty, BlankFp}
    BY <2>1 DEF Row
  <2> HIDE DEF fp
  <2>3. r = [o EXCEPT !.status = new.status, !.tuid = new.tuid, !.fp = fp]
    BY <1>3 DEF fp
  <2>4. /\ r \in Row
        /\ r.box = o.box /\ r.loc = o.loc /\ r.tbox = o.tbox /\ r.mid = o.mid
        /\ r.tfolder = o.tfolder /\ r.status = new.status /\ r.tuid = new.tuid
        /\ r.fp = fp
    BY <2>1, <2>2, <2>3 DEF Row
  <2> QED BY <2>4 DEF fp
<1> QED
  BY <1>1, <1>2, <1>3

(* The rows after update_fingerprint_location: old ones, and relocated     *)
(* ones.                                                                   *)
LEMMA RelocatedRows ==
  ASSUME NEW rows \in SUBSET Row, NEW box, NEW fp, NEW loc \in Loc,
         NEW tfolder \in TFolders \cup {Empty},
         NEW r \in update_fingerprint_location(rows, box, fp, loc, tfolder)
  PROVE  /\ r \in Row
         /\ \/ r \in rows
            \/ \E o \in Relocated(rows, box, fp) :
                 /\ r.loc = loc /\ r.box = o.box /\ r.tbox = o.tbox
                 /\ r.mid = o.mid /\ r.fp = o.fp /\ r.status = o.status
                 /\ IF tfolder = Empty THEN r.tfolder = o.tfolder /\ r.tuid = o.tuid
                                       ELSE r.tfolder = tfolder /\ r.tuid = NoTuid
<1>1. CASE r \in rows
  BY <1>1
<1>2. ASSUME NEW o \in Relocated(rows, box, fp),
             r = IF tfolder = Empty
                   THEN [o EXCEPT !.loc = loc]
                   ELSE [o EXCEPT !.loc = loc, !.tfolder = tfolder, !.tuid = NoTuid]
      PROVE  /\ r \in Row
             /\ r.loc = loc /\ r.box = o.box /\ r.tbox = o.tbox
             /\ r.mid = o.mid /\ r.fp = o.fp /\ r.status = o.status
             /\ IF tfolder = Empty THEN r.tfolder = o.tfolder /\ r.tuid = o.tuid
                                   ELSE r.tfolder = tfolder /\ r.tuid = NoTuid
  <2>1. o \in Row
    BY DEF Relocated
  <2>2. CASE tfolder = Empty
    <3>1. r = [o EXCEPT !.loc = loc]
      BY <1>2, <2>2
    <3> QED BY <2>1, <2>2, <3>1 DEF Row
  <2>3. CASE tfolder \in TFolders /\ tfolder # Empty
    <3>1. r = [o EXCEPT !.loc = loc, !.tfolder = tfolder, !.tuid = NoTuid]
      BY <1>2, <2>3
    <3> QED BY <2>1, <2>3, <3>1 DEF Row, NoTuid
  <2> QED BY <2>2, <2>3
<1> QED
  BY <1>1, <1>2 DEF update_fingerprint_location

-----------------------------------------------------------------------------
(* What the parts of an action do.                                         *)

LEMMA Failing ==
  ASSUME IInv, NEW p \in Pairs, Fault(p) \/ NoFault
  PROVE  RestOK'
<1>1. CASE NoFault
  BY <1>1 DEF IInv, RestOK, NoFault, bounds, observers
<1>2. CASE Fault(p)
  BY <1>2 DEF IInv, RestOK, Fault
<1> QED
  BY <1>1, <1>2

(* Where the worker is: a location of its own source mailbox.              *)
LEMMA Whereabouts ==
  ASSUME IInv, NEW p \in Pairs, w[p].pc \in Processing
  PROVE  /\ SrcOf[p] \in Boxes /\ Here(p) \in Loc /\ TFolder(p) \in TFolders
         /\ w[p].mid \in Msgs \cup {Empty} /\ w[p].fp \in Msgs \cup {Empty, BlankFp}
         /\ w[p].tuid \in Nat /\ w[p].attempt \in Nat
         /\ Message(p) \in Msgs /\ Message(p) # NoMsg
         /\ Good(SrcOf[p], w[p]) /\ w[p] \in Worker
<1>1. Good(SrcOf[p], w[p]) /\ SrcOf[p] \in Boxes
  BY MailboxSyncAssumption DEF IInv, LocalsOK, WorkersOK
<1>2. w[p] \in Worker /\ w[p].folder \in Folders /\ w[p].uid \in Uids
      /\ placed[SrcOf[p]][Here(p)] # NoMsg
  BY <1>1 DEF Good, Here
<1>3. Here(p) \in Loc /\ TFolder(p) \in TFolders
  BY <1>2, MailboxSyncAssumption DEF Here, Loc, TFolder
<1>4. Message(p) \in Msgs
  BY <1>1, <1>2, <1>3 DEF IInv, SourceOK, Message
<1>5. /\ w[p].mid \in Msgs \cup {Empty} /\ w[p].fp \in Msgs \cup {Empty, BlankFp}
      /\ w[p].tuid \in Nat /\ w[p].attempt \in Nat
  BY <1>2 DEF Worker
<1> QED
  BY <1>1, <1>2, <1>3, <1>4, <1>5 DEF Message

LEMMA Writing ==
  ASSUME IInv, NEW p \in Pairs, w[p].pc \in Processing,
         NEW status \in RowStatus, NEW tuid \in Nat,
         Write(p, status, tuid), UNCHANGED source
  PROVE  TableOK'
<1> DEFINE new == [box |-> SrcOf[p], loc |-> Here(p), tbox |-> p,
                   tfolder |-> TFolder(p), tuid |-> tuid,
                   mid |-> w[p].mid, fp |-> w[p].fp,
                   status |-> status, id |-> lastId + 1]
<1>1. lastId \in Nat /\ db \in SUBSET Row /\ \A r \in db : placed[r.box][r.loc] # NoMsg
  BY DEF IInv, TableOK, RowsOK
<1>2. new \in Row
  BY <1>1, Whereabouts DEF Row
<1>3. new.box = SrcOf[p] /\ new.loc = Here(p)
  OBVIOUS
<1>4. placed[new.box][new.loc] # NoMsg
  BY <1>3, Whereabouts DEF Message
<1>5. db' = record(db, new) /\ lastId' \in Nat
  BY <1>1 DEF Write
<1> HIDE DEF new
<1>6. ASSUME NEW r \in record(db, new)
      PROVE  r \in Row /\ placed[r.box][r.loc] # NoMsg
  <2>1. PICK o \in {new} \cup db : r.box = o.box /\ r.loc = o.loc
    BY <1>1, <1>2, <1>6, RecordRows DEF RowsAt
  <2>2. r \in Row
    BY <1>1, <1>2, <1>6, RecordRows
  <2> QED
    BY <1>1, <1>4, <2>1, <2>2
<1> QED
  BY <1>5, <1>6 DEF TableOK, RowsOK, source

LEMMA Relocating ==
  ASSUME IInv, NEW p \in Pairs, w[p].pc \in Processing,
         NEW tfolder \in TFolders \cup {Empty}, NEW next, Good(SrcOf[p], next),
         Relocate(p, tfolder, next), UNCHANGED source
  PROVE  /\ TableOK' /\ JobsOK'
         /\ \E v : Good(SrcOf[p], v) /\ Goto(p, v)
<1>1. CASE RelocationConflicts(db, SrcOf[p], w[p].fp, Here(p))
  <2>1. TableOK'
    BY <1>1 DEF Relocate, IInv, TableOK, RowsOK, source
  <2>2. JobsOK'
    BY <1>1 DEF Relocate, WorkerFails, IInv, JobsOK, mark_failed, mark, JobStatus
  <2> QED
    BY <1>1, <2>1, <2>2, GoodIdle DEF Relocate, WorkerFails
<1>2. CASE ~RelocationConflicts(db, SrcOf[p], w[p].fp, Here(p))
  <2>1. lastId \in Nat /\ db \in SUBSET Row /\ \A r \in db : placed[r.box][r.loc] # NoMsg
    BY DEF IInv, TableOK, RowsOK
  <2>2. /\ db' = update_fingerprint_location(db, SrcOf[p], w[p].fp, Here(p), tfolder)
        /\ lastId' = lastId /\ jobs' = jobs /\ Goto(p, next)
    BY <1>2 DEF Relocate
  <2>3. ASSUME NEW r \in db' PROVE r \in Row /\ placed[r.box][r.loc] # NoMsg
    <3>1. /\ r \in Row
          /\ \/ r \in db
             \/ r.loc = Here(p) /\ r.box = SrcOf[p]
      BY <2>1, <2>2, <2>3, Whereabouts, RelocatedRows DEF Relocated
    <3> QED
      BY <2>1, <3>1, Whereabouts DEF Message
  <2>4. TableOK'
    BY <2>1, <2>2, <2>3 DEF TableOK, RowsOK, source
  <2> QED
    BY <2>2, <2>4 DEF IInv, JobsOK
<1> QED
  BY <1>1, <1>2

(* The target after a step that leaves old copies, or new ones of theirs.  *)
LEMMA Copying ==
  ASSUME IInv, NEW p \in Pairs, NEW new \in SUBSET Copy, NewCopies(p, new)
  PROVE  TargetOK'
<1> DEFINE next == [uidNext[p] EXCEPT ![TFolder(p)] = @ + 1]
<1>1. /\ copies' = [copies EXCEPT ![p] = new] /\ copies \in [Pairs -> SUBSET Copy]
      /\ uidNext' = [uidNext EXCEPT ![p] = next]
      /\ uidNext \in [Pairs -> [TFolders -> Nat \ {0}]]
  BY DEF IInv, TargetOK, NewCopies
<1>2. uidNext[p] \in [TFolders -> Nat \ {0}]
  BY <1>1
<1>3. \A t \in TFolders : next[t] \in Nat \ {0}
  BY <1>2
<1>4. next \in [TFolders -> Nat \ {0}]
  BY <1>2, <1>3
<1> HIDE DEF next
<1> QED
  BY <1>1, <1>4 DEF TargetOK

LEMMA NextTargetUid ==
  ASSUME IInv, NEW p \in Pairs, w[p].pc \in Processing
  PROVE  uidNext[p][TFolder(p)] \in Nat \ {0}
  BY Whereabouts DEF IInv, TargetOK

(* The ways a copy gets to another folder.                                 *)
Shuffle(p) ==
  \/ MoveCommand(p) \/ CopyAndExpunge(p)
  \/ \E flagged \in BOOLEAN : CopyAndFlag(p, flagged)

LEMMA Arriving ==
  ASSUME IInv, NEW p \in Pairs, w[p].pc \in Processing, UNCHANGED source, Shuffle(p)
  PROVE  TargetOK'
<1>1. Moved(p) \in SUBSET Copy /\ copies[p] \in SUBSET Copy /\ uidNext[p][TFolder(p)] \in Nat
  BY NextTargetUid DEF IInv, TargetOK, Moved
<1>2. Arrived(p) \in SUBSET Copy
  BY <1>1, Whereabouts DEF Arrived, Copy
<1>3. CASE MoveCommand(p) \/ CopyAndExpunge(p)
  BY <1>1, <1>2, <1>3, Copying DEF MoveCommand, CopyAndExpunge
<1>4. ASSUME NEW flagged \in BOOLEAN, CopyAndFlag(p, flagged) PROVE TargetOK'
  <2> DEFINE left == {[c EXCEPT !.del = @ \/ flagged] : c \in Moved(p)}
  <2>1. left \in SUBSET Copy
    BY <1>1 DEF Copy, Moved
  <2>2. NewCopies(p, (copies[p] \ Moved(p)) \cup left \cup Arrived(p))
    BY <1>4 DEF CopyAndFlag
  <2> HIDE DEF left
  <2> QED
    BY <1>1, <1>2, <2>1, <2>2, Copying
<1> QED
  BY <1>3, <1>4 DEF Shuffle

LEMMA Leaving ==
  ASSUME IInv
  PROVE  /\ UNCHANGED target => TargetOK'
         /\ UNCHANGED <<source, table>> => TableOK'
         /\ UNCHANGED jobs => JobsOK'
  BY DEF IInv, target, TargetOK, source, table, TableOK, RowsOK, JobsOK

LEMMA Marking ==
  ASSUME IInv, NEW b, NEW status \in JobStatus, jobs' = mark(jobs, b, status)
  PROVE  JobsOK'
  BY DEF IInv, JobsOK, mark

-----------------------------------------------------------------------------
(* The steps of a worker.                                                  *)

LEMMA FrameSteps ==
  ASSUME IInv, NEW p \in Pairs,
         \/ Connect(p) \/ ConnectFails(p) \/ ListFolders(p) \/ FinishRun(p)
         \/ \E f \in Folders : OpenFolder(p, f) \/ SkipFolder(p, f)
  PROVE  IInv'
<1> USE DEF At
<1> DEFINE b == SrcOf[p]
<1>1. Good(b, w[p]) /\ w[p] \in Worker
  BY DEF IInv, LocalsOK, WorkersOK, Good
<1>2. CASE Connect(p)
  <2> DEFINE v == [w[p] EXCEPT !.pc = "list", !.src = TRUE, !.tgt = TRUE]
  <2>1. Good(b, v)
    BY <1>1 DEF Good, Worker, Processing, Pc
  <2>2. Goto(p, v) /\ UNCHANGED <<source, target, table>> /\ NoFault
    BY <1>2 DEF Connect
  <2>3. JobsOK'
    BY <1>2, Marking DEF Connect, mark_running, JobStatus
  <2> QED
    BY <2>1, <2>2, <2>3, Leaving, Failing, OneWorker
<1>3. CASE ConnectFails(p)
  <2>1. Goto(p, IdleWorker) /\ UNCHANGED <<source, target, table>> /\ Fault(p)
    BY <1>3 DEF ConnectFails, WorkerFails
  <2>2. JobsOK'
    BY <1>3, Marking DEF ConnectFails, WorkerFails, mark_failed, JobStatus
  <2> QED
    BY <2>1, <2>2, GoodIdle, Leaving, Failing, OneWorker
<1>4. CASE ListFolders(p)
  <2>1. PICK v : Good(b, v) /\ Goto(p, v)
    <3>1. Good(b, [w[p] EXCEPT !.pc = "folder", !.folders = Folders])
      BY <1>1 DEF Good, Worker, Processing, Pc
    <3>2. Good(b, [w[p] EXCEPT !.pc = "folder"])
      BY <1>1 DEF Good, Worker, Processing, Pc
    <3> QED
      BY <1>4, <3>1, <3>2 DEF ListFolders
  <2>2. UNCHANGED <<source, target, table, jobs>> /\ (Fault(p) \/ NoFault)
    BY <1>4 DEF ListFolders
  <2> QED
    BY <2>1, <2>2, Leaving, Failing, OneWorker
<1>5. CASE FinishRun(p)
  <2>1. Goto(p, IdleWorker) /\ UNCHANGED <<source, target, table>>
    BY <1>5 DEF FinishRun
  <2>2. JobsOK'
    BY <1>5, Marking DEF FinishRun, mark_completed, JobStatus
  <2>3. RestOK'
    BY <1>5 DEF FinishRun, IInv, RestOK, bounds
  <2> QED
    BY <2>1, <2>2, <2>3, GoodIdle, Leaving, OneWorker
<1>6. ASSUME NEW f \in Folders, OpenFolder(p, f) PROVE IInv'
  <2> DEFINE uids == {u \in Uids : <<f, u>> \in present[b]}
             v == [w[p] EXCEPT !.pc = "uid", !.folder = f, !.folders = @ \ {f},
                               !.uids = uids]
  <2>1. /\ Goto(p, v) /\ UNCHANGED <<source, target, table, jobs>> /\ NoFault
    BY <1>6 DEF OpenFolder
  <2>2. uids \subseteq Uids /\ \A u \in uids : placed[b][<<f, u>>] # NoMsg
    BY MailboxSyncAssumption DEF IInv, SourceOK, PlacesOK
  <2>3. Good(b, v)
    <3> HIDE DEF uids
    <3> QED BY <1>1, <2>2 DEF Good, Worker, Processing, Pc
  <2> QED
    BY <2>1, <2>3, Leaving, Failing, OneWorker
<1>7. ASSUME NEW f \in Folders, SkipFolder(p, f) PROVE IInv'
  <2> DEFINE v == [w[p] EXCEPT !.folders = @ \ {f}]
  <2>1. /\ Goto(p, v) /\ UNCHANGED <<source, target, table, jobs>>
        /\ Fault(p) \/ NoFault
    BY <1>7 DEF SkipFolder
  <2>2. Good(b, v)
    BY <1>1 DEF Good, Worker
  <2> QED
    BY <2>1, <2>2, Leaving, Failing, OneWorker
<1> QED
  BY <1>2, <1>3, <1>4, <1>5, <1>6, <1>7

LEMMA BatchSteps ==
  ASSUME IInv, NEW p \in Pairs,
         \/ EndFolder(p) \/ Header(p) \/ Check(p) \/ RecordSkipped(p)
         \/ \E u \in Uids : NextUid(p, u)
  PROVE  IInv'
<1> USE DEF At
<1> DEFINE b == SrcOf[p]
<1>1. Good(b, w[p]) /\ w[p] \in Worker
  BY DEF IInv, LocalsOK, WorkersOK, Good
<1>2. CASE EndFolder(p)
  <2> DEFINE v == [w[p] EXCEPT !.pc = "folder", !.folder = NoFolder]
  <2>1. Goto(p, v) /\ UNCHANGED <<source, target, table, jobs>> /\ NoFault
    BY <1>2 DEF EndFolder
  <2>2. Good(b, v)
    BY <1>1 DEF Good, Worker, Processing, Pc
  <2> QED
    BY <2>1, <2>2, Leaving, Failing, OneWorker
<1>3. ASSUME NEW u \in Uids, NextUid(p, u) PROVE IInv'
  <2> DEFINE rest == [w[p] EXCEPT !.uids = @ \ {u}]
             at == [w[p] EXCEPT !.uids = @ \ {u}, !.pc = "header", !.uid = u]
  <2>1. Goto(p, rest) \/ Goto(p, at)
    BY <1>3 DEF NextUid
  <2>2. Good(b, rest)
    BY <1>1 DEF Good, Worker
  <2>3. Good(b, at)
    BY <1>1, <1>3 DEF NextUid, Good, Worker, Processing, Pc
  <2>4. UNCHANGED <<source, target, table, jobs>> /\ NoFault
    BY <1>3 DEF NextUid
  <2> HIDE DEF rest, at
  <2> QED
    BY <2>1, <2>2, <2>3, <2>4, Leaving, Failing, OneWorker
<1>4. CASE Header(p)
  <2>1. w[p].pc \in Processing
    BY <1>4 DEF Header, Processing
  <2>2. /\ MessageId(Message(p)) \in Msgs \cup {Empty}
        /\ Fingerprint(Message(p)) \in Msgs \cup {Empty, BlankFp}
    BY <2>1, Whereabouts DEF MessageId, Fingerprint
  <2>3. PICK v : Good(b, v) /\ Goto(p, v)
    <3> DEFINE read == [w[p] EXCEPT !.pc = "check", !.mid = MessageId(Message(p)),
                                    !.fp = Fingerprint(Message(p))]
               blank == [w[p] EXCEPT !.pc = "check",
                                     !.fp = IF Policy = "off" THEN Empty ELSE BlankFp]
    <3>1. Good(b, read)
      BY <1>1, <2>1, <2>2 DEF Good, Worker, Processing, Pc
    <3>2. Good(b, blank)
      BY <1>1, <2>1 DEF Good, Worker, Processing, Pc
    <3>3. Goto(p, read) \/ Goto(p, blank)
      BY <1>4 DEF Header
    <3> QED
      BY <3>1, <3>2, <3>3
  <2>4. UNCHANGED <<source, target, table, jobs>> /\ (Fault(p) \/ NoFault)
    BY <1>4 DEF Header
  <2> QED
    BY <2>3, <2>4, Leaving, Failing, OneWorker
<1>5. CASE Check(p)
  <2>1. w[p].pc \in Processing
    BY <1>5 DEF Check, Processing
  <2>2. \/ Goto(p, [w[p] EXCEPT !.pc = "skip"]) \/ Goto(p, [w[p] EXCEPT !.pc = "move"])
        \/ Goto(p, Attempt(p, 1))
    BY <1>5 DEF Check
  <2>3. PICK v : Good(b, v) /\ Goto(p, v)
    <3>1. Good(b, [w[p] EXCEPT !.pc = "skip"]) /\ Good(b, [w[p] EXCEPT !.pc = "move"])
      BY <1>1, <2>1, GoodPc DEF Processing
    <3>2. Good(b, Attempt(p, 1))
      BY <1>1, <2>1, GoodAttempt
    <3> QED
      BY <2>2, <3>1, <3>2
  <2>4. UNCHANGED <<source, target, table, jobs>> /\ NoFault
    BY <1>5 DEF Check
  <2> QED
    BY <2>3, <2>4, Leaving, Failing, OneWorker
<1>6. CASE RecordSkipped(p)
  <2>1. w[p].pc \in Processing
    BY <1>6 DEF RecordSkipped, Processing
  <2>2. /\ Write(p, "skipped", NoTuid) /\ Goto(p, NextMessage(p))
        /\ UNCHANGED <<source, target, jobs>> /\ NoFault
    BY <1>6 DEF RecordSkipped
  <2>3. TableOK'
    BY <2>1, <2>2, Writing DEF RowStatus, NoTuid
  <2>4. Good(b, NextMessage(p))
    BY <1>1, <2>1, GoodNext
  <2> QED
    BY <2>2, <2>3, <2>4, Leaving, Failing, OneWorker
<1> QED
  BY <1>2, <1>3, <1>4, <1>5, <1>6

LEMMA MoveSteps ==
  ASSUME IInv, NEW p \in Pairs,
         \/ MoveInPlace(p) \/ MoveImpossible(p)
         \/ MoveDone(p) \/ MoveRefused(p) \/ MoveHalfDone(p) \/ MoveUnconfirmed(p)
         \/ RelocateRow(p) \/ RecordMoved(p)
  PROVE  IInv'
<1> USE DEF At
<1> DEFINE b == SrcOf[p]
<1>1. Good(b, w[p]) /\ w[p] \in Worker
  BY DEF IInv, LocalsOK, WorkersOK, Good
<1>2. w[p].pc \in Processing
  BY DEF MoveInPlace, MoveImpossible, MoveDone, MoveRefused, MoveHalfDone,
         MoveUnconfirmed, Moving, RelocateRow, RecordMoved, Processing
<1>3. /\ Good(b, [w[p] EXCEPT !.pc = "moved"]) /\ Good(b, [w[p] EXCEPT !.pc = "relocate"])
      /\ Good(b, Attempt(p, 1)) /\ Good(b, [Attempt(p, 1) EXCEPT !.tgt = FALSE])
      /\ Good(b, NextMessage(p))
  <2>1. "moved" \in Processing /\ "relocate" \in Processing
    BY DEF Processing
  <2> QED
    BY <1>1, <1>2, <2>1, GoodPc, GoodAttempt, GoodNext
<1>4. TFolder(p) \in TFolders
  BY <1>2, Whereabouts
<1>5. CASE MoveInPlace(p)
  <2>1. /\ Relocate(p, Empty, [w[p] EXCEPT !.pc = "moved"])
        /\ UNCHANGED <<source, target>> /\ NoFault
    BY <1>5 DEF MoveInPlace
  <2> QED
    BY <1>2, <1>3, <2>1, Relocating, Leaving, Failing, OneWorker
<1>6. CASE MoveImpossible(p)
  <2>1. /\ \/ Goto(p, Attempt(p, 1)) /\ UNCHANGED <<table, jobs>>
           \/ Relocate(p, Empty, Attempt(p, 1))
        /\ UNCHANGED <<source, target>> /\ NoFault
    BY <1>6 DEF MoveImpossible
  <2>2. CASE Goto(p, Attempt(p, 1)) /\ UNCHANGED <<table, jobs>>
    BY <1>3, <2>1, <2>2, Leaving, Failing, OneWorker
  <2>3. CASE Relocate(p, Empty, Attempt(p, 1))
    BY <1>2, <1>3, <2>1, <2>3, Relocating, Leaving, Failing, OneWorker
  <2> QED
    BY <2>1, <2>2, <2>3
<1>7. CASE MoveDone(p)
  <2>1. /\ Shuffle(p)
        /\ Goto(p, [w[p] EXCEPT !.pc = "relocate"])
        /\ UNCHANGED <<source, table, jobs>> /\ (Fault(p) \/ NoFault)
    BY <1>7 DEF MoveDone, Moving, Shuffle
  <2> QED
    BY <1>2, <1>3, <2>1, Arriving, Leaving, Failing, OneWorker
<1>8. CASE MoveRefused(p)
  <2>1. /\ Goto(p, Attempt(p, 1))
        /\ UNCHANGED <<source, target, table, jobs>> /\ (Fault(p) \/ NoFault)
    BY <1>8 DEF MoveRefused, Moving
  <2> QED
    BY <1>3, <2>1, Leaving, Failing, OneWorker
<1>9. CASE MoveHalfDone(p)
  <2>1. /\ Shuffle(p)
        /\ Goto(p, Attempt(p, 1))
        /\ UNCHANGED <<source, table, jobs>> /\ Fault(p)
    BY <1>9 DEF MoveHalfDone, Moving, Shuffle
  <2> QED
    BY <1>2, <1>3, <2>1, Arriving, Leaving, Failing, OneWorker
<1>10. CASE MoveUnconfirmed(p)
  <2>1. /\ Shuffle(p)
        /\ Goto(p, [Attempt(p, 1) EXCEPT !.tgt = FALSE])
        /\ UNCHANGED <<source, table, jobs>> /\ Fault(p)
    BY <1>10 DEF MoveUnconfirmed, Moving, Shuffle
  <2> QED
    BY <1>2, <1>3, <2>1, Arriving, Leaving, Failing, OneWorker
<1>11. CASE RelocateRow(p)
  <2>1. /\ Relocate(p, TFolder(p), [w[p] EXCEPT !.pc = "moved"])
        /\ UNCHANGED <<source, target>> /\ NoFault
    BY <1>11 DEF RelocateRow
  <2> QED
    BY <1>2, <1>3, <1>4, <2>1, Relocating, Leaving, Failing, OneWorker
<1>12. CASE RecordMoved(p)
  <2>1. /\ Write(p, "success", NoTuid) /\ Goto(p, NextMessage(p))
        /\ UNCHANGED <<source, target, jobs>> /\ NoFault
    BY <1>12 DEF RecordMoved
  <2>2. TableOK'
    BY <1>2, <2>1, Writing DEF RowStatus, NoTuid
  <2> QED
    BY <1>3, <2>1, <2>2, Leaving, Failing, OneWorker
<1> QED
  BY <1>5, <1>6, <1>7, <1>8, <1>9, <1>10, <1>11, <1>12

LEMMA CopySteps ==
  ASSUME IInv, NEW p \in Pairs,
         \/ Fetch(p) \/ AppendMessage(p) \/ AppendFails(p) \/ AppendUnconfirmed(p)
         \/ RecordSuccess(p) \/ RecordRaises(p) \/ RecordFailed(p)
  PROVE  IInv'
<1> USE DEF At
<1> DEFINE b == SrcOf[p]
<1>1. Good(b, w[p]) /\ w[p] \in Worker
  BY DEF IInv, LocalsOK, WorkersOK, Good
<1>2. w[p].pc \in Processing
  BY DEF Fetch, AppendMessage, AppendFails, AppendUnconfirmed, RecordSuccess,
         RecordRaises, RecordFailed, Processing
<1>3. /\ Good(b, Attempt(p, w[p].attempt + 1))
      /\ Good(b, [Attempt(p, w[p].attempt + 1) EXCEPT !.tgt = FALSE])
      /\ Good(b, NextMessage(p)) /\ Good(b, [NextMessage(p) EXCEPT !.failed = TRUE])
  <2>1. w[p].attempt + 1 \in Nat
    BY <1>2, Whereabouts
  <2> QED
    BY <1>1, <1>2, <2>1, GoodAttempt, GoodNext
<1>4. Stored(p) => TargetOK'
  <2> DEFINE new == [folder |-> TFolder(p), uid |-> uidNext[p][TFolder(p)], msg |-> Message(p),
                     del |-> Message(p) \in DeletedMsgs]
  <2>1. copies[p] \in SUBSET Copy /\ uidNext[p][TFolder(p)] \in Nat
    BY <1>2, NextTargetUid DEF IInv, TargetOK
  <2>2. new \in Copy
    BY <1>2, <2>1, Whereabouts DEF Copy
  <2>3. copies[p] \cup {new} \in SUBSET Copy
    BY <2>1, <2>2
  <2> QED
    BY <2>3, Copying DEF Stored
<1>5. CASE Fetch(p)
  <2>1. /\ \/ Goto(p, [w[p] EXCEPT !.pc = "append"])
           \/ Goto(p, Attempt(p, w[p].attempt + 1))
        /\ UNCHANGED <<source, target, table, jobs>> /\ (Fault(p) \/ NoFault)
    BY <1>5 DEF Fetch
  <2>2. Good(b, [w[p] EXCEPT !.pc = "append"])
    BY <1>1, <1>2, GoodPc DEF Processing
  <2> QED
    BY <1>3, <2>1, <2>2, Leaving, Failing, OneWorker
<1>6. CASE AppendMessage(p)
  <2> DEFINE v == [w[p] EXCEPT !.pc = "record",
                               !.tuid = IF AppendUid THEN uidNext[p][TFolder(p)] ELSE NoTuid]
  <2>1. Stored(p) /\ Goto(p, v) /\ UNCHANGED <<source, table, jobs>> /\ NoFault
    BY <1>6 DEF AppendMessage
  <2>2. uidNext[p][TFolder(p)] \in Nat
    BY <1>2, NextTargetUid
  <2>3. Good(b, v)
    BY <1>1, <1>2, <2>2 DEF Good, Worker, Processing, Pc, NoTuid
  <2> QED
    BY <1>4, <2>1, <2>3, Leaving, Failing, OneWorker
<1>7. CASE AppendFails(p) \/ RecordRaises(p)
  <2>1. /\ Goto(p, Attempt(p, w[p].attempt + 1))
        /\ UNCHANGED <<source, target, table, jobs>> /\ (Fault(p) \/ NoFault)
    BY <1>7 DEF AppendFails, RecordRaises
  <2> QED
    BY <1>3, <2>1, Leaving, Failing, OneWorker
<1>8. CASE AppendUnconfirmed(p)
  <2>1. /\ Stored(p) /\ Goto(p, [Attempt(p, w[p].attempt + 1) EXCEPT !.tgt = FALSE])
        /\ UNCHANGED <<source, table, jobs>> /\ Fault(p)
    BY <1>8 DEF AppendUnconfirmed
  <2> QED
    BY <1>3, <1>4, <2>1, Leaving, Failing, OneWorker
<1>9. CASE RecordSuccess(p)
  <2>1. /\ Write(p, "success", w[p].tuid) /\ Goto(p, NextMessage(p))
        /\ UNCHANGED <<source, target, jobs>> /\ NoFault
    BY <1>9 DEF RecordSuccess
  <2>2. w[p].tuid \in Nat
    BY <1>2, Whereabouts
  <2>3. TableOK'
    BY <1>2, <2>1, <2>2, Writing DEF RowStatus
  <2> QED
    BY <1>3, <2>1, <2>3, Leaving, Failing, OneWorker
<1>10. CASE RecordFailed(p)
  <2>1. /\ Write(p, "failed", NoTuid) /\ Goto(p, [NextMessage(p) EXCEPT !.failed = TRUE])
        /\ UNCHANGED <<source, target, jobs>> /\ NoFault
    BY <1>10 DEF RecordFailed
  <2>2. TableOK'
    BY <1>2, <2>1, Writing DEF RowStatus, NoTuid
  <2> QED
    BY <1>3, <2>1, <2>2, Leaving, Failing, OneWorker
<1> QED
  BY <1>5, <1>6, <1>7, <1>8, <1>9, <1>10

LEMMA BreakSteps ==
  ASSUME IInv, NEW p \in Pairs, StatementRaises(p) \/ Break(p)
  PROVE  IInv'
<1>1. Good(SrcOf[p], w[p])
  BY DEF IInv, LocalsOK, WorkersOK
<1>2. CASE StatementRaises(p)
  <2>1. Goto(p, IdleWorker) /\ UNCHANGED <<source, target, table>> /\ Fault(p)
    BY <1>2 DEF StatementRaises, WorkerFails
  <2>2. JobsOK'
    BY <1>2, Marking DEF StatementRaises, WorkerFails, mark_failed, JobStatus
  <2> QED
    BY <2>1, <2>2, GoodIdle, Leaving, Failing, OneWorker
<1>3. CASE Break(p)
  <2>1. /\ \/ Goto(p, [w[p] EXCEPT !.src = FALSE]) \/ Goto(p, [w[p] EXCEPT !.tgt = FALSE])
        /\ UNCHANGED <<source, target, table, jobs>> /\ Fault(p)
    BY <1>3 DEF Break
  <2> QED
    BY <1>1, <2>1, GoodBroken, Leaving, Failing, OneWorker
<1> QED
  BY <1>2, <1>3

-----------------------------------------------------------------------------
(* The steps of the environment.                                           *)

LEMMA ProcessSteps ==
  ASSUME IInv, StartProcess \/ Crash
  PROVE  IInv'
<1>1. SourceOK' /\ TargetOK' /\ TableOK'
  <2>1. UNCHANGED <<source, target, table>>
    BY DEF StartProcess, Crash
  <2> QED
    BY <2>1, Leaving DEF IInv, SourceOK, PlacesOK, source
<1>2. JobsOK'
  BY DEF StartProcess, Crash, IInv, JobsOK, init_job, JobStatus
<1>3. RestOK'
  <2>1. CASE StartProcess
    <3>1. /\ allow' \in BOOLEAN /\ runs' \in Nat
          /\ faults' \in Nat /\ userSteps' \in Nat /\ settled' \in [Pairs -> SUBSET Loc]
      BY <2>1, MailboxSyncAssumption DEF StartProcess, IInv, RestOK
    <3>2. clean' \in [Pairs -> BOOLEAN]
      BY <2>1 DEF StartProcess
    <3>3. steady' \in [Pairs -> SUBSET Loc]
      BY <2>1, MailboxSyncAssumption DEF StartProcess, IInv, SourceOK
    <3> QED
      BY <3>1, <3>2, <3>3 DEF RestOK
  <2>2. CASE Crash
    BY <2>2 DEF Crash, IInv, RestOK
  <2> QED
    BY <2>1, <2>2
<1>4. ASSUME NEW p \in Pairs PROVE Good(SrcOf[p], w'[p])
  <2>1. \A b : Good(b, IdleWorker) /\ Good(b, [IdleWorker EXCEPT !.pc = "queued"])
    BY DEF Good, IdleWorker, Worker, Pc, Processing, NoTuid
  <2>2. w'[p] \in {IdleWorker, [IdleWorker EXCEPT !.pc = "queued"]}
    BY DEF StartProcess, Crash
  <2> QED
    BY <2>1, <2>2
<1>5. LocalsOK'
  <2>1. w' \in [Pairs -> Worker]
    <3>1. DOMAIN w' = Pairs /\ w' = [p \in DOMAIN w' |-> w'[p]]
      BY DEF StartProcess, Crash
    <3> QED
      BY <1>4, <3>1 DEF Good
  <2>2. \A p \in Pairs : Good(SrcOf[p], w[p])'
    BY <1>4 DEF Good, StartProcess, Crash, source
  <2> QED
    BY <2>1, <2>2 DEF LocalsOK, WorkersOK
<1> QED
  BY <1>1, <1>2, <1>3, <1>5 DEF IInv

(* A message at a new location: whatever was at a location, is.            *)
LEMMA Placing ==
  ASSUME IInv, NEW b \in Boxes, NEW f \in Folders, NEW u \in Uids, NEW m \in Msgs,
         IsNextSourceUid(b, f, u),
         placed' = [placed EXCEPT ![b][<<f, u>>] = m]
  PROVE  /\ <<f, u>> \in Loc
         /\ placed' \in [Boxes -> [Loc -> Msgs \cup {NoMsg}]]
         /\ placed'[b][<<f, u>>] = m /\ m # NoMsg
         /\ \A c \in Boxes, l \in Loc : placed[c][l] # NoMsg => placed'[c][l] = placed[c][l]
<1>1. <<f, u>> \in Loc /\ u \in Nat
  BY MailboxSyncAssumption DEF Loc, Uids
<1>2. placed[b][<<f, u>>] = NoMsg
  BY <1>1 DEF IsNextSourceUid
<1>3. m # NoMsg
  BY MailboxSyncAssumption
<1> QED
  BY <1>1, <1>2, <1>3 DEF IInv, SourceOK

LEMMA UserSteps ==
  ASSUME IInv, NEW b \in Boxes, NEW f \in Folders,
         \/ \E l \in Loc : UserMoves(b, l, f)
         \/ \E m \in Msgs : UserReceives(b, f, m)
  PROVE  IInv'
<1>1. PICK u \in Uids, m \in Msgs, gone \in SUBSET Loc :
        /\ IsNextSourceUid(b, f, u)
        /\ placed' = [placed EXCEPT ![b][<<f, u>>] = m]
        /\ present' = [present EXCEPT ![b] = (@ \ gone) \cup {<<f, u>>}]
        /\ \A p \in Pairs : steady'[p] \subseteq steady[p]
        /\ steady' \in [Pairs -> SUBSET Loc]
        /\ UserStep
  <2>1. ASSUME NEW l \in Loc, UserMoves(b, l, f)
        PROVE  \E u \in Uids, m \in Msgs, gone \in SUBSET Loc :
                 /\ IsNextSourceUid(b, f, u)
                 /\ placed' = [placed EXCEPT ![b][<<f, u>>] = m]
                 /\ present' = [present EXCEPT ![b] = (@ \ gone) \cup {<<f, u>>}]
                 /\ \A p \in Pairs : steady'[p] \subseteq steady[p]
                 /\ steady' \in [Pairs -> SUBSET Loc]
                 /\ UserStep
    <3>1. placed[b][l] \in Msgs
      BY <2>1 DEF UserMoves, IInv, SourceOK, PlacesOK
    <3>2. steady' \in [Pairs -> SUBSET Loc] /\ \A p \in Pairs : steady'[p] \subseteq steady[p]
      BY <2>1 DEF UserMoves, IInv, RestOK
    <3>3. {l} \in SUBSET Loc
      OBVIOUS
    <3> QED
      BY <2>1, <3>1, <3>2, <3>3 DEF UserMoves
  <2>2. ASSUME NEW m \in Msgs, UserReceives(b, f, m)
        PROVE  \E u \in Uids, gone \in SUBSET Loc :
                 /\ IsNextSourceUid(b, f, u)
                 /\ placed' = [placed EXCEPT ![b][<<f, u>>] = m]
                 /\ present' = [present EXCEPT ![b] = (@ \ gone) \cup {<<f, u>>}]
                 /\ \A p \in Pairs : steady'[p] \subseteq steady[p]
                 /\ steady' \in [Pairs -> SUBSET Loc]
                 /\ UserStep
    <3>1. PICK u \in Uids : /\ IsNextSourceUid(b, f, u)
                            /\ placed' = [placed EXCEPT ![b][<<f, u>>] = m]
                            /\ present' = [present EXCEPT ![b] = @ \cup {<<f, u>>}]
      BY <2>2 DEF UserReceives
    <3>2. present' = [present EXCEPT ![b] = (@ \ {}) \cup {<<f, u>>}]
      BY <3>1 DEF IInv, SourceOK
    <3>3. steady' \in [Pairs -> SUBSET Loc] /\ steady' = steady /\ UserStep
      BY <2>2 DEF UserReceives, IInv, RestOK
    <3> WITNESS u \in Uids, {} \in SUBSET Loc
    <3> QED
      BY <3>1, <3>2, <3>3
  <2> QED
    BY <2>1, <2>2
<1>2. /\ <<f, u>> \in Loc
      /\ placed' \in [Boxes -> [Loc -> Msgs \cup {NoMsg}]]
      /\ placed'[b][<<f, u>>] # NoMsg
      /\ \A c \in Boxes, l \in Loc : placed[c][l] # NoMsg => placed'[c][l] = placed[c][l]
  BY <1>1, Placing
<1>3. UNCHANGED <<target, table, jobs, w, allow, runs, faults, clean, settled>> /\ userSteps' \in Nat
  BY <1>1 DEF UserStep, IInv, RestOK
<1>4. SourceOK'
  <2>1. present' \in [Boxes -> SUBSET Loc]
    BY <1>1, <1>2 DEF IInv, SourceOK
  <2>2. ASSUME NEW c \in Boxes, NEW l \in present'[c] PROVE placed'[c][l] # NoMsg
    <3>1. l \in present[c] \/ (c = b /\ l = <<f, u>>)
      BY <1>1 DEF IInv, SourceOK
    <3> QED
      BY <1>2, <3>1 DEF IInv, SourceOK, PlacesOK
  <2> QED
    BY <1>2, <2>1, <2>2 DEF SourceOK, PlacesOK
<1>5. TargetOK' /\ JobsOK'
  BY <1>3, Leaving
<1>6. TableOK'
  <2>1. \A r \in db : r.box \in Boxes /\ r.loc \in Loc /\ placed[r.box][r.loc] # NoMsg
    BY DEF IInv, TableOK, RowsOK, Row
  <2>2. \A r \in db : placed'[r.box][r.loc] # NoMsg
    BY <1>2, <2>1
  <2> QED
    BY <1>3, <2>2 DEF IInv, TableOK, RowsOK, table
<1>7. LocalsOK'
  <2>1. ASSUME NEW p \in Pairs PROVE Good(SrcOf[p], w[p])'
    <3>1. Good(SrcOf[p], w[p]) /\ SrcOf[p] \in Boxes /\ w'[p] = w[p]
      BY <1>3, MailboxSyncAssumption DEF IInv, LocalsOK, WorkersOK
    <3>2. /\ w[p].pc \in Processing \cup {"uid"} =>
               w[p].folder \in Folders
                 /\ \A v \in w[p].uids : placed'[SrcOf[p]][<<w[p].folder, v>>] # NoMsg
          /\ w[p].pc \in Processing => placed'[SrcOf[p]][<<w[p].folder, w[p].uid>>] # NoMsg
      <4>1. \A v \in Uids : w[p].folder \in Folders => <<w[p].folder, v>> \in Loc
        BY DEF Loc
      <4>2. w[p].uids \subseteq Uids
        BY <3>1 DEF Good, Worker
      <4> QED
        BY <1>2, <3>1, <4>1, <4>2 DEF Good
    <3> QED
      BY <3>1, <3>2 DEF Good
  <2> QED
    BY <1>3, <2>1 DEF IInv, LocalsOK, WorkersOK
<1>8. RestOK'
  BY <1>1, <1>3 DEF IInv, RestOK
<1> QED
  BY <1>4, <1>5, <1>6, <1>7, <1>8 DEF IInv

-----------------------------------------------------------------------------
LEMMA InitIInv == Init => IInv
<1> SUFFICES ASSUME Init PROVE IInv
  OBVIOUS
<1>1. placed \in [Boxes -> [Loc -> Msgs \cup {NoMsg}]]
  BY MailboxSyncAssumption DEF Init
<1>2. SourceOK
  BY <1>1 DEF Init, SourceOK, PlacesOK
<1>3. TargetOK /\ TableOK /\ JobsOK /\ RestOK
  <2>1. TargetOK
    BY DEF Init, TargetOK
  <2>2. TableOK /\ JobsOK
    BY DEF Init, TableOK, RowsOK, JobsOK, JobStatus
  <2>3. RestOK
    BY DEF Init, RestOK
  <2> QED
    BY <2>1, <2>2, <2>3
<1>4. LocalsOK
  BY GoodIdle DEF Init, LocalsOK, WorkersOK, Good
<1> QED
  BY <1>2, <1>3, <1>4 DEF IInv

LEMMA NextIInv == IInv /\ [Next]_vars => IInv'
<1> SUFFICES ASSUME IInv, [Next]_vars PROVE IInv'
  OBVIOUS
<1>1. CASE UNCHANGED vars
  <2>1. UNCHANGED <<source, target, table, jobs, w, allow, bounds, observers>>
    BY <1>1 DEF vars
  <2>2. SourceOK' /\ LocalsOK' /\ RestOK'
    BY <2>1 DEF IInv, SourceOK, PlacesOK, LocalsOK, WorkersOK, Good, RestOK, source,
                bounds, observers
  <2> QED
    BY <2>1, <2>2, Leaving DEF IInv
<1>2. CASE Environment
  BY <1>2, ProcessSteps, BreakSteps, UserSteps DEF Environment
<1>3. ASSUME NEW p \in Pairs, WorkerStep(p) PROVE IInv'
  BY <1>3, FrameSteps, BatchSteps, MoveSteps, CopySteps, BreakSteps DEF WorkerStep
<1> QED
  BY <1>1, <1>2, <1>3 DEF Next

(* The invariant: types, and every location a worker or a row names held a *)
(* message, whatever failed and whatever the user moved away since.        *)
THEOREM MailboxSyncInvariant == Spec => []IInv
  BY InitIInv, NextIInv, PTL DEF Spec

(* The variables keep their types.                                         *)
THEOREM MailboxSyncTypeOK == Spec => []TypeOK
  BY MailboxSyncInvariant, IInvTypes, PTL

-----------------------------------------------------------------------------
(***************************************************************************)
(* What the state database calls migrated is on the target, and what is    *)
(* skipped as a duplicate is one: for any number of mailboxes, folders,    *)
(* messages, runs and failures.                                            *)
(***************************************************************************)

(* What the two theorems need.  Pairs do not share a source mailbox: rows  *)
(* are found by source mailbox and UID alone, so one pair would confirm    *)
(* rows of the other.  Under move-target header fetches do not fail while  *)
(* the message is there, since the hash of blanks relates any two          *)
(* messages, and no message is flagged \Deleted, since EXPUNGE takes all   *)
(* that are.                                                               *)
Benign ==
  /\ \A p, q \in Pairs : SrcOf[p] = SrcOf[q] => p = q
  /\ Policy = "move-target" => ~HeadersMayFail /\ DeletedMsgs = {}

(* Fingerprints are compared only by these policies.                       *)
HeadersSafe == Policy \in {"global-dedupe", "move-target"} => ~HeadersMayFail

-----------------------------------------------------------------------------
(* The inductive invariant.                                                *)

Known == Processing \ {"header"}   \* the headers were fetched

(* What the worker remembers of the message it is at is that message's, or *)
(* blank because the message cannot be fetched any more; and before it     *)
(* writes "success" the message is on the target.                          *)
Honest(p) ==
  /\ w[p].pc \in Known =>
       /\ w[p].mid \in {Empty, Message(p)} /\ w[p].fp \in {Empty, BlankFp, Message(p)}
       /\ Policy = "off" <=> w[p].fp = Empty
       /\ w[p].fp = BlankFp /\ ~HeadersMayFail =>
            ~Readable(p) /\ w[p].pc \in {"check", "skip", "fetch", "fail"}
  /\ w[p].pc \notin Known => w[p].mid = Empty
  /\ w[p].pc \in {"move", "relocate", "moved"} => Policy = "move-target"
  /\ w[p].pc \in {"record", "relocate", "moved"} => OnTarget(p, Message(p))
  /\ HeadersSafe /\ w[p].pc = "skip" => OnTarget(p, Message(p))

(* The same of a row.                                                      *)
HonestRow(r) ==
  /\ r.box = SrcOf[r.tbox]
  /\ r.mid \in {Empty, placed[r.box][r.loc]}
  /\ r.fp \in {Empty, BlankFp, placed[r.box][r.loc]}
  /\ Policy = "off" => r.fp = Empty
  /\ r.status = "success" =>
       /\ OnTarget(r.tbox, placed[r.box][r.loc])
       /\ ~HeadersMayFail => r.fp # BlankFp

HonestRows == \A r \in db : HonestRow(r)

(* A message has a copy that no EXPUNGE takes.                             *)
Unflagged(p) ==
  Policy = "move-target" =>
    \A c \in copies[p] : \E d \in copies[p] : d.msg = c.msg /\ ~d.del

SInv ==
  /\ IInv
  /\ \A p \in Pairs : Honest(p) /\ Unflagged(p)
  /\ HonestRows

-----------------------------------------------------------------------------
(* What a step keeps.                                                      *)

(* What is on the target of p stays there.                                 *)
Grows(p) == \A m \in Msgs : OnTarget(p, m) => OnTarget(p, m)'

(* Nothing new arrives there.                                              *)
NoNews(p) == \A m \in Msgs : OnTarget(p, m)' => OnTarget(p, m)

(* A location keeps the message it held, and one the user moved away does  *)
(* not come back.                                                          *)
Stays ==
  \A b \in Boxes, l \in Loc : placed[b][l] # NoMsg =>
    /\ placed'[b][l] = placed[b][l]
    /\ l \in present'[b] => l \in present[b]

LEMMA SourceStays == UNCHANGED source => Stays
  BY DEF source, Stays

LEMMA TargetGrows == UNCHANGED copies => \A p \in Pairs : Grows(p) /\ (Unflagged(p) => Unflagged(p)')
  BY DEF Grows, OnTarget, Unflagged

(* A worker that does not move stays honest.                               *)
LEMMA Waiting ==
  ASSUME SInv, NEW p \in Pairs, w'[p] = w[p], Stays, Grows(p)
  PROVE  Honest(p)'
<1>1. CASE w[p].pc \in Processing
  <2>1. /\ Message(p) \in Msgs /\ Message(p)' = Message(p)
        /\ Readable(p)' => Readable(p)
    BY <1>1, Whereabouts DEF SInv, Stays, Message, Here, Readable
  <2>2. OnTarget(p, Message(p)) => OnTarget(p, Message(p))'
    BY <2>1 DEF Grows, OnTarget
  <2> QED
    BY <2>1, <2>2 DEF SInv, Honest
<1>2. CASE w[p].pc \notin Processing
  BY <1>2 DEF SInv, Honest, Known, Processing
<1> QED
  BY <1>1, <1>2

(* A row that is not written stays honest.                                 *)
LEMMA Lying ==
  ASSUME SInv, NEW r \in Row, HonestRow(r), placed[r.box][r.loc] # NoMsg,
         Stays, \A p \in Pairs : Grows(p)
  PROVE  HonestRow(r)'
<1>1. r.box \in Boxes /\ r.loc \in Loc /\ r.tbox \in Pairs
  BY DEF Row
<1>2. placed'[r.box][r.loc] = placed[r.box][r.loc] /\ placed[r.box][r.loc] \in Msgs
  BY <1>1 DEF Stays, SInv, IInv, SourceOK
<1>3. OnTarget(r.tbox, placed[r.box][r.loc]) => OnTarget(r.tbox, placed[r.box][r.loc])'
  BY <1>1, <1>2 DEF Grows, OnTarget
<1> QED
  BY <1>2, <1>3 DEF HonestRow

(* A step of one worker, put together from what it does.                   *)
LEMMA OneHonest ==
  ASSUME SInv, NEW p \in Pairs, IInv', UNCHANGED source,
         \A q \in Pairs \ {p} : w'[q] = w[q] /\ Grows(q) /\ Unflagged(q)',
         Grows(p), Unflagged(p)', Honest(p)', HonestRows'
  PROVE  SInv'
<1>1. \A q \in Pairs \ {p} : Honest(q)'
  BY Waiting, SourceStays
<1> QED
  BY <1>1 DEF SInv

(* It does nothing but go elsewhere.                                       *)
LEMMA OnlyGoing ==
  ASSUME SInv, NEW p \in Pairs, \A q \in Pairs \ {p} : w'[q] = w[q], IInv',
         UNCHANGED <<source, target, table>>, Honest(p)'
  PROVE  SInv'
<1>1. \A q \in Pairs : Grows(q) /\ Unflagged(q)'
  BY TargetGrows DEF SInv, target
<1>2. HonestRows'
  BY Lying, SourceStays, <1>1 DEF SInv, HonestRows, table, IInv, TableOK, RowsOK
<1> QED
  BY <1>1, <1>2, OneHonest

-----------------------------------------------------------------------------
(* A worker at the same message.                                           *)

(* u and v are locals of a worker that is at one message.                  *)
SameMessage(u, v) ==
  /\ v.folder = u.folder /\ v.uid = u.uid /\ v.mid = u.mid /\ v.fp = u.fp
  /\ v.src => u.src

LEMMA SamePc ==
  ASSUME NEW v \in Worker, NEW pc
  PROVE  SameMessage(v, [v EXCEPT !.pc = pc]) /\ [v EXCEPT !.pc = pc].pc = pc
  BY DEF SameMessage, Worker

LEMMA SameAttempt ==
  ASSUME NEW p \in Pairs, w[p] \in Worker, NEW n
  PROVE  /\ SameMessage(w[p], Attempt(p, n)) /\ Attempt(p, n).pc \in {"fetch", "fail"}
         /\ SameMessage(w[p], [Attempt(p, n) EXCEPT !.tgt = FALSE])
         /\ [Attempt(p, n) EXCEPT !.tgt = FALSE].pc \in {"fetch", "fail"}
  BY DEF SameMessage, Worker, Attempt

LEMMA Going ==
  ASSUME SInv, NEW p \in Pairs, NEW v, Goto(p, v)
  PROVE  w'[p] = v /\ \A q \in Pairs \ {p} : w'[q] = w[q]
  BY DEF SInv, IInv, LocalsOK, Goto

LEMMA GoingPc ==
  ASSUME SInv, NEW p \in Pairs, NEW pc, Goto(p, [w[p] EXCEPT !.pc = pc])
  PROVE  /\ SameMessage(w[p], w'[p]) /\ w'[p].pc = pc
         /\ \A q \in Pairs \ {p} : w'[q] = w[q]
<1>1. w[p] \in Worker
  BY DEF SInv, IInv, LocalsOK
<1>2. PICK v : Goto(p, v) /\ SameMessage(w[p], v) /\ v.pc = pc
  BY <1>1, SamePc
<1> QED
  BY <1>2, Going

LEMMA Staying ==
  ASSUME SInv, NEW p \in Pairs, UNCHANGED source, w[p].pc \in Known,
         SameMessage(w[p], w'[p]), w'[p].pc \in Known,
         w[p].fp = BlankFp /\ ~HeadersMayFail => w'[p].pc \in {"check", "skip", "fetch", "fail"},
         w'[p].pc \in {"move", "relocate", "moved"} => Policy = "move-target",
         w'[p].pc \in {"record", "relocate", "moved"} => OnTarget(p, Message(p))',
         HeadersSafe /\ w'[p].pc = "skip" => OnTarget(p, Message(p))'
  PROVE  Honest(p)'
<1>1. Message(p)' = Message(p) /\ (Readable(p)' => Readable(p))
  BY DEF SameMessage, source, Message, Here, Readable
<1>2. /\ w[p].mid \in {Empty, Message(p)} /\ w[p].fp \in {Empty, BlankFp, Message(p)}
      /\ Policy = "off" <=> w[p].fp = Empty
      /\ w[p].fp = BlankFp /\ ~HeadersMayFail => ~Readable(p)
  BY DEF SInv, Honest
<1>3. w'[p].mid = w[p].mid /\ w'[p].fp = w[p].fp
  BY DEF SameMessage
<1> QED
  BY <1>1, <1>2, <1>3 DEF Honest, HeadersSafe

(* Between messages, or before the headers are fetched, there is nothing   *)
(* to be honest about.                                                     *)
LEMMA NothingKnown ==
  ASSUME NEW p \in Pairs, w'[p].pc \notin Known, w'[p].mid = Empty
  PROVE  Honest(p)'
  BY DEF Honest, Known, Processing

LEMMA NextUnknown ==
  ASSUME NEW p \in Pairs, w[p] \in Worker
  PROVE  /\ NextMessage(p).pc \notin Known /\ NextMessage(p).mid = Empty
         /\ LET v == [NextMessage(p) EXCEPT !.failed = TRUE]
            IN  v.pc \notin Known /\ v.mid = Empty
  BY DEF NextMessage, Worker, Known, Processing

LEMMA IdleUnknown == IdleWorker.pc \notin Known /\ IdleWorker.mid = Empty
  BY DEF IdleWorker, Known, Processing

-----------------------------------------------------------------------------
(* The target and the table.                                               *)

(* The copies of p are new: nothing is lost, and what was unflagged is.    *)
LEMMA Shuffling ==
  ASSUME SInv, NEW p \in Pairs, NEW new \in SUBSET Copy, NewCopies(p, new),
         Policy = "move-target",
         \A d \in copies[p] : ~d.del => \E e \in new : e.msg = d.msg /\ ~e.del,
         \A e \in new : \E c \in copies[p] : c.msg = e.msg
  PROVE  \A q \in Pairs : Grows(q) /\ Unflagged(q)' /\ NoNews(q)
<1>1. copies' = [copies EXCEPT ![p] = new] /\ copies \in [Pairs -> SUBSET Copy]
  BY DEF NewCopies, SInv, IInv, TargetOK
<1>2. Unflagged(p)
  BY DEF SInv
<1>3. \A c \in copies[p] : \E e \in new : e.msg = c.msg /\ ~e.del
  BY <1>2 DEF Unflagged
<1>4. Grows(p) /\ Unflagged(p)' /\ NoNews(p)
  BY <1>1, <1>3 DEF Grows, OnTarget, Unflagged, NoNews
<1>5. \A q \in Pairs \ {p} : Grows(q) /\ Unflagged(q)' /\ NoNews(q)
  BY <1>1 DEF Grows, OnTarget, SInv, Unflagged, NoNews
<1> QED
  BY <1>4, <1>5

LEMMA MovedCopies ==
  ASSUME SInv, NEW p \in Pairs, w[p].pc \in Processing
  PROVE  /\ copies[p] \in SUBSET Copy /\ Moved(p) \subseteq copies[p]
         /\ Arrived(p) \in SUBSET Copy
         /\ \A c \in Moved(p) : \E e \in Arrived(p) : e.msg = c.msg /\ e.del = c.del
         /\ \A e \in Arrived(p) : \E c \in Moved(p) : c.msg = e.msg
<1>1. copies[p] \in SUBSET Copy /\ Moved(p) \subseteq copies[p] /\ uidNext[p][TFolder(p)] \in Nat
  BY NextTargetUid DEF SInv, IInv, TargetOK, Moved
<1>2. TFolder(p) \in TFolders
  BY Whereabouts DEF SInv
<1>3. \A c \in Copy : LET e == [c EXCEPT !.folder = TFolder(p), !.uid = uidNext[p][TFolder(p)]]
                      IN  e \in Copy /\ e.msg = c.msg /\ e.del = c.del
  BY <1>1, <1>2 DEF Copy
<1> QED
  BY <1>1, <1>3 DEF Arrived

LEMMA Shuffled ==
  ASSUME SInv, NEW p \in Pairs, w[p].pc \in Processing, Policy = "move-target",
         Shuffle(p)
  PROVE  \A q \in Pairs : Grows(q) /\ Unflagged(q)' /\ NoNews(q)
<1>1. CASE MoveCommand(p)
  <2> DEFINE new == (copies[p] \ Moved(p)) \cup Arrived(p)
  <2>1. new \in SUBSET Copy /\ NewCopies(p, new)
    BY <1>1, MovedCopies DEF MoveCommand
  <2>2. \A d \in copies[p] : ~d.del => \E e \in new : e.msg = d.msg /\ ~e.del
    BY MovedCopies
  <2>3. \A e \in new : \E c \in copies[p] : c.msg = e.msg
    BY MovedCopies
  <2> HIDE DEF new
  <2> QED
    BY <2>1, <2>2, <2>3, Shuffling
<1>2. CASE CopyAndExpunge(p)
  <2> DEFINE new == (copies[p] \ Expunged(p)) \cup Arrived(p)
  <2>1. new \in SUBSET Copy /\ NewCopies(p, new)
    BY <1>2, MovedCopies DEF CopyAndExpunge
  <2>2. \A d \in copies[p] : ~d.del => \E e \in new : e.msg = d.msg /\ ~e.del
    BY MovedCopies DEF Expunged
  <2>3. \A e \in new : \E c \in copies[p] : c.msg = e.msg
    BY MovedCopies
  <2> HIDE DEF new
  <2> QED
    BY <2>1, <2>2, <2>3, Shuffling
<1>3. ASSUME NEW flagged \in BOOLEAN, CopyAndFlag(p, flagged)
      PROVE  \A q \in Pairs : Grows(q) /\ Unflagged(q)' /\ NoNews(q)
  <2> DEFINE left == {[c EXCEPT !.del = @ \/ flagged] : c \in Moved(p)}
             new == (copies[p] \ Moved(p)) \cup left \cup Arrived(p)
  <2>2. copies[p] \in SUBSET Copy /\ Moved(p) \subseteq copies[p]
    BY MovedCopies
  <2>3. left \in SUBSET Copy
    BY <2>2 DEF Copy
  <2>4. ASSUME NEW e \in left PROVE \E c \in Moved(p) : c.msg = e.msg
    <3>1. PICK c \in Moved(p) : e = [c EXCEPT !.del = @ \/ flagged]
      OBVIOUS
    <3>2. c \in Copy
      BY <2>2
    <3>3. c.msg = e.msg
      BY <3>1, <3>2 DEF Copy
    <3> QED
      BY <3>3
  <2>8. NewCopies(p, new)
    BY <1>3 DEF CopyAndFlag
  <2> HIDE DEF left
  <2>5. new \in SUBSET Copy
    BY <2>2, <2>3, MovedCopies
  <2>6. \A d \in copies[p] : ~d.del => \E e \in new : e.msg = d.msg /\ ~e.del
    BY MovedCopies
  <2>7. \A e \in new : \E c \in copies[p] : c.msg = e.msg
    BY <2>2, <2>4, MovedCopies
  <2> HIDE DEF new
  <2> QED
    BY <2>5, <2>6, <2>7, <2>8, Shuffling
<1> QED
  BY <1>1, <1>2, <1>3 DEF Shuffle

LEMMA StoredGrows ==
  ASSUME SInv, Benign, NEW p \in Pairs, w[p].pc \in Processing, Stored(p)
  PROVE  /\ \A q \in Pairs : Grows(q) /\ Unflagged(q)'
         /\ \E c \in copies'[p] : c.msg = Message(p)
<1> DEFINE x == [folder |-> TFolder(p), uid |-> uidNext[p][TFolder(p)], msg |-> Message(p),
                 del |-> Message(p) \in DeletedMsgs]
<1>1. copies' = [copies EXCEPT ![p] = copies[p] \cup {x}]
      /\ copies \in [Pairs -> SUBSET Copy]
  BY DEF Stored, NewCopies, SInv, IInv, TargetOK
<1>2. x.msg = Message(p) /\ (Policy = "move-target" => ~x.del)
  BY DEF Benign
<1> HIDE DEF x
<1>3. Grows(p) /\ Unflagged(p)'
  BY <1>1, <1>2 DEF Grows, OnTarget, SInv, Unflagged
<1>4. \A q \in Pairs \ {p} : Grows(q) /\ Unflagged(q)'
  BY <1>1 DEF Grows, OnTarget, SInv, Unflagged
<1> QED
  BY <1>1, <1>2, <1>3, <1>4

(* A row of the message the worker is at.                                  *)
LEMMA WriteHonest ==
  ASSUME SInv, Benign, NEW p \in Pairs, w[p].pc \in Known,
         NEW status \in RowStatus, NEW tuid \in Nat, Write(p, status, tuid),
         UNCHANGED <<source, target>>,
         status = "success" =>
           OnTarget(p, Message(p)) /\ (~HeadersMayFail => w[p].fp # BlankFp)
  PROVE  HonestRows'
<1> DEFINE new == [box |-> SrcOf[p], loc |-> Here(p), tbox |-> p,
                   tfolder |-> TFolder(p), tuid |-> tuid,
                   mid |-> w[p].mid, fp |-> w[p].fp,
                   status |-> status, id |-> lastId + 1]
<1>0. w[p].pc \in Processing
  BY DEF Known
<1>1. lastId \in Nat /\ db \in SUBSET Row /\ \A r \in db : placed[r.box][r.loc] # NoMsg
  BY DEF SInv, IInv, TableOK, RowsOK
<1>2. new \in Row
  BY <1>0, <1>1, Whereabouts DEF Row, SInv
<1>3. new.box = SrcOf[p] /\ new.loc = Here(p) /\ new.tbox = p /\ new.status = status
      /\ new.mid = w[p].mid /\ new.fp = w[p].fp
  OBVIOUS
<1>4. db' = record(db, new)
  BY DEF Write
<1> HIDE DEF new
<1>5. placed[SrcOf[p]][Here(p)] = Message(p) /\ Message(p) # NoMsg
  BY <1>0, Whereabouts DEF Message, SInv
<1>6. /\ w[p].mid \in {Empty, Message(p)} /\ w[p].fp \in {Empty, BlankFp, Message(p)}
      /\ Policy = "off" <=> w[p].fp = Empty
  BY DEF SInv, Honest
<1>7. HonestRow(new)
  BY <1>3, <1>5, <1>6 DEF HonestRow
<1>8. ASSUME NEW r \in record(db, new)
      PROVE  r \in Row /\ HonestRow(r) /\ placed[r.box][r.loc] # NoMsg
  <2>1. r \in Row
    BY <1>1, <1>2, <1>8, RecordRows
  <2>2. CASE r = new \/ r \in db
    BY <1>1, <1>3, <1>5, <1>7, <2>1, <2>2 DEF SInv, HonestRows
  <2>3. CASE r # new /\ r \notin db
    <3>1. PICK o \in RowsAt(db, new.box, new.loc) :
            /\ r.box = o.box /\ r.loc = o.loc /\ r.tbox = o.tbox /\ r.mid = o.mid
            /\ r.status = new.status
            /\ r.fp = IF new.fp # Empty THEN new.fp ELSE o.fp
      BY <1>1, <1>2, <1>8, <2>3, RecordRows
    <3>2. o \in Row /\ HonestRow(o) /\ o.box = SrcOf[p] /\ o.loc = Here(p)
      BY <1>1, <1>3, <3>1 DEF RowsAt, SInv, HonestRows
    <3>3. o.tbox = p
      BY <3>2 DEF HonestRow, Benign, Row
    <3>4. r.box = SrcOf[r.tbox] /\ r.mid \in {Empty, Message(p)}
          /\ o.fp \in {Empty, BlankFp, Message(p)}
      BY <1>5, <3>1, <3>2, <3>3 DEF HonestRow
    <3>5. r.fp \in {Empty, BlankFp, Message(p)} /\ (Policy = "off" => r.fp = Empty)
      BY <1>3, <1>6, <3>1, <3>2, <3>4 DEF HonestRow
    <3>6. status = "success" /\ ~HeadersMayFail => r.fp # BlankFp
      BY <1>3, <1>6, <3>1, <3>5 DEF BlankFp, Empty
    <3> QED
      BY <1>3, <1>5, <2>1, <3>1, <3>2, <3>3, <3>4, <3>5, <3>6 DEF HonestRow
  <2> QED
    BY <2>2, <2>3
<1>9. \A q \in Pairs : Grows(q)
  BY TargetGrows DEF target
<1>10. \A r \in record(db, new) : HonestRow(r)'
  BY <1>8, <1>9, Lying, SourceStays
<1> QED
  BY <1>4, <1>10 DEF HonestRows

(* Under move-target, with headers that do not fail, a fingerprint is the  *)
(* message's, and so are the rows that have it.                            *)
LEMMA MoveFingerprint ==
  ASSUME SInv, Benign, NEW p \in Pairs, w[p].pc \in {"move", "relocate", "moved"}
  PROVE  /\ Policy = "move-target" /\ ~HeadersMayFail
         /\ w[p].fp = Message(p) /\ w[p].fp # Empty /\ w[p].fp # BlankFp
         /\ w[p].pc \in Known
<1>1. w[p].pc \in Known
  BY DEF Known, Processing
<1>2. Policy = "move-target" /\ ~HeadersMayFail
  BY DEF SInv, Honest, Benign
<1> QED
  BY <1>1, <1>2 DEF SInv, Honest

LEMMA Related ==
  ASSUME SInv, NEW p \in Pairs, w[p].pc \in Known,
         Existing(p) # {}, ~HeadersMayFail
  PROVE  w[p].fp # BlankFp /\ OnTarget(p, Message(p))
<1>1. PICK r \in db : /\ r.tbox = p /\ r.fp = w[p].fp /\ r.fp # Empty
                      /\ r.status = "success"
  BY DEF Existing, ByFingerprint
<1>2. HonestRow(r)
  BY DEF SInv, HonestRows
<1>3. r.fp # BlankFp /\ r.fp = placed[r.box][r.loc] /\ OnTarget(p, r.fp)
  BY <1>1, <1>2 DEF HonestRow
<1> QED
  BY <1>1, <1>3 DEF SInv, Honest

LEMMA RelocateHonest ==
  ASSUME SInv, Benign, NEW p \in Pairs, w[p].pc \in {"move", "relocate"},
         NEW tfolder \in TFolders \cup {Empty}, NEW next,
         Relocate(p, tfolder, next), UNCHANGED <<source, target>>
  PROVE  HonestRows'
<1>1. \A q \in Pairs : Grows(q)
  BY TargetGrows DEF target
<1>2. /\ db \in SUBSET Row
      /\ \A r \in db : HonestRow(r) /\ placed[r.box][r.loc] # NoMsg
  BY DEF SInv, HonestRows, IInv, TableOK, RowsOK
<1>3. CASE RelocationConflicts(db, SrcOf[p], w[p].fp, Here(p))
  <2>1. db' = db
    BY <1>3 DEF Relocate
  <2>2. \A r \in db : HonestRow(r)'
    BY <1>1, <1>2, Lying, SourceStays
  <2> QED
    BY <2>1, <2>2 DEF HonestRows
<1>4. CASE ~RelocationConflicts(db, SrcOf[p], w[p].fp, Here(p))
  <2>1. db' = update_fingerprint_location(db, SrcOf[p], w[p].fp, Here(p), tfolder)
    BY <1>4 DEF Relocate
  <2>2. w[p].fp = Message(p) /\ w[p].fp # Empty /\ w[p].fp # BlankFp /\ w[p].pc \in Known
    BY MoveFingerprint
  <2>3. Here(p) \in Loc /\ placed[SrcOf[p]][Here(p)] = Message(p) /\ Message(p) # NoMsg
    BY <2>2, Whereabouts DEF Message, Known, SInv
  <2>4. ASSUME NEW r \in db'
        PROVE  r \in Row /\ HonestRow(r) /\ placed[r.box][r.loc] # NoMsg
    <3>1. r \in Row
      BY <1>2, <2>1, <2>3, <2>4, RelocatedRows
    <3>2. CASE r \in db
      BY <1>2, <3>1, <3>2
    <3>3. CASE r \notin db
      <4>1. PICK o \in Relocated(db, SrcOf[p], w[p].fp) :
              /\ r.loc = Here(p) /\ r.box = o.box /\ r.tbox = o.tbox
              /\ r.mid = o.mid /\ r.fp = o.fp /\ r.status = o.status
        BY <1>2, <2>1, <2>3, <2>4, <3>3, RelocatedRows
      <4>2. o \in db /\ o.box = SrcOf[p] /\ o.fp = Message(p) /\ o.status = "success"
        BY <2>2, <4>1 DEF Relocated
      <4>3. placed[o.box][o.loc] = Message(p)
        BY <1>2, <2>2, <4>2 DEF HonestRow
      <4>4. placed[r.box][r.loc] = Message(p)
        BY <2>3, <4>1, <4>2
      <4> QED
        BY <1>2, <2>3, <3>1, <4>1, <4>2, <4>3, <4>4 DEF HonestRow
    <3> QED
      BY <3>2, <3>3
  <2>5. \A r \in db' : HonestRow(r)'
    BY <1>1, <2>4, Lying, SourceStays
  <2> QED
    BY <2>5 DEF HonestRows
<1> QED
  BY <1>3, <1>4

-----------------------------------------------------------------------------
(* The steps of a worker.                                                  *)

LEMMA FrameLocals ==
  ASSUME SInv, NEW p \in Pairs,
         \/ Connect(p) \/ ConnectFails(p) \/ ListFolders(p) \/ FinishRun(p)
         \/ \E f \in Folders : OpenFolder(p, f) \/ SkipFolder(p, f)
         \/ EndFolder(p) \/ StatementRaises(p)
  PROVE  /\ w'[p].pc \notin Processing /\ w'[p].mid = Empty
         /\ \A q \in Pairs \ {p} : w'[q] = w[q]
<1>1. w \in [Pairs -> Worker] /\ w[p] \in Worker
  BY DEF SInv, IInv, LocalsOK
<1>2. CASE ConnectFails(p) \/ FinishRun(p) \/ StatementRaises(p)
  <2>1. Goto(p, IdleWorker)
    BY <1>2 DEF ConnectFails, FinishRun, StatementRaises, WorkerFails
  <2>2. w'[p] = IdleWorker /\ \A q \in Pairs \ {p} : w'[q] = w[q]
    BY <2>1, Going
  <2> QED
    BY <2>2 DEF IdleWorker, Processing
<1>3. w[p].pc \notin Known => w[p].mid = Empty
  BY DEF SInv, Honest
<1>4. CASE Connect(p)
  BY <1>1, <1>3, <1>4 DEF Connect, At, Goto, Worker, Known, Processing
<1>5. CASE ListFolders(p)
  <2>1. At(p, "list") /\ \/ Goto(p, [w[p] EXCEPT !.pc = "folder", !.folders = Folders])
                         \/ Goto(p, [w[p] EXCEPT !.pc = "folder"])
    BY <1>5 DEF ListFolders
  <2>2. /\ [w[p] EXCEPT !.pc = "folder", !.folders = Folders].pc = "folder"
        /\ [w[p] EXCEPT !.pc = "folder", !.folders = Folders].mid = w[p].mid
        /\ [w[p] EXCEPT !.pc = "folder"].pc = "folder"
        /\ [w[p] EXCEPT !.pc = "folder"].mid = w[p].mid
    BY <1>1 DEF Worker
  <2> QED
    BY <1>3, <2>1, <2>2, Going DEF At, Known, Processing
<1>6. ASSUME NEW f \in Folders, OpenFolder(p, f)
      PROVE  /\ w'[p].pc \notin Processing /\ w'[p].mid = Empty
             /\ \A q \in Pairs \ {p} : w'[q] = w[q]
  <2> DEFINE uids == {u \in Uids : <<f, u>> \in present[SrcOf[p]]}
  <2>1. At(p, "folder")
        /\ Goto(p, [w[p] EXCEPT !.pc = "uid", !.folder = f, !.folders = @ \ {f}, !.uids = uids])
    BY <1>6 DEF OpenFolder
  <2> HIDE DEF uids
  <2> QED
    BY <1>1, <1>3, <2>1 DEF At, Goto, Worker, Known, Processing
<1>7. ASSUME NEW f \in Folders, SkipFolder(p, f)
      PROVE  /\ w'[p].pc \notin Processing /\ w'[p].mid = Empty
             /\ \A q \in Pairs \ {p} : w'[q] = w[q]
  BY <1>1, <1>3, <1>7 DEF SkipFolder, At, Goto, Worker, Known, Processing
<1>8. CASE EndFolder(p)
  BY <1>1, <1>3, <1>8 DEF EndFolder, At, Goto, Worker, Known, Processing
<1> QED
  BY <1>2, <1>4, <1>5, <1>6, <1>7, <1>8

LEMMA FrameHonest ==
  ASSUME SInv, IInv', NEW p \in Pairs,
         \/ Connect(p) \/ ConnectFails(p) \/ ListFolders(p) \/ FinishRun(p)
         \/ \E f \in Folders : OpenFolder(p, f) \/ SkipFolder(p, f)
         \/ EndFolder(p) \/ \E u \in Uids : NextUid(p, u)
         \/ StatementRaises(p)
  PROVE  SInv'
<1>1. UNCHANGED <<source, target, table>>
  BY DEF Connect, ConnectFails, ListFolders, FinishRun, OpenFolder, SkipFolder,
         EndFolder, NextUid, StatementRaises
<1>2. /\ w'[p].pc \notin Known /\ w'[p].mid = Empty
      /\ \A q \in Pairs \ {p} : w'[q] = w[q]
  <2>1. ASSUME NEW u \in Uids, NextUid(p, u)
        PROVE  /\ w'[p].pc \notin Known /\ w'[p].mid = Empty
               /\ \A q \in Pairs \ {p} : w'[q] = w[q]
    <3>1. w \in [Pairs -> Worker] /\ w[p] \in Worker /\ (w[p].pc \notin Known => w[p].mid = Empty)
      BY DEF SInv, IInv, LocalsOK, Honest
    <3> QED
      BY <2>1, <3>1 DEF NextUid, At, Goto, Worker, Known, Processing
  <2> QED
    BY <2>1, FrameLocals DEF Known
<1>3. Honest(p)'
  BY <1>2, NothingKnown
<1> QED
  BY <1>1, <1>2, <1>3, OnlyGoing

LEMMA HeaderHonest ==
  ASSUME SInv, IInv', NEW p \in Pairs, Header(p)
  PROVE  SInv'
<1>1. w[p] \in Worker /\ w[p].pc = "header" /\ UNCHANGED <<source, target, table>>
  BY DEF SInv, IInv, LocalsOK, Header, At
<1>2. Message(p) \in Msgs /\ Good(SrcOf[p], w[p])
  BY <1>1, Whereabouts DEF SInv, Processing
<1>3. Empty \notin Msgs /\ BlankFp \notin Msgs /\ Empty # BlankFp
      /\ w[p].mid = Empty
  BY <1>1, MailboxSyncAssumption DEF Empty, BlankFp, SInv, Honest, Known
<1>4. CASE Readable(p) /\ Goto(p, [w[p] EXCEPT !.pc = "check", !.mid = MessageId(Message(p)),
                                               !.fp = Fingerprint(Message(p))])
  <2> DEFINE v == [w[p] EXCEPT !.pc = "check", !.mid = MessageId(Message(p)),
                               !.fp = Fingerprint(Message(p))]
  <2>1. /\ v.pc = "check" /\ v.mid = MessageId(Message(p)) /\ v.fp = Fingerprint(Message(p))
        /\ v.folder = w[p].folder /\ v.uid = w[p].uid /\ v.src = w[p].src
    BY <1>1 DEF Worker
  <2>2. w'[p] = v /\ \A q \in Pairs \ {p} : w'[q] = w[q]
    BY <1>4, Going
  <2> HIDE DEF v
  <2>3. Message(p)' = Message(p)
    BY <1>1, <2>1, <2>2 DEF Message, Here, source
  <2>4. Honest(p)'
    <3>1. w'[p].mid \in {Empty, Message(p)} /\ w'[p].pc = "check"
      BY <2>1, <2>2 DEF MessageId
    <3>2. w'[p].fp \in {Empty, Message(p)} /\ (Policy = "off" <=> w'[p].fp = Empty)
          /\ w'[p].fp # BlankFp
      BY <1>2, <1>3, <2>1, <2>2 DEF Fingerprint
    <3> QED
      BY <2>3, <3>1, <3>2 DEF Honest, Known, Processing
  <2> QED
    BY <1>1, <2>2, <2>4, OnlyGoing
<1>5. CASE /\ Goto(p, [w[p] EXCEPT !.pc = "check",
                                   !.fp = IF Policy = "off" THEN Empty ELSE BlankFp])
           /\ IF Readable(p) THEN HeadersMayFail /\ Fault(p) ELSE NoFault
  <2> DEFINE v == [w[p] EXCEPT !.pc = "check",
                               !.fp = IF Policy = "off" THEN Empty ELSE BlankFp]
  <2>1. /\ v.pc = "check" /\ v.mid = w[p].mid
        /\ v.fp = IF Policy = "off" THEN Empty ELSE BlankFp
        /\ v.folder = w[p].folder /\ v.uid = w[p].uid /\ v.src = w[p].src
    BY <1>1 DEF Worker
  <2>2. w'[p] = v /\ \A q \in Pairs \ {p} : w'[q] = w[q]
    BY <1>5, Going
  <2> HIDE DEF v
  <2>3. Message(p)' = Message(p) /\ Readable(p)' = Readable(p)
    BY <1>1, <2>1, <2>2 DEF Message, Here, source, Readable
  <2>4. Honest(p)'
    <3>1. /\ w'[p].mid = Empty /\ w'[p].pc = "check"
          /\ w'[p].fp \in {Empty, BlankFp} /\ (Policy = "off" <=> w'[p].fp = Empty)
          /\ Readable(p) => HeadersMayFail
      BY <1>3, <1>5, <2>1, <2>2
    <3> QED
      BY <2>3, <3>1 DEF Honest, Known, Processing
  <2> QED
    BY <1>1, <2>2, <2>4, OnlyGoing
<1> QED
  BY <1>4, <1>5 DEF Header

(* Where only the worker and the target change, the rows stay honest.      *)
LEMMA RowsStay ==
  ASSUME SInv, Stays, \A p \in Pairs : Grows(p), UNCHANGED table
  PROVE  HonestRows'
  BY Lying DEF SInv, HonestRows, table, IInv, TableOK, RowsOK

LEMMA SameHere ==
  ASSUME NEW p \in Pairs, UNCHANGED source, SameMessage(w[p], w'[p])
  PROVE  Message(p)' = Message(p)
  BY DEF SameMessage, source, Message, Here

(* To the next attempt: what was known is known still, and nothing is      *)
(* claimed.                                                                *)
LEMMA Retrying ==
  ASSUME SInv, IInv', NEW p \in Pairs, w[p].pc \in Known, NEW n,
         Goto(p, Attempt(p, n)) \/ Goto(p, [Attempt(p, n) EXCEPT !.tgt = FALSE]),
         UNCHANGED source, HonestRows', \A q \in Pairs : Grows(q) /\ Unflagged(q)'
  PROVE  SInv'
<1>1. w[p] \in Worker
  BY DEF SInv, IInv, LocalsOK
<1>2. /\ SameMessage(w[p], w'[p]) /\ w'[p].pc \in {"fetch", "fail"}
      /\ \A q \in Pairs \ {p} : w'[q] = w[q]
  <2>1. PICK v : /\ Goto(p, v) /\ SameMessage(w[p], v) /\ v.pc \in {"fetch", "fail"}
    BY <1>1, SameAttempt
  <2> QED
    BY <2>1, Going
<1>3. Honest(p)'
  BY <1>2, Staying DEF Known, Processing
<1> QED
  BY <1>2, <1>3, OneHonest

(* record, then on to the next message.                                    *)
LEMMA Recording ==
  ASSUME SInv, Benign, IInv', NEW p \in Pairs, w[p].pc \in Known,
         NEW status \in RowStatus, NEW tuid \in Nat, Write(p, status, tuid),
         Goto(p, NextMessage(p)) \/ Goto(p, [NextMessage(p) EXCEPT !.failed = TRUE]),
         UNCHANGED <<source, target>>,
         status = "success" =>
           OnTarget(p, Message(p)) /\ (~HeadersMayFail => w[p].fp # BlankFp)
  PROVE  SInv'
<1>1. w[p] \in Worker
  BY DEF SInv, IInv, LocalsOK
<1>2. HonestRows'
  BY WriteHonest
<1>3. w'[p].pc \notin Known /\ w'[p].mid = Empty /\ \A q \in Pairs \ {p} : w'[q] = w[q]
  BY <1>1, NextUnknown, Going
<1>4. Honest(p)'
  BY <1>3, NothingKnown
<1>5. \A q \in Pairs : Grows(q) /\ Unflagged(q)'
  BY TargetGrows DEF SInv, target
<1> QED
  BY <1>2, <1>3, <1>4, <1>5, OneHonest

LEMMA CheckHonest ==
  ASSUME SInv, Benign, IInv', NEW p \in Pairs, Check(p)
  PROVE  SInv'
<1>1. /\ w[p].pc = "check" /\ w[p].pc \in Known /\ w[p] \in Worker
      /\ UNCHANGED <<source, target, table>>
  BY DEF SInv, IInv, LocalsOK, Check, At, Known, Processing
<1>2. ASSUME ~HeadersMayFail, Existing(p) # {}
      PROVE  w[p].fp # BlankFp /\ OnTarget(p, Message(p))
  BY <1>1, <1>2, Related
<1>3. ASSUME is_message_id_migrated(db, SrcOf[p], p, w[p].mid)
      PROVE  OnTarget(p, Message(p))
  <2>1. PICK r \in db : r.tbox = p /\ r.mid = w[p].mid /\ r.status = "success"
    BY <1>3 DEF is_message_id_migrated
  <2>2. w[p].mid = Message(p) /\ w[p].mid # Empty
    BY <1>1, <1>3 DEF SInv, Honest, is_message_id_migrated
  <2>3. HonestRow(r)
    BY DEF SInv, HonestRows
  <2> QED
    BY <2>1, <2>2, <2>3 DEF HonestRow
<1>4. CASE Goto(p, [w[p] EXCEPT !.pc = "skip"])
           /\ (HeadersSafe => OnTarget(p, Message(p)))
  <2>1. SameMessage(w[p], w'[p]) /\ w'[p].pc = "skip" /\ \A q \in Pairs \ {p} : w'[q] = w[q]
    BY <1>1, <1>4, GoingPc
  <2>2. HeadersSafe => OnTarget(p, Message(p))'
    BY <1>1, <1>4, <2>1, SameHere DEF OnTarget, target
  <2>3. Honest(p)'
    BY <1>1, <2>1, <2>2, Staying DEF Known, Processing
  <2> QED
    BY <1>1, <2>1, <2>3, OnlyGoing
<1>5. CASE Goto(p, [w[p] EXCEPT !.pc = "move"]) /\ Policy = "move-target" /\ Existing(p) # {}
  <2>1. SameMessage(w[p], w'[p]) /\ w'[p].pc = "move" /\ \A q \in Pairs \ {p} : w'[q] = w[q]
    BY <1>1, <1>5, GoingPc
  <2>2. w[p].fp # BlankFp
    BY <1>2, <1>5 DEF Benign
  <2>3. Honest(p)'
    BY <1>1, <1>5, <2>1, <2>2, Staying DEF Known, Processing
  <2> QED
    BY <1>1, <2>1, <2>3, OnlyGoing
<1>6. CASE Goto(p, Attempt(p, 1))
  <2>1. \A q \in Pairs : Grows(q) /\ Unflagged(q)'
    BY <1>1, TargetGrows DEF SInv, target
  <2>2. HonestRows'
    BY <1>1, <2>1, RowsStay, SourceStays
  <2> QED
    BY <1>1, <1>6, <2>1, <2>2, Retrying
<1>7. /\ Action(p) \in {"skip", "move", "copy"}
      /\ Action(p) = "skip" => Existing(p) # {} /\ Policy \in {"global-dedupe", "move-target"}
      /\ Action(p) = "move" => Existing(p) # {} /\ Policy = "move-target"
  BY MailboxSyncAssumption DEF Action, Existing, Policies
<1>8. \/ /\ Goto(p, [w[p] EXCEPT !.pc = "skip"])
         /\ is_message_id_migrated(db, SrcOf[p], p, w[p].mid) \/ Action(p) = "skip"
      \/ Goto(p, [w[p] EXCEPT !.pc = "move"]) /\ Action(p) = "move"
      \/ Goto(p, Attempt(p, 1))
  BY <1>7 DEF Check
<1> QED
  BY <1>2, <1>3, <1>4, <1>5, <1>6, <1>7, <1>8 DEF HeadersSafe

LEMMA RecordHonest ==
  ASSUME SInv, Benign, IInv', NEW p \in Pairs,
         RecordSkipped(p) \/ RecordMoved(p) \/ RecordSuccess(p) \/ RecordFailed(p)
  PROVE  SInv'
<1>1. w[p].pc \in Known /\ w[p].tuid \in Nat
  <2>1. w[p].pc \in Known
    BY DEF RecordSkipped, RecordMoved, RecordSuccess, RecordFailed, At, Known, Processing
  <2> QED
    BY <2>1, Whereabouts DEF SInv, Known
<1>2. NoTuid \in Nat
  BY DEF NoTuid
<1>3. CASE RecordSkipped(p)
  BY <1>1, <1>2, <1>3, Recording DEF RecordSkipped, RowStatus
<1>4. CASE RecordFailed(p)
  BY <1>1, <1>2, <1>4, Recording DEF RecordFailed, RowStatus
<1>5. CASE RecordMoved(p) \/ RecordSuccess(p)
  <2>1. OnTarget(p, Message(p)) /\ (~HeadersMayFail => w[p].fp # BlankFp)
    BY <1>1, <1>5 DEF RecordMoved, RecordSuccess, At, SInv, Honest
  <2> QED
    BY <1>1, <1>2, <1>5, <2>1, Recording DEF RecordMoved, RecordSuccess, RowStatus
<1> QED
  BY <1>3, <1>4, <1>5

(* update_fingerprint_location, then on to next, or the worker fails.      *)
LEMMA Relocation ==
  ASSUME SInv, Benign, IInv', NEW p \in Pairs, w[p].pc \in {"move", "relocate"},
         NEW tfolder \in TFolders \cup {Empty}, NEW next,
         Relocate(p, tfolder, next), UNCHANGED <<source, target>>,
         SameMessage(w[p], next),
         next.pc \in {"fetch", "fail"} \/ (next.pc = "moved" /\ OnTarget(p, Message(p)))
  PROVE  SInv'
<1>1. HonestRows'
  BY RelocateHonest
<1>2. \A q \in Pairs : Grows(q) /\ Unflagged(q)'
  BY TargetGrows DEF SInv, target
<1>3. CASE Goto(p, IdleWorker)
  <2>1. /\ w'[p].pc \notin Known /\ w'[p].mid = Empty
        /\ \A q \in Pairs \ {p} : w'[q] = w[q]
    BY <1>3, IdleUnknown, Going
  <2>2. Honest(p)'
    BY <2>1, NothingKnown
  <2> QED
    BY <1>1, <1>2, <2>1, <2>2, OneHonest
<1>4. CASE Goto(p, next)
  <2>1. w'[p] = next /\ \A q \in Pairs \ {p} : w'[q] = w[q]
    BY <1>4, Going
  <2>2. w[p].pc \in Known /\ w[p].fp # BlankFp /\ Policy = "move-target"
    BY MoveFingerprint
  <2>3. OnTarget(p, Message(p)) => OnTarget(p, Message(p))'
    BY <2>1, SameHere DEF OnTarget, target
  <2>4. Honest(p)'
    BY <2>1, <2>2, <2>3, Staying DEF Known, Processing
  <2> QED
    BY <1>1, <1>2, <2>1, <2>4, OneHonest
<1> QED
  BY <1>3, <1>4 DEF Relocate, WorkerFails

LEMMA RelocationSteps ==
  ASSUME SInv, Benign, IInv', NEW p \in Pairs,
         MoveInPlace(p) \/ MoveImpossible(p) \/ RelocateRow(p)
  PROVE  SInv'
<1>1. /\ w[p].pc \in {"move", "relocate"} /\ w[p].pc \in Known /\ w[p] \in Worker
      /\ UNCHANGED <<source, target>>
      /\ TFolder(p) \in TFolders
  <2>1. w[p].pc \in {"move", "relocate"} /\ UNCHANGED <<source, target>>
    BY DEF MoveInPlace, MoveImpossible, RelocateRow, At
  <2> QED
    BY <2>1, Whereabouts DEF SInv, Known, Processing
<1>2. Existing(p) # {} => OnTarget(p, Message(p))
  BY <1>1, Related, MoveFingerprint
<1>3. CASE MoveInPlace(p) \/ RelocateRow(p)
  <2> DEFINE v == [w[p] EXCEPT !.pc = "moved"]
  <2>1. PICK tfolder \in TFolders \cup {Empty} : Relocate(p, tfolder, v)
    BY <1>1, <1>3 DEF MoveInPlace, RelocateRow
  <2>2. SameMessage(w[p], v) /\ v.pc = "moved"
    BY <1>1, SamePc
  <2> HIDE DEF v
  <2>3. OnTarget(p, Message(p))
    BY <1>2, <1>3 DEF MoveInPlace, RelocateRow, At, SInv, Honest
  <2> QED
    BY <1>1, <2>1, <2>2, <2>3, Relocation
<1>4. CASE MoveImpossible(p)
  <2> DEFINE v == Attempt(p, 1)
  <2>1. SameMessage(w[p], v) /\ v.pc \in {"fetch", "fail"}
    BY <1>1, SameAttempt
  <2>2. CASE Goto(p, v) /\ UNCHANGED table
    <3>1. \A q \in Pairs : Grows(q) /\ Unflagged(q)'
      BY <1>1, TargetGrows DEF SInv, target
    <3>2. HonestRows'
      BY <1>1, <2>2, <3>1, RowsStay, SourceStays
    <3> QED
      BY <1>1, <2>2, <3>1, <3>2, Retrying
  <2>3. CASE Relocate(p, Empty, v)
    <3> HIDE DEF v
    <3> QED
      BY <1>1, <2>1, <2>3, Relocation
  <2> QED
    BY <1>4, <2>2, <2>3 DEF MoveImpossible
<1> QED
  BY <1>3, <1>4

(* What moves on the target is what was there, and is there still.         *)
LEMMA MoveCopies ==
  ASSUME SInv, NEW p \in Pairs, Policy = "move-target", w[p].pc \in Processing,
         MoveDone(p) \/ MoveRefused(p) \/ MoveHalfDone(p) \/ MoveUnconfirmed(p)
  PROVE  \A q \in Pairs : Grows(q) /\ Unflagged(q)' /\ NoNews(q)
<1>1. CASE MoveDone(p) \/ MoveHalfDone(p) \/ MoveUnconfirmed(p)
  BY <1>1, Shuffled DEF MoveDone, MoveHalfDone, MoveUnconfirmed, Shuffle
<1>2. CASE MoveRefused(p)
  BY <1>2, TargetGrows DEF MoveRefused, SInv, target, NoNews, OnTarget
<1> QED
  BY <1>1, <1>2

LEMMA MoveHonest ==
  ASSUME SInv, Benign, IInv', NEW p \in Pairs,
         MoveDone(p) \/ MoveRefused(p) \/ MoveHalfDone(p) \/ MoveUnconfirmed(p)
  PROVE  SInv'
<1>1. /\ w[p].pc = "move" /\ Existing(p) # {} /\ UNCHANGED <<source, table>>
  BY DEF MoveDone, MoveRefused, MoveHalfDone, MoveUnconfirmed, Moving, At
<1>2. /\ Policy = "move-target" /\ ~HeadersMayFail /\ w[p].fp # BlankFp
      /\ w[p].pc \in Known /\ w[p].pc \in Processing
      /\ OnTarget(p, Message(p)) /\ Message(p) \in Msgs
  <2>1. w[p].pc \in Processing
    BY <1>1 DEF Processing
  <2> QED
    BY <1>1, <2>1, MoveFingerprint, Related, Whereabouts DEF SInv
<1>3. \A q \in Pairs : Grows(q) /\ Unflagged(q)'
  BY <1>2, MoveCopies
<1>4. HonestRows'
  BY <1>1, <1>3, RowsStay, SourceStays
<1>5. CASE MoveDone(p)
  <2>1. /\ SameMessage(w[p], w'[p]) /\ w'[p].pc = "relocate"
        /\ \A q \in Pairs \ {p} : w'[q] = w[q]
    BY <1>5, GoingPc DEF MoveDone
  <2>2. OnTarget(p, Message(p))'
    <3>1. Message(p)' = Message(p)
      BY <1>1, <2>1, SameHere
    <3> QED
      BY <1>2, <1>3, <3>1 DEF Grows, OnTarget
  <2>3. Honest(p)'
    BY <1>1, <1>2, <2>1, <2>2, Staying DEF Known, Processing
  <2> QED
    BY <1>1, <1>3, <1>4, <2>1, <2>3, OneHonest
<1>6. CASE MoveRefused(p) \/ MoveHalfDone(p) \/ MoveUnconfirmed(p)
  BY <1>1, <1>2, <1>3, <1>4, <1>6, Retrying DEF MoveRefused, MoveHalfDone, MoveUnconfirmed
<1> QED
  BY <1>5, <1>6

LEMMA FetchHonest ==
  ASSUME SInv, Benign, IInv', NEW p \in Pairs,
         Fetch(p) \/ AppendFails(p) \/ RecordRaises(p)
  PROVE  SInv'
<1>1. /\ w[p].pc \in {"fetch", "append", "record"} /\ w[p].pc \in Known
      /\ UNCHANGED <<source, target, table>>
  BY DEF Fetch, AppendFails, RecordRaises, At, Known, Processing
<1>2. \A q \in Pairs : Grows(q) /\ Unflagged(q)'
  BY <1>1, TargetGrows DEF SInv, target
<1>3. HonestRows'
  BY <1>1, <1>2, RowsStay, SourceStays
<1>4. CASE Goto(p, Attempt(p, w[p].attempt + 1))
  BY <1>1, <1>2, <1>3, <1>4, Retrying
<1>5. CASE Readable(p) /\ Goto(p, [w[p] EXCEPT !.pc = "append"])
  <2>1. /\ SameMessage(w[p], w'[p]) /\ w'[p].pc = "append"
        /\ \A q \in Pairs \ {p} : w'[q] = w[q]
    BY <1>5, GoingPc
  <2>2. w[p].fp = BlankFp => HeadersMayFail
    BY <1>1, <1>5 DEF SInv, Honest
  <2>3. Honest(p)'
    BY <1>1, <2>1, <2>2, Staying DEF Known, Processing
  <2> QED
    BY <1>1, <2>1, <2>3, OnlyGoing
<1> QED
  BY <1>4, <1>5 DEF Fetch, AppendFails, RecordRaises

LEMMA AppendHonest ==
  ASSUME SInv, Benign, IInv', NEW p \in Pairs,
         AppendMessage(p) \/ AppendUnconfirmed(p)
  PROVE  SInv'
<1>1. /\ w[p].pc = "append" /\ w[p].pc \in Known /\ w[p].pc \in Processing
      /\ Stored(p) /\ UNCHANGED <<source, table>> /\ w[p] \in Worker
  BY DEF AppendMessage, AppendUnconfirmed, At, Known, Processing, SInv, IInv, LocalsOK
<1>2. /\ \A q \in Pairs : Grows(q) /\ Unflagged(q)'
      /\ \E c \in copies'[p] : c.msg = Message(p)
  BY <1>1, StoredGrows
<1>3. HonestRows'
  BY <1>1, <1>2, RowsStay, SourceStays
<1>4. CASE AppendMessage(p)
  <2> DEFINE tuid == IF AppendUid THEN uidNext[p][TFolder(p)] ELSE NoTuid
  <2>1. Goto(p, [w[p] EXCEPT !.pc = "record", !.tuid = tuid])
    BY <1>4 DEF AppendMessage
  <2> HIDE DEF tuid
  <2>2. PICK v : Goto(p, v) /\ SameMessage(w[p], v) /\ v.pc = "record"
    <3>1. LET v == [w[p] EXCEPT !.pc = "record", !.tuid = tuid]
          IN  SameMessage(w[p], v) /\ v.pc = "record"
      BY <1>1 DEF SameMessage, Worker
    <3> QED
      BY <2>1, <3>1
  <2>3. /\ SameMessage(w[p], w'[p]) /\ w'[p].pc = "record"
        /\ \A q \in Pairs \ {p} : w'[q] = w[q]
    BY <2>2, Going
  <2>4. OnTarget(p, Message(p))'
    <3>1. Message(p)' = Message(p)
      BY <1>1, <2>3, SameHere
    <3> QED
      BY <1>2, <3>1 DEF OnTarget
  <2>5. w[p].fp = BlankFp => HeadersMayFail
    BY <1>1 DEF SInv, Honest
  <2>6. Honest(p)'
    BY <1>1, <2>3, <2>4, <2>5, Staying DEF Known, Processing
  <2> QED
    BY <1>1, <1>2, <1>3, <2>3, <2>6, OneHonest
<1>5. CASE AppendUnconfirmed(p)
  BY <1>1, <1>2, <1>3, <1>5, Retrying DEF AppendUnconfirmed
<1> QED
  BY <1>4, <1>5

-----------------------------------------------------------------------------
(* The steps of the environment.                                           *)

LEMMA BreakHonest ==
  ASSUME SInv, IInv', NEW p \in Pairs, Break(p)
  PROVE  SInv'
<1>1. w[p] \in Worker /\ UNCHANGED <<source, target, table>>
  BY DEF SInv, IInv, LocalsOK, Break
<1>2. PICK v : Goto(p, v) /\ SameMessage(w[p], v) /\ v.pc = w[p].pc
  <2>1. LET v == [w[p] EXCEPT !.src = FALSE] IN SameMessage(w[p], v) /\ v.pc = w[p].pc
    BY <1>1 DEF SameMessage, Worker
  <2>2. LET v == [w[p] EXCEPT !.tgt = FALSE] IN SameMessage(w[p], v) /\ v.pc = w[p].pc
    BY <1>1 DEF SameMessage, Worker
  <2> QED
    BY <2>1, <2>2 DEF Break
<1>3. /\ SameMessage(w[p], w'[p]) /\ w'[p].pc = w[p].pc
      /\ \A q \in Pairs \ {p} : w'[q] = w[q]
  BY <1>2, Going
<1>4. Honest(p)
  BY DEF SInv
<1>5. Honest(p)'
  <2>1. CASE w[p].pc \in Known
    <3>1. OnTarget(p, Message(p)) => OnTarget(p, Message(p))'
      BY <1>1, <1>3, SameHere DEF OnTarget, target
    <3> QED
      BY <1>1, <1>3, <1>4, <2>1, <3>1, Staying DEF Honest
  <2>2. CASE w[p].pc \notin Known
    BY <1>3, <1>4, <2>2, NothingKnown DEF Honest, SameMessage
  <2> QED
    BY <2>1, <2>2
<1> QED
  BY <1>1, <1>3, <1>5, OnlyGoing

LEMMA ProcessHonest ==
  ASSUME SInv, IInv', StartProcess \/ Crash
  PROVE  SInv'
<1>1. UNCHANGED <<source, target, table>>
  BY DEF StartProcess, Crash
<1>2. \A p \in Pairs : Grows(p) /\ Unflagged(p)'
  BY <1>1, TargetGrows DEF SInv, target
<1>3. HonestRows'
  BY <1>1, <1>2, RowsStay, SourceStays
<1>4. ASSUME NEW p \in Pairs PROVE Honest(p)'
  <2>1. w'[p] \in {IdleWorker, [IdleWorker EXCEPT !.pc = "queued"]}
    BY DEF StartProcess, Crash
  <2>2. w'[p].pc \notin Known /\ w'[p].mid = Empty
    BY <2>1 DEF IdleWorker, Known, Processing
  <2> QED
    BY <2>2, NothingKnown
<1> QED
  BY <1>2, <1>3, <1>4 DEF SInv

(* The user places messages where there was none, and takes others away.   *)
LEMMA UserStays ==
  ASSUME SInv, NEW b \in Boxes, NEW f \in Folders,
         \/ \E l \in Loc : UserMoves(b, l, f)
         \/ \E m \in Msgs : UserReceives(b, f, m)
  PROVE  Stays
<1>1. PICK u \in Uids, m \in Msgs :
        /\ IsNextSourceUid(b, f, u)
        /\ placed' = [placed EXCEPT ![b][<<f, u>>] = m]
        /\ \A c \in Boxes : \A l \in present'[c] :
             l \in present[c] \/ (c = b /\ l = <<f, u>>)
  <2>1. present \in [Boxes -> SUBSET Loc]
    BY DEF SInv, IInv, SourceOK
  <2>2. ASSUME NEW l \in Loc, UserMoves(b, l, f)
        PROVE  \E u \in Uids, m \in Msgs :
                 /\ IsNextSourceUid(b, f, u)
                 /\ placed' = [placed EXCEPT ![b][<<f, u>>] = m]
                 /\ \A c \in Boxes : \A k \in present'[c] :
                      k \in present[c] \/ (c = b /\ k = <<f, u>>)
    <3>1. PICK u \in Uids :
            /\ IsNextSourceUid(b, f, u)
            /\ placed' = [placed EXCEPT ![b][<<f, u>>] = placed[b][l]]
            /\ present' = [present EXCEPT ![b] = (@ \ {l}) \cup {<<f, u>>}]
      BY <2>2 DEF UserMoves
    <3>2. placed[b][l] \in Msgs
      BY <2>2 DEF UserMoves, SInv, IInv, SourceOK, PlacesOK
    <3>3. \A c \in Boxes : \A k \in present'[c] :
            k \in present[c] \/ (c = b /\ k = <<f, u>>)
      BY <2>1, <3>1
    <3> QED
      BY <3>1, <3>2, <3>3
  <2>3. ASSUME NEW m \in Msgs, UserReceives(b, f, m)
        PROVE  \E u \in Uids :
                 /\ IsNextSourceUid(b, f, u)
                 /\ placed' = [placed EXCEPT ![b][<<f, u>>] = m]
                 /\ \A c \in Boxes : \A k \in present'[c] :
                      k \in present[c] \/ (c = b /\ k = <<f, u>>)
    <3>1. PICK u \in Uids :
            /\ IsNextSourceUid(b, f, u)
            /\ placed' = [placed EXCEPT ![b][<<f, u>>] = m]
            /\ present' = [present EXCEPT ![b] = @ \cup {<<f, u>>}]
      BY <2>3 DEF UserReceives
    <3>2. \A c \in Boxes : \A k \in present'[c] :
            k \in present[c] \/ (c = b /\ k = <<f, u>>)
      BY <2>1, <3>1
    <3> QED
      BY <3>1, <3>2
  <2> QED
    BY <2>2, <2>3
<1>2. <<f, u>> \in Loc /\ u \in Nat
  BY MailboxSyncAssumption DEF Loc, Uids
<1>3. placed[b][<<f, u>>] = NoMsg
  BY <1>1, <1>2 DEF IsNextSourceUid
<1>4. \A c \in Boxes, l \in Loc : placed[c][l] # NoMsg => placed'[c][l] = placed[c][l]
  BY <1>1, Placing DEF SInv
<1> QED
  BY <1>1, <1>3, <1>4 DEF Stays

LEMMA UserHonest ==
  ASSUME SInv, IInv', NEW b \in Boxes, NEW f \in Folders,
         \/ \E l \in Loc : UserMoves(b, l, f)
         \/ \E m \in Msgs : UserReceives(b, f, m)
  PROVE  SInv'
<1>1. UNCHANGED <<target, table, w>>
  BY DEF UserMoves, UserReceives, UserStep
<1>2. Stays
  BY UserStays
<1>3. \A p \in Pairs : Grows(p) /\ Unflagged(p)'
  BY <1>1, TargetGrows DEF SInv, target
<1>4. \A p \in Pairs : Honest(p)'
  BY <1>1, <1>2, <1>3, Waiting
<1>5. HonestRows'
  BY <1>1, <1>2, <1>3, RowsStay
<1> QED
  BY <1>3, <1>4, <1>5 DEF SInv

-----------------------------------------------------------------------------
LEMMA InitSInv == Init => SInv
<1> SUFFICES ASSUME Init PROVE SInv
  OBVIOUS
<1>1. \A p \in Pairs : w[p] = IdleWorker /\ copies[p] = {}
  BY DEF Init
<1>2. \A p \in Pairs : Honest(p) /\ Unflagged(p)
  BY <1>1 DEF Honest, Unflagged, IdleWorker, Known, Processing
<1>3. HonestRows
  BY DEF Init, HonestRows
<1> QED
  BY <1>2, <1>3, InitIInv DEF SInv

LEMMA NextSInv ==
  ASSUME Benign, SInv, [Next]_vars
  PROVE  SInv'
<1>1. IInv'
  BY NextIInv DEF SInv
<1>2. CASE UNCHANGED vars
  <2>1. UNCHANGED <<source, target, table, w>>
    BY <1>2 DEF vars
  <2>2. \A p \in Pairs : Grows(p) /\ Unflagged(p)'
    BY <2>1, TargetGrows DEF SInv, target
  <2>3. \A p \in Pairs : Honest(p)'
    BY <2>1, <2>2, Waiting, SourceStays
  <2> QED
    BY <1>1, <2>1, <2>2, <2>3, RowsStay, SourceStays DEF SInv
<1>3. CASE Environment
  BY <1>1, <1>3, ProcessHonest, BreakHonest, UserHonest DEF Environment
<1>4. ASSUME NEW p \in Pairs, WorkerStep(p) PROVE SInv'
  BY <1>1, <1>4, FrameHonest, HeaderHonest, CheckHonest, RecordHonest, RelocationSteps,
     MoveHonest, FetchHonest, AppendHonest DEF WorkerStep
<1> QED
  BY <1>2, <1>3, <1>4 DEF Next

THEOREM MailboxSyncHonest == ASSUME Benign PROVE Spec => []SInv
<1>1. SInv /\ [Next]_vars => SInv'
  BY NextSInv
<1> QED
  BY <1>1, InitSInv, PTL DEF Spec

(* Every row that says "success" has its message on the target, after any  *)
(* failures, moves and restarts.                                           *)
THEOREM MailboxSyncSuccessIsOnTarget ==
  ASSUME Benign PROVE Spec => []SuccessIsOnTarget
<1>1. SInv => SuccessIsOnTarget
  BY DEF SInv, HonestRows, HonestRow, SuccessIsOnTarget
<1> QED
  BY <1>1, MailboxSyncHonest, PTL

(* No message is skipped as a duplicate unless the target has it.          *)
THEOREM MailboxSyncSkipIsJustified ==
  ASSUME Benign, HeadersSafe PROVE Spec => []SkipIsJustified
<1>1. SInv => SkipIsJustified
  BY DEF SInv, Honest, SkipIsJustified, At
<1> QED
  BY <1>1, MailboxSyncHonest, PTL
=============================================================================
