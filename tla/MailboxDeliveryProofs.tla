------------------------ MODULE MailboxDeliveryProofs ------------------------
(***************************************************************************)
(* What the worker of MailboxSync delivers, and how often: it implements   *)
(* Delivery (messages are delivered at least once, acknowledged only when  *)
(* delivered, and neither is taken back); what a clean run has settled     *)
(* stays on the target and is not appended again; duplicates are owed to   *)
(* failures; and a move on the target takes the message's own copy.        *)
(***************************************************************************)
EXTENDS MailboxSyncProofs, FiniteSetTheorems

(* Under move-target the engine is allowed to delete on the target.        *)
(* Without that MoveImpossible takes the row of a message along although   *)
(* its copy stays, and a failure after that overwrites its status.         *)
MayMove == Policy = "move-target" => FALSE \notin AllowTargetDelete

-----------------------------------------------------------------------------
(* The inductive invariant.                                                *)

(* migrated_messages has its UNIQUE key.                                   *)
KeyOK(rows) ==
  /\ IsFiniteSet(rows) /\ rows \subseteq Row
  /\ \A r, s \in rows : r.box = s.box /\ r.loc = s.loc => r = s

(* The message the worker is at does not count as migrated, until its row  *)
(* was relocated to it.                                                    *)
Unacked(p) ==
  w[p].pc \in Processing \ {"moved"} => ~is_uid_migrated(db, SrcOf[p], Here(p))

MovesAllowed == Policy = "move-target" => \A p \in Pairs : w[p].pc # "idle" => allow

RInv == SInv /\ KeyOK(db) /\ (\A p \in Pairs : Unacked(p)) /\ MovesAllowed

-----------------------------------------------------------------------------
(* The statements of the state database, on rows with their key.           *)

LEMMA Replacing ==
  ASSUME NEW rows, KeyOK(rows), NEW old \in rows, NEW new \in Row,
         \A r \in rows \ {old} : r.box # new.box \/ r.loc # new.loc
  PROVE  KeyOK((rows \ {old}) \cup {new})
<1>1. IsFiniteSet((rows \ {old}) \cup {new})
  BY FS_RemoveElement, FS_AddElement DEF KeyOK
<1> QED
  BY <1>1 DEF KeyOK

(* record adds a row, or replaces the one that is there.                   *)
Recorded(rows, new, after) ==
  \/ RowsAt(rows, new.box, new.loc) = {} /\ after = rows \cup {new}
  \/ \E o \in RowsAt(rows, new.box, new.loc), e \in Row :
       /\ after = (rows \ {o}) \cup {e}
       /\ e.box = o.box /\ e.loc = o.loc /\ e.tbox = o.tbox /\ e.status = new.status

LEMMA RecordOne ==
  ASSUME NEW rows, KeyOK(rows), NEW new \in Row
  PROVE  /\ KeyOK(record(rows, new))
         /\ Recorded(rows, new, record(rows, new))
<1> DEFINE old == RowsAt(rows, new.box, new.loc)
<1>1. CASE old = {}
  <2>1. record(rows, new) = rows \cup {new}
    BY <1>1 DEF record
  <2>2. IsFiniteSet(rows \cup {new})
    BY FS_AddElement DEF KeyOK
  <2>3. \A r \in rows : r.box # new.box \/ r.loc # new.loc
    BY <1>1 DEF RowsAt
  <2> QED
    BY <1>1, <2>1, <2>2, <2>3 DEF KeyOK, Recorded
<1>2. CASE old # {}
  <2>1. PICK o : o \in old
    BY <1>2
  <2>2. o \in rows /\ o \in Row /\ o.box = new.box /\ o.loc = new.loc
    BY <2>1 DEF RowsAt, KeyOK
  <2>3. old = {o}
    BY <2>1, <2>2 DEF RowsAt, KeyOK
  <2> DEFINE fp == IF new.fp # Empty THEN new.fp ELSE o.fp
             e == [o EXCEPT !.status = new.status, !.tuid = new.tuid, !.fp = fp]
  <2>4. record(rows, new) = (rows \ {o}) \cup {e}
    BY <2>3 DEF record
  <2>5. new.status \in RowStatus /\ new.tuid \in Nat /\ fp \in Msgs \cup {Empty, BlankFp}
    BY <2>2 DEF Row
  <2> HIDE DEF fp
  <2>6. /\ e \in Row /\ e.box = o.box /\ e.loc = o.loc /\ e.tbox = o.tbox
        /\ e.status = new.status
    BY <2>2, <2>5 DEF Row
  <2> HIDE DEF e
  <2>7. KeyOK((rows \ {o}) \cup {e})
    BY <2>2, <2>6, Replacing DEF KeyOK
  <2> QED
    BY <2>1, <2>4, <2>6, <2>7 DEF Recorded
<1> QED
  BY <1>1, <1>2

(* update_fingerprint_location moves one row, or none.                     *)
LEMMA RelocateOne ==
  ASSUME NEW rows, KeyOK(rows), NEW box, NEW fp, NEW loc \in Loc,
         NEW tfolder \in TFolders \cup {Empty},
         ~RelocationConflicts(rows, box, fp, loc)
  PROVE  LET new == update_fingerprint_location(rows, box, fp, loc, tfolder)
         IN  /\ KeyOK(new)
             /\ \/ new = rows
                \/ \E o \in Relocated(rows, box, fp), e \in Row :
                     /\ new = (rows \ {o}) \cup {e}
                     /\ e.loc = loc /\ e.box = o.box /\ e.tbox = o.tbox
                     /\ e.status = o.status
<1> DEFINE hit == Relocated(rows, box, fp)
           new == update_fingerprint_location(rows, box, fp, loc, tfolder)
<1>1. hit \subseteq rows /\ IsFiniteSet(hit) /\ Cardinality(hit) \in Nat
  <2>1. hit \in SUBSET rows
    BY DEF Relocated
  <2> QED
    BY <2>1, FS_Subset, FS_CardinalityType DEF KeyOK
<1>2. Cardinality(hit) <= 1 /\ (hit # {} => RowsAt(rows, box, loc) \ hit = {})
  BY <1>1 DEF RelocationConflicts
<1>3. CASE hit = {}
  <2>1. new = rows
    BY <1>3 DEF update_fingerprint_location
  <2> QED
    BY <2>1
<1>4. CASE hit # {}
  <2>1. PICK o : hit = {o}
    <3>1. Cardinality(hit) = 1
      BY <1>1, <1>2, <1>4, FS_EmptySet
    <3> QED
      BY <1>1, <3>1, FS_Singleton
  <2>2. o \in rows /\ o \in Row /\ o.box = box
    BY <2>1 DEF Relocated, KeyOK
  <2> DEFINE e == IF tfolder = Empty
                    THEN [o EXCEPT !.loc = loc]
                    ELSE [o EXCEPT !.loc = loc, !.tfolder = tfolder, !.tuid = NoTuid]
  <2>3. new = (rows \ {o}) \cup {e}
    BY <2>1 DEF update_fingerprint_location
  <2>4. e \in Row /\ e.loc = loc /\ e.box = o.box /\ e.tbox = o.tbox /\ e.status = o.status
    <3>1. CASE tfolder = Empty
      <4>1. e = [o EXCEPT !.loc = loc]
        BY <3>1
      <4> HIDE DEF e
      <4> QED
        BY <2>2, <4>1 DEF Row
    <3>2. CASE tfolder \in TFolders /\ tfolder # Empty
      <4>1. e = [o EXCEPT !.loc = loc, !.tfolder = tfolder, !.tuid = NoTuid]
        BY <3>2
      <4> HIDE DEF e
      <4> QED
        BY <2>2, <3>2, <4>1 DEF Row, NoTuid
    <3> QED
      BY <3>1, <3>2
  <2> HIDE DEF e
  <2>5. \A r \in rows \ {o} : r.box # e.box \/ r.loc # e.loc
    BY <1>2, <1>4, <2>1, <2>2, <2>4 DEF RowsAt
  <2>6. KeyOK(new)
    BY <2>2, <2>3, <2>4, <2>5, Replacing
  <2> QED
    BY <2>1, <2>3, <2>4, <2>6
<1> QED
  BY <1>3, <1>4

-----------------------------------------------------------------------------
(* What the abstract specification sees.                                   *)

Delivered == UNION {{<<p, c.msg>> : c \in copies[p]} : p \in Pairs}
Acked == {<<r.tbox, r.box, r.loc>> : r \in {s \in db : s.status = "success"}}

(* What a step may look like from there.                                   *)
PromiseStep == [Promise!Next]_(Promise!vars)

LEMMA Stutters ==
  ASSUME placed' = placed, Delivered' = Delivered, Acked' = Acked
  PROVE  PromiseStep
  BY DEF PromiseStep, Promise!vars, Delivered, Acked

LEMMA Delivers ==
  ASSUME NEW p \in Pairs, NEW m \in Msgs, placed' = placed,
         Delivered' = Delivered \cup {<<p, m>>}, Acked' = Acked
  PROVE  PromiseStep
<1>1. Promise!Deliver(p, m)
  BY DEF Promise!Deliver, Delivered, Acked
<1> QED
  BY <1>1 DEF PromiseStep, Promise!Next

LEMMA Acknowledges ==
  ASSUME NEW p \in Pairs, NEW b \in Boxes, NEW l \in Loc, placed' = placed,
         <<p, placed[b][l]>> \in Delivered, Delivered' = Delivered,
         Acked' = Acked \cup {<<p, b, l>>}
  PROVE  PromiseStep
<1>1. Promise!Acknowledge(p, b, l)
  BY DEF Promise!Acknowledge, Delivered, Acked
<1> QED
  BY <1>1 DEF PromiseStep, Promise!Next

LEMMA Reassigns ==
  ASSUME NEW p \in Pairs, NEW b \in Boxes, NEW l \in Loc, NEW k \in Loc, placed' = placed,
         <<p, b, l>> \in Acked, placed[b][l] = placed[b][k], Delivered' = Delivered,
         Acked' = (Acked \ {<<p, b, l>>}) \cup {<<p, b, k>>}
  PROVE  PromiseStep
<1>1. Promise!Reassign(p, b, l, k)
  BY DEF Promise!Reassign, Delivered, Acked
<1> QED
  BY <1>1 DEF PromiseStep, Promise!Next

LEMMA Receives ==
  ASSUME NEW b \in Boxes, NEW l \in Loc, NEW m \in Msgs, placed[b][l] = NoMsg,
         placed' = [placed EXCEPT ![b][l] = m], Delivered' = Delivered, Acked' = Acked
  PROVE  PromiseStep
<1>1. Promise!Place(b, l, m)
  BY DEF Promise!Place, Delivered, Acked
<1> QED
  BY <1>1 DEF PromiseStep, Promise!Next

(* The target keeps what it has and gets nothing new.                      *)
LEMMA SameDelivered ==
  ASSUME IInv, IInv', \A q \in Pairs : Grows(q) /\ NoNews(q)
  PROVE  Delivered' = Delivered
<1>1. \A p \in Pairs : /\ \A c \in copies[p] : c.msg \in Msgs
                       /\ \A c \in copies'[p] : c.msg \in Msgs
  BY DEF IInv, TargetOK, Copy
<1>2. \A p \in Pairs, m \in Msgs :
        (\E c \in copies'[p] : c.msg = m) <=> (\E c \in copies[p] : c.msg = m)
  BY DEF Grows, NoNews, OnTarget
<1>3. ASSUME NEW x
      PROVE  /\ x \in Delivered <=> \E p \in Pairs : \E c \in copies[p] : x = <<p, c.msg>>
             /\ x \in Delivered' <=> \E p \in Pairs : \E c \in copies'[p] : x = <<p, c.msg>>
  BY DEF Delivered
<1> QED
  BY <1>1, <1>2, <1>3

LEMMA SameCopies ==
  /\ UNCHANGED target => Delivered' = Delivered
  /\ UNCHANGED table => Acked' = Acked
  /\ UNCHANGED source => placed' = placed
  BY DEF Delivered, Acked, source, target, table

(* One more message is delivered.                                          *)
LEMMA Delivering ==
  ASSUME SInv, NEW p \in Pairs, Stored(p)
  PROVE  Delivered' = Delivered \cup {<<p, Message(p)>>}
<1> DEFINE x == [folder |-> TFolder(p), uid |-> uidNext[p][TFolder(p)], msg |-> Message(p),
                 del |-> Message(p) \in DeletedMsgs]
<1>1. copies' = [copies EXCEPT ![p] = copies[p] \cup {x}] /\ copies \in [Pairs -> SUBSET Copy]
  BY DEF Stored, NewCopies, SInv, IInv, TargetOK
<1>2. x.msg = Message(p)
  OBVIOUS
<1> HIDE DEF x
<1>3. ASSUME NEW y
      PROVE  /\ y \in Delivered <=> \E q \in Pairs : \E c \in copies[q] : y = <<q, c.msg>>
             /\ y \in Delivered' <=> \E q \in Pairs : \E c \in copies'[q] : y = <<q, c.msg>>
  BY DEF Delivered
<1>4. \A q \in Pairs : copies'[q] = IF q = p THEN copies[p] \cup {x} ELSE copies[q]
  BY <1>1
<1> QED
  BY <1>2, <1>3, <1>4

(* A row takes the place of another, or of none.                           *)
LEMMA AckedBy ==
  ASSUME NEW x
  PROVE  /\ x \in Acked <=> \E r \in db : r.status = "success" /\ x = <<r.tbox, r.box, r.loc>>
         /\ x \in Acked' <=> \E r \in db' : r.status = "success" /\ x = <<r.tbox, r.box, r.loc>>
  BY DEF Acked

(* record acknowledges the message if the status is "success", and it      *)
(* takes nothing back.                                                     *)
LEMMA WriteSeen ==
  ASSUME RInv, Benign, NEW p \in Pairs, w[p].pc \in Processing,
         NEW status \in RowStatus, NEW tuid \in Nat, Write(p, status, tuid),
         status # "success" => ~is_uid_migrated(db, SrcOf[p], Here(p))
  PROVE  /\ KeyOK(db')
         /\ \A r \in db' : r \in db \/ r.box = SrcOf[p]
         /\ status = "success" => Acked' = Acked \cup {<<p, SrcOf[p], Here(p)>>}
         /\ status # "success" => Acked' = Acked
<1> DEFINE new == [box |-> SrcOf[p], loc |-> Here(p), tbox |-> p,
                   tfolder |-> TFolder(p), tuid |-> tuid,
                   mid |-> w[p].mid, fp |-> w[p].fp,
                   status |-> status, id |-> lastId + 1]
<1>1. lastId \in Nat /\ KeyOK(db)
  BY DEF RInv, SInv, IInv, TableOK
<1>2. new \in Row
  BY <1>1, Whereabouts DEF Row, RInv, SInv
<1>3. new.box = SrcOf[p] /\ new.loc = Here(p) /\ new.tbox = p /\ new.status = status
  OBVIOUS
<1>4. db' = record(db, new)
  BY DEF Write
<1> HIDE DEF new
<1>5. KeyOK(db')
  BY <1>1, <1>2, <1>4, RecordOne
<1>6. CASE RowsAt(db, new.box, new.loc) = {} /\ db' = db \cup {new}
  <2>1. ASSUME NEW x
        PROVE  x \in Acked' <=> x \in Acked \/ (status = "success" /\ x = <<p, SrcOf[p], Here(p)>>)
    BY <1>3, <1>6, AckedBy
  <2> QED
    BY <1>3, <1>5, <1>6, <2>1
<1>7. ASSUME NEW o \in RowsAt(db, new.box, new.loc), NEW e \in Row,
             db' = (db \ {o}) \cup {e},
             e.box = o.box, e.loc = o.loc, e.tbox = o.tbox, e.status = new.status
      PROVE  /\ \A r \in db' : r \in db \/ r.box = SrcOf[p]
             /\ status = "success" => Acked' = Acked \cup {<<p, SrcOf[p], Here(p)>>}
             /\ status # "success" => Acked' = Acked
  <2>1. o \in db /\ o.box = SrcOf[p] /\ o.loc = Here(p)
    BY <1>3 DEF RowsAt
  <2>2. o.tbox = p
    <3>1. o \in Row /\ HonestRow(o)
      BY <1>1, <2>1 DEF KeyOK, RInv, SInv, HonestRows
    <3> QED
      BY <2>1, <3>1 DEF HonestRow, Row, Benign
  <2>3. status # "success" => o.status # "success"
    BY <2>1 DEF is_uid_migrated, RowsAt
  <2>4. ASSUME NEW x
        PROVE  x \in Acked' <=> x \in Acked \/ (status = "success" /\ x = <<p, SrcOf[p], Here(p)>>)
    BY <1>3, <1>7, <2>1, <2>2, <2>3, AckedBy
  <2> QED
    BY <1>7, <2>1, <2>4
<1>8. Recorded(db, new, db')
  BY <1>1, <1>2, <1>4, RecordOne
<1>9. CASE \E o \in RowsAt(db, new.box, new.loc), e \in Row :
             /\ db' = (db \ {o}) \cup {e}
             /\ e.box = o.box /\ e.loc = o.loc /\ e.tbox = o.tbox /\ e.status = new.status
  BY <1>5, <1>7, <1>9
<1> QED
  BY <1>6, <1>8, <1>9 DEF Recorded

(* A relocation takes the acknowledgement to where the message is now.     *)
LEMMA RelocateSeen ==
  ASSUME RInv, Benign, NEW p \in Pairs, w[p].pc \in {"move", "relocate"},
         NEW tfolder \in TFolders \cup {Empty}, NEW next, Relocate(p, tfolder, next)
  PROVE  /\ KeyOK(db')
         /\ \A r \in db' : r \in db \/ r.box = SrcOf[p]
         /\ \/ Acked' = Acked
            \/ \E l \in Loc :
                 /\ <<p, SrcOf[p], l>> \in Acked
                 /\ placed[SrcOf[p]][l] = placed[SrcOf[p]][Here(p)]
                 /\ Acked' = (Acked \ {<<p, SrcOf[p], l>>}) \cup {<<p, SrcOf[p], Here(p)>>}
<1>1. SInv /\ KeyOK(db)
  BY DEF RInv
<1>2. CASE RelocationConflicts(db, SrcOf[p], w[p].fp, Here(p))
  BY <1>1, <1>2 DEF Relocate, Acked
<1>3. CASE ~RelocationConflicts(db, SrcOf[p], w[p].fp, Here(p))
  <2>1. w[p].fp = Message(p) /\ w[p].fp # Empty /\ w[p].fp # BlankFp /\ w[p].pc \in Known
    BY <1>1, MoveFingerprint
  <2>2. Here(p) \in Loc /\ placed[SrcOf[p]][Here(p)] = Message(p) /\ Message(p) # NoMsg
    BY <1>1, <2>1, Whereabouts DEF Message, Known, SInv
  <2>3. db' = update_fingerprint_location(db, SrcOf[p], w[p].fp, Here(p), tfolder)
    BY <1>3 DEF Relocate
  <2>4. /\ KeyOK(db')
        /\ \/ db' = db
           \/ \E o \in Relocated(db, SrcOf[p], w[p].fp), e \in Row :
                /\ db' = (db \ {o}) \cup {e}
                /\ e.loc = Here(p) /\ e.box = o.box /\ e.tbox = o.tbox
                /\ e.status = o.status
    BY <1>1, <1>3, <2>2, <2>3, RelocateOne
  <2>5. CASE db' = db
    BY <2>4, <2>5 DEF Acked
  <2>6. ASSUME NEW o \in Relocated(db, SrcOf[p], w[p].fp), NEW e \in Row,
               db' = (db \ {o}) \cup {e},
               e.loc = Here(p), e.box = o.box, e.tbox = o.tbox, e.status = o.status
        PROVE  /\ \A r \in db' : r \in db \/ r.box = SrcOf[p]
               /\ \E l \in Loc :
                    /\ <<p, SrcOf[p], l>> \in Acked
                    /\ placed[SrcOf[p]][l] = placed[SrcOf[p]][Here(p)]
                    /\ Acked' = (Acked \ {<<p, SrcOf[p], l>>})
                                  \cup {<<p, SrcOf[p], Here(p)>>}
    <3>1. o \in db /\ o \in Row /\ o.box = SrcOf[p] /\ o.fp = Message(p) /\ o.status = "success"
      BY <1>1, <2>1 DEF Relocated, KeyOK
    <3>2. HonestRow(o)
      BY <1>1, <3>1 DEF SInv, HonestRows
    <3>3. o.tbox = p /\ o.loc \in Loc
      BY <3>1, <3>2 DEF HonestRow, Row, Benign
    <3>4. placed[SrcOf[p]][o.loc] = Message(p)
      BY <2>1, <3>1, <3>2 DEF HonestRow
    <3>5. <<p, SrcOf[p], o.loc>> \in Acked
      BY <3>1, <3>3, AckedBy
    <3>6. \A r \in db \ {o} : r.box # SrcOf[p] \/ r.loc # o.loc
      BY <1>1, <3>1 DEF KeyOK
    <3>7. ASSUME NEW x
          PROVE  x \in Acked' <=> \/ x \in Acked /\ x # <<p, SrcOf[p], o.loc>>
                                  \/ x = <<p, SrcOf[p], Here(p)>>
      BY <2>6, <3>1, <3>3, <3>6, AckedBy
    <3>8. Acked' = (Acked \ {<<p, SrcOf[p], o.loc>>}) \cup {<<p, SrcOf[p], Here(p)>>}
      BY <3>7
    <3> QED
      BY <2>2, <2>6, <3>1, <3>3, <3>4, <3>5, <3>8
  <2>7. CASE \E o \in Relocated(db, SrcOf[p], w[p].fp), e \in Row :
               /\ db' = (db \ {o}) \cup {e}
               /\ e.loc = Here(p) /\ e.box = o.box /\ e.tbox = o.tbox
               /\ e.status = o.status
    BY <2>4, <2>6, <2>7
  <2> QED
    BY <2>4, <2>5, <2>7
<1> QED
  BY <1>2, <1>3

-----------------------------------------------------------------------------
(* What a step keeps.                                                      *)

(* A step of one worker, put together from what it does.                   *)
LEMMA OneUnacked ==
  ASSUME RInv, Benign, SInv', NEW p \in Pairs, w[p].pc # "idle", allow' = allow,
         \A q \in Pairs \ {p} : w'[q] = w[q],
         KeyOK(db'), \A r \in db' : r \in db \/ r.box = SrcOf[p], Unacked(p)'
  PROVE  RInv'
<1>1. ASSUME NEW q \in Pairs \ {p} PROVE Unacked(q)'
  <2>1. Here(q)' = Here(q) /\ w'[q] = w[q]
    BY DEF Here
  <2>2. SrcOf[q] # SrcOf[p]
    BY DEF Benign
  <2>3. is_uid_migrated(db', SrcOf[q], Here(q)) => is_uid_migrated(db, SrcOf[q], Here(q))
    BY <2>2 DEF is_uid_migrated, RowsAt
  <2> QED
    BY <2>1, <2>3 DEF RInv, Unacked
<1>2. MovesAllowed'
  BY DEF RInv, MovesAllowed
<1> QED
  BY <1>1, <1>2 DEF RInv

(* It leaves the table alone and stays at its message, or has none.        *)
LEMMA SameLocation ==
  ASSUME RInv, Benign, SInv', NEW p \in Pairs, w[p].pc # "idle", allow' = allow,
         \A q \in Pairs \ {p} : w'[q] = w[q], UNCHANGED table,
         \/ w'[p].pc \notin Processing \ {"moved"}
         \/ /\ w[p].pc \in Processing \ {"moved"}
            /\ w'[p].folder = w[p].folder /\ w'[p].uid = w[p].uid
  PROVE  RInv'
<1>1. KeyOK(db') /\ \A r \in db' : r \in db
  BY DEF RInv, table
<1>2. Unacked(p)'
  BY DEF RInv, Unacked, Here, table
<1> QED
  BY <1>1, <1>2, OneUnacked

LEMMA Allowing ==
  ASSUME NEW p \in Pairs, Fault(p) \/ NoFault
  PROVE  allow' = allow
  BY DEF Fault, NoFault

-----------------------------------------------------------------------------
(* The steps of a worker.                                                  *)

LEMMA FrameRefines ==
  ASSUME RInv, Benign, SInv', NEW p \in Pairs,
         \/ Connect(p) \/ ConnectFails(p) \/ ListFolders(p) \/ FinishRun(p)
         \/ \E f \in Folders : OpenFolder(p, f) \/ SkipFolder(p, f)
         \/ EndFolder(p) \/ StatementRaises(p)
  PROVE  RInv' /\ PromiseStep
<1>1. UNCHANGED <<source, target, table>> /\ w[p].pc # "idle"
  BY DEF Connect, ConnectFails, ListFolders, FinishRun, OpenFolder, SkipFolder,
         EndFolder, StatementRaises, At
<1>2. allow' = allow
  BY Allowing DEF Connect, ConnectFails, ListFolders, FinishRun, OpenFolder, SkipFolder,
                  EndFolder, StatementRaises
<1>3. w'[p].pc \notin Processing /\ \A q \in Pairs \ {p} : w'[q] = w[q]
  BY FrameLocals DEF RInv
<1> QED
  BY <1>1, <1>2, <1>3, SameLocation, SameCopies, Stutters

LEMMA NextUidRefines ==
  ASSUME RInv, Benign, SInv', NEW p \in Pairs, NEW u \in Uids, NextUid(p, u)
  PROVE  RInv' /\ PromiseStep
<1>1. /\ UNCHANGED <<source, target, table>> /\ w[p].pc = "uid" /\ w[p] \in Worker
      /\ allow' = allow
  BY DEF NextUid, At, NoFault, RInv, SInv, IInv, LocalsOK
<1>2. CASE is_uid_migrated(db, SrcOf[p], <<w[p].folder, u>>)
  <2> DEFINE v == [w[p] EXCEPT !.uids = @ \ {u}]
  <2>1. Goto(p, v) /\ v.pc = "uid"
    BY <1>1, <1>2 DEF NextUid, Worker
  <2> HIDE DEF v
  <2>2. w'[p].pc \notin Processing /\ \A q \in Pairs \ {p} : w'[q] = w[q]
    BY <2>1, Going DEF RInv, Processing
  <2> QED
    BY <1>1, <2>2, SameLocation, SameCopies, Stutters
<1>3. CASE ~is_uid_migrated(db, SrcOf[p], <<w[p].folder, u>>)
  <2> DEFINE v == [w[p] EXCEPT !.uids = @ \ {u}, !.pc = "header", !.uid = u]
  <2>1. Goto(p, v) /\ v.folder = w[p].folder /\ v.uid = u
    BY <1>1, <1>3 DEF NextUid, Worker
  <2> HIDE DEF v
  <2>2. w'[p] = v /\ \A q \in Pairs \ {p} : w'[q] = w[q]
    BY <2>1, Going DEF RInv
  <2>3. Unacked(p)'
    BY <1>1, <1>3, <2>1, <2>2 DEF Unacked, Here, table
  <2>4. KeyOK(db') /\ \A r \in db' : r \in db
    BY <1>1 DEF RInv, table
  <2> QED
    BY <1>1, <2>2, <2>3, <2>4, OneUnacked, SameCopies, Stutters
<1> QED
  BY <1>2, <1>3

(* The worker stays at its message.                                        *)
LEMMA StayingLocals ==
  ASSUME SInv, NEW p \in Pairs, w[p] \in Worker, NEW n, NEW tuid, NEW pc, NEW mid, NEW fp,
         \/ Goto(p, [w[p] EXCEPT !.pc = pc])
         \/ Goto(p, [w[p] EXCEPT !.pc = pc, !.mid = mid, !.fp = fp])
         \/ Goto(p, [w[p] EXCEPT !.pc = pc, !.fp = fp])
         \/ Goto(p, [w[p] EXCEPT !.pc = pc, !.tuid = tuid])
         \/ Goto(p, Attempt(p, n))
         \/ Goto(p, [Attempt(p, n) EXCEPT !.tgt = FALSE])
         \/ Goto(p, [w[p] EXCEPT !.src = FALSE])
         \/ Goto(p, [w[p] EXCEPT !.tgt = FALSE])
  PROVE  /\ w'[p].folder = w[p].folder /\ w'[p].uid = w[p].uid
         /\ \A q \in Pairs \ {p} : w'[q] = w[q]
<1> DEFINE Same(v) == v.folder = w[p].folder /\ v.uid = w[p].uid
<1>1. /\ Same([w[p] EXCEPT !.pc = pc])
      /\ Same([w[p] EXCEPT !.pc = pc, !.mid = mid, !.fp = fp])
      /\ Same([w[p] EXCEPT !.pc = pc, !.fp = fp])
      /\ Same([w[p] EXCEPT !.pc = pc, !.tuid = tuid])
  BY DEF Worker
<1>2. /\ Same(Attempt(p, n)) /\ Same([Attempt(p, n) EXCEPT !.tgt = FALSE])
  BY DEF Worker, Attempt
<1>3. /\ Same([w[p] EXCEPT !.src = FALSE]) /\ Same([w[p] EXCEPT !.tgt = FALSE])
  BY DEF Worker
<1> HIDE DEF Same
<1>4. PICK v : Goto(p, v) /\ Same(v)
  BY <1>1, <1>2, <1>3
<1> QED
  BY <1>4, Going DEF Same

LEMMA HeaderRefines ==
  ASSUME RInv, Benign, SInv', NEW p \in Pairs, Header(p) \/ Check(p)
  PROVE  RInv' /\ PromiseStep
<1>1. /\ w[p].pc \in {"header", "check"} /\ w[p] \in Worker
      /\ UNCHANGED <<source, target, table>>
  BY DEF Header, Check, At, RInv, SInv, IInv, LocalsOK
<1>2. allow' = allow
  BY Allowing DEF Header, Check
<1>3. /\ w'[p].folder = w[p].folder /\ w'[p].uid = w[p].uid
      /\ \A q \in Pairs \ {p} : w'[q] = w[q]
  <2>1. SInv
    BY DEF RInv
  <2>2. CASE Header(p)
    BY <1>1, <2>1, <2>2, StayingLocals DEF Header
  <2>3. CASE Check(p)
    BY <1>1, <2>1, <2>3, StayingLocals DEF Check
  <2> QED
    BY <2>2, <2>3
<1> QED
  BY <1>1, <1>2, <1>3, SameLocation, SameCopies, Stutters DEF Processing

LEMMA RecordRefines ==
  ASSUME RInv, Benign, SInv', NEW p \in Pairs,
         RecordSkipped(p) \/ RecordMoved(p) \/ RecordSuccess(p) \/ RecordFailed(p)
  PROVE  RInv' /\ PromiseStep
<1>1. /\ w[p].pc \in Processing /\ w[p] \in Worker /\ UNCHANGED <<source, target>>
      /\ w[p].tuid \in Nat /\ NoTuid \in Nat /\ allow' = allow /\ SInv
  BY DEF RecordSkipped, RecordMoved, RecordSuccess, RecordFailed, At, Processing, Worker,
         NoFault, RInv, SInv, IInv, LocalsOK, NoTuid
<1>2. /\ w'[p].pc \notin Processing /\ \A q \in Pairs \ {p} : w'[q] = w[q]
  <2>1. PICK v : Goto(p, v) /\ v.pc = "uid"
    <3>1. NextMessage(p).pc = "uid" /\ [NextMessage(p) EXCEPT !.failed = TRUE].pc = "uid"
      BY <1>1 DEF NextMessage, Worker
    <3> QED
      BY <3>1 DEF RecordSkipped, RecordMoved, RecordSuccess, RecordFailed
  <2> QED
    BY <1>1, <2>1, Going DEF Processing
<1>3. Unacked(p)'
  BY <1>2 DEF Unacked
<1>4. placed' = placed /\ Delivered' = Delivered
  BY <1>1, SameCopies
<1>5. CASE RecordSkipped(p) \/ RecordFailed(p)
  <2>1. PICK status \in RowStatus : Write(p, status, NoTuid) /\ status # "success"
    BY <1>5 DEF RecordSkipped, RecordFailed, RowStatus
  <2>2. ~is_uid_migrated(db, SrcOf[p], Here(p))
    BY <1>5 DEF RecordSkipped, RecordFailed, At, RInv, Unacked, Processing
  <2>3. KeyOK(db') /\ (\A r \in db' : r \in db \/ r.box = SrcOf[p]) /\ Acked' = Acked
    BY <1>1, <2>1, <2>2, WriteSeen
  <2> QED
    BY <1>1, <1>2, <1>3, <1>4, <2>3, OneUnacked, Stutters DEF Processing
<1>6. CASE RecordMoved(p) \/ RecordSuccess(p)
  <2>1. PICK tuid \in Nat : Write(p, "success", tuid)
    BY <1>1, <1>6 DEF RecordMoved, RecordSuccess
  <2>2. /\ KeyOK(db') /\ (\A r \in db' : r \in db \/ r.box = SrcOf[p])
        /\ Acked' = Acked \cup {<<p, SrcOf[p], Here(p)>>}
    BY <1>1, <2>1, WriteSeen DEF RowStatus
  <2>3. OnTarget(p, Message(p))
    BY <1>6 DEF RecordMoved, RecordSuccess, At, RInv, SInv, Honest
  <2>4. <<p, placed[SrcOf[p]][Here(p)]>> \in Delivered
    BY <2>3 DEF OnTarget, Delivered, Message
  <2>5. SrcOf[p] \in Boxes /\ Here(p) \in Loc
    BY <1>1, Whereabouts DEF SInv
  <2>6. PromiseStep
    BY <1>4, <2>2, <2>4, <2>5, Acknowledges
  <2> QED
    BY <1>1, <1>2, <1>3, <2>2, <2>6, OneUnacked DEF Processing
<1> QED
  BY <1>5, <1>6

LEMMA RelocationRefines ==
  ASSUME RInv, Benign, MayMove, SInv', NEW p \in Pairs,
         MoveInPlace(p) \/ MoveImpossible(p) \/ RelocateRow(p)
  PROVE  RInv' /\ PromiseStep
<1>1. /\ w[p].pc \in {"move", "relocate"} /\ w[p] \in Worker /\ UNCHANGED <<source, target>>
      /\ allow' = allow /\ SInv /\ Policy = "move-target"
  BY DEF MoveInPlace, MoveImpossible, RelocateRow, At, NoFault, RInv, SInv, IInv, LocalsOK,
         Honest
<1>2. SrcOf[p] \in Boxes /\ Here(p) \in Loc /\ TFolder(p) \in TFolders
  BY <1>1, Whereabouts DEF SInv, Processing
<1>3. placed' = placed /\ Delivered' = Delivered
  BY <1>1, SameCopies
<1>4. CASE MoveInPlace(p) \/ RelocateRow(p)
  <2> DEFINE next == [w[p] EXCEPT !.pc = "moved"]
  <2>1. PICK tfolder \in TFolders \cup {Empty} : Relocate(p, tfolder, next)
    BY <1>2, <1>4 DEF MoveInPlace, RelocateRow
  <2>2. PICK v : Goto(p, v) /\ v.pc \in {"moved", "idle"}
    BY <1>1, <2>1 DEF Relocate, WorkerFails, IdleWorker, Worker
  <2>3. w'[p].pc \in {"moved", "idle"} /\ \A q \in Pairs \ {p} : w'[q] = w[q]
    BY <1>1, <2>2, Going
  <2> HIDE DEF next
  <2>4. /\ KeyOK(db')
        /\ \A r \in db' : r \in db \/ r.box = SrcOf[p]
        /\ \/ Acked' = Acked
           \/ \E l \in Loc :
                /\ <<p, SrcOf[p], l>> \in Acked
                /\ placed[SrcOf[p]][l] = placed[SrcOf[p]][Here(p)]
                /\ Acked' = (Acked \ {<<p, SrcOf[p], l>>}) \cup {<<p, SrcOf[p], Here(p)>>}
    BY <1>1, <2>1, RelocateSeen
  <2>5. RInv'
    <3>1. Unacked(p)'
      BY <2>3 DEF Unacked, Processing
    <3> QED
      BY <1>1, <2>3, <2>4, <3>1, OneUnacked
  <2>6. PromiseStep
    BY <1>2, <1>3, <2>4, Stutters, Reassigns
  <2> QED
    BY <2>5, <2>6
<1>5. CASE MoveImpossible(p)
  <2>1. allow
    BY <1>1 DEF RInv, MovesAllowed
  <2>2. Goto(p, Attempt(p, 1)) /\ UNCHANGED table /\ w[p].pc = "move"
    BY <1>5, <2>1 DEF MoveImpossible, At
  <2>3. /\ w'[p].folder = w[p].folder /\ w'[p].uid = w[p].uid
        /\ \A q \in Pairs \ {p} : w'[q] = w[q]
    BY <1>1, <2>2, StayingLocals
  <2> QED
    BY <1>1, <1>3, <2>2, <2>3, SameLocation, SameCopies, Stutters DEF Processing
<1> QED
  BY <1>4, <1>5

LEMMA MoveRefines ==
  ASSUME RInv, Benign, SInv', NEW p \in Pairs,
         MoveDone(p) \/ MoveRefused(p) \/ MoveHalfDone(p) \/ MoveUnconfirmed(p)
  PROVE  RInv' /\ PromiseStep
<1>1. /\ w[p].pc = "move" /\ w[p].pc \in Processing /\ w[p] \in Worker
      /\ UNCHANGED <<source, table>> /\ SInv /\ Policy = "move-target"
  BY DEF MoveDone, MoveRefused, MoveHalfDone, MoveUnconfirmed, Moving, At, Processing,
         RInv, SInv, IInv, LocalsOK, Honest
<1>2. allow' = allow
  BY Allowing DEF MoveDone, MoveRefused, MoveHalfDone, MoveUnconfirmed
<1>3. /\ w'[p].folder = w[p].folder /\ w'[p].uid = w[p].uid
      /\ \A q \in Pairs \ {p} : w'[q] = w[q]
  BY <1>1, StayingLocals DEF MoveDone, MoveRefused, MoveHalfDone, MoveUnconfirmed
<1>4. \A q \in Pairs : Grows(q) /\ NoNews(q)
  BY <1>1, MoveCopies
<1>5. Delivered' = Delivered /\ placed' = placed /\ Acked' = Acked
  BY <1>1, <1>4, SameDelivered, SameCopies DEF SInv
<1> QED
  BY <1>1, <1>2, <1>3, <1>5, SameLocation, Stutters

LEMMA CopyRefines ==
  ASSUME RInv, Benign, SInv', NEW p \in Pairs,
         \/ Fetch(p) \/ AppendFails(p) \/ RecordRaises(p)
         \/ AppendMessage(p) \/ AppendUnconfirmed(p)
  PROVE  RInv' /\ PromiseStep
<1>1. /\ w[p].pc \in {"fetch", "append", "record"} /\ w[p].pc \in Processing \ {"moved"}
      /\ w[p] \in Worker /\ UNCHANGED <<source, table>> /\ SInv
  BY DEF Fetch, AppendFails, RecordRaises, AppendMessage, AppendUnconfirmed, At, Processing,
         RInv, SInv, IInv, LocalsOK
<1>2. allow' = allow
  BY Allowing DEF Fetch, AppendFails, RecordRaises, AppendMessage, AppendUnconfirmed
<1>3. /\ w'[p].folder = w[p].folder /\ w'[p].uid = w[p].uid
      /\ \A q \in Pairs \ {p} : w'[q] = w[q]
  BY <1>1, StayingLocals DEF Fetch, AppendFails, RecordRaises, AppendMessage,
                             AppendUnconfirmed
<1>4. RInv'
  BY <1>1, <1>2, <1>3, SameLocation
<1>5. placed' = placed /\ Acked' = Acked
  BY <1>1, SameCopies
<1>6. CASE Fetch(p) \/ AppendFails(p) \/ RecordRaises(p)
  <2>1. UNCHANGED target
    BY <1>6 DEF Fetch, AppendFails, RecordRaises
  <2> QED
    BY <1>4, <1>5, <2>1, SameCopies, Stutters
<1>7. CASE AppendMessage(p) \/ AppendUnconfirmed(p)
  <2>1. Delivered' = Delivered \cup {<<p, Message(p)>>}
    BY <1>1, <1>7, Delivering DEF AppendMessage, AppendUnconfirmed
  <2>2. Message(p) \in Msgs
    BY <1>1, Whereabouts DEF SInv
  <2> QED
    BY <1>4, <1>5, <2>1, <2>2, Delivers
<1> QED
  BY <1>6, <1>7

-----------------------------------------------------------------------------
(* The steps of the environment.                                           *)

LEMMA BreakRefines ==
  ASSUME RInv, Benign, SInv', NEW p \in Pairs, Break(p)
  PROVE  RInv' /\ PromiseStep
<1>1. /\ w[p].pc # "idle" /\ w[p] \in Worker /\ UNCHANGED <<source, target, table>> /\ SInv
      /\ allow' = allow
  BY Allowing DEF Break, Active, RInv, SInv, IInv, LocalsOK
<1>2. PICK v : Goto(p, v) /\ v.folder = w[p].folder /\ v.uid = w[p].uid /\ v.pc = w[p].pc
  <2>1. LET v == [w[p] EXCEPT !.src = FALSE]
        IN  v.folder = w[p].folder /\ v.uid = w[p].uid /\ v.pc = w[p].pc
    BY <1>1 DEF Worker
  <2>2. LET v == [w[p] EXCEPT !.tgt = FALSE]
        IN  v.folder = w[p].folder /\ v.uid = w[p].uid /\ v.pc = w[p].pc
    BY <1>1 DEF Worker
  <2> QED
    BY <2>1, <2>2 DEF Break
<1>3. /\ w'[p].folder = w[p].folder /\ w'[p].uid = w[p].uid /\ w'[p].pc = w[p].pc
      /\ \A q \in Pairs \ {p} : w'[q] = w[q]
  BY <1>1, <1>2, Going
<1> QED
  BY <1>1, <1>3, SameLocation, SameCopies, Stutters

LEMMA ProcessRefines ==
  ASSUME RInv, MayMove, SInv', StartProcess \/ Crash
  PROVE  RInv' /\ PromiseStep
<1>1. UNCHANGED <<source, target, table>>
  BY DEF StartProcess, Crash
<1>2. \A p \in Pairs : w'[p] \in {IdleWorker, [IdleWorker EXCEPT !.pc = "queued"]}
  BY DEF StartProcess, Crash
<1>3. \A p \in Pairs : w'[p].pc \in {"idle", "queued"}
  BY <1>2 DEF IdleWorker
<1>4. \A p \in Pairs : Unacked(p)'
  BY <1>3 DEF Unacked, Processing
<1>5. MovesAllowed'
  <2>1. CASE StartProcess
    <3>1. Policy = "move-target" => allow'
      BY <2>1, MailboxSyncAssumption DEF StartProcess, MayMove
    <3> QED
      BY <3>1 DEF MovesAllowed
  <2>2. CASE Crash
    <3>1. \A p \in Pairs : w'[p].pc = "idle"
      BY <2>2 DEF Crash, IdleWorker
    <3> QED
      BY <3>1 DEF MovesAllowed
  <2> QED
    BY <2>1, <2>2
<1>6. KeyOK(db')
  BY <1>1 DEF RInv, table
<1> QED
  BY <1>1, <1>4, <1>5, <1>6, SameCopies, Stutters DEF RInv

LEMMA UserRefines ==
  ASSUME RInv, SInv', NEW b \in Boxes, NEW f \in Folders,
         \/ \E l \in Loc : UserMoves(b, l, f)
         \/ \E m \in Msgs : UserReceives(b, f, m)
  PROVE  RInv' /\ PromiseStep
<1>1. UNCHANGED <<target, table, w, allow>>
  BY DEF UserMoves, UserReceives, UserStep
<1>2. PICK u \in Uids, m \in Msgs :
        IsNextSourceUid(b, f, u) /\ placed' = [placed EXCEPT ![b][<<f, u>>] = m]
  <2>1. \A l \in Loc : UserMoves(b, l, f) => placed[b][l] \in Msgs
    BY DEF UserMoves, RInv, SInv, IInv, SourceOK, PlacesOK
  <2> QED
    BY <2>1 DEF UserMoves, UserReceives
<1>3. <<f, u>> \in Loc /\ placed[b][<<f, u>>] = NoMsg
  <2>1. <<f, u>> \in Loc /\ u \in Nat
    BY MailboxSyncAssumption DEF Loc, Uids
  <2> QED
    BY <1>2, <2>1 DEF IsNextSourceUid
<1>4. Delivered' = Delivered /\ Acked' = Acked
  BY <1>1, SameCopies
<1>5. PromiseStep
  BY <1>2, <1>3, <1>4, Receives
<1>6. RInv'
  <2>1. \A p \in Pairs : Unacked(p)'
    BY <1>1 DEF RInv, Unacked, Here, table
  <2> QED
    BY <1>1, <2>1 DEF RInv, MovesAllowed, table
<1> QED
  BY <1>5, <1>6

-----------------------------------------------------------------------------
LEMMA InitRInv ==
  ASSUME Init
  PROVE  RInv /\ Promise!Init
<1>1. SInv /\ SourceOK
  BY InitSInv DEF SInv, IInv
<1>2. KeyOK(db)
  BY FS_EmptySet DEF Init, KeyOK
<1>3. (\A p \in Pairs : Unacked(p)) /\ MovesAllowed
  BY DEF Init, Unacked, MovesAllowed, IdleWorker, Processing
<1>4. Promise!Init
  <2>1. Delivered = {} /\ Acked = {}
    BY DEF Init, Delivered, Acked
  <2> QED
    BY <1>1, <2>1 DEF Promise!Init, Delivered, Acked, SourceOK
<1> QED
  BY <1>1, <1>2, <1>3, <1>4 DEF RInv

LEMMA NextRInv ==
  ASSUME Benign, MayMove, RInv, [Next]_vars
  PROVE  RInv' /\ PromiseStep
<1>1. SInv'
  BY NextSInv DEF RInv
<1>2. CASE UNCHANGED vars
  <2>1. UNCHANGED <<source, target, table, w, allow>>
    BY <1>2 DEF vars
  <2>2. RInv'
    BY <1>1, <2>1 DEF RInv, Unacked, Here, MovesAllowed, table
  <2> QED
    BY <2>1, <2>2, SameCopies, Stutters
<1>3. CASE Environment
  BY <1>1, <1>3, ProcessRefines, BreakRefines, UserRefines DEF Environment
<1>4. ASSUME NEW p \in Pairs, WorkerStep(p) PROVE RInv' /\ PromiseStep
  BY <1>1, <1>4, FrameRefines, NextUidRefines, HeaderRefines, RecordRefines,
     RelocationRefines, MoveRefines, CopyRefines DEF WorkerStep
<1> QED
  BY <1>2, <1>3, <1>4 DEF Next

(* The engine implements the promise: at least once, never retracted.      *)
THEOREM MailboxSyncAtLeastOnce ==
  ASSUME Benign, MayMove PROVE Spec => AtLeastOnce
<1>1. Init => RInv /\ Promise!Init
  BY InitRInv
<1>2. RInv /\ [Next]_vars => RInv' /\ [Promise!Next]_(Promise!vars)
  BY NextRInv DEF PromiseStep
<1> QED
  BY <1>1, <1>2, PTL DEF Spec, AtLeastOnce, Promise!Spec

-----------------------------------------------------------------------------
(* What every step keeps.                                                  *)

LEMMA NextStays ==
  ASSUME SInv, [Next]_vars
  PROVE  Stays
<1>1. CASE UNCHANGED vars
  BY <1>1, SourceStays DEF vars
<1>2. CASE Environment
  BY <1>2, SourceStays, UserStays DEF Environment, StartProcess, Crash, Break
<1>3. ASSUME NEW p \in Pairs, WorkerStep(p) PROVE UNCHANGED source
  BY <1>3 DEF WorkerStep, Connect, ConnectFails, ListFolders, FinishRun, OpenFolder,
     SkipFolder, EndFolder, NextUid, Header, Check, RecordSkipped, MoveInPlace,
     MoveImpossible, Moving, MoveDone, MoveRefused, MoveHalfDone, MoveUnconfirmed,
     RelocateRow, RecordMoved, Fetch, AppendMessage, AppendFails, AppendUnconfirmed,
     RecordSuccess, RecordRaises, RecordFailed, StatementRaises
<1> QED
  BY <1>1, <1>2, <1>3, SourceStays DEF Next

LEMMA NextGrows ==
  ASSUME SInv, Benign, [Next]_vars
  PROVE  \A p \in Pairs : Grows(p)
<1>1. CASE UNCHANGED vars
  BY <1>1, TargetGrows DEF vars, target
<1>2. CASE Environment
  BY <1>2, TargetGrows DEF Environment, StartProcess, Crash, Break, UserMoves, UserReceives,
                           UserStep, target
<1>3. ASSUME NEW p \in Pairs, WorkerStep(p) PROVE \A q \in Pairs : Grows(q)
  <2>1. CASE MoveDone(p) \/ MoveRefused(p) \/ MoveHalfDone(p) \/ MoveUnconfirmed(p)
    <3>1. Policy = "move-target" /\ w[p].pc \in Processing
      BY <2>1 DEF MoveDone, MoveRefused, MoveHalfDone, MoveUnconfirmed, Moving, At, SInv,
                  Honest, Processing
    <3> QED
      BY <2>1, <3>1, MoveCopies
  <2>2. CASE AppendMessage(p) \/ AppendUnconfirmed(p)
    BY <2>2, StoredGrows DEF AppendMessage, AppendUnconfirmed, At, Processing
  <2>3. CASE ~(MoveDone(p) \/ MoveRefused(p) \/ MoveHalfDone(p) \/ MoveUnconfirmed(p)
               \/ AppendMessage(p) \/ AppendUnconfirmed(p))
    <3>1. UNCHANGED target
      BY <1>3, <2>3 DEF WorkerStep, Connect, ConnectFails, ListFolders, FinishRun, OpenFolder,
         SkipFolder, EndFolder, NextUid, Header, Check, RecordSkipped, MoveInPlace,
         MoveImpossible, RelocateRow, RecordMoved, Fetch, AppendFails,
         RecordSuccess, RecordRaises, RecordFailed, StatementRaises
    <3> QED
      BY <3>1, TargetGrows DEF target
  <2> QED
    BY <2>1, <2>2, <2>3
<1> QED
  BY <1>1, <1>2, <1>3 DEF Next

(* Without moves on the target only the three records write to the table.  *)
LEMMA NextWrites ==
  ASSUME SInv, [Next]_vars, Policy # "move-target"
  PROVE  \/ UNCHANGED table
         \/ \E p \in Pairs : /\ RecordSkipped(p) \/ RecordSuccess(p) \/ RecordFailed(p)
                             /\ w[p].pc \in Processing \ {"moved"}
<1>1. CASE UNCHANGED vars
  BY <1>1 DEF vars
<1>2. CASE Environment
  BY <1>2 DEF Environment, StartProcess, Crash, Break, UserMoves, UserReceives, UserStep
<1>3. ASSUME NEW p \in Pairs, WorkerStep(p),
             ~(RecordSkipped(p) \/ RecordSuccess(p) \/ RecordFailed(p))
      PROVE  UNCHANGED table
  <2>1. w[p].pc \notin {"move", "relocate", "moved"}
    BY DEF SInv, Honest
  <2> QED
    BY <1>3, <2>1 DEF WorkerStep, Connect, ConnectFails, ListFolders, FinishRun, OpenFolder,
       SkipFolder, EndFolder, NextUid, Header, Check, MoveInPlace, At,
       MoveImpossible, RelocateRow, RecordMoved, Fetch, AppendFails, AppendMessage,
       AppendUnconfirmed, Moving, MoveDone, MoveRefused, MoveHalfDone, MoveUnconfirmed,
       RecordRaises, StatementRaises
<1>4. \A p \in Pairs : RecordSkipped(p) \/ RecordSuccess(p) \/ RecordFailed(p)
        => w[p].pc \in Processing \ {"moved"}
  BY DEF RecordSkipped, RecordSuccess, RecordFailed, At, Processing
<1> QED
  BY <1>1, <1>2, <1>3, <1>4 DEF Next

(* A row that says "success" is never written again.                       *)
LEMMA SuccessStays ==
  ASSUME RInv, [Next]_vars, Policy # "move-target"
  PROVE  \A r \in db : r.status = "success" => r \in db'
<1>1. ASSUME NEW p \in Pairs, w[p].pc \in Processing \ {"moved"},
             NEW status, NEW tuid, Write(p, status, tuid),
             NEW r \in db, r.status = "success"
      PROVE  r \in db'
  <2>1. r \notin RowsAt(db, SrcOf[p], Here(p))
    BY <1>1 DEF RInv, Unacked, is_uid_migrated
  <2> QED
    BY <1>1, <2>1 DEF Write, record
<1>2. CASE UNCHANGED table
  BY <1>2 DEF table
<1>3. ASSUME NEW p \in Pairs, RecordSkipped(p) \/ RecordSuccess(p) \/ RecordFailed(p),
             w[p].pc \in Processing \ {"moved"}
      PROVE  \A r \in db : r.status = "success" => r \in db'
  BY <1>1, <1>3 DEF RecordSkipped, RecordSuccess, RecordFailed
<1> QED
  BY <1>2, <1>3, NextWrites DEF RInv

LEMMA Written ==
  ASSUME NEW p \in Pairs, NEW tuid, Write(p, "success", tuid)
  PROVE  is_uid_migrated(db', SrcOf[p], Here(p))
<1> DEFINE new == [box |-> SrcOf[p], loc |-> Here(p), tbox |-> p,
                   tfolder |-> TFolder(p), tuid |-> tuid,
                   mid |-> w[p].mid, fp |-> w[p].fp,
                   status |-> "success", id |-> lastId + 1]
<1>1. db' = record(db, new)
  BY DEF Write
<1>2. new.box = SrcOf[p] /\ new.loc = Here(p) /\ new.status = "success"
  OBVIOUS
<1> HIDE DEF new
<1> DEFINE old == RowsAt(db, new.box, new.loc)
<1>3. CASE old = {}
  BY <1>1, <1>2, <1>3 DEF record, is_uid_migrated, RowsAt
<1>4. ASSUME NEW o \in old PROVE is_uid_migrated(db', SrcOf[p], Here(p))
  <2> DEFINE e == [o EXCEPT !.status = new.status, !.tuid = new.tuid,
                            !.fp = IF new.fp # Empty THEN new.fp ELSE @]
  <2>1. e \in db'
    BY <1>1, <1>4 DEF record
  <2>2. e.box = o.box /\ e.loc = o.loc
    OBVIOUS
  <2>3. e.status = "success"
    BY <1>2
  <2> QED
    BY <1>2, <1>4, <2>1, <2>2, <2>3 DEF is_uid_migrated, RowsAt
<1> QED
  BY <1>3, <1>4

-----------------------------------------------------------------------------
(* Settled messages.                                                       *)

(* The next run will not append the message of l.                          *)
Barred(p, l) ==
  \/ is_uid_migrated(db, SrcOf[p], l)
  \/ /\ Policy = "off"
     /\ is_message_id_migrated(db, SrcOf[p], p, MessageId(placed[SrcOf[p]][l]))
  \/ /\ Policy = "global-dedupe"
     /\ ByFingerprint(db, SrcOf[p], p, placed[SrcOf[p]][l]) # {}

(* The message of l is done with.  Under move-target rows follow their     *)
(* messages and may be lost on the way; its copies may not.                *)
Handled(p, l) ==
  /\ placed[SrcOf[p]][l] # NoMsg
  /\ IF Policy = "move-target" THEN OnTarget(p, placed[SrcOf[p]][l]) ELSE Barred(p, l)

(* While nothing fails, the headers the worker remembers are the message's *)
(* own, if the message is still there.                                     *)
Exact(p) ==
  w[p].pc \in Known /\ clean[p]
    /\ (Here(p) \in present[SrcOf[p]] \/ w[p].pc \in {"append", "record"})
    => w[p].mid = MessageId(Message(p)) /\ w[p].fp = Fingerprint(Message(p))
SteadyHere(p) == steady[p] \subseteq present[SrcOf[p]]
Connected(p) == clean[p] /\ Active(p) => w[p].src /\ w[p].tgt
SkipHandled(p) ==
  w[p].pc = "skip" /\ clean[p] /\ Here(p) \in present[SrcOf[p]] => Handled(p, Here(p))

(* The worker has yet to finish with l.                                    *)
Ahead(p, l) ==
  \/ l[1] \in w[p].folders
  \/ w[p].pc \in Processing \cup {"uid"} /\ l[1] = w[p].folder /\ l[2] \in w[p].uids
  \/ w[p].pc \in Processing /\ l = Here(p)
Covered(p) ==
  clean[p] /\ ~w[p].failed /\ w[p].pc \notin {"idle", "queued", "list"}
    => \A l \in steady[p] : Ahead(p, l) \/ Handled(p, l)
SettledHandled(p) == \A l \in settled[p] : Handled(p, l)

Tidy(p) ==
  /\ Exact(p) /\ SteadyHere(p) /\ Connected(p)
  /\ SkipHandled(p) /\ Covered(p) /\ SettledHandled(p)

(* What is known of rows is needed where rows are what is settled.         *)
TInv ==
  /\ SInv /\ (Policy # "move-target" => RInv)
  /\ \A p \in Pairs : Tidy(p)

LEMMA HandledStays ==
  ASSUME TInv, Benign, [Next]_vars, NEW p \in Pairs, NEW l \in Loc, Handled(p, l)
  PROVE  Handled(p, l)'
<1>1. SInv /\ SrcOf[p] \in Boxes
  BY MailboxSyncAssumption DEF TInv
<1>2. PICK m \in Msgs : m # NoMsg /\ m = placed[SrcOf[p]][l] /\ m = placed'[SrcOf[p]][l]
  <2>1. placed[SrcOf[p]][l] # NoMsg
    BY DEF Handled
  <2>2. placed[SrcOf[p]][l] \in Msgs
    BY <1>1, <2>1 DEF SInv, IInv, SourceOK
  <2> QED
    BY <1>1, <2>1, <2>2, NextStays DEF Stays
<1>3. CASE Policy = "move-target"
  <2>1. OnTarget(p, m)
    BY <1>2, <1>3 DEF Handled
  <2>2. OnTarget(p, m)'
    BY <1>1, <2>1, NextGrows DEF Grows
  <2> QED
    BY <1>2, <1>3, <2>2 DEF Handled, OnTarget
<1>4. CASE Policy # "move-target"
  <2>1. \A r \in db : r.status = "success" => r \in db'
    BY <1>4, SuccessStays DEF TInv
  <2>2. Barred(p, l)
    BY <1>4 DEF Handled
  <2>3. Barred(p, l)'
    BY <1>2, <2>1, <2>2 DEF Barred, is_uid_migrated, is_message_id_migrated, RowsAt,
                            ByFingerprint
  <2> QED
    BY <1>2, <1>4, <2>3 DEF Handled
<1> QED
  BY <1>3, <1>4

(* What counts as migrated is done with.                                   *)
LEMMA MigratedHandled ==
  ASSUME SInv, Benign, NEW p \in Pairs, NEW l \in Loc, is_uid_migrated(db, SrcOf[p], l)
  PROVE  Handled(p, l)
<1>1. PICK r \in db : r.box = SrcOf[p] /\ r.loc = l /\ r.status = "success"
  BY DEF is_uid_migrated, RowsAt
<1>2. HonestRow(r) /\ r.tbox \in Pairs /\ placed[r.box][r.loc] # NoMsg
  BY DEF SInv, HonestRows, IInv, TableOK, RowsOK, Row
<1>3. r.tbox = p
  BY <1>1, <1>2 DEF HonestRow, Benign
<1> QED
  BY <1>1, <1>2, <1>3 DEF HonestRow, Handled, Barred

LEMMA MigratedHandledNext ==
  ASSUME SInv', Benign, NEW p \in Pairs, NEW l \in Loc, is_uid_migrated(db', SrcOf[p], l)
  PROVE  Handled(p, l)'
<1>1. PICK r \in db' : r.box = SrcOf[p] /\ r.loc = l /\ r.status = "success"
  BY DEF is_uid_migrated, RowsAt
<1>2. HonestRow(r)' /\ r.tbox \in Pairs /\ placed'[r.box][r.loc] # NoMsg
  BY DEF SInv, HonestRows, IInv, TableOK, RowsOK, Row
<1>3. r.tbox = p
  BY <1>1, <1>2 DEF HonestRow, Benign
<1> QED
  BY <1>1, <1>2, <1>3 DEF HonestRow, Handled, Barred

(* A worker that waits stays tidy.                                         *)
LEMMA WaitingTidy ==
  ASSUME TInv, Benign, [Next]_vars, NEW p \in Pairs, UNCHANGED source,
         w'[p] = w[p], clean'[p] = clean[p], steady'[p] = steady[p], settled'[p] = settled[p]
  PROVE  Tidy(p)'
<1>1. /\ Here(p)' = Here(p) /\ Message(p)' = Message(p)
      /\ present' = present /\ placed' = placed
  BY DEF Here, Message, source
<1>2. Tidy(p) /\ steady[p] \subseteq Loc /\ settled[p] \subseteq Loc
  BY DEF TInv, SInv, IInv, RestOK
<1>3. \A l \in Loc : Handled(p, l) => Handled(p, l)'
  BY HandledStays
<1>4. Exact(p)' /\ SteadyHere(p)' /\ Connected(p)'
  BY <1>1, <1>2 DEF Tidy, Exact, SteadyHere, Connected, Active
<1>5. SkipHandled(p)'
  <2>1. w[p].pc = "skip" => Here(p) \in Loc
    BY Whereabouts DEF Processing, TInv, SInv
  <2> QED
    BY <1>1, <1>2, <1>3, <2>1 DEF Tidy, SkipHandled
<1>6. \A l : Ahead(p, l)' <=> Ahead(p, l)
  BY <1>1 DEF Ahead
<1>7. Covered(p)' /\ SettledHandled(p)'
  BY <1>2, <1>3, <1>6 DEF Tidy, Covered, SettledHandled
<1> QED
  BY <1>4, <1>5, <1>7 DEF Tidy

(* A step of one worker, put together from what it does while nothing      *)
(* fails.                                                                  *)
LEMMA OneTidy ==
  ASSUME TInv, Benign, [Next]_vars, SInv', Policy # "move-target" => RInv',
         NEW p \in Pairs, UNCHANGED source,
         \A q \in Pairs \ {p} : w'[q] = w[q],
         Fault(p) \/ NoFault,
         clean[p] /\ NoFault => Exact(p)' /\ Connected(p)' /\ SkipHandled(p)' /\ Covered(p)'
  PROVE  TInv'
<1>1. /\ steady' = steady /\ settled' = settled
      /\ \A q \in Pairs \ {p} : clean'[q] = clean[q]
      /\ NoFault \/ ~clean'[p]
  <2>1. clean \in [Pairs -> BOOLEAN]
    BY DEF TInv, SInv, IInv, RestOK
  <2> QED
    BY <2>1 DEF Fault, NoFault, observers
<1>2. \A q \in Pairs \ {p} : Tidy(q)'
  BY <1>1, WaitingTidy
<1>3. Tidy(p) /\ steady[p] \subseteq Loc /\ settled[p] \subseteq Loc
  BY DEF TInv, SInv, IInv, RestOK
<1>4. SteadyHere(p)' /\ SettledHandled(p)'
  BY <1>1, <1>3, HandledStays DEF Tidy, SteadyHere, SettledHandled, source
<1>5. Exact(p)' /\ Connected(p)' /\ SkipHandled(p)' /\ Covered(p)'
  <2>1. CASE clean'[p]
    <3>1. NoFault
      BY <1>1, <2>1
    <3>2. clean[p]
      BY <2>1, <3>1 DEF NoFault, observers
    <3> QED
      BY <3>1, <3>2
  <2>2. CASE ~clean'[p]
    BY <2>2 DEF Exact, Connected, SkipHandled, Covered
  <2> QED
    BY <2>1, <2>2
<1>6. Tidy(p)'
  BY <1>4, <1>5 DEF Tidy
<1> QED
  BY <1>2, <1>6 DEF TInv

(* The worker stays at its message and remembers the same of it.           *)
SameWork(u, v) ==
  /\ v.folder = u.folder /\ v.uid = u.uid /\ v.mid = u.mid /\ v.fp = u.fp
  /\ v.uids = u.uids /\ v.folders = u.folders /\ v.failed = u.failed
  /\ v.src = u.src /\ v.tgt = u.tgt

LEMMA SameWorkLocals ==
  ASSUME NEW p \in Pairs, w[p] \in Worker, NEW n, NEW pc, NEW tuid
  PROVE  /\ LET v == [w[p] EXCEPT !.pc = pc] IN SameWork(w[p], v) /\ v.pc = pc
         /\ LET v == [w[p] EXCEPT !.pc = pc, !.tuid = tuid]
            IN  SameWork(w[p], v) /\ v.pc = pc
         /\ LET v == Attempt(p, n) IN SameWork(w[p], v) /\ v.pc \in {"fetch", "fail"}
  BY DEF SameWork, Worker, Attempt

LEMMA SameAhead ==
  ASSUME NEW p \in Pairs, SameWork(w[p], w'[p]),
         w[p].pc \in Processing, w'[p].pc \in Processing, NEW l, Ahead(p, l)
  PROVE  Ahead(p, l)'
<1>1. Here(p)' = Here(p)
  BY DEF SameWork, Here
<1> QED
  BY <1>1 DEF SameWork, Ahead

LEMMA SameTidy ==
  ASSUME TInv, Benign, [Next]_vars, NEW p \in Pairs, UNCHANGED source, clean[p], NoFault,
         SameWork(w[p], w'[p]), w[p].pc \in Known, w'[p].pc \in Known,
         \/ w'[p].pc \notin {"append", "record"} \/ w[p].pc \in {"append", "record"}
         \/ Here(p) \in present[SrcOf[p]],
         w'[p].pc = "skip" /\ Here(p) \in present[SrcOf[p]] => Handled(p, Here(p))
  PROVE  Exact(p)' /\ Connected(p)' /\ SkipHandled(p)' /\ Covered(p)'
<1>1. /\ Here(p)' = Here(p) /\ Message(p)' = Message(p)
      /\ present' = present /\ placed' = placed /\ clean' = clean /\ steady' = steady
  BY DEF Here, Message, source, SameWork, NoFault, observers
<1>2. Tidy(p) /\ steady[p] \subseteq Loc /\ Here(p) \in Loc
  BY Whereabouts DEF TInv, SInv, IInv, RestOK, Known
<1>3. \A l \in Loc : Handled(p, l) => Handled(p, l)'
  BY HandledStays
<1>4. Exact(p)'
  BY <1>1, <1>2 DEF Tidy, Exact, SameWork
<1>5. Connected(p)'
  BY <1>1, <1>2 DEF Tidy, Connected, SameWork, Active, Known, Processing
<1>6. SkipHandled(p)'
  BY <1>1, <1>2, <1>3 DEF SkipHandled
<1>7. Covered(p)'
  <2>1. w[p].pc \in Processing /\ w'[p].pc \in Processing
    BY DEF Known
  <2>2. \A l \in steady[p] : Ahead(p, l) => Ahead(p, l)'
    BY <2>1, SameAhead
  <2>3. ~w'[p].failed => ~w[p].failed
    BY DEF SameWork
  <2> QED
    BY <1>1, <1>2, <1>3, <2>1, <2>2, <2>3 DEF Tidy, Covered, Processing
<1> QED
  BY <1>4, <1>5, <1>6, <1>7

(* The worker is done with its message, and goes on.                       *)
LEMMA NextTidy ==
  ASSUME TInv, Benign, [Next]_vars, NEW p \in Pairs, UNCHANGED source, clean[p], NoFault,
         w[p].pc \in Known, NEW here \in Loc, here = Here(p),
         \/ Goto(p, NextMessage(p)) /\ (here \in steady[p] => Handled(p, here)')
         \/ Goto(p, [NextMessage(p) EXCEPT !.failed = TRUE])
  PROVE  Exact(p)' /\ Connected(p)' /\ SkipHandled(p)' /\ Covered(p)'
<1>1. /\ present' = present /\ placed' = placed /\ clean' = clean /\ steady' = steady
  BY DEF source, NoFault, observers
<1>2. /\ Tidy(p) /\ steady[p] \subseteq Loc /\ Here(p) \in Loc /\ w[p] \in Worker
      /\ SInv /\ w[p].pc \in Processing
  BY Whereabouts DEF TInv, SInv, IInv, RestOK, Known
<1>3. \A l \in Loc : Handled(p, l) => Handled(p, l)'
  BY HandledStays
<1>4. /\ w'[p].pc = "uid" /\ w'[p].folder = w[p].folder /\ w'[p].uids = w[p].uids
      /\ w'[p].folders = w[p].folders /\ w'[p].src = w[p].src /\ w'[p].tgt = w[p].tgt
      /\ ~w'[p].failed => ~w[p].failed /\ (here \in steady[p] => Handled(p, here)')
  <2> DEFINE Same(v) == /\ v.pc = "uid" /\ v.folder = w[p].folder /\ v.uids = w[p].uids
                        /\ v.folders = w[p].folders /\ v.src = w[p].src /\ v.tgt = w[p].tgt
             next == NextMessage(p)
             failed == [NextMessage(p) EXCEPT !.failed = TRUE]
  <2>1. /\ Same(next) /\ next.failed = w[p].failed
        /\ Same(failed) /\ failed.failed
    BY <1>2 DEF Worker, NextMessage
  <2> HIDE DEF Same, next, failed
  <2>2. \/ Goto(p, next) /\ (here \in steady[p] => Handled(p, here)')
        \/ Goto(p, failed)
    BY DEF next, failed
  <2>3. \/ w'[p] = next /\ (here \in steady[p] => Handled(p, here)')
        \/ w'[p] = failed
    BY <1>2, <2>2, Going
  <2>4. Same(w'[p])
    BY <2>1, <2>3
  <2> QED
    BY <2>1, <2>3, <2>4 DEF Same
<1>5. Exact(p)' /\ SkipHandled(p)'
  BY <1>4 DEF Exact, SkipHandled, Known, Processing
<1>6. Connected(p)'
  BY <1>1, <1>2, <1>4 DEF Tidy, Connected, Active, Known, Processing
<1>7. ASSUME ~w'[p].failed, NEW l \in steady[p] PROVE Ahead(p, l)' \/ Handled(p, l)'
  <2>1. Ahead(p, l) \/ Handled(p, l)
    BY <1>1, <1>2, <1>4, <1>7 DEF Tidy, Covered, Processing
  <2>2. CASE l = here
    BY <1>4, <1>7, <2>2
  <2>3. CASE l # here /\ Ahead(p, l)
    BY <1>2, <1>4, <2>3 DEF Ahead
  <2> QED
    BY <1>2, <1>3, <2>1, <2>2, <2>3
<1>8. Covered(p)'
  BY <1>1, <1>7 DEF Covered
<1> QED
  BY <1>5, <1>6, <1>8

-----------------------------------------------------------------------------
(* The steps of a worker.                                                  *)

(* The worker is between messages, and sees none that it has not got to.   *)
LEMMA BetweenTidy ==
  ASSUME TInv, Benign, [Next]_vars, NEW p \in Pairs, clean[p], NoFault,
         w[p].pc \notin {"idle", "queued", "list"},
         w'[p].pc \in {"folder", "uid", "header"}, w'[p].failed = w[p].failed,
         w'[p].src = w[p].src, w'[p].tgt = w[p].tgt,
         \A l \in Loc : Ahead(p, l) /\ l \in steady[p] => Ahead(p, l)' \/ Handled(p, l)
  PROVE  Exact(p)' /\ Connected(p)' /\ SkipHandled(p)' /\ Covered(p)'
<1>1. clean' = clean /\ steady' = steady
  BY DEF NoFault, observers
<1>2. Tidy(p) /\ steady[p] \subseteq Loc
  BY DEF TInv, SInv, IInv, RestOK
<1>3. \A l \in Loc : Handled(p, l) => Handled(p, l)'
  BY HandledStays
<1>4. Exact(p)' /\ SkipHandled(p)'
  BY DEF Exact, SkipHandled, Known, Processing
<1>5. Connected(p)'
  BY <1>1, <1>2 DEF Tidy, Connected, Active
<1>6. Covered(p)'
  BY <1>1, <1>2, <1>3 DEF Tidy, Covered
<1> QED
  BY <1>4, <1>5, <1>6

LEMMA FrameTidy ==
  ASSUME TInv, Benign, [Next]_vars, NEW p \in Pairs, clean[p], NoFault,
         \/ Connect(p) \/ ListFolders(p)
         \/ \E f \in Folders : OpenFolder(p, f) \/ SkipFolder(p, f)
         \/ EndFolder(p)
  PROVE  Exact(p)' /\ Connected(p)' /\ SkipHandled(p)' /\ Covered(p)'
<1>1. /\ Tidy(p) /\ SInv /\ w[p] \in Worker /\ steady[p] \subseteq Loc
      /\ clean' = clean /\ steady' = steady
  BY DEF TInv, SInv, IInv, RestOK, LocalsOK, NoFault, observers
<1>2. CASE Connect(p)
  <2>1. w'[p].pc = "list" /\ w'[p].src /\ w'[p].tgt
    <3> DEFINE v == [w[p] EXCEPT !.pc = "list", !.src = TRUE, !.tgt = TRUE]
    <3>1. Goto(p, v) /\ v.pc = "list" /\ v.src /\ v.tgt
      BY <1>1, <1>2 DEF Connect, Worker
    <3> HIDE DEF v
    <3> QED
      BY <1>1, <3>1, Going
  <2> QED
    BY <2>1 DEF Exact, Connected, SkipHandled, Covered, Known, Processing
<1>3. CASE ListFolders(p)
  <2>1. w[p].src /\ w[p].tgt /\ w[p].pc = "list"
    BY <1>1, <1>3 DEF Tidy, Connected, Active, ListFolders, At
  <2>2. ~Fault(p)
    <3>1. faults \in Nat
      BY <1>1 DEF SInv, IInv, RestOK
    <3> QED
      BY <3>1 DEF Fault, NoFault, bounds
  <2>3. Goto(p, [w[p] EXCEPT !.pc = "folder", !.folders = Folders])
    BY <1>3, <2>1, <2>2 DEF ListFolders
  <2>4. w'[p].pc = "folder" /\ w'[p].folders = Folders /\ w'[p].src /\ w'[p].tgt
    <3> DEFINE v == [w[p] EXCEPT !.pc = "folder", !.folders = Folders]
    <3>1. Goto(p, v) /\ v.pc = "folder" /\ v.folders = Folders /\ v.src /\ v.tgt
      BY <1>1, <2>1, <2>3 DEF Worker
    <3> HIDE DEF v
    <3> QED
      BY <1>1, <3>1, Going
  <2>5. \A l \in Loc : Ahead(p, l)'
    BY <2>4 DEF Ahead, Loc
  <2> QED
    BY <1>1, <2>4, <2>5 DEF Exact, Connected, SkipHandled, Covered, Known, Processing
<1>4. ASSUME NEW f \in Folders, OpenFolder(p, f)
      PROVE  Exact(p)' /\ Connected(p)' /\ SkipHandled(p)' /\ Covered(p)'
  <2> DEFINE uids == {u \in Uids : <<f, u>> \in present[SrcOf[p]]}
             v == [w[p] EXCEPT !.pc = "uid", !.folder = f, !.folders = @ \ {f},
                               !.uids = uids]
  <2>1. Goto(p, v) /\ w[p].pc = "folder"
    BY <1>4 DEF OpenFolder, At
  <2>2. /\ v.pc = "uid" /\ v.folder = f /\ v.folders = w[p].folders \ {f} /\ v.uids = uids
        /\ v.src = w[p].src /\ v.tgt = w[p].tgt /\ v.failed = w[p].failed
    BY <1>1 DEF Worker
  <2> HIDE DEF v
  <2>3. w'[p] = v
    BY <1>1, <2>1, Going
  <2>4. ASSUME NEW l \in Loc, Ahead(p, l), l \in steady[p] PROVE Ahead(p, l)'
    <3>1. l[1] \in w[p].folders
      BY <2>1, <2>4 DEF Ahead, Processing
    <3>2. l[2] \in Uids /\ l = <<l[1], l[2]>>
      BY DEF Loc
    <3>3. l \in present[SrcOf[p]]
      BY <1>1, <2>4 DEF Tidy, SteadyHere
    <3>4. CASE l[1] = f
      BY <2>2, <2>3, <3>2, <3>3, <3>4 DEF Ahead
    <3>5. CASE l[1] # f
      BY <2>2, <2>3, <3>1, <3>5 DEF Ahead
    <3> QED
      BY <3>4, <3>5
  <2> QED
    BY <2>1, <2>2, <2>3, <2>4, BetweenTidy
<1>5. ASSUME NEW f \in Folders, SkipFolder(p, f) PROVE FALSE
  <2>1. w[p].src /\ w[p].tgt
    BY <1>1, <1>5 DEF Tidy, Connected, Active, SkipFolder, At
  <2>2. faults \in Nat
    BY <1>1 DEF SInv, IInv, RestOK
  <2> QED
    BY <1>5, <2>1, <2>2 DEF SkipFolder, Fault, NoFault, bounds
<1>6. CASE EndFolder(p)
  <2> DEFINE v == [w[p] EXCEPT !.pc = "folder", !.folder = NoFolder]
  <2>1. Goto(p, v) /\ w[p].pc = "uid" /\ w[p].uids = {}
    BY <1>6 DEF EndFolder, At
  <2>2. /\ v.pc = "folder" /\ v.folders = w[p].folders
        /\ v.src = w[p].src /\ v.tgt = w[p].tgt /\ v.failed = w[p].failed
    BY <1>1 DEF Worker
  <2> HIDE DEF v
  <2>3. w'[p] = v
    BY <1>1, <2>1, Going
  <2>4. \A l \in Loc : Ahead(p, l) => Ahead(p, l)'
    BY <2>1, <2>2, <2>3 DEF Ahead, Processing
  <2> QED
    BY <2>1, <2>2, <2>3, <2>4, BetweenTidy
<1> QED
  BY <1>2, <1>3, <1>4, <1>5, <1>6

LEMMA NextUidTidy ==
  ASSUME TInv, Benign, [Next]_vars, NEW p \in Pairs, clean[p], NoFault,
         NEW u \in Uids, NextUid(p, u)
  PROVE  Exact(p)' /\ Connected(p)' /\ SkipHandled(p)' /\ Covered(p)'
<1>1. /\ SInv /\ w[p] \in Worker /\ w[p].pc = "uid"
      /\ w[p].folder \in Folders
  BY DEF TInv, SInv, IInv, LocalsOK, WorkersOK, Good, NextUid, At
<1> DEFINE here == <<w[p].folder, u>>
           skip == [w[p] EXCEPT !.uids = @ \ {u}]
           enter == [w[p] EXCEPT !.uids = @ \ {u}, !.pc = "header", !.uid = u]
           Same(v) == /\ v.folder = w[p].folder /\ v.uids = w[p].uids \ {u}
                      /\ v.folders = w[p].folders /\ v.failed = w[p].failed
                      /\ v.src = w[p].src /\ v.tgt = w[p].tgt
<1>2. /\ Same(skip) /\ skip.pc = "uid"
      /\ Same(enter) /\ enter.pc = "header" /\ enter.uid = u
  BY <1>1 DEF Worker
<1>3. Goto(p, IF is_uid_migrated(db, SrcOf[p], here) THEN skip ELSE enter)
  BY DEF NextUid
<1> HIDE DEF skip, enter
<1>4. w'[p] = IF is_uid_migrated(db, SrcOf[p], here) THEN skip ELSE enter
  BY <1>1, <1>3, Going
<1>5. here \in Loc /\ SrcOf[p] \in Boxes
  BY <1>1, MailboxSyncAssumption DEF Loc
<1>6. ASSUME NEW l \in Loc, Ahead(p, l), l \in steady[p]
      PROVE  Ahead(p, l)' \/ Handled(p, l)
  <2>1. \/ l[1] \in w[p].folders
        \/ l[1] = w[p].folder /\ l[2] \in w[p].uids
    BY <1>1, <1>6 DEF Ahead, Processing
  <2>2. l = <<l[1], l[2]>>
    BY DEF Loc
  <2>3. CASE l = here
    <3>1. CASE is_uid_migrated(db, SrcOf[p], here)
      BY <1>1, <1>5, <2>3, <3>1, MigratedHandled
    <3>2. CASE ~is_uid_migrated(db, SrcOf[p], here)
      <4>1. w'[p] = enter
        BY <1>4, <3>2
      <4>2. Here(p)' = here
        BY <1>2, <4>1 DEF Here
      <4> QED
        BY <1>2, <2>3, <4>1, <4>2 DEF Ahead, Processing
    <3> QED
      BY <3>1, <3>2
  <2>4. CASE l # here
    <3>1. Same(w'[p]) /\ w'[p].pc \in Processing \cup {"uid"}
      BY <1>2, <1>4 DEF Processing
    <3> QED
      BY <2>1, <2>2, <2>4, <3>1 DEF Ahead
  <2> QED
    BY <2>3, <2>4
<1>7. Same(w'[p]) /\ w'[p].pc \in {"uid", "header"}
  BY <1>2, <1>4
<1> HIDE DEF here
<1> QED
  BY <1>1, <1>6, <1>7, BetweenTidy

LEMMA HeaderTidy ==
  ASSUME TInv, Benign, [Next]_vars, NEW p \in Pairs, clean[p], NoFault, Header(p)
  PROVE  Exact(p)' /\ Connected(p)' /\ SkipHandled(p)' /\ Covered(p)'
<1>1. /\ Tidy(p) /\ SInv /\ w[p] \in Worker /\ steady[p] \subseteq Loc
      /\ w[p].pc = "header" /\ w[p].pc \in Processing
      /\ clean' = clean /\ steady' = steady /\ placed' = placed /\ present' = present
  BY DEF TInv, SInv, IInv, RestOK, LocalsOK, NoFault, observers, Header, At, Processing, source
<1> DEFINE Same(v) == /\ v.folder = w[p].folder /\ v.uid = w[p].uid
                      /\ v.uids = w[p].uids /\ v.folders = w[p].folders
                      /\ v.failed = w[p].failed /\ v.src = w[p].src /\ v.tgt = w[p].tgt
                      /\ v.pc = "check"
<1>2. PICK v : /\ Goto(p, v) /\ Same(v)
               /\ \/ v.mid = MessageId(Message(p)) /\ v.fp = Fingerprint(Message(p))
                  \/ ~Readable(p)
  <2> DEFINE read == [w[p] EXCEPT !.pc = "check", !.mid = MessageId(Message(p)),
                                  !.fp = Fingerprint(Message(p))]
             blank == [w[p] EXCEPT !.pc = "check",
                                   !.fp = IF Policy = "off" THEN Empty ELSE BlankFp]
  <2>1. /\ Same(read) /\ read.mid = MessageId(Message(p))
        /\ read.fp = Fingerprint(Message(p))
        /\ Same(blank)
    BY <1>1 DEF Worker
  <2>2. \/ Goto(p, read)
        \/ Goto(p, blank) /\ IF Readable(p) THEN HeadersMayFail /\ Fault(p) ELSE NoFault
    BY DEF Header
  <2>3. ~Fault(p)
    <3>1. faults \in Nat
      BY <1>1 DEF SInv, IInv, RestOK
    <3> QED
      BY <3>1 DEF Fault, NoFault, bounds
  <2> HIDE DEF read, blank
  <2> QED
    BY <2>1, <2>2, <2>3
<1>3. w'[p] = v
  BY <1>1, <1>2, Going
<1>4. Here(p)' = Here(p) /\ Message(p)' = Message(p)
  BY <1>1, <1>2, <1>3 DEF Here, Message
<1>5. w[p].src
  BY <1>1 DEF Tidy, Connected, Active
<1>6. Exact(p)'
  BY <1>1, <1>2, <1>3, <1>4, <1>5 DEF Exact, Readable
<1>7. Connected(p)' /\ SkipHandled(p)'
  BY <1>1, <1>2, <1>3 DEF Tidy, Connected, Active, SkipHandled
<1>8. Covered(p)'
  <2>1. \A l \in steady[p] : Ahead(p, l) => Ahead(p, l)'
    BY <1>1, <1>2, <1>3, <1>4 DEF Ahead, Processing
  <2>2. \A l \in Loc : Handled(p, l) => Handled(p, l)'
    BY HandledStays
  <2> QED
    BY <1>1, <1>2, <1>3, <2>1, <2>2 DEF Tidy, Covered
<1> QED
  BY <1>6, <1>7, <1>8

(* What the look-ups find is done with.                                    *)
LEMMA FoundHandled ==
  ASSUME TInv, Benign, NEW p \in Pairs, clean[p], w[p].pc = "check",
         Here(p) \in present[SrcOf[p]],
         \/ Policy = "off" /\ is_message_id_migrated(db, SrcOf[p], p, w[p].mid)
         \/ Action(p) = "skip"
  PROVE  Handled(p, Here(p))
<1>1. /\ SInv /\ Exact(p) /\ Here(p) \in Loc /\ w[p].pc \in Known
      /\ Message(p) \in Msgs /\ placed[SrcOf[p]][Here(p)] = Message(p) /\ Message(p) # NoMsg
  BY Whereabouts DEF TInv, Tidy, SInv, Message, Known, Processing
<1>2. w[p].mid = MessageId(Message(p)) /\ w[p].fp = Fingerprint(Message(p))
  BY <1>1 DEF Exact
<1>3. CASE Policy = "off" /\ is_message_id_migrated(db, SrcOf[p], p, w[p].mid)
  BY <1>1, <1>2, <1>3 DEF Handled, Barred
<1>4. CASE Action(p) = "skip" /\ Policy # "move-target"
  <2>1. /\ Policy = "global-dedupe" /\ ByFingerprint(db, SrcOf[p], p, w[p].fp) # {}
    <3>1. Policy \notin {"off", "copy-only"} /\ ByFingerprint(db, SrcOf[p], p, w[p].fp) # {}
      BY <1>4 DEF Action
    <3> QED
      BY <1>4, <3>1, MailboxSyncAssumption DEF Policies
  <2> QED
    BY <1>1, <1>2, <2>1 DEF Fingerprint, Handled, Barred
<1>5. CASE Action(p) = "skip" /\ Policy = "move-target"
  <2>1. Existing(p) # {} /\ ~HeadersMayFail
    BY <1>5 DEF Action, Existing, Benign
  <2>2. OnTarget(p, Message(p))
    BY <1>1, <2>1, Related
  <2> QED
    BY <1>1, <1>5, <2>2 DEF Handled
<1> QED
  BY <1>3, <1>4, <1>5

LEMMA CheckTidy ==
  ASSUME TInv, Benign, [Next]_vars, NEW p \in Pairs, clean[p], NoFault, Check(p)
  PROVE  Exact(p)' /\ Connected(p)' /\ SkipHandled(p)' /\ Covered(p)'
<1>1. /\ SInv /\ w[p] \in Worker /\ w[p].pc = "check" /\ UNCHANGED source
  BY DEF TInv, SInv, IInv, LocalsOK, Check, At
<1>2. PICK v : /\ Goto(p, v) /\ SameWork(w[p], v) /\ v.pc \in {"skip", "move", "fetch", "fail"}
               /\ v.pc = "skip" =>
                    \/ Policy = "off" /\ is_message_id_migrated(db, SrcOf[p], p, w[p].mid)
                    \/ Action(p) = "skip"
  <2> DEFINE skip == [w[p] EXCEPT !.pc = "skip"]
             move == [w[p] EXCEPT !.pc = "move"]
             copy == Attempt(p, 1)
  <2>1. /\ SameWork(w[p], skip) /\ skip.pc = "skip"
        /\ SameWork(w[p], move) /\ move.pc = "move"
        /\ SameWork(w[p], copy) /\ copy.pc \in {"fetch", "fail"}
    BY <1>1, SameWorkLocals
  <2>2. Goto(p, IF Policy = "off" /\ is_message_id_migrated(db, SrcOf[p], p, w[p].mid)
                  THEN skip
                  ELSE CASE Action(p) = "skip" -> skip
                         [] Action(p) = "move" -> move
                         [] OTHER -> copy)
    BY DEF Check
  <2> HIDE DEF skip, move, copy
  <2>3. CASE /\ ~(Policy = "off" /\ is_message_id_migrated(db, SrcOf[p], p, w[p].mid))
             /\ Action(p) # "skip"
    <3>1. Goto(p, move) \/ Goto(p, copy)
      BY <2>2, <2>3
    <3> QED
      BY <2>1, <3>1
  <2>4. CASE \/ Policy = "off" /\ is_message_id_migrated(db, SrcOf[p], p, w[p].mid)
             \/ Action(p) = "skip"
    <3>1. Goto(p, skip)
      BY <2>2, <2>4
    <3> QED
      BY <2>1, <2>4, <3>1
  <2> QED
    BY <2>3, <2>4
<1>3. w'[p] = v
  BY <1>1, <1>2, Going
<1> QED
  BY <1>1, <1>2, <1>3, FoundHandled, SameTidy DEF Known, Processing

LEMMA RecordTidy ==
  ASSUME TInv, Benign, [Next]_vars, SInv', NEW p \in Pairs, clean[p], NoFault,
         RecordSkipped(p) \/ RecordMoved(p) \/ RecordSuccess(p) \/ RecordFailed(p)
  PROVE  Exact(p)' /\ Connected(p)' /\ SkipHandled(p)' /\ Covered(p)'
<1>1. /\ SInv /\ Tidy(p) /\ w[p].pc \in Known /\ w[p].pc \in Processing /\ UNCHANGED source
  BY DEF TInv, RecordSkipped, RecordMoved, RecordSuccess, RecordFailed, At, Known, Processing
<1>2. PICK here \in Loc : here = Here(p)
  BY <1>1, Whereabouts DEF SInv
<1>3. CASE RecordFailed(p)
  BY <1>1, <1>2, <1>3, NextTidy DEF RecordFailed
<1>4. CASE RecordSkipped(p)
  <2>1. here \in steady[p] => Handled(p, here)
    BY <1>1, <1>2, <1>4 DEF Tidy, SteadyHere, SkipHandled, RecordSkipped, At
  <2>2. here \in steady[p] => Handled(p, here)'
    BY <2>1, HandledStays
  <2> QED
    BY <1>1, <1>2, <1>4, <2>2, NextTidy DEF RecordSkipped
<1>5. CASE RecordMoved(p) \/ RecordSuccess(p)
  <2>1. PICK tuid : Write(p, "success", tuid)
    BY <1>5 DEF RecordMoved, RecordSuccess
  <2>2. is_uid_migrated(db', SrcOf[p], here)
    BY <1>2, <2>1, Written
  <2>3. Handled(p, here)'
    BY <2>2, MigratedHandledNext
  <2> QED
    BY <1>1, <1>2, <1>5, <2>3, NextTidy DEF RecordMoved, RecordSuccess
<1> QED
  BY <1>3, <1>4, <1>5

LEMMA MoveTidy ==
  ASSUME TInv, Benign, [Next]_vars, NEW p \in Pairs, clean[p], NoFault,
         \/ MoveInPlace(p) \/ MoveImpossible(p) \/ RelocateRow(p)
         \/ MoveDone(p) \/ MoveRefused(p)
  PROVE  Exact(p)' /\ Connected(p)' /\ SkipHandled(p)' /\ Covered(p)'
<1>1. /\ SInv /\ w[p] \in Worker /\ w[p].pc \in {"move", "relocate"} /\ UNCHANGED source
  BY DEF TInv, SInv, IInv, LocalsOK, MoveInPlace, MoveImpossible, RelocateRow, MoveDone,
         MoveRefused, Moving, At
<1>2. \/ Goto(p, IdleWorker)
      \/ Goto(p, [w[p] EXCEPT !.pc = "moved"])
      \/ Goto(p, [w[p] EXCEPT !.pc = "relocate"])
      \/ Goto(p, Attempt(p, 1))
  BY DEF MoveInPlace, MoveImpossible, RelocateRow, Relocate, WorkerFails, MoveDone, MoveRefused
<1>3. CASE Goto(p, IdleWorker)
  <2>1. w'[p].pc = "idle"
    BY <1>1, <1>3, Going DEF IdleWorker
  <2> QED
    BY <2>1 DEF Exact, Connected, SkipHandled, Covered, Active, Known, Processing
<1>4. CASE ~Goto(p, IdleWorker)
  <2>1. PICK v : Goto(p, v) /\ SameWork(w[p], v) /\ v.pc \in {"moved", "relocate", "fetch", "fail"}
    <3> DEFINE moved == [w[p] EXCEPT !.pc = "moved"]
               relocate == [w[p] EXCEPT !.pc = "relocate"]
               copy == Attempt(p, 1)
    <3>1. /\ SameWork(w[p], moved) /\ moved.pc = "moved"
          /\ SameWork(w[p], relocate) /\ relocate.pc = "relocate"
          /\ SameWork(w[p], copy) /\ copy.pc \in {"fetch", "fail"}
      BY <1>1, SameWorkLocals
    <3>2. Goto(p, moved) \/ Goto(p, relocate) \/ Goto(p, copy)
      BY <1>2, <1>4
    <3> HIDE DEF moved, relocate, copy
    <3> QED
      BY <3>1, <3>2
  <2>2. w'[p] = v
    BY <1>1, <2>1, Going
  <2> QED
    BY <1>1, <2>1, <2>2, SameTidy DEF Known, Processing
<1> QED
  BY <1>3, <1>4

LEMMA CopyTidy ==
  ASSUME TInv, Benign, [Next]_vars, NEW p \in Pairs, clean[p], NoFault,
         Fetch(p) \/ AppendMessage(p) \/ AppendFails(p)
  PROVE  Exact(p)' /\ Connected(p)' /\ SkipHandled(p)' /\ Covered(p)'
<1>1. /\ SInv /\ w[p] \in Worker /\ w[p].pc \in {"fetch", "append"} /\ UNCHANGED source
  BY DEF TInv, SInv, IInv, LocalsOK, Fetch, AppendMessage, AppendFails, At
<1>2. PICK v : /\ Goto(p, v) /\ SameWork(w[p], v) /\ v.pc \in {"append", "record", "fetch", "fail"}
               /\ \/ v.pc \notin {"append", "record"} \/ w[p].pc \in {"append", "record"}
                  \/ Here(p) \in present[SrcOf[p]]
  <2> DEFINE append == [w[p] EXCEPT !.pc = "append"]
             tuid == IF AppendUid THEN uidNext[p][TFolder(p)] ELSE NoTuid
             stored == [w[p] EXCEPT !.pc = "record", !.tuid = tuid]
             again == Attempt(p, w[p].attempt + 1)
  <2>1. /\ SameWork(w[p], append) /\ append.pc = "append"
        /\ SameWork(w[p], stored) /\ stored.pc = "record"
        /\ SameWork(w[p], again) /\ again.pc \in {"fetch", "fail"}
    <3> HIDE DEF tuid
    <3>1. SameWork(w[p], append) /\ append.pc = "append"
      BY <1>1, SameWorkLocals
    <3>2. SameWork(w[p], stored) /\ stored.pc = "record"
      BY <1>1 DEF SameWork, Worker
    <3>3. SameWork(w[p], again) /\ again.pc \in {"fetch", "fail"}
      BY <1>1, SameWorkLocals
    <3> QED
      BY <3>1, <3>2, <3>3
  <2>2. \/ Goto(p, append) /\ Readable(p)
        \/ Goto(p, stored) /\ w[p].pc = "append"
        \/ Goto(p, again)
    BY DEF Fetch, AppendMessage, AppendFails, At
  <2> HIDE DEF append, stored, again
  <2> QED
    BY <2>1, <2>2 DEF Readable
<1>3. w'[p] = v
  BY <1>1, <1>2, Going
<1> QED
  BY <1>1, <1>2, <1>3, SameTidy DEF Known, Processing

(* The run ends: what it covered is settled.                               *)
LEMMA FinishTidy ==
  ASSUME TInv, Benign, [Next]_vars, SInv', Policy # "move-target" => RInv',
         NEW p \in Pairs, FinishRun(p)
  PROVE  TInv'
<1>1. /\ UNCHANGED source /\ steady' = steady /\ clean' = clean /\ SInv
      /\ steady[p] \subseteq Loc /\ settled[p] \subseteq Loc /\ settled \in [Pairs -> SUBSET Loc]
      /\ w[p].pc = "folder" /\ w[p].folders = {}
  BY DEF TInv, SInv, IInv, RestOK, FinishRun, At
<1>2. w'[p].pc = "idle" /\ \A q \in Pairs \ {p} : w'[q] = w[q]
  <2>1. Goto(p, IdleWorker)
    BY DEF FinishRun
  <2> QED
    BY <1>1, <2>1, Going DEF IdleWorker
<1>3. \A q \in Pairs \ {p} : settled'[q] = settled[q]
  BY <1>1 DEF FinishRun
<1>4. ASSUME NEW q \in Pairs \ {p} PROVE Tidy(q)'
  BY <1>1, <1>2, <1>3, WaitingTidy
<1>5. ASSUME NEW l \in settled'[p] PROVE Handled(p, l)'
  <2>1. Tidy(p)
    BY DEF TInv
  <2>2. l \in settled[p] \/ (clean[p] /\ ~w[p].failed /\ l \in steady[p])
    BY <1>1 DEF FinishRun
  <2>3. \A k : ~Ahead(p, k)
    BY <1>1 DEF Ahead, Processing
  <2>4. Handled(p, l)
    BY <1>1, <2>1, <2>2, <2>3 DEF Tidy, Covered, SettledHandled
  <2>5. l \in Loc
    BY <1>1, <2>2
  <2> QED
    BY <2>4, <2>5, HandledStays
<1>6. Tidy(p)'
  <2>1. SteadyHere(p)'
    BY <1>1 DEF TInv, Tidy, SteadyHere, source
  <2> QED
    BY <1>2, <1>5, <2>1 DEF Tidy, Exact, Connected, SkipHandled, Covered, SettledHandled,
                            Active, Known, Processing
<1> QED
  BY <1>4, <1>6 DEF TInv

(* Every step of a worker leaves the others where they are.                *)
LEMMA WorkerGoes ==
  ASSUME NEW p \in Pairs, WorkerStep(p)
  PROVE  \E v : Goto(p, v)
BY DEF WorkerStep, Connect, ConnectFails, ListFolders, FinishRun, OpenFolder,
   SkipFolder, EndFolder, NextUid, Header, Check, RecordSkipped, MoveInPlace,
   MoveImpossible, Moving, MoveDone, MoveRefused, MoveHalfDone, MoveUnconfirmed,
   RelocateRow, RecordMoved, Fetch, AppendMessage, AppendFails, AppendUnconfirmed,
   RecordSuccess, RecordRaises, RecordFailed, StatementRaises, WorkerFails, Relocate

LEMMA WorkerFaults ==
  ASSUME NEW p \in Pairs, WorkerStep(p), ~FinishRun(p)
  PROVE  UNCHANGED source /\ (Fault(p) \/ NoFault)
BY DEF WorkerStep, Connect, ConnectFails, ListFolders, OpenFolder,
   SkipFolder, EndFolder, NextUid, Header, Check, RecordSkipped, MoveInPlace,
   MoveImpossible, Moving, MoveDone, MoveRefused, MoveHalfDone, MoveUnconfirmed,
   RelocateRow, RecordMoved, Fetch, AppendMessage, AppendFails, AppendUnconfirmed,
   RecordSuccess, RecordRaises, RecordFailed, StatementRaises

LEMMA WorkerTidy ==
  ASSUME TInv, Benign, [Next]_vars, SInv', Policy # "move-target" => RInv',
         NEW p \in Pairs, WorkerStep(p)
  PROVE  TInv'
<1>1. CASE FinishRun(p)
  BY <1>1, FinishTidy
<1>2. CASE ~FinishRun(p)
  <2>1. UNCHANGED source /\ (Fault(p) \/ NoFault)
    BY <1>2, WorkerFaults
  <2>2. \A q \in Pairs \ {p} : w'[q] = w[q]
    <3>1. SInv
      BY DEF TInv
    <3>2. \E v : Goto(p, v)
      BY WorkerGoes
    <3> QED
      BY <3>1, <3>2, Going
  <2>3. ASSUME clean[p], NoFault
        PROVE  Exact(p)' /\ Connected(p)' /\ SkipHandled(p)' /\ Covered(p)'
    <3>1. ~Fault(p)
      <4>1. faults \in Nat
        BY DEF TInv, SInv, IInv, RestOK
      <4> QED
        BY <2>3, <4>1 DEF Fault, NoFault, bounds
    <3>2. ~(ConnectFails(p) \/ MoveHalfDone(p) \/ MoveUnconfirmed(p) \/ AppendUnconfirmed(p)
            \/ RecordRaises(p) \/ StatementRaises(p))
      BY <3>1 DEF ConnectFails, MoveHalfDone, MoveUnconfirmed, AppendUnconfirmed,
                  RecordRaises, StatementRaises
    <3> QED
      BY <1>2, <2>3, <3>2, FrameTidy, NextUidTidy, HeaderTidy, CheckTidy, RecordTidy, MoveTidy,
         CopyTidy DEF WorkerStep
  <2> QED
    BY <2>1, <2>2, <2>3, OneTidy
<1> QED
  BY <1>1, <1>2

-----------------------------------------------------------------------------
(* The steps of the environment.                                           *)

LEMMA ProcessTidy ==
  ASSUME TInv, Benign, [Next]_vars, SInv', Policy # "move-target" => RInv',
         StartProcess \/ Crash
  PROVE  TInv'
<1>1. UNCHANGED source /\ settled' = settled
  BY DEF StartProcess, Crash
<1>2. ASSUME NEW p \in Pairs PROVE Tidy(p)'
  <2>1. Tidy(p) /\ settled[p] \subseteq Loc
    BY DEF TInv, SInv, IInv, RestOK
  <2>2. w'[p].pc \in {"idle", "queued"}
    <3>1. w'[p] \in {IdleWorker, [IdleWorker EXCEPT !.pc = "queued"]}
      BY DEF StartProcess, Crash
    <3> QED
      BY <3>1 DEF IdleWorker
  <2>3. SteadyHere(p)'
    <3>1. steady'[p] = present[SrcOf[p]] \/ steady' = steady
      BY DEF StartProcess, Crash
    <3> QED
      BY <1>1, <2>1, <3>1 DEF Tidy, SteadyHere, source
  <2>4. SettledHandled(p)'
    BY <1>1, <2>1, HandledStays DEF Tidy, SettledHandled
  <2> QED
    BY <2>2, <2>3, <2>4 DEF Tidy, Exact, Connected, SkipHandled, Covered, Active, Known, Processing
<1> QED
  BY <1>2 DEF TInv

LEMMA BreakTidy ==
  ASSUME TInv, Benign, [Next]_vars, SInv', Policy # "move-target" => RInv',
         NEW p \in Pairs, Break(p)
  PROVE  TInv'
<1>1. Fault(p) /\ UNCHANGED source /\ SInv /\ \E v : Goto(p, v)
  BY DEF Break, TInv
<1>2. ~NoFault
  BY DEF Break, Fault, NoFault, bounds, TInv, SInv, IInv, RestOK
<1>3. \A q \in Pairs \ {p} : w'[q] = w[q]
  BY <1>1, Going
<1> QED
  BY <1>1, <1>2, <1>3, OneTidy

LEMMA UserTidy ==
  ASSUME TInv, Benign, [Next]_vars, SInv', Policy # "move-target" => RInv',
         NEW b \in Boxes, NEW f \in Folders,
         \/ \E l \in Loc : UserMoves(b, l, f)
         \/ \E m \in Msgs : UserReceives(b, f, m)
  PROVE  TInv'
<1>1. UNCHANGED <<w, clean, settled>> /\ SInv
  BY DEF UserMoves, UserReceives, UserStep, TInv
<1>2. Stays
  BY <1>1, UserStays
<1>3. ASSUME NEW p \in Pairs PROVE Tidy(p)'
  <2>1. /\ Tidy(p) /\ settled[p] \subseteq Loc /\ steady[p] \subseteq Loc
        /\ present \in [Boxes -> SUBSET Loc] /\ SrcOf[p] \in Boxes
        /\ steady \in [Pairs -> SUBSET Loc]
    BY MailboxSyncAssumption DEF TInv, SInv, IInv, RestOK, SourceOK
  <2>2. Here(p)' = Here(p)
    BY <1>1 DEF Here
  <2>3. ASSUME w[p].pc \in Processing
        PROVE  /\ Message(p)' = Message(p) /\ Here(p) \in Loc
               /\ Here(p) \in present'[SrcOf[p]] => Here(p) \in present[SrcOf[p]]
    BY <1>1, <1>2, <2>2, <2>3, Whereabouts DEF SInv, Stays, Message
  <2>4. \A l \in Loc : Handled(p, l) => Handled(p, l)'
    BY HandledStays
  <2>5. steady'[p] \subseteq steady[p] /\ steady'[p] \subseteq present'[SrcOf[p]]
    <3>1. steady[p] \subseteq present[SrcOf[p]]
      BY <2>1 DEF Tidy, SteadyHere
    <3>2. ASSUME NEW l \in Loc, UserMoves(b, l, f)
          PROVE  steady'[p] \subseteq steady[p] /\ steady'[p] \subseteq present'[SrcOf[p]]
      BY <2>1, <3>1, <3>2 DEF UserMoves
    <3>3. ASSUME NEW m \in Msgs, UserReceives(b, f, m)
          PROVE  steady'[p] \subseteq steady[p] /\ steady'[p] \subseteq present'[SrcOf[p]]
      BY <2>1, <3>1, <3>3 DEF UserReceives
    <3> QED
      BY <3>2, <3>3
  <2>6. Exact(p)'
    BY <1>1, <2>1, <2>2, <2>3 DEF Tidy, Exact, Known
  <2>7. Connected(p)' /\ SteadyHere(p)'
    BY <1>1, <2>1, <2>5 DEF Tidy, Connected, Active, SteadyHere
  <2>8. SkipHandled(p)'
    BY <1>1, <2>1, <2>2, <2>3, <2>4 DEF Tidy, SkipHandled, Processing
  <2>9. Covered(p)' /\ SettledHandled(p)'
    <3>1. \A l : Ahead(p, l) => Ahead(p, l)'
      BY <1>1, <2>2 DEF Ahead
    <3> QED
      BY <1>1, <2>1, <2>4, <2>5, <3>1 DEF Tidy, Covered, SettledHandled
  <2> QED
    BY <2>6, <2>7, <2>8, <2>9 DEF Tidy
<1> QED
  BY <1>3 DEF TInv

-----------------------------------------------------------------------------
LEMMA InitTInv == Init => TInv
<1> SUFFICES ASSUME Init PROVE TInv
  OBVIOUS
<1>1. RInv /\ SInv
  BY InitRInv DEF RInv
<1>2. \A p \in Pairs : Tidy(p)
  BY DEF Init, Tidy, Exact, SteadyHere, Connected, SkipHandled, Covered, SettledHandled,
         IdleWorker, Active, Known, Processing
<1> QED
  BY <1>1, <1>2 DEF TInv

LEMMA NextTInv ==
  ASSUME Benign, TInv, [Next]_vars
  PROVE  TInv'
<1>1. SInv' /\ (Policy # "move-target" => RInv')
  <2>1. SInv'
    BY NextSInv DEF TInv
  <2>2. Policy # "move-target" => RInv'
    BY NextRInv DEF TInv, MayMove
  <2> QED
    BY <2>1, <2>2
<1>2. CASE UNCHANGED vars
  <2>1. \A p \in Pairs : Tidy(p)'
    BY <1>2, WaitingTidy DEF vars, observers
  <2> QED
    BY <1>1, <2>1 DEF TInv
<1>3. CASE Environment
  BY <1>1, <1>3, ProcessTidy, BreakTidy, UserTidy DEF Environment
<1>4. ASSUME NEW p \in Pairs, WorkerStep(p) PROVE TInv'
  BY <1>1, <1>4, WorkerTidy
<1> QED
  BY <1>2, <1>3, <1>4 DEF Next

THEOREM MailboxSyncSettled == ASSUME Benign PROVE Spec => []TInv
<1>1. TInv /\ [Next]_vars => TInv'
  BY NextTInv
<1> QED
  BY <1>1, InitTInv, PTL DEF Spec

(* What a clean run covered is on the target for good.                     *)
THEOREM MailboxSyncSettledIsOnTarget ==
  ASSUME Benign PROVE Spec => []SettledIsOnTarget
<1>1. ASSUME TInv PROVE SettledIsOnTarget
  <2>1. ASSUME NEW p \in Pairs, NEW l \in settled[p]
        PROVE  OnTarget(p, placed[SrcOf[p]][l])
    <3>1. Handled(p, l) /\ SInv
      BY <1>1 DEF TInv, Tidy, SettledHandled
    <3>2. CASE Policy = "move-target"
      BY <3>1, <3>2 DEF Handled
    <3>3. CASE Policy # "move-target"
      <4>1. placed[SrcOf[p]][l] \in Msgs
        BY <3>1, MailboxSyncAssumption DEF Handled, SInv, IInv, SourceOK, RestOK
      <4>2. PICK r \in db : /\ r.box = SrcOf[p] /\ r.status = "success"
                            /\ \/ r.loc = l
                               \/ r.mid = placed[SrcOf[p]][l]
                               \/ r.fp = placed[SrcOf[p]][l]
        BY <3>1, <3>3, MailboxSyncAssumption
           DEF Handled, Barred, is_uid_migrated, is_message_id_migrated, RowsAt,
               ByFingerprint, MessageId
      <4>3. HonestRow(r) /\ r.tbox \in Pairs
        BY <3>1 DEF SInv, HonestRows, IInv, TableOK, Row
      <4>4. r.tbox = p
        BY <4>2, <4>3 DEF HonestRow, Benign
      <4>5. placed[SrcOf[p]][l] # Empty /\ placed[SrcOf[p]][l] # BlankFp
        BY <4>1, MailboxSyncAssumption
      <4> QED
        BY <4>2, <4>3, <4>4, <4>5 DEF HonestRow
    <3> QED
      BY <3>2, <3>3
  <2> QED
    BY <2>1 DEF SettledIsOnTarget
<1> QED
  BY <1>1, MailboxSyncSettled, PTL

-----------------------------------------------------------------------------
(* What is appended.                                                       *)

Looking == {"fetch", "append", "record", "fail"}

(* A message on its way to the target was looked up, and no row bars it.   *)
Looked(p) ==
  w[p].pc \in Looking =>
    /\ Policy = "off" => ~is_message_id_migrated(db, SrcOf[p], p, w[p].mid)
    /\ Policy = "global-dedupe" => ByFingerprint(db, SrcOf[p], p, w[p].fp) = {}

(* The rows of a mailbox are written by its worker, between messages.      *)
LEMMA OwnRows ==
  ASSUME RInv, Benign, [Next]_vars, Policy # "move-target",
         NEW p \in Pairs, w'[p].pc # "uid", NEW r \in db', r.box = SrcOf[p]
  PROVE  r \in db
<1>1. ASSUME NEW q \in Pairs, RecordSkipped(q) \/ RecordSuccess(q) \/ RecordFailed(q)
      PROVE  r \in db
  <2>1. /\ w[q].pc \in Processing \ {"moved"} /\ w[q].pc \in Processing /\ w[q] \in Worker
        /\ w[q].tuid \in Nat /\ NoTuid \in Nat /\ SInv
    BY <1>1 DEF RecordSkipped, RecordSuccess, RecordFailed, At, Processing, Worker, NoTuid,
                RInv, SInv, IInv, LocalsOK
  <2>2. q # p
    <3>1. PICK v : Goto(q, v) /\ v.pc = "uid"
      <4>1. NextMessage(q).pc = "uid" /\ [NextMessage(q) EXCEPT !.failed = TRUE].pc = "uid"
        BY <2>1 DEF NextMessage, Worker
      <4> QED
        BY <1>1, <4>1 DEF RecordSkipped, RecordSuccess, RecordFailed
    <3> QED
      BY <2>1, <3>1, Going
  <2>3. PICK status \in RowStatus, tuid \in Nat : Write(q, status, tuid)
    BY <1>1, <2>1 DEF RecordSkipped, RecordSuccess, RecordFailed, RowStatus
  <2>4. ~is_uid_migrated(db, SrcOf[q], Here(q))
    BY <2>1 DEF RInv, Unacked
  <2>5. r \in db \/ r.box = SrcOf[q]
    BY <2>1, <2>3, <2>4, WriteSeen
  <2> QED
    BY <2>2, <2>5 DEF Benign
<1> QED
  BY <1>1, NextWrites DEF RInv, table

(* The worker comes to a look-up from its check, or has made it.           *)
LEMMA LookingSteps ==
  ASSUME SInv, [Next]_vars, Policy # "move-target", NEW p \in Pairs, w'[p].pc \in Looking
  PROVE  /\ w'[p].mid = w[p].mid /\ w'[p].fp = w[p].fp
         /\ \/ w[p].pc \in Looking
            \/ /\ ~(Policy = "off" /\ is_message_id_migrated(db, SrcOf[p], p, w[p].mid))
               /\ Action(p) # "skip"
<1>1. w[p] \in Worker /\ w[p].pc \notin {"move", "relocate", "moved"}
  BY DEF SInv, IInv, LocalsOK, Honest
<1>2. CASE w'[p] = w[p]
  BY <1>2
<1>3. CASE Environment
  <2>1. CASE StartProcess \/ Crash
    <3>1. w'[p] \in {IdleWorker, [IdleWorker EXCEPT !.pc = "queued"]}
      BY <2>1 DEF StartProcess, Crash
    <3> QED
      BY <3>1 DEF IdleWorker, Looking
  <2>2. ASSUME NEW q \in Pairs, Break(q)
        PROVE  w'[p].mid = w[p].mid /\ w'[p].fp = w[p].fp /\ w'[p].pc = w[p].pc
    <3>1. PICK v \in {[w[q] EXCEPT !.src = FALSE], [w[q] EXCEPT !.tgt = FALSE]} : Goto(q, v)
      BY <2>2 DEF Break
    <3>2. v.mid = w[q].mid /\ v.fp = w[q].fp /\ v.pc = w[q].pc
      <4>1. w[q] \in Worker
        BY DEF SInv, IInv, LocalsOK
      <4> QED
        BY <4>1 DEF Worker
    <3> QED
      BY <3>1, <3>2, Going
  <2>3. CASE UNCHANGED w
    BY <2>3
  <2>4. UNCHANGED w \/ StartProcess \/ Crash \/ \E q \in Pairs : Break(q)
    BY <1>3 DEF Environment, UserMoves, UserReceives, UserStep
  <2> QED
    BY <2>1, <2>2, <2>3, <2>4
<1>4. CASE WorkerStep(p)
  <2> DEFINE Same(v) == v.mid = w[p].mid /\ v.fp = w[p].fp
  <2>1. CASE Fetch(p) \/ AppendMessage(p) \/ AppendFails(p) \/ AppendUnconfirmed(p) \/ RecordRaises(p)
    <3> DEFINE tuid == IF AppendUid THEN uidNext[p][TFolder(p)] ELSE NoTuid
               append == [w[p] EXCEPT !.pc = "append"]
               stored == [w[p] EXCEPT !.pc = "record", !.tuid = tuid]
               again == Attempt(p, w[p].attempt + 1)
               broken == [Attempt(p, w[p].attempt + 1) EXCEPT !.tgt = FALSE]
    <3>1. Same(append) /\ Same(stored) /\ Same(again) /\ Same(broken)
      <4> HIDE DEF tuid
      <4> QED
        BY <1>1 DEF Worker, Attempt
    <3>2. Goto(p, append) \/ Goto(p, stored) \/ Goto(p, again) \/ Goto(p, broken)
      BY <2>1 DEF Fetch, AppendMessage, AppendFails, AppendUnconfirmed, RecordRaises
    <3>3. w[p].pc \in Looking
      BY <2>1 DEF Fetch, AppendMessage, AppendFails, AppendUnconfirmed, RecordRaises, At, Looking
    <3> HIDE DEF append, stored, again, broken, Same
    <3>4. Same(w'[p])
      BY <3>1, <3>2, Going
    <3> QED
      BY <3>3, <3>4 DEF Same
  <2>2. CASE Check(p)
    <3> DEFINE skip == [w[p] EXCEPT !.pc = "skip"]
               move == [w[p] EXCEPT !.pc = "move"]
               copy == Attempt(p, 1)
    <3>1. skip.pc = "skip" /\ Same(skip) /\ Same(move) /\ Same(copy)
      BY <1>1 DEF Worker, Attempt
    <3>2. Goto(p, IF Policy = "off" /\ is_message_id_migrated(db, SrcOf[p], p, w[p].mid)
                    THEN skip
                    ELSE CASE Action(p) = "skip" -> skip
                           [] Action(p) = "move" -> move
                           [] OTHER -> copy)
      BY <2>2 DEF Check
    <3> HIDE DEF skip, move, copy, Same
    <3>3. CASE /\ ~(Policy = "off" /\ is_message_id_migrated(db, SrcOf[p], p, w[p].mid))
               /\ Action(p) # "skip"
      <4>1. Goto(p, move) \/ Goto(p, copy)
        BY <3>2, <3>3
      <4>2. Same(w'[p])
        BY <3>1, <4>1, Going
      <4> QED
        BY <3>3, <4>2 DEF Same
    <3>4. CASE \/ Policy = "off" /\ is_message_id_migrated(db, SrcOf[p], p, w[p].mid)
               \/ Action(p) = "skip"
      <4>1. Goto(p, skip)
        BY <3>2, <3>4
      <4>2. w'[p].pc = "skip"
        BY <3>1, <4>1, Going
      <4> QED
        BY <4>2 DEF Looking
    <3> QED
      BY <3>3, <3>4
  <2>3. CASE Header(p) \/ RecordSkipped(p) \/ RecordSuccess(p) \/ RecordFailed(p)
    <3>1. PICK v : Goto(p, v) /\ v.pc \in {"check", "uid"}
      <4> DEFINE mid == MessageId(Message(p))
                 fp == Fingerprint(Message(p))
                 blank == IF Policy = "off" THEN Empty ELSE BlankFp
      <4>1. \/ Goto(p, [w[p] EXCEPT !.pc = "check", !.mid = mid, !.fp = fp])
            \/ Goto(p, [w[p] EXCEPT !.pc = "check", !.fp = blank])
            \/ Goto(p, NextMessage(p)) \/ Goto(p, [NextMessage(p) EXCEPT !.failed = TRUE])
        BY <2>3 DEF Header, RecordSkipped, RecordSuccess, RecordFailed
      <4> HIDE DEF mid, fp, blank
      <4>2. /\ [w[p] EXCEPT !.pc = "check", !.mid = mid, !.fp = fp].pc = "check"
            /\ [w[p] EXCEPT !.pc = "check", !.fp = blank].pc = "check"
            /\ NextMessage(p).pc = "uid" /\ [NextMessage(p) EXCEPT !.failed = TRUE].pc = "uid"
        BY <1>1 DEF Worker, NextMessage
      <4> QED
        BY <4>1, <4>2
    <3> QED
      BY <3>1, Going DEF Looking
  <2>4. ASSUME NEW u \in Uids, NextUid(p, u) PROVE w'[p].pc \notin Looking
    <3>1. PICK v : Goto(p, v) /\ v.pc \in {"uid", "header"}
      <4>1. LET v == [w[p] EXCEPT !.uids = @ \ {u}] IN v.pc = w[p].pc
        BY <1>1 DEF Worker
      <4>2. LET v == [w[p] EXCEPT !.uids = @ \ {u}, !.pc = "header", !.uid = u]
            IN  v.pc = "header"
        BY <1>1 DEF Worker
      <4> QED
        BY <2>4, <4>1, <4>2 DEF NextUid, At
    <3> QED
      BY <3>1, Going DEF Looking
  <2>5. CASE \/ Connect(p) \/ ConnectFails(p) \/ ListFolders(p) \/ FinishRun(p)
             \/ \E f \in Folders : OpenFolder(p, f) \/ SkipFolder(p, f)
             \/ EndFolder(p) \/ StatementRaises(p)
    BY <2>5, FrameLocals DEF Looking, Processing
  <2>6. ~(MoveInPlace(p) \/ MoveImpossible(p) \/ MoveDone(p) \/ MoveRefused(p) \/ MoveHalfDone(p)
          \/ MoveUnconfirmed(p) \/ RelocateRow(p) \/ RecordMoved(p))
    BY <1>1 DEF MoveInPlace, MoveImpossible, MoveDone, MoveRefused, MoveHalfDone,
                MoveUnconfirmed, RelocateRow, RecordMoved, Moving, At
  <2> QED
    BY <1>4, <2>1, <2>2, <2>3, <2>4, <2>5, <2>6 DEF WorkerStep
<1>5. ASSUME NEW q \in Pairs \ {p}, WorkerStep(q) PROVE w'[p] = w[p]
  <2>1. \E v : Goto(q, v)
    BY <1>5, WorkerGoes
  <2> QED
    BY <2>1, Going
<1>6. CASE UNCHANGED vars
  BY <1>6 DEF vars
<1> QED
  BY <1>2, <1>3, <1>4, <1>5, <1>6 DEF Next

LEMMA NextLooked ==
  ASSUME RInv, \A p \in Pairs : Looked(p), Benign, [Next]_vars, Policy # "move-target",
         NEW p \in Pairs
  PROVE  Looked(p)'
<1>1. CASE w'[p].pc \notin Looking
  BY <1>1 DEF Looked
<1>2. CASE w'[p].pc \in Looking
  <2>1. \A r \in db' : r.box = SrcOf[p] => r \in db
    BY <1>2, OwnRows DEF Looking
  <2>2. w'[p].mid = w[p].mid /\ w'[p].fp = w[p].fp
    BY <1>2, LookingSteps DEF RInv
  <2>3. /\ Policy = "off" => ~is_message_id_migrated(db, SrcOf[p], p, w[p].mid)
        /\ Policy = "global-dedupe" => ByFingerprint(db, SrcOf[p], p, w[p].fp) = {}
    BY <1>2, LookingSteps DEF Looked, RInv, Action
  <2> QED
    BY <2>1, <2>2, <2>3 DEF Looked, is_message_id_migrated, ByFingerprint
<1> QED
  BY <1>1, <1>2

(* A message is appended in a step of its worker.                          *)
LEMMA AppendSteps ==
  ASSUME SInv, [Next]_vars, NEW p \in Pairs, At(p, "append"), uidNext'[p] # uidNext[p]
  PROVE  AppendMessage(p) \/ AppendUnconfirmed(p)
<1>1. uidNext \in [Pairs -> [TFolders -> Nat \ {0}]]
  BY DEF SInv, IInv, TargetOK
<1>2. ASSUME NEW q \in Pairs, NEW new, NewCopies(q, new) PROVE q = p
  BY <1>1, <1>2 DEF NewCopies
<1>3. ~UNCHANGED target
  BY DEF target
<1>4. PICK q \in Pairs : WorkerStep(q)
  BY <1>3 DEF Next, vars, Environment, StartProcess, Crash, Break, UserMoves, UserReceives, UserStep
<1>5. \/ AppendMessage(q) \/ AppendUnconfirmed(q)
      \/ MoveDone(q) \/ MoveHalfDone(q) \/ MoveUnconfirmed(q)
  BY <1>3, <1>4 DEF WorkerStep, Connect, ConnectFails, ListFolders, FinishRun, OpenFolder,
     SkipFolder, EndFolder, NextUid, Header, Check, RecordSkipped, MoveInPlace,
     MoveImpossible, MoveRefused, RelocateRow, RecordMoved, Fetch, AppendFails,
     RecordSuccess, RecordRaises, RecordFailed, StatementRaises
<1>6. \E new : NewCopies(q, new)
  BY <1>5 DEF AppendMessage, AppendUnconfirmed, Stored, MoveDone, MoveHalfDone, MoveUnconfirmed,
              MoveCommand, CopyAndExpunge, CopyAndFlag
<1>7. q = p
  BY <1>2, <1>6
<1> QED
  BY <1>5, <1>7 DEF MoveDone, MoveHalfDone, MoveUnconfirmed, Moving, At

(* Re-running after a clean run appends only what is new, as long as       *)
(* nothing fails: rows bar all that is settled.                            *)
THEOREM MailboxSyncRerunAppendsOnlyNew ==
  ASSUME Benign, Policy # "move-target" PROVE Spec => RerunAppendsOnlyNew
<1> DEFINE LInv == \A p \in Pairs : Looked(p)
<1>1. Init => LInv
  BY DEF Init, Looked, Looking, IdleWorker
<1>2. TInv /\ LInv /\ [Next]_vars => LInv'
  BY NextLooked DEF TInv
<1>3. TInv /\ LInv /\ [Next]_vars
        => [\A p \in Pairs :
              At(p, "append") /\ uidNext'[p] # uidNext[p] /\ clean'[p]
                => Here(p) \notin settled[p]]_vars
  <2> SUFFICES ASSUME TInv, LInv, [Next]_vars, NEW p \in Pairs,
                      At(p, "append"), uidNext'[p] # uidNext[p], clean'[p],
                      Here(p) \in settled[p]
               PROVE  FALSE
    OBVIOUS
  <2>1. SInv /\ RInv /\ Tidy(p) /\ Looked(p) /\ clean \in [Pairs -> BOOLEAN]
    BY DEF TInv, SInv, IInv, RestOK
  <2>2. clean[p]
    <3>1. ~Fault(p)
      BY <2>1 DEF Fault
    <3>2. NoFault
      BY <2>1, <3>1, AppendSteps DEF AppendMessage, AppendUnconfirmed
    <3> QED
      BY <3>2 DEF NoFault, observers
  <2>3. Exact(p) /\ Barred(p, Here(p))
    BY <2>1 DEF Tidy, SettledHandled, Handled
  <2>4. w[p].mid = MessageId(Message(p)) /\ w[p].fp = Fingerprint(Message(p))
    BY <2>2, <2>3 DEF Exact, At, Known, Processing
  <2>5. ~is_uid_migrated(db, SrcOf[p], Here(p))
    BY <2>1 DEF RInv, Unacked, At, Processing
  <2> QED
    BY <2>1, <2>3, <2>4, <2>5 DEF Barred, Looked, Looking, At, Message, Fingerprint
<1> QED
  BY <1>1, <1>2, <1>3, MailboxSyncSettled, PTL DEF Spec, RerunAppendsOnlyNew

-----------------------------------------------------------------------------
(* What becomes of one worker in a step, without moves on the target.      *)

(* One more copy of the message at hand, or none, whatever the message.    *)
LEMMA StoredOne ==
  ASSUME SInv, NEW p \in Pairs, w[p].pc \in Processing, Stored(p), IsFiniteSet(copies[p]),
         NEW m \in Msgs
  PROVE  /\ IsFiniteSet(copies'[p])
         /\ Cardinality(CopiesOf(p, m)') \in Nat /\ Cardinality(CopiesOf(p, m)) \in Nat
         /\ m = Message(p) =>
              Cardinality(CopiesOf(p, m)') <= Cardinality(CopiesOf(p, m)) + 1
         /\ m # Message(p) => CopiesOf(p, m)' = CopiesOf(p, m)
<1> DEFINE x == [folder |-> TFolder(p), uid |-> uidNext[p][TFolder(p)], msg |-> Message(p),
                 del |-> Message(p) \in DeletedMsgs]
<1>1. copies'[p] = copies[p] \cup {x}
  BY DEF Stored, NewCopies, SInv, IInv, TargetOK
<1>2. x.msg = Message(p)
  OBVIOUS
<1> HIDE DEF x
<1>3. IsFiniteSet(copies'[p])
  BY <1>1, FS_AddElement
<1>4. IsFiniteSet(CopiesOf(p, m)) /\ IsFiniteSet(CopiesOf(p, m)')
  <2>1. CopiesOf(p, m) \in SUBSET copies[p] /\ CopiesOf(p, m)' \in SUBSET copies'[p]
    BY DEF CopiesOf
  <2> QED
    BY <1>3, <2>1, FS_Subset
<1>5. Cardinality(CopiesOf(p, m)') \in Nat /\ Cardinality(CopiesOf(p, m)) \in Nat
  BY <1>4, FS_CardinalityType
<1>6. m # Message(p) => CopiesOf(p, m)' = CopiesOf(p, m)
  BY <1>1, <1>2 DEF CopiesOf
<1>7. ASSUME m = Message(p)
      PROVE  Cardinality(CopiesOf(p, m)') <= Cardinality(CopiesOf(p, m)) + 1
  <2>1. CopiesOf(p, m)' = CopiesOf(p, m) \cup {x}
    BY <1>1, <1>2, <1>7 DEF CopiesOf
  <2> QED
    BY <1>4, <1>5, <2>1, FS_AddElement
<1> QED
  BY <1>3, <1>5, <1>6, <1>7

LEMMA AppendGoes ==
  ASSUME SInv, NEW p \in Pairs, AppendMessage(p)
  PROVE  SameMessage(w[p], w'[p]) /\ w'[p].pc = "record"
<1> DEFINE tuid == IF AppendUid THEN uidNext[p][TFolder(p)] ELSE NoTuid
           v == [w[p] EXCEPT !.pc = "record", !.tuid = tuid]
<1>1. Goto(p, v)
  BY DEF AppendMessage
<1>2. v.pc = "record" /\ SameMessage(w[p], v)
  <2> HIDE DEF tuid
  <2> QED
    BY DEF SInv, IInv, LocalsOK, Worker, SameMessage
<1> HIDE DEF v
<1> QED
  BY <1>1, <1>2, Going

Bounding == faults' = faults \/ faults' = faults + 1

(* A step of the worker that keeps the copies.                             *)
LEMMA QuietSteps ==
  ASSUME SInv, Policy # "move-target", NEW p \in Pairs, WorkerStep(p),
         ~(AppendMessage(p) \/ AppendUnconfirmed(p) \/ RecordSuccess(p) \/ RecordRaises(p)
           \/ Header(p))
  PROVE  \/ w'[p].pc \notin {"check", "fetch", "append", "record"} /\ w[p].pc # "record"
         \/ /\ SameMessage(w[p], w'[p]) /\ w[p].pc \in {"check", "fetch", "append"}
            /\ w'[p].pc \in {"skip", "move", "fetch", "append", "fail"}
            /\ w'[p].pc = "append" => Readable(p)
<1>1. w[p] \in Worker /\ w[p].pc \notin {"move", "relocate", "moved"}
  BY DEF SInv, IInv, LocalsOK, Honest
<1>2. CASE Fetch(p) \/ AppendFails(p)
  <2> DEFINE append == [w[p] EXCEPT !.pc = "append"]
             again == Attempt(p, w[p].attempt + 1)
  <2>1. /\ SameMessage(w[p], append) /\ append.pc = "append"
        /\ SameMessage(w[p], again) /\ again.pc \in {"fetch", "fail"}
    BY <1>1, SamePc, SameAttempt
  <2>2. (Goto(p, append) /\ Readable(p)) \/ Goto(p, again)
    BY <1>2 DEF Fetch, AppendFails
  <2>3. w[p].pc \in {"fetch", "append"}
    BY <1>2 DEF Fetch, AppendFails, At
  <2> HIDE DEF append, again
  <2>4. (w'[p] = append /\ Readable(p)) \/ w'[p] = again
    BY <2>2, Going
  <2> QED
    BY <2>1, <2>3, <2>4
<1>3. CASE Check(p)
  <2> DEFINE skip == [w[p] EXCEPT !.pc = "skip"]
             move == [w[p] EXCEPT !.pc = "move"]
             copy == Attempt(p, 1)
  <2>1. /\ SameMessage(w[p], skip) /\ skip.pc = "skip"
        /\ SameMessage(w[p], move) /\ move.pc = "move"
        /\ SameMessage(w[p], copy) /\ copy.pc \in {"fetch", "fail"}
    BY <1>1, SamePc, SameAttempt
  <2>2. Goto(p, skip) \/ Goto(p, move) \/ Goto(p, copy)
    BY <1>3 DEF Check
  <2> HIDE DEF skip, move, copy
  <2>3. w'[p] = skip \/ w'[p] = move \/ w'[p] = copy
    BY <2>2, Going
  <2> QED
    BY <1>3, <2>1, <2>3 DEF Check, At
<1>4. CASE RecordSkipped(p) \/ RecordFailed(p)
  <2>1. NextMessage(p).pc = "uid" /\ [NextMessage(p) EXCEPT !.failed = TRUE].pc = "uid"
    BY <1>1 DEF NextMessage, Worker
  <2>2. w'[p].pc = "uid"
    BY <1>4, <2>1, Going DEF RecordSkipped, RecordFailed
  <2> QED
    BY <1>4, <2>2 DEF RecordSkipped, RecordFailed, At
<1>5. ASSUME NEW u \in Uids, NextUid(p, u)
      PROVE  w'[p].pc \notin {"check", "fetch", "append", "record"} /\ w[p].pc # "record"
  <2>1. PICK v : Goto(p, v) /\ v.pc \in {"uid", "header"}
    <3>1. LET v == [w[p] EXCEPT !.uids = @ \ {u}] IN v.pc = w[p].pc
      BY <1>1 DEF Worker
    <3>2. LET v == [w[p] EXCEPT !.uids = @ \ {u}, !.pc = "header", !.uid = u]
          IN  v.pc = "header"
      BY <1>1 DEF Worker
    <3> QED
      BY <1>5, <3>1, <3>2 DEF NextUid, At
  <2> QED
    BY <1>5, <2>1, Going DEF NextUid, At
<1>6. CASE \/ Connect(p) \/ ConnectFails(p) \/ ListFolders(p) \/ FinishRun(p)
           \/ \E f \in Folders : OpenFolder(p, f) \/ SkipFolder(p, f)
           \/ EndFolder(p) \/ StatementRaises(p)
  <2>1. w'[p].pc \notin Processing
    BY <1>6, FrameLocals
  <2> QED
    BY <1>6, <2>1 DEF Processing, At, Connect, ConnectFails, ListFolders, FinishRun,
       OpenFolder, SkipFolder, EndFolder, StatementRaises
<1>7. ~(MoveInPlace(p) \/ MoveImpossible(p) \/ MoveDone(p) \/ MoveRefused(p) \/ MoveHalfDone(p)
        \/ MoveUnconfirmed(p) \/ RelocateRow(p) \/ RecordMoved(p))
  BY <1>1 DEF MoveInPlace, MoveImpossible, MoveDone, MoveRefused, MoveHalfDone,
              MoveUnconfirmed, RelocateRow, RecordMoved, Moving, At
<1> QED
  BY <1>2, <1>3, <1>4, <1>5, <1>6, <1>7 DEF WorkerStep

(* The copies of a mailbox are its own worker's.                           *)
LEMMA OwnCopies ==
  ASSUME SInv, [Next]_vars, Policy # "move-target", NEW p \in Pairs,
         ~AppendMessage(p), ~AppendUnconfirmed(p)
  PROVE  copies'[p] = copies[p]
<1>1. CASE UNCHANGED target
  BY <1>1 DEF target
<1>2. CASE ~UNCHANGED target
  <2>1. PICK q \in Pairs : WorkerStep(q)
    BY <1>2 DEF Next, vars, Environment, StartProcess, Crash, Break, UserMoves, UserReceives,
                UserStep
  <2>2. w[q].pc \notin {"move", "relocate", "moved"}
    BY DEF SInv, Honest
  <2>3. AppendMessage(q) \/ AppendUnconfirmed(q)
    BY <1>2, <2>1, <2>2 DEF WorkerStep, Connect, ConnectFails, ListFolders, FinishRun, OpenFolder,
       SkipFolder, EndFolder, NextUid, Header, Check, RecordSkipped, MoveInPlace, Moving,
       MoveDone, MoveHalfDone, MoveUnconfirmed, At,
       MoveImpossible, MoveRefused, RelocateRow, RecordMoved, Fetch, AppendFails,
       RecordSuccess, RecordRaises, RecordFailed, StatementRaises
  <2>4. p # q
    BY <2>3
  <2> QED
    BY <2>3, <2>4 DEF AppendMessage, AppendUnconfirmed, Stored, NewCopies, SInv, IInv, TargetOK
<1> QED
  BY <1>1, <1>2

(* What one worker may do in a step, seen by what it counts.               *)
LEMMA AnyStep ==
  ASSUME SInv, [Next]_vars, Policy # "move-target", NEW p \in Pairs
  PROVE  \/ AppendMessage(p) \/ AppendUnconfirmed(p) \/ RecordSuccess(p) \/ RecordRaises(p)
         \/ Header(p)
         \/ w'[p].pc \notin {"check", "fetch", "append", "record"} /\ w[p].pc # "record"
         \/ w'[p].pc \in {"idle", "queued"} /\ faults' = faults + 1
         \/ /\ SameMessage(w[p], w'[p]) /\ w[p].pc \in {"check", "fetch", "append"}
            /\ w'[p].pc \in {"skip", "move", "fetch", "append", "fail"}
            /\ w'[p].pc = "append" => Readable(p)
         \/ SameMessage(w[p], w'[p]) /\ w'[p].pc = w[p].pc
<1>1. CASE w'[p] = w[p]
  BY <1>1 DEF SameMessage
<1>2. CASE WorkerStep(p)
  BY <1>2, QuietSteps
<1>3. ASSUME NEW q \in Pairs \ {p}, WorkerStep(q) PROVE w'[p] = w[p]
  BY <1>3, WorkerGoes, Going
<1>4. CASE Crash
  BY <1>4 DEF Crash, IdleWorker
<1>5. CASE StartProcess
  <2>1. w'[p] \in {IdleWorker, [IdleWorker EXCEPT !.pc = "queued"]} /\ w[p].pc = "idle"
    BY <1>5 DEF StartProcess, At
  <2>2. w'[p].pc \in {"idle", "queued"}
    BY <2>1 DEF IdleWorker
  <2> QED
    BY <2>1, <2>2
<1>6. ASSUME NEW q \in Pairs, Break(q)
      PROVE  SameMessage(w[p], w'[p]) /\ w'[p].pc = w[p].pc
  <2>1. PICK v \in {[w[q] EXCEPT !.src = FALSE], [w[q] EXCEPT !.tgt = FALSE]} : Goto(q, v)
    BY <1>6 DEF Break
  <2>2. SameMessage(w[q], v) /\ v.pc = w[q].pc
    <3>1. w[q] \in Worker
      BY DEF SInv, IInv, LocalsOK
    <3> QED
      BY <3>1 DEF Worker, SameMessage
  <2>3. w'[q] = v /\ \A o \in Pairs \ {q} : w'[o] = w[o]
    BY <2>1, Going
  <2> QED
    BY <2>2, <2>3 DEF SameMessage
<1>7. ASSUME NEW b \in Boxes, NEW f \in Folders,
             \/ \E l \in Loc : UserMoves(b, l, f)
             \/ \E m \in Msgs : UserReceives(b, f, m)
      PROVE  w'[p] = w[p]
  BY <1>7 DEF UserMoves, UserReceives, UserStep
<1>8. UNCHANGED vars => w'[p] = w[p]
  BY DEF vars
<1> QED
  BY <1>1, <1>2, <1>3, <1>4, <1>5, <1>6, <1>7, <1>8 DEF Next, Environment

LEMMA FaultsGrow ==
  ASSUME SInv, [Next]_vars
  PROVE  faults \in Nat /\ Bounding
<1>1. faults \in Nat
  BY DEF SInv, IInv, RestOK
<1>2. \A p \in Pairs : Fault(p) \/ NoFault => Bounding
  BY DEF Fault, NoFault, bounds, Bounding
<1>3. CASE Environment
  <2>1. ASSUME NEW p \in Pairs, Break(p) PROVE Bounding
    BY <1>2, <2>1 DEF Break
  <2>2. StartProcess => Bounding
    BY DEF StartProcess, Bounding
  <2>4. Crash => Bounding
    BY DEF Crash, Bounding
  <2>3. \A b \in Boxes, f \in Folders :
          /\ \A l \in Loc : UserMoves(b, l, f) => Bounding
          /\ \A m \in Msgs : UserReceives(b, f, m) => Bounding
    BY DEF UserMoves, UserReceives, UserStep, Bounding
  <2> QED
    BY <1>1, <1>3, <2>1, <2>2, <2>3, <2>4 DEF Environment
<1>4. ASSUME NEW p \in Pairs, WorkerStep(p) PROVE Bounding
  <2>1. CASE FinishRun(p)
    BY <2>1 DEF FinishRun, bounds, Bounding
  <2>2. CASE ~FinishRun(p)
    <3>1. Fault(p) \/ NoFault
      BY <1>4, <2>2, WorkerFaults
    <3> QED
      BY <1>2, <3>1
  <2> QED
    BY <2>1, <2>2
<1>5. UNCHANGED vars => Bounding
  BY DEF vars, bounds, Bounding
<1> QED
  BY <1>1, <1>3, <1>4, <1>5 DEF Next

-----------------------------------------------------------------------------
(* How many copies there are.                                              *)

(* The locations of a message that count as migrated.                      *)
Done(p, m) == {l \in Places(p, m) : is_uid_migrated(db, SrcOf[p], l)}

(* A copy whose row is yet to be written.                                  *)
InFlight(p, m) == IF w[p].pc = "record" /\ Message(p) = m THEN 1 ELSE 0

FiniteCopies == \A p \in Pairs : IsFiniteSet(copies[p])

(* Each copy has its row, or a failure to answer for it.                   *)
PerPlace(p, m) == Cardinality(CopiesOf(p, m)) <= faults + Cardinality(Done(p, m)) + InFlight(p, m)

LEMMA LocFinite == IsFiniteSet(Loc)
<1>1. IsFiniteSet(Uids)
  BY MailboxSyncAssumption, FS_Interval DEF Uids
<1> QED
  BY <1>1, MailboxSyncAssumption, FS_Product DEF Loc

LEMMA DoneGrows ==
  ASSUME RInv, [Next]_vars, Policy # "move-target", NEW p \in Pairs, NEW m \in Msgs
  PROVE  /\ Cardinality(Done(p, m)) \in Nat /\ Cardinality(Done(p, m)') \in Nat
         /\ Cardinality(Done(p, m)) <= Cardinality(Done(p, m)')
         /\ \A l \in Done(p, m)' \ Done(p, m) :
              Cardinality(Done(p, m)) + 1 <= Cardinality(Done(p, m)')
<1>1. Done(p, m) \in SUBSET Loc /\ Done(p, m)' \in SUBSET Loc
  BY DEF Done, Places
<1>2. IsFiniteSet(Done(p, m)) /\ IsFiniteSet(Done(p, m)')
  BY <1>1, LocFinite, FS_Subset
<1>3. Done(p, m) \subseteq Done(p, m)'
  <2>1. m # NoMsg /\ SrcOf[p] \in Boxes /\ SInv
    BY MailboxSyncAssumption DEF RInv
  <2>2. \A l \in Loc : placed[SrcOf[p]][l] = m => placed'[SrcOf[p]][l] = m
    BY <2>1, NextStays DEF Stays
  <2>3. \A r \in db : r.status = "success" => r \in db'
    BY SuccessStays
  <2> QED
    BY <2>2, <2>3 DEF Done, Places, is_uid_migrated, RowsAt
<1>4. Cardinality(Done(p, m)) \in Nat /\ Cardinality(Done(p, m)') \in Nat
  BY <1>2, FS_CardinalityType
<1>5. Cardinality(Done(p, m)) <= Cardinality(Done(p, m)')
  BY <1>2, <1>3, FS_Subset
<1>6. ASSUME NEW l \in Done(p, m)' \ Done(p, m)
      PROVE  Cardinality(Done(p, m)) + 1 <= Cardinality(Done(p, m)')
  <2>1. Done(p, m) \cup {l} \in SUBSET Done(p, m)'
    BY <1>3, <1>6
  <2>2. Cardinality(Done(p, m) \cup {l}) = Cardinality(Done(p, m)) + 1
    BY <1>2, <1>6, FS_AddElement
  <2> QED
    BY <1>2, <2>1, <2>2, FS_Subset
<1> QED
  BY <1>4, <1>5, <1>6

LEMMA NextPerPlace ==
  ASSUME RInv, FiniteCopies, Benign, [Next]_vars, Policy # "move-target", SInv',
         NEW p \in Pairs, NEW m \in Msgs, PerPlace(p, m)
  PROVE  PerPlace(p, m)'
<1> DEFINE n == Cardinality(CopiesOf(p, m))
           d == Cardinality(Done(p, m))
<1>1. SInv /\ IsFiniteSet(copies[p])
  BY DEF RInv, FiniteCopies
<1>2. n \in Nat /\ d \in Nat /\ d' \in Nat /\ d <= d'
  <2>1. CopiesOf(p, m) \in SUBSET copies[p]
    BY DEF CopiesOf
  <2>2. IsFiniteSet(CopiesOf(p, m))
    BY <1>1, <2>1, FS_Subset
  <2> QED
    BY <2>2, FS_CardinalityType, DoneGrows
<1>3. faults \in Nat /\ (faults' = faults \/ faults' = faults + 1)
  BY <1>1, FaultsGrow DEF Bounding
<1>4. n <= faults + d + InFlight(p, m)
  BY DEF PerPlace
<1>5. InFlight(p, m) \in {0, 1} /\ InFlight(p, m)' \in {0, 1}
  BY DEF InFlight
<1>6. SUFFICES n' <= faults' + d' + InFlight(p, m)'
  BY DEF PerPlace
<1>7. CASE AppendMessage(p) \/ AppendUnconfirmed(p)
  <2>1. Stored(p) /\ w[p].pc = "append" /\ w[p].pc \in Processing /\ UNCHANGED source
    BY <1>7 DEF AppendMessage, AppendUnconfirmed, At, Processing
  <2>2. /\ n' \in Nat
        /\ m = Message(p) => n' <= n + 1
        /\ m # Message(p) => n' = n
    BY <1>1, <2>1, StoredOne
  <2>3. InFlight(p, m) = 0
    BY <2>1 DEF InFlight
  <2>4. CASE AppendMessage(p)
    <3>1. w'[p].pc = "record" /\ Message(p)' = Message(p)
      BY <1>1, <2>1, <2>4, AppendGoes DEF Message, Here, source, SameMessage
    <3>2. m = Message(p) => InFlight(p, m)' = 1
      BY <3>1 DEF InFlight
    <3> HIDE DEF n, d
    <3> QED
      BY <1>2, <1>3, <1>4, <1>5, <2>2, <2>3, <3>2
  <2>5. CASE AppendUnconfirmed(p)
    <3>1. faults' = faults + 1
      BY <2>5 DEF AppendUnconfirmed, Fault
    <3> HIDE DEF n, d
    <3> QED
      BY <1>2, <1>3, <1>4, <1>5, <2>2, <2>3, <3>1
  <2> QED
    BY <1>7, <2>4, <2>5
<1>8. CASE ~(AppendMessage(p) \/ AppendUnconfirmed(p))
  <2>1. n' = n
    BY <1>1, <1>8, OwnCopies DEF CopiesOf
  <2>2. CASE RecordSuccess(p)
    <3>1. w[p].pc = "record" /\ Write(p, "success", w[p].tuid) /\ UNCHANGED source
      BY <2>2 DEF RecordSuccess, At
    <3>2. CASE m = Message(p)
      <4>1. PICK l \in Loc : l = Here(p)
        BY <1>1, <3>1, Whereabouts DEF Processing, SInv
      <4>2. is_uid_migrated(db', SrcOf[p], l) /\ ~is_uid_migrated(db, SrcOf[p], l)
        BY <3>1, <4>1, Written DEF RInv, Unacked, Processing
      <4>3. l \in Done(p, m)' \ Done(p, m)
        BY <3>1, <3>2, <4>1, <4>2 DEF Done, Places, Message, source
      <4>4. d + 1 <= d'
        BY <4>3, DoneGrows
      <4> HIDE DEF n, d
      <4> QED
        BY <1>2, <1>3, <1>4, <1>5, <2>1, <4>4
    <3>3. CASE m # Message(p)
      <4>1. InFlight(p, m) = 0
        BY <3>3 DEF InFlight
      <4> HIDE DEF n, d
      <4> QED
        BY <1>2, <1>3, <1>4, <1>5, <2>1, <4>1
    <3> QED
      BY <3>2, <3>3
  <2>3. CASE faults' = faults + 1
    <3> HIDE DEF n, d
    <3> QED
      BY <1>2, <1>3, <1>4, <1>5, <2>1, <2>3
  <2>4. CASE InFlight(p, m) = 0 \/ InFlight(p, m)' = 1
    <3> HIDE DEF n, d
    <3> QED
      BY <1>2, <1>3, <1>4, <1>5, <2>1, <2>4
  <2>5. CASE SameMessage(w[p], w'[p]) /\ w'[p].pc = w[p].pc
    <3>1. CASE w[p].pc = "record"
      <4>1. Message(p)' = Message(p)
        <5>1. Here(p)' = Here(p) /\ w[p].pc \in Processing
          BY <2>5, <3>1 DEF SameMessage, Here, Processing
        <5>2. /\ SrcOf[p] \in Boxes /\ Here(p) \in Loc /\ Message(p) # NoMsg
          BY <1>1, <5>1, Whereabouts DEF SInv
        <5> QED
          BY <1>1, <5>1, <5>2, NextStays DEF Message, Stays
      <4> QED
        BY <2>4, <2>5, <3>1, <4>1 DEF InFlight
    <3>2. CASE w[p].pc # "record"
      BY <2>4, <3>2 DEF InFlight
    <3> QED
      BY <3>1, <3>2
  <2>6. CASE w[p].pc # "record"
    BY <2>4, <2>6 DEF InFlight
  <2>7. RecordRaises(p) => faults' = faults + 1
    BY DEF RecordRaises, Fault
  <2>8. Header(p) => w[p].pc # "record"
    BY DEF Header, At
  <2> QED
    BY <1>1, <1>8, <2>2, <2>3, <2>5, <2>6, <2>7, <2>8, AnyStep
<1> QED
  BY <1>7, <1>8

(* Under global-dedupe a copy has a row with its fingerprint, or soon will *)
(* have: the worker holds the message's fingerprint.                       *)
Keyed(p, m) ==
  IF \/ ByFingerprint(db, SrcOf[p], p, m) # {}
     \/ w[p].pc = "record" /\ w[p].fp = m /\ Message(p) = m THEN 1 ELSE 0

(* A message of which the headers could not be fetched is on its way: its  *)
(* copy will have the hash of blanks.                                      *)
Owed(p, m) ==
  IF /\ w[p].pc \in {"check", "fetch", "append"}
     /\ Message(p) = m /\ w[p].fp = BlankFp
     /\ Readable(p) \/ w[p].pc = "append" THEN 1 ELSE 0

PerFingerprint(p, m) ==
  Cardinality(CopiesOf(p, m)) + Owed(p, m) <= faults + Keyed(p, m)

(* A worker at its message finds the same there after any step.            *)
LEMMA SamePlace ==
  ASSUME SInv, [Next]_vars, NEW p \in Pairs, w[p].pc \in Processing, SameMessage(w[p], w'[p])
  PROVE  Message(p)' = Message(p) /\ (Readable(p)' => Readable(p))
<1>1. /\ SrcOf[p] \in Boxes /\ Here(p) \in Loc /\ Message(p) # NoMsg
  BY Whereabouts DEF SInv
<1>2. Here(p)' = Here(p)
  BY DEF SameMessage, Here
<1> QED
  BY <1>1, <1>2, NextStays DEF Message, Stays, Readable, SameMessage

(* The row of a copy has its fingerprint.                                  *)
LEMMA WrittenFp ==
  ASSUME RInv, Benign, NEW p \in Pairs, w[p].pc \in Processing,
         NEW tuid \in Nat, Write(p, "success", tuid), NEW fp, w[p].fp = fp, fp # Empty
  PROVE  ByFingerprint(db', SrcOf[p], p, fp) # {}
<1> DEFINE new == [box |-> SrcOf[p], loc |-> Here(p), tbox |-> p,
                   tfolder |-> TFolder(p), tuid |-> tuid,
                   mid |-> w[p].mid, fp |-> w[p].fp,
                   status |-> "success", id |-> lastId + 1]
<1>1. /\ db' = record(db, new) /\ new.box = SrcOf[p] /\ new.loc = Here(p) /\ new.tbox = p
      /\ new.fp = fp /\ new.status = "success"
  BY DEF Write
<1> HIDE DEF new
<1>2. CASE RowsAt(db, new.box, new.loc) = {}
  BY <1>1, <1>2 DEF record, ByFingerprint
<1>3. ASSUME NEW o \in RowsAt(db, new.box, new.loc)
      PROVE  ByFingerprint(db', SrcOf[p], p, fp) # {}
  <2>1. o \in db /\ o \in Row /\ o.box = SrcOf[p] /\ o.tbox \in Pairs
    BY <1>1 DEF RowsAt, RInv, KeyOK, Row
  <2>2. o.tbox = p
    BY <2>1 DEF RInv, SInv, HonestRows, HonestRow, Benign
  <2> DEFINE e == [o EXCEPT !.status = new.status, !.tuid = new.tuid,
                            !.fp = IF new.fp # Empty THEN new.fp ELSE o.fp]
  <2>3. e \in db'
    BY <1>1, <1>3 DEF record
  <2>4. e.box = SrcOf[p] /\ e.tbox = p /\ e.fp = fp /\ e.status = "success"
    BY <1>1, <2>1, <2>2 DEF Row
  <2> QED
    BY <2>3, <2>4 DEF ByFingerprint
<1> QED
  BY <1>2, <1>3

(* Headers that cannot be fetched while the message is there are a fault.  *)
LEMMA HeaderOwes ==
  ASSUME SInv, NEW p \in Pairs, Header(p), NEW m \in Msgs, m # BlankFp
  PROVE  Owed(p, m)' = 0 \/ faults' = faults + 1
<1>1. w[p] \in Worker /\ UNCHANGED source
  BY DEF SInv, IInv, LocalsOK, Header
<1>2. CASE Fault(p)
  BY <1>2 DEF Fault
<1>3. CASE ~Fault(p)
  <2> DEFINE read == [w[p] EXCEPT !.pc = "check", !.mid = MessageId(Message(p)),
                                  !.fp = Fingerprint(Message(p))]
             blank == [w[p] EXCEPT !.pc = "check",
                                   !.fp = IF Policy = "off" THEN Empty ELSE BlankFp]
             Same(v) == v.folder = w[p].folder /\ v.uid = w[p].uid /\ v.src = w[p].src
                        /\ v.pc = "check"
  <2>1. Same(read) /\ read.fp = Fingerprint(Message(p)) /\ Same(blank)
    BY <1>1 DEF Worker
  <2>2. Goto(p, read) \/ (Goto(p, blank) /\ ~Readable(p))
    BY <1>3 DEF Header
  <2> HIDE DEF read, blank
  <2>3. w'[p] = read \/ (w'[p] = blank /\ ~Readable(p))
    BY <2>2, Going
  <2>4. Same(w'[p])
    BY <2>1, <2>3
  <2>5. Here(p)' = Here(p) /\ Message(p)' = Message(p) /\ (Readable(p)' <=> Readable(p))
    BY <1>1, <2>4 DEF Here, Message, Readable, source
  <2>6. w'[p].fp = Fingerprint(Message(p)) \/ ~Readable(p)
    BY <2>1, <2>3
  <2>7. Message(p) = m => Fingerprint(Message(p)) # BlankFp
    BY DEF Fingerprint, Empty, BlankFp
  <2> QED
    BY <2>4, <2>5, <2>6, <2>7 DEF Owed
<1> QED
  BY <1>2, <1>3

LEMMA NextPerFingerprint ==
  ASSUME TInv, \A q \in Pairs : Looked(q), FiniteCopies, Benign, [Next]_vars,
         Policy = "global-dedupe", SInv',
         NEW p \in Pairs, NEW m \in Msgs, PerFingerprint(p, m)
  PROVE  PerFingerprint(p, m)'
<1> DEFINE n == Cardinality(CopiesOf(p, m))
<1>1. SInv /\ RInv /\ IsFiniteSet(copies[p]) /\ Policy # "move-target" /\ w[p] \in Worker
  BY DEF TInv, FiniteCopies, SInv, IInv, LocalsOK
<1>2. n \in Nat
  <2>1. CopiesOf(p, m) \in SUBSET copies[p]
    BY DEF CopiesOf
  <2>2. IsFiniteSet(CopiesOf(p, m))
    BY <1>1, <2>1, FS_Subset
  <2> QED
    BY <2>2, FS_CardinalityType
<1>3. faults \in Nat /\ (faults' = faults \/ faults' = faults + 1)
  BY <1>1, FaultsGrow DEF Bounding
<1>4. n + Owed(p, m) <= faults + Keyed(p, m)
  BY DEF PerFingerprint
<1>5. /\ Owed(p, m) \in {0, 1} /\ Owed(p, m)' \in {0, 1}
      /\ Keyed(p, m) \in {0, 1} /\ Keyed(p, m)' \in {0, 1}
  BY DEF Owed, Keyed
<1>6. SUFFICES n' + Owed(p, m)' <= faults' + Keyed(p, m)'
  BY DEF PerFingerprint
<1>7. m # BlankFp /\ m # Empty
  BY MailboxSyncAssumption
<1>8. ByFingerprint(db, SrcOf[p], p, m) # {} => Keyed(p, m)' = 1
  <2>1. \A r \in db : r.status = "success" => r \in db'
    BY <1>1, SuccessStays
  <2> QED
    BY <2>1 DEF Keyed, ByFingerprint
<1>9. w[p].pc # "record" => Keyed(p, m) <= Keyed(p, m)'
  <2>1. CASE ByFingerprint(db, SrcOf[p], p, m) # {}
    BY <1>5, <1>8, <2>1
  <2>2. CASE w[p].pc # "record" /\ ByFingerprint(db, SrcOf[p], p, m) = {}
    <3>1. Keyed(p, m) = 0
      BY <2>2 DEF Keyed
    <3> QED
      BY <1>5, <3>1
  <2> QED
    BY <2>1, <2>2
<1>10. CASE AppendMessage(p) \/ AppendUnconfirmed(p)
  <2>1. /\ Stored(p) /\ w[p].pc = "append" /\ w[p].pc \in Processing /\ w[p].pc \in Known
        /\ UNCHANGED source
    BY <1>10 DEF AppendMessage, AppendUnconfirmed, At, Processing, Known
  <2>2. /\ n' \in Nat
        /\ m = Message(p) => n' <= n + 1
        /\ m # Message(p) => n' = n
    BY <1>1, <2>1, StoredOne
  <2>3. w[p].fp \in {BlankFp, Message(p)}
    BY <1>1, <2>1 DEF SInv, Honest
  <2>4. PICK v : /\ w'[p] = v /\ SameMessage(w[p], v)
                 /\ AppendMessage(p) => v.pc = "record"
                 /\ AppendUnconfirmed(p) => v.pc \in {"fetch", "fail"} /\ faults' = faults + 1
    <3>1. CASE AppendMessage(p)
      <4>1. ~AppendUnconfirmed(p)
        <5>1. ~Fault(p)
          BY <1>3, <3>1 DEF AppendMessage, NoFault, Fault, bounds
        <5> QED
          BY <5>1 DEF AppendUnconfirmed
      <4> QED
        BY <1>1, <3>1, <4>1, AppendGoes
    <3>2. CASE ~AppendMessage(p) /\ AppendUnconfirmed(p)
      <4> DEFINE v == [Attempt(p, w[p].attempt + 1) EXCEPT !.tgt = FALSE]
      <4>1. Goto(p, v) /\ faults' = faults + 1
        BY <3>2 DEF AppendUnconfirmed, Fault
      <4>2. v.pc \in {"fetch", "fail"} /\ SameMessage(w[p], v)
        BY <1>1, SameAttempt
      <4> HIDE DEF v
      <4> QED
        BY <1>1, <3>2, <4>1, <4>2, Going
    <3> QED
      BY <1>10, <3>1, <3>2
  <2>5. Message(p)' = Message(p)
    BY <1>1, <2>1, <2>4, SamePlace
  <2>6. w'[p].fp = w[p].fp /\ Keyed(p, m) <= Keyed(p, m)'
    BY <1>9, <2>1, <2>4 DEF SameMessage
  <2>7. m = Message(p) /\ w[p].fp = BlankFp => Owed(p, m) = 1
    BY <2>1 DEF Owed
  <2>8. m # Message(p) \/ w[p].fp # BlankFp => Owed(p, m)' = 0
    BY <2>5, <2>6 DEF Owed
  <2>9. CASE AppendMessage(p)
    <3>1. Owed(p, m)' = 0
      BY <2>4, <2>9 DEF Owed
    <3>2. m = Message(p) /\ w[p].fp # BlankFp => Keyed(p, m) = 0 /\ Keyed(p, m)' = 1
      <4>1. SUFFICES ASSUME m = Message(p), w[p].fp # BlankFp
                     PROVE  Keyed(p, m) = 0 /\ Keyed(p, m)' = 1
        OBVIOUS
      <4>2. w[p].fp = m
        BY <2>3, <4>1
      <4>3. Keyed(p, m) = 0
        BY <2>1, <4>2 DEF Looked, Looking, Keyed
      <4>4. Keyed(p, m)' = 1
        BY <2>4, <2>5, <2>6, <2>9, <4>1, <4>2 DEF Keyed
      <4> QED
        BY <4>3, <4>4
    <3> HIDE DEF n
    <3> QED
      BY <1>2, <1>3, <1>4, <1>5, <2>2, <2>6, <2>7, <3>1, <3>2
  <2>10. CASE AppendUnconfirmed(p)
    <3>1. faults' = faults + 1
      BY <2>4, <2>10
    <3> HIDE DEF n
    <3> QED
      BY <1>2, <1>3, <1>4, <1>5, <2>2, <2>6, <2>7, <2>8, <3>1
  <2> QED
    BY <1>10, <2>9, <2>10
<1>11. CASE ~(AppendMessage(p) \/ AppendUnconfirmed(p))
  <2>1. n' = n
    BY <1>1, <1>11, OwnCopies DEF CopiesOf
  <2>2. CASE Owed(p, m)' <= Owed(p, m) /\ Keyed(p, m) <= Keyed(p, m)'
    <3> HIDE DEF n
    <3> QED
      BY <1>2, <1>3, <1>4, <1>5, <2>1, <2>2
  <2>3. CASE /\ faults' = faults + 1
             /\ Owed(p, m)' <= Owed(p, m) \/ Keyed(p, m) <= Keyed(p, m)'
    <3> HIDE DEF n
    <3> QED
      BY <1>2, <1>3, <1>4, <1>5, <2>1, <2>3
  <2>4. CASE RecordSuccess(p)
    <3>1. /\ w[p].pc = "record" /\ Write(p, "success", w[p].tuid) /\ w'[p].pc = "uid"
          /\ w[p].pc \in Processing
      <4>1. NextMessage(p).pc = "uid"
        BY <1>1 DEF NextMessage, Worker
      <4> QED
        BY <1>1, <2>4, <4>1, Going DEF RecordSuccess, At, Processing
    <3>2. Owed(p, m)' = 0
      BY <3>1 DEF Owed
    <3>3. w[p].fp = m /\ Message(p) = m => ByFingerprint(db', SrcOf[p], p, m) # {}
      <4>1. w[p].tuid \in Nat
        BY <1>1 DEF Worker
      <4>2. ASSUME w[p].fp = m PROVE ByFingerprint(db', SrcOf[p], p, m) # {}
        BY <1>1, <1>7, <3>1, <4>1, <4>2, WrittenFp
      <4> QED
        BY <4>2
    <3>4. Keyed(p, m) <= Keyed(p, m)'
      <4>1. CASE w[p].fp = m /\ Message(p) = m
        BY <1>5, <3>3, <4>1 DEF Keyed
      <4>2. CASE ~(w[p].fp = m /\ Message(p) = m)
        BY <1>5, <1>8, <4>2 DEF Keyed
      <4> QED
        BY <4>1, <4>2
    <3> QED
      BY <1>5, <2>2, <3>2, <3>4
  <2>5. CASE Header(p)
    <3>1. w[p].pc = "header"
      BY <2>5 DEF Header, At
    <3>2. Owed(p, m)' = 0 \/ faults' = faults + 1
      BY <1>1, <1>7, <2>5, HeaderOwes
    <3> QED
      BY <1>5, <1>9, <2>2, <2>3, <3>1, <3>2
  <2>6. CASE RecordRaises(p)
    <3>1. /\ w[p].pc = "record" /\ w[p].pc \in Processing /\ faults' = faults + 1
          /\ SameMessage(w[p], w'[p]) /\ w'[p].pc \in {"fetch", "fail"}
      <4> DEFINE v == Attempt(p, w[p].attempt + 1)
      <4>1. SameMessage(w[p], v) /\ v.pc \in {"fetch", "fail"}
        BY <1>1, SameAttempt
      <4>2. Goto(p, v)
        BY <2>6 DEF RecordRaises
      <4> HIDE DEF v
      <4>3. w'[p] = v
        BY <1>1, <4>2, Going
      <4> QED
        BY <2>6, <4>1, <4>3 DEF RecordRaises, At, Fault, Processing
    <3>2. Message(p)' = Message(p)
      BY <1>1, <3>1, SamePlace
    <3>3. CASE w[p].fp = BlankFp
      <4>1. Keyed(p, m) <= Keyed(p, m)'
        BY <1>5, <1>7, <1>8, <3>3 DEF Keyed
      <4> QED
        BY <2>3, <3>1, <4>1
    <3>4. CASE w[p].fp # BlankFp
      <4>1. Owed(p, m)' = 0
        BY <3>1, <3>4 DEF Owed, SameMessage
      <4> QED
        BY <1>5, <2>3, <3>1, <4>1
    <3> QED
      BY <3>3, <3>4
  <2>7. CASE w'[p].pc \notin {"check", "fetch", "append", "record"} /\ w[p].pc # "record"
    <3>1. Owed(p, m)' = 0
      BY <2>7 DEF Owed
    <3> QED
      BY <1>5, <1>9, <2>2, <2>7, <3>1
  <2>8. CASE w'[p].pc \in {"idle", "queued"} /\ faults' = faults + 1
    <3>1. Owed(p, m)' = 0
      BY <2>8 DEF Owed
    <3> QED
      BY <1>5, <2>3, <2>8, <3>1
  <2>9. CASE /\ SameMessage(w[p], w'[p]) /\ w[p].pc \in {"check", "fetch", "append"}
             /\ w'[p].pc \in {"skip", "move", "fetch", "append", "fail"}
             /\ w'[p].pc = "append" => Readable(p)
    <3>1. Message(p)' = Message(p) /\ (Readable(p)' => Readable(p))
      BY <1>1, <2>9, SamePlace DEF Processing
    <3>2. Owed(p, m)' <= Owed(p, m)
      BY <2>9, <3>1 DEF Owed, SameMessage
    <3> QED
      BY <1>9, <2>2, <2>9, <3>2
  <2>10. CASE SameMessage(w[p], w'[p]) /\ w'[p].pc = w[p].pc
    <3>1. CASE w[p].pc \in {"check", "fetch", "append", "record"}
      <4>1. Message(p)' = Message(p) /\ (Readable(p)' => Readable(p))
        BY <1>1, <2>10, <3>1, SamePlace DEF Processing
      <4>2. Owed(p, m)' <= Owed(p, m)
        BY <2>10, <4>1 DEF Owed, SameMessage
      <4>3. Keyed(p, m) <= Keyed(p, m)'
        BY <1>5, <1>8, <2>10, <4>1 DEF Keyed, SameMessage
      <4> QED
        BY <2>2, <4>2, <4>3
    <3>2. CASE w[p].pc \notin {"check", "fetch", "append", "record"}
      BY <2>7, <2>10, <3>2
    <3> QED
      BY <3>1, <3>2
  <2> QED
    BY <1>1, <1>11, <2>4, <2>5, <2>6, <2>7, <2>8, <2>9, <2>10, AnyStep
<1> QED
  BY <1>10, <1>11

-----------------------------------------------------------------------------
(* While nothing fails, Message-IDs are enough.                            *)

Undisturbed == \A p \in Pairs : w[p].pc # "idle" => clean[p]

(* A row without the Message-ID its message has is of one that was gone    *)
(* when its headers were asked for.                                        *)
Named(r) ==
  placed[r.box][r.loc] \in HasMid /\ r.mid = Empty
    => r.loc \notin present[r.box] /\ r.status # "success"
NamedHere(p) ==
  w[p].pc \in {"check", "fetch", "append", "record"} /\ w[p].mid # Empty
    => \A r \in RowsAt(db, SrcOf[p], Here(p)) : r.mid # Empty

Once(p, m) ==
  Cardinality(CopiesOf(p, m))
    <= IF is_message_id_migrated(db, SrcOf[p], p, m) \/ InFlight(p, m) = 1 THEN 1 ELSE 0

NInv ==
  /\ Undisturbed
  /\ \A r \in db : Named(r)
  /\ \A p \in Pairs : NamedHere(p) /\ \A m \in HasMid : Once(p, m)

LEMMA NextUndisturbed ==
  ASSUME SInv, [Next]_vars, Undisturbed, faults' = 0
  PROVE  Undisturbed' /\ faults = 0
<1>1. faults \in Nat /\ (faults' = faults \/ faults' = faults + 1) /\ w \in [Pairs -> Worker]
      /\ clean \in [Pairs -> BOOLEAN]
  BY FaultsGrow DEF Bounding, SInv, IInv, LocalsOK, RestOK
<1>2. faults = 0
  BY <1>1
<1>3. \A p \in Pairs : ~Fault(p)
  BY <1>2 DEF Fault
<1>4. CASE StartProcess
  <2>1. ASSUME NEW p \in Pairs, w'[p].pc # "idle" PROVE clean'[p]
    <3>1. w'[p] \in {IdleWorker, [IdleWorker EXCEPT !.pc = "queued"]}
      BY <1>4 DEF StartProcess
    <3>2. w'[p].pc = "queued"
      BY <2>1, <3>1 DEF IdleWorker
    <3> QED
      BY <1>4, <3>2 DEF StartProcess
  <2> QED
    BY <1>2, <2>1 DEF Undisturbed
<1>5. ~Crash
  BY <1>2 DEF Crash
<1>6. ASSUME NEW p \in Pairs, WorkerStep(p) PROVE Undisturbed'
  <2>1. PICK v : Goto(p, v)
    BY <1>6, WorkerGoes
  <2>2. \A q \in Pairs \ {p} : w'[q] = w[q]
    BY <2>1, Going
  <2>3. UNCHANGED clean
    <3>1. CASE FinishRun(p)
      BY <3>1 DEF FinishRun
    <3>2. CASE ~FinishRun(p)
      BY <1>3, <1>6, <3>2, WorkerFaults DEF NoFault, observers
    <3> QED
      BY <3>1, <3>2
  <2>4. w'[p].pc # "idle" => clean'[p]
    <3>1. w[p].pc # "idle"
      BY <1>6 DEF WorkerStep, Connect, ConnectFails, ListFolders, FinishRun, OpenFolder,
         SkipFolder, EndFolder, NextUid, Header, Check, RecordSkipped, MoveInPlace,
         MoveImpossible, Moving, MoveDone, MoveRefused, MoveHalfDone, MoveUnconfirmed,
         RelocateRow, RecordMoved, Fetch, AppendMessage, AppendFails, AppendUnconfirmed,
         RecordSuccess, RecordRaises, RecordFailed, StatementRaises, At
    <3> QED
      BY <2>3, <3>1 DEF Undisturbed
  <2> QED
    BY <2>2, <2>3, <2>4 DEF Undisturbed
<1>7. \A p \in Pairs : ~Break(p)
  BY <1>3 DEF Break
<1>8. CASE UNCHANGED <<w, clean>>
  BY <1>2, <1>8 DEF Undisturbed
<1>9. Environment => StartProcess \/ UNCHANGED <<w, clean>>
  BY <1>5, <1>7 DEF Environment, UserMoves, UserReceives, UserStep
<1> QED
  BY <1>2, <1>4, <1>6, <1>8, <1>9 DEF Next, vars, observers

(* What the worker knows of its message is so, while nothing fails.        *)
LEMMA KnowsMid ==
  ASSUME TInv, Undisturbed, NEW p \in Pairs, w[p].pc \in Known,
         Here(p) \in present[SrcOf[p]] \/ w[p].pc \in {"append", "record"}
  PROVE  w[p].mid = MessageId(Message(p))
<1>1. clean[p]
  BY DEF Undisturbed, Known, Processing
<1> QED
  BY <1>1 DEF TInv, Tidy, Exact

(* What a record leaves where it wrote.                                    *)
LEMMA WrittenRow ==
  ASSUME NEW p \in Pairs, NEW status, NEW tuid, Write(p, status, tuid), NEW r \in db'
  PROVE  \/ r \in db
         \/ /\ r.box = SrcOf[p] /\ r.loc = Here(p) /\ r.status = status
            /\ \/ r.mid = w[p].mid
               \/ \E o \in RowsAt(db, SrcOf[p], Here(p)) : r.mid = o.mid
<1> DEFINE new == [box |-> SrcOf[p], loc |-> Here(p), tbox |-> p,
                   tfolder |-> TFolder(p), tuid |-> tuid,
                   mid |-> w[p].mid, fp |-> w[p].fp,
                   status |-> status, id |-> lastId + 1]
           Changed(o) == [o EXCEPT !.status = new.status, !.tuid = new.tuid,
                                   !.fp = IF new.fp # Empty THEN new.fp ELSE o.fp]
<1>1. /\ db' = record(db, new) /\ new.box = SrcOf[p] /\ new.loc = Here(p)
      /\ new.mid = w[p].mid /\ new.status = status
  BY DEF Write
<1>2. CASE r \in db \/ r = new
  BY <1>1, <1>2
<1>3. ASSUME NEW o \in RowsAt(db, new.box, new.loc), r = Changed(o)
      PROVE  /\ r.box = SrcOf[p] /\ r.loc = Here(p) /\ r.status = status /\ r.mid = o.mid
             /\ o \in RowsAt(db, SrcOf[p], Here(p))
  <2>1. o.box = SrcOf[p] /\ o.loc = Here(p)
    BY <1>1, <1>3 DEF RowsAt
  <2>2. /\ Changed(o).box = o.box /\ Changed(o).loc = o.loc /\ Changed(o).mid = o.mid
        /\ Changed(o).status = new.status
    OBVIOUS
  <2> QED
    BY <1>1, <1>3, <2>1, <2>2
<1> HIDE DEF new
<1>4. r \in db \/ r = new \/ \E o \in RowsAt(db, new.box, new.loc) : r = Changed(o)
  BY <1>1 DEF record
<1> QED
  BY <1>2, <1>3, <1>4

LEMMA HeaderGoes ==
  ASSUME SInv, NEW p \in Pairs, Header(p)
  PROVE  /\ w[p].pc = "header" /\ w'[p].pc = "check" /\ Here(p)' = Here(p)
         /\ \/ w'[p].mid = Empty
            \/ w'[p].mid = MessageId(Message(p)) /\ Readable(p)
<1>1. w[p] \in Worker /\ w[p].pc = "header" /\ w[p].mid = Empty
  BY DEF SInv, IInv, LocalsOK, Header, At, Honest, Known
<1> DEFINE read == [w[p] EXCEPT !.pc = "check", !.mid = MessageId(Message(p)),
                                !.fp = Fingerprint(Message(p))]
           blank == [w[p] EXCEPT !.pc = "check",
                                 !.fp = IF Policy = "off" THEN Empty ELSE BlankFp]
           Same(v) == v.folder = w[p].folder /\ v.uid = w[p].uid /\ v.pc = "check"
<1>2. Same(read) /\ read.mid = MessageId(Message(p)) /\ Same(blank) /\ blank.mid = Empty
  BY <1>1 DEF Worker
<1>3. (Goto(p, read) /\ Readable(p)) \/ Goto(p, blank)
  BY DEF Header
<1> HIDE DEF read, blank
<1>4. (w'[p] = read /\ Readable(p)) \/ w'[p] = blank
  BY <1>3, Going
<1>5. Same(w'[p])
  BY <1>2, <1>4
<1> QED
  BY <1>1, <1>2, <1>4, <1>5 DEF Here

LEMMA NextNamedHere ==
  ASSUME TInv, NInv, Benign, [Next]_vars, Policy = "off", faults' = faults, NEW p \in Pairs
  PROVE  NamedHere(p)'
<1> DEFINE Named0 == w'[p].mid # Empty => \A r \in RowsAt(db, SrcOf[p], Here(p)) : r.mid # Empty
<1>1. /\ SInv /\ RInv /\ Policy # "move-target" /\ w[p] \in Worker
      /\ faults \in Nat /\ \A q \in Pairs : ~Fault(q)
  BY DEF TInv, SInv, IInv, LocalsOK, RestOK, Fault
<1>2. CASE w'[p].pc \notin {"check", "fetch", "append", "record"}
  BY <1>2 DEF NamedHere
<1>3. CASE w'[p].pc \in {"check", "fetch", "append", "record"} /\ Here(p)' = Here(p) /\ Named0
  <2>1. \A r \in db' : r.box = SrcOf[p] => r \in db
    BY <1>1, <1>3, OwnRows
  <2> QED
    BY <1>3, <2>1 DEF NamedHere, RowsAt
<1>4. CASE SameMessage(w[p], w'[p]) /\ w[p].pc \in {"check", "fetch", "append", "record"}
  <2>1. Here(p)' = Here(p) /\ w'[p].mid = w[p].mid
    BY <1>4 DEF SameMessage, Here
  <2>2. Named0
    BY <1>4, <2>1 DEF NInv, NamedHere
  <2> QED
    BY <1>2, <1>3, <2>1, <2>2
<1>5. CASE AppendMessage(p)
  BY <1>1, <1>4, <1>5, AppendGoes DEF AppendMessage, At
<1>6. CASE RecordSuccess(p)
  <2>1. NextMessage(p).pc = "uid"
    BY <1>1 DEF NextMessage, Worker
  <2>2. w'[p].pc = "uid"
    BY <1>1, <1>6, <2>1, Going DEF RecordSuccess
  <2> QED
    BY <1>2, <2>2
<1>7. CASE Header(p)
  <2>1. /\ w'[p].pc = "check" /\ Here(p)' = Here(p) /\ w[p].pc \in Processing
        /\ (w'[p].mid = Empty \/ (w'[p].mid = MessageId(Message(p)) /\ Readable(p)))
    BY <1>1, <1>7, HeaderGoes DEF Processing
  <2>2. ASSUME w'[p].mid # Empty, NEW r \in RowsAt(db, SrcOf[p], Here(p)) PROVE r.mid # Empty
    <3>1. Message(p) \in HasMid /\ Here(p) \in present[SrcOf[p]]
      BY <2>1, <2>2 DEF MessageId, Readable
    <3>2. Named(r) /\ r.box = SrcOf[p] /\ r.loc = Here(p)
      BY <2>2 DEF NInv, RowsAt
    <3> QED
      BY <3>1, <3>2 DEF Named, Message
  <2> QED
    BY <1>3, <2>1, <2>2
<1>8. ~AppendUnconfirmed(p) /\ ~RecordRaises(p)
  BY <1>1 DEF AppendUnconfirmed, RecordRaises
<1>9. faults' # faults + 1
  BY <1>1
<1>10. CASE SameMessage(w[p], w'[p]) /\ w'[p].pc = w[p].pc
  BY <1>2, <1>4, <1>10
<1> QED
  BY <1>1, <1>2, <1>4, <1>5, <1>6, <1>7, <1>8, <1>9, <1>10, AnyStep

LEMMA NextNamed ==
  ASSUME TInv, NInv, Benign, [Next]_vars, Policy = "off", SInv', NEW r \in db'
  PROVE  Named(r)'
<1>1. SInv /\ RInv /\ Policy # "move-target"
  BY DEF TInv
<1>2. ASSUME r \in db PROVE Named(r)'
  <2>1. r \in Row /\ placed[r.box][r.loc] # NoMsg /\ Named(r)
    BY <1>1, <1>2 DEF SInv, IInv, TableOK, RowsOK, NInv
  <2>2. r.box \in Boxes /\ r.loc \in Loc
    BY <2>1 DEF Row
  <2> QED
    BY <1>1, <2>1, <2>2, NextStays DEF Named, Stays
<1>3. ASSUME NEW p \in Pairs, RecordSkipped(p) \/ RecordSuccess(p) \/ RecordFailed(p), r \notin db,
             r.mid = Empty, placed'[r.box][r.loc] \in HasMid
      PROVE  r.loc \notin present'[r.box] /\ r.status # "success"
  <2>1. w[p].pc \in Processing /\ w[p].pc \in Known /\ UNCHANGED source
    BY <1>3 DEF RecordSkipped, RecordSuccess, RecordFailed, At, Processing, Known
  <2>2. PICK status, tuid :
          /\ Write(p, status, tuid)
          /\ status = "success" => w[p].pc = "record"
    BY <1>3 DEF RecordSkipped, RecordSuccess, RecordFailed, At
  <2>3. /\ r.box = SrcOf[p] /\ r.loc = Here(p) /\ r.status = status
        /\ \/ r.mid = w[p].mid
           \/ \E o \in RowsAt(db, SrcOf[p], Here(p)) : r.mid = o.mid
    BY <1>3, <2>2, WrittenRow
  <2>4. Message(p) \in HasMid /\ MessageId(Message(p)) # Empty
    BY <1>3, <2>1, <2>3, MailboxSyncAssumption DEF Message, MessageId, source
  <2>5. Here(p) \in present[SrcOf[p]] \/ w[p].pc \in {"append", "record"} => w[p].mid # Empty
    BY <2>1, <2>4, KnowsMid DEF NInv
  <2>6. CASE r.mid = w[p].mid
    BY <1>3, <2>1, <2>2, <2>3, <2>5, <2>6 DEF source
  <2>7. ASSUME NEW o \in RowsAt(db, SrcOf[p], Here(p)), o.mid = Empty
        PROVE  Here(p) \notin present[SrcOf[p]] /\ status # "success"
    <3>1. Named(o) /\ o.box = SrcOf[p] /\ o.loc = Here(p)
      BY <2>7 DEF NInv, RowsAt
    <3>2. Here(p) \notin present[SrcOf[p]]
      BY <2>4, <2>7, <3>1 DEF Named, Message
    <3>3. status # "success"
      BY <2>2, <2>5, <2>7 DEF NInv, NamedHere
    <3> QED
      BY <3>2, <3>3
  <2> QED
    BY <1>3, <2>1, <2>3, <2>6, <2>7 DEF source
<1>4. CASE UNCHANGED table
  BY <1>2, <1>4 DEF table
<1> QED
  BY <1>1, <1>2, <1>3, <1>4, NextWrites DEF Named

LEMMA NextOnce ==
  ASSUME TInv, NInv, Benign, [Next]_vars, Policy = "off", FiniteCopies, \A q \in Pairs : Looked(q),
         faults' = faults, SInv', \A r \in db' : Named(r)',
         NEW p \in Pairs, NEW m \in HasMid
  PROVE  Once(p, m)'
<1> DEFINE n == Cardinality(CopiesOf(p, m))
           migrated == is_message_id_migrated(db, SrcOf[p], p, m)
<1>1. /\ SInv /\ RInv /\ Policy # "move-target" /\ IsFiniteSet(copies[p]) /\ Once(p, m)
      /\ faults \in Nat /\ \A q \in Pairs : ~Fault(q)
  BY DEF TInv, SInv, IInv, RestOK, Fault, NInv, FiniteCopies
<1>2. m \in Msgs /\ m # Empty
  BY MailboxSyncAssumption
<1>3. n \in Nat
  <2>1. CopiesOf(p, m) \in SUBSET copies[p]
    BY DEF CopiesOf
  <2>2. IsFiniteSet(CopiesOf(p, m))
    BY <1>1, <2>1, FS_Subset
  <2> QED
    BY <2>2, FS_CardinalityType
<1>4. migrated => migrated'
  BY <1>1, SuccessStays DEF is_message_id_migrated
<1>5. CASE AppendMessage(p)
  <2>1. /\ Stored(p) /\ w[p].pc = "append" /\ w[p].pc \in Processing /\ w[p].pc \in Known
        /\ w[p].pc \in Looking /\ UNCHANGED source
    BY <1>5 DEF AppendMessage, At, Processing, Known, Looking
  <2>2. /\ n' \in Nat
        /\ m = Message(p) => n' <= n + 1
        /\ m # Message(p) => n' = n
    BY <1>1, <1>2, <2>1, StoredOne
  <2>3. InFlight(p, m) = 0
    BY <2>1 DEF InFlight
  <2>4. m = Message(p) => InFlight(p, m)' = 1
    BY <1>1, <1>5, <2>1, AppendGoes, SamePlace DEF InFlight
  <2>5. m = Message(p) => ~migrated
    <3>1. SUFFICES ASSUME m = Message(p) PROVE ~migrated
      OBVIOUS
    <3>2. w[p].mid = m
      BY <2>1, <3>1, KnowsMid DEF NInv, MessageId
    <3> QED
      BY <2>1, <3>2 DEF Looked
  <2>6. n <= IF migrated THEN 1 ELSE 0
    BY <1>1, <2>3 DEF Once
  <2> HIDE DEF n, migrated
  <2>7. n' <= IF migrated' \/ InFlight(p, m)' = 1 THEN 1 ELSE 0
    BY <1>3, <1>4, <2>2, <2>4, <2>5, <2>6
  <2> USE DEF n, migrated
  <2> QED
    BY <2>7 DEF Once
<1>6. CASE ~AppendMessage(p)
  <2>1. n' = n
    <3>1. ~AppendUnconfirmed(p)
      BY <1>1 DEF AppendUnconfirmed
    <3> QED
      BY <1>1, <1>6, <3>1, OwnCopies DEF CopiesOf
  <2>2. CASE InFlight(p, m) = 1 => InFlight(p, m)' = 1 \/ migrated'
    <3>1. n <= IF migrated \/ InFlight(p, m) = 1 THEN 1 ELSE 0
      BY <1>1 DEF Once
    <3> HIDE DEF n, migrated
    <3>2. n' <= IF migrated' \/ InFlight(p, m)' = 1 THEN 1 ELSE 0
      BY <1>3, <1>4, <2>1, <2>2, <3>1
    <3> USE DEF n, migrated
    <3> QED
      BY <3>2 DEF Once
  <2>3. CASE w[p].pc # "record"
    BY <2>2, <2>3 DEF InFlight
  <2>4. CASE RecordSuccess(p) /\ Message(p) = m
    <3>1. Write(p, "success", w[p].tuid) /\ UNCHANGED source
      BY <2>4 DEF RecordSuccess
    <3>2. PICK r \in db' : r.box = SrcOf[p] /\ r.loc = Here(p) /\ r.status = "success"
      BY <3>1, Written DEF is_uid_migrated, RowsAt
    <3>3. placed'[r.box][r.loc] = m
      BY <2>4, <3>1, <3>2 DEF Message, source
    <3>4. HonestRow(r)' /\ r.tbox \in Pairs /\ Named(r)'
      BY DEF SInv, HonestRows, IInv, TableOK, Row
    <3>5. r.tbox = p /\ r.mid = m
      BY <3>2, <3>3, <3>4 DEF HonestRow, Benign, Named
    <3>6. migrated'
      BY <1>2, <3>2, <3>5 DEF is_message_id_migrated
    <3> QED
      BY <2>2, <3>6
  <2>5. CASE SameMessage(w[p], w'[p]) /\ w'[p].pc = w[p].pc
    <3>1. CASE w[p].pc = "record"
      <4>1. Message(p)' = Message(p)
        BY <1>1, <2>5, <3>1, SamePlace DEF Processing
      <4> QED
        BY <2>2, <2>5, <4>1 DEF InFlight
    <3> QED
      BY <2>3, <3>1
  <2>6. CASE Message(p) # m
    BY <2>2, <2>6 DEF InFlight
  <2>7. ~RecordRaises(p) /\ ~AppendUnconfirmed(p) /\ faults' # faults + 1
    BY <1>1 DEF RecordRaises, AppendUnconfirmed
  <2>8. Header(p) => w[p].pc # "record"
    BY DEF Header, At
  <2> QED
    BY <1>1, <1>6, <2>3, <2>4, <2>5, <2>6, <2>7, <2>8, AnyStep
<1> QED
  BY <1>5, <1>6

LEMMA NextNInv ==
  ASSUME TInv, NInv, Benign, [Next]_vars, Policy = "off", FiniteCopies, \A q \in Pairs : Looked(q),
         SInv', faults' = 0
  PROVE  NInv' /\ faults = 0
<1>1. SInv /\ Undisturbed
  BY DEF TInv, NInv
<1>2. Undisturbed' /\ faults = 0 /\ faults' = faults
  BY <1>1, NextUndisturbed
<1>3. \A r \in db' : Named(r)'
  BY NextNamed
<1> QED
  BY <1>2, <1>3, NextNamedHere, NextOnce DEF NInv
-----------------------------------------------------------------------------
(* The counts together.                                                    *)

DInv ==
  /\ TInv /\ FiniteCopies
  /\ \A p \in Pairs : Looked(p) /\ \A m \in Msgs : PerPlace(p, m)
  /\ Policy = "global-dedupe" => \A p \in Pairs, m \in Msgs : PerFingerprint(p, m)
  /\ Policy = "off" /\ faults = 0 => NInv

LEMMA InitDInv == Init => DInv
<1> SUFFICES ASSUME Init PROVE DInv
  OBVIOUS
<1>1. TInv /\ faults = 0
  BY InitTInv DEF Init
<1>2. \A p \in Pairs : copies[p] = {} /\ w[p].pc = "idle"
  BY DEF Init, IdleWorker
<1>3. FiniteCopies
  BY <1>2, FS_EmptySet DEF FiniteCopies
<1>4. \A p \in Pairs : Looked(p) /\ NamedHere(p)
  BY <1>2 DEF Looked, Looking, NamedHere
<1>5. \A p \in Pairs, m \in Msgs : Cardinality(CopiesOf(p, m)) = 0
  <2>1. \A p \in Pairs, m \in Msgs : CopiesOf(p, m) = {}
    BY <1>2 DEF CopiesOf
  <2> QED
    BY <2>1, FS_EmptySet
<1>6. ASSUME NEW p \in Pairs, NEW m \in Msgs
      PROVE  PerPlace(p, m) /\ PerFingerprint(p, m) /\ Once(p, m)
  <2>1. Done(p, m) = {}
    BY DEF Init, Done, is_uid_migrated, RowsAt
  <2>2. Cardinality(Done(p, m)) = 0 /\ InFlight(p, m) = 0 /\ Owed(p, m) = 0
    BY <1>2, <2>1, FS_EmptySet DEF InFlight, Owed
  <2>3. Keyed(p, m) \in {0, 1}
    BY DEF Keyed
  <2> QED
    BY <1>1, <1>5, <2>2, <2>3 DEF PerPlace, PerFingerprint, Once
<1>7. NInv
  BY <1>2, <1>4, <1>6, MailboxSyncAssumption DEF NInv, Undisturbed, Init
<1> QED
  BY <1>1, <1>3, <1>4, <1>6, <1>7 DEF DInv

LEMMA NextDInv ==
  ASSUME Benign, Policy # "move-target", DInv, [Next]_vars
  PROVE  DInv'
<1>1. TInv /\ SInv /\ RInv /\ FiniteCopies /\ \A p \in Pairs : Looked(p)
  BY DEF DInv, TInv
<1>2. TInv' /\ SInv'
  BY <1>1, NextTInv, NextSInv
<1>3. \A p \in Pairs : Looked(p)'
  BY <1>1, NextLooked
<1>4. FiniteCopies'
  <2>1. ASSUME NEW p \in Pairs PROVE IsFiniteSet(copies'[p])
    <3>1. CASE AppendMessage(p) \/ AppendUnconfirmed(p)
      <4>1. Stored(p) /\ w[p].pc \in Processing
        BY <3>1 DEF AppendMessage, AppendUnconfirmed, At, Processing
      <4> QED
        BY <1>1, <4>1, StoredOne, Whereabouts DEF FiniteCopies, SInv
    <3>2. CASE ~(AppendMessage(p) \/ AppendUnconfirmed(p))
      BY <1>1, <3>2, OwnCopies DEF FiniteCopies
    <3> QED
      BY <3>1, <3>2
  <2> QED
    BY <2>1 DEF FiniteCopies
<1>5. \A p \in Pairs, m \in Msgs : PerPlace(p, m)'
  BY <1>1, <1>2, NextPerPlace DEF DInv
<1>6. Policy = "global-dedupe" => \A p \in Pairs, m \in Msgs : PerFingerprint(p, m)'
  BY <1>1, <1>2, NextPerFingerprint DEF DInv
<1>7. Policy = "off" /\ faults' = 0 => NInv'
  <2> SUFFICES ASSUME Policy = "off", faults' = 0 PROVE NInv'
    OBVIOUS
  <2>1. faults = 0
    BY <1>1, FaultsGrow DEF Bounding
  <2> QED
    BY <1>1, <1>2, <2>1, NextNInv DEF DInv
<1> QED
  BY <1>2, <1>3, <1>4, <1>5, <1>6, <1>7 DEF DInv

LEMMA DInvDuplicates ==
  ASSUME DInv, Policy # "move-target" PROVE DuplicatesNeedFaults
<1>1. SUFFICES ASSUME NEW p \in Pairs, NEW m \in Msgs
               PROVE  Cardinality(CopiesOf(p, m))
                        <= faults + IF Deduplicated(m) THEN 1 ELSE Cardinality(Places(p, m))
  BY DEF DuplicatesNeedFaults
<1> DEFINE n == Cardinality(CopiesOf(p, m))
           d == Cardinality(Done(p, m))
           k == Cardinality(Places(p, m))
<1>2. faults \in Nat /\ n \in Nat
  <2>1. CopiesOf(p, m) \in SUBSET copies[p]
    BY DEF CopiesOf
  <2>2. IsFiniteSet(CopiesOf(p, m))
    BY <2>1, FS_Subset DEF DInv, FiniteCopies
  <2> QED
    BY <2>2, FS_CardinalityType DEF DInv, TInv, SInv, IInv, RestOK
<1>3. CASE Policy = "global-dedupe"
  <2>1. n + Owed(p, m) <= faults + Keyed(p, m)
    BY <1>3 DEF DInv, PerFingerprint
  <2>2. Owed(p, m) \in {0, 1} /\ Keyed(p, m) \in {0, 1}
    BY DEF Owed, Keyed
  <2>3. Deduplicated(m)
    BY <1>3 DEF Deduplicated
  <2> HIDE DEF n
  <2>4. n <= faults + 1
    BY <1>2, <2>1, <2>2
  <2> USE DEF n
  <2> QED
    BY <2>3, <2>4
<1>4. CASE Policy = "off" /\ m \in HasMid /\ faults = 0
  <2>1. Once(p, m)
    BY <1>4 DEF DInv, NInv
  <2>2. n <= 1
    <3> HIDE DEF n
    <3> QED
      BY <1>2, <2>1 DEF Once, n
  <2> QED
    BY <1>4, <2>2 DEF Deduplicated
<1>5. CASE ~Deduplicated(m)
  <2>1. n <= faults + d + InFlight(p, m)
    BY DEF DInv, PerPlace
  <2>2. /\ Done(p, m) \in SUBSET Places(p, m) /\ Places(p, m) \in SUBSET Loc
    BY DEF Done, Places
  <2>3. IsFiniteSet(Places(p, m)) /\ IsFiniteSet(Done(p, m))
    BY <2>2, LocFinite, FS_Subset
  <2>4. d \in Nat /\ k \in Nat /\ d <= k
    BY <2>2, <2>3, FS_Subset, FS_CardinalityType
  <2>5. d + InFlight(p, m) <= k
    <3>1. CASE InFlight(p, m) = 0
      BY <2>4, <3>1
    <3>2. CASE w[p].pc = "record" /\ Message(p) = m
      <4>1. PICK l \in Loc : l = Here(p)
        BY <3>2, Whereabouts DEF Processing, DInv, TInv, SInv
      <4>2. l \in Places(p, m) /\ l \notin Done(p, m)
        BY <3>2, <4>1 DEF Places, Done, Message, DInv, TInv, RInv, Unacked, Processing
      <4>3. Done(p, m) \cup {l} \in SUBSET Places(p, m)
        BY <2>2, <4>2
      <4>4. Cardinality(Done(p, m) \cup {l}) = d + 1
        BY <2>3, <4>2, FS_AddElement
      <4>5. d + 1 <= k
        BY <2>3, <4>3, <4>4, FS_Subset
      <4> QED
        BY <3>2, <4>5 DEF InFlight
    <3> QED
      BY <3>1, <3>2 DEF InFlight
  <2> HIDE DEF n, d, k
  <2>6. n <= faults + k
    BY <1>2, <2>1, <2>4, <2>5 DEF InFlight
  <2> USE DEF n, d, k
  <2> QED
    BY <1>5, <2>6
<1> QED
  BY <1>3, <1>4, <1>5 DEF Deduplicated

(* Each copy beyond one per location, or beyond the first where            *)
(* fingerprints or Message-IDs relate them, is owed to a failure.          *)
THEOREM MailboxSyncDuplicatesNeedFaults ==
  ASSUME Benign, Policy # "move-target" PROVE Spec => []DuplicatesNeedFaults
<1>1. DInv /\ [Next]_vars => DInv'
  BY NextDInv
<1>2. DInv => DuplicatesNeedFaults
  BY DInvDuplicates
<1> QED
  BY <1>1, <1>2, InitDInv, PTL DEF Spec

-----------------------------------------------------------------------------
(* What is moved on the target is the message's own copy.                  *)

(* ORDER BY id DESC LIMIT 1 has a result where there are rows.             *)
LEMMA NewestIsThere ==
  ASSUME NEW rows, IsFiniteSet(rows), rows # {}, \A r \in rows : r.id \in Nat
  PROVE  Newest(rows) \in rows
<1> DEFINE Above(r) == {s \in rows : r.id < s.id}
           all == {Above(r) : r \in rows}
<1>1. all \subseteq FiniteSubsetsOf(rows)
  BY FS_FiniteSubsetsOfFinite
<1>2. PICK least \in all : \A x \in all : <<x, least>> \notin StrictSubsetOrdering(rows)
  <2>1. all # {}
    OBVIOUS
  <2> HIDE DEF all
  <2> QED
    BY <1>1, <2>1, WFMin, FS_StrictSubsetOrderingWellFounded
<1>3. PICK r \in rows : least = Above(r)
  OBVIOUS
<1>4. ASSUME NEW s \in rows, ~(s.id <= r.id) PROVE FALSE
  <2>1. r.id < s.id
    BY <1>4
  <2>2. Above(s) \subseteq Above(r) /\ s \in Above(r) /\ s \notin Above(s)
    BY <2>1
  <2>3. <<Above(s), least>> \in StrictSubsetOrdering(rows)
    BY <1>3, <2>2 DEF StrictSubsetOrdering
  <2> QED
    BY <1>2, <2>3
<1> QED
  BY <1>4 DEF Newest

(* UIDs of the target are given once.                                      *)
Numbered(p) == \A c \in copies[p] : 0 < c.uid /\ c.uid < uidNext[p][c.folder]

(* A target UID is, or was, that of a copy of m, or of none.               *)
Slot(p, folder, uid, m) ==
  /\ uid < uidNext[p][folder]
  /\ \A c \in copies[p] : c.folder = folder /\ c.uid = uid => c.msg = m

NamesOwn(r) ==
  /\ r.tfolder = MapFolder[r.loc[1]]
  /\ Slot(r.tbox, r.tfolder, r.tuid, placed[r.box][r.loc])
KeepsOwn(p) == w[p].pc = "record" => Slot(p, TFolder(p), w[p].tuid, Message(p))

OInv ==
  /\ RInv
  /\ \A p \in Pairs : Numbered(p) /\ KeepsOwn(p)
  /\ \A r \in db : NamesOwn(r)

(* What a step does to the UIDs of a target mailbox.                       *)
Numbers(p) ==
  /\ \A f \in TFolders : uidNext[p][f] <= uidNext'[p][f]
  /\ \A c \in copies'[p] :
       \/ \E d \in copies[p] : d.folder = c.folder /\ d.uid = c.uid /\ d.msg = c.msg
       \/ c.uid = uidNext[p][c.folder] /\ c.uid < uidNext'[p][c.folder]

LEMMA SlotStays ==
  ASSUME SInv, SInv', NEW p \in Pairs, Numbers(p),
         NEW f \in TFolders, NEW u \in Nat, NEW m, Slot(p, f, u, m)
  PROVE  Slot(p, f, u, m)'
<1>1. uidNext[p][f] \in Nat /\ uidNext'[p][f] \in Nat
  BY DEF SInv, IInv, TargetOK
<1> QED
  BY <1>1 DEF Slot, Numbers

(* Where the worker is after a step.                                       *)
LEMMA HereNext ==
  ASSUME SInv', NEW p \in Pairs, w'[p].pc \in Processing
  PROVE  /\ TFolder(p)' \in TFolders /\ w'[p].tuid \in Nat
<1>1. w'[p] \in Worker /\ w'[p].folder \in Folders
  BY DEF SInv, IInv, LocalsOK, WorkersOK, Good
<1> QED
  BY <1>1, MailboxSyncAssumption DEF TFolder, Worker

LEMMA NumberedStays ==
  ASSUME SInv, SInv', NEW p \in Pairs, Numbers(p), Numbered(p)
  PROVE  Numbered(p)'
<1>1. SUFFICES ASSUME NEW c \in copies'[p] PROVE 0 < c.uid /\ c.uid < uidNext'[p][c.folder]
  BY DEF Numbered
<1>2. c.uid \in Nat /\ c.folder \in TFolders
  BY DEF SInv, IInv, TargetOK, Copy
<1>3. uidNext[p][c.folder] \in Nat \ {0} /\ uidNext'[p][c.folder] \in Nat
  BY <1>2 DEF SInv, IInv, TargetOK
<1> QED
  BY <1>2, <1>3 DEF Numbers, Numbered

LEMMA NewNumbers ==
  ASSUME SInv, NEW p \in Pairs, w[p].pc \in Processing, NEW new, NewCopies(p, new),
         \A c \in new :
           \/ \E d \in copies[p] : d.folder = c.folder /\ d.uid = c.uid /\ d.msg = c.msg
           \/ c.folder = TFolder(p) /\ c.uid = uidNext[p][TFolder(p)]
  PROVE  \A q \in Pairs : Numbers(q)
<1>1. /\ copies \in [Pairs -> SUBSET Copy] /\ uidNext \in [Pairs -> [TFolders -> Nat \ {0}]]
      /\ TFolder(p) \in TFolders
  BY Whereabouts DEF SInv, IInv, TargetOK
<1>2. /\ copies'[p] = new /\ \A q \in Pairs \ {p} : copies'[q] = copies[q]
      /\ uidNext'[p][TFolder(p)] = uidNext[p][TFolder(p)] + 1
      /\ \A f \in TFolders \ {TFolder(p)} : uidNext'[p][f] = uidNext[p][f]
      /\ \A q \in Pairs \ {p} : uidNext'[q] = uidNext[q]
  BY <1>1 DEF NewCopies
<1>3. Numbers(p)
  BY <1>1, <1>2 DEF Numbers
<1>4. ASSUME NEW q \in Pairs \ {p} PROVE Numbers(q)
  BY <1>1, <1>2 DEF Numbers
<1> QED
  BY <1>3, <1>4

LEMMA MoveNumbers ==
  ASSUME SInv, NEW p \in Pairs, MoveDone(p) \/ MoveHalfDone(p) \/ MoveUnconfirmed(p)
  PROVE  \A q \in Pairs : Numbers(q)
<1>1. w[p].pc \in Processing
  BY DEF MoveDone, MoveHalfDone, MoveUnconfirmed, Moving, At, Processing
<1>2. Moved(p) \subseteq copies[p] /\ copies[p] \in SUBSET Copy
  BY <1>1, MovedCopies
<1>3. ASSUME NEW c \in Arrived(p)
      PROVE  c.folder = TFolder(p) /\ c.uid = uidNext[p][TFolder(p)]
  <2>1. PICK d \in Moved(p) :
          c = [d EXCEPT !.folder = TFolder(p), !.uid = uidNext[p][TFolder(p)]]
    BY DEF Arrived
  <2> QED
    BY <1>2, <2>1 DEF Copy
<1>4. CASE MoveCommand(p)
  BY <1>1, <1>3, <1>4, NewNumbers DEF MoveCommand
<1>5. CASE CopyAndExpunge(p)
  BY <1>1, <1>3, <1>5, NewNumbers DEF CopyAndExpunge
<1>6. ASSUME NEW flagged \in BOOLEAN, CopyAndFlag(p, flagged)
      PROVE  \A q \in Pairs : Numbers(q)
  <2> DEFINE left == {[c EXCEPT !.del = @ \/ flagged] : c \in Moved(p)}
  <2>2. ASSUME NEW c \in left
        PROVE  \E d \in copies[p] : d.folder = c.folder /\ d.uid = c.uid /\ d.msg = c.msg
    <3>1. PICK d \in Moved(p) : c = [d EXCEPT !.del = @ \/ flagged]
      OBVIOUS
    <3> QED
      BY <1>2, <3>1 DEF Copy
  <2>3. NewCopies(p, (copies[p] \ Moved(p)) \cup left \cup Arrived(p))
    BY <1>6 DEF CopyAndFlag
  <2> HIDE DEF left
  <2> QED
    BY <1>1, <1>3, <2>2, <2>3, NewNumbers
<1> QED
  BY <1>4, <1>5, <1>6 DEF MoveDone, MoveHalfDone, MoveUnconfirmed

LEMMA StoredNumbers ==
  ASSUME SInv, NEW p \in Pairs, w[p].pc \in Processing, Stored(p)
  PROVE  /\ \A q \in Pairs : Numbers(q)
         /\ Numbered(p) => LET u == uidNext[p][TFolder(p)]
                           IN  /\ u < uidNext'[p][TFolder(p)]
                               /\ \A c \in copies'[p] :
                                    c.folder = TFolder(p) /\ c.uid = u => c.msg = Message(p)
<1> DEFINE x == [folder |-> TFolder(p), uid |-> uidNext[p][TFolder(p)], msg |-> Message(p),
                 del |-> Message(p) \in DeletedMsgs]
<1>1. NewCopies(p, copies[p] \cup {x})
  BY DEF Stored
<1>2. x.folder = TFolder(p) /\ x.uid = uidNext[p][TFolder(p)] /\ x.msg = Message(p)
  OBVIOUS
<1> HIDE DEF x
<1>3. \A q \in Pairs : Numbers(q)
  BY <1>1, <1>2, NewNumbers
<1>4. /\ copies'[p] = copies[p] \cup {x}
      /\ uidNext'[p][TFolder(p)] = uidNext[p][TFolder(p)] + 1
      /\ uidNext[p][TFolder(p)] \in Nat
  BY <1>1, Whereabouts DEF NewCopies, SInv, IInv, TargetOK
<1>5. copies[p] \subseteq Copy
  BY DEF SInv, IInv, TargetOK
<1> QED
  BY <1>2, <1>3, <1>4, <1>5 DEF Numbered, Copy

LEMMA NextNumbers ==
  ASSUME SInv, [Next]_vars
  PROVE  \A q \in Pairs : Numbers(q)
<1>1. CASE UNCHANGED target
  <2>1. \A q \in Pairs : \A f \in TFolders : uidNext[q][f] \in Nat
    BY DEF SInv, IInv, TargetOK
  <2> QED
    BY <1>1, <2>1 DEF target, Numbers
<1>2. ASSUME NEW p \in Pairs, WorkerStep(p), ~UNCHANGED target
      PROVE  \A q \in Pairs : Numbers(q)
  <2>1. \/ AppendMessage(p) \/ AppendUnconfirmed(p)
        \/ MoveDone(p) \/ MoveHalfDone(p) \/ MoveUnconfirmed(p)
    BY <1>2 DEF WorkerStep, Connect, ConnectFails, ListFolders, FinishRun, OpenFolder,
       SkipFolder, EndFolder, NextUid, Header, Check, RecordSkipped, MoveInPlace,
       MoveImpossible, MoveRefused, RelocateRow, RecordMoved, Fetch, AppendFails,
       RecordSuccess, RecordRaises, RecordFailed, StatementRaises
  <2>2. AppendMessage(p) \/ AppendUnconfirmed(p) => Stored(p) /\ w[p].pc \in Processing
    BY DEF AppendMessage, AppendUnconfirmed, At, Processing
  <2> QED
    BY <2>1, <2>2, StoredNumbers, MoveNumbers
<1>3. Environment \/ UNCHANGED vars => UNCHANGED target
  BY DEF Environment, StartProcess, Crash, Break, UserMoves, UserReceives, UserStep, vars
<1> QED
  BY <1>1, <1>2, <1>3 DEF Next

(* A worker comes to write down a copy by appending it.                    *)
LEMMA RecordArrives ==
  ASSUME SInv, [Next]_vars, NEW p \in Pairs, w'[p].pc = "record"
  PROVE  \/ AppendMessage(p)
         \/ /\ w[p].pc = "record" /\ w'[p].tuid = w[p].tuid
            /\ w'[p].folder = w[p].folder /\ w'[p].uid = w[p].uid
<1>1. w[p] \in Worker
  BY DEF SInv, IInv, LocalsOK
<1>2. CASE w'[p] = w[p]
  BY <1>2
<1>3. CASE StartProcess \/ Crash
  <2>1. w'[p] \in {IdleWorker, [IdleWorker EXCEPT !.pc = "queued"]}
    BY <1>3 DEF StartProcess, Crash
  <2> QED
    BY <2>1 DEF IdleWorker
<1>4. ASSUME NEW q \in Pairs, Break(q)
      PROVE  /\ w'[p].pc = w[p].pc /\ w'[p].tuid = w[p].tuid
             /\ w'[p].folder = w[p].folder /\ w'[p].uid = w[p].uid
  <2>1. PICK v \in {[w[q] EXCEPT !.src = FALSE], [w[q] EXCEPT !.tgt = FALSE]} : Goto(q, v)
    BY <1>4 DEF Break
  <2>2. /\ v.pc = w[q].pc /\ v.tuid = w[q].tuid /\ v.folder = w[q].folder /\ v.uid = w[q].uid
    <3>1. w[q] \in Worker
      BY DEF SInv, IInv, LocalsOK
    <3> QED
      BY <3>1 DEF Worker
  <2> QED
    BY <2>1, <2>2, Going
<1>5. ASSUME NEW q \in Pairs \ {p}, WorkerStep(q) PROVE w'[p] = w[p]
  BY <1>5, WorkerGoes, Going
<1>6. CASE WorkerStep(p) /\ ~AppendMessage(p)
  <2>1. CASE \/ Fetch(p) \/ AppendFails(p) \/ AppendUnconfirmed(p) \/ RecordRaises(p)
             \/ MoveDone(p) \/ MoveRefused(p) \/ MoveHalfDone(p) \/ MoveUnconfirmed(p)
    <3>1. PICK n : \/ Goto(p, [w[p] EXCEPT !.pc = "append"]) \/ Goto(p, Attempt(p, n))
                   \/ Goto(p, [w[p] EXCEPT !.pc = "relocate"])
                   \/ Goto(p, [Attempt(p, n) EXCEPT !.tgt = FALSE])
      BY <2>1 DEF Fetch, AppendFails, AppendUnconfirmed, RecordRaises, MoveDone, MoveRefused,
                  MoveHalfDone, MoveUnconfirmed
    <3>2. /\ [w[p] EXCEPT !.pc = "append"].pc = "append"
          /\ [w[p] EXCEPT !.pc = "relocate"].pc = "relocate"
          /\ Attempt(p, n).pc \in {"fetch", "fail"}
          /\ [Attempt(p, n) EXCEPT !.tgt = FALSE].pc \in {"fetch", "fail"}
      BY <1>1, SamePc, SameAttempt
    <3> QED
      BY <3>1, <3>2, Going
  <2>2. CASE MoveInPlace(p) \/ MoveImpossible(p) \/ RelocateRow(p)
    <3>1. \/ Goto(p, IdleWorker) \/ Goto(p, Attempt(p, 1))
          \/ Goto(p, [w[p] EXCEPT !.pc = "moved"])
      BY <2>2 DEF MoveInPlace, MoveImpossible, RelocateRow, Relocate, WorkerFails
    <3>2. /\ IdleWorker.pc = "idle" /\ Attempt(p, 1).pc \in {"fetch", "fail"}
          /\ [w[p] EXCEPT !.pc = "moved"].pc = "moved"
      BY <1>1, SamePc, SameAttempt DEF IdleWorker
    <3> QED
      BY <3>1, <3>2, Going
  <2>3. CASE RecordSkipped(p) \/ RecordSuccess(p) \/ RecordFailed(p) \/ RecordMoved(p)
    <3>1. \/ Goto(p, NextMessage(p)) \/ Goto(p, [NextMessage(p) EXCEPT !.failed = TRUE])
      BY <2>3 DEF RecordSkipped, RecordSuccess, RecordFailed, RecordMoved
    <3>2. NextMessage(p).pc = "uid" /\ [NextMessage(p) EXCEPT !.failed = TRUE].pc = "uid"
      BY <1>1 DEF NextMessage, Worker
    <3> QED
      BY <3>1, <3>2, Going
  <2>4. CASE Header(p)
    BY <2>4, HeaderGoes
  <2>5. CASE Check(p)
    <3>1. \/ Goto(p, [w[p] EXCEPT !.pc = "skip"]) \/ Goto(p, [w[p] EXCEPT !.pc = "move"])
          \/ Goto(p, Attempt(p, 1))
      BY <2>5 DEF Check
    <3>2. /\ [w[p] EXCEPT !.pc = "skip"].pc = "skip" /\ [w[p] EXCEPT !.pc = "move"].pc = "move"
          /\ Attempt(p, 1).pc \in {"fetch", "fail"}
      BY <1>1, SamePc, SameAttempt
    <3> QED
      BY <3>1, <3>2, Going
  <2>6. ASSUME NEW u \in Uids, NextUid(p, u) PROVE w'[p].pc \in {"uid", "header"}
    <3> DEFINE next == [w[p] EXCEPT !.uids = @ \ {u}]
               look == [w[p] EXCEPT !.uids = @ \ {u}, !.pc = "header", !.uid = u]
    <3>1. next.pc = w[p].pc /\ look.pc = "header"
      BY <1>1 DEF Worker
    <3>2. Goto(p, next) \/ Goto(p, look)
      BY <2>6 DEF NextUid
    <3> HIDE DEF next, look
    <3> QED
      BY <2>6, <3>1, <3>2, Going DEF NextUid, At
  <2>7. CASE \/ Connect(p) \/ ConnectFails(p) \/ ListFolders(p) \/ FinishRun(p)
             \/ \E f \in Folders : OpenFolder(p, f) \/ SkipFolder(p, f)
             \/ EndFolder(p) \/ StatementRaises(p)
    BY <2>7, FrameLocals DEF Processing
  <2> QED
    BY <1>6, <2>1, <2>2, <2>3, <2>4, <2>5, <2>6, <2>7 DEF WorkerStep
<1>7. Environment \/ UNCHANGED vars
        => StartProcess \/ Crash \/ (\E q \in Pairs : Break(q)) \/ w'[p] = w[p]
  BY DEF Environment, UserMoves, UserReceives, UserStep, vars
<1> QED
  BY <1>2, <1>3, <1>4, <1>5, <1>6, <1>7 DEF Next

LEMMA NextKeepsOwn ==
  ASSUME OInv, SInv', [Next]_vars, NEW p \in Pairs
  PROVE  KeepsOwn(p)'
<1>1. SUFFICES ASSUME w'[p].pc = "record"
               PROVE  Slot(p, TFolder(p), w[p].tuid, Message(p))'
  BY DEF KeepsOwn
<1>2. SInv /\ Numbered(p)
  BY DEF OInv, RInv
<1>3. /\ TFolder(p)' \in TFolders /\ w'[p].tuid \in Nat
  <2>1. w'[p].pc \in Processing
    BY <1>1 DEF Processing
  <2> QED
    BY <2>1, HereNext
<1>4. CASE AppendMessage(p)
  <2>1. w[p].pc \in Processing /\ Stored(p) /\ UNCHANGED source /\ w[p] \in Worker
    BY <1>2, <1>4 DEF AppendMessage, At, Processing, SInv, IInv, LocalsOK
  <2> DEFINE u == IF AppendUid THEN uidNext[p][TFolder(p)] ELSE NoTuid
             v == [w[p] EXCEPT !.pc = "record", !.tuid = u]
  <2>2. Goto(p, v)
    BY <1>4 DEF AppendMessage
  <2>3. v.folder = w[p].folder /\ v.uid = w[p].uid /\ v.tuid = u
    <3> HIDE DEF u
    <3> QED
      BY <2>1 DEF Worker
  <2> HIDE DEF v
  <2>4. /\ TFolder(p)' = TFolder(p) /\ Message(p)' = Message(p) /\ w'[p].tuid = u
    BY <1>2, <2>1, <2>2, <2>3, Going DEF TFolder, Message, Here, source
  <2>5. CASE AppendUid
    BY <1>2, <2>1, <2>4, <2>5, StoredNumbers DEF Slot
  <2>6. CASE ~AppendUid
    <3>1. Numbered(p)'
      BY <1>2, <2>1, StoredNumbers, NumberedStays
    <3>2. uidNext'[p][TFolder(p)] \in Nat \ {0} /\ copies'[p] \subseteq Copy
      BY <1>3, <2>4 DEF SInv, IInv, TargetOK
    <3> QED
      BY <2>4, <2>6, <3>1, <3>2 DEF Slot, Numbered, NoTuid, Copy
  <2> QED
    BY <2>5, <2>6
<1>5. CASE /\ w[p].pc = "record" /\ w'[p].tuid = w[p].tuid
           /\ w'[p].folder = w[p].folder /\ w'[p].uid = w[p].uid
  <2>1. TFolder(p)' = TFolder(p) /\ Here(p)' = Here(p) /\ w[p].pc \in Processing
    BY <1>5 DEF TFolder, Here, Processing
  <2>2. Message(p)' = Message(p)
    BY <1>2, <2>1, Whereabouts, NextStays DEF Message, Stays, SInv
  <2>3. Slot(p, TFolder(p), w[p].tuid, Message(p))
    BY <1>5 DEF OInv, KeepsOwn
  <2>4. Numbers(p)
    BY <1>2, NextNumbers
  <2>5. PICK f \in TFolders, u \in Nat : f = TFolder(p) /\ u = w[p].tuid
    BY <1>3, <1>5, <2>1
  <2>6. PICK m : m = Message(p)
    OBVIOUS
  <2>7. Slot(p, f, u, m)'
    BY <1>2, <2>3, <2>4, <2>5, <2>6, SlotStays
  <2> QED
    BY <1>5, <2>1, <2>2, <2>5, <2>6, <2>7 DEF Slot
<1> QED
  BY <1>1, <1>2, <1>4, <1>5, RecordArrives

LEMMA NoSlot ==
  ASSUME SInv, NEW p \in Pairs, Numbered(p), NEW f \in TFolders, NEW m
  PROVE  Slot(p, f, NoTuid, m)
<1>1. uidNext[p][f] \in Nat \ {0} /\ copies[p] \subseteq Copy
  BY DEF SInv, IInv, TargetOK
<1> QED
  BY <1>1 DEF Slot, Numbered, NoTuid, Copy

(* What a row relates the message to, under move-target.                   *)
LEMMA RelocatedOwn ==
  ASSUME RInv, Benign, NEW p \in Pairs, w[p].pc \in {"move", "relocate"},
         NEW o \in Relocated(db, SrcOf[p], w[p].fp)
  PROVE  /\ o \in db /\ o \in Row /\ o.box = SrcOf[p] /\ o.tbox = p
         /\ placed[o.box][o.loc] = Message(p)
<1>1. w[p].fp = Message(p) /\ w[p].fp # Empty /\ w[p].fp # BlankFp
  BY MoveFingerprint DEF RInv
<1>2. o \in db /\ o \in Row /\ o.box = SrcOf[p] /\ o.fp = Message(p)
  BY <1>1 DEF Relocated, RInv, KeyOK
<1>3. HonestRow(o)
  BY <1>2 DEF RInv, SInv, HonestRows
<1> QED
  BY <1>1, <1>2, <1>3 DEF HonestRow, Row, Benign

LEMMA OldIsThere ==
  ASSUME RInv, NEW p \in Pairs, Existing(p) # {}
  PROVE  Old(p) \in Existing(p) /\ Old(p) \in Relocated(db, SrcOf[p], w[p].fp)
<1>1. Existing(p) \subseteq db /\ Existing(p) \subseteq Relocated(db, SrcOf[p], w[p].fp)
  BY DEF Existing, ByFingerprint, Relocated
<1>2. IsFiniteSet(Existing(p)) /\ \A r \in Existing(p) : r.id \in Nat
  BY <1>1, FS_Subset DEF RInv, KeyOK, Row
<1> QED
  BY <1>1, <1>2, NewestIsThere DEF Old

(* What is written into the table names own copies.                        *)
LEMMA WritesOwn ==
  ASSUME OInv, Benign, NEW p \in Pairs, w[p].pc \in Processing, NEW status \in RowStatus,
         NEW tuid \in {NoTuid, w[p].tuid}, tuid = NoTuid \/ w[p].pc = "record",
         Write(p, status, tuid), NEW r \in db'
  PROVE  NamesOwn(r)
<1> DEFINE new == [box |-> SrcOf[p], loc |-> Here(p), tbox |-> p,
                   tfolder |-> TFolder(p), tuid |-> tuid,
                   mid |-> w[p].mid, fp |-> w[p].fp,
                   status |-> status, id |-> lastId + 1]
<1>1. /\ SInv /\ IInv /\ db \in SUBSET Row /\ lastId \in Nat
      /\ \A o \in db : NamesOwn(o) /\ HonestRow(o)
      /\ Numbered(p) /\ KeepsOwn(p)
  BY DEF OInv, RInv, SInv, IInv, TableOK, HonestRows
<1>2. /\ SrcOf[p] \in Boxes /\ Here(p) \in Loc /\ TFolder(p) \in TFolders
      /\ w[p].tuid \in Nat /\ TFolder(p) = MapFolder[Here(p)[1]]
  BY <1>1, Whereabouts DEF Here, TFolder
<1>3. new \in Row
  BY <1>1, <1>2, Whereabouts DEF Row, NoTuid
<1>4. Slot(p, TFolder(p), tuid, Message(p))
  BY <1>1, <1>2, NoSlot DEF KeepsOwn
<1>5. NamesOwn(new)
  BY <1>2, <1>4 DEF NamesOwn, Message
<1>6. /\ new.box = SrcOf[p] /\ new.loc = Here(p) /\ new.tuid = tuid
      /\ db' = record(db, new)
  BY DEF Write
<1> HIDE DEF new
<1>7. ASSUME NEW o \in RowsAt(db, new.box, new.loc),
             r.box = o.box, r.loc = o.loc, r.tbox = o.tbox, r.tfolder = o.tfolder, r.tuid = tuid
      PROVE  NamesOwn(r)
  <2>1. o \in db /\ o \in Row /\ o.box = SrcOf[p] /\ o.loc = Here(p)
    BY <1>1, <1>6, <1>7 DEF RowsAt
  <2>2. o.tbox = p
    BY <1>1, <2>1 DEF HonestRow, Row, Benign
  <2>3. o.tfolder = TFolder(p)
    BY <1>1, <1>2, <2>1 DEF NamesOwn
  <2> QED
    BY <1>2, <1>4, <1>7, <2>1, <2>2, <2>3 DEF NamesOwn, Message
<1> QED
  BY <1>1, <1>3, <1>5, <1>6, <1>7, RecordRows

LEMMA RelocatesOwn ==
  ASSUME OInv, Benign, NEW p \in Pairs, w[p].pc \in {"move", "relocate"},
         NEW tfolder \in {TFolder(p), Empty}, NEW next, Relocate(p, tfolder, next),
         tfolder = Empty => Existing(p) # {} /\ Old(p).tfolder = TFolder(p),
         NEW r \in db'
  PROVE  NamesOwn(r)
<1>1. /\ RInv /\ SInv /\ IInv /\ db \in SUBSET Row /\ KeyOK(db)
      /\ \A o \in db : NamesOwn(o)
      /\ Numbered(p)
  BY DEF OInv, RInv, SInv, IInv, TableOK
<1>2. /\ SrcOf[p] \in Boxes /\ Here(p) \in Loc /\ TFolder(p) \in TFolders
      /\ TFolder(p) = MapFolder[Here(p)[1]] /\ w[p].pc \in Processing
  BY <1>1, Whereabouts DEF Here, TFolder, Processing
<1>3. CASE RelocationConflicts(db, SrcOf[p], w[p].fp, Here(p))
  BY <1>1, <1>3 DEF Relocate
<1>4. CASE ~RelocationConflicts(db, SrcOf[p], w[p].fp, Here(p)) /\ r \notin db
  <2> DEFINE hit == Relocated(db, SrcOf[p], w[p].fp)
  <2>1. db' = update_fingerprint_location(db, SrcOf[p], w[p].fp, Here(p), tfolder)
    BY <1>4 DEF Relocate
  <2>2. PICK o \in hit :
          /\ r.loc = Here(p) /\ r.box = o.box /\ r.tbox = o.tbox
          /\ IF tfolder = Empty THEN r.tfolder = o.tfolder /\ r.tuid = o.tuid
                                ELSE r.tfolder = tfolder /\ r.tuid = NoTuid
    BY <1>1, <1>2, <1>4, <2>1, RelocatedRows
  <2>3. /\ o \in db /\ o \in Row /\ o.box = SrcOf[p] /\ o.tbox = p
        /\ placed[o.box][o.loc] = Message(p)
    BY <1>1, <2>2, RelocatedOwn
  <2>4. CASE tfolder = Empty
    <3>1. Old(p) \in hit
      BY <1>1, <2>4, OldIsThere
    <3>2. IsFiniteSet(hit) /\ ~(Cardinality(hit) > 1)
      BY <1>1, <1>4, FS_Subset DEF RelocationConflicts, Relocated, KeyOK
    <3>3. o = Old(p)
      <4>1. {o, Old(p)} \subseteq hit
        BY <3>1
      <4>2. Cardinality({o, Old(p)}) <= Cardinality(hit) /\ IsFiniteSet({o, Old(p)})
        BY <3>2, <4>1, FS_Subset
      <4>3. o # Old(p) => Cardinality({o, Old(p)}) = 2
        <5>1. IsFiniteSet({o}) /\ Cardinality({o}) = 1
          BY FS_Singleton
        <5>2. ASSUME o # Old(p)
              PROVE  Cardinality({o} \cup {Old(p)}) = Cardinality({o}) + 1
          BY <5>1, <5>2, FS_AddElement
        <5>3. {o} \cup {Old(p)} = {o, Old(p)}
          OBVIOUS
        <5> QED
          BY <5>1, <5>2, <5>3
      <4>4. Cardinality(hit) \in Nat
        BY <3>2, FS_CardinalityType
      <4> QED
        BY <3>2, <4>2, <4>3, <4>4
    <3> QED
      BY <1>1, <1>2, <2>2, <2>3, <2>4, <3>3 DEF NamesOwn, Message
  <2>5. CASE tfolder # Empty
    <3>1. Slot(p, TFolder(p), NoTuid, Message(p))
      BY <1>1, <1>2, NoSlot
    <3> QED
      BY <1>2, <2>2, <2>3, <2>5, <3>1 DEF NamesOwn, Message
  <2> QED
    BY <2>4, <2>5
<1> QED
  BY <1>1, <1>3, <1>4

(* Who writes the table, and what.                                         *)
LEMMA NextTable ==
  ASSUME RInv, Benign, [Next]_vars
  PROVE  \/ UNCHANGED table
         \/ \E p \in Pairs :
              /\ UNCHANGED <<source, target>> /\ w[p].pc \in Processing
              /\ \/ \E status \in RowStatus, tuid \in {NoTuid, w[p].tuid} :
                      Write(p, status, tuid) /\ (tuid = NoTuid \/ w[p].pc = "record")
                 \/ /\ w[p].pc \in {"move", "relocate"}
                    /\ \E tfolder \in {TFolder(p), Empty} : \E next :
                         /\ Relocate(p, tfolder, next)
                         /\ tfolder = Empty => Existing(p) # {} /\ Old(p).tfolder = TFolder(p)
<1>1. ASSUME NEW p \in Pairs,
             RecordSkipped(p) \/ RecordSuccess(p) \/ RecordFailed(p) \/ RecordMoved(p)
      PROVE  /\ UNCHANGED <<source, target>> /\ w[p].pc \in Processing
             /\ \E status \in RowStatus, tuid \in {NoTuid, w[p].tuid} :
                  Write(p, status, tuid) /\ (tuid = NoTuid \/ w[p].pc = "record")
  BY <1>1 DEF RecordSkipped, RecordSuccess, RecordFailed, RecordMoved, At, Processing, RowStatus
<1>2. ASSUME NEW p \in Pairs, MoveInPlace(p) \/ RelocateRow(p)
      PROVE  /\ UNCHANGED <<source, target>> /\ w[p].pc \in Processing
             /\ w[p].pc \in {"move", "relocate"}
             /\ \E tfolder \in {TFolder(p), Empty} : \E next :
                  /\ Relocate(p, tfolder, next)
                  /\ tfolder = Empty => Existing(p) # {} /\ Old(p).tfolder = TFolder(p)
  <2>1. TFolder(p) # Empty
    <3>1. w[p].pc \in Processing
      BY <1>2 DEF MoveInPlace, RelocateRow, At, Processing
    <3> QED
      BY <3>1, Whereabouts, MailboxSyncAssumption DEF RInv, SInv
  <2> QED
    BY <1>2, <2>1 DEF MoveInPlace, RelocateRow, At, Processing
<1>3. ASSUME NEW p \in Pairs, MoveImpossible(p)
      PROVE  UNCHANGED table
  <2>1. allow
    <3>1. w[p].pc = "move"
      BY <1>3 DEF MoveImpossible, At
    <3> QED
      BY <3>1, MoveFingerprint DEF RInv, MovesAllowed
  <2> QED
    BY <1>3, <2>1 DEF MoveImpossible
<1>4. ASSUME NEW p \in Pairs, WorkerStep(p),
             ~(RecordSkipped(p) \/ RecordSuccess(p) \/ RecordFailed(p) \/ RecordMoved(p)),
             ~(MoveInPlace(p) \/ RelocateRow(p)), ~MoveImpossible(p)
      PROVE  UNCHANGED table
  BY <1>4 DEF WorkerStep, Connect, ConnectFails, ListFolders, FinishRun, OpenFolder,
     SkipFolder, EndFolder, NextUid, Header, Check, Moving, MoveDone, MoveRefused,
     MoveHalfDone, MoveUnconfirmed, Fetch, AppendMessage, AppendFails, AppendUnconfirmed,
     RecordRaises, StatementRaises
<1>5. Environment \/ UNCHANGED vars => UNCHANGED table
  BY DEF Environment, StartProcess, Crash, Break, UserMoves, UserReceives, UserStep, vars
<1> QED
  BY <1>1, <1>2, <1>3, <1>4, <1>5 DEF Next

LEMMA NextNamesOwn ==
  ASSUME OInv, Benign, [Next]_vars, NEW r \in db'
  PROVE  NamesOwn(r)'
<1>1. RInv /\ SInv
  BY DEF OInv, RInv
<1>2. CASE UNCHANGED table
  <2>1. r \in db /\ r \in Row /\ NamesOwn(r) /\ placed[r.box][r.loc] # NoMsg
    BY <1>1, <1>2 DEF table, OInv, SInv, IInv, TableOK, RowsOK
  <2>2. /\ r.box \in Boxes /\ r.loc \in Loc /\ r.tbox \in Pairs
        /\ r.tfolder \in TFolders /\ r.tuid \in Nat
    BY <2>1 DEF Row
  <2>3. placed'[r.box][r.loc] = placed[r.box][r.loc]
    BY <1>1, <2>1, <2>2, NextStays DEF Stays
  <2>4. PICK m : m = placed[r.box][r.loc]
    OBVIOUS
  <2>5. Slot(r.tbox, r.tfolder, r.tuid, m)
    BY <2>1, <2>4 DEF NamesOwn
  <2>6. SInv' /\ Numbers(r.tbox)
    BY <1>1, <2>2, NextNumbers, NextSInv
  <2>7. Slot(r.tbox, r.tfolder, r.tuid, m)'
    BY <1>1, <2>2, <2>5, <2>6, SlotStays
  <2> QED
    BY <2>1, <2>3, <2>4, <2>7 DEF NamesOwn, Slot
<1>3. ASSUME NEW p \in Pairs, UNCHANGED <<source, target>>, w[p].pc \in Processing,
             NEW status \in RowStatus, NEW tuid \in {NoTuid, w[p].tuid},
             Write(p, status, tuid), tuid = NoTuid \/ w[p].pc = "record"
      PROVE  NamesOwn(r)'
  <2>1. NamesOwn(r)
    BY <1>3, WritesOwn
  <2> QED
    BY <1>3, <2>1 DEF NamesOwn, Slot, source, target
<1>4. ASSUME NEW p \in Pairs, UNCHANGED <<source, target>>, w[p].pc \in {"move", "relocate"},
             NEW tfolder \in {TFolder(p), Empty}, NEW next, Relocate(p, tfolder, next),
             tfolder = Empty => Existing(p) # {} /\ Old(p).tfolder = TFolder(p)
      PROVE  NamesOwn(r)'
  <2>1. NamesOwn(r)
    BY <1>4, RelocatesOwn
  <2> QED
    BY <1>4, <2>1 DEF NamesOwn, Slot, source, target
<1> QED
  BY <1>1, <1>2, <1>3, <1>4, NextTable

LEMMA InitOInv == Init => OInv
<1> SUFFICES ASSUME Init PROVE OInv
  OBVIOUS
<1>1. RInv
  BY InitRInv
<1>2. \A p \in Pairs : Numbered(p) /\ KeepsOwn(p)
  BY DEF Init, Numbered, KeepsOwn, IdleWorker
<1>3. db = {}
  BY DEF Init
<1> QED
  BY <1>1, <1>2, <1>3 DEF OInv

LEMMA NextOInv == ASSUME Benign, MayMove, OInv, [Next]_vars PROVE OInv'
<1>1. RInv /\ SInv /\ RInv' /\ SInv'
  BY NextRInv DEF OInv, RInv
<1>2. \A p \in Pairs : Numbered(p)'
  BY <1>1, NextNumbers, NumberedStays DEF OInv
<1>3. \A p \in Pairs : KeepsOwn(p)'
  BY <1>1, NextKeepsOwn
<1>4. \A r \in db' : NamesOwn(r)'
  BY NextNamesOwn
<1> QED
  BY <1>1, <1>2, <1>3, <1>4 DEF OInv

LEMMA OInvMoves == ASSUME Benign, OInv PROVE MovesOwnCopy
<1>1. SUFFICES ASSUME NEW p \in Pairs, w[p].pc = "move", Existing(p) # {}, NEW c \in Moved(p)
               PROVE  c.msg = Message(p)
  BY DEF MovesOwnCopy, At
<1>2. Old(p) \in Relocated(db, SrcOf[p], w[p].fp)
  BY <1>1, OldIsThere DEF OInv
<1>3. /\ Old(p) \in db /\ Old(p).tbox = p
      /\ placed[Old(p).box][Old(p).loc] = Message(p)
  BY <1>1, <1>2, RelocatedOwn DEF OInv
<1>4. NamesOwn(Old(p))
  BY <1>3 DEF OInv
<1> QED
  BY <1>1, <1>3, <1>4 DEF NamesOwn, Slot, Moved

(* UID MOVE, and COPY with EXPUNGE, take a copy of the message the worker  *)
(* is at and of no other: no row, however often it was relocated, and      *)
(* whatever failed, names the UID of another message's copy.               *)
THEOREM MailboxSyncMovesOwnCopy ==
  ASSUME Benign, MayMove PROVE Spec => []MovesOwnCopy
<1>1. Init => OInv
  BY InitOInv
<1>2. OInv /\ [Next]_vars => OInv'
  BY NextOInv
<1>3. OInv => MovesOwnCopy
  BY OInvMoves
<1> QED
  BY <1>1, <1>2, <1>3, PTL DEF Spec
=============================================================================
