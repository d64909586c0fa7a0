------------------------------- MODULE StateDB -------------------------------
(***************************************************************************)
(* The statements of src/state_db.py, as operators on the contents of its  *)
(* two tables.                                                             *)
(*                                                                         *)
(* migrated_messages is a set of rows.  The columns kept are those a       *)
(* statement selects by or a caller reads:                                 *)
(*    box, loc       source_mailbox and <<source_folder, source_uid>>:     *)
(*                   together the UNIQUE key of the table                  *)
(*    tbox, tfolder  target_mailbox, target_folder                         *)
(*    tuid           target_uid, 0 for NULL                                *)
(*    mid, fp        message_id and message_fingerprint, "" when empty     *)
(*    status, id     the row's status and its AUTOINCREMENT id             *)
(* job_status is a function from source mailboxes to the status column,    *)
(* "none" where the mailbox has no row.                                    *)
(***************************************************************************)
EXTENDS Naturals, FiniteSets

NoTuid == 0
Empty == ""

RowStatus == {"success", "skipped", "failed"}
JobStatus == {"none", "pending", "running", "completed", "failed"}

-----------------------------------------------------------------------------
(* Reads.                                                                  *)

RowsAt(rows, box, loc) == {r \in rows : r.box = box /\ r.loc = loc}

(* Mutant: the folder is left out of the WHERE clause.                     *)
UidOfAnyFolder(rows, box, loc) ==
  \E r \in rows : r.box = box /\ r.loc[2] = loc[2] /\ r.status = "success"

is_uid_migrated(rows, box, loc) ==
  \E r \in RowsAt(rows, box, loc) : r.status = "success"

(* Mutant: AND status='success' is forgotten.                              *)
MessageIdOfAnyStatus(rows, box, tbox, mid) ==
  mid # Empty /\ \E r \in rows : r.box = box /\ r.tbox = tbox /\ r.mid = mid

is_message_id_migrated(rows, box, tbox, mid) ==
  /\ mid # Empty
  /\ \E r \in rows : /\ r.box = box /\ r.tbox = tbox
                     /\ r.mid = mid
                     /\ r.status = "success"

(* Mutant: AND status='success' is forgotten.                              *)
FingerprintOfAnyStatus(rows, box, tbox, fp) ==
  {r \in rows : r.box = box /\ r.tbox = tbox /\ r.fp = fp}

ByFingerprint(rows, box, tbox, fp) ==
  {r \in rows : /\ r.box = box /\ r.tbox = tbox
                /\ fp # Empty /\ r.fp = fp
                /\ r.status = "success"}

(* ORDER BY id DESC LIMIT 1, of a non-empty result.                        *)
Newest(rows) == CHOOSE r \in rows : \A s \in rows : s.id <= r.id

-----------------------------------------------------------------------------
(* Writes.                                                                 *)

(* INSERT ... ON CONFLICT DO UPDATE: a row that exists keeps its target    *)
(* mailbox, target folder, Message-ID and id.                              *)
record(rows, new) ==
  LET old == RowsAt(rows, new.box, new.loc)
  IN  IF old = {}
        THEN rows \cup {new}
        ELSE (rows \ old)
               \cup {[r EXCEPT !.status = new.status,
                               !.tuid   = new.tuid,
                               !.fp     = IF new.fp # Empty THEN new.fp ELSE @] :
                       r \in old}

(* The rows update_fingerprint_location rewrites: it does not look at the  *)
(* target mailbox.                                                         *)
Relocated(rows, box, fp) ==
  {r \in rows : r.box = box /\ r.fp = fp /\ r.status = "success"}

(* The UPDATE would give two rows the same key: sqlite3.IntegrityError.    *)
RelocationConflicts(rows, box, fp, loc) ==
  LET hit == Relocated(rows, box, fp)
  IN  \/ Cardinality(hit) > 1
      \/ hit # {} /\ RowsAt(rows, box, loc) \ hit # {}

(* newTFolder is Empty when the caller passes none; otherwise target_uid   *)
(* is overwritten with NULL, new_target_uid's default.                     *)
update_fingerprint_location(rows, box, fp, loc, newTFolder) ==
  LET hit == Relocated(rows, box, fp)
  IN  (rows \ hit)
        \cup {IF newTFolder = Empty
                THEN [r EXCEPT !.loc = loc]
                ELSE [r EXCEPT !.loc = loc, !.tfolder = newTFolder, !.tuid = NoTuid] :
                r \in hit}

-----------------------------------------------------------------------------
(* job_status.                                                             *)

init_job(jobs, boxes) ==
  [b \in DOMAIN jobs |->
     IF b \in boxes /\ jobs[b] = "none" THEN "pending" ELSE jobs[b]]

mark(jobs, box, status) ==
  [jobs EXCEPT ![box] = IF @ = "none" THEN @ ELSE status]

mark_running(jobs, box)   == mark(jobs, box, "running")
(* Mutant: the status of the statistics is stored as it is.                *)
mark_partial(jobs, box) == mark(jobs, box, "partial")

mark_completed(jobs, box) == mark(jobs, box, "completed")
mark_failed(jobs, box)    == mark(jobs, box, "failed")

is_mailbox_completed(jobs, box) == jobs[box] = "completed"
=============================================================================
