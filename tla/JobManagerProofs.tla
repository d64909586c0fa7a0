-------------------------- MODULE JobManagerProofs --------------------------
(***************************************************************************)
(* One engine at a time, for any number of jobs, and a page that calls no  *)
(* job done that is in the engine, for any number of requests under way.   *)
(***************************************************************************)
EXTENDS Dashboard, TLAPS

(* A job that was accepted and has not finished owns the state.            *)
Owner ==
  \A j \in Jobs :
    pc[j] \in {"accepted", "setup", "opened", "run"}
      => state.job = j /\ state.status = "running"

IInv == TypeOK /\ Owner

LEMMA InitIInv == Init => IInv
  BY JobManagerAssumption DEF Init, IInv, TypeOK, Owner, Pc, Status

(* Every step keeps the types and the ownership: a job is only accepted    *)
(* when none owns the state.                                               *)
LEMMA NextIInv == IInv /\ [Next]_vars => IInv'
<1> SUFFICES ASSUME IInv, [Next]_vars PROVE IInv'
  OBVIOUS
<1> USE JobManagerAssumption DEF IInv, TypeOK, Owner, Pc, Status, At, Goto
<1>1. ASSUME NEW j \in Jobs, Accept(j) PROVE IInv'
  BY <1>1 DEF Accept
<1>2. ASSUME NEW j \in Jobs, Spawn(j) PROVE IInv'
  BY <1>2 DEF Spawn
<1>3. ASSUME NEW j \in Jobs, Setup(j) PROVE IInv'
  BY <1>3 DEF Setup
<1>4. ASSUME NEW j \in Jobs, SetMigrator(j) PROVE IInv'
  BY <1>4 DEF SetMigrator
<1>5. ASSUME NEW j \in Jobs, Finish(j) PROVE IInv'
  BY <1>5 DEF Finish
<1>6. ASSUME NEW j \in Jobs, ClearMigrator(j) PROVE IInv'
  BY <1>6 DEF ClearMigrator
<1>7. CASE UNCHANGED vars
  BY <1>7 DEF vars
<1> QED
  BY <1>1, <1>2, <1>3, <1>4, <1>5, <1>6, <1>7 DEF Next, JobStep

THEOREM JobManagerInvariant == Spec => []IInv
  BY InitIInv, NextIInv, PTL DEF Spec

(* However many jobs are asked for, and whatever fails in them, never two  *)
(* are in the engine at once.                                              *)
THEOREM OneEngineAtATime == Spec => []OneEngine
<1>1. IInv => OneEngine
  BY DEF IInv, Owner, OneEngine, At
<1> QED
  BY <1>1, JobManagerInvariant, PTL

(* The status of a job is only ever ended by that job, from the engine.    *)
THEOREM OwnStatusOnly == Spec => FinishIsOwn
<1>1. IInv /\ [Next]_vars
        => [state'.status \in {"done", "failed"} /\ state' # state
              => At(state.job, "run") /\ state'.job = state.job]_vars
  <2> SUFFICES ASSUME IInv, Next,
                      state'.status \in {"done", "failed"}, state' # state
               PROVE  At(state.job, "run") /\ state'.job = state.job
    BY DEF vars
  <2>1. PICK j \in Jobs : Accept(j) \/ JobStep(j)
    BY DEF Next
  <2>2. ~Accept(j)
    BY DEF Accept
  <2>3. Finish(j)
    BY <2>1, <2>2 DEF JobStep, Spawn, Setup, SetMigrator, ClearMigrator
  <2> QED
    BY <2>3 DEF Finish, At, IInv, TypeOK, Owner
<1> QED
  BY <1>1, JobManagerInvariant, PTL DEF Spec, FinishIsOwn
-----------------------------------------------------------------------------
(* The page.                                                               *)

Gone(a) == a.status \in {"done", "failed"} => a.job \in Jobs /\ pc[a.job] \in {"clear", "ended"}

(* What the manager calls done has left the engine, and so has what any    *)
(* answer taken from it calls done.                                        *)
PInv ==
  /\ IInv /\ PageTypeOK
  /\ Gone(state) /\ Gone(page)
  /\ \A i \in Polls : Gone(polls[i].answer)

(* Nothing in the manager is taken back: what has left the engine stays    *)
(* out of it.                                                              *)
LEMMA GoneStays ==
  ASSUME IInv, Gone(state), Next
  PROVE  /\ Gone(state)'
         /\ \A a \in Answer : Gone(a) => Gone(a)'
<1> USE JobManagerAssumption DEF IInv, TypeOK, Owner, Pc, Status, At, Goto, Gone, Answer
<1>1. PICK j \in Jobs : Accept(j) \/ JobStep(j)
  BY DEF Next
<1>2. CASE Accept(j)
  BY <1>2 DEF Accept
<1>3. CASE Spawn(j)
  BY <1>3 DEF Spawn
<1>4. CASE Setup(j)
  BY <1>4 DEF Setup
<1>5. CASE SetMigrator(j)
  BY <1>5 DEF SetMigrator
<1>6. CASE Finish(j)
  BY <1>6 DEF Finish
<1>7. CASE ClearMigrator(j)
  BY <1>7 DEF ClearMigrator
<1> QED
  BY <1>1, <1>2, <1>3, <1>4, <1>5, <1>6, <1>7 DEF JobStep

LEMMA PageInitPInv == PageInit => PInv
<1> SUFFICES ASSUME PageInit PROVE PInv
  OBVIOUS
<1>1. IInv
  BY InitIInv DEF PageInit
<1>2. PageTypeOK
  BY <1>1 DEF PageInit, IInv, PageTypeOK, Blank, Answer, Status
<1>3. Gone(state) /\ Gone(page) /\ \A i \in Polls : Gone(polls[i].answer)
  BY DEF PageInit, Init, Gone, Blank
<1> QED
  BY <1>1, <1>2, <1>3 DEF PInv

LEMMA PageNextPInv == PInv /\ [PageNext]_allVars => PInv'
<1> SUFFICES ASSUME PInv, [PageNext]_allVars PROVE PInv'
  OBVIOUS
<1>0. /\ IInv /\ TypeOK /\ counting \subseteq Jobs
      /\ polls \in [Polls -> [at : {"none", "sent", "read", "answered"}, answer : Answer]]
      /\ page \in Answer /\ Gone(state) /\ Gone(page) /\ \A i \in Polls : Gone(polls[i].answer)
  BY DEF PInv, PageTypeOK
<1>1. ASSUME NEW j \in Jobs, Managed(j) PROVE PInv'
  <2>1. Next /\ UNCHANGED <<counting, polls, page>>
    BY <1>1 DEF Managed, Next, pageVars
  <2>2. IInv'
    BY <1>0, <2>1, NextIInv
  <2>3. Gone(state)' /\ \A a \in Answer : Gone(a) => Gone(a)'
    BY <1>0, <2>1, GoneStays
  <2>4. Gone(page)' /\ \A i \in Polls : Gone(polls[i].answer)'
    BY <1>0, <2>1, <2>3 DEF Gone
  <2> QED
    BY <1>0, <2>1, <2>2, <2>3, <2>4 DEF PInv, PageTypeOK, IInv
<1>2. ASSUME UNCHANGED vars, counting' \subseteq Jobs,
             polls' \in [Polls -> [at : {"none", "sent", "read", "answered"}, answer : Answer]],
             page' \in Answer, Gone(page'), \A i \in Polls : Gone(polls'[i].answer)
      PROVE  PInv'
  <2>1. IInv' /\ TypeOK'
    BY <1>0, <1>2, NextIInv DEF IInv
  <2>2. UNCHANGED <<state, pc>>
    BY <1>2 DEF vars
  <2>3. Gone(state)' /\ Gone(page)' /\ (\A i \in Polls : Gone(polls[i].answer))'
    BY <1>0, <1>2, <2>2 DEF Gone
  <2> QED
    BY <1>2, <2>1, <2>3 DEF PInv, PageTypeOK
<1>3. ASSUME NEW j \in Jobs, Count(j) PROVE PInv'
  BY <1>0, <1>2, <1>3 DEF Count
<1>4. Blank \in Answer /\ Gone(Blank)
  BY DEF Blank, Answer, Status, Gone
<1>5. ASSUME NEW i \in Polls, Refresh(i) PROVE PInv'
  <2>1. \A k \in Polls : Gone(polls'[k].answer)
    BY <1>0, <1>4, <1>5 DEF Refresh
  <2>2. polls' \in [Polls -> [at : {"none", "sent", "read", "answered"}, answer : Answer]]
    BY <1>0, <1>4, <1>5 DEF Refresh
  <2> QED
    BY <1>0, <1>2, <1>5, <2>1, <2>2 DEF Refresh
<1>6. ASSUME NEW i \in Polls, SnapshotState(i) PROVE PInv'
  <2> DEFINE new == [job |-> state.job, status |-> state.status, counters |-> NoJob]
  <2>1. new \in Answer /\ Gone(new)
    BY <1>0 DEF TypeOK, Answer, Gone
  <2>2. /\ polls'[i].at = "read" /\ polls'[i].answer = new
        /\ polls'[i] \in [at : {"none", "sent", "read", "answered"}, answer : Answer]
        /\ \A k \in Polls \ {i} : polls'[k] = polls[k]
    BY <1>0, <1>6, <2>1 DEF SnapshotState
  <2>3. polls' \in [Polls -> [at : {"none", "sent", "read", "answered"}, answer : Answer]]
    BY <1>0, <1>6, <2>2 DEF SnapshotState
  <2>4. \A k \in Polls : Gone(polls'[k].answer)
    BY <1>0, <2>1, <2>2
  <2> QED
    BY <1>0, <1>2, <1>6, <2>3, <2>4 DEF SnapshotState
<1>7. ASSUME NEW i \in Polls, SnapshotCounters(i) PROVE PInv'
  <2>1. LiveCounters \in Jobs \cup {NoJob}
    BY <1>0 DEF LiveCounters
  <2>2. /\ polls'[i].answer.job = polls[i].answer.job
        /\ polls'[i].answer.status = polls[i].answer.status
        /\ polls'[i] \in [at : {"none", "sent", "read", "answered"}, answer : Answer]
        /\ \A k \in Polls \ {i} : polls'[k] = polls[k]
    <3>1. /\ polls'[i] = [[polls[i] EXCEPT !.at = "answered"]
                            EXCEPT !.answer = [polls[i].answer EXCEPT !.counters = LiveCounters]]
          /\ \A k \in Polls \ {i} : polls'[k] = polls[k]
      BY <1>0, <1>7 DEF SnapshotCounters
    <3>2. polls[i].answer \in Answer
      BY <1>0
    <3>3. [polls[i].answer EXCEPT !.counters = LiveCounters] \in Answer
      BY <2>1, <3>2 DEF Answer
    <3>4. /\ polls'[i].answer = [polls[i].answer EXCEPT !.counters = LiveCounters]
          /\ polls'[i] \in [at : {"none", "sent", "read", "answered"}, answer : Answer]
      BY <1>0, <3>1, <3>3
    <3>5. polls'[i].answer.job = polls[i].answer.job /\ polls'[i].answer.status = polls[i].answer.status
      BY <3>2, <3>4 DEF Answer
    <3> QED
      BY <3>1, <3>4, <3>5
  <2>3. polls' \in [Polls -> [at : {"none", "sent", "read", "answered"}, answer : Answer]]
    BY <1>0, <1>7, <2>2 DEF SnapshotCounters
  <2>4. \A k \in Polls : Gone(polls'[k].answer)
    BY <1>0, <2>2 DEF Gone
  <2> QED
    BY <1>0, <1>2, <1>7, <2>3, <2>4 DEF SnapshotCounters
<1>8. ASSUME NEW i \in Polls, Deliver(i) \/ Fail(i) PROVE PInv'
  <2>1. /\ polls' = [polls EXCEPT ![i] = [at |-> "none", answer |-> Blank]]
        /\ page' \in {page, polls[i].answer} /\ UNCHANGED <<vars, counting>>
    BY <1>8 DEF Deliver, Fail
  <2>2. /\ polls' \in [Polls -> [at : {"none", "sent", "read", "answered"}, answer : Answer]]
        /\ \A k \in Polls : Gone(polls'[k].answer)
    BY <1>0, <1>4, <2>1
  <2>3. page' \in Answer /\ Gone(page')
    BY <1>0, <2>1
  <2> QED
    BY <1>0, <1>2, <2>1, <2>2, <2>3
<1>9. CASE UNCHANGED allVars
  BY <1>0, <1>2, <1>9 DEF allVars, pageVars
<1> QED
  BY <1>1, <1>3, <1>5, <1>6, <1>7, <1>8, <1>9 DEF PageNext, Polled

LEMMA PagePInv == PageSpec => []PInv
  BY PageInitPInv, PageNextPInv, PTL DEF PageSpec

(* The types of the manager, the requests under way and the page.          *)
THEOREM PageTyped == PageSpec => []PageTypeOK
<1>1. PInv => PageTypeOK
  BY DEF PInv
<1> QED
  BY <1>1, PagePInv, PTL

(* However many requests overlap, and however late an answer comes, no job *)
(* is called done or failed that is still in the engine or yet to enter it.*)
THEOREM DoneHasLeft == PageSpec => []DoneIsDone
<1>1. PInv => DoneIsDone
  BY DEF PInv, DoneIsDone, Gone, Left
<1> QED
  BY <1>1, PagePInv, PTL

=============================================================================
