---------------------------- MODULE PstJobProofs ----------------------------
(***************************************************************************)
(* What the portal calls completed was created and what it calls skipped   *)
(* was only to be listed; an item has at most one copy for each time its   *)
(* job was handed out, or a POST was repeated; and a job is handed out     *)
(* once to an agent each time it waits, and ends with a verdict that is    *)
(* true of its items: for every number of agents, jobs, items, ids and     *)
(* failures, whatever the mailboxes' modes and the statuses posted.        *)
(***************************************************************************)
EXTENDS PstJob, FiniteSetTheorems, TLAPS

Unready == {"idle", "stopped", "down"}

(* What an agent remembers, by the place it is at.                         *)
Tidy(s) ==
  /\ s.pc \notin Unready => s.job \in Jobs
  /\ s.pc \in Unready => s = Resting(s.pc)
  /\ s.pc \notin {"items", "flush"} => s.todo = {}
  /\ s.pc = "complete" => s.verdict # "none"
  /\ \A m \in s.todo : BoxOf[m] \notin s.left

(* What an agent's batch says is true of the copies there are.             *)
Truthful(s) == \A id \in Ids : TrueOf(s.job, id, s.said[id])

(* Only what is to be imported is made.                                    *)
Imported == \A j \in Jobs, m \in Items : copies[j][m] > 0 => ModeOf[m] = "import"

(* An agent in state s may still make an item of a job: it has just been   *)
(* given the job, or the item's mailbox or the item itself is to come.     *)
CanMake(s, j, m) ==
  s.job = j /\ (s.pc = "granted" \/ BoxOf[m] \in s.left \/ m \in s.todo)
HasOffer(s, j) == s.pc = "offered" /\ s.job = j

Makers(ag, j, m) == {a \in Agents : CanMake(ag[a], j, m)}
Offered(ag, j) == {a \in Agents : HasOffer(ag[a], j)}

(* Copies made and copies that may still be made are paid for by handouts  *)
(* and repeated POSTs.                                                     *)
Owed ==
  \A j \in Jobs, m \in Items :
    copies[j][m] + Cardinality(Makers(agent, j, m)) <= handouts[j] + repeats[j]

(* A job that waits was handed out in earlier rounds only, and an offer    *)
(* not yet saved is a handout to come.                                     *)
Given ==
  \A j \in Jobs :
    /\ handouts[j] + Cardinality(Offered(agent, j)) <= Cardinality(Agents) * (1 + requeues[j])
    /\ job[j] \in Waiting => handouts[j] <= Cardinality(Agents) * requeues[j]

(* A job that is yet to be created was offered to nobody.                  *)
Fresh == \A j \in Jobs : job[j] = "none" => handouts[j] = 0 /\ Offered(agent, j) = {}

IInv ==
  /\ TypeOK /\ \A a \in Agents : Tidy(agent[a])
  /\ RowsAreTrue /\ Imported /\ Owed /\ Given /\ Fresh

-----------------------------------------------------------------------------
(* Counting agents.                                                        *)

LEMMA AgentsCounted ==
  ASSUME NEW S \in SUBSET Agents
  PROVE  /\ IsFiniteSet(S) /\ Cardinality(S) \in Nat /\ Cardinality(Agents) \in Nat
         /\ Cardinality(S) <= Cardinality(Agents)
         /\ \A T \in SUBSET S : Cardinality(T) <= Cardinality(S)
  BY PstJobAssumption, FS_Subset, FS_CardinalityType

LEMMA OneLess ==
  ASSUME NEW S \in SUBSET Agents, NEW T \in SUBSET S, NEW a \in S, a \notin T
  PROVE  Cardinality(T) + 1 <= Cardinality(S)
<1>1. T \in SUBSET (S \ {a}) /\ S \ {a} \in SUBSET Agents
  OBVIOUS
<1>2. Cardinality(T) <= Cardinality(S \ {a})
  BY <1>1, AgentsCounted
<1>3. Cardinality(S \ {a}) = Cardinality(S) - 1
  BY AgentsCounted, FS_RemoveElement
<1>4. Cardinality(T) \in Nat /\ Cardinality(S) \in Nat /\ Cardinality(S \ {a}) \in Nat
  BY <1>1, AgentsCounted
<1> QED
  BY <1>2, <1>3, <1>4

LEMMA OneMore ==
  ASSUME NEW S \in SUBSET Agents, NEW T \in SUBSET Agents, NEW a, T \subseteq S \cup {a}
  PROVE  Cardinality(T) <= Cardinality(S) + 1
<1>1. IsFiniteSet(S) /\ Cardinality(S) \in Nat /\ Cardinality(T) \in Nat
  BY AgentsCounted
<1>2. IsFiniteSet(S \cup {a}) /\ Cardinality(S \cup {a}) <= Cardinality(S) + 1
  <2>1. /\ IsFiniteSet(S \cup {a})
        /\ Cardinality(S \cup {a}) = IF a \in S THEN Cardinality(S) ELSE Cardinality(S) + 1
    BY <1>1, FS_AddElement
  <2> QED
    BY <1>1, <2>1
<1>3. Cardinality(T) <= Cardinality(S \cup {a}) /\ Cardinality(S \cup {a}) \in Nat
  BY <1>2, FS_Subset, FS_CardinalityType
<1> QED
  BY <1>1, <1>2, <1>3

LEMMA Rounds ==
  ASSUME NEW n \in Nat, NEW r \in Nat
  PROVE  /\ n * r \in Nat /\ n * (1 + r) \in Nat /\ n * (1 + (r + 1)) \in Nat
         /\ n * (1 + r) = n * r + n /\ n * (1 + (r + 1)) = n * (1 + r) + n
         /\ n * (r + 1) = n * (1 + r)
  OBVIOUS

-----------------------------------------------------------------------------
LEMMA InitIInv == Init => IInv
<1> SUFFICES ASSUME Init PROVE IInv
  OBVIOUS
<1>1. TypeOK
  BY PstJobAssumption DEF Init, TypeOK, Resting, Silent, Agent, Pc, JobStatus, ItemStatus
<1>11. RowsAreTrue /\ Imported
  BY DEF Init, RowsAreTrue, Imported, TrueOf, JobOf, Resting, Silent
<1>2. \A a \in Agents : Tidy(agent[a])
  BY DEF Init, Tidy, Resting, Unready, Silent
<1>3. \A j \in Jobs : handouts[j] = 0 /\ repeats[j] = 0 /\ requeues[j] = 0 /\ job[j] = "none"
  BY DEF Init
<1>4. \A j \in Jobs, m \in Items : copies[j][m] = 0 /\ Makers(agent, j, m) = {}
  BY DEF Init, Makers, CanMake, Resting
<1>5. \A j \in Jobs : Offered(agent, j) = {}
  BY DEF Init, Offered, HasOffer, Resting
<1>6. Owed
  BY <1>3, <1>4, FS_EmptySet DEF Owed
<1>7. Given
  <2>1. Cardinality(Agents) * (1 + 0) \in Nat
    BY AgentsCounted, Rounds
  <2> SUFFICES ASSUME NEW j \in Jobs
               PROVE  /\ handouts[j] + Cardinality(Offered(agent, j))
                           <= Cardinality(Agents) * (1 + requeues[j])
                      /\ job[j] \notin Waiting
    BY DEF Given
  <2>2. job[j] \notin Waiting
    BY <1>3 DEF Waiting
  <2>3. 1 + requeues[j] = 1 + 0 /\ handouts[j] = 0 /\ Cardinality(Offered(agent, j)) = 0
    BY <1>3, <1>5, FS_EmptySet
  <2>4. handouts[j] + Cardinality(Offered(agent, j)) <= Cardinality(Agents) * (1 + 0)
    BY <2>1, <2>3
  <2> QED
    BY <2>2, <2>3, <2>4
<1>8. Fresh
  BY <1>3, <1>5 DEF Fresh
<1> QED
  BY <1>1, <1>2, <1>6, <1>7, <1>8, <1>11 DEF IInv

LEMMA GivenKept ==
  ASSUME IInv, UNCHANGED <<requeues, handouts>>,
         \A j \in Jobs : Offered(agent', j) \in SUBSET Offered(agent, j),
         \A j \in Jobs : job'[j] \in Waiting => job[j] \in Waiting
  PROVE  Given'
<1> SUFFICES ASSUME NEW j \in Jobs
             PROVE  /\ handouts[j] + Cardinality(Offered(agent', j))
                         <= Cardinality(Agents) * (1 + requeues[j])
                    /\ job'[j] \in Waiting => handouts[j] <= Cardinality(Agents) * requeues[j]
  BY DEF Given
<1>1. /\ handouts[j] + Cardinality(Offered(agent, j)) <= Cardinality(Agents) * (1 + requeues[j])
      /\ job[j] \in Waiting => handouts[j] <= Cardinality(Agents) * requeues[j]
  BY DEF IInv, Given
<1>2. handouts[j] \in Nat /\ requeues[j] \in Nat
  BY PstJobAssumption DEF IInv, TypeOK
<1>3. Offered(agent, j) \in SUBSET Agents
  BY DEF Offered
<1>4. /\ Cardinality(Offered(agent', j)) <= Cardinality(Offered(agent, j))
      /\ Cardinality(Offered(agent, j)) \in Nat /\ Cardinality(Offered(agent', j)) \in Nat
      /\ Cardinality(Agents) \in Nat
  BY <1>3, AgentsCounted
<1>5. Cardinality(Agents) * (1 + requeues[j]) \in Nat
  BY <1>2, <1>4, Rounds
<1> QED
  BY <1>1, <1>2, <1>4, <1>5

(* One agent changes its state.                                            *)
Moves(a) ==
  agent' \in [Agents -> Agent] /\ \A b \in Agents \ {a} : agent'[b] = agent[b]

(* A step of one agent that creates nothing and gives it nothing to do:    *)
(* what it may have put into the portal's tables is true, and puts no job  *)
(* back.                                                                   *)
LEMMA QuietStep ==
  ASSUME IInv, NEW a \in Agents, NEW s \in Agent, Moves(a), s = agent'[a], Tidy(s),
         \A j \in Jobs : HasOffer(s, j) => HasOffer(agent[a], j),
         \A j \in Jobs, m \in Items : CanMake(s, j, m) => CanMake(agent[a], j, m),
         Truthful(s),
         job' \in [Jobs -> JobStatus],
         \A j \in Jobs : job'[j] \in {"none"} \cup Waiting => job'[j] = job[j],
         row' \in [Jobs -> [Ids -> ItemStatus]],
         \A j \in Jobs, id \in Ids : TrueOf(j, id, row'[j][id]),
         UNCHANGED <<copies, requeues, handouts, repeats>>,
         faults' \in 0 .. MaxFaults, lost' \in SUBSET Jobs, posted' \in SUBSET Jobs
  PROVE  IInv'
<1>1. agent \in [Agents -> Agent] /\ agent' \in [Agents -> Agent]
  BY DEF IInv, TypeOK, Moves
<1>2. agent'[a] = s /\ \A b \in Agents \ {a} : agent'[b] = agent[b]
  BY DEF Moves
<1>3. TypeOK'
  BY <1>1 DEF IInv, TypeOK
<1>4. \A b \in Agents : Tidy(agent'[b])
  BY <1>2 DEF IInv
<1>5. RowsAreTrue' /\ Imported'
  BY <1>2 DEF IInv, RowsAreTrue, Truthful, TrueOf, JobOf, Imported
<1>6. ASSUME NEW j \in Jobs PROVE Offered(agent', j) \in SUBSET Offered(agent, j)
  BY <1>2 DEF Offered
<1>7. ASSUME NEW j \in Jobs, NEW m \in Items
      PROVE  Makers(agent', j, m) \in SUBSET Makers(agent, j, m)
  BY <1>2 DEF Makers
<1>8. Owed'
  <2> SUFFICES ASSUME NEW j \in Jobs, NEW m \in Items
               PROVE  copies[j][m] + Cardinality(Makers(agent', j, m)) <= handouts[j] + repeats[j]
    BY DEF Owed
  <2>1. copies[j][m] + Cardinality(Makers(agent, j, m)) <= handouts[j] + repeats[j]
    BY DEF IInv, Owed
  <2>2. copies[j][m] \in Nat /\ handouts[j] \in Nat /\ repeats[j] \in Nat
    BY DEF IInv, TypeOK
  <2>3. Makers(agent, j, m) \in SUBSET Agents
    BY DEF Makers
  <2>4. /\ Cardinality(Makers(agent', j, m)) <= Cardinality(Makers(agent, j, m))
        /\ Cardinality(Makers(agent, j, m)) \in Nat /\ Cardinality(Makers(agent', j, m)) \in Nat
    BY <1>7, <2>3, AgentsCounted
  <2> QED
    BY <2>1, <2>2, <2>4
<1>9. Given'
  BY <1>6, GivenKept
<1>10. Fresh'
  BY <1>6 DEF IInv, Fresh
<1> QED
  BY <1>3, <1>4, <1>5, <1>8, <1>9, <1>10 DEF IInv

(* What a status says of copies c, and that more copies make no status     *)
(* untrue.                                                                 *)
Says(c, j, id, status) ==
  /\ status = "Completed" => \E m \in Items : IdOf[m] = id /\ c[j][m] > 0
  /\ status = "Skipped" => \A m \in Items : IdOf[m] = id => ModeOf[m] = "inventory"

LEMMA TrueKept ==
  ASSUME NEW j \in Jobs, NEW id \in Ids, NEW status, TrueOf(j, id, status),
         \A m \in Items : copies[j][m] > 0 => copies'[j][m] > 0
  PROVE  Says(copies', j, id, status)
  BY DEF TrueOf, Says

(* A step of one agent that may create an item, n times, that was still to *)
(* come and is not to come any more; the POSTs too many are repeated ones. *)
LEMMA CreatingStep ==
  ASSUME IInv, NEW a \in Agents, NEW s \in Agent, Moves(a), s = agent'[a], Tidy(s),
         s.pc # "offered", agent[a].job \in Jobs, NEW x \in Items,
         CanMake(agent[a], agent[a].job, x), ~CanMake(s, agent[a].job, x),
         \A j \in Jobs, m \in Items : CanMake(s, j, m) => CanMake(agent[a], j, m),
         NEW n \in Nat, Made(a, x, n), n > 0 => ModeOf[x] = "import",
         \A id \in Ids :
           s.said[id] = "none" \/ (s.job = agent[a].job /\ Says(copies', s.job, id, s.said[id])),
         NEW extra \in Nat, n <= extra + 1,
         repeats' = [repeats EXCEPT ![agent[a].job] = @ + extra],
         UNCHANGED <<job, row, requeues, handouts>>,
         faults' \in 0 .. MaxFaults, lost' \in SUBSET Jobs, posted' \in SUBSET Jobs
  PROVE  IInv'
<1>1. agent \in [Agents -> Agent] /\ agent' \in [Agents -> Agent]
  BY DEF IInv, TypeOK, Moves
<1>2. agent'[a] = s /\ \A b \in Agents \ {a} : agent'[b] = agent[b]
  BY DEF Moves
<1> DEFINE k == agent[a].job
<1>3. copies \in [Jobs -> [Items -> Nat]] /\ repeats \in [Jobs -> Nat] /\ handouts \in [Jobs -> Nat]
  BY DEF IInv, TypeOK
<1>4. copies' = [copies EXCEPT ![k][x] = @ + n]
  BY DEF Made, JobOf
<1>5. /\ copies' \in [Jobs -> [Items -> Nat]]
      /\ copies'[k][x] = copies[k][x] + n
      /\ \A j \in Jobs, m \in Items : j # k \/ m # x => copies'[j][m] = copies[j][m]
  BY <1>3, <1>4
<1>6. /\ repeats' \in [Jobs -> Nat] /\ repeats'[k] = repeats[k] + extra
      /\ \A j \in Jobs : j # k => repeats'[j] = repeats[j]
  BY <1>3
<1>7. TypeOK'
  BY <1>1, <1>5, <1>6 DEF IInv, TypeOK
<1>8. \A b \in Agents : Tidy(agent'[b])
  BY <1>2 DEF IInv
<1>9. \A j \in Jobs, m \in Items : copies[j][m] > 0 => copies'[j][m] > 0
  BY <1>3, <1>5
<1>10. RowsAreTrue'
  <2>1. ASSUME NEW j \in Jobs, NEW id \in Ids PROVE Says(copies', j, id, row'[j][id])
    BY <1>9, TrueKept DEF IInv, RowsAreTrue
  <2>2. ASSUME NEW b \in Agents, NEW id \in Ids
        PROVE  Says(copies', agent'[b].job, id, agent'[b].said[id])
    <3>1. CASE agent'[b].said[id] = "none"
      BY <3>1 DEF Says
    <3>2. CASE b # a /\ agent'[b].said[id] # "none"
      <4>1. agent'[b] = agent[b] /\ Tidy(agent[b])
        BY <1>2, <3>2 DEF IInv
      <4>2. agent[b].job \in Jobs
        BY <3>2, <4>1 DEF Tidy, Resting, Silent
      <4>3. TrueOf(agent[b].job, id, agent[b].said[id])
        BY DEF IInv, RowsAreTrue, JobOf
      <4> QED
        BY <1>9, <4>1, <4>2, <4>3, TrueKept
    <3>3. CASE b = a /\ agent'[b].said[id] # "none"
      BY <1>2, <3>3
    <3> QED
      BY <3>1, <3>2, <3>3
  <2> QED
    BY <2>1, <2>2 DEF RowsAreTrue, JobOf, TrueOf, Says
<1>16. Imported'
  <2> SUFFICES ASSUME NEW j \in Jobs, NEW m \in Items, copies'[j][m] > 0
               PROVE  ModeOf[m] = "import"
    BY DEF Imported
  <2>1. CASE copies[j][m] > 0
    BY <2>1 DEF IInv, Imported
  <2>2. CASE ~(copies[j][m] > 0)
    BY <1>3, <1>5, <2>2
  <2> QED
    BY <2>1, <2>2
<1>11. ASSUME NEW j \in Jobs PROVE Offered(agent', j) \in SUBSET Offered(agent, j)
  BY <1>2 DEF Offered, HasOffer
<1>12. ASSUME NEW j \in Jobs, NEW m \in Items
       PROVE  /\ Makers(agent', j, m) \in SUBSET Makers(agent, j, m)
              /\ Makers(agent, j, m) \in SUBSET Agents
              /\ j = k /\ m = x => a \in Makers(agent, j, m) /\ a \notin Makers(agent', j, m)
  BY <1>2 DEF Makers
<1>13. Owed'
  <2> SUFFICES ASSUME NEW j \in Jobs, NEW m \in Items
               PROVE  copies'[j][m] + Cardinality(Makers(agent', j, m)) <= handouts[j] + repeats'[j]
    BY DEF Owed
  <2>1. copies[j][m] + Cardinality(Makers(agent, j, m)) <= handouts[j] + repeats[j]
    BY DEF IInv, Owed
  <2>2. copies[j][m] \in Nat /\ handouts[j] \in Nat /\ repeats[j] \in Nat /\ repeats'[j] \in Nat
    BY <1>3, <1>6
  <2>3. /\ Cardinality(Makers(agent', j, m)) <= Cardinality(Makers(agent, j, m))
        /\ Cardinality(Makers(agent, j, m)) \in Nat /\ Cardinality(Makers(agent', j, m)) \in Nat
    BY <1>12, AgentsCounted
  <2>4. repeats'[j] >= repeats[j]
    BY <1>3, <1>6, <2>2
  <2>5. CASE j = k /\ m = x
    <3>1. Cardinality(Makers(agent', j, m)) + 1 <= Cardinality(Makers(agent, j, m))
      BY <1>12, <2>5, OneLess
    <3> QED
      BY <1>5, <1>6, <2>1, <2>2, <2>3, <2>5, <3>1
  <2>6. CASE j # k \/ m # x
    BY <1>5, <2>1, <2>2, <2>3, <2>4, <2>6
  <2> QED
    BY <2>5, <2>6
<1>14. Given'
  BY <1>11, GivenKept
<1>15. Fresh'
  BY <1>11 DEF IInv, Fresh
<1> QED
  BY <1>7, <1>8, <1>10, <1>13, <1>14, <1>15, <1>16 DEF IInv

-----------------------------------------------------------------------------
(* The steps of the portal and the agents.                                 *)

LEMMA CreateJobIInv ==
  ASSUME IInv, NEW k \in Jobs, CreateJob(k)
  PROVE  IInv'
<1>1. /\ job[k] = "none" /\ job' = [job EXCEPT ![k] = "Queued"] /\ UNCHANGED agent
      /\ UNCHANGED <<row, copies, faults, requeues, handouts, repeats, lost, posted>>
  BY DEF CreateJob, observers
<1>2. job \in [Jobs -> JobStatus] /\ handouts \in [Jobs -> Nat] /\ requeues \in [Jobs -> Nat]
  BY PstJobAssumption DEF IInv, TypeOK
<1>3. TypeOK'
  BY <1>1 DEF IInv, TypeOK, JobStatus, Statuses, Waiting
<1>4. (\A a \in Agents : Tidy(agent[a]))' /\ RowsAreTrue' /\ Imported' /\ Owed'
  BY <1>1 DEF IInv, RowsAreTrue, TrueOf, JobOf, Imported, Owed
<1>5. Given'
  <2>1. ASSUME NEW j \in Jobs, job'[j] \in Waiting
        PROVE  handouts[j] <= Cardinality(Agents) * requeues[j]
    <3>1. CASE j = k
      <4>1. handouts[j] = 0
        BY <1>1, <3>1 DEF IInv, Fresh
      <4>2. Cardinality(Agents) * requeues[j] \in Nat
        BY <1>2, AgentsCounted, Rounds
      <4> QED
        BY <4>1, <4>2
    <3>2. CASE j # k
      BY <1>1, <1>2, <2>1, <3>2 DEF IInv, Given
    <3> QED
      BY <3>1, <3>2
  <2> QED
    BY <1>1, <2>1 DEF IInv, Given
<1>6. Fresh'
  BY <1>1, <1>2 DEF IInv, Fresh
<1> QED
  BY <1>3, <1>4, <1>5, <1>6 DEF IInv

(* An operator posts a status: a job that was not waiting may wait once    *)
(* more, and is handed out anew in a round of its own.                     *)
LEMMA UpdateStatusIInv ==
  ASSUME IInv, NEW k \in Jobs, NEW status \in Settable, UpdateStatus(k, status)
  PROVE  IInv'
<1>1. /\ job[k] # "none" /\ job' = [job EXCEPT ![k] = status]
      /\ UNCHANGED <<agent, row, copies, faults, handouts, repeats, lost>>
      /\ posted' = posted \cup {k}
      /\ \/ /\ status \in Waiting /\ job[k] \notin Waiting
            /\ requeues[k] < MaxRequeues /\ requeues' = [requeues EXCEPT ![k] = @ + 1]
         \/ ~(status \in Waiting /\ job[k] \notin Waiting) /\ UNCHANGED requeues
  BY DEF UpdateStatus
<1>2. /\ job \in [Jobs -> JobStatus] /\ handouts \in [Jobs -> Nat]
      /\ requeues \in [Jobs -> 0 .. MaxRequeues] /\ MaxRequeues \in Nat
      /\ status \in Statuses /\ status # "none"
  BY PstJobAssumption DEF IInv, TypeOK, Statuses, Waiting, Ended
<1>3. /\ \A j \in Jobs : j # k => requeues'[j] = requeues[j] /\ job'[j] = job[j]
      /\ job'[k] = status /\ requeues' \in [Jobs -> 0 .. MaxRequeues]
  BY <1>1, <1>2
<1>4. job' \in [Jobs -> JobStatus]
  BY <1>1, <1>2 DEF JobStatus
<1>5. TypeOK'
  BY <1>1, <1>3, <1>4 DEF IInv, TypeOK
<1>6. (\A a \in Agents : Tidy(agent[a]))' /\ RowsAreTrue' /\ Imported' /\ Owed'
  BY <1>1 DEF IInv, RowsAreTrue, TrueOf, JobOf, Imported, Owed
<1>7. Given'
  <2> SUFFICES ASSUME NEW j \in Jobs
               PROVE  /\ handouts[j] + Cardinality(Offered(agent, j))
                           <= Cardinality(Agents) * (1 + requeues'[j])
                      /\ job'[j] \in Waiting => handouts[j] <= Cardinality(Agents) * requeues'[j]
    BY <1>1 DEF Given
  <2>1. /\ handouts[j] + Cardinality(Offered(agent, j)) <= Cardinality(Agents) * (1 + requeues[j])
        /\ job[j] \in Waiting => handouts[j] <= Cardinality(Agents) * requeues[j]
    BY DEF IInv, Given
  <2>2. CASE j # k
    BY <1>3, <2>1, <2>2
  <2>3. CASE j = k /\ UNCHANGED requeues /\ ~(status \in Waiting /\ job[k] \notin Waiting)
    BY <1>3, <2>1, <2>3
  <2>4. CASE j = k /\ requeues' = [requeues EXCEPT ![k] = @ + 1]
    <3>1. Offered(agent, j) \in SUBSET Agents /\ handouts[j] \in Nat /\ requeues[j] \in Nat
      BY <1>2 DEF Offered
    <3>2. Cardinality(Offered(agent, j)) \in Nat /\ Cardinality(Agents) \in Nat
      BY <3>1, AgentsCounted
    <3>3. requeues'[j] = requeues[j] + 1
      BY <1>2, <2>4
    <3>4. /\ Cardinality(Agents) * (1 + requeues'[j])
               = Cardinality(Agents) * (1 + requeues[j]) + Cardinality(Agents)
          /\ Cardinality(Agents) * requeues'[j] = Cardinality(Agents) * (1 + requeues[j])
          /\ Cardinality(Agents) * (1 + requeues[j]) \in Nat
      BY <3>1, <3>2, <3>3, Rounds
    <3> QED
      BY <2>1, <3>1, <3>2, <3>4
  <2> QED
    BY <1>1, <2>2, <2>3, <2>4
<1>8. Fresh'
  BY <1>1, <1>2, <1>3 DEF IInv, Fresh
<1> QED
  BY <1>5, <1>6, <1>7, <1>8 DEF IInv

LEMMA NextJobIInv ==
  ASSUME IInv, NEW a \in Agents, NextJob(a)
  PROVE  IInv'
<1>1. PICK k \in Jobs : /\ job[k] \in Waiting
                        /\ agent' = [agent EXCEPT ![a].pc = "offered", ![a].job = k]
  BY DEF NextJob
<1>2. /\ agent[a].pc = "idle"
      /\ UNCHANGED <<job, row, copies, faults, requeues, handouts, repeats, lost, posted>>
  BY DEF NextJob, At, observers
<1>3. agent \in [Agents -> Agent]
  BY DEF IInv, TypeOK
<1>4. agent[a] = Resting("idle")
  BY <1>2 DEF IInv, Tidy, Unready
<1>5. /\ agent'[a] = [Resting("offered") EXCEPT !.job = k]
      /\ \A b \in Agents \ {a} : agent'[b] = agent[b]
  <2>1. /\ agent'[a] = [[agent[a] EXCEPT !.pc = "offered"] EXCEPT !.job = k]
        /\ \A b \in Agents \ {a} : agent'[b] = agent[b]
    BY <1>1, <1>3
  <2>2. [Resting("idle") EXCEPT !.pc = "offered"] = Resting("offered")
    BY DEF Resting
  <2> QED
    BY <1>4, <2>1, <2>2
<1>6. agent'[a] \in Agent /\ agent' \in [Agents -> Agent]
  <2>1. Resting("offered") \in Agent
    BY DEF Resting, Silent, ItemStatus, Agent, Pc
  <2>2. k \in Jobs
    BY <1>1
  <2>3. agent'[a] \in Agent
    BY <1>5, <2>1, <2>2 DEF Agent
  <2> QED
    BY <1>1, <1>3, <1>5, <2>3
<1>7. TypeOK'
  BY <1>2, <1>6 DEF IInv, TypeOK
<1>8. \A b \in Agents : Tidy(agent'[b])
  BY <1>5 DEF IInv, Tidy, Resting, Unready
<1>9. RowsAreTrue' /\ Imported'
  BY <1>2, <1>5 DEF IInv, RowsAreTrue, TrueOf, JobOf, Resting, Silent, Imported
<1>10. Owed'
  <2> SUFFICES ASSUME NEW j \in Jobs, NEW m \in Items
               PROVE  copies[j][m] + Cardinality(Makers(agent', j, m)) <= handouts[j] + repeats[j]
    BY <1>2 DEF Owed
  <2>1. Makers(agent', j, m) = Makers(agent, j, m)
    <3>1. ~CanMake(agent[a], j, m) /\ ~CanMake(agent'[a], j, m)
      BY <1>4, <1>5 DEF CanMake, Resting
    <3> QED
      BY <1>5, <3>1 DEF Makers
  <2> QED
    BY <2>1 DEF IInv, Owed
<1>11. Given'
  <2> SUFFICES ASSUME NEW j \in Jobs
               PROVE  /\ handouts[j] + Cardinality(Offered(agent', j))
                           <= Cardinality(Agents) * (1 + requeues[j])
                      /\ job[j] \in Waiting => handouts[j] <= Cardinality(Agents) * requeues[j]
    BY <1>2 DEF Given
  <2>1. /\ handouts[j] + Cardinality(Offered(agent, j)) <= Cardinality(Agents) * (1 + requeues[j])
        /\ job[j] \in Waiting => handouts[j] <= Cardinality(Agents) * requeues[j]
    BY DEF IInv, Given
  <2>2. CASE j = k
    <3>1. Offered(agent', j) \in SUBSET Agents /\ handouts[j] \in Nat /\ requeues[j] \in Nat
      BY PstJobAssumption DEF Offered, IInv, TypeOK
    <3>2. /\ Cardinality(Offered(agent', j)) \in Nat /\ Cardinality(Agents) \in Nat
          /\ Cardinality(Offered(agent', j)) <= Cardinality(Agents)
      BY <3>1, AgentsCounted
    <3>3. /\ Cardinality(Agents) * (1 + requeues[j])
               = Cardinality(Agents) * requeues[j] + Cardinality(Agents)
          /\ Cardinality(Agents) * requeues[j] \in Nat
      BY <3>1, <3>2, Rounds
    <3>4. handouts[j] <= Cardinality(Agents) * requeues[j]
      BY <1>1, <2>1, <2>2
    <3> QED
      BY <3>1, <3>2, <3>3, <3>4
  <2>3. CASE j # k
    <3>1. Offered(agent', j) = Offered(agent, j)
      BY <1>4, <1>5, <2>3 DEF Offered, HasOffer, Resting
    <3> QED
      BY <2>1, <3>1
  <2> QED
    BY <2>2, <2>3
<1>12. Fresh'
  <2>1. ASSUME NEW j \in Jobs, job[j] = "none" PROVE Offered(agent', j) = Offered(agent, j)
    <3>1. j # k
      BY <1>1, <2>1 DEF Waiting
    <3>2. ~HasOffer(agent[a], j) /\ ~HasOffer(agent'[a], j)
      BY <1>4, <1>5, <3>1 DEF HasOffer, Resting
    <3> QED
      BY <1>5, <3>2 DEF Offered
  <2> QED
    BY <1>2, <2>1 DEF IInv, Fresh
<1> QED
  BY <1>7, <1>8, <1>9, <1>10, <1>11, <1>12 DEF IInv

LEMMA NextJobSavedIInv ==
  ASSUME IInv, NEW a \in Agents, NextJobSaved(a)
  PROVE  IInv'
<1> DEFINE k == agent[a].job
<1>1. /\ agent[a].pc = "offered" /\ job' = [job EXCEPT ![k] = "Running"]
      /\ handouts' = [handouts EXCEPT ![k] = @ + 1]
      /\ agent' = [agent EXCEPT ![a].pc = "granted"]
      /\ UNCHANGED <<row, copies, faults, requeues, repeats, lost>>
      /\ posted' \subseteq posted
  BY DEF NextJobSaved, At, JobOf
<1>2. /\ agent \in [Agents -> Agent] /\ handouts \in [Jobs -> Nat] /\ repeats \in [Jobs -> Nat]
      /\ job \in [Jobs -> JobStatus] /\ copies \in [Jobs -> [Items -> Nat]]
      /\ requeues \in [Jobs -> Nat]
  BY PstJobAssumption DEF IInv, TypeOK
<1>3. k \in Jobs
  BY <1>1 DEF IInv, Tidy, Unready
<1>4. /\ agent'[a] = [agent[a] EXCEPT !.pc = "granted"]
      /\ \A b \in Agents \ {a} : agent'[b] = agent[b]
  BY <1>1, <1>2
<1>5. /\ agent'[a].pc = "granted" /\ agent'[a].job = k /\ agent'[a].said = agent[a].said
      /\ agent'[a].left = agent[a].left /\ agent'[a].todo = agent[a].todo
      /\ agent' \in [Agents -> Agent]
  <2>1. agent[a] \in Agent
    BY <1>2
  <2>2. /\ agent'[a].pc = "granted" /\ agent'[a].job = k /\ agent'[a].said = agent[a].said
        /\ agent'[a].left = agent[a].left /\ agent'[a].todo = agent[a].todo
        /\ agent'[a] \in Agent
    BY <1>4, <2>1 DEF Agent, Pc
  <2>3. agent' \in [Agents -> Agent]
    BY <1>1, <1>2, <1>4, <2>2
  <2> QED
    BY <2>2, <2>3
<1>6. /\ handouts' \in [Jobs -> Nat] /\ handouts'[k] = handouts[k] + 1
      /\ \A j \in Jobs : j # k => handouts'[j] = handouts[j] /\ job'[j] = job[j]
      /\ job' \in [Jobs -> JobStatus] /\ job'[k] = "Running" /\ job'[k] \notin Waiting
  BY <1>1, <1>2, <1>3 DEF JobStatus, Statuses, Waiting
<1>7. TypeOK'
  BY <1>1, <1>5, <1>6 DEF IInv, TypeOK
<1>8. \A b \in Agents : Tidy(agent'[b])
  <2>1. Tidy(agent'[a])
    BY <1>1, <1>3, <1>5 DEF IInv, Tidy, Unready
  <2> QED
    BY <1>4, <2>1 DEF IInv
<1>9. RowsAreTrue' /\ Imported'
  BY <1>1, <1>4, <1>5 DEF IInv, RowsAreTrue, TrueOf, JobOf, Imported
<1>10. Owed'
  <2> SUFFICES ASSUME NEW j \in Jobs, NEW m \in Items
               PROVE  copies[j][m] + Cardinality(Makers(agent', j, m)) <= handouts'[j] + repeats[j]
    BY <1>1 DEF Owed
  <2>1. copies[j][m] + Cardinality(Makers(agent, j, m)) <= handouts[j] + repeats[j]
    BY DEF IInv, Owed
  <2>2. copies[j][m] \in Nat /\ handouts[j] \in Nat /\ repeats[j] \in Nat
    BY <1>2
  <2>3. /\ Makers(agent, j, m) \in SUBSET Agents /\ Makers(agent', j, m) \in SUBSET Agents
        /\ Makers(agent', j, m) \subseteq Makers(agent, j, m) \cup {a}
    BY <1>4 DEF Makers
  <2>4. Cardinality(Makers(agent, j, m)) \in Nat /\ Cardinality(Makers(agent', j, m)) \in Nat
    BY <2>3, AgentsCounted
  <2>5. CASE j = k
    <3>1. Cardinality(Makers(agent', j, m)) <= Cardinality(Makers(agent, j, m)) + 1
      BY <2>3, OneMore
    <3> QED
      BY <1>6, <2>1, <2>2, <2>4, <2>5, <3>1
  <2>6. CASE j # k
    <3>1. Makers(agent', j, m) = Makers(agent, j, m)
      BY <1>4, <1>5, <2>6 DEF Makers, CanMake
    <3> QED
      BY <1>6, <2>1, <2>6, <3>1
  <2> QED
    BY <2>5, <2>6
<1>11. ASSUME NEW j \in Jobs
       PROVE  /\ Offered(agent', j) \in SUBSET Offered(agent, j)
              /\ Offered(agent, j) \in SUBSET Agents
              /\ j = k => a \in Offered(agent, j) /\ a \notin Offered(agent', j)
  BY <1>1, <1>4, <1>5 DEF Offered, HasOffer
<1>12. Given'
  <2> SUFFICES ASSUME NEW j \in Jobs
               PROVE  /\ handouts'[j] + Cardinality(Offered(agent', j))
                           <= Cardinality(Agents) * (1 + requeues[j])
                      /\ job'[j] \in Waiting => handouts'[j] <= Cardinality(Agents) * requeues[j]
    BY <1>1 DEF Given
  <2>1. /\ handouts[j] + Cardinality(Offered(agent, j)) <= Cardinality(Agents) * (1 + requeues[j])
        /\ job[j] \in Waiting => handouts[j] <= Cardinality(Agents) * requeues[j]
    BY DEF IInv, Given
  <2>2. handouts[j] \in Nat /\ requeues[j] \in Nat
    BY <1>2
  <2>3. /\ Cardinality(Offered(agent', j)) <= Cardinality(Offered(agent, j))
        /\ Cardinality(Offered(agent, j)) \in Nat /\ Cardinality(Offered(agent', j)) \in Nat
        /\ Cardinality(Agents) \in Nat
    BY <1>11, AgentsCounted
  <2>4. Cardinality(Agents) * (1 + requeues[j]) \in Nat
    BY <2>2, <2>3, Rounds
  <2>5. CASE j = k
    <3>1. Cardinality(Offered(agent', j)) + 1 <= Cardinality(Offered(agent, j))
      BY <1>11, <2>5, OneLess
    <3> QED
      BY <1>6, <2>1, <2>2, <2>3, <2>4, <2>5, <3>1
  <2>6. CASE j # k
    BY <1>6, <2>1, <2>2, <2>3, <2>4, <2>6
  <2> QED
    BY <2>5, <2>6
<1>13. Fresh'
  BY <1>6, <1>11 DEF IInv, Fresh
<1> QED
  BY <1>7, <1>8, <1>9, <1>10, <1>12, <1>13 DEF IInv

-----------------------------------------------------------------------------
LEMMA AgentKnown ==
  ASSUME IInv
  PROVE  /\ faults \in 0 .. MaxFaults /\ (Fault => faults' \in 0 .. MaxFaults)
         /\ lost \in SUBSET Jobs /\ posted \in SUBSET Jobs
         /\ \A a \in Agents : agent[a] \in Agent /\ Tidy(agent[a]) /\ Truthful(agent[a])
<1>1. MaxFaults \in Nat /\ faults \in 0 .. MaxFaults /\ lost \in SUBSET Jobs /\ posted \in SUBSET Jobs
  BY PstJobAssumption DEF IInv, TypeOK
<1>2. Fault => faults' \in 0 .. MaxFaults
  BY <1>1 DEF Fault
<1>3. \A a \in Agents : agent[a] \in Agent /\ Tidy(agent[a])
  BY DEF IInv, TypeOK
<1>4. \A a \in Agents : Truthful(agent[a])
  BY DEF IInv, RowsAreTrue, JobOf, Truthful
<1> QED
  BY <1>1, <1>2, <1>3, <1>4

(* A step that touches nothing of the portal but the observers.            *)
LEMMA LocalStep ==
  ASSUME IInv, NEW a \in Agents, Moves(a), Tidy(agent'[a]), agent'[a].pc # "offered",
         \A j \in Jobs, m \in Items : CanMake(agent'[a], j, m) => CanMake(agent[a], j, m),
         Truthful(agent'[a]),
         UNCHANGED <<job, row, copies, requeues, handouts, repeats>>,
         faults' \in 0 .. MaxFaults, lost' \in SUBSET Jobs, posted' \in SUBSET Jobs
  PROVE  IInv'
<1>1. agent'[a] \in Agent
  BY DEF Moves
<1>2. /\ job' \in [Jobs -> JobStatus] /\ row' \in [Jobs -> [Ids -> ItemStatus]]
      /\ \A j \in Jobs : job'[j] = job[j]
  BY DEF IInv, TypeOK
<1>3. \A j \in Jobs, id \in Ids : TrueOf(j, id, row'[j][id])
  <2>1. \A j \in Jobs, id \in Ids : TrueOf(j, id, row[j][id])
    BY DEF IInv, RowsAreTrue
  <2> QED
    BY <2>1
<1>4. \A j \in Jobs : HasOffer(agent'[a], j) => HasOffer(agent[a], j)
  BY DEF HasOffer
<1> QED
  BY <1>1, <1>2, <1>3, <1>4, QuietStep

(* An agent that gives up has nothing left to make.                        *)
LEMMA RestingMoves ==
  ASSUME IInv, NEW a \in Agents, NEW pc \in Unready, agent' = [agent EXCEPT ![a] = Resting(pc)]
  PROVE  /\ Moves(a) /\ Tidy(agent'[a]) /\ agent'[a].pc # "offered" /\ agent'[a].said = Silent
         /\ Truthful(agent'[a]) /\ \A j \in Jobs, m \in Items : ~CanMake(agent'[a], j, m)
<1>1. Resting(pc) \in Agent
  BY DEF Resting, Silent, ItemStatus, Agent, Unready, Pc
<1>2. Moves(a) /\ agent'[a] = Resting(pc)
  BY <1>1 DEF IInv, TypeOK, Moves
<1>3. /\ Tidy(Resting(pc)) /\ Resting(pc).pc # "offered" /\ Resting(pc).said = Silent
      /\ Truthful(Resting(pc))
  BY DEF Resting, Tidy, Unready, Truthful, TrueOf, Silent
<1>4. \A j \in Jobs, m \in Items : ~CanMake(Resting(pc), j, m)
  BY PstJobAssumption DEF CanMake, Resting
<1> QED
  BY <1>2, <1>3, <1>4

(* Nor what it had to make in the mailbox it leaves.                       *)
LEMMA AbandonedMoves ==
  ASSUME IInv, NEW a \in Agents, agent[a].pc \in {"items", "flush"},
         NEW next \in Abandoned(a), agent' = [agent EXCEPT ![a] = next]
  PROVE  /\ Moves(a) /\ Tidy(agent'[a]) /\ agent'[a].pc # "offered" /\ agent'[a].said = Silent
         /\ Truthful(agent'[a])
         /\ \A j \in Jobs, m \in Items :
              CanMake(agent'[a], j, m) => agent[a].job = j /\ BoxOf[m] \in agent[a].left
<1>1. agent[a] \in Agent /\ Tidy(agent[a]) /\ agent \in [Agents -> Agent]
  BY DEF IInv, TypeOK
<1>2. CASE next = Resting("stopped")
  <2>1. "stopped" \in Unready
    BY DEF Unready
  <2> QED
    BY <1>2, <2>1, RestingMoves
<1>3. CASE next = [Resting("run") EXCEPT !.job = agent[a].job, !.left = agent[a].left]
  <2>1. /\ next.pc = "run" /\ next.job = agent[a].job /\ next.left = agent[a].left
        /\ next.todo = {} /\ next.said = Silent /\ next \in Agent
    BY <1>1, <1>3 DEF Resting, Silent, ItemStatus, Agent, Pc
  <2>2. Moves(a) /\ agent'[a] = next
    BY <1>1, <2>1 DEF Moves
  <2>3. Tidy(next) /\ Truthful(next)
    BY <1>1, <2>1 DEF Tidy, Unready, Truthful, TrueOf, Silent
  <2> QED
    BY <2>1, <2>2, <2>3 DEF CanMake
<1> QED
  BY <1>2, <1>3 DEF Abandoned, JobOf

-----------------------------------------------------------------------------
LEMMA RunJobIInv ==
  ASSUME IInv, NEW a \in Agents, RunJob(a)
  PROVE  IInv'
<1>1. agent \in [Agents -> Agent] /\ agent[a] \in Agent /\ Tidy(agent[a])
  BY AgentKnown DEF IInv, TypeOK
<1>2. UNCHANGED <<job, row, copies, requeues, handouts, repeats>>
  BY DEF RunJob, observers
<1>3. faults' \in 0 .. MaxFaults /\ lost' \in SUBSET Jobs /\ posted' \in SUBSET Jobs
  BY AgentKnown DEF RunJob, observers
<1>4. /\ Moves(a) /\ Tidy(agent'[a]) /\ agent'[a].pc # "offered"
      /\ \A j \in Jobs, m \in Items : CanMake(agent'[a], j, m) => CanMake(agent[a], j, m)
      /\ Truthful(agent'[a])
  <2>1. /\ agent'[a].pc = "run" /\ agent'[a].job = agent[a].job /\ agent'[a].said = agent[a].said
        /\ agent'[a].left = Mailboxes /\ agent'[a].todo = agent[a].todo
        /\ agent'[a] \in Agent
    BY <1>1 DEF RunJob, At, Agent, Pc
  <2>2. Moves(a)
    BY <1>1, <2>1 DEF RunJob, At, Moves
  <2>3. Tidy(agent'[a])
    BY <1>1, <2>1 DEF RunJob, At, Tidy, Unready
  <2>4. \A j \in Jobs, m \in Items : CanMake(agent'[a], j, m) => CanMake(agent[a], j, m)
    BY <1>1, <2>1 DEF RunJob, At, CanMake
  <2> QED
    BY <2>1, <2>2, <2>3, <2>4, AgentKnown DEF Truthful
<1> QED
  BY <1>2, <1>3, <1>4, LocalStep

LEMMA RunMailboxIInv ==
  ASSUME IInv, NEW a \in Agents, NEW b \in Mailboxes, RunMailbox(a, b)
  PROVE  IInv'
<1>1. agent \in [Agents -> Agent] /\ agent[a] \in Agent /\ Tidy(agent[a])
  BY AgentKnown DEF IInv, TypeOK
<1>2. UNCHANGED <<job, row, copies, requeues, handouts, repeats>>
  BY DEF RunMailbox, observers
<1>3. faults' \in 0 .. MaxFaults /\ lost' \in SUBSET Jobs /\ posted' \in SUBSET Jobs
  BY AgentKnown DEF RunMailbox, observers
<1>4. /\ Moves(a) /\ Tidy(agent'[a]) /\ agent'[a].pc # "offered"
      /\ \A j \in Jobs, m \in Items : CanMake(agent'[a], j, m) => CanMake(agent[a], j, m)
      /\ Truthful(agent'[a])
  <2>1. /\ agent'[a].pc = "items" /\ agent'[a].job = agent[a].job /\ agent'[a].said = agent[a].said
        /\ agent'[a].left = agent[a].left \ {b} /\ b \in agent[a].left
        /\ agent'[a].todo = {m \in ItemsOf(b) : IdOf[m] \notin Handled(agent[a].job)}
        /\ agent'[a] \in Agent
    BY <1>1 DEF RunMailbox, RunNext, At, JobOf, ItemsOf, Agent, Pc
  <2>2. Moves(a)
    BY <1>1, <2>1 DEF RunMailbox, RunNext, At, JobOf, ItemsOf, Moves
  <2>3. Tidy(agent'[a])
    BY <1>1, <2>1 DEF RunMailbox, RunNext, At, JobOf, ItemsOf, Tidy, Unready
  <2>4. \A j \in Jobs, m \in Items : CanMake(agent'[a], j, m) => CanMake(agent[a], j, m)
    BY <1>1, <2>1 DEF RunMailbox, RunNext, At, JobOf, ItemsOf, CanMake
  <2> QED
    BY <2>1, <2>2, <2>3, <2>4, AgentKnown DEF Truthful
<1> QED
  BY <1>2, <1>3, <1>4, LocalStep

LEMMA FlushIInv ==
  ASSUME IInv, NEW a \in Agents, Flush(a)
  PROVE  IInv'
<1>1. agent \in [Agents -> Agent] /\ agent[a] \in Agent /\ Tidy(agent[a])
  BY AgentKnown DEF IInv, TypeOK
<1>2. UNCHANGED <<job, row, copies, requeues, handouts, repeats>>
  BY DEF Flush, observers
<1>3. faults' \in 0 .. MaxFaults /\ lost' \in SUBSET Jobs /\ posted' \in SUBSET Jobs
  BY AgentKnown DEF Flush, observers
<1>4. /\ Moves(a) /\ Tidy(agent'[a]) /\ agent'[a].pc # "offered"
      /\ \A j \in Jobs, m \in Items : CanMake(agent'[a], j, m) => CanMake(agent[a], j, m)
      /\ Truthful(agent'[a])
  <2>1. /\ agent'[a].pc = "flush" /\ agent'[a].job = agent[a].job /\ agent'[a].said = agent[a].said
        /\ agent'[a].left = agent[a].left /\ agent'[a].todo = agent[a].todo
        /\ agent'[a] \in Agent
    <3> DEFINE new == [id \in Ids |-> IF agent[a].said[id] = "none" THEN "none"
                                      ELSE row[agent[a].job][id]]
    <3>1. agent'[a] = [agent[a] EXCEPT !.pc = "flush", !.seen = new] /\ agent[a].pc = "items"
      BY <1>1 DEF Flush, Sent, At, JobOf
    <3>2. agent[a].job \in Jobs
      BY <1>1, <3>1 DEF Tidy, Unready
    <3>3. new \in [Ids -> ItemStatus]
      BY <3>2 DEF IInv, TypeOK, ItemStatus
    <3> HIDE DEF new
    <3> QED
      BY <1>1, <3>1, <3>3 DEF Agent, Pc
  <2>2. Moves(a)
    BY <1>1, <2>1 DEF Flush, Sent, At, Moves
  <2>3. Tidy(agent'[a])
    BY <1>1, <2>1 DEF Flush, Sent, At, Tidy, Unready
  <2>4. \A j \in Jobs, m \in Items : CanMake(agent'[a], j, m) => CanMake(agent[a], j, m)
    BY <1>1, <2>1 DEF Flush, Sent, At, CanMake
  <2> QED
    BY <2>1, <2>2, <2>3, <2>4, AgentKnown DEF Truthful
<1> QED
  BY <1>2, <1>3, <1>4, LocalStep

LEMMA MailboxDoneIInv ==
  ASSUME IInv, NEW a \in Agents, MailboxDone(a)
  PROVE  IInv'
<1>1. agent \in [Agents -> Agent] /\ agent[a] \in Agent /\ Tidy(agent[a])
  BY AgentKnown DEF IInv, TypeOK
<1>2. UNCHANGED <<job, row, copies, requeues, handouts, repeats>>
  BY DEF MailboxDone, observers
<1>3. faults' \in 0 .. MaxFaults /\ lost' \in SUBSET Jobs /\ posted' \in SUBSET Jobs
  BY AgentKnown DEF MailboxDone, observers
<1>4. /\ Moves(a) /\ Tidy(agent'[a]) /\ agent'[a].pc # "offered"
      /\ \A j \in Jobs, m \in Items : CanMake(agent'[a], j, m) => CanMake(agent[a], j, m)
      /\ Truthful(agent'[a])
  <2>1. /\ agent'[a].pc = "run" /\ agent'[a].job = agent[a].job /\ agent'[a].said = agent[a].said
        /\ agent'[a].left = agent[a].left /\ agent'[a].todo = agent[a].todo
        /\ agent[a].todo = {}
        /\ agent'[a] \in Agent
    BY <1>1 DEF MailboxDone, At, Agent, Pc
  <2>2. Moves(a)
    BY <1>1, <2>1 DEF MailboxDone, At, Moves
  <2>3. Tidy(agent'[a])
    BY <1>1, <2>1 DEF MailboxDone, At, Tidy, Unready
  <2>4. \A j \in Jobs, m \in Items : CanMake(agent'[a], j, m) => CanMake(agent[a], j, m)
    BY <1>1, <2>1 DEF MailboxDone, At, CanMake
  <2> QED
    BY <2>1, <2>2, <2>3, <2>4, AgentKnown DEF Truthful
<1> QED
  BY <1>2, <1>3, <1>4, LocalStep

LEMMA CompleteIInv ==
  ASSUME IInv, NEW a \in Agents, Complete(a)
  PROVE  IInv'
<1>1. agent \in [Agents -> Agent] /\ agent[a] \in Agent /\ Tidy(agent[a])
  BY AgentKnown DEF IInv, TypeOK
<1>2. UNCHANGED <<job, row, copies, requeues, handouts, repeats>>
  BY DEF Complete, observers
<1>3. faults' \in 0 .. MaxFaults /\ lost' \in SUBSET Jobs /\ posted' \in SUBSET Jobs
  BY AgentKnown DEF Complete, observers
<1>4. /\ Moves(a) /\ Tidy(agent'[a]) /\ agent'[a].pc # "offered"
      /\ \A j \in Jobs, m \in Items : CanMake(agent'[a], j, m) => CanMake(agent[a], j, m)
      /\ Truthful(agent'[a])
  <2>1. /\ agent'[a].pc = "complete" /\ agent'[a].job = agent[a].job /\ agent'[a].said = agent[a].said
        /\ agent'[a].left = agent[a].left /\ agent'[a].todo = agent[a].todo
        /\ agent[a].pc = "run" /\ agent'[a].verdict # "none"
        /\ agent'[a] \in Agent
    BY <1>1 DEF Complete, At, Verdict, JobOf, Ended, Agent, Pc
  <2>2. Moves(a)
    BY <1>1, <2>1 DEF Complete, At, Verdict, JobOf, Ended, Moves
  <2>3. Tidy(agent'[a])
    BY <1>1, <2>1 DEF Complete, At, Verdict, JobOf, Ended, Tidy, Unready
  <2>4. \A j \in Jobs, m \in Items : CanMake(agent'[a], j, m) => CanMake(agent[a], j, m)
    BY <1>1, <2>1 DEF Complete, At, Verdict, JobOf, Ended, CanMake
  <2> QED
    BY <2>1, <2>2, <2>3, <2>4, AgentKnown DEF Truthful
<1> QED
  BY <1>2, <1>3, <1>4, LocalStep


(* Steps after which the agent rests, or dies.                             *)
LEMMA RestsIInv ==
  ASSUME IInv, NEW a \in Agents, RunJobFails(a) \/ Crash(a) \/ Restart(a)
  PROVE  IInv'
<1>1. PICK pc \in Unready : agent' = [agent EXCEPT ![a] = Resting(pc)]
  BY DEF RunJobFails, Crash, Restart, Unready
<1>2. UNCHANGED <<job, row, copies, requeues, handouts, repeats>>
  BY DEF RunJobFails, Crash, Restart, observers
<1>3. faults' \in 0 .. MaxFaults /\ lost' \in SUBSET Jobs /\ posted' \in SUBSET Jobs
  BY AgentKnown DEF RunJobFails, Crash, Restart, observers
<1>4. Moves(a) /\ Tidy(agent'[a]) /\ agent'[a].pc # "offered" /\ Truthful(agent'[a])
  BY <1>1, RestingMoves
<1>5. \A j \in Jobs, m \in Items : ~CanMake(agent'[a], j, m)
  BY <1>1, RestingMoves
<1> QED
  BY <1>2, <1>3, <1>4, <1>5, LocalStep

LEMMA RunMailboxFailsIInv ==
  ASSUME IInv, NEW a \in Agents, NEW b \in Mailboxes, RunMailboxFails(a, b)
  PROVE  IInv'
<1>1. agent \in [Agents -> Agent] /\ agent[a] \in Agent /\ Tidy(agent[a])
  BY AgentKnown DEF IInv, TypeOK
<1>2. UNCHANGED <<job, row, copies, requeues, handouts, repeats>>
  BY DEF RunMailboxFails, Loses
<1>3. agent[a].job \in Jobs /\ agent[a].pc = "run"
  BY <1>1 DEF RunMailboxFails, RunNext, At, Tidy, Unready
<1>4. faults' \in 0 .. MaxFaults /\ lost' \in SUBSET Jobs /\ posted' \in SUBSET Jobs
  BY <1>3, AgentKnown DEF RunMailboxFails, Loses, JobOf
<1>5. CASE agent' = [agent EXCEPT ![a] = Resting("stopped")]
  <2>1. "stopped" \in Unready
    BY DEF Unready
  <2>2. /\ Moves(a) /\ Tidy(agent'[a]) /\ agent'[a].pc # "offered" /\ Truthful(agent'[a])
        /\ \A j \in Jobs, m \in Items : ~CanMake(agent'[a], j, m)
    BY <1>5, <2>1, RestingMoves
  <2> QED
    BY <1>2, <1>4, <2>2, LocalStep
<1>6. CASE agent' = [agent EXCEPT ![a].left = @ \ {b}]
  <2>1. /\ agent'[a].pc = "run" /\ agent'[a].job = agent[a].job /\ agent'[a].said = agent[a].said
        /\ agent'[a].left = agent[a].left \ {b} /\ agent'[a].todo = agent[a].todo
        /\ agent'[a] \in Agent
    BY <1>1, <1>3, <1>6 DEF Agent, Pc
  <2>2. Moves(a)
    BY <1>1, <1>6, <2>1 DEF Moves
  <2>3. Tidy(agent'[a])
    BY <1>1, <1>3, <2>1 DEF Tidy, Unready
  <2>4. \A j \in Jobs, m \in Items : CanMake(agent'[a], j, m) => CanMake(agent[a], j, m)
    BY <1>1, <1>3, <2>1 DEF CanMake
  <2>5. Truthful(agent'[a])
    BY <2>1, AgentKnown DEF Truthful
  <2> QED
    BY <1>2, <1>4, <2>1, <2>2, <2>3, <2>4, <2>5, LocalStep
<1> QED
  BY <1>5, <1>6 DEF RunMailboxFails

(* An item that is recorded is not to come any more.                       *)
LEMMA RecordMoves ==
  ASSUME IInv, NEW a \in Agents, NEW x \in Items, NextItem(a, x),
         NEW status \in ItemStatus, Record(a, x, status)
  PROVE  /\ Moves(a) /\ agent'[a] \in Agent /\ Tidy(agent'[a]) /\ agent'[a].pc # "offered"
         /\ agent[a].job \in Jobs /\ agent'[a].job = agent[a].job
         /\ CanMake(agent[a], agent[a].job, x) /\ ~CanMake(agent'[a], agent[a].job, x)
         /\ \A j \in Jobs, m \in Items : CanMake(agent'[a], j, m) => CanMake(agent[a], j, m)
         /\ \A id \in Ids : agent'[a].said[id] = IF id = IdOf[x] THEN status ELSE agent[a].said[id]
         /\ agent[a].pc = "items" /\ agent'[a].pc = "items" /\ agent'[a].left = agent[a].left
         /\ agent'[a].todo = agent[a].todo \ {x} /\ agent'[a].batch = agent[a].batch \cup {x}
<1>1. agent \in [Agents -> Agent] /\ agent[a] \in Agent /\ Tidy(agent[a])
  BY AgentKnown DEF IInv, TypeOK
<1>2. agent[a].pc = "items" /\ x \in agent[a].todo /\ agent[a].job \in Jobs
  BY <1>1 DEF NextItem, At, Tidy, Unready
<1>3. /\ agent'[a].pc = "items" /\ agent'[a].job = agent[a].job
      /\ agent'[a].left = agent[a].left /\ agent'[a].todo = agent[a].todo \ {x}
      /\ agent'[a].said = [agent[a].said EXCEPT ![IdOf[x]] = status]
      /\ agent'[a].batch = agent[a].batch \cup {x} /\ agent'[a] \in Agent
  <2>1. agent'[a] = [agent[a] EXCEPT !.todo = @ \ {x}, !.batch = @ \cup {x},
                                     !.said = [@ EXCEPT ![IdOf[x]] = status]]
    BY <1>1 DEF Record
  <2> DEFINE new == [agent[a].said EXCEPT ![IdOf[x]] = status]
  <2>2. new \in [Ids -> ItemStatus]
    BY <1>1 DEF Agent
  <2> DEFINE rest == agent[a].todo \ {x}
             full == agent[a].batch \cup {x}
  <2>3. /\ agent'[a] = [agent[a] EXCEPT !.todo = rest, !.batch = full, !.said = new]
        /\ rest \in SUBSET Items /\ full \in SUBSET Items
    BY <1>1, <2>1 DEF Agent
  <2> HIDE DEF new, rest, full
  <2>4. /\ agent'[a].pc = agent[a].pc /\ agent'[a].job = agent[a].job
        /\ agent'[a].left = agent[a].left /\ agent'[a].todo = rest
        /\ agent'[a].said = new /\ agent'[a].batch = full /\ agent'[a] \in Agent
    BY <1>1, <2>2, <2>3 DEF Agent
  <2> QED
    BY <1>2, <2>4 DEF new, rest, full
<1>4. Moves(a)
  BY <1>1, <1>3 DEF Record, Moves
<1>5. Tidy(agent'[a])
  BY <1>1, <1>2, <1>3 DEF Tidy, Unready
<1>6. CanMake(agent[a], agent[a].job, x) /\ ~CanMake(agent'[a], agent[a].job, x)
  BY <1>1, <1>2, <1>3 DEF CanMake, Tidy
<1>7. \A j \in Jobs, m \in Items : CanMake(agent'[a], j, m) => CanMake(agent[a], j, m)
  BY <1>2, <1>3 DEF CanMake
<1>8. \A id \in Ids : agent'[a].said[id] = IF id = IdOf[x] THEN status ELSE agent[a].said[id]
  BY <1>1, <1>3 DEF Agent
<1> QED
  BY <1>2, <1>3, <1>4, <1>5, <1>6, <1>7, <1>8

(* An item is made n times, or never, and its status is recorded: it is    *)
(* completed only if it was made, and skipped only if it is to be listed.  *)
LEMMA RecordedIInv ==
  ASSUME IInv, NEW a \in Agents, NEW x \in Items, NextItem(a, x),
         NEW status \in ItemStatus, Record(a, x, status),
         NEW n \in Nat, Made(a, x, n), n > 0 => ModeOf[x] = "import",
         status = "Completed" => n > 0, status = "Skipped" => ModeOf[x] = "inventory",
         NEW extra \in Nat, n <= extra + 1,
         repeats' = [repeats EXCEPT ![agent[a].job] = @ + extra],
         UNCHANGED <<job, row, requeues, handouts>>,
         faults' \in 0 .. MaxFaults, lost' \in SUBSET Jobs, posted' \in SUBSET Jobs
  PROVE  IInv'
<1>1. /\ Moves(a) /\ agent'[a] \in Agent /\ Tidy(agent'[a]) /\ agent'[a].pc # "offered"
      /\ agent[a].job \in Jobs /\ agent'[a].job = agent[a].job
      /\ CanMake(agent[a], agent[a].job, x) /\ ~CanMake(agent'[a], agent[a].job, x)
      /\ \A j \in Jobs, m \in Items : CanMake(agent'[a], j, m) => CanMake(agent[a], j, m)
      /\ \A id \in Ids : agent'[a].said[id] = IF id = IdOf[x] THEN status ELSE agent[a].said[id]
  BY RecordMoves
<1> DEFINE k == agent[a].job
<1>2. copies \in [Jobs -> [Items -> Nat]]
  BY DEF IInv, TypeOK
<1>3. copies'[k][x] = copies[k][x] + n /\ copies[k][x] \in Nat
      /\ \A m \in Items : m # x => copies'[k][m] = copies[k][m]
  BY <1>1, <1>2 DEF Made, JobOf
<1>4. ASSUME NEW id \in Ids PROVE Says(copies', k, id, agent'[a].said[id])
  <2>1. CASE id # IdOf[x]
    <3>1. TrueOf(k, id, agent[a].said[id])
      BY AgentKnown DEF Truthful
    <3>2. \A m \in Items : copies[k][m] > 0 => copies'[k][m] > 0
      BY <1>3
    <3> QED
      BY <1>1, <2>1, <3>1, <3>2, TrueKept
  <2>2. CASE id = IdOf[x]
    <3>1. agent'[a].said[id] = status
      BY <1>1, <2>2
    <3>2. status = "Completed" => copies'[k][x] > 0
      BY <1>3
    <3>3. status = "Skipped" => \A m \in Items : IdOf[m] = id => ModeOf[m] = "inventory"
      BY <2>2, PstJobAssumption
    <3> QED
      BY <2>2, <3>1, <3>2, <3>3 DEF Says
  <2> QED
    BY <2>1, <2>2
<1> QED
  BY <1>1, <1>4, CreatingStep

(* An item is made n times, or never, and the mailbox is given up.         *)
LEMMA AbandonedIInv ==
  ASSUME IInv, NEW a \in Agents, NEW x \in Items, NextItem(a, x),
         NEW next \in Abandoned(a), agent' = [agent EXCEPT ![a] = next],
         NEW n \in Nat, Made(a, x, n), n > 0 => ModeOf[x] = "import",
         NEW extra \in Nat, n <= extra + 1,
         repeats' = [repeats EXCEPT ![agent[a].job] = @ + extra],
         UNCHANGED <<job, row, requeues, handouts>>,
         faults' \in 0 .. MaxFaults, lost' \in SUBSET Jobs, posted' \in SUBSET Jobs
  PROVE  IInv'
<1>1. agent[a] \in Agent /\ Tidy(agent[a])
  BY AgentKnown
<1>2. agent[a].pc = "items" /\ x \in agent[a].todo /\ agent[a].job \in Jobs
  BY <1>1 DEF NextItem, At, Tidy, Unready
<1>3. /\ Moves(a) /\ Tidy(agent'[a]) /\ agent'[a].pc # "offered" /\ agent'[a].said = Silent
      /\ \A j \in Jobs, m \in Items :
           CanMake(agent'[a], j, m) => agent[a].job = j /\ BoxOf[m] \in agent[a].left
  BY <1>2, AbandonedMoves
<1>4. agent'[a] \in Agent /\ \A id \in Ids : agent'[a].said[id] = "none"
  BY <1>3 DEF Moves, Silent
<1>5. \A j \in Jobs, m \in Items : CanMake(agent'[a], j, m) => CanMake(agent[a], j, m)
  BY <1>3 DEF CanMake
<1>6. CanMake(agent[a], agent[a].job, x) /\ ~CanMake(agent'[a], agent[a].job, x)
  BY <1>1, <1>2, <1>3 DEF CanMake, Tidy
<1> QED
  BY <1>2, <1>3, <1>4, <1>5, <1>6, CreatingStep

LEMMA NothingAdded ==
  ASSUME IInv, NEW k
  PROVE  /\ repeats = [repeats EXCEPT ![k] = @ + 0]
         /\ \A x \in Items : copies = [copies EXCEPT ![k][x] = @ + 0]
<1>1. repeats \in [Jobs -> Nat] /\ copies \in [Jobs -> [Items -> Nat]]
  BY DEF IInv, TypeOK
<1> QED
  BY <1>1

LEMMA CreateIInv ==
  ASSUME IInv, NEW a \in Agents, NEW x \in Items, Create(a, x) \/ Skip(a, x) \/ CreateFails(a, x)
  PROVE  IInv'
<1>1. NextItem(a, x) /\ UNCHANGED <<job, row, requeues, handouts, repeats>>
  BY DEF Create, Skip, CreateFails, NextImport, observers
<1>2. faults' \in 0 .. MaxFaults /\ lost' \in SUBSET Jobs /\ posted' \in SUBSET Jobs
  BY AgentKnown DEF Create, Skip, CreateFails, observers
<1>3. repeats' = [repeats EXCEPT ![agent[a].job] = @ + 0]
  BY <1>1, NothingAdded
<1>4. CASE Create(a, x)
  <2>1. Record(a, x, "Completed") /\ Made(a, x, 1) /\ ModeOf[x] = "import"
    BY <1>4 DEF Create, NextImport
  <2>2. "Completed" \in ItemStatus /\ 1 \in Nat /\ 1 > 0 /\ 0 \in Nat /\ 1 <= 0 + 1
    BY DEF ItemStatus
  <2> QED
    BY <1>1, <1>2, <1>3, <2>1, <2>2, RecordedIInv
<1>5. CASE Skip(a, x)
  <2>1. Record(a, x, "Skipped") /\ ModeOf[x] = "inventory" /\ UNCHANGED copies
    BY <1>5 DEF Skip
  <2>2. Made(a, x, 0)
    BY <2>1, NothingAdded DEF Made
  <2>3. "Skipped" \in ItemStatus /\ 0 \in Nat /\ ~(0 > 0) /\ 0 <= 0 + 1
    BY DEF ItemStatus
  <2> QED
    BY <1>1, <1>2, <1>3, <2>1, <2>2, <2>3, RecordedIInv
<1>6. CASE CreateFails(a, x)
  <2>1. PICK n \in {0, 1} : Made(a, x, n)
    BY <1>6 DEF CreateFails
  <2>2. n \in Nat /\ n <= 0 + 1 /\ 0 \in Nat
    BY <2>1
  <2> QED
    BY <1>1, <1>2, <1>3, <1>6, <2>1, <2>2, RecordedIInv DEF CreateFails, NextImport, ItemStatus
<1> QED
  BY <1>4, <1>5, <1>6

LEMMA CreateRepeatedIInv ==
  ASSUME IInv, NEW a \in Agents, NEW x \in Items, CreateRepeated(a, x)
  PROVE  IInv'
<1>1. /\ NextItem(a, x) /\ ModeOf[x] = "import"
      /\ UNCHANGED <<job, row, requeues, handouts, posted>>
  BY DEF CreateRepeated, NextImport
<1>2. PICK n \in 1 .. MaxRetries, last \in {0, 1} :
        /\ Made(a, x, n + last)
        /\ repeats' = [repeats EXCEPT ![JobOf(a)] = @ + n]
        /\ \/ last = 1 /\ Record(a, x, "Completed") /\ UNCHANGED lost
           \/ Record(a, x, "Failed") /\ UNCHANGED lost
           \/ /\ \E next \in Abandoned(a) : agent' = [agent EXCEPT ![a] = next]
              /\ lost' = lost \cup {JobOf(a)}
  BY DEF CreateRepeated
<1>3. n \in Nat /\ n + last \in Nat /\ n + last <= n + 1 /\ n + last > 0
  BY <1>2, PstJobAssumption
<1>4. agent[a].pc = "items" /\ agent[a].job \in Jobs
  BY <1>1, AgentKnown DEF NextItem, At, Tidy, Unready
<1>5. faults' \in 0 .. MaxFaults /\ lost' \in SUBSET Jobs /\ posted' \in SUBSET Jobs
  BY <1>1, <1>2, <1>4, AgentKnown DEF CreateRepeated, JobOf
<1>6. ASSUME NEW status \in {"Completed", "Failed"}, Record(a, x, status) PROVE IInv'
  <2>1. status \in ItemStatus /\ status # "Skipped"
    BY DEF ItemStatus
  <2> QED
    BY <1>1, <1>2, <1>3, <1>5, <1>6, <2>1, RecordedIInv DEF JobOf
<1>7. ASSUME NEW next \in Abandoned(a), agent' = [agent EXCEPT ![a] = next] PROVE IInv'
  BY <1>1, <1>2, <1>3, <1>5, <1>7, AbandonedIInv DEF JobOf
<1> QED
  BY <1>2, <1>6, <1>7

LEMMA CreateThrowsIInv ==
  ASSUME IInv, NEW a \in Agents, NEW x \in Items, CreateThrows(a, x)
  PROVE  IInv'
<1>1. NextItem(a, x) /\ UNCHANGED <<job, row, requeues, handouts, repeats>>
  BY DEF CreateThrows, Loses
<1>2. agent[a].job \in Jobs
  BY <1>1, AgentKnown DEF NextItem, At, Tidy, Unready
<1>3. faults' \in 0 .. MaxFaults /\ lost' \in SUBSET Jobs /\ posted' \in SUBSET Jobs
  BY <1>2, AgentKnown DEF CreateThrows, Loses, JobOf
<1>4. repeats' = [repeats EXCEPT ![agent[a].job] = @ + 0]
  BY <1>1, NothingAdded
<1>5. PICK n \in {0, 1} : Made(a, x, n) /\ (n = 1 => ModeOf[x] = "import")
  BY DEF CreateThrows
<1>6. n \in Nat /\ n <= 0 + 1 /\ 0 \in Nat /\ (n > 0 => ModeOf[x] = "import")
  BY <1>5
<1>7. PICK next \in Abandoned(a) : agent' = [agent EXCEPT ![a] = next]
  BY DEF CreateThrows
<1> QED
  BY <1>1, <1>3, <1>4, <1>5, <1>6, <1>7, AbandonedIInv

-----------------------------------------------------------------------------
(* A batch the portal saves says of its items what was done.               *)
LEMMA ReportedIsTrue ==
  ASSUME IInv, NEW a \in Agents, agent[a].job \in Jobs, Reported(a) \/ UNCHANGED row
  PROVE  /\ row' \in [Jobs -> [Ids -> ItemStatus]]
         /\ \A j \in Jobs, id \in Ids : TrueOf(j, id, row'[j][id])
<1> DEFINE k == agent[a].job
<1>1. row \in [Jobs -> [Ids -> ItemStatus]] /\ agent[a] \in Agent
  BY AgentKnown DEF IInv, TypeOK
<1>2. \A j \in Jobs, id \in Ids : TrueOf(j, id, row[j][id])
  BY DEF IInv, RowsAreTrue
<1>3. CASE UNCHANGED row
  BY <1>1, <1>2, <1>3
<1>4. CASE Reported(a)
  <2> DEFINE new == [s \in Ids |-> IF agent[a].said[s] = agent[a].seen[s] THEN row[k][s]
                                   ELSE agent[a].said[s]]
  <2>1. row' = [row EXCEPT ![k] = new]
    BY <1>4 DEF Reported, JobOf
  <2>2. new \in [Ids -> ItemStatus]
    BY <1>1 DEF Agent
  <2>3. row' \in [Jobs -> [Ids -> ItemStatus]] /\ row'[k] = new
        /\ \A j \in Jobs : j # k => row'[j] = row[j]
    BY <1>1, <2>1, <2>2
  <2>4. ASSUME NEW id \in Ids PROVE TrueOf(k, id, new[id])
    <3>1. TrueOf(k, id, row[k][id]) /\ TrueOf(k, id, agent[a].said[id])
      BY <1>2, AgentKnown DEF Truthful
    <3> QED
      BY <3>1
  <2>5. ASSUME NEW j \in Jobs, NEW id \in Ids PROVE TrueOf(j, id, row'[j][id])
    <3>1. CASE j = k
      BY <2>3, <2>4, <3>1
    <3>2. CASE j # k
      <4>1. TrueOf(j, id, row[j][id]) /\ row'[j] = row[j]
        BY <1>2, <2>3, <3>2
      <4> QED
        BY <4>1
    <3> QED
      BY <3>1, <3>2
  <2> QED
    BY <2>3, <2>5
<1> QED
  BY <1>3, <1>4

(* The batch is sent: it is empty now.                                     *)
LEMMA FlushedIInv ==
  ASSUME IInv, NEW a \in Agents, FlushSaved(a) \/ FlushConflict(a) \/ FlushRefused(a)
  PROVE  IInv'
<1>1. agent \in [Agents -> Agent] /\ agent[a] \in Agent /\ Tidy(agent[a])
  BY AgentKnown DEF IInv, TypeOK
<1>2. agent[a].pc = "flush" /\ agent[a].job \in Jobs
  BY <1>1 DEF FlushSaved, FlushConflict, FlushRefused, At, Tidy, Unready
<1>3. UNCHANGED <<job, copies, requeues, handouts, repeats>>
  BY DEF FlushSaved, FlushConflict, FlushRefused, observers, Loses
<1>4. faults' \in 0 .. MaxFaults /\ lost' \in SUBSET Jobs /\ posted' \in SUBSET Jobs
  BY <1>2, AgentKnown DEF FlushSaved, FlushConflict, FlushRefused, observers, Loses, JobOf
<1>5. /\ agent'[a].pc = "items" /\ agent'[a].job = agent[a].job /\ agent'[a].said = Silent
      /\ agent'[a].left = agent[a].left /\ agent'[a].todo = agent[a].todo
      /\ agent'[a] \in Agent
  BY <1>1 DEF FlushSaved, FlushConflict, FlushRefused, Cleared, Silent, ItemStatus, Agent, Pc
<1>6. Moves(a)
  BY <1>1, <1>5 DEF FlushSaved, FlushConflict, FlushRefused, Cleared, Moves
<1>7. Tidy(agent'[a])
  BY <1>1, <1>2, <1>5 DEF Tidy, Unready
<1>8. \A j \in Jobs, m \in Items : CanMake(agent'[a], j, m) => CanMake(agent[a], j, m)
  BY <1>2, <1>5 DEF CanMake
<1>13. Truthful(agent'[a])
  BY <1>5 DEF Truthful, TrueOf, Silent
<1>9. \A j \in Jobs : HasOffer(agent'[a], j) => HasOffer(agent[a], j)
  BY <1>5 DEF HasOffer
<1>10. Reported(a) \/ UNCHANGED row
  BY DEF FlushSaved, FlushConflict, FlushRefused
<1>11. /\ row' \in [Jobs -> [Ids -> ItemStatus]]
       /\ \A j \in Jobs, id \in Ids : TrueOf(j, id, row'[j][id])
  BY <1>2, <1>10, ReportedIsTrue
<1>12. job' \in [Jobs -> JobStatus] /\ \A j \in Jobs : job'[j] = job[j]
  BY <1>3 DEF IInv, TypeOK
<1> QED
  BY <1>3, <1>4, <1>5, <1>6, <1>7, <1>8, <1>9, <1>11, <1>12, <1>13, QuietStep

LEMMA FlushThrowsIInv ==
  ASSUME IInv, NEW a \in Agents, FlushThrows(a)
  PROVE  IInv'
<1>1. agent[a] \in Agent /\ Tidy(agent[a])
  BY AgentKnown
<1>2. agent[a].pc = "flush" /\ agent[a].job \in Jobs
  BY <1>1 DEF FlushThrows, At, Tidy, Unready
<1>3. UNCHANGED <<job, copies, requeues, handouts, repeats>>
  BY DEF FlushThrows, Loses
<1>4. faults' \in 0 .. MaxFaults /\ lost' \in SUBSET Jobs /\ posted' \in SUBSET Jobs
  BY <1>2, AgentKnown DEF FlushThrows, Loses, JobOf
<1>5. PICK next \in Abandoned(a) : agent' = [agent EXCEPT ![a] = next]
  BY DEF FlushThrows
<1>6. /\ Moves(a) /\ Tidy(agent'[a]) /\ agent'[a].pc # "offered" /\ Truthful(agent'[a])
      /\ \A j \in Jobs, m \in Items :
           CanMake(agent'[a], j, m) => agent[a].job = j /\ BoxOf[m] \in agent[a].left
  BY <1>2, <1>5, AbandonedMoves
<1>7. agent'[a] \in Agent
  BY <1>6 DEF Moves
<1>8. \A j \in Jobs, m \in Items : CanMake(agent'[a], j, m) => CanMake(agent[a], j, m)
  BY <1>6 DEF CanMake
<1>9. \A j \in Jobs : HasOffer(agent'[a], j) => HasOffer(agent[a], j)
  BY <1>6 DEF HasOffer
<1>10. /\ row' \in [Jobs -> [Ids -> ItemStatus]]
       /\ \A j \in Jobs, id \in Ids : TrueOf(j, id, row'[j][id])
  BY <1>2, ReportedIsTrue DEF FlushThrows
<1>11. job' \in [Jobs -> JobStatus] /\ \A j \in Jobs : job'[j] = job[j]
  BY <1>3 DEF IInv, TypeOK
<1> QED
  BY <1>3, <1>4, <1>6, <1>7, <1>8, <1>9, <1>10, <1>11, QuietStep

(* The verdict is written over whatever the status is by then, and it is   *)
(* never one that waits.                                                   *)
LEMMA CompletedIInv ==
  ASSUME IInv, NEW a \in Agents, CompleteSaved(a) \/ CompleteFails(a)
  PROVE  IInv'
<1>1. agent[a] \in Agent /\ Tidy(agent[a])
  BY AgentKnown
<1>2. agent[a].pc = "complete" /\ agent[a].job \in Jobs
  BY <1>1 DEF CompleteSaved, CompleteFails, At, Tidy, Unready
<1>3. UNCHANGED <<row, copies, requeues, handouts, repeats>>
  BY DEF CompleteSaved, CompleteFails
<1>4. faults' \in 0 .. MaxFaults /\ lost' \in SUBSET Jobs /\ posted' \in SUBSET Jobs
  BY AgentKnown DEF CompleteSaved, CompleteFails, Concludes
<1>5. PICK pc \in Unready : agent' = [agent EXCEPT ![a] = Resting(pc)]
  BY DEF CompleteSaved, CompleteFails, Unready
<1>6. /\ Moves(a) /\ Tidy(agent'[a]) /\ agent'[a].pc # "offered" /\ Truthful(agent'[a])
      /\ \A j \in Jobs, m \in Items : ~CanMake(agent'[a], j, m)
  BY <1>5, RestingMoves
<1>7. agent'[a] \in Agent /\ \A j \in Jobs : ~HasOffer(agent'[a], j)
  BY <1>6 DEF Moves, HasOffer
<1>8. /\ row' \in [Jobs -> [Ids -> ItemStatus]]
      /\ \A j \in Jobs, id \in Ids : TrueOf(j, id, row'[j][id])
  <2>1. \A j \in Jobs, id \in Ids : TrueOf(j, id, row[j][id])
    BY DEF IInv, RowsAreTrue
  <2> QED
    BY <1>3, <2>1 DEF IInv, TypeOK
<1>9. job \in [Jobs -> JobStatus] /\ job' \in {job, Concluded(a)}
  BY DEF IInv, TypeOK, CompleteSaved, CompleteFails, Concludes
<1>10. agent[a].verdict = "same" \/ agent[a].verdict \in Ended
  BY <1>1, <1>2 DEF Agent, Tidy
<1>11. /\ job' \in [Jobs -> JobStatus]
       /\ \A j \in Jobs : job'[j] \in {"none"} \cup Waiting => job'[j] = job[j]
  BY <1>2, <1>9, <1>10 DEF Concluded, JobOf, Ended, JobStatus, Statuses, Waiting
<1> QED
  BY <1>3, <1>4, <1>6, <1>7, <1>8, <1>11, QuietStep

LEMMA StutterIInv ==
  ASSUME IInv, UNCHANGED vars
  PROVE  IInv'
<1>1. UNCHANGED <<job, row, copies, agent, faults, requeues, handouts, repeats, lost, posted>>
  BY DEF vars
<1>2. TypeOK'
  BY <1>1 DEF IInv, TypeOK
<1>3. (\A a \in Agents : Tidy(agent[a]))' /\ RowsAreTrue' /\ Imported' /\ Owed'
  BY <1>1 DEF IInv, RowsAreTrue, TrueOf, JobOf, Imported, Owed
<1>4. Given' /\ Fresh'
  BY <1>1 DEF IInv, Given, Fresh
<1> QED
  BY <1>2, <1>3, <1>4 DEF IInv

LEMMA NextIInv == IInv /\ [Next]_vars => IInv'
<1> SUFFICES ASSUME IInv, [Next]_vars PROVE IInv'
  OBVIOUS
<1>1. ASSUME NEW j \in Jobs, CreateJob(j) PROVE IInv'
  BY <1>1, CreateJobIInv
<1>2. ASSUME NEW j \in Jobs, NEW status \in Settable, UpdateStatus(j, status) PROVE IInv'
  BY <1>2, UpdateStatusIInv
<1>3. ASSUME NEW a \in Agents, NextJob(a) \/ NextJobSaved(a) \/ RunJob(a) PROVE IInv'
  BY <1>3, NextJobIInv, NextJobSavedIInv, RunJobIInv
<1>4. ASSUME NEW a \in Agents, NEW b \in Mailboxes, RunMailbox(a, b) \/ RunMailboxFails(a, b)
      PROVE  IInv'
  BY <1>4, RunMailboxIInv, RunMailboxFailsIInv
<1>5. ASSUME NEW a \in Agents, NEW m \in Items,
             Create(a, m) \/ Skip(a, m) \/ CreateRepeated(a, m) \/ CreateFails(a, m)
               \/ CreateThrows(a, m)
      PROVE  IInv'
  BY <1>5, CreateIInv, CreateRepeatedIInv, CreateThrowsIInv
<1>6. ASSUME NEW a \in Agents,
             Flush(a) \/ FlushSaved(a) \/ FlushConflict(a) \/ FlushRefused(a) \/ FlushThrows(a)
      PROVE  IInv'
  BY <1>6, FlushIInv, FlushedIInv, FlushThrowsIInv
<1>7. ASSUME NEW a \in Agents, MailboxDone(a) \/ Complete(a) PROVE IInv'
  BY <1>7, MailboxDoneIInv, CompleteIInv
<1>8. ASSUME NEW a \in Agents, CompleteSaved(a) \/ CompleteFails(a) PROVE IInv'
  BY <1>8, CompletedIInv
<1>9. ASSUME NEW a \in Agents, RunJobFails(a) \/ Crash(a) \/ Restart(a) PROVE IInv'
  BY <1>9, RestsIInv
<1>10. CASE UNCHANGED vars
  BY <1>10, StutterIInv
<1> QED
  BY <1>1, <1>2, <1>3, <1>4, <1>5, <1>6, <1>7, <1>8, <1>9, <1>10 DEF Next, Works, Fails

-----------------------------------------------------------------------------
(* The accounts hold in every state.                                       *)
THEOREM PstJobInvariant == Spec => []IInv
  BY InitIInv, NextIInv, PTL DEF Spec

(* The types of the portal's tables, the agents and the observers.         *)
THEOREM PstJobTypeOK == Spec => []TypeOK
<1>1. IInv => TypeOK
  BY DEF IInv
<1> QED
  BY <1>1, PstJobInvariant, PTL

(* What the portal calls completed is in the mailbox, and what it calls    *)
(* skipped was only to be listed, whatever fails.                          *)
THEOREM RowsTellTheTruth == Spec => []RowsAreTrue
<1>1. IInv => RowsAreTrue
  BY DEF IInv
<1> QED
  BY <1>1, PstJobInvariant, PTL

LEMMA CopiesOwed == IInv => CopiesAreOwed
<1> SUFFICES ASSUME IInv, NEW j \in Jobs, NEW m \in Items
             PROVE  copies[j][m] <= handouts[j] + repeats[j]
  BY DEF CopiesAreOwed
<1>1. copies[j][m] + Cardinality(Makers(agent, j, m)) <= handouts[j] + repeats[j]
  BY DEF IInv, Owed
<1>2. Makers(agent, j, m) \in SUBSET Agents
  BY DEF Makers
<1>3. Cardinality(Makers(agent, j, m)) \in Nat
  BY <1>2, AgentsCounted
<1>4. copies[j][m] \in Nat /\ handouts[j] \in Nat /\ repeats[j] \in Nat
  BY DEF IInv, TypeOK
<1> QED
  BY <1>1, <1>3, <1>4

(* An item has no more copies than its job was handed out and POSTs were   *)
(* repeated.                                                               *)
THEOREM NoCopyUnowed == Spec => []CopiesAreOwed
  BY CopiesOwed, PstJobInvariant, PTL

(* A job is handed out once to each agent, at most, each time it waits.    *)
THEOREM OnceToEachAgent == Spec => []HandoutsBounded
<1>1. IInv => HandoutsBounded
  <2> SUFFICES ASSUME IInv, NEW j \in Jobs
               PROVE  handouts[j] <= Cardinality(Agents) * (1 + requeues[j])
    BY DEF HandoutsBounded
  <2>1. handouts[j] + Cardinality(Offered(agent, j)) <= Cardinality(Agents) * (1 + requeues[j])
    BY DEF IInv, Given
  <2>2. Offered(agent, j) \in SUBSET Agents /\ handouts[j] \in Nat /\ requeues[j] \in Nat
    BY PstJobAssumption DEF Offered, IInv, TypeOK
  <2>3. Cardinality(Offered(agent, j)) \in Nat /\ Cardinality(Agents) \in Nat
    BY <2>2, AgentsCounted
  <2>4. Cardinality(Agents) * (1 + requeues[j]) \in Nat
    BY <2>2, <2>3, Rounds
  <2> QED
    BY <2>1, <2>2, <2>3, <2>4
<1> QED
  BY <1>1, PstJobInvariant, PTL

-----------------------------------------------------------------------------
(* The end of a job that one agent had.                                    *)

Holds(s, j) == s.job = j /\ s.pc \in {"granted", "run", "items", "flush", "complete"}

(* An operator has not posted that job j is at its end: an agent has.      *)
Ends(status, by, j) == status \in Ended /\ j \notin by

(* A batch is sent before the mailbox is left, and says only of its items. *)
Emptied(s) ==
  /\ s.pc \notin {"items", "flush"} => s.batch = {}
  /\ \A id \in Ids : s.said[id] # "none" => \E m \in s.batch : IdOf[m] = id

(* Rows r say of every item that is read that it was handled, and a job    *)
(* that is called Completed has them all made or listed.                   *)
Whole(r, verdict) ==
  \A m \in Items : ModeOf[m] # "disabled" =>
    /\ r[IdOf[m]] # "none"
    /\ verdict = "Completed" => r[IdOf[m]] \in {"Completed", "Skipped"}

(* An agent in state s accounts for every item that rows r do not know.    *)
Accounts(s, r) ==
  /\ \A m \in Items : ModeOf[m] # "disabled" =>
       \/ r[IdOf[m]] # "none" \/ s.pc = "granted"
       \/ BoxOf[m] \in s.left \/ m \in s.todo \/ s.said[IdOf[m]] # "none"
  /\ s.pc = "flush" => \A id \in Ids : s.seen[id] # "none" => s.said[id] # "none" /\ r[id] # "none"
  /\ s.pc = "complete" /\ s.verdict # "same" => s.verdict \in Ended /\ Whole(r, s.verdict)

(* While a job was handed out once, at most one agent has it, which        *)
(* accounts for its items, and no agent ends it while one has it.          *)
TInv ==
  /\ \A a \in Agents : Emptied(agent[a])
  /\ \A j \in Jobs :
       /\ handouts[j] = 0 => ~Ends(job[j], posted, j) /\ \A a \in Agents : ~Holds(agent[a], j)
       /\ handouts[j] = 1 =>
            /\ \A a, b \in Agents : Holds(agent[a], j) /\ Holds(agent[b], j) => a = b
            /\ \A a \in Agents : Holds(agent[a], j) =>
                 ~Ends(job[j], posted, j) /\ (j \notin lost => Accounts(agent[a], row[j]))
            /\ Ends(job[j], posted, j) /\ j \notin lost => Whole(row[j], job[j])

LEMMA InitTInv == Init => TInv
<1> SUFFICES ASSUME Init PROVE TInv
  OBVIOUS
<1>1. \A a \in Agents : Emptied(agent[a])
  BY DEF Init, Emptied, Resting, Silent
<1>2. \A j \in Jobs : handouts[j] = 0 /\ ~Ends(job[j], posted, j)
  BY DEF Init, Ends, Ended
<1>3. \A j \in Jobs, a \in Agents : ~Holds(agent[a], j)
  BY DEF Init, Holds, Resting
<1> QED
  BY <1>1, <1>2, <1>3 DEF TInv

(* A step of one agent that is not given a job: whoever has a job accounts *)
(* for it as before, or ends it as it should end.                          *)
LEMMA AgentTStep ==
  ASSUME TInv, NEW a \in Agents, Moves(a), Emptied(agent'[a]),
         UNCHANGED handouts, lost \subseteq lost',
         \A j \in Jobs : Holds(agent'[a], j) => Holds(agent[a], j),
         \A j \in Jobs : Holds(agent[a], j) \/ (/\ row'[j] = row[j] /\ job'[j] = job[j]
                                          /\ Ends(job'[j], posted', j) = Ends(job[j], posted, j)),
         \A j \in Jobs :
           /\ Holds(agent[a], j) /\ handouts[j] = 1 /\ ~Ends(job[j], posted, j)
           /\ j \notin lost' => Accounts(agent[a], row[j])
           => /\ Holds(agent'[a], j) =>
                   ~Ends(job'[j], posted', j) /\ (j \notin lost' => Accounts(agent'[a], row'[j]))
              /\ Ends(job'[j], posted', j) /\ j \notin lost' => Whole(row'[j], job'[j])
  PROVE  TInv'
<1>1. \A b \in Agents \ {a} : agent'[b] = agent[b]
  BY DEF Moves
<1>2. \A b \in Agents : Emptied(agent'[b])
  BY <1>1 DEF TInv
<1>3. ASSUME NEW j \in Jobs, handouts[j] = 0
      PROVE  ~Ends(job'[j], posted', j) /\ \A b \in Agents : ~Holds(agent'[b], j)
  BY <1>1, <1>3 DEF TInv
<1>4. ASSUME NEW j \in Jobs, handouts[j] = 1
      PROVE  /\ \A b, c \in Agents : Holds(agent'[b], j) /\ Holds(agent'[c], j) => b = c
             /\ \A b \in Agents : Holds(agent'[b], j) =>
                  ~Ends(job'[j], posted', j) /\ (j \notin lost' => Accounts(agent'[b], row'[j]))
             /\ Ends(job'[j], posted', j) /\ j \notin lost' => Whole(row'[j], job'[j])
  <2>1. \A b \in Agents : Holds(agent'[b], j) => Holds(agent[b], j)
    BY <1>1
  <2>2. /\ \A b, c \in Agents : Holds(agent[b], j) /\ Holds(agent[c], j) => b = c
        /\ \A b \in Agents : Holds(agent[b], j) =>
             ~Ends(job[j], posted, j) /\ (j \notin lost => Accounts(agent[b], row[j]))
        /\ Ends(job[j], posted, j) /\ j \notin lost => Whole(row[j], job[j])
    BY <1>4 DEF TInv
  <2>3. CASE Holds(agent[a], j)
    <3>1. \A b \in Agents : Holds(agent'[b], j) => b = a
      BY <2>1, <2>2, <2>3
    <3> QED
      BY <1>4, <2>1, <2>2, <2>3, <3>1
  <2>4. CASE ~Holds(agent[a], j)
    <3>1. /\ row'[j] = row[j] /\ job'[j] = job[j]
          /\ Ends(job'[j], posted', j) = Ends(job[j], posted, j)
      BY <2>4
    <3>2. \A b \in Agents : Holds(agent'[b], j) => b # a /\ agent'[b] = agent[b]
      BY <1>1, <2>4
    <3> QED
      BY <2>1, <2>2, <3>1, <3>2
  <2> QED
    BY <2>3, <2>4
<1> QED
  BY <1>2, <1>3, <1>4 DEF TInv

(* The same, where the portal's tables are left alone.                     *)
LEMMA LocalTStep ==
  ASSUME TInv, NEW a \in Agents, Moves(a), Emptied(agent'[a]),
         UNCHANGED <<job, row, handouts, posted>>, lost \subseteq lost',
         \A j \in Jobs : Holds(agent'[a], j) => Holds(agent[a], j),
         \A j \in Jobs :
           /\ Holds(agent'[a], j) /\ j \notin lost' /\ ~Ends(job[j], posted, j)
           /\ Accounts(agent[a], row[j])
           => Accounts(agent'[a], row[j])
  PROVE  TInv'
  BY AgentTStep

LEMMA RestingT ==
  ASSUME NEW s, NEW pc \in Unready, s = Resting(pc)
  PROVE  Emptied(s) /\ \A j \in Jobs : ~Holds(s, j)
  BY PstJobAssumption DEF Emptied, Resting, Silent, Holds, Unready

LEMMA RestsTInv ==
  ASSUME IInv, TInv, NEW a \in Agents, RunJobFails(a) \/ Crash(a) \/ Restart(a)
  PROVE  TInv'
<1>1. PICK pc \in Unready : agent' = [agent EXCEPT ![a] = Resting(pc)]
  BY DEF RunJobFails, Crash, Restart, Unready
<1>2. UNCHANGED <<job, row, handouts, lost, posted>>
  BY DEF RunJobFails, Crash, Restart, observers
<1>3. Moves(a) /\ agent'[a] = Resting(pc)
  BY <1>1, RestingMoves DEF IInv, TypeOK
<1>4. Emptied(agent'[a]) /\ \A j \in Jobs : ~Holds(agent'[a], j)
  BY <1>3, RestingT
<1> QED
  BY <1>2, <1>3, <1>4, LocalTStep

(* A mailbox that is given up, or a batch that is lost, makes its job a    *)
(* lost one.                                                               *)
LEMMA LostTStep ==
  ASSUME IInv, TInv, NEW a \in Agents, agent[a].pc \in {"run", "items", "flush"},
         Moves(a), Emptied(agent'[a]), UNCHANGED <<job, handouts, posted>>,
         lost' = lost \cup {agent[a].job},
         \A j \in Jobs : Holds(agent'[a], j) => Holds(agent[a], j),
         \A j \in Jobs : j # agent[a].job => row'[j] = row[j]
  PROVE  TInv'
<1>1. \A j \in Jobs : Holds(agent[a], j) <=> j = agent[a].job
  BY DEF Holds
<1>2. \A j \in Jobs : Holds(agent[a], j) => j \in lost'
  BY <1>1
<1>3. \A j \in Jobs : Ends(job'[j], posted', j) = Ends(job[j], posted, j)
  OBVIOUS
<1> QED
  BY <1>1, <1>2, <1>3, AgentTStep

LEMMA AbandonedT ==
  ASSUME IInv, NEW a \in Agents, agent[a].pc \in {"items", "flush"},
         NEW next \in Abandoned(a), agent' = [agent EXCEPT ![a] = next]
  PROVE  Moves(a) /\ Emptied(agent'[a]) /\ \A j \in Jobs : Holds(agent'[a], j) => Holds(agent[a], j)
<1>1. agent \in [Agents -> Agent] /\ agent[a] \in Agent
  BY AgentKnown DEF IInv, TypeOK
<1>2. CASE next = Resting("stopped")
  <2>1. "stopped" \in Unready
    BY DEF Unready
  <2>2. Moves(a) /\ agent'[a] = Resting("stopped")
    BY <1>1, <1>2, <2>1, RestingMoves
  <2> QED
    BY <2>1, <2>2, RestingT
<1>3. CASE next = [Resting("run") EXCEPT !.job = agent[a].job, !.left = agent[a].left]
  <2>1. next.job = agent[a].job /\ next.said = Silent /\ next.batch = {} /\ next \in Agent
    BY <1>1, <1>3 DEF Resting, Silent, ItemStatus, Agent, Pc
  <2>2. Moves(a) /\ agent'[a] = next
    BY <1>1, <2>1 DEF Moves
  <2> QED
    BY <2>1, <2>2 DEF Emptied, Silent, Holds
<1> QED
  BY <1>2, <1>3 DEF Abandoned, JobOf

LEMMA MailboxLostTInv ==
  ASSUME IInv, TInv, NEW a \in Agents, NEW b \in Mailboxes, RunMailboxFails(a, b)
  PROVE  TInv'
<1>1. agent \in [Agents -> Agent] /\ agent[a] \in Agent /\ Emptied(agent[a])
  BY AgentKnown DEF IInv, TypeOK, TInv
<1>2. /\ UNCHANGED <<job, row, handouts, posted>> /\ lost' = lost \cup {agent[a].job}
      /\ agent[a].pc = "run"
  BY DEF RunMailboxFails, RunNext, Loses, JobOf, At
<1>3. CASE agent' = [agent EXCEPT ![a] = Resting("stopped")]
  <2>1. "stopped" \in Unready
    BY DEF Unready
  <2>2. Moves(a) /\ agent'[a] = Resting("stopped")
    BY <1>1, <1>3, <2>1, RestingMoves
  <2>3. Emptied(agent'[a]) /\ \A j \in Jobs : ~Holds(agent'[a], j)
    BY <2>1, <2>2, RestingT
  <2> QED
    BY <1>2, <2>2, <2>3, LostTStep
<1>4. CASE agent' = [agent EXCEPT ![a].left = @ \ {b}]
  <2>1. /\ agent'[a].pc = agent[a].pc /\ agent'[a].job = agent[a].job
        /\ agent'[a].said = agent[a].said /\ agent'[a].batch = agent[a].batch
        /\ agent'[a] \in Agent
    BY <1>1, <1>4 DEF Agent
  <2>2. Moves(a)
    BY <1>1, <1>4, <2>1 DEF Moves
  <2>3. Emptied(agent'[a]) /\ \A j \in Jobs : Holds(agent'[a], j) => Holds(agent[a], j)
    BY <1>1, <2>1 DEF Emptied, Holds
  <2> QED
    BY <1>2, <2>2, <2>3, LostTStep
<1> QED
  BY <1>3, <1>4 DEF RunMailboxFails

LEMMA ItemLostTInv ==
  ASSUME IInv, TInv, NEW a \in Agents, NEW x \in Items, NextItem(a, x),
         NEW next \in Abandoned(a), agent' = [agent EXCEPT ![a] = next],
         UNCHANGED <<job, row, handouts, posted>>, lost' = lost \cup {agent[a].job}
  PROVE  TInv'
<1>1. agent[a].pc = "items"
  BY DEF NextItem, At
<1>2. Moves(a) /\ Emptied(agent'[a]) /\ \A j \in Jobs : Holds(agent'[a], j) => Holds(agent[a], j)
  BY <1>1, AbandonedT
<1> QED
  BY <1>1, <1>2, LostTStep

LEMMA CreateThrowsTInv ==
  ASSUME IInv, TInv, NEW a \in Agents, NEW x \in Items, CreateThrows(a, x)
  PROVE  TInv'
<1>1. /\ NextItem(a, x) /\ UNCHANGED <<job, row, handouts, posted>>
      /\ lost' = lost \cup {agent[a].job}
  BY DEF CreateThrows, Loses, JobOf
<1>2. PICK next \in Abandoned(a) : agent' = [agent EXCEPT ![a] = next]
  BY DEF CreateThrows
<1> QED
  BY <1>1, <1>2, ItemLostTInv

LEMMA RunTInv ==
  ASSUME IInv, TInv, NEW a \in Agents, RunJob(a) \/ MailboxDone(a)
  PROVE  TInv'
<1>1. agent \in [Agents -> Agent] /\ agent[a] \in Agent /\ Tidy(agent[a]) /\ Emptied(agent[a])
  BY AgentKnown DEF IInv, TypeOK, TInv
<1>2. UNCHANGED <<job, row, handouts, lost, posted>>
  BY DEF RunJob, MailboxDone, observers
<1>3. /\ agent'[a].pc = "run" /\ agent'[a].job = agent[a].job
      /\ agent'[a].said = agent[a].said /\ agent[a].batch = {} /\ agent'[a].batch = {}
      /\ agent'[a] \in Agent
      /\ \/ agent[a].pc = "granted" /\ agent'[a].left = Mailboxes
         \/ /\ agent[a].pc = "items" /\ agent'[a].left = agent[a].left
            /\ agent[a].todo = {}
  <2>1. CASE RunJob(a)
    BY <1>1, <2>1 DEF RunJob, At, Agent, Pc, Emptied
  <2>2. CASE MailboxDone(a)
    BY <1>1, <2>2 DEF MailboxDone, At, Agent, Pc
  <2> QED
    BY <2>1, <2>2
<1>4. Moves(a)
  BY <1>1, <1>3 DEF RunJob, MailboxDone, Moves
<1>5. Emptied(agent'[a]) /\ \A j \in Jobs : Holds(agent'[a], j) => Holds(agent[a], j)
  BY <1>1, <1>3 DEF Emptied, Holds
<1>6. ASSUME NEW j \in Jobs, Accounts(agent[a], row[j]) PROVE Accounts(agent'[a], row[j])
  <2>1. \A m \in Items : BoxOf[m] \in Mailboxes /\ agent[a].said[IdOf[m]] = "none"
    BY <1>1, <1>3, PstJobAssumption DEF Emptied
  <2> QED
    BY <1>3, <1>6, <2>1 DEF Accounts
<1> QED
  BY <1>2, <1>4, <1>5, <1>6, LocalTStep

LEMMA RunMailboxTInv ==
  ASSUME IInv, TInv, NEW a \in Agents, NEW b \in Mailboxes, RunMailbox(a, b)
  PROVE  TInv'
<1>1. agent \in [Agents -> Agent] /\ agent[a] \in Agent /\ Tidy(agent[a]) /\ Emptied(agent[a])
  BY AgentKnown DEF IInv, TypeOK, TInv
<1>2. UNCHANGED <<job, row, handouts, lost, posted>>
  BY DEF RunMailbox, observers
<1>3. /\ agent[a].pc = "run" /\ agent'[a].pc = "items" /\ agent'[a].job = agent[a].job
      /\ agent'[a].left = agent[a].left \ {b} /\ agent[a].todo = {}
      /\ agent'[a].todo = {m \in ItemsOf(b) : IdOf[m] \notin Handled(agent[a].job)}
      /\ agent'[a].said = agent[a].said /\ agent'[a].batch = agent[a].batch
      /\ agent[a].batch = {} /\ agent'[a] \in Agent
  BY <1>1 DEF RunMailbox, RunNext, At, JobOf, ItemsOf, Agent, Pc, Tidy, Emptied
<1>4. Moves(a)
  BY <1>1, <1>3 DEF RunMailbox, Moves
<1>5. Emptied(agent'[a]) /\ \A j \in Jobs : Holds(agent'[a], j) => Holds(agent[a], j)
  BY <1>1, <1>3 DEF Emptied, Holds
<1>6. ASSUME NEW j \in Jobs, Holds(agent'[a], j), Accounts(agent[a], row[j])
      PROVE  Accounts(agent'[a], row[j])
  <2>1. agent[a].job = j
    BY <1>3, <1>6 DEF Holds
  <2>2. ASSUME NEW m \in Items, ModeOf[m] # "disabled"
        PROVE  row[j][IdOf[m]] # "none" \/ BoxOf[m] \in agent'[a].left \/ m \in agent'[a].todo
    <3>1. IdOf[m] \in Ids /\ agent[a].said[IdOf[m]] = "none"
      BY <1>1, <1>3, PstJobAssumption DEF Emptied
    <3>2. row[j][IdOf[m]] # "none" \/ BoxOf[m] \in agent[a].left
      BY <1>1, <1>3, <1>6, <2>2, <3>1 DEF Accounts, Tidy
    <3>3. CASE BoxOf[m] = b
      <4>1. m \in ItemsOf(b)
        BY <2>2, <3>3 DEF ItemsOf
      <4>2. IdOf[m] \in Handled(j) => row[j][IdOf[m]] # "none"
        BY DEF Handled
      <4> QED
        BY <1>3, <2>1, <4>1, <4>2
    <3>4. CASE BoxOf[m] # b
      BY <1>3, <3>2, <3>4
    <3> QED
      BY <3>3, <3>4
  <2> QED
    BY <1>3, <2>2 DEF Accounts
<1> QED
  BY <1>2, <1>4, <1>5, <1>6, LocalTStep

(* An item that was recorded is in the batch.                              *)
LEMMA RecordedTInv ==
  ASSUME IInv, TInv, NEW a \in Agents, NEW x \in Items, NextItem(a, x),
         NEW status \in ItemStatus, status # "none", Record(a, x, status),
         UNCHANGED <<job, row, handouts, lost, posted>>
  PROVE  TInv'
<1>1. /\ Moves(a) /\ agent'[a].job = agent[a].job
      /\ \A id \in Ids : agent'[a].said[id] = IF id = IdOf[x] THEN status ELSE agent[a].said[id]
      /\ agent[a].pc = "items" /\ agent'[a].pc = "items" /\ agent'[a].left = agent[a].left
      /\ agent'[a].todo = agent[a].todo \ {x} /\ agent'[a].batch = agent[a].batch \cup {x}
  BY RecordMoves
<1>2. \A j \in Jobs : Holds(agent'[a], j) => Holds(agent[a], j)
  BY <1>1 DEF Holds
<1>3. Emptied(agent'[a])
  <2>1. ASSUME NEW id \in Ids, agent'[a].said[id] # "none"
        PROVE  \E m \in agent'[a].batch : IdOf[m] = id
    <3>1. CASE id = IdOf[x]
      BY <1>1, <3>1
    <3>2. CASE id # IdOf[x]
      <4>1. PICK m \in agent[a].batch : IdOf[m] = id
        BY <1>1, <2>1, <3>2 DEF TInv, Emptied
      <4> QED
        BY <1>1, <4>1
    <3> QED
      BY <3>1, <3>2
  <2> QED
    BY <1>1, <2>1 DEF Emptied
<1>4. ASSUME NEW j \in Jobs, Accounts(agent[a], row[j]) PROVE Accounts(agent'[a], row[j])
  <2>1. ASSUME NEW m \in Items, ModeOf[m] # "disabled"
        PROVE  \/ row[j][IdOf[m]] # "none" \/ BoxOf[m] \in agent'[a].left
               \/ m \in agent'[a].todo \/ agent'[a].said[IdOf[m]] # "none"
    <3>1. IdOf[m] \in Ids
      BY PstJobAssumption
    <3>2. \/ row[j][IdOf[m]] # "none" \/ BoxOf[m] \in agent[a].left
          \/ m \in agent[a].todo \/ agent[a].said[IdOf[m]] # "none"
      BY <1>1, <1>4, <2>1 DEF Accounts
    <3> QED
      BY <1>1, <3>1, <3>2
  <2> QED
    BY <1>1, <2>1 DEF Accounts
<1> QED
  BY <1>1, <1>2, <1>3, <1>4, LocalTStep

LEMMA CreateTInv ==
  ASSUME IInv, TInv, NEW a \in Agents, NEW x \in Items, Create(a, x) \/ Skip(a, x) \/ CreateFails(a, x)
  PROVE  TInv'
<1>1. NextItem(a, x) /\ UNCHANGED <<job, row, handouts, lost, posted>>
  BY DEF Create, Skip, CreateFails, NextImport, observers
<1>2. PICK status \in {"Completed", "Skipped", "Failed"} : Record(a, x, status)
  BY DEF Create, Skip, CreateFails
<1>3. status \in ItemStatus /\ status # "none"
  BY DEF ItemStatus
<1> QED
  BY <1>1, <1>2, <1>3, RecordedTInv

LEMMA CreateRepeatedTInv ==
  ASSUME IInv, TInv, NEW a \in Agents, NEW x \in Items, CreateRepeated(a, x)
  PROVE  TInv'
<1>1. NextItem(a, x) /\ UNCHANGED <<job, row, handouts, posted>>
  BY DEF CreateRepeated, NextImport
<1>2. \/ (Record(a, x, "Completed") \/ Record(a, x, "Failed")) /\ UNCHANGED lost
      \/ /\ \E next \in Abandoned(a) : agent' = [agent EXCEPT ![a] = next]
         /\ lost' = lost \cup {agent[a].job}
  BY DEF CreateRepeated, JobOf
<1>3. ASSUME NEW status \in {"Completed", "Failed"}, Record(a, x, status), UNCHANGED lost
      PROVE  TInv'
  <2>1. status \in ItemStatus /\ status # "none"
    BY DEF ItemStatus
  <2> QED
    BY <1>1, <1>3, <2>1, RecordedTInv
<1>4. ASSUME NEW next \in Abandoned(a), agent' = [agent EXCEPT ![a] = next],
             lost' = lost \cup {agent[a].job}
      PROVE  TInv'
  BY <1>1, <1>4, ItemLostTInv
<1> QED
  BY <1>2, <1>3, <1>4

LEMMA FlushTInv ==
  ASSUME IInv, TInv, NEW a \in Agents, Flush(a)
  PROVE  TInv'
<1>1. agent \in [Agents -> Agent] /\ agent[a] \in Agent /\ Emptied(agent[a])
  BY AgentKnown DEF IInv, TypeOK, TInv
<1>2. UNCHANGED <<job, row, handouts, lost, posted>>
  BY DEF Flush, observers
<1> DEFINE found == [id \in Ids |-> IF agent[a].said[id] = "none" THEN "none"
                                    ELSE row[agent[a].job][id]]
<1>3. /\ agent[a].pc = "items" /\ agent'[a].pc = "flush" /\ agent'[a].job = agent[a].job
      /\ agent'[a].left = agent[a].left /\ agent'[a].todo = agent[a].todo
      /\ agent'[a].said = agent[a].said /\ agent'[a].batch = agent[a].batch
      /\ agent'[a].seen = found
  <2>1. agent'[a] = [agent[a] EXCEPT !.pc = "flush", !.seen = found] /\ agent[a].pc = "items"
    BY <1>1 DEF Flush, Sent, At, JobOf
  <2> HIDE DEF found
  <2> QED
    BY <1>1, <2>1 DEF Agent
<1>4. Moves(a)
  <2>1. IInv'
    BY FlushIInv
  <2>2. agent' \in [Agents -> Agent]
    BY <2>1 DEF IInv, TypeOK
  <2> QED
    BY <1>1, <2>2 DEF Flush, Sent, Moves
<1>5. Emptied(agent'[a]) /\ \A j \in Jobs : Holds(agent'[a], j) => Holds(agent[a], j)
  BY <1>1, <1>3 DEF Emptied, Holds
<1>6. ASSUME NEW j \in Jobs, Holds(agent'[a], j), Accounts(agent[a], row[j])
      PROVE  Accounts(agent'[a], row[j])
  <2>1. agent[a].job = j
    BY <1>3, <1>6 DEF Holds
  <2>2. \A id \in Ids : agent'[a].seen[id] # "none" =>
          agent'[a].said[id] # "none" /\ row[j][id] # "none"
    BY <1>3, <2>1
  <2> QED
    BY <1>3, <1>6, <2>2 DEF Accounts
<1> QED
  BY <1>2, <1>4, <1>5, <1>6, LocalTStep

LEMMA ClearedMoves ==
  ASSUME IInv, NEW a \in Agents, agent[a].pc = "flush", Cleared(a)
  PROVE  /\ Moves(a) /\ Emptied(agent'[a])
         /\ agent'[a].pc = "items" /\ agent'[a].job = agent[a].job
         /\ agent'[a].left = agent[a].left /\ agent'[a].todo = agent[a].todo
         /\ \A j \in Jobs : Holds(agent'[a], j) => Holds(agent[a], j)
<1>1. agent \in [Agents -> Agent] /\ agent[a] \in Agent
  BY AgentKnown DEF IInv, TypeOK
<1>2. /\ agent'[a].pc = "items" /\ agent'[a].job = agent[a].job
      /\ agent'[a].left = agent[a].left /\ agent'[a].todo = agent[a].todo
      /\ agent'[a].batch = {} /\ agent'[a].said = Silent /\ agent'[a] \in Agent
  BY <1>1 DEF Cleared, Silent, ItemStatus, Agent, Pc
<1>3. Moves(a)
  BY <1>1, <1>2 DEF Cleared, Moves
<1> QED
  BY <1>2, <1>3 DEF Emptied, Silent, Holds

(* What is saved has a row: the one that was found, or a new one.          *)
LEMMA FlushSavedTInv ==
  ASSUME IInv, TInv, NEW a \in Agents, FlushSaved(a)
  PROVE  TInv'
<1>1. /\ agent[a] \in Agent /\ Tidy(agent[a]) /\ row \in [Jobs -> [Ids -> ItemStatus]]
  BY AgentKnown DEF IInv, TypeOK
<1> DEFINE k == agent[a].job
<1>2. UNCHANGED <<job, handouts, lost, posted>> /\ agent[a].pc = "flush"
  BY DEF FlushSaved, observers, At
<1>3. /\ Moves(a) /\ Emptied(agent'[a])
      /\ agent'[a].pc = "items" /\ agent'[a].job = k
      /\ agent'[a].left = agent[a].left /\ agent'[a].todo = agent[a].todo
      /\ \A j \in Jobs : Holds(agent'[a], j) => Holds(agent[a], j)
  BY <1>2, ClearedMoves DEF FlushSaved
<1>4. k \in Jobs /\ \A j \in Jobs : Holds(agent[a], j) <=> j = k
  BY <1>1, <1>2 DEF Tidy, Unready, Holds
<1>5. /\ \A j \in Jobs : j # k => row'[j] = row[j]
      /\ \A id \in Ids : row'[k][id] = IF agent[a].said[id] = agent[a].seen[id] THEN row[k][id]
                                      ELSE agent[a].said[id]
  BY <1>1, <1>4 DEF FlushSaved, Reported, JobOf
<1>6. ASSUME Accounts(agent[a], row[k]) PROVE Accounts(agent'[a], row'[k])
  <2>1. ASSUME NEW m \in Items, ModeOf[m] # "disabled"
        PROVE  \/ row'[k][IdOf[m]] # "none" \/ BoxOf[m] \in agent'[a].left
               \/ m \in agent'[a].todo
    <3>1. IdOf[m] \in Ids
      BY PstJobAssumption
    <3>2. \/ row[k][IdOf[m]] # "none" \/ BoxOf[m] \in agent[a].left
          \/ m \in agent[a].todo \/ agent[a].said[IdOf[m]] # "none"
      BY <1>2, <1>6, <2>1 DEF Accounts
    <3>3. agent[a].seen[IdOf[m]] # "none" =>
            agent[a].said[IdOf[m]] # "none" /\ row[k][IdOf[m]] # "none"
      BY <1>2, <1>6, <3>1 DEF Accounts
    <3>4. row'[k][IdOf[m]] = IF agent[a].said[IdOf[m]] = agent[a].seen[IdOf[m]]
                             THEN row[k][IdOf[m]] ELSE agent[a].said[IdOf[m]]
      BY <1>5, <3>1
    <3> QED
      BY <1>3, <3>2, <3>3, <3>4
  <2> QED
    BY <1>3, <2>1 DEF Accounts
<1>7. \A j \in Jobs : Ends(job'[j], posted', j) = Ends(job[j], posted, j)
  BY <1>2
<1> QED
  BY <1>2, <1>3, <1>4, <1>5, <1>6, <1>7, AgentTStep

LEMMA FlushLosesTInv ==
  ASSUME IInv, TInv, NEW a \in Agents, FlushConflict(a) \/ FlushRefused(a) \/ FlushThrows(a)
  PROVE  TInv'
<1>1. agent[a].pc = "flush" /\ row \in [Jobs -> [Ids -> ItemStatus]]
  BY DEF FlushConflict, FlushRefused, FlushThrows, At, IInv, TypeOK
<1>2. UNCHANGED <<job, handouts, posted>> /\ lost' = lost \cup {agent[a].job}
  BY DEF FlushConflict, FlushRefused, FlushThrows, Loses, JobOf
<1>3. \A j \in Jobs : j # agent[a].job => row'[j] = row[j]
  BY <1>1 DEF FlushConflict, FlushRefused, FlushThrows, Reported, JobOf
<1>4. Moves(a) /\ Emptied(agent'[a]) /\ \A j \in Jobs : Holds(agent'[a], j) => Holds(agent[a], j)
  <2>1. CASE Cleared(a)
    BY <1>1, <2>1, ClearedMoves
  <2>2. ASSUME NEW next \in Abandoned(a), agent' = [agent EXCEPT ![a] = next]
        PROVE  Moves(a) /\ Emptied(agent'[a]) /\ \A j \in Jobs : Holds(agent'[a], j) => Holds(agent[a], j)
    BY <1>1, <2>2, AbandonedT
  <2> QED
    BY <2>1, <2>2 DEF FlushConflict, FlushRefused, FlushThrows
<1> QED
  BY <1>1, <1>2, <1>3, <1>4, LostTStep

(* Nothing is left: every item has a row, and the verdict is of the rows.  *)
LEMMA CompleteTInv ==
  ASSUME IInv, TInv, NEW a \in Agents, Complete(a)
  PROVE  TInv'
<1>1. /\ agent \in [Agents -> Agent] /\ agent[a] \in Agent /\ Tidy(agent[a]) /\ Emptied(agent[a])
      /\ row \in [Jobs -> [Ids -> ItemStatus]]
  BY AgentKnown DEF IInv, TypeOK, TInv
<1> DEFINE k == agent[a].job
<1>2. UNCHANGED <<job, row, handouts, lost, posted>>
  BY DEF Complete, observers
<1>3. /\ agent[a].pc = "run" /\ agent'[a].pc = "complete" /\ agent'[a].job = k
      /\ agent[a].left = {} /\ agent[a].todo = {} /\ agent[a].batch = {}
      /\ agent'[a].said = agent[a].said /\ agent'[a].batch = {}
      /\ agent'[a].verdict = IF Verdict(k) = job[k] THEN "same" ELSE Verdict(k)
      /\ agent'[a] \in Agent
  BY <1>1 DEF Complete, At, JobOf, Tidy, Emptied, Agent, Pc, Verdict, Ended
<1>4. Moves(a)
  BY <1>1, <1>3 DEF Complete, Moves
<1>5. Emptied(agent'[a]) /\ \A j \in Jobs : Holds(agent'[a], j) => Holds(agent[a], j)
  BY <1>1, <1>3 DEF Emptied, Holds
<1>6. ASSUME NEW j \in Jobs, Holds(agent'[a], j), Accounts(agent[a], row[j])
      PROVE  Accounts(agent'[a], row[j])
  <2>1. k = j
    BY <1>3, <1>6 DEF Holds
  <2>2. ASSUME NEW m \in Items, ModeOf[m] # "disabled"
        PROVE  row[j][IdOf[m]] \in ItemStatus \ {"none"}
    <3>1. IdOf[m] \in Ids
      BY PstJobAssumption
    <3>2. agent[a].said[IdOf[m]] = "none"
      BY <1>1, <1>3, <3>1 DEF Emptied
    <3>3. row[j][IdOf[m]] # "none"
      BY <1>3, <1>6, <2>2, <3>2 DEF Accounts
    <3> QED
      BY <1>1, <3>1, <3>3
  <2>3. Verdict(j) \in Ended
    BY DEF Verdict, Ended
  <2>4. agent'[a].verdict = "same" \/ agent'[a].verdict = Verdict(j)
    BY <1>3, <2>1
  <2>5. Whole(row[j], Verdict(j))
    <3> SUFFICES ASSUME NEW m \in Items, ModeOf[m] # "disabled"
                 PROVE  /\ row[j][IdOf[m]] # "none"
                        /\ Verdict(j) = "Completed" => row[j][IdOf[m]] \in {"Completed", "Skipped"}
      BY DEF Whole
    <3>1. IdOf[m] \in Ids
      BY PstJobAssumption
    <3> QED
      BY <2>2, <3>1 DEF Verdict, ItemStatus
  <2>6. \A m \in Items : ModeOf[m] # "disabled" => row[j][IdOf[m]] # "none"
    BY <2>2
  <2> QED
    BY <1>3, <2>3, <2>4, <2>5, <2>6 DEF Accounts
<1> QED
  BY <1>2, <1>4, <1>5, <1>6, LocalTStep

LEMMA CompletedTInv ==
  ASSUME IInv, TInv, NEW a \in Agents, CompleteSaved(a) \/ CompleteFails(a)
  PROVE  TInv'
<1>1. agent[a] \in Agent /\ Tidy(agent[a]) /\ job \in [Jobs -> JobStatus]
  BY AgentKnown DEF IInv, TypeOK
<1> DEFINE k == agent[a].job
<1>2. /\ UNCHANGED <<row, handouts, lost>> /\ agent[a].pc = "complete"
      /\ Concludes(a) \/ UNCHANGED <<job, posted>>
  BY DEF CompleteSaved, CompleteFails, At
<1>3. k \in Jobs /\ \A j \in Jobs : Holds(agent[a], j) <=> j = k
  BY <1>1, <1>2 DEF Tidy, Unready, Holds
<1>4. PICK pc \in Unready : agent' = [agent EXCEPT ![a] = Resting(pc)]
  BY DEF CompleteSaved, CompleteFails, Unready
<1>5. Moves(a) /\ agent'[a] = Resting(pc)
  BY <1>4, RestingMoves DEF IInv, TypeOK
<1>6. Emptied(agent'[a]) /\ \A j \in Jobs : ~Holds(agent'[a], j)
  BY <1>5, RestingT
<1>7. \/ UNCHANGED <<job, posted>>
      \/ /\ agent[a].verdict # "same" /\ job' = [job EXCEPT ![k] = agent[a].verdict]
         /\ posted' = posted \ {k}
  BY <1>2 DEF Concludes, Concluded, JobOf
<1>8. \A j \in Jobs : j # k => /\ job'[j] = job[j]
                              /\ Ends(job'[j], posted', j) = Ends(job[j], posted, j)
  BY <1>1, <1>7 DEF Ends
<1>9. ASSUME ~Ends(job[k], posted, k), Accounts(agent[a], row[k]), Ends(job'[k], posted', k)
      PROVE  Whole(row[k], job'[k])
  <2>1. agent[a].verdict # "same" /\ job'[k] = agent[a].verdict
    BY <1>1, <1>3, <1>7, <1>9
  <2> QED
    BY <1>2, <1>9, <2>1 DEF Accounts
<1>10. lost \subseteq lost' /\ UNCHANGED handouts
  BY <1>2
<1>11. \A j \in Jobs : \/ Holds(agent[a], j)
                      \/ /\ row'[j] = row[j] /\ job'[j] = job[j]
                         /\ Ends(job'[j], posted', j) = Ends(job[j], posted, j)
  BY <1>2, <1>3, <1>8
<1>12. ASSUME NEW j \in Jobs, Holds(agent[a], j), handouts[j] = 1, ~Ends(job[j], posted, j),
              j \notin lost' => Accounts(agent[a], row[j])
       PROVE  Ends(job'[j], posted', j) /\ j \notin lost' => Whole(row'[j], job'[j])
  BY <1>2, <1>3, <1>9, <1>12
<1> QED
  BY <1>5, <1>6, <1>10, <1>11, <1>12, AgentTStep

(* A job that is created, or whose status an operator posts, was not ended *)
(* by an agent.                                                            *)
LEMMA PostedTInv ==
  ASSUME IInv, TInv, NEW k \in Jobs,
         CreateJob(k) \/ \E status \in Settable : UpdateStatus(k, status)
  PROVE  TInv'
<1>1. UNCHANGED <<row, agent, handouts, lost>>
  BY DEF CreateJob, UpdateStatus, observers
<1>2. /\ \A j \in Jobs : j # k => job'[j] = job[j] /\ (j \in posted' <=> j \in posted)
      /\ job'[k] \notin Ended \/ k \in posted'
  BY DEF CreateJob, UpdateStatus, observers, IInv, TypeOK, Ended
<1>3. \A j \in Jobs : Ends(job'[j], posted', j) => j # k /\ Ends(job[j], posted, j)
  BY <1>2 DEF Ends
<1>4. \A a \in Agents : Emptied(agent'[a])
  BY <1>1 DEF TInv
<1> QED
  BY <1>1, <1>2, <1>3, <1>4 DEF TInv

LEMMA NextJobTInv ==
  ASSUME IInv, TInv, NEW a \in Agents, NextJob(a)
  PROVE  TInv'
<1>1. agent \in [Agents -> Agent] /\ agent[a] \in Agent /\ Emptied(agent[a]) /\ agent[a].pc = "idle"
  BY AgentKnown DEF IInv, TypeOK, TInv, NextJob, At
<1>2. UNCHANGED <<job, row, handouts, lost, posted>>
  BY DEF NextJob, observers
<1>3. PICK j \in Jobs : agent' = [agent EXCEPT ![a].pc = "offered", ![a].job = j]
  BY DEF NextJob
<1>4. /\ agent'[a].pc = "offered" /\ agent'[a].said = agent[a].said
      /\ agent'[a].batch = agent[a].batch /\ agent[a].batch = {}
      /\ agent'[a] \in Agent /\ agent' \in [Agents -> Agent]
      /\ \A b \in Agents \ {a} : agent'[b] = agent[b]
  BY <1>1, <1>3 DEF Emptied, Agent, Pc
<1>5. Moves(a) /\ Emptied(agent'[a]) /\ \A i \in Jobs : ~Holds(agent'[a], i)
  BY <1>1, <1>4 DEF Moves, Emptied, Holds
<1> QED
  BY <1>2, <1>5, LocalTStep

(* The first agent that gets a job has it for itself, and all of it to do. *)
LEMMA NextJobSavedTInv ==
  ASSUME IInv, TInv, NEW a \in Agents, NextJobSaved(a)
  PROVE  TInv'
<1>1. /\ agent \in [Agents -> Agent] /\ agent[a] \in Agent /\ Tidy(agent[a]) /\ Emptied(agent[a])
      /\ job \in [Jobs -> JobStatus] /\ handouts \in [Jobs -> Nat]
  BY AgentKnown DEF IInv, TypeOK, TInv
<1> DEFINE k == agent[a].job
<1>2. /\ agent[a].pc = "offered" /\ job' = [job EXCEPT ![k] = "Running"]
      /\ handouts' = [handouts EXCEPT ![k] = @ + 1] /\ UNCHANGED <<row, lost>>
      /\ posted' = posted \ {k}
  BY DEF NextJobSaved, At, JobOf
<1>3. k \in Jobs
  BY <1>1, <1>2 DEF Tidy, Unready
<1>4. /\ agent'[a].pc = "granted" /\ agent'[a].job = k
      /\ agent'[a].said = agent[a].said /\ agent'[a].batch = agent[a].batch
      /\ agent[a].batch = {}
      /\ \A b \in Agents \ {a} : agent'[b] = agent[b]
  BY <1>1, <1>2 DEF NextJobSaved, Emptied, Agent
<1>5. /\ \A j \in Jobs : j # k => job'[j] = job[j] /\ handouts'[j] = handouts[j]
      /\ handouts'[k] = handouts[k] + 1 /\ handouts[k] \in Nat
  BY <1>1, <1>2, <1>3
<1>11. /\ ~Ends(job'[k], posted', k)
       /\ \A j \in Jobs : j # k => Ends(job'[j], posted', j) = Ends(job[j], posted, j)
  BY <1>1, <1>2, <1>3, <1>5 DEF Ends, Ended
<1>6. \A b \in Agents : Emptied(agent'[b])
  BY <1>1, <1>4 DEF TInv, Emptied
<1>7. \A j \in Jobs, b \in Agents : j # k => (Holds(agent'[b], j) => Holds(agent[b], j) /\ b # a)
  BY <1>4 DEF Holds
<1>8. ASSUME handouts'[k] = 1, NEW b \in Agents, Holds(agent'[b], k)
      PROVE  b = a /\ Accounts(agent'[b], row[k])
  <2>1. handouts[k] = 0
    BY <1>5, <1>8
  <2>2. b = a
    BY <1>3, <1>4, <1>8, <2>1 DEF TInv
  <2> QED
    BY <1>4, <2>2 DEF Accounts
<1>9. ASSUME NEW j \in Jobs, j # k
      PROVE  /\ handouts'[j] = 0 => ~Ends(job'[j], posted', j) /\ \A b \in Agents : ~Holds(agent'[b], j)
             /\ handouts'[j] = 1 =>
                  /\ \A b, c \in Agents : Holds(agent'[b], j) /\ Holds(agent'[c], j) => b = c
                  /\ \A b \in Agents : Holds(agent'[b], j) =>
                       ~Ends(job'[j], posted', j) /\ (j \notin lost => Accounts(agent'[b], row[j]))
                  /\ Ends(job'[j], posted', j) /\ j \notin lost => Whole(row[j], job'[j])
  <2>1. /\ job'[j] = job[j] /\ handouts'[j] = handouts[j]
        /\ Ends(job'[j], posted', j) = Ends(job[j], posted, j)
    BY <1>5, <1>9, <1>11
  <2>2. \A b \in Agents : Holds(agent'[b], j) => Holds(agent[b], j) /\ agent'[b] = agent[b]
    BY <1>4, <1>7, <1>9
  <2> QED
    BY <2>1, <2>2 DEF TInv
<1>10. handouts'[k] # 0
  BY <1>5
<1> QED
  BY <1>2, <1>5, <1>6, <1>8, <1>9, <1>10, <1>11 DEF TInv

LEMMA StutterTInv ==
  ASSUME TInv, UNCHANGED vars
  PROVE  TInv'
  BY DEF TInv, vars

LEMMA NextTInv == IInv /\ TInv /\ [Next]_vars => TInv'
<1> SUFFICES ASSUME IInv, TInv, [Next]_vars PROVE TInv'
  OBVIOUS
<1>1. ASSUME NEW j \in Jobs, CreateJob(j) \/ \E status \in Settable : UpdateStatus(j, status)
      PROVE  TInv'
  BY <1>1, PostedTInv
<1>2. ASSUME NEW a \in Agents, NextJob(a) \/ NextJobSaved(a) PROVE TInv'
  BY <1>2, NextJobTInv, NextJobSavedTInv
<1>3. ASSUME NEW a \in Agents, RunJob(a) \/ MailboxDone(a) PROVE TInv'
  BY <1>3, RunTInv
<1>4. ASSUME NEW a \in Agents, NEW b \in Mailboxes, RunMailbox(a, b) \/ RunMailboxFails(a, b)
      PROVE  TInv'
  BY <1>4, RunMailboxTInv, MailboxLostTInv
<1>5. ASSUME NEW a \in Agents, NEW m \in Items,
             Create(a, m) \/ Skip(a, m) \/ CreateRepeated(a, m) \/ CreateFails(a, m)
               \/ CreateThrows(a, m)
      PROVE  TInv'
  BY <1>5, CreateTInv, CreateRepeatedTInv, CreateThrowsTInv
<1>6. ASSUME NEW a \in Agents,
             Flush(a) \/ FlushSaved(a) \/ FlushConflict(a) \/ FlushRefused(a) \/ FlushThrows(a)
      PROVE  TInv'
  BY <1>6, FlushTInv, FlushSavedTInv, FlushLosesTInv
<1>7. ASSUME NEW a \in Agents, Complete(a) \/ CompleteSaved(a) \/ CompleteFails(a) PROVE TInv'
  BY <1>7, CompleteTInv, CompletedTInv
<1>8. ASSUME NEW a \in Agents, RunJobFails(a) \/ Crash(a) \/ Restart(a) PROVE TInv'
  BY <1>8, RestsTInv
<1>9. CASE UNCHANGED vars
  BY <1>9, StutterTInv
<1> QED
  BY <1>1, <1>2, <1>3, <1>4, <1>5, <1>6, <1>7, <1>8, <1>9 DEF Next, Works, Fails

(* A job that its agent ended, the only one that had it, with no mailbox   *)
(* given up and no batch lost or refused, knows of every item that was to  *)
(* be read, has made none twice but for repeated POSTs, and is called      *)
(* Completed only if each that was to be imported is in the mailbox, or    *)
(* one that shares its id, and the others are listed.                      *)
THEOREM EndTellsTheTruth == Spec => []EndIsTruthful
<1>1. IInv /\ TInv => EndIsTruthful
  <2> SUFFICES ASSUME IInv, TInv, NEW j \in Jobs \ (lost \cup posted), job[j] \in Ended,
                      handouts[j] = 1, NEW m \in Items, ModeOf[m] # "disabled"
               PROVE  /\ row[j][IdOf[m]] # "none" /\ copies[j][m] <= 1 + repeats[j]
                      /\ job[j] = "Completed" =>
                           IF ModeOf[m] = "inventory" THEN row[j][IdOf[m]] = "Skipped"
                           ELSE \E n \in Items : IdOf[n] = IdOf[m] /\ copies[j][n] > 0
    BY DEF EndIsTruthful
  <2>1. Whole(row[j], job[j])
    BY DEF TInv, Ends
  <2>2. copies[j][m] <= 1 + repeats[j]
    BY CopiesOwed DEF CopiesAreOwed
  <2>3. IdOf[m] \in Ids /\ ModeOf[m] \in {"import", "inventory"}
    BY PstJobAssumption DEF Modes
  <2>4. TrueOf(j, IdOf[m], row[j][IdOf[m]])
    BY <2>3 DEF IInv, RowsAreTrue
  <2>5. ASSUME job[j] = "Completed", ModeOf[m] = "inventory" PROVE row[j][IdOf[m]] = "Skipped"
    <3>1. row[j][IdOf[m]] \in {"Completed", "Skipped"}
      BY <2>1, <2>5 DEF Whole
    <3>2. ASSUME NEW n \in Items, IdOf[n] = IdOf[m], copies[j][n] > 0 PROVE FALSE
      <4>1. ModeOf[n] = "import"
        BY <3>2 DEF IInv, Imported
      <4>2. ModeOf[n] = ModeOf[m]
        BY <3>2, PstJobAssumption
      <4> QED
        BY <2>5, <4>1, <4>2
    <3> QED
      BY <2>4, <3>1, <3>2 DEF TrueOf
  <2>6. ASSUME job[j] = "Completed", ModeOf[m] = "import"
        PROVE  \E n \in Items : IdOf[n] = IdOf[m] /\ copies[j][n] > 0
    <3>1. row[j][IdOf[m]] \in {"Completed", "Skipped"}
      BY <2>1, <2>6 DEF Whole
    <3> QED
      BY <2>4, <2>6, <3>1 DEF TrueOf
  <2>7. row[j][IdOf[m]] # "none"
    BY <2>1 DEF Whole
  <2> QED
    BY <2>2, <2>3, <2>5, <2>6, <2>7
<1> QED
  BY <1>1, InitIInv, NextIInv, InitTInv, NextTInv, PTL DEF Spec

=============================================================================
