-------------------------- MODULE DeviceAgentProofs --------------------------
(***************************************************************************)
(* No command runs more often than it was sent, however many are sent and  *)
(* whatever fails, and none is forgotten while nothing fails and none is   *)
(* wasted: an account of where each sent command can be.                   *)
(***************************************************************************)
EXTENDS DeviceAgent, TLAPS

(* What the requests under way hold: the column's own kind of value, and a *)
(* status the portal knows once it has accepted the call.                  *)
Requests ==
  /\ ask.column = "status" => ask.value \in DeviceStatus
  /\ ask.column = "command" => ask.value \in Commands
  /\ call.at = "sent" => call.report \in Step
  /\ call.at = "read" => call.report \in DeviceStatus

(* The agent holds a command only between the answer and its execution.    *)
HeldBriefly == agent.cmd # None => Ready("answer")

(* A command is in the row, or read from it by a check-in that will clear  *)
(* it, or both: one sending is enough for either.                          *)
InRow(c) == pending = c \/ (call.at = "read" /\ call.command = c)
Outstanding(c) ==
  (IF agent.cmd = c THEN 1 ELSE 0) + (IF InRow(c) THEN 1 ELSE 0)
Accounted == \A c \in Commands : ran[c] + Outstanding(c) <= asked[c]

(* The account is exact until something fails or is wasted: the command a  *)
(* check-in read is still in the row when it comes to clear it.            *)
ReadIsInRow == call.at = "read" /\ call.command # None => pending = call.command
Exact == faults = 0 /\ wasted = {} => EachIsSomewhere /\ ReadIsInRow

IInv == TypeOK /\ Requests /\ HeldBriefly /\ Accounted /\ Exact

LEMMA InitIInv == Init => IInv
  BY DeviceAgentAssumption
  DEF Init, IInv, TypeOK, Requests, HeldBriefly, Accounted, Outstanding, InRow,
      Exact, EachIsSomewhere, ReadIsInRow,
      NoCall, NoAsk, Off, Pc, Step, DeviceStatus, AllCommands, StepCommands

(* The bounds hold whether a step fails or not.                            *)
LEMMA BoundsTyped ==
  ASSUME TypeOK, NoFault \/ Fault
  PROVE  asks' \in 0 .. MaxAsks /\ faults' \in 0 .. MaxFaults
<1>1. MaxAsks \in Nat /\ MaxFaults \in Nat
  BY DeviceAgentAssumption
<1>2. CASE NoFault
  BY <1>2 DEF NoFault, bounds, TypeOK
<1>3. CASE Fault
  <2>1. asks \in 0 .. MaxAsks /\ faults \in 0 .. MaxFaults
    BY DEF TypeOK
  <2>2. faults < MaxFaults /\ faults' = faults + 1 /\ asks' = asks
    BY <1>3 DEF Fault
  <2> QED
    BY <1>1, <2>1, <2>2
<1> QED
  BY <1>2, <1>3

(* After a failure nothing is promised of what was sent.                   *)
LEMMA FaultEndsFaultless == TypeOK /\ Fault => faults' # 0
<1> SUFFICES ASSUME TypeOK, Fault PROVE faults' # 0
  OBVIOUS
<1>1. faults \in 0 .. MaxFaults /\ MaxFaults \in Nat
  BY DeviceAgentAssumption DEF TypeOK
<1> QED
  BY <1>1 DEF Fault

AgentState ==
  [pc : Pc, ret : {"rest", "report"}, step : Step, complete : BOOLEAN,
   looping : BOOLEAN, cmd : Commands \cup {None}]
CallKept == UNCHANGED call \/ call' = NoCall \/ \E s \in Step : Calls(s)

LEMMA CallTyped ==
  ASSUME TypeOK, Requests, CallKept
  PROVE  /\ call' \in [at : {"none", "sent", "read"}, report : Step \cup {None},
                       status : DeviceStatus \cup {None}, command : Commands \cup {None}]
         /\ call'.at = "sent" => call'.report \in Step
         /\ call'.at = "read" => call' = call
<1>1. CASE UNCHANGED call
  BY <1>1 DEF TypeOK, Requests
<1>2. CASE call' = NoCall
  BY <1>2 DEF NoCall
<1>3. ASSUME NEW s \in Step, Calls(s)
      PROVE  call' = [at |-> "sent", report |-> s, status |-> None, command |-> None]
  BY <1>3 DEF Calls, NoCall
<1> QED
  BY <1>1, <1>2, <1>3 DEF CallKept

(* A step that leaves the agent empty-handed and drops, keeps or sends a   *)
(* call only takes from what is outstanding.                               *)
LEMMA QuietStep ==
  ASSUME IInv, UNCHANGED <<pending, ask, counts>>, status' \in DeviceStatus \cup {None},
         (NoFault /\ agent.cmd = None) \/ Fault, CallKept,
         agent' \in AgentState, agent'.cmd = None
  PROVE  IInv'
<1>1. TypeOK'
  BY BoundsTyped, CallTyped DEF IInv, TypeOK, counts, AgentState
<1>2. Requests' /\ HeldBriefly'
  BY CallTyped DEF IInv, Requests, HeldBriefly
<1>3. ASSUME NEW c \in Commands PROVE (ran[c] + Outstanding(c) <= asked[c])'
  <2>1. c # None
    BY DeviceAgentAssumption
  <2>2. ran[c] + Outstanding(c) <= asked[c] /\ ran[c] \in Nat /\ asked[c] \in Nat
    BY DEF IInv, TypeOK, Accounted
  <2>3. ran'[c] = ran[c] /\ asked'[c] = asked[c] /\ pending' = pending
    BY DEF counts
  <2>4. agent'.cmd # c
    BY <2>1
  <2>5. InRow(c)' => InRow(c)
    BY <2>3, CallTyped DEF InRow, IInv
  <2> QED
    BY <2>2, <2>3, <2>4, <2>5 DEF Outstanding
<1>4. Exact'
  <2>1. CASE NoFault /\ agent.cmd = None
    <3>1. /\ faults' = faults /\ pending' = pending /\ agent'.cmd = agent.cmd
          /\ asked' = asked /\ ran' = ran /\ wasted' = wasted
      BY <2>1 DEF NoFault, bounds, counts
    <3>2. call'.at = "read" => call' = call
      BY CallTyped DEF IInv
    <3> QED
      BY <3>1, <3>2 DEF IInv, Exact, EachIsSomewhere, ReadIsInRow
  <2>2. CASE Fault
    BY <2>2, FaultEndsFaultless DEF IInv, Exact
  <2> QED
    BY <2>1, <2>2
<1> QED
  BY <1>1, <1>2, <1>3, <1>4 DEF IInv, Accounted

(* Execution moves a command from the agent's hands to those that have run. *)
LEMMA Execution ==
  ASSUME IInv, NEW c \in Commands, Execute(c), CallKept,
         agent' \in AgentState, agent'.cmd = None
  PROVE  IInv'
<1>1. /\ status' = status /\ pending' = pending /\ ask' = ask /\ asked' = asked
      /\ wasted' = wasted /\ NoFault /\ agent.cmd = c /\ ran' = [ran EXCEPT ![c] = @ + 1]
  BY DEF Execute, row
<1>2. ran' \in [Commands -> Nat]
  <2>1. ran \in [Commands -> Nat]
    BY DEF IInv, TypeOK
  <2> QED
    BY <1>1, <2>1
<1>3. TypeOK'
  BY <1>1, <1>2, BoundsTyped, CallTyped DEF IInv, TypeOK, AgentState
<1>4. Requests' /\ HeldBriefly'
  BY <1>1, CallTyped DEF IInv, Requests, HeldBriefly
<1>5. ASSUME NEW d \in Commands PROVE (ran[d] + Outstanding(d) <= asked[d])'
  <2>1. d # None
    BY DeviceAgentAssumption
  <2>2. ran[d] + Outstanding(d) <= asked[d] /\ ran[d] \in Nat /\ asked[d] \in Nat
    BY DEF IInv, TypeOK, Accounted
  <2>3. ran'[d] = IF agent.cmd = d THEN ran[d] + 1 ELSE ran[d]
    BY <1>1 DEF IInv, TypeOK
  <2>4. agent'.cmd # d
    BY <2>1
  <2>5. InRow(d)' => InRow(d)
    BY <1>1, CallTyped DEF InRow, IInv
  <2> QED
    BY <1>1, <2>2, <2>3, <2>4, <2>5 DEF Outstanding
<1>6. Exact'
  <2>1. /\ faults' = faults /\ c # None
        /\ ran \in [Commands -> Nat] /\ asked \in [Commands -> Nat]
    BY <1>1, DeviceAgentAssumption DEF NoFault, bounds, IInv, TypeOK
  <2>2. ASSUME NEW d \in Commands
        PROVE  ran'[d] + (IF agent'.cmd = d THEN 1 ELSE 0)
                 = ran[d] + (IF agent.cmd = d THEN 1 ELSE 0)
    <3>1. d # None
      BY DeviceAgentAssumption
    <3> QED
      BY <1>1, <2>1, <3>1
  <2>3. ASSUME NEW d \in Commands
        PROVE  /\ ran[d] \in Nat /\ ran'[d] \in Nat
    BY <1>2, <2>1
  <2>4. EachIsSomewhere => EachIsSomewhere'
    BY <1>1, <2>2, <2>3 DEF EachIsSomewhere
  <2>5. ReadIsInRow'
    BY <1>1, CallTyped DEF ReadIsInRow, IInv, Execute, Ready
  <2> QED
    BY <1>1, <2>1, <2>4, <2>5 DEF IInv, Exact
<1> QED
  BY <1>3, <1>4, <1>5, <1>6 DEF IInv, Accounted

LEMMA EmptyHanded == IInv /\ agent.pc # "answer" => agent.cmd = None
  BY DEF IInv, HeldBriefly, Ready

(* A click is noted; nothing is sent yet.                                  *)
LEMMA AskIInv ==
  ASSUME IInv, NEW column \in {"command", "status"}, NEW value \in Commands \cup DeviceStatus,
         Ask(column, value)
  PROVE  IInv'
<1>1. /\ status' = status /\ pending' = pending /\ call' = call /\ agent' = agent
      /\ faults' = faults /\ asked' = asked /\ ran' = ran /\ wasted' = wasted
  BY DEF Ask, row, counts
<1>2. /\ ask'.column = column /\ ask'.value = value
      /\ ask' \in [column : {"none", "status", "command"},
                   value : DeviceStatus \cup Commands \cup {None},
                   read : DeviceStatus \cup Commands \cup {None}]
  BY DEF Ask, IInv, TypeOK
<1>3. asks' \in 0 .. MaxAsks
  <2>1. asks \in 0 .. MaxAsks /\ MaxAsks \in Nat
    BY DeviceAgentAssumption DEF IInv, TypeOK
  <2>2. asks < MaxAsks /\ asks' = asks + 1
    BY DEF Ask
  <2> QED
    BY <2>1, <2>2
<1>4. column = "command" => value \in Commands
  BY DEF Ask
<1>5. column = "status" => value \in DeviceStatus
  BY DEF Ask, DeviceStatus
<1>6. TypeOK'
  BY <1>1, <1>2, <1>3 DEF IInv, TypeOK
<1>7. Requests' /\ HeldBriefly'
  BY <1>1, <1>2, <1>4, <1>5 DEF IInv, Requests, HeldBriefly, Ready
<1>8. Accounted' /\ Exact'
  BY <1>1 DEF IInv, Accounted, Outstanding, InRow, Exact, EachIsSomewhere, ReadIsInRow
<1> QED
  BY <1>6, <1>7, <1>8 DEF IInv

(* Saving a command sends it: that pays for its place in the row.          *)
LEMMA AskSavedIInv == IInv /\ AskSaved => IInv'
<1> SUFFICES ASSUME IInv, AskSaved PROVE IInv'
  OBVIOUS
<1>1. /\ ask.column # "none" /\ ask' = NoAsk /\ call' = call /\ agent' = agent /\ NoFault
      /\ status' = Column("status", status) /\ pending' = Column("command", pending)
      /\ ran' = ran
      /\ asked' = IF ask.column = "command" THEN [asked EXCEPT ![ask.value] = @ + 1] ELSE asked
  BY DEF AskSaved, counts
<1>2. wasted' \subseteq {"overwritten", "in a step"}
  BY DEF AskSaved, counts, IInv, TypeOK
<1>3. status' \in DeviceStatus \cup {None} /\ pending' \in Commands \cup {None}
  BY <1>1 DEF Column, IInv, TypeOK, Requests
<1>4. asked' \in [Commands -> Nat]
  <2>1. asked \in [Commands -> Nat] /\ (ask.column = "command" => ask.value \in Commands)
    BY DEF IInv, TypeOK, Requests
  <2> QED
    BY <1>1, <2>1
<1>5. TypeOK'
  BY <1>1, <1>2, <1>3, <1>4, BoundsTyped DEF IInv, TypeOK, NoAsk
<1>6. Requests' /\ HeldBriefly'
  BY <1>1 DEF IInv, Requests, HeldBriefly, Ready, NoAsk
<1>7. ASSUME NEW c \in Commands PROVE (ran[c] + Outstanding(c) <= asked[c])'
  <2>1. ran[c] + Outstanding(c) <= asked[c] /\ ran[c] \in Nat /\ asked[c] \in Nat
    BY DEF IInv, TypeOK, Accounted
  <2>2. CASE ask.column = "command" /\ ask.value = c
    <3>1. asked'[c] = asked[c] + 1
      BY <1>1, <2>2 DEF IInv, TypeOK
    <3> QED
      BY <1>1, <2>1, <3>1 DEF Outstanding
  <2>3. CASE ~(ask.column = "command" /\ ask.value = c)
    <3>1. asked'[c] = asked[c]
      BY <1>1, <2>3 DEF IInv, TypeOK
    <3>2. InRow(c)' => InRow(c)
      BY <1>1, <2>3 DEF InRow, Column
    <3> QED
      BY <1>1, <2>1, <3>1, <3>2 DEF Outstanding
  <2> QED
    BY <2>2, <2>3
<1>8. Exact'
  <2> SUFFICES ASSUME faults' = 0, wasted' = {} PROVE EachIsSomewhere' /\ ReadIsInRow'
    BY DEF Exact
  <2>1. faults = 0 /\ wasted = {}
    BY <1>1 DEF NoFault, bounds, AskSaved, counts
  <2>2. EachIsSomewhere /\ ReadIsInRow
    BY <2>1 DEF IInv, Exact
  <2>3. CASE ask.column = "command"
    <3>1. ask.read = None /\ pending = None
      BY <2>3 DEF AskSaved
    <3>2. ask.value \in Commands /\ ask.value # None
      BY <2>3, DeviceAgentAssumption DEF IInv, Requests
    <3>3. pending' = ask.value
      BY <1>1, <2>3, <3>1, <3>2 DEF Column
    <3>4. ReadIsInRow'
      BY <1>1, <2>2, <3>1 DEF ReadIsInRow
    <3>5. ASSUME NEW c \in Commands
          PROVE  asked'[c] = ran'[c] + (IF pending' = c THEN 1 ELSE 0)
                               + (IF agent'.cmd = c THEN 1 ELSE 0)
      <4>1. c # None /\ asked[c] \in Nat /\ ran[c] \in Nat
        BY DeviceAgentAssumption DEF IInv, TypeOK
      <4>2. asked[c] = ran[c] + (IF agent.cmd = c THEN 1 ELSE 0)
        BY <2>2, <3>1, <4>1 DEF EachIsSomewhere
      <4>3. asked'[c] = asked[c] + (IF ask.value = c THEN 1 ELSE 0)
        <5>1. asked \in [Commands -> Nat]
          BY DEF IInv, TypeOK
        <5>2. asked' = [asked EXCEPT ![ask.value] = @ + 1]
          BY <1>1, <2>3
        <5> QED
          BY <5>1, <5>2, <4>1
      <4> QED
        BY <1>1, <3>3, <4>1, <4>2, <4>3
    <3> QED
      BY <3>4, <3>5 DEF EachIsSomewhere
  <2>4. CASE ask.column # "command"
    <3>1. asked' = asked /\ pending' = pending
      BY <1>1, <2>4 DEF Column
    <3> QED
      BY <1>1, <2>2, <3>1 DEF EachIsSomewhere, ReadIsInRow
  <2> QED
    BY <2>3, <2>4
<1> QED
  BY <1>5, <1>6, <1>7, <1>8 DEF IInv, Accounted

(* Reading a command from the row sends nothing: it is counted once.       *)
LEMMA CheckInIInv == IInv /\ CheckIn => IInv'
<1> SUFFICES ASSUME IInv, CheckIn PROVE IInv'
  OBVIOUS
<1>1. /\ call.at = "sent" /\ call.report \in DeviceStatus
      /\ call' = [call EXCEPT !.at = "read", !.status = status, !.command = pending]
      /\ status' = status /\ pending' = pending /\ ask' = ask /\ agent' = agent /\ NoFault
      /\ asked' = asked /\ ran' = ran /\ wasted' = wasted
  BY DEF CheckIn, row, counts
<1>2. /\ call' \in [at : {"none", "sent", "read"}, report : Step \cup {None},
                    status : DeviceStatus \cup {None}, command : Commands \cup {None}]
      /\ call'.at = "read" /\ call'.report = call.report /\ call'.command = pending
  BY <1>1 DEF IInv, TypeOK
<1>3. TypeOK'
  BY <1>1, <1>2, BoundsTyped DEF IInv, TypeOK
<1>4. Requests' /\ HeldBriefly'
  BY <1>1, <1>2 DEF IInv, Requests, HeldBriefly, Ready
<1>5. Accounted'
  BY <1>1, <1>2 DEF IInv, Accounted, Outstanding, InRow
<1>6. Exact'
  BY <1>1, <1>2 DEF NoFault, bounds, IInv, Exact, EachIsSomewhere, ReadIsInRow
<1> QED
  BY <1>3, <1>4, <1>5, <1>6 DEF IInv

(* Saving a check-in clears what it read, and hands it over at most once.  *)
LEMMA CheckInSavedIInv == IInv /\ CheckInSaved => IInv'
<1> SUFFICES ASSUME IInv, CheckInSaved PROVE IInv'
  OBVIOUS
<1>1. agent.cmd = None
  BY DEF IInv, HeldBriefly, Ready, CheckInSaved
<1>2. /\ call.at = "read" /\ call' = NoCall /\ ask' = ask /\ asked' = asked /\ ran' = ran
      /\ pending' = IF call.command = None THEN pending ELSE None
      /\ status' = IF call.report = call.status THEN status ELSE call.report
      /\ NoFault \/ Fault
  BY DEF CheckInSaved, Popped
<1>3. \/ agent' = agent
      \/ agent.pc = "answer" /\ agent' = [agent EXCEPT !.cmd = call.command]
  BY DEF CheckInSaved
<1>4. wasted' \subseteq {"overwritten", "in a step"}
  BY DEF CheckInSaved, IInv, TypeOK
<1>5. status' \in DeviceStatus \cup {None} /\ pending' \in Commands \cup {None}
  BY <1>2 DEF IInv, TypeOK, Requests
<1>6. TypeOK'
  BY <1>2, <1>3, <1>4, <1>5, BoundsTyped DEF IInv, TypeOK, NoCall
<1>7. Requests' /\ HeldBriefly'
  BY <1>1, <1>2, <1>3 DEF IInv, TypeOK, Requests, HeldBriefly, Ready, NoCall
<1>8. ASSUME NEW c \in Commands PROVE (ran[c] + Outstanding(c) <= asked[c])'
  <2>1. ran[c] + Outstanding(c) <= asked[c] /\ ran[c] \in Nat /\ asked[c] \in Nat
    BY DEF IInv, TypeOK, Accounted
  <2>2. c # None
    BY DeviceAgentAssumption
  <2>3. CASE call.command = c
    <3>1. InRow(c) /\ ~InRow(c)'
      BY <1>2, <2>2, <2>3 DEF InRow, NoCall
    <3> QED
      BY <1>1, <1>2, <2>1, <2>2, <3>1 DEF Outstanding
  <2>4. CASE call.command # c
    <3>1. InRow(c)' => InRow(c)
      BY <1>2, <2>2 DEF InRow, NoCall
    <3>2. agent'.cmd # c
      BY <1>1, <1>3, <2>2, <2>4 DEF IInv, TypeOK
    <3> QED
      BY <1>2, <2>1, <3>1, <3>2 DEF Outstanding
  <2> QED
    BY <2>3, <2>4
<1>9. Exact'
  <2> SUFFICES ASSUME faults' = 0, wasted' = {} PROVE EachIsSomewhere' /\ ReadIsInRow'
    BY DEF Exact
  <2>1. NoFault
    BY FaultEndsFaultless, <1>2 DEF IInv
  <2>2. faults = 0 /\ ~Fault
    BY <2>1, FaultEndsFaultless DEF NoFault, bounds, IInv
  <2>3. /\ wasted = {} /\ (agent.pc = "answer" \/ call.command = None)
        /\ agent' = IF agent.pc = "answer" THEN [agent EXCEPT !.cmd = call.command] ELSE agent
    BY <2>2 DEF CheckInSaved
  <2>4. EachIsSomewhere /\ ReadIsInRow
    <3>1. Exact
      BY DEF IInv
    <3> QED
      BY <2>2, <2>3, <3>1 DEF Exact
  <2>5. ReadIsInRow'
    BY <1>2 DEF ReadIsInRow, NoCall
  <2>6. ASSUME NEW c \in Commands
        PROVE  (IF pending' = c THEN 1 ELSE 0) + (IF agent'.cmd = c THEN 1 ELSE 0)
                 = (IF pending = c THEN 1 ELSE 0) + (IF agent.cmd = c THEN 1 ELSE 0)
    <3>1. c # None
      BY DeviceAgentAssumption
    <3>2. CASE call.command = None
      <4>1. pending' = pending /\ agent'.cmd = agent.cmd
        BY <1>1, <1>2, <2>3, <3>2 DEF IInv, TypeOK
      <4> QED
        BY <4>1
    <3>3. CASE call.command # None
      <4>1. pending' = None /\ agent'.cmd = pending /\ agent.cmd = None
        BY <1>1, <1>2, <2>3, <2>4, <3>3 DEF IInv, TypeOK, ReadIsInRow
      <4> QED
        BY <3>1, <4>1
    <3> QED
      BY <3>2, <3>3
  <2>7. ASSUME NEW c \in Commands PROVE ran[c] \in Nat
    BY DEF IInv, TypeOK
  <2> QED
    BY <1>2, <2>4, <2>5, <2>6, <2>7 DEF EachIsSomewhere
<1> QED
  BY <1>6, <1>7, <1>8, <1>9 DEF IInv, Accounted

LEMMA Unchanged ==
  ASSUME UNCHANGED vars
  PROVE  /\ status' = status /\ pending' = pending /\ call' = call /\ ask' = ask
         /\ agent' = agent /\ asks' = asks /\ faults' = faults
         /\ asked' = asked /\ ran' = ran /\ wasted' = wasted
<1>1. row' = row /\ bounds' = bounds /\ counts' = counts /\ UNCHANGED <<call, ask, agent>>
  BY DEF vars
<1>2. status' = status /\ pending' = pending
  BY <1>1 DEF row
<1>3. asks' = asks /\ faults' = faults
  BY <1>1 DEF bounds
<1>4. asked' = asked /\ ran' = ran /\ wasted' = wasted
  BY <1>1 DEF counts
<1> QED
  BY <1>1, <1>2, <1>3, <1>4

LEMMA StutterIInv ==
  ASSUME IInv, status' = status, pending' = pending, call' = call, ask' = ask,
         agent' = agent, asks' = asks, faults' = faults,
         asked' = asked, ran' = ran, wasted' = wasted
  PROVE  IInv'
<1>0. TypeOK
  BY DEF IInv
<1>1. TypeOK'
  <2>1. status' \in DeviceStatus \cup {None} /\ pending' \in Commands \cup {None}
    BY <1>0 DEF TypeOK
  <2>2. call' \in [at : {"none", "sent", "read"}, report : Step \cup {None},
                  status : DeviceStatus \cup {None}, command : Commands \cup {None}]
    BY <1>0 DEF TypeOK
  <2>3. ask' \in [column : {"none", "status", "command"},
                 value : DeviceStatus \cup Commands \cup {None},
                 read : DeviceStatus \cup Commands \cup {None}]
    BY <1>0 DEF TypeOK
  <2>4. agent' \in [pc : Pc, ret : {"rest", "report"}, step : Step, complete : BOOLEAN,
                   looping : BOOLEAN, cmd : Commands \cup {None}]
    BY <1>0 DEF TypeOK
  <2>5. asks' \in 0 .. MaxAsks /\ faults' \in 0 .. MaxFaults
    BY <1>0 DEF TypeOK
  <2>6. /\ asked' \in [Commands -> Nat] /\ ran' \in [Commands -> Nat]
        /\ wasted' \subseteq {"overwritten", "in a step"}
    BY <1>0 DEF TypeOK
  <2> QED
    BY <2>1, <2>2, <2>3, <2>4, <2>5, <2>6 DEF TypeOK
<1>2. Requests' /\ HeldBriefly'
  BY DEF IInv, Requests, HeldBriefly, Ready
<1>3. Accounted' /\ Exact'
  BY DEF IInv, Accounted, Outstanding, InRow, Exact, EachIsSomewhere, ReadIsInRow
<1> QED
  BY <1>1, <1>2, <1>3 DEF IInv

(* Every step keeps the account.                                           *)
LEMMA NextIInv == IInv /\ [Next]_vars => IInv'
<1> SUFFICES ASSUME IInv, [Next]_vars PROVE IInv'
  OBVIOUS
<1>0. /\ None \notin Commands /\ None \notin Step
      /\ agent \in AgentState /\ status \in DeviceStatus \cup {None}
  BY DeviceAgentAssumption DEF IInv, TypeOK, AgentState
<1>1. ASSUME NEW column \in {"command", "status"}, NEW value \in Commands \cup DeviceStatus,
             Ask(column, value)
      PROVE  IInv'
  BY <1>1, AskIInv
<1>2. CASE AskSaved
  BY <1>2, AskSavedIInv
<1>3. CASE CheckIn
  BY <1>3, CheckInIInv
<1>4. CASE CheckInSaved
  BY <1>4, CheckInSavedIInv
<1>5. CASE CheckInRefused \/ CheckInFails
  <2>1. agent.cmd = None
    BY <1>5 DEF IInv, HeldBriefly, Ready, CheckInRefused, CheckInFails
  <2>2. /\ call' = NoCall /\ UNCHANGED <<pending, ask, counts>> /\ status' = status
        /\ agent' = agent /\ ((NoFault /\ agent.cmd = None) \/ Fault)
    BY <1>5, <2>1 DEF CheckInRefused, CheckInFails, row
  <2> QED
    BY <1>0, <2>1, <2>2, QuietStep DEF CallKept
<1>6. CASE Register
  <2>1. agent' \in AgentState /\ agent'.cmd = None
    BY <1>0, <1>6, EmptyHanded DEF Register, Enter, Entry, Off, AgentState, Pc, Step, DeviceStatus
  <2>2. /\ UNCHANGED <<pending, ask, counts>> /\ status' \in DeviceStatus \cup {None}
        /\ (NoFault /\ agent.cmd = None) \/ Fault
    BY <1>0, <1>6, EmptyHanded DEF Register, DeviceStatus, Ready
  <2>3. CallKept
    BY <1>6 DEF Register, CallKept, Enter, Entry, Step, DeviceStatus
  <2> QED
    BY <2>1, <2>2, <2>3, QuietStep
<1>7. CASE RegisterFails
  <2>1. agent' \in AgentState /\ agent'.cmd = None
    BY <1>0, <1>7, EmptyHanded DEF RegisterFails, Off, AgentState, Pc, Step, DeviceStatus
  <2>2. /\ UNCHANGED <<pending, ask, counts>> /\ status' \in DeviceStatus \cup {None}
        /\ (NoFault /\ agent.cmd = None) \/ Fault
    BY <1>0, <1>7, EmptyHanded DEF RegisterFails, row, Ready
  <2>3. CallKept
    BY <1>7 DEF RegisterFails, CallKept
  <2> QED
    BY <2>1, <2>2, <2>3, QuietStep
<1>8. CASE Scan
  <2>1. agent' \in AgentState /\ agent'.cmd = None
    BY <1>0, <1>8, EmptyHanded DEF Scan, Ready, Return, Ends, AgentState, Pc, Step, DeviceStatus
  <2>2. /\ UNCHANGED <<pending, ask, counts>> /\ status' \in DeviceStatus \cup {None}
        /\ (NoFault /\ agent.cmd = None) \/ Fault
    BY <1>0, <1>8, EmptyHanded DEF Scan, Keeps, row, Ready
  <2>3. CallKept
    BY <1>8 DEF Scan, CallKept, Ends, Step, DeviceStatus
  <2> QED
    BY <2>1, <2>2, <2>3, QuietStep
<1>9. CASE StepExportPst
  <2>1. agent' \in AgentState /\ agent'.cmd = None
    BY <1>0, <1>9, EmptyHanded DEF StepExportPst, Ready, Return, Ends, AgentState, Pc, Step, DeviceStatus
  <2>2. /\ UNCHANGED <<pending, ask, counts>> /\ status' \in DeviceStatus \cup {None}
        /\ (NoFault /\ agent.cmd = None) \/ Fault
    BY <1>0, <1>9, EmptyHanded DEF StepExportPst, Keeps, row, Ready
  <2>3. CallKept
    BY <1>9 DEF StepExportPst, CallKept, Ends, Step, DeviceStatus
  <2> QED
    BY <2>1, <2>2, <2>3, QuietStep
<1>10. CASE StepReconfigureProfile
  <2>1. agent' \in AgentState /\ agent'.cmd = None
    BY <1>0, <1>10, EmptyHanded DEF StepReconfigureProfile, Ready, Return, Ends, AgentState, Pc, Step, DeviceStatus
  <2>2. /\ UNCHANGED <<pending, ask, counts>> /\ status' \in DeviceStatus \cup {None}
        /\ (NoFault /\ agent.cmd = None) \/ Fault
    BY <1>0, <1>10, EmptyHanded DEF StepReconfigureProfile, Keeps, row, Ready
  <2>3. CallKept
    BY <1>10 DEF StepReconfigureProfile, CallKept, Ends, Step, DeviceStatus
  <2> QED
    BY <2>1, <2>2, <2>3, QuietStep
<1>11. CASE StepImportPst
  <2>1. agent' \in AgentState /\ agent'.cmd = None
    BY <1>0, <1>11, EmptyHanded DEF StepImportPst, Ready, Return, Ends, AgentState, Pc, Step, DeviceStatus
  <2>2. /\ UNCHANGED <<pending, ask, counts>> /\ status' \in DeviceStatus \cup {None}
        /\ (NoFault /\ agent.cmd = None) \/ Fault
    BY <1>0, <1>11, EmptyHanded DEF StepImportPst, Keeps, row, Ready
  <2>3. CallKept
    BY <1>11 DEF StepImportPst, CallKept, Ends, Step, DeviceStatus
  <2> QED
    BY <2>1, <2>2, <2>3, QuietStep
<1>12. CASE GraphImport
  <2>1. agent' \in AgentState /\ agent'.cmd = None
    BY <1>0, <1>12, EmptyHanded DEF GraphImport, Ready, Return, Ends, AgentState, Pc, Step, DeviceStatus
  <2>2. /\ UNCHANGED <<pending, ask, counts>> /\ status' \in DeviceStatus \cup {None}
        /\ (NoFault /\ agent.cmd = None) \/ Fault
    BY <1>0, <1>12, EmptyHanded DEF GraphImport, Keeps, row, Ready
  <2>3. CallKept
    BY <1>12 DEF GraphImport, CallKept, Ends, Step, DeviceStatus
  <2> QED
    BY <2>1, <2>2, <2>3, QuietStep
<1>13. CASE StepThrows
  <2>1. agent' \in AgentState /\ agent'.cmd = None
    BY <1>0, <1>13, EmptyHanded DEF StepThrows, Ready, Entry, Off, AgentState, Pc, Step, DeviceStatus
  <2>2. /\ UNCHANGED <<pending, ask, counts>> /\ status' \in DeviceStatus \cup {None}
        /\ (NoFault /\ agent.cmd = None) \/ Fault
    BY <1>0, <1>13, EmptyHanded DEF StepThrows, row, Ready
  <2>3. CallKept
    BY <1>13 DEF StepThrows, CallKept
  <2> QED
    BY <2>1, <2>2, <2>3, QuietStep
<1>14. CASE BeginCycle
  <2>1. agent' \in AgentState /\ agent'.cmd = None
    BY <1>0, <1>14, EmptyHanded DEF BeginCycle, Ready, AgentState, Pc, Step, DeviceStatus
  <2>2. /\ UNCHANGED <<pending, ask, counts>> /\ status' \in DeviceStatus \cup {None}
        /\ (NoFault /\ agent.cmd = None) \/ Fault
    BY <1>0, <1>14, EmptyHanded DEF BeginCycle, Keeps, row, Ready
  <2>3. CallKept
    BY <1>14 DEF BeginCycle, CallKept
  <2> QED
    BY <2>1, <2>2, <2>3, QuietStep
<1>15. CASE Poll
  <2>1. agent' \in AgentState /\ agent'.cmd = None
    BY <1>0, <1>15, EmptyHanded DEF Poll, Ready, Enter, Entry, AgentState, Pc, Step, DeviceStatus
  <2>2. /\ UNCHANGED <<pending, ask, counts>> /\ status' \in DeviceStatus \cup {None}
        /\ (NoFault /\ agent.cmd = None) \/ Fault
    BY <1>0, <1>15, EmptyHanded DEF Poll, Keeps, row, Ready
  <2>3. CallKept
    BY <1>15 DEF Poll, CallKept, Enter, Entry, Step, DeviceStatus
  <2> QED
    BY <2>1, <2>2, <2>3, QuietStep
<1>16. CASE Report
  <2>1. agent' \in AgentState /\ agent'.cmd = None
    BY <1>0, <1>16, EmptyHanded DEF Report, Ready, AgentState, Pc, Step, DeviceStatus
  <2>2. /\ UNCHANGED <<pending, ask, counts>> /\ status' \in DeviceStatus \cup {None}
        /\ (NoFault /\ agent.cmd = None) \/ Fault
    BY <1>0, <1>16, EmptyHanded DEF Report, Keeps, row, Ready
  <2>3. CallKept
    BY <1>0, <1>16 DEF Report, CallKept, AgentState
  <2> QED
    BY <2>1, <2>2, <2>3, QuietStep
<1>17. CASE NoCommand
  <2>1. agent' \in AgentState /\ agent'.cmd = None
    BY <1>0, <1>17, EmptyHanded DEF NoCommand, Ready, AgentState, Pc, Step, DeviceStatus
  <2>2. /\ UNCHANGED <<pending, ask, counts>> /\ status' \in DeviceStatus \cup {None}
        /\ (NoFault /\ agent.cmd = None) \/ Fault
    BY <1>0, <1>17, EmptyHanded DEF NoCommand, Keeps, row, Ready
  <2>3. CallKept
    BY <1>17 DEF NoCommand, CallKept
  <2> QED
    BY <2>1, <2>2, <2>3, QuietStep
<1>18. CASE Leave
  <2>1. agent' \in AgentState /\ agent'.cmd = None
    BY <1>0, <1>18, EmptyHanded DEF Leave, Ready, Off, AgentState, Pc, Step, DeviceStatus
  <2>2. /\ UNCHANGED <<pending, ask, counts>> /\ status' \in DeviceStatus \cup {None}
        /\ (NoFault /\ agent.cmd = None) \/ Fault
    BY <1>0, <1>18, EmptyHanded DEF Leave, Keeps, row, Ready
  <2>3. CallKept
    BY <1>18 DEF Leave, CallKept
  <2> QED
    BY <2>1, <2>2, <2>3, QuietStep
<1>19. CASE Crash
  <2>1. agent' \in AgentState /\ agent'.cmd = None
    BY <1>0, <1>19, EmptyHanded DEF Crash, Off, AgentState, Pc, Step, DeviceStatus
  <2>2. /\ UNCHANGED <<pending, ask, counts>> /\ status' \in DeviceStatus \cup {None}
        /\ (NoFault /\ agent.cmd = None) \/ Fault
    BY <1>0, <1>19, EmptyHanded DEF Crash, row, Ready
  <2>3. CallKept
    BY <1>19 DEF Crash, CallKept
  <2> QED
    BY <2>1, <2>2, <2>3, QuietStep
<1>20. ASSUME NEW c \in Commands, ExecuteStep(c) PROVE IInv'
  <2>1. Body[c] \in {"scan", "export", "reconfigure", "import"}
    BY <1>20 DEF ExecuteStep, StepCommands, Body
  <2>2. agent' \in AgentState /\ agent'.cmd = None
    <3>1. Done(c) \in AgentState /\ Done(c).cmd = None
      BY <1>0 DEF Done, AgentState, Pc, Step, DeviceStatus
    <3>2. Body[c] \in Pc /\ Entry[Body[c]] \in Step
      BY <2>1 DEF Entry, Pc, Step, DeviceStatus
    <3>3. agent' = [Done(c) EXCEPT !.pc = Body[c], !.step = Entry[Body[c]], !.ret = "rest"]
      BY <1>20 DEF ExecuteStep, Enter
    <3> QED
      BY <3>1, <3>2, <3>3 DEF AgentState
  <2>3. CallKept
    BY <1>20, <2>1 DEF ExecuteStep, CallKept, Enter, Entry, Step, DeviceStatus
  <2> QED
    BY <1>20, <2>2, <2>3, Execution DEF ExecuteStep
<1>21. CASE ExecuteRollback
  <2>1. agent.cmd = "Rollback" /\ "Rollback" # None
    BY <1>21, DeviceAgentAssumption DEF ExecuteRollback, Execute, AllCommands
  <2>2. "Rollback" \in Commands
    BY <1>0, <2>1 DEF AgentState
  <2>3. agent' \in AgentState /\ agent'.cmd = None
    BY <1>0, <1>21 DEF ExecuteRollback, Done, AgentState, Pc, Step, DeviceStatus
  <2>4. CallKept
    BY <1>0, <1>21 DEF ExecuteRollback, CallKept
  <2>5. Execute("Rollback")
    BY <1>21 DEF ExecuteRollback
  <2> QED
    BY <2>2, <2>3, <2>4, <2>5, Execution
<1>22. CASE ExecuteImport
  <2>1. agent.cmd = "ImportToM365" /\ "ImportToM365" # None
    BY <1>22, DeviceAgentAssumption DEF ExecuteImport, Execute, AllCommands
  <2>2. "ImportToM365" \in Commands
    BY <1>0, <2>1 DEF AgentState
  <2>3. agent' \in AgentState /\ agent'.cmd = None
    BY <1>0, <1>22 DEF ExecuteImport, Done, Enter, Entry, AgentState, Pc, Step, DeviceStatus
  <2>4. CallKept
    BY <1>0, <1>22 DEF ExecuteImport, CallKept, Enter, Entry, Step, DeviceStatus
  <2>5. Execute("ImportToM365")
    BY <1>22 DEF ExecuteImport
  <2> QED
    BY <2>2, <2>3, <2>4, <2>5, Execution
<1>23. CASE ExecuteUninstall
  <2>1. agent.cmd = "Uninstall" /\ "Uninstall" # None
    BY <1>23, DeviceAgentAssumption DEF ExecuteUninstall, Execute, AllCommands
  <2>2. "Uninstall" \in Commands
    BY <1>0, <2>1 DEF AgentState
  <2>3. agent' \in AgentState /\ agent'.cmd = None
    BY <1>0, <1>23 DEF ExecuteUninstall, Done, AgentState, Pc, Step, DeviceStatus
  <2>4. CallKept
    BY <1>0, <1>23 DEF ExecuteUninstall, CallKept, AgentState
  <2>5. Execute("Uninstall")
    BY <1>23 DEF ExecuteUninstall
  <2> QED
    BY <2>2, <2>3, <2>4, <2>5, Execution
<1>24. CASE UNCHANGED vars
  BY <1>24, Unchanged, StutterIInv
<1> QED
  BY <1>1, <1>2, <1>3, <1>4, <1>5, <1>6, <1>7, <1>8, <1>9, <1>10, <1>11,
    <1>12, <1>13, <1>14, <1>15, <1>16, <1>17, <1>18, <1>19, <1>20, <1>21,
    <1>22, <1>23, <1>24 DEF Next, Works

(* The account holds in every state.                                       *)
THEOREM DeviceAgentInvariant == Spec => []IInv
  BY InitIInv, NextIInv, PTL DEF Spec

(* The types of the row, the requests, the agent and the observers.        *)
THEOREM DeviceAgentTypeOK == Spec => []TypeOK
<1>1. IInv => TypeOK
  BY DEF IInv
<1> QED
  BY <1>1, DeviceAgentInvariant, PTL

(* No command runs more often than the operator sent it, however requests, *)
(* check-ins, failures and restarts overlap.                               *)
THEOREM NoCommandTwice == Spec => []RunsAtMostOnce
<1>1. IInv => RunsAtMostOnce
  <2> SUFFICES ASSUME IInv, NEW c \in Commands PROVE ran[c] <= asked[c]
    BY DEF RunsAtMostOnce
  <2>1. ran[c] + Outstanding(c) <= asked[c] /\ ran[c] \in Nat /\ asked[c] \in Nat
    BY DEF IInv, TypeOK, Accounted
  <2>2. Outstanding(c) \in Nat
    BY DEF Outstanding
  <2> QED
    BY <2>1, <2>2
<1> QED
  BY <1>1, DeviceAgentInvariant, PTL

(* No command is forgotten: while nothing failed and none was overwritten  *)
(* or fetched from within a step, each that was sent has run, is with the  *)
(* agent or waits in the row.                                              *)
THEOREM NoCommandForgotten == Spec => []NotForgotten
<1>1. IInv => NotForgotten
  BY DEF IInv, Exact, NotForgotten
<1> QED
  BY <1>1, DeviceAgentInvariant, PTL
=============================================================================
