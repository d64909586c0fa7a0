----------------------------- MODULE DeviceAgent -----------------------------
(***************************************************************************)
(* One device of the DKS automation: the operator's pages and the agent    *)
(* API of the portal on the device's row (DevicesController,               *)
(* AgentApiController), and the agent on the device (AgentWorker,          *)
(* PortalClient), which checks in with its step and gets the command that  *)
(* waits.  A handler of the portal reads the row and later saves the       *)
(* columns it changed; calls fail, and what the agent knows is lost when   *)
(* its process ends.                                                       *)
(***************************************************************************)
EXTENDS Naturals

CONSTANTS
  Commands,    \* those the operator sends
  None,        \* no command, no status
  MaxAsks,     \* bound: clicks of the operator
  MaxFaults    \* bound: calls that fail, steps that throw, agents that die

(* Models/Device.cs.                                                       *)
DeviceStatus == {"Pending", "AgentInstalled", "AgentOnline", "ScanningOutlook",
  "PstFound", "ExportingPst", "PstExported", "ReconfiguringProfile",
  "ProfileReconfigured", "ImportingPst", "Completed", "Failed", "NeedManualAction"}

(* The agent has steps the portal has no status for.                       *)
Step == DeviceStatus \cup {"WaitingForSignIn", "ImportingToM365", "CompletedWithWarning"}

StepCommands == {"ScanOutlook", "ExportPst", "ReconfigureProfile", "ImportPst", "RetryFailed"}
AllCommands == StepCommands \cup {"Rollback", "ImportToM365", "Uninstall"}

ASSUME DeviceAgentAssumption ==
  /\ Commands \subseteq AllCommands
  /\ None \notin AllCommands \cup Step
  /\ MaxAsks \in Nat /\ MaxFaults \in Nat

VARIABLES
  status, pending,  \* CurrentStatus, or None while there is no row, and PendingCommand
  call,    \* the check-in under way: what it reports, what its handler read
  ask,     \* the operator's request under way: the column, its value, what was read
  agent,   \* where the worker is, CurrentStep, _migrationComplete, the command it got
  asks, faults,  \* how much of each bound is used
  asked, ran,    \* observers: [Commands -> times sent, times run]
  wasted         \* observer: how commands were lost without a failure

row == <<status, pending>>
counts == <<asked, ran, wasted>>
bounds == <<asks, faults>>
vars == <<row, call, ask, agent, bounds, counts>>

Pc == {"off", "rest", "poll", "report", "answer", "scan", "export", "reconfigure",
       "import", "graph", "leave", "ended", "removed"}

TypeOK ==
  /\ status \in DeviceStatus \cup {None} /\ pending \in Commands \cup {None}
  /\ call \in [at : {"none", "sent", "read"}, report : Step \cup {None},
               status : DeviceStatus \cup {None}, command : Commands \cup {None}]
  /\ ask \in [column : {"none", "status", "command"},
              value : DeviceStatus \cup Commands \cup {None},
              read : DeviceStatus \cup Commands \cup {None}]
  /\ agent \in [pc : Pc, ret : {"rest", "report"}, step : Step, complete : BOOLEAN,
                looping : BOOLEAN, cmd : Commands \cup {None}]
  /\ asks \in 0 .. MaxAsks /\ faults \in 0 .. MaxFaults
  /\ asked \in [Commands -> Nat] /\ ran \in [Commands -> Nat]
  /\ wasted \subseteq {"overwritten", "in a step"}

NoCall == [at |-> "none", report |-> None, status |-> None, command |-> None]
NoAsk == [column |-> "none", value |-> None, read |-> None]
Off == [pc |-> "off", ret |-> "rest", step |-> "Pending", complete |-> FALSE,
        looping |-> FALSE, cmd |-> None]

Init ==
  /\ status = None /\ pending = None
  /\ call = NoCall /\ ask = NoAsk /\ agent = Off
  /\ asks = 0 /\ faults = 0
  /\ asked = [c \in Commands |-> 0] /\ ran = [c \in Commands |-> 0] /\ wasted = {}

Fault == faults < MaxFaults /\ faults' = faults + 1 /\ UNCHANGED asks
NoFault == UNCHANGED bounds

-----------------------------------------------------------------------------
(* The operator.                                                           *)

(* SendCommand and ImportToM365 set the command; MarkManualCompleted and   *)
(* Rollback set the status, and Rollback sends no command.                 *)
Ask(column, value) ==
  /\ status # None /\ ask.column = "none" /\ asks < MaxAsks
  /\ \/ column = "command" /\ value \in Commands
     \/ column = "status" /\ value \in {"Completed", "NeedManualAction"}
  /\ ask' = [column |-> column, value |-> value,
             read |-> IF column = "command" THEN pending ELSE status]
  /\ asks' = asks + 1
  /\ UNCHANGED <<row, call, agent, faults, counts>>

(* Saved if it is another value than was read.                             *)
Column(name, old) == IF ask.column = name /\ ask.value # ask.read THEN ask.value ELSE old

AskSaved ==
  /\ ask.column # "none"
  /\ status' = Column("status", status) /\ pending' = Column("command", pending)
  /\ ask' = NoAsk
  /\ IF ask.column = "command"
       THEN /\ asked' = [asked EXCEPT ![ask.value] = @ + 1]
            /\ wasted' = IF {ask.read, pending} = {None} THEN wasted
                         ELSE wasted \cup {"overwritten"}
            /\ UNCHANGED ran
       ELSE UNCHANGED counts
  /\ UNCHANGED <<call, agent>> /\ NoFault

-----------------------------------------------------------------------------
(* A check-in.                                                             *)

Calls(report) == call' = [NoCall EXCEPT !.at = "sent", !.report = report]

(* Mutant: the status is taken as text, whatever it is.                    *)
CheckInAnyStatus ==
  /\ call.at = "sent"
  /\ call' = [call EXCEPT !.at = "read", !.status = status, !.command = pending]
  /\ UNCHANGED <<row, ask, agent, counts>> /\ NoFault

(* The portal reads the row, if it has a status of that name ...           *)
CheckIn ==
  /\ call.at = "sent" /\ call.report \in DeviceStatus
  /\ call' = [call EXCEPT !.at = "read", !.status = status, !.command = pending]
  /\ UNCHANGED <<row, ask, agent, counts>> /\ NoFault

(* ... and answers 400 if not: nothing is saved, nothing fetched.          *)
CheckInRefused ==
  /\ call.at = "sent" /\ call.report \notin DeviceStatus
  /\ call' = NoCall
  /\ UNCHANGED <<row, ask, agent, counts>> /\ NoFault

(* No answer, and the handler did not get to save.                         *)
CheckInFails ==
  /\ call.at # "none" /\ Fault
  /\ call' = NoCall
  /\ UNCHANGED <<row, ask, agent, counts>>

(* Mutant: the command is not taken out of the row.                        *)
PoppedNever == pending

(* Mutant: the column is written whether or not there was a command.       *)
PoppedAlways == None

(* "Pop pending command": the column changes if there was one.             *)
Popped == IF call.command = None THEN pending ELSE None

(* The row is saved.  Only the check-in of the main loop, whose answer is  *)
(* awaited at "answer", looks for a command in it, if it arrives.          *)
CheckInSaved ==
  /\ call.at = "read"
  /\ status' = IF call.report = call.status THEN status ELSE call.report
  /\ pending' = Popped
  /\ call' = NoCall
  /\ \/ /\ agent' = IF agent.pc = "answer" THEN [agent EXCEPT !.cmd = call.command] ELSE agent
        /\ wasted' = IF agent.pc = "answer" \/ call.command = None THEN wasted
                     ELSE wasted \cup {"in a step"}
        /\ NoFault
     \/ Fault /\ UNCHANGED <<agent, wasted>>
  /\ UNCHANGED <<ask, asked, ran>>

-----------------------------------------------------------------------------
(* The worker's steps: an entry that reports, a body, a report of its end. *)

Ready(pc) == agent.pc = pc /\ call.at = "none"

Entry == [scan |-> "ScanningOutlook", export |-> "ExportingPst",
          reconfigure |-> "ReconfiguringProfile", import |-> "ImportingPst",
          graph |-> "ImportingToM365"]

Enter(worker, pc, ret) ==
  /\ agent' = [worker EXCEPT !.pc = pc, !.step = Entry[pc], !.ret = ret]
  /\ Calls(Entry[pc])

Return(step) == agent' = [agent EXCEPT !.pc = agent.ret, !.step = step]
Ends(step) == Return(step) /\ Calls(step)
Keeps == UNCHANGED <<row, ask, counts>> /\ NoFault

(* Register makes the row, or leaves it as it is (no row is Pending); then *)
(* the first scan.                                                         *)
Register ==
  /\ Ready("off")
  /\ status' = IF status = None THEN "AgentInstalled" ELSE status
  /\ Enter(Off, "scan", "rest")
  /\ UNCHANGED <<pending, ask, counts>> /\ NoFault

RegisterFails ==
  /\ agent.pc = "off" /\ Fault
  /\ agent' = [Off EXCEPT !.pc = "ended"]
  /\ UNCHANGED <<row, call, ask, counts>>

(* StepScanOutlook: no Outlook; no account to migrate; an account, with or *)
(* without PST files.                                                      *)
Scan ==
  /\ Ready("scan")
  /\ \/ Return("Failed") /\ UNCHANGED call
     \/ Ends("NeedManualAction")
     \/ /\ \E step \in {"PstFound", "PstExported"} : Return(step)
        /\ Calls("PstFound")
  /\ Keeps

StepExportPst == Ready("export") /\ Ends("PstExported") /\ Keeps

(* StepReconfigureProfile: the profile is made; it is not; no address.     *)
StepReconfigureProfile ==
  /\ Ready("reconfigure")
  /\ \E step \in {"WaitingForSignIn", "ProfileReconfigured", "NeedManualAction"} : Ends(step)
  /\ Keeps

(* StepImportPst: nothing was exported; what was is imported.              *)
StepImportPst ==
  /\ Ready("import")
  /\ \/ Ends("NeedManualAction")
     \/ /\ agent' = [agent EXCEPT !.pc = agent.ret, !.step = "Completed", !.complete = TRUE]
        /\ Calls("Completed")
  /\ Keeps

(* GraphImport, from the first message on.                                 *)
GraphImport ==
  /\ Ready("graph")
  /\ \E step \in {"Completed", "CompletedWithWarning"} : Ends(step)
  /\ Keeps

(* A step throws: the loop goes on, but outside of it the process ends.    *)
StepThrows ==
  /\ \E pc \in DOMAIN Entry : Ready(pc)
  /\ Fault
  /\ agent' = IF agent.looping THEN [agent EXCEPT !.pc = "rest"] ELSE Off
  /\ UNCHANGED <<row, call, ask, counts>>

-----------------------------------------------------------------------------
(* The main loop.                                                          *)

(* Mutant: the loop ends when it is the user's turn.                       *)
BeginCycleUnlessManual ==
  /\ Ready("rest")
  /\ agent' = [agent EXCEPT !.looping = TRUE,
                 !.pc = IF agent.complete \/ agent.step = "NeedManualAction" THEN "ended"
                        ELSE IF agent.step = "WaitingForSignIn" THEN "poll"
                        ELSE "report"]
  /\ UNCHANGED call /\ Keeps

BeginCycle ==
  /\ Ready("rest")
  /\ agent' = [agent EXCEPT !.looping = TRUE,
                 !.pc = IF agent.complete THEN "ended"
                        ELSE IF agent.step = "WaitingForSignIn" THEN "poll"
                        ELSE "report"]
  /\ UNCHANGED call /\ Keeps

(* PollSignInAndImport: not signed in; not in time; signed in.             *)
Poll ==
  /\ Ready("poll")
  /\ \/ agent' = [agent EXCEPT !.pc = "report"] /\ UNCHANGED call
     \/ agent' = [agent EXCEPT !.pc = "report", !.step = "NeedManualAction"]
          /\ Calls("NeedManualAction")
     \/ Enter(agent, "import", "report")
  /\ Keeps

Report ==
  /\ Ready("report")
  /\ agent' = [agent EXCEPT !.pc = "answer"] /\ Calls(agent.step)
  /\ Keeps

NoCommand ==
  /\ Ready("answer") /\ agent.cmd = None
  /\ agent' = [agent EXCEPT !.pc = "rest"]
  /\ UNCHANGED call /\ Keeps

(* ExecuteCommand.                                                         *)
Execute(c) ==
  /\ Ready("answer") /\ agent.cmd = c
  /\ ran' = [ran EXCEPT ![c] = @ + 1]
  /\ UNCHANGED <<row, ask, asked, wasted>> /\ NoFault

Done(c) == [agent EXCEPT !.pc = "rest", !.ret = "rest", !.cmd = None,
                         !.complete = @ /\ c # "RetryFailed"]

Body == [ScanOutlook |-> "scan", ExportPst |-> "export",
         ReconfigureProfile |-> "reconfigure", ImportPst |-> "import",
         RetryFailed |-> "scan"]

ExecuteStep(c) ==
  c \in StepCommands /\ Execute(c) /\ Enter(Done(c), Body[c], "rest")

ExecuteRollback ==
  /\ Execute("Rollback")
  /\ agent' = [Done("Rollback") EXCEPT !.step = "NeedManualAction"]
  /\ UNCHANGED call

(* No address or no PST file; no token; or the import.                     *)
ExecuteImport ==
  /\ Execute("ImportToM365")
  /\ \/ agent' = Done("ImportToM365") /\ UNCHANGED call
     \/ agent' = [Done("ImportToM365") EXCEPT !.step = "Failed"] /\ Calls("Failed")
     \/ Enter(Done("ImportToM365"), "graph", "rest")

(* No product code; or the last check-in before the process is gone.       *)
ExecuteUninstall ==
  /\ Execute("Uninstall")
  /\ \/ agent' = Done("Uninstall") /\ UNCHANGED call
     \/ agent' = [Done("Uninstall") EXCEPT !.pc = "leave"] /\ Calls(agent.step)

Leave ==
  /\ Ready("leave")
  /\ agent' = [Off EXCEPT !.pc = "removed"]
  /\ UNCHANGED call /\ Keeps

(* The process ends, with the user's session or otherwise; the portal may  *)
(* save its last check-in yet.  At the next logon it registers again.      *)
Crash ==
  /\ agent.pc \notin {"off", "removed"} /\ Fault
  /\ agent' = Off /\ call' \in {call, NoCall}
  /\ UNCHANGED <<row, ask, counts>>

Works ==
  \/ CheckIn \/ CheckInRefused \/ CheckInSaved
  \/ Register \/ Scan \/ StepExportPst \/ StepReconfigureProfile \/ StepImportPst
  \/ GraphImport \/ BeginCycle \/ Poll \/ Report \/ NoCommand
  \/ \E c \in Commands : ExecuteStep(c)
  \/ ExecuteRollback \/ ExecuteImport \/ ExecuteUninstall \/ Leave

Next ==
  \/ \E column \in {"command", "status"}, value \in Commands \cup DeviceStatus :
       Ask(column, value)
  \/ AskSaved
  \/ Works
  \/ CheckInFails \/ RegisterFails \/ StepThrows \/ Crash

Spec == Init /\ [][Next]_vars

(* The agent's loop and the portal's handlers go on.                       *)
FairSpec == Spec /\ WF_vars(Works)

-----------------------------------------------------------------------------
(* Properties.                                                             *)

(* "so it runs once": however sends, check-ins, failures and restarts      *)
(* overlap, no command runs more often than it was sent.                   *)
RunsAtMostOnce == \A c \in Commands : ran[c] <= asked[c]

(* No command is forgotten: each that was sent has run, is with the agent  *)
(* or waits in the row, unless something failed, one was sent while        *)
(* another waited, or a check-in in the middle of a step fetched it.       *)
EachIsSomewhere ==
  \A c \in Commands :
    asked[c] = ran[c] + (IF pending = c THEN 1 ELSE 0) + (IF agent.cmd = c THEN 1 ELSE 0)
NotForgotten == faults = 0 /\ wasted = {} => EachIsSomewhere

(* A command that waits is fetched, unless the agent is gone or is done,   *)
(* or its step is one the portal does not know: then every check-in is     *)
(* refused.                                                                *)
Deaf ==
  \/ agent.pc \in {"off", "removed"}
  \/ agent.pc = "ended" /\ (agent.complete \/ faults > 0)
  \/ agent.step \notin DeviceStatus
CommandIsFetched == pending # None ~> pending = None \/ Deaf

-----------------------------------------------------------------------------
(* What the portal says and the agent does not do.                         *)

(* "queued. Agent will execute on next check-in": without failures, one    *)
(* command that was sent and is not in the row any more runs.              *)
FetchedIsRun == faults = 0 /\ "overwritten" \notin wasted => EachIsSomewhere
=============================================================================
