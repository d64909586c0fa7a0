------------------------------- MODULE MCPstJob -------------------------------
(* Instances of PstJob for TLC: three items in one mailbox, two of one id, *)
(* and in another one that is only listed and one that is not read.        *)
EXTENDS PstJob

CONSTANTS a1, a2, m1, m2, m3, m4, m5

MCBoxOf == [m \in Items |-> IF m \in {m4, m5} THEN 2 ELSE 1]
MCIdOf == [m \in Items |-> IF m = m2 THEN m1 ELSE m]
MCModeOf == [m \in Items |-> CASE m = m4 -> "inventory" [] m = m5 -> "disabled"
                                [] OTHER -> "import"]
MCJobs == 1 .. 1
MCMailboxes == 1 .. 2
=============================================================================
