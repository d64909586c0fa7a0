------------------------------ MODULE Delivery ------------------------------
(***************************************************************************)
(* What a migration promises of its messages, whatever fails: they are     *)
(* delivered at least once, a message is acknowledged (the state database  *)
(* calls it migrated) only after it was delivered, and neither is ever     *)
(* taken back.  MailboxSync implements it.                                 *)
(***************************************************************************)
CONSTANTS Pairs, Boxes, SrcOf, Loc, Msgs, NoMsg

VARIABLES
  content,    \* [Boxes -> [Loc -> message or NoMsg]]
  delivered,  \* pairs <<p, m>>: the target mailbox of p has a copy of m
  acked       \* triples <<p, b, l>>: what b has at l counts as migrated for p

vars == <<content, delivered, acked>>

Init ==
  /\ content \in [Boxes -> [Loc -> Msgs \cup {NoMsg}]]
  /\ delivered = {}
  /\ acked = {}

(* The user's mail client or the source server puts m at a new location.   *)
Place(b, l, m) ==
  /\ content[b][l] = NoMsg
  /\ content' = [content EXCEPT ![b][l] = m]
  /\ UNCHANGED <<delivered, acked>>

Deliver(p, m) ==
  /\ delivered' = delivered \cup {<<p, m>>}
  /\ UNCHANGED <<content, acked>>

Acknowledge(p, b, l) ==
  /\ <<p, content[b][l]>> \in delivered
  /\ acked' = acked \cup {<<p, b, l>>}
  /\ UNCHANGED <<content, delivered>>

(* The acknowledgement follows a message from one location to another.     *)
Reassign(p, b, l, k) ==
  /\ <<p, b, l>> \in acked /\ content[b][l] = content[b][k]
  /\ acked' = (acked \ {<<p, b, l>>}) \cup {<<p, b, k>>}
  /\ UNCHANGED <<content, delivered>>

Next ==
  \/ \E b \in Boxes, l \in Loc, m \in Msgs : Place(b, l, m)
  \/ \E p \in Pairs, m \in Msgs : Deliver(p, m)
  \/ \E p \in Pairs, b \in Boxes, l \in Loc :
       Acknowledge(p, b, l) \/ \E k \in Loc : Reassign(p, b, l, k)

Spec == Init /\ [][Next]_vars
=============================================================================
