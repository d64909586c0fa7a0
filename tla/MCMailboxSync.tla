---------------------------- MODULE MCMailboxSync ----------------------------
(* Instances of MailboxSync for TLC: two or three source folders with      *)
(* target folders of their own, or with one that two of them share.        *)
EXTENDS MailboxSync, TLC

CONSTANTS p1, b1, A, B, C, m1, m2

OnePair == (p1 :> b1)
Apart == (A :> "TA") @@ (B :> "TB")
Apart3 == Apart @@ (C :> "TC")
Merged == Apart @@ (C :> "TA")

Holding(contents) ==
  [l \in Loc |-> IF l \in DOMAIN contents THEN contents[l] ELSE NoMsg]

(* One message per folder; one message in both folders; two in one folder. *)
OneEach == Holding((<<A, 1>> :> m1) @@ (<<B, 1>> :> m2))
InBoth == Holding((<<A, 1>> :> m1) @@ (<<B, 1>> :> m1))
TwoInOne == Holding((<<A, 1>> :> m1) @@ (<<A, 2>> :> m2))
Single == Holding(<<A, 1>> :> m1)

StartSingle == {Single}
StartTwo == {TwoInOne}
StartSome == {OneEach, InBoth}
StartAll == {OneEach, InBoth, TwoInOne}
=============================================================================
