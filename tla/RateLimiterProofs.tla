-------------------------- MODULE RateLimiterProofs --------------------------
(***************************************************************************)
(* The token bucket for every rate, every bucket and any number of         *)
(* threads: it is never more than twice as fast as it should be.           *)
(***************************************************************************)
EXTENDS RateLimiter, TLAPS

IInv == TypeOK /\ Credit /\ SleepIsShort

(* The invariant holds of a full bucket at time 0, and of every step.      *)
LEMMA InitIInv == Init => IInv
  BY RateLimiterAssumption DEF Init, IInv, TypeOK, Credit, SleepIsShort

LEMMA NextIInv == IInv /\ [Next]_vars => IInv'
<1> SUFFICES ASSUME IInv, [Next]_vars PROVE IInv'
  OBVIOUS
<1> USE RateLimiterAssumption DEF IInv, TypeOK, Credit, SleepIsShort
<1>1. CASE Tick
  BY <1>1 DEF Tick
<1>2. ASSUME NEW t \in Threads, Take(t) PROVE IInv'
  BY <1>2 DEF Take, Credited
<1>3. ASSUME NEW t \in Threads, Sleep(t) PROVE IInv'
  BY <1>3 DEF Sleep, Credited
<1>4. ASSUME NEW t \in Threads, Wake(t) PROVE IInv'
  BY <1>4 DEF Wake
<1>5. CASE UNCHANGED vars
  BY <1>5 DEF vars
<1> QED
  BY <1>1, <1>2, <1>3, <1>4, <1>5 DEF Next

(* The tokens stay between zero and a full bucket, the clock of the bucket *)
(* never runs ahead.                                                       *)
THEOREM RateLimiterTypeOK == Spec => []TypeOK
<1>1. IInv => TypeOK
  BY DEF IInv
<1> QED
  BY <1>1, InitIInv, NextIInv, PTL DEF Spec

(* Whatever the rate, the bucket and the number of threads that share it,  *)
(* acquire lets through no more than a bucket and twice the rate; a thread *)
(* never sleeps longer than one message takes.                             *)
THEOREM TwiceTheRateAtMost == Spec => [](AtMostTwice /\ SleepIsShort)
<1>1. IInv => AtMostTwice /\ SleepIsShort
  BY RateLimiterAssumption DEF IInv, TypeOK, Credit, SleepIsShort, AtMostTwice
<1> QED
  BY <1>1, InitIInv, NextIInv, PTL DEF Spec
=============================================================================
