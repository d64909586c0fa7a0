----------------------------- MODULE RateLimiter -----------------------------
(***************************************************************************)
(* The token bucket that all worker threads share: RateLimiter.acquire     *)
(* (src/migrator.py), with rate > 0.                                       *)
(*                                                                         *)
(* Time is counted in ticks and tokens in parts such that one tick is      *)
(* worth one part; Cost parts make the token of one message, so a message  *)
(* may be sent every Cost ticks.  The bucket holds Cap parts: rate tokens, *)
(* less than one when rate < 1.                                            *)
(***************************************************************************)
EXTENDS Integers

CONSTANTS
  Threads,
  NoThread,
  Cost, Cap,
  MaxTime   \* bound: ticks

ASSUME RateLimiterAssumption ==
  /\ NoThread \notin Threads
  /\ Cost \in Nat \ {0}
  /\ Cap \in Nat \ {0}
  /\ MaxTime \in Nat

VARIABLES
  now,     \* time.monotonic()
  tokens,  \* self._tokens
  last,    \* self._last
  holder,  \* the thread that sleeps holding self._lock
  wakeAt,  \* when its sleep is over
  spent    \* observer: Cost for every acquire that has returned

vars == <<now, tokens, last, holder, wakeAt, spent>>

TypeOK ==
  /\ now \in Nat /\ last \in 0 .. now
  /\ tokens \in 0 .. Cap
  /\ holder \in Threads \cup {NoThread}
  /\ wakeAt \in Nat
  /\ spent \in Nat

Init ==
  /\ now = 0 /\ last = 0
  /\ tokens = Cap
  /\ holder = NoThread /\ wakeAt = 0
  /\ spent = 0

-----------------------------------------------------------------------------
(* Mutant: the bucket has no bottom to fill up to.                         *)
Unbounded == tokens + (now - last)

(* The bucket after the time since last is credited.                       *)
Credited == IF tokens + (now - last) < Cap THEN tokens + (now - last) ELSE Cap

(* Mutant: self._last is set only before a sleep.                          *)
TakeAgain(t) ==
  /\ holder = NoThread /\ Credited >= Cost
  /\ tokens' = Credited - Cost
  /\ spent' = spent + Cost
  /\ UNCHANGED <<last, now, holder, wakeAt>>

(* There is a token: acquire returns.                                      *)
Take(t) ==
  /\ holder = NoThread /\ Credited >= Cost
  /\ last' = now
  /\ tokens' = Credited - Cost
  /\ spent' = spent + Cost
  /\ UNCHANGED <<now, holder, wakeAt>>

(* There is none: the thread sleeps, with the lock.                        *)
Sleep(t) ==
  /\ holder = NoThread /\ Credited < Cost
  /\ last' = now
  /\ tokens' = Credited
  /\ holder' = t /\ wakeAt' = now + (Cost - Credited)
  /\ UNCHANGED <<now, spent>>

(* The sleep is over, perhaps late: acquire returns.  self._last is still  *)
(* the time it began.                                                      *)
Wake(t) ==
  /\ holder = t /\ now >= wakeAt
  /\ tokens' = 0
  /\ spent' = spent + Cost
  /\ holder' = NoThread
  /\ UNCHANGED <<now, last, wakeAt>>

Tick ==
  /\ now < MaxTime /\ now' = now + 1
  /\ UNCHANGED <<tokens, last, holder, wakeAt, spent>>

Next == Tick \/ \E t \in Threads : Take(t) \/ Sleep(t) \/ Wake(t)

Spec == Init /\ [][Next]_vars

-----------------------------------------------------------------------------
(* Properties.                                                             *)

(* No more than a full bucket and twice the rate is ever sent.             *)
AtMostTwice == spent <= Cap + 2 * now

(* What AtMostTwice rests on: time slept is credited once as a message and *)
(* once more by the next acquire.                                          *)
Credit ==
  IF holder = NoThread
    THEN spent + tokens <= Cap + last + now
    ELSE spent + tokens <= Cap + 2 * last /\ wakeAt = last + (Cost - tokens)

(* No thread sleeps, and keeps the others waiting, for longer than a       *)
(* message takes at the configured rate.                                   *)
SleepIsShort == holder # NoThread => wakeAt <= last + Cost

=============================================================================
