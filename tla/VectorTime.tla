----------------------------- MODULE VectorTime -----------------------------
(***************************************************************************)
(* lib/vector-clock.js as operators.  A clock is a function from process   *)
(* ids to counters.  The code keeps an array with entries for the ids it   *)
(* has heard of; an id without an entry has the value 0 in getTimeFor, is  *)
(* ignored by getMaxTimestamp and is created by updateTimeForId with the   *)
(* value it is compared with, so "no entry" and "entry 0" cannot be told   *)
(* apart and a total function is exact.  A clock travels as JSON, that is  *)
(* by value.                                                               *)
(***************************************************************************)
EXTENDS Naturals

\* What updateTimeForId(id, cmpTime) leaves in an entry.
Larger(a, b) == IF a >= b THEN a ELSE b

NewClock(P) == [p \in P |-> 0]

\* tick(): the counter of the clock's own process.
Tick(clock, me) == [clock EXCEPT ![me] = @ + 1]

\* update(clock): every entry of the other clock, the receiver's own included.
Update(clock, other) ==
  [p \in DOMAIN clock |-> Larger(clock[p], IF p \in DOMAIN other THEN other[p] ELSE 0)]

\* getMaxTimestamp()
MaxTimestamp(clock) ==
  CHOOSE t \in {clock[p] : p \in DOMAIN clock} : \A p \in DOMAIN clock : clock[p] <= t
=============================================================================
