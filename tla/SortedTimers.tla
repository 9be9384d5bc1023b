---------------------------- MODULE SortedTimers ----------------------------
(* What sort_timer_lst promises its callers: a set of timers, each with an *)
(* expiry, of which tick() removes those that have expired, and no other.  *)
(* How the timers are linked is TimerList's business.                      *)
EXTENDS Integers

CONSTANTS Timers, MaxTime, Span

VARIABLES
  live,         (* the timers in the container                             *)
  expire,       (* timer -> when it expires                                *)
  now           (* the clock                                               *)
svars == <<live, expire, now>>

Init == live = {} /\ expire = [t \in Timers |-> 0] /\ now = 0

Add(t, e) ==
  /\ t \notin live
  /\ live' = live \cup {t} /\ expire' = [expire EXCEPT ![t] = e]
  /\ UNCHANGED now

Adjust(t, e) ==
  /\ t \in live
  /\ expire' = [expire EXCEPT ![t] = e]
  /\ UNCHANGED <<live, now>>

Delete(t) ==
  /\ t \in live
  /\ live' = live \ {t}
  /\ UNCHANGED <<expire, now>>

Tick ==
  /\ live' = {t \in live : now < expire[t]}
  /\ UNCHANGED <<expire, now>>

Elapse ==
  /\ now < MaxTime /\ now' = now + 1
  /\ UNCHANGED <<live, expire>>

Next ==
  \/ \E t \in Timers : Delete(t) \/ \E e \in now + 1 .. now + Span : Add(t, e) \/ Adjust(t, e)
  \/ Tick \/ Elapse
Spec == Init /\ [][Next]_svars
=============================================================================
