----------------------------- MODULE TimerList -----------------------------
(* sort_timer_lst: a doubly linked list of timers, nearest expiry first.   *)
(* Only the main thread uses it, so an operation is one step.  A node that *)
(* was deleted reads as Freed: no operation may follow such a pointer.     *)
EXTENDS Integers, FiniteSets

CONSTANTS
  Timers,       (* addresses new util_timer can return                     *)
  Nil, Freed,   (* nullptr; the content of deleted memory                  *)
  MaxTime,      (* bound on the clock                                      *)
  Span          (* bound on how far ahead a timer is set                   *)

ASSUME TimerAssumption ==
  /\ IsFiniteSet(Timers) /\ {Nil, Freed} \cap Timers = {} /\ Nil # Freed
  /\ MaxTime \in Nat /\ Span \in Nat \ {0}

VARIABLES
  list,         (* the fields head and tail, and the links of the nodes    *)
  expire, now
tvars == <<list, expire, now>>

Allocated == {t \in Timers : list.next[t] # Freed}
Delete(L, S) == [L EXCEPT !.next = [t \in Timers |-> IF t \in S THEN Freed ELSE L.next[t]],
                          !.prev = [t \in Timers |-> IF t \in S THEN Freed ELSE L.prev[t]]]
Create(L, t) == [L EXCEPT !.next[t] = Nil, !.prev[t] = Nil]

----------------------------------------------------------------------------
(* The private add_timer: walk on from `from' to the first node whose      *)
(* successor expires later, and link t behind it.                          *)
places(L, x, t) ==
  LET place[p \in Timers] ==
        IF L.next[p] \in Timers /\ x[t] >= x[L.next[p]] THEN place[L.next[p]] ELSE p
  IN  place
link(L, x, t, from) ==
  LET p == places(L, x, t)[from]
      n == L.next[p]
  IN IF n = Nil
     THEN [L EXCEPT !.next[p] = t, !.prev[t] = p, !.next[t] = Nil, !.tail = t]
     ELSE [L EXCEPT !.next[p] = t, !.next[t] = n, !.prev[n] = t, !.prev[t] = p]

(* Mutant: always behind the head. *)
add_timer_unsorted(L, x, t) ==
  IF L.head = Nil THEN [L EXCEPT !.head = t, !.tail = t] ELSE link(L, x, t, L.head)

add_timer(L, x, t) ==
  IF L.head = Nil THEN [L EXCEPT !.head = t, !.tail = t]
  ELSE IF x[t] < x[L.head]
       THEN [L EXCEPT !.next[t] = L.head, !.prev[L.head] = t, !.head = t]
       ELSE link(L, x, t, L.head)

(* t has got its new expiry x[t]: it moves only if its successor is now    *)
(* due before it.                                                          *)
adjust_timer(L, x, t) ==
  LET n == L.next[t] IN
  IF n = Nil THEN L
  ELSE IF x[t] < x[n] THEN L
  ELSE IF t = L.head
       THEN link([L EXCEPT !.head = n, !.prev[n] = Nil, !.next[t] = Nil], x, t, n)
       ELSE link([L EXCEPT !.next[L.prev[t]] = n, !.prev[n] = L.prev[t]], x, t, n)

(* Mutant: the successor of the head is read after the head is deleted. *)
del_timer_late(L, t) ==
  IF t = L.head THEN LET D == Delete(L, {t}) IN [D EXCEPT !.head = D.next[t]]
  ELSE IF t = L.tail
  THEN Delete([L EXCEPT !.tail = L.prev[t], !.next[L.prev[t]] = Nil], {t})
  ELSE Delete([L EXCEPT !.next[L.prev[t]] = L.next[t],
                        !.prev[L.next[t]] = L.prev[t]], {t})

del_timer(L, t) ==
  LET n == L.next[t]
      p == L.prev[t]
      unlinked ==
        CASE t = L.head /\ t = L.tail -> [L EXCEPT !.head = Nil, !.tail = Nil]
          [] t = L.head /\ t # L.tail -> [L EXCEPT !.head = n, !.prev[n] = Nil]
          [] t # L.head /\ t = L.tail -> [L EXCEPT !.tail = p, !.next[p] = Nil]
          [] OTHER -> [L EXCEPT !.next[p] = n, !.prev[n] = p]
  IN Delete(unlinked, {t})

(* Mutant: a timer that expires this second is not due yet. *)
Due_late(t) == now > expire[t]
Due(t) == now >= expire[t]

(* tick() deletes nodes from the head on up to the first that is not due.  *)
(* When it empties the list, tail keeps the address of a deleted node.     *)
stops(L) ==
  LET stop[p \in Timers \cup {Nil, Freed}] ==
        IF p \in Timers /\ Due(p) THEN stop[L.next[p]] ELSE p
  IN  stop
expired(L) ==
  LET passed[p \in Timers \cup {Nil, Freed}] ==
        IF p \in Timers /\ Due(p) THEN {p} \cup passed[L.next[p]] ELSE {}
  IN  passed
tick(L) ==
  LET h == stops(L)[L.head]
      D == Delete(L, expired(L)[L.head])
  IN IF h = Nil THEN [D EXCEPT !.head = Nil] ELSE [D EXCEPT !.head = h, !.prev[h] = Nil]

----------------------------------------------------------------------------
Init ==
  /\ list = [head |-> Nil, tail |-> Nil,
             next |-> [t \in Timers |-> Freed], prev |-> [t \in Timers |-> Freed]]
  /\ expire = [t \in Timers |-> 0] /\ now = 0

(* WebServer::timer creates a timer and adds it. *)
Add(t, e) ==
  /\ t \notin Allocated
  /\ expire' = [expire EXCEPT ![t] = e]
  /\ list' = add_timer(Create(list, t), expire', t)
  /\ UNCHANGED now

(* WebServer::adjust_timer sets a live timer to a later time. *)
Adjust(t, e) ==
  /\ t \in Allocated /\ e >= expire[t]
  /\ expire' = [expire EXCEPT ![t] = e]
  /\ list' = adjust_timer(list, expire', t)
  /\ UNCHANGED now

(* WebServer::deal_timer deletes a live timer. *)
Del(t) ==
  /\ t \in Allocated
  /\ list' = del_timer(list, t)
  /\ UNCHANGED <<expire, now>>

Tick == list.head # Nil /\ list' = tick(list) /\ UNCHANGED <<expire, now>>

(* The clock does not go backwards. *)
Elapse == now < MaxTime /\ now' = now + 1 /\ UNCHANGED <<list, expire>>

Next ==
  \/ \E t \in Timers : Del(t)
  \/ \E t \in Timers, e \in now + 1 .. now + Span : Add(t, e) \/ Adjust(t, e)
  \/ Tick \/ Elapse
Spec == Init /\ [][Next]_tvars

----------------------------------------------------------------------------
Lists == [head : Timers \cup {Nil}, tail : Timers \cup {Nil},
          next : [Timers -> Timers \cup {Nil, Freed}],
          prev : [Timers -> Timers \cup {Nil, Freed}]]
TLTypeOK ==
  /\ list \in Lists
  /\ expire \in [Timers -> 0 .. MaxTime + Span] /\ now \in 0 .. MaxTime

(* The live nodes in the order of the list: from head to tail along next,  *)
(* back along prev, the nearest expiry first, no node left out (a leaked   *)
(* timer would never close its connection) and no deleted node linked in.  *)
Ordered(s) ==
  LET n == Cardinality(Allocated) IN
  /\ \A i, j \in 1 .. n : i < j => s[i] # s[j] /\ expire[s[i]] <= expire[s[j]]
  /\ \A i \in 1 .. n : /\ list.next[s[i]] = IF i = n THEN Nil ELSE s[i + 1]
                       /\ list.prev[s[i]] = IF i = 1 THEN Nil ELSE s[i - 1]
  /\ IF n = 0 THEN list.head = Nil ELSE list.head = s[1] /\ list.tail = s[n]
WellLinked == \E s \in [1 .. Cardinality(Allocated) -> Allocated] : Ordered(s)

(* The timers that a walk from head meets. *)
walk(L) ==
  LET node[k \in 0 .. Cardinality(Timers)] ==
        IF k = 0 THEN L.head
        ELSE IF node[k - 1] \in Timers THEN L.next[node[k - 1]] ELSE Nil
  IN  node
Linked == {walk(list)[k] : k \in 0 .. Cardinality(Timers)} \cap Timers

(* Seen from its callers the list is a set of timers: an operation touches *)
(* no timer but its own, and tick() removes exactly the expired ones       *)
(* although it stops at the first that is not.                             *)
Sorted == INSTANCE SortedTimers WITH live <- Linked
ImplementsSorted == Sorted!Spec
=============================================================================
