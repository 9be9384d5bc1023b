----------------------------- MODULE BlockQueue -----------------------------
(* block_queue<T>: a circular array under a mutex, with a condition        *)
(* variable for consumers.  A section between lock() and unlock() is one   *)
(* step; waiting on the condition variable ends the section, and the thread *)
(* takes the mutex again in a step of its own.                             *)
EXTENDS Integers, Sequences

CONSTANTS
  Consumers,    (* threads that call pop()                                 *)
  Items,        (* what is pushed                                          *)
  NoItem,       (* a slot of m_array nothing was written to                *)
  MaxSize       (* m_max_size                                              *)

(* The constructor exits unless max_size is positive. *)
ASSUME QueueAssumption == MaxSize \in Nat \ {0} /\ NoItem \notin Items

VARIABLES
  m_array, m_size, m_front, m_back,
  popping,      (* consumer -> where it is in pop()                        *)
  item          (* consumer -> the last element pop() gave it              *)
bqvars == <<m_array, m_size, m_front, m_back, popping, item>>

Slots == 0 .. MaxSize - 1
PopPcs == {"out", "asleep", "woken", "asleep till deadline", "woken in time"}

(* Mutant: the last slot is counted as free once too often. *)
full_late == m_size > MaxSize
full == m_size >= MaxSize

----------------------------------------------------------------------------
BQInit ==
  /\ m_array = [i \in Slots |-> NoItem]
  /\ m_size = 0 /\ m_front = -1 /\ m_back = -1
  /\ popping = [t \in Consumers |-> "out"] /\ item = [t \in Consumers |-> NoItem]

(* m_cond.broadcast() *)
broadcast ==
  popping' = [t \in Consumers |-> CASE popping[t] = "asleep" -> "woken"
                                    [] popping[t] = "asleep till deadline" -> "woken in time"
                                    [] OTHER -> popping[t]]

(* Mutant: consumers are woken only when the queue is full. *)
push_silent(x) ==
  /\ IF full THEN broadcast /\ UNCHANGED <<m_array, m_size, m_back>>
     ELSE /\ m_back' = (m_back + 1) % MaxSize
          /\ m_array' = [m_array EXCEPT ![m_back'] = x]
          /\ m_size' = m_size + 1
          /\ UNCHANGED popping
  /\ UNCHANGED <<m_front, item>>

(* Mutant: the element is written where m_back pointed before. *)
push_behind(x) ==
  /\ IF full THEN UNCHANGED <<m_array, m_size, m_back>>
     ELSE /\ m_back' = (m_back + 1) % MaxSize
          /\ m_array' = [m_array EXCEPT ![m_back % MaxSize] = x]
          /\ m_size' = m_size + 1
  /\ broadcast
  /\ UNCHANGED <<m_front, item>>

(* A full queue takes no element: push() returns false. *)
push(x) ==
  /\ IF full THEN UNCHANGED <<m_array, m_size, m_back>>
     ELSE /\ m_back' = (m_back + 1) % MaxSize
          /\ m_array' = [m_array EXCEPT ![m_back'] = x]
          /\ m_size' = m_size + 1
  /\ broadcast
  /\ UNCHANGED <<m_front, item>>

(* Mutant: the last element leaves in place of the first. *)
takeFirst_newest(t) ==
  /\ m_back' = (m_back + MaxSize - 1) % MaxSize
  /\ item' = [item EXCEPT ![t] = m_array[m_back]]
  /\ m_size' = m_size - 1
  /\ popping' = [popping EXCEPT ![t] = "out"]
  /\ UNCHANGED <<m_array, m_front>>

(* The end of both pops: the first element leaves the queue. *)
takeFirst(t) ==
  /\ m_front' = (m_front + 1) % MaxSize
  /\ item' = [item EXCEPT ![t] = m_array[m_front']]
  /\ m_size' = m_size - 1
  /\ popping' = [popping EXCEPT ![t] = "out"]
  /\ UNCHANGED <<m_array, m_back>>

pause(t, how) ==
  /\ popping' = [popping EXCEPT ![t] = how]
  /\ UNCHANGED <<m_array, m_size, m_front, m_back, item>>

(* pop(item): wait, and look again when woken.  (pthread_cond_wait fails   *)
(* only for a mutex its caller does not hold, so pop never returns false.) *)
pop(t) ==
  /\ popping[t] \in {"out", "woken"}
  /\ IF m_size <= 0 THEN pause(t, "asleep") ELSE takeFirst(t)

(* pop(item, ms_timeout): one wait, ... *)
popTimed(t) ==
  /\ popping[t] = "out"
  /\ IF m_size <= 0 THEN pause(t, "asleep till deadline") ELSE takeFirst(t)

(* ... after which an empty queue makes it return false, ... *)
popTimedWoken(t) ==
  /\ popping[t] = "woken in time"
  /\ IF m_size <= 0 THEN pause(t, "out") ELSE takeFirst(t)

(* ... and so does the deadline, whatever is in the queue.  It may be past *)
(* from the start: its nanoseconds are those of ms_timeout alone.          *)
timewait(t) ==
  /\ popping[t] = "asleep till deadline"
  /\ pause(t, "out")

(* POSIX allows a wait to end without a broadcast. *)
SpuriousWakeup(t) == popping[t] = "asleep" /\ pause(t, "woken")
SpuriousTimed(t) == popping[t] = "asleep till deadline" /\ pause(t, "woken in time")

clear ==
  /\ m_size' = 0 /\ m_front' = -1 /\ m_back' = -1
  /\ UNCHANGED <<m_array, popping, item>>

Consume(t) ==
  pop(t) \/ popTimed(t) \/ popTimedWoken(t) \/ timewait(t)
  \/ SpuriousWakeup(t) \/ SpuriousTimed(t)
BQNext == (\E x \in Items : push(x)) \/ (\E t \in Consumers : Consume(t)) \/ clear
BQSpec == BQInit /\ [][BQNext]_bqvars

(* A thread that has been woken gets the mutex in the end. *)
BQFairSpec ==
  BQSpec /\ \A t \in Consumers :
              WF_bqvars(popping[t] # "out" /\ (pop(t) \/ popTimedWoken(t)))

----------------------------------------------------------------------------
BQTypeOK ==
  /\ m_array \in [Slots -> Items \cup {NoItem}]
  /\ m_size \in 0 .. MaxSize
  /\ m_front \in -1 .. MaxSize - 1 /\ m_back \in -1 .. MaxSize - 1
  /\ popping \in [Consumers -> PopPcs] /\ item \in [Consumers -> Items \cup {NoItem}]

(* The circular array is the bounded queue it stands for: whatever pushes, *)
(* pops, timeouts and clears come in whatever order, no element is lost,   *)
(* doubled or overtaken, and no slot is read that was not written.         *)
Contents == [i \in 1 .. m_size |-> m_array[(m_front + i) % MaxSize]]
Fifo == INSTANCE BoundedFifo WITH queue <- Contents, received <- item
ImplementsFifo == Fifo!Spec

(* No wake-up is lost: a thread does not stay in pop() while the queue has *)
(* an element for it.                                                      *)
PopReturns ==
  \A t \in Consumers : popping[t] # "out" /\ m_size > 0 ~> popping[t] = "out" \/ m_size = 0
=============================================================================
