------------------------- MODULE BlockQueueProofs -------------------------
(* Theorems of BlockQueue, for any size and any number of consumers: the   *)
(* circular array implements BoundedFifo.                                  *)
EXTENDS BlockQueue, TLAPS

(* The slot of the i-th element of a queue whose m_front is f. *)
slot(f, i) == (f + i) % MaxSize

LEMMA SlotValue ==
  ASSUME NEW f \in -1 .. MaxSize - 1, NEW i \in 1 .. MaxSize
  PROVE  /\ slot(f, i) \in Slots
         /\ slot(f, i) = IF f + i < MaxSize THEN f + i ELSE f + i - MaxSize
<1>1. MaxSize \in Nat \ {0} /\ f + i \in 0 .. (2 * MaxSize - 1)
  BY QueueAssumption
<1>2. \A k \in 0 .. (MaxSize - 1) : k % MaxSize = k
  BY <1>1
<1>3. \A k \in MaxSize .. (2 * MaxSize - 1) : k % MaxSize = k - MaxSize
  BY <1>1
<1>4. CASE f + i < MaxSize
  BY <1>1, <1>2, <1>4 DEF slot, Slots
<1>5. CASE ~(f + i < MaxSize)
  BY <1>1, <1>3, <1>5 DEF slot, Slots
<1> QED
  BY <1>4, <1>5

(* Two elements never share a slot. *)
LEMMA SlotApart ==
  ASSUME NEW f \in -1 .. MaxSize - 1, NEW i \in 1 .. MaxSize, NEW j \in 1 .. MaxSize, i # j
  PROVE  slot(f, i) # slot(f, j)
  BY SlotValue, QueueAssumption

(* After a pop every element is one place further to the front. *)
LEMMA SlotAfterPop ==
  ASSUME NEW f \in -1 .. MaxSize - 1, NEW i \in 1 .. MaxSize - 1
  PROVE  slot(slot(f, 1), i) = slot(f, i + 1)
<1>1. MaxSize \in Nat \ {0} /\ 1 \in 1 .. MaxSize /\ i \in 1 .. MaxSize /\ i + 1 \in 1 .. MaxSize
  BY QueueAssumption
<1>2. slot(f, 1) \in -1 .. MaxSize - 1
  BY <1>1, SlotValue DEF Slots
<1> QED
  BY <1>1, <1>2, SlotValue

(* m_back is the slot of the last element; an empty queue has m_back where *)
(* m_front is.  Every element was written.                                 *)
BQInv ==
  /\ BQTypeOK
  /\ m_back = IF m_size = 0 THEN m_front ELSE slot(m_front, m_size)
  /\ \A i \in 1 .. m_size : m_array[slot(m_front, i)] \in Items

LEMMA ContentsFacts ==
  ASSUME BQInv
  PROVE  /\ Contents \in Seq(Items) /\ Len(Contents) = m_size
         /\ \A i \in 1 .. m_size : Contents[i] = m_array[slot(m_front, i)]
<1>1. m_size \in Nat
  BY QueueAssumption DEF BQInv, BQTypeOK
<1>2. Contents = [i \in 1 .. m_size |-> m_array[slot(m_front, i)]]
  BY DEF Contents, slot
<1> QED
  BY <1>1, <1>2 DEF BQInv

(* What every operation does to the queue it implements. *)
Refines == [Fifo!Next]_<<Contents, item>>

LEMMA Paused ==
  ASSUME BQInv, NEW t \in Consumers, NEW how \in PopPcs, pause(t, how)
  PROVE  BQInv' /\ Refines
  BY DEF pause, BQInv, BQTypeOK, Contents, Refines, PopPcs

LEMMA Pushed ==
  ASSUME BQInv, NEW x \in Items, push(x)
  PROVE  /\ BQInv' /\ Refines
         /\ Contents' = IF full THEN Contents ELSE Append(Contents, x)
<1>t. /\ MaxSize \in Nat \ {0} /\ m_size \in 0 .. MaxSize /\ m_front \in -1 .. MaxSize - 1
      /\ m_array \in [Slots -> Items \cup {NoItem}] /\ popping \in [Consumers -> PopPcs]
      /\ m_front' = m_front /\ item' = item
  BY QueueAssumption DEF BQInv, BQTypeOK, push
<1>p. popping' \in [Consumers -> PopPcs]
  BY <1>t DEF push, broadcast, PopPcs
<1>1. CASE full
  <2>1. UNCHANGED <<m_array, m_size, m_back, m_front, item>>
    BY <1>1, <1>t DEF push
  <2> QED
    BY <1>1, <1>p, <2>1 DEF BQInv, BQTypeOK, Contents, Refines
<1>2. CASE ~full
  <2> DEFINE n == m_size + 1
  <2>1. n \in 1 .. MaxSize /\ m_size' = n /\ n # 0
    BY <1>2, <1>t DEF push, full
  <2>2. m_back' = slot(m_front, n)
    <3>1. m_back' = slot(m_back, 1)
      BY <1>2 DEF push, slot
    <3>2. CASE m_size = 0
      BY <3>1, <3>2 DEF BQInv
    <3>3. CASE m_size # 0
      <4>1. m_size \in 1 .. MaxSize /\ 1 \in 1 .. MaxSize /\ m_back = slot(m_front, m_size)
        BY <1>t, <3>3 DEF BQInv
      <4>2. m_back \in -1 .. MaxSize - 1
        BY DEF BQInv, BQTypeOK
      <4> QED
        BY <1>t, <2>1, <3>1, <4>1, <4>2, SlotValue
    <3> QED
      BY <3>2, <3>3
  <2>3. m_array' = [m_array EXCEPT ![slot(m_front, n)] = x] /\ slot(m_front, n) \in Slots
    BY <1>2, <1>t, <2>1, <2>2, SlotValue DEF push
  <2>4. /\ m_array'[slot(m_front, n)] = x
        /\ \A i \in 1 .. m_size : m_array'[slot(m_front, i)] = m_array[slot(m_front, i)]
    <3>1. \A i \in 1 .. m_size : i \in 1 .. MaxSize /\ i # n
      BY <1>t, <2>1
    <3>2. \A i \in 1 .. m_size : slot(m_front, i) \in Slots /\ slot(m_front, i) # slot(m_front, n)
      BY <1>t, <2>1, <3>1, SlotValue, SlotApart
    <3> QED
      BY <1>t, <2>3, <3>2
  <2>5. \A i \in 1 .. n : i = n \/ i \in 1 .. m_size
    BY <1>t
  <2>6. BQInv'
    <3>1. BQTypeOK'
      <4>1. m_array' \in [Slots -> Items \cup {NoItem}]
        BY <1>t, <2>3
      <4>2. m_back' \in -1 .. MaxSize - 1
        BY <1>t, <2>2, <2>3 DEF Slots
      <4>3. m_size' \in 0 .. MaxSize
        BY <1>t, <2>1
      <4> QED
        BY <1>t, <1>p, <4>1, <4>2, <4>3 DEF BQInv, BQTypeOK
    <3>2. \A i \in 1 .. n : m_array'[slot(m_front, i)] \in Items
      BY <2>4, <2>5 DEF BQInv
    <3> QED
      BY <1>t, <2>1, <2>2, <3>1, <3>2 DEF BQInv, slot
  <2>7. Contents' = Append(Contents, x)
    <3>1. /\ Contents' \in Seq(Items) /\ Len(Contents') = n
          /\ \A i \in 1 .. n : Contents'[i] = m_array'[slot(m_front, i)]
      <4>1. Contents' = [i \in 1 .. n |-> m_array'[slot(m_front, i)]]
        BY <1>t, <2>1 DEF Contents, slot
      <4>2. \A i \in 1 .. n : m_array'[slot(m_front, i)] \in Items
        BY <2>4, <2>5 DEF BQInv
      <4> QED
        BY <2>1, <4>1, <4>2
    <3>2. /\ Append(Contents, x) \in Seq(Items) /\ Len(Append(Contents, x)) = n
          /\ \A i \in 1 .. m_size : Append(Contents, x)[i] = Contents[i]
          /\ Append(Contents, x)[n] = x
      BY <1>t, ContentsFacts
    <3>3. \A i \in 1 .. n : Contents'[i] = Append(Contents, x)[i]
      BY <2>1, <2>4, <2>5, <3>1, <3>2, ContentsFacts
    <3> QED
      BY <2>1, <3>1, <3>2, <3>3
  <2>8. Len(Contents) < MaxSize
    BY <1>t, <2>1, ContentsFacts
  <2> QED
    BY <1>t, <1>2, <2>6, <2>7, <2>8 DEF Refines, Fifo!Next, Fifo!Put
<1> QED
  BY <1>1, <1>2

LEMMA TookFirst ==
  ASSUME BQInv, NEW t \in Consumers, ~(m_size <= 0), takeFirst(t)
  PROVE  /\ BQInv' /\ Refines
         /\ Contents # <<>> /\ Contents' = Tail(Contents)
         /\ item' = [item EXCEPT ![t] = Head(Contents)] /\ popping' = [popping EXCEPT ![t] = "out"]
<1> DEFINE f == slot(m_front, 1)
<1>t. /\ MaxSize \in Nat \ {0} /\ m_size \in 1 .. MaxSize /\ m_front \in -1 .. MaxSize - 1
      /\ 1 \in 1 .. MaxSize /\ 1 \in 1 .. m_size
      /\ m_array \in [Slots -> Items \cup {NoItem}] /\ popping \in [Consumers -> PopPcs]
      /\ item \in [Consumers -> Items \cup {NoItem}]
  BY QueueAssumption DEF BQInv, BQTypeOK
<1>0. /\ m_front' = f /\ m_size' = m_size - 1 /\ UNCHANGED <<m_array, m_back>>
      /\ item' = [item EXCEPT ![t] = m_array[f]]
      /\ popping' = [popping EXCEPT ![t] = "out"]
  BY DEF takeFirst, slot
<1>1. f \in Slots /\ m_array[f] \in Items
  BY <1>t, SlotValue DEF BQInv
<1>2. \A i \in 1 .. m_size' : /\ i \in 1 .. MaxSize - 1 /\ i + 1 \in 1 .. m_size
                              /\ slot(f, i) = slot(m_front, i + 1)
  <2>1. \A i \in 1 .. m_size' : i \in 1 .. MaxSize - 1 /\ i + 1 \in 1 .. m_size
    BY <1>t, <1>0
  <2> QED
    BY <1>t, <2>1, SlotAfterPop
<1>3. BQInv'
  <2>1. BQTypeOK'
    <3>1. m_front' \in -1 .. MaxSize - 1 /\ m_size' \in 0 .. MaxSize
      BY <1>t, <1>0, <1>1 DEF Slots
    <3>2. /\ item' \in [Consumers -> Items \cup {NoItem}]
          /\ popping' \in [Consumers -> PopPcs]
      BY <1>t, <1>0, <1>1 DEF PopPcs
    <3> QED
      BY <1>0, <3>1, <3>2 DEF BQInv, BQTypeOK
  <2>2. m_back = slot(m_front, m_size)
    BY <1>t DEF BQInv
  <2>3. m_back = IF m_size' = 0 THEN f ELSE slot(f, m_size')
    <3>1. CASE m_size' = 0
      <4>1. m_size = 1
        BY <1>t, <1>0, <3>1
      <4> QED
        BY <2>2, <3>1, <4>1
    <3>2. CASE m_size' # 0
      <4>1. m_size' \in 1 .. m_size' /\ m_size' + 1 = m_size
        BY <1>t, <1>0, <3>2
      <4> QED
        BY <1>2, <2>2, <3>2, <4>1
    <3> QED
      BY <3>1, <3>2
  <2>4. \A i \in 1 .. m_size' : m_array[slot(f, i)] \in Items
    BY <1>2 DEF BQInv
  <2> QED
    BY <1>0, <2>1, <2>3, <2>4 DEF BQInv, slot
<1>4. Contents # <<>> /\ Head(Contents) = m_array[f]
  BY <1>t, ContentsFacts
<1>5. Contents' = Tail(Contents)
  <2>1. /\ Contents' = [i \in 1 .. m_size' |-> m_array[slot(f, i)]]
        /\ \A i \in 1 .. m_size' : m_array[slot(f, i)] \in Items
    BY <1>0, <1>2 DEF Contents, slot, BQInv
  <2>2. /\ Contents' \in Seq(Items) /\ Len(Contents') = m_size - 1
        /\ \A i \in 1 .. m_size' : Contents'[i] = m_array[slot(f, i)]
    BY <1>t, <1>0, <2>1
  <2>3. /\ Tail(Contents) \in Seq(Items) /\ Len(Tail(Contents)) = m_size - 1
        /\ \A i \in 1 .. m_size' : Tail(Contents)[i] = Contents[i + 1]
    BY <1>t, <1>0, ContentsFacts
  <2>4. \A i \in 1 .. m_size' : Contents'[i] = Tail(Contents)[i]
    BY <1>2, <2>2, <2>3, ContentsFacts
  <2> QED
    BY <1>t, <1>0, <2>2, <2>3, <2>4
<1> QED
  BY <1>0, <1>3, <1>4, <1>5 DEF Refines, Fifo!Next, Fifo!Get

LEMMA Cleared ==
  ASSUME BQInv, clear
  PROVE  BQInv' /\ Refines
<1>1. BQInv'
  BY QueueAssumption DEF clear, BQInv, BQTypeOK
<1>2. Contents' \in Seq(Items) /\ Len(Contents') = 0
  <2>1. m_size' = 0
    BY DEF clear
  <2>2. Contents' = [i \in 1 .. 0 |-> m_array'[(m_front' + i) % MaxSize]]
    BY <2>1 DEF Contents
  <2> QED
    BY <2>2
<1>3. Contents' = <<>>
  BY <1>2
<1> QED
  BY <1>1, <1>3 DEF clear, Refines, Fifo!Next, Fifo!Empty

LEMMA BQStep == BQInv /\ [BQNext]_bqvars => BQInv' /\ Refines
<1> SUFFICES ASSUME BQInv, [BQNext]_bqvars PROVE BQInv' /\ Refines
  OBVIOUS
<1>1. ASSUME NEW t \in Consumers, Consume(t) PROVE BQInv' /\ Refines
  <2>1. \/ \E how \in PopPcs : pause(t, how)
        \/ ~(m_size <= 0) /\ takeFirst(t)
    BY <1>1 DEF Consume, pop, popTimed, popTimedWoken, timewait, SpuriousWakeup,
                SpuriousTimed, PopPcs
  <2> QED
    BY <2>1, Paused, TookFirst
<1>2. CASE UNCHANGED bqvars
  BY <1>2 DEF bqvars, BQInv, BQTypeOK, Contents, Refines
<1> QED
  BY <1>1, <1>2, Pushed, Cleared DEF BQNext

LEMMA BQStart == BQInit => BQInv /\ Contents = <<>>
<1> SUFFICES ASSUME BQInit PROVE BQInv /\ Contents = <<>>
  OBVIOUS
<1>1. BQInv
  BY QueueAssumption DEF BQInit, BQInv, BQTypeOK, PopPcs, Slots
<1> QED
  BY <1>1, ContentsFacts DEF BQInit

(* Size and indices stay in their ranges: no push or pop leaves m_array. *)
THEOREM QueueTypes == BQSpec => []BQTypeOK
<1>1. BQInit => BQInv
  BY BQStart
<1>2. BQInv /\ [BQNext]_bqvars => BQInv'
  BY BQStep
<1>3. BQInv => BQTypeOK
  BY DEF BQInv
<1> QED
  BY <1>1, <1>2, <1>3, PTL DEF BQSpec

(* The circular array is a bounded queue: the elements come out in the     *)
(* order they were put in, each to one consumer, none lost, none doubled.  *)
THEOREM QueueIsFifo == BQSpec => ImplementsFifo
<1>1. BQInit => BQInv /\ Fifo!Init
  BY BQStart DEF Fifo!Init
<1>2. BQInv /\ [BQNext]_bqvars => BQInv' /\ [Fifo!Next]_<<Contents, item>>
  BY BQStep DEF Refines
<1> QED
  BY <1>1, <1>2, PTL DEF BQSpec, ImplementsFifo, Fifo!Spec
=============================================================================
