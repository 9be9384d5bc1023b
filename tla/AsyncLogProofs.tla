--------------------------- MODULE AsyncLogProofs ---------------------------
(* Theorems of AsyncLog, for any writers, sizes and number of lines.  What *)
(* is known of the queue comes from BlockQueueProofs.                      *)
EXTENDS AsyncLog, TLAPS

Queue == INSTANCE BlockQueueProofs WITH Items <- Lines, Consumers <- {Flusher}

----------------------------------------------------------------------------
(* What the log does to its queue.                                         *)

LEMMA QueueFits == Queue!QueueAssumption
  BY LogAssumption DEF Queue!QueueAssumption, Lines

LEMMA SameQueue ==
  /\ Queue!BQInit <=> BQInit
  /\ \A x : Queue!push(x) <=> push(x)
  /\ \A t : Queue!takeFirst(t) <=> takeFirst(t)
  /\ \A t, how : Queue!pause(t, how) <=> pause(t, how)
  /\ Queue!Contents = Contents
  /\ Queue!BQTypeOK <=> BQTypeOK
  BY DEF Queue!BQInit, BQInit, Queue!push, push, Queue!full, full, Queue!broadcast, broadcast,
         Queue!takeFirst, takeFirst, Queue!pause, pause, Queue!Contents, Contents,
         Queue!BQTypeOK, BQTypeOK, Queue!Slots, Slots, Queue!PopPcs, PopPcs

(* Types, a queue that is one, and lines that exist where one is in hand.  *)
ALInv ==
  /\ ALTypeOK /\ Queue!BQInv
  /\ \A w \in Writers : pc[w] # "idle" => line(w) \in Lines
  /\ writing => item[Flusher] \in Lines

LEMMA QueueContents ==
  ASSUME Queue!BQInv
  PROVE  Contents \in Seq(Lines) /\ Len(Contents) = m_size
  BY QueueFits, SameQueue, Queue!ContentsFacts

LEMMA PushedLine ==
  ASSUME ALInv, NEW x \in Lines, push(x)
  PROVE  /\ Queue!BQInv' /\ item' = item
         /\ Contents' = IF full THEN Contents ELSE Append(Contents, x)
<1>1. Queue!push(x) /\ Queue!BQInv /\ (Queue!full <=> full)
  BY SameQueue DEF ALInv, Queue!full, full
<1>2. Queue!BQInv' /\ Queue!Contents' = IF full THEN Queue!Contents ELSE Append(Queue!Contents, x)
  BY <1>1, QueueFits, Queue!Pushed
<1>3. Queue!Contents' = Contents' /\ Queue!Contents = Contents
  BY DEF Queue!Contents, Contents
<1> QED
  BY <1>2, <1>3 DEF push

LEMMA PoppedLine ==
  ASSUME ALInv, Pop
  PROVE  /\ Queue!BQInv'
         /\ \/ UNCHANGED <<Contents, item, m_size>> /\ writing' = FALSE
            \/ /\ Contents # <<>> /\ Contents' = Tail(Contents) /\ m_size' = m_size - 1
               /\ item'[Flusher] = Head(Contents) /\ writing' = TRUE
<1>1. Queue!BQInv /\ pop(Flusher) /\ writing' = (popping'[Flusher] = "out")
      /\ popping \in [{Flusher} -> PopPcs] /\ item \in [{Flusher} -> Lines \cup {NoItem}]
  BY DEF ALInv, Pop, ALTypeOK, BQTypeOK
<1>0. Queue!Contents' = Contents' /\ Queue!Contents = Contents
  BY DEF Queue!Contents, Contents
<1>2. CASE m_size <= 0
  <2>1. pause(Flusher, "asleep") /\ Queue!pause(Flusher, "asleep") /\ "asleep" \in Queue!PopPcs
    BY <1>1, <1>2, SameQueue DEF pop, Queue!PopPcs
  <2>2. Queue!BQInv'
    BY <1>1, <2>1, QueueFits, Queue!Paused
  <2>3. UNCHANGED <<Contents, item, m_size>> /\ writing' = FALSE
    BY <1>1, <2>1 DEF pause, Contents
  <2> QED
    BY <2>2, <2>3
<1>3. CASE ~(m_size <= 0)
  <2>1. takeFirst(Flusher) /\ Queue!takeFirst(Flusher)
    BY <1>1, <1>3, SameQueue DEF pop
  <2>2. /\ Queue!BQInv' /\ Queue!Contents # <<>> /\ Queue!Contents' = Tail(Queue!Contents)
        /\ item' = [item EXCEPT ![Flusher] = Head(Queue!Contents)]
        /\ popping' = [popping EXCEPT ![Flusher] = "out"]
    BY <1>1, <1>3, <2>1, QueueFits, Queue!TookFirst
  <2>3. item'[Flusher] = Head(Contents) /\ writing' = TRUE
    BY <1>0, <1>1, <2>2
  <2> QED
    BY <1>0, <2>1, <2>2, <2>3 DEF takeFirst
<1> QED
  BY <1>2, <1>3

LEMMA Resting ==
  ASSUME UNCHANGED <<m_array, m_size, m_front, m_back, item>>,
         \/ UNCHANGED popping
         \/ popping' = [popping EXCEPT ![Flusher] = "woken"], Queue!BQInv
  PROVE  Queue!BQInv' /\ UNCHANGED Contents
<1>1. popping' \in [{Flusher} -> Queue!PopPcs]
  BY DEF Queue!BQInv, Queue!BQTypeOK, Queue!PopPcs
<1> QED
  BY <1>1 DEF Queue!BQInv, Queue!BQTypeOK, Queue!slot, Contents

----------------------------------------------------------------------------
(* Types.                                                                  *)

(* The number of a file, and that it changes only when a file is full.     *)
LEMMA FileNumber ==
  ASSUME NEW c \in Nat, NEW s \in Nat \ {0}
  PROVE  /\ c \div s \in Nat /\ 0 \div s = 0
         /\ (c + 1) % s # 0 => (c + 1) \div s = c \div s
<1>1. c \div s \in Nat
  OBVIOUS
<1>2. 0 \div s = 0
  OBVIOUS
<1>3. ASSUME (c + 1) % s # 0 PROVE (c + 1) \div s = c \div s
  BY <1>3
<1> QED
  BY <1>1, <1>2, <1>3

LEMMA LogStart == ALInit => ALInv
<1> SUFFICES ASSUME ALInit PROVE ALInv
  OBVIOUS
<1>1. Queue!BQInv /\ BQTypeOK
  BY QueueFits, SameQueue, Queue!BQStart DEF ALInit, Queue!BQInv
<1>2. /\ day \in 0 .. Days /\ m_today \in 0 .. day /\ m_fp \in (0 .. day) \X Nat
      /\ my_tm \in [Writers -> 0 .. day] /\ lines \in [Writers -> 0 .. MaxLines]
  BY LogAssumption DEF ALInit
<1>3. out \in Seq([line : Lines, by : Writers \cup {Flusher}])
  BY DEF ALInit
<1>4. ALTypeOK
  BY <1>1, <1>2, <1>3 DEF ALInit, ALTypeOK
<1> QED
  BY <1>1, <1>4 DEF ALInit, ALInv

LEMMA LogStep == ALInv /\ [ALNext]_alvars => ALInv'
<1> SUFFICES ASSUME ALInv, [ALNext]_alvars PROVE ALInv'
  OBVIOUS
<1> USE LogAssumption
<1>t. ALTypeOK /\ Queue!BQInv
  BY DEF ALInv
<1>q. Queue!BQInv' => BQTypeOK'
  BY DEF Queue!BQInv, Queue!BQTypeOK, BQTypeOK, Queue!Slots, Slots, Queue!PopPcs, PopPcs
<1>r. UNCHANGED queuevars => Queue!BQInv'
  BY <1>t, Resting DEF queuevars
<1>1. CASE UNCHANGED alvars
  BY <1>t, <1>q, <1>r, <1>1 DEF alvars, queuevars, logvars, history, ALInv, ALTypeOK, line
<1>2. CASE Midnight
  <2>1. day' \in 0 .. Days /\ 0 .. day \subseteq 0 .. day'
    BY <1>2, <1>t DEF Midnight, ALTypeOK
  <2> QED
    BY <1>t, <1>q, <1>r, <1>2, <2>1 DEF Midnight, logvars, queuevars, history, ALInv, ALTypeOK, line
<1>3. ASSUME NEW w \in Writers, Stamp(w) PROVE ALInv'
  <2>1. /\ lines' = [lines EXCEPT ![w] = lines[w] + 1] /\ lines[w] + 1 \in 1 .. MaxLines
        /\ my_tm' = [my_tm EXCEPT ![w] = day] /\ pc' = [pc EXCEPT ![w] = "stamped"]
        /\ day \in 0 .. day
    BY <1>3, <1>t DEF Stamp, goto, ALTypeOK
  <2>2. \A v \in Writers : pc'[v] # "idle" => line(v)' \in Lines
    BY <1>t, <2>1 DEF ALInv, ALTypeOK, line, Lines
  <2> QED
    BY <1>3, <1>t, <1>q, <1>r, <2>1, <2>2 DEF Stamp, logvars, queuevars, history, ALInv, ALTypeOK
<1>4. ASSUME NEW w \in Writers, CountLine(w) PROVE ALInv'
  <2>1. m_today' \in 0 .. day /\ m_count' \in Nat /\ 0 \in 0 .. day
    BY <1>4, <1>t DEF CountLine, ALTypeOK
  <2>2. m_count' \div m_split_lines \in Nat
    BY <2>1, FileNumber
  <2>3. m_fp' \in (0 .. day) \X Nat
    BY <1>4, <1>t, <2>1, <2>2 DEF CountLine, ALTypeOK
  <2>4. pc' = [pc EXCEPT ![w] = "counted"] /\ pc[w] # "idle"
    BY <1>4 DEF CountLine, goto
  <2> QED
    BY <1>4, <1>t, <1>q, <1>r, <2>1, <2>3, <2>4
    DEF CountLine, queuevars, history, ALInv, ALTypeOK, line
<1>5. ASSUME NEW w \in Writers, Test(w) PROVE ALInv'
  <2>1. \E to \in {"push", "write"} : pc' = [pc EXCEPT ![w] = to] /\ pc[w] # "idle"
    BY <1>5 DEF Test, goto
  <2> QED
    BY <1>5, <1>t, <1>q, <1>r, <2>1 DEF Test, logvars, queuevars, ALInv, ALTypeOK, line
<1>6. ASSUME NEW w \in Writers, Push(w) PROVE ALInv'
  <2>1. line(w) \in Lines /\ push(line(w)) /\ pc' = [pc EXCEPT ![w] = "idle"]
    BY <1>6 DEF Push, goto, ALInv
  <2>2. Queue!BQInv' /\ item' = item
    BY <2>1, PushedLine
  <2> QED
    BY <1>6, <1>t, <1>q, <2>1, <2>2 DEF Push, logvars, ALInv, ALTypeOK, line
<1>7. ASSUME NEW w \in Writers, Write(w) PROVE ALInv'
  <2>1. line(w) \in Lines /\ pc' = [pc EXCEPT ![w] = "idle"]
    BY <1>7 DEF Write, goto, ALInv
  <2>2. out' \in Seq([line : Lines, by : Writers \cup {Flusher}])
    BY <1>7, <1>t, <2>1 DEF Write, ALTypeOK
  <2> QED
    BY <1>7, <1>t, <1>q, <1>r, <2>1, <2>2
    DEF Write, logvars, queuevars, history, ALInv, ALTypeOK, line
<1>8. CASE Pop
  <2>1. Queue!BQInv' /\ writing' \in BOOLEAN
    BY <1>8, PoppedLine
  <2>2. writing' => item'[Flusher] \in Lines
    BY <1>8, <1>t, PoppedLine, QueueContents
  <2> QED
    BY <1>8, <1>t, <1>q, <2>1, <2>2 DEF Pop, logvars, history, ALInv, ALTypeOK, line
<1>9. CASE Flush
  <2>1. out' \in Seq([line : Lines, by : Writers \cup {Flusher}])
    BY <1>9, <1>t DEF Flush, ALInv, ALTypeOK
  <2> QED
    BY <1>9, <1>t, <1>q, <1>r, <2>1 DEF Flush, logvars, queuevars, history, ALInv, ALTypeOK, line
<1>10. CASE Spurious
  <2>1. Queue!BQInv'
    BY <1>10, <1>t, Resting DEF Spurious, SpuriousWakeup, pause
  <2> QED
    BY <1>10, <1>t, <1>q, <2>1
    DEF Spurious, SpuriousWakeup, pause, logvars, history, ALInv, ALTypeOK, line
<1> QED
  BY <1>1, <1>2, <1>3, <1>4, <1>5, <1>6, <1>7, <1>8, <1>9, <1>10 DEF ALNext, WriteLog

(* Every line in the queue, in a hand or in a file is a line that was begun, *)
(* and no stamp and no file is of a day to come.                           *)
THEOREM LogTypes == ALSpec => []ALTypeOK
<1>1. ALInv => ALTypeOK
  BY DEF ALInv
<1> QED
  BY <1>1, LogStart, LogStep, PTL DEF ALSpec

----------------------------------------------------------------------------
(* The queue under the log.                                                *)

(* Every step of the log is a step of its queue, or leaves the queue       *)
(* alone: what is true of any block_queue is true of this one.             *)
THEOREM LogKeepsToQueue == ALSpec => Queue!BQSpec
<1>1. ALInit => Queue!BQInit
  BY SameQueue DEF ALInit
<1>2. ALInv /\ [ALNext]_alvars => [Queue!BQNext]_Queue!bqvars
  <2> SUFFICES ASSUME ALInv, [ALNext]_alvars PROVE [Queue!BQNext]_Queue!bqvars
    OBVIOUS
  <2> USE DEF Queue!BQNext, Queue!Consume
  <2>1. ASSUME NEW w \in Writers, Push(w) PROVE Queue!BQNext
    <3>1. line(w) \in Lines /\ push(line(w))
      BY <2>1 DEF Push, ALInv
    <3> QED
      BY <3>1, SameQueue
  <2>2. CASE Pop
    <3>1. pop(Flusher) <=> Queue!pop(Flusher)
      BY SameQueue DEF pop, Queue!pop
    <3> QED
      BY <2>2, <3>1 DEF Pop
  <2>3. CASE Spurious
    <3>1. SpuriousWakeup(Flusher) <=> Queue!SpuriousWakeup(Flusher)
      BY SameQueue DEF SpuriousWakeup, Queue!SpuriousWakeup
    <3> QED
      BY <2>3, <3>1 DEF Spurious
  <2>4. ASSUME NEW w \in Writers, Stamp(w) \/ CountLine(w) \/ Test(w) \/ Write(w)
        PROVE  UNCHANGED Queue!bqvars
    BY <2>4 DEF Stamp, CountLine, Test, Write, queuevars, Queue!bqvars
  <2>5. CASE Midnight \/ Flush \/ UNCHANGED alvars
    BY <2>5 DEF Midnight, Flush, alvars, queuevars, Queue!bqvars
  <2> QED
    BY <2>1, <2>2, <2>3, <2>4, <2>5 DEF ALNext, WriteLog
<1> QED
  BY <1>1, <1>2, LogStart, LogStep, PTL DEF ALSpec, Queue!BQSpec

(* In particular the log's queue is a bounded FIFO queue.                  *)
THEOREM LogQueueIsFifo == ALSpec => Queue!ImplementsFifo
BY LogKeepsToQueue, QueueFits, Queue!QueueIsFifo, PTL

----------------------------------------------------------------------------
(* The open file.                                                          *)

(* The open file is always the one of m_today and m_count, whatever the    *)
(* order in which threads with old and new stamps come to count a line.    *)
THEOREM FilesFitCounts == ALSpec => []FileFitsCount
<1>1. ALInit => FileFitsCount
  BY FileNumber, LogAssumption DEF ALInit, FileFitsCount
<1>2. ALInv /\ FileFitsCount /\ [ALNext]_alvars => FileFitsCount'
  <2> SUFFICES ASSUME ALInv, FileFitsCount, [ALNext]_alvars PROVE FileFitsCount'
    OBVIOUS
  <2>1. UNCHANGED logvars => FileFitsCount'
    BY DEF logvars, FileFitsCount
  <2>2. ASSUME NEW w \in Writers, CountLine(w) PROVE FileFitsCount'
    <3>1. m_count \in Nat /\ m_split_lines \in Nat \ {0} /\ m_today' = my_tm[w]
      BY <2>2, LogAssumption DEF ALInv, ALTypeOK, CountLine
    <3>2. CASE m_today # my_tm[w]
      BY <2>2, <3>1, <3>2, FileNumber DEF CountLine, FileFitsCount
    <3>3. CASE m_today = my_tm[w]
      <4>1. m_count' = m_count + 1
        BY <2>2, <3>3 DEF CountLine
      <4>2. CASE m_count' % m_split_lines = 0
        BY <2>2, <3>1, <3>3, <4>2 DEF CountLine, FileFitsCount
      <4>3. CASE m_count' % m_split_lines # 0
        <5>1. m_fp' = m_fp
          BY <2>2, <3>3, <4>3 DEF CountLine
        <5>2. m_count' \div m_split_lines = m_count \div m_split_lines
          BY <3>1, <4>1, <4>3, FileNumber
        <5> QED
          BY <3>1, <3>3, <5>1, <5>2 DEF FileFitsCount
      <4> QED
        BY <4>2, <4>3
    <3> QED
      BY <3>2, <3>3
  <2> QED
    BY <2>1, <2>2
    DEF ALNext, WriteLog, Midnight, Stamp, Test, Push, Write, Pop, Flush, Spurious, alvars
<1> QED
  BY <1>1, <1>2, LogStart, LogStep, PTL DEF ALSpec

----------------------------------------------------------------------------
(* Room in the queue.                                                      *)

(* A thread that no other overtook between full() and push() finds room.   *)
THEOREM RoomUnlessRaced == ALSpec => []AloneHasRoom
<1>1. ALInit => AloneHasRoom
  BY DEF ALInit, AloneHasRoom
<1>2. ALInv /\ AloneHasRoom /\ [ALNext]_alvars => AloneHasRoom'
  <2> SUFFICES ASSUME ALInv, AloneHasRoom, [ALNext]_alvars PROVE AloneHasRoom'
    OBVIOUS
  <2>t. m_size \in 0 .. MaxSize /\ MaxSize \in Nat
        /\ pc \in [Writers -> {"idle", "stamped", "counted", "push", "write"}]
    BY LogAssumption DEF ALInv, ALTypeOK, BQTypeOK
  <2>1. ASSUME UNCHANGED <<m_size, raced>>,
               \A w \in Writers : pc'[w] = "push" => pc[w] = "push"
        PROVE  AloneHasRoom'
    BY <2>1 DEF AloneHasRoom, full
  <2>2. ASSUME NEW w \in Writers, Test(w) PROVE AloneHasRoom'
    <3>1. pc' = [pc EXCEPT ![w] = IF m_is_async /\ ~full THEN "push" ELSE "write"]
          /\ raced' = raced \ {w} /\ m_size' = m_size
      BY <2>2 DEF Test, goto, queuevars
    <3>2. SUFFICES ASSUME NEW v \in Writers, pc'[v] = "push", full' PROVE v \in raced'
      BY DEF AloneHasRoom
    <3>3. full /\ v # w
      BY <2>t, <3>1, <3>2 DEF full
    <3> QED
      BY <2>t, <3>1, <3>2, <3>3 DEF AloneHasRoom
  <2>3. ASSUME NEW w \in Writers, Push(w) PROVE AloneHasRoom'
    BY <2>t, <2>3 DEF Push, goto, AloneHasRoom
  <2>4. CASE Pop
    <3>1. UNCHANGED <<pc, raced>> /\ (m_size' = m_size \/ m_size' = m_size - 1)
      BY <2>4, PoppedLine DEF Pop, history
    <3> QED
      BY <2>t, <3>1 DEF AloneHasRoom, full
  <2>5. ASSUME NEW w \in Writers, Stamp(w) \/ CountLine(w) \/ Write(w) PROVE AloneHasRoom'
    BY <2>t, <2>1, <2>5 DEF Stamp, CountLine, Write, goto, queuevars, history
  <2>6. CASE Midnight \/ Flush \/ Spurious \/ UNCHANGED alvars
    BY <2>1, <2>6 DEF Midnight, Flush, Spurious, SpuriousWakeup, pause, alvars, queuevars, history
  <2> QED
    BY <2>2, <2>3, <2>4, <2>5, <2>6 DEF ALNext, WriteLog
<1> QED
  BY <1>1, <1>2, LogStart, LogStep, PTL DEF ALSpec

----------------------------------------------------------------------------
(* The order of lines.                                                     *)

LEMMA Elements ==
  ASSUME NEW S, NEW s \in Seq(S)
  PROVE  Len(s) \in Nat /\ \A i \in 1 .. Len(s) : s[i] \in S
  OBVIOUS

LEMMA Appended ==
  ASSUME NEW S, NEW s \in Seq(S), NEW x \in S
  PROVE  /\ Append(s, x) \in Seq(S) /\ Len(Append(s, x)) = Len(s) + 1 /\ Len(s) \in Nat
         /\ \A i \in 1 .. Len(s) : Append(s, x)[i] = s[i] /\ s[i] \in S
         /\ Append(s, x)[Len(s) + 1] = x
  OBVIOUS

LEMMA HeadGone ==
  ASSUME NEW S, NEW s \in Seq(S), s # <<>>
  PROVE  /\ Tail(s) \in Seq(S) /\ Len(Tail(s)) = Len(s) - 1 /\ Len(s) \in Nat \ {0}
         /\ \A i \in 1 .. Len(s) - 1 : Tail(s)[i] = s[i + 1]
         /\ Head(s) = s[1] /\ Head(s) \in S
  OBVIOUS

(* y is not an earlier line of the thread that began x. *)
NotBefore(x, y) == x[1] = y[1] => x[2] <= y[2]

(* Whatever goes through the queue stays in the order it was begun; a line *)
(* of the same thread that is written directly is never an earlier one.    *)
OrderInv ==
  /\ \A i, j \in 1 .. Len(Contents) : i < j => NotBefore(Contents[i], Contents[j])
  /\ writing => \A i \in 1 .. Len(Contents) : NotBefore(item[Flusher], Contents[i])
  /\ \A k \in 1 .. Len(out) :
       out[k].by = Flusher =>
         /\ \A i \in 1 .. Len(Contents) : NotBefore(out[k].line, Contents[i])
         /\ writing => NotBefore(out[k].line, item[Flusher])
  /\ \A i \in 1 .. Len(Contents) : Contents[i][2] <= lines[Contents[i][1]]
  /\ writing => item[Flusher][2] <= lines[item[Flusher][1]]
  /\ \A k \in 1 .. Len(out) : /\ out[k].line[2] <= lines[out[k].line[1]]
                              /\ out[k].by \in {out[k].line[1], Flusher}
  /\ OvertakesOnlyDirect

LEMMA OrderStep == ALInv /\ OrderInv /\ [ALNext]_alvars => OrderInv'
<1> SUFFICES ASSUME ALInv, OrderInv, [ALNext]_alvars PROVE OrderInv'
  OBVIOUS
<1> DEFINE Written == [line : Lines, by : Writers \cup {Flusher}]
<1>t. /\ ALTypeOK /\ Queue!BQInv /\ Contents \in Seq(Lines) /\ out \in Seq(Written)
      /\ lines \in [Writers -> 0 .. MaxLines]
      /\ Len(Contents) \in Nat /\ Len(out) \in Nat
      /\ \A i \in 1 .. Len(Contents) : Contents[i] \in Lines
      /\ \A k \in 1 .. Len(out) : out[k] \in Written /\ out[k].line \in Lines
      /\ writing => item[Flusher] \in Lines
  <2>1. Contents \in Seq(Lines) /\ ALTypeOK /\ Queue!BQInv /\ (writing => item[Flusher] \in Lines)
    BY QueueContents DEF ALInv
  <2>2. out \in Seq(Written) /\ lines \in [Writers -> 0 .. MaxLines]
    BY <2>1 DEF ALTypeOK
  <2>3. /\ Len(Contents) \in Nat /\ Len(out) \in Nat
        /\ \A i \in 1 .. Len(Contents) : Contents[i] \in Lines
        /\ \A k \in 1 .. Len(out) : out[k] \in Written
    BY <2>1, <2>2, Elements
  <2>4. \A k \in 1 .. Len(out) : out[k].line \in Lines
    BY <2>3
  <2> QED
    BY <2>1, <2>2, <2>3, <2>4
<1>l. \A x \in Lines : x[1] \in Writers /\ x[2] \in 1 .. MaxLines /\ 1 .. MaxLines \subseteq Nat
  BY LogAssumption DEF Lines
(* Nothing moves. *)
<1>1. ASSUME UNCHANGED <<Contents, writing, item, out>>,
             \A w \in Writers : lines'[w] \in Nat /\ lines[w] <= lines'[w]
      PROVE  OrderInv'
  BY <1>1, <1>t, <1>l DEF OrderInv, NotBefore, OvertakesOnlyDirect
(* A line is written. *)
<1>2. ASSUME NEW x \in Lines, NEW b \in {x[1], Flusher},
             out' = Append(out, [line |-> x, by |-> b]), x[2] <= lines[x[1]],
             \A k \in 1 .. Len(out) :
               out[k].line[1] = x[1] /\ out[k].line[2] > x[2] => out[k].by = x[1] /\ b = Flusher
      PROVE  /\ OvertakesOnlyDirect'
             /\ Len(out') = Len(out) + 1
             /\ \A k \in 1 .. Len(out') :
                  \/ k \in 1 .. Len(out) /\ out'[k] = out[k]
                  \/ out'[k] = [line |-> x, by |-> b]
  <2> DEFINE r == [line |-> x, by |-> b]
  <2>1. r \in Written
    BY <1>l DEF Lines
  <2>2. /\ Len(out') = Len(out) + 1 /\ out' \in Seq(Written)
        /\ \A k \in 1 .. Len(out) : out'[k] = out[k]
        /\ out'[Len(out) + 1] = r
    BY <1>2, <1>t, <2>1, Appended
  <2>3. OvertakesOnlyDirect'
    <3>1. SUFFICES ASSUME NEW j \in 1 .. Len(out) + 1, NEW i \in 1 .. j - 1,
                          out'[i].line[1] = out'[j].line[1], out'[i].line[2] > out'[j].line[2]
                   PROVE  out'[i].by = out'[i].line[1] /\ out'[j].by = Flusher
      BY <2>2 DEF OvertakesOnlyDirect
    <3>2. i \in 1 .. Len(out) /\ out'[i] = out[i]
      BY <1>t, <2>2
    <3>3. CASE j \in 1 .. Len(out)
      <4>1. out'[j] = out[j] /\ j \in DOMAIN out
        BY <1>t, <2>2, <3>3
      <4> QED
        BY <3>1, <3>2, <4>1 DEF OrderInv, OvertakesOnlyDirect
    <3>4. CASE j = Len(out) + 1
      BY <1>2, <2>2, <3>1, <3>2, <3>4
    <3> QED
      BY <1>t, <3>3, <3>4
  <2>4. \A k \in 1 .. Len(out') :
          (k \in 1 .. Len(out) /\ out'[k] = out[k]) \/ out'[k] = r
    BY <1>t, <2>2
  <2> QED
    BY <2>2, <2>3, <2>4
<1>3. ASSUME NEW w \in Writers, Stamp(w) PROVE OrderInv'
  <2>1. UNCHANGED <<Contents, writing, item, out>> /\ lines' = [lines EXCEPT ![w] = lines[w] + 1]
    BY <1>3 DEF Stamp, queuevars, Contents
  <2> QED
    BY <1>t, <1>1, <2>1, LogAssumption
<1>4. ASSUME \/ \E w \in Writers : CountLine(w) \/ Test(w)
             \/ Midnight \/ Spurious \/ UNCHANGED alvars
      PROVE  OrderInv'
  <2>1. UNCHANGED <<Contents, writing, item, out, lines>>
    BY <1>4
    DEF CountLine, Test, Midnight, Spurious, SpuriousWakeup, pause, alvars, queuevars, Contents
  <2> QED
    BY <1>t, <1>1, <2>1, LogAssumption
<1>5. ASSUME NEW w \in Writers, Push(w) PROVE OrderInv'
  <2>1. line(w) \in Lines /\ push(line(w)) /\ line(w)[1] = w /\ line(w)[2] = lines[w]
        /\ UNCHANGED <<writing, out, lines>>
    BY <1>5 DEF Push, ALInv, line
  <2>2. item' = item /\ Contents' = IF full THEN Contents ELSE Append(Contents, line(w))
    BY <2>1, PushedLine
  <2>3. CASE full
    BY <1>1, <1>t, <2>1, <2>2, <2>3, LogAssumption
  <2>4. CASE ~full
    <3> DEFINE n == Len(Contents) + 1
    <3>1. /\ Len(Contents') = n /\ Contents'[n] = line(w)
          /\ \A i \in 1 .. Len(Contents) : Contents'[i] = Contents[i]
      BY <1>t, <2>1, <2>2, <2>4, Appended
    <3>2. \A i \in 1 .. n : i = n \/ i \in 1 .. Len(Contents)
      BY <1>t
    <3>3. \A i \in 1 .. n : Contents'[i][2] <= lines[Contents'[i][1]]
      <4>1. line(w)[2] <= lines[line(w)[1]]
        BY <1>t, <2>1, LogAssumption
      <4> QED
        BY <3>1, <3>2, <4>1 DEF OrderInv
    <3>l. \A y \in Lines : y[2] <= lines[y[1]] => NotBefore(y, line(w))
      BY <2>1 DEF NotBefore
    <3>4. \A i, j \in 1 .. n : i < j => NotBefore(Contents'[i], Contents'[j])
      <4>1. SUFFICES ASSUME NEW i \in 1 .. n, NEW j \in 1 .. n, i < j
                     PROVE  NotBefore(Contents'[i], Contents'[j])
        OBVIOUS
      <4>2. i \in 1 .. Len(Contents)
        BY <1>t, <4>1
      <4> QED
        BY <1>t, <3>l, <3>1, <3>2, <4>1, <4>2 DEF OrderInv
    <3>5. writing => \A i \in 1 .. n : NotBefore(item[Flusher], Contents'[i])
      BY <1>t, <3>l, <3>1, <3>2 DEF OrderInv
    <3>6. \A k \in 1 .. Len(out) :
            out[k].by = Flusher => \A i \in 1 .. n : NotBefore(out[k].line, Contents'[i])
      BY <1>t, <3>l, <3>1, <3>2 DEF OrderInv
    <3> QED
      BY <2>1, <2>2, <3>1, <3>3, <3>4, <3>5, <3>6 DEF OrderInv, OvertakesOnlyDirect
  <2> QED
    BY <2>3, <2>4
<1>6. ASSUME NEW w \in Writers, Write(w) PROVE OrderInv'
  <2>1. /\ line(w) \in Lines /\ line(w)[1] = w /\ line(w)[2] = lines[w]
        /\ out' = Append(out, [line |-> line(w), by |-> w])
        /\ UNCHANGED <<Contents, writing, item, lines>>
    BY <1>6 DEF Write, ALInv, line, queuevars, Contents
  <2>2. \A k \in 1 .. Len(out) :
          ~(out[k].line[1] = line(w)[1] /\ out[k].line[2] > line(w)[2])
    <3> SUFFICES ASSUME NEW k \in 1 .. Len(out), out[k].line[1] = w
                 PROVE  ~(out[k].line[2] > lines[w])
      BY <2>1
    <3>1. out[k].line[2] \in Nat /\ lines[w] \in Nat
      BY <1>t, <1>l, LogAssumption
    <3> QED
      BY <3>1 DEF OrderInv
  <2>5. w \in {line(w)[1], Flusher} /\ line(w)[2] <= lines[line(w)[1]]
    BY <1>t, <2>1, LogAssumption
  <2>3. /\ OvertakesOnlyDirect'
        /\ Len(out') = Len(out) + 1
        /\ \A k \in 1 .. Len(out') :
             \/ k \in 1 .. Len(out) /\ out'[k] = out[k]
             \/ out'[k] = [line |-> line(w), by |-> w]
    BY <1>2, <2>1, <2>2, <2>5
  <2>4. w # Flusher
    BY LogAssumption
  <2> QED
    BY <1>t, <1>l, <2>1, <2>3, <2>4 DEF OrderInv
<1>7. CASE Pop
  <2>1. UNCHANGED <<out, lines>> /\ ~writing
    BY <1>7 DEF Pop
  <2>2. CASE UNCHANGED <<Contents, item, m_size>> /\ writing' = FALSE
    BY <2>1, <2>2 DEF OrderInv, OvertakesOnlyDirect
  <2>3. CASE /\ Contents # <<>> /\ Contents' = Tail(Contents)
             /\ item'[Flusher] = Head(Contents) /\ writing' = TRUE
    <3>1. /\ Len(Contents') = Len(Contents) - 1 /\ 1 \in 1 .. Len(Contents)
          /\ \A i \in 1 .. Len(Contents') : Contents'[i] = Contents[i + 1]
          /\ item'[Flusher] = Contents[1]
      BY <1>t, <2>3, HeadGone
    <3>2. \A i \in 1 .. Len(Contents') : i + 1 \in 1 .. Len(Contents) /\ 1 < i + 1
      BY <1>t, <3>1
    <3>3. \A i, j \in 1 .. Len(Contents') : i < j => NotBefore(Contents'[i], Contents'[j])
      <4>1. ASSUME NEW i \in 1 .. Len(Contents'), NEW j \in 1 .. Len(Contents'), i < j
            PROVE  NotBefore(Contents'[i], Contents'[j])
        <5>1. i + 1 < j + 1
          BY <4>1
        <5>2. NotBefore(Contents[i + 1], Contents[j + 1])
          BY <3>2, <5>1 DEF OrderInv
        <5> QED
          BY <3>1, <5>2
      <4> QED
        BY <4>1
    <3>4. \A i \in 1 .. Len(Contents') : /\ NotBefore(item'[Flusher], Contents'[i])
                                         /\ Contents'[i][2] <= lines[Contents'[i][1]]
      BY <1>t, <3>1, <3>2 DEF OrderInv
    <3>5. \A k \in 1 .. Len(out) :
            out[k].by = Flusher =>
              /\ \A i \in 1 .. Len(Contents') : NotBefore(out[k].line, Contents'[i])
              /\ NotBefore(out[k].line, item'[Flusher])
      BY <1>t, <3>1, <3>2 DEF OrderInv
    <3>6. item'[Flusher][2] <= lines[item'[Flusher][1]]
      BY <3>1 DEF OrderInv
    <3> QED
      BY <2>1, <3>3, <3>4, <3>5, <3>6 DEF OrderInv, OvertakesOnlyDirect
  <2> QED
    BY <1>7, <2>2, <2>3, PoppedLine
<1>8. CASE Flush
  <2> DEFINE x == item[Flusher]
  <2>1. /\ writing /\ x \in Lines /\ x[2] <= lines[x[1]] /\ writing' = FALSE
        /\ out' = Append(out, [line |-> x, by |-> Flusher])
        /\ UNCHANGED <<Contents, item, lines>>
    BY <1>8, <1>t DEF Flush, OrderInv, queuevars, Contents
  <2>2. \A k \in 1 .. Len(out) :
          out[k].line[1] = x[1] /\ out[k].line[2] > x[2] => out[k].by = x[1]
    <3> SUFFICES ASSUME NEW k \in 1 .. Len(out), out[k].line[1] = x[1], out[k].line[2] > x[2]
                 PROVE  out[k].by = x[1]
      OBVIOUS
    <3>1. out[k].line[2] \in Nat /\ x[2] \in Nat
      BY <1>t, <1>l, <2>1
    <3>2. out[k].by # Flusher
      BY <2>1, <3>1 DEF OrderInv, NotBefore
    <3> QED
      BY <3>2 DEF OrderInv
  <2>3. /\ OvertakesOnlyDirect'
        /\ Len(out') = Len(out) + 1
        /\ \A k \in 1 .. Len(out') :
             \/ k \in 1 .. Len(out) /\ out'[k] = out[k]
             \/ out'[k] = [line |-> x, by |-> Flusher]
    BY <1>2, <2>1, <2>2
  <2> QED
    BY <1>t, <1>l, <2>1, <2>3 DEF OrderInv
<1> QED
  BY <1>3, <1>4, <1>5, <1>6, <1>7, <1>8 DEF ALNext, WriteLog

(* The queue keeps each thread's lines in order; only a line written past  *)
(* a full queue overtakes lines of its own thread that are still in it.    *)
THEOREM OnlyDirectOvertakes == ALSpec => []OvertakesOnlyDirect
<1>1. ALInit => OrderInv
  <2> SUFFICES ASSUME ALInit PROVE OrderInv
    OBVIOUS
  <2>1. Contents \in Seq(Lines) /\ Len(Contents) = 0 /\ out = <<>> /\ writing = FALSE
    BY LogStart, QueueContents DEF ALInit, ALInv, BQInit
  <2> QED
    BY <2>1 DEF OrderInv, OvertakesOnlyDirect
<1>2. OrderInv => OvertakesOnlyDirect
  BY DEF OrderInv
<1> QED
  BY <1>1, <1>2, LogStart, LogStep, OrderStep, PTL DEF ALSpec

----------------------------------------------------------------------------
(* One place for each line.                                                *)

(* What each place of a line means.                                        *)
LEMMA PlacesOf ==
  ASSUME NEW l
  PROVE  \A p : p \in Places(l) <=>
           \/ p = <<"writer", 0>> /\ pc[l[1]] # "idle" /\ line(l[1]) = l
           \/ \E i \in DOMAIN Contents : p = <<"queue", i>> /\ Contents[i] = l
           \/ p = <<"flusher", 0>> /\ writing /\ item[Flusher] = l
           \/ \E k \in DOMAIN out : p = <<"file", k>> /\ out[k].line = l
           \/ p = <<"lost", 0>> /\ l \in lost
  BY DEF Places

LEMMA PlacesOfPrime ==
  ASSUME NEW l
  PROVE  \A p : p \in Places(l)' <=>
           \/ p = <<"writer", 0>> /\ pc'[l[1]] # "idle" /\ line(l[1])' = l
           \/ \E i \in DOMAIN Contents' : p = <<"queue", i>> /\ Contents'[i] = l
           \/ p = <<"flusher", 0>> /\ writing' /\ item'[Flusher] = l
           \/ \E k \in DOMAIN out' : p = <<"file", k>> /\ out'[k].line = l
           \/ p = <<"lost", 0>> /\ l \in lost'
  BY DEF Places

(* A step that touches nothing of line l leaves it where it is.            *)
LEMMA SamePlaces ==
  ASSUME NEW l,
         pc'[l[1]] # "idle" /\ line(l[1])' = l <=> pc[l[1]] # "idle" /\ line(l[1]) = l,
         \A i : i \in DOMAIN Contents' /\ Contents'[i] = l
                 <=> i \in DOMAIN Contents /\ Contents[i] = l,
         writing' /\ item'[Flusher] = l <=> writing /\ item[Flusher] = l,
         \A k : k \in DOMAIN out' /\ out'[k].line = l <=> k \in DOMAIN out /\ out[k].line = l,
         l \in lost' <=> l \in lost
  PROVE  Places(l)' = Places(l)
<1>1. \A p : p \in Places(l)' <=> p \in Places(l)
  BY PlacesOf, PlacesOfPrime
<1> QED
  BY <1>1, SetExtensionality DEF Places

(* What EachLineOnce says of the places P of a line.                       *)
AtMostOne(P, begun) == IF begun THEN \E p \in P : P = {p} ELSE P = {}

(* Places may be renamed, one for one.                                     *)
LEMMA Renamed ==
  ASSUME NEW P, NEW R, NEW f, NEW begun, AtMostOne(P, begun),
         \A p \in P : f[p] \in R, \A r \in R : \E p \in P : r = f[p]
  PROVE  AtMostOne(R, begun)
  BY DEF AtMostOne

LEMMA OnceStep == ALInv /\ EachLineOnce /\ [ALNext]_alvars => EachLineOnce'
<1> DEFINE Begun(l) == l[2] <= lines[l[1]]
<1> SUFFICES ASSUME ALInv, EachLineOnce, [ALNext]_alvars, NEW l \in Lines
             PROVE  AtMostOne(Places(l)', Begun(l)')
  BY DEF EachLineOnce, AtMostOne
<1> DEFINE w == l[1]
<1>o. AtMostOne(Places(l), Begun(l))
  BY DEF EachLineOnce, AtMostOne
<1>t. /\ Contents \in Seq(Lines) /\ out \in Seq([line : Lines, by : Writers \cup {Flusher}])
      /\ Len(Contents) \in Nat /\ Len(out) \in Nat
      /\ DOMAIN Contents = 1 .. Len(Contents) /\ DOMAIN out = 1 .. Len(out)
      /\ pc \in [Writers -> {"idle", "stamped", "counted", "push", "write"}]
      /\ lines \in [Writers -> 0 .. MaxLines] /\ MaxLines \in Nat
      /\ w \in Writers /\ l[2] \in Nat /\ l = <<l[1], l[2]>>
  <2>1. Contents \in Seq(Lines) /\ ALTypeOK
    BY QueueContents DEF ALInv
  <2>2. out \in Seq([line : Lines, by : Writers \cup {Flusher}])
    BY <2>1 DEF ALTypeOK
  <2>3. DOMAIN Contents = 1 .. Len(Contents) /\ DOMAIN out = 1 .. Len(out)
    BY <2>1, <2>2
  <2> QED
    BY <2>1, <2>2, <2>3, Elements, LogAssumption DEF ALTypeOK, Lines
(* Nothing moves. *)
<1>1. ASSUME UNCHANGED <<Contents, writing, item, out, lost, lines>>,
             pc'[w] = "idle" <=> pc[w] = "idle"
      PROVE  AtMostOne(Places(l)', Begun(l)')
  <2>1. line(w)' = line(w) /\ (Begun(l)' <=> Begun(l))
    BY <1>1 DEF line
  <2>2. Places(l)' = Places(l)
    BY <1>1, <2>1, SamePlaces
  <2> QED
    BY <1>o, <2>1, <2>2
(* A thread begins a line. *)
<1>2. ASSUME NEW v \in Writers, Stamp(v) PROVE AtMostOne(Places(l)', Begun(l)')
  <2>1. /\ UNCHANGED <<Contents, writing, item, out, lost>>
        /\ lines' = [lines EXCEPT ![v] = lines[v] + 1]
        /\ pc[v] = "idle" /\ pc' = [pc EXCEPT ![v] = "stamped"]
    BY <1>2 DEF Stamp, goto, queuevars, history, Contents
  <2>2. CASE v # w
    <3>1. lines'[w] = lines[w] /\ pc'[w] = pc[w] /\ line(w)' = line(w)
      BY <1>t, <2>1, <2>2 DEF line
    <3>2. Places(l)' = Places(l)
      BY <2>1, <3>1, SamePlaces
    <3> QED
      BY <1>o, <3>1, <3>2
  <2>3. CASE v = w
    <3>1. /\ lines'[w] = lines[w] + 1 /\ lines[w] \in Nat /\ pc'[w] # "idle"
          /\ line(w)' = <<w, lines[w] + 1>>
      BY <1>t, <2>1, <2>3 DEF line
    <3>2. CASE l[2] = lines[w] + 1
      <4>1. line(w)' = l /\ ~Begun(l) /\ Begun(l)'
        BY <1>t, <3>1, <3>2
      <4>2. Places(l) = {}
        BY <1>o, <4>1 DEF AtMostOne
      <4>3. Places(l)' = {<<"writer", 0>>}
        BY <2>1, <3>1, <4>1, <4>2, PlacesOf, PlacesOfPrime
      <4> QED
        BY <4>1, <4>3 DEF AtMostOne
    <3>3. CASE l[2] # lines[w] + 1
      <4>1. line(w)' # l /\ (Begun(l)' <=> Begun(l)) /\ pc[w] = "idle"
        BY <1>t, <2>1, <2>3, <3>1, <3>3
      <4>2. Places(l)' = Places(l)
        BY <2>1, <3>1, <4>1, SamePlaces
      <4> QED
        BY <1>o, <4>1, <4>2
    <3> QED
      BY <3>2, <3>3
  <2> QED
    BY <2>2, <2>3
(* The line a thread works on leaves its hands for the place `to'. *)
<1>3. ASSUME NEW v \in Writers, NEW to, pc[v] # "idle",
             pc' = [pc EXCEPT ![v] = "idle"], lines' = lines,
             line(v) # l => Places(l)' = Places(l),
             line(v) = l => Places(l)' = (Places(l) \ {<<"writer", 0>>}) \cup {to}
      PROVE  AtMostOne(Places(l)', Begun(l)')
  <2>1. Begun(l)' <=> Begun(l)
    BY <1>3
  <2>2. CASE line(v) # l
    BY <1>3, <1>o, <2>1, <2>2
  <2>3. CASE line(v) = l
    <3>1. v = w
      BY <2>3 DEF line
    <3>2. <<"writer", 0>> \in Places(l)
      BY <1>3, <2>3, <3>1, PlacesOf
    <3> QED
      BY <1>o, <1>3, <2>1, <2>3, <3>2 DEF AtMostOne
  <2> QED
    BY <2>2, <2>3
<1>4. ASSUME NEW v \in Writers, Push(v) PROVE AtMostOne(Places(l)', Begun(l)')
  <2>1. /\ line(v) \in Lines /\ push(line(v)) /\ pc[v] # "idle" /\ pc' = [pc EXCEPT ![v] = "idle"]
        /\ UNCHANGED <<writing, out, lines>>
        /\ lost' = IF full THEN lost \cup {line(v)} ELSE lost
    BY <1>4 DEF Push, goto, ALInv
  <2>2. item' = item /\ Contents' = IF full THEN Contents ELSE Append(Contents, line(v))
    BY <2>1, PushedLine
  <2>3. line(w)' = line(w) /\ pc'[w] = IF w = v THEN "idle" ELSE pc[w]
    BY <1>t, <2>1 DEF line
  <2>4. line(v) = l => v = w
    BY DEF line
  <2>5. CASE full
    <3>1. line(v) # l => Places(l)' = Places(l)
      BY <2>1, <2>2, <2>3, <2>5, SamePlaces
    <3>2. line(v) = l => Places(l)' = (Places(l) \ {<<"writer", 0>>}) \cup {<<"lost", 0>>}
      BY <2>1, <2>2, <2>3, <2>4, <2>5, PlacesOf, PlacesOfPrime
    <3> QED
      BY <1>3, <2>1, <3>1, <3>2
  <2>6. CASE ~full
    <3> DEFINE n == Len(Contents) + 1
    <3>1. /\ DOMAIN Contents' = DOMAIN Contents \cup {n} /\ Contents'[n] = line(v) /\ lost' = lost
          /\ \A i \in DOMAIN Contents : Contents'[i] = Contents[i]
      BY <1>t, <2>1, <2>2, <2>6
    <3>2. line(v) # l => Places(l)' = Places(l)
      BY <2>1, <2>2, <2>3, <3>1, SamePlaces
    <3>3. line(v) = l => Places(l)' = (Places(l) \ {<<"writer", 0>>}) \cup {<<"queue", n>>}
      BY <2>1, <2>2, <2>3, <2>4, <3>1, PlacesOf, PlacesOfPrime
    <3> QED
      BY <1>3, <2>1, <3>2, <3>3
  <2> QED
    BY <2>5, <2>6
(* Whatever is written goes to the end of the file. *)
<1>5. ASSUME NEW r, r.line \in Lines, r.by \in Writers \cup {Flusher},
             r = [line |-> r.line, by |-> r.by], out' = Append(out, r)
      PROVE  /\ DOMAIN out' = DOMAIN out \cup {Len(out) + 1} /\ out'[Len(out) + 1] = r
             /\ \A k \in DOMAIN out : out'[k] = out[k]
  BY <1>5, <1>t
<1>6. ASSUME NEW v \in Writers, Write(v) PROVE AtMostOne(Places(l)', Begun(l)')
  <2> DEFINE n == Len(out) + 1
             r == [line |-> line(v), by |-> v]
  <2>1. /\ line(v) \in Lines /\ pc[v] # "idle" /\ pc' = [pc EXCEPT ![v] = "idle"]
        /\ UNCHANGED <<Contents, writing, item, lost, lines>> /\ out' = Append(out, r)
    BY <1>6 DEF Write, goto, ALInv, queuevars, history, Contents
  <2>2. /\ DOMAIN out' = DOMAIN out \cup {n} /\ out'[n].line = line(v)
        /\ \A k \in DOMAIN out : out'[k] = out[k]
    BY <1>5, <2>1
  <2>3. line(w)' = line(w) /\ pc'[w] = IF w = v THEN "idle" ELSE pc[w]
    BY <1>t, <2>1 DEF line
  <2>4. line(v) = l => v = w
    BY DEF line
  <2>5. line(v) # l => Places(l)' = Places(l)
    BY <2>1, <2>2, <2>3, SamePlaces
  <2>6. line(v) = l => Places(l)' = (Places(l) \ {<<"writer", 0>>}) \cup {<<"file", n>>}
    BY <2>1, <2>2, <2>3, <2>4, PlacesOf, PlacesOfPrime
  <2> QED
    BY <1>3, <2>1, <2>5, <2>6
<1>7. CASE Flush
  <2> DEFINE n == Len(out) + 1
             r == [line |-> item[Flusher], by |-> Flusher]
  <2>1. /\ item[Flusher] \in Lines /\ writing /\ writing' = FALSE
        /\ UNCHANGED <<Contents, item, lost, lines, pc>> /\ out' = Append(out, r)
    BY <1>7 DEF Flush, ALInv, queuevars, history, Contents
  <2>2. /\ DOMAIN out' = DOMAIN out \cup {n} /\ out'[n].line = item[Flusher]
        /\ \A k \in DOMAIN out : out'[k] = out[k]
    BY <1>5, <2>1
  <2>3. line(w)' = line(w) /\ (Begun(l)' <=> Begun(l))
    BY <2>1 DEF line
  <2>4. CASE item[Flusher] # l
    <3>1. Places(l)' = Places(l)
      BY <2>1, <2>2, <2>3, <2>4, SamePlaces
    <3> QED
      BY <1>o, <2>3, <3>1
  <2>5. CASE item[Flusher] = l
    <3>1. Places(l)' = (Places(l) \ {<<"flusher", 0>>}) \cup {<<"file", n>>}
      BY <2>1, <2>2, <2>3, <2>5, PlacesOf, PlacesOfPrime
    <3>2. <<"flusher", 0>> \in Places(l)
      BY <2>1, <2>5, PlacesOf
    <3> QED
      BY <1>o, <2>3, <3>1, <3>2 DEF AtMostOne
  <2> QED
    BY <2>4, <2>5
<1>8. CASE Pop
  <2>1. UNCHANGED <<out, lines, lost, pc>> /\ ~writing
    BY <1>8 DEF Pop, history
  <2>2. line(w)' = line(w) /\ (Begun(l)' <=> Begun(l))
    BY <2>1 DEF line
  <2>3. CASE UNCHANGED <<Contents, item, m_size>> /\ writing' = FALSE
    <3>1. Places(l)' = Places(l)
      BY <2>1, <2>2, <2>3, SamePlaces
    <3> QED
      BY <1>o, <2>2, <3>1
  <2>4. CASE /\ Contents # <<>> /\ Contents' = Tail(Contents)
             /\ item'[Flusher] = Head(Contents) /\ writing' = TRUE
    <3> DEFINE n == Len(Contents)
               f == [p \in Places(l) |-> IF p = <<"queue", 1>> THEN <<"flusher", 0>>
                                         ELSE IF p[1] = "queue" THEN <<"queue", p[2] - 1>> ELSE p]
    <3>1. /\ DOMAIN Contents' = 1 .. n - 1 /\ n \in Nat \ {0}
          /\ \A i \in 1 .. n - 1 : Contents'[i] = Contents[i + 1] /\ i + 1 \in 1 .. n
          /\ item'[Flusher] = Contents[1]
      BY <1>t, <2>4, HeadGone
    <3>2. \A p \in Places(l) : f[p] \in Places(l)'
      <4> SUFFICES ASSUME NEW p \in Places(l) PROVE f[p] \in Places(l)'
        OBVIOUS
      <4>1. CASE p[1] = "queue"
        <5>1. PICK i \in 1 .. n : p = <<"queue", i>> /\ Contents[i] = l
          BY <1>t, <4>1, PlacesOf
        <5>2. CASE i = 1
          BY <2>4, <3>1, <5>1, <5>2, PlacesOfPrime
        <5>3. CASE i # 1
          <6>1. i - 1 \in 1 .. n - 1 /\ Contents'[i - 1] = l /\ f[p] = <<"queue", i - 1>>
            BY <3>1, <5>1, <5>3
          <6> QED
            BY <3>1, <6>1, PlacesOfPrime
        <5> QED
          BY <5>2, <5>3
      <4>2. CASE p[1] # "queue"
        BY <2>1, <2>2, <4>2, PlacesOf, PlacesOfPrime
      <4> QED
        BY <4>1, <4>2
    <3>3. \A r \in Places(l)' : \E p \in Places(l) : r = f[p]
      <4> SUFFICES ASSUME NEW r \in Places(l)' PROVE \E p \in Places(l) : r = f[p]
        OBVIOUS
      <4>1. CASE r[1] = "queue"
        <5>1. PICK i \in 1 .. n - 1 : r = <<"queue", i>> /\ Contents'[i] = l
          BY <3>1, <4>1, PlacesOfPrime
        <5>2. i + 1 \in 1 .. n /\ i + 1 # 1 /\ (i + 1) - 1 = i /\ Contents[i + 1] = l
          BY <3>1, <5>1
        <5>3. <<"queue", i + 1>> \in Places(l)
          BY <1>t, <5>2, PlacesOf
        <5>4. f[<<"queue", i + 1>>] = r
          BY <5>1, <5>2, <5>3
        <5> QED
          BY <5>3, <5>4
      <4>2. CASE r[1] = "flusher"
        <5>1. Contents[1] = l /\ r = <<"flusher", 0>> /\ 1 \in DOMAIN Contents
          BY <1>t, <3>1, <4>2, PlacesOfPrime
        <5>2. <<"queue", 1>> \in Places(l)
          BY <5>1, PlacesOf
        <5> QED
          BY <5>1, <5>2
      <4>3. CASE r[1] \notin {"queue", "flusher"}
        <5>1. r \in Places(l)
          BY <2>1, <2>2, <4>3, PlacesOf, PlacesOfPrime
        <5> QED
          BY <4>3, <5>1
      <4> QED
        BY <4>1, <4>2, <4>3
    <3> HIDE DEF f
    <3>4. AtMostOne(Places(l)', Begun(l))
      BY <1>o, <3>2, <3>3, Renamed
    <3> QED
      BY <2>2, <3>4
  <2> QED
    BY <1>8, <2>3, <2>4, PoppedLine
<1>9. ASSUME NEW v \in Writers, CountLine(v) \/ Test(v) PROVE AtMostOne(Places(l)', Begun(l)')
  <2>1. /\ UNCHANGED <<Contents, writing, item, out, lost, lines>>
        /\ \E to \in {"counted", "push", "write"} : pc' = [pc EXCEPT ![v] = to]
        /\ pc[v] # "idle"
    BY <1>9 DEF CountLine, Test, goto, queuevars, history, Contents
  <2> QED
    BY <1>t, <1>1, <2>1
<1>10. CASE Midnight \/ Spurious \/ UNCHANGED alvars
  <2>1. UNCHANGED <<Contents, writing, item, out, lost, lines, pc>>
    BY <1>10 DEF Midnight, Spurious, SpuriousWakeup, pause, alvars, queuevars, history, Contents
  <2> QED
    BY <1>1, <2>1
<1> QED
  BY <1>2, <1>4, <1>6, <1>7, <1>8, <1>9, <1>10 DEF ALNext, WriteLog

(* No line is written twice, none is left out: whatever a thread logs is   *)
(* at any time in exactly one place.                                       *)
THEOREM LinesOnce == ALSpec => []EachLineOnce
<1>1. ALInit => EachLineOnce
  <2> SUFFICES ASSUME ALInit, NEW l \in Lines PROVE Places(l) = {} /\ ~(l[2] <= lines[l[1]])
    BY DEF EachLineOnce
  <2>1. DOMAIN Contents = {} /\ out = <<>> /\ writing = FALSE /\ lost = {}
    BY DEF ALInit, BQInit, Contents
  <2>2. l[1] \in Writers /\ l[2] \in 1 .. MaxLines /\ MaxLines \in Nat
    BY LogAssumption DEF Lines
  <2>3. pc[l[1]] = "idle" /\ lines[l[1]] = 0
    BY <2>2 DEF ALInit
  <2> QED
    BY <2>1, <2>2, <2>3, PlacesOf
<1> QED
  BY <1>1, LogStart, LogStep, OnceStep, PTL DEF ALSpec
=============================================================================
