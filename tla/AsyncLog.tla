------------------------------ MODULE AsyncLog ------------------------------
(* Log: threads stamp a line, count it (which may open the next file), and *)
(* push it into a block_queue for one flushing thread, or write it         *)
(* themselves when the log is synchronous or the queue full.  The text of  *)
(* a line is abstracted to its writer and number, a file to its day and    *)
(* the suffix of its name.                                                 *)
EXTENDS Integers, Sequences

CONSTANTS
  Writers, Flusher,   (* threads                                           *)
  NoItem,
  MaxSize,            (* max_queue_size                                    *)
  m_split_lines,
  Days, MaxLines      (* bounds: days that pass, lines of each writer      *)

(* init() makes the queue only for a positive max_queue_size; a split_lines *)
(* of 0 would divide by it.                                                *)
ASSUME LogAssumption ==
  /\ MaxSize \in Nat \ {0} /\ m_split_lines \in Nat \ {0}
  /\ Days \in Nat /\ MaxLines \in Nat
  /\ Flusher \notin Writers /\ NoItem \notin Writers \X (1 .. MaxLines)

VARIABLES
  m_array, m_size, m_front, m_back, popping, item,   (* m_log_queue        *)
  day,                (* the wall clock                                    *)
  m_today, m_count, m_fp, m_is_async,
  pc, my_tm, lines,   (* writer -> its step, its stamp, lines it began     *)
  writing,            (* the flusher has a line in hand                    *)
  out,                (* what was written, and by whom                     *)
  lost,               (* lines whose push was refused                      *)
  raced               (* writers another writer pushed after full() of     *)

Lines == Writers \X (1 .. MaxLines)
INSTANCE BlockQueue WITH Items <- Lines, Consumers <- {Flusher}
queuevars == <<m_array, m_size, m_front, m_back, popping, item>>
logvars == <<m_today, m_count, m_fp, m_is_async>>
history == <<lost, raced>>
alvars == <<queuevars, logvars, history, day, pc, my_tm, lines, writing, out>>

line(w) == <<w, lines[w]>>
goto(w, to) == pc' = [pc EXCEPT ![w] = to]

----------------------------------------------------------------------------
(* Log::init *)
ALInit ==
  /\ BQInit
  /\ day = 0 /\ m_today = 0 /\ m_count = 0 /\ m_fp = <<0, 0>>
  /\ m_is_async \in BOOLEAN
  /\ pc = [w \in Writers |-> "idle"]
  /\ my_tm = [w \in Writers |-> 0] /\ lines = [w \in Writers |-> 0]
  /\ writing = FALSE /\ out = <<>> /\ lost = {} /\ raced = {}

Midnight ==
  /\ day < Days /\ day' = day + 1
  /\ UNCHANGED <<queuevars, logvars, history, pc, my_tm, lines, writing, out>>

(* write_log takes the time before any lock, ... *)
Stamp(w) ==
  /\ pc[w] = "idle" /\ lines[w] < MaxLines
  /\ lines' = [lines EXCEPT ![w] = @ + 1]
  /\ my_tm' = [my_tm EXCEPT ![w] = day]
  /\ goto(w, "stamped")
  /\ UNCHANGED <<queuevars, logvars, history, day, writing, out>>

(* Mutant: the count of lines goes on across midnight. *)
CountLine_keeps_count(w) ==
  /\ pc[w] = "stamped" /\ goto(w, "counted")
  /\ m_count' = m_count + 1
  /\ m_today' = my_tm[w]
  /\ m_fp' = CASE m_today # my_tm[w] -> <<my_tm[w], 0>>
               [] m_today = my_tm[w] /\ m_count' % m_split_lines = 0 ->
                    <<my_tm[w], m_count' \div m_split_lines>>
               [] OTHER -> m_fp
  /\ UNCHANGED <<queuevars, m_is_async, history, day, my_tm, lines, writing, out>>

(* ... counts the line, which may open another file, ... *)
CountLine(w) ==
  /\ pc[w] = "stamped" /\ goto(w, "counted")
  /\ m_count' = IF m_today # my_tm[w] THEN 0 ELSE m_count + 1
  /\ m_today' = my_tm[w]
  /\ m_fp' = CASE m_today # my_tm[w] -> <<my_tm[w], 0>>
               [] m_today = my_tm[w] /\ m_count' % m_split_lines = 0 ->
                    <<my_tm[w], m_count' \div m_split_lines>>
               [] OTHER -> m_fp
  /\ UNCHANGED <<queuevars, m_is_async, history, day, my_tm, lines, writing, out>>

(* Mutant: every line of an asynchronous log is pushed. *)
Test_always(w) ==
  /\ pc[w] = "counted" /\ goto(w, IF m_is_async THEN "push" ELSE "write")
  /\ raced' = raced \ {w}
  /\ UNCHANGED <<queuevars, logvars, lost, day, my_tm, lines, writing, out>>

(* ... formats it, asks whether the queue has room, ... *)
Test(w) ==
  /\ pc[w] = "counted" /\ goto(w, IF m_is_async /\ ~full THEN "push" ELSE "write")
  /\ raced' = raced \ {w}
  /\ UNCHANGED <<queuevars, logvars, lost, day, my_tm, lines, writing, out>>

(* Mutant: a pushed line is written as well. *)
Push_and_write(w) ==
  /\ pc[w] = "push" /\ goto(w, "write") /\ push(line(w))
  /\ lost' = IF full THEN lost \cup {line(w)} ELSE lost
  /\ raced' = raced \cup (Writers \ {w})
  /\ UNCHANGED <<logvars, day, my_tm, lines, writing, out>>

(* ... and pushes it, without a look at the result, ... *)
Push(w) ==
  /\ pc[w] = "push" /\ goto(w, "idle") /\ push(line(w))
  /\ lost' = IF full THEN lost \cup {line(w)} ELSE lost
  /\ raced' = raced \cup (Writers \ {w})
  /\ UNCHANGED <<logvars, day, my_tm, lines, writing, out>>

(* ... or writes it. *)
Write(w) ==
  /\ pc[w] = "write" /\ goto(w, "idle")
  /\ out' = Append(out, [line |-> line(w), by |-> w])
  /\ UNCHANGED <<queuevars, logvars, history, day, my_tm, lines, writing>>

(* async_write_log: pop, ... *)
Pop ==
  /\ m_is_async /\ ~writing /\ pop(Flusher)
  /\ writing' = (popping'[Flusher] = "out")
  /\ UNCHANGED <<logvars, history, day, pc, my_tm, lines, out>>

(* ... and fputs. *)
Flush ==
  /\ writing /\ writing' = FALSE
  /\ out' = Append(out, [line |-> item[Flusher], by |-> Flusher])
  /\ UNCHANGED <<queuevars, logvars, history, day, pc, my_tm, lines>>

Spurious ==
  SpuriousWakeup(Flusher) /\ UNCHANGED <<logvars, history, day, pc, my_tm, lines, writing, out>>

WriteLog(w) == Stamp(w) \/ CountLine(w) \/ Test(w) \/ Push(w) \/ Write(w)
ALNext == Midnight \/ (\E w \in Writers : WriteLog(w)) \/ Pop \/ Flush \/ Spurious

(* Threads run: a call of write_log goes on, and so does the flusher. *)
ALSpec ==
  /\ ALInit /\ [][ALNext]_alvars
  /\ \A w \in Writers : WF_alvars(CountLine(w) \/ Test(w) \/ Push(w) \/ Write(w))
  /\ WF_alvars(Pop) /\ WF_alvars(Flush)

----------------------------------------------------------------------------
ALTypeOK ==
  /\ BQTypeOK
  /\ day \in 0 .. Days /\ m_today \in 0 .. day /\ m_is_async \in BOOLEAN
  /\ m_count \in Nat /\ m_fp \in (0 .. day) \X Nat
  /\ pc \in [Writers -> {"idle", "stamped", "counted", "push", "write"}]
  /\ my_tm \in [Writers -> 0 .. day] /\ lines \in [Writers -> 0 .. MaxLines]
  /\ writing \in BOOLEAN /\ lost \subseteq Lines /\ raced \subseteq Writers
  /\ out \in Seq([line : Lines, by : Writers \cup {Flusher}])

(* A line is in one place at a time: with its writer, in the queue, in the *)
(* flusher's hand, in a file, or lost; never in two and never in none.     *)
Places(l) ==
  LET only(holds, place) == IF holds THEN {place} ELSE {}
  IN  only(pc[l[1]] # "idle" /\ line(l[1]) = l, <<"writer", 0>>)
      \cup {<<"queue", i>> : i \in {j \in DOMAIN Contents : Contents[j] = l}}
      \cup only(writing /\ item[Flusher] = l, <<"flusher", 0>>)
      \cup {<<"file", i>> : i \in {j \in DOMAIN out : out[j].line = l}}
      \cup only(l \in lost, <<"lost", 0>>)
EachLineOnce ==
  \A l \in Lines :
    IF l[2] <= lines[l[1]] THEN \E p \in Places(l) : Places(l) = {p} ELSE Places(l) = {}

(* push() is refused only for a line that another writer's push overtook   *)
(* between full() and push(): a thread that logs alone loses nothing.      *)
AloneHasRoom == \A w \in Writers : pc[w] = "push" /\ full => w \in raced

(* A line comes before an earlier one of its own thread only when it was   *)
(* written directly, past a queue the earlier one was still in.            *)
OvertakesOnlyDirect ==
  \A j \in DOMAIN out : \A i \in 1 .. j - 1 :
    LET first == out[i]  second == out[j]
    IN  first.line[1] = second.line[1] /\ first.line[2] > second.line[2]
          => first.by = first.line[1] /\ second.by = Flusher

(* The open file is the one the day and the number of lines call for, also *)
(* when threads that were stamped before midnight come after it.           *)
FileFitsCount == m_fp = <<m_today, m_count \div m_split_lines>>

(* Every line is written or lost in the end; none stays in the queue.      *)
LinesSettle ==
  \A l \in Lines : l[2] <= lines[l[1]] ~> (l \in lost \/ \E i \in DOMAIN out : out[i].line = l)
=============================================================================
