--------------------------- MODULE WebServerProofs ---------------------------
(* Theorems of WebServer, for every number of descriptors, workers and     *)
(* timers, every limit, and each trigger mode.                             *)
EXTENDS WebServer, TLAPS

(* `new' never returns the address of a live timer. *)
LEMMA UnusedFree == \A t \in Unused(Live) : t \in Timers \ Live
<1>1. Live \in SUBSET Timers
  BY DEF Live
<1>2. Unused(Live) \subseteq Timers \ Live
  BY <1>1, AllocatorAssumption
<1> QED
  BY <1>2

LEMMA TypeInit == Init => TypeOK
<1> SUFFICES ASSUME Init PROVE TypeOK
  OBVIOUS
<1> USE FdAssumption, LimitAssumption DEF Init, Interests, Phases, WorkerPcs, Verdicts
<1>1. m_workqueue \in Seq(Fds)
  OBVIOUS
<1>2. connects \in 0..MaxConnects /\ left \in [Timers -> 0..Expiry]
  OBVIOUS
<1>3. /\ m_sockfd \in [Fds -> Fds \cup {NoFd}] /\ owner \in [Timers -> Fds \cup {NoFd}]
      /\ wfd \in [Workers -> Fds \cup {NoFd}] /\ wloaded \in [Workers -> Int]
  OBVIOUS
<1>4. /\ interest \in [Fds -> Interests]
      /\ wpc \in [Workers -> WorkerPcs] /\ wret \in [Workers -> Verdicts]
  OBVIOUS
<1>5. /\ input \in [Fds -> BOOLEAN] /\ hup \in [Fds -> BOOLEAN]
      /\ fresh \in [Fds -> BOOLEAN] /\ bytes_to_send \in [Fds -> BOOLEAN]
  OBVIOUS
<1>6. /\ open \subseteq Fds /\ stale \subseteq Fds /\ batch \subseteq Events
      /\ sigs \subseteq {"ALRM", "TERM"} /\ timer \in [Fds -> Timers]
  OBVIOUS
<1>7. backlog \in Nat /\ m_user_count \in Int /\ loaded \in Int
  OBVIOUS
<1>8. phase \in Phases /\ connfd \in Fds \cup {NoFd}
  OBVIOUS
<1>9. /\ alarm \in BOOLEAN /\ edge \in BOOLEAN
      /\ timeout \in BOOLEAN /\ stop_server \in BOOLEAN
      /\ cut \in BOOLEAN /\ MAX_FD \in Limits
  OBVIOUS
<1> HIDE DEF Init, Interests, Phases, WorkerPcs, Verdicts
<1> QED
  BY <1>1, <1>2, <1>3, <1>4, <1>5, <1>6, <1>7, <1>8, <1>9 DEF TypeOK

LEMMA TypeStep == TypeOK /\ [Next]_vars => TypeOK'
<1> SUFFICES ASSUME TypeOK, [Next]_vars PROVE TypeOK'
  OBVIOUS
<1> USE FdAssumption, LimitAssumption
    DEF TypeOK, Interests, Events, Phases, WorkerPcs, Verdicts,
        kernel, arrival, signals, slots, timers, main, pool
<1>1. CASE EpollWait
  <2>1. PICK B \in SUBSET (Pending \cup Writable) :
          /\ batch' = B /\ edge' \in BOOLEAN
          /\ interest' = [fd \in Fds |-> IF \E e \in B : e[1] = fd
                                          THEN "off" ELSE interest[fd]]
    BY <1>1 DEF EpollWait
  <2>2. Pending \subseteq Events /\ Writable \subseteq Events
    BY DEF Pending, Writable
  <2>3. batch' \subseteq Events
    BY <2>1, <2>2
  <2>4. interest' \in [Fds -> Interests]
    BY <2>1
  <2> QED
    BY <1>1, <2>1, <2>3, <2>4 DEF EpollWait
<1>2. CASE HandleListen
  BY <1>2 DEF HandleListen, Consume
<1>3. CASE AcceptFails
  BY <1>3 DEF AcceptFails
<1>4. CASE AcceptRefused
  BY <1>4 DEF AcceptRefused
<1>5. CASE AcceptOne
  BY <1>5 DEF AcceptOne
<1>6. CASE InitConn
  <2>1. PICK t \in Timers \ Live :
          /\ owner' = [owner EXCEPT ![t] = connfd]
          /\ left' = [left EXCEPT ![t] = Expiry]
          /\ timer' = [timer EXCEPT ![connfd] = t]
    BY <1>6, UnusedFree DEF InitConn
  <2>2. owner' \in [Timers -> Fds \cup {NoFd}] /\ timer' \in [Fds -> Timers]
    BY <2>1
  <2>5. left' \in [Timers -> 0..Expiry]
    BY <2>1
  <2>3. fresh' \in [Fds -> BOOLEAN] /\ bytes_to_send' \in [Fds -> BOOLEAN]
    BY <1>6 DEF InitConn, resetSlot
  <2>4. phase' \in Phases /\ m_user_count' \in Int
    BY <1>6 DEF InitConn
  <2> QED
    BY <1>6, <2>2, <2>3, <2>4, <2>5 DEF InitConn
<1>7. CASE HandleSignal
  BY <1>7 DEF HandleSignal, Consume
<1>8. ASSUME NEW fd \in Fds, HandleHup(fd) PROVE TypeOK'
  BY <1>8 DEF HandleHup, Consume, deal_timer, closeAll, delTimers
<1>9. ASSUME NEW fd \in Fds, HandleRead(fd) PROVE TypeOK'
  BY <1>9 DEF HandleRead, Consume, adjust_timer
<1>10. ASSUME NEW fd \in Fds, HandleReadFails(fd) PROVE TypeOK'
  <2>1. fresh' \in [Fds -> BOOLEAN]
    <3>1. fresh' \in {fresh, [fresh EXCEPT ![fd] = TRUE]}
      BY <1>10 DEF HandleReadFails
    <3>2. fresh \in [Fds -> BOOLEAN]
      OBVIOUS
    <3> QED
      BY <3>1, <3>2
  <2> QED
    BY <1>10, <2>1 DEF HandleReadFails, Consume, deal_timer, closeAll, delTimers
<1>11. ASSUME NEW fd \in Fds, HandleWrite(fd) PROVE TypeOK'
  <2>1. /\ fresh' \in [Fds -> BOOLEAN] /\ bytes_to_send' \in [Fds -> BOOLEAN]
        /\ interest' \in [Fds -> Interests]
    BY <1>11 DEF HandleWrite, modfd, resetSlot
  <2> QED
    BY <1>11, <2>1 DEF HandleWrite, Consume, adjust_timer
<1>12. ASSUME NEW fd \in Fds, HandleWriteAgain(fd) PROVE TypeOK'
  <2>1. interest' \in [Fds -> Interests] /\ left' \in [Timers -> 0..Expiry]
    BY <1>12 DEF HandleWriteAgain, adjust_timer, modfd
  <2> QED
    BY <1>12, <2>1 DEF HandleWriteAgain, Consume, adjust_timer
<1>13. ASSUME NEW fd \in Fds, HandleWriteEnds(fd) PROVE TypeOK'
  <2>1. bytes_to_send' \in [Fds -> BOOLEAN]
    <3>1. bytes_to_send' \in {bytes_to_send, [bytes_to_send EXCEPT ![fd] = FALSE]}
      BY <1>13 DEF HandleWriteEnds
    <3>2. bytes_to_send \in [Fds -> BOOLEAN]
      OBVIOUS
    <3> QED
      BY <3>1, <3>2
  <2>2. /\ open' \subseteq Fds /\ interest' \in [Fds -> Interests]
        /\ input' \in [Fds -> BOOLEAN] /\ hup' \in [Fds -> BOOLEAN]
    BY <1>13 DEF HandleWriteEnds, deal_timer, closeAll
  <2>3. /\ owner' \in [Timers -> Fds \cup {NoFd}] /\ left' \in [Timers -> 0..Expiry]
        /\ timer' \in [Fds -> Timers]
    BY <1>13 DEF HandleWriteEnds, deal_timer, delTimers
  <2> QED
    BY <1>13, <2>1, <2>2, <2>3 DEF HandleWriteEnds, Consume
<1>14. CASE LoopEnd
  <2>1. /\ open' \subseteq Fds /\ interest' \in [Fds -> Interests]
        /\ input' \in [Fds -> BOOLEAN] /\ hup' \in [Fds -> BOOLEAN]
    <3>1. CASE timeout
      <4>1. closeAll({owner[t] : t \in Expired})
        BY <1>14, <3>1 DEF LoopEnd, tick
      <4> QED
        BY <4>1 DEF closeAll
    <3>2. CASE ~timeout
      BY <1>14, <3>2 DEF LoopEnd
    <3> QED
      BY <3>1, <3>2
  <2>2. /\ owner' \in [Timers -> Fds \cup {NoFd}] /\ left' \in [Timers -> 0..Expiry]
        /\ timer' \in [Fds -> Timers]
    <3>1. CASE timeout
      <4>1. delTimers(Expired) /\ timer' = timer
        BY <1>14, <3>1 DEF LoopEnd, tick
      <4> QED
        BY <4>1 DEF delTimers
    <3>2. CASE ~timeout
      BY <1>14, <3>2 DEF LoopEnd
    <3> QED
      BY <3>1, <3>2
  <2>3. phase' \in Phases /\ alarm' \in BOOLEAN
    BY <1>14 DEF LoopEnd
  <2> QED
    BY <1>14, <2>1, <2>2, <2>3 DEF LoopEnd
<1>15. ASSUME NEW w \in Workers, Take(w) PROVE TypeOK'
  BY <1>15 DEF Take
<1>16. ASSUME NEW w \in Workers, ProcessRead(w) PROVE TypeOK'
  <2>1. wret' \in [Workers -> Verdicts] /\ wpc' \in [Workers -> WorkerPcs]
    BY <1>16 DEF ProcessRead
  <2>2. fresh' \in [Fds -> BOOLEAN]
    BY <1>16 DEF ProcessRead
  <2> QED
    BY <1>16, <2>1, <2>2 DEF ProcessRead
<1>17. ASSUME NEW w \in Workers, ProcessWrite(w) PROVE TypeOK'
  BY <1>17 DEF ProcessWrite
<1>18. ASSUME NEW w \in Workers, CloseConn(w) PROVE TypeOK'
  BY <1>18 DEF CloseConn, closeAll
<1>27. ASSUME NEW w \in Workers, ForgetConn(w) PROVE TypeOK'
  BY <1>27 DEF ForgetConn
<1>19. ASSUME NEW w \in Workers, Uncount(w) PROVE TypeOK'
  BY <1>19 DEF Uncount
<1>20. ASSUME NEW w \in Workers, Rearm(w) PROVE TypeOK'
  BY <1>20 DEF Rearm, modfd
<1>21. CASE Connect
  BY <1>21 DEF Connect
<1>22. CASE Elapse
  <2>1. left' \in [Timers -> 0..Expiry]
    BY <1>22 DEF Elapse
  <2>2. sigs' \subseteq {"ALRM", "TERM"}
    BY <1>22 DEF Elapse
  <2> QED
    BY <1>22, <2>1, <2>2 DEF Elapse
<1>23. CASE SigTerm
  BY <1>23 DEF SigTerm
<1>24. ASSUME NEW fd \in Fds, ClientSend(fd) PROVE TypeOK'
  BY <1>24 DEF ClientSend
<1>25. ASSUME NEW fd \in Fds, ClientClose(fd) PROVE TypeOK'
  BY <1>25 DEF ClientClose
<1>26. CASE UNCHANGED vars
  BY <1>26 DEF vars
<1> QED
  BY <1>1, <1>2, <1>3, <1>4, <1>5, <1>6, <1>7, <1>8, <1>9, <1>10, <1>11, <1>12, <1>13,
     <1>14, <1>15, <1>16, <1>17, <1>18, <1>19, <1>20, <1>21, <1>22, <1>23, <1>24, <1>25, <1>26,
     <1>27
  DEF Next, MainStep, WorkerStep, Environment, HandleEvent, Stopped

(* Every variable keeps its type: in particular no timer ever has more     *)
(* than the Expiry that timer() and adjust_timer() give it.                *)
THEOREM TypeCorrect == Spec => []TypeOK
<1>1. TypeOK /\ [Next]_vars => TypeOK'
  BY TypeStep
<1> QED
  BY TypeInit, <1>1, PTL DEF Spec

----------------------------------------------------------------------------
(* The chain of alarms: only the four actions below touch it. *)
LEMMA TickStep == TickComing /\ [Next]_vars => TickComing'
<1> SUFFICES ASSUME TickComing, [Next]_vars PROVE TickComing'
  OBVIOUS
<1> USE DEF TickComing, kernel, arrival, signals, slots, timers, main, pool
<1>1. CASE LoopEnd
  BY <1>1 DEF LoopEnd
<1>2. CASE HandleSignal
  BY <1>2 DEF HandleSignal, Consume
<1>3. CASE Elapse
  BY <1>3 DEF Elapse
<1>4. CASE SigTerm
  BY <1>4 DEF SigTerm
<1>5. CASE EpollWait \/ HandleListen \/ AcceptFails \/ AcceptRefused \/ AcceptOne \/ InitConn
  BY <1>5 DEF EpollWait, HandleListen, AcceptFails, AcceptRefused, AcceptOne, InitConn, Consume
<1>6. ASSUME NEW fd \in Fds, HandleEvent(fd) PROVE TickComing'
  BY <1>6 DEF HandleEvent, HandleHup, HandleRead, HandleReadFails, HandleWrite,
              HandleWriteAgain, HandleWriteEnds
<1>7. ASSUME NEW w \in Workers, WorkerStep(w) PROVE TickComing'
  BY <1>7 DEF WorkerStep, Take, ProcessRead, ProcessWrite, CloseConn, ForgetConn,
              Uncount, Rearm
<1>8. CASE Connect \/ \E fd \in Fds : ClientSend(fd) \/ ClientClose(fd)
  BY <1>8 DEF Connect, ClientSend, ClientClose
<1>9. CASE UNCHANGED vars
  BY <1>9 DEF vars
<1> QED
  BY <1>1, <1>2, <1>3, <1>4, <1>5, <1>6, <1>7, <1>8, <1>9
  DEF Next, MainStep, Environment, Stopped

(* As long as event_loop runs there is a next tick on its way: the alarm   *)
(* is set, SIGALRM is in the pipe, or the flag timeout is set.             *)
THEOREM TickAlwaysComing == Spec => []TickComing
<1>1. Init => TickComing
  BY DEF Init, TickComing
<1>2. TickComing /\ [Next]_vars => TickComing'
  BY TickStep
<1> QED
  BY <1>1, <1>2, PTL DEF Spec

----------------------------------------------------------------------------
(* Why timers are owned.  epoll knows open descriptors only, and reports   *)
(* each once per batch; only the accept in progress has no timer yet.      *)
Registered == \A fd \in Fds : interest[fd] # "none" => fd \in open
Accepting  == IF phase = "init" THEN connfd \in Fds ELSE connfd = NoFd
OneEvent   == \A e, f \in batch : e[1] \in Fds /\ e[1] = f[1] => e = f
TimerInv   == Registered /\ Accepting /\ OneEvent /\ TimerOwned /\ EventHasTimer

LEMMA ReadyOpen ==
  ASSUME TypeOK, Registered, NEW e \in Pending \cup Writable, e[1] \in Fds
  PROVE  /\ interest[e[1]] \in {"in", "out"} /\ e[1] \in open
         /\ \A f \in Pending \cup Writable : f[1] = e[1] => f = e
  BY FdAssumption DEF Pending, Writable, Registered

LEMMA ReadyOpenAll ==
  TypeOK /\ Registered =>
    \A e \in Pending \cup Writable : e[1] \in Fds =>
      /\ interest[e[1]] \in {"in", "out"} /\ e[1] \in open
      /\ \A f \in Pending \cup Writable : f[1] = e[1] => f = e
  BY ReadyOpen

(* Closing descriptors, or one descriptor and its timer, keeps the relation. *)
LEMMA CloseKeeps ==
  ASSUME NEW S, TypeOK, Registered, closeAll(S)
  PROVE  Registered' /\ open' = open \ S
  BY DEF TypeOK, Registered, closeAll

LEMMA DealTimerKeeps ==
  ASSUME NEW fd \in Fds, TypeOK, TimerInv, phase = "dispatch",
         NEW e \in batch, e[1] = fd, batch' = batch \ {e},
         deal_timer(fd), UNCHANGED <<phase, connfd>>
  PROVE  TimerInv'
<1>1. Registered' /\ open' = open \ {fd}
  BY CloseKeeps DEF deal_timer, TimerInv
<1>2. owner[timer[fd]] = fd
  BY DEF TimerInv, EventHasTimer
<1>3. \A f \in Fds : f # fd /\ owner[timer[f]] = f => owner'[timer'[f]] = f
  BY <1>2 DEF deal_timer, delTimers, TypeOK
<1>4. \A f \in batch' : f[1] \in Fds => f[1] # fd
  BY DEF TimerInv, OneEvent
<1>5. TimerOwned'
  BY <1>1, <1>3 DEF TimerInv, TimerOwned, TypeOK
<1>6. EventHasTimer'
  BY <1>3, <1>4 DEF TimerInv, EventHasTimer
<1> QED
  BY <1>1, <1>5, <1>6 DEF TimerInv, Accepting, OneEvent

LEMMA TimerStep == TypeOK /\ TimerInv /\ [Next]_vars => TimerInv'
<1> SUFFICES ASSUME TypeOK, TimerInv, [Next]_vars PROVE TimerInv'
  OBVIOUS
<1> USE FdAssumption DEF kernel, arrival, signals, slots, timers, main, pool
<1>1. CASE EpollWait
  <2>1. PICK B \in SUBSET (Pending \cup Writable) :
          /\ batch' = B
          /\ interest' = [fd \in Fds |-> IF \E e \in B : e[1] = fd
                                          THEN "off" ELSE interest[fd]]
    BY <1>1 DEF EpollWait
  <2>2. \A e \in B : e[1] \in Fds =>
          /\ e[1] \in open
          /\ \A f \in B : f[1] = e[1] => f = e
    BY ReadyOpenAll DEF TimerInv
  <2>3. Registered'
    BY <1>1, <2>1, <2>2 DEF EpollWait, TimerInv, Registered
  <2>4. \A fd \in open : owner[timer[fd]] = fd
    BY <1>1 DEF EpollWait, TimerInv, TimerOwned
  <2> QED
    BY <1>1, <2>1, <2>2, <2>3, <2>4
    DEF EpollWait, TimerInv, TimerOwned, EventHasTimer, OneEvent, Accepting
<1>2. CASE HandleListen \/ AcceptFails \/ AcceptRefused \/ HandleSignal
  BY <1>2 DEF HandleListen, AcceptFails, AcceptRefused, HandleSignal, Consume,
              TimerInv, Registered, Accepting, OneEvent, TimerOwned, EventHasTimer
<1>3. CASE AcceptOne
  <2>1. PICK fd \in Fds \ open : /\ open' = open \cup {fd} /\ connfd' = fd
                                 /\ interest' = [interest EXCEPT ![fd] = "in"]
    BY <1>3 DEF AcceptOne
  <2>2. Registered'
    BY <2>1 DEF TimerInv, Registered, TypeOK
  <2>3. phase = "accept" /\ phase' = "init" /\ UNCHANGED <<timer, owner, batch>>
    BY <1>3 DEF AcceptOne
  <2> QED
    BY <2>1, <2>2, <2>3 DEF TimerInv, Accepting, OneEvent, TimerOwned, EventHasTimer
<1>4. CASE InitConn
  <2>1. PICK t \in Timers \ Live : /\ owner' = [owner EXCEPT ![t] = connfd]
                                   /\ timer' = [timer EXCEPT ![connfd] = t]
    BY <1>4, UnusedFree DEF InitConn
  <2>2. connfd \in Fds /\ connfd' = NoFd /\ phase' # "init"
        /\ UNCHANGED <<open, interest, batch>>
    BY <1>4 DEF InitConn, TimerInv, Accepting
  <2>3. owner'[timer'[connfd]] = connfd
    BY <2>1, <2>2 DEF TypeOK
  <2>4. \A fd \in Fds : owner[timer[fd]] = fd => owner'[timer'[fd]] = fd
    BY <2>1, <2>2, <2>3 DEF TypeOK, Live
  <2>5. TimerOwned'
    BY <2>2, <2>3, <2>4 DEF TimerInv, TimerOwned, TypeOK
  <2>6. EventHasTimer'
    BY <2>2, <2>4 DEF TimerInv, EventHasTimer
  <2> QED
    BY <2>2, <2>5, <2>6 DEF TimerInv, Registered, Accepting, OneEvent
<1>5. ASSUME NEW fd \in Fds, HandleHup(fd) PROVE TimerInv'
  BY <1>5, DealTimerKeeps DEF HandleHup, Consume
<1>6. ASSUME NEW fd \in Fds, HandleReadFails(fd) PROVE TimerInv'
  BY <1>6, DealTimerKeeps DEF HandleReadFails, Consume
<1>7. ASSUME NEW fd \in Fds, HandleWriteEnds(fd) PROVE TimerInv'
  BY <1>7, DealTimerKeeps DEF HandleWriteEnds, Consume
<1>8. ASSUME NEW fd \in Fds, HandleRead(fd) \/ HandleWrite(fd) \/ HandleWriteAgain(fd)
      PROVE  TimerInv'
  <2>1. Registered'
    BY <1>8 DEF HandleRead, HandleWrite, HandleWriteAgain, modfd, TimerInv, Registered, TypeOK
  <2> QED
    BY <1>8, <2>1 DEF HandleRead, HandleWrite, HandleWriteAgain, Consume, adjust_timer,
                      TimerInv, Accepting, OneEvent, TimerOwned, EventHasTimer
<1>9. CASE LoopEnd
  <2>1. phase = "dispatch" /\ phase' # "init" /\ batch = {}
        /\ UNCHANGED <<batch, connfd, timer>>
    BY <1>9 DEF LoopEnd, tick
  <2>2. CASE timeout
    <3>1. closeAll({owner[t] : t \in Expired}) /\ delTimers(Expired)
      BY <1>9, <2>2 DEF LoopEnd, tick
    <3>2. Registered' /\ open' = open \ {owner[t] : t \in Expired}
      BY <3>1, CloseKeeps DEF TimerInv
    <3>3. \A fd \in open' : timer[fd] \notin Expired /\ owner[timer[fd]] = fd
      BY <2>1, <3>2 DEF TimerInv, TimerOwned
    <3>4. \A fd \in open' : owner'[timer'[fd]] = fd
      BY <2>1, <3>1, <3>2, <3>3 DEF delTimers, TypeOK
    <3> QED
      BY <2>1, <3>2, <3>4 DEF TimerInv, TimerOwned, EventHasTimer, OneEvent, Accepting
  <2>3. CASE ~timeout
    BY <1>9, <2>1, <2>3 DEF LoopEnd, TimerInv, Registered, TimerOwned, EventHasTimer,
                            OneEvent, Accepting
  <2> QED
    BY <2>2, <2>3
<1>10. ASSUME NEW w \in Workers, CloseConn(w) PROVE TimerInv'
  <2>1. Registered' /\ open' \subseteq open
    BY <1>10, CloseKeeps DEF CloseConn, TimerInv
  <2> QED
    BY <1>10, <2>1 DEF CloseConn, TimerInv, Accepting, OneEvent, TimerOwned, EventHasTimer
<1>11. ASSUME NEW w \in Workers, Rearm(w) PROVE TimerInv'
  <2>1. Registered'
    BY <1>11 DEF Rearm, modfd, TimerInv, Registered, TypeOK
  <2> QED
    BY <1>11, <2>1 DEF Rearm, TimerInv, Accepting, OneEvent, TimerOwned, EventHasTimer
<1>12. ASSUME NEW w \in Workers,
              Take(w) \/ ProcessRead(w) \/ ProcessWrite(w) \/ ForgetConn(w) \/ Uncount(w)
       PROVE  TimerInv'
  BY <1>12 DEF Take, ProcessRead, ProcessWrite, ForgetConn, Uncount,
               TimerInv, Registered, Accepting, OneEvent, TimerOwned, EventHasTimer
<1>13. CASE Environment
  BY <1>13 DEF Environment, Connect, Elapse, SigTerm, ClientSend, ClientClose,
               TimerInv, Registered, Accepting, OneEvent, TimerOwned, EventHasTimer
<1>14. CASE UNCHANGED vars
  BY <1>14 DEF vars, TimerInv, Registered, Accepting, OneEvent, TimerOwned, EventHasTimer
<1> QED
  BY <1>1, <1>2, <1>3, <1>4, <1>5, <1>6, <1>7, <1>8, <1>9, <1>10, <1>11, <1>12, <1>13, <1>14
  DEF Next, MainStep, HandleEvent, WorkerStep, Stopped

LEMMA TimerInvariant == Spec => [](TypeOK /\ TimerInv)
<1>1. Init => TypeOK /\ TimerInv
  BY TypeInit, FdAssumption
  DEF Init, TimerInv, Registered, Accepting, OneEvent, TimerOwned, EventHasTimer
<1>2. TypeOK /\ TimerInv /\ [Next]_vars => (TypeOK /\ TimerInv)'
  BY TypeStep, TimerStep
<1> QED
  BY <1>1, <1>2, PTL DEF Spec

(* An open connection has a live timer that is its own - also while        *)
(* workers close sockets behind the back of the main thread.               *)
THEOREM TimersOwned == Spec => []TimerOwned
<1>1. TypeOK /\ TimerInv => TimerOwned
  BY DEF TimerInv
<1> QED
  BY TimerInvariant, <1>1, PTL

(* adjust_timer and deal_timer are only ever called with a live timer: no  *)
(* node is used or deleted after it was deleted.                           *)
THEOREM EventsHaveTimer == Spec => []EventHasTimer
<1>1. TypeOK /\ TimerInv => EventHasTimer
  BY DEF TimerInv
<1> QED
  BY TimerInvariant, <1>1, PTL

----------------------------------------------------------------------------
(* Why turns are exclusive: a slot only ever names its own descriptor, and *)
(* a worker names a slot exactly while it is busy.                         *)
OwnSlot  == \A fd \in Fds : m_sockfd[fd] \in {fd, NoFd}
BusyNamed == \A w \in Workers : wpc[w] = "idle" <=> wfd[w] = NoFd
TurnOf(fd) ==
  /\ interest[fd] # "off" => ~InUse(fd)
  /\ InBatch(fd) => ~InQueue(fd) /\ ~AtWorker(fd)
  /\ InQueue(fd) => ~AtWorker(fd)
  /\ \A i, j \in DOMAIN m_workqueue : m_workqueue[i] = fd /\ m_workqueue[j] = fd => i = j
  /\ \A w, v \in Workers : wfd[w] = fd /\ wfd[v] = fd => w = v
TurnInv == OwnSlot /\ BusyNamed /\ TurnExclusive

(* A step that hands no turn on; descriptors may be closed. *)
LEMMA TurnKept ==
  ASSUME TypeOK, TurnExclusive, UNCHANGED <<m_workqueue, wfd, stale>>,
         batch' \subseteq batch, open' \subseteq open,
         \A fd \in open' : interest'[fd] = interest[fd],
         \A w \in Workers : wpc'[w] # "idle" => wpc[w] # "idle"
  PROVE  TurnExclusive'
  BY DEF TurnExclusive, InUse, InBatch, InQueue, AtWorker, TypeOK

(* Main gives the turn of fd, which it took from the batch, back to epoll. *)
LEMMA TurnBack ==
  ASSUME TypeOK, OneEvent, OwnSlot, TurnExclusive, NEW fd \in Fds, NEW ev \in Interests,
         NEW e \in batch, e[1] = fd, batch' = batch \ {e}, modfd(m_sockfd[fd], ev),
         UNCHANGED <<open, m_workqueue, wpc, wfd, stale>>
  PROVE  TurnExclusive'
<1> SUFFICES ASSUME NEW f \in open \ stale PROVE TurnOf(f)'
  BY DEF TurnExclusive, TurnOf
<1>1. TurnOf(f)
  BY DEF TurnExclusive, TurnOf
<1>2. f # fd => interest'[f] = interest[f]
  BY FdAssumption DEF modfd, OwnSlot, TypeOK
<1>3. InBatch(f)' => InBatch(f) /\ f # fd
  BY DEF InBatch, OneEvent
<1>4. CASE f = fd
  <2>1. InBatch(f)
    BY <1>4 DEF InBatch
  <2>2. ~InQueue(f) /\ ~AtWorker(f)
    BY <1>1, <2>1 DEF TurnOf
  <2> QED
    BY <1>1, <1>3, <1>4, <2>2 DEF TurnOf, InUse, InQueue, AtWorker
<1>5. CASE f # fd
  BY <1>1, <1>2, <1>3, <1>5 DEF TurnOf, InUse, InQueue, AtWorker
<1> QED
  BY <1>4, <1>5

LEMMA TurnStep ==
  TypeOK /\ TimerInv /\ TurnInv /\ [Next]_vars => TurnInv'
<1> SUFFICES ASSUME TypeOK, TimerInv, TurnInv, [Next]_vars PROVE TurnInv'
  OBVIOUS
<1> USE FdAssumption DEF kernel, arrival, signals, slots, timers, main, pool
<1>1. CASE EpollWait
  <2>1. PICK B \in SUBSET (Pending \cup Writable) :
          /\ batch' = B
          /\ interest' = [fd \in Fds |-> IF \E e \in B : e[1] = fd
                                          THEN "off" ELSE interest[fd]]
    BY <1>1 DEF EpollWait
  <2>2. \A e \in B : e[1] \in Fds => interest[e[1]] \in {"in", "out"}
    BY ReadyOpenAll DEF TimerInv
  <2>3. UNCHANGED <<open, stale, m_workqueue, wpc, wfd, m_sockfd>>
    BY <1>1 DEF EpollWait
  <2>4. ASSUME NEW fd \in open \ stale PROVE TurnOf(fd)'
    <3>1. TurnOf(fd) /\ fd \in Fds
      BY DEF TurnInv, TurnExclusive, TurnOf, TypeOK
    <3>2. CASE InBatch(fd)'
      <4>1. interest[fd] # "off" /\ interest'[fd] = "off"
        BY <2>1, <2>2, <3>1, <3>2 DEF InBatch
      <4>2. ~InQueue(fd) /\ ~AtWorker(fd)
        BY <3>1, <4>1 DEF TurnOf, InUse
      <4> QED
        BY <2>3, <3>1, <4>1, <4>2 DEF TurnOf, InQueue, AtWorker
    <3>3. CASE ~InBatch(fd)'
      <4>1. interest'[fd] = interest[fd]
        BY <2>1, <3>1, <3>3 DEF InBatch
      <4> QED
        BY <2>3, <3>1, <3>3, <4>1 DEF TurnOf, InUse, InQueue, AtWorker
    <3> QED
      BY <3>2, <3>3
  <2>5. TurnExclusive'
    BY <2>3, <2>4 DEF TurnExclusive, TurnOf
  <2> QED
    BY <2>3, <2>5 DEF TurnInv, OwnSlot, BusyNamed
<1>2. CASE HandleListen \/ AcceptFails \/ AcceptRefused \/ HandleSignal
  <2>1. /\ UNCHANGED <<open, interest, stale, m_workqueue, wpc, wfd, m_sockfd>>
        /\ batch' \subseteq batch
    BY <1>2 DEF HandleListen, AcceptFails, AcceptRefused, HandleSignal, Consume
  <2>2. TurnExclusive'
    BY <2>1, TurnKept DEF TurnInv
  <2> QED
    BY <2>1, <2>2 DEF TurnInv, OwnSlot, BusyNamed
<1>3. CASE AcceptOne
  <2>1. PICK fd \in Fds \ open :
          /\ open' = open \cup {fd}
          /\ interest' = [interest EXCEPT ![fd] = "in"]
          /\ m_sockfd' = [m_sockfd EXCEPT ![fd] = fd]
          /\ stale' = IF InUse(fd) THEN stale \cup {fd} ELSE stale \ {fd}
    BY <1>3 DEF AcceptOne
  <2>2. UNCHANGED <<batch, m_workqueue, wpc, wfd>>
    BY <1>3 DEF AcceptOne
  <2>3. ASSUME NEW f \in open' \ stale' PROVE TurnOf(f)'
    <3>1. CASE f = fd
      <4>1. ~InUse(fd)
        BY <2>1, <3>1
      <4>2. \A w \in Workers : wfd[w] # fd
        BY <4>1 DEF InUse, AtWorker, TurnInv, BusyNamed
      <4> QED
        BY <2>2, <3>1, <4>1, <4>2 DEF TurnOf, InUse, InBatch, InQueue, AtWorker
    <3>2. CASE f # fd
      <4>1. TurnOf(f) /\ interest'[f] = interest[f]
        BY <2>1, <3>2 DEF TurnInv, TurnExclusive, TurnOf, TypeOK
      <4> QED
        BY <2>2, <4>1 DEF TurnOf, InUse, InBatch, InQueue, AtWorker
    <3> QED
      BY <3>1, <3>2
  <2>4. TurnExclusive'
    BY <2>3 DEF TurnExclusive, TurnOf
  <2>5. OwnSlot'
    BY <2>1 DEF TurnInv, OwnSlot, TypeOK
  <2> QED
    BY <2>2, <2>4, <2>5 DEF TurnInv, BusyNamed
<1>4. CASE InitConn
  <2>1. UNCHANGED <<open, interest, stale, batch, m_workqueue, wpc, wfd, m_sockfd>>
    BY <1>4 DEF InitConn
  <2>2. TurnExclusive'
    BY <2>1, TurnKept DEF TurnInv
  <2> QED
    BY <2>1, <2>2 DEF TurnInv, OwnSlot, BusyNamed
<1>5. ASSUME NEW fd \in Fds, HandleHup(fd) \/ HandleReadFails(fd) \/ HandleWriteEnds(fd)
      PROVE  TurnInv'
  <2>1. /\ closeAll({fd}) /\ UNCHANGED <<stale, m_workqueue, wpc, wfd, m_sockfd>>
        /\ batch' \subseteq batch
    BY <1>5 DEF HandleHup, HandleReadFails, HandleWriteEnds, Consume, deal_timer
  <2>2. open' \subseteq open /\ \A f \in open' : interest'[f] = interest[f]
    BY <2>1 DEF closeAll, TypeOK
  <2>3. TurnExclusive'
    BY <2>1, <2>2, TurnKept DEF TurnInv
  <2> QED
    BY <2>1, <2>3 DEF TurnInv, OwnSlot, BusyNamed
<1>6. ASSUME NEW fd \in Fds, HandleRead(fd) PROVE TurnInv'
  <2>1. PICK e \in batch : e[1] = fd /\ batch' = batch \ {e}
    BY <1>6 DEF HandleRead, Consume
  <2>2. UNCHANGED <<open, interest, stale, wpc, wfd, m_sockfd>>
    BY <1>6 DEF HandleRead
  <2>3. CASE m_workqueue' = m_workqueue
    <3>1. TurnExclusive'
      BY <2>1, <2>2, <2>3, TurnKept DEF TurnInv
    <3> QED
      BY <2>2, <3>1 DEF TurnInv, OwnSlot, BusyNamed
  <2>4. CASE m_workqueue' = Append(m_workqueue, fd)
    <3>1. m_workqueue \in Seq(Fds)
      BY DEF TypeOK
    <3>2. ASSUME NEW f \in open \ stale PROVE TurnOf(f)'
      <4>1. TurnOf(f)
        BY DEF TurnInv, TurnExclusive, TurnOf
      <4>2. InBatch(f)' => InBatch(f) /\ f # fd
        BY <2>1 DEF InBatch, TimerInv, OneEvent
      <4>3. CASE f = fd
        <5>1. InBatch(f)
          BY <2>1, <4>3 DEF InBatch
        <5>2. ~InQueue(f) /\ ~AtWorker(f) /\ interest[f] = "off"
          BY <4>1, <5>1 DEF TurnOf, InUse
        <5> QED
          BY <2>2, <2>4, <3>1, <4>1, <4>2, <4>3, <5>2 DEF TurnOf, InUse, InQueue, AtWorker
      <4>4. CASE f # fd
        BY <2>2, <2>4, <3>1, <4>1, <4>2, <4>4 DEF TurnOf, InUse, InQueue, AtWorker
      <4> QED
        BY <4>3, <4>4
    <3>3. TurnExclusive'
      BY <2>2, <3>2 DEF TurnExclusive, TurnOf
    <3> QED
      BY <2>2, <3>3 DEF TurnInv, OwnSlot, BusyNamed
  <2> QED
    BY <1>6, <2>3, <2>4 DEF HandleRead
<1>7. ASSUME NEW fd \in Fds, HandleWrite(fd) \/ HandleWriteAgain(fd) PROVE TurnInv'
  <2>1. PICK e \in batch : e[1] = fd /\ batch' = batch \ {e}
    BY <1>7 DEF HandleWrite, HandleWriteAgain, Consume
  <2>2. UNCHANGED <<open, stale, m_workqueue, wpc, wfd, m_sockfd>>
    BY <1>7 DEF HandleWrite, HandleWriteAgain
  <2>3. PICK ev \in Interests : modfd(m_sockfd[fd], ev)
    BY <1>7 DEF HandleWrite, HandleWriteAgain, Interests
  <2>4. TurnExclusive'
    BY <2>1, <2>2, <2>3, TurnBack DEF TurnInv, TimerInv
  <2> QED
    BY <2>2, <2>4 DEF TurnInv, OwnSlot, BusyNamed
<1>8. CASE LoopEnd
  <2>1. UNCHANGED <<stale, batch, m_workqueue, wpc, wfd, m_sockfd>>
    BY <1>8 DEF LoopEnd
  <2>2. open' \subseteq open /\ \A f \in open' : interest'[f] = interest[f]
    BY <1>8 DEF LoopEnd, tick, closeAll, TypeOK
  <2>3. TurnExclusive'
    BY <2>1, <2>2, TurnKept DEF TurnInv
  <2> QED
    BY <2>1, <2>3 DEF TurnInv, OwnSlot, BusyNamed
<1>9. ASSUME NEW w \in Workers, Take(w) PROVE TurnInv'
  <2>1. /\ wpc[w] = "idle" /\ m_workqueue # <<>> /\ m_workqueue \in Seq(Fds)
        /\ wfd' = [wfd EXCEPT ![w] = Head(m_workqueue)]
        /\ m_workqueue' = Tail(m_workqueue)
        /\ wpc' = [wpc EXCEPT ![w] = "parse"]
        /\ UNCHANGED <<open, interest, stale, batch, m_sockfd>>
    BY <1>9 DEF Take, TypeOK
  <2>2. wfd[w] = NoFd /\ Head(m_workqueue) \in Fds
    BY <2>1 DEF TurnInv, BusyNamed
  <2>3. BusyNamed'
    BY <2>1, <2>2 DEF TurnInv, BusyNamed, TypeOK
  <2>4. ASSUME NEW f \in open \ stale PROVE TurnOf(f)'
    <3>1. TurnOf(f) /\ f \in Fds
      BY DEF TurnInv, TurnExclusive, TurnOf, TypeOK
    <3>2. \A i \in DOMAIN m_workqueue' :
            i + 1 \in DOMAIN m_workqueue /\ m_workqueue'[i] = m_workqueue[i + 1]
      BY <2>1
    <3>3. InQueue(f)' => InQueue(f)
      BY <3>2 DEF InQueue
    <3>4. \A i, j \in DOMAIN m_workqueue' :
            m_workqueue'[i] = f /\ m_workqueue'[j] = f => i = j
      <4> SUFFICES ASSUME NEW i \in DOMAIN m_workqueue', NEW j \in DOMAIN m_workqueue',
                          m_workqueue'[i] = f, m_workqueue'[j] = f
                   PROVE  i = j
        OBVIOUS
      <4>1. i + 1 = j + 1
        BY <3>1, <3>2 DEF TurnOf
      <4>2. i \in Nat /\ j \in Nat
        BY <2>1
      <4> QED
        BY <4>1, <4>2
    <3>5. CASE f = Head(m_workqueue)
      <4>1. 1 \in DOMAIN m_workqueue /\ m_workqueue[1] = f
        BY <2>1, <3>5
      <4>2. InQueue(f)
        BY <4>1 DEF InQueue
      <4>3. interest[f] = "off" /\ ~InBatch(f) /\ ~AtWorker(f)
        BY <3>1, <4>2 DEF TurnOf, InUse
      <4>4. \A i \in DOMAIN m_workqueue' : m_workqueue'[i] # f
        <5> SUFFICES ASSUME NEW i \in DOMAIN m_workqueue', m_workqueue'[i] = f PROVE FALSE
          OBVIOUS
        <5>1. i + 1 = 1
          BY <3>1, <3>2, <4>1 DEF TurnOf
        <5>2. i \in Nat /\ i >= 1
          BY <2>1
        <5> QED
          BY <5>1, <5>2
      <4>5. \A v \in Workers : wfd[v] # f
        BY <3>1, <4>3 DEF AtWorker, TurnInv, BusyNamed
      <4>6. ~InQueue(f)' /\ ~InBatch(f)'
        BY <2>1, <4>3, <4>4 DEF InQueue, InBatch
      <4>7. \A u, v \in Workers : wfd'[u] = f /\ wfd'[v] = f => u = v
        BY <2>1, <4>5 DEF TypeOK
      <4> QED
        BY <2>1, <3>4, <4>3, <4>6, <4>7 DEF TurnOf
    <3>6. CASE f # Head(m_workqueue)
      <4>1. AtWorker(f)' => AtWorker(f)
        BY <2>1, <3>6 DEF AtWorker, TypeOK
      <4>2. InBatch(f)' <=> InBatch(f)
        BY <2>1 DEF InBatch
      <4>3. \A u, v \in Workers : wfd'[u] = f /\ wfd'[v] = f => u = v
        BY <2>1, <3>1, <3>6 DEF TurnOf, TypeOK
      <4> QED
        BY <2>1, <3>1, <3>3, <3>4, <4>1, <4>2, <4>3 DEF TurnOf, InUse
    <3> QED
      BY <3>5, <3>6
  <2>5. TurnExclusive'
    BY <2>1, <2>4 DEF TurnExclusive, TurnOf
  <2> QED
    BY <2>1, <2>3, <2>5 DEF TurnInv, OwnSlot
<1>10. ASSUME NEW w \in Workers, ProcessRead(w) \/ ProcessWrite(w) \/ Uncount(w) PROVE TurnInv'
  <2>1. UNCHANGED <<open, interest, stale, batch, m_workqueue, wfd, m_sockfd>>
    BY <1>10 DEF ProcessRead, ProcessWrite, Uncount
  <2>2. \A v \in Workers : wpc'[v] = "idle" <=> wpc[v] = "idle"
    BY <1>10 DEF ProcessRead, ProcessWrite, Uncount, TypeOK
  <2>3. TurnExclusive'
    BY <2>1, <2>2, TurnKept DEF TurnInv
  <2> QED
    BY <2>1, <2>2, <2>3 DEF TurnInv, OwnSlot, BusyNamed
<1>11. ASSUME NEW w \in Workers, CloseConn(w) \/ ForgetConn(w) PROVE TurnInv'
  <2>1. /\ UNCHANGED <<stale, batch, m_workqueue, wfd>>
        /\ m_sockfd' = m_sockfd \/ m_sockfd' = [m_sockfd EXCEPT ![wfd[w]] = NoFd]
    BY <1>11 DEF CloseConn, ForgetConn, slots
  <2>2. \A v \in Workers : wpc'[v] = "idle" <=> wpc[v] = "idle"
    BY <1>11 DEF CloseConn, ForgetConn, TypeOK
  <2>3. open' \subseteq open /\ \A f \in open' : interest'[f] = interest[f]
    BY <1>11 DEF CloseConn, ForgetConn, closeAll, kernel, TypeOK
  <2>4. TurnExclusive'
    BY <2>1, <2>2, <2>3, TurnKept DEF TurnInv
  <2>5. OwnSlot'
    BY <2>1 DEF TurnInv, OwnSlot, TypeOK
  <2> QED
    BY <2>1, <2>2, <2>4, <2>5 DEF TurnInv, BusyNamed
<1>12. ASSUME NEW w \in Workers, Rearm(w) PROVE TurnInv'
  <2>1. /\ UNCHANGED <<open, stale, batch, m_workqueue, m_sockfd>>
        /\ wpc' = [wpc EXCEPT ![w] = "idle"] /\ wfd' = [wfd EXCEPT ![w] = NoFd]
        /\ wpc[w] = "rearm"
    BY <1>12 DEF Rearm
  <2>2. wfd[w] \in Fds
    BY <2>1 DEF TurnInv, BusyNamed, TypeOK
  <2>3. \A f \in Fds : f # wfd[w] => interest'[f] = interest[f]
    BY <1>12, <2>2 DEF Rearm, modfd, TurnInv, OwnSlot, TypeOK
  <2>4. ASSUME NEW f \in open \ stale PROVE TurnOf(f)'
    <3>1. TurnOf(f) /\ f \in Fds
      BY DEF TurnInv, TurnExclusive, TurnOf, TypeOK
    <3>2. \A v \in Workers : wfd'[v] = f => wfd[v] = f /\ v # w
      BY <2>1, <3>1 DEF TypeOK
    <3>3. \A v \in Workers : wpc'[v] # "idle" => wpc[v] # "idle"
      BY <2>1 DEF TypeOK
    <3>4. CASE f = wfd[w]
      <4>1. AtWorker(f)
        BY <2>1, <3>4 DEF AtWorker
      <4>2. ~InBatch(f) /\ ~InQueue(f)
        BY <3>1, <4>1 DEF TurnOf
      <4>3. \A v \in Workers : wfd'[v] # f
        BY <3>1, <3>2, <3>4 DEF TurnOf
      <4>4. ~InBatch(f)' /\ ~InQueue(f)' /\ ~AtWorker(f)'
        BY <2>1, <4>2, <4>3 DEF InBatch, InQueue, AtWorker
      <4> QED
        BY <2>1, <3>1, <4>3, <4>4 DEF TurnOf, InUse
    <3>5. CASE f # wfd[w]
      BY <2>1, <2>3, <3>1, <3>2, <3>3, <3>5 DEF TurnOf, InUse, InBatch, InQueue, AtWorker
    <3> QED
      BY <3>4, <3>5
  <2>5. TurnExclusive'
    BY <2>1, <2>4 DEF TurnExclusive, TurnOf
  <2>6. BusyNamed'
    BY <2>1 DEF TurnInv, BusyNamed, TypeOK
  <2> QED
    BY <2>1, <2>5, <2>6 DEF TurnInv, OwnSlot
<1>13. CASE Environment \/ UNCHANGED vars
  <2>1. UNCHANGED <<open, interest, stale, batch, m_workqueue, wpc, wfd, m_sockfd>>
    BY <1>13 DEF Environment, Connect, Elapse, SigTerm, ClientSend, ClientClose, vars
  <2>2. TurnExclusive'
    BY <2>1, TurnKept DEF TurnInv
  <2> QED
    BY <2>1, <2>2 DEF TurnInv, OwnSlot, BusyNamed
<1> QED
  BY <1>1, <1>2, <1>3, <1>4, <1>5, <1>6, <1>7, <1>8, <1>9, <1>10, <1>11, <1>12, <1>13
  DEF Next, MainStep, HandleEvent, WorkerStep, Stopped

(* EPOLLONESHOT at work: a connection that was accepted while nobody held  *)
(* an old turn of its descriptor is handled by one thread at a time.       *)
THEOREM TurnsExclusive == Spec => []TurnExclusive
<1>1. Init => TypeOK /\ TimerInv /\ TurnInv
  BY TypeInit, FdAssumption
  DEF Init, TimerInv, Registered, Accepting, OneEvent, TimerOwned, EventHasTimer,
      TurnInv, OwnSlot, BusyNamed, TurnExclusive
<1>2. TypeOK /\ TimerInv /\ TurnInv /\ [Next]_vars => (TypeOK /\ TimerInv /\ TurnInv)'
  BY TypeStep, TimerStep, TurnStep
<1>3. TypeOK /\ TimerInv /\ TurnInv => TurnExclusive
  BY DEF TurnInv
<1> QED
  BY <1>1, <1>2, <1>3, PTL DEF Spec

----------------------------------------------------------------------------
(* Why no client is stranded.  The edge is spent by a batch that reports   *)
(* the listening socket, the report by an accept loop, and the loop ends   *)
(* only where the backlog is empty or where it is cut short.               *)
EdgeInv ==
  /\ phase \in {"wait", "stopped"} => batch = {}
  /\ ListenET /\ backlog > 0 =>
       edge \/ cut \/ <<ListenFd, "in">> \in batch \/ phase \in {"accept", "init"}

LEMMA EdgeStep == TypeOK /\ EdgeInv /\ [Next]_vars => EdgeInv'
<1> SUFFICES ASSUME TypeOK, EdgeInv, [Next]_vars PROVE EdgeInv'
  OBVIOUS
<1> USE FdAssumption DEF kernel, arrival, signals, slots, timers, main, pool
<1>t. backlog \in Nat /\ phase \in Phases
  BY DEF TypeOK
<1>0. ASSUME UNCHANGED <<edge, cut, batch, phase, backlog>> PROVE EdgeInv'
  BY <1>0 DEF EdgeInv
<1>1. CASE EpollWait
  BY <1>1 DEF EpollWait, EdgeInv
<1>2. CASE HandleListen
  BY <1>2 DEF HandleListen, EdgeInv, Consume
<1>3. CASE AcceptFails \/ AcceptRefused
  <2>1. cut' = (backlog' > 0) /\ phase' = "dispatch"
    BY <1>3 DEF AcceptFails, AcceptRefused
  <2> QED
    BY <2>1 DEF EdgeInv
<1>4. CASE AcceptOne
  BY <1>4 DEF AcceptOne, EdgeInv
<1>5. CASE InitConn
  BY <1>5 DEF InitConn, EdgeInv
<1>6. CASE HandleSignal
  BY <1>6 DEF HandleSignal, Consume, EdgeInv
<1>7. ASSUME NEW fd \in Fds, HandleEvent(fd) PROVE EdgeInv'
  <2>1. PICK k \in {"hup", "in", "out"} : Consume(<<fd, k>>)
    BY <1>7 DEF HandleEvent, HandleHup, HandleRead, HandleReadFails, HandleWrite,
                HandleWriteAgain, HandleWriteEnds
  <2>2. UNCHANGED <<edge, cut, phase, backlog>>
    BY <1>7 DEF HandleEvent, HandleHup, HandleRead, HandleReadFails, HandleWrite,
                HandleWriteAgain, HandleWriteEnds
  <2> QED
    BY <2>1, <2>2 DEF Consume, EdgeInv
<1>8. CASE LoopEnd
  BY <1>8 DEF LoopEnd, EdgeInv
<1>9. ASSUME NEW w \in Workers, WorkerStep(w) PROVE EdgeInv'
  BY <1>9, <1>0 DEF WorkerStep, Take, ProcessRead, ProcessWrite, CloseConn, ForgetConn,
                    Uncount, Rearm
<1>10. CASE Connect
  BY <1>10 DEF Connect, EdgeInv
<1>11. CASE Elapse \/ SigTerm \/ \E fd \in Fds : ClientSend(fd) \/ ClientClose(fd)
  BY <1>11, <1>0 DEF Elapse, SigTerm, ClientSend, ClientClose
<1>12. CASE UNCHANGED vars
  BY <1>12, <1>0 DEF vars
<1> QED
  BY <1>1, <1>2, <1>3, <1>4, <1>5, <1>6, <1>7, <1>8, <1>9, <1>10, <1>11, <1>12
  DEF Next, MainStep, Environment, Stopped

(* Edge-triggered accept: main never sleeps on a client that waits without *)
(* an edge to wake it unless its last accept loop was left early - for any *)
(* number of clients, descriptors and workers, whatever MAX_FD and however *)
(* the clients' arrivals fall between the steps of the loop.               *)
THEOREM NobodyStranded == Spec => []NoClientStranded
<1>1. Init => EdgeInv
  BY DEF Init, EdgeInv
<1>2. TypeOK /\ EdgeInv /\ [Next]_vars => EdgeInv'
  BY EdgeStep
<1>3. EdgeInv => NoClientStranded
  BY DEF EdgeInv, NoClientStranded
<1> QED
  BY <1>1, <1>2, <1>3, TypeCorrect, PTL DEF Spec
=============================================================================
