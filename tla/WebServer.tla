----------------------------- MODULE WebServer -----------------------------
(***************************************************************************)
(* The running server in the event mode main.cpp selects (actor_model 0):  *)
(* the main thread's epoll loop, the worker threads, the timer list and    *)
(* the part of the kernel they talk to.                                    *)
(*                                                                         *)
(* A client socket is registered with EPOLLONESHOT.  Whoever holds the     *)
(* "turn" of a connection - epoll, the batch epoll_wait returned, the work *)
(* queue, a worker - is meant to be alone in using users[fd]; modfd gives  *)
(* the turn back to epoll.  Closing a connection goes around that protocol *)
(* (tick and close_conn close a descriptor whoever has the turn), and      *)
(* descriptors are reused: this is what the module is about.               *)
(*                                                                         *)
(* Abstractions.  The bytes of a request are one bit (`fresh': users[fd]   *)
(* holds bytes process_read has not parsed), the bytes of a response one   *)
(* bit (bytes_to_send # 0).  Time is counted in TIMESLOTs left before a    *)
(* timer expires.  The timer list is the set of its nodes.  A mutex        *)
(* section is one step.                                                    *)
(***************************************************************************)
EXTENDS Integers, Sequences, FiniteSets

CONSTANTS
  Fds,          (* descriptors the kernel can give to client sockets       *)
  ListenFd,     (* m_listenfd                                              *)
  PipeFd,       (* m_pipefd[0]: the signals arrive here                    *)
  Workers,      (* threads of the pool                                     *)
  Timers,       (* addresses a util_timer can have                         *)
  Unused(_),    (* those `new util_timer' may return while others are live *)
  NoFd,         (* -1                                                      *)
  Limits,       (* values of MAX_FD to look at                             *)
  MAX_EVENT_NUMBER, (* most events one epoll_wait returns                  *)
  MaxRequests,  (* m_max_requests                                          *)
  Expiry,       (* TIMESLOTs of inactivity a connection is granted         *)
  ListenET,     (* m_LISTENTrigmode = 1                                    *)
  ConnET,       (* m_CONNTrigmode = 1                                      *)
  MaxConnects,  (* bound: clients that ever connect                        *)
  MayTerminate  (* SIGTERM may come                                        *)

ASSUME FdAssumption ==
  /\ IsFiniteSet(Fds) /\ NoFd \notin Fds /\ ListenFd \notin Fds /\ PipeFd \notin Fds
  /\ ListenFd # PipeFd
ASSUME LimitAssumption ==
  /\ Limits \subseteq Nat /\ MAX_EVENT_NUMBER \in Nat \ {0} /\ MaxRequests \in Nat \ {0}
  /\ Expiry \in Nat \ {0} /\ MaxConnects \in Nat
  /\ ListenET \in BOOLEAN /\ ConnET \in BOOLEAN /\ MayTerminate \in BOOLEAN
ASSUME AllocatorAssumption == \A T \in SUBSET Timers : Unused(T) \subseteq Timers \ T

VARIABLES
  MAX_FD,       (* most clients dealclientdata admits; never changes       *)
  (* the kernel *)
  open,         (* client descriptors that are open                        *)
  interest,     (* fd -> what its epoll registration waits for             *)
  input,        (* fd -> bytes wait in the socket's receive buffer         *)
  hup,          (* fd -> the peer closed its end                           *)
  backlog,      (* connections waiting for accept()                        *)
  edge,         (* the listening socket has an edge to report              *)
  connects,     (* how many clients have connected                         *)
  sigs,         (* signals written to the pipe and not read yet            *)
  alarm,        (* alarm(TIMESLOT) is set                                  *)
  (* the http_conn objects and the timers *)
  m_sockfd,     (* users[fd].m_sockfd                                      *)
  fresh,        (* users[fd] holds bytes not yet parsed                    *)
  bytes_to_send,(* users[fd].bytes_to_send # 0                             *)
  m_user_count,
  timer,        (* users_timer[fd].timer                                   *)
  owner,        (* timer -> the fd of its user_data; NoFd: not allocated   *)
  left,         (* timer -> TIMESLOTs before it expires                    *)
  (* the main thread *)
  phase, batch, connfd, loaded, timeout, stop_server,
  (* the thread pool *)
  m_workqueue,
  wpc, wfd, wret, wloaded,
  (* history: read by properties, by no action *)
  stale,        (* fds accepted again while someone still had their turn   *)
  cut           (* the last accept() loop was left with clients waiting    *)

kernel  == <<open, interest, input, hup>>
arrival == <<MAX_FD, backlog, edge, connects, cut>>
signals == <<sigs, alarm>>
slots   == <<m_sockfd, fresh, bytes_to_send>>
timers  == <<timer, owner, left>>
main    == <<phase, batch, connfd, loaded, timeout, stop_server>>
pool    == <<m_workqueue, wpc, wfd, wret, wloaded>>
vars    == <<kernel, arrival, signals, slots, m_user_count, timers, main, pool, stale>>

Interests == {"none", "off", "in", "out"}
Events    == (Fds \X {"hup", "in", "out"}) \cup {<<ListenFd, "in">>, <<PipeFd, "in">>}
Phases    == {"wait", "dispatch", "accept", "init", "stopped"}
WorkerPcs == {"idle", "parse", "fill", "forget", "uncount", "rearm"}
Verdicts  == {"more", "respond", "drop"}

Live == {t \in Timers : owner[t] # NoFd}

(* Who has the turn of fd, apart from epoll itself. *)
InBatch(fd)  == \E e \in batch : e[1] = fd
InQueue(fd)  == \E i \in DOMAIN m_workqueue : m_workqueue[i] = fd
AtWorker(fd) == \E w \in Workers : wpc[w] # "idle" /\ wfd[w] = fd
InUse(fd)    == InBatch(fd) \/ InQueue(fd) \/ AtWorker(fd)

----------------------------------------------------------------------------
(* epoll_ctl(MOD): fails without effect on a descriptor that is not registered. *)
modfd(fd, ev) ==
  interest' = IF fd \in Fds /\ interest[fd] # "none"
              THEN [interest EXCEPT ![fd] = ev] ELSE interest

(* epoll_ctl(DEL) and close() of each descriptor in S: cb_func, removefd. *)
closeAll(S) ==
  /\ open' = open \ S
  /\ interest' = [fd \in Fds |-> IF fd \in S THEN "none" ELSE interest[fd]]
  /\ input' = [fd \in Fds |-> fd \notin S /\ input[fd]]
  /\ hup' = [fd \in Fds |-> fd \notin S /\ hup[fd]]

(* sort_timer_lst: delete the nodes in S. *)
delTimers(S) ==
  /\ owner' = [t \in Timers |-> IF t \in S THEN NoFd ELSE owner[t]]
  /\ left' = [t \in Timers |-> IF t \in S THEN 0 ELSE left[t]]

(* Mutant: the new expiry is one TIMESLOT too far. *)
adjust_timer_late(t) ==
  /\ left' = IF t \in Live THEN [left EXCEPT ![t] = Expiry + 1] ELSE left
  /\ UNCHANGED <<timer, owner>>

adjust_timer(t) ==
  /\ left' = IF t \in Live THEN [left EXCEPT ![t] = Expiry] ELSE left
  /\ UNCHANGED <<timer, owner>>

(* Mutant: the node is deleted, the callback not called. *)
deal_timer_keeps_socket(fd) ==
  /\ UNCHANGED <<kernel, timer>>
  /\ delTimers({timer[fd]})

(* The callback closes the socket, then the timer's node is deleted.  The  *)
(* pointer in users_timer[fd] keeps its value, and m_user_count is kept.   *)
deal_timer(fd) ==
  /\ closeAll({fd})
  /\ delTimers({timer[fd]})
  /\ UNCHANGED timer

(* Mutant: expired nodes are deleted, their callbacks not called. *)
tick_keeps_sockets ==
  /\ UNCHANGED <<kernel, timer>>
  /\ delTimers({t \in Live : left[t] = 0})

(* tick(): every expired timer runs its callback and is deleted. *)
Expired == {t \in Live : left[t] = 0}
tick ==
  /\ closeAll({owner[t] : t \in Expired})
  /\ delTimers(Expired)
  /\ UNCHANGED timer

(* The private init(): a fresh request on the same connection. *)
resetSlot(fd) ==
  /\ fresh' = [fresh EXCEPT ![fd] = FALSE]
  /\ bytes_to_send' = [bytes_to_send EXCEPT ![fd] = FALSE]

----------------------------------------------------------------------------
(* What epoll_wait has to report.  A socket may or may not be writable.    *)
Pending ==
  {<<fd, "hup">> : fd \in {f \in Fds : interest[f] \in {"in", "out"} /\ hup[f]}}
  \cup {<<fd, "in">> : fd \in {f \in Fds : interest[f] = "in" /\ input[f] /\ ~hup[f]}}
  \cup {e \in {<<ListenFd, "in">>} : IF ListenET THEN edge ELSE backlog > 0}
  \cup {e \in {<<PipeFd, "in">>} : sigs # {}}
Writable == {<<fd, "out">> : fd \in {f \in Fds : interest[f] = "out" /\ ~hup[f]}}

(* What one epoll_wait returns: everything pending, unless that is more    *)
(* than MAX_EVENT_NUMBER; which events then wait for the next call is open. *)
Reported(B) ==
  /\ B # {} /\ Cardinality(B) <= MAX_EVENT_NUMBER
  /\ Pending \subseteq B \/ Cardinality(B) = MAX_EVENT_NUMBER

(* Mutant: client sockets are registered without EPOLLONESHOT. *)
EpollWait_no_oneshot ==
  /\ phase = "wait"
  /\ \E B \in SUBSET (Pending \cup Writable) :
       /\ Reported(B)
       /\ batch' = B
       /\ edge' = (edge /\ <<ListenFd, "in">> \notin B)
  /\ phase' = "dispatch"
  /\ UNCHANGED <<MAX_FD, kernel, backlog, connects, cut, signals, slots, m_user_count, timers,
                 connfd, loaded, timeout, stop_server, pool, stale>>

(* A client socket that is reported is disarmed (EPOLLONESHOT), the edge   *)
(* of the listening socket is used up.  An interrupted epoll_wait is only  *)
(* called again; its other errors need an argument event_loop never passes. *)
EpollWait ==
  /\ phase = "wait"
  /\ \E B \in SUBSET (Pending \cup Writable) :
       /\ Reported(B)
       /\ batch' = B
       /\ edge' = (edge /\ <<ListenFd, "in">> \notin B)
       /\ interest' = [fd \in Fds |-> IF \E e \in B : e[1] = fd THEN "off" ELSE interest[fd]]
  /\ phase' = "dispatch"
  /\ UNCHANGED <<MAX_FD, open, input, hup, backlog, connects, cut, signals, slots,
                 m_user_count, timers, connfd, loaded, timeout, stop_server, pool, stale>>

(* The loop over events[] takes up the event e. *)
Consume(e) ==
  /\ phase = "dispatch" /\ e \in batch
  /\ batch' = batch \ {e}
  /\ UNCHANGED <<connfd, loaded>>

HandleListen ==
  /\ Consume(<<ListenFd, "in">>)
  /\ phase' = "accept" /\ cut' = FALSE
  /\ UNCHANGED <<MAX_FD, kernel, backlog, edge, connects, signals, slots, m_user_count, timers,
                 timeout, stop_server, pool, stale>>

(* dealclientdata: accept() fails and the loop is left - nobody waits, no  *)
(* descriptor or memory is free, a signal came (EMFILE, ENOMEM, EINTR: the *)
(* clients keep waiting), or the client is gone (ECONNABORTED: one less).  *)
AcceptFails ==
  /\ phase = "accept"
  /\ backlog' \in {backlog, backlog - 1} \cap Nat
  /\ cut' = (backlog' > 0)
  /\ phase' = "dispatch"
  /\ UNCHANGED <<MAX_FD, kernel, edge, connects, signals, slots, m_user_count, timers,
                 batch, connfd, loaded, timeout, stop_server, pool, stale>>

(* "Internal server busy": show_error closes the accepted socket and the   *)
(* accept loop is left, whatever waits behind this client.                 *)
AcceptRefused ==
  /\ phase = "accept"
  /\ backlog > 0 /\ ~(Fds \subseteq open)
  /\ m_user_count >= MAX_FD
  /\ backlog' = backlog - 1 /\ cut' = (backlog' > 0)
  /\ phase' = "dispatch"
  /\ UNCHANGED <<MAX_FD, kernel, edge, connects, signals, slots, m_user_count, timers,
                 batch, connfd, loaded, timeout, stop_server, pool, stale>>

(* accept() succeeds and http_conn::init runs up to the read of            *)
(* m_user_count in m_user_count++.                                         *)
AcceptOne ==
  /\ phase = "accept"
  /\ backlog > 0
  /\ m_user_count < MAX_FD
  /\ \E fd \in Fds \ open :
       /\ open' = open \cup {fd}
       /\ interest' = [interest EXCEPT ![fd] = "in"]
       /\ m_sockfd' = [m_sockfd EXCEPT ![fd] = fd]
       /\ connfd' = fd
       /\ stale' = IF InUse(fd) THEN stale \cup {fd} ELSE stale \ {fd}
  /\ backlog' = backlog - 1
  /\ loaded' = m_user_count
  /\ phase' = "init"
  /\ UNCHANGED <<MAX_FD, input, hup, edge, connects, cut, signals, fresh, bytes_to_send,
                 m_user_count, timers, batch, timeout, stop_server, pool>>

(* Mutant: one accept() per report, although the socket is edge-triggered. *)
InitConn_one_accept ==
  /\ phase = "init"
  /\ m_user_count' = loaded + 1
  /\ resetSlot(connfd)
  /\ \E t \in Unused(Live) :
       /\ owner' = [owner EXCEPT ![t] = connfd]
       /\ left' = [left EXCEPT ![t] = Expiry]
       /\ timer' = [timer EXCEPT ![connfd] = t]
  /\ phase' = "dispatch"
  /\ connfd' = NoFd /\ loaded' = 0
  /\ UNCHANGED <<kernel, arrival, signals, m_sockfd, batch, timeout, stop_server, pool, stale>>

(* The write of m_user_count++, the private init(), and the new timer. *)
InitConn ==
  /\ phase = "init"
  /\ m_user_count' = loaded + 1
  /\ resetSlot(connfd)
  /\ \E t \in Unused(Live) :
       /\ owner' = [owner EXCEPT ![t] = connfd]
       /\ left' = [left EXCEPT ![t] = Expiry]
       /\ timer' = [timer EXCEPT ![connfd] = t]
  /\ phase' = IF ListenET THEN "accept" ELSE "dispatch"
  /\ connfd' = NoFd /\ loaded' = 0
  /\ UNCHANGED <<kernel, arrival, signals, m_sockfd, batch, timeout, stop_server, pool, stale>>

HandleHup(fd) ==
  /\ Consume(<<fd, "hup">>)
  /\ deal_timer(fd)
  /\ UNCHANGED <<phase, arrival, signals, slots, m_user_count, timeout, stop_server, pool, stale>>

(* Mutant: the timers run at once, not after the batch. *)
HandleSignal_ticks ==
  /\ Consume(<<PipeFd, "in">>)
  /\ stop_server' = (stop_server \/ "TERM" \in sigs)
  /\ sigs' = {}
  /\ IF "ALRM" \in sigs
     THEN tick /\ alarm' = TRUE ELSE UNCHANGED <<kernel, timers, alarm>>
  /\ UNCHANGED <<phase, arrival, slots, m_user_count, timeout, pool, stale>>

HandleSignal ==
  /\ Consume(<<PipeFd, "in">>)
  /\ timeout' = (timeout \/ "ALRM" \in sigs)
  /\ stop_server' = (stop_server \/ "TERM" \in sigs)
  /\ sigs' = {}
  /\ UNCHANGED <<phase, kernel, arrival, alarm, slots, m_user_count, timers, pool, stale>>

(* read_once() returns true: in LT mode recv() returned, in ET mode the    *)
(* socket is drained and the peer has not closed.                          *)
ReadOk(fd) ==
  /\ m_sockfd[fd] \in open
  /\ IF ConnET THEN ~hup[fd] ELSE input[fd] \/ hup[fd]

(* dealwithread, the request read.  What append() returns is not looked at. *)
HandleRead(fd) ==
  /\ Consume(<<fd, "in">>)
  /\ ReadOk(fd)
  /\ fresh' = [fresh EXCEPT ![fd] = @ \/ input[fd]]
  /\ input' = [input EXCEPT ![fd] = FALSE]
  /\ m_workqueue' = IF Len(m_workqueue) > MaxRequests
                    THEN m_workqueue ELSE Append(m_workqueue, fd)
  /\ adjust_timer(timer[fd])
  /\ UNCHANGED <<phase, open, interest, hup, arrival, signals, m_sockfd, bytes_to_send,
                 m_user_count, timeout, stop_server, wpc, wfd, wret, wloaded, stale>>

(* dealwithread, read_once() failed: recv() did, after the bytes that were *)
(* there in ET mode, or m_read_buf is full.                                *)
HandleReadFails(fd) ==
  /\ Consume(<<fd, "in">>)
  /\ ~ReadOk(fd) \/ input[fd]
  /\ deal_timer(fd)
  /\ \/ UNCHANGED fresh
     \/ /\ ConnET /\ input[fd] /\ m_sockfd[fd] \in open
        /\ fresh' = [fresh EXCEPT ![fd] = TRUE]
  /\ UNCHANGED <<phase, arrival, signals, m_sockfd, bytes_to_send, m_user_count,
                 timeout, stop_server, pool, stale>>

(* dealwithwrite: write() is done with the response and the connection is  *)
(* kept (or there was nothing to send), ...                                *)
HandleWrite(fd) ==
  /\ Consume(<<fd, "out">>)
  /\ ~bytes_to_send[fd] \/ m_sockfd[fd] \in open
  /\ modfd(m_sockfd[fd], "in")
  /\ resetSlot(fd)
  /\ adjust_timer(timer[fd])
  /\ UNCHANGED <<phase, open, input, hup, arrival, signals, m_sockfd, m_user_count,
                 timeout, stop_server, pool, stale>>

(* ... the socket buffer filled up (EAGAIN), ... *)
HandleWriteAgain(fd) ==
  /\ Consume(<<fd, "out">>)
  /\ bytes_to_send[fd] /\ m_sockfd[fd] \in open
  /\ modfd(m_sockfd[fd], "out")
  /\ adjust_timer(timer[fd])
  /\ UNCHANGED <<phase, open, input, hup, arrival, signals, slots, m_user_count,
                 timeout, stop_server, pool, stale>>

(* ... or the response is sent and the connection not kept alive, or       *)
(* writev() failed: write() returns false.                                 *)
HandleWriteEnds(fd) ==
  /\ Consume(<<fd, "out">>)
  /\ bytes_to_send[fd]
  /\ deal_timer(fd)
  /\ \/ /\ m_sockfd[fd] \in open
        /\ bytes_to_send' = [bytes_to_send EXCEPT ![fd] = FALSE]
     \/ UNCHANGED bytes_to_send
  /\ UNCHANGED <<phase, arrival, signals, m_sockfd, fresh, m_user_count,
                 timeout, stop_server, pool, stale>>

(* Mutant: the alarm is not set again. *)
LoopEnd_no_alarm ==
  /\ phase = "dispatch" /\ batch = {}
  /\ IF timeout THEN tick ELSE UNCHANGED <<kernel, timers>>
  /\ timeout' = FALSE
  /\ phase' = IF stop_server THEN "stopped" ELSE "wait"
  /\ UNCHANGED <<arrival, signals, slots, m_user_count, batch, connfd, loaded, stop_server,
                 pool, stale>>

(* The end of the loop over events[]; timer_handler sets the alarm again. *)
LoopEnd ==
  /\ phase = "dispatch" /\ batch = {}
  /\ IF timeout THEN tick /\ alarm' = TRUE ELSE UNCHANGED <<kernel, timers, alarm>>
  /\ timeout' = FALSE
  /\ phase' = IF stop_server THEN "stopped" ELSE "wait"
  /\ UNCHANGED <<arrival, sigs, slots, m_user_count, batch, connfd, loaded, stop_server,
                 pool, stale>>

----------------------------------------------------------------------------
(* threadpool::run takes the first request of the queue. *)
Take(w) ==
  /\ wpc[w] = "idle" /\ m_workqueue # <<>>
  /\ wfd' = [wfd EXCEPT ![w] = Head(m_workqueue)]
  /\ m_workqueue' = Tail(m_workqueue)
  /\ wpc' = [wpc EXCEPT ![w] = "parse"]
  /\ UNCHANGED <<kernel, arrival, signals, slots, m_user_count, timers, main,
                 wret, wloaded, stale>>

(* process_read(): bytes parsed before do not complete a request.  "drop"  *)
(* stands for the results process_write answers with false (NO_RESOURCE,   *)
(* an empty file).                                                         *)
ProcessRead(w) ==
  /\ wpc[w] = "parse"
  /\ \E v \in Verdicts :
       /\ ~fresh[wfd[w]] => v = "more"
       /\ wret' = [wret EXCEPT ![w] = v]
       /\ wpc' = [wpc EXCEPT ![w] = IF v = "more" THEN "rearm" ELSE "fill"]
  /\ fresh' = [fresh EXCEPT ![wfd[w]] = FALSE]
  /\ UNCHANGED <<kernel, arrival, signals, m_sockfd, bytes_to_send, m_user_count, timers,
                 main, m_workqueue, wfd, wloaded, stale>>

(* process_write() prepares the response. *)
ProcessWrite(w) ==
  /\ wpc[w] = "fill" /\ wret[w] = "respond"
  /\ bytes_to_send' = [bytes_to_send EXCEPT ![wfd[w]] = TRUE]
  /\ wpc' = [wpc EXCEPT ![w] = "rearm"]
  /\ UNCHANGED <<kernel, arrival, signals, m_sockfd, fresh, m_user_count, timers, main,
                 m_workqueue, wfd, wret, wloaded, stale>>

(* process_write() returned false: close_conn() removes and closes the     *)
(* descriptor, ...                                                         *)
CloseConn(w) ==
  /\ wpc[w] = "fill" /\ wret[w] = "drop"
  /\ closeAll({m_sockfd[wfd[w]]} \ {NoFd})
  /\ wpc' = [wpc EXCEPT ![w] = IF m_sockfd[wfd[w]] = NoFd THEN "rearm" ELSE "forget"]
  /\ UNCHANGED <<arrival, signals, slots, m_user_count, timers, main,
                 m_workqueue, wfd, wret, wloaded, stale>>

(* ... sets m_sockfd to -1 - main may have accepted a new client on the    *)
(* descriptor and set m_sockfd meanwhile - and reads m_user_count for the  *)
(* m_user_count-- that is not atomic.                                      *)
ForgetConn(w) ==
  /\ wpc[w] = "forget"
  /\ m_sockfd' = [m_sockfd EXCEPT ![wfd[w]] = NoFd]
  /\ wloaded' = [wloaded EXCEPT ![w] = m_user_count]
  /\ wpc' = [wpc EXCEPT ![w] = "uncount"]
  /\ UNCHANGED <<kernel, arrival, signals, fresh, bytes_to_send, m_user_count, timers, main,
                 m_workqueue, wfd, wret, stale>>

Uncount(w) ==
  /\ wpc[w] = "uncount"
  /\ m_user_count' = wloaded[w] - 1
  /\ wpc' = [wpc EXCEPT ![w] = "rearm"]
  /\ UNCHANGED <<kernel, arrival, signals, slots, timers, main,
                 m_workqueue, wfd, wret, wloaded, stale>>

(* The modfd that ends process(), for reading or - after close_conn too -  *)
(* for writing.                                                            *)
Rearm(w) ==
  /\ wpc[w] = "rearm"
  /\ modfd(m_sockfd[wfd[w]], IF wret[w] = "more" THEN "in" ELSE "out")
  /\ wpc' = [wpc EXCEPT ![w] = "idle"]
  /\ wfd' = [wfd EXCEPT ![w] = NoFd]
  /\ wret' = [wret EXCEPT ![w] = "more"]
  /\ wloaded' = [wloaded EXCEPT ![w] = 0]
  /\ UNCHANGED <<open, input, hup, arrival, signals, slots, m_user_count, timers, main,
                 m_workqueue, stale>>

----------------------------------------------------------------------------
(* Clients, the clock and the operator. *)
Connect ==
  /\ connects < MaxConnects
  /\ connects' = connects + 1 /\ backlog' = backlog + 1 /\ edge' = TRUE
  /\ UNCHANGED <<MAX_FD, cut, kernel, signals, slots, m_user_count, timers, main, pool, stale>>

ClientSend(fd) ==
  /\ fd \in open /\ ~hup[fd] /\ ~input[fd]
  /\ input' = [input EXCEPT ![fd] = TRUE]
  /\ UNCHANGED <<open, interest, hup, arrival, signals, slots, m_user_count, timers,
                 main, pool, stale>>

ClientClose(fd) ==
  /\ fd \in open /\ ~hup[fd]
  /\ hup' = [hup EXCEPT ![fd] = TRUE]
  /\ UNCHANGED <<open, interest, input, arrival, signals, slots, m_user_count, timers,
                 main, pool, stale>>

(* A TIMESLOT passes; a set alarm sends SIGALRM, whose handler writes to the pipe. *)
Elapse ==
  /\ alarm \/ \E t \in Live : left[t] > 0
  /\ left' = [t \in Timers |-> IF left[t] > 0 THEN left[t] - 1 ELSE 0]
  /\ sigs' = IF alarm THEN sigs \cup {"ALRM"} ELSE sigs
  /\ alarm' = FALSE
  /\ UNCHANGED <<kernel, arrival, slots, m_user_count, timer, owner, main, pool, stale>>

SigTerm ==
  /\ MayTerminate /\ ~stop_server /\ "TERM" \notin sigs
  /\ sigs' = sigs \cup {"TERM"}
  /\ UNCHANGED <<kernel, arrival, alarm, slots, m_user_count, timers, main, pool, stale>>

(* event_loop has returned. *)
Stopped == phase = "stopped" /\ UNCHANGED vars

----------------------------------------------------------------------------
Init ==
  /\ MAX_FD \in Limits
  /\ open = {} /\ interest = [fd \in Fds |-> "none"]
  /\ input = [fd \in Fds |-> FALSE] /\ hup = [fd \in Fds |-> FALSE]
  /\ backlog = 0 /\ edge = FALSE /\ connects = 0
  /\ sigs = {} /\ alarm = TRUE
  /\ m_sockfd = [fd \in Fds |-> NoFd]
  /\ fresh = [fd \in Fds |-> FALSE] /\ bytes_to_send = [fd \in Fds |-> FALSE]
  /\ m_user_count = 0
  /\ timer \in [Fds -> Timers]     (* uninitialised *)
  /\ owner = [t \in Timers |-> NoFd] /\ left = [t \in Timers |-> 0]
  /\ phase = "wait" /\ batch = {} /\ connfd = NoFd /\ loaded = 0
  /\ timeout = FALSE /\ stop_server = FALSE
  /\ m_workqueue = <<>>
  /\ wpc = [w \in Workers |-> "idle"] /\ wfd = [w \in Workers |-> NoFd]
  /\ wret = [w \in Workers |-> "more"] /\ wloaded = [w \in Workers |-> 0]
  /\ stale = {} /\ cut = FALSE

HandleEvent(fd) ==
  \/ HandleHup(fd) \/ HandleRead(fd) \/ HandleReadFails(fd)
  \/ HandleWrite(fd) \/ HandleWriteAgain(fd) \/ HandleWriteEnds(fd)
MainStep ==
  \/ EpollWait \/ HandleListen \/ AcceptFails \/ AcceptRefused \/ AcceptOne \/ InitConn
  \/ HandleSignal \/ (\E fd \in Fds : HandleEvent(fd)) \/ LoopEnd
WorkerStep(w) ==
  \/ Take(w) \/ ProcessRead(w) \/ ProcessWrite(w) \/ CloseConn(w) \/ ForgetConn(w)
  \/ Uncount(w) \/ Rearm(w)
Environment ==
  \/ Connect \/ Elapse \/ SigTerm
  \/ \E fd \in Fds : ClientSend(fd) \/ ClientClose(fd)
Next == MainStep \/ (\E w \in Workers : WorkerStep(w)) \/ Environment \/ Stopped

Spec == Init /\ [][Next]_vars

(* The scheduler runs every thread, the clock goes on, and a response is   *)
(* finite: a client that keeps reading it gets to its end.                 *)
Fairness ==
  /\ WF_vars(MainStep) /\ WF_vars(Elapse)
  /\ \A w \in Workers : WF_vars(WorkerStep(w))
  /\ \A fd \in Fds : SF_vars(HandleWrite(fd) \/ HandleWriteEnds(fd))
FairSpec == Spec /\ Fairness

----------------------------------------------------------------------------
TypeOK ==
  /\ MAX_FD \in Limits
  /\ open \subseteq Fds
  /\ interest \in [Fds -> Interests]
  /\ input \in [Fds -> BOOLEAN] /\ hup \in [Fds -> BOOLEAN]
  /\ backlog \in Nat /\ edge \in BOOLEAN /\ connects \in 0..MaxConnects
  /\ sigs \subseteq {"ALRM", "TERM"} /\ alarm \in BOOLEAN
  /\ m_sockfd \in [Fds -> Fds \cup {NoFd}]
  /\ fresh \in [Fds -> BOOLEAN] /\ bytes_to_send \in [Fds -> BOOLEAN]
  /\ m_user_count \in Int
  /\ timer \in [Fds -> Timers]
  /\ owner \in [Timers -> Fds \cup {NoFd}] /\ left \in [Timers -> 0..Expiry]
  /\ phase \in Phases /\ batch \subseteq Events
  /\ connfd \in Fds \cup {NoFd} /\ loaded \in Int
  /\ timeout \in BOOLEAN /\ stop_server \in BOOLEAN
  /\ m_workqueue \in Seq(Fds)
  /\ wpc \in [Workers -> WorkerPcs] /\ wfd \in [Workers -> Fds \cup {NoFd}]
  /\ wret \in [Workers -> Verdicts] /\ wloaded \in [Workers -> Int]
  /\ stale \subseteq Fds /\ cut \in BOOLEAN

(* An open connection always has a timer of its own: no leak, no socket that *)
(* outlives every timer (web_server.cpp timer(), deal_timer(), tick()).    *)
TimerOwned ==
  \A fd \in open : ~(phase = "init" /\ connfd = fd) => owner[timer[fd]] = fd

(* deal_timer and adjust_timer never touch a deleted node: whatever event  *)
(* is still to be handled, the node users_timer[fd] points to is alive and *)
(* belongs to that descriptor - even when a worker closed the socket after *)
(* epoll_wait returned, and when it was accepted again in the same batch.  *)
EventHasTimer ==
  \A e \in batch : e[1] \in Fds => owner[timer[e[1]]] = e[1]

(* EPOLLONESHOT: a connection accepted while nobody held an old turn of its *)
(* descriptor is in one place at a time - armed in epoll, in the batch, in *)
(* the work queue, or at one worker.                                       *)
TurnExclusive ==
  \A fd \in open \ stale :
    /\ interest[fd] # "off" => ~InUse(fd)
    /\ InBatch(fd) => ~InQueue(fd) /\ ~AtWorker(fd)
    /\ InQueue(fd) => ~AtWorker(fd)
    /\ \A i, j \in DOMAIN m_workqueue : m_workqueue[i] = fd /\ m_workqueue[j] = fd => i = j
    /\ \A w, v \in Workers : wfd[w] = fd /\ wfd[v] = fd => w = v

(* The chain of alarms is never broken: the next tick is always on its way *)
(* - the alarm is set, SIGALRM is in the pipe, or timeout is.  (SIGALRM    *)
(* comes once: only timer_handler calls alarm() again.)                    *)
TickComing ==
  phase # "stopped" => alarm \/ "ALRM" \in sigs \/ timeout

(* A connection on which nothing is read or written is closed in the end:  *)
(* again and again its timer is granted its full time, or it is not open.  *)
IdleReaped ==
  \A fd \in Fds : []<>(fd \notin open \/ left[timer[fd]] = Expiry \/ phase = "stopped")

(* What a client sends does not stay in the socket while its connection is *)
(* open, and what was read does not stay unparsed: no turn is lost, and the *)
(* timer ends what the work queue or a slow client leaves hanging.         *)
RequestSettles ==
  \A fd \in Fds :
    /\ []<>(~input[fd] \/ phase = "stopped")
    /\ []<>(fd \notin open \/ ~fresh[fd] \/ phase = "stopped")

(* Edge-triggered accept: main never sleeps on a waiting client without an *)
(* edge to wake it, however many connect while it accepts, unless its last *)
(* accept loop was cut short by a failing accept() or by the client it     *)
(* turned away (web_server.cpp:293, 299).                                  *)
NoClientStranded ==
  phase = "wait" /\ ListenET /\ backlog > 0 => edge \/ cut

(* lst_timer.cpp:168: the callback of a timer removes an inactive          *)
(* connection: tick closes no connection whose own timer has time left.    *)
OnlyInactiveClosed ==
  [][\A fd \in open : LoopEnd /\ fd \notin open' => left[timer[fd]] = 0]_vars

(* http_conn.cpp:91: closing a connection takes it off the client count -  *)
(* a client is turned away only when MAX_FD connections are open.          *)
BusyOnlyWhenFull ==
  phase = "accept" /\ backlog > 0 /\ m_user_count >= MAX_FD => Cardinality(open) >= MAX_FD
=============================================================================
