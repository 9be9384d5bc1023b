# A TLA+ model of webserver_2.0

The repository is a small HTTP server: one main thread with an epoll loop, a pool of worker
threads, a list of timers that closes idle connections, a pool of MySQL connections, and a log.
This directory models the parts in which order matters, checks them with TLC and proves what
matters most with TLAPS. Paths below are relative to `src/`.

## The system

| Component | State | Operations | Talks to |
|---|---|---|---|
| Event loop (`web_server.cpp`) | `users[]`, `users_timer[]`, `timeout`, `stop_server` | `event_loop`, `dealclientdata`, `dealwithsignal`, `dealwithread`, `dealwithwrite`, `timer`, `adjust_timer`, `deal_timer` | epoll, the thread pool (`append`), the timer list, `http_conn` objects |
| `http_conn` | socket, read buffer and parser state, response (`m_iv`, counters), `m_user_count` | `init`, `read_once`, `process` (= `process_read`, `process_write`, `modfd`), `write`, `close_conn` | epoll (re-arming), the `users` map, MySQL |
| Timer list (`timer/`) | doubly linked list of `util_timer` | `add_timer`, `adjust_timer`, `del_timer`, `tick`, `cb_func`; `alarm` and the signal pipe | closes descriptors behind everyone's back |
| Thread pool (`threadpool/`) | request list, mutex, semaphore, `m_stop` | `append`, `run`, destructor | main (producer), `http_conn::process` |
| SQL pool (`mysql/`) | connection list, mutex, semaphore, two counters | `init`, `GetConnection`, `ReleaseConnection`, `DestroyPool`, `connectionRAII` | every worker, around `process()` |
| Block queue (`blockqueue.h`) | circular array, mutex, condition variable | `push`, `pop`, timed `pop`, `front`, `back`, `clear` | the log |
| Log (`log/`) | file, line count, queue | `write_log`, `flush`, the flush thread | every thread |
| Locks (`lock/`) | - | `sem`, `locker`, `cond` | the pools and queues |

What is hard in it:

- *Turns.* Nothing locks an `http_conn`. `EPOLLONESHOT` hands a connection from epoll to main to
  the queue to a worker and back, and every path has to hand it on exactly once.
- *Descriptors are reused.* `tick`, `deal_timer` and `close_conn` close a descriptor whoever is
  using it, and the next `accept` may return the same number while a worker, the queue or the
  rest of an epoll batch still mean the old connection.
- *Timers* are freed by one path while other paths hold pointers to them.
- *Two semaphores next to two lists*, with a test outside the lock in one case.
- *Partial reads and writes*: a request comes in pieces cut anywhere, a response goes out in
  pieces, continued after `EAGAIN`.
- *Check, then act*: `users.find` before the lock, `full()` before `push()`, a line stamped before
  the log's lock.
- *Threads that wait for each other*: the condition variable of the block queue; in actor_model 1,
  main, which spins until a worker raises a flag.
- *Things that must go on*: the chain of alarms, edge-triggered `accept`, the loop in `write()`.

`PROJECT.json` lists each of these at its line under `hazards`, with the property that watches it.

What makes each part correct: the event loop - turns are exclusive, no event follows a deleted
timer, no tick and no client is lost; timers - one per open connection, in order, idle
connections closed and only those; thread pool - no request lost, every queued one served; SQL
pool - no connection shared, leaked or missing; request - judged by its whole text, however it was
cut, and answered; response - all bytes, in order, and an end; registry - whoever was granted a name
is let in, nobody else is, and a name is granted once; block queue - a bounded FIFO queue that loses
no wake-up; log - no line twice, none lost in silence unless two writers raced, and the open file is
always the one that the date and the line count call for (which file a given line went to is not
recorded).

## Modules

| Module | What it is | Code |
|---|---|---|
| `WebServer` | main loop, workers, timers, sockets and epoll together (actor_model 0) | `web_server.cpp`, `http_conn.cpp`, `timer/lst_timer.cpp` |
| `MCWebServer` | symmetry sets and the allocators for TLC | |
| `WebServerProofs` | theorems about `WebServer` | |
| `ThreadPool` | queue and semaphore of the pool | `threadpool/threadpool.h` |
| `SqlPool` | list, semaphore, counters of the SQL pool | `mysql/sql_connection_pool.cpp` |
| `WorkerPool`, `WorkerPoolProofs` | the two pools composed by `run()`, in both actor models, with main's wait in `dealwithread`; the theorems about all three | `threadpool.h` `run`, `connectionRAII`, `web_server.cpp` `dealwithread` |
| `SortedTimers` | what the timer list promises: a set of timers with expiries | |
| `TimerList`, `TimerListProofs` | the list pointer by pointer, refining `SortedTimers` | `timer/lst_timer.cpp` |
| `HttpWrite`, `HttpWriteProofs` | a response on its way out, byte by byte | `http_conn.cpp` `process_write`, `write` |
| `HttpConn`, `HttpConnProofs` | the request parser in front of `HttpWrite`: a connection from the first byte read to the last one sent | `http_conn.cpp` `read_once`, `process_read`, `parse_line` and so on |
| `MCHttpConn` | what the clients of the run send | |
| `Registry`, `RegistryProofs` | login and registration by several workers, with the MySQL table (external) | `http_conn.cpp` `do_request`, `initmysql_result` |
| `MCRegistry` | what is posted in the run | |
| `BoundedFifo` | what a block queue promises | |
| `BlockQueue`, `BlockQueueProofs` | circular array and condition variable, refining `BoundedFifo` | `blockqueue.h` |
| `AsyncLog`, `AsyncLogProofs` | `write_log` and the flushing thread, on an instance of `BlockQueue` | `log/log.cpp` |

The composition: `WorkerPool` EXTENDS `ThreadPool` and `SqlPool`, `HttpConn` EXTENDS `HttpWrite`,
`AsyncLog` instantiates `BlockQueue`. Each conjoins the steps of its parts with its own, and the
composed module checks the properties of the parts again, so a part has no run of its own when a
composition drives it through all its steps.

Operators bear the names of the functions they model. Operators called `..._late`, `..._keeps...`
and so on are *mutants*: plausible mistakes in the operator that follows them. `PROJECT.json`
pairs each property with a mutant that it catches, so that no property holds for lack of content.

### WebServer

One action per handler. `EpollWait` takes what is pending into `batch` and disarms it: everything,
or `MAX_EVENT_NUMBER` events of it when there are more (the code has 10000 against up to 65536
sockets, `web_server.h:18-19`). An interrupted `epoll_wait` is only called again; its other
errors, on which `event_loop` ends (`web_server.cpp:172-176`), need arguments that are never
passed. `HandleListen` .. `InitConn` are `dealclientdata` (accept, the limit, `http_conn::init`,
`timer`), `HandleHup`, `HandleRead(Fails)`, `HandleWrite(Again/Ends)`, `HandleSignal` the branches
of `event_loop`; `LoopEnd` is the end of the batch with `timer_handler`. `AcceptFails` is every
error of `accept`: no client (`EAGAIN`), no descriptor, no memory or a signal (the clients keep
waiting), or a client that is gone (`ECONNABORTED`, one fewer waits). It may come at any time,
because the code leaves the loop on all of them alike (`web_server.cpp:290`). `batch` is
unordered: `epoll_wait` promises no order. A worker goes through `Take`, `ProcessRead`,
`ProcessWrite` or `CloseConn`/`ForgetConn`/`Uncount`, and `Rearm`. The steps of `close_conn` are
separate because main can accept the descriptor again between them. `m_user_count++` and `--` are
a load and a store, as the build may do them: two threads write the variable without a lock.

Abstractions: the bytes read but not parsed are one bit, those not yet sent another; what
`process_read` finds is a free choice between "more", "respond" and "drop" (`process_write`
returning false); time is counted in TIMESLOTs left on each timer; the timer list is the set of
its nodes (justified by `TimerList`); sections under a mutex are one step; the semaphore of the
queue is left to `ThreadPool`. `stale` is a history variable: descriptors accepted while someone
still had an old turn of them. `TurnExclusive` excludes those - the code does let two threads
meet there - and says that *only* those are in danger. `cut` is another one: the last accept loop
was left with clients still waiting, after an error or a refusal. Under an edge-triggered listening
socket nobody takes those up before another client connects; `NoClientStranded` says that there is
no other way to be left in the backlog. `MAX_FD` is a variable that never changes, so that one run
looks at several values of it (`Limits`). `Unused(T)` are the addresses that `new` may return
while those in `T` are live.

### The pools

Sections between `lock()` and `unlock()` are one step, `wait()` and `post()` separate ones, the
unlocked test of `connList.empty()` too. `m_stop` is never initialised: it starts with either
value. `TPDestroy` and `SPDestroy` may come at any time (the SQL pool after the thread pool, as
static objects do); what threads do with freed memory afterwards is not modelled.

`append` does not look whether a request is queued already, so a request may be queued twice, and
main may hand one over that a worker still has. The queue takes one request beyond `max_requests`
(`Full`), as the code does; see "What the violations say".

`WorkerPool` adds what `run()` does between them. In actor_model 1 a worker reads first
(`ReadOnce`), raises `improv` and, after a failure, `timer_flag` in a step of its own
(`RaiseFlag`); main hands over a request (`Hand`), whatever `append` answers, and spins (`Collect`).
The flags and `m_state` are never initialised, but the array of connections is large enough to come
zeroed from the system; `append` does not store the state it is given, so every request is a read.
`Handed` bounds which requests main hands over in this mode. The number of SQL connections is an
initial value, 1 or 2 in the run: with fewer connections than workers they do wait for each other.

### TimerList and SortedTimers

Nodes are addresses that `new` may return again; deleted memory reads as `Freed`, which no
operation may follow. `add_timer` is offered any expiry (the walk, insertion at the head, in the
middle, at the tail), `adjust_timer` any that is not earlier than the old one - all its callers
set now + 3 TIMESLOT. This is where the wall clock matters: set back, it would break the order,
because `adjust_timer` never moves a timer towards the head. The refinement maps the set of timers
to those reached from `head`. The loops of the code are recursive functions: `places` is the walk
of the private `add_timer`, `stops` and `expired` are the one of `tick` (where it ends, what it
deletes).

### HttpWrite

A byte is named by the memory it is read from, so a wrong pointer shows as a wrong byte.
`SplitHeader` says whether `writev` may take a part of the header only. It matters, see below.

### HttpConn

The text of a request is a sequence of `"cr"`, `"lf"` and words: a word stands for text without
line ends, so that the text can be cut between any two of them, between `\r` and `\n` too. `Send`
puts one word into the kernel's buffer; `read_once` takes all of it (edge-triggered) or a
bufferful (level-triggered); then a worker takes line by line, with the indices of the code.
`parse_line` overwrites the ends of lines in `m_read_buf`; `got` keeps what was read, for the
reference `Answerable`/`Keeps`, which judges a text as a whole: lines end in `\r\n`, nothing counts
behind a bare `\r` or `\n`, the first line is the request line, an empty line ends the headers.
Clients are patient (next request after the answer) or not. What a pipelining client sent
too early is dropped by `init()`, so `PatientServed` speaks of patient ones only.

`Content-Length` is compared with one character too many and never recognised. So no request waits
for a body, `parse_content` is never reached, and `m_string` keeps its default: see the run
`httpconn_body`.

### Registry

`do_request` for login and registration, step by step. Login is two searches without the lock:
`LoginFind` (`users.find`) and `LoginCompare` (`users[name] == password`). Registration is `Find`
(outside the lock), `Lock`, `Query` (the INSERT; the key of the table refuses a name it has) and
`Insert` (into the map, whatever the INSERT said, never overwriting). `m_url` is the page the
request leads to. `QueryFails` is any other failure of the statement, after which the table may or
may not have the row. A search that runs while another thread links a node may miss a name that is
there (`Linking`); the second search of login then adds the name once more with an empty password,
because that is what `operator[]` does (`LoginCompareMisses`). `Restart` ends the process anywhere
and loads the table.

`Posted` is what `m_string` may hold. In today's build that is one default pair; the run has more,
so that the code is checked for the day bodies arrive. `doubtful` collects the names for which an
INSERT failed otherwise, or which a login missed in its second search: for these, map and table may
disagree, and the properties exempt them.

Three assumptions. The table has a key on the user name: the repository has no schema, and the
only hint is the log text at `http_conn.cpp:637`, which reads a failing INSERT as a name that is
taken. MySQL and `std::map` agree on which names are equal. And two unlocked changes of the tree
at the same time damage no other node than the one they are about, which C++ does not promise.

### BlockQueue and AsyncLog

The mutex sections are steps, and a wait on the condition variable ends the section. A timed wait
may time out at any moment (its deadline is computed from seconds of now and microseconds read as
nanoseconds, so it may lie in the past). Wake-ups without a broadcast are allowed, as POSIX does.

`AsyncLog`: `Stamp`, `CountLine` (the section that may open a file), `Test` (`full()`), then `Push`
or `Write`. A line is its writer and number, a file its day and suffix. `Places(l)` is everywhere a
line can be found; `EachLineOnce` says that there is one such place for every line begun. `raced`
records which writers were overtaken between `full()` and `push()`: those, and only those, may lose
a line. A
thread stamped before midnight may count its line after one of the new day; `m_today` then goes
back and forth, and `FileFitsCount` says that the open file is nevertheless that of `m_today` and
`m_count`.

## Runs

| Run | Instance | What it shows |
|---|---|---|
| `webserver` | 2 descriptors, 2 workers, 2 timers, 2 clients, `MAX_FD` 1 and 2, at most 2 events per `epoll_wait`, ET/ET (1190617 states) | the safety of turns, timers, alarms, accepts |
| `webserver_live` | 1 descriptor, 1 worker, 3 timers, 3 clients in turn, `MAX_FD` 3, LT/LT, no SIGTERM (465176 states) | idle connections are closed, requests settle |
| `workerpool` | 2 workers, 1 or 2 SQL connections, 2 requests, each possibly queued twice, queue limit 1, actor models 0 and 1 (144435 states) | the two pools together: counts, exclusiveness, queued requests served, main's wait ends |
| `timerlist` | 4 timers, clock 0-3, expiries up to 3 ahead (72934 states) | links, order, refinement of `SortedTimers` |
| `httpconn` | requests of up to 11 words, two on one connection, with a body, without a request line, with a bare `\r`, as long as the buffer; headers of 1-2 bytes, files of 0-3; ET and LT (208622 states) | parsing whatever the cuts; patient clients are served; the response in order, whole and in finite time |
| `registry` | 2 workers, 2 names, one wanted with two passwords, one password empty, any table at the start, 1 restart (350639 states) | who was granted is let in, nobody else is, a name is granted once, passwords stay, requests are answered |
| `blockqueue` | 2 consumers, 2 elements, 3 slots (14247 states) | refinement of `BoundedFifo`; no lost wake-up |
| `asynclog` | 2 writers of 2 lines, queue of 2, split after 2 lines, 1 midnight, both modes (30028 states) | where each line ends, in which order and file |
| `webserver_orphan_timer` | violation | a timer `close_conn` leaves behind closes another client |
| `webserver_busy` | violation | "server busy" with no connection open |
| `httpconn_body` | violation | a request is answered before its body is there |
| `httpwrite_split` | violation | header split twice: wrong iovecs |

Bounds and why they are enough. In `WebServer` every interference needs one descriptor, its old
and its new connection, two workers (one late, one current) and two timers; the second descriptor
makes batches with two events and closes by one that concern the other. `MaxConnects` is the only
counter that is cut; two connects are enough to reuse a descriptor. `MAX_EVENT_NUMBER` 2 is less
than what can be pending, `Limits` has one value that two clients reach and one they do not. In
the live run three clients share one descriptor: with `MaxRequests` 1 two of them can leave stale
entries that fill the queue, so that the request of the third is refused; its `MAX_FD` of 3 lets a
client be accepted between `CloseConn` and `ForgetConn` of the one before, whose late turn then
meets the new owner. Symmetry cannot be used beside liveness, so the allocator is `OneUnused`
there, one order of the same addresses; and no SIGTERM comes, because a server that stops would
excuse both properties. `Expiry` is 1 there and 2 in `webserver`: with more, a timer only passes
more ticks before its last. Four timers are the least with which a node has neighbours on both
sides while another is moved past one. Three header bytes are the least that can be split twice
before the last (`httpwrite_split`; elsewhere the header goes out whole and two are enough). In
`HttpConn` the longest request fills the buffer exactly - which a level-triggered read serves and
an edge-triggered one, that reads once more, takes for the end of the stream - and two requests
sent in a row overfill it; two requests are also what it takes to reuse indices. In `Registry` two
workers and two passwords for one name are a conflict, a second name a node that is linked
meanwhile. Three slots let the circular array wrap between any two elements, and two consumers
compete for one. Two lines of each of two writers let a line overtake its own predecessor, fill
the queue and open a second file on either side of midnight.

`CHECK_DEADLOCK FALSE` in `workerpool`: when `m_stop` is set the threads exit, requests may
fill the queue, and nothing moves any more; that is how the program ends. In `asynclog`: when all
lines are written the flusher waits for more.

Fairness. `WebServer!Fairness`: weak for the main loop and each worker (threads the scheduler
runs; main never blocks while an event is pending) and for the clock; strong for the completion of
a response of a connection (`HandleWrite` or `HandleWriteEnds`): a response is finite, so among
the `EPOLLOUT`s of a client that keeps reading there is a last one. Nothing is assumed of clients.
`WorkerPool!Fairness`: weak for each worker, for main's `post()`, which follows its push, and for
main's loop on `improv`. A semaphore is not fair: with fewer connections than workers one may wait
for ever while the others are served, so `RequestServed` promises an end only when there are
enough. `HttpConn`: weak for the reactions of the server (`Serve`: reading, parsing, writing), of
which at most one is enabled at a time; nothing of clients, who may also go at any time. It
implies the fairness of `write()` that `WriteReturns` needs. `Registry`: weak for each worker; the
lock needs no more, since a name leads to it only while it is missing from the map. `BlockQueue`:
weak for a consumer that was woken. `AsyncLog`: weak for a call of `write_log` that has begun and
for the flusher. Liveness under fairness is checked by TLC only; TLAPS cannot prove it.

## What the violations say

- `OnlyInactiveClosed` (`timer/lst_timer.cpp:168`): a request for a missing file makes
  `process_write` return false; `close_conn` closes the socket, the timer stays. The next client
  gets the descriptor and `users_timer[fd].timer` is overwritten. When the old timer expires
  the new client is cut off, however active.
- `BusyOnlyWhenFull` (`http_conn.cpp:91`): `cb_func` has its `m_user_count--` commented out.
- `BodyAwaited` (`http_conn.cpp:511`): 15 characters of `"Content-Length"` include its NUL, so no
  header matches, and the POST is answered at the empty line.
- `HeaderFirst` (`http_conn.cpp:184`): `iov_len` has been shortened, `bytes_have_send` counts from
  the start. For a response without a file the same state makes `write()` spin: one iovec of
  length 0, and `bytes_to_send > 0`. Under `SplitHeader = FALSE` - the header, of at most
  `WRITE_BUFFER_SIZE` 10240 bytes, fits the empty socket buffer whole - both are excluded, and
  order and end are checked and proved.

Two more disagreements have no violation run. The queue takes one request beyond `max_requests`,
because the test at `threadpool.h:129` is `>`, while the comments at `threadpool.h:27` and `:50`
call it the most that may wait; the models have the code's test, and a property that says so would
only repeat it, so there is none. With fewer connections than threads `GetConnection` often
returns `nullptr` where its comment says "wait" (`ConnectionGiven` holds when there are enough - 8
and 8 in `main.cpp`).

In actor_model 1, which `main.cpp` does not select: main may miss a `timer_flag` that is raised
after `improv`, and the flag left behind ends the next connection of that descriptor; and
a response is never written, because `append` drops its state. The model follows the code
in both; no text of the repository claims otherwise.

## What is proved

Every theorem holds for all values of the constants that satisfy the named assumptions
(`FdAssumption`, `LimitAssumption`, `AllocatorAssumption`, `PoolAssumption`, `SqlAssumption`,
`ClientsAssumption`, `SizeAssumption`, `ReadAssumption`, `RegistryAssumption`, `QueueAssumption`,
`TimerAssumption`, `LogAssumption`): sets of threads, descriptors and addresses are finite, limits
are positive, `new` returns no address in use, names do not coincide, requests are not empty.
Every invariant, action property and refinement that a passing run checks is also a theorem.

- `WebServerProofs`. `TypeCorrect` (`TypeOK` is inductive as it stands). `TickAlwaysComing`.
  `TimersOwned` and `EventsHaveTimer` rest on `TimerInv`: besides the two properties it says that
  what epoll watches is open (`Registered`), that `connfd` names a descriptor exactly during an
  accept (`Accepting`), and that the batch has at most one event of a descriptor (`OneEvent`) -
  without the last, handling one event could leave another one with a deleted timer.
  `TurnsExclusive` rests on `TurnInv`: an object's `m_sockfd` is its own descriptor or -1 (so a
  worker's `modfd` arms the connection it worked for and no other) and a busy worker has a
  descriptor. `NobodyStranded` rests on `EdgeInv`: a client in the backlog means an edge that epoll
  still has, or one in the batch, or main inside the accept loop - or that this loop was cut short,
  which is what `cut` remembers. It holds for any number of clients and any limit.
- `WorkerPoolProofs`, also for the two pools that `WorkerPool` extends. Thread pool:
  `SemaphoreAgrees` counts queue length = semaphore + workers past `wait()` + posts to come, by
  cardinalities; from it `WokenForWork`: the branch for an empty queue in `run()` is never taken.
  SQL pool: `SPInv` strengthens the properties by `HeldInUse` (a thread has a connection only
  between `GetConnection` and `ReleaseConnection`); `EnoughConnections` counts: if a thread that
  asks found the list empty, all connections would be held by the other, fewer, threads.
  Composition: `ImplementsThreadPool` and `ImplementsSqlPool` - step by step, it is a behaviour of
  each part, so the invariants carry over. `MainNeverRefused` rests on `HandInv`:
  in actor_model 1 the request main waits for is the only one queued or taken and not yet read, and
  `improv` is up only for it and only after it was read; so the queue holds one request at most,
  and the hazard of a refused `append` under main's endless loop is met by the protocol itself.
- `TimerListProofs`. `TLInv`: some sequence of nodes is a `Chain` - distinct, ascending, linked both
  ways between `head` and `tail` - and its nodes are exactly the live ones. Each operation is a
  lemma about chains: `PutIn` and `TakenOut` say what four pointer assignments do to one,
  `TakenOff` what the loop of `tick` leaves, `PlaceFound` where the walk of the private `add_timer`
  ends. There is no induction along pointers: on a chain a loop is characterised at every
  position, and a position where it went wrong would have a least (or greatest) one (`Least`,
  `Greatest`). `Rank` is the one fact about order that they share: on an ascending chain the timers
  due by a given time are its first m. From the invariant `TimerTypes`, `OneSortedList` and
  `SortedImplemented`: each operation changes the set of timers as `SortedTimers` says, and `tick`
  removes the expired ones and no other although it stops at the first that is not.
- `HttpWriteProofs`. `WriteInv`: the counters add up, and the iovecs describe either the whole
  response or exactly the rest of the file (`Underway`). Then what `writev` is offered next is the
  continuation of what the client has (`OfferedIsRest`). Under the hypothesis `~SplitHeader`,
  without which the property is false.
- `HttpConnProofs`. `AnswersAsWritten`: reading and parsing leave the response alone but where
  `HttpWrite` allows it, so `AnswersInOrder` follows from the theorems above, under the same
  hypothesis. `IndicesInBuffer`: `HCTypeOK` is inductive; `parse_line` never looks or writes
  beyond what was received, for any requests, cut anywhere, and any size of the buffer.
  `CutAnywhere` rests on `ReadInv`: the parser stands behind the end of a line of the text read so
  far; behind it the buffer still has what was read; what was looked at holds no end of a line;
  and `m_check_state` and `m_linger` are what the lines taken so far make of them (`Heard`).
  Reading more keeps the ends of lines where they were (`EndsStay`, `LinesStay`), so it keeps
  `Heard` too - this is where cuts could have mattered, between `\r` and `\n` above all.
- `RegistryProofs`. `RInv`: the lock is held exactly from `Lock` to `Insert` (`LockHeld`); the map
  never contradicts the table and lacks at most the name that the holder of the lock is about to
  insert (`MapInTable`, `TableInMap`); a worker whose INSERT succeeded is the first to be granted
  the name (`Inserted`). Doubtful names are exempt throughout. From it: `GrantedLogsIn`, where a
  granted name is in the map with its password (`GrantedInMap`), so that both searches of login
  find it and compare well unless a node is being linked meanwhile; `WelcomesEarned`,
  `NameGivenOnce` and `PasswordsKept`: the unlocked `find` of a registration is harmless because
  the key of the table decides, and `std::map::insert` does not overwrite.
- `BlockQueueProofs`. `BQInv`: `m_back` is the slot of the last element, or `m_front` when there
  is none, and every slot in use was written. `SlotValue`, `SlotApart` and `SlotAfterPop` are the
  arithmetic modulo `MaxSize`. Then `QueueIsFifo`: each step is a step of `BoundedFifo` or a
  stutter.
- `AsyncLogProofs` takes what it needs of the queue from `BlockQueueProofs` (`Pushed`,
  `TookFirst`); `ALInv` is types, `BQInv` and that a line in somebody's hand exists.
  `LogKeepsToQueue`: the log is a behaviour of its queue, which is therefore a FIFO queue
  (`LogQueueIsFifo`). `FilesFitCounts`: the open file is that of `m_today` and `m_count` after
  every line, late stamps included. `RoomUnlessRaced`. `OnlyDirectOvertakes` rests on `OrderInv`:
  the lines of a writer keep their order through queue, flusher and file, and a line written
  directly is never earlier than one that is already out. `LinesOnce`: a step moves one line from
  one place to one other (`Renamed`) and leaves the places of the others.

Only model-checked: liveness - `IdleReaped`, `RequestSettles`, `RequestServed`, `MainGoesOn`,
`PatientServed`, `WriteReturns`, `Answered`, `PopReturns`, `LinesSettle`. Each rests on weak or
strong fairness, whose `ENABLED` the prover cannot reason about. The four violations are TLC's,
too: a theorem could only say that the property is false.

## The plan: done and left

Modelled first was what several threads share (event loop, pools, timers, response), then the
parser, the registry, the block queue, the log and the second actor model, composed with what was
there. Then everything safe that the runs check was proved. Left, in this order:

1. That the queue in `WebServer`, which has no semaphore, behaves as the one of `ThreadPool`
   (`WokenForWork` is the reason that it may do without).
2. That the set of timers in `WebServer` is the one of `SortedTimers`: its timers hold TIMESLOTs
   left where `SortedTimers` holds times, which a refinement has to translate.

## Not modelled

- `parse_content`: no request reaches it. The pages `do_request` chooses, the text of headers, log
  lines and SQL statements: data that no property tells apart.
- `block_queue::front` and `back`: they only read, and nothing in the server calls them. (`front`
  would return the slot before the first element.)
- What threads do with freed memory at exit: undefined behaviour.
- A wall clock that is set back: `adjust_timer` moves a timer only towards the tail, so the order
  of the list, and every property that rests on it, assumes that it does not happen.
- When a client that the accept loop left waiting is served: the next one that connects brings a new
  edge, if there is one. The model records that it happened (`cut`), and promises nothing then.
- Errors of `epoll_wait` other than `EINTR`, and a failing `pthread_cond_wait` in `pop` (it fails
  only when the mutex is not held).
- `unmap()` of the file a response was sent from: no property looks at it.
- Damage to other nodes of the map by two changes without the lock at once.
- `main.cpp`'s sequence of set-up calls, the HTML under `root/`, the tests, third-party
  `webbench-1.5/`, MySQL itself, logging calls inside the other components.
