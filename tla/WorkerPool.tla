----------------------------- MODULE WorkerPool -----------------------------
(* The worker threads at work: threadpool::run processes each request with *)
(* a connection of the SQL pool in hand (connectionRAII around process()). *)
(* The steps are those of ThreadPool and SqlPool, in the order of run().   *)
EXTENDS ThreadPool, SqlPool

CONSTANT Handed  (* bound: the requests that main hands over in actor_model 1 *)

(* The threads of the one pool are the clients of the other. *)
ASSUME ClientsAssumption == Clients = Workers /\ Handed \subseteq Requests

VARIABLES
  m_actor_model,       (* 1: the workers read, 0: main has read             *)
  stage,               (* worker -> what it has done with its request       *)
  improv, timer_flag,  (* request -> the flags its worker raises for main   *)
  awaited              (* the request main waits for in dealwithread        *)
reactorvars == <<improv, timer_flag, awaited>>
wvars == <<tpvars, spvars, m_actor_model, stage, reactorvars>>

Stages == {"taken", "read", "unread", "served"}
reaches(w, s) == stage' = [stage EXCEPT ![w] = s]

(* The flags are never initialised; the array `users' of WebServer is so   *)
(* large that its memory comes zeroed from the system.  So does m_state,   *)
(* which nothing sets: every request is a read to run().                   *)
Init ==
  /\ TPInit /\ SPInit
  /\ m_actor_model \in {0, 1}
  /\ stage = [w \in Workers |-> "taken"]
  /\ improv = [r \in Handed |-> 0] /\ timer_flag = [r \in Handed |-> 0]
  /\ awaited = NoRequest

(* Mutant: only a success raises improv. *)
ReadOnce_silent(w) ==
  /\ wpc[w] = "run" /\ m_actor_model = 1 /\ stage[w] = "taken"
  /\ \/ reaches(w, "read") /\ improv' = [improv EXCEPT ![wreq[w]] = 1]
     \/ reaches(w, "served") /\ UNCHANGED improv
  /\ UNCHANGED <<tpvars, spvars, m_actor_model, timer_flag, awaited>>

(* actor_model 1: a worker reads.  Either result raises improv, ... *)
ReadOnce(w) ==
  /\ wpc[w] = "run" /\ m_actor_model = 1 /\ stage[w] = "taken"
  /\ improv' = [improv EXCEPT ![wreq[w]] = 1]
  /\ reaches(w, "read") \/ reaches(w, "unread")
  /\ UNCHANGED <<tpvars, spvars, m_actor_model, timer_flag, awaited>>

(* ... and a failure timer_flag after it. *)
RaiseFlag(w) ==
  /\ stage[w] = "unread" /\ reaches(w, "served")
  /\ timer_flag' = [timer_flag EXCEPT ![wreq[w]] = 1]
  /\ UNCHANGED <<tpvars, spvars, m_actor_model, improv, awaited>>

(* A worker asks for a connection once the request is read, ... *)
GetConnection(w) ==
  /\ wpc[w] = "run" /\ stage[w] = IF m_actor_model = 1 THEN "read" ELSE "taken"
  /\ SPGet(w) \/ SPWait(w) \/ SPTake(w) \/ SPTakeEmpty(w)
  /\ UNCHANGED <<tpvars, m_actor_model, stage, reactorvars>>

(* ... processes the request, ... *)
Process(w) ==
  /\ wpc[w] = "run" /\ cpc[w] = "use" /\ stage[w] # "served" /\ reaches(w, "served")
  /\ UNCHANGED <<tpvars, spvars, m_actor_model, reactorvars>>

(* ... and ~connectionRAII gives the connection back. *)
ReleaseConnection(w) ==
  /\ stage[w] = "served"
  /\ SPRelease(w) \/ SPReleaseNull(w) \/ SPPost(w)
  /\ UNCHANGED <<tpvars, m_actor_model, stage, reactorvars>>

Finish(w) ==
  /\ stage[w] = "served" /\ cpc[w] = "idle"
  /\ TPDone(w) /\ reaches(w, "taken")
  /\ UNCHANGED <<spvars, m_actor_model, reactorvars>>

Loop(w) ==
  /\ TPCheck(w) \/ TPWait(w) \/ TPTake(w)
  /\ UNCHANGED <<spvars, m_actor_model, stage, reactorvars>>

WorkerStep(w) ==
  \/ Loop(w) \/ ReadOnce(w) \/ RaiseFlag(w)
  \/ GetConnection(w) \/ Process(w) \/ ReleaseConnection(w) \/ Finish(w)

(* actor_model 0: main appends and goes on. *)
ProducerStep(p) ==
  /\ m_actor_model = 0 /\ TPProducer(p)
  /\ UNCHANGED <<spvars, m_actor_model, stage, reactorvars>>

(* actor_model 1: main appends, whatever append() returns, ... *)
Hand(p, r) ==
  /\ m_actor_model = 1 /\ awaited = NoRequest
  /\ awaited' = r
  /\ IF Full THEN UNCHANGED tpvars ELSE TPAppend(p, r)
  /\ UNCHANGED <<spvars, m_actor_model, stage, improv, timer_flag>>

HandPost(p) ==
  /\ m_actor_model = 1 /\ TPPost(p)
  /\ UNCHANGED <<spvars, m_actor_model, stage, reactorvars>>

(* Mutant: main does not wait for the worker. *)
Collect_at_once(p) ==
  /\ awaited # NoRequest /\ ppc[p] = "idle"
  /\ timer_flag' = [timer_flag EXCEPT ![awaited] = 0]
  /\ improv' = [improv EXCEPT ![awaited] = 0]
  /\ awaited' = NoRequest
  /\ UNCHANGED <<tpvars, spvars, m_actor_model, stage>>

(* ... and spins until improv is up.  With timer_flag it closes the        *)
(* connection; then it lowers both and goes on.                            *)
Collect(p) ==
  /\ awaited # NoRequest /\ ppc[p] = "idle" /\ improv[awaited] = 1
  /\ timer_flag' = [timer_flag EXCEPT ![awaited] = 0]
  /\ improv' = [improv EXCEPT ![awaited] = 0]
  /\ awaited' = NoRequest
  /\ UNCHANGED <<tpvars, spvars, m_actor_model, stage>>

MainStep(p) ==
  ProducerStep(p) \/ (\E r \in Handed : Hand(p, r)) \/ HandPost(p) \/ Collect(p)

(* ~WebServer deletes the thread pool, the exit of the process the SQL pool. *)
Destroy ==
  /\ \/ TPDestroy /\ UNCHANGED spvars
     \/ m_stop /\ SPDestroy /\ UNCHANGED tpvars
  /\ awaited = NoRequest
  /\ UNCHANGED <<m_actor_model, stage, reactorvars>>

Next ==
  \/ \E w \in Workers : WorkerStep(w)
  \/ \E p \in Producers : MainStep(p)
  \/ Destroy
Spec == Init /\ [][Next]_wvars

(* Every thread that can run does, and main goes on with what it began. *)
Fairness ==
  /\ \A w \in Workers : WF_wvars(WorkerStep(w))
  /\ \A p \in Producers : WF_wvars(ppc[p] = "post" /\ MainStep(p)) /\ WF_wvars(Collect(p))
FairSpec == Spec /\ Fairness

----------------------------------------------------------------------------
(* Requests are taken from a queue that is not empty for as long as the    *)
(* threads run - from its front, so every one of them - and a request      *)
(* taken is processed if there are as many connections as threads: neither *)
(* the semaphores nor the lists lose a wake-up.  With fewer, the others    *)
(* may always be faster than the thread that waits for one.                *)
RequestServed ==
  /\ \/ []<>(m_workqueue = <<>> \/ m_stop)
     \/ []<><<\E r \in Requests : m_workqueue = <<r>> \o m_workqueue'>>_m_workqueue
  /\ \A w \in Workers :
       wpc[w] = "run" /\ Cardinality(Clients) <= m_MaxConn
         ~> stage[w] = "served" \/ destroyed

(* actor_model 1: main waits for one request at a time, so append(), whose *)
(* refusal would leave it spinning for ever, never refuses.                *)
NeverRefused == m_actor_model = 1 => Len(m_workqueue) <= 1

(* actor_model 1: main leaves its loop, however busy the workers are. *)
MainGoesOn == awaited # NoRequest ~> awaited = NoRequest \/ m_stop
=============================================================================
