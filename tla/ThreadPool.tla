----------------------------- MODULE ThreadPool -----------------------------
(* threadpool<T>: a list of requests under a mutex, and a semaphore that   *)
(* counts them.  A section between lock() and unlock() is one step; the    *)
(* post() and the wait() of the semaphore lie outside the sections and are *)
(* steps of their own.  What a worker does with a request is the business  *)
(* of WorkerPool.                                                          *)
EXTENDS Integers, Sequences, FiniteSets

CONSTANTS
  Workers,      (* the m_thread_number threads                             *)
  Producers,    (* threads that call append(): main                        *)
  Requests,     (* what is appended: the http_conn of a connection         *)
  NoRequest,    (* null                                                    *)
  MaxRequests   (* m_max_requests                                          *)

(* The constructor throws unless both numbers are positive. *)
ASSUME PoolAssumption ==
  /\ IsFiniteSet(Workers) /\ Workers # {} /\ IsFiniteSet(Producers)
  /\ MaxRequests \in Nat \ {0} /\ NoRequest \notin Requests

VARIABLES
  m_workqueue,  (* the requests that wait                                  *)
  m_queuestat,  (* the semaphore                                           *)
  m_stop,
  ppc,          (* producer -> "idle", or "post" after its push            *)
  wpc,          (* worker -> where it is in run()                          *)
  wreq          (* worker -> the request it took                           *)
tpvars == <<m_workqueue, m_queuestat, m_stop, ppc, wpc, wreq>>

WorkerPcs == {"check", "wait", "lock", "run", "exited"}
Posting   == {p \in Producers : ppc[p] = "post"}
Locking   == {w \in Workers : wpc[w] = "lock"}

----------------------------------------------------------------------------
(* m_stop is not initialised: the memory of the new object decides. *)
TPInit ==
  /\ m_workqueue = <<>> /\ m_queuestat = 0
  /\ m_stop \in BOOLEAN
  /\ ppc = [p \in Producers |-> "idle"]
  /\ wpc = [w \in Workers |-> "check"]
  /\ wreq = [w \in Workers |-> NoRequest]

(* `>' lets one request in beyond the limit. *)
Full == Len(m_workqueue) > MaxRequests

(* Mutant: push without post. *)
TPAppend_no_post(p, r) ==
  /\ ppc[p] = "idle" /\ ~Full
  /\ m_workqueue' = Append(m_workqueue, r)
  /\ UNCHANGED <<ppc, m_queuestat, m_stop, wpc, wreq>>

(* append(), the section; it returns false and does nothing when Full.  It *)
(* does not look whether the request is in the queue already.              *)
TPAppend(p, r) ==
  /\ ppc[p] = "idle" /\ ~Full
  /\ m_workqueue' = Append(m_workqueue, r)
  /\ ppc' = [ppc EXCEPT ![p] = "post"]
  /\ UNCHANGED <<m_queuestat, m_stop, wpc, wreq>>

TPPost(p) ==
  /\ ppc[p] = "post"
  /\ m_queuestat' = m_queuestat + 1
  /\ ppc' = [ppc EXCEPT ![p] = "idle"]
  /\ UNCHANGED <<m_workqueue, m_stop, wpc, wreq>>

(* while(!m_stop) *)
TPCheck(w) ==
  /\ wpc[w] = "check"
  /\ wpc' = [wpc EXCEPT ![w] = IF m_stop THEN "exited" ELSE "wait"]
  /\ UNCHANGED <<m_workqueue, m_queuestat, m_stop, ppc, wreq>>

(* Mutant: the wait does not block. *)
TPWait_polls(w) ==
  /\ wpc[w] = "wait"
  /\ m_queuestat' = m_queuestat - 1
  /\ wpc' = [wpc EXCEPT ![w] = "lock"]
  /\ UNCHANGED <<m_workqueue, m_stop, ppc, wreq>>

TPWait(w) ==
  /\ wpc[w] = "wait" /\ m_queuestat > 0
  /\ m_queuestat' = m_queuestat - 1
  /\ wpc' = [wpc EXCEPT ![w] = "lock"]
  /\ UNCHANGED <<m_workqueue, m_stop, ppc, wreq>>

(* The section of run(): continue on an empty queue, or take the first. *)
TPTake(w) ==
  /\ wpc[w] = "lock"
  /\ IF m_workqueue = <<>>
     THEN /\ wpc' = [wpc EXCEPT ![w] = "check"]
          /\ UNCHANGED <<m_workqueue, wreq>>
     ELSE /\ wreq' = [wreq EXCEPT ![w] = Head(m_workqueue)]
          /\ m_workqueue' = Tail(m_workqueue)
          /\ wpc' = [wpc EXCEPT ![w] = "run"]
  /\ UNCHANGED <<m_queuestat, m_stop, ppc>>

(* The request is processed; the loop goes round. *)
TPDone(w) ==
  /\ wpc[w] = "run"
  /\ wpc' = [wpc EXCEPT ![w] = "check"]
  /\ wreq' = [wreq EXCEPT ![w] = NoRequest]
  /\ UNCHANGED <<m_workqueue, m_queuestat, m_stop, ppc>>

(* ~threadpool, run by the thread that appends.  That the memory of the    *)
(* pool is then freed under the detached threads is not modelled.          *)
TPDestroy ==
  /\ ~m_stop /\ Posting = {}
  /\ m_stop' = TRUE
  /\ UNCHANGED <<m_workqueue, m_queuestat, ppc, wpc, wreq>>

TPWorker(w) == TPCheck(w) \/ TPWait(w) \/ TPTake(w) \/ TPDone(w)
TPProducer(p) == TPPost(p) \/ \E r \in Requests : TPAppend(p, r)
TPNext ==
  \/ \E w \in Workers : TPWorker(w)
  \/ \E p \in Producers : TPProducer(p)
  \/ TPDestroy
TPSpec == TPInit /\ [][TPNext]_tpvars

----------------------------------------------------------------------------
TPTypeOK ==
  /\ m_workqueue \in Seq(Requests) /\ m_queuestat \in Nat /\ m_stop \in BOOLEAN
  /\ ppc \in [Producers -> {"idle", "post"}]
  /\ wpc \in [Workers -> WorkerPcs]
  /\ wreq \in [Workers -> Requests \cup {NoRequest}]

(* The semaphore and the list never drift apart: every queued request is   *)
(* counted by the semaphore, claimed by a worker that passed wait(), or    *)
(* about to be posted.  So no worker finds the queue empty (the branch     *)
(* threadpool.h:167 is never taken) and none sleeps on a counted request.  *)
SemaphoreCounts ==
  m_queuestat + Cardinality(Locking) + Cardinality(Posting) = Len(m_workqueue)

(* What the semaphore is for: after wait(), there is a request to take. *)
WorkFound == \A w \in Workers : wpc[w] = "lock" => m_workqueue # <<>>
=============================================================================
