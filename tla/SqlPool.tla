------------------------------ MODULE SqlPool ------------------------------
(* connection_pool and connectionRAII: a list of MySQL connections under a *)
(* mutex, a semaphore that counts the free ones, and two counters.  The    *)
(* test of connList.empty() in GetConnection is outside the mutex and a    *)
(* step of its own, as are the wait() and the post() of the semaphore.     *)
EXTENDS Integers, Sequences, FiniteSets

CONSTANTS
  Clients,      (* threads that use the pool                               *)
  MaxConn       (* bound on the connections init() may open                *)

ASSUME SqlAssumption == IsFiniteSet(Clients) /\ MaxConn \in Nat

VARIABLES
  connList,     (* the free connections                                    *)
  reserve,      (* the semaphore                                           *)
  m_MaxConn, m_FreeConn, m_CurConn,
  destroyed,    (* DestroyPool has closed the connections                  *)
  cpc,          (* client -> where it is in GetConnection/ReleaseConnection *)
  ccon          (* client -> conRAII                                       *)
spvars == <<connList, reserve, m_MaxConn, m_FreeConn, m_CurConn, destroyed, cpc, ccon>>

(* init() numbers the connections; 0 is nullptr. *)
Conns == 1 .. MaxConn
NoConn == 0

ClientPcs == {"idle", "wait", "take", "use", "post", "broken"}
Free(k)  == \E i \in DOMAIN connList : connList[i] = k
Taking   == {c \in Clients : cpc[c] = "take"}
Giving   == {c \in Clients : cpc[c] = "post"}
Holding  == {c \in Clients : cpc[c] = "use" /\ ccon[c] # NoConn}

----------------------------------------------------------------------------
(* After init(): m_MaxConn connections, all free. *)
SPInit ==
  /\ m_MaxConn \in Conns /\ connList = [i \in 1 .. m_MaxConn |-> i]
  /\ reserve = Len(connList) /\ m_FreeConn = Len(connList) /\ m_CurConn = 0
  /\ destroyed = FALSE
  /\ cpc = [c \in Clients |-> "idle"] /\ ccon = [c \in Clients |-> NoConn]

(* GetConnection: an empty list makes it return nullptr at once. *)
SPGet(c) ==
  /\ cpc[c] = "idle"
  /\ cpc' = [cpc EXCEPT ![c] = IF connList = <<>> THEN "use" ELSE "wait"]
  /\ ccon' = [ccon EXCEPT ![c] = NoConn]
  /\ UNCHANGED <<connList, reserve, m_FreeConn, m_CurConn, destroyed, m_MaxConn>>

(* Mutant: the wait does not block. *)
SPWait_polls(c) ==
  /\ cpc[c] = "wait"
  /\ reserve' = reserve - 1
  /\ cpc' = [cpc EXCEPT ![c] = "take"]
  /\ UNCHANGED <<connList, m_FreeConn, m_CurConn, destroyed, ccon, m_MaxConn>>

SPWait(c) ==
  /\ cpc[c] = "wait" /\ reserve > 0
  /\ reserve' = reserve - 1
  /\ cpc' = [cpc EXCEPT ![c] = "take"]
  /\ UNCHANGED <<connList, m_FreeConn, m_CurConn, destroyed, ccon, m_MaxConn>>

(* Mutant: the connection stays in the list. *)
SPTake_keeps(c) ==
  /\ cpc[c] = "take" /\ connList # <<>>
  /\ ccon' = [ccon EXCEPT ![c] = Head(connList)]
  /\ cpc' = [cpc EXCEPT ![c] = "use"]
  /\ UNCHANGED <<connList, reserve, m_FreeConn, m_CurConn, destroyed, m_MaxConn>>

(* The section of GetConnection. *)
SPTake(c) ==
  /\ cpc[c] = "take" /\ connList # <<>>
  /\ ccon' = [ccon EXCEPT ![c] = Head(connList)]
  /\ connList' = Tail(connList)
  /\ m_FreeConn' = m_FreeConn - 1 /\ m_CurConn' = m_CurConn + 1
  /\ cpc' = [cpc EXCEPT ![c] = "use"]
  /\ UNCHANGED <<reserve, destroyed, m_MaxConn>>

(* front() of an empty list: what the thread does from here is undefined. *)
SPTakeEmpty(c) ==
  /\ cpc[c] = "take" /\ connList = <<>>
  /\ cpc' = [cpc EXCEPT ![c] = "broken"]
  /\ UNCHANGED <<connList, reserve, m_FreeConn, m_CurConn, destroyed, ccon, m_MaxConn>>

(* Mutant: m_CurConn is not lowered. *)
SPRelease_keeps_count(c) ==
  /\ cpc[c] = "use" /\ ccon[c] # NoConn
  /\ connList' = Append(connList, ccon[c])
  /\ m_FreeConn' = m_FreeConn + 1
  /\ ccon' = [ccon EXCEPT ![c] = NoConn]
  /\ cpc' = [cpc EXCEPT ![c] = "post"]
  /\ UNCHANGED <<reserve, m_CurConn, destroyed, m_MaxConn>>

(* Mutant: the connection is dropped. *)
SPRelease_leaks(c) ==
  /\ cpc[c] = "use" /\ ccon[c] # NoConn
  /\ ccon' = [ccon EXCEPT ![c] = NoConn]
  /\ cpc' = [cpc EXCEPT ![c] = "idle"]
  /\ UNCHANGED <<connList, reserve, m_FreeConn, m_CurConn, destroyed, m_MaxConn>>

(* The section of ReleaseConnection. *)
SPRelease(c) ==
  /\ cpc[c] = "use" /\ ccon[c] # NoConn
  /\ connList' = Append(connList, ccon[c])
  /\ m_FreeConn' = m_FreeConn + 1 /\ m_CurConn' = m_CurConn - 1
  /\ ccon' = [ccon EXCEPT ![c] = NoConn]
  /\ cpc' = [cpc EXCEPT ![c] = "post"]
  /\ UNCHANGED <<reserve, destroyed, m_MaxConn>>

(* ReleaseConnection(nullptr) returns false. *)
SPReleaseNull(c) ==
  /\ cpc[c] = "use" /\ ccon[c] = NoConn
  /\ cpc' = [cpc EXCEPT ![c] = "idle"]
  /\ UNCHANGED <<connList, reserve, m_FreeConn, m_CurConn, destroyed, ccon, m_MaxConn>>

SPPost(c) ==
  /\ cpc[c] = "post"
  /\ reserve' = reserve + 1
  /\ cpc' = [cpc EXCEPT ![c] = "idle"]
  /\ UNCHANGED <<connList, m_FreeConn, m_CurConn, destroyed, ccon, m_MaxConn>>

(* DestroyPool, when the process exits; an empty list leaves the counters, *)
(* and the semaphore is left alone.                                        *)
SPDestroy ==
  /\ ~destroyed
  /\ destroyed' = TRUE
  /\ connList' = <<>>
  /\ IF connList # <<>> THEN m_FreeConn' = 0 /\ m_CurConn' = 0
                        ELSE UNCHANGED <<m_FreeConn, m_CurConn>>
  /\ UNCHANGED <<reserve, cpc, ccon, m_MaxConn>>

SPClient(c) ==
  \/ SPGet(c) \/ SPWait(c) \/ SPTake(c) \/ SPTakeEmpty(c)
  \/ SPRelease(c) \/ SPReleaseNull(c) \/ SPPost(c)
SPNext == (\E c \in Clients : SPClient(c)) \/ SPDestroy
SPSpec == SPInit /\ [][SPNext]_spvars

----------------------------------------------------------------------------
SPTypeOK ==
  /\ connList \in Seq(Conns) /\ reserve \in Nat
  /\ m_MaxConn \in Nat \ {0}
  /\ m_FreeConn \in Int /\ m_CurConn \in Int /\ destroyed \in BOOLEAN
  /\ cpc \in [Clients -> ClientPcs] /\ ccon \in [Clients -> Conns \cup {NoConn}]

(* No connection is used by two threads, or listed as free while in use,   *)
(* or listed twice.                                                        *)
ConnsExclusive ==
  /\ \A c, d \in Clients : ccon[c] # NoConn /\ ccon[c] = ccon[d] => c = d
  /\ \A c \in Clients : ccon[c] # NoConn => ~Free(ccon[c])
  /\ \A i, j \in DOMAIN connList : connList[i] = connList[j] => i = j

(* Until the pool is destroyed, semaphore, list and counters agree: the    *)
(* front() of GetConnection always has an element, and no connection leaks. *)
ReserveCounts ==
  ~destroyed =>
    /\ reserve + Cardinality(Taking) + Cardinality(Giving) = Len(connList)
    /\ m_FreeConn = Len(connList) /\ m_CurConn = Cardinality(Holding)
    /\ m_FreeConn + m_CurConn = m_MaxConn

(* As long as there are as many connections as threads (main.cpp: 8 and 8) *)
(* GetConnection never takes the way out with nullptr.                     *)
ConnectionGiven ==
  ~destroyed /\ Cardinality(Clients) <= m_MaxConn
    => \A c \in Clients : cpc[c] = "use" => ccon[c] # NoConn
=============================================================================
