-------------------------- MODULE WorkerPoolProofs --------------------------
(* Theorems of the thread pool, of the SQL pool, and of the workers that   *)
(* use both, for any number of threads, requests and connections.          *)
EXTENDS WorkerPool, FiniteSetTheorems, TLAPS

----------------------------------------------------------------------------
(* The thread pool. *)
TPInv == TPTypeOK /\ SemaphoreCounts

LEMMA LockingFinite ==
  /\ IsFiniteSet(Locking) /\ Cardinality(Locking) \in Nat
  /\ IsFiniteSet(Posting) /\ Cardinality(Posting) \in Nat
<1>1. Locking \subseteq Workers /\ Posting \subseteq Producers
  BY DEF Locking, Posting
<1>2. IsFiniteSet(Locking) /\ IsFiniteSet(Posting)
  BY <1>1, PoolAssumption, FS_Subset
<1> QED
  BY <1>2, FS_CardinalityType

(* What the invariant says of a worker that passed wait(): there is work. *)
LEMMA LockerFindsWork ==
  ASSUME TPTypeOK, SemaphoreCounts, NEW w \in Workers, wpc[w] = "lock"
  PROVE  m_workqueue # <<>>
<1>1. w \in Locking
  BY DEF Locking
<1>2. Cardinality(Locking) > 0
  BY <1>1, LockingFinite, FS_EmptySet
<1>3. Len(m_workqueue) > 0
  BY <1>2, LockingFinite DEF SemaphoreCounts, TPTypeOK
<1> QED
  BY <1>3 DEF TPTypeOK

LEMMA TPStep == TPInv /\ [TPNext]_tpvars => TPInv'
<1> SUFFICES ASSUME TPInv, [TPNext]_tpvars PROVE TPInv'
  OBVIOUS
<1> USE PoolAssumption, LockingFinite DEF TPInv, TPTypeOK, WorkerPcs
<1>q. m_workqueue \in Seq(Requests) /\ Len(m_workqueue) \in Nat
  OBVIOUS
<1>1. ASSUME NEW p \in Producers, NEW r \in Requests, TPAppend(p, r) PROVE TPInv'
  <2>1. TPTypeOK'
    BY <1>1 DEF TPAppend
  <2>2. Posting' = Posting \cup {p} /\ p \notin Posting /\ Locking' = Locking
    BY <1>1 DEF TPAppend, Posting, Locking
  <2>3. Cardinality(Posting') = Cardinality(Posting) + 1
    BY <2>2, FS_AddElement
  <2>4. Len(m_workqueue') = Len(m_workqueue) + 1 /\ ~(Len(m_workqueue) > MaxRequests)
        /\ m_queuestat' = m_queuestat
    BY <1>1, <1>q DEF TPAppend, Full
  <2>5. SemaphoreCounts'
    BY <1>q, <2>2, <2>3, <2>4 DEF SemaphoreCounts
  <2> QED
    BY <2>1, <2>5
<1>2. ASSUME NEW p \in Producers, TPPost(p) PROVE TPInv'
  <2>1. TPTypeOK'
    BY <1>2 DEF TPPost
  <2>2. Posting' = Posting \ {p} /\ p \in Posting /\ Locking' = Locking
    BY <1>2 DEF TPPost, Posting, Locking
  <2>3. Cardinality(Posting') = Cardinality(Posting) - 1
    BY <2>2, FS_RemoveElement
  <2>4. m_workqueue' = m_workqueue /\ m_queuestat' = m_queuestat + 1
    BY <1>2 DEF TPPost
  <2>5. SemaphoreCounts'
    BY <1>q, <2>2, <2>3, <2>4 DEF SemaphoreCounts
  <2> QED
    BY <2>1, <2>5
<1>3. ASSUME NEW w \in Workers, TPWait(w) PROVE TPInv'
  <2>1. TPTypeOK'
    BY <1>3 DEF TPWait
  <2>2. Locking' = Locking \cup {w} /\ w \notin Locking /\ Posting' = Posting
    BY <1>3 DEF TPWait, Posting, Locking
  <2>3. Cardinality(Locking') = Cardinality(Locking) + 1
    BY <2>2, FS_AddElement
  <2>4. m_workqueue' = m_workqueue /\ m_queuestat' = m_queuestat - 1
    BY <1>3 DEF TPWait
  <2>5. SemaphoreCounts'
    BY <1>q, <2>2, <2>3, <2>4 DEF SemaphoreCounts
  <2> QED
    BY <2>1, <2>5
<1>4. ASSUME NEW w \in Workers, TPTake(w) PROVE TPInv'
  <2>1. m_workqueue # <<>>
    BY <1>4, LockerFindsWork DEF TPTake
  <2>2. Head(m_workqueue) \in Requests /\ Tail(m_workqueue) \in Seq(Requests)
        /\ Len(Tail(m_workqueue)) = Len(m_workqueue) - 1
    BY <1>q, <2>1
  <2>3. TPTypeOK'
    BY <1>4, <2>1, <2>2 DEF TPTake
  <2>4. Locking' = Locking \ {w} /\ w \in Locking /\ Posting' = Posting
    BY <1>4, <2>1 DEF TPTake, Posting, Locking
  <2>5. Cardinality(Locking') = Cardinality(Locking) - 1
    BY <2>4, FS_RemoveElement
  <2>6. m_workqueue' = Tail(m_workqueue) /\ m_queuestat' = m_queuestat
    BY <1>4, <2>1 DEF TPTake
  <2>7. SemaphoreCounts'
    BY <1>q, <2>2, <2>4, <2>5, <2>6 DEF SemaphoreCounts
  <2> QED
    BY <2>3, <2>7
<1>5. ASSUME NEW w \in Workers, TPCheck(w) \/ TPDone(w) PROVE TPInv'
  <2>1. TPTypeOK'
    BY <1>5 DEF TPCheck, TPDone
  <2>2. Locking' = Locking /\ Posting' = Posting
    BY <1>5 DEF TPCheck, TPDone, Posting, Locking
  <2>3. UNCHANGED <<m_workqueue, m_queuestat>>
    BY <1>5 DEF TPCheck, TPDone
  <2> QED
    BY <2>1, <2>2, <2>3 DEF SemaphoreCounts
<1>6. CASE TPDestroy \/ UNCHANGED tpvars
  BY <1>6 DEF TPDestroy, tpvars, Posting, Locking, SemaphoreCounts
<1> QED
  BY <1>1, <1>2, <1>3, <1>4, <1>5, <1>6 DEF TPNext, TPWorker, TPProducer

LEMMA TPInvariant == TPSpec => []TPInv
<1>1. TPInit => TPInv
  <2> SUFFICES ASSUME TPInit PROVE TPInv
    OBVIOUS
  <2>1. Locking = {} /\ Posting = {}
    BY DEF TPInit, Locking, Posting
  <2>2. Cardinality(Locking) = 0 /\ Cardinality(Posting) = 0
    BY <2>1, FS_EmptySet
  <2>3. TPTypeOK
    BY DEF TPInit, TPTypeOK, WorkerPcs
  <2> QED
    BY <2>2, <2>3, PoolAssumption DEF TPInit, TPInv, SemaphoreCounts
<1>2. TPInv /\ [TPNext]_tpvars => TPInv'
  BY TPStep
<1> QED
  BY <1>1, <1>2, PTL DEF TPSpec

(* Every variable of the pool keeps its type; the semaphore is never       *)
(* negative.                                                               *)
THEOREM ThreadPoolTypes == TPSpec => []TPTypeOK
<1>1. TPInv => TPTypeOK
  BY DEF TPInv
<1> QED
  BY TPInvariant, <1>1, PTL

(* The semaphore and the list agree, at every moment and for any number of *)
(* producers and workers.                                                  *)
THEOREM SemaphoreAgrees == TPSpec => []SemaphoreCounts
<1>1. TPInv => SemaphoreCounts
  BY DEF TPInv
<1> QED
  BY TPInvariant, <1>1, PTL

(* The test for an empty queue after wait() never succeeds: a worker that  *)
(* was woken has a request to take.                                        *)
THEOREM WokenForWork == TPSpec => []WorkFound
<1>1. TPInv => WorkFound
  BY LockerFindsWork DEF TPInv, WorkFound
<1> QED
  BY TPInvariant, <1>1, PTL

----------------------------------------------------------------------------
(* The SQL pool. *)

(* A thread has a connection only between GetConnection and the section of *)
(* ReleaseConnection.                                                      *)
HeldInUse == \A c \in Clients : ccon[c] # NoConn => cpc[c] = "use"
SPInv == SPTypeOK /\ HeldInUse /\ ConnsExclusive /\ ReserveCounts /\ ConnectionGiven

LEMMA NullIsNone == NoConn \notin Conns
  BY SqlAssumption DEF NoConn, Conns

LEMMA SetsFinite ==
  /\ IsFiniteSet(Taking) /\ Cardinality(Taking) \in Nat
  /\ IsFiniteSet(Giving) /\ Cardinality(Giving) \in Nat
  /\ IsFiniteSet(Holding) /\ Cardinality(Holding) \in Nat
<1>1. Taking \subseteq Clients /\ Giving \subseteq Clients /\ Holding \subseteq Clients
  BY DEF Taking, Giving, Holding
<1>2. IsFiniteSet(Taking) /\ IsFiniteSet(Giving) /\ IsFiniteSet(Holding)
  BY <1>1, SqlAssumption, FS_Subset
<1> QED
  BY <1>2, FS_CardinalityType

(* With no more threads than connections, a thread that has none finds one. *)
LEMMA OneIsLeft ==
  ASSUME SPTypeOK, ReserveCounts, ~destroyed, Cardinality(Clients) <= m_MaxConn,
         NEW c \in Clients, cpc[c] = "idle"
  PROVE  connList # <<>>
<1> USE SetsFinite, SqlAssumption
<1>1. Holding \subseteq Clients \ {c}
  BY DEF Holding
<1>2. IsFiniteSet(Clients \ {c}) /\ Cardinality(Clients \ {c}) = Cardinality(Clients) - 1
  BY FS_RemoveElement
<1>3. Cardinality(Holding) <= Cardinality(Clients) - 1
  BY <1>1, <1>2, FS_Subset
<1>4. Cardinality(Clients) \in Nat /\ m_MaxConn \in Nat
  BY FS_CardinalityType DEF SPTypeOK
<1>5. Len(connList) + Cardinality(Holding) = m_MaxConn
  BY DEF ReserveCounts
<1>6. Len(connList) > 0
  BY <1>3, <1>4, <1>5 DEF SPTypeOK
<1> QED
  BY <1>6

(* A client past the semaphore finds a connection in the list. *)
LEMMA TakerFinds ==
  ASSUME SPTypeOK, ReserveCounts, ~destroyed, NEW c \in Clients, cpc[c] = "take"
  PROVE  connList # <<>>
<1>1. c \in Taking
  BY DEF Taking
<1>2. Cardinality(Taking) > 0
  BY <1>1, SetsFinite, FS_EmptySet
<1>3. Len(connList) > 0
  BY <1>2, SetsFinite DEF ReserveCounts, SPTypeOK
<1> QED
  BY <1>3

(* A step of a client that leaves list, counters and possessions alone. *)
LEMMA ClientMoves ==
  ASSUME SPInv, UNCHANGED <<connList, m_FreeConn, m_CurConn, destroyed, ccon, m_MaxConn>>,
         reserve' \in Nat, cpc' \in [Clients -> ClientPcs],
         \A c \in Clients : ccon[c] # NoConn => cpc'[c] = "use",
         reserve' + Cardinality(Taking') + Cardinality(Giving')
           = reserve + Cardinality(Taking) + Cardinality(Giving),
         ~destroyed => \A c \in Clients : cpc'[c] = "use" /\ ccon[c] = NoConn =>
                         \/ cpc[c] = "use"
                         \/ Cardinality(Clients) > m_MaxConn
  PROVE  SPInv'
<1>1. SPTypeOK' /\ HeldInUse'
  BY DEF SPInv, SPTypeOK, HeldInUse
<1>2. ConnsExclusive'
  BY DEF SPInv, ConnsExclusive, Free
<1>3. Holding' = Holding
  BY DEF SPInv, SPTypeOK, HeldInUse, Holding
<1>4. ReserveCounts'
  BY <1>3 DEF SPInv, ReserveCounts
<1>5. ConnectionGiven'
  <2> SUFFICES ASSUME ~destroyed, Cardinality(Clients) <= m_MaxConn,
                      NEW c \in Clients, cpc'[c] = "use"
               PROVE  ccon[c] # NoConn
    BY DEF ConnectionGiven
  <2>1. Cardinality(Clients) \in Nat /\ m_MaxConn \in Nat
    BY SqlAssumption, FS_CardinalityType DEF SPInv, SPTypeOK
  <2>2. ~(Cardinality(Clients) > m_MaxConn)
    BY <2>1
  <2> QED
    BY <2>2 DEF SPInv, ConnectionGiven
<1> QED
  BY <1>1, <1>2, <1>4, <1>5 DEF SPInv

LEMMA SPStep == SPInv /\ [SPNext]_spvars => SPInv'
<1> SUFFICES ASSUME SPInv, [SPNext]_spvars PROVE SPInv'
  OBVIOUS
<1> USE SqlAssumption, SetsFinite, NullIsNone DEF ClientPcs
<1>t. SPTypeOK /\ HeldInUse /\ ConnsExclusive /\ ReserveCounts /\ ConnectionGiven
  BY DEF SPInv
<1>q. /\ connList \in Seq(Conns) /\ Len(connList) \in Nat
      /\ cpc \in [Clients -> ClientPcs] /\ ccon \in [Clients -> Conns \cup {NoConn}]
      /\ reserve \in Nat /\ m_FreeConn \in Int /\ m_CurConn \in Int
      /\ m_MaxConn \in Nat \ {0}
  BY <1>t DEF SPTypeOK
<1>1. ASSUME NEW c \in Clients, SPGet(c) PROVE SPInv'
  <2>1. ccon[c] = NoConn
    BY <1>1, <1>t DEF SPGet, HeldInUse
  <2>2. UNCHANGED <<connList, reserve, m_FreeConn, m_CurConn, destroyed, ccon, m_MaxConn>>
    BY <1>1, <1>q, <2>1 DEF SPGet
  <2>3. Taking' = Taking /\ Giving' = Giving
    BY <1>1, <1>q DEF SPGet, Taking, Giving
  <2>4. /\ cpc' \in [Clients -> ClientPcs]
        /\ \A d \in Clients : ccon[d] # NoConn => cpc'[d] = "use"
    BY <1>1, <1>q, <1>t, <2>1 DEF SPGet, HeldInUse
  <2>5. ASSUME ~destroyed, NEW d \in Clients, cpc'[d] = "use", ccon[d] = NoConn,
               cpc[d] # "use"
        PROVE  Cardinality(Clients) > m_MaxConn
    <3>1. d = c /\ connList = <<>> /\ cpc[c] = "idle"
      BY <1>1, <1>q, <2>5 DEF SPGet
    <3>2. ~(Cardinality(Clients) <= m_MaxConn)
      BY <1>t, <2>5, <3>1, OneIsLeft
    <3>3. Cardinality(Clients) \in Nat /\ m_MaxConn \in Nat
      BY <1>t, FS_CardinalityType DEF SPTypeOK
    <3> QED
      BY <3>2, <3>3
  <2> QED
    BY <1>q, <2>2, <2>3, <2>4, <2>5, ClientMoves
<1>2. ASSUME NEW c \in Clients, SPWait(c) PROVE SPInv'
  <2>1. Taking' = Taking \cup {c} /\ c \notin Taking /\ Giving' = Giving
    BY <1>2, <1>q DEF SPWait, Taking, Giving
  <2>2. Cardinality(Taking') = Cardinality(Taking) + 1
    BY <2>1, FS_AddElement
  <2>3. /\ cpc' \in [Clients -> ClientPcs] /\ reserve' = reserve - 1 /\ reserve' \in Nat
        /\ \A d \in Clients : ccon[d] # NoConn => cpc'[d] = "use"
        /\ \A d \in Clients : cpc'[d] = "use" => cpc[d] = "use"
    BY <1>2, <1>q, <1>t DEF SPWait, HeldInUse
  <2>4. reserve' + Cardinality(Taking') + Cardinality(Giving')
          = reserve + Cardinality(Taking) + Cardinality(Giving)
    BY <1>q, <2>1, <2>2, <2>3
  <2> QED
    BY <1>2, <2>3, <2>4, ClientMoves DEF SPWait
<1>3. ASSUME NEW c \in Clients, SPTake(c) PROVE SPInv'
  <2> DEFINE k == Head(connList)
  <2>1. /\ cpc[c] = "take" /\ connList # <<>> /\ connList' = Tail(connList)
        /\ ccon' = [ccon EXCEPT ![c] = k] /\ cpc' = [cpc EXCEPT ![c] = "use"]
        /\ m_FreeConn' = m_FreeConn - 1 /\ m_CurConn' = m_CurConn + 1
        /\ reserve' = reserve /\ destroyed' = destroyed /\ m_MaxConn' = m_MaxConn
    BY <1>3 DEF SPTake
  <2>2. /\ k \in Conns /\ k = connList[1] /\ 1 \in DOMAIN connList
        /\ Tail(connList) \in Seq(Conns) /\ Len(Tail(connList)) = Len(connList) - 1
    BY <1>q, <2>1
  <2>3. \A i \in DOMAIN connList' :
          /\ i \in Nat /\ i >= 1 /\ i + 1 \in DOMAIN connList
          /\ connList'[i] = connList[i + 1]
    BY <1>q, <2>1
  <2>4. SPTypeOK'
    <3>1. connList' \in Seq(Conns) /\ reserve' \in Nat /\ destroyed' \in BOOLEAN
      BY <1>t, <2>1, <2>2 DEF SPTypeOK
    <3>2. m_FreeConn' \in Int /\ m_CurConn' \in Int
      BY <1>q, <2>1
    <3>3. cpc' \in [Clients -> ClientPcs] /\ ccon' \in [Clients -> Conns \cup {NoConn}]
      BY <1>q, <2>1, <2>2
    <3> QED
      BY <1>q, <2>1, <3>1, <3>2, <3>3 DEF SPTypeOK
  <2>5. HeldInUse' /\ ccon[c] = NoConn
    BY <1>q, <1>t, <2>1 DEF HeldInUse
  <2>6. Free(k) /\ \A d \in Clients : ccon[d] # k
    BY <1>t, <2>2, SqlAssumption DEF Free, ConnsExclusive
  <2>7. \A i \in DOMAIN connList' : connList'[i] # k
    <3> SUFFICES ASSUME NEW i \in DOMAIN connList', connList'[i] = k PROVE FALSE
      OBVIOUS
    <3>1. i + 1 = 1
      BY <1>t, <2>2, <2>3 DEF ConnsExclusive
    <3> QED
      BY <2>3, <3>1
  <2>9. ConnsExclusive'
    <3>1. \A d, e \in Clients : ccon'[d] # NoConn /\ ccon'[d] = ccon'[e] => d = e
      BY <1>q, <1>t, <2>1, <2>6 DEF ConnsExclusive
    <3>2. ASSUME NEW d \in Clients, ccon'[d] # NoConn
          PROVE  ~(\E i \in DOMAIN connList' : connList'[i] = ccon'[d])
      <4>1. CASE d = c
        BY <1>q, <2>1, <2>7, <4>1
      <4>2. CASE d # c
        <5>1. ccon'[d] = ccon[d] /\ ccon[d] # NoConn
          BY <1>q, <2>1, <3>2, <4>2
        <5>2. ~Free(ccon[d])
          BY <1>t, <5>1 DEF ConnsExclusive
        <5> QED
          BY <2>3, <5>1, <5>2 DEF Free
      <4> QED
        BY <4>1, <4>2
    <3>3. \A i, j \in DOMAIN connList' : connList'[i] = connList'[j] => i = j
      <4> SUFFICES ASSUME NEW i \in DOMAIN connList', NEW j \in DOMAIN connList',
                          connList'[i] = connList'[j]
                   PROVE  i = j
        OBVIOUS
      <4>1. i + 1 = j + 1
        BY <1>t, <2>3 DEF ConnsExclusive
      <4> QED
        BY <2>3, <4>1
    <3> QED
      BY <3>1, <3>2, <3>3 DEF ConnsExclusive, Free
  <2>10. /\ Taking' = Taking \ {c} /\ c \in Taking /\ Giving' = Giving
         /\ Holding' = Holding \cup {c} /\ c \notin Holding
    BY <1>q, <2>1, <2>2 DEF Taking, Giving, Holding
  <2>11. /\ Cardinality(Taking') = Cardinality(Taking) - 1
         /\ Cardinality(Holding') = Cardinality(Holding) + 1
    BY <2>10, FS_AddElement, FS_RemoveElement
  <2>12. ReserveCounts'
    <3>1. m_MaxConn \in Nat
      BY <1>t DEF SPTypeOK
    <3> SUFFICES ASSUME ~destroyed PROVE ReserveCounts'
      BY <2>1 DEF ReserveCounts
    <3>2. /\ reserve + Cardinality(Taking) + Cardinality(Giving) = Len(connList)
          /\ m_FreeConn = Len(connList) /\ m_CurConn = Cardinality(Holding)
          /\ m_FreeConn + m_CurConn = m_MaxConn
      BY <1>t DEF ReserveCounts
    <3>3. Len(connList') = Len(connList) - 1
      BY <2>1, <2>2
    <3>4. reserve' + Cardinality(Taking') + Cardinality(Giving') = Len(connList')
      <4>1. /\ reserve' = reserve /\ Cardinality(Giving') = Cardinality(Giving)
            /\ Cardinality(Taking') = Cardinality(Taking) - 1
        BY <2>1, <2>10, <2>11
      <4>2. /\ reserve \in Int /\ Len(connList) \in Int
            /\ Cardinality(Taking) \in Int /\ Cardinality(Giving) \in Int
        BY <1>q
      <4>3. /\ Len(connList') = Len(connList) - 1
            /\ reserve + Cardinality(Taking) + Cardinality(Giving) = Len(connList)
        BY <3>2, <3>3
      <4> QED
        BY <4>1, <4>2, <4>3
    <3>5. /\ m_FreeConn' = Len(connList') /\ m_CurConn' = Cardinality(Holding')
          /\ m_FreeConn' + m_CurConn' = m_MaxConn'
      <4>1. /\ Cardinality(Holding) \in Int /\ m_MaxConn' = m_MaxConn
            /\ Cardinality(Holding') = Cardinality(Holding) + 1
        BY <2>1, <2>11
      <4> QED
        BY <1>q, <2>1, <3>1, <3>2, <3>3, <4>1
    <3> QED
      BY <2>1, <3>4, <3>5 DEF ReserveCounts
  <2>13. ConnectionGiven'
    BY <1>q, <1>t, <2>1, <2>2 DEF ConnectionGiven
  <2> QED
    BY <2>4, <2>5, <2>9, <2>12, <2>13 DEF SPInv
<1>4. ASSUME NEW c \in Clients, SPTakeEmpty(c) PROVE SPInv'
  <2>1. destroyed
    BY <1>4, <1>t, TakerFinds DEF SPTakeEmpty
  <2>2. SPTypeOK' /\ HeldInUse'
    BY <1>4, <1>q, <1>t DEF SPTakeEmpty, SPTypeOK, HeldInUse
  <2> QED
    BY <1>4, <1>t, <2>1, <2>2
    DEF SPTakeEmpty, SPInv, ConnsExclusive, Free, ReserveCounts, ConnectionGiven
<1>5. ASSUME NEW c \in Clients, SPRelease(c) PROVE SPInv'
  <2> DEFINE k == ccon[c]
  <2>1. /\ cpc[c] = "use" /\ k # NoConn /\ connList' = Append(connList, k)
        /\ ccon' = [ccon EXCEPT ![c] = NoConn] /\ cpc' = [cpc EXCEPT ![c] = "post"]
        /\ m_FreeConn' = m_FreeConn + 1 /\ m_CurConn' = m_CurConn - 1
        /\ reserve' = reserve /\ destroyed' = destroyed /\ m_MaxConn' = m_MaxConn
    BY <1>5 DEF SPRelease
  <2>2. k \in Conns /\ ~Free(k)
    BY <1>q, <1>t, <2>1 DEF ConnsExclusive
  <2>3. /\ Append(connList, k) \in Seq(Conns)
        /\ Len(Append(connList, k)) = Len(connList) + 1
        /\ \A i \in DOMAIN connList' :
             \/ i \in DOMAIN connList /\ connList'[i] = connList[i]
             \/ i = Len(connList) + 1 /\ connList'[i] = k
    BY <1>q, <2>1, <2>2
  <2>4. SPTypeOK' /\ HeldInUse'
    BY <1>q, <1>t, <2>1, <2>3 DEF SPTypeOK, HeldInUse, SPRelease
  <2>5. ConnsExclusive'
    <3>1. \A d, e \in Clients : ccon'[d] # NoConn /\ ccon'[d] = ccon'[e] => d = e
      BY <1>q, <1>t, <2>1 DEF ConnsExclusive
    <3>3. ASSUME NEW d \in Clients, ccon'[d] # NoConn
          PROVE  ~(\E i \in DOMAIN connList' : connList'[i] = ccon'[d])
      <4>1. d # c /\ ccon'[d] = ccon[d] /\ ccon[d] # NoConn
        BY <1>q, <2>1, <3>3
      <4>2. ~Free(ccon[d]) /\ ccon[d] # k
        BY <1>t, <2>1, <4>1 DEF ConnsExclusive
      <4> QED
        BY <2>3, <4>1, <4>2 DEF Free
    <3>4. \A i, j \in DOMAIN connList' : connList'[i] = connList'[j] => i = j
      BY <1>t, <2>2, <2>3 DEF ConnsExclusive, Free
    <3> QED
      BY <3>1, <3>3, <3>4 DEF ConnsExclusive, Free
  <2>6. /\ Giving' = Giving \cup {c} /\ c \notin Giving /\ Taking' = Taking
        /\ Holding' = Holding \ {c} /\ c \in Holding
    BY <1>q, <2>1 DEF Taking, Giving, Holding
  <2>7. /\ Cardinality(Giving') = Cardinality(Giving) + 1
        /\ Cardinality(Holding') = Cardinality(Holding) - 1
    BY <2>6, FS_AddElement, FS_RemoveElement
  <2>8. ReserveCounts'
    <3>1. m_MaxConn \in Nat
      BY <1>t DEF SPTypeOK
    <3> SUFFICES ASSUME ~destroyed PROVE ReserveCounts'
      BY <2>1 DEF ReserveCounts
    <3>2. /\ reserve + Cardinality(Taking) + Cardinality(Giving) = Len(connList)
          /\ m_FreeConn = Len(connList) /\ m_CurConn = Cardinality(Holding)
          /\ m_FreeConn + m_CurConn = m_MaxConn
      BY <1>t DEF ReserveCounts
    <3>3. Len(connList') = Len(connList) + 1
      BY <2>1, <2>3
    <3>4. /\ reserve \in Int /\ Len(connList) \in Int /\ Cardinality(Holding) \in Int
          /\ Cardinality(Taking) \in Int /\ Cardinality(Giving) \in Int
      BY <1>q
    <3>5. reserve' + Cardinality(Taking') + Cardinality(Giving') = Len(connList')
      <4>1. /\ reserve' = reserve /\ Cardinality(Taking') = Cardinality(Taking)
            /\ Cardinality(Giving') = Cardinality(Giving) + 1
        <5>1. reserve' = reserve
          BY <2>1
        <5>2. Cardinality(Taking') = Cardinality(Taking)
          BY <2>6
        <5>3. Cardinality(Giving') = Cardinality(Giving) + 1
          BY <2>7
        <5> QED
          BY <5>1, <5>2, <5>3
      <4>2. /\ reserve \in Int /\ Len(connList) \in Int
            /\ Cardinality(Taking) \in Int /\ Cardinality(Giving) \in Int
        BY <3>4
      <4>3. /\ Len(connList') = Len(connList) + 1
            /\ reserve + Cardinality(Taking) + Cardinality(Giving) = Len(connList)
        BY <3>2, <3>3
      <4> QED
        BY <4>1, <4>2, <4>3
    <3>6. /\ m_FreeConn' = Len(connList') /\ m_CurConn' = Cardinality(Holding')
          /\ m_FreeConn' + m_CurConn' = m_MaxConn'
      <4>1. /\ m_FreeConn' = m_FreeConn + 1 /\ m_CurConn' = m_CurConn - 1
            /\ m_MaxConn' = m_MaxConn /\ Cardinality(Holding') = Cardinality(Holding) - 1
        BY <2>1, <2>7
      <4>2. m_FreeConn' = Len(connList')
        BY <3>2, <3>3, <4>1
      <4>3. m_CurConn' = Cardinality(Holding')
        BY <3>2, <4>1
      <4> QED
        BY <3>1, <3>2, <3>4, <4>1, <4>2, <4>3
    <3> QED
      BY <2>1, <3>5, <3>6 DEF ReserveCounts
  <2>9. ConnectionGiven'
    BY <1>q, <1>t, <2>1 DEF ConnectionGiven
  <2> QED
    BY <2>4, <2>5, <2>8, <2>9 DEF SPInv
<1>6. ASSUME NEW c \in Clients, SPReleaseNull(c) PROVE SPInv'
  <2>1. Taking' = Taking /\ Giving' = Giving
    BY <1>6, <1>q DEF SPReleaseNull, Taking, Giving
  <2>2. /\ cpc' \in [Clients -> ClientPcs]
        /\ \A d \in Clients : ccon[d] # NoConn => cpc'[d] = "use"
        /\ \A d \in Clients : cpc'[d] = "use" => cpc[d] = "use"
    BY <1>6, <1>q, <1>t DEF SPReleaseNull, HeldInUse
  <2> QED
    BY <1>6, <1>q, <2>1, <2>2, ClientMoves DEF SPReleaseNull
<1>7. ASSUME NEW c \in Clients, SPPost(c) PROVE SPInv'
  <2>1. Giving' = Giving \ {c} /\ c \in Giving /\ Taking' = Taking
    BY <1>7, <1>q DEF SPPost, Taking, Giving
  <2>2. Cardinality(Giving') = Cardinality(Giving) - 1
    BY <2>1, FS_RemoveElement
  <2>3. /\ cpc' \in [Clients -> ClientPcs] /\ reserve' = reserve + 1 /\ reserve' \in Nat
        /\ \A d \in Clients : ccon[d] # NoConn => cpc'[d] = "use"
        /\ \A d \in Clients : cpc'[d] = "use" => cpc[d] = "use"
    BY <1>7, <1>q, <1>t DEF SPPost, HeldInUse
  <2>4. reserve' + Cardinality(Taking') + Cardinality(Giving')
          = reserve + Cardinality(Taking) + Cardinality(Giving)
    BY <1>q, <2>1, <2>2, <2>3
  <2> QED
    BY <1>7, <2>3, <2>4, ClientMoves DEF SPPost
<1>8. CASE SPDestroy
  <2>1. SPTypeOK' /\ HeldInUse'
    <3>1. m_FreeConn' \in Int /\ m_CurConn' \in Int
      BY <1>8, <1>q DEF SPDestroy
    <3>2. connList' \in Seq(Conns)
      BY <1>8 DEF SPDestroy
    <3> QED
      BY <1>8, <1>q, <1>t, <3>1, <3>2 DEF SPDestroy, SPTypeOK, HeldInUse
  <2>2. ConnsExclusive'
    <3>1. DOMAIN connList' = {}
      BY <1>8 DEF SPDestroy
    <3> QED
      BY <1>8, <1>t, <3>1 DEF SPDestroy, ConnsExclusive, Free
  <2> QED
    BY <1>8, <2>1, <2>2 DEF SPDestroy, SPInv, ReserveCounts, ConnectionGiven
<1>9. CASE UNCHANGED spvars
  BY <1>9 DEF spvars, SPInv, SPTypeOK, HeldInUse, ConnsExclusive, Free, ReserveCounts,
              Taking, Giving, Holding, ConnectionGiven
<1> QED
  BY <1>1, <1>2, <1>3, <1>4, <1>5, <1>6, <1>7, <1>8, <1>9 DEF SPNext, SPClient

LEMMA SPInvariant == SPSpec => []SPInv
<1>1. SPInit => SPInv
  <2> SUFFICES ASSUME SPInit PROVE SPInv
    OBVIOUS
  <2>1. m_MaxConn \in Nat \ {0} /\ m_MaxConn <= MaxConn
    BY SqlAssumption DEF SPInit, Conns
  <2>2. /\ connList \in [1..m_MaxConn -> Conns]
        /\ \A i, j \in DOMAIN connList : connList[i] = connList[j] => i = j
    <3>1. \A i \in 1..m_MaxConn : i \in Conns
      BY <2>1, SqlAssumption DEF Conns
    <3> QED
      BY <3>1 DEF SPInit
  <2>3. connList \in Seq(Conns) /\ Len(connList) = m_MaxConn
    BY <2>1, <2>2
  <2>4. Taking = {} /\ Giving = {} /\ Holding = {}
    BY DEF SPInit, Taking, Giving, Holding
  <2>5. Cardinality(Taking) = 0 /\ Cardinality(Giving) = 0 /\ Cardinality(Holding) = 0
    BY <2>4, FS_EmptySet
  <2>6. SPTypeOK
    <3>1. /\ reserve = Len(connList) /\ m_FreeConn = Len(connList) /\ m_CurConn = 0
          /\ destroyed = FALSE
      BY DEF SPInit
    <3>2. reserve \in Nat /\ m_FreeConn \in Int /\ m_CurConn \in Int
      BY <2>1, <2>3, <3>1
    <3>3. cpc \in [Clients -> ClientPcs] /\ ccon \in [Clients -> Conns \cup {NoConn}]
      BY DEF SPInit, ClientPcs
    <3> QED
      BY <2>1, <2>3, <3>1, <3>2, <3>3 DEF SPTypeOK
  <2>7. HeldInUse /\ ConnsExclusive /\ ConnectionGiven
    BY <2>2 DEF SPInit, HeldInUse, ConnsExclusive, ConnectionGiven
  <2>8. ReserveCounts
    BY <2>1, <2>3, <2>5 DEF SPInit, ReserveCounts
  <2> QED
    BY <2>6, <2>7, <2>8 DEF SPInv
<1>2. SPInv /\ [SPNext]_spvars => SPInv'
  BY SPStep
<1> QED
  BY <1>1, <1>2, PTL DEF SPSpec

(* Every variable of the pool keeps its type: the semaphore never goes     *)
(* below zero, and list and threads hold connections of the pool only.     *)
THEOREM SqlPoolTypes == SPSpec => []SPTypeOK
<1>1. SPInv => SPTypeOK
  BY DEF SPInv
<1> QED
  BY SPInvariant, <1>1, PTL

(* Two threads never hold the same connection, and none is free while held. *)
THEOREM ConnectionsExclusive == SPSpec => []ConnsExclusive
<1>1. SPInv => ConnsExclusive
  BY DEF SPInv
<1> QED
  BY SPInvariant, <1>1, PTL

(* Until the pool is destroyed, semaphore, list and counters agree. *)
THEOREM ReserveAgrees == SPSpec => []ReserveCounts
<1>1. SPInv => ReserveCounts
  BY DEF SPInv
<1> QED
  BY SPInvariant, <1>1, PTL

(* With at least as many connections as threads nobody gets nullptr. *)
THEOREM EnoughConnections == SPSpec => []ConnectionGiven
<1>1. SPInv => ConnectionGiven
  BY DEF SPInv
<1> QED
  BY SPInvariant, <1>1, PTL

----------------------------------------------------------------------------
(* Composed, the two pools behave as each does alone, so what is proved of *)
(* either holds of the workers.                                            *)

(* Every behaviour of the workers is one of the thread pool: taking a      *)
(* connection between two steps of run() adds nothing to the queue.        *)
THEOREM ImplementsThreadPool == Spec => TPSpec
<1>1. Init => TPInit
  BY DEF Init
<1>2. [Next]_wvars => [TPNext]_tpvars
  <2> SUFFICES ASSUME [Next]_wvars PROVE [TPNext]_tpvars
    OBVIOUS
  <2>1. ASSUME NEW w \in Workers, WorkerStep(w) PROVE [TPNext]_tpvars
    <3>1. CASE Loop(w)
      BY <3>1 DEF Loop, TPNext, TPWorker
    <3>2. CASE \/ ReadOnce(w) \/ RaiseFlag(w) \/ GetConnection(w)
               \/ Process(w) \/ ReleaseConnection(w)
      BY <3>2 DEF ReadOnce, RaiseFlag, GetConnection, Process, ReleaseConnection
    <3>3. CASE Finish(w)
      BY <3>3 DEF Finish, TPNext, TPWorker
    <3> QED
      BY <2>1, <3>1, <3>2, <3>3 DEF WorkerStep
  <2>2. ASSUME NEW p \in Producers, MainStep(p) PROVE [TPNext]_tpvars
    <3>1. CASE ProducerStep(p)
      BY <3>1 DEF ProducerStep, TPNext
    <3>2. ASSUME NEW r \in Handed, Hand(p, r) PROVE [TPNext]_tpvars
      BY <3>2, ClientsAssumption DEF Hand, TPNext, TPProducer
    <3>3. CASE HandPost(p)
      BY <3>3 DEF HandPost, TPNext, TPProducer
    <3>4. CASE Collect(p)
      BY <3>4 DEF Collect
    <3> QED
      BY <2>2, <3>1, <3>2, <3>3, <3>4 DEF MainStep
  <2>3. CASE Destroy
    BY <2>3 DEF Destroy, TPNext
  <2>4. CASE UNCHANGED wvars
    BY <2>4 DEF wvars
  <2> QED
    BY <2>1, <2>2, <2>3, <2>4 DEF Next
<1> QED
  BY <1>1, <1>2, PTL DEF Spec, TPSpec

(* And one of the SQL pool, with the threads as its clients. *)
THEOREM ImplementsSqlPool == Spec => SPSpec
<1>1. Init => SPInit
  BY DEF Init
<1>2. [Next]_wvars => [SPNext]_spvars
  <2> SUFFICES ASSUME [Next]_wvars PROVE [SPNext]_spvars
    OBVIOUS
  <2>1. ASSUME NEW w \in Workers, WorkerStep(w) PROVE [SPNext]_spvars
    <3>1. CASE Loop(w) \/ ReadOnce(w) \/ RaiseFlag(w) \/ Process(w) \/ Finish(w)
      BY <3>1 DEF Loop, ReadOnce, RaiseFlag, Process, Finish
    <3>2. CASE GetConnection(w) \/ ReleaseConnection(w)
      BY <3>2, ClientsAssumption DEF GetConnection, ReleaseConnection, SPNext, SPClient
    <3> QED
      BY <2>1, <3>1, <3>2 DEF WorkerStep
  <2>2. ASSUME NEW p \in Producers, MainStep(p) PROVE [SPNext]_spvars
    BY <2>2 DEF MainStep, ProducerStep, Hand, HandPost, Collect
  <2>3. CASE Destroy
    BY <2>3 DEF Destroy, SPNext
  <2>4. CASE UNCHANGED wvars
    BY <2>4 DEF wvars
  <2> QED
    BY <2>1, <2>2, <2>3, <2>4 DEF Next
<1> QED
  BY <1>1, <1>2, PTL DEF Spec, SPSpec

(* However many workers and connections, the semaphore of the queue counts *)
(* the requests that no worker has claimed.                                *)
THEOREM WorkersCountRequests == Spec => []SemaphoreCounts
  BY ImplementsThreadPool, SemaphoreAgrees, PTL

(* The workers keep the types of both pools. *)
THEOREM WorkersKeepTypes == Spec => []TPTypeOK /\ []SPTypeOK
  BY ImplementsThreadPool, ThreadPoolTypes, ImplementsSqlPool, SqlPoolTypes, PTL

(* However many workers and connections, no connection is used by two of   *)
(* them, and semaphore, list and counters of the SQL pool agree.           *)
THEOREM WorkersShareConnections == Spec => []ConnsExclusive /\ []ReserveCounts
  BY ImplementsSqlPool, ConnectionsExclusive, ReserveAgrees, PTL

(* No worker processes a request without a connection when there is one    *)
(* for each.                                                               *)
THEOREM WorkersGetConnections == Spec => []ConnectionGiven
  BY ImplementsSqlPool, EnoughConnections, PTL

(* Why append() never refuses in actor_model 1: the request that main      *)
(* waits for is the only one queued or taken and not yet read, and improv  *)
(* is up for it only after it was read.                                    *)
Queued(r) == \E i \in DOMAIN m_workqueue : m_workqueue[i] = r
Unread == {w \in Workers : wpc[w] = "run" /\ stage[w] = "taken"}
OneAtATime ==
  /\ Len(m_workqueue) <= 1
  /\ Queued(awaited) \/ m_workqueue = <<>>
  /\ \A w \in Unread : /\ wreq[w] = awaited /\ awaited \in Handed
                       /\ improv[awaited] = 0 /\ m_workqueue = <<>>
  /\ \A v, w \in Unread : v = w
  /\ \A r \in Handed : improv[r] # 0 => r = awaited /\ m_workqueue = <<>>
HandTypes ==
  /\ awaited \in Handed \cup {NoRequest}
  /\ stage \in [Workers -> Stages] /\ improv \in [Handed -> {0, 1}]
  /\ \A w \in Workers : wpc[w] # "run" => stage[w] = "taken"
HandInv == m_actor_model = 1 => HandTypes /\ OneAtATime

LEMMA HandStep == TPTypeOK /\ HandInv /\ [Next]_wvars => HandInv'
<1> SUFFICES ASSUME TPTypeOK, HandInv, [Next]_wvars, m_actor_model' = 1 PROVE HandInv'
  BY DEF HandInv
<1>0. m_actor_model = 1 /\ m_actor_model' = m_actor_model
  BY DEF Next, WorkerStep, Loop, ReadOnce, RaiseFlag, GetConnection, Process,
         ReleaseConnection, Finish, MainStep, ProducerStep, Hand, HandPost, Collect,
         Destroy, wvars
<1>t. /\ HandTypes /\ OneAtATime /\ m_workqueue \in Seq(Requests)
      /\ wpc \in [Workers -> WorkerPcs] /\ wreq \in [Workers -> Requests \cup {NoRequest}]
  BY <1>0 DEF HandInv, TPTypeOK
<1>h. NoRequest \notin Requests /\ Handed \subseteq Requests
  BY PoolAssumption, ClientsAssumption
<1>e. ASSUME awaited = NoRequest PROVE m_workqueue = <<>>
  BY <1>e, <1>t, <1>h DEF OneAtATime, Queued
<1>a. SUFFICES HandTypes' /\ OneAtATime'
  BY DEF HandInv
<1>1. ASSUME NEW w \in Workers, Loop(w) PROVE HandTypes' /\ OneAtATime'
  <2>1. HandTypes'
    BY <1>1, <1>t DEF Loop, TPCheck, TPWait, TPTake, HandTypes, reactorvars
  <2>2. UNCHANGED <<stage, improv, awaited>>
    BY <1>1 DEF Loop, reactorvars
  <2>3. CASE TPCheck(w) \/ TPWait(w)
    <3>1. Unread' = Unread /\ UNCHANGED <<m_workqueue, wreq>>
      BY <2>2, <2>3, <1>t DEF TPCheck, TPWait, Unread
    <3> QED
      BY <1>t, <2>1, <2>2, <3>1 DEF OneAtATime, Queued
  <2>4. CASE TPTake(w)
    <3>1. CASE m_workqueue = <<>>
      <4>1. Unread' = Unread /\ UNCHANGED <<m_workqueue, wreq>>
        BY <2>2, <2>4, <3>1, <1>t DEF TPTake, Unread
      <4> QED
        BY <1>t, <2>1, <2>2, <4>1 DEF OneAtATime, Queued
    <3>2. CASE m_workqueue # <<>>
      <4>1. Len(m_workqueue) = 1 /\ Head(m_workqueue) = awaited /\ Tail(m_workqueue) = <<>>
        <5>1. Len(m_workqueue) \in Nat /\ Len(m_workqueue) # 0 /\ Len(m_workqueue) <= 1
          BY <1>t, <3>2 DEF OneAtATime
        <5>2. DOMAIN m_workqueue = {1}
          <6>1. Len(m_workqueue) = 1
            BY <5>1
          <6> QED
            BY <1>t, <6>1
        <5>3. m_workqueue[1] = awaited
          BY <1>t, <3>2, <5>2 DEF OneAtATime, Queued
        <5>4. Tail(m_workqueue) \in Seq(Requests) /\ Len(Tail(m_workqueue)) = 0
          <6>1. Len(m_workqueue) = 1
            BY <5>1
          <6> QED
            BY <1>t, <3>2, <6>1
        <5> QED
          BY <1>t, <5>1, <5>3, <5>4
      <4>2. awaited \in Handed
        BY <1>t, <1>h, <3>2, <4>1 DEF HandTypes
      <4>3. Unread = {} /\ improv[awaited] = 0
        BY <1>t, <3>2, <4>2 DEF OneAtATime
      <4>4. /\ m_workqueue' = <<>> /\ wreq' = [wreq EXCEPT ![w] = awaited]
            /\ wpc' = [wpc EXCEPT ![w] = "run"]
        BY <2>4, <3>2, <4>1 DEF TPTake
      <4>5. Unread' \subseteq {w} /\ wreq'[w] = awaited
        BY <1>t, <2>2, <4>3, <4>4 DEF Unread
      <4>6. \A r \in Handed : improv[r] = 0
        BY <1>t, <3>2 DEF OneAtATime
      <4> QED
        BY <2>1, <2>2, <4>2, <4>3, <4>4, <4>5, <4>6 DEF OneAtATime
    <3> QED
      BY <3>1, <3>2
  <2> QED
    BY <1>1, <2>3, <2>4 DEF Loop
<1>2. ASSUME NEW w \in Workers, ReadOnce(w) PROVE HandTypes' /\ OneAtATime'
  <2>1. w \in Unread
    BY <1>2 DEF ReadOnce, Unread
  <2>2. /\ Unread = {w} /\ wreq[w] = awaited /\ awaited \in Handed /\ m_workqueue = <<>>
    BY <1>t, <2>1 DEF OneAtATime
  <2>3. /\ improv' = [improv EXCEPT ![awaited] = 1] /\ UNCHANGED <<tpvars, awaited>>
        /\ stage' \in [Workers -> Stages] /\ stage'[w] # "taken"
        /\ \A v \in Workers \ {w} : stage'[v] = stage[v]
    BY <1>2, <1>t, <2>2 DEF ReadOnce, reaches, HandTypes, Stages
  <2>4. HandTypes'
    BY <1>2, <1>t, <2>3 DEF ReadOnce, HandTypes, tpvars
  <2>5. Unread' = {} /\ m_workqueue' = <<>>
    BY <2>2, <2>3 DEF Unread, tpvars
  <2>6. \A r \in Handed : improv'[r] # 0 => r = awaited
    BY <1>t, <2>3 DEF OneAtATime, HandTypes
  <2> QED
    BY <2>3, <2>4, <2>5, <2>6 DEF OneAtATime
<1>3. ASSUME NEW w \in Workers,
             RaiseFlag(w) \/ GetConnection(w) \/ Process(w) \/ ReleaseConnection(w)
      PROVE  HandTypes' /\ OneAtATime'
  <2>1. UNCHANGED <<tpvars, improv, awaited>>
    BY <1>3 DEF RaiseFlag, GetConnection, Process, ReleaseConnection, reactorvars
  <2>2. /\ stage' \in [Workers -> Stages]
        /\ \A v \in Workers : stage'[v] = "taken" => stage[v] = "taken"
        /\ \A v \in Workers : stage'[v] # stage[v] => stage[v] # "taken" \/ wpc[v] = "run"
    <3>1. CASE RaiseFlag(w)
      BY <3>1, <1>t DEF RaiseFlag, reaches, HandTypes, Stages
    <3>2. CASE Process(w)
      BY <3>2, <1>t DEF Process, reaches, HandTypes, Stages
    <3>3. CASE GetConnection(w) \/ ReleaseConnection(w)
      BY <3>3, <1>t DEF GetConnection, ReleaseConnection, HandTypes
    <3> QED
      BY <1>3, <3>1, <3>2, <3>3
  <2>3. Unread' \subseteq Unread
    BY <2>1, <2>2 DEF Unread, tpvars
  <2> QED
    BY <1>t, <2>1, <2>2, <2>3 DEF HandTypes, OneAtATime, Queued, tpvars
<1>4. ASSUME NEW w \in Workers, Finish(w) PROVE HandTypes' /\ OneAtATime'
  <2>1. /\ UNCHANGED <<m_workqueue, improv, awaited>>
        /\ stage[w] = "served" /\ stage' = [stage EXCEPT ![w] = "taken"]
        /\ wpc' = [wpc EXCEPT ![w] = "check"] /\ wreq' = [wreq EXCEPT ![w] = NoRequest]
    BY <1>4 DEF Finish, TPDone, reaches, reactorvars
  <2>2. HandTypes'
    BY <1>t, <2>1 DEF HandTypes, Stages
  <2>3. Unread' = Unread /\ \A v \in Unread : wreq'[v] = wreq[v]
    BY <1>t, <2>1 DEF HandTypes, Unread
  <2> QED
    BY <1>t, <2>1, <2>2, <2>3 DEF OneAtATime, Queued
<1>5. ASSUME NEW p \in Producers, MainStep(p) PROVE HandTypes' /\ OneAtATime'
  <2>1. ~ProducerStep(p)
    BY <1>0 DEF ProducerStep
  <2>2. ASSUME NEW r \in Handed, Hand(p, r) PROVE HandTypes' /\ OneAtATime'
    <3>1. m_workqueue = <<>> /\ awaited = NoRequest /\ awaited' = r
      BY <2>2, <1>e DEF Hand
    <3>2. /\ UNCHANGED <<wpc, wreq, stage, improv>>
          /\ m_workqueue' = <<>> \/ m_workqueue' = <<r>>
      BY <2>2, <3>1 DEF Hand, TPAppend, tpvars
    <3>3. Unread = {} /\ Unread' = Unread /\ \A s \in Handed : improv[s] = 0
      BY <1>t, <1>h, <3>1, <3>2 DEF OneAtATime, Unread
    <3>4. m_workqueue' = <<>> \/ (Queued(awaited)' /\ Len(m_workqueue') = 1)
      BY <3>1, <3>2 DEF Queued
    <3>5. HandTypes'
      BY <1>t, <3>1, <3>2 DEF HandTypes
    <3>6. Len(m_workqueue') <= 1 /\ (Queued(awaited)' \/ m_workqueue' = <<>>)
      <4>1. CASE m_workqueue' = <<>>
        BY <4>1
      <4>2. CASE Queued(awaited)' /\ Len(m_workqueue') = 1
        <5>1. Len(m_workqueue') <= 1
          BY <4>2
        <5> QED
          BY <4>2, <5>1
      <4> QED
        BY <3>4, <4>1, <4>2
    <3>7. OneAtATime'
      BY <3>2, <3>3, <3>6 DEF OneAtATime
    <3> QED
      BY <3>5, <3>7
  <2>3. CASE HandPost(p)
    <3>1. UNCHANGED <<m_workqueue, wpc, wreq, stage, improv, awaited>>
      BY <2>3 DEF HandPost, TPPost, reactorvars
    <3> QED
      BY <1>t, <3>1 DEF HandTypes, OneAtATime, Queued, Unread
  <2>4. CASE Collect(p)
    <3>1. /\ UNCHANGED <<m_workqueue, wpc, wreq, stage>> /\ awaited' = NoRequest
          /\ improv' = [improv EXCEPT ![awaited] = 0] /\ improv[awaited] = 1
          /\ awaited \in Handed
      BY <2>4, <1>t DEF Collect, tpvars, HandTypes
    <3>2. m_workqueue = <<>> /\ Unread = {}
      BY <1>t, <3>1 DEF OneAtATime
    <3>3. Unread' = {} /\ \A s \in Handed : improv'[s] = 0
      BY <1>t, <3>1, <3>2 DEF OneAtATime, Unread, HandTypes
    <3> QED
      BY <1>t, <3>1, <3>2, <3>3 DEF HandTypes, OneAtATime
  <2> QED
    BY <1>5, <2>1, <2>2, <2>3, <2>4 DEF MainStep
<1>6. CASE Destroy \/ UNCHANGED wvars
  <2>1. UNCHANGED <<m_workqueue, wpc, wreq, stage, improv, awaited>>
    BY <1>6 DEF Destroy, TPDestroy, reactorvars, wvars, tpvars
  <2> QED
    BY <1>t, <2>1 DEF HandTypes, OneAtATime, Queued, Unread
<1> QED
  BY <1>1, <1>2, <1>3, <1>4, <1>5, <1>6 DEF Next, WorkerStep

(* In actor_model 1 at most one request is ever queued, so append() never  *)
(* refuses one and leaves main waiting for a worker that will not come.    *)
THEOREM MainNeverRefused == Spec => []NeverRefused
<1>1. Init => HandInv
  BY PoolAssumption, ClientsAssumption
  DEF Init, TPInit, HandInv, HandTypes, OneAtATime, Unread, Stages
<1>2. TPTypeOK /\ HandInv /\ [Next]_wvars => HandInv'
  BY HandStep
<1>3. HandInv => NeverRefused
  BY DEF HandInv, OneAtATime, NeverRefused
<1>4. Spec => []TPTypeOK
  BY ImplementsThreadPool, ThreadPoolTypes, PTL
<1> QED
  BY <1>1, <1>2, <1>3, <1>4, PTL DEF Spec
=============================================================================
