-------------------------- MODULE RegistryProofs --------------------------
(* Theorems of Registry, for any workers, names, passwords and restarts. *)
EXTENDS Registry, TLAPS

Inserting(w) == pc[w] = "insert"

(* The lock is held from lock() to unlock(). *)
LockHeld == \A w \in Workers : pc[w] \in {"query", "insert"} <=> m_lock = w

(* What a worker between the query and users.insert knows. *)
Inserted(w) ==
  /\ inserted[w] => /\ table[name(w)] = password(w)
                    /\ \A i \in DOMAIN granted : granted[i][1] # name(w)
  /\ ~inserted[w] /\ name(w) \notin doubtful => users[name(w)] # Nothing

(* But for the doubtful names, the map never contradicts the               *)
(* table, and lacks of it at most the name that is about to be inserted.   *)
MapInTable == \A n \in Names \ doubtful : users[n] # Nothing => table[n] = users[n]
TableInMap ==
  \A n \in Names \ doubtful : table[n] # Nothing /\ users[n] = Nothing =>
    \E w \in Workers : Inserting(w) /\ inserted[w] /\ name(w) = n

(* What was granted is in the table, and in the map that login searches. *)
GrantedInTable == \A i \in DOMAIN granted : table[granted[i][1]] = granted[i][2]
GrantedInMap ==
  \A i \in DOMAIN granted :
    granted[i][1] \notin doubtful => users[granted[i][1]] = granted[i][2]

RInv ==
  /\ RTypeOK /\ LockHeld /\ \A w \in Workers : Inserting(w) => Inserted(w)
  /\ MapInTable /\ TableInMap /\ GrantedInTable /\ GrantedInMap /\ GrantedOnce
  /\ WelcomeEarned

LEMMA PostedTyped ==
  ASSUME RTypeOK
  PROVE  /\ \A w \in Workers : name(w) \in Names /\ password(w) \in Passwords
         /\ \A w \in Workers : posted[w] = <<name(w), password(w)>>
         /\ \A i \in DOMAIN granted : granted[i] \in Posted
         /\ \A i \in DOMAIN granted : granted[i][1] \in Names /\ granted[i][2] \in Passwords
<1>1. \A w \in Workers : posted[w] \in Names \X Passwords
  BY RegistryAssumption DEF RTypeOK
<1>2. granted \in Seq(Posted)
  BY DEF RTypeOK
<1>3. \A i \in DOMAIN granted : granted[i] \in Posted
  BY <1>2
<1>4. \A i \in DOMAIN granted : granted[i] \in Names \X Passwords
  BY <1>3, RegistryAssumption
<1> QED
  BY <1>1, <1>3, <1>4 DEF name, password

(* A step that leaves map, table, answers and the workers at users.insert  *)
(* alone.                                                                  *)
LEMMA Aside ==
  ASSUME RInv, RTypeOK', LockHeld', WelcomeEarned',
         UNCHANGED <<users, table, granted>>, doubtful' = doubtful,
         \A w \in Workers : Inserting(w)' <=> Inserting(w),
         \A w \in Workers : Inserting(w) => /\ posted'[w] = posted[w]
                                            /\ inserted'[w] = inserted[w]
  PROVE  RInv'
<1>1. \A w \in Workers : Inserting(w)' => Inserted(w)'
  BY DEF RInv, Inserted, name, password
<1>2. MapInTable' /\ GrantedInTable' /\ GrantedInMap' /\ GrantedOnce'
  BY DEF RInv, MapInTable, GrantedInTable, GrantedInMap, GrantedOnce
<1>3. TableInMap'
  BY DEF RInv, TableInMap, name
<1> QED
  BY <1>1, <1>2, <1>3 DEF RInv

(* The two ways the query ends: nobody else inserts meanwhile. *)
LEMMA AfterQuery ==
  ASSUME RInv, NEW w \in Workers, Query(w) \/ QueryFails(w)
  PROVE  RInv'
<1> DEFINE n == name(w)
<1>t. RTypeOK /\ LockHeld
  BY DEF RInv
<1>0. /\ pc[w] = "query" /\ pc' = [pc EXCEPT ![w] = "insert"]
      /\ UNCHANGED <<users, m_lock, posted, m_url, granted, restarts>>
  BY DEF Query, QueryFails, goto
<1>1. n \in Names /\ password(w) \in Passwords
  BY <1>t, PostedTyped
<1>2. \A v \in Workers : ~Inserting(v) /\ (Inserting(v)' <=> v = w)
  BY <1>0, <1>t DEF LockHeld, RTypeOK, Inserting
<1>3. \A v \in Workers : name(v)' = name(v) /\ password(v)' = password(v)
  BY <1>0 DEF name, password
<1>4. /\ \/ table' = table
         \/ table[n] = Nothing /\ table' = [table EXCEPT ![n] = password(w)]
      /\ inserted' \in [Workers -> BOOLEAN]
      /\ inserted'[w] => table[n] = Nothing /\ table' = [table EXCEPT ![n] = password(w)]
      /\ doubtful' = doubtful \/ doubtful' = doubtful \cup {n}
      /\ n \notin doubtful' => /\ table[n] = Nothing <=> inserted'[w]
                               /\ ~inserted'[w] => table' = table
  <2>1. inserted \in [Workers -> BOOLEAN]
    BY <1>t DEF RTypeOK
  <2>2. CASE Query(w)
    <3>1. inserted' \in [Workers -> BOOLEAN] /\ (inserted'[w] <=> table[n] = Nothing)
      BY <2>1, <2>2 DEF Query
    <3>2. doubtful' = doubtful
      BY <2>2 DEF Query
    <3>3. table' = IF table[n] = Nothing THEN [table EXCEPT ![n] = password(w)] ELSE table
      BY <2>2 DEF Query
    <3> HIDE DEF n
    <3> QED
      BY <3>1, <3>2, <3>3
  <2>3. CASE QueryFails(w)
    <3>1. inserted' \in [Workers -> BOOLEAN] /\ ~inserted'[w]
      BY <2>1, <2>3 DEF QueryFails
    <3>2. /\ doubtful' = doubtful \cup {n}
          /\ \/ table' = table
             \/ table[n] = Nothing /\ table' = [table EXCEPT ![n] = password(w)]
      BY <2>3 DEF QueryFails
    <3> HIDE DEF n
    <3> QED
      BY <3>1, <3>2
  <2> QED
    BY <2>2, <2>3
<1>5. RTypeOK'
  BY <1>0, <1>1, <1>4, <1>t DEF RTypeOK, Pcs
<1>6. LockHeld'
  BY <1>0, <1>t DEF LockHeld, RTypeOK
<1>7. \A m \in Names \ doubtful' : users[m] # Nothing => table[m] # Nothing /\ table[m] = users[m]
  BY <1>4 DEF RInv, MapInTable
<1>8. MapInTable'
  BY <1>0, <1>4, <1>7, <1>t DEF MapInTable, RTypeOK
<1>9. \A m \in Names \ doubtful' : table[m] # Nothing => users[m] # Nothing
  BY <1>2, <1>4 DEF RInv, TableInMap
<1>10. TableInMap'
  <2> SUFFICES ASSUME NEW m \in Names \ doubtful', table'[m] # Nothing, users[m] = Nothing
               PROVE  m = n /\ inserted'[w]
    BY <1>0, <1>2, <1>3 DEF TableInMap
  <2>1. table[m] = Nothing
    BY <1>9
  <2> QED
    BY <1>1, <1>4, <1>t, <2>1 DEF RTypeOK
<1>11. \A i \in DOMAIN granted : table[granted[i][1]] # Nothing
  BY <1>t, PostedTyped, RegistryAssumption DEF RInv, GrantedInTable
<1>12. \A v \in Workers : Inserting(v)' => Inserted(v)'
  <2> SUFFICES Inserted(w)'
    BY <1>2
  <2>1. ASSUME inserted'[w]
        PROVE  table'[n] = password(w) /\ \A i \in DOMAIN granted : granted[i][1] # n
    BY <1>1, <1>4, <1>11, <1>t, <2>1 DEF RTypeOK
  <2>2. ASSUME ~inserted'[w], n \notin doubtful' PROVE users[n] # Nothing
    BY <1>1, <1>4, <1>9, <2>2
  <2> QED
    BY <1>0, <1>3, <2>1, <2>2 DEF Inserted
<1>13. GrantedInTable'
  BY <1>0, <1>4, <1>11, <1>t, PostedTyped DEF RInv, GrantedInTable, RTypeOK
<1>14. GrantedInMap' /\ GrantedOnce'
  BY <1>0, <1>4 DEF RInv, GrantedInMap, GrantedOnce
<1>15. WelcomeEarned'
  <2> SUFFICES ASSUME NEW v \in Workers, m_url[v] = "welcome", name(v) \notin doubtful'
               PROVE  table'[name(v)] = password(v)
    BY <1>0, <1>3 DEF WelcomeEarned
  <2>1. table[name(v)] = password(v)
    BY <1>4 DEF RInv, WelcomeEarned
  <2>2. table[name(v)] # Nothing /\ name(v) \in Names
    BY <1>t, <2>1, PostedTyped, RegistryAssumption
  <2> QED
    BY <1>4, <1>t, <2>1, <2>2 DEF RTypeOK
<1> QED
  BY <1>5, <1>6, <1>8, <1>10, <1>12, <1>13, <1>14, <1>15 DEF RInv

LEMMA AfterInsert ==
  ASSUME RInv, NEW w \in Workers, Insert(w)
  PROVE  RInv' /\ \A n \in Names : users[n] # Nothing => users'[n] = users[n]
<1> DEFINE n == name(w)
<1>t. RTypeOK /\ LockHeld /\ Inserted(w)
  BY DEF RInv, Insert, Inserting
<1>0. /\ pc[w] = "insert" /\ pc' = [pc EXCEPT ![w] = "idle"] /\ m_lock' = NoOne
      /\ m_url' = [m_url EXCEPT ![w] = IF inserted[w] THEN "log" ELSE "registerError"]
      /\ UNCHANGED <<table, posted, inserted, doubtful, restarts>>
      /\ users' = IF users[n] = Nothing THEN [users EXCEPT ![n] = password(w)] ELSE users
      /\ granted' = IF inserted[w] THEN Append(granted, posted[w]) ELSE granted
  BY DEF Insert, Confirm, answer, goto
<1>1. /\ n \in Names /\ password(w) \in Passwords /\ posted[w] \in Posted
      /\ posted[w] = <<n, password(w)>> /\ posted[w][1] = n /\ posted[w][2] = password(w)
  BY <1>t, PostedTyped DEF RTypeOK
<1>2. \A v \in Workers : Inserting(v) <=> v = w
  BY <1>0, <1>t DEF LockHeld, Inserting
<1>3. \A v \in Workers : ~Inserting(v)'
  BY <1>0, <1>2, <1>t DEF Inserting, RTypeOK
<1>4. /\ \A m \in Names : users[m] # Nothing => users'[m] = users[m]
      /\ \A m \in Names \ {n} : users'[m] = users[m]
      /\ users'[n] = IF users[n] = Nothing THEN password(w) ELSE users[n]
      /\ users'[n] # Nothing
  BY <1>0, <1>1, <1>t, RegistryAssumption DEF RTypeOK
<1>5. granted \in Seq(Posted) /\ granted' \in Seq(Posted)
  BY <1>0, <1>1, <1>t DEF RTypeOK
<1>6. RTypeOK'
  <2>1. users' \in [Names -> Passwords \cup {Nothing}]
    BY <1>0, <1>1, <1>t DEF RTypeOK
  <2> QED
    BY <1>0, <1>5, <1>t, <2>1 DEF RTypeOK, Pcs, Pages
<1>7. LockHeld'
  <2>1. \A v \in Workers : pc[v] \in {"query", "insert"} => v = w
    BY <1>0, <1>t DEF LockHeld
  <2> QED
    BY <1>0, <1>t, <2>1, RegistryAssumption DEF LockHeld, RTypeOK
<1>8. n \notin doubtful => table[n] = users'[n]
  <2>1. CASE users[n] = Nothing
    BY <1>4, <1>t, <2>1 DEF Inserted
  <2>2. CASE users[n] # Nothing
    BY <1>1, <1>4, <2>2 DEF RInv, MapInTable
  <2> QED
    BY <2>1, <2>2
<1>9. MapInTable'
  BY <1>0, <1>4, <1>8 DEF RInv, MapInTable
<1>10. TableInMap'
  BY <1>0, <1>2, <1>4 DEF RInv, TableInMap
<1>11. /\ DOMAIN granted \subseteq DOMAIN granted'
       /\ \A i \in DOMAIN granted : granted'[i] = granted[i] /\ granted[i][1] \in Names
       /\ \A i \in DOMAIN granted' \ DOMAIN granted :
            inserted[w] /\ granted'[i] = posted[w] /\ i = Len(granted) + 1
  BY <1>0, <1>1, <1>5, <1>t, PostedTyped
<1>12. inserted[w] => table[n] = password(w) /\ \A i \in DOMAIN granted : granted[i][1] # n
  BY <1>t DEF Inserted
<1>13. GrantedInTable'
  BY <1>0, <1>1, <1>11, <1>12 DEF RInv, GrantedInTable
<1>14. GrantedInMap'
  <2> SUFFICES ASSUME NEW i \in DOMAIN granted', granted'[i][1] \notin doubtful
               PROVE  users'[granted'[i][1]] = granted'[i][2]
    BY <1>0 DEF GrantedInMap
  <2>1. CASE i \in DOMAIN granted
    <3>1. users[granted[i][1]] = granted[i][2] /\ granted[i][2] # Nothing
      BY <1>11, <1>t, <2>1, PostedTyped, RegistryAssumption DEF RInv, GrantedInMap
    <3> QED
      BY <1>4, <1>11, <2>1, <3>1
  <2>2. CASE i \notin DOMAIN granted
    BY <1>1, <1>8, <1>11, <1>12, <2>2
  <2> QED
    BY <2>1, <2>2
<1>15. GrantedOnce'
  <2> SUFFICES ASSUME NEW i \in DOMAIN granted', NEW j \in DOMAIN granted',
                      granted'[i][1] = granted'[j][1]
               PROVE  i = j
    BY DEF GrantedOnce
  <2>1. CASE i \in DOMAIN granted /\ j \in DOMAIN granted
    BY <1>11, <2>1 DEF RInv, GrantedOnce
  <2>2. CASE i \notin DOMAIN granted \/ j \notin DOMAIN granted
    BY <1>1, <1>11, <1>12, <2>2
  <2> QED
    BY <2>1, <2>2
<1>16. WelcomeEarned'
  BY <1>0, <1>t DEF RInv, WelcomeEarned, RTypeOK, name, password
<1> QED
  BY <1>3, <1>4, <1>6, <1>7, <1>9, <1>10, <1>13, <1>14, <1>15, <1>16 DEF RInv

LEMMA AfterRestart ==
  ASSUME RInv, Restart
  PROVE  RInv' /\ \A n \in Names \ doubtful : users[n] # Nothing => users'[n] = users[n]
<1>t. RTypeOK
  BY DEF RInv
<1>1. /\ users' = table /\ m_lock' = NoOne /\ pc' = [w \in Workers |-> "idle"]
      /\ UNCHANGED <<table, posted, inserted, doubtful, granted>>
      /\ m_url' = [w \in Workers |-> "none"]
      /\ restarts' \in 0 .. MaxRestarts
  BY <1>t, RegistryAssumption DEF Restart, RTypeOK
<1>2. RTypeOK' /\ LockHeld' /\ \A w \in Workers : ~Inserting(w)'
  BY <1>1, <1>t, RegistryAssumption DEF RTypeOK, LockHeld, Inserting, Pcs, Pages
<1>3. /\ MapInTable' /\ TableInMap' /\ GrantedInTable' /\ GrantedInMap' /\ GrantedOnce'
      /\ WelcomeEarned'
  BY <1>1 DEF RInv, MapInTable, TableInMap, GrantedInTable, GrantedInMap, GrantedOnce,
              WelcomeEarned
<1> QED
  BY <1>1, <1>2, <1>3 DEF RInv, MapInTable

(* The second search of a login: right, ... *)
LEMMA AfterCompare ==
  ASSUME RInv, NEW w \in Workers, LoginCompare(w)
  PROVE  RInv'
<1>t. RTypeOK /\ LockHeld
  BY DEF RInv
<1>1. /\ pc[w] = "compare" /\ pc' = [pc EXCEPT ![w] = "idle"]
      /\ m_url' = [m_url EXCEPT ![w] = IF users[name(w)] = password(w)
                                       THEN "welcome" ELSE "logError"]
      /\ UNCHANGED <<users, table, m_lock, posted, inserted, granted, doubtful, restarts>>
  BY DEF LoginCompare, answer, goto
<1>2. RTypeOK' /\ LockHeld' /\ \A v \in Workers : Inserting(v)' <=> Inserting(v)
  BY <1>t, <1>1 DEF RTypeOK, LockHeld, Inserting, Pcs, Pages
<1>3. /\ name(w) \in Names /\ password(w) # Nothing
      /\ \A v \in Workers : name(v)' = name(v) /\ password(v)' = password(v)
  BY <1>t, <1>1, PostedTyped, RegistryAssumption DEF name, password
<1>4. users[name(w)] = password(w) /\ name(w) \notin doubtful => table[name(w)] = password(w)
  BY <1>3 DEF RInv, MapInTable
<1>5. WelcomeEarned'
  BY <1>t, <1>1, <1>3, <1>4 DEF RInv, WelcomeEarned, RTypeOK
<1> QED
  BY <1>1, <1>2, <1>5, Aside

(* ... or wrong, and then the name it added is doubtful. *)
LEMMA AfterMiss ==
  ASSUME RInv, NEW w \in Workers, LoginCompareMisses(w)
  PROVE  RInv' /\ \A n \in Names \ doubtful' : users'[n] = users[n]
<1> DEFINE n == name(w)
<1>t. RTypeOK /\ LockHeld
  BY DEF RInv
<1>1. /\ pc[w] = "compare" /\ pc' = [pc EXCEPT ![w] = "idle"]
      /\ users' \in {users, [users EXCEPT ![n] = Empty]} /\ doubtful' = doubtful \cup {n}
      /\ m_url' = [m_url EXCEPT ![w] = IF password(w) = Empty THEN "welcome" ELSE "logError"]
      /\ UNCHANGED <<table, m_lock, posted, inserted, granted, restarts>>
  BY DEF LoginCompareMisses, answer, goto
<1>2. n \in Names /\ Empty \in Passwords
  BY <1>t, PostedTyped, RegistryAssumption
<1>3. \A m \in Names : m # n => users'[m] = users[m]
  BY <1>1, <1>t DEF RTypeOK
<1>4. users' \in [Names -> Passwords \cup {Nothing}]
  BY <1>1, <1>2, <1>t DEF RTypeOK
<1>5. RTypeOK' /\ LockHeld'
  BY <1>1, <1>2, <1>4, <1>t DEF RTypeOK, LockHeld, Pcs, Pages
<1>6. /\ \A v \in Workers : Inserting(v)' <=> Inserting(v)
      /\ \A v \in Workers : name(v)' = name(v) /\ password(v)' = password(v)
      /\ \A v \in Workers : name(v) \in Names
      /\ \A i \in DOMAIN granted : granted[i][1] \in Names
  BY <1>1, <1>t, PostedTyped DEF Inserting, RTypeOK, name, password
<1>7. \A v \in Workers : Inserting(v)' => Inserted(v)'
  BY <1>1, <1>3, <1>6 DEF RInv, Inserted
<1>8. MapInTable' /\ GrantedInTable' /\ GrantedInMap' /\ GrantedOnce'
  BY <1>1, <1>3, <1>6 DEF RInv, MapInTable, GrantedInTable, GrantedInMap, GrantedOnce
<1>9. TableInMap'
  BY <1>1, <1>3, <1>6 DEF RInv, TableInMap
<1>10. WelcomeEarned'
  BY <1>1, <1>6, <1>t DEF RInv, WelcomeEarned, RTypeOK
<1> QED
  BY <1>1, <1>3, <1>5, <1>7, <1>8, <1>9, <1>10 DEF RInv

LEMMA RStep == RInv /\ [Next]_vars => RInv'
<1> SUFFICES ASSUME RInv, [Next]_vars PROVE RInv'
  OBVIOUS
<1>t. RTypeOK /\ LockHeld /\ WelcomeEarned
  BY DEF RInv
<1>1. ASSUME NEW w \in Workers, NEW what \in {"login", "register"}, NEW who \in Posted,
             Request(w, what, who)
      PROVE  RInv'
  <2>1. /\ RTypeOK' /\ LockHeld' /\ UNCHANGED <<users, table, granted, doubtful, inserted>>
        /\ \A v \in Workers : Inserting(v)' <=> Inserting(v)
        /\ \A v \in Workers : Inserting(v) => posted'[v] = posted[v]
    BY <1>1, <1>t DEF Request, goto, RTypeOK, LockHeld, Inserting, Pcs, Pages
  <2>2. WelcomeEarned'
    BY <1>1, <1>t DEF Request, WelcomeEarned, RTypeOK, name, password
  <2> QED
    BY <2>1, <2>2, Aside
<1>2. ASSUME NEW w \in Workers, LoginFind(w) \/ Find(w) \/ Lock(w) PROVE RInv'
  <2>1. UNCHANGED <<users, table, granted, doubtful, inserted, posted, restarts>>
    BY <1>2 DEF LoginFind, Find, Lock
  <2>2. CASE LoginFind(w) \/ Find(w)
    <3>1. /\ pc[w] \in {"login", "register"} /\ m_lock' = m_lock
          /\ \E to \in {"idle", "compare", "lock"} : pc' = [pc EXCEPT ![w] = to]
      BY <2>2 DEF LoginFind, Find, answer, goto
    <3>2. \/ m_url' = m_url
          \/ \E page \in {"logError", "registerError"} : m_url' = [m_url EXCEPT ![w] = page]
      BY <2>2 DEF LoginFind, Find, answer
    <3>3. WelcomeEarned'
      BY <1>t, <2>1, <3>2 DEF WelcomeEarned, RTypeOK, name, password
    <3>4. RTypeOK' /\ LockHeld' /\ \A v \in Workers : Inserting(v)' <=> Inserting(v)
      BY <1>t, <2>1, <3>1, <3>2 DEF RTypeOK, LockHeld, Inserting, Pcs, Pages
    <3> QED
      BY <2>1, <3>3, <3>4, Aside
  <2>3. CASE Lock(w)
    <3>1. /\ pc[w] = "lock" /\ m_lock = NoOne /\ m_lock' = w /\ m_url' = m_url
          /\ pc' = [pc EXCEPT ![w] = "query"]
      BY <2>3 DEF Lock, goto
    <3>2. RTypeOK' /\ LockHeld' /\ \A v \in Workers : Inserting(v)' <=> Inserting(v)
      BY <1>t, <2>1, <3>1, RegistryAssumption DEF RTypeOK, LockHeld, Inserting, Pcs
    <3>3. WelcomeEarned'
      BY <1>t, <2>1, <3>1 DEF WelcomeEarned, name, password
    <3> QED
      BY <2>1, <3>2, <3>3, Aside
  <2> QED
    BY <1>2, <2>2, <2>3
<1>3. CASE UNCHANGED vars
  <2>1. RTypeOK' /\ LockHeld' /\ WelcomeEarned'
    BY <1>t, <1>3 DEF vars, RTypeOK, LockHeld, WelcomeEarned, name, password
  <2> QED
    BY <1>3, <2>1, Aside DEF vars, Inserting
<1> QED
  BY <1>1, <1>2, <1>3, AfterQuery, AfterInsert, AfterCompare, AfterMiss, AfterRestart
  DEF Next, Step

LEMMA RInvariant == Spec => []RInv
<1>1. Init => RInv
  BY RegistryAssumption
  DEF Init, RInv, RTypeOK, LockHeld, Inserting, Pcs, MapInTable, TableInMap,
      GrantedInTable, GrantedInMap, GrantedOnce, WelcomeEarned, Pages
<1>2. RInv /\ [Next]_vars => RInv'
  BY RStep
<1> QED
  BY <1>1, <1>2, PTL DEF Spec

(* Map, table, lock and workers keep their types. *)
THEOREM RegistryTypes == Spec => []RTypeOK
<1>1. RInv => RTypeOK
  BY DEF RInv
<1> QED
  BY RInvariant, <1>1, PTL

(* A confirmed registration is let in when he logs in, at any time and     *)
(* after any restart, unless another worker links a node into the map at   *)
(* that moment or the name is doubtful.                                    *)
THEOREM GrantedLogsIn == Spec => GrantedWelcome
<1> DEFINE Refused(w) == /\ m_url[w] = "none" /\ m_url'[w] = "logError"
                         /\ \E i \in DOMAIN granted : granted[i] = posted[w]
                         /\ name(w) \notin doubtful'
           Excused == \A w \in Workers : Refused(w) => Linking(w)
<1>1. RInv /\ [Next]_vars => [Excused]_vars
  <2> SUFFICES ASSUME RInv, Next, NEW w \in Workers, Refused(w) PROVE Linking(w)
    OBVIOUS
  <2>t. m_url \in [Workers -> Pages]
    BY DEF RInv, RTypeOK
  <2>1. LoginFind(w) \/ LoginCompare(w)
    <3>1. ASSUME NEW v \in Workers, Step(v) PROVE v = w
      BY <2>t, <3>1
      DEF Step, LoginFind, LoginCompare, LoginCompareMisses, Find, Lock, Query,
          QueryFails, Insert, Confirm, answer
    <3>2. ~Restart /\ \A v \in Workers, what \in {"login", "register"}, who \in Posted :
                        ~Request(v, what, who)
      BY <2>t DEF Restart, Request
    <3>3. Step(w)
      BY <3>1, <3>2 DEF Next
    <3>4. ~LoginCompareMisses(w)
      <4>1. LoginCompareMisses(w) => name(w) \in doubtful'
        BY DEF LoginCompareMisses
      <4> QED
        BY <4>1
    <3> QED
      BY <2>t, <3>3, <3>4
      DEF Step, Find, Lock, Query, QueryFails, Insert, Confirm, answer
  <2>2. users[name(w)] = password(w) /\ password(w) # Nothing
    <3>1. doubtful' = doubtful
      BY <2>1 DEF LoginFind, LoginCompare
    <3>2. PICK i \in DOMAIN granted : granted[i] = posted[w]
      OBVIOUS
    <3>3. users[granted[i][1]] = granted[i][2]
      BY <3>1, <3>2 DEF RInv, GrantedInMap, name
    <3>4. password(w) \in Passwords
      BY PostedTyped DEF RInv
    <3> QED
      BY <3>2, <3>3, <3>4, RegistryAssumption DEF name, password
  <2>3. ~LoginCompare(w)
    BY <2>t, <2>2 DEF LoginCompare, answer
  <2>4. LoginFind(w)
    BY <2>1, <2>3
  <2>5. PICK found \in BOOLEAN :
          /\ Finds(w, found)
          /\ IF found THEN UNCHANGED m_url ELSE answer(w, "logError")
    BY <2>4 DEF LoginFind
  <2>6. ~found
    BY <2>5
  <2> QED
    BY <2>2, <2>5, <2>6 DEF Finds
<1> QED
  BY <1>1, RInvariant, PTL DEF Spec, GrantedWelcome

(* Whoever is let in gave the password that the table holds. *)
THEOREM WelcomesEarned == Spec => []WelcomeEarned
<1>1. RInv => WelcomeEarned
  BY DEF RInv
<1> QED
  BY RInvariant, <1>1, PTL

(* However many workers miss a name at once, one of them gets it. *)
THEOREM NameGivenOnce == Spec => []GrantedOnce
<1>1. RInv => GrantedOnce
  BY DEF RInv
<1> QED
  BY RInvariant, <1>1, PTL

(* No step changes or loses a password, but for the doubtful names. *)
THEOREM PasswordsKept == Spec => PasswordKept
<1> DEFINE Kept == \A n \in Names \ doubtful' : users[n] # Nothing => users'[n] = users[n]
<1>1. RInv /\ [Next]_vars => [Kept]_vars
  <2> SUFFICES ASSUME RInv, Next PROVE Kept
    OBVIOUS
  <2>1. ASSUME NEW w \in Workers, Step(w) PROVE Kept
    <3>1. CASE Insert(w)
      BY <3>1, AfterInsert
    <3>2. CASE LoginCompareMisses(w)
      BY <3>2, AfterMiss
    <3>3. CASE ~Insert(w) /\ ~LoginCompareMisses(w)
      BY <2>1, <3>3 DEF Step, LoginFind, LoginCompare, Find, Lock, Query, QueryFails
    <3> QED
      BY <3>1, <3>2, <3>3
  <2>2. CASE Restart
    BY <2>2, AfterRestart DEF Restart
  <2>3. ASSUME NEW w \in Workers, NEW what \in {"login", "register"}, NEW who \in Posted,
               Request(w, what, who)
        PROVE  Kept
    BY <2>3 DEF Request
  <2> QED
    BY <2>1, <2>2, <2>3 DEF Next
<1> QED
  BY <1>1, RInvariant, PTL DEF Spec, PasswordKept
=============================================================================
