------------------------------ MODULE Registry ------------------------------
(* The users of the site: do_request's login and registration, which several *)
(* workers run at once on one std::map `users', beside the MySQL table that *)
(* outlives the process.                                                   *)
EXTENDS Naturals, Sequences

CONSTANTS
  Workers,
  Names, Passwords,
  Empty,           (* the empty password                                   *)
  Posted,          (* the pairs of name and password m_string may hold     *)
  Nothing,         (* no password: the name is not in the map or table     *)
  NoOne,           (* m_lock is free                                       *)
  MaxRestarts      (* bound: restarts of the process                       *)

ASSUME RegistryAssumption ==
  /\ Posted \subseteq Names \X Passwords /\ Empty \in Passwords
  /\ Nothing \notin Passwords /\ NoOne \notin Workers /\ MaxRestarts \in Nat

VARIABLES
  users,           (* the map: name -> password                            *)
  table,           (* the table user, whose key is the name                *)
  m_lock,          (* the worker that holds it                             *)
  pc, posted,      (* worker -> its step, what it was posted               *)
  inserted,        (* worker -> mysql_query returned 0                     *)
  m_url,           (* worker -> the page its last request leads to         *)
  granted,         (* registrations that were confirmed, in order          *)
  doubtful,        (* history: names an INSERT of which failed but for its *)
                   (* key, or whose users[name] a login missed             *)
  restarts
vars == <<users, table, m_lock, pc, posted, inserted, m_url, granted, doubtful, restarts>>

name(w) == posted[w][1]
password(w) == posted[w][2]
goto(w, to) == pc' = [pc EXCEPT ![w] = to]
answer(w, page) == goto(w, "idle") /\ m_url' = [m_url EXCEPT ![w] = page]

(* Some other worker links a node into the map: its shape is in flux.      *)
Linking(w) == \E v \in Workers \ {w} : pc[v] = "insert" /\ users[name(v)] = Nothing

----------------------------------------------------------------------------
Init ==
  /\ table \in [Names -> Passwords \cup {Nothing}]
  /\ users = table                                     (* initmysql_result *)
  /\ m_lock = NoOne
  /\ pc = [w \in Workers |-> "idle"] /\ posted \in [Workers -> Posted]
  /\ inserted = [w \in Workers |-> FALSE] /\ m_url = [w \in Workers |-> "none"]
  /\ granted = <<>> /\ doubtful = {} /\ restarts = 0

(* A request for /2 or /3 comes to a worker. *)
Request(w, what, who) ==
  /\ pc[w] = "idle" /\ goto(w, what)
  /\ posted' = [posted EXCEPT ![w] = who]
  /\ m_url' = [m_url EXCEPT ![w] = "none"]
  /\ UNCHANGED <<users, table, m_lock, inserted, granted, doubtful, restarts>>

(* users.find(name), without the lock.  While a node is linked the search  *)
(* may take a wrong turn and miss a name that is there.                    *)
Finds(w, found) ==
  \/ found = (users[name(w)] # Nothing)
  \/ Linking(w) /\ ~found

(* Login: users.find(name) != users.end(), without the lock, ...           *)
LoginFind(w) ==
  /\ pc[w] = "login"
  /\ \E found \in BOOLEAN :
       /\ Finds(w, found)
       /\ IF found THEN goto(w, "compare") /\ UNCHANGED m_url ELSE answer(w, "logError")
  /\ UNCHANGED <<users, table, m_lock, posted, inserted, granted, doubtful, restarts>>

(* ... and users[name] == password, a second search without the lock.      *)
LoginCompare(w) ==
  /\ pc[w] = "compare"
  /\ answer(w, IF users[name(w)] = password(w) THEN "welcome" ELSE "logError")
  /\ UNCHANGED <<users, table, m_lock, posted, inserted, granted, doubtful, restarts>>

(* That search may miss the name too; operator[] then adds it once more,   *)
(* with the empty password, and later searches reach either node.          *)
LoginCompareMisses(w) ==
  /\ pc[w] = "compare" /\ Linking(w)
  /\ users' \in {users, [users EXCEPT ![name(w)] = Empty]}
  /\ doubtful' = doubtful \cup {name(w)}
  /\ answer(w, IF password(w) = Empty THEN "welcome" ELSE "logError")
  /\ UNCHANGED <<table, m_lock, posted, inserted, granted, restarts>>

(* Registration: a name that is found is refused. *)
Find(w) ==
  /\ pc[w] = "register"
  /\ \E found \in BOOLEAN :
       /\ Finds(w, found)
       /\ IF found THEN answer(w, "registerError") ELSE goto(w, "lock") /\ UNCHANGED m_url
  /\ UNCHANGED <<users, table, m_lock, posted, inserted, granted, doubtful, restarts>>

Lock(w) ==
  /\ pc[w] = "lock" /\ m_lock = NoOne
  /\ m_lock' = w /\ goto(w, "query")
  /\ UNCHANGED <<users, table, posted, inserted, m_url, granted, doubtful, restarts>>

(* INSERT INTO user: a name is there once - the table's key, and equal     *)
(* names mean the same to MySQL and to std::map - ...                      *)
Query(w) ==
  /\ pc[w] = "query" /\ goto(w, "insert")
  /\ inserted' = [inserted EXCEPT ![w] = (table[name(w)] = Nothing)]
  /\ table' = IF table[name(w)] = Nothing
              THEN [table EXCEPT ![name(w)] = password(w)] ELSE table
  /\ UNCHANGED <<users, m_lock, posted, m_url, granted, doubtful, restarts>>

(* ... or the statement fails; the row may have been added nevertheless.   *)
QueryFails(w) ==
  /\ pc[w] = "query" /\ goto(w, "insert")
  /\ inserted' = [inserted EXCEPT ![w] = FALSE]
  /\ doubtful' = doubtful \cup {name(w)}
  /\ \/ table' = table
     \/ table[name(w)] = Nothing /\ table' = [table EXCEPT ![name(w)] = password(w)]
  /\ UNCHANGED <<users, m_lock, posted, m_url, granted, restarts>>

(* The answer to a registration is the INSERT's. *)
Confirm(w) ==
  /\ answer(w, IF inserted[w] THEN "log" ELSE "registerError")
  /\ granted' = IF inserted[w] THEN Append(granted, posted[w]) ELSE granted

(* Mutant: users[name] = password, as initmysql_result has it. *)
Insert_overwrites(w) ==
  /\ pc[w] = "insert" /\ Confirm(w)
  /\ users' = [users EXCEPT ![name(w)] = password(w)]
  /\ m_lock' = NoOne
  /\ UNCHANGED <<table, posted, inserted, doubtful, restarts>>

(* Mutant: the answer looks at the map and not at the INSERT. *)
Insert_trusts_map(w) ==
  /\ pc[w] = "insert"
  /\ users' = IF users[name(w)] = Nothing
              THEN [users EXCEPT ![name(w)] = password(w)] ELSE users
  /\ m_lock' = NoOne
  /\ IF users'[name(w)] = password(w)
     THEN answer(w, "log") /\ granted' = Append(granted, posted[w])
     ELSE answer(w, "registerError") /\ UNCHANGED granted
  /\ UNCHANGED <<table, posted, inserted, doubtful, restarts>>

(* Mutant: the map is left to the next start. *)
Insert_leaves_map(w) ==
  /\ pc[w] = "insert" /\ Confirm(w)
  /\ m_lock' = NoOne
  /\ UNCHANGED <<users, table, posted, inserted, doubtful, restarts>>

(* Mutant: the lock is kept when the INSERT was refused. *)
Insert_keeps_lock(w) ==
  /\ pc[w] = "insert" /\ Confirm(w)
  /\ users' = IF users[name(w)] = Nothing
              THEN [users EXCEPT ![name(w)] = password(w)] ELSE users
  /\ m_lock' = IF inserted[w] THEN NoOne ELSE w
  /\ UNCHANGED <<table, posted, inserted, doubtful, restarts>>

(* users.insert, which never overwrites, whether the INSERT succeeded or   *)
(* not; the lock is released.                                              *)
Insert(w) ==
  /\ pc[w] = "insert" /\ Confirm(w)
  /\ users' = IF users[name(w)] = Nothing
              THEN [users EXCEPT ![name(w)] = password(w)] ELSE users
  /\ m_lock' = NoOne
  /\ UNCHANGED <<table, posted, inserted, doubtful, restarts>>

(* The process ends anywhere; the next one loads the table. *)
Restart ==
  /\ restarts < MaxRestarts /\ restarts' = restarts + 1
  /\ users' = table
  /\ m_lock' = NoOne /\ pc' = [w \in Workers |-> "idle"]
  /\ m_url' = [w \in Workers |-> "none"]
  /\ UNCHANGED <<table, posted, inserted, granted, doubtful>>

Step(w) ==
  \/ LoginFind(w) \/ LoginCompare(w) \/ LoginCompareMisses(w)
  \/ Find(w) \/ Lock(w) \/ Query(w) \/ QueryFails(w) \/ Insert(w)
Next ==
  \/ \E w \in Workers, what \in {"login", "register"}, who \in Posted : Request(w, what, who)
  \/ \E w \in Workers : Step(w)
  \/ Restart

(* Every worker runs.  That is enough for m_lock too: only a name that was *)
(* missing from the map leads to it, and no name is missing twice.         *)
Spec == Init /\ [][Next]_vars /\ \A w \in Workers : WF_vars(Step(w))

----------------------------------------------------------------------------
Pcs == {"idle", "login", "compare", "register", "lock", "query", "insert"}
Pages == {"none", "welcome", "logError", "log", "registerError"}
RTypeOK ==
  /\ users \in [Names -> Passwords \cup {Nothing}]
  /\ table \in [Names -> Passwords \cup {Nothing}]
  /\ m_lock \in Workers \cup {NoOne}
  /\ pc \in [Workers -> Pcs] /\ posted \in [Workers -> Posted]
  /\ inserted \in [Workers -> BOOLEAN] /\ m_url \in [Workers -> Pages]
  /\ granted \in Seq(Posted) /\ doubtful \subseteq Names /\ restarts \in 0 .. MaxRestarts

(* Whoever was told that his registration succeeded is let in when he logs *)
(* in, also after a restart and however many wanted the name at the same   *)
(* time.  He is sent away only while another worker links a node into the  *)
(* map that login searches without the lock; a name that an INSERT failed  *)
(* for, or that a login missed between its two searches, is exempt.        *)
GrantedWelcome ==
  [][\A w \in Workers :
       /\ m_url[w] = "none" /\ m_url'[w] = "logError"
       /\ \E i \in DOMAIN granted : granted[i] = posted[w]
       /\ name(w) \notin doubtful'
       => Linking(w)]_vars

(* Whoever is let in gave the password the table holds for the name: a     *)
(* registration that was refused never changes who can log in.             *)
WelcomeEarned ==
  \A w \in Workers :
    m_url[w] = "welcome" /\ name(w) \notin doubtful => table[name(w)] = password(w)

(* A name is given away once, although two workers may both miss it. *)
GrantedOnce ==
  \A i, j \in DOMAIN granted : granted[i][1] = granted[j][1] => i = j

(* A password never changes and is never lost: not by a second             *)
(* registration of the name, and not by a restart - but for a name that an *)
(* INSERT failed for or that a login missed between its two searches.      *)
PasswordKept ==
  [][\A n \in Names \ doubtful' : users[n] # Nothing => users'[n] = users[n]]_vars

(* Every request of a registration or login is answered. *)
Answered == \A w \in Workers : pc[w] # "idle" ~> pc[w] = "idle"
=============================================================================
