------------------------------ MODULE TxSessions ------------------------------
(***************************************************************************)
(* The transaction sessions of the web server: a map from the id a client  *)
(* chose to a pooled connection on which START TRANSACTION has run, the    *)
(* requests that begin, use and end a session, and the task that rolls     *)
(* back idle ones.  The handlers meet in the map's RwLock and in one       *)
(* Mutex per session.                                                      *)
(*                                                                         *)
(* A session owns its connection as long as some Arc of it lives, so the   *)
(* connection stands for the session.  A dropped session gives its         *)
(* connection back to the pool as it is: sqlx rolls back only what it      *)
(* began itself, and START TRANSACTION is plain text to it.                *)
(***************************************************************************)
EXTENDS FiniteSets, Functions

CONSTANTS
  Reqs,      \* HTTP requests; each is made once
  Ids,       \* transaction ids chosen by clients
  Conns,     \* connections of the pool
  Kinds,     \* the kinds of request the clients make
  Overlap,   \* may a client send a request before its last one is answered?
  None

Ends == {"commit", "rollback"}            \* POST /execute/transaction
SqlEnds == {"COMMIT", "ROLLBACK"}         \* POST /execute with this text
Execs == SqlEnds \cup {"execute", "ddl"}  \* ddl: a statement that commits implicitly
Statements == Execs \cup {"crud"}         \* crud: POST /crud/insert, update, delete
AllKinds == {"begin", "plain"} \cup Ends \cup Statements

ASSUME KindsAssumption == Kinds \subseteq AllKinds
ASSUME NoneAssumption == None \notin Reqs \cup Conns \cup AllKinds
ASSUME OverlapAssumption == Overlap \in BOOLEAN

VARIABLES
  req,       \* req[r]: kind, id, progress, session it holds, transaction, answer;
             \* outwaited is a mark, for a property only
  sessions,  \* transaction_sessions: sessions[i] is a connection or None
  lock,      \* lock[c]: who holds the session's Mutex
  stale,     \* stale[c]: last_accessed is more than 600 s ago
  open,      \* open[c]: the begin whose transaction is open on c
  fate,      \* fate[t]: what became of the transaction begun by t
  sweep      \* the ids the sweep still has to remove; {} between sweeps

vars == <<req, sessions, lock, stale, open, fate, sweep>>

Request ==
  [kind : AllKinds \cup {None}, id : Ids \cup {None},
   pc : {"idle", "arrived", "touching", "opening", "opened", "fetched", "peeking",
         "registering", "waiting", "running", "ran", "removing", "replying", "done"},
   sess : Conns \cup {None}, tx : Reqs \cup {None},
   ans : {"none", "active", "idle", "error", "plain"}, outwaited : BOOLEAN]

TypeOK ==
  /\ req \in [Reqs -> Request]
  /\ sessions \in [Ids -> Conns \cup {None}]
  /\ lock \in [Conns -> Reqs \cup {None}]
  /\ stale \in [Conns -> BOOLEAN]
  /\ open \in [Conns -> Reqs \cup {None}]
  /\ fate \in [Reqs -> {"none", "open", "committed", "undone"}]
  /\ sweep \in SUBSET Ids

Init ==
  /\ req = [r \in Reqs |-> [kind |-> None, id |-> None, pc |-> "idle",
                            sess |-> None, tx |-> None, ans |-> "none",
                            outwaited |-> FALSE]]
  /\ sessions = [i \in Ids |-> None]
  /\ lock = [c \in Conns |-> None]
  /\ stale = [c \in Conns |-> FALSE]
  /\ open = [c \in Conns |-> None]
  /\ fate = [r \in Reqs |-> "none"]
  /\ sweep = {}

-----------------------------------------------------------------------------
(* The locks and the pool.                                                 *)

At(r, p) == req[r].pc = p
Kind(r, K) == req[r].kind \in K
Session(r) == sessions[req[r].id]

\* Mutant: the read guard ends with the lookup.
NoReaders == {}

\* `if let Some(existing) = map.read().await.get(..)` keeps the read guard
\* until the block ends, so a request that waits for the Mutex there reads on.
MapReaders == {r \in Reqs : At(r, "touching")}
MapReadable == sweep = {}
MapWritable == sweep = {} /\ MapReaders = {}

Free(c) == lock[c] = None

\* The Mutex is handed over in order: a request that waits gets it before a
\* try_lock can.
Wanted(c) == \E r \in Reqs : req[r].pc \in {"peeking", "waiting", "ran"} /\ req[r].sess = c

Holds(r, c) == req[r].sess = c
InPool(c) == c \notin Range(sessions) /\ \A r \in Reqs : ~Holds(r, c)

Goes(r, p) == req' = [req EXCEPT ![r].pc = p]
Answer(r, a) == req' = [req EXCEPT ![r].pc = "done", ![r].ans = a, ![r].sess = None]

\* The transaction on connection c ends as f.
EndTx(c, f) ==
  /\ fate' = [t \in Reqs |-> IF t = open[c] THEN f ELSE fate[t]]
  /\ open' = [open EXCEPT ![c] = None]

\* START TRANSACTION on c; it commits what was still open there.
StartTx(c, r) ==
  /\ fate' = [t \in Reqs |-> IF t = open[c] THEN "committed"
                             ELSE IF t = r THEN "open" ELSE fate[t]]
  /\ open' = [open EXCEPT ![c] = r]

\* What the statement of request r does to the transaction on its connection.
RunSql(r) ==
  IF Kind(r, {"commit", "COMMIT", "ddl"}) THEN EndTx(req[r].sess, "committed")
  ELSE IF Kind(r, {"rollback", "ROLLBACK"}) THEN EndTx(req[r].sess, "undone")
  ELSE UNCHANGED <<open, fate>>

-----------------------------------------------------------------------------
(* Requests.                                                               *)

\* A client sends a request of kind k for the transaction id i.
Arrive(r, k, i) ==
  /\ At(r, "idle")
  /\ \/ Overlap
     \/ \A q \in Reqs : req[q].id = i => req[q].pc \in {"idle", "done"}
  /\ req' = [req EXCEPT ![r].kind = k, ![r].id = i, ![r].pc = "arrived"]
  /\ UNCHANGED <<sessions, lock, stale, open, fate, sweep>>

\* Checks before the map is read fail: read-only connection, dangerous SQL,
\* no client for the database, or no connection in time.
Refuse(r) ==
  /\ At(r, "arrived")
  /\ Answer(r, "error")
  /\ UNCHANGED <<sessions, lock, stale, open, fate, sweep>>

\* The id has no session and none may be made: NotFound.
NotFound(r) ==
  /\ At(r, "arrived") /\ Kind(r, Statements \cup Ends)
  /\ MapReadable /\ Session(r) = None
  /\ Answer(r, "error")
  /\ UNCHANGED <<sessions, lock, stale, open, fate, sweep>>

\* get_or_open_transaction_session finds the session.
Find(r) ==
  /\ At(r, "arrived") /\ Kind(r, Statements \cup {"begin"})
  /\ MapReadable /\ Session(r) # None
  /\ req' = [req EXCEPT ![r].pc = "touching", ![r].sess = Session(r)]
  /\ UNCHANGED <<sessions, lock, stale, open, fate, sweep>>

\* ... and, with the read guard still held, locks it: refused when it is bound
\* to another database, else last_accessed becomes now.
Touch(r) ==
  /\ At(r, "touching") /\ Free(req[r].sess)
  /\ \/ Answer(r, "error") /\ UNCHANGED stale
     \/ /\ stale' = [stale EXCEPT ![req[r].sess] = FALSE]
        /\ \/ Kind(r, {"begin"}) /\ Answer(r, "active")
           \/ Kind(r, Statements) /\ Goes(r, "waiting")
           \/ Kind(r, Execs) /\ Goes(r, "peeking")
  /\ UNCHANGED <<sessions, lock, open, fate, sweep>>

\* A statement with a cancel token first locks the session for its connection id,
\* outside db_query and without setting last_accessed.
Peek(r) ==
  /\ At(r, "peeking") /\ Free(req[r].sess)
  /\ Goes(r, "registering")
  /\ UNCHANGED <<sessions, lock, stale, open, fate, sweep>>

\* ... registers the token without the lock, and locks the session again.
Register(r) ==
  /\ At(r, "registering")
  /\ Goes(r, "waiting")
  /\ UNCHANGED <<sessions, lock, stale, open, fate, sweep>>

\* Mutant: a begin does not look for a session.
BeginAlways(r) ==
  /\ At(r, "arrived") /\ Kind(r, {"begin"}) /\ MapReadable
  /\ Goes(r, "opening")
  /\ UNCHANGED <<sessions, lock, stale, open, fate, sweep>>

\* A begin finds no session, and the read guard is gone.
BeginMisses(r) ==
  /\ At(r, "arrived") /\ Kind(r, {"begin"})
  /\ MapReadable /\ Session(r) = None
  /\ Goes(r, "opening")
  /\ UNCHANGED <<sessions, lock, stale, open, fate, sweep>>

StartTransaction(r) ==
  /\ At(r, "opening")
  /\ \E c \in Conns :
       /\ InPool(c)
       /\ StartTx(c, r)
       /\ stale' = [stale EXCEPT ![c] = FALSE]
       /\ req' = [req EXCEPT ![r].pc = "opened", ![r].sess = c]
  /\ UNCHANGED <<sessions, lock, sweep>>

\* No connection, or START TRANSACTION fails or times out; when it timed out
\* the server may still have done it, and the connection goes back like that.
StartFails(r) ==
  /\ At(r, "opening")
  /\ \/ UNCHANGED <<open, fate>>
     \/ \E c \in Conns : InPool(c) /\ StartTx(c, r)
  /\ Answer(r, "error")
  /\ UNCHANGED <<sessions, lock, stale, sweep>>

\* The new session replaces whatever the id has by now.
InsertSession(r) ==
  /\ At(r, "opened") /\ MapWritable
  /\ sessions' = [sessions EXCEPT ![req[r].id] = req[r].sess]
  /\ Answer(r, "active")
  /\ UNCHANGED <<lock, stale, open, fate, sweep>>

\* execute_transaction takes the session and lets go of the map.
Fetch(r) ==
  /\ At(r, "arrived") /\ Kind(r, Ends)
  /\ MapReadable /\ Session(r) # None
  /\ req' = [req EXCEPT ![r].pc = "fetched", ![r].sess = Session(r),
                        ![r].tx = open[Session(r)]]
  /\ UNCHANGED <<sessions, lock, stale, open, fate, sweep>>

\* ... locks it a first time to compare the database.
CheckDb(r) ==
  /\ At(r, "fetched") /\ Free(req[r].sess)
  /\ Answer(r, "error") \/ Goes(r, "waiting")
  /\ UNCHANGED <<sessions, lock, stale, open, fate, sweep>>

\* The request gets the Mutex; the CRUD handlers set last_accessed again.
Acquire(r) ==
  /\ At(r, "waiting") /\ Free(req[r].sess)
  /\ lock' = [lock EXCEPT ![req[r].sess] = r]
  /\ IF Kind(r, {"crud"})
       THEN stale' = [stale EXCEPT ![req[r].sess] = FALSE] ELSE UNCHANGED stale
  /\ Goes(r, "running")
  /\ UNCHANGED <<sessions, open, fate, sweep>>

\* Mutant: an end keeps the Mutex while it goes for the map.
CompleteLocked(r) ==
  /\ At(r, "running")
  /\ RunSql(r)
  /\ IF Kind(r, Ends)
       THEN Goes(r, "removing") /\ UNCHANGED lock
       ELSE /\ lock' = [lock EXCEPT ![req[r].sess] = None]
            /\ IF Kind(r, {"crud"}) THEN Answer(r, "active") ELSE Goes(r, "ran")
  /\ UNCHANGED <<sessions, stale, sweep>>

\* The statement ends well and the Mutex is released.  The CRUD handlers
\* answer "active" without another look at the map.
Complete(r) ==
  /\ At(r, "running")
  /\ RunSql(r)
  /\ lock' = [lock EXCEPT ![req[r].sess] = None]
  /\ LET ran == [req[r] EXCEPT !.tx = open[req[r].sess]] IN
     req' = [req EXCEPT ![r] =
       IF Kind(r, Ends) THEN [@ EXCEPT !.pc = "removing"]
       ELSE IF Kind(r, {"crud"})
         THEN [ran EXCEPT !.pc = "done", !.ans = "active", !.sess = None]
         ELSE [ran EXCEPT !.pc = "ran"]]
  /\ UNCHANGED <<sessions, stale, sweep>>

\* Mutant: the error of an end is dropped.
FailUnseen(r) ==
  /\ At(r, "running")
  /\ RunSql(r) \/ UNCHANGED <<open, fate>>
  /\ lock' = [lock EXCEPT ![req[r].sess] = None]
  /\ IF Kind(r, Ends) THEN Goes(r, "removing") ELSE Answer(r, "error")
  /\ UNCHANGED <<sessions, stale, sweep>>

\* The statement fails, or times out with or without effect; the session stays.
Fail(r) ==
  /\ At(r, "running")
  /\ RunSql(r) \/ UNCHANGED <<open, fate>>
  /\ lock' = [lock EXCEPT ![req[r].sess] = None]
  /\ Answer(r, "error")
  /\ UNCHANGED <<sessions, stale, sweep>>

\* db_query covers the wait for the Mutex in the execute handler only.
LockTimeout(r) ==
  /\ At(r, "waiting") /\ Kind(r, Execs) /\ ~Free(req[r].sess)
  /\ Answer(r, "error")
  /\ UNCHANGED <<sessions, lock, stale, open, fate, sweep>>

\* Mutant: an end sent as a statement is not recognised.
TouchNoEnd(r) ==
  /\ At(r, "ran") /\ Free(req[r].sess)
  /\ stale' = [stale EXCEPT ![req[r].sess] = FALSE]
  /\ Goes(r, "replying")
  /\ UNCHANGED <<sessions, lock, open, fate, sweep>>

\* The execute handler sets last_accessed again after the statement.
TouchAfter(r) ==
  /\ At(r, "ran") /\ Free(req[r].sess)
  /\ stale' = [stale EXCEPT ![req[r].sess] = FALSE]
  /\ Goes(r, IF Kind(r, SqlEnds) THEN "removing" ELSE "replying")
  /\ UNCHANGED <<sessions, lock, open, fate, sweep>>

\* After an end the id is removed, whichever session it names by now.
RemoveSession(r) ==
  /\ At(r, "removing") /\ MapWritable
  /\ sessions' = [sessions EXCEPT ![req[r].id] = None]
  /\ IF Kind(r, Ends) THEN Answer(r, "idle") ELSE Goes(r, "replying")
  /\ UNCHANGED <<lock, stale, open, fate, sweep>>

\* The execute handler answers by what the map says of the id.
Reply(r) ==
  /\ At(r, "replying") /\ MapReadable
  /\ Answer(r, IF Session(r) # None THEN "active" ELSE "idle")
  /\ UNCHANGED <<sessions, lock, stale, open, fate, sweep>>

\* A statement without transaction id runs on any connection of the pool.
PoolStatement(r) ==
  /\ At(r, "arrived") /\ Kind(r, {"plain"})
  /\ \E c \in Conns :
       /\ InPool(c)
       /\ req' = [req EXCEPT ![r].pc = "done", ![r].ans = "plain", ![r].tx = open[c]]
  /\ UNCHANGED <<sessions, lock, stale, open, fate, sweep>>

-----------------------------------------------------------------------------
(* The sweep and time.                                                     *)

Expired == {i \in Ids : /\ sessions[i] # None
                        /\ Free(sessions[i]) /\ ~Wanted(sessions[i])
                        /\ stale[sessions[i]]}

\* The sweep takes the map's write lock and lists the expired sessions.
SweepStarts ==
  /\ MapWritable /\ Expired # {}
  /\ sweep' = Expired
  /\ UNCHANGED <<req, sessions, lock, stale, open, fate>>

\* Mutant: the sweep rolls back and leaves the id in the map.
SweepKeeps(i) ==
  /\ i \in sweep /\ Free(sessions[i])
  /\ EndTx(sessions[i], "undone")
  /\ sweep' = sweep \ {i}
  /\ UNCHANGED <<req, sessions, lock, stale>>

\* It removes one, waits for its Mutex and rolls back; the write lock is
\* released after the last.
SweepOne(i) ==
  /\ i \in sweep /\ Free(sessions[i])
  /\ EndTx(sessions[i], "undone")
  /\ sessions' = [sessions EXCEPT ![i] = None]
  /\ sweep' = sweep \ {i}
  /\ UNCHANGED <<req, lock, stale>>

\* A CRUD statement and the waits for the map or the Mutex may take as long as
\* they like.  The execute handler's statement and the wait before it may not,
\* db_query ends them after 60 s, nor anything between two steps that waits for
\* nobody.
MayTakeLong(r) ==
  LET c == req[r].sess IN
  \/ req[r].pc \in {"touching", "opened"}
  \/ Kind(r, {"crud"})
  \/ Kind(r, Ends) /\ (At(r, "fetched") => ~Free(c))
  \/ Kind(r, Execs) /\ \/ req[r].pc \in {"peeking", "ran"} /\ ~Free(c)
                       \/ At(r, "removing") /\ ~MapWritable
                       \/ At(r, "replying") /\ ~MapReadable

\* 600 s pass without an access.
Age(c) ==
  /\ ~stale[c] /\ ~InPool(c)
  /\ \A r \in Reqs : Holds(r, c) => MayTakeLong(r)
  /\ stale' = [stale EXCEPT ![c] = TRUE]
  /\ req' = [r \in Reqs |->
               [req[r] EXCEPT !.outwaited = @ \/ (At(r, "peeking") /\ Holds(r, c))]]
  /\ UNCHANGED <<sessions, lock, open, fate, sweep>>

-----------------------------------------------------------------------------

Step(r) ==
  \/ Refuse(r) \/ NotFound(r) \/ Find(r) \/ Touch(r) \/ Peek(r) \/ Register(r)
  \/ BeginMisses(r)
  \/ StartTransaction(r) \/ StartFails(r) \/ InsertSession(r)
  \/ Fetch(r) \/ CheckDb(r) \/ Acquire(r) \/ Complete(r) \/ Fail(r)
  \/ LockTimeout(r) \/ TouchAfter(r) \/ RemoveSession(r) \/ Reply(r)
  \/ PoolStatement(r)

Sweep == SweepStarts \/ \E i \in Ids : SweepOne(i)

Next ==
  \/ \E r \in Reqs, k \in Kinds, i \in Ids : Arrive(r, k, i)
  \/ \E r \in Reqs : Step(r)
  \/ Sweep
  \/ \E c \in Conns : Age(c)

\* The runtime polls every woken task, the database answers or the timeout
\* fires, and the sweep's interval ticks for ever.
Fairness == (\A r \in Reqs : WF_vars(Step(r))) /\ WF_vars(Sweep)

Spec == Init /\ [][Next]_vars
FairSpec == Spec /\ Fairness

-----------------------------------------------------------------------------
(* Properties.                                                             *)

\* When clients wait for their answers, a transaction whose begin was answered
\* stays reachable: as long as it is open, its id names its connection.  So an
\* id has one transaction, and none goes back to the pool open.  Only a begin
\* that failed may leave one behind.
Reachable ==
  \A c \in Conns : LET t == open[c] IN
    t # None /\ req[t].ans = "active" => sessions[req[t].id] = c

\* When clients wait for their answers, a statement answered "active" ran in a
\* transaction, unless the database had ended it unseen: by an implicit commit
\* or by an end whose answer was an error.  The sweep is no such reason.
ActiveIsInside ==
  \A r \in Reqs : Kind(r, {"execute", "crud"}) /\ req[r].ans = "active" /\ req[r].tx = None
    => \E q \in Reqs : /\ req[q].id = req[r].id
                       /\ \/ Kind(q, {"ddl"})
                          \/ Kind(q, Ends \cup SqlEnds) /\ req[q].ans = "error"

\* When clients wait for their answers, a rollback answered "idle" undid the
\* transaction it was asked to undo, even if the sweep came in between.
RollbackMeansUndone ==
  \A r \in Reqs : Kind(r, {"rollback"}) /\ req[r].ans = "idle" /\ req[r].tx # None
    => fate[req[r].tx] = "undone"

\* A commit answered "idle" committed the transaction it was asked to commit:
\* the client announces "Transaction committed" on that answer.
CommitMeansCommitted ==
  \A r \in Reqs : Kind(r, {"commit"}) /\ req[r].ans = "idle" /\ req[r].tx # None
    => fate[req[r].tx] = "committed"

\* Whatever clients do, the sweep never rolls back a session that a statement
\* has found and refreshed and is still going to use, or has used and is still to
\* refresh; unless the statement has a cancel token and has waited at its first
\* lock for longer than the idle time, behind another request that runs on the
\* session without a timeout.  That one wait neither db_query ends nor its end
\* refreshes, so the code may then roll back under the statement.
SweepSparesStatements ==
  [][\A i \in sweep : i \notin sweep' =>
       \A r \in Reqs :
         /\ Kind(r, Statements) /\ req[r].pc \notin {"removing", "replying"}
         /\ Holds(r, sessions[i])
         => req[r].outwaited]_vars

\* Every request is answered, whatever locks the others hold.
AllAnswered == \A r \in Reqs : At(r, "arrived") ~> At(r, "done")

\* An idle session is ended, or somebody uses it again.
IdleEnds ==
  \A i \in Ids, c \in Conns :
    sessions[i] = c /\ stale[c] ~> sessions[i] # c \/ ~stale[c]

=============================================================================
