----------------------------- MODULE QueryServer -----------------------------
(***************************************************************************)
(* What the requests of the workbench share on the server: the connections   *)
(* of the pool, the registry of running statements that a cancel looks into,  *)
(* the schema cache under its lock, and the client that saving the            *)
(* configuration replaces (web-server main.rs, handlers/perf.rs, state.rs).   *)
(* A client is numbered by the save that made it and reaches the database of  *)
(* that number.  The names in the configuration stay the same, so all of them *)
(* share one key of the cache, the worst case.                                *)
(* Left out: several transactions (TxSessions), changes made inside one, the  *)
(* clients of other connections, the cache of single tables (the same code),  *)
(* columns that a failed query leaves empty, two saves that overlap.          *)
(***************************************************************************)
EXTENDS Naturals, FiniteSets

CONSTANTS
    ServerReqs,   \* requests, numbered as they arrive
    PoolConns,    \* pool_config.max_connections of one client
    MaxSaves,     \* bound: saves of the configuration, one after the other
    MaxDrops,     \* bound: requests that are dropped
    MaxKills      \* bound: cancels under way at once

VARIABLES
    req,          \* the requests: kind, progress, client, connection, what it made or got
    active,       \* active_queries: the connection in the handle of each registered token
    busy,         \* the requests whose statement the database runs on a connection
    cancel,       \* the copy of the handle a cancel of the request works with
    session,      \* the connection of the open transaction
    mutex,        \* the request that has the lock of the session
    cache,        \* schema_cache: at most one schema
    cacheLock,    \* the request that has its write lock
    version,      \* changes a database has seen
    settled,      \* the last of them that was answered
    config,       \* the save whose configuration is stored
    client,       \* db_client
    dbLock,       \* the request that has its write lock
    closed        \* clients whose pool was closed

server == <<req, active, busy, cancel, session, mutex, cache, cacheLock, version, settled,
            config, client, dbLock, closed>>

\* POST /execute with a token: statement, or tx inside the transaction; POST /ddl: ddl.
Tokened == {"statement", "tx"}
Changes == {"statement", "ddl"}
Kinds   == Tokened \cup Changes \cup {"begin", "schema", "save"}

Clients  == 0 .. MaxSaves
AllConns == Clients \X PoolConns

Idle == [kind |-> "none", pc |-> "idle", client |-> 0, conn |-> {}, made |-> 0,
         due |-> [g \in Clients |-> 0], got |-> {}]

Init ==
    /\ req = [r \in ServerReqs |-> Idle]
    /\ active = [r \in ServerReqs |-> {}]
    /\ busy = [c \in AllConns |-> {}]
    /\ cancel = [r \in ServerReqs |-> {}]
    /\ session = {} /\ mutex = {}
    /\ cache = {} /\ cacheLock = {}
    /\ version = [g \in Clients |-> 0]
    /\ settled = [g \in Clients |-> 0]
    /\ config = 0 /\ client = {0} /\ dbLock = {} /\ closed = {}

-----------------------------------------------------------------------------
At(r, p)   == req[r].pc = p
Kind(r, K) == req[r].kind \in K
Saving(r)  == Kind(r, {"save"})
Over(r)    == req[r].pc \in {"answered", "gone"}
Goes(r, p) == req' = [req EXCEPT ![r].pc = p]
Ends(r)    == req' = [req EXCEPT ![r].pc = "answered", ![r].conn = {}, ![r].made = 0]

InPool(c) == c \notin session /\ busy[c] = {} /\ \A r \in ServerReqs : c \notin req[r].conn
Free(g)   == {c \in {g} \X PoolConns : InPool(c)}

\* The connections of a pool are alike.
AnyOf(conns) == CHOOSE c \in conns : TRUE

\* Mutant: an acquire without a timeout.
ClosedOnly(g) == g \in closed

Obtains(g) == g \notin closed /\ Free(g) # {}
\* acquire ends with PoolClosed, or after acquire_timeout_ms without a connection.
GivesUp(g) == g \in closed \/ Free(g) = {}

-----------------------------------------------------------------------------
(* A request and the client it works with.                                   *)

Arrive(r) ==
    /\ At(r, "idle") /\ \A q \in ServerReqs : q < r => ~At(q, "idle")
    /\ \E k \in Kinds :
        /\ k = "save" => config < MaxSaves /\ \A q \in ServerReqs : Saving(q) => Over(q)
        /\ req' = [req EXCEPT ![r].kind = k, ![r].pc = "arrived", 
                              ![r].due = IF k = "schema" THEN settled ELSE @]
    /\ UNCHANGED <<active, busy, cancel, session, mutex, cache, cacheLock, version, settled,
                   config, client, dbLock, closed>>

First(r) == CASE Kind(r, {"schema"}) -> "looking"
              [] Kind(r, {"tx"})     -> "finding"
              [] OTHER               -> "acquiring"

Resolve(r) ==
    /\ At(r, "absent") \/ (At(r, "arrived") /\ ~Kind(r, {"begin", "save"}))
    /\ dbLock = {}
    /\ \/ client = {} /\ Ends(r)
       \/ \E g \in client : req' = [req EXCEPT ![r].client = g, ![r].pc = First(r)]
    /\ UNCHANGED <<active, busy, cancel, session, mutex, cache, cacheLock, version, settled,
                   config, client, dbLock, closed>>

\* A begin of a transaction that is open is answered as it is.
LookForSession(r) ==
    /\ At(r, "arrived") /\ Kind(r, {"begin"})
    /\ \/ session = {} /\ Goes(r, "absent")
       \/ session # {} /\ mutex = {} /\ Ends(r)
    /\ UNCHANGED <<active, busy, cancel, session, mutex, cache, cacheLock, version, settled,
                   config, client, dbLock, closed>>

FindSession(r) ==
    /\ At(r, "finding")
    /\ \/ session = {} /\ Ends(r)
       \/ session # {} /\ mutex = {}
          /\ req' = [req EXCEPT ![r].conn = session, ![r].pc = "registering"]
    /\ UNCHANGED <<active, busy, cancel, session, mutex, cache, cacheLock, version, settled,
                   config, client, dbLock, closed>>

Acquire(r) ==
    /\ At(r, "acquiring") /\ Obtains(req[r].client)
    /\ LET c == AnyOf(Free(req[r].client)) IN
        IF Kind(r, {"begin"})
        THEN session' = {c} /\ Ends(r)
        ELSE /\ req' = [req EXCEPT ![r].conn = {c},
                                   ![r].pc = IF Kind(r, Tokened) THEN "registering" ELSE "ready"]
             /\ UNCHANGED session
    /\ UNCHANGED <<active, busy, cancel, mutex, cache, cacheLock, version, settled, config,
                   client, dbLock, closed>>

AcquireFails(r) ==
    /\ At(r, "acquiring") /\ GivesUp(req[r].client)
    /\ Ends(r)
    /\ UNCHANGED <<active, busy, cancel, session, mutex, cache, cacheLock, version, settled,
                   config, client, dbLock, closed>>

-----------------------------------------------------------------------------
(* A statement.  A registered one keeps its connection to the end of its     *)
(* handler; one in the transaction runs under the lock of the session.        *)

Register(r) ==
    /\ At(r, "registering")
    /\ active' = [active EXCEPT ![r] = req[r].conn]
    /\ Goes(r, "ready")
    /\ UNCHANGED <<busy, cancel, session, mutex, cache, cacheLock, version, settled, config,
                   client, dbLock, closed>>

Execute(r) ==
    /\ At(r, "ready") /\ \A c \in req[r].conn : busy[c] = {}
    /\ Kind(r, {"tx"}) => mutex = {}
    /\ mutex' = IF Kind(r, {"tx"}) THEN {r} ELSE mutex
    /\ busy' = [c \in AllConns |-> IF c \in req[r].conn THEN {r} ELSE busy[c]]
    /\ Goes(r, "running")
    /\ UNCHANGED <<active, cancel, session, cache, cacheLock, version, settled, config, client,
                   dbLock, closed>>

\* The database ends a statement, also one that nobody waits for any more; one that read, or
\* failed, changed nothing.
StatementEnds(c) ==
    /\ busy[c] # {}
    /\ busy' = [busy EXCEPT ![c] = {}]
    /\ \E r \in busy[c], changed \in BOOLEAN :
        IF changed /\ Kind(r, Changes)
        THEN /\ version' = [version EXCEPT ![c[1]] = @ + 1]
             /\ req' = [req EXCEPT ![r].made = IF At(r, "gone") THEN 0 ELSE version[c[1]] + 1]
        ELSE UNCHANGED <<version, req>>
    /\ UNCHANGED <<active, cancel, session, mutex, cache, cacheLock, settled, config, client,
                   dbLock, closed>>

\* timeouts.db_query, which covers the wait for the session's lock too; /ddl has none.
TimesOut(r) ==
    /\ Kind(r, Tokened)
    /\ At(r, "running") \/ (At(r, "ready") /\ Kind(r, {"tx"}))
    /\ mutex' = mutex \ {r}
    /\ Goes(r, "killing")
    /\ UNCHANGED <<active, busy, cancel, session, cache, cacheLock, version, settled, config,
                   client, dbLock, closed>>

\* KILL QUERY, through another connection of the pool, stops whatever runs on the connections.
Kill(conns) == busy' = [c \in AllConns |-> IF c \in conns THEN {} ELSE busy[c]]

KillOwn(r) ==
    /\ At(r, "killing")
    /\ \/ Obtains(req[r].client) /\ Kill(req[r].conn)
       \/ GivesUp(req[r].client) /\ UNCHANGED busy
    /\ Goes(r, "killed")
    /\ UNCHANGED <<active, cancel, session, mutex, cache, cacheLock, version, settled, config,
                   client, dbLock, closed>>

Returned(r) == At(r, "running") /\ \A c \in req[r].conn : r \notin busy[c]

\* Mutant: the handler of a statement that timed out leaves its token behind.
FinishUnlessKilled(r) ==
    /\ Returned(r) \/ At(r, "killed")
    /\ active' = IF At(r, "killed") THEN active ELSE [active EXCEPT ![r] = {}]
    /\ mutex' = mutex \ {r}
    /\ IF Returned(r) /\ req[r].made > 0
       THEN req' = [req EXCEPT ![r].pc = "clearing", ![r].conn = IF Kind(r, {"ddl"}) THEN {} ELSE @]
       ELSE Ends(r)
    /\ UNCHANGED <<busy, cancel, session, cache, cacheLock, version, settled, config, client,
                   dbLock, closed>>

\* Unregister; an error is answered at once, a change clears the cache first.
Finish(r) ==
    /\ Returned(r) \/ At(r, "killed")
    /\ active' = [active EXCEPT ![r] = {}]
    /\ mutex' = mutex \ {r}
    /\ IF Returned(r) /\ req[r].made > 0
       THEN req' = [req EXCEPT ![r].pc = "clearing", ![r].conn = IF Kind(r, {"ddl"}) THEN {} ELSE @]
       ELSE Ends(r)
    /\ UNCHANGED <<busy, cancel, session, cache, cacheLock, version, settled, config, client,
                   dbLock, closed>>

\* cancel_active_query: the handle is copied here, and killed later.
CancelFinds(r) ==
    /\ active[r] # {} /\ cancel[r] = {}
    /\ Cardinality({q \in ServerReqs : cancel[q] # {}}) < MaxKills
    /\ cancel' = [cancel EXCEPT ![r] = active[r]]
    /\ UNCHANGED <<req, active, busy, session, mutex, cache, cacheLock, version, settled, config,
                   client, dbLock, closed>>

CancelKills(r) ==
    /\ cancel[r] # {}
    /\ \A c \in cancel[r] : \/ Obtains(c[1]) /\ Kill(cancel[r])
                            \/ GivesUp(c[1]) /\ UNCHANGED busy
    /\ cancel' = [cancel EXCEPT ![r] = {}]
    /\ UNCHANGED <<req, active, session, mutex, cache, cacheLock, version, settled, config,
                   client, dbLock, closed>>

\* The transaction is rolled back, by its client or by the sweep after 600 s.
SessionEnds ==
    /\ session # {} /\ mutex = {} /\ \A c \in session : busy[c] = {}
    /\ session' = {}
    /\ UNCHANGED <<req, active, busy, cancel, mutex, cache, cacheLock, version, settled, config,
                   client, dbLock, closed>>

-----------------------------------------------------------------------------
(* The schema cache.                                                         *)

Serve(r, s) == req' = [req EXCEPT ![r].pc = "answered", ![r].got = {s}]

\* clear_metadata_caches, by a change and by a save.
Clear(r) ==
    /\ At(r, "clearing") /\ cacheLock = {}
    /\ cache' = {}
    /\ IF Saving(r)
       THEN Goes(r, "connecting") /\ UNCHANGED settled
       ELSE /\ settled' = [settled EXCEPT ![req[r].client] = IF req[r].made > @ THEN req[r].made ELSE @]
            /\ Ends(r)
    /\ UNCHANGED <<active, busy, cancel, session, mutex, cacheLock, version, config, client,
                   dbLock, closed>>

\* The fast path: a hit under the read lock.
Look(r) ==
    /\ At(r, "looking") /\ cacheLock = {}
    /\ \/ \E s \in cache : Serve(r, s)
       \/ cache = {} /\ Goes(r, "wanting")
    /\ UNCHANGED <<active, busy, cancel, session, mutex, cache, cacheLock, version, settled,
                   config, client, dbLock, closed>>

\* Mutant: the schema is fetched without the write lock.
LockLater(r) ==
    /\ At(r, "wanting") /\ cacheLock = {}
    /\ \/ \E s \in cache : Serve(r, s)
       \/ cache = {} /\ Goes(r, "fetching")
    /\ UNCHANGED <<active, busy, cancel, session, mutex, cache, cacheLock, version, settled,
                   config, client, dbLock, closed>>

\* The write lock and the second look; a miss keeps the lock for the queries to come.
Lock(r) ==
    /\ At(r, "wanting") /\ cacheLock = {}
    /\ \/ \E s \in cache : Serve(r, s) /\ UNCHANGED cacheLock
       \/ cache = {} /\ Goes(r, "fetching") /\ cacheLock' = {r}
    /\ UNCHANGED <<active, busy, cancel, session, mutex, cache, version, settled, config,
                   client, dbLock, closed>>

Fetch(r) ==
    /\ At(r, "fetching") /\ Obtains(req[r].client)
    /\ req' = [req EXCEPT ![r].pc = "fetched", ![r].made = version[req[r].client]]
    /\ UNCHANGED <<active, busy, cancel, session, mutex, cache, cacheLock, version, settled,
                   config, client, dbLock, closed>>

FetchFails(r) ==
    /\ At(r, "fetching") /\ GivesUp(req[r].client)
    /\ Ends(r)
    /\ cacheLock' = cacheLock \ {r}
    /\ UNCHANGED <<active, busy, cancel, session, mutex, cache, version, settled, config,
                   client, dbLock, closed>>

\* orphan: a save has stored another configuration since the reader got its client.
Insert(r) ==
    LET s == [of |-> req[r].client, version |-> req[r].made, orphan |-> req[r].client # config]
    IN  /\ At(r, "fetched")
        /\ cache' = {s}
        /\ cacheLock' = cacheLock \ {r}
        /\ Serve(r, s)
        /\ UNCHANGED <<active, busy, cancel, session, mutex, version, settled, config, client,
                       dbLock, closed>>

Expire ==
    /\ cache # {} /\ cache' = {}
    /\ UNCHANGED <<req, active, busy, cancel, session, mutex, cacheLock, version, settled,
                   config, client, dbLock, closed>>

-----------------------------------------------------------------------------
(* update_config: the configuration is stored and the cache cleared before the *)
(* new client connects; the old pool is closed under the lock of db_client.    *)

Store(r) ==
    /\ At(r, "arrived") /\ Saving(r)
    /\ config' = config + 1
    /\ req' = [req EXCEPT ![r].pc = "clearing", ![r].client = config + 1]
    /\ UNCHANGED <<active, busy, cancel, session, mutex, cache, cacheLock, version, settled,
                   client, dbLock, closed>>

Connect(r) ==
    /\ At(r, "connecting")
    /\ Goes(r, "taking") \/ Ends(r)
    /\ UNCHANGED <<active, busy, cancel, session, mutex, cache, cacheLock, version, settled,
                   config, client, dbLock, closed>>

TakeOld(r) ==
    /\ At(r, "taking") /\ dbLock = {}
    /\ dbLock' = {r} /\ closed' = closed \cup client /\ client' = {}
    /\ Goes(r, "closing")
    /\ UNCHANGED <<active, busy, cancel, session, mutex, cache, cacheLock, version, settled,
                   config>>

\* close() waits for every connection, the one of the open transaction too.
CloseEnds(r) ==
    /\ At(r, "closing") /\ \A g \in closed : Free(g) = {g} \X PoolConns
    /\ dbLock' = {}
    /\ Goes(r, "installing")
    /\ UNCHANGED <<active, busy, cancel, session, mutex, cache, cacheLock, version, settled,
                   config, client, closed>>

Install(r) ==
    /\ At(r, "installing") /\ dbLock = {}
    /\ client' = {req[r].client}
    /\ Ends(r)
    /\ UNCHANGED <<active, busy, cancel, session, mutex, cache, cacheLock, version, settled,
                   config, dbLock, closed>>

-----------------------------------------------------------------------------
(* The client goes away, as after its own timeout, and the future of the handler is dropped     *)
(* where it waits: locks and connection are given back, a token that is registered is not.      *)
(* One that has neither leaves nothing, and its drop shows nowhere.                             *)
Bare(r) == req[r].pc \in {"idle", "arrived", "absent", "finding", "acquiring", "looking", "wanting"}

Drop(r) ==
    /\ ~Bare(r) /\ ~Over(r)
    /\ Cardinality({q \in ServerReqs : At(q, "gone")}) < MaxDrops
    /\ req' = [req EXCEPT ![r] = [Idle EXCEPT !.kind = req[r].kind, !.pc = "gone"]]
    /\ mutex' = mutex \ {r} /\ cacheLock' = cacheLock \ {r} /\ dbLock' = dbLock \ {r}
    /\ UNCHANGED <<active, busy, cancel, session, cache, version, settled, config, client, closed>>

-----------------------------------------------------------------------------
Handler(r) ==
    \/ LookForSession(r) \/ Resolve(r) \/ FindSession(r) \/ Acquire(r) \/ AcquireFails(r)
    \/ Register(r) \/ Execute(r) \/ TimesOut(r) \/ KillOwn(r) \/ Finish(r)
    \/ Clear(r) \/ Look(r) \/ Lock(r) \/ Fetch(r) \/ FetchFails(r) \/ Insert(r)
    \/ Store(r) \/ Connect(r) \/ TakeOld(r) \/ CloseEnds(r) \/ Install(r)

\* What goes on by itself: the handlers, the statements of the database, the sweep.
Progress ==
    \/ \E r \in ServerReqs : Handler(r)
    \/ \E c \in AllConns : StatementEnds(c)
    \/ SessionEnds

Next ==
    \/ Progress
    \/ \E r \in ServerReqs : Arrive(r) \/ CancelFinds(r) \/ CancelKills(r) \/ Drop(r)
    \/ Expire

-----------------------------------------------------------------------------
SameTransaction(r, q) == Kind(r, {"tx"}) /\ Kind(q, {"tx"})

(* What a kill is about to stop is the statement it is meant for, as long as that one has not   *)
(* left the registry since the cancel looked; inside one transaction it may be another one.     *)
(* The token of a dropped request stays in the registry, with a connection that others get:     *)
(* a cancel of it may stop theirs.                                                              *)
KillsHitTheirOwn ==
    \A r \in ServerReqs : active[r] # {} /\ ~At(r, "gone") =>
        LET aim == cancel[r] \cup (IF At(r, "killing") THEN req[r].conn ELSE {})
        IN  \A c \in aim : \A q \in busy[c] : q = r \/ SameTransaction(q, r)

(* A schema has seen every change that was answered before its reader came, and is of no older  *)
(* database than the one the reader asked, unless a reader of the old client put it into the    *)
(* cache after a save had cleared it.                                                           *)
ServedIsFresh ==
    \A r \in ServerReqs : Kind(r, {"schema"}) =>
        \A s \in req[r].got :
            /\ s.version >= req[r].due[s.of]
            /\ s.of >= req[r].client \/ s.orphan
=============================================================================
