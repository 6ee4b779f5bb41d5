------------------------------ MODULE MCServer ------------------------------
(***************************************************************************)
(* Three parts of the server side by side, ToolJobs, QueryServer and       *)
(* JsonStores: which one a behaviour looks at is chosen first, and the     *)
(* others stay as they are. They share no state; one run keeps their       *)
(* bounds and their fairness together.                                     *)
(***************************************************************************)
EXTENDS ToolJobs

CONSTANTS ServerReqs, PoolConns, MaxSaves, MaxDrops, MaxKills, \* QueryServer
          StoreTasks, MaxOps, Floor, NoFile, Empty, Torn  \* JsonStores

ASSUME ServerAssumption == ServerReqs \subseteq Nat /\ PoolConns # {} /\ MaxSaves \in Nat

ASSUME StoreAssumption ==
  IsFiniteSet(StoreTasks) /\ MaxOps \in Nat /\ Floor \in Nat /\ {NoFile, Empty, Torn} \cap Nat = {}

VARIABLES
  view,
  qsReq, qsActive, qsBusy, qsCancel, qsSession, qsMutex, qsCache, qsCacheLock,
  qsVersion, qsSettled, qsConfig, qsClient, qsDbLock, qsClosed,
  jsKind, jsMemory, jsPath, jsTmp, jsDisk, jsTask, jsOps,
  jsBefore, jsLone, jsMixed, jsSingle, jsOverlapped

QS == INSTANCE QueryServer WITH
  req <- qsReq, active <- qsActive, busy <- qsBusy, cancel <- qsCancel,
  session <- qsSession, mutex <- qsMutex, cache <- qsCache,
  cacheLock <- qsCacheLock, version <- qsVersion, settled <- qsSettled,
  config <- qsConfig, client <- qsClient, dbLock <- qsDbLock, closed <- qsClosed

queries == <<qsReq, qsActive, qsBusy, qsCancel, qsSession, qsMutex, qsCache,
             qsCacheLock, qsVersion, qsSettled, qsConfig, qsClient, qsDbLock,
             qsClosed>>

JS == INSTANCE JsonStores WITH
  Task <- StoreTasks,
  kind <- jsKind, memory <- jsMemory, path <- jsPath, tmp <- jsTmp,
  disk <- jsDisk, task <- jsTask, ops <- jsOps, before <- jsBefore,
  lone <- jsLone, mixed <- jsMixed, single <- jsSingle,
  overlapped <- jsOverlapped

stores == <<jsKind, jsMemory, jsPath, jsTmp, jsDisk, jsTask, jsOps,
            jsBefore, jsLone, jsMixed, jsSingle, jsOverlapped>>

\* Which store there is matters only to the view of it.
ServerInit ==
  /\ view \in {"tools", "queries", "stores"}
  /\ Init /\ QS!Init /\ JS!Init
  /\ view = "stores" \/ jsKind = "rules"

Tools   == view = "tools" /\ Next /\ UNCHANGED <<view, queries, stores>>
Queries == view = "queries" /\ QS!Next /\ UNCHANGED <<view, vars, stores>>
Stores  == view = "stores" /\ JS!Next /\ UNCHANGED <<view, vars, queries>>

ServerNext == Tools \/ Queries \/ Stores

serverVars == <<view, vars, queries, stores>>

\* Fairness of what goes on by itself; nothing is claimed of the stores in the end.
Fairness ==
  WF_serverVars((view = "tools" /\ Progress /\ UNCHANGED <<view, queries, stores>>)
             \/ (view = "queries" /\ QS!Progress /\ UNCHANGED <<view, vars, stores>>))

ServerSpec == ServerInit /\ [][ServerNext]_serverVars /\ Fairness

-----------------------------------------------------------------------------
\* What a kill is about to stop is the statement it is meant for, or another
\* one of its transaction, as long as that one is registered and its handler was
\* not dropped (perf.rs execute_sql, state.rs cancel_active_query).
KillsHitTheirOwn == QS!KillsHitTheirOwn

\* A schema has seen every change answered before its reader came, and is of no
\* older database than the reader's, unless a reader of the old client put it
\* into the cleared cache while a save was connecting (main.rs
\* get_cached_schema, clear_metadata_caches, update_config).
ServedIsFresh == QS!ServedIsFresh

\* A restart at any step finds what the memory holds, or during an operation what
\* it held before or is about to hold, unless operations overlapped, or one failed
\* or was dropped half way, since the last one that was alone; and it finds a whole file, also then,
\* unless two saves were under way at once (rule_engine.rs save, history.rs save,
\* policy_store.rs save_override, main.rs get_history).
StoresSurvive == JS!FileIsWhole /\ JS!RestartFindsMemory

\* What waits stops waiting: a task that was canceled is dropped and gives its
\* permit back, also one whose query never returns; and a request of the
\* workbench that waits for a connection, for the lock of the cache, of the
\* session or of the client is answered, though each may hold what another one
\* waits for (acquire_timeout_ms, timeouts.db_query, the sweep).
ServerWaitingEnds ==
  LET waits == \/ \E r \in Request : aborted[r] /\ Alive(r)
               \/ \E r \in ServerReqs : qsReq[r].pc \notin {"idle", "answered", "gone"}
  IN  waits ~> ~waits
=============================================================================
