-------------------------- MODULE QueryServerProofs --------------------------
(***************************************************************************)
(* That kills hit their own statement and that served schemas are fresh, for *)
(* any number of requests, connections and saves.  Both are stated of the    *)
(* specification the run checks; only the steps of QueryServer matter, the   *)
(* other view leaves its variables alone.                                    *)
(***************************************************************************)
EXTENDS MCServer, TLAPS

(* How far a request can be. *)
Early  == {"idle", "arrived", "absent"}
Before == Early \cup {"finding", "acquiring", "registering"}
AtWork == {"ready", "running", "killing", "killed"}
Pcs    == Before \cup AtWork \cup {"clearing", "answered", "looking", "wanting", "fetching", "fetched",
                                   "connecting", "taking", "closing", "installing", "gone"}

Schemas == [of : QS!Clients, version : Nat, orphan : BOOLEAN]

Requests == [kind : QS!Kinds \cup {"none"}, pc : Pcs, client : QS!Clients, conn : SUBSET QS!AllConns,
             made : Nat, due : [QS!Clients -> Nat], got : SUBSET Schemas]

QueriesTypeOK ==
    /\ qsReq \in [ServerReqs -> Requests]
    /\ qsActive \in [ServerReqs -> SUBSET QS!AllConns]
    /\ qsBusy \in [QS!AllConns -> SUBSET ServerReqs]
    /\ qsCancel \in [ServerReqs -> SUBSET QS!AllConns]
    /\ qsSession \subseteq QS!AllConns
    /\ qsCache \subseteq Schemas
    /\ qsVersion \in [QS!Clients -> Nat] /\ qsSettled \in [QS!Clients -> Nat]
    /\ qsConfig \in QS!Clients /\ qsClient \subseteq QS!Clients

(* A save arrives when no other one is under way, so that its number is one of Clients. *)
SavesInTurn ==
    /\ \A r \in ServerReqs : qsReq[r].pc = "idle" => qsReq[r].kind = "none"
    /\ \A r \in ServerReqs : qsReq[r].kind = "save" /\ qsReq[r].pc = "arrived" => qsConfig < MaxSaves
    /\ \A r, q \in ServerReqs :
          /\ qsReq[r].kind = "save" /\ qsReq[r].pc \notin {"answered", "gone"}
          /\ qsReq[q].kind = "save" /\ qsReq[q].pc \notin {"answered", "gone"}
          => r = q

Typed == QueriesTypeOK /\ SavesInTurn

IsTx(r)       == qsReq[r].kind = "tx"
Registered(r) == qsActive[r] # {} /\ qsReq[r].pc # "gone"

(* Requests share a connection, or meet a statement on theirs, inside the transaction only; a *)
(* registered one keeps the connection that a cancel has copied, unless it was dropped.       *)
ConnectionsAreOwn ==
    /\ \A r \in ServerReqs : qsReq[r].pc = "finding" => IsTx(r)
    /\ \A r, q \in ServerReqs : \A c \in qsReq[r].conn \cap qsReq[q].conn : r = q \/ (IsTx(r) /\ IsTx(q))
    /\ \A r \in ServerReqs : \A c \in qsReq[r].conn \cap qsSession : IsTx(r)
    /\ \A r \in ServerReqs : \A c \in qsReq[r].conn : \A q \in qsBusy[c] : q = r \/ (IsTx(r) /\ IsTx(q))
    /\ \A c \in qsSession : \A q \in qsBusy[c] : IsTx(q)
    /\ \A r \in ServerReqs : Registered(r) =>
          qsReq[r].pc \in AtWork /\ qsActive[r] = qsReq[r].conn /\ qsCancel[r] \subseteq qsReq[r].conn
    /\ \A r \in ServerReqs : qsReq[r].pc \in Before => qsCancel[r] = {}

(* What was answered has been made, on the database of the request; a dropped one has none. *)
ChangesAreCounted ==
    /\ \A g \in QS!Clients : qsSettled[g] <= qsVersion[g]
    /\ \A r \in ServerReqs : qsReq[r].made <= qsVersion[qsReq[r].client]
    /\ \A r \in ServerReqs : \A g \in QS!Clients : qsReq[r].due[g] <= qsSettled[g]
    /\ \A r \in ServerReqs : qsReq[r].kind \in QS!Changes /\ qsReq[r].pc # "gone" =>
          /\ \A c \in qsReq[r].conn : c[1] = qsReq[r].client
          /\ \A c \in QS!AllConns : r \in qsBusy[c] => c[1] = qsReq[r].client

EarlyIsEmpty ==
    \A r \in ServerReqs : qsReq[r].pc \in Early =>
        /\ qsReq[r].conn = {} /\ qsReq[r].made = 0 /\ qsReq[r].got = {}
        /\ \A c \in QS!AllConns : r \notin qsBusy[c]

(* Nobody clears the cache while a reader of the database holds its lock. *)
FetchIsFresh ==
    \A r \in ServerReqs :
        /\ qsReq[r].pc \in {"fetching", "fetched"} => qsCacheLock = {r}
        /\ qsReq[r].pc = "fetched" => qsSettled[qsReq[r].client] <= qsReq[r].made

(* What is in the cache has seen all that was answered, and of no older database than anybody's, *)
(* but for a save that has still to clear it.                                                   *)
CacheIsFresh ==
    /\ \A r \in ServerReqs : qsReq[r].client <= qsConfig
    /\ \A g \in qsClient : g <= qsConfig
    /\ \A s \in qsCache :
          /\ qsSettled[s.of] <= s.version
          /\ ~s.orphan =>
               /\ \A g \in qsClient : g <= s.of
               /\ \A r \in ServerReqs :
                     ~(qsReq[r].kind = "save" /\ qsReq[r].pc = "clearing") => qsReq[r].client <= s.of

IInv == /\ Typed /\ ConnectionsAreOwn /\ ChangesAreCounted /\ EarlyIsEmpty
        /\ FetchIsFresh /\ CacheIsFresh /\ QS!ServedIsFresh

-----------------------------------------------------------------------------
(* What a step does to the requests: r gets these fields, the others stay as they are. *)
Becomes(r, asKind, at, client, conn, made, due, got) ==
    /\ qsReq' \in [ServerReqs -> Requests]
    /\ qsReq'[r].kind = asKind /\ qsReq'[r].pc = at /\ qsReq'[r].client = client
    /\ qsReq'[r].conn = conn /\ qsReq'[r].made = made /\ qsReq'[r].due = due /\ qsReq'[r].got = got
    /\ \A q \in ServerReqs \ {r} : qsReq'[q] = qsReq[q]

LEMMA InitKeeps ==
    ASSUME QS!Init
    PROVE  IInv
<1> USE DEF QS!Init, QS!Idle
<1>1. Typed
  BY ServerAssumption DEF Typed, QueriesTypeOK, SavesInTurn, Requests, Pcs, Before, Early, QS!Clients
<1>2. ConnectionsAreOwn
  BY DEF ConnectionsAreOwn, Registered, AtWork
<1>3. 0 \in QS!Clients /\ QS!ServedIsFresh
  BY ServerAssumption DEF QS!Clients, QS!ServedIsFresh
<1>4. ChangesAreCounted
  BY <1>3 DEF ChangesAreCounted
<1>5. EarlyIsEmpty /\ FetchIsFresh /\ CacheIsFresh
  BY DEF EarlyIsEmpty, FetchIsFresh, CacheIsFresh
<1> QED  BY <1>1, <1>2, <1>3, <1>4, <1>5 DEF IInv

LEMMA GoesBecomes ==
    ASSUME qsReq \in [ServerReqs -> Requests], NEW r \in ServerReqs, NEW p \in Pcs, QS!Goes(r, p)
    PROVE  Becomes(r, qsReq[r].kind, p, qsReq[r].client, qsReq[r].conn, qsReq[r].made,
                   qsReq[r].due, qsReq[r].got)
BY DEF Becomes, Requests, QS!Goes

LEMMA EndsBecomes ==
    ASSUME qsReq \in [ServerReqs -> Requests], NEW r \in ServerReqs, QS!Ends(r)
    PROVE  Becomes(r, qsReq[r].kind, "answered", qsReq[r].client, {}, 0, qsReq[r].due, qsReq[r].got)
<1>1. "answered" \in Pcs
  BY DEF Pcs
<1> QED BY <1>1 DEF Becomes, Requests, QS!Ends

LEMMA ServeBecomes ==
    ASSUME qsReq \in [ServerReqs -> Requests], NEW r \in ServerReqs, NEW s \in Schemas, QS!Serve(r, s)
    PROVE  Becomes(r, qsReq[r].kind, "answered", qsReq[r].client, qsReq[r].conn, qsReq[r].made,
                   qsReq[r].due, {s})
<1>1. "answered" \in Pcs
  BY DEF Pcs
<1> QED BY <1>1 DEF Becomes, Requests, QS!Serve

-----------------------------------------------------------------------------
(* The actions. *)

(* Who takes no connection and becomes nobody's neighbour disturbs nobody's. *)
LEMMA ConnectionsStayOwn ==
    ASSUME IInv, NEW r \in ServerReqs, NEW p, NEW client, NEW conn, NEW made, NEW due, NEW got,
           Becomes(r, qsReq[r].kind, p, client, conn, made, due, got),
           conn \subseteq qsReq[r].conn,
           p \in Before => qsReq[r].pc \in Before,
           p = "finding" => IsTx(r),
           qsActive' \in {qsActive, [qsActive EXCEPT ![r] = {}]},
           qsActive'[r] # {} => p = "gone" \/ (p \in AtWork /\ conn = qsReq[r].conn /\ qsReq[r].pc # "gone"),
           qsBusy' \in [QS!AllConns -> SUBSET ServerReqs],
           \A c \in QS!AllConns : qsBusy'[c] \subseteq qsBusy[c],
           UNCHANGED <<qsCancel, qsSession>>
    PROVE  ConnectionsAreOwn'
<1> USE DEF Becomes
<1>1. \A q \in ServerReqs : qsReq'[q].conn \subseteq qsReq[q].conn /\ qsReq'[q].kind = qsReq[q].kind
  OBVIOUS
<1>2. \A q \in ServerReqs : qsReq[q].conn \subseteq QS!AllConns
  BY DEF IInv, Typed, QueriesTypeOK, Requests
<1>3. /\ \A q \in ServerReqs : qsReq'[q].pc = "finding" => IsTx(q)'
      /\ \A q1, q2 \in ServerReqs : \A c \in qsReq'[q1].conn \cap qsReq'[q2].conn :
            q1 = q2 \/ (IsTx(q1)' /\ IsTx(q2)')
      /\ \A q \in ServerReqs : \A c \in qsReq'[q].conn \cap qsSession' : IsTx(q)'
  BY <1>1 DEF IInv, ConnectionsAreOwn, IsTx, Registered
<1>4. /\ \A q1 \in ServerReqs : \A c \in qsReq'[q1].conn : \A q2 \in qsBusy'[c] :
            q2 = q1 \/ (IsTx(q2)' /\ IsTx(q1)')
      /\ \A c \in qsSession' : \A q \in qsBusy'[c] : IsTx(q)'
  BY <1>1, <1>2 DEF IInv, Typed, QueriesTypeOK, ConnectionsAreOwn, IsTx, Registered
<1>5. /\ \A q \in ServerReqs : Registered(q)' =>
            qsReq'[q].pc \in AtWork /\ qsActive'[q] = qsReq'[q].conn /\ qsCancel'[q] \subseteq qsReq'[q].conn
      /\ \A q \in ServerReqs : qsReq'[q].pc \in Before => qsCancel'[q] = {}
  BY DEF IInv, Typed, QueriesTypeOK, ConnectionsAreOwn, Registered
<1> QED  BY <1>3, <1>4, <1>5 DEF ConnectionsAreOwn, Registered

(* A request that goes on, may give its connections back and takes nothing new. *)
LEMMA RequestMoves ==
    ASSUME IInv, NEW r \in ServerReqs, NEW p \in Pcs, NEW conn, NEW made,
           Becomes(r, qsReq[r].kind, p, qsReq[r].client, conn, made, qsReq[r].due, qsReq[r].got),
           conn \subseteq qsReq[r].conn, made \in {qsReq[r].made, 0},
           qsReq[r].pc \notin {"answered", "gone"}, p \notin {"idle", "arrived", "fetching", "fetched"},
           p \in Before => qsReq[r].pc \in Before,
           p \in Early => qsReq[r].pc \in Early, p # "gone",
           p = "finding" => IsTx(r),
           ~(qsReq[r].kind = "save" /\ qsReq[r].pc = "clearing"),
           qsActive' \in {qsActive, [qsActive EXCEPT ![r] = {}]},
           qsActive'[r] # {} => p = "gone" \/ (p \in AtWork /\ conn = qsReq[r].conn /\ qsReq[r].pc # "gone"),
           qsBusy' \in [QS!AllConns -> SUBSET ServerReqs],
           \A c \in QS!AllConns : qsBusy'[c] \subseteq qsBusy[c],
           qsCacheLock' \in {qsCacheLock, qsCacheLock \ {r}}, qsClient' \subseteq qsClient,
           UNCHANGED <<qsCancel, qsSession, qsCache, qsVersion, qsSettled, qsConfig>>
    PROVE  IInv'
<1> USE DEF Becomes
<1>1. Typed'
  BY DEF IInv, Typed, QueriesTypeOK, SavesInTurn
<1>2. ConnectionsAreOwn'
  BY ConnectionsStayOwn
<1>3. ChangesAreCounted'
  <2>1. \A q \in ServerReqs : qsReq[q].client \in QS!Clients /\ qsReq[q].made \in Nat
    BY DEF IInv, Typed, QueriesTypeOK, Requests
  <2>2. \A q \in ServerReqs : qsReq'[q].made <= qsVersion'[qsReq'[q].client]
    <3>1. \A g \in QS!Clients : qsVersion[g] \in Nat
      BY DEF IInv, Typed, QueriesTypeOK
    <3> QED  BY <2>1, <3>1 DEF IInv, ChangesAreCounted
  <2>3. /\ \A g \in QS!Clients : qsSettled'[g] <= qsVersion'[g]
        /\ \A q \in ServerReqs : \A g \in QS!Clients : qsReq'[q].due[g] <= qsSettled'[g]
    BY DEF IInv, ChangesAreCounted
  <2>4. \A q \in ServerReqs : qsReq'[q].kind \in QS!Changes /\ qsReq'[q].pc # "gone" =>
          /\ \A c \in qsReq'[q].conn : c[1] = qsReq'[q].client
          /\ \A c \in QS!AllConns : q \in qsBusy'[c] => c[1] = qsReq'[q].client
    BY DEF IInv, ChangesAreCounted
  <2> QED  BY <2>2, <2>3, <2>4 DEF ChangesAreCounted
<1>4. EarlyIsEmpty'
  BY DEF IInv, Typed, QueriesTypeOK, EarlyIsEmpty
<1>5. FetchIsFresh'
  BY DEF IInv, FetchIsFresh
<1>6. CacheIsFresh'
  BY DEF IInv, CacheIsFresh
<1>7. QS!ServedIsFresh'
  BY DEF IInv, QS!ServedIsFresh, QS!Kind
<1> QED  BY <1>1, <1>2, <1>3, <1>4, <1>5, <1>6, <1>7 DEF IInv

LEMMA Ended ==
    ASSUME IInv, NEW r \in ServerReqs, QS!Ends(r), qsReq[r].pc \notin {"answered", "gone"},
           qsActive' \in {qsActive, [qsActive EXCEPT ![r] = {}]}, qsActive'[r] = {},
           ~(qsReq[r].kind = "save" /\ qsReq[r].pc = "clearing"),
           qsBusy' \in [QS!AllConns -> SUBSET ServerReqs],
           \A c \in QS!AllConns : qsBusy'[c] \subseteq qsBusy[c],
           qsCacheLock' \in {qsCacheLock, qsCacheLock \ {r}}, qsClient' \subseteq qsClient,
           UNCHANGED <<qsCancel, qsSession, qsCache, qsVersion, qsSettled, qsConfig>>
    PROVE  IInv'
<1>1. qsReq \in [ServerReqs -> Requests]
  BY DEF IInv, Typed, QueriesTypeOK
<1>2. Becomes(r, qsReq[r].kind, "answered", qsReq[r].client, {}, 0, qsReq[r].due, qsReq[r].got)
  BY <1>1, EndsBecomes
<1>3. "answered" \in Pcs \ Before
  BY DEF Pcs, Before, Early
<1> HIDE DEF Becomes
<1> QED  BY <1>2, <1>3, RequestMoves DEF Before

LEMMA WentOn ==
    ASSUME IInv, NEW r \in ServerReqs, NEW p \in Pcs, QS!Goes(r, p), 
           qsReq[r].pc \notin {"answered", "gone"}, p \notin {"idle", "arrived", "finding", "fetching", "fetched"},
           p \in Before => qsReq[r].pc \in Before,
           p \in Early => qsReq[r].pc \in Early, p # "gone",
           ~(qsReq[r].kind = "save" /\ qsReq[r].pc = "clearing"),
           qsActive' \in {qsActive, [qsActive EXCEPT ![r] = {}]},
           qsActive'[r] # {} => p \in AtWork,
           qsBusy' \in [QS!AllConns -> SUBSET ServerReqs],
           \A c \in QS!AllConns : qsBusy'[c] \subseteq qsBusy[c],
           qsCacheLock' = qsCacheLock, qsClient' \subseteq qsClient,
           UNCHANGED <<qsCancel, qsSession, qsCache, qsVersion, qsSettled, qsConfig>>
    PROVE  IInv'
<1>1. qsReq \in [ServerReqs -> Requests]
  BY DEF IInv, Typed, QueriesTypeOK
<1>2. Becomes(r, qsReq[r].kind, p, qsReq[r].client, qsReq[r].conn, qsReq[r].made,
              qsReq[r].due, qsReq[r].got)
  BY <1>1, GoesBecomes
<1> QED  BY <1>2, RequestMoves

(* Who is registered is at work. *)
LEMMA OthersAreUnregistered ==
    ASSUME IInv, NEW r \in ServerReqs, qsReq[r].pc \notin AtWork \cup {"gone"}
    PROVE  qsActive[r] = {}
BY DEF IInv, ConnectionsAreOwn, Registered

LEMMA BusyIsTyped ==
    ASSUME IInv
    PROVE  qsBusy \in [QS!AllConns -> SUBSET ServerReqs]
BY DEF IInv, Typed, QueriesTypeOK

LEMMA KillShrinks ==
    ASSUME IInv, NEW conns, QS!Kill(conns)
    PROVE  /\ qsBusy' \in [QS!AllConns -> SUBSET ServerReqs]
           /\ \A c \in QS!AllConns : qsBusy'[c] \subseteq qsBusy[c]
BY BusyIsTyped DEF QS!Kill

LEMMA LookForSessionKeeps ==
    ASSUME IInv, NEW r \in ServerReqs, QS!LookForSession(r)
    PROVE  IInv'
<1> USE BusyIsTyped, OthersAreUnregistered DEF QS!LookForSession, QS!At, Pcs, Before, Early, AtWork
<1>1. CASE QS!Goes(r, "absent")
  BY <1>1, WentOn
<1>2. CASE QS!Ends(r)
  BY <1>2, Ended
<1> QED  BY <1>1, <1>2

LEMMA AcquireFailsKeeps ==
    ASSUME IInv, NEW r \in ServerReqs, QS!AcquireFails(r)
    PROVE  IInv'
<1> USE BusyIsTyped, OthersAreUnregistered DEF QS!AcquireFails, QS!At, Pcs, Before, Early, AtWork
<1> QED  BY Ended

LEMMA TimesOutKeeps ==
    ASSUME IInv, NEW r \in ServerReqs, QS!TimesOut(r)
    PROVE  IInv'
<1> USE BusyIsTyped, OthersAreUnregistered DEF QS!TimesOut, QS!At, Pcs, Before, Early, AtWork
<1> QED  BY WentOn

LEMMA KillOwnKeeps ==
    ASSUME IInv, NEW r \in ServerReqs, QS!KillOwn(r)
    PROVE  IInv'
<1> USE BusyIsTyped, OthersAreUnregistered DEF QS!KillOwn, QS!At, Pcs, Before, Early, AtWork
<1>1. /\ qsBusy' \in [QS!AllConns -> SUBSET ServerReqs]
      /\ \A c \in QS!AllConns : qsBusy'[c] \subseteq qsBusy[c]
  BY KillShrinks
<1> QED  BY <1>1, WentOn

LEMMA FinishKeeps ==
    ASSUME IInv, NEW r \in ServerReqs, QS!Finish(r)
    PROVE  IInv'
<1> USE BusyIsTyped, OthersAreUnregistered DEF QS!Finish, QS!At, Pcs, Before, Early, AtWork
<1>1. CASE QS!Ends(r)
  <2>1. qsActive' = [qsActive EXCEPT ![r] = {}] /\ qsActive'[r] = {}
    BY DEF IInv, Typed, QueriesTypeOK
  <2> QED  BY <1>1, <2>1, Ended DEF QS!Returned
<1>2. CASE ~QS!Ends(r)
  <2> DEFINE conn == IF QS!Kind(r, {"ddl"}) THEN {} ELSE qsReq[r].conn
  <2>1. qsReq' = [qsReq EXCEPT ![r].pc = "clearing", ![r].conn = conn]
    BY <1>2
  <2>2. Becomes(r, qsReq[r].kind, "clearing", qsReq[r].client, conn, qsReq[r].made,
                qsReq[r].due, qsReq[r].got)
    BY <2>1 DEF Becomes, Requests, IInv, Typed, QueriesTypeOK
  <2>3. /\ conn \subseteq qsReq[r].conn /\ qsActive'[r] = {} /\ qsActive' = [qsActive EXCEPT ![r] = {}]
        /\ "clearing" \in Pcs \ Before /\ qsReq[r].pc \notin {"answered", "gone", "clearing"}
    BY DEF QS!Returned, IInv, Typed, QueriesTypeOK
  <2> HIDE DEF conn
  <2> QED  BY <2>2, <2>3, RequestMoves
<1> QED  BY <1>1, <1>2

LEMMA ConnectKeeps ==
    ASSUME IInv, NEW r \in ServerReqs, QS!Connect(r)
    PROVE  IInv'
<1> USE BusyIsTyped, OthersAreUnregistered DEF QS!Connect, QS!At, Pcs, Before, Early, AtWork
<1>1. CASE QS!Goes(r, "taking")
  BY <1>1, WentOn
<1>2. CASE QS!Ends(r)
  BY <1>2, Ended
<1> QED  BY <1>1, <1>2

LEMMA TakeOldKeeps ==
    ASSUME IInv, NEW r \in ServerReqs, QS!TakeOld(r)
    PROVE  IInv'
<1> USE BusyIsTyped, OthersAreUnregistered DEF QS!TakeOld, QS!At, Pcs, Before, Early, AtWork
<1> QED  BY WentOn

LEMMA CloseEndsKeeps ==
    ASSUME IInv, NEW r \in ServerReqs, QS!CloseEnds(r)
    PROVE  IInv'
<1> USE BusyIsTyped, OthersAreUnregistered DEF QS!CloseEnds, QS!At, Pcs, Before, Early, AtWork
<1> QED  BY WentOn

LEMMA FetchFailsKeeps ==
    ASSUME IInv, NEW r \in ServerReqs, QS!FetchFails(r)
    PROVE  IInv'
<1> USE BusyIsTyped, OthersAreUnregistered DEF QS!FetchFails, QS!At, Pcs, Before, Early, AtWork
<1> QED  BY Ended

(* The requests stay as they are. *)
LEMMA CancelFindsKeeps ==
    ASSUME IInv, NEW r \in ServerReqs, QS!CancelFinds(r)
    PROVE  IInv'
<1> USE DEF QS!CancelFinds
<1>1. /\ qsActive[r] # {} /\ qsActive[r] \subseteq QS!AllConns
      /\ qsReq[r].pc # "gone" => qsReq[r].pc \in AtWork /\ qsActive[r] = qsReq[r].conn
  BY DEF IInv, Typed, QueriesTypeOK, ConnectionsAreOwn, Registered
<1>2. Typed'
  BY <1>1 DEF IInv, Typed, QueriesTypeOK, SavesInTurn, Requests
<1>3. ConnectionsAreOwn'
  BY <1>1 DEF IInv, Typed, QueriesTypeOK, ConnectionsAreOwn, IsTx, Registered, Before, Early, AtWork
<1>4. ChangesAreCounted' /\ EarlyIsEmpty' /\ FetchIsFresh' /\ CacheIsFresh' /\ QS!ServedIsFresh'
  BY DEF IInv, ChangesAreCounted, EarlyIsEmpty, FetchIsFresh, CacheIsFresh, QS!ServedIsFresh, QS!Kind
<1> QED  BY <1>2, <1>3, <1>4 DEF IInv

LEMMA CancelKillsKeeps ==
    ASSUME IInv, NEW r \in ServerReqs, QS!CancelKills(r)
    PROVE  IInv'
<1> USE DEF QS!CancelKills
<1>1. QS!Kill(qsCancel[r]) \/ UNCHANGED qsBusy
  BY DEF IInv, Typed, QueriesTypeOK
<1>2. /\ qsBusy' \in [QS!AllConns -> SUBSET ServerReqs]
      /\ \A c \in QS!AllConns : qsBusy'[c] \subseteq qsBusy[c]
  BY <1>1, KillShrinks, BusyIsTyped
<1>3. Typed'
  BY <1>2 DEF IInv, Typed, QueriesTypeOK, SavesInTurn, Requests
<1>4. ConnectionsAreOwn'
  BY <1>2 DEF IInv, Typed, QueriesTypeOK, Requests, ConnectionsAreOwn, IsTx, Registered
<1>5. ChangesAreCounted' /\ EarlyIsEmpty' /\ FetchIsFresh' /\ CacheIsFresh' /\ QS!ServedIsFresh'
  BY <1>2 DEF IInv, ChangesAreCounted, EarlyIsEmpty, FetchIsFresh, CacheIsFresh, QS!ServedIsFresh, QS!Kind
<1> QED  BY <1>3, <1>4, <1>5 DEF IInv

LEMMA SessionEndsKeeps ==
    ASSUME IInv, QS!SessionEnds
    PROVE  IInv'
<1> USE DEF QS!SessionEnds
<1>1. Typed' /\ ConnectionsAreOwn'
  BY DEF IInv, Typed, QueriesTypeOK, SavesInTurn, Requests, ConnectionsAreOwn, IsTx, Registered
<1>2. ChangesAreCounted' /\ EarlyIsEmpty' /\ FetchIsFresh' /\ CacheIsFresh' /\ QS!ServedIsFresh'
  BY DEF IInv, ChangesAreCounted, EarlyIsEmpty, FetchIsFresh, CacheIsFresh, QS!ServedIsFresh, QS!Kind
<1> QED  BY <1>1, <1>2 DEF IInv

LEMMA ExpireKeeps ==
    ASSUME IInv, QS!Expire
    PROVE  IInv'
<1> USE DEF QS!Expire
<1>1. Typed' /\ ConnectionsAreOwn'
  BY DEF IInv, Typed, QueriesTypeOK, SavesInTurn, Requests, ConnectionsAreOwn, IsTx, Registered
<1>2. ChangesAreCounted' /\ EarlyIsEmpty' /\ FetchIsFresh' /\ CacheIsFresh' /\ QS!ServedIsFresh'
  BY DEF IInv, ChangesAreCounted, EarlyIsEmpty, FetchIsFresh, CacheIsFresh, QS!ServedIsFresh, QS!Kind
<1> QED  BY <1>1, <1>2 DEF IInv

LEMMA RegisterKeeps ==
    ASSUME IInv, NEW r \in ServerReqs, QS!Register(r)
    PROVE  IInv'
<1> USE DEF QS!Register, QS!At
<1>1. Becomes(r, qsReq[r].kind, "ready", qsReq[r].client, qsReq[r].conn, qsReq[r].made,
              qsReq[r].due, qsReq[r].got)
  BY GoesBecomes DEF IInv, Typed, QueriesTypeOK, Pcs, AtWork
<1>2. Typed'
  <2>1. qsActive' \in [ServerReqs -> SUBSET QS!AllConns]
    BY DEF IInv, Typed, QueriesTypeOK, Requests
  <2>2. SavesInTurn'
    BY <1>1 DEF IInv, Typed, SavesInTurn, Becomes
  <2> QED  BY <1>1, <2>1, <2>2 DEF IInv, Typed, QueriesTypeOK, Becomes
<1>3. qsCancel[r] = {}
  BY DEF IInv, ConnectionsAreOwn, Registered, Before, Early
<1>4. ConnectionsAreOwn'
  <2>1. \A q \in ServerReqs : qsReq'[q].conn = qsReq[q].conn /\ qsReq'[q].kind = qsReq[q].kind
    BY <1>1 DEF Becomes
  <2>2. /\ \A q \in ServerReqs : qsReq'[q].pc = "finding" => IsTx(q)'
        /\ \A q \in ServerReqs : Registered(q)' =>
              qsReq'[q].pc \in AtWork /\ qsActive'[q] = qsReq'[q].conn /\ qsCancel'[q] \subseteq qsReq'[q].conn
        /\ \A q \in ServerReqs : qsReq'[q].pc \in Before => qsCancel'[q] = {}
    BY <1>1, <1>3 DEF IInv, Typed, QueriesTypeOK, ConnectionsAreOwn, IsTx, Registered, Becomes, AtWork, Before, Early
  <2> QED  BY <2>1, <2>2 DEF IInv, Typed, QueriesTypeOK, Requests, ConnectionsAreOwn, IsTx, Registered
<1>5. ChangesAreCounted'
  BY <1>1 DEF IInv, ChangesAreCounted, Becomes
<1>6. EarlyIsEmpty' /\ FetchIsFresh' /\ CacheIsFresh' /\ QS!ServedIsFresh'
  BY <1>1 DEF IInv, EarlyIsEmpty, FetchIsFresh, CacheIsFresh, QS!ServedIsFresh, QS!Kind, Becomes, Early
<1> QED  BY <1>2, <1>4, <1>5, <1>6 DEF IInv

LEMMA ExecuteKeeps ==
    ASSUME IInv, NEW r \in ServerReqs, QS!Execute(r)
    PROVE  IInv'
<1> USE DEF QS!Execute, QS!At
<1>1. Becomes(r, qsReq[r].kind, "running", qsReq[r].client, qsReq[r].conn, qsReq[r].made,
              qsReq[r].due, qsReq[r].got)
  BY GoesBecomes DEF IInv, Typed, QueriesTypeOK, Pcs, AtWork
<1>2. /\ qsBusy' \in [QS!AllConns -> SUBSET ServerReqs]
      /\ \A c \in QS!AllConns : qsBusy'[c] = IF c \in qsReq[r].conn THEN {r} ELSE qsBusy[c]
  BY BusyIsTyped
<1>3. Typed'
  BY <1>1, <1>2 DEF IInv, Typed, QueriesTypeOK, SavesInTurn, Becomes
<1>4. ConnectionsAreOwn'
  <2>1. \A q \in ServerReqs : qsReq'[q].conn = qsReq[q].conn /\ qsReq'[q].kind = qsReq[q].kind
    BY <1>1 DEF Becomes
  <2>2. /\ \A q \in ServerReqs : qsReq'[q].pc = "finding" => IsTx(q)'
        /\ \A q \in ServerReqs : Registered(q)' =>
              qsReq'[q].pc \in AtWork /\ qsActive'[q] = qsReq'[q].conn /\ qsCancel'[q] \subseteq qsReq'[q].conn
        /\ \A q \in ServerReqs : qsReq'[q].pc \in Before => qsCancel'[q] = {}
    BY <1>1 DEF IInv, Typed, QueriesTypeOK, ConnectionsAreOwn, IsTx, Registered, Becomes, AtWork, Before, Early
  <2>3. \A q \in ServerReqs : qsReq[q].conn \subseteq QS!AllConns
    BY DEF IInv, Typed, QueriesTypeOK, Requests
  <2>4. \A q1 \in ServerReqs : \A c \in qsReq[q1].conn : \A q2 \in qsBusy'[c] :
           q2 = q1 \/ (IsTx(q2) /\ IsTx(q1))
    BY <1>2, <2>3 DEF IInv, ConnectionsAreOwn, Registered
  <2>5. \A c \in qsSession : \A q \in qsBusy'[c] : IsTx(q)
    BY <1>2 DEF IInv, Typed, QueriesTypeOK, ConnectionsAreOwn, Registered
  <2>6. /\ \A q1, q2 \in ServerReqs : \A c \in qsReq'[q1].conn \cap qsReq'[q2].conn :
              q1 = q2 \/ (IsTx(q1)' /\ IsTx(q2)')
        /\ \A q \in ServerReqs : \A c \in qsReq'[q].conn \cap qsSession' : IsTx(q)'
    BY <2>1 DEF IInv, ConnectionsAreOwn, IsTx, Registered
  <2>7. qsBusy' \in [QS!AllConns -> SUBSET ServerReqs] /\ qsSession \subseteq QS!AllConns
    BY <1>2 DEF IInv, Typed, QueriesTypeOK
  <2>8. /\ \A q1 \in ServerReqs : \A c \in qsReq'[q1].conn : \A q2 \in qsBusy'[c] :
              q2 = q1 \/ (IsTx(q2)' /\ IsTx(q1)')
        /\ \A c \in qsSession' : \A q \in qsBusy'[c] : IsTx(q)'
    BY <2>1, <2>3, <2>4, <2>5, <2>7 DEF IsTx
  <2> QED  BY <2>2, <2>6, <2>8 DEF ConnectionsAreOwn, Registered
<1>5. ChangesAreCounted'
  BY <1>1, <1>2 DEF IInv, ChangesAreCounted, Becomes
<1>6. EarlyIsEmpty' /\ FetchIsFresh' /\ CacheIsFresh' /\ QS!ServedIsFresh'
  BY <1>1, <1>2 DEF IInv, EarlyIsEmpty, FetchIsFresh, CacheIsFresh, QS!ServedIsFresh, QS!Kind, Becomes, Early
<1> QED  BY <1>3, <1>4, <1>5, <1>6 DEF IInv

LEMMA ArriveKeeps ==
    ASSUME IInv, NEW r \in ServerReqs, QS!Arrive(r)
    PROVE  IInv'
<1> USE DEF QS!Arrive, QS!At
<1>1. PICK k \in QS!Kinds :
        /\ k = "save" => qsConfig < MaxSaves /\ \A q \in ServerReqs : QS!Saving(q) => QS!Over(q)
        /\ qsReq' = [qsReq EXCEPT ![r].kind = k, ![r].pc = "arrived",
                                  ![r].due = IF k = "schema" THEN qsSettled ELSE @]
  OBVIOUS
<1> DEFINE due == IF k = "schema" THEN qsSettled ELSE qsReq[r].due
<1>2. Becomes(r, k, "arrived", qsReq[r].client, qsReq[r].conn, qsReq[r].made, due, qsReq[r].got)
  <2>1. due \in [QS!Clients -> Nat]
    BY DEF Requests, IInv, Typed, QueriesTypeOK
  <2>2. qsReq' = [qsReq EXCEPT ![r].kind = k, ![r].pc = "arrived", ![r].due = due]
    BY <1>1
  <2>3. "arrived" \in Pcs /\ qsReq \in [ServerReqs -> Requests]
    BY DEF Pcs, Before, Early, IInv, Typed, QueriesTypeOK
  <2> HIDE DEF due
  <2> QED  BY <2>1, <2>2, <2>3 DEF Becomes, Requests
<1>3. qsReq[r].pc = "idle" /\ qsReq[r].kind = "none" /\ qsReq[r].conn = {} /\ qsReq[r].made = 0
      /\ qsReq[r].got = {} /\ (\A c \in QS!AllConns : r \notin qsBusy[c]) /\ qsCancel[r] = {}
      /\ qsActive[r] = {}
  BY DEF IInv, Typed, SavesInTurn, EarlyIsEmpty, ConnectionsAreOwn, Registered, Early, Before, AtWork
<1>4. Typed'
  BY <1>1, <1>2, <1>3 DEF IInv, Typed, QueriesTypeOK, SavesInTurn, Becomes, QS!Saving, QS!Over, QS!Kind
<1>5. ConnectionsAreOwn'
  <2>1. \A q \in ServerReqs : qsReq'[q].conn = qsReq[q].conn /\ (IsTx(q) => IsTx(q)')
    BY <1>2, <1>3 DEF Becomes, IsTx
  <2>2. /\ \A q \in ServerReqs : qsReq'[q].pc = "finding" => IsTx(q)'
        /\ \A q \in ServerReqs : Registered(q)' =>
              qsReq'[q].pc \in AtWork /\ qsActive'[q] = qsReq'[q].conn /\ qsCancel'[q] \subseteq qsReq'[q].conn
        /\ \A q \in ServerReqs : qsReq'[q].pc \in Before => qsCancel'[q] = {}
    BY <1>2, <1>3 DEF IInv, Typed, QueriesTypeOK, ConnectionsAreOwn, IsTx, Registered, Becomes, AtWork, Before, Early
  <2> QED  BY <2>1, <2>2 DEF IInv, Typed, QueriesTypeOK, Requests, ConnectionsAreOwn, Registered
<1>6. ChangesAreCounted'
  BY <1>2, <1>3 DEF IInv, Typed, QueriesTypeOK, Requests, ChangesAreCounted, Becomes
<1>7. EarlyIsEmpty'
  BY <1>2, <1>3 DEF IInv, EarlyIsEmpty, Becomes
<1>8. FetchIsFresh' /\ CacheIsFresh'
  BY <1>2, <1>3 DEF IInv, FetchIsFresh, CacheIsFresh, Becomes
<1>9. QS!ServedIsFresh'
  BY <1>2, <1>3 DEF IInv, QS!ServedIsFresh, QS!Kind, Becomes
<1> QED  BY <1>4, <1>5, <1>6, <1>7, <1>8, <1>9 DEF IInv

LEMMA ResolveKeeps ==
    ASSUME IInv, NEW r \in ServerReqs, QS!Resolve(r)
    PROVE  IInv'
<1> USE DEF QS!Resolve, QS!At
<1>1. qsReq[r].pc \in {"arrived", "absent"} /\ ~(qsReq[r].pc = "arrived" /\ qsReq[r].kind = "save")
  BY DEF QS!Kind
<1>2. CASE QS!Ends(r)
  BY <1>1, <1>2, Ended, BusyIsTyped, OthersAreUnregistered DEF AtWork
<1>3. ASSUME NEW g \in qsClient, qsReq' = [qsReq EXCEPT ![r].client = g, ![r].pc = QS!First(r)]
      PROVE  IInv'
  <2>1. QS!First(r) \in {"looking", "finding", "acquiring"} /\ (QS!First(r) = "finding" => IsTx(r))
    BY DEF QS!First, QS!Kind, IsTx
  <2>2. g \in QS!Clients
    BY DEF IInv, Typed, QueriesTypeOK
  <2>3. Becomes(r, qsReq[r].kind, QS!First(r), g, qsReq[r].conn, qsReq[r].made,
                qsReq[r].due, qsReq[r].got)
    <3>1. QS!First(r) \in Pcs
      BY <2>1 DEF Pcs, Before
    <3>2. qsReq \in [ServerReqs -> Requests]
      BY DEF IInv, Typed, QueriesTypeOK
    <3> QED  BY <1>3, <2>2, <3>1, <3>2 DEF Becomes, Requests
  <2>4. qsReq[r].conn = {} /\ qsReq[r].made = 0 /\ qsReq[r].got = {}
        /\ \A c \in QS!AllConns : r \notin qsBusy[c]
    BY <1>1 DEF IInv, EarlyIsEmpty, Early
  <2>5. Typed'
    BY <1>1, <2>1, <2>3 DEF IInv, Typed, QueriesTypeOK, SavesInTurn, Becomes
  <2>6. ConnectionsAreOwn'
    BY <1>1, <2>1, <2>3, ConnectionsStayOwn, BusyIsTyped, OthersAreUnregistered DEF Before, Early, AtWork
  <2>7. ChangesAreCounted'
    <3>1. qsVersion[g] \in Nat
      BY <2>2 DEF IInv, Typed, QueriesTypeOK
    <3>2. \A q \in ServerReqs : qsReq'[q].made <= qsVersion'[qsReq'[q].client]
      BY <2>3, <2>4, <3>1 DEF IInv, ChangesAreCounted, Becomes
    <3>3. /\ \A q \in ServerReqs : \A d \in QS!Clients : qsReq'[q].due[d] <= qsSettled'[d]
          /\ \A d \in QS!Clients : qsSettled'[d] <= qsVersion'[d]
      BY <2>3 DEF IInv, ChangesAreCounted, Becomes
    <3>4. \A q \in ServerReqs : qsReq'[q].kind \in QS!Changes /\ qsReq'[q].pc # "gone" =>
            /\ \A c \in qsReq'[q].conn : c[1] = qsReq'[q].client
            /\ \A c \in QS!AllConns : q \in qsBusy'[c] => c[1] = qsReq'[q].client
      BY <2>3, <2>4 DEF IInv, ChangesAreCounted, Becomes
    <3> QED  BY <3>2, <3>3, <3>4 DEF ChangesAreCounted
  <2>8. EarlyIsEmpty' /\ FetchIsFresh'
    BY <2>1, <2>3 DEF IInv, EarlyIsEmpty, FetchIsFresh, Becomes, Early
  <2>9. CacheIsFresh' /\ QS!ServedIsFresh'
    BY <1>1, <2>3, <2>4 DEF IInv, CacheIsFresh, QS!ServedIsFresh, QS!Kind, Becomes
  <2> QED  BY <2>5, <2>6, <2>7, <2>8, <2>9 DEF IInv
<1> QED  BY <1>2, <1>3

LEMMA FindSessionKeeps ==
    ASSUME IInv, NEW r \in ServerReqs, QS!FindSession(r)
    PROVE  IInv'
<1> USE DEF QS!FindSession, QS!At
<1>1. CASE QS!Ends(r)
  BY <1>1, Ended, BusyIsTyped, OthersAreUnregistered DEF AtWork
<1>2. CASE qsReq' = [qsReq EXCEPT ![r].conn = qsSession, ![r].pc = "registering"]
  <2>1. Becomes(r, qsReq[r].kind, "registering", qsReq[r].client, qsSession, qsReq[r].made,
                qsReq[r].due, qsReq[r].got)
    BY <1>2 DEF Becomes, Requests, IInv, Typed, QueriesTypeOK, Pcs, Before
  <2>2. IsTx(r) /\ qsCancel[r] = {} /\ qsActive[r] = {}
    BY DEF IInv, ConnectionsAreOwn, Registered, Before, AtWork
  <2>3. Typed'
    BY <2>1, <1>2 DEF IInv, Typed, QueriesTypeOK, SavesInTurn, Becomes
  <2>4. ConnectionsAreOwn'
    <3>1. \A q \in ServerReqs : IsTx(q)' <=> IsTx(q)
      BY <2>1 DEF Becomes, IsTx
    <3>2. \A q \in ServerReqs : qsReq'[q].conn = IF q = r THEN qsSession ELSE qsReq[q].conn
      BY <2>1 DEF Becomes
    <3>3. /\ \A q \in ServerReqs : qsReq'[q].pc = "finding" => IsTx(q)'
          /\ \A q \in ServerReqs : Registered(q)' =>
                qsReq'[q].pc \in AtWork /\ qsActive'[q] = qsReq'[q].conn /\ qsCancel'[q] \subseteq qsReq'[q].conn
          /\ \A q \in ServerReqs : qsReq'[q].pc \in Before => qsCancel'[q] = {}
      BY <1>2, <2>1, <2>2 DEF IInv, Typed, QueriesTypeOK, ConnectionsAreOwn, IsTx, Registered, Becomes
    <3>4. \A q \in ServerReqs : qsReq'[q].conn \subseteq QS!AllConns
      BY <3>2 DEF IInv, Typed, QueriesTypeOK, Requests
    <3>5. \A q1, q2 \in ServerReqs : \A c \in qsReq'[q1].conn \cap qsReq'[q2].conn :
             q1 = q2 \/ (IsTx(q1)' /\ IsTx(q2)')
      BY <2>2, <3>1, <3>2 DEF IInv, ConnectionsAreOwn, Registered
    <3>6. \A q \in ServerReqs : \A c \in qsReq'[q].conn \cap qsSession' : IsTx(q)'
      BY <1>2, <2>2, <3>1, <3>2 DEF IInv, ConnectionsAreOwn, Registered
    <3>7. /\ \A q1 \in ServerReqs : \A c \in qsReq'[q1].conn : \A q2 \in qsBusy'[c] :
                q2 = q1 \/ (IsTx(q2)' /\ IsTx(q1)')
          /\ \A c \in qsSession' : \A q \in qsBusy'[c] : IsTx(q)'
      BY <1>2, <2>2, <3>1, <3>2, <3>4 DEF IInv, Typed, QueriesTypeOK, ConnectionsAreOwn, Registered
    <3> QED  BY <3>3, <3>5, <3>6, <3>7 DEF ConnectionsAreOwn, Registered
  <2>5. qsReq[r].kind \notin QS!Changes
    BY <2>2 DEF IsTx, QS!Changes
  <2>6. ChangesAreCounted'
    BY <1>2, <2>1, <2>5 DEF IInv, ChangesAreCounted, Becomes
  <2>7. EarlyIsEmpty' /\ FetchIsFresh' /\ CacheIsFresh' /\ QS!ServedIsFresh'
    BY <1>2, <2>1 DEF IInv, EarlyIsEmpty, FetchIsFresh, CacheIsFresh, QS!ServedIsFresh, QS!Kind, Becomes, Early
  <2> QED  BY <2>3, <2>4, <2>6, <2>7 DEF IInv
<1> QED  BY <1>1, <1>2

(* A connection that a pool gives out is nobody's. *)
LEMMA AcquireKeeps ==
    ASSUME IInv, NEW r \in ServerReqs, QS!Acquire(r)
    PROVE  IInv'
<1> USE DEF QS!Acquire, QS!At
<1> DEFINE c == QS!AnyOf(QS!Free(qsReq[r].client))
<1>1. /\ c \in QS!AllConns /\ c[1] = qsReq[r].client /\ c \notin qsSession /\ qsBusy[c] = {}
      /\ \A q \in ServerReqs : c \notin qsReq[q].conn
  <2>1. c \in QS!Free(qsReq[r].client)
    BY DEF QS!Obtains, QS!AnyOf
  <2>2. qsReq[r].client \in QS!Clients
    BY DEF IInv, Typed, QueriesTypeOK, Requests
  <2> QED  BY <2>1, <2>2 DEF QS!Free, QS!InPool, QS!AllConns
<1>2. qsActive[r] = {} /\ qsCancel[r] = {}
  BY DEF IInv, ConnectionsAreOwn, Registered, Before, AtWork
<1> HIDE DEF c
<1>3. CASE qsReq[r].kind = "begin"
  <2>1. qsSession' = {c} /\ QS!Ends(r)
    BY <1>3 DEF QS!Kind, c
  <2>2. Becomes(r, qsReq[r].kind, "answered", qsReq[r].client, {}, 0, qsReq[r].due, qsReq[r].got)
    BY <2>1, EndsBecomes DEF IInv, Typed, QueriesTypeOK
  <2>3. Typed'
    BY <1>1, <2>1, <2>2 DEF IInv, Typed, QueriesTypeOK, SavesInTurn, Becomes
  <2>4. ConnectionsAreOwn'
    <3>1. \A q \in ServerReqs : (IsTx(q)' <=> IsTx(q)) /\ qsReq'[q].conn \subseteq qsReq[q].conn
      BY <2>2 DEF Becomes, IsTx
    <3>2. /\ \A q \in ServerReqs : qsReq'[q].pc = "finding" => IsTx(q)'
          /\ \A q \in ServerReqs : Registered(q)' =>
                qsReq'[q].pc \in AtWork /\ qsActive'[q] = qsReq'[q].conn /\ qsCancel'[q] \subseteq qsReq'[q].conn
          /\ \A q \in ServerReqs : qsReq'[q].pc \in Before => qsCancel'[q] = {}
      BY <1>2, <2>2 DEF IInv, Typed, QueriesTypeOK, ConnectionsAreOwn, IsTx, Registered, Becomes
    <3>3. /\ \A q1, q2 \in ServerReqs : \A d \in qsReq'[q1].conn \cap qsReq'[q2].conn :
                q1 = q2 \/ (IsTx(q1)' /\ IsTx(q2)')
      BY <3>1 DEF IInv, ConnectionsAreOwn, Registered
    <3>5. \A q \in ServerReqs : \A d \in qsReq'[q].conn \cap qsSession' : IsTx(q)'
      BY <1>1, <2>1, <3>1
    <3>6. \A d \in qsSession' : \A q \in qsBusy'[d] : IsTx(q)'
      BY <1>1, <2>1
    <3>4. \A q1 \in ServerReqs : \A d \in qsReq'[q1].conn : \A q2 \in qsBusy'[d] :
                q2 = q1 \/ (IsTx(q2)' /\ IsTx(q1)')
      BY <3>1 DEF IInv, Typed, QueriesTypeOK, Requests, ConnectionsAreOwn, Registered
    <3> QED  BY <3>2, <3>3, <3>4, <3>5, <3>6 DEF ConnectionsAreOwn, Registered
  <2>5. ChangesAreCounted'
    <3>1. qsVersion[qsReq[r].client] \in Nat
      BY DEF IInv, Typed, QueriesTypeOK, Requests
    <3> QED  BY <2>2, <3>1 DEF IInv, ChangesAreCounted, Becomes
  <2>6. EarlyIsEmpty' /\ FetchIsFresh' /\ CacheIsFresh' /\ QS!ServedIsFresh'
    BY <2>2 DEF IInv, EarlyIsEmpty, FetchIsFresh, CacheIsFresh, QS!ServedIsFresh, QS!Kind, Becomes, Early
  <2> QED  BY <2>3, <2>4, <2>5, <2>6 DEF IInv
<1>4. CASE qsReq[r].kind # "begin"
  <2> DEFINE p == IF QS!Kind(r, QS!Tokened) THEN "registering" ELSE "ready"
  <2>1. qsReq' = [qsReq EXCEPT ![r].conn = {c}, ![r].pc = p] /\ UNCHANGED qsSession
    BY <1>4 DEF QS!Kind, c
  <2>2. p \in Pcs /\ p \in {"registering", "ready"}
    BY DEF Pcs, Before, AtWork
  <2> HIDE DEF p
  <2>3. Becomes(r, qsReq[r].kind, p, qsReq[r].client, {c}, qsReq[r].made, qsReq[r].due, qsReq[r].got)
    BY <1>1, <2>1, <2>2 DEF Becomes, Requests, IInv, Typed, QueriesTypeOK
  <2>4. Typed'
    BY <2>1, <2>2, <2>3 DEF IInv, Typed, QueriesTypeOK, SavesInTurn, Becomes
  <2>5. ConnectionsAreOwn'
    <3>1. \A q \in ServerReqs : (IsTx(q)' <=> IsTx(q))
      BY <2>3 DEF Becomes, IsTx
    <3>2. \A q \in ServerReqs : qsReq'[q].conn = IF q = r THEN {c} ELSE qsReq[q].conn
      BY <2>3 DEF Becomes
    <3>3. /\ \A q \in ServerReqs : qsReq'[q].pc = "finding" => IsTx(q)'
          /\ \A q \in ServerReqs : Registered(q)' =>
                qsReq'[q].pc \in AtWork /\ qsActive'[q] = qsReq'[q].conn /\ qsCancel'[q] \subseteq qsReq'[q].conn
          /\ \A q \in ServerReqs : qsReq'[q].pc \in Before => qsCancel'[q] = {}
      BY <1>2, <2>2, <2>3 DEF IInv, Typed, QueriesTypeOK, ConnectionsAreOwn, IsTx, Registered, Becomes
    <3>4. /\ \A q1, q2 \in ServerReqs : \A d \in qsReq'[q1].conn \cap qsReq'[q2].conn :
                q1 = q2 \/ (IsTx(q1)' /\ IsTx(q2)')
          /\ \A q \in ServerReqs : \A d \in qsReq'[q].conn \cap qsSession' : IsTx(q)'
      <4>1. \A q1, q2 \in ServerReqs : \A d \in qsReq[q1].conn \cap qsReq[q2].conn :
                q1 = q2 \/ (IsTx(q1) /\ IsTx(q2))
        BY DEF IInv, ConnectionsAreOwn, Registered
      <4>2. \A q \in ServerReqs : \A d \in qsReq[q].conn \cap qsSession : IsTx(q)
        BY DEF IInv, ConnectionsAreOwn, Registered
      <4> HIDE DEF QS!Acquire, QS!At
      <4>3. \A q1, q2 \in ServerReqs : \A d \in qsReq'[q1].conn \cap qsReq'[q2].conn :
                q1 = q2 \/ (IsTx(q1)' /\ IsTx(q2)')
        <5> SUFFICES ASSUME NEW q1 \in ServerReqs, NEW q2 \in ServerReqs, q1 # q2,
                            NEW d \in qsReq'[q1].conn, d \in qsReq'[q2].conn
                     PROVE  IsTx(q1)' /\ IsTx(q2)'
          OBVIOUS
        <5>1. q1 # r /\ q2 # r
          BY <1>1, <3>2
        <5> QED  BY <3>1, <3>2, <4>1, <5>1
      <4>4. \A q \in ServerReqs : \A d \in qsReq'[q].conn \cap qsSession' : IsTx(q)'
        BY <1>1, <2>1, <3>1, <3>2, <4>2
      <4> QED  BY <4>3, <4>4
    <3>5. \A q1 \in ServerReqs : \A d \in qsReq'[q1].conn : \A q2 \in qsBusy'[d] :
                q2 = q1 \/ (IsTx(q2)' /\ IsTx(q1)')
      BY <1>1, <3>1, <3>2 DEF IInv, Typed, QueriesTypeOK, Requests, ConnectionsAreOwn, Registered
    <3>6. \A d \in qsSession' : \A q \in qsBusy'[d] : IsTx(q)'
      BY <2>1, <3>1 DEF IInv, Typed, QueriesTypeOK, ConnectionsAreOwn, Registered
    <3> QED  BY <3>3, <3>4, <3>5, <3>6 DEF ConnectionsAreOwn, Registered
  <2>6. ChangesAreCounted'
    BY <1>1, <2>3 DEF IInv, ChangesAreCounted, Becomes
  <2>7. EarlyIsEmpty' /\ FetchIsFresh' /\ CacheIsFresh' /\ QS!ServedIsFresh'
    BY <2>2, <2>3 DEF IInv, EarlyIsEmpty, FetchIsFresh, CacheIsFresh, QS!ServedIsFresh, QS!Kind, Becomes, Early
  <2> QED  BY <2>4, <2>5, <2>6, <2>7 DEF IInv
<1> QED  BY <1>3, <1>4

(* The version a change made is that of its own database. *)
LEMMA StatementEndsKeeps ==
    ASSUME IInv, NEW c \in QS!AllConns, QS!StatementEnds(c)
    PROVE  IInv'
<1> USE DEF QS!StatementEnds
<1>1. PICK r \in qsBusy[c], changed \in BOOLEAN :
        IF changed /\ QS!Kind(r, QS!Changes)
        THEN /\ qsVersion' = [qsVersion EXCEPT ![c[1]] = @ + 1]
             /\ qsReq' = [qsReq EXCEPT ![r].made = IF QS!At(r, "gone") THEN 0 ELSE qsVersion[c[1]] + 1]
        ELSE UNCHANGED <<qsVersion, qsReq>>
  OBVIOUS
<1>2. r \in ServerReqs /\ qsReq \in [ServerReqs -> Requests] /\ qsReq[r] \in Requests
  BY DEF IInv, Typed, QueriesTypeOK
<1>3. /\ qsBusy' \in [QS!AllConns -> SUBSET ServerReqs]
      /\ qsBusy'[c] = {} /\ \A d \in QS!AllConns \ {c} : qsBusy'[d] = qsBusy[d]
      /\ \A d \in QS!AllConns : qsBusy'[d] \subseteq qsBusy[d]
  BY DEF IInv, Typed, QueriesTypeOK
<1>4. \E made \in Nat :
        /\ Becomes(r, qsReq[r].kind, qsReq[r].pc, qsReq[r].client, qsReq[r].conn, made, qsReq[r].due, qsReq[r].got)
        /\ qsVersion' \in [QS!Clients -> Nat]
        /\ \A g \in QS!Clients : qsVersion[g] <= qsVersion'[g]
        /\ made <= qsVersion'[qsReq[r].client]
        /\ qsReq[r].pc = "fetched" /\ qsSettled[qsReq[r].client] <= qsReq[r].made =>
              qsSettled[qsReq[r].client] <= made
  <2>1. qsVersion \in [QS!Clients -> Nat] /\ qsReq[r].made \in Nat /\ qsReq[r].client \in QS!Clients
        /\ qsReq[r].made <= qsVersion[qsReq[r].client] /\ \A g \in QS!Clients : qsVersion[g] \in Nat
    BY <1>2 DEF IInv, Typed, QueriesTypeOK, Requests, ChangesAreCounted
  <2>2. CASE changed /\ QS!Kind(r, QS!Changes) /\ qsReq[r].pc # "gone"
    <3>1. c[1] = qsReq[r].client
      BY <1>2, <2>2 DEF IInv, ChangesAreCounted, QS!Kind
    <3> DEFINE made == qsVersion[c[1]] + 1
    <3>2. made \in Nat
      BY <2>1, <3>1
    <3>3. qsReq' = [qsReq EXCEPT ![r].made = made]
      BY <1>1, <2>2 DEF QS!At
    <3>4. qsVersion' = [qsVersion EXCEPT ![qsReq[r].client] = made]
      BY <1>1, <2>1, <2>2, <3>1
    <3>5. qsSettled[qsReq[r].client] \in Nat /\ qsSettled[qsReq[r].client] <= qsVersion[qsReq[r].client]
      BY <2>1 DEF IInv, Typed, QueriesTypeOK, ChangesAreCounted
    <3>6. made > qsVersion[qsReq[r].client]
      BY <2>1, <3>1
    <3> HIDE DEF made
    <3>7. Becomes(r, qsReq[r].kind, qsReq[r].pc, qsReq[r].client, qsReq[r].conn, made, qsReq[r].due, qsReq[r].got)
      BY <1>2, <3>2, <3>3 DEF Becomes, Requests
    <3>8. qsSettled[qsReq[r].client] <= made
      BY <2>1, <3>2, <3>5, <3>6
    <3>9. /\ qsVersion' \in [QS!Clients -> Nat] /\ made <= qsVersion'[qsReq[r].client]
          /\ \A g \in QS!Clients : qsVersion[g] <= qsVersion'[g]
      BY <2>1, <3>2, <3>4, <3>6
    <3> QED  BY <3>2, <3>7, <3>8, <3>9
  <2>3. CASE ~(changed /\ QS!Kind(r, QS!Changes))
    BY <1>1, <1>2, <2>1, <2>3 DEF Becomes
  <2>4. CASE changed /\ QS!Kind(r, QS!Changes) /\ qsReq[r].pc = "gone"
    <3>1. /\ qsReq' = [qsReq EXCEPT ![r].made = 0]
          /\ qsVersion' = [qsVersion EXCEPT ![c[1]] = qsVersion[c[1]] + 1]
      BY <1>1, <2>1, <2>4 DEF QS!At
    <3>2. c[1] \in QS!Clients
      BY DEF QS!AllConns
    <3>3. /\ qsVersion' \in [QS!Clients -> Nat] /\ 0 <= qsVersion'[qsReq[r].client]
          /\ \A g \in QS!Clients : qsVersion[g] <= qsVersion'[g]
      BY <2>1, <3>1, <3>2
    <3>4. Becomes(r, qsReq[r].kind, qsReq[r].pc, qsReq[r].client, qsReq[r].conn, 0, qsReq[r].due, qsReq[r].got)
      BY <1>2, <3>1 DEF Becomes, Requests
    <3> QED  BY <2>4, <3>3, <3>4
  <2> QED  BY <2>2, <2>3, <2>4
<1>5. PICK made \in Nat :
        /\ Becomes(r, qsReq[r].kind, qsReq[r].pc, qsReq[r].client, qsReq[r].conn, made, qsReq[r].due, qsReq[r].got)
        /\ qsVersion' \in [QS!Clients -> Nat]
        /\ \A g \in QS!Clients : qsVersion[g] <= qsVersion'[g]
        /\ made <= qsVersion'[qsReq[r].client]
        /\ qsReq[r].pc = "fetched" /\ qsSettled[qsReq[r].client] <= qsReq[r].made =>
              qsSettled[qsReq[r].client] <= made
  BY <1>4
<1>6. /\ qsReq[r].conn \subseteq QS!AllConns /\ qsReq[r].client \in QS!Clients
      /\ \A q \in ServerReqs : qsReq[q].client \in QS!Clients /\ qsReq[q].made \in Nat
      /\ \A g \in QS!Clients : qsVersion[g] \in Nat /\ qsVersion'[g] \in Nat /\ qsSettled[g] \in Nat
  BY <1>2, <1>5 DEF IInv, Typed, QueriesTypeOK, Requests
<1>7. Typed'
  BY <1>3, <1>5 DEF IInv, Typed, QueriesTypeOK, SavesInTurn, Becomes
<1>8. ConnectionsAreOwn'
  <2>1. /\ qsReq[r].pc = "finding" => IsTx(r)
        /\ qsActive'[r] # {} => qsReq[r].pc = "gone" \/ qsReq[r].pc \in AtWork
        /\ UNCHANGED <<qsActive, qsCancel, qsSession>>
    BY <1>2 DEF IInv, ConnectionsAreOwn, Registered
  <2> QED  BY <1>2, <1>3, <1>5, <2>1, ConnectionsStayOwn
<1>9. ChangesAreCounted'
  <2>1. \A g \in QS!Clients : qsSettled'[g] <= qsVersion'[g]
    BY <1>5, <1>6 DEF IInv, ChangesAreCounted
  <2>2. \A q \in ServerReqs : qsReq'[q].made <= qsVersion'[qsReq'[q].client]
    BY <1>5, <1>6 DEF IInv, ChangesAreCounted, Becomes
  <2>3. /\ \A q \in ServerReqs : \A g \in QS!Clients : qsReq'[q].due[g] <= qsSettled'[g]
        /\ \A q \in ServerReqs : qsReq'[q].kind \in QS!Changes /\ qsReq'[q].pc # "gone" =>
              /\ \A d \in qsReq'[q].conn : d[1] = qsReq'[q].client
              /\ \A d \in QS!AllConns : q \in qsBusy'[d] => d[1] = qsReq'[q].client
    BY <1>3, <1>5 DEF IInv, ChangesAreCounted, Becomes
  <2> QED  BY <2>1, <2>2, <2>3 DEF ChangesAreCounted
<1>10. EarlyIsEmpty'
  BY <1>2, <1>3, <1>5 DEF IInv, EarlyIsEmpty, Becomes
<1>11. FetchIsFresh'
  BY <1>2, <1>5 DEF IInv, FetchIsFresh, Becomes
<1>12. CacheIsFresh' /\ QS!ServedIsFresh'
  BY <1>2, <1>5 DEF IInv, CacheIsFresh, QS!ServedIsFresh, QS!Kind, Becomes
<1> QED  BY <1>7, <1>8, <1>9, <1>10, <1>11, <1>12 DEF IInv

(* Whose change is answered settles it; nobody is inside the lock then. *)
LEMMA ClearKeeps ==
    ASSUME IInv, NEW r \in ServerReqs, QS!Clear(r)
    PROVE  IInv'
<1> USE DEF QS!Clear, QS!At
<1>1. qsReq \in [ServerReqs -> Requests] /\ qsReq[r] \in Requests /\ qsCacheLock = {} /\ qsCache' = {}
      /\ qsBusy \in [QS!AllConns -> SUBSET ServerReqs] /\ qsActive[r] = {}
  BY DEF IInv, Typed, QueriesTypeOK, ConnectionsAreOwn, Registered, AtWork
<1>2. \A q \in ServerReqs : qsReq[q].pc \notin {"fetching", "fetched"}
  BY <1>1 DEF IInv, FetchIsFresh
<1>3. CASE QS!Saving(r)
  <2>1. Becomes(r, qsReq[r].kind, "connecting", qsReq[r].client, qsReq[r].conn, qsReq[r].made,
                qsReq[r].due, qsReq[r].got)
    BY <1>1, <1>3, GoesBecomes DEF Pcs
  <2>2. Typed'
    BY <1>3, <2>1 DEF IInv, Typed, QueriesTypeOK, SavesInTurn, Becomes
  <2>3. ConnectionsAreOwn'
    BY <1>1, <2>1, ConnectionsStayOwn DEF Before, Early
  <2>4. ChangesAreCounted'
    BY <1>3, <2>1 DEF IInv, ChangesAreCounted, Becomes
  <2>5. EarlyIsEmpty' /\ FetchIsFresh' /\ CacheIsFresh' /\ QS!ServedIsFresh'
    BY <1>1, <1>2, <1>3, <2>1 DEF IInv, EarlyIsEmpty, FetchIsFresh, CacheIsFresh, QS!ServedIsFresh, QS!Kind,
       Becomes, Early
  <2> QED  BY <2>2, <2>3, <2>4, <2>5 DEF IInv
<1>4. CASE ~QS!Saving(r)
  <2>1. Becomes(r, qsReq[r].kind, "answered", qsReq[r].client, {}, 0, qsReq[r].due, qsReq[r].got)
    BY <1>1, <1>4, EndsBecomes
  <2> DEFINE g == qsReq[r].client
             n == IF qsReq[r].made > qsSettled[g] THEN qsReq[r].made ELSE qsSettled[g]
  <2>2. qsSettled' = [qsSettled EXCEPT ![g] = n]
    BY <1>4 DEF IInv, Typed, QueriesTypeOK
  <2>3. /\ g \in QS!Clients /\ qsSettled \in [QS!Clients -> Nat] /\ qsReq[r].made \in Nat
        /\ qsSettled[g] <= qsVersion[g] /\ qsReq[r].made <= qsVersion[g]
    BY <1>1 DEF IInv, Typed, QueriesTypeOK, Requests, ChangesAreCounted
  <2>4. n \in Nat /\ n <= qsVersion[g] /\ qsSettled[g] <= n
    BY <2>3
  <2> HIDE DEF g, n
  <2>5. /\ qsSettled' \in [QS!Clients -> Nat]
        /\ \A d \in QS!Clients : qsSettled[d] <= qsSettled'[d] /\ qsSettled'[d] <= qsVersion[d]
    BY <2>2, <2>3, <2>4 DEF IInv, ChangesAreCounted
  <2>6. Typed'
    BY <1>1, <1>4, <2>1, <2>5 DEF IInv, Typed, QueriesTypeOK, SavesInTurn, Becomes
  <2>7. ConnectionsAreOwn'
    <3>1. /\ UNCHANGED <<qsActive, qsBusy, qsCancel, qsSession>>
          /\ "answered" \notin Before
      BY DEF Before, Early
    <3> HIDE DEF QS!Clear, QS!At
    <3> QED  BY <1>1, <2>1, <3>1, ConnectionsStayOwn
  <2>8. ChangesAreCounted'
    <3>1. \A q \in ServerReqs : /\ qsReq[q].client \in QS!Clients
                               /\ qsReq[q].due \in [QS!Clients -> Nat]
      BY <1>1 DEF Requests
    <3>2. \A d \in QS!Clients : qsVersion[d] \in Nat /\ qsSettled[d] \in Nat /\ qsSettled'[d] \in Nat
      BY <2>5 DEF IInv, Typed, QueriesTypeOK
    <3>3. \A q \in ServerReqs : qsReq'[q].made <= qsVersion'[qsReq'[q].client]
      BY <2>1, <3>1, <3>2 DEF IInv, ChangesAreCounted, Becomes
    <3>4. \A q \in ServerReqs : \A d \in QS!Clients : qsReq'[q].due[d] <= qsSettled'[d]
      BY <2>1, <2>5, <3>1, <3>2 DEF IInv, ChangesAreCounted, Becomes
    <3>5. \A q \in ServerReqs : qsReq'[q].kind \in QS!Changes /\ qsReq'[q].pc # "gone" =>
              /\ \A d \in qsReq'[q].conn : d[1] = qsReq'[q].client
              /\ \A d \in QS!AllConns : q \in qsBusy'[d] => d[1] = qsReq'[q].client
      BY <2>1 DEF IInv, ChangesAreCounted, Becomes
    <3> QED  BY <2>5, <3>3, <3>4, <3>5 DEF ChangesAreCounted
  <2>9. EarlyIsEmpty' /\ FetchIsFresh' /\ CacheIsFresh' /\ QS!ServedIsFresh'
    BY <1>1, <1>2, <1>4, <2>1 DEF IInv, EarlyIsEmpty, FetchIsFresh, CacheIsFresh, QS!ServedIsFresh, QS!Kind,
       Becomes, Early
  <2> QED  BY <2>6, <2>7, <2>8, <2>9 DEF IInv
<1> QED  BY <1>3, <1>4

(* A schema as fresh as what may be in the cache can be served, and put there. *)
LEMMA Served ==
    ASSUME IInv, NEW r \in ServerReqs, NEW s \in Schemas, QS!Serve(r, s),
           qsReq[r].pc \in {"looking", "wanting", "fetched"},
           qsSettled[s.of] <= s.version,
           ~s.orphan => /\ \A g \in qsClient : g <= s.of
                        /\ \A q \in ServerReqs :
                              ~(qsReq[q].kind = "save" /\ qsReq[q].pc = "clearing") => qsReq[q].client <= s.of,
           qsCache' \in {qsCache, {s}}, qsCacheLock' \in {qsCacheLock, qsCacheLock \ {r}},
           UNCHANGED <<qsActive, qsBusy, qsCancel, qsSession, qsVersion, qsSettled, qsConfig, qsClient>>
    PROVE  IInv'
<1>1. qsReq \in [ServerReqs -> Requests] /\ qsActive[r] = {}
  BY DEF IInv, Typed, QueriesTypeOK, ConnectionsAreOwn, Registered, AtWork
<1>2. Becomes(r, qsReq[r].kind, "answered", qsReq[r].client, qsReq[r].conn, qsReq[r].made,
              qsReq[r].due, {s})
  BY <1>1, ServeBecomes
<1>3. Typed'
  BY <1>2 DEF IInv, Typed, QueriesTypeOK, SavesInTurn, Becomes
<1>4. ConnectionsAreOwn'
  <2>1. "answered" \notin Before /\ qsBusy' \in [QS!AllConns -> SUBSET ServerReqs]
    BY DEF Before, Early, IInv, Typed, QueriesTypeOK
  <2> QED  BY <1>1, <1>2, <2>1, ConnectionsStayOwn
<1>5. ChangesAreCounted'
  BY <1>2 DEF IInv, ChangesAreCounted, Becomes
<1>6. EarlyIsEmpty'
  BY <1>2 DEF IInv, EarlyIsEmpty, Becomes, Early
<1>7. FetchIsFresh'
  BY <1>2 DEF IInv, FetchIsFresh, Becomes
<1>8. CacheIsFresh'
  <2>1. \A q \in ServerReqs :
          /\ qsReq'[q].client = qsReq[q].client /\ qsReq'[q].kind = qsReq[q].kind
          /\ qsReq'[q].pc # "clearing" => qsReq[q].pc # "clearing"
    BY <1>2 DEF Becomes
  <2>2. /\ \A q \in ServerReqs : qsReq[q].client <= qsConfig
        /\ \A g \in qsClient : g <= qsConfig
    BY DEF IInv, CacheIsFresh
  <2>3. \A t \in qsCache' :
          /\ qsSettled[t.of] <= t.version
          /\ ~t.orphan =>
               /\ \A g \in qsClient : g <= t.of
               /\ \A q \in ServerReqs :
                     ~(qsReq[q].kind = "save" /\ qsReq[q].pc = "clearing") => qsReq[q].client <= t.of
    BY DEF IInv, CacheIsFresh
  <2>4. \A t \in qsCache' :
          ~t.orphan =>
             \A q \in ServerReqs :
                ~(qsReq'[q].kind = "save" /\ qsReq'[q].pc = "clearing") => qsReq'[q].client <= t.of
    BY <2>1, <2>3
  <2>5. /\ \A q \in ServerReqs : qsReq'[q].client <= qsConfig'
        /\ \A g \in qsClient' : g <= qsConfig'
    BY <2>1, <2>2
  <2>6. \A t \in qsCache' : /\ qsSettled'[t.of] <= t.version
                            /\ ~t.orphan => \A g \in qsClient' : g <= t.of
    BY <2>3
  <2> QED  BY <2>4, <2>5, <2>6 DEF CacheIsFresh
<1>9. QS!ServedIsFresh'
  <2>1. /\ qsReq[r].due[s.of] <= qsSettled[s.of] /\ s.of \in QS!Clients
        /\ qsReq[r].due[s.of] \in Nat /\ qsSettled[s.of] \in Nat /\ s.version \in Nat
    BY <1>1 DEF IInv, Typed, QueriesTypeOK, ChangesAreCounted, Requests, Schemas
  <2>2. s.version >= qsReq[r].due[s.of]
    BY <2>1
  <2>3. s.of >= qsReq[r].client \/ s.orphan
    BY <1>1, <2>1 DEF Requests, QS!Clients
  <2> QED  BY <1>2, <2>2, <2>3 DEF IInv, QS!ServedIsFresh, QS!Kind, Becomes
<1> QED  BY <1>3, <1>4, <1>5, <1>6, <1>7, <1>8, <1>9 DEF IInv

LEMMA LookKeeps ==
    ASSUME IInv, NEW r \in ServerReqs, QS!Look(r)
    PROVE  IInv'
<1> USE DEF QS!Look, QS!At
<1>1. ASSUME NEW s \in qsCache, QS!Serve(r, s)
      PROVE  IInv'
  BY <1>1, Served DEF IInv, Typed, QueriesTypeOK, CacheIsFresh
<1>2. CASE QS!Goes(r, "wanting")
  BY <1>2, WentOn, BusyIsTyped, OthersAreUnregistered DEF Pcs, Before, Early, AtWork
<1> QED  BY <1>1, <1>2

(* The lock is free, so that no other reader is inside. *)
LEMMA LockKeeps ==
    ASSUME IInv, NEW r \in ServerReqs, QS!Lock(r)
    PROVE  IInv'
<1> USE DEF QS!Lock, QS!At
<1>1. ASSUME NEW s \in qsCache, QS!Serve(r, s), UNCHANGED qsCacheLock
      PROVE  IInv'
  BY <1>1, Served DEF IInv, Typed, QueriesTypeOK, CacheIsFresh
<1>2. CASE QS!Goes(r, "fetching") /\ qsCacheLock' = {r}
  <2>1. Becomes(r, qsReq[r].kind, "fetching", qsReq[r].client, qsReq[r].conn, qsReq[r].made,
                qsReq[r].due, qsReq[r].got)
    BY <1>2, GoesBecomes DEF IInv, Typed, QueriesTypeOK, Pcs
  <2>2. qsActive[r] = {} /\ \A q \in ServerReqs : qsReq[q].pc \notin {"fetching", "fetched"}
    BY DEF IInv, ConnectionsAreOwn, Registered, FetchIsFresh, AtWork
  <2>3. Typed'
    BY <1>2, <2>1 DEF IInv, Typed, QueriesTypeOK, SavesInTurn, Becomes
  <2>4. ConnectionsAreOwn'
    BY <2>1, <2>2, ConnectionsStayOwn, BusyIsTyped DEF Before, Early
  <2>5. ChangesAreCounted' /\ EarlyIsEmpty'
    BY <2>1 DEF IInv, ChangesAreCounted, EarlyIsEmpty, Becomes, Early
  <2>6. FetchIsFresh'
    BY <1>2, <2>1, <2>2 DEF FetchIsFresh, Becomes
  <2>7. CacheIsFresh' /\ QS!ServedIsFresh'
    BY <1>2, <2>1 DEF IInv, CacheIsFresh, QS!ServedIsFresh, QS!Kind, Becomes
  <2> QED  BY <2>3, <2>4, <2>5, <2>6, <2>7 DEF IInv
<1> QED  BY <1>1, <1>2

LEMMA FetchKeeps ==
    ASSUME IInv, NEW r \in ServerReqs, QS!Fetch(r)
    PROVE  IInv'
<1> USE DEF QS!Fetch, QS!At
<1>1. /\ qsReq \in [ServerReqs -> Requests] /\ qsActive[r] = {}
      /\ qsReq[r].client \in QS!Clients /\ qsVersion[qsReq[r].client] \in Nat
      /\ qsSettled[qsReq[r].client] <= qsVersion[qsReq[r].client]
  BY DEF IInv, Typed, QueriesTypeOK, Requests, ConnectionsAreOwn, Registered, ChangesAreCounted, AtWork
<1>2. Becomes(r, qsReq[r].kind, "fetched", qsReq[r].client, qsReq[r].conn, qsVersion[qsReq[r].client],
              qsReq[r].due, qsReq[r].got)
  BY <1>1 DEF Becomes, Requests, Pcs
<1>3. Typed'
  BY <1>2 DEF IInv, Typed, QueriesTypeOK, SavesInTurn, Becomes
<1>4. ConnectionsAreOwn'
  <2>1. /\ "fetched" \notin Before /\ qsBusy' \in [QS!AllConns -> SUBSET ServerReqs]
        /\ qsActive' = qsActive /\ qsBusy' = qsBusy /\ UNCHANGED <<qsCancel, qsSession>>
        /\ qsActive'[r] = {}
    BY <1>1 DEF Before, Early, IInv, Typed, QueriesTypeOK
  <2>2. PICK made : Becomes(r, qsReq[r].kind, "fetched", qsReq[r].client, qsReq[r].conn, made,
                            qsReq[r].due, qsReq[r].got)
    BY <1>2
  <2>3. \A c \in QS!AllConns : qsBusy'[c] \subseteq qsBusy[c]
    BY <2>1
  <2> QED  BY ONLY IInv, r \in ServerReqs, <2>1, <2>2, <2>3, ConnectionsStayOwn
<1>5. ChangesAreCounted'
  BY <1>1, <1>2 DEF IInv, ChangesAreCounted, Becomes
<1>6. EarlyIsEmpty' /\ FetchIsFresh'
  BY <1>1, <1>2 DEF IInv, EarlyIsEmpty, FetchIsFresh, Becomes, Early
<1>7. CacheIsFresh' /\ QS!ServedIsFresh'
  BY <1>2 DEF IInv, CacheIsFresh, QS!ServedIsFresh, QS!Kind, Becomes
<1> QED  BY <1>3, <1>4, <1>5, <1>6, <1>7 DEF IInv

(* No orphan means the database of the stored configuration, the newest of all. *)
LEMMA InsertKeeps ==
    ASSUME IInv, NEW r \in ServerReqs, QS!Insert(r)
    PROVE  IInv'
<1> USE DEF QS!Insert, QS!At
<1> DEFINE s == [of |-> qsReq[r].client, version |-> qsReq[r].made, orphan |-> qsReq[r].client # qsConfig]
<1>1. s \in Schemas
  BY DEF Schemas, IInv, Typed, QueriesTypeOK, Requests
<1>2. qsSettled[s.of] <= s.version
  BY DEF IInv, FetchIsFresh
<1>3. ~s.orphan => /\ \A g \in qsClient : g <= s.of
                   /\ \A q \in ServerReqs : qsReq[q].client <= s.of
  BY DEF IInv, CacheIsFresh
<1>4. QS!Serve(r, s) /\ qsCache' = {s} /\ qsCacheLock' = qsCacheLock \ {r}
  OBVIOUS
<1> HIDE DEF s
<1> QED  BY <1>1, <1>2, <1>3, <1>4, Served

LEMMA StoreKeeps ==
    ASSUME IInv, NEW r \in ServerReqs, QS!Store(r)
    PROVE  IInv'
<1> USE DEF QS!Store, QS!At
<1>1. /\ qsReq \in [ServerReqs -> Requests] /\ qsActive[r] = {}
      /\ qsReq[r].kind = "save" /\ qsReq[r].pc = "arrived" /\ qsConfig + 1 \in QS!Clients
      /\ qsConfig \in Nat /\ \A q \in ServerReqs : qsReq[q].client \in Nat
  <2>1. qsReq \in [ServerReqs -> Requests] /\ qsConfig \in QS!Clients /\ qsActive[r] = {}
    BY DEF IInv, Typed, QueriesTypeOK, ConnectionsAreOwn, Registered, AtWork
  <2>2. qsReq[r].kind = "save" /\ qsReq[r].pc = "arrived" /\ qsConfig < MaxSaves
    BY DEF IInv, Typed, SavesInTurn, QS!Saving, QS!Kind
  <2>3. \A q \in ServerReqs : qsReq[q].client \in QS!Clients
    BY <2>1 DEF Requests
  <2>4. QS!Clients = 0 .. MaxSaves /\ MaxSaves \in Nat
    BY ServerAssumption DEF QS!Clients
  <2>5. qsConfig \in Nat /\ qsConfig + 1 \in QS!Clients
    BY <2>1, <2>2, <2>4
  <2>6. \A q \in ServerReqs : qsReq[q].client \in Nat
    BY <2>3, <2>4
  <2> QED  BY <2>1, <2>2, <2>5, <2>6
<1>2. Becomes(r, "save", "clearing", qsConfig + 1, qsReq[r].conn, qsReq[r].made, qsReq[r].due, qsReq[r].got)
  BY <1>1 DEF Becomes, Requests, Pcs
<1>3. qsReq[r].conn = {} /\ qsReq[r].made = 0 /\ qsVersion[qsConfig + 1] \in Nat
  BY <1>1 DEF IInv, Typed, QueriesTypeOK, EarlyIsEmpty, Early
<1>4. Typed'
  <2>1. SavesInTurn'
    BY <1>1, <1>2 DEF IInv, Typed, SavesInTurn, Becomes
  <2> QED  BY <1>1, <1>2, <2>1 DEF IInv, Typed, QueriesTypeOK, Becomes
<1>5. ConnectionsAreOwn'
  <2>1. /\ "clearing" \notin Before /\ qsBusy' \in [QS!AllConns -> SUBSET ServerReqs]
        /\ qsActive' = qsActive /\ qsBusy' = qsBusy /\ UNCHANGED <<qsCancel, qsSession>>
        /\ qsActive'[r] = {}
    BY <1>1 DEF Before, Early, IInv, Typed, QueriesTypeOK
  <2>2. PICK g : Becomes(r, qsReq[r].kind, "clearing", g, qsReq[r].conn, qsReq[r].made,
                         qsReq[r].due, qsReq[r].got)
    BY <1>1, <1>2
  <2> HIDE DEF QS!Store, QS!At
  <2> QED  BY <2>1, <2>2, ConnectionsStayOwn
<1>6. ChangesAreCounted'
  BY <1>1, <1>2, <1>3 DEF IInv, ChangesAreCounted, Becomes, QS!Changes
<1>7. EarlyIsEmpty' /\ FetchIsFresh'
  BY <1>1, <1>2 DEF IInv, EarlyIsEmpty, FetchIsFresh, Becomes, Early
<1>8. CacheIsFresh'
  <2>1. \A g \in qsClient : g \in Nat
    BY DEF IInv, Typed, QueriesTypeOK, QS!Clients
  <2> QED  BY <1>1, <1>2, <2>1 DEF IInv, CacheIsFresh, Becomes
<1>9. QS!ServedIsFresh'
  BY <1>1, <1>2 DEF IInv, QS!ServedIsFresh, QS!Kind, Becomes
<1> QED  BY <1>4, <1>5, <1>6, <1>7, <1>8, <1>9 DEF IInv

LEMMA InstallKeeps ==
    ASSUME IInv, NEW r \in ServerReqs, QS!Install(r)
    PROVE  IInv'
<1> USE DEF QS!Install, QS!At
<1>1. qsReq \in [ServerReqs -> Requests] /\ qsActive[r] = {} /\ qsReq[r].client \in QS!Clients
  BY DEF IInv, Typed, QueriesTypeOK, Requests, ConnectionsAreOwn, Registered, AtWork
<1>2. Becomes(r, qsReq[r].kind, "answered", qsReq[r].client, {}, 0, qsReq[r].due, qsReq[r].got)
  BY <1>1, EndsBecomes
<1>3. Typed'
  BY <1>1, <1>2 DEF IInv, Typed, QueriesTypeOK, SavesInTurn, Becomes
<1>4. ConnectionsAreOwn'
  BY <1>1, <1>2, ConnectionsStayOwn, BusyIsTyped DEF Before, Early
<1>5. ChangesAreCounted'
  <2>1. qsVersion[qsReq[r].client] \in Nat
    BY <1>1 DEF IInv, Typed, QueriesTypeOK
  <2> QED  BY <1>2, <2>1 DEF IInv, ChangesAreCounted, Becomes
<1>6. EarlyIsEmpty' /\ FetchIsFresh'
  BY <1>2 DEF IInv, EarlyIsEmpty, FetchIsFresh, Becomes, Early
<1>7. CacheIsFresh' /\ QS!ServedIsFresh'
  BY <1>2 DEF IInv, CacheIsFresh, QS!ServedIsFresh, QS!Kind, Becomes
<1> QED  BY <1>3, <1>4, <1>5, <1>6, <1>7 DEF IInv

-----------------------------------------------------------------------------
LEMMA HandlerKeeps ==
    ASSUME IInv, NEW r \in ServerReqs, QS!Handler(r)
    PROVE  IInv'
BY LookForSessionKeeps, ResolveKeeps, FindSessionKeeps, AcquireKeeps, AcquireFailsKeeps, RegisterKeeps,
   ExecuteKeeps, TimesOutKeeps, KillOwnKeeps, FinishKeeps, ClearKeeps, LookKeeps, LockKeeps, FetchKeeps,
   FetchFailsKeeps, InsertKeeps, StoreKeeps, ConnectKeeps, TakeOldKeeps, CloseEndsKeeps, InstallKeeps
   DEF QS!Handler

(* A dropped request keeps nothing but its kind; what it had registered stays. *)
LEMMA DropKeeps ==
    ASSUME IInv, NEW r \in ServerReqs, QS!Drop(r)
    PROVE  IInv'
<1> USE DEF QS!Drop, QS!Idle
<1> DEFINE due == [g \in QS!Clients |-> 0]
<1>1. qsReq \in [ServerReqs -> Requests] /\ qsReq[r].pc \notin Early /\ 0 \in QS!Clients
  BY ServerAssumption DEF IInv, Typed, QueriesTypeOK, QS!Bare, Early, QS!Clients
<1>2. Becomes(r, qsReq[r].kind, "gone", 0, {}, 0, due, {})
  BY <1>1 DEF Becomes, Requests, Pcs
<1>3. due \in [QS!Clients -> Nat] /\ \A g \in QS!Clients : due[g] = 0
  OBVIOUS
<1>4. /\ qsSettled \in [QS!Clients -> Nat] /\ qsVersion \in [QS!Clients -> Nat]
      /\ qsConfig \in Nat /\ \A s \in qsCache : s.of \in Nat
  BY DEF IInv, Typed, QueriesTypeOK, Schemas, QS!Clients
<1>5. "gone" \notin Before
  BY DEF Before, Early
<1>6. /\ UNCHANGED <<qsActive, qsBusy, qsCancel, qsSession, qsCache, qsVersion, qsSettled, qsConfig, qsClient>>
      /\ qsCacheLock' = qsCacheLock \ {r}
  OBVIOUS
<1> HIDE DEF due, QS!Drop, QS!Idle
<1>7. Typed'
  BY <1>2, <1>6 DEF IInv, Typed, QueriesTypeOK, SavesInTurn, Becomes
<1>8. ConnectionsAreOwn'
  BY <1>2, <1>5, <1>6, ConnectionsStayOwn, BusyIsTyped
<1>9. ChangesAreCounted'
  <2>1. \A q \in ServerReqs : qsReq'[q].made <= qsVersion'[qsReq'[q].client]
    BY <1>1, <1>2, <1>4, <1>6 DEF IInv, ChangesAreCounted, Becomes
  <2>2. \A q \in ServerReqs : \A g \in QS!Clients : qsReq'[q].due[g] <= qsSettled'[g]
    BY <1>2, <1>3, <1>4, <1>6 DEF IInv, ChangesAreCounted, Becomes
  <2>3. \A q \in ServerReqs : qsReq'[q].kind \in QS!Changes /\ qsReq'[q].pc # "gone" =>
            /\ \A c \in qsReq'[q].conn : c[1] = qsReq'[q].client
            /\ \A c \in QS!AllConns : q \in qsBusy'[c] => c[1] = qsReq'[q].client
    BY <1>2, <1>6 DEF IInv, ChangesAreCounted, Becomes
  <2> QED  BY <1>6, <2>1, <2>2, <2>3 DEF IInv, ChangesAreCounted
<1>10. EarlyIsEmpty' /\ FetchIsFresh'
  BY <1>2, <1>6 DEF IInv, EarlyIsEmpty, FetchIsFresh, Becomes, Early
<1>11. CacheIsFresh'
  BY <1>2, <1>4, <1>6 DEF IInv, CacheIsFresh, Becomes
<1>12. QS!ServedIsFresh'
  BY <1>2 DEF IInv, QS!ServedIsFresh, QS!Kind, Becomes
<1> QED  BY <1>7, <1>8, <1>9, <1>10, <1>11, <1>12 DEF IInv

LEMMA NextKeeps ==
    ASSUME IInv, QS!Next
    PROVE  IInv'
BY HandlerKeeps, StatementEndsKeeps, SessionEndsKeeps, ArriveKeeps, CancelFindsKeeps, CancelKillsKeeps,
   DropKeeps, ExpireKeeps
   DEF QS!Next, QS!Progress

(* The other view leaves the variables alone. *)
LEMMA OthersKeep ==
    ASSUME IInv, UNCHANGED queries
    PROVE  IInv'
<1> USE DEF IInv, queries
<1>1. Typed' /\ ChangesAreCounted' /\ EarlyIsEmpty' /\ FetchIsFresh' /\ CacheIsFresh'
  BY DEF Typed, QueriesTypeOK, SavesInTurn, ChangesAreCounted, EarlyIsEmpty, FetchIsFresh, CacheIsFresh
<1>2. ConnectionsAreOwn' /\ QS!ServedIsFresh'
  BY DEF ConnectionsAreOwn, IsTx, Registered, QS!ServedIsFresh, QS!Kind
<1> QED  BY <1>1, <1>2

(* What the requests, the registry, the cache and the client promise each other holds at every step,  *)
(* with cancels, timeouts, dropped requests and a save between any two (main.rs, perf.rs, state.rs).  *)
THEOREM AlwaysIInv == ServerSpec => []IInv
<1>1. ServerInit => IInv
  BY InitKeeps DEF ServerInit
<1>2. IInv /\ [ServerNext]_serverVars => IInv'
  BY NextKeeps, OthersKeep DEF ServerNext, Tools, Queries, Stores, serverVars
<1> QED  BY <1>1, <1>2, PTL DEF ServerSpec

(* The statement a kill is meant for runs on a connection of its own, which it keeps as long as   *)
(* it is registered and its handler was not dropped; only statements of the transaction share one *)
(* (perf.rs execute_sql, state.rs cancel_active_query).                                           *)
THEOREM KillsAreRight == ServerSpec => []KillsHitTheirOwn
<1>1. IInv => KillsHitTheirOwn
  <2> SUFFICES ASSUME IInv, NEW r \in ServerReqs, qsActive[r] # {}, ~QS!At(r, "gone"),
                      NEW c \in qsCancel[r] \cup (IF QS!At(r, "killing") THEN qsReq[r].conn ELSE {}),
                      NEW q \in qsBusy[c]
               PROVE  q = r \/ QS!SameTransaction(q, r)
    BY DEF KillsHitTheirOwn, QS!KillsHitTheirOwn
  <2>1. c \in qsReq[r].conn
    BY DEF IInv, ConnectionsAreOwn, Registered, QS!At
  <2> QED  BY <2>1 DEF IInv, ConnectionsAreOwn, IsTx, Registered, QS!SameTransaction, QS!Kind
<1> QED  BY <1>1, AlwaysIInv, PTL

(* A schema has seen every change that was answered before its reader came, and is of no older  *)
(* database than the reader's, but for an orphan (main.rs get_cached_schema, update_config).    *)
THEOREM SchemasAreFresh == ServerSpec => []ServedIsFresh
<1>1. IInv => ServedIsFresh
  BY DEF IInv, ServedIsFresh
<1> QED  BY <1>1, AlwaysIInv, PTL
=============================================================================
