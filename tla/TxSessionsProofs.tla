--------------------------- MODULE TxSessionsProofs ---------------------------
(***************************************************************************)
(* Two results, for any number of requests, ids and connections.             *)
(*                                                                         *)
(* Whatever the clients overlap, the sweep spares the sessions of statements *)
(* (IInv).  A statement that holds a session is either still reading the    *)
(* map, which keeps the sweep out, or waits for the Mutex or has it, which   *)
(* keeps the session off the list of the expired, or registers its token,    *)
(* where the session is fresh unless the wait before was too long.  And      *)
(* while the sweep has the map, nobody gets a session.                      *)
(*                                                                         *)
(* When clients wait for their answers, an open transaction is reachable,    *)
(* "active" means inside and a rollback undoes (Serial).  An id then has one *)
(* request on the way, so no other request uses its session or changes what  *)
(* it names, and only the sweep can come in between.                         *)
(***************************************************************************)
EXTENDS TxSessions, TLAPS

\* How far a request is that has no session, a statement with a token that has refreshed its own
\* and has yet to run, and a request that is through with it.
Without == {"idle", "arrived", "opening", "done"}
Peekers == {"peeking", "registering"}
Leaving == {"removing", "replying"}

\* Statements neither open a transaction nor fetch one to end it; those of the CRUD handlers are
\* answered at once.
OnItsWay(kind, p) ==
  /\ kind \in Statements => p \notin {"opening", "opened", "fetched"}
  /\ kind = "crud" => p \notin {"ran", "removing", "replying"}
  /\ p \in Peekers => kind \in Execs

RequestsAreOnTheirWay ==
  \A r \in Reqs : /\ OnItsWay(req[r].kind, req[r].pc)
                  /\ req[r].sess = None <=> req[r].pc \in Without
                  /\ req[r].pc # "idle" => req[r].id \in Ids

RunnersHaveTheLock ==
  /\ \A r \in Reqs : At(r, "running") => lock[req[r].sess] = r
  /\ \A c \in Conns : lock[c] # None => At(lock[c], "running") /\ Holds(lock[c], c)

\* What a statement with a token has refreshed is fresh, unless it has waited too long.
PeekersStayFresh ==
  \A r \in Reqs : req[r].pc \in Peekers => ~stale[req[r].sess] \/ req[r].outwaited

Uses(r, c) == Kind(r, Statements) /\ Holds(r, c) /\ req[r].pc \notin Leaving

\* While the sweep has the map nobody reads it, and it rolls back only what no statement uses.
SweepIsAlone ==
  /\ sweep # {} => \A r \in Reqs : ~At(r, "touching")
  /\ \A i \in sweep : /\ sessions[i] # None
                      /\ \A r \in Reqs : Uses(r, sessions[i]) => req[r].outwaited

IInv ==
  /\ TypeOK
  /\ RequestsAreOnTheirWay
  /\ RunnersHaveTheLock
  /\ PeekersStayFresh
  /\ SweepIsAlone

\* The kinds are told apart by their names.
LEMMA KindsDiffer ==
  /\ "crud" \notin Execs /\ Execs \subseteq Statements /\ "crud" \in Statements
  /\ \A k \in Ends \cup {"begin", "plain"} : k \notin Statements
  /\ Statements = Execs \cup {"crud"}
BY DEF Execs, Ends, SqlEnds, Statements

LEMMA InitKeeps == Init => IInv
<1> SUFFICES ASSUME Init PROVE IInv
  OBVIOUS
<1> USE NoneAssumption DEF Init
<1>1. TypeOK
  BY DEF TypeOK, Request
<1>2. RequestsAreOnTheirWay /\ RunnersHaveTheLock /\ PeekersStayFresh /\ SweepIsAlone
  BY DEF RequestsAreOnTheirWay, OnItsWay, Without, RunnersHaveTheLock, PeekersStayFresh, Peekers,
     SweepIsAlone, At, Kind, Statements, Execs, SqlEnds
<1> QED  BY <1>1, <1>2 DEF IInv

-----------------------------------------------------------------------------
(* A step of request r: what it gets, the others stay as they are. *)
Moves(r, kind, p, s) ==
  /\ req' \in [Reqs -> Request]
  /\ req'[r].kind = kind /\ req'[r].pc = p /\ req'[r].sess = s
  /\ req'[r].id \in {req[r].id} \cup Ids
  /\ req'[r].outwaited = req[r].outwaited
  /\ \A q \in Reqs \ {r} : req'[q] = req[q]

\* Nobody but r gets a Mutex, and r only to run.
LocksFollow(r, p, s) ==
  \A c \in Conns : lock'[c] # None =>
    \/ lock'[c] = r /\ p = "running" /\ s = c
    \/ lock'[c] # r /\ lock'[c] = lock[c]

\* What a step of a request has to do to keep the invariant.
LEMMA MoveKeeps ==
  ASSUME IInv, TypeOK', NEW r \in Reqs, NEW kind, NEW p, NEW s, Moves(r, kind, p, s),
         OnItsWay(kind, p), s = None <=> p \in Without,
         p = "running" => lock'[s] = r,
         \A q \in Reqs \ {r} : At(q, "running") => lock'[req[q].sess] = q,
         LocksFollow(r, p, s),
         p \in Peekers => ~stale'[s] \/ req[r].outwaited,
         \A c \in Conns : stale'[c] => stale[c],
         sweep' = sweep, sweep = {} \/ sessions' = sessions,
         sweep # {} => p # "touching",
         sweep # {} /\ kind \in Statements =>
           s = None \/ (s = req[r].sess /\ (req[r].pc \in Leaving => p \in Leaving)),
         kind = req[r].kind \/ s = None,
         req[r].pc = "idle" => req'[r].id \in Ids
  PROVE  IInv'
<1> USE DEF Moves
<1>1. RequestsAreOnTheirWay'
  BY DEF IInv, RequestsAreOnTheirWay
<1>2. RunnersHaveTheLock'
  <2>1. \A q \in Reqs : At(q, "running")' => lock'[req'[q].sess] = q
    BY DEF At
  <2>2. ASSUME NEW c \in Conns, lock'[c] # None
        PROVE  req'[lock'[c]].pc = "running" /\ req'[lock'[c]].sess = c
    <3>1. CASE lock'[c] = r
      BY <2>2, <3>1 DEF LocksFollow
    <3>2. CASE lock'[c] # r
      <4>1. lock'[c] = lock[c] /\ lock[c] \in Reqs
        BY <2>2, <3>2 DEF LocksFollow, IInv, TypeOK
      <4> QED  BY <2>2, <3>2, <4>1 DEF IInv, RunnersHaveTheLock, At, Holds
    <3> QED  BY <3>1, <3>2
  <2> QED  BY <2>1, <2>2 DEF RunnersHaveTheLock, At, Holds
<1>3. PeekersStayFresh'
  <2>1. \A q \in Reqs : req[q].sess \in Conns \cup {None}
    BY DEF IInv, TypeOK, Request
  <2>2. \A q \in Reqs : req[q].pc \in Peekers => req[q].sess # None
    BY DEF IInv, RequestsAreOnTheirWay, Peekers, Without
  <2> QED  BY <2>1, <2>2 DEF IInv, PeekersStayFresh, Kind
<1>4. SweepIsAlone'
  BY DEF IInv, SweepIsAlone, Uses, At, Kind, Holds
<1> QED  BY <1>1, <1>2, <1>3, <1>4 DEF IInv

\* The types of what the database does.
LEMMA TxTypes ==
  ASSUME TypeOK, NEW c \in Conns
  PROVE  /\ \A f \in {"committed", "undone"} : EndTx(c, f) =>
              open' \in [Conns -> Reqs \cup {None}]
              /\ fate' \in [Reqs -> {"none", "open", "committed", "undone"}]
         /\ \A r \in Reqs : StartTx(c, r) =>
              open' \in [Conns -> Reqs \cup {None}]
              /\ fate' \in [Reqs -> {"none", "open", "committed", "undone"}]
BY DEF TypeOK, EndTx, StartTx

LEMMA SqlTypes ==
  ASSUME TypeOK, NEW r \in Reqs, req[r].sess \in Conns, RunSql(r) \/ UNCHANGED <<open, fate>>
  PROVE  /\ open' \in [Conns -> Reqs \cup {None}]
         /\ fate' \in [Reqs -> {"none", "open", "committed", "undone"}]
BY TxTypes DEF RunSql, TypeOK

\* An answer is the end of a request; it keeps its kind and lets its session go.
LEMMA AnswerMoves ==
  ASSUME TypeOK, NEW r \in Reqs, NEW a \in {"active", "idle", "error", "plain"}, Answer(r, a)
  PROVE  Moves(r, req[r].kind, "done", None)
<1> DEFINE rec == [req[r] EXCEPT !.pc = "done", !.ans = a, !.sess = None]
<1>1. req \in [Reqs -> Request] /\ req[r] \in Request
  BY DEF TypeOK
<1>2. req' = [req EXCEPT ![r] = rec]
  BY DEF Answer
<1>3. rec \in Request /\ rec.kind = req[r].kind /\ rec.pc = "done" /\ rec.sess = None
      /\ rec.id = req[r].id /\ rec.outwaited = req[r].outwaited
  BY <1>1 DEF Request
<1> HIDE DEF rec
<1> QED  BY <1>1, <1>2, <1>3 DEF Moves

LEMMA GoesMoves ==
  ASSUME TypeOK, NEW r \in Reqs,
         NEW p \in {"touching", "opening", "peeking", "registering", "waiting", "running", "ran",
                    "removing", "replying"},
         Goes(r, p)
  PROVE  Moves(r, req[r].kind, p, req[r].sess)
BY DEF Moves, Goes, TypeOK, Request

LEMMA DoneIsRight ==
  ASSUME NEW kind
  PROVE  OnItsWay(kind, "done") /\ "done" \in Without /\ "done" \notin Peekers
BY DEF OnItsWay, Without, Peekers

LEMMA LockStays ==
  ASSUME IInv, NEW r \in Reqs, ~At(r, "running"), lock' = lock, NEW p, NEW s
  PROVE  LocksFollow(r, p, s)
BY DEF IInv, RunnersHaveTheLock, LocksFollow

-----------------------------------------------------------------------------
(* The actions. *)

\* Whoever runs keeps the Mutex when others change theirs, or nothing changes.
LEMMA AnswerKeeps ==
  ASSUME IInv, NEW r \in Reqs, NEW a \in {"active", "idle", "error", "plain"}, Answer(r, a), TypeOK',
         req[r].pc # "idle",
         \A q \in Reqs \ {r} : At(q, "running") => lock'[req[q].sess] = q,
         LocksFollow(r, "done", None),
         \A c \in Conns : stale'[c] => stale[c],
         sweep' = sweep, sweep = {} \/ sessions' = sessions
  PROVE  IInv'
<1>1. Moves(r, req[r].kind, "done", None)
  BY AnswerMoves DEF IInv
<1> QED  BY <1>1, MoveKeeps, DoneIsRight

LEMMA OthersRun ==
  ASSUME IInv, NEW r \in Reqs
  PROVE  /\ \A q \in Reqs : At(q, "running") => lock[req[q].sess] = q
         /\ req[r].sess \in Conns \cup {None}
         /\ req[r].pc \notin Without => req[r].sess \in Conns
         /\ \A k : OnItsWay(req[r].kind, k) \/ ~OnItsWay(req[r].kind, k)
BY DEF IInv, TypeOK, Request, RunnersHaveTheLock, RequestsAreOnTheirWay

LEMMA ArriveKeeps ==
  ASSUME IInv, NEW r \in Reqs, NEW k \in Kinds, NEW i \in Ids, Arrive(r, k, i)
  PROVE  IInv'
<1> USE DEF Arrive, At
<1>1. Moves(r, k, "arrived", req[r].sess) /\ TypeOK'
  BY KindsAssumption DEF IInv, TypeOK, Moves, Request
<1>2. req[r].sess = None
  BY DEF IInv, RequestsAreOnTheirWay, Without
<1>3. req'[r].id \in Ids
  BY DEF IInv, TypeOK, Request
<1>4. OnItsWay(k, "arrived") /\ "arrived" \in Without /\ "arrived" \notin Peekers
  BY DEF OnItsWay, Without, Peekers
<1>5. UNCHANGED <<sessions, lock, stale, sweep>> /\ LocksFollow(r, "arrived", None)
  BY LockStays
<1> HIDE DEF Arrive, At
<1> QED  BY <1>1, <1>2, <1>3, <1>4, <1>5, MoveKeeps, OthersRun

LEMMA RefuseKeeps ==
  ASSUME IInv, NEW r \in Reqs, Refuse(r) \/ NotFound(r) \/ Reply(r) \/ LockTimeout(r)
  PROVE  IInv'
<1>1. PICK a \in {"active", "idle", "error"} : Answer(r, a)
  BY DEF Refuse, NotFound, Reply, LockTimeout
<1>2. UNCHANGED <<sessions, lock, stale, open, fate, sweep>> /\ req[r].pc # "idle"
  BY DEF Refuse, NotFound, Reply, LockTimeout, At
<1>3. TypeOK'
  BY <1>1, <1>2, AnswerMoves DEF IInv, TypeOK, Moves
<1>4. LocksFollow(r, "done", None)
  BY LockStays DEF Refuse, NotFound, Reply, LockTimeout, At
<1> QED  BY <1>1, <1>2, <1>3, <1>4, AnswerKeeps, OthersRun

\* Only a reader gets a session, and none does while the sweep has the map.
LEMMA FindKeeps ==
  ASSUME IInv, NEW r \in Reqs, Find(r)
  PROVE  IInv'
<1> USE DEF Find, Session, MapReadable, At
<1>1. sessions[req[r].id] \in Conns
  <2>1. req[r].id \in Ids
    BY DEF IInv, RequestsAreOnTheirWay
  <2> QED  BY <2>1 DEF IInv, TypeOK
<1>2. Moves(r, req[r].kind, "touching", sessions[req[r].id]) /\ TypeOK'
  <2> DEFINE rec == [req[r] EXCEPT !.pc = "touching", !.sess = sessions[req[r].id]]
  <2>1. rec \in Request /\ rec.kind = req[r].kind /\ rec.pc = "touching"
        /\ rec.sess = sessions[req[r].id] /\ rec.id = req[r].id /\ rec.outwaited = req[r].outwaited
    BY <1>1 DEF IInv, TypeOK, Request
  <2>2. req' = [req EXCEPT ![r] = rec]
    OBVIOUS
  <2> HIDE DEF rec
  <2>3. Moves(r, req[r].kind, "touching", sessions[req[r].id])
    BY <2>1, <2>2 DEF IInv, TypeOK, Moves
  <2> QED  BY <2>3 DEF IInv, TypeOK, Moves
<1>3. OnItsWay(req[r].kind, "touching") /\ "touching" \notin Without \cup Peekers
  BY DEF OnItsWay, Without, Peekers
<1>4. /\ UNCHANGED <<sessions, lock, stale, sweep>> /\ sweep = {} /\ req[r].pc # "idle"
      /\ LocksFollow(r, "touching", sessions[req[r].id]) /\ sessions[req[r].id] # None
  BY LockStays
<1> HIDE DEF Find, Session, MapReadable, At
<1> QED  BY <1>1, <1>2, <1>3, <1>4, MoveKeeps, OthersRun

LEMMA FetchKeeps ==
  ASSUME IInv, NEW r \in Reqs, Fetch(r)
  PROVE  IInv'
<1> USE DEF Fetch, Session, MapReadable, At
<1>1. sessions[req[r].id] \in Conns /\ open[sessions[req[r].id]] \in Reqs \cup {None}
  <2>1. req[r].id \in Ids
    BY DEF IInv, RequestsAreOnTheirWay
  <2> QED  BY <2>1 DEF IInv, TypeOK
<1>2. Moves(r, req[r].kind, "fetched", sessions[req[r].id]) /\ TypeOK'
  <2> DEFINE c   == sessions[req[r].id]
             rec == [req[r] EXCEPT !.pc = "fetched", !.sess = c, !.tx = open[c]]
  <2>1. req \in [Reqs -> Request] /\ req[r] \in Request
    BY DEF IInv, TypeOK
  <2>2. req' = [req EXCEPT ![r] = rec]
    OBVIOUS
  <2>3. rec \in Request /\ rec.kind = req[r].kind /\ rec.pc = "fetched" /\ rec.sess = c /\ rec.id = req[r].id /\ rec.outwaited = req[r].outwaited
    BY <1>1, <2>1 DEF Request
  <2> HIDE DEF rec
  <2>4. Moves(r, req[r].kind, "fetched", c)
    BY <2>1, <2>2, <2>3 DEF Moves
  <2> QED  BY <2>4 DEF IInv, TypeOK, Moves
<1>3. OnItsWay(req[r].kind, "fetched") /\ "fetched" \notin Without \cup Peekers
  BY KindsDiffer DEF OnItsWay, Kind, Without, Peekers
<1>4. /\ UNCHANGED <<sessions, lock, stale, sweep>> /\ sweep = {} /\ req[r].pc # "idle"
      /\ LocksFollow(r, "fetched", sessions[req[r].id]) /\ sessions[req[r].id] # None
  BY LockStays
<1> HIDE DEF Fetch, Session, MapReadable, At
<1> QED  BY <1>1, <1>2, <1>3, <1>4, MoveKeeps, OthersRun

\* Touching refreshes the session; the request keeps the Mutex only while it does.
LEMMA TouchKeeps ==
  ASSUME IInv, NEW r \in Reqs, Touch(r) \/ CheckDb(r) \/ Peek(r) \/ Register(r)
  PROVE  IInv'
<1> USE DEF Touch, CheckDb, Peek, Register, At
<1>1. req[r].sess \in Conns /\ req[r].sess # None /\ req[r].pc \notin Leaving \cup {"idle", "running"}
  BY OthersRun, NoneAssumption DEF Without, Leaving
<1>2. /\ stale' \in [Conns -> BOOLEAN] /\ \A c \in Conns : stale'[c] => stale[c]
      /\ UNCHANGED <<sessions, lock, open, fate, sweep>>
  BY <1>1 DEF IInv, TypeOK
<1>3. ASSUME NEW a \in {"active", "error"}, Answer(r, a)
      PROVE  IInv'
  <2>1. TypeOK'
    BY <1>2, <1>3, AnswerMoves DEF IInv, TypeOK, Moves
  <2> QED  BY <1>1, <1>2, <1>3, <2>1, AnswerKeeps, LockStays, OthersRun
<1>4. ASSUME NEW p \in Peekers \cup {"waiting"}, Goes(r, p),
             p \in Peekers => req[r].kind \in Execs /\ (~stale'[req[r].sess] \/ req[r].outwaited)
      PROVE  IInv'
  <2>1. Moves(r, req[r].kind, p, req[r].sess)
    BY <1>4, GoesMoves DEF IInv, Peekers
  <2>2. TypeOK'
    BY <1>2, <2>1 DEF IInv, TypeOK, Moves
  <2>3. OnItsWay(req[r].kind, p) /\ p \notin Without \cup {"touching", "running"}
    BY <1>4 DEF OnItsWay, Without, Peekers
  <2>4. /\ \A q \in Reqs \ {r} : At(q, "running") => lock'[req[q].sess] = q
        /\ LocksFollow(r, p, req[r].sess)
    BY <1>1, <1>2, LockStays, OthersRun
  <2> HIDE DEF Touch, CheckDb, Peek, Register
  <2> QED  BY <1>1, <1>2, <1>4, <2>1, <2>2, <2>3, <2>4, MoveKeeps
<1>5. CASE Touch(r)
  <2>1. Goes(r, "peeking") /\ Kind(r, Execs) => ~stale'[req[r].sess] \/ Answer(r, "error")
    BY <1>1, <1>5 DEF IInv, TypeOK
  <2> QED  BY <1>3, <1>4, <1>5, <2>1 DEF Peekers, Kind
<1>6. CASE Peek(r)
  <2>1. req[r].kind \in Execs /\ (~stale'[req[r].sess] \/ req[r].outwaited)
    BY <1>6 DEF IInv, RequestsAreOnTheirWay, OnItsWay, PeekersStayFresh, Peekers
  <2> QED  BY <1>4, <1>6, <2>1 DEF Peekers
<1>7. CASE CheckDb(r) \/ Register(r)
  BY <1>3, <1>4, <1>7 DEF Peekers
<1> QED  BY <1>5, <1>6, <1>7

LEMMA BeginMissesKeeps ==
  ASSUME IInv, NEW r \in Reqs, BeginMisses(r)
  PROVE  IInv'
<1> USE DEF BeginMisses, At
<1>1. Moves(r, req[r].kind, "opening", req[r].sess)
  BY GoesMoves DEF IInv
<1>2. TypeOK'
  BY <1>1 DEF IInv, TypeOK, Moves
<1>3. OnItsWay(req[r].kind, "opening") /\ "opening" \in Without /\ "opening" \notin Peekers
  BY KindsDiffer DEF OnItsWay, Kind, Without, Peekers
<1>4. req[r].sess = None
  BY DEF IInv, RequestsAreOnTheirWay, Without
<1>5. UNCHANGED <<sessions, lock, stale, sweep>> /\ req[r].pc # "idle" /\ LocksFollow(r, "opening", None)
  BY LockStays
<1> HIDE DEF BeginMisses, At
<1> QED  BY <1>1, <1>2, <1>3, <1>4, <1>5, MoveKeeps, OthersRun

\* A session that is opened belongs to no statement.
LEMMA StartKeeps ==
  ASSUME IInv, NEW r \in Reqs, StartTransaction(r) \/ StartFails(r)
  PROVE  IInv'
<1> USE DEF StartTransaction, StartFails, At
<1>1. CASE StartTransaction(r)
  <2>1. PICK c \in Conns : /\ StartTx(c, r)
                           /\ stale' = [stale EXCEPT ![c] = FALSE]
                           /\ req' = [req EXCEPT ![r].pc = "opened", ![r].sess = c]
    BY <1>1
  <2> DEFINE rec == [req[r] EXCEPT !.pc = "opened", !.sess = c]
  <2>9. rec \in Request /\ rec.kind = req[r].kind /\ rec.pc = "opened" /\ rec.sess = c
        /\ rec.id = req[r].id /\ rec.outwaited = req[r].outwaited
    BY DEF IInv, TypeOK, Request
  <2>10. req' = [req EXCEPT ![r] = rec]
    BY <2>1
  <2> HIDE DEF rec
  <2>2. Moves(r, req[r].kind, "opened", c)
    BY <2>9, <2>10 DEF IInv, TypeOK, Moves
  <2>3. TypeOK'
    BY <1>1, <2>1, <2>2, TxTypes DEF IInv, TypeOK, Moves
  <2>4. \A d \in Conns : stale'[d] => stale[d]
    BY <2>1 DEF IInv, TypeOK
  <2>5. req[r].kind \notin Statements /\ OnItsWay(req[r].kind, "opened")
    BY <1>1, KindsDiffer DEF OnItsWay, IInv, RequestsAreOnTheirWay, Peekers
  <2>6. UNCHANGED <<sessions, lock, sweep>> /\ req[r].pc # "idle"
    BY <1>1
  <2>7. c # None
    BY NoneAssumption
  <2>8. LocksFollow(r, "opened", c)
    BY <1>1, LockStays
  <2> HIDE DEF StartTransaction, StartFails
  <2> QED  BY <2>2, <2>3, <2>4, <2>5, <2>6, <2>7, <2>8, MoveKeeps, OthersRun DEF Without, Peekers
<1>2. CASE StartFails(r)
  <2>1. TypeOK'
    BY <1>2, TxTypes, AnswerMoves DEF IInv, TypeOK, Moves
  <2>2. LocksFollow(r, "done", None)
    BY <1>2, LockStays
  <2> QED  BY <1>2, <2>1, <2>2, AnswerKeeps, OthersRun
<1> QED  BY <1>1, <1>2

\* The map changes only when the sweep does not have it.
LEMMA MapKeeps ==
  ASSUME IInv, NEW r \in Reqs, InsertSession(r) \/ RemoveSession(r)
  PROVE  IInv'
<1> USE DEF InsertSession, RemoveSession, MapWritable, At
<1>1. sessions' \in [Ids -> Conns \cup {None}]
  BY OthersRun DEF IInv, TypeOK, Without
<1>2. sweep = {} /\ UNCHANGED <<lock, stale, open, fate, sweep>>
  OBVIOUS
<1>3. ASSUME NEW a \in {"active", "idle"}, Answer(r, a)
      PROVE  IInv'
  <2>1. TypeOK'
    BY <1>1, <1>2, <1>3, AnswerMoves DEF IInv, TypeOK, Moves
  <2> QED  BY <1>2, <1>3, <2>1, AnswerKeeps, LockStays, OthersRun
<1>4. CASE RemoveSession(r) /\ Goes(r, "replying")
  <2>1. Moves(r, req[r].kind, "replying", req[r].sess)
    BY <1>4, GoesMoves DEF IInv
  <2>2. TypeOK'
    BY <1>1, <1>2, <2>1 DEF IInv, TypeOK, Moves
  <2>3. OnItsWay(req[r].kind, "replying") /\ req[r].sess # None
    BY <1>4 DEF IInv, RequestsAreOnTheirWay, OnItsWay, Without, Peekers
  <2>4. LocksFollow(r, "replying", req[r].sess)
    BY <1>2, <1>4, LockStays
  <2>5. req[r].pc # "idle"
    BY <1>4
  <2> HIDE DEF InsertSession, RemoveSession, MapWritable
  <2> QED  BY <1>2, <2>1, <2>2, <2>3, <2>4, <2>5, MoveKeeps, OthersRun DEF Without, Peekers
<1> QED  BY <1>3, <1>4

\* The Mutex was free, so that nobody else runs on the session.
LEMMA AcquireKeeps ==
  ASSUME IInv, NEW r \in Reqs, Acquire(r)
  PROVE  IInv'
<1> USE DEF Acquire, At, Free
<1>1. req[r].sess \in Conns /\ req[r].sess # None
  BY OthersRun, NoneAssumption DEF Without
<1>2. /\ lock' \in [Conns -> Reqs \cup {None}] /\ lock'[req[r].sess] = r
      /\ \A c \in Conns : c # req[r].sess => lock'[c] = lock[c]
  BY <1>1 DEF IInv, TypeOK
<1>3. stale' \in [Conns -> BOOLEAN] /\ \A c \in Conns : stale'[c] => stale[c]
  BY <1>1 DEF IInv, TypeOK
<1>4. Moves(r, req[r].kind, "running", req[r].sess)
  BY GoesMoves DEF IInv
<1>5. TypeOK'
  BY <1>2, <1>3, <1>4 DEF IInv, TypeOK, Moves
<1>6. \A q \in Reqs \ {r} : At(q, "running") => lock'[req[q].sess] = q
  <2> SUFFICES ASSUME NEW q \in Reqs \ {r}, req[q].pc = "running"
               PROVE  lock'[req[q].sess] = q
    OBVIOUS
  <2>1. lock[req[q].sess] = q /\ req[q].sess \in Conns
    BY OthersRun DEF Without
  <2>2. req[q].sess # req[r].sess
    BY <2>1, NoneAssumption
  <2> QED  BY <1>2, <2>1, <2>2
<1>7. LocksFollow(r, "running", req[r].sess)
  BY <1>2, OthersRun DEF LocksFollow, IInv, RunnersHaveTheLock
<1>8. /\ OnItsWay(req[r].kind, "running") /\ UNCHANGED <<sessions, sweep>>
      /\ req[r].pc \notin Leaving \cup {"idle"} /\ "running" \notin Peekers
  BY DEF OnItsWay, Leaving, Peekers
<1> HIDE DEF Acquire
<1> QED  BY <1>1, <1>2, <1>3, <1>4, <1>5, <1>6, <1>7, <1>8, MoveKeeps DEF Without

\* Who runs has the Mutex, and gives it back.
LEMMA RunnerLeaves ==
  ASSUME IInv, NEW r \in Reqs, At(r, "running"), lock' = [lock EXCEPT ![req[r].sess] = None]
  PROVE  /\ lock' \in [Conns -> Reqs \cup {None}]
         /\ \A q \in Reqs \ {r} : At(q, "running") => lock'[req[q].sess] = q
         /\ \A p, s : LocksFollow(r, p, s)
<1>1. \A q \in Reqs : At(q, "running") => lock[req[q].sess] = q /\ req[q].sess \in Conns
  BY OthersRun DEF At, Without
<1>2. \A c \in Conns : lock'[c] # None => lock'[c] # r /\ lock'[c] = lock[c]
  BY <1>1 DEF IInv, TypeOK, RunnersHaveTheLock, Holds
<1> QED  BY <1>1, <1>2 DEF IInv, TypeOK, LocksFollow

LEMMA FailKeeps ==
  ASSUME IInv, NEW r \in Reqs, Fail(r)
  PROVE  IInv'
<1> USE DEF Fail
<1>1. req[r].sess \in Conns
  BY OthersRun DEF At, Without
<1>2. TypeOK'
  BY <1>1, SqlTypes, RunnerLeaves, AnswerMoves DEF IInv, TypeOK, Moves
<1> QED  BY <1>2, AnswerKeeps, RunnerLeaves DEF At

LEMMA CompleteKeeps ==
  ASSUME IInv, NEW r \in Reqs, Complete(r)
  PROVE  IInv'
<1> USE DEF Complete
<1>1. req[r].sess \in Conns /\ req[r].sess # None /\ open[req[r].sess] \in Reqs \cup {None}
  BY OthersRun, NoneAssumption DEF At, Without, IInv, TypeOK
<1>2. /\ lock' \in [Conns -> Reqs \cup {None}]
      /\ \A q \in Reqs \ {r} : At(q, "running") => lock'[req[q].sess] = q
      /\ \A p, s : LocksFollow(r, p, s)
  BY RunnerLeaves
<1>3. \E p \in {"removing", "done", "ran"}, s \in {None, req[r].sess} :
        /\ Moves(r, req[r].kind, p, s)
        /\ p = "done" <=> s = None
        /\ OnItsWay(req[r].kind, p)
  <2>1. req[r] \in Request /\ req \in [Reqs -> Request]
    BY DEF IInv, TypeOK
  <2> DEFINE ran == [req[r] EXCEPT !.tx = open[req[r].sess]]
             rec == IF Kind(r, Ends) THEN [req[r] EXCEPT !.pc = "removing"]
                    ELSE IF Kind(r, {"crud"})
                      THEN [ran EXCEPT !.pc = "done", !.ans = "active", !.sess = None]
                      ELSE [ran EXCEPT !.pc = "ran"]
  <2>2. req' = [req EXCEPT ![r] = rec]
    OBVIOUS
  <2>3. CASE Kind(r, Ends)
    <3>1. rec \in Request /\ rec.kind = req[r].kind /\ rec.pc = "removing" /\ rec.sess = req[r].sess
          /\ rec.id = req[r].id /\ rec.outwaited = req[r].outwaited
      BY <2>1, <2>3 DEF Request
    <3>2. OnItsWay(req[r].kind, "removing")
      BY <2>3, KindsDiffer DEF Kind, OnItsWay, Peekers
    <3> HIDE DEF rec
    <3>3. Moves(r, req[r].kind, "removing", req[r].sess)
      BY <2>1, <2>2, <3>1 DEF Moves
    <3> QED  BY <1>1, <3>2, <3>3
  <2>4. CASE ~Kind(r, Ends) /\ Kind(r, {"crud"})
    <3>1. rec \in Request /\ rec.kind = req[r].kind /\ rec.pc = "done" /\ rec.sess = None
          /\ rec.id = req[r].id /\ rec.outwaited = req[r].outwaited
      BY <1>1, <2>1, <2>4 DEF Request
    <3> HIDE DEF rec
    <3>2. Moves(r, req[r].kind, "done", None)
      BY <2>1, <2>2, <3>1 DEF Moves
    <3> QED  BY <3>2, DoneIsRight
  <2>5. CASE ~Kind(r, Ends) /\ ~Kind(r, {"crud"})
    <3>1. rec \in Request /\ rec.kind = req[r].kind /\ rec.pc = "ran" /\ rec.sess = req[r].sess
          /\ rec.id = req[r].id /\ rec.outwaited = req[r].outwaited
      BY <1>1, <2>1, <2>5 DEF Request
    <3>2. OnItsWay(req[r].kind, "ran")
      BY <2>5 DEF Kind, OnItsWay, Peekers
    <3> HIDE DEF rec
    <3>3. Moves(r, req[r].kind, "ran", req[r].sess)
      BY <2>1, <2>2, <3>1 DEF Moves
    <3> QED  BY <1>1, <3>2, <3>3
  <2> QED  BY <2>3, <2>4, <2>5
<1>4. PICK p \in {"removing", "done", "ran"}, s \in {None, req[r].sess} :
        /\ Moves(r, req[r].kind, p, s)
        /\ p = "done" <=> s = None
        /\ OnItsWay(req[r].kind, p)
  BY <1>3
<1>5. TypeOK'
  BY <1>1, <1>2, <1>4, SqlTypes DEF IInv, TypeOK, Moves
<1>6. LocksFollow(r, p, s)
  BY <1>2
<1>7. req[r].pc \notin Leaving \cup {"idle"} /\ UNCHANGED <<sessions, stale, sweep>>
  BY DEF At, Leaving
<1>8. p \notin Peekers
  BY <1>4 DEF Peekers
<1>9. s = None <=> p \in Without
  BY <1>4 DEF Without
<1> HIDE DEF Complete
<1> QED  BY <1>2, <1>4, <1>5, <1>6, <1>7, <1>8, <1>9, MoveKeeps

LEMMA TouchAfterKeeps ==
  ASSUME IInv, NEW r \in Reqs, TouchAfter(r)
  PROVE  IInv'
<1> USE DEF TouchAfter, At
<1>1. req[r].sess \in Conns /\ req[r].sess # None
  BY OthersRun, NoneAssumption DEF Without
<1>2. /\ stale' \in [Conns -> BOOLEAN] /\ \A c \in Conns : stale'[c] => stale[c]
      /\ ~stale'[req[r].sess]
  BY <1>1 DEF IInv, TypeOK
<1>3. PICK p \in {"removing", "replying"} : Goes(r, p)
  OBVIOUS
<1>4. Moves(r, req[r].kind, p, req[r].sess)
  BY <1>3, GoesMoves DEF IInv
<1>5. TypeOK'
  BY <1>2, <1>4 DEF IInv, TypeOK, Moves
<1>6. OnItsWay(req[r].kind, p) /\ UNCHANGED <<sessions, lock, sweep>>
      /\ req[r].pc \notin Leaving \cup {"idle", "running"}
  BY DEF OnItsWay, IInv, RequestsAreOnTheirWay, Leaving, Peekers
<1>7. p \notin Without \cup Peekers
  BY DEF Without, Peekers
<1>8. LocksFollow(r, p, req[r].sess)
  BY <1>6, LockStays
<1> HIDE DEF TouchAfter
<1> QED  BY <1>1, <1>2, <1>4, <1>5, <1>6, <1>7, <1>8, MoveKeeps, OthersRun

LEMMA PoolStatementKeeps ==
  ASSUME IInv, NEW r \in Reqs, PoolStatement(r)
  PROVE  IInv'
<1> USE DEF PoolStatement
<1>1. PICK c \in Conns : req' = [req EXCEPT ![r].pc = "done", ![r].ans = "plain", ![r].tx = open[c]]
  OBVIOUS
<1>2. req[r].sess = None /\ req[r].pc # "idle"
  BY DEF At, IInv, RequestsAreOnTheirWay, Without
<1>3. Moves(r, req[r].kind, "done", None)
  <2> DEFINE rec == [req[r] EXCEPT !.pc = "done", !.ans = "plain", !.tx = open[c]]
  <2>1. req[r] \in Request /\ req \in [Reqs -> Request] /\ open[c] \in Reqs \cup {None}
    BY DEF IInv, TypeOK
  <2>2. rec \in Request /\ rec.kind = req[r].kind /\ rec.pc = "done" /\ rec.sess = None
        /\ rec.id = req[r].id /\ rec.outwaited = req[r].outwaited
    BY <1>2, <2>1 DEF Request
  <2>3. req' = [req EXCEPT ![r] = rec]
    BY <1>1
  <2> HIDE DEF rec
  <2> QED  BY <2>1, <2>2, <2>3 DEF Moves
<1>4. TypeOK'
  BY <1>3 DEF IInv, TypeOK, Moves
<1>5. LocksFollow(r, "done", None)
  BY LockStays DEF At
<1> QED  BY <1>2, <1>3, <1>4, <1>5, DoneIsRight, MoveKeeps, OthersRun

-----------------------------------------------------------------------------
(* The sweep and time. *)

\* An expired session is used by no statement: nobody reads the map, waits for the Mutex or has it,
\* and while its token is registered it is fresh.
LEMMA SweepStartsKeeps ==
  ASSUME IInv, SweepStarts
  PROVE  IInv'
<1> USE DEF SweepStarts
<1>1. TypeOK'
  BY DEF IInv, TypeOK, Expired
<1>2. RequestsAreOnTheirWay' /\ RunnersHaveTheLock' /\ PeekersStayFresh'
  BY DEF IInv, RequestsAreOnTheirWay, RunnersHaveTheLock, PeekersStayFresh, At, Holds
<1>3. \A r \in Reqs : ~At(r, "touching")
  BY DEF MapWritable, MapReaders
<1>4. ASSUME NEW i \in Expired, NEW r \in Reqs, Uses(r, sessions[i])
      PROVE  req[r].outwaited
  <2>1. /\ sessions[i] # None /\ lock[req[r].sess] = None /\ stale[req[r].sess]
        /\ req[r].pc \notin {"peeking", "waiting", "ran"} \cup Leaving
    BY <1>4 DEF Expired, Uses, Holds, Wanted, Free
  <2>2. req[r].pc \notin Without /\ OnItsWay(req[r].kind, req[r].pc) /\ req[r].kind \in Statements
        /\ req[r] \in Request
    BY <1>4, <2>1 DEF IInv, TypeOK, RequestsAreOnTheirWay, Uses, Holds, Kind
  <2>3. req[r].pc # "running"
    BY <2>1, NoneAssumption DEF IInv, RunnersHaveTheLock, At
  <2>4. req[r].pc = "registering"
    BY <1>3, <2>1, <2>2, <2>3 DEF OnItsWay, Without, Leaving, Request, At
  <2> QED  BY <2>1, <2>4 DEF IInv, PeekersStayFresh, Peekers
<1>5. SweepIsAlone'
  <2>1. sweep' = Expired /\ UNCHANGED <<req, sessions>>
    OBVIOUS
  <2>2. \A i \in Expired : sessions[i] # None
    BY DEF Expired
  <2> HIDE DEF SweepStarts
  <2> QED  BY <1>3, <1>4, <2>1, <2>2 DEF SweepIsAlone, Uses, At, Kind, Holds
<1> QED  BY <1>1, <1>2, <1>5 DEF IInv

LEMMA SweepOneKeeps ==
  ASSUME IInv, NEW i \in Ids, SweepOne(i)
  PROVE  IInv'
<1> USE DEF SweepOne
<1>1. sessions[i] \in Conns
  BY DEF IInv, TypeOK, SweepIsAlone
<1>2. TypeOK'
  BY <1>1, TxTypes DEF IInv, TypeOK
<1>3. RequestsAreOnTheirWay' /\ RunnersHaveTheLock' /\ PeekersStayFresh'
  BY DEF IInv, RequestsAreOnTheirWay, RunnersHaveTheLock, PeekersStayFresh, At, Holds
<1>4. SweepIsAlone'
  <2>1. sweep' = sweep \ {i} /\ req' = req /\ \A k \in sweep' : sessions'[k] = sessions[k]
    BY DEF IInv, TypeOK
  <2> QED  BY <2>1 DEF IInv, SweepIsAlone, Uses, At, Kind, Holds
<1> QED  BY <1>2, <1>3, <1>4 DEF IInv

\* Nothing of a request changes but the mark.
LEMMA AgeMarks ==
  ASSUME TypeOK, NEW c \in Conns, Age(c)
  PROVE  /\ req' \in [Reqs -> Request]
         /\ \A r \in Reqs :
              /\ req'[r].kind = req[r].kind /\ req'[r].id = req[r].id /\ req'[r].pc = req[r].pc
              /\ req'[r].sess = req[r].sess /\ req'[r].tx = req[r].tx /\ req'[r].ans = req[r].ans
              /\ req'[r].outwaited = (req[r].outwaited \/ (At(r, "peeking") /\ Holds(r, c)))
<1> DEFINE mark(r) == req[r].outwaited \/ (At(r, "peeking") /\ Holds(r, c))
<1>1. req \in [Reqs -> Request] /\ \A r \in Reqs : mark(r) \in BOOLEAN
  BY DEF TypeOK, Request
<1>2. req' = [r \in Reqs |-> [req[r] EXCEPT !.outwaited = mark(r)]]
  BY DEF Age
<1> HIDE DEF mark
<1>3. req' \in [Reqs -> Request]
      /\ \A r \in Reqs :
           /\ req'[r].kind = req[r].kind /\ req'[r].id = req[r].id /\ req'[r].pc = req[r].pc
           /\ req'[r].sess = req[r].sess /\ req'[r].tx = req[r].tx /\ req'[r].ans = req[r].ans
           /\ req'[r].outwaited = mark(r)
  BY <1>1, <1>2 DEF Request
<1> QED  BY <1>3 DEF mark

\* A statement with a token ages only where it waits for the Mutex the first time.
LEMMA AgeKeeps ==
  ASSUME IInv, NEW c \in Conns, Age(c)
  PROVE  IInv'
<1>1. /\ stale' = [stale EXCEPT ![c] = TRUE] /\ UNCHANGED <<sessions, lock, open, fate, sweep>>
      /\ \A r \in Reqs : Holds(r, c) => MayTakeLong(r)
  BY DEF Age
<1>2. /\ req' \in [Reqs -> Request]
      /\ \A r \in Reqs :
           /\ req'[r].kind = req[r].kind /\ req'[r].id = req[r].id /\ req'[r].pc = req[r].pc
           /\ req'[r].sess = req[r].sess /\ req'[r].tx = req[r].tx /\ req'[r].ans = req[r].ans
           /\ req'[r].outwaited = (req[r].outwaited \/ (At(r, "peeking") /\ Holds(r, c)))
  BY AgeMarks DEF IInv
<1>3. TypeOK'
  BY <1>1, <1>2 DEF IInv, TypeOK
<1>4. RequestsAreOnTheirWay'
  BY <1>1, <1>2 DEF IInv, RequestsAreOnTheirWay
<1>7. SweepIsAlone'
  <2>1. \A r \in Reqs : \A d : Uses(r, d)' => Uses(r, d)
    BY <1>2 DEF Uses, Kind, Holds
  <2>2. \A r \in Reqs : req[r].outwaited => req'[r].outwaited
    BY <1>2
  <2>3. \A r \in Reqs : At(r, "touching")' => At(r, "touching")
    BY <1>2 DEF At
  <2> QED  BY <1>1, <2>1, <2>2, <2>3 DEF IInv, SweepIsAlone
<1>5. RunnersHaveTheLock'
  <2>1. \A d \in Conns : lock[d] # None => lock[d] \in Reqs
    BY DEF IInv, TypeOK
  <2> QED  BY <1>1, <1>2, <2>1 DEF IInv, RunnersHaveTheLock, At, Holds
<1>6. PeekersStayFresh'
  <2> SUFFICES ASSUME NEW r \in Reqs, req[r].pc \in Peekers
               PROVE  ~stale'[req[r].sess] \/ req'[r].outwaited
    BY <1>2 DEF PeekersStayFresh
  <2>1. req[r].sess \in Conns /\ (~stale[req[r].sess] \/ req[r].outwaited)
    BY OthersRun DEF IInv, PeekersStayFresh, Peekers, Without
  <2>2. CASE req[r].sess # c
    BY <1>1, <1>2, <2>1, <2>2 DEF IInv, TypeOK
  <2>3. CASE req[r].sess = c /\ req[r].pc = "peeking"
    BY <1>2, <2>3 DEF At, Holds
  <2>4. CASE req[r].sess = c /\ req[r].pc = "registering"
    <3>1. req[r].kind \in Execs /\ req[r].kind \notin Ends \cup {"crud"}
      BY <2>4, KindsDiffer DEF IInv, RequestsAreOnTheirWay, OnItsWay, Peekers
    <3>2. ~MayTakeLong(r)
      BY <2>4, <3>1 DEF MayTakeLong, Kind, At
    <3> QED  BY <1>1, <2>4, <3>2 DEF Holds
  <2> QED  BY <2>2, <2>3, <2>4 DEF Peekers
<1> QED  BY <1>3, <1>4, <1>5, <1>6, <1>7 DEF IInv

LEMMA NextKeeps == IInv /\ [Next]_vars => IInv'
<1> SUFFICES ASSUME IInv, [Next]_vars PROVE IInv'
  OBVIOUS
<1>1. ASSUME NEW r \in Reqs, Step(r) PROVE IInv'
  BY <1>1, RefuseKeeps, FindKeeps, TouchKeeps, BeginMissesKeeps, StartKeeps, MapKeeps, FetchKeeps, AcquireKeeps,
     CompleteKeeps, FailKeeps, TouchAfterKeeps, PoolStatementKeeps DEF Step
<1>2. CASE UNCHANGED vars
  BY <1>2 DEF vars, IInv, TypeOK, RequestsAreOnTheirWay, RunnersHaveTheLock, PeekersStayFresh, SweepIsAlone,
     Uses, At, Kind, Holds
<1> QED  BY <1>1, <1>2, ArriveKeeps, SweepStartsKeeps, SweepOneKeeps, AgeKeeps DEF Next, Sweep

(* What requests, locks and sweep promise each other holds at every step, however clients overlap;    *)
(* a cancel token's first lock may be outwaited (main.rs get_or_open_transaction_session, the sweep). *)
THEOREM AlwaysIInv == Spec => []IInv
BY InitKeeps, NextKeeps, PTL DEF Spec

(* Whatever clients do, the sweep never rolls back a session that a statement has found and refreshed *)
(* and is still going to use, unless it has a cancel token and has waited for its first lock longer   *)
(* than the idle time (main.rs main, the sweep; perf.rs execute_sql; the crud handlers).              *)
THEOREM SweepIsGentle == FairSpec => SweepSparesStatements
<1>1. IInv /\ [Next]_vars =>
        [\A i \in sweep : i \notin sweep' =>
           \A r \in Reqs :
             /\ Kind(r, Statements) /\ req[r].pc \notin {"removing", "replying"}
             /\ Holds(r, sessions[i])
             => req[r].outwaited]_vars
  BY DEF IInv, SweepIsAlone, Uses, Leaving
<1> QED  BY <1>1, AlwaysIInv, PTL DEF FairSpec, Spec, SweepSparesStatements

-----------------------------------------------------------------------------
(***************************************************************************)
(* When clients wait for their answers.  An id then has one request at a    *)
(* time, so a session's connection is named by one id and held by one        *)
(* request of it, and what a request does to the map concerns nobody else.   *)
(***************************************************************************)

Busy(r) == req[r].pc \notin {"idle", "done"}

OneAtATime == \A q, r \in Reqs : Busy(q) /\ Busy(r) /\ req[q].id = req[r].id => q = r

NotShared ==
  \A c \in Conns :
    /\ \A i, j \in Ids : sessions[i] = c /\ sessions[j] = c => i = j
    /\ \A r \in Reqs, i \in Ids : Holds(r, c) /\ sessions[i] = c => req[r].id = i
    /\ \A q, r \in Reqs : Holds(q, c) /\ Holds(r, c) => q = r

\* The request has ended the transaction and has yet to remove the session.
Ended(r) == At(r, "removing") \/ (At(r, "ran") /\ Kind(r, SqlEnds))

\* An open transaction is open on one connection: that of its begin, or, once that is answered
\* "active", the one its id names.  A session about to enter the map has one, one about to leave none.
OpensAreKnown ==
  /\ \A c \in Conns : open[c] # None =>
       /\ fate[open[c]] = "open"
       /\ \A d \in Conns : open[d] = open[c] => d = c
       /\ \/ At(open[c], "opened") /\ Holds(open[c], c)
          \/ At(open[c], "done") /\ (req[open[c]].ans = "active" => Session(open[c]) = c)
  /\ \A r \in Reqs : /\ fate[r] # "none" => req[r].pc \in {"opened", "done"}
                     /\ At(r, "opened") => open[req[r].sess] = r
                     /\ Ended(r) => open[req[r].sess] = None

\* The two ways the database ends the transaction of id i unseen.
Excused(i) ==
  \E q \in Reqs : /\ req[q].id = i
                  /\ \/ Kind(q, {"ddl"})
                     \/ Kind(q, Ends \cup SqlEnds) /\ req[q].ans = "error"

\* A session in the map has a transaction, or an excuse, or is about to be removed.
SessionsAreInside ==
  \A i \in Ids : sessions[i] # None /\ open[sessions[i]] = None =>
    Excused(i) \/ \E q \in Reqs : req[q].id = i /\ Ended(q)

\* How far each kind of request comes.
KindGoes(kind, p) ==
  /\ kind \in Ends => p \notin {"touching", "opening", "opened", "ran", "replying"}
  /\ kind = "begin" => p \in {"arrived", "touching", "opening", "opened", "done"}
  /\ kind = "plain" => p \in {"arrived", "done"}
  /\ kind = None <=> p = "idle"
  /\ p = "removing" => kind \in Ends \cup SqlEnds

\* The id of a request names its session; only the sweep may take that from under an end.
NamesItsSession(r) ==
  /\ req[r].pc \in {"opening", "opened"} => Session(r) = None
  /\ Kind(r, Statements) /\ req[r].pc \in {"touching", "peeking", "registering", "waiting", "running", "ran"}
       => Session(r) = req[r].sess
  /\ At(r, "removing") \/ (Kind(r, Ends) /\ req[r].pc \in {"fetched", "waiting", "running"})
       => Session(r) \in {None, req[r].sess}

RanInside(r) ==
  Kind(r, {"execute", "crud"}) /\ (req[r].pc \in {"ran", "replying"} \/ req[r].ans = "active") /\ req[r].tx = None
    => Excused(req[r].id)

\* What a rollback fetched is open where it fetched it until it is undone, by the rollback or the sweep.
Undoes(r) ==
  Kind(r, {"rollback"}) /\ req[r].tx # None =>
    /\ req[r].pc \in {"fetched", "waiting", "running"}
         => open[req[r].sess] = req[r].tx \/ fate[req[r].tx] = "undone"
    /\ At(r, "removing") \/ req[r].ans = "idle" => fate[req[r].tx] = "undone"

Mine(r) ==
  /\ KindGoes(req[r].kind, req[r].pc)
  /\ ~At(r, "done") => req[r].ans = "none"
  /\ NamesItsSession(r)
  /\ RanInside(r)
  /\ Undoes(r)

Serial ==
  /\ OneAtATime
  /\ NotShared
  /\ OpensAreKnown
  /\ SessionsAreInside
  /\ \A r \in Reqs : Mine(r)

\* Nobody waits at its first lock behind another request of its session.
NoneOutwaits == \A r \in Reqs : ~req[r].outwaited

LEMMA InitSerial == Init => Serial /\ NoneOutwaits
<1> SUFFICES ASSUME Init PROVE Serial /\ NoneOutwaits
  OBVIOUS
<1> USE NoneAssumption DEF Init
<1>1. OneAtATime /\ NotShared
  BY DEF OneAtATime, Busy, NotShared, Holds
<1>2. OpensAreKnown /\ SessionsAreInside
  BY DEF OpensAreKnown, SessionsAreInside, Ended, At
<1>3. ASSUME NEW r \in Reqs PROVE Mine(r)
  BY DEF Mine, KindGoes, NamesItsSession, RanInside, Undoes, At, Kind, AllKinds, Ends, Statements, Execs, SqlEnds
<1>4. NoneOutwaits
  BY DEF NoneOutwaits
<1> QED  BY <1>1, <1>2, <1>3, <1>4 DEF Serial

(* A step of a request: the others stay as they are, and it is the same request. *)
Only(r) == \A q \in Reqs \ {r} : req'[q] = req[q]

Continues(r) ==
  /\ Busy(r) /\ Only(r)
  /\ req'[r].kind = req[r].kind /\ req'[r].id = req[r].id

LEMMA OneAtATimeKeeps ==
  ASSUME OneAtATime, NEW r \in Reqs, Continues(r)
  PROVE  OneAtATime'
BY DEF OneAtATime, Continues, Only, Busy

\* Excuses last, for a request that steps has none but that of its kind.
LEMMA ExcusesLast ==
  ASSUME Serial, NEW r \in Reqs, Continues(r), NEW i, Excused(i)
  PROVE  Excused(i)'
<1>1. PICK q \in Reqs : /\ req[q].id = i
                        /\ \/ Kind(q, {"ddl"})
                           \/ Kind(q, Ends \cup SqlEnds) /\ req[q].ans = "error"
  BY DEF Excused
<1>2. CASE q = r
  <2>1. Kind(r, {"ddl"})
    BY <1>1, <1>2 DEF Serial, Mine, Continues, Busy, At
  <2> QED  BY <1>1, <1>2, <2>1 DEF Continues, Excused, Kind
<1>3. CASE q # r
  BY <1>1, <1>3 DEF Continues, Only, Excused, Kind
<1> QED  BY <1>2, <1>3

\* Another request is not concerned by a change of the map under the id of r, as long as what it is
\* to undo stays to be undone.
LEMMA OthersMine ==
  ASSUME Serial, NEW r \in Reqs, Continues(r),
         \A i \in Ids : i # req[r].id => sessions'[i] = sessions[i],
         NEW q \in Reqs \ {r}, IInv, Undoes(q)'
  PROVE  Mine(q)'
<1>1. req'[q] = req[q] /\ Mine(q)
  BY DEF Continues, Only, Serial
<1>2. Busy(q) => Session(q)' = Session(q)
  BY <1>1 DEF Serial, OneAtATime, Continues, Session, Busy, IInv, RequestsAreOnTheirWay
<1>3. NamesItsSession(q)'
  BY <1>1, <1>2 DEF Mine, NamesItsSession, Kind, Busy, Session, At
<1>4. RanInside(q)'
  BY <1>1, ExcusesLast DEF Mine, RanInside, Kind
<1> QED  BY <1>1, <1>3, <1>4 DEF Mine, At

-----------------------------------------------------------------------------
(* The steps that leave the map and the transactions alone. *)

LEMMA QuietNotShared ==
  ASSUME Serial, IInv, NEW r \in Reqs, Continues(r), UNCHANGED sessions,
         req'[r].sess \in {None, req[r].sess, Session(r)}
  PROVE  NotShared'
<1>1. req[r].id \in Ids
  BY DEF IInv, RequestsAreOnTheirWay, Continues, Busy
<1>2. \A q \in Reqs : req[q].sess # None => Busy(q) /\ req[q].id \in Ids
  BY DEF IInv, RequestsAreOnTheirWay, Without, Busy
<1> SUFFICES ASSUME NEW c \in Conns
             PROVE  /\ \A i, j \in Ids : sessions[i] = c /\ sessions[j] = c => i = j
                    /\ \A q \in Reqs, i \in Ids : req'[q].sess = c /\ sessions[i] = c => req'[q].id = i
                    /\ \A p, q \in Reqs : req'[p].sess = c /\ req'[q].sess = c => p = q
  BY DEF NotShared, Holds
<1>3. c # None
  BY NoneAssumption
<1>4. \A i, j \in Ids : sessions[i] = c /\ sessions[j] = c => i = j
  BY DEF Serial, NotShared
<1>5. \A q \in Reqs, i \in Ids : req[q].sess = c /\ sessions[i] = c => req[q].id = i
  BY DEF Serial, NotShared, Holds
<1>6. \A p, q \in Reqs : req[p].sess = c /\ req[q].sess = c => p = q
  BY DEF Serial, NotShared, Holds
<1>7. \A q \in Reqs \ {r} : req'[r].sess = c => req[q].sess # c
  <2> SUFFICES ASSUME NEW q \in Reqs \ {r}, req'[r].sess = c, req[q].sess = c
               PROVE  FALSE
    OBVIOUS
  <2>1. CASE req'[r].sess = req[r].sess
    BY <1>6, <2>1
  <2>2. CASE req'[r].sess = sessions[req[r].id]
    <3>1. req[q].id = req[r].id
      BY <1>1, <1>5, <2>2
    <3>2. Busy(q) /\ Busy(r)
      BY <1>2, <1>3 DEF Continues
    <3> QED  BY <3>1, <3>2 DEF Serial, OneAtATime
  <2> QED  BY <1>3, <2>1, <2>2 DEF Session
<1>8. \A q \in Reqs, i \in Ids : req'[q].sess = c /\ sessions[i] = c => req'[q].id = i
  BY <1>1, <1>3, <1>4, <1>5 DEF Continues, Only, Session
<1> QED  BY <1>4, <1>6, <1>7, <1>8 DEF Continues, Only

LEMMA QuietKeeps ==
  ASSUME Serial, IInv, NEW r \in Reqs, Continues(r), UNCHANGED <<sessions, open, fate>>,
         req'[r].sess \in {None, req[r].sess, Session(r)},
         ~At(r, "opened"), ~At(r, "opened")',
         Ended(r)' <=> Ended(r), Ended(r) => req'[r].sess = req[r].sess, Mine(r)'
  PROVE  Serial'
<1>1. OneAtATime' /\ NotShared'
  BY OneAtATimeKeeps, QuietNotShared DEF Serial
<1>2. OpensAreKnown'
  <2>1. \A c \in Conns : open[c] # None => open[c] \in Reqs
    BY DEF IInv, TypeOK
  <2>2. fate[r] = "none" /\ \A c \in Conns : open[c] # r
    BY NoneAssumption DEF Serial, OpensAreKnown, Continues, Busy, At
  <2>3. \A c \in Conns : open'[c] # None =>
       /\ fate'[open'[c]] = "open"
       /\ \A d \in Conns : open'[d] = open'[c] => d = c
       /\ \/ At(open[c], "opened")' /\ Holds(open[c], c)'
          \/ At(open[c], "done")' /\ (req'[open[c]].ans = "active" => Session(open[c])' = c)
    BY <2>1, <2>2 DEF Serial, OpensAreKnown, Continues, Only, At, Holds, Session
  <2>4. \A q \in Reqs : /\ fate[q] # "none" => req'[q].pc \in {"opened", "done"}
                        /\ At(q, "opened")' => open[req'[q].sess] = q
                        /\ Ended(q)' => open[req'[q].sess] = None
    BY <2>2 DEF Serial, OpensAreKnown, Continues, Only, At, Ended, Kind
  <2> QED  BY <2>3, <2>4 DEF OpensAreKnown, At, Holds, Session
<1>3. SessionsAreInside'
  <2> SUFFICES ASSUME NEW i \in Ids, sessions[i] # None, open[sessions[i]] = None, ~Excused(i)'
               PROVE  \E q \in Reqs : req'[q].id = i /\ Ended(q)'
    BY DEF SessionsAreInside
  <2>1. PICK q \in Reqs : req[q].id = i /\ Ended(q)
    BY ExcusesLast DEF Serial, SessionsAreInside
  <2> QED  BY <2>1 DEF Continues, Only, Ended, At, Kind
<1>4. ASSUME NEW q \in Reqs PROVE Mine(q)'
  <2>1. CASE q # r
    <3>1. Undoes(q)'
      BY <2>1 DEF Serial, Mine, Undoes, Kind, At, Continues, Only
    <3> QED  BY <2>1, <3>1, OthersMine
  <2> QED  BY <2>1
<1> QED  BY <1>1, <1>2, <1>3, <1>4 DEF Serial

\* An answer, and a step forward, of a request that is on its way.
LEMMA AnswerGives ==
  ASSUME TypeOK, NEW r \in Reqs, NEW a \in {"active", "idle", "error", "plain"}, Answer(r, a), Busy(r)
  PROVE  Continues(r) /\ req'[r].pc = "done" /\ req'[r].sess = None /\ req'[r].tx = req[r].tx /\ req'[r].ans = a
<1> DEFINE rec == [req[r] EXCEPT !.pc = "done", !.ans = a, !.sess = None]
<1>1. req \in [Reqs -> Request] /\ req[r] \in Request
  BY DEF TypeOK
<1>2. req' = [req EXCEPT ![r] = rec]
  BY DEF Answer
<1>3. rec.kind = req[r].kind /\ rec.pc = "done" /\ rec.sess = None /\ rec.id = req[r].id
      /\ rec.tx = req[r].tx /\ rec.ans = a
  BY <1>1 DEF Request
<1> HIDE DEF rec
<1> QED  BY <1>1, <1>2, <1>3 DEF Continues, Only

LEMMA GoesGives ==
  ASSUME TypeOK, NEW r \in Reqs, NEW p, Goes(r, p), Busy(r)
  PROVE  Continues(r) /\ req'[r].pc = p /\ req'[r].sess = req[r].sess /\ req'[r].tx = req[r].tx
         /\ req'[r].ans = req[r].ans
<1> DEFINE rec == [req[r] EXCEPT !.pc = p]
<1>1. req \in [Reqs -> Request] /\ req[r] \in Request
  BY DEF TypeOK
<1>2. req' = [req EXCEPT ![r] = rec]
  BY DEF Goes
<1>3. rec.kind = req[r].kind /\ rec.pc = p /\ rec.sess = req[r].sess /\ rec.id = req[r].id
      /\ rec.tx = req[r].tx /\ rec.ans = req[r].ans
  BY <1>1 DEF Request
<1> HIDE DEF rec
<1> QED  BY <1>1, <1>2, <1>3 DEF Continues, Only

\* Who is answered with an error has no more to show.
LEMMA ErrorIsMine ==
  ASSUME Serial, IInv, NEW r \in Reqs, Continues(r), req'[r].pc = "done", req'[r].ans = "error"
  PROVE  Mine(r)'
<1>1. KindGoes(req[r].kind, "done")
  BY DEF Serial, Mine, KindGoes, Continues, Busy
<1> QED  BY <1>1 DEF Mine, Continues, NamesItsSession, RanInside, Undoes, At, Kind

LEMMA ErrorKeepsSerial ==
  ASSUME Serial, IInv, NEW r \in Reqs,
         Refuse(r) \/ NotFound(r) \/ LockTimeout(r) \/ ((Touch(r) \/ CheckDb(r)) /\ Answer(r, "error"))
  PROVE  Serial'
<1>1. Busy(r) /\ ~At(r, "opened") /\ ~Ended(r) /\ UNCHANGED <<sessions, open, fate>> /\ Answer(r, "error")
  BY DEF Refuse, NotFound, LockTimeout, Touch, CheckDb, At, Busy, Ended
<1>2. Continues(r) /\ req'[r].pc = "done" /\ req'[r].sess = None /\ req'[r].ans = "error"
  BY <1>1, AnswerGives DEF IInv
<1> QED  BY <1>1, <1>2, ErrorIsMine, QuietKeeps DEF At, Ended

LEMMA FindKeepsSerial ==
  ASSUME Serial, IInv, NEW r \in Reqs, Find(r)
  PROVE  Serial'
<1> DEFINE rec == [req[r] EXCEPT !.pc = "touching", !.sess = Session(r)]
<1>1. req \in [Reqs -> Request] /\ req[r] \in Request
  BY DEF IInv, TypeOK
<1>2. req' = [req EXCEPT ![r] = rec] /\ UNCHANGED <<sessions, open, fate>> /\ At(r, "arrived")
      /\ Kind(r, Statements \cup {"begin"})
  BY DEF Find
<1>3. rec.kind = req[r].kind /\ rec.pc = "touching" /\ rec.sess = Session(r) /\ rec.id = req[r].id
      /\ rec.tx = req[r].tx /\ rec.ans = req[r].ans
  BY <1>1 DEF Request
<1> HIDE DEF rec
<1>4. Continues(r) /\ req'[r].pc = "touching" /\ req'[r].sess = Session(r)
      /\ req'[r].tx = req[r].tx /\ req'[r].ans = "none"
  BY <1>1, <1>2, <1>3 DEF Continues, Only, Busy, At, Serial, Mine
<1>5. KindGoes(req[r].kind, "touching")
  BY <1>2, NoneAssumption DEF Kind, KindGoes, AllKinds, Statements, Execs, SqlEnds, Ends
<1>6. Mine(r)'
  BY <1>2, <1>4, <1>5, KindsDiffer DEF Mine, Continues, NamesItsSession, RanInside, Undoes, At, Kind, Session, Ends
<1> QED  BY <1>2, <1>4, <1>6, QuietKeeps DEF At, Ended

\* A statement that has its session comes nearer to running.
LEMMA WaitKeepsSerial ==
  ASSUME Serial, IInv, NEW r \in Reqs, Kind(r, Statements), UNCHANGED <<sessions, open, fate>>,
         req[r].pc \in {"touching", "peeking", "registering"},
         NEW p \in {"peeking", "registering", "waiting"}, Goes(r, p)
  PROVE  Serial'
<1>1. Busy(r) /\ ~At(r, "opened") /\ ~Ended(r)
  BY DEF At, Busy, Ended
<1>2. Continues(r) /\ req'[r].pc = p /\ req'[r].sess = req[r].sess /\ req'[r].ans = req[r].ans
      /\ req'[r].tx = req[r].tx
  BY <1>1, GoesGives DEF IInv
<1>3. Mine(r) /\ req[r].kind \notin Ends \cup {None, "begin", "plain"}
  BY KindsDiffer, NoneAssumption DEF Serial, Kind, AllKinds
<1>4. Mine(r)'
  BY <1>2, <1>3 DEF Mine, KindGoes, NamesItsSession, RanInside, Undoes, At, Kind, Continues,
     Session, Statements, Execs, SqlEnds, Ends
<1> QED  BY <1>1, <1>2, <1>4, QuietKeeps DEF At, Ended

\* A begin that finds a session is answered; a statement waits for its Mutex.
LEMMA TouchKeepsSerial ==
  ASSUME Serial, IInv, NEW r \in Reqs, Touch(r)
  PROVE  Serial'
<1>1. Busy(r) /\ ~At(r, "opened") /\ ~Ended(r) /\ UNCHANGED <<sessions, open, fate>> /\ At(r, "touching")
  BY DEF Touch, At, Busy, Ended
<1>2. CASE Answer(r, "error")
  BY <1>2, ErrorKeepsSerial
<1>3. CASE Kind(r, {"begin"}) /\ Answer(r, "active")
  <2>1. Continues(r) /\ req'[r].pc = "done" /\ req'[r].sess = None /\ req'[r].ans = "active"
    BY <1>1, <1>3, AnswerGives DEF IInv
  <2>2. Mine(r)'
    BY <1>3, <2>1, NoneAssumption DEF Mine, KindGoes, NamesItsSession, RanInside, Undoes, At, Kind, Continues,
       Ends, AllKinds
  <2> QED  BY <1>1, <2>1, <2>2, QuietKeeps DEF At, Ended
<1>4. CASE Kind(r, Statements) /\ (Goes(r, "waiting") \/ Goes(r, "peeking"))
  <2>1. PICK p \in {"waiting", "peeking"} : Goes(r, p)
    BY <1>4
  <2>2. req[r].pc \in {"touching", "peeking", "registering"} /\ p \in {"peeking", "registering", "waiting"}
    BY <1>1 DEF At
  <2> QED  BY <1>1, <1>4, <2>1, <2>2, WaitKeepsSerial
<1>5. Kind(r, Execs) => Kind(r, Statements)
  BY DEF Kind, Statements
<1> QED  BY <1>2, <1>3, <1>4, <1>5 DEF Touch

\* The first lock and the registration of the token change nothing else.
LEMMA PeekKeepsSerial ==
  ASSUME Serial, IInv, NEW r \in Reqs, Peek(r) \/ Register(r)
  PROVE  Serial'
<1>1. Busy(r) /\ UNCHANGED <<sessions, open, fate>> /\ req[r].pc \in Peekers
  BY DEF Peek, Register, At, Busy, Peekers
<1>2. Kind(r, Statements)
  BY <1>1, KindsDiffer DEF IInv, RequestsAreOnTheirWay, OnItsWay, Kind
<1>3. PICK p \in {"registering", "waiting"} : Goes(r, p)
  BY DEF Peek, Register
<1> QED  BY <1>1, <1>2, <1>3, WaitKeepsSerial DEF Peekers

LEMMA BeginMissesKeepsSerial ==
  ASSUME Serial, IInv, NEW r \in Reqs, BeginMisses(r)
  PROVE  Serial'
<1>1. Busy(r) /\ ~At(r, "opened") /\ ~Ended(r) /\ UNCHANGED <<sessions, open, fate>> /\ Kind(r, {"begin"})
      /\ Session(r) = None /\ Goes(r, "opening")
  BY DEF BeginMisses, At, Busy, Ended
<1>2. Continues(r) /\ req'[r].pc = "opening" /\ req'[r].sess = req[r].sess /\ req'[r].ans = req[r].ans
      /\ req'[r].tx = req[r].tx
  BY <1>1, GoesGives DEF IInv
<1>3. Mine(r)'
  BY <1>1, <1>2 DEF Serial, Mine, KindGoes, NamesItsSession, RanInside, Undoes, At, Kind, Continues, Busy, Session,
     Statements, Execs, SqlEnds, Ends, AllKinds
<1> QED  BY <1>1, <1>2, <1>3, QuietKeeps DEF At, Ended

\* An end fetches the session its id names, and with it the transaction that is open there.
LEMMA FetchKeepsSerial ==
  ASSUME Serial, IInv, NEW r \in Reqs, Fetch(r)
  PROVE  Serial'
<1> DEFINE rec == [req[r] EXCEPT !.pc = "fetched", !.sess = Session(r), !.tx = open[Session(r)]]
<1>1. req \in [Reqs -> Request] /\ req[r] \in Request
  BY DEF IInv, TypeOK
<1>2. req' = [req EXCEPT ![r] = rec] /\ UNCHANGED <<sessions, open, fate>> /\ At(r, "arrived")
      /\ Kind(r, Ends)
  BY DEF Fetch
<1>3. rec.kind = req[r].kind /\ rec.pc = "fetched" /\ rec.sess = Session(r) /\ rec.id = req[r].id
      /\ rec.tx = open[Session(r)] /\ rec.ans = req[r].ans
  BY <1>1 DEF Request
<1> HIDE DEF rec
<1>4. Continues(r) /\ req'[r].pc = "fetched" /\ req'[r].sess = Session(r)
      /\ req'[r].tx = open[Session(r)] /\ req'[r].ans = "none"
  BY <1>1, <1>2, <1>3 DEF Continues, Only, Busy, At, Serial, Mine
<1>5. Mine(r)'
  BY <1>2, <1>4, NoneAssumption DEF Mine, Continues, KindGoes, NamesItsSession, RanInside, Undoes, At, Kind, Session,
     Ends, Statements, Execs, SqlEnds, AllKinds
<1> QED  BY <1>2, <1>4, <1>5, QuietKeeps DEF At, Ended

LEMMA CheckDbKeepsSerial ==
  ASSUME Serial, IInv, NEW r \in Reqs, CheckDb(r)
  PROVE  Serial'
<1>1. Busy(r) /\ ~At(r, "opened") /\ ~Ended(r) /\ UNCHANGED <<sessions, open, fate>> /\ At(r, "fetched")
  BY DEF CheckDb, At, Busy, Ended
<1>2. CASE Answer(r, "error")
  BY <1>2, ErrorKeepsSerial
<1>3. CASE Goes(r, "waiting")
  <2>1. Continues(r) /\ req'[r].pc = "waiting" /\ req'[r].sess = req[r].sess /\ req'[r].ans = req[r].ans
        /\ req'[r].tx = req[r].tx
    BY <1>1, <1>3, GoesGives DEF IInv
  <2>2. Mine(r) /\ req[r].kind \notin Statements
    BY <1>1 DEF Serial, IInv, RequestsAreOnTheirWay, OnItsWay, At
  <2>3. Mine(r)'
    BY <1>1, <2>1, <2>2 DEF Mine, KindGoes, NamesItsSession, RanInside, Undoes, At, Kind, Continues, Session,
       Statements, Execs
  <2> QED  BY <1>1, <2>1, <2>3, QuietKeeps DEF At, Ended
<1> QED  BY <1>2, <1>3 DEF CheckDb

LEMMA AcquireKeepsSerial ==
  ASSUME Serial, IInv, NEW r \in Reqs, Acquire(r)
  PROVE  Serial'
<1>1. Busy(r) /\ ~At(r, "opened") /\ ~Ended(r) /\ UNCHANGED <<sessions, open, fate>> /\ At(r, "waiting")
      /\ Goes(r, "running")
  BY DEF Acquire, At, Busy, Ended
<1>2. Continues(r) /\ req'[r].pc = "running" /\ req'[r].sess = req[r].sess /\ req'[r].ans = req[r].ans
      /\ req'[r].tx = req[r].tx
  BY <1>1, GoesGives DEF IInv
<1>3. Mine(r)'
  BY <1>1, <1>2 DEF Serial, Mine, KindGoes, NamesItsSession, RanInside, Undoes, At, Kind, Continues, Session
<1> QED  BY <1>1, <1>2, <1>3, QuietKeeps DEF At, Ended

\* An end sent as a statement still has its session to remove; a statement goes to its reply.
LEMMA TouchAfterKeepsSerial ==
  ASSUME Serial, IInv, NEW r \in Reqs, TouchAfter(r)
  PROVE  Serial'
<1> DEFINE p == IF Kind(r, SqlEnds) THEN "removing" ELSE "replying"
<1>1. Busy(r) /\ ~At(r, "opened") /\ UNCHANGED <<sessions, open, fate>> /\ At(r, "ran") /\ Goes(r, p)
  BY DEF TouchAfter, At, Busy
<1>2. Continues(r) /\ req'[r].pc = p /\ req'[r].sess = req[r].sess /\ req'[r].ans = req[r].ans
      /\ req'[r].tx = req[r].tx
  BY <1>1, GoesGives DEF IInv
<1>3. Ended(r)' <=> Ended(r)
  BY <1>1, <1>2 DEF Ended, At, Kind, Continues
<1>4. Mine(r) /\ \A i : Excused(i) => Excused(i)'
  BY <1>2, ExcusesLast DEF Serial
<1>6. req[r].kind \in SqlEnds => req[r].kind \in Statements /\ req[r].kind \notin Ends \cup {"rollback"}
  BY DEF SqlEnds, Statements, Execs, Ends
<1>7. KindGoes(req[r].kind, p) /\ req[r].kind \notin Ends
  BY <1>1, <1>4 DEF Mine, KindGoes, At, Kind
<1>8. NamesItsSession(r)'
  BY <1>1, <1>2, <1>4, <1>6, <1>7 DEF Mine, NamesItsSession, At, Kind, Continues, Session
<1>5. Mine(r)'
  BY <1>1, <1>2, <1>4, <1>7, <1>8 DEF Mine, RanInside, Undoes, At, Kind, Continues, Ends
<1> QED  BY <1>1, <1>2, <1>3, <1>5, QuietKeeps DEF At

LEMMA ReplyKeepsSerial ==
  ASSUME Serial, IInv, NEW r \in Reqs, Reply(r)
  PROVE  Serial'
<1>1. PICK a \in {"active", "idle"} : Answer(r, a)
  BY DEF Reply
<1>2. Busy(r) /\ ~At(r, "opened") /\ ~Ended(r) /\ UNCHANGED <<sessions, open, fate>> /\ At(r, "replying")
  BY DEF Reply, At, Busy, Ended
<1>3. Continues(r) /\ req'[r].pc = "done" /\ req'[r].sess = None /\ req'[r].ans = a /\ req'[r].tx = req[r].tx
  BY <1>1, <1>2, AnswerGives DEF IInv
<1>4. Mine(r) /\ \A i : Excused(i) => Excused(i)'
  BY <1>3, ExcusesLast DEF Serial
<1>5. Mine(r)'
  BY <1>2, <1>3, <1>4 DEF Mine, KindGoes, NamesItsSession, RanInside, Undoes, At, Kind, Continues, Session, Ends
<1> QED  BY <1>2, <1>3, <1>5, QuietKeeps DEF At, Ended

LEMMA PoolStatementKeepsSerial ==
  ASSUME Serial, IInv, NEW r \in Reqs, PoolStatement(r)
  PROVE  Serial'
<1>1. PICK c \in Conns : req' = [req EXCEPT ![r].pc = "done", ![r].ans = "plain", ![r].tx = open[c]]
  BY DEF PoolStatement
<1> DEFINE rec == [req[r] EXCEPT !.pc = "done", !.ans = "plain", !.tx = open[c]]
<1>2. req \in [Reqs -> Request] /\ req[r] \in Request
  BY DEF IInv, TypeOK
<1>3. req' = [req EXCEPT ![r] = rec] /\ UNCHANGED <<sessions, open, fate>> /\ At(r, "arrived")
      /\ Kind(r, {"plain"})
  BY <1>1 DEF PoolStatement
<1>4. rec.kind = req[r].kind /\ rec.pc = "done" /\ rec.sess = req[r].sess /\ rec.id = req[r].id
      /\ rec.ans = "plain"
  BY <1>2 DEF Request
<1> HIDE DEF rec
<1>5. Continues(r) /\ req'[r].pc = "done" /\ req'[r].sess = req[r].sess /\ req'[r].ans = "plain"
  BY <1>2, <1>3, <1>4 DEF Continues, Only, Busy, At
<1>6. Mine(r)'
  BY <1>3, <1>5, NoneAssumption DEF Mine, Continues, KindGoes, NamesItsSession, RanInside, Undoes, At, Kind,
     Ends, AllKinds
<1> QED  BY <1>3, <1>5, <1>6, QuietKeeps DEF At, Ended

-----------------------------------------------------------------------------
(* A request arrives when its id has no other on the way. *)

LEMMA ArriveKeepsSerial ==
  ASSUME ~Overlap, Serial, IInv, NEW r \in Reqs, NEW k \in Kinds, NEW i \in Ids, Arrive(r, k, i)
  PROVE  Serial'
<1> DEFINE rec == [req[r] EXCEPT !.kind = k, !.id = i, !.pc = "arrived"]
<1>1. req \in [Reqs -> Request] /\ req[r] \in Request
  BY DEF IInv, TypeOK
<1>2. req' = [req EXCEPT ![r] = rec] /\ UNCHANGED <<sessions, open, fate>> /\ At(r, "idle")
      /\ \A q \in Reqs : req[q].id = i => ~Busy(q)
  BY DEF Arrive, Busy
<1>3. rec.kind = k /\ rec.pc = "arrived" /\ rec.sess = req[r].sess /\ rec.id = i /\ rec.ans = req[r].ans
  BY <1>1 DEF Request
<1> HIDE DEF rec
<1>4. /\ req'[r].kind = k /\ req'[r].pc = "arrived" /\ req'[r].sess = None /\ req'[r].id = i
      /\ req'[r].ans = "none" /\ Only(r)
  BY <1>1, <1>2, <1>3 DEF Only, Serial, Mine, At, IInv, RequestsAreOnTheirWay, Without
<1>5. req[r].kind = None /\ req[r].sess = None /\ fate[r] = "none" /\ \A c \in Conns : open[c] # r
  BY <1>2, NoneAssumption DEF Serial, Mine, KindGoes, At, IInv, RequestsAreOnTheirWay, Without, OpensAreKnown
<1>6. OneAtATime'
  BY <1>2, <1>4 DEF Serial, OneAtATime, Busy, Only
<1>7. NotShared'
  BY <1>2, <1>4, NoneAssumption DEF Serial, NotShared, Holds, Only
<1>8. ASSUME NEW j, Excused(j) PROVE Excused(j)'
  <2>1. PICK q \in Reqs : /\ req[q].id = j
                          /\ \/ Kind(q, {"ddl"})
                             \/ Kind(q, Ends \cup SqlEnds) /\ req[q].ans = "error"
    BY <1>8 DEF Excused
  <2>2. q # r
    BY <1>5, <2>1, NoneAssumption DEF Kind, AllKinds, Ends, SqlEnds, Execs, Statements
  <2> QED  BY <1>4, <2>1, <2>2 DEF Excused, Only, Kind
<1>9. OpensAreKnown'
  <2>1. \A c \in Conns : open[c] # None => open[c] \in Reqs
    BY DEF IInv, TypeOK
  <2>2. \A c \in Conns : open[c] # None =>
       /\ fate[open[c]] = "open"
       /\ \A d \in Conns : open[d] = open[c] => d = c
       /\ \/ At(open[c], "opened")' /\ Holds(open[c], c)'
          \/ At(open[c], "done")' /\ (req'[open[c]].ans = "active" => Session(open[c])' = c)
    BY <1>2, <1>4, <1>5, <2>1 DEF Serial, OpensAreKnown, Only, At, Holds, Session
  <2>3. \A q \in Reqs : /\ fate[q] # "none" => req'[q].pc \in {"opened", "done"}
                        /\ At(q, "opened")' => open[req'[q].sess] = q
                        /\ Ended(q)' => open[req'[q].sess] = None
    BY <1>4, <1>5 DEF Serial, OpensAreKnown, Only, At, Ended, Kind
  <2> QED  BY <1>2, <2>2, <2>3 DEF OpensAreKnown, At, Holds, Session
<1>10. SessionsAreInside'
  <2> SUFFICES ASSUME NEW j \in Ids, sessions[j] # None, open[sessions[j]] = None, ~Excused(j)'
               PROVE  \E q \in Reqs : req'[q].id = j /\ Ended(q)'
    BY <1>2 DEF SessionsAreInside
  <2>1. PICK q \in Reqs : req[q].id = j /\ Ended(q)
    BY <1>8 DEF Serial, SessionsAreInside
  <2> QED  BY <1>2, <1>4, <2>1 DEF Only, Ended, At, Kind
<1>11. ASSUME NEW q \in Reqs PROVE Mine(q)'
  <2>1. CASE q = r
    <3>1. k \in AllKinds
      BY KindsAssumption
    <3> QED  BY <1>4, <2>1, <3>1, NoneAssumption DEF Mine, KindGoes, NamesItsSession, RanInside, Undoes, At, Kind, AllKinds
  <2>2. CASE q # r
    <3>1. req'[q] = req[q] /\ Mine(q)
      BY <1>4, <2>2 DEF Only, Serial
    <3> QED  BY <1>2, <1>8, <3>1 DEF Mine, NamesItsSession, RanInside, Undoes, At, Kind, Session
  <2> QED  BY <2>1, <2>2
<1> QED  BY <1>6, <1>7, <1>9, <1>10, <1>11 DEF Serial

-----------------------------------------------------------------------------
(* The steps that begin a transaction. *)

\* The connection came from the pool: nobody holds it, no id names it.
LEMMA StartTxKeepsSerial ==
  ASSUME Serial, IInv, NEW r \in Reqs, Continues(r), At(r, "opening"),
         NEW c \in Conns, InPool(c), StartTx(c, r), UNCHANGED sessions, Mine(r)',
         \/ req'[r].pc = "opened" /\ req'[r].sess = c
         \/ req'[r].pc = "done" /\ req'[r].sess = None /\ req'[r].ans = "error"
  PROVE  Serial'
<1>1. /\ \A i \in Ids : sessions[i] # c
      /\ \A q \in Reqs : req[q].sess # c
  BY DEF InPool, Range, Holds, IInv, TypeOK
<1>2. fate[r] = "none" /\ \A d \in Conns : open[d] # r
  BY NoneAssumption DEF Serial, OpensAreKnown, At
<1>3. /\ open'[c] = r /\ \A d \in Conns : d # c => open'[d] = open[d]
      /\ \A t \in Reqs : fate'[t] = IF t = open[c] THEN "committed" ELSE IF t = r THEN "open" ELSE fate[t]
  BY DEF StartTx, IInv, TypeOK
<1>4. \A d \in Conns : open[d] # None => open[d] \in Reqs
  BY DEF IInv, TypeOK
<1>5. OneAtATime'
  BY OneAtATimeKeeps DEF Serial
<1>6. NotShared'
  BY <1>1, NoneAssumption DEF Serial, NotShared, Continues, Only, Holds
<1>7. OpensAreKnown'
  <2>1. ASSUME NEW d \in Conns, open'[d] # None
        PROVE  /\ fate'[open'[d]] = "open"
               /\ \A e \in Conns : open'[e] = open'[d] => e = d
               /\ \/ req'[open'[d]].pc = "opened" /\ req'[open'[d]].sess = d
                  \/ req'[open'[d]].pc = "done"
                     /\ (req'[open'[d]].ans = "active" => sessions[req'[open'[d]].id] = d)
    <3>1. CASE d = c
      <4>1. open'[d] = r /\ fate'[r] = "open"
        BY <1>2, <1>3, <3>1
      <4>2. \A e \in Conns : open'[e] = r => e = d
        BY <1>2, <1>3, <3>1
      <4> QED  BY <3>1, <4>1, <4>2
    <3>2. CASE d # c
      <4>1. open'[d] = open[d] /\ open[d] \in Reqs \ {r} /\ open[d] # None
        BY <1>2, <1>3, <1>4, <2>1, <3>2
      <4>2. /\ fate[open[d]] = "open" /\ \A e \in Conns : open[e] = open[d] => e = d
            /\ \/ req[open[d]].pc = "opened" /\ req[open[d]].sess = d
               \/ req[open[d]].pc = "done" /\ (req[open[d]].ans = "active" => sessions[req[open[d]].id] = d)
        BY <4>1 DEF Serial, OpensAreKnown, At, Holds, Session
      <4>3. fate'[open[d]] = "open" /\ req'[open[d]] = req[open[d]]
        BY <1>3, <3>2, <4>1, <4>2 DEF Continues, Only
      <4>4. \A e \in Conns : open'[e] = open[d] => e = d
        BY <1>3, <4>1, <4>2
      <4> QED  BY <4>1, <4>2, <4>3, <4>4
    <3> QED  BY <3>1, <3>2
  <2>2. ASSUME NEW q \in Reqs
        PROVE  /\ fate'[q] # "none" => req'[q].pc \in {"opened", "done"}
               /\ At(q, "opened")' => open'[req'[q].sess] = q
               /\ Ended(q)' => open'[req'[q].sess] = None
    <3>1. CASE q = r
      BY <1>2, <1>3, <3>1 DEF At, Ended
    <3>2. CASE q # r
      <4>1. req'[q] = req[q] /\ req[q].sess # c
        BY <1>1, <3>2 DEF Continues, Only
      <4>2. req[q].pc \notin Without => req[q].sess \in Conns
        BY OthersRun
      <4>3. At(q, "opened") \/ Ended(q) => open'[req[q].sess] = open[req[q].sess]
        BY <1>3, <4>1, <4>2 DEF At, Ended, Without
      <4>4. /\ fate[q] # "none" => req[q].pc \in {"opened", "done"}
            /\ At(q, "opened") => open[req[q].sess] = q
            /\ Ended(q) => open[req[q].sess] = None
        BY DEF Serial, OpensAreKnown
      <4>5. fate'[q] # "none" => fate[q] # "none"
        BY <1>3, <1>4, <3>2, NoneAssumption DEF Serial, OpensAreKnown
      <4> QED  BY <4>1, <4>3, <4>4, <4>5 DEF At, Ended, Kind
    <3> QED  BY <3>1, <3>2
  <2> QED  BY <2>1, <2>2 DEF OpensAreKnown, At, Holds, Session
<1>8. SessionsAreInside'
  <2> SUFFICES ASSUME NEW i \in Ids, sessions[i] # None, open'[sessions[i]] = None, ~Excused(i)'
               PROVE  \E q \in Reqs : req'[q].id = i /\ Ended(q)'
    BY DEF SessionsAreInside
  <2>1. open[sessions[i]] = None
    BY <1>1, <1>3 DEF IInv, TypeOK
  <2>2. PICK q \in Reqs : req[q].id = i /\ Ended(q)
    BY <2>1, ExcusesLast DEF Serial, SessionsAreInside
  <2> QED  BY <2>2 DEF Continues, Only, Ended, At, Kind
<1>9. ASSUME NEW q \in Reqs PROVE Mine(q)'
  <2>1. CASE q # r
    <3>1. req'[q] = req[q] /\ Undoes(q) /\ req[q] \in Request
      BY <2>1 DEF Serial, Mine, Continues, Only, IInv, TypeOK
    <3>2. \A t \in Reqs : fate[t] = "undone" => fate'[t] = "undone"
      BY <1>2, <1>3, <1>4, NoneAssumption DEF Serial, OpensAreKnown
    <3>3. req[q].pc \in {"fetched", "waiting", "running"} => open'[req[q].sess] = open[req[q].sess]
      BY <1>1, <1>3, OthersRun DEF Without
    <3>4. req[q].tx # None => req[q].tx \in Reqs
      BY <3>1 DEF Request
    <3>5. Undoes(q)'
      BY <3>1, <3>2, <3>3, <3>4 DEF Undoes, Kind, At
    <3> QED  BY <2>1, <3>5, OthersMine
  <2> QED  BY <2>1
<1> QED  BY <1>5, <1>6, <1>7, <1>8, <1>9 DEF Serial

LEMMA StartKeepsSerial ==
  ASSUME Serial, IInv, NEW r \in Reqs, StartTransaction(r) \/ StartFails(r)
  PROVE  Serial'
<1>1. Busy(r) /\ At(r, "opening") /\ ~At(r, "opened") /\ ~Ended(r) /\ UNCHANGED sessions
  BY DEF StartTransaction, StartFails, At, Busy, Ended
<1>2. CASE StartFails(r)
  <2>1. Continues(r) /\ req'[r].pc = "done" /\ req'[r].sess = None /\ req'[r].ans = "error"
    BY <1>1, <1>2, AnswerGives DEF IInv, StartFails
  <2>2. Mine(r)'
    BY <2>1, ErrorIsMine
  <2>3. CASE UNCHANGED <<open, fate>>
    BY <1>1, <2>1, <2>2, <2>3, QuietKeeps DEF At, Ended
  <2>4. CASE \E c \in Conns : InPool(c) /\ StartTx(c, r)
    BY <1>1, <2>1, <2>2, <2>4, StartTxKeepsSerial
  <2> QED  BY <1>2, <2>3, <2>4 DEF StartFails
<1>3. CASE StartTransaction(r)
  <2>1. PICK c \in Conns : /\ InPool(c) /\ StartTx(c, r)
                           /\ req' = [req EXCEPT ![r].pc = "opened", ![r].sess = c]
    BY <1>3 DEF StartTransaction
  <2> DEFINE rec == [req[r] EXCEPT !.pc = "opened", !.sess = c]
  <2>2. req \in [Reqs -> Request] /\ req[r] \in Request
    BY DEF IInv, TypeOK
  <2>3. req' = [req EXCEPT ![r] = rec]
    BY <2>1
  <2>4. rec.kind = req[r].kind /\ rec.pc = "opened" /\ rec.sess = c /\ rec.id = req[r].id
        /\ rec.ans = req[r].ans /\ rec.tx = req[r].tx
    BY <2>2 DEF Request
  <2> HIDE DEF rec
  <2>5. Continues(r) /\ req'[r].pc = "opened" /\ req'[r].sess = c /\ req'[r].ans = req[r].ans
    BY <1>1, <2>2, <2>3, <2>4 DEF Continues, Only
  <2>6. req[r].kind \notin Statements \cup Ends /\ Session(r) = None /\ req[r].ans = "none"
        /\ req[r].kind \notin {None, "plain"}
    BY <1>1 DEF Serial, Mine, KindGoes, NamesItsSession, At, IInv, RequestsAreOnTheirWay, OnItsWay
  <2>7. Mine(r)'
    BY <1>1, <2>5, <2>6 DEF Mine, KindGoes, NamesItsSession, RanInside, Undoes, At, Kind, Continues, Session,
       Statements, Execs, Ends
  <2> QED  BY <1>1, <2>1, <2>5, <2>7, StartTxKeepsSerial
<1> QED  BY <1>2, <1>3

-----------------------------------------------------------------------------
(* The steps that end one. *)

\* A transaction that ends was open, and on one connection; the others stay.
LEMMA EndTxIsLocal ==
  ASSUME Serial, IInv, NEW c \in Conns, NEW f \in {"committed", "undone"},
         EndTx(c, f) \/ UNCHANGED <<open, fate>>
  PROVE  /\ \A d \in Conns : open'[d] = open[d] \/ (d = c /\ open'[d] = None)
         /\ EndTx(c, f) => open'[c] = None /\ \A t \in Reqs : t = open[c] => fate'[t] = f
         /\ \A d \in Conns : open'[d] # None => fate'[open[d]] = fate[open[d]]
         /\ \A t \in Reqs : fate[t] \in {"none", "undone"} => fate'[t] = fate[t]
<1>1. \A d \in Conns : open[d] # None =>
        open[d] \in Reqs /\ fate[open[d]] = "open" /\ \A e \in Conns : open[e] = open[d] => e = d
  BY DEF Serial, OpensAreKnown, IInv, TypeOK
<1>2. CASE EndTx(c, f)
  <2>1. open'[c] = None /\ \A d \in Conns : d # c => open'[d] = open[d]
    BY <1>2 DEF EndTx, IInv, TypeOK
  <2>2. \A t \in Reqs : fate'[t] = IF t = open[c] THEN f ELSE fate[t]
    BY <1>2 DEF EndTx
  <2>3. \A t \in Reqs : t = open[c] => fate[t] = "open"
    BY <1>1, NoneAssumption
  <2> QED  BY <1>1, <2>1, <2>2, <2>3
<1>3. CASE UNCHANGED <<open, fate>> /\ ~EndTx(c, f)
  BY <1>3
<1> QED  BY <1>2, <1>3

\* What a running statement does to its own transaction concerns no other request.
LEMMA RunKeepsSerial ==
  ASSUME Serial, IInv, NEW r \in Reqs, Continues(r), At(r, "running"), UNCHANGED sessions,
         NEW f \in {"committed", "undone"}, EndTx(req[r].sess, f) \/ UNCHANGED <<open, fate>>,
         req'[r].sess \in {None, req[r].sess}, req'[r].pc \in {"removing", "done", "ran"},
         Ended(r)' => req'[r].sess = req[r].sess /\ open'[req[r].sess] = None,
         open'[req[r].sess] # open[req[r].sess] => Ended(r)' \/ Excused(req[r].id)', Mine(r)'
  PROVE  Serial'
<1> DEFINE c == req[r].sess
<1>1. c \in Conns /\ c # None /\ req[r].id \in Ids
  BY OthersRun, NoneAssumption DEF At, Without, IInv, RequestsAreOnTheirWay
<1>2. /\ \A d \in Conns : open'[d] = open[d] \/ (d = c /\ open'[d] = None)
      /\ \A d \in Conns : open'[d] # None => fate'[open[d]] = fate[open[d]]
      /\ \A t \in Reqs : fate[t] \in {"none", "undone"} => fate'[t] = fate[t]
  BY <1>1, EndTxIsLocal
<1>3. OneAtATime' /\ NotShared'
  BY OneAtATimeKeeps, QuietNotShared DEF Serial
<1>4. \A q \in Reqs \ {r} : req'[q] = req[q] /\ req[q].sess # c
  BY <1>1 DEF Serial, NotShared, Holds, Continues, Only
<1>5. \A q \in Reqs : req[q].pc \notin Without => req[q].sess \in Conns
  BY OthersRun
<1>6. fate[r] = "none" /\ \A d \in Conns : open[d] # r
  BY NoneAssumption DEF Serial, OpensAreKnown, At
<1> HIDE DEF c
<1>7. OpensAreKnown'
  <2>1. ASSUME NEW d \in Conns, open'[d] # None
        PROVE  /\ fate'[open'[d]] = "open"
               /\ \A e \in Conns : open'[e] = open'[d] => e = d
               /\ \/ req'[open'[d]].pc = "opened" /\ req'[open'[d]].sess = d
                  \/ req'[open'[d]].pc = "done"
                     /\ (req'[open'[d]].ans = "active" => sessions[req'[open'[d]].id] = d)
    <3>1. open'[d] = open[d] /\ open[d] \in Reqs \ {r} /\ open[d] # None
      BY <1>2, <1>6, <2>1 DEF IInv, TypeOK
    <3>2. /\ fate[open[d]] = "open" /\ \A e \in Conns : open[e] = open[d] => e = d
          /\ \/ req[open[d]].pc = "opened" /\ req[open[d]].sess = d
             \/ req[open[d]].pc = "done" /\ (req[open[d]].ans = "active" => sessions[req[open[d]].id] = d)
      BY <3>1 DEF Serial, OpensAreKnown, At, Holds, Session
    <3>3. fate'[open[d]] = "open" /\ req'[open[d]] = req[open[d]]
      BY <1>2, <1>4, <2>1, <3>1, <3>2
    <3>4. \A e \in Conns : open'[e] = open[d] => e = d
      BY <1>2, <3>1, <3>2
    <3> QED  BY <3>1, <3>2, <3>3, <3>4
  <2>2. ASSUME NEW q \in Reqs
        PROVE  /\ fate'[q] # "none" => req'[q].pc \in {"opened", "done"}
               /\ At(q, "opened")' => open'[req'[q].sess] = q
               /\ Ended(q)' => open'[req'[q].sess] = None
    <3>1. CASE q = r
      BY <1>2, <1>6, <3>1 DEF At, c
    <3>2. CASE q # r
      <4>1. req'[q] = req[q] /\ req[q].sess # c
        BY <1>4, <3>2
      <4>2. At(q, "opened") \/ Ended(q) => open'[req[q].sess] = open[req[q].sess]
        BY <1>2, <1>5, <4>1 DEF At, Ended, Without
      <4>3. /\ fate[q] # "none" => req[q].pc \in {"opened", "done"}
            /\ At(q, "opened") => open[req[q].sess] = q
            /\ Ended(q) => open[req[q].sess] = None
        BY DEF Serial, OpensAreKnown
      <4> QED  BY <1>2, <4>1, <4>2, <4>3 DEF At, Ended, Kind
    <3> QED  BY <3>1, <3>2
  <2> QED  BY <2>1, <2>2 DEF OpensAreKnown, At, Holds, Session
<1>8. SessionsAreInside'
  <2> SUFFICES ASSUME NEW i \in Ids, sessions[i] # None, open'[sessions[i]] = None, ~Excused(i)'
               PROVE  \E q \in Reqs : req'[q].id = i /\ Ended(q)'
    BY DEF SessionsAreInside
  <2>1. sessions[i] \in Conns
    BY DEF IInv, TypeOK
  <2>2. CASE open[sessions[i]] = None
    <3>1. PICK q \in Reqs : req[q].id = i /\ Ended(q)
      BY <2>2, ExcusesLast DEF Serial, SessionsAreInside
    <3>2. q # r
      BY <3>1 DEF Ended, At
    <3> QED  BY <3>1, <3>2 DEF Continues, Only, Ended, At, Kind
  <2>3. CASE open[sessions[i]] # None
    <3>1. sessions[i] = c
      BY <1>2, <2>1, <2>3
    <3>2. req[r].id = i
      BY <2>1, <3>1 DEF Serial, NotShared, Holds, c
    <3>3. Excused(req[r].id)' => Excused(i)'
      BY <3>2 DEF Continues, Excused
    <3> QED  BY <2>3, <3>1, <3>2, <3>3 DEF Continues, c
  <2> QED  BY <2>2, <2>3
<1>9. ASSUME NEW q \in Reqs PROVE Mine(q)'
  <2>1. CASE q # r
    <3>1. req'[q] = req[q] /\ Undoes(q) /\ req[q] \in Request
      BY <2>1 DEF Serial, Mine, Continues, Only, IInv, TypeOK
    <3>2. req[q].pc \in {"fetched", "waiting", "running"} => open'[req[q].sess] = open[req[q].sess]
      BY <1>2, <1>4, <1>5, <2>1 DEF Without
    <3>3. req[q].tx # None => req[q].tx \in Reqs
      BY <3>1 DEF Request
    <3>4. Undoes(q)'
      BY <1>2, <3>1, <3>2, <3>3 DEF Undoes, Kind, At
    <3> QED  BY <2>1, <3>4, OthersMine
  <2> QED  BY <2>1
<1> QED  BY <1>3, <1>7, <1>8, <1>9 DEF Serial

LEMMA FailKeepsSerial ==
  ASSUME Serial, IInv, NEW r \in Reqs, Fail(r)
  PROVE  Serial'
<1>1. Busy(r) /\ At(r, "running") /\ UNCHANGED sessions /\ Answer(r, "error")
      /\ (RunSql(r) \/ UNCHANGED <<open, fate>>)
  BY DEF Fail, At, Busy
<1>2. Continues(r) /\ req'[r].pc = "done" /\ req'[r].sess = None /\ req'[r].ans = "error"
  BY <1>1, AnswerGives DEF IInv
<1>3. Mine(r)' /\ ~Ended(r)'
  BY <1>2, ErrorIsMine DEF Ended, At
<1>4. PICK f \in {"committed", "undone"} : EndTx(req[r].sess, f) \/ UNCHANGED <<open, fate>>
  BY <1>1 DEF RunSql
<1>5. ASSUME open'[req[r].sess] # open[req[r].sess] PROVE Excused(req[r].id)'
  <2>1. req[r].kind \in {"commit", "COMMIT", "ddl", "rollback", "ROLLBACK"}
    BY <1>1, <1>5 DEF RunSql, Kind
  <2>2. req'[r].kind \in Ends \cup SqlEnds \cup {"ddl"}
    BY <1>2, <2>1 DEF Continues, Ends, SqlEnds
  <2> QED  BY <1>2, <2>2 DEF Excused, Kind, Continues
<1> QED  BY <1>1, <1>2, <1>3, <1>4, <1>5, RunKeepsSerial

\* A statement that ran outside found the session so, and what ended its transaction is an excuse.
LEMMA CompleteKeepsSerial ==
  ASSUME Serial, IInv, NEW r \in Reqs, Complete(r)
  PROVE  Serial'
<1> DEFINE c   == req[r].sess
           ran == [req[r] EXCEPT !.tx = open[c]]
           rec == IF Kind(r, Ends) THEN [req[r] EXCEPT !.pc = "removing"]
                  ELSE IF Kind(r, {"crud"})
                    THEN [ran EXCEPT !.pc = "done", !.ans = "active", !.sess = None]
                    ELSE [ran EXCEPT !.pc = "ran"]
<1>1. Busy(r) /\ At(r, "running") /\ UNCHANGED sessions /\ RunSql(r) /\ req' = [req EXCEPT ![r] = rec]
  BY DEF Complete, At, Busy
<1>2. req \in [Reqs -> Request] /\ req[r] \in Request /\ Mine(r) /\ c \in Conns /\ open[c] \in Reqs \cup {None}
  BY <1>1, OthersRun DEF Serial, IInv, TypeOK, At, Without
<1>3. PICK f \in {"committed", "undone"} : EndTx(c, f) \/ UNCHANGED <<open, fate>>
  BY <1>1 DEF RunSql
<1>4. rec.kind = req[r].kind /\ rec.id = req[r].id /\ rec.sess \in {None, c}
  BY <1>2 DEF Request
<1>5. Continues(r) /\ req'[r] = rec
  BY <1>1, <1>2, <1>4 DEF Continues, Only
<1>6. \A i : Excused(i) => Excused(i)'
  BY <1>5, ExcusesLast
<1>7. CASE Kind(r, Ends)
  <2>1. rec.pc = "removing" /\ rec.sess = c /\ rec.tx = req[r].tx /\ rec.ans = req[r].ans
    BY <1>2, <1>7 DEF Request
  <2>2. \E g \in {"committed", "undone"} : EndTx(c, g) /\ (req[r].kind = "rollback" => g = "undone")
    BY <1>1, <1>7 DEF RunSql, Kind, Ends
  <2>3. PICK g \in {"committed", "undone"} : EndTx(c, g) /\ (req[r].kind = "rollback" => g = "undone")
    BY <2>2
  <2>4. /\ open'[c] = None /\ \A t \in Reqs : t = open[c] => fate'[t] = g
        /\ \A t \in Reqs : fate[t] = "undone" => fate'[t] = "undone"
    BY <1>2, <2>3, EndTxIsLocal
  <2>5. Ended(r)'
    BY <1>5, <2>1 DEF Ended, At
  <2> HIDE DEF rec, ran
  <2>6. req[r].tx # None => req[r].tx \in Reqs
    BY <1>2 DEF Request
  <2>7. Undoes(r)'
    BY <1>1, <1>2, <1>5, <2>1, <2>3, <2>4, <2>6 DEF Mine, Undoes, Kind, At, Continues
  <2>8. NamesItsSession(r)'
    BY <1>1, <1>2, <1>5, <1>7, <2>1 DEF Mine, NamesItsSession, Kind, At, Continues, Session, Ends, Statements, Execs, SqlEnds
  <2>9. Mine(r)'
    BY <1>1, <1>2, <1>5, <1>7, <2>1, <2>7, <2>8 DEF Mine, KindGoes, RanInside, Kind, At, Continues, Ends
  <2> QED  BY <1>1, <1>3, <1>5, <2>1, <2>4, <2>5, <2>9, RunKeepsSerial
<1>8. ASSUME Kind(r, {"execute", "crud"}), open[c] = None PROVE Excused(req[r].id)
  <2>1. Session(r) = c /\ req[r].id \in Ids
    BY <1>1, <1>2, <1>8 DEF Mine, NamesItsSession, At, Kind, Statements, Execs, IInv, RequestsAreOnTheirWay
  <2>2. c # None
    BY <1>2, NoneAssumption
  <2>3. ~\E q \in Reqs : req[q].id = req[r].id /\ Ended(q)
    BY <1>1 DEF Serial, OneAtATime, Busy, At, Ended
  <2> QED  BY <1>8, <2>1, <2>2, <2>3 DEF Serial, SessionsAreInside, Session
<1>9. CASE Kind(r, {"crud"})
  <2>1. ~Kind(r, Ends) /\ ~Kind(r, {"commit", "COMMIT", "ddl", "rollback", "ROLLBACK"})
    BY <1>9 DEF Kind, Ends
  <2>2. rec.pc = "done" /\ rec.sess = None /\ rec.tx = open[c] /\ rec.ans = "active"
    BY <1>2, <1>9, <2>1 DEF Request
  <2>3. UNCHANGED <<open, fate>> /\ ~Ended(r)'
    BY <1>1, <1>5, <2>1, <2>2 DEF RunSql, Kind, Ended, At
  <2> HIDE DEF rec, ran
  <2>4. RanInside(r)'
    BY <1>5, <1>6, <1>8, <1>9, <2>2 DEF RanInside, Kind, Continues, c
  <2>5. Mine(r)'
    BY <1>2, <1>5, <1>9, <2>2, <2>4, NoneAssumption DEF Mine, KindGoes, NamesItsSession, Undoes, At, Kind, Continues,
       Ends, AllKinds, Statements
  <2> QED  BY <1>1, <1>3, <1>5, <2>2, <2>3, <2>5, RunKeepsSerial
<1>10. CASE ~Kind(r, Ends) /\ ~Kind(r, {"crud"})
  <2>1. rec.pc = "ran" /\ rec.sess = c /\ rec.tx = open[c] /\ rec.ans = req[r].ans
    BY <1>2, <1>10 DEF Request
  <2>2. Ended(r)' => open'[c] = None
    <3>1. Ended(r)' => req[r].kind \in SqlEnds
      BY <1>5, <2>1 DEF Ended, At, Kind, Continues
    <3>2. req[r].kind \in SqlEnds => \E g \in {"committed", "undone"} : EndTx(c, g)
      BY <1>1 DEF SqlEnds, RunSql, Kind
    <3> QED  BY <1>2, <3>1, <3>2, EndTxIsLocal
  <2>3. open'[c] # open[c] => Ended(r)' \/ Excused(req[r].id)'
    <3>1. open'[c] # open[c] => req[r].kind \in SqlEnds \cup {"ddl"}
      BY <1>1, <1>10 DEF RunSql, Kind, Ends, SqlEnds
    <3>2. req[r].kind \in SqlEnds => Ended(r)'
      BY <1>5, <2>1 DEF Ended, At, Kind, Continues
    <3>3. req[r].kind = "ddl" => Excused(req[r].id)'
      BY <1>5 DEF Excused, Kind, Continues
    <3> QED  BY <3>1, <3>2, <3>3
  <2> HIDE DEF rec, ran
  <2>4. RanInside(r)'
    BY <1>5, <1>6, <1>8, <2>1 DEF RanInside, Kind, Continues
  <2>5. Mine(r)'
    <3>1. KindGoes(req[r].kind, "ran") /\ req[r].kind # "rollback"
      BY <1>1, <1>2, <1>10 DEF Mine, KindGoes, Kind, At, Ends
    <3> QED  BY <1>1, <1>2, <1>5, <1>10, <2>1, <2>4, <3>1
             DEF Mine, NamesItsSession, Undoes, At, Kind, Continues, Session, Ends
  <2> QED  BY <1>1, <1>3, <1>5, <2>1, <2>2, <2>3, <2>5, RunKeepsSerial
<1> QED  BY <1>7, <1>9, <1>10

-----------------------------------------------------------------------------
(* The steps that change the map. *)

\* A change of the map under the id of r disturbs the transactions of others no more than the request does.
LEMMA MapStepKeeps ==
  ASSUME Serial, IInv, NEW r \in Reqs, Continues(r), UNCHANGED <<open, fate>>, Mine(r)',
         OpensAreKnown', NotShared', SessionsAreInside',
         \A i \in Ids : i # req[r].id => sessions'[i] = sessions[i]
  PROVE  Serial'
<1>1. ASSUME NEW q \in Reqs \ {r} PROVE Mine(q)'
  <2>1. Undoes(q)'
    BY DEF Serial, Mine, Undoes, Kind, At, Continues, Only
  <2> QED  BY <2>1, OthersMine
<1> QED  BY <1>1, OneAtATimeKeeps DEF Serial

\* The id had no session, so no transaction loses its name; the new one has its own.
LEMMA InsertKeepsSerial ==
  ASSUME Serial, IInv, NEW r \in Reqs, InsertSession(r)
  PROVE  Serial'
<1> DEFINE c == req[r].sess
           i == req[r].id
<1>1. Busy(r) /\ At(r, "opened") /\ UNCHANGED <<open, fate>> /\ Answer(r, "active")
      /\ sessions' = [sessions EXCEPT ![i] = c]
  BY DEF InsertSession, At, Busy
<1>2. Continues(r) /\ req'[r].pc = "done" /\ req'[r].sess = None /\ req'[r].ans = "active"
  BY <1>1, AnswerGives DEF IInv
<1>3. c \in Conns /\ c # None /\ i \in Ids
  BY <1>1, OthersRun, NoneAssumption DEF At, Without, IInv, RequestsAreOnTheirWay
<1>4. sessions'[i] = c /\ \A j \in Ids : j # i => sessions'[j] = sessions[j]
  BY <1>1, <1>3 DEF IInv, TypeOK
<1>5. sessions[i] = None /\ open[c] = r /\ Mine(r)
  BY <1>1 DEF Serial, Mine, NamesItsSession, At, Session, OpensAreKnown
<1>6. /\ \A d \in Conns, j, k \in Ids : sessions[j] = d /\ sessions[k] = d => j = k
      /\ \A d \in Conns, q \in Reqs, j \in Ids : req[q].sess = d /\ sessions[j] = d => req[q].id = j
      /\ \A d \in Conns, q, p \in Reqs : req[q].sess = d /\ req[p].sess = d => q = p
  BY DEF Serial, NotShared, Holds
<1> HIDE DEF c, i
<1>7. \A j \in Ids : sessions[j] # c
  BY <1>3, <1>5, <1>6 DEF c, i
<1>8. \A q \in Reqs \ {r} : req'[q] = req[q] /\ req[q].sess # c
  BY <1>2, <1>3, <1>6 DEF Continues, Only, c
<1>9. NotShared'
  <2>1. \A d \in Conns, j, k \in Ids : sessions'[j] = d /\ sessions'[k] = d => j = k
    BY <1>4, <1>6, <1>7
  <2>2. \A d \in Conns, q \in Reqs, j \in Ids : req'[q].sess = d /\ sessions'[j] = d => req'[q].id = j
    BY <1>2, <1>4, <1>6, <1>8, NoneAssumption
  <2>3. \A d \in Conns, q, p \in Reqs : req'[q].sess = d /\ req'[p].sess = d => q = p
    BY <1>2, <1>6, <1>8, NoneAssumption
  <2> QED  BY <2>1, <2>2, <2>3 DEF NotShared, Holds
<1>10. OpensAreKnown'
  <2>1. ASSUME NEW d \in Conns, open[d] # None
        PROVE  /\ fate[open[d]] = "open"
               /\ \A e \in Conns : open[e] = open[d] => e = d
               /\ \/ req'[open[d]].pc = "opened" /\ req'[open[d]].sess = d
                  \/ req'[open[d]].pc = "done"
                     /\ (req'[open[d]].ans = "active" => sessions'[req'[open[d]].id] = d)
    <3>1. open[d] \in Reqs /\ d # None
      BY <2>1, NoneAssumption DEF IInv, TypeOK
    <3>2. /\ fate[open[d]] = "open" /\ \A e \in Conns : open[e] = open[d] => e = d
          /\ \/ req[open[d]].pc = "opened" /\ req[open[d]].sess = d
             \/ req[open[d]].pc = "done" /\ (req[open[d]].ans = "active" => sessions[req[open[d]].id] = d)
      BY <2>1 DEF Serial, OpensAreKnown, At, Holds, Session
    <3>3. CASE open[d] = r
      <4>1. d = c
        BY <1>3, <1>5, <3>2, <3>3
      <4> QED  BY <1>2, <1>4, <3>2, <3>3, <4>1 DEF Continues, i
    <3>4. CASE open[d] # r
      <4>1. req'[open[d]] = req[open[d]]
        BY <1>8, <3>1, <3>4
      <4>2. req[open[d]].pc = "done" => req[open[d]].id \in Ids
        BY <3>1 DEF IInv, RequestsAreOnTheirWay
      <4>3. req[open[d]].pc = "done" /\ req[open[d]].ans = "active" => sessions'[req[open[d]].id] = d
        BY <1>4, <1>5, <3>1, <3>2, <4>2
      <4> QED  BY <3>2, <4>1, <4>3
    <3> QED  BY <3>3, <3>4
  <2>2. ASSUME NEW q \in Reqs
        PROVE  /\ fate[q] # "none" => req'[q].pc \in {"opened", "done"}
               /\ req'[q].pc = "opened" => open[req'[q].sess] = q
               /\ Ended(q)' => open[req'[q].sess] = None
    <3>1. CASE q = r
      BY <1>2, <3>1 DEF Ended, At
    <3>2. CASE q # r
      BY <1>8, <3>2 DEF Serial, OpensAreKnown, At, Ended, Kind
    <3> QED  BY <3>1, <3>2
  <2> QED  BY <1>1, <2>1, <2>2 DEF OpensAreKnown, At, Holds, Session
<1>11. SessionsAreInside'
  <2> SUFFICES ASSUME NEW j \in Ids, sessions'[j] # None, open[sessions'[j]] = None, ~Excused(j)'
               PROVE  \E q \in Reqs : req'[q].id = j /\ Ended(q)'
    BY <1>1 DEF SessionsAreInside
  <2>1. j # i
    BY <1>4, <1>5, NoneAssumption
  <2>2. PICK q \in Reqs : req[q].id = j /\ Ended(q)
    BY <1>2, <1>4, <2>1, ExcusesLast DEF Serial, SessionsAreInside
  <2>3. q # r
    BY <2>1, <2>2 DEF i
  <2> QED  BY <1>8, <2>2, <2>3 DEF Ended, At, Kind
<1>12. Mine(r)'
  <2>1. req[r].kind \notin Statements \cup Ends /\ req[r].kind \notin {None, "plain"}
    BY <1>1, <1>5 DEF Mine, KindGoes, At, IInv, RequestsAreOnTheirWay, OnItsWay
  <2> QED  BY <1>2, <2>1 DEF Mine, KindGoes, NamesItsSession, RanInside, Undoes, At, Kind, Continues, Statements,
           Execs, Ends
<1> QED  BY <1>1, <1>2, <1>4, <1>9, <1>10, <1>11, <1>12, MapStepKeeps DEF i

\* What the id still names is the session whose transaction r has ended, if anything.
LEMMA RemoveKeepsSerial ==
  ASSUME Serial, IInv, NEW r \in Reqs, RemoveSession(r)
  PROVE  Serial'
<1> DEFINE c == req[r].sess
           i == req[r].id
<1>1. Busy(r) /\ At(r, "removing") /\ UNCHANGED <<open, fate>> /\ sessions' = [sessions EXCEPT ![i] = None]
  BY DEF RemoveSession, At, Busy
<1>2. /\ Continues(r) /\ req'[r].sess \in {None, c} /\ req'[r].tx = req[r].tx
      /\ \/ Kind(r, Ends) /\ req'[r].pc = "done" /\ req'[r].ans = "idle"
         \/ ~Kind(r, Ends) /\ req'[r].pc = "replying" /\ req'[r].ans = req[r].ans
  <2>1. CASE Kind(r, Ends)
    <3>1. Answer(r, "idle")
      BY <2>1 DEF RemoveSession
    <3> QED  BY <1>1, <2>1, <3>1, AnswerGives DEF IInv
  <2>2. CASE ~Kind(r, Ends)
    <3>1. Goes(r, "replying")
      BY <2>2 DEF RemoveSession
    <3> QED  BY <1>1, <2>2, <3>1, GoesGives DEF IInv
  <2> QED  BY <2>1, <2>2
<1>3. i \in Ids /\ Mine(r) /\ open[c] = None
  BY <1>1 DEF Serial, OpensAreKnown, At, Ended, IInv, RequestsAreOnTheirWay
<1>4. sessions[i] \in {None, c}
  BY <1>1, <1>3 DEF Mine, KindGoes, NamesItsSession, At, Session, Kind, Statements, Execs
<1>5. sessions'[i] = None /\ \A j \in Ids : j # i => sessions'[j] = sessions[j]
  BY <1>1, <1>3 DEF IInv, TypeOK
<1> HIDE DEF c, i
<1>6. \A q \in Reqs \ {r} : req'[q] = req[q]
  BY <1>2 DEF Continues, Only
<1>7. NotShared'
  <2>1. \A q \in Reqs : req'[q].id = req[q].id /\ req'[q].sess \in {None, req[q].sess}
    BY <1>2, <1>6 DEF Continues, c
  <2> QED  BY <1>5, <2>1, NoneAssumption DEF Serial, NotShared, Holds
<1>8. OpensAreKnown'
  <2>1. ASSUME NEW d \in Conns, open[d] # None
        PROVE  /\ fate[open[d]] = "open"
               /\ \A e \in Conns : open[e] = open[d] => e = d
               /\ \/ req'[open[d]].pc = "opened" /\ req'[open[d]].sess = d
                  \/ req'[open[d]].pc = "done"
                     /\ (req'[open[d]].ans = "active" => sessions'[req'[open[d]].id] = d)
    <3>1. open[d] \in Reqs /\ d # None
      BY <2>1, NoneAssumption DEF IInv, TypeOK
    <3>2. /\ fate[open[d]] = "open" /\ \A e \in Conns : open[e] = open[d] => e = d
          /\ \/ req[open[d]].pc = "opened" /\ req[open[d]].sess = d
             \/ req[open[d]].pc = "done" /\ (req[open[d]].ans = "active" => sessions[req[open[d]].id] = d)
      BY <2>1 DEF Serial, OpensAreKnown, At, Holds, Session
    <3>3. req'[open[d]] = req[open[d]]
      BY <1>1, <1>6, <3>1, <3>2 DEF At
    <3>4. req[open[d]].pc = "done" => req[open[d]].id \in Ids
      BY <3>1 DEF IInv, RequestsAreOnTheirWay
    <3>5. req[open[d]].pc = "done" /\ req[open[d]].ans = "active" => sessions'[req[open[d]].id] = d
      BY <1>3, <1>4, <1>5, <2>1, <3>1, <3>2, <3>4
    <3> QED  BY <3>2, <3>3, <3>5
  <2>2. ASSUME NEW q \in Reqs
        PROVE  /\ fate[q] # "none" => req'[q].pc \in {"opened", "done"}
               /\ req'[q].pc = "opened" => open[req'[q].sess] = q
               /\ Ended(q)' => open[req'[q].sess] = None
    <3>1. CASE q = r
      BY <1>1, <1>2, <3>1 DEF Ended, At, Serial, OpensAreKnown
    <3>2. CASE q # r
      BY <1>6, <3>2 DEF Serial, OpensAreKnown, At, Ended, Kind
    <3> QED  BY <3>1, <3>2
  <2> QED  BY <1>1, <2>1, <2>2 DEF OpensAreKnown, At, Holds, Session
<1>9. SessionsAreInside'
  <2> SUFFICES ASSUME NEW j \in Ids, sessions'[j] # None, open[sessions'[j]] = None, ~Excused(j)'
               PROVE  \E q \in Reqs : req'[q].id = j /\ Ended(q)'
    BY <1>1 DEF SessionsAreInside
  <2>1. j # i
    BY <1>5
  <2>2. PICK q \in Reqs : req[q].id = j /\ Ended(q)
    BY <1>2, <1>5, <2>1, ExcusesLast DEF Serial, SessionsAreInside
  <2>3. q # r
    BY <2>1, <2>2 DEF i
  <2> QED  BY <1>6, <2>2, <2>3 DEF Ended, At, Kind
<1>10. Mine(r)'
  <2>1. req[r].kind \in Ends \cup SqlEnds /\ (req[r].kind = "rollback" => req[r].kind \in Ends)
    BY <1>1, <1>3 DEF Mine, KindGoes, At, Ends
  <2> QED  BY <1>1, <1>2, <1>3, <2>1, NoneAssumption DEF Mine, KindGoes, NamesItsSession, RanInside, Undoes, At, Kind,
           Continues, Ends, SqlEnds, AllKinds, Statements, Execs
<1> QED  BY <1>1, <1>2, <1>5, <1>7, <1>8, <1>9, <1>10, MapStepKeeps DEF i

\* The sweep removes a session that no statement holds; an end that has fetched it finds its transaction undone.
LEMMA SweepOneKeepsSerial ==
  ASSUME Serial, IInv, NoneOutwaits, NEW i \in Ids, SweepOne(i)
  PROVE  Serial'
<1> DEFINE c == sessions[i]
<1>1. req' = req /\ EndTx(c, "undone") /\ sessions' = [sessions EXCEPT ![i] = None] /\ i \in sweep
  BY DEF SweepOne
<1>2. c \in Conns /\ c # None
  BY <1>1, NoneAssumption DEF IInv, TypeOK, SweepIsAlone
<1>3. /\ \A d \in Conns : open'[d] = open[d] \/ (d = c /\ open'[d] = None)
      /\ open'[c] = None /\ \A t \in Reqs : t = open[c] => fate'[t] = "undone"
      /\ \A d \in Conns : open'[d] # None => fate'[open[d]] = fate[open[d]]
      /\ \A t \in Reqs : fate[t] \in {"none", "undone"} => fate'[t] = fate[t]
  BY <1>1, <1>2, EndTxIsLocal
<1>4. sessions'[i] = None /\ \A j \in Ids : j # i => sessions'[j] = sessions[j]
  BY <1>1 DEF IInv, TypeOK
<1>5. \A q \in Reqs : req[q].pc \notin Without => req[q].sess \in Conns /\ req[q].id \in Ids
  BY OthersRun DEF IInv, RequestsAreOnTheirWay, Without
<1>6. /\ \A j \in Ids : sessions[j] = c => j = i
      /\ \A q \in Reqs : req[q].sess = c => req[q].id = i
  BY <1>2 DEF Serial, NotShared, Holds
<1>7. OneAtATime'
  BY <1>1 DEF Serial, OneAtATime, Busy
<1>8. NotShared'
  BY <1>1, <1>4, NoneAssumption DEF Serial, NotShared, Holds
<1> HIDE DEF c
<1>9. OpensAreKnown'
  <2>1. ASSUME NEW d \in Conns, open'[d] # None
        PROVE  /\ fate'[open'[d]] = "open"
               /\ \A e \in Conns : open'[e] = open'[d] => e = d
               /\ \/ req[open'[d]].pc = "opened" /\ req[open'[d]].sess = d
                  \/ req[open'[d]].pc = "done"
                     /\ (req[open'[d]].ans = "active" => sessions'[req[open'[d]].id] = d)
    <3>1. open'[d] = open[d] /\ open[d] \in Reqs /\ open[d] # None /\ d # None /\ d # c
      BY <1>3, <2>1, NoneAssumption DEF IInv, TypeOK
    <3>2. /\ fate[open[d]] = "open" /\ \A e \in Conns : open[e] = open[d] => e = d
          /\ \/ req[open[d]].pc = "opened" /\ req[open[d]].sess = d
             \/ req[open[d]].pc = "done" /\ (req[open[d]].ans = "active" => sessions[req[open[d]].id] = d)
      BY <3>1 DEF Serial, OpensAreKnown, At, Holds, Session
    <3>3. fate'[open[d]] = "open" /\ \A e \in Conns : open'[e] = open[d] => e = d
      BY <1>3, <2>1, <3>1, <3>2
    <3>4. req[open[d]].pc = "done" => req[open[d]].id \in Ids
      BY <3>1 DEF IInv, RequestsAreOnTheirWay
    <3>5. req[open[d]].pc = "done" /\ req[open[d]].ans = "active" => sessions'[req[open[d]].id] = d
      BY <1>4, <3>1, <3>2, <3>4 DEF c
    <3> QED  BY <3>1, <3>2, <3>3, <3>5
  <2>2. ASSUME NEW q \in Reqs
        PROVE  /\ fate'[q] # "none" => req[q].pc \in {"opened", "done"}
               /\ At(q, "opened") => open'[req[q].sess] = q
               /\ Ended(q) => open'[req[q].sess] = None
    <3>1. At(q, "opened") => req[q].sess # c
      <4>1. At(q, "opened") => sessions[req[q].id] = None
        BY DEF Serial, Mine, NamesItsSession, At, Session
      <4> QED  BY <1>2, <1>6, <4>1 DEF c
    <3>2. /\ fate[q] # "none" => req[q].pc \in {"opened", "done"}
          /\ At(q, "opened") => open[req[q].sess] = q
          /\ Ended(q) => open[req[q].sess] = None
      BY DEF Serial, OpensAreKnown
    <3> QED  BY <1>3, <1>5, <3>1, <3>2 DEF At, Ended, Without
  <2> QED  BY <1>1, <2>1, <2>2 DEF OpensAreKnown, At, Holds, Session, Ended, Kind
<1>10. SessionsAreInside'
  <2> SUFFICES ASSUME NEW j \in Ids, sessions'[j] # None, open'[sessions'[j]] = None, ~Excused(j)
               PROVE  \E q \in Reqs : req[q].id = j /\ Ended(q)
    BY <1>1 DEF SessionsAreInside, Excused, Ended, At, Kind
  <2>1. sessions[j] # None /\ sessions[j] # c /\ sessions[j] \in Conns /\ sessions'[j] = sessions[j]
    BY <1>4, <1>6 DEF IInv, TypeOK
  <2>2. open[sessions[j]] = None
    BY <1>3, <2>1
  <2> QED  BY <2>1, <2>2 DEF Serial, SessionsAreInside
<1>11. ASSUME NEW q \in Reqs PROVE Mine(q)'
  <2>1. req'[q] = req[q] /\ Mine(q) /\ req[q] \in Request
    BY <1>1 DEF Serial, IInv, TypeOK
  <2>2. NamesItsSession(q)'
    <3>1. CASE req[q].id = i /\ Kind(q, Statements)
      <4>1. req[q].pc \notin Leaving => req[q].sess # c
        BY <1>1, <3>1 DEF IInv, SweepIsAlone, NoneOutwaits, Uses, Holds, c
      <4>2. req[q].kind \notin Ends
        BY <3>1, KindsDiffer DEF Kind
      <4> QED  BY <1>4, <2>1, <3>1, <4>1, <4>2 DEF Mine, NamesItsSession, Kind, Session, Leaving, At, c
    <3>2. CASE req[q].id = i /\ ~Kind(q, Statements)
      BY <1>4, <2>1, <3>2 DEF NamesItsSession, Kind, Session, At
    <3>3. CASE req[q].id # i
      <4>1. req[q].pc # "idle" => sessions'[req[q].id] = sessions[req[q].id]
        BY <1>4, <3>3 DEF IInv, RequestsAreOnTheirWay
      <4> QED  BY <2>1, <4>1 DEF Mine, NamesItsSession, Kind, Session, At
    <3> QED  BY <3>1, <3>2, <3>3
  <2>3. RanInside(q)'
    BY <1>1, <2>1 DEF Mine, RanInside, Excused, Kind
  <2>4. Undoes(q)'
    <3>1. req[q].tx # None => req[q].tx \in Reqs
      BY <2>1 DEF Request
    <3>2. req[q].pc \in {"fetched", "waiting", "running"} => req[q].sess \in Conns
      BY <1>5 DEF Without
    <3> QED  BY <1>3, <2>1, <3>1, <3>2 DEF Mine, Undoes, Kind, At
  <2> QED  BY <2>1, <2>2, <2>3, <2>4 DEF Mine, At
<1> QED  BY <1>7, <1>8, <1>9, <1>10, <1>11 DEF Serial

\* A statement waits at its first lock only for another that runs on its session, and there is none.
LEMMA AgeMarksNobody ==
  ASSUME Serial, IInv, NEW c \in Conns, Age(c)
  PROVE  req' = req
<1>1. ASSUME NEW r \in Reqs, At(r, "peeking"), Holds(r, c)
      PROVE  FALSE
  <2>1. MayTakeLong(r) /\ req[r].kind \in Execs /\ req[r].kind \notin Ends \cup {"crud"}
    BY <1>1, KindsDiffer DEF Age, IInv, RequestsAreOnTheirWay, OnItsWay, Peekers, At
  <2>2. lock[c] # None
    BY <1>1, <2>1 DEF MayTakeLong, Kind, At, Holds, Free
  <2>3. lock[c] \in Reqs /\ At(lock[c], "running") /\ Holds(lock[c], c)
    BY <2>2 DEF IInv, TypeOK, RunnersHaveTheLock
  <2>4. lock[c] = r
    BY <1>1, <2>3 DEF Serial, NotShared
  <2> QED  BY <1>1, <2>3, <2>4 DEF At
<1>2. /\ req \in [Reqs -> Request] /\ req' = [r \in Reqs |->
           [req[r] EXCEPT !.outwaited = @ \/ (At(r, "peeking") /\ Holds(r, c))]]
  BY DEF Age, IInv, TypeOK
<1>3. \A r \in Reqs : [req[r] EXCEPT !.outwaited = @ \/ (At(r, "peeking") /\ Holds(r, c))] = req[r]
  <2> SUFFICES ASSUME NEW r \in Reqs
               PROVE  [req[r] EXCEPT !.outwaited = @ \/ (At(r, "peeking") /\ Holds(r, c))] = req[r]
    OBVIOUS
  <2>1. req[r] \in Request /\ ~(At(r, "peeking") /\ Holds(r, c))
    BY <1>1, <1>2
  <2>2. (req[r].outwaited \/ (At(r, "peeking") /\ Holds(r, c))) = req[r].outwaited
    BY <2>1 DEF Request
  <2>3. [req[r] EXCEPT !.outwaited = req[r].outwaited] = req[r]
    BY <2>1 DEF Request
  <2> QED  BY <2>2, <2>3
<1> QED  BY <1>2, <1>3

\* Only time marks a request.
LEMMA StepMarksNobody ==
  ASSUME TypeOK, NEW r \in Reqs, Step(r) \/ \E k \in Kinds, i \in Ids : Arrive(r, k, i)
  PROVE  \A q \in Reqs : req'[q].outwaited = req[q].outwaited
<1>1. req \in [Reqs -> Request] /\ req[r] \in Request
  BY DEF TypeOK
<1>2. ASSUME NEW rec, req' = [req EXCEPT ![r] = rec], rec.outwaited = req[r].outwaited
      PROVE  \A q \in Reqs : req'[q].outwaited = req[q].outwaited
  BY <1>1, <1>2
<1>3. CASE \E a : Answer(r, a)
  <2>1. PICK a : req' = [req EXCEPT ![r] = [req[r] EXCEPT !.pc = "done", !.ans = a, !.sess = None]]
    BY <1>3 DEF Answer
  <2>2. [req[r] EXCEPT !.pc = "done", !.ans = a, !.sess = None].outwaited = req[r].outwaited
    BY <1>1 DEF Request
  <2> QED  BY <1>2, <2>1, <2>2
<1>4. CASE \E p : Goes(r, p)
  <2>1. PICK p : req' = [req EXCEPT ![r] = [req[r] EXCEPT !.pc = p]]
    BY <1>4 DEF Goes
  <2>2. [req[r] EXCEPT !.pc = p].outwaited = req[r].outwaited
    BY <1>1 DEF Request
  <2> QED  BY <1>2, <2>1, <2>2
<1>5. CASE Find(r)
  <2>1. req' = [req EXCEPT ![r] = [req[r] EXCEPT !.pc = "touching", !.sess = Session(r)]]
    BY <1>5 DEF Find
  <2>2. [req[r] EXCEPT !.pc = "touching", !.sess = Session(r)].outwaited = req[r].outwaited
    BY <1>1 DEF Request
  <2> QED  BY <1>2, <2>1, <2>2
<1>6. CASE StartTransaction(r)
  <2>1. PICK c : req' = [req EXCEPT ![r] = [req[r] EXCEPT !.pc = "opened", !.sess = c]]
    BY <1>6 DEF StartTransaction
  <2>2. [req[r] EXCEPT !.pc = "opened", !.sess = c].outwaited = req[r].outwaited
    BY <1>1 DEF Request
  <2> QED  BY <1>2, <2>1, <2>2
<1>7. CASE Fetch(r)
  <2>1. PICK s, t : req' = [req EXCEPT ![r] = [req[r] EXCEPT !.pc = "fetched", !.sess = s, !.tx = t]]
    BY <1>7 DEF Fetch
  <2>2. [req[r] EXCEPT !.pc = "fetched", !.sess = s, !.tx = t].outwaited = req[r].outwaited
    BY <1>1 DEF Request
  <2> QED  BY <1>2, <2>1, <2>2
<1>8. CASE Complete(r)
  <2>1. PICK t : req' = [req EXCEPT ![r] =
          IF Kind(r, Ends) THEN [req[r] EXCEPT !.pc = "removing"]
          ELSE IF Kind(r, {"crud"})
            THEN [[req[r] EXCEPT !.tx = t] EXCEPT !.pc = "done", !.ans = "active", !.sess = None]
            ELSE [[req[r] EXCEPT !.tx = t] EXCEPT !.pc = "ran"]]
    BY <1>8 DEF Complete
  <2> DEFINE rec ==
          IF Kind(r, Ends) THEN [req[r] EXCEPT !.pc = "removing"]
          ELSE IF Kind(r, {"crud"})
            THEN [[req[r] EXCEPT !.tx = t] EXCEPT !.pc = "done", !.ans = "active", !.sess = None]
            ELSE [[req[r] EXCEPT !.tx = t] EXCEPT !.pc = "ran"]
  <2>2. rec.outwaited = req[r].outwaited
    BY <1>1 DEF Request
  <2>3. req' = [req EXCEPT ![r] = rec]
    BY <2>1
  <2> HIDE DEF rec
  <2> QED  BY <1>2, <2>2, <2>3
<1>9. CASE PoolStatement(r)
  <2>1. PICK t : req' = [req EXCEPT ![r] = [req[r] EXCEPT !.pc = "done", !.ans = "plain", !.tx = t]]
    BY <1>9 DEF PoolStatement
  <2>2. [req[r] EXCEPT !.pc = "done", !.ans = "plain", !.tx = t].outwaited = req[r].outwaited
    BY <1>1 DEF Request
  <2> QED  BY <1>2, <2>1, <2>2
<1>10. CASE \E k \in Kinds, i \in Ids : Arrive(r, k, i)
  <2>0. PICK k \in Kinds, i \in Ids : Arrive(r, k, i)
    BY <1>10
  <2>1. req' = [req EXCEPT ![r] = [req[r] EXCEPT !.kind = k, !.id = i, !.pc = "arrived"]]
    BY <2>0 DEF Arrive
  <2>2. [req[r] EXCEPT !.kind = k, !.id = i, !.pc = "arrived"].outwaited = req[r].outwaited
    BY <1>1 DEF Request
  <2> QED  BY <1>2, <2>1, <2>2
<1>11. ASSUME Step(r)
       PROVE  \/ \E a : Answer(r, a)
              \/ \E p : Goes(r, p)
              \/ Find(r) \/ StartTransaction(r) \/ Fetch(r) \/ Complete(r) \/ PoolStatement(r)
  BY <1>11 DEF Step, Refuse, NotFound, Touch, Peek, Register, BeginMisses, StartFails, InsertSession, CheckDb,
     Acquire, Fail, LockTimeout, TouchAfter, RemoveSession, Reply
<1> QED  BY <1>3, <1>4, <1>5, <1>6, <1>7, <1>8, <1>9, <1>10, <1>11

LEMMA NextOutwaitsNone ==
  ASSUME IInv, Serial, NoneOutwaits, [Next]_vars
  PROVE  NoneOutwaits'
<1>1. ASSUME NEW r \in Reqs, Step(r) \/ \E k \in Kinds, i \in Ids : Arrive(r, k, i)
      PROVE  NoneOutwaits'
  BY <1>1, StepMarksNobody DEF IInv, NoneOutwaits
<1>2. ASSUME req' = req PROVE NoneOutwaits'
  BY <1>2 DEF NoneOutwaits
<1>3. CASE Sweep \/ UNCHANGED vars
  BY <1>2, <1>3 DEF Sweep, SweepStarts, SweepOne, vars
<1>4. CASE \E c \in Conns : Age(c)
  BY <1>2, <1>4, AgeMarksNobody
<1> QED  BY <1>1, <1>3, <1>4 DEF Next

LEMMA NextKeepsSerial ==
  ASSUME ~Overlap, IInv, Serial, NoneOutwaits, [Next]_vars
  PROVE  Serial'
<1>1. ASSUME NEW r \in Reqs, Step(r) PROVE Serial'
  <2>1. CASE Refuse(r) \/ NotFound(r) \/ LockTimeout(r)
    BY <2>1, ErrorKeepsSerial
  <2>2. CASE Find(r) \/ Touch(r) \/ Peek(r) \/ Register(r) \/ BeginMisses(r) \/ Fetch(r) \/ CheckDb(r) \/ Acquire(r)
    BY <2>2, FindKeepsSerial, TouchKeepsSerial, PeekKeepsSerial, BeginMissesKeepsSerial, FetchKeepsSerial,
       CheckDbKeepsSerial, AcquireKeepsSerial
  <2>3. CASE StartTransaction(r) \/ StartFails(r) \/ InsertSession(r) \/ Complete(r) \/ Fail(r)
    BY <2>3, StartKeepsSerial, InsertKeepsSerial, CompleteKeepsSerial, FailKeepsSerial
  <2>4. CASE TouchAfter(r) \/ RemoveSession(r) \/ Reply(r) \/ PoolStatement(r)
    BY <2>4, TouchAfterKeepsSerial, RemoveKeepsSerial, ReplyKeepsSerial, PoolStatementKeepsSerial
  <2> QED  BY <1>1, <2>1, <2>2, <2>3, <2>4 DEF Step
<1>2. ASSUME UNCHANGED <<req, sessions, open, fate>> PROVE Serial'
  BY <1>2 DEF Serial, OneAtATime, Busy, NotShared, Holds, OpensAreKnown, SessionsAreInside, Excused, Ended, Mine,
     NamesItsSession, RanInside, Undoes, At, Kind, Session
<1>3. CASE SweepStarts \/ UNCHANGED vars
  BY <1>2, <1>3 DEF SweepStarts, vars
<1>4. ASSUME NEW c \in Conns, Age(c) PROVE Serial'
  BY <1>2, <1>4, AgeMarksNobody DEF Age
<1> QED  BY <1>1, <1>3, <1>4, ArriveKeepsSerial, SweepOneKeepsSerial DEF Next, Sweep

LEMMA AlwaysSerial ==
  ASSUME ~Overlap
  PROVE  Spec => []Serial
<1>1. IInv /\ Serial /\ NoneOutwaits /\ [Next]_vars => Serial' /\ NoneOutwaits'
  BY NextKeepsSerial, NextOutwaitsNone
<1> QED  BY <1>1, InitSerial, AlwaysIInv, PTL DEF Spec

(* When clients wait for their answers, a transaction whose begin was answered stays reachable under  *)
(* its id as long as it is open (main.rs get_or_open_transaction_session, execute_transaction).       *)
THEOREM OpenStaysReachable ==
  ASSUME ~Overlap
  PROVE  Spec => []Reachable
<1>1. IInv /\ Serial => Reachable
  BY DEF IInv, TypeOK, Serial, OpensAreKnown, Mine, Reachable, At, Session
<1> QED  BY <1>1, AlwaysIInv, AlwaysSerial, PTL

(* When clients wait for their answers, a statement answered "active" ran inside a transaction,      *)
(* unless the database had ended it unseen; the sweep is no such reason (perf.rs execute_sql).        *)
THEOREM ActiveRunsInside ==
  ASSUME ~Overlap
  PROVE  Spec => []ActiveIsInside
<1>1. Serial => ActiveIsInside
  BY DEF Serial, Mine, RanInside, ActiveIsInside, Excused, Kind
<1> QED  BY <1>1, AlwaysSerial, PTL

(* When clients wait for their answers, a rollback answered "idle" undid the transaction it was      *)
(* asked to undo, even if the sweep came in between (main.rs execute_transaction and the sweep).      *)
THEOREM RollbackUndoes ==
  ASSUME ~Overlap
  PROVE  Spec => []RollbackMeansUndone
<1>1. Serial => RollbackMeansUndone
  BY DEF Serial, Mine, Undoes, RollbackMeansUndone, Kind
<1> QED  BY <1>1, AlwaysSerial, PTL
=============================================================================
