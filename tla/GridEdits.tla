----------------------------- MODULE GridEdits ------------------------------
(***************************************************************************)
(* The pending changes of the table grid (web-ui DataTable/index.tsx): edits *)
(* and deletes keyed by the index of a row on the page, drafts of new rows, *)
(* the save that sends them one request at a time, and the recovery of the  *)
(* changes whose row was no longer found.  A row has a key and one value,   *)
(* and the user edits the value.  The key is a column of a table with a      *)
(* primary key; of one without, the columns show a part of it only, so that  *)
(* rows can be alike.  Validation is GridValues, the paging that replaces    *)
(* the page under the edits is TablePages.                                   *)
(***************************************************************************)
EXTENDS Integers, SequencesExt, Ranks

CONSTANTS GridKeys,    \* values of the key column, integers
          DraftKeys,   \* the keys the user gives to drafts
          MaxEdits,    \* bound on the changes the user makes
          MaxReloads,  \* bound on the reloads of the page
          MaxOthers    \* bound on the writes of other sessions

Values == 1..2

VARIABLES gdServer,    \* the rows of the table: key -> value, 0 when absent
          gdPk,        \* the table has a primary key
          gdData, gdRev, gdLoading,   \* data, dataRevision, isRefreshing
          gdMod, gdDel, gdNew,        \* modifiedRows, deletedRowIdxs, newRows
          gdModal,     \* showSaveReviewModal
          gdSave,      \* the running confirmSave: what is left to send, its copies of the pending sets
          gdReport,    \* the failures of saveAttemptReport
          gdRecovery,  \* the items of pendingStaleRecovery
          gdEdits, gdOthers,
          gdSpliced,   \* a draft was deleted by hand under the report
          gdMoved      \* the page was replaced by other rows under pending changes

gdVars == <<gdServer, gdPk, gdData, gdRev, gdLoading, gdMod, gdDel, gdNew, gdModal, gdSave,
            gdReport, gdRecovery, gdEdits, gdOthers, gdSpliced, gdMoved>>

pending == <<gdMod, gdDel, gdNew>>
page    == <<gdServer, gdPk, gdData, gdRev>>
dialog  == <<gdModal, gdSave, gdReport, gdRecovery>>
ghosts  == <<gdEdits, gdOthers, gdSpliced, gdMoved>>

(* What the columns that the user does not edit show of a row. *)
Shown(k) == IF gdPk THEN k ELSE k \div 2

(* get_table_data: the rows in an order of their own. *)
Page(server) ==
    LET keys == InOrder({k \in GridKeys : server[k] # 0})
    IN  [i \in DOMAIN keys |-> [k |-> keys[i], v |-> server[keys[i]], of |-> keys[i]]]

(* A row is compared by its columns; of, the row a change was made on, is a mark of the model. *)
Same(a, b) == Shown(a.k) = Shown(b.k) /\ a.v = b.v

NoSave == [on |-> FALSE]

Init ==
    /\ gdPk \in BOOLEAN
    /\ gdServer = [k \in GridKeys |-> IF k % 2 = 1 THEN 1 ELSE IF gdPk THEN 0 ELSE 3]
    /\ gdData = Page(gdServer) /\ gdRev = 0 /\ gdLoading = FALSE
    /\ gdMod = <<>> /\ gdDel = {} /\ gdNew = <<>>
    /\ gdModal = FALSE /\ gdSave = NoSave /\ gdReport = {} /\ gdRecovery = {}
    /\ gdEdits = 0 /\ gdOthers = 0 /\ gdSpliced = FALSE /\ gdMoved = FALSE

-----------------------------------------------------------------------------
(* The user edits: the review modal covers the grid. *)

UserEdits == ~gdModal /\ gdEdits < MaxEdits /\ gdEdits' = gdEdits + 1

WithoutRow(mod, i) == Restrict(mod, DOMAIN mod \ {i})
WithRow(mod, i, row) == [j \in DOMAIN mod \cup {i} |-> IF j = i THEN row ELSE mod[j]]

(* handleCellChange of a row of the page: an edit that undoes itself is no change. *)
EditCell(i, v) ==
    LET row == IF i \in DOMAIN gdMod THEN gdMod[i] ELSE gdData[i]
    IN  /\ UserEdits
        /\ gdMod' = IF Same(gdData[i], [row EXCEPT !.v = v]) THEN WithoutRow(gdMod, i)
                    ELSE WithRow(gdMod, i, [row EXCEPT !.v = v])
        /\ UNCHANGED <<page, gdLoading, gdDel, gdNew, dialog, gdOthers, gdSpliced, gdMoved>>

(* handleAddNewRow and the duplicate and paste handlers: a draft, named by its key. *)
AddDraft(k) ==
    /\ UserEdits
    /\ gdNew' = Append(gdNew, k)
    /\ UNCHANGED <<page, gdLoading, gdMod, gdDel, dialog, gdOthers, gdSpliced, gdMoved>>

(* handleDeleteRow: a row is marked, a draft is taken out at once. *)
DeleteRow(i) ==
    /\ UserEdits
    /\ gdDel' = gdDel \cup {i}
    /\ UNCHANGED <<page, gdLoading, gdMod, gdNew, dialog, gdOthers, gdSpliced, gdMoved>>
DeleteDraft(i) ==
    /\ UserEdits
    /\ gdNew' = RemoveAt(gdNew, i) /\ gdSpliced' = TRUE
    /\ UNCHANGED <<page, gdLoading, gdMod, gdDel, dialog, gdOthers, gdMoved>>

-----------------------------------------------------------------------------
(* The save. *)

(* deletedRowPreviews: in the order of the marks there; deletes of different rows commute. *)
Deletes ==
    LET rows == InOrder(gdDel)
    IN  [n \in DOMAIN rows |-> [action |-> "delete", idx |-> rows[n], row |-> gdData[rows[n]], cond |-> gdData[rows[n]]]]

(* updatedRowPreviews: a row that is also deleted, or that differs in no column, is left out. *)
Updates ==
    LET rows == InOrder({i \in DOMAIN gdMod \ gdDel : ~Same(gdMod[i], gdData[i])})
    IN  [n \in DOMAIN rows |-> [action |-> "update", idx |-> rows[n], row |-> gdMod[rows[n]], cond |-> gdData[rows[n]]]]

(* insertedRowPreviews *)
Inserts ==
    LET row(k) == [k |-> k, v |-> 1, of |-> k]
    IN  [n \in DOMAIN gdNew |-> [action |-> "insert", idx |-> n, row |-> row(gdNew[n]), cond |-> row(gdNew[n])]]

Previews == Deletes \o Updates \o Inserts

(* saveReviewCounts *)
Dirty == Previews # <<>>

RequestReview ==
    /\ ~gdModal /\ Dirty /\ ~gdLoading
    /\ gdModal' = TRUE /\ gdReport' = {} /\ gdSpliced' = FALSE
    /\ UNCHANGED <<page, gdLoading, pending, gdSave, gdRecovery, gdEdits, gdOthers, gdMoved>>

CloseReview ==
    /\ gdModal /\ ~gdSave.on
    /\ gdModal' = FALSE
    /\ UNCHANGED <<page, gdLoading, pending, gdSave, gdReport, gdRecovery, ghosts>>

ConfirmSave ==
    /\ gdModal /\ ~gdSave.on /\ ~gdLoading /\ gdRecovery = {} /\ Dirty
    /\ gdSave' = [on |-> TRUE, ops |-> Previews, mod |-> gdMod, del |-> gdDel, new |-> gdNew,
                  fails |-> {}, rev |-> gdRev, written |-> {}]
    /\ gdReport' = {} /\ gdSpliced' = FALSE
    /\ UNCHANGED <<page, gdLoading, pending, gdModal, gdRecovery, gdEdits, gdOthers, gdMoved>>

(* WHERE: the primary key, or every column (getConditionForOriginalRow), so more than one row. *)
Matches(op) ==
    {k \in GridKeys : /\ gdServer[k] # 0 /\ Shown(k) = Shown(op.cond.k)
                      /\ gdPk \/ gdServer[k] = op.cond.v}
Hits(op) == op.action # "insert" /\ Matches(op) # {}

(* Room for a row that is new, or that an update gives other columns: a key that is not taken. *)
Room(op) == {k \in GridKeys : gdServer[k] = 0 /\ Shown(k) = Shown(op.row.k)}
Renames(op) == op.action = "update" /\ Shown(op.row.k) # Shown(op.cond.k)

(* The tables that a request can leave; an update that would rename several rows alike is left out. *)
Written(op) ==
    CASE op.action = "insert" -> {[gdServer EXCEPT ![n] = op.row.v] : n \in Room(op)}
      [] Renames(op) ->
            {[gdServer EXCEPT ![k] = 0, ![n] = op.row.v] : k \in {j \in Matches(op) : {j} = Matches(op)}, n \in Room(op)}
      [] OTHER -> {[k \in GridKeys |-> IF k \notin Matches(op) THEN gdServer[k]
                                       ELSE IF op.action = "delete" THEN 0 ELSE op.row.v]}

Failure(op, stale) ==
    [action |-> op.action, idx |-> op.idx, row |-> op.row, cond |-> op.cond, stale |-> stale,
     rev |-> gdSave.rev]

(* A request of the save is answered; only a success takes its change out of the copies. *)
Saved(op) ==
    [gdSave EXCEPT !.ops = Tail(@),
                   !.del = IF op.action = "delete" THEN @ \ {op.idx} ELSE @,
                   !.mod = IF op.action = "update" THEN WithoutRow(@, op.idx) ELSE @,
                   !.new = IF op.action = "insert" THEN [@ EXCEPT ![op.idx] = 0] ELSE @]

(* Mutant: a change leaves the copies whatever the answer. *)
NotSavedDropped(op, stale) == [Saved(op) EXCEPT !.fails = @ \cup {Failure(op, stale)}]

NotSaved(op, stale) == [gdSave EXCEPT !.ops = Tail(@), !.fails = @ \cup {Failure(op, stale)}]

SaveNext ==
    /\ gdSave.on /\ gdSave.ops # <<>>
    /\ LET op == Head(gdSave.ops)
           hit == op.action = "insert" \/ Hits(op)
       IN  \/ /\ hit /\ gdServer' \in Written(op)                     \* affected rows
              /\ gdSave' = [Saved(op) EXCEPT !.written = @ \cup {<<op.action, op.idx>>}]
           \/ /\ hit /\ gdServer' \in Written(op)                     \* written, the answer is lost
              /\ gdSave' = [NotSaved(op, FALSE) EXCEPT !.written = @ \cup {<<op.action, op.idx>>}]
           \/ /\ gdServer' = gdServer                                 \* refused or not written
              /\ gdSave' = NotSaved(op, op.action # "insert" /\ ~Hits(op))
    /\ UNCHANGED <<gdPk, gdData, gdRev, gdLoading, pending, gdModal, gdReport, gdRecovery, ghosts>>

(* Failures of inserts follow their drafts when the saved drafts are dropped. *)
Retained(new, f) ==
    IF f.action = "insert" THEN [f EXCEPT !.idx = Cardinality({i \in 1..f.idx : new[i] # 0})] ELSE f

FinishSave ==
    /\ gdSave.on /\ gdSave.ops = <<>>
    /\ gdMod' = gdSave.mod /\ gdDel' = gdSave.del
    /\ gdNew' = Kept(gdSave.new, {i \in DOMAIN gdSave.new : gdSave.new[i] # 0})
    /\ gdReport' = {Retained(gdSave.new, f) : f \in gdSave.fails}
    /\ gdModal' = (gdSave.fails # {})
    /\ gdLoading' = (gdLoading \/ gdSave.fails = {})
    /\ gdSave' = NoSave
    /\ UNCHANGED <<page, gdRecovery, ghosts>>

-----------------------------------------------------------------------------
(* Giving changes up. *)

(* onRefresh: the parent loads the page again. *)
Reload == gdRev < MaxReloads /\ gdLoading' = TRUE

(* The grid asks for nothing more of what it shows: a sort, a filter, a page of the parent. *)
ParentLoads ==
    /\ Reload
    /\ UNCHANGED <<page, pending, dialog, ghosts>>

Undo ==
    /\ ~gdModal /\ ~gdLoading /\ Dirty
    /\ gdMod' = <<>> /\ gdDel' = {} /\ gdNew' = <<>>
    /\ gdReport' = {} /\ gdRecovery' = {}
    /\ UNCHANGED <<page, gdLoading, gdModal, gdSave, ghosts>>

(* handleReloadServerCopy *)
ReloadServerCopy ==
    /\ gdReport # {} /\ gdRecovery = {} /\ ~gdSave.on /\ Reload
    /\ gdMod' = <<>> /\ gdDel' = {} /\ gdNew' = <<>>
    /\ gdModal' = FALSE /\ gdReport' = {}
    /\ UNCHANGED <<page, gdSave, gdRecovery, ghosts>>

Indexes(S, action) == {f.idx : f \in {g \in S : g.action = action}}

(* Mutant: the failures of later drafts keep their index. *)
ClearedUnshifted(S) == gdReport \ S

(* clearResolvedFailuresFromReport: later drafts move up, and their failures with them. *)
Cleared(S) ==
    {IF f.action = "insert"
     THEN [f EXCEPT !.idx = @ - Cardinality({i \in Indexes(S, "insert") : i < f.idx})] ELSE f
     : f \in gdReport \ S}

(* discardSaveFailures: Drop Failed, Drop Stale, one failure, or "use latest". *)
Discard(S) ==
    /\ S # {} /\ gdRecovery = {} /\ ~gdSave.on
    /\ gdMod' = Restrict(gdMod, DOMAIN gdMod \ Indexes(S, "update"))
    /\ gdDel' = gdDel \ Indexes(S, "delete")
    /\ gdNew' = Kept(gdNew, DOMAIN gdNew \ Indexes(S, "insert"))
    /\ gdReport' = Cleared(S)
    /\ UNCHANGED <<page, gdLoading, gdModal, gdSave, gdRecovery, ghosts>>

-----------------------------------------------------------------------------
(* Rows that were no longer found. *)

(* Mutant: the change goes back to the index it had. *)
OldIndex(data, f) == IF f.idx \in DOMAIN data THEN f.idx ELSE 0

(* findRecoveryRowIndex: the first row of its condition; without a primary key an update also
   takes the row whose unchanged columns match, if it is the only one; 0 when there is none. *)
Located(data, f) ==
    LET alike == {i \in DOMAIN data : Shown(data[i].k) = Shown(f.cond.k)}
        exact == {i \in alike : gdPk \/ data[i].v = f.cond.v}
        at    == IF exact = {} /\ ~gdPk /\ f.action = "update" /\ Cardinality(alike) = 1 THEN alike ELSE exact
    IN  IF at = {} THEN 0 ELSE CHOOSE i \in at : \A j \in at : i <= j

Stale == {f \in gdReport : f.stale}

(* hasFreshLatestRow, and the "conflict" state of the value: both sides changed it. *)
Fresh(f) == gdRev > f.rev /\ Located(gdData, f) # 0
Conflict(f) == gdData[Located(gdData, f)].v \notin {f.cond.v, f.row.v}

(* queueStaleRecovery: the changes leave the pending sets until the page is back. *)
QueueRecovery(S) ==
    /\ S # {} /\ gdRecovery = {} /\ ~gdLoading /\ ~gdSave.on /\ Reload
    /\ gdMod' = Restrict(gdMod, DOMAIN gdMod \ Indexes(S, "update"))
    /\ gdDel' = gdDel \ Indexes(S, "delete")
    /\ gdRecovery' = S
    /\ UNCHANGED <<page, gdNew, gdModal, gdSave, gdReport, ghosts>>

(* The row of a resolved update. *)
Resolved(data, f, keep) ==
    [data[Located(data, f)] EXCEPT !.v = IF keep THEN f.row.v ELSE @, !.of = f.row.of]

(* Such rows in place of the stale edits, one after the other, by index: the last one that has to
   do with a place decides what is there; no entry if nothing differs. *)
Rebased(mod, data, S, keep) ==
    LET about(i) == {f \in S : i \in {f.idx, Located(data, f)}}
        last(i)  == CHOOSE f \in about(i) : \A g \in about(i) : g.idx <= f.idx
        edited(i) == IF about(i) = {} THEN i \in DOMAIN mod
                     ELSE Located(data, last(i)) = i /\ ~Same(Resolved(data, last(i), keep), data[i])
    IN  [i \in {j \in DOMAIN mod \cup {Located(data, f) : f \in S} : edited(j)} |->
            IF about(i) = {} THEN mod[i] ELSE Resolved(data, last(i), keep)]

(* resolveActiveStaleConflict *)
Resolve(f, keep) ==
    /\ f \in Stale /\ gdRecovery = {} /\ Fresh(f) /\ ~gdSave.on
    /\ IF f.action = "delete"
       THEN gdDel' = (gdDel \ {f.idx}) \cup {Located(gdData, f)} /\ gdMod' = gdMod
       ELSE gdMod' = Rebased(gdMod, gdData, {f}, keep) /\ gdDel' = gdDel
    /\ gdReport' = Cleared({f})
    /\ UNCHANGED <<page, gdLoading, gdNew, gdModal, gdSave, gdRecovery, ghosts>>

(* applySafeUpdateModeToStaleSummaries *)
KeepMine ==
    LET safe == {f \in Stale : f.action = "update" /\ Fresh(f) /\ ~Conflict(f)}
    IN  /\ safe # {} /\ ~gdSave.on
        /\ gdMod' = Rebased(gdMod, gdData, safe, TRUE)
        /\ gdReport' = Cleared(safe)
        /\ UNCHANGED <<page, gdLoading, gdDel, gdNew, gdModal, gdSave, gdRecovery, ghosts>>

(* The effect that ends a recovery once the page is back. *)
Reattach(data) ==
    LET found == {f \in gdRecovery : Located(data, f) # 0}
        dirty == {f \in found : f.action = "update" /\ f.row.v # data[Located(data, f)].v}
        rows  == {Located(data, f) : f \in dirty}
        at(i) == CHOOSE f \in dirty : Located(data, f) = i
    IN  /\ gdMod' = [i \in DOMAIN gdMod \cup rows |-> IF i \in rows THEN Resolved(data, at(i), TRUE) ELSE gdMod[i]]
        /\ gdDel' = gdDel \cup {Located(data, f) : f \in {g \in found : g.action = "delete"}}
        /\ gdReport' = gdReport \ found
        /\ gdRecovery' = {}

(* loadData answers: the page, its revision and isRefreshing change together. *)
PageArrives ==
    LET data == Page(gdServer)
    IN  /\ gdLoading /\ gdLoading' = FALSE
        /\ gdData' = data /\ gdRev' = gdRev + 1
        /\ IF gdRecovery # {} THEN Reattach(data) ELSE UNCHANGED <<gdMod, gdDel, gdReport, gdRecovery>>
        /\ gdMoved' = (gdMoved \/ \E i \in DOMAIN gdMod \cup gdDel :
                          i \notin DOMAIN data \/ data[i].k # gdData[i].k)
        /\ UNCHANGED <<gdServer, gdPk, gdNew, gdModal, gdSave, gdEdits, gdOthers, gdSpliced>>

(* Mutant: a failed load leaves the recovery pending. *)
PageFailsKeeps ==
    /\ gdLoading /\ gdLoading' = FALSE
    /\ UNCHANGED <<page, pending, dialog, ghosts>>

(* loadData fails: the changes of a recovery stay in the report alone. *)
PageFails ==
    /\ gdLoading /\ gdLoading' = FALSE
    /\ gdRecovery' = {}
    /\ UNCHANGED <<page, pending, gdModal, gdSave, gdReport, ghosts>>

(* Other sessions rewrite the table. *)
OthersWrite(server) ==
    /\ gdOthers < MaxOthers /\ gdOthers' = gdOthers + 1
    /\ gdServer' = server
    /\ UNCHANGED <<gdPk, gdData, gdRev, gdLoading, pending, dialog, gdEdits, gdSpliced, gdMoved>>

(* A change whose index the page no longer has: the previews read a row that is
   undefined, and the error boundary takes the place of the grid. *)
Crashed == \E i \in gdDel \cup DOMAIN gdMod : i \notin DOMAIN gdData

(* What the screen offers: the rows, the drafts, the banners, the save review with its report,
   the overview of the stale changes and the dialog of one of them. *)
RowActions   == \E i \in DOMAIN gdData : DeleteRow(i) \/ (\E v \in Values : EditCell(i, v))
DraftActions == (\E k \in DraftKeys : AddDraft(k)) \/ (\E i \in DOMAIN gdNew : DeleteDraft(i))
DirtyBanner  == RequestReview \/ Undo
FailureBanner == ReloadServerCopy \/ QueueRecovery(Stale) \/ Discard(gdReport) \/ Discard(Stale)
ReviewModal  == CloseReview \/ ConfirmSave
ReportLines  == \E f \in gdReport : Discard({f}) \/ (f.stale /\ QueueRecovery({f}))
ConflictDialog == \E f \in Stale, keep \in BOOLEAN : Resolve(f, keep)
Requests     == SaveNext \/ FinishSave \/ ParentLoads \/ PageArrives \/ PageFails

Next ==
    /\ ~Crashed
    /\ \/ RowActions \/ DraftActions \/ DirtyBanner \/ FailureBanner \/ ReviewModal
       \/ ReportLines \/ ConflictDialog \/ KeepMine \/ Requests
       \/ \E k \in GridKeys : \E v \in {0, 2} : OthersWrite([gdServer EXCEPT ![k] = v])

-----------------------------------------------------------------------------

Count(k, s) == Cardinality({i \in DOMAIN s : s[i] = k})

NothingLost ==
    gdSave.on /\ ~gdSave'.on =>
        /\ \A i \in gdDel \ gdDel' : <<"delete", i>> \in gdSave.written
        /\ \A i \in DOMAIN gdMod : \/ <<"update", i>> \in gdSave.written
                                   \/ i \in DOMAIN gdMod' /\ gdMod'[i] = gdMod[i]
        /\ \A k \in GridKeys : Count(k, gdNew') >=
              Cardinality({i \in DOMAIN gdNew : gdNew[i] = k /\ <<"insert", i>> \notin gdSave.written})

(* A change that a save takes out of the pending sets was written by the server; every other  *)
(* one is still pending, with the value it had (confirmSave, its three loops and its copies). *)
SaveLosesNothing == [][NothingLost]_gdVars

(* Through a partial save and any discards, a reported insert names the draft that failed, so *)
(* Drop drops that draft; only deleting a draft by hand breaks it (retainedInsertIndexMap,    *)
(* clearResolvedFailuresFromReport, discardSaveFailures).                                     *)
FailuresNameTheirDrafts ==
    ~gdSpliced => \A f \in gdReport : f.action = "insert" =>
        f.idx \in DOMAIN gdNew /\ gdNew[f.idx] = f.row.k

(* A pending edit lies on the row it was made on, after recoveries and resolved conflicts too, *)
(* as long as no reload moved rows under a pending change; without a primary key a recovery    *)
(* may take the edit to another row, but only to one whose unchanged columns are the same      *)
(* (findRecoveryRowIndex, the effect that completes a recovery, resolveActiveStaleConflict).   *)
EditsStayOnTheirRows ==
    ~gdMoved => \A i \in DOMAIN gdMod : i \in DOMAIN gdData /\ Shown(gdMod[i].of) = Shown(gdData[i].k)
=============================================================================
