----------------------------- MODULE JsonStores -----------------------------
(***************************************************************************)
(* One of the server's JSON stores: the rules (and the knowledge base,     *)
(* which is kept like them), the SQL history or the policy override. Each  *)
(* is held in memory and kept in one file. A save writes <file>.tmp and    *)
(* renames it; all saves of a store use the same name, and the lock on the *)
(* memory is given back before the save begins. The process may stop at    *)
(* any step and start again from the file.                                 *)
(*                                                                         *)
(* A content is a number, 0 the default one: for the rules and the history *)
(* each change makes a new one, for the policy it is how often the policy  *)
(* has evolved. Files are inodes, since a writer keeps the one it opened   *)
(* while the names move. A stop is one of the process: what was written    *)
(* stays.                                                                  *)
(***************************************************************************)
EXTENDS Naturals, FiniteSets

CONSTANTS Task,     \* requests and detached tasks, each may serve several operations
          MaxOps,   \* bound on the operations of a behaviour
          Floor,    \* evolutions until the thresholds are at their floor
          NoFile, Empty, Torn

VARIABLES
  kind,        \* which store this is
  memory,      \* AppState.rule_store, .sql_history or .policy
  path, tmp,   \* the inode each name stands for
  disk,        \* the content of each inode
  task,        \* what each task is doing
  ops,         \* operations begun so far
  \* marks, for the properties only:
  before,      \* the memory when the last operation that found the store quiet began
  lone,        \* that one is still alone
  mixed,       \* memory and file may differ: operations overlapped, or a save failed
  single,      \* the save that began last is still alone
  overlapped   \* the file may be torn: two saves were under way at once

vars == <<kind, memory, path, tmp, disk, task, ops, before, lone, mixed, single, overlapped>>

Content == 0..(MaxOps + Floor)
Inode   == 1..(Cardinality(Task) + 2)

\* left: the request was dropped, and its operation on the file goes on.
Idle == [op |-> "none", pc |-> "idle", content |-> 0, inode |-> NoFile, left |-> FALSE]

Init ==
  /\ kind \in {"rules", "history", "policy"}
  /\ memory = 0 /\ path = NoFile /\ tmp = NoFile
  /\ disk = [i \in Inode |-> Empty]
  /\ task = [t \in Task |-> Idle]
  /\ ops = 0 /\ before = 0
  /\ lone = FALSE /\ mixed = FALSE /\ single = FALSE /\ overlapped = FALSE

At(t, pc) == task[t].pc = pc
Quiet     == \A t \in Task : At(t, "idle")
Saving(t) == task[t].pc \in {"write", "rename"}

\* The file parses.
Readable == path # NoFile /\ disk[path] \in Content

\* What a load gives: the default for a file that is absent or does not parse.
Loaded == IF Readable THEN disk[path] ELSE 0

Goto(t, pc) == task' = [task EXCEPT ![t].pc = pc]

\* An operation ends well; one that was alone leaves memory and file the same.
Done(t) ==
  /\ task' = [task EXCEPT ![t] = Idle]
  /\ mixed' = (mixed /\ ~lone)

-----------------------------------------------------------------------------
\* An operation begins.
Start(t, op, pc, content) ==
  /\ At(t, "idle")
  /\ ops < MaxOps
  /\ ops' = ops + 1
  /\ task' = [task EXCEPT ![t] =
                 [op |-> op, pc |-> pc, content |-> content, inode |-> NoFile, left |-> FALSE]]
  /\ lone' = Quiet
  /\ mixed' = (mixed \/ ~Quiet)
  /\ before' = IF Quiet THEN memory ELSE before
  /\ UNCHANGED <<kind, path, tmp, disk, single, overlapped>>

\* save_rule, delete_rule, a hit, a statement for the history, clear_history: the
\* memory is changed and cloned under its lock, and the clone is saved.
Change(t) ==
  /\ kind \in {"rules", "history"}
  /\ \E c \in {ops + 1, 0} : memory' = c /\ Start(t, "change", "open", c)

\* get_history reads the file, and puts what it read into the memory.
GetHistory(t) ==
  kind = "history" /\ Start(t, "get", "load", 0) /\ UNCHANGED memory

Evolve(t)   == kind = "policy" /\ Start(t, "evolve", "load", 0) /\ UNCHANGED memory
Snapshot(t) == kind = "policy" /\ Start(t, "snapshot", "load", 0) /\ UNCHANGED memory
Reset(t)    == kind = "policy" /\ Start(t, "reset", "remove", 0) /\ UNCHANGED memory

\* A snapshot holds a policy of some time before.
Rollback(t) ==
  /\ kind = "policy"
  /\ \E c \in 0..Floor : Start(t, "rollback", "open", c)
  /\ UNCHANGED memory

-----------------------------------------------------------------------------
\* The file is read.  evolve_policy saves what it made of it, unless the
\* thresholds are at their floor; get_history gives up on a file that does not
\* parse, and answers from memory.
Load(t) ==
  /\ At(t, "load")
  /\ IF task[t].op = "get" /\ path # NoFile /\ ~Readable
     THEN task' = [task EXCEPT ![t] = Idle]
     ELSE LET saves == task[t].op = "evolve" /\ Loaded < Floor
          IN  task' = [task EXCEPT ![t].pc = IF saves THEN "open" ELSE "set",
                                   ![t].content = IF saves THEN Loaded + 1 ELSE Loaded]
  /\ UNCHANGED <<kind, memory, path, tmp, disk, ops, before, lone, mixed, single, overlapped>>

\* The memory becomes what was read or saved.
Set(t) ==
  /\ At(t, "set")
  /\ memory' = task[t].content
  /\ Done(t)
  /\ UNCHANGED <<kind, path, tmp, disk, ops, before, lone, single, overlapped>>

\* A dropped request gets no further than the operation it was in.
Abandoned(t, halfway) ==
  /\ task' = [task EXCEPT ![t] = Idle]
  /\ mixed' = (mixed \/ halfway)

\* reset_override removes the file, when there is one.
Remove(t) ==
  /\ At(t, "remove")
  /\ path' = NoFile
  /\ IF task[t].left THEN Abandoned(t, TRUE) ELSE Goto(t, "load") /\ UNCHANGED mixed
  /\ UNCHANGED <<kind, memory, tmp, disk, ops, before, lone, single, overlapped>>

-----------------------------------------------------------------------------
\* The inode a writer gets for the name .tmp: the one that has it, or a new one.
TmpInode ==
  IF tmp # NoFile THEN tmp
  ELSE CHOOSE i \in Inode : i # path /\ \A t \in Task : task[t].inode # i

\* Mutant: a save opens the file itself, as config.rs save does.
OpenInPlace(t) ==
  /\ At(t, "open")
  /\ LET i == IF path # NoFile THEN path ELSE TmpInode
     IN  /\ path' = i /\ tmp' = i
         /\ disk' = [disk EXCEPT ![i] = Empty]
         /\ task' = [task EXCEPT ![t].pc = "write", ![t].inode = i]
  /\ UNCHANGED <<kind, memory, ops, before, lone, mixed, single, overlapped>>

\* A save opens the temporary file, truncated.
Open(t) ==
  /\ At(t, "open")
  /\ LET others == \E u \in Task \ {t} : Saving(u)
     IN  single' = ~others /\ overlapped' = (overlapped \/ others)
  /\ tmp' = TmpInode
  /\ disk' = [disk EXCEPT ![TmpInode] = Empty]
  /\ task' = [task EXCEPT ![t].pc = "write", ![t].inode = TmpInode]
  /\ UNCHANGED <<kind, memory, path, ops, before, lone, mixed>>

\* It writes its content from the start.  Over what another writer has written
\* meanwhile it leaves that one's tail, when that one was longer.
Write(t) ==
  /\ At(t, "write")
  /\ LET i == task[t].inode
     IN  \/ disk' = [disk EXCEPT ![i] = task[t].content]
         \/ disk[i] # Empty /\ disk' = [disk EXCEPT ![i] = Torn]
  /\ IF task[t].left
     THEN Abandoned(t, task[t].op = "change")
     ELSE Goto(t, "rename") /\ UNCHANGED mixed
  /\ UNCHANGED <<kind, memory, path, tmp, ops, before, lone, single, overlapped>>

\* Whatever .tmp now stands for becomes the file.
Rename(t) ==
  /\ At(t, "rename")
  /\ tmp # NoFile
  /\ path' = tmp
  /\ tmp' = NoFile
  /\ overlapped' = (overlapped /\ ~single)
  /\ CASE task[t].op = "change"   -> Done(t)
       [] task[t].op = "evolve"   -> Goto(t, "set") /\ UNCHANGED mixed
       [] task[t].op = "rollback" ->
            IF task[t].left THEN Abandoned(t, TRUE) ELSE Goto(t, "load") /\ UNCHANGED mixed
  /\ UNCHANGED <<kind, memory, disk, ops, before, lone, single>>

\* The request is dropped, which the detached evolve_policy never is, in the middle
\* of an operation on the file: fs::write, fs::rename and fs::remove_file run on a
\* thread of their own, to their end.
Drop(t) ==
  /\ task[t].pc \in {"open", "write", "rename", "remove"}
  /\ task[t].op # "evolve" /\ ~task[t].left
  /\ task' = [task EXCEPT ![t].left = TRUE]
  /\ UNCHANGED <<kind, memory, path, tmp, disk, ops, before, lone, mixed, single, overlapped>>

\* A save or a removal fails, for the rename also when another save has taken
\* the name; or the request is dropped between two operations on the file.  What
\* has changed of memory or file stays changed.
Fail(t) ==
  /\ ~At(t, "idle")
  /\ task[t].op = "evolve" => task[t].pc \notin {"load", "set"}
  /\ task' = [task EXCEPT ![t] = Idle]
  /\ LET halfway == \/ task[t].op = "change"
                    \/ task[t].op \in {"reset", "rollback"} /\ task[t].pc \in {"load", "set"}
     IN  mixed' = (mixed \/ halfway)
  /\ \/ UNCHANGED disk
     \/ At(t, "write") /\ disk' = [disk EXCEPT ![task[t].inode] = Torn]
  /\ UNCHANGED <<kind, memory, path, tmp, ops, before, lone, single, overlapped>>

\* The process stops and starts again: the memory is loaded from the file, and
\* a temporary file stays where it is.
Restart ==
  /\ task' = [t \in Task |-> Idle]
  /\ memory' = Loaded
  /\ mixed' = FALSE
  /\ UNCHANGED <<kind, path, tmp, disk, ops, before, lone, single, overlapped>>

Next ==
  \/ \E t \in Task :
       \/ Change(t) \/ GetHistory(t)
       \/ Evolve(t) \/ Snapshot(t) \/ Reset(t) \/ Rollback(t)
       \/ Load(t) \/ Set(t) \/ Remove(t)
       \/ Open(t) \/ Write(t) \/ Rename(t) \/ Drop(t) \/ Fail(t)
  \/ Restart

Spec == Init /\ [][Next]_vars

-----------------------------------------------------------------------------
\* The file holds one whole content or is absent, with readers, failing saves and
\* restarts at any step, as long as no two saves were under way at once since the
\* last one that was alone (rule_engine.rs save, history.rs save, policy_store.rs
\* save_override).
FileIsWhole == overlapped \/ path = NoFile \/ Readable

\* What a restart would find is what the memory holds, or during an operation
\* what it held before or is about to hold, unless operations overlapped or a
\* save failed since the last operation that was alone (main.rs save_rule,
\* get_history, rollback_policy, policy_store.rs evolve_policy).
RestartFindsMemory ==
  \/ mixed
  \/ Loaded = memory
  \/ \E t \in Task : ~At(t, "idle") /\ Loaded \in {before, task[t].content}
=============================================================================
