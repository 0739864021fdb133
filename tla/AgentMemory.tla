----------------------------- MODULE AgentMemory ----------------------------
(***************************************************************************)
(* agent/memory and core/memory.rs: the two memories of an agent.          *)
(* SqliteMemory saves an entry with three statements, each committed by    *)
(* itself: the mutex of a connection orders the saves of one connection,   *)
(* clone_box opens another connection to the same file.  SQLite (external) *)
(* is its tables: memory is rows by id, memory_fts pairs of a row number   *)
(* and the words indexed for it.  InMemoryMemory is a sorted list.  An id  *)
(* is what it was made for and the millisecond; a content is one word.     *)
(***************************************************************************)
EXTENDS Naturals, Sequences, FiniteSets, SequencesExt, FiniteSetsExt

CONSTANTS
    Conns,        \* connections to the database
    Partitions,   \* names of shared partitions
    All,          \* SharedPartition::All
    Private,      \* the partition of an entry that is not shared
    Access,       \* PartitionAccess: [read, write], sets of partitions
    MaxMs,        \* bound: the clock
    MaxFailures   \* bound: statements that fail

VARIABLES
    now,          \* now_ms
    rows,         \* table memory: id -> [row, word, partition]
    fts,          \* table memory_fts: [row, word]
    save,         \* connection -> the save it runs
    failures,     \* statements that failed
    broken,       \* history: ids whose last save stopped half way
    store         \* InMemoryMemory: sequence of [id, word]

memoryVars == <<now, rows, fts, save, failures, broken, store>>

Ids    == [what : {"output", "shared", "event"}, ms : 0..MaxMs]
NoSave == [step |-> "none"]

MemoryInit ==
    /\ now = 0
    /\ rows = <<>>
    /\ fts = {}
    /\ save = [c \in Conns |-> NoSave]
    /\ failures = 0
    /\ broken = {}
    /\ store = <<>>

Tick == now < MaxMs /\ now' = now + 1 /\ UNCHANGED <<rows, fts, save, failures, broken, store>>

----------------------------------------------------------------------------
(* PartitionAccess *)

CanRead(p)  == \E r \in Access.read : r = All \/ r = p
CanWrite(p) == \E w \in Access.write : w = All \/ w = p

----------------------------------------------------------------------------
(* SqliteMemory::insert_entry *)

\* The connection's lock, and DELETE FROM memory_fts for the row of the id.
BeginSave(c, id, word, partition) ==
    /\ save[c] = NoSave
    /\ save' = [save EXCEPT ![c] = [step |-> "replace", id |-> id, word |-> word,
                                    partition |-> partition]]
    /\ fts' = {x \in fts : id \notin DOMAIN rows \/ x.row # rows[id].row}
    /\ UNCHANGED <<now, rows, failures, broken, store>>

\* INSERT OR REPLACE: the old row goes, the new one gets the next number.
NextRow(id) == Max({0} \cup {rows[i].row : i \in DOMAIN rows \ {id}}) + 1

ReplaceRow(c) ==
    /\ save[c].step = "replace"
    /\ LET s == save[c]
       IN rows' = [i \in DOMAIN rows \cup {s.id} |->
                     IF i = s.id THEN [row |-> NextRow(i), word |-> s.word, partition |-> s.partition]
                     ELSE rows[i]]
    /\ save' = [save EXCEPT ![c].step = "index"]
    /\ UNCHANGED <<now, fts, failures, broken, store>>

\* Mutant of IndexRow: the row number is taken to be the number of rows.
IndexRowGuess(c) ==
    /\ save[c].step = "index"
    /\ fts' = fts \cup {[row |-> Cardinality(DOMAIN rows), word |-> save[c].word]}
    /\ broken' = broken \ {save[c].id}
    /\ save' = [save EXCEPT ![c] = NoSave]
    /\ UNCHANGED <<now, rows, failures, store>>

\* INSERT INTO memory_fts SELECT ...: what the table holds now.
IndexRow(c) ==
    /\ save[c].step = "index"
    /\ fts' = fts \cup {[row |-> rows[save[c].id].row, word |-> rows[save[c].id].word]}
    /\ broken' = broken \ {save[c].id}
    /\ save' = [save EXCEPT ![c] = NoSave]
    /\ UNCHANGED <<now, rows, failures, store>>

\* A statement fails (a locked database, a process that dies): the ones
\* before it stay; save_entry only logs it.
StatementFails(c) ==
    /\ save[c] # NoSave /\ failures < MaxFailures
    /\ failures' = failures + 1
    /\ broken' = broken \cup {save[c].id}
    /\ save' = [save EXCEPT ![c] = NoSave]
    /\ UNCHANGED <<now, rows, fts, store>>

----------------------------------------------------------------------------
(* InMemoryMemory::save_entry: before the first older entry, under the lock *)

SaveInMemory(id, word) ==
    /\ store' = InsertAt(store, Cardinality({i \in DOMAIN store : store[i].id.ms >= id.ms}) + 1,
                         [id |-> id, word |-> word])
    /\ UNCHANGED <<now, rows, fts, save, failures, broken>>

----------------------------------------------------------------------------
(* Reading *)

\* recall: the index, and LIKE over all rows when it finds nothing.
Recall(word) ==
    LET hits == {i \in DOMAIN rows : \E x \in fts : x.row = rows[i].row /\ x.word = word}
    IN  IF hits # {} THEN hits ELSE {i \in DOMAIN rows : rows[i].word = word}

\* read_shared: rows of exactly this partition; All is a partition of its own.
ReadShared(p, word) ==
    IF CanRead(p) THEN {i \in DOMAIN rows : rows[i].partition = p /\ rows[i].word = word} ELSE {}

----------------------------------------------------------------------------
(* Properties *)

Saving == {save[c].id : c \in {d \in Conns : save[d] # NoSave}}

\* An entry that was saved is found by recall, and by read_shared where it is
\* shared, whatever another connection saves under the same id meanwhile; a
\* save that stopped half way hides at most the entry it was saving, until
\* that is saved again.
SavedIsFound ==
    \A i \in DOMAIN rows \ (Saving \cup broken) :
      /\ i \in Recall(rows[i].word)
      /\ rows[i].partition # Private /\ CanRead(rows[i].partition) =>
           i \in ReadShared(rows[i].partition, rows[i].word)

\* The list of InMemoryMemory is kept newest first, so that a limit keeps the
\* newest, also when saves of one millisecond or a late task arrive out of order.
NewestFirst ==
    \A i, j \in DOMAIN store : i < j => store[i].id.ms >= store[j].id.ms
=============================================================================
