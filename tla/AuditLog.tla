------------------------------ MODULE AuditLog ------------------------------
(***************************************************************************)
(* agent/audit.rs: the audit log and its rotation.  A log file is the      *)
(* sequence of the events written to it; names on the disk point to files, *)
(* and the writer keeps the file it opened, whatever it is called by now.  *)
(* log holds the writer's lock while it opens and writes; rotate takes it  *)
(* only for its last step.                                                 *)
(***************************************************************************)
EXTENDS Naturals, Sequences, SequencesExt, FiniteSets

CONSTANTS
    MaxFiles,    \* max_files
    MaxSize,     \* max_size, in events
    MaxLogged    \* bound: events logged

ASSUME AuditAssumption == MaxFiles \in Nat \ {0} /\ MaxSize \in Nat \ {0}

\* Name 0 is audit.jsonl, name i is audit.i.jsonl.
Names  == 0..MaxFiles
NoFile == 0

VARIABLES
    content,     \* files ever created: their events
    disk,        \* name -> file, NoFile for none
    writer,      \* the open file, NoFile for none
    issued,      \* events so far
    pending,     \* events handed to log_sync, not written yet
    logging,     \* the event of the task that holds the lock, 0 for none
    rotation,    \* "off", "shift", "rename", "delete" or "reset"
    shift,       \* the next name to move a file to
    logged,      \* history: events in the order they were written
    created      \* history: audit.jsonl was created during a rotation

auditVars == <<content, disk, writer, issued, pending, logging, rotation, shift,
               logged, created>>

AuditInit ==
    /\ content \in {<<>>, <<<<1>>>>}        \* what an earlier process left
    /\ disk = [n \in Names |-> IF n = 0 /\ content # <<>> THEN 1 ELSE NoFile]
    /\ writer = NoFile
    /\ issued = Len(content)
    /\ pending = {}
    /\ logging = 0
    /\ rotation = "off"
    /\ shift = 0
    /\ logged = FlattenSeq(content)
    /\ created = FALSE

----------------------------------------------------------------------------
(* log and log_sync *)

\* A task is spawned; tasks write in any order.
LogSync ==
    /\ issued < MaxLogged
    /\ issued' = issued + 1
    /\ pending' = pending \cup {issued'}
    /\ UNCHANGED <<content, disk, writer, logging, rotation, shift, logged, created>>

\* The lock, and the file if it is not open: created where there is none.
Open(e) ==
    /\ e \in pending /\ logging = 0
    /\ pending' = pending \ {e}
    /\ logging' = e
    /\ IF writer # NoFile
       THEN UNCHANGED <<content, disk, writer, created>>
       ELSE IF disk[0] # NoFile
       THEN writer' = disk[0] /\ UNCHANGED <<content, disk, created>>
       ELSE /\ content' = Append(content, <<>>)
            /\ disk' = [disk EXCEPT ![0] = Len(content) + 1]
            /\ writer' = Len(content) + 1
            /\ created' = (created \/ rotation # "off")
    /\ UNCHANGED <<issued, rotation, shift, logged>>

\* An error to open or to write drops the event.
OpenFails(e) ==
    /\ e \in pending /\ logging = 0 /\ writer = NoFile
    /\ pending' = pending \ {e}
    /\ UNCHANGED <<content, disk, writer, issued, logging, rotation, shift, logged, created>>

WriteFails ==
    /\ logging # 0
    /\ logging' = 0
    /\ UNCHANGED <<content, disk, writer, issued, pending, rotation, shift, logged, created>>

Write ==
    /\ logging # 0
    /\ content' = [content EXCEPT ![writer] = Append(@, logging)]
    /\ logged' = Append(logged, logging)
    /\ logging' = 0
    /\ UNCHANGED <<disk, writer, issued, pending, rotation, shift, created>>

----------------------------------------------------------------------------
(* rotate, by one task at a time *)

\* rename: the file that had the new name is gone; a missing file is ignored.
Renamed(from, to) ==
    IF disk[from] = NoFile THEN disk
    ELSE [disk EXCEPT ![to] = disk[from], ![from] = NoFile]

Rotate ==
    /\ rotation = "off" /\ disk[0] # NoFile /\ Len(content[disk[0]]) >= MaxSize
    /\ rotation' = "shift"
    /\ shift' = MaxFiles - 1
    /\ UNCHANGED <<content, disk, writer, issued, pending, logging, logged, created>>

\* Mutant of ShiftFile: the youngest file is moved first.
ShiftFileUp ==
    /\ rotation = "shift" /\ shift > 0
    /\ disk' = Renamed(MaxFiles - shift - 1, MaxFiles - shift)
    /\ shift' = shift - 1
    /\ UNCHANGED <<content, writer, issued, pending, logging, rotation, logged, created>>

ShiftFile ==
    /\ rotation = "shift" /\ shift > 0
    /\ disk' = Renamed(shift - 1, shift)
    /\ shift' = shift - 1
    /\ UNCHANGED <<content, writer, issued, pending, logging, rotation, logged, created>>

\* The current file is moved once more: normally it is gone by now.
RenameCurrent ==
    /\ rotation = "shift" /\ shift = 0
    /\ rotation' = "rename"
    /\ disk' = Renamed(0, 1)
    /\ UNCHANGED <<content, writer, issued, pending, logging, shift, logged, created>>

DeleteExcess ==
    /\ rotation = "rename"
    /\ rotation' = "reset"
    /\ disk' = [disk EXCEPT ![MaxFiles] = NoFile]
    /\ UNCHANGED <<content, writer, issued, pending, logging, shift, logged, created>>

ResetWriter ==
    /\ rotation = "reset" /\ logging = 0
    /\ rotation' = "off"
    /\ writer' = NoFile
    /\ UNCHANGED <<content, disk, issued, pending, logging, shift, logged, created>>

\* The process ends and another one opens the same log.
Restart ==
    /\ writer' = NoFile /\ logging' = 0 /\ pending' = {}
    /\ rotation' = "off" /\ shift' = 0
    /\ UNCHANGED <<content, disk, issued, logged, created>>

AuditNext ==
    \/ LogSync
    \/ \E e \in pending : Open(e) \/ OpenFails(e)
    \/ WriteFails
    \/ Write
    \/ Rotate
    \/ ShiftFile
    \/ RenameCurrent
    \/ DeleteExcess
    \/ ResetWriter
    \/ Restart

----------------------------------------------------------------------------
(* Properties *)

\* The events on the disk, oldest file first.
OnDisk == FlattenSeq([i \in 1..MaxFiles + 1 |->
            IF disk[MaxFiles + 1 - i] = NoFile THEN <<>> ELSE content[disk[MaxFiles + 1 - i]]])

\* Rotation loses nothing but the oldest files: what is on the disk is the
\* last part of what was written, in that order, at every moment of a
\* rotation, with writes to a file that was renamed under its writer and
\* with a restart in between.  The exception is the one rotate leaves open:
\* audit.jsonl created between its two renames replaces the file just moved.
AuditKeeps == ~created => IsSuffix(OnDisk, logged)
=============================================================================
