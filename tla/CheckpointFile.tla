----------------------------- MODULE CheckpointFile -----------------------------
(***************************************************************************)
(* RsvpCheckpointFile: the checkpoint of a book in a file, a temporary     *)
(* file and a backup.  One action per call of the storage, any of which    *)
(* may fail; power may be lost between any two of them.  A rename is       *)
(* atomic and fails when its target exists, opening for writing truncates  *)
(* (the SD library is not part of the repository).                         *)
(***************************************************************************)
CONSTANTS
    Checkpoints,    \* valid checkpoints of the book as it is now
    Absent,         \* there is no such file
    Unusable,       \* torn, corrupt or of another revision of the book
    None,           \* no checkpoint
    Faults          \* which of the faults below are considered

\* "promotion": the rename of load() fails.  "flush": data that was written does
\* not reach the card, which only flush() and close() could tell.
\* "read": a file that exists cannot be read.
ASSUME FaultsAssumption == Faults \subseteq {"promotion", "flush", "read"}
ASSUME ValuesAssumption ==
    /\ Absent \notin Checkpoints \cup {Unusable, None}
    /\ Unusable \notin Checkpoints \cup {None}
    /\ None \notin Checkpoints

VARIABLES
    path,           \* rsvp_checkpoint.bin
    temporary,      \* rsvp_checkpoint.bin.tmp
    backup,         \* rsvp_checkpoint.bin.bak
    call,           \* the function that runs, or that ran last
    at,             \* where it is
    value,          \* the checkpoint to save
    hadPrevious,    \* save's local of that name
    removed,        \* invalidate's local of that name
    outcome         \* what the last call returned

files == <<path, temporary, backup>>
locals == <<value, hadPrevious, removed>>
vars == <<files, call, at, locals, outcome>>

\* load() seen as one function of the files: the file, or else its backup.
Loaded ==
    IF path \in Checkpoints THEN path
    ELSE IF backup \in Checkpoints THEN backup ELSE None

\* What load() may return now.
Readable ==
    {Loaded} \cup IF "read" \in Faults
                  THEN {None} \cup ({backup} \cap Checkpoints)
                  ELSE {}

Return(result) == at' = "idle" /\ outcome' = result

-----------------------------------------------------------------------------
Begin(name) ==
    /\ at = "idle"
    /\ call' = name
    /\ outcome' = "none"
    /\ UNCHANGED files

BeginLoad ==
    /\ Begin("load")
    /\ at' = "promote"
    /\ UNCHANGED locals

BeginSave(c) ==
    /\ Begin("save")
    /\ at' = "promote"
    /\ value' = c
    /\ UNCHANGED <<hadPrevious, removed>>

\* load: a backup that is alone becomes the file.
Promote ==
    /\ at = "promote"
    /\ at' = "compare"
    /\ \/ path = Absent /\ path' = backup /\ backup' = Absent
       \/ /\ path # Absent \/ "promotion" \in Faults
          /\ UNCHANGED <<path, backup>>
    /\ UNCHANGED <<temporary, call, locals, outcome>>

\* load returns; a checkpoint that is stored already is not saved again.
Compare ==
    /\ at = "compare"
    /\ \E c \in Readable :
          IF call = "load" \/ c = value
          THEN Return("ok")
          ELSE at' = "clean" /\ UNCHANGED outcome
    /\ UNCHANGED <<files, call, locals>>

\* save: an old temporary file goes, if it can be removed.
Clean ==
    /\ at = "clean"
    /\ temporary' \in {temporary, Absent}
    /\ at' = "open"
    /\ UNCHANGED <<path, backup, call, locals, outcome>>

Open ==
    /\ at = "open"
    /\ \/ temporary' = Unusable /\ at' = "write" /\ UNCHANGED outcome
       \/ Return("failed") /\ UNCHANGED temporary
    /\ UNCHANGED <<path, backup, call, locals>>

\* A wrong variant: a short write is not noticed.
WriteUnchecked ==
    /\ at = "write"
    /\ temporary' \in {value, Unusable}
    /\ at' = "retire"
    /\ UNCHANGED <<path, backup, call, locals, outcome>>

\* write, flush and close: a short write is noticed, a lost one is not.
Write ==
    /\ at = "write"
    /\ \/ temporary' = value /\ at' = "retire"
       \/ temporary' = Unusable /\ at' = "discard"
       \/ "flush" \in Faults /\ temporary' = Unusable /\ at' = "retire"
    /\ UNCHANGED <<path, backup, call, locals, outcome>>

\* The old backup goes, if it can be removed.
Retire ==
    /\ at = "retire"
    /\ backup' \in {backup, Absent}
    /\ at' = "backup"
    /\ UNCHANGED <<path, temporary, call, locals, outcome>>

\* A wrong variant: the file is removed to make room, without a backup.
BackupByRemoving ==
    /\ at = "backup"
    /\ hadPrevious' = (path # Absent)
    /\ path' = Absent
    /\ at' = "install"
    /\ UNCHANGED <<temporary, backup, call, value, removed, outcome>>

\* The file becomes the backup.
Backup ==
    /\ at = "backup"
    /\ hadPrevious' = (path # Absent)
    /\ \/ path = Absent /\ at' = "install" /\ UNCHANGED <<path, backup>>
       \/ /\ path # Absent /\ backup = Absent
          /\ backup' = path /\ path' = Absent
          /\ at' = "install"
       \/ path # Absent /\ at' = "discard" /\ UNCHANGED <<path, backup>>
    /\ UNCHANGED <<temporary, call, value, removed, outcome>>

\* The temporary file becomes the file.
Install ==
    /\ at = "install"
    /\ \/ path = Absent /\ path' = temporary /\ temporary' = Absent /\ at' = "sweep"
       \/ at' = "restore" /\ UNCHANGED <<path, temporary>>
    /\ UNCHANGED <<backup, call, locals, outcome>>

\* After a failure the backup becomes the file again, if it can.
Restore ==
    /\ at = "restore"
    /\ \/ hadPrevious /\ path = Absent /\ path' = backup /\ backup' = Absent
       \/ UNCHANGED <<path, backup>>
    /\ at' = "discard"
    /\ UNCHANGED <<temporary, call, locals, outcome>>

\* A save that has failed removes its temporary file, if it can.
Discard ==
    /\ at = "discard"
    /\ temporary' \in {temporary, Absent}
    /\ Return("failed")
    /\ UNCHANGED <<path, backup, call, locals>>

Sweep ==
    /\ at = "sweep"
    /\ backup' \in {backup} \cup IF hadPrevious THEN {Absent} ELSE {}
    /\ Return("ok")
    /\ UNCHANGED <<path, temporary, call, locals>>

-----------------------------------------------------------------------------
BeginInvalidate ==
    /\ Begin("invalidate")
    /\ at' = "path"
    /\ removed' = TRUE
    /\ UNCHANGED <<value, hadPrevious>>

\* invalidate: each file goes, if it can be removed.
RemovePath ==
    /\ at = "path"
    /\ path' \in {path, Absent}
    /\ removed' = (removed /\ path' = Absent)
    /\ at' = "temporary"
    /\ UNCHANGED <<temporary, backup, call, value, hadPrevious, outcome>>

RemoveTemporary ==
    /\ at = "temporary"
    /\ temporary' \in {temporary, Absent}
    /\ removed' = (removed /\ temporary' = Absent)
    /\ at' = "last"
    /\ UNCHANGED <<path, backup, call, value, hadPrevious, outcome>>

RemoveBackup ==
    /\ at = "last"
    /\ backup' \in {backup, Absent}
    /\ removed' = (removed /\ backup' = Absent)
    /\ Return(IF removed' THEN "ok" ELSE "failed")
    /\ UNCHANGED <<path, temporary, call, value, hadPrevious>>

-----------------------------------------------------------------------------
\* Power is lost, or the watchdog restarts the device: the files stay.
PowerLoss ==
    /\ at # "idle"
    /\ Return("none")
    /\ UNCHANGED <<files, call, locals>>

\* Another book under the same path: its revision makes every checkpoint stale.
ReplaceBook ==
    LET Aged(file) == IF file = Absent THEN Absent ELSE Unusable IN
    /\ at = "idle"
    /\ path' = Aged(path)
    /\ temporary' = Aged(temporary)
    /\ backup' = Aged(backup)
    /\ UNCHANGED <<call, at, locals, outcome>>

Init ==
    /\ path \in {Absent, Unusable}
    /\ temporary \in {Absent, Unusable}
    /\ backup = Absent
    /\ call = "load"
    /\ at = "idle"
    /\ value = None
    /\ hadPrevious = FALSE
    /\ removed = FALSE
    /\ outcome = "none"

Save ==
    \/ \E c \in Checkpoints : BeginSave(c)
    \/ Clean
    \/ Open
    \/ Write
    \/ Retire
    \/ Backup
    \/ Install
    \/ Restore
    \/ Discard
    \/ Sweep

Load == BeginLoad \/ Promote \/ Compare

Invalidate == BeginInvalidate \/ RemovePath \/ RemoveTemporary \/ RemoveBackup

Next == Load \/ Save \/ Invalidate \/ PowerLoss \/ ReplaceBook

Spec == Init /\ [][Next]_vars
=============================================================================
