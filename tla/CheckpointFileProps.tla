--------------------------- MODULE CheckpointFileProps ---------------------------
(***************************************************************************)
(* Properties of CheckpointFile, and the register that it implements.      *)
(***************************************************************************)
EXTENDS CheckpointFile

Contents == Checkpoints \cup {Absent, Unusable}

LoadPoints == {"promote", "compare"}
BeforeWrite == {"clean", "open", "write"}
Written == {"retire", "backup", "install"}
SavePoints == BeforeWrite \cup Written \cup {"restore", "discard", "sweep"}
InvalidatePoints == {"path", "temporary", "last"}

\* Every variable has its type, and the program counter belongs to the call.
TypeOK ==
    /\ {path, temporary, backup} \subseteq Contents
    /\ call \in {"load", "save", "invalidate"}
    /\ at \in {"idle"} \cup LoadPoints \cup SavePoints \cup InvalidatePoints
    /\ value \in Checkpoints \cup {None}
    /\ hadPrevious \in BOOLEAN
    /\ removed \in BOOLEAN
    /\ outcome \in {"none", "ok", "failed"}
    /\ at \in LoadPoints => call \in {"load", "save"}
    /\ at \in SavePoints => call = "save"
    /\ at \in InvalidatePoints => call = "invalidate"
    /\ call = "save" => value \in Checkpoints

(***************************************************************************)
(* What the order of the storage calls guarantees at every point where     *)
(* power may be lost: a backup is never the only good copy when save       *)
(* removes it, the file is replaced by a complete copy only, and a save    *)
(* that has not installed its checkpoint has not changed what load finds.  *)
(***************************************************************************)
FilesInOrder ==
    /\ TypeOK
    /\ path = Unusable => backup \notin Checkpoints
    /\ at \in {"compare", "retire", "backup"} \cup BeforeWrite => (path = Absent => backup = Absent)
    /\ at \in Written => temporary = value
    /\ at \in {"install", "restore"} => path = Absent /\ (hadPrevious \/ backup = Absent)
    /\ at = "sweep" => path = value
    /\ at \in SavePoints \ {"sweep"} => Loaded # value
    /\ at \in {"temporary", "last"} => (removed => path = Absent)

-----------------------------------------------------------------------------
\* The call in progress, as the register sees it; load() only looks.
Request ==
    IF at # "idle" /\ call = "save" THEN [kind |-> "save", value |-> value]
    ELSE IF at # "idle" /\ call = "invalidate" THEN [kind |-> "clear", value |-> None]
    ELSE [kind |-> "idle", value |-> None]

\* The good copies that load() does not return.
Leftover == ({path, backup} \cap Checkpoints) \ {Loaded}

Answer == IF call = "load" THEN "none" ELSE outcome

Register == INSTANCE CheckpointRegister WITH
    stored <- Loaded, older <- Leftover, request <- Request, outcome <- Answer

(***************************************************************************)
(* The three files implement the register, whatever storage call fails and *)
(* wherever power is lost: a save takes effect in one step or not at all,  *)
(* it answers true only when its checkpoint is what load() returns, and    *)
(* invalidate() answers true only when nothing can come back.              *)
(***************************************************************************)
ImplementsRegister == Register!Spec

-----------------------------------------------------------------------------
(***************************************************************************)
(* RsvpCheckpointFile.cpp:121-122: "A failed restore deliberately leaves   *)
(* .bak in place. load() promotes it on the next attempt, so the last      *)
(* known-good checkpoint remains durable."; spec 0004:41: "a failed        *)
(* checkpoint write to retain the previous valid checkpoint".  No step of  *)
(* a save leaves neither the previous checkpoint nor the new one.          *)
(***************************************************************************)
LastKnownGoodSurvives ==
    [][at # "idle" /\ call = "save" /\ Loaded # None => Loaded' \in {Loaded, value}]_vars
=============================================================================
