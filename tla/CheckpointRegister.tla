--------------------------- MODULE CheckpointRegister ---------------------------
(***************************************************************************)
(* What RsvpCheckpointFile promises its callers: a register that holds at  *)
(* most one checkpoint and survives a loss of power.  A save either        *)
(* commits its checkpoint or changes nothing, and says which.  Clearing is *)
(* weaker: until it is confirmed an earlier checkpoint may come back.      *)
(***************************************************************************)
CONSTANTS Checkpoints, None

VARIABLES
    stored,     \* the checkpoint that a load returns, None if there is none
    older,      \* the checkpoints that clearing may bring back
    request,    \* what is being done
    outcome     \* what the last request has answered

vars == <<stored, older, request, outcome>>

Idle == [kind |-> "idle", value |-> None]
Saving(c) == [kind |-> "save", value |-> c]
Clearing == [kind |-> "clear", value |-> None]

Init ==
    /\ stored = None
    /\ older = {}
    /\ request = Idle
    /\ outcome = "none"

BeginSave(c) ==
    /\ request = Idle
    /\ request' = Saving(c)
    /\ outcome' = "none"
    /\ UNCHANGED <<stored, older>>

\* The one moment at which a save takes effect.
Commit ==
    /\ request.kind = "save"
    /\ stored' = request.value
    /\ older' \in SUBSET (older \cup {stored})
    /\ UNCHANGED <<request, outcome>>

Confirm ==
    /\ request.kind = "save"
    /\ stored = request.value
    /\ request' = Idle
    /\ outcome' = "ok"
    /\ older' \in SUBSET older
    /\ UNCHANGED stored

Refuse ==
    /\ request.kind = "save"
    /\ stored # request.value
    /\ request' = Idle
    /\ outcome' = "failed"
    /\ UNCHANGED <<stored, older>>

BeginClear ==
    /\ request = Idle
    /\ request' = Clearing
    /\ outcome' = "none"
    /\ UNCHANGED <<stored, older>>

Clear ==
    /\ request = Clearing
    /\ stored' \in {None} \cup older
    /\ older' \in SUBSET older
    /\ UNCHANGED <<request, outcome>>

\* Only a clear that has left nothing behind answers with success.
EndClear ==
    /\ request = Clearing
    /\ stored' \in {None, stored}
    /\ older' \in SUBSET older
    /\ outcome' \in {"ok", "failed"}
    /\ outcome' = "ok" => stored' = None /\ older' = {}
    /\ request' = Idle

\* A copy that is no longer needed goes.
Drop ==
    /\ older' \in SUBSET older
    /\ UNCHANGED <<stored, request, outcome>>

\* Power is lost, or nobody asks for the last answer any more.
Forget ==
    /\ request' = Idle
    /\ outcome' = "none"
    /\ UNCHANGED <<stored, older>>

\* The file of the book is replaced: its checkpoints have a stale revision.
ReplaceBook ==
    /\ request = Idle
    /\ stored' = None
    /\ older' = {}
    /\ UNCHANGED <<request, outcome>>

Next ==
    \/ \E c \in Checkpoints : BeginSave(c)
    \/ Commit
    \/ Confirm
    \/ Refuse
    \/ BeginClear
    \/ Clear
    \/ EndClear
    \/ Drop
    \/ Forget
    \/ ReplaceBook

Spec == Init /\ [][Next]_vars
=============================================================================
