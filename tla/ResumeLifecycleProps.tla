-------------------------- MODULE ResumeLifecycleProps --------------------------
(* Where a reader expects to go on. *)
EXTENDS ResumeLifecycle

TypeOK ==
    /\ {checkpoint, backup} \subseteq Words \cup {None, Rejected, Moved}
    /\ progress \in Words \cup {None}
    /\ mode \in {"closed", "paged", "rsvp", "sync"}
    /\ launch \in [anchor : Words \cup {None}, restoreCheckpoint : BOOLEAN,
                   checkpointInvalidationPending : BOOLEAN]
    /\ page \in Pages /\ section \in {"none", "placing", "ready"}
    /\ pagedResumeIntent \in {"CheckpointEligible", "ExplicitNavigation"}
    /\ {rsvpCheckpointInvalidationPending, rsvpSwitchPending} \subseteq BOOLEAN
    /\ frame \in Words /\ word \in Words \cup {None}
    /\ state \in {"reading", "finished", "fallback"}
    /\ {invalidateCheckpointOnNativeFallback, completionFinalized, uncertain, done} \subseteq BOOLEAN
    /\ due \in Words \cup {None} /\ remote \in Pages \cup {None} /\ reached \in Words /\ detours \in Nat

\* Nothing that has not been shown or chosen is ever recorded as a place to go on from,
\* through failed saves, failed invalidations and losses of power.
NothingUnseenIsStored ==
    \A w \in {checkpoint, backup, progress} \cap Words : w <= reached

\* Where native progress may be beside a checkpoint.
StoredPages == {PageStart(checkpoint), remote}

\* The two records point at the same page, through every way into and out of RSVP, unless
\* storage has failed or power was lost.  A remote position that was applied is in native
\* progress alone: native progress is then on its page or back on that of the checkpoint.
StoresAgree ==
    mode # "rsvp" /\ ~ uncertain /\ checkpoint \in Words =>
        progress # None /\ PageStart(progress) \in StoredPages

\* A book that was finished is not offered as unfinished at its last word, whichever way
\* RSVP mode is left afterwards.
FinishedIsNotOffered == done => checkpoint = None

\* A checkpoint that is rejected costs one detour through the Paged reader: the next
\* switch reads, also when the rejected record could not be removed, until the book is
\* closed or left for a sync.
DetourIsNotRepeated == detours <= 1

Starting == mode = "paged" /\ mode' = "rsvp" /\ state' # "fallback"

\* RSVP goes on at the word it showed last, in this opening or an earlier one, unless a
\* page was selected after it, and then at the start of the page on display.  Storage that
\* failed and power that was lost since are not judged.  A remote position does not count
\* as selected while there is a checkpoint: RSVP goes on where it was.
EntryFollowsTheReader ==
    [][Starting /\ ~ uncertain /\ ~ uncertain' /\ section # "placing" =>
         IF due = None THEN frame' = page
         ELSE frame' = due \/ (word' = due /\ frame' = due + 1)]_vars

\* A page selected in this opening decides where RSVP starts, whatever could not be
\* removed from the card.
ChosenPageWins ==
    [][Starting /\ section # "placing" /\ pagedResumeIntent = "ExplicitNavigation"
        => frame' = page]_vars

\* The switch that had to wait for the page is made.
SwitchHappens == rsvpSwitchPending ~> mode # "paged"

\* A finished book loses its checkpoint while the end is on display.
FinishedIsFinalized ==
    (mode = "rsvp" /\ state = "finished") ~> (completionFinalized \/ mode # "rsvp")

\* docs/specs/0004: "RSVP after explicit Paged navigation to begin at the first readable
\* word of the selected page", also while the render task is still placing the Section.
SelectedPageStarts ==
    [][Starting /\ pagedResumeIntent = "ExplicitNavigation" => frame' = page]_vars

\* USER_GUIDE.md: "choose Apply Remote to jump to remote progress".
AppliedRemoteIsShown ==
    [][mode = "sync" /\ mode' = "paged" /\ progress' # progress
        => page' = PageStart(progress')]_vars
=============================================================================
