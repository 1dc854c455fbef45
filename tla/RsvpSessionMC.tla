----------------------------- MODULE RsvpSessionMC -----------------------------
(***************************************************************************)
(* Documents for model checking RsvpSession.                               *)
(***************************************************************************)
EXTENDS RsvpSessionProps

Plain == [kind |-> "Word", role |-> "None", size |-> "long",
          open |-> FALSE, close |-> FALSE, prep |-> "ok"]
Role(r) == [Plain EXCEPT !.role = r, !.size = "short"]
Only(k) == [Plain EXCEPT !.kind = k]

Pre == Role("Forward")
Post == Role("Backward")
Both == Role("Bidirectional")
Clause == [Plain EXCEPT !.close = TRUE]
Huge == [Plain EXCEPT !.prep = "overflow"]

\* Groups of one, two and three words around chapters and skipped elements.
Chapters == <<Pre, Plain, Post, Only("Paragraph"), Only("Chapter"), Plain,
              Only("NonText"), Only("NonText"), Only("Chapter"), Plain, Only("End")>>
\* A fourth word that outranks a prefix; a group cut by punctuation and by a pause.
Crowded == <<Pre, Both, Plain, Post, Clause, Only("NonLexical"), Pre, Only("Chapter"),
             Both, Plain, Post, Post, Only("End")>>
\* Words that cannot be shown, an unreadable place, and text behind them.
Damaged == <<Plain, Pre, Only("Oversized"), Plain, Only("NonText"), Huge, Plain,
             Only("Error"), Plain, Only("End")>>
\* More groups than the history remembers.
Long == <<Plain, Plain, Both, Plain, Only("Paragraph"), Plain, Plain, Only("NonText"),
          Plain, Plain, Plain, Plain, Only("End")>>

\* Short books for liveness.
Leaflet == <<Pre, Plain, Only("Chapter"), Plain, Only("NonText"), Plain, Plain, Only("End")>>
Shelf == {Leaflet, SubSeq(Damaged, 1, 6) \o <<Only("End")>>}

Library == {Chapters, Crowded, Damaged, Long}
=============================================================================
