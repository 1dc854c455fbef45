------------------------------ MODULE RsvpGrouping ------------------------------
(***************************************************************************)
(* The presentation-group resolver of RsvpSession::emitNextWord, as pure   *)
(* operators over the four events the session may look at: at most three   *)
(* words of a group and one event of lookahead.                            *)
(*                                                                         *)
(* A source event is a record.  Everything the resolver and the session    *)
(* can tell about the text of a word is in its fields:                     *)
(*   role   the companion role (classifyRsvpCompanion)                     *)
(*   size   its letters against the two companion limits of 5 and 7        *)
(*   open   a grouping boundary before its lexical core (boundaryBefore)   *)
(*   close  a grouping boundary after its lexical core (boundaryAfter)     *)
(*   prep   what prepareRsvpWord makes of it                               *)
(***************************************************************************)
EXTENDS Integers, Sequences, FiniteSets, FiniteSetsExt

EventCapacity == 4   \* RsvpSession::EVENT_CAPACITY
MaxGroup == 3        \* words in one presentation group

Kinds == {"Word", "NonLexical", "Paragraph", "Chapter", "NonText",
          "Oversized", "End", "Error"}
Roles == {"None", "Forward", "Backward", "Bidirectional"}

Event == [kind : Kinds, role : Roles, size : {"short", "medium", "long"},
          open : BOOLEAN, close : BOOLEAN, prep : {"ok", "overflow", "invalid"}]

\* A word that may attach to the word after it, or to the word before it.
Prefixes(e) == e.role \in {"Forward", "Bidirectional"}
Postfixes(e) == e.role \in {"Backward", "Bidirectional"}

\* Variant: the boundary in front of the next word is not looked at.
JoinedIfNotClosed(look, i) == ~ look[i].close /\ look[i + 1].kind = "Word"

\* Event i and event i+1 are words with no grouping boundary between them.
Joined(look, i) ==
    /\ ~ look[i].close
    /\ look[i + 1].kind = "Word"
    /\ ~ look[i + 1].open

\* Where the chain of leading prefixes stops: the candidate for the active word.
ChainEnd(look) ==
    Max({a \in 1 .. MaxGroup :
            \A i \in 1 .. a - 1 : Prefixes(look[i]) /\ Joined(look, i)})

\* The last event of the unbroken run of postfixes behind the active word.
RunEnd(look, a) ==
    Max({b \in a .. EventCapacity :
            \A i \in a .. b - 1 : Joined(look, i) /\ Postfixes(look[i + 1])})

\* One companion may have seven letters, two companions five letters each.
Eligible(e, companions) ==
    e.size \in (IF companions = 2 THEN {"short"} ELSE {"short", "medium"})

\* The head word alone is the fallback of every failed grouping rule.
Single == [count |-> 1, active |-> 1]

\* Variant: the fourth word is not looked at when a prefix leads.
CandidateInThree(look) ==
    LET a     == ChainEnd(look)
        count == Min({RunEnd(look, a), MaxGroup})
    IN IF \/ look[a].role # "None" \/ look[a].prep # "ok"
          \/ \E i \in 1 .. count : i # a /\ ~ Eligible(look[i], count - 1)
       THEN Single ELSE [count |-> count, active |-> a]

(***************************************************************************)
(* The group proposed for fitting.  A chain that does not end in a lexical *)
(* word shows its first word alone; so does a prefix chain outranked by a  *)
(* postfix that would be the fourth word, a group around a word that       *)
(* cannot be prepared, and a group with a companion that is too long.      *)
(***************************************************************************)
Candidate(look) ==
    LET a     == ChainEnd(look)
        last  == RunEnd(look, a)
        count == Min({last, MaxGroup})
        rejected ==
            \/ look[a].role # "None"
            \/ last = EventCapacity /\ a > 1
            \/ look[a].prep # "ok"
            \/ \E i \in 1 .. count :
                  i # a /\ ~ Eligible(look[i], count - 1)
    IN IF rejected THEN Single ELSE [count |-> count, active |-> a]

(***************************************************************************)
(* The fit callback returns a range around the active word.  A range that  *)
(* drops a prefix shows the head alone; otherwise the tail is cut.         *)
(***************************************************************************)
Fitted(group) ==
    IF group.count = 1 THEN {group}
    ELSE {Single} \cup {[group EXCEPT !.count = n] : n \in group.active .. group.count}

\* Variant: one event too many is looked at.
BufferedOneMore(look) == RunEnd(look, ChainEnd(look)) + 1

\* How many events the resolver has buffered when it has reached its answer.
Buffered(look) ==
    LET a    == ChainEnd(look)
        last == IF look[a].role = "None" THEN RunEnd(look, a) ELSE a
        limit == IF look[a].role = "None" THEN EventCapacity ELSE MaxGroup
        goesOn == /\ look[a].role # "Backward"
                  /\ last < limit
                  /\ ~ look[last].close
    IN IF goesOn THEN last + 1 ELSE last

=============================================================================
