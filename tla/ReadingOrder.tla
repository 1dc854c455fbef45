------------------------------ MODULE ReadingOrder ------------------------------
(***************************************************************************)
(* What an RSVP session promises about the order of reading, without       *)
(* buffers, frames or checkpoints.  A reader moves a frontier through a    *)
(* document.  Showing a group takes the words at the frontier; the groups  *)
(* shown last can be returned to, and reading on from there shows the same *)
(* groups again.  Only an explicit step passes an element that is not      *)
(* text, and only a group on the display can be committed as read.         *)
(***************************************************************************)
EXTENDS Integers, Sequences

CONSTANTS Books,     \* non-empty sequences of events with a kind, the last one "End"
          MaxGroup,  \* words in one group, at least 1
          Memory     \* groups that can be returned to, at least 1

VARIABLES book,       \* the document
          trail,      \* the groups that can be returned to, as <<first, last>>
          at,         \* which of them was shown last
          shown,      \* whether it is on the display
          frontier,   \* where reading goes on
          committed   \* the last word of the group committed last, or 0

vars == <<book, trail, at, shown, frontier, committed>>

Quiet == {"NonLexical", "Paragraph", "Chapter"}

\* n is the first position from p on that is not a separator.
FirstFrom(p, n) ==
    /\ n \in p .. Len(book)
    /\ book[n].kind \notin Quiet
    /\ \A q \in p .. n - 1 : book[q].kind \in Quiet

Init ==
    /\ book \in Books
    /\ trail = << >>
    /\ at = 0
    /\ shown = FALSE
    /\ \E p \in DOMAIN book : \E n \in p .. Len(book) : FirstFrom(p, n) /\ frontier = n
    /\ committed = 0

\* Remember one more group, forgetting the oldest when the memory is full.
Remember(group) ==
    trail' = Append(IF Len(trail) = Memory THEN Tail(trail) ELSE trail, group)

\* Show the words first .. last and go on behind them.
ShowGroup(first, last) ==
    /\ \A p \in first .. last : book[p].kind = "Word"
    /\ \E n \in last + 1 .. Len(book) : FirstFrom(last + 1, n) /\ frontier' = n
    /\ shown' = TRUE

\* From position n: the next group of the trail, a new group, or no group.
Proceed(n) ==
    \/ /\ at < Len(trail)
       /\ trail[at + 1][1] = n
       /\ ShowGroup(n, trail[at + 1][2])
       /\ at' = at + 1
       /\ UNCHANGED trail
    \/ /\ at = Len(trail)
       /\ \E last \in n .. n + MaxGroup - 1 :
             /\ last < Len(book)
             /\ ShowGroup(n, last)
             /\ Remember(<<n, last>>)
       /\ at' = Len(trail')
    \/ /\ frontier' = n
       /\ shown' = FALSE
       /\ UNCHANGED <<trail, at>>

ReadOn ==
    /\ Proceed(frontier)
    /\ UNCHANGED <<book, committed>>

StepOverElement ==
    /\ book[frontier].kind = "NonText"
    /\ ~ shown
    /\ \E n \in frontier + 1 .. Len(book) : FirstFrom(frontier + 1, n) /\ Proceed(n)
    /\ UNCHANGED <<book, committed>>

\* A reader who comes back continues after the word committed before.
ResumeAfter ==
    /\ trail = << >>
    /\ committed = 0
    /\ book[frontier].kind = "Word"
    /\ committed' = frontier
    /\ \E n \in frontier + 1 .. Len(book) : FirstFrom(frontier + 1, n) /\ Proceed(n)
    /\ UNCHANGED book

GoBack ==
    /\ \E i \in 1 .. at :
          /\ at' = i
          /\ ShowGroup(trail[i][1], trail[i][2])
    /\ UNCHANGED <<book, trail, committed>>

Commit ==
    /\ shown
    /\ committed' = trail[at][2]
    /\ UNCHANGED <<book, trail, at, shown, frontier>>

Next == ReadOn \/ StepOverElement \/ ResumeAfter \/ GoBack \/ Commit

Spec == Init /\ [][Next]_vars
=============================================================================
