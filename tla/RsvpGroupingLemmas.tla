--------------------------- MODULE RsvpGroupingLemmas ---------------------------
(***************************************************************************)
(* What the operators of RsvpGrouping return, for every window of events.  *)
(* Shared by the proofs about the resolver and about the session.          *)
(***************************************************************************)
EXTENDS RsvpGrouping, WellFoundedInduction, TLAPS

\* Every non-empty set of natural numbers has a minimum, and Min is it.
LEMMA MinProperties ==
    ASSUME NEW S \in SUBSET Nat, S # {}
    PROVE  Min(S) \in S /\ \A y \in S : Min(S) <= y
<1>1. OpToRel(<, Nat) = {ss \in Nat \X Nat : ss[1] < ss[2]}
  BY DEF OpToRel
<1>2. PICK x \in S : \A y \in S : ~ (<<y, x>> \in OpToRel(<, Nat))
  BY NatLessThanWellFounded, WFMin
<1>3. \A y \in S : <<y, x>> \in OpToRel(<, Nat) <=> y < x
  <2>. SUFFICES ASSUME NEW y \in S PROVE <<y, x>> \in OpToRel(<, Nat) <=> y < x
    OBVIOUS
  <2>1. <<y, x>> \in Nat \X Nat /\ <<y, x>>[1] = y /\ <<y, x>>[2] = x
    OBVIOUS
  <2>. QED BY Zenon, <1>1, <2>1
<1>4. \A y \in S : ~ (y < x)
  BY Zenon, <1>2, <1>3
<1>5. \A y \in S : x <= y
  BY <1>4
<1>. QED BY <1>5 DEF Min

\* A non-empty set of natural numbers with a bound has a maximum, and Max is it.
LEMMA MaxProperties ==
    ASSUME NEW S \in SUBSET Nat, S # {}, NEW n \in Nat, \A y \in S : y <= n
    PROVE  Max(S) \in S /\ \A y \in S : y <= Max(S)
<1>. DEFINE above == {u \in Nat : \A y \in S : y <= u}
            u == Min(above)
<1>1. u \in Nat /\ \A y \in S : y <= u
  <2>1. above \in SUBSET Nat /\ above # {}
    OBVIOUS
  <2>2. u \in above
    <3>. HIDE DEF above
    <3>. QED BY <2>1, MinProperties
  <2>. HIDE DEF u
  <2>. QED BY <2>2
<1>2. \A v \in Nat : (\A y \in S : y <= v) => u <= v
  <2>1. above \in SUBSET Nat /\ above # {}
    OBVIOUS
  <2>2. \A v \in above : u <= v
    <3>. HIDE DEF above
    <3>. QED BY <2>1, MinProperties
  <2>. HIDE DEF u
  <2>. QED BY <2>2
<1>. HIDE DEF u
<1>3. u \in S
  <2>. SUFFICES ASSUME u \notin S PROVE FALSE
    OBVIOUS
  <2>1. PICK y \in S : TRUE
    OBVIOUS
  <2>2. u - 1 \in Nat /\ \A x \in S : x <= u - 1
    BY <1>1, <2>1
  <2>. QED BY <1>1, <1>2, <2>2
<1>4. \A y \in S : u >= y
  BY <1>1, <1>3
<1>5. Max(S) \in S /\ \A y \in S : Max(S) >= y
  BY <1>3, <1>4 DEF Max
<1>. QED BY <1>5

-----------------------------------------------------------------------------
\* The chain of leading prefixes ends inside the group, and it is unbroken.
LEMMA ChainEndProperties ==
    ASSUME NEW look
    PROVE  /\ ChainEnd(look) \in 1 .. MaxGroup
           /\ \A i \in 1 .. ChainEnd(look) - 1 : Prefixes(look[i]) /\ Joined(look, i)
<1>. DEFINE ends == {a \in 1 .. MaxGroup :
                       \A i \in 1 .. a - 1 : Prefixes(look[i]) /\ Joined(look, i)}
<1>1. ends \in SUBSET Nat /\ 1 \in ends /\ \A a \in ends : a <= 3
  BY DEF MaxGroup
<1>2. Max(ends) \in ends
  <2>. HIDE DEF ends
  <2>. QED BY <1>1, MaxProperties
<1>3. ChainEnd(look) = Max(ends)
  BY DEF ChainEnd
<1>. QED
  <2>. DEFINE m == Max(ends)
  <2>1. m \in ends /\ ChainEnd(look) = m
    BY <1>2, <1>3
  <2>. HIDE DEF m
  <2>. QED BY <2>1

\* No longer chain of prefixes is unbroken.
LEMMA ChainEndIsLast ==
    ASSUME NEW look, NEW b \in 1 .. MaxGroup,
           \A i \in 1 .. b - 1 : Prefixes(look[i]) /\ Joined(look, i)
    PROVE  b <= ChainEnd(look)
<1>. DEFINE ends == {a \in 1 .. MaxGroup :
                       \A i \in 1 .. a - 1 : Prefixes(look[i]) /\ Joined(look, i)}
<1>1. ends \in SUBSET Nat /\ b \in ends /\ \A a \in ends : a <= 3
  BY DEF MaxGroup
<1>2. b <= Max(ends)
  <2>. HIDE DEF ends
  <2>. QED BY <1>1, MaxProperties
<1>. QED BY <1>2 DEF ChainEnd

\* The run of postfixes ends inside the window, and it is unbroken.
LEMMA RunEndProperties ==
    ASSUME NEW look, NEW a \in 1 .. MaxGroup
    PROVE  /\ RunEnd(look, a) \in a .. EventCapacity
           /\ \A i \in a .. RunEnd(look, a) - 1 : Joined(look, i) /\ Postfixes(look[i + 1])
<1>. DEFINE ends == {b \in a .. EventCapacity :
                       \A i \in a .. b - 1 : Joined(look, i) /\ Postfixes(look[i + 1])}
<1>1. ends \in SUBSET Nat /\ a \in ends /\ \A b \in ends : b <= 4
  BY DEF MaxGroup, EventCapacity
<1>2. Max(ends) \in ends
  <2>. HIDE DEF ends
  <2>. QED BY <1>1, MaxProperties
<1>3. RunEnd(look, a) = Max(ends)
  BY DEF RunEnd
<1>. QED
  <2>. DEFINE m == Max(ends)
  <2>1. m \in ends /\ RunEnd(look, a) = m
    BY <1>2, <1>3
  <2>. HIDE DEF m
  <2>. QED BY <2>1

\* No longer run of postfixes is unbroken.
LEMMA RunEndIsLast ==
    ASSUME NEW look, NEW a \in 1 .. MaxGroup, NEW b \in a .. EventCapacity,
           \A i \in a .. b - 1 : Joined(look, i) /\ Postfixes(look[i + 1])
    PROVE  b <= RunEnd(look, a)
<1>. DEFINE ends == {e \in a .. EventCapacity :
                       \A i \in a .. e - 1 : Joined(look, i) /\ Postfixes(look[i + 1])}
<1>1. ends \in SUBSET Nat /\ b \in ends /\ \A e \in ends : e <= 4
  BY DEF MaxGroup, EventCapacity
<1>2. b <= Max(ends)
  <2>. HIDE DEF ends
  <2>. QED BY <1>1, MaxProperties
<1>. QED BY <1>2 DEF RunEnd

\* A group is a record with its number of words and the place of the active one.
IsGroup(group) == group = [count |-> group.count, active |-> group.active]

\* A group of neighbouring words in one phrase around its active word.
Grouped(look, group) ==
    /\ group.count \in 1 .. MaxGroup
    /\ group.active \in 1 .. group.count
    /\ \A i \in 1 .. group.count - 1 : Joined(look, i)
    /\ \A i \in 1 .. group.active - 1 : Prefixes(look[i])
    /\ \A i \in group.active + 1 .. group.count : Postfixes(look[i])
    /\ group.count > 1 => look[group.active].role = "None" /\ look[group.active].prep = "ok"

\* The head word alone is always such a group.
LEMMA SingleIsGrouped == \A look : Grouped(look, Single) /\ Single.count = 1 /\ Single.active = 1
BY DEF Single, Grouped, MaxGroup

\* What the resolver proposes for fitting is such a group.
LEMMA CandidateIsGrouped ==
    ASSUME NEW look
    PROVE  Grouped(look, Candidate(look)) /\ IsGroup(Candidate(look))
<1>. DEFINE a == ChainEnd(look)
            last == RunEnd(look, a)
            count == Min({last, MaxGroup})
            group == [count |-> count, active |-> a]
<1>1. /\ a \in 1 .. 3
      /\ \A i \in 1 .. a - 1 : Prefixes(look[i]) /\ Joined(look, i)
      /\ last \in a .. 4
      /\ \A i \in a .. last - 1 : Joined(look, i) /\ Postfixes(look[i + 1])
  <2>1. a \in 1 .. MaxGroup
    BY ChainEndProperties
  <2>. QED BY <2>1, ChainEndProperties, RunEndProperties DEF MaxGroup, EventCapacity
<1>2. count \in a .. 3 /\ count <= last
  <2>1. {last, MaxGroup} \in SUBSET Nat /\ {last, MaxGroup} # {} /\ last \in Nat /\ a \in Nat
    BY <1>1 DEF MaxGroup
  <2>2. count \in {last, MaxGroup} /\ \A y \in {last, MaxGroup} : count <= y
    BY <2>1, MinProperties
  <2>. HIDE DEF count
  <2>. QED BY <1>1, <2>2 DEF MaxGroup
<1>3. CASE Candidate(look) = Single
  BY <1>3, SingleIsGrouped DEF IsGroup, Single
<1>4. CASE Candidate(look) # Single
  <2>1. /\ Candidate(look) = group
        /\ look[a].role = "None" /\ look[a].prep = "ok"
    BY <1>4 DEF Candidate
  <2>2. group.count = count /\ group.active = a /\ IsGroup(group)
    BY DEF IsGroup
  <2>. HIDE DEF a, last, count, group
  <2>3. \A i \in 1 .. count - 1 : Joined(look, i)
    BY <1>1, <1>2
  <2>4. \A i \in a + 1 .. count : Postfixes(look[i])
    <3>. SUFFICES ASSUME NEW i \in a + 1 .. count PROVE Postfixes(look[i])
      OBVIOUS
    <3>1. i - 1 \in a .. last - 1 /\ i - 1 + 1 = i
      BY <1>1, <1>2
    <3>. QED BY <1>1, <3>1
  <2>. QED BY <1>1, <1>2, <2>1, <2>2, <2>3, <2>4 DEF Grouped, MaxGroup
<1>. QED BY <1>3, <1>4

\* What is left of a group after fitting is such a group.
LEMMA FittedIsGrouped ==
    ASSUME NEW look, NEW group, Grouped(look, group),
           IsGroup(group), NEW g \in Fitted(group)
    PROVE  Grouped(look, g) /\ IsGroup(g) /\ g.count <= group.count
<1>. USE DEF IsGroup
<1>1. CASE g = group
  BY <1>1 DEF Grouped, MaxGroup
<1>2. CASE g = Single
  BY <1>2, SingleIsGrouped DEF Grouped, MaxGroup, Single
<1>3. CASE \E n \in group.active .. group.count : g = [group EXCEPT !.count = n]
  <2>1. PICK n \in group.active .. group.count : g = [group EXCEPT !.count = n]
    BY <1>3
  <2>2. g.count = n /\ g.active = group.active /\ IsGroup(g)
    <3>1. g = [count |-> n, active |-> group.active]
      BY <2>1
    <3>. QED BY <3>1
  <2>3. n \in 1 .. 3 /\ n <= group.count /\ group.count \in 1 .. 3 /\ group.active \in 1 .. n
    BY DEF Grouped, MaxGroup
  <2>4. n > 1 => group.count > 1
    BY <2>3
  <2>. QED BY <2>2, <2>3, <2>4 DEF Grouped, MaxGroup
<1>. QED BY <1>1, <1>2, <1>3 DEF Fitted

\* The resolver buffers enough for the group and never looks past a window of four;
\* whatever it looks past is a word, so it does not read on behind the end of the book.
LEMMA BufferedProperties ==
    ASSUME NEW look
    PROVE  /\ Buffered(look) \in 1 .. EventCapacity
           /\ Candidate(look).count <= Buffered(look)
           /\ look[1].kind = "Word" =>
                 \A i \in 1 .. Buffered(look) - 1 : look[i].kind = "Word"
<1>. DEFINE a == ChainEnd(look)
            run == RunEnd(look, a)
            last == IF look[a].role = "None" THEN run ELSE a
            buffered == Buffered(look)
<1>1. /\ a \in 1 .. 3
      /\ \A i \in 1 .. a - 1 : Joined(look, i)
      /\ run \in a .. 4
      /\ \A i \in a .. run - 1 : Joined(look, i)
  <2>1. a \in 1 .. MaxGroup
    BY ChainEndProperties
  <2>. QED BY <2>1, ChainEndProperties, RunEndProperties DEF MaxGroup, EventCapacity
<1>2. buffered = last \/ (buffered = last + 1 /\ last < (IF look[a].role = "None" THEN 4 ELSE 3))
  BY DEF Buffered, EventCapacity, MaxGroup
<1>3. Candidate(look).count = 1 \/ (look[a].role = "None" /\ Candidate(look).count <= run)
  <2>. DEFINE count == Min({run, MaxGroup})
  <2>1. count <= run
    <3>1. {run, MaxGroup} \in SUBSET Nat /\ {run, MaxGroup} # {}
      BY <1>1 DEF MaxGroup
    <3>. QED BY <3>1, MinProperties
  <2>2. CASE Candidate(look) = Single
    BY <2>2 DEF Single
  <2>3. CASE Candidate(look) # Single
    <3>1. Candidate(look) = [count |-> count, active |-> a] /\ look[a].role = "None"
      BY <2>3 DEF Candidate
    <3>2. Candidate(look).count = count
      BY <3>1
    <3>. HIDE DEF count
    <3>. QED BY <2>1, <3>1, <3>2
  <2>. QED BY <2>2, <2>3
<1>. HIDE DEF a, run, buffered
<1>4. /\ last \in 1 .. 4 /\ a <= last
      /\ \A i \in 1 .. last - 1 : Joined(look, i)
  BY <1>1
<1>5. buffered \in 1 .. 4 /\ last <= buffered /\ buffered <= last + 1
  BY <1>1, <1>2
<1>6. Candidate(look).count <= buffered
  <2>0. Candidate(look).count \in 1 .. 3
    BY CandidateIsGrouped DEF Grouped, MaxGroup
  <2>1. CASE look[a].role = "None"
    BY <1>1, <1>3, <1>5, <2>0, <2>1
  <2>2. CASE look[a].role # "None"
    BY <1>3, <1>5, <2>0, <2>2
  <2>. QED BY <2>1, <2>2
<1>. HIDE DEF last
<1>7. ASSUME look[1].kind = "Word", NEW i \in 1 .. buffered - 1
      PROVE  look[i].kind = "Word"
  <2>1. CASE i = 1
    BY <1>7, <2>1
  <2>2. CASE i # 1
    <3>1. i - 1 \in 1 .. last - 1 /\ i - 1 + 1 = i
      BY <1>4, <1>5, <2>2
    <3>2. Joined(look, i - 1)
      BY <1>4, <3>1
    <3>. QED BY <3>1, <3>2 DEF Joined
  <2>. QED BY <2>1, <2>2
<1>. QED BY <1>5, <1>6, <1>7 DEF buffered, EventCapacity
=============================================================================
