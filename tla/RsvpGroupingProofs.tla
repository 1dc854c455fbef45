--------------------------- MODULE RsvpGroupingProofs ---------------------------
(***************************************************************************)
(* Proofs about the resolver's walk over a text, for every vocabulary and  *)
(* length: the frames partition the words of the text whatever the display *)
(* has room for, and when everything fits they are the frames that the     *)
(* rules have for the text as a whole.                                     *)
(***************************************************************************)
EXTENDS RsvpGroupingMC, RsvpGroupingLemmas, SequenceTheorems

(***************************************************************************)
(* The inductive invariant adds to the property that the walk stays inside *)
(* the text, whose end markers are behind it, and that the frames cut so   *)
(* far lie before the head: a new frame starts at the head, so it cannot   *)
(* overlap them.                                                           *)
(***************************************************************************)
TextEnds ==
    \A i \in TextLength + 1 .. TextLength + EventCapacity : text[i].kind = "End"

Walked ==
    /\ head \in 1 .. TextLength + 1
    /\ frames \in Seq(Nat \X Nat)
    /\ \A n \in 1 .. Len(frames) : frames[n][1] <= frames[n][2] /\ frames[n][2] < head

\* What FramesPartitionTheText says of one frame.
FrameIsWellFormed(first, last) ==
    /\ last - first < MaxGroup
    /\ \A i \in first .. last - 1 : SamePhrase(i)
    /\ first = last \/ \E a \in first .. last :
          /\ Lexical(a)
          /\ \A i \in first .. a - 1 : Prefixes(text[i])
          /\ \A i \in a + 1 .. last : Postfixes(text[i])

IInv == TextEnds /\ Walked /\ FramesPartitionTheText

\* The text ends in a window of end markers.
LEMMA InitTextEnds ==
    ASSUME Init
    PROVE  TextEnds
<1>. USE TextLengthAssumption
<1>1. PICK body \in [1 .. TextLength -> Vocabulary] :
          text = body \o [i \in 1 .. EventCapacity |-> End]
  BY DEF Init
<1>. DEFINE tail == [i \in 1 .. EventCapacity |-> End]
            All == Vocabulary \cup {End}
<1>2. body \in Seq(All) /\ Len(body) = TextLength
  OBVIOUS
<1>3. tail \in Seq(All) /\ Len(tail) = 4 /\ \A i \in 1 .. 4 : tail[i] = End
  BY DEF EventCapacity
<1>4. End.kind = "End"
  BY DEF End, Plain
<1>. HIDE DEF tail, All
<1>5. ASSUME NEW i \in TextLength + 1 .. TextLength + 4
      PROVE  text[i].kind = "End"
  <2>1. text = body \o tail
    BY <1>1 DEF tail
  <2>2. i \in 1 .. Len(body) + Len(tail) /\ ~ (i <= Len(body)) /\ i - Len(body) \in 1 .. 4
    BY <1>2, <1>3
  <2>3. text[i] = tail[i - Len(body)]
    BY <1>2, <1>3, <2>1, <2>2, ConcatProperties
  <2>. QED BY <1>3, <1>4, <2>2, <2>3
<1>. QED BY <1>5 DEF TextEnds, EventCapacity

\* A group that the resolver cuts at the head is a well-formed frame inside the text.
LEMMA GroupIsFrame ==
    ASSUME TextEnds, Walked, text[head].kind = "Word",
           NEW group \in IF roomy THEN {Candidate(Window)} ELSE Fitted(Candidate(Window))
    PROVE  /\ group.count \in 1 .. MaxGroup
           /\ head + group.count - 1 <= TextLength
           /\ \A i \in head .. head + group.count - 1 : text[i].kind = "Word"
           /\ FrameIsWellFormed(head, head + group.count - 1)
<1>. USE TextLengthAssumption
<1>1. Grouped(Window, group)
  BY CandidateIsGrouped, FittedIsGrouped
<1>. DEFINE count == group.count
            active == group.active
<1>2. /\ count \in 1 .. 3 /\ active \in 1 .. count
      /\ \A i \in 1 .. count - 1 : Joined(Window, i)
      /\ \A i \in 1 .. active - 1 : Prefixes(Window[i])
      /\ \A i \in active + 1 .. count : Postfixes(Window[i])
      /\ count > 1 => Window[active].role = "None" /\ Window[active].prep = "ok"
  BY <1>1 DEF Grouped, MaxGroup
<1>. HIDE DEF count, active
<1>3. head \in Nat \ {0} /\ head <= TextLength + 1
  BY DEF Walked
<1>4. \A i \in 1 .. 4 : Window[i] = text[head + i - 1]
  BY DEF Window, EventCapacity
<1>5. \A i \in 1 .. count - 1 : /\ ~ text[head + i - 1].close
                                /\ text[head + i].kind = "Word"
                                /\ ~ text[head + i].open
  <2>. SUFFICES ASSUME NEW i \in 1 .. count - 1
                PROVE  /\ ~ text[head + i - 1].close
                       /\ text[head + i].kind = "Word"
                       /\ ~ text[head + i].open
    OBVIOUS
  <2>1. i \in 1 .. 4 /\ i + 1 \in 1 .. 4 /\ head + (i + 1) - 1 = head + i
    BY <1>2, <1>3
  <2>2. Window[i] = text[head + i - 1] /\ Window[i + 1] = text[head + i]
    BY <1>4, <2>1
  <2>. QED BY <1>2, <2>2 DEF Joined
<1>6. \A i \in head .. head + count - 1 : text[i].kind = "Word"
  <2>. SUFFICES ASSUME NEW i \in head .. head + count - 1 PROVE text[i].kind = "Word"
    OBVIOUS
  <2>1. CASE i = head
    BY <2>1
  <2>2. CASE i # head
    <3>1. i - head \in 1 .. count - 1 /\ head + (i - head) = i
      BY <1>2, <1>3, <2>2
    <3>. QED BY <1>5, <3>1
  <2>. QED BY <2>1, <2>2
<1>7. head + count - 1 <= TextLength
  <2>. SUFFICES ASSUME head + count - 1 > TextLength PROVE FALSE
    BY <1>2, <1>3
  <2>1. head + count - 1 \in TextLength + 1 .. TextLength + 4
    BY <1>2, <1>3
  <2>2. text[head + count - 1].kind = "End"
    BY <2>1 DEF TextEnds, EventCapacity
  <2>3. head + count - 1 \in head .. head + count - 1
    BY <1>2, <1>3
  <2>. QED BY <1>6, <2>2, <2>3
<1>8. \A i \in head .. head + count - 2 : SamePhrase(i)
  <2>. SUFFICES ASSUME NEW i \in head .. head + count - 2 PROVE SamePhrase(i)
    OBVIOUS
  <2>1. /\ i - head + 1 \in 1 .. count - 1
        /\ head + (i - head + 1) - 1 = i /\ head + (i - head + 1) = i + 1
        /\ i \in head .. head + count - 1
    BY <1>2, <1>3
  <2>2. ~ text[i].close /\ text[i + 1].kind = "Word" /\ ~ text[i + 1].open
    BY <1>5, <2>1
  <2>. QED BY <1>6, <2>1, <2>2 DEF SamePhrase
<1>. DEFINE last == head + count - 1
<1>9. ASSUME count = 1
      PROVE  FrameIsWellFormed(head, last)
  <2>1. last = head /\ last - head < 3
    BY <1>3, <1>9
  <2>. HIDE DEF last
  <2>2. \A i \in head .. last - 1 : SamePhrase(i)
    BY <1>3, <2>1
  <2>. QED BY <2>1, <2>2 DEF FrameIsWellFormed, MaxGroup
<1>10. ASSUME count > 1
       PROVE  FrameIsWellFormed(head, last)
  <2>. DEFINE a == head + active - 1
  <2>1. a \in head .. head + count - 1 /\ active \in 1 .. 4
    BY <1>2, <1>3
  <2>2. Lexical(a)
    <3>1. Window[active] = text[a]
      BY <1>4, <2>1
    <3>. QED BY <1>2, <1>6, <1>10, <2>1, <3>1 DEF Lexical
  <2>3. \A i \in head .. a - 1 : Prefixes(text[i])
    <3>. SUFFICES ASSUME NEW i \in head .. a - 1 PROVE Prefixes(text[i])
      OBVIOUS
    <3>1. /\ i - head + 1 \in 1 .. active - 1 /\ i - head + 1 \in 1 .. 4
          /\ head + (i - head + 1) - 1 = i
      BY <1>2, <1>3
    <3>. QED BY <1>2, <1>4, <3>1
  <2>4. \A i \in a + 1 .. head + count - 1 : Postfixes(text[i])
    <3>. SUFFICES ASSUME NEW i \in a + 1 .. head + count - 1 PROVE Postfixes(text[i])
      OBVIOUS
    <3>1. /\ i - head + 1 \in active + 1 .. count /\ i - head + 1 \in 1 .. 4
          /\ head + (i - head + 1) - 1 = i
      BY <1>2, <1>3
    <3>. QED BY <1>2, <1>4, <3>1
  <2>5. last - head < 3 /\ last - 1 = head + count - 2
    BY <1>2, <1>3
  <2>6. \A i \in head .. last - 1 : SamePhrase(i)
    BY <1>8, <2>5
  <2>7. a \in head .. last /\ \A i \in a + 1 .. last : Postfixes(text[i])
    BY <2>1, <2>4
  <2>. HIDE DEF a, last
  <2>. QED BY <2>2, <2>3, <2>5, <2>6, <2>7 DEF FrameIsWellFormed, MaxGroup
<1>11. FrameIsWellFormed(head, last)
  BY <1>2, <1>9, <1>10
<1>. QED BY <1>2, <1>6, <1>7, <1>11 DEF count, MaxGroup

\* The property in terms of FrameIsWellFormed.
LEMMA PartitionUnfolds ==
    ASSUME Walked
    PROVE  FramesPartitionTheText <=>
              /\ \A i \in 1 .. head - 1 : text[i].kind = "Word" =>
                    \E n \in 1 .. Len(frames) : frames[n][1] <= i /\ i <= frames[n][2]
              /\ \A n \in 1 .. Len(frames) :
                    /\ n > 1 => frames[n - 1][2] < frames[n][1]
                    /\ FrameIsWellFormed(frames[n][1], frames[n][2])
<1>1. DOMAIN frames = 1 .. Len(frames)
  BY DEF Walked
<1>. QED BY <1>1 DEF FramesPartitionTheText, FrameIsWellFormed

LEMMA IInvInit ==
    ASSUME Init
    PROVE  IInv
<1>. USE TextLengthAssumption
<1>1. head = 1 /\ frames = << >> /\ Len(frames) = 0
  BY DEF Init
<1>2. Walked
  <2>1. frames \in Seq(Nat \X Nat)
    BY <1>1
  <2>. QED BY <1>1, <2>1 DEF Walked
<1>3. FramesPartitionTheText
  BY <1>1, <1>2, PartitionUnfolds
<1>. QED BY <1>2, <1>3, InitTextEnds DEF IInv

\* A frame starts at the head, behind every frame before it, and ends before the new head.
LEMMA IInvStep ==
    ASSUME IInv, [Cut]_vars
    PROVE  IInv'
<1>. USE TextLengthAssumption
<1>1. CASE UNCHANGED vars
  BY <1>1 DEF vars, IInv, TextEnds, Walked, FramesPartitionTheText, SamePhrase, Lexical
<1>2. ASSUME Cut PROVE IInv'
  <2>1. /\ text' = text /\ roomy' = roomy /\ text[head].kind # "End"
        /\ TextEnds /\ Walked /\ FramesPartitionTheText
    BY <1>2 DEF Cut, IInv
  <2>2. TextEnds'
    BY <2>1 DEF TextEnds
  <2>3. /\ head \in Nat \ {0} /\ head <= TextLength
        /\ frames \in Seq(Nat \X Nat)
        /\ \A n \in 1 .. Len(frames) : frames[n][1] <= frames[n][2] /\ frames[n][2] < head
    <3>1. head \in 1 .. TextLength + 1 /\ head # TextLength + 1
      BY <2>1 DEF TextEnds, Walked, EventCapacity
    <3>. QED BY <2>1, <3>1 DEF Walked
  <2>4. /\ \A i \in 1 .. head - 1 : text[i].kind = "Word" =>
              \E n \in 1 .. Len(frames) : frames[n][1] <= i /\ i <= frames[n][2]
        /\ \A n \in 1 .. Len(frames) :
              /\ n > 1 => frames[n - 1][2] < frames[n][1]
              /\ FrameIsWellFormed(frames[n][1], frames[n][2])
    BY <2>1, PartitionUnfolds
  <2>5. \A i : (SamePhrase(i)' <=> SamePhrase(i)) /\ (Lexical(i)' <=> Lexical(i))
    BY <2>1 DEF SamePhrase, Lexical
  <2>6. CASE text[head].kind # "Word"
    <3>1. head' = head + 1 /\ frames' = frames
      BY <1>2, <2>6 DEF Cut
    <3>2. Walked'
      BY <2>3, <3>1 DEF Walked
    <3>3. \A i \in 1 .. head' - 1 : text[i].kind = "Word" =>
              \E n \in 1 .. Len(frames) : frames[n][1] <= i /\ i <= frames[n][2]
      <4>. SUFFICES ASSUME NEW i \in 1 .. head' - 1, text[i].kind = "Word"
                    PROVE  i \in 1 .. head - 1
        BY <2>4
      <4>. QED BY <2>3, <2>6, <3>1
    <3>4. FramesPartitionTheText'
      <4>1. DOMAIN frames' = 1 .. Len(frames)
        BY <2>3, <3>1
      <4>. QED BY <2>1, <2>4, <2>5, <3>1, <3>3, <4>1
               DEF FramesPartitionTheText, FrameIsWellFormed
    <3>. QED BY <2>2, <3>2, <3>4 DEF IInv
  <2>7. CASE text[head].kind = "Word"
    <3>1. PICK group \in IF roomy THEN {Candidate(Window)} ELSE Fitted(Candidate(Window)) :
              /\ frames' = Append(frames, <<head, head + group.count - 1>>)
              /\ head' = head + group.count
      BY <1>2, <2>7 DEF Cut
    <3>. DEFINE last == head + group.count - 1
                k == Len(frames)
    <3>2. group.count \in 1 .. 3 /\ last <= TextLength /\ FrameIsWellFormed(head, last)
      BY <2>1, <2>7, GroupIsFrame DEF MaxGroup
    <3>3. last \in Nat /\ head <= last /\ head' = last + 1 /\ k \in Nat
      <4>1. head' = head + group.count /\ head \in Nat /\ group.count \in 1 .. 3
        BY <2>3, <3>1, <3>2
      <4>2. k \in Nat
        BY <2>3
      <4>. QED BY <4>1, <4>2
    <3>4. frames' = Append(frames, <<head, last>>)
      BY <3>1
    <3>. HIDE DEF last
    <3>5. /\ frames' \in Seq(Nat \X Nat) /\ Len(frames') = k + 1
          /\ frames'[k + 1] = <<head, last>>
          /\ \A n \in 1 .. k : frames'[n] = frames[n]
      BY <2>3, <3>3, <3>4
    <3>. HIDE DEF k
    <3>6. frames'[k + 1][1] = head /\ frames'[k + 1][2] = last
      BY <3>5
    <3>7. Walked'
      <4>1. ASSUME NEW n \in 1 .. k + 1
            PROVE  frames'[n][1] <= frames'[n][2] /\ frames'[n][2] < head'
        <5>1. CASE n = k + 1
          BY <2>3, <3>3, <3>6, <5>1
        <5>2. CASE n \in 1 .. k
          <6>1. frames[n] \in Nat \X Nat /\ frames[n][2] < head /\ frames[n][1] <= frames[n][2]
            BY <2>3, <5>2 DEF k
          <6>. QED BY <2>3, <3>3, <3>5, <5>2, <6>1
        <5>. QED BY <3>3, <5>1, <5>2
      <4>2. head' \in 1 .. TextLength + 1
        BY <2>3, <3>2, <3>3
      <4>. QED BY <3>5, <4>1, <4>2 DEF Walked
    <3>8. \A i \in 1 .. head' - 1 : text[i].kind = "Word" =>
              \E n \in 1 .. k + 1 : frames'[n][1] <= i /\ i <= frames'[n][2]
      <4>. SUFFICES ASSUME NEW i \in 1 .. head' - 1, text[i].kind = "Word"
                    PROVE  \E n \in 1 .. k + 1 : frames'[n][1] <= i /\ i <= frames'[n][2]
        OBVIOUS
      <4>1. CASE i < head
        <5>1. PICK n \in 1 .. k : frames[n][1] <= i /\ i <= frames[n][2]
          BY <2>3, <2>4, <4>1 DEF k
        <5>2. n \in 1 .. k + 1 /\ frames'[n] = frames[n]
          BY <3>3, <3>5
        <5>. QED BY <5>1, <5>2
      <4>2. CASE i >= head
        <5>1. head <= i /\ i <= last /\ k + 1 \in 1 .. k + 1
          BY <2>3, <3>3, <4>2
        <5>. QED BY <3>6, <5>1
      <4>. QED BY <2>3, <4>1, <4>2
    <3>9. ASSUME NEW n \in 1 .. k + 1
          PROVE  /\ n > 1 => frames'[n - 1][2] < frames'[n][1]
                 /\ FrameIsWellFormed(frames'[n][1], frames'[n][2])
      <4>1. CASE n = k + 1
        <5>1. n > 1 => n - 1 \in 1 .. k
          BY <3>3, <4>1
        <5>2. n > 1 => frames'[n - 1][2] < head
          BY <2>3, <3>5, <5>1 DEF k
        <5>. QED BY <3>2, <3>6, <4>1, <5>2
      <4>2. CASE n \in 1 .. k
        <5>1. n > 1 => n - 1 \in 1 .. k
          BY <3>3, <4>2
        <5>2. n > 1 => frames'[n - 1] = frames[n - 1]
          BY <3>5, <5>1
        <5>3. frames'[n] = frames[n]
          BY <3>5, <4>2
        <5>. QED BY <2>4, <4>2, <5>2, <5>3 DEF k
      <4>. QED BY <3>3, <4>1, <4>2
    <3>10. FramesPartitionTheText'
      <4>1. DOMAIN frames' = 1 .. k + 1
        BY <3>5
      <4>. QED BY <2>1, <2>5, <3>8, <3>9, <4>1
               DEF FramesPartitionTheText, FrameIsWellFormed
    <3>. QED BY <2>2, <3>7, <3>10 DEF IInv
  <2>. QED BY <2>6, <2>7
<1>. QED BY <1>1, <1>2

(***************************************************************************)
(* Whatever fits on the display, the frames partition the words of the     *)
(* text: emitNextWord drops none, shows none twice, and no frame crosses a *)
(* boundary or has two lexical words.  For every text of every length.     *)
(***************************************************************************)
THEOREM FramesPartitionText == Spec => []FramesPartitionTheText
<1>1. Init => IInv
  BY IInvInit
<1>2. IInv /\ [Cut]_vars => IInv'
  BY IInvStep
<1>3. IInv => FramesPartitionTheText
  BY DEF IInv
<1>. QED BY <1>1, <1>2, <1>3, PTL DEF Spec

-----------------------------------------------------------------------------
(* The rules, for a text of any length.                                    *)

\* Every event of the text is one that a source may deliver.
WellFormed ==
    /\ TextEnds
    /\ \A j \in 1 .. TextLength : text[j].kind # "End" /\ (Postfixes(text[j]) => text[j].size = "short")

\* The sets that Post and Pre take the maximum of.
PostRun(i, k) == \A j \in i + 1 .. i + k : SamePhrase(j - 1) /\ Postfixes(text[j])
PreRun(i, k) ==
    /\ k < i
    /\ \A j \in i - k .. i - 1 :
          Prefixes(text[j]) /\ SamePhrase(j) /\ ~ Claimed(j) /\ Eligible(text[j], k + Post(i))
    /\ k + Post(i) = 2 => \A j \in i + 1 .. i + Post(i) : text[j].size = "short"

\* A word is inside the text.
LEMMA WordIsInText ==
    ASSUME WellFormed, NEW j \in 1 .. TextLength + EventCapacity, text[j].kind = "Word"
    PROVE  j \in 1 .. TextLength
<1>1. j \notin TextLength + 1 .. TextLength + EventCapacity
  BY DEF WellFormed, TextEnds
<1>. QED BY <1>1, TextLengthAssumption DEF EventCapacity

LEMMA PostProperties ==
    ASSUME NEW i \in Nat
    PROVE  /\ Post(i) \in 0 .. 2
           /\ PostRun(i, Post(i))
           /\ \A k \in 0 .. 2 : PostRun(i, k) => k <= Post(i)
<1>. DEFINE runs == {k \in 0 .. 2 : PostRun(i, k)}
            m == Max(runs)
<1>1. PostRun(i, 0)
  BY DEF PostRun
<1>2. runs \in SUBSET Nat /\ runs # {} /\ \A k \in runs : k <= 2
  BY <1>1
<1>3. m \in runs /\ \A k \in runs : k <= m
  <2>. HIDE DEF runs
  <2>. QED BY <1>2, MaxProperties
<1>4. Post(i) = m
  BY DEF Post, PostRun
<1>. HIDE DEF m
<1>. QED BY <1>3, <1>4

\* Words with a postfix behind them end inside the text; the postfixes are short.
LEMMA PostInText ==
    ASSUME WellFormed, NEW i \in 1 .. TextLength
    PROVE  /\ i + Post(i) <= TextLength
           /\ \A j \in i + 1 .. i + Post(i) : /\ text[j].kind = "Word" /\ Postfixes(text[j])
                                              /\ text[j].size = "short"
<1>. USE TextLengthAssumption
<1>1. i \in Nat /\ i <= TextLength /\ Post(i) \in 0 .. 2 /\ PostRun(i, Post(i))
  BY PostProperties
<1>2. ASSUME NEW j \in i + 1 .. i + Post(i)
      PROVE  j \in 1 .. TextLength /\ text[j].kind = "Word" /\ Postfixes(text[j])
  <2>1. SamePhrase(j - 1) /\ Postfixes(text[j]) /\ (j - 1) + 1 = j
    BY <1>1, <1>2 DEF PostRun
  <2>2. text[j].kind = "Word"
    BY <2>1 DEF SamePhrase
  <2>3. j \in 1 .. TextLength + EventCapacity
    BY <1>1, <1>2 DEF EventCapacity
  <2>. QED BY <2>1, <2>2, <2>3, WordIsInText
<1>3. i + Post(i) <= TextLength
  <2>1. CASE Post(i) = 0
    BY <1>1, <2>1
  <2>2. CASE Post(i) # 0
    <3>1. i + Post(i) \in i + 1 .. i + Post(i)
      BY <1>1, <2>2
    <3>. QED BY <1>2, <3>1
  <2>. QED BY <2>1, <2>2
<1>. QED BY <1>2, <1>3 DEF WellFormed

LEMMA PreProperties ==
    ASSUME WellFormed, NEW i \in 1 .. TextLength
    PROVE  /\ Pre(i) \in 0 .. 2 - Post(i)
           /\ PreRun(i, Pre(i))
           /\ \A k \in 0 .. 2 - Post(i) : PreRun(i, k) => k <= Pre(i)
<1>. USE TextLengthAssumption
<1>. DEFINE runs == {k \in 0 .. 2 - Post(i) : PreRun(i, k)}
            m == Max(runs)
<1>1. i \in Nat /\ Post(i) \in 0 .. 2
  BY PostProperties
<1>2. PreRun(i, 0)
  <2>1. 0 < i /\ \A j \in i - 0 .. i - 1 : FALSE
    BY <1>1
  <2>. QED BY <2>1, PostInText DEF PreRun
<1>3. runs \in SUBSET Nat /\ runs # {} /\ \A k \in runs : k <= 2
  BY <1>1, <1>2
<1>4. m \in runs /\ \A k \in runs : k <= m
  <2>. HIDE DEF runs
  <2>. QED BY <1>3, MaxProperties
<1>5. Pre(i) = m
  BY DEF Pre, PreRun
<1>. HIDE DEF m
<1>. QED BY <1>4, <1>5

\* A frame of the rules is a stretch of words around its lexical word.
LEMMA FrameOfProperties ==
    ASSUME WellFormed, NEW i \in 1 .. TextLength, Lexical(i)
    PROVE  /\ FrameOf(i) = <<i - Pre(i), i + Post(i)>>
           /\ i - Pre(i) \in 1 .. i /\ i + Post(i) \in i .. TextLength
           /\ \A j \in i - Pre(i) .. i + Post(i) : text[j].kind = "Word"
<1>. USE TextLengthAssumption
<1>1. Post(i) \in 0 .. 2 /\ Pre(i) \in 0 .. 2 /\ PreRun(i, Pre(i)) /\ i \in Nat
  <2>1. Post(i) \in 0 .. 2
    BY PostProperties
  <2>. QED BY <2>1, PreProperties
<1>2. i - Pre(i) \in 1 .. i /\ i + Post(i) \in i .. TextLength
  BY <1>1, PostInText DEF PreRun
<1>3. ASSUME NEW j \in i - Pre(i) .. i + Post(i)
      PROVE  text[j].kind = "Word"
  <2>1. CASE j < i
    <3>1. j \in i - Pre(i) .. i - 1
      BY <1>1, <1>3, <2>1
    <3>. QED BY <1>1, <3>1 DEF PreRun, SamePhrase
  <2>2. CASE j = i
    BY <2>2 DEF Lexical
  <2>3. CASE j > i
    <3>1. j \in i + 1 .. i + Post(i)
      BY <1>1, <1>3, <2>3
    <3>. QED BY <3>1, PostInText
  <2>. QED BY <1>1, <1>3, <2>1, <2>2, <2>3
<1>. QED BY <1>2, <1>3 DEF FrameOf

\* The frames of the rules, one by one: those around a lexical word, and the words that
\* are left over.
IsGroupFrame(g) == \E i \in 1 .. TextLength : Lexical(i) /\ g = FrameOf(i)
IsLoneFrame(g) ==
    \E n \in 1 .. TextLength :
        /\ g = <<n, n>> /\ text[n].kind = "Word"
        /\ \A i \in 1 .. TextLength : Lexical(i) => n < FrameOf(i)[1] \/ n > FrameOf(i)[2]

LEMMA ExpectedIs == \A g : g \in Expected <=> IsGroupFrame(g) \/ IsLoneFrame(g)
BY DEF Expected, IsGroupFrame, IsLoneFrame

\* Every frame is a stretch of words of the text.
LEMMA ExpectedIsWords ==
    ASSUME WellFormed, NEW g \in Expected
    PROVE  /\ g[1] \in 1 .. TextLength /\ g[2] \in g[1] .. TextLength
           /\ \A j \in g[1] .. g[2] : text[j].kind = "Word"
<1>. USE TextLengthAssumption
<1>1. CASE IsGroupFrame(g)
  <2>1. PICK i \in 1 .. TextLength : Lexical(i) /\ g = FrameOf(i)
    BY <1>1 DEF IsGroupFrame
  <2>2. /\ g[1] = i - Pre(i) /\ g[2] = i + Post(i)
        /\ i - Pre(i) \in 1 .. i /\ i + Post(i) \in i .. TextLength
        /\ \A j \in i - Pre(i) .. i + Post(i) : text[j].kind = "Word"
    BY <2>1, FrameOfProperties
  <2>. QED BY <2>2
<1>2. CASE IsLoneFrame(g)
  BY <1>2 DEF IsLoneFrame
<1>. QED BY <1>1, <1>2, ExpectedIs

\* Two lexical words do not claim the same word: what the first has as a postfix, the
\* second does not take as a prefix.
LEMMA GroupsApart ==
    ASSUME WellFormed, NEW i \in 1 .. TextLength, NEW j \in 1 .. TextLength,
           Lexical(i), Lexical(j), i < j
    PROVE  i + Post(i) < j - Pre(j)
<1>. USE TextLengthAssumption
<1>1. /\ Post(i) \in 0 .. 2 /\ Post(j) \in 0 .. 2 /\ Pre(j) \in 0 .. 2 /\ PreRun(j, Pre(j))
      /\ i \in Nat /\ j \in Nat
  <2>1. Post(i) \in 0 .. 2 /\ Post(j) \in 0 .. 2
    BY PostProperties
  <2>. QED BY <2>1, PreProperties
<1>. DEFINE p == j - Pre(j)
<1>2. SUFFICES ASSUME p <= i + Post(i) PROVE FALSE
  BY <1>1
<1>3. j > i + Post(i)
  <2>1. SUFFICES ASSUME j <= i + Post(i) PROVE FALSE
    BY <1>1
  <2>2. j \in i + 1 .. i + Post(i)
    BY <1>1, <2>1
  <2>. QED BY <2>2, PostInText DEF Lexical, Postfixes
<1>4. p \in j - Pre(j) .. j - 1
  BY <1>1, <1>2, <1>3
<1>5. Prefixes(text[p]) /\ ~ Claimed(p)
  <2>. HIDE DEF p
  <2>. QED BY <1>1, <1>4 DEF PreRun
<1>6. p > i
  <2>1. SUFFICES ASSUME p <= i PROVE FALSE
    BY <1>1
  <2>2. i \in j - Pre(j) .. j - 1
    BY <1>1, <2>1
  <2>. QED BY <1>1, <2>2 DEF PreRun, Lexical, Prefixes
<1>7. i \in 1 .. p - 1
  BY <1>1, <1>6
<1>. HIDE DEF p
<1>. QED BY <1>2, <1>5, <1>7 DEF Claimed

LEMMA ExpectedApart ==
    ASSUME WellFormed, NEW g \in Expected, NEW f \in Expected, g # f
    PROVE  g[2] < f[1] \/ f[2] < g[1]
<1>. USE TextLengthAssumption
<1>1. CASE IsGroupFrame(g) /\ IsGroupFrame(f)
  <2>1. PICK i \in 1 .. TextLength : Lexical(i) /\ g = FrameOf(i)
    BY <1>1 DEF IsGroupFrame
  <2>2. PICK j \in 1 .. TextLength : Lexical(j) /\ f = FrameOf(j)
    BY <1>1 DEF IsGroupFrame
  <2>3. /\ g[1] = i - Pre(i) /\ g[2] = i + Post(i)
        /\ f[1] = j - Pre(j) /\ f[2] = j + Post(j)
    BY <2>1, <2>2, FrameOfProperties
  <2>4. i < j \/ j < i
    BY <2>1, <2>2
  <2>. QED BY <2>1, <2>2, <2>3, <2>4, GroupsApart
<1>2. ASSUME NEW a \in Expected, NEW b \in Expected, IsLoneFrame(a), IsGroupFrame(b)
      PROVE  a[2] < b[1] \/ b[2] < a[1]
  <2>1. PICK n \in 1 .. TextLength :
          /\ a = <<n, n>>
          /\ \A i \in 1 .. TextLength : Lexical(i) => n < FrameOf(i)[1] \/ n > FrameOf(i)[2]
    BY <1>2 DEF IsLoneFrame
  <2>2. PICK i \in 1 .. TextLength : Lexical(i) /\ b = FrameOf(i)
    BY <1>2 DEF IsGroupFrame
  <2>3. b[2] \in Nat
    BY ExpectedIsWords
  <2>. QED BY <2>1, <2>2, <2>3
<1>3. CASE IsLoneFrame(g) /\ IsLoneFrame(f)
  <2>1. PICK n \in 1 .. TextLength : g = <<n, n>>
    BY <1>3 DEF IsLoneFrame
  <2>2. PICK m \in 1 .. TextLength : f = <<m, m>>
    BY <1>3 DEF IsLoneFrame
  <2>. QED BY <2>1, <2>2
<1>. QED BY <1>1, <1>2, <1>3, ExpectedIs

-----------------------------------------------------------------------------
(* The window at the head, in terms of the text.                           *)

\* The chain of prefixes that starts at the head is the longest one in a group.
LEMMA HeadChain ==
    ASSUME NEW a, a = ChainEnd(Window), head \in 1 .. TextLength, text[head].kind = "Word"
    PROVE  /\ a \in 1 .. 3 /\ Window[a] = text[head + a - 1] /\ text[head + a - 1].kind = "Word"
           /\ \A j \in head .. head + a - 2 : Prefixes(text[j]) /\ SamePhrase(j)
           /\ \A b \in 1 .. 3 : (\A j \in head .. head + b - 2 : Prefixes(text[j]) /\ SamePhrase(j)) => b <= a
<1>. USE TextLengthAssumption
<1>1. \A i \in 1 .. 4 : Window[i] = text[head + i - 1]
  BY DEF Window, EventCapacity
<1>2. a \in 1 .. 3 /\ \A i \in 1 .. a - 1 : Prefixes(Window[i]) /\ Joined(Window, i)
  BY ChainEndProperties DEF MaxGroup
<1>3. ASSUME NEW i \in 1 .. a - 1
      PROVE  /\ Prefixes(text[head + i - 1]) /\ ~ text[head + i - 1].close
             /\ text[head + i].kind = "Word" /\ ~ text[head + i].open
  <2>1. i \in 1 .. 4 /\ i + 1 \in 1 .. 4 /\ head + (i + 1) - 1 = head + i
    BY <1>2, <1>3
  <2>2. Window[i] = text[head + i - 1] /\ Window[i + 1] = text[head + i]
    BY <1>1, <2>1
  <2>. QED BY <1>2, <2>2 DEF Joined
<1>4. ASSUME NEW j \in head .. head + a - 1
      PROVE  text[j].kind = "Word"
  <2>1. CASE j = head
    BY <2>1
  <2>2. CASE j # head
    <3>1. j - head \in 1 .. a - 1 /\ head + (j - head) = j
      BY <1>2, <1>4, <2>2
    <3>. QED BY <1>3, <3>1
  <2>. QED BY <2>1, <2>2
<1>5. ASSUME NEW j \in head .. head + a - 2
      PROVE  Prefixes(text[j]) /\ SamePhrase(j)
  <2>1. /\ j - head + 1 \in 1 .. a - 1 /\ head + (j - head + 1) - 1 = j
        /\ head + (j - head + 1) = j + 1 /\ j \in head .. head + a - 1
    BY <1>2, <1>5
  <2>2. /\ Prefixes(text[j]) /\ ~ text[j].close
        /\ text[j + 1].kind = "Word" /\ ~ text[j + 1].open
    BY <1>3, <2>1
  <2>. QED BY <1>4, <2>1, <2>2 DEF SamePhrase
<1>6. ASSUME NEW b \in 1 .. 3, \A j \in head .. head + b - 2 : Prefixes(text[j]) /\ SamePhrase(j)
      PROVE  b <= a
  <2>1. ASSUME NEW i \in 1 .. b - 1
        PROVE  Prefixes(Window[i]) /\ Joined(Window, i)
    <3>1. /\ i \in 1 .. 4 /\ i + 1 \in 1 .. 4 /\ head + (i + 1) - 1 = head + i
          /\ head + i - 1 \in head .. head + b - 2 /\ (head + i - 1) + 1 = head + i
      BY <1>6, <2>1
    <3>2. Window[i] = text[head + i - 1] /\ Window[i + 1] = text[head + i]
      BY <1>1, <3>1
    <3>3. Prefixes(text[head + i - 1]) /\ SamePhrase(head + i - 1)
      BY <1>6, <3>1
    <3>. QED BY <3>1, <3>2, <3>3 DEF Joined, SamePhrase
  <2>. QED BY <2>1, ChainEndIsLast DEF MaxGroup
<1>7. head + a - 1 \in head .. head + a - 1 /\ Window[a] = text[head + a - 1]
  BY <1>1, <1>2
<1>. QED BY <1>2, <1>4, <1>5, <1>6, <1>7

\* The run of postfixes in the window is what the text has there.
LEMMA HeadRun ==
    ASSUME NEW a \in 1 .. 3, NEW r, r = RunEnd(Window, a), head \in 1 .. TextLength,
           text[head + a - 1].kind = "Word"
    PROVE  /\ r \in a .. 4
           /\ \A k \in 0 .. 4 - a : PostRun(head + a - 1, k) <=> k <= r - a
<1>. USE TextLengthAssumption
<1>1. \A i \in 1 .. 4 : Window[i] = text[head + i - 1]
  BY DEF Window, EventCapacity
<1>2. r \in a .. 4 /\ \A i \in a .. r - 1 : Joined(Window, i) /\ Postfixes(Window[i + 1])
  BY RunEndProperties DEF MaxGroup, EventCapacity
<1>3. ASSUME NEW i \in a .. 3
      PROVE  /\ Joined(Window, i) <=> /\ ~ text[head + i - 1].close
                                      /\ text[head + i].kind = "Word" /\ ~ text[head + i].open
             /\ Postfixes(Window[i + 1]) <=> Postfixes(text[head + i])
  <2>1. i \in 1 .. 4 /\ i + 1 \in 1 .. 4 /\ head + (i + 1) - 1 = head + i
    BY <1>3
  <2>2. Window[i] = text[head + i - 1] /\ Window[i + 1] = text[head + i]
    BY <1>1, <2>1
  <2>. QED BY <2>2 DEF Joined
<1>4. ASSUME NEW k \in 0 .. 4 - a, PostRun(head + a - 1, k)
      PROVE  k <= r - a
  <2>1. ASSUME NEW i \in a .. a + k - 1
        PROVE  Joined(Window, i) /\ Postfixes(Window[i + 1])
    <3>1. /\ i \in a .. 3 /\ head + i \in head + a - 1 + 1 .. head + a - 1 + k
          /\ (head + i) - 1 = head + i - 1 /\ (head + i - 1) + 1 = head + i
      BY <1>4, <2>1
    <3>2. SamePhrase(head + i - 1) /\ Postfixes(text[head + i])
      BY <1>4, <3>1 DEF PostRun
    <3>. QED BY <1>3, <3>1, <3>2 DEF SamePhrase
  <2>2. a + k \in a .. 4
    BY <1>4
  <2>3. a + k <= r
    BY <2>1, <2>2, RunEndIsLast DEF MaxGroup, EventCapacity
  <2>. QED BY <1>2, <1>4, <2>3
<1>5. ASSUME NEW k \in 0 .. 4 - a, k <= r - a
      PROVE  PostRun(head + a - 1, k)
  <2>1. ASSUME NEW j \in head + a - 1 + 1 .. head + a - 1 + k
        PROVE  SamePhrase(j - 1) /\ Postfixes(text[j])
    <3>1. /\ j - head \in a .. r - 1 /\ j - head \in a .. 3
          /\ head + (j - head) = j /\ head + (j - head) - 1 = j - 1 /\ (j - 1) + 1 = j
      BY <1>2, <1>5, <2>1
    <3>2. Joined(Window, j - head) /\ Postfixes(Window[(j - head) + 1])
      BY <1>2, <3>1
    <3>3. ~ text[j - 1].close /\ text[j].kind = "Word" /\ ~ text[j].open /\ Postfixes(text[j])
      BY <1>3, <3>1, <3>2
    <3>4. text[j - 1].kind = "Word"
      <4>1. CASE j - 1 = head + a - 1
        BY <4>1
      <4>2. CASE j - 1 # head + a - 1
        <5>1. /\ j - 1 - head \in a .. r - 1 /\ j - 1 - head \in a .. 3
              /\ head + (j - 1 - head) = j - 1
          BY <1>2, <1>5, <2>1, <4>2
        <5>. QED BY <1>2, <1>3, <5>1
      <4>. QED BY <4>1, <4>2
    <3>. QED BY <3>1, <3>3, <3>4 DEF SamePhrase
  <2>. QED BY <2>1 DEF PostRun
<1>. QED BY <1>2, <1>4, <1>5

\* The group of the resolver has as many postfixes as the rules give its active word,
\* unless the fourth word is a postfix and a prefix leads.
LEMMA HeadPost ==
    ASSUME NEW a \in 1 .. 3, NEW r \in a .. 4, NEW i \in Nat,
           \A k \in 0 .. 4 - a : PostRun(i, k) <=> k <= r - a,
           ~ (r = 4 /\ a > 1)
    PROVE  Post(i) = Min({r, MaxGroup}) - a
<1>1. Min({r, MaxGroup}) = IF r = 4 THEN 3 ELSE r
  <2>. DEFINE m == Min({r, MaxGroup})
  <2>1. {r, MaxGroup} \in SUBSET Nat /\ {r, MaxGroup} # {}
    BY DEF MaxGroup
  <2>2. m \in {r, MaxGroup} /\ m <= r /\ m <= 3
    <3>1. \A y \in {r, MaxGroup} : m <= y
      BY <2>1, MinProperties
    <3>. HIDE DEF m
    <3>2. m <= r /\ m <= MaxGroup
      BY <3>1
    <3>3. m \in {r, MaxGroup}
      BY <2>1, MinProperties DEF m
    <3>. QED BY <3>2, <3>3 DEF MaxGroup
  <2>. HIDE DEF m
  <2>3. m = IF r = 4 THEN 3 ELSE r
    BY <2>2 DEF MaxGroup
  <2>. QED BY <2>3 DEF m
<1>. DEFINE k == (IF r = 4 THEN 3 ELSE r) - a
<1>2. k \in 0 .. 2 /\ k \in 0 .. 4 - a /\ k <= r - a
  OBVIOUS
<1>3. Post(i) \in 0 .. 2 /\ PostRun(i, Post(i)) /\ \A n \in 0 .. 2 : PostRun(i, n) => n <= Post(i)
  BY PostProperties
<1>4. k <= Post(i)
  <2>. HIDE DEF k
  <2>. QED BY <1>2, <1>3
<1>5. \A n \in 0 .. 2 : n <= Post(i) => PostRun(i, n)
  <2>. SUFFICES ASSUME NEW n \in 0 .. 2, n <= Post(i) PROVE PostRun(i, n)
    OBVIOUS
  <2>1. \A j \in i + 1 .. i + n : j \in i + 1 .. i + Post(i)
    BY <1>3
  <2>. QED BY <1>3, <2>1 DEF PostRun
<1>6. ~ (Post(i) > k)
  <2>. SUFFICES ASSUME Post(i) > k PROVE FALSE
    OBVIOUS
  <2>1. k + 1 \in 0 .. 2 /\ k + 1 \in 0 .. 4 - a /\ k + 1 <= Post(i)
    BY <1>2, <1>3
  <2>2. k + 1 <= r - a
    <3>. HIDE DEF k
    <3>. QED BY <1>5, <2>1
  <2>3. r \in Nat /\ a \in Nat
    OBVIOUS
  <2>. QED BY <1>2, <2>1, <2>2, <2>3
<1>7. Post(i) = k
  <2>. HIDE DEF k
  <2>. QED BY <1>2, <1>3, <1>4, <1>6
<1>. QED BY <1>1, <1>7

\* No frame of the rules lies across the head.
Boundary == \A g \in Expected : g[2] < head \/ g[1] >= head

\* What makes Candidate fall back to the head word alone.
Rejected(look, a, last) ==
    \/ look[a].role # "None"
    \/ last = EventCapacity /\ a > 1
    \/ look[a].prep # "ok"
    \/ \E i \in 1 .. Min({last, MaxGroup}) : i # a /\ ~ Eligible(look[i], Min({last, MaxGroup}) - 1)

LEMMA CandidateIs ==
    ASSUME NEW look, NEW a, NEW r, a = ChainEnd(look), r = RunEnd(look, a)
    PROVE  Candidate(look) = IF Rejected(look, a, r) THEN Single
                             ELSE [count |-> Min({r, MaxGroup}), active |-> a]
BY DEF Candidate, Rejected

\* A group that is not rejected is the frame that the rules have around its active word.
LEMMA AcceptedIsExpected ==
    ASSUME WellFormed, head \in 1 .. TextLength, text[head].kind = "Word", Boundary,
           NEW a, NEW r, a = ChainEnd(Window), r = RunEnd(Window, a), ~ Rejected(Window, a, r)
    PROVE  <<head, head + Min({r, MaxGroup}) - 1>> \in Expected
<1>. USE TextLengthAssumption
<1>. DEFINE i == head + a - 1
            count == Min({r, MaxGroup})
<1>1. /\ a \in 1 .. 3 /\ Window[a] = text[i] /\ text[i].kind = "Word"
      /\ \A j \in head .. head + a - 2 : Prefixes(text[j]) /\ SamePhrase(j)
  BY HeadChain
<1>2. /\ r \in a .. 4
      /\ \A k \in 0 .. 4 - a : PostRun(i, k) <=> k <= r - a
  BY <1>1, HeadRun
<1>3. /\ i \in 1 .. TextLength /\ Lexical(i)
  <2>1. i \in 1 .. TextLength + EventCapacity
    BY <1>1 DEF EventCapacity
  <2>2. i \in 1 .. TextLength
    <3>. HIDE DEF i
    <3>. QED BY <1>1, <2>1, WordIsInText
  <2>. QED BY <1>1, <2>2 DEF Rejected, Lexical
<1>4. Post(i) = count - a
  <2>1. ~ (r = 4 /\ a > 1)
    BY DEF Rejected, EventCapacity
  <2>2. i \in Nat
    BY <1>3
  <2>. HIDE DEF i
  <2>. QED BY <1>1, <1>2, <2>1, <2>2, HeadPost
<1>5. /\ Post(i) \in 0 .. 2 /\ Pre(i) \in 0 .. 2 - Post(i)
      /\ \A k \in 0 .. 2 - Post(i) : PreRun(i, k) => k <= Pre(i)
  <2>. HIDE DEF i
  <2>1. Post(i) \in 0 .. 2
    BY <1>3, PostProperties
  <2>. QED BY <1>3, <2>1, PreProperties
<1>6. count \in a .. 3
  <2>1. {r, MaxGroup} \in SUBSET Nat /\ {r, MaxGroup} # {}
    BY <1>1, <1>2 DEF MaxGroup
  <2>2. count \in {r, MaxGroup} /\ \A y \in {r, MaxGroup} : count <= y
    BY <2>1, MinProperties
  <2>. HIDE DEF count
  <2>. QED BY <1>1, <1>2, <2>2 DEF MaxGroup
<1>7. /\ FrameOf(i) = <<i - Pre(i), i + Post(i)>> /\ FrameOf(i) \in Expected
      /\ i - Pre(i) \in 1 .. i
  <2>. HIDE DEF i
  <2>. QED BY <1>3, FrameOfProperties, ExpectedIs DEF IsGroupFrame
<1>8. PreRun(i, a - 1)
  <2>1. ASSUME NEW j \in head .. i - 1
        PROVE  ~ Claimed(j)
    <3>. SUFFICES ASSUME Claimed(j) PROVE FALSE
      OBVIOUS
    <3>1. PICK n \in 1 .. j - 1 : Lexical(n) /\ j <= n + Post(n)
      BY DEF Claimed
    <3>2. n \in 1 .. TextLength /\ n \in Nat /\ j \in Nat
      BY <1>1, <1>3, <2>1
    <3>3. FrameOf(n) = <<n - Pre(n), n + Post(n)>> /\ FrameOf(n) \in Expected
          /\ n - Pre(n) \in 1 .. n /\ n + Post(n) \in Nat
      BY <3>1, <3>2, FrameOfProperties, ExpectedIs DEF IsGroupFrame
    <3>4. n + Post(n) < head \/ n - Pre(n) >= head
      BY <3>3 DEF Boundary
    <3>5. n \in head .. head + a - 2
      BY <1>1, <2>1, <3>1, <3>2, <3>3, <3>4
    <3>. QED BY <1>1, <3>1, <3>5 DEF Lexical, Prefixes
  <2>2. ASSUME NEW j \in head .. i - 1
        PROVE  Prefixes(text[j]) /\ SamePhrase(j) /\ Eligible(text[j], count - 1)
    <3>1. j \in head .. head + a - 2
      BY <1>1, <2>2
    <3>2. /\ j - head + 1 \in 1 .. count /\ j - head + 1 # a /\ j - head + 1 \in 1 .. 4
          /\ head + (j - head + 1) - 1 = j
      BY <1>1, <1>6, <2>2
    <3>3. Window[j - head + 1] = text[j]
      BY <3>2 DEF Window, EventCapacity
    <3>4. Eligible(Window[j - head + 1], count - 1)
      BY <3>2 DEF Rejected
    <3>. QED BY <1>1, <3>1, <3>3, <3>4
  <2>3. i - (a - 1) = head /\ (a - 1) + Post(i) = count - 1 /\ a - 1 < i
    <3>1. i = head + a - 1
      OBVIOUS
    <3>. HIDE DEF i, count
    <3>. QED BY <1>1, <1>3, <1>4, <1>6, <3>1
  <2>4. \A j \in i + 1 .. i + Post(i) : text[j].size = "short"
    <3>. HIDE DEF i
    <3>. QED BY <1>3, PostInText
  <2>. HIDE DEF i, count
  <2>. QED BY <2>1, <2>2, <2>3, <2>4 DEF PreRun
<1>9. Pre(i) = a - 1
  <2>1. a - 1 \in 0 .. 2 - Post(i)
    <3>. HIDE DEF i, count
    <3>. QED BY <1>1, <1>4, <1>5, <1>6
  <2>2. a - 1 <= Pre(i)
    <3>. HIDE DEF i
    <3>. QED BY <1>5, <1>8, <2>1
  <2>3. i + Post(i) < head \/ i - Pre(i) >= head
    <3>. HIDE DEF i
    <3>. QED BY <1>7 DEF Boundary
  <2>4. i = head + a - 1
    OBVIOUS
  <2>. HIDE DEF i
  <2>. QED BY <1>1, <1>3, <1>5, <2>2, <2>3, <2>4
<1>10. i - Pre(i) = head /\ i + Post(i) = head + count - 1
  <2>1. i = head + a - 1
    OBVIOUS
  <2>. HIDE DEF i, count
  <2>. QED BY <1>1, <1>4, <1>6, <1>9, <2>1
<1>. HIDE DEF i, count
<1>11. FrameOf(i) = <<head, head + count - 1>>
  BY <1>7, <1>10
<1>. QED BY <1>7, <1>11 DEF count

\* A word whose group is rejected belongs to no group of the rules.
LEMMA RejectedIsExpected ==
    ASSUME WellFormed, head \in 1 .. TextLength, text[head].kind = "Word", Boundary,
           NEW a, NEW r, a = ChainEnd(Window), r = RunEnd(Window, a), Rejected(Window, a, r)
    PROVE  <<head, head>> \in Expected
<1>. USE TextLengthAssumption
<1>1. /\ a \in 1 .. 3 /\ Window[a] = text[head + a - 1] /\ text[head + a - 1].kind = "Word"
      /\ \A j \in head .. head + a - 2 : Prefixes(text[j]) /\ SamePhrase(j)
      /\ \A b \in 1 .. 3 : (\A j \in head .. head + b - 2 : Prefixes(text[j]) /\ SamePhrase(j)) => b <= a
  BY HeadChain
<1>2. /\ r \in a .. 4
      /\ \A k \in 0 .. 4 - a : PostRun(head + a - 1, k) <=> k <= r - a
  BY <1>1, HeadRun
<1>3. ASSUME NEW i \in 1 .. TextLength, Lexical(i),
             ~ (head < FrameOf(i)[1] \/ head > FrameOf(i)[2])
      PROVE  FALSE
  <2>1. /\ FrameOf(i) = <<i - Pre(i), i + Post(i)>> /\ FrameOf(i) \in Expected
        /\ i - Pre(i) \in 1 .. i /\ i + Post(i) \in i .. TextLength
    BY <1>3, FrameOfProperties, ExpectedIs DEF IsGroupFrame
  <2>2. /\ Post(i) \in 0 .. 2 /\ PostRun(i, Post(i)) /\ i \in Nat
        /\ \A k \in 0 .. 2 : PostRun(i, k) => k <= Post(i)
    BY PostProperties
  <2>3. Pre(i) \in 0 .. 2 - Post(i) /\ PreRun(i, Pre(i))
    BY PreProperties
  <2>4. i - Pre(i) = head
    <3>1. i - Pre(i) <= head /\ head <= i + Post(i)
      BY <1>3, <2>1
    <3>2. i + Post(i) < head \/ i - Pre(i) >= head
      BY <2>1 DEF Boundary
    <3>. QED BY <2>1, <2>2, <2>3, <3>1, <3>2
  <2>5. \A j \in head .. i - 1 : Prefixes(text[j]) /\ SamePhrase(j) /\ Eligible(text[j], Pre(i) + Post(i))
    BY <2>3, <2>4 DEF PreRun
  <2>6. Pre(i) + 1 \in 1 .. 3 /\ head + (Pre(i) + 1) - 2 = i - 1 /\ Pre(i) + 1 = i - head + 1
    BY <2>2, <2>3, <2>4
  <2>7. Pre(i) + 1 <= a
    BY <1>1, <2>5, <2>6
  <2>8. i = head + a - 1
    <3>1. SUFFICES ASSUME i # head + a - 1 PROVE FALSE
      OBVIOUS
    <3>2. i \in head .. head + a - 2
      BY <1>1, <2>2, <2>3, <2>4, <2>7, <3>1
    <3>. QED BY <1>1, <1>3, <3>2 DEF Lexical, Prefixes
  <2>9. a = Pre(i) + 1
    BY <1>1, <2>2, <2>3, <2>4, <2>8
  <2>10. ~ (r = 4 /\ a > 1)
    <3>1. SUFFICES ASSUME r = 4, a > 1 PROVE FALSE
      OBVIOUS
    <3>2. 4 - a \in 0 .. 4 - a /\ 4 - a <= r - a /\ 4 - a \in 0 .. 2
      BY <1>1, <3>1
    <3>3. 4 - a <= Post(i)
      BY <1>2, <2>2, <2>8, <3>2
    <3>. QED BY <1>1, <2>2, <2>3, <2>9, <3>1, <3>3
  <2>11. Post(i) = Min({r, MaxGroup}) - a
    BY <1>1, <1>2, <2>2, <2>8, <2>10, HeadPost
  <2>. DEFINE count == Min({r, MaxGroup})
  <2>12. count = a + Post(i) /\ count - 1 = Pre(i) + Post(i) /\ count \in 1 .. 3
    <3>1. {r, MaxGroup} \in SUBSET Nat /\ {r, MaxGroup} # {}
      BY <1>1, <1>2 DEF MaxGroup
    <3>2. count \in Nat
      BY <3>1, MinProperties
    <3>3. Post(i) = count - a
      BY <2>11
    <3>. HIDE DEF count
    <3>. QED BY <1>1, <2>2, <2>3, <2>9, <3>2, <3>3
  <2>. HIDE DEF count
  <2>13. ASSUME NEW x \in 1 .. count, x # a
         PROVE  Eligible(Window[x], count - 1)
    <3>1. Window[x] = text[head + x - 1]
      BY <2>12 DEF Window, EventCapacity
    <3>2. CASE x < a
      <4>1. head + x - 1 \in head .. i - 1
        BY <1>1, <2>8, <2>12, <2>13, <3>2
      <4>. QED BY <2>5, <2>12, <3>1, <4>1
    <3>3. CASE x > a
      <4>1. head + x - 1 \in i + 1 .. i + Post(i)
        <5>1. a \in 1 .. 3 /\ Post(i) \in 0 .. 2 /\ head \in Nat /\ i = head + a - 1
          BY <1>1, <2>2, <2>8
        <5>2. x \in Nat /\ x <= count
          BY <2>12
        <5>3. a + 1 <= x /\ x <= a + Post(i)
          BY <2>12, <3>3, <5>1, <5>2
        <5>. QED BY <5>1, <5>2, <5>3
      <4>2. text[head + x - 1].size = "short"
        BY <4>1, PostInText
      <4>. QED BY <3>1, <4>2 DEF Eligible
    <3>. QED BY <1>1, <2>12, <2>13, <3>2, <3>3
  <2>14. Window[a].role = "None" /\ Window[a].prep = "ok"
    BY <1>1, <1>3, <2>8 DEF Lexical
  <2>. QED BY <2>10, <2>13, <2>14 DEF Rejected, EventCapacity, count
<1>4. IsLoneFrame(<<head, head>>)
  BY <1>3 DEF IsLoneFrame
<1>. QED BY <1>4, ExpectedIs

\* The frame that the resolver cuts at the head is the one the rules have there.
LEMMA HeadFrameIsExpected ==
    ASSUME WellFormed, head \in 1 .. TextLength, text[head].kind = "Word", Boundary
    PROVE  <<head, head + Candidate(Window).count - 1>> \in Expected
<1>. DEFINE a == ChainEnd(Window)
            r == RunEnd(Window, a)
<1>1. CASE Rejected(Window, a, r)
  <2>1. Candidate(Window) = Single
    BY <1>1, CandidateIs
  <2>2. Candidate(Window).count = 1 /\ head + 1 - 1 = head
    BY <2>1, TextLengthAssumption DEF Single
  <2>. HIDE DEF a, r
  <2>3. <<head, head>> \in Expected
    BY <1>1, RejectedIsExpected DEF a, r
  <2>. QED BY <2>2, <2>3
<1>2. CASE ~ Rejected(Window, a, r)
  <2>1. Candidate(Window).count = Min({r, MaxGroup})
    BY <1>2, CandidateIs
  <2>2. <<head, head + Min({r, MaxGroup}) - 1>> \in Expected
    BY <1>2, AcceptedIsExpected
  <2>. QED BY <2>1, <2>2
<1>. QED BY <1>1, <1>2

(***************************************************************************)
(* Along the walk the frames cut so far are those of the rules that end    *)
(* before the head, and no frame of the rules lies across it.              *)
(***************************************************************************)
FrameSet == {frames[n] : n \in DOMAIN frames}
FollowsTheRules == roomy => Boundary /\ FrameSet = {g \in Expected : g[2] < head}

RInv == WellFormed /\ FollowsTheRules

LEMMA InitWellFormed ==
    ASSUME Init
    PROVE  WellFormed
<1>. USE TextLengthAssumption
<1>1. PICK body \in [1 .. TextLength -> Vocabulary] :
          text = body \o [i \in 1 .. EventCapacity |-> End]
  BY DEF Init
<1>. DEFINE tail == [i \in 1 .. EventCapacity |-> End]
            All == Vocabulary \cup {End}
<1>2. body \in Seq(All) /\ Len(body) = TextLength /\ tail \in Seq(All) /\ Len(tail) = 4
  BY DEF EventCapacity
<1>3. ASSUME NEW j \in 1 .. TextLength
      PROVE  text[j] \in Vocabulary
  <2>1. text = body \o tail
    BY <1>1
  <2>. HIDE DEF tail, All
  <2>2. j \in 1 .. Len(body) + Len(tail) /\ j <= Len(body)
    BY <1>2
  <2>3. text[j] = body[j]
    BY <1>2, <2>1, <2>2, ConcatProperties
  <2>. QED BY <2>3
<1>. QED BY <1>3, InitTextEnds, VocabularyAssumption DEF WellFormed

LEMMA InitFollows ==
    ASSUME Init
    PROVE  FollowsTheRules
<1>1. WellFormed /\ head = 1 /\ frames = << >>
  BY InitWellFormed DEF Init
<1>2. FrameSet = {}
  BY <1>1 DEF FrameSet
<1>3. \A g \in Expected : g[1] \in Nat /\ g[2] \in Nat /\ g[1] >= 1 /\ g[2] >= 1
  BY <1>1, ExpectedIsWords, TextLengthAssumption
<1>. QED BY <1>1, <1>2, <1>3 DEF FollowsTheRules, Boundary

\* The frames of the rules depend on the text alone.
LEMMA ExpectedStays ==
    ASSUME text' = text
    PROVE  Expected' = Expected /\ (WellFormed => WellFormed')
<1>1. Expected' = Expected
  BY DEF Expected, FrameOf, Pre, Post, Claimed, SamePhrase, Lexical
<1>2. WellFormed => WellFormed'
  BY DEF WellFormed, TextEnds
<1>. QED BY <1>1, <1>2

LEMMA RInvStep ==
    ASSUME IInv, RInv, [Cut]_vars
    PROVE  RInv'
<1>. USE TextLengthAssumption
<1>1. CASE UNCHANGED vars
  <2>1. /\ text' = text /\ head' = head /\ frames' = frames /\ roomy' = roomy
    BY <1>1 DEF vars
  <2>2. Expected' = Expected /\ WellFormed'
    BY <2>1, ExpectedStays DEF RInv
  <2>. QED BY <2>1, <2>2 DEF RInv, FollowsTheRules, Boundary, FrameSet
<1>2. ASSUME Cut PROVE RInv'
  <2>1. /\ text' = text /\ roomy' = roomy /\ text[head].kind # "End" /\ WellFormed
        /\ TextEnds /\ Walked
    BY <1>2 DEF Cut, RInv, IInv
  <2>2. Expected' = Expected /\ WellFormed'
    BY <2>1, ExpectedStays
  <2>3. head \in 1 .. TextLength /\ frames \in Seq(Nat \X Nat)
    BY <2>1 DEF Walked, TextEnds, EventCapacity
  <2>4. \A g \in Expected : /\ g[1] \in 1 .. TextLength /\ g[2] \in g[1] .. TextLength
                            /\ \A j \in g[1] .. g[2] : text[j].kind = "Word"
    BY <2>1, ExpectedIsWords
  <2>5. SUFFICES ASSUME roomy
                 PROVE  /\ \A g \in Expected : g[2] < head' \/ g[1] >= head'
                        /\ FrameSet' = {g \in Expected : g[2] < head'}
    BY <2>1, <2>2 DEF RInv, FollowsTheRules, Boundary
  <2>6. Boundary /\ FrameSet = {g \in Expected : g[2] < head}
    BY <2>5 DEF RInv, FollowsTheRules
  <2>7. CASE text[head].kind # "Word"
    <3>1. head' = head + 1 /\ frames' = frames
      BY <1>2, <2>7 DEF Cut
    <3>2. ASSUME NEW g \in Expected
          PROVE  (g[2] < head' <=> g[2] < head) /\ (g[2] < head' \/ g[1] >= head')
      <4>1. head \notin g[1] .. g[2]
        BY <2>4, <2>7
      <4>2. g[1] \in Nat /\ g[2] \in Nat /\ head \in Nat /\ g[1] <= g[2]
        BY <2>3, <2>4
      <4>3. head < g[1] \/ head > g[2]
        BY <4>1, <4>2
      <4>. QED BY <3>1, <4>2, <4>3
    <3>3. FrameSet' = FrameSet
      BY <3>1 DEF FrameSet
    <3>. QED BY <2>6, <3>2, <3>3
  <2>8. CASE text[head].kind = "Word"
    <3>. DEFINE last == head + Candidate(Window).count - 1
                f == <<head, last>>
    <3>1. frames' = Append(frames, f) /\ head' = head + Candidate(Window).count
      BY <1>2, <2>5, <2>8 DEF Cut
    <3>2. f \in Expected
      BY <2>1, <2>3, <2>6, <2>8, HeadFrameIsExpected
    <3>3. f[1] = head /\ f[2] = last /\ last \in head .. TextLength /\ head' = last + 1
      <4>1. Candidate(Window).count \in 1 .. 3
        BY CandidateIsGrouped DEF Grouped, MaxGroup
      <4>2. f[1] = head /\ f[2] = last
        OBVIOUS
      <4>3. last \in head .. TextLength
        <5>. HIDE DEF f, last
        <5>. QED BY <2>4, <3>2, <4>2
      <4>4. head' = last + 1
        BY <2>3, <3>1, <4>1
      <4>. QED BY <4>2, <4>3, <4>4
    <3>. HIDE DEF f, last
    <3>4. ASSUME NEW g \in Expected, g # f
          PROVE  (g[2] < head' <=> g[2] < head) /\ (g[2] < head' \/ g[1] >= head')
      <4>1. g[2] < f[1] \/ f[2] < g[1]
        BY <2>1, <3>2, <3>4, ExpectedApart
      <4>2. g[1] \in Nat /\ g[2] \in Nat /\ head \in Nat /\ g[1] <= g[2] /\ last \in Nat /\ head <= last
        BY <2>3, <2>4, <3>3
      <4>. QED BY <3>3, <4>1, <4>2
    <3>5. f[2] < head'
      BY <2>3, <3>3
    <3>6. FrameSet' = FrameSet \cup {f}
      <4>. DEFINE k == Len(frames)
      <4>1. /\ DOMAIN frames = 1 .. k /\ DOMAIN frames' = 1 .. k + 1 /\ k \in Nat
            /\ frames'[k + 1] = f /\ \A n \in 1 .. k : frames'[n] = frames[n]
        <5>1. f \in Nat \X Nat
          BY <2>3, <3>3 DEF f
        <5>. QED BY <2>3, <3>1, <5>1
      <4>. HIDE DEF k
      <4>2. \A n \in 1 .. k + 1 : n = k + 1 \/ n \in 1 .. k
        BY <4>1
      <4>3. k + 1 \in 1 .. k + 1 /\ \A n \in 1 .. k : n \in 1 .. k + 1
        BY <4>1
      <4>. QED BY <4>1, <4>2, <4>3 DEF FrameSet
    <3>. QED BY <2>6, <3>2, <3>4, <3>5, <3>6
  <2>. QED BY <2>7, <2>8
<1>. QED BY <1>1, <1>2

(***************************************************************************)
(* When everything fits, the groups that emitNextWord cuts with a window   *)
(* of four events are those of the rules for the text as a whole: two      *)
(* postfixes first, then the nearest prefixes within the letter limits.    *)
(* For every text of every length.                                         *)
(***************************************************************************)
THEOREM FramesFollowRules == Spec => []FramesFollowTheRules
<1>1. Init => RInv
  BY InitWellFormed, InitFollows DEF RInv
<1>2. Init => IInv
  BY IInvInit
<1>3. IInv /\ RInv /\ [Cut]_vars => IInv' /\ RInv'
  BY IInvStep, RInvStep
<1>4. IInv /\ RInv => FramesFollowTheRules
  <2>. SUFFICES ASSUME IInv, RInv, roomy, text[head].kind = "End"
                PROVE  FrameSet = Expected
    BY DEF FramesFollowTheRules, FrameSet
  <2>1. head = TextLength + 1
    BY TextLengthAssumption DEF IInv, Walked, RInv, WellFormed
  <2>2. \A g \in Expected : g[2] < head
    BY <2>1, ExpectedIsWords, TextLengthAssumption DEF RInv
  <2>. QED BY <2>2 DEF RInv, FollowsTheRules
<1>. QED BY <1>1, <1>2, <1>3, <1>4, PTL DEF Spec
=============================================================================
