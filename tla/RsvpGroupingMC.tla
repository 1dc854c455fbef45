----------------------------- MODULE RsvpGroupingMC -----------------------------
(***************************************************************************)
(* The resolver walks over a whole text, one frame after another, and the  *)
(* frames it cuts are compared with the rules of spec 0005 and spec 0007,  *)
(* stated here for the text as a whole instead of for a window of four.    *)
(***************************************************************************)
EXTENDS RsvpGrouping

CONSTANTS Vocabulary,  \* the events a text is made of
          TextLength   \* bound: events in a text

ASSUME TextLengthAssumption == TextLength \in Nat

\* The end of the book comes after the text.  The postfixes are an exact list of forms of
\* two letters at most (RsvpCompanionPolicy.cpp).
ASSUME VocabularyAssumption ==
    \A e \in Vocabulary : e \in Event /\ e.kind # "End" /\ (Postfixes(e) => e.size = "short")

VARIABLES text,    \* the events; ends in a run of End events
          head,    \* the next event to show
          frames,  \* the frames cut so far, as <<first, last>>
          roomy    \* every group fits on the display

vars == <<text, head, frames, roomy>>

Plain == [kind |-> "Word", role |-> "None", size |-> "long",
          open |-> FALSE, close |-> FALSE, prep |-> "ok"]
End == [Plain EXCEPT !.kind = "End"]
Forward(s) == [Plain EXCEPT !.role = "Forward", !.size = s]
\* The exact backward and bidirectional forms are all short.
Words ==
    {Plain, [Plain EXCEPT !.close = TRUE], [Plain EXCEPT !.open = TRUE],
     [Plain EXCEPT !.kind = "Paragraph"], [Plain EXCEPT !.prep = "overflow"],
     Forward("short"), Forward("medium"), Forward("long"),
     [Plain EXCEPT !.role = "Backward", !.size = "short"],
     [Plain EXCEPT !.role = "Bidirectional", !.size = "short"]}

Init ==
    /\ \E body \in [1 .. TextLength -> Vocabulary] :
          text = body \o [i \in 1 .. EventCapacity |-> End]
    /\ head = 1
    /\ frames = << >>
    /\ roomy \in BOOLEAN

Window == [i \in 1 .. EventCapacity |-> text[head + i - 1]]

\* One frame, or a step over an event that is not a word.
Cut ==
    /\ text[head].kind # "End"
    /\ \/ /\ text[head].kind = "Word"
          /\ \E group \in IF roomy THEN {Candidate(Window)} ELSE Fitted(Candidate(Window)) :
                /\ frames' = Append(frames, <<head, head + group.count - 1>>)
                /\ head' = head + group.count
       \/ /\ text[head].kind # "Word"
          /\ head' = head + 1
          /\ UNCHANGED frames
    /\ UNCHANGED <<text, roomy>>

Spec == Init /\ [][Cut]_vars

-----------------------------------------------------------------------------
Lexical(i) == text[i].kind = "Word" /\ text[i].role = "None" /\ text[i].prep = "ok"

\* Words i and i+1 stand in one phrase.
SamePhrase(i) ==
    /\ text[i].kind = "Word" /\ text[i + 1].kind = "Word"
    /\ ~ text[i].close /\ ~ text[i + 1].open

\* Postfixes of a lexical word come first, at most two of them.
Post(i) == Max({k \in 0 .. 2 : \A j \in i + 1 .. i + k :
                   SamePhrase(j - 1) /\ Postfixes(text[j])})

Claimed(j) == \E i \in 1 .. j - 1 : Lexical(i) /\ j <= i + Post(i)

\* Then the nearest preceding words, while the letter limits allow them.
Pre(i) ==
    Max({k \in 0 .. 2 - Post(i) :
            /\ k < i
            /\ \A j \in i - k .. i - 1 :
                  /\ Prefixes(text[j]) /\ SamePhrase(j)
                  /\ ~ Claimed(j)
                  /\ Eligible(text[j], k + Post(i))
            /\ k + Post(i) = 2 => \A j \in i + 1 .. i + Post(i) : text[j].size = "short"})

FrameOf(i) == <<i - Pre(i), i + Post(i)>>

Expected ==
    LET groups == {FrameOf(i) : i \in {n \in 1 .. TextLength : Lexical(n)}}
    IN groups \cup {<<i, i>> : i \in {n \in 1 .. TextLength :
                       /\ text[n].kind = "Word"
                       /\ \A g \in groups : n < g[1] \/ n > g[2]}}

(***************************************************************************)
(* When everything fits, the frames are exactly those of the rules: two    *)
(* postfixes first, then the nearest prefixes, five letters for two        *)
(* companions and seven for one, every other word on its own.              *)
(***************************************************************************)
FramesFollowTheRules ==
    (roomy /\ text[head].kind = "End") => {frames[n] : n \in DOMAIN frames} = Expected

(***************************************************************************)
(* Whatever the display has room for: frames are cut from neighbouring     *)
(* words in source order, none is dropped or shown twice, a frame of more  *)
(* than one word has exactly one lexical word with prefixes before it and  *)
(* postfixes behind it, and none crosses a grouping boundary.              *)
(***************************************************************************)
FramesPartitionTheText ==
    /\ \A i \in 1 .. head - 1 :
          text[i].kind = "Word" =>
              \E n \in DOMAIN frames : frames[n][1] <= i /\ i <= frames[n][2]
    /\ \A n \in DOMAIN frames :
          LET first == frames[n][1]
              last  == frames[n][2] IN
          /\ n > 1 => frames[n - 1][2] < first
          /\ last - first < MaxGroup
          /\ \A i \in first .. last - 1 : SamePhrase(i)
          /\ first = last \/ \E a \in first .. last :
                /\ Lexical(a)
                /\ \A i \in first .. a - 1 : Prefixes(text[i])
                /\ \A i \in a + 1 .. last : Postfixes(text[i])
=============================================================================
