---------------------------- MODULE RsvpSessionProofs ----------------------------
(***************************************************************************)
(* Proofs about RsvpSession, for every set of documents and every history  *)
(* capacity.                                                               *)
(***************************************************************************)
EXTENDS RsvpSessionProps, RsvpGroupingLemmas, SequenceTheorems

-----------------------------------------------------------------------------
(* The event buffer as a stretch of the document.                          *)

\* The positions h .. h + n - 1, and a buffer that holds just these.
Run(h, n) == [i \in 1 .. n |-> h + i - 1]
Stream(h, n) == Buffer(Run(h, n), h + n)

\* A position of the document, and a stretch of it that fits into the buffer.
Place(h) == h \in 1 .. Len(doc)
Stretch(h, n) == h \in Nat \ {0} /\ n \in Nat /\ n <= EventCapacity /\ h + n <= Len(doc) + 1

\* What the assumption on documents says of the document that is open.
LEMMA BookProperties ==
    ASSUME doc \in Docs
    PROVE  /\ Len(doc) \in Nat \ {0}
           /\ DOMAIN doc = 1 .. Len(doc)
           /\ \A p \in 1 .. Len(doc) :
                 /\ doc[p].kind \in Kinds
                 /\ doc[p].prep \in {"ok", "overflow", "invalid"}
                 /\ doc[p].kind = "End" <=> p = Len(doc)
<1>1. doc \in Seq(Event) /\ doc # << >> /\ \A p \in DOMAIN doc : doc[p].kind = "End" <=> p = Len(doc)
  BY DocsAssumption DEF IsDocument
<1>2. Len(doc) \in Nat \ {0} /\ DOMAIN doc = 1 .. Len(doc)
  BY <1>1
<1>3. \A p \in 1 .. Len(doc) : doc[p] \in Event
  BY <1>1
<1>. QED BY <1>1, <1>2, <1>3 DEF Event

\* From every place on there is something that is not a separator, at the latest the end.
LEMMA ContentProperties ==
    ASSUME doc \in Docs, NEW h, Place(h)
    PROVE  /\ NextContent(h) \in h .. Len(doc)
           /\ Place(NextContent(h))
           /\ ~ Separator(NextContent(h))
           /\ \A p \in h .. NextContent(h) - 1 : Separator(p)
<1>. DEFINE S == {q \in h .. Len(doc) : ~ Separator(q)}
            c == Min(S)
<1>0. Len(doc) \in Nat \ {0} /\ h \in 1 .. Len(doc)
  BY BookProperties DEF Place
<1>1. Len(doc) \in S
  <2>0. Len(doc) \in 1 .. Len(doc) /\ Len(doc) \in h .. Len(doc)
    BY <1>0
  <2>1. doc[Len(doc)].kind = "End"
    BY <2>0, BookProperties
  <2>. QED BY <2>0, <2>1 DEF Separator
<1>2. S \in SUBSET Nat /\ S # {} /\ \A p : p \in S <=> p \in h .. Len(doc) /\ ~ Separator(p)
  BY <1>0, <1>1
<1>. HIDE DEF S
<1>3. c \in S /\ \A y \in S : c <= y
  BY <1>2, MinProperties
<1>. HIDE DEF c
<1>4. NextContent(h) = c
  BY DEF NextContent, S, c
<1>5. c \in h .. Len(doc) /\ ~ Separator(c)
  BY <1>2, <1>3
<1>6. \A p \in h .. c - 1 : Separator(p)
  <2>. SUFFICES ASSUME NEW p \in h .. c - 1, ~ Separator(p) PROVE FALSE
    OBVIOUS
  <2>1. p \in h .. Len(doc) /\ ~ (c <= p)
    BY <1>0, <1>5
  <2>. QED BY <1>2, <1>3, <2>1
<1>7. c \in 1 .. Len(doc)
  BY <1>0, <1>5
<1>. QED BY <1>4, <1>5, <1>6, <1>7 DEF Place

\* It is the only such place.
LEMMA ContentIsUnique ==
    ASSUME doc \in Docs, NEW h, Place(h), NEW c \in h .. Len(doc),
           ~ Separator(c), \A p \in h .. c - 1 : Separator(p)
    PROVE  NextContent(h) = c
<1>. DEFINE d == NextContent(h)
<1>0. Len(doc) \in Nat \ {0} /\ h \in 1 .. Len(doc)
  BY BookProperties DEF Place
<1>1. d \in h .. Len(doc) /\ ~ Separator(d) /\ \A p \in h .. d - 1 : Separator(p)
  BY ContentProperties
<1>. HIDE DEF d
<1>2. ~ (d < c) /\ ~ (c < d)
  <2>1. d < c => d \in h .. c - 1
    BY <1>0, <1>1
  <2>2. c < d => c \in h .. d - 1
    BY <1>0, <1>1
  <2>. QED BY <1>1, <2>1, <2>2
<1>3. d = c
  BY <1>0, <1>1, <1>2
<1>. QED BY <1>3 DEF d

\* A run is a sequence of neighbouring positions of the document.
LEMMA RunProperties ==
    ASSUME NEW h \in Nat \ {0}, NEW n \in Nat
    PROVE  /\ Run(h, n) \in Seq(Nat)
           /\ Len(Run(h, n)) = n
           /\ DOMAIN Run(h, n) = 1 .. n
           /\ \A i \in 1 .. n : Run(h, n)[i] = h + i - 1
BY DEF Run

LEMMA RunInDocument ==
    ASSUME doc \in Docs, NEW h, NEW n, Stretch(h, n)
    PROVE  Run(h, n) \in Seq(1 .. Len(doc))
<1>1. Len(doc) \in Nat /\ h \in Nat \ {0} /\ n \in Nat /\ h + n <= Len(doc) + 1
  BY BookProperties DEF Stretch
<1>2. \A i \in 1 .. n : h + i - 1 \in 1 .. Len(doc)
  BY <1>1
<1>. QED BY <1>1, <1>2 DEF Run

\* A sequence of neighbouring positions is a run.
LEMMA RunIsUnique ==
    ASSUME NEW h \in Nat \ {0}, NEW n \in Nat, NEW s \in Seq(Nat), Len(s) = n,
           \A i \in 1 .. n : s[i] = h + i - 1
    PROVE  s = Run(h, n)
BY RunProperties, SeqEqual

\* Parts of a run are runs; a run joined to the run behind it is one run.
LEMMA RunParts ==
    ASSUME NEW h \in Nat \ {0}, NEW n \in Nat, NEW k \in 0 .. n
    PROVE  SubSeq(Run(h, n), k + 1, n) = Run(h + k, n - k)
<1>. DEFINE r == Run(h, n)
            s == SubSeq(r, k + 1, n)
<1>1. r \in Seq(Nat) /\ Len(r) = n /\ \A i \in 1 .. n : r[i] = h + i - 1
  BY RunProperties
<1>. HIDE DEF r
<1>2. s \in Seq(Nat) /\ Len(s) = n - k /\ \A i \in 1 .. n - k : s[i] = r[k + i]
  BY <1>1, SubSeqProperties
<1>. HIDE DEF s
<1>3. \A i \in 1 .. n - k : s[i] = (h + k) + i - 1
  BY <1>1, <1>2
<1>4. s = Run(h + k, n - k)
  BY <1>2, <1>3, RunIsUnique
<1>. QED BY <1>4 DEF s, r

LEMMA RunHead ==
    ASSUME NEW h \in Nat \ {0}, NEW n \in Nat, NEW k \in 0 .. n
    PROVE  SubSeq(Run(h, n), 1, k) = Run(h, k)
<1>. DEFINE r == Run(h, n)
            s == SubSeq(r, 1, k)
<1>1. r \in Seq(Nat) /\ Len(r) = n /\ \A i \in 1 .. n : r[i] = h + i - 1
  BY RunProperties
<1>. HIDE DEF r
<1>2. s \in Seq(Nat) /\ Len(s) = k /\ \A i \in 1 .. k : s[i] = r[i]
  BY <1>1, SubSeqProperties
<1>. HIDE DEF s
<1>3. \A i \in 1 .. k : s[i] = h + i - 1
  BY <1>1, <1>2
<1>4. s = Run(h, k)
  BY <1>2, <1>3, RunIsUnique
<1>. QED BY <1>4 DEF s, r

LEMMA RunJoin ==
    ASSUME NEW h \in Nat \ {0}, NEW n \in Nat, NEW m \in Nat
    PROVE  Run(h, n) \o [i \in 1 .. m |-> (h + n) + i - 1] = Run(h, n + m)
<1>. DEFINE r == Run(h, n)
            t == Run(h + n, m)
            s == r \o t
<1>1. r \in Seq(Nat) /\ Len(r) = n /\ \A i \in 1 .. n : r[i] = h + i - 1
  BY RunProperties
<1>2. t \in Seq(Nat) /\ Len(t) = m /\ \A i \in 1 .. m : t[i] = (h + n) + i - 1
  <2>1. h + n \in Nat \ {0}
    OBVIOUS
  <2>. QED BY <2>1, RunProperties
<1>0. t = [i \in 1 .. m |-> (h + n) + i - 1]
  BY DEF Run
<1>. HIDE DEF r, t
<1>3. /\ s \in Seq(Nat) /\ Len(s) = n + m
      /\ \A i \in 1 .. n + m : s[i] = IF i <= n THEN r[i] ELSE t[i - n]
  BY <1>1, <1>2, ConcatProperties
<1>. HIDE DEF s
<1>4. ASSUME NEW i \in 1 .. n + m PROVE s[i] = h + i - 1
  <2>1. CASE i <= n
    BY <1>1, <1>3, <2>1
  <2>2. CASE ~ (i <= n)
    <3>1. i - n \in 1 .. m
      BY <2>2
    <3>2. s[i] = t[i - n] /\ t[i - n] = (h + n) + (i - n) - 1
      BY <1>2, <1>3, <2>2, <3>1
    <3>. QED BY <3>2
  <2>. QED BY <2>1, <2>2
<1>5. s = Run(h, n + m)
  BY <1>3, <1>4, RunIsUnique
<1>6. s = Run(h, n) \o [i \in 1 .. m |-> (h + n) + i - 1]
  BY Zenon, <1>0 DEF s, r
<1>. QED BY <1>5, <1>6

-----------------------------------------------------------------------------
(* What reading, draining and dropping do to such a buffer.                *)

LEMMA StretchProperties ==
    ASSUME doc \in Docs, NEW h, NEW n, Stretch(h, n)
    PROVE  /\ Len(doc) \in Nat \ {0} /\ h \in Nat \ {0} /\ n \in Nat /\ h + n \in Nat
           /\ n <= 4 /\ h + n <= Len(doc) + 1
<1>1. Len(doc) \in Nat \ {0}
  BY BookProperties
<1>. QED BY <1>1 DEF Stretch, EventCapacity

LEMMA StreamProperties ==
    ASSUME NEW h \in Nat \ {0}, NEW n \in Nat
    PROVE  /\ Stream(h, n).events = Run(h, n)
           /\ Stream(h, n).cursor = h + n
BY DEF Stream, Buffer

LEMMA MaxWithZero ==
    ASSUME NEW x \in Int
    PROVE  Max({0, x}) = IF x > 0 THEN x ELSE 0
<1>1. CASE x > 0
  <2>1. {0, x} \in SUBSET Nat /\ {0, x} # {} /\ \A y \in {0, x} : y <= x
    BY <1>1
  <2>2. Max({0, x}) \in {0, x} /\ \A y \in {0, x} : y <= Max({0, x})
    BY <1>1, <2>1, MaxProperties
  <2>. QED BY <1>1, <2>2
<1>2. CASE ~ (x > 0)
  <2>1. 0 \in {0, x} /\ \A y \in {0, x} : 0 >= y
    BY <1>2
  <2>2. Max({0, x}) \in {0, x} /\ \A y \in {0, x} : Max({0, x}) >= y
    BY <2>1 DEF Max
  <2>3. Max({0, x}) >= 0 /\ (Max({0, x}) = 0 \/ Max({0, x}) = x)
    BY <2>2
  <2>. QED BY <1>2, <2>3
<1>. QED BY <1>1, <1>2

\* Reading on lengthens the run.
LEMMA FillOfStream ==
    ASSUME NEW h \in Nat \ {0}, NEW n \in Nat, NEW m \in Nat
    PROVE  Fill(Stream(h, n), m) = Stream(h, IF m > n THEN m ELSE n)
<1>. DEFINE b == Stream(h, n)
            missing == Max({0, m - n})
            joined == Run(h, n) \o [i \in 1 .. missing |-> (h + n) + i - 1]
<1>1. missing \in Nat /\ n + missing = (IF m > n THEN m ELSE n)
  BY MaxWithZero
<1>2. b.events = Run(h, n) /\ b.cursor = h + n /\ Len(b.events) = n
  BY StreamProperties, RunProperties
<1>. HIDE DEF b
<1>3. Fill(b, m) = Buffer(joined, (h + n) + missing)
  BY <1>2 DEF Fill
<1>. HIDE DEF missing
<1>4. joined = Run(h, n + missing)
  BY <1>1, RunJoin
<1>. HIDE DEF joined
<1>5. (h + n) + missing = h + (n + missing)
  BY <1>1
<1>6. Fill(b, m) = Stream(h, n + missing)
  BY <1>3, <1>4, <1>5 DEF Stream
<1>. QED BY <1>1, <1>6 DEF b

\* Draining moves a run to the first place that is not a separator.
LEMMA DrainOfStream ==
    ASSUME doc \in Docs, NEW h, NEW n, Place(h), Stretch(h, n)
    PROVE  \E m \in Nat \ {0} :
              /\ Drain(Stream(h, n)) = Stream(NextContent(h), m)
              /\ Stretch(NextContent(h), m)
              /\ m = 1 \/ NextContent(h) + m = h + n
<1>. DEFINE b == Stream(h, n)
            c == NextContent(h)
            kept == {i \in DOMAIN b.events : ~ Separator(b.events[i])}
<1>1. /\ Len(doc) \in Nat \ {0} /\ h \in Nat \ {0} /\ n \in Nat
      /\ n <= 4 /\ h + n <= Len(doc) + 1
  BY StretchProperties
<1>2. c \in h .. Len(doc) /\ ~ Separator(c) /\ \A p \in h .. c - 1 : Separator(p)
  BY ContentProperties
<1>3. /\ b.events = Run(h, n) /\ b.cursor = h + n
      /\ DOMAIN b.events = 1 .. n /\ Len(b.events) = n
      /\ \A i \in 1 .. n : b.events[i] = h + i - 1
  <2>1. b.events = Run(h, n) /\ b.cursor = h + n
    BY <1>1, StreamProperties
  <2>2. /\ DOMAIN Run(h, n) = 1 .. n /\ Len(Run(h, n)) = n
        /\ \A i \in 1 .. n : Run(h, n)[i] = h + i - 1
    BY <1>1, RunProperties
  <2>. HIDE DEF b
  <2>. QED BY <2>1, <2>2
<1>. HIDE DEF b, c
<1>4. ASSUME c < h + n
      PROVE  \E m \in Nat \ {0} :
                 Drain(b) = Stream(c, m) /\ Stretch(c, m) /\ (m = 1 \/ c + m = h + n)
  <2>. DEFINE k == c - h + 1
              m == n - (k - 1)
  <2>1. k \in 1 .. n /\ h + k - 1 = c /\ m \in Nat \ {0} /\ c + m = h + n /\ m <= 4
    BY <1>1, <1>2, <1>4
  <2>2. k \in kept /\ kept \in SUBSET Nat
    BY <1>2, <1>3, <2>1
  <2>3. \A i \in kept : i >= k
    <3>. SUFFICES ASSUME NEW i \in kept, ~ (i >= k) PROVE FALSE
      OBVIOUS
    <3>1. i \in 1 .. n /\ ~ Separator(h + i - 1)
      BY <1>3
    <3>2. h + i - 1 \in h .. c - 1
      BY <1>1, <1>2, <2>1, <3>1
    <3>. QED BY <1>2, <3>1, <3>2
  <2>. HIDE DEF kept
  <2>4. Min(kept) \in kept /\ \A y \in kept : Min(kept) <= y
    BY <2>2, MinProperties
  <2>5. Min(kept) = k
    <3>. HIDE DEF k
    <3>1. Min(kept) \in Nat /\ k \in Nat /\ Min(kept) <= k /\ Min(kept) >= k
      BY <2>1, <2>2, <2>3, <2>4
    <3>. QED BY <3>1
  <2>6. Drain(b) = Buffer(SubSeq(b.events, k, n), b.cursor)
    BY <1>3, <2>2, <2>5 DEF Drain, kept
  <2>7. SubSeq(Run(h, n), (k - 1) + 1, n) = Run(h + (k - 1), n - (k - 1))
    <3>. HIDE DEF k
    <3>1. k - 1 \in 0 .. n
      BY <1>1, <2>1
    <3>. QED BY <1>1, <3>1, RunParts
  <2>8. (k - 1) + 1 = k /\ h + (k - 1) = c
    BY <1>1, <1>2
  <2>. HIDE DEF k, m
  <2>9. Drain(b) = Buffer(Run(c, m), c + m)
    BY <1>3, <2>1, <2>6, <2>7, <2>8 DEF m
  <2>10. Stretch(c, m)
    BY <1>1, <1>2, <2>1 DEF Stretch, EventCapacity
  <2>. QED BY <2>1, <2>9, <2>10 DEF Stream
<1>5. ASSUME ~ (c < h + n)
      PROVE  \E m \in Nat \ {0} :
                 Drain(b) = Stream(c, m) /\ Stretch(c, m) /\ (m = 1 \/ c + m = h + n)
  <2>1. \A i \in 1 .. n : h + i - 1 \in h .. c - 1
    BY <1>1, <1>2, <1>5
  <2>2. kept = {}
    BY <1>2, <1>3, <2>1
  <2>. HIDE DEF kept
  <2>3. Drain(b) = Buffer(<<NextContent(h + n)>>, NextContent(h + n) + 1)
    BY <1>3, <2>2 DEF Drain, kept
  <2>4. NextContent(h + n) = c
    <3>1. Place(h + n) /\ c \in h + n .. Len(doc)
      BY <1>1, <1>2, <1>5 DEF Place
    <3>2. \A p \in h + n .. c - 1 : Separator(p)
      BY <1>1, <1>2
    <3>. QED BY <1>2, <3>1, <3>2, ContentIsUnique
  <2>5. <<c>> = Run(c, 1)
    <3>1. c \in Nat \ {0} /\ <<c>> \in Seq(Nat) /\ Len(<<c>>) = 1
      BY <1>1, <1>2
    <3>2. \A i \in 1 .. 1 : <<c>>[i] = c + i - 1
      BY <3>1
    <3>. QED BY <3>1, <3>2, RunIsUnique
  <2>6. Stretch(c, 1)
    BY <1>1, <1>2 DEF Stretch, EventCapacity
  <2>. QED BY <2>3, <2>4, <2>5, <2>6 DEF Stream
<1>. QED BY <1>4, <1>5 DEF b, c

\* What the resolver sees of a stream is the document, and the end behind its end.
LEMMA LookOfStream ==
    ASSUME doc \in Docs, NEW c, NEW m, Place(c), Stretch(c, m), NEW i \in 1 .. EventCapacity
    PROVE  Look(Stream(c, m))[i] = IF c + i - 1 <= Len(doc) THEN doc[c + i - 1] ELSE doc[Len(doc)]
<1>. DEFINE b == Stream(c, m)
            p == IF i <= Len(b.events) THEN b.events[i] ELSE b.cursor + (i - Len(b.events)) - 1
            N == Len(doc)
<1>1. N \in Nat \ {0} /\ c \in Nat \ {0} /\ m \in Nat /\ i \in 1 .. 4
  BY StretchProperties DEF EventCapacity
<1>2. b.events = Run(c, m) /\ b.cursor = c + m
  BY <1>1, StreamProperties
<1>3. Len(Run(c, m)) = m /\ \A j \in 1 .. m : Run(c, m)[j] = c + j - 1
  BY <1>1, RunProperties
<1>4. Look(b)[i] = doc[Min({p, N})]
  BY DEF Look
<1>. HIDE DEF b
<1>5. p = c + i - 1
  BY <1>1, <1>2, <1>3
<1>. HIDE DEF p, N
<1>6. {p, N} \in SUBSET Nat /\ {p, N} # {}
  BY <1>1, <1>5
<1>7. Min({p, N}) \in {p, N} /\ Min({p, N}) <= p /\ Min({p, N}) <= N
  BY <1>6, MinProperties
<1>8. Min({p, N}) = IF p <= N THEN p ELSE N
  BY <1>1, <1>5, <1>6, <1>7
<1>. QED BY <1>4, <1>5, <1>8 DEF b, N

\* A new group is a stretch of words at the head of a buffer that holds all of it.
LEMMA GroupInDocument ==
    ASSUME doc \in Docs, NEW c, NEW m \in Nat \ {0}, Place(c), Stretch(c, m), IsWord(c),
           NEW group \in IF grouping THEN Fitted(Candidate(Look(Stream(c, m)))) ELSE {Single}
    PROVE  /\ group.count \in 1 .. MaxGroup /\ group.active \in 1 .. group.count
           /\ \A p \in c .. c + group.count - 1 : p \in 1 .. Len(doc) /\ IsWord(p)
           /\ \E k \in Nat \ {0} :
                 /\ (IF grouping THEN Fill(Stream(c, m), Buffered(Look(Stream(c, m))))
                                 ELSE Stream(c, m)) = Stream(c, k)
                 /\ Stretch(c, k)
                 /\ group.count <= k
<1>. DEFINE look == Look(Stream(c, m))
            n == Buffered(look)
            N == Len(doc)
<1>1. N \in Nat \ {0} /\ c \in 1 .. N /\ m <= 4 /\ c + m <= N + 1
  BY StretchProperties DEF Place
<1>2. \A i \in 1 .. 4 : look[i] = IF c + i - 1 <= N THEN doc[c + i - 1] ELSE doc[N]
  BY LookOfStream DEF EventCapacity
<1>3. look[1].kind = "Word" /\ doc[c].kind = "Word" /\ doc[N].kind = "End"
  <2>1. doc[c].kind = "Word" /\ 1 \in 1 .. 4 /\ c + 1 - 1 = c /\ c <= N /\ N \in 1 .. N
    BY <1>1 DEF IsWord
  <2>2. doc[N].kind = "End"
    BY <2>1, BookProperties
  <2>. QED BY <1>2, <2>1, <2>2
<1>4. CASE ~ grouping
  <2>1. group = Single /\ group.count = 1 /\ group.active = 1
    BY <1>4 DEF Single
  <2>2. c .. c + group.count - 1 = {c}
    BY <1>1, <2>1
  <2>3. \A p \in c .. c + group.count - 1 : p \in 1 .. Len(doc) /\ IsWord(p)
    BY <1>1, <2>2
  <2>4. 1 \in 1 .. MaxGroup /\ group.count <= m
    BY <2>1 DEF MaxGroup
  <2>. QED BY <1>4, <2>1, <2>3, <2>4
<1>5. CASE grouping
  <2>1. /\ n \in 1 .. 4 /\ Candidate(look).count <= n
        /\ \A i \in 1 .. n - 1 : look[i].kind = "Word"
    BY <1>3, BufferedProperties DEF EventCapacity
  <2>2. /\ Grouped(look, Candidate(look)) /\ IsGroup(Candidate(look))
        /\ Grouped(look, group) /\ group.count <= Candidate(look).count
    BY <1>5, CandidateIsGrouped, FittedIsGrouped
  <2>3. /\ group.count \in 1 .. 3 /\ group.active \in 1 .. group.count
        /\ Candidate(look).count \in 1 .. 3
        /\ \A i \in 1 .. group.count - 1 : look[i + 1].kind = "Word"
    BY <2>2 DEF Grouped, Joined, MaxGroup
  <2>. HIDE DEF n, N
  <2>4. ASSUME NEW i \in 1 .. group.count
        PROVE  c + i - 1 \in 1 .. N /\ IsWord(c + i - 1)
    <3>1. look[i].kind = "Word"
      <4>1. CASE i = 1
        BY <1>3, <4>1
      <4>2. CASE i # 1
        <5>1. i - 1 \in 1 .. group.count - 1 /\ (i - 1) + 1 = i
          BY <2>3, <4>2
        <5>. QED BY <2>3, <5>1
      <4>. QED BY <4>1, <4>2
    <3>2. i \in 1 .. 4
      BY <2>3
    <3>3. c + i - 1 <= N
      BY <1>2, <1>3, <3>1, <3>2
    <3>4. doc[c + i - 1].kind = "Word"
      BY <1>2, <3>1, <3>2, <3>3
    <3>. QED BY <1>1, <3>2, <3>3, <3>4 DEF IsWord
  <2>5. \A p \in c .. c + group.count - 1 : p \in 1 .. N /\ IsWord(p)
    <3>. SUFFICES ASSUME NEW p \in c .. c + group.count - 1
                  PROVE  p \in 1 .. N /\ IsWord(p)
      OBVIOUS
    <3>1. p - c + 1 \in 1 .. group.count /\ c + (p - c + 1) - 1 = p
      BY <1>1, <2>3
    <3>. QED BY <2>4, <3>1
  <2>6. c + n <= N + 1
    <3>. SUFFICES ASSUME c + n > N + 1 PROVE FALSE
      BY <1>1, <2>1
    <3>1. N - c + 1 \in 1 .. n - 1 /\ N - c + 1 \in 1 .. 4 /\ c + (N - c + 1) - 1 = N /\ N <= N
      BY <1>1, <2>1
    <3>2. look[N - c + 1].kind = "End"
      BY <1>2, <1>3, <3>1
    <3>. QED BY <2>1, <3>1, <3>2
  <2>. DEFINE k == IF n > m THEN n ELSE m
  <2>7. Fill(Stream(c, m), n) = Stream(c, k)
    <3>1. c \in Nat \ {0} /\ n \in Nat /\ m \in Nat
      BY <1>1, <2>1
    <3>. QED BY <3>1, FillOfStream
  <2>8. k \in Nat \ {0} /\ Stretch(c, k) /\ group.count <= k
    <3>1. k \in Nat \ {0} /\ k <= 4 /\ c + k <= N + 1 /\ group.count <= k
      BY <1>1, <2>1, <2>2, <2>3, <2>6
    <3>. QED BY <1>1, <3>1 DEF Stretch, EventCapacity, N
  <2>. QED BY <1>5, <2>3, <2>5, <2>7, <2>8 DEF MaxGroup, n, N
<1>. QED BY <1>4, <1>5

-----------------------------------------------------------------------------
(* The layout of the buffer.                                               *)

(***************************************************************************)
(* A buffer q with the source cursor c whose first k events are on the     *)
(* display: k neighbouring words, then separators that were drained, then  *)
(* an unread run up to the cursor that does not start with a separator.    *)
(* Only a buffer that was never read is empty.                             *)
(***************************************************************************)
LaidOut(q, c, k) ==
    /\ q \in Seq(1 .. Len(doc)) /\ Len(q) <= EventCapacity
    /\ c \in 1 .. Len(doc) + 1
    /\ k \in 0 .. MaxGroup
    /\ \A i \in 1 .. k : q[i] = q[1] + i - 1 /\ IsWord(q[i])
    /\ \A i \in k + 1 .. Len(q) : q[i] = c - Len(q) + i - 1
    /\ q # << >> => k < Len(q) /\ ~ Separator(q[k + 1])
    /\ k # 0 => /\ q # << >>
                /\ q[k] < q[k + 1]
                /\ \A p \in q[k] + 1 .. q[k + 1] - 1 : Separator(p)

\* A buffer of which nothing is shown.
LEMMA StreamIsLaidOut ==
    ASSUME doc \in Docs, NEW c, NEW m \in Nat \ {0}, Stretch(c, m), Place(c), ~ Separator(c)
    PROVE  /\ LaidOut(Run(c, m), c + m, 0)
           /\ Run(c, m) # << >> /\ Run(c, m)[1] = c
<1>. DEFINE q == Run(c, m)
<1>1. /\ Len(doc) \in Nat \ {0} /\ c \in Nat \ {0} /\ m \in Nat \ {0}
      /\ m <= 4 /\ c + m <= Len(doc) + 1 /\ c + m \in 1 .. Len(doc) + 1
  BY StretchProperties
<1>2. q \in Seq(1 .. Len(doc)) /\ Len(q) = m /\ \A i \in 1 .. m : q[i] = c + i - 1
  <2>1. Len(q) = m /\ \A i \in 1 .. m : q[i] = c + i - 1
    BY <1>1, RunProperties
  <2>. QED BY <2>1, RunInDocument
<1>. HIDE DEF q
<1>3. \A i \in 0 + 1 .. Len(q) : q[i] = (c + m) - Len(q) + i - 1
  BY <1>1, <1>2
<1>4. q # << >> /\ 0 < Len(q) /\ q[0 + 1] = c /\ q[1] = c
  BY <1>1, <1>2
<1>5. LaidOut(q, c + m, 0)
  BY <1>1, <1>2, <1>3, <1>4 DEF LaidOut, EventCapacity, MaxGroup
<1>. QED BY <1>4, <1>5 DEF q

\* The words c .. c + k - 1 in front of m events from d on.
Shape(c, k, d, m) == Run(c, k) \o Run(d, m)

\* A buffer of which the group c .. c + k - 1 is shown.
LEMMA GroupIsLaidOut ==
    ASSUME doc \in Docs, NEW c, NEW k \in 1 .. MaxGroup, Stretch(c, k),
           \A p \in c .. c + k - 1 : IsWord(p),
           Place(c + k), NEW d, d = NextContent(c + k),
           NEW m \in Nat \ {0}, Stretch(d, m), k + m <= EventCapacity
    PROVE  /\ LaidOut(Shape(c, k, d, m), d + m, k)
           /\ Shape(c, k, d, m) # << >>
           /\ Shape(c, k, d, m)[1] = c
           /\ Shape(c, k, d, m)[k] = c + k - 1
           /\ Shape(c, k, d, m)[k + 1] = d
<1>. DEFINE r == Run(c, k)
            t == Run(d, m)
            s == r \o t
            N == Len(doc)
<1>1. /\ N \in Nat \ {0} /\ c \in Nat \ {0} /\ d \in Nat \ {0} /\ m \in Nat \ {0} /\ k \in 1 .. 3
      /\ d + m <= N + 1 /\ k + m <= 4
  BY StretchProperties DEF EventCapacity, MaxGroup
<1>2. d \in c + k .. N /\ ~ Separator(d) /\ \A p \in c + k .. d - 1 : Separator(p)
  BY ContentProperties
<1>3. r \in Seq(1 .. N) /\ Len(r) = k /\ \A i \in 1 .. k : r[i] = c + i - 1
  <2>1. Len(r) = k /\ \A i \in 1 .. k : r[i] = c + i - 1
    BY <1>1, RunProperties
  <2>. QED BY <2>1, RunInDocument
<1>4. t \in Seq(1 .. N) /\ Len(t) = m /\ \A i \in 1 .. m : t[i] = d + i - 1
  <2>1. Len(t) = m /\ \A i \in 1 .. m : t[i] = d + i - 1
    BY <1>1, RunProperties
  <2>. QED BY <2>1, RunInDocument
<1>. HIDE DEF r, t, N
<1>6. /\ s \in Seq(1 .. N) /\ Len(s) = k + m
      /\ \A i \in 1 .. k + m : s[i] = IF i <= k THEN r[i] ELSE t[i - k]
  BY <1>3, <1>4, ConcatProperties
<1>. HIDE DEF s
<1>7. \A i \in 1 .. k : s[i] = c + i - 1
  BY <1>1, <1>3, <1>6
<1>8. \A i \in k + 1 .. k + m : s[i] = d + i - k - 1
  <2>. SUFFICES ASSUME NEW i \in k + 1 .. k + m PROVE s[i] = d + i - k - 1
    OBVIOUS
  <2>1. i \in 1 .. k + m /\ ~ (i <= k) /\ i - k \in 1 .. m /\ d + (i - k) - 1 = d + i - k - 1
    BY <1>1
  <2>. QED BY <1>4, <1>6, <2>1
<1>9. s[1] = c /\ s[k] = c + k - 1 /\ s[k + 1] = d /\ s # << >> /\ k < Len(s)
  <2>1. 1 \in 1 .. k /\ k \in 1 .. k /\ k + 1 \in k + 1 .. k + m /\ c + 1 - 1 = c /\ d + (k + 1) - k - 1 = d
    BY <1>1
  <2>2. Len(s) > k /\ k < Len(s) /\ s # << >>
    BY <1>1, <1>6
  <2>3. s[1] = c + 1 - 1 /\ s[k] = c + k - 1
    BY <1>7, <2>1
  <2>4. s[k + 1] = d + (k + 1) - k - 1
    BY <1>8, <2>1
  <2>. QED BY <2>1, <2>2, <2>3, <2>4
<1>10. \A i \in 1 .. k : s[i] = s[1] + i - 1 /\ IsWord(s[i])
  <2>. SUFFICES ASSUME NEW i \in 1 .. k PROVE s[i] = s[1] + i - 1 /\ IsWord(s[i])
    OBVIOUS
  <2>1. s[i] = c + i - 1 /\ c + i - 1 \in c .. c + k - 1
    BY <1>1, <1>7
  <2>. QED BY <1>9, <2>1
<1>11. \A i \in k + 1 .. Len(s) : s[i] = (d + m) - Len(s) + i - 1
  BY <1>1, <1>6, <1>8
<1>12. s[k] < s[k + 1] /\ \A p \in s[k] + 1 .. s[k + 1] - 1 : Separator(p)
  BY <1>1, <1>2, <1>9
<1>13. LaidOut(s, d + m, k)
  <2>1. Len(s) <= 4 /\ d + m \in 1 .. N + 1 /\ k \in 0 .. 3
    BY <1>1, <1>6
  <2>. QED BY <1>2, <1>6, <1>9, <1>10, <1>11, <1>12, <2>1
           DEF LaidOut, EventCapacity, MaxGroup, N
<1>14. Shape(c, k, d, m) = s
  BY DEF s, r, t, Shape
<1>. QED BY <1>9, <1>13, <1>14

\* What is left behind a displayed group, or behind k unread events, is a stream.
LEMMA WithoutIsStream ==
    ASSUME doc \in Docs, LaidOut(events, cursor, consumed), events # << >>,
           NEW n, n = consumed \/ (consumed = 0 /\ n = 1)
    PROVE  \E h, m \in Nat :
              /\ Without(n) = Stream(h, m)
              /\ Stretch(h, m)
              /\ h = IF n = consumed THEN events[consumed + 1] ELSE events[1] + 1
<1>. DEFINE N == Len(doc)
            L == Len(events)
            s == SubSeq(events, n + 1, L)
            h == cursor - L + n
            m == L - n
<1>1. N \in Nat \ {0}
  BY BookProperties
<1>2. /\ events \in Seq(1 .. N) /\ L \in Nat /\ L <= 4 /\ cursor \in 1 .. N + 1
      /\ consumed \in 0 .. 3 /\ consumed < L
      /\ \A i \in consumed + 1 .. L : events[i] = cursor - L + i - 1
  BY DEF LaidOut, EventCapacity, MaxGroup
<1>. HIDE DEF N, L
<1>3. n \in Nat /\ n <= L /\ consumed <= n /\ m \in Nat /\ h + m = cursor
  <2>1. n \in Nat /\ n <= L /\ consumed <= n
    BY <1>2
  <2>. QED BY <1>1, <1>2, <2>1
<1>4. events[consumed + 1] = cursor - L + consumed /\ events[consumed + 1] \in 1 .. N
  <2>1. consumed + 1 \in consumed + 1 .. L /\ consumed + 1 \in 1 .. Len(events)
    BY <1>2 DEF L
  <2>2. events[consumed + 1] \in 1 .. N
    BY <1>2, <2>1, ElementOfSeq
  <2>3. events[consumed + 1] = cursor - L + (consumed + 1) - 1
    BY <1>2, <2>1
  <2>4. cursor - L + (consumed + 1) - 1 = cursor - L + consumed
    BY <1>1, <1>2
  <2>. QED BY <2>2, <2>3, <2>4
<1>5. h \in Nat \ {0} /\ h = IF n = consumed THEN events[consumed + 1] ELSE events[1] + 1
  BY <1>1, <1>2, <1>4
<1>6. Stretch(h, m)
  BY <1>1, <1>2, <1>3, <1>5 DEF Stretch, EventCapacity, N
<1>7. s \in Seq(Nat) /\ Len(s) = m /\ \A i \in 1 .. m : s[i] = events[n + i]
  <2>1. events \in Seq(Nat) /\ \A i \in n + 1 .. L : events[i] \in Nat
    BY <1>1, <1>2, <1>3 DEF L
  <2>2. /\ s \in Seq(Nat) /\ Len(s) = (IF n + 1 <= L THEN L - (n + 1) + 1 ELSE 0)
        /\ \A i \in 1 .. L - (n + 1) + 1 : s[i] = events[(n + 1) + i - 1]
    BY <1>2, <1>3, <2>1, SubSeqProperties
  <2>. HIDE DEF s
  <2>3. Len(s) = m /\ L - (n + 1) + 1 = m
    BY <1>2, <1>3, <2>2
  <2>4. \A i \in 1 .. m : (n + 1) + i - 1 = n + i
    BY <1>3
  <2>. QED BY <2>2, <2>3, <2>4
<1>. HIDE DEF s
<1>8. \A i \in 1 .. m : s[i] = h + i - 1
  <2>. SUFFICES ASSUME NEW i \in 1 .. m PROVE s[i] = h + i - 1
    OBVIOUS
  <2>1. n + i \in consumed + 1 .. L /\ cursor - L + (n + i) - 1 = h + i - 1
    BY <1>2, <1>3
  <2>. QED BY <1>2, <1>7, <2>1
<1>9. s = Run(h, m)
  <2>. HIDE DEF h, m
  <2>. QED BY <1>3, <1>5, <1>7, <1>8, RunIsUnique
<1>10. Without(n) = Stream(h, m)
  BY <1>3, <1>9 DEF Without, Stream, s, L
<1>. QED BY <1>3, <1>5, <1>6, <1>10

-----------------------------------------------------------------------------
(* Where looking for another group ends.                                   *)

\* The k words from c on are put on the display.
ShownAt(c, k, resumed) ==
    /\ consumed' = k
    /\ events'[1] = c
    /\ events'[k] = c + k - 1
    /\ events'[k + 1] = NextContent(c + k)
    /\ chapterPending' = \E p \in c + k - 1 .. NextContent(c + k) : doc[p].kind = "Chapter"
    /\ chapterPauseShown' = FALSE
    /\ state' = resumed
    /\ reason' = "None"
    /\ pending' = TRUE
    /\ framed' = TRUE

\* Nothing is shown, and reading stands at c.
StoppedAt(c, chapter, shownPause) ==
    /\ consumed' = 0
    /\ events'[1] = c
    /\ chapterPending' = chapter
    /\ chapterPauseShown' = shownPause
    /\ pending' = FALSE
    /\ framed' = framed
    /\ \/ state' = "Error" /\ reason' = "Error"
       \/ state' = "Finished" /\ reason' = (IF state = "Boundary" THEN "None" ELSE reason)
       \/ state' = "Boundary" /\ reason' = "Oversized"
       \/ state' = "Boundary" /\ reason' = "NonText" /\ doc[c].kind = "NonText"

LEMMA NothingShownOutcome ==
    ASSUME doc \in Docs, NEW c, NEW m \in Nat \ {0}, Stretch(c, m), Place(c), ~ Separator(c),
           NothingShown(Stream(c, m))
    PROVE  /\ LaidOut(events', cursor', consumed')
           /\ consumed' = 0 /\ events' # << >> /\ events'[1] = c
           /\ pending' = FALSE /\ framed' = framed
<1>1. Stream(c, m).events = Run(c, m) /\ Stream(c, m).cursor = c + m
  BY StreamProperties DEF Stretch
<1>2. events' = Run(c, m) /\ cursor' = c + m /\ consumed' = 0 /\ pending' = FALSE /\ framed' = framed
  BY <1>1 DEF NothingShown
<1>. QED BY <1>2, StreamIsLaidOut

\* findNextWord met the end, an element, an oversized word or unreadable text.
LEMMA NoWordOutcome ==
    ASSUME doc \in Docs, NEW c, NEW m \in Nat \ {0}, Stretch(c, m), Place(c), ~ Separator(c),
           NEW chapter, NEW shownPause,
           NoWord(Stream(c, m)), chapterPending' = chapter, chapterPauseShown' = shownPause
    PROVE  /\ LaidOut(events', cursor', consumed')
           /\ events' # << >>
           /\ StoppedAt(c, chapter, shownPause)
<1>. DEFINE b == Stream(c, m)
<1>1. NothingShown(b)
  BY DEF NoWord, Fail, Finish, Stop
<1>2. doc[b.events[1]] = doc[c]
  <2>1. c \in Nat \ {0} /\ 1 \in 1 .. m /\ c + 1 - 1 = c
    BY DEF Stretch
  <2>2. b.events = Run(c, m) /\ Run(c, m)[1] = c + 1 - 1
    BY <2>1, StreamProperties, RunProperties
  <2>. QED BY <2>1, <2>2
<1>. HIDE DEF b
<1>3. \/ state' = "Error" /\ reason' = "Error"
      \/ state' = "Finished" /\ reason' = (IF state = "Boundary" THEN "None" ELSE reason)
      \/ state' = "Boundary" /\ reason' = "Oversized"
      \/ state' = "Boundary" /\ reason' = "NonText" /\ doc[c].kind = "NonText"
  <2>1. NoWord(b)
    BY DEF b
  <2>. QED BY <1>2, <2>1 DEF NoWord, Fail, Finish, Stop
<1>4. /\ LaidOut(events', cursor', consumed')
      /\ consumed' = 0 /\ events' # << >> /\ events'[1] = c
      /\ pending' = FALSE /\ framed' = framed
  BY <1>1, NothingShownOutcome DEF b
<1>. QED BY <1>3, <1>4 DEF StoppedAt

LEMMA ShowOutcome ==
    ASSUME doc \in Docs, NEW c, NEW m \in Nat \ {0}, Stretch(c, m),
           NEW group, group.count \in 1 .. MaxGroup, group.count <= m,
           \A p \in c .. c + group.count - 1 : p \in 1 .. Len(doc) /\ IsWord(p),
           NEW resumed, Show(Stream(c, m), group, resumed)
    PROVE  /\ LaidOut(events', cursor', consumed')
           /\ events' # << >>
           /\ ShownAt(c, group.count, resumed)
<1>. DEFINE b == Stream(c, m)
            k == group.count
            d == NextContent(c + k)
            shown == SubSeq(b.events, 1, k)
            behind == Buffer(SubSeq(b.events, k + 1, Len(b.events)), b.cursor)
            rest == Drain(behind)
<1>1. /\ Len(doc) \in Nat \ {0} /\ c \in Nat \ {0} /\ m \in Nat \ {0}
      /\ m <= 4 /\ c + m <= Len(doc) + 1 /\ k \in 1 .. 3 /\ k <= m
  BY StretchProperties DEF MaxGroup
<1>2. b.events = Run(c, m) /\ b.cursor = c + m /\ Len(b.events) = m
  <2>1. b.events = Run(c, m) /\ b.cursor = c + m
    BY <1>1, StreamProperties
  <2>2. Len(Run(c, m)) = m
    BY <1>1, RunProperties
  <2>. QED BY <2>1, <2>2
<1>3. /\ events' = shown \o rest.events /\ cursor' = rest.cursor /\ consumed' = k
      /\ chapterPending' = \E p \in shown[k] .. rest.events[1] : doc[p].kind = "Chapter"
      /\ chapterPauseShown' = FALSE /\ state' = resumed /\ reason' = "None"
      /\ pending' = TRUE /\ framed' = TRUE
  BY DEF Show
<1>. HIDE DEF b, k
<1>4. shown = Run(c, k)
  <2>1. k \in 0 .. m
    BY <1>1
  <2>. QED BY <1>1, <1>2, <2>1, RunHead
<1>5. behind = Stream(c + k, m - k)
  <2>0. k \in 0 .. m
    BY <1>1
  <2>1. SubSeq(Run(c, m), k + 1, m) = Run(c + k, m - k)
    BY <1>1, <2>0, RunParts
  <2>2. c + m = (c + k) + (m - k)
    BY <1>1
  <2>. QED BY <1>2, <2>1, <2>2 DEF Stream
<1>6. Place(c + k) /\ Stretch(c + k, m - k)
  <2>1. c + k - 1 \in c .. c + k - 1
    BY <1>1
  <2>2. c + k - 1 \in 1 .. Len(doc) /\ doc[c + k - 1].kind = "Word"
    BY <2>1 DEF k, IsWord
  <2>3. c + k - 1 # Len(doc)
    BY <2>2, BookProperties
  <2>. QED BY <1>1, <2>2, <2>3 DEF Place, Stretch, EventCapacity
<1>. HIDE DEF shown, behind
<1>7. PICK m2 \in Nat \ {0} :
          /\ rest = Stream(d, m2) /\ Stretch(d, m2)
          /\ m2 = 1 \/ d + m2 = (c + k) + (m - k)
  BY <1>5, <1>6, DrainOfStream
<1>8. d \in c + k .. Len(doc)
  BY <1>6, ContentProperties
<1>. HIDE DEF rest, d
<1>9. k + m2 <= 4 /\ d \in Nat \ {0}
  BY <1>1, <1>7, <1>8
<1>10. rest.events = Run(d, m2) /\ rest.cursor = d + m2
  BY <1>7, <1>9, StreamProperties
<1>11. shown[k] = c + k - 1 /\ rest.events[1] = d
  <2>1. k \in 1 .. k /\ 1 \in 1 .. m2 /\ d + 1 - 1 = d
    BY <1>1, <1>9
  <2>2. Run(c, k)[k] = c + k - 1
    BY <1>1, <2>1, RunProperties
  <2>3. Run(d, m2)[1] = d + 1 - 1
    BY <1>9, <2>1, RunProperties
  <2>. QED BY <1>4, <1>10, <2>1, <2>2, <2>3
<1>12. events' = Run(c, k) \o Run(d, m2) /\ cursor' = d + m2
  BY <1>3, <1>4, <1>10
<1>13. /\ LaidOut(events', d + m2, k)
       /\ events' # << >> /\ events'[1] = c /\ events'[k] = c + k - 1 /\ events'[k + 1] = d
  <2>1. Stretch(c, k) /\ k \in 1 .. MaxGroup /\ \A p \in c .. c + k - 1 : IsWord(p)
    BY <1>1 DEF Stretch, EventCapacity, MaxGroup, k
  <2>2. k + m2 <= EventCapacity
    BY <1>9 DEF EventCapacity
  <2>3. d = NextContent(c + k)
    BY DEF d
  <2>4. events' = Shape(c, k, d, m2)
    BY <1>12 DEF Shape
  <2>5. /\ LaidOut(Shape(c, k, d, m2), d + m2, k)
        /\ Shape(c, k, d, m2) # << >>
        /\ Shape(c, k, d, m2)[1] = c
        /\ Shape(c, k, d, m2)[k] = c + k - 1
        /\ Shape(c, k, d, m2)[k + 1] = d
    BY <1>6, <1>7, <2>1, <2>2, <2>3, GroupIsLaidOut
  <2>. QED BY <2>4, <2>5
<1>14. ShownAt(c, k, resumed)
  <2>1. chapterPending' = \E p \in c + k - 1 .. d : doc[p].kind = "Chapter"
    BY <1>3, <1>11
  <2>. QED BY Zenon, <1>3, <1>13, <2>1 DEF ShownAt, d
<1>15. LaidOut(events', cursor', consumed')
  BY <1>3, <1>12, <1>13
<1>. QED BY <1>13, <1>14, <1>15 DEF k

\* prepareGroup shows the group or stops at its first word.
LEMMA PrepareOutcome ==
    ASSUME doc \in Docs, NEW c, NEW m \in Nat \ {0}, Stretch(c, m),
           NEW group, group.count \in 1 .. MaxGroup, group.count <= m,
           group.active \in 1 .. group.count,
           \A p \in c .. c + group.count - 1 : p \in 1 .. Len(doc) /\ IsWord(p),
           NEW resumed, NEW chapter, NEW shownPause,
           PrepareGroup(Stream(c, m), group, resumed, chapter, shownPause)
    PROVE  /\ LaidOut(events', cursor', consumed')
           /\ events' # << >>
           /\ \/ doc[c + group.active - 1].prep = "ok" /\ ShownAt(c, group.count, resumed)
              \/ doc[c + group.active - 1].prep # "ok" /\ StoppedAt(c, chapter, shownPause)
<1>. DEFINE b == Stream(c, m)
            a == group.active
            active == doc[b.events[a]]
<1>1. c \in Nat \ {0} /\ group.count \in 1 .. 3 /\ a \in 1 .. group.count /\ a \in 1 .. m
  BY DEF Stretch, MaxGroup
<1>2. active = doc[c + a - 1]
  <2>1. b.events = Run(c, m) /\ Run(c, m)[a] = c + a - 1
    BY <1>1, StreamProperties, RunProperties
  <2>. QED BY <2>1
<1>3. CASE active.prep = "ok"
  <2>1. Show(b, group, resumed)
    BY <1>3 DEF PrepareGroup
  <2>2. /\ LaidOut(events', cursor', consumed') /\ events' # << >>
        /\ ShownAt(c, group.count, resumed)
    BY <2>1, ShowOutcome
  <2>. QED BY <1>2, <1>3, <2>2
<1>4. CASE active.prep # "ok"
  <2>1. /\ IF active.prep = "overflow" THEN Stop(b, "Oversized") ELSE Fail(b)
        /\ chapterPending' = chapter /\ chapterPauseShown' = shownPause
    BY <1>4 DEF PrepareGroup
  <2>2. NothingShown(b) /\ \/ state' = "Error" /\ reason' = "Error"
                           \/ state' = "Boundary" /\ reason' = "Oversized"
    BY <2>1 DEF Stop, Fail
  <2>3. Place(c) /\ ~ Separator(c)
    <3>1. c \in c .. c + group.count - 1
      BY <1>1
    <3>. QED BY <3>1 DEF Place, Separator, IsWord
  <2>4. /\ LaidOut(events', cursor', consumed')
        /\ consumed' = 0 /\ events' # << >> /\ events'[1] = c
        /\ pending' = FALSE /\ framed' = framed
    BY <2>2, <2>3, NothingShownOutcome
  <2>5. StoppedAt(c, chapter, shownPause)
    <3>. HIDE DEF active, b
    <3>. QED BY <2>1, <2>2, <2>4 DEF StoppedAt
  <2>. QED BY <1>2, <1>4, <2>4, <2>5
<1>. QED BY <1>3, <1>4

-----------------------------------------------------------------------------
(* The history.                                                            *)

NoWords(from, to) == \A p \in from .. to : ~ IsWord(p)

\* A descriptor of a group that the document still has and that can be shown again.
Entry(e) ==
    /\ e \in Descriptor
    /\ e.first # 0
    /\ LastOf(e) < Len(doc)
    /\ e.active <= e.count
    /\ \A p \in e.first .. LastOf(e) : IsWord(p)
    /\ doc[e.first + e.active - 1].prep = "ok"

\* Such descriptors in the order of the document, with no word between two neighbours.
Remembered(past) ==
    /\ past \in Seq(Descriptor)
    /\ Len(past) <= HistoryCapacity
    /\ \A i \in 1 .. Len(past) : Entry(past[i])
    /\ \A i, j \in 1 .. Len(past) : i < j => LastOf(past[i]) < past[j].first
    /\ \A i \in 1 .. Len(past) - 1 : NoWords(LastOf(past[i]) + 1, past[i + 1].first - 1)

\* The cursor points into the history, and reading on at h passes no word behind it.
ReadsOnAt(h) ==
    /\ historyCursor \in 0 .. Len(history)
    /\ historyCursor = 0 <=> history = << >>
    /\ historyCursor # 0 =>
          /\ LastOf(history[historyCursor]) < h
          /\ NoWords(LastOf(history[historyCursor]) + 1, h - 1)

\* The group c .. c + k - 1 becomes the current entry: the next one, or a new one.
Replayed(c, k) ==
    /\ historyCursor < Len(history)
    /\ historyCursor' = historyCursor + 1
    /\ history' = history
    /\ history[historyCursor + 1].first = c
    /\ history[historyCursor + 1].count = k

Forget(past) == IF Len(past) = HistoryCapacity THEN Tail(past) ELSE past
Remember(past, e) == Forget(past) \o <<e>>

NewlyShown(c, k) ==
    /\ historyCursor = Len(history)
    /\ \E e : /\ Entry(e) /\ e.first = c /\ e.count = k
              /\ history' = Remember(history, e)
    /\ historyCursor' = Len(history')

LEMMA EntryProperties ==
    ASSUME doc \in Docs, NEW e, Entry(e)
    PROVE  /\ e.first \in Nat \ {0} /\ e.count \in 1 .. 3 /\ e.active \in 1 .. e.count
           /\ LastOf(e) = e.first + e.count - 1 /\ LastOf(e) \in Nat
           /\ LastOf(e) < Len(doc) /\ Len(doc) \in Nat \ {0}
           /\ \A p \in e.first .. e.first + e.count - 1 : p \in 1 .. Len(doc) /\ IsWord(p)
<1>1. e.first \in Nat /\ e.count \in 1 .. 3 /\ e.active \in 1 .. 3 /\ e.active <= e.count /\ e.first # 0
  BY DEF Entry, Descriptor, MaxGroup
<1>2. Len(doc) \in Nat \ {0}
  BY BookProperties
<1>3. LastOf(e) = e.first + e.count - 1 /\ LastOf(e) < Len(doc)
  BY DEF LastOf, Entry
<1>4. \A p \in e.first .. e.first + e.count - 1 : IsWord(p)
  BY <1>3 DEF Entry
<1>. QED BY <1>1, <1>2, <1>3, <1>4

\* Forgetting the oldest entry of a full history makes room for one more.
LEMMA ForgetKeepsRemembered ==
    ASSUME NEW past, Remembered(past)
    PROVE  /\ Remembered(Forget(past))
           /\ Len(Forget(past)) < HistoryCapacity
           /\ Forget(past) # << >> =>
                 past # << >> /\ Forget(past)[Len(Forget(past))] = past[Len(past)]
<1>. DEFINE n == Len(past)
            kept == Forget(past)
<1>1. HistoryCapacity \in Nat \ {0} /\ past \in Seq(Descriptor) /\ n \in Nat /\ n <= HistoryCapacity
  BY HistoryAssumption DEF Remembered
<1>2. CASE n = HistoryCapacity
  <2>1. kept = Tail(past) /\ past # << >> /\ n \in Nat \ {0}
    BY <1>1, <1>2 DEF Forget
  <2>2. kept \in Seq(Descriptor) /\ Len(kept) = n - 1 /\ \A i \in 1 .. n - 1 : kept[i] = past[i + 1]
    BY <1>1, <2>1, HeadTailProperties
  <2>. HIDE DEF n, kept
  <2>3. \A i \in 1 .. Len(kept) : Entry(kept[i])
    <3>. SUFFICES ASSUME NEW i \in 1 .. Len(kept) PROVE Entry(kept[i])
      OBVIOUS
    <3>1. i \in 1 .. n - 1 /\ i + 1 \in 1 .. n
      BY <2>1, <2>2
    <3>. QED BY <2>2, <3>1 DEF Remembered, n
  <2>4. \A i, j \in 1 .. Len(kept) : i < j => LastOf(kept[i]) < kept[j].first
    <3>. SUFFICES ASSUME NEW i \in 1 .. Len(kept), NEW j \in 1 .. Len(kept), i < j
                  PROVE  LastOf(kept[i]) < kept[j].first
      OBVIOUS
    <3>1. i \in 1 .. n - 1 /\ i + 1 \in 1 .. n /\ j \in 1 .. n - 1 /\ j + 1 \in 1 .. n /\ i + 1 < j + 1
      BY <2>1, <2>2
    <3>2. LastOf(past[i + 1]) < past[j + 1].first
      BY <3>1 DEF Remembered, n
    <3>. QED BY <2>2, <3>1, <3>2
  <2>5. \A i \in 1 .. Len(kept) - 1 : NoWords(LastOf(kept[i]) + 1, kept[i + 1].first - 1)
    <3>. SUFFICES ASSUME NEW i \in 1 .. Len(kept) - 1
                  PROVE  NoWords(LastOf(kept[i]) + 1, kept[i + 1].first - 1)
      OBVIOUS
    <3>1. i \in 1 .. n - 1 /\ i + 1 \in 1 .. n - 1
      BY <2>1, <2>2
    <3>2. NoWords(LastOf(past[i + 1]) + 1, past[(i + 1) + 1].first - 1)
      BY <3>1 DEF Remembered, n
    <3>. QED BY <2>2, <3>1, <3>2
  <2>6. kept # << >> => kept[Len(kept)] = past[Len(past)]
    <3>. SUFFICES ASSUME kept # << >> PROVE kept[Len(kept)] = past[n]
      BY DEF n
    <3>1. n - 1 \in 1 .. n - 1 /\ (n - 1) + 1 = n
      BY <2>1, <2>2
    <3>. QED BY <2>2, <3>1
  <2>7. Len(kept) < HistoryCapacity
    BY <1>1, <1>2, <2>2 DEF n
  <2>8. Remembered(kept)
    BY <1>1, <2>2, <2>3, <2>4, <2>5, <2>7 DEF Remembered
  <2>. QED BY <2>1, <2>6, <2>7, <2>8 DEF kept
<1>3. CASE n # HistoryCapacity
  <2>1. Forget(past) = past /\ Len(past) < HistoryCapacity
    BY <1>1, <1>3 DEF Forget
  <2>. QED BY <2>1
<1>. QED BY <1>2, <1>3

\* A group behind the last entry is remembered in order.
LEMMA RememberedGrows ==
    ASSUME doc \in Docs, NEW past, Remembered(past), NEW e, Entry(e),
           past # << >> => /\ LastOf(past[Len(past)]) < e.first
                          /\ NoWords(LastOf(past[Len(past)]) + 1, e.first - 1)
    PROVE  /\ Remembered(Remember(past, e))
           /\ Len(Remember(past, e)) \in Nat \ {0}
           /\ Remember(past, e)[Len(Remember(past, e))] = e
<1>. DEFINE kept == Forget(past)
            n == Len(kept)
            new == kept \o <<e>>
<1>1. /\ Remembered(kept) /\ n < HistoryCapacity
      /\ kept # << >> => past # << >> /\ kept[n] = past[Len(past)]
  BY ForgetKeepsRemembered
<1>. HIDE DEF kept
<1>2. kept \in Seq(Descriptor) /\ n \in Nat /\ e \in Descriptor /\ HistoryCapacity \in Nat
  BY <1>1, HistoryAssumption DEF Remembered, Entry
<1>3. kept # << >> => LastOf(kept[n]) < e.first /\ NoWords(LastOf(kept[n]) + 1, e.first - 1)
  BY <1>1
<1>4. /\ \A i \in 1 .. n : Entry(kept[i])
      /\ \A i, j \in 1 .. n : i < j => LastOf(kept[i]) < kept[j].first
      /\ \A i \in 1 .. n - 1 : NoWords(LastOf(kept[i]) + 1, kept[i + 1].first - 1)
  BY <1>1 DEF Remembered
<1>5. n > 0 => kept # << >>
  BY <1>2
<1>6. new \in Seq(Descriptor) /\ Len(new) = n + 1
  BY <1>2
<1>7. new[n + 1] = e /\ \A i \in 1 .. n : new[i] = kept[i]
  BY <1>2
<1>. HIDE DEF new, n
<1>8. \A i \in 1 .. n + 1 : Entry(new[i])
  BY <1>2, <1>4, <1>7
<1>9. ASSUME NEW i \in 1 .. n + 1, NEW j \in 1 .. n + 1, i < j
      PROVE  LastOf(new[i]) < new[j].first
  <2>1. CASE j # n + 1
    <3>1. i \in 1 .. n /\ j \in 1 .. n
      BY <1>2, <1>9, <2>1
    <3>. QED BY <1>4, <1>7, <1>9, <3>1
  <2>2. CASE j = n + 1 /\ i = n
    BY <1>3, <1>5, <1>7, <2>2
  <2>3. CASE j = n + 1 /\ i # n
    <3>1. i \in 1 .. n /\ n \in 1 .. n /\ i < n /\ n > 0
      BY <1>2, <1>9, <2>3
    <3>2. LastOf(kept[i]) < kept[n].first /\ LastOf(kept[n]) < e.first
      BY <1>3, <1>4, <1>5, <3>1
    <3>3. Entry(kept[i]) /\ Entry(kept[n])
      BY <1>4, <3>1
    <3>4. /\ LastOf(kept[i]) \in Nat /\ kept[n].first \in Nat /\ kept[n].count \in 1 .. 3
          /\ LastOf(kept[n]) = kept[n].first + kept[n].count - 1 /\ e.first \in Nat
      BY <3>3, EntryProperties
    <3>5. LastOf(kept[i]) < e.first
      BY <3>2, <3>4
    <3>. QED BY <1>7, <2>3, <3>1, <3>5
  <2>. QED BY <2>1, <2>2, <2>3
<1>10. ASSUME NEW i \in 1 .. n
       PROVE  NoWords(LastOf(new[i]) + 1, new[i + 1].first - 1)
  <2>1. CASE i = n
    BY <1>2, <1>3, <1>5, <1>7, <2>1
  <2>2. CASE i # n
    <3>1. i \in 1 .. n - 1 /\ i + 1 \in 1 .. n
      BY <1>2, <2>2
    <3>. QED BY <1>4, <1>7, <3>1
  <2>. QED BY <2>1, <2>2
<1>11. n + 1 <= HistoryCapacity /\ (n + 1) - 1 = n /\ n + 1 \in Nat \ {0}
  BY <1>1, <1>2 DEF n
<1>12. Remembered(new)
  BY <1>6, <1>8, <1>9, <1>10, <1>11 DEF Remembered
<1>13. Remember(past, e) = new
  BY DEF Remember, new, kept
<1>. QED BY <1>6, <1>7, <1>11, <1>12, <1>13

\* Either way the history stays in order and its current entry is the group shown.
LEMMA HistoryOutcome ==
    ASSUME doc \in Docs, doc' = doc, Remembered(history), NEW c, NEW k, ReadsOnAt(c),
           Replayed(c, k) \/ NewlyShown(c, k)
    PROVE  /\ Remembered(history')
           /\ historyCursor' \in 1 .. Len(history')
           /\ history'[historyCursor'].first = c
           /\ history'[historyCursor'].count = k
<1>1. CASE Replayed(c, k)
  <2>1. historyCursor \in 0 .. Len(history) /\ Len(history) \in Nat
    BY DEF ReadsOnAt, Remembered
  <2>. QED BY <1>1, <2>1 DEF Replayed
<1>2. CASE NewlyShown(c, k)
  <2>1. PICK e : Entry(e) /\ e.first = c /\ e.count = k /\ history' = Remember(history, e)
    BY <1>2 DEF NewlyShown
  <2>2. historyCursor = Len(history) /\ historyCursor' = Len(history')
    BY <1>2 DEF NewlyShown
  <2>3. history # << >> => /\ LastOf(history[Len(history)]) < e.first
                          /\ NoWords(LastOf(history[Len(history)]) + 1, e.first - 1)
    BY <2>1, <2>2 DEF ReadsOnAt
  <2>4. /\ Remembered(Remember(history, e))
        /\ Len(Remember(history, e)) \in Nat \ {0}
        /\ Remember(history, e)[Len(Remember(history, e))] = e
    BY <2>1, <2>3, RememberedGrows
  <2>. QED BY <2>1, <2>2, <2>4
<1>. QED BY <1>1, <1>2

-----------------------------------------------------------------------------
(* emitNextWord.                                                           *)

\* A remembered group is shown again.
LEMMA ReplayOutcome ==
    ASSUME doc \in Docs, NEW c, NEW m \in Nat \ {0}, Stretch(c, m),
           NEW e, Entry(e), e.first = c,
           NEW resumed, NEW chapter, NEW shownPause,
           Replay(Stream(c, m), e, resumed, chapter, shownPause)
    PROVE  /\ LaidOut(events', cursor', consumed')
           /\ events' # << >>
           /\ ShownAt(c, e.count, resumed)
<1>. DEFINE full == Fill(Stream(c, m), e.count)
            k == IF e.count > m THEN e.count ELSE m
            N == Len(doc)
<1>1. /\ c \in Nat \ {0} /\ m <= 4 /\ c + m <= N + 1 /\ N \in Nat \ {0}
      /\ e.count \in 1 .. 3 /\ e.active \in 1 .. e.count
      /\ c + e.count - 1 < N
      /\ \A p \in c .. c + e.count - 1 : p \in 1 .. N /\ IsWord(p)
  BY StretchProperties, EntryProperties
<1>2. k \in Nat \ {0} /\ Stretch(c, k) /\ e.count <= k
  <2>1. k \in Nat \ {0} /\ k <= 4 /\ c + k <= N + 1 /\ e.count <= k
    BY <1>1
  <2>. QED BY <1>1, <2>1 DEF Stretch, EventCapacity
<1>3. full = Stream(c, k)
  BY <1>1, FillOfStream
<1>4. full.events = Run(c, k) /\ \A i \in 1 .. k : Run(c, k)[i] = c + i - 1
  <2>. HIDE DEF full, k
  <2>1. full.events = Run(c, k)
    BY <1>1, <1>2, <1>3, StreamProperties
  <2>2. \A i \in 1 .. k : Run(c, k)[i] = c + i - 1
    BY <1>1, <1>2, RunProperties
  <2>. QED BY <2>1, <2>2
<1>. HIDE DEF full, k
<1>5. \A i \in 1 .. e.count : full.events[i] <= N /\ doc[full.events[i]].kind = "Word"
  <2>. SUFFICES ASSUME NEW i \in 1 .. e.count
                PROVE  full.events[i] <= N /\ doc[full.events[i]].kind = "Word"
    OBVIOUS
  <2>1. i \in 1 .. k /\ c + i - 1 \in c .. c + e.count - 1
    BY <1>1, <1>2
  <2>2. full.events[i] = c + i - 1
    BY <1>4, <2>1
  <2>. QED BY <1>1, <2>1, <2>2 DEF IsWord
<1>6. PrepareGroup(Stream(c, k), e, resumed, chapter, shownPause)
  BY <1>3, <1>5 DEF Replay, full
<1>7. doc[c + e.active - 1].prep = "ok"
  BY DEF Entry
<1>8. e.count \in 1 .. MaxGroup
  BY <1>1 DEF MaxGroup
<1>. QED BY <1>1, <1>2, <1>6, <1>7, <1>8, PrepareOutcome

\* The next entry of the history is the next group of the document.
LEMMA NextEntryIsNext ==
    ASSUME doc \in Docs, Remembered(history), NEW h, Place(h), ReadsOnAt(h),
           historyCursor < Len(history), IsWord(NextContent(h))
    PROVE  /\ history[historyCursor + 1].first = NextContent(h)
           /\ Entry(history[historyCursor + 1])
<1>. DEFINE c == NextContent(h)
            i == historyCursor
            e == history[i + 1]
            l == LastOf(history[i])
<1>1. i \in 1 .. Len(history) - 1 /\ i + 1 \in 1 .. Len(history) /\ i \in 1 .. Len(history)
  <2>1. history \in Seq(Descriptor)
    BY DEF Remembered
  <2>2. i # 0
    BY <2>1 DEF ReadsOnAt
  <2>. QED BY <2>1, <2>2 DEF ReadsOnAt
<1>2. Entry(history[i]) /\ Entry(e)
  BY <1>1 DEF Remembered
<1>3. /\ l \in Nat /\ e.first \in Nat \ {0} /\ LastOf(e) \in Nat /\ e.first <= LastOf(e)
      /\ LastOf(e) < Len(doc) /\ Len(doc) \in Nat \ {0} /\ IsWord(e.first)
  <2>1. /\ l \in Nat /\ e.first \in Nat \ {0} /\ LastOf(e) \in Nat /\ e.count \in 1 .. 3
        /\ LastOf(e) = e.first + e.count - 1
        /\ LastOf(e) < Len(doc) /\ Len(doc) \in Nat \ {0}
        /\ \A p \in e.first .. e.first + e.count - 1 : IsWord(p)
    BY <1>2, EntryProperties
  <2>. HIDE DEF e, l
  <2>2. e.first \in e.first .. e.first + e.count - 1
    BY <2>1
  <2>. QED BY <2>1, <2>2
<1>4. l < e.first /\ NoWords(l + 1, e.first - 1)
  <2>1. i < i + 1
    BY <1>1
  <2>. QED BY <1>1, <2>1 DEF Remembered
<1>5. l < h /\ NoWords(l + 1, h - 1)
  BY <1>1 DEF ReadsOnAt
<1>6. h \in Nat \ {0} /\ c \in h .. Len(doc) /\ \A p \in h .. c - 1 : Separator(p)
  BY ContentProperties DEF Place
<1>7. IsWord(c)
  OBVIOUS
<1>. HIDE DEF c, e, l, i
<1>8. ~ (e.first < h)
  BY <1>3, <1>4, <1>5, <1>6 DEF NoWords
<1>9. ~ (e.first < c)
  <2>. SUFFICES ASSUME e.first < c PROVE FALSE
    OBVIOUS
  <2>1. e.first \in h .. c - 1
    BY <1>3, <1>6, <1>8
  <2>. QED BY <1>3, <1>6, <2>1 DEF Separator, IsWord
<1>10. ~ (c < e.first)
  <2>. SUFFICES ASSUME c < e.first PROVE FALSE
    OBVIOUS
  <2>1. c \in l + 1 .. e.first - 1
    BY <1>3, <1>5, <1>6
  <2>. QED BY <1>4, <1>7, <2>1 DEF NoWords
<1>11. e.first = c
  BY <1>3, <1>6, <1>9, <1>10
<1>. QED BY <1>2, <1>11 DEF c, e, i

\* A group that is new to the session is shown and remembered, or reading stops at it.
LEMMA NewGroupOutcome ==
    ASSUME doc \in Docs, NEW c, NEW m \in Nat \ {0}, Place(c), Stretch(c, m), IsWord(c),
           historyCursor = Len(history),
           NEW resumed, NEW chapter, NEW shownPause,
           NewGroup(Stream(c, m), resumed, chapter, shownPause)
    PROVE  /\ LaidOut(events', cursor', consumed')
           /\ events' # << >>
           /\ \/ \E k \in 1 .. MaxGroup : ShownAt(c, k, resumed) /\ NewlyShown(c, k)
              \/ StoppedAt(c, chapter, shownPause) /\ UNCHANGED historyVars
<1>. DEFINE b == Stream(c, m)
            full == IF grouping THEN Fill(b, Buffered(Look(b))) ELSE b
<1>1. PICK group \in IF grouping THEN Fitted(Candidate(Look(b))) ELSE {Single} :
          /\ PrepareGroup(full, group, resumed, chapter, shownPause)
          /\ IF pending'
             THEN /\ history' = Recorded(full, group)
                  /\ historyCursor' = Len(history')
             ELSE UNCHANGED historyVars
  BY DEF NewGroup
<1>2. /\ group.count \in 1 .. MaxGroup /\ group.active \in 1 .. group.count
      /\ \A p \in c .. c + group.count - 1 : p \in 1 .. Len(doc) /\ IsWord(p)
      /\ \E k \in Nat \ {0} : full = Stream(c, k) /\ Stretch(c, k) /\ group.count <= k
  BY GroupInDocument
<1>3. PICK k \in Nat \ {0} : full = Stream(c, k) /\ Stretch(c, k) /\ group.count <= k
  BY <1>2
<1>. HIDE DEF full
<1>4. /\ LaidOut(events', cursor', consumed')
      /\ events' # << >>
      /\ \/ doc[c + group.active - 1].prep = "ok" /\ ShownAt(c, group.count, resumed)
         \/ doc[c + group.active - 1].prep # "ok" /\ StoppedAt(c, chapter, shownPause)
  BY <1>1, <1>2, <1>3, PrepareOutcome
<1>5. ASSUME doc[c + group.active - 1].prep = "ok", ShownAt(c, group.count, resumed)
      PROVE  NewlyShown(c, group.count)
  <2>. DEFINE e == [first |-> c, count |-> group.count, active |-> group.active]
  <2>1. c \in Nat \ {0} /\ group.count \in 1 .. 3 /\ group.active \in 1 .. group.count
        /\ Len(doc) \in Nat \ {0}
    BY <1>2, <1>3, StretchProperties DEF MaxGroup
  <2>2. full.events[1] = c
    <3>1. full.events = Run(c, k)
      BY <1>3, <2>1, StreamProperties
    <3>2. Run(c, k)[1] = c + 1 - 1
      <4>1. 1 \in 1 .. k
        OBVIOUS
      <4>. QED BY <2>1, <4>1, RunProperties
    <3>. QED BY <2>1, <3>1, <3>2
  <2>3. history' = Remember(history, e) /\ historyCursor' = Len(history')
    <3>1. pending' = TRUE
      BY <1>5 DEF ShownAt
    <3>2. history' = Recorded(full, group) /\ historyCursor' = Len(history')
      BY <1>1, <3>1
    <3>. QED BY <2>2, <3>2 DEF Recorded, Remember, Forget
  <2>4. LastOf(e) = c + group.count - 1
    BY DEF LastOf
  <2>5. c + group.count - 1 < Len(doc)
    <3>1. c + group.count - 1 \in c .. c + group.count - 1
      BY <2>1
    <3>2. c + group.count - 1 \in 1 .. Len(doc) /\ doc[c + group.count - 1].kind = "Word"
      BY <1>2, <3>1 DEF IsWord
    <3>3. c + group.count - 1 # Len(doc)
      BY <3>2, BookProperties
    <3>. QED BY <2>1, <3>2, <3>3
  <2>6. Entry(e)
    <3>1. e \in Descriptor
      BY <2>1 DEF Descriptor, MaxGroup
    <3>2. /\ e.first # 0 /\ LastOf(e) < Len(doc) /\ e.active <= e.count
          /\ doc[e.first + e.active - 1].prep = "ok"
      BY <1>5, <2>1, <2>4, <2>5
    <3>3. \A p \in e.first .. LastOf(e) : IsWord(p)
      BY <1>2, <2>4
    <3>. QED BY <3>1, <3>2, <3>3 DEF Entry
  <2>7. e.first = c /\ e.count = group.count
    OBVIOUS
  <2>. HIDE DEF e
  <2>. QED BY <2>3, <2>6, <2>7 DEF NewlyShown
<1>6. ASSUME StoppedAt(c, chapter, shownPause) PROVE UNCHANGED historyVars
  <2>1. pending' = FALSE
    BY <1>6 DEF StoppedAt
  <2>. QED BY <1>1, <2>1
<1>. QED BY <1>2, <1>4, <1>5, <1>6

\* From h on, emitNextWord shows the group at the next content, or stops there.
LEMMA EmitOutcome ==
    ASSUME doc \in Docs, Remembered(history), NEW h, NEW n, Place(h), Stretch(h, n), ReadsOnAt(h),
           NEW resumed, NEW chapter, NEW shownPause,
           EmitNext(Stream(h, n), resumed, chapter, shownPause)
    PROVE  /\ LaidOut(events', cursor', consumed')
           /\ events' # << >>
           /\ \/ \E k \in 1 .. MaxGroup :
                    /\ ShownAt(NextContent(h), k, resumed)
                    /\ Replayed(NextContent(h), k) \/ NewlyShown(NextContent(h), k)
              \/ StoppedAt(NextContent(h), chapter, shownPause) /\ UNCHANGED historyVars
<1>. DEFINE c == NextContent(h)
            found == Drain(Stream(h, n))
            kind == doc[found.events[1]].kind
<1>1. PICK m \in Nat \ {0} : found = Stream(c, m) /\ Stretch(c, m)
  BY DrainOfStream
<1>2. Place(c) /\ ~ Separator(c)
  BY ContentProperties
<1>3. kind = doc[c].kind
  <2>1. c \in Nat \ {0} /\ 1 \in 1 .. m /\ c + 1 - 1 = c
    BY <1>1 DEF Stretch
  <2>2. found.events = Run(c, m) /\ Run(c, m)[1] = c + 1 - 1
    <3>. HIDE DEF c, found
    <3>1. found.events = Run(c, m)
      BY <1>1, <2>1, StreamProperties
    <3>. QED BY <2>1, <3>1, RunProperties
  <2>. QED BY <2>1, <2>2
<1>4. CASE /\ kind = "Word" /\ historyCursor < Len(history)
           /\ historyCursor' = historyCursor + 1 /\ UNCHANGED history
           /\ Replay(found, history[historyCursor + 1], resumed, chapter, shownPause)
  <2>. DEFINE e == history[historyCursor + 1]
  <2>1. IsWord(c)
    BY <1>3, <1>4 DEF IsWord
  <2>2. e.first = c /\ Entry(e)
    BY <1>4, <2>1, NextEntryIsNext
  <2>3. Replay(Stream(c, m), e, resumed, chapter, shownPause)
    BY <1>1, <1>4
  <2>. HIDE DEF c
  <2>4. /\ LaidOut(events', cursor', consumed') /\ events' # << >> /\ ShownAt(c, e.count, resumed)
    BY <1>1, <2>2, <2>3, ReplayOutcome
  <2>5. Replayed(c, e.count)
    BY <1>4, <2>2 DEF Replayed
  <2>6. e.count \in 1 .. MaxGroup
    BY <2>2, EntryProperties DEF MaxGroup
  <2>. HIDE DEF e
  <2>. QED BY <2>4, <2>5, <2>6 DEF c
<1>5. CASE /\ kind = "Word" /\ historyCursor = Len(history)
           /\ NewGroup(found, resumed, chapter, shownPause)
  <2>1. IsWord(c)
    BY <1>3, <1>5 DEF IsWord
  <2>2. NewGroup(Stream(c, m), resumed, chapter, shownPause)
    BY <1>1, <1>5
  <2>. HIDE DEF c
  <2>3. /\ LaidOut(events', cursor', consumed')
        /\ events' # << >>
        /\ \/ \E k \in 1 .. MaxGroup : ShownAt(c, k, resumed) /\ NewlyShown(c, k)
           \/ StoppedAt(c, chapter, shownPause) /\ UNCHANGED historyVars
    BY <1>1, <1>2, <1>5, <2>1, <2>2, NewGroupOutcome
  <2>. QED BY <2>3 DEF c
<1>6. CASE /\ NoWord(found) /\ chapterPending' = chapter /\ chapterPauseShown' = shownPause
           /\ UNCHANGED historyVars
  <2>1. NoWord(Stream(c, m))
    BY <1>1, <1>6
  <2>. HIDE DEF c
  <2>2. /\ LaidOut(events', cursor', consumed') /\ events' # << >>
        /\ StoppedAt(c, chapter, shownPause)
    BY <1>1, <1>2, <1>6, <2>1, NoWordOutcome
  <2>. QED BY <1>6, <2>2 DEF c
<1>. QED BY <1>4, <1>5, <1>6 DEF EmitNext

-----------------------------------------------------------------------------
(* The inductive invariant.                                                *)

\* The flags are Boolean.
Flags ==
    /\ restoring \in BOOLEAN /\ grouping \in BOOLEAN
    /\ pending \in BOOLEAN /\ framed \in BOOLEAN
    /\ chapterPending \in BOOLEAN /\ chapterPauseShown \in BOOLEAN
    /\ checkpointRequested \in BOOLEAN /\ periodicPending \in BOOLEAN
    /\ checkpointAfter \in BOOLEAN /\ clockStarted \in BOOLEAN

Opened == doc \in Docs /\ start \in 1 .. Len(doc)

\* Where the buffer and the history stand in the document.
Placed ==
    /\ LaidOut(events, cursor, consumed)
    /\ Remembered(history)
    /\ events = << >> => history = << >> /\ historyCursor = 0
    /\ events # << >> => ReadsOnAt(events[consumed + 1])
    /\ consumed # 0 =>
          /\ historyCursor # 0
          /\ history[historyCursor].first = events[1]
          /\ history[historyCursor].count = consumed

\* What the state of the session says of the display.
Controlled ==
    /\ state \in States
    /\ reason \in Reasons
    /\ pending => /\ state \in {"Paused", "Playing", "Exited"}
                  /\ consumed # 0 /\ framed /\ ~ chapterPauseShown
    /\ state = "Playing" => ~ chapterPauseShown
    /\ state \in {"Paused", "Playing"} => consumed # 0
    /\ state \notin {"Empty", "Error", "Exited"} => events # << >>
    /\ state = "Boundary" => reason \in {"NonText", "Oversized"}
    /\ (state = "Boundary" /\ reason = "NonText") =>
          consumed = 0 /\ doc[events[1]].kind = "NonText"
    /\ state = "Empty" =>
          /\ events = << >> /\ cursor = start /\ presented = 0 /\ read = {}
          /\ ~ chapterPauseShown

\* Every word from the start of the session to position n is in the set seen.
Covered(n, seen) == \A p \in start .. n : IsWord(p) => p \in seen

\* What has been read, up to the durable position, up to the display and on it.
ReadSoFar ==
    /\ presented \in 0 .. Len(doc)
    /\ Covered(presented, read)
    /\ events # << >> => Covered(events[1] - 1, read)
    /\ (state \in {"Paused", "Playing"} /\ ~ pending) =>
          \A i \in 1 .. consumed : events[i] \in read

\* A chapter boundary behind the displayed group is announced or has been shown.
Chapters ==
    /\ chapterPauseShown => chapterSeen
    /\ state \in {"Paused", "Playing"} =>
          \A p \in events[consumed] + 1 .. events[consumed + 1] - 1 :
              doc[p].kind = "Chapter" => chapterPending \/ chapterSeen

IInv == Flags /\ Opened /\ Placed /\ Controlled /\ ReadSoFar /\ Chapters /\ OwedCheckpointHeld

-----------------------------------------------------------------------------
(* The steps that move to another group.                                   *)

\* The outcome of emitNextWord, with the group or the obstacle at c.
Emitted(c, resumed, chapter, shownPause) ==
    /\ LaidOut(events', cursor', consumed')
    /\ events' # << >>
    /\ \/ \E k \in 1 .. MaxGroup :
             ShownAt(c, k, resumed) /\ (Replayed(c, k) \/ NewlyShown(c, k))
       \/ StoppedAt(c, chapter, shownPause) /\ UNCHANGED historyVars

\* The outcome of any move, also of a rewind.
Landed(c, resumed, chapter, shownPause) ==
    /\ LaidOut(events', cursor', consumed')
    /\ events' # << >>
    /\ Remembered(history')
    /\ \/ \E k \in 1 .. MaxGroup :
             /\ ShownAt(c, k, resumed)
             /\ historyCursor' \in 1 .. Len(history')
             /\ history'[historyCursor'].first = c
             /\ history'[historyCursor'].count = k
       \/ /\ StoppedAt(c, chapter, shownPause)
          /\ UNCHANGED historyVars
          /\ ReadsOnAt(c)

\* Separators do not count as words.
LEMMA ReadsOnAtContent ==
    ASSUME doc \in Docs, Remembered(history), NEW h, Place(h), ReadsOnAt(h)
    PROVE  ReadsOnAt(NextContent(h))
<1>. DEFINE c == NextContent(h)
            l == LastOf(history[historyCursor])
<1>1. h \in Nat \ {0} /\ c \in h .. Len(doc) /\ Len(doc) \in Nat
      /\ \A p \in h .. c - 1 : Separator(p)
  <2>1. Len(doc) \in Nat \ {0} /\ h \in 1 .. Len(doc)
    BY BookProperties DEF Place
  <2>2. c \in h .. Len(doc) /\ \A p \in h .. c - 1 : Separator(p)
    BY ContentProperties
  <2>. QED BY <2>1, <2>2
<1>2. ASSUME historyCursor # 0
      PROVE  l < c /\ NoWords(l + 1, c - 1)
  <2>1. historyCursor \in 1 .. Len(history)
    BY <1>2 DEF ReadsOnAt
  <2>2. Entry(history[historyCursor])
    BY <2>1 DEF Remembered
  <2>3. l \in Nat
    BY <2>2, EntryProperties
  <2>4. l < h /\ NoWords(l + 1, h - 1)
    BY <1>2 DEF ReadsOnAt
  <2>. HIDE DEF c, l
  <2>5. ASSUME NEW p \in l + 1 .. c - 1 PROVE ~ IsWord(p)
    <3>1. p \in l + 1 .. h - 1 \/ p \in h .. c - 1
      BY <1>1, <2>3
    <3>. QED BY <1>1, <2>4, <3>1 DEF NoWords, Separator, IsWord
  <2>6. l < c
    BY <1>1, <2>3, <2>4
  <2>. QED BY <2>5, <2>6 DEF NoWords
<1>. HIDE DEF c
<1>. QED BY <1>2 DEF ReadsOnAt, c

LEMMA EmittedLands ==
    ASSUME doc \in Docs, doc' = doc, Remembered(history), NEW c, ReadsOnAt(c),
           NEW resumed, NEW chapter, NEW shownPause,
           Emitted(c, resumed, chapter, shownPause)
    PROVE  Landed(c, resumed, chapter, shownPause)
<1>1. ASSUME NEW k \in 1 .. MaxGroup, ShownAt(c, k, resumed), Replayed(c, k) \/ NewlyShown(c, k)
      PROVE  Landed(c, resumed, chapter, shownPause)
  <2>1. /\ Remembered(history')
        /\ historyCursor' \in 1 .. Len(history')
        /\ history'[historyCursor'].first = c
        /\ history'[historyCursor'].count = k
    BY <1>1, HistoryOutcome
  <2>. QED BY <1>1, <2>1 DEF Landed, Emitted
<1>2. ASSUME StoppedAt(c, chapter, shownPause), UNCHANGED historyVars
      PROVE  Landed(c, resumed, chapter, shownPause)
  <2>1. Remembered(history')
    BY <1>2 DEF historyVars
  <2>. QED BY <1>2, <2>1 DEF Landed, Emitted
<1>. QED BY <1>1, <1>2 DEF Emitted

LEMMA EmitLands ==
    ASSUME Opened, doc' = doc, Placed, NEW h, NEW n, Place(h), Stretch(h, n), ReadsOnAt(h),
           NEW resumed, NEW chapter, NEW shownPause,
           EmitNext(Stream(h, n), resumed, chapter, shownPause)
    PROVE  /\ Emitted(NextContent(h), resumed, chapter, shownPause)
           /\ Landed(NextContent(h), resumed, chapter, shownPause)
<1>1. Emitted(NextContent(h), resumed, chapter, shownPause)
  BY EmitOutcome DEF Emitted, Opened, Placed
<1>. QED BY <1>1, ReadsOnAtContent, EmittedLands DEF Opened, Placed

\* An empty buffer in front of h.
LEMMA EmptyStream ==
    ASSUME NEW h \in Nat \ {0}
    PROVE  Buffer(<< >>, h) = Stream(h, 0)
<1>1. << >> \in Seq(Nat) /\ Len(<< >>) = 0 /\ \A i \in 1 .. 0 : << >>[i] = h + i - 1
  OBVIOUS
<1>2. << >> = Run(h, 0)
  BY <1>1, RunIsUnique
<1>. QED BY <1>2 DEF Stream

\* A session that is still empty stands at its start.
LEMMA EmptyStandsAtStart ==
    ASSUME IInv, state = "Empty"
    PROVE  /\ Place(start) /\ Stretch(start, 0) /\ ReadsOnAt(start)
           /\ start \in Nat \ {0}
           /\ Buffer(<< >>, start) = Stream(start, 0)
<1>1. start \in 1 .. Len(doc) /\ Len(doc) \in Nat \ {0}
  BY BookProperties DEF IInv, Opened
<1>2. Place(start) /\ Stretch(start, 0)
  BY <1>1 DEF Place, Stretch, EventCapacity
<1>3. history = << >> /\ historyCursor = 0
  BY DEF IInv, Placed, Controlled
<1>4. ReadsOnAt(start)
  BY <1>3 DEF ReadsOnAt
<1>. QED BY <1>1, <1>2, <1>4, EmptyStream

\* A displayed group or an element at the head of the buffer is left behind.
LEMMA WithoutIsPlaced ==
    ASSUME IInv, events # << >>,
           NEW n, n = consumed \/ (consumed = 0 /\ n = 1 /\ doc[events[1]].kind = "NonText")
    PROVE  \E h, m \in Nat :
              /\ Without(n) = Stream(h, m)
              /\ Place(h) /\ Stretch(h, m) /\ ReadsOnAt(h)
              /\ h = IF n = consumed THEN events[consumed + 1] ELSE events[1] + 1
<1>1. LaidOut(events, cursor, consumed) /\ doc \in Docs /\ Len(doc) \in Nat \ {0}
  BY BookProperties DEF IInv, Opened, Placed
<1>2. PICK h, m \in Nat :
          /\ Without(n) = Stream(h, m) /\ Stretch(h, m)
          /\ h = IF n = consumed THEN events[consumed + 1] ELSE events[1] + 1
  BY <1>1, WithoutIsStream
<1>3. events \in Seq(1 .. Len(doc)) /\ consumed + 1 \in 1 .. Len(events) /\ consumed \in 0 .. 3
  BY <1>1 DEF LaidOut, MaxGroup
<1>4. events[consumed + 1] \in 1 .. Len(doc)
  BY <1>3, ElementOfSeq
<1>5. ReadsOnAt(events[consumed + 1])
  BY DEF IInv, Placed
<1>6. CASE n = consumed
  BY <1>2, <1>4, <1>5, <1>6 DEF Place
<1>7. CASE n # consumed
  <2>1. h = events[1] + 1 /\ doc[events[1]].kind = "NonText" /\ consumed + 1 = 1
    BY <1>2, <1>7
  <2>2. events[1] \in 1 .. Len(doc) /\ ReadsOnAt(events[1])
    BY <1>4, <1>5, <2>1
  <2>3. events[1] # Len(doc)
    BY <1>1, <2>1, <2>2, BookProperties
  <2>4. Place(h)
    BY <1>1, <2>1, <2>2, <2>3 DEF Place
  <2>. DEFINE l == LastOf(history[historyCursor])
              q == events[1]
  <2>5. ASSUME historyCursor # 0
        PROVE  l < q + 1 /\ NoWords(l + 1, (q + 1) - 1)
    <3>1. historyCursor \in 1 .. Len(history) /\ Remembered(history)
      BY <2>2, <2>5 DEF ReadsOnAt, IInv, Placed
    <3>2. Entry(history[historyCursor])
      BY <3>1 DEF Remembered
    <3>3. l \in Nat
      BY <1>1, <3>2, EntryProperties
    <3>4. l < q /\ NoWords(l + 1, q - 1)
      BY <2>2, <2>5 DEF ReadsOnAt
    <3>5. ~ IsWord(q)
      BY <2>1 DEF IsWord
    <3>. HIDE DEF l, q
    <3>6. q \in Nat
      BY <1>1, <2>2 DEF q
    <3>7. ASSUME NEW p \in l + 1 .. (q + 1) - 1 PROVE ~ IsWord(p)
      <4>1. p \in l + 1 .. q - 1 \/ p = q
        BY <3>3, <3>6
      <4>. QED BY <3>4, <3>5, <4>1 DEF NoWords
    <3>. QED BY <3>3, <3>4, <3>6, <3>7 DEF NoWords
  <2>6. ReadsOnAt(q + 1)
    BY <2>2, <2>5 DEF ReadsOnAt
  <2>. QED BY <1>2, <1>7, <2>1, <2>4, <2>6
<1>. QED BY <1>6, <1>7

-----------------------------------------------------------------------------
(* What every move keeps.                                                  *)

\* Nothing that was read is forgotten.
LEMMA ReadGrows ==
    ASSUME IInv, Observe
    PROVE  /\ \A p \in read : p \in read'
           /\ Acknowledged => \A i \in 1 .. consumed : events[i] \in read'
           /\ (state = "Empty" /\ presented' # 0) => presented' \in read'
<1>1. read' = CASE Acknowledged -> read \cup {events[i] : i \in 1 .. consumed}
                [] Resumed -> {presented'}
                [] OTHER -> read
  BY DEF Observe
<1>2. /\ state = "Empty" => read = {} /\ ~ pending
      /\ Acknowledged => pending
      /\ Resumed <=> state = "Empty" /\ presented' # 0
  <2>1. state = "Empty" => ~ pending
    BY DEF IInv, Controlled
  <2>. QED BY <2>1 DEF IInv, Controlled, Acknowledged, Resumed
<1>3. CASE Acknowledged
  <2>1. ~ Resumed /\ state # "Empty"
    BY <1>2, <1>3
  <2>2. read' = read \cup {events[i] : i \in 1 .. consumed}
    BY Zenon, <1>1, <1>3, <2>1
  <2>. QED BY <2>1, <2>2
<1>4. CASE Resumed
  <2>1. ~ Acknowledged /\ read = {}
    BY <1>2, <1>4
  <2>2. read' = {presented'}
    BY Zenon, <1>1, <1>4, <2>1
  <2>. QED BY <2>1, <2>2
<1>5. CASE ~ Acknowledged /\ ~ Resumed
  <2>1. read' = read
    BY Zenon, <1>1, <1>5
  <2>. QED BY <1>2, <1>5, <2>1
<1>. QED BY <1>3, <1>4, <1>5

LEMMA LandedPlaced ==
    ASSUME Opened, doc' = doc, NEW c, NEW resumed, NEW chapter, NEW shownPause,
           Landed(c, resumed, chapter, shownPause)
    PROVE  Placed'
<1>1. LaidOut(events', cursor', consumed') /\ Remembered(history') /\ events' # << >>
  BY DEF Landed
<1>2. LaidOut(events, cursor, consumed)' /\ Remembered(history)'
  <2>1. LaidOut(events, cursor, consumed)'
    BY <1>1 DEF LaidOut, Separator, IsWord
  <2>2. Remembered(history)'
    BY <1>1 DEF Remembered, NoWords, Entry, LastOf, IsWord
  <2>. QED BY <2>1, <2>2
<1>3. ASSUME NEW k \in 1 .. MaxGroup, ShownAt(c, k, resumed),
             historyCursor' \in 1 .. Len(history'),
             history'[historyCursor'].first = c,
             history'[historyCursor'].count = k
      PROVE  Placed'
  <2>. DEFINE l == LastOf(history'[historyCursor'])
              q == events'
  <2>1. consumed' = k /\ q[1] = c /\ q[k] = c + k - 1 /\ k # 0
    BY <1>3 DEF ShownAt, MaxGroup
  <2>2. l = q[k]
    BY <1>3, <2>1 DEF LastOf
  <2>3. q[k] < q[k + 1] /\ \A p \in q[k] + 1 .. q[k + 1] - 1 : Separator(p)
    BY <1>1, <2>1 DEF LaidOut
  <2>4. l < q[k + 1] /\ NoWords(l + 1, q[k + 1] - 1)
    BY <2>2, <2>3 DEF NoWords, Separator, IsWord
  <2>5. history' \in Seq(Descriptor) /\ history' # << >>
        /\ historyCursor' # 0 /\ historyCursor' \in 0 .. Len(history')
    BY <1>1, <1>3 DEF Remembered
  <2>6. ReadsOnAt(events[consumed + 1])'
    BY <2>1, <2>4, <2>5 DEF ReadsOnAt, NoWords, LastOf, IsWord
  <2>. QED BY <1>1, <1>2, <1>3, <2>1, <2>5, <2>6 DEF Placed
<1>4. ASSUME StoppedAt(c, chapter, shownPause), UNCHANGED historyVars, ReadsOnAt(c)
      PROVE  Placed'
  <2>1. consumed' = 0 /\ events'[1] = c
    BY <1>4 DEF StoppedAt
  <2>2. ReadsOnAt(events[consumed + 1])'
    BY <1>4, <2>1 DEF ReadsOnAt, NoWords, LastOf, IsWord, historyVars
  <2>. QED BY <1>1, <1>2, <2>1, <2>2 DEF Placed
<1>. QED BY <1>3, <1>4 DEF Landed

LEMMA LandedKeeps ==
    ASSUME IInv, Observe, doc' = doc, start' = start,
           NEW c \in Nat, NEW resumed \in {"Paused", "Playing"},
           NEW chapter \in BOOLEAN, NEW shownPause \in BOOLEAN,
           Landed(c, resumed, chapter, shownPause),
           shownPause => chapterSeen,
           Covered(c - 1, read'),
           presented' \in 0 .. Len(doc), Covered(presented', read')
    PROVE  /\ Placed' /\ Controlled' /\ ReadSoFar' /\ Chapters' /\ OwedCheckpointHeld'
           /\ pending' \in BOOLEAN /\ framed' \in BOOLEAN
           /\ chapterPending' \in BOOLEAN /\ chapterPauseShown' \in BOOLEAN
<1>1. Placed'
  BY LandedPlaced DEF IInv
<1>2. events' # << >> /\ LaidOut(events', cursor', consumed')
  BY DEF Landed
<1>3. ASSUME NEW k \in 1 .. MaxGroup, ShownAt(c, k, resumed)
      PROVE  /\ Controlled' /\ ReadSoFar' /\ Chapters' /\ OwedCheckpointHeld'
             /\ pending' \in BOOLEAN /\ framed' \in BOOLEAN
             /\ chapterPending' \in BOOLEAN /\ chapterPauseShown' \in BOOLEAN
  <2>1. /\ consumed' = k /\ k # 0 /\ events'[1] = c /\ events'[k] = c + k - 1
        /\ events'[k + 1] = NextContent(c + k)
        /\ chapterPauseShown' = FALSE /\ state' = resumed
        /\ reason' = "None" /\ pending' = TRUE /\ framed' = TRUE
    BY <1>3 DEF ShownAt, MaxGroup
  <2>2. chapterPending' = \E p \in c + k - 1 .. NextContent(c + k) : doc[p].kind = "Chapter"
    BY <1>3 DEF ShownAt
  <2>3. Controlled'
    BY <1>2, <2>1 DEF Controlled, States, Reasons
  <2>4. ReadSoFar'
    BY <2>1 DEF ReadSoFar, Covered, IsWord
  <2>5. Chapters'
    <3>. DEFINE d == NextContent(c + k)
    <3>0. Place(c + k) /\ d \in Nat /\ k \in Nat
      <4>1. d = events'[k + 1] /\ k + 1 \in 1 .. Len(events') /\ events' \in Seq(1 .. Len(doc))
            /\ k \in Nat /\ Len(doc) \in Nat
        <5>1. Len(doc) \in Nat \ {0} /\ k \in 1 .. 3
          BY BookProperties DEF IInv, Opened, MaxGroup
        <5>2. events' \in Seq(1 .. Len(doc)) /\ k < Len(events')
          BY <1>2, <2>1 DEF LaidOut
        <5>. QED BY <2>1, <5>1, <5>2
      <4>2. d \in 1 .. Len(doc)
        BY <4>1, ElementOfSeq
      <4>3. c + k - 1 < d
        BY <1>2, <2>1 DEF LaidOut
      <4>. QED BY <4>1, <4>2, <4>3 DEF Place
    <3>1. ASSUME NEW p \in (c + k - 1) + 1 .. d - 1, doc[p].kind = "Chapter"
          PROVE  chapterPending'
      <4>1. p \in c + k - 1 .. d
        BY <3>0
      <4>. QED BY <2>2, <3>1, <4>1
    <3>. QED BY <2>1, <3>1 DEF Chapters
  <2>6. OwedCheckpointHeld'
    BY <2>1 DEF OwedCheckpointHeld
  <2>7. chapterPending' \in BOOLEAN
    BY <2>2
  <2>. QED BY <2>1, <2>3, <2>4, <2>5, <2>6, <2>7
<1>4. ASSUME StoppedAt(c, chapter, shownPause)
      PROVE  /\ Controlled' /\ ReadSoFar' /\ Chapters' /\ OwedCheckpointHeld'
             /\ pending' \in BOOLEAN /\ framed' \in BOOLEAN
             /\ chapterPending' \in BOOLEAN /\ chapterPauseShown' \in BOOLEAN
  <2>1. /\ consumed' = 0 /\ events'[1] = c
        /\ chapterPending' = chapter /\ chapterPauseShown' = shownPause
        /\ pending' = FALSE /\ framed' = framed
    BY <1>4 DEF StoppedAt
  <2>2. /\ state' \in {"Error", "Finished", "Boundary"} /\ reason' \in Reasons
        /\ state' = "Boundary" => reason' \in {"NonText", "Oversized"}
        /\ (state' = "Boundary" /\ reason' = "NonText") => doc[c].kind = "NonText"
    BY <1>4 DEF StoppedAt, IInv, Controlled, Reasons
  <2>3. Controlled'
    BY <1>2, <2>1, <2>2 DEF Controlled, States
  <2>4. ReadSoFar'
    BY <2>1, <2>2 DEF ReadSoFar, Covered, IsWord
  <2>5. Chapters'
    <3>1. shownPause => chapterSeen'
      BY <2>1 DEF Observe, NewFrame
    <3>. QED BY <2>1, <2>2, <3>1 DEF Chapters
  <2>6. OwedCheckpointHeld'
    BY <2>2 DEF OwedCheckpointHeld
  <2>. QED BY <2>1, <2>3, <2>4, <2>5, <2>6 DEF IInv, Flags
<1>. QED BY <1>1, <1>3, <1>4 DEF Landed

-----------------------------------------------------------------------------
(* The actions that move to another group.                                 *)

LEMMA RequestFlags ==
    ASSUME IInv, NEW elapsed \in BOOLEAN, NEW asks \in BOOLEAN, Request(elapsed, asks)
    PROVE  checkpointRequested' \in BOOLEAN /\ periodicPending' \in BOOLEAN
<1>1. checkpointRequested' \in BOOLEAN
  BY DEF Request
<1>2. periodicPending' \in BOOLEAN
  BY DEF Request
<1>. QED BY <1>1, <1>2

\* Separators in front of the next content are no words that could be missed.
LEMMA CoveredToContent ==
    ASSUME Opened, NEW h, Place(h), NEW seen, Covered(h - 1, seen)
    PROVE  Covered(NextContent(h) - 1, seen)
<1>. DEFINE c == NextContent(h)
<1>1. Len(doc) \in Nat \ {0} /\ h \in 1 .. Len(doc) /\ start \in Nat
  <2>1. Len(doc) \in Nat \ {0} /\ start \in 1 .. Len(doc)
    BY BookProperties DEF Opened
  <2>. QED BY <2>1 DEF Place
<1>2. c \in h .. Len(doc) /\ \A p \in h .. c - 1 : Separator(p)
  BY ContentProperties DEF Opened
<1>. HIDE DEF c
<1>3. ASSUME NEW p \in start .. c - 1, IsWord(p) PROVE p \in seen
  <2>1. p \in start .. h - 1 \/ p \in h .. c - 1
    BY <1>1, <1>2
  <2>2. p \notin h .. c - 1
    BY <1>2, <1>3 DEF Separator, IsWord
  <2>. QED BY <1>3, <2>1, <2>2 DEF Covered
<1>. QED BY <1>3 DEF Covered, c

\* Once the displayed group is acknowledged, everything before the rest is read.
LEMMA CoveredToRest ==
    ASSUME IInv, state \in {"Paused", "Playing"}, ~ pending
    PROVE  /\ events # << >> /\ consumed # 0
           /\ Covered(events[consumed + 1] - 1, read)
<1>1. /\ consumed # 0 /\ LaidOut(events, cursor, consumed)
      /\ Covered(events[1] - 1, read) /\ \A i \in 1 .. consumed : events[i] \in read
      /\ events # << >>
  BY DEF IInv, Placed, Controlled, ReadSoFar, LaidOut
<1>. DEFINE f == events[1]
            l == events[consumed]
            r == events[consumed + 1]
<1>2. /\ Len(doc) \in Nat \ {0} /\ start \in Nat /\ consumed \in 1 .. 3
      /\ events \in Seq(1 .. Len(doc)) /\ consumed < Len(events) /\ Len(events) \in Nat
  <2>1. Len(doc) \in Nat \ {0} /\ start \in 1 .. Len(doc)
    BY BookProperties DEF IInv, Opened
  <2>. QED BY <1>1, <2>1 DEF LaidOut, MaxGroup
<1>3. f \in 1 .. Len(doc) /\ r \in 1 .. Len(doc)
  <2>1. 1 \in 1 .. Len(events) /\ consumed + 1 \in 1 .. Len(events)
    BY <1>2
  <2>. QED BY <1>2, <2>1, ElementOfSeq
<1>4. /\ \A i \in 1 .. consumed : events[i] = f + i - 1
      /\ \A p \in l + 1 .. r - 1 : Separator(p)
  BY <1>1, <1>2 DEF LaidOut
<1>5. l = f + consumed - 1
  <2>1. consumed \in 1 .. consumed
    BY <1>2
  <2>. QED BY <1>4, <2>1
<1>. HIDE DEF f, l, r
<1>6. ASSUME NEW p \in start .. r - 1, IsWord(p) PROVE p \in read
  <2>1. CASE p < f
    <3>1. p \in start .. f - 1
      BY <1>2, <1>3, <2>1
    <3>. QED BY <1>1, <1>6, <3>1 DEF Covered, f
  <2>2. CASE f <= p /\ p <= l
    <3>1. p - f + 1 \in 1 .. consumed /\ f + (p - f + 1) - 1 = p
      BY <1>2, <1>3, <1>5, <2>2
    <3>. QED BY <1>1, <1>4, <3>1
  <2>3. CASE l < p
    <3>1. p \in l + 1 .. r - 1
      BY <1>2, <1>3, <1>5, <2>3
    <3>. QED BY <1>4, <1>6, <3>1 DEF Separator, IsWord
  <2>. QED BY <1>2, <1>3, <1>5, <2>1, <2>2, <2>3
<1>. QED BY <1>1, <1>6 DEF Covered, r

LEMMA CoveredGrows ==
    ASSUME IInv, Observe, NEW n, Covered(n, read)
    PROVE  Covered(n, read')
BY ReadGrows DEF Covered

\* From here on the rest of the buffer is shown or reading stops at its first event.
LEMMA RestIsPlaced ==
    ASSUME IInv, state \in {"Paused", "Playing"}, ~ pending
    PROVE  \E m \in Nat :
              /\ Without(consumed) = Stream(events[consumed + 1], m)
              /\ Place(events[consumed + 1]) /\ Stretch(events[consumed + 1], m)
              /\ ReadsOnAt(events[consumed + 1])
              /\ NextContent(events[consumed + 1]) = events[consumed + 1]
<1>. DEFINE r == events[consumed + 1]
<1>1. events # << >> /\ doc \in Docs
  BY CoveredToRest DEF IInv, Opened
<1>2. PICK h, m \in Nat :
          /\ Without(consumed) = Stream(h, m)
          /\ Place(h) /\ Stretch(h, m) /\ ReadsOnAt(h)
          /\ h = IF consumed = consumed THEN events[consumed + 1] ELSE events[1] + 1
  BY <1>1, WithoutIsPlaced
<1>3. h = r
  BY <1>2
<1>4. ~ Separator(r)
  BY <1>1 DEF IInv, Placed, LaidOut
<1>. HIDE DEF r
<1>5. r \in r .. Len(doc) /\ \A p \in r .. r - 1 : Separator(p)
  <2>1. r \in 1 .. Len(doc) /\ Len(doc) \in Nat
    BY <1>1, <1>2, <1>3, BookProperties DEF Place
  <2>. QED BY <2>1
<1>6. NextContent(r) = r
  BY <1>1, <1>2, <1>3, <1>4, <1>5, ContentIsUnique
<1>. QED BY <1>2, <1>3, <1>6 DEF r

\* Where the group step and the deadline of a playing frame lead.
LEMMA RestLands ==
    ASSUME IInv, Observe, doc' = doc, start' = start, presented' = presented,
           state \in {"Paused", "Playing"}, ~ pending,
           NEW resumed \in {"Paused", "Playing"}, NEW chapter \in BOOLEAN, NEW shownPause \in BOOLEAN,
           shownPause => chapterSeen,
           EmitNext(Without(consumed), resumed, chapter, shownPause)
    PROVE  /\ Emitted(events[consumed + 1], resumed, chapter, shownPause)
           /\ Placed' /\ Controlled' /\ ReadSoFar' /\ Chapters' /\ OwedCheckpointHeld'
           /\ pending' \in BOOLEAN /\ framed' \in BOOLEAN
           /\ chapterPending' \in BOOLEAN /\ chapterPauseShown' \in BOOLEAN
<1>. DEFINE r == events[consumed + 1]
<1>1. PICK m \in Nat :
          /\ Without(consumed) = Stream(r, m)
          /\ Place(r) /\ Stretch(r, m) /\ ReadsOnAt(r) /\ NextContent(r) = r
  BY RestIsPlaced
<1>2. Covered(r - 1, read)
  BY CoveredToRest
<1>. HIDE DEF r
<1>3. Emitted(r, resumed, chapter, shownPause) /\ Landed(r, resumed, chapter, shownPause)
  <2>1. EmitNext(Stream(r, m), resumed, chapter, shownPause)
    BY <1>1
  <2>2. /\ Emitted(NextContent(r), resumed, chapter, shownPause)
        /\ Landed(NextContent(r), resumed, chapter, shownPause)
    BY <1>1, <2>1, EmitLands DEF IInv
  <2>. QED BY <1>1, <2>2
<1>4. Covered(r - 1, read') /\ Covered(presented', read') /\ presented' \in 0 .. Len(doc) /\ r \in Nat
  <2>1. Covered(presented, read) /\ presented \in 0 .. Len(doc)
    BY DEF IInv, ReadSoFar
  <2>2. r \in Nat
    BY <1>1 DEF Place
  <2>. QED BY <1>2, <2>1, <2>2, CoveredGrows
<1>5. /\ Placed' /\ Controlled' /\ ReadSoFar' /\ Chapters' /\ OwedCheckpointHeld'
      /\ pending' \in BOOLEAN /\ framed' \in BOOLEAN
      /\ chapterPending' \in BOOLEAN /\ chapterPauseShown' \in BOOLEAN
  BY <1>3, <1>4, LandedKeeps
<1>. QED BY <1>3, <1>5 DEF r

LEMMA StepGroupKeeps ==
    ASSUME IInv, StepGroup, Observe
    PROVE  IInv' /\ Emitted(events[consumed + 1], "Paused", FALSE, FALSE)
<1>1. /\ state = "Paused" /\ ~ pending /\ EmitNext(Without(consumed), "Paused", FALSE, FALSE)
      /\ checkpointAfter' = pending'
      /\ Request(FALSE, state' = "Error")
      /\ UNCHANGED <<bookVars, restoring, grouping, presented, clockStarted>>
  BY DEF StepGroup
<1>2. doc' = doc /\ start' = start /\ presented' = presented
      /\ restoring' = restoring /\ grouping' = grouping /\ clockStarted' = clockStarted
  BY <1>1 DEF bookVars
<1>3. /\ Emitted(events[consumed + 1], "Paused", FALSE, FALSE)
      /\ Placed' /\ Controlled' /\ ReadSoFar' /\ Chapters' /\ OwedCheckpointHeld'
      /\ pending' \in BOOLEAN /\ framed' \in BOOLEAN
      /\ chapterPending' \in BOOLEAN /\ chapterPauseShown' \in BOOLEAN
  BY <1>1, <1>2, RestLands
<1>4. checkpointRequested' \in BOOLEAN /\ periodicPending' \in BOOLEAN
  BY <1>1, RequestFlags
<1>5. Flags' /\ Opened'
  BY <1>1, <1>2, <1>3, <1>4 DEF IInv, Flags, Opened
<1>. QED BY <1>3, <1>5 DEF IInv

LEMMA TickKeeps ==
    ASSUME IInv, NEW elapsed \in BOOLEAN, Tick(elapsed), ~ chapterPending, Observe
    PROVE  IInv' /\ Emitted(events[consumed + 1], "Playing", FALSE, chapterPauseShown)
<1>1. /\ state = "Playing" /\ ~ pending
      /\ EmitNext(Without(consumed), "Playing", FALSE, chapterPauseShown)
      /\ Request(elapsed, state' = "Error")
      /\ UNCHANGED <<bookVars, restoring, grouping, presented, checkpointAfter, clockStarted>>
  BY DEF Tick
<1>2. doc' = doc /\ start' = start /\ presented' = presented /\ checkpointAfter' = checkpointAfter
      /\ restoring' = restoring /\ grouping' = grouping /\ clockStarted' = clockStarted
  BY <1>1 DEF bookVars
<1>0. chapterPauseShown \in BOOLEAN /\ (chapterPauseShown => chapterSeen)
  BY DEF IInv, Flags, Chapters
<1>3. /\ Emitted(events[consumed + 1], "Playing", FALSE, chapterPauseShown)
      /\ Placed' /\ Controlled' /\ ReadSoFar' /\ Chapters' /\ OwedCheckpointHeld'
      /\ pending' \in BOOLEAN /\ framed' \in BOOLEAN
      /\ chapterPending' \in BOOLEAN /\ chapterPauseShown' \in BOOLEAN
  BY <1>0, <1>1, <1>2, RestLands
<1>4. checkpointRequested' \in BOOLEAN /\ periodicPending' \in BOOLEAN
  BY <1>1, RequestFlags
<1>5. Flags' /\ Opened'
  BY <1>1, <1>2, <1>3, <1>4 DEF IInv, Flags, Opened
<1>. QED BY <1>3, <1>5 DEF IInv

LEMMA SkipElementKeeps ==
    ASSUME IInv, SkipElement, Observe
    PROVE  /\ IInv'
           /\ Place(events[1] + 1)
           /\ Emitted(NextContent(events[1] + 1), "Paused", chapterPending, chapterPauseShown)
<1>1. /\ state = "Boundary" /\ reason = "NonText"
      /\ EmitNext(Without(1), "Paused", chapterPending, chapterPauseShown)
      /\ checkpointAfter' = pending'
      /\ Request(FALSE, state' = "Error")
      /\ UNCHANGED <<bookVars, restoring, grouping, presented, clockStarted>>
  BY DEF SkipElement
<1>2. doc' = doc /\ start' = start /\ presented' = presented
      /\ restoring' = restoring /\ grouping' = grouping /\ clockStarted' = clockStarted
  BY <1>1 DEF bookVars
<1>. DEFINE q == events[1]
<1>3. events # << >> /\ consumed = 0 /\ doc[q].kind = "NonText"
  BY <1>1 DEF IInv, Controlled
<1>4. PICK h, m \in Nat :
          /\ Without(1) = Stream(h, m)
          /\ Place(h) /\ Stretch(h, m) /\ ReadsOnAt(h)
          /\ h = IF 1 = consumed THEN events[consumed + 1] ELSE events[1] + 1
  BY <1>3, WithoutIsPlaced
<1>5. h = q + 1
  BY <1>3, <1>4
<1>6. chapterPending \in BOOLEAN /\ chapterPauseShown \in BOOLEAN /\ (chapterPauseShown => chapterSeen)
  BY DEF IInv, Flags, Chapters
<1>7. /\ Emitted(NextContent(h), "Paused", chapterPending, chapterPauseShown)
      /\ Landed(NextContent(h), "Paused", chapterPending, chapterPauseShown)
  <2>1. EmitNext(Stream(h, m), "Paused", chapterPending, chapterPauseShown)
    BY <1>1, <1>4
  <2>. QED BY <1>2, <1>4, <2>1, EmitLands DEF IInv
<1>8. Covered(h - 1, read)
  <2>1. Covered(q - 1, read) /\ ~ IsWord(q)
    BY <1>3 DEF IInv, ReadSoFar, IsWord
  <2>2. q \in Nat /\ start \in Nat
    <3>1. events \in Seq(1 .. Len(doc)) /\ 1 \in 1 .. Len(events)
      BY <1>3 DEF IInv, Placed, LaidOut
    <3>2. q \in 1 .. Len(doc)
      BY <3>1, ElementOfSeq
    <3>. QED BY <3>2 DEF IInv, Opened
  <2>. HIDE DEF q
  <2>3. \A p \in start .. h - 1 : p \in start .. q - 1 \/ p = q
    BY <1>5, <2>2
  <2>. QED BY <2>1, <2>3 DEF Covered
<1>9. Covered(NextContent(h) - 1, read') /\ NextContent(h) \in Nat
  <2>1. Covered(NextContent(h) - 1, read)
    BY <1>4, <1>8, CoveredToContent DEF IInv
  <2>2. Place(NextContent(h))
    BY <1>4, ContentProperties DEF IInv, Opened
  <2>. QED BY <2>1, <2>2, CoveredGrows DEF Place
<1>10. Covered(presented', read') /\ presented' \in 0 .. Len(doc)
  <2>1. Covered(presented, read) /\ presented \in 0 .. Len(doc)
    BY DEF IInv, ReadSoFar
  <2>. QED BY <1>2, <2>1, CoveredGrows
<1>11. /\ Placed' /\ Controlled' /\ ReadSoFar' /\ Chapters' /\ OwedCheckpointHeld'
       /\ pending' \in BOOLEAN /\ framed' \in BOOLEAN
       /\ chapterPending' \in BOOLEAN /\ chapterPauseShown' \in BOOLEAN
  BY <1>2, <1>6, <1>7, <1>9, <1>10, LandedKeeps
<1>12. checkpointRequested' \in BOOLEAN /\ periodicPending' \in BOOLEAN
  BY <1>1, RequestFlags
<1>13. Flags' /\ Opened'
  BY <1>1, <1>2, <1>11, <1>12 DEF IInv, Flags, Opened
<1>. QED BY <1>4, <1>5, <1>7, <1>11, <1>13 DEF IInv

\* Before anything is read, an acknowledged position is the start of the session.
LEMMA CoveredAtStart ==
    ASSUME Opened, NEW seen
    PROVE  Covered(NextContent(start) - 1, seen) /\ Covered(0, seen)
<1>1. start \in 1 .. Len(doc) /\ Len(doc) \in Nat \ {0} /\ Place(start)
  BY BookProperties DEF Opened, Place
<1>2. Covered(start - 1, seen) /\ Covered(0, seen)
  BY <1>1 DEF Covered
<1>. QED BY <1>1, <1>2, CoveredToContent

LEMMA OpenKeeps ==
    ASSUME IInv, Open, Observe
    PROVE  IInv' /\ Emitted(NextContent(start), "Paused", FALSE, FALSE)
<1>. DEFINE c == NextContent(start)
<1>1. /\ state = "Empty"
      /\ EmitNext(Buffer(<< >>, start), "Paused", FALSE, FALSE)
      /\ checkpointRequested' = (state' = "Error")
      /\ UNCHANGED <<bookVars, restoring, grouping, presented, periodicPending,
                     checkpointAfter, clockStarted>>
  BY DEF Open
<1>2. doc' = doc /\ start' = start /\ presented' = presented
      /\ restoring' = restoring /\ grouping' = grouping /\ clockStarted' = clockStarted
      /\ periodicPending' = periodicPending /\ checkpointAfter' = checkpointAfter
  BY <1>1 DEF bookVars
<1>3. /\ Place(start) /\ Stretch(start, 0) /\ ReadsOnAt(start)
      /\ Buffer(<< >>, start) = Stream(start, 0)
  BY <1>1, EmptyStandsAtStart
<1>4. Emitted(c, "Paused", FALSE, FALSE) /\ Landed(c, "Paused", FALSE, FALSE)
  <2>1. EmitNext(Stream(start, 0), "Paused", FALSE, FALSE)
    BY <1>1, <1>3
  <2>. QED BY <1>2, <1>3, <2>1, EmitLands DEF IInv
<1>5. /\ Covered(c - 1, read') /\ Covered(presented', read') /\ presented' \in 0 .. Len(doc) /\ c \in Nat
  <2>1. presented' = 0
    BY <1>1, <1>2 DEF IInv, Controlled
  <2>2. Place(c) /\ Len(doc) \in Nat \ {0}
    BY <1>3, ContentProperties, BookProperties DEF IInv, Opened
  <2>. QED BY <2>1, <2>2, CoveredAtStart DEF Place, IInv
<1>6. /\ Placed' /\ Controlled' /\ ReadSoFar' /\ Chapters' /\ OwedCheckpointHeld'
      /\ pending' \in BOOLEAN /\ framed' \in BOOLEAN
      /\ chapterPending' \in BOOLEAN /\ chapterPauseShown' \in BOOLEAN
  BY <1>2, <1>4, <1>5, LandedKeeps
<1>7. checkpointRequested' \in BOOLEAN
  BY <1>1
<1>8. Flags' /\ Opened'
  BY <1>2, <1>6, <1>7 DEF IInv, Flags, Opened
<1>. QED BY <1>4, <1>6, <1>8 DEF IInv

LEMMA RestoreKeeps ==
    ASSUME IInv, NEW matches \in BOOLEAN, Restore(matches), Observe
    PROVE  /\ IInv'
           /\ \/ /\ presented' = presented
                 /\ \E chapter, shownPause :
                       Emitted(NextContent(start), "Paused", chapter, shownPause)
              \/ /\ presented' = NextContent(start)
                 /\ IsWord(NextContent(start))
                 /\ Place(NextContent(start) + 1)
                 /\ Emitted(NextContent(NextContent(start) + 1), "Paused", FALSE, FALSE)
<1>. DEFINE c == NextContent(start)
            found == Drain(Buffer(<< >>, start))
            same == matches /\ doc[found.events[1]].kind = "Word"
                            /\ doc[found.events[1]].prep = "ok"
<1>1. /\ state = "Empty"
      /\ \/ /\ ~ same
            /\ Fail(found)
            /\ UNCHANGED <<restoring, historyVars, presented, chapterVars>>
         \/ /\ same
            /\ restoring' = FALSE
            /\ \/ /\ grouping
                  /\ presented' = found.events[1]
                  /\ EmitNext(Buffer(Tail(found.events), found.cursor), "Paused", FALSE, FALSE)
               \/ /\ ~ grouping
                  /\ UNCHANGED presented
                  /\ EmitNext(found, "Paused", FALSE, FALSE)
      /\ checkpointRequested' = (state' = "Error")
      /\ UNCHANGED <<bookVars, grouping, periodicPending, checkpointAfter, clockStarted>>
  BY DEF Restore
<1>2. doc' = doc /\ start' = start
      /\ grouping' = grouping /\ clockStarted' = clockStarted
      /\ periodicPending' = periodicPending /\ checkpointAfter' = checkpointAfter
  BY <1>1 DEF bookVars
<1>3. /\ Place(start) /\ Stretch(start, 0) /\ ReadsOnAt(start) /\ start \in Nat \ {0}
      /\ Buffer(<< >>, start) = Stream(start, 0)
  BY <1>1, EmptyStandsAtStart
<1>4. /\ Place(c) /\ c \in Nat \ {0} /\ c >= start /\ ~ Separator(c) /\ ReadsOnAt(c)
      /\ Len(doc) \in Nat \ {0} /\ c <= Len(doc)
  <2>1. c \in start .. Len(doc) /\ ~ Separator(c) /\ Place(c)
    BY <1>3, ContentProperties DEF IInv, Opened
  <2>2. ReadsOnAt(c)
    BY <1>3, ReadsOnAtContent DEF IInv, Opened, Placed
  <2>3. Len(doc) \in Nat \ {0}
    BY BookProperties DEF IInv, Opened
  <2>. QED BY <1>3, <2>1, <2>2, <2>3
<1>5. found = Stream(c, 1) /\ Stretch(c, 1)
  <2>1. PICK m \in Nat \ {0} :
            /\ found = Stream(c, m) /\ Stretch(c, m)
            /\ m = 1 \/ c + m = start + 0
    BY <1>3, DrainOfStream DEF IInv, Opened
  <2>2. m = 1
    BY <1>3, <1>4, <2>1
  <2>. QED BY <2>1, <2>2
<1>. HIDE DEF c, found
<1>6. found.events = Run(c, 1) /\ found.events[1] = c /\ found.cursor = c + 1
  <2>1. found.events = Run(c, 1) /\ found.cursor = c + 1
    BY <1>4, <1>5, StreamProperties
  <2>2. 1 \in 1 .. 1 /\ c + 1 - 1 = c
    BY <1>4
  <2>3. Run(c, 1)[1] = c + 1 - 1
    BY <1>4, <2>2, RunProperties
  <2>. QED BY <2>1, <2>2, <2>3
<1>7. /\ presented = 0 /\ ~ chapterPauseShown
      /\ Covered(c - 1, read') /\ Covered(0, read')
      /\ chapterPending \in BOOLEAN /\ chapterPauseShown \in BOOLEAN
  BY <1>1, CoveredAtStart DEF c, IInv, Controlled, Flags
<1>8. ASSUME NEW n, n \in Nat, NEW chapter \in BOOLEAN, NEW shownPause \in BOOLEAN, ~ shownPause,
             Landed(n, "Paused", chapter, shownPause),
             Covered(n - 1, read'), presented' \in 0 .. Len(doc), Covered(presented', read'),
             restoring' \in BOOLEAN
      PROVE  IInv'
  <2>1. /\ Placed' /\ Controlled' /\ ReadSoFar' /\ Chapters' /\ OwedCheckpointHeld'
        /\ pending' \in BOOLEAN /\ framed' \in BOOLEAN
        /\ chapterPending' \in BOOLEAN /\ chapterPauseShown' \in BOOLEAN
    BY <1>2, <1>8, LandedKeeps
  <2>2. checkpointRequested' \in BOOLEAN
    BY <1>1
  <2>3. Flags' /\ Opened'
    BY <1>2, <1>8, <2>1, <2>2 DEF IInv, Flags, Opened
  <2>. QED BY <2>1, <2>3 DEF IInv
<1>9. CASE Fail(found) /\ UNCHANGED <<restoring, historyVars, presented, chapterVars>>
  <2>1. /\ NothingShown(Stream(c, 1)) /\ state' = "Error" /\ reason' = "Error"
        /\ chapterPending' = chapterPending /\ chapterPauseShown' = chapterPauseShown
        /\ restoring' = restoring /\ presented' = presented /\ UNCHANGED historyVars
    BY <1>5, <1>9 DEF Fail, chapterVars
  <2>2. /\ LaidOut(events', cursor', consumed')
        /\ consumed' = 0 /\ events' # << >> /\ events'[1] = c
        /\ pending' = FALSE /\ framed' = framed
    <3>1. 1 \in Nat \ {0} /\ doc \in Docs
      BY DEF IInv, Opened
    <3>. QED BY <1>4, <1>5, <2>1, <3>1, NothingShownOutcome
  <2>3. StoppedAt(c, chapterPending, chapterPauseShown)
    BY <2>1, <2>2 DEF StoppedAt
  <2>4. Emitted(c, "Paused", chapterPending, chapterPauseShown)
    BY <2>1, <2>2, <2>3 DEF Emitted
  <2>5. Landed(c, "Paused", chapterPending, chapterPauseShown)
    BY <1>2, <1>4, <2>4, EmittedLands DEF IInv, Opened, Placed
  <2>6. presented' \in 0 .. Len(doc) /\ Covered(presented', read') /\ restoring' \in BOOLEAN
    BY <1>4, <1>7, <2>1 DEF IInv, Flags
  <2>7. IInv'
    BY <1>4, <1>7, <1>8, <2>5, <2>6
  <2>. QED BY <2>1, <2>4, <2>7 DEF c
<1>10. CASE /\ restoring' = FALSE /\ UNCHANGED presented
            /\ EmitNext(found, "Paused", FALSE, FALSE)
  <2>1. NextContent(c) = c
    <3>1. c \in c .. Len(doc) /\ \A p \in c .. c - 1 : Separator(p)
      BY <1>4
    <3>. QED BY <1>4, <3>1, ContentIsUnique DEF IInv, Opened
  <2>2. /\ Emitted(NextContent(c), "Paused", FALSE, FALSE)
        /\ Landed(NextContent(c), "Paused", FALSE, FALSE)
    <3>1. EmitNext(Stream(c, 1), "Paused", FALSE, FALSE)
      BY <1>5, <1>10
    <3>. QED BY <1>2, <1>4, <1>5, <3>1, EmitLands DEF IInv
  <2>3. presented' \in 0 .. Len(doc) /\ Covered(presented', read') /\ restoring' \in BOOLEAN
    <3>1. restoring' \in BOOLEAN
      BY <1>10
    <3>2. presented' = 0
      BY <1>7, <1>10
    <3>. QED BY <1>4, <1>7, <3>1, <3>2
  <2>4. IInv'
    BY <1>4, <1>7, <1>8, <2>1, <2>2, <2>3
  <2>. QED BY <1>10, <2>1, <2>2, <2>4 DEF c
<1>11. CASE /\ same /\ restoring' = FALSE /\ presented' = found.events[1]
            /\ EmitNext(Buffer(Tail(found.events), found.cursor), "Paused", FALSE, FALSE)
  <2>1. presented' = c /\ IsWord(c)
    BY <1>6, <1>11 DEF IsWord
  <2>2. Place(c + 1) /\ Stretch(c + 1, 0) /\ c + 1 \in Nat \ {0}
    <3>1. c # Len(doc)
      <4>1. c \in 1 .. Len(doc) /\ doc[c].kind = "Word"
        BY <1>4, <2>1 DEF IsWord
      <4>. QED BY <4>1, BookProperties DEF IInv, Opened
    <3>. QED BY <1>4, <3>1 DEF Place, Stretch, EventCapacity
  <2>3. Buffer(Tail(found.events), found.cursor) = Stream(c + 1, 0)
    <3>1. Run(c, 1) \in Seq(Nat) /\ Len(Run(c, 1)) = 1 /\ Run(c, 1) # << >>
      <4>1. Run(c, 1) \in Seq(Nat) /\ Len(Run(c, 1)) = 1
        BY <1>4, RunProperties
      <4>. QED BY <4>1
    <3>2. Tail(Run(c, 1)) \in Seq(Nat) /\ Len(Tail(Run(c, 1))) = 0
      BY <3>1, HeadTailProperties
    <3>3. Tail(Run(c, 1)) = << >>
      BY <3>2, EmptySeq
    <3>4. Buffer(Tail(found.events), found.cursor) = Buffer(<< >>, c + 1)
      BY <1>6, <3>3
    <3>. QED BY <2>2, <3>4, EmptyStream
  <2>4. ReadsOnAt(c + 1)
    <3>1. history = << >> /\ historyCursor = 0
      BY <1>1 DEF IInv, Placed, Controlled
    <3>. QED BY <3>1 DEF ReadsOnAt
  <2>5. /\ Emitted(NextContent(c + 1), "Paused", FALSE, FALSE)
        /\ Landed(NextContent(c + 1), "Paused", FALSE, FALSE)
    <3>1. EmitNext(Stream(c + 1, 0), "Paused", FALSE, FALSE)
      BY <1>11, <2>3
    <3>. QED BY <1>2, <2>2, <2>4, <3>1, EmitLands DEF IInv
  <2>6. c \in read'
    BY <1>1, <1>4, <2>1, ReadGrows
  <2>7. Covered(c, read')
    <3>1. start \in Nat
      BY <1>3
    <3>. QED BY <1>4, <1>7, <2>6, <3>1 DEF Covered
  <2>8. Covered(NextContent(c + 1) - 1, read') /\ NextContent(c + 1) \in Nat
    <3>1. (c + 1) - 1 = c
      BY <1>4
    <3>2. Place(NextContent(c + 1))
      BY <2>2, ContentProperties DEF IInv, Opened
    <3>. QED BY <2>2, <2>7, <3>1, <3>2, CoveredToContent DEF IInv, Place
  <2>9. presented' \in 0 .. Len(doc) /\ Covered(presented', read') /\ restoring' \in BOOLEAN
    <3>1. restoring' \in BOOLEAN
      BY <1>11
    <3>. QED BY <1>4, <2>1, <2>7, <3>1
  <2>10. IInv'
    BY <1>8, <2>5, <2>8, <2>9
  <2>. QED BY <2>1, <2>2, <2>5, <2>10 DEF c
<1>. QED BY <1>1, <1>9, <1>10, <1>11

\* A rewind shows the entry it returns to, exactly as it was shown before.
LEMMA RewindFiveKeeps ==
    ASSUME IInv, NEW elapsed \in BOOLEAN, RewindFive(elapsed), Observe
    PROVE  /\ IInv'
           /\ history' = history
           /\ historyCursor' \in 1 .. historyCursor
           /\ ShownAt(history[historyCursor'].first, history[historyCursor'].count, "Paused")
<1>. DEFINE t == Max({1, historyCursor - 5})
            e == history[t]
            c == e.first
            opened == Drain(Buffer(<< >>, e.first))
<1>1. /\ ~ pending /\ history # << >>
      /\ \/ /\ doc[opened.events[1]].kind = "Word"
            /\ Replay(opened, e, "Paused", FALSE, FALSE)
            /\ historyCursor' = t
         \/ NoWord(opened)
      /\ checkpointAfter' = pending'
      /\ Request(elapsed, state' = "Error")
      /\ UNCHANGED <<bookVars, restoring, grouping, history, presented, clockStarted>>
  BY DEF RewindFive
<1>2. doc' = doc /\ start' = start /\ presented' = presented /\ history' = history
      /\ restoring' = restoring /\ grouping' = grouping /\ clockStarted' = clockStarted
  BY <1>1 DEF bookVars
<1>3. /\ events # << >> /\ historyCursor \in 1 .. Len(history) /\ Remembered(history)
      /\ Len(history) \in Nat /\ doc \in Docs /\ Len(doc) \in Nat \ {0} /\ start \in Nat
  <2>1. events # << >> /\ Remembered(history)
    BY <1>1 DEF IInv, Placed
  <2>2. historyCursor \in 0 .. Len(history) /\ historyCursor # 0
    BY <1>1, <2>1 DEF IInv, Placed, ReadsOnAt
  <2>3. doc \in Docs /\ Len(doc) \in Nat \ {0} /\ start \in 1 .. Len(doc)
    BY BookProperties DEF IInv, Opened
  <2>. QED BY <2>1, <2>2, <2>3 DEF Remembered
<1>4. t \in 1 .. historyCursor
  <2>1. {1, historyCursor - 5} # {} /\ historyCursor \in Nat
    BY <1>3
  <2>2. CASE historyCursor - 5 >= 1
    <3>1. {1, historyCursor - 5} \in SUBSET Nat /\ \A y \in {1, historyCursor - 5} : y <= historyCursor
      BY <2>1, <2>2
    <3>2. Max({1, historyCursor - 5}) \in {1, historyCursor - 5}
      BY <2>1, <3>1, MaxProperties
    <3>. QED BY <2>1, <2>2, <3>2
  <2>3. CASE ~ (historyCursor - 5 >= 1)
    <3>1. 1 \in {1, historyCursor - 5} /\ \A y \in {1, historyCursor - 5} : 1 >= y
      BY <2>1, <2>3
    <3>2. Max({1, historyCursor - 5}) \in {1, historyCursor - 5}
          /\ \A y \in {1, historyCursor - 5} : Max({1, historyCursor - 5}) >= y
      BY <3>1 DEF Max
    <3>3. Max({1, historyCursor - 5}) = 1
      BY <2>1, <2>3, <3>2
    <3>. QED BY <1>3, <3>3
  <2>. QED BY <2>1, <2>2, <2>3
<1>. HIDE DEF t
<1>5. t \in 1 .. Len(history) /\ Entry(e)
  BY <1>3, <1>4 DEF Remembered
<1>6. /\ c \in Nat \ {0} /\ e.count \in 1 .. 3 /\ LastOf(e) = c + e.count - 1
      /\ LastOf(e) < Len(doc) /\ IsWord(c) /\ Place(c)
  <2>1. /\ c \in Nat \ {0} /\ e.count \in 1 .. 3 /\ LastOf(e) = c + e.count - 1
        /\ LastOf(e) < Len(doc)
        /\ \A p \in c .. c + e.count - 1 : p \in 1 .. Len(doc) /\ IsWord(p)
    BY <1>3, <1>5, EntryProperties
  <2>. HIDE DEF c, e
  <2>2. c \in c .. c + e.count - 1
    BY <2>1
  <2>. QED BY <2>1, <2>2 DEF Place
<1>. HIDE DEF c, e
<1>7. NextContent(c) = c
  <2>1. c \in c .. Len(doc) /\ \A p \in c .. c - 1 : Separator(p)
    BY <1>3, <1>6 DEF Place
  <2>2. ~ Separator(c)
    BY <1>6 DEF Separator, IsWord
  <2>. QED BY <1>3, <1>6, <2>1, <2>2, ContentIsUnique
<1>8. PICK m \in Nat \ {0} : opened = Stream(c, m) /\ Stretch(c, m)
  <2>1. Buffer(<< >>, c) = Stream(c, 0)
    BY <1>6, EmptyStream
  <2>2. Stretch(c, 0)
    BY <1>3, <1>6 DEF Stretch, EventCapacity, Place
  <2>3. opened = Drain(Stream(c, 0))
    BY <2>1 DEF c
  <2>. HIDE DEF opened
  <2>. QED BY <1>3, <1>6, <1>7, <2>2, <2>3, DrainOfStream
<1>. HIDE DEF opened
<1>9. opened.events[1] = c
  <2>1. 1 \in 1 .. m /\ c + 1 - 1 = c
    BY <1>6
  <2>2. opened.events = Run(c, m)
    BY <1>6, <1>8, StreamProperties
  <2>3. Run(c, m)[1] = c + 1 - 1
    BY <1>6, <2>1, RunProperties
  <2>. QED BY <2>1, <2>2, <2>3
<1>10. ~ NoWord(opened)
  BY <1>6, <1>9 DEF NoWord, IsWord
<1>11. Replay(Stream(c, m), e, "Paused", FALSE, FALSE) /\ historyCursor' = t
  BY <1>1, <1>8, <1>10
<1>12. LaidOut(events', cursor', consumed') /\ events' # << >> /\ ShownAt(c, e.count, "Paused")
  BY <1>3, <1>5, <1>8, <1>11, ReplayOutcome DEF c
<1>13. Landed(c, "Paused", FALSE, FALSE)
  <2>1. historyCursor' \in 1 .. Len(history') /\ Remembered(history')
    BY <1>2, <1>3, <1>5, <1>11
  <2>2. history'[historyCursor'].first = c /\ history'[historyCursor'].count = e.count
    BY <1>2, <1>11 DEF c, e
  <2>3. e.count \in 1 .. MaxGroup
    BY <1>6 DEF MaxGroup
  <2>. QED BY <1>12, <2>1, <2>2, <2>3 DEF Landed
<1>14. Covered(c - 1, read)
  <2>. DEFINE now == history[historyCursor]
  <2>1. Entry(now) /\ Covered(events[1] - 1, read)
    BY <1>3 DEF Remembered, IInv, ReadSoFar
  <2>2. /\ now.first \in Nat \ {0} /\ now.count \in 1 .. 3 /\ LastOf(now) = now.first + now.count - 1
    BY <1>3, <2>1, EntryProperties
  <2>3. c <= now.first
    <3>1. CASE t = historyCursor
      BY <1>6, <3>1 DEF c, e
    <3>2. CASE t # historyCursor
      <4>1. t < historyCursor
        BY <1>3, <1>4, <3>2
      <4>2. LastOf(e) < now.first
        BY <1>3, <1>5, <4>1 DEF Remembered, e
      <4>. QED BY <1>6, <2>2, <4>2
    <3>. QED BY <3>1, <3>2
  <2>4. events[1] \in Nat /\ now.first <= events[1]
    <3>1. events \in Seq(1 .. Len(doc)) /\ 1 \in 1 .. Len(events) /\ LaidOut(events, cursor, consumed)
      BY <1>3 DEF IInv, Placed, LaidOut
    <3>2. events[1] \in 1 .. Len(doc)
      BY <3>1, ElementOfSeq
    <3>3. CASE consumed # 0
      BY <1>3, <3>2, <3>3 DEF IInv, Placed
    <3>4. CASE consumed = 0
      <4>1. ReadsOnAt(events[0 + 1]) /\ 0 + 1 = 1
        BY <1>3, <3>4 DEF IInv, Placed
      <4>2. LastOf(now) < events[1]
        BY <1>3, <4>1 DEF ReadsOnAt
      <4>. QED BY <1>3, <2>2, <3>2, <4>2
    <3>. QED BY <3>3, <3>4
  <2>. HIDE DEF now
  <2>5. \A p \in start .. c - 1 : p \in start .. events[1] - 1
    BY <1>3, <1>6, <2>2, <2>3, <2>4
  <2>. QED BY <2>1, <2>5 DEF Covered
<1>15. /\ Covered(c - 1, read') /\ Covered(presented', read') /\ presented' \in 0 .. Len(doc)
  <2>1. Covered(presented, read) /\ presented \in 0 .. Len(doc)
    BY DEF IInv, ReadSoFar
  <2>. QED BY <1>2, <1>14, <2>1, CoveredGrows
<1>16. /\ Placed' /\ Controlled' /\ ReadSoFar' /\ Chapters' /\ OwedCheckpointHeld'
       /\ pending' \in BOOLEAN /\ framed' \in BOOLEAN
       /\ chapterPending' \in BOOLEAN /\ chapterPauseShown' \in BOOLEAN
  BY <1>2, <1>6, <1>13, <1>15, LandedKeeps
<1>17. checkpointRequested' \in BOOLEAN /\ periodicPending' \in BOOLEAN
  BY <1>1, RequestFlags
<1>18. Flags' /\ Opened'
  BY <1>1, <1>2, <1>16, <1>17 DEF IInv, Flags, Opened
<1>. QED BY <1>2, <1>4, <1>11, <1>12, <1>16, <1>18 DEF IInv, c, e

-----------------------------------------------------------------------------
(* The actions that leave the buffer and the history alone.                *)

LEMMA PlacedStays ==
    ASSUME Placed, UNCHANGED <<bookVars, queueVars, historyVars>>
    PROVE  Placed'
<1>1. /\ doc' = doc /\ events' = events /\ cursor' = cursor /\ consumed' = consumed
      /\ history' = history /\ historyCursor' = historyCursor
  BY DEF bookVars, queueVars, historyVars
<1>2. LaidOut(events, cursor, consumed)'
  BY <1>1 DEF Placed, LaidOut, Separator, IsWord
<1>3. Remembered(history)'
  BY <1>1 DEF Placed, Remembered, NoWords, Entry, LastOf, IsWord
<1>4. ReadsOnAt(events[consumed + 1]) => ReadsOnAt(events[consumed + 1])'
  BY <1>1 DEF ReadsOnAt, NoWords, LastOf, IsWord
<1>. QED BY <1>1, <1>2, <1>3, <1>4 DEF Placed

\* An acknowledged group has been read, and so has everything up to its last word.
LEMMA AcknowledgedIsRead ==
    ASSUME IInv, Observe, pending, ~ pending', presented' = events[consumed]
    PROVE  /\ \A i \in 1 .. consumed : events[i] \in read'
           /\ presented' \in 0 .. Len(doc)
           /\ Covered(presented', read')
<1>1. /\ consumed # 0 /\ LaidOut(events, cursor, consumed) /\ events # << >>
      /\ Covered(events[1] - 1, read)
  BY DEF IInv, Placed, Controlled, ReadSoFar, LaidOut
<1>2. \A i \in 1 .. consumed : events[i] \in read'
  BY <1>1, ReadGrows DEF Acknowledged
<1>. DEFINE f == events[1]
            l == events[consumed]
<1>3. /\ Len(doc) \in Nat \ {0} /\ start \in Nat /\ consumed \in 1 .. 3
      /\ events \in Seq(1 .. Len(doc)) /\ consumed < Len(events) /\ Len(events) \in Nat
  <2>1. Len(doc) \in Nat \ {0} /\ start \in 1 .. Len(doc)
    BY BookProperties DEF IInv, Opened
  <2>. QED BY <1>1, <2>1 DEF LaidOut, MaxGroup
<1>4. f \in 1 .. Len(doc) /\ l \in 1 .. Len(doc)
  <2>1. 1 \in 1 .. Len(events) /\ consumed \in 1 .. Len(events)
    BY <1>3
  <2>. QED BY <1>3, <2>1, ElementOfSeq
<1>5. /\ \A i \in 1 .. consumed : events[i] = f + i - 1
      /\ l = f + consumed - 1
  <2>1. \A i \in 1 .. consumed : events[i] = f + i - 1
    BY <1>1 DEF LaidOut
  <2>2. consumed \in 1 .. consumed
    BY <1>3
  <2>. QED BY <2>1, <2>2
<1>. HIDE DEF f, l
<1>6. ASSUME NEW p \in start .. l, IsWord(p) PROVE p \in read'
  <2>1. CASE p < f
    <3>1. p \in start .. f - 1
      BY <1>3, <1>4, <2>1
    <3>. QED BY <1>1, <1>6, <3>1, ReadGrows DEF Covered, f
  <2>2. CASE f <= p
    <3>1. p - f + 1 \in 1 .. consumed /\ f + (p - f + 1) - 1 = p
      BY <1>3, <1>4, <1>5, <2>2
    <3>. QED BY <1>2, <1>5, <3>1
  <2>. QED BY <1>3, <1>4, <2>1, <2>2
<1>7. l \in 0 .. Len(doc) /\ presented' = l
  BY <1>3, <1>4 DEF l
<1>. QED BY <1>2, <1>6, <1>7 DEF Covered

\* What a step that leaves the display alone must respect.
LEMMA StayKeeps ==
    ASSUME IInv, Observe, UNCHANGED <<bookVars, queueVars, historyVars>>, framed' = framed,
           pending' \in BOOLEAN,
           pending' => pending /\ ~ chapterPauseShown' /\ state' \in {"Paused", "Playing", "Exited"},
           state' \in States \ {"Empty"}, reason' \in Reasons,
           state' = "Playing" => ~ chapterPauseShown',
           state' \in {"Paused", "Playing"} =>
              /\ state \in {"Paused", "Playing"}
              /\ chapterPending => chapterPending' \/ chapterPauseShown
              /\ pending' \/ ~ pending \/ presented' = events[consumed],
           state' \notin {"Error", "Exited"} => state \notin {"Empty", "Error", "Exited"},
           state' = "Boundary" => reason' = "Oversized" \/ (state = "Boundary" /\ reason' = reason),
           presented' = presented \/ (pending /\ ~ pending' /\ presented' = events[consumed])
    PROVE  Opened' /\ Placed' /\ Controlled' /\ ReadSoFar' /\ Chapters'
<1>1. /\ doc' = doc /\ start' = start /\ events' = events /\ cursor' = cursor /\ consumed' = consumed
      /\ history' = history /\ historyCursor' = historyCursor
  BY DEF bookVars, queueVars, historyVars
<1>2. Opened'
  BY <1>1 DEF IInv, Opened
<1>3. Placed'
  BY PlacedStays DEF IInv
<1>4. Controlled'
  BY <1>1 DEF IInv, Controlled, States
<1>5. ReadSoFar'
  <2>1. presented' \in 0 .. Len(doc) /\ Covered(presented', read')
    <3>1. CASE presented' = presented
      <4>1. presented \in 0 .. Len(doc) /\ Covered(presented, read)
        BY DEF IInv, ReadSoFar
      <4>. QED BY <3>1, <4>1, CoveredGrows
    <3>2. CASE pending /\ ~ pending' /\ presented' = events[consumed]
      BY <3>2, AcknowledgedIsRead
    <3>. QED BY <3>1, <3>2
  <2>2. events # << >> => Covered(events[1] - 1, read')
    BY CoveredGrows DEF IInv, ReadSoFar
  <2>3. ASSUME state' \in {"Paused", "Playing"}, ~ pending'
        PROVE  \A i \in 1 .. consumed : events[i] \in read'
    <3>1. CASE ~ pending
      <4>1. \A i \in 1 .. consumed : events[i] \in read
        BY <2>3, <3>1 DEF IInv, ReadSoFar
      <4>. QED BY <4>1, ReadGrows
    <3>2. CASE pending
      BY <2>3, <3>2, AcknowledgedIsRead
    <3>. QED BY <3>1, <3>2
  <2>. QED BY <1>1, <2>1, <2>2, <2>3 DEF ReadSoFar, Covered, IsWord
<1>6. Chapters'
  <2>1. ~ NewFrame
    BY DEF NewFrame
  <2>2. chapterSeen' <=> chapterSeen \/ chapterPauseShown'
    BY <2>1 DEF Observe
  <2>. QED BY <1>1, <2>2 DEF IInv, Chapters
<1>. QED BY <1>2, <1>3, <1>4, <1>5, <1>6

LEMMA OpenFailsKeeps ==
    ASSUME IInv, OpenFails, Observe
    PROVE  IInv' /\ UNCHANGED <<bookVars, queueVars, historyVars>>
<1>1. /\ state = "Empty"
      /\ state' = "Error" /\ reason' = "Error"
      /\ events' = << >> /\ cursor' = cursor /\ consumed' = 0 /\ pending' = FALSE /\ framed' = framed
      /\ checkpointRequested' = TRUE
      /\ UNCHANGED <<bookVars, restoring, grouping, historyVars, presented,
                     chapterVars, periodicPending, checkpointAfter, clockStarted>>
  BY DEF OpenFails, Fail, NothingShown, Buffer
<1>2. events = << >> /\ consumed = 0
  BY <1>1 DEF IInv, Controlled, Placed, LaidOut
<1>3. UNCHANGED <<bookVars, queueVars, historyVars>>
  BY <1>1, <1>2 DEF queueVars
<1>4. Opened' /\ Placed' /\ Controlled' /\ ReadSoFar' /\ Chapters'
  BY <1>1, <1>3, StayKeeps DEF States, Reasons
<1>5. Flags' /\ OwedCheckpointHeld'
  BY <1>1 DEF IInv, Flags, OwedCheckpointHeld, chapterVars
<1>. QED BY <1>3, <1>4, <1>5 DEF IInv

LEMMA LeaveKeeps ==
    ASSUME IInv, NEW elapsed \in BOOLEAN, Leave(elapsed), Observe
    PROVE  IInv'
<1>1. /\ state' = "Exited" /\ Request(elapsed, TRUE)
      /\ UNCHANGED <<bookVars, restoring, grouping, reason, queueVars, historyVars,
                   pending, framed, presented, chapterVars, checkpointAfter, clockStarted>>
  BY DEF Leave
<1>2. pending => ~ chapterPauseShown
  BY DEF IInv, Controlled
<1>3. pending \in BOOLEAN /\ reason \in Reasons
  BY DEF IInv, Flags, Controlled
<1>4. Opened' /\ Placed' /\ Controlled' /\ ReadSoFar' /\ Chapters'
  BY <1>1, <1>2, <1>3, StayKeeps DEF States, chapterVars
<1>5. checkpointRequested' \in BOOLEAN /\ periodicPending' \in BOOLEAN
  BY <1>1, RequestFlags
<1>6. Flags' /\ OwedCheckpointHeld'
  BY <1>1, <1>5 DEF IInv, Flags, OwedCheckpointHeld, chapterVars
<1>. QED BY <1>4, <1>6 DEF IInv

LEMMA FramePresentedKeeps ==
    ASSUME IInv, NEW elapsed \in BOOLEAN, FramePresented(elapsed), Observe
    PROVE  IInv' /\ pending /\ consumed # 0 /\ presented' = events[consumed]
<1>1. /\ state # "Empty" /\ pending
      /\ presented' = RequestedAnchor /\ pending' = FALSE
      /\ checkpointRequested' = (periodicPending \/ elapsed \/ checkpointAfter)
      /\ periodicPending' = FALSE /\ checkpointAfter' = FALSE
      /\ UNCHANGED <<bookVars, restoring, grouping, state, reason, queueVars,
                   historyVars, framed, chapterVars, clockStarted>>
  BY DEF FramePresented
<1>2. /\ state \in {"Paused", "Playing", "Exited"} /\ consumed # 0 /\ reason \in Reasons
      /\ ~ chapterPauseShown
  BY <1>1 DEF IInv, Controlled
<1>3. presented' = events[consumed]
  BY <1>1, <1>2 DEF RequestedAnchor
<1>4. Opened' /\ Placed' /\ Controlled' /\ ReadSoFar' /\ Chapters'
  BY <1>1, <1>2, <1>3, StayKeeps DEF States, chapterVars
<1>5. checkpointRequested' \in BOOLEAN
  BY <1>1
<1>6. Flags' /\ OwedCheckpointHeld'
  BY <1>1, <1>5 DEF IInv, Flags, OwedCheckpointHeld, chapterVars
<1>. QED BY <1>1, <1>2, <1>3, <1>4, <1>6 DEF IInv

LEMMA FramePresentationFailedKeeps ==
    ASSUME IInv, NEW elapsed \in BOOLEAN, FramePresentationFailed(elapsed), Observe
    PROVE  IInv'
<1>1. /\ state \notin Terminal \cup {"Empty"} /\ pending
      /\ state' = "Paused" /\ Request(elapsed, FALSE)
      /\ UNCHANGED <<bookVars, restoring, grouping, reason, queueVars, historyVars,
                   pending, framed, presented, chapterVars, checkpointAfter, clockStarted>>
  BY DEF FramePresentationFailed
<1>2. state \in {"Paused", "Playing"} /\ reason \in Reasons /\ ~ chapterPauseShown
  BY <1>1 DEF IInv, Controlled, Terminal
<1>3. pending \in BOOLEAN
  BY DEF IInv, Flags
<1>4. Opened' /\ Placed' /\ Controlled' /\ ReadSoFar' /\ Chapters'
  BY <1>1, <1>2, <1>3, StayKeeps DEF States, chapterVars
<1>5. checkpointRequested' \in BOOLEAN /\ periodicPending' \in BOOLEAN
  BY <1>1, RequestFlags
<1>6. Flags' /\ OwedCheckpointHeld'
  BY <1>1, <1>5 DEF IInv, Flags, OwedCheckpointHeld, chapterVars
<1>. QED BY <1>4, <1>6 DEF IInv

LEMMA PauseKeeps ==
    ASSUME IInv, NEW elapsed \in BOOLEAN, Pause(elapsed), Observe
    PROVE  IInv'
<1>1. /\ state = "Playing" /\ ~ pending
      /\ state' = "Paused" /\ Request(elapsed, TRUE)
      /\ UNCHANGED <<bookVars, restoring, grouping, reason, queueVars, historyVars,
                   pending, framed, presented, chapterVars, checkpointAfter, clockStarted>>
  BY DEF Pause
<1>2. reason \in Reasons
  BY DEF IInv, Controlled
<1>3. pending \in BOOLEAN
  BY DEF IInv, Flags
<1>4. Opened' /\ Placed' /\ Controlled' /\ ReadSoFar' /\ Chapters'
  BY <1>1, <1>2, <1>3, StayKeeps DEF States, chapterVars
<1>5. checkpointRequested' \in BOOLEAN /\ periodicPending' \in BOOLEAN
  BY <1>1, RequestFlags
<1>6. Flags'
  BY <1>1, <1>5 DEF IInv, Flags, chapterVars
<1>7. OwedCheckpointHeld'
  BY <1>1 DEF IInv, OwedCheckpointHeld, Request
<1>. QED BY <1>4, <1>6, <1>7 DEF IInv

LEMMA PlayKeeps ==
    ASSUME IInv, Play, Observe
    PROVE  IInv'
<1>1. /\ state = "Paused" /\ ~ pending /\ state' = "Playing"
      /\ chapterPauseShown' = FALSE
      /\ chapterPending' = (chapterPending /\ ~ chapterPauseShown)
      /\ clockStarted' = TRUE
      /\ Request(FALSE, FALSE)
      /\ UNCHANGED <<bookVars, restoring, grouping, reason, queueVars, historyVars,
                   pending, framed, presented, checkpointAfter>>
  BY DEF Play
<1>2. reason \in Reasons
  BY DEF IInv, Controlled
<1>3. pending \in BOOLEAN
  BY DEF IInv, Flags
<1>4. Opened' /\ Placed' /\ Controlled' /\ ReadSoFar' /\ Chapters'
  BY <1>1, <1>2, <1>3, StayKeeps DEF States
<1>5. checkpointRequested' \in BOOLEAN /\ periodicPending' \in BOOLEAN
  BY <1>1, RequestFlags
<1>6. chapterPending' \in BOOLEAN
  BY <1>1
<1>7. Flags'
  BY <1>1, <1>5, <1>6 DEF IInv, Flags
<1>8. OwedCheckpointHeld'
  BY <1>1 DEF IInv, OwedCheckpointHeld, Request
<1>. QED BY <1>4, <1>7, <1>8 DEF IInv

LEMMA RewindFailsKeeps ==
    ASSUME IInv, NEW elapsed \in BOOLEAN, RewindFails(elapsed), Observe
    PROVE  IInv'
<1>1. /\ ~ pending /\ state' = "Error" /\ reason' = "Error"
      /\ chapterPending' = FALSE /\ chapterPauseShown' = FALSE /\ checkpointAfter' = FALSE
      /\ Request(elapsed, TRUE)
      /\ UNCHANGED <<bookVars, restoring, grouping, queueVars, historyVars, pending,
                   framed, presented, clockStarted>>
  BY DEF RewindFails
<1>2. pending \in BOOLEAN
  BY DEF IInv, Flags
<1>3. Opened' /\ Placed' /\ Controlled' /\ ReadSoFar' /\ Chapters'
  BY <1>1, <1>2, StayKeeps DEF States, Reasons
<1>4. checkpointRequested' \in BOOLEAN /\ periodicPending' \in BOOLEAN
  BY <1>1, RequestFlags
<1>5. Flags' /\ OwedCheckpointHeld'
  BY <1>1, <1>4 DEF IInv, Flags, OwedCheckpointHeld
<1>. QED BY <1>3, <1>5 DEF IInv

LEMMA WordDoesNotFitKeeps ==
    ASSUME IInv, NEW elapsed \in BOOLEAN, WordDoesNotFit(elapsed), Observe
    PROVE  IInv'
<1>1. /\ state \notin Terminal \cup {"Empty"}
      /\ state' = "Boundary" /\ reason' = "Oversized" /\ pending' = FALSE
      /\ Request(elapsed, FALSE)
      /\ UNCHANGED <<bookVars, restoring, grouping, queueVars, historyVars, framed,
                   presented, chapterVars, checkpointAfter, clockStarted>>
  BY DEF WordDoesNotFit
<1>2. Opened' /\ Placed' /\ Controlled' /\ ReadSoFar' /\ Chapters'
  BY <1>1, StayKeeps DEF States, Reasons, Terminal, chapterVars
<1>3. checkpointRequested' \in BOOLEAN /\ periodicPending' \in BOOLEAN
  BY <1>1, RequestFlags
<1>4. Flags' /\ OwedCheckpointHeld'
  BY <1>1, <1>3 DEF IInv, Flags, OwedCheckpointHeld, chapterVars
<1>. QED BY <1>2, <1>4 DEF IInv

LEMMA ChapterPauseKeeps ==
    ASSUME IInv, NEW elapsed \in BOOLEAN, Tick(elapsed), chapterPending, Observe
    PROVE  IInv' /\ state' = "Paused" /\ UNCHANGED <<bookVars, queueVars, historyVars, pending, presented>>
<1>1. /\ state = "Playing" /\ ~ pending /\ state' = "Paused" /\ chapterPauseShown' = TRUE
      /\ Request(elapsed, TRUE)
      /\ UNCHANGED <<bookVars, reason, queueVars, historyVars, pending, framed, chapterPending,
                     restoring, grouping, presented, checkpointAfter, clockStarted>>
  BY DEF Tick
<1>2. reason \in Reasons
  BY DEF IInv, Controlled
<1>3. pending \in BOOLEAN
  BY DEF IInv, Flags
<1>4. Opened' /\ Placed' /\ Controlled' /\ ReadSoFar' /\ Chapters'
  BY <1>1, <1>2, <1>3, StayKeeps DEF States
<1>5. checkpointRequested' \in BOOLEAN /\ periodicPending' \in BOOLEAN
  BY <1>1, RequestFlags
<1>6. Flags'
  BY <1>1, <1>5 DEF IInv, Flags
<1>7. OwedCheckpointHeld'
  BY <1>1 DEF IInv, OwedCheckpointHeld, Request
<1>. QED BY <1>1, <1>4, <1>6, <1>7 DEF IInv

LEMMA IdleKeeps ==
    ASSUME IInv, NEW elapsed \in BOOLEAN, Idle(elapsed), Observe
    PROVE  IInv'
<1>1. /\ state # "Empty" /\ Request(elapsed, FALSE)
      /\ UNCHANGED <<bookVars, restoring, grouping, state, reason, queueVars,
                   historyVars, pending, framed, presented, chapterVars,
                   checkpointAfter, clockStarted>>
  BY DEF Idle
<1>2. /\ reason \in Reasons /\ state \in States
      /\ pending => state \in {"Paused", "Playing", "Exited"} /\ ~ chapterPauseShown
      /\ state = "Playing" => ~ chapterPauseShown
      /\ state = "Boundary" => reason \in {"NonText", "Oversized"}
  BY DEF IInv, Controlled
<1>3. pending \in BOOLEAN
  BY DEF IInv, Flags
<1>4. Opened' /\ Placed' /\ Controlled' /\ ReadSoFar' /\ Chapters'
  BY <1>1, <1>2, <1>3, StayKeeps DEF chapterVars
<1>5. checkpointRequested' \in BOOLEAN /\ periodicPending' \in BOOLEAN
  BY <1>1, RequestFlags
<1>6. Flags'
  BY <1>1, <1>5 DEF IInv, Flags, chapterVars
<1>7. OwedCheckpointHeld'
  BY <1>1 DEF IInv, OwedCheckpointHeld, Request
<1>. QED BY <1>4, <1>6, <1>7 DEF IInv

LEMMA ConfigureKeeps ==
    ASSUME IInv, Configure, Observe
    PROVE  IInv'
<1>1. /\ state = "Paused" /\ grouping' \in BOOLEAN
      /\ UNCHANGED <<bookVars, restoring, state, reason, queueVars, historyVars,
                   pending, framed, presented, chapterVars, checkpointRequested,
                   periodicPending, checkpointAfter, clockStarted>>
  BY DEF Configure
<1>2. reason \in Reasons /\ (pending => ~ chapterPauseShown)
  BY DEF IInv, Controlled
<1>3. pending \in BOOLEAN
  BY DEF IInv, Flags
<1>4. Opened' /\ Placed' /\ Controlled' /\ ReadSoFar' /\ Chapters'
  BY <1>1, <1>2, <1>3, StayKeeps DEF States, chapterVars
<1>5. Flags' /\ OwedCheckpointHeld'
  BY <1>1 DEF IInv, Flags, OwedCheckpointHeld, chapterVars
<1>. QED BY <1>4, <1>5 DEF IInv

-----------------------------------------------------------------------------
(* The invariant holds initially and every step keeps it.                  *)

LEMMA IInvInit == ObsInit => IInv
<1>. SUFFICES ASSUME ObsInit PROVE IInv
  OBVIOUS
<1>1. /\ doc \in Docs /\ start \in 1 .. Len(doc) /\ Len(doc) \in Nat \ {0}
  <2>1. doc \in Docs /\ start \in DOMAIN doc
    BY DEF ObsInit, Init
  <2>2. doc \in Seq(Event)
    BY <2>1, DocsAssumption DEF IsDocument
  <2>3. Len(doc) \in Nat \ {0}
    BY <2>1, BookProperties
  <2>. QED BY <2>1, <2>2, <2>3
<1>2. /\ events = << >> /\ cursor = start /\ consumed = 0 /\ history = << >> /\ historyCursor = 0
      /\ state = "Empty" /\ reason = "None" /\ presented = 0 /\ read = {}
      /\ pending = FALSE /\ chapterPauseShown = FALSE
  BY DEF ObsInit, Init
<1>3. Flags
  BY DEF ObsInit, Init, Flags
<1>4. Opened
  BY <1>1 DEF Opened
<1>5. Placed
  <2>1. LaidOut(events, cursor, consumed)
    BY <1>1, <1>2 DEF LaidOut, EventCapacity, MaxGroup
  <2>2. Remembered(history)
    BY <1>2, HistoryAssumption DEF Remembered
  <2>. QED BY <1>2, <2>1, <2>2 DEF Placed
<1>6. Controlled
  BY <1>2 DEF Controlled, States, Reasons
<1>7. ReadSoFar
  BY <1>1, <1>2 DEF ReadSoFar, Covered
<1>8. Chapters /\ OwedCheckpointHeld
  BY <1>2 DEF Chapters, OwedCheckpointHeld
<1>. QED BY <1>3, <1>4, <1>5, <1>6, <1>7, <1>8 DEF IInv

LEMMA IInvStep == IInv /\ [Next /\ Observe]_obsVars => IInv'
<1>. SUFFICES ASSUME IInv, [Next /\ Observe]_obsVars PROVE IInv'
  OBVIOUS
<1>1. CASE Next /\ Observe
  <2>1. CASE OpenFails
    BY <1>1, <2>1, OpenFailsKeeps
  <2>2. CASE Open
    BY <1>1, <2>2, OpenKeeps
  <2>3. ASSUME NEW matches \in BOOLEAN, Restore(matches) PROVE IInv'
    BY <1>1, <2>3, RestoreKeeps
  <2>4. CASE Play
    BY <1>1, <2>4, PlayKeeps
  <2>5. CASE SkipElement
    BY <1>1, <2>5, SkipElementKeeps
  <2>6. CASE StepGroup
    BY <1>1, <2>6, StepGroupKeeps
  <2>7. CASE Configure
    BY <1>1, <2>7, ConfigureKeeps
  <2>8. ASSUME NEW elapsed \in BOOLEAN, Leave(elapsed) PROVE IInv'
    BY <1>1, <2>8, LeaveKeeps
  <2>9. ASSUME NEW elapsed \in BOOLEAN, FramePresented(elapsed) PROVE IInv'
    BY <1>1, <2>9, FramePresentedKeeps
  <2>10. ASSUME NEW elapsed \in BOOLEAN, FramePresentationFailed(elapsed) PROVE IInv'
    BY <1>1, <2>10, FramePresentationFailedKeeps
  <2>11. ASSUME NEW elapsed \in BOOLEAN, Pause(elapsed) PROVE IInv'
    BY <1>1, <2>11, PauseKeeps
  <2>12. ASSUME NEW elapsed \in BOOLEAN, RewindFive(elapsed) PROVE IInv'
    BY <1>1, <2>12, RewindFiveKeeps
  <2>13. ASSUME NEW elapsed \in BOOLEAN, RewindFails(elapsed) PROVE IInv'
    BY <1>1, <2>13, RewindFailsKeeps
  <2>14. ASSUME NEW elapsed \in BOOLEAN, WordDoesNotFit(elapsed) PROVE IInv'
    BY <1>1, <2>14, WordDoesNotFitKeeps
  <2>15. ASSUME NEW elapsed \in BOOLEAN, Tick(elapsed), chapterPending PROVE IInv'
    BY <1>1, <2>15, ChapterPauseKeeps
  <2>16. ASSUME NEW elapsed \in BOOLEAN, Tick(elapsed), ~ chapterPending PROVE IInv'
    BY <1>1, <2>16, TickKeeps
  <2>17. ASSUME NEW elapsed \in BOOLEAN, Idle(elapsed) PROVE IInv'
    BY <1>1, <2>17, IdleKeeps
  <2>. QED BY <1>1, <2>1, <2>2, <2>3, <2>4, <2>5, <2>6, <2>7, <2>8, <2>9, <2>10, <2>11,
              <2>12, <2>13, <2>14, <2>15, <2>16, <2>17 DEF Next
<1>2. CASE UNCHANGED obsVars
  <2>1. /\ UNCHANGED <<bookVars, queueVars, historyVars>>
        /\ doc' = doc /\ start' = start /\ events' = events /\ cursor' = cursor
        /\ consumed' = consumed /\ history' = history /\ historyCursor' = historyCursor
        /\ state' = state /\ reason' = reason /\ pending' = pending /\ framed' = framed
        /\ presented' = presented /\ read' = read /\ chapterSeen' = chapterSeen
        /\ chapterPending' = chapterPending /\ chapterPauseShown' = chapterPauseShown
        /\ restoring' = restoring /\ grouping' = grouping /\ clockStarted' = clockStarted
        /\ checkpointRequested' = checkpointRequested /\ periodicPending' = periodicPending
        /\ checkpointAfter' = checkpointAfter
    BY <1>2 DEF obsVars, vars, bookVars, queueVars, historyVars, chapterVars
  <2>2. Placed'
    BY <2>1, PlacedStays DEF IInv
  <2>3. Flags' /\ Opened' /\ OwedCheckpointHeld'
    BY <2>1 DEF IInv, Flags, Opened, OwedCheckpointHeld
  <2>4. Controlled'
    BY <2>1 DEF IInv, Controlled
  <2>5. ReadSoFar'
    BY <2>1 DEF IInv, ReadSoFar, Covered, IsWord
  <2>6. Chapters'
    BY <2>1 DEF IInv, Chapters
  <2>. QED BY <2>2, <2>3, <2>4, <2>5, <2>6 DEF IInv
<1>. QED BY <1>1, <1>2

LEMMA IInvHolds == ObsSpec => []IInv
<1>. QED BY IInvInit, IInvStep, PTL DEF ObsSpec

-----------------------------------------------------------------------------
(* The safety properties.                                                  *)

LEMMA IInvIsTyped == IInv => TypeOK
<1>. SUFFICES ASSUME IInv PROVE TypeOK
  OBVIOUS
<1>1. doc \in Docs /\ start \in 1 .. Len(doc) /\ DOMAIN doc = 1 .. Len(doc) /\ Len(doc) \in Nat
  BY BookProperties DEF IInv, Opened
<1>2. events \in Seq(1 .. Len(doc)) /\ cursor \in 1 .. Len(doc) + 1 /\ consumed \in 0 .. MaxGroup
  BY DEF IInv, Placed, LaidOut
<1>3. history \in Seq(Descriptor) /\ Len(history) <= HistoryCapacity
  BY DEF IInv, Placed, Remembered
<1>4. historyCursor \in 0 .. Len(history)
  <2>1. CASE events = << >>
    BY <2>1 DEF IInv, Placed
  <2>2. CASE events # << >>
    BY <2>2 DEF IInv, Placed, ReadsOnAt
  <2>. QED BY <2>1, <2>2
<1>5. state \in States /\ reason \in Reasons /\ presented \in 0 .. Len(doc)
  BY DEF IInv, Controlled, ReadSoFar
<1>6. Flags
  BY DEF IInv
<1>7. events \in Seq(DOMAIN doc) /\ start \in DOMAIN doc
  BY <1>1, <1>2
<1>. QED BY <1>1, <1>2, <1>3, <1>4, <1>5, <1>6, <1>7 DEF TypeOK, Flags

(***************************************************************************)
(* RsvpSession.h, the members of the class: every variable keeps its type, *)
(* and every buffered, shown, remembered or presented position lies in the *)
(* document.                                                               *)
(***************************************************************************)
THEOREM SessionTypeOK == ObsSpec => []TypeOK
<1>. QED BY IInvHolds, IInvIsTyped, PTL

LEMMA BufferIsInStep == IInv => BufferFollowsDocument
<1>. SUFFICES ASSUME IInv, state \notin {"Empty", "Error", "Exited"}
              PROVE  /\ consumed < Len(events)
                     /\ Len(events) <= EventCapacity
                     /\ \A i \in 1 .. consumed : IsWord(events[i])
                     /\ \A i \in 1 .. Len(events) - 1 :
                           i # consumed => events[i + 1] = events[i] + 1
                     /\ OnDisplay => \A p \in events[consumed] + 1 .. events[consumed + 1] - 1 :
                                        Separator(p)
                     /\ ~ Separator(events[consumed + 1])
                     /\ cursor = events[Len(events)] + 1
  BY DEF BufferFollowsDocument
<1>. DEFINE L == Len(events)
<1>1. events # << >> /\ LaidOut(events, cursor, consumed)
  BY DEF IInv, Controlled, Placed
<1>2. /\ L \in Nat /\ consumed \in 0 .. 3 /\ consumed < L /\ L <= EventCapacity
      /\ events \in Seq(1 .. Len(doc)) /\ cursor \in 1 .. Len(doc) + 1 /\ Len(doc) \in Nat
  <2>1. Len(doc) \in Nat
    BY BookProperties DEF IInv, Opened
  <2>. QED BY <1>1, <2>1 DEF LaidOut, MaxGroup
<1>3. /\ \A i \in 1 .. consumed : events[i] = events[1] + i - 1
      /\ \A i \in consumed + 1 .. L : events[i] = cursor - L + i - 1
      /\ cursor \in Int
  BY <1>1, <1>2 DEF LaidOut
<1>4. events[1] \in Int
  <2>1. 1 \in 1 .. L
    BY <1>2
  <2>2. events[1] \in 1 .. Len(doc)
    BY <1>2, <2>1, ElementOfSeq
  <2>. QED BY <1>2, <2>2
<1>5. ASSUME NEW i \in 1 .. L - 1, i # consumed PROVE events[i + 1] = events[i] + 1
  <2>. HIDE DEF L
  <2>1. CASE i < consumed
    <3>1. i \in 1 .. consumed /\ i + 1 \in 1 .. consumed
      BY <1>2, <2>1
    <3>2. events[i] = events[1] + i - 1 /\ events[i + 1] = events[1] + (i + 1) - 1
      BY <1>3, <3>1
    <3>. QED BY <1>2, <1>4, <3>2
  <2>2. CASE consumed < i
    <3>1. i \in consumed + 1 .. L /\ i + 1 \in consumed + 1 .. L
      BY <1>2, <2>2
    <3>2. events[i] = cursor - L + i - 1 /\ events[i + 1] = cursor - L + (i + 1) - 1
      BY <1>3, <3>1
    <3>. QED BY <1>2, <1>3, <3>2
  <2>. QED BY <1>2, <1>5, <2>1, <2>2
<1>6. cursor = events[L] + 1
  <2>. HIDE DEF L
  <2>1. L \in consumed + 1 .. L
    BY <1>2
  <2>2. events[L] = cursor - L + L - 1
    BY <1>3, <2>1
  <2>. QED BY <1>2, <1>3, <2>2
<1>7. /\ \A i \in 1 .. consumed : IsWord(events[i])
      /\ OnDisplay => \A p \in events[consumed] + 1 .. events[consumed + 1] - 1 : Separator(p)
      /\ ~ Separator(events[consumed + 1])
  BY <1>1 DEF LaidOut, OnDisplay
<1>. QED BY <1>2, <1>5, <1>6, <1>7

(***************************************************************************)
(* RsvpSession::bufferThrough, discardBuffered and drainSeparators: the    *)
(* four slots always hold the displayed words and then the continuation of *)
(* the text up to the source cursor; nothing is buffered twice or dropped. *)
(***************************************************************************)
THEOREM BufferInStep == ObsSpec => []BufferFollowsDocument
<1>. QED BY IInvHolds, BufferIsInStep, PTL

(***************************************************************************)
(* RsvpSession::appendHistory and replayHistory: the group on the display  *)
(* is the history entry under the cursor, whatever has happened to the     *)
(* grouping setting since it was recorded.                                 *)
(***************************************************************************)
THEOREM DisplayInHistory == ObsSpec => []DisplayedIsHistoryEntry
<1>1. IInv => DisplayedIsHistoryEntry
  <2>. SUFFICES ASSUME IInv, consumed # 0
                PROVE  /\ historyCursor \in DOMAIN history
                       /\ history[historyCursor].first = events[1]
                       /\ history[historyCursor].count = consumed
    BY DEF DisplayedIsHistoryEntry, OnDisplay
  <2>1. events # << >> /\ historyCursor # 0
    BY DEF IInv, Placed, LaidOut
  <2>2. historyCursor \in 0 .. Len(history) /\ history \in Seq(Descriptor)
    BY <2>1 DEF IInv, Placed, ReadsOnAt, Remembered
  <2>3. historyCursor \in DOMAIN history
    BY <2>1, <2>2
  <2>. QED BY <2>3 DEF IInv, Placed
<1>. QED BY <1>1, IInvHolds, PTL

LEMMA HistoryHasNoGap == IInv => HistoryIsGapFree
<1>. SUFFICES ASSUME IInv PROVE HistoryIsGapFree
  OBVIOUS
<1>1. Remembered(history)
  BY DEF IInv, Placed
<1>2. ASSUME NEW i \in 1 .. Len(history) - 1
      PROVE  /\ LastOf(history[i]) < history[i + 1].first
             /\ Words(LastOf(history[i]) + 1, history[i + 1].first - 1) = {}
  <2>1. Len(history) \in Nat
    BY <1>1 DEF Remembered
  <2>2. i \in 1 .. Len(history) /\ i + 1 \in 1 .. Len(history) /\ i < i + 1
    BY <2>1
  <2>3. LastOf(history[i]) < history[i + 1].first
    BY <1>1, <2>2 DEF Remembered
  <2>4. NoWords(LastOf(history[i]) + 1, history[i + 1].first - 1)
    BY <1>1 DEF Remembered
  <2>. QED BY <2>3, <2>4 DEF Words, NoWords
<1>3. ASSUME historyCursor # 0
      PROVE  Words(LastOf(history[historyCursor]) + 1, events[consumed + 1] - 1) = {}
  <2>1. events # << >>
    BY <1>3 DEF IInv, Placed
  <2>2. NoWords(LastOf(history[historyCursor]) + 1, events[consumed + 1] - 1)
    BY <1>3, <2>1 DEF IInv, Placed, ReadsOnAt
  <2>. QED BY <2>2 DEF Words, NoWords
<1>. QED BY <1>2, <1>3 DEF HistoryIsGapFree

(***************************************************************************)
(* The bounded replay history (appendHistory shifts a full one, RewindFive *)
(* moves its cursor): no word lies between two neighbouring entries, nor   *)
(* between the current one and where reading goes on.                      *)
(***************************************************************************)
THEOREM HistoryWithoutGaps == ObsSpec => []HistoryIsGapFree
<1>. QED BY IInvHolds, HistoryHasNoGap, PTL

(***************************************************************************)
(* acknowledgeFrame and requestedAnchor: the durable position never passes *)
(* a word that was not on an acknowledged frame.                           *)
(***************************************************************************)
THEOREM NothingOmitted == ObsSpec => []DurablePositionOmitsNothing
<1>1. IInv => DurablePositionOmitsNothing
  BY DEF IInv, ReadSoFar, Covered, DurablePositionOmitsNothing, Words
<1>. QED BY <1>1, IInvHolds, PTL

(***************************************************************************)
(* periodicCheckpointPending and checkpointAfterPresentation: a checkpoint *)
(* that is owed stays tied to a frame that waits for its acknowledgement.  *)
(***************************************************************************)
THEOREM CheckpointStaysOwed == ObsSpec => []OwedCheckpointHeld
<1>1. IInv => OwedCheckpointHeld
  BY DEF IInv
<1>. QED BY <1>1, IInvHolds, PTL

-----------------------------------------------------------------------------
(* What a step may never do.                                               *)

\* Looking for a group shows one, which then waits, or shows nothing and stops.
LEMMA EmittedControl ==
    ASSUME NEW c, NEW resumed, NEW chapter, NEW shownPause,
           Emitted(c, resumed, chapter, shownPause)
    PROVE  \/ /\ state' = resumed /\ reason' = "None" /\ pending' = TRUE
              /\ chapterPauseShown' = FALSE /\ events'[1] = c
           \/ /\ pending' = FALSE
              /\ \/ state' = "Error" /\ reason' = "Error"
                 \/ state' = "Finished"
                 \/ state' = "Boundary" /\ reason' \in {"NonText", "Oversized"}
BY DEF Emitted, ShownAt, StoppedAt

\* A rewind shows a group again or ends the session.
LEMMA RewoundControl ==
    ASSUME NEW c, NEW k, ShownAt(c, k, "Paused")
    PROVE  state' = "Paused" /\ reason' = "None" /\ pending' = TRUE /\ chapterPauseShown' = FALSE
BY DEF ShownAt

\* Playback puts the next group on the display only from the deadline of a frame.
LEMMA OnlyTheDeadlinePlaysOn ==
    ASSUME IInv, Next, Observe, NewFrame, state' = "Playing"
    PROVE  \E elapsed \in BOOLEAN : Tick(elapsed) /\ ~ chapterPending
<1>0. ~ pending /\ pending'
  BY DEF NewFrame
<1>1. CASE OpenFails \/ Play \/ Configure
  BY <1>0, <1>1 DEF OpenFails, Fail, Play, Configure
<1>2. CASE Open \/ SkipElement \/ StepGroup
  BY <1>0, <1>2, OpenKeeps, SkipElementKeeps, StepGroupKeeps, EmittedControl
<1>3. ASSUME NEW matches \in BOOLEAN, Restore(matches) PROVE FALSE
  <2>1. \E c, chapter, shownPause : Emitted(c, "Paused", chapter, shownPause)
    BY <1>3, RestoreKeeps
  <2>. QED BY <1>0, <2>1, EmittedControl
<1>4. ASSUME NEW elapsed \in BOOLEAN,
             Leave(elapsed) \/ FramePresented(elapsed) \/ FramePresentationFailed(elapsed)
             \/ Pause(elapsed) \/ RewindFails(elapsed) \/ WordDoesNotFit(elapsed) \/ Idle(elapsed)
      PROVE  FALSE
  BY <1>0, <1>4 DEF Leave, FramePresented, FramePresentationFailed, Pause, RewindFails,
     WordDoesNotFit, Idle
<1>5. ASSUME NEW elapsed \in BOOLEAN, RewindFive(elapsed) PROVE FALSE
  BY <1>0, <1>5, RewindFiveKeeps, RewoundControl
<1>6. ASSUME NEW elapsed \in BOOLEAN, Tick(elapsed), chapterPending PROVE FALSE
  BY <1>0, <1>6, ChapterPauseKeeps
<1>. QED BY <1>1, <1>2, <1>3, <1>4, <1>5, <1>6 DEF Next

(***************************************************************************)
(* The deadline branch of RsvpSession::step: playback by itself never      *)
(* passes an element, an oversized word or unreadable text, and passes a   *)
(* chapter boundary only once its pause has been shown.                    *)
(***************************************************************************)
THEOREM PlaybackStops == ObsSpec => PlaybackStopsAtElements
<1>. DEFINE Stops == (NewFrame /\ state' = "Playing") =>
               \A p \in events[consumed] + 1 .. events'[1] - 1 :
                   \/ doc[p].kind \in {"NonLexical", "Paragraph"}
                   \/ doc[p].kind = "Chapter" /\ chapterSeen
<1>1. IInv /\ [Next /\ Observe]_obsVars => [Stops]_obsVars
  <2>. SUFFICES ASSUME IInv, Next, Observe, NewFrame, state' = "Playing",
                       NEW p \in events[consumed] + 1 .. events'[1] - 1
                PROVE  \/ doc[p].kind \in {"NonLexical", "Paragraph"}
                       \/ doc[p].kind = "Chapter" /\ chapterSeen
    OBVIOUS
  <2>1. PICK elapsed \in BOOLEAN : Tick(elapsed) /\ ~ chapterPending
    BY OnlyTheDeadlinePlaysOn
  <2>2. Emitted(events[consumed + 1], "Playing", FALSE, chapterPauseShown)
    BY <2>1, TickKeeps
  <2>3. events'[1] = events[consumed + 1]
    BY <2>2, EmittedControl DEF NewFrame
  <2>4. state = "Playing"
    BY <2>1 DEF Tick
  <2>5. LaidOut(events, cursor, consumed) /\ consumed # 0
    BY <2>4 DEF IInv, Placed, Controlled
  <2>6. p \in events[consumed] + 1 .. events[consumed + 1] - 1
    BY <2>3
  <2>7. Separator(p)
    BY <2>5, <2>6 DEF LaidOut
  <2>8. doc[p].kind = "Chapter" => chapterSeen
    BY <2>1, <2>4, <2>6 DEF IInv, Chapters
  <2>. QED BY <2>7, <2>8 DEF Separator
<1>. QED BY <1>1, IInvHolds, PTL DEF ObsSpec, PlaybackStopsAtElements

\* A step that ends a session or brings it to rest asks for a checkpoint.
LEMMA RestAsks ==
    ASSUME IInv, Next, Observe, state' # state,
           \/ state' = "Exited"
           \/ state' = "Error"
           \/ state = "Playing" /\ state' = "Paused" /\ ~ pending'
    PROVE  checkpointRequested'
<1>1. CASE OpenFails \/ Play \/ Configure
  BY <1>1 DEF OpenFails, Play, Configure
<1>2. CASE Open
  <2>1. state = "Empty" /\ checkpointRequested' = (state' = "Error")
    BY <1>2 DEF Open
  <2>. QED BY <1>2, <2>1, OpenKeeps, EmittedControl
<1>3. CASE SkipElement
  <2>1. state = "Boundary" /\ Request(FALSE, state' = "Error")
    BY <1>3 DEF SkipElement
  <2>2. state' # "Exited"
    BY <1>3, SkipElementKeeps, EmittedControl
  <2>. QED BY <2>1, <2>2 DEF Request
<1>4. CASE StepGroup
  <2>1. state = "Paused" /\ Request(FALSE, state' = "Error")
    BY <1>4 DEF StepGroup
  <2>2. state' # "Exited"
    BY <1>4, StepGroupKeeps, EmittedControl
  <2>. QED BY <2>1, <2>2 DEF Request
<1>5. ASSUME NEW matches \in BOOLEAN, Restore(matches) PROVE checkpointRequested'
  <2>1. state = "Empty" /\ checkpointRequested' = (state' = "Error")
    BY <1>5 DEF Restore
  <2>2. \E c, chapter, shownPause : Emitted(c, "Paused", chapter, shownPause)
    BY <1>5, RestoreKeeps
  <2>. QED BY <2>1, <2>2, EmittedControl
<1>6. ASSUME NEW elapsed \in BOOLEAN, Leave(elapsed) \/ Pause(elapsed) \/ RewindFails(elapsed)
      PROVE  checkpointRequested'
  <2>1. Request(elapsed, TRUE)
    BY <1>6 DEF Leave, Pause, RewindFails
  <2>. QED BY <2>1 DEF Request
<1>7. ASSUME NEW elapsed \in BOOLEAN,
             FramePresented(elapsed) \/ FramePresentationFailed(elapsed)
             \/ WordDoesNotFit(elapsed) \/ Idle(elapsed)
      PROVE  FALSE
  <2>1. CASE FramePresented(elapsed) \/ Idle(elapsed)
    BY <2>1 DEF FramePresented, Idle
  <2>2. CASE FramePresentationFailed(elapsed)
    <3>1. state' = "Paused" /\ pending /\ pending' = pending
      BY <2>2 DEF FramePresentationFailed
    <3>. QED BY <3>1
  <2>3. CASE WordDoesNotFit(elapsed)
    BY <2>3 DEF WordDoesNotFit
  <2>. QED BY <1>7, <2>1, <2>2, <2>3
<1>8. ASSUME NEW elapsed \in BOOLEAN, RewindFive(elapsed) PROVE checkpointRequested'
  BY <1>8, RewindFiveKeeps, RewoundControl
<1>9. ASSUME NEW elapsed \in BOOLEAN, Tick(elapsed) PROVE checkpointRequested'
  <2>1. CASE chapterPending
    <3>1. Request(elapsed, TRUE)
      BY <1>9, <2>1 DEF Tick
    <3>. QED BY <3>1 DEF Request
  <2>2. CASE ~ chapterPending
    <3>1. Request(elapsed, state' = "Error")
      BY <1>9, <2>2 DEF Tick
    <3>2. state' = "Playing" \/ state' \in {"Error", "Finished", "Boundary"}
      BY <1>9, <2>2, TickKeeps, EmittedControl
    <3>. QED BY <3>1, <3>2 DEF Request
  <2>. QED BY <2>1, <2>2
<1>. QED BY <1>1, <1>2, <1>3, <1>4, <1>5, <1>6, <1>7, <1>8, <1>9 DEF Next

(***************************************************************************)
(* RsvpSession::step and fillDecision: when a session ends or playback     *)
(* rests on a pause, the position handed to the checkpoint is that of the  *)
(* last acknowledged group.                                                *)
(***************************************************************************)
THEOREM RestSaved == ObsSpec => RestIsSaved
<1>. DEFINE Saves == (state' # state /\
                        \/ state' = "Exited"
                        \/ state' = "Error"
                        \/ state = "Playing" /\ state' = "Paused" /\ ~ pending')
                     => saved' = presented'
<1>1. IInv /\ [Next /\ Observe]_obsVars => [Saves]_obsVars
  <2>. SUFFICES ASSUME IInv, Next, Observe, state' # state,
                       \/ state' = "Exited"
                       \/ state' = "Error"
                       \/ state = "Playing" /\ state' = "Paused" /\ ~ pending'
                PROVE  saved' = presented'
    OBVIOUS
  <2>. QED BY RestAsks DEF Observe
<1>. QED BY <1>1, IInvHolds, PTL DEF ObsSpec, RestIsSaved

-----------------------------------------------------------------------------
(* The session keeps to the interface that the reader activity is built on. *)

\* fillDecision: the pause reason by the state of the session.
LEMMA PauseReasonByState ==
    /\ state = "Boundary" => PauseReason = reason
    /\ state = "Error" => PauseReason = "Error"
    /\ state = "Paused" /\ chapterPauseShown => PauseReason = "Chapter"
    /\ state = "Paused" /\ ~ chapterPauseShown => PauseReason = "None"
    /\ state \notin {"Boundary", "Error", "Paused"} => PauseReason = "None"
<1>1. "Boundary" # "Error" /\ "Boundary" # "Paused" /\ "Error" # "Paused"
  OBVIOUS
<1>2. state = "Boundary" => PauseReason = reason
  BY <1>1, Zenon DEF PauseReason
<1>3. state = "Error" => PauseReason = "Error"
  BY <1>1, Zenon DEF PauseReason
<1>4. state = "Paused" /\ chapterPauseShown => PauseReason = "Chapter"
  BY <1>1, Zenon DEF PauseReason
<1>5. state = "Paused" /\ ~ chapterPauseShown => PauseReason = "None"
  BY <1>1, Zenon DEF PauseReason
<1>6. state # "Boundary" /\ state # "Error" /\ state # "Paused" => PauseReason = "None"
  BY Zenon DEF PauseReason
<1>. QED BY <1>2, <1>3, <1>4, <1>5, <1>6

LEMMA PauseReasonNext ==
    /\ state' = "Boundary" => PauseReason' = reason'
    /\ state' = "Error" => PauseReason' = "Error"
    /\ state' = "Paused" /\ chapterPauseShown' => PauseReason' = "Chapter"
    /\ state' = "Paused" /\ ~ chapterPauseShown' => PauseReason' = "None"
    /\ state' \notin {"Boundary", "Error", "Paused"} => PauseReason' = "None"
<1>1. "Boundary" # "Error" /\ "Boundary" # "Paused" /\ "Error" # "Paused"
  OBVIOUS
<1>2. state' = "Boundary" => PauseReason' = reason'
  BY <1>1, Zenon DEF PauseReason
<1>3. state' = "Error" => PauseReason' = "Error"
  BY <1>1, Zenon DEF PauseReason
<1>4. state' = "Paused" /\ chapterPauseShown' => PauseReason' = "Chapter"
  BY <1>1, Zenon DEF PauseReason
<1>5. state' = "Paused" /\ ~ chapterPauseShown' => PauseReason' = "None"
  BY <1>1, Zenon DEF PauseReason
<1>6. state' # "Boundary" /\ state' # "Error" /\ state' # "Paused" => PauseReason' = "None"
  BY Zenon DEF PauseReason
<1>. QED BY <1>2, <1>3, <1>4, <1>5, <1>6

LEMMA PauseReasonStays ==
    ASSUME state' = state, reason' = reason, chapterPauseShown' = chapterPauseShown
    PROVE  PauseReason' = PauseReason
BY DEF PauseReason

\* emitNextWord seen from outside.
LEMMA EmittedSeen ==
    ASSUME NEW c, NEW resumed \in {"Paused", "Playing"}, NEW chapter, NEW shownPause,
           Emitted(c, resumed, chapter, shownPause)
    PROVE  Seen' \in Interface!NextGroup(resumed)
<1>1. CASE /\ state' = resumed /\ pending' = TRUE /\ chapterPauseShown' = FALSE
  <2>1. PauseReason' = "None"
    BY <1>1, PauseReasonNext
  <2>. QED BY <1>1, <2>1 DEF Seen, Interface!NextGroup, Interface!Looks
<1>2. CASE /\ pending' = FALSE
           /\ \/ state' = "Error" /\ reason' = "Error"
              \/ state' = "Finished"
              \/ state' = "Boundary" /\ reason' \in {"NonText", "Oversized"}
  <2>1. \/ state' = "Error" /\ PauseReason' = "Error"
        \/ state' = "Finished" /\ PauseReason' = "None"
        \/ state' = "Boundary" /\ PauseReason' \in {"NonText", "Oversized"}
    BY <1>2, PauseReasonNext
  <2>. QED BY <1>2, <2>1 DEF Seen, Interface!NextGroup, Interface!Looks
<1>. QED BY <1>1, <1>2, EmittedControl

\* A session that has not ended.
LEMMA AnswerWhileOpen ==
    ASSUME state \notin {"Empty", "Error", "Finished", "Exited"},
           NEW a \in Interface!Actions, a \notin {"ModeSwitch", "Exit", "FramePresented"}
    PROVE  Interface!Responses(Seen, a) = Interface!Handled(Seen, a)
BY DEF Seen, Interface!Looks, Interface!Responses, Interface!Ended

\* The first step, whatever the action is.
LEMMA OpensAnswers ==
    ASSUME IInv, Opens, Observe, NEW a
    PROVE  Seen' \in Interface!Responses(Seen, a)
<1>1. Seen.state = state /\ Seen' = Interface!Looks(state', PauseReason', pending')
  BY DEF Seen, Interface!Looks
<1>2. state = "Empty"
  BY DEF Opens, OpenFails, Open, Restore
<1>3. CASE OpenFails
  <2>1. state' = "Error" /\ pending' = FALSE
    BY <1>3 DEF OpenFails, Fail, NothingShown
  <2>2. Seen' = Interface!Looks("Error", "Error", FALSE)
    BY <1>1, <2>1, PauseReasonNext
  <2>. QED BY <1>1, <1>2, <2>2 DEF Interface!Responses, Interface!NextGroup
<1>4. CASE Open \/ \E matches \in BOOLEAN : Restore(matches)
  <2>1. \/ OpenFails
        \/ \E c, chapter, shownPause : Emitted(c, "Paused", chapter, shownPause)
    <3>1. CASE Open
      BY <3>1, OpenKeeps
    <3>2. CASE \E matches \in BOOLEAN : Restore(matches)
      BY <3>2, RestoreKeeps
    <3>. QED BY <1>4, <3>1, <3>2
  <2>2. Seen' \in Interface!NextGroup("Paused") \/ OpenFails
    BY <2>1, EmittedSeen
  <2>. QED BY <1>1, <1>2, <1>3, <2>2 DEF Interface!Responses
<1>. QED BY <1>3, <1>4 DEF Opens

\* An action that the session does not accept changes nothing that is seen, and that is a
\* response to it.
LEMMA IdleAnswers ==
    ASSUME IInv, NEW elapsed \in BOOLEAN, Idle(elapsed), NEW a \in Interface!Actions, ~ Accepts(a)
    PROVE  Seen' \in Interface!Responses(Seen, a)
<1>1. /\ Seen.state = state /\ Seen.reason = PauseReason /\ Seen.pending = pending
      /\ Seen = Interface!Looks(state, PauseReason, pending)
  BY DEF Seen, Interface!Looks
<1>2. Seen' = Seen /\ state # "Empty"
  <2>1. /\ state' = state /\ reason' = reason /\ pending' = pending
        /\ chapterPauseShown' = chapterPauseShown
    BY DEF Idle, chapterVars
  <2>. QED BY <2>1, PauseReasonStays DEF Idle, Seen
<1>3. a \notin {"ModeSwitch", "Exit"}
  BY DEF Accepts
<1>4. pending \in BOOLEAN /\ (pending => framed)
  BY DEF IInv, Flags, Controlled
<1>5. CASE a = "FramePresented"
  <2>1. pending = FALSE
    BY <1>4, <1>5 DEF Accepts
  <2>. QED BY <1>1, <1>2, <1>5, <2>1 DEF Interface!Responses
<1>6. CASE a # "FramePresented" /\ state \in Terminal
  BY <1>1, <1>2, <1>3, <1>6 DEF Interface!Responses, Interface!Ended, Terminal
<1>7. CASE a # "FramePresented" /\ state \notin Terminal
  <2>1. Seen \in Interface!Handled(Seen, a)
    <3>1. CASE a = "Toggle"
      BY <1>1, <3>1 DEF Accepts, Interface!Handled, Interface!Toggled
    <3>2. CASE a = "StepForward"
      <4>1. state = "Boundary" => PauseReason = reason
        BY PauseReasonByState
      <4>. QED BY <1>1, <3>2, <4>1 DEF Accepts, Interface!Handled, Interface!StepsForward, Interface!Waits
    <3>3. CASE a = "Rewind"
      BY <3>3 DEF Interface!Handled, Interface!Rewound
    <3>4. CASE a = "PresentationFailed"
      BY <1>1, <1>4, <1>7, <3>4 DEF Accepts, Interface!Handled, Interface!PresentationFails
    <3>5. CASE a = "None"
      BY <3>5 DEF Interface!Handled, Interface!Ticked
    <3>6. CASE a \in {"Pace", "WordDoesNotFit"}
      BY <1>7, <3>6 DEF Accepts, Interface!Handled
    <3>. QED BY <1>3, <1>7, <3>1, <3>2, <3>3, <3>4, <3>5, <3>6 DEF Interface!Actions
  <2>. QED BY <1>1, <1>2, <1>3, <1>7, <2>1 DEF Interface!Responses, Interface!Ended, Terminal
<1>. QED BY <1>5, <1>6, <1>7

\* An action that is taken.
LEMMA TakesAnswers ==
    ASSUME IInv, Next, Observe, NEW a \in Interface!Actions,
           NEW elapsed \in BOOLEAN, Takes(a, elapsed)
    PROVE  Seen' \in Interface!Responses(Seen, a)
<1>. DEFINE Answers(b) == Seen' \in Interface!Responses(Seen, b)
<1>0. /\ {"None", "Toggle", "StepForward", "Rewind", "ModeSwitch", "FramePresented",
          "PresentationFailed", "WordDoesNotFit"} \subseteq Interface!Actions
      /\ Seen.state = state /\ Seen.reason = PauseReason /\ Seen.pending = pending
      /\ Seen = Interface!Looks(state, PauseReason, pending)
      /\ Seen' = Interface!Looks(state', PauseReason', pending')
  BY DEF Interface!Actions, Seen, Interface!Looks
<1>2. ASSUME Play PROVE Answers("Toggle")
  <2>1. state = "Paused" /\ pending = FALSE /\ state' = "Playing" /\ pending' = FALSE
    <3>1. pending \in BOOLEAN
      BY DEF IInv, Flags
    <3>. QED BY <1>2, <3>1 DEF Play
  <2>2. Seen' = Interface!Looks("Playing", "None", FALSE)
    BY <1>0, <2>1, PauseReasonNext
  <2>3. Seen' \in Interface!Handled(Seen, "Toggle")
    BY <1>0, <2>1, <2>2 DEF Interface!Handled, Interface!Toggled
  <2>. QED BY <1>0, <2>1, <2>3, AnswerWhileOpen
<1>3. ASSUME SkipElement PROVE Answers("StepForward")
  <2>1. state = "Boundary" /\ reason = "NonText"
    BY <1>3 DEF SkipElement
  <2>2. PauseReason = "NonText"
    BY <2>1, PauseReasonByState
  <2>3. Seen' \in Interface!NextGroup("Paused")
    BY <1>3, SkipElementKeeps, EmittedSeen
  <2>4. Seen' \in Interface!Handled(Seen, "StepForward")
    BY <1>0, <2>1, <2>2, <2>3 DEF Interface!Handled, Interface!StepsForward
  <2>. QED BY <1>0, <2>1, <2>4, AnswerWhileOpen
<1>4. ASSUME StepGroup PROVE Answers("StepForward")
  <2>1. state = "Paused" /\ ~ pending
    BY <1>4 DEF StepGroup
  <2>2. Seen' \in Interface!NextGroup("Paused")
    BY <1>4, StepGroupKeeps, EmittedSeen
  <2>3. Seen' \in Interface!Handled(Seen, "StepForward")
    BY <1>0, <2>1, <2>2 DEF Interface!Handled, Interface!StepsForward, Interface!Waits
  <2>. QED BY <1>0, <2>1, <2>3, AnswerWhileOpen
<1>5. ASSUME Leave(elapsed) PROVE Answers("ModeSwitch") /\ Answers("Exit")
  <2>1. state # "Empty" /\ state' = "Exited" /\ pending' = pending
    BY <1>5 DEF Leave
  <2>2. Seen' = Interface!Looks("Exited", "None", pending)
    BY <1>0, <2>1, PauseReasonNext
  <2>. QED BY <1>0, <2>1, <2>2 DEF Interface!Responses
<1>6. ASSUME FramePresented(elapsed) PROVE Answers("FramePresented")
  <2>1. /\ state # "Empty" /\ state' = state /\ reason' = reason /\ pending' = FALSE
        /\ chapterPauseShown' = chapterPauseShown
    BY <1>6 DEF FramePresented, chapterVars
  <2>2. Seen' = Interface!Looks(state, PauseReason, FALSE)
    BY <1>0, <2>1, PauseReasonStays
  <2>. QED BY <1>0, <2>1, <2>2 DEF Interface!Responses
<1>7. ASSUME FramePresentationFailed(elapsed)
      PROVE  Answers("PresentationFailed")
  <2>1. /\ state \notin {"Empty", "Error", "Finished", "Exited"} /\ pending = TRUE
        /\ state' = "Paused" /\ pending' = TRUE /\ chapterPauseShown' = chapterPauseShown
    <3>1. pending \in BOOLEAN
      BY DEF IInv, Flags
    <3>. QED BY <1>7, <3>1 DEF FramePresentationFailed, Terminal, chapterVars
  <2>2. ~ chapterPauseShown
    BY <2>1 DEF IInv, Controlled
  <2>3. Seen' = Interface!Looks("Paused", "None", TRUE)
    BY <1>0, <2>1, <2>2, PauseReasonNext
  <2>4. Seen' \in Interface!Handled(Seen, "PresentationFailed")
    BY <1>0, <2>1, <2>3 DEF Interface!Handled, Interface!PresentationFails
  <2>. QED BY <1>0, <2>1, <2>4, AnswerWhileOpen
<1>8. ASSUME Pause(elapsed) PROVE Answers("Toggle")
  <2>1. /\ state = "Playing" /\ pending = FALSE /\ state' = "Paused" /\ pending' = FALSE
        /\ chapterPauseShown' = chapterPauseShown
    <3>1. pending \in BOOLEAN
      BY DEF IInv, Flags
    <3>. QED BY <1>8, <3>1 DEF Pause, chapterVars
  <2>2. ~ chapterPauseShown
    BY <2>1 DEF IInv, Controlled
  <2>3. Seen' = Interface!Looks("Paused", "None", FALSE)
    BY <1>0, <2>1, <2>2, PauseReasonNext
  <2>4. Seen' \in Interface!Handled(Seen, "Toggle")
    BY <1>0, <2>1, <2>3 DEF Interface!Handled, Interface!Toggled
  <2>. QED BY <1>0, <2>1, <2>4, AnswerWhileOpen
<1>9. ASSUME RewindFive(elapsed) \/ RewindFails(elapsed)
      PROVE  Answers("Rewind")
  <2>1. state \notin {"Empty", "Error", "Finished", "Exited"} /\ ~ pending
    BY <1>9 DEF RewindFive, RewindFails, Terminal
  <2>2. Seen' \in Interface!NextGroup("Paused")
    <3>1. CASE RewindFive(elapsed)
      <4>1. state' = "Paused" /\ pending' = TRUE /\ ~ chapterPauseShown'
        BY <3>1, RewindFiveKeeps, RewoundControl
      <4>. QED BY <1>0, <4>1, PauseReasonNext DEF Interface!NextGroup
    <3>2. CASE RewindFails(elapsed)
      <4>1. state' = "Error" /\ pending' = FALSE
        <5>1. pending \in BOOLEAN
          BY DEF IInv, Flags
        <5>. QED BY <2>1, <3>2, <5>1 DEF RewindFails
      <4>. QED BY <1>0, <4>1, PauseReasonNext DEF Interface!NextGroup
    <3>. QED BY <1>9, <3>1, <3>2
  <2>3. Seen' \in Interface!Handled(Seen, "Rewind")
    BY <1>0, <2>1, <2>2 DEF Interface!Handled, Interface!Rewound
  <2>. QED BY <1>0, <2>1, <2>3, AnswerWhileOpen
<1>10. ASSUME WordDoesNotFit(elapsed) PROVE Answers("WordDoesNotFit")
  <2>1. /\ state \notin {"Empty", "Error", "Finished", "Exited"}
        /\ state' = "Boundary" /\ reason' = "Oversized" /\ pending' = FALSE
    BY <1>10 DEF WordDoesNotFit, Terminal
  <2>2. Seen' = Interface!Looks("Boundary", "Oversized", FALSE)
    BY <1>0, <2>1, PauseReasonNext
  <2>3. Seen' \in Interface!Handled(Seen, "WordDoesNotFit")
    BY <2>2 DEF Interface!Handled
  <2>. QED BY <1>0, <2>1, <2>3, AnswerWhileOpen
<1>11. ASSUME Tick(elapsed) PROVE Answers("None")
  <2>1. state = "Playing" /\ pending = FALSE
    <3>1. pending \in BOOLEAN
      BY DEF IInv, Flags
    <3>. QED BY <1>11, <3>1 DEF Tick
  <2>2. Seen' \in {Interface!Looks("Paused", "Chapter", FALSE)} \cup Interface!NextGroup("Playing")
    <3>1. CASE chapterPending
      <4>1. state' = "Paused" /\ chapterPauseShown' = TRUE /\ pending' = FALSE
        BY <1>11, <2>1, <3>1 DEF Tick
      <4>. QED BY <1>0, <4>1, PauseReasonNext
    <3>2. CASE ~ chapterPending
      BY <1>11, <3>2, TickKeeps, EmittedSeen
    <3>. QED BY <3>1, <3>2
  <2>3. Seen' \in Interface!Handled(Seen, "None")
    BY <1>0, <2>1, <2>2 DEF Interface!Handled, Interface!Ticked
  <2>. QED BY <1>0, <2>1, <2>3, AnswerWhileOpen
<1>12. Answers(a)
  <2>. HIDE DEF Answers
  <2>. QED BY <1>2, <1>3, <1>4, <1>5, <1>6, <1>7, <1>8, <1>9, <1>10, <1>11 DEF Takes
<1>. QED BY <1>12

\* What the interface asks of a step.
Kept ==
    /\ \A a \in Interface!Actions : StepWith(a) => Seen' \in Interface!Responses(Seen, a)
    /\ Seen' # Seen => \E a \in Interface!Actions : StepWith(a)

LEMMA StepAnswers ==
    ASSUME IInv, Next, Observe
    PROVE  Kept
<1>1. ASSUME NEW a \in Interface!Actions, StepWith(a)
      PROVE  Seen' \in Interface!Responses(Seen, a)
  BY <1>1, OpensAnswers, IdleAnswers, TakesAnswers DEF StepWith
<1>2. ASSUME Configure \/ \E elapsed \in BOOLEAN : Idle(elapsed)
      PROVE  Seen' = Seen
  <2>1. /\ state' = state /\ reason' = reason /\ pending' = pending
        /\ chapterPauseShown' = chapterPauseShown
    BY <1>2 DEF Configure, Idle, chapterVars
  <2>. QED BY <2>1, PauseReasonStays DEF Seen
<1>3. \/ Configure \/ \E elapsed \in BOOLEAN : Idle(elapsed)
      \/ \E a \in Interface!Actions : StepWith(a)
  <2>1. {"None", "Toggle", "StepForward", "Rewind", "ModeSwitch", "FramePresented",
         "PresentationFailed", "WordDoesNotFit"} \subseteq Interface!Actions
    BY DEF Interface!Actions
  <2>2. Opens => StepWith("None")
    BY DEF StepWith
  <2>3. \A a \in Interface!Actions, elapsed \in BOOLEAN : Takes(a, elapsed) => StepWith(a)
    BY DEF StepWith
  <2>. DEFINE Done == \/ Configure \/ \E elapsed \in BOOLEAN : Idle(elapsed)
                      \/ \E a \in Interface!Actions : StepWith(a)
  <2>4. Opens => Done
    BY <2>1, <2>2
  <2>5. \A a \in Interface!Actions, elapsed \in BOOLEAN : Takes(a, elapsed) => Done
    BY <2>3
  <2>6. Configure => Done
    OBVIOUS
  <2>7. \A elapsed \in BOOLEAN : Idle(elapsed) => Done
    OBVIOUS
  <2>. HIDE DEF Done
  <2>8. ASSUME Play \/ SkipElement \/ StepGroup PROVE Done
    <3>1. Takes("Toggle", FALSE) \/ Takes("StepForward", FALSE)
      BY <2>8 DEF Takes
    <3>. QED BY <2>1, <2>5, <3>1
  <2>9. ASSUME NEW elapsed \in BOOLEAN,
               \/ Leave(elapsed) \/ FramePresented(elapsed) \/ FramePresentationFailed(elapsed)
               \/ Pause(elapsed) \/ RewindFive(elapsed) \/ RewindFails(elapsed)
               \/ WordDoesNotFit(elapsed) \/ Tick(elapsed)
        PROVE  Done
    <3>1. \E a \in Interface!Actions : Takes(a, elapsed)
      <4>1. \/ Takes("ModeSwitch", elapsed) \/ Takes("FramePresented", elapsed)
            \/ Takes("PresentationFailed", elapsed) \/ Takes("Toggle", elapsed)
            \/ Takes("Rewind", elapsed) \/ Takes("WordDoesNotFit", elapsed)
            \/ Takes("None", elapsed)
        BY <2>9 DEF Takes
      <4>. QED BY <2>1, <4>1
    <3>. QED BY <2>5, <3>1
  <2>10. Done
    <3>1. CASE OpenFails \/ Open \/ \E matches \in BOOLEAN : Restore(matches)
      BY <2>4, <3>1 DEF Opens
    <3>2. CASE Play \/ SkipElement \/ StepGroup \/ Configure
      BY <2>6, <2>8, <3>2
    <3>3. ASSUME NEW elapsed \in BOOLEAN,
                 \/ Leave(elapsed) \/ FramePresented(elapsed) \/ FramePresentationFailed(elapsed)
                 \/ Pause(elapsed) \/ RewindFive(elapsed) \/ RewindFails(elapsed)
                 \/ WordDoesNotFit(elapsed) \/ Tick(elapsed) \/ Idle(elapsed)
          PROVE  Done
      BY <2>7, <2>9, <3>3
    <3>. QED BY <3>1, <3>2, <3>3 DEF Next
  <2>. QED BY <2>10 DEF Done
<1>. QED BY <1>1, <1>2, <1>3 DEF Kept

(***************************************************************************)
(* RsvpSession::step and fillDecision: seen through its decisions, a step  *)
(* of the session with an action, taken or ignored, is a response that     *)
(* RsvpControl gives for that action, and every step that shows is one     *)
(* with an action.  This is all that RsvpReader assumes of the session.    *)
(***************************************************************************)
THEOREM KeepsToTheInterface == ObsSpec => ImplementsControl
<1>1. IInv /\ [Next /\ Observe]_obsVars => [Kept]_obsVars
  BY StepAnswers
<1>. QED BY <1>1, IInvHolds, PTL DEF ObsSpec, ImplementsControl, Kept

-----------------------------------------------------------------------------
(* The session implements the reading order.                               *)

\* The history as the reading order sees it.
Trail(past) == [i \in DOMAIN past |-> <<past[i].first, LastOf(past[i])>>]

LEMMA TrailProperties ==
    ASSUME NEW past \in Seq(Descriptor)
    PROVE  /\ Trail(past) \in Seq(Nat \X Int) /\ Len(Trail(past)) = Len(past)
           /\ \A i \in 1 .. Len(past) : Trail(past)[i] = <<past[i].first, LastOf(past[i])>>
<1>1. DOMAIN past = 1 .. Len(past) /\ Len(past) \in Nat
  OBVIOUS
<1>2. \A i \in 1 .. Len(past) : past[i].first \in Nat /\ LastOf(past[i]) \in Int
  <2>. SUFFICES ASSUME NEW i \in 1 .. Len(past)
                PROVE  past[i].first \in Nat /\ LastOf(past[i]) \in Int
    OBVIOUS
  <2>1. past[i] \in Descriptor
    BY ElementOfSeq
  <2>. QED BY <2>1 DEF Descriptor, MaxGroup, LastOf
<1>3. Trail(past) = [i \in 1 .. Len(past) |-> <<past[i].first, LastOf(past[i])>>]
  BY <1>1 DEF Trail
<1>. QED BY <1>1, <1>2, <1>3

LEMMA TrailGrows ==
    ASSUME NEW past \in Seq(Descriptor), NEW e \in Descriptor
    PROVE  Trail(past \o <<e>>) = Append(Trail(past), <<e.first, LastOf(e)>>)
<1>. DEFINE new == past \o <<e>>
            n == Len(past)
            grown == Append(Trail(past), <<e.first, LastOf(e)>>)
<1>1. n \in Nat /\ Len(<<e>>) = 1 /\ <<e>> \in Seq(Descriptor) /\ <<e>>[1] = e
  OBVIOUS
<1>2. /\ new \in Seq(Descriptor) /\ Len(new) = n + 1
      /\ \A i \in 1 .. n : new[i] = past[i]
      /\ new[n + 1] = e
  BY <1>1, ConcatProperties
<1>3. /\ Trail(past) \in Seq(Nat \X Int) /\ Len(Trail(past)) = n
      /\ \A i \in 1 .. n : Trail(past)[i] = <<past[i].first, LastOf(past[i])>>
  BY TrailProperties
<1>4. <<e.first, LastOf(e)>> \in Nat \X Int
  BY DEF Descriptor, MaxGroup, LastOf
<1>. HIDE DEF n, new
<1>5. /\ grown \in Seq(Nat \X Int) /\ Len(grown) = n + 1
      /\ \A i \in 1 .. n : grown[i] = Trail(past)[i]
      /\ grown[n + 1] = <<e.first, LastOf(e)>>
  BY <1>1, <1>3, <1>4, AppendProperties
<1>. HIDE DEF grown
<1>6. /\ Trail(new) \in Seq(Nat \X Int) /\ Len(Trail(new)) = n + 1
      /\ \A i \in 1 .. n + 1 : Trail(new)[i] = <<new[i].first, LastOf(new[i])>>
  BY <1>2, TrailProperties
<1>7. ASSUME NEW i \in 1 .. n + 1 PROVE Trail(new)[i] = grown[i]
  <2>1. CASE i = n + 1
    BY <1>2, <1>5, <1>6, <2>1
  <2>2. CASE i # n + 1
    <3>1. i \in 1 .. n
      BY <1>1, <2>2
    <3>. QED BY <1>2, <1>3, <1>5, <1>6, <3>1
  <2>. QED BY <2>1, <2>2
<1>8. Trail(new) = grown
  <2>1. Len(Trail(new)) = Len(grown) /\ \A i \in 1 .. Len(grown) : Trail(new)[i] = grown[i]
    BY <1>5, <1>6, <1>7
  <2>. QED BY <1>5, <1>6, <2>1, SeqEqual
<1>. QED BY <1>8 DEF new, grown

LEMMA TrailForgets ==
    ASSUME NEW past \in Seq(Descriptor), past # << >>
    PROVE  Trail(Tail(past)) = Tail(Trail(past))
<1>. DEFINE n == Len(past)
            rest == Tail(past)
            trail == Trail(past)
<1>1. n \in Nat \ {0}
  <2>1. n \in Nat /\ n # 0
    BY EmptySeq
  <2>. QED BY <2>1
<1>2. rest \in Seq(Descriptor) /\ Len(rest) = n - 1 /\ \A i \in 1 .. n - 1 : rest[i] = past[i + 1]
  BY HeadTailProperties
<1>3. /\ trail \in Seq(Nat \X Int) /\ Len(trail) = n
      /\ \A i \in 1 .. n : trail[i] = <<past[i].first, LastOf(past[i])>>
  BY TrailProperties
<1>. HIDE DEF n, rest, trail
<1>4. trail # << >>
  BY <1>1, <1>3
<1>5. /\ Tail(trail) \in Seq(Nat \X Int) /\ Len(Tail(trail)) = n - 1
      /\ \A i \in 1 .. n - 1 : Tail(trail)[i] = trail[i + 1]
  BY <1>3, <1>4, HeadTailProperties
<1>6. /\ Trail(rest) \in Seq(Nat \X Int) /\ Len(Trail(rest)) = n - 1
      /\ \A i \in 1 .. n - 1 : Trail(rest)[i] = <<rest[i].first, LastOf(rest[i])>>
  BY <1>2, TrailProperties
<1>7. ASSUME NEW i \in 1 .. n - 1 PROVE Trail(rest)[i] = Tail(trail)[i]
  <2>1. i + 1 \in 1 .. n
    BY <1>1
  <2>. QED BY <1>2, <1>3, <1>5, <1>6, <2>1
<1>8. Trail(rest) = Tail(trail)
  <2>1. Len(Trail(rest)) = Len(Tail(trail))
        /\ \A i \in 1 .. Len(Tail(trail)) : Trail(rest)[i] = Tail(trail)[i]
    BY <1>5, <1>6, <1>7
  <2>. QED BY <1>5, <1>6, <2>1, SeqEqual
<1>. QED BY <1>8 DEF rest, trail

\* Where reading goes on in the reading order.
LEMMA FirstFromContent ==
    ASSUME doc \in Docs, NEW h, Place(h)
    PROVE  /\ Order!FirstFrom(h, NextContent(h))
           /\ NextContent(h) \in h .. Len(doc)
<1>1. /\ NextContent(h) \in h .. Len(doc) /\ ~ Separator(NextContent(h))
      /\ \A p \in h .. NextContent(h) - 1 : Separator(p)
  BY ContentProperties
<1>. QED BY <1>1 DEF Order!FirstFrom, Order!Quiet, Separator

\* The frontier of a session that has read something is the event behind the display.
LEMMA FrontierIsRest ==
    ASSUME doc \in Docs, LaidOut(events, cursor, consumed), events # << >>
    PROVE  Frontier = events[consumed + 1] /\ Place(events[consumed + 1])
<1>. DEFINE r == events[consumed + 1]
<1>1. /\ consumed \in 0 .. 3 /\ events \in Seq(1 .. Len(doc)) /\ consumed < Len(events)
      /\ Len(events) \in Nat /\ ~ Separator(r) /\ Len(doc) \in Nat
  <2>1. Len(doc) \in Nat
    BY BookProperties
  <2>. QED BY <2>1 DEF LaidOut, MaxGroup
<1>2. r \in 1 .. Len(doc)
  <2>1. consumed + 1 \in 1 .. Len(events)
    BY <1>1
  <2>. QED BY <1>1, <2>1, ElementOfSeq
<1>. HIDE DEF r
<1>3. r \in r .. Len(doc) /\ \A p \in r .. r - 1 : Separator(p)
  BY <1>1, <1>2
<1>4. NextContent(r) = r
  BY <1>1, <1>2, <1>3, ContentIsUnique DEF Place
<1>5. Frontier = NextContent(r)
  BY <1>1 DEF Frontier, r
<1>. QED BY <1>2, <1>4, <1>5 DEF Place, r

LEMMA FrontierIsRestNext ==
    ASSUME doc \in Docs, doc' = doc, LaidOut(events', cursor', consumed'), events' # << >>
    PROVE  Frontier' = events'[consumed' + 1]
<1>. DEFINE r == events'[consumed' + 1]
<1>1. /\ consumed' \in 0 .. 3 /\ events' \in Seq(1 .. Len(doc)) /\ consumed' < Len(events')
      /\ Len(events') \in Nat /\ ~ Separator(r) /\ Len(doc) \in Nat
  <2>1. Len(doc) \in Nat
    BY BookProperties
  <2>. QED BY <2>1 DEF LaidOut, MaxGroup
<1>2. r \in 1 .. Len(doc)
  <2>. HIDE DEF r
  <2>1. consumed' \in Nat /\ consumed' < Len(events') /\ Len(events') \in Nat
    BY <1>1
  <2>2. consumed' + 1 \in 1 .. Len(events')
    <3>1. \A k, n \in Nat : k < n => k + 1 \in 1 .. n
      OBVIOUS
    <3>. QED BY <2>1, <3>1
  <2>3. events'[consumed' + 1] \in 1 .. Len(doc)
    BY <1>1, <2>2, ElementOfSeq
  <2>. QED BY <2>3 DEF r
<1>. HIDE DEF r
<1>3. r \in r .. Len(doc) /\ \A p \in r .. r - 1 : Separator(p)
  BY <1>1, <1>2
<1>4. NextContent(r) = r
  BY <1>1, <1>2, <1>3, ContentIsUnique DEF Place
<1>5. Frontier' = Min({q \in r .. Len(doc) : ~ Separator(q)})
  BY <1>1 DEF Frontier, NextContent, Separator, r
<1>6. Frontier' = r
  BY <1>4, <1>5 DEF NextContent
<1>. QED BY <1>6 DEF r

\* The words on the display are a group of the reading order.
LEMMA ShownInOrder ==
    ASSUME doc \in Docs, doc' = doc, LaidOut(events', cursor', consumed'), events' # << >>,
           NEW c \in Nat, NEW k \in 1 .. MaxGroup, NEW resumed, ShownAt(c, k, resumed)
    PROVE  /\ Order!ShowGroup(c, c + k - 1)
           /\ c + k - 1 \in c .. c + MaxGroup - 1
           /\ c + k - 1 < Len(doc)
<1>. DEFINE d == NextContent(c + k)
<1>1. /\ consumed' = k /\ k \in 1 .. 3 /\ events'[1] = c /\ events'[k] = c + k - 1 /\ events'[k + 1] = d
  BY DEF ShownAt, MaxGroup
<1>2. /\ \A i \in 1 .. k : events'[i] = c + i - 1 /\ IsWord(events'[i])
      /\ c + k - 1 < d
      /\ events' \in Seq(1 .. Len(doc)) /\ k < Len(events') /\ Len(doc) \in Nat
  <2>1. Len(doc) \in Nat
    BY BookProperties
  <2>. QED BY <1>1, <2>1 DEF LaidOut
<1>3. Frontier' = d
  BY <1>1, FrontierIsRestNext
<1>4. d \in 1 .. Len(doc)
  <2>1. k + 1 \in 1 .. Len(events')
    BY <1>1, <1>2
  <2>. QED BY <1>1, <1>2, <2>1, ElementOfSeq
<1>. HIDE DEF d
<1>5. Place(c + k)
  BY <1>1, <1>2, <1>4 DEF Place
<1>6. Order!FirstFrom(c + k, d) /\ d \in c + k .. Len(doc)
  BY <1>5, FirstFromContent DEF d
<1>7. \A p \in c .. c + k - 1 : doc[p].kind = "Word"
  <2>. SUFFICES ASSUME NEW p \in c .. c + k - 1 PROVE IsWord(p)
    BY DEF IsWord
  <2>1. p - c + 1 \in 1 .. k /\ c + (p - c + 1) - 1 = p
    BY <1>1
  <2>. QED BY <1>2, <2>1
<1>8. OnDisplay' = TRUE
  BY <1>1 DEF OnDisplay
<1>9. c + k - 1 + 1 = c + k
  BY <1>1
<1>10. \E n \in c + k - 1 + 1 .. Len(doc) : Order!FirstFrom(c + k - 1 + 1, n) /\ Frontier' = n
  BY <1>3, <1>6, <1>9
<1>11. Order!ShowGroup(c, c + k - 1)
  BY <1>7, <1>8, <1>10 DEF Order!ShowGroup
<1>. QED BY <1>1, <1>2, <1>4, <1>5, <1>11 DEF MaxGroup, Place

\* emitNextWord is a step of the reading order from the position where it looks.
LEMMA EmittedProceeds ==
    ASSUME doc \in Docs, doc' = doc, Remembered(history), historyCursor \in Nat,
           NEW c \in Nat, NEW resumed, NEW chapter, NEW shownPause,
           Emitted(c, resumed, chapter, shownPause)
    PROVE  Order!Proceed(c)
<1>. DEFINE trail == Trail(history)
<1>0. /\ LaidOut(events', cursor', consumed') /\ events' # << >>
      /\ history \in Seq(Descriptor) /\ Len(history) \in Nat
      /\ trail \in Seq(Nat \X Int) /\ Len(trail) = Len(history)
      /\ \A i \in 1 .. Len(history) : trail[i] = <<history[i].first, LastOf(history[i])>>
  BY TrailProperties DEF Emitted, Remembered
<1>1. ASSUME NEW k \in 1 .. MaxGroup, ShownAt(c, k, resumed), Replayed(c, k)
      PROVE  Order!Proceed(c)
  <2>1. historyCursor + 1 \in 1 .. Len(history) /\ historyCursor < Len(history)
    BY <1>0, <1>1 DEF Replayed
  <2>2. trail[historyCursor + 1] = <<c, c + k - 1>>
    BY <1>0, <1>1, <2>1 DEF Replayed, LastOf
  <2>3. Order!ShowGroup(c, c + k - 1)
    BY <1>0, <1>1, ShownInOrder
  <2>4. historyCursor' = historyCursor + 1 /\ Trail(history') = trail
    BY <1>1 DEF Replayed
  <2>5. trail[historyCursor + 1][1] = c /\ trail[historyCursor + 1][2] = c + k - 1
    BY <2>2
  <2>6. Order!ShowGroup(c, trail[historyCursor + 1][2])
    BY <2>3, <2>5
  <2>7. historyCursor < Len(trail)
    BY <1>0, <2>1
  <2>. QED BY <2>4, <2>5, <2>6, <2>7 DEF Order!Proceed, Trail, LastOf
<1>2. ASSUME NEW k \in 1 .. MaxGroup, ShownAt(c, k, resumed), NewlyShown(c, k)
      PROVE  Order!Proceed(c)
  <2>1. PICK e : Entry(e) /\ e.first = c /\ e.count = k /\ history' = Remember(history, e)
    BY <1>2 DEF NewlyShown
  <2>2. historyCursor = Len(history) /\ historyCursor' = Len(history')
    BY <1>2 DEF NewlyShown
  <2>3. /\ Order!ShowGroup(c, c + k - 1) /\ c + k - 1 \in c .. c + MaxGroup - 1
        /\ c + k - 1 < Len(doc)
    BY <1>0, <1>2, ShownInOrder
  <2>4. e \in Descriptor /\ <<e.first, LastOf(e)>> = <<c, c + k - 1>>
    BY <2>1 DEF Entry, LastOf
  <2>5. /\ Forget(history) \in Seq(Descriptor)
        /\ Trail(Forget(history)) = IF Len(trail) = HistoryCapacity THEN Tail(trail) ELSE trail
    <3>1. CASE Len(history) = HistoryCapacity
      <4>1. history # << >>
        BY <3>1, HistoryAssumption
      <4>2. Tail(history) \in Seq(Descriptor) /\ Trail(Tail(history)) = Tail(trail)
        BY <1>0, <4>1, TrailForgets, HeadTailProperties
      <4>. QED BY <1>0, <3>1, <4>2 DEF Forget
    <3>2. CASE Len(history) # HistoryCapacity
      BY <1>0, <3>2 DEF Forget
    <3>. QED BY <3>1, <3>2
  <2>6. Trail(history') =
           Append(IF Len(trail) = HistoryCapacity THEN Tail(trail) ELSE trail, <<c, c + k - 1>>)
    <3>1. history' = Forget(history) \o <<e>>
      BY <2>1 DEF Remember
    <3>2. Trail(Forget(history) \o <<e>>) = Append(Trail(Forget(history)), <<e.first, LastOf(e)>>)
      BY <2>4, <2>5, TrailGrows
    <3>. QED BY <2>4, <2>5, <3>1, <3>2
  <2>7. history' \in Seq(Descriptor)
    <3>1. history' = Forget(history) \o <<e>>
      BY <2>1 DEF Remember
    <3>. QED BY <2>4, <2>5, <3>1
  <2>8. historyCursor' = Len(Trail(history'))
    BY <2>2, <2>7, TrailProperties
  <2>9. Trail(history') = [i \in DOMAIN history |-> <<history[i].first, LastOf(history[i])>>]'
    BY DEF Trail, LastOf
  <2>10. trail = [i \in DOMAIN history |-> <<history[i].first, LastOf(history[i])>>]
    BY DEF Trail
  <2>. HIDE DEF trail
  <2>11. Order!Remember(<<c, c + k - 1>>)
    BY <2>6, <2>9, <2>10 DEF Order!Remember
  <2>12. historyCursor = Len([i \in DOMAIN history |-> <<history[i].first, LastOf(history[i])>>])
    BY <1>0, <2>2, <2>10
  <2>. QED BY <2>3, <2>8, <2>9, <2>11, <2>12 DEF Order!Proceed
<1>3. ASSUME StoppedAt(c, chapter, shownPause), UNCHANGED historyVars
      PROVE  Order!Proceed(c)
  <2>1. consumed' = 0 /\ events'[1] = c /\ history' = history /\ historyCursor' = historyCursor
    BY <1>3 DEF StoppedAt, historyVars
  <2>2. Frontier' = c
    BY <1>0, <2>1, FrontierIsRestNext
  <2>3. OnDisplay' = FALSE
    BY <2>1 DEF OnDisplay
  <2>. QED BY <2>1, <2>2, <2>3 DEF Order!Proceed, LastOf
<1>. QED BY <1>1, <1>2, <1>3 DEF Emitted

LEMMA OrderInit == ObsInit => Order!Init
<1>. SUFFICES ASSUME ObsInit PROVE Order!Init
  OBVIOUS
<1>1. /\ IInv /\ state = "Empty" /\ doc \in Docs
      /\ events = << >> /\ cursor = start /\ consumed = 0 /\ history = << >>
      /\ historyCursor = 0 /\ presented = 0
  BY IInvInit DEF ObsInit, Init
<1>2. Place(start) /\ DOMAIN doc = 1 .. Len(doc)
  BY <1>1, EmptyStandsAtStart, BookProperties
<1>3. Frontier = NextContent(start)
  BY <1>1 DEF Frontier
<1>4. \E p \in DOMAIN doc : \E n \in p .. Len(doc) : Order!FirstFrom(p, n) /\ Frontier = n
  <2>1. start \in DOMAIN doc
    BY <1>2 DEF Place
  <2>2. NextContent(start) \in start .. Len(doc) /\ Order!FirstFrom(start, NextContent(start))
    BY <1>1, <1>2, FirstFromContent
  <2>. QED BY <1>3, <2>1, <2>2
<1>5. OnDisplay = FALSE
  BY <1>1 DEF OnDisplay
<1>. QED BY <1>1, <1>4, <1>5 DEF Order!Init

\* Nothing that the reading order sees has changed.
LEMMA OrderStutters ==
    ASSUME UNCHANGED <<bookVars, queueVars, historyVars>>, presented' = presented
    PROVE  UNCHANGED Order!vars
<1>1. /\ doc' = doc /\ events' = events /\ cursor' = cursor /\ consumed' = consumed
      /\ history' = history /\ historyCursor' = historyCursor
  BY DEF bookVars, queueVars, historyVars
<1>2. Frontier' = Frontier
  BY <1>1 DEF Frontier, NextContent, Separator
<1>3. OnDisplay' = OnDisplay
  BY <1>1 DEF OnDisplay
<1>4. [i \in DOMAIN history |-> <<history[i].first, LastOf(history[i])>>]'
         = [i \in DOMAIN history |-> <<history[i].first, LastOf(history[i])>>]
  BY <1>1 DEF LastOf
<1>. QED BY <1>1, <1>2, <1>3, <1>4 DEF Order!vars

\* Reading goes on at the frontier.
LEMMA OrderReadsOn ==
    ASSUME IInv, doc' = doc, presented' = presented, Place(Frontier),
           NEW resumed, NEW chapter, NEW shownPause,
           Emitted(Frontier, resumed, chapter, shownPause)
    PROVE  Order!ReadOn
<1>1. doc \in Docs /\ Remembered(history) /\ historyCursor \in Nat /\ Frontier \in Nat
  <2>1. historyCursor \in 0 .. Len(history) /\ Remembered(history)
    BY IInvIsTyped DEF TypeOK, IInv, Placed
  <2>. QED BY <2>1 DEF IInv, Opened, Place
<1>2. PICK n \in Nat : n = Frontier
  BY <1>1
<1>3. Emitted(n, resumed, chapter, shownPause)
  BY <1>2
<1>4. Order!Proceed(n)
  BY <1>1, <1>3, EmittedProceeds
<1>5. Order!Proceed(Frontier)
  BY <1>2, <1>4 DEF Order!Proceed, Order!ShowGroup, Order!Remember, Order!FirstFrom
<1>. QED BY <1>5 DEF Order!ReadOn

\* emitNextWord from the event behind the display.
LEMMA OrderReadsRest ==
    ASSUME IInv, doc' = doc, presented' = presented, state \in {"Paused", "Playing"},
           NEW resumed, NEW chapter, NEW shownPause,
           Emitted(events[consumed + 1], resumed, chapter, shownPause)
    PROVE  Order!ReadOn
<1>1. doc \in Docs /\ LaidOut(events, cursor, consumed) /\ events # << >>
  BY DEF IInv, Opened, Placed, Controlled
<1>2. Frontier = events[consumed + 1] /\ Place(Frontier)
  BY <1>1, FrontierIsRest
<1>. QED BY <1>2, OrderReadsOn

LEMMA OrderOpens ==
    ASSUME IInv, state = "Empty"
    PROVE  /\ Frontier = NextContent(start) /\ Place(Frontier)
           /\ historyCursor = 0 /\ history = << >> /\ presented = 0
           /\ [i \in DOMAIN history |-> <<history[i].first, LastOf(history[i])>>] = << >>
<1>1. /\ events = << >> /\ cursor = start /\ presented = 0
      /\ history = << >> /\ historyCursor = 0 /\ doc \in Docs /\ Place(start)
  BY EmptyStandsAtStart DEF IInv, Controlled, Placed, Opened
<1>2. consumed = 0
  BY <1>1 DEF IInv, Placed, LaidOut
<1>3. Frontier = NextContent(start)
  BY <1>1, <1>2 DEF Frontier
<1>4. Place(Frontier)
  BY <1>1, <1>3, ContentProperties
<1>5. [i \in DOMAIN history |-> <<history[i].first, LastOf(history[i])>>] = << >>
  <2>1. Trail(history) \in Seq(Nat \X Int) /\ Len(Trail(history)) = 0
    <3>1. history \in Seq(Descriptor) /\ Len(history) = 0
      BY <1>1
    <3>. QED BY <3>1, TrailProperties
  <2>2. Trail(history) = << >>
    BY <2>1, EmptySeq
  <2>. QED BY <2>2 DEF Trail
<1>. QED BY <1>1, <1>3, <1>4, <1>5

\* The first step of a session restored with grouping.
LEMMA OrderResumes ==
    ASSUME IInv, state = "Empty", doc' = doc, presented' = NextContent(start),
           IsWord(NextContent(start)), Place(NextContent(start) + 1),
           Emitted(NextContent(NextContent(start) + 1), "Paused", FALSE, FALSE)
    PROVE  Order!ResumeAfter
<1>. DEFINE c == NextContent(start)
            n == NextContent(c + 1)
<1>1. /\ Frontier = c /\ historyCursor = 0 /\ history = << >> /\ presented = 0
      /\ [i \in DOMAIN history |-> <<history[i].first, LastOf(history[i])>>] = << >>
  BY OrderOpens
<1>2. doc \in Docs /\ Remembered(history) /\ historyCursor \in Nat
  BY <1>1 DEF IInv, Opened, Placed
<1>3. Order!FirstFrom(c + 1, n) /\ n \in c + 1 .. Len(doc) /\ Place(n)
  BY <1>2, FirstFromContent, ContentProperties
<1>. HIDE DEF c, n
<1>4. PICK m \in Nat : m = n
  BY <1>3 DEF Place
<1>5. Emitted(n, "Paused", FALSE, FALSE) /\ presented' = c /\ doc[c].kind = "Word"
  BY DEF n, c, IsWord
<1>6. Order!Proceed(m)
  <2>1. Emitted(m, "Paused", FALSE, FALSE)
    BY <1>4, <1>5
  <2>. QED BY <1>2, <2>1, EmittedProceeds
<1>7. \E q \in Frontier + 1 .. Len(doc) : Order!FirstFrom(Frontier + 1, q) /\ Order!Proceed(q)
  <2>1. m \in Frontier + 1 .. Len(doc) /\ Order!FirstFrom(Frontier + 1, m)
    BY <1>1, <1>3, <1>4
  <2>. QED BY <1>6, <2>1
<1>. QED BY <1>1, <1>5, <1>7 DEF Order!ResumeAfter

\* An element is stepped over.
LEMMA OrderStepsOver ==
    ASSUME IInv, SkipElement, Observe
    PROVE  Order!StepOverElement
<1>. DEFINE q == events[1]
            n == NextContent(q + 1)
<1>1. /\ state = "Boundary" /\ reason = "NonText" /\ doc' = doc /\ presented' = presented
  BY DEF SkipElement, bookVars
<1>2. events # << >> /\ consumed = 0 /\ doc[q].kind = "NonText"
  BY <1>1 DEF IInv, Controlled
<1>3. doc \in Docs /\ LaidOut(events, cursor, consumed) /\ Remembered(history) /\ historyCursor \in Nat
  <2>1. historyCursor \in 0 .. Len(history)
    BY IInvIsTyped DEF TypeOK
  <2>. QED BY <2>1 DEF IInv, Opened, Placed
<1>4. Frontier = q
  <2>1. Frontier = events[consumed + 1]
    BY <1>2, <1>3, FrontierIsRest
  <2>. QED BY <1>2, <2>1
<1>5. Place(q + 1) /\ Emitted(n, "Paused", chapterPending, chapterPauseShown)
  BY SkipElementKeeps
<1>6. Order!FirstFrom(q + 1, n) /\ n \in q + 1 .. Len(doc) /\ Place(n)
  BY <1>3, <1>5, FirstFromContent, ContentProperties
<1>. HIDE DEF q, n
<1>7. PICK m \in Nat : m = n
  BY <1>6 DEF Place
<1>8. \E p \in Frontier + 1 .. Len(doc) : Order!FirstFrom(Frontier + 1, p) /\ Order!Proceed(p)
  <2>1. Emitted(m, "Paused", chapterPending, chapterPauseShown)
    BY <1>5, <1>7
  <2>2. Order!Proceed(m)
    BY <1>1, <1>3, <2>1, EmittedProceeds
  <2>3. m \in Frontier + 1 .. Len(doc) /\ Order!FirstFrom(Frontier + 1, m)
    BY <1>4, <1>6, <1>7
  <2>. QED BY <2>2, <2>3
<1>9. ~ OnDisplay
  BY <1>2 DEF OnDisplay
<1>. QED BY <1>1, <1>2, <1>4, <1>8, <1>9 DEF Order!StepOverElement, q

\* A rewind returns to a group of the trail.
LEMMA OrderGoesBack ==
    ASSUME IInv, NEW elapsed \in BOOLEAN, RewindFive(elapsed), Observe
    PROVE  Order!GoBack
<1>. DEFINE t == historyCursor'
            e == history[t]
            trail == [i \in DOMAIN history |-> <<history[i].first, LastOf(history[i])>>]
<1>1. /\ IInv' /\ history' = history /\ t \in 1 .. historyCursor
      /\ ShownAt(e.first, e.count, "Paused")
  BY RewindFiveKeeps
<1>2. doc' = doc /\ presented' = presented
  BY DEF RewindFive, bookVars
<1>3. historyCursor \in 0 .. Len(history) /\ Remembered(history) /\ doc \in Docs
  BY IInvIsTyped DEF TypeOK, IInv, Placed, Opened
<1>4. t \in 1 .. Len(history)
  BY <1>1, <1>3 DEF Remembered
<1>5. e.first \in Nat /\ e.count \in 1 .. MaxGroup /\ LastOf(e) = e.first + e.count - 1
  <2>1. Entry(e)
    BY <1>3, <1>4 DEF Remembered
  <2>. QED BY <2>1 DEF Entry, Descriptor, LastOf
<1>6. LaidOut(events', cursor', consumed') /\ events' # << >>
  <2>1. consumed' # 0
    BY <1>1, <1>5 DEF ShownAt, MaxGroup
  <2>2. LaidOut(events, cursor, consumed)'
    BY <1>1 DEF IInv, Placed
  <2>3. LaidOut(events', cursor', consumed')
    BY <1>2, <2>2 DEF LaidOut, Separator, IsWord
  <2>. QED BY <2>1, <2>3 DEF LaidOut
<1>7. trail[t] = <<e.first, LastOf(e)>>
  <2>1. history \in Seq(Descriptor)
    BY <1>3 DEF Remembered
  <2>. QED BY <1>4, <2>1
<1>. HIDE DEF e
<1>8. Order!ShowGroup(e.first, e.first + e.count - 1)
  BY <1>1, <1>2, <1>3, <1>5, <1>6, ShownInOrder
<1>9. Order!ShowGroup(trail[t][1], trail[t][2])
  BY <1>5, <1>7, <1>8
<1>10. trail' = trail
  BY <1>1 DEF LastOf
<1>. QED BY <1>1, <1>2, <1>9, <1>10 DEF Order!GoBack

\* An acknowledged frame commits the group on the display.
LEMMA OrderCommits ==
    ASSUME IInv, NEW elapsed \in BOOLEAN, FramePresented(elapsed), Observe
    PROVE  Order!Commit
<1>. DEFINE e == history[historyCursor]
            trail == [i \in DOMAIN history |-> <<history[i].first, LastOf(history[i])>>]
<1>1. consumed # 0 /\ presented' = events[consumed]
  BY FramePresentedKeeps
<1>2. UNCHANGED <<bookVars, queueVars, historyVars>>
  BY DEF FramePresented
<1>3. LaidOut(events, cursor, consumed) /\ historyCursor # 0 /\ e.first = events[1] /\ e.count = consumed
  BY <1>1 DEF IInv, Placed
<1>4. trail[historyCursor] = <<e.first, LastOf(e)>>
  <2>1. historyCursor \in 0 .. Len(history) /\ history \in Seq(Descriptor)
    BY IInvIsTyped DEF TypeOK
  <2>2. historyCursor \in DOMAIN history
    BY <1>3, <2>1
  <2>. QED BY <2>2
<1>5. events[consumed] = events[1] + consumed - 1
  <2>1. consumed \in 1 .. consumed
    BY <1>1, <1>3 DEF LaidOut, MaxGroup
  <2>. QED BY <1>3, <2>1 DEF LaidOut
<1>6. trail[historyCursor][2] = presented'
  BY <1>1, <1>3, <1>4, <1>5 DEF LastOf
<1>7. UNCHANGED <<doc, trail, historyCursor, OnDisplay, Frontier>>
  BY <1>2 DEF bookVars, queueVars, historyVars, OnDisplay, Frontier, NextContent, Separator, LastOf
<1>8. OnDisplay
  BY <1>1 DEF OnDisplay
<1>. HIDE DEF e
<1>. QED BY <1>6, <1>7, <1>8 DEF Order!Commit

\* Every step of a session is a step of the reading order or is not seen by it.
LEMMA OrderStep ==
    ASSUME IInv, Next, Observe
    PROVE  Order!Next \/ UNCHANGED Order!vars
<1>. DEFINE Follows == Order!Next \/ UNCHANGED Order!vars
<1>1. ASSUME OpenFails PROVE UNCHANGED Order!vars
  <2>1. UNCHANGED <<bookVars, queueVars, historyVars>> /\ presented' = presented
    BY <1>1, OpenFailsKeeps DEF OpenFails
  <2>. QED BY <2>1, OrderStutters
<1>2. ASSUME Open PROVE Order!ReadOn
  <2>1. state = "Empty" /\ doc' = doc /\ presented' = presented
    BY <1>2 DEF Open, bookVars
  <2>2. Frontier = NextContent(start) /\ Place(Frontier)
    BY <2>1, OrderOpens
  <2>3. Emitted(Frontier, "Paused", FALSE, FALSE)
    BY <1>2, <2>2, OpenKeeps
  <2>. QED BY <2>1, <2>2, <2>3, OrderReadsOn
<1>3. ASSUME NEW matches \in BOOLEAN, Restore(matches) PROVE Order!ReadOn \/ Order!ResumeAfter
  <2>1. state = "Empty" /\ doc' = doc
    BY <1>3 DEF Restore, bookVars
  <2>2. Frontier = NextContent(start) /\ Place(Frontier)
    BY <2>1, OrderOpens
  <2>3. CASE /\ presented' = presented
             /\ \E chapter, shownPause :
                   Emitted(NextContent(start), "Paused", chapter, shownPause)
    <3>1. PICK chapter, shownPause : Emitted(NextContent(start), "Paused", chapter, shownPause)
      BY <2>3
    <3>2. Emitted(Frontier, "Paused", chapter, shownPause)
      BY <2>2, <3>1
    <3>. QED BY <2>1, <2>2, <2>3, <3>2, OrderReadsOn
  <2>4. CASE /\ presented' = NextContent(start)
             /\ IsWord(NextContent(start))
             /\ Place(NextContent(start) + 1)
             /\ Emitted(NextContent(NextContent(start) + 1), "Paused", FALSE, FALSE)
    BY <2>1, <2>4, OrderResumes
  <2>. QED BY <1>3, <2>3, <2>4, RestoreKeeps
<1>4. ASSUME SkipElement PROVE Order!StepOverElement
  BY <1>4, OrderStepsOver
<1>5. ASSUME StepGroup PROVE Order!ReadOn
  <2>1. state = "Paused" /\ doc' = doc /\ presented' = presented
    BY <1>5 DEF StepGroup, bookVars
  <2>. QED BY <1>5, <2>1, StepGroupKeeps, OrderReadsRest
<1>6. ASSUME NEW elapsed \in BOOLEAN, Tick(elapsed), ~ chapterPending PROVE Order!ReadOn
  <2>1. state = "Playing" /\ doc' = doc /\ presented' = presented
    BY <1>6 DEF Tick, bookVars
  <2>. QED BY <1>6, <2>1, TickKeeps, OrderReadsRest
<1>7. ASSUME NEW elapsed \in BOOLEAN, Tick(elapsed), chapterPending PROVE UNCHANGED Order!vars
  BY <1>7, ChapterPauseKeeps, OrderStutters
<1>8. ASSUME NEW elapsed \in BOOLEAN, RewindFive(elapsed) PROVE Order!GoBack
  BY <1>8, OrderGoesBack
<1>9. ASSUME NEW elapsed \in BOOLEAN, FramePresented(elapsed) PROVE Order!Commit
  BY <1>9, OrderCommits
<1>10. ASSUME NEW elapsed \in BOOLEAN,
              Leave(elapsed) \/ FramePresentationFailed(elapsed) \/ Pause(elapsed)
              \/ RewindFails(elapsed) \/ WordDoesNotFit(elapsed) \/ Idle(elapsed)
       PROVE  UNCHANGED Order!vars
  <2>1. UNCHANGED <<bookVars, queueVars, historyVars>> /\ presented' = presented
    BY <1>10 DEF Leave, FramePresentationFailed, Pause, RewindFails, WordDoesNotFit, Idle
  <2>. QED BY <2>1, OrderStutters
<1>11. ASSUME Play \/ Configure PROVE UNCHANGED Order!vars
  <2>1. UNCHANGED <<bookVars, queueVars, historyVars>> /\ presented' = presented
    BY <1>11 DEF Play, Configure
  <2>. QED BY <2>1, OrderStutters
<1>12. (Order!ReadOn => Follows) /\ (Order!StepOverElement => Follows) /\ (Order!ResumeAfter => Follows)
       /\ (Order!GoBack => Follows) /\ (Order!Commit => Follows) /\ ((UNCHANGED Order!vars) => Follows)
  BY DEF Order!Next
<1>. HIDE DEF Follows
<1>13. ASSUME OpenFails \/ Open \/ Play \/ SkipElement \/ StepGroup \/ Configure PROVE Follows
  BY <1>1, <1>2, <1>4, <1>5, <1>11, <1>12, <1>13
<1>14. ASSUME NEW matches \in BOOLEAN, Restore(matches) PROVE Follows
  BY <1>3, <1>12, <1>14
<1>15. ASSUME NEW elapsed \in BOOLEAN,
              Leave(elapsed) \/ FramePresented(elapsed) \/ FramePresentationFailed(elapsed)
              \/ Pause(elapsed) \/ RewindFive(elapsed) \/ RewindFails(elapsed)
       PROVE  Follows
  BY <1>8, <1>9, <1>10, <1>12, <1>15
<1>16. ASSUME NEW elapsed \in BOOLEAN,
              WordDoesNotFit(elapsed) \/ Tick(elapsed) \/ Idle(elapsed)
       PROVE  Follows
  BY <1>6, <1>7, <1>10, <1>12, <1>16
<1>17. Follows
  BY <1>13, <1>14, <1>15, <1>16 DEF Next
<1>. QED BY <1>17 DEF Follows

(***************************************************************************)
(* The session as a whole implements ReadingOrder: groups are shown in the *)
(* order of the document, a return shows a remembered group again, only an *)
(* explicit step passes an element, and only a shown group is committed,   *)
(* whatever the buffer, the replay history and the checkpoint flags do.    *)
(***************************************************************************)
THEOREM KeepsReadingOrder == ObsSpec => ImplementsReadingOrder
<1>1. ObsInit => Order!Init
  BY OrderInit
<1>2. IInv /\ [Next /\ Observe]_obsVars => [Order!Next]_Order!vars
  <2>. SUFFICES ASSUME IInv, [Next /\ Observe]_obsVars
                PROVE  Order!Next \/ UNCHANGED Order!vars
    OBVIOUS
  <2>1. CASE Next /\ Observe
    BY <2>1, OrderStep
  <2>2. CASE UNCHANGED obsVars
    <3>1. UNCHANGED <<bookVars, queueVars, historyVars>> /\ presented' = presented
      BY <2>2 DEF obsVars, vars
    <3>. QED BY <3>1, OrderStutters
  <2>. QED BY <2>1, <2>2
<1>. QED BY <1>1, <1>2, IInvHolds, PTL DEF ObsSpec, ImplementsReadingOrder, Order!Spec

-----------------------------------------------------------------------------
=============================================================================
