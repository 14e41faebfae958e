------------------------ MODULE TranscriptionProofs -------------------------
(***************************************************************************)
(* Proofs about the two modules of the transcription of a stream.          *)
(*                                                                         *)
(* DeepgramStream, for any number of words, any limit and any words after  *)
(* which a text is not whole: the finals make one text, no stable word is  *)
(* lost, and stop() makes final what was shown last.                       *)
(*                                                                         *)
(* TranscriptPipeline, for any number of utterances, sessions and waiting  *)
(* rechecks: PublishedInOrder, FinalReplacesPartial and RecheckBounded.    *)
(***************************************************************************)
EXTENDS DeepgramStream, TranscriptPipeline, FiniteSetTheorems, SequenceTheorems,
        WellFoundedInduction, TLAPS

-----------------------------------------------------------------------------
(* DeepgramStream: numbers and words *)

LEMMA WordsAreNumbers ==
    /\ MaxWords \in Nat /\ MaxWords > 0
    /\ Words \subseteq Nat
    /\ \A w \in Words : w \in Nat /\ 1 <= w /\ w <= MaxWords
<1>1. MaxWords \in Nat \ {0}
  BY DeepgramAssumption
<1> QED BY <1>1 DEF Words

LEMMA NatLeast ==
    ASSUME NEW S \in SUBSET Nat, S # {}
    PROVE \E i \in S : \A j \in S : i <= j
<1>1. IsWellFoundedOn(OpToRel(<, Nat), Nat)
  BY NatLessThanWellFounded
<1>2. PICK i \in S : \A j \in S : ~(<<j, i>> \in OpToRel(<, Nat))
  BY <1>1, WFMin
<1>3. ASSUME NEW j \in S, j < i PROVE FALSE
  <2>1. <<j, i>> \in OpToRel(<, Nat)
    BY <1>3 DEF OpToRel
  <2> QED BY <1>2, <2>1, Zenon
<1>4. \A j \in S : j \in Nat /\ i \in Nat /\ ~(j < i)
  BY <1>3
<1> QED BY <1>4

\* The first word of a text.
LEMMA MinIs ==
    ASSUME NEW T \in SUBSET Words, T # {}
    PROVE Min(T) \in T /\ \A w \in T : Min(T) <= w
<1>1. T \in SUBSET Nat
  BY WordsAreNumbers
<1>2. PICK i \in T : \A w \in T : i <= w
  BY <1>1, NatLeast
<1> QED BY <1>2 DEF Min

\* The last word of a text.
LEMMA MaxIs ==
    ASSUME NEW T \in SUBSET Words, T # {}
    PROVE Max(T) \in T /\ \A w \in T : w <= Max(T)
<1> DEFINE S == {n \in 0 .. MaxWords : MaxWords - n \in T}
<1>1. PICK x \in T : TRUE
  OBVIOUS
<1>2. x \in Nat /\ MaxWords \in Nat /\ x <= MaxWords /\ MaxWords - x \in 0 .. MaxWords
  BY <1>1, WordsAreNumbers
<1>3. MaxWords - (MaxWords - x) = x
  BY <1>2
<1>4. MaxWords - x \in S
  BY <1>1, <1>2, <1>3
<1>5. S \in SUBSET Nat /\ S # {}
  <2>1. \A n \in S : n \in 0 .. MaxWords
    OBVIOUS
  <2>2. \A n \in 0 .. MaxWords : n \in Nat
    BY <1>2
  <2> QED BY <1>4, <2>1, <2>2, Zenon
<1>6. PICK i \in S : \A j \in S : i <= j
  BY <1>5, NatLeast
<1>7. MaxWords - i \in T
  BY <1>6
<1>8. ASSUME NEW w \in T PROVE w <= MaxWords - i
  <2>1. w \in Nat /\ w <= MaxWords /\ i \in Nat
    BY <1>6, WordsAreNumbers
  <2>2. MaxWords - w \in 0 .. MaxWords /\ MaxWords - (MaxWords - w) = w
    BY <1>2, <2>1
  <2>3. MaxWords - w \in S
    BY <2>2
  <2>4. i <= MaxWords - w
    BY <1>6, <2>3
  <2> QED BY <1>2, <2>1, <2>4
<1>9. \E m \in T : \A w \in T : m >= w
  <2>1. \A w \in T : w \in Nat /\ MaxWords - i \in Nat
    BY <1>7, WordsAreNumbers
  <2>2. \A w \in T : MaxWords - i >= w
    BY <1>8, <2>1
  <2> QED BY <1>7, <2>2
<1>10. Max(T) \in T /\ \A w \in T : Max(T) >= w
  BY <1>9 DEF Max
<1>11. \A w \in T : w \in Nat
  BY WordsAreNumbers
<1> QED BY <1>10, <1>11

\* The end of a text.
LEMMA EndIs ==
    ASSUME NEW T \in SUBSET Words
    PROVE /\ End(T) \in 0 .. MaxWords
          /\ T # {} => End(T) \in T
          /\ \A w \in T : w <= End(T)
<1>1. CASE T = {}
  BY <1>1, WordsAreNumbers DEF End
<1>2. CASE T # {}
  <2>1. End(T) = Max(T)
    BY <1>2 DEF End
  <2>2. End(T) \in T /\ \A w \in T : w <= End(T)
    BY <1>2, <2>1, MaxIs
  <2>3. PICK e : e = End(T)
    OBVIOUS
  <2>4. e \in Nat /\ e <= MaxWords
    BY <1>2, <2>2, <2>3, WordsAreNumbers
  <2>5. End(T) \in 0 .. MaxWords
    BY <2>3, <2>4, WordsAreNumbers
  <2> QED BY <2>2, <2>5
<1> QED BY <1>1, <1>2

\* The greater of two offsets.
LEMMA MaxOfTwo ==
    ASSUME NEW x \in 0 .. MaxWords, NEW y \in 0 .. MaxWords
    PROVE Max({x, y}) = IF x <= y THEN y ELSE x
<1>1. x \in Int /\ y \in Int
  BY WordsAreNumbers
<1>2. PICK S : S = {x, y}
  OBVIOUS
<1>3. \E m \in S : \A w \in S : m >= w
  <2>1. CASE x <= y
    BY <1>1, <1>2, <2>1
  <2>2. CASE ~(x <= y)
    BY <1>1, <1>2, <2>2
  <2> QED BY <2>1, <2>2
<1>4. Max(S) \in S /\ \A w \in S : Max(S) >= w
  BY <1>3 DEF Max
<1>5. (Max(S) = x \/ Max(S) = y) /\ Max(S) >= x /\ Max(S) >= y
  BY <1>2, <1>4
<1>6. Max(S) = IF x <= y THEN y ELSE x
  BY <1>1, <1>5
<1> QED BY <1>2, <1>6

-----------------------------------------------------------------------------
(* What a final does to the text *)

LEMMA AppendIs ==
    ASSUME NEW S, NEW q \in Seq(S), NEW e \in S, NEW v, v = Append(q, e)
    PROVE /\ v \in Seq(S) /\ Len(q) \in Nat /\ Len(v) = Len(q) + 1
          /\ DOMAIN q = 1 .. Len(q) /\ DOMAIN v = 1 .. Len(q) + 1
          /\ \A i \in 1 .. Len(q) : v[i] = q[i]
          /\ v[Len(q) + 1] = e
<1>1. /\ v \in Seq(S) /\ Len(v) = Len(q) + 1
      /\ \A i \in 1 .. Len(q) : v[i] = q[i]
      /\ v[Len(q) + 1] = e
  BY AppendProperties
<1>2. Len(q) \in Nat /\ DOMAIN q = 1 .. Len(q) /\ DOMAIN v = 1 .. Len(v)
  BY <1>1, LenProperties
<1> QED BY <1>1, <1>2

\* A final at the end of the others.
LEMMA SaidAppend ==
    ASSUME NEW fs \in Seq(Texts), NEW T \in SUBSET Words, T # {}
    PROVE /\ Append(fs, T) \in Seq(Texts)
          /\ Said(Append(fs, T)) = Said(fs) \cup T
<1>1. PICK v, n : v = Append(fs, T) /\ n = Len(fs)
  OBVIOUS
<1>2. /\ v \in Seq(Texts) /\ n \in Nat
      /\ DOMAIN fs = 1 .. n /\ DOMAIN v = 1 .. n + 1
      /\ \A i \in 1 .. n : v[i] = fs[i]
      /\ v[n + 1] = T
  <2>1. T \in Texts
    BY DEF Texts
  <2> QED BY <1>1, <2>1, AppendIs
<1>3. \A i : i \in DOMAIN v <=> i \in DOMAIN fs \/ i = n + 1
  BY <1>2
<1>4. \A i \in DOMAIN fs : v[i] = fs[i]
  BY <1>2
<1>5. Said(v) = Said(fs) \cup T
  <2>1. ASSUME NEW w PROVE w \in Said(v) <=> w \in Said(fs) \/ w \in T
    <3>1. w \in Said(v) <=> \E i \in DOMAIN v : w \in v[i]
      BY Zenon DEF Said, ToSet
    <3>2. w \in Said(fs) <=> \E i \in DOMAIN fs : w \in fs[i]
      BY Zenon DEF Said, ToSet
    <3> QED BY <1>2, <1>3, <1>4, <3>1, <3>2, Zenon
  <2> QED BY <2>1
<1> QED BY <1>1, <1>2, <1>5

LEMMA PartedAppend ==
    ASSUME NEW fs \in Seq(Texts), NEW cu \in 0 .. MaxWords,
           NEW T \in SUBSET Words, T # {}, \A w \in T : cu < w, Parted(fs, cu)
    PROVE Parted(Append(fs, T), End(T))
<1>1. PICK v, n, e : v = Append(fs, T) /\ n = Len(fs) /\ e = End(T)
  OBVIOUS
<1>2. /\ n \in Nat /\ Len(v) = n + 1
      /\ \A i \in 1 .. n : v[i] = fs[i] /\ v[i] \in SUBSET Words
      /\ v[n + 1] = T
  <2>1. T \in Texts /\ \A x \in Texts : x \in SUBSET Words
    BY DEF Texts
  <2>2. /\ v \in Seq(Texts) /\ n \in Nat /\ Len(v) = n + 1
        /\ \A i \in 1 .. n : v[i] = fs[i]
        /\ v[n + 1] = T
    BY <1>1, <2>1, AppendIs
  <2>3. \A i \in 1 .. n : fs[i] \in Texts
    BY <1>1, <2>1
  <2> QED BY <2>1, <2>2, <2>3
<1>3. e \in T /\ e \in Nat /\ \A w \in T : w <= e
  BY <1>1, EndIs, WordsAreNumbers
<1>4. cu < e /\ cu \in Nat
  BY <1>3, WordsAreNumbers
<1>5. \A i \in 1 .. Len(v) : i \in 1 .. n \/ i = n + 1
  BY <1>2
<1>6. \A i \in 1 .. n : \A w \in fs[i] : w <= cu
  BY <1>1 DEF Parted
<1>7. \A i, j \in 1 .. n : i < j => \A x \in fs[i], y \in fs[j] : x < y
  BY <1>1 DEF Parted
<1>8. ASSUME NEW i \in 1 .. Len(v), NEW w \in v[i] PROVE w <= e
  <2>1. CASE i \in 1 .. n
    <3>1. w \in Nat /\ w <= cu
      BY <1>2, <1>6, <1>8, <2>1, WordsAreNumbers
    <3> QED BY <1>3, <1>4, <3>1
  <2>2. CASE i = n + 1
    BY <1>2, <1>3, <1>8, <2>2
  <2> QED BY <1>5, <2>1, <2>2
<1>9. ASSUME NEW i \in 1 .. Len(v), NEW j \in 1 .. Len(v), i < j, NEW x \in v[i], NEW y \in v[j]
      PROVE x < y
  <2>1. i \in 1 .. n
    BY <1>2, <1>5, <1>9
  <2>2. CASE j \in 1 .. n
    BY <1>2, <1>7, <1>9, <2>1, <2>2
  <2>3. CASE j = n + 1
    <3>1. x \in Nat /\ x <= cu
      BY <1>2, <1>6, <1>9, <2>1, WordsAreNumbers
    <3>2. y \in T /\ y \in Nat /\ cu < y
      BY <1>2, <1>9, <2>3, WordsAreNumbers
    <3> QED BY <1>4, <3>1, <3>2
  <2> QED BY <1>5, <2>2, <2>3
<1>10. Parted(v, e)
  BY <1>8, <1>9 DEF Parted
<1> QED BY <1>1, <1>10

\* What a final leaves, whether it takes what is committed or what is shown.
LEMMA FinalLeaves ==
    ASSUME NEW fs \in Seq(Texts), NEW cu \in 0 .. MaxWords,
           NEW s \in 0 .. MaxWords, NEW co \in SUBSET Words, NEW T \in SUBSET Words,
           NEW lf \in SUBSET Words, NEW go \in SUBSET Words, NEW h \in SUBSET Words,
           T # {}, Parted(fs, cu), Based(co, cu, lf, s), Covered(fs, co, cu, go, s, h),
           T = co \/ Seen(co, T, cu, s)
    PROVE /\ cu < End(T)
          /\ Parted(Append(fs, T), End(T))
          /\ Based({}, End(T), T, s)
          /\ Covered(Append(fs, T), {}, End(T), go, s, h)
          /\ Seen({}, {}, End(T), s)
<1>1. PICK e : e = End(T)
  OBVIOUS
<1>2. e \in T /\ e \in Nat /\ \A w \in T : w <= e
  BY <1>1, EndIs, WordsAreNumbers
<1>3. s \in Nat /\ cu \in Nat /\ \A w \in Words : w \in Nat
  BY WordsAreNumbers
<1>4. \A w \in T : cu < w
  BY DEF Based, Seen
<1>5. Parted(Append(fs, T), e)
  BY <1>1, <1>4, PartedAppend
<1>6. \A x \in T, w \in Words : x <= w /\ w <= e => w \in T
  <2>1. CASE T = co
    <3>1. e <= s
      BY <1>2, <2>1 DEF Based
    <3>2. \A x \in T, w \in Words : x <= w /\ w <= s => w \in T
      BY <2>1 DEF Based
    <3> QED BY <1>2, <1>3, <3>1, <3>2
  <2>2. CASE Seen(co, T, cu, s)
    BY <1>2, <2>2 DEF Seen
  <2> QED BY <2>1, <2>2
<1>7. Based({}, e, T, s)
  BY <1>2, <1>6 DEF Based
<1>8. Said(Append(fs, T)) = Said(fs) \cup T
  BY SaidAppend
<1>9. ASSUME NEW w \in Words, s < w, w <= e PROVE w \in Said(fs) \cup T \cup go
  <2>1. CASE w <= cu
    BY <1>9, <2>1 DEF Covered
  <2>2. CASE ~(w <= cu)
    <3>1. cu < w
      BY <1>3, <2>2
    <3>2. T # co
      <4>1. T = co => e <= s
        BY <1>2 DEF Based
      <4> QED BY <1>2, <1>3, <1>9, <4>1
    <3> QED BY <1>2, <1>9, <3>1, <3>2 DEF Seen
  <2> QED BY <2>1, <2>2
<1>10. co \subseteq T
  BY DEF Seen
<1>11. h \subseteq Said(fs) \cup T \cup go
  BY <1>10 DEF Covered
<1>12. Covered(Append(fs, T), {}, e, go, s, h)
  BY <1>8, <1>9, <1>11 DEF Covered
<1>13. Seen({}, {}, e, s)
  BY DEF Seen
<1>14. cu < e
  BY <1>2, <1>4
<1> QED BY <1>1, <1>5, <1>7, <1>12, <1>13, <1>14

-----------------------------------------------------------------------------
(* What a result does to the text.  A result is raw, the words after the last
   stable one up to a word; after is what of it is behind the offset. *)

Raw(s, to) == {w \in Words : s < w /\ w <= to}
After(s, to, cu) == {w \in Raw(s, to) : cu < w}

LEMMA RawIs ==
    ASSUME NEW s \in 0 .. MaxWords, NEW to \in 0 .. MaxWords
    PROVE Text(s + 1, to) = Raw(s, to)
<1>1. s \in Nat /\ to \in Nat /\ to <= MaxWords /\ MaxWords \in Nat
  BY WordsAreNumbers
<1>2. \A w : w \in s + 1 .. to <=> w \in 1 .. MaxWords /\ s < w /\ w <= to
  BY <1>1
<1> QED BY <1>2 DEF Text, Raw, Words

\* A result is taken without what is final already, or is dropped as a whole,
\* which only happens if it begins in what is final.
LEMMA RemainderIs ==
    ASSUME NEW a \in Assembly, NEW s \in 0 .. MaxWords, NEW to \in 0 .. MaxWords,
           NEW timed \in BOOLEAN, Raw(s, to) # {},
           Based(a.committed, a.cutoff, a.lastFinal, s),
           NEW T, T = Remainder(a, Raw(s, to), timed)
    PROVE /\ T \in SUBSET Words
          /\ T # {} => T = After(s, to, a.cutoff)
          /\ T = {} => a.committed = {}
<1> DEFINE raw == Raw(s, to)
           after == After(s, to, a.cutoff)
<1>1. raw \in SUBSET Words /\ after \in SUBSET Words
  BY DEF Raw, After
<1>2. /\ a.cutoff \in Nat /\ s \in Nat /\ to \in Nat
      /\ a.lastFinal \in SUBSET Words /\ a.committed \in SUBSET Words
      /\ \A w \in Words : w \in Nat
  BY WordsAreNumbers DEF Assembly
<1>3. after = {w \in raw : w > a.cutoff}
  <2>1. \A w \in raw : w > a.cutoff <=> a.cutoff < w
    BY <1>1, <1>2
  <2> QED BY <2>1 DEF After
<1>4. T = IF after = raw \/ timed THEN after
          ELSE IF after # {} /\ a.lastFinal # {} /\ a.lastFinal \subseteq raw
                  /\ Min(a.lastFinal) = Min(raw)
          THEN raw \ a.lastFinal ELSE {}
  BY <1>3 DEF Remainder
<1>5. after # raw => a.committed = {}
  <2> SUFFICES ASSUME NEW x \in raw, x \notin after PROVE a.committed = {}
    BY DEF After
  <2>1. s < x /\ x <= a.cutoff /\ x \in Nat
    BY <1>1, <1>2 DEF Raw, After
  <2>2. \A w \in a.committed : a.cutoff < w /\ w <= s /\ w \in Nat
    BY <1>2 DEF Based
  <2> QED BY <1>2, <2>1, <2>2
<1>6. CASE after = raw \/ timed
  <2>1. T = after
    BY <1>4, <1>6
  <2>2. T = {} => after # raw
    BY <2>1
  <2> QED BY <1>1, <1>5, <2>1, <2>2
<1>7. CASE /\ ~(after = raw \/ timed)
           /\ after # {} /\ a.lastFinal # {} /\ a.lastFinal \subseteq raw
           /\ Min(a.lastFinal) = Min(raw)
  <2>1. T = raw \ a.lastFinal /\ a.committed = {}
    BY <1>4, <1>5, <1>7
  <2>2. /\ Min(raw) \in a.lastFinal /\ \A w \in raw : Min(raw) <= w
    BY <1>1, <1>2, <1>7, MinIs
  <2>3. PICK m : m = Min(raw)
    OBVIOUS
  <2>4. m \in a.lastFinal /\ \A w \in raw : m <= w
    BY <2>2, <2>3
  <2>5. \A w \in Words : m <= w /\ w <= a.cutoff => w \in a.lastFinal
    BY <2>4 DEF Based
  <2>6. \A w \in a.lastFinal : w <= a.cutoff
    BY DEF Based
  <2>7. ASSUME NEW w \in raw PROVE w \in after <=> w \notin a.lastFinal
    <3>1. w \in Words /\ w \in Nat
      BY <1>1, <1>2
    <3>2. w \in after <=> a.cutoff < w
      BY DEF After
    <3>3. ~(a.cutoff < w) <=> w <= a.cutoff
      BY <1>2, <3>1
    <3>4. w <= a.cutoff => w \in a.lastFinal
      BY <2>4, <2>5, <3>1
    <3> QED BY <2>6, <3>2, <3>3, <3>4
  <2>8. T = after
    BY <1>1, <2>1, <2>7 DEF After
  <2> QED BY <1>1, <2>1, <2>8
<1>8. CASE /\ ~(after = raw \/ timed)
           /\ ~(/\ after # {} /\ a.lastFinal # {} /\ a.lastFinal \subseteq raw
                /\ Min(a.lastFinal) = Min(raw))
  <2>1. T = {} /\ a.committed = {}
    BY <1>4, <1>5, <1>8
  <2> QED BY <2>1
<1> QED BY <1>6, <1>7, <1>8

\* A stable result behind what is committed, or in its place.
LEMMA ResultCommits ==
    ASSUME NEW fs \in Seq(Texts), NEW cu \in 0 .. MaxWords,
           NEW s \in 0 .. MaxWords, NEW to \in 0 .. MaxWords,
           NEW co \in SUBSET Words, NEW lf \in SUBSET Words, NEW go \in SUBSET Words,
           NEW h \in SUBSET Words, s <= to,
           Based(co, cu, lf, s), Covered(fs, co, cu, go, s, h),
           NEW kept \in {co, {}}, NEW T, T = After(s, to, cu), T # {}
    PROVE /\ Based(kept \cup T, cu, lf, to)
          /\ Covered(fs, kept \cup T, cu, go \cup (co \ kept), to, h \cup Raw(s, to))
          /\ Seen(kept \cup T, kept \cup T, cu, to)
<1>1. s \in Nat /\ to \in Nat /\ cu \in Nat /\ \A w \in Words : w \in Nat
  BY WordsAreNumbers
<1>2. T \in SUBSET Words /\ \A w \in Words : w \in T <=> s < w /\ w <= to /\ cu < w
  BY DEF After, Raw
<1>3. \A w \in co : w \in Nat /\ cu < w /\ w <= s
  BY <1>1 DEF Based
<1>4. \A w \in kept \cup T : w \in Words /\ cu < w /\ w <= to
  <2>1. \A w \in co : w \in Words /\ cu < w /\ w <= to
    BY <1>1, <1>3
  <2> QED BY <1>2, <2>1
<1>5. ASSUME NEW x \in kept \cup T, NEW w \in Words, x <= w, w <= to PROVE w \in kept \cup T
  <2>1. CASE x \in T
    <3>1. x \in Nat /\ w \in Nat /\ s < x /\ cu < x
      BY <1>1, <1>2, <2>1
    <3>2. s < w /\ cu < w
      BY <1>1, <1>5, <3>1
    <3> QED BY <1>2, <1>5, <3>2
  <2>2. CASE x \notin T
    <3>1. kept = co /\ x \in co
      BY <1>5, <2>2
    <3>2. CASE w <= s
      BY <1>5, <3>1, <3>2 DEF Based
    <3>3. CASE ~(w <= s)
      <4>1. s < w /\ cu < w
        BY <1>1, <1>3, <1>5, <3>1, <3>3
      <4> QED BY <1>2, <1>5, <4>1
    <3> QED BY <3>2, <3>3
  <2> QED BY <2>1, <2>2
<1>6. Based(kept \cup T, cu, lf, to)
  BY <1>4, <1>5 DEF Based
<1>7. \A w \in Words : to < w /\ w <= cu => w \in Said(fs) \cup go
  <2>1. \A w \in Words : to < w => s < w
    BY <1>1
  <2> QED BY <2>1 DEF Covered
<1>8. \A w \in Raw(s, to) : w \in Said(fs) \cup go \/ w \in T
  <2> SUFFICES ASSUME NEW w \in Raw(s, to), w \notin T PROVE w \in Said(fs) \cup go
    OBVIOUS
  <2>1. w \in Words /\ s < w /\ w <= cu
    BY <1>1, <1>2 DEF Raw
  <2> QED BY <2>1 DEF Covered
<1>9. Covered(fs, kept \cup T, cu, go \cup (co \ kept), to, h \cup Raw(s, to))
  <2>1. \A w \in Words : to < w /\ w <= cu => w \in Said(fs) \cup (go \cup (co \ kept))
    BY <1>7
  <2>2. h \subseteq Said(fs) \cup co \cup go
    BY DEF Covered
  <2>3. h \cup Raw(s, to) \subseteq Said(fs) \cup (kept \cup T) \cup (go \cup (co \ kept))
    BY <1>8, <2>2
  <2> QED BY <2>1, <2>3 DEF Covered
<1>10. Seen(kept \cup T, kept \cup T, cu, to)
  <2>1. \A x, y \in kept \cup T, w \in Words : x <= w /\ w <= y => w \in kept \cup T
    <3> SUFFICES ASSUME NEW x \in kept \cup T, NEW y \in kept \cup T, NEW w \in Words,
                        x <= w, w <= y PROVE w \in kept \cup T
      OBVIOUS
    <3>1. y <= to /\ y \in Nat /\ w \in Nat
      BY <1>1, <1>4
    <3>2. w <= to
      BY <1>1, <3>1
    <3> QED BY <1>5, <3>2
  <2>2. \A y \in kept \cup T, w \in Words : ~(to < w /\ w <= y)
    BY <1>1, <1>4
  <2>3. \A w \in kept \cup T : cu < w
    BY <1>4
  <2> QED BY <2>1, <2>2, <2>3 DEF Seen
<1> QED BY <1>6, <1>9, <1>10

\* A stable result that begins in what is final and is dropped.
LEMMA ResultDropped ==
    ASSUME NEW fs \in Seq(Texts), NEW cu \in 0 .. MaxWords,
           NEW s \in 0 .. MaxWords, NEW to \in 0 .. MaxWords,
           NEW la \in SUBSET Words, NEW lf \in SUBSET Words, NEW go \in SUBSET Words,
           NEW h \in SUBSET Words, s <= to,
           Based({}, cu, lf, s), Covered(fs, {}, cu, go, s, h), Seen({}, la, cu, s)
    PROVE /\ Based({}, cu, lf, to)
          /\ Covered(fs, {}, cu, go \cup Raw(s, to), to, h \cup Raw(s, to))
          /\ Seen({}, la, cu, to)
<1>1. s \in Nat /\ to \in Nat /\ \A w \in Words : w \in Nat
  BY WordsAreNumbers
<1>2. \A w \in Words : to < w => s < w
  BY <1>1
<1>3. Based({}, cu, lf, to)
  BY DEF Based
<1>4. Covered(fs, {}, cu, go \cup Raw(s, to), to, h \cup Raw(s, to))
  BY <1>2 DEF Covered
<1>5. Seen({}, la, cu, to)
  BY <1>2 DEF Seen
<1> QED BY <1>3, <1>4, <1>5

\* An interim result behind what is committed is shown with it.
LEMMA ResultShows ==
    ASSUME NEW cu \in 0 .. MaxWords, NEW s \in 0 .. MaxWords, NEW to \in 0 .. MaxWords,
           NEW co \in SUBSET Words, NEW lf \in SUBSET Words,
           Based(co, cu, lf, s), NEW T, T = After(s, to, cu)
    PROVE Seen(co, co \cup T, cu, s)
<1>1. s \in Nat /\ to \in Nat /\ cu \in Nat /\ \A w \in Words : w \in Nat
  BY WordsAreNumbers
<1>2. T \in SUBSET Words /\ \A w \in Words : w \in T <=> s < w /\ w <= to /\ cu < w
  BY DEF After, Raw
<1>3. \A w \in co : w \in Nat /\ cu < w /\ w <= s
  BY <1>1 DEF Based
<1>4. ASSUME NEW x \in co \cup T, NEW y \in co \cup T, NEW w \in Words, x <= w, w <= y
      PROVE w \in co \cup T
  <2>1. /\ x \in Nat /\ y \in Nat /\ w \in Nat /\ cu < x
        /\ y \in T => y <= to
        /\ y \in co => y <= s
    BY <1>1, <1>2, <1>3, <1>4
  <2>2. CASE x \in co /\ w <= s
    BY <1>4, <2>2 DEF Based
  <2>3. CASE ~(x \in co /\ w <= s)
    <3>1. s < w
      <4>1. x \in T => s < x
        BY <1>2
      <4> QED BY <1>1, <1>4, <2>1, <2>3, <4>1
    <3>2. y \in T /\ cu < w
      BY <1>1, <1>4, <2>1, <3>1
    <3>3. w <= to
      BY <1>1, <1>4, <2>1, <3>2
    <3> QED BY <1>2, <3>1, <3>2, <3>3
  <2> QED BY <2>2, <2>3
<1>5. ASSUME NEW y \in co \cup T, NEW w \in Words, s < w, cu < w, w <= y PROVE w \in co \cup T
  <2>1. y \in Nat /\ w \in Nat /\ y \in T /\ y <= to
    BY <1>1, <1>2, <1>3, <1>5
  <2>2. w <= to
    BY <1>1, <1>5, <2>1
  <2> QED BY <1>2, <1>5, <2>2
<1>6. \A w \in co \cup T : cu < w
  BY <1>2, <1>3
<1> QED BY <1>4, <1>5, <1>6 DEF Seen

\* What is committed may be shown as it is.
LEMMA CommittedIsSeen ==
    ASSUME NEW cu \in 0 .. MaxWords, NEW s \in 0 .. MaxWords, NEW co \in SUBSET Words,
           NEW lf \in SUBSET Words, Based(co, cu, lf, s)
    PROVE Seen(co, co, cu, s)
<1>1. After(s, 0, cu) = {}
  <2>1. s \in Nat /\ \A w \in Words : w \in Nat
    BY WordsAreNumbers
  <2> QED BY <2>1 DEF After, Raw
<1>2. 0 \in 0 .. MaxWords
  BY WordsAreNumbers
<1>3. Seen(co, co \cup After(s, 0, cu), cu, s)
  BY <1>2, ResultShows
<1> QED BY <1>1, <1>3

-----------------------------------------------------------------------------
(* The steps of the assembly *)

\* Two assemblies with the same text.
SameText(a, b) ==
    /\ b.committed = a.committed /\ b.latest = a.latest
    /\ b.cutoff = a.cutoff /\ b.lastFinal = a.lastFinal
    /\ b.finals = a.finals /\ b.gone = a.gone

LEMMA SameTextKeeps ==
    ASSUME NEW a, NEW b, NEW s, NEW h, SameText(a, b)
    PROVE /\ Base(a, s, h) => Base(b, s, h)
          /\ Whole(a, s, h) => Whole(b, s, h)
<1>1. Base(a, s, h) => Base(b, s, h)
  BY DEF SameText, Base
<1> QED BY <1>1 DEF SameText, Whole

LEMMA FieldsOf ==
    ASSUME NEW a \in Assembly
    PROVE /\ a.committed \in SUBSET Words /\ a.latest \in SUBSET Words
          /\ a.lastFinal \in SUBSET Words /\ a.gone \in SUBSET Words
          /\ a.active \in 0 .. MaxWords /\ a.cutoff \in 0 .. MaxWords /\ a.at \in 0 .. MaxWords
          /\ a.held \in BOOLEAN /\ a.timer \in BOOLEAN /\ a.watchdog \in BOOLEAN
          /\ a.pending \in {"no", "hard", "stop"}
          /\ a.finals \in Seq(Texts)
BY DEF Assembly

LEMMA AcknowledgedIs ==
    ASSUME NEW a \in Assembly, a.timer = a.held
    PROVE /\ Acknowledged(a) \in Assembly /\ SameText(a, Acknowledged(a))
          /\ Timed(Acknowledged(a)) /\ Acknowledged(a).held = a.held
<1>1. 0 \in 0 .. MaxWords
  BY WordsAreNumbers
<1>2. Acknowledged(a) \in Assembly
  BY <1>1 DEF Assembly, Acknowledged
<1>3. SameText(a, Acknowledged(a))
  BY DEF Assembly, Acknowledged, SameText
<1>4. /\ Acknowledged(a).watchdog = FALSE
      /\ Acknowledged(a).timer = a.timer /\ Acknowledged(a).held = a.held
  BY DEF Assembly, Acknowledged
<1> QED BY <1>2, <1>3, <1>4 DEF Timed

LEMMA UnheldIs ==
    ASSUME NEW a \in Assembly, a.watchdog => a.pending # "no"
    PROVE /\ Unheld(a) \in Assembly /\ SameText(a, Unheld(a))
          /\ Timed(Unheld(a))
<1>1. Unheld(a) \in Assembly
  BY DEF Assembly, Unheld
<1>2. SameText(a, Unheld(a))
  BY DEF Assembly, Unheld, SameText
<1>3. /\ Unheld(a).held = FALSE /\ Unheld(a).timer = FALSE
      /\ Unheld(a).watchdog = a.watchdog /\ Unheld(a).pending = a.pending
  BY DEF Assembly, Unheld
<1> QED BY <1>1, <1>2, <1>3 DEF Timed

LEMMA HeldIs ==
    ASSUME NEW a \in Assembly, a.watchdog => a.pending # "no"
    PROVE /\ Held(a) \in Assembly /\ SameText(a, Held(a))
          /\ Timed(Held(a))
<1>1. Held(a) \in Assembly
  BY DEF Assembly, Held
<1>2. SameText(a, Held(a))
  BY DEF Assembly, Held, SameText
<1>3. /\ Held(a).held = TRUE /\ Held(a).timer = TRUE
      /\ Held(a).watchdog = a.watchdog /\ Held(a).pending = a.pending
  BY DEF Assembly, Held
<1> QED BY <1>1, <1>2, <1>3 DEF Timed

\* The text of a final has all that is committed.
LEMMA PromotedIs ==
    ASSUME NEW a \in Assembly, NEW interim \in BOOLEAN,
           interim => a.committed \subseteq a.latest,
           NEW T, T = Promoted(a, interim)
    PROVE /\ T \in SUBSET Words
          /\ T = a.committed \/ (interim /\ T = a.latest)
          /\ a.committed \subseteq T
          /\ interim => a.latest \subseteq T
<1>1. T = a.committed \/ (interim /\ T = a.latest)
  BY DEF Promoted
<1>2. a.committed \in SUBSET Words /\ a.latest \in SUBSET Words
  BY FieldsOf
<1>3. ASSUME interim, NEW w \in a.latest PROVE w \in T
  <2>1. End(a.latest) >= End(a.committed)
    <3>1. /\ End(a.latest) \in Nat /\ End(a.committed) \in Nat
          /\ \A x \in a.latest : x <= End(a.latest)
      <4>1. \A n \in 0 .. MaxWords : n \in Nat
        BY WordsAreNumbers
      <4>2. End(a.latest) \in 0 .. MaxWords /\ \A x \in a.latest : x <= End(a.latest)
        BY <1>2, EndIs
      <4>3. End(a.committed) \in 0 .. MaxWords
        BY <1>2, EndIs
      <4> QED BY <4>1, <4>2, <4>3
    <3>2. CASE a.committed = {}
      <4>1. End(a.committed) = 0
        BY <3>2 DEF End
      <4> QED BY <3>1, <4>1
    <3>3. CASE a.committed # {}
      <4>1. End(a.committed) \in a.latest
        BY <1>2, <1>3, <3>3, EndIs
      <4> QED BY <3>1, <4>1
    <3> QED BY <3>2, <3>3
  <2> QED BY <1>3, <2>1 DEF Promoted
<1> QED BY <1>1, <1>2, <1>3

\* What _flush_final leaves of a, with T the text of the final.
Flushed(a, T, b) ==
    /\ b.committed = {} /\ b.latest = {} /\ b.gone = a.gone
    /\ ~b.held /\ ~b.timer /\ ~b.watchdog /\ b.pending = "no"
    /\ T = {} => b.finals = a.finals /\ b.cutoff = a.cutoff /\ b.lastFinal = a.lastFinal
    /\ T # {} => /\ b.finals = Append(a.finals, T)
                 /\ b.cutoff = Max({a.cutoff, End(T)})
                 /\ b.lastFinal = T

LEMMA FlushIs ==
    ASSUME NEW a \in Assembly, NEW interim \in BOOLEAN,
           interim => a.committed \subseteq a.latest,
           NEW T, T = Promoted(a, interim), NEW b, b = Flush(a, interim)
    PROVE /\ b \in Assembly
          /\ Flushed(a, T, b)
<1>1. PICK fs, cu, lf : /\ fs = IF T = {} THEN a.finals ELSE Append(a.finals, T)
                        /\ cu = IF T = {} THEN a.cutoff ELSE Max({a.cutoff, End(T)})
                        /\ lf = IF T = {} THEN a.lastFinal ELSE T
  OBVIOUS
<1>2. T \in SUBSET Words
  BY PromotedIs
<1>3. fs \in Seq(Texts) /\ cu \in 0 .. MaxWords /\ lf \in SUBSET Words
  <2>1. CASE T = {}
    BY <1>1, <2>1, FieldsOf
  <2>2. CASE T # {}
    <3>1. Append(a.finals, T) \in Seq(Texts)
      BY <1>2, <2>2, FieldsOf, SaidAppend
    <3>2. Max({a.cutoff, End(T)}) \in 0 .. MaxWords
      <4>1. a.cutoff \in 0 .. MaxWords /\ End(T) \in 0 .. MaxWords
        BY <1>2, FieldsOf, EndIs
      <4> QED BY <4>1, MaxOfTwo
    <3> QED BY <1>1, <1>2, <2>2, <3>1, <3>2
  <2> QED BY <2>1, <2>2
<1>4. PICK c : c = [a EXCEPT !.committed = {}, !.latest = {}, !.active = 0,
                             !.finals = fs, !.cutoff = cu, !.lastFinal = lf]
  OBVIOUS
<1>5. 0 \in 0 .. MaxWords
  BY WordsAreNumbers
<1>6. c \in Assembly
  BY <1>3, <1>4, <1>5 DEF Assembly
<1>7. /\ c.committed = {} /\ c.latest = {} /\ c.gone = a.gone
      /\ c.finals = fs /\ c.cutoff = cu /\ c.lastFinal = lf
  BY <1>4 DEF Assembly
<1>8. b = Acknowledged(Unheld(c))
  BY <1>1, <1>4 DEF Flush, Assembly
<1>9. /\ b \in Assembly
      /\ b.committed = {} /\ b.latest = {} /\ b.gone = a.gone
      /\ b.finals = fs /\ b.cutoff = cu /\ b.lastFinal = lf
      /\ b.held = FALSE /\ b.timer = FALSE /\ b.watchdog = FALSE /\ b.pending = "no"
  <2>1. PICK d : d = Unheld(c)
    OBVIOUS
  <2>2. /\ d \in Assembly
        /\ d.committed = {} /\ d.latest = {} /\ d.gone = a.gone
        /\ d.finals = fs /\ d.cutoff = cu /\ d.lastFinal = lf
        /\ d.held = FALSE /\ d.timer = FALSE
    BY <1>6, <1>7, <2>1 DEF Unheld, Assembly
  <2>3. b = Acknowledged(d)
    BY <1>8, <2>1
  <2> QED BY <1>5, <2>2, <2>3 DEF Acknowledged, Assembly
<1>10. T = {} => fs = a.finals /\ cu = a.cutoff /\ lf = a.lastFinal
  BY <1>1
<1>11. T # {} => fs = Append(a.finals, T) /\ cu = Max({a.cutoff, End(T)}) /\ lf = T
  BY <1>1
<1> QED BY <1>9, <1>10, <1>11 DEF Flushed

LEMMA FlushKeeps ==
    ASSUME NEW a \in Assembly, NEW interim \in BOOLEAN,
           NEW s \in 0 .. MaxWords, NEW h \in SUBSET Words,
           Base(a, s, h), interim => Whole(a, s, h)
    PROVE /\ Flush(a, interim) \in Assembly
          /\ Whole(Flush(a, interim), s, h)
          /\ Timed(Flush(a, interim))
<1>1. interim => a.committed \subseteq a.latest
  BY DEF Whole, Seen
<1>2. PICK T, b : T = Promoted(a, interim) /\ b = Flush(a, interim)
  OBVIOUS
<1>3. /\ T \in SUBSET Words
      /\ T = a.committed \/ (interim /\ T = a.latest)
      /\ a.committed \subseteq T
  BY <1>1, <1>2, PromotedIs
<1>4. /\ b \in Assembly
      /\ b.committed = {} /\ b.latest = {} /\ b.gone = a.gone
      /\ ~b.held /\ ~b.timer /\ ~b.watchdog
      /\ T = {} => b.finals = a.finals /\ b.cutoff = a.cutoff /\ b.lastFinal = a.lastFinal
      /\ T # {} => /\ b.finals = Append(a.finals, T)
                   /\ b.cutoff = Max({a.cutoff, End(T)})
                   /\ b.lastFinal = T
  <2>1. b \in Assembly /\ Flushed(a, T, b)
    BY <1>1, <1>2, FlushIs
  <2> QED BY <2>1, Zenon DEF Flushed
<1>5. /\ a.finals \in Seq(Texts) /\ a.cutoff \in 0 .. MaxWords
      /\ a.committed \in SUBSET Words /\ a.lastFinal \in SUBSET Words /\ a.gone \in SUBSET Words
  BY FieldsOf
<1>6. Timed(b)
  <2>1. b.held \in BOOLEAN /\ b.timer \in BOOLEAN
    BY <1>4, FieldsOf
  <2> QED BY <1>4, <2>1 DEF Timed
<1>7. CASE T = {}
  <2>1. a.committed = {}
    BY <1>3, <1>7
  <2>2. Parted(b.finals, b.cutoff)
    BY <1>4, <1>7 DEF Base
  <2>3. Based(b.committed, b.cutoff, b.lastFinal, s)
    BY <1>4, <1>7, <2>1 DEF Base
  <2>4. Covered(b.finals, b.committed, b.cutoff, b.gone, s, h)
    BY <1>4, <1>7, <2>1 DEF Base
  <2>5. Seen(b.committed, b.latest, b.cutoff, s)
    BY <1>4 DEF Seen
  <2>6. Whole(b, s, h)
    BY <2>2, <2>3, <2>4, <2>5 DEF Whole, Base
  <2> QED BY <1>2, <1>4, <1>6, <2>6
<1>8. CASE T # {}
  <2>1. T = a.committed \/ Seen(a.committed, T, a.cutoff, s)
    BY <1>3 DEF Whole
  <2>2. /\ a.cutoff < End(T)
        /\ Parted(Append(a.finals, T), End(T))
        /\ Based({}, End(T), T, s)
        /\ Covered(Append(a.finals, T), {}, End(T), a.gone, s, h)
        /\ Seen({}, {}, End(T), s)
    <3>1. /\ Parted(a.finals, a.cutoff)
          /\ Based(a.committed, a.cutoff, a.lastFinal, s)
          /\ Covered(a.finals, a.committed, a.cutoff, a.gone, s, h)
      BY DEF Base
    <3> QED BY <1>3, <1>5, <1>8, <2>1, <3>1, FinalLeaves
  <2>3. Max({a.cutoff, End(T)}) = End(T)
    <3>1. PICK e : e = End(T)
      OBVIOUS
    <3>2. e \in 0 .. MaxWords /\ a.cutoff < e
      BY <1>3, <2>2, <3>1, EndIs
    <3>3. a.cutoff <= e
      BY <1>5, <3>2, WordsAreNumbers
    <3>4. Max({a.cutoff, e}) = e
      BY <1>5, <3>2, <3>3, MaxOfTwo
    <3> QED BY <3>1, <3>4
  <2>4. /\ b.finals = Append(a.finals, T) /\ b.cutoff = End(T) /\ b.lastFinal = T
    BY <1>4, <1>8, <2>3
  <2>5. Whole(b, s, h)
    BY <1>4, <2>2, <2>4 DEF Whole, Base
  <2> QED BY <1>2, <1>4, <1>6, <2>5
<1> QED BY <1>7, <1>8

LEMMA ShownKeeps ==
    ASSUME NEW a \in Assembly, NEW text \in SUBSET Words,
           NEW s \in 0 .. MaxWords, NEW h \in SUBSET Words,
           Base(a, s, h), Timed(a), Seen(a.committed, a.committed \cup text, a.cutoff, s)
    PROVE /\ Shown(a, text) \in Assembly
          /\ Whole(Shown(a, text), s, h)
          /\ Timed(Shown(a, text))
<1>1. PICK b : b = Shown(a, text)
  OBVIOUS
<1>2. /\ b.committed = a.committed /\ b.latest = a.committed \cup text
      /\ b.cutoff = a.cutoff /\ b.lastFinal = a.lastFinal
      /\ b.finals = a.finals /\ b.gone = a.gone
      /\ b.held = a.held /\ b.timer = a.timer
      /\ b.watchdog = a.watchdog /\ b.pending = a.pending
  BY <1>1 DEF Shown, Assembly
<1>3. b \in Assembly
  <2>1. a.committed \cup text \in SUBSET Words
    BY FieldsOf
  <2> QED BY <1>1, <2>1 DEF Shown, Assembly
<1>4. Whole(b, s, h)
  BY <1>2 DEF Whole, Base
<1>5. Timed(b)
  BY <1>2 DEF Timed
<1> QED BY <1>1, <1>3, <1>4, <1>5

\* A stable result that is committed: an utterance ends, waits or is shown.
LEMMA StableKeeps ==
    ASSUME NEW a \in Assembly, NEW text \in SUBSET Words,
           NEW s \in 0 .. MaxWords, NEW h \in SUBSET Words, Timed(a),
           NEW b, b = [a EXCEPT !.committed = @ \cup text], Base(b, s, h),
           NEW hard, NEW speechFinal, NEW stop,
           NEW c, c = Stable(a, text, hard, speechFinal, stop)
    PROVE c \in Assembly /\ Whole(c, s, h) /\ Timed(c)
<1>1. c \in {Flush(b, FALSE), Shown(Held(b), {}), Shown(b, {})}
  <2>1. PICK limit : limit = (hard \/ Span(b.committed) >= HardLimit)
    OBVIOUS
  <2>2. PICK whole : whole = ~Incomplete(b.committed)
    OBVIOUS
  <2>3. c = IF (limit \/ speechFinal) /\ ~whole THEN Shown(Held(b), {})
            ELSE IF limit \/ speechFinal \/ End(b.committed) \in Closing \/ stop
            THEN Flush(b, FALSE)
            ELSE Shown(b, {})
    BY <2>1, <2>2 DEF Stable
  <2> QED BY <2>3
<1>2. b \in Assembly /\ Timed(b)
  <2>1. a.committed \cup text \in SUBSET Words
    BY FieldsOf
  <2>2. b \in Assembly
    BY <2>1 DEF Assembly
  <2>3. /\ b.held = a.held /\ b.timer = a.timer
        /\ b.watchdog = a.watchdog /\ b.pending = a.pending
    BY DEF Assembly
  <2>4. Timed(b)
    BY <2>3 DEF Timed
  <2> QED BY <2>2, <2>4
<1>3. CASE c = Flush(b, FALSE)
  BY <1>2, <1>3, FlushKeeps
<1>4. /\ {} \in SUBSET Words
      /\ Seen(b.committed, b.committed \cup {}, b.cutoff, s)
  <2>1. Seen(b.committed, b.committed, b.cutoff, s)
    BY <1>2, FieldsOf, CommittedIsSeen DEF Base
  <2>2. b.committed \cup {} = b.committed
    OBVIOUS
  <2> QED BY <2>1, <2>2
<1>5. CASE c = Shown(b, {})
  BY <1>2, <1>4, <1>5, ShownKeeps
<1>6. CASE c = Shown(Held(b), {})
  <2>1. PICK d : d = Held(b)
    OBVIOUS
  <2>2. d \in Assembly /\ SameText(b, d) /\ Timed(d)
    BY <1>2, <2>1, HeldIs DEF Timed
  <2>3. Base(d, s, h)
    BY <2>2, SameTextKeeps
  <2>4. Seen(d.committed, d.committed \cup {}, d.cutoff, s)
    BY <1>4, <2>2 DEF SameText
  <2> QED BY <1>4, <1>6, <2>1, <2>2, <2>3, <2>4, ShownKeeps
<1> QED BY <1>1, <1>3, <1>5, <1>6

\* A stable result that is taken, behind a candidate or in its place.
LEMMA TakenKeeps ==
    ASSUME NEW a \in Assembly, NEW s \in 0 .. MaxWords, NEW to \in 0 .. MaxWords, s <= to,
           NEW h \in SUBSET Words, Base(a, s, h), Timed(a),
           NEW text, text = After(s, to, a.cutoff), text # {},
           NEW d, d \in {a, Replaced(a, text)},
           NEW hard, NEW speechFinal, NEW stop,
           NEW c, c = Stable(Unheld(d), text, hard, speechFinal, stop)
    PROVE c \in Assembly /\ Whole(c, to, h \cup Raw(s, to)) /\ Timed(c)
<1>1. text \in SUBSET Words
  BY DEF After, Raw
<1>2. PICK kept \in {a.committed, {}} :
         /\ d.committed = kept /\ d.gone = a.gone \cup (a.committed \ kept)
         /\ d.cutoff = a.cutoff /\ d.lastFinal = a.lastFinal /\ d.finals = a.finals
         /\ d.watchdog = a.watchdog /\ d.pending = a.pending
         /\ d \in Assembly
  <2>1. CASE d = a
    <3>1. a.gone = a.gone \cup (a.committed \ a.committed)
      OBVIOUS
    <3> QED BY <2>1, <3>1
  <2>2. CASE d = Replaced(a, text)
    <3>1. Min(text) \in 0 .. MaxWords
      <4>1. \A w \in Words : w \in 0 .. MaxWords
        BY WordsAreNumbers
      <4>2. Min(text) \in Words
        BY <1>1, MinIs
      <4> QED BY <4>1, <4>2
    <3>2. a.gone \cup a.committed \in SUBSET Words
      BY FieldsOf
    <3>3. d \in Assembly
      BY <2>2, <3>1, <3>2 DEF Replaced, Assembly
    <3>4. /\ d.committed = {} /\ d.gone = a.gone \cup a.committed
          /\ d.cutoff = a.cutoff /\ d.lastFinal = a.lastFinal /\ d.finals = a.finals
          /\ d.watchdog = a.watchdog /\ d.pending = a.pending
      BY <2>2 DEF Replaced, Assembly
    <3>5. a.committed \ {} = a.committed
      OBVIOUS
    <3> QED BY <3>3, <3>4, <3>5
  <2> QED BY <2>1, <2>2
<1>3. PICK e : e = Unheld(d)
  OBVIOUS
<1>4. e \in Assembly /\ SameText(d, e) /\ Timed(e)
  BY <1>2, <1>3, UnheldIs DEF Timed
<1>5. PICK b : b = [e EXCEPT !.committed = @ \cup text]
  OBVIOUS
<1>6. /\ b.committed = kept \cup text /\ b.gone = a.gone \cup (a.committed \ kept)
      /\ b.cutoff = a.cutoff /\ b.lastFinal = a.lastFinal /\ b.finals = a.finals
  <2>1. /\ b.committed = e.committed \cup text /\ b.gone = e.gone
        /\ b.cutoff = e.cutoff /\ b.lastFinal = e.lastFinal /\ b.finals = e.finals
    BY <1>4, <1>5 DEF Assembly
  <2> QED BY <1>2, <1>4, <2>1 DEF SameText
<1>7. /\ Based(kept \cup text, a.cutoff, a.lastFinal, to)
      /\ Covered(a.finals, kept \cup text, a.cutoff, a.gone \cup (a.committed \ kept),
                 to, h \cup Raw(s, to))
  <2>1. /\ Based(a.committed, a.cutoff, a.lastFinal, s)
        /\ Covered(a.finals, a.committed, a.cutoff, a.gone, s, h)
    BY DEF Base
  <2>2. /\ a.finals \in Seq(Texts) /\ a.cutoff \in 0 .. MaxWords
        /\ a.committed \in SUBSET Words /\ a.lastFinal \in SUBSET Words
        /\ a.gone \in SUBSET Words
    BY FieldsOf
  <2> QED BY <2>1, <2>2, ResultCommits
<1>8. Base(b, to, h \cup Raw(s, to))
  <2>1. Parted(b.finals, b.cutoff)
    BY <1>6 DEF Base
  <2> QED BY <1>6, <1>7, <2>1 DEF Base
<1>9. h \cup Raw(s, to) \in SUBSET Words
  BY DEF Raw
<1>10. c = Stable(e, text, hard, speechFinal, stop)
  BY <1>3
<1> QED BY <1>1, <1>4, <1>5, <1>8, <1>9, <1>10, StableKeeps

Results ==
    [text : SUBSET Words, to : 0 .. MaxWords, fromFinalize : BOOLEAN,
     final : BOOLEAN, speechFinal : BOOLEAN, timed : BOOLEAN]

\* What a result makes of the assembly: b is a after the acknowledgement of the
\* request, c is b in an utterance.
HandledAs(b, c, text, r, e) ==
    \/ r.text = {} /\ (e = b \/ e = Flush(b, TRUE))
    \/ /\ r.text # {} /\ text = {}
       /\ e = [b EXCEPT !.gone = IF r.final THEN @ \cup r.text ELSE @]
    \/ /\ r.text # {} /\ text # {} /\ r.final
       /\ \E hard, stop : \E d \in {c, Replaced(c, text)} :
             e = Stable(Unheld(d), text, hard, r.speechFinal, stop)
    \/ /\ r.text # {} /\ text # {} /\ ~r.final
       /\ e = Shown(c, text) \/ e = Flush(Shown(c, text), TRUE)

LEMMA HandledCases ==
    ASSUME NEW a \in Assembly, Timed(a), NEW r \in Results, NEW replaces \in BOOLEAN,
           NEW e, e = Handled(a, r, replaces)
    PROVE \E b, c :
             /\ b \in Assembly /\ SameText(a, b) /\ Timed(b)
             /\ Remainder(b, r.text, r.timed) # {} => c \in Assembly /\ SameText(b, c) /\ Timed(c)
             /\ HandledAs(b, c, Remainder(b, r.text, r.timed), r, e)
<1> DEFINE acks == r.fromFinalize \/ (r.final /\ r.to >= a.at)
           reason == IF acks THEN a.pending ELSE "no"
           b == IF acks /\ a.pending # "no" THEN Acknowledged(a) ELSE a
           forced == reason \in {"hard", "stop"}
           text == Remainder(b, r.text, r.timed)
           c == [b EXCEPT !.active = IF @ = 0 \/ @ > Min(text) THEN Min(text) ELSE @]
           hard == reason = "hard"
           stop == reason = "stop"
           d == IF c.held /\ replaces THEN Replaced(c, text) ELSE c
<1>1. e = IF r.text = {}
          THEN IF forced \/ r.speechFinal THEN Flush(b, TRUE) ELSE b
          ELSE IF text = {}
          THEN [b EXCEPT !.gone = IF r.final THEN @ \cup r.text ELSE @]
          ELSE IF r.final
          THEN Stable(Unheld(d), text, hard, r.speechFinal, stop)
          ELSE IF forced THEN Flush(Shown(c, text), TRUE) ELSE Shown(c, text)
  BY DEF Handled
<1>2. d \in {c, Replaced(c, text)}
  OBVIOUS
<1>3. b = Acknowledged(a) \/ b = a
  OBVIOUS
<1>4. c = [b EXCEPT !.active = IF @ = 0 \/ @ > Min(text) THEN Min(text) ELSE @]
  OBVIOUS
<1> HIDE DEF acks, reason, b, forced, text, c, hard, stop, d
<1>9. b \in Assembly /\ SameText(a, b) /\ Timed(b)
  <2>1. SameText(a, a)
    BY DEF SameText
  <2>2. Acknowledged(a) \in Assembly /\ SameText(a, Acknowledged(a)) /\ Timed(Acknowledged(a))
    BY AcknowledgedIs DEF Timed
  <2> QED BY <1>3, <2>1, <2>2
<1>10. ASSUME text # {} PROVE c \in Assembly /\ SameText(b, c) /\ Timed(c)
  <2>1. Min(text) \in 0 .. MaxWords
    <3>0. text \in SUBSET Words
      BY DEF text, Remainder, Results
    <3>1. Min(text) \in Words
      BY <1>10, <3>0, MinIs
    <3>2. \A w \in Words : w \in 0 .. MaxWords
      BY WordsAreNumbers
    <3> QED BY <3>1, <3>2
  <2>2. PICK n : n = IF b.active = 0 \/ b.active > Min(text) THEN Min(text) ELSE b.active
    OBVIOUS
  <2>3. n \in 0 .. MaxWords
    BY <1>9, <2>1, <2>2, FieldsOf
  <2>4. c = [b EXCEPT !.active = n]
    BY <1>4, <2>2
  <2>5. c \in Assembly
    BY <1>9, <2>3, <2>4 DEF Assembly
  <2>6. SameText(b, c)
    BY <1>9, <2>4 DEF Assembly, SameText
  <2>7. Timed(c)
    BY <1>9, <2>4 DEF Assembly, Timed
  <2> QED BY <2>5, <2>6, <2>7
<1>11. HandledAs(b, c, text, r, e)
  <2>1. CASE r.text = {}
    BY <1>1, <2>1 DEF HandledAs
  <2>2. CASE r.text # {} /\ text = {}
    BY <1>1, <2>2 DEF HandledAs
  <2>3. CASE r.text # {} /\ text # {} /\ r.final
    <3>1. e = Stable(Unheld(d), text, hard, r.speechFinal, stop)
      BY <1>1, <2>3, Zenon
    <3>2. \E g, k : \E v \in {c, Replaced(c, text)} :
             e = Stable(Unheld(v), text, g, r.speechFinal, k)
      BY <1>2, <3>1, Zenon
    <3> QED BY <2>3, <3>2, Zenon DEF HandledAs
  <2>4. CASE r.text # {} /\ text # {} /\ ~r.final
    BY <1>1, <2>4 DEF HandledAs
  <2> QED BY <2>1, <2>2, <2>3, <2>4
<1>12. text = Remainder(b, r.text, r.timed)
  BY DEF text
<1>13. HandledAs(b, c, Remainder(b, r.text, r.timed), r, e)
  BY <1>11, <1>12
<1>14. Remainder(b, r.text, r.timed) # {} => c \in Assembly /\ SameText(b, c) /\ Timed(c)
  BY <1>10, <1>12
<1>15. PICK v : v = b
  OBVIOUS
<1>16. PICK u : u = c
  OBVIOUS
<1>17. v \in Assembly /\ SameText(a, v) /\ Timed(v)
  BY <1>9, <1>15, Zenon
<1>18. Remainder(v, r.text, r.timed) # {} => u \in Assembly /\ SameText(v, u) /\ Timed(u)
  BY <1>14, <1>15, <1>16, Zenon
<1>19. HandledAs(v, u, Remainder(v, r.text, r.timed), r, e)
  BY <1>13, <1>15, <1>16, Zenon
<1> QED BY <1>17, <1>18, <1>19

\* A message is handled: the provider has said all up to its end if it is stable.
LEMMA HandledKeeps ==
    ASSUME NEW a \in Assembly, Timed(a), NEW r \in Results, NEW replaces \in BOOLEAN,
           NEW s \in 0 .. MaxWords, NEW h \in SUBSET Words, Whole(a, s, h),
           s <= r.to, r.text = Raw(s, r.to),
           NEW t, t = IF r.final THEN r.to ELSE s,
           NEW k, k = IF r.final THEN h \cup r.text ELSE h,
           NEW e, e = Handled(a, r, replaces)
    PROVE e \in Assembly /\ Timed(e) /\ Whole(e, t, k)
<1>1. PICK b, c :
         /\ b \in Assembly /\ SameText(a, b) /\ Timed(b)
         /\ Remainder(b, r.text, r.timed) # {} => c \in Assembly /\ SameText(b, c) /\ Timed(c)
         /\ HandledAs(b, c, Remainder(b, r.text, r.timed), r, e)
  BY HandledCases, Zenon
<1>2. PICK text, to : text = Remainder(b, r.text, r.timed) /\ to = r.to
  OBVIOUS
<1>3. /\ r.text = Raw(s, to) /\ to \in 0 .. MaxWords /\ s <= to
      /\ r.timed \in BOOLEAN /\ r.final \in BOOLEAN /\ r.speechFinal \in BOOLEAN
  BY <1>2 DEF Results
<1>4. Whole(b, s, h)
  BY <1>1, SameTextKeeps
<1>5. /\ Base(b, s, h) /\ Parted(b.finals, b.cutoff)
      /\ Based(b.committed, b.cutoff, b.lastFinal, s)
      /\ Covered(b.finals, b.committed, b.cutoff, b.gone, s, h)
      /\ Seen(b.committed, b.latest, b.cutoff, s)
  BY <1>4 DEF Whole, Base
<1>6. /\ b.finals \in Seq(Texts) /\ b.cutoff \in 0 .. MaxWords
      /\ b.committed \in SUBSET Words /\ b.latest \in SUBSET Words
      /\ b.lastFinal \in SUBSET Words /\ b.gone \in SUBSET Words
  BY <1>1, FieldsOf
<1>7. Raw(s, to) \in SUBSET Words
  BY DEF Raw
<1>8. r.text # {} =>
         /\ text \in SUBSET Words
         /\ text # {} => text = After(s, to, b.cutoff)
         /\ text = {} => b.committed = {}
  BY <1>1, <1>2, <1>3, <1>5, RemainderIs
<1>9. HandledAs(b, c, text, r, e)
  BY <1>1, <1>2
<1>10. text # {} => c \in Assembly /\ SameText(b, c) /\ Timed(c)
  BY <1>1, <1>2
<1>11. CASE r.text = {}
  <2>1. to = s
    <3>1. s \in Nat /\ to \in Nat /\ to <= MaxWords /\ MaxWords \in Nat
      BY <1>3, WordsAreNumbers
    <3>2. to \notin Raw(s, to)
      BY <1>3, <1>11
    <3>3. ~(s < to)
      BY <3>1, <3>2 DEF Raw, Words
    <3> QED BY <1>3, <3>1, <3>3
  <2>2. t = s /\ k = h
    BY <1>2, <1>11, <2>1
  <2>3. e = b \/ e = Flush(b, TRUE)
    BY <1>9, <1>11 DEF HandledAs
  <2>4. /\ Flush(b, TRUE) \in Assembly /\ Whole(Flush(b, TRUE), s, h) /\ Timed(Flush(b, TRUE))
    BY <1>1, <1>4, <1>5, FlushKeeps
  <2> QED BY <1>1, <1>4, <2>2, <2>3, <2>4
<1>12. CASE r.text # {} /\ text = {}
  <2>1. e = [b EXCEPT !.gone = IF r.final THEN @ \cup r.text ELSE @]
    BY <1>9, <1>12 DEF HandledAs
  <2>2. PICK go : go = IF r.final THEN b.gone \cup r.text ELSE b.gone
    OBVIOUS
  <2>3. go \in SUBSET Words
    BY <1>3, <1>6, <1>7, <2>2
  <2>4. e = [b EXCEPT !.gone = go]
    BY <2>1, <2>2
  <2>5. e \in Assembly
    BY <1>1, <2>3, <2>4 DEF Assembly
  <2>6. /\ e.committed = {} /\ e.latest = b.latest /\ e.gone = go
        /\ e.cutoff = b.cutoff /\ e.lastFinal = b.lastFinal /\ e.finals = b.finals
        /\ e.held = b.held /\ e.timer = b.timer
        /\ e.watchdog = b.watchdog /\ e.pending = b.pending
    BY <1>1, <1>8, <1>12, <2>4 DEF Assembly
  <2>7. Timed(e)
    BY <1>1, <2>6 DEF Timed
  <2>8. b.committed = {}
    BY <1>8, <1>12
  <2>9. /\ Based({}, b.cutoff, b.lastFinal, s)
        /\ Covered(b.finals, {}, b.cutoff, b.gone, s, h)
        /\ Seen({}, b.latest, b.cutoff, s)
    BY <1>5, <2>8
  <2>10. /\ Based({}, b.cutoff, b.lastFinal, t)
         /\ Covered(b.finals, {}, b.cutoff, go, t, k)
         /\ Seen({}, b.latest, b.cutoff, t)
    <3>1. CASE r.final
      <4>1. t = to /\ k = h \cup Raw(s, to) /\ go = b.gone \cup Raw(s, to)
        BY <1>2, <1>3, <2>2, <3>1, Zenon
      <4>2. /\ Based({}, b.cutoff, b.lastFinal, to)
            /\ Covered(b.finals, {}, b.cutoff, b.gone \cup Raw(s, to), to, h \cup Raw(s, to))
            /\ Seen({}, b.latest, b.cutoff, to)
        BY <1>3, <1>6, <2>9, ResultDropped
      <4> QED BY <4>1, <4>2, Zenon
    <3>2. CASE ~r.final
      BY <2>2, <2>9, <3>2
    <3> QED BY <3>1, <3>2
  <2>11. Whole(e, t, k)
    BY <1>5, <2>6, <2>10 DEF Whole, Base
  <2> QED BY <2>5, <2>7, <2>11
<1>13. CASE r.text # {} /\ text # {} /\ r.final
  <2>1. PICK hard, stop : \E d \in {c, Replaced(c, text)} :
           e = Stable(Unheld(d), text, hard, r.speechFinal, stop)
    BY <1>9, <1>13 DEF HandledAs
  <2>4. PICK d \in {c, Replaced(c, text)} :
           e = Stable(Unheld(d), text, hard, r.speechFinal, stop)
    BY <2>1
  <2>2. text = After(s, to, c.cutoff) /\ Base(c, s, h) /\ c \in Assembly /\ Timed(c)
    <3>1. c.cutoff = b.cutoff
      BY <1>10, <1>13 DEF SameText
    <3> QED BY <1>5, <1>8, <1>10, <1>13, <3>1, SameTextKeeps
  <2>3. t = to /\ k = h \cup Raw(s, to)
    BY <1>2, <1>3, <1>13, Zenon
  <2>5. e \in Assembly /\ Whole(e, to, h \cup Raw(s, to)) /\ Timed(e)
    BY <1>3, <1>13, <2>2, <2>4, TakenKeeps
  <2> QED BY <2>3, <2>5, Zenon
<1>14. CASE r.text # {} /\ text # {} /\ ~r.final
  <2>1. e = Shown(c, text) \/ e = Flush(Shown(c, text), TRUE)
    BY <1>9, <1>14 DEF HandledAs
  <2>2. c \in Assembly /\ SameText(b, c) /\ Timed(c) /\ Base(c, s, h)
    BY <1>5, <1>10, <1>14, SameTextKeeps
  <2>3. text = After(s, to, b.cutoff) /\ text \in SUBSET Words
    BY <1>8, <1>14
  <2>4. Seen(b.committed, b.committed \cup text, b.cutoff, s)
    BY <1>3, <1>5, <1>6, <2>3, ResultShows
  <2>5. Seen(c.committed, c.committed \cup text, c.cutoff, s)
    BY <2>2, <2>4 DEF SameText
  <2>6. PICK v : v = Shown(c, text)
    OBVIOUS
  <2>7. v \in Assembly /\ Whole(v, s, h) /\ Timed(v)
    BY <2>2, <2>3, <2>5, <2>6, ShownKeeps
  <2>8. Flush(v, TRUE) \in Assembly /\ Whole(Flush(v, TRUE), s, h) /\ Timed(Flush(v, TRUE))
    BY <2>7, FlushKeeps DEF Whole
  <2>9. t = s /\ k = h
    BY <1>14
  <2> QED BY <2>1, <2>6, <2>7, <2>8, <2>9
<1> QED BY <1>11, <1>12, <1>13, <1>14

\* An UtteranceEnd holds what is not whole, and flushes what is.
LEMMA UtteranceEndedKeeps ==
    ASSUME NEW a \in Assembly, Timed(a), NEW s \in 0 .. MaxWords, NEW h \in SUBSET Words,
           Whole(a, s, h), NEW e, e = UtteranceEnded(a)
    PROVE e \in Assembly /\ Timed(e) /\ Whole(e, s, h)
<1>1. PICK T : T = Promoted(a, TRUE)
  OBVIOUS
<1>2. /\ Base(a, s, h) /\ Based(a.committed, a.cutoff, a.lastFinal, s)
      /\ Seen(a.committed, a.latest, a.cutoff, s)
  BY DEF Whole, Base
<1>3. T \in SUBSET Words /\ (T = a.committed \/ T = a.latest)
  <2>1. a.committed \subseteq a.latest
    BY <1>2 DEF Seen
  <2> QED BY <1>1, <2>1, PromotedIs
<1>4. e = IF Incomplete(T)
          THEN IF a.held THEN a ELSE [Held(a) EXCEPT !.latest = T]
          ELSE Flush(a, TRUE)
  BY <1>1 DEF UtteranceEnded
<1>5. CASE e = a
  BY <1>5
<1>6. CASE e = Flush(a, TRUE)
  BY <1>2, <1>6, FlushKeeps
<1>7. CASE e = [Held(a) EXCEPT !.latest = T]
  <2>1. PICK d : d = Held(a)
    OBVIOUS
  <2>2. d \in Assembly /\ SameText(a, d) /\ Timed(d)
    BY <2>1, HeldIs DEF Timed
  <2>3. e = [d EXCEPT !.latest = T]
    BY <1>7, <2>1
  <2>4. e \in Assembly
    BY <1>3, <2>2, <2>3 DEF Assembly
  <2>5. /\ e.committed = d.committed /\ e.latest = T /\ e.gone = d.gone
        /\ e.cutoff = d.cutoff /\ e.lastFinal = d.lastFinal /\ e.finals = d.finals
        /\ e.held = d.held /\ e.timer = d.timer
        /\ e.watchdog = d.watchdog /\ e.pending = d.pending
    BY <2>2, <2>3 DEF Assembly
  <2>6. Timed(e)
    BY <2>2, <2>5 DEF Timed
  <2>7. Seen(a.committed, T, a.cutoff, s)
    <3>1. Seen(a.committed, a.committed, a.cutoff, s)
      BY <1>2, FieldsOf, CommittedIsSeen
    <3> QED BY <1>2, <1>3, <3>1
  <2>8. Base(d, s, h)
    BY <1>2, <2>2, SameTextKeeps
  <2>9. Whole(e, s, h)
    BY <2>2, <2>5, <2>7, <2>8 DEF Whole, Base, SameText
  <2> QED BY <2>4, <2>6, <2>9
<1> QED BY <1>4, <1>5, <1>6, <1>7

\* A request for a final leaves the text.
LEMMA RequestedKeeps ==
    ASSUME NEW a \in Assembly, Timed(a), NEW s \in 0 .. MaxWords, NEW h \in SUBSET Words,
           Whole(a, s, h), sent \in 0 .. MaxWords, NEW reason \in {"hard", "stop"},
           NEW e, e = Requested(a, reason)
    PROVE /\ e \in Assembly /\ Timed(e) /\ Whole(e, s, h) /\ SameText(a, e)
          /\ e.held = a.held
<1>1. e \in Assembly
  BY DEF Assembly, Requested
<1>2. SameText(a, e)
  BY DEF Assembly, Requested, SameText
<1>3. /\ e.held = a.held /\ e.timer = a.timer /\ e.pending = reason
  BY DEF Assembly, Requested
<1>4. Timed(e)
  BY <1>3 DEF Timed
<1> QED BY <1>1, <1>2, <1>3, <1>4, SameTextKeeps

-----------------------------------------------------------------------------
(* The steps *)

LEMMA StreamInitHolds == StreamInit => StreamInv
<1> SUFFICES ASSUME StreamInit PROVE StreamInv
  OBVIOUS
<1>1. 0 \in 0 .. MaxWords
  BY WordsAreNumbers
<1>2. PICK f : f = <<>>
  OBVIOUS
<1>3. f \in Seq(Texts) /\ Len(f) = 0
  BY <1>2
<1>4. asm \in Assembly
  BY <1>1, <1>2, <1>3 DEF StreamInit, Fresh, Assembly
<1>5. Typed
  BY <1>1, <1>4 DEF StreamInit, Typed
<1>6. /\ asm.committed = {} /\ asm.latest = {} /\ asm.gone = {}
      /\ asm.cutoff = 0 /\ asm.lastFinal = {} /\ asm.finals = f
      /\ asm.held = FALSE /\ asm.timer = FALSE /\ asm.watchdog = FALSE
  BY <1>2 DEF StreamInit, Fresh
<1>7. Parted(f, 0)
  BY <1>3 DEF Parted
<1>8. Based({}, 0, {}, 0)
  BY DEF Based
<1>9. Covered(f, {}, 0, {}, 0, {})
  <2>1. \A w \in Words : ~(0 < w /\ w <= 0)
    BY WordsAreNumbers
  <2> QED BY <2>1 DEF Covered
<1>10. Seen({}, {}, 0, 0)
  BY DEF Seen
<1>11. Whole(asm, stable, heard)
  BY <1>6, <1>7, <1>8, <1>9, <1>10 DEF StreamInit, Whole, Base
<1>12. Timed(asm)
  BY <1>6 DEF Timed
<1>13. Ended /\ (sender = "sending" => sent < MaxWords)
  BY DEF StreamInit, Ended
<1> QED BY <1>5, <1>11, <1>12, <1>13 DEF StreamInv

\* A step that changes the text by one of the steps of the assembly.
LEMMA NewText ==
    ASSUME StreamInv, asm' \in Assembly, Timed(asm'), Whole(asm', stable', heard'),
           sent' \in 0 .. MaxWords, stable' \in 0 .. MaxWords,
           sender' \in {"idle", "sending", "asking"},
           stopper' \in {"no", "asking", "pausing", "joining", "stopped"},
           connected' \in BOOLEAN, receiving' \in BOOLEAN,
           asked' \subseteq 0 .. MaxWords, heard' \subseteq Words,
           Ended', sender' = "sending" => sent' < MaxWords
    PROVE StreamInv'
<1>1. Typed'
  BY DEF Typed
<1>2. Timed(asm)' /\ Whole(asm, stable, heard)'
  BY DEF Timed, Whole, Base
<1> QED BY <1>1, <1>2 DEF StreamInv

\* A step that leaves the text.
LEMMA SameAssembly ==
    ASSUME StreamInv, UNCHANGED <<asm, stable, heard>>,
           sent' \in 0 .. MaxWords,
           sender' \in {"idle", "sending", "asking"},
           stopper' \in {"no", "asking", "pausing", "joining", "stopped"},
           connected' \in BOOLEAN, receiving' \in BOOLEAN,
           asked' \subseteq 0 .. MaxWords,
           Ended', sender' = "sending" => sent' < MaxWords
    PROVE StreamInv'
<1>1. asm' = asm /\ stable' = stable /\ heard' = heard
  OBVIOUS
<1>2. asm' \in Assembly /\ stable' \in 0 .. MaxWords /\ heard' \subseteq Words
  BY <1>1 DEF StreamInv, Typed
<1>3. Timed(asm') /\ Whole(asm', stable', heard')
  BY <1>1 DEF StreamInv
<1> QED BY <1>2, <1>3, NewText

LEMMA SenderKeeps ==
    ASSUME StreamInv, Sender PROVE StreamInv'
<1>1. /\ sent \in 0 .. MaxWords /\ sender \in {"idle", "sending", "asking"}
      /\ stopper \in {"no", "asking", "pausing", "joining", "stopped"}
      /\ connected \in BOOLEAN /\ receiving \in BOOLEAN /\ asked \subseteq 0 .. MaxWords
      /\ asm \in Assembly /\ stable \in 0 .. MaxWords /\ heard \subseteq Words
      /\ Ended /\ (sender = "sending" => sent < MaxWords)
      /\ Whole(asm, stable, heard) /\ Timed(asm)
  BY DEF StreamInv, Typed
<1>2. CASE Send
  <2>1. /\ UNCHANGED <<asm, stable, heard>> /\ UNCHANGED <<sent, stopper, connected, receiving, asked>>
        /\ sender' = "sending" /\ sent < MaxWords
    BY <1>2 DEF Send, remote
  <2>2. Ended'
    BY <1>1, <2>1 DEF Ended
  <2> QED BY <1>1, <2>1, <2>2, SameAssembly
<1>3. CASE Counted
  <2>1. /\ UNCHANGED <<asm, stable, heard>> /\ UNCHANGED <<stopper, connected, receiving>>
        /\ sender = "sending" /\ sent' = sent + 1 /\ sender' \in {"idle", "asking"}
        /\ asked' = asked \cup {sent'} \/ asked' = asked
    BY <1>3 DEF Counted
  <2>2. sent' \in 0 .. MaxWords
    BY <1>1, <2>1, WordsAreNumbers
  <2>3. Ended'
    BY <1>1, <2>1 DEF Ended
  <2>4. asked' \subseteq 0 .. MaxWords
    BY <1>1, <2>1, <2>2
  <2>5. sender' # "sending" /\ sender' \in {"idle", "sending", "asking"}
    BY <2>1
  <2> QED BY <1>1, <2>1, <2>2, <2>3, <2>4, <2>5, SameAssembly
<1>4. CASE AskedHard
  <2>1. /\ asm' = Requested(asm, "hard") /\ sender' = "idle"
        /\ UNCHANGED <<sent, stopper, connected, receiving, asked, stable, heard>>
    BY <1>4 DEF AskedHard, remote
  <2>2. /\ asm' \in Assembly /\ Timed(asm') /\ Whole(asm', stable, heard)
        /\ SameText(asm, asm') /\ asm'.held = asm.held
    BY <1>1, <2>1, RequestedKeeps
  <2>3. Ended'
    BY <1>1, <2>1, <2>2 DEF Ended, SameText
  <2> QED BY <1>1, <2>1, <2>2, <2>3, NewText
<1>5. CASE SendFails
  <2>1. /\ UNCHANGED <<asm, stable, heard>> /\ UNCHANGED <<sent, stopper, receiving, asked>>
        /\ sender' = "idle" /\ connected' = FALSE
    BY <1>5 DEF SendFails, remote
  <2>2. Ended'
    BY <1>1, <2>1 DEF Ended
  <2> QED BY <1>1, <2>1, <2>2, SameAssembly
<1> QED BY <1>2, <1>3, <1>4, <1>5 DEF Sender

LEMMA ResultKeeps ==
    ASSUME StreamInv, NEW to \in 0 .. MaxWords, NEW f \in Flags, NEW q \in asked \cup {0},
           Result(to, f, q)
    PROVE StreamInv'
<1>1. /\ sent \in 0 .. MaxWords /\ sender \in {"idle", "sending", "asking"}
      /\ stopper \in {"no", "asking", "pausing", "joining", "stopped"}
      /\ connected \in BOOLEAN /\ receiving \in BOOLEAN /\ asked \subseteq 0 .. MaxWords
      /\ asm \in Assembly /\ stable \in 0 .. MaxWords /\ heard \in SUBSET Words
      /\ Ended /\ (sender = "sending" => sent < MaxWords)
      /\ Whole(asm, stable, heard) /\ Timed(asm)
  BY DEF StreamInv, Typed
<1>2. PICK r : r = [text |-> Text(stable + 1, to), to |-> to, fromFinalize |-> q # 0,
                    final |-> f.final, speechFinal |-> f.speechFinal, timed |-> f.timed]
  OBVIOUS
<1>3. PICK replaces \in BOOLEAN : asm' = Handled(asm, r, replaces)
  BY <1>2, Zenon DEF Result
<1>4. /\ receiving /\ to \in stable .. Arrived
      /\ stable' = IF f.final THEN to ELSE stable
      /\ asked' = asked \ {q}
      /\ heard' = IF f.final THEN heard \cup Text(stable + 1, to) ELSE heard
      /\ UNCHANGED client
  BY Zenon DEF Result
<1>5. Text(stable + 1, to) = Raw(stable, to) /\ Raw(stable, to) \in SUBSET Words
  BY <1>1, RawIs DEF Raw
<1>6. f.final \in BOOLEAN /\ f.speechFinal \in BOOLEAN /\ f.timed \in BOOLEAN
  BY DEF Flags
<1>7. /\ r \in Results /\ r.to = to /\ r.text = Raw(stable, to) /\ r.final = f.final
  BY <1>2, <1>5, <1>6 DEF Results
<1>8. stable <= r.to
  BY <1>1, <1>4, <1>7, WordsAreNumbers DEF Arrived
<1>9. PICK t, k : t = (IF r.final THEN r.to ELSE stable) /\ k = (IF r.final THEN heard \cup r.text ELSE heard)
  OBVIOUS
<1>10. asm' \in Assembly /\ Timed(asm') /\ Whole(asm', t, k)
  BY <1>1, <1>3, <1>7, <1>8, <1>9, HandledKeeps
<1>11. stable' = t /\ heard' = k
  BY <1>4, <1>5, <1>7, <1>9, Zenon
<1>12. t \in 0 .. MaxWords /\ k \subseteq Words
  BY <1>1, <1>5, <1>7, <1>9
<1>13. UNCHANGED <<sent, sender, stopper, connected, receiving>>
  BY <1>4 DEF client
<1>14. Ended'
  BY <1>1, <1>4, <1>13 DEF Ended
<1>15. asked' \subseteq 0 .. MaxWords
  BY <1>1, <1>4
<1>16. Whole(asm', stable', heard') /\ stable' \in 0 .. MaxWords /\ heard' \subseteq Words
  BY <1>10, <1>11, <1>12
<1> QED BY <1>1, <1>10, <1>13, <1>14, <1>15, <1>16, NewText

LEMMA ReceiverKeeps ==
    ASSUME StreamInv, Receiver PROVE StreamInv'
<1>1. /\ sent \in 0 .. MaxWords /\ sender \in {"idle", "sending", "asking"}
      /\ stopper \in {"no", "asking", "pausing", "joining", "stopped"}
      /\ connected \in BOOLEAN /\ receiving \in BOOLEAN /\ asked \subseteq 0 .. MaxWords
      /\ asm \in Assembly /\ stable \in 0 .. MaxWords /\ heard \in SUBSET Words
      /\ Ended /\ (sender = "sending" => sent < MaxWords)
      /\ Whole(asm, stable, heard) /\ Timed(asm)
  BY DEF StreamInv, Typed
<1>2. CASE UtteranceEnd
  <2>1. /\ receiving /\ asm' = UtteranceEnded(asm)
        /\ UNCHANGED <<sent, sender, stopper, connected, receiving, stable, asked, heard>>
    BY <1>2 DEF UtteranceEnd, client, remote
  <2>2. asm' \in Assembly /\ Timed(asm') /\ Whole(asm', stable, heard)
    BY <1>1, <2>1, UtteranceEndedKeeps
  <2>3. Ended'
    BY <1>1, <2>1 DEF Ended
  <2> QED BY <1>1, <2>1, <2>2, <2>3, NewText
<1>3. CASE Lost
  <2>1. /\ UNCHANGED <<asm, stable, heard>> /\ UNCHANGED <<sent, sender, stopper, asked>>
        /\ receiving' = FALSE /\ connected' = FALSE
    BY <1>3 DEF Lost, remote
  <2>2. Ended'
    BY <1>1, <2>1 DEF Ended
  <2> QED BY <1>1, <2>1, <2>2, SameAssembly
<1>4. CASE \E to \in 0 .. MaxWords, f \in Flags, q \in asked \cup {0} : Result(to, f, q)
  BY <1>4, ResultKeeps
<1> QED BY <1>2, <1>3, <1>4 DEF Receiver

LEMMA TimersKeep ==
    ASSUME StreamInv, CandidateTimeout \/ FinalizeTimeout PROVE StreamInv'
<1>1. /\ sent \in 0 .. MaxWords /\ sender \in {"idle", "sending", "asking"}
      /\ stopper \in {"no", "asking", "pausing", "joining", "stopped"}
      /\ connected \in BOOLEAN /\ receiving \in BOOLEAN /\ asked \subseteq 0 .. MaxWords
      /\ asm \in Assembly /\ stable \in 0 .. MaxWords /\ heard \in SUBSET Words
      /\ Ended /\ (sender = "sending" => sent < MaxWords)
      /\ Whole(asm, stable, heard) /\ Timed(asm)
  BY DEF StreamInv, Typed
<1>2. UNCHANGED <<sent, sender, stopper, connected, receiving, stable, asked, heard>>
  BY DEF CandidateTimeout, FinalizeTimeout, client, remote
<1>3. /\ asm.timer \in BOOLEAN /\ asm.held \in BOOLEAN
      /\ asm.timer = asm.held
  BY <1>1, FieldsOf DEF Timed
<1>4. Acknowledged(asm) \in Assembly /\ SameText(asm, Acknowledged(asm))
  BY <1>1, <1>3, AcknowledgedIs
<1>5. CASE CandidateTimeout
  <2>1. asm' = Flush(asm, TRUE)
    BY <1>3, <1>5 DEF CandidateTimeout
  <2>2. asm' \in Assembly /\ Timed(asm') /\ Whole(asm', stable, heard)
    BY <1>1, <2>1, FlushKeeps DEF Whole
  <2>3. asm.committed \subseteq asm.latest
    BY <1>1 DEF Whole, Seen
  <2>4. Flushed(asm, Promoted(asm, TRUE), asm')
    BY <1>1, <2>1, <2>3, FlushIs
  <2>5. Ended'
    BY <1>1, <1>2, <2>4 DEF Ended, Flushed
  <2> QED BY <1>1, <1>2, <2>2, <2>5, NewText
<1>6. CASE FinalizeTimeout /\ asm.pending = "hard"
  <2>1. asm' = Flush(Acknowledged(asm), TRUE)
    BY <1>6 DEF FinalizeTimeout
  <2>2. PICK b : b = Acknowledged(asm)
    OBVIOUS
  <2>3. Whole(b, stable, heard) /\ b \in Assembly
    BY <1>1, <1>4, <2>2, SameTextKeeps
  <2>4. asm' \in Assembly /\ Timed(asm') /\ Whole(asm', stable, heard)
    BY <1>1, <2>1, <2>2, <2>3, FlushKeeps DEF Whole
  <2>5. b.committed \subseteq b.latest
    BY <2>3 DEF Whole, Seen
  <2>6. Flushed(b, Promoted(b, TRUE), asm')
    BY <2>1, <2>2, <2>3, <2>5, FlushIs
  <2>7. Ended'
    BY <1>1, <1>2, <2>6 DEF Ended, Flushed
  <2> QED BY <1>1, <1>2, <2>4, <2>7, NewText
<1>7. CASE FinalizeTimeout /\ asm.pending # "hard"
  <2>1. asm' = [asm EXCEPT !.watchdog = FALSE]
    BY <1>7 DEF FinalizeTimeout
  <2>2. /\ asm' \in Assembly /\ SameText(asm, asm')
        /\ asm'.held = asm.held /\ asm'.timer = asm.timer /\ asm'.watchdog = FALSE
    BY <1>1, <2>1 DEF Assembly, SameText
  <2>3. Timed(asm') /\ Whole(asm', stable, heard)
    BY <1>1, <1>3, <2>2, SameTextKeeps DEF Timed
  <2>4. Ended'
    BY <1>1, <1>2, <2>2 DEF Ended, SameText
  <2> QED BY <1>1, <1>2, <2>2, <2>3, <2>4, NewText
<1> QED BY <1>5, <1>6, <1>7

\* What stop() leaves.
LEMMA StoppedIs ==
    ASSUME StreamInv, Stopped
    PROVE /\ asm' \in Assembly /\ Timed(asm') /\ Whole(asm', stable, heard)
          /\ \E b : SameText(b, asm') /\ Flushed(asm, Promoted(asm, TRUE), b)
          /\ asm'.held = FALSE
<1>1. /\ asm \in Assembly /\ stable \in 0 .. MaxWords /\ heard \in SUBSET Words
      /\ Whole(asm, stable, heard)
  BY DEF StreamInv, Typed
<1>2. PICK b : b = Flush(asm, TRUE)
  OBVIOUS
<1>3. b \in Assembly /\ Timed(b) /\ Whole(b, stable, heard)
  BY <1>1, <1>2, FlushKeeps DEF Whole
<1>4. Flushed(asm, Promoted(asm, TRUE), b)
  <2>1. asm.committed \subseteq asm.latest
    BY <1>1 DEF Whole, Seen
  <2> QED BY <1>1, <1>2, <2>1, FlushIs
<1>5. b.held = FALSE
  <2>1. b.held \in BOOLEAN /\ ~b.held
    BY <1>3, <1>4, FieldsOf DEF Flushed
  <2> QED BY <2>1
<1>6. asm' = [b EXCEPT !.watchdog = FALSE, !.timer = FALSE]
  BY <1>2 DEF Stopped
<1>7. /\ asm' \in Assembly /\ SameText(b, asm')
      /\ asm'.held = FALSE /\ asm'.timer = FALSE /\ asm'.watchdog = FALSE
  BY <1>3, <1>5, <1>6 DEF Assembly, SameText
<1>8. Timed(asm')
  BY <1>7 DEF Timed
<1> QED BY <1>3, <1>4, <1>7, <1>8, SameTextKeeps

LEMMA StopperKeeps ==
    ASSUME StreamInv, Stopper PROVE StreamInv'
<1>1. /\ sent \in 0 .. MaxWords /\ sender \in {"idle", "sending", "asking"}
      /\ stopper \in {"no", "asking", "pausing", "joining", "stopped"}
      /\ connected \in BOOLEAN /\ receiving \in BOOLEAN /\ asked \subseteq 0 .. MaxWords
      /\ asm \in Assembly /\ stable \in 0 .. MaxWords /\ heard \in SUBSET Words
      /\ Ended /\ (sender = "sending" => sent < MaxWords)
      /\ Whole(asm, stable, heard) /\ Timed(asm)
  BY DEF StreamInv, Typed
<1>2. CASE StopCalled
  <2>1. /\ UNCHANGED <<asm, stable, heard>> /\ UNCHANGED <<sent, sender, connected, receiving>>
        /\ stopper' \in {"asking", "pausing", "joining"}
        /\ asked' = asked \cup {sent} \/ asked' = asked
    BY <1>2 DEF StopCalled
  <2>2. Ended'
    BY <2>1 DEF Ended
  <2>3. asked' \subseteq 0 .. MaxWords
    BY <1>1, <2>1
  <2>4. stopper' \in {"no", "asking", "pausing", "joining", "stopped"}
    BY <2>1
  <2> QED BY <1>1, <2>1, <2>2, <2>3, <2>4, SameAssembly
<1>3. CASE AskedStop
  <2>1. /\ UNCHANGED <<sent, sender, connected, receiving, stable, asked, heard>>
        /\ stopper' \in {"pausing", "joining"}
        /\ asm' = Requested(asm, "stop") \/ asm' = asm
    BY <1>3 DEF AskedStop, remote
  <2>2. asm' \in Assembly /\ Timed(asm') /\ Whole(asm', stable, heard)
    <3>1. CASE asm' = Requested(asm, "stop")
      BY <1>1, <3>1, RequestedKeeps
    <3>2. CASE asm' = asm
      BY <1>1, <3>2
    <3> QED BY <2>1, <3>1, <3>2
  <2>3. Ended'
    BY <2>1 DEF Ended
  <2>4. stopper' \in {"no", "asking", "pausing", "joining", "stopped"}
    BY <2>1
  <2> QED BY <1>1, <2>1, <2>2, <2>3, <2>4, NewText
<1>4. CASE Close
  <2>1. /\ UNCHANGED <<asm, stable, heard>>
        /\ UNCHANGED <<sent, sender, connected, receiving, asked>>
        /\ stopper' = "joining"
    BY <1>4 DEF Close, remote
  <2>2. Ended'
    BY <2>1 DEF Ended
  <2> QED BY <1>1, <2>1, <2>2, SameAssembly
<1>5. CASE Stopped
  <2>1. /\ UNCHANGED <<sent, sender, stable, asked, heard>>
        /\ stopper' = "stopped" /\ receiving' = FALSE /\ connected' = FALSE
    BY <1>5 DEF Stopped, remote
  <2>2. PICK b : SameText(b, asm') /\ Flushed(asm, Promoted(asm, TRUE), b)
    BY <1>5, StoppedIs
  <2>3. asm' \in Assembly /\ Timed(asm') /\ Whole(asm', stable, heard) /\ asm'.held = FALSE
    BY <1>5, StoppedIs
  <2>4. Ended'
    BY <2>1, <2>2, <2>3 DEF Ended, SameText, Flushed
  <2> QED BY <1>1, <2>1, <2>3, <2>4, NewText
<1> QED BY <1>2, <1>3, <1>4, <1>5 DEF Stopper

LEMMA StepHolds == StreamInv /\ [StreamNext]_streamVars => StreamInv'
<1> SUFFICES ASSUME StreamInv, [StreamNext]_streamVars PROVE StreamInv'
  OBVIOUS
<1>1. CASE UNCHANGED streamVars
  <2>1. /\ UNCHANGED <<asm, stable, heard>>
        /\ UNCHANGED <<sent, sender, stopper, connected, receiving, asked>>
    BY <1>1 DEF streamVars, client, remote
  <2>2. Ended'
    BY <2>1 DEF StreamInv, Ended
  <2> QED BY <2>1, <2>2, SameAssembly DEF StreamInv, Typed
<1>2. CASE StreamNext
  BY <1>2, SenderKeeps, ReceiverKeeps, TimersKeep, StopperKeeps DEF StreamNext
<1> QED BY <1>1, <1>2

-----------------------------------------------------------------------------
(* The theorems *)

\* In every reachable state: the finals are apart, what is committed is the
\* stable speech behind them, and what is shown goes on from it; the timers and
\* the requests agree, and after stop() nothing is left to add.
THEOREM StreamInvariance == StreamSpec => []StreamInv
<1>1. StreamInit => StreamInv
  BY StreamInitHolds
<1>2. StreamInv /\ [StreamNext]_streamVars => StreamInv'
  BY StepHolds
<1> QED BY <1>1, <1>2, PTL DEF StreamSpec

LEMMA InvariantTypes == StreamInv => StreamTypeOK
<1> SUFFICES ASSUME StreamInv PROVE StreamTypeOK
  OBVIOUS
<1>1. /\ asm \in Assembly /\ sent \in 0 .. MaxWords /\ stable \in 0 .. MaxWords
      /\ sender \in {"idle", "sending", "asking"}
      /\ stopper \in {"no", "asking", "pausing", "joining", "stopped"}
      /\ connected \in BOOLEAN /\ receiving \in BOOLEAN
      /\ asked \subseteq 0 .. MaxWords /\ heard \subseteq Words
  BY DEF StreamInv, Typed
<1>2. (asm.watchdog => asm.pending # "no") /\ asm.timer = asm.held
  BY DEF StreamInv, Timed
<1>3. /\ asm.committed \in SUBSET Words /\ asm.latest \in SUBSET Words
      /\ asm.lastFinal \in SUBSET Words /\ asm.gone \in SUBSET Words
      /\ asm.active \in 0 .. MaxWords /\ asm.cutoff \in 0 .. MaxWords /\ asm.at \in 0 .. MaxWords
      /\ asm.held \in BOOLEAN /\ asm.timer \in BOOLEAN /\ asm.watchdog \in BOOLEAN
      /\ asm.pending \in {"no", "hard", "stop"}
      /\ asm.finals \in Seq(Texts)
  BY <1>1, FieldsOf
<1>4. {asm.committed, asm.latest, asm.lastFinal, asm.gone, heard} \subseteq SUBSET Words
  BY <1>1, <1>3
<1>5. {asm.active, asm.cutoff, asm.at, sent, stable} \subseteq 0 .. MaxWords
  BY <1>1, <1>3
<1>6. {asm.held, asm.timer, asm.watchdog, connected, receiving} \subseteq BOOLEAN
  BY <1>1, <1>3
<1>7. asm.finals \in Seq((SUBSET Words) \ {{}})
  BY <1>3, Zenon DEF Texts
<1> QED BY <1>1, <1>2, <1>3, <1>4, <1>5, <1>6, <1>7, Zenon DEF StreamTypeOK

LEMMA InvariantOrders == StreamInv => OnceInOrder
<1> SUFFICES ASSUME StreamInv, NEW i \in 1 .. Len(asm.finals), NEW j \in 1 .. Len(asm.finals), i < j
             PROVE Max(asm.finals[i]) < Min(asm.finals[j])
  BY DEF OnceInOrder
<1>1. PICK fs : fs = asm.finals
  OBVIOUS
<1>2. fs \in Seq(Texts) /\ i \in 1 .. Len(fs) /\ j \in 1 .. Len(fs)
  BY <1>1, FieldsOf DEF StreamInv, Typed
<1>3. PICK S, T : S = fs[i] /\ T = fs[j]
  OBVIOUS
<1>4. S \in Texts /\ T \in Texts
  BY <1>2, <1>3
<1>5. Max(S) \in S /\ Min(T) \in T
  BY <1>4, MaxIs, MinIs DEF Texts
<1>6. \A x \in S, y \in T : x < y
  BY <1>1, <1>2, <1>3 DEF StreamInv, Whole, Base, Parted
<1>7. Max(S) < Min(T)
  BY <1>5, <1>6
<1> QED BY <1>1, <1>3, <1>7

\* No word is in two finals and the finals follow the speech, whatever the
\* provider sends late or twice (_flush_final, _remove_finalized_overlap).
THEOREM FinalsMakeOneTextAlways == StreamSpec => []FinalsMakeOneText
<1>1. StreamInv => FinalsMakeOneText
  BY InvariantTypes, InvariantOrders DEF FinalsMakeOneText
<1> QED BY <1>1, StreamInvariance, PTL

\* A word of a stable result is made final or waits in the assembly, unless it
\* is one the code drops on purpose.
THEOREM NothingLostAlways == StreamSpec => []NothingLost
<1>1. StreamInv => NothingLost
  <2> SUFFICES ASSUME StreamInv PROVE NothingLost
    OBVIOUS
  <2>1. heard \subseteq Said(asm.finals) \cup asm.committed \cup asm.gone
    BY DEF StreamInv, Whole, Base, Covered
  <2> QED BY <2>1 DEF NothingLost, Said
<1> QED BY <1>1, StreamInvariance, PTL

\* The tail of a flush by stop() is all that was shown.
LEMMA StopKeepsTail ==
    ASSUME StreamInv, Stopped
    PROVE asm.committed \cup asm.latest \subseteq Said(asm'.finals)
<1>1. PICK T : T = Promoted(asm, TRUE)
  OBVIOUS
<1>2. PICK b : SameText(b, asm') /\ Flushed(asm, T, b)
  BY <1>1, StoppedIs
<1>3. asm \in Assembly /\ asm.committed \subseteq asm.latest
  BY DEF StreamInv, Typed, Whole, Seen
<1>4. T \in SUBSET Words /\ asm.committed \subseteq T /\ asm.latest \subseteq T
  BY <1>1, <1>3, PromotedIs
<1>5. CASE T = {}
  BY <1>4, <1>5
<1>6. CASE T # {}
  <2>1. asm'.finals = Append(asm.finals, T)
    BY <1>2, <1>6 DEF Flushed, SameText
  <2>2. Said(Append(asm.finals, T)) = Said(asm.finals) \cup T
    BY <1>3, <1>4, <1>6, FieldsOf, SaidAppend
  <2> QED BY <1>4, <2>1, <2>2
<1> QED BY <1>5, <1>6

\* After stop() a late timer, or the request of the sender, adds no final.
LEMMA NothingFollows ==
    ASSUME StreamInv, [StreamNext]_streamVars, stopper = "stopped"
    PROVE asm'.finals = asm.finals
<1>1. /\ asm \in Assembly /\ ~receiving /\ ~asm.held /\ ~asm.timer
      /\ asm.committed = {} /\ asm.latest = {}
  <2>1. asm \in Assembly /\ asm.timer = asm.held
    BY DEF StreamInv, Typed, Timed
  <2>2. ~receiving /\ ~asm.held /\ asm.committed = {} /\ asm.latest = {}
    BY DEF StreamInv, Ended
  <2> QED BY <2>1, <2>2
<1>2. CASE asm' = asm
  BY <1>2
<1>3. CASE AskedHard
  BY <1>1, <1>3 DEF AskedHard, Requested, Assembly
<1>4. CASE FinalizeTimeout
  <2>1. CASE asm.pending = "hard"
    <3>1. PICK b : b = Acknowledged(asm)
      OBVIOUS
    <3>2. b \in Assembly /\ SameText(asm, b)
      BY <1>1, <3>1, AcknowledgedIs DEF StreamInv, Timed
    <3>3. b.committed = {} /\ b.latest = {} /\ b.finals = asm.finals
      BY <1>1, <3>2 DEF SameText
    <3>4. asm' = Flush(b, TRUE)
      BY <1>4, <2>1, <3>1 DEF FinalizeTimeout
    <3>5. Promoted(b, TRUE) = {}
      BY <3>3 DEF Promoted
    <3>6. Flushed(b, {}, asm')
      BY <3>2, <3>3, <3>4, <3>5, FlushIs
    <3> QED BY <3>3, <3>6 DEF Flushed
  <2>2. CASE asm.pending # "hard"
    BY <1>1, <1>4, <2>2 DEF FinalizeTimeout, Assembly
  <2> QED BY <2>1, <2>2
<1>5. CASE Send \/ Counted \/ SendFails \/ StopCalled \/ Close \/ UNCHANGED streamVars
  BY <1>2, <1>5 DEF Send, Counted, SendFails, StopCalled, Close, streamVars
<1>6. ~AskedStop /\ ~Stopped
  BY DEF AskedStop, Stopped
<1>7. ~Receiver
  BY <1>1 DEF Receiver, UtteranceEnd, Lost, Result
<1>8. ~CandidateTimeout
  BY <1>1 DEF CandidateTimeout
<1> QED BY <1>3, <1>4, <1>5, <1>6, <1>7, <1>8 DEF StreamNext, Sender, Stopper

\* stop() makes final what was shown last, stable or not, and nothing follows.
THEOREM TailKeptAlways == StreamSpec => TailKept
<1>1. StreamInv /\ [StreamNext]_streamVars
      => [/\ stopper' = "stopped" /\ stopper # "stopped" =>
                asm.committed \cup asm.latest \subseteq UNION ToSet(asm'.finals)
          /\ stopper = "stopped" => asm'.finals = asm.finals]_streamVars
  <2> SUFFICES ASSUME StreamInv, [StreamNext]_streamVars
               PROVE /\ stopper' = "stopped" /\ stopper # "stopped" =>
                           asm.committed \cup asm.latest \subseteq UNION ToSet(asm'.finals)
                     /\ stopper = "stopped" => asm'.finals = asm.finals
    OBVIOUS
  <2>1. ASSUME stopper' = "stopped", stopper # "stopped"
        PROVE asm.committed \cup asm.latest \subseteq UNION ToSet(asm'.finals)
    <3>1. Stopped
      BY <2>1 DEF StreamNext, Sender, Receiver, Stopper, Send, Counted, AskedHard, SendFails,
                  UtteranceEnd, Lost, Result, CandidateTimeout, FinalizeTimeout,
                  StopCalled, AskedStop, Close, streamVars, client
    <3> QED BY <3>1, StopKeepsTail DEF Said
  <2>2. ASSUME stopper = "stopped" PROVE asm'.finals = asm.finals
    BY <2>2, NothingFollows
  <2> QED BY <2>1, <2>2
<1> QED BY <1>1, StreamInvariance, PTL DEF StreamSpec, TailKept

-----------------------------------------------------------------------------
(* TranscriptPipeline: the queues *)

LEMMA AppendFacts ==
    ASSUME NEW S, NEW s \in Seq(S), NEW e \in S
    PROVE /\ Append(s, e) \in Seq(S) /\ Len(s) \in Nat
          /\ Len(Append(s, e)) = Len(s) + 1
          /\ \A i \in 1 .. Len(s) : Append(s, e)[i] = s[i]
          /\ Append(s, e)[Len(s) + 1] = e
OBVIOUS

LEMMA TailFacts ==
    ASSUME NEW S, NEW s \in Seq(S), s # << >>
    PROVE /\ Tail(s) \in Seq(S) /\ Len(s) \in Nat \ {0}
          /\ Head(s) = s[1] /\ Head(s) \in S
          /\ Len(Tail(s)) = Len(s) - 1
          /\ \A i \in 1 .. Len(Tail(s)) : Tail(s)[i] = s[i + 1] /\ i + 1 \in 1 .. Len(s)
OBVIOUS

\* A final that comes after all the others keeps the queue in order.
LEMMA FinalAdded ==
    ASSUME finals \in Seq(Nat), FinalsSorted, NEW u \in Nat, finals' = Append(finals, u),
           \A x \in InFinals : x < u
    PROVE finals' \in Seq(Nat) /\ InFinals' = InFinals \cup {u} /\ FinalsSorted'
<1>1. /\ Len(finals) \in Nat /\ Len(finals') = Len(finals) + 1 /\ finals' \in Seq(Nat)
      /\ \A i \in 1 .. Len(finals) : finals'[i] = finals[i]
      /\ finals'[Len(finals) + 1] = u
  BY AppendFacts
<1>2. InFinals' = InFinals \cup {u}
  BY <1>1 DEF InFinals
<1>3. FinalsSorted'
  BY <1>1 DEF FinalsSorted, InFinals
<1> QED BY <1>1, <1>2, <1>3

\* The oldest final is taken: the others come after it.
LEMMA FinalTaken ==
    ASSUME finals \in Seq(Nat), FinalsSorted, finals # << >>, finals' = Tail(finals)
    PROVE /\ finals' \in Seq(Nat) /\ InFinals' \subseteq InFinals /\ FinalsSorted'
          /\ Head(finals) \in InFinals /\ Head(finals) \in Nat
          /\ \A x \in InFinals' : Head(finals) < x
<1>1. /\ Len(finals) \in Nat \ {0} /\ Len(finals') = Len(finals) - 1
      /\ finals' \in Seq(Nat) /\ Head(finals) = finals[1] /\ Head(finals) \in Nat
      /\ \A i \in 1 .. Len(finals') : finals'[i] = finals[i + 1] /\ i + 1 \in 1 .. Len(finals)
  BY TailFacts
<1> QED BY <1>1 DEF InFinals, FinalsSorted

LEMMA JobAdded ==
    ASSUME jobs \in Seq([utterance : Nat, allow : BOOLEAN]), JobsSorted,
           NEW j \in [utterance : Nat, allow : BOOLEAN], jobs' = Append(jobs, j),
           \A x \in InJobs : x < j.utterance
    PROVE /\ jobs' \in Seq([utterance : Nat, allow : BOOLEAN])
          /\ InJobs' = InJobs \cup {j.utterance} /\ JobsSorted'
<1>1. /\ Len(jobs) \in Nat /\ Len(jobs') = Len(jobs) + 1
      /\ jobs' \in Seq([utterance : Nat, allow : BOOLEAN])
      /\ \A i \in 1 .. Len(jobs) : jobs'[i] = jobs[i]
      /\ jobs'[Len(jobs) + 1] = j
  BY AppendFacts
<1>2. InJobs' = InJobs \cup {j.utterance}
  BY <1>1 DEF InJobs
<1>3. ASSUME NEW i \in 1 .. Len(jobs'), NEW k \in 1 .. Len(jobs'), i < k
      PROVE jobs'[i].utterance < jobs'[k].utterance
  <2>1. i \in 1 .. Len(jobs) /\ jobs'[i].utterance = jobs[i].utterance /\ jobs[i].utterance \in InJobs
    BY <1>1, <1>3 DEF InJobs
  <2>2. CASE k \in 1 .. Len(jobs)
    BY <1>1, <1>3, <2>1, <2>2 DEF JobsSorted
  <2>3. CASE k = Len(jobs) + 1
    BY <1>1, <2>1, <2>3
  <2> QED BY <1>1, <2>2, <2>3
<1> QED BY <1>1, <1>2, <1>3 DEF JobsSorted

LEMMA JobTaken ==
    ASSUME jobs \in Seq([utterance : Nat, allow : BOOLEAN]), JobsSorted,
           jobs # << >>, jobs' = Tail(jobs)
    PROVE /\ jobs' \in Seq([utterance : Nat, allow : BOOLEAN])
          /\ InJobs' \subseteq InJobs /\ JobsSorted'
          /\ Head(jobs).utterance \in InJobs /\ Head(jobs).utterance \in Nat
          /\ \A x \in InJobs' : Head(jobs).utterance < x
<1>1. /\ Len(jobs) \in Nat \ {0} /\ Len(jobs') = Len(jobs) - 1 /\ Head(jobs) = jobs[1]
      /\ jobs' \in Seq([utterance : Nat, allow : BOOLEAN])
      /\ Head(jobs) \in [utterance : Nat, allow : BOOLEAN]
      /\ \A i \in 1 .. Len(jobs') : jobs'[i] = jobs[i + 1] /\ i + 1 \in 1 .. Len(jobs)
  BY TailFacts
<1> QED BY <1>1 DEF InJobs, JobsSorted

-----------------------------------------------------------------------------
(* Steps that only speak, or move what is held *)

\* What was spoken keeps its session, and what was closed stays closed.
Later ==
    /\ \A x \in Spoken : x \in Spoken' /\ owner'[x] = owner[x]
    /\ Closed \subseteq Closed'

LEMMA ClosedIsSpoken == Closed \subseteq Spoken
BY DEF Closed

LEMMA ComingIsClosed ==
    ASSUME Tasks, Past, NEW p \in Places
    PROVE Coming(p) \subseteq Closed
BY DEF Tasks, Past, Coming, Brings, StreamHas, Has

\* A final that is new to the tasks and the queues is later than all of them.
LEMMA OrderedStays ==
    ASSUME Tasks, Past, Ordered, Later, published' = published,
           \A p \in Places : \A y \in Coming(p)' :
                y \in Coming(p) \/ \A x \in Closed : x < y
    PROVE Ordered'
<1> SUFFICES ASSUME NEW p \in Places
             PROVE /\ \A x \in Published(p)', y \in Coming(p)' : Precedes(x, y)'
                   /\ \A i, k \in 1 .. Len(published[p])' :
                        i < k => Precedes(published[p][i], published[p][k])'
  BY DEF Ordered
<1>1. Published(p)' = Published(p) /\ Published(p) \subseteq Closed
  BY DEF Published, Past
<1>2. Coming(p) \subseteq Closed /\ Closed \subseteq Spoken
  BY ComingIsClosed, ClosedIsSpoken
<1>3. \A x, y \in Closed : Precedes(x, y) => Precedes(x, y)'
  BY <1>2 DEF Precedes, Later
<1>4. ASSUME NEW x \in Published(p)', NEW y \in Coming(p)' PROVE Precedes(x, y)'
  <2>1. CASE y \in Coming(p)
    BY <1>1, <1>2, <1>3, <2>1 DEF Ordered
  <2>2. CASE \A z \in Closed : z < y
    BY <1>1, <2>2 DEF Precedes
  <2> QED BY <2>1, <2>2
<1>5. ASSUME NEW i \in 1 .. Len(published[p]), NEW k \in 1 .. Len(published[p]), i < k
      PROVE Precedes(published[p][i], published[p][k])'
  <2>1. published[p][i] \in Closed /\ published[p][k] \in Closed
    BY <1>1 DEF Published
  <2>2. Precedes(published[p][i], published[p][k])
    BY <1>5 DEF Ordered
  <2>3. Precedes(published[p][i], published[p][k])' <=>
            (owner'[published[p][i]] = owner'[published[p][k]] => published[p][i] < published[p][k])
    BY DEF Precedes
  <2> QED BY <2>1, <2>2, <2>3, <1>2 DEF Precedes, Later
<1> QED BY <1>4, <1>5


LEMMA OrderedPublishes ==
    ASSUME Types, Tasks, Past, Ordered, owner' = owner,
           NEW q \in Places, NEW u \in Coming(q), u \in Nat,
           published' = [published EXCEPT ![q] = Append(@, u)],
           \A p \in Places : Coming(p)' \subseteq Coming(p),
           \A y \in Coming(q)' : Precedes(u, y)
    PROVE /\ Ordered' /\ published' \in [Places -> Seq(Nat)]
          /\ \A p \in Places : /\ Published(p) \subseteq Published(p)'
                               /\ Published(p)' \subseteq Published(p) \cup {u}
          /\ u \in Published(q)'
<1>1. /\ published[q] \in Seq(Nat) /\ Len(published[q]) \in Nat
      /\ published' \in [Places -> Seq(Nat)]
      /\ Len(published'[q]) = Len(published[q]) + 1
      /\ \A i \in 1 .. Len(published[q]) : published'[q][i] = published[q][i]
      /\ published'[q][Len(published[q]) + 1] = u
      /\ \A p \in Places \ {q} : published'[p] = published[p]
  BY AppendFacts DEF Types
<1>2. Published(q)' = Published(q) \cup {u}
  BY <1>1 DEF Published
<1>3. \A p \in Places \ {q} : Published(p)' = Published(p)
  BY <1>1 DEF Published
<1>4. \A x, y : Precedes(x, y)' <=> (owner[x] = owner[y] => x < y)
  BY DEF Precedes
<1>5. ASSUME NEW p \in Places, NEW x \in Published(p)', NEW y \in Coming(p)'
      PROVE owner[x] = owner[y] => x < y
  <2>1. CASE x \in Published(p)
    BY <1>5, <2>1 DEF Ordered, Precedes
  <2>2. CASE p = q /\ x = u
    BY <1>5, <2>2 DEF Precedes
  <2> QED BY <1>2, <1>3, <1>5, <2>1, <2>2
<1>6. ASSUME NEW p \in Places, NEW i \in 1 .. Len(published'[p]),
             NEW k \in 1 .. Len(published'[p]), i < k
      PROVE owner[published'[p][i]] = owner[published'[p][k]] => published'[p][i] < published'[p][k]
  <2>1. CASE p # q
    BY <1>1, <1>6, <2>1 DEF Ordered, Precedes
  <2>2. CASE p = q /\ k \in 1 .. Len(published[q])
    BY <1>1, <1>6, <2>2 DEF Ordered, Precedes
  <2>3. CASE p = q /\ k = Len(published[q]) + 1
    <3>1. i \in 1 .. Len(published[q]) /\ published'[q][i] = published[q][i]
      BY <1>1, <1>6, <2>3
    <3>2. published[q][i] \in Published(q)
      BY <3>1 DEF Published
    <3> QED BY <1>1, <2>3, <3>1, <3>2 DEF Ordered, Precedes
  <2> QED BY <1>1, <1>6, <2>1, <2>2, <2>3
<1>7. Ordered'
  BY <1>4, <1>5, <1>6 DEF Ordered
<1> QED BY <1>1, <1>2, <1>3, <1>7

\* A step that hands an utterance on, or gives it up.
LEMMA Handed ==
    ASSUME IInv, owner' = owner, owed' = owed, opened' = opened, provider' = provider,
           \/ session' = session /\ current' = current /\ stopping' = stopping
           \/ current' = 0 /\ session' \in {0, session},
           LocalHas' \subseteq LocalHas, StreamHas' \subseteq StreamHas,
           InFinals' \subseteq InFinals
    PROVE /\ Speaking' /\ Later /\ Apart'
          /\ LocalHas' \subseteq Spoken' /\ InFinals' \subseteq Closed'
          /\ StreamHas' \subseteq owed' /\ owed' \subseteq Closed'
<1>1. Spoken' = Spoken
  BY DEF Spoken
<1>2. Later
  BY <1>1 DEF Later, IInv, Types, Speaking, Closed, Spoken
<1>3. Speaking'
  BY <1>1 DEF IInv, Speaking
<1>4. Apart'
  BY DEF IInv, Apart, Past
<1> QED BY <1>1, <1>2, <1>3, <1>4 DEF IInv, Past, Later

\* An utterance that goes on, or begins.
LEMMA HeardFacts ==
    ASSUME IInv, NEW u \in 1 .. MaxUtterances, Heard(u)
    PROVE /\ owner' \in Seq(Nat \ {0}) /\ u = Len(owner') /\ u \in Nat \ {0}
          /\ owner'[u] = session /\ u \in Spoken'
          /\ \A x \in Spoken : x \in Spoken' /\ owner'[x] = owner[x] /\ x <= u
          /\ Spoken' = Spoken \cup {u}
          /\ Closed = Spoken' \ {u}
          /\ \A x \in Closed : x \in Nat /\ x < u
          /\ \A x \in Spoken' : owner'[x] <= opened
<1>1. CASE current # 0
  BY <1>1 DEF Heard, IInv, Types, Speaking, Closed, Spoken
<1>2. CASE current = 0
  <2>1. owner' = Append(owner, session) /\ session \in Nat \ {0} /\ u = Len(owner) + 1
    BY <1>2 DEF Heard, IInv, Types
  <2>2. owner' \in Seq(Nat \ {0}) /\ Len(owner) \in Nat /\ Len(owner') = Len(owner) + 1
        /\ (\A i \in 1 .. Len(owner) : owner'[i] = owner[i]) /\ owner'[u] = session
    BY <2>1, AppendFacts DEF IInv, Types
  <2>3. \A x \in 1 .. Len(owner') : owner'[x] <= opened
    BY <2>1, <2>2 DEF IInv, Types, Speaking, Spoken
  <2> QED BY <1>2, <2>1, <2>2, <2>3 DEF Closed, Spoken
<1> QED BY <1>1, <1>2

-----------------------------------------------------------------------------
(* Sessions *)

LEMMA StartKeeps == ASSUME IInv, Start PROVE IInv'
<1> USE DEF Start
<1>1. /\ Spoken' = Spoken /\ InFinals' = InFinals /\ InJobs' = InJobs /\ Has(worker)' = Has(worker)
      /\ StreamHas' = StreamHas /\ LocalHas' \subseteq LocalHas /\ current = 0
      /\ \A p \in Places : Coming(p)' = Coming(p) /\ Published(p)' = Published(p)
  BY DEF IInv, Speaking, Spoken, InFinals, InJobs, StreamHas, LocalHas, Coming, Published, Has
<1>2. Closed' = Closed /\ Later
  BY <1>1 DEF Closed, Later
<1>3. Types'
  BY PipelineAssumption DEF IInv, Types
<1>4. Speaking' /\ Tasks'
  BY <1>1, <1>2 DEF IInv, Types, Speaking, Tasks, Busy, Spoken
<1>5. Past'
  BY <1>1, <1>2 DEF IInv, Past
<1>6. \A x \in Spoken : owner[x] # session'
  BY DEF IInv, Types, Speaking, Spoken
<1>7. Apart'
  BY <1>1, <1>5, <1>6, ClosedIsSpoken DEF IInv, Past, Apart
<1>8. Queued'
  BY <1>1 DEF IInv, Queued, FinalsSorted, JobsSorted, Busy
<1>9. Ordered'
  BY <1>1, <1>2, OrderedStays DEF IInv
<1>10. Settled'
  BY <1>1 DEF IInv, Settled, Busy, Places
<1> QED BY <1>3, <1>4, <1>5, <1>7, <1>8, <1>9, <1>10 DEF IInv

\* Stop, Finalize and RecheckEnds' kin move nothing from one hand to another.
LEMMA StillKeeps ==
    ASSUME IInv, Types', owner' = owner, owed' = owed, opened' = opened, provider' = provider,
           \/ session' = session /\ current' = current /\ stopping' = stopping
           \/ current' = 0 /\ session' \in {0, session},
           UNCHANGED <<queues, worker, pending, screen, done, published>>,
           \/ reviewer' = reviewer
           \/ reviewer.at = "rechecking" /\ reviewer' = [reviewer EXCEPT !.at = "file"]
    PROVE IInv'
<1>1. /\ InFinals' = InFinals /\ InJobs' = InJobs /\ LocalHas' = LocalHas
      /\ \A p \in Places : Published(p)' = Published(p) /\ Brings(worker, p)' = Brings(worker, p)
  BY DEF queues, InFinals, InJobs, LocalHas, Has, Busy, Published, Brings, Ahead
<1>2. /\ Has(reviewer)' = Has(reviewer) /\ Busy(reviewer)' = Busy(reviewer)
      /\ reviewer'.job = reviewer.job /\ reviewer'.final = reviewer.final
      /\ reviewer'.at = "translation" => reviewer.at = "translation"
      /\ \A p \in Places : Brings(reviewer, p)' = Brings(reviewer, p)
  BY DEF IInv, Types, Has, Busy, Brings, Ahead, Places
<1>3. StreamHas' = StreamHas /\ \A p \in Places : Coming(p)' = Coming(p)
  BY <1>1, <1>2 DEF StreamHas, Coming
<1>4. /\ Speaking' /\ Later /\ Apart'
      /\ LocalHas' \subseteq Spoken' /\ InFinals' \subseteq Closed'
      /\ StreamHas' \subseteq owed' /\ owed' \subseteq Closed'
  BY <1>1, <1>3, Handed
<1>5. Tasks'
  BY <1>2, <1>4 DEF IInv, Tasks, Busy, Later
<1>6. Past'
  BY <1>1, <1>4 DEF IInv, Past, Later
<1>7. Queued'
  BY <1>1, <1>2 DEF IInv, Queued, FinalsSorted, JobsSorted, queues, Busy
<1>8. Ordered'
  BY <1>3, <1>4, OrderedStays DEF IInv
<1>9. Settled'
  BY <1>1, <1>2, <1>3 DEF IInv, Settled, Places
<1> QED BY <1>4, <1>5, <1>6, <1>7, <1>8, <1>9 DEF IInv

LEMMA StopKeeps == ASSUME IInv, Stop PROVE IInv'
<1>1. Types'
  BY DEF Stop, IInv, Types, queues
<1> QED BY <1>1, StillKeeps DEF Stop, queues

LEMMA FinalizeKeeps == ASSUME IInv, Finalize PROVE IInv'
<1>1. Types'
  BY DEF Finalize, IInv, Types, queues, speech
<1>2. current' = 0 /\ session' = 0
  BY DEF Finalize, speech, IInv, Types, Speaking
<1> QED BY <1>1, <1>2, StillKeeps DEF Finalize, queues, speech

LEMMA RecheckEndsKeeps == ASSUME IInv, RecheckEnds PROVE IInv'
<1>1. threads' \in Nat /\ recheck' \in BOOLEAN
  <2>1. threads \in Nat
    BY DEF IInv, Types
  <2>2. threads' = threads - 1 /\ threads > 0 /\ recheck' = FALSE
    BY DEF RecheckEnds
  <2>3. threads' \in Nat
    BY <2>1, <2>2
  <2>4. recheck' \in BOOLEAN
    BY <2>2
  <2> QED BY <2>3, <2>4
<1>2. reviewer' \in [at : {"idle", "rechecking"} \cup Places, job : Nat, final : BOOLEAN]
  BY DEF RecheckEnds, IInv, Types, Places
<1>3. Types'
  BY <1>1, <1>2 DEF RecheckEnds, IInv, Types, capture, queues, speech
<1> QED BY <1>3, StillKeeps DEF RecheckEnds, capture, queues, speech

LEMMA RecheckTimesOutKeeps == ASSUME IInv, RecheckTimesOut PROVE IInv'
<1>1. Types'
  BY DEF RecheckTimesOut, IInv, Types, capture, queues, speech, Places
<1> QED BY <1>1, StillKeeps DEF RecheckTimesOut, capture, queues, speech


LEMMA ShutdownKeeps == ASSUME IInv, Shutdown PROVE IInv'
<1> USE DEF Shutdown
<1>1. /\ InFinals' = InFinals /\ InJobs' = InJobs /\ worker'.at = "idle" /\ reviewer'.at = "idle"
      /\ ~worker'.final /\ ~reviewer'.final
      /\ \A p \in Places : Published(p)' = Published(p)
  BY DEF queues, InFinals, InJobs, Published, Idle
<1>2. /\ ~Busy(worker)' /\ ~Busy(reviewer)'
      /\ LocalHas' \subseteq LocalHas /\ StreamHas' \subseteq StreamHas
      /\ \A p \in Places : Coming(p)' \subseteq Coming(p)
  BY <1>1 DEF queues, LocalHas, StreamHas, Has, Busy, Coming, Brings
<1>3. Types'
  BY DEF IInv, Types, capture, speech, queues, Idle
<1>4. /\ Speaking' /\ Later /\ Apart'
      /\ LocalHas' \subseteq Spoken' /\ InFinals' \subseteq Closed'
      /\ StreamHas' \subseteq owed' /\ owed' \subseteq Closed'
  BY <1>1, <1>2, Handed DEF capture, speech
<1>5. Tasks'
  BY <1>1, <1>2 DEF Tasks, Places
<1>6. Past'
  BY <1>1, <1>4 DEF IInv, Past, Later
<1>7. Queued'
  BY <1>1, <1>2 DEF IInv, Queued, FinalsSorted, JobsSorted, queues
<1>8. Ordered'
  BY <1>2, <1>4, OrderedStays DEF IInv
<1>9. Settled'
  BY <1>1, <1>2 DEF IInv, Settled, Places
<1> QED BY <1>3, <1>4, <1>5, <1>6, <1>7, <1>8, <1>9 DEF IInv

-----------------------------------------------------------------------------
(* What is heard *)

\* A step that hears of u and leaves the tasks, the queue of the stream and what
\* was published alone.
LEMMA HeardKeeps ==
    ASSUME IInv, NEW u \in 1 .. MaxUtterances, Heard(u), current' \in {0, u},
           UNCHANGED <<capture, jobs, worker, reviewer, published, owed>>
    PROVE /\ Later /\ Speaking' /\ Tasks'
          /\ StreamHas' = StreamHas /\ InJobs' = InJobs
          /\ \A p \in Places : /\ Published(p)' = Published(p)
                               /\ Coming(p) \subseteq InFinals \cup Coming(p)'
                               /\ Coming(p)' \subseteq InFinals' \cup Coming(p)
          /\ StreamHas \subseteq Closed /\ Closed \subseteq Closed'
          /\ session # 0 /\ stopping = "no"
<1>1. Closed \subseteq Closed' /\ Later
  <2>1. Closed \subseteq Spoken' \ {u}
    BY HeardFacts
  <2>2. \A x \in Spoken : x \in Spoken' /\ owner'[x] = owner[x]
    BY HeardFacts
  <2>3. Closed' = Spoken' \ {current'} /\ 0 \notin Spoken'
    BY HeardFacts DEF Closed, Spoken
  <2> QED BY <2>1, <2>2, <2>3 DEF Later
<1>2. session # 0 /\ stopping = "no"
  BY DEF Heard
<1>3. Speaking'
  BY <1>2, HeardFacts DEF Speaking, capture, IInv, Types
<1>4. Tasks'
  BY <1>1 DEF IInv, Tasks, Busy
<1>5. /\ StreamHas' = StreamHas /\ InJobs' = InJobs
      /\ \A p \in Places : /\ Published(p)' = Published(p)
                           /\ Coming(p) \subseteq InFinals \cup Coming(p)'
                           /\ Coming(p)' \subseteq InFinals' \cup Coming(p)
  BY DEF StreamHas, InJobs, Has, Busy, Published, Coming, Brings, Ahead
<1>6. StreamHas \subseteq Closed
  BY DEF IInv, Past
<1> QED BY <1>1, <1>2, <1>3, <1>4, <1>5, <1>6

LEMMA SegmentPartialKeeps ==
    ASSUME IInv, NEW u \in 1 .. MaxUtterances, SegmentPartial(u) PROVE IInv'
<1> USE DEF SegmentPartial
<1>1. Heard(u) /\ current' = u /\ provider = "local"
  OBVIOUS
<1>2. /\ Later /\ Speaking' /\ Tasks'
      /\ StreamHas' = StreamHas /\ InJobs' = InJobs
      /\ \A p \in Places : /\ Published(p)' = Published(p)
                           /\ Coming(p)' \subseteq InFinals' \cup Coming(p)
      /\ StreamHas \subseteq Closed /\ Closed \subseteq Closed'
      /\ session # 0 /\ stopping = "no"
  BY <1>1, HeardKeeps
<1>3. /\ InFinals' = InFinals /\ LocalHas' \subseteq LocalHas \cup {u}
      /\ \A p \in Places : Coming(p)' \subseteq Coming(p)
  BY <1>2 DEF InFinals, LocalHas, Has, Busy, Coming
<1>4. Types'
  BY <1>1, HeardFacts DEF IInv, Types, capture
<1>5. Past'
  BY <1>1, <1>2, <1>3, HeardFacts DEF IInv, Past
<1>6. Apart'
  BY <1>1, <1>2, <1>3, HeardFacts, ClosedIsSpoken DEF IInv, Past, Apart, capture
<1>7. Queued'
  BY <1>1, <1>2, <1>3, HeardFacts DEF IInv, Tasks, Past, Queued, FinalsSorted, JobsSorted, Busy
<1>8. Ordered'
  BY <1>2, <1>3, OrderedStays DEF IInv
<1>9. Settled'
  BY <1>1, <1>2, <1>3, HeardFacts DEF IInv, Past, Settled, Places
<1> QED BY <1>2, <1>4, <1>5, <1>6, <1>7, <1>8, <1>9 DEF IInv

LEMMA SegmentFinalKeeps ==
    ASSUME IInv, NEW u \in 1 .. MaxUtterances, SegmentFinal(u) PROVE IInv'
<1> USE DEF SegmentFinal
<1>1. Heard(u) /\ current' = 0 /\ provider = "local" /\ partial' = 0
  OBVIOUS
<1>2. /\ Later /\ Speaking' /\ Tasks'
      /\ StreamHas' = StreamHas /\ InJobs' = InJobs
      /\ \A p \in Places : /\ Published(p)' = Published(p)
                           /\ Coming(p)' \subseteq InFinals' \cup Coming(p)
      /\ StreamHas \subseteq Closed /\ Closed \subseteq Closed'
      /\ session # 0 /\ stopping = "no"
  BY <1>1, HeardKeeps
<1>3. /\ finals' \in Seq(Nat) /\ InFinals' = InFinals \cup {u} /\ FinalsSorted'
      /\ Closed' = Closed \cup {u}
  <2>1. \A x \in InFinals : x < u
    BY <1>1, HeardFacts DEF IInv, Past
  <2>2. u \in Nat /\ finals' = Append(finals, u)
    <3>1. u \in Nat \ {0}
      BY <1>1, HeardFacts
    <3> QED BY <3>1
  <2>3. finals' \in Seq(Nat) /\ InFinals' = InFinals \cup {u} /\ FinalsSorted'
    <3>1. finals \in Seq(Nat) /\ FinalsSorted
      BY DEF IInv, Types, Queued
    <3> QED BY <2>1, <2>2, <3>1, FinalAdded
  <2>4. Closed' = Closed \cup {u}
    <3>1. Closed = Spoken' \ {u} /\ u \in Spoken'
      BY <1>1, HeardFacts
    <3>2. Closed' = Spoken' \ {0} /\ 0 \notin Spoken'
      BY <1>1 DEF Closed, Spoken
    <3> QED BY <3>1, <3>2
  <2> QED BY <2>3, <2>4
<1>4. /\ LocalHas' \subseteq LocalHas \cup {u}
      /\ \A p \in Places : Coming(p)' \subseteq Coming(p) \cup {u}
  BY <1>2, <1>3 DEF LocalHas, Has, Busy, Coming
<1>5. Types'
  BY <1>1, <1>3, HeardFacts DEF IInv, Types, capture
<1>6. Past'
  BY <1>1, <1>2, <1>3, <1>4, HeardFacts DEF IInv, Past
<1>7. Apart'
  <2>1. \A v \in owed : v \in Spoken /\ owner'[v] = owner[v] /\ owner[v] # session
    BY <1>1, <1>2, HeardFacts, ClosedIsSpoken DEF IInv, Past, Apart
  <2>2. \A x \in LocalHas : x \in Spoken /\ owner'[x] = owner[x]
    BY <1>1, HeardFacts DEF IInv, Past
  <2>3. owner'[u] = session
    BY <1>1, HeardFacts
  <2> QED BY <1>1, <1>4, <2>1, <2>2, <2>3 DEF IInv, Apart, capture
<1>8. Queued'
  BY <1>1, <1>2, <1>3, HeardFacts DEF IInv, Tasks, Queued, JobsSorted, Busy
<1>9. Ordered'
  BY <1>1, <1>2, <1>4, OrderedStays, HeardFacts DEF IInv
<1>10. Settled'
  BY <1>1, <1>2, <1>4, HeardFacts DEF IInv, Past, Settled, Places
<1> QED BY <1>2, <1>5, <1>6, <1>7, <1>8, <1>9, <1>10 DEF IInv

\* A step of the stream that changes no queue: what it shows or gives up is u.
LEMMA StreamKeeps ==
    ASSUME IInv, NEW u \in 1 .. MaxUtterances, Heard(u), current' \in {0, u},
           UNCHANGED <<capture, queues, worker, reviewer, published, owed, pending>>,
           \/ screen' = screen \cup {u} /\ done' = done
           \/ screen' = screen \ {u} /\ done' = done \cup {u} /\ current' = 0,
           provider = "deepgram", threads' \in Nat, recheck' \in BOOLEAN, down' \in BOOLEAN
    PROVE IInv'
<1>1. /\ Later /\ Speaking' /\ Tasks'
      /\ StreamHas' = StreamHas /\ InJobs' = InJobs
      /\ \A p \in Places : /\ Published(p)' = Published(p)
                           /\ Coming(p)' \subseteq InFinals' \cup Coming(p)
      /\ StreamHas \subseteq Closed /\ Closed \subseteq Closed'
      /\ session # 0 /\ stopping = "no"
  BY HeardKeeps DEF queues
<1>2. /\ InFinals' = InFinals /\ LocalHas' = LocalHas
      /\ \A p \in Places : Coming(p)' \subseteq Coming(p)
  BY <1>1 DEF InFinals, LocalHas, Has, Busy, Coming, queues
<1>3. Types'
  BY HeardFacts DEF IInv, Types, capture, queues
<1>4. Past'
  BY <1>1, <1>2, HeardFacts DEF IInv, Past, Closed
<1>5. Apart'
  BY <1>1, <1>2, HeardFacts, ClosedIsSpoken DEF IInv, Past, Apart, capture
<1>6. Queued'
  BY <1>1, <1>2 DEF IInv, Queued, FinalsSorted, JobsSorted, Busy, queues
<1>7. Ordered'
  BY <1>1, <1>2, OrderedStays DEF IInv
<1>8. u \notin LocalHas
  BY HeardFacts, <1>1 DEF IInv, Past, Apart
<1>9. Settled'
  BY <1>1, <1>2, <1>8, HeardFacts DEF IInv, Past, Settled, Places
<1> QED BY <1>1, <1>3, <1>4, <1>5, <1>6, <1>7, <1>9 DEF IInv


LEMMA StreamPartialKeeps ==
    ASSUME IInv, NEW u \in 1 .. MaxUtterances, StreamPartial(u) PROVE IInv'
<1>1. threads' \in Nat /\ recheck' \in BOOLEAN /\ down' \in BOOLEAN
  BY DEF StreamPartial, IInv, Types
<1> QED BY <1>1, StreamKeeps DEF StreamPartial

LEMMA StreamDuplicateKeeps ==
    ASSUME IInv, NEW u \in 1 .. MaxUtterances, StreamDuplicate(u) PROVE IInv'
<1>1. threads' \in Nat /\ recheck' \in BOOLEAN /\ down' \in BOOLEAN
  BY DEF StreamDuplicate, IInv, Types
<1> QED BY <1>1, StreamKeeps DEF StreamDuplicate

LEMMA StreamFinalKeeps ==
    ASSUME IInv, NEW u \in 1 .. MaxUtterances, NEW risky \in BOOLEAN, StreamFinal(u, risky)
    PROVE IInv'
<1> DEFINE allow == risky /\ Rechecks < RecheckMax
<1>1. /\ Heard(u) /\ current' = 0 /\ provider = "deepgram" /\ owed' = owed \cup {u}
      /\ pending' = pending \cup {u} /\ screen' \subseteq screen \cup {u}
      /\ jobs' = Append(jobs, [utterance |-> u, allow |-> allow])
      /\ UNCHANGED <<capture, finals, partial, worker, reviewer, recheck, threads, published,
                     done, down>>
  BY DEF StreamFinal
<1>2. allow \in BOOLEAN
  OBVIOUS
<1> HIDE DEF allow
<1>3. /\ Later /\ Closed' = Closed \cup {u} /\ u \notin Closed /\ u \in Nat
      /\ session # 0 /\ stopping = "no"
  <2>1. Closed = Spoken' \ {u} /\ u \in Spoken' /\ u \in Nat
    BY <1>1, HeardFacts
  <2>2. Closed' = Spoken' \ {0} /\ 0 \notin Spoken'
    BY <1>1 DEF Closed, Spoken
  <2>3. \A x \in Spoken : x \in Spoken' /\ owner'[x] = owner[x]
    BY <1>1, HeardFacts
  <2> QED BY <1>1, <2>1, <2>2, <2>3 DEF Later, Heard
<1>4. /\ InFinals' = InFinals /\ LocalHas' = LocalHas /\ Has(reviewer)' = Has(reviewer)
      /\ \A p \in Places : Published(p)' = Published(p)
  BY <1>1 DEF InFinals, LocalHas, Has, Busy, Published
<1>5. /\ jobs' \in Seq([utterance : Nat, allow : BOOLEAN])
      /\ InJobs' = InJobs \cup {u} /\ JobsSorted'
  <2>1. jobs \in Seq([utterance : Nat, allow : BOOLEAN]) /\ JobsSorted
    BY DEF IInv, Types, Queued
  <2>2. InJobs \subseteq Closed
    BY DEF IInv, Past, StreamHas
  <2>3. \A x \in InJobs : x < u
    BY <1>1, <2>2, HeardFacts
  <2>4. [utterance |-> u, allow |-> allow] \in [utterance : Nat, allow : BOOLEAN]
        /\ [utterance |-> u, allow |-> allow].utterance = u
    BY <1>2, <1>3
  <2> QED BY <1>1, <2>1, <2>3, <2>4, JobAdded
<1>6. /\ StreamHas' = StreamHas \cup {u}
      /\ \A p \in Places : Coming(p)' = Coming(p) \cup {u}
  BY <1>1, <1>4, <1>5 DEF StreamHas, Coming, Brings, Ahead
<1>7. Types'
  BY <1>1, <1>5, HeardFacts DEF IInv, Types, capture
<1>8. Speaking' /\ Tasks'
  BY <1>1, <1>3, HeardFacts DEF IInv, Speaking, Tasks, Busy, capture, Types
<1>9. Past'
  BY <1>1, <1>3, <1>4, <1>6, HeardFacts DEF IInv, Past
<1>10. Apart'
  <2>1. \A x \in LocalHas : x \in Spoken /\ owner'[x] = owner[x] /\ owner[x] # session
    BY <1>1, <1>3, HeardFacts DEF IInv, Past, Apart
  <2>2. \A v \in owed : owner'[v] = owner[v]
    BY <1>1, HeardFacts, ClosedIsSpoken DEF IInv, Past
  <2>3. owner'[u] = session
    BY <1>1, HeardFacts
  <2> QED BY <1>1, <1>4, <2>1, <2>2, <2>3 DEF IInv, Apart, capture
<1>11. Queued'
  <2>1. Busy(reviewer) => reviewer.job < u
    BY <1>1, HeardFacts DEF IInv, Past, StreamHas, Has
  <2> QED BY <1>1, <1>4, <1>5, <2>1 DEF IInv, Queued, FinalsSorted, Busy
<1>12. Ordered'
  BY <1>1, <1>3, <1>6, OrderedStays, HeardFacts DEF IInv
<1>13. Settled'
  <2>1. u \notin done /\ u \notin LocalHas
    BY <1>1, <1>3, HeardFacts DEF IInv, Past, Apart
  <2> QED BY <1>1, <1>4, <1>6, <2>1 DEF IInv, Settled, Places
<1> QED BY <1>7, <1>8, <1>9, <1>10, <1>11, <1>12, <1>13 DEF IInv

-----------------------------------------------------------------------------
(* The worker of the local recognizer *)

LEMMA TakeKeeps == ASSUME IInv, Take PROVE IInv'
<1>1. CASE /\ finals # << >> /\ worker' = At("inferring", Head(finals), TRUE)
           /\ finals' = Tail(finals) /\ partial' = partial
  <2>1. finals \in Seq(Nat) /\ FinalsSorted
    BY DEF IInv, Types, Queued
  <2>2. /\ finals' \in Seq(Nat) /\ InFinals' \subseteq InFinals /\ FinalsSorted'
        /\ Head(finals) \in InFinals /\ Head(finals) \in Nat
        /\ \A x \in InFinals' : Head(finals) < x
    BY <1>1, <2>1, FinalTaken
  <2>3. worker'.at = "inferring" /\ worker'.job = Head(finals) /\ worker'.final /\ worker.at = "idle"
        /\ ~worker.final
    BY <1>1 DEF Take, At, Idle
  <2>4. Head(finals) \in Closed /\ Head(finals) \in Nat
    BY <2>2 DEF IInv, Past
  <2>5. Types'
    BY <1>1, <2>2, <2>4 DEF IInv, Types, Take, At, capture, speech
  <2>6. /\ InJobs' = InJobs /\ LocalHas' \subseteq LocalHas /\ StreamHas' = StreamHas
        /\ \A p \in Places : Published(p)' = Published(p) /\ Coming(p)' \subseteq Coming(p)
    BY <1>1, <2>2, <2>3 DEF Take, InJobs, LocalHas, StreamHas, Has, Busy, Published, Coming,
                            Brings, Ahead
  <2>7. /\ Speaking' /\ Later /\ Apart'
        /\ LocalHas' \subseteq Spoken' /\ InFinals' \subseteq Closed'
        /\ StreamHas' \subseteq owed' /\ owed' \subseteq Closed'
    BY <2>2, <2>6, Handed DEF Take, capture, speech
  <2>8. Tasks'
    BY <2>3, <2>4, <2>7 DEF Take, IInv, Tasks, Busy, Places, Later
  <2>9. Past'
    BY <2>6, <2>7 DEF Take, IInv, Past, Later
  <2>10. Queued'
    BY <1>1, <2>2, <2>3 DEF Take, IInv, Queued, JobsSorted, InJobs, Busy
  <2>11. Ordered'
    BY <2>6, <2>7, OrderedStays DEF IInv, Take
  <2>12. Settled'
    BY <2>6 DEF Take, IInv, Settled, Places
  <2> QED BY <2>5, <2>7, <2>8, <2>9, <2>10, <2>11, <2>12 DEF IInv
<1>2. CASE /\ partial # 0 /\ worker' = At("inferring", partial, FALSE)
           /\ partial' = 0 /\ finals' = finals
  <2>1. worker'.at = "inferring" /\ worker'.job = partial /\ ~worker'.final /\ worker.at = "idle"
        /\ ~worker.final
    BY <1>2 DEF Take, At, Idle
  <2>2. Types'
    BY <1>2 DEF IInv, Types, Take, At, capture, speech
  <2>3. /\ InFinals' = InFinals /\ InJobs' = InJobs
        /\ LocalHas' \subseteq LocalHas /\ StreamHas' = StreamHas
        /\ \A p \in Places : Published(p)' = Published(p) /\ Coming(p)' \subseteq Coming(p)
    <3>1. InFinals' = InFinals /\ InJobs' = InJobs /\ UNCHANGED <<reviewer, published>>
      BY <1>2 DEF Take, InFinals, InJobs
    <3>2. StreamHas' = StreamHas /\ \A p \in Places : Published(p)' = Published(p)
      BY <3>1 DEF StreamHas, Has, Busy, Published
    <3>3. LocalHas' \subseteq LocalHas
      BY <1>2, <2>1, <3>1 DEF LocalHas, Has, Busy
    <3>4. ASSUME NEW p \in Places PROVE Coming(p)' \subseteq Coming(p)
      <4>1. Brings(worker, p)' = {}
        BY <2>1 DEF Brings
      <4>2. Brings(reviewer, p)' = Brings(reviewer, p)
        BY <3>1 DEF Brings, Ahead
      <4> QED BY <3>1, <4>1, <4>2 DEF Coming
    <3> QED BY <3>1, <3>2, <3>3, <3>4
  <2>4. /\ Speaking' /\ Later /\ Apart'
        /\ LocalHas' \subseteq Spoken' /\ InFinals' \subseteq Closed'
        /\ StreamHas' \subseteq owed' /\ owed' \subseteq Closed'
    BY <2>3, Handed DEF Take, capture, speech
  <2>5. Tasks'
    BY <2>1, <2>4 DEF Take, IInv, Tasks, Busy, Places, Later
  <2>6. Past'
    BY <2>3, <2>4 DEF Take, IInv, Past, Later
  <2>7. Queued'
    BY <1>2, <2>1, <2>3 DEF Take, IInv, Queued, FinalsSorted, JobsSorted, Busy
  <2>8. Ordered'
    BY <2>3, <2>4, OrderedStays DEF IInv, Take
  <2>9. Settled'
    BY <2>3 DEF Take, IInv, Settled, Places
  <2> QED BY <2>2, <2>4, <2>5, <2>6, <2>7, <2>8, <2>9 DEF IInv
<1> QED BY <1>1, <1>2 DEF Take


LEMMA InferredPartialKeeps == ASSUME IInv, InferredPartial PROVE IInv'
<1>1. /\ worker.at = "inferring" /\ ~worker.final /\ worker' = Idle
      /\ worker'.at = "idle" /\ ~worker'.final
      /\ screen' \subseteq screen \cup {worker.job}
      /\ UNCHANGED <<capture, speech, queues, reviewer, recheck, threads, pending, published,
                     owed, done, down>>
  BY DEF InferredPartial, Idle
<1>2. Types'
  BY <1>1 DEF IInv, Types, capture, speech, queues, Idle
<1>3. /\ InFinals' = InFinals /\ InJobs' = InJobs /\ LocalHas' \subseteq LocalHas
      /\ StreamHas' = StreamHas /\ worker.job \in LocalHas
      /\ \A p \in Places : Published(p)' = Published(p) /\ Coming(p)' \subseteq Coming(p)
  BY <1>1 DEF InFinals, InJobs, LocalHas, StreamHas, Has, Busy, Published, Coming, Brings, Ahead,
              queues
<1>4. /\ Speaking' /\ Later /\ Apart'
      /\ LocalHas' \subseteq Spoken' /\ InFinals' \subseteq Closed'
      /\ StreamHas' \subseteq owed' /\ owed' \subseteq Closed'
  BY <1>1, <1>3, Handed DEF capture, speech
<1>5. Tasks'
  BY <1>1, <1>4 DEF IInv, Tasks, Busy, Places
<1>6. Past'
  BY <1>1, <1>3, <1>4 DEF IInv, Past, Later
<1>7. Queued'
  BY <1>1, <1>3 DEF IInv, Queued, FinalsSorted, JobsSorted, Busy, queues
<1>8. Ordered'
  BY <1>1, <1>3, <1>4, OrderedStays DEF IInv
<1>9. Settled'
  BY <1>1, <1>3 DEF IInv, Settled, Places
<1> QED BY <1>2, <1>4, <1>5, <1>6, <1>7, <1>8, <1>9 DEF IInv

\* The worker is done with a final: nobody has it, and the stream does not owe it.
LEMMA WorkerCompletes ==
    ASSUME IInv, worker.final, worker' = Idle, Completes(worker.job),
           UNCHANGED <<queues, reviewer, owed>>,
           \A p \in Places : Published(p) \subseteq Published(p)'
    PROVE Settled'
<1>1. /\ InFinals' = InFinals /\ ~Busy(worker)' /\ partial' = partial
      /\ StreamHas' = StreamHas /\ LocalHas' \subseteq LocalHas
      /\ LocalHas' \subseteq InFinals \cup ({partial} \ {0})
  BY DEF InFinals, InJobs, StreamHas, LocalHas, Has, Busy, Idle, queues
<1>2. worker.job \in LocalHas /\ worker.job \in Nat
  BY DEF IInv, Tasks, Types, LocalHas, Has
<1>3. worker.job \notin owed /\ worker.job \notin StreamHas
  BY <1>2 DEF IInv, Apart, Past
<1>4. worker.job \notin LocalHas'
  BY <1>1, <1>2 DEF IInv, Queued
<1> QED BY <1>1, <1>2, <1>3, <1>4 DEF IInv, Settled, Completes, Places

LEMMA InferredFinalKeeps == ASSUME IInv, InferredFinal PROVE IInv'
<1>1. /\ worker.at = "inferring" /\ worker.final
      /\ \/ worker' = [worker EXCEPT !.at = "file"] /\ UNCHANGED <<pending, screen, done>>
         \/ worker' = Idle /\ Completes(worker.job)
      /\ UNCHANGED <<capture, speech, queues, reviewer, recheck, threads, published, owed, down>>
  BY DEF InferredFinal
<1>2. worker' \in [at : {"idle", "inferring"} \cup Places, job : Nat, final : BOOLEAN]
  <2>1. CASE worker' = [worker EXCEPT !.at = "file"]
    BY <2>1 DEF IInv, Types, Places
  <2>2. CASE worker' = Idle
    BY <2>2 DEF Idle
  <2> QED BY <1>1, <2>1, <2>2
<1>3. Types'
  BY <1>1, <1>2 DEF IInv, Types, capture, speech, queues
<1>4. \/ worker'.at = "file" /\ worker'.job = worker.job /\ worker'.final
      \/ worker'.at = "idle" /\ ~worker'.final
  BY <1>1 DEF IInv, Types, Idle
<1>5. /\ InFinals' = InFinals /\ InJobs' = InJobs /\ LocalHas' \subseteq LocalHas
      /\ StreamHas' = StreamHas
      /\ \A p \in Places : Published(p)' = Published(p) /\ Coming(p)' \subseteq Coming(p)
  BY <1>1, <1>4 DEF InFinals, InJobs, LocalHas, StreamHas, Has, Busy, Published, Coming, Brings,
                    Ahead, queues
<1>6. /\ Speaking' /\ Later /\ Apart'
      /\ LocalHas' \subseteq Spoken' /\ InFinals' \subseteq Closed'
      /\ StreamHas' \subseteq owed' /\ owed' \subseteq Closed'
  BY <1>1, <1>5, Handed DEF capture, speech
<1>7. Tasks'
  BY <1>1, <1>4, <1>6 DEF IInv, Tasks, Busy, Places, Later
<1>8. Past'
  <2>1. pending' \subseteq pending /\ screen' \subseteq screen /\ done' \subseteq done \cup {worker.job}
    BY <1>1 DEF Completes
  <2>2. worker.job \in Closed
    BY <1>1 DEF IInv, Tasks
  <2> QED BY <1>1, <1>5, <1>6, <2>1, <2>2 DEF IInv, Past, Later
<1>9. Queued'
  BY <1>1, <1>4, <1>5 DEF IInv, Queued, FinalsSorted, JobsSorted, Busy, queues
<1>10. Ordered'
  BY <1>1, <1>5, <1>6, OrderedStays DEF IInv
<1>11. Settled'
  <2>1. CASE UNCHANGED <<pending, screen, done>>
    BY <1>1, <1>5, <2>1 DEF IInv, Settled, Places
  <2>2. CASE worker' = Idle /\ Completes(worker.job)
    BY <1>1, <1>5, <2>2, WorkerCompletes
  <2> QED BY <1>1, <2>1, <2>2
<1> QED BY <1>3, <1>6, <1>7, <1>8, <1>9, <1>10, <1>11 DEF IInv

-----------------------------------------------------------------------------
(* The worker of the stream *)

LEMMA ReviewKeeps == ASSUME IInv, Review PROVE IInv'
<1> DEFINE u == Head(jobs).utterance
<1>1. /\ reviewer = Idle /\ jobs # << >> /\ jobs' = Tail(jobs)
      /\ reviewer' = At("file", u, TRUE) \/ reviewer' = At("rechecking", u, TRUE)
      /\ \/ recheck' = recheck /\ threads' = threads
         \/ recheck' = TRUE /\ threads' = threads + 1
      /\ UNCHANGED <<capture, speech, finals, partial, worker, pending, screen, published, owed,
                     done, down>>
  BY DEF Review
<1>2. /\ jobs' \in Seq([utterance : Nat, allow : BOOLEAN])
      /\ InJobs' \subseteq InJobs /\ JobsSorted'
      /\ u \in InJobs /\ u \in Nat /\ \A x \in InJobs' : u < x
  <2>1. jobs \in Seq([utterance : Nat, allow : BOOLEAN]) /\ JobsSorted
    BY DEF IInv, Types, Queued
  <2> QED BY <1>1, <2>1, JobTaken
<1> HIDE DEF u
<1>3. /\ reviewer.at = "idle" /\ ~reviewer.final
      /\ reviewer'.at \in {"file", "rechecking"} /\ reviewer'.job = u /\ reviewer'.final
      /\ reviewer' \in [at : {"idle", "rechecking"} \cup Places, job : Nat, final : BOOLEAN]
  <2>1. CASE reviewer' = At("file", u, TRUE)
    BY <1>1, <1>2, <2>1 DEF At, Idle, Places
  <2>2. CASE reviewer' = At("rechecking", u, TRUE)
    BY <1>1, <1>2, <2>2 DEF At, Idle, Places
  <2> QED BY <1>1, <2>1, <2>2
<1>4. Types'
  <2>1. threads' \in Nat
    BY <1>1 DEF IInv, Types
  <2>2. recheck' \in BOOLEAN
    BY <1>1 DEF IInv, Types
  <2> QED BY <1>1, <1>2, <1>3, <2>1, <2>2 DEF IInv, Types, capture, speech
<1>5. /\ InFinals' = InFinals /\ LocalHas' = LocalHas /\ StreamHas' \subseteq StreamHas
      /\ \A p \in Places : Published(p)' = Published(p) /\ Coming(p)' \subseteq Coming(p)
  BY <1>1, <1>2, <1>3 DEF InFinals, LocalHas, StreamHas, Has, Busy, Published, Coming, Brings, Ahead
<1>6. /\ Speaking' /\ Later /\ Apart'
      /\ LocalHas' \subseteq Spoken' /\ InFinals' \subseteq Closed'
      /\ StreamHas' \subseteq owed' /\ owed' \subseteq Closed'
  BY <1>1, <1>5, Handed DEF capture, speech
<1>7. Tasks'
  BY <1>1, <1>3, <1>6 DEF IInv, Tasks, Busy, Later
<1>8. Past'
  BY <1>1, <1>5, <1>6 DEF IInv, Past, Later
<1>9. Queued'
  BY <1>1, <1>2, <1>3, <1>5 DEF IInv, Queued, FinalsSorted
<1>10. Ordered'
  BY <1>1, <1>5, <1>6, OrderedStays DEF IInv
<1>11. Settled'
  BY <1>1, <1>3, <1>5 DEF IInv, Settled, Places
<1> QED BY <1>4, <1>6, <1>7, <1>8, <1>9, <1>10, <1>11 DEF IInv

-----------------------------------------------------------------------------
(* Publication, by either worker *)

\* What a task has published to the place where it is, it does not bring there
\* again.
LEMMA GoesFacts ==
    ASSUME NEW task, task \in [at : {"idle", "inferring", "rechecking"} \cup Places,
                               job : Nat, final : BOOLEAN],
           task.at \in Places, task.final
    PROVE /\ Goes(task) \in [at : {"idle"} \cup Places, job : Nat, final : BOOLEAN]
          /\ task.at = "translation" => Goes(task) = Idle /\ Following(task.at) = "over"
          /\ task.at # "translation" =>
                /\ Following(task.at) # "over"
                /\ Goes(task).at \in Places /\ Goes(task).job = task.job /\ Goes(task).final
          /\ Goes(task).at = "translation" => task.at = "browser"
          /\ \A p \in Places : Brings(Goes(task), p) \subseteq Brings(task, p)
          /\ Brings(Goes(task), task.at) = {} /\ task.job \in Brings(task, task.at)
          /\ Has(Goes(task)) \subseteq Has(task) /\ task.job \in Has(task)
          /\ Goes(task).final <=> Busy(Goes(task))
          /\ Goes(task).final => task.at # "translation"
BY DEF Goes, Following, Idle, Places, Brings, Ahead, Has, Busy

\* A task publishes after everything that precedes it, and before all others.
LEMMA PublishesFacts ==
    ASSUME IInv, NEW task, NEW reached \in BOOLEAN, Publishes(task, reached),
           task.job \in Nat, task.job \in Closed, task.job \in Coming(task.at),
           owner' = owner, Later,
           \A p \in Places : Coming(p)' \subseteq Coming(p),
           \A y \in Coming(task.at)' : Precedes(task.job, y)
    PROVE /\ task.at \in Places
          /\ Ordered' /\ published' \in [Places -> Seq(Nat)]
          /\ \A p \in Places : /\ Published(p) \subseteq Published(p)'
                               /\ Published(p)' \subseteq Published(p) \cup {task.job}
          /\ task.at = "browser" => task.job \in Published("browser")'
<1>1. task.at \in Places
  BY DEF Publishes
<1>2. CASE published' = [published EXCEPT ![task.at] = Append(@, task.job)]
  BY <1>1, <1>2, OrderedPublishes DEF IInv
<1>3. CASE published' = published /\ task.at # "browser"
  <2>1. Ordered'
    BY <1>3, OrderedStays DEF IInv
  <2>2. \A p \in Places : Published(p)' = Published(p)
    BY <1>3 DEF Published
  <2> QED BY <1>1, <1>3, <2>1, <2>2 DEF IInv, Types
<1> QED BY <1>2, <1>3 DEF Publishes

LEMMA WorkerPublishesKeeps ==
    ASSUME IInv, NEW reached \in BOOLEAN, WorkerPublishes(reached) PROVE IInv'
<1> SUFFICES ASSUME NEW t, t = worker PROVE IInv'
  OBVIOUS
<1>1. /\ Publishes(t, reached) /\ worker' = Goes(t)
      /\ UNCHANGED <<capture, speech, queues, reviewer, recheck, threads, owed, down>>
  BY DEF WorkerPublishes, Publishes, Goes
<1>2. /\ t.at \in Places /\ t.final /\ t.job \in Closed /\ t.job \in Nat
      /\ t \in [at : {"idle", "inferring", "rechecking"} \cup Places, job : Nat, final : BOOLEAN]
  BY <1>1 DEF Publishes, IInv, Types, Tasks
<1>3. /\ Brings(worker', t.at) = {}
      /\ t.at = "translation" => worker' = Idle /\ Following(t.at) = "over"
      /\ t.at # "translation" =>
            /\ Following(t.at) # "over"
            /\ worker'.at \in Places /\ worker'.job = t.job /\ worker'.final
      /\ Has(worker') \subseteq Has(worker) /\ t.job \in Has(worker)
      /\ worker' \in [at : {"idle"} \cup Places, job : Nat, final : BOOLEAN]
      /\ worker'.final <=> Busy(worker')
      /\ worker'.final => t.at # "translation"
  BY <1>1, <1>2, GoesFacts
<1>4. /\ \A p \in Places : Brings(worker', p) \subseteq Brings(worker, p)
      /\ t.job \in Brings(worker, t.at)
  BY <1>1, <1>2, GoesFacts
<1>5. /\ InFinals' = InFinals /\ InJobs' = InJobs /\ LocalHas' \subseteq LocalHas
      /\ StreamHas' = StreamHas /\ t.job \in LocalHas
  <2>1. Has(worker)' = Has(worker') /\ Has(reviewer)' = Has(reviewer)
    BY <1>1 DEF Has, Busy
  <2> QED BY <1>1, <1>3, <2>1 DEF InFinals, InJobs, LocalHas, StreamHas, queues
<1>6. /\ \A p \in Places : Coming(p)' \subseteq Coming(p)
      /\ t.job \in Coming(t.at)
      /\ Coming(t.at)' \subseteq InFinals \cup StreamHas
  <2>1. \A p \in Places : /\ Brings(worker, p)' = Brings(worker', p)
                          /\ Brings(reviewer, p)' = Brings(reviewer, p)
    BY <1>1 DEF Brings, Ahead
  <2>2. \A p \in Places : Brings(reviewer, p) \subseteq Has(reviewer)
    BY DEF Brings, Has, IInv, Tasks
  <2>3. \A p \in Places :
            Coming(p)' = InFinals \cup InJobs \cup Brings(worker', p) \cup Brings(reviewer, p)
    BY <1>5, <2>1 DEF Coming
  <2> QED BY <1>2, <1>3, <1>4, <2>2, <2>3 DEF Coming, StreamHas
<1>7. /\ Speaking' /\ Later /\ Apart'
      /\ LocalHas' \subseteq Spoken' /\ InFinals' \subseteq Closed'
      /\ StreamHas' \subseteq owed' /\ owed' \subseteq Closed'
  BY <1>1, <1>5, Handed DEF capture, speech
<1>8. \A y \in Coming(t.at)' : Precedes(t.job, y)
  <2>1. \A y \in InFinals : t.job < y
    BY <1>2 DEF IInv, Queued
  <2>2. \A y \in StreamHas : owner[y] # owner[t.job]
    BY <1>5 DEF IInv, Apart, Past
  <2> QED BY <1>6, <2>1, <2>2 DEF Precedes
<1>9. /\ Ordered' /\ published' \in [Places -> Seq(Nat)]
      /\ \A p \in Places : /\ Published(p) \subseteq Published(p)'
                           /\ Published(p)' \subseteq Published(p) \cup {t.job}
  BY <1>1, <1>2, <1>6, <1>7, <1>8, PublishesFacts DEF speech
<1>10. Types'
  <2>1. worker' \in [at : {"idle", "inferring"} \cup Places, job : Nat, final : BOOLEAN]
    BY <1>3
  <2> QED BY <1>1, <1>9, <2>1 DEF IInv, Types, capture, speech, queues
<1>11. Tasks'
  <2>1. worker'.final => Busy(worker)' /\ worker'.job \in Closed'
    BY <1>2, <1>3, <1>7 DEF Busy, Later
  <2>2. worker'.at \in Places => worker'.final
    BY <1>3 DEF Busy, Places
  <2>3. reviewer'.final <=> Busy(reviewer)'
    BY <1>1 DEF IInv, Tasks, Busy
  <2> QED BY <2>1, <2>2, <2>3 DEF Tasks
<1>12. Past'
  <2>1. pending' \subseteq pending /\ screen' \subseteq screen /\ done' \subseteq done \cup {t.job}
    BY <1>1 DEF Publishes, Completes
  <2> QED BY <1>1, <1>2, <1>7, <1>9, <2>1 DEF IInv, Past, Later
<1>13. Queued'
  <2>1. worker'.final => worker.final /\ worker'.job = worker.job
    BY <1>2, <1>3
  <2>2. Busy(reviewer)' = Busy(reviewer)
    BY <1>1 DEF Busy
  <2> QED BY <1>1, <1>5, <2>1, <2>2 DEF IInv, Queued, FinalsSorted, JobsSorted, queues
<1>14. Settled'
  <2>1. CASE t.at = "translation"
    <3>1. Completes(t.job)
      BY <1>1, <1>3, <2>1 DEF Publishes
    <3>2. Completes(worker.job)
      BY <3>1 DEF Completes
    <3> QED BY <1>1, <1>2, <1>3, <1>9, <2>1, <3>2, WorkerCompletes
  <2>2. CASE t.at # "translation"
    <3>1. UNCHANGED <<screen, pending, done>>
      BY <1>1, <1>3, <2>2 DEF Publishes
    <3> QED BY <1>1, <1>5, <1>9, <3>1 DEF IInv, Settled, Places
  <2> QED BY <2>1, <2>2
<1> QED BY <1>7, <1>9, <1>10, <1>11, <1>12, <1>13, <1>14 DEF IInv

LEMMA ReviewerPublishesKeeps ==
    ASSUME IInv, NEW reached \in BOOLEAN, ReviewerPublishes(reached) PROVE IInv'
<1> SUFFICES ASSUME NEW t, t = reviewer PROVE IInv'
  OBVIOUS
<1>1. /\ Publishes(t, reached) /\ reviewer' = Goes(t)
      /\ UNCHANGED <<capture, speech, queues, worker, recheck, threads, owed, down>>
  BY DEF ReviewerPublishes, Publishes, Goes
<1>2. /\ t.at \in Places /\ t.final /\ t.job \in Closed /\ t.job \in Nat /\ t.job \in owed
      /\ t \in [at : {"idle", "inferring", "rechecking"} \cup Places, job : Nat, final : BOOLEAN]
  <2>1. t.at \in Places /\ Busy(reviewer)
    BY <1>1 DEF Publishes, Busy, Places
  <2>2. t.job \in StreamHas
    BY <2>1 DEF StreamHas, Has
  <2> QED BY <2>1, <2>2 DEF IInv, Types, Tasks, Past
<1>3. /\ Brings(reviewer', t.at) = {}
      /\ t.at = "translation" => reviewer' = Idle /\ Following(t.at) = "over"
      /\ t.at # "translation" =>
            /\ Following(t.at) # "over"
            /\ reviewer'.at \in Places /\ reviewer'.job = t.job /\ reviewer'.final
      /\ reviewer'.at = "translation" => t.at = "browser"
      /\ Has(reviewer') \subseteq Has(reviewer) /\ t.job \in Has(reviewer)
      /\ reviewer' \in [at : {"idle"} \cup Places, job : Nat, final : BOOLEAN]
      /\ reviewer'.final <=> Busy(reviewer')
      /\ reviewer'.final => t.at # "translation"
  BY <1>1, <1>2, GoesFacts
<1>4. /\ \A p \in Places : Brings(reviewer', p) \subseteq Brings(reviewer, p)
      /\ t.job \in Brings(reviewer, t.at)
  BY <1>1, <1>2, GoesFacts
<1>5. /\ InFinals' = InFinals /\ InJobs' = InJobs /\ LocalHas' = LocalHas
      /\ StreamHas' \subseteq StreamHas
      /\ t.at = "translation" => StreamHas' = InJobs
  <2>1. Has(worker)' = Has(worker) /\ Has(reviewer)' = Has(reviewer')
    BY <1>1 DEF Has, Busy
  <2>2. t.at = "translation" => Has(reviewer') = {}
    BY <1>3 DEF Has, Busy, Idle
  <2> QED BY <1>1, <1>3, <2>1, <2>2 DEF InFinals, InJobs, LocalHas, StreamHas, queues
<1>6. /\ \A p \in Places : Coming(p)' \subseteq Coming(p)
      /\ t.job \in Coming(t.at)
      /\ Coming(t.at)' \subseteq InJobs \cup LocalHas
  <2>1. \A p \in Places : /\ Brings(reviewer, p)' = Brings(reviewer', p)
                          /\ Brings(worker, p)' = Brings(worker, p)
    BY <1>1 DEF Brings, Ahead
  <2>2. \A p \in Places : Brings(worker, p) \subseteq Has(worker)
    BY DEF Brings, Has, IInv, Tasks
  <2>3. \A p \in Places :
            Coming(p)' = InFinals \cup InJobs \cup Brings(worker, p) \cup Brings(reviewer', p)
    BY <1>5, <2>1 DEF Coming
  <2> QED BY <1>2, <1>3, <1>4, <2>2, <2>3 DEF Coming, LocalHas
<1>7. /\ Speaking' /\ Later /\ Apart'
      /\ LocalHas' \subseteq Spoken' /\ InFinals' \subseteq Closed'
      /\ StreamHas' \subseteq owed' /\ owed' \subseteq Closed'
  BY <1>1, <1>5, Handed DEF capture, speech
<1>8. \A y \in Coming(t.at)' : Precedes(t.job, y)
  <2>1. \A y \in InJobs : t.job < y
    BY <1>2 DEF IInv, Queued, Tasks
  <2>2. \A y \in LocalHas : owner[y] # owner[t.job]
    BY <1>2 DEF IInv, Apart
  <2> QED BY <1>6, <2>1, <2>2 DEF Precedes
<1>9. /\ Ordered' /\ published' \in [Places -> Seq(Nat)]
      /\ \A p \in Places : /\ Published(p) \subseteq Published(p)'
                           /\ Published(p)' \subseteq Published(p) \cup {t.job}
      /\ t.at = "browser" => t.job \in Published("browser")'
  BY <1>1, <1>2, <1>6, <1>7, <1>8, PublishesFacts DEF speech
<1>10. Types'
  <2>1. reviewer' \in [at : {"idle", "rechecking"} \cup Places, job : Nat, final : BOOLEAN]
    BY <1>3
  <2> QED BY <1>1, <1>9, <2>1 DEF IInv, Types, capture, speech, queues
<1>11. Tasks'
  BY <1>1, <1>3, <1>7 DEF IInv, Tasks, Busy, Later
<1>12. Past'
  <2>1. pending' \subseteq pending /\ screen' \subseteq screen /\ done' \subseteq done \cup {t.job}
    BY <1>1 DEF Publishes, Completes
  <2> QED BY <1>1, <1>2, <1>7, <1>9, <2>1 DEF IInv, Past, Later
<1>13. Queued'
  <2>1. Busy(reviewer)' => Busy(reviewer) /\ reviewer'.job = reviewer.job
    BY <1>2, <1>3 DEF IInv, Tasks, Busy
  <2> QED BY <1>1, <1>5, <2>1 DEF IInv, Queued, FinalsSorted, JobsSorted, queues
<1>14. Settled'
  <2>1. t.at = "translation" => t.job \in Published("browser")
    BY DEF IInv, Settled
  <2>2. reviewer'.at = "translation" => reviewer'.job \in Published("browser")'
    BY <1>3, <1>9
  <2>3. CASE t.at = "translation"
    <3>1. Completes(t.job)
      BY <1>1, <1>3, <2>3 DEF Publishes
    <3>2. t.job \notin InJobs /\ t.job \notin LocalHas
      BY <1>2 DEF IInv, Queued, Apart, Tasks
    <3> QED BY <1>1, <1>5, <1>9, <2>1, <2>2, <2>3, <3>1, <3>2 DEF IInv, Settled, Completes, Places
  <2>4. CASE t.at # "translation"
    <3>1. UNCHANGED <<screen, pending, done>>
      BY <1>1, <1>3, <2>4 DEF Publishes
    <3> QED BY <1>1, <1>5, <1>9, <2>2, <3>1 DEF IInv, Settled, Places
  <2> QED BY <2>3, <2>4
<1> QED BY <1>7, <1>9, <1>10, <1>11, <1>12, <1>13, <1>14 DEF IInv

-----------------------------------------------------------------------------
(* The invariant of the pipeline *)

LEMMA InitHolds == Init => IInv
<1> SUFFICES ASSUME Init PROVE IInv
  OBVIOUS
<1>1. /\ session = 0 /\ opened = 0 /\ owner = << >> /\ current = 0 /\ partial = 0
      /\ finals = << >> /\ jobs = << >> /\ worker = Idle /\ reviewer = Idle
      /\ pending = {} /\ screen = {} /\ owed = {} /\ done = {}
      /\ published = [p \in Places |-> << >>]
  BY DEF Init
<1>2. /\ worker.at = "idle" /\ ~worker.final /\ reviewer.at = "idle" /\ ~reviewer.final
      /\ Len(owner) = 0 /\ Len(finals) = 0 /\ Len(jobs) = 0
      /\ \A p \in Places : Len(published[p]) = 0
  BY <1>1 DEF Idle
<1>3. /\ InFinals = {} /\ InJobs = {} /\ LocalHas = {} /\ StreamHas = {}
      /\ \A p \in Places : Published(p) = {}
  BY <1>1, <1>2 DEF InFinals, InJobs, LocalHas, StreamHas, Has, Busy, Published
<1>4. Types
  <2>1. worker \in [at : {"idle", "inferring"} \cup Places, job : Nat, final : BOOLEAN]
    BY <1>1 DEF Idle
  <2>2. reviewer \in [at : {"idle", "rechecking"} \cup Places, job : Nat, final : BOOLEAN]
    BY <1>1 DEF Idle
  <2>3. published \in [Places -> Seq(Nat)]
    BY <1>1
  <2>4. MaxSessions \in Nat
    BY PipelineAssumption
  <2>5. owner \in Seq(Nat \ {0}) /\ finals \in Seq(Nat)
    BY <1>1
  <2>6. jobs \in Seq([utterance : Nat, allow : BOOLEAN])
    BY <1>1
  <2>7. /\ session \in Nat /\ opened \in Nat /\ session <= opened /\ opened <= MaxSessions
        /\ partial \in Nat /\ threads \in Nat
    BY <1>1, <2>4 DEF Init
  <2>8. /\ provider \in {"local", "deepgram"} /\ stopping \in {"no", "waiting"}
        /\ recheck \in BOOLEAN /\ down \in BOOLEAN
    BY DEF Init
  <2> QED BY <2>1, <2>2, <2>3, <2>5, <2>6, <2>7, <2>8 DEF Types
<1>5. Speaking /\ Tasks /\ Past /\ Apart /\ Settled
  BY <1>1, <1>2, <1>3 DEF Speaking, Tasks, Past, Apart, Settled, Spoken, Busy, Places
<1>6. Queued /\ Ordered
  BY <1>1, <1>2, <1>3 DEF Queued, Ordered, FinalsSorted, JobsSorted, Busy
<1> QED BY <1>4, <1>5, <1>6 DEF IInv

LEMMA StepKeeps == IInv /\ [Next]_vars => IInv'
<1> SUFFICES ASSUME IInv, [Next]_vars PROVE IInv'
  OBVIOUS
<1>1. CASE Start \/ Stop \/ Finalize \/ Shutdown
  BY <1>1, StartKeeps, StopKeeps, FinalizeKeeps, ShutdownKeeps
<1>2. CASE Speech
  BY <1>2, SegmentPartialKeeps, SegmentFinalKeeps, StreamPartialKeeps, StreamDuplicateKeeps,
     StreamFinalKeeps DEF Speech
<1>3. CASE Local
  BY <1>3, TakeKeeps, InferredPartialKeeps, InferredFinalKeeps, WorkerPublishesKeeps DEF Local
<1>4. CASE Streamed
  BY <1>4, ReviewKeeps, RecheckTimesOutKeeps, ReviewerPublishesKeeps DEF Streamed
<1>5. CASE RecheckEnds
  BY <1>5, RecheckEndsKeeps
<1>6. CASE UNCHANGED vars
  <2>1. Types'
    BY <1>6 DEF IInv, Types, vars, capture, speech, queues
  <2> QED BY <1>6, <2>1, StillKeeps DEF vars, capture, speech, queues
<1> QED BY <1>1, <1>2, <1>3, <1>4, <1>5, <1>6 DEF Next

\* The invariant holds of every reachable state, whatever the bounds.
THEOREM PipelineInvariance == Spec => []IInv
<1>1. Init => IInv
  BY InitHolds
<1>2. IInv /\ [Next]_vars => IInv'
  BY StepKeeps
<1> QED BY <1>1, <1>2, PTL DEF Spec

LEMMA TypesFollow == ASSUME IInv PROVE TypeOK
<1>1. \A S, T : \A s \in Seq(T) : (\A i \in 1 .. Len(s) : s[i] \in S) => s \in Seq(S)
  OBVIOUS
<1>2. owner \in Seq(1 .. MaxSessions)
  <2>1. \A i \in 1 .. Len(owner) : owner[i] \in 1 .. MaxSessions
    BY PipelineAssumption DEF IInv, Types, Speaking, Spoken
  <2> QED BY <1>1, <2>1 DEF IInv, Types
<1>3. Closed \subseteq Spoken /\ InFinals \subseteq Spoken /\ InJobs \subseteq Spoken
  BY ClosedIsSpoken DEF IInv, Past, StreamHas
<1>4. finals \in Seq(Spoken)
  BY <1>1, <1>3 DEF IInv, Types, InFinals
<1>5. \A i \in 1 .. Len(jobs) : jobs[i].utterance \in Spoken
  BY <1>3 DEF InJobs
<1>6. published \in [Places -> Seq(Spoken)]
  <2>1. \A p \in Places : \A i \in 1 .. Len(published[p]) : published[p][i] \in Spoken
    BY <1>3 DEF IInv, Past, Published
  <2> QED BY <1>1, <2>1 DEF IInv, Types
<1>7. {session, opened} \subseteq 0 .. MaxSessions /\ {current, partial} \subseteq {0} \cup Spoken
  BY PipelineAssumption DEF IInv, Types, Speaking, Past, LocalHas, Spoken
<1>8. pending \cup screen \cup owed \cup done \subseteq Spoken /\ pending \cap done = {}
  BY <1>3 DEF IInv, Past, Settled
<1> QED BY <1>2, <1>4, <1>5, <1>6, <1>7, <1>8 DEF TypeOK, IInv, Types

\* Of a session, no final is published twice to the file, the browser or the
\* translation, nor before an earlier one, whoever publishes it and however
\* late (_publish_final_transcript).
THEOREM PublishedInOrderHolds == Spec => []PublishedInOrder
<1>1. IInv => TypeOK
  BY TypesFollow
<1>2. IInv => SessionInOrder
  <2> SUFFICES ASSUME IInv, NEW p \in Places,
                      NEW i \in 1 .. Len(published[p]), NEW k \in 1 .. Len(published[p]),
                      i < k, owner[published[p][i]] = owner[published[p][k]]
               PROVE published[p][i] < published[p][k]
    BY DEF SessionInOrder
  <2> QED BY DEF IInv, Ordered, Precedes
<1>3. IInv => PublishedInOrder
  BY <1>1, <1>2 DEF PublishedInOrder
<1> QED BY <1>3, PipelineInvariance, PTL

\* An accepted final of the stream is shown before its completion is set, and
\* an utterance that is done has no partial on the screen (_on_deepgram_transcript).
THEOREM FinalReplacesPartialHolds == Spec => []FinalReplacesPartial
<1>1. IInv => FinalReplacesPartial
  <2> SUFFICES ASSUME IInv PROVE FinalReplacesPartial
    OBVIOUS
  <2>1. Published("browser") = ToSet(published["browser"])
    <3>1. DOMAIN published["browser"] = 1 .. Len(published["browser"])
      BY DEF IInv, Types, Places
    <3> QED BY <3>1 DEF ToSet, Published
  <2> QED BY <2>1 DEF IInv, Settled, FinalReplacesPartial
<1> QED BY <1>1, PipelineInvariance, PTL

-----------------------------------------------------------------------------
(* The rechecks *)

Jobs == [utterance : Nat, allow : BOOLEAN]
Allowed(q) == {i \in DOMAIN q : q[i].allow}

LEMMA AllowedIsFinite ==
    ASSUME NEW q \in Seq(Jobs)
    PROVE /\ IsFiniteSet(Allowed(q)) /\ Cardinality(Allowed(q)) \in Nat
          /\ Allowed(q) \subseteq 1 .. Len(q) /\ Len(q) \in Nat
<1>1. Len(q) \in Nat /\ DOMAIN q = 1 .. Len(q)
  BY LenProperties
<1>2. Allowed(q) \subseteq 1 .. Len(q)
  BY <1>1 DEF Allowed
<1>3. IsFiniteSet(1 .. Len(q))
  BY <1>1, FS_Interval
<1>4. IsFiniteSet(Allowed(q))
  BY <1>2, <1>3, FS_Subset
<1> QED BY <1>1, <1>2, <1>4, FS_CardinalityType

\* A job at the end counts if it is allowed.
LEMMA AllowedAppend ==
    ASSUME NEW q \in Seq(Jobs), NEW j \in Jobs
    PROVE /\ j.allow => Cardinality(Allowed(Append(q, j))) = Cardinality(Allowed(q)) + 1
          /\ ~j.allow => Cardinality(Allowed(Append(q, j))) = Cardinality(Allowed(q))
<1>1. PICK v, n : v = Append(q, j) /\ n = Len(q)
  OBVIOUS
<1>2. /\ n \in Nat /\ DOMAIN q = 1 .. n /\ DOMAIN v = 1 .. n + 1
      /\ \A i \in 1 .. n : v[i] = q[i]
      /\ v[n + 1] = j
  <2>1. v \in Seq(Jobs) /\ Len(v) = n + 1
    BY <1>1, AppendProperties
  <2>2. n \in Nat /\ DOMAIN q = 1 .. n /\ DOMAIN v = 1 .. n + 1
    BY <1>1, <2>1, LenProperties
  <2> QED BY <1>1, <2>2, AppendProperties
<1>3. \A i : i \in 1 .. n + 1 <=> i \in 1 .. n \/ i = n + 1
  BY <1>2
<1>4. n + 1 \notin 1 .. n
  BY <1>2
<1>5. j.allow => Allowed(v) = Allowed(q) \cup {n + 1}
  <2> SUFFICES ASSUME j.allow PROVE Allowed(v) = Allowed(q) \cup {n + 1}
    OBVIOUS
  <2>1. ASSUME NEW i PROVE i \in Allowed(v) <=> i \in Allowed(q) \/ i = n + 1
    BY <1>2, <1>3, <1>4 DEF Allowed
  <2> QED BY <2>1
<1>6. ~j.allow => Allowed(v) = Allowed(q)
  <2> SUFFICES ASSUME ~j.allow PROVE Allowed(v) = Allowed(q)
    OBVIOUS
  <2>1. ASSUME NEW i PROVE i \in Allowed(v) <=> i \in Allowed(q)
    BY <1>2, <1>3, <1>4 DEF Allowed
  <2> QED BY <2>1
<1>7. /\ IsFiniteSet(Allowed(q)) /\ n + 1 \notin Allowed(q)
  BY <1>1, <1>4, AllowedIsFinite
<1>8. Cardinality(Allowed(q) \cup {n + 1}) = Cardinality(Allowed(q)) + 1
  BY <1>7, FS_AddElement
<1> QED BY <1>1, <1>5, <1>6, <1>8

\* Without the first job there are no more allowed ones, and one less if it was.
LEMMA AllowedTail ==
    ASSUME NEW q \in Seq(Jobs), q # <<>>
    PROVE /\ Head(q) \in Jobs
          /\ Cardinality(Allowed(Tail(q))) <= Cardinality(Allowed(q))
          /\ Head(q).allow => Cardinality(Allowed(Tail(q))) <= Cardinality(Allowed(q)) - 1
<1>1. PICK t, n : t = Tail(q) /\ n = Len(q)
  OBVIOUS
<1>2. /\ t \in Seq(Jobs) /\ Head(q) = q[1] /\ q[1] \in Jobs
      /\ n \in Nat /\ n >= 1 /\ DOMAIN q = 1 .. n /\ DOMAIN t = 1 .. n - 1
      /\ \A i \in 1 .. n - 1 : t[i] = q[i + 1]
  <2>1. t \in Seq(Jobs) /\ Len(t) = n - 1 /\ n \in Nat /\ n >= 1
    BY <1>1
  <2>2. DOMAIN q = 1 .. n /\ DOMAIN t = 1 .. n - 1
    BY <1>1, <2>1, LenProperties
  <2>3. Head(q) = q[1] /\ q[1] \in Jobs /\ \A i \in 1 .. n - 1 : t[i] = q[i + 1]
    BY <1>1, <2>1
  <2> QED BY <2>1, <2>2, <2>3
<1> DEFINE A == Allowed(t)
           B == Allowed(q) \ {1}
           f == [i \in A |-> i + 1]
<1>3. A \subseteq Nat /\ \A i \in A : i + 1 \in B
  <2> SUFFICES ASSUME NEW i \in A PROVE i \in Nat /\ i + 1 \in B
    OBVIOUS
  <2>1. i \in 1 .. n - 1 /\ t[i].allow
    BY <1>2 DEF Allowed
  <2>2. i \in Nat /\ i + 1 \in 1 .. n /\ i + 1 # 1 /\ q[i + 1].allow
    BY <1>2, <2>1
  <2> QED BY <1>2, <2>2 DEF Allowed
<1>4. f \in Injection(A, B)
  <2>1. f \in [A -> B]
    BY <1>3
  <2>2. \A i, k \in A : f[i] = f[k] => i = k
    BY <1>3
  <2> QED BY <2>1, <2>2, Zenon DEF Injection, IsInjective
<1>5. IsFiniteSet(B) /\ Cardinality(B) = IF 1 \in Allowed(q) THEN Cardinality(Allowed(q)) - 1
                                         ELSE Cardinality(Allowed(q))
  BY AllowedIsFinite, FS_RemoveElement
<1>6. Cardinality(A) <= Cardinality(B)
  BY <1>4, <1>5, FS_Injection
<1>7. Cardinality(Allowed(q)) \in Nat /\ Cardinality(A) \in Nat
  BY <1>2, AllowedIsFinite
<1>8. Head(q).allow => 1 \in Allowed(q)
  BY <1>2 DEF Allowed
<1> HIDE DEF A, B, f
<1>9. Cardinality(A) <= Cardinality(Allowed(q))
      /\ (Head(q).allow => Cardinality(A) <= Cardinality(Allowed(q)) - 1)
  BY <1>5, <1>6, <1>7, <1>8
<1> QED BY <1>1, <1>2, <1>9 DEF A

\* A step that leaves the rechecks.
LEMMA AloneStays ==
    ASSUME Alone, UNCHANGED <<jobs, recheck, threads>>
    PROVE Alone'
<1>1. Rechecks' = Rechecks
  BY DEF Rechecks
<1> QED BY <1>1 DEF Alone

\* A recheck is allowed only if there are few.
LEMMA StreamFinalAlone ==
    ASSUME IInv, Alone, NEW u \in 1 .. MaxUtterances, NEW risky \in BOOLEAN,
           StreamFinal(u, risky)
    PROVE Alone'
<1>1. PICK j : j = [utterance |-> u, allow |-> risky /\ Rechecks < RecheckMax]
  OBVIOUS
<1>2. jobs' = Append(jobs, j) /\ recheck' = recheck /\ threads' = threads
  BY <1>1 DEF StreamFinal
<1>3. j \in Jobs /\ (j.allow => Rechecks < RecheckMax)
  <2>1. PICK b \in BOOLEAN : b = (risky /\ Rechecks < RecheckMax)
    OBVIOUS
  <2>2. j = [utterance |-> u, allow |-> b]
    BY <1>1, <2>1, Zenon
  <2>3. u \in Nat
    BY PipelineAssumption
  <2>4. j \in Jobs /\ j.allow = b
    BY <2>2, <2>3 DEF Jobs
  <2> QED BY <2>1, <2>4, Zenon
<1>4. jobs \in Seq(Jobs) /\ recheck \in BOOLEAN
  BY DEF IInv, Types, Jobs
<1>5. PICK n, m : n = Cardinality(Allowed(jobs)) /\ m = IF recheck THEN 1 ELSE 0
  OBVIOUS
<1>6. n \in Nat /\ m \in {0, 1} /\ RecheckMax \in Nat
  BY <1>4, <1>5, AllowedIsFinite, PipelineAssumption
<1>7. Rechecks = n + m /\ n + m <= RecheckMax
  BY <1>5 DEF Alone, Rechecks, Allowed
<1>8. Rechecks' = Cardinality(Allowed(jobs')) + m
  BY <1>2, <1>5 DEF Rechecks, Allowed
<1>9. CASE j.allow
  <2>1. Cardinality(Allowed(jobs')) = n + 1 /\ n + m < RecheckMax
    BY <1>2, <1>3, <1>4, <1>5, <1>7, <1>9, AllowedAppend
  <2> QED BY <1>2, <1>6, <1>8, <2>1 DEF Alone
<1>10. CASE ~j.allow
  <2>1. Cardinality(Allowed(jobs')) = n
    BY <1>2, <1>3, <1>4, <1>5, <1>10, AllowedAppend
  <2> QED BY <1>2, <1>7, <1>8, <2>1 DEF Alone
<1> QED BY <1>9, <1>10

\* The worker takes a job, and a recheck begins only if none is under way.
LEMMA ReviewAlone ==
    ASSUME IInv, Alone, Review PROVE Alone'
<1>1. /\ jobs \in Seq(Jobs) /\ jobs # <<>> /\ jobs' = Tail(jobs) /\ recheck \in BOOLEAN
  BY DEF IInv, Types, Jobs, Review
<1>2. \/ recheck' = recheck /\ threads' = threads
      \/ Head(jobs).allow /\ ~recheck /\ recheck' = TRUE /\ threads' = threads + 1
  BY DEF Review
<1>3. PICK n, k : n = Cardinality(Allowed(jobs)) /\ k = Cardinality(Allowed(jobs'))
  OBVIOUS
<1>4. n \in Nat /\ k <= n /\ (Head(jobs).allow => k <= n - 1)
  BY <1>1, <1>3, AllowedIsFinite, AllowedTail
<1>5. k \in Nat /\ RecheckMax \in Nat
  <2>1. jobs' \in Seq(Jobs)
    BY <1>1
  <2> QED BY <1>3, <2>1, AllowedIsFinite, PipelineAssumption
<1>6. CASE recheck' = recheck /\ threads' = threads
  <2>1. PICK m : m = IF recheck THEN 1 ELSE 0
    OBVIOUS
  <2>2. m \in {0, 1} /\ n + m <= RecheckMax
    BY <1>3, <2>1 DEF Alone, Rechecks, Allowed
  <2>3. Rechecks' = k + m
    BY <1>3, <1>6, <2>1 DEF Rechecks, Allowed
  <2>4. k + m <= RecheckMax
    BY <1>4, <1>5, <2>2
  <2> QED BY <1>6, <2>3, <2>4 DEF Alone
<1>7. CASE Head(jobs).allow /\ ~recheck /\ recheck' = TRUE /\ threads' = threads + 1
  <2>1. n <= RecheckMax /\ threads = 0
    <3>1. n + 0 <= RecheckMax
      BY <1>3, <1>7 DEF Alone, Rechecks, Allowed
    <3> QED BY <1>4, <1>7, <3>1 DEF Alone
  <2>2. Rechecks' = k + 1
    BY <1>3, <1>7 DEF Rechecks, Allowed
  <2>3. k + 1 <= RecheckMax
    BY <1>4, <1>5, <1>7, <2>1
  <2> QED BY <1>7, <2>1, <2>2, <2>3 DEF Alone
<1> QED BY <1>2, <1>6, <1>7

LEMMA RecheckEndsAlone ==
    ASSUME IInv, Alone, RecheckEnds PROVE Alone'
<1>1. threads > 0 /\ threads' = threads - 1 /\ recheck' = FALSE /\ jobs' = jobs
  BY DEF RecheckEnds, queues
<1>2. recheck \in BOOLEAN /\ jobs \in Seq(Jobs)
  BY DEF IInv, Types, Jobs
<1>3. recheck = TRUE /\ threads = 1
  BY <1>1, <1>2 DEF Alone
<1>4. PICK n : n = Cardinality(Allowed(jobs))
  OBVIOUS
<1>5. n \in Nat /\ RecheckMax \in Nat
  BY <1>2, <1>4, AllowedIsFinite, PipelineAssumption
<1>6. n + 1 <= RecheckMax
  BY <1>3, <1>4 DEF Alone, Rechecks, Allowed
<1>7. Rechecks' = n + 0
  BY <1>1, <1>4 DEF Rechecks, Allowed
<1>8. n + 0 <= RecheckMax
  BY <1>5, <1>6
<1>9. threads' = 0
  BY <1>1, <1>3
<1> QED BY <1>1, <1>7, <1>8, <1>9 DEF Alone

LEMMA AloneKept == IInv /\ Alone /\ [Next]_vars => Alone'
<1> SUFFICES ASSUME IInv, Alone, [Next]_vars PROVE Alone'
  OBVIOUS
<1>1. CASE Start \/ Stop \/ Finalize \/ Shutdown \/ UNCHANGED vars
  <2>1. UNCHANGED <<jobs, recheck, threads>>
    BY <1>1 DEF Start, Stop, Finalize, Shutdown, vars, queues
  <2> QED BY <2>1, AloneStays
<1>2. CASE Local
  <2>1. UNCHANGED <<jobs, recheck, threads>>
    BY <1>2 DEF Local, Take, InferredPartial, InferredFinal, WorkerPublishes, queues
  <2> QED BY <2>1, AloneStays
<1>3. CASE RecheckTimesOut \/ \E r \in BOOLEAN : ReviewerPublishes(r)
  <2>1. UNCHANGED <<jobs, recheck, threads>>
    BY <1>3 DEF RecheckTimesOut, ReviewerPublishes, queues
  <2> QED BY <2>1, AloneStays
<1>4. ASSUME NEW u \in 1 .. MaxUtterances,
             SegmentPartial(u) \/ SegmentFinal(u) \/ StreamPartial(u) \/ StreamDuplicate(u)
      PROVE Alone'
  <2>1. UNCHANGED <<jobs, recheck, threads>>
    BY <1>4 DEF SegmentPartial, SegmentFinal, StreamPartial, StreamDuplicate, queues
  <2> QED BY <2>1, AloneStays
<1>5. CASE Speech
  BY <1>4, <1>5, StreamFinalAlone DEF Speech
<1>6. CASE Streamed
  BY <1>3, <1>6, ReviewAlone DEF Streamed
<1>7. CASE RecheckEnds
  BY <1>7, RecheckEndsAlone
<1> QED BY <1>1, <1>2, <1>5, <1>6, <1>7 DEF Next

\* One recheck runs at a time, although a thread outlives its time-out, and no
\* more than the limit wait or run (_process_deepgram_final, _on_deepgram_transcript).
THEOREM RecheckBoundedHolds == Spec => []RecheckBounded
<1>1. Init => Alone
  <2> SUFFICES ASSUME Init PROVE Alone
    OBVIOUS
  <2>1. jobs = <<>> /\ recheck = FALSE /\ threads = 0
    BY DEF Init
  <2>2. {i \in DOMAIN jobs : jobs[i].allow} = {}
    BY <2>1
  <2>3. Rechecks = 0 + 0
    BY <2>1, <2>2, FS_EmptySet DEF Rechecks
  <2> QED BY <2>1, <2>3, PipelineAssumption DEF Alone
<1>2. IInv /\ Alone /\ [Next]_vars => Alone'
  BY AloneKept
<1>3. Alone => RecheckBounded
  BY DEF Alone, RecheckBounded
<1> QED BY <1>1, <1>2, <1>3, PipelineInvariance, PTL DEF Spec
=============================================================================
