----------------------- MODULE CaptionConsumersProofs ------------------------
(***************************************************************************)
(* Proofs about the two consumers of what the pipeline emits.              *)
(*                                                                         *)
(* EventFanout: DeliveryHolds and OnlyCoalesced hold for any number of     *)
(* browsers, tasks and events and any size of the queues.  What a browser  *)
(* gets is a line of three parts, received, in transit and queued; that    *)
(* the line is in order and complete is kept by each step that moves an    *)
(* event along it, and by a broadcast because a browser that it cannot     *)
(* serve is condemned in the same step.                                    *)
(*                                                                         *)
(* DecisionRadar: WorkerGoesOn, EvidenceIsFinal, DecisionsStand and        *)
(* OnlySelectedReceives hold for any sessions, segments, texts and         *)
(* providers and any limits.  That the worker lives depends on a batch     *)
(* being a stretch of the finals: it then fits into the window of the      *)
(* request.                                                                *)
(***************************************************************************)
EXTENDS EventFanout, DecisionRadar, FiniteSetTheorems, SequenceTheorems,
        WellFoundedInduction, TLAPS

-----------------------------------------------------------------------------
(* Sequences *)

LEMMA AppendFacts ==
    ASSUME NEW S, NEW s \in Seq(S), NEW e \in S
    PROVE /\ Append(s, e) \in Seq(S) /\ Len(s) \in Nat
          /\ Len(Append(s, e)) = Len(s) + 1
          /\ \A i \in 1 .. Len(s) : Append(s, e)[i] = s[i]
          /\ Append(s, e)[Len(s) + 1] = e
OBVIOUS

LEMMA TailFacts ==
    ASSUME NEW S, NEW s \in Seq(S), s # << >>
    PROVE /\ Tail(s) \in Seq(S) /\ Len(s) \in Nat \ {0}
          /\ Head(s) = s[1] /\ Head(s) \in S
          /\ Len(Tail(s)) = Len(s) - 1
          /\ \A i \in 1 .. Len(Tail(s)) : Tail(s)[i] = s[i + 1] /\ i + 1 \in 1 .. Len(s)
OBVIOUS

LEMMA RemoveAtFacts ==
    ASSUME NEW S, NEW s \in Seq(S), NEW k \in 1 .. Len(s)
    PROVE /\ RemoveAt(s, k) \in Seq(S) /\ Len(s) \in Nat
          /\ Len(RemoveAt(s, k)) = Len(s) - 1
          /\ \A i \in 1 .. Len(s) - 1 :
                /\ i < k => RemoveAt(s, k)[i] = s[i]
                /\ i >= k => RemoveAt(s, k)[i] = s[i + 1]
<1> DEFINE a == SubSeq(s, 1, k - 1)
           b == SubSeq(s, k + 1, Len(s))
<1>0. k \in Nat /\ Len(s) \in Nat
  OBVIOUS
<1>1. /\ a \in Seq(S) /\ Len(a) = k - 1 /\ \A i \in 1 .. k - 1 : a[i] = s[i]
  OBVIOUS
<1>2. /\ b \in Seq(S) /\ Len(b) = Len(s) - k /\ \A i \in 1 .. Len(s) - k : b[i] = s[i + k]
  OBVIOUS
<1> HIDE DEF a, b
<1>3. PICK c : c = a \o b
  OBVIOUS
<1>4. /\ c \in Seq(S) /\ Len(c) = Len(s) - 1
      /\ \A i \in 1 .. Len(s) - 1 : c[i] = IF i <= k - 1 THEN a[i] ELSE b[i - (k - 1)]
  <2>1. /\ c \in Seq(S) /\ Len(c) = Len(a) + Len(b)
        /\ \A i \in 1 .. Len(a) + Len(b) : c[i] = IF i <= Len(a) THEN a[i] ELSE b[i - Len(a)]
    BY <1>1, <1>2, <1>3, ConcatProperties
  <2>2. Len(a) + Len(b) = Len(s) - 1
    BY <1>0, <1>1, <1>2
  <2> QED BY <1>1, <2>1, <2>2
<1>5. ASSUME NEW i \in 1 .. Len(s) - 1
      PROVE (i < k => c[i] = s[i]) /\ (i >= k => c[i] = s[i + 1])
  <2>0. i \in Nat /\ i >= 1 /\ i <= Len(s) - 1
    BY <1>0
  <2>1. CASE i < k
    <3>1. i \in 1 .. k - 1 /\ i <= k - 1
      BY <1>0, <2>0, <2>1
    <3> QED BY <1>1, <1>4, <2>1, <3>1
  <2>2. CASE i >= k
    <3>1. i - (k - 1) \in 1 .. Len(s) - k /\ (i - (k - 1)) + k = i + 1
      BY <1>0, <2>0, <2>2
    <3>2. c[i] = b[i - (k - 1)]
      BY <1>0, <1>4, <2>0, <2>2
    <3>3. b[i - (k - 1)] = s[(i - (k - 1)) + k]
      BY <1>2, <3>1
    <3> QED BY <2>2, <3>1, <3>2, <3>3
  <2> QED BY <1>0, <2>0, <2>1, <2>2
<1> QED BY <1>0, <1>3, <1>4, <1>5 DEF RemoveAt, a, b

\* What a full queue becomes when a lossy event takes the place of another: the
\* one at k is gone and all else keeps its order.
Replaced(t, s, k, e) ==
    /\ Len(s) \in Nat \ {0} /\ Len(t) = Len(s) /\ t[Len(s)] = e
    /\ \A i \in 1 .. Len(s) : i < k => t[i] = s[i]
    /\ \A i \in 1 .. Len(s) : i > k => i - 1 \in 1 .. Len(s) /\ t[i - 1] = s[i]

LEMMA ReplacedFacts ==
    ASSUME NEW S, NEW s \in Seq(S), NEW k \in 1 .. Len(s), NEW e \in S
    PROVE /\ Append(RemoveAt(s, k), e) \in Seq(S)
          /\ Replaced(Append(RemoveAt(s, k), e), s, k, e)
<1>1. PICK u : u = RemoveAt(s, k)
  OBVIOUS
<1>2. /\ u \in Seq(S) /\ Len(u) = Len(s) - 1 /\ Len(s) \in Nat
      /\ \A i \in 1 .. Len(s) - 1 : (i < k => u[i] = s[i]) /\ (i >= k => u[i] = s[i + 1])
  BY <1>1, RemoveAtFacts
<1>3. PICK t : t = Append(u, e)
  OBVIOUS
<1>4. Len(s) \in Nat \ {0} /\ Len(u) + 1 = Len(s)
  BY <1>2
<1>5. /\ t \in Seq(S) /\ Len(t) = Len(u) + 1
      /\ \A i \in 1 .. Len(u) : t[i] = u[i]
      /\ t[Len(u) + 1] = e
  BY <1>2, <1>3, AppendFacts
<1>6. /\ t \in Seq(S) /\ Len(t) = Len(s)
      /\ \A i \in 1 .. Len(s) - 1 : t[i] = u[i]
      /\ t[Len(s)] = e
  BY <1>2, <1>4, <1>5
<1>7. ASSUME NEW i \in 1 .. Len(s), i < k PROVE t[i] = s[i]
  <2>1. i \in 1 .. Len(s) - 1
    BY <1>2, <1>7
  <2> QED BY <1>2, <1>6, <1>7, <2>1
<1>8. ASSUME NEW i \in 1 .. Len(s), i > k PROVE i - 1 \in 1 .. Len(s) /\ t[i - 1] = s[i]
  <2>1. i - 1 \in 1 .. Len(s) - 1 /\ i - 1 >= k /\ (i - 1) + 1 = i /\ i - 1 \in 1 .. Len(s)
    BY <1>2, <1>8
  <2>2. t[i - 1] = u[i - 1] /\ u[i - 1] = s[(i - 1) + 1]
    BY <1>2, <1>6, <2>1
  <2> QED BY <2>1, <2>2
<1>9. Replaced(t, s, k, e)
  BY <1>4, <1>6, <1>7, <1>8 DEF Replaced
<1> QED BY <1>1, <1>3, <1>6, <1>9

\* A set of numbers has a least one.
LEMMA NatLeast ==
    ASSUME NEW S \in SUBSET Nat, S # {}
    PROVE \E i \in S : \A j \in S : i <= j
<1>1. IsWellFoundedOn(OpToRel(<, Nat), Nat)
  BY NatLessThanWellFounded
<1>2. PICK i \in S : \A j \in S : ~(<<j, i>> \in OpToRel(<, Nat))
  BY <1>1, WFMin
<1>3. \A j \in S : ~(j < i)
  BY <1>2 DEF OpToRel
<1> QED BY <1>3
-----------------------------------------------------------------------------
(* The steps of a line *)

\* The sender takes the first event of the queue.
LEMMA LineTakes ==
    ASSUME NEW q \in Seq(Event), q # <<>>, NEW r \in Seq(Event), NEW n \in Nat, NEW l,
           Lined(q, None, r, n, l)
    PROVE Lined(Tail(q), Head(q), r, n, l)
<1>1. PICK t : t = Tail(q)
  OBVIOUS
<1>2. /\ t \in Seq(Event) /\ Len(q) \in Nat \ {0} /\ Head(q) = q[1] /\ Len(t) = Len(q) - 1
      /\ \A i \in 1 .. Len(t) : t[i] = q[i + 1] /\ i + 1 \in 1 .. Len(q)
  BY <1>1, TailFacts
<1>3. Ascending(t)
  BY <1>2 DEF Lined, Ascending
<1>4. 1 \in 1 .. Len(q) /\ \A j \in 1 .. Len(t) : Before(q[1], t[j])
  BY <1>2 DEF Lined, Ascending
<1>5. \A i \in 1 .. Len(r) : \A j \in 1 .. Len(t) : Before(r[i], t[j])
  BY <1>2 DEF Lined
<1>6. \A j \in 1 .. Len(t) : Fits(t[j], n, l)
  BY <1>2 DEF Lined
<1>7. Lined(t, q[1], r, n, l)
  BY <1>3, <1>4, <1>5, <1>6 DEF Lined
<1> QED BY <1>1, <1>2, <1>7

LEMMA CompleteTakes ==
    ASSUME NEW q \in Seq(Event), q # <<>>, NEW r \in Seq(Event), NEW n \in Nat, NEW l,
           Head(q) # None, Complete(q, None, r, n, l)
    PROVE Complete(Tail(q), Head(q), r, n, l)
<1>1. PICK t : t = Tail(q)
  OBVIOUS
<1>2. /\ t \in Seq(Event) /\ Len(q) \in Nat \ {0} /\ Head(q) = q[1] /\ Len(t) = Len(q) - 1
      /\ \A i \in 1 .. Len(t) : t[i] = q[i + 1] /\ i + 1 \in 1 .. Len(q)
  BY <1>1, TailFacts
<1>3. ASSUME NEW i \in 1 .. Len(q), i # 1 PROVE i - 1 \in 1 .. Len(t) /\ t[i - 1] = q[i]
  <2>1. i - 1 \in 1 .. Len(t)
    BY <1>2, <1>3
  <2>2. t[i - 1] = q[(i - 1) + 1]
    BY <1>2, <2>1
  <2> QED BY <2>1, <2>2
<1>4. ASSUME NEW k, Served(k, q, None, r) PROVE Served(k, t, Head(q), r)
  <2>1. CASE \E i \in 1 .. Len(q) : Is(q[i], k)
    <3>1. PICK i \in 1 .. Len(q) : Is(q[i], k)
      BY <2>1
    <3>2. CASE i = 1
      BY <1>2, <3>1, <3>2 DEF Served
    <3>3. CASE i # 1
      BY <1>3, <3>1, <3>3 DEF Served
    <3> QED BY <3>2, <3>3
  <2>2. CASE \E i \in 1 .. Len(r) : Is(r[i], k)
    BY <2>2 DEF Served
  <2> QED BY <1>4, <2>1, <2>2 DEF Served
<1> QED BY <1>1, <1>4 DEF Complete

\* The event in transit is received, or was not critical.
LEMMA LineReceives ==
    ASSUME NEW q \in Seq(Event), NEW e \in Event, e # None, NEW r \in Seq(Event),
           NEW n \in Nat, NEW l, Lined(q, e, r, n, l), Critical(e)
    PROVE Append(r, e) \in Seq(Event) /\ Lined(q, None, Append(r, e), n, l)
<1>1. PICK t : t = Append(r, e)
  OBVIOUS
<1>2. /\ t \in Seq(Event) /\ Len(r) \in Nat /\ Len(t) = Len(r) + 1
      /\ \A i \in 1 .. Len(r) : t[i] = r[i]
      /\ t[Len(r) + 1] = e
  BY <1>1, AppendFacts
<1>3. ASSUME NEW i \in 1 .. Len(t) PROVE (i \in 1 .. Len(r) /\ t[i] = r[i]) \/ (i = Len(t) /\ t[i] = e)
  <2>1. i \in 1 .. Len(r) \/ i = Len(t)
    BY <1>2
  <2> QED BY <1>2, <2>1
<1>4. Ascending(t)
  <2> SUFFICES ASSUME NEW i \in 1 .. Len(t), NEW j \in 1 .. Len(t), i < j
               PROVE Before(t[i], t[j])
    BY DEF Ascending
  <2>1. i \in 1 .. Len(r) /\ t[i] = r[i]
    BY <1>2
  <2>2. CASE j \in 1 .. Len(r) /\ t[j] = r[j]
    BY <2>1, <2>2 DEF Lined, Ascending
  <2>3. CASE t[j] = e
    BY <2>1, <2>3 DEF Lined
  <2> QED BY <1>3, <2>2, <2>3
<1>5. ASSUME NEW i \in 1 .. Len(t)
      PROVE /\ Fits(t[i], n, l) /\ Critical(t[i])
            /\ \A j \in 1 .. Len(q) : Before(t[i], q[j])
  BY <1>3 DEF Lined
<1>6. Lined(q, None, t, n, l)
  BY <1>4, <1>5 DEF Lined
<1> QED BY <1>1, <1>2, <1>6

LEMMA CompleteReceives ==
    ASSUME NEW q, NEW e \in Event, NEW r \in Seq(Event), NEW n, NEW l,
           Complete(q, e, r, n, l)
    PROVE Complete(q, None, Append(r, e), n, l)
<1>1. PICK t : t = Append(r, e)
  OBVIOUS
<1>2. /\ Len(r) \in Nat /\ Len(t) = Len(r) + 1
      /\ \A i \in 1 .. Len(r) : t[i] = r[i]
      /\ t[Len(r) + 1] = e
  BY <1>1, AppendFacts
<1>3. \A i \in 1 .. Len(r) : i \in 1 .. Len(t)
  BY <1>2
<1>4. Len(t) \in 1 .. Len(t) /\ t[Len(t)] = e
  BY <1>2
<1>5. ASSUME NEW k, Served(k, q, e, r) PROVE Served(k, q, None, t)
  BY <1>2, <1>3, <1>4, <1>5 DEF Served
<1> QED BY <1>1, <1>5 DEF Complete

LEMMA LineForgets ==
    ASSUME NEW q, NEW e, NEW r, NEW n, NEW l, Lined(q, e, r, n, l)
    PROVE Lined(q, None, r, n, l)
BY DEF Lined

LEMMA CompleteForgets ==
    ASSUME NEW q, NEW e \in Event, NEW r, NEW n \in Nat, NEW l, Len(l) \in Nat,
           Complete(q, e, r, n, l), Fits(e, n, l), ~Critical(e)
    PROVE Complete(q, None, r, n, l)
<1> SUFFICES ASSUME NEW k \in n + 1 .. Len(l), l[k] \in CRITICAL_EVENT_TYPES
             PROVE Served(k, q, None, r)
  BY DEF Complete
<1>1. Served(k, q, e, r)
  BY DEF Complete
<1>2. ~Is(e, k)
  BY DEF Is, Fits, Critical
<1> QED BY <1>1, <1>2 DEF Served

\* An empty line is in order.
LEMMA EmptyLine ==
    ASSUME NEW n, NEW l
    PROVE Lined(<<>>, None, <<>>, n, l)
BY DEF Lined, Ascending

\* A snapshot goes to the end of the queue; it is before and after everything.
LEMMA LineSnapshot ==
    ASSUME NEW q \in Seq(Event), NEW x \in Event, x.type = "snapshot", NEW e, NEW r, NEW n, NEW l,
           Lined(q, e, r, n, l)
    PROVE Lined(Append(q, x), e, r, n, l)
<1>1. PICK t : t = Append(q, x)
  OBVIOUS
<1>2. /\ Len(q) \in Nat /\ Len(t) = Len(q) + 1
      /\ \A i \in 1 .. Len(q) : t[i] = q[i]
      /\ t[Len(q) + 1] = x
  BY <1>1, AppendFacts
<1>3. \A i \in 1 .. Len(t) : (i \in 1 .. Len(q) /\ t[i] = q[i]) \/ t[i] = x
  BY <1>2
<1>4. \A y : Before(x, y) /\ Before(y, x) /\ Fits(x, n, l)
  BY DEF Before, Fits
<1>5. Ascending(t)
  BY <1>3, <1>4 DEF Lined, Ascending
<1>6. Lined(t, e, r, n, l)
  BY <1>3, <1>4, <1>5 DEF Lined
<1> QED BY <1>1, <1>6

\* What was queued is served by the longer queue too.
LEMMA CompleteLonger ==
    ASSUME NEW q \in Seq(Event), NEW x \in Event, NEW e, NEW r, NEW n, NEW l, Complete(q, e, r, n, l)
    PROVE Complete(Append(q, x), e, r, n, l)
<1>1. PICK t : t = Append(q, x)
  OBVIOUS
<1>2. /\ Len(q) \in Nat /\ Len(t) = Len(q) + 1
      /\ \A i \in 1 .. Len(q) : t[i] = q[i]
  BY <1>1, AppendFacts
<1>3. \A i \in 1 .. Len(q) : i \in 1 .. Len(t)
  BY <1>2
<1>4. ASSUME NEW k, Served(k, q, e, r) PROVE Served(k, t, e, r)
  BY <1>2, <1>3, <1>4 DEF Served
<1> QED BY <1>1, <1>4 DEF Complete

-----------------------------------------------------------------------------
(* A broadcast, as a line sees it *)

\* The log grows by one event; what fitted it still does.
LEMMA LineLonger ==
    ASSUME NEW l \in Seq(Types), NEW ty \in Types, NEW m, m = Append(l, ty),
           NEW q \in Seq(Event), NEW e \in Event \cup {None}, NEW r \in Seq(Event), NEW n \in Nat,
           Lined(q, e, r, n, l)
    PROVE Lined(q, e, r, n, m)
<1>1. /\ Len(l) \in Nat /\ Len(m) = Len(l) + 1
      /\ \A i \in 1 .. Len(l) : m[i] = l[i]
  BY AppendFacts
<1>2. ASSUME NEW x \in Event, Fits(x, n, l) PROVE Fits(x, n, m)
  <2>1. x.number \in Nat
    BY DEF Event
  <2> QED BY <1>1, <1>2, <2>1 DEF Fits
<1>3. /\ \A i \in 1 .. Len(q) : q[i] \in Event
      /\ \A i \in 1 .. Len(r) : r[i] \in Event
  OBVIOUS
<1> QED BY <1>2, <1>3 DEF Lined

\* The event is put at the end of the queue.
LEMMA LineAppends ==
    ASSUME NEW l \in Seq(Types), NEW ty \in Types, NEW m, m = Append(l, ty),
           NEW q \in Seq(Event), NEW e \in Event \cup {None}, NEW r \in Seq(Event),
           NEW n \in Nat, n <= Len(l), NEW x \in Event, x.type = ty, x.number = Len(l) + 1,
           Lined(q, e, r, n, l)
    PROVE Lined(Append(q, x), e, r, n, m)
<1>1. /\ Len(l) \in Nat /\ Len(m) = Len(l) + 1 /\ m[Len(l) + 1] = ty
  BY AppendFacts
<1>2. PICK t : t = Append(q, x)
  OBVIOUS
<1>3. /\ Len(q) \in Nat /\ Len(t) = Len(q) + 1
      /\ \A i \in 1 .. Len(q) : t[i] = q[i]
      /\ t[Len(q) + 1] = x
  BY <1>2, AppendFacts
<1>4. Lined(q, e, r, n, m)
  BY LineLonger
<1>5. ASSUME NEW y \in Event, Fits(y, n, l) PROVE Before(y, x)
  <2>1. y.number \in Nat
    BY DEF Event
  <2> QED BY <1>1, <1>5, <2>1 DEF Fits, Before
<1>6. Fits(x, n, m)
  BY <1>1 DEF Fits
<1>7. ASSUME NEW i \in 1 .. Len(t) PROVE (i \in 1 .. Len(q) /\ t[i] = q[i]) \/ (i = Len(t) /\ t[i] = x)
  <2>1. i \in 1 .. Len(q) \/ i = Len(t)
    BY <1>3
  <2> QED BY <1>3, <2>1
<1>8. /\ \A i \in 1 .. Len(q) : q[i] \in Event /\ Before(q[i], x)
      /\ \A i \in 1 .. Len(r) : r[i] \in Event /\ Before(r[i], x)
      /\ e # None => Before(e, x)
  <2>1. \A i \in 1 .. Len(q) : q[i] \in Event
    OBVIOUS
  <2>2. \A i \in 1 .. Len(r) : r[i] \in Event
    OBVIOUS
  <2>3. /\ \A i \in 1 .. Len(q) : Fits(q[i], n, l)
        /\ \A i \in 1 .. Len(r) : Fits(r[i], n, l)
        /\ e # None => Fits(e, n, l)
    BY DEF Lined
  <2> QED BY <1>5, <2>1, <2>2, <2>3
<1>9. Ascending(t)
  <2> SUFFICES ASSUME NEW i \in 1 .. Len(t), NEW j \in 1 .. Len(t), i < j
               PROVE Before(t[i], t[j])
    BY DEF Ascending
  <2>1. i \in 1 .. Len(q) /\ t[i] = q[i]
    BY <1>3
  <2>2. CASE j \in 1 .. Len(q) /\ t[j] = q[j]
    BY <2>1, <2>2 DEF Lined, Ascending
  <2>3. CASE t[j] = x
    BY <1>8, <2>1, <2>3
  <2> QED BY <1>7, <2>2, <2>3
<1>10. Lined(t, e, r, n, m)
  BY <1>4, <1>6, <1>7, <1>8, <1>9 DEF Lined
<1> QED BY <1>2, <1>10

\* The event takes the place of another one of the queue, at its end.
LEMMA LineReplaces ==
    ASSUME NEW l \in Seq(Types), NEW ty \in Types, NEW m, m = Append(l, ty),
           NEW q \in Seq(Event), NEW e \in Event \cup {None}, NEW r \in Seq(Event),
           NEW n \in Nat, n <= Len(l), NEW x \in Event, x.type = ty, x.number = Len(l) + 1,
           Lined(q, e, r, n, l), NEW k \in 1 .. Len(q)
    PROVE Lined(Append(RemoveAt(q, k), x), e, r, n, m)
<1>1. PICK u : u = RemoveAt(q, k)
  OBVIOUS
<1>2. /\ u \in Seq(Event) /\ Len(u) = Len(q) - 1 /\ Len(q) \in Nat
      /\ \A i \in 1 .. Len(q) - 1 : (i < k => u[i] = q[i]) /\ (i >= k => u[i] = q[i + 1])
  BY <1>1, RemoveAtFacts, Zenon
<1>3. ASSUME NEW i \in 1 .. Len(u)
      PROVE /\ i \in 1 .. Len(q) /\ i + 1 \in 1 .. Len(q)
            /\ (i < k /\ u[i] = q[i]) \/ (i >= k /\ u[i] = q[i + 1])
  <2>1. i \in Nat /\ k \in Nat /\ i <= Len(q) - 1 /\ i \in 1 .. Len(q) - 1
    BY <1>2
  <2>2. /\ i < k => u[i] = q[i]
        /\ i >= k => u[i] = q[i + 1]
    BY <1>2, <2>1
  <2>3. i < k \/ i >= k
    BY <2>1
  <2>4. i \in 1 .. Len(q) /\ i + 1 \in 1 .. Len(q)
    BY <1>2, <2>1
  <2> QED BY <2>2, <2>3, <2>4
<1>4. Ascending(u)
  <2> SUFFICES ASSUME NEW i \in 1 .. Len(u), NEW j \in 1 .. Len(u), i < j
               PROVE Before(u[i], u[j])
    BY DEF Ascending
  <2>1. \A a, b \in 1 .. Len(q) : a < b => Before(q[a], q[b])
    BY DEF Lined, Ascending
  <2>2. i \in Nat /\ j \in Nat /\ k \in Nat
    BY <1>2
  <2>3. CASE u[i] = q[i] /\ u[j] = q[j]
    BY <1>3, <2>1, <2>3
  <2>4. CASE i < k /\ u[i] = q[i] /\ u[j] = q[j + 1]
    <3>1. i \in 1 .. Len(q) /\ j + 1 \in 1 .. Len(q) /\ i < j + 1
      BY <1>3, <2>2
    <3> QED BY <2>1, <2>4, <3>1
  <2>5. CASE u[i] = q[i + 1] /\ u[j] = q[j + 1]
    <3>1. i + 1 \in 1 .. Len(q) /\ j + 1 \in 1 .. Len(q) /\ i + 1 < j + 1
      BY <1>3, <2>2
    <3> QED BY <2>1, <2>5, <3>1
  <2>6. CASE i >= k /\ u[i] = q[i + 1] /\ j < k
    BY <2>2, <2>6
  <2> QED BY <1>3, <2>3, <2>4, <2>5, <2>6
<1>5. Lined(u, e, r, n, l)
  BY <1>3, <1>4 DEF Lined
<1> QED BY <1>1, <1>2, <1>5, LineAppends

\* What it replaces is lossy: no critical event is missed for it.
LEMMA CompleteReplaces ==
    ASSUME NEW l \in Seq(Types), NEW ty \in LOSSY_EVENT_TYPES, NEW m, m = Append(l, ty),
           ty \in Types,
           NEW q \in Seq(Event), NEW e, NEW r, NEW n \in Nat, NEW x \in Event,
           NEW k \in 1 .. Len(q), q[k].type = ty, Fits(q[k], n, l), Complete(q, e, r, n, l)
    PROVE Complete(Append(RemoveAt(q, k), x), e, r, n, m)
<1>1. PICK t : t = Append(RemoveAt(q, k), x)
  OBVIOUS
<1>2. /\ Len(t) = Len(q) /\ Len(q) \in Nat
      /\ \A i \in 1 .. Len(q) : i < k => t[i] = q[i]
      /\ \A i \in 1 .. Len(q) : i > k => i - 1 \in 1 .. Len(q) /\ t[i - 1] = q[i]
  <2>1. Replaced(Append(RemoveAt(q, k), x), q, k, x)
    BY ReplacedFacts, Zenon
  <2> QED BY <1>1, <2>1 DEF Replaced
<1>3. /\ Len(l) \in Nat /\ Len(m) = Len(l) + 1 /\ m[Len(l) + 1] = ty
      /\ \A i \in 1 .. Len(l) : m[i] = l[i]
  BY AppendFacts
<1> SUFFICES ASSUME NEW a \in n + 1 .. Len(m), m[a] \in CRITICAL_EVENT_TYPES
             PROVE Served(a, t, e, r)
  BY <1>1 DEF Complete
<1>4. LOSSY_EVENT_TYPES \cap CRITICAL_EVENT_TYPES = {}
  BY DEF LOSSY_EVENT_TYPES, CRITICAL_EVENT_TYPES
<1>5. a # Len(l) + 1
  BY <1>3, <1>4
<1>6. a \in n + 1 .. Len(l) /\ l[a] = m[a] /\ a \in Nat
  BY <1>3, <1>5
<1>7. Served(a, q, e, r)
  BY <1>6 DEF Complete
<1>8. ~Is(q[k], a)
  BY <1>4, <1>6 DEF Is, Fits
<1>9. CASE \E i \in 1 .. Len(q) : Is(q[i], a)
  <2>1. PICK i \in 1 .. Len(q) : Is(q[i], a)
    BY <1>9
  <2>2. i # k
    BY <1>8, <2>1
  <2>3. CASE i < k
    BY <1>2, <2>1, <2>3 DEF Served
  <2>4. CASE i > k
    BY <1>2, <2>1, <2>4 DEF Served
  <2> QED BY <2>2, <2>3, <2>4
<1> QED BY <1>7, <1>9 DEF Served

\* An event that is not critical may be dropped; one that is appended is served.
LEMMA CompleteAppends ==
    ASSUME NEW l \in Seq(Types), NEW ty \in Types, NEW m, m = Append(l, ty),
           NEW q \in Seq(Event), NEW e, NEW r, NEW n \in Nat, NEW x \in Event,
           x.type = ty, x.number = Len(l) + 1, Complete(q, e, r, n, l)
    PROVE /\ Complete(Append(q, x), e, r, n, m)
          /\ ty \notin CRITICAL_EVENT_TYPES => Complete(q, e, r, n, m)
<1>1. /\ Len(l) \in Nat /\ Len(m) = Len(l) + 1 /\ m[Len(l) + 1] = ty
      /\ \A i \in 1 .. Len(l) : m[i] = l[i]
  BY AppendFacts
<1>2. ty # "snapshot"
  BY FanoutAssumption
<1>3. PICK t : t = Append(q, x)
  OBVIOUS
<1>4. Len(q) + 1 \in 1 .. Len(t) /\ t[Len(q) + 1] = x
  BY <1>3, AppendFacts
<1>5. Complete(t, e, r, n, l)
  BY <1>3, CompleteLonger
<1>6. ASSUME NEW a \in n + 1 .. Len(m) PROVE a = Len(l) + 1 \/ (a \in n + 1 .. Len(l) /\ m[a] = l[a])
  BY <1>1
<1>7. Served(Len(l) + 1, t, e, r)
  BY <1>2, <1>4 DEF Served, Is
<1>8. Complete(t, e, r, n, m)
  BY <1>5, <1>6, <1>7 DEF Complete
<1>9. ty \notin CRITICAL_EVENT_TYPES => Complete(q, e, r, n, m)
  BY <1>1, <1>6 DEF Complete
<1> QED BY <1>3, <1>8, <1>9


\* What becomes of the queue q, of a line in order, with the event x.
Takes(t, x, q, e, r, n, m) ==
    /\ t \in Seq(Event) /\ Lined(t, e, r, n, m)
    /\ \A i \in 1 .. Len(q) :
          \/ \E j \in 1 .. Len(t) : t[j] = q[i]
          \/ q[i].type = x.type /\ x.type \in LOSSY_EVENT_TYPES /\ t[Len(t)] = x

LEMMA TakesAtEnd ==
    ASSUME NEW l \in Seq(Types), NEW ty \in Types, NEW m, m = Append(l, ty),
           NEW q \in Seq(Event), NEW e \in Event \cup {None}, NEW r \in Seq(Event),
           NEW n \in Nat, n <= Len(l), NEW x \in Event, x.type = ty, x.number = Len(l) + 1,
           Lined(q, e, r, n, l)
    PROVE Takes(Append(q, x), x, q, e, r, n, m)
<1>1. PICK t : t = Append(q, x)
  OBVIOUS
<1>2. t \in Seq(Event) /\ Len(q) \in Nat /\ Len(t) = Len(q) + 1 /\ \A i \in 1 .. Len(q) : t[i] = q[i]
  BY <1>1, AppendFacts
<1>3. Lined(t, e, r, n, m)
  BY <1>1, LineAppends
<1>4. \A i \in 1 .. Len(q) : i \in 1 .. Len(t)
  BY <1>2
<1> QED BY <1>1, <1>2, <1>3, <1>4 DEF Takes

LEMMA TakesInPlace ==
    ASSUME NEW l \in Seq(Types), NEW ty \in Types, NEW m, m = Append(l, ty),
           NEW q \in Seq(Event), NEW e \in Event \cup {None}, NEW r \in Seq(Event),
           NEW n \in Nat, n <= Len(l), NEW x \in Event, x.type = ty, x.number = Len(l) + 1,
           Lined(q, e, r, n, l), NEW k \in 1 .. Len(q), q[k].type = ty, ty \in LOSSY_EVENT_TYPES
    PROVE Takes(Append(RemoveAt(q, k), x), x, q, e, r, n, m)
<1>1. PICK t : t = Append(RemoveAt(q, k), x)
  OBVIOUS
<1>2. /\ t \in Seq(Event) /\ Len(t) = Len(q) /\ Len(q) \in Nat
      /\ \A i \in 1 .. Len(q) : i < k => t[i] = q[i]
      /\ \A i \in 1 .. Len(q) : i > k => i - 1 \in 1 .. Len(q) /\ t[i - 1] = q[i]
      /\ t[Len(q)] = x
  <2>1. Append(RemoveAt(q, k), x) \in Seq(Event) /\ Replaced(Append(RemoveAt(q, k), x), q, k, x)
    BY ReplacedFacts, Zenon
  <2> QED BY <1>1, <2>1 DEF Replaced
<1>3. Lined(t, e, r, n, m)
  BY <1>1, LineReplaces, Zenon
<1>4. ASSUME NEW i \in 1 .. Len(q)
      PROVE \/ \E j \in 1 .. Len(t) : t[j] = q[i]
            \/ q[i].type = x.type /\ x.type \in LOSSY_EVENT_TYPES /\ t[Len(t)] = x
  <2>1. CASE i < k
    BY <1>2, <2>1
  <2>2. CASE i = k
    BY <1>2, <2>2
  <2>3. CASE i > k
    BY <1>2, <2>3
  <2>4. i \in Nat /\ k \in Nat
    BY <1>2
  <2> QED BY <2>1, <2>2, <2>3, <2>4
<1>5. Takes(t, x, q, e, r, n, m)
  BY <1>2, <1>3, <1>4 DEF Takes
<1> QED BY <1>1, <1>2, <1>5

\* What _enqueue does with the event x that is broadcast.
LEMMA EnqueuedFacts ==
    ASSUME Typed, InLine, Registered, NEW c \in Clients, NEW ty \in Types,
           Len(log) < MaxEvents, NEW x \in Event, x.type = ty, x.number = Len(log) + 1
    PROVE /\ Takes(Enqueued(c, x), x, queue[c], sender[c].event, received[c], since[c], Append(log, ty))
          /\ Len(Enqueued(c, x)) <= QueueSize
          /\ ~Overflows(c, x) /\ Complete(queue[c], sender[c].event, received[c], since[c], log) =>
                Complete(Enqueued(c, x), sender[c].event, received[c], since[c], Append(log, ty))
<1>1. PICK q, e, r, n, m, t : /\ q = queue[c] /\ e = sender[c].event /\ r = received[c] /\ n = since[c]
                              /\ m = Append(log, ty) /\ t = Enqueued(c, x)
  OBVIOUS
<1>2. /\ log \in Seq(Types) /\ Len(log) \in Nat /\ QueueSize \in Nat \ {0}
      /\ q \in Seq(Event) /\ Len(q) \in Nat /\ Len(q) <= QueueSize
      /\ e \in Event \cup {None} /\ r \in Seq(Event) /\ n \in Nat /\ n <= Len(log)
      /\ Lined(q, e, r, n, log)
  BY <1>1, FanoutAssumption DEF Typed, InLine, Registered, SenderState
<1>6. m = Append(log, ty)
  BY <1>1
<1> SUFFICES /\ Takes(t, x, q, e, r, n, m) /\ Len(t) <= QueueSize
             /\ ~Overflows(c, x) /\ Complete(q, e, r, n, log) => Complete(t, e, r, n, m)
  BY <1>1
<1>3. CASE ~Full(c)
  <2>1. t = Append(q, x) /\ Len(q) < QueueSize
    BY <1>1, <1>2, <1>3 DEF Enqueued, Full
  <2>2. Takes(t, x, q, e, r, n, m) /\ Len(t) = Len(q) + 1
    <3>1. Takes(Append(q, x), x, q, e, r, n, m)
      BY <1>2, <1>6, TakesAtEnd, Zenon
    <3> QED BY <1>2, <2>1, <3>1, AppendFacts
  <2>3. Complete(q, e, r, n, log) => Complete(t, e, r, n, m)
    <3>1. Complete(q, e, r, n, log) => Complete(Append(q, x), e, r, n, m)
      BY <1>2, <1>6, CompleteAppends, Zenon
    <3> QED BY <2>1, <3>1
  <2>4. Len(q) \in Nat /\ QueueSize \in Nat
    BY <1>2
  <2>5. Len(t) <= QueueSize
    BY <2>1, <2>2, <2>4
  <2> QED BY <2>2, <2>3, <2>5
<1>4. CASE Full(c) /\ (ty \in LOSSY_EVENT_TYPES => \A i \in DOMAIN q : q[i].type # ty)
  <2>1. t = q
    <3>1. CASE ty \notin LOSSY_EVENT_TYPES
      BY <1>1, <1>4, <3>1 DEF Enqueued
    <3>2. CASE ty \in LOSSY_EVENT_TYPES
      <4>1. {i \in DOMAIN queue[c] : queue[c][i].type = x.type} = {}
        BY <1>1, <1>4, <3>2
      <4> QED BY <1>1, <1>4, <3>2, <4>1 DEF Enqueued, Coalesced
    <3> QED BY <3>1, <3>2
  <2>2. Lined(q, e, r, n, m)
    BY <1>1, <1>2, LineLonger
  <2>3. Takes(q, x, q, e, r, n, m)
    BY <1>2, <2>2 DEF Takes
  <2>4. ~Overflows(c, x) => ty \notin CRITICAL_EVENT_TYPES
    BY <1>4 DEF Overflows
  <2>5. ~Overflows(c, x) /\ Complete(q, e, r, n, log) => Complete(q, e, r, n, m)
    BY <1>1, <1>2, <2>4, CompleteAppends
  <2> QED BY <1>2, <2>1, <2>3, <2>5
<1>5. CASE Full(c) /\ ty \in LOSSY_EVENT_TYPES /\ \E i \in DOMAIN q : q[i].type = ty
  <2>1. PICK same : same = {i \in DOMAIN q : q[i].type = ty}
    OBVIOUS
  <2>2. same # {} /\ same \in SUBSET Nat
    BY <1>2, <1>5, <2>1
  <2>3. PICK k : k = CHOOSE i \in same : \A j \in same : i <= j
    OBVIOUS
  <2>4. k \in same
    BY <2>2, <2>3, NatLeast
  <2>5. t = Append(RemoveAt(q, k), x)
    BY <1>1, <1>5, <2>1, <2>2, <2>3 DEF Enqueued, Coalesced
  <2>6. k \in 1 .. Len(q) /\ q[k].type = ty
    BY <1>2, <2>1, <2>4
  <2>7. Takes(t, x, q, e, r, n, m) /\ Len(t) = Len(q)
    <3>1. Takes(Append(RemoveAt(q, k), x), x, q, e, r, n, m)
      BY <1>2, <1>5, <1>6, <2>6, TakesInPlace, Zenon
    <3>2. Replaced(Append(RemoveAt(q, k), x), q, k, x)
      BY <1>2, <2>6, ReplacedFacts, Zenon
    <3>3. Len(t) = Len(q)
      BY <2>5, <3>2 DEF Replaced
    <3> QED BY <2>5, <3>1, <3>3
  <2>8. Fits(q[k], n, log)
    BY <1>2, <2>6 DEF Lined
  <2>9. Complete(q, e, r, n, log) => Complete(t, e, r, n, m)
    <3>1. Complete(q, e, r, n, log) => Complete(Append(RemoveAt(q, k), x), e, r, n, m)
      BY <1>2, <1>5, <1>6, <2>6, <2>8, CompleteReplaces, Zenon
    <3> QED BY <2>5, <3>1
  <2> QED BY <1>2, <2>7, <2>9
<1> QED BY <1>3, <1>4, <1>5

-----------------------------------------------------------------------------
(* The steps of the manager *)

\* What the invariant says of one browser.
LEMMA OneBrowser ==
    ASSUME Typed, InLine, Registered, NEW c \in Clients
    PROVE /\ queue[c] \in Seq(Event) /\ received[c] \in Seq(Event)
          /\ since[c] \in Nat /\ since[c] \in 0 .. MaxEvents /\ since[c] <= Len(log)
          /\ log \in Seq(Types) /\ Len(log) \in Nat /\ MaxEvents \in Nat
          /\ sender[c] \in SenderState /\ sender[c].event \in Event \cup {None}
          /\ Lined(queue[c], sender[c].event, received[c], since[c], log)
BY FanoutAssumption DEF Typed, InLine, Registered, SenderState

LEMMA NoneIsNoEvent == None \notin Event /\ None \notin Clients
<1>1. /\ None \notin Clients
      /\ None \notin [type : Types \cup {"snapshot"}, number : Nat]
  BY FanoutAssumption, Zenon
<1>2. 0 .. MaxEvents \subseteq Nat
  BY FanoutAssumption
<1> QED BY <1>1, <1>2 DEF Event

\* Where a sender begins and where it ends.
LEMMA SenderPoints ==
    /\ Waiting \in SenderState /\ Waiting.phase = "waiting" /\ Waiting.event = None
    /\ Ended \in SenderState /\ Ended.phase = "ended" /\ Ended.event = None
BY DEF Waiting, Ended, SenderState

\* disconnect leaves the lines alone.
LEMMA DropsFacts ==
    ASSUME Typed, Registered, NEW c \in Clients, Drops(c)
    PROVE /\ clients' \subseteq clients /\ c \notin clients'
          /\ sender' \in [Clients -> SenderState]
          /\ \A d \in Clients : sender'[d].event = sender[d].event
          /\ \A d \in Clients : d # c => sender'[d] = sender[d] /\ (d \in clients' <=> d \in clients)
          /\ sender'[c].phase \notin {"waiting", "sending"}
          /\ sender'[c].phase = "none" <=> sender[c].phase = "none"
<1>1. sender[c] \in SenderState /\ sender \in [Clients -> SenderState]
  BY DEF Typed
<1>2. c \in clients <=> sender[c].phase \in {"waiting", "sending"}
  BY DEF Registered
<1>3. clients' = clients \ {c}
  BY DEF Drops
<1>4. CASE c \in clients /\ sender[c].phase # "ended"
  <2>1. PICK s : s = [sender[c] EXCEPT !.phase = "cancelled"]
    OBVIOUS
  <2>2. s \in SenderState /\ s.phase = "cancelled" /\ s.event = sender[c].event
    BY <1>1, <2>1 DEF SenderState
  <2>3. sender' = [sender EXCEPT ![c] = s]
    BY <1>4, <2>1 DEF Drops
  <2> QED BY <1>1, <1>2, <1>3, <1>4, <2>2, <2>3
<1>5. CASE ~(c \in clients /\ sender[c].phase # "ended")
  <2>1. sender' = sender
    BY <1>5 DEF Drops
  <2> QED BY <1>1, <1>2, <1>3, <1>5, <2>1
<1> QED BY <1>4, <1>5

\* A step that leaves the lines alone keeps them in order.
LEMMA LinesKept ==
    ASSUME InLine, UNCHANGED <<log, queue, received, since>>,
           \A c \in Clients : sender'[c].event = sender[c].event
    PROVE InLine'
BY DEF InLine

LEMMA NoneMissedKept ==
    ASSUME NoneMissed, Typed, UNCHANGED <<log, queue, received, since>>,
           \A c \in Clients : sender'[c].event = sender[c].event,
           clients' \subseteq clients, \A c \in clients' : Condemned(c) => Condemned(c)'
    PROVE NoneMissed'
<1> SUFFICES ASSUME NEW c \in clients', ~Condemned(c)'
             PROVE Complete(queue[c], sender[c].event, received[c], since[c], log)'
  BY DEF NoneMissed
<1>1. c \in clients /\ ~Condemned(c) /\ c \in Clients
  BY DEF Typed
<1>2. Complete(queue[c], sender[c].event, received[c], since[c], log)
  BY <1>1 DEF NoneMissed
<1> QED BY <1>1, <1>2

LEMMA ConnectKeeps == ASSUME IInv, NEW c \in Clients, Connect(c) PROVE IInv'
<1> USE DEF IInv
<1>1. /\ handler[c] = "none" /\ queue[c] = <<>> /\ received[c] = <<>> /\ sender[c].phase = "none"
      /\ sender[c].event = None
  BY DEF Connect, Registered
<1>2. Len(log) \in 0 .. MaxEvents /\ MaxEvents \in Nat /\ Len(log) \in Nat
  BY FanoutAssumption DEF Typed
<1>3. /\ handler' = [handler EXCEPT ![c] = "snapshot"]
      /\ since' = [since EXCEPT ![c] = Len(log)]
      /\ sender' = [sender EXCEPT ![c] = Waiting]
      /\ clients' = clients \cup {c}
      /\ UNCHANGED <<log, queue, open, received, task, sunk, closing>>
  BY DEF Connect
<1>4. Typed'
  BY <1>2, <1>3, SenderPoints DEF Typed
<1>5. ASSUME NEW d \in Clients
      PROVE /\ d = c => since'[d] = Len(log) /\ sender'[d] = Waiting /\ handler'[d] = "snapshot"
            /\ d # c => since'[d] = since[d] /\ sender'[d] = sender[d] /\ handler'[d] = handler[d]
                        /\ (d \in clients' <=> d \in clients)
  BY <1>3 DEF Typed
<1>6. Registered'
  BY <1>1, <1>2, <1>3, <1>5, SenderPoints DEF Registered
<1>7. InLine'
  <2> SUFFICES ASSUME NEW d \in Clients
               PROVE Lined(queue'[d], sender'[d].event, received'[d], since'[d], log')
    BY DEF InLine
  <2>1. CASE d = c
    BY <1>1, <1>3, <1>5, <2>1, EmptyLine, SenderPoints
  <2>2. CASE d # c
    BY <1>3, <1>5, <2>2 DEF InLine
  <2> QED BY <2>1, <2>2
<1>8. NoneMissed'
  <2> SUFFICES ASSUME NEW d \in clients', ~Condemned(d)'
               PROVE Complete(queue'[d], sender'[d].event, received'[d], since'[d], log')
    BY DEF NoneMissed
  <2>0. d \in Clients
    BY <1>4 DEF Typed
  <2>1. CASE d = c
    BY <1>2, <1>3, <1>5, <2>0, <2>1 DEF Complete
  <2>2. CASE d # c
    <3>1. d \in clients /\ ~Condemned(d)
      BY <1>3, <1>5, <2>0, <2>2 DEF Condemned
    <3> QED BY <1>3, <1>5, <2>0, <2>2, <3>1 DEF NoneMissed
  <2> QED BY <2>1, <2>2
<1> QED BY <1>4, <1>6, <1>7, <1>8

LEMMA SendSnapshotKeeps == ASSUME IInv, NEW c \in Clients, SendSnapshot(c) PROVE IInv'
<1> USE DEF IInv
<1>1. PICK x, t, n, l : /\ x = [type |-> "snapshot", number |-> since[c]] /\ t = queue'[c]
                        /\ n = since[c] /\ l = log
  OBVIOUS
<1>2. x \in Event /\ x.type = "snapshot"
  BY <1>1, OneBrowser DEF Event
<1>3. /\ handler' = [handler EXCEPT ![c] = "serving"] /\ handler[c] = "snapshot"
      /\ UNCHANGED <<log, clients, sender, since, open, received, task, sunk, closing>>
  BY DEF SendSnapshot
<1>4. (t = queue[c] \/ (t = Append(queue[c], x) /\ Len(queue[c]) < QueueSize)) /\ queue' = [queue EXCEPT ![c] = t]
  <2>0. Len(queue[c]) \in Nat /\ QueueSize \in Nat /\ queue \in [Clients -> Seq(Event)]
    BY FanoutAssumption DEF Typed
  <2>1. CASE c \notin clients
    BY <1>1, <2>0, <2>1 DEF SendSnapshot
  <2>2. CASE c \in clients
    <3>1. queue' = [queue EXCEPT ![c] = Enqueued(c, x)]
      BY <1>1, <2>2 DEF SendSnapshot
    <3>2. x.type \notin LOSSY_EVENT_TYPES
      BY <1>2 DEF LOSSY_EVENT_TYPES
    <3>3. Enqueued(c, x) = queue[c] \/ (Enqueued(c, x) = Append(queue[c], x) /\ Len(queue[c]) < QueueSize)
      BY <2>0, <3>2 DEF Enqueued, Full
    <3> QED BY <1>1, <2>0, <3>1, <3>3
  <2> QED BY <2>1, <2>2
<1>5. /\ t \in Seq(Event) /\ Len(t) <= QueueSize
      /\ Lined(t, sender[c].event, received[c], n, l)
      /\ Complete(queue[c], sender[c].event, received[c], n, l) =>
            Complete(t, sender[c].event, received[c], n, l)
  <2>1. CASE t = queue[c]
    BY <1>1, <2>1, OneBrowser DEF Typed
  <2>2. CASE t = Append(queue[c], x) /\ Len(queue[c]) < QueueSize
    <3>0. /\ queue[c] \in Seq(Event) /\ Len(queue[c]) \in Nat /\ QueueSize \in Nat
          /\ Lined(queue[c], sender[c].event, received[c], n, l)
      BY <1>1, FanoutAssumption, OneBrowser
    <3>1. t \in Seq(Event) /\ Len(t) = Len(queue[c]) + 1
      BY <1>2, <2>2, <3>0, AppendFacts
    <3>2. Lined(t, sender[c].event, received[c], n, l)
      BY <1>2, <2>2, <3>0, LineSnapshot
    <3>3. Complete(queue[c], sender[c].event, received[c], n, l) =>
            Complete(t, sender[c].event, received[c], n, l)
      BY <1>2, <2>2, <3>0, CompleteLonger
    <3> QED BY <2>2, <3>0, <3>1, <3>2, <3>3
  <2> QED BY <1>4, <2>1, <2>2
<1>6. \A d \in Clients : queue'[d] = IF d = c THEN t ELSE queue[d]
  BY <1>4 DEF Typed
<1>7. Typed'
  <2>1. queue' \in [Clients -> Seq(Event)]
    BY <1>4, <1>5 DEF Typed
  <2>2. \A d \in Clients : Len(queue'[d]) <= QueueSize
    BY <1>5, <1>6 DEF Typed
  <2> QED BY <1>3, <2>1, <2>2 DEF Typed
<1>8. Registered'
  <2>1. \A d \in Clients : handler'[d] = "none" <=> handler[d] = "none"
    BY <1>3 DEF Typed
  <2>2. \A d \in Clients : handler'[d] = "none" => d # c
    BY <1>3 DEF Typed
  <2> QED BY <1>3, <1>6, <2>1, <2>2 DEF Registered
<1>9. InLine'
  BY <1>1, <1>3, <1>5, <1>6 DEF InLine
<1>10. NoneMissed'
  <2> SUFFICES ASSUME NEW d \in clients', ~Condemned(d)'
               PROVE Complete(queue'[d], sender[d].event, received[d], since[d], log)
    BY <1>3 DEF NoneMissed
  <2>1. d \in clients /\ ~Condemned(d) /\ d \in Clients
    BY <1>3 DEF Condemned, Typed
  <2>2. Complete(queue[d], sender[d].event, received[d], since[d], log)
    BY <2>1 DEF NoneMissed
  <2> QED BY <1>1, <1>5, <1>6, <2>1, <2>2
<1> QED BY <1>7, <1>8, <1>9, <1>10

LEMMA HandlerNoticesKeeps == ASSUME IInv, NEW c \in Clients, HandlerNotices(c) PROVE IInv'
<1> USE DEF IInv
<1>1. PICK h \in {"ended", "closing"} : handler' = [handler EXCEPT ![c] = h]
  BY DEF HandlerNotices
<1>2. handler[c] = "serving" /\ Drops(c) /\ UNCHANGED <<log, queue, since, open, received, task, sunk, closing>>
  BY DEF HandlerNotices
<1>3. /\ clients' \subseteq clients /\ c \notin clients' /\ sender' \in [Clients -> SenderState]
      /\ \A d \in Clients : sender'[d].event = sender[d].event
      /\ \A d \in Clients : d # c => sender'[d] = sender[d] /\ (d \in clients' <=> d \in clients)
      /\ sender'[c].phase \notin {"waiting", "sending"}
      /\ sender'[c].phase = "none" <=> sender[c].phase = "none"
  BY <1>2, DropsFacts
<1>4. Typed'
  BY <1>1, <1>2, <1>3 DEF Typed
<1>5. \A d \in Clients : handler'[d] = "none" <=> handler[d] = "none"
  BY <1>1, <1>2 DEF Typed
<1>6. Registered'
  BY <1>2, <1>3, <1>5 DEF Registered
<1>7. InLine'
  BY <1>2, <1>3, LinesKept
<1>8. NoneMissed'
  BY <1>2, <1>3, NoneMissedKept DEF Condemned
<1> QED BY <1>4, <1>6, <1>7, <1>8

LEMMA HandlerEndsKeeps == ASSUME IInv, NEW c \in Clients, HandlerEnds(c) PROVE IInv'
<1> USE DEF IInv
<1>1. /\ handler' = [handler EXCEPT ![c] = "ended"] /\ handler[c] = "closing"
      /\ UNCHANGED <<log, clients, queue, sender, since, open, received, task, sunk, closing>>
  BY DEF HandlerEnds
<1>2. Typed'
  BY <1>1 DEF Typed
<1>3. \A d \in Clients : handler'[d] = "none" <=> handler[d] = "none"
  BY <1>1 DEF Typed
<1>4. Registered'
  BY <1>1, <1>3 DEF Registered
<1>5. InLine'
  BY <1>1, LinesKept
<1>6. NoneMissed'
  BY <1>1, NoneMissedKept DEF Condemned
<1> QED BY <1>2, <1>4, <1>5, <1>6

LEMMA ClosesKeeps == ASSUME IInv, NEW c \in Clients, Closes(c) PROVE IInv'
<1> USE DEF IInv
<1>1. open' = open \ {c} /\ UNCHANGED <<log, clients, queue, sender, handler, since, received, task, sunk, closing>>
  BY DEF Closes
<1>2. Typed'
  BY <1>1 DEF Typed
<1>3. Registered'
  BY <1>1 DEF Registered
<1>4. InLine'
  BY <1>1, LinesKept
<1>5. NoneMissed'
  BY <1>1, NoneMissedKept DEF Condemned
<1> QED BY <1>2, <1>3, <1>4, <1>5

\* The line of c takes other values than before, those of the others stay.
LineOf(c, q, e, r, n) ==
    /\ UNCHANGED log
    /\ queue'[c] = q /\ sender'[c].event = e /\ received'[c] = r /\ since'[c] = n
    /\ \A d \in Clients :
          d # c => /\ queue'[d] = queue[d] /\ sender'[d] = sender[d]
                   /\ received'[d] = received[d] /\ since'[d] = since[d]

LEMMA LineChanges ==
    ASSUME InLine, NEW c \in Clients, NEW q, NEW e, NEW r, NEW n, LineOf(c, q, e, r, n),
           Lined(q, e, r, n, log)
    PROVE InLine'
<1> SUFFICES ASSUME NEW d \in Clients
             PROVE Lined(queue'[d], sender'[d].event, received'[d], since'[d], log')
  BY DEF InLine
<1>1. CASE d = c
  BY <1>1 DEF LineOf
<1>2. CASE d # c
  BY <1>2 DEF LineOf, InLine
<1> QED BY <1>1, <1>2

LEMMA NoneMissedChanges ==
    ASSUME Typed, NoneMissed, NEW c \in Clients, NEW q, NEW e, NEW r, NEW n, LineOf(c, q, e, r, n),
           UNCHANGED task, clients' \subseteq clients,
           c \in clients' /\ Complete(queue[c], sender[c].event, received[c], since[c], log) =>
               Complete(q, e, r, n, log)
    PROVE NoneMissed'
<1> SUFFICES ASSUME NEW d \in clients', ~Condemned(d)'
             PROVE Complete(queue'[d], sender'[d].event, received'[d], since'[d], log')
  BY DEF NoneMissed
<1>1. d \in clients /\ ~Condemned(d) /\ d \in Clients
  BY DEF Condemned, Typed
<1>2. Complete(queue[d], sender[d].event, received[d], since[d], log)
  BY <1>1 DEF NoneMissed
<1>3. CASE d = c
  BY <1>2, <1>3 DEF LineOf
<1>4. CASE d # c
  BY <1>1, <1>2, <1>4 DEF LineOf
<1> QED BY <1>3, <1>4

LEMMA SenderTakesKeeps == ASSUME IInv, NEW c \in Clients, SenderTakes(c) PROVE IInv'
<1> USE DEF IInv
<1>1. PICK q, x, r, n, s, t : /\ q = queue[c] /\ x = Head(q) /\ r = received[c] /\ n = since[c]
                              /\ s = [phase |-> "sending", event |-> x] /\ t = Tail(q)
  OBVIOUS
<1>2. /\ q \in Seq(Event) /\ q # <<>> /\ r \in Seq(Event) /\ n \in Nat
      /\ sender[c].phase = "waiting" /\ sender[c].event = None /\ c \in clients
      /\ Lined(q, None, r, n, log)
  BY <1>1, OneBrowser DEF SenderTakes, Registered
<1>3. t \in Seq(Event) /\ Len(t) = Len(q) - 1 /\ Len(q) \in Nat \ {0} /\ x \in Event /\ x # None
  BY <1>1, <1>2, TailFacts, NoneIsNoEvent
<1>4. s \in SenderState /\ s.phase = "sending" /\ s.event = x
  BY <1>1, <1>3 DEF SenderState
<1>5. /\ sender' = [sender EXCEPT ![c] = s] /\ queue' = [queue EXCEPT ![c] = t]
      /\ UNCHANGED <<log, clients, handler, since, open, received, task, sunk, closing>>
  BY <1>1 DEF SenderTakes
<1>6. LineOf(c, t, x, r, n)
  BY <1>1, <1>4, <1>5 DEF LineOf, Typed
<1>7. /\ Lined(t, x, r, n, log)
      /\ Complete(q, None, r, n, log) => Complete(t, x, r, n, log)
  BY <1>1, <1>2, <1>3, LineTakes, CompleteTakes
<1>8. Typed'
  <2>1. queue' \in [Clients -> Seq(Event)] /\ sender' \in [Clients -> SenderState]
    BY <1>3, <1>4, <1>5 DEF Typed
  <2>2. ASSUME NEW d \in Clients PROVE Len(queue'[d]) <= QueueSize
    <3>1. Len(q) <= QueueSize /\ QueueSize \in Nat
      BY <1>1, FanoutAssumption DEF Typed
    <3>2. queue'[d] = queue[d] \/ queue'[d] = t
      BY <1>5 DEF Typed
    <3> QED BY <1>3, <3>1, <3>2 DEF Typed
  <2> QED BY <1>5, <2>1, <2>2 DEF Typed
<1>9. Registered'
  <2>1. \A d \in Clients :
            /\ d = c => sender'[d].phase = "sending" /\ sender'[d].event # None
            /\ d # c => sender'[d] = sender[d] /\ queue'[d] = queue[d]
    BY <1>3, <1>4, <1>5 DEF Typed
  <2> QED BY <1>2, <1>5, <2>1 DEF Registered
<1>10. InLine'
  BY <1>6, <1>7, LineChanges
<1>11. NoneMissed'
  BY <1>1, <1>2, <1>5, <1>6, <1>7, NoneMissedChanges
<1> QED BY <1>8, <1>9, <1>10, <1>11

LEMMA SendsKeeps == ASSUME IInv, NEW c \in Clients, Sends(c) PROVE IInv'
<1> USE DEF IInv
<1>1. PICK q, x, r, n, t : /\ q = queue[c] /\ x = sender[c].event /\ r = received[c] /\ n = since[c]
                           /\ t = received'[c]
  OBVIOUS
<1>2. /\ q \in Seq(Event) /\ x \in Event /\ x # None /\ r \in Seq(Event) /\ n \in Nat
      /\ sender[c].phase = "sending" /\ c \in clients /\ Len(log) \in Nat
      /\ Lined(q, x, r, n, log)
  BY <1>1, OneBrowser, NoneIsNoEvent DEF Sends, Registered
<1>3. /\ sender' = [sender EXCEPT ![c] = Waiting]
      /\ UNCHANGED <<log, clients, queue, handler, since, open, task, sunk, closing>>
  BY DEF Sends
<1>4. /\ t \in Seq(Event) /\ received' = [received EXCEPT ![c] = t]
      /\ Lined(q, None, t, n, log)
      /\ Complete(q, x, r, n, log) => Complete(q, None, t, n, log)
  <2>0. received \in [Clients -> Seq(Event)]
    BY DEF Typed
  <2>1. CASE Critical(x)
    <3>1. received' = [received EXCEPT ![c] = Append(r, x)]
      BY <1>1, <2>1 DEF Sends, Deliver
    <3>2. t = Append(r, x)
      BY <1>1, <2>0, <3>1
    <3>3. t \in Seq(Event) /\ Lined(q, None, t, n, log)
      BY <1>2, <2>1, <3>2, LineReceives
    <3>4. Complete(q, x, r, n, log) => Complete(q, None, t, n, log)
      BY <1>2, <3>2, CompleteReceives
    <3> QED BY <3>1, <3>2, <3>3, <3>4
  <2>2. CASE ~Critical(x)
    <3>1. received' = received /\ t = r
      BY <1>1, <2>2 DEF Sends, Deliver
    <3>2. Lined(q, None, t, n, log)
      BY <1>2, <3>1, LineForgets
    <3>3. Fits(x, n, log)
      BY <1>2 DEF Lined
    <3>4. Complete(q, x, r, n, log) => Complete(q, None, t, n, log)
      BY <1>2, <2>2, <3>1, <3>3, CompleteForgets
    <3> QED BY <1>1, <1>2, <2>0, <3>1, <3>2, <3>4
  <2> QED BY <2>1, <2>2
<1>5. LineOf(c, q, None, t, n)
  BY <1>1, <1>3, <1>4, SenderPoints DEF LineOf, Typed
<1>6. Typed'
  <2>1. received' \in [Clients -> Seq(Event)] /\ sender' \in [Clients -> SenderState]
    BY <1>3, <1>4, SenderPoints DEF Typed
  <2> QED BY <1>3, <2>1 DEF Typed
<1>7. Registered'
  <2>1. \A d \in Clients :
            /\ d = c => sender'[d].phase = "waiting" /\ sender'[d].event = None
            /\ d # c => sender'[d] = sender[d] /\ received'[d] = received[d]
    BY <1>3, <1>4, SenderPoints DEF Typed
  <2> QED BY <1>2, <1>3, <2>1 DEF Registered
<1>8. InLine'
  BY <1>4, <1>5, LineChanges
<1>9. NoneMissed'
  BY <1>1, <1>3, <1>4, <1>5, NoneMissedChanges
<1> QED BY <1>6, <1>7, <1>8, <1>9

\* A sender that ends leaves an empty line.
LEMMA SenderGoneFacts ==
    ASSUME IInv, NEW c \in Clients, SenderGone(c), sender[c].phase \in {"sending", "cancelled"},
           UNCHANGED <<log, handler, open, task, sunk, closing>>, clients' = clients \ {c}
    PROVE IInv'
<1> USE DEF IInv
<1>1. /\ sender' = [sender EXCEPT ![c] = Ended] /\ queue' = [queue EXCEPT ![c] = <<>>]
      /\ received' = [received EXCEPT ![c] = <<>>] /\ since' = [since EXCEPT ![c] = 0]
  BY DEF SenderGone
<1>2. LineOf(c, <<>>, None, <<>>, 0)
  BY <1>1, SenderPoints DEF LineOf, Typed
<1>3. Typed'
  <2>1. /\ queue' \in [Clients -> Seq(Event)] /\ received' \in [Clients -> Seq(Event)]
        /\ sender' \in [Clients -> SenderState] /\ since' \in [Clients -> 0 .. MaxEvents]
    BY <1>1, SenderPoints, FanoutAssumption DEF Typed
  <2>2. \A d \in Clients : Len(queue'[d]) <= QueueSize
    BY <1>1, FanoutAssumption DEF Typed
  <2> QED BY <2>1, <2>2 DEF Typed
<1>4. Registered'
  <2>1. \A d \in Clients :
            /\ d = c => /\ sender'[d].phase = "ended" /\ sender'[d].event = None
                        /\ since'[d] = 0 /\ queue'[d] = <<>> /\ received'[d] = <<>>
            /\ d # c => /\ sender'[d] = sender[d] /\ queue'[d] = queue[d]
                        /\ received'[d] = received[d] /\ since'[d] = since[d]
    BY <1>1, SenderPoints DEF Typed
  <2>2. Len(log) \in Nat
    BY DEF Typed
  <2> QED BY <2>1, <2>2 DEF Registered
<1>5. InLine'
  BY <1>2, EmptyLine, LineChanges
<1>6. NoneMissed'
  BY <1>2, NoneMissedChanges
<1> QED BY <1>3, <1>4, <1>5, <1>6

LEMMA SendFailsKeeps == ASSUME IInv, NEW c \in Clients, SendFails(c) PROVE IInv'
BY SenderGoneFacts DEF SendFails

LEMMA SenderEndsKeeps == ASSUME IInv, NEW c \in Clients, SenderEnds(c) PROVE IInv'
<1>1. c \notin clients
  BY DEF SenderEnds, IInv, Registered
<1> QED BY <1>1, SenderGoneFacts DEF SenderEnds

-----------------------------------------------------------------------------
(* The steps of a broadcast *)

LEMMA TaskPoints == Idle \in TaskState /\ Idle.stale = {}
BY DEF Idle, TaskState

LEMMA BroadcastKeeps ==
    ASSUME IInv, NEW b \in Tasks, NEW ty \in Types, Broadcast(b, ty)
    PROVE IInv'
<1> USE DEF IInv
<1>1. PICK x, stale, w : /\ x = [type |-> ty, number |-> Len(log) + 1]
                         /\ stale = {c \in clients : Overflows(c, x)}
                         /\ w = IF stale = {} THEN Idle
                                ELSE [event |-> x.number, stale |-> stale, awaits |-> None]
  OBVIOUS
<1>2. Len(log) \in Nat /\ Len(log) < MaxEvents /\ MaxEvents \in Nat /\ log \in Seq(Types)
  BY FanoutAssumption DEF Broadcast, Typed
<1>3. x \in Event /\ x.type = ty /\ x.number = Len(log) + 1 /\ x.number \in 1 .. MaxEvents
  BY <1>1, <1>2 DEF Event
<1>4. /\ task[b] = Idle /\ log' = Append(log, ty)
      /\ queue' = [c \in Clients |-> IF c \in clients THEN Enqueued(c, x) ELSE queue[c]]
      /\ task' = [task EXCEPT ![b] = w]
      /\ sunk' \subseteq sunk \cup {x.number}
      /\ UNCHANGED <<clients, sender, handler, since, open, received, closing>>
  BY <1>1, <1>3 DEF Broadcast
<1>5. w \in TaskState /\ stale \subseteq w.stale
  BY <1>1, <1>3, TaskPoints DEF Typed, TaskState
<1>6. ASSUME NEW c \in clients
      PROVE /\ Takes(queue'[c], x, queue[c], sender[c].event, received[c], since[c], log')
            /\ Len(queue'[c]) <= QueueSize
            /\ ~Overflows(c, x) /\ Complete(queue[c], sender[c].event, received[c], since[c], log) =>
                  Complete(queue'[c], sender[c].event, received[c], since[c], log')
  <2>1. c \in Clients
    BY DEF Typed
  <2>2. queue'[c] = Enqueued(c, x)
    BY <1>4, <2>1
  <2> QED BY <1>2, <1>3, <1>4, <2>1, <2>2, EnqueuedFacts
<1>7. \A c \in Clients : c \notin clients => queue'[c] = queue[c]
  BY <1>4
<1>8. log' \in Seq(Types) /\ Len(log') = Len(log) + 1
  BY <1>2, <1>4, AppendFacts
<1>9. Typed'
  <2>1. \A c \in Clients : queue'[c] \in Seq(Event) /\ Len(queue'[c]) <= QueueSize
    BY <1>6, <1>7 DEF Takes, Typed
  <2>2. queue' \in [Clients -> Seq(Event)]
    <3>1. queue' = [c \in Clients |-> queue'[c]]
      BY <1>4
    <3> QED BY <2>1, <3>1
  <2>3. task' \in [Tasks -> TaskState]
    BY <1>4, <1>5 DEF Typed
  <2>4. Len(log') <= MaxEvents
    BY <1>2, <1>8
  <2>5. sunk' \subseteq 1 .. MaxEvents
    BY <1>3, <1>4 DEF Typed
  <2> QED BY <1>4, <1>8, <2>1, <2>2, <2>3, <2>4, <2>5 DEF Typed
<1>10. Registered'
  <2>1. ASSUME NEW c \in Clients PROVE since[c] <= Len(log')
    BY <1>2, <1>8, <2>1, OneBrowser
  <2>2. ASSUME NEW c \in Clients, handler[c] = "none" PROVE queue'[c] = queue[c]
    BY <1>7, <2>2 DEF Registered
  <2> QED BY <1>4, <2>1, <2>2 DEF Registered
<1>11. InLine'
  <2> SUFFICES ASSUME NEW c \in Clients
               PROVE Lined(queue'[c], sender[c].event, received[c], since[c], log')
    BY <1>4 DEF InLine
  <2>1. CASE c \in clients
    BY <1>6, <2>1 DEF Takes
  <2>2. CASE c \notin clients
    BY <1>2, <1>4, <1>7, <2>2, OneBrowser, LineLonger
  <2> QED BY <2>1, <2>2
<1>12. NoneMissed'
  <2> SUFFICES ASSUME NEW c \in clients, ~Condemned(c)'
               PROVE Complete(queue'[c], sender[c].event, received[c], since[c], log')
    BY <1>4 DEF NoneMissed
  <2>1. \A a \in Tasks : c \notin task'[a].stale
    BY DEF Condemned
  <2>2. task'[b] = w
    BY <1>4 DEF Typed
  <2>3. ~Overflows(c, x)
    BY <1>1, <1>5, <2>1, <2>2
  <2>4. \A a \in Tasks : a # b => task'[a] = task[a]
    BY <1>4 DEF Typed
  <2>5. ~Condemned(c)
    BY <1>4, <2>1, <2>4, TaskPoints DEF Condemned
  <2> QED BY <1>6, <2>3, <2>5 DEF NoneMissed
<1> QED BY <1>9, <1>10, <1>11, <1>12

\* Steps of a broadcast that leave the lines and the registry alone.
LEMMA TaskKeeps ==
    ASSUME IInv, NEW b \in Tasks, NEW w \in TaskState, task' = [task EXCEPT ![b] = w],
           task[b].stale \subseteq w.stale, sunk' \subseteq 1 .. MaxEvents, closing' \in BOOLEAN,
           UNCHANGED <<log, clients, queue, sender, handler, since, open, received>>
    PROVE IInv'
<1> USE DEF IInv
<1>1. Typed'
  BY DEF Typed
<1>2. Registered'
  BY DEF Registered
<1>3. InLine'
  BY LinesKept
<1>4. \A c \in clients : Condemned(c) => Condemned(c)'
  BY DEF Condemned, Typed
<1>5. NoneMissed'
  BY <1>4, NoneMissedKept
<1> QED BY <1>1, <1>2, <1>3, <1>5

LEMMA CloseAllKeeps == ASSUME IInv, NEW b \in Tasks, CloseAll(b) PROVE IInv'
<1>1. PICK w : w = [Idle EXCEPT !.stale = clients]
  OBVIOUS
<1>2. w \in TaskState
  BY <1>1 DEF Idle, TaskState, IInv, Typed
<1>3. task[b].stale \subseteq w.stale
  BY <1>1, TaskPoints DEF CloseAll
<1> QED BY <1>1, <1>2, <1>3, TaskKeeps DEF CloseAll, IInv, Typed

LEMMA DroppedKeeps == ASSUME IInv, NEW b \in Tasks, Dropped(b) PROVE IInv'
<1>1. PICK w : w = [task[b] EXCEPT !.awaits = None]
  OBVIOUS
<1>2. task[b] \in TaskState
  BY DEF IInv, Typed
<1>3. w \in TaskState /\ w.stale = task[b].stale
  BY <1>1, <1>2 DEF TaskState
<1> QED BY <1>1, <1>3, TaskKeeps DEF Dropped, IInv, Typed

LEMMA BroadcastEndsKeeps == ASSUME IInv, NEW b \in Tasks, BroadcastEnds(b) PROVE IInv'
<1>1. task[b] \in TaskState
  BY DEF IInv, Typed
<1>2. sunk' \subseteq 1 .. MaxEvents
  BY <1>1 DEF BroadcastEnds, IInv, Typed, TaskState
<1>3. task[b].stale \subseteq Idle.stale
  BY TaskPoints DEF BroadcastEnds
<1> QED BY <1>2, <1>3, TaskPoints, TaskKeeps DEF BroadcastEnds, IInv, Typed

LEMMA DropKeeps == ASSUME IInv, NEW b \in Tasks, NEW c \in Clients, Drop(b, c) PROVE IInv'
<1> USE DEF IInv
<1>1. PICK w : w = [task[b] EXCEPT !.stale = @ \ {c}, !.awaits = Awaited(c)]
  OBVIOUS
<1>2. task[b] \in TaskState
  BY DEF Typed
<1>3. w \in TaskState /\ w.stale = task[b].stale \ {c}
  BY <1>1, <1>2 DEF TaskState, Awaited
<1>4. task' = [task EXCEPT ![b] = w]
  BY <1>1 DEF Drop, Typed
<1>5. Drops(c) /\ UNCHANGED <<log, queue, handler, since, open, received, sunk, closing>>
  BY DEF Drop
<1>6. /\ clients' \subseteq clients /\ c \notin clients' /\ sender' \in [Clients -> SenderState]
      /\ \A d \in Clients : sender'[d].event = sender[d].event
      /\ \A d \in Clients : d # c => sender'[d] = sender[d] /\ (d \in clients' <=> d \in clients)
      /\ sender'[c].phase \notin {"waiting", "sending"}
      /\ sender'[c].phase = "none" <=> sender[c].phase = "none"
  BY <1>5, DropsFacts
<1>7. Typed'
  <2>1. task' \in [Tasks -> TaskState]
    BY <1>3, <1>4 DEF Typed
  <2> QED BY <1>5, <1>6, <2>1 DEF Typed
<1>8. Registered'
  BY <1>5, <1>6 DEF Registered
<1>9. InLine'
  BY <1>5, <1>6, LinesKept
<1>10. \A d \in clients' : Condemned(d) => Condemned(d)'
  BY <1>3, <1>4, <1>6 DEF Condemned, Typed
<1>11. NoneMissed'
  BY <1>5, <1>6, <1>10, NoneMissedKept
<1> QED BY <1>7, <1>8, <1>9, <1>11

-----------------------------------------------------------------------------
LEMMA InitInv == Init => IInv
<1> SUFFICES ASSUME Init PROVE IInv
  OBVIOUS
<1>1. PICK s : s = [phase |-> "none", event |-> None]
  OBVIOUS
<1>2. s \in SenderState /\ s.phase = "none" /\ s.event = None
  BY <1>1 DEF SenderState
<1>3. \A c \in Clients : /\ sender[c] = s /\ queue[c] = <<>> /\ received[c] = <<>> /\ since[c] = 0
                         /\ handler[c] = "none"
  BY <1>1 DEF Init
<1>4. log = <<>> /\ Len(log) = 0 /\ clients = {}
  BY DEF Init
<1>5. Typed
  <2>1. sender \in [Clients -> SenderState]
    BY <1>1, <1>2 DEF Init
  <2>2. queue \in [Clients -> Seq(Event)] /\ received \in [Clients -> Seq(Event)]
    BY DEF Init
  <2>3. \A c \in Clients : Len(queue[c]) <= QueueSize
    BY <1>3, FanoutAssumption
  <2>4. log \in Seq(Types) /\ Len(log) <= MaxEvents
    BY <1>4, FanoutAssumption
  <2>5. since \in [Clients -> 0 .. MaxEvents] /\ sunk \subseteq 1 .. MaxEvents
    BY FanoutAssumption DEF Init
  <2>6. /\ task \in [Tasks -> TaskState] /\ closing \in BOOLEAN /\ open \subseteq Clients
        /\ handler \in [Clients -> {"none", "snapshot", "serving", "closing", "ended"}]
    BY TaskPoints DEF Init
  <2> QED BY <1>4, <2>1, <2>2, <2>3, <2>4, <2>5, <2>6 DEF Typed
<1>6. Registered
  BY <1>2, <1>3, <1>4 DEF Registered
<1>7. InLine
  BY <1>2, <1>3, EmptyLine DEF InLine
<1>8. NoneMissed
  BY <1>4 DEF NoneMissed
<1> QED BY <1>5, <1>6, <1>7, <1>8 DEF IInv

LEMMA StepInv == IInv /\ [Next]_vars => IInv'
<1> SUFFICES ASSUME IInv, [Next]_vars PROVE IInv'
  OBVIOUS
<1>1. ASSUME NEW c \in Clients, Connect(c) PROVE IInv'
  BY <1>1, ConnectKeeps
<1>2. ASSUME NEW c \in Clients, Handler(c) PROVE IInv'
  BY <1>2, SendSnapshotKeeps, HandlerNoticesKeeps, HandlerEndsKeeps DEF Handler
<1>3. ASSUME NEW c \in Clients, Sender(c) PROVE IInv'
  BY <1>3, SenderTakesKeeps, SendFailsKeeps, SenderEndsKeeps DEF Sender
<1>4. ASSUME NEW c \in Clients, Sends(c) PROVE IInv'
  BY <1>4, SendsKeeps
<1>5. ASSUME NEW c \in Clients, Closes(c) PROVE IInv'
  BY <1>5, ClosesKeeps
<1>6. ASSUME NEW b \in Tasks, NEW type \in Types, Broadcast(b, type) PROVE IInv'
  BY <1>6, BroadcastKeeps
<1>7. ASSUME NEW b \in Tasks, CloseAll(b) PROVE IInv'
  BY <1>7, CloseAllKeeps
<1>8. ASSUME NEW b \in Tasks, Continue(b) PROVE IInv'
  BY <1>8, DropKeeps, DroppedKeeps, BroadcastEndsKeeps DEF Continue
<1>9. CASE UNCHANGED vars
  <2>1. UNCHANGED <<log, clients, queue, sender, handler, since, open, received, task, sunk, closing>>
    BY <1>9 DEF vars
  <2> QED BY <2>1 DEF IInv, Typed, Registered, InLine, NoneMissed, Condemned
<1> QED BY <1>1, <1>2, <1>3, <1>4, <1>5, <1>6, <1>7, <1>8, <1>9 DEF Next

\* The invariant of the fan-out: the lines of the browsers are in order, those
\* of the registered ones that no broadcast condemns complete (_enqueue,
\* broadcast, _sender_loop, disconnect).
THEOREM FanoutInvariance == Spec => []IInv
BY InitInv, StepInv, PTL DEF Spec

-----------------------------------------------------------------------------
(* What a browser gets *)

\* Where the events of a line are in it, k of them in transit: the received
\* ones first, the queued last.
Along(w, q, e, r, k) ==
    /\ DOMAIN w = 1 .. Len(w)
    /\ \A a \in 1 .. Len(w) :
          \/ a \in 1 .. Len(r) /\ w[a] = r[a]
          \/ e # None /\ a = Len(r) + 1 /\ w[a] = e
          \/ \E b \in 1 .. Len(q) : w[a] = q[b] /\ a = b + Len(r) + k
    /\ \A a \in 1 .. Len(r) : \E b \in 1 .. Len(w) : w[b] = r[a]
    /\ e # None => \E b \in 1 .. Len(w) : w[b] = e
    /\ \A a \in 1 .. Len(q) : \E b \in 1 .. Len(w) : w[b] = q[a]

LEMMA WayFacts ==
    ASSUME NEW q \in Seq(Event), NEW e \in Event \cup {None}, NEW r \in Seq(Event),
           NEW m, m = (IF e = None THEN <<>> ELSE <<e>>), NEW w, w = r \o m \o q
    PROVE Along(w, q, e, r, Len(m))
<1>1. PICK k : k = IF e = None THEN 0 ELSE 1
  OBVIOUS
<1>2. /\ m \in Seq(Event) /\ Len(m) = k /\ k \in {0, 1} /\ (k = 1 <=> e # None)
      /\ k = 1 => m[1] = e
  BY <1>1
<1>3. Len(q) \in Nat /\ Len(r) \in Nat
  OBVIOUS
<1>4. PICK a : a = r \o m
  OBVIOUS
<1>5. /\ a \in Seq(Event) /\ Len(a) = Len(r) + k
      /\ \A i \in 1 .. Len(r) + k : a[i] = IF i <= Len(r) THEN r[i] ELSE m[i - Len(r)]
  BY <1>2, <1>4, ConcatProperties
<1>6. /\ w \in Seq(Event) /\ Len(w) = Len(a) + Len(q)
      /\ \A i \in 1 .. Len(a) + Len(q) : w[i] = IF i <= Len(a) THEN a[i] ELSE q[i - Len(a)]
  <2>1. w = a \o q
    BY <1>4
  <2> QED BY <1>5, <2>1, ConcatProperties
<1>7. Len(a) \in Nat /\ Len(w) = Len(r) + k + Len(q) /\ DOMAIN w = 1 .. Len(w)
  BY <1>2, <1>3, <1>5, <1>6
<1>8. ASSUME NEW i \in 1 .. Len(r) PROVE i \in 1 .. Len(w) /\ w[i] = r[i]
  <2>1. i \in 1 .. Len(w) /\ i \in 1 .. Len(r) + k /\ i <= Len(a) /\ i <= Len(r)
    BY <1>2, <1>3, <1>5, <1>7
  <2>2. w[i] = a[i]
    BY <1>6, <1>7, <2>1
  <2> QED BY <1>5, <2>1, <2>2
<1>9. ASSUME e # None PROVE Len(r) + 1 \in 1 .. Len(w) /\ w[Len(r) + 1] = e
  <2>1. /\ Len(r) + 1 \in 1 .. Len(w) /\ Len(r) + 1 \in 1 .. Len(r) + k /\ Len(r) + 1 <= Len(a)
        /\ ~(Len(r) + 1 <= Len(r)) /\ (Len(r) + 1) - Len(r) = 1
    BY <1>2, <1>3, <1>5, <1>7, <1>9
  <2>2. w[Len(r) + 1] = a[Len(r) + 1]
    BY <1>6, <1>7, <2>1
  <2>3. a[Len(r) + 1] = m[(Len(r) + 1) - Len(r)]
    BY <1>5, <2>1
  <2> QED BY <1>2, <1>9, <2>1, <2>2, <2>3
<1>10. ASSUME NEW i \in 1 .. Len(q) PROVE i + Len(r) + k \in 1 .. Len(w) /\ w[i + Len(r) + k] = q[i]
  <2>1. /\ i + Len(r) + k \in 1 .. Len(w) /\ ~(i + Len(r) + k <= Len(a))
        /\ (i + Len(r) + k) - Len(a) = i
    BY <1>2, <1>3, <1>5, <1>7
  <2>2. w[i + Len(r) + k] = q[(i + Len(r) + k) - Len(a)]
    BY <1>6, <1>7, <2>1
  <2> QED BY <2>1, <2>2
<1>11. ASSUME NEW i \in 1 .. Len(w)
       PROVE \/ i \in 1 .. Len(r) /\ w[i] = r[i]
             \/ e # None /\ i = Len(r) + 1 /\ w[i] = e
             \/ \E j \in 1 .. Len(q) : w[i] = q[j] /\ i = j + Len(r) + k
  <2>1. CASE i <= Len(r)
    <3>1. i \in 1 .. Len(r)
      BY <1>3, <2>1
    <3> QED BY <1>8, <3>1
  <2>2. CASE i > Len(r) /\ i <= Len(r) + k
    <3>1. i = Len(r) + 1 /\ k = 1
      BY <1>2, <1>3, <2>2
    <3> QED BY <1>2, <1>9, <3>1
  <2>3. CASE i > Len(r) + k
    <3>1. PICK j : j = i - (Len(r) + k)
      OBVIOUS
    <3>2. j \in 1 .. Len(q) /\ i = j + Len(r) + k
      BY <1>2, <1>3, <1>7, <2>3, <3>1
    <3> QED BY <1>10, <3>2
  <2>4. i \in Nat
    BY <1>7
  <2> QED BY <1>2, <1>3, <2>1, <2>2, <2>3, <2>4
<1> QED BY <1>2, <1>7, <1>8, <1>9, <1>10, <1>11 DEF Along

LEMMA WayOf ==
    ASSUME IInv, NEW c \in Clients
    PROVE \E k \in {0, 1} : /\ Along(Way(c), queue[c], sender[c].event, received[c], k)
                            /\ sender[c].event # None => k = 1
<1>1. PICK q, e, r, m, w : /\ q = queue[c] /\ e = sender[c].event /\ r = received[c]
                           /\ m = (IF sender[c].event = None THEN <<>> ELSE <<sender[c].event>>)
                           /\ w = Way(c)
  OBVIOUS
<1>2. q \in Seq(Event) /\ r \in Seq(Event) /\ e \in Event \cup {None}
  BY <1>1, OneBrowser DEF IInv
<1>3. m = (IF e = None THEN <<>> ELSE <<e>>) /\ w = r \o m \o q
  BY <1>1 DEF Way
<1>4. Along(w, q, e, r, Len(m))
  BY <1>2, <1>3, WayFacts, Zenon
<1>5. Len(m) \in {0, 1} /\ (e # None => Len(m) = 1)
  BY <1>2, <1>3
<1> QED BY <1>1, <1>4, <1>5

LEMMA WayInOrder == IInv => DeliveredInOrder
<1> SUFFICES ASSUME IInv, NEW c \in Clients,
                    NEW i \in DOMAIN Way(c), NEW j \in DOMAIN Way(c), i < j
             PROVE Before(Way(c)[i], Way(c)[j])
  BY DEF DeliveredInOrder, Before
<1>1. PICK q, e, r, w, n, l : /\ q = queue[c] /\ e = sender[c].event /\ r = received[c] /\ w = Way(c)
                              /\ n = since[c] /\ l = log
  OBVIOUS
<1>2. q \in Seq(Event) /\ r \in Seq(Event) /\ Len(q) \in Nat /\ Len(r) \in Nat /\ Lined(q, e, r, n, l)
  BY <1>1, OneBrowser DEF IInv
<1>3. PICK k \in {0, 1} : Along(w, q, e, r, k) /\ (e # None => k = 1)
  BY <1>1, WayOf
<1>4. /\ DOMAIN w = 1 .. Len(w)
      /\ \A a \in 1 .. Len(w) :
            \/ a \in 1 .. Len(r) /\ w[a] = r[a]
            \/ e # None /\ a = Len(r) + 1 /\ w[a] = e
            \/ \E b \in 1 .. Len(q) : w[a] = q[b] /\ a = b + Len(r) + k
  BY <1>3 DEF Along
<1>5. /\ \A a, b \in 1 .. Len(q) : a < b => Before(q[a], q[b])
      /\ \A a, b \in 1 .. Len(r) : a < b => Before(r[a], r[b])
      /\ e # None => \A b \in 1 .. Len(q) : Before(e, q[b])
      /\ \A a \in 1 .. Len(r) :
            (\A b \in 1 .. Len(q) : Before(r[a], q[b])) /\ (e # None => Before(r[a], e))
  BY <1>2 DEF Lined, Ascending
<1>6. i \in 1 .. Len(w) /\ j \in 1 .. Len(w) /\ i \in Int /\ j \in Int
  BY <1>1, <1>4
<1>7. CASE i \in 1 .. Len(r) /\ w[i] = r[i]
  <2>1. CASE j \in 1 .. Len(r) /\ w[j] = r[j]
    BY <1>1, <1>5, <1>7, <2>1
  <2>2. CASE e # None /\ j = Len(r) + 1 /\ w[j] = e
    BY <1>1, <1>5, <1>7, <2>2, Zenon
  <2>3. CASE \E b \in 1 .. Len(q) : w[j] = q[b] /\ j = b + Len(r) + k
    BY <1>1, <1>5, <1>7, <2>3, Zenon
  <2> QED BY <1>4, <1>6, <2>1, <2>2, <2>3
<1>8. CASE e # None /\ i = Len(r) + 1 /\ w[i] = e
  <2>1. ~(j \in 1 .. Len(r)) /\ j # Len(r) + 1
    BY <1>2, <1>6, <1>8
  <2>2. \E b \in 1 .. Len(q) : w[j] = q[b]
    BY <1>4, <1>6, <2>1, Zenon
  <2> QED BY <1>1, <1>5, <1>8, <2>2, Zenon
<1>9. CASE \E b \in 1 .. Len(q) : w[i] = q[b] /\ i = b + Len(r) + k
  <2>1. PICK b \in 1 .. Len(q) : w[i] = q[b] /\ i = b + Len(r) + k
    BY <1>9
  <2>2. k \in {0, 1} /\ (e # None => k = 1)
    BY <1>3
  <2>3. ~(j \in 1 .. Len(r)) /\ ~(e # None /\ j = Len(r) + 1)
    BY <1>2, <1>6, <2>1, <2>2
  <2>4. PICK d \in 1 .. Len(q) : w[j] = q[d] /\ j = d + Len(r) + k
    BY <1>4, <1>6, <2>3
  <2>5. b < d
    BY <1>2, <2>1, <2>2, <2>4
  <2> QED BY <1>1, <1>5, <2>1, <2>4, <2>5
<1> QED BY <1>4, <1>6, <1>7, <1>8, <1>9

LEMMA WayComplete == IInv => CriticalComplete
<1> SUFFICES ASSUME IInv, NEW c \in Clients,
                    handler[c] = "serving", c \in open, ~Condemned(c),
                    sender[c].phase \notin {"cancelled", "ended"}
             PROVE {Way(c)[i].number : i \in {j \in DOMAIN Way(c) : Critical(Way(c)[j])}} =
                       {n \in since[c] + 1 .. Len(log) : log[n] \in CRITICAL_EVENT_TYPES}
  BY DEF CriticalComplete
<1>1. PICK q, e, r, w, n, l : /\ q = queue[c] /\ e = sender[c].event /\ r = received[c] /\ w = Way(c)
                              /\ n = since[c] /\ l = log
  OBVIOUS
<1>2. /\ q \in Seq(Event) /\ r \in Seq(Event) /\ n \in Nat /\ l \in Seq(Types) /\ Len(l) \in Nat
      /\ e \in Event \cup {None} /\ Lined(q, e, r, n, l)
  BY <1>1, OneBrowser DEF IInv
<1>3. c \in clients
  BY DEF IInv, Registered, Typed, SenderState
<1>4. Complete(q, e, r, n, l)
  BY <1>1, <1>3 DEF IInv, NoneMissed
<1>5. /\ DOMAIN w = 1 .. Len(w)
      /\ \A a \in 1 .. Len(w) :
            \/ a \in 1 .. Len(r) /\ w[a] = r[a]
            \/ e # None /\ w[a] = e
            \/ \E b \in 1 .. Len(q) : w[a] = q[b]
      /\ \A a \in 1 .. Len(r) : \E b \in 1 .. Len(w) : w[b] = r[a]
      /\ e # None => \E b \in 1 .. Len(w) : w[b] = e
      /\ \A a \in 1 .. Len(q) : \E b \in 1 .. Len(w) : w[b] = q[a]
  <2>1. PICK k \in {0, 1} : Along(w, q, e, r, k)
    BY <1>1, WayOf
  <2> QED BY <2>1 DEF Along
<1>6. ASSUME NEW a \in 1 .. Len(w)
      PROVE w[a] \in Event /\ Fits(w[a], n, l)
  <2>1. CASE a \in 1 .. Len(r) /\ w[a] = r[a]
    BY <1>2, <2>1 DEF Lined
  <2>2. CASE e # None /\ w[a] = e
    BY <1>2, <2>2 DEF Lined
  <2>3. CASE \E b \in 1 .. Len(q) : w[a] = q[b]
    BY <1>2, <2>3 DEF Lined
  <2> QED BY <1>5, <2>1, <2>2, <2>3
<1>7. ASSUME NEW a \in DOMAIN w, Critical(w[a])
      PROVE w[a].number \in n + 1 .. Len(l) /\ l[w[a].number] \in CRITICAL_EVENT_TYPES
  <2>1. w[a] \in Event /\ Fits(w[a], n, l) /\ w[a].type # "snapshot" /\ w[a].type \in CRITICAL_EVENT_TYPES
    BY <1>5, <1>6, <1>7 DEF Critical
  <2>2. w[a].number \in Nat
    BY <2>1 DEF Event
  <2> QED BY <1>2, <2>1, <2>2 DEF Fits
<1>8. ASSUME NEW k \in n + 1 .. Len(l), l[k] \in CRITICAL_EVENT_TYPES
      PROVE \E a \in DOMAIN w : Critical(w[a]) /\ w[a].number = k
  <2>1. Served(k, q, e, r)
    BY <1>4, <1>8 DEF Complete
  <2>2. PICK a \in 1 .. Len(w) : Is(w[a], k)
    BY <1>5, <2>1 DEF Served
  <2>3. Critical(w[a]) /\ w[a].number = k
    BY <1>6, <1>8, <2>2 DEF Is, Fits, Critical
  <2> QED BY <1>5, <2>3
<1>9. {w[i].number : i \in {j \in DOMAIN w : Critical(w[j])}} =
          {k \in n + 1 .. Len(l) : l[k] \in CRITICAL_EVENT_TYPES}
  BY <1>7, <1>8
<1> QED BY <1>1, <1>9

LEMMA InvDelivers == IInv => DeliveryHolds
<1>1. IInv => TypeOK
  BY DEF IInv, Typed, Registered, TypeOK
<1> QED BY <1>1, WayInOrder, WayComplete DEF DeliveryHolds

\* A registered browser that no broadcast is about to drop misses no critical
\* event since the state its snapshot shows, and gets all events in their order
\* and once: for any number of browsers, broadcasts and events and any bound of
\* the queues (_enqueue, broadcast, _sender_loop, live).
THEOREM DeliveryAlways == Spec => []DeliveryHolds
BY FanoutInvariance, InvDelivers, PTL

-----------------------------------------------------------------------------
(* What leaves a queue *)

\* What OnlyCoalesced asks for an event of a queue in one step.
Stays(event, c) ==
    \/ event = sender'[c].event
    \/ \E j \in DOMAIN queue'[c] : queue'[c][j] = event
    \/ /\ event.type \in LOSSY_EVENT_TYPES
       /\ Last(queue'[c]).type = event.type
       /\ Last(queue'[c]).number > event.number

LEMMA BroadcastCoalesces ==
    ASSUME IInv, NEW b \in Tasks, NEW ty \in Types, Broadcast(b, ty),
           NEW c \in clients, NEW i \in DOMAIN queue[c]
    PROVE Stays(queue[c][i], c)
<1> USE DEF IInv
<1>1. PICK x, q, t, m : /\ x = [type |-> ty, number |-> Len(log) + 1] /\ q = queue[c] /\ t = queue'[c]
                        /\ m = Append(log, ty)
  OBVIOUS
<1>2. /\ Len(log) \in Nat /\ Len(log) < MaxEvents /\ MaxEvents \in Nat /\ c \in Clients
      /\ q \in Seq(Event) /\ i \in 1 .. Len(q)
  BY <1>1, FanoutAssumption DEF Broadcast, Typed
<1>3. x \in Event /\ x.type = ty /\ x.number = Len(log) + 1
  BY <1>1, <1>2 DEF Event
<1>4. t = Enqueued(c, x)
  BY <1>1, <1>2, <1>3 DEF Broadcast
<1>5. Takes(t, x, q, sender[c].event, received[c], since[c], m)
  BY <1>1, <1>2, <1>3, <1>4, EnqueuedFacts
<1>6. t \in Seq(Event) /\ DOMAIN t = 1 .. Len(t) /\ Last(t) = t[Len(t)]
  BY <1>5 DEF Takes, Last
<1>7. CASE \E j \in 1 .. Len(t) : t[j] = q[i]
  BY <1>1, <1>6, <1>7 DEF Stays
<1>8. CASE q[i].type = ty /\ ty \in LOSSY_EVENT_TYPES /\ t[Len(t)] = x
  <2>1. q[i] \in Event /\ Fits(q[i], since[c], log) /\ q[i].type # "snapshot"
    BY <1>1, <1>2, <1>8, OneBrowser DEF Lined, LOSSY_EVENT_TYPES
  <2>2. q[i].number \in Nat /\ q[i].number <= Len(log)
    BY <2>1 DEF Event, Fits
  <2>3. x.number > q[i].number
    BY <1>2, <1>3, <2>2
  <2> QED BY <1>1, <1>3, <1>6, <1>8, <2>3 DEF Stays
<1> QED BY <1>2, <1>3, <1>5, <1>7, <1>8 DEF Takes

LEMMA SnapshotStays ==
    ASSUME IInv, NEW d \in Clients, SendSnapshot(d), NEW c \in Clients, NEW i \in DOMAIN queue[c]
    PROVE Stays(queue[c][i], c)
<1>1. PICK x, q, t : /\ x = [type |-> "snapshot", number |-> since[c]] /\ q = queue[c] /\ t = queue'[c]
  OBVIOUS
<1>2. /\ q \in Seq(Event) /\ i \in 1 .. Len(q) /\ DOMAIN q = 1 .. Len(q) /\ x \in Event
      /\ x.type \notin LOSSY_EVENT_TYPES /\ queue \in [Clients -> Seq(Event)]
  <2>1. q \in Seq(Event) /\ queue \in [Clients -> Seq(Event)] /\ since[c] \in 0 .. MaxEvents
    BY <1>1, OneBrowser DEF IInv, Typed
  <2>2. x \in Event /\ x.type = "snapshot"
    BY <1>1, <2>1 DEF Event
  <2>3. "snapshot" \notin LOSSY_EVENT_TYPES
    BY DEF LOSSY_EVENT_TYPES
  <2> QED BY <1>1, <2>1, <2>2, <2>3
<1>3. t = q \/ t = Append(q, x)
  <2>1. CASE d = c /\ c \in clients
    <3>1. t = Enqueued(c, x)
      BY <1>1, <1>2, <2>1 DEF SendSnapshot
    <3> QED BY <1>1, <1>2, <3>1 DEF Enqueued
  <2>2. CASE ~(d = c /\ c \in clients)
    BY <1>1, <1>2, <2>2 DEF SendSnapshot
  <2> QED BY <2>1, <2>2
<1>4. \E j \in DOMAIN t : t[j] = q[i]
  BY <1>2, <1>3
<1> QED BY <1>1, <1>4 DEF Stays

LEMMA TakenIsSent ==
    ASSUME IInv, NEW d \in Clients, SenderTakes(d), NEW c \in Clients, NEW i \in DOMAIN queue[c]
    PROVE Stays(queue[c][i], c)
<1>1. PICK q, t : q = queue[c] /\ t = queue'[c]
  OBVIOUS
<1>2. /\ q \in Seq(Event) /\ i \in 1 .. Len(q) /\ DOMAIN q = 1 .. Len(q)
      /\ queue \in [Clients -> Seq(Event)] /\ sender \in [Clients -> SenderState]
  BY <1>1, OneBrowser DEF IInv, Typed
<1>3. CASE d # c
  <2>1. t = q
    BY <1>1, <1>2, <1>3 DEF SenderTakes
  <2> QED BY <1>1, <1>2, <2>1 DEF Stays
<1>4. CASE d = c
  <2>1. t = Tail(q) /\ q # <<>> /\ sender'[c].event = Head(q)
    BY <1>1, <1>2, <1>4 DEF SenderTakes
  <2>2. /\ t \in Seq(Event) /\ Len(q) \in Nat \ {0} /\ Head(q) = q[1] /\ Len(t) = Len(q) - 1
        /\ \A j \in 1 .. Len(t) : t[j] = q[j + 1] /\ j + 1 \in 1 .. Len(q)
    BY <1>2, <2>1, TailFacts
  <2>3. CASE i = 1
    BY <1>1, <2>1, <2>2, <2>3 DEF Stays
  <2>4. CASE i # 1
    <3>1. i - 1 \in 1 .. Len(t) /\ (i - 1) + 1 = i /\ DOMAIN t = 1 .. Len(t)
      BY <1>2, <2>2, <2>4
    <3>2. t[i - 1] = q[(i - 1) + 1]
      BY <2>2, <3>1
    <3> QED BY <1>1, <3>1, <3>2 DEF Stays
  <2> QED BY <2>3, <2>4
<1> QED BY <1>3, <1>4

\* What waits for a browser is never displaced by another type of event
\* (_enqueue, send_to, _sender_loop, _disconnect_client).
THEOREM OnlyCoalescedAlways == Spec => OnlyCoalesced
<1>1. IInv /\ [Next]_vars =>
          [\A c \in clients \cap clients' : \A i \in DOMAIN queue[c] : Stays(queue[c][i], c)]_vars
  <2> SUFFICES ASSUME IInv, Next, NEW c \in clients \cap clients', NEW i \in DOMAIN queue[c]
               PROVE Stays(queue[c][i], c)
    OBVIOUS
  <2>0. c \in Clients /\ DOMAIN queue[c] = 1 .. Len(queue[c])
    BY OneBrowser DEF IInv, Typed
  <2>1. CASE UNCHANGED queue
    BY <2>1 DEF Stays
  <2>2. ASSUME NEW d \in Clients, SendSnapshot(d) PROVE Stays(queue[c][i], c)
    BY <2>0, <2>2, SnapshotStays
  <2>3. ASSUME NEW d \in Clients, SenderTakes(d) PROVE Stays(queue[c][i], c)
    BY <2>0, <2>3, TakenIsSent
  <2>4. ASSUME NEW d \in Clients, SendFails(d) PROVE Stays(queue[c][i], c)
    <3>1. c # d
      BY <2>4 DEF SendFails
    <3>2. queue'[c] = queue[c]
      BY <2>0, <2>4, <3>1 DEF SendFails, SenderGone, IInv, Typed
    <3> QED BY <3>2 DEF Stays
  <2>5. ASSUME NEW d \in Clients, SenderEnds(d) PROVE Stays(queue[c][i], c)
    <3>1. c # d
      BY <2>5 DEF SenderEnds, IInv, Registered
    <3>2. queue'[c] = queue[c]
      BY <2>0, <2>5, <3>1 DEF SenderEnds, SenderGone, IInv, Typed
    <3> QED BY <3>2 DEF Stays
  <2>6. ASSUME NEW b \in Tasks, NEW type \in Types, Broadcast(b, type) PROVE Stays(queue[c][i], c)
    BY <2>6, BroadcastCoalesces
  <2>7. ASSUME NEW d \in Clients, Connect(d) \/ HandlerNotices(d) \/ HandlerEnds(d) \/ Sends(d) \/ Closes(d)
        PROVE UNCHANGED queue
    BY <2>7 DEF Connect, HandlerNotices, HandlerEnds, Sends, Closes
  <2>8. ASSUME NEW b \in Tasks, CloseAll(b) \/ Continue(b) PROVE UNCHANGED queue
    BY <2>8 DEF CloseAll, Continue, Drop, Dropped, BroadcastEnds
  <2> QED BY <2>1, <2>2, <2>3, <2>4, <2>5, <2>6, <2>7, <2>8 DEF Next, Handler, Sender
<1>2. [\A c \in clients \cap clients' : \A i \in DOMAIN queue[c] : Stays(queue[c][i], c)]_vars =>
            [\A c \in clients \cap clients' :
                 \A i \in DOMAIN queue[c] :
                     LET event == queue[c][i]
                     IN  \/ event = sender'[c].event
                         \/ \E j \in DOMAIN queue'[c] : queue'[c][j] = event
                         \/ /\ event.type \in LOSSY_EVENT_TYPES
                            /\ Last(queue'[c]).type = event.type
                            /\ Last(queue'[c]).number > event.number]_vars
  BY DEF Stays
<1> QED BY <1>1, <1>2, FanoutInvariance, PTL DEF Spec, OnlyCoalesced

-----------------------------------------------------------------------------
(* The Decision Radar: lines of segments *)

LEMMA LineIs ==
    ASSUME NEW q, Line(q)
    PROVE /\ q \in Seq(Segments) /\ Len(q) \in Nat /\ DOMAIN q = 1 .. Len(q)
          /\ ToSet(q) \subseteq Segments
          /\ \A x : x \in ToSet(q) <=> \E i \in DOMAIN q : q[i] = x
          /\ \A i, j \in DOMAIN q : q[i] = q[j] => i = j
BY DEF Line, IsInjective, ToSet

LEMMA NoSegments == Line(<<>>) /\ ToSet(<<>>) = {} /\ \A x, y : ~Precedes(x, y, <<>>)
BY DEF Line, IsInjective, ToSet, Precedes

\* The order of a line.
LEMMA PrecedesIs ==
    ASSUME NEW q, Line(q)
    PROVE /\ \A x, y : Precedes(x, y, q) => x \in ToSet(q) /\ y \in ToSet(q) /\ x # y
          /\ \A x, y : Precedes(x, y, q) => ~Precedes(y, x, q)
          /\ \A x, y, z : Precedes(x, y, q) /\ Precedes(y, z, q) => Precedes(x, z, q)
          /\ \A i, j \in DOMAIN q : Precedes(q[i], q[j], q) <=> i < j
<1>1. /\ DOMAIN q \subseteq Nat /\ \A x : x \in ToSet(q) <=> \E i \in DOMAIN q : q[i] = x
      /\ \A i, j \in DOMAIN q : q[i] = q[j] => i = j
  BY LineIs
<1>2. \A i, j \in DOMAIN q : Precedes(q[i], q[j], q) <=> i < j
  BY <1>1 DEF Precedes
<1>3. ASSUME NEW x, NEW y, Precedes(x, y, q)
      PROVE \E i, j \in DOMAIN q : i < j /\ q[i] = x /\ q[j] = y
  BY <1>3 DEF Precedes
<1>4. ASSUME NEW x, NEW y, Precedes(x, y, q)
      PROVE x \in ToSet(q) /\ y \in ToSet(q) /\ x # y /\ ~Precedes(y, x, q)
  <2>1. PICK i, j \in DOMAIN q : i < j /\ q[i] = x /\ q[j] = y
    BY <1>3, <1>4
  <2>2. ~(j < i) /\ i # j
    BY <1>1, <2>1
  <2> QED BY <1>1, <1>2, <2>1, <2>2
<1>5. ASSUME NEW x, NEW y, NEW z, Precedes(x, y, q), Precedes(y, z, q)
      PROVE Precedes(x, z, q)
  <2>1. PICK i, j \in DOMAIN q : i < j /\ q[i] = x /\ q[j] = y
    BY <1>3, <1>5
  <2>2. PICK n, m \in DOMAIN q : n < m /\ q[n] = y /\ q[m] = z
    BY <1>3, <1>5
  <2>3. j = n
    BY <1>1, <2>1, <2>2
  <2>4. i < m
    BY <1>1, <2>1, <2>2, <2>3
  <2> QED BY <1>2, <2>1, <2>2, <2>4
<1> QED BY <1>2, <1>4, <1>5

\* A segment joins a line at its end.
LEMMA LineGrows ==
    ASSUME NEW q, Line(q), NEW k \in Segments, k \notin ToSet(q)
    PROVE /\ Line(Append(q, k)) /\ ToSet(Append(q, k)) = ToSet(q) \cup {k}
          /\ \A x, y : Precedes(x, y, Append(q, k)) <=>
                 Precedes(x, y, q) \/ (x \in ToSet(q) /\ y = k)
<1>1. PICK r : r = Append(q, k)
  OBVIOUS
<1>2. /\ q \in Seq(Segments) /\ Len(q) \in Nat /\ DOMAIN q = 1 .. Len(q)
      /\ \A x : x \in ToSet(q) <=> \E i \in DOMAIN q : q[i] = x
      /\ \A i, j \in DOMAIN q : q[i] = q[j] => i = j
  BY LineIs
<1>3. /\ r \in Seq(Segments) /\ Len(r) = Len(q) + 1 /\ DOMAIN r = 1 .. Len(q) + 1
      /\ \A i \in DOMAIN q : r[i] = q[i]
      /\ r[Len(q) + 1] = k /\ Len(q) + 1 \in DOMAIN r
  BY <1>1, <1>2, AppendFacts
<1>4. DOMAIN r = DOMAIN q \cup {Len(q) + 1} /\ \A i \in DOMAIN q : i < Len(q) + 1 /\ q[i] # k
  BY <1>2, <1>3
<1>5. \A i, j \in DOMAIN r : r[i] = r[j] => i = j
  BY <1>2, <1>3, <1>4
<1>6. Line(r)
  BY <1>3, <1>5 DEF Line, IsInjective
<1>7. \A x : x \in ToSet(r) <=> \E i \in DOMAIN r : r[i] = x
  BY <1>6, LineIs
<1>8. ToSet(r) = ToSet(q) \cup {k}
  <2>1. ASSUME NEW x PROVE x \in ToSet(r) <=> x \in ToSet(q) \/ x = k
    BY <1>2, <1>3, <1>4, <1>7
  <2> QED BY <2>1
<1>9. ASSUME NEW x, NEW y
      PROVE Precedes(x, y, r) <=> Precedes(x, y, q) \/ (x \in ToSet(q) /\ y = k)
  <2>1. ASSUME Precedes(x, y, r) PROVE Precedes(x, y, q) \/ (x \in ToSet(q) /\ y = k)
    <3>1. PICK i, j \in DOMAIN r : i < j /\ r[i] = x /\ r[j] = y
      BY <2>1 DEF Precedes
    <3>2. i \in DOMAIN q
      BY <1>2, <1>3, <3>1
    <3>3. CASE j \in DOMAIN q
      BY <1>3, <3>1, <3>2, <3>3 DEF Precedes
    <3>4. CASE j = Len(q) + 1
      BY <1>2, <1>3, <3>1, <3>2, <3>4
    <3> QED BY <1>4, <3>1, <3>3, <3>4
  <2>2. ASSUME Precedes(x, y, q) PROVE Precedes(x, y, r)
    BY <1>3, <1>4, <2>2 DEF Precedes
  <2>3. ASSUME x \in ToSet(q), y = k PROVE Precedes(x, y, r)
    <3>1. PICK i \in DOMAIN q : q[i] = x
      BY <1>2, <2>3
    <3>2. i \in DOMAIN r /\ i < Len(q) + 1 /\ r[i] = x
      BY <1>3, <1>4, <3>1
    <3> QED BY <1>3, <2>3, <3>2 DEF Precedes
  <2> QED BY <2>1, <2>2, <2>3
<1> QED BY <1>1, <1>6, <1>8, <1>9

\* The first of a line leaves it.
LEMMA LineTail ==
    ASSUME NEW q, Line(q), q # <<>>
    PROVE /\ Line(Tail(q)) /\ ToSet(Tail(q)) = ToSet(q) \ {Head(q)}
          /\ Head(q) \in ToSet(q) /\ Head(q) \in Segments
          /\ \A x, y : Precedes(x, y, Tail(q)) <=> Precedes(x, y, q) /\ x # Head(q)
          /\ \A x \in ToSet(q) : x # Head(q) => Precedes(Head(q), x, q)
<1>1. PICK r : r = Tail(q)
  OBVIOUS
<1>2. /\ q \in Seq(Segments) /\ Len(q) \in Nat /\ DOMAIN q = 1 .. Len(q)
      /\ \A x : x \in ToSet(q) <=> \E i \in DOMAIN q : q[i] = x
      /\ \A i, j \in DOMAIN q : q[i] = q[j] => i = j
  BY LineIs
<1>3. /\ r \in Seq(Segments) /\ Len(q) \in Nat \ {0}
      /\ Head(q) = q[1] /\ Head(q) \in Segments /\ Len(r) = Len(q) - 1
      /\ \A i \in 1 .. Len(r) : r[i] = q[i + 1]
  BY <1>1, <1>2, TailFacts
<1>4. /\ DOMAIN r = 1 .. Len(q) - 1 /\ 1 \in DOMAIN q
      /\ \A i \in DOMAIN r : i + 1 \in DOMAIN q /\ i + 1 > 1 /\ r[i] = q[i + 1]
      /\ \A i \in DOMAIN q : i # 1 => i - 1 \in DOMAIN r /\ r[i - 1] = q[i] /\ i > 1
  <2>1. DOMAIN r = 1 .. Len(q) - 1 /\ 1 \in DOMAIN q
    BY <1>2, <1>3
  <2>2. ASSUME NEW i \in DOMAIN q, i # 1 PROVE i - 1 \in DOMAIN r /\ r[i - 1] = q[i] /\ i > 1
    <3>1. i - 1 \in 1 .. Len(q) - 1 /\ (i - 1) + 1 = i /\ i > 1
      BY <1>2, <1>3, <2>2
    <3>2. r[i - 1] = q[(i - 1) + 1]
      BY <1>3, <3>1
    <3> QED BY <2>1, <3>1, <3>2
  <2>3. ASSUME NEW i \in DOMAIN r PROVE i + 1 \in DOMAIN q /\ i + 1 > 1 /\ r[i] = q[i + 1]
    BY <1>2, <1>3, <2>1, <2>3
  <2> QED BY <2>1, <2>2, <2>3
<1>5. \A i, j \in DOMAIN r : r[i] = r[j] => i = j
  <2>1. ASSUME NEW i \in DOMAIN r, NEW j \in DOMAIN r, r[i] = r[j] PROVE i = j
    <3>1. i + 1 = j + 1
      BY <1>2, <1>4, <2>1
    <3> QED BY <1>3, <1>4, <3>1
  <2> QED BY <2>1
<1>6. Line(r)
  BY <1>3, <1>5 DEF Line, IsInjective
<1>7. \A x : x \in ToSet(r) <=> \E i \in DOMAIN r : r[i] = x
  BY <1>6, LineIs
<1>8. ToSet(r) = ToSet(q) \ {Head(q)}
  <2>1. ASSUME NEW x \in ToSet(r) PROVE x \in ToSet(q) \ {Head(q)}
    <3>1. PICK i \in DOMAIN r : r[i] = x
      BY <1>7, <2>1
    <3>2. i + 1 \in DOMAIN q /\ q[i + 1] = x /\ i + 1 # 1
      BY <1>3, <1>4, <3>1
    <3> QED BY <1>2, <1>3, <1>4, <3>2
  <2>2. ASSUME NEW x \in ToSet(q) \ {Head(q)} PROVE x \in ToSet(r)
    <3>1. PICK i \in DOMAIN q : q[i] = x
      BY <1>2, <2>2
    <3>2. i # 1
      BY <1>3, <2>2, <3>1
    <3>3. i - 1 \in DOMAIN r /\ r[i - 1] = x
      BY <1>4, <3>1, <3>2
    <3> QED BY <1>7, <3>3
  <2> QED BY <2>1, <2>2
<1>9. ASSUME NEW x, NEW y
      PROVE Precedes(x, y, r) <=> Precedes(x, y, q) /\ x # Head(q)
  <2>1. ASSUME Precedes(x, y, r) PROVE Precedes(x, y, q) /\ x # Head(q)
    <3>1. PICK i, j \in DOMAIN r : i < j /\ r[i] = x /\ r[j] = y
      BY <2>1 DEF Precedes
    <3>2. /\ i + 1 \in DOMAIN q /\ j + 1 \in DOMAIN q /\ i + 1 < j + 1 /\ i + 1 # 1
          /\ q[i + 1] = x /\ q[j + 1] = y
      BY <1>3, <1>4, <3>1
    <3>3. Precedes(x, y, q)
      BY <3>2 DEF Precedes
    <3> QED BY <1>2, <1>3, <1>4, <3>2, <3>3
  <2>2. ASSUME Precedes(x, y, q), x # Head(q) PROVE Precedes(x, y, r)
    <3>1. PICK i, j \in DOMAIN q : i < j /\ q[i] = x /\ q[j] = y
      BY <2>2 DEF Precedes
    <3>2. i # 1 /\ j # 1
      BY <1>2, <1>3, <2>2, <3>1
    <3>3. i - 1 \in DOMAIN r /\ j - 1 \in DOMAIN r /\ r[i - 1] = x /\ r[j - 1] = y
      BY <1>4, <3>1, <3>2
    <3>4. i - 1 < j - 1
      BY <1>2, <3>1
    <3> QED BY <3>3, <3>4 DEF Precedes
  <2> QED BY <2>1, <2>2
<1>10. ASSUME NEW x \in ToSet(q), x # Head(q) PROVE Precedes(Head(q), x, q)
  <2>1. PICK i \in DOMAIN q : q[i] = x
    BY <1>2
  <2>2. i > 1
    BY <1>3, <1>4, <1>10, <2>1
  <2> QED BY <1>3, <1>4, <2>1, <2>2 DEF Precedes
<1>11. Head(q) \in ToSet(q)
  BY <1>2, <1>3, <1>4
<1> QED BY <1>1, <1>3, <1>6, <1>8, <1>9, <1>10, <1>11

\* A segment leaves a line, wherever it is.
LEMMA LineWithout ==
    ASSUME NEW q, Line(q), NEW k
    PROVE /\ Line(Without(k, q)) /\ ToSet(Without(k, q)) = ToSet(q) \ {k}
          /\ Len(Without(k, q)) <= Len(q)
          /\ \A x, y : Precedes(x, y, Without(k, q)) <=>
                 Precedes(x, y, q) /\ x # k /\ y # k
<1> DEFINE places == {i \in DOMAIN q : q[i] = k}
<1>1. /\ q \in Seq(Segments) /\ Len(q) \in Nat /\ DOMAIN q = 1 .. Len(q)
      /\ \A x : x \in ToSet(q) <=> \E i \in DOMAIN q : q[i] = x
      /\ \A i, j \in DOMAIN q : q[i] = q[j] => i = j
  BY LineIs
<1>2. CASE places = {}
  <2>1. Without(k, q) = q /\ k \notin ToSet(q)
    BY <1>1, <1>2 DEF Without
  <2>2. \A x, y : Precedes(x, y, q) => x # k /\ y # k
    BY <2>1, PrecedesIs
  <2> QED BY <1>1, <2>1, <2>2
<1>3. CASE places # {}
  <2>1. PICK n : n = CHOOSE i \in places : TRUE
    OBVIOUS
  <2>2. n \in DOMAIN q /\ q[n] = k
    BY <1>3, <2>1
  <2>3. PICK r : r = RemoveAt(q, n)
    OBVIOUS
  <2>4. Without(k, q) = r
    BY <1>3, <2>1, <2>3 DEF Without
  <2>5a. q \in Seq(Segments) /\ n \in 1 .. Len(q)
    BY <1>1, <2>2
  <2>5. /\ r \in Seq(Segments) /\ Len(r) = Len(q) - 1
        /\ \A i \in 1 .. Len(q) - 1 : (i < n => r[i] = q[i]) /\ (i >= n => r[i] = q[i + 1])
    BY <2>3, <2>5a, RemoveAtFacts
  <2>6. DOMAIN r = 1 .. Len(q) - 1 /\ n \in Nat
    BY <1>1, <2>2, <2>5
  <2>7. ASSUME NEW i \in DOMAIN r
        PROVE \/ i < n /\ i \in DOMAIN q /\ r[i] = q[i]
              \/ i >= n /\ i + 1 \in DOMAIN q /\ r[i] = q[i + 1]
    BY <1>1, <2>5, <2>6, <2>7
  <2>8. ASSUME NEW i \in DOMAIN q, i # n
        PROVE \/ i < n /\ i \in DOMAIN r /\ r[i] = q[i]
              \/ i > n /\ i - 1 \in DOMAIN r /\ i - 1 >= n /\ r[i - 1] = q[i]
    <3>1. CASE i < n
      BY <1>1, <2>2, <2>5, <2>6, <3>1
    <3>2. CASE i > n
      <4>1. i - 1 \in 1 .. Len(q) - 1 /\ i - 1 >= n /\ (i - 1) + 1 = i
        BY <1>1, <2>2, <3>2
      <4>2. r[i - 1] = q[(i - 1) + 1]
        BY <2>5, <4>1
      <4> QED BY <2>6, <3>2, <4>1, <4>2
    <3> QED BY <1>1, <2>2, <2>6, <2>8, <3>1, <3>2
  <2>9. ASSUME NEW i \in DOMAIN r, NEW j \in DOMAIN r
        PROVE \E a, b \in DOMAIN q :
                  /\ r[i] = q[a] /\ r[j] = q[b] /\ a # n /\ b # n
                  /\ (i < j <=> a < b) /\ (i = j <=> a = b)
    <3>1. DOMAIN r \subseteq Nat /\ DOMAIN q \subseteq Nat
      BY <1>1, <2>6
    <3>2. PICK a \in DOMAIN q : r[i] = q[a] /\ ((i < n /\ a = i) \/ (i >= n /\ a = i + 1))
      BY <2>7
    <3>3. PICK b \in DOMAIN q : r[j] = q[b] /\ ((j < n /\ b = j) \/ (j >= n /\ b = j + 1))
      BY <2>7
    <3>4. a # n /\ b # n /\ (i < j <=> a < b) /\ (i = j <=> a = b)
      BY <2>6, <3>1, <3>2, <3>3
    <3> QED BY <3>2, <3>3, <3>4
  <2>10. \A i, j \in DOMAIN r : r[i] = r[j] => i = j
    BY <1>1, <2>9
  <2>11. Line(r)
    BY <2>5, <2>10 DEF Line, IsInjective
  <2>12. \A x : x \in ToSet(r) <=> \E i \in DOMAIN r : r[i] = x
    BY <2>11, LineIs
  <2>13. ToSet(r) = ToSet(q) \ {k}
    <3>1. ASSUME NEW x \in ToSet(r) PROVE x \in ToSet(q) /\ x # k
      <4>1. PICK i \in DOMAIN r : r[i] = x
        BY <2>12
      <4>2. PICK a \in DOMAIN q : r[i] = q[a] /\ a # n
        BY <2>9
      <4> QED BY <1>1, <2>2, <4>1, <4>2
    <3>2. ASSUME NEW x \in ToSet(q), x # k PROVE x \in ToSet(r)
      <4>1. PICK i \in DOMAIN q : q[i] = x
        BY <1>1
      <4>2. i # n
        BY <2>2, <3>2, <4>1
      <4> QED BY <2>8, <2>12, <4>1, <4>2
    <3> QED BY <3>1, <3>2
  <2>14. ASSUME NEW x, NEW y
         PROVE Precedes(x, y, r) <=> Precedes(x, y, q) /\ x # k /\ y # k
    <3>1. ASSUME Precedes(x, y, r) PROVE Precedes(x, y, q) /\ x # k /\ y # k
      <4>1. PICK i, j \in DOMAIN r : i < j /\ r[i] = x /\ r[j] = y
        BY <3>1 DEF Precedes
      <4>2. PICK a, b \in DOMAIN q : r[i] = q[a] /\ r[j] = q[b] /\ a # n /\ b # n /\ a < b
        BY <2>9, <4>1
      <4> QED BY <1>1, <2>2, <4>1, <4>2 DEF Precedes
    <3>2. ASSUME Precedes(x, y, q), x # k, y # k PROVE Precedes(x, y, r)
      <4>1. PICK a, b \in DOMAIN q : a < b /\ q[a] = x /\ q[b] = y
        BY <3>2 DEF Precedes
      <4>2. a # n /\ b # n
        BY <2>2, <3>2, <4>1
      <4>3. PICK i \in DOMAIN r : r[i] = q[a] /\ ((i < n /\ i = a) \/ (i >= n /\ i = a - 1))
        BY <2>8, <4>2
      <4>4. PICK j \in DOMAIN r : r[j] = q[b] /\ ((j < n /\ j = b) \/ (j >= n /\ j = b - 1))
        BY <2>8, <4>2
      <4>5. a \in Nat /\ b \in Nat /\ i \in Nat /\ j \in Nat
        BY <1>1, <2>6
      <4>6. i < j
        <5>1. i = a \/ i = a - 1
          BY <4>3
        <5>2. CASE j = b
          BY <4>1, <4>5, <5>1, <5>2
        <5>3. CASE j = b - 1 /\ i = a - 1
          BY <4>1, <4>5, <5>3
        <5>4. CASE j = b - 1 /\ j >= n /\ i = a /\ i < n
          BY <2>6, <4>5, <5>4
        <5> QED BY <4>3, <4>4, <5>2, <5>3, <5>4
      <4> QED BY <4>1, <4>3, <4>4, <4>6 DEF Precedes
    <3> QED BY <3>1, <3>2
  <2>15. Len(r) <= Len(q)
    BY <1>1, <2>5
  <2> QED BY <2>4, <2>11, <2>13, <2>14, <2>15
<1> QED BY <1>2, <1>3

-----------------------------------------------------------------------------
(* The Decision Radar: its types *)

\* A bounded set of numbers has a greatest one.
LEMMA NatGreatest ==
    ASSUME NEW n \in Nat, NEW S \in SUBSET (0 .. n), S # {}
    PROVE \E i \in S : \A j \in S : j <= i
<1> DEFINE bounds == {m \in Nat : \A i \in S : i <= m}
<1>1. n \in bounds
  OBVIOUS
<1>2. PICK m \in bounds : \A j \in bounds : m <= j
  BY <1>1, NatLeast
<1>3. ASSUME m \notin S PROVE FALSE
  <2>1. PICK i \in S : TRUE
    OBVIOUS
  <2>2. \A j \in S : j \in Nat /\ j < m
    BY <1>2, <1>3
  <2>3. m - 1 \in bounds
    BY <1>2, <2>1, <2>2
  <2> QED BY <1>2, <2>3
<1> QED BY <1>2, <1>3

LEMMA RadarConstants ==
    /\ SessionOf \in [Segments -> Sessions]
    /\ BatchSize \in Nat \ {0} /\ ContextWindow \in Nat \ {0} /\ BufferLimit \in Nat \ {0}
    /\ MaxQueued \in Nat \ {0} /\ BatchSize <= ContextWindow
    /\ MaxRetries \in Nat /\ MaxHistory \in Nat /\ MaxItems \in Nat /\ MaxSwitches \in Nat
    /\ "none" \in Providers /\ Nobody \notin Providers
BY RadarAssumption

LEMMA WorkerIs ==
    ASSUME worker \in Local
    PROVE /\ worker = [phase |-> worker.phase, batch |-> worker.batch, at |-> worker.at,
                       window |-> worker.window, focus |-> worker.focus,
                       retractable |-> worker.retractable, instance |-> worker.instance,
                       attempt |-> worker.attempt]
          /\ worker.phase \in {"waiting", "gathering", "due", "calling", "settling",
                               "dead", "stopped"}
          /\ worker.batch \in Seq(Segments) /\ worker.at \in 0 .. BatchSize
          /\ worker.window \subseteq Segments /\ worker.focus \subseteq Segments
          /\ worker.retractable \subseteq 1 .. MaxItems
          /\ worker.instance \in 0 .. MaxSwitches /\ worker.attempt \in 0 .. MaxRetries
BY DEF Local

LEMMA NoBatchIs ==
    /\ NoBatch \in Local /\ NoBatch.phase = "waiting"
    /\ NoBatch.batch = <<>> /\ Len(NoBatch.batch) = 0 /\ ToSet(NoBatch.batch) = {}
    /\ \A p \in {"dead", "stopped"} :
          LET w == [NoBatch EXCEPT !.phase = p]
          IN  /\ w \in Local /\ w.phase = p /\ w.batch = <<>>
              /\ Len(w.batch) = 0 /\ ToSet(w.batch) = {}
<1>1. ToSet(<<>>) = {} /\ Len(<<>>) = 0 /\ <<>> \in Seq(Segments)
  BY DEF ToSet
<1>2. 0 \in 0 .. BatchSize /\ 0 \in 0 .. MaxSwitches /\ 0 \in 0 .. MaxRetries
  BY RadarConstants
<1>3. NoBatch \in Local /\ NoBatch.phase = "waiting" /\ NoBatch.batch = <<>>
  BY <1>1, <1>2 DEF NoBatch, Local
<1>4. ASSUME NEW p \in {"dead", "stopped"}
      PROVE LET w == [NoBatch EXCEPT !.phase = p]
            IN  w \in Local /\ w.phase = p /\ w.batch = <<>>
  BY <1>1, <1>2 DEF NoBatch, Local
<1> QED BY <1>1, <1>3, <1>4

LEMMA ItemsIs ==
    ASSUME NEW items
    PROVE items \in Items <=> /\ DOMAIN items \subseteq 1 .. MaxItems
                              /\ items \in [DOMAIN items -> Item]
BY DEF Items

LEMMA RadarInitHolds == RadarInit => RadarInv
<1> SUFFICES ASSUME RadarInit PROVE RadarInv
  OBVIOUS
<1>1. <<>> \in Items
  <2>1. DOMAIN <<>> = {}
    OBVIOUS
  <2>2. <<>> \in [{} -> Item]
    BY <2>1
  <2> QED BY <2>1, <2>2, ItemsIs
<1>2. /\ worker = NoBatch /\ finals = <<>> /\ backlog = <<>> /\ pending = {}
      /\ \A s \in Sessions : /\ buffered[s] = <<>> /\ state[s].items = <<>>
                             /\ state[s].tombstones = {}
      /\ DOMAIN <<>> = {} /\ Len(<<>>) = 0 /\ ToSet(<<>>) = {}
  BY DEF RadarInit, ToSet
<1>3. RadarTypeOK
  <2>1. state \in [Sessions -> [items : Items, tombstones : SUBSET Texts]]
    BY <1>1 DEF RadarInit
  <2>2. buffered \in [Sessions -> Seq(Segments)] /\ backlog \in Seq(Segments)
        /\ finals \in Seq(Segments) /\ pending \subseteq Segments
    BY DEF RadarInit
  <2>3. worker \in Local /\ Len(worker.batch) <= BatchSize
    BY <1>2, NoBatchIs, RadarConstants
  <2>4. \A s \in Sessions : /\ ToSet(buffered[s]) \subseteq {k \in ToSet(finals) : SessionOf[k] = s}
                            /\ Len(buffered[s]) <= BufferLimit
                            /\ DOMAIN state[s].items \subseteq 1 .. made
    BY <1>2, RadarConstants
  <2>5. /\ provider \in [name : Providers, instance : 0 .. MaxSwitches]
        /\ unclosed \subseteq 0 .. MaxSwitches /\ asked \in Providers \cup {Nobody}
        /\ Len(backlog) <= MaxQueued /\ made \in 0 .. MaxItems
        /\ astray \in BOOLEAN /\ again \in BOOLEAN /\ closed \in BOOLEAN
    <3>1. 0 \in 0 .. MaxSwitches /\ 0 \in 0 .. MaxItems /\ 0 <= MaxQueued
      BY RadarConstants
    <3>2. provider \in [name : Providers, instance : 0 .. MaxSwitches]
      BY <3>1 DEF RadarInit
    <3>3. unclosed = {0} /\ asked = Nobody /\ made = 0 /\ Len(backlog) = 0
      BY <1>2 DEF RadarInit
    <3>4. astray \in BOOLEAN /\ again \in BOOLEAN /\ closed \in BOOLEAN
      BY DEF RadarInit
    <3> QED BY <3>1, <3>2, <3>3, <3>4
  <2> QED BY <2>1, <2>2, <2>3, <2>4, <2>5 DEF RadarTypeOK
<1>4. ~Processing /\ worker.phase = "waiting"
  BY <1>2, NoBatchIs DEF Processing
<1>5. Selected /\ Sound
  <2>1. unclosed \subseteq {provider.instance} /\ asked = Nobody
    BY DEF RadarInit
  <2> QED BY <1>4, <2>1 DEF Selected, Sound
<1>6. Recent
  BY <1>2, NoBatchIs, NoSegments DEF Recent
<1>7. EvidenceIsFinal
  BY <1>2 DEF EvidenceIsFinal
<1>8. PendingIsQueued
  BY <1>2, <1>4 DEF PendingIsQueued, IsInjective
<1>9. Straight
  BY <1>2, <1>4, NoSegments DEF Straight, Latest
<1>10. ~again
  BY DEF RadarInit
<1> QED BY <1>3, <1>4, <1>5, <1>6, <1>7, <1>8, <1>9, <1>10 DEF RadarInv

-----------------------------------------------------------------------------
(* The steps that leave the captions alone *)

\* The queue, the buffers and the batch are as they were.
LEMMA FeedKeeps ==
    ASSUME RadarInv, UNCHANGED <<feed, closed>>, worker'.batch = worker.batch,
           worker'.phase = "gathering" <=> worker.phase = "gathering",
           Processing' => Processing, worker'.phase = "dead" => worker.phase = "dead"
    PROVE /\ Recent' /\ (~again' => PendingIsQueued')
          /\ ~astray' => Straight' /\ ~again' /\ worker'.phase # "dead"
<1>1. /\ finals' = finals /\ backlog' = backlog /\ pending' = pending /\ buffered' = buffered
      /\ astray' = astray /\ again' = again /\ closed' = closed
  BY DEF feed
<1>2. Recent'
  BY <1>1 DEF RadarInv, Recent, Line, Precedes
<1>3. ~again' => PendingIsQueued'
  BY <1>1 DEF RadarInv, PendingIsQueued
<1>4. ~astray' => Straight' /\ ~again' /\ worker'.phase # "dead"
  BY <1>1 DEF RadarInv, Straight, Latest, Convex, Precedes
<1> QED BY <1>2, <1>3, <1>4

\* So are the items.
LEMMA CitesKeep ==
    ASSUME RadarInv, UNCHANGED state, ToSet(finals) \subseteq ToSet(finals')
    PROVE EvidenceIsFinal'
BY DEF RadarInv, EvidenceIsFinal

LEMMA AskKeeps ==
    ASSUME RadarInv, (\E p \in Providers : Ask(p)) \/ Unavailable
    PROVE RadarInv'
<1>1. /\ asked' \in Providers \cup {Nobody}
      /\ asked' # Nobody => provider.instance < MaxSwitches
      /\ UNCHANGED <<provider, unclosed, feed, kept, worker, closed>>
  BY DEF Ask, Unavailable
<1>2. RadarTypeOK'
  BY <1>1 DEF RadarInv, RadarTypeOK, feed, kept
<1>3. Selected' /\ Sound'
  BY <1>1 DEF RadarInv, Selected, Sound, Processing, Session, feed
<1>4. Processing' => Processing
  BY <1>1 DEF Processing
<1>5. EvidenceIsFinal'
  BY <1>1, CitesKeep DEF feed, kept
<1> QED BY <1>1, <1>2, <1>3, <1>4, <1>5, FeedKeeps DEF RadarInv

\* A call goes out, fails, or is given up.
LEMMA CallKeeps ==
    ASSUME RadarInv, Send \/ Refuse \/ Fail
    PROVE RadarInv'
<1>1. /\ Processing /\ UNCHANGED <<selection, feed, kept, closed>>
      /\ \E p \in {"due", "calling", "settling"}, n \in 0 .. MaxRetries :
             worker' = [worker EXCEPT !.phase = p, !.attempt = n]
  <2>1. worker \in Local
    BY DEF RadarInv, RadarTypeOK
  <2>2. worker.attempt \in 0 .. MaxRetries /\ MaxRetries \in Nat
    BY <2>1, WorkerIs, RadarConstants
  <2>3. ASSUME NEW p, worker' = [worker EXCEPT !.phase = p]
        PROVE worker' = [worker EXCEPT !.phase = p, !.attempt = worker.attempt]
    BY <2>1, <2>3 DEF Local
  <2>4. CASE Send
    BY <2>2, <2>3, <2>4 DEF Send, Processing
  <2>5. CASE Refuse \/ Fail
    <3>1. Processing /\ Failed
      BY <2>5 DEF Refuse, Fail, Processing
    <3>2. CASE worker.attempt < MaxRetries /\ worker' = [worker EXCEPT !.phase = "due", !.attempt = @ + 1]
      <4>1. worker.attempt + 1 \in 0 .. MaxRetries
        BY <2>2, <3>2
      <4>2. worker' = [worker EXCEPT !.phase = "due", !.attempt = worker.attempt + 1]
        BY <3>2
      <4>3. UNCHANGED <<selection, feed, kept, closed>>
        BY <3>1 DEF Failed
      <4> QED BY <3>1, <4>1, <4>2, <4>3
    <3>3. CASE worker' = [worker EXCEPT !.phase = "settling"]
      BY <2>2, <2>3, <3>1, <3>3 DEF Failed
    <3> QED BY <3>1, <3>2, <3>3 DEF Failed
  <2> QED BY <2>4, <2>5
<1>2. PICK p \in {"due", "calling", "settling"}, n \in 0 .. MaxRetries :
          worker' = [worker EXCEPT !.phase = p, !.attempt = n]
  BY <1>1
<1>3. /\ worker' \in Local /\ worker'.batch = worker.batch /\ worker'.at = worker.at
      /\ worker'.window = worker.window /\ worker'.instance = worker.instance
      /\ worker'.phase = p
  BY <1>2 DEF RadarInv, RadarTypeOK, Local
<1>4. Processing' /\ worker'.phase # "gathering" /\ worker.phase # "gathering"
      /\ worker'.phase # "dead"
  BY <1>1, <1>3 DEF Processing
<1>5. RadarTypeOK'
  BY <1>1, <1>3 DEF RadarInv, RadarTypeOK, selection, feed, kept
<1>6. Selected' /\ Sound'
  BY <1>1, <1>3 DEF RadarInv, Selected, Sound, Session, selection, feed
<1>7. EvidenceIsFinal'
  BY <1>1, CitesKeep DEF feed, kept
<1> QED BY <1>1, <1>3, <1>4, <1>5, <1>6, <1>7, FeedKeeps DEF RadarInv

-----------------------------------------------------------------------------
(* The items *)

\* What an item becomes by a review of another one, or stays.
LEMMA ReviewIs ==
    ASSUME RadarInv, NEW s \in Sessions, NEW i \in DOMAIN state[s].items, Review(s, i)
    PROVE /\ UNCHANGED <<selection, feed, made, worker, closed>>
          /\ state' \in [Sessions -> [items : Items, tombstones : SUBSET Texts]]
          /\ \A r \in Sessions : r # s => state'[r] = state[r]
          /\ DOMAIN state'[s].items \subseteq DOMAIN state[s].items
          /\ \A j \in DOMAIN state'[s].items :
                 state'[s].items[j].evidence = state[s].items[j].evidence
          /\ \A j \in DOMAIN state[s].items :
                 j # i => /\ j \in DOMAIN state'[s].items
                          /\ state'[s].items[j] = state[s].items[j]
<1>1. /\ state \in [Sessions -> [items : Items, tombstones : SUBSET Texts]]
      /\ state[s].items \in [DOMAIN state[s].items -> Item]
      /\ DOMAIN state[s].items \subseteq 1 .. MaxItems
      /\ state[s].tombstones \subseteq Texts
  BY ItemsIs DEF RadarInv, RadarTypeOK
<1>2. state[s].items[i] \in Item
  BY <1>1
<1>3. ASSUME NEW x \in Item, x.evidence = state[s].items[i].evidence,
             Change(s, [state[s] EXCEPT !.items = [@ EXCEPT ![i] = x]])
      PROVE /\ UNCHANGED <<selection, feed, made, worker, closed>>
            /\ state' \in [Sessions -> [items : Items, tombstones : SUBSET Texts]]
            /\ \A r \in Sessions : r # s => state'[r] = state[r]
            /\ DOMAIN state'[s].items \subseteq DOMAIN state[s].items
            /\ \A j \in DOMAIN state'[s].items :
                   state'[s].items[j].evidence = state[s].items[j].evidence
            /\ \A j \in DOMAIN state[s].items :
                   j # i => /\ j \in DOMAIN state'[s].items
                            /\ state'[s].items[j] = state[s].items[j]
  <2>1. PICK items : items = [state[s].items EXCEPT ![i] = x]
    OBVIOUS
  <2>2. /\ DOMAIN items = DOMAIN state[s].items /\ items[i] = x
        /\ items \in [DOMAIN state[s].items -> Item]
        /\ \A j \in DOMAIN items : j # i => items[j] = state[s].items[j]
    BY <1>1, <2>1
  <2>3. items \in Items
    BY <1>1, <2>2, ItemsIs
  <2>4. PICK c : c = [state[s] EXCEPT !.items = items]
    OBVIOUS
  <2>5. c \in [items : Items, tombstones : SUBSET Texts] /\ c.items = items
    BY <1>1, <2>3, <2>4
  <2>6. state' = [state EXCEPT ![s] = c] /\ UNCHANGED <<selection, feed, made, worker, closed>>
    BY <1>3, <2>1, <2>4 DEF Change
  <2>7. state'[s] = c /\ \A r \in Sessions : r # s => state'[r] = state[r]
    BY <1>1, <2>6
  <2> QED BY <1>1, <1>3, <2>2, <2>5, <2>6, <2>7
<1>4. CASE Approve(s, i)
  <2>1. PICK a \in BOOLEAN : Change(s, [state[s] EXCEPT !.items[i].approved = a])
    BY <1>4 DEF Approve
  <2>2. PICK x : x = [state[s].items[i] EXCEPT !.approved = a]
    OBVIOUS
  <2>3. x \in Item /\ x.evidence = state[s].items[i].evidence
    BY <1>2, <2>2 DEF Item
  <2>4. Change(s, [state[s] EXCEPT !.items = [@ EXCEPT ![i] = x]])
    BY <2>1, <2>2
  <2> QED BY <1>3, <2>3, <2>4
<1>5. CASE Edit(s, i)
  <2>1. PICK t \in Texts, d \in {state[s].items[i].detail, "user", "none"} :
            Change(s, [state[s] EXCEPT !.items[i] =
                           [@ EXCEPT !.text = t, !.detail = d, !.edited = TRUE]])
    BY <1>5 DEF Edit
  <2>2. PICK x : x = [state[s].items[i] EXCEPT !.text = t, !.detail = d, !.edited = TRUE]
    OBVIOUS
  <2>3. x \in Item /\ x.evidence = state[s].items[i].evidence
    BY <1>2, <2>2 DEF Item, Details
  <2>4. Change(s, [state[s] EXCEPT !.items = [@ EXCEPT ![i] = x]])
    BY <2>1, <2>2
  <2> QED BY <1>3, <2>3, <2>4
<1>6. CASE Delete(s, i)
  <2>1. PICK items : items = Restrict(state[s].items, DOMAIN state[s].items \ {i})
    OBVIOUS
  <2>2. /\ DOMAIN items = DOMAIN state[s].items \ {i}
        /\ \A j \in DOMAIN items : items[j] = state[s].items[j]
        /\ items \in [DOMAIN items -> Item]
    BY <1>1, <2>1 DEF Restrict
  <2>3. items \in Items
    BY <1>1, <2>2, ItemsIs
  <2>4. PICK t : t = state[s].tombstones \cup {state[s].items[i].text}
    OBVIOUS
  <2>5. t \subseteq Texts
    BY <1>1, <1>2, <2>4 DEF Item
  <2>6. /\ state' = [state EXCEPT ![s] = [items |-> items, tombstones |-> t]]
        /\ UNCHANGED <<selection, feed, made, worker, closed>>
    BY <1>6, <2>1, <2>4 DEF Delete, Change
  <2>7. /\ state'[s] = [items |-> items, tombstones |-> t]
        /\ \A r \in Sessions : r # s => state'[r] = state[r]
    BY <1>1, <2>6
  <2>8. state' \in [Sessions -> [items : Items, tombstones : SUBSET Texts]]
    BY <1>1, <2>3, <2>5, <2>6
  <2> QED BY <2>2, <2>6, <2>7, <2>8
<1> QED BY <1>4, <1>5, <1>6 DEF Review

LEMMA ReviewKeeps ==
    ASSUME RadarInv, NEW s \in Sessions, NEW i \in DOMAIN state[s].items, Review(s, i)
    PROVE RadarInv'
<1>1. /\ UNCHANGED <<selection, feed, made, worker, closed>>
      /\ state' \in [Sessions -> [items : Items, tombstones : SUBSET Texts]]
      /\ \A r \in Sessions : DOMAIN state'[r].items \subseteq DOMAIN state[r].items
      /\ \A r \in Sessions : \A j \in DOMAIN state'[r].items :
             state'[r].items[j].evidence = state[r].items[j].evidence
  BY ReviewIs
<1>2. RadarTypeOK'
  BY <1>1 DEF RadarInv, RadarTypeOK, selection, feed
<1>3. Selected' /\ Sound'
  BY <1>1 DEF RadarInv, Selected, Sound, Processing, Session, selection, feed
<1>4. EvidenceIsFinal'
  BY <1>1 DEF RadarInv, EvidenceIsFinal, feed
<1>5. Processing' => Processing
  BY <1>1 DEF Processing
<1> QED BY <1>1, <1>2, <1>3, <1>4, <1>5, FeedKeeps DEF RadarInv

LEMMA ExtendsSelf ==
    ASSUME NEW x \in Item
    PROVE Extends(x, x)
BY DEF Item, Extends

\* An item that a suggestion speaks for once more.
LEMMA SupplementedIs ==
    ASSUME NEW item \in Item, NEW x \in Suggestion,
           NEW y, y = Supplemented(item, x)
    PROVE /\ y \in Item /\ y.evidence = item.evidence \cup x.evidence
          /\ Extends(y, item)
<1>1. CASE x.evidence \subseteq item.evidence
  BY <1>1, ExtendsSelf DEF Supplemented
<1>2. CASE ~(x.evidence \subseteq item.evidence)
  <2>1. PICK e, d : /\ e = item.evidence \cup x.evidence
                    /\ d = IF item.detail = "none" THEN x.detail ELSE item.detail
    OBVIOUS
  <2>2. e \subseteq Segments /\ d \in Details
    BY <2>1 DEF Item, Suggestion, Details
  <2>3. y = [item EXCEPT !.evidence = e, !.detail = d]
    BY <1>2, <2>1 DEF Supplemented
  <2>4. y \in Item /\ y.evidence = e /\ y.detail = d
    BY <2>2, <2>3 DEF Item
  <2> QED BY <1>2, <2>1, <2>3, <2>4 DEF Extends
<1> QED BY <1>1, <1>2

\* What a merge does to the items: those that were there are extended; a new one
\* has a text that was not deleted; all evidence is of what the segments S allow.
MergesInto(items, S, x, merged) ==
    /\ merged \in [DOMAIN merged -> Item]
    /\ DOMAIN merged \in {DOMAIN items, DOMAIN items \cup {made + 1}}
    /\ \A i \in DOMAIN merged :
           merged[i].evidence # {} /\ merged[i].evidence \subseteq S
    /\ \A i \in DOMAIN items :
           /\ i \in DOMAIN merged
           /\ Extends(merged[i], items[i])
    /\ \A i \in DOMAIN merged \ DOMAIN items : merged[i].text = x.text

LEMMA MergedIs ==
    ASSUME NEW items \in Items, DOMAIN items \subseteq 1 .. made, made \in Nat, NEW S,
           \A i \in DOMAIN items : items[i].evidence # {} /\ items[i].evidence \subseteq S,
           NEW x \in Suggestion,
           x.evidence # {} /\ x.evidence \subseteq S,
           NEW merged, merged = Proposed(items, x)
    PROVE MergesInto(items, S, x, merged)
<1> DEFINE known == Known(items, x.text)
<1>1. items \in [DOMAIN items -> Item] /\ known \subseteq DOMAIN items
      /\ DOMAIN items \subseteq Nat /\ made + 1 \notin DOMAIN items
  BY ItemsIs DEF Known
<1>2. CASE known # {}
  <2>1. PICK last : last = CHOOSE i \in known : \A j \in known : j <= i
    OBVIOUS
  <2>2. last \in known
    <3>1. known \in SUBSET (0 .. made)
      BY <1>1
    <3>2. \E i \in known : \A j \in known : j <= i
      BY <1>2, <3>1, NatGreatest
    <3> QED BY <2>1, <3>2
  <2>3. PICK y : y = Supplemented(items[last], x)
    OBVIOUS
  <2>5. merged = [items EXCEPT ![last] = y]
    BY <1>2, <2>1, <2>3 DEF Proposed
  <2>6. last \in DOMAIN items /\ items[last] \in Item
    BY <1>1, <2>2
  <2>7. /\ y \in Item /\ y.evidence = items[last].evidence \cup x.evidence
        /\ Extends(y, items[last])
    BY <2>3, <2>6, SupplementedIs
  <2>8. /\ DOMAIN merged = DOMAIN items /\ merged[last] = y
        /\ \A i \in DOMAIN items : i # last => merged[i] = items[i]
        /\ merged \in [DOMAIN items -> Item]
    BY <1>1, <2>5, <2>6, <2>7
  <2>9. \A i \in DOMAIN items : Extends(items[i], items[i])
    BY <1>1, ExtendsSelf
  <2> QED BY <2>6, <2>7, <2>8, <2>9 DEF MergesInto
<1>3. CASE known = {}
  <2>1. PICK y : y = [text |-> x.text, detail |-> x.detail, evidence |-> x.evidence,
                      approved |-> FALSE, edited |-> FALSE, active |-> TRUE]
    OBVIOUS
  <2>2. y \in Item /\ y.text = x.text /\ y.evidence = x.evidence
    BY <2>1 DEF Item, Suggestion, Details
  <2>3. merged = [i \in DOMAIN items \cup {made + 1} |-> IF i = made + 1 THEN y ELSE items[i]]
    BY <1>3, <2>1 DEF Proposed
  <2>4. /\ DOMAIN merged = DOMAIN items \cup {made + 1} /\ merged[made + 1] = y
        /\ \A i \in DOMAIN items : merged[i] = items[i]
        /\ merged \in [DOMAIN merged -> Item]
    BY <1>1, <2>2, <2>3
  <2>5. \A i \in DOMAIN items : Extends(items[i], items[i])
    BY <1>1, ExtendsSelf
  <2> QED BY <2>2, <2>4, <2>5 DEF MergesInto
<1> QED BY <1>2, <1>3

LEMMA RetractedIs ==
    ASSUME NEW items \in Items, NEW ids
    PROVE /\ Retracted(items, ids) \in Items
          /\ DOMAIN Retracted(items, ids) = DOMAIN items
          /\ \A i \in DOMAIN items :
                 /\ Retracted(items, ids)[i].text = items[i].text
                 /\ Retracted(items, ids)[i].evidence = items[i].evidence
                 /\ items[i].approved \/ items[i].edited =>
                        Retracted(items, ids)[i] = items[i]
<1>1. items \in [DOMAIN items -> Item] /\ DOMAIN items \subseteq 1 .. MaxItems
  BY ItemsIs
<1>2. PICK r : r = Retracted(items, ids)
  OBVIOUS
<1>3. /\ DOMAIN r = DOMAIN items
      /\ \A i \in DOMAIN items :
             r[i] \in {items[i], [items[i] EXCEPT !.active = FALSE]}
      /\ \A i \in DOMAIN items : items[i].approved \/ items[i].edited => r[i] = items[i]
      /\ r = [i \in DOMAIN items |-> r[i]]
  BY <1>2 DEF Retracted
<1>4. ASSUME NEW i \in DOMAIN items
      PROVE r[i] \in Item /\ r[i].text = items[i].text /\ r[i].evidence = items[i].evidence
  <2>1. items[i] \in Item
    BY <1>1
  <2> QED BY <1>3, <2>1 DEF Item
<1>5. r \in [DOMAIN items -> Item]
  BY <1>3, <1>4
<1>6. r \in Items
  BY <1>1, <1>3, <1>5, ItemsIs
<1> QED BY <1>2, <1>3, <1>4, <1>6

\* What is trimmed is no longer active, and all else stays as it is.
LEMMA TrimmedIs ==
    ASSUME NEW items
    PROVE /\ DOMAIN Trimmed(items) \subseteq DOMAIN items
          /\ \A i \in DOMAIN Trimmed(items) : Trimmed(items)[i] = items[i]
          /\ \A i \in DOMAIN items : items[i].active => i \in DOMAIN Trimmed(items)
          /\ items \in [DOMAIN items -> Item] =>
                 Trimmed(items) \in [DOMAIN Trimmed(items) -> Item]
BY DEF Trimmed

\* The suggestions that are accepted cite the window only.
LEMMA SanitizedIs ==
    ASSUME NEW suggestions \in Suggestions, worker.window \subseteq Segments
    PROVE \A x \in Sanitized(suggestions) :
              /\ x \in Suggestion
              /\ x.evidence # {} /\ x.evidence \subseteq worker.window
<1> SUFFICES ASSUME NEW x \in Sanitized(suggestions)
             PROVE /\ x \in Suggestion
                   /\ x.evidence # {} /\ x.evidence \subseteq worker.window
  OBVIOUS
<1>1. PICK y \in suggestions : x = [y EXCEPT !.evidence = ValidEvidence(y.evidence)]
  BY DEF Sanitized
<1>2. y \in Suggestion
  BY <1>1 DEF Suggestions
<1>3. x \in Suggestion /\ x.evidence \subseteq worker.window
  BY <1>1, <1>2 DEF ValidEvidence, Suggestion
<1>4. x.evidence # {}
  BY DEF Sanitized
<1> QED BY <1>3, <1>4

\* What an answer does to the items of the session of its group.
LEMMA AnswerIs ==
    ASSUME RadarInv, NEW suggestions \in Suggestions, NEW ids, Answer(suggestions, ids)
    PROVE LET s == Session
          IN  /\ s \in Sessions /\ worker.phase = "calling"
              /\ worker' = [worker EXCEPT !.phase = "settling"]
              /\ UNCHANGED <<selection, feed, closed>>
              /\ made' \in made .. MaxItems
              /\ state' \in [Sessions -> [items : Items, tombstones : SUBSET Texts]]
              /\ \A r \in Sessions : r # s => state'[r] = state[r]
              /\ DOMAIN state'[s].items \subseteq 1 .. made'
              /\ \A i \in DOMAIN state'[s].items :
                     /\ state'[s].items[i].evidence # {}
                     /\ state'[s].items[i].evidence \subseteq
                            {k \in ToSet(finals) : SessionOf[k] = s}
                     /\ i \notin DOMAIN state[s].items =>
                            state'[s].items[i].text \notin state[s].tombstones
              /\ \A i \in DOMAIN state[s].items :
                     LET x == state[s].items[i]
                         y == state'[s].items[i]
                     IN  x.active /\ (x.approved \/ x.edited) =>
                             /\ i \in DOMAIN state'[s].items
                             /\ Extends(y, x)
<1> DEFINE s == Session
           S == {k \in ToSet(finals) : SessionOf[k] = s}
           items == state[s].items
           accepted == Sanitized(suggestions)
           merged == Merged(s, accepted, ids)
<1>1. /\ worker.phase = "calling" /\ worker' = [worker EXCEPT !.phase = "settling"]
      /\ UNCHANGED <<selection, feed, closed>>
      /\ made < MaxItems \/ made + 1 \notin DOMAIN merged
      /\ made' = IF made + 1 \in DOMAIN merged THEN made + 1 ELSE made
      /\ state' = [state EXCEPT ![s].items = Trimmed(merged)]
  BY DEF Answer
<1>2. /\ Processing /\ worker.at \in DOMAIN worker.batch /\ worker.window \subseteq S
      /\ worker.batch \in Seq(Segments) /\ worker.window \subseteq Segments
  <2>1. Processing
    BY <1>1 DEF Processing
  <2> QED BY <2>1, WorkerIs DEF RadarInv, RadarTypeOK, Sound
<1>3. s \in Sessions
  <2>1. worker.batch[worker.at] \in Segments
    BY <1>2
  <2> QED BY <2>1, RadarConstants DEF Session
<1>4. /\ items \in Items /\ DOMAIN items \subseteq 1 .. made /\ made \in 0 .. MaxItems
      /\ MaxItems \in Nat
      /\ state[s] \in [items : Items, tombstones : SUBSET Texts]
      /\ state \in [Sessions -> [items : Items, tombstones : SUBSET Texts]]
      /\ \A i \in DOMAIN items : items[i].evidence # {} /\ items[i].evidence \subseteq S
  BY <1>3, RadarConstants DEF RadarInv, RadarTypeOK, EvidenceIsFinal
<1>5. \A x \in accepted : /\ x \in Suggestion
                          /\ x.evidence # {} /\ x.evidence \subseteq S
  BY <1>2, SanitizedIs
<1> DEFINE past == Retracted(items, ids)
           proposed == {x \in accepted : x.text \notin state[s].tombstones}
<1>6. /\ past \in Items /\ DOMAIN past = DOMAIN items
      /\ \A i \in DOMAIN items :
             /\ past[i].evidence = items[i].evidence /\ past[i].text = items[i].text
             /\ items[i].approved \/ items[i].edited => past[i] = items[i]
  BY <1>4, RetractedIs
<1> HIDE DEF accepted, items, past, S, s
<1>7. /\ merged \in [DOMAIN merged -> Item]
      /\ DOMAIN merged \in {DOMAIN items, DOMAIN items \cup {made + 1}}
      /\ \A i \in DOMAIN merged :
             merged[i].evidence # {} /\ merged[i].evidence \subseteq S
      /\ \A i \in DOMAIN items :
             /\ i \in DOMAIN merged
             /\ Extends(merged[i], past[i])
      /\ \A i \in DOMAIN merged \ DOMAIN items : merged[i].text \notin state[s].tombstones
  <2>1. CASE proposed = {}
    <3>1. merged = past
      BY <2>1 DEF Merged, accepted, past, items
    <3>2. past \in [DOMAIN past -> Item]
      BY <1>6, ItemsIs
    <3>3. \A i \in DOMAIN past : Extends(past[i], past[i])
      BY <3>2, ExtendsSelf
    <3> QED BY <1>4, <1>6, <3>1, <3>2, <3>3
  <2>2. CASE proposed # {}
    <3>1. PICK x \in proposed : x = CHOOSE y \in proposed : TRUE
      BY <2>2
    <3>2. merged = Proposed(past, x)
      BY <2>2, <3>1 DEF Merged, accepted, past, items
    <3>3. /\ x \in Suggestion
          /\ x.evidence # {} /\ x.evidence \subseteq S /\ x.text \notin state[s].tombstones
      BY <1>5, <3>1
    <3>4. /\ DOMAIN past \subseteq 1 .. made /\ made \in Nat
          /\ \A i \in DOMAIN past : past[i].evidence # {} /\ past[i].evidence \subseteq S
      BY <1>4, <1>6
    <3> HIDE DEF merged, proposed
    <3>5. /\ merged \in [DOMAIN merged -> Item]
          /\ DOMAIN merged \in {DOMAIN past, DOMAIN past \cup {made + 1}}
          /\ \A i \in DOMAIN merged :
                 merged[i].evidence # {} /\ merged[i].evidence \subseteq S
          /\ \A i \in DOMAIN past :
                 /\ i \in DOMAIN merged
                 /\ Extends(merged[i], past[i])
          /\ \A i \in DOMAIN merged \ DOMAIN past : merged[i].text = x.text
      <4>1. PICK was, R, m : was = past /\ R = S /\ m = merged
        OBVIOUS
      <4>2. /\ was \in Items /\ DOMAIN was \subseteq 1 .. made /\ made \in Nat
            /\ \A i \in DOMAIN was : was[i].evidence # {} /\ was[i].evidence \subseteq R
            /\ x.evidence # {} /\ x.evidence \subseteq R
            /\ x \in Suggestion
        BY <1>6, <3>3, <3>4, <4>1
      <4>3. m = Proposed(was, x)
        BY <3>2, <4>1
      <4>4. MergesInto(was, R, x, m)
        BY <4>2, <4>3, MergedIs
      <4> QED BY <4>1, <4>4 DEF MergesInto
    <3> QED BY <1>6, <3>3, <3>5
  <2> QED BY <2>1, <2>2
<1> HIDE DEF merged
<1>8. PICK t : t = Trimmed(merged)
  OBVIOUS
<1>9. /\ DOMAIN t \subseteq DOMAIN merged /\ \A i \in DOMAIN t : t[i] = merged[i]
      /\ \A i \in DOMAIN merged : merged[i].active => i \in DOMAIN t
      /\ t \in [DOMAIN t -> Item]
  BY <1>7, <1>8, TrimmedIs
<1>10. /\ made' \in made .. MaxItems /\ DOMAIN merged \subseteq 1 .. made'
       /\ DOMAIN t \subseteq 1 .. MaxItems
  <2>1. made \in Nat /\ MaxItems \in Nat /\ made <= MaxItems
    BY <1>4
  <2>2. CASE made + 1 \in DOMAIN merged
    <3>1. made' = made + 1 /\ made < MaxItems
      BY <1>1, <2>2
    <3> QED BY <1>4, <1>7, <1>9, <2>1, <3>1
  <2>3. CASE made + 1 \notin DOMAIN merged
    <3>1. made' = made /\ DOMAIN merged = DOMAIN items
      BY <1>1, <1>7, <2>3
    <3> QED BY <1>4, <1>9, <2>1, <3>1
  <2> QED BY <2>2, <2>3
<1>11. t \in Items
  BY <1>9, <1>10, ItemsIs
<1>12. /\ state'[s].items = t /\ \A r \in Sessions : r # s => state'[r] = state[r]
       /\ state' \in [Sessions -> [items : Items, tombstones : SUBSET Texts]]
  <2>1. PICK c : c = [state[s] EXCEPT !.items = t]
    OBVIOUS
  <2>2. c \in [items : Items, tombstones : SUBSET Texts] /\ c.items = t
    BY <1>4, <1>11, <2>1
  <2>3. state' = [state EXCEPT ![s] = c]
    BY <1>1, <1>8, <2>1
  <2> QED BY <1>3, <1>4, <2>2, <2>3
<1>13. ASSUME NEW i \in DOMAIN items, items[i].active, items[i].approved \/ items[i].edited
       PROVE i \in DOMAIN t /\ Extends(t[i], items[i])
  <2>1. past[i] = items[i] /\ items[i] \in Item
    BY <1>4, <1>6, <1>13, ItemsIs
  <2>2. /\ i \in DOMAIN merged /\ Extends(merged[i], items[i])
    BY <1>7, <1>13, <2>1
  <2>3. merged[i].active
    BY <1>13, <2>1, <2>2 DEF Item, Extends
  <2> QED BY <1>9, <2>2, <2>3
<1>14. \A i \in DOMAIN t : /\ t[i].evidence # {} /\ t[i].evidence \subseteq S
                           /\ i \notin DOMAIN items => t[i].text \notin state[s].tombstones
  BY <1>7, <1>9
<1>15. DOMAIN t \subseteq 1 .. made'
  BY <1>9, <1>10
<1> USE DEF items, S, s
<1> QED BY <1>1, <1>3, <1>10, <1>12, <1>13, <1>14, <1>15

LEMMA AnswerKeeps ==
    ASSUME RadarInv, NEW suggestions \in Suggestions, NEW ids, Answer(suggestions, ids)
    PROVE RadarInv'
<1>1. /\ worker.phase = "calling" /\ worker' = [worker EXCEPT !.phase = "settling"]
      /\ UNCHANGED <<selection, feed, closed>>
      /\ made' \in made .. MaxItems
      /\ state' \in [Sessions -> [items : Items, tombstones : SUBSET Texts]]
      /\ \A r \in Sessions : r # Session => state'[r] = state[r]
      /\ DOMAIN state'[Session].items \subseteq 1 .. made'
      /\ \A i \in DOMAIN state'[Session].items :
             /\ state'[Session].items[i].evidence # {}
             /\ state'[Session].items[i].evidence \subseteq
                    {k \in ToSet(finals) : SessionOf[k] = Session}
  BY AnswerIs
<1>2. /\ worker' \in Local /\ worker'.phase = "settling"
      /\ worker'.batch = worker.batch /\ worker'.at = worker.at
      /\ worker'.window = worker.window /\ worker'.instance = worker.instance
  BY <1>1 DEF RadarInv, RadarTypeOK, Local
<1>3. Processing /\ Processing' /\ worker'.phase # "dead"
      /\ worker.phase # "gathering" /\ worker'.phase # "gathering"
  BY <1>1, <1>2 DEF Processing
<1>4. made' \in 0 .. MaxItems /\ made \in 0 .. MaxItems /\ 1 .. made \subseteq 1 .. made'
  BY <1>1, RadarConstants DEF RadarInv, RadarTypeOK
<1>5. RadarTypeOK'
  <2>1. \A r \in Sessions : DOMAIN state'[r].items \subseteq 1 .. made'
    BY <1>1, <1>4 DEF RadarInv, RadarTypeOK
  <2> QED BY <1>1, <1>2, <1>4, <2>1 DEF RadarInv, RadarTypeOK, selection, feed
<1>6. Selected' /\ Sound'
  BY <1>1, <1>2, <1>3 DEF RadarInv, Selected, Sound, Session, selection, feed
<1>7. EvidenceIsFinal'
  <2>1. finals' = finals
    BY <1>1 DEF feed
  <2>2. ASSUME NEW r \in Sessions, NEW i \in DOMAIN state'[r].items
        PROVE /\ state'[r].items[i].evidence # {}
              /\ state'[r].items[i].evidence \subseteq {k \in ToSet(finals) : SessionOf[k] = r}
    BY <1>1, <2>2 DEF RadarInv, EvidenceIsFinal
  <2> QED BY <2>1, <2>2 DEF EvidenceIsFinal
<1> QED BY <1>1, <1>2, <1>3, <1>5, <1>6, <1>7, FeedKeeps DEF RadarInv

-----------------------------------------------------------------------------
(* The groups of a batch *)

LEMMA FitsInto ==
    ASSUME NEW p \in Nat, NEW q \in Nat, p <= q, NEW n \in Nat, NEW f \in [p .. q -> 1 .. n],
           \A i, j \in p .. q : f[i] = f[j] => i = j
    PROVE q - p + 1 <= n
<1>1. f \in Injection(p .. q, 1 .. n)
  BY DEF Injection, IsInjective
<1>2. p \in Int /\ q \in Int /\ n \in Int /\ 1 \in Int
  OBVIOUS
<1>3. IsFiniteSet(1 .. n) /\ Cardinality(1 .. n) = n
  BY <1>2, FS_Interval
<1>4. Cardinality(p .. q) = q - p + 1
  BY <1>2, FS_Interval
<1> QED BY <1>1, <1>3, <1>4, FS_Injection

\* The window ends with the last segment of the focus that is still buffered.
LEMMA WindowIs ==
    ASSUME RadarInv, NEW s \in Sessions, NEW group,
           \A k \in group : k \in Segments /\ SessionOf[k] = s, Focus(group) # {}
    PROVE \E first, last \in DOMAIN buffered[s] :
              /\ first = IF last > ContextWindow THEN last - ContextWindow + 1 ELSE 1
              /\ Window(group, s) = {buffered[s][i] : i \in first .. last}
              /\ buffered[s][last] \in Focus(group)
              /\ \A k \in Focus(group) :
                     Place(k) \in 1 .. last /\ buffered[s][Place(k)] = k
<1> DEFINE q == buffered[s]
           places == {Place(k) : k \in Focus(group)}
<1>1. Line(q)
  BY DEF RadarInv, Recent
<1>2. /\ q \in Seq(Segments) /\ Len(q) \in Nat /\ DOMAIN q = 1 .. Len(q)
      /\ \A x : x \in ToSet(q) <=> \E i \in DOMAIN q : q[i] = x
  BY <1>1, LineIs
<1>3. ASSUME NEW k \in Focus(group) PROVE Place(k) \in DOMAIN q /\ q[Place(k)] = k
  <2>1. k \in ToSet(q) /\ SessionOf[k] = s
    BY <1>3 DEF Focus
  <2>2. \E i \in DOMAIN q : q[i] = k
    BY <1>2, <2>1
  <2> QED BY <2>1, <2>2 DEF Place
<1>4. PICK last : last = CHOOSE i \in places : \A k \in Focus(group) : Place(k) <= i
  OBVIOUS
<1>5. last \in places /\ \A k \in Focus(group) : Place(k) <= last
  <2>1. places \in SUBSET (0 .. Len(q)) /\ places # {}
    BY <1>2, <1>3
  <2>2. PICK i \in places : \A j \in places : j <= i
    BY <1>2, <2>1, NatGreatest
  <2>3. \A k \in Focus(group) : Place(k) <= i
    BY <2>2
  <2> QED BY <1>4, <2>3
<1>6. PICK first : first = IF last > ContextWindow THEN last - ContextWindow + 1 ELSE 1
  OBVIOUS
<1>7. Window(group, s) = {q[i] : i \in first .. last}
  BY <1>4, <1>6 DEF Window
<1>8. last \in DOMAIN q /\ q[last] \in Focus(group)
  BY <1>3, <1>5
<1>9. first \in DOMAIN q
  BY <1>2, <1>6, <1>8, RadarConstants
<1>10. \A k \in Focus(group) : Place(k) \in 1 .. last /\ q[Place(k)] = k
  BY <1>2, <1>3, <1>5, <1>8
<1> QED BY <1>6, <1>7, <1>8, <1>9, <1>10

\* A batch without gaps is no longer than a window: what is left of a group of
\* it is within the window that ends with the last of them.
LEMMA WindowCovers ==
    ASSUME RadarInv, NEW s \in Sessions, NEW batch \in Seq(Segments),
           Len(batch) <= BatchSize, Convex(ToSet(batch)), NEW group,
           \A k \in group : k \in ToSet(batch) /\ k \in Segments /\ SessionOf[k] = s,
           Focus(group) # {}
    PROVE Focus(group) \subseteq Window(group, s)
<1> DEFINE q == buffered[s]
<1>1. PICK first, last \in DOMAIN q :
          /\ first = IF last > ContextWindow THEN last - ContextWindow + 1 ELSE 1
          /\ Window(group, s) = {q[i] : i \in first .. last}
          /\ q[last] \in Focus(group)
          /\ \A k \in Focus(group) : Place(k) \in 1 .. last /\ q[Place(k)] = k
  BY WindowIs
<1>2. Line(q) /\ Line(finals) /\ \A x, y \in Segments : Precedes(x, y, q) => Precedes(x, y, finals)
  BY DEF RadarInv, Recent
<1>3. /\ q \in Seq(Segments) /\ Len(q) \in Nat /\ DOMAIN q = 1 .. Len(q)
      /\ \A i, j \in DOMAIN q : q[i] = q[j] => i = j
  BY <1>2, LineIs
<1>4. \A i, j \in DOMAIN q : i < j => Precedes(q[i], q[j], finals)
  <2>1. ASSUME NEW i \in DOMAIN q, NEW j \in DOMAIN q, i < j PROVE Precedes(q[i], q[j], finals)
    <3>1. Precedes(q[i], q[j], q) /\ q[i] \in Segments /\ q[j] \in Segments
      BY <1>2, <1>3, <2>1, PrecedesIs
    <3> QED BY <1>2, <3>1
  <2> QED BY <2>1
<1>5. SUFFICES ASSUME NEW k \in Focus(group), Place(k) \notin first .. last
               PROVE FALSE
  BY <1>1
<1>6. PICK p : p = Place(k)
  OBVIOUS
<1>7. /\ p \in Nat /\ last \in Nat /\ p \in DOMAIN q /\ p <= last /\ p .. last \subseteq DOMAIN q
      /\ q[p] = k /\ last - p >= ContextWindow
  BY <1>1, <1>3, <1>5, <1>6, RadarConstants
<1>8. Len(batch) \in Nat /\ \A x \in ToSet(batch) : \E i \in 1 .. Len(batch) : batch[i] = x
  BY DEF ToSet
<1>9. ASSUME NEW i \in p .. last PROVE \E j \in 1 .. Len(batch) : batch[j] = q[i]
  <2>1. q[p] \in ToSet(batch) /\ q[last] \in ToSet(batch)
    BY <1>1, <1>5, <1>7 DEF Focus
  <2>2. i \in DOMAIN q /\ q[i] \in Segments /\ p <= i /\ i <= last
    BY <1>3, <1>7, <1>9
  <2>3. CASE i = p \/ i = last
    BY <1>8, <2>1, <2>3
  <2>4. CASE p < i /\ i < last
    <3>1. Precedes(q[p], q[i], finals) /\ Precedes(q[i], q[last], finals)
      BY <1>1, <1>4, <1>7, <2>2, <2>4
    <3>2. q[i] \in ToSet(batch)
      BY <2>1, <2>2, <3>1 DEF Convex
    <3> QED BY <1>8, <3>2
  <2> QED BY <1>7, <2>2, <2>3, <2>4
<1> DEFINE f == [i \in p .. last |-> CHOOSE j \in 1 .. Len(batch) : batch[j] = q[i]]
<1>10. f \in [p .. last -> 1 .. Len(batch)] /\ \A i \in p .. last : batch[f[i]] = q[i]
  BY <1>9
<1> HIDE DEF f
<1>11. \A i, j \in p .. last : f[i] = f[j] => i = j
  <2>1. ASSUME NEW i \in p .. last, NEW j \in p .. last, f[i] = f[j] PROVE i = j
    <3>1. q[i] = q[j]
      BY <1>10, <2>1
    <3>2. i \in DOMAIN q /\ j \in DOMAIN q
      BY <1>7
    <3> QED BY <1>3, <3>1, <3>2
  <2> QED BY <2>1
<1>12. last - p + 1 <= Len(batch)
  BY <1>7, <1>8, <1>10, <1>11, FitsInto
<1> QED BY <1>1, <1>3, <1>7, <1>8, <1>12, RadarConstants

\* What the worker is when it enters the next group, or none.
LEMMA EnteredIs ==
    ASSUME RadarInv, NEW batch \in Seq(Segments), Len(batch) <= BatchSize, NEW done \in Nat
    PROVE LET w == Entered(batch, done)
          IN  \/ w = NoBatch
              \/ w = [NoBatch EXCEPT !.phase = "dead"] /\ ~Convex(ToSet(batch))
              \/ /\ w \in Local /\ w.phase = "due" /\ w.batch = batch
                 /\ w.at \in DOMAIN batch
                 /\ w.window \subseteq
                        {k \in ToSet(finals) : SessionOf[k] = SessionOf[batch[w.at]]}
                 /\ w.instance = provider.instance /\ provider.name # "none"
<1> DEFINE entered == {i \in Firsts(batch) : i > done /\ ~Skipped(Group(batch, i))}
<1>1. CASE entered = {}
  BY <1>1 DEF Entered
<1>2. CASE entered # {}
  <2>1. PICK first : first = CHOOSE i \in entered : \A j \in entered : i <= j
    OBVIOUS
  <2>2. /\ first \in DOMAIN batch /\ ~Skipped(Group(batch, first))
        /\ DOMAIN batch = 1 .. Len(batch) /\ Len(batch) \in Nat
    <3>1. DOMAIN batch = 1 .. Len(batch) /\ Len(batch) \in Nat
      OBVIOUS
    <3>2. entered \subseteq DOMAIN batch
      BY DEF Firsts
    <3>3. \E i \in entered : \A j \in entered : i <= j
      <4>1. entered \in SUBSET Nat
        BY <3>1, <3>2
      <4> HIDE DEF entered
      <4> QED BY <1>2, <4>1, NatLeast
    <3>4. first \in entered
      BY <2>1, <3>3
    <3> QED BY <3>1, <3>2, <3>4
  <2>3. PICK group, s : group = Group(batch, first) /\ s = SessionOf[batch[first]]
    OBVIOUS
  <2>4. batch[first] \in Segments /\ s \in Sessions /\ ToSet(batch) \subseteq Segments
    BY <2>2, <2>3, RadarConstants DEF ToSet
  <2>5. \A k \in group : k \in ToSet(batch) /\ k \in Segments /\ SessionOf[k] = s
    BY <2>3, <2>4 DEF Group
  <2>6. Focus(group) # {} /\ provider.name # "none" /\ Focus(group) \subseteq Segments
    BY <2>2, <2>3, <2>5 DEF Skipped, Focus
  <2>7. Window(group, s) \subseteq {k \in ToSet(finals) : SessionOf[k] = s}
    <3>1. PICK f, l \in DOMAIN buffered[s] : Window(group, s) = {buffered[s][i] : i \in f .. l}
      BY <2>4, <2>5, <2>6, WindowIs
    <3>2. buffered[s] \in Seq(Segments) /\ DOMAIN buffered[s] = 1 .. Len(buffered[s])
          /\ Len(buffered[s]) \in Nat
      BY <2>4 DEF RadarInv, RadarTypeOK
    <3>3. f .. l \subseteq DOMAIN buffered[s]
      BY <3>2
    <3>4. Window(group, s) \subseteq ToSet(buffered[s])
      BY <3>1, <3>3 DEF ToSet
    <3> QED BY <2>4, <3>4 DEF RadarInv, RadarTypeOK
  <2>8. ToSet(finals) \subseteq Segments
    BY LineIs DEF RadarInv, Recent
  <2>9. CASE ~(Focus(group) \subseteq Window(group, s))
    <3>1. ~Convex(ToSet(batch))
      BY <2>4, <2>5, <2>6, <2>9, WindowCovers
    <3>2. Entered(batch, done) = [NoBatch EXCEPT !.phase = "dead"]
      BY <1>2, <2>1, <2>3, <2>9 DEF Entered
    <3> QED BY <3>1, <3>2
  <2>10. CASE Focus(group) \subseteq Window(group, s)
    <3>1. PICK w : w = Entered(batch, done)
      OBVIOUS
    <3>2. w = [NoBatch EXCEPT !.phase = "due", !.batch = batch, !.at = first,
                              !.window = Window(group, s), !.focus = Focus(group),
                              !.retractable = Retractable(s),
                              !.instance = provider.instance]
      BY <1>2, <2>1, <2>3, <2>10, <3>1 DEF Entered
    <3>3. w = [phase |-> "due", batch |-> batch, at |-> first, window |-> Window(group, s),
               focus |-> Focus(group), retractable |-> Retractable(s),
               instance |-> provider.instance, attempt |-> 0]
      BY <3>2 DEF NoBatch
    <3>4. Retractable(s) \subseteq 1 .. MaxItems
      BY <2>4, ItemsIs DEF RadarInv, RadarTypeOK, Retractable
    <3>5. provider.instance \in 0 .. MaxSwitches /\ 0 \in 0 .. MaxRetries
      BY RadarConstants DEF RadarInv, RadarTypeOK
    <3>6. first \in 0 .. BatchSize
      BY <2>2, RadarConstants
    <3>7. Window(group, s) \subseteq Segments
      BY <2>7, <2>8
    <3>8. w \in Local
      BY <2>6, <3>3, <3>4, <3>5, <3>6, <3>7 DEF Local
    <3>9. /\ w.phase = "due" /\ w.batch = batch /\ w.at = first
          /\ w.window = Window(group, s) /\ w.instance = provider.instance
      BY <3>3
    <3> QED BY <2>2, <2>3, <2>6, <2>7, <3>1, <3>8, <3>9
  <2> QED BY <2>9, <2>10
<1> QED BY <1>1, <1>2

\* The batch is closed, or its next group is entered.
LEMMA EntersKeep ==
    ASSUME RadarInv, NEW done \in Nat, worker' = Entered(worker.batch, done),
           UNCHANGED <<selection, backlog, buffered, finals, astray, again, kept, closed>>,
           pending' \subseteq pending,
           ~again => /\ ToSet(backlog) \subseteq pending'
                     /\ ~closed => pending' \subseteq ToSet(backlog),
           ~astray => Convex(ToSet(worker.batch))
    PROVE RadarInv'
<1>1. worker.batch \in Seq(Segments) /\ Len(worker.batch) <= BatchSize
  BY WorkerIs DEF RadarInv, RadarTypeOK
<1>2. PICK w : w = Entered(worker.batch, done)
  OBVIOUS
<1>3. \/ w = NoBatch
      \/ w = [NoBatch EXCEPT !.phase = "dead"] /\ ~Convex(ToSet(worker.batch))
      \/ /\ w \in Local /\ w.phase = "due" /\ w.batch = worker.batch
         /\ w.at \in DOMAIN worker.batch
         /\ w.window \subseteq
                {k \in ToSet(finals) : SessionOf[k] = SessionOf[worker.batch[w.at]]}
         /\ w.instance = provider.instance /\ provider.name # "none"
  BY <1>1, <1>2, EnteredIs
<1>4. /\ w \in Local /\ Len(w.batch) <= BatchSize /\ w.phase # "gathering"
      /\ ToSet(w.batch) \subseteq ToSet(worker.batch)
      /\ w.phase = "dead" => ~Convex(ToSet(worker.batch))
      /\ w.phase \in {"due", "calling", "settling"} =>
             /\ w.batch = worker.batch /\ w.at \in DOMAIN w.batch
             /\ w.window \subseteq {k \in ToSet(finals) : SessionOf[k] = SessionOf[w.batch[w.at]]}
             /\ w.instance = provider.instance /\ provider.name # "none"
  <2>1. CASE w = NoBatch
    BY <2>1, NoBatchIs, RadarConstants
  <2>2. CASE w = [NoBatch EXCEPT !.phase = "dead"] /\ ~Convex(ToSet(worker.batch))
    BY <2>2, NoBatchIs, RadarConstants
  <2>3. CASE /\ w \in Local /\ w.phase = "due" /\ w.batch = worker.batch
             /\ w.at \in DOMAIN worker.batch
             /\ w.window \subseteq
                    {k \in ToSet(finals) : SessionOf[k] = SessionOf[worker.batch[w.at]]}
             /\ w.instance = provider.instance /\ provider.name # "none"
    BY <1>1, <2>3
  <2> QED BY <1>3, <2>1, <2>2, <2>3
<1>5. /\ worker' = w /\ UNCHANGED <<selection, backlog, buffered, finals, astray, again>>
      /\ UNCHANGED <<provider, unclosed, asked, state, made, closed>>
  BY <1>2 DEF selection, kept
<1> HIDE DEF Entered
<1>6. RadarTypeOK'
  BY <1>4, <1>5 DEF RadarInv, RadarTypeOK
<1>7. Selected'
  <2>1. provider.instance \in Nat
    BY DEF RadarInv, RadarTypeOK
  <2> QED BY <1>4, <1>5, <2>1 DEF RadarInv, Selected, Processing
<1>8. Sound'
  BY <1>4, <1>5 DEF Sound, Processing, Session
<1>9. Recent'
  BY <1>4, <1>5 DEF RadarInv, Recent, Line, Precedes
<1>10. EvidenceIsFinal'
  BY <1>5, CitesKeep
<1>11. ~again' => PendingIsQueued'
  BY <1>4, <1>5 DEF RadarInv, PendingIsQueued
<1>12. ~astray' => Straight' /\ ~again' /\ worker'.phase # "dead"
  <2> SUFFICES ASSUME ~astray PROVE Straight' /\ ~again' /\ worker'.phase # "dead"
    BY <1>5
  <2>1. Straight /\ Convex(ToSet(worker.batch)) /\ worker'.phase # "dead"
    BY <1>4, <1>5 DEF RadarInv
  <2>2. /\ Latest(ToSet(backlog))' /\ worker'.phase # "gathering"
        /\ (\A x, y \in Segments : Precedes(x, y, backlog) => Precedes(x, y, finals))'
    BY <1>4, <1>5, <2>1 DEF Straight, Latest, Precedes
  <2>3. Processing' => Convex(ToSet(worker.batch))'
    BY <1>4, <1>5, <2>1 DEF Processing, Convex, Precedes
  <2>4. ~again'
    BY <1>5 DEF RadarInv
  <2> QED BY <2>1, <2>2, <2>3, <2>4 DEF Straight
<1> QED BY <1>6, <1>7, <1>8, <1>9, <1>10, <1>11, <1>12 DEF RadarInv

LEMMA CloseBatchKeeps ==
    ASSUME RadarInv, CloseBatch
    PROVE RadarInv'
<1>1. /\ worker.phase = "gathering" /\ pending' = pending \ ToSet(worker.batch)
      /\ worker' = Entered(worker.batch, 0) /\ 0 \in Nat
      /\ UNCHANGED <<selection, backlog, buffered, finals, astray, again, kept, closed>>
  BY DEF CloseBatch
<1>2. ~again => /\ ToSet(backlog) \subseteq pending'
                /\ ~closed => pending' \subseteq ToSet(backlog)
  BY <1>1 DEF RadarInv, PendingIsQueued
<1>3. ASSUME ~astray PROVE Convex(ToSet(worker.batch))
  <2> DEFINE S == ToSet(worker.batch)
  <2>1. /\ Latest(S \cup ToSet(backlog)) /\ Line(finals)
        /\ \A x \in S, y \in ToSet(backlog) : Precedes(x, y, finals)
    BY <1>1, <1>3 DEF RadarInv, Straight, Recent
  <2>2. ASSUME NEW x \in S, NEW z \in S, NEW y \in Segments,
               Precedes(x, y, finals), Precedes(y, z, finals)
        PROVE y \in S
    <3>1. y \in S \cup ToSet(backlog)
      BY <2>1, <2>2 DEF Latest
    <3>2. y \notin ToSet(backlog)
      BY <2>1, <2>2, PrecedesIs
    <3> QED BY <3>1, <3>2
  <2> QED BY <2>2 DEF Convex
<1> QED BY <1>1, <1>2, <1>3, EntersKeep

LEMMA SettleKeeps ==
    ASSUME RadarInv, Settle
    PROVE RadarInv'
<1>1. /\ worker.phase = "settling" /\ worker' = Entered(worker.batch, worker.at)
      /\ UNCHANGED <<selection, feed, kept, closed>>
  BY DEF Settle
<1>2. /\ UNCHANGED <<selection, backlog, buffered, finals, astray, again, kept, closed>>
      /\ pending' = pending
  BY <1>1 DEF feed
<1>3. ~again => /\ ToSet(backlog) \subseteq pending'
                /\ ~closed => pending' \subseteq ToSet(backlog)
  BY <1>1, <1>2 DEF RadarInv, PendingIsQueued
<1>4. ~astray => Convex(ToSet(worker.batch))
  BY <1>1 DEF RadarInv, Straight, Processing
<1>5. worker.at \in Nat
  BY WorkerIs DEF RadarInv, RadarTypeOK
<1> QED BY <1>1, <1>2, <1>3, <1>4, <1>5, EntersKeep

-----------------------------------------------------------------------------
(* The queue *)

\* The first of the queue, which has the last finals, precedes all after it.
LEMMA HeadPrecedes ==
    ASSUME RadarInv, backlog # <<>>, Straight, Line(backlog)
    PROVE /\ Latest(ToSet(Tail(backlog)))
          /\ \A y \in ToSet(Tail(backlog)) : Precedes(Head(backlog), y, finals)
          /\ \A x, y \in Segments : Precedes(x, y, Tail(backlog)) => Precedes(x, y, finals)
<1> DEFINE h == Head(backlog)
<1>1. /\ ToSet(Tail(backlog)) = ToSet(backlog) \ {h} /\ h \in ToSet(backlog) /\ h \in Segments
      /\ \A x, y : Precedes(x, y, Tail(backlog)) <=> Precedes(x, y, backlog) /\ x # h
      /\ \A x \in ToSet(backlog) : x # h => Precedes(h, x, backlog)
  BY LineTail
<1>2. /\ Latest(ToSet(backlog)) /\ ToSet(backlog) \subseteq Segments
      /\ \A x, y \in Segments : Precedes(x, y, backlog) => Precedes(x, y, finals)
  BY LineIs DEF Straight
<1>3. \A y \in ToSet(Tail(backlog)) : Precedes(h, y, finals)
  BY <1>1, <1>2
<1>4. Latest(ToSet(Tail(backlog)))
  <2>1. ASSUME NEW x \in ToSet(Tail(backlog)), NEW y \in Segments, Precedes(x, y, finals)
        PROVE y \in ToSet(Tail(backlog))
    <3>1. y \in ToSet(backlog)
      BY <1>1, <1>2, <2>1 DEF Latest
    <3>2. Precedes(h, x, finals) /\ Line(finals)
      BY <1>3, <2>1 DEF RadarInv, Recent
    <3>3. y # h
      BY <2>1, <3>2, PrecedesIs
    <3> QED BY <1>1, <3>1, <3>3
  <2> QED BY <2>1 DEF Latest
<1> QED BY <1>1, <1>2, <1>3, <1>4

\* The worker takes the first of the queue into its batch.
LEMMA TakeKeeps ==
    ASSUME RadarInv, TakeFirst \/ TakeMore
    PROVE RadarInv'
<1> DEFINE h == Head(backlog)
           gathered == IF worker.phase = "gathering" THEN ToSet(worker.batch) ELSE {}
<1>1. /\ backlog # <<>> /\ backlog' = Tail(backlog)
      /\ UNCHANGED <<selection, pending, buffered, finals, astray, again, kept, closed>>
  BY DEF TakeFirst, TakeMore
<1>2. /\ backlog \in Seq(Segments) /\ h \in Segments /\ Tail(backlog) \in Seq(Segments)
      /\ Len(Tail(backlog)) <= MaxQueued /\ worker \in Local
      /\ ToSet(Tail(backlog)) \cup {h} = ToSet(backlog)
  <2>1. backlog \in Seq(Segments) /\ Len(backlog) <= MaxQueued /\ worker \in Local
        /\ Len(backlog) \in Nat /\ DOMAIN backlog = 1 .. Len(backlog)
    BY DEF RadarInv, RadarTypeOK
  <2>2. /\ Tail(backlog) \in Seq(Segments) /\ Len(backlog) \in Nat \ {0}
        /\ h = backlog[1] /\ h \in Segments
        /\ Len(Tail(backlog)) = Len(backlog) - 1
        /\ \A i \in 1 .. Len(Tail(backlog)) : Tail(backlog)[i] = backlog[i + 1]
                                              /\ i + 1 \in 1 .. Len(backlog)
    BY <1>1, <2>1, TailFacts
  <2>3. Len(Tail(backlog)) <= MaxQueued
    BY <2>1, <2>2, RadarConstants
  <2>4. PICK t : t = Tail(backlog)
    OBVIOUS
  <2>5. /\ t \in Seq(Segments) /\ DOMAIN t = 1 .. Len(backlog) - 1
        /\ \A i \in DOMAIN t : t[i] = backlog[i + 1] /\ i + 1 \in DOMAIN backlog
        /\ \A i \in DOMAIN backlog : i # 1 => i - 1 \in DOMAIN t /\ t[i - 1] = backlog[i]
    <3>1. DOMAIN t = 1 .. Len(backlog) - 1
      BY <2>1, <2>2, <2>4
    <3>2. \A i \in DOMAIN t : t[i] = backlog[i + 1] /\ i + 1 \in DOMAIN backlog
      BY <2>1, <2>2, <2>4, <3>1
    <3>3. ASSUME NEW i \in DOMAIN backlog, i # 1
          PROVE i - 1 \in DOMAIN t /\ t[i - 1] = backlog[i]
      <4>1. i - 1 \in DOMAIN t /\ (i - 1) + 1 = i
        BY <2>1, <3>1, <3>3
      <4> QED BY <3>2, <4>1
    <3> QED BY <2>2, <2>4, <3>1, <3>2, <3>3
  <2>6. ToSet(t) \cup {h} = ToSet(backlog)
    <3>1. \A x : x \in ToSet(t) <=> \E i \in DOMAIN t : t[i] = x
      BY DEF ToSet
    <3>2. \A x : x \in ToSet(backlog) <=> \E i \in DOMAIN backlog : backlog[i] = x
      BY DEF ToSet
    <3>3. 1 \in DOMAIN backlog /\ backlog[1] = h
      BY <2>1, <2>2
    <3>4. ASSUME NEW x PROVE x \in ToSet(t) \/ x = h <=> x \in ToSet(backlog)
      BY <2>5, <3>1, <3>2, <3>3
    <3> QED BY <3>4
  <2> QED BY <2>1, <2>2, <2>3, <2>4, <2>6
<1>3. /\ worker' \in Local /\ worker'.phase = "gathering" /\ Len(worker'.batch) <= BatchSize
      /\ ToSet(worker'.batch) = gathered \cup {h} /\ ~Processing
      /\ worker.phase \in {"waiting", "gathering"}
  <2>1. CASE TakeFirst
    <3>1. worker' = [worker EXCEPT !.phase = "gathering", !.batch = <<h>>]
          /\ worker.phase = "waiting"
      BY <2>1 DEF TakeFirst
    <3>2. <<h>> \in Seq(Segments) /\ Len(<<h>>) = 1 /\ ToSet(<<h>>) = {h} /\ 1 <= BatchSize
      BY <1>2, RadarConstants DEF ToSet
    <3>3. worker' \in Local /\ worker'.phase = "gathering" /\ worker'.batch = <<h>>
      BY <1>2, <3>1, <3>2 DEF Local
    <3> QED BY <3>1, <3>2, <3>3 DEF Processing
  <2>2. CASE TakeMore
    <3>1. worker' = [worker EXCEPT !.batch = Append(worker.batch, h)]
          /\ worker.phase = "gathering" /\ Len(worker.batch) < BatchSize
      BY <2>2 DEF TakeMore
    <3>2. worker.batch \in Seq(Segments) /\ Len(worker.batch) \in Nat
          /\ DOMAIN worker.batch = 1 .. Len(worker.batch)
      BY <1>2, WorkerIs
    <3>3. PICK r : r = Append(worker.batch, h)
      OBVIOUS
    <3>4. /\ r \in Seq(Segments) /\ Len(r) = Len(worker.batch) + 1
          /\ \A i \in DOMAIN worker.batch : r[i] = worker.batch[i]
          /\ r[Len(worker.batch) + 1] = h
      BY <1>2, <3>2, <3>3, AppendFacts
    <3>5. DOMAIN r = DOMAIN worker.batch \cup {Len(worker.batch) + 1}
      <4>1. PICK n, b : n = Len(b) /\ b = worker.batch
        OBVIOUS
      <4>2. DOMAIN r = 1 .. n + 1 /\ DOMAIN b = 1 .. n /\ n \in Nat
        BY <3>2, <3>4, <4>1
      <4> QED BY <4>1, <4>2
    <3>6. ToSet(r) = ToSet(worker.batch) \cup {h}
      <4>1. \A x : x \in ToSet(r) <=> \E i \in DOMAIN r : r[i] = x
        BY DEF ToSet
      <4>2. \A x : x \in ToSet(worker.batch) <=> \E i \in DOMAIN worker.batch : worker.batch[i] = x
        BY DEF ToSet
      <4>3. ASSUME NEW x PROVE x \in ToSet(r) <=> x \in ToSet(worker.batch) \/ x = h
        BY <3>4, <3>5, <4>1, <4>2
      <4> QED BY <4>3
    <3>7. Len(r) <= BatchSize
      BY <3>1, <3>2, <3>4, RadarConstants
    <3>8. worker' \in Local /\ worker'.phase = "gathering" /\ worker'.batch = r
      BY <1>2, <3>1, <3>3, <3>4 DEF Local
    <3> QED BY <3>1, <3>6, <3>7, <3>8 DEF Processing
  <2> QED BY <2>1, <2>2
<1>4. ~Processing'
  BY <1>3 DEF Processing
<1>5. RadarTypeOK'
  BY <1>1, <1>2, <1>3 DEF RadarInv, RadarTypeOK, selection, kept
<1>6. Selected' /\ Sound'
  BY <1>1, <1>4 DEF RadarInv, Selected, Sound, selection
<1>7. Recent'
  <2>1. ToSet(backlog') \cup ToSet(worker'.batch) \subseteq ToSet(finals')
    BY <1>1, <1>2, <1>3 DEF RadarInv, Recent
  <2> QED BY <1>1, <2>1 DEF RadarInv, Recent, Line, Precedes
<1>8. EvidenceIsFinal'
  BY <1>1, CitesKeep DEF kept
<1>9. ASSUME ~again
      PROVE /\ Line(backlog) /\ PendingIsQueued' /\ h \notin gathered
            /\ ToSet(Tail(backlog)) = ToSet(backlog) \ {h}
  <2>1. Line(backlog) /\ ToSet(backlog) \cap gathered = {}
        /\ (~closed => pending \subseteq ToSet(backlog) \cup gathered)
        /\ ToSet(backlog) \subseteq pending
    BY <1>2, <1>9 DEF RadarInv, PendingIsQueued, Line
  <2>2. Line(Tail(backlog)) /\ ToSet(Tail(backlog)) = ToSet(backlog) \ {h}
        /\ h \in ToSet(backlog)
    BY <1>1, <2>1, LineTail
  <2>3. PendingIsQueued'
    BY <1>1, <1>3, <2>1, <2>2 DEF PendingIsQueued, Line
  <2> QED BY <2>1, <2>2, <2>3
<1>10. ASSUME ~astray PROVE Straight' /\ ~again' /\ worker'.phase # "dead"
  <2>1. Straight /\ Line(backlog) /\ ToSet(Tail(backlog)) = ToSet(backlog) \ {h}
    BY <1>9, <1>10 DEF RadarInv
  <2>2. /\ Latest(ToSet(Tail(backlog)))
        /\ \A y \in ToSet(Tail(backlog)) : Precedes(h, y, finals)
        /\ \A x, y \in Segments : Precedes(x, y, Tail(backlog)) => Precedes(x, y, finals)
    BY <1>1, <2>1, HeadPrecedes
  <2>3. /\ Latest(ToSet(worker'.batch) \cup ToSet(Tail(backlog)))
        /\ \A x \in ToSet(worker'.batch), y \in ToSet(Tail(backlog)) : Precedes(x, y, finals)
    <3>1. ToSet(worker'.batch) \cup ToSet(Tail(backlog)) = gathered \cup ToSet(backlog)
      BY <1>2, <1>3
    <3>2. Latest(gathered \cup ToSet(backlog))
          /\ \A x \in gathered, y \in ToSet(backlog) : Precedes(x, y, finals)
      BY <2>1 DEF Straight
    <3> QED BY <1>3, <2>1, <2>2, <3>1, <3>2
  <2>4. finals' = finals /\ backlog' = Tail(backlog)
    BY <1>1
  <2>5. Latest(ToSet(backlog))'
    BY <2>2, <2>4 DEF Latest, Precedes
  <2>6. Latest(ToSet(worker.batch) \cup ToSet(backlog))'
    BY <2>3, <2>4 DEF Latest, Precedes
  <2>7. (\A x \in ToSet(worker.batch), y \in ToSet(backlog) : Precedes(x, y, finals))'
    BY <2>3, <2>4 DEF Precedes
  <2>8. (\A x, y \in Segments : Precedes(x, y, backlog) => Precedes(x, y, finals))'
    BY <2>2, <2>4 DEF Precedes
  <2>9. ~again'
    BY <1>1, <1>10 DEF RadarInv
  <2> QED BY <1>3, <1>4, <2>5, <2>6, <2>7, <2>8, <2>9 DEF Straight
<1>11. again' = again /\ astray' = astray
  BY <1>1
<1> QED BY <1>5, <1>6, <1>7, <1>8, <1>9, <1>10, <1>11 DEF RadarInv

-----------------------------------------------------------------------------
(* The selection *)

LEMMA ConfigureKeeps ==
    ASSUME RadarInv, Configure
    PROVE RadarInv'
<1>1. /\ asked # Nobody /\ asked' = Nobody
      /\ provider' = [name |-> asked, instance |-> provider.instance + 1]
      /\ unclosed' = (unclosed \ {provider.instance}) \cup {provider'.instance}
      /\ UNCHANGED <<buffered, finals, again, kept, worker, closed>>
      /\ \/ backlog' = <<>> /\ pending' = {} /\ astray' = TRUE
         \/ UNCHANGED <<backlog, pending, astray>>
  BY DEF Configure, Drained, CloseProvider
<1>2. /\ unclosed \subseteq {provider.instance} /\ provider.instance < MaxSwitches
      /\ provider.instance \in 0 .. MaxSwitches /\ MaxSwitches \in Nat /\ asked \in Providers
  BY <1>1, RadarConstants DEF RadarInv, RadarTypeOK, Selected
<1>3. /\ provider' \in [name : Providers, instance : 0 .. MaxSwitches]
      /\ provider'.instance = provider.instance + 1 /\ unclosed' = {provider'.instance}
      /\ provider'.instance \in 0 .. MaxSwitches
  BY <1>1, <1>2
<1>4. /\ backlog' \in Seq(Segments) /\ Len(backlog') <= MaxQueued /\ pending' \subseteq Segments
      /\ astray' \in BOOLEAN /\ ToSet(backlog') \subseteq ToSet(backlog)
  <2>1. CASE UNCHANGED <<backlog, pending, astray>>
    BY <2>1 DEF RadarInv, RadarTypeOK
  <2>2. CASE backlog' = <<>> /\ pending' = {} /\ astray' = TRUE
    <3>1. <<>> \in Seq(Segments) /\ Len(<<>>) = 0 /\ ToSet(<<>>) = {} /\ 0 <= MaxQueued
      BY RadarConstants DEF ToSet
    <3> QED BY <2>2, <3>1
  <2> QED BY <1>1, <2>1, <2>2
<1>5. RadarTypeOK'
  BY <1>1, <1>3, <1>4 DEF RadarInv, RadarTypeOK, kept
<1>6. Selected'
  <2>1. worker'.instance \in Nat /\ worker' = worker
    BY <1>1, WorkerIs DEF RadarInv, RadarTypeOK
  <2> QED BY <1>1, <1>2, <1>3, <2>1 DEF RadarInv, Selected, Processing
<1>7. Sound'
  BY <1>1 DEF RadarInv, Sound, Processing, Session
<1>8. Recent'
  BY <1>1, <1>4 DEF RadarInv, Recent, Line, Precedes
<1>9. EvidenceIsFinal'
  BY <1>1, CitesKeep DEF kept
<1>10. ~again' => PendingIsQueued'
  <2>1. CASE UNCHANGED <<backlog, pending, astray>>
    BY <1>1, <2>1 DEF RadarInv, PendingIsQueued
  <2>2. CASE backlog' = <<>> /\ pending' = {} /\ astray' = TRUE
    BY <2>2, NoSegments DEF PendingIsQueued, Line
  <2> QED BY <1>1, <2>1, <2>2
<1>11. ~astray' => Straight' /\ ~again' /\ worker'.phase # "dead"
  <2> SUFFICES ASSUME ~astray' PROVE Straight' /\ ~again' /\ worker'.phase # "dead"
    OBVIOUS
  <2>1. UNCHANGED <<backlog, astray, again, finals, worker>>
    BY <1>1
  <2> QED BY <2>1 DEF RadarInv, Straight, Latest, Convex, Precedes, Processing
<1> QED BY <1>5, <1>6, <1>7, <1>8, <1>9, <1>10, <1>11 DEF RadarInv

LEMMA ShutdownKeeps ==
    ASSUME RadarInv, Shutdown
    PROVE RadarInv'
<1>1. /\ closed' = TRUE /\ asked' = Nobody /\ unclosed' \subseteq unclosed
      /\ worker' = IF worker.phase = "dead" THEN worker
                   ELSE [NoBatch EXCEPT !.phase = "stopped"]
      /\ UNCHANGED <<provider, backlog, pending, buffered, finals, astray, again, state, made>>
  BY DEF Shutdown, CloseProvider, feed, kept
<1>2. /\ worker' \in Local /\ Len(worker'.batch) <= BatchSize
      /\ worker'.phase \in {"dead", "stopped"}
      /\ worker'.phase = "dead" => worker.phase = "dead"
      /\ ToSet(worker'.batch) \subseteq ToSet(worker.batch)
  BY <1>1, NoBatchIs, RadarConstants DEF RadarInv, RadarTypeOK
<1>3. ~Processing' /\ worker'.phase # "gathering"
  BY <1>2 DEF Processing
<1>4. RadarTypeOK'
  BY <1>1, <1>2 DEF RadarInv, RadarTypeOK
<1>5. Selected' /\ Sound'
  BY <1>1, <1>3 DEF RadarInv, Selected, Sound
<1>6. Recent'
  BY <1>1, <1>2 DEF RadarInv, Recent, Line, Precedes
<1>7. EvidenceIsFinal'
  BY <1>1, CitesKeep
<1>8. ~again' => PendingIsQueued'
  BY <1>1, <1>3 DEF RadarInv, PendingIsQueued
<1>9. ~astray' => Straight' /\ ~again' /\ worker'.phase # "dead"
  BY <1>1, <1>2, <1>3 DEF RadarInv, Straight, Latest, Precedes
<1> QED BY <1>4, <1>5, <1>6, <1>7, <1>8, <1>9 DEF RadarInv

-----------------------------------------------------------------------------
(* A final caption is submitted *)

\* It becomes the last of a line, whether it was in it or not.
LEMMA MovedIs ==
    ASSUME NEW q, Line(q), NEW k \in Segments
    PROVE LET r == Append(Without(k, q), k)
          IN  /\ Line(r) /\ ToSet(r) = ToSet(q) \cup {k} /\ Len(r) <= Len(q) + 1
              /\ \A x, y : Precedes(x, y, r) <=>
                     \/ Precedes(x, y, q) /\ x # k /\ y # k
                     \/ x \in ToSet(q) /\ x # k /\ y = k
<1> DEFINE r == Append(Without(k, q), k)
<1>1. PICK p : p = Without(k, q)
  OBVIOUS
<1>2. /\ Line(p) /\ ToSet(p) = ToSet(q) \ {k} /\ Len(p) <= Len(q)
      /\ \A x, y : Precedes(x, y, p) <=> Precedes(x, y, q) /\ x # k /\ y # k
  BY <1>1, LineWithout
<1>3. r = Append(p, k)
  BY <1>1
<1> HIDE DEF r
<1>4. /\ Line(r) /\ ToSet(r) = ToSet(p) \cup {k}
      /\ \A x, y : Precedes(x, y, r) <=> Precedes(x, y, p) \/ (x \in ToSet(p) /\ y = k)
  BY <1>2, <1>3, LineGrows
<1>5. Len(r) <= Len(q) + 1
  <2>1. p \in Seq(Segments) /\ q \in Seq(Segments)
    BY <1>2 DEF Line
  <2>2. Len(r) = Len(p) + 1 /\ Len(p) \in Nat /\ Len(q) \in Nat
    BY <1>3, <2>1, AppendFacts
  <2> QED BY <1>2, <2>2
<1> USE DEF r
<1> QED BY <1>2, <1>4, <1>5

\* The finals and the buffer of the session of k have it last; the buffer
\* keeps to its limit and has the last finals of its session.
LEMMA BufferedIs ==
    ASSUME RadarInv, NEW k \in Segments, Submit(k)
    PROVE /\ Line(finals') /\ ToSet(finals') = ToSet(finals) \cup {k}
          /\ \A x, y : Precedes(x, y, finals') <=>
                 \/ Precedes(x, y, finals) /\ x # k /\ y # k
                 \/ x \in ToSet(finals) /\ x # k /\ y = k
          /\ buffered' \in [Sessions -> Seq(Segments)]
          /\ \A s \in Sessions :
                 /\ ToSet(buffered'[s]) \subseteq {x \in ToSet(finals') : SessionOf[x] = s}
                 /\ Len(buffered'[s]) <= BufferLimit /\ Line(buffered'[s])
                 /\ \A x, y \in Segments :
                        Precedes(x, y, buffered'[s]) => Precedes(x, y, finals')
                 /\ \A x \in ToSet(buffered'[s]), y \in Segments :
                        Precedes(x, y, finals') /\ SessionOf[y] = s => y \in ToSet(buffered'[s])
<1> DEFINE s == SessionOf[k]
           q == buffered[s]
<1>1. buffered' = Buffered(k) /\ finals' = Append(Without(k, finals), k)
  BY DEF Submit
<1>2. /\ s \in Sessions /\ buffered \in [Sessions -> Seq(Segments)]
      /\ BufferLimit \in Nat \ {0} /\ Line(finals)
  BY RadarConstants DEF RadarInv, RadarTypeOK, Recent
<1>3. \A r \in Sessions :
          /\ ToSet(buffered[r]) \subseteq {x \in ToSet(finals) : SessionOf[x] = r}
          /\ Len(buffered[r]) <= BufferLimit /\ Line(buffered[r])
          /\ \A x, y \in Segments : Precedes(x, y, buffered[r]) => Precedes(x, y, finals)
          /\ \A x \in ToSet(buffered[r]), y \in Segments :
                 Precedes(x, y, finals) /\ SessionOf[y] = r => y \in ToSet(buffered[r])
  BY DEF RadarInv, RadarTypeOK, Recent
<1>4. PICK f : f = finals'
  OBVIOUS
<1>5. /\ Line(f) /\ ToSet(f) = ToSet(finals) \cup {k}
      /\ \A x, y : Precedes(x, y, f) <=>
             \/ Precedes(x, y, finals) /\ x # k /\ y # k
             \/ x \in ToSet(finals) /\ x # k /\ y = k
  <2>1. f = Append(Without(k, finals), k) /\ Line(finals)
    BY <1>1, <1>2, <1>4
  <2> QED BY <2>1, MovedIs
<1>6. PICK order : order = Append(Without(k, q), k)
  OBVIOUS
<1>7. /\ Line(order) /\ ToSet(order) = ToSet(q) \cup {k} /\ Len(order) <= Len(q) + 1
      /\ \A x, y : Precedes(x, y, order) <=>
             \/ Precedes(x, y, q) /\ x # k /\ y # k
             \/ x \in ToSet(q) /\ x # k /\ y = k
  <2>1. PICK p : p = q
    OBVIOUS
  <2>2. order = Append(Without(k, p), k) /\ Line(p)
    BY <1>2, <1>3, <1>6, <2>1
  <2>3. /\ Line(order) /\ ToSet(order) = ToSet(p) \cup {k} /\ Len(order) <= Len(p) + 1
        /\ \A x, y : Precedes(x, y, order) <=>
               \/ Precedes(x, y, p) /\ x # k /\ y # k
               \/ x \in ToSet(p) /\ x # k /\ y = k
    BY <2>2, MovedIs
  <2> QED BY <2>1, <2>3
<1>8. PICK b : b = IF Len(order) > BufferLimit THEN Tail(order) ELSE order
  OBVIOUS
<1>9. buffered' = [buffered EXCEPT ![s] = b]
  BY <1>1, <1>6, <1>8 DEF Buffered
<1>10. /\ ToSet(order) \subseteq {x \in ToSet(f) : SessionOf[x] = s}
       /\ \A x, y \in Segments : Precedes(x, y, order) => Precedes(x, y, f)
       /\ \A x \in ToSet(order), y \in Segments :
              Precedes(x, y, f) /\ SessionOf[y] = s => y \in ToSet(order)
  <2>1. ToSet(q) \subseteq ToSet(finals) /\ \A x \in ToSet(q) : SessionOf[x] = s
    BY <1>2, <1>3
  <2>2. \A x, y \in Segments : Precedes(x, y, q) => Precedes(x, y, finals)
    BY <1>2, <1>3
  <2>3. \A x \in ToSet(q), y \in Segments :
            Precedes(x, y, finals) /\ SessionOf[y] = s => y \in ToSet(q)
    BY <1>2, <1>3
  <2>4. \A x, y \in Segments : Precedes(x, y, order) => Precedes(x, y, f)
    BY <1>5, <1>7, <2>1, <2>2
  <2>5. ASSUME NEW x \in ToSet(order), NEW y \in Segments, Precedes(x, y, f), SessionOf[y] = s
        PROVE y \in ToSet(order)
    <3>1. CASE y = k
      BY <1>7, <3>1
    <3>2. CASE y # k
      BY <1>5, <1>7, <2>3, <2>5, <3>2
    <3> QED BY <3>1, <3>2
  <2> QED BY <1>5, <1>7, <2>1, <2>4, <2>5
<1>11. /\ b \in Seq(Segments) /\ Len(b) <= BufferLimit /\ Line(b)
       /\ ToSet(b) \subseteq ToSet(order)
       /\ \A x, y : Precedes(x, y, b) => Precedes(x, y, order)
       /\ \A x \in ToSet(b), y \in ToSet(order) : Precedes(x, y, f) => y \in ToSet(b)
  <2>1. order \in Seq(Segments) /\ Len(order) \in Nat /\ Len(q) \in Nat /\ Len(q) <= BufferLimit
    BY <1>2, <1>3, <1>7 DEF Line
  <2>2. CASE Len(order) > BufferLimit
    <3>1. order # <<>> /\ b = Tail(order)
      BY <1>2, <1>8, <2>1, <2>2
    <3>2. /\ Line(b) /\ ToSet(b) = ToSet(order) \ {Head(order)}
          /\ Head(order) \in ToSet(order) /\ Head(order) \in Segments
          /\ \A x, y : Precedes(x, y, b) <=> Precedes(x, y, order) /\ x # Head(order)
          /\ \A x \in ToSet(order) : x # Head(order) => Precedes(Head(order), x, order)
      BY <1>7, <3>1, LineTail
    <3>3. Len(b) = Len(order) - 1 /\ b \in Seq(Segments)
      BY <2>1, <3>1, TailFacts
    <3>4. Len(b) <= BufferLimit
      BY <1>2, <1>7, <2>1, <3>3
    <3>5. ASSUME NEW x \in ToSet(b), NEW y \in ToSet(order), Precedes(x, y, f)
          PROVE y \in ToSet(b)
      <4>1. x \in Segments /\ Precedes(Head(order), x, order)
        BY <1>7, <3>2, <3>5, LineIs
      <4>2. Precedes(Head(order), x, f)
        BY <1>10, <3>2, <4>1
      <4>3. y # Head(order)
        BY <1>5, <3>5, <4>2, PrecedesIs
      <4> QED BY <3>2, <4>3
    <3> QED BY <3>2, <3>3, <3>4, <3>5
  <2>3. CASE ~(Len(order) > BufferLimit)
    <3>1. b = order
      BY <1>8, <2>3
    <3> QED BY <1>2, <1>7, <2>1, <2>3, <3>1
  <2> QED BY <2>2, <2>3
<1>12. ASSUME NEW r \in Sessions
       PROVE /\ ToSet(buffered'[r]) \subseteq {x \in ToSet(f) : SessionOf[x] = r}
             /\ Len(buffered'[r]) <= BufferLimit /\ Line(buffered'[r])
             /\ \A x, y \in Segments : Precedes(x, y, buffered'[r]) => Precedes(x, y, f)
             /\ \A x \in ToSet(buffered'[r]), y \in Segments :
                    Precedes(x, y, f) /\ SessionOf[y] = r => y \in ToSet(buffered'[r])
  <2>1. CASE r = s
    <3>1. buffered'[r] = b
      BY <1>2, <1>9, <2>1
    <3> QED BY <1>10, <1>11, <2>1, <3>1
  <2>2. CASE r # s
    <3>1. buffered'[r] = buffered[r]
      BY <1>2, <1>9, <2>2
    <3>2. k \notin ToSet(buffered[r])
      BY <1>3, <2>2
    <3>3. ASSUME NEW x \in Segments, NEW y \in Segments, Precedes(x, y, buffered[r])
          PROVE Precedes(x, y, f)
      <4>1. x \in ToSet(buffered[r]) /\ y \in ToSet(buffered[r])
        BY <1>3, <3>3, PrecedesIs
      <4>2. Precedes(x, y, finals)
        BY <1>3, <3>3
      <4> QED BY <1>5, <3>2, <4>1, <4>2
    <3>4. ASSUME NEW x \in ToSet(buffered[r]), NEW y \in Segments,
                 Precedes(x, y, f), SessionOf[y] = r
          PROVE y \in ToSet(buffered[r])
      <4>1. y # k
        BY <2>2, <3>4
      <4>2. Precedes(x, y, finals)
        BY <1>5, <3>4, <4>1
      <4> QED BY <1>3, <3>4, <4>2
    <3>5. ToSet(buffered[r]) \subseteq {x \in ToSet(f) : SessionOf[x] = r}
      BY <1>3, <1>5
    <3> QED BY <1>3, <3>1, <3>3, <3>4, <3>5
  <2> QED BY <2>1, <2>2
<1>13. buffered' \in [Sessions -> Seq(Segments)]
  BY <1>2, <1>9, <1>11
<1> QED BY <1>4, <1>5, <1>12, <1>13

LEMMA SubmitKeeps ==
    ASSUME RadarInv, NEW k \in Segments, Submit(k)
    PROVE RadarInv'
<1> DEFINE batch == ToSet(worker.batch)
           gathered == IF worker.phase = "gathering" THEN batch ELSE {}
<1>1. /\ Line(finals') /\ ToSet(finals') = ToSet(finals) \cup {k}
      /\ \A x, y : Precedes(x, y, finals') <=>
             \/ Precedes(x, y, finals) /\ x # k /\ y # k
             \/ x \in ToSet(finals) /\ x # k /\ y = k
  BY BufferedIs
<1>2. /\ buffered' \in [Sessions -> Seq(Segments)]
      /\ \A s \in Sessions :
             /\ ToSet(buffered'[s]) \subseteq {x \in ToSet(finals') : SessionOf[x] = s}
             /\ Len(buffered'[s]) <= BufferLimit /\ Line(buffered'[s])
             /\ \A x, y \in Segments :
                    Precedes(x, y, buffered'[s]) => Precedes(x, y, finals')
             /\ \A x \in ToSet(buffered'[s]), y \in Segments :
                    Precedes(x, y, finals') /\ SessionOf[y] = s => y \in ToSet(buffered'[s])
  BY BufferedIs
<1>3. /\ ~closed /\ UNCHANGED <<provider, unclosed, asked, worker, state, made, closed>>
      /\ again' = (again \/ (worker.phase = "gathering" /\ k \in batch \ pending))
      /\ astray' = (astray \/ Refused(k) \/ k \in batch)
      /\ \/ Refused(k) /\ UNCHANGED <<backlog, pending>>
         \/ ~Refused(k) /\ backlog' = Append(backlog, k) /\ pending' = pending \cup {k}
  BY DEF Submit, selection, kept
<1>4. /\ backlog' \in Seq(Segments) /\ Len(backlog') <= MaxQueued
      /\ ToSet(backlog') \subseteq ToSet(backlog) \cup {k}
      /\ pending' \subseteq Segments /\ astray' \in BOOLEAN /\ again' \in BOOLEAN
  <2>1. /\ backlog \in Seq(Segments) /\ Len(backlog) <= MaxQueued /\ pending \subseteq Segments
        /\ astray \in BOOLEAN /\ again \in BOOLEAN /\ Len(backlog) \in Nat /\ MaxQueued \in Nat
        /\ DOMAIN backlog = 1 .. Len(backlog)
    BY RadarConstants DEF RadarInv, RadarTypeOK
  <2>0. pending' \subseteq Segments /\ astray' \in BOOLEAN /\ again' \in BOOLEAN
    BY <1>3, <2>1
  <2>2. CASE ~Refused(k)
    <3>0. backlog' = Append(backlog, k) /\ Len(backlog) < MaxQueued
      BY <1>3, <2>1, <2>2 DEF Refused
    <3>1. /\ backlog' \in Seq(Segments) /\ Len(backlog') = Len(backlog) + 1
          /\ \A i \in 1 .. Len(backlog) : backlog'[i] = backlog[i]
          /\ backlog'[Len(backlog) + 1] = k
      BY <2>1, <3>0, AppendFacts
    <3>2. DOMAIN backlog' = 1 .. Len(backlog) + 1
      BY <3>1
    <3>3. ASSUME NEW i \in DOMAIN backlog' PROVE backlog'[i] \in ToSet(backlog) \cup {k}
      <4>1. CASE i \in DOMAIN backlog
        BY <2>1, <3>1, <4>1 DEF ToSet
      <4>2. CASE i = Len(backlog) + 1
        BY <3>1, <4>2
      <4> QED BY <2>1, <3>2, <3>3, <4>1, <4>2
    <3>4. ToSet(backlog') \subseteq ToSet(backlog) \cup {k}
      <4>1. \A x \in ToSet(backlog') : \E i \in DOMAIN backlog' : backlog'[i] = x
        BY DEF ToSet
      <4> QED BY <3>3, <4>1
    <3>5. Len(backlog') <= MaxQueued
      BY <2>1, <3>0, <3>1
    <3> QED BY <2>0, <3>1, <3>4, <3>5
  <2>3. CASE UNCHANGED <<backlog, pending>>
    BY <1>3, <2>1, <2>3
  <2> QED BY <1>3, <2>2, <2>3
<1>5. RadarTypeOK'
  <2>1. finals' \in Seq(Segments)
    BY <1>1 DEF Line
  <2> QED BY <1>2, <1>3, <1>4, <2>1 DEF RadarInv, RadarTypeOK
<1>6. Selected' /\ Sound'
  BY <1>1, <1>3 DEF RadarInv, Selected, Sound, Processing, Session
<1>7. Recent'
  <2>1. ToSet(backlog') \cup ToSet(worker'.batch) \subseteq ToSet(finals')
    BY <1>1, <1>3, <1>4 DEF RadarInv, Recent
  <2> QED BY <1>1, <1>2, <2>1 DEF Recent
<1>8. EvidenceIsFinal'
  BY <1>1, <1>3, CitesKeep
<1>9. ASSUME ~again'
      PROVE PendingIsQueued' /\ Line(backlog) /\ ToSet(backlog) \subseteq pending
  <2>1. ~again /\ ~(worker.phase = "gathering" /\ k \in batch \ pending)
    BY <1>3, <1>9, Zenon
  <2>2. /\ ToSet(backlog) \subseteq pending /\ Line(backlog)
        /\ ToSet(backlog) \cap gathered = {} /\ pending \subseteq ToSet(backlog) \cup gathered
    BY <1>3, <2>1 DEF RadarInv, RadarTypeOK, PendingIsQueued, Line
  <2>3. CASE Refused(k)
    BY <1>3, <2>2, <2>3 DEF PendingIsQueued, Line
  <2>4. CASE ~Refused(k)
    <3>1. /\ k \notin pending /\ k \notin ToSet(backlog) /\ k \notin gathered
          /\ backlog' = Append(backlog, k) /\ pending' = pending \cup {k}
      BY <1>3, <2>1, <2>2, <2>4 DEF Refused
    <3>2. Line(backlog') /\ ToSet(backlog') = ToSet(backlog) \cup {k}
      BY <2>2, <3>1, LineGrows
    <3> QED BY <1>3, <2>2, <3>1, <3>2 DEF PendingIsQueued, Line
  <2> QED BY <2>2, <2>3, <2>4
<1>10. ASSUME ~astray' PROVE Straight' /\ ~again' /\ worker'.phase # "dead"
  <2>1. ~astray /\ ~Refused(k) /\ k \notin batch /\ backlog' = Append(backlog, k)
    BY <1>3, <1>10, Zenon
  <2>2. ~again /\ ~again'
    <3>1. ~again
      BY <2>1 DEF RadarInv
    <3> QED BY <1>3, <2>1, <3>1
  <2>3. k \notin batch /\ k \notin ToSet(backlog) /\ Line(backlog)
    BY <1>9, <2>1, <2>2 DEF Refused
  <2>4. /\ ToSet(backlog') = ToSet(backlog) \cup {k}
        /\ \A x, y : Precedes(x, y, backlog') <=>
               Precedes(x, y, backlog) \/ (x \in ToSet(backlog) /\ y = k)
    BY <2>1, <2>3, LineGrows
  <2>5. /\ Straight /\ worker.phase # "dead" /\ worker' = worker
        /\ ToSet(backlog) \subseteq ToSet(finals) /\ batch \subseteq ToSet(finals)
    BY <1>3, <2>1 DEF RadarInv, Recent
  <2>6. ASSUME NEW S, Latest(S), k \notin S, NEW x \in S \cup {k}, NEW y \in Segments,
               Precedes(x, y, finals')
        PROVE y \in S \cup {k}
    BY <1>1, <2>6 DEF Latest
  <2>7. Latest(ToSet(backlog))'
    <3>1. PICK S : S = ToSet(backlog)
      OBVIOUS
    <3>2. Latest(S) /\ k \notin S /\ ToSet(backlog') = S \cup {k}
      BY <2>3, <2>4, <2>5, <3>1 DEF Straight
    <3>3. \A x \in S \cup {k}, y \in Segments : Precedes(x, y, finals') => y \in S \cup {k}
      BY <2>6, <3>2
    <3> QED BY <3>2, <3>3 DEF Latest
  <2>8. ASSUME NEW x \in Segments, NEW y \in Segments, Precedes(x, y, backlog')
        PROVE Precedes(x, y, finals')
    <3>1. CASE Precedes(x, y, backlog)
      <4>1. x # k /\ y # k
        BY <2>3, <3>1, PrecedesIs
      <4> QED BY <1>1, <2>5, <3>1, <4>1 DEF Straight
    <3>2. CASE x \in ToSet(backlog) /\ y = k
      BY <1>1, <2>3, <2>5, <3>2
    <3> QED BY <2>4, <2>8, <3>1, <3>2
  <2>9. ASSUME worker.phase = "gathering"
        PROVE /\ Latest(ToSet(worker.batch) \cup ToSet(backlog))'
              /\ \A x \in batch, y \in ToSet(backlog') : Precedes(x, y, finals')
    <3>1. Latest(batch \cup ToSet(backlog))
          /\ \A x \in batch, y \in ToSet(backlog) : Precedes(x, y, finals)
      BY <2>5, <2>9 DEF Straight
    <3>2. PICK S : S = batch \cup ToSet(backlog)
      OBVIOUS
    <3>3. Latest(ToSet(worker.batch) \cup ToSet(backlog))'
      <4>1. Latest(S) /\ k \notin S
            /\ (ToSet(worker.batch) \cup ToSet(backlog))' = S \cup {k}
        BY <2>3, <2>4, <2>5, <3>1, <3>2
      <4>2. \A x \in S \cup {k}, y \in Segments : Precedes(x, y, finals') => y \in S \cup {k}
        BY <2>6, <4>1
      <4> QED BY <4>1, <4>2 DEF Latest
    <3>4. ASSUME NEW x \in batch, NEW y \in ToSet(backlog') PROVE Precedes(x, y, finals')
      BY <1>1, <2>3, <2>4, <2>5, <3>1, <3>4
    <3> QED BY <3>3, <3>4
  <2>10. ASSUME Processing PROVE Convex(ToSet(worker.batch))'
    <3>1. ASSUME NEW x \in batch, NEW z \in batch, NEW y \in Segments,
                 Precedes(x, y, finals'), Precedes(y, z, finals')
          PROVE y \in batch
      <4>1. Precedes(x, y, finals) /\ Precedes(y, z, finals)
        BY <1>1, <2>3, <3>1
      <4> QED BY <2>5, <2>10, <4>1 DEF Straight, Convex
    <3> QED BY <2>5, <3>1 DEF Convex
  <2>11. Processing' => Processing
    BY <2>5 DEF Processing
  <2> QED BY <2>2, <2>5, <2>7, <2>8, <2>9, <2>10, <2>11 DEF Straight
<1> QED BY <1>5, <1>6, <1>7, <1>8, <1>9, <1>10 DEF RadarInv

-----------------------------------------------------------------------------
(* The theorems of the Decision Radar *)

LEMMA RadarStepKeeps ==
    ASSUME RadarInv, RadarNext
    PROVE RadarInv'
<1>1. CASE \E k \in Segments : Submit(k)
  BY <1>1, SubmitKeeps
<1>2. CASE Run
  <2>1. CASE TakeFirst \/ TakeMore
    BY <2>1, TakeKeeps
  <2>2. CASE Send \/ Refuse \/ Fail
    BY <2>2, CallKeeps
  <2> QED BY <1>2, <2>1, <2>2, CloseBatchKeeps, SettleKeeps DEF Run
<1>3. CASE \E suggestions \in Suggestions, ids \in SUBSET worker.retractable :
               Answer(suggestions, ids)
  BY <1>3, AnswerKeeps
<1>4. CASE \E s \in Sessions : \E i \in DOMAIN state[s].items : Review(s, i)
  BY <1>4, ReviewKeeps
<1>5. CASE (\E p \in Providers : Ask(p)) \/ Unavailable
  BY <1>5, AskKeeps
<1>6. CASE Configure
  BY <1>6, ConfigureKeeps
<1>7. CASE Shutdown
  BY <1>7, ShutdownKeeps
<1> QED BY <1>1, <1>2, <1>3, <1>4, <1>5, <1>6, <1>7 DEF RadarNext

LEMMA RadarStutterKeeps ==
    ASSUME RadarInv, UNCHANGED radarVars
    PROVE RadarInv'
<1>1. /\ UNCHANGED <<provider, unclosed, asked, backlog, pending, buffered, finals, astray,
                     again, state, made, worker, closed>>
      /\ UNCHANGED <<feed, kept>>
  BY DEF radarVars, selection, feed, kept
<1>2. RadarTypeOK'
  BY <1>1 DEF RadarInv, RadarTypeOK
<1>3. Selected' /\ Sound'
  BY <1>1 DEF RadarInv, Selected, Sound, Processing, Session
<1>4. EvidenceIsFinal'
  BY <1>1, CitesKeep
<1>5. Processing' => Processing
  BY <1>1 DEF Processing
<1> QED BY <1>1, <1>2, <1>3, <1>4, <1>5, FeedKeeps DEF RadarInv

\* The inductive invariant of the radar: each buffer has the last finals of its
\* session in their order; while every final is queued as it is buffered and
\* none comes again before its batch is over, a batch is a stretch of the finals
\* without gaps and the queue the stretch after it (submit_final, _run,
\* _process_batch, _merge_result, configure, shutdown).
THEOREM RadarInvariance == RadarSpec => []RadarInv
<1>1. RadarInit => RadarInv
  BY RadarInitHolds
<1>2. RadarInv /\ [RadarNext]_radarVars => RadarInv'
  BY RadarStepKeeps, RadarStutterKeeps
<1> QED BY <1>1, <1>2, PTL DEF RadarSpec

\* The worker outlives whatever the providers, the settings and the user do, and
\* what the queue remembers is looked at once, for every size of the batch, the
\* context, the buffer and the queue (_run).
THEOREM WorkerGoesOnAlways == RadarSpec => []WorkerGoesOn
<1>1. RadarInv => WorkerGoesOn
  BY DEF RadarInv, WorkerGoesOn, SurvivesProviders
<1> QED BY <1>1, RadarInvariance, PTL

\* Whatever a model answers, an item cites finals of its own session
\* (_result_from_payload, _merge_result).
THEOREM EvidenceIsFinalAlways == RadarSpec => []EvidenceIsFinal
<1>1. RadarInv => EvidenceIsFinal
  BY DEF RadarInv
<1> QED BY <1>1, RadarInvariance, PTL

\* The items change by a review or an answer.
LEMMA ItemsChange ==
    ASSUME RadarInv, [RadarNext]_radarVars
    PROVE \/ state' = state
          \/ \E s \in Sessions : \E i \in DOMAIN state[s].items : Review(s, i)
          \/ \E suggestions \in Suggestions, ids \in SUBSET worker.retractable :
                 Answer(suggestions, ids)
<1>1. ASSUME \E k \in Segments : Submit(k) PROVE state' = state
  BY <1>1 DEF Submit, kept
<1>2. ASSUME Run PROVE state' = state
  BY <1>2 DEF Run, TakeFirst, TakeMore, CloseBatch, Send, Refuse, Fail, Failed, Settle, kept
<1>3. ASSUME (\E p \in Providers : Ask(p)) \/ Unavailable \/ Configure \/ Shutdown
      PROVE state' = state
  BY <1>3 DEF Ask, Unavailable, Configure, Shutdown, kept
<1>4. ASSUME UNCHANGED radarVars PROVE state' = state
  BY <1>4 DEF radarVars, kept
<1> QED BY <1>1, <1>2, <1>3, <1>4 DEF RadarNext

LEMMA ReviewedStays ==
    ASSUME RadarInv, [RadarNext]_radarVars, NEW s \in Sessions, NEW i \in DOMAIN state[s].items,
           state[s].items[i].active, state[s].items[i].approved \/ state[s].items[i].edited,
           ~Review(s, i)
    PROVE LET x == state[s].items[i]
              y == state'[s].items[i]
          IN  /\ i \in DOMAIN state'[s].items
              /\ Extends(y, x)
<1>1. state[s].items[i] \in Item
  BY ItemsIs DEF RadarInv, RadarTypeOK
<1>2. Extends(state[s].items[i], state[s].items[i])
  BY <1>1, ExtendsSelf
<1>3. CASE state' = state
  BY <1>2, <1>3
<1>4. CASE \E r \in Sessions : \E j \in DOMAIN state[r].items : Review(r, j)
  <2>1. PICK r \in Sessions : \E j \in DOMAIN state[r].items : Review(r, j)
    BY <1>4
  <2>2. PICK j \in DOMAIN state[r].items : Review(r, j)
    BY <2>1
  <2>3. CASE r # s
    <3>1. state'[s] = state[s]
      BY <2>2, <2>3, ReviewIs
    <3> QED BY <1>2, <3>1
  <2>4. CASE r = s
    <3>1. i # j
      BY <2>2, <2>4
    <3>2. i \in DOMAIN state'[s].items /\ state'[s].items[i] = state[s].items[i]
      BY <2>2, <2>4, <3>1, ReviewIs
    <3> QED BY <1>2, <3>2
  <2> QED BY <2>3, <2>4
<1>5. CASE \E suggestions \in Suggestions, ids \in SUBSET worker.retractable :
               Answer(suggestions, ids)
  <2>1. PICK suggestions \in Suggestions, ids \in SUBSET worker.retractable :
                 Answer(suggestions, ids)
    BY <1>5
  <2>2. CASE s = Session
    BY <2>1, <2>2, AnswerIs
  <2>3. CASE s # Session
    <3>1. state'[s] = state[s]
      BY <2>1, <2>3, AnswerIs
    <3> QED BY <1>2, <3>1
  <2> QED BY <2>2, <2>3
<1> QED BY <1>3, <1>4, <1>5, ItemsChange

LEMMA DeletedStays ==
    ASSUME RadarInv, [RadarNext]_radarVars, NEW s \in Sessions, NEW i \in DOMAIN state'[s].items,
           state'[s].items[i].text \in state[s].tombstones
    PROVE i \in DOMAIN state[s].items
<1>1. CASE state' = state
  BY <1>1
<1>2. CASE \E r \in Sessions : \E j \in DOMAIN state[r].items : Review(r, j)
  <2>1. PICK r \in Sessions : \E j \in DOMAIN state[r].items : Review(r, j)
    BY <1>2
  <2>2. state'[s] = state[s] \/ DOMAIN state'[s].items \subseteq DOMAIN state[s].items
    <3>1. PICK j \in DOMAIN state[r].items : Review(r, j)
      BY <2>1
    <3> QED BY <3>1, ReviewIs
  <2> QED BY <2>2
<1>3. CASE \E suggestions \in Suggestions, ids \in SUBSET worker.retractable :
               Answer(suggestions, ids)
  <2>1. PICK suggestions \in Suggestions, ids \in SUBSET worker.retractable :
                 Answer(suggestions, ids)
    BY <1>3
  <2>2. CASE s = Session
    BY <2>1, <2>2, AnswerIs
  <2>3. CASE s # Session
    <3>1. state'[s] = state[s]
      BY <2>1, <2>3, AnswerIs
    <3> QED BY <3>1
  <2> QED BY <2>2, <2>3
<1> QED BY <1>1, <1>2, <1>3, ItemsChange

\* What the user decided stands, whatever answer comes and however late: of what
\* was approved or edited no answer changes a text, a review, or an assignee or a
\* due date that is there, and what was deleted does not come back (_merge_result,
\* update_item, delete_item).
THEOREM DecisionsStandAlways == RadarSpec => DecisionsStand
<1> DEFINE Kept == \A s \in Sessions : \A i \in DOMAIN state[s].items :
                       LET x == state[s].items[i]
                           y == state'[s].items[i]
                       IN  x.active /\ (x.approved \/ x.edited) /\ ~Review(s, i) =>
                               i \in DOMAIN state'[s].items /\ Extends(y, x)
           Gone == \A s \in Sessions : \A i \in DOMAIN state'[s].items :
                       state'[s].items[i].text \in state[s].tombstones =>
                           i \in DOMAIN state[s].items
<1>1. RadarInv /\ [RadarNext]_radarVars => Kept
  BY ReviewedStays
<1>2. RadarInv /\ [RadarNext]_radarVars => Gone
  BY DeletedStays
<1>3. RadarSpec => [][Kept]_radarVars /\ [][Gone]_radarVars
  BY <1>1, <1>2, RadarInvariance, PTL DEF RadarSpec
<1> QED BY <1>3 DEF DecisionsStand, ReviewedIsKept, DeletedStaysDeleted

\* A call goes out by Send only.
LEMMA SentIs ==
    ASSUME RadarInv, [RadarNext]_radarVars, worker'.phase = "calling", worker.phase # "calling"
    PROVE Send
<1>1. worker \in Local
  BY DEF RadarInv, RadarTypeOK
<1>2. ASSUME worker' = worker PROVE FALSE
  BY <1>2
<1>3. ASSUME NEW done \in Nat, worker' = Entered(worker.batch, done) PROVE FALSE
  <2>1. worker.batch \in Seq(Segments) /\ Len(worker.batch) <= BatchSize
    BY WorkerIs DEF RadarInv, RadarTypeOK
  <2>2. PICK w : w = Entered(worker.batch, done)
    OBVIOUS
  <2>3. w = NoBatch \/ w = [NoBatch EXCEPT !.phase = "dead"] \/ w.phase = "due"
    BY <2>1, <2>2, EnteredIs
  <2>4. w.phase = "calling"
    BY <1>3, <2>2
  <2> QED BY <2>3, <2>4, NoBatchIs
<1>4. ASSUME \E k \in Segments : Submit(k) PROVE FALSE
  BY <1>2, <1>4 DEF Submit
<1>5. ASSUME TakeFirst \/ TakeMore PROVE FALSE
  BY <1>1, <1>5 DEF TakeFirst, TakeMore, Local
<1>6. ASSUME CloseBatch PROVE FALSE
  BY <1>3, <1>6 DEF CloseBatch
<1>7. ASSUME Refuse \/ Fail PROVE FALSE
  BY <1>1, <1>7 DEF Refuse, Fail, Failed, Local
<1>8. ASSUME Settle PROVE FALSE
  <2>1. worker.at \in Nat
    BY <1>1, WorkerIs
  <2> QED BY <1>3, <1>8, <2>1 DEF Settle
<1>9. ASSUME \E suggestions \in Suggestions, ids \in SUBSET worker.retractable :
                 Answer(suggestions, ids)
      PROVE FALSE
  BY <1>9 DEF Answer
<1>10. ASSUME \E s \in Sessions : \E i \in DOMAIN state[s].items : Review(s, i) PROVE FALSE
  BY <1>2, <1>10, ReviewIs
<1>11. ASSUME (\E p \in Providers : Ask(p)) \/ Unavailable \/ Configure PROVE FALSE
  BY <1>2, <1>11 DEF Ask, Unavailable, Configure
<1>12. ASSUME Shutdown PROVE FALSE
  BY <1>12, NoBatchIs DEF Shutdown
<1>13. ASSUME UNCHANGED radarVars PROVE FALSE
  BY <1>2, <1>13 DEF radarVars
<1> QED BY <1>4, <1>5, <1>6, <1>7, <1>8, <1>9, <1>10, <1>11, <1>12, <1>13 DEF RadarNext, Run

\* A batch goes only to the provider that is selected when it is sent, never to
\* one that was replaced, nor to any after a switch to none (configure,
\* _process_batch).
THEOREM OnlySelectedReceivesAlways == RadarSpec => OnlySelectedReceives
<1>1. RadarInv /\ [RadarNext]_radarVars =>
          (worker'.phase = "calling" /\ worker.phase # "calling" =>
               worker.instance = provider.instance /\ provider.name # "none")
  <2> SUFFICES ASSUME RadarInv, [RadarNext]_radarVars,
                      worker'.phase = "calling", worker.phase # "calling"
               PROVE worker.instance = provider.instance /\ provider.name # "none"
    OBVIOUS
  <2>1. worker.phase = "due" /\ worker.instance \in unclosed
    BY SentIs DEF Send
  <2> QED BY <2>1 DEF RadarInv, Selected, Processing
<1> QED BY <1>1, RadarInvariance, PTL DEF RadarSpec, OnlySelectedReceives
=============================================================================
