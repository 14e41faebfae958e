-------------------------- MODULE LiveShareProofs --------------------------
(***************************************************************************)
(* Proofs about LiveShare, for every size of the queue and of the batch,   *)
(* every number of attempts, of rooms and of events: every room the relay  *)
(* has is accounted for, nothing is sent to a room that is being deleted,  *)
(* viewers get the captions in order, the ones that matter leave the queue *)
(* last, and the log of an ended room is final.                            *)
(***************************************************************************)
EXTENDS LiveShare, SequenceTheorems, WellFoundedInduction, TLAPS

-----------------------------------------------------------------------------
(* The inductive invariant *)

\* Those who wait for a lock.
Tasks == {"worker", "heartbeat"} \cup Starters \cup Stoppers \cup Readers

Has(s, t) == \E i \in 1 .. Len(s) : s[i] = t
Line(s) == s \in Seq(Tasks) /\ \A i, j \in 1 .. Len(s) : s[i] = s[j] => i = j

\* a waits behind b, if both wait.
Behind(s, a, b) == \A i, j \in 1 .. Len(s) : s[i] = a /\ s[j] = b => j < i

WorkerStates ==
    [phase : {"gathering", "waiting", "posting", "pausing", "cancelled"},
     batch : Seq(Event), room : Rooms \cup {None}, attempt : 1 .. MaxAttempts]

StartStates == [phase : {"none", "waiting", "creating", "keeping"}, room : Rooms \cup {None}]
StopStates ==
    [phase : {"none", "waiting", "deleting", "keeping", "stopped"}, room : Rooms \cup {None}]
ReadStates ==
    [phase : {"none", "loading", "waiting", "fetching", "keeping"}, room : Rooms \cup {None}]

Typed ==
    /\ room \in Rooms \cup {None}
    /\ relay \in [Rooms -> {"none", "open", "gone", "lost"}]
    /\ queue \in Seq(Event) /\ Len(queue) <= QueueSize
    /\ published \in 0 .. MaxEvents
    /\ worker \in WorkerStates /\ Len(worker.batch) <= BatchSize
    /\ starting \in [Starters -> StartStates] /\ stopping \in [Stoppers -> StopStates]
    /\ reading \in [Readers -> ReadStates]
    /\ heartbeat \in [phase : {"none", "sleeping", "waiting", "beating"},
                      room : Rooms \cup {None}]
    /\ Line(lock) /\ Line(audit)
    /\ accessLog \in [Rooms -> {"none", "active", "ended"}]
    /\ seen \in [Rooms -> SUBSET Nat] /\ replaced \subseteq Rooms
    /\ life \in {"running", "closing", "closed"}

\* Who waits for the lock of the requests or has it, and who talks to the relay.
Serial ==
    /\ Has(lock, "worker") <=> worker.phase \in {"waiting", "posting"}
    /\ worker.phase = "posting" => Holds("worker", lock)
    /\ Has(lock, "heartbeat") <=> heartbeat.phase \in {"waiting", "beating"}
    /\ heartbeat.phase = "beating" => Holds("heartbeat", lock)
    /\ \A k \in Starters : /\ Has(lock, k) <=> starting[k].phase \in {"waiting", "creating"}
                           /\ starting[k].phase = "creating" => Holds(k, lock)
    /\ \A k \in Stoppers : /\ Has(lock, k) <=> stopping[k].phase \in {"waiting", "deleting"}
                           /\ stopping[k].phase = "deleting" => Holds(k, lock)
    /\ \A k \in Readers : /\ Has(lock, k) <=> reading[k].phase \in {"waiting", "fetching"}
                          /\ reading[k].phase = "fetching" => Holds(k, lock)

\* A room that is made is not yet the open one, and is left by no request.
StartsAt(k) ==
    LET r == starting[k].room
    IN  /\ starting[k].phase \in {"none", "waiting"} <=> r = None
        /\ starting[k].phase = "creating" =>
              /\ relay[r] = "open" /\ r # room
              /\ \A j \in Stoppers : stopping[j].room # r
        /\ starting[k].phase = "keeping" =>
              /\ relay[r] # "none"
              /\ relay[r] = "open" => \/ r = room \/ r \in replaced
                                      \/ \E j \in Stoppers : stopping[j].room = r
StopsAt(k) ==
    LET r == stopping[k].room
    IN  /\ stopping[k].phase \in {"none", "stopped"} <=> r = None
        /\ r # None => /\ relay[r] # "none" /\ r # room
                       /\ \A j \in Stoppers : j # k => stopping[j].room # r
        /\ stopping[k].phase = "keeping" => relay[r] = "gone"

\* Which rooms the tasks are concerned with, and how far the relay is.
Housed ==
    /\ room # None => relay[room] # "none"
    /\ \A k \in Starters : StartsAt(k)
    /\ \A k \in Stoppers : StopsAt(k)
    /\ \A k \in Readers : reading[k].phase \in {"waiting", "fetching", "keeping"} =>
                              reading[k].room # None
    /\ worker.phase \in {"waiting", "posting", "pausing"} => worker.room # None
    /\ worker.phase = "posting" => room \in {worker.room, None}
    /\ NothingAfterDelete
    /\ NoOrphan

\* Where the starts do not overlap, no room is open while one is made.
Hastes ==
    (\A j, k \in Starters : j = k) =>
        /\ replaced = {}
        /\ \A k \in Starters : starting[k].phase \in {"waiting", "creating"} => room = None

\* How far the log of a room is, and who is about to write it.
Logged ==
    /\ \A k \in Starters : Has(audit, k) <=> starting[k].phase = "keeping"
    /\ \A k \in Stoppers : Has(audit, k) <=> stopping[k].phase = "keeping"
    /\ \A k \in Readers : Has(audit, k) <=> reading[k].phase \in {"loading", "keeping"}
    /\ \A r \in Rooms : accessLog[r] = "ended" => relay[r] \in {"gone", "lost"}
    /\ \A k \in Starters : starting[k].phase = "keeping" =>
          /\ accessLog[starting[k].room] # "ended"
          /\ \A j \in Stoppers : stopping[j].room = starting[k].room => Behind(audit, j, k)
    /\ \A k \in Readers : reading[k].phase = "keeping" =>
          /\ accessLog[reading[k].room] # "ended"
          /\ \A j \in Stoppers : stopping[j].room = reading[k].room => Behind(audit, j, k)

\* What a room has, then the batch, then the queue; b is the batch, q the
\* queue, p the number of events published and h what the room has.
Upward(q, b, p) ==
    /\ \A i \in 1 .. Len(q) : q[i].number <= p
    /\ \A i \in 1 .. Len(b) : b[i].number <= p
    /\ \A i, j \in 1 .. Len(q) : i < j => q[i].number < q[j].number
    /\ \A i \in 1 .. Len(b), j \in 1 .. Len(q) : b[i].number < q[j].number
Passed(h, q, b, p) ==
    \A k \in h :
        /\ k <= p
        /\ \A j \in 1 .. Len(q) : k < q[j].number
        /\ \A i \in 1 .. Len(b) : b[i].number \in h \/ k < b[i].number

Flows ==
    /\ Upward(queue, worker.batch, published)
    /\ \A r \in Rooms : Passed(seen[r], queue, worker.batch, published)

IInv == Typed /\ Serial /\ Housed /\ Hastes /\ Logged /\ Flows

-----------------------------------------------------------------------------
(* Those who wait for a lock *)
LEMMA AppendFacts ==
    ASSUME NEW S, NEW s \in Seq(S), NEW e \in S
    PROVE /\ Append(s, e) \in Seq(S) /\ Len(s) \in Nat
          /\ Len(Append(s, e)) = Len(s) + 1
          /\ \A i \in 1 .. Len(s) : Append(s, e)[i] = s[i]
          /\ Append(s, e)[Len(s) + 1] = e
OBVIOUS

LEMMA RemoveAtFacts ==
    ASSUME NEW S, NEW s \in Seq(S), NEW k \in 1 .. Len(s)
    PROVE /\ RemoveAt(s, k) \in Seq(S) /\ Len(s) \in Nat
          /\ Len(RemoveAt(s, k)) = Len(s) - 1
          /\ \A i \in 1 .. Len(s) - 1 :
                /\ i < k => RemoveAt(s, k)[i] = s[i]
                /\ i >= k => RemoveAt(s, k)[i] = s[i + 1]
<1> DEFINE a == SubSeq(s, 1, k - 1)
           b == SubSeq(s, k + 1, Len(s))
<1>0. k \in Nat /\ Len(s) \in Nat
  OBVIOUS
<1>1. /\ a \in Seq(S) /\ Len(a) = k - 1 /\ \A i \in 1 .. k - 1 : a[i] = s[i]
  OBVIOUS
<1>2. /\ b \in Seq(S) /\ Len(b) = Len(s) - k /\ \A i \in 1 .. Len(s) - k : b[i] = s[i + k]
  OBVIOUS
<1> HIDE DEF a, b
<1>3. PICK c : c = a \o b
  OBVIOUS
<1>4. /\ c \in Seq(S) /\ Len(c) = Len(s) - 1
      /\ \A i \in 1 .. Len(s) - 1 : c[i] = IF i <= k - 1 THEN a[i] ELSE b[i - (k - 1)]
  <2>1. /\ c \in Seq(S) /\ Len(c) = Len(a) + Len(b)
        /\ \A i \in 1 .. Len(a) + Len(b) : c[i] = IF i <= Len(a) THEN a[i] ELSE b[i - Len(a)]
    BY <1>1, <1>2, <1>3, ConcatProperties
  <2>2. Len(a) + Len(b) = Len(s) - 1
    BY <1>0, <1>1, <1>2
  <2> QED BY <1>1, <2>1, <2>2
<1>5. ASSUME NEW i \in 1 .. Len(s) - 1
      PROVE (i < k => c[i] = s[i]) /\ (i >= k => c[i] = s[i + 1])
  <2>0. i \in Nat /\ i >= 1 /\ i <= Len(s) - 1
    BY <1>0
  <2>1. CASE i < k
    <3>1. i \in 1 .. k - 1 /\ i <= k - 1
      BY <1>0, <2>0, <2>1
    <3> QED BY <1>1, <1>4, <2>1, <3>1
  <2>2. CASE i >= k
    <3>1. i - (k - 1) \in 1 .. Len(s) - k /\ (i - (k - 1)) + k = i + 1
      BY <1>0, <2>0, <2>2
    <3>2. c[i] = b[i - (k - 1)]
      BY <1>0, <1>4, <2>0, <2>2
    <3>3. b[i - (k - 1)] = s[(i - (k - 1)) + k]
      BY <1>2, <3>1
    <3> QED BY <2>2, <3>1, <3>2, <3>3
  <2> QED BY <1>0, <2>0, <2>1, <2>2
<1> QED BY <1>0, <1>3, <1>4, <1>5 DEF RemoveAt, a, b

\* u is s with t at the end of the line, or without t.
Joins(s, t, u) ==
    /\ Line(u)
    /\ \A x : Has(u, x) <=> Has(s, x) \/ x = t
    /\ \A x : Holds(x, s) => Holds(x, u)
    /\ \A y : y # t => Behind(u, t, y)
    /\ \A x, y : x # t /\ y # t /\ Behind(s, x, y) => Behind(u, x, y)
Leaves(s, t, u) ==
    /\ Line(u)
    /\ \A x : Has(u, x) <=> Has(s, x) /\ x # t
    /\ \A x : x # t /\ Holds(x, s) => Holds(x, u)
    /\ \A x, y : Behind(s, x, y) => Behind(u, x, y)

\* A task that does not wait yet queues up for a lock.
LEMMA LineJoins ==
    ASSUME NEW s, Line(s), NEW t \in Tasks, ~Has(s, t)
    PROVE Joins(s, t, Append(s, t))
<1>1. s \in Seq(Tasks)
  BY DEF Line
<1>2. PICK u : u = Append(s, t)
  OBVIOUS
<1>3. PICK n : n = Len(s)
  OBVIOUS
<1>4. /\ u \in Seq(Tasks) /\ n \in Nat /\ Len(u) = n + 1
      /\ \A i \in 1 .. n : u[i] = s[i]
      /\ u[n + 1] = t
  BY <1>1, <1>2, <1>3, AppendFacts
<1>5. \A i \in 1 .. n : s[i] # t
  BY <1>3 DEF Has
<1>6. \A i \in 1 .. n + 1 : i \in 1 .. n \/ i = n + 1
  BY <1>4
<1>7. \A i \in 1 .. n : i \in 1 .. n + 1 /\ i # n + 1 /\ i < n + 1
  BY <1>4
<1>8. n + 1 \in 1 .. n + 1
  BY <1>4
<1>9. Line(u)
  <2>1. \A i, j \in 1 .. n : s[i] = s[j] => i = j
    BY <1>3 DEF Line
  <2> QED BY <1>4, <1>5, <1>6, <2>1 DEF Line
<1>10. \A x : Has(u, x) <=> Has(s, x) \/ x = t
  BY <1>3, <1>4, <1>6, <1>7, <1>8 DEF Has
<1>11. \A x : Holds(x, s) => Holds(x, u)
  <2>1. s # <<>> => u # <<>> /\ Head(s) = s[1] /\ Head(u) = u[1] /\ 1 \in 1 .. n
    BY <1>1, <1>3, <1>4
  <2> QED BY <1>4, <2>1 DEF Holds
<1>12. \A y : y # t => Behind(u, t, y)
  BY <1>4, <1>5, <1>6, <1>7 DEF Behind
<1>13. \A x, y : x # t /\ y # t /\ Behind(s, x, y) => Behind(u, x, y)
  BY <1>3, <1>4, <1>6 DEF Behind
<1> QED BY <1>2, <1>9, <1>10, <1>11, <1>12, <1>13 DEF Joins

\* A task gives a lock back, or does not wait for it any more.
LEMMA LineLeaves ==
    ASSUME NEW s, Line(s), NEW t
    PROVE Leaves(s, t, Without(t, s))
<1>1. s \in Seq(Tasks)
  BY DEF Line
<1>2. CASE ~Has(s, t)
  <2>1. Without(t, s) = s
    BY <1>2 DEF Without, RemoveFirst, Has
  <2>2. \A x : Has(s, x) => x # t
    BY <1>2
  <2> QED BY <2>1, <2>2 DEF Leaves
<1>3. CASE Has(s, t)
  <2>1. PICK k \in 1 .. Len(s) : s[k] = t
    BY <1>3 DEF Has
  <2>2. {i \in 1 .. Len(s) : s[i] = t} = {k}
    BY <2>1 DEF Line
  <2>3. k \in Nat
    OBVIOUS
  <2>4. Min({k}) = k
    BY <2>3 DEF Min
  <2>5. Without(t, s) = RemoveAt(s, k)
    BY <2>1, <2>2, <2>4 DEF Without, RemoveFirst, SelectInSeq
  <2>6. PICK u, n : u = Without(t, s) /\ n = Len(s)
    OBVIOUS
  <2>7. /\ u \in Seq(Tasks) /\ n \in Nat /\ Len(u) = n - 1
        /\ \A i \in 1 .. n - 1 : (i < k => u[i] = s[i]) /\ (i >= k => u[i] = s[i + 1])
    BY <1>1, <2>5, <2>6, RemoveAtFacts
  <2>8. ASSUME NEW i \in 1 .. n - 1
        PROVE \E a \in 1 .. n : a # k /\ u[i] = s[a] /\ (i < k => a = i) /\ (i >= k => a = i + 1)
    BY <2>1, <2>3, <2>7
  <2>9. ASSUME NEW a \in 1 .. n, a # k
        PROVE \E i \in 1 .. n - 1 : u[i] = s[a]
    <3>1. CASE a < k
      <4>1. a \in 1 .. n - 1
        BY <2>1, <2>6, <2>7, <3>1
      <4> QED BY <2>7, <3>1, <4>1
    <3>2. CASE a > k
      <4>1. a - 1 \in 1 .. n - 1 /\ a - 1 >= k /\ (a - 1) + 1 = a
        BY <2>1, <2>3, <2>6, <2>7, <3>2
      <4> QED BY <2>7, <4>1
    <3> QED BY <2>3, <2>7, <2>9, <3>1, <3>2
  <2>10. \A i, j \in 1 .. n : s[i] = s[j] => i = j
    BY <2>6 DEF Line
  <2>11. ASSUME NEW i \in 1 .. n - 1, NEW j \in 1 .. n - 1
         PROVE \E a, b \in 1 .. n : /\ u[i] = s[a] /\ u[j] = s[b]
                                    /\ (a = b => i = j) /\ (b < a => j < i)
    <3>1. PICK a \in 1 .. n : u[i] = s[a] /\ (i < k => a = i) /\ (i >= k => a = i + 1)
      BY <2>8
    <3>2. PICK b \in 1 .. n : u[j] = s[b] /\ (j < k => b = j) /\ (j >= k => b = j + 1)
      BY <2>8
    <3>3. (a = b => i = j) /\ (b < a => j < i)
      BY <2>3, <2>7, <3>1, <3>2
    <3> QED BY <3>1, <3>2, <3>3
  <2>12. Line(u)
    <3>1. ASSUME NEW i \in 1 .. Len(u), NEW j \in 1 .. Len(u), u[i] = u[j] PROVE i = j
      <4>1. PICK a \in 1 .. n, b \in 1 .. n : /\ u[i] = s[a] /\ u[j] = s[b]
                                              /\ (a = b => i = j) /\ (b < a => j < i)
        BY <2>7, <2>11
      <4> QED BY <2>10, <3>1, <4>1
    <3> QED BY <2>7, <3>1 DEF Line
  <2>13. \A x : Has(u, x) <=> Has(s, x) /\ x # t
    <3>1. ASSUME NEW x, Has(u, x) PROVE Has(s, x) /\ x # t
      <4>1. PICK i \in 1 .. n - 1 : u[i] = x
        BY <2>7, <3>1 DEF Has
      <4>2. PICK a \in 1 .. n : a # k /\ u[i] = s[a]
        BY <2>8
      <4> QED BY <2>1, <2>6, <2>10, <4>1, <4>2 DEF Has
    <3>2. ASSUME NEW x, Has(s, x), x # t PROVE Has(u, x)
      <4>1. PICK a \in 1 .. n : s[a] = x
        BY <2>6, <3>2 DEF Has
      <4>2. a # k
        BY <2>1, <3>2, <4>1
      <4> QED BY <2>7, <2>9, <4>1, <4>2 DEF Has
    <3> QED BY <3>1, <3>2
  <2>14. ASSUME NEW x, x # t, Holds(x, s) PROVE Holds(x, u)
    <3>1. s # <<>> /\ s[1] = x /\ 1 \in 1 .. n
      BY <1>1, <2>6, <2>14 DEF Holds
    <3>2. k # 1
      BY <2>1, <2>14, <3>1
    <3>3. 1 \in 1 .. n - 1 /\ 1 < k
      BY <2>1, <2>3, <2>6, <2>7, <3>2
    <3>4. u[1] = x /\ Len(u) # 0
      BY <2>7, <3>1, <3>3
    <3>5. u # <<>> /\ Head(u) = u[1]
      BY <2>7, <3>4
    <3> QED BY <3>4, <3>5 DEF Holds
  <2>15. ASSUME NEW x, NEW y, Behind(s, x, y) PROVE Behind(u, x, y)
    <3>1. ASSUME NEW i \in 1 .. Len(u), NEW j \in 1 .. Len(u), u[i] = x, u[j] = y PROVE j < i
      <4>1. PICK a \in 1 .. n, b \in 1 .. n : /\ u[i] = s[a] /\ u[j] = s[b]
                                              /\ (a = b => i = j) /\ (b < a => j < i)
        BY <2>7, <2>11
      <4>2. b < a
        BY <2>6, <2>15, <3>1, <4>1 DEF Behind
      <4> QED BY <4>1, <4>2
    <3> QED BY <3>1 DEF Behind
  <2> QED BY <2>6, <2>12, <2>13, <2>14, <2>15 DEF Leaves
<1> QED BY <1>2, <1>3

\* Whoever has a lock is in the line, and alone at its head.
LEMMA Holder ==
    ASSUME NEW s, Line(s), NEW x, Holds(x, s)
    PROVE /\ Has(s, x)
          /\ \A y : Holds(y, s) => y = x
          /\ \A y : Has(s, y) => ~Behind(s, x, y)
<1>1. s \in Seq(Tasks) /\ s # <<>> /\ Head(s) = x
  BY DEF Line, Holds
<1>2. s[1] = x /\ 1 \in 1 .. Len(s)
  BY <1>1
<1>3. \A y : Holds(y, s) => y = x
  BY DEF Holds
<1>4. ASSUME NEW y, Has(s, y), Behind(s, x, y) PROVE FALSE
  <2>1. PICK j \in 1 .. Len(s) : s[j] = y
    BY <1>4 DEF Has
  <2>2. j < 1
    BY <1>2, <1>4, <2>1 DEF Behind
  <2> QED BY <2>2
<1> QED BY <1>2, <1>3, <1>4 DEF Has

\* No task is of two kinds.
LEMMA TasksAre ==
    /\ "worker" \in Tasks /\ "heartbeat" \in Tasks
    /\ \A k \in Starters : k \in Tasks /\ k \notin Stoppers \cup Readers \cup {"worker", "heartbeat"}
    /\ \A k \in Stoppers : k \in Tasks /\ k \notin Starters \cup Readers \cup {"worker", "heartbeat"}
    /\ \A k \in Readers : k \in Tasks /\ k \notin Starters \cup Stoppers \cup {"worker", "heartbeat"}
BY ShareAssumption DEF Tasks

-----------------------------------------------------------------------------
(* The events on their way to a room *)

\* v is q, with some events taken out, then perhaps e.
Follows(v, q, e) ==
    /\ \A i \in 1 .. Len(v) : v[i] = e \/ \E a \in 1 .. Len(q) : v[i] = q[a]
    /\ \A i, j \in 1 .. Len(v) : i < j =>
          \E a \in 1 .. Len(q) :
              /\ v[i] = q[a]
              /\ v[j] = e \/ \E b \in 1 .. Len(q) : a < b /\ v[j] = q[b]

LEMMA NatLeast ==
    ASSUME NEW S \in SUBSET Nat, S # {}
    PROVE \E i \in S : \A j \in S : i <= j
<1>1. IsWellFoundedOn(OpToRel(<, Nat), Nat)
  BY NatLessThanWellFounded
<1>2. PICK i \in S : \A j \in S : ~(<<j, i>> \in OpToRel(<, Nat))
  BY <1>1, WFMin
<1>3. ASSUME NEW j \in S, j < i PROVE FALSE
  <2>1. <<j, i>> \in OpToRel(<, Nat)
    BY <1>3 DEF OpToRel
  <2> QED BY <1>2, <2>1, Zenon
<1>4. \A j \in S : j \in Nat /\ i \in Nat /\ ~(j < i)
  BY <1>3
<1> QED BY <1>4

\* An event at the end of the queue.
LEMMA FollowsAppend ==
    ASSUME NEW q \in Seq(Event), NEW e \in Event
    PROVE Append(q, e) \in Seq(Event) /\ Follows(Append(q, e), q, e)
<1>1. PICK v, n : v = Append(q, e) /\ n = Len(q)
  OBVIOUS
<1>2. /\ v \in Seq(Event) /\ n \in Nat /\ Len(v) = n + 1
      /\ \A i \in 1 .. n : v[i] = q[i]
      /\ v[n + 1] = e
  BY <1>1, AppendFacts
<1>3. \A i \in 1 .. n + 1 : i \in 1 .. n \/ i = n + 1
  BY <1>2
<1>4. ASSUME NEW i \in 1 .. Len(v), NEW j \in 1 .. Len(v), i < j
      PROVE \E a \in 1 .. n : /\ v[i] = q[a]
                              /\ v[j] = e \/ \E b \in 1 .. n : a < b /\ v[j] = q[b]
  <2>1. i \in 1 .. n
    BY <1>2, <1>3, <1>4
  <2> QED BY <1>2, <1>3, <1>4, <2>1
<1>5. \A i \in 1 .. Len(v) : v[i] = e \/ \E a \in 1 .. n : v[i] = q[a]
  BY <1>2, <1>3
<1> QED BY <1>1, <1>2, <1>4, <1>5 DEF Follows

\* An event at the end of the queue, in the place of another one.
LEMMA FollowsReplace ==
    ASSUME NEW q \in Seq(Event), NEW e \in Event, NEW k \in 1 .. Len(q)
    PROVE /\ Append(RemoveAt(q, k), e) \in Seq(Event)
          /\ Len(Append(RemoveAt(q, k), e)) = Len(q)
          /\ Append(RemoveAt(q, k), e)[Len(q)] = e
          /\ Follows(Append(RemoveAt(q, k), e), q, e)
          /\ \A a \in 1 .. Len(q) : a # k =>
                \E i \in 1 .. Len(q) : Append(RemoveAt(q, k), e)[i] = q[a]
<1>1. PICK u, v, n : u = RemoveAt(q, k) /\ v = Append(u, e) /\ n = Len(q)
  OBVIOUS
<1>2. /\ u \in Seq(Event) /\ n \in Nat /\ Len(u) = n - 1 /\ k \in Nat
      /\ \A i \in 1 .. n - 1 : (i < k => u[i] = q[i]) /\ (i >= k => u[i] = q[i + 1])
  <2>1. k \in Nat /\ k \in 1 .. Len(q)
    OBVIOUS
  <2>2. /\ RemoveAt(q, k) \in Seq(Event) /\ Len(q) \in Nat /\ Len(RemoveAt(q, k)) = Len(q) - 1
        /\ \A i \in 1 .. Len(q) - 1 :
              /\ i < k => RemoveAt(q, k)[i] = q[i]
              /\ i >= k => RemoveAt(q, k)[i] = q[i + 1]
    BY RemoveAtFacts
  <2> QED BY <1>1, <2>1, <2>2, Zenon
<1>3. /\ v \in Seq(Event) /\ Len(v) = (n - 1) + 1
      /\ \A i \in 1 .. n - 1 : v[i] = u[i]
      /\ v[(n - 1) + 1] = e
  <2>1. /\ Append(u, e) \in Seq(Event) /\ Len(Append(u, e)) = Len(u) + 1
        /\ \A i \in 1 .. Len(u) : Append(u, e)[i] = u[i]
        /\ Append(u, e)[Len(u) + 1] = e
    BY <1>2, AppendFacts
  <2>2. v = Append(u, e) /\ Len(u) = n - 1
    BY <1>1, <1>2
  <2> QED BY <2>1, <2>2
<1>4. (n - 1) + 1 = n /\ \A i \in 1 .. n : i \in 1 .. n - 1 \/ i = n
  BY <1>2
<1>5. ASSUME NEW i \in 1 .. n - 1
      PROVE \E a \in 1 .. n : v[i] = q[a] /\ (i < k => a = i) /\ (i >= k => a = i + 1)
  <2>1. i \in Nat /\ i \in 1 .. n /\ i + 1 \in 1 .. n
    BY <1>2
  <2>2. CASE i < k
    <3>1. v[i] = q[i]
      BY <1>2, <1>3, <2>2
    <3>2. ~(i >= k)
      BY <1>2, <2>1, <2>2
    <3> QED BY <2>1, <3>1, <3>2
  <2>3. CASE i >= k
    <3>1. v[i] = q[i + 1]
      BY <1>2, <1>3, <2>3
    <3>2. ~(i < k)
      BY <1>2, <2>1, <2>3
    <3> QED BY <2>1, <3>1, <3>2
  <2> QED BY <1>2, <2>1, <2>2, <2>3
<1>6. ASSUME NEW i \in 1 .. n, NEW j \in 1 .. n, i < j
      PROVE \E a \in 1 .. n : /\ v[i] = q[a]
                              /\ v[j] = e \/ \E b \in 1 .. n : a < b /\ v[j] = q[b]
  <2>1. i \in 1 .. n - 1 /\ i \in Nat /\ j \in Nat
    BY <1>2, <1>6
  <2>2. PICK a \in 1 .. n : v[i] = q[a] /\ (i < k => a = i) /\ (i >= k => a = i + 1)
    BY <1>5, <2>1
  <2>3. CASE j = n
    BY <1>3, <1>4, <2>2, <2>3
  <2>4. CASE j \in 1 .. n - 1
    <3>1. PICK b \in 1 .. n : v[j] = q[b] /\ (j < k => b = j) /\ (j >= k => b = j + 1)
      BY <1>5, <2>4
    <3>2. a < b
      BY <1>2, <1>6, <2>1, <2>2, <3>1
    <3> QED BY <2>2, <3>1, <3>2
  <2> QED BY <1>4, <2>3, <2>4
<1>7. \A i \in 1 .. n : v[i] = e \/ \E a \in 1 .. n : v[i] = q[a]
  BY <1>3, <1>4, <1>5
<1>8. Follows(v, q, e)
  <2>1. Len(v) = n
    BY <1>2, <1>3
  <2>2. Len(q) = n
    BY <1>1
  <2>3. \A i, j \in 1 .. n : i < j =>
            \E a \in 1 .. n : v[i] = q[a] /\ (v[j] = e \/ \E b \in 1 .. n : a < b /\ v[j] = q[b])
    BY <1>6
  <2> QED BY <1>7, <2>1, <2>2, <2>3 DEF Follows
<1>9. ASSUME NEW a \in 1 .. n, a # k PROVE \E i \in 1 .. n : v[i] = q[a]
  <2>1. CASE a < k
    <3>1. a \in 1 .. n - 1 /\ a \in 1 .. n
      BY <1>1, <1>2, <2>1
    <3> QED BY <1>2, <1>3, <2>1, <3>1
  <2>2. CASE a > k
    <3>1. a - 1 \in 1 .. n - 1 /\ a - 1 \in 1 .. n /\ a - 1 >= k /\ (a - 1) + 1 = a
      BY <1>1, <1>2, <2>2
    <3>2. v[a - 1] = u[a - 1] /\ u[a - 1] = q[(a - 1) + 1]
      BY <1>2, <1>3, <3>1
    <3> QED BY <3>1, <3>2
  <2>3. a \in Nat /\ k \in Nat /\ a # k
    BY <1>1, <1>2, <1>9
  <2> QED BY <2>1, <2>2, <2>3
<1> QED BY <1>1, <1>3, <1>4, <1>8, <1>9

\* publish_event: what the queue becomes.
LEMMA QueuedIs ==
    ASSUME queue \in Seq(Event), NEW e \in Event
    PROVE \/ /\ Queued(e) = queue
             /\ e.lossy \/ ~\E i \in DOMAIN queue : queue[i].lossy
             /\ ~(Len(queue) < QueueSize)
          \/ Queued(e) = Append(queue, e) /\ Len(queue) < QueueSize
          \/ \E k \in 1 .. Len(queue) : /\ queue[k].lossy
                                        /\ Queued(e) = Append(RemoveAt(queue, k), e)
<1>1. DOMAIN queue = 1 .. Len(queue) /\ Len(queue) \in Nat
  OBVIOUS
<1>2. CASE ~(Len(queue) < QueueSize) /\ ~e.lossy /\ \E i \in DOMAIN queue : queue[i].lossy
  <2> DEFINE L == {i \in DOMAIN queue : queue[i].lossy}
             first == CHOOSE i \in DOMAIN queue :
                          queue[i].lossy /\ \A j \in 1 .. i - 1 : ~queue[j].lossy
  <2>1. L \in SUBSET Nat /\ L # {}
    BY <1>1, <1>2
  <2>2. PICK i \in L : \A j \in L : i <= j
    BY <2>1, NatLeast, Zenon
  <2>3. \A j \in 1 .. i - 1 : j \in DOMAIN queue /\ ~(i <= j)
    BY <1>1
  <2>4. i \in DOMAIN queue /\ queue[i].lossy /\ \A j \in 1 .. i - 1 : ~queue[j].lossy
    BY <2>2, <2>3
  <2>5. first \in DOMAIN queue /\ queue[first].lossy
    BY <2>4
  <2>6. Queued(e) = Append(RemoveAt(queue, first), e)
    BY <1>2 DEF Queued
  <2> QED BY <1>1, <2>5, <2>6
<1>3. CASE Len(queue) < QueueSize
  BY <1>3 DEF Queued
<1>4. CASE ~(Len(queue) < QueueSize) /\ (e.lossy \/ ~\E i \in DOMAIN queue : queue[i].lossy)
  BY <1>4 DEF Queued
<1> QED BY <1>2, <1>3, <1>4

LEMMA NumbersAre ==
    ASSUME NEW q \in Seq(Event)
    PROVE \A i \in 1 .. Len(q) : q[i] \in Event /\ q[i].number \in Nat /\ q[i].number >= 1
<1>1. \A e \in Event : e.number \in Nat /\ e.number >= 1
  BY ShareAssumption DEF Event
<1> QED BY <1>1

\* An event published: it is the newest of all.
LEMMA FlowComes ==
    ASSUME NEW q \in Seq(Event), NEW b \in Seq(Event), NEW p \in Nat, NEW e \in Event,
           e.number = p + 1, NEW v \in Seq(Event), Follows(v, q, e), Upward(q, b, p)
    PROVE /\ Upward(v, b, p + 1)
          /\ \A h \in SUBSET Nat : Passed(h, q, b, p) => Passed(h, v, b, p + 1)
<1>1. /\ \A i \in 1 .. Len(q) : q[i].number \in Nat /\ q[i].number <= p
      /\ \A i \in 1 .. Len(b) : b[i].number \in Nat /\ b[i].number <= p
      /\ \A i, j \in 1 .. Len(q) : i < j => q[i].number < q[j].number
      /\ \A i \in 1 .. Len(b), j \in 1 .. Len(q) : b[i].number < q[j].number
  BY NumbersAre DEF Upward
<1>2. \A i \in 1 .. Len(v) : v[i] = e \/ \E a \in 1 .. Len(q) : v[i] = q[a]
  BY DEF Follows
<1>0. \A n \in Nat : n <= p => n <= p + 1 /\ n < p + 1
  OBVIOUS
<1>v. \A i \in 1 .. Len(v) :
          \/ v[i].number = p + 1
          \/ \E a \in 1 .. Len(q) : v[i].number = q[a].number
  BY <1>2, Zenon
<1>3. ASSUME NEW i \in 1 .. Len(v) PROVE v[i].number <= p + 1
  <2>1. CASE v[i].number = p + 1
    BY <2>1
  <2>2. CASE \E a \in 1 .. Len(q) : v[i].number = q[a].number
    BY <1>0, <1>1, <2>2
  <2> QED BY <1>v, <2>1, <2>2
<1>4. \A i \in 1 .. Len(b) : b[i].number <= p + 1
  BY <1>1
<1>5. ASSUME NEW i \in 1 .. Len(v), NEW j \in 1 .. Len(v), i < j
      PROVE v[i].number < v[j].number
  <2>1. PICK a \in 1 .. Len(q) : /\ v[i] = q[a]
                                 /\ v[j] = e \/ \E c \in 1 .. Len(q) : a < c /\ v[j] = q[c]
    BY <1>5 DEF Follows
  <2> QED BY <1>1, <2>1
<1>6. ASSUME NEW i \in 1 .. Len(b), NEW j \in 1 .. Len(v) PROVE b[i].number < v[j].number
  <2>1. CASE v[j].number = p + 1
    BY <1>0, <1>1, <2>1
  <2>2. CASE \E a \in 1 .. Len(q) : v[j].number = q[a].number
    BY <1>1, <2>2
  <2> QED BY <1>v, <2>1, <2>2
<1>7. ASSUME NEW h \in SUBSET Nat, Passed(h, q, b, p), NEW k \in h
      PROVE /\ k <= p + 1
            /\ \A j \in 1 .. Len(v) : k < v[j].number
            /\ \A i \in 1 .. Len(b) : b[i].number \in h \/ k < b[i].number
  <2>1. /\ k \in Nat /\ k <= p /\ \A j \in 1 .. Len(q) : k < q[j].number
        /\ \A i \in 1 .. Len(b) : b[i].number \in h \/ k < b[i].number
    BY <1>7 DEF Passed
  <2>2. k <= p + 1 /\ k < p + 1
    BY <1>0, <2>1
  <2>3. ASSUME NEW j \in 1 .. Len(v) PROVE k < v[j].number
    <3>1. CASE v[j].number = p + 1
      BY <2>2, <3>1
    <3>2. CASE \E a \in 1 .. Len(q) : v[j].number = q[a].number
      BY <2>1, <3>2
    <3> QED BY <1>v, <3>1, <3>2
  <2> QED BY <2>1, <2>2, <2>3
<1> QED BY <1>3, <1>4, <1>5, <1>6, <1>7 DEF Upward, Passed

\* An event of a full queue is dropped: the next one has a greater number.
LEMMA FlowDrops ==
    ASSUME NEW q \in Seq(Event), NEW b \in Seq(Event), NEW p \in Nat, Upward(q, b, p)
    PROVE /\ Upward(q, b, p + 1)
          /\ \A h \in SUBSET Nat : Passed(h, q, b, p) => Passed(h, q, b, p + 1)
<1>1. /\ \A i \in 1 .. Len(q) : q[i].number \in Nat
      /\ \A i \in 1 .. Len(b) : b[i].number \in Nat
  BY NumbersAre
<1>2. \A n \in Nat : n <= p => n <= p + 1
  OBVIOUS
<1>3. \A i \in 1 .. Len(q) : q[i].number <= p + 1
  BY <1>1, <1>2 DEF Upward
<1>4. \A i \in 1 .. Len(b) : b[i].number <= p + 1
  BY <1>1, <1>2 DEF Upward
<1>5. ASSUME NEW h \in SUBSET Nat, Passed(h, q, b, p) PROVE Passed(h, q, b, p + 1)
  <2>1. \A k \in h : k <= p + 1
    BY <1>2, <1>5 DEF Passed
  <2> QED BY <1>5, <2>1 DEF Passed
<1> QED BY <1>3, <1>4, <1>5 DEF Upward

\* The worker takes the first event of the queue.
LEMMA FlowTaken ==
    ASSUME NEW q \in Seq(Event), q # <<>>, NEW b \in Seq(Event), NEW p \in Nat,
           Upward(q, b, p)
    PROVE /\ Tail(q) \in Seq(Event) /\ Len(Tail(q)) = Len(q) - 1 /\ Head(q) \in Event
          /\ Append(b, Head(q)) \in Seq(Event) /\ Len(Append(b, Head(q))) = Len(b) + 1
          /\ Upward(Tail(q), Append(b, Head(q)), p)
          /\ \A h \in SUBSET Nat : Passed(h, q, b, p) => Passed(h, Tail(q), Append(b, Head(q)), p)
<1>1. PICK t, c, x, n : t = Tail(q) /\ x = Head(q) /\ c = Append(b, x) /\ n = Len(q)
  OBVIOUS
<1>2. /\ t \in Seq(Event) /\ n \in Nat /\ n >= 1 /\ Len(t) = n - 1 /\ x = q[1] /\ x \in Event
      /\ \A i \in 1 .. n - 1 : t[i] = q[i + 1] /\ i + 1 \in 1 .. n /\ 1 < i + 1
      /\ 1 \in 1 .. n
  BY <1>1
<1>3. /\ c \in Seq(Event) /\ Len(b) \in Nat /\ Len(c) = Len(b) + 1
      /\ \A i \in 1 .. Len(b) : c[i] = b[i]
      /\ c[Len(b) + 1] = x
  BY <1>1, <1>2, AppendFacts
<1>4. \A i \in 1 .. Len(c) : (i \in 1 .. Len(b) /\ c[i] = b[i]) \/ c[i] = x
  BY <1>3
<1>5. /\ \A i \in 1 .. n : q[i].number \in Nat /\ q[i].number <= p
      /\ \A i \in 1 .. Len(b) : b[i].number \in Nat /\ b[i].number <= p
      /\ \A i, j \in 1 .. n : i < j => q[i].number < q[j].number
      /\ \A i \in 1 .. Len(b), j \in 1 .. n : b[i].number < q[j].number
  BY <1>1, NumbersAre DEF Upward
<1>6. \A i \in 1 .. n - 1 : t[i].number <= p
  BY <1>2, <1>5
<1>7. \A i \in 1 .. Len(c) : c[i].number <= p
  BY <1>2, <1>4, <1>5
<1>8. ASSUME NEW i \in 1 .. n - 1, NEW j \in 1 .. n - 1, i < j PROVE t[i].number < t[j].number
  <2>1. i + 1 < j + 1
    BY <1>8
  <2> QED BY <1>2, <1>5, <2>1
<1>9. ASSUME NEW i \in 1 .. Len(c), NEW j \in 1 .. n - 1 PROVE c[i].number < t[j].number
  BY <1>2, <1>4, <1>5
<1>10. ASSUME NEW h \in SUBSET Nat, Passed(h, q, b, p), NEW k \in h
       PROVE /\ k <= p
             /\ \A j \in 1 .. n - 1 : k < t[j].number
             /\ \A i \in 1 .. Len(c) : c[i].number \in h \/ k < c[i].number
  <2>1. /\ k <= p /\ \A j \in 1 .. n : k < q[j].number
        /\ \A i \in 1 .. Len(b) : b[i].number \in h \/ k < b[i].number
    BY <1>1, <1>10 DEF Passed
  <2> QED BY <1>2, <1>4, <2>1
<1>11. Upward(t, c, p)
  BY <1>2, <1>6, <1>7, <1>8, <1>9 DEF Upward
<1>12. \A h \in SUBSET Nat : Passed(h, q, b, p) => Passed(h, t, c, p)
  BY <1>2, <1>10 DEF Passed
<1> QED BY <1>1, <1>2, <1>3, <1>11, <1>12

\* The batch, or the queue, is empty.
LEMMA FlowEmpty ==
    ASSUME NEW q \in Seq(Event), NEW b \in Seq(Event), NEW p \in Nat, Upward(q, b, p)
    PROVE /\ Upward(q, <<>>, p) /\ Upward(<<>>, b, p)
          /\ \A h \in SUBSET Nat : Passed(h, q, b, p) => /\ Passed(h, q, <<>>, p)
                                                         /\ Passed(h, <<>>, b, p)
BY DEF Upward, Passed

\* A batch of the worker by its numbers.
BatchNumbers(b) == {e.number : e \in ToSet(b)}

\* The relay takes the batch: what is new to the room comes after what it had.
LEMMA FlowReaches ==
    ASSUME NEW q \in Seq(Event), NEW b \in Seq(Event), NEW p \in Nat, Upward(q, b, p),
           NEW h \in SUBSET Nat, Passed(h, q, b, p)
    PROVE /\ h \cup BatchNumbers(b) \in SUBSET Nat
          /\ Passed(h \cup BatchNumbers(b), q, b, p)
          /\ \A n \in (h \cup BatchNumbers(b)) \ h, k \in h : k < n
<1>1. ToSet(b) = {b[i] : i \in 1 .. Len(b)}
  BY DEF ToSet
<1>2. /\ \A n \in BatchNumbers(b) : \E i \in 1 .. Len(b) : n = b[i].number
      /\ \A i \in 1 .. Len(b) : b[i].number \in BatchNumbers(b)
  BY <1>1 DEF BatchNumbers
<1>3. /\ \A i \in 1 .. Len(b) : b[i].number \in Nat /\ b[i].number <= p
      /\ \A i \in 1 .. Len(b), j \in 1 .. Len(q) : b[i].number < q[j].number
  BY NumbersAre DEF Upward
<1>4. \A n \in (h \cup BatchNumbers(b)) \ h, k \in h : k < n
  BY <1>2 DEF Passed
<1>5. ASSUME NEW k \in h \cup BatchNumbers(b)
      PROVE k \in Nat /\ k <= p /\ \A j \in 1 .. Len(q) : k < q[j].number
  <2>1. CASE k \in h
    BY <2>1 DEF Passed
  <2>2. CASE k \in BatchNumbers(b)
    BY <1>2, <1>3, <2>2
  <2> QED BY <2>1, <2>2
<1>6. \A i \in 1 .. Len(b) : b[i].number \in h \cup BatchNumbers(b)
  BY <1>2
<1> QED BY <1>4, <1>5, <1>6 DEF Passed

-----------------------------------------------------------------------------
(* The steps *)

LEMMA EmptyBatch ==
    /\ <<>> \in Seq(Event) /\ Len(<<>>) = 0
    /\ BatchSize \in Nat \ {0} /\ MaxAttempts \in Nat \ {0}
    /\ None \notin Rooms /\ Rooms \subseteq Nat
BY ShareAssumption DEF None, Rooms

\* The worker between two steps.
LEMMA WorkerMoves ==
    ASSUME NEW w \in WorkerStates,
           NEW p \in {"gathering", "waiting", "posting", "pausing", "cancelled"},
           NEW r \in Rooms \cup {None}, NEW b \in Seq(Event), NEW a \in 1 .. MaxAttempts
    PROVE /\ [w EXCEPT !.phase = p] \in WorkerStates
          /\ [w EXCEPT !.phase = p, !.room = r] \in WorkerStates
          /\ [w EXCEPT !.batch = b] \in WorkerStates
          /\ [w EXCEPT !.phase = p, !.attempt = a] \in WorkerStates
BY DEF WorkerStates

LEMMA WorkerRests ==
    /\ Idle \in WorkerStates /\ Idle.phase = "gathering" /\ Idle.batch = <<>>
    /\ Idle.room = None
BY EmptyBatch DEF WorkerStates, Idle, Gathering

\* The parts of what a task does.
LEMMA WorkerHas ==
    ASSUME IInv
    PROVE /\ worker \in WorkerStates /\ worker.batch \in Seq(Event) /\ Len(worker.batch) <= BatchSize
          /\ worker.room \in Rooms \cup {None} /\ worker.attempt \in 1 .. MaxAttempts
BY DEF IInv, Typed, WorkerStates

LEMMA InitHolds == Init => IInv
<1> SUFFICES ASSUME Init PROVE IInv
  OBVIOUS
<1>1. \A s : s = <<>> => /\ Line(s) /\ (\A x : ~Has(s, x)) /\ s \in Seq(Event) /\ Len(s) = 0
  BY DEF Line, Has
<1>2. Typed
  BY <1>1, ShareAssumption, WorkerRests DEF Init, Typed, Calm, StartStates, StopStates, ReadStates
<1>3. Serial
  BY <1>1 DEF Init, Serial, Idle, Gathering, Calm
<1>4. Housed
  BY DEF Init, Housed, Idle, Gathering, Calm, NothingAfterDelete, NoOrphan, StartsAt, StopsAt
<1>5. Logged /\ Hastes
  BY <1>1 DEF Init, Logged, Hastes, Calm
<1>6. Flows
  BY <1>1 DEF Init, Flows, Idle, Gathering, Upward, Passed
<1> QED BY <1>2, <1>3, <1>4, <1>5, <1>6 DEF IInv

\* The events stay where they are, or the worker forgets its batch.
LEMMA FlowsStay ==
    ASSUME IInv, queue' = queue, published' = published, seen' = seen,
           worker'.batch \in {worker.batch, <<>>}
    PROVE Flows'
<1>1. /\ queue \in Seq(Event) /\ worker.batch \in Seq(Event) /\ published \in Nat
      /\ \A r \in Rooms : seen[r] \in SUBSET Nat
  BY DEF IInv, Typed, WorkerStates
<1>2. /\ Upward(queue, worker.batch, published)
      /\ \A r \in Rooms : Passed(seen[r], queue, worker.batch, published)
  BY DEF IInv, Flows
<1>3. /\ Upward(queue, <<>>, published)
      /\ \A r \in Rooms : Passed(seen[r], queue, <<>>, published)
  BY <1>1, <1>2, FlowEmpty
<1>4. \A w : w \in {worker.batch, <<>>} =>
          /\ Upward(queue, w, published)
          /\ \A r \in Rooms : Passed(seen[r], queue, w, published)
  BY <1>2, <1>3
<1> QED BY <1>4 DEF Flows

\* One task queues up for the lock of the requests.
LEMMA LockJoined ==
    ASSUME IInv, NEW t \in Tasks, ~Has(lock, t), lock' = Append(lock, t)
    PROVE Joins(lock, t, lock')
BY LineJoins DEF IInv, Typed, WorkerStates

LEMMA AuditJoined ==
    ASSUME IInv, NEW t \in Tasks, ~Has(audit, t), audit' = Append(audit, t)
    PROVE Joins(audit, t, audit')
BY LineJoins DEF IInv, Typed, WorkerStates

LEMMA LockLeft ==
    ASSUME IInv, NEW t, lock' = Without(t, lock)
    PROVE Leaves(lock, t, lock')
BY LineLeaves DEF IInv, Typed, WorkerStates

LEMMA AuditLeft ==
    ASSUME IInv, NEW t, audit' = Without(t, audit)
    PROVE Leaves(audit, t, audit')
BY LineLeaves DEF IInv, Typed, WorkerStates

\* Who has the lock of the requests, or that of the logs, has it alone.
LEMMA LockHeld ==
    ASSUME IInv, NEW t, Holds(t, lock)
    PROVE Has(lock, t) /\ \A y : Holds(y, lock) => y = t
BY Holder DEF IInv, Typed, WorkerStates

LEMMA AuditHeld ==
    ASSUME IInv, NEW t, Holds(t, audit)
    PROVE Has(audit, t) /\ \A y : Has(audit, y) => ~Behind(audit, t, y)
BY Holder DEF IInv, Typed, WorkerStates

LEMMA PublishStep ==
    ASSUME IInv, NEW type \in SharedTypes, Publish(type)
    PROVE IInv'
<1>1. PICK e : e = [number |-> published + 1, lossy |-> type \in LossyTypes]
  OBVIOUS
<1>2. /\ queue \in Seq(Event) /\ Len(queue) <= QueueSize /\ worker.batch \in Seq(Event)
      /\ published \in Nat /\ QueueSize \in Nat /\ QueueSize >= 1
      /\ published + 1 \in 1 .. MaxEvents /\ published' = published + 1
  BY ShareAssumption DEF IInv, Typed, WorkerStates, Publish
<1>3. e \in Event /\ e.number = published + 1
  BY <1>1, <1>2 DEF Event
<1>4. queue' = Queued(e)
  BY <1>1 DEF Publish
<1>5. /\ Upward(queue, worker.batch, published)
      /\ \A r \in Rooms : seen[r] \in SUBSET Nat /\ Passed(seen[r], queue, worker.batch, published)
  BY DEF IInv, Flows, Typed
<1>6. /\ queue' \in Seq(Event) /\ Len(queue') <= QueueSize
      /\ queue' = queue \/ Follows(queue', queue, e)
  <2>1. CASE Queued(e) = queue
    BY <1>2, <1>4, <2>1
  <2>2. CASE Queued(e) = Append(queue, e) /\ Len(queue) < QueueSize
    <3>1. Append(queue, e) \in Seq(Event) /\ Follows(Append(queue, e), queue, e)
      BY <1>2, <1>3, FollowsAppend
    <3>2. Len(Append(queue, e)) = Len(queue) + 1 /\ Len(queue) \in Nat
      BY <1>2
    <3>3. Len(queue) + 1 <= QueueSize
      BY <1>2, <2>2, <3>2
    <3> QED BY <1>4, <2>2, <3>1, <3>2, <3>3
  <2>3. CASE \E k \in 1 .. Len(queue) : queue[k].lossy /\ Queued(e) = Append(RemoveAt(queue, k), e)
    <3>1. PICK k \in 1 .. Len(queue) : Queued(e) = Append(RemoveAt(queue, k), e)
      BY <2>3
    <3>2. /\ Append(RemoveAt(queue, k), e) \in Seq(Event)
          /\ Len(Append(RemoveAt(queue, k), e)) = Len(queue)
          /\ Follows(Append(RemoveAt(queue, k), e), queue, e)
      BY <1>2, <1>3, FollowsReplace
    <3> QED BY <1>2, <1>4, <3>1, <3>2
  <2> QED BY <1>2, <1>3, <2>1, <2>2, <2>3, QueuedIs
<1>7. /\ Upward(queue', worker.batch, published + 1)
      /\ \A r \in Rooms : Passed(seen[r], queue', worker.batch, published + 1)
  <2>1. CASE queue' = queue
    BY <1>2, <1>5, <2>1, FlowDrops
  <2>2. CASE Follows(queue', queue, e)
    <3>1. PICK v : v = queue'
      OBVIOUS
    <3>2. /\ Upward(v, worker.batch, published + 1)
          /\ \A h \in SUBSET Nat : Passed(h, queue, worker.batch, published) =>
                                      Passed(h, v, worker.batch, published + 1)
      BY <1>2, <1>3, <1>5, <1>6, <2>2, <3>1, FlowComes
    <3> QED BY <1>5, <3>1, <3>2
  <2> QED BY <1>6, <2>1, <2>2
<1>8. Flows'
  <2>1. worker' = worker /\ seen' = seen
    BY DEF Publish, outside
  <2> QED BY <1>2, <1>7, <2>1 DEF Flows
<1>9. Typed'
  BY <1>2, <1>6 DEF IInv, Typed, Publish, host, logs, outside
<1>10. Serial'
  BY DEF IInv, Serial, Publish, host
<1>11. Housed'
  BY DEF IInv, Housed, Publish, host, outside, NothingAfterDelete, NoOrphan, StartsAt, StopsAt
<1>12. Logged' /\ Hastes'
  BY DEF IInv, Logged, Hastes, Publish, host, logs, outside
<1> QED BY <1>8, <1>9, <1>10, <1>11, <1>12 DEF IInv

\* The worker
LEMMA TakeStep ==
    ASSUME IInv, Take
    PROVE IInv'
<1>1. /\ queue \in Seq(Event) /\ queue # <<>> /\ worker.batch \in Seq(Event)
      /\ Len(queue) <= QueueSize /\ Len(worker.batch) < BatchSize
      /\ published \in Nat /\ QueueSize \in Nat /\ BatchSize \in Nat
  BY ShareAssumption DEF IInv, Typed, WorkerStates, Take
<1>2. PICK t, b : t = Tail(queue) /\ b = Append(worker.batch, Head(queue))
  OBVIOUS
<1>3. worker' = [worker EXCEPT !.batch = b] /\ queue' = t
  BY <1>2 DEF Take
<1>4. /\ Upward(queue, worker.batch, published)
      /\ \A r \in Rooms : seen[r] \in SUBSET Nat /\ Passed(seen[r], queue, worker.batch, published)
  BY DEF IInv, Flows, Typed
<1>5. /\ t \in Seq(Event) /\ Len(t) = Len(queue) - 1 /\ b \in Seq(Event)
      /\ Len(b) = Len(worker.batch) + 1 /\ Upward(t, b, published)
      /\ \A h \in SUBSET Nat : Passed(h, queue, worker.batch, published) => Passed(h, t, b, published)
  BY <1>1, <1>2, <1>4, FlowTaken, Zenon
<1>6. Len(t) <= QueueSize /\ Len(b) <= BatchSize
  <2>1. Len(queue) \in Nat /\ Len(worker.batch) \in Nat
    BY <1>1
  <2> QED BY <1>1, <1>5, <2>1
<1>7. worker'.batch = b /\ worker'.phase = worker.phase /\ worker'.room = worker.room
  BY <1>3 DEF IInv, Typed, WorkerStates
<1>8. Flows'
  <2>1. published' = published /\ seen' = seen
    BY DEF Take, outside
  <2>2. \A r \in Rooms : Passed(seen[r], t, b, published)
    BY <1>4, <1>5
  <2> QED BY <1>3, <1>5, <1>7, <2>1, <2>2 DEF Flows
<1>w. worker' \in WorkerStates
  BY <1>3, <1>5, WorkerHas, WorkerMoves, Zenon
<1>9. Typed'
  BY <1>3, <1>5, <1>6, <1>7, <1>w DEF IInv, Typed, Take, host, logs, outside
<1>10. Serial'
  BY <1>7 DEF IInv, Serial, Take, host
<1>11. Housed'
  BY <1>7 DEF IInv, Housed, Take, host, outside, NothingAfterDelete, NoOrphan, StartsAt, StopsAt
<1>12. Logged' /\ Hastes'
  BY DEF IInv, Logged, Hastes, Take, host, logs, outside
<1> QED BY <1>8, <1>9, <1>10, <1>11, <1>12 DEF IInv

\* The requests keep their places in a lock that only the worker joins or leaves.
LEMMA WorkerSerial ==
    ASSUME IInv, UNCHANGED host,
           Joins(lock, "worker", lock') \/ Leaves(lock, "worker", lock'),
           Has(lock', "worker") <=> worker'.phase \in {"waiting", "posting"},
           worker'.phase # "posting"
    PROVE Serial'
<1>1. \A x : x # "worker" => /\ Has(lock', x) <=> Has(lock, x)
                             /\ Holds(x, lock) => Holds(x, lock')
  BY DEF Joins, Leaves
<1>2. UNCHANGED <<starting, stopping, reading, heartbeat>>
  BY DEF host
<1>3. \A k \in Starters : /\ Has(lock', k) <=> starting'[k].phase \in {"waiting", "creating"}
                          /\ starting'[k].phase = "creating" => Holds(k, lock')
  BY <1>1, <1>2, TasksAre DEF IInv, Serial
<1>4. \A k \in Stoppers : /\ Has(lock', k) <=> stopping'[k].phase \in {"waiting", "deleting"}
                          /\ stopping'[k].phase = "deleting" => Holds(k, lock')
  BY <1>1, <1>2, TasksAre DEF IInv, Serial
<1>5. \A k \in Readers : /\ Has(lock', k) <=> reading'[k].phase \in {"waiting", "fetching"}
                         /\ reading'[k].phase = "fetching" => Holds(k, lock')
  BY <1>1, <1>2, TasksAre DEF IInv, Serial
<1>6. /\ Has(lock', "heartbeat") <=> heartbeat'.phase \in {"waiting", "beating"}
      /\ heartbeat'.phase = "beating" => Holds("heartbeat", lock')
  BY <1>1, <1>2 DEF IInv, Serial
<1> QED BY <1>3, <1>4, <1>5, <1>6 DEF Serial

LEMMA CloseBatchStep ==
    ASSUME IInv, CloseBatch
    PROVE IInv'
<1>1. CASE room = None
  <2>1. worker' = Idle /\ lock' = lock
    BY <1>1 DEF CloseBatch
  <2>2. Flows'
    BY <2>1, FlowsStay DEF CloseBatch, feed, outside, Idle, Gathering
  <2>3. Typed'
    BY <2>1, WorkerRests, EmptyBatch DEF IInv, Typed, CloseBatch, feed, host, logs, outside
  <2>4. Serial'
    BY <2>1 DEF IInv, Serial, CloseBatch, host, Idle, Gathering
  <2>5. Housed'
    BY <2>1 DEF IInv, Housed, CloseBatch, host, outside, NothingAfterDelete, NoOrphan, StartsAt, StopsAt, Idle, Gathering
  <2>6. Logged' /\ Hastes'
    BY DEF IInv, Logged, Hastes, CloseBatch, host, logs, outside
  <2> QED BY <2>2, <2>3, <2>4, <2>5, <2>6 DEF IInv
<1>2. CASE room # None
  <2>1. /\ worker' = [worker EXCEPT !.phase = "waiting", !.room = room]
        /\ lock' = Append(lock, "worker")
    BY <1>2 DEF CloseBatch
  <2>2. ~Has(lock, "worker")
    BY DEF IInv, Serial, CloseBatch
  <2>3. Joins(lock, "worker", lock')
    BY <2>1, <2>2, LockJoined, TasksAre
  <2>4. /\ worker'.phase = "waiting" /\ worker'.room = room /\ worker'.batch = worker.batch
    BY <2>1 DEF IInv, Typed, WorkerStates
  <2>5. Flows'
    BY <2>4, FlowsStay DEF CloseBatch, feed, outside
  <2>w. worker' \in WorkerStates
    <3>1. room \in Rooms \cup {None}
      BY DEF IInv, Typed
    <3> QED BY <2>1, <3>1, WorkerHas, WorkerMoves
  <2>6. Typed'
    BY <2>3, <2>4, <2>w DEF IInv, Typed, CloseBatch, feed, host, logs, outside, Joins
  <2>7. Serial'
    <3>1. Has(lock', "worker")
      BY <2>3 DEF Joins
    <3>2. UNCHANGED host
      BY DEF CloseBatch
    <3> QED BY <2>3, <2>4, <3>1, <3>2, WorkerSerial
  <2>8. Housed'
    BY <1>2, <2>4 DEF IInv, Housed, CloseBatch, host, outside, NothingAfterDelete, NoOrphan, StartsAt, StopsAt
  <2>9. Logged' /\ Hastes'
    BY DEF IInv, Logged, Hastes, CloseBatch, host, logs, outside
  <2> QED BY <2>5, <2>6, <2>7, <2>8, <2>9 DEF IInv
<1> QED BY <1>1, <1>2

LEMMA PostStep ==
    ASSUME IInv, Post
    PROVE IInv'
<1>1. CASE worker.room = room
  <2>1. worker' = [worker EXCEPT !.phase = "posting"] /\ lock' = lock
    BY <1>1 DEF Post
  <2>2. worker'.phase = "posting" /\ worker'.room = worker.room /\ worker'.batch = worker.batch
    BY <2>1 DEF IInv, Typed, WorkerStates
  <2>3. Flows'
    BY <2>2, FlowsStay DEF Post, feed, outside
  <2>w. worker' \in WorkerStates
    BY <2>1, WorkerHas, WorkerMoves
  <2>4. Typed'
    BY <2>1, <2>2, <2>w DEF IInv, Typed, Post, feed, host, logs, outside
  <2>5. Serial'
    BY <2>1, <2>2 DEF IInv, Serial, Post, host
  <2>6. Housed'
    BY <1>1, <2>2 DEF IInv, Housed, Post, host, outside, NothingAfterDelete, NoOrphan, StartsAt, StopsAt
  <2>7. Logged' /\ Hastes'
    BY DEF IInv, Logged, Hastes, Post, host, logs, outside
  <2> QED BY <2>3, <2>4, <2>5, <2>6, <2>7 DEF IInv
<1>2. CASE worker.room # room
  <2>1. worker' = Idle /\ lock' = Without("worker", lock)
    BY <1>2 DEF Post
  <2>2. Leaves(lock, "worker", lock')
    BY <2>1, LockLeft
  <2>3. Flows'
    BY <2>1, FlowsStay DEF Post, feed, outside, Idle, Gathering
  <2>4. Typed'
    BY <2>1, <2>2, WorkerRests, EmptyBatch DEF IInv, Typed, Post, feed, host, logs, outside, Leaves
  <2>5. Serial'
    <3>1. ~Has(lock', "worker") /\ worker'.phase = "gathering"
      BY <2>1, <2>2 DEF Leaves, Idle, Gathering
    <3>2. UNCHANGED host
      BY DEF Post
    <3> QED BY <2>2, <3>1, <3>2, WorkerSerial
  <2>6. Housed'
    BY <2>1 DEF IInv, Housed, Post, host, outside, NothingAfterDelete, NoOrphan, StartsAt, StopsAt, Idle, Gathering
  <2>7. Logged' /\ Hastes'
    BY DEF IInv, Logged, Hastes, Post, host, logs, outside
  <2> QED BY <2>3, <2>4, <2>5, <2>6, <2>7 DEF IInv
<1> QED BY <1>1, <1>2

\* The relay may have the batch now.
LEMMA FlowsReach ==
    ASSUME IInv, queue' = queue, published' = published, worker.room \in Rooms,
           Reaches(worker.room) \/ seen' = seen, worker'.batch \in {worker.batch, <<>>}
    PROVE /\ Flows' /\ seen' \in [Rooms -> SUBSET Nat]
          /\ \A r \in Rooms : \A n \in seen'[r] \ seen[r], k \in seen[r] : k < n
<1>1. /\ queue \in Seq(Event) /\ worker.batch \in Seq(Event) /\ published \in Nat
      /\ seen \in [Rooms -> SUBSET Nat]
      /\ \A r \in Rooms : seen[r] \in SUBSET Nat
  BY DEF IInv, Typed, WorkerStates
<1>2. /\ Upward(queue, worker.batch, published)
      /\ \A r \in Rooms : Passed(seen[r], queue, worker.batch, published)
  BY DEF IInv, Flows
<1>3. CASE seen' = seen
  BY <1>1, <1>3, FlowsStay
<1>4. CASE Reaches(worker.room)
  <2>1. PICK h, g : /\ h = seen[worker.room] /\ g = h \cup BatchNumbers(worker.batch)
                    /\ seen' = [seen EXCEPT ![worker.room] = g]
    BY <1>4 DEF Reaches, BatchNumbers
  <2>2. h \in SUBSET Nat /\ Passed(h, queue, worker.batch, published)
    BY <1>1, <1>2, <2>1
  <2>3. /\ g \in SUBSET Nat /\ Passed(g, queue, worker.batch, published)
        /\ \A n \in g \ h, k \in h : k < n
    <3>1. PICK b : b = worker.batch
      OBVIOUS
    <3>2. /\ h \cup BatchNumbers(b) \in SUBSET Nat
          /\ Passed(h \cup BatchNumbers(b), queue, b, published)
          /\ \A n \in (h \cup BatchNumbers(b)) \ h, k \in h : k < n
      BY <1>1, <1>2, <2>2, <3>1, FlowReaches
    <3> QED BY <2>1, <3>1, <3>2
  <2>4. /\ seen' \in [Rooms -> SUBSET Nat]
        /\ \A r \in Rooms : seen'[r] = IF r = worker.room THEN g ELSE seen[r]
    BY <1>1, <2>1, <2>3
  <2>5. \A r \in Rooms : \A n \in seen'[r] \ seen[r], k \in seen[r] : k < n
    BY <2>1, <2>3, <2>4
  <2>6. \A r \in Rooms : seen'[r] \in SUBSET Nat /\ Passed(seen'[r], queue, worker.batch, published)
    BY <1>1, <1>2, <2>3, <2>4
  <2>7. \A r \in Rooms : Passed(seen'[r], queue, <<>>, published) /\ Upward(queue, <<>>, published)
    BY <1>1, <1>2, <2>6, FlowEmpty
  <2>8. Upward(queue, <<>>, published)
    BY <1>1, <1>2, FlowEmpty
  <2>9. \A w : w \in {worker.batch, <<>>} =>
            /\ Upward(queue, w, published)
            /\ \A r \in Rooms : Passed(seen'[r], queue, w, published)
    BY <1>2, <2>6, <2>7, <2>8
  <2>10. Flows'
    BY <2>9 DEF Flows
  <2> QED BY <2>4, <2>5, <2>10
<1> QED BY <1>3, <1>4

LEMMA PostedStep ==
    ASSUME IInv, Posted \/ PostFails
    PROVE IInv'
<1>1. /\ worker.phase = "posting" /\ worker.room \in Rooms
      /\ lock' = Without("worker", lock)
  BY DEF IInv, Typed, WorkerStates, Housed, Posted, PostFails
<1>2. /\ worker' \in WorkerStates /\ worker'.phase \in {"gathering", "pausing"}
      /\ worker'.batch \in {worker.batch, <<>>} /\ Len(worker'.batch) <= BatchSize
      /\ worker'.phase = "pausing" => worker'.room = worker.room
  <2>1. CASE worker' = Idle
    BY <2>1, EmptyBatch, WorkerRests
  <2>2. CASE worker' = Retried /\ worker.attempt < MaxAttempts
    <3>1. worker.attempt + 1 \in 1 .. MaxAttempts
      BY <2>2, EmptyBatch DEF IInv, Typed, WorkerStates
    <3> QED BY <2>2, <3>1, WorkerHas DEF Retried, WorkerStates
  <2> QED BY <2>1, <2>2 DEF Posted, PostFails, Dropped
<1>3. Leaves(lock, "worker", lock')
  BY <1>1, LockLeft
<1>4. Reaches(worker.room) \/ seen' = seen
  BY DEF Posted, PostFails
<1>5. Flows' /\ seen' \in [Rooms -> SUBSET Nat]
  BY <1>1, <1>2, <1>4, FlowsReach DEF Posted, PostFails, feed
<1>6. UNCHANGED <<room, feed, host, logs, relay, replaced, life>>
  BY DEF Posted, PostFails
<1>7. Typed'
  BY <1>2, <1>3, <1>5, <1>6 DEF IInv, Typed, feed, host, logs, Leaves
<1>8. Serial'
  <2>1. ~Has(lock', "worker")
    BY <1>3 DEF Leaves
  <2> QED BY <1>2, <1>3, <1>6, <2>1, WorkerSerial
<1>9. Housed'
  BY <1>1, <1>2, <1>6, EmptyBatch DEF IInv, Housed, host, NothingAfterDelete, NoOrphan, StartsAt, StopsAt
<1>10. Logged' /\ Hastes'
  BY <1>6 DEF IInv, Logged, Hastes, host, logs
<1> QED BY <1>5, <1>7, <1>8, <1>9, <1>10 DEF IInv

LEMMA ResumeStep ==
    ASSUME IInv, Resume
    PROVE IInv'
<1>1. /\ worker' = [worker EXCEPT !.phase = "waiting"] /\ lock' = Append(lock, "worker")
      /\ ~Has(lock, "worker")
  BY DEF IInv, Serial, Resume
<1>2. Joins(lock, "worker", lock')
  BY <1>1, LockJoined, TasksAre
<1>3. worker'.phase = "waiting" /\ worker'.room = worker.room /\ worker'.batch = worker.batch
  BY <1>1 DEF IInv, Typed, WorkerStates
<1>4. Flows'
  BY <1>3, FlowsStay DEF Resume, feed, outside
<1>w. worker' \in WorkerStates
  BY <1>1, WorkerHas, WorkerMoves
<1>5. Typed'
  BY <1>2, <1>3, <1>w DEF IInv, Typed, Resume, feed, host, logs, outside, Joins
<1>6. Serial'
  <2>1. Has(lock', "worker")
    BY <1>2 DEF Joins
  <2>2. UNCHANGED host
    BY DEF Resume
  <2> QED BY <1>2, <1>3, <2>1, <2>2, WorkerSerial
<1>7. Housed'
  BY <1>3 DEF IInv, Housed, Resume, host, outside, NothingAfterDelete, NoOrphan, StartsAt, StopsAt
<1>8. Logged' /\ Hastes'
  BY DEF IInv, Logged, Hastes, Resume, host, logs, outside
<1> QED BY <1>4, <1>5, <1>6, <1>7, <1>8 DEF IInv

LEMMA PostRefusedStep ==
    ASSUME IInv, PostRefused
    PROVE IInv'
<1>1. /\ worker.phase = "posting" /\ relay[worker.room] = "gone" /\ room' = None
      /\ worker' = Idle /\ lock' = Without("worker", lock)
  BY DEF PostRefused
<1>2. Leaves(lock, "worker", lock')
  BY <1>1, LockLeft
<1>3. Flows'
  BY <1>1, FlowsStay DEF PostRefused, feed, outside, Idle, Gathering
<1>4. Typed'
  BY <1>1, <1>2, WorkerRests, EmptyBatch DEF IInv, Typed, PostRefused, feed, host, logs, outside, Leaves
<1>5. Serial'
  <2>1. ~Has(lock', "worker") /\ worker'.phase = "gathering"
    BY <1>1, <1>2 DEF Leaves, Idle, Gathering
  <2>2. UNCHANGED host
    BY DEF PostRefused
  <2> QED BY <1>2, <2>1, <2>2, WorkerSerial
<1>6. Housed'
  BY <1>1, EmptyBatch DEF IInv, Housed, PostRefused, host, outside, NothingAfterDelete, NoOrphan, StartsAt, StopsAt, Idle, Gathering
<1>7. Logged' /\ Hastes'
  BY DEF IInv, Logged, Hastes, PostRefused, host, logs, outside
<1> QED BY <1>3, <1>4, <1>5, <1>6, <1>7 DEF IInv

\* What changes when one request goes on.
LEMMA SetAt ==
    ASSUME NEW S, NEW T, NEW f \in [S -> T], NEW k \in S, NEW v \in T,
           NEW g, g = [f EXCEPT ![k] = v]
    PROVE g \in [S -> T] /\ g[k] = v /\ \A j \in S : j # k => g[j] = f[j]
OBVIOUS

\* What the requests know.
LEMMA RequestsHave ==
    ASSUME IInv
    PROVE /\ starting \in [Starters -> StartStates] /\ stopping \in [Stoppers -> StopStates]
          /\ reading \in [Readers -> ReadStates]
          /\ room \in Rooms \cup {None} /\ None \notin Rooms
          /\ \A k \in Starters : starting[k].room \in Rooms \cup {None}
          /\ \A k \in Stoppers : stopping[k].room \in Rooms \cup {None}
          /\ \A k \in Readers : reading[k].room \in Rooms \cup {None}
          /\ relay \in [Rooms -> {"none", "open", "gone", "lost"}]
          /\ accessLog \in [Rooms -> {"none", "active", "ended"}]
BY EmptyBatch DEF IInv, Typed, StartStates, StopStates, ReadStates

LEMMA StatesAre ==
    /\ Calm \in StartStates /\ Calm \in StopStates /\ Calm \in ReadStates
    /\ Calm.phase = "none" /\ Calm.room = None /\ Calm = At("none", None)
    /\ \A p, r : At(p, r).phase = p /\ At(p, r).room = r
    /\ \A p \in {"none", "waiting", "creating", "keeping"}, r \in Rooms \cup {None} :
          At(p, r) \in StartStates
    /\ \A p \in {"none", "waiting", "deleting", "keeping", "stopped"}, r \in Rooms \cup {None} :
          At(p, r) \in StopStates
    /\ \A p \in {"none", "loading", "waiting", "fetching", "keeping"}, r \in Rooms \cup {None} :
          At(p, r) \in ReadStates
BY DEF Calm, At, StartStates, StopStates, ReadStates

\* One request of a kind goes on, the others stay.
Starts(k, p, r) ==
    /\ starting' \in [Starters -> StartStates]
    /\ starting'[k].phase = p /\ starting'[k].room = r
    /\ \A j \in Starters : j # k => starting'[j] = starting[j]
Stops(k, p, r) ==
    /\ stopping' \in [Stoppers -> StopStates]
    /\ stopping'[k].phase = p /\ stopping'[k].room = r
    /\ \A j \in Stoppers : j # k => stopping'[j] = stopping[j]
Reads(k, p, r) ==
    /\ reading' \in [Readers -> ReadStates]
    /\ reading'[k].phase = p /\ reading'[k].room = r
    /\ \A j \in Readers : j # k => reading'[j] = reading[j]

LEMMA StartsSet ==
    ASSUME IInv, NEW k \in Starters, NEW p \in {"none", "waiting", "creating", "keeping"},
           NEW r \in Rooms \cup {None}, starting' = [starting EXCEPT ![k] = At(p, r)]
    PROVE Starts(k, p, r)
<1>1. At(p, r) \in StartStates /\ At(p, r).phase = p /\ At(p, r).room = r
  BY StatesAre
<1> QED BY <1>1, RequestsHave, SetAt DEF Starts

LEMMA StopsSet ==
    ASSUME IInv, NEW k \in Stoppers, NEW p \in {"none", "waiting", "deleting", "keeping", "stopped"},
           NEW r \in Rooms \cup {None}, stopping' = [stopping EXCEPT ![k] = At(p, r)]
    PROVE Stops(k, p, r)
<1>1. At(p, r) \in StopStates /\ At(p, r).phase = p /\ At(p, r).room = r
  BY StatesAre
<1> QED BY <1>1, RequestsHave, SetAt DEF Stops

LEMMA ReadsSet ==
    ASSUME IInv, NEW k \in Readers, NEW p \in {"none", "loading", "waiting", "fetching", "keeping"},
           NEW r \in Rooms \cup {None}, reading' = [reading EXCEPT ![k] = At(p, r)]
    PROVE Reads(k, p, r)
<1>1. At(p, r) \in ReadStates /\ At(p, r).phase = p /\ At(p, r).room = r
  BY StatesAre
<1> QED BY <1>1, RequestsHave, SetAt DEF Reads

LEMMA StartsPhase ==
    ASSUME IInv, NEW k \in Starters, NEW p \in {"none", "waiting", "creating", "keeping"},
           starting' = [starting EXCEPT ![k].phase = p]
    PROVE Starts(k, p, starting[k].room)
BY RequestsHave DEF Starts, StartStates

LEMMA StopsPhase ==
    ASSUME IInv, NEW k \in Stoppers,
           NEW p \in {"none", "waiting", "deleting", "keeping", "stopped"},
           stopping' = [stopping EXCEPT ![k].phase = p]
    PROVE Stops(k, p, stopping[k].room)
BY RequestsHave DEF Stops, StopStates

LEMMA ReadsPhase ==
    ASSUME IInv, NEW k \in Readers,
           NEW p \in {"none", "loading", "waiting", "fetching", "keeping"},
           reading' = [reading EXCEPT ![k].phase = p]
    PROVE Reads(k, p, reading[k].room)
BY RequestsHave DEF Reads, ReadStates

\* Starting a room
LEMMA StartAskedStep ==
    ASSUME IInv, NEW k \in Starters, StartAsked(k)
    PROVE IInv'
<1>1. /\ starting[k] = Calm /\ starting[k].phase = "none" /\ room = None
      /\ lock' = Append(lock, k) /\ ~Has(lock, k)
  <2>1. /\ starting[k] = Calm /\ starting[k].phase = "none" /\ room = None
        /\ lock' = Append(lock, k)
    BY StatesAre DEF StartAsked
  <2> QED BY <2>1 DEF IInv, Serial
<1>2. Joins(lock, k, lock')
  BY <1>1, LockJoined, TasksAre
<1>3. Starts(k, "waiting", None)
  BY StartsSet, StatesAre DEF StartAsked
<1>4. Flows'
  BY FlowsStay DEF StartAsked, feed, outside
<1>5. Typed'
  BY <1>2, <1>3 DEF IInv, Typed, StartAsked, feed, logs, outside, Joins, Starts
<1>6. Serial'
  BY <1>2, <1>3, TasksAre DEF IInv, Serial, StartAsked, Joins, Starts
<1>7. Housed'
  <2>1. \A j \in Starters : StartsAt(j)'
    BY <1>1, <1>3 DEF IInv, Housed, StartAsked, outside, StartsAt, Starts
  <2>2. NoOrphan'
    <3>1. starting[k].room = None
      BY <1>1, StatesAre
    <3> QED BY <1>3, <3>1, RequestsHave DEF IInv, Housed, StartAsked, outside, NoOrphan, Starts
  <2> QED BY <2>1, <2>2 DEF IInv, Housed, StartAsked, outside, NothingAfterDelete, StopsAt
<1>8. Logged' /\ Hastes'
  BY <1>1, <1>3 DEF IInv, Logged, Hastes, StartAsked, logs, outside, Starts
<1> QED BY <1>4, <1>5, <1>6, <1>7, <1>8 DEF IInv

LEMMA CreateStep ==
    ASSUME IInv, NEW k \in Starters, Create(k)
    PROVE IInv'
<1>1. PICK r \in Rooms : /\ relay[r] = "none" /\ relay' = [relay EXCEPT ![r] = "open"]
                         /\ starting' = [starting EXCEPT ![k] = At("creating", r)]
  BY DEF Create
<1>2. /\ relay' \in [Rooms -> {"none", "open", "gone", "lost"}]
      /\ \A x \in Rooms : relay'[x] = IF x = r THEN "open" ELSE relay[x]
  BY <1>1, RequestsHave
<1>3. Starts(k, "creating", r)
  BY <1>1, StartsSet, StatesAre
<1>4. /\ starting[k].phase = "waiting" /\ Holds(k, lock) /\ Has(lock, k)
      /\ starting[k].room = None
  BY LockHeld DEF Create, IInv, Housed, StartsAt
<1>5. Flows'
  BY FlowsStay DEF Create, feed
<1>6. Typed'
  BY <1>2, <1>3 DEF IInv, Typed, Create, feed, logs, Starts
<1>7. Serial'
  BY <1>3, <1>4 DEF IInv, Serial, Create, Starts
<1>8. Housed'
  <2>1. \A x \in Rooms : relay[x] # "none" => x # r /\ relay'[x] = relay[x]
    BY <1>1, <1>2
  <2>2. \A j \in Stoppers : stopping[j].room # r /\ (stopping[j].room # None => relay'[stopping[j].room] = relay[stopping[j].room])
    BY <1>1, <2>1, RequestsHave DEF IInv, Housed, StopsAt
  <2>3. room # r /\ (room # None => relay'[room] = relay[room])
    BY <1>1, <2>1, RequestsHave DEF IInv, Housed
  <2>4. \A j \in Stoppers : StopsAt(j)'
    BY <2>2, RequestsHave DEF IInv, Housed, Create, StopsAt
  <2>5. ASSUME NEW j \in Starters PROVE StartsAt(j)'
    <3>1. CASE j = k
      BY <1>2, <1>3, <2>2, <2>3, <3>1, RequestsHave DEF Create, StartsAt, Starts
    <3>2. CASE j # k
      <4>1. starting[j].phase \in {"creating", "keeping"} =>
                starting[j].room \in Rooms /\ relay[starting[j].room] # "none"
        BY RequestsHave DEF IInv, Housed, StartsAt
      <4> QED BY <1>3, <2>1, <3>2, <4>1 DEF IInv, Housed, Create, StartsAt, Starts
    <3> QED BY <3>1, <3>2
  <2>6. NoOrphan'
    BY <1>2, <1>3, <1>4, RequestsHave DEF IInv, Housed, Create, NoOrphan, Starts
  <2> QED BY <2>3, <2>4, <2>5, <2>6 DEF IInv, Housed, Create, NothingAfterDelete
<1>9. Logged'
  <2>1. \A j \in Starters : starting'[j].phase = "keeping" <=> starting[j].phase = "keeping"
    BY <1>3, <1>4 DEF Starts
  <2>2. \A j \in Starters : starting'[j].phase = "keeping" => starting'[j] = starting[j]
    BY <1>3 DEF Starts
  <2>3. \A x \in Rooms : relay[x] \in {"gone", "lost"} => relay'[x] = relay[x]
    BY <1>1, <1>2
  <2> QED BY <2>1, <2>2, <2>3 DEF IInv, Logged, Create, logs
<1>10. Hastes'
  BY <1>3, <1>4 DEF IInv, Hastes, Create, Starts
<1> QED BY <1>5, <1>6, <1>7, <1>8, <1>9, <1>10 DEF IInv

LEMMA CreatedStep ==
    ASSUME IInv, NEW k \in Starters, Created(k)
    PROVE IInv'
<1>1. /\ starting[k].phase = "creating" /\ room' = starting[k].room
      /\ replaced' = replaced \cup ({room} \ {None})
      /\ lock' = Without(k, lock) /\ audit' = Append(audit, k)
      /\ starting' = [starting EXCEPT ![k].phase = "keeping"]
  BY DEF Created
<1>2. /\ Holds(k, lock) /\ ~Has(audit, k) /\ starting[k].room \in Rooms
      /\ relay[starting[k].room] = "open" /\ starting[k].room # room
      /\ accessLog[starting[k].room] # "ended"
      /\ \A j \in Stoppers : stopping[j].room # starting[k].room
  BY <1>1, RequestsHave DEF IInv, Serial, Logged, Housed, StartsAt
<1>3. Leaves(lock, k, lock') /\ Joins(audit, k, audit')
  BY <1>1, <1>2, LockLeft, AuditJoined, TasksAre
<1>4. worker.phase # "posting" /\ \A j \in Starters : j # k => starting[j].phase # "creating"
  BY <1>2, LockHeld, TasksAre DEF IInv, Serial
<1>5. Starts(k, "keeping", starting[k].room)
  BY <1>1, StartsPhase
<1>6. Flows'
  BY FlowsStay DEF Created, feed
<1>7. Typed'
  BY <1>1, <1>2, <1>3, <1>5, RequestsHave DEF IInv, Typed, Created, feed, Joins, Leaves, Starts
<1>8. Serial'
  BY <1>1, <1>3, <1>5, TasksAre DEF IInv, Serial, Created, Leaves, Starts
<1>9. Housed'
  <2>1. ASSUME NEW j \in Starters PROVE StartsAt(j)'
    <3>1. CASE j = k
      BY <1>1, <1>2, <1>5, <3>1, RequestsHave DEF Created, StartsAt, Starts
    <3>2. CASE j # k
      <4>1. starting'[j] = starting[j] /\ starting[j].phase # "creating"
        BY <1>4, <1>5, <3>2 DEF Starts
      <4> QED BY <1>1, <4>1, RequestsHave DEF IInv, Housed, Created, StartsAt
    <3> QED BY <3>1, <3>2
  <2>2. NoOrphan'
    <3>1. \A j \in Starters : starting'[j].room = starting[j].room
      BY <1>5 DEF Starts
    <3> QED BY <1>1, <3>1, RequestsHave DEF IInv, Housed, Created, NoOrphan
  <2>3. \A j \in Stoppers : StopsAt(j)'
    BY <1>1, <1>2 DEF IInv, Housed, Created, StopsAt
  <2> QED BY <1>1, <1>2, <1>4, <2>1, <2>2, <2>3 DEF IInv, Housed, Created, NothingAfterDelete
<1>10. Logged'
  <2>1. ASSUME NEW j \in Starters, starting'[j].phase = "keeping"
        PROVE /\ accessLog[starting'[j].room] # "ended"
              /\ \A i \in Stoppers : stopping[i].room = starting'[j].room => Behind(audit', i, j)
    <3>1. CASE j = k
      BY <1>2, <1>5, <3>1 DEF Starts
    <3>2. CASE j # k
      BY <1>3, <1>5, <2>1, <3>2, TasksAre DEF IInv, Logged, Starts, Joins
    <3> QED BY <3>1, <3>2
  <2>2. \A j \in Starters : Has(audit', j) <=> starting'[j].phase = "keeping"
    BY <1>3, <1>5 DEF IInv, Logged, Starts, Joins
  <2> QED BY <1>3, <2>1, <2>2, TasksAre DEF IInv, Logged, Created, Joins
<1>11. Hastes'
  BY <1>1, <1>5 DEF IInv, Hastes, Created, Starts
<1> QED BY <1>6, <1>7, <1>8, <1>9, <1>10, <1>11 DEF IInv

LEMMA CreateFailsStep ==
    ASSUME IInv, NEW k \in Starters, CreateFails(k)
    PROVE IInv'
<1>1. /\ starting[k].phase \in {"waiting", "creating"} /\ Holds(k, lock)
      /\ lock' = Without(k, lock)
  BY DEF CreateFails
<1>2. Leaves(lock, k, lock')
  BY <1>1, LockLeft
<1>3. /\ relay' \in [Rooms -> {"none", "open", "gone", "lost"}]
      /\ \A x \in Rooms : relay'[x] = IF x = starting[k].room THEN "lost" ELSE relay[x]
  BY RequestsHave DEF CreateFails
<1>4. Starts(k, "none", None)
  BY StartsSet, StatesAre DEF CreateFails
<1>5. starting[k].room # None =>
          /\ starting[k].room # room /\ \A j \in Stoppers : stopping[j].room # starting[k].room
  BY <1>1 DEF IInv, Housed, StartsAt
<1>6. \A j \in Starters : j # k => starting[j].phase # "creating"
  BY <1>1, LockHeld DEF IInv, Serial
<1>7. Flows'
  BY FlowsStay DEF CreateFails, feed
<1>8. Typed'
  BY <1>2, <1>3, <1>4 DEF IInv, Typed, CreateFails, feed, logs, Leaves, Starts
<1>9. Serial'
  BY <1>1, <1>2, <1>4, TasksAre DEF IInv, Serial, CreateFails, Leaves, Starts
<1>10. Housed'
  <2>1. ASSUME NEW j \in Starters PROVE StartsAt(j)'
    <3>1. CASE j = k
      BY <1>4, <3>1 DEF StartsAt, Starts
    <3>2. CASE j # k
      <4>1. starting'[j] = starting[j] /\ starting[j].phase # "creating"
        BY <1>4, <1>6, <3>2 DEF Starts
      <4>2. starting[j].phase = "keeping" => starting[j].room \in Rooms
        BY RequestsHave DEF IInv, Housed, StartsAt
      <4> QED BY <1>3, <4>1, <4>2 DEF IInv, Housed, CreateFails, StartsAt
    <3> QED BY <3>1, <3>2
  <2>2. NoOrphan'
    BY <1>3, <1>4, RequestsHave DEF IInv, Housed, CreateFails, NoOrphan, Starts
  <2>3. \A j \in Stoppers : StopsAt(j)'
    BY <1>3, <1>5, RequestsHave DEF IInv, Housed, CreateFails, StopsAt
  <2>4. room # None => relay'[room] # "none"
    BY <1>3, RequestsHave DEF IInv, Housed
  <2> QED BY <2>1, <2>2, <2>3, <2>4 DEF IInv, Housed, CreateFails, NothingAfterDelete
<1>11. Logged'
  <2>1. \A j \in Starters : starting'[j].phase = "keeping" <=> starting[j].phase = "keeping"
    BY <1>1, <1>4 DEF Starts
  <2>2. \A j \in Starters : starting'[j].phase = "keeping" => starting'[j] = starting[j]
    BY <1>4 DEF Starts
  <2>3. \A x \in Rooms : relay[x] \in {"gone", "lost"} => relay'[x] \in {"gone", "lost"}
    BY <1>3
  <2> QED BY <2>1, <2>2, <2>3 DEF IInv, Logged, CreateFails, logs
<1>12. Hastes'
  BY <1>4 DEF IInv, Hastes, CreateFails, Starts
<1> QED BY <1>7, <1>8, <1>9, <1>10, <1>11, <1>12 DEF IInv

LEMMA StartedStep ==
    ASSUME IInv, NEW k \in Starters, Started(k)
    PROVE IInv'
<1>1. /\ starting[k].phase = "keeping" /\ Holds(k, audit)
      /\ accessLog' = [accessLog EXCEPT ![starting[k].room] = "active"]
      /\ audit' = Without(k, audit)
      /\ heartbeat' = (IF heartbeat.phase = "none" THEN At("sleeping", None) ELSE heartbeat)
  BY DEF Started
<1>2. Leaves(audit, k, audit')
  BY <1>1, AuditLeft
<1>3. /\ accessLog' \in [Rooms -> {"none", "active", "ended"}]
      /\ \A r \in Rooms : accessLog'[r] = "ended" => accessLog[r] = "ended"
  BY <1>1, RequestsHave
<1>4. Starts(k, "none", None)
  BY StartsSet, StatesAre DEF Started
<1>5. Flows'
  BY FlowsStay DEF Started, feed, outside
<1>6. Typed'
  <2>1. heartbeat' \in [phase : {"none", "sleeping", "waiting", "beating"},
                        room : Rooms \cup {None}]
    BY <1>1 DEF At, IInv, Typed
  <2> QED BY <1>2, <1>3, <1>4, <2>1 DEF IInv, Typed, Started, feed, outside, Leaves, Starts
<1>7. Serial'
  BY <1>1, <1>4, StatesAre DEF IInv, Serial, Started, Starts
<1>8. Housed'
  <2>1. \A j \in Starters : StartsAt(j)'
    BY <1>4 DEF IInv, Housed, Started, outside, StartsAt, Starts
  <2>2. NoOrphan'
    <3>1. ASSUME NEW r \in Rooms, relay[r] = "open", starting[k].room = r
          PROVE r = room \/ r \in replaced \/ \E j \in Stoppers : stopping[j].room = r
      BY <1>1, <3>1 DEF IInv, Housed, StartsAt
    <3> QED BY <1>4, <3>1 DEF IInv, Housed, Started, outside, NoOrphan, Starts
  <2> QED BY <2>1, <2>2 DEF IInv, Housed, Started, outside, NothingAfterDelete, StopsAt
<1>9. Logged'
  <2>1. \A j \in Readers : reading[j].phase = "keeping" => reading[j].room \in Rooms
    BY RequestsHave DEF IInv, Housed
  <2>2. \A j \in Starters : starting'[j].phase = "keeping" =>
            j # k /\ starting'[j] = starting[j] /\ starting[j].room \in Rooms
    BY <1>4, RequestsHave DEF IInv, Housed, StartsAt, Starts
  <2>3. \A j \in Starters : Has(audit', j) <=> starting'[j].phase = "keeping"
    BY <1>2, <1>4 DEF IInv, Logged, Starts, Leaves
  <2> QED BY <1>2, <1>3, <2>1, <2>2, <2>3, TasksAre DEF IInv, Logged, Started, outside, Leaves
<1>10. Hastes'
  BY <1>4 DEF IInv, Hastes, Started, outside, Starts
<1> QED BY <1>5, <1>6, <1>7, <1>8, <1>9, <1>10 DEF IInv

\* Stopping a room
LEMMA StopAskedStep ==
    ASSUME IInv, NEW k \in Stoppers, NEW final \in BOOLEAN, StopAsked(k, final)
    PROVE IInv'
<1>1. /\ stopping[k] = Calm /\ room' = None /\ queue' = <<>> /\ heartbeat' = Calm
      /\ life' \in {"running", "closing", "closed"}
      /\ stopping[k].room = None /\ stopping[k].phase = "none"
  BY StatesAre DEF IInv, Typed, StopAsked
<1>2. PICK s : s = Without("heartbeat", lock)
  OBVIOUS
<1>3. Leaves(lock, "heartbeat", s)
  BY <1>2, LineLeaves DEF IInv, Typed
<1>4. Flows'
  <2>1. /\ queue \in Seq(Event) /\ worker.batch \in Seq(Event) /\ published \in Nat
        /\ Upward(queue, worker.batch, published)
        /\ \A r \in Rooms : seen[r] \in SUBSET Nat /\ Passed(seen[r], queue, worker.batch, published)
    BY WorkerHas DEF IInv, Typed, Flows
  <2>2. /\ Upward(<<>>, worker.batch, published)
        /\ \A r \in Rooms : Passed(seen[r], <<>>, worker.batch, published)
    BY <2>1, FlowEmpty
  <2>3. worker' = worker /\ seen' = seen /\ published' = published
    BY DEF StopAsked, outside
  <2> QED BY <1>1, <2>2, <2>3 DEF Flows
<1>h. heartbeat' \in [phase : {"none", "sleeping", "waiting", "beating"}, room : Rooms \cup {None}]
  BY <1>1 DEF Calm
<1>q. queue' \in Seq(Event) /\ Len(queue') <= QueueSize
  BY <1>1, ShareAssumption
<1>5. CASE room = None
  <2>1. lock' = s /\ \E p \in {"none", "stopped"} : Stops(k, p, None)
    <3>1. lock' = s
      BY <1>2, <1>5 DEF StopAsked
    <3>2. stopping' \in {[stopping EXCEPT ![k] = At("stopped", None)], [stopping EXCEPT ![k] = Calm]}
      BY <1>5 DEF StopAsked
    <3> QED BY <3>1, <3>2, StopsSet, StatesAre
  <2>2. Typed'
    BY <1>1, <1>3, <1>h, <1>q, <2>1 DEF IInv, Typed, StopAsked, logs, outside, Leaves, Stops
  <2>3. Serial'
    BY <1>1, <1>3, <2>1, StatesAre, TasksAre DEF IInv, Serial, StopAsked, Leaves, Stops
  <2>4. Housed'
    <3>1. \A j \in Stoppers : stopping'[j].room = stopping[j].room
      BY <1>1, <2>1 DEF Stops
    <3>2. \A j \in Stoppers : stopping'[j].phase \in {"deleting", "keeping"} => stopping'[j] = stopping[j]
      BY <2>1 DEF Stops
    <3>3. \A j \in Stoppers : StopsAt(j)'
      BY <1>1, <1>5, <2>1, <3>1 DEF IInv, Housed, StopAsked, outside, StopsAt, Stops
    <3>4. \A j \in Starters : StartsAt(j)'
      BY <1>1, <1>5, <3>1 DEF IInv, Housed, StopAsked, outside, StartsAt
    <3>5. NoOrphan' /\ NothingAfterDelete'
      BY <1>1, <1>5, <3>1, <3>2 DEF IInv, Housed, StopAsked, outside, NoOrphan, NothingAfterDelete
    <3> QED BY <1>1, <3>3, <3>4, <3>5 DEF IInv, Housed, StopAsked
  <2>5. Logged'
    <3>1. \A j \in Stoppers : stopping'[j].room = stopping[j].room
              /\ (stopping'[j].phase = "keeping" <=> stopping[j].phase = "keeping")
      BY <1>1, <2>1 DEF Stops
    <3> QED BY <3>1 DEF IInv, Logged, StopAsked, logs, outside
  <2>6. Hastes'
    BY <1>1 DEF IInv, Hastes, StopAsked, outside
  <2> QED BY <1>4, <2>2, <2>3, <2>4, <2>5, <2>6 DEF IInv
<1>6. CASE room # None
  <2>1. Stops(k, "waiting", room) /\ lock' = Append(s, k) /\ room \in Rooms
    <3>1. stopping' = [stopping EXCEPT ![k] = At("waiting", room)] /\ lock' = Append(s, k)
      BY <1>2, <1>6 DEF StopAsked
    <3> QED BY <1>6, <3>1, StopsSet, StatesAre, RequestsHave
  <2>2. ~Has(lock, k)
    BY <1>1 DEF IInv, Serial
  <2>3. ~Has(s, k) /\ Line(s)
    BY <1>3, <2>2 DEF Leaves
  <2>4. Joins(s, k, lock')
    BY <2>1, <2>3, LineJoins, TasksAre
  <2>5. Typed'
    BY <1>1, <1>h, <1>q, <2>1, <2>4 DEF IInv, Typed, StopAsked, logs, outside, Joins, Stops
  <2>6. Serial'
    <3>1. \A x : x # "heartbeat" /\ x # k =>
              /\ Has(lock', x) <=> Has(lock, x)
              /\ Holds(x, lock) => Holds(x, lock')
      BY <1>3, <2>4 DEF Leaves, Joins
    <3>2. Has(lock', k) /\ ~Has(lock', "heartbeat")
      BY <1>3, <2>4, TasksAre DEF Leaves, Joins
    <3> QED BY <1>1, <2>1, <3>1, <3>2, StatesAre, TasksAre DEF IInv, Serial, StopAsked, Stops
  <2>7. Housed'
    <3>1. \A j \in Stoppers : j # k => stopping'[j] = stopping[j] /\ stopping[j].room # room
      BY <1>6, <2>1 DEF IInv, Housed, StopsAt, Stops
    <3>2. \A j \in Stoppers : StopsAt(j)'
      BY <1>1, <1>6, <2>1, <3>1 DEF IInv, Housed, StopAsked, outside, StopsAt, Stops
    <3>3. ASSUME NEW j \in Starters PROVE StartsAt(j)'
      <4>1. UNCHANGED <<starting, relay, replaced>> /\ StartsAt(j)
        BY DEF IInv, Housed, StopAsked, outside
      <4>2. starting[j].phase = "creating" => starting[j].room \in Rooms
        BY RequestsHave DEF IInv, Housed, StartsAt
      <4>3. starting[j].phase = "creating" => \A i \in Stoppers : stopping'[i].room # starting[j].room
        BY <2>1, <3>1, <4>1 DEF StartsAt, Stops
      <4>4. \A x : \A i \in Stoppers : stopping[i].room = x /\ x # None => i # k
        BY <1>1
      <4>5. starting[j].phase = "keeping" => starting[j].room # None
        BY <4>1 DEF StartsAt
      <4>6. starting[j].phase = "keeping" /\ relay[starting[j].room] = "open" =>
                starting[j].room \in replaced \/ \E i \in Stoppers : stopping'[i].room = starting[j].room
        BY <2>1, <3>1, <4>1, <4>4, <4>5 DEF StartsAt, Stops
      <4> QED BY <1>1, <4>1, <4>2, <4>3, <4>6, RequestsHave DEF StartsAt
    <3>4. NoOrphan'
      <4>1. ASSUME NEW r \in Rooms, relay[r] = "open"
            PROVE \/ r = room' \/ r \in replaced \/ (\E j \in Starters : starting[j].room = r)
                  \/ \E j \in Stoppers : stopping'[j].room = r
        <5>1. \A j \in Stoppers : stopping[j].room = r => j # k
          BY <1>1, RequestsHave
        <5> QED BY <2>1, <3>1, <4>1, <5>1 DEF IInv, Housed, NoOrphan, Stops
      <4> QED BY <4>1 DEF StopAsked, outside, NoOrphan
    <3>5. NothingAfterDelete'
      BY <2>1 DEF IInv, Housed, StopAsked, NothingAfterDelete, Stops
    <3> QED BY <1>1, <3>2, <3>3, <3>4, <3>5 DEF IInv, Housed, StopAsked
  <2>8. Logged'
    <3>1. ~Has(audit, k)
      BY <1>1 DEF IInv, Logged
    <3>2. \A y : Behind(audit, k, y)
      BY <3>1 DEF Behind, Has
    <3> QED BY <2>1, <3>1, <3>2 DEF IInv, Logged, StopAsked, logs, outside, Stops
  <2>9. Hastes'
    BY <1>1 DEF IInv, Hastes, StopAsked, outside
  <2> QED BY <1>4, <2>5, <2>6, <2>7, <2>8, <2>9 DEF IInv
<1> QED BY <1>5, <1>6

LEMMA DeleteStep ==
    ASSUME IInv, NEW k \in Stoppers, Delete(k)
    PROVE IInv'
<1>1. stopping[k].phase = "waiting" /\ Holds(k, lock)
  BY DEF Delete
<1>2. worker.phase # "posting" /\ Has(lock, k)
  BY <1>1, LockHeld, TasksAre DEF IInv, Serial
<1>3. Stops(k, "deleting", stopping[k].room)
  BY StopsPhase DEF Delete
<1>4. Flows'
  BY FlowsStay DEF Delete, feed, outside
<1>5. Typed'
  BY <1>3 DEF IInv, Typed, Delete, feed, logs, outside, Stops
<1>6. Serial'
  BY <1>1, <1>2, <1>3 DEF IInv, Serial, Delete, Stops
<1>7. \A j \in Stoppers : stopping'[j].room = stopping[j].room
  BY <1>3 DEF Stops
<1>8. Housed'
  <2>1. \A j \in Stoppers : StopsAt(j)'
    BY <1>1, <1>3, <1>7 DEF IInv, Housed, Delete, outside, StopsAt, Stops
  <2>2. \A j \in Starters : StartsAt(j)'
    BY <1>7 DEF IInv, Housed, Delete, outside, StartsAt
  <2>3. NoOrphan' /\ NothingAfterDelete'
    BY <1>2, <1>7 DEF IInv, Housed, Delete, outside, NoOrphan, NothingAfterDelete
  <2> QED BY <2>1, <2>2, <2>3 DEF IInv, Housed, Delete, outside
<1>9. Logged' /\ Hastes'
  BY <1>1, <1>3, <1>7 DEF IInv, Logged, Hastes, Delete, logs, outside, Stops
<1> QED BY <1>4, <1>5, <1>6, <1>8, <1>9 DEF IInv

\* The request that deletes a room ends, with its answer or without.
LEMMA DeletionEnds ==
    ASSUME IInv, NEW k \in Stoppers, Deleted(k) \/ DeleteFails(k)
    PROVE /\ stopping[k].phase = "deleting" /\ lock' = Without(k, lock)
          /\ Leaves(lock, k, lock') /\ stopping[k].room \in Rooms
          /\ relay' \in [Rooms -> {"none", "open", "gone", "lost"}]
          /\ \A x \in Rooms : x # stopping[k].room => relay'[x] = relay[x]
          /\ relay'[stopping[k].room] \in {"gone", "lost"}
          /\ \A j \in Starters : starting[j].phase # "creating"
<1>1. /\ stopping[k].phase = "deleting" /\ lock' = Without(k, lock) /\ Holds(k, lock)
      /\ \E z \in {"gone", "lost"} : relay' = [relay EXCEPT ![stopping[k].room] = z]
  BY DEF Deleted, DeleteFails, IInv, Serial
<1>2. Leaves(lock, k, lock')
  BY <1>1, LockLeft
<1>3. stopping[k].room \in Rooms
  BY <1>1, RequestsHave DEF IInv, Housed, StopsAt
<1>4. \A j \in Starters : starting[j].phase # "creating"
  BY <1>1, LockHeld, TasksAre DEF IInv, Serial
<1> QED BY <1>1, <1>2, <1>3, <1>4, RequestsHave

\* Nothing else depends on the room that is gone.
LEMMA DeletionHoused ==
    ASSUME IInv, NEW k \in Stoppers, Deleted(k) \/ DeleteFails(k)
    PROVE /\ room # None => relay'[room] # "none"
          /\ \A j \in Stoppers : j # k /\ stopping[j].phase = "keeping" => relay'[stopping[j].room] = "gone"
          /\ \A j \in Stoppers : stopping[j].room # None => relay'[stopping[j].room] # "none"
          /\ \A x \in Rooms : relay[x] # "none" => relay'[x] # "none"
          /\ \A x \in Rooms : relay'[x] = "open" => relay[x] = "open" /\ x # stopping[k].room
          /\ \A x \in Rooms : relay[x] \in {"gone", "lost"} => relay'[x] \in {"gone", "lost"}
          /\ \A j \in Starters : starting[j].phase = "keeping" => starting[j].room \in Rooms
<1>1. \A x \in Rooms : relay'[x] = relay[x] \/ (x = stopping[k].room /\ relay'[x] \in {"gone", "lost"})
  BY DeletionEnds
<1>2. \A j \in Stoppers : j # k /\ stopping[j].room # None => stopping[j].room # stopping[k].room
  BY DEF IInv, Housed, StopsAt
<1>3. \A j \in Stoppers : stopping[j].phase = "keeping" => stopping[j].room # None
  BY DEF IInv, Housed, StopsAt
<1>4. \A j \in Starters : starting[j].phase = "keeping" => starting[j].room \in Rooms
  BY RequestsHave DEF IInv, Housed, StartsAt
<1>5. \A j \in Stoppers : j # k /\ stopping[j].phase = "keeping" => relay'[stopping[j].room] = "gone"
  BY <1>1, <1>2, <1>3, RequestsHave DEF IInv, Housed, StopsAt
<1>6. \A x \in Rooms : relay[x] # "none" => relay'[x] # "none"
  BY <1>1
<1>7. \A j \in Stoppers : stopping[j].room # None => relay'[stopping[j].room] # "none"
  BY <1>6, RequestsHave DEF IInv, Housed, StopsAt
<1>8. room # None => relay'[room] # "none"
  BY <1>6, RequestsHave DEF IInv, Housed
<1>9. \A x \in Rooms : relay'[x] = "open" => relay[x] = "open" /\ x # stopping[k].room
  BY <1>1, DeletionEnds
<1> QED BY <1>1, <1>4, <1>5, <1>6, <1>7, <1>8, <1>9

LEMMA DeletedStep ==
    ASSUME IInv, NEW k \in Stoppers, Deleted(k)
    PROVE IInv'
<1>1. /\ stopping[k].phase = "deleting" /\ Leaves(lock, k, lock') /\ stopping[k].room \in Rooms
      /\ relay' \in [Rooms -> {"none", "open", "gone", "lost"}]
      /\ \A j \in Starters : starting[j].phase # "creating"
  BY DeletionEnds
<1>2. relay'[stopping[k].room] = "gone"
  BY <1>1, RequestsHave DEF Deleted
<1>3. ~Has(audit, k)
  BY <1>1 DEF IInv, Logged
<1>4. Joins(audit, k, audit')
  BY <1>3, AuditJoined, TasksAre DEF Deleted
<1>5. Stops(k, "keeping", stopping[k].room)
  BY StopsPhase DEF Deleted
<1>6. Flows'
  BY FlowsStay DEF Deleted, feed
<1>7. Typed'
  BY <1>1, <1>4, <1>5 DEF IInv, Typed, Deleted, feed, Joins, Leaves, Stops
<1>8. Serial'
  BY <1>1, <1>5, TasksAre DEF IInv, Serial, Deleted, Leaves, Stops
<1>9. \A j \in Stoppers : stopping'[j].room = stopping[j].room
  BY <1>5 DEF Stops
<1>10. Housed'
  <2>1. \A j \in Stoppers : StopsAt(j)'
    BY <1>1, <1>2, <1>5, <1>9, DeletionHoused, RequestsHave DEF IInv, Housed, Deleted, StopsAt, Stops
  <2>2. \A j \in Starters : StartsAt(j)'
    BY <1>1, <1>9, DeletionHoused DEF IInv, Housed, Deleted, StartsAt
  <2>3. NoOrphan'
    BY <1>9, DeletionHoused DEF IInv, Housed, Deleted, NoOrphan
  <2>4. NothingAfterDelete'
    BY <1>1, <1>5, <1>9 DEF IInv, Housed, Deleted, NothingAfterDelete, Stops
  <2> QED BY <2>1, <2>2, <2>3, <2>4, DeletionHoused DEF IInv, Housed, Deleted
<1>11. Logged'
  <2>1. \A j \in Starters : starting[j].phase = "keeping" =>
            \A i \in Stoppers : stopping'[i].room = starting[j].room => Behind(audit', i, j)
    BY <1>4, <1>9, TasksAre DEF IInv, Logged, Joins
  <2>2. \A j \in Readers : reading[j].phase = "keeping" =>
            \A i \in Stoppers : stopping'[i].room = reading[j].room => Behind(audit', i, j)
    BY <1>4, <1>9, TasksAre DEF IInv, Logged, Joins
  <2>3. \A j \in Stoppers : Has(audit', j) <=> stopping'[j].phase = "keeping"
    BY <1>4, <1>5 DEF IInv, Logged, Joins, Stops
  <2> QED BY <1>4, <2>1, <2>2, <2>3, DeletionHoused, TasksAre DEF IInv, Logged, Deleted, Joins
<1>12. Hastes'
  BY DEF IInv, Hastes, Deleted
<1> QED BY <1>6, <1>7, <1>8, <1>10, <1>11, <1>12 DEF IInv

LEMMA DeleteFailsStep ==
    ASSUME IInv, NEW k \in Stoppers, DeleteFails(k)
    PROVE IInv'
<1>1. /\ stopping[k].phase = "deleting" /\ Leaves(lock, k, lock') /\ stopping[k].room \in Rooms
      /\ relay' \in [Rooms -> {"none", "open", "gone", "lost"}]
      /\ \A j \in Starters : starting[j].phase # "creating"
  BY DeletionEnds
<1>2. Stops(k, "stopped", None)
  BY StopsSet, StatesAre DEF DeleteFails
<1>3. Flows'
  BY FlowsStay DEF DeleteFails, feed
<1>4. Typed'
  BY <1>1, <1>2 DEF IInv, Typed, DeleteFails, feed, logs, Leaves, Stops
<1>5. Serial'
  BY <1>1, <1>2, TasksAre DEF IInv, Serial, DeleteFails, Leaves, Stops
<1>6. \A j \in Stoppers : stopping'[j].room \in {stopping[j].room, None}
  BY <1>2 DEF Stops
<1>7. Housed'
  <2>1. \A j \in Stoppers : StopsAt(j)'
    <3>1. StopsAt(k)'
      BY <1>2 DEF StopsAt, Stops
    <3>2. ASSUME NEW j \in Stoppers, j # k PROVE StopsAt(j)'
      <4>1. stopping'[j] = stopping[j] /\ StopsAt(j) /\ room' = room
        BY <1>2, <3>2 DEF IInv, Housed, DeleteFails, Stops
      <4>2. \A i \in Stoppers : i # j /\ stopping[j].room # None => stopping'[i].room # stopping[j].room
        BY <1>6, <4>1 DEF StopsAt
      <4> QED BY <3>2, <4>1, <4>2, DeletionHoused DEF StopsAt
    <3> QED BY <3>1, <3>2
  <2>2. ASSUME NEW j \in Starters PROVE StartsAt(j)'
    <3>1. starting' = starting /\ StartsAt(j) /\ room' = room /\ replaced' = replaced
      BY DEF IInv, Housed, DeleteFails
    <3>2. ASSUME starting[j].phase = "keeping", relay'[starting[j].room] = "open",
                 NEW i \in Stoppers, stopping[i].room = starting[j].room
          PROVE stopping'[i].room = starting[j].room
      <4>1. i # k
        BY <3>2, DeletionHoused
      <4> QED BY <1>2, <3>2, <4>1 DEF Stops
    <3> QED BY <1>1, <3>1, <3>2, DeletionHoused DEF StartsAt
  <2>3. NoOrphan'
    <3>1. ASSUME NEW x \in Rooms, relay'[x] = "open", NEW i \in Stoppers, stopping[i].room = x
          PROVE stopping'[i].room = x
      <4>1. i # k
        BY <3>1, DeletionHoused
      <4> QED BY <1>2, <3>1, <4>1 DEF Stops
    <3> QED BY <3>1, DeletionHoused DEF IInv, Housed, DeleteFails, NoOrphan
  <2>4. NothingAfterDelete'
    BY <1>2 DEF IInv, Housed, DeleteFails, NothingAfterDelete, Stops
  <2> QED BY <2>1, <2>2, <2>3, <2>4, DeletionHoused DEF IInv, Housed, DeleteFails
<1>8. Logged'
  <2>1. \A j \in Readers : reading[j].phase = "keeping" => reading[j].room # None
    BY DEF IInv, Housed
  <2>2. \A j \in Starters : starting[j].phase = "keeping" => starting[j].room # None
    BY DEF IInv, Housed, StartsAt
  <2>3. \A x : \A j \in Stoppers : x # None /\ stopping'[j].room = x => stopping[j].room = x
    BY <1>6
  <2>4. \A j \in Stoppers : stopping'[j].phase = "keeping" <=> stopping[j].phase = "keeping"
    BY <1>1, <1>2 DEF Stops
  <2>5. \A j \in Starters : starting[j].phase = "keeping" =>
            \A i \in Stoppers : stopping'[i].room = starting[j].room => Behind(audit, i, j)
    BY <2>2, <2>3 DEF IInv, Logged
  <2>6. \A j \in Readers : reading[j].phase = "keeping" =>
            \A i \in Stoppers : stopping'[i].room = reading[j].room => Behind(audit, i, j)
    BY <2>1, <2>3 DEF IInv, Logged
  <2> QED BY <2>4, <2>5, <2>6, DeletionHoused DEF IInv, Logged, DeleteFails, logs
<1>9. Hastes'
  BY DEF IInv, Hastes, DeleteFails
<1> QED BY <1>3, <1>4, <1>5, <1>7, <1>8, <1>9 DEF IInv

LEMMA LogEndedStep ==
    ASSUME IInv, NEW k \in Stoppers, LogEnded(k)
    PROVE IInv'
<1>1. /\ stopping[k].phase = "keeping" /\ Holds(k, audit)
      /\ accessLog' = [accessLog EXCEPT ![stopping[k].room] = "ended"]
      /\ audit' = Without(k, audit)
  BY DEF LogEnded
<1>2. /\ Leaves(audit, k, audit') /\ \A y : Has(audit, y) => ~Behind(audit, k, y)
  BY <1>1, AuditLeft, AuditHeld
<1>3. /\ accessLog' \in [Rooms -> {"none", "active", "ended"}] /\ stopping[k].room \in Rooms
      /\ \A r \in Rooms : accessLog'[r] = IF r = stopping[k].room THEN "ended" ELSE accessLog[r]
      /\ relay[stopping[k].room] = "gone"
  BY <1>1, RequestsHave DEF IInv, Housed, StopsAt
<1>4. Stops(k, "stopped", None)
  BY StopsSet, StatesAre DEF LogEnded
<1>5. Flows'
  BY FlowsStay DEF LogEnded, feed, outside
<1>6. Typed'
  BY <1>2, <1>3, <1>4 DEF IInv, Typed, LogEnded, feed, outside, Leaves, Stops
<1>7. Serial'
  BY <1>1, <1>4 DEF IInv, Serial, LogEnded, Stops
<1>8. \A j \in Stoppers : j # k => stopping'[j] = stopping[j]
  BY <1>4 DEF Stops
<1>9. Housed'
  <2>1. \A j \in Stoppers : StopsAt(j)'
    BY <1>4, <1>8 DEF IInv, Housed, LogEnded, outside, StopsAt, Stops
  <2>2. ASSUME NEW j \in Starters PROVE StartsAt(j)'
    <3>1. UNCHANGED <<starting, room, relay, replaced>> /\ StartsAt(j)
      BY DEF IInv, Housed, LogEnded, outside
    <3>2. starting[j].phase \in {"creating", "keeping"} => starting[j].room # None
      BY <3>1 DEF StartsAt
    <3>3. \A i \in Stoppers : stopping'[i].room = starting[j].room /\ starting[j].room # None =>
              stopping[i].room = starting[j].room
      BY <1>4, <1>8 DEF Stops
    <3>4. \A i \in Stoppers : stopping[i].room = starting[j].room /\ relay[starting[j].room] = "open" =>
              stopping'[i].room = starting[j].room
      BY <1>3, <1>8
    <3> QED BY <3>1, <3>2, <3>3, <3>4 DEF StartsAt
  <2>3. NoOrphan'
    <3>1. ASSUME NEW x \in Rooms, relay[x] = "open", NEW i \in Stoppers, stopping[i].room = x
          PROVE stopping'[i].room = x
      BY <1>3, <1>8, <3>1
    <3> QED BY <3>1 DEF IInv, Housed, LogEnded, outside, NoOrphan
  <2>4. NothingAfterDelete'
    BY <1>4, <1>8 DEF IInv, Housed, LogEnded, NothingAfterDelete, Stops
  <2> QED BY <2>1, <2>2, <2>3, <2>4 DEF IInv, Housed, LogEnded, outside
<1>10. Logged'
  <2>1. ASSUME NEW j \in Starters, starting[j].phase = "keeping"
        PROVE starting[j].room # stopping[k].room /\ starting[j].room \in Rooms
    BY <1>2, <2>1, RequestsHave DEF IInv, Logged, Housed, StartsAt
  <2>2. ASSUME NEW j \in Readers, reading[j].phase = "keeping"
        PROVE reading[j].room # stopping[k].room /\ reading[j].room \in Rooms
    BY <1>2, <2>2, RequestsHave DEF IInv, Logged, Housed
  <2>3. \A i \in Stoppers, x \in Rooms : stopping'[i].room = x => stopping[i].room = x
    BY <1>4, <1>8, RequestsHave DEF Stops
  <2>4. \A j \in Starters : starting[j].phase = "keeping" =>
            /\ accessLog'[starting[j].room] # "ended"
            /\ \A i \in Stoppers : stopping'[i].room = starting[j].room => Behind(audit', i, j)
    BY <1>2, <1>3, <2>1, <2>3 DEF IInv, Logged, Leaves
  <2>5. \A j \in Readers : reading[j].phase = "keeping" =>
            /\ accessLog'[reading[j].room] # "ended"
            /\ \A i \in Stoppers : stopping'[i].room = reading[j].room => Behind(audit', i, j)
    BY <1>2, <1>3, <2>2, <2>3 DEF IInv, Logged, Leaves
  <2>6. \A j \in Stoppers : Has(audit', j) <=> stopping'[j].phase = "keeping"
    BY <1>2, <1>4, <1>8 DEF IInv, Logged, Leaves, Stops
  <2> QED BY <1>2, <1>3, <2>4, <2>5, <2>6, TasksAre DEF IInv, Logged, LogEnded, outside, Leaves
<1>11. Hastes'
  BY DEF IInv, Hastes, LogEnded, outside
<1> QED BY <1>5, <1>6, <1>7, <1>9, <1>10, <1>11 DEF IInv

LEMMA StoppedStep ==
    ASSUME IInv, NEW k \in Stoppers, Stopped(k)
    PROVE IInv'
<1>1. stopping[k].phase = "stopped" /\ stopping[k].room = None
  BY DEF IInv, Housed, Stopped, StopsAt
<1>2. Stops(k, "none", None)
  BY StopsSet, StatesAre DEF Stopped
<1>3. \A j \in Stoppers : /\ stopping'[j].room = stopping[j].room
                          /\ stopping'[j].phase = stopping[j].phase \/ j = k
  BY <1>1, <1>2 DEF Stops
<1>4. Logged' /\ Hastes'
  BY <1>1, <1>2, <1>3 DEF IInv, Logged, Hastes, Stopped, logs, outside, Stops
<1>5. /\ \A j \in Stoppers : StopsAt(j)' /\ \A i \in Starters : StartsAt(i)'
      /\ NoOrphan'
  <2>1. \A j \in Stoppers : StopsAt(j)'
    BY <1>1, <1>2, <1>3 DEF IInv, Housed, Stopped, outside, StopsAt, Stops
  <2>2. \A j \in Starters : StartsAt(j)'
    BY <1>3 DEF IInv, Housed, Stopped, outside, StartsAt
  <2>3. NoOrphan'
    BY <1>3 DEF IInv, Housed, Stopped, outside, NoOrphan
  <2> QED BY <2>1, <2>2, <2>3
<1>6. CASE life = "closing"
  <2>1. /\ worker' = [Idle EXCEPT !.phase = "cancelled"] /\ lock' = Without("worker", lock)
        /\ life' = "closed"
    BY <1>6 DEF Stopped
  <2>2. /\ worker' \in WorkerStates /\ worker'.phase = "cancelled" /\ worker'.batch = <<>>
        /\ worker'.room = None
    <3>1. worker' = [phase |-> "cancelled", batch |-> <<>>, room |-> None, attempt |-> 1]
      BY <2>1 DEF Idle, Gathering
    <3>2. worker' \in WorkerStates
      BY <3>1, EmptyBatch DEF WorkerStates
    <3> QED BY <3>1, <3>2
  <2>3. Leaves(lock, "worker", lock')
    BY <2>1, LockLeft
  <2>4. Flows'
    BY <2>2, FlowsStay DEF Stopped, feed, outside
  <2>5. Typed'
    BY <1>2, <2>1, <2>2, <2>3, EmptyBatch DEF IInv, Typed, Stopped, feed, logs, outside, Leaves, Stops
  <2>6. Serial'
    BY <1>1, <1>2, <1>3, <2>2, <2>3, TasksAre DEF IInv, Serial, Stopped, Leaves, Stops
  <2>7. Housed'
    BY <1>5, <2>2 DEF IInv, Housed, Stopped, outside, NothingAfterDelete
  <2> QED BY <1>4, <2>4, <2>5, <2>6, <2>7 DEF IInv
<1>7. CASE life # "closing"
  <2>1. worker' = worker /\ lock' = lock /\ life' = life
    BY <1>7 DEF Stopped
  <2>4. Flows'
    BY <2>1, FlowsStay DEF Stopped, feed, outside
  <2>5. Typed'
    BY <1>2, <2>1 DEF IInv, Typed, Stopped, feed, logs, outside, Stops
  <2>6. Serial'
    BY <1>1, <1>2, <1>3, <2>1 DEF IInv, Serial, Stopped, Stops
  <2>7. NothingAfterDelete'
    BY <1>2, <1>3, <2>1 DEF IInv, Housed, NothingAfterDelete, Stops
  <2>8. Housed'
    BY <1>5, <2>1, <2>7 DEF IInv, Housed, Stopped, outside
  <2> QED BY <1>4, <2>4, <2>5, <2>6, <2>8 DEF IInv
<1> QED BY <1>6, <1>7

\* Reading the log of a room
LEMMA ReadAskedStep ==
    ASSUME IInv, NEW k \in Readers, ReadAsked(k)
    PROVE IInv'
<1>1. /\ reading[k].phase = "none" /\ audit' = Append(audit, k) /\ ~Has(audit, k)
  <2>1. reading[k].phase = "none" /\ audit' = Append(audit, k)
    BY StatesAre DEF ReadAsked
  <2> QED BY <2>1 DEF IInv, Logged
<1>2. Joins(audit, k, audit')
  BY <1>1, AuditJoined, TasksAre
<1>3. Reads(k, "loading", None)
  BY ReadsSet, StatesAre DEF ReadAsked
<1>4. Flows'
  BY FlowsStay DEF ReadAsked, feed, outside
<1>5. Typed'
  BY <1>2, <1>3 DEF IInv, Typed, ReadAsked, feed, outside, Joins, Reads
<1>6. Serial'
  BY <1>1, <1>3 DEF IInv, Serial, ReadAsked, Reads
<1>7. Housed'
  BY <1>3 DEF IInv, Housed, ReadAsked, outside, NothingAfterDelete, NoOrphan, StartsAt, StopsAt, Reads
<1>8. Logged'
  <2>1. \A j \in Readers : reading'[j].phase = "keeping" => j # k /\ reading'[j] = reading[j]
    BY <1>3 DEF Reads
  <2>2. \A j \in Readers : Has(audit', j) <=> reading'[j].phase \in {"loading", "keeping"}
    BY <1>2, <1>3 DEF IInv, Logged, Reads, Joins
  <2> QED BY <1>2, <2>1, <2>2, TasksAre DEF IInv, Logged, ReadAsked, outside, Joins
<1>9. Hastes'
  BY DEF IInv, Hastes, ReadAsked, outside
<1> QED BY <1>4, <1>5, <1>6, <1>7, <1>8, <1>9 DEF IInv

LEMMA LoadedStep ==
    ASSUME IInv, NEW k \in Readers, Loaded(k)
    PROVE IInv'
<1>1. /\ reading[k].phase = "loading" /\ audit' = Without(k, audit)
      /\ ~Has(lock, k)
  BY DEF IInv, Serial, Loaded
<1>2. Leaves(audit, k, audit')
  BY <1>1, AuditLeft
<1>3. \/ Reads(k, "none", None) /\ lock' = lock
      \/ Reads(k, "waiting", room) /\ room # None /\ Joins(lock, k, lock')
  <2>1. CASE room = None
    BY <2>1, ReadsSet, StatesAre DEF Loaded
  <2>2. CASE room # None
    <3>1. lock' = Append(lock, k) /\ reading' = [reading EXCEPT ![k] = At("waiting", room)]
      BY <2>2 DEF Loaded
    <3>2. Joins(lock, k, lock')
      BY <1>1, <3>1, LockJoined, TasksAre
    <3> QED BY <2>2, <3>1, <3>2, ReadsSet, StatesAre, RequestsHave
  <2> QED BY <2>1, <2>2
<1>4. Flows'
  BY FlowsStay DEF Loaded, feed, outside
<1>5. Typed'
  BY <1>2, <1>3 DEF IInv, Typed, Loaded, feed, outside, Leaves, Joins, Reads
<1>6. Serial'
  <2>1. CASE Reads(k, "none", None) /\ lock' = lock
    BY <1>1, <2>1 DEF IInv, Serial, Loaded, Reads
  <2>2. CASE Reads(k, "waiting", room) /\ Joins(lock, k, lock')
    BY <1>1, <2>2, TasksAre DEF IInv, Serial, Loaded, Joins, Reads
  <2> QED BY <1>3, <2>1, <2>2
<1>7. Housed'
  BY <1>3 DEF IInv, Housed, Loaded, outside, NothingAfterDelete, NoOrphan, StartsAt, StopsAt, Reads
<1>8. Logged'
  <2>1. \A j \in Readers : reading'[j].phase \in {"loading", "keeping"} <=>
                               j # k /\ reading[j].phase \in {"loading", "keeping"}
    BY <1>3 DEF Reads
  <2>2. \A j \in Readers : reading'[j].phase = "keeping" => reading'[j] = reading[j]
    BY <1>3 DEF Reads
  <2> QED BY <1>1, <1>2, <2>1, <2>2, TasksAre DEF IInv, Logged, Loaded, outside, Leaves
<1>9. Hastes'
  BY DEF IInv, Hastes, Loaded, outside
<1> QED BY <1>4, <1>5, <1>6, <1>7, <1>8, <1>9 DEF IInv

LEMMA FetchStep ==
    ASSUME IInv, NEW k \in Readers, Fetch(k)
    PROVE IInv'
<1>1. reading[k].phase = "waiting" /\ Holds(k, lock) /\ Has(lock, k)
  BY LockHeld DEF Fetch
<1>2. Reads(k, "fetching", reading[k].room)
  BY ReadsPhase DEF Fetch
<1>3. Flows'
  BY FlowsStay DEF Fetch, feed, outside
<1>4. Typed'
  BY <1>2 DEF IInv, Typed, Fetch, feed, logs, outside, Reads
<1>5. Serial'
  BY <1>1, <1>2 DEF IInv, Serial, Fetch, Reads
<1>6. Housed'
  BY <1>1, <1>2 DEF IInv, Housed, Fetch, outside, NothingAfterDelete, NoOrphan, StartsAt, StopsAt, Reads
<1>7. Logged' /\ Hastes'
  BY <1>1, <1>2 DEF IInv, Logged, Hastes, Fetch, logs, outside, Reads
<1> QED BY <1>3, <1>4, <1>5, <1>6, <1>7 DEF IInv

LEMMA FetchedStep ==
    ASSUME IInv, NEW k \in Readers, Fetched(k)
    PROVE IInv'
<1>1. /\ reading[k].phase = "fetching" /\ relay[reading[k].room] = "open"
      /\ lock' = Without(k, lock) /\ audit' = Append(audit, k)
      /\ reading[k].room \in Rooms /\ ~Has(audit, k)
  BY RequestsHave DEF IInv, Housed, Logged, Fetched
<1>2. Leaves(lock, k, lock') /\ Joins(audit, k, audit')
  BY <1>1, LockLeft, AuditJoined, TasksAre
<1>3. Reads(k, "keeping", reading[k].room)
  BY ReadsPhase DEF Fetched
<1>4. Flows'
  BY FlowsStay DEF Fetched, feed, outside
<1>5. Typed'
  BY <1>2, <1>3 DEF IInv, Typed, Fetched, feed, outside, Leaves, Joins, Reads
<1>6. Serial'
  BY <1>1, <1>2, <1>3, TasksAre DEF IInv, Serial, Fetched, Leaves, Reads
<1>7. Housed'
  BY <1>1, <1>3, EmptyBatch DEF IInv, Housed, Fetched, outside, NothingAfterDelete, NoOrphan, StartsAt,
                                StopsAt, Reads
<1>8. Logged'
  <2>1. ASSUME NEW j \in Stoppers, stopping[j].room = reading[k].room PROVE Behind(audit', j, k)
    <3>1. ~Has(audit, j)
      BY <1>1, <2>1 DEF IInv, Housed, Logged, StopsAt
    <3>2. ~Has(audit', j)
      BY <1>2, <3>1, TasksAre DEF Joins
    <3> QED BY <3>2 DEF Behind, Has
  <2>2. accessLog[reading[k].room] # "ended"
    BY <1>1 DEF IInv, Logged
  <2>3. \A j \in Readers : Has(audit', j) <=> reading'[j].phase \in {"loading", "keeping"}
    BY <1>2, <1>3 DEF IInv, Logged, Reads, Joins
  <2>4. ASSUME NEW j \in Readers, reading'[j].phase = "keeping"
        PROVE /\ accessLog[reading'[j].room] # "ended"
              /\ \A i \in Stoppers : stopping[i].room = reading'[j].room => Behind(audit', i, j)
    <3>1. CASE j = k
      BY <1>3, <2>1, <2>2, <3>1 DEF Reads
    <3>2. CASE j # k
      BY <1>2, <1>3, <2>4, <3>2, TasksAre DEF IInv, Logged, Reads, Joins
    <3> QED BY <3>1, <3>2
  <2> QED BY <1>2, <2>3, <2>4, TasksAre DEF IInv, Logged, Fetched, outside, Joins
<1>9. Hastes'
  BY DEF IInv, Hastes, Fetched, outside
<1> QED BY <1>4, <1>5, <1>6, <1>7, <1>8, <1>9 DEF IInv

LEMMA FetchFailsStep ==
    ASSUME IInv, NEW k \in Readers, FetchFails(k)
    PROVE IInv'
<1>1. reading[k].phase = "fetching" /\ lock' = Without(k, lock)
  BY DEF FetchFails
<1>2. Leaves(lock, k, lock')
  BY <1>1, LockLeft
<1>3. Reads(k, "none", None)
  BY ReadsSet, StatesAre DEF FetchFails
<1>4. Flows'
  BY FlowsStay DEF FetchFails, feed, outside
<1>5. Typed'
  BY <1>2, <1>3 DEF IInv, Typed, FetchFails, feed, logs, outside, Leaves, Reads
<1>6. Serial'
  BY <1>1, <1>2, <1>3, TasksAre DEF IInv, Serial, FetchFails, Leaves, Reads
<1>7. Housed'
  BY <1>3 DEF IInv, Housed, FetchFails, outside, NothingAfterDelete, NoOrphan, StartsAt, StopsAt, Reads
<1>8. Logged' /\ Hastes'
  BY <1>1, <1>3 DEF IInv, Logged, Hastes, FetchFails, logs, outside, Reads
<1> QED BY <1>4, <1>5, <1>6, <1>7, <1>8 DEF IInv

LEMMA ReadKeptStep ==
    ASSUME IInv, NEW k \in Readers, ReadKept(k)
    PROVE IInv'
<1>1. /\ reading[k].phase = "keeping" /\ audit' = Without(k, audit)
      /\ accessLog' = [accessLog EXCEPT ![reading[k].room] = "active"]
  BY DEF ReadKept
<1>2. Leaves(audit, k, audit')
  BY <1>1, AuditLeft
<1>3. /\ accessLog' \in [Rooms -> {"none", "active", "ended"}]
      /\ \A r \in Rooms : accessLog'[r] = "ended" => accessLog[r] = "ended"
  BY <1>1, RequestsHave
<1>4. Reads(k, "none", None)
  BY ReadsSet, StatesAre DEF ReadKept
<1>5. Flows'
  BY FlowsStay DEF ReadKept, feed, outside
<1>6. Typed'
  BY <1>2, <1>3, <1>4 DEF IInv, Typed, ReadKept, feed, outside, Leaves, Reads
<1>7. Serial'
  BY <1>1, <1>4 DEF IInv, Serial, ReadKept, Reads
<1>8. Housed'
  BY <1>4 DEF IInv, Housed, ReadKept, outside, NothingAfterDelete, NoOrphan, StartsAt, StopsAt, Reads
<1>9. Logged'
  <2>1. \A j \in Starters : starting[j].phase = "keeping" => starting[j].room \in Rooms
    BY RequestsHave DEF IInv, Housed, StartsAt
  <2>2. \A j \in Readers : reading'[j].phase = "keeping" =>
            j # k /\ reading'[j] = reading[j] /\ reading[j].room \in Rooms
    BY <1>4, RequestsHave DEF IInv, Housed, Reads
  <2>3. \A j \in Readers : Has(audit', j) <=> reading'[j].phase \in {"loading", "keeping"}
    BY <1>2, <1>4 DEF IInv, Logged, Reads, Leaves
  <2> QED BY <1>2, <1>3, <2>1, <2>2, <2>3, TasksAre DEF IInv, Logged, ReadKept, outside, Leaves
<1>10. Hastes'
  BY DEF IInv, Hastes, ReadKept, outside
<1> QED BY <1>5, <1>6, <1>7, <1>8, <1>9, <1>10 DEF IInv

\* The heartbeat
LEMMA HeartStep ==
    ASSUME IInv, Heart
    PROVE IInv'
<1>1. /\ heartbeat' \in [phase : {"none", "sleeping", "waiting", "beating"}, room : Rooms \cup {None}]
      /\ UNCHANGED <<room, feed, worker, starting, stopping, reading, logs, outside, life>>
  BY DEF Heart, Beat, BeatSent, BeatEnds, At, Calm, IInv, Typed
<1>2. \/ lock' = lock /\ heartbeat.phase \in {"sleeping"} /\ heartbeat'.phase = "none"
      \/ lock' = lock /\ heartbeat.phase = "waiting" /\ heartbeat'.phase = "beating"
         /\ Holds("heartbeat", lock)
      \/ Joins(lock, "heartbeat", lock') /\ heartbeat.phase = "sleeping" /\ heartbeat'.phase = "waiting"
      \/ Leaves(lock, "heartbeat", lock') /\ heartbeat'.phase \in {"none", "sleeping"}
  <2>1. CASE Beat /\ room = None
    BY <2>1 DEF Beat, Calm
  <2>2. CASE Beat /\ room # None
    <3>1. /\ lock' = Append(lock, "heartbeat") /\ ~Has(lock, "heartbeat")
          /\ heartbeat.phase = "sleeping" /\ heartbeat'.phase = "waiting"
      BY <2>2 DEF Beat, At, IInv, Serial
    <3> QED BY <3>1, LockJoined, TasksAre
  <2>3. CASE BeatSent
    BY <2>3 DEF BeatSent, At
  <2>4. CASE BeatEnds
    <3>1. lock' = Without("heartbeat", lock) /\ heartbeat'.phase \in {"none", "sleeping"}
      BY <2>4 DEF BeatEnds, At, Calm
    <3> QED BY <3>1, LockLeft
  <2> QED BY <2>1, <2>2, <2>3, <2>4 DEF Heart
<1>3. Line(lock')
  BY <1>2 DEF Joins, Leaves, IInv, Typed
<1>4. Flows'
  BY <1>1, FlowsStay DEF feed, outside
<1>5. Typed'
  BY <1>1, <1>3 DEF IInv, Typed, feed, logs, outside
<1>6. Serial'
  <2>1. CASE lock' = lock
    BY <1>1, <1>2, <1>3, <2>1 DEF IInv, Serial, Joins, Leaves
  <2>2. CASE Joins(lock, "heartbeat", lock') /\ heartbeat.phase = "sleeping" /\ heartbeat'.phase = "waiting"
    BY <1>1, <2>2, TasksAre DEF IInv, Serial, Joins
  <2>3. CASE Leaves(lock, "heartbeat", lock') /\ heartbeat'.phase \in {"none", "sleeping"}
    BY <1>1, <2>3, TasksAre DEF IInv, Serial, Leaves
  <2> QED BY <1>2, <2>1, <2>2, <2>3
<1>7. Housed'
  BY <1>1 DEF IInv, Housed, outside, NothingAfterDelete, NoOrphan, StartsAt, StopsAt
<1>8. Logged' /\ Hastes'
  BY <1>1 DEF IInv, Logged, Hastes, logs, outside
<1> QED BY <1>4, <1>5, <1>6, <1>7, <1>8 DEF IInv

\* The relay ends a room
LEMMA ExpireStep ==
    ASSUME IInv, NEW r \in Rooms, Expire(r)
    PROVE IInv'
<1>1. /\ relay[r] = "open" /\ (\A k \in Starters : starting[k].room # r)
      /\ relay' \in [Rooms -> {"none", "open", "gone", "lost"}]
      /\ \A x \in Rooms : relay'[x] = IF x = r THEN "gone" ELSE relay[x]
  BY RequestsHave DEF Expire
<1>2. UNCHANGED <<room, feed, worker, host, lock, logs, seen, replaced, life>>
  BY DEF Expire
<1>3. Flows'
  BY <1>2, FlowsStay DEF feed
<1>4. Typed'
  BY <1>1, <1>2 DEF IInv, Typed, feed, host, logs
<1>5. Serial'
  BY <1>2 DEF IInv, Serial, host
<1>6. Housed'
  <2>1. \A x \in Rooms : /\ relay[x] # "none" => relay'[x] # "none"
                         /\ relay'[x] = "open" => relay[x] = "open"
                         /\ relay[x] = "gone" => relay'[x] = "gone"
    BY <1>1
  <2>2. \A k \in Stoppers : StopsAt(k)'
    BY <1>2, <2>1, RequestsHave DEF IInv, Housed, host, StopsAt
  <2>3. ASSUME NEW k \in Starters PROVE StartsAt(k)'
    <3>1. starting[k].phase \in {"creating", "keeping"} => starting[k].room \in Rooms
      BY RequestsHave DEF IInv, Housed, StartsAt
    <3> QED BY <1>1, <1>2, <3>1 DEF IInv, Housed, host, StartsAt
  <2>4. NoOrphan' /\ NothingAfterDelete'
    BY <1>2, <2>1 DEF IInv, Housed, host, NothingAfterDelete, NoOrphan
  <2>5. room # None => relay'[room] # "none"
    BY <2>1, RequestsHave DEF IInv, Housed
  <2> QED BY <1>2, <2>2, <2>3, <2>4, <2>5 DEF IInv, Housed, host
<1>7. Logged' /\ Hastes'
  BY <1>1, <1>2 DEF IInv, Logged, Hastes, host, logs
<1> QED BY <1>3, <1>4, <1>5, <1>6, <1>7 DEF IInv

LEMMA StepHolds ==
    ASSUME IInv, [Next]_vars
    PROVE IInv'
<1>1. CASE \E type \in SharedTypes : Publish(type)
  BY <1>1, PublishStep
<1>2. CASE Work
  BY <1>2, TakeStep, CloseBatchStep, PostStep, PostedStep, ResumeStep, PostRefusedStep DEF Work
<1>3. ASSUME NEW k \in Starters, Start(k) PROVE IInv'
  BY <1>3, StartAskedStep, CreateStep, CreatedStep, CreateFailsStep, StartedStep DEF Start
<1>4. ASSUME NEW k \in Stoppers, Stop(k) PROVE IInv'
  BY <1>4, StopAskedStep, DeleteStep, DeletedStep, DeleteFailsStep, LogEndedStep, StoppedStep DEF Stop
<1>5. ASSUME NEW k \in Readers, Read(k) PROVE IInv'
  BY <1>5, ReadAskedStep, LoadedStep, FetchStep, FetchedStep, FetchFailsStep, ReadKeptStep DEF Read
<1>6. CASE Heart
  BY <1>6, HeartStep
<1>7. CASE \E r \in Rooms : Expire(r)
  BY <1>7, ExpireStep
<1>8. CASE UNCHANGED vars
  <2>1. Flows'
    BY <1>8, FlowsStay DEF vars, feed, outside
  <2> QED BY <1>8, <2>1 DEF vars, feed, host, logs, outside, IInv, Typed, Serial, Housed, Hastes,
                            Logged, NothingAfterDelete, NoOrphan, StartsAt, StopsAt
<1> QED BY <1>1, <1>2, <1>3, <1>4, <1>5, <1>6, <1>7, <1>8 DEF Next

\* The locks, the rooms and the events are always as the invariant says
\* (start_share, stop_share, access_logs, _worker_loop, _heartbeat_loop).
THEOREM ShareInvariance == Spec => []IInv
<1>1. IInv /\ [Next]_vars => IInv'
  BY StepHolds
<1> QED BY <1>1, InitHolds, PTL DEF Spec

-----------------------------------------------------------------------------
(* What the invariant says of the rooms *)

LEMMA RoomsFollow == IInv => RoomsAccounted
<1> SUFFICES ASSUME IInv PROVE TypeOK /\ NoOrphan /\ Unhurried
  BY DEF RoomsAccounted
<1>1. NoOrphan /\ Unhurried
  BY DEF IInv, Housed, Hastes, Unhurried
<1>2. IsInjective(lock) /\ IsInjective(audit)
  <2>1. \A s : Line(s) => IsInjective(s)
    <3> SUFFICES ASSUME NEW s, Line(s) PROVE IsInjective(s)
      OBVIOUS
    <3>1. DOMAIN s = 1 .. Len(s)
      BY DEF Line
    <3> QED BY <3>1 DEF Line, IsInjective
  <2> QED BY <2>1 DEF IInv, Typed
<1>3. worker.phase \in {"gathering", "waiting", "posting", "pausing", "cancelled"}
  BY WorkerHas DEF WorkerStates
<1>4. room # None => relay[room] # "none"
  BY DEF IInv, Housed
<1> QED BY <1>1, <1>2, <1>3, <1>4, WorkerHas DEF TypeOK, IInv, Typed

\* A room the relay has can be left by the host, is being made or deleted, or
\* an answer was lost or an overlapping start has put its own in its place; it
\* has not where no starts overlap; and the queue and the batch keep their
\* limits (start_share, stop_share, publish_event, _worker_loop).
THEOREM RoomsAccountedAlways == Spec => []RoomsAccounted
BY ShareInvariance, RoomsFollow, PTL

\* While a room is being deleted, and after that, nothing is posted to it
\* (stop_share, _worker_loop).
THEOREM NothingAfterDeleteAlways == Spec => []NothingAfterDelete
<1>1. IInv => NothingAfterDelete
  BY DEF IInv, Housed
<1> QED BY <1>1, ShareInvariance, PTL

-----------------------------------------------------------------------------
(* What no step does *)

\* Only an answer of the relay to a batch changes what a room has.
LEMMA StepInOrder ==
    ASSUME IInv, [Next]_vars
    PROVE \A r \in Rooms : \A n \in seen'[r] \ seen[r], k \in seen[r] : k < n
<1>1. CASE Posted \/ PostFails
  <2>1. worker.room \in Rooms
    BY <1>1, WorkerHas DEF IInv, Housed, Posted, PostFails
  <2>2. Reaches(worker.room) \/ seen' = seen
    BY <1>1 DEF Posted, PostFails
  <2>3. worker'.batch \in {worker.batch, <<>>}
    BY <1>1, WorkerHas, WorkerRests DEF Posted, PostFails, Dropped, Retried, WorkerStates
  <2> QED BY <1>1, <2>1, <2>2, <2>3, FlowsReach DEF Posted, PostFails, feed
<1>2. CASE ~(Posted \/ PostFails)
  <2>1. seen' = seen
    BY <1>2 DEF Next, Publish, Work, Take, CloseBatch, Post, Resume, PostRefused, StartAsked, Start,
                Create, Created, CreateFails, Started, StopAsked, Stop, Delete, Deleted,
                DeleteFails, LogEnded, Stopped, ReadAsked, Read, Loaded, Fetch, Fetched,
                FetchFails, ReadKept, Heart, Beat, BeatSent, BeatEnds, Expire, outside, vars
  <2> QED BY <2>1
<1> QED BY <1>1, <1>2

\* publish_event: what is evicted is lossy, and what is dropped is lossy or has
\* no place.
LEMMA PublishCritical ==
    ASSUME IInv, NEW type \in SharedTypes, Publish(type)
    PROVE /\ \A e \in ToSet(queue) \ ToSet(queue') : e.lossy
          /\ queue' = queue => \/ Len(queue) = QueueSize /\ \A e \in ToSet(queue) : ~e.lossy
                               \/ type \in LossyTypes
<1>1. PICK e : e = [number |-> published + 1, lossy |-> type \in LossyTypes]
  OBVIOUS
<1>2. /\ queue \in Seq(Event) /\ Len(queue) <= QueueSize /\ Len(queue) \in Nat
      /\ published \in Nat /\ QueueSize \in Nat
      /\ published + 1 \in 1 .. MaxEvents
  BY ShareAssumption DEF IInv, Typed, Publish
<1>l. e.lossy => type \in LossyTypes
  BY <1>1, Zenon
<1>3. e \in Event /\ e.number = published + 1
  BY <1>1, <1>2 DEF Event
<1>4. queue' = Queued(e)
  BY <1>1 DEF Publish
<1>5. /\ ToSet(queue) = {queue[i] : i \in 1 .. Len(queue)} /\ DOMAIN queue = 1 .. Len(queue)
  BY <1>2 DEF ToSet
<1>6. CASE /\ Queued(e) = queue
           /\ e.lossy \/ ~\E i \in DOMAIN queue : queue[i].lossy
           /\ ~(Len(queue) < QueueSize)
  <2>1. queue' = queue /\ Len(queue) = QueueSize
    BY <1>2, <1>4, <1>6
  <2>2. \A x \in ToSet(queue) : \E i \in DOMAIN queue : x = queue[i]
    BY <1>5
  <2>3. type \in LossyTypes \/ \A x \in ToSet(queue) : ~x.lossy
    BY <1>l, <1>6, <2>2
  <2> QED BY <2>1, <2>3
<1>7. CASE Queued(e) = Append(queue, e) /\ Len(queue) < QueueSize
  <2>1. PICK v : v = queue'
    OBVIOUS
  <2>2. /\ v \in Seq(Event) /\ Len(v) = Len(queue) + 1
        /\ \A i \in 1 .. Len(queue) : v[i] = queue[i]
    <3>1. PICK q : q = queue
      OBVIOUS
    <3>2. /\ Append(q, e) \in Seq(Event) /\ Len(Append(q, e)) = Len(q) + 1
          /\ \A i \in 1 .. Len(q) : Append(q, e)[i] = q[i]
      BY <1>2, <1>3, <3>1, AppendFacts
    <3>3. v = Append(q, e)
      BY <1>4, <1>7, <2>1, <3>1
    <3> QED BY <3>1, <3>2, <3>3
  <2>3. ToSet(v) = {v[i] : i \in 1 .. Len(v)}
    BY <2>2 DEF ToSet
  <2>4. \A i \in 1 .. Len(queue) : i \in 1 .. Len(v)
    BY <1>2, <2>2
  <2>5. ToSet(queue) \subseteq ToSet(v)
    BY <1>5, <2>2, <2>3, <2>4
  <2>6. v # queue
    BY <1>2, <2>2
  <2> QED BY <2>1, <2>5, <2>6
<1>8. CASE \E k \in 1 .. Len(queue) : queue[k].lossy /\ Queued(e) = Append(RemoveAt(queue, k), e)
  <2>1. PICK k \in 1 .. Len(queue) : queue[k].lossy /\ Queued(e) = Append(RemoveAt(queue, k), e)
    BY <1>8
  <2>2. PICK v : v = queue'
    OBVIOUS
  <2>3. /\ v \in Seq(Event) /\ Len(v) = Len(queue) /\ v[Len(queue)] = e
        /\ \A a \in 1 .. Len(queue) : a # k => \E i \in 1 .. Len(queue) : v[i] = queue[a]
    <3>1. PICK q : q = queue
      OBVIOUS
    <3>2. k \in 1 .. Len(q) /\ q \in Seq(Event) /\ e \in Event
      BY <1>2, <1>3, <3>1
    <3>3. /\ Append(RemoveAt(q, k), e) \in Seq(Event)
          /\ Len(Append(RemoveAt(q, k), e)) = Len(q)
          /\ Append(RemoveAt(q, k), e)[Len(q)] = e
          /\ \A a \in 1 .. Len(q) : a # k =>
                \E i \in 1 .. Len(q) : Append(RemoveAt(q, k), e)[i] = q[a]
      BY <3>2, FollowsReplace, Zenon
    <3>4. v = Append(RemoveAt(q, k), e)
      BY <1>4, <2>1, <2>2, <3>1
    <3>5. /\ v \in Seq(Event) /\ Len(v) = Len(q) /\ v[Len(q)] = e
          /\ \A a \in 1 .. Len(q) : a # k => \E i \in 1 .. Len(q) : v[i] = q[a]
      BY <3>3, <3>4
    <3> QED BY <3>1, <3>5
  <2>4. ToSet(v) = {v[i] : i \in 1 .. Len(v)}
    BY <2>3 DEF ToSet
  <2>5. \A x \in ToSet(queue) \ ToSet(v) : x.lossy
    BY <1>5, <2>1, <2>3, <2>4
  <2>6. queue[Len(queue)] # e
    <3>1. Len(queue) \in 1 .. Len(queue)
      BY <1>2
    <3>2. queue[Len(queue)].number \in Nat /\ queue[Len(queue)].number <= published
      BY <1>2, <3>1, NumbersAre DEF IInv, Flows, Upward
    <3> QED BY <1>2, <1>3, <3>2
  <2>7. v # queue
    BY <2>3, <2>6
  <2> QED BY <2>2, <2>5, <2>7
<1> QED BY <1>2, <1>3, <1>6, <1>7, <1>8, QueuedIs

LEMMA StepCritical ==
    ASSUME IInv, [Next]_vars, room' # None
    PROVE /\ \A e \in ToSet(queue) \ ToSet(queue') : e.lossy \/ e \in ToSet(worker'.batch)
          /\ published' # published /\ queue' = queue =>
                \/ Len(queue) = QueueSize /\ \A e \in ToSet(queue) : ~e.lossy
                \/ \E type \in LossyTypes : Publish(type)
<1>1. CASE \E type \in SharedTypes : Publish(type)
  <2>1. PICK type \in SharedTypes : Publish(type)
    BY <1>1
  <2> QED BY <2>1, PublishCritical
<1>2. CASE Take
  <2>1. PICK q, t, x, b : q = queue /\ t = Tail(q) /\ x = Head(q) /\ b = Append(worker.batch, x)
    OBVIOUS
  <2>2. q \in Seq(Event) /\ q # <<>> /\ worker.batch \in Seq(Event)
    BY <1>2, <2>1, WorkerHas DEF Take, IInv, Typed
  <2>3. /\ Len(q) \in Nat /\ Len(t) = Len(q) - 1 /\ x = q[1] /\ t \in Seq(Event) /\ x \in Event
        /\ \A i \in 1 .. Len(q) - 1 : t[i] = q[i + 1]
        /\ \A i \in 1 .. Len(q) : i = 1 \/ (i - 1 \in 1 .. Len(q) - 1 /\ (i - 1) + 1 = i)
    BY <2>1, <2>2
  <2>4. /\ ToSet(q) = {q[i] : i \in 1 .. Len(q)} /\ ToSet(t) = {t[i] : i \in 1 .. Len(t)}
    BY <2>2, <2>3 DEF ToSet
  <2>5. /\ b \in Seq(Event) /\ Len(worker.batch) \in Nat /\ Len(b) = Len(worker.batch) + 1
        /\ b[Len(worker.batch) + 1] = x
    BY <2>1, <2>2, <2>3, AppendFacts
  <2>6. x \in ToSet(b)
    <3>1. Len(b) \in DOMAIN b
      BY <2>5
    <3> QED BY <2>5, <3>1 DEF ToSet
  <2>7. \A e \in ToSet(q) \ ToSet(t) : e = x
    <3> SUFFICES ASSUME NEW i \in 1 .. Len(q), q[i] \notin ToSet(t) PROVE q[i] = x
      BY <2>4
    <3>1. CASE i = 1
      BY <2>3, <3>1
    <3>2. CASE i - 1 \in 1 .. Len(q) - 1 /\ (i - 1) + 1 = i
      <4>1. t[i - 1] = q[i] /\ i - 1 \in 1 .. Len(t)
        BY <2>3, <3>2
      <4> QED BY <2>4, <4>1
    <3> QED BY <2>3, <3>1, <3>2
  <2>8. queue' = t /\ worker'.batch = b /\ published' = published
    BY <1>2, <2>1, WorkerHas DEF Take, WorkerStates
  <2> QED BY <2>1, <2>6, <2>7, <2>8
<1>3. CASE queue' = queue /\ published' = published
  BY <1>3
<1>4. CASE \E k \in Stoppers, final \in BOOLEAN : StopAsked(k, final)
  BY <1>4 DEF StopAsked
<1> QED BY <1>1, <1>2, <1>3, <1>4
  DEF Next, Work, CloseBatch, Post, Posted, PostFails, Resume, PostRefused, StartAsked, Start,
      Create, Created, CreateFails, Started, Stop, Delete, Deleted, DeleteFails, LogEnded, Stopped,
      ReadAsked, Read, Loaded, Fetch, Fetched, FetchFails, ReadKept, Heart, Beat, BeatSent,
      BeatEnds, Expire, feed, vars

LEMMA StepEnded ==
    ASSUME IInv, [Next]_vars
    PROVE \A r \in Rooms : accessLog[r] = "ended" => accessLog'[r] = "ended"
<1>1. accessLog \in [Rooms -> {"none", "active", "ended"}]
  BY DEF IInv, Typed
<1>2. CASE \E k \in Starters : Started(k)
  <2>1. PICK k \in Starters : Started(k)
    BY <1>2
  <2>2. /\ accessLog' = [accessLog EXCEPT ![starting[k].room] = "active"]
        /\ starting[k].phase = "keeping"
    BY <2>1 DEF Started
  <2> QED BY <1>1, <2>2 DEF IInv, Logged
<1>3. CASE \E k \in Readers : ReadKept(k)
  <2>1. PICK k \in Readers : ReadKept(k)
    BY <1>3
  <2>2. /\ accessLog' = [accessLog EXCEPT ![reading[k].room] = "active"]
        /\ reading[k].phase = "keeping"
    BY <2>1 DEF ReadKept
  <2> QED BY <1>1, <2>2 DEF IInv, Logged
<1>4. CASE \E k \in Stoppers : LogEnded(k)
  BY <1>1, <1>4 DEF LogEnded
<1>5. CASE accessLog' = accessLog
  BY <1>5
<1> QED BY <1>2, <1>3, <1>4, <1>5
  DEF Next, Publish, Work, Take, CloseBatch, Post, Posted, PostFails, Resume, PostRefused,
      StartAsked, Start, Create, Created, CreateFails, StopAsked, Stop, Delete, Deleted,
      DeleteFails, Stopped, ReadAsked, Read, Loaded, Fetch, Fetched, FetchFails,
      Heart, Beat, BeatSent, BeatEnds, Expire, logs, vars

\* A room gets the captions in their order, the ones that matter leave the
\* queue last, and no older log replaces that of the end, whatever is dropped,
\* evicted, sent again or answered late (publish_event, _worker_loop,
\* _remember_access_log).
THEOREM ViewersServedAlways == Spec => ViewersServed
<1>1. IInv /\ [Next]_vars =>
          [\A r \in Rooms : \A n \in seen'[r] \ seen[r], k \in seen[r] : k < n]_vars
  BY StepInOrder
<1>2. IInv /\ [Next]_vars =>
          [room' # None =>
             /\ \A e \in ToSet(queue) \ ToSet(queue') :
                    e.lossy \/ e \in ToSet(worker'.batch)
             /\ published' # published /\ queue' = queue =>
                    \/ Len(queue) = QueueSize /\ \A e \in ToSet(queue) : ~e.lossy
                    \/ \E type \in LossyTypes : Publish(type)]_vars
  BY StepCritical
<1>3. IInv /\ [Next]_vars =>
          [\A r \in Rooms : accessLog[r] = "ended" => accessLog'[r] = "ended"]_vars
  BY StepEnded
<1> QED BY <1>1, <1>2, <1>3, ShareInvariance, PTL
        DEF Spec, ViewersServed, InOrder, CriticalLast, EndedLogIsFinal
=============================================================================
