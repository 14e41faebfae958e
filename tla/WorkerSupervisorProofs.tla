----------------------- MODULE WorkerSupervisorProofs -----------------------
(***************************************************************************)
(* OneKnownWorker and PipeClean hold for any number of processes, requests *)
(* and failures, however often the server is killed.  A process is started *)
(* by the holder of _lifecycle_lock alone, after the last one and the one  *)
(* of the pid file have ended; whoever ends a worker that is ready holds   *)
(* _request_lock too, so that no request is written to a pipe in use.      *)
(***************************************************************************)
EXTENDS WorkerSupervisor, FiniteSetTheorems, SequenceTheorems, TLAPS

-----------------------------------------------------------------------------
(* The inductive invariant *)

Local == [phase : {"none", "joining", "queued", "waiting", "looking", "watching",
                   "sleeping", "asking", "disposing", "reconciling", "launching",
                   "readying", "sent"},
          job : {"none", "spawn", "restart", "stop", "exit", "break", "shielded",
                 "failed", "cancelled"},
          proc : Processes \cup {None}]
Queue(q) == q \in Seq(Tasks) /\ IsInjective(q)
In(k, q) == k \in ToSet(q)

Types ==
    /\ desired \in BOOLEAN /\ event \in BOOLEAN
    /\ process \in Processes \cup {None} /\ pid \in Processes \cup {None}
    /\ pidFile \in Processes \cup {None}
    /\ state \in {"stopped", "starting", "ready", "degraded"}
    /\ failures \in 0 .. MaxFailures
    /\ os \in [Processes -> Phases]
    /\ local \in [Tasks -> Local]
    /\ Queue(lifecycle) /\ Queue(requests) /\ pipe \in Seq(Tasks)
    /\ life \in {"starting", "running", "closing"}
    /\ life = "starting" => state = "stopped" /\ \A k \in Tasks : local[k] = Calm

\* What each task may be doing, and for which job.
Under == {"asking", "disposing", "reconciling", "launching"}
Role(k) ==
    LET phase == local[k].phase
        job == local[k].job
    IN  /\ phase = "none" => local[k] = Calm
        /\ phase \in {"reconciling", "launching"} => job = "spawn"
        /\ k = "start" =>
             /\ phase \in Under \cup {"none", "waiting"} /\ phase # "asking"
             /\ phase # "none" => job \in {"spawn", "failed", "cancelled"}
        /\ k = "monitor" =>
             /\ phase \in Under \cup {"none", "looking", "watching", "sleeping", "waiting"}
             /\ phase # "asking" /\ (phase = "looking" => local[k] = Looking)
             /\ phase \in {"waiting", "disposing"} =>
                  job \in {"exit", "spawn", "failed", "cancelled"}
             /\ phase = "watching" => job = "exit"
             /\ phase \in {"watching", "waiting"} /\ job = "exit" => local[k].proc # None
        /\ k = "restart" =>
             /\ phase \in Under \cup {"none", "joining", "queued", "waiting"}
             /\ phase # "asking"
             /\ phase \in {"joining", "queued"} => job = "restart"
             /\ phase \in {"waiting", "disposing"} => job \in {"restart", "spawn", "failed"}
        /\ k = "stop" =>
             /\ phase \in {"none", "joining", "queued", "waiting", "asking", "disposing"}
             /\ phase # "none" => job = "stop"
        /\ k \in Requests =>
             /\ phase \in {"none", "readying", "queued", "sent", "waiting", "disposing"}
             /\ phase # "none" => job \in {"break", "shielded"}
             /\ phase \in {"readying", "queued"} => job = "break"
             /\ phase \in {"sent", "waiting", "disposing"} => local[k].proc # None

\* Who waits for a lock, or holds it.
Placed(k) ==
    LET phase == local[k].phase
        job == local[k].job
    IN  /\ In(k, lifecycle) <=> phase \in Under \cup {"waiting"}
        /\ phase \in Under => Holds(k, lifecycle)
        /\ In(k, requests) =>
             \/ k \in {"restart", "stop"} /\ job = k
                /\ phase \in {"queued", "waiting", "asking", "disposing"}
             \/ k \in Requests /\ phase # "none"
        /\ phase = "queued" => In(k, requests)
        /\ k \in {"restart", "stop"} /\ job = k /\ phase \in {"waiting", "asking", "disposing"}
             => Holds(k, requests)
        /\ k \in Requests /\ phase = "sent" => In(k, requests)
        /\ k \in Requests /\ phase # "queued" /\ In(k, requests) => Holds(k, requests)

\* The supervisor has a worker that lives, and that it takes for ready.
Live == state = "ready" /\ process # None /\ Alive(process)

\* What a task relies on: that no worker is there while it starts one, that only
\* those who hold both locks end a worker that is ready, that a process whose end
\* was noticed is not another one by now, and what it wrote to the pipe.
Relies(k) ==
    LET phase == local[k].phase
        proc == local[k].proc
    IN  /\ phase = "reconciling" => process = None /\ pid = None
        /\ phase = "launching" =>
             /\ state \notin {"stopped", "ready"}
             /\ proc = None => process = None /\ pid = None /\ pidFile = None
             /\ proc # None => process = proc /\ \A t \in Requests : local[t].proc # proc
        /\ phase \in {"reconciling", "launching"} => pipe = <<>>
        /\ phase = "disposing" /\ Live => k \in {"restart", "stop"} /\ local[k].job = k
        /\ k = "monitor" /\ phase = "watching" => process = proc /\ os[proc] # "silent"
        /\ k = "monitor" /\ phase = "waiting" /\ local[k].job = "exit" => ~Alive(proc)
        /\ k \in Requests /\ phase = "waiting" /\ proc = process /\ Live => Holds(k, requests)
        /\ k \in Requests /\ phase = "sent" /\ proc = process =>
             pipe = <<k>> /\ (state = "ready" \/ ~Alive(process))

\* The processes that live, and who knows of them.
Lives(p) ==
    /\ os[p] = "silent" => process = p /\ pid = None /\ pidFile = None /\ state # "ready"
    /\ os[p] = "unheard" => p \notin {process, pid, pidFile}
    /\ os[p] \in {"named", "serving"} => pid = p /\ pidFile = p
    /\ os[p] = "orphan" => pidFile = p /\ p # process
    /\ p \in Children => state # "stopped"

\* What is in the pipe of a worker that is ready is of the holder of the lock.
Owns(k) ==
    /\ Holds(k, requests)
    /\ \/ /\ k \in Requests /\ pipe = <<k>> /\ local[k].proc = process
          /\ local[k].phase \in {"sent", "waiting"}
       \/ k = "stop" /\ local[k].phase \in {"asking", "disposing"}
Owned == Live /\ pipe # <<>> => \E k \in Tasks : Owns(k)

\* The lock of the requests is about to be handed over.
Handed(k) == local[k].phase = "queued" /\ Holds(k, requests)
Before(j, k, q) == \E n, m \in DOMAIN q : n < m /\ q[n] = j /\ q[m] = k

\* The first start is the first to have the lock, with no monitor beside it.
Starts ==
    local["start"].phase # "none" =>
        Holds("start", lifecycle) /\ local["monitor"] = Calm /\ state # "ready"

\* From the end of the old worker to the new one of restart no request is sent.
Booting ==
    /\ local["restart"].phase \in Under \cup {"waiting"}
    /\ local["restart"].job \in {"spawn", "failed"}
Restarts ==
    Booting =>
        \A t \in Requests :
            /\ local[t].phase # "sent" /\ ~Before("restart", t, lifecycle)
            /\ local[t].phase \in {"waiting", "disposing"} => ~In(t, requests)
            /\ Live => ~Handed(t)

\* The monitor waits for the lock, and a worker has come that it does not know.
Tardy ==
    /\ local["monitor"].phase = "waiting" /\ local["monitor"].job = "exit"
    /\ local["monitor"].proc # process /\ Live
Late ==
    Tardy => /\ \A t \in Requests : local[t].phase # "sent"
             /\ \A k \in Tasks : ~Handed(k)
             /\ Holds("stop", lifecycle) \/ Holds("monitor", lifecycle)

Core ==
    /\ Types
    /\ \A k \in Tasks : Role(k) /\ Placed(k) /\ Relies(k)
    /\ \A p \in Processes : Lives(p)
    /\ Owned

IInv == Core /\ Starts /\ Restarts /\ Late

\* A monitor that begins its loop does not find a worker that is being started:
\* what a cancelled start has left was not wanted any more.
Begins ==
    local["monitor"].phase = "looking" /\ desired /\ process # None => os[process] # "silent"

-----------------------------------------------------------------------------
(* The locks *)

LEMMA QueueIs ==
    ASSUME NEW q, Queue(q)
    PROVE /\ Len(q) \in Nat /\ DOMAIN q = 1 .. Len(q) /\ \A i \in DOMAIN q : q[i] \in Tasks
          /\ \A k : In(k, q) <=> \E i \in DOMAIN q : q[i] = k
          /\ \A k : Holds(k, q) <=> Len(q) > 0 /\ q[1] = k
          /\ \A i, j \in DOMAIN q : q[i] = q[j] => i = j
<1>1. q \in Seq(Tasks) /\ IsInjective(q)
  BY DEF Queue
<1>2. \A k : In(k, q) <=> \E i \in DOMAIN q : q[i] = k
  BY DEF In, ToSet
<1>3. \A k : Holds(k, q) <=> Len(q) > 0 /\ q[1] = k
  BY <1>1 DEF Holds
<1> QED BY <1>1, <1>2, <1>3 DEF IsInjective

\* Whoever holds a lock is the first in its queue.
LEMMA HoldsIs ==
    ASSUME NEW q, Queue(q)
    PROVE /\ \A k : Holds(k, q) => In(k, q) /\ k \in Tasks
          /\ \A j, k : Holds(j, q) /\ Holds(k, q) => j = k
          /\ q # <<>> => \E k \in Tasks : Holds(k, q)
<1>1. q # <<>> => Len(q) > 0
  BY DEF Queue
<1> QED BY <1>1, QueueIs

LEMMA HoldsBefore ==
    ASSUME NEW q, Queue(q), NEW j, NEW k, Holds(j, q), In(k, q), j # k
    PROVE Before(j, k, q)
<1>1. Len(q) > 0 /\ q[1] = j /\ Len(q) \in Nat /\ DOMAIN q = 1 .. Len(q)
  BY QueueIs
<1>2. PICK m \in DOMAIN q : q[m] = k
  BY QueueIs
<1>3. 1 \in DOMAIN q /\ 1 < m
  BY <1>1, <1>2
<1> QED BY <1>1, <1>2, <1>3 DEF Before

LEMMA JoinsStep ==
    ASSUME NEW q, Queue(q), NEW k \in Tasks, ~In(k, q)
    PROVE /\ Queue(Append(q, k)) /\ In(k, Append(q, k))
          /\ \A j : j # k => (In(j, Append(q, k)) <=> In(j, q))
          /\ \A i, j : j # k /\ Before(i, j, Append(q, k)) => Before(i, j, q)
          /\ \A j : Holds(j, q) => Holds(j, Append(q, k))
          /\ q = <<>> => Holds(k, Append(q, k))
<1>1. PICK r : r = Append(q, k)
  OBVIOUS
<1>2. /\ q \in Seq(Tasks) /\ r \in Seq(Tasks) /\ Len(r) = Len(q) + 1 /\ Len(q) \in Nat
      /\ \A i \in 1 .. Len(q) : r[i] = q[i]
      /\ r[Len(q) + 1] = k /\ DOMAIN r = 1 .. Len(q) + 1 /\ DOMAIN q = 1 .. Len(q)
  BY <1>1 DEF Queue
<1>3. \A i, j \in DOMAIN r : r[i] = r[j] => i = j
  <2> SUFFICES ASSUME NEW i \in DOMAIN r, NEW j \in DOMAIN r, r[i] = r[j] PROVE i = j
    OBVIOUS
  <2>1. CASE i \in 1 .. Len(q) /\ j \in 1 .. Len(q)
    BY <1>2, <2>1, QueueIs
  <2>2. CASE i = Len(q) + 1 \/ j = Len(q) + 1
    BY <1>2, <2>2, QueueIs
  <2> QED BY <1>2, <2>1, <2>2
<1>4. Queue(r)
  BY <1>2, <1>3 DEF Queue, IsInjective
<1>5. In(k, r) /\ \A j : j # k => (In(j, r) <=> In(j, q))
  <2>1. \A j : In(j, r) <=> \E i \in DOMAIN r : r[i] = j
    BY <1>4, QueueIs
  <2>2. \A j : In(j, q) <=> \E i \in DOMAIN q : q[i] = j
    BY QueueIs
  <2>3. Len(q) + 1 \in DOMAIN r
    BY <1>2
  <2>4. In(k, r)
    BY <1>2, <2>1, <2>3
  <2>5. ASSUME NEW j, j # k PROVE In(j, r) <=> In(j, q)
    <3>1. ASSUME NEW i \in DOMAIN r, r[i] = j PROVE i \in DOMAIN q /\ q[i] = j
      BY <1>2, <2>5, <3>1
    <3>2. ASSUME NEW i \in DOMAIN q, q[i] = j PROVE i \in DOMAIN r /\ r[i] = j
      BY <1>2, <3>2
    <3> QED BY <2>1, <2>2, <3>1, <3>2
  <2> QED BY <2>4, <2>5
<1>6. \A j : Holds(j, q) => Holds(j, r)
  BY <1>2, <1>4, QueueIs
<1>7. q = <<>> => Holds(k, r)
  BY <1>2, <1>4, QueueIs
<1>8. ASSUME NEW i, NEW j, j # k, Before(i, j, r) PROVE Before(i, j, q)
  <2>1. PICK n, m \in DOMAIN r : n < m /\ r[n] = i /\ r[m] = j
    BY <1>8 DEF Before
  <2>2. n \in DOMAIN q /\ m \in DOMAIN q /\ q[n] = i /\ q[m] = j
    BY <1>2, <1>8, <2>1
  <2> QED BY <2>1, <2>2 DEF Before
<1> QED BY <1>1, <1>4, <1>5, <1>6, <1>7, <1>8

LEMMA RemoveAtFacts ==
    ASSUME NEW S, NEW s \in Seq(S), NEW k \in 1 .. Len(s)
    PROVE /\ RemoveAt(s, k) \in Seq(S) /\ Len(s) \in Nat
          /\ Len(RemoveAt(s, k)) = Len(s) - 1
          /\ \A i \in 1 .. Len(s) - 1 :
                /\ i < k => RemoveAt(s, k)[i] = s[i]
                /\ i >= k => RemoveAt(s, k)[i] = s[i + 1]
<1> DEFINE a == SubSeq(s, 1, k - 1)
           b == SubSeq(s, k + 1, Len(s))
<1>0. k \in Nat /\ Len(s) \in Nat
  OBVIOUS
<1>1. /\ a \in Seq(S) /\ Len(a) = k - 1 /\ \A i \in 1 .. k - 1 : a[i] = s[i]
  OBVIOUS
<1>2. /\ b \in Seq(S) /\ Len(b) = Len(s) - k /\ \A i \in 1 .. Len(s) - k : b[i] = s[i + k]
  OBVIOUS
<1> HIDE DEF a, b
<1>3. PICK c : c = a \o b
  OBVIOUS
<1>4. /\ c \in Seq(S) /\ Len(c) = Len(s) - 1
      /\ \A i \in 1 .. Len(s) - 1 : c[i] = IF i <= k - 1 THEN a[i] ELSE b[i - (k - 1)]
  <2>1. /\ c \in Seq(S) /\ Len(c) = Len(a) + Len(b)
        /\ \A i \in 1 .. Len(a) + Len(b) : c[i] = IF i <= Len(a) THEN a[i] ELSE b[i - Len(a)]
    BY <1>1, <1>2, <1>3, ConcatProperties
  <2>2. Len(a) + Len(b) = Len(s) - 1
    BY <1>0, <1>1, <1>2
  <2> QED BY <1>1, <2>1, <2>2
<1>5. ASSUME NEW i \in 1 .. Len(s) - 1
      PROVE (i < k => c[i] = s[i]) /\ (i >= k => c[i] = s[i + 1])
  <2>0. i \in Nat /\ i >= 1 /\ i <= Len(s) - 1
    BY <1>0
  <2>1. CASE i < k
    <3>1. i \in 1 .. k - 1 /\ i <= k - 1
      BY <1>0, <2>0, <2>1
    <3> QED BY <1>1, <1>4, <2>1, <3>1
  <2>2. CASE i >= k
    <3>1. i - (k - 1) \in 1 .. Len(s) - k /\ (i - (k - 1)) + k = i + 1
      BY <1>0, <2>0, <2>2
    <3>2. c[i] = b[i - (k - 1)]
      BY <1>0, <1>4, <2>0, <2>2
    <3>3. b[i - (k - 1)] = s[(i - (k - 1)) + k]
      BY <1>2, <3>1
    <3> QED BY <2>2, <3>1, <3>2, <3>3
  <2> QED BY <1>0, <2>0, <2>1, <2>2
<1> QED BY <1>0, <1>3, <1>4, <1>5 DEF RemoveAt, a, b

LEMMA LeavesStep ==
    ASSUME NEW q, Queue(q), NEW k \in Tasks
    PROVE /\ Queue(Without(k, q)) /\ ~In(k, Without(k, q))
          /\ \A j : j # k => (In(j, Without(k, q)) <=> In(j, q))
          /\ \A i, j : Before(i, j, Without(k, q)) => Before(i, j, q)
          /\ \A j : j # k /\ Holds(j, q) => Holds(j, Without(k, q))
          /\ ~In(k, q) => Without(k, q) = q
<1> DEFINE places == {i \in DOMAIN q : q[i] = k}
<1>1. In(k, q) <=> places # {}
  BY QueueIs
<1>2. CASE ~In(k, q)
  BY <1>1, <1>2 DEF Without
<1>3. ASSUME In(k, q)
      PROVE /\ Queue(Without(k, q)) /\ ~In(k, Without(k, q))
            /\ \A j : j # k => (In(j, Without(k, q)) <=> In(j, q))
            /\ \A i, j : Before(i, j, Without(k, q)) => Before(i, j, q)
            /\ \A j : j # k /\ Holds(j, q) => Holds(j, Without(k, q))
  <2>1. PICK n : n = CHOOSE i \in places : TRUE
    OBVIOUS
  <2>2. n \in DOMAIN q /\ q[n] = k
    BY <1>1, <1>3, <2>1
  <2>3. PICK r : r = RemoveAt(q, n)
    OBVIOUS
  <2>4. Without(k, q) = r
    BY <1>1, <1>3, <2>1, <2>3 DEF Without
  <2>5. q \in Seq(Tasks) /\ Len(q) \in Nat /\ n \in 1 .. Len(q) /\ DOMAIN q = 1 .. Len(q)
    BY <2>2 DEF Queue
  <2>10. /\ r \in Seq(Tasks) /\ Len(r) = Len(q) - 1
         /\ \A i \in 1 .. Len(q) - 1 : (i < n => r[i] = q[i]) /\ (i >= n => r[i] = q[i + 1])
    BY <2>3, <2>5, RemoveAtFacts
  <2>11. \A i \in 1 .. Len(q) - 1 : r[i] = IF i < n THEN q[i] ELSE q[i + 1]
    BY <2>5, <2>10
  <2>12. /\ DOMAIN r = 1 .. Len(q) - 1
         /\ \A i, j \in DOMAIN r : r[i] = r[j] => i = j
    <3>1. DOMAIN r = 1 .. Len(q) - 1
      BY <2>10
    <3>2. ASSUME NEW i \in 1 .. Len(q) - 1, NEW j \in 1 .. Len(q) - 1, r[i] = r[j] PROVE i = j
      <4>1. \A x, y \in 1 .. Len(q) : q[x] = q[y] => x = y
        BY QueueIs
      <4> QED BY <2>5, <2>11, <3>2, <4>1
    <3> QED BY <3>1, <3>2
  <2>13. Queue(r)
    BY <2>10, <2>12 DEF Queue, IsInjective
  <2>14. \A j : In(j, r) <=> \E i \in 1 .. Len(q) - 1 : r[i] = j
    BY <2>12, <2>13, QueueIs
  <2>15. \A j : In(j, q) <=> \E i \in 1 .. Len(q) : q[i] = j
    BY QueueIs
  <2>16. \A i \in 1 .. Len(q) : q[i] = k => i = n
    BY <2>2, QueueIs
  <2>17. ~In(k, r)
    <3> SUFFICES ASSUME NEW i \in 1 .. Len(q) - 1, r[i] = k PROVE FALSE
      BY <2>14
    <3>1. CASE i < n
      BY <2>5, <2>11, <2>16, <3>1
    <3>2. CASE ~(i < n)
      BY <2>5, <2>11, <2>16, <3>2
    <3> QED BY <3>1, <3>2
  <2>18. ASSUME NEW j, j # k PROVE In(j, r) <=> In(j, q)
    <3>1. ASSUME NEW i \in 1 .. Len(q) - 1, r[i] = j PROVE In(j, q)
      <4>1. \E x \in 1 .. Len(q) : q[x] = j
        BY <2>5, <2>11, <3>1
      <4> QED BY <2>15, <4>1
    <3>2. ASSUME NEW i \in 1 .. Len(q), q[i] = j PROVE In(j, r)
      <4>1. i # n
        BY <2>2, <2>18, <3>2
      <4>2. CASE i < n
        BY <2>5, <2>11, <2>14, <3>2, <4>2
      <4>3. CASE i > n
        <5>1. i - 1 \in 1 .. Len(q) - 1 /\ r[i - 1] = q[i]
          BY <2>5, <2>11, <4>3
        <5> QED BY <2>14, <3>2, <5>1
      <4> QED BY <2>5, <4>1, <4>2, <4>3
    <3> QED BY <2>14, <2>15, <3>1, <3>2
  <2>19. ASSUME NEW j, j # k, Holds(j, q) PROVE Holds(j, r)
    <3>1. q[1] = j
      BY <2>19, QueueIs
    <3>2. 1 < n /\ Len(q) > 1
      BY <2>2, <2>5, <2>19, <3>1
    <3>3. r[1] = j /\ Len(r) > 0
      BY <2>5, <2>10, <2>11, <3>1, <3>2
    <3> QED BY <2>13, <3>3, QueueIs
  <2>20. ASSUME NEW i, NEW j, Before(i, j, r) PROVE Before(i, j, q)
    <3>1. PICK x, y \in 1 .. Len(q) - 1 : x < y /\ r[x] = i /\ r[y] = j
      BY <2>12, <2>20 DEF Before
    <3>2. PICK u \in 1 .. Len(q) : u = (IF x < n THEN x ELSE x + 1) /\ q[u] = i
      BY <2>5, <2>11, <3>1
    <3>3. PICK v \in 1 .. Len(q) : v = (IF y < n THEN y ELSE y + 1) /\ q[v] = j
      BY <2>5, <2>11, <3>1
    <3>4. u < v
      BY <2>5, <3>1, <3>2, <3>3
    <3> QED BY <2>5, <3>2, <3>3, <3>4 DEF Before
  <2> QED BY <2>4, <2>13, <2>17, <2>18, <2>19, <2>20
<1> QED BY <1>2, <1>3


-----------------------------------------------------------------------------
(* What stays when a task or two move *)

LEMMA TaskIs ==
    /\ {"start", "restart", "stop", "monitor"} \subseteq Tasks /\ Requests \subseteq Tasks
    /\ \A k \in Requests : k \notin {"start", "restart", "stop", "monitor"}
BY WorkerAssumption DEF Tasks

LEMMA LocalIs ==
    ASSUME local \in [Tasks -> Local], NEW k \in Tasks, NEW l \in Local
    PROVE /\ Set(k, l) \in [Tasks -> Local] /\ Set(k, l)[k] = l
          /\ \A j \in Tasks : j # k => Set(k, l)[j] = local[j]
BY DEF Set

\* The two that move are k and m; a step of one task has them equal.
Others(k, m) == {j \in Tasks : j # k /\ j # m}

Moves(k, m) ==
    /\ local' \in [Tasks -> Local]
    /\ \A j \in Others(k, m) : local'[j] = local[j]
    /\ Queue(lifecycle)' /\ Queue(requests)'
    /\ \A j \in Others(k, m) :
          /\ In(j, lifecycle)' <=> In(j, lifecycle)
          /\ In(j, requests)' <=> In(j, requests)
          /\ Holds(j, lifecycle) => Holds(j, lifecycle)'
          /\ Holds(j, requests) => Holds(j, requests)'
    /\ \A i \in Tasks, j \in Others(k, m) : Before(i, j, lifecycle)' => Before(i, j, lifecycle)

LEMMA OthersKeep ==
    ASSUME IInv, NEW k \in Tasks, NEW m \in Tasks, Moves(k, m)
    PROVE \A j \in Others(k, m) : Role(j)' /\ Placed(j)'
<1> SUFFICES ASSUME NEW j \in Others(k, m) PROVE Role(j)' /\ Placed(j)'
  OBVIOUS
<1>1. j \in Tasks /\ Role(j) /\ Placed(j) /\ local'[j] = local[j]
  BY DEF Others, Moves, IInv, Core
<1>2. Role(j)'
  BY <1>1 DEF Role, Calm, Looking, At
<1>3. /\ In(j, lifecycle)' <=> In(j, lifecycle)
      /\ In(j, requests)' <=> In(j, requests)
      /\ Holds(j, lifecycle) => Holds(j, lifecycle)'
      /\ Holds(j, requests) => Holds(j, requests)'
  BY DEF Moves
<1>4. /\ (In(j, lifecycle)' <=> local[j].phase \in Under \cup {"waiting"})
      /\ local[j].phase \in Under => Holds(j, lifecycle)'
  BY <1>1, <1>3 DEF Placed
<1>5. Placed(j)'
  BY <1>1, <1>3, <1>4 DEF Placed, Under
<1> QED BY <1>2, <1>5

\* What a task may do to the queue of a lock.
Goes(k, q, r) ==
    r \in {q, Without(k, q)} \/ (~In(k, q) /\ r = Append(q, k)) \/ r = Append(Without(k, q), k)

LEMMA GoesIs ==
    ASSUME NEW q, Queue(q), NEW r, NEW k \in Tasks, Goes(k, q, r)
    PROVE /\ Queue(r)
          /\ \A j : j # k => (In(j, r) <=> In(j, q))
          /\ \A j : j # k /\ Holds(j, q) => Holds(j, r)
          /\ \A i, j : j # k /\ Before(i, j, r) => Before(i, j, q)
<1>1. PICK s : s = Without(k, q)
  OBVIOUS
<1>2. /\ Queue(s) /\ ~In(k, s)
      /\ \A j : j # k => (In(j, s) <=> In(j, q))
      /\ \A i, j : Before(i, j, s) => Before(i, j, q)
      /\ \A j : j # k /\ Holds(j, q) => Holds(j, s)
  BY <1>1, LeavesStep
<1>3. CASE r = q
  BY <1>3
<1>4. CASE r = s
  BY <1>2, <1>4
<1>5. CASE ~In(k, q) /\ r = Append(q, k)
  BY <1>5, JoinsStep
<1>6. CASE r = Append(s, k)
  <2>1. /\ Queue(Append(s, k))
        /\ \A j : j # k => (In(j, Append(s, k)) <=> In(j, s))
        /\ \A i, j : j # k /\ Before(i, j, Append(s, k)) => Before(i, j, s)
        /\ \A j : Holds(j, s) => Holds(j, Append(s, k))
    BY <1>2, JoinsStep
  <2> QED BY <1>2, <1>6, <2>1
<1> QED BY <1>1, <1>3, <1>4, <1>5, <1>6 DEF Goes

LEMMA MovesIs ==
    ASSUME IInv, NEW k \in Tasks, NEW m \in Tasks, local' \in [Tasks -> Local],
           \A j \in Others(k, m) : local'[j] = local[j],
           Goes(k, lifecycle, lifecycle') \/ Goes(m, lifecycle, lifecycle'),
           Goes(k, requests, requests') \/ Goes(m, requests, requests')
    PROVE Moves(k, m)
<1>1. Queue(lifecycle) /\ Queue(requests)
  BY DEF IInv, Core, Types
<1>2. PICK q, r, u, v : q = lifecycle /\ r = lifecycle' /\ u = requests /\ v = requests'
  OBVIOUS
<1>3. /\ Queue(r)
      /\ \A j \in Others(k, m) : In(j, r) <=> In(j, q)
      /\ \A j \in Others(k, m) : Holds(j, q) => Holds(j, r)
      /\ \A i, j : j \in Others(k, m) /\ Before(i, j, r) => Before(i, j, q)
  <2>1. PICK x \in {k, m} : Goes(x, q, r)
    BY <1>2
  <2>2. /\ Queue(r)
        /\ \A j : j # x => (In(j, r) <=> In(j, q))
        /\ \A j : j # x /\ Holds(j, q) => Holds(j, r)
        /\ \A i, j : j # x /\ Before(i, j, r) => Before(i, j, q)
    BY <1>1, <1>2, <2>1, GoesIs
  <2> QED BY <2>2 DEF Others
<1>4. /\ Queue(v)
      /\ \A j \in Others(k, m) : In(j, v) <=> In(j, u)
      /\ \A j \in Others(k, m) : Holds(j, u) => Holds(j, v)
  <2>1. PICK x \in {k, m} : Goes(x, u, v)
    BY <1>2
  <2>2. /\ Queue(v)
        /\ \A j : j # x => (In(j, v) <=> In(j, u))
        /\ \A j : j # x /\ Holds(j, u) => Holds(j, v)
    BY <1>1, <1>2, <2>1, GoesIs
  <2> QED BY <2>2 DEF Others
<1>5. Queue(lifecycle)' /\ Queue(requests)'
  BY <1>2, <1>3, <1>4 DEF Queue
<1>6. ASSUME NEW j \in Others(k, m)
      PROVE /\ In(j, lifecycle)' <=> In(j, lifecycle)
            /\ In(j, requests)' <=> In(j, requests)
            /\ Holds(j, lifecycle) => Holds(j, lifecycle)'
            /\ Holds(j, requests) => Holds(j, requests)'
            /\ \A i \in Tasks : Before(i, j, lifecycle)' => Before(i, j, lifecycle)
  <2>1. /\ In(j, r) <=> In(j, q)
        /\ Holds(j, q) => Holds(j, r)
        /\ \A i : Before(i, j, r) => Before(i, j, q)
    BY <1>3
  <2>2. (In(j, v) <=> In(j, u)) /\ (Holds(j, u) => Holds(j, v))
    BY <1>4
  <2>3. In(j, lifecycle)' <=> In(j, lifecycle)
    BY <1>2, <2>1 DEF In
  <2>4. In(j, requests)' <=> In(j, requests)
    BY <1>2, <2>2 DEF In
  <2>5. Holds(j, lifecycle) => Holds(j, lifecycle)'
    BY <1>2, <2>1 DEF Holds
  <2>6. Holds(j, requests) => Holds(j, requests)'
    BY <1>2, <2>2 DEF Holds
  <2>7. \A i \in Tasks : Before(i, j, lifecycle)' => Before(i, j, lifecycle)
    BY <1>2, <2>1 DEF Before
  <2> QED BY <2>3, <2>4, <2>5, <2>6, <2>7
<1> QED BY <1>5, <1>6 DEF Moves

\* What is known of a task that is under way.
LEMMA TaskKnows ==
    ASSUME IInv, NEW k \in Tasks
    PROVE /\ local \in [Tasks -> Local] /\ local[k] \in Local
          /\ Queue(lifecycle) /\ Queue(requests)
          /\ Role(k) /\ Placed(k) /\ Relies(k)
          /\ local[k].phase # "none" => life # "starting" /\ local[k] # Calm
BY DEF IInv, Core, Types, Calm

LEMMA OneMoves ==
    ASSUME IInv, NEW k \in Tasks, NEW l \in Local, local' = Set(k, l),
           Goes(k, lifecycle, lifecycle'), Goes(k, requests, requests')
    PROVE Moves(k, k) /\ local'[k] = l
<1>1. /\ local' \in [Tasks -> Local] /\ local'[k] = l
      /\ \A j \in Tasks : j # k => local'[j] = local[j]
  BY TaskKnows, LocalIs
<1> QED BY <1>1, MovesIs DEF Others

\* Those who act under _lifecycle_lock are alone with it.
LEMMA Alone ==
    ASSUME IInv, NEW k \in Tasks, Holds(k, lifecycle)
    PROVE \A j \in Tasks : j # k => local[j].phase \notin Under /\ ~Holds(j, lifecycle)
<1>1. \A i, j : Holds(i, lifecycle) /\ Holds(j, lifecycle) => i = j
  BY HoldsIs DEF IInv, Core, Types
<1>2. \A j \in Tasks : local[j].phase \in Under => Holds(j, lifecycle)
  BY DEF IInv, Core, Placed
<1> QED BY <1>1, <1>2

\* A task that has ended waits for nothing.
LEMMA CalmIs ==
    ASSUME NEW k \in Tasks, local'[k] = Calm, ~In(k, lifecycle)', ~In(k, requests)'
    PROVE Role(k)' /\ Placed(k)' /\ Relies(k)'
<1>1. local'[k].phase = "none" /\ local'[k].job = "none" /\ local'[k].proc = None
  BY DEF Calm
<1>2. Role(k)'
  BY <1>1 DEF Role, Under
<1>3. Placed(k)'
  BY <1>1 DEF Placed, Under
<1>4. Relies(k)'
  BY <1>1 DEF Relies
<1> QED BY <1>2, <1>3, <1>4

\* The types of what a step of the tasks does not always set.
Rest ==
    /\ desired \in BOOLEAN /\ event \in BOOLEAN
    /\ failures \in 0 .. MaxFailures /\ life \in {"starting", "running", "closing"}
    /\ life = "starting" => state = "stopped" /\ \A k \in Tasks : local[k] = Calm

\* A step that touches neither processes nor the pipe.
Quiet(k, m) ==
    /\ UNCHANGED <<process, pid, os, pidFile, pipe>>
    /\ \/ state' = state
       \/ /\ state' \in {"starting", "degraded"}
          /\ \A j \in Requests \cap Others(k, m) :
                local[j].phase = "sent" /\ local[j].proc = process => ~Alive(process)
    /\ Moves(k, m)

LEMMA QuietKeeps ==
    ASSUME IInv, NEW k \in Tasks, NEW m \in Tasks, Quiet(k, m), Rest',
           \A n \in {k, m} : /\ Role(n)' /\ Placed(n)' /\ Relies(n)'
                             /\ Live' /\ Owns(n) => Owns(n)'
                             /\ n \in Requests => local'[n].proc \in {None, local[n].proc}
    PROVE Core'
<1>1. Types'
  BY DEF IInv, Core, Types, Rest, Quiet, Moves
<1>2. \A j \in Others(k, m) : Role(j)' /\ Placed(j)'
  BY OthersKeep DEF Quiet
<1>3. \A t \in Requests : local'[t].proc \in {None, local[t].proc}
  <2> TAKE t \in Requests
  <2>1. CASE t \in {k, m}
    BY <2>1
  <2>2. CASE t \notin {k, m}
    BY <2>2, TaskIs DEF Quiet, Moves, Others
  <2> QED BY <2>1, <2>2
<1>4. (Live' => Live) /\ (Live' => state' = state)
  BY DEF Live, Alive, Quiet
<1>5. ASSUME NEW j \in Others(k, m) PROVE Relies(j)'
  <2>1. j \in Tasks /\ Relies(j) /\ local'[j] = local[j]
    BY <1>5 DEF Others, Quiet, Moves, IInv, Core
  <2>2. Holds(j, requests) => Holds(j, requests)'
    BY <1>5 DEF Quiet, Moves
  <2>3. local[j].phase = "reconciling" => process' = None /\ pid' = None
    BY <2>1 DEF Relies, Quiet
  <2>4. ASSUME local[j].phase = "launching"
        PROVE /\ state' \notin {"stopped", "ready"}
              /\ local[j].proc = None => process' = None /\ pid' = None /\ pidFile' = None
              /\ local[j].proc # None =>
                    process' = local[j].proc /\ \A t \in Requests : local'[t].proc # local[j].proc
    <3>1. state' \notin {"stopped", "ready"}
      BY <2>1, <2>4 DEF Relies, Quiet
    <3>2. local[j].proc = None => process' = None /\ pid' = None /\ pidFile' = None
      BY <2>1, <2>4 DEF Relies, Quiet
    <3>3. local[j].proc # None =>
            process' = local[j].proc /\ \A t \in Requests : local[t].proc # local[j].proc
      BY <2>1, <2>4 DEF Relies, Quiet
    <3> QED BY <1>3, <3>1, <3>2, <3>3
  <2>5. local[j].phase \in {"reconciling", "launching"} => pipe' = <<>>
    BY <2>1 DEF Relies, Quiet
  <2>6. local[j].phase = "disposing" /\ Live' => j \in {"restart", "stop"} /\ local[j].job = j
    BY <1>4, <2>1 DEF Relies
  <2>7. j = "monitor" /\ local[j].phase = "waiting" /\ local[j].job = "exit"
          => ~Alive(local[j].proc)'
    BY <2>1 DEF Relies, Quiet, Alive
  <2>8. j \in Requests /\ local[j].phase = "waiting" /\ local[j].proc = process' /\ Live'
          => Holds(j, requests)'
    BY <1>4, <2>1, <2>2 DEF Relies, Quiet
  <2>9. j \in Requests /\ local[j].phase = "sent" /\ local[j].proc = process'
          => pipe' = <<j>> /\ (state' = "ready" \/ ~Alive(process)')
    BY <1>5, <2>1 DEF Relies, Quiet, Alive
  <2>10. j = "monitor" /\ local[j].phase = "watching"
           => process' = local[j].proc /\ os'[local[j].proc] # "silent"
    BY <2>1 DEF Relies, Quiet
  <2> QED BY <2>1, <2>3, <2>4, <2>5, <2>6, <2>7, <2>8, <2>9, <2>10 DEF Relies, Alive
<1>6. \A j \in Tasks : Role(j)' /\ Placed(j)' /\ Relies(j)'
  BY <1>2, <1>5 DEF Others
<1>7. \A p \in Processes : Lives(p)'
  <2> TAKE p \in Processes
  <2>1. Lives(p)
    BY DEF IInv, Core
  <2>2. (state # "stopped" => state' # "stopped") /\ (state' = "ready" => state = "ready")
    BY DEF Quiet
  <2> QED BY <2>1, <2>2 DEF Lives, Children, Quiet
<1>8. Owned'
  <2> SUFFICES ASSUME Live', pipe' # <<>> PROVE \E j \in Tasks : Owns(j)'
    BY DEF Owned
  <2>1. PICK j \in Tasks : Owns(j)
    BY <1>4 DEF IInv, Core, Owned, Quiet
  <2>2. CASE j \in {k, m}
    BY <2>1, <2>2
  <2>3. CASE j \notin {k, m}
    <3>1. local'[j] = local[j] /\ (Holds(j, requests) => Holds(j, requests)')
      BY <2>3 DEF Quiet, Moves, Others
    <3> QED BY <2>1, <3>1 DEF Owns, Quiet
  <2> QED BY <2>2, <2>3
<1> QED BY <1>1, <1>6, <1>7, <1>8 DEF Core

\* The same for the other parts of the invariant.
LEMMA StartsKeeps ==
    ASSUME IInv, NEW k \in Tasks, NEW m \in Tasks, Moves(k, m),
           local'["start"].phase # "none" => (state' = "ready" => state = "ready"),
           "start" \in {k, m} /\ local'["start"].phase # "none" =>
               local["start"].phase # "none" /\ Holds("start", lifecycle)',
           "monitor" \in {k, m} /\ local'["start"].phase # "none" => local'["monitor"] = Calm
    PROVE Starts'
<1> SUFFICES ASSUME local'["start"].phase # "none"
             PROVE Holds("start", lifecycle)' /\ local'["monitor"] = Calm /\ state' # "ready"
  BY DEF Starts
<1>1. "start" \notin {k, m} =>
        /\ local'["start"] = local["start"]
        /\ Holds("start", lifecycle) => Holds("start", lifecycle)'
  BY TaskIs DEF Moves, Others
<1>2. Holds("start", lifecycle) /\ local["monitor"] = Calm /\ state # "ready"
  BY <1>1 DEF IInv, Starts
<1>3. "monitor" \notin {k, m} => local'["monitor"] = local["monitor"]
  BY TaskIs DEF Moves, Others
<1> QED BY <1>1, <1>2, <1>3

LEMMA RestartsKeeps ==
    ASSUME IInv, NEW k \in Tasks, NEW m \in Tasks, Moves(k, m),
           Booting' => Booting,
           \A t \in Requests \cap {k, m} : Booting' =>
               /\ local'[t].phase # "sent" /\ ~Before("restart", t, lifecycle)'
               /\ local'[t].phase \in {"waiting", "disposing"} => ~In(t, requests)',
           Booting' /\ Live' => \A t \in Requests : ~Handed(t)'
    PROVE Restarts'
<1> SUFFICES ASSUME Booting', NEW t \in Requests
             PROVE /\ local'[t].phase # "sent" /\ ~Before("restart", t, lifecycle)'
                   /\ local'[t].phase \in {"waiting", "disposing"} => ~In(t, requests)'
                   /\ Live' => ~Handed(t)'
  BY DEF Restarts
<1>1. CASE t \in {k, m}
  BY <1>1
<1>2. CASE t \notin {k, m}
  <2>1. t \in Others(k, m)
    BY <1>2, TaskIs DEF Others
  <2>2. /\ local[t].phase # "sent" /\ ~Before("restart", t, lifecycle)
        /\ local[t].phase \in {"waiting", "disposing"} => ~In(t, requests)
    BY DEF IInv, Restarts
  <2>3. local'[t] = local[t] /\ (In(t, requests)' <=> In(t, requests))
    BY <2>1 DEF Moves
  <2>4. ~Before("restart", t, lifecycle)'
    <3>1. "restart" \in Tasks
      BY TaskIs
    <3>2. Before("restart", t, lifecycle)' => Before("restart", t, lifecycle)
      BY <2>1, <3>1 DEF Moves
    <3> QED BY <2>2, <3>2
  <2> QED BY <2>2, <2>3, <2>4
<1> QED BY <1>1, <1>2

LEMMA TardyKnows ==
    ASSUME IInv, Tardy
    PROVE /\ \A t \in Requests : local[t].phase # "sent"
          /\ \A k \in Tasks : ~Handed(k)
          /\ \A k \in Tasks \ {"stop", "monitor"} : ~Holds(k, lifecycle)
          /\ Holds("stop", lifecycle) => Holds("stop", requests) /\ local["stop"].phase # "queued"
          /\ Holds("stop", lifecycle) \/ (Holds("monitor", lifecycle) /\ HandedOver)
<1>1. /\ \A t \in Requests : local[t].phase # "sent"
      /\ \A k \in Tasks : ~Handed(k)
      /\ Holds("stop", lifecycle) \/ Holds("monitor", lifecycle)
  BY DEF IInv, Late
<1>2. \A i, j : Holds(i, lifecycle) /\ Holds(j, lifecycle) => i = j
  BY HoldsIs DEF IInv, Core, Types
<1>3. ASSUME Holds("stop", lifecycle)
      PROVE Holds("stop", requests) /\ local["stop"].phase # "queued"
  <2>1. "stop" \in Tasks /\ In("stop", lifecycle)
    BY <1>3, HoldsIs DEF IInv, Core, Types
  <2>2. Role("stop") /\ Placed("stop")
    BY <2>1, TaskKnows
  <2>3. local["stop"].phase \in {"asking", "disposing", "waiting"} /\ local["stop"].job = "stop"
    BY <2>1, <2>2 DEF Role, Placed, Under
  <2> QED BY <2>2, <2>3 DEF Placed
<1>4. Holds("monitor", lifecycle) => HandedOver
  BY TaskIs DEF Tardy, HandedOver
<1> QED BY <1>1, <1>2, <1>3, <1>4

LEMMA LateKeeps ==
    ASSUME IInv, NEW k \in Tasks, NEW m \in Tasks, Moves(k, m),
           Tardy' => Tardy, Tardy /\ Tardy' => ~HandedOver \/ "stop" \in {k, m},
           Tardy /\ Tardy' => \A t \in Requests \cap {k, m} : local'[t].phase # "sent",
           Tardy /\ Tardy' /\ "stop" \in {k, m} =>
               /\ Holds("stop", lifecycle)' /\ Holds("stop", requests)'
               /\ local'["stop"].phase # "queued"
    PROVE Late'
<1> SUFFICES ASSUME Tardy'
             PROVE /\ \A t \in Requests : local'[t].phase # "sent"
                   /\ \A j \in Tasks : ~Handed(j)'
                   /\ Holds("stop", lifecycle)' \/ Holds("monitor", lifecycle)'
  BY DEF Late
<1>1. ASSUME NEW t \in Requests PROVE local'[t].phase # "sent"
  <2>1. t \notin {k, m} => local'[t] = local[t]
    BY TaskIs DEF Moves, Others
  <2> QED BY <2>1, TardyKnows
<1>2. /\ Holds("stop", lifecycle)' /\ Holds("stop", requests)'
      /\ local'["stop"].phase # "queued"
  <2>1. CASE "stop" \in {k, m}
    BY <2>1
  <2>2. CASE "stop" \notin {k, m}
    <3>1. Holds("stop", lifecycle) /\ Holds("stop", requests) /\ local["stop"].phase # "queued"
      BY <2>2, TardyKnows
    <3>2. "stop" \in Others(k, m)
      BY <2>2, TaskIs DEF Others
    <3> QED BY <3>1, <3>2 DEF Moves
  <2> QED BY <2>1, <2>2
<1>3. \A i, j : Holds(i, requests)' /\ Holds(j, requests)' => i = j
  <2>1. Queue(requests)' /\ (Queue(requests)' => Queue(requests'))
    BY DEF Moves, Queue
  <2>2. \A i, j : Holds(i, requests') /\ Holds(j, requests') => i = j
    BY <2>1, HoldsIs
  <2> QED BY <2>2 DEF Holds
<1>4. \A j \in Tasks : ~Handed(j)'
  BY <1>2, <1>3 DEF Handed
<1> QED BY <1>1, <1>2, <1>4

LEMMA HeldKeeps ==
    ASSUME IInv, NEW k \in Tasks, NEW m \in Tasks, Moves(k, m),
           Holds(k, requests) \/ Holds(m, requests) =>
               Holds(k, requests)' \/ Holds(m, requests)'
    PROVE \A j \in Others(k, m) : Holds(j, requests)' => Holds(j, requests)
<1> SUFFICES ASSUME NEW j \in Others(k, m), Holds(j, requests)' PROVE Holds(j, requests)
  OBVIOUS
<1>1. PICK v : v = requests'
  OBVIOUS
<1>2. Queue(v) /\ Holds(j, v)
  BY <1>1 DEF Moves, Queue, Holds
<1>3. Holds(k, requests)' => k = j
  <2>1. Holds(k, requests)' => Holds(k, v)
    BY <1>1 DEF Holds
  <2> QED BY <1>2, <2>1, HoldsIs
<1>4. Holds(m, requests)' => m = j
  <2>1. Holds(m, requests)' => Holds(m, v)
    BY <1>1 DEF Holds
  <2> QED BY <1>2, <2>1, HoldsIs
<1>5. ~Holds(k, requests) /\ ~Holds(m, requests)
  BY <1>3, <1>4 DEF Others
<1>6. In(j, requests)
  <2>1. In(j, v)
    BY <1>2, HoldsIs
  <2>2. In(j, requests)'
    BY <1>1, <2>1 DEF In
  <2> QED BY <2>2 DEF Moves
<1>7. PICK i \in Tasks : Holds(i, requests)
  <2>1. Queue(requests) /\ requests # <<>>
    BY <1>6 DEF IInv, Core, Types, In, ToSet
  <2> QED BY <2>1, HoldsIs
<1>8. Holds(i, requests)'
  BY <1>5, <1>7 DEF Moves, Others
<1>9. i = j
  <2>1. Holds(i, v)
    BY <1>1, <1>8 DEF Holds
  <2> QED BY <1>2, <2>1, HoldsIs
<1> QED BY <1>7, <1>9

\* A worker that is ready is in the hands of restart and stop alone, when a task
\* has _lifecycle_lock for longer than a turn.
LEMMA HeadKnows ==
    ASSUME IInv, Live, ~HandedOver, NEW i \in Tasks, In(i, lifecycle)
    PROVE \E k \in {"restart", "stop"} :
              /\ Holds(k, lifecycle) /\ Holds(k, requests)
              /\ local[k].phase \in {"asking", "disposing"} /\ local[k].job = k
<1>1. PICK k \in Tasks : Holds(k, lifecycle)
  <2>1. lifecycle # <<>> /\ Queue(lifecycle)
    BY DEF In, ToSet, IInv, Core, Types
  <2> QED BY <2>1, HoldsIs
<1>2. Role(k) /\ Placed(k) /\ Relies(k) /\ In(k, lifecycle)
  BY <1>1, TaskKnows, HoldsIs
<1>3. local[k].phase \in Under
  BY <1>1, <1>2 DEF Placed, HandedOver
<1>4. local[k].phase # "reconciling" /\ local[k].phase # "launching"
  BY <1>2 DEF Relies, Live
<1>5. k \in {"restart", "stop"} /\ local[k].job = k
  <2>1. CASE local[k].phase = "asking"
    BY <1>2, <2>1, TaskIs DEF Role, Tasks
  <2>2. CASE local[k].phase = "disposing"
    BY <1>2, <2>2 DEF Relies
  <2> QED BY <1>3, <1>4, <2>1, <2>2 DEF Under
<1>6. local[k].phase \in {"asking", "disposing"}
  BY <1>3, <1>4 DEF Under
<1> QED BY <1>1, <1>2, <1>5, <1>6 DEF Placed

\* While the new worker of a restart is awaited, only stop has one that lives.
LEMMA BootingKnows ==
    ASSUME IInv, Booting, Live, ~HandedOver
    PROVE /\ Holds("stop", lifecycle) /\ Holds("stop", requests)
          /\ local["stop"].phase \in {"asking", "disposing"}
<1>1. In("restart", lifecycle)
  <2>1. Placed("restart")
    BY TaskIs, TaskKnows
  <2> QED BY <2>1 DEF Placed, Booting
<1>2. PICK k \in {"restart", "stop"} :
              /\ Holds(k, lifecycle) /\ Holds(k, requests)
              /\ local[k].phase \in {"asking", "disposing"} /\ local[k].job = k
  BY <1>1, TaskIs, HeadKnows
<1>3. k = "stop"
  BY <1>2 DEF Booting
<1> QED BY <1>2, <1>3

\* A step of one task that touches neither processes nor the pipe.
LEMMA TurnKeeps ==
    ASSUME IInv, NEW k \in Tasks, NEW l \in Local, local' = Set(k, l),
           Goes(k, lifecycle, lifecycle'), Goes(k, requests, requests'),
           UNCHANGED <<process, pid, os, pidFile, pipe>>,
           \/ state' = state
           \/ /\ state' \in {"starting", "degraded"}
              /\ \A j \in Requests : j # k /\ local[j].phase = "sent" /\ local[j].proc = process
                    => ~Alive(process),
           Rest', Role(k)', Placed(k)', Relies(k)',
           Live' /\ Owns(k) => Owns(k)',
           k \in Requests => l.proc \in {None, local[k].proc},
           k = "start" /\ l.phase # "none" => local[k].phase # "none" /\ Holds(k, lifecycle)',
           k = "monitor" => local["start"].phase = "none" \/ l = Calm,
           k = "restart" /\ Booting' => Booting,
           Booting /\ k \in Requests =>
               /\ l.phase # "sent" /\ ~Before("restart", k, lifecycle)'
               /\ l.phase \in {"waiting", "disposing"} => ~In(k, requests)',
           Booting /\ Live =>
               /\ Holds(k, requests) => Holds(k, requests)'
               /\ k \in Requests => ~Handed(k)',
           k = "monitor" => ~Tardy', Tardy /\ Tardy' => ~HandedOver \/ k = "stop",
           Tardy /\ Tardy' /\ k \in Requests => l.phase # "sent",
           Tardy /\ Tardy' /\ k = "stop" =>
               Holds(k, lifecycle)' /\ Holds(k, requests)' /\ l.phase # "queued"
    PROVE IInv'
<1>1. Moves(k, k) /\ local'[k] = l
  BY OneMoves
<1>2. Quiet(k, k)
  BY <1>1 DEF Quiet, Others
<1>3. Core'
  BY <1>1, <1>2, QuietKeeps
<1>4. Live' => Live
  BY DEF Live, Alive
<1> DEFINE Stays(j) == local'[j] = local[j]
<1>8. \A j \in Tasks : j # k => Stays(j)
  BY TaskKnows, LocalIs
<1>9. Booting' => Booting
  <2>1. k # "restart" => Stays("restart")
    BY <1>8, TaskIs
  <2> QED BY <2>1 DEF Booting
<1>10. Tardy' => Tardy
  <2>1. k # "monitor" => Stays("monitor")
    BY <1>8, TaskIs
  <2> QED BY <1>4, <2>1 DEF Tardy
<1>5. Starts'
  <2>1. k # "start" => local'["start"] = local["start"]
    BY TaskIs, TaskKnows, LocalIs
  <2>2. "monitor" \in {k, k} /\ local'["start"].phase # "none" => local'["monitor"] = Calm
    BY <1>1, <2>1
  <2>3. "start" \in {k, k} /\ local'["start"].phase # "none" =>
               local["start"].phase # "none" /\ Holds("start", lifecycle)'
    BY <1>1
  <2>4. state' = "ready" => state = "ready"
    OBVIOUS
  <2> QED BY <1>1, <2>2, <2>3, <2>4, StartsKeeps
<1>6. Restarts'
  <2>1. ASSUME Booting', Live', NEW t \in Requests PROVE ~Handed(t)'
    <3>1. CASE t = k
      BY <1>4, <1>9, <2>1, <3>1
    <3>2. CASE t # k
      <4>1. t \in Others(k, k) /\ local'[t] = local[t]
        BY <1>1, <3>2, TaskIs DEF Others, Moves
      <4>2. \A j \in Others(k, k) : Holds(j, requests)' => Holds(j, requests)
        BY <1>1, <1>4, <1>9, <2>1, HeldKeeps
      <4>3. ~Handed(t)
        BY <1>4, <1>9, <2>1 DEF IInv, Restarts
      <4> QED BY <4>1, <4>2, <4>3 DEF Handed
    <3> QED BY <3>1, <3>2
  <2>2. \A t \in Requests \cap {k, k} : Booting' =>
               /\ local'[t].phase # "sent" /\ ~Before("restart", t, lifecycle)'
               /\ local'[t].phase \in {"waiting", "disposing"} => ~In(t, requests)'
    BY <1>1, <1>9
  <2> QED BY <1>1, <1>9, <2>1, <2>2, RestartsKeeps
<1>7. Late'
  <2>1. Tardy /\ Tardy' => \A t \in Requests \cap {k, k} : local'[t].phase # "sent"
    BY <1>1
  <2>2. Tardy /\ Tardy' /\ "stop" \in {k, k} =>
               /\ Holds("stop", lifecycle)' /\ Holds("stop", requests)'
               /\ local'["stop"].phase # "queued"
    BY <1>1
  <2> QED BY <1>1, <1>10, <2>1, <2>2, LateKeeps
<1> QED BY <1>3, <1>5, <1>6, <1>7 DEF IInv

\* A task ends so.
LEMMA CalmTurn ==
    ASSUME IInv, NEW k \in Tasks, local' = Set(k, Calm),
           Goes(k, lifecycle, lifecycle'), Goes(k, requests, requests'),
           ~In(k, lifecycle)', ~In(k, requests)',
           UNCHANGED <<process, pid, os, pidFile, pipe>>,
           \/ state' = state
           \/ /\ state' \in {"starting", "degraded"}
              /\ \A j \in Requests : j # k /\ local[j].phase = "sent" /\ local[j].proc = process
                    => ~Alive(process),
           Rest', Live' => ~Owns(k), Booting /\ Live => ~Holds(k, requests),
           Tardy /\ Tardy' => ~HandedOver /\ k # "stop"
    PROVE IInv'
<1>1. Calm \in Local /\ Calm.phase = "none" /\ Calm.proc = None
  BY DEF Calm, Local
<1>2. local'[k] = Calm
  BY <1>1, TaskKnows, LocalIs
<1>3. Role(k)' /\ Placed(k)' /\ Relies(k)'
  BY <1>2, CalmIs
<1>4. k = "restart" => ~Booting'
  BY <1>1, <1>2 DEF Booting, Under
<1>5. k = "monitor" => ~Tardy'
  BY <1>1, <1>2 DEF Tardy
<1>6. ~Handed(k)'
  BY <1>1, <1>2 DEF Handed
<1>7. ~Before("restart", k, lifecycle)'
  BY DEF Before, In, ToSet
<1> QED BY <1>1, <1>3, <1>4, <1>5, <1>6, <1>7, TurnKeeps

\* What a request does when no lock is being handed over.
LEMMA RequestTurn ==
    ASSUME IInv, NEW k \in Requests, NEW l \in Local, local' = Set(k, l), ~HandedOver,
           Goes(k, lifecycle, lifecycle'), Goes(k, requests, requests'),
           UNCHANGED <<process, pid, state, os, pidFile, pipe>>,
           Rest', Role(k)', Placed(k)', Relies(k)',
           Live /\ Owns(k) => Owns(k)',
           l.proc \in {None, local[k].proc}, l.phase # "sent",
           Booting => /\ ~In(k, lifecycle)' \/ UNCHANGED lifecycle
                      /\ l.phase \in {"waiting", "disposing"} => ~In(k, requests)'
    PROVE IInv'
<1>1. k \in Tasks /\ k # "stop" /\ k # "start" /\ k # "monitor" /\ k # "restart"
  BY TaskIs
<1>2. Moves(k, k) /\ local'[k] = l
  BY <1>1, OneMoves
<1>3. ASSUME Booting PROVE ~Before("restart", k, lifecycle)'
  <2>1. CASE ~In(k, lifecycle)'
    BY <2>1 DEF Before, In, ToSet
  <2>2. CASE UNCHANGED lifecycle
    <3>1. ~Before("restart", k, lifecycle)
      BY <1>3 DEF IInv, Restarts
    <3> QED BY <2>2, <3>1 DEF Before
  <2> QED BY <1>3, <2>1, <2>2
<1>4. ASSUME Booting, Live PROVE ~Holds(k, requests) /\ ~Handed(k)'
  <2>1. Holds("stop", requests)
    BY <1>4, BootingKnows
  <2>2. Holds("stop", requests)'
    BY <1>1, <1>2, <2>1, TaskIs DEF Moves, Others
  <2>3. ~Holds(k, requests)
    BY <1>1, <2>1, HoldsIs DEF IInv, Core, Types
  <2>4. ~Holds(k, requests)'
    <3>1. PICK v : v = requests'
      OBVIOUS
    <3>2. Queue(v) /\ Holds("stop", v)
      BY <1>2, <2>2, <3>1 DEF Moves, Queue, Holds
    <3>3. ~Holds(k, v)
      BY <1>1, <3>2, HoldsIs
    <3> QED BY <3>1, <3>3 DEF Holds
  <2> QED BY <2>3, <2>4 DEF Handed
<1>5. Live' => Live
  BY DEF Live, Alive
<1> QED BY <1>1, <1>3, <1>4, <1>5, TurnKeeps

-----------------------------------------------------------------------------
(* What a task does to the locks *)

LEMMA LifecycleTurn ==
    ASSUME IInv, NEW k \in Tasks
    PROVE /\ UNCHANGED lifecycle =>
                /\ Goes(k, lifecycle, lifecycle')
                /\ In(k, lifecycle)' <=> In(k, lifecycle)
                /\ Holds(k, lifecycle)' <=> Holds(k, lifecycle)
          /\ lifecycle' = Without(k, lifecycle) =>
                /\ Goes(k, lifecycle, lifecycle') /\ ~In(k, lifecycle)' /\ ~Holds(k, lifecycle)'
          /\ ~In(k, lifecycle) /\ lifecycle' = Append(lifecycle, k) =>
                Goes(k, lifecycle, lifecycle') /\ In(k, lifecycle)'
<1>1. PICK q, r, s, a : /\ q = lifecycle /\ r = lifecycle' /\ s = Without(k, q) /\ a = Append(q, k)
  OBVIOUS
<1>2. Queue(q) /\ Queue(s)
  <2>1. Queue(q)
    BY <1>1 DEF IInv, Core, Types
  <2> QED BY <1>1, <2>1, LeavesStep
<1>3. Goes(k, q, q) /\ Goes(k, q, s) /\ (~In(k, q) => Goes(k, q, a))
  BY <1>1 DEF Goes
<1>4. ~In(k, s) /\ ~Holds(k, s)
  <2>1. ~In(k, s)
    BY <1>1, <1>2, LeavesStep
  <2> QED BY <1>2, <2>1, HoldsIs
<1>5. ~In(k, q) => In(k, a)
  BY <1>1, <1>2, JoinsStep
<1>6. ASSUME UNCHANGED lifecycle
      PROVE /\ Goes(k, lifecycle, lifecycle') /\ (In(k, lifecycle)' <=> In(k, lifecycle))
            /\ Holds(k, lifecycle)' <=> Holds(k, lifecycle)
  <2>1. Goes(k, lifecycle, lifecycle')
    BY <1>1, <1>3, <1>6
  <2>2. In(k, lifecycle)' <=> In(k, lifecycle)
    BY <1>6 DEF In
  <2>3. Holds(k, lifecycle)' <=> Holds(k, lifecycle)
    BY <1>6 DEF Holds
  <2> QED BY <2>1, <2>2, <2>3
<1>7. ASSUME lifecycle' = Without(k, lifecycle)
      PROVE Goes(k, lifecycle, lifecycle') /\ ~In(k, lifecycle)' /\ ~Holds(k, lifecycle)'
  <2>1. r = s
    BY <1>1, <1>7
  <2>2. Goes(k, lifecycle, lifecycle')
    BY <1>1, <1>3, <2>1
  <2>3. ~In(k, lifecycle)'
    BY <1>1, <1>4, <2>1 DEF In
  <2>4. ~Holds(k, lifecycle)'
    BY <1>1, <1>4, <2>1 DEF Holds
  <2> QED BY <2>2, <2>3, <2>4
<1>8. ASSUME ~In(k, lifecycle), lifecycle' = Append(lifecycle, k)
      PROVE Goes(k, lifecycle, lifecycle') /\ In(k, lifecycle)'
  <2>1. r = a /\ ~In(k, q)
    BY <1>1, <1>8
  <2>2. Goes(k, lifecycle, lifecycle')
    BY <1>1, <1>3, <2>1
  <2>3. In(k, lifecycle)'
    BY <1>1, <1>5, <2>1 DEF In
  <2> QED BY <2>2, <2>3
<1> QED BY <1>6, <1>7, <1>8

LEMMA RequestsTurn ==
    ASSUME IInv, NEW k \in Tasks
    PROVE /\ UNCHANGED requests =>
                /\ Goes(k, requests, requests')
                /\ In(k, requests)' <=> In(k, requests)
                /\ Holds(k, requests)' <=> Holds(k, requests)
          /\ requests' = Without(k, requests) =>
                /\ Goes(k, requests, requests') /\ ~In(k, requests)' /\ ~Holds(k, requests)'
          /\ ~In(k, requests) /\ requests' = Append(requests, k) =>
                Goes(k, requests, requests') /\ In(k, requests)'
<1>1. PICK q, r, s, a : /\ q = requests /\ r = requests' /\ s = Without(k, q) /\ a = Append(q, k)
  OBVIOUS
<1>2. Queue(q) /\ Queue(s)
  <2>1. Queue(q)
    BY <1>1 DEF IInv, Core, Types
  <2> QED BY <1>1, <2>1, LeavesStep
<1>3. Goes(k, q, q) /\ Goes(k, q, s) /\ (~In(k, q) => Goes(k, q, a))
  BY <1>1 DEF Goes
<1>4. ~In(k, s) /\ ~Holds(k, s)
  <2>1. ~In(k, s)
    BY <1>1, <1>2, LeavesStep
  <2> QED BY <1>2, <2>1, HoldsIs
<1>5. ~In(k, q) => In(k, a)
  BY <1>1, <1>2, JoinsStep
<1>6. ASSUME UNCHANGED requests
      PROVE /\ Goes(k, requests, requests') /\ (In(k, requests)' <=> In(k, requests))
            /\ Holds(k, requests)' <=> Holds(k, requests)
  <2>1. Goes(k, requests, requests')
    BY <1>1, <1>3, <1>6
  <2>2. In(k, requests)' <=> In(k, requests)
    BY <1>6 DEF In
  <2>3. Holds(k, requests)' <=> Holds(k, requests)
    BY <1>6 DEF Holds
  <2> QED BY <2>1, <2>2, <2>3
<1>7. ASSUME requests' = Without(k, requests)
      PROVE Goes(k, requests, requests') /\ ~In(k, requests)' /\ ~Holds(k, requests)'
  <2>1. r = s
    BY <1>1, <1>7
  <2>2. Goes(k, requests, requests')
    BY <1>1, <1>3, <2>1
  <2>3. ~In(k, requests)'
    BY <1>1, <1>4, <2>1 DEF In
  <2>4. ~Holds(k, requests)'
    BY <1>1, <1>4, <2>1 DEF Holds
  <2> QED BY <2>2, <2>3, <2>4
<1>8. ASSUME ~In(k, requests), requests' = Append(requests, k)
      PROVE Goes(k, requests, requests') /\ In(k, requests)'
  <2>1. r = a /\ ~In(k, q)
    BY <1>1, <1>8
  <2>2. Goes(k, requests, requests')
    BY <1>1, <1>3, <2>1
  <2>3. In(k, requests)'
    BY <1>1, <1>5, <2>1 DEF In
  <2> QED BY <2>2, <2>3
<1> QED BY <1>6, <1>7, <1>8

-----------------------------------------------------------------------------
(* The steps of one task that touch neither processes nor the pipe *)

LEMMA CalmHas == Calm \in Local /\ Looking \in Local
BY DEF Local, Calm, Looking, At

\* restart and stop wait for the requests under way.
LEMMA JoinedKeeps ==
    ASSUME IInv, NEW k \in Tasks, Joined(k)
    PROVE IInv'
<1>1. /\ local[k].phase = "joining" /\ local["monitor"] = Calm
      /\ local' = Set(k, At("queued", k, None)) /\ requests' = Append(requests, k)
      /\ UNCHANGED <<memory, lifecycle, pipe, system, bounds>>
  BY DEF Joined
<1>2. Role(k) /\ Placed(k) /\ life # "starting"
  BY <1>1, TaskKnows
<1>3. k \in {"restart", "stop"} /\ local[k].job = k
  BY <1>1, <1>2 DEF Role, Under, Tasks
<1>4. ~In(k, requests) /\ ~In(k, lifecycle)
  BY <1>1, <1>2, <1>3, TaskIs DEF Placed, Under
<1>5. PICK l : l = At("queued", k, None)
  OBVIOUS
<1>6. l \in Local /\ l.phase = "queued" /\ l.job = k /\ l.proc = None
  BY <1>3, <1>5 DEF Local, At
<1>7. local' = Set(k, l) /\ local'[k] = l /\ \A j \in Tasks : j # k => local'[j] = local[j]
  BY <1>1, <1>5, <1>6, TaskKnows, LocalIs
<1>8. Goes(k, requests, requests') /\ In(k, requests)'
  BY <1>1, <1>4, RequestsTurn
<1>9. Goes(k, lifecycle, lifecycle') /\ ~In(k, lifecycle)'
  BY <1>1, <1>4, LifecycleTurn
<1>10. Role(k)'
  BY <1>3, <1>6, <1>7, TaskIs DEF Role, Under
<1>11. Placed(k)'
  BY <1>3, <1>6, <1>7, <1>8, <1>9, TaskIs DEF Placed, Under
<1>12. Relies(k)'
  BY <1>3, <1>6, <1>7, TaskIs DEF Relies
<1>13. Rest'
  BY <1>1, <1>2 DEF Rest, IInv, Core, Types, memory, bounds
<1>14. ~Owns(k)
  BY <1>1, <1>3, TaskIs DEF Owns
<1>15. k = "restart" => ~Booting'
  BY <1>6, <1>7 DEF Booting, Under
<1>16. ~Tardy
  BY <1>1 DEF Tardy, Calm
<1>17. ~Holds(k, requests)
  BY <1>4, HoldsIs DEF IInv, Core, Types
<1>18. k \notin Requests /\ k # "start" /\ k # "monitor"
  BY <1>3, TaskIs
<1> HIDE DEF Set
<1> QED BY <1>1, <1>6, <1>7, <1>8, <1>9, <1>10, <1>11, <1>12, <1>13, <1>14, <1>15, <1>16,
           <1>17, <1>18, TurnKeeps DEF memory, system

-----------------------------------------------------------------------------
(* The requests *)

\* A request waits for the worker or for the lock, and for nothing else.
LEMMA WaitsIs ==
    ASSUME NEW k \in Requests, NEW phase \in {"readying", "queued"}, NEW l,
           l = [phase |-> phase, job |-> "break", proc |-> None], local'[k] = l,
           ~In(k, lifecycle)', phase = "queued" => In(k, requests)',
           phase = "readying" /\ In(k, requests)' => Holds(k, requests)'
    PROVE l \in Local /\ Role(k)' /\ Placed(k)' /\ Relies(k)'
<1>1. l \in Local /\ l.phase = phase /\ l.job = "break" /\ l.proc = None
  BY DEF Local
<1>2. Role(k)'
  BY <1>1, TaskIs DEF Role, Under
<1>3. Placed(k)'
  BY <1>1, TaskIs DEF Placed, Under
<1>4. Relies(k)'
  BY <1>1, TaskIs DEF Relies
<1> QED BY <1>1, <1>2, <1>3, <1>4

LEMMA AskKeeps ==
    ASSUME IInv, ~HandedOver, NEW k \in Requests, Ask(k)
    PROVE IInv'
<1>1. /\ local[k] = Calm /\ life = "running"
      /\ UNCHANGED <<memory, lifecycle, pipe, system, bounds>>
  BY DEF Ask
<1>2. k \in Tasks /\ local[k].phase = "none" /\ Placed(k)
  BY <1>1, TaskIs, TaskKnows DEF Calm
<1>3. ~In(k, requests) /\ ~In(k, lifecycle)
  BY <1>2, TaskIs DEF Placed, Under
<1>4. PICK phase \in {"readying", "queued"} :
        /\ local' = Set(k, At(phase, "break", None))
        /\ requests' = IF phase = "queued" THEN Append(requests, k) ELSE requests
  BY DEF Ask
<1>5. PICK l : l = [phase |-> phase, job |-> "break", proc |-> None]
  OBVIOUS
<1>6. l \in Local /\ local' = Set(k, l) /\ l.phase = phase /\ l.proc = None
  BY <1>4, <1>5 DEF Local, At
<1>7. local'[k] = l
  BY <1>2, <1>6, TaskKnows, LocalIs
<1>8. /\ Goes(k, requests, requests')
      /\ phase = "queued" => In(k, requests)'
      /\ phase = "readying" => ~In(k, requests)'
  BY <1>2, <1>3, <1>4, RequestsTurn
<1>9. Goes(k, lifecycle, lifecycle') /\ ~In(k, lifecycle)'
  BY <1>1, <1>2, <1>3, LifecycleTurn
<1>10. Role(k)' /\ Placed(k)' /\ Relies(k)'
  BY <1>5, <1>7, <1>8, <1>9, WaitsIs
<1>11. Rest'
  BY <1>1 DEF Rest, IInv, Core, Types, memory, bounds
<1>12. ~Owns(k)
  BY <1>2, TaskIs DEF Owns
<1> QED BY <1>1, <1>6, <1>8, <1>9, <1>10, <1>11, <1>12, RequestTurn DEF memory, system

LEMMA FailsKeeps ==
    ASSUME IInv, ~HandedOver, NEW k \in Requests, NEW job \in {"break", "shielded"},
           Fails(k, job)
    PROVE IInv'
<1>1. /\ local[k].phase = "sent" /\ lifecycle' = Append(lifecycle, k)
      /\ local' = Set(k, [local[k] EXCEPT !.phase = "waiting", !.job = job])
      /\ UNCHANGED <<memory, requests, pipe, system, bounds>>
  BY DEF Fails
<1>2. /\ k \in Tasks /\ Role(k) /\ Placed(k) /\ Relies(k) /\ life # "starting"
      /\ local[k] \in Local
  BY <1>1, TaskIs, TaskKnows
<1>3. /\ ~In(k, lifecycle) /\ In(k, requests) /\ Holds(k, requests) /\ local[k].proc # None
  BY <1>1, <1>2, TaskIs DEF Placed, Role, Under
<1>4. PICK l : l = [local[k] EXCEPT !.phase = "waiting", !.job = job]
  OBVIOUS
<1>5. l \in Local /\ l.phase = "waiting" /\ l.job = job /\ l.proc = local[k].proc
  BY <1>2, <1>4 DEF Local
<1>6. local' = Set(k, l) /\ local'[k] = l
  BY <1>1, <1>2, <1>4, <1>5, TaskKnows, LocalIs
<1>7. Goes(k, lifecycle, lifecycle') /\ In(k, lifecycle)'
  BY <1>1, <1>2, <1>3, LifecycleTurn
<1>8. Goes(k, requests, requests') /\ In(k, requests)' /\ Holds(k, requests)'
  BY <1>1, <1>2, <1>3, RequestsTurn
<1>9. Role(k)'
  BY <1>3, <1>5, <1>6, TaskIs DEF Role, Under
<1>10. Placed(k)'
  BY <1>5, <1>6, <1>7, <1>8, TaskIs DEF Placed, Under
<1>11. Relies(k)'
  BY <1>5, <1>6, <1>8, TaskIs DEF Relies
<1>12. Rest'
  BY <1>1, <1>2 DEF Rest, IInv, Core, Types, memory, bounds
<1>13. Owns(k) => Owns(k)'
  BY <1>1, <1>5, <1>6, <1>8, TaskIs DEF Owns, memory
<1>14. ~Booting
  BY <1>1 DEF IInv, Restarts
<1> QED BY <1>1, <1>5, <1>6, <1>7, <1>8, <1>9, <1>10, <1>11, <1>12, <1>13, <1>14,
           RequestTurn DEF memory, system

LEMMA LeaveKeeps ==
    ASSUME IInv, ~HandedOver, NEW k \in Requests, Leave(k)
    PROVE IInv'
<1>1. /\ local[k].phase \in {"readying", "queued", "waiting", "disposing"}
      /\ UNCHANGED <<memory, pipe, system, bounds>>
  BY DEF Leave
<1>2. /\ k \in Tasks /\ Role(k) /\ Placed(k) /\ Relies(k) /\ life # "starting"
      /\ local[k] \in Local /\ k # "stop"
  BY <1>1, TaskIs, TaskKnows
<1>3. Rest'
  BY <1>1, <1>2 DEF Rest, IInv, Core, Types, memory, bounds
<1>4. Booting /\ Live => ~Holds(k, requests)
  BY <1>2, BootingKnows, HoldsIs DEF IInv, Core, Types
<1>5. local[k].phase \in {"waiting", "disposing"} /\ Live => ~Holds(k, requests)
  <2> SUFFICES ASSUME local[k].phase \in {"waiting", "disposing"}, Live
               PROVE ~Holds(k, requests)
    OBVIOUS
  <2>1. In(k, lifecycle)
    BY <1>2 DEF Placed, Under
  <2>2. PICK j \in {"restart", "stop"} : Holds(j, requests)
    BY <1>2, <2>1, HeadKnows
  <2>3. j # k
    BY TaskIs
  <2> QED BY <2>2, <2>3, HoldsIs DEF IInv, Core, Types
<1>6. Live => ~Owns(k)
  BY <1>1, <1>2, <1>5, TaskIs DEF Owns
<1>7. Live' => Live
  BY <1>1 DEF Live, Alive, memory, system
<1>8. CASE /\ local[k].phase \in {"readying", "queued"} /\ Refused(k) /\ UNCHANGED lifecycle
  <2>1. local' = Set(k, Calm) /\ requests' = Without(k, requests) /\ lifecycle' = lifecycle
    BY <1>8 DEF Refused
  <2>2. ~In(k, lifecycle)
    BY <1>2, <1>8 DEF Placed, Under
  <2>3. Goes(k, requests, requests') /\ ~In(k, requests)'
    BY <1>2, <2>1, RequestsTurn
  <2>4. Goes(k, lifecycle, lifecycle') /\ ~In(k, lifecycle)'
    BY <1>2, <2>1, <2>2, LifecycleTurn
  <2> QED BY <1>1, <1>2, <1>3, <1>4, <1>6, <1>7, <2>1, <2>3, <2>4, CalmTurn DEF memory, system
<1>9. CASE /\ local[k].phase \in {"waiting", "disposing"} /\ local[k].job = "break"
           /\ local' = Set(k, Calm) /\ Released(k)
  <2>1. Goes(k, requests, requests') /\ ~In(k, requests)'
    BY <1>2, <1>9, RequestsTurn DEF Released
  <2>2. Goes(k, lifecycle, lifecycle') /\ ~In(k, lifecycle)'
    BY <1>2, <1>9, LifecycleTurn DEF Released
  <2> QED BY <1>1, <1>2, <1>3, <1>4, <1>6, <1>7, <1>9, <2>1, <2>2, CalmTurn DEF memory, system
<1>10. CASE /\ local[k].phase \in {"waiting", "disposing"} /\ local[k].job = "shielded"
            /\ requests' = Without(k, requests) /\ UNCHANGED <<local, lifecycle>>
  <2>1. PICK l : l = local[k]
    OBVIOUS
  <2>2. l \in Local /\ local' = Set(k, l) /\ local'[k] = l /\ l.phase = local[k].phase
    BY <1>2, <1>10, <2>1, TaskKnows DEF Set
  <2>3. Goes(k, requests, requests') /\ ~In(k, requests)'
    BY <1>2, <1>10, RequestsTurn
  <2>4. /\ Goes(k, lifecycle, lifecycle')
        /\ In(k, lifecycle)' <=> In(k, lifecycle)
        /\ Holds(k, lifecycle)' <=> Holds(k, lifecycle)
    BY <1>2, <1>10, LifecycleTurn
  <2>5. Role(k)'
    BY <1>2, <1>10 DEF Role, Calm, Looking, At
  <2>6. Placed(k)'
    BY <1>2, <1>10, <2>3, <2>4, TaskIs DEF Placed, Under
  <2>7. Relies(k)'
    <3>1. ~(Live /\ local[k].phase = "waiting" /\ local[k].proc = process)
      BY <1>2, <1>5 DEF Relies
    <3>2. ~(Live /\ local[k].phase = "disposing")
      BY <1>2, TaskIs DEF Relies
    <3> QED BY <1>1, <1>7, <1>10, <3>1, <3>2, TaskIs DEF Relies, memory
  <2>8. l.phase # "sent" /\ l.proc \in {None, local[k].proc}
    BY <1>10, <2>1
  <2>9. Live /\ Owns(k) => Owns(k)'
    BY <1>6
  <2>10. Booting => /\ ~In(k, lifecycle)' \/ UNCHANGED lifecycle
                    /\ l.phase \in {"waiting", "disposing"} => ~In(k, requests)'
    BY <1>10, <2>3
  <2>11. UNCHANGED <<process, pid, state, os, pidFile, pipe>>
    BY <1>1 DEF memory, system
  <2> QED BY <1>3, <2>2, <2>3, <2>4, <2>5, <2>6, <2>7, <2>8, <2>9, <2>10, <2>11, RequestTurn
<1> QED BY <1>8, <1>9, <1>10 DEF Leave

\* The worker is there, and nothing is in its pipe.
LEMMA WritesKeeps ==
    ASSUME IInv, NEW k \in Requests, local[k].phase \in {"queued", "readying"},
           Holds(k, requests), Available, Writes(k), ~Booting, ~Tardy,
           UNCHANGED <<memory, requests, lifecycle, system, bounds>>
    PROVE IInv'
<1>1. /\ k \in Tasks /\ Role(k) /\ Placed(k) /\ life # "starting" /\ local[k] \in Local
      /\ k \notin {"start", "restart", "stop", "monitor"}
  BY TaskIs, TaskKnows
<1>2. /\ Live /\ UNCHANGED <<desired, process, pid, state, failures, event, os, pidFile,
                             life, crashes, restarts, lifecycle, requests>>
  BY DEF Available, Live, memory, system, bounds
<1>3. pipe = <<>>
  <2> SUFFICES ASSUME pipe # <<>> PROVE FALSE
    OBVIOUS
  <2>1. PICK j \in Tasks : Owns(j)
    BY <1>2 DEF IInv, Core, Owned
  <2>2. j = k
    BY <2>1, HoldsIs DEF Owns, IInv, Core, Types
  <2> QED BY <1>1, <2>1, <2>2 DEF Owns
<1>4. pipe' = <<k>>
  BY <1>3 DEF Writes
<1>5. PICK l : l = At("sent", "break", process)
  OBVIOUS
<1>6. l \in Local /\ l.phase = "sent" /\ l.job = "break" /\ l.proc = process /\ process # None
  BY <1>2, <1>5 DEF Local, At, Live, IInv, Core, Types
<1>7. local' = Set(k, l) /\ local'[k] = l /\ \A j \in Tasks : j # k => local'[j] = local[j]
  BY <1>1, <1>5, <1>6, TaskKnows, LocalIs DEF Writes
<1>8. /\ Goes(k, lifecycle, lifecycle')
      /\ In(k, lifecycle)' <=> In(k, lifecycle)
      /\ Goes(k, requests, requests')
      /\ In(k, requests)' /\ Holds(k, requests)'
  BY <1>1, <1>2, LifecycleTurn, RequestsTurn, HoldsIs DEF IInv, Core, Types
<1>9. Moves(k, k)
  BY <1>1, <1>6, <1>7, <1>8, OneMoves
<1>10. ~In(k, lifecycle)'
  BY <1>1, <1>8 DEF Placed, Under
<1>11. Role(k)' /\ Placed(k)' /\ Relies(k)'
  <2>1. Role(k)'
    BY <1>1, <1>6, <1>7 DEF Role, Under
  <2>2. Placed(k)'
    BY <1>1, <1>6, <1>7, <1>8, <1>10 DEF Placed, Under
  <2>3. Relies(k)'
    BY <1>1, <1>2, <1>4, <1>6, <1>7 DEF Relies, Live
  <2> QED BY <2>1, <2>2, <2>3
<1>12. ASSUME NEW j \in Tasks, j # k PROVE Role(j)' /\ Placed(j)' /\ Relies(j)'
  <2>0. j \in Others(k, k)
    BY <1>12 DEF Others
  <2>1. Role(j)' /\ Placed(j)'
    BY <1>1, <1>9, <2>0, OthersKeep
  <2>2. Relies(j) /\ local'[j] = local[j] /\ Role(j)
    BY <1>7, <1>12, TaskKnows
  <2>3. local[j].phase # "reconciling" /\ local[j].phase # "launching"
    BY <1>2, <2>2 DEF Relies, Live
  <2>4. ~(j \in Requests /\ local[j].phase = "sent" /\ local[j].proc = process)
    BY <1>3, <2>2 DEF Relies
  <2>5. Live' => Live
    BY <1>2 DEF Live, Alive
  <2>6. Holds(j, requests)' <=> Holds(j, requests)
    BY <1>2 DEF Holds
  <2>7. Relies(j)'
    BY <1>2, <2>2, <2>3, <2>4, <2>5, <2>6 DEF Relies, Alive
  <2> QED BY <2>1, <2>7
<1>13. Types'
  <2>1. pipe' \in Seq(Tasks)
    BY <1>1, <1>4
  <2>2. Queue(lifecycle)' /\ Queue(requests)' /\ local' \in [Tasks -> Local]
    BY <1>9 DEF Moves
  <2> QED BY <1>1, <1>2, <2>1, <2>2 DEF Types, IInv, Core
<1>14. \A p \in Processes : Lives(p)'
  BY <1>2 DEF IInv, Core, Lives, Children
<1>15. Owned'
  BY <1>1, <1>2, <1>4, <1>6, <1>7, <1>8 DEF Owned, Owns
<1>16. Core'
  BY <1>11, <1>12, <1>13, <1>14, <1>15 DEF Core
<1>17. Starts'
  BY <1>1, <1>2, <1>9, StartsKeeps
<1>18. ~Booting' /\ ~Tardy'
  <2>1. local'["restart"] = local["restart"] /\ local'["monitor"] = local["monitor"]
    BY <1>1, <1>7, TaskIs
  <2> QED BY <1>2, <2>1 DEF Booting, Tardy, Live, Alive
<1> QED BY <1>16, <1>17, <1>18 DEF IInv, Restarts, Late

LEMMA SendKeeps ==
    ASSUME IInv, NEW k \in Requests, Send(k)
    PROVE IInv'
<1>1. local[k].phase = "queued" /\ Holds(k, requests) /\ Handed(k)
  BY DEF Send, Handed
<1>2. /\ k \in Tasks /\ Role(k) /\ Placed(k) /\ life # "starting" /\ local[k] \in Local
      /\ k \notin {"start", "restart", "stop", "monitor"}
  BY <1>1, TaskIs, TaskKnows
<1>3. ~(Booting /\ Live) /\ ~Tardy
  BY <1>1, <1>2, TardyKnows DEF IInv, Restarts
<1>4. UNCHANGED <<memory, lifecycle, system, bounds>>
  BY DEF Send
<1>5. Rest'
  BY <1>2, <1>4 DEF Rest, IInv, Core, Types, memory, bounds
<1>6. ~Owns(k)
  BY <1>1, <1>2 DEF Owns
<1>7. ~In(k, lifecycle)
  BY <1>1, <1>2 DEF Placed, Under
<1>8. Goes(k, lifecycle, lifecycle') /\ ~In(k, lifecycle)'
  BY <1>2, <1>4, <1>7, LifecycleTurn
<1>9. CASE Available /\ Writes(k) /\ UNCHANGED requests
  <2>1. ~Booting
    BY <1>3, <1>9 DEF Available, Live
  <2> QED BY <1>1, <1>3, <1>4, <1>9, <2>1, WritesKeeps
<1>10. CASE Refused(k) /\ UNCHANGED pipe
  <2>1. Goes(k, requests, requests') /\ ~In(k, requests)' /\ local' = Set(k, Calm)
    BY <1>2, <1>10, RequestsTurn DEF Refused
  <2> QED BY <1>2, <1>3, <1>4, <1>5, <1>6, <1>8, <1>10, <2>1, CalmTurn DEF memory, system
<1>11. CASE local' = Set(k, [local[k] EXCEPT !.phase = "readying"]) /\ UNCHANGED <<pipe, requests>>
  <2>1. PICK l : l = [local[k] EXCEPT !.phase = "readying"]
    OBVIOUS
  <2>2. l \in Local /\ l.phase = "readying" /\ l.job = "break" /\ l.proc = local[k].proc
    BY <1>1, <1>2, <2>1 DEF Local, Role
  <2>3. local' = Set(k, l) /\ local'[k] = l
    BY <1>2, <1>11, <2>1, <2>2, TaskKnows, LocalIs
  <2>4. /\ Goes(k, requests, requests')
        /\ In(k, requests)' /\ Holds(k, requests)'
    BY <1>1, <1>2, <1>11, RequestsTurn, HoldsIs DEF IInv, Core, Types
  <2>5. Role(k)'
    BY <1>2, <2>2, <2>3 DEF Role, Under
  <2>6. Placed(k)'
    BY <1>2, <1>8, <2>2, <2>3, <2>4 DEF Placed, Under
  <2>7. Relies(k)'
    BY <1>2, <2>2, <2>3 DEF Relies
  <2>8. ~Before("restart", k, lifecycle)'
    BY <1>8 DEF Before, In, ToSet
  <2>9. UNCHANGED <<process, pid, state, os, pidFile, pipe>>
    BY <1>4, <1>11 DEF memory, system
  <2> QED BY <1>2, <1>3, <1>5, <1>6, <1>8, <2>2, <2>3, <2>4, <2>5, <2>6, <2>7, <2>8, <2>9,
             TurnKeeps
<1> QED BY <1>9, <1>10, <1>11 DEF Send

LEMMA ReadiedKeeps ==
    ASSUME IInv, ~HandedOver, NEW k \in Requests, Readied(k)
    PROVE IInv'
<1>1. local[k].phase = "readying" /\ UNCHANGED <<memory, lifecycle, system, bounds>>
  BY DEF Readied
<1>2. /\ k \in Tasks /\ Role(k) /\ Placed(k) /\ life # "starting" /\ local[k] \in Local
      /\ k \notin {"start", "restart", "stop", "monitor"}
  BY <1>1, TaskIs, TaskKnows
<1>3. (Booting /\ Live => ~Holds(k, requests)) /\ (Tardy => ~Holds(k, requests))
  <2>1. Booting /\ Live => Holds("stop", requests)
    BY BootingKnows
  <2>2. Tardy => Holds("stop", requests)
    BY TardyKnows
  <2> QED BY <1>2, <2>1, <2>2, HoldsIs DEF IInv, Core, Types
<1>4. Rest'
  BY <1>1, <1>2 DEF Rest, IInv, Core, Types, memory, bounds
<1>5. ~Owns(k)
  BY <1>1, <1>2 DEF Owns
<1>6. ~In(k, lifecycle)
  BY <1>1, <1>2 DEF Placed, Under
<1>7. Goes(k, lifecycle, lifecycle') /\ ~In(k, lifecycle)'
  BY <1>1, <1>2, <1>6, LifecycleTurn
<1>8. CASE Available /\ Holds(k, requests) /\ Writes(k) /\ UNCHANGED requests
  <2>1. ~Booting /\ ~Tardy
    BY <1>3, <1>8 DEF Available, Live
  <2> QED BY <1>1, <1>8, <2>1, WritesKeeps
<1>9. CASE Refused(k) /\ UNCHANGED pipe
  <2>1. Goes(k, requests, requests') /\ ~In(k, requests)' /\ local' = Set(k, Calm)
    BY <1>2, <1>9, RequestsTurn DEF Refused
  <2> QED BY <1>1, <1>2, <1>3, <1>4, <1>5, <1>7, <1>9, <2>1, CalmTurn DEF memory, system
<1>10. CASE /\ ~Holds(k, requests) /\ local' = Set(k, At("queued", "break", None))
            /\ requests' = Append(requests, k) /\ UNCHANGED pipe
  <2>1. PICK l : l = [phase |-> "queued", job |-> "break", proc |-> None]
    OBVIOUS
  <2>2. l \in Local /\ local' = Set(k, l) /\ l.phase = "queued" /\ l.proc = None
    BY <1>10, <2>1 DEF Local, At
  <2>3. local'[k] = l
    BY <1>2, <2>2, TaskKnows, LocalIs
  <2>4. ~In(k, requests)
    BY <1>1, <1>2, <1>10 DEF Placed
  <2>5. Goes(k, requests, requests') /\ In(k, requests)'
    BY <1>2, <1>10, <2>4, RequestsTurn
  <2>6. Role(k)' /\ Placed(k)' /\ Relies(k)'
    BY <1>7, <2>1, <2>3, <2>5, WaitsIs
  <2>7. UNCHANGED <<process, pid, state, os, pidFile, pipe>>
    BY <1>1, <1>10 DEF memory, system
  <2> QED BY <1>4, <1>5, <1>7, <2>2, <2>5, <2>6, <2>7, RequestTurn
<1> QED BY <1>8, <1>9, <1>10 DEF Readied

LEMMA AnsweredKeeps ==
    ASSUME IInv, NEW k \in Requests, Answered(k)
    PROVE IInv'
<1>1. /\ local[k].phase = "sent" /\ process = local[k].proc /\ pipe' = Tail(pipe)
      /\ local' = Set(k, Calm) /\ requests' = Without(k, requests)
      /\ UNCHANGED <<memory, lifecycle, system, bounds>>
  BY DEF Answered, Replies, Refused
<1>2. /\ k \in Tasks /\ Role(k) /\ Placed(k) /\ Relies(k) /\ life # "starting"
      /\ k \notin {"start", "restart", "stop", "monitor"}
  BY <1>1, TaskIs, TaskKnows
<1>3. UNCHANGED <<desired, process, pid, state, failures, event, os, pidFile, life, lifecycle>>
  BY <1>1 DEF memory, system, bounds
<1>4. pipe = <<k>>
  BY <1>1, <1>2 DEF Relies
<1>5. pipe' = <<>>
  BY <1>1, <1>4
<1>6. ~Booting /\ ~Tardy
  BY <1>1, TardyKnows DEF IInv, Restarts
<1>7. ~In(k, lifecycle)
  BY <1>1, <1>2 DEF Placed, Under
<1>8. /\ Goes(k, requests, requests') /\ ~In(k, requests)'
      /\ Goes(k, lifecycle, lifecycle') /\ ~In(k, lifecycle)'
  BY <1>1, <1>2, <1>7, LifecycleTurn, RequestsTurn
<1>9. Moves(k, k) /\ local'[k] = Calm /\ \A j \in Tasks : j # k => local'[j] = local[j]
  BY <1>1, <1>2, <1>8, CalmHas, OneMoves, TaskKnows, LocalIs
<1>10. Role(k)' /\ Placed(k)' /\ Relies(k)'
  BY <1>2, <1>8, <1>9, CalmIs
<1>11. Live' => Live
  BY <1>3 DEF Live, Alive
<1>12. ASSUME NEW j \in Tasks, j # k PROVE Role(j)' /\ Placed(j)' /\ Relies(j)'
  <2>1. j \in Others(k, k)
    BY <1>12 DEF Others
  <2>2. Role(j)' /\ Placed(j)'
    BY <1>2, <1>9, <2>1, OthersKeep
  <2>3. Relies(j) /\ local'[j] = local[j]
    BY <1>9, <1>12, TaskKnows
  <2>4. ~(j \in Requests /\ local[j].phase = "sent" /\ local[j].proc = process)
    BY <1>4, <1>12, <2>3 DEF Relies
  <2>5. Holds(j, requests) => Holds(j, requests)'
    BY <1>9, <2>1 DEF Moves
  <2>6. \A t \in Requests : local'[t].proc \in {None, local[t].proc}
    BY <1>2, <1>9, TaskIs DEF Calm
  <2>7. ASSUME local[j].phase = "launching", local[j].proc # None
        PROVE process' = local[j].proc /\ \A t \in Requests : local'[t].proc # local[j].proc
    BY <1>3, <2>3, <2>6, <2>7 DEF Relies
  <2>8. ASSUME local[j].phase = "launching"
        PROVE /\ state' \notin {"stopped", "ready"}
              /\ local[j].proc = None => process' = None /\ pid' = None /\ pidFile' = None
    BY <1>3, <2>3, <2>8 DEF Relies
  <2>9. Relies(j)'
    BY <1>3, <1>5, <1>11, <2>3, <2>4, <2>5, <2>7, <2>8 DEF Relies, Alive
  <2> QED BY <2>2, <2>9
<1>13. Types'
  <2>1. Queue(lifecycle)' /\ Queue(requests)' /\ local' \in [Tasks -> Local]
    BY <1>9 DEF Moves
  <2> QED BY <1>2, <1>3, <1>5, <2>1 DEF Types, IInv, Core
<1>14. \A p \in Processes : Lives(p)'
  BY <1>3 DEF IInv, Core, Lives, Children
<1>15. Core'
  BY <1>5, <1>10, <1>12, <1>13, <1>14 DEF Core, Owned
<1>16. Starts'
  BY <1>2, <1>3, <1>9, StartsKeeps
<1>17. ~Booting' /\ ~Tardy'
  <2>1. local'["restart"] = local["restart"] /\ local'["monitor"] = local["monitor"]
    BY <1>2, <1>9, TaskIs
  <2> QED BY <1>3, <1>6, <2>1 DEF Booting, Tardy, Live, Alive
<1> QED BY <1>15, <1>16, <1>17 DEF IInv, Restarts, Late

LEMMA BreakKeeps ==
    ASSUME IInv, NEW k \in Requests, Break(k)
    PROVE IInv'
<1>1. /\ local[k].phase = "waiting" /\ Holds(k, lifecycle)
      /\ UNCHANGED <<desired, process, pid, failures, pipe, system, bounds>>
  BY DEF Break
<1>2. /\ k \in Tasks /\ Role(k) /\ Placed(k) /\ Relies(k) /\ life # "starting"
      /\ local[k] \in Local /\ k \notin {"start", "restart", "stop", "monitor"}
  BY <1>1, TaskIs, TaskKnows
<1>3. ~Tardy
  BY <1>1, <1>2, TardyKnows
<1>4. Booting => ~In(k, requests) /\ ~Before("restart", k, lifecycle)
  BY <1>1 DEF IInv, Restarts
<1>5. Booting => ~Holds(k, requests)
  BY <1>4, HoldsIs DEF IInv, Core, Types
<1>6. CASE /\ process = local[k].proc /\ state' = "degraded"
           /\ Disposes(k, local[k].job) /\ UNCHANGED locks
  <2>1. PICK l : l = [local[k] EXCEPT !.phase = "disposing", !.job = local[k].job]
    OBVIOUS
  <2>2. /\ l \in Local /\ l.phase = "disposing" /\ l.job = local[k].job
        /\ l.proc = local[k].proc
    BY <1>2, <2>1 DEF Local
  <2>3. local' = Set(k, l) /\ local'[k] = l /\ event' = FALSE
    BY <1>2, <1>6, <2>1, <2>2, TaskKnows, LocalIs DEF Disposes
  <2>4. UNCHANGED <<lifecycle, requests>>
    BY <1>6 DEF locks
  <2>5. /\ Goes(k, lifecycle, lifecycle')
        /\ In(k, lifecycle)' <=> In(k, lifecycle)
        /\ Holds(k, lifecycle)' <=> Holds(k, lifecycle)
        /\ Goes(k, requests, requests')
        /\ In(k, requests)' <=> In(k, requests)
        /\ Holds(k, requests)' <=> Holds(k, requests)
    BY <1>2, <2>4, LifecycleTurn, RequestsTurn
  <2>6. Role(k)'
    BY <1>1, <1>2, <2>2, <2>3 DEF Role, Under
  <2>7. Placed(k)'
    BY <1>1, <1>2, <2>2, <2>3, <2>5 DEF Placed, Under
  <2>8. ~Live'
    BY <1>6 DEF Live
  <2>9. Relies(k)'
    BY <1>2, <2>2, <2>3, <2>8 DEF Relies
  <2>10. Rest'
    BY <1>1, <1>2, <1>6, <2>3 DEF Rest, IInv, Core, Types, bounds
  <2>11. ASSUME NEW j \in Requests, j # k, local[j].phase = "sent", local[j].proc = process
         PROVE ~Alive(process)
    <3>1. Holds(j, requests) /\ Relies(j) /\ Role(j)
      BY <2>11, TaskIs, TaskKnows DEF Placed
    <3>2. ~Holds(k, requests)
      BY <2>11, <3>1, HoldsIs DEF IInv, Core, Types
    <3>3. process # None
      BY <2>11, <3>1, TaskIs DEF Role
    <3> QED BY <1>1, <1>2, <1>6, <2>11, <3>1, <3>2, <3>3 DEF Relies, Live
  <2>12. Booting => /\ l.phase # "sent" /\ ~Before("restart", k, lifecycle)'
                    /\ l.phase \in {"waiting", "disposing"} => ~In(k, requests)'
    BY <1>4, <2>2, <2>4, <2>5 DEF Before
  <2>13. ~Handed(k)'
    BY <2>2, <2>3 DEF Handed
  <2>14. UNCHANGED <<process, pid, os, pidFile, pipe>>
    BY <1>1 DEF system
  <2> QED BY <1>2, <1>3, <1>6, <2>2, <2>3, <2>5, <2>6, <2>7, <2>8, <2>9, <2>10, <2>11,
             <2>12, <2>13, <2>14, TurnKeeps
<1>7. CASE /\ process # local[k].proc /\ local' = Set(k, Calm) /\ Released(k)
           /\ UNCHANGED <<state, event>>
  <2>1. /\ Goes(k, lifecycle, lifecycle') /\ ~In(k, lifecycle)'
        /\ Goes(k, requests, requests') /\ ~In(k, requests)'
    BY <1>2, <1>7, LifecycleTurn, RequestsTurn DEF Released
  <2>2. ~Owns(k)
    BY <1>2, <1>7 DEF Owns
  <2>3. Rest'
    BY <1>1, <1>2, <1>7 DEF Rest, IInv, Core, Types, bounds
  <2>4. UNCHANGED <<process, pid, state, os, pidFile, pipe>>
    BY <1>1, <1>7 DEF system
  <2> QED BY <1>2, <1>3, <1>5, <1>7, <2>1, <2>2, <2>3, <2>4, CalmTurn
<1> QED BY <1>6, <1>7 DEF Break

-----------------------------------------------------------------------------
(* The monitor *)

LEMMA CountedIs == ASSUME IInv PROVE Counted \in 0 .. MaxFailures
<1>1. failures \in Nat /\ failures <= MaxFailures /\ MaxFailures \in Nat
  BY WorkerAssumption DEF IInv, Core, Types
<1> QED BY <1>1 DEF Counted

LEMMA MonitorKnows ==
    ASSUME IInv, local["monitor"].phase # "none"
    PROVE /\ Role("monitor") /\ Placed("monitor") /\ Relies("monitor")
          /\ ~In("monitor", requests) /\ ~Holds("monitor", requests) /\ ~Owns("monitor")
          /\ local["start"].phase = "none" /\ life # "starting"
          /\ local["monitor"] \in Local /\ "monitor" \in Tasks /\ "monitor" \notin Requests
<1>1. /\ Role("monitor") /\ Placed("monitor") /\ Relies("monitor") /\ life # "starting"
      /\ local["monitor"] \in Local /\ "monitor" \in Tasks /\ "monitor" \notin Requests
  BY TaskIs, TaskKnows
<1>2. ~In("monitor", requests)
  BY <1>1 DEF Placed
<1>3. ~Holds("monitor", requests)
  BY <1>2, HoldsIs DEF IInv, Core, Types
<1>4. local["start"].phase = "none"
  BY DEF IInv, Starts, Calm
<1> QED BY <1>1, <1>2, <1>3, <1>4 DEF Owns

LEMMA MonitorTurn ==
    ASSUME IInv, local["monitor"].phase # "none",
           NEW l \in Local, local' = Set("monitor", l),
           Goes("monitor", lifecycle, lifecycle'), UNCHANGED requests,
           UNCHANGED <<process, pid, os, pidFile, pipe>>,
           \/ state' = state
           \/ /\ state' \in {"starting", "degraded"}
              /\ \A j \in Requests : local[j].phase = "sent" /\ local[j].proc = process
                    => ~Alive(process),
           Rest', Role("monitor")', Placed("monitor")', Relies("monitor")', ~Tardy'
    PROVE IInv'
<1>1. PICK k : k = "monitor"
  OBVIOUS
<1>2. Goes(k, requests, requests')
  BY <1>1, MonitorKnows, RequestsTurn
<1>3. k \in Tasks /\ k \notin Requests /\ k # "start" /\ k # "stop" /\ k # "restart"
  BY <1>1, MonitorKnows
<1>4. /\ local' = Set(k, l) /\ Goes(k, lifecycle, lifecycle')
      /\ Role(k)' /\ Placed(k)' /\ Relies(k)'
  BY <1>1
<1>5. ~Owns(k) /\ ~Holds(k, requests) /\ local["start"].phase = "none"
  BY <1>1, MonitorKnows
<1> QED BY <1>2, <1>3, <1>4, <1>5, TurnKeeps

\* Where the monitor goes from there.
LEMMA AccountIs ==
    ASSUME NEW f, Account(f), ~In("monitor", lifecycle)', ~In("monitor", requests)',
           local \in [Tasks -> Local]
    PROVE \E l \in Local :
             /\ local' = Set("monitor", l) /\ local'["monitor"] = l
             /\ l.phase \in {"none", "sleeping"} /\ l.proc = None
             /\ state' = state \/ (desired /\ state' \in {"starting", "degraded"})
             /\ Role("monitor")' /\ Placed("monitor")' /\ Relies("monitor")'
             /\ ~Tardy'
<1>1. PICK l \in {Calm, At("sleeping", "none", None)} :
         /\ local' = Set("monitor", l)
         /\ state' = state \/ (desired /\ state' \in {"starting", "degraded"})
  BY DEF Account
<1>2. l \in Local /\ l.phase \in {"none", "sleeping"} /\ l.proc = None
  BY <1>1 DEF Local, Calm, At
<1>3. "monitor" \in Tasks /\ "monitor" \notin Requests
  BY TaskIs
<1>4. local'["monitor"] = l
  BY <1>1, <1>2, <1>3, LocalIs
<1>5. Role("monitor")'
  BY <1>1, <1>2, <1>3, <1>4 DEF Role, Under, Calm, At
<1>6. Placed("monitor")'
  BY <1>2, <1>3, <1>4 DEF Placed, Under
<1>7. Relies("monitor")'
  BY <1>2, <1>3, <1>4 DEF Relies
<1>8. ~Tardy'
  BY <1>2, <1>4 DEF Tardy
<1> QED BY <1>1, <1>2, <1>4, <1>5, <1>6, <1>7, <1>8

LEMMA LookKeeps ==
    ASSUME IInv, Begins, Look
    PROVE IInv'
<1>1. /\ local["monitor"] = Looking /\ local["monitor"].phase = "looking"
      /\ UNCHANGED <<desired, process, pid, failures, event, lifecycle, requests, pipe, os,
                     pidFile, life, crashes, restarts>>
  BY DEF Look, Looking, At, locks, system, bounds
<1>2. /\ Placed("monitor") /\ ~In("monitor", requests) /\ life # "starting"
      /\ "monitor" \in Tasks /\ "monitor" \notin Requests /\ local \in [Tasks -> Local]
  BY <1>1, MonitorKnows, TaskKnows
<1>3. ~In("monitor", lifecycle)
  BY <1>1, <1>2 DEF Placed, Under
<1>4. ~In("monitor", lifecycle)' /\ ~In("monitor", requests)'
  BY <1>1, <1>2, <1>3 DEF In
<1>5. Goes("monitor", lifecycle, lifecycle')
  BY <1>1, <1>2, LifecycleTurn
<1>6. Rest'
  BY <1>1, <1>2 DEF Rest, IInv, Core, Types
<1>7. CASE /\ desired /\ process # None
           /\ local' = Set("monitor", At("watching", "exit", process))
           /\ UNCHANGED state
  <2>1. PICK l : l = At("watching", "exit", process)
    OBVIOUS
  <2>2. l \in Local /\ l.phase = "watching" /\ l.job = "exit" /\ l.proc = process
    BY <2>1 DEF Local, At, IInv, Core, Types
  <2>3. local' = Set("monitor", l) /\ local'["monitor"] = l
    BY <1>2, <1>7, <2>1, <2>2, LocalIs
  <2>4. Role("monitor")'
    BY <1>2, <1>7, <2>2, <2>3 DEF Role, Under
  <2>5. Placed("monitor")'
    BY <1>2, <1>4, <2>2, <2>3 DEF Placed, Under
  <2>6. Relies("monitor")'
    BY <1>1, <1>2, <1>7, <2>2, <2>3 DEF Relies, Begins
  <2>7. ~Tardy'
    BY <2>2, <2>3 DEF Tardy
  <2> QED BY <1>1, <1>5, <1>6, <1>7, <2>2, <2>3, <2>4, <2>5, <2>6, <2>7, MonitorTurn
<1>8. CASE ~(desired /\ process # None) /\ Account(failures)
  <2>1. PICK l \in Local :
             /\ local' = Set("monitor", l)
             /\ state' = state \/ (desired /\ state' \in {"starting", "degraded"})
             /\ Role("monitor")' /\ Placed("monitor")' /\ Relies("monitor")' /\ ~Tardy'
    BY <1>2, <1>4, <1>8, AccountIs
  <2>2. ASSUME desired, NEW j \in Requests, local[j].phase = "sent"
        PROVE local[j].proc # process
    <3>1. Role(j)
      BY TaskIs, TaskKnows
    <3> QED BY <1>8, <2>2, <3>1, TaskIs DEF Role
  <2> QED BY <1>1, <1>5, <1>6, <2>1, <2>2, MonitorTurn
<1> QED BY <1>7, <1>8 DEF Look

\* It waits for the lock, to replace what it watched or to start anew.
LEMMA ExitedKeeps ==
    ASSUME IInv, Exited
    PROVE IInv'
<1>1. /\ local["monitor"].phase = "watching" /\ ~Alive(local["monitor"].proc)
      /\ UNCHANGED <<desired, process, pid, state, failures, event, requests, pipe, os,
                     pidFile, life, crashes, restarts>>
  BY DEF Exited, memory, system, bounds
<1>2. /\ Placed("monitor") /\ Role("monitor") /\ Relies("monitor")
      /\ ~In("monitor", requests) /\ life # "starting" /\ local["monitor"] \in Local
      /\ "monitor" \in Tasks /\ "monitor" \notin Requests /\ local \in [Tasks -> Local]
  BY <1>1, MonitorKnows, TaskKnows
<1>3. ~In("monitor", lifecycle)
  BY <1>1, <1>2 DEF Placed, Under
<1>4. ~In("monitor", requests)'
  BY <1>1, <1>2 DEF In
<1>5. Rest'
  BY <1>1, <1>2 DEF Rest, IInv, Core, Types
<1>6. CASE /\ local' = Set("monitor", [local["monitor"] EXCEPT !.phase = "waiting"])
           /\ lifecycle' = Append(lifecycle, "monitor")
  <2>1. PICK l : l = [local["monitor"] EXCEPT !.phase = "waiting"]
    OBVIOUS
  <2>2. /\ l \in Local /\ l.phase = "waiting" /\ l.job = "exit" /\ l.proc # None
        /\ l.proc = local["monitor"].proc /\ l.proc = process
    BY <1>1, <1>2, <2>1 DEF Local, Role, Relies
  <2>3. local' = Set("monitor", l) /\ local'["monitor"] = l
    BY <1>2, <1>6, <2>1, <2>2, LocalIs
  <2>4. Goes("monitor", lifecycle, lifecycle') /\ In("monitor", lifecycle)'
    BY <1>2, <1>3, <1>6, LifecycleTurn
  <2>5. Role("monitor")'
    BY <1>2, <2>2, <2>3 DEF Role, Under
  <2>6. Placed("monitor")'
    BY <1>2, <1>4, <2>2, <2>3, <2>4 DEF Placed, Under
  <2>7. Relies("monitor")'
    BY <1>1, <1>2, <2>2, <2>3 DEF Relies, Alive
  <2>8. ~Tardy'
    BY <1>1, <2>2, <2>3 DEF Tardy
  <2> QED BY <1>1, <1>5, <2>2, <2>3, <2>4, <2>5, <2>6, <2>7, <2>8, MonitorTurn
<1>7. CASE local' = Set("monitor", Calm) /\ UNCHANGED lifecycle
  <2>1. /\ Goes("monitor", lifecycle, lifecycle') /\ ~In("monitor", lifecycle)'
        /\ Goes("monitor", requests, requests')
    BY <1>1, <1>2, <1>3, <1>7, LifecycleTurn, RequestsTurn
  <2>2. ~Owns("monitor") /\ ~Holds("monitor", requests)
    BY <1>1, MonitorKnows
  <2>3. ~Tardy
    BY <1>1 DEF Tardy
  <2> QED BY <1>1, <1>2, <1>4, <1>5, <1>7, <2>1, <2>2, <2>3, CalmTurn
<1> QED BY <1>6, <1>7 DEF Exited

LEMMA WakeKeeps ==
    ASSUME IInv, Wake
    PROVE IInv'
<1>1. /\ local["monitor"].phase = "sleeping"
      /\ UNCHANGED <<desired, process, pid, state, failures, event, requests, pipe, os,
                     pidFile, life, crashes, restarts>>
  BY DEF Wake, memory, system, bounds
<1>2. /\ Placed("monitor") /\ ~In("monitor", requests) /\ life # "starting"
      /\ "monitor" \in Tasks /\ "monitor" \notin Requests /\ local \in [Tasks -> Local]
  BY <1>1, MonitorKnows, TaskKnows
<1>3. ~In("monitor", lifecycle)
  BY <1>1, <1>2 DEF Placed, Under
<1>4. ~In("monitor", requests)'
  BY <1>1, <1>2 DEF In
<1>5. Rest'
  BY <1>1, <1>2 DEF Rest, IInv, Core, Types
<1>6. CASE /\ local' = Set("monitor", Waiting("spawn"))
           /\ lifecycle' = Append(lifecycle, "monitor")
  <2>1. PICK l : l = Waiting("spawn")
    OBVIOUS
  <2>2. l \in Local /\ l.phase = "waiting" /\ l.job = "spawn"
    BY <2>1 DEF Local, At, Waiting
  <2>3. local' = Set("monitor", l) /\ local'["monitor"] = l
    BY <1>2, <1>6, <2>1, <2>2, LocalIs
  <2>4. Goes("monitor", lifecycle, lifecycle') /\ In("monitor", lifecycle)'
    BY <1>2, <1>3, <1>6, LifecycleTurn
  <2>5. Role("monitor")'
    BY <1>2, <2>2, <2>3 DEF Role, Under
  <2>6. Placed("monitor")'
    BY <1>2, <1>4, <2>2, <2>3, <2>4 DEF Placed, Under
  <2>7. Relies("monitor")'
    BY <1>2, <2>2, <2>3 DEF Relies
  <2>8. ~Tardy'
    BY <2>2, <2>3 DEF Tardy
  <2> QED BY <1>1, <1>5, <2>2, <2>3, <2>4, <2>5, <2>6, <2>7, <2>8, MonitorTurn
<1>7. CASE local' = Set("monitor", Calm) /\ UNCHANGED lifecycle
  <2>1. /\ Goes("monitor", lifecycle, lifecycle') /\ ~In("monitor", lifecycle)'
        /\ Goes("monitor", requests, requests')
    BY <1>1, <1>2, <1>3, <1>7, LifecycleTurn, RequestsTurn
  <2>2. ~Owns("monitor") /\ ~Holds("monitor", requests)
    BY <1>1, MonitorKnows
  <2>3. ~Tardy
    BY <1>1 DEF Tardy
  <2> QED BY <1>1, <1>2, <1>4, <1>5, <1>7, <2>1, <2>2, <2>3, CalmTurn
<1> QED BY <1>6, <1>7 DEF Wake

LEMMA ReplaceKeeps ==
    ASSUME IInv, Replace
    PROVE IInv'
<1>1. /\ local["monitor"].phase = "waiting" /\ local["monitor"].job = "exit"
      /\ Holds("monitor", lifecycle)
      /\ UNCHANGED <<desired, process, pid, requests, pipe, os, pidFile, life, crashes,
                     restarts>>
  BY DEF Replace, Granted, system, bounds
<1>2. /\ Placed("monitor") /\ Role("monitor") /\ Relies("monitor")
      /\ ~In("monitor", requests) /\ life # "starting" /\ local["monitor"] \in Local
      /\ "monitor" \in Tasks /\ "monitor" \notin Requests /\ local \in [Tasks -> Local]
  BY <1>1, MonitorKnows, TaskKnows
<1>3. ~In("monitor", requests)'
  BY <1>1, <1>2 DEF In
<1>4. CASE /\ process = local["monitor"].proc /\ state' = "degraded" /\ failures' = Counted
           /\ Disposes("monitor", "exit") /\ UNCHANGED lifecycle
  <2>1. PICK l : l = [local["monitor"] EXCEPT !.phase = "disposing", !.job = "exit"]
    OBVIOUS
  <2>2. l \in Local /\ l.phase = "disposing" /\ l.job = "exit"
    BY <1>2, <2>1 DEF Local
  <2>3. local' = Set("monitor", l) /\ local'["monitor"] = l /\ event' = FALSE
    BY <1>2, <1>4, <2>1, <2>2, LocalIs DEF Disposes
  <2>4. /\ Goes("monitor", lifecycle, lifecycle')
        /\ In("monitor", lifecycle)' /\ Holds("monitor", lifecycle)'
    BY <1>1, <1>2, <1>4, LifecycleTurn, HoldsIs DEF IInv, Core, Types
  <2>5. Role("monitor")'
    BY <1>2, <2>2, <2>3 DEF Role, Under
  <2>6. Placed("monitor")'
    BY <1>2, <1>3, <2>2, <2>3, <2>4 DEF Placed, Under
  <2>7. ~Live'
    BY <1>4 DEF Live
  <2>8. Relies("monitor")'
    BY <1>2, <2>2, <2>3, <2>7 DEF Relies
  <2>9. Rest'
    BY <1>1, <1>2, <1>4, <2>3, CountedIs DEF Rest, IInv, Core, Types
  <2>10. ~Alive(process)
    BY <1>1, <1>2, <1>4 DEF Relies
  <2>11. ~Tardy'
    BY <2>7 DEF Tardy
  <2> QED BY <1>1, <1>4, <2>2, <2>3, <2>4, <2>5, <2>6, <2>8, <2>9, <2>10, <2>11, MonitorTurn
<1>5. CASE /\ process # local["monitor"].proc /\ Account(failures)
           /\ lifecycle' = Without("monitor", lifecycle) /\ UNCHANGED <<failures, event>>
  <2>1. Goes("monitor", lifecycle, lifecycle') /\ ~In("monitor", lifecycle)'
    BY <1>2, <1>5, LifecycleTurn
  <2>2. PICK l \in Local :
             /\ local' = Set("monitor", l)
             /\ state' = state \/ (desired /\ state' \in {"starting", "degraded"})
             /\ Role("monitor")' /\ Placed("monitor")' /\ Relies("monitor")' /\ ~Tardy'
    BY <1>2, <1>3, <1>5, <2>1, AccountIs
  <2>3. ASSUME NEW j \in Requests, local[j].phase = "sent", local[j].proc = process
        PROVE ~Alive(process)
    <3> SUFFICES ASSUME Alive(process) PROVE FALSE
      OBVIOUS
    <3>1. Role(j) /\ Relies(j)
      BY TaskIs, TaskKnows
    <3>2. process # None
      BY <2>3, <3>1, TaskIs DEF Role
    <3>3. state = "ready"
      BY <2>3, <3>1 DEF Relies
    <3>4. Tardy
      BY <1>1, <1>5, <3>2, <3>3 DEF Tardy, Live
    <3> QED BY <2>3, <3>4, TardyKnows
  <2>4. Rest'
    BY <1>1, <1>2, <1>5 DEF Rest, IInv, Core, Types
  <2> QED BY <1>1, <1>5, <2>1, <2>2, <2>3, <2>4, MonitorTurn
<1> QED BY <1>4, <1>5 DEF Replace

-----------------------------------------------------------------------------
(* start, restart and stop, and whoever ends a process *)

LEMMA StartAskedKeeps ==
    ASSUME IInv, StartAsked
    PROVE IInv'
<1>1. /\ life = "starting" /\ life' = "running" /\ desired' = TRUE
      /\ local' = Set("start", Waiting("spawn")) /\ lifecycle' = Append(lifecycle, "start")
      /\ UNCHANGED <<process, pid, state, failures, event, requests, pipe, os, pidFile,
                     crashes, restarts>>
  BY DEF StartAsked, system
<1>2. /\ state = "stopped" /\ \A k \in Tasks : local[k] = Calm
      /\ "start" \in Tasks /\ "start" \notin Requests /\ local \in [Tasks -> Local]
  BY <1>1, TaskIs DEF IInv, Core, Types
<1>3. \A k \in Tasks : local[k].phase = "none" /\ ~In(k, lifecycle) /\ ~In(k, requests)
  <2> TAKE k \in Tasks
  <2>1. local[k].phase = "none" /\ local[k].job = "none"
    BY <1>2 DEF Calm
  <2>2. Placed(k)
    BY TaskKnows
  <2>3. ~In(k, lifecycle)
    BY <2>1, <2>2 DEF Placed, Under
  <2>4. ~In(k, requests)
    BY <2>1, <2>2 DEF Placed
  <2> QED BY <2>1, <2>3, <2>4
<1>4. lifecycle = <<>>
  BY <1>3, HoldsIs DEF IInv, Core, Types
<1>5. PICK k : k = "start"
  OBVIOUS
<1>6. PICK l : l = Waiting("spawn")
  OBVIOUS
<1>7. l \in Local /\ l.phase = "waiting" /\ l.job = "spawn" /\ l.proc = None
  BY <1>6 DEF Local, Waiting, At
<1>8. local' = Set(k, l) /\ local'[k] = l /\ \A j \in Tasks : j # k => local'[j] = local[j]
  BY <1>1, <1>2, <1>5, <1>6, <1>7, LocalIs
<1>9. k \in Tasks /\ k \notin Requests /\ ~In(k, requests) /\ ~In(k, lifecycle)
  BY <1>2, <1>3, <1>5
<1>10. lifecycle' = Append(lifecycle, k)
  BY <1>1, <1>5
<1>11. /\ Goes(k, lifecycle, lifecycle') /\ In(k, lifecycle)'
       /\ Goes(k, requests, requests') /\ ~In(k, requests)'
  BY <1>1, <1>9, <1>10, LifecycleTurn, RequestsTurn
<1>12. Holds(k, lifecycle)'
  <2>1. lifecycle' = <<k>>
    BY <1>4, <1>10
  <2> QED BY <2>1 DEF Holds
<1>13. Moves(k, k)
  BY <1>7, <1>8, <1>9, <1>11, OneMoves
<1>14. Role(k)'
  BY <1>5, <1>7, <1>8, <1>9, TaskIs DEF Role, Under
<1>15. Placed(k)'
  BY <1>5, <1>7, <1>8, <1>9, <1>11, TaskIs DEF Placed, Under
<1>16. Relies(k)'
  BY <1>5, <1>7, <1>8, <1>9 DEF Relies
<1>17. Rest'
  BY <1>1 DEF Rest, IInv, Core, Types
<1>18. Quiet(k, k)
  BY <1>1, <1>13 DEF Quiet
<1>19. ~Live'
  BY <1>1, <1>2 DEF Live
<1>20. Core'
  BY <1>9, <1>14, <1>15, <1>16, <1>17, <1>18, <1>19, QuietKeeps
<1>21. Starts'
  BY <1>1, <1>2, <1>5, <1>8, <1>12, TaskIs DEF Starts
<1>22. ~Booting' /\ ~Tardy'
  <2>1. local'["restart"] = Calm
    BY <1>2, <1>5, <1>8, TaskIs
  <2> QED BY <1>19, <2>1 DEF Booting, Under, Calm, Tardy
<1> QED BY <1>20, <1>21, <1>22 DEF IInv, Restarts, Late

LEMMA EnteredKeeps ==
    ASSUME IInv, NEW k \in Tasks, Entered(k)
    PROVE IInv'
<1>1. /\ local[k].phase = "queued" /\ k \in {"restart", "stop"} /\ Holds(k, requests)
      /\ local' = Set(k, Waiting(k)) /\ lifecycle' = Append(lifecycle, k)
      /\ UNCHANGED <<desired, process, pid, state, failures, event, requests, pipe, os,
                     pidFile, life, crashes, restarts>>
  BY DEF Entered, memory, system, bounds
<1>2. /\ Role(k) /\ Placed(k) /\ life # "starting" /\ k \notin Requests
      /\ k # "start" /\ k # "monitor"
  BY <1>1, TaskIs, TaskKnows
<1>3. ~In(k, lifecycle)
  BY <1>1, <1>2 DEF Placed, Under
<1>4. PICK l : l = Waiting(k)
  OBVIOUS
<1>5. l \in Local /\ l.phase = "waiting" /\ l.job = k
  BY <1>1, <1>4 DEF Local, Waiting, At
<1>6. local' = Set(k, l) /\ local'[k] = l
  BY <1>1, <1>4, <1>5, TaskKnows, LocalIs
<1>7. /\ Goes(k, lifecycle, lifecycle') /\ In(k, lifecycle)'
      /\ Goes(k, requests, requests') /\ In(k, requests)' /\ Holds(k, requests)'
  BY <1>1, <1>3, LifecycleTurn, RequestsTurn, HoldsIs DEF IInv, Core, Types
<1>8. Role(k)'
  BY <1>1, <1>2, <1>5, <1>6 DEF Role, Under
<1>9. Placed(k)'
  BY <1>1, <1>2, <1>5, <1>6, <1>7 DEF Placed, Under
<1>10. Relies(k)'
  BY <1>2, <1>5, <1>6 DEF Relies
<1>11. Rest'
  BY <1>1, <1>2 DEF Rest, IInv, Core, Types
<1>12. ~Owns(k)
  BY <1>1, <1>2 DEF Owns
<1>13. k = "restart" => ~Booting'
  BY <1>5, <1>6 DEF Booting
<1>14. ~Tardy
  BY <1>1, TardyKnows DEF Handed
<1> QED BY <1>1, <1>2, <1>5, <1>6, <1>7, <1>8, <1>9, <1>10, <1>11, <1>12, <1>13, <1>14,
           TurnKeeps

\* A task begins to end the process.
LEMMA DisposesTurn ==
    ASSUME IInv, NEW k \in Tasks \ Requests, NEW job \in {"spawn", "restart", "stop", "failed"},
           local[k].phase \in {"waiting", "asking", "launching"}, Holds(k, lifecycle),
           Disposes(k, job), UNCHANGED <<process, pid, os, pidFile, pipe, lifecycle, requests>>,
           \/ state' = state
           \/ /\ state' \in {"starting", "degraded"}
              /\ \A j \in Requests : local[j].phase = "sent" /\ local[j].proc = process
                    => ~Alive(process),
           \/ k = "start" /\ job \in {"spawn", "failed"}
           \/ k = "monitor" /\ job \in {"spawn", "failed"}
           \/ k = "restart" /\ job \in {"spawn", "failed"} /\ Booting
           \/ k \in {"restart", "stop"} /\ job = k /\ local[k].job = k,
           Live' => k \in {"restart", "stop"} /\ job = k, Tardy => k = "stop",
           desired' \in BOOLEAN, failures' \in 0 .. MaxFailures, life' = life
    PROVE IInv'
<1>1. /\ Role(k) /\ Placed(k) /\ Relies(k) /\ life # "starting" /\ local[k] \in Local
      /\ k \in Tasks /\ k \notin Requests
  BY TaskKnows
<1>2. PICK l : l = [local[k] EXCEPT !.phase = "disposing", !.job = job]
  OBVIOUS
<1>3. l \in Local /\ l.phase = "disposing" /\ l.job = job
  BY <1>1, <1>2 DEF Local
<1>4. local' = Set(k, l) /\ local'[k] = l /\ event' = FALSE
  BY <1>1, <1>2, <1>3, TaskKnows, LocalIs DEF Disposes
<1>5. /\ Goes(k, lifecycle, lifecycle')
      /\ In(k, lifecycle)' /\ Holds(k, lifecycle)'
      /\ Goes(k, requests, requests')
      /\ In(k, requests)' <=> In(k, requests)
      /\ Holds(k, requests)' <=> Holds(k, requests)
  BY <1>1, LifecycleTurn, RequestsTurn, HoldsIs DEF IInv, Core, Types
<1>6. Role(k)'
  BY <1>1, <1>3, <1>4 DEF Role, Under
<1>7. /\ k \in {"restart", "stop"} /\ job = k => Holds(k, requests)
      /\ ~(k \in {"restart", "stop"} /\ job = k) => ~In(k, requests)
  <2>1. k \in {"restart", "stop"} /\ local[k].job = k => Holds(k, requests)
    <3> SUFFICES ASSUME k \in {"restart", "stop"}, local[k].job = k PROVE Holds(k, requests)
      OBVIOUS
    <3>1. local[k].phase \in {"waiting", "asking"}
      BY <1>1 DEF Role
    <3> QED BY <1>1, <3>1 DEF Placed
  <2>2. k = "restart" /\ Booting => local[k].job # k
    BY DEF Booting
  <2>3. ~(k \in {"restart", "stop"} /\ local[k].job = k) => ~In(k, requests)
    BY <1>1 DEF Placed
  <2> QED BY <2>1, <2>2, <2>3
<1>8. Placed(k)'
  BY <1>1, <1>3, <1>4, <1>5, <1>7 DEF Placed, Under
<1>9. Relies(k)'
  BY <1>1, <1>3, <1>4 DEF Relies
<1>10. Rest'
  BY <1>1, <1>4 DEF Rest, IInv, Core, Types
<1>11. Live' /\ Owns(k) => Owns(k)'
  BY <1>1, <1>3, <1>4, <1>5 DEF Owns
<1>12. Live' => Live
  BY DEF Live, Alive
<1>13. k = "monitor" => local["start"].phase = "none" /\ ~Tardy'
  <2>1. k = "monitor" => local["start"].phase = "none"
    BY MonitorKnows
  <2> QED BY <1>3, <1>4, <2>1 DEF Tardy
<1>14. k = "restart" /\ Booting' => Booting
  BY <1>3, <1>4 DEF Booting
<1>15. Tardy => Holds("stop", lifecycle) /\ Holds("stop", requests)
  BY TardyKnows, HoldsIs DEF IInv, Core, Types
<1>16. Tardy /\ k = "stop" => Holds(k, lifecycle)' /\ Holds(k, requests)' /\ l.phase # "queued"
  BY <1>3, <1>5, <1>15
<1>17. Booting /\ Live => (Holds(k, requests) => Holds(k, requests)')
  BY <1>5
<1> QED BY <1>1, <1>3, <1>4, <1>5, <1>6, <1>8, <1>9, <1>10, <1>11, <1>13, <1>14, <1>16,
           <1>17, TurnKeeps

\* Those who wait for a process to be started.
LEMMA SpawnerIs ==
    ASSUME IInv, NEW k \in Tasks, Holds(k, lifecycle),
           local[k].phase \in {"waiting", "disposing", "reconciling", "launching"},
           local[k].job \in {"spawn", "failed"}
    PROVE /\ k \in {"start", "monitor", "restart"} /\ k \notin Requests
          /\ ~In(k, requests) /\ ~Holds(k, requests)
          /\ k = "restart" => Booting
          /\ k # "start" => local["start"].phase = "none"
          /\ life # "starting" /\ ~Tardy
<1>1. Role(k) /\ Placed(k) /\ life # "starting"
  BY TaskKnows
<1>2. k \in {"start", "monitor", "restart"} /\ k \notin Requests
  BY <1>1, TaskIs DEF Role, Under, Tasks
<1>3. ~In(k, requests)
  BY <1>1, <1>2 DEF Placed
<1>4. ~Holds(k, requests)
  BY <1>3, HoldsIs DEF IInv, Core, Types
<1>5. k = "restart" => Booting
  BY DEF Booting, Under
<1>6. k # "start" => local["start"].phase = "none"
  <2>1. local["start"].phase # "none" => Holds("start", lifecycle)
    BY DEF IInv, Starts
  <2> QED BY <2>1, HoldsIs DEF IInv, Core, Types
<1>7. ~Tardy
  <2>1. Tardy => k \in {"stop", "monitor"}
    BY TardyKnows
  <2> QED BY <1>2, <2>1 DEF Tardy
<1> QED BY <1>1, <1>2, <1>3, <1>4, <1>5, <1>6, <1>7

LEMMA SpawnEndsIs ==
    ASSUME IInv, NEW k \in Tasks, Holds(k, lifecycle), SpawnEnds(k), UNCHANGED requests,
           local[k].phase \in {"waiting", "disposing", "reconciling", "launching"},
           local[k].job \in {"spawn", "failed"}
    PROVE \E m \in {k, "monitor"} :
            /\ m \in Tasks /\ Moves(k, m) /\ k \notin Requests /\ m \notin Requests
            /\ \A n \in {k, m} : /\ Role(n)' /\ Placed(n)' /\ Relies(n)'
                                 /\ local'[n] \in {Calm, Looking}
            /\ local'["start"].phase = "none"
            /\ Booting' => Booting
            /\ ~Holds(k, requests) /\ ~Holds(m, requests) /\ ~Owns(k)' /\ ~Owns(m)'
            /\ local'["monitor"] \in {local["monitor"], Looking}
            /\ k = "restart" => ~Booting'
<1>1. /\ k \in {"start", "monitor", "restart"} /\ k \notin Requests
      /\ ~In(k, requests) /\ ~Holds(k, requests)
      /\ k # "start" => local["start"].phase = "none"
      /\ local \in [Tasks -> Local]
  BY SpawnerIs, TaskKnows
<1>2. lifecycle' = Without(k, lifecycle)
  BY DEF SpawnEnds
<1>3. /\ Goes(k, lifecycle, lifecycle') /\ ~In(k, lifecycle)'
      /\ Goes(k, requests, requests') /\ ~In(k, requests)'
  BY <1>1, <1>2, LifecycleTurn, RequestsTurn
<1>4. PICK m \in {k, "monitor"} :
        /\ local' = [local EXCEPT ![k] = IF k = "monitor" THEN Looking ELSE Calm,
                                  ![m] = IF m = "monitor" THEN Looking ELSE Calm]
        /\ m # k => m = "monitor" /\ local["monitor"] = Calm
  <2>1. CASE k = "monitor"
    BY <1>1, <2>1 DEF SpawnEnds, Set
  <2>2. CASE k # "monitor" /\ local["monitor"] = Calm
    <3>1. local' = [local EXCEPT ![k] = Calm, !["monitor"] = Looking]
      BY <1>1, <2>2, TaskIs DEF SpawnEnds
    <3> QED BY <2>2, <3>1
  <2>3. CASE k # "monitor" /\ local["monitor"] # Calm
    <3>1. local' = [local EXCEPT ![k] = Calm, !["monitor"] = local["monitor"]]
      BY <1>1, <2>3, TaskIs DEF SpawnEnds
    <3>2. local' = [local EXCEPT ![k] = Calm, ![k] = Calm]
      BY <1>1, <2>3, <3>1, TaskIs
    <3> QED BY <2>3, <3>2
  <2> QED BY <2>1, <2>2, <2>3
<1>5. m \in Tasks /\ m \notin Requests /\ k \in Tasks
  BY <1>1, <1>4, TaskIs
<1>6. local'[k] = (IF k = "monitor" THEN Looking ELSE Calm)
  BY <1>1, <1>4, <1>5
<1>7. local'[m] = (IF m = "monitor" THEN Looking ELSE Calm)
  BY <1>1, <1>4, <1>5
<1>8. \A j \in Tasks : j # k /\ j # m => local'[j] = local[j]
  BY <1>1, <1>4, <1>5
<1>9. local' \in [Tasks -> Local]
  BY <1>1, <1>4, <1>5, CalmHas
<1>10. Moves(k, m)
  BY <1>3, <1>5, <1>8, <1>9, MovesIs DEF Others
<1>11. ~In(m, lifecycle)' /\ ~In(m, requests)' /\ ~Holds(m, requests)
  <2>1. CASE m = k
    BY <1>1, <1>3, <2>1
  <2>2. CASE m # k
    <3>1. Placed(m) /\ local[m].phase = "none"
      BY <1>4, <1>5, <2>2, TaskKnows DEF Calm
    <3>2. ~In(m, lifecycle) /\ ~In(m, requests)
      BY <1>4, <1>5, <2>2, <3>1 DEF Placed, Under
    <3>3. ~Holds(m, requests)
      BY <3>2, HoldsIs DEF IInv, Core, Types
    <3>4. PICK q, r : q = lifecycle /\ r = Without(k, q)
      OBVIOUS
    <3>5. \A j : j # k => (In(j, r) <=> In(j, q))
      BY <3>4, LeavesStep DEF IInv, Core, Types
    <3>6. ~In(m, lifecycle)'
      BY <1>2, <2>2, <3>2, <3>4, <3>5 DEF In
    <3>7. ~In(m, requests)'
      BY <3>2 DEF In
    <3> QED BY <3>3, <3>6, <3>7
  <2> QED BY <2>1, <2>2
<1>12. ASSUME NEW n \in {k, m}
       PROVE /\ Role(n)' /\ Placed(n)' /\ Relies(n)' /\ local'[n] \in {Calm, Looking}
             /\ ~Owns(n)'
  <2>1. n \in Tasks /\ n \notin Requests /\ ~In(n, lifecycle)' /\ ~In(n, requests)'
    BY <1>1, <1>3, <1>5, <1>11
  <2>2. local'[n] = (IF n = "monitor" THEN Looking ELSE Calm)
    BY <1>6, <1>7
  <2>3. n # "stop"
    BY <1>1, <1>4
  <2>4. ~Owns(n)'
    BY <2>1, <2>3 DEF Owns
  <2>5. CASE n = "monitor"
    <3>1. local'[n] = Looking /\ local'[n].phase = "looking"
      BY <2>2, <2>5 DEF Looking, At
    <3>2. Role(n)'
      BY <2>1, <2>5, <3>1 DEF Role, Under
    <3>3. Placed(n)'
      BY <2>1, <2>5, <3>1 DEF Placed, Under
    <3>4. Relies(n)'
      BY <2>1, <2>5, <3>1 DEF Relies
    <3> QED BY <2>4, <3>1, <3>2, <3>3, <3>4
  <2>6. CASE n # "monitor"
    BY <2>1, <2>2, <2>4, <2>6, CalmIs
  <2> QED BY <2>5, <2>6
<1>13. local'["start"].phase = "none"
  <2>1. CASE k = "start"
    BY <1>6, <2>1 DEF Calm
  <2>2. CASE k # "start"
    BY <1>1, <1>4, <1>8, <2>2, TaskIs
  <2> QED BY <2>1, <2>2
<1>14. k = "restart" => ~Booting'
  BY <1>6 DEF Booting, Under, Calm
<1>15. Booting' => Booting
  <2>1. k # "restart" => local'["restart"] = local["restart"]
    BY <1>4, <1>8, TaskIs
  <2> QED BY <1>14, <2>1 DEF Booting
<1>16. local'["monitor"] \in {local["monitor"], Looking}
  BY <1>4, <1>6, <1>7, <1>8, TaskIs
<1> QED BY <1>1, <1>5, <1>10, <1>11, <1>12, <1>13, <1>14, <1>15, <1>16

\* _spawn ends without a process to end or to start.
LEMMA SpawnEndsTurn ==
    ASSUME IInv, NEW k \in Tasks, Holds(k, lifecycle), SpawnEnds(k), UNCHANGED requests,
           local[k].phase \in {"waiting", "disposing", "reconciling", "launching"},
           local[k].job \in {"spawn", "failed"},
           UNCHANGED <<process, pid, os, pidFile, pipe>>,
           \/ state' = state
           \/ /\ state' \in {"starting", "degraded"}
              /\ \A j \in Requests : local[j].phase = "sent" /\ local[j].proc = process
                    => ~Alive(process),
           Rest'
    PROVE IInv'
<1>1. ~Tardy
  BY SpawnerIs
<1>2. PICK m \in {k, "monitor"} :
            /\ m \in Tasks /\ Moves(k, m) /\ k \notin Requests /\ m \notin Requests
            /\ \A n \in {k, m} : /\ Role(n)' /\ Placed(n)' /\ Relies(n)'
                                 /\ local'[n] \in {Calm, Looking}
            /\ local'["start"].phase = "none"
            /\ Booting' => Booting
            /\ ~Holds(k, requests) /\ ~Holds(m, requests) /\ ~Owns(k)' /\ ~Owns(m)'
            /\ local'["monitor"] \in {local["monitor"], Looking}
            /\ k = "restart" => ~Booting'
  BY SpawnEndsIs
<1>3. Live' => Live
  BY DEF Live, Alive
<1>4. Quiet(k, m)
  BY <1>2 DEF Quiet
<1>5. ~Owns(k) /\ ~Owns(m)
  BY <1>2 DEF Owns
<1>6. \A n \in {k, m} : /\ Role(n)' /\ Placed(n)' /\ Relies(n)'
                        /\ Live' /\ Owns(n) => Owns(n)'
                        /\ n \in Requests => local'[n].proc \in {None, local[n].proc}
  BY <1>2, <1>5
<1>7. Core'
  BY <1>2, <1>4, <1>6, QuietKeeps
<1>8. Starts'
  BY <1>2, StartsKeeps
<1>9. ASSUME Booting', Live', NEW t \in Requests PROVE ~Handed(t)'
  <2>1. ~Handed(t)
    BY <1>2, <1>3, <1>9 DEF IInv, Restarts
  <2>2. t \in Others(k, m)
    BY <1>2, TaskIs DEF Others
  <2>3. local'[t] = local[t]
    BY <1>2, <2>2 DEF Moves
  <2> QED BY <2>1, <2>3 DEF Handed, Holds
<1>10. Requests \cap {k, m} = {}
  BY <1>2
<1>11. Restarts'
  BY <1>2, <1>9, <1>10, RestartsKeeps
<1>12. ~Tardy'
  <2>1. local'["monitor"] = Looking => ~Tardy'
    BY DEF Tardy, Looking, At
  <2> QED BY <1>1, <1>2, <1>3, <2>1 DEF Tardy
<1> QED BY <1>7, <1>8, <1>11, <1>12 DEF IInv, Late

LEMMA SpawnKeeps ==
    ASSUME IInv, NEW k \in Tasks, Spawn(k)
    PROVE IInv'
<1>1. /\ local[k].phase = "waiting" /\ local[k].job = "spawn" /\ Holds(k, lifecycle)
      /\ UNCHANGED <<desired, process, pid, state, failures, requests, pipe, os, pidFile,
                     life, crashes, restarts>>
  BY DEF Spawn, Granted, system, bounds
<1>2. /\ k \in {"start", "monitor", "restart"} /\ k \notin Requests
      /\ k = "restart" => Booting
      /\ life # "starting" /\ ~Tardy
  BY <1>1, SpawnerIs
<1>3. CASE SpawnEnds(k) /\ UNCHANGED event
  <2>1. Rest'
    BY <1>1, <1>2, <1>3 DEF Rest, IInv, Core, Types
  <2> QED BY <1>1, <1>3, <2>1, SpawnEndsTurn
<1>4. CASE ~Live /\ Disposes(k, "spawn") /\ UNCHANGED lifecycle
  <2>1. ~Live'
    BY <1>1, <1>4 DEF Live, Alive
  <2>2. desired' \in BOOLEAN /\ failures' \in 0 .. MaxFailures
    BY <1>1 DEF IInv, Core, Types
  <2>3. /\ k \in Tasks \ Requests /\ ~Tardy
        /\ \/ k = "start" /\ "spawn" \in {"spawn", "failed"}
           \/ k = "monitor" /\ "spawn" \in {"spawn", "failed"}
           \/ k = "restart" /\ "spawn" \in {"spawn", "failed"} /\ Booting
    BY <1>2
  <2> QED BY <1>1, <1>4, <2>1, <2>2, <2>3, DisposesTurn
<1> QED BY <1>3, <1>4 DEF Spawn, Live

LEMMA RestartKeeps ==
    ASSUME IInv, Restart
    PROVE IInv'
<1>1. PICK k : k = "restart"
  OBVIOUS
<1>2. /\ local[k].phase = "waiting" /\ local[k].job = k /\ Holds(k, lifecycle)
      /\ Disposes(k, k)
      /\ UNCHANGED <<desired, process, pid, state, failures, lifecycle, requests, pipe,
                     os, pidFile, life>>
  BY <1>1 DEF Restart, Granted, locks, system, bounds
<1>3. k \in Tasks \ Requests /\ k \in {"spawn", "restart", "stop", "failed"} /\ ~Tardy
  BY <1>1, <1>2, TaskIs, TardyKnows
<1>4. desired' \in BOOLEAN /\ failures' \in 0 .. MaxFailures
  BY <1>2 DEF IInv, Core, Types
<1> QED BY <1>1, <1>2, <1>3, <1>4, DisposesTurn

LEMMA AskedKeeps ==
    ASSUME IInv, Asked
    PROVE IInv'
<1>1. PICK k : k = "stop"
  OBVIOUS
<1>2. /\ local[k].phase = "asking" /\ Disposes(k, k)
      /\ UNCHANGED <<desired, process, pid, state, failures, lifecycle, requests, pipe,
                     os, pidFile, life>>
  BY <1>1 DEF Asked, locks, system, bounds
<1>3. k \in Tasks \ Requests /\ k \in {"spawn", "restart", "stop", "failed"}
  BY <1>1, TaskIs
<1>4. Holds(k, lifecycle) /\ local[k].job = k
  <2>1. Role(k) /\ Placed(k)
    BY <1>3, TaskKnows
  <2> QED BY <1>1, <1>2, <2>1 DEF Role, Placed, Under
<1>5. desired' \in BOOLEAN /\ failures' \in 0 .. MaxFailures
  BY <1>2 DEF IInv, Core, Types
<1> QED BY <1>1, <1>2, <1>3, <1>4, <1>5, DisposesTurn

LEMMA StartupFailsKeeps ==
    ASSUME IInv, NEW k \in Tasks, StartupFails(k)
    PROVE IInv'
<1>1. /\ local[k].phase = "launching" /\ state' = "degraded" /\ failures' = Counted
      /\ Disposes(k, "failed")
      /\ UNCHANGED <<desired, process, pid, lifecycle, requests, pipe, os, pidFile, life>>
  BY DEF StartupFails, locks, system, bounds
<1>2. Role(k) /\ Placed(k) /\ Relies(k)
  BY TaskKnows
<1>3. local[k].job = "spawn" /\ Holds(k, lifecycle) /\ state # "ready"
  BY <1>1, <1>2 DEF Role, Placed, Under, Relies
<1>4. /\ k \in {"start", "monitor", "restart"} /\ k \notin Requests
      /\ k = "restart" => Booting
      /\ ~Tardy
  BY <1>1, <1>3, SpawnerIs
<1>5. ASSUME NEW j \in Requests, local[j].phase = "sent", local[j].proc = process
      PROVE ~Alive(process)
    BY <1>3, <1>5, TaskIs, TaskKnows DEF Relies
<1>6. desired' \in BOOLEAN /\ failures' \in 0 .. MaxFailures
  BY <1>1, CountedIs DEF IInv, Core, Types
<1>7. ~Live'
  BY <1>1 DEF Live
<1> QED BY <1>1, <1>3, <1>4, <1>5, <1>6, <1>7, DisposesTurn

LEMMA ReconcileFailsKeeps ==
    ASSUME IInv, NEW k \in Tasks, ReconcileFails(k)
    PROVE IInv'
<1>1. /\ local[k].phase = "reconciling" /\ state' = "degraded" /\ failures' = Counted
      /\ SpawnEnds(k)
      /\ UNCHANGED <<desired, process, pid, event, requests, pipe, os, pidFile, life>>
  BY DEF ReconcileFails, system, bounds
<1>2. Role(k) /\ Placed(k) /\ Relies(k) /\ life # "starting"
  BY <1>1, TaskKnows
<1>3. local[k].job = "spawn" /\ Holds(k, lifecycle) /\ process = None
  BY <1>1, <1>2 DEF Role, Placed, Under, Relies
<1>4. ASSUME NEW j \in Requests, local[j].phase = "sent", local[j].proc = process
      PROVE ~Alive(process)
    BY <1>3, <1>4, TaskIs, TaskKnows DEF Role
<1>5. Rest'
  BY <1>1, <1>2, CountedIs DEF Rest, IInv, Core, Types
<1> QED BY <1>1, <1>3, <1>4, <1>5, SpawnEndsTurn

\* restart and stop are asked for: the monitor goes first, unless it has a
\* process to end.
LEMMA MonitorCancelledKeeps ==
    ASSUME IInv, ~HandedOver, NEW k \in {"restart", "stop"}, local[k] = Calm,
           MonitorCancelled(k), life # "starting",
           UNCHANGED <<process, pid, state, os, pidFile, pipe>>, Rest'
    PROVE IInv'
<1>1. /\ k \in Tasks /\ k \notin Requests /\ k # "monitor" /\ k # "start"
      /\ "monitor" \in Tasks /\ "monitor" \notin Requests /\ local \in [Tasks -> Local]
  BY TaskIs, TaskKnows
<1>2. Placed(k) /\ local[k].phase = "none"
  BY <1>1, TaskKnows DEF Calm
<1>3. ~In(k, lifecycle) /\ ~In(k, requests)
  BY <1>1, <1>2 DEF Placed, Under, Calm
<1>4. ~Holds(k, lifecycle) /\ ~Holds(k, requests)
  BY <1>3, HoldsIs DEF IInv, Core, Types
<1>5. Tardy => k # "stop"
  BY <1>4, TardyKnows
<1>6. Live' <=> Live
  BY DEF Live, Alive
<1>7. CASE /\ local["monitor"] = Calm /\ local' = Set(k, At("queued", k, None))
           /\ requests' = Append(requests, k) /\ UNCHANGED lifecycle
  <2>1. PICK l : l = At("queued", k, None)
    OBVIOUS
  <2>2. l \in Local /\ l.phase = "queued" /\ l.job = k
    BY <2>1 DEF Local, At
  <2>3. local' = Set(k, l) /\ local'[k] = l
    BY <1>1, <1>7, <2>1, <2>2, LocalIs
  <2>4. /\ Goes(k, lifecycle, lifecycle') /\ ~In(k, lifecycle)'
        /\ Goes(k, requests, requests') /\ In(k, requests)'
    BY <1>1, <1>3, <1>7, LifecycleTurn, RequestsTurn
  <2>5. Role(k)'
    BY <1>1, <2>2, <2>3 DEF Role, Under
  <2>6. Placed(k)'
    BY <1>1, <2>2, <2>3, <2>4 DEF Placed, Under
  <2>7. Relies(k)'
    BY <1>1, <2>2, <2>3 DEF Relies
  <2>8. ~Owns(k)
    BY <1>4 DEF Owns
  <2>9. ~(k = "restart" /\ Booting')
    BY <2>2, <2>3 DEF Booting, Under
  <2> QED BY <1>1, <1>4, <1>5, <2>2, <2>3, <2>4, <2>5, <2>6, <2>7, <2>8, <2>9, TurnKeeps
<1>8. CASE /\ local["monitor"] # Calm
           /\ LET m == local["monitor"]
                  launching == m.phase = "launching"
              IN  /\ local' = [local EXCEPT
                         ![k] = At("joining", k, None),
                         !["monitor"] =
                             IF launching THEN At("disposing", "cancelled", m.proc)
                             ELSE Calm]
                  /\ lifecycle' = IF launching THEN lifecycle
                                  ELSE Without("monitor", lifecycle)
           /\ UNCHANGED requests
  <2>1. PICK m : m = "monitor"
    OBVIOUS
  <2>2. local[m].phase # "none"
    BY <1>1, <1>8, <2>1, TaskKnows DEF Role
  <2>3. /\ Role(m) /\ Placed(m) /\ Relies(m)
        /\ ~In(m, requests) /\ ~Holds(m, requests) /\ ~Owns(m)
        /\ local["start"].phase = "none" /\ life # "starting"
        /\ local[m] \in Local /\ m \in Tasks /\ m \notin Requests
    BY <2>1, <2>2, MonitorKnows
  <2>4. PICK l : l = IF local[m].phase = "launching"
                     THEN At("disposing", "cancelled", local[m].proc) ELSE Calm
    OBVIOUS
  <2>5. l \in Local /\ At("joining", k, None) \in Local
    BY <2>3, <2>4, CalmHas DEF Local, At
  <2>6. local' = [local EXCEPT ![k] = At("joining", k, None), ![m] = l]
    BY <1>8, <2>1, <2>4
  <2>7. /\ local' \in [Tasks -> Local] /\ local'[k] = At("joining", k, None) /\ local'[m] = l
        /\ \A j \in Tasks : j # k /\ j # m => local'[j] = local[j]
    BY <1>1, <2>1, <2>5, <2>6
  <2>8. /\ Goes(m, lifecycle, lifecycle') /\ Goes(m, requests, requests')
        /\ In(m, requests)' <=> In(m, requests)
    BY <1>8, <2>1, <2>3, LifecycleTurn, RequestsTurn
  <2>9. Moves(k, m)
    BY <1>1, <2>3, <2>7, <2>8, MovesIs DEF Others
  <2>10. ~In(k, lifecycle)' /\ ~In(k, requests)'
    <3>1. PICK q, r : q = lifecycle /\ r = lifecycle'
      OBVIOUS
    <3>2. Goes(m, q, r) /\ Queue(q)
      BY <2>8, <3>1 DEF IInv, Core, Types
    <3>3. In(k, r) <=> In(k, q)
      BY <1>1, <2>1, <2>3, <3>2, GoesIs
    <3> QED BY <1>3, <1>8, <3>1, <3>3 DEF In
  <2>11. Role(k)' /\ Placed(k)' /\ Relies(k)'
    <3>1. local'[k].phase = "joining" /\ local'[k].job = k
      BY <2>7 DEF At
    <3>2. Role(k)'
      BY <1>1, <3>1 DEF Role, Under
    <3>3. Placed(k)'
      BY <1>1, <2>10, <3>1 DEF Placed, Under
    <3>4. Relies(k)'
      BY <1>1, <3>1 DEF Relies
    <3> QED BY <3>2, <3>3, <3>4
  <2>12. Role(m)' /\ Placed(m)' /\ Relies(m)' /\ ~Tardy'
    <3>1. CASE local[m].phase = "launching"
      <4>1. /\ local'[m].phase = "disposing" /\ local'[m].job = "cancelled"
            /\ UNCHANGED lifecycle
        BY <1>8, <2>1, <2>4, <2>7, <3>1 DEF At
      <4>2. /\ In(m, lifecycle)' <=> In(m, lifecycle)
            /\ Holds(m, lifecycle)' <=> Holds(m, lifecycle)
        BY <2>3, <4>1, LifecycleTurn
      <4>3. ~Live'
        BY <1>6, <2>3, <3>1 DEF Relies, Live
      <4>4. Role(m)'
        BY <2>1, <2>3, <4>1, TaskIs DEF Role, Under
      <4>5. Placed(m)'
        BY <2>1, <2>3, <2>8, <3>1, <4>1, <4>2 DEF Placed, Under
      <4>6. Relies(m)'
        BY <2>1, <2>3, <4>1, <4>3 DEF Relies
      <4> QED BY <2>1, <4>1, <4>4, <4>5, <4>6 DEF Tardy
    <3>2. CASE local[m].phase # "launching"
      <4>1. local'[m] = Calm /\ lifecycle' = Without(m, lifecycle)
        BY <1>8, <2>1, <2>4, <2>7, <3>2
      <4>2. ~In(m, lifecycle)' /\ ~In(m, requests)'
        BY <2>3, <2>8, <4>1, LifecycleTurn
      <4> QED BY <2>1, <2>3, <4>1, <4>2, CalmIs DEF Tardy, Calm
    <3> QED BY <3>1, <3>2
  <2>13. Quiet(k, m)
    BY <2>9 DEF Quiet
  <2>14. \A n \in {k, m} : /\ Role(n)' /\ Placed(n)' /\ Relies(n)'
                           /\ Live' /\ Owns(n) => Owns(n)'
                           /\ n \in Requests => local'[n].proc \in {None, local[n].proc}
    BY <1>1, <1>4, <2>3, <2>11, <2>12 DEF Owns
  <2>15. Core'
    BY <1>1, <2>3, <2>13, <2>14, QuietKeeps
  <2>16. local'["start"].phase = "none"
    BY <1>1, <2>1, <2>3, <2>7, TaskIs
  <2>17. Starts'
    BY <2>16 DEF Starts
  <2>18. Booting' => Booting
    <3>1. k = "restart" => ~Booting'
      BY <2>7 DEF Booting, Under, At
    <3>2. k # "restart" => local'["restart"] = local["restart"]
      BY <2>1, <2>7, TaskIs
    <3> QED BY <3>1, <3>2 DEF Booting
  <2>19. ASSUME Booting', Live', NEW t \in Requests PROVE ~Handed(t)'
    <3>1. ~Handed(t)
      BY <1>6, <2>18, <2>19 DEF IInv, Restarts
    <3>2. local'[t] = local[t]
      BY <1>1, <2>1, <2>7, TaskIs
    <3> QED BY <1>8, <3>1, <3>2 DEF Handed, Holds
  <2>20. Restarts'
    <3>1. Requests \cap {k, m} = {}
      BY <1>1, <2>3
    <3> QED BY <1>1, <2>3, <2>9, <2>18, <2>19, <3>1, RestartsKeeps
  <2> QED BY <2>12, <2>15, <2>17, <2>20 DEF IInv, Late
<1> QED BY <1>7, <1>8 DEF MonitorCancelled

LEMMA RestartAskedKeeps ==
    ASSUME IInv, ~HandedOver, RestartAsked
    PROVE IInv'
<1>1. /\ life = "running" /\ local["restart"] = Calm /\ desired' = TRUE /\ failures' = 0
      /\ MonitorCancelled("restart")
      /\ UNCHANGED <<process, pid, state, event, pipe, os, pidFile, life>>
  BY DEF RestartAsked, system
<1>2. Rest'
  BY <1>1, WorkerAssumption DEF Rest, IInv, Core, Types
<1> QED BY <1>1, <1>2, MonitorCancelledKeeps

LEMMA StopAskedKeeps ==
    ASSUME IInv, ~HandedOver, StopAsked
    PROVE IInv'
<1>1. /\ life # "starting" /\ local["stop"] = Calm /\ desired' = FALSE
      /\ MonitorCancelled("stop")
      /\ UNCHANGED <<process, pid, state, failures, event, pipe, os, pidFile, life>>
  BY DEF StopAsked, system, bounds
<1>2. Rest'
  BY <1>1 DEF Rest, IInv, Core, Types
<1> QED BY <1>1, <1>2, MonitorCancelledKeeps

\* The server closes: a start in progress ends its process first.
LEMMA CloseKeeps ==
    ASSUME IInv, ~HandedOver, Close
    PROVE IInv'
<1>1. /\ life = "running" /\ life' = "closing" /\ Cancelled("start")
      /\ UNCHANGED <<desired, process, pid, state, failures, event, requests, pipe, os, pidFile>>
  BY DEF Close, memory, system
<1>2. PICK k : k = "start"
  OBVIOUS
<1>3. /\ k \in Tasks /\ k \notin Requests /\ Role(k) /\ Placed(k) /\ Relies(k)
      /\ local[k] \in Local
  BY <1>2, TaskIs, TaskKnows
<1>4. ~In(k, requests)
  BY <1>2, <1>3 DEF Placed
<1>5. ~Holds(k, requests)
  BY <1>4, HoldsIs DEF IInv, Core, Types
<1>6. Rest'
  BY <1>1 DEF Rest, IInv, Core, Types
<1>7. Goes(k, requests, requests') /\ ~In(k, requests)' /\ ~Owns(k)
  BY <1>1, <1>3, <1>4, <1>5, RequestsTurn DEF Owns
<1>8. CASE local[k].phase = "launching"
  <2>1. PICK l : l = [local[k] EXCEPT !.phase = "disposing", !.job = "cancelled"]
    OBVIOUS
  <2>2. l \in Local /\ l.phase = "disposing" /\ l.job = "cancelled"
    BY <1>3, <2>1 DEF Local
  <2>3. local' = Set(k, l) /\ UNCHANGED lifecycle
    BY <1>1, <1>2, <1>8, <2>1 DEF Cancelled
  <2>4. local'[k] = l
    BY <1>3, <2>2, <2>3, TaskKnows, LocalIs
  <2>5. /\ Goes(k, lifecycle, lifecycle')
        /\ In(k, lifecycle)' <=> In(k, lifecycle)
        /\ Holds(k, lifecycle)' <=> Holds(k, lifecycle)
    BY <1>3, <2>3, LifecycleTurn
  <2>6. Role(k)'
    BY <1>2, <1>3, <2>2, <2>4 DEF Role, Under
  <2>7. Placed(k)'
    BY <1>2, <1>3, <1>7, <1>8, <2>2, <2>4, <2>5 DEF Placed, Under
  <2>8. ~Live'
    BY <1>1, <1>3, <1>8 DEF Live, Relies
  <2>9. Relies(k)'
    BY <1>2, <1>3, <2>2, <2>4, <2>8 DEF Relies
  <2>10. Holds(k, lifecycle)
    BY <1>3, <1>8 DEF Placed, Under
  <2> QED BY <1>1, <1>2, <1>3, <1>5, <1>6, <1>7, <1>8, <2>2, <2>3, <2>5, <2>6, <2>7, <2>8,
             <2>9, <2>10, TurnKeeps
<1>9. CASE local[k].phase # "launching"
  <2>1. local' = Set(k, Calm) /\ lifecycle' = Without(k, lifecycle)
    BY <1>1, <1>2, <1>9 DEF Cancelled
  <2>2. Goes(k, lifecycle, lifecycle') /\ ~In(k, lifecycle)'
    BY <1>3, <2>1, LifecycleTurn
  <2> QED BY <1>1, <1>2, <1>3, <1>5, <1>6, <1>7, <2>1, <2>2, CalmTurn
<1> QED BY <1>8, <1>9

\* stop asks the worker to leave.
LEMMA StopKeeps ==
    ASSUME IInv, Stop
    PROVE IInv'
<1>1. PICK k : k = "stop"
  OBVIOUS
<1>2. /\ local[k].phase = "waiting" /\ local[k].job = k /\ Holds(k, lifecycle)
      /\ UNCHANGED <<desired, process, pid, state, failures, lifecycle, requests, os, pidFile,
                     life>>
  BY <1>1 DEF Stop, Granted, locks, system, bounds
<1>3. /\ k \in Tasks /\ k \notin Requests /\ Role(k) /\ Placed(k) /\ life # "starting"
      /\ local[k] \in Local /\ k \notin {"start", "restart", "monitor"}
  BY <1>1, <1>2, TaskIs, TaskKnows
<1>4. desired' \in BOOLEAN /\ failures' \in 0 .. MaxFailures
  BY <1>2 DEF IInv, Core, Types
<1>5. CASE Disposes(k, k) /\ UNCHANGED pipe
  <2>1. k \in Tasks \ Requests /\ k \in {"spawn", "restart", "stop", "failed"}
    BY <1>1, <1>3
  <2> QED BY <1>1, <1>2, <1>4, <1>5, <2>1, DisposesTurn
<1>6. CASE /\ local' = Set(k, At("asking", k, process)) /\ pipe' = Append(pipe, k)
           /\ UNCHANGED event
  <2>1. PICK l : l = At("asking", k, process)
    OBVIOUS
  <2>2. l \in Local /\ l.phase = "asking" /\ l.job = k
    BY <1>1, <2>1 DEF Local, At, IInv, Core, Types
  <2>3. local' = Set(k, l) /\ local'[k] = l /\ \A j \in Tasks : j # k => local'[j] = local[j]
    BY <1>3, <1>6, <2>1, <2>2, TaskKnows, LocalIs
  <2>4. Holds(k, requests)
    BY <1>1, <1>2, <1>3 DEF Placed
  <2>5. /\ Goes(k, lifecycle, lifecycle')
        /\ In(k, lifecycle)' /\ Holds(k, lifecycle)'
        /\ Goes(k, requests, requests')
        /\ In(k, requests)' /\ Holds(k, requests)'
    BY <1>2, <1>3, <2>4, LifecycleTurn, RequestsTurn, HoldsIs DEF IInv, Core, Types
  <2>6. Moves(k, k)
    BY <1>3, <2>2, <2>3, <2>5, OneMoves
  <2>7. Role(k)'
    BY <1>1, <1>3, <2>2, <2>3 DEF Role, Under
  <2>8. Placed(k)'
    BY <1>1, <1>3, <2>2, <2>3, <2>5 DEF Placed, Under
  <2>9. Relies(k)'
    BY <1>3, <2>2, <2>3 DEF Relies
  <2>10. \A j \in Tasks : j # k => local[j].phase \notin Under /\ ~Holds(j, lifecycle)
    BY <1>2, <1>3, Alone
  <2>11. ASSUME NEW t \in Requests PROVE local[t].phase # "sent"
    <3>1. local[t].phase = "sent" => Holds(t, requests)
      BY <2>11, TaskIs, TaskKnows DEF Placed
    <3>2. Holds(t, requests) => t = k
      BY <2>4, HoldsIs DEF IInv, Core, Types
    <3> QED BY <1>3, <3>1, <3>2
  <2>12. Live' <=> Live
    BY <1>2 DEF Live, Alive
  <2>13. ASSUME NEW j \in Tasks, j # k PROVE Role(j)' /\ Placed(j)' /\ Relies(j)'
    <3>1. j \in Others(k, k)
      BY <2>13 DEF Others
    <3>2. Role(j)' /\ Placed(j)'
      BY <1>3, <2>6, <3>1, OthersKeep
    <3>3. Relies(j) /\ local'[j] = local[j]
      BY <2>3, <2>13, TaskKnows
    <3>4. /\ local[j].phase # "reconciling" /\ local[j].phase # "launching"
          /\ ~(j \in Requests /\ local[j].phase = "sent")
      BY <2>10, <2>11, <2>13 DEF Under
    <3>5. Holds(j, requests)' <=> Holds(j, requests)
      BY <1>2 DEF Holds
    <3>6. Relies(j)'
      BY <1>2, <2>12, <3>3, <3>4, <3>5 DEF Relies, Alive
    <3> QED BY <3>2, <3>6
  <2>14. Types'
    <3>1. pipe' \in Seq(Tasks)
      BY <1>3, <1>6 DEF IInv, Core, Types
    <3>2. Queue(lifecycle)' /\ Queue(requests)' /\ local' \in [Tasks -> Local]
      BY <2>6 DEF Moves
    <3> QED BY <1>2, <1>3, <1>6, <3>1, <3>2 DEF Types, IInv, Core
  <2>15. \A p \in Processes : Lives(p)'
    BY <1>2 DEF IInv, Core, Lives, Children
  <2>16. Owned'
    BY <1>1, <1>3, <2>2, <2>3, <2>5 DEF Owned, Owns
  <2>17. Core'
    BY <2>7, <2>8, <2>9, <2>13, <2>14, <2>15, <2>16 DEF Core
  <2>18. Starts'
    BY <1>2, <1>3, <2>6, StartsKeeps
  <2>19. /\ Booting' <=> Booting
         /\ Tardy' => Tardy
    <3>1. local'["restart"] = local["restart"] /\ local'["monitor"] = local["monitor"]
      BY <1>3, <2>3, TaskIs
    <3> QED BY <1>2, <2>12, <3>1 DEF Booting, Tardy
  <2>20. ASSUME Booting', Live', NEW t \in Requests PROVE ~Handed(t)'
    <3>1. ~Handed(t)
      BY <2>12, <2>19, <2>20 DEF IInv, Restarts
    <3>2. local'[t] = local[t]
      BY <1>3, <2>3, TaskIs
    <3> QED BY <1>2, <3>1, <3>2 DEF Handed, Holds
  <2>21. Restarts'
    BY <1>3, <2>6, <2>19, <2>20, RestartsKeeps
  <2>22. Late'
    BY <1>1, <1>3, <2>2, <2>3, <2>5, <2>6, <2>19, LateKeeps
  <2> QED BY <2>17, <2>18, <2>21, <2>22 DEF IInv
<1> QED BY <1>1, <1>5, <1>6 DEF Stop

-----------------------------------------------------------------------------
(* The end of a process *)

\* What every end of _dispose_process_locked does, whatever its caller goes on to.
Ending(k) ==
    /\ local[k].phase = "disposing" /\ Noticed
    /\ UNCHANGED life /\ pipe' = <<>>
    /\ os' \in [Processes -> Phases]
    /\ \A p \in Processes : os'[p] = os[p] \/ (p = process /\ os[p] = "silent" /\ os'[p] = "unheard")
    /\ \/ process' = None /\ (process # None => ~Alive(process) \/ os[process] = "silent")
       \/ process' = process /\ UNCHANGED os /\ (process # None => Alive(process))
    /\ ~Live' /\ state' \in {"stopped", "starting", "ready", "degraded"}
    /\ state' = "ready" => state = "ready"
    /\ pid' \in Processes \cup {None} /\ pidFile' \in Processes \cup {None}
    /\ desired' \in BOOLEAN /\ event' \in BOOLEAN /\ failures' \in 0 .. MaxFailures
    /\ \A p \in Processes : Lives(p)'

LEMMA DisposedEnds ==
    ASSUME IInv, NEW k \in Tasks, Disposed(k)
    PROVE Ending(k)
<1>1. /\ local[k].phase = "disposing" /\ Noticed
      /\ pid # None => ~Alive(pid)
      /\ os' = [p \in Processes |-> IF p = process /\ Alive(p) THEN "unheard" ELSE os[p]]
      /\ process' = None /\ pid' = None /\ pipe' = <<>>
      /\ pidFile' = IF pid # None /\ pidFile = pid THEN None ELSE pidFile
      /\ UNCHANGED <<failures, event, life>>
  BY DEF Disposed, bounds
<1>2. /\ desired' \in {desired, TRUE}
      /\ state' \in {state, "starting", "degraded", "stopped"}
  BY DEF Disposed, Account
<1>6. ASSUME NEW p \in Processes, p = process, Alive(p) PROVE os[p] = "silent"
  <2>1. Lives(p) /\ p # None
    BY WorkerAssumption DEF IInv, Core
  <2>2. os[p] \in Phases
    BY DEF IInv, Core, Types
  <2>3. os[p] \in {"named", "serving"} => FALSE
    BY <1>1, <1>6, <2>1 DEF Lives
  <2>4. os[p] = "orphan" => FALSE
    BY <1>1, <1>6, <2>1 DEF Lives
  <2> QED BY <1>6, <2>1, <2>2, <2>3, <2>4 DEF Lives, Phases, Alive
<1>3. ASSUME NEW p \in Processes PROVE Lives(p)'
  <2>1. Lives(p) /\ p # None
    BY WorkerAssumption DEF IInv, Core
  <2>2. os'[p] \notin {"silent", "named", "serving"}
    BY <1>1, <2>1 DEF Lives, Alive
  <2>3. os'[p] = "orphan" => pidFile' = p
    BY <1>1, <2>1 DEF Lives, Alive
  <2>4. os'[p] = "unheard" => p # pidFile'
    BY <1>1, <1>6, <2>1 DEF Lives, Alive
  <2> QED BY <1>1, <2>1, <2>2, <2>3, <2>4 DEF Lives, Children
<1>4. ~Live'
  BY <1>1 DEF Live
<1>5. /\ desired \in BOOLEAN /\ event \in BOOLEAN /\ failures \in 0 .. MaxFailures
      /\ state \in {"stopped", "starting", "ready", "degraded"}
      /\ pidFile \in Processes \cup {None}
  BY DEF IInv, Core, Types
<1>7. process # None => ~Alive(process) \/ os[process] = "silent"
  BY <1>6 DEF IInv, Core, Types
<1>8. /\ os' \in [Processes -> Phases]
      /\ \A p \in Processes : os'[p] = os[p] \/ (p = process /\ os[p] = "silent" /\ os'[p] = "unheard")
  BY <1>1, <1>6 DEF IInv, Core, Types, Phases
<1> QED BY <1>1, <1>2, <1>3, <1>4, <1>5, <1>7, <1>8 DEF Ending

LEMMA DisposeFailsEnds ==
    ASSUME IInv, NEW k \in Tasks, DisposeFails(k)
    PROVE Ending(k)
<1>1. /\ local[k].phase = "disposing" /\ Noticed /\ pid # None
      /\ process' = IF process # None /\ ~Alive(process) THEN None ELSE process
      /\ state' = "degraded" /\ pipe' = <<>>
      /\ UNCHANGED <<desired, pid, event, os, pidFile, life>>
      /\ failures' \in {failures, Counted}
  BY DEF DisposeFails, system, bounds
<1>2. ASSUME NEW p \in Processes PROVE Lives(p)'
  <2>1. Lives(p) /\ p # None
    BY WorkerAssumption DEF IInv, Core
  <2> QED BY <1>1, <2>1 DEF Lives, Children
<1>6. /\ os' \in [Processes -> Phases] /\ \A p \in Processes : os'[p] = os[p]
      /\ \/ process' = None /\ (process # None => ~Alive(process))
         \/ process' = process /\ UNCHANGED os /\ (process # None => Alive(process))
  BY <1>1 DEF IInv, Core, Types
<1>3. ~Live'
  BY <1>1 DEF Live
<1>4. /\ desired \in BOOLEAN /\ event \in BOOLEAN /\ failures \in 0 .. MaxFailures
      /\ pid \in Processes \cup {None} /\ pidFile \in Processes \cup {None}
  BY DEF IInv, Core, Types
<1>5. failures' \in 0 .. MaxFailures
  BY <1>1, <1>4, CountedIs
<1> QED BY <1>1, <1>2, <1>3, <1>4, <1>5, <1>6 DEF Ending

LEMMA EndingKeeps ==
    ASSUME IInv, NEW k \in Tasks, NEW m \in Tasks, Ending(k), Moves(k, m),
           \A n \in {k, m} : Role(n)' /\ Placed(n)' /\ Relies(n)'
    PROVE Core' /\ (Tardy' => FALSE)
<1>1. Role(k) /\ Placed(k) /\ Relies(k) /\ life # "starting" /\ local[k].phase = "disposing"
  BY TaskKnows DEF Ending
<1>2. Holds(k, lifecycle)
  BY <1>1 DEF Placed, Under
<1>3. \A j \in Tasks : j # k => local[j].phase \notin Under
  BY <1>2, Alone
<1>4. ASSUME NEW j \in Others(k, m) PROVE Role(j)' /\ Placed(j)' /\ Relies(j)'
  <2>1. Role(j)' /\ Placed(j)'
    BY OthersKeep
  <2>2. j \in Tasks /\ j # k /\ local'[j] = local[j]
    BY DEF Moves, Others
  <2>3. Role(j) /\ Placed(j) /\ Relies(j) /\ local[j].phase \notin Under
    BY <1>3, <2>2, TaskKnows
  <2>4. j = "monitor" /\ local[j].phase = "watching"
          => process' = local[j].proc /\ os'[local[j].proc] # "silent"
    <3> SUFFICES ASSUME j = "monitor", local[j].phase = "watching"
                 PROVE process' = local[j].proc /\ os'[local[j].proc] # "silent"
      OBVIOUS
    <3>1. local[j].job = "exit"
      BY <2>3 DEF Role
    <3>2. process = local[j].proc /\ process # None /\ os[process] # "silent"
      BY <2>3, <3>1 DEF Role, Relies
    <3>3. Alive(process)
      BY <3>2 DEF Ending, Noticed
    <3> QED BY <3>2, <3>3 DEF Ending
  <2>5. ~(j \in Requests /\ local[j].phase = "sent" /\ local[j].proc = process')
    <3> SUFFICES ASSUME j \in Requests, local[j].phase = "sent", local[j].proc = process'
                 PROVE FALSE
      OBVIOUS
    <3>1. process' # None
      BY <2>3 DEF Role
    <3>2. process' = process /\ Alive(process) /\ process # None
      BY <3>1 DEF Ending
    <3>3. Live
      BY <2>3, <3>2 DEF Relies, Live
    <3>4. Holds(k, requests)
      BY <1>1, <3>3 DEF Relies, Placed
    <3>5. Holds(j, requests)
      BY <2>3 DEF Placed
    <3> QED BY <2>2, <3>4, <3>5, HoldsIs DEF IInv, Core, Types
  <2>6. j = "monitor" /\ local[j].phase = "waiting" /\ local[j].job = "exit"
          => ~Alive(local[j].proc)'
    <3> SUFFICES ASSUME j = "monitor", local[j].phase = "waiting", local[j].job = "exit"
                 PROVE ~Alive(local[j].proc)'
      OBVIOUS
    <3>1. local[j].proc \in Processes /\ ~Alive(local[j].proc)
      BY <2>2, <2>3, TaskKnows DEF Role, Relies, Local
    <3>2. os'[local[j].proc] = os[local[j].proc]
      BY <3>1 DEF Ending, Alive
    <3> QED BY <2>2, <3>1, <3>2 DEF Alive
  <2>7. Relies(j)'
    BY <2>2, <2>3, <2>4, <2>5, <2>6 DEF Relies, Under, Ending, Alive
  <2> QED BY <2>1, <2>7
<1>5. \A j \in Tasks : Role(j)' /\ Placed(j)' /\ Relies(j)'
  BY <1>4 DEF Others
<1>6. Types'
  <2>1. Queue(lifecycle)' /\ Queue(requests)' /\ local' \in [Tasks -> Local]
    BY DEF Moves
  <2>2. life' = life /\ life \in {"starting", "running", "closing"} /\ life # "starting"
    BY <1>1 DEF Ending, IInv, Core, Types
  <2>3. process' \in Processes \cup {None}
    BY DEF Ending, IInv, Core, Types
  <2>4. os' \in [Processes -> Phases]
    BY DEF Ending, IInv, Core, Types
  <2>5. pipe' \in Seq(Tasks)
    BY DEF Ending
  <2>6. /\ pid' \in Processes \cup {None} /\ pidFile' \in Processes \cup {None}
        /\ desired' \in BOOLEAN /\ event' \in BOOLEAN /\ failures' \in 0 .. MaxFailures
        /\ state' \in {"stopped", "starting", "ready", "degraded"}
    BY DEF Ending
  <2> QED BY <2>1, <2>2, <2>3, <2>4, <2>5, <2>6 DEF Types
<1>7. Owned'
  BY DEF Owned, Ending
<1>8. ~Tardy'
  BY DEF Tardy, Ending
<1> QED BY <1>5, <1>6, <1>7, <1>8 DEF Core, Ending

\* The caller is done with it.
LEMMA EndingCalm ==
    ASSUME IInv, NEW k \in Tasks, Ending(k), local' = Set(k, Calm), Released(k)
    PROVE IInv'
<1>1. lifecycle' = Without(k, lifecycle) /\ requests' = Without(k, requests)
  BY DEF Released
<1>2. /\ Goes(k, lifecycle, lifecycle') /\ ~In(k, lifecycle)'
      /\ Goes(k, requests, requests') /\ ~In(k, requests)'
  BY <1>1, LifecycleTurn, RequestsTurn
<1>3. Moves(k, k) /\ local'[k] = Calm
  BY <1>2, CalmHas, OneMoves
<1>4. Role(k)' /\ Placed(k)' /\ Relies(k)'
  BY <1>2, <1>3, CalmIs
<1>5. Core' /\ ~Tardy'
  BY <1>3, <1>4, EndingKeeps
<1>6. Starts'
  BY <1>3, StartsKeeps DEF Ending, Calm
<1>7. Booting' => Booting
  <2>1. k = "restart" => ~Booting'
    BY <1>3 DEF Booting, Under, Calm
  <2>2. k # "restart" => local'["restart"] = local["restart"]
    BY <1>3, TaskIs DEF Moves, Others
  <2> QED BY <2>1, <2>2 DEF Booting
<1>8. \A t \in Requests \cap {k, k} : Booting' =>
         /\ local'[t].phase # "sent" /\ ~Before("restart", t, lifecycle)'
         /\ local'[t].phase \in {"waiting", "disposing"} => ~In(t, requests)'
  <2> SUFFICES ASSUME k \in Requests, Booting'
               PROVE /\ local'[k].phase # "sent" /\ ~Before("restart", k, lifecycle)'
                     /\ local'[k].phase \in {"waiting", "disposing"} => ~In(k, requests)'
    OBVIOUS
  <2>1. ~Before("restart", k, lifecycle)
    BY <1>7 DEF IInv, Restarts
  <2>2. PICK q, r : q = lifecycle /\ r = lifecycle'
    OBVIOUS
  <2>3. r = Without(k, q) /\ Queue(q)
    BY <1>1, <2>2 DEF IInv, Core, Types
  <2>4. Before("restart", k, r) => Before("restart", k, q)
    BY <2>3, LeavesStep
  <2> QED BY <1>2, <1>3, <2>1, <2>2, <2>4 DEF Before, Calm
<1>9. Restarts'
  BY <1>3, <1>7, <1>8, RestartsKeeps DEF Ending
<1> QED BY <1>5, <1>6, <1>9 DEF IInv, Late

LEMMA EndingSpawnEnds ==
    ASSUME IInv, NEW k \in Tasks, Ending(k), SpawnEnds(k), UNCHANGED requests,
           local[k].job \in {"spawn", "failed"}
    PROVE IInv'
<1>1. local[k].phase = "disposing" /\ Placed(k)
  BY TaskKnows DEF Ending
<1>2. Holds(k, lifecycle)
  BY <1>1 DEF Placed, Under
<1>3. PICK m \in {k, "monitor"} :
            /\ m \in Tasks /\ Moves(k, m) /\ k \notin Requests /\ m \notin Requests
            /\ \A n \in {k, m} : Role(n)' /\ Placed(n)' /\ Relies(n)'
            /\ local'["start"].phase = "none"
            /\ Booting' => Booting
  BY <1>1, <1>2, SpawnEndsIs
<1>4. Core' /\ ~Tardy'
  BY <1>3, EndingKeeps
<1>5. Starts'
  BY <1>3 DEF Starts
<1>6. Restarts'
  <2>1. Requests \cap {k, m} = {}
    BY <1>3
  <2> QED BY <1>3, <2>1, RestartsKeeps DEF Ending
<1> QED BY <1>4, <1>5, <1>6 DEF IInv, Late

LEMMA DisposeFailsKeeps ==
    ASSUME IInv, NEW k \in Tasks, DisposeFails(k)
    PROVE IInv'
<1>1. Ending(k)
  BY DisposeFailsEnds
<1>2. CASE local[k].job = "spawn" /\ SpawnEnds(k) /\ UNCHANGED requests
  BY <1>1, <1>2, EndingSpawnEnds
<1>3. CASE local' = Set(k, Calm) /\ Released(k)
  BY <1>1, <1>3, EndingCalm
<1>4. CASE Concluded(k)
  BY <1>1, <1>4, EndingCalm, EndingSpawnEnds DEF Concluded
<1> QED BY <1>2, <1>3, <1>4 DEF DisposeFails

\* restart gives the locks back, and waits for the first again.
LEMMA ComesLast ==
    ASSUME NEW q, Queue(q), NEW k \in Tasks, NEW j, NEW r, r = Append(Without(k, q), k)
    PROVE ~Before(k, j, r) /\ Queue(r) /\ In(k, r) /\ Goes(k, q, r)
<1>1. PICK s : s = Without(k, q)
  OBVIOUS
<1>2. Queue(s) /\ ~In(k, s)
  BY <1>1, LeavesStep
<1>3. r = Append(s, k) /\ Queue(r) /\ In(k, r)
  BY <1>1, <1>2, JoinsStep
<1>4. /\ s \in Seq(Tasks) /\ Len(s) \in Nat /\ DOMAIN s = 1 .. Len(s)
      /\ \A i \in DOMAIN s : s[i] # k
  BY <1>2, QueueIs DEF Queue
<1>5. /\ DOMAIN r = 1 .. Len(s) + 1
      /\ \A i \in 1 .. Len(s) : r[i] = s[i]
  BY <1>3, <1>4
<1>6. ~Before(k, j, r)
  BY <1>4, <1>5 DEF Before
<1> QED BY <1>3, <1>6 DEF Goes

LEMMA RestartGoesOn ==
    ASSUME IInv, NEW k \in Tasks, k = "restart", Ending(k), local[k].job = k,
           local' = Set(k, Waiting("spawn")),
           lifecycle' = Append(Without(k, lifecycle), k), requests' = Without(k, requests)
    PROVE IInv'
<1>1. /\ local[k].phase = "disposing" /\ Role(k) /\ Placed(k) /\ k \notin Requests
      /\ local \in [Tasks -> Local]
  BY TaskIs, TaskKnows DEF Ending
<1>2. PICK q, r : q = lifecycle /\ r = lifecycle'
  OBVIOUS
<1>3. Queue(q) /\ r = Append(Without(k, q), k)
  BY <1>2 DEF IInv, Core, Types
<1>4. /\ \A j : ~Before(k, j, r)
      /\ In(k, r) /\ Goes(k, q, r)
  BY <1>3, ComesLast
<1>5. In(k, lifecycle)' /\ Goes(k, lifecycle, lifecycle') /\ \A j : ~Before(k, j, lifecycle)'
  BY <1>2, <1>4 DEF In, Before
<1>6. Goes(k, requests, requests') /\ ~In(k, requests)'
  BY RequestsTurn
<1>7. PICK l : l = Waiting("spawn")
  OBVIOUS
<1>8. l \in Local /\ l.phase = "waiting" /\ l.job = "spawn"
  BY <1>7 DEF Local, Waiting, At
<1>9. Moves(k, k) /\ local'[k] = l
  BY <1>5, <1>6, <1>7, <1>8, OneMoves
<1>10. Role(k)'
  BY <1>1, <1>8, <1>9 DEF Role, Under
<1>11. Placed(k)'
  BY <1>1, <1>5, <1>6, <1>8, <1>9 DEF Placed, Under
<1>12. Relies(k)'
  BY <1>1, <1>8, <1>9 DEF Relies
<1>13. Core' /\ ~Tardy'
  BY <1>9, <1>10, <1>11, <1>12, EndingKeeps
<1>14. Starts'
  BY <1>9, StartsKeeps DEF Ending
<1>15. ASSUME NEW t \in Requests
       PROVE /\ local'[t].phase # "sent" /\ ~Before("restart", t, lifecycle)'
             /\ local'[t].phase \in {"waiting", "disposing"} => ~In(t, requests)'
  <2>1. t \in Tasks /\ t # k /\ Placed(t) /\ t \in Others(k, k)
    BY <1>1, TaskIs, TaskKnows DEF Others
  <2>2. local'[t] = local[t] /\ (In(t, requests)' <=> In(t, requests))
    BY <1>9, <2>1 DEF Moves
  <2>3. Holds(k, requests)
    BY <1>1 DEF Placed
  <2>4. ~Holds(t, requests)
    BY <2>1, <2>3, HoldsIs DEF IInv, Core, Types
  <2> QED BY <1>5, <2>1, <2>2, <2>4 DEF Placed
<1>16. Restarts'
  BY <1>15 DEF Restarts, Ending
<1> QED BY <1>13, <1>14, <1>16 DEF IInv, Late

\* The process has been ended, and the holder of the lock starts another one, or
\* first looks for the one that the pid file names.
LEMMA StarterGoesOn ==
    ASSUME IInv, NEW k \in Tasks, Ending(k), local[k].job = "spawn",
           NEW phase \in {"launching", "reconciling"}, local' = Set(k, At(phase, "spawn", None)),
           UNCHANGED <<lifecycle, requests>>, process' = None, pid' = None,
           phase = "launching" => state' = "starting" /\ pidFile' = None
    PROVE IInv'
<1>1. /\ local[k].phase = "disposing" /\ Role(k) /\ Placed(k) /\ Holds(k, lifecycle)
      /\ In(k, lifecycle)
  BY TaskKnows DEF Ending, Placed, Under
<1>2. k \in {"start", "monitor", "restart"} /\ k \notin Requests /\ ~In(k, requests)
      /\ (k = "restart" => Booting) /\ (k # "start" => local["start"].phase = "none")
  BY <1>1, SpawnerIs
<1>3. PICK l : l = At(phase, "spawn", None)
  OBVIOUS
<1>4. l \in Local /\ l.phase = phase /\ l.job = "spawn" /\ l.proc = None
  BY <1>3 DEF Local, At
<1>5. /\ Goes(k, lifecycle, lifecycle') /\ Goes(k, requests, requests')
      /\ In(k, lifecycle)' /\ Holds(k, lifecycle)' /\ ~In(k, requests)'
  BY <1>1, <1>2, LifecycleTurn, RequestsTurn
<1>6. Moves(k, k) /\ local'[k] = l
  BY <1>3, <1>4, <1>5, OneMoves
<1>7. Role(k)'
  BY <1>2, <1>4, <1>6, TaskIs DEF Role, Under
<1>8. Placed(k)'
  BY <1>2, <1>4, <1>5, <1>6, TaskIs DEF Placed, Under
<1>9. Relies(k)'
  BY <1>2, <1>4, <1>6, TaskIs DEF Relies, Ending
<1>10. Core' /\ ~Tardy'
  BY <1>6, <1>7, <1>8, <1>9, EndingKeeps
<1>11. local'["start"].phase # "none" => local["start"].phase # "none"
  BY <1>1, <1>6, TaskIs DEF Moves, Others
<1>12. Starts'
  BY <1>1, <1>2, <1>5, <1>6, <1>11, StartsKeeps DEF Ending
<1>13. Booting' => Booting
  <2>1. k # "restart" => local'["restart"] = local["restart"]
    BY <1>6, TaskIs DEF Moves, Others
  <2> QED BY <1>2, <2>1 DEF Booting
<1>14. Restarts'
  BY <1>2, <1>6, <1>13, RestartsKeeps DEF Ending
<1> QED BY <1>10, <1>12, <1>14 DEF IInv, Late

\* The monitor goes on as its own count tells.
LEMMA MonitorGoesOn ==
    ASSUME IInv, NEW k \in Tasks, Ending(k), local[k].job = "exit", Account(failures),
           lifecycle' = Without(k, lifecycle), UNCHANGED requests
    PROVE IInv'
<1>1. local[k].phase = "disposing" /\ Role(k) /\ Placed(k)
  BY TaskKnows DEF Ending
<1>2. k = "monitor" /\ k \notin Requests
  BY <1>1, TaskIs DEF Role, Tasks
<1>3. ~In(k, requests) /\ local["start"].phase = "none"
  BY <1>1, <1>2, MonitorKnows
<1>4. /\ Goes(k, lifecycle, lifecycle') /\ ~In(k, lifecycle)'
      /\ Goes(k, requests, requests') /\ ~In(k, requests)'
  BY <1>3, LifecycleTurn, RequestsTurn
<1>5. PICK l \in Local :
             /\ local' = Set(k, l) /\ local'[k] = l
             /\ Role(k)' /\ Placed(k)' /\ Relies(k)'
  BY <1>2, <1>4, AccountIs, TaskKnows
<1>6. Moves(k, k)
  BY <1>4, <1>5, OneMoves
<1>7. Core' /\ ~Tardy'
  BY <1>5, <1>6, EndingKeeps
<1>8. local'["start"] = local["start"] /\ local'["restart"] = local["restart"]
  BY <1>2, <1>6, TaskIs DEF Moves, Others
<1>9. Starts'
  BY <1>3, <1>8 DEF Starts
<1>10. Restarts'
  BY <1>2, <1>6, <1>8, RestartsKeeps DEF Ending, Booting
<1> QED BY <1>7, <1>9, <1>10 DEF IInv, Late

LEMMA DisposedKeeps ==
    ASSUME IInv, NEW k \in Tasks, Disposed(k)
    PROVE IInv'
<1>1. Ending(k) /\ Role(k) /\ local[k].phase = "disposing" /\ process' = None /\ pid' = None
  BY DisposedEnds, TaskKnows DEF Disposed
<1>2. CASE /\ local[k].job = "spawn"
           /\ local' = Set(k, At(IF pidFile' = None THEN "launching"
                                 ELSE "reconciling", "spawn", None))
           /\ state' = IF pidFile' = None THEN "starting" ELSE state
           /\ UNCHANGED locks
  <2>1. PICK phase \in {"launching", "reconciling"} :
          phase = IF pidFile' = None THEN "launching" ELSE "reconciling"
    OBVIOUS
  <2>2. /\ local' = Set(k, At(phase, "spawn", None)) /\ UNCHANGED <<lifecycle, requests>>
        /\ phase = "launching" => state' = "starting" /\ pidFile' = None
    BY <1>2, <2>1 DEF locks
  <2> QED BY <1>1, <1>2, <2>2, StarterGoesOn
<1>3. CASE /\ local[k].job = "exit" /\ Account(failures)
           /\ lifecycle' = Without(k, lifecycle) /\ UNCHANGED requests
  BY <1>1, <1>3, MonitorGoesOn
<1>4. CASE /\ local[k].job = "restart" /\ local' = Set(k, Waiting("spawn"))
           /\ lifecycle' = Append(Without(k, lifecycle), k) /\ requests' = Without(k, requests)
  <2>1. k = "restart"
    BY <1>1, <1>4, TaskIs DEF Role, Tasks
  <2> QED BY <1>1, <1>4, <2>1, RestartGoesOn
<1>5. CASE Concluded(k)
  BY <1>1, <1>5, EndingCalm, EndingSpawnEnds DEF Concluded
<1> QED BY <1>2, <1>3, <1>4, <1>5 DEF Disposed

-----------------------------------------------------------------------------
(* The start of a process *)

\* The holder of the lock is alone with a supervisor that has no process, or one
\* that no request has been written to.
LEMMA StartingIs ==
    ASSUME IInv, NEW k \in Tasks, local[k].phase \in {"reconciling", "launching"}
    PROVE /\ Role(k) /\ Placed(k) /\ Relies(k) /\ local[k] \in Local /\ local[k].job = "spawn"
          /\ Holds(k, lifecycle) /\ In(k, lifecycle) /\ pipe = <<>>
          /\ k \in {"start", "monitor", "restart"} /\ k \notin Requests
          /\ ~In(k, requests) /\ ~Holds(k, requests) /\ life # "starting" /\ ~Tardy
          /\ k = "restart" => Booting
          /\ k # "start" => local["start"].phase = "none"
<1>1. Role(k) /\ Placed(k) /\ Relies(k) /\ local[k] \in Local
  BY TaskKnows
<1>2. local[k].job = "spawn"
  BY <1>1 DEF Role
<1>3. Holds(k, lifecycle) /\ In(k, lifecycle)
  BY <1>1 DEF Placed, Under
<1>4. pipe = <<>>
  BY <1>1 DEF Relies
<1> QED BY <1>1, <1>2, <1>3, <1>4, SpawnerIs

LEMMA StartingKeeps ==
    ASSUME IInv, NEW k \in Tasks, NEW m \in Tasks, Moves(k, m), Holds(k, lifecycle),
           pipe = <<>>, UNCHANGED <<pipe, life>>, life # "starting",
           process' \in Processes \cup {None} /\ pid' \in Processes \cup {None},
           pidFile' \in Processes \cup {None} /\ os' \in [Processes -> Phases],
           desired' \in BOOLEAN /\ event' \in BOOLEAN /\ failures' \in 0 .. MaxFailures,
           state' \in {"stopped", "starting", "ready", "degraded"},
           \A p \in Processes : Lives(p)',
           \A n \in {k, m} : Role(n)' /\ Placed(n)' /\ Relies(n)',
           \A t \in Requests : local[t].proc # None => local[t].proc # process',
           local["monitor"].phase = "watching" =>
               process' = process /\ (os[process] # "silent" => os'[process] # "silent"),
           local["monitor"].proc # None /\ ~Alive(local["monitor"].proc) =>
               os'[local["monitor"].proc] = "gone"
    PROVE Core'
<1>1. \A j \in Tasks : j # k => local[j].phase \notin Under
  BY Alone
<1>2. ASSUME NEW j \in Others(k, m) PROVE Role(j)' /\ Placed(j)' /\ Relies(j)'
  <2>1. Role(j)' /\ Placed(j)'
    BY OthersKeep
  <2>2. j \in Tasks /\ j # k /\ local'[j] = local[j]
    BY DEF Moves, Others
  <2>3. Role(j) /\ Relies(j) /\ local[j].phase \notin Under
    BY <1>1, <2>2, TaskKnows
  <2>4. ~(j \in Requests /\ local[j].phase \in {"waiting", "sent"} /\ local[j].proc = process')
    BY <2>3 DEF Role
  <2>5. j = "monitor" /\ local[j].phase = "watching"
          => process' = local[j].proc /\ os'[local[j].proc] # "silent"
    BY <2>3 DEF Relies
  <2>7. j = "monitor" /\ local[j].phase = "waiting" /\ local[j].job = "exit"
             => local[j].proc # None /\ ~Alive(local[j].proc)
    BY <2>3 DEF Role, Relies
  <2>8. j = "monitor" /\ local[j].phase = "waiting" /\ local[j].job = "exit"
             => ~Alive(local[j].proc)'
    BY <2>2, <2>7 DEF Alive
  <2>6. Relies(j)'
    BY <2>2, <2>3, <2>4, <2>5, <2>8 DEF Relies, Under, Alive
  <2> QED BY <2>1, <2>6
<1>3. \A j \in Tasks : Role(j)' /\ Placed(j)' /\ Relies(j)'
  BY <1>2 DEF Others
<1>4. Types'
  <2>1. Queue(lifecycle)' /\ Queue(requests)' /\ local' \in [Tasks -> Local]
    BY DEF Moves
  <2>2. life' # "starting" /\ life' \in {"starting", "running", "closing"}
    BY DEF IInv, Core, Types
  <2>3. pipe' \in Seq(Tasks)
    OBVIOUS
  <2> QED BY <2>1, <2>2, <2>3 DEF Types
<1>5. Owned'
  BY DEF Owned
<1> QED BY <1>3, <1>4, <1>5 DEF Core

\* One task starts a process, and is not ready.
LEMMA StarterTurn ==
    ASSUME IInv, NEW k \in Tasks, local[k].phase \in {"reconciling", "launching"},
           NEW p \in Processes \cup {None}, local' = Set(k, At("launching", "spawn", p)),
           UNCHANGED <<lifecycle, requests, pipe, life>>, Rest',
           process' = p /\ pid' \in Processes \cup {None},
           pidFile' \in Processes \cup {None} /\ os' \in [Processes -> Phases],
           state' \in {"starting", "degraded"},
           p = None => pid' = None /\ pidFile' = None,
           \A q \in Processes : Lives(q)',
           \A t \in Requests : local[t].proc # None => local[t].proc # p,
           local["monitor"].phase = "watching" =>
               process' = process /\ (os[process] # "silent" => os'[process] # "silent"),
           local["monitor"].proc # None /\ ~Alive(local["monitor"].proc) =>
               os'[local["monitor"].proc] = "gone"
    PROVE IInv'
<1>1. /\ Role(k) /\ Placed(k) /\ Relies(k) /\ Holds(k, lifecycle) /\ In(k, lifecycle)
      /\ pipe = <<>> /\ k \in {"start", "monitor", "restart"} /\ k \notin Requests
      /\ ~In(k, requests) /\ life # "starting"
      /\ (k = "restart" => Booting) /\ (k # "start" => local["start"].phase = "none")
  BY StartingIs
<1>2. PICK l : l = At("launching", "spawn", p)
  OBVIOUS
<1>3. l \in Local /\ l.phase = "launching" /\ l.job = "spawn" /\ l.proc = p
  BY <1>2 DEF Local, At
<1>4. /\ Goes(k, lifecycle, lifecycle') /\ Goes(k, requests, requests')
      /\ In(k, lifecycle)' /\ Holds(k, lifecycle)' /\ ~In(k, requests)'
  BY <1>1, LifecycleTurn, RequestsTurn
<1>5. Moves(k, k) /\ local'[k] = l
  BY <1>2, <1>3, <1>4, OneMoves
<1>6. Role(k)'
  BY <1>1, <1>3, <1>5, TaskIs DEF Role, Under
<1>7. Placed(k)'
  BY <1>1, <1>3, <1>4, <1>5, TaskIs DEF Placed, Under
<1>8. ASSUME p # None PROVE \A t \in Requests : local'[t].proc # p
  <2> TAKE t \in Requests
  <2>1. t \in Others(k, k)
    BY <1>1, TaskIs DEF Others
  <2>2. local'[t] = local[t]
    BY <1>5, <2>1 DEF Moves
  <2> QED BY <1>8, <2>2
<1>9. ~Live'
  BY DEF Live
<1>10. Relies(k)'
  BY <1>1, <1>3, <1>5, <1>8, TaskIs DEF Relies
<1>11. desired' \in BOOLEAN /\ event' \in BOOLEAN /\ failures' \in 0 .. MaxFailures
  BY DEF Rest
<1>12. Core'
  BY <1>1, <1>5, <1>6, <1>7, <1>10, <1>11, StartingKeeps
<1>13. local'["start"].phase # "none" => local["start"].phase # "none"
  BY <1>1, <1>5, TaskIs DEF Moves, Others
<1>14. Starts'
  BY <1>1, <1>4, <1>5, <1>13, StartsKeeps
<1>15. Booting' => Booting
  <2>1. k # "restart" => local'["restart"] = local["restart"]
    BY <1>5, TaskIs DEF Moves, Others
  <2> QED BY <1>1, <2>1 DEF Booting
<1>16. Restarts'
  BY <1>1, <1>5, <1>9, <1>15, RestartsKeeps
<1> QED BY <1>9, <1>12, <1>14, <1>16 DEF IInv, Late, Tardy

LEMMA ReconciledKeeps ==
    ASSUME IInv, NEW k \in Tasks, Reconciled(k)
    PROVE IInv'
<1>1. /\ local[k].phase = "reconciling" /\ ~Alive(pidFile) /\ pidFile' = None
      /\ state' = "starting" /\ local' = Set(k, At("launching", "spawn", None))
      /\ UNCHANGED <<desired, process, pid, failures, event, lifecycle, requests, pipe, os, life>>
  BY DEF Reconciled, locks, bounds
<1>2. Relies(k) /\ life # "starting"
  BY <1>1, StartingIs
<1>3. process = None /\ pid = None
  BY <1>1, <1>2 DEF Relies
<1>4. ASSUME NEW p \in Processes PROVE Lives(p)'
  <2>1. Lives(p) /\ p # None
    BY WorkerAssumption DEF IInv, Core
  <2>2. os[p] \notin {"silent", "named", "serving", "orphan"}
    BY <1>1, <1>3, <2>1 DEF Lives, Alive
  <2> QED BY <1>1, <2>1, <2>2 DEF Lives, Children
<1>5. Rest'
  BY <1>1, <1>2 DEF Rest, IInv, Core, Types
<1>6. os' \in [Processes -> Phases]
  BY <1>1 DEF IInv, Core, Types
<1>7. local["monitor"].proc # None /\ ~Alive(local["monitor"].proc) =>
        os'[local["monitor"].proc] = "gone"
  BY <1>1 DEF Alive
<1> QED BY <1>1, <1>2, <1>3, <1>4, <1>5, <1>6, <1>7, StarterTurn

LEMMA LaunchKeeps ==
    ASSUME IInv, NEW k \in Tasks, Launch(k)
    PROVE IInv'
<1>1. /\ local[k].phase = "launching" /\ local[k].proc = None
      /\ UNCHANGED <<desired, pid, state, failures, event, lifecycle, requests, pipe, pidFile,
                     life>>
  BY DEF Launch, locks, bounds
<1>2. PICK p \in Processes :
        /\ ~Alive(p) /\ \A j \in Tasks : local[j].proc # p
        /\ os' = [os EXCEPT ![p] = "silent"] /\ process' = p
        /\ local' = Set(k, [local[k] EXCEPT !.proc = p])
  BY DEF Launch
<1>3. Relies(k) /\ life # "starting" /\ local[k] \in Local /\ local[k].job = "spawn"
  BY <1>1, StartingIs
<1>4. /\ process = None /\ pid = None /\ pidFile = None /\ p # None
      /\ state \in {"starting", "degraded"}
  BY <1>1, <1>3, WorkerAssumption DEF Relies, IInv, Core, Types
<1>5. local' = Set(k, At("launching", "spawn", p))
  <2>1. [local[k] EXCEPT !.proc = p] = At("launching", "spawn", p)
    BY <1>1, <1>3 DEF Local, At
  <2> QED BY <1>2, <2>1
<1>6. os \in [Processes -> Phases] /\ os' \in [Processes -> Phases]
  BY <1>2 DEF IInv, Core, Types, Phases
<1>7. ASSUME NEW q \in Processes PROVE Lives(q)'
  <2>1. Lives(q) /\ q # None
    BY WorkerAssumption DEF IInv, Core
  <2>2. CASE q = p
    <3>1. os'[q] = "silent"
      BY <1>2, <1>6, <2>2
    <3> QED BY <1>1, <1>2, <1>4, <2>2, <3>1 DEF Lives
  <2>3. CASE q # p
    <3>1. os'[q] = os[q]
      BY <1>2, <1>6, <2>3
    <3>2. os[q] \notin {"silent", "named", "serving", "orphan"}
      BY <1>4, <2>1 DEF Lives
    <3> QED BY <1>1, <1>2, <1>4, <2>1, <2>3, <3>1, <3>2 DEF Lives, Children
  <2> QED BY <2>2, <2>3
<1>8. Rest'
  BY <1>1, <1>3 DEF Rest, IInv, Core, Types
<1>9. \A t \in Requests : local[t].proc # p
  BY <1>2, TaskIs
<1>10. local["monitor"].phase # "watching"
  <2>1. local["monitor"].phase = "watching" =>
          local["monitor"].job = "exit" /\ local["monitor"].proc # None /\ process # None
    BY TaskIs, TaskKnows DEF Role, Relies
  <2> QED BY <1>4, <2>1
<1>11. local["monitor"].proc # None /\ ~Alive(local["monitor"].proc) =>
         os'[local["monitor"].proc] = "gone"
  <2>1. local["monitor"].proc \in Processes \cup {None} /\ local["monitor"].proc # p
    BY <1>2, TaskIs, TaskKnows DEF Local
  <2> QED BY <1>2, <1>6, <2>1 DEF Alive
<1> QED BY <1>1, <1>2, <1>4, <1>5, <1>6, <1>7, <1>8, <1>9, <1>10, <1>11, StarterTurn

\* What is started is not known but to the supervisor, until it says its pid.
LEMMA LaunchedIs ==
    ASSUME IInv, NEW k \in Tasks, local[k].phase = "launching", local[k].proc # None
    PROVE /\ process = local[k].proc /\ process \in Processes /\ process # None
          /\ state \in {"starting", "degraded"}
          /\ \A t \in Requests : local[t].proc # process
          /\ \A p \in Processes \ {process} :
                os[p] \in {"silent", "named", "serving"} => pid = p /\ pidFile = p
<1>1. /\ Relies(k) /\ state \in {"stopped", "starting", "ready", "degraded"}
      /\ process \in Processes \cup {None}
  BY TaskKnows DEF IInv, Core, Types
<1>2. /\ process = local[k].proc /\ process \in Processes /\ process # None
      /\ state \in {"starting", "degraded"}
      /\ \A t \in Requests : local[t].proc # process
  BY <1>1 DEF Relies
<1>3. ASSUME NEW p \in Processes \ {process}
      PROVE os[p] \in {"silent", "named", "serving"} => pid = p /\ pidFile = p
  BY DEF IInv, Core, Lives
<1> QED BY <1>2, <1>3

LEMMA NamedKeeps ==
    ASSUME IInv, NEW k \in Tasks, Named(k)
    PROVE IInv'
<1>1. /\ local[k].phase = "launching" /\ local[k].proc # None /\ os[process] = "silent"
      /\ os' = [os EXCEPT ![process] = "named"] /\ pid' = process /\ pidFile' = process
      /\ UNCHANGED <<desired, process, state, failures, event, local, lifecycle, requests, pipe,
                     life>>
  BY DEF Named, locks, bounds
<1>2. /\ process = local[k].proc /\ process \in Processes /\ process # None
      /\ state \in {"starting", "degraded"}
      /\ \A t \in Requests : local[t].proc # process
  BY <1>1, LaunchedIs
<1>3. Relies(k) /\ life # "starting" /\ local[k] \in Local /\ local[k].job = "spawn"
  BY <1>1, StartingIs
<1>4. local' = Set(k, At("launching", "spawn", process))
  <2>1. local[k] = At("launching", "spawn", process)
    BY <1>1, <1>2, <1>3 DEF Local, At
  <2>2. local = Set(k, local[k])
    BY TaskKnows DEF Set
  <2> QED BY <1>1, <2>1, <2>2
<1>5. os \in [Processes -> Phases] /\ os' \in [Processes -> Phases]
  BY <1>1 DEF IInv, Core, Types, Phases
<1>6. pid = None /\ pidFile = None
  BY <1>1, <1>2 DEF IInv, Core, Lives
<1>7. ASSUME NEW q \in Processes PROVE Lives(q)'
  <2>1. Lives(q) /\ q # None
    BY WorkerAssumption DEF IInv, Core
  <2>2. CASE q = process
    <3>1. os'[q] = "named"
      BY <1>1, <1>5, <2>2
    <3> QED BY <1>1, <1>2, <2>2, <3>1 DEF Lives
  <2>3. CASE q # process
    <3>1. os'[q] = os[q]
      BY <1>1, <1>5, <2>3
    <3>2. os[q] \notin {"silent", "named", "serving", "orphan"}
      BY <1>6, <2>1, <2>3 DEF Lives
    <3> QED BY <1>1, <1>6, <2>1, <2>3, <3>1, <3>2 DEF Lives, Children
  <2> QED BY <2>2, <2>3
<1>8. Rest'
  BY <1>1, <1>3 DEF Rest, IInv, Core, Types
<1>9. local["monitor"].proc # None /\ ~Alive(local["monitor"].proc) =>
        os'[local["monitor"].proc] = "gone"
  <2>1. local["monitor"].proc \in Processes \cup {None}
    BY TaskIs, TaskKnows DEF Local
  <2>2. ~Alive(local["monitor"].proc) => local["monitor"].proc # process
    BY <1>1 DEF Alive
  <2> QED BY <1>1, <1>5, <2>1, <2>2 DEF Alive
<1> QED BY <1>1, <1>2, <1>4, <1>5, <1>7, <1>8, <1>9, StarterTurn

\* The worker is there: those who wait for it find the monitor at work again.
LEMMA ReadyKeeps ==
    ASSUME IInv, ~HandedOver, NEW k \in Tasks, Ready(k)
    PROVE IInv'
<1>1. /\ local[k].phase = "launching" /\ local[k].proc # None /\ os[process] = "named"
      /\ os' = [os EXCEPT ![process] = "serving"]
      /\ state' = "ready" /\ failures' = 0 /\ event' = TRUE /\ SpawnEnds(k)
      /\ UNCHANGED <<desired, process, pid, requests, pipe, pidFile, life>>
  BY DEF Ready, bounds
<1>2. /\ process = local[k].proc /\ process \in Processes /\ process # None
      /\ \A t \in Requests : local[t].proc # process
  BY <1>1, LaunchedIs
<1>3. /\ life # "starting" /\ local[k].job = "spawn" /\ Holds(k, lifecycle) /\ pipe = <<>>
      /\ k \in {"start", "monitor", "restart"} /\ k \notin Requests
      /\ k = "restart" => Booting
      /\ k # "start" => local["start"].phase = "none"
  BY <1>1, StartingIs
<1>4. PICK m \in {k, "monitor"} :
            /\ m \in Tasks /\ Moves(k, m) /\ k \notin Requests /\ m \notin Requests
            /\ \A n \in {k, m} : /\ Role(n)' /\ Placed(n)' /\ Relies(n)'
                                 /\ local'[n] \in {Calm, Looking}
            /\ local'["start"].phase = "none"
            /\ Booting' => Booting
            /\ local'["monitor"] \in {local["monitor"], Looking}
            /\ k = "restart" => ~Booting'
  BY <1>1, <1>3, SpawnEndsIs
<1>5. os \in [Processes -> Phases] /\ os' \in [Processes -> Phases]
  BY <1>1 DEF IInv, Core, Types, Phases
<1>6. pid = process /\ pidFile = process
  BY <1>1, <1>2 DEF IInv, Core, Lives
<1>7. ASSUME NEW q \in Processes PROVE Lives(q)'
  <2>1. Lives(q) /\ q # None
    BY WorkerAssumption DEF IInv, Core
  <2>2. CASE q = process
    <3>1. os'[q] = "serving"
      BY <1>1, <1>5, <2>2
    <3> QED BY <1>1, <1>6, <2>2, <3>1 DEF Lives
  <2>3. CASE q # process
    <3>1. os'[q] = os[q]
      BY <1>1, <1>5, <2>3
    <3>2. os[q] \notin {"silent", "named", "serving", "orphan"}
      BY <1>6, <2>1, <2>3 DEF Lives
    <3> QED BY <1>1, <1>6, <2>1, <2>3, <3>1, <3>2 DEF Lives, Children
  <2> QED BY <2>2, <2>3
<1>8. local["monitor"].proc # None /\ ~Alive(local["monitor"].proc) =>
        os'[local["monitor"].proc] = "gone"
  <2>1. local["monitor"].proc \in Processes \cup {None}
    BY TaskIs, TaskKnows DEF Local
  <2>2. ~Alive(local["monitor"].proc) => local["monitor"].proc # process
    BY <1>1 DEF Alive
  <2> QED BY <1>1, <1>5, <2>1, <2>2 DEF Alive
<1>9. ~Alive(local["monitor"].proc) /\ local["monitor"].proc # None =>
        ~(os'[local["monitor"].proc] # "gone")
  BY <1>8
<1>10. Core'
  <2>1. /\ desired' \in BOOLEAN /\ event' \in BOOLEAN /\ failures' \in 0 .. MaxFailures
        /\ process' \in Processes \cup {None} /\ pid' \in Processes \cup {None}
        /\ pidFile' \in Processes \cup {None}
    BY <1>1, WorkerAssumption DEF IInv, Core, Types
  <2>2. state' \in {"stopped", "starting", "ready", "degraded"}
    BY <1>1
  <2> QED BY <1>1, <1>2, <1>3, <1>4, <1>5, <1>7, <1>8, <2>1, <2>2, StartingKeeps
<1>11. Starts'
  BY <1>4 DEF Starts
<1>12. ASSUME NEW j \in Tasks PROVE ~Handed(j)'
  <2>1. ~Handed(j)
    BY DEF HandedOver, Handed
  <2>2. CASE j \in {k, m}
    BY <1>4, <2>2 DEF Handed, Calm, Looking, At
  <2>3. CASE j \notin {k, m}
    <3>1. local'[j] = local[j]
      BY <1>4, <2>3 DEF Moves, Others
    <3> QED BY <1>1, <2>1, <3>1 DEF Handed, Holds
  <2> QED BY <2>2, <2>3
<1>13. Restarts'
  <2>1. Requests \cap {k, m} = {}
    BY <1>4
  <2>2. \A t \in Requests : ~Handed(t)'
    BY <1>12, TaskIs
  <2> QED BY <1>3, <1>4, <2>1, <2>2, RestartsKeeps
<1>14. ASSUME Tardy'
       PROVE /\ \A t \in Requests : local'[t].phase # "sent"
             /\ Holds("stop", lifecycle)' \/ Holds("monitor", lifecycle)'
  <2>1. local["monitor"].phase = "waiting" /\ local'["monitor"] = local["monitor"]
    BY <1>4, <1>14 DEF Tardy, Looking, At
  <2>2. k = "restart" /\ Booting
    BY <1>1, <1>3, <2>1, MonitorKnows
  <2>3. \A t \in Requests : local[t].phase # "sent" /\ ~Before("restart", t, lifecycle)
    BY <2>2 DEF IInv, Restarts
  <2>4. \A t \in Requests : local'[t].phase # "sent"
    <3> TAKE t \in Requests
    <3>1. t \in Others(k, m)
      BY <1>4, TaskIs DEF Others
    <3> QED BY <1>4, <2>3, <3>1 DEF Moves
  <2>5. PICK q, r : q = lifecycle /\ r = lifecycle'
    OBVIOUS
  <2>6. Queue(q) /\ r = Without(k, q) /\ Holds(k, q)
    BY <1>1, <1>3, <2>5 DEF SpawnEnds, IInv, Core, Types
  <2>7. Queue(r) /\ ~In(k, r) /\ \A j : j # k => (In(j, r) <=> In(j, q))
    BY <2>6, LeavesStep
  <2>8. In("monitor", q)
    <3>1. Placed("monitor")
      BY TaskIs, TaskKnows
    <3> QED BY <2>1, <2>5, <3>1 DEF Placed, Under
  <2>9. PICK i \in Tasks : Holds(i, r)
    <3>1. In("monitor", r)
      BY <2>2, <2>7, <2>8
    <3>2. r # <<>>
      BY <3>1 DEF In, ToSet
    <3> QED BY <2>7, <3>2, HoldsIs
  <2>10. In(i, q) /\ i # k
    BY <2>7, <2>9, HoldsIs
  <2>11. local[i].phase = "waiting"
    <3>1. Placed(i) /\ local[i].phase \notin Under
      BY <1>3, <2>10, TaskKnows, Alone
    <3> QED BY <2>5, <2>10, <3>1 DEF Placed
  <2>12. i \notin Requests
    <3>1. Before("restart", i, q)
      BY <2>2, <2>6, <2>10, HoldsBefore
    <3> QED BY <2>3, <2>5, <3>1
  <2>13. i # "start"
    BY <1>3, <2>2, <2>11
  <2>14. i \in {"stop", "monitor"}
    BY <2>2, <2>10, <2>12, <2>13 DEF Tasks
  <2>15. Holds(i, lifecycle)'
    BY <2>5, <2>9 DEF Holds
  <2> QED BY <2>4, <2>14, <2>15
<1>15. Late'
  BY <1>12, <1>14 DEF Late
<1> QED BY <1>10, <1>11, <1>13, <1>15 DEF IInv

-----------------------------------------------------------------------------
(* The worker process and the server *)

LEMMA ExitKeeps ==
    ASSUME IInv, NEW p \in Processes, Exit(p)
    PROVE IInv'
<1>1. /\ os' = [os EXCEPT ![p] = "gone"]
      /\ UNCHANGED <<desired, process, pid, state, failures, event, local, lifecycle, requests,
                     pipe, pidFile, life>>
  BY DEF Exit, memory, locks, bounds
<1>2. /\ os \in [Processes -> Phases] /\ os' \in [Processes -> Phases]
      /\ \A q \in Processes : os'[q] \in {os[q], "gone"}
  BY <1>1 DEF IInv, Core, Types, Phases
<1>3. ASSUME NEW q \in Processes, ~Alive(q) PROVE ~Alive(q)'
  BY <1>2, <1>3 DEF Alive
<1>4. Live' => Live
  <2>1. process \in Processes \cup {None}
    BY DEF IInv, Core, Types
  <2> QED BY <1>1, <1>3, <2>1 DEF Live, Alive
<1>5. Types'
  BY <1>1, <1>2 DEF IInv, Core, Types, Queue
<1>6. ASSUME NEW k \in Tasks PROVE Role(k)' /\ Placed(k)' /\ Relies(k)'
  <2>1. Role(k) /\ Placed(k) /\ Relies(k) /\ local[k].proc \in Processes \cup {None}
    BY TaskKnows DEF Local
  <2>2. Role(k)'
    BY <1>1, <2>1 DEF Role
  <2>3. Placed(k)'
    BY <1>1, <2>1 DEF Placed, In, Holds
  <2>4. k = "monitor" /\ local[k].phase = "waiting" /\ local[k].job = "exit"
          => local[k].proc \in Processes /\ ~Alive(local[k].proc)
    BY <2>1 DEF Role, Relies
  <2>5. k = "monitor" /\ local[k].phase = "waiting" /\ local[k].job = "exit"
          => os'[local[k].proc] = "gone"
    BY <1>2, <2>4 DEF Alive
  <2>6. k \in Requests /\ local[k].phase = "sent" /\ local[k].proc = process
          => pipe = <<k>> /\ (state = "ready" \/ os'[process] = "gone")
    <3>1. k \in Requests /\ local[k].phase = "sent" => local[k].proc # None
      BY <2>1 DEF Role
    <3> QED BY <1>2, <2>1, <3>1 DEF Relies, Alive
  <2>7. Relies(k)'
    BY <1>1, <1>4, <2>1, <2>5, <2>6 DEF Relies, Alive, Holds
  <2> QED BY <2>2, <2>3, <2>7
<1>7. ASSUME NEW q \in Processes PROVE Lives(q)'
  BY <1>1, <1>2, <1>7 DEF IInv, Core, Lives, Children
<1>8. Owned'
  <2>1. \A k \in Tasks : Owns(k) => Owns(k)'
    BY <1>1 DEF Owns, Holds
  <2> QED BY <1>1, <1>4, <2>1 DEF IInv, Core, Owned
<1>9. Starts'
  BY <1>1 DEF IInv, Starts, Holds
<1>10. Restarts'
  <2>1. Booting' <=> Booting
    BY <1>1 DEF Booting
  <2>2. \A t \in Requests : /\ local'[t] = local[t]
                            /\ Before("restart", t, lifecycle)' <=> Before("restart", t, lifecycle)
                            /\ In(t, requests)' <=> In(t, requests)
                            /\ Handed(t)' <=> Handed(t)
    BY <1>1 DEF Before, In, Handed, Holds
  <2> QED BY <1>4, <2>1, <2>2 DEF IInv, Restarts
<1>11. Late'
  <2>1. Tardy' => Tardy
    BY <1>1, <1>4 DEF Tardy
  <2> QED BY <1>1, <2>1 DEF IInv, Late, Handed, Holds
<1> QED BY <1>5, <1>6, <1>7, <1>8, <1>9, <1>10, <1>11 DEF IInv, Core

\* A server that has nothing under way.
CalmServer ==
    /\ local = [k \in Tasks |-> Calm] /\ lifecycle = <<>> /\ requests = <<>> /\ pipe = <<>>
    /\ desired = FALSE /\ event = FALSE /\ process = None /\ pid = None
    /\ pidFile \in Processes \cup {None} /\ state = "stopped" /\ failures = 0
    /\ life = "starting" /\ os \in [Processes -> {"gone", "orphan", "unheard"}]
    /\ \A p \in Processes : (os[p] = "orphan" => pidFile = p) /\ (os[p] = "unheard" => pidFile # p)

LEMMA CalmServerHolds == CalmServer => IInv
<1> SUFFICES ASSUME CalmServer PROVE IInv
  OBVIOUS
<1> USE DEF CalmServer
<1>1. Queue(<<>>) /\ \A k : ~In(k, <<>>) /\ ~Holds(k, <<>>)
  <2>1. <<>> \in Seq(Tasks) /\ DOMAIN <<>> = {}
    OBVIOUS
  <2>2. IsInjective(<<>>) /\ ToSet(<<>>) = {}
    BY <2>1 DEF IsInjective, ToSet
  <2> QED BY <2>1, <2>2 DEF Queue, In, Holds
<1>2. Types
  <2>1. local \in [Tasks -> Local] /\ \A k \in Tasks : local[k] = Calm
    BY CalmHas
  <2>2. os \in [Processes -> Phases] /\ failures \in 0 .. MaxFailures
    BY WorkerAssumption DEF Phases
  <2>3. pipe \in Seq(Tasks)
    OBVIOUS
  <2> QED BY <1>1, <2>1, <2>2, <2>3 DEF Types
<1>3. ASSUME NEW k \in Tasks PROVE Role(k) /\ Placed(k) /\ Relies(k)
  <2>1. local[k] = Calm /\ local[k].phase = "none"
    BY DEF Calm
  <2>2. Role(k)
    BY <2>1, TaskIs DEF Role, Under
  <2>3. Placed(k)
    BY <1>1, <2>1, TaskIs DEF Placed, Under
  <2>4. Relies(k)
    BY <2>1, TaskIs DEF Relies
  <2> QED BY <2>2, <2>3, <2>4
<1>4. \A p \in Processes : Lives(p)
  BY WorkerAssumption DEF Lives, Children
<1>5. Owned
  BY DEF Owned
<1>6. /\ local["start"].phase = "none" /\ local["restart"].phase = "none"
      /\ local["monitor"].phase = "none"
  BY TaskIs DEF Calm
<1>7. Starts /\ Restarts /\ Late
  BY <1>6 DEF Starts, Restarts, Booting, Under, Late, Tardy
<1> QED BY <1>2, <1>3, <1>4, <1>5, <1>7 DEF IInv, Core

LEMMA InitHolds == Init => IInv
<1> SUFFICES ASSUME Init PROVE IInv
  OBVIOUS
<1>1. /\ os \in [Processes -> {"gone", "orphan", "unheard"}]
      /\ \A p \in Processes : (os[p] = "orphan" => pidFile = p) /\ (os[p] = "unheard" => pidFile # p)
  BY DEF Init
<1>2. CalmServer
  BY <1>1 DEF Init, CalmServer
<1> QED BY <1>2, CalmServerHolds

LEMMA CrashKeeps ==
    ASSUME IInv, Crash
    PROVE IInv'
<1>1. os' \in [Processes -> {"gone", "orphan", "unheard"}]
  <2>1. \A p \in Processes : os[p] \in Phases
    BY DEF IInv, Core, Types
  <2> QED BY <2>1 DEF Crash, Phases
<1>2. ASSUME NEW p \in Processes, os'[p] = "orphan" PROVE pidFile' = p
  <2>1. os[p] \in {"named", "serving", "orphan"}
    BY <1>2 DEF Crash, IInv, Core, Types, Phases
  <2>2. pidFile = p
    BY <2>1 DEF IInv, Core, Lives
  <2> QED BY <2>2 DEF Crash
<1>3. /\ local' = [k \in Tasks |-> Calm] /\ lifecycle' = <<>> /\ requests' = <<>>
      /\ pipe' = <<>> /\ desired' = FALSE /\ event' = FALSE /\ process' = None /\ pid' = None
      /\ pidFile' \in Processes \cup {None} /\ state' = "stopped" /\ failures' = 0
      /\ life' = "starting"
  BY DEF Crash, IInv, Core, Types
<1>5. ASSUME NEW p \in Processes, os'[p] = "unheard" PROVE pidFile' # p
  <2>1. os[p] \in {"silent", "unheard"}
    BY <1>5 DEF Crash, IInv, Core, Types, Phases
  <2>2. pidFile # p
    BY <2>1, WorkerAssumption DEF IInv, Core, Lives
  <2> QED BY <2>2 DEF Crash
<1>4. CalmServer'
  BY <1>1, <1>2, <1>3, <1>5 DEF CalmServer
<1> QED BY <1>4, CalmServerHolds, PTL

-----------------------------------------------------------------------------
(* The invariant *)

LEMMA StepKeeps == IInv /\ Begins /\ [Next]_vars => IInv'
<1> SUFFICES ASSUME IInv, Begins, [Next]_vars PROVE IInv'
  OBVIOUS
<1>1. ASSUME NEW k \in Tasks, TakeLock(k) PROVE IInv'
  <2>1. CASE Joined(k)
    BY <2>1, JoinedKeeps
  <2>2. CASE Entered(k)
    BY <2>2, EnteredKeeps
  <2>3. CASE Spawn(k)
    BY <2>3, SpawnKeeps
  <2>4. CASE Replace
    BY <2>4, ReplaceKeeps
  <2>5. CASE Restart
    BY <2>5, RestartKeeps
  <2>6. CASE Stop
    BY <2>6, StopKeeps
  <2>7. CASE k \in Requests /\ Send(k)
    BY <2>7, SendKeeps
  <2>8. CASE k \in Requests /\ Break(k)
    BY <2>8, BreakKeeps
  <2>9. CASE Look
    BY <2>9, LookKeeps
  <2> QED BY <1>1, <2>1, <2>2, <2>3, <2>4, <2>5, <2>6, <2>7, <2>8, <2>9 DEF TakeLock
<1>2. ASSUME ~HandedOver, Called PROVE IInv'
  <2>1. CASE StartAsked
    BY <2>1, StartAskedKeeps
  <2>2. CASE RestartAsked
    BY <1>2, <2>2, RestartAskedKeeps
  <2>3. CASE StopAsked
    BY <1>2, <2>3, StopAskedKeeps
  <2>4. CASE Close
    BY <1>2, <2>4, CloseKeeps
  <2>5. ASSUME NEW t \in Requests, Ask(t) PROVE IInv'
    BY <1>2, <2>5, AskKeeps
  <2>6. ASSUME NEW t \in Requests, Leave(t) PROVE IInv'
    BY <1>2, <2>6, LeaveKeeps
  <2> QED BY <1>2, <2>1, <2>2, <2>3, <2>4, <2>5, <2>6 DEF Called
<1>3. ASSUME ~HandedOver, NEW k \in Tasks, Run(k) PROVE IInv'
  <2>1. CASE Disposed(k)
    BY <2>1, DisposedKeeps
  <2>2. CASE DisposeFails(k)
    BY <2>2, DisposeFailsKeeps
  <2>3. CASE Reconciled(k)
    BY <2>3, ReconciledKeeps
  <2>4. CASE ReconcileFails(k)
    BY <2>4, ReconcileFailsKeeps
  <2>5. CASE Launch(k)
    BY <2>5, LaunchKeeps
  <2>6. CASE Named(k)
    BY <2>6, NamedKeeps
  <2>7. CASE Ready(k)
    BY <1>3, <2>7, ReadyKeeps
  <2>8. CASE StartupFails(k)
    BY <2>8, StartupFailsKeeps
  <2>10. CASE Exited
    BY <2>10, ExitedKeeps
  <2>11. CASE Wake
    BY <2>11, WakeKeeps
  <2>12. CASE Asked
    BY <2>12, AskedKeeps
  <2>13. CASE k \in Requests /\ Readied(k)
    BY <1>3, <2>13, ReadiedKeeps
  <2>14. CASE k \in Requests /\ Answered(k)
    BY <2>14, AnsweredKeeps
  <2>15. ASSUME k \in Requests, NEW job \in {"break", "shielded"}, Fails(k, job) PROVE IInv'
    BY <1>3, <2>15, FailsKeeps
  <2> QED BY <1>3, <2>1, <2>2, <2>3, <2>4, <2>5, <2>6, <2>7, <2>8, <2>10, <2>11,
             <2>12, <2>13, <2>14, <2>15 DEF Run
<1>4. ASSUME NEW p \in Processes, Exit(p) PROVE IInv'
  BY <1>4, ExitKeeps
<1>5. CASE Crash
  BY <1>5, CrashKeeps
<1>6. CASE UNCHANGED vars
  <2>1. UNCHANGED <<desired, process, pid, state, failures, event, local, lifecycle, requests,
                    pipe, os, pidFile, life>>
    BY <1>6 DEF vars, memory, locks, system, bounds
  <2> QED BY <2>1 DEF IInv, Core, Types, Role, Placed, Relies, Lives, Children, Owned, Owns,
          Live, Alive, Queue, In, Holds, Handed, Before, Starts, Booting, Restarts, Tardy, Late
<1> QED BY <1>1, <1>2, <1>3, <1>4, <1>5, <1>6 DEF Next

\* The monitor begins its loop only where a start ends.
LEMMA LoopBegins ==
    ASSUME IInv, NEW k \in Tasks, TakeLock(k) \/ Run(k),
           local["monitor"].phase # "looking", local'["monitor"].phase = "looking"
    PROVE (Spawn(k) /\ SpawnEnds(k)) \/ DisposeFails(k) \/ Disposed(k)
          \/ ReconcileFails(k) \/ Ready(k)
<1>1. local \in [Tasks -> Local] /\ "monitor" \in Tasks /\ Calm.phase = "none"
      /\ \A phase, job, p : At(phase, job, p).phase = phase
  BY TaskIs DEF IInv, Core, Types, Calm, At
<1>2. ASSUME NEW l, NEW j \in Tasks, l.phase # "looking", local' = Set(j, l) PROVE FALSE
  BY <1>1, <1>2 DEF Set
<1>3. ASSUME NEW phase, phase # "looking", local' = Set(k, [local[k] EXCEPT !.phase = phase])
      PROVE FALSE
  BY <1>1, <1>3 DEF Set, Local
<1>4. ASSUME NEW phase, NEW job, phase # "looking"
      PROVE [local[k] EXCEPT !.phase = phase, !.job = job].phase # "looking"
  BY <1>1, <1>4 DEF Local
<1>5. ASSUME NEW job, Disposes(k, job) PROVE FALSE
  BY <1>2, <1>4, <1>5 DEF Disposes
<1>6. ASSUME NEW p, local' = Set(k, [local[k] EXCEPT !.proc = p]) PROVE FALSE
  BY <1>1, <1>6 DEF Set, Local
<1>7. ASSUME NEW f, Account(f) PROVE FALSE
  BY <1>1, <1>2, <1>7 DEF Account
<1>8. ASSUME TakeLock(k), ~Spawn(k) PROVE FALSE
  <2>1. CASE Joined(k) \/ Entered(k)
    BY <1>1, <1>2, <2>1 DEF Joined, Entered, Waiting
  <2>2. CASE k = "monitor" /\ Look
    BY <1>1, <2>2 DEF Look, Looking
  <2>3. CASE k = "monitor" /\ Replace
    BY <1>5, <1>7, <2>3 DEF Replace
  <2>4. CASE k = "restart" /\ Restart
    BY <1>5, <2>4 DEF Restart
  <2>5. CASE k = "stop" /\ Stop
    BY <1>1, <1>2, <1>5, <2>5 DEF Stop
  <2>6. CASE k \in Requests /\ Send(k)
    <3>1. CASE local' = Set(k, [local[k] EXCEPT !.phase = "readying"])
      BY <1>3, <3>1
    <3>2. CASE local' = Set(k, Calm) \/ local' = Set(k, At("sent", "break", process))
      BY <1>1, <1>2, <3>2
    <3> QED BY <2>6, <3>1, <3>2 DEF Send, Writes, Refused
  <2>7. CASE k \in Requests /\ Break(k)
    BY <1>1, <1>2, <1>5, <2>7 DEF Break
  <2> QED BY <1>8, <2>1, <2>2, <2>3, <2>4, <2>5, <2>6, <2>7 DEF TakeLock
<1>9. ASSUME Run(k), ~DisposeFails(k), ~Disposed(k), ~ReconcileFails(k), ~Ready(k) PROVE FALSE
  <2>1. CASE Reconciled(k)
    BY <1>1, <1>2, <2>1 DEF Reconciled
  <2>2. CASE Launch(k)
    BY <1>6, <2>2 DEF Launch
  <2>3. CASE Named(k)
    BY <2>3 DEF Named
  <2>4. CASE StartupFails(k)
    BY <1>5, <2>4 DEF StartupFails
  <2>5. CASE k = "monitor" /\ Exited
    <3>1. CASE desired
      BY <1>3, <2>5, <3>1 DEF Exited
    <3>2. CASE ~desired
      BY <1>1, <1>2, <2>5, <3>2 DEF Exited
    <3> QED BY <3>1, <3>2
  <2>6. CASE k = "monitor" /\ Wake
    BY <1>1, <1>2, <2>6 DEF Wake, Waiting
  <2>7. CASE k = "stop" /\ Asked
    BY <1>5, <2>7 DEF Asked
  <2>8. CASE k \in Requests /\ Readied(k)
    BY <1>1, <1>2, <2>8 DEF Readied, Writes, Refused
  <2>9. CASE k \in Requests /\ Answered(k)
    BY <1>1, <1>2, <2>9 DEF Answered, Refused
  <2>10. ASSUME NEW job \in {"break", "shielded"}, Fails(k, job) PROVE FALSE
    BY <1>2, <1>4, <2>10 DEF Fails
  <2> QED BY <1>9, <2>1, <2>2, <2>3, <2>4, <2>5, <2>6, <2>7, <2>8, <2>9, <2>10 DEF Run
<1>10. ASSUME Spawn(k), ~SpawnEnds(k) PROVE FALSE
  BY <1>5, <1>10 DEF Spawn
<1> QED BY <1>8, <1>9, <1>10

LEMMA BeginsKeeps ==
    ASSUME IInv, IInv', Begins, [Next]_vars
    PROVE Begins'
<1> SUFFICES ASSUME local'["monitor"].phase = "looking", desired', process' # None,
                    os'[process'] = "silent"
             PROVE FALSE
  BY DEF Begins
<1>1. process' \in Processes /\ pid' = None /\ state' # "ready"
  BY DEF IInv, Core, Types, Lives
<1>2. local \in [Tasks -> Local] /\ "monitor" \in Tasks /\ Calm.phase = "none"
      /\ \A phase, job, p : At(phase, job, p).phase = phase
  BY TaskIs DEF IInv, Core, Types, Calm, At
<1>3. ASSUME UNCHANGED <<desired, process, os>> PROVE local["monitor"].phase # "looking"
  BY <1>3 DEF Begins
<1>4. CASE local["monitor"].phase = "looking"
  <2>1. local["monitor"] = Looking
    BY <1>2, <1>4 DEF IInv, Core, Role
  <2>2. PICK k \in Tasks : TakeLock(k)
    BY <1>3, <1>4, <2>1 DEF Next, HandedOver, vars, memory, system
  <2>3. UNCHANGED <<desired, process, os>>
    BY <2>2 DEF TakeLock, Joined, Entered, Spawn, Look, Replace, Restart, Stop, Send, Break,
                memory, system
  <2> QED BY <1>3, <1>4, <2>3
<1>5. CASE local["monitor"].phase # "looking"
  <2>1. local' # local
    BY <1>5
  <2>2. ASSUME NEW k \in Tasks, TakeLock(k) \/ Run(k) PROVE FALSE
    <3>1. (Spawn(k) /\ SpawnEnds(k)) \/ DisposeFails(k) \/ Disposed(k)
          \/ ReconcileFails(k) \/ Ready(k)
      BY <1>5, <2>2, LoopBegins
    <3>2. CASE Spawn(k) /\ SpawnEnds(k)
      <4>1. UNCHANGED <<desired, process, state, os>>
        BY <3>2 DEF Spawn, system
      <4>2. local' # Set(k, [local[k] EXCEPT !.phase = "disposing", !.job = "spawn"])
        BY <1>2, <1>5 DEF Set, Local
      <4> QED BY <1>1, <3>2, <4>1, <4>2 DEF Spawn, Disposes
    <3>3. CASE DisposeFails(k)
      BY <1>1, <3>3 DEF DisposeFails
    <3>4. CASE Disposed(k)
      BY <3>4 DEF Disposed
    <3>5. CASE ReconcileFails(k)
      BY <3>5 DEF ReconcileFails, IInv, Core, Relies
    <3>6. CASE Ready(k)
      BY <1>1, <3>6 DEF Ready, IInv, Core, Types
    <3> QED BY <3>1, <3>2, <3>3, <3>4, <3>5, <3>6
  <2>3. ASSUME NEW k, NEW l, l.phase # "looking", local' = Set(k, l) PROVE FALSE
    BY <1>2, <1>5, <2>3 DEF Set
  <2>4. ASSUME NEW k \in {"restart", "stop"}, MonitorCancelled(k) PROVE FALSE
    BY <1>2, <2>3, <2>4 DEF MonitorCancelled
  <2>5. CASE Called
    <3>1. CASE StartAsked
      BY <1>2, <2>3, <3>1 DEF StartAsked, Waiting
    <3>2. CASE RestartAsked
      BY <2>4, <3>2 DEF RestartAsked
    <3>3. CASE StopAsked
      BY <2>4, <3>3 DEF StopAsked
    <3>4. CASE Close
      <4>1. [local["start"] EXCEPT !.phase = "disposing", !.job = "cancelled"].phase # "looking"
        BY <1>2, TaskIs DEF Local
      <4>2. \E l : l.phase # "looking" /\ local' = Set("start", l)
        BY <1>2, <3>4, <4>1 DEF Close, Cancelled
      <4> QED BY <2>3, <4>2
    <3>5. ASSUME NEW t \in Requests, Ask(t) PROVE FALSE
      BY <1>2, <2>3, <3>5 DEF Ask
    <3>6. ASSUME NEW t \in Requests, Leave(t) PROVE FALSE
      BY <1>2, <2>1, <2>3, <3>6 DEF Leave, Refused
    <3> QED BY <2>5, <3>1, <3>2, <3>3, <3>4, <3>5, <3>6 DEF Called
  <2>6. CASE Crash
    BY <1>2, <2>6 DEF Crash
  <2>7. ASSUME NEW p \in Processes, Exit(p) PROVE FALSE
    BY <2>1, <2>7 DEF Exit
  <2> QED BY <2>1, <2>2, <2>5, <2>6, <2>7 DEF Next, vars
<1> QED BY <1>4, <1>5

\* What holds in every state of the supervisor.
THEOREM WorkerInvariance == Spec => []IInv
<1>1. Init => IInv /\ Begins
  BY InitHolds, TaskIs DEF Init, Begins, Calm
<1>2. IInv /\ Begins /\ [Next]_vars => IInv' /\ Begins'
  BY StepKeeps, BeginsKeeps
<1> QED BY <1>1, <1>2, PTL DEF Spec

LEMMA KnownIs == IInv => OneKnownWorker
<1> SUFFICES ASSUME IInv PROVE OneKnownWorker
  OBVIOUS
<1>1. TypeOK
  <2>1. /\ Types /\ \A k \in Tasks : local[k] \in Local /\ Placed(k)
        /\ \A k : In(k, lifecycle) \/ In(k, requests) => k \in Tasks
    BY TaskKnows, QueueIs DEF IInv, Core, Types
  <2>2. ASSUME NEW k \in Tasks, local[k] = Calm PROVE ~In(k, lifecycle) /\ ~In(k, requests)
    BY <2>1, <2>2 DEF Placed, Under, Calm
  <2>3. /\ ToSet(lifecycle) \subseteq {k \in Tasks : local[k] # Calm}
        /\ ToSet(requests) \subseteq {k \in Tasks : local[k] # Calm}
    BY <2>1, <2>2 DEF In
  <2>4. \A k \in Tasks : local[k].proc \in Processes \cup {None}
    BY <2>1 DEF Local
  <2> QED BY <2>1, <2>3, <2>4 DEF TypeOK, Types, Queue
<1>2. WorkerKnown
  BY DEF WorkerKnown, Children, IInv, Core, Lives
<1>3. StoppedIsStopped
  BY DEF StoppedIsStopped, Children, IInv, Core, Lives
<1>4. OneWorker
  <2>1. PICK S : S = Children \cup {p \in Processes : os[p] = "orphan"}
    OBVIOUS
  <2>2. ASSUME NEW p \in S, NEW q \in S PROVE p = q
    <3>1. /\ p \in Processes /\ q \in Processes /\ None \notin Processes
          /\ os[p] \in {"silent", "named", "serving", "orphan"}
          /\ os[q] \in {"silent", "named", "serving", "orphan"}
      BY <2>1, <2>2, WorkerAssumption DEF Children
    <3>2. Lives(p) /\ Lives(q)
      BY <3>1 DEF IInv, Core
    <3> QED BY <3>1, <3>2 DEF Lives
  <2>3. S = {} \/ \E p \in S : S = {p}
    BY <2>2
  <2>4. Cardinality(S) <= 1
    BY <2>3, FS_EmptySet, FS_Singleton
  <2> QED BY <2>1, <2>4 DEF OneWorker
<1> QED BY <1>1, <1>2, <1>3, <1>4 DEF OneKnownWorker

\* OneKnownWorker: one worker at most, across failures to end one, restarts and
\* crashes of the server; the supervisor and the pid file know it, and there is
\* none after a stop.
THEOREM OneKnownWorkerHolds == Spec => []OneKnownWorker
BY WorkerInvariance, KnownIs, PTL

LEMMA CleanIs == IInv => PipeClean
<1> SUFFICES ASSUME IInv PROVE PipeClean
  OBVIOUS
<1>1. ASSUME NEW t \in Requests, local[t].phase = "sent", process = local[t].proc
      PROVE pipe = <<t>>
  BY <1>1, TaskIs, TaskKnows DEF Relies
<1> QED BY <1>1 DEF PipeClean

\* PipeClean: a request reads its own answer, whichever request was given up,
\* cancelled or late before it.
THEOREM PipeCleanHolds == Spec => []PipeClean
BY WorkerInvariance, CleanIs, PTL
=============================================================================
