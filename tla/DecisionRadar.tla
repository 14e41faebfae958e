--------------------------- MODULE DecisionRadar ---------------------------
(***************************************************************************)
(* The Decision Radar of backend/app/decision_radar: final captions wait   *)
(* in a bounded queue, one worker sends them in batches, with the captions *)
(* before them, to the selected provider and merges what it suggests into  *)
(* the items of the session, which the user reviews meanwhile.             *)
(*                                                                         *)
(* A step goes from one suspension of a coroutine to the next.  Events to  *)
(* the browsers are left out with the suspension they may cause, except    *)
(* the one before the first attempt, and so are the file of the items and  *)
(* the status shown: nothing the manager does depends on either.           *)
(***************************************************************************)
EXTENDS Naturals, FiniteSets, SequencesExt

CONSTANTS
    Sessions, Segments,
    SessionOf,       \* the session of each segment
    Texts,           \* semantic keys: category and text, casefolded
    Providers,       \* selectable providers
    BatchSize, ContextWindow, BufferLimit, MaxQueued, MaxRetries, MaxHistory,
    MaxItems,        \* bound: items made
    MaxSwitches,     \* bound: calls of configure
    Nobody

ASSUME RadarAssumption ==
    /\ SessionOf \in [Segments -> Sessions]
    /\ {BatchSize, ContextWindow, BufferLimit, MaxQueued} \subseteq Nat \ {0}
    /\ BatchSize <= ContextWindow /\ ContextWindow <= BufferLimit
    /\ {MaxRetries, MaxHistory, MaxItems, MaxSwitches} \subseteq Nat
    /\ "none" \in Providers /\ Nobody \notin Providers

VARIABLES
    provider,    \* the name and the instance of the selected provider
    unclosed,    \* the instances that are not closed
    asked,       \* the provider a settings request under way asks for
    backlog,     \* _queue
    pending,     \* _pending
    buffered,    \* _segments: of each session, in order
    worker,      \* the task that runs _run
    state,       \* _states: items and tombstones of each session
    made,        \* the number of items made
    finals,      \* history: the segments submitted, in order
    astray,      \* history: whether one was buffered but not queued after the rest
    again,       \* history: whether one came again that the queue had forgotten
                 \* while it was in the batch that is gathered
    closed       \* _closed

selection == <<provider, unclosed, asked>>
feed == <<backlog, pending, buffered, finals, astray, again>>
kept == <<state, made>>
radarVars == <<selection, feed, kept, worker, closed>>

\* The items of a session are a function of their numbers, which follow the
\* order of the list; numbers stand for the identifiers too.
\* An assignee or a due date, and whose: one stands for both.
Details == {"none", "user", "model"}
Item == [text : Texts, detail : Details, evidence : SUBSET Segments,
         approved : BOOLEAN, edited : BOOLEAN, active : BOOLEAN]
Items == UNION {[numbers -> Item] : numbers \in SUBSET (1 .. MaxItems)}

\* A batch is under way: the place in it of the first segment of the group
\* that is being processed, and the request made of that group.
Local == [phase : {"waiting", "gathering", "due", "calling", "settling",
                   "dead", "stopped"},
          batch : Seq(Segments), at : 0 .. BatchSize,
          window : SUBSET Segments, focus : SUBSET Segments,
          retractable : SUBSET (1 .. MaxItems),
          instance : 0 .. MaxSwitches, attempt : 0 .. MaxRetries]
NoBatch == [phase |-> "waiting", batch |-> <<>>, at |-> 0,
            window |-> {}, focus |-> {}, retractable |-> {}, instance |-> 0,
            attempt |-> 0]

-----------------------------------------------------------------------------
(* submit_final *)

Without(k, order) ==
    LET places == {i \in DOMAIN order : order[i] = k}
    IN  IF places = {} THEN order ELSE RemoveAt(order, CHOOSE i \in places : TRUE)

\* The segment becomes the last of its session; the oldest one is evicted.
Buffered(k) ==
    LET order == Append(Without(k, buffered[SessionOf[k]]), k)
    IN  [buffered EXCEPT ![SessionOf[k]] = IF Len(order) > BufferLimit THEN Tail(order)
                                           ELSE order]

\* It waits already, or the queue is full.
Refused(k) == k \in pending \/ Len(backlog) >= MaxQueued

Submit(k) ==
    /\ ~closed /\ provider.name # "none"
    /\ buffered' = Buffered(k)
    /\ finals' = Append(Without(k, finals), k)
    /\ again' = (again \/ (worker.phase = "gathering"
                              /\ k \in ToSet(worker.batch) \ pending))
    /\ astray' = (astray \/ Refused(k) \/ k \in ToSet(worker.batch))
    /\ IF Refused(k) THEN UNCHANGED <<backlog, pending>>
       ELSE /\ backlog' = Append(backlog, k)
            /\ pending' = pending \cup {k}
    /\ UNCHANGED <<selection, worker, kept, closed>>

-----------------------------------------------------------------------------
(* _run: the batch *)

TakeFirst ==
    /\ worker.phase = "waiting" /\ backlog # <<>>
    /\ worker' = [worker EXCEPT !.phase = "gathering", !.batch = <<Head(backlog)>>]
    /\ backlog' = Tail(backlog)
    /\ UNCHANGED <<selection, pending, buffered, finals, astray, again, kept, closed>>

TakeMore ==
    /\ worker.phase = "gathering" /\ backlog # <<>>
    /\ Len(worker.batch) < BatchSize
    /\ worker' = [worker EXCEPT !.batch = Append(@, Head(backlog))]
    /\ backlog' = Tail(backlog)
    /\ UNCHANGED <<selection, pending, buffered, finals, astray, again, kept, closed>>

\* The groups of a batch, one of each session, are known by the place of their
\* first segment.
Firsts(batch) ==
    {i \in DOMAIN batch :
        \A j \in 1 .. i - 1 : SessionOf[batch[j]] # SessionOf[batch[i]]}
Group(batch, i) == {k \in ToSet(batch) : SessionOf[k] = SessionOf[batch[i]]}

Place(k) == CHOOSE i \in DOMAIN buffered[SessionOf[k]] :
                buffered[SessionOf[k]][i] = k

\* What is still buffered of a group, and the context of s that ends with it.
Focus(group) == {k \in group : k \in ToSet(buffered[SessionOf[k]])}
Window(group, s) ==
    LET last == CHOOSE i \in {Place(k) : k \in Focus(group)} :
                    \A k \in Focus(group) : Place(k) <= i
        first == IF last > ContextWindow THEN last - ContextWindow + 1 ELSE 1
    IN  {buffered[s][i] : i \in first .. last}

\* _process_batch returns at once for a group it cannot analyze.
Skipped(group) == provider.name = "none" \/ Focus(group) = {}

Retractable(s) ==
    {i \in DOMAIN state[s].items :
        /\ state[s].items[i].active
        /\ ~state[s].items[i].approved /\ ~state[s].items[i].edited}

\* The worker enters the next group it does not skip.  RadarRequest refuses
\* a focus outside of the window: nothing catches its error and _run ends.
Entered(batch, done) ==
    LET entered == {i \in Firsts(batch) : i > done /\ ~Skipped(Group(batch, i))}
        first == CHOOSE i \in entered : \A j \in entered : i <= j
        group == Group(batch, first)
        s == SessionOf[batch[first]]
    IN  IF entered = {} THEN NoBatch
        ELSE IF ~(Focus(group) \subseteq Window(group, s))
             THEN [NoBatch EXCEPT !.phase = "dead"]
        ELSE [NoBatch EXCEPT
                 !.phase = "due", !.batch = batch, !.at = first,
                 !.window = Window(group, s),
                 !.focus = Focus(group),
                 !.retractable = Retractable(s),
                 !.instance = provider.instance]

\* The batch is full, or its time is over.
CloseBatch ==
    /\ worker.phase = "gathering"
    /\ pending' = pending \ ToSet(worker.batch)
    /\ worker' = Entered(worker.batch, 0)
    /\ UNCHANGED <<selection, backlog, buffered, finals, astray, again, kept, closed>>

-----------------------------------------------------------------------------
(* _process_batch: the call *)

Session == SessionOf[worker.batch[worker.at]]

\* The error is final, or another attempt is due after the backoff.
Failed ==
    /\ \/ /\ worker.attempt < MaxRetries
          /\ worker' = [worker EXCEPT !.phase = "due", !.attempt = @ + 1]
       \/ worker' = [worker EXCEPT !.phase = "settling"]
    /\ UNCHANGED <<selection, feed, kept, closed>>

\* An instance that is closed has no client (_ensure_client).
Send ==
    /\ worker.phase = "due" /\ worker.instance \in unclosed
    /\ worker' = [worker EXCEPT !.phase = "calling"]
    /\ UNCHANGED <<selection, feed, kept, closed>>

Refuse ==
    /\ worker.phase = "due" /\ worker.instance \notin unclosed
    /\ Failed

\* A timeout, an error of the service, or an answer that is refused.
Fail == worker.phase = "calling" /\ Failed

UnverifiedEvidence(evidence) == evidence  \* mutant: the model is believed

\* _result_from_payload: the evidence of a suggestion that the request sent.
ValidEvidence(evidence) == evidence \cap worker.window
Sanitized(suggestions) ==
    {x \in {[y EXCEPT !.evidence = ValidEvidence(@)] : y \in suggestions} :
        x.evidence \cap worker.focus # {}}

-----------------------------------------------------------------------------
(* _merge_result *)

RetractedStale(items, ids) ==  \* mutant: only the request is looked at
    [i \in DOMAIN items |->
        IF i \in ids THEN [items[i] EXCEPT !.active = FALSE] ELSE items[i]]

\* Suggestions a later answer takes back, unless the user has reviewed them
\* while the call was under way.
Retracted(items, ids) ==
    [i \in DOMAIN items |->
        IF i \in ids /\ items[i].active /\ ~items[i].approved /\ ~items[i].edited
        THEN [items[i] EXCEPT !.active = FALSE] ELSE items[i]]

\* by_key keeps the last of the active items with a text.
Known(items, text) ==
    {i \in DOMAIN items : items[i].active /\ items[i].text = text}

\* It cites more, and then gives what detail the item has not.
Supplemented(item, suggestion) ==
    IF suggestion.evidence \subseteq item.evidence THEN item
    ELSE [item EXCEPT !.evidence = @ \cup suggestion.evidence,
                      !.detail = IF @ = "none" THEN suggestion.detail ELSE @]

Proposed(items, suggestion) ==
    LET known == Known(items, suggestion.text)
        last == CHOOSE i \in known : \A j \in known : j <= i
    IN  IF known # {}
        THEN [items EXCEPT ![last] = Supplemented(@, suggestion)]
        ELSE [i \in DOMAIN items \cup {made + 1} |->
                  IF i = made + 1
                  THEN [text |-> suggestion.text, detail |-> suggestion.detail,
                        evidence |-> suggestion.evidence,
                        approved |-> FALSE, edited |-> FALSE, active |-> TRUE]
                  ELSE items[i]]

\* The oldest items that are no longer active go when there are too many.
Trimmed(items) ==
    LET past == {i \in DOMAIN items : ~items[i].active}
        stays == {i \in DOMAIN items :
                     i \in past => Cardinality({j \in past : j > i}) < MaxHistory}
    IN  [i \in stays |-> items[i]]

Merged(s, accepted, retracted) ==
    LET items == Retracted(state[s].items, retracted)
        proposed == {x \in accepted : x.text \notin state[s].tombstones}
    IN  IF proposed = {} THEN items
        ELSE Proposed(items, CHOOSE x \in proposed : TRUE)

\* A successful call, with at most one suggestion.
Answer(suggestions, retracted) ==
    LET s == Session
        merged == Merged(s, Sanitized(suggestions), retracted)
    IN  /\ worker.phase = "calling"
        /\ retracted \subseteq worker.retractable
        /\ suggestions # {} => Sanitized(suggestions) # {} \/ retracted # {}
        /\ made < MaxItems \/ made + 1 \notin DOMAIN merged
        /\ made' = IF made + 1 \in DOMAIN merged THEN made + 1 ELSE made
        /\ state' = [state EXCEPT ![s].items = Trimmed(merged)]
        /\ worker' = [worker EXCEPT !.phase = "settling"]
        /\ UNCHANGED <<selection, feed, closed>>

\* The answer is written, or the error shown.
Settle ==
    /\ worker.phase = "settling"
    /\ worker' = Entered(worker.batch, worker.at)
    /\ UNCHANGED <<selection, feed, kept, closed>>

-----------------------------------------------------------------------------
(* update_item and delete_item *)

Change(s, changed) ==
    /\ ~closed
    /\ state' = [state EXCEPT ![s] = changed]
    /\ UNCHANGED <<selection, feed, made, worker, closed>>

\* Approves an item, or takes its approval back.
Approve(s, i) ==
    \E approved \in BOOLEAN :
        Change(s, [state[s] EXCEPT !.items[i].approved = approved])

\* Edits the text, the assignee or the due date, or empties one of these.
Edit(s, i) ==
    \E text \in Texts, detail \in {state[s].items[i].detail, "user", "none"} :
        Change(s, [state[s] EXCEPT !.items[i] =
                       [@ EXCEPT !.text = text, !.detail = detail, !.edited = TRUE]])

Delete(s, i) ==
    Change(s, [items |-> Restrict(state[s].items, DOMAIN state[s].items \ {i}),
               tombstones |-> state[s].tombstones
                                  \cup {state[s].items[i].text}])

Review(s, i) == Approve(s, i) \/ Edit(s, i) \/ Delete(s, i)

-----------------------------------------------------------------------------
(* configure and shutdown *)

CloseOnly(previous) == unclosed  \* mutant: the previous provider stays open
CloseProvider(previous) == unclosed \ {previous}

DrainedQueue(p) ==  \* mutant: _pending is not cleared
    IF p = "none" THEN backlog' = <<>> /\ astray' = TRUE /\ UNCHANGED pending
                  ELSE UNCHANGED <<backlog, pending, astray>>
Drained(p) ==
    IF p = "none" THEN backlog' = <<>> /\ pending' = {} /\ astray' = TRUE
                  ELSE UNCHANGED <<backlog, pending, astray>>

\* The settings request is refused while a batch is processed; if not, it asks
\* two candidates whether they are available before the swap.
Processing == worker.phase \in {"due", "calling", "settling"}

Ask(p) ==
    /\ ~closed /\ asked = Nobody
    /\ provider.name # p /\ ~Processing
    /\ provider.instance < MaxSwitches
    /\ asked' = p
    /\ UNCHANGED <<provider, unclosed, feed, kept, worker, closed>>

Unavailable ==
    /\ asked # Nobody
    /\ asked' = Nobody
    /\ UNCHANGED <<provider, unclosed, feed, kept, worker, closed>>

\* Nothing suspends between the swap and the close of the previous provider.
Configure ==
    /\ ~closed /\ asked # Nobody
    /\ asked' = Nobody
    /\ provider' = [name |-> asked, instance |-> provider.instance + 1]
    /\ unclosed' = CloseProvider(provider.instance) \cup {provider'.instance}
    /\ Drained(asked)
    /\ UNCHANGED <<buffered, finals, again, kept, worker, closed>>

\* The worker is cancelled and awaited.
Shutdown ==
    /\ ~closed
    /\ closed' = TRUE
    /\ worker' = IF worker.phase = "dead" THEN worker
                 ELSE [NoBatch EXCEPT !.phase = "stopped"]
    /\ unclosed' = CloseProvider(provider.instance)
    /\ asked' = Nobody
    /\ UNCHANGED <<provider, feed, kept>>

RadarInit ==
    /\ \E p \in Providers : provider = [name |-> p, instance |-> 0]
    /\ unclosed = {0} /\ asked = Nobody
    /\ backlog = <<>> /\ pending = {} /\ finals = <<>> /\ astray = FALSE /\ again = FALSE
    /\ buffered = [s \in Sessions |-> <<>>]
    /\ worker = NoBatch
    /\ state = [s \in Sessions |-> [items |-> <<>>, tombstones |-> {}]]
    /\ made = 0
    /\ closed = FALSE

-----------------------------------------------------------------------------
Run == \/ TakeFirst
       \/ TakeMore
       \/ CloseBatch
       \/ Send
       \/ Refuse
       \/ Fail
       \/ Settle

Suggestion == [text : Texts, detail : {"none", "model"}, evidence : SUBSET Segments]
Suggestions == {{}} \cup {{x} : x \in {y \in Suggestion : y.evidence # {}}}

RadarNext ==
    \/ \E k \in Segments : Submit(k)
    \/ Run
    \/ \E suggestions \in Suggestions, ids \in SUBSET worker.retractable :
           Answer(suggestions, ids)
    \/ \E s \in Sessions : \E i \in DOMAIN state[s].items : Review(s, i)
    \/ \E p \in Providers : Ask(p)
    \/ Unavailable
    \/ Configure
    \/ Shutdown

RadarSpec == RadarInit /\ [][RadarNext]_radarVars

-----------------------------------------------------------------------------
(* Properties *)

\* The types of the state of the manager; the buffers keep to their limits.
RadarTypeOK ==
    /\ provider \in [name : Providers, instance : 0 .. MaxSwitches]
    /\ unclosed \subseteq 0 .. MaxSwitches /\ asked \in Providers \cup {Nobody}
    /\ backlog \in Seq(Segments) /\ Len(backlog) <= MaxQueued
    /\ pending \subseteq Segments /\ finals \in Seq(Segments)
    /\ worker \in Local /\ Len(worker.batch) <= BatchSize
    /\ buffered \in [Sessions -> Seq(Segments)]
    /\ state \in [Sessions -> [items : Items, tombstones : SUBSET Texts]]
    /\ \A s \in Sessions :
           /\ ToSet(buffered[s]) \subseteq {k \in ToSet(finals) : SessionOf[k] = s}
           /\ Len(buffered[s]) <= BufferLimit
           /\ DOMAIN state[s].items \subseteq 1 .. made
    /\ made \in 0 .. MaxItems
    /\ astray \in BOOLEAN /\ again \in BOOLEAN /\ closed \in BOOLEAN

\* Every item cites captions of its own session that are final, whatever a
\* model answers and however late the answer is (README_KO.md:426).
EvidenceIsFinal ==
    \A s \in Sessions : \A i \in DOMAIN state[s].items :
        /\ state[s].items[i].evidence # {}
        /\ state[s].items[i].evidence \subseteq
               {k \in ToSet(finals) : SessionOf[k] = s}

\* A segment the queue remembers is one the worker will look at, and will not
\* look at twice: no segment is refused for ever because it seems to wait
\* (_pending).
PendingIsQueued ==
    LET gathered == IF worker.phase = "gathering" THEN ToSet(worker.batch) ELSE {}
    IN  /\ ~closed => pending \subseteq ToSet(backlog) \cup gathered
        /\ ToSet(backlog) \subseteq pending
        /\ IsInjective(backlog)
        /\ ToSet(backlog) \cap gathered = {}

\* y is x, but that it may cite more evidence, and with it have an assignee or
\* a due date where x has none.
Extends(y, x) ==
    /\ y = [x EXCEPT !.evidence = y.evidence, !.detail = y.detail]
    /\ x.evidence \subseteq y.evidence
    /\ x.detail # "none" \/ x.evidence = y.evidence => y.detail = x.detail

\* What the user approved or edited is the user's: no answer, of whatever age,
\* retracts or trims it, or changes its text, its review, or an assignee or a
\* due date it has (docs/decision_radar_report.md:72).
ReviewedIsKept ==
    [][\A s \in Sessions : \A i \in DOMAIN state[s].items :
           LET x == state[s].items[i]
               y == state'[s].items[i]
           IN  x.active /\ (x.approved \/ x.edited) /\ ~Review(s, i) =>
                   i \in DOMAIN state'[s].items /\ Extends(y, x)]_radarVars

\* A suggestion the user deleted does not come back: an item with its text can
\* only be one that was there (docs/decision_radar_report.md:67).
DeletedStaysDeleted ==
    [][\A s \in Sessions : \A i \in DOMAIN state'[s].items :
           state'[s].items[i].text \in state[s].tombstones =>
               i \in DOMAIN state[s].items]_radarVars

\* Captions go to a service only while it is the selected one: a batch begun
\* before a switch is never sent after it, nor sent again
\* (README_KO.md:452).
OnlySelectedReceives ==
    [][worker'.phase = "calling" /\ worker.phase # "calling" =>
           worker.instance = provider.instance /\ provider.name # "none"]_radarVars

\* The worker survives whatever a provider does, and every batch it can take:
\* it ends only after a caption was buffered while it was in a batch or without
\* being queued, or after a switch to none, so that a batch may exceed its window
\* (_run, which nothing starts again).
SurvivesProviders == worker.phase = "dead" => astray

\* The worker and its queue outlive what is done to them: it is alive, and looks
\* once at every segment that is remembered, unless one came again that a switch
\* to none had made the queue forget while it was in the batch that is gathered.
WorkerGoesOn ==
    /\ RadarTypeOK
    /\ SurvivesProviders
    /\ ~again => PendingIsQueued

\* What the user decided about an item stands.
DecisionsStand == ReviewedIsKept /\ DeletedStaysDeleted

-----------------------------------------------------------------------------
(* The inductive invariant *)

Line(q) == q \in Seq(Segments) /\ IsInjective(q)
Precedes(x, y, q) == \E n, m \in DOMAIN q : n < m /\ q[n] = x /\ q[m] = y

\* An instance that was replaced is closed, and a batch is of the selected
\* provider or of one that was.
Selected ==
    /\ unclosed \subseteq {provider.instance}
    /\ asked # Nobody => provider.instance < MaxSwitches
    /\ Processing => /\ worker.instance <= provider.instance
                     /\ worker.instance = provider.instance => provider.name # "none"

\* A request cites finals of the session of its group.
Sound ==
    Processing =>
        /\ worker.at \in DOMAIN worker.batch
        /\ worker.window \subseteq {k \in ToSet(finals) : SessionOf[k] = Session}

\* Each buffer has the last finals of its session, in their order.
Recent ==
    /\ Line(finals)
    /\ ToSet(backlog) \cup ToSet(worker.batch) \subseteq ToSet(finals)
    /\ \A s \in Sessions :
        /\ Line(buffered[s])
        /\ \A x, y \in Segments : Precedes(x, y, buffered[s]) => Precedes(x, y, finals)
        /\ \A x \in ToSet(buffered[s]), y \in Segments :
               Precedes(x, y, finals) /\ SessionOf[y] = s => y \in ToSet(buffered[s])

\* As long as every final is queued when it is buffered, the queue has the last
\* ones, the batch that is gathered those before them, and a batch under way is
\* what once was.
Convex(S) ==
    \A x, z \in S, y \in Segments :
        Precedes(x, y, finals) /\ Precedes(y, z, finals) => y \in S
Latest(S) == \A x \in S, y \in Segments : Precedes(x, y, finals) => y \in S
Straight ==
    LET batch == ToSet(worker.batch)
        waiting == ToSet(backlog)
    IN  /\ Latest(waiting)
        /\ \A x, y \in Segments : Precedes(x, y, backlog) => Precedes(x, y, finals)
        /\ worker.phase = "gathering" =>
               /\ Latest(batch \cup waiting)
               /\ \A x \in batch, y \in waiting : Precedes(x, y, finals)
        /\ Processing => Convex(batch)

RadarInv ==
    /\ RadarTypeOK
    /\ Selected /\ Sound /\ Recent
    /\ EvidenceIsFinal
    /\ ~again => PendingIsQueued
    /\ ~astray => Straight /\ ~again /\ worker.phase # "dead"
=============================================================================
