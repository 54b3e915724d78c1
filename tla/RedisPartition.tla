-------------------------- MODULE RedisPartition --------------------------
(***************************************************************************)
(* One partition stream of RedisStreamsEventBus with the subscription that *)
(* owns it (packages/bus/src/redis-streams.ts).  Stream ids grow in the    *)
(* order of XADD, so an entry is its position in the stream.               *)
(*                                                                         *)
(* Every Redis command is one step, and its reply may be lost after it     *)
(* took effect (a command timeout, a broken connection).  Redis keeps the  *)
(* group's cursor and the pending list with its idle times and delivery    *)
(* counts; the retry state of a message lives in the process and dies with *)
(* it.  Time is counted in ticks: an idle time stops at ClaimIdle, a wait  *)
(* runs down to zero.                                                      *)
(*                                                                         *)
(* The handler is the caller's: it acknowledges (or rejects for good), it  *)
(* defers, or it fails; when it fails with the retry budget used up it     *)
(* records the event in the dead letter queue and lets it go, as           *)
(* handleEnrichedEvent and the enrich handler do.                          *)
(***************************************************************************)
EXTENDS Naturals, FiniteSets

CONSTANTS
    MaxEvents,   \* bound: entries published
    Broken,      \* entries whose payload does not parse
    BatchSize,   \* SubscribeOptions.batchSize
    ClaimIdle,   \* SubscribeOptions.claimIdleMs, in ticks
    MaxRetries,  \* MAX_RETRIES
    MaxBackoff,  \* longest back-off, in ticks
    MaxDefer,    \* longest deferral, in ticks
    MaxDefers,   \* bound: deferrals
    MaxFaults    \* bound: lost commands, process deaths, failed dead-letter writes

Ids == 1..MaxEvents

ASSUME PartitionAssumption ==
    /\ MaxEvents \in Nat /\ Broken \subseteq Ids
    /\ BatchSize \in Nat \ {0} /\ ClaimIdle \in Nat \ {0} /\ MaxRetries \in Nat
    /\ MaxBackoff \in Nat \ {0} /\ MaxDefer \in Nat \ {0}
    /\ MaxDefers \in Nat /\ MaxFaults \in Nat

VARIABLES
    published,  \* entries in the stream
    lastRead,   \* the group's last-delivered id
    pending,    \* the group's pending entries list
    idle,       \* a pending entry's ticks since its last delivery, up to ClaimIdle
    count,      \* a pending entry's delivery count
    pc,         \* control point of the subscription
    todo,       \* entries of the batch at hand, served in id order
    known,      \* messages #attempts has a record of
    retries,    \* AttemptState.retries
    wait,       \* ticks until AttemptState.nextAttemptAt
    settled,    \* history: entries the handler acknowledged or rejected
    failed,     \* history: failures of the handler on an entry
    defers,     \* deferrals so far
    faults      \* faults so far

stream   == <<published, lastRead, pending, idle, count>>
attempts == <<known, retries, wait>>
history  == <<settled, failed>>
budgets  == <<defers, faults>>
vars == <<stream, pc, todo, attempts, history, budgets>>

Points == {"off", "poll", "claim", "deliver", "call", "ack"}

\* Every variable keeps its type, and the cursor of the group stays inside the
\* stream (redis-streams.ts, RedisSubscription).
TypeOK ==
    /\ published \in 0..MaxEvents /\ lastRead \in 0..published
    /\ pending \subseteq Ids
    /\ idle \in [Ids -> 0..ClaimIdle] /\ count \in [Ids -> Nat]
    /\ pc \in Points /\ todo \subseteq Ids
    /\ known \subseteq Ids /\ retries \in [Ids -> Nat] /\ wait \in [Ids -> Nat]
    /\ settled \subseteq Ids /\ failed \in [Ids -> Nat]
    /\ defers \in 0..MaxDefers /\ faults \in 0..MaxFaults

Init ==
    /\ published = 0 /\ lastRead = 0 /\ pending = {}
    /\ idle = [e \in Ids |-> 0] /\ count = [e \in Ids |-> 0]
    /\ pc = "off" /\ todo = {}
    /\ known = {} /\ retries = [e \in Ids |-> 0] /\ wait = [e \in Ids |-> 0]
    /\ settled = {} /\ failed = [e \in Ids |-> 0]
    /\ defers = 0 /\ faults = 0

----------------------------------------------------------------------------
(* The stream and the clock.                                               *)

\* XADD.
Publish ==
    /\ published < MaxEvents
    /\ published' = published + 1
    /\ UNCHANGED <<lastRead, pending, idle, count, pc, todo, attempts, history, budgets>>

Tick ==
    /\ \/ \E e \in pending : idle[e] < ClaimIdle
       \/ \E e \in Ids : wait[e] > 0
    /\ idle' = [e \in Ids |-> IF e \in pending /\ idle[e] < ClaimIdle
                              THEN idle[e] + 1 ELSE idle[e]]
    /\ wait' = [e \in Ids |-> IF wait[e] > 0 THEN wait[e] - 1 ELSE 0]
    /\ UNCHANGED <<published, lastRead, pending, count, pc, todo, known, retries,
                   history, budgets>>

----------------------------------------------------------------------------
(* The loop of the subscription.                                           *)

First(S) == CHOOSE e \in S : \A d \in S : e <= d

\* The first BatchSize entries of S in id order.
Lowest(S) == {e \in S : Cardinality({d \in S : d < e}) < BatchSize}

After(batch) == IF batch = {} THEN "poll" ELSE "deliver"

\* The loop catches whatever a Redis command throws, and starts over.
Lost ==
    /\ faults < MaxFaults /\ faults' = faults + 1
    /\ pc' = "poll" /\ todo' = {}

\* The command is answered, and leaves `batch' to go through.
Reply(batch) == todo' = batch /\ pc' = After(batch) /\ UNCHANGED faults

Subscribe ==
    /\ pc = "off" /\ pc' = "poll"
    /\ UNCHANGED <<stream, todo, attempts, history, budgets>>

\* The process dies, or closes the subscription; #attempts goes with it.
Crash ==
    /\ pc # "off" /\ faults < MaxFaults
    /\ faults' = faults + 1
    /\ pc' = "off" /\ todo' = {}
    /\ known' = {} /\ retries' = [e \in Ids |-> 0] /\ wait' = [e \in Ids |-> 0]
    /\ UNCHANGED <<stream, history, defers>>

FreshEnd == IF lastRead + BatchSize <= published THEN lastRead + BatchSize ELSE published

\* #readFresh: XREADGROUP ... '>', only where #retryPending found nothing pending.
ReadFresh ==
    /\ pc = "poll" /\ pending = {} /\ lastRead < published
    /\ LET fresh == (lastRead + 1)..FreshEnd IN
       /\ lastRead' = FreshEnd
       /\ pending' = pending \cup fresh
       /\ idle' = [e \in Ids |-> IF e \in fresh THEN 0 ELSE idle[e]]
       /\ count' = [e \in Ids |-> IF e \in fresh THEN 1 ELSE count[e]]
       /\ Reply(fresh) \/ Lost
    /\ UNCHANGED <<published, attempts, history, defers>>

\* Mutant of Stale: only what this process has a record of is looked for.
StaleKnown(S) == {e \in S \cap pending \cap known : idle[e] >= ClaimIdle}

Stale(S) == {e \in S \cap pending : idle[e] >= ClaimIdle}

\* Mutant of Scan: an unseen message starts with a fresh budget.
ScanForgets ==
    /\ pc = "poll" /\ Stale(pending) # {}
    /\ todo' = Lowest(Stale(pending))
    /\ known' = known \cup Lowest(Stale(pending))
    /\ pc' = "claim"
    /\ UNCHANGED <<stream, retries, wait, history, budgets>>

\* #retryPending, XPENDING ... IDLE: a message this subscription sees for the
\* first time starts with Redis' delivery count as its retries.
Scan ==
    /\ pc = "poll" /\ Stale(pending) # {}
    /\ LET ids == Lowest(Stale(pending)) IN
       /\ todo' = ids
       /\ known' = known \cup ids
       /\ retries' = [e \in Ids |-> IF e \in ids \ known THEN count[e] ELSE retries[e]]
    /\ pc' = "claim"
    /\ UNCHANGED <<stream, wait, history, budgets>>

\* #retryPending, XCLAIM with the same idle time as its lower limit.
Claim ==
    /\ pc = "claim"
    /\ LET claimed == Stale(todo) IN
       /\ idle' = [e \in Ids |-> IF e \in claimed THEN 0 ELSE idle[e]]
       /\ count' = [e \in Ids |-> IF e \in claimed THEN count[e] + 1 ELSE count[e]]
       /\ Reply(claimed) \/ Lost
    /\ UNCHANGED <<published, lastRead, pending, attempts, history, defers>>

\* XCLAIM or XACK throws and did nothing.
CommandFails ==
    /\ pc \in {"claim", "ack"}
    /\ Lost
    /\ UNCHANGED <<stream, attempts, history, defers>>

----------------------------------------------------------------------------
(* #deliver                                                                *)

\* The message left unacknowledged stops the partition for this round.
Leave == pc' = "poll" /\ todo' = {}

\* Mutant of NotYet: the loop goes on with the next message.
SkipWaiting ==
    /\ pc = "deliver" /\ wait[First(todo)] > 0
    /\ todo' = todo \ {First(todo)} /\ pc' = After(todo \ {First(todo)})
    /\ UNCHANGED <<stream, attempts, history, budgets>>

\* Before nextAttemptAt the handler is not called.
NotYet ==
    /\ pc = "deliver" /\ wait[First(todo)] > 0
    /\ Leave
    /\ UNCHANGED <<stream, attempts, history, budgets>>

\* The handler is called; a payload that does not parse is acknowledged unseen.
Deliver ==
    /\ pc = "deliver" /\ wait[First(todo)] = 0
    /\ pc' = IF First(todo) \in Broken THEN "ack" ELSE "call"
    /\ UNCHANGED <<stream, todo, attempts, history, budgets>>

\* `ack', or `dead_letter' for an event that can never pass.
HandlerAcks ==
    /\ pc = "call" /\ pc' = "ack"
    /\ settled' = settled \cup {First(todo)}
    /\ UNCHANGED <<stream, todo, attempts, failed, budgets>>

\* `dead_letter' when retriesUsed, delivery_count - 1, has reached MAX_RETRIES.
HandlerGivesUp ==
    /\ pc = "call" /\ retries[First(todo)] >= MaxRetries
    /\ pc' = "ack"
    /\ settled' = settled \cup {First(todo)}
    /\ UNCHANGED <<stream, todo, attempts, failed, budgets>>

\* Mutant of HandlerFails: a throw is taken for no answer, which is an `ack'.
ThrowIsAck ==
    /\ pc = "call" /\ pc' = "ack"
    /\ failed' = [failed EXCEPT ![First(todo)] = failed[First(todo)] + 1]
    /\ UNCHANGED <<stream, todo, attempts, settled, budgets>>

\* `retry', or a throw; with the budget used up only a failing dead-letter
\* write makes the handler throw.
HandlerFails ==
    /\ pc = "call"
    /\ LET e == First(todo) IN
       /\ IF retries[e] < MaxRetries THEN UNCHANGED faults
          ELSE faults < MaxFaults /\ faults' = faults + 1
       /\ known' = known \cup {e}
       /\ retries' = [retries EXCEPT ![e] = retries[e] + 1]
       /\ \E delay \in 1..MaxBackoff : wait' = [wait EXCEPT ![e] = delay]
       /\ failed' = [failed EXCEPT ![e] = failed[e] + 1]
    /\ Leave
    /\ UNCHANGED <<stream, settled, defers>>

\* `defer': the next attempt moves, the retries stay.
HandlerDefers ==
    /\ pc = "call" /\ defers < MaxDefers
    /\ defers' = defers + 1
    /\ known' = known \cup {First(todo)}
    /\ \E delay \in 1..MaxDefer : wait' = [wait EXCEPT ![First(todo)] = delay]
    /\ Leave
    /\ UNCHANGED <<stream, retries, history, faults>>

\* XACK drops the entry from the pending list; only its answer lets the subscription forget the message.
Ack ==
    /\ pc = "ack"
    /\ LET e == First(todo) IN
       /\ pending' = pending \ {e}
       /\ idle' = [idle EXCEPT ![e] = 0]
       /\ count' = [count EXCEPT ![e] = 0]
       /\ \/ /\ Reply(todo \ {e})
             /\ known' = known \ {e}
             /\ retries' = [retries EXCEPT ![e] = 0]
             /\ wait' = [wait EXCEPT ![e] = 0]
          \/ Lost /\ UNCHANGED attempts
    /\ UNCHANGED <<published, lastRead, history, defers>>

Loop == ReadFresh \/ Scan \/ Claim \/ NotYet \/ Deliver \/ Ack
Handler == HandlerAcks \/ HandlerGivesUp \/ HandlerFails \/ HandlerDefers

Next == Publish \/ Tick \/ Subscribe \/ Crash \/ CommandFails \/ Loop \/ Handler

Spec == Init /\ [][Next]_vars

----------------------------------------------------------------------------
(* Properties                                                              *)

Acked == (1..lastRead) \ pending

\* The order of a partition (the second rule in redis-streams.ts' header): the
\* handler holds an event only when every earlier one is acknowledged, however
\* calls fail, wait, get lost or move to a restarted process.
CalledInOrder == pc = "call" => 1..(First(todo) - 1) \subseteq Acked

\* Nothing leaves the pending list that no handler settled, save a payload that
\* does not parse (at least once delivery; the acknowledgement in #deliver).
AckedIsSettled == Acked \subseteq settled \cup Broken

\* A message taken over from a dead process does not get its retry budget back:
\* the retries it is served with count every failure it ever had (the comment
\* above #attempts.set in #retryPending).
BudgetNotRevived == pc = "call" => retries[First(todo)] >= failed[First(todo)]

\* The partition keeps the promise every adapter of the bus makes.
Done == IF pending = {} THEN lastRead ELSE First(pending) - 1
Serving == IF pc \in {"call", "ack"} THEN First(todo) ELSE 0
Queue == INSTANCE PartitionQueue WITH done <- Done, serving <- Serving

\* A stream with its subscription implements the abstract partition, whatever
\* the faults (redis-streams.ts against the port of packages/bus/src/types.ts).
ImplementsQueue == Queue!QueueSpec
============================================================================
