-------------------------- MODULE MemoryPartition --------------------------
(***************************************************************************)
(* One partition of InMemoryEventBus (packages/bus/src/in-memory.ts), the  *)
(* adapter the workers' tests run on, with the one group that consumes it. *)
(* The cursor outlives a closed subscription, and with it the retry count  *)
(* and the next attempt of a message; both queues are kept in the order of *)
(* publication, so an event is its position in it.                         *)
(***************************************************************************)
EXTENDS Naturals

CONSTANTS
    MaxEvents,   \* bound: events published
    MaxRetries,  \* MAX_RETRIES
    MaxDelay     \* longest back-off or deferral, in ticks

Ids == 1..MaxEvents

VARIABLES
    published,  \* messages given out by #sequence
    unclaimed,  \* backlog of the UNCLAIMED cursor
    group,      \* the group has a cursor
    backlog,    \* its GroupCursor.backlog
    pending,    \* its GroupCursor.pending
    retries,    \* StoredMessage.retries
    wait,       \* ticks until StoredMessage.nextAttemptAt
    pc,         \* the subscription: closed, between messages, in the handler
    failed      \* history: failures of the handler on a message

vars == <<published, unclaimed, group, backlog, pending, retries, wait, pc, failed>>

\* Every variable keeps its type, and at most one message is pending
\* (in-memory.ts, GroupCursor and InMemorySubscription).
TypeOK ==
    /\ published \in 0..MaxEvents
    /\ unclaimed \subseteq Ids /\ backlog \subseteq Ids /\ pending \subseteq Ids
    /\ \A d, e \in pending : d = e
    /\ group \in BOOLEAN
    /\ retries \in [Ids -> Nat] /\ wait \in [Ids -> 0..MaxDelay]
    /\ pc \in {"off", "poll", "call"}
    /\ failed \in [Ids -> Nat]

Init ==
    /\ published = 0 /\ unclaimed = {} /\ group = FALSE
    /\ backlog = {} /\ pending = {}
    /\ retries = [e \in Ids |-> 0] /\ wait = [e \in Ids |-> 0]
    /\ pc = "off" /\ failed = [e \in Ids |-> 0]

First(S) == CHOOSE e \in S : \A d \in S : e <= d

\* Without a group the message is kept for the first one to come.
Publish ==
    /\ published < MaxEvents
    /\ published' = published + 1
    /\ IF group THEN backlog' = backlog \cup {published + 1} /\ UNCHANGED unclaimed
                ELSE unclaimed' = unclaimed \cup {published + 1} /\ UNCHANGED backlog
    /\ UNCHANGED <<group, pending, retries, wait, pc, failed>>

\* Mutant of Subscribe: the events of the time before are dropped.
SubscribeLate ==
    /\ pc = "off" /\ pc' = "poll"
    /\ group' = TRUE
    /\ unclaimed' = {}
    /\ UNCHANGED <<published, backlog, pending, retries, wait, failed>>

Subscribe ==
    /\ pc = "off" /\ pc' = "poll"
    /\ group' = TRUE
    /\ backlog' = backlog \cup unclaimed
    /\ unclaimed' = {}
    /\ UNCHANGED <<published, pending, retries, wait, failed>>

\* close waits for the message in hand.
Close ==
    /\ pc = "poll" /\ pc' = "off"
    /\ UNCHANGED <<published, unclaimed, group, backlog, pending, retries, wait, failed>>

Tick ==
    /\ \E e \in Ids : wait[e] > 0
    /\ wait' = [e \in Ids |-> IF wait[e] > 0 THEN wait[e] - 1 ELSE 0]
    /\ UNCHANGED <<published, unclaimed, group, backlog, pending, retries, pc, failed>>

\* A message left pending goes before the backlog, once its time has come.
Redeliver ==
    /\ pc = "poll" /\ pending # {} /\ wait[First(pending)] = 0
    /\ pc' = "call"
    /\ UNCHANGED <<published, unclaimed, group, backlog, pending, retries, wait, failed>>

Take ==
    /\ pc = "poll" /\ pending = {} /\ backlog # {}
    /\ pending' = pending \cup {First(backlog)}
    /\ backlog' = backlog \ {First(backlog)}
    /\ pc' = "call"
    /\ UNCHANGED <<published, unclaimed, group, retries, wait, failed>>

\* `ack' or `dead_letter'.
HandlerAcks ==
    /\ pc = "call" /\ pc' = "poll"
    /\ pending' = pending \ {First(pending)}
    /\ UNCHANGED <<published, unclaimed, group, backlog, retries, wait, failed>>

\* `retry' or a throw, while the handlers have retries left.
HandlerFails ==
    /\ pc = "call" /\ retries[First(pending)] < MaxRetries
    /\ pc' = "poll"
    /\ retries' = [retries EXCEPT ![First(pending)] = retries[First(pending)] + 1]
    /\ failed' = [failed EXCEPT ![First(pending)] = failed[First(pending)] + 1]
    /\ \E delay \in 1..MaxDelay : wait' = [wait EXCEPT ![First(pending)] = delay]
    /\ UNCHANGED <<published, unclaimed, group, backlog, pending>>

HandlerDefers ==
    /\ pc = "call" /\ pc' = "poll"
    /\ \E delay \in 1..MaxDelay : wait' = [wait EXCEPT ![First(pending)] = delay]
    /\ UNCHANGED <<published, unclaimed, group, backlog, pending, retries, failed>>

Next ==
    \/ Publish \/ Subscribe \/ Close \/ Tick \/ Redeliver \/ Take
    \/ HandlerAcks \/ HandlerFails \/ HandlerDefers

Spec == Init /\ [][Next]_vars

----------------------------------------------------------------------------
(* Properties                                                              *)

Waiting == unclaimed \cup backlog \cup pending
Done == IF Waiting = {} THEN published ELSE First(Waiting) - 1
Serving == IF pc = "call" THEN First(pending) ELSE 0
Queue == INSTANCE PartitionQueue WITH done <- Done, serving <- Serving

\* The in-memory adapter makes the same promise as the Redis one, also for what
\* was published before the first subscription (in-memory.ts, subscribe).
ImplementsQueue == Queue!QueueSpec
============================================================================
