--------------------------- MODULE SequenceWork ---------------------------
(***************************************************************************)
(* The durable work queue of one sequence space: the sequence_work rows of *)
(* packages/db/src/repositories/sequence-work.ts and the runners that      *)
(* lease them (apps/pipeline-worker/src/sequence-work-runner.ts).  A row   *)
(* is one key; asking for work that exists raises its generation.          *)
(*                                                                         *)
(* Every database statement is one step.  Between the claim and the        *)
(* acknowledgement of a row anything may happen: new requests, an expired  *)
(* lease, another runner executing the same row, a crash.                  *)
(*                                                                         *)
(* `served' and `seen' are history variables.  An execution reads the      *)
(* canonical rows after it starts, so it does what every request made      *)
(* before its start asked for, and promises nothing about later ones.      *)
(***************************************************************************)
EXTENDS Naturals, FiniteSets

CONSTANTS
    DocKeys,      \* document-level `project' work: may be parked and deleted
    SpaceKeys,    \* reconcile, materialize and space-level `project' work
    Runners,      \* processes that poll the queue, one loop each
    Tokens,       \* lease tokens (gen_random_uuid)
    MaxRetries,   \* MAX_RETRIES
    ClaimLimit,   \* WORK_CLAIM_LIMIT
    MaxRequests   \* bound: generations of one row

Null == "null"
Keys == DocKeys \cup SpaceKeys

ASSUME QueueAssumption ==
    /\ DocKeys \cap SpaceKeys = {}
    /\ Null \notin Tokens
    /\ MaxRetries \in Nat \ {0} /\ ClaimLimit \in Nat \ {0} /\ MaxRequests \in Nat

VARIABLES
    row,      \* row[k]: the sequence_work row with work_key k
    current,  \* the epoch in the keys is still the space's epoch
    pc,       \* control point of each runner
    batch,    \* rows a runner has claimed and not acknowledged, as it read them
    job,      \* the one it executes
    seen,     \* history: the row's generation when that execution started
    served    \* history: the newest generation a successful execution saw

vars == <<row, current, pc, batch, job, seen, served>>

States == {"absent", "ready", "leased", "retry", "parked", "done", "obsolete"}

WorkRow == [state : States, requested : Nat, completed : Nat,
            token : Tokens \cup {Null}, expired : BOOLEAN, attempts : 0..MaxRetries]

Claim == [key : Keys, token : Tokens, gen : Nat, attempts : 0..MaxRetries]

NoJob == [key |-> Null, token |-> Null, gen |-> 0, attempts |-> 0]

NoRow == [state |-> "absent", requested |-> 0, completed |-> 0, token |-> Null,
          expired |-> FALSE, attempts |-> 0]

\* The rows and the runners' locals have their types; an executing runner
\* executes a row it claimed.
TypeOK ==
    /\ row \in [Keys -> WorkRow]
    /\ current \in BOOLEAN
    /\ pc \in [Runners -> {"idle", "claim", "run", "exec"}]
    /\ batch \in [Runners -> SUBSET Claim]
    /\ seen \in [Runners -> Nat]
    /\ served \in [Keys -> Nat]
    /\ job \in [Runners -> Claim \cup {NoJob}]
    /\ \A w \in Runners : pc[w] = "exec" => job[w] \in batch[w]

Init ==
    /\ row = [k \in Keys |-> NoRow]
    /\ current = TRUE
    /\ pc = [w \in Runners |-> "idle"]
    /\ batch = [w \in Runners |-> {}]
    /\ job = [w \in Runners |-> NoJob]
    /\ seen = [w \in Runners |-> 0]
    /\ served = [k \in Keys |-> 0]

---------------------------------------------------------------------------
(* Requesters: numbering, snapshots, enrichment, sweeps, jobs.             *)

\* requestWork and requestWorkBatch.  A leased row keeps its lease and its
\* attempts; every other row becomes ready and starts over.
RequestWork(k) ==
    /\ row[k].requested < MaxRequests
    /\ row' = [row EXCEPT ![k].requested = row[k].requested + 1,
                          ![k].state = IF row[k].state = "leased" THEN "leased" ELSE "ready",
                          ![k].attempts = IF row[k].state = "leased" THEN row[k].attempts ELSE 0]
    /\ UNCHANGED <<current, pc, batch, job, seen, served>>

\* The space is renumbered: the keys, which name the epoch, are of the past.
EpochMoves ==
    /\ current
    /\ current' = FALSE
    /\ UNCHANGED <<row, pc, batch, job, seen, served>>

\* cleanupDoneWork deletes finished document-level rows.  Generations start
\* again with the next request, so what is running saw none of them.
CleanupDoneWork(k) ==
    /\ k \in DocKeys /\ row[k].state = "done"
    /\ row' = [row EXCEPT ![k] = NoRow]
    /\ served' = [served EXCEPT ![k] = 0]
    /\ seen' = [w \in Runners |->
                  IF pc[w] = "exec" /\ job[w].key = k THEN 0 ELSE seen[w]]
    /\ UNCHANGED <<current, pc, batch, job>>

---------------------------------------------------------------------------
(* One round of a runner: runSequenceWorkOnce and runOne.                  *)

\* lease_until passes: the runner is dead or stalled, or the row still waits
\* in its batch (the heartbeat starts with the execution).
LeaseExpires(k) ==
    /\ row[k].state = "leased" /\ ~ row[k].expired
    /\ row' = [row EXCEPT ![k].expired = TRUE]
    /\ UNCHANGED <<current, pc, batch, job, seen, served>>

\* Mutant of ReclaimExpiredLeases: a dead runner's row is put aside.
ReclaimToParked(w) ==
    /\ pc[w] = "idle"
    /\ row' = [k \in Keys |->
                 IF row[k].state = "leased" /\ row[k].expired
                 THEN [row[k] EXCEPT !.state = "parked", !.token = Null, !.expired = FALSE]
                 ELSE row[k]]
    /\ pc' = [pc EXCEPT ![w] = "claim"]
    /\ UNCHANGED <<current, batch, job, seen, served>>

ReclaimExpiredLeases(w) ==
    /\ pc[w] = "idle"
    /\ row' = [k \in Keys |->
                 IF row[k].state = "leased" /\ row[k].expired
                 THEN [row[k] EXCEPT !.state = "retry", !.token = Null, !.expired = FALSE]
                 ELSE row[k]]
    /\ pc' = [pc EXCEPT ![w] = "claim"]
    /\ UNCHANGED <<current, batch, job, seen, served>>

\* Rows a claim may take once available_at has come; only the attempt count
\* tells retries apart, and only up to MAX_RETRIES.
Due == {k \in Keys : row[k].state \in {"ready", "retry"}}

\* gen_random_uuid never repeats: no row and no runner knows the new token.
FreshTokens ==
    {t \in Tokens : /\ \A k \in Keys : row[k].token # t
                    /\ \A w \in Runners : \A c \in batch[w] : c.token # t}

Attempted(n) == IF n < MaxRetries THEN n + 1 ELSE n

\* claimDueWork: one statement leases up to a batch of due rows.
ClaimDueWork(w, ks, tok) ==
    /\ pc[w] = "claim"
    /\ ks # {} /\ ks \subseteq Due /\ Cardinality(ks) <= ClaimLimit
    /\ \A k \in ks : tok[k] \in FreshTokens
    /\ \A k, l \in ks : tok[k] = tok[l] => k = l
    /\ row' = [k \in Keys |->
                 IF k \in ks
                 THEN [row[k] EXCEPT !.state = "leased", !.token = tok[k],
                                     !.expired = FALSE,
                                     !.attempts = Attempted(row[k].attempts)]
                 ELSE row[k]]
    /\ batch' = [batch EXCEPT ![w] =
                   {[key |-> k, token |-> tok[k], gen |-> row[k].requested,
                     attempts |-> Attempted(row[k].attempts)] : k \in ks}]
    /\ pc' = [pc EXCEPT ![w] = "run"]
    /\ UNCHANGED <<current, job, seen, served>>

\* Nothing is due: the runner sleeps until the next poll.
ClaimNothing(w) ==
    /\ pc[w] = "claim" /\ Due = {}
    /\ pc' = [pc EXCEPT ![w] = "idle"]
    /\ UNCHANGED <<row, current, batch, job, seen, served>>

\* The rows of one space run one after the other; the next one starts whether
\* or not its lease is still ours.
Start(w, c) ==
    /\ pc[w] = "run" /\ c \in batch[w]
    /\ pc' = [pc EXCEPT ![w] = "exec"]
    /\ job' = [job EXCEPT ![w] = c]
    /\ seen' = [seen EXCEPT ![w] = row[c.key].requested]
    /\ UNCHANGED <<row, current, batch, served>>

\* Mutant of Holds: the guard asks for the state only.
HoldsByState(w) == row[job[w].key].state = "leased"

\* The guard of every statement that ends or extends a lease.
Holds(w) == /\ row[job[w].key].state = "leased"
            /\ row[job[w].key].token = job[w].token

HeartbeatWork(w) ==
    /\ pc[w] = "exec" /\ Holds(w) /\ row[job[w].key].expired
    /\ row' = [row EXCEPT ![job[w].key].expired = FALSE]
    /\ UNCHANGED <<current, pc, batch, job, seen, served>>

\* runOne is over: the next row of the batch, or the next round.
Finish(w) ==
    /\ batch' = [batch EXCEPT ![w] = @ \ {job[w]}]
    /\ pc' = [pc EXCEPT ![w] = IF batch[w] = {job[w]} THEN "idle" ELSE "run"]
    /\ job' = [job EXCEPT ![w] = NoJob]
    /\ seen' = [seen EXCEPT ![w] = 0]
    /\ UNCHANGED current

\* GREATEST of two generations.
Later(m, n) == IF m > n THEN m ELSE n

\* Mutant of CompleteWork: the acknowledgement does not look at the generation.
CompleteBlindly(w) ==
    LET k == job[w].key
    IN /\ pc[w] = "exec"
       /\ row' = IF Holds(w)
                 THEN [row EXCEPT ![k].completed = row[k].requested, ![k].state = "done",
                                  ![k].token = Null, ![k].expired = FALSE]
                 ELSE row
       /\ served' = [served EXCEPT ![k] = Later(seen[w], served[k])]
       /\ Finish(w)

\* The execution succeeded; completeWork acknowledges the generation that was
\* claimed, and does nothing when the lease is lost.
CompleteWork(w) ==
    LET k == job[w].key
        g == job[w].gen
    IN /\ pc[w] = "exec"
       /\ row' = IF Holds(w)
                 THEN [row EXCEPT ![k].completed = Later(g, row[k].completed),
                                  ![k].state = IF row[k].requested > g THEN "ready" ELSE "done",
                                  ![k].token = Null, ![k].expired = FALSE]
                 ELSE row
       /\ served' = [served EXCEPT ![k] = Later(seen[w], served[k])]
       /\ Finish(w)

\* releaseWork: it sets the state, whatever was requested meanwhile.
ReleaseWork(w, state, reset) ==
    LET k == job[w].key
    IN /\ pc[w] = "exec"
       /\ row' = IF Holds(w)
                 THEN [row EXCEPT ![k].state = state, ![k].token = Null,
                                  ![k].expired = FALSE,
                                  ![k].attempts = IF reset THEN 0 ELSE row[k].attempts]
                 ELSE row
       /\ UNCHANGED served
       /\ Finish(w)

\* A failure or an exception, and evidence that has not arrived yet.
Retry(w) == ReleaseWork(w, "retry", FALSE)
AwaitEvidence(w) == job[w].key \in SpaceKeys /\ ReleaseWork(w, "retry", TRUE)

\* Lock contention, a spent page budget, a moved checkpoint: no failure.
Defer(w) == job[w].key \in SpaceKeys /\ ReleaseWork(w, "ready", TRUE)

Obsolete(w) == ~ current /\ ReleaseWork(w, "obsolete", FALSE)

\* document_missing on the last attempt.
Park(w) ==
    /\ job[w].key \in DocKeys /\ job[w].attempts >= MaxRetries
    /\ ReleaseWork(w, "parked", FALSE)

\* The process dies with its batch; the leases run out.
Crash(w) ==
    /\ pc[w] # "idle"
    /\ pc' = [pc EXCEPT ![w] = "idle"]
    /\ batch' = [batch EXCEPT ![w] = {}]
    /\ job' = [job EXCEPT ![w] = NoJob]
    /\ seen' = [seen EXCEPT ![w] = 0]
    /\ UNCHANGED <<row, current, served>>

Executed(w) ==
    pc[w] = "exec" /\ (\/ CompleteWork(w) \/ Retry(w) \/ AwaitEvidence(w)
                       \/ Defer(w) \/ Obsolete(w) \/ Park(w))

Claims(w) == \E ks \in SUBSET Keys : \E tok \in [ks -> Tokens] : ClaimDueWork(w, ks, tok)

RunnerStep(w) ==
    \/ ReclaimExpiredLeases(w) \/ Claims(w) \/ ClaimNothing(w)
    \/ \E c \in batch[w] : Start(w, c)
    \/ HeartbeatWork(w) \/ Executed(w) \/ Crash(w)

QueueStep(k) == RequestWork(k) \/ CleanupDoneWork(k) \/ LeaseExpires(k)

Next == EpochMoves \/ (\E k \in Keys : QueueStep(k)) \/ (\E w \in Runners : RunnerStep(w))

Spec == Init /\ [][Next]_vars

---------------------------------------------------------------------------
(* Properties.                                                             *)

\* What completeWork reports is true: the completed generation, and the latest
\* one when the row is done, was asked for before some execution started that
\* then succeeded.  awaitProjectionWork tells operators so.
CompletedIsServed ==
    \A k \in Keys :
        /\ row[k].completed <= served[k]
        /\ row[k].state = "done" => served[k] = row[k].requested

\* A lease in its time is ended by nobody but its holder: the late
\* acknowledgement of a runner that lost the row, a request and the reclaiming
\* of other leases leave it alone, however executions overlap.
LeaseEndedByHolder ==
    [][\A k \in Keys :
          /\ row[k].state = "leased" /\ ~ row[k].expired
          /\ row'[k].token # row[k].token
          => \E w \in Runners :
                pc[w] = "exec" /\ job[w].key = k /\ job[w].token = row[k].token]_vars

\* A request that no execution has served yet is waiting to be claimed or is
\* being executed, unless its epoch is gone or its document work is parked.
OwedIsScheduled ==
    \A k \in Keys : row[k].requested > served[k] =>
        \/ row[k].state \in {"ready", "retry", "leased"}
        \/ row[k].state = "parked" /\ k \in DocKeys
        \/ row[k].state = "obsolete" /\ ~ current
============================================================================
