---------------------------- MODULE MCLiveness ----------------------------
(* What must happen in the end: fair instances of MergeSequence and of     *)
(* SequenceWork.  `part' says which one a behaviour is of; it never        *)
(* changes, and the variables of the other module stay empty.              *)
EXTENDS Naturals, Sequences

VARIABLES part,
          remote, mirror, pushes, events, intents, space, rows, works, lock, mirrorLock, wk,  \* MergeSequence
          row, current, pc, batch, job, seen, served                                          \* SequenceWork

numberVars == <<remote, mirror, pushes, events, intents, space, rows, works, lock, mirrorLock, wk>>
workVars == <<row, current, pc, batch, job, seen, served>>
allVars == <<part, numberVars, workVars>>

\* r - a - m with f (child of r) merged by m, and b a rewrite of a.
Chains == [r |-> <<"r">>, a |-> <<"r", "a">>, b |-> <<"r", "b">>, f |-> <<"r", "f">>, m |-> <<"r", "a", "m">>]
Ancestors == [r |-> {"r"}, a |-> {"r", "a"}, b |-> {"r", "b"}, f |-> {"r", "f"}, m |-> {"r", "a", "f", "m"}]

\* One runner, through the bare mirror, while the branch grows and is rewritten.
Numbering == INSTANCE MergeSequence WITH
    Commits <- DOMAIN Chains, Heads <- {"a", "b", "m"}, Chain <- Chains, Anc <- Ancestors, GraphMode <- "mirror",
    Consumers <- {}, Runners <- {"d1"}, Repairers <- {}, MaxPushes <- 2

Pollers == {"w1", "w2"}

\* Two runners share the row of a space.
Queue == INSTANCE SequenceWork WITH
    DocKeys <- {}, SpaceKeys <- {"space"}, Runners <- Pollers, Tokens <- {"t1", "t2"},
    MaxRetries <- 1, ClaimLimit <- 1, MaxRequests <- 2

---------------------------------------------------------------------------
Init ==
    \/ /\ part = "numbering" /\ Numbering!Init
       /\ row = <<>> /\ current = TRUE /\ pc = <<>> /\ batch = <<>> /\ job = <<>> /\ seen = <<>> /\ served = <<>>
    \/ /\ part = "queue" /\ Queue!Init
       /\ remote = "none" /\ mirror = "none" /\ pushes = 0 /\ events = {} /\ intents = <<>> /\ space = <<>>
       /\ rows = <<>> /\ works = {} /\ lock = "none" /\ mirrorLock = "none" /\ wk = <<>>

Numbers(step) == part = "numbering" /\ step /\ UNCHANGED <<part, workVars>>
Queues(step) == part = "queue" /\ step /\ UNCHANGED <<part, numberVars>>

Next == Numbers(Numbering!Next) \/ Queues(Queue!Next)

\* A step of a runner's round that is possible again and again is finally taken:
\* polling loops for ever and swallows the exceptions of a round, retries of
\* space work do not stop, leases of the dead run out, and GitHub, the mirror and
\* PostgreSQL do not fail for ever.  A sweep of the mirror ends and comes every
\* six hours: a runner that polls every few seconds does not meet one whenever it
\* starts.  part does not change, so fairness of a union of the steps of the two
\* modules is fairness of each.
Fairness ==
    /\ WF_allVars(Numbers(Numbering!SweepSync) \/ Queues(Queue!LeaseExpires("space")))
    /\ WF_allVars(Queues(\E w \in Pollers : Queue!ClaimNothing(w)))
    /\ SF_allVars(\/ Numbers(mirrorLock # Numbering!Sweeper /\ Numbering!TakeIntent("d1", 1))
                  \/ Queues(\E w \in Pollers : Queue!ReclaimExpiredLeases(w)))
    /\ SF_allVars(\/ Numbers(mirrorLock # Numbering!Sweeper /\ Numbering!TakeIntent("d1", 2))
                  \/ Queues(\E w \in Pollers : Queue!Claims(w) /\ batch'[w] # {}))
    /\ SF_allVars(Numbers(Numbering!PrepareMirror("d1")) \/ Queues(\E w \in Pollers : \E c \in batch[w] : Queue!Start(w, c)))
    /\ SF_allVars(Numbers(Numbering!Fetch("d1")) \/ Queues(\E w \in Pollers : Queue!CompleteWork(w)))
    /\ SF_allVars(Numbers(Numbering!AssignLock("d1"))) /\ SF_allVars(Numbers(Numbering!AssignCommit("d1")))
    /\ SF_allVars(Numbers(Numbering!ResolveForward("d1") \/ Numbering!ResolveRewritten("d1") \/ Numbering!ResolveNoBranch("d1")))
    /\ SF_allVars(Numbers(Numbering!Publish("d1"))) /\ SF_allVars(Numbers(Numbering!Cover("d1")))
    /\ SF_allVars(Numbers(Numbering!MarkStale("d1"))) /\ SF_allVars(Numbers(Numbering!MarkReassigning("d1")))
    /\ SF_allVars(Numbers(Numbering!ReassignLock("d1")))
    /\ SF_allVars(Numbers(\E base \in DOMAIN Chains \cup {"none"} : Numbering!ReassignCommit("d1", base)))

Spec == Init /\ [][Next]_allVars /\ Fairness

---------------------------------------------------------------------------
\* MergeSequence: after the last push the branch is
\* numbered up to its head, whatever failed on the way (sequence.ts,
\* sequence-work-runner.ts).
CaughtUp == part = "numbering" /\ remote # "none" => space.head_sha = remote

\* SequenceWork: every request of space work is served,
\* unless its epoch is over (sequence-work.ts).
Served == part = "queue" => row["space"].requested = served["space"] \/ ~ current

\* Both kinds of debt are paid in the end and stay paid, whatever runners crash
\* or fail: after the last push the branch is numbered up to its head
\* (sequence.ts), after the last request the work of a space of the current
\* epoch is served (sequence-work.ts, sequence-work-runner.ts).
EventuallyNothingOwed == <>[](CaughtUp /\ Served)
===========================================================================
