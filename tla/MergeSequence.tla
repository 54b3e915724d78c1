--------------------------- MODULE MergeSequence ---------------------------
(***************************************************************************)
(* Numbering one sequence space (one registered repository and one branch  *)
(* it sequences): assignSequence, reassignSequence and repairSequence of   *)
(* apps/pipeline-worker/src/sequence.ts, entered through                   *)
(* prepareAndAssignSequence by the prs:sequence consumer and by the        *)
(* durable sequence_work runner, and by the operator's repair job.         *)
(*                                                                         *)
(* A step is what one worker does between two points at which another can  *)
(* interfere: a database transaction commits in one step, every graph call *)
(* and every statement outside the transaction is a step of its own.       *)
(***************************************************************************)
EXTENDS GitGraph

CONSTANTS
    Consumers,   \* workers fed by the prs:sequence topic
    Runners,     \* workers fed by durable sequence_work rows
    Repairers,   \* workers of the sequence_reassign job
    MaxPushes    \* bound: pushes to the branch in one behaviour

\* Holder of the mirror lock that is no worker of the numbering.
Sweeper == "sweeper"

ASSUME WorkersAssumption ==
    /\ Consumers \cap Runners = {}
    /\ (Consumers \cup Runners) \cap Repairers = {}
    /\ {None, Sweeper} \cap (Consumers \cup Runners \cup Repairers) = {}
    /\ MaxPushes \in Nat

VARIABLES
    remote,      \* head of the branch on GitHub, None when it has no branch
    mirror,      \* head of the branch in the bare mirror
    pushes,      \* pushes so far; push i owns event i and refresh intent i
    events,      \* prs:sequence events not acknowledged yet
    intents,     \* refresh rows of sequence_work, one per push
    space,       \* the sequence_space row
    rows,        \* merge_sequence: rows[e][s] is the commit numbered s in epoch e
    works,       \* (kind, epoch) of reconcile and projection work requested
    lock,        \* holder of the space's transaction-scoped advisory lock
    mirrorLock,  \* holder of the repository's session-scoped mirror lock
    wk           \* control point and local variables of each worker

vars == <<remote, mirror, pushes, events, intents, space, rows, works,
          lock, mirrorLock, wk>>

Assigners == Consumers \cup Runners
Workers   == Assigners \cup Repairers
Pushes    == 1..MaxPushes
HeadOrNone == Heads \cup {None}

PCs == {"idle", "prepare", "fetch", "assign", "resolve", "walk", "publish",
        "mark", "relock", "rewalk", "cover", "stale",
        "r_space", "r_stored", "r_lock", "r_mark", "r_fence", "r_commit",
        "r_restore"}

States == {"absent", "ok", "stale", "reassigning"}

Idle == [pc |-> "idle", job |-> 0, cover |-> {}, head |-> None, epoch |-> 1,
         new |-> None, diverged |-> 0, prior |-> "ok"]

SpaceRow == [seq_epoch : Nat \ {0}, head_sha : HeadOrNone, head_seq : Nat,
             state : States]

WorkRow == [kind : {"reconcile", "tail", "full"}, epoch : Nat \ {0}]

Worker == [pc : PCs, job : 0..MaxPushes, cover : SUBSET Pushes,
           head : HeadOrNone, epoch : Nat \ {0}, new : HeadOrNone,
           diverged : Nat, prior : States]

\* The variables have the shapes of the tables and of the handlers' locals;
\* in particular every epoch is numbered from 1 without gaps.
TypeOK ==
    /\ remote \in HeadOrNone /\ mirror \in HeadOrNone
    /\ pushes \in 0..MaxPushes
    /\ events \subseteq Pushes
    /\ intents \in [Pushes -> {"none", "due", "leased", "done"}]
    /\ space \in SpaceRow
    /\ rows \in Seq(Seq(Commits))
    /\ works \subseteq WorkRow
    /\ lock \in Workers \cup {None} /\ mirrorLock \in Workers \cup {Sweeper, None}
    /\ wk \in [Workers -> Worker]

Init ==
    /\ remote = None /\ mirror = None
    /\ pushes = 0 /\ events = {}
    /\ intents = [i \in Pushes |-> "none"]
    /\ space = [seq_epoch |-> 1, head_sha |-> None, head_seq |-> 0,
                state |-> "absent"]
    /\ rows = << <<>> >>
    /\ works = {}
    /\ lock = None /\ mirrorLock = None
    /\ wk = [w \in Workers |-> Idle]

---------------------------------------------------------------------------
(* The branch: anyone may push or force-push any commit, or delete it.     *)

\* Mutant of Push: the event is numbered before the push is counted.
PushCountedLate(c, published) ==
    /\ pushes < MaxPushes /\ c # remote
    /\ remote' = c
    /\ pushes' = pushes + 1
    /\ intents' = [intents EXCEPT ![pushes + 1] = "due"]
    /\ events' = IF published THEN events \cup {pushes} ELSE events
    /\ UNCHANGED <<mirror, space, rows, works, lock, mirrorLock, wk>>

\* The gateway stores the intent with the delivery; the publish may be lost.
Push(c, published) ==
    /\ pushes < MaxPushes /\ c # remote
    /\ remote' = c
    /\ pushes' = pushes + 1
    /\ intents' = [intents EXCEPT ![pushes + 1] = "due"]
    /\ events' = IF published THEN events \cup {pushes + 1} ELSE events
    /\ UNCHANGED <<mirror, space, rows, works, lock, mirrorLock, wk>>

\* A deletion pushes no commit: it leaves neither an intent nor an event.
DeleteBranch ==
    /\ remote # None /\ pushes < MaxPushes
    /\ remote' = None /\ pushes' = pushes + 1
    /\ UNCHANGED <<mirror, events, intents, space, rows, works, lock,
                   mirrorLock, wk>>

\* The six-hourly mirror sweep and the release refresh fetch under the lock.
SweepLock ==
    /\ GraphMode = "mirror" /\ mirrorLock = None
    /\ mirrorLock' = Sweeper
    /\ UNCHANGED <<remote, mirror, pushes, events, intents, space, rows, works, lock, wk>>

\* The fetch may fail; the mirror is as it was then.
SweepSync ==
    /\ mirrorLock = Sweeper /\ mirrorLock' = None
    /\ mirror' \in {mirror, remote}
    /\ UNCHANGED <<remote, pushes, events, intents, space, rows, works, lock, wk>>

GraphHead == IF GraphMode = "mirror" THEN mirror ELSE remote

---------------------------------------------------------------------------
(* Helpers shared by the handlers.                                         *)

At(w, pc) == wk[w].pc = pc

Goto(w, pc) == wk' = [wk EXCEPT ![w].pc = pc]

Freed(l, w) == IF l = w THEN None ELSE l

\* A statement of another connection that updates the sequence_space row
\* waits while a repair transaction has updated it and not ended.
RowFree(w) == \A x \in Workers \ {w} : ~ (At(x, "r_fence") \/ At(x, "r_commit"))

\* The worker ends without covering its intents: its event stays
\* unacknowledged, its leased row becomes due again, its locks are free.
GiveUp(w) ==
    /\ wk' = [wk EXCEPT ![w] = Idle]
    /\ intents' = IF w \in Runners /\ wk[w].job # 0
                    /\ intents[wk[w].job] = "leased"
                  THEN [intents EXCEPT ![wk[w].job] = "due"] ELSE intents
    /\ mirrorLock' = Freed(mirrorLock, w)
    /\ lock' = Freed(lock, w)

\* assignSequence returned: the mirror lock is released, then covering starts.
Return(w) ==
    /\ Goto(w, "cover")
    /\ mirrorLock' = Freed(mirrorLock, w)
    /\ lock' = Freed(lock, w)

\* ROLLBACK followed by a statement of its own.
Rollback(w, pc) ==
    /\ lock' = None
    /\ Goto(w, pc)

\* numberCommits and upsertMergeSequence: commit i of the list gets number
\* base + i; a number that is taken keeps its commit.
Numbered(old, base, commits) ==
    [s \in DOMAIN old \cup (base + 1)..(base + Len(commits)) |->
        IF s \in DOMAIN old THEN old[s] ELSE commits[s - base]]

\* A taken number with another commit throws, and so does a commit that the
\* epoch has under another number (merge_sequence_commit_uk).
Conflict(old, base, commits) ==
    \E i \in 1..Len(commits) :
        \/ base + i \in DOMAIN old /\ old[base + i] # commits[i]
        \/ \E s \in DOMAIN old : s # base + i /\ old[s] = commits[i]

\* copySequencesUpTo.
CopyUpTo(old, n) == [s \in {t \in DOMAIN old : t <= n} |-> old[s]]

\* findSeqByCommit: the number a commit has in a numbering, 0 when it has none.
SeqOf(old, c) == IF \E s \in DOMAIN old : old[s] = c
                 THEN CHOOSE s \in DOMAIN old : old[s] = c
                 ELSE 0

Request(kind, epoch) == [kind |-> kind, epoch |-> epoch]

---------------------------------------------------------------------------
(* prepareAndAssignSequence and withFreshness.                             *)

TakeEvent(w, i) ==
    /\ w \in Consumers /\ At(w, "idle") /\ i \in events
    /\ wk' = [wk EXCEPT ![w] = [Idle EXCEPT !.pc = "prepare", !.job = i]]
    /\ UNCHANGED <<remote, mirror, pushes, events, intents, space, rows, works,
                   lock, mirrorLock>>

TakeIntent(w, i) ==
    /\ w \in Runners /\ At(w, "idle") /\ intents[i] = "due"
    /\ wk' = [wk EXCEPT ![w] = [Idle EXCEPT !.pc = "prepare", !.job = i]]
    /\ intents' = [intents EXCEPT ![i] = "leased"]
    /\ UNCHANGED <<remote, mirror, pushes, events, space, rows, works, lock,
                   mirrorLock>>

\* listCoverableRefreshWorkKeys: due intents, and the one this worker leased.
Coverable(w) ==
    {i \in Pushes : \/ intents[i] = "due"
                    \/ intents[i] = "leased" /\ w \in Runners /\ wk[w].job = i}

\* The set a round will cover is fixed just before the graph is refreshed.
PrepareApi(w) ==
    /\ GraphMode = "api" /\ At(w, "prepare")
    /\ wk' = [wk EXCEPT ![w].pc = "assign", ![w].cover = Coverable(w)]
    /\ UNCHANGED <<remote, mirror, pushes, events, intents, space, rows, works,
                   lock, mirrorLock>>

PrepareMirror(w) ==
    /\ GraphMode = "mirror" /\ At(w, "prepare") /\ mirrorLock = None
    /\ mirrorLock' = w
    /\ wk' = [wk EXCEPT ![w].pc = "fetch", ![w].cover = Coverable(w)]
    /\ UNCHANGED <<remote, mirror, pushes, events, intents, space, rows, works,
                   lock>>

\* MirrorLockBusyError: defer.
PrepareBusy(w) ==
    /\ GraphMode = "mirror" /\ At(w, "prepare") /\ mirrorLock # None
    /\ GiveUp(w)
    /\ UNCHANGED <<remote, mirror, pushes, events, space, rows, works>>

Fetch(w) ==
    /\ At(w, "fetch")
    /\ mirror' = remote
    /\ Goto(w, "assign")
    /\ UNCHANGED <<remote, pushes, events, intents, space, rows, works, lock,
                   mirrorLock>>

\* mirror_sync_failed: an old mirror is never numbered from.
FetchFails(w) ==
    /\ At(w, "fetch")
    /\ GiveUp(w)
    /\ UNCHANGED <<remote, mirror, pushes, events, space, rows, works>>

---------------------------------------------------------------------------
(* assignSequence.                                                         *)

AssignLock(w) ==
    /\ At(w, "assign") /\ lock = None
    /\ lock' = w
    /\ wk' = [wk EXCEPT ![w].pc = "resolve", ![w].head = space.head_sha]
    /\ UNCHANGED <<remote, mirror, pushes, events, intents, space, rows, works,
                   mirrorLock>>

AssignLocked(w) ==
    /\ At(w, "assign") /\ lock # None
    /\ GiveUp(w)
    /\ UNCHANGED <<remote, mirror, pushes, events, space, rows, works>>

\* resolveHead answered with a head the stored one is an ancestor of.
ResolveForward(w) ==
    /\ At(w, "resolve") /\ GraphHead # None
    /\ wk[w].head = None \/ IsAncestor(wk[w].head, GraphHead)
    /\ wk' = [wk EXCEPT ![w].pc = "walk", ![w].new = GraphHead]
    /\ UNCHANGED <<remote, mirror, pushes, events, intents, space, rows, works,
                   lock, mirrorLock>>

\* The history was rewritten: lock and transaction are dropped first.
ResolveRewritten(w) ==
    /\ At(w, "resolve") /\ GraphHead # None /\ wk[w].head # None
    /\ ~ IsAncestor(wk[w].head, GraphHead)
    /\ wk' = [wk EXCEPT ![w].pc = "mark", ![w].new = GraphHead]
    /\ lock' = None
    /\ UNCHANGED <<remote, mirror, pushes, events, intents, space, rows, works,
                   mirrorLock>>

\* no_branch is a normal end: the round covers its intents.
ResolveNoBranch(w) ==
    /\ At(w, "resolve") /\ GraphHead = None
    /\ Return(w)
    /\ UNCHANGED <<remote, mirror, pushes, events, intents, space, rows, works>>

\* resolveHead, isAncestor, mergeBase or the walk threw, or (in a rebuild) any
\* statement of the transaction did.
GraphFails(w) ==
    /\ wk[w].pc \in {"resolve", "walk", "rewalk", "r_mark", "r_fence", "r_commit"}
    /\ Rollback(w, "stale")
    /\ UNCHANGED <<remote, mirror, pushes, events, intents, space, rows, works,
                   mirrorLock>>

\* The numbering a forward assignment would commit.
Assigned(w) ==
    Numbered(rows[space.seq_epoch], space.head_seq,
             FirstParentCommits(wk[w].head, wk[w].new))

AssignThrows(w) ==
    Conflict(rows[space.seq_epoch], space.head_seq,
             FirstParentCommits(wk[w].head, wk[w].new))

\* The transaction: rows, head and the durable work they call for.  An upsert
\* that throws rolls back and reaches the caller: to the space it is a Crash.
AssignCommit(w) ==
    LET commits == FirstParentCommits(wk[w].head, wk[w].new)
        e == space.seq_epoch
    IN /\ At(w, "walk")
       /\ ~ ChainBroken(wk[w].head, wk[w].new) /\ ~ AssignThrows(w)
       /\ rows' = [rows EXCEPT ![e] = Assigned(w)]
       /\ space' = [space EXCEPT !.head_sha = wk[w].new,
                                 !.head_seq = space.head_seq + Len(commits),
                                 !.state = "ok"]
       /\ works' = works \cup {Request("reconcile", e)}
                         \cup (IF commits = <<>> THEN {} ELSE {Request("tail", e)})
       /\ lock' = None
       /\ Goto(w, "publish")
       /\ UNCHANGED <<remote, mirror, pushes, events, intents, mirrorLock>>

Publish(w) ==
    /\ At(w, "publish")
    /\ Return(w)
    /\ UNCHANGED <<remote, mirror, pushes, events, intents, space, rows, works>>

\* The bus refused EVT-SEQ-001: what was committed stays, the round is retried.
PublishFails(w) ==
    /\ At(w, "publish")
    /\ GiveUp(w)
    /\ UNCHANGED <<remote, mirror, pushes, events, space, rows, works>>

\* markStale keeps every value; the caller retries.
MarkStale(w) ==
    /\ At(w, "stale") /\ RowFree(w)
    /\ space' = [space EXCEPT !.state = "stale"]
    /\ GiveUp(w)
    /\ UNCHANGED <<remote, mirror, pushes, events, rows, works>>

\* Mutant of Cover: it completes every due intent, also one that arrived after
\* the head was read.
CoverAllDue(w) ==
    /\ At(w, "cover")
    /\ intents' = [i \in Pushes |->
                     IF i \in Coverable(w) THEN "done" ELSE intents[i]]
    /\ events' = IF w \in Consumers THEN events \ {wk[w].job} ELSE events
    /\ wk' = [wk EXCEPT ![w] = Idle]
    /\ UNCHANGED <<remote, mirror, pushes, space, rows, works, lock, mirrorLock>>

\* completeCoveredRefreshWorks, and the consumer's acknowledgement.
Cover(w) ==
    /\ At(w, "cover")
    /\ intents' = [i \in Pushes |->
                     IF i \in wk[w].cover /\ i \in Coverable(w)
                     THEN "done"
                     ELSE IF w \in Runners /\ i = wk[w].job /\ intents[i] = "leased"
                     THEN "done" ELSE intents[i]]
    /\ events' = IF w \in Consumers THEN events \ {wk[w].job} ELSE events
    /\ wk' = [wk EXCEPT ![w] = Idle]
    /\ UNCHANGED <<remote, mirror, pushes, space, rows, works, lock, mirrorLock>>

---------------------------------------------------------------------------
(* reassignSequence: the stored head is not an ancestor of the new one.    *)

MarkReassigning(w) ==
    /\ At(w, "mark") /\ RowFree(w)
    /\ space' = [space EXCEPT !.state = "reassigning"]
    /\ Goto(w, "relock")
    /\ UNCHANGED <<remote, mirror, pushes, events, intents, rows, works, lock,
                   mirrorLock>>

\* Another worker holds the space: `rewritten', deferred.
ReassignLocked(w) ==
    /\ At(w, "relock") /\ lock # None
    /\ GiveUp(w)
    /\ UNCHANGED <<remote, mirror, pushes, events, space, rows, works>>

\* `head_moved' is a normal end, although the space stays marked.
ReassignHeadMoved(w) ==
    /\ At(w, "relock") /\ lock = None /\ space.head_sha # wk[w].head
    /\ Return(w)
    /\ UNCHANGED <<remote, mirror, pushes, events, intents, space, rows, works>>

ReassignLock(w) ==
    /\ At(w, "relock") /\ lock = None /\ space.head_sha = wk[w].head
    /\ lock' = w
    /\ Goto(w, "rewalk")
    /\ UNCHANGED <<remote, mirror, pushes, events, intents, space, rows, works,
                   mirrorLock>>

\* The numbering of a new epoch: n copied rows, then the walk from `from'.
Rebuilt(n, from, new) ==
    Numbered(CopyUpTo(rows[space.seq_epoch], n), n, FirstParentCommits(from, new))

RebuildThrows(n, from, new) ==
    Conflict(CopyUpTo(rows[space.seq_epoch], n), n, FirstParentCommits(from, new))

\* Mutants of Rebuild: the merge base is not copied; the copied rows are not
\* counted in head_seq; the epoch is not raised; the new epoch's projection is
\* left to the inline attempt.
RebuildWithoutBase(n, from, new) ==
    LET e == space.seq_epoch + 1
        k == IF n = 0 THEN 0 ELSE n - 1
    IN /\ rows' = Append(rows, Rebuilt(k, from, new))
       /\ space' = [seq_epoch |-> e, head_sha |-> new,
                    head_seq |-> k + Len(FirstParentCommits(from, new)),
                    state |-> "ok"]
       /\ works' = works \cup {Request("reconcile", e), Request("full", e)}

RebuildHeadSeqWithoutBase(n, from, new) ==
    LET e == space.seq_epoch + 1
    IN /\ rows' = Append(rows, Rebuilt(n, from, new))
       /\ space' = [seq_epoch |-> e, head_sha |-> new,
                    head_seq |-> Len(FirstParentCommits(from, new)),
                    state |-> "ok"]
       /\ works' = works \cup {Request("reconcile", e), Request("full", e)}

RebuildInPlace(n, from, new) ==
    LET e == space.seq_epoch
    IN /\ rows' = [rows EXCEPT ![e] = Rebuilt(n, from, new)]
       /\ space' = [seq_epoch |-> e, head_sha |-> new,
                    head_seq |-> n + Len(FirstParentCommits(from, new)),
                    state |-> "ok"]
       /\ works' = works \cup {Request("reconcile", e), Request("full", e)}

RebuildInlineOnly(n, from, new) ==
    LET e == space.seq_epoch + 1
    IN /\ rows' = Append(rows, Rebuilt(n, from, new))
       /\ space' = [seq_epoch |-> e, head_sha |-> new,
                    head_seq |-> n + Len(FirstParentCommits(from, new)),
                    state |-> "ok"]
       /\ works' = works \cup {Request("reconcile", e)}

\* bumpEpoch, copySequencesUpTo, walk, upserts, advanceHead and the work
\* requests of one transaction; common to reassignment and repair.
Rebuild(n, from, new) ==
    LET e == space.seq_epoch + 1
    IN /\ rows' = Append(rows, Rebuilt(n, from, new))
       /\ space' = [seq_epoch |-> e, head_sha |-> new,
                    head_seq |-> n + Len(FirstParentCommits(from, new)),
                    state |-> "ok"]
       /\ works' = works \cup {Request("reconcile", e), Request("full", e)}

\* A merge base the old epoch does not number means renumbering from 1.
ReassignCommit(w, base) ==
    LET n == SeqOf(rows[space.seq_epoch], base)
        from == IF n = 0 THEN None ELSE base
    IN /\ At(w, "rewalk") /\ base \in MergeBases(wk[w].head, wk[w].new)
       /\ ~ ChainBroken(from, wk[w].new) /\ ~ RebuildThrows(n, from, wk[w].new)
       /\ Rebuild(n, from, wk[w].new)
       /\ Return(w)
       /\ UNCHANGED <<remote, mirror, pushes, events, intents>>

---------------------------------------------------------------------------
(* repairSequence, run by the operator's sequence_reassign job.            *)

RepairResolve(w) ==
    /\ w \in Repairers /\ At(w, "idle") /\ GraphHead # None
    /\ wk' = [wk EXCEPT ![w] = [Idle EXCEPT !.pc = "r_space", !.new = GraphHead]]
    /\ UNCHANGED <<remote, mirror, pushes, events, intents, space, rows, works,
                   lock, mirrorLock>>

RepairReadSpace(w) ==
    /\ At(w, "r_space")
    /\ wk' = [wk EXCEPT ![w] =
                IF space.state = "absent" THEN Idle
                ELSE [wk[w] EXCEPT !.pc = "r_stored", !.head = space.head_sha,
                                   !.epoch = space.seq_epoch,
                                   !.prior = space.state]]
    /\ UNCHANGED <<remote, mirror, pushes, events, intents, space, rows, works,
                   lock, mirrorLock>>

\* firstSequenceMismatch: the first number whose commit is not the chain's
\* commit at that place; a chain longer than the rows is no mismatch.
Mismatches(stored, actual) ==
    {s \in DOMAIN stored : s > Len(actual) \/ actual[s] # stored[s]}

IsFirst(s, S) == s \in S /\ \A t \in S : s <= t

RepairConsistent(w) ==
    /\ At(w, "r_stored")
    /\ Mismatches(rows[wk[w].epoch], Chain[wk[w].new]) = {}
    /\ works' = works \cup {Request("full", wk[w].epoch)}
    /\ wk' = [wk EXCEPT ![w] = Idle]
    /\ UNCHANGED <<remote, mirror, pushes, events, intents, space, rows, lock,
                   mirrorLock>>

RepairMismatch(w) ==
    /\ At(w, "r_stored")
    /\ \E s \in DOMAIN rows[wk[w].epoch] :
         /\ IsFirst(s, Mismatches(rows[wk[w].epoch], Chain[wk[w].new]))
         /\ wk' = [wk EXCEPT ![w].pc = "r_lock", ![w].diverged = s]
    /\ UNCHANGED <<remote, mirror, pushes, events, intents, space, rows, works,
                   lock, mirrorLock>>

\* resolveHead or the long walk threw before the lock was taken.
RepairGraphFails(w) ==
    /\ wk[w].pc \in {"r_space", "r_stored"}
    /\ Goto(w, "stale")
    /\ UNCHANGED <<remote, mirror, pushes, events, intents, space, rows, works,
                   lock, mirrorLock>>

\* Mutant of RepairFenced: an ordinary assignment does not raise the epoch.
RepairFencedByEpoch(w) == space.seq_epoch # wk[w].epoch

\* What was analysed is no longer what is stored.
RepairFenced(w) == \/ space.seq_epoch # wk[w].epoch
                   \/ space.head_sha # wk[w].head

\* `locked', `epoch_moved' and `head_moved' before anything was marked.
RepairSkip(w) ==
    /\ At(w, "r_lock") /\ (lock # None \/ RepairFenced(w))
    /\ wk' = [wk EXCEPT ![w] = Idle]
    /\ UNCHANGED <<remote, mirror, pushes, events, intents, space, rows, works,
                   lock, mirrorLock>>

RepairLock(w) ==
    /\ At(w, "r_lock") /\ lock = None /\ ~ RepairFenced(w)
    /\ lock' = w
    /\ Goto(w, "r_mark")
    /\ UNCHANGED <<remote, mirror, pushes, events, intents, space, rows, works,
                   mirrorLock>>

\* Marked on a connection of its own, then the row is updated and stays
\* locked until the transaction ends.
RepairMark(w) ==
    /\ At(w, "r_mark") /\ RowFree(w)
    /\ space' = [space EXCEPT !.state = "reassigning"]
    /\ Goto(w, "r_fence")
    /\ UNCHANGED <<remote, mirror, pushes, events, intents, rows, works, lock,
                   mirrorLock>>

RepairFence(w) ==
    /\ At(w, "r_fence")
    /\ IF GraphHead = wk[w].new
       THEN Goto(w, "r_commit") /\ lock' = lock
       ELSE Rollback(w, "r_restore")
    /\ UNCHANGED <<remote, mirror, pushes, events, intents, space, rows, works,
                   mirrorLock>>

\* Mutant of RepairCommit: the repair keeps every number and appends.
RepairCommitAppends(w) ==
    /\ At(w, "r_commit") /\ FirstParentCommits(space.head_sha, wk[w].new) # <<>>
    /\ Rebuild(space.head_seq, space.head_sha, wk[w].new)
    /\ lock' = None
    /\ wk' = [wk EXCEPT ![w] = Idle]
    /\ UNCHANGED <<remote, mirror, pushes, events, intents, mirrorLock>>

\* The verified prefix is copied, the rest walked from its last commit.
RepairCommit(w) ==
    LET n == wk[w].diverged - 1
        from == IF n = 0 THEN None ELSE Chain[wk[w].new][n]
    IN /\ At(w, "r_commit")
       /\ ~ ChainBroken(from, wk[w].new) /\ ~ RebuildThrows(n, from, wk[w].new)
       /\ Rebuild(n, from, wk[w].new)
       /\ lock' = None
       /\ wk' = [wk EXCEPT ![w] = Idle]
       /\ UNCHANGED <<remote, mirror, pushes, events, intents, mirrorLock>>

\* restoreSequenceState, after the ROLLBACK that released the space's lock.
RepairRestore(w) ==
    /\ At(w, "r_restore") /\ RowFree(w)
    /\ space' = IF space.state = "reassigning"
                THEN [space EXCEPT !.state = wk[w].prior] ELSE space
    /\ wk' = [wk EXCEPT ![w] = Idle]
    /\ UNCHANGED <<remote, mirror, pushes, events, intents, rows, works, lock,
                   mirrorLock>>

---------------------------------------------------------------------------
\* The process dies: PostgreSQL ends its sessions, the lease runs out, the
\* event stays pending on the bus.
Crash(w) ==
    /\ ~ At(w, "idle")
    /\ GiveUp(w)
    /\ UNCHANGED <<remote, mirror, pushes, events, space, rows, works>>

Environment ==
    \/ \E c \in Heads : Push(c, FALSE) \/ (Consumers # {} /\ Push(c, TRUE))
    \/ DeleteBranch
    \/ SweepLock \/ SweepSync

AssignStep(w) ==
    \/ \E i \in Pushes : TakeEvent(w, i) \/ TakeIntent(w, i)
    \/ PrepareApi(w) \/ PrepareMirror(w) \/ PrepareBusy(w)
    \/ Fetch(w) \/ FetchFails(w)
    \/ AssignLock(w) \/ AssignLocked(w)
    \/ ResolveForward(w) \/ ResolveRewritten(w) \/ ResolveNoBranch(w)
    \/ AssignCommit(w)
    \/ Publish(w) \/ PublishFails(w) \/ Cover(w)

ReassignStep(w) ==
    \/ MarkReassigning(w) \/ ReassignLocked(w) \/ ReassignHeadMoved(w)
    \/ ReassignLock(w)
    \/ \E base \in Commits \cup {None} : ReassignCommit(w, base)

RepairStep(w) ==
    \/ RepairResolve(w) \/ RepairReadSpace(w)
    \/ RepairConsistent(w) \/ RepairMismatch(w) \/ RepairGraphFails(w)
    \/ RepairSkip(w) \/ RepairLock(w) \/ RepairMark(w)
    \/ RepairFence(w) \/ RepairCommit(w) \/ RepairRestore(w)

WorkerStep(w) ==
    \/ AssignStep(w) \/ ReassignStep(w) \/ RepairStep(w)
    \/ GraphFails(w) \/ MarkStale(w) \/ Crash(w)

Next == Environment \/ \E w \in Workers : WorkerStep(w)

Spec == Init /\ [][Next]_vars

---------------------------------------------------------------------------
(* Properties.                                                             *)

\* Numbers are cited, so no step of any worker may remove a row or point a
\* number of any epoch, the current one included, at another commit
\* (upsertMergeSequence, reassignSequence, repairSequence).
RowsAppendOnly ==
    [][\A e \in 1..Len(rows) : \A s \in DOMAIN rows[e] :
          /\ e \in 1..Len(rows') /\ s \in DOMAIN rows'[e]
          /\ rows'[e][s] = rows[e][s]]_vars

\* Whatever the history: the current epoch numbers 1..head_seq without gaps,
\* and the stored head is the commit with the last number.
HeadEndsRows ==
    /\ Len(rows) = space.seq_epoch
    /\ DOMAIN rows[space.seq_epoch] = 1..space.head_seq
    /\ space.head_sha = None => space.head_seq = 0
    /\ space.head_sha # None =>
         space.head_seq > 0 /\ rows[space.seq_epoch][space.head_seq] = space.head_sha

\* The product's claim: the numbering of the current epoch is git's
\* first-parent chain of the stored head, number for number.
NumberingIsChain ==
    space.head_sha # None => rows[space.seq_epoch] = Chain[space.head_sha]

\* What a worker computes with under the space's lock is what is stored: the
\* head (and for a repair the epoch) it read earlier is still the current one.
AnalysisIsCurrent ==
    \A w \in Workers :
        /\ wk[w].pc \in {"resolve", "walk", "rewalk", "r_mark", "r_fence", "r_commit"} =>
             lock = w /\ wk[w].head = space.head_sha
        /\ wk[w].pc \in {"r_mark", "r_fence", "r_commit"} =>
             wk[w].epoch = space.seq_epoch

\* A repair ends with git's chain whatever the numbering was before.
RepairYieldsChain ==
    [][\A w \in Repairers : RepairCommit(w) =>
          rows'[space'.seq_epoch] = Chain[space'.head_sha]]_vars

\* A crash right after a commit loses no derived view: an epoch that numbers
\* anything has its projection and its M reconciliation requested durably.
RowsHaveWork ==
    \A e \in 1..Len(rows) : DOMAIN rows[e] # {} =>
        /\ Request("reconcile", e) \in works
        /\ Request("tail", e) \in works \/ Request("full", e) \in works

Quiescent ==
    /\ events = {} /\ \A i \in Pushes : intents[i] \in {"none", "done"}
    /\ \A w \in Workers : At(w, "idle")

\* No push is forgotten: once every event is acknowledged, every intent done
\* and every worker idle, the stored head is the branch's head.
QuiescentCaughtUp ==
    Quiescent /\ remote # None => space.head_sha = remote
============================================================================
