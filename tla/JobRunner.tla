------------------------------ MODULE JobRunner ------------------------------
(****************************************************************************)
(* The job table and the runner of backfill and snapshot_bootstrap jobs.    *)
(* Processes claim a queued job under a cap, go through the pull requests   *)
(* of a repository page by page, save their cursor and finish the job;      *)
(* operators pause, resume and cancel it by its row alone.  One type of job *)
(* is modelled at a time: the two run the same code, but a bootstrap is     *)
(* queued by the reconcile scan, lists by creation and, when it ends        *)
(* without a failure, marks its repository as complete.                     *)
(****************************************************************************)
EXTENDS Naturals, Sequences, FiniteSets, Functions

CONSTANTS
  Bootstrap,     \* the type: snapshot_bootstrap (TRUE) or backfill
  Repos,         \* targets
  Runners,       \* processes
  Operating,     \* operators pause, resume and cancel
  MaxConcurrent, \* maxConcurrent of claimNextJob
  PageSize,      \* BACKFILL_PAGE_SIZE
  MaxPrs, MaxJobs, MaxActions, MaxFaults,   \* bounds
  None

ASSUME JobAssumption ==
  /\ Bootstrap \in BOOLEAN /\ Operating \in BOOLEAN
  /\ MaxConcurrent \in Nat \ {0} /\ PageSize \in Nat \ {0}
  /\ MaxPrs \in Nat /\ MaxJobs \in Nat /\ MaxActions \in Nat /\ MaxFaults \in Nat
  /\ None \notin Runners

VARIABLES
  jobs,      \* the job table
  list,      \* the pull requests of a repository in the order GitHub lists them (external)
  snap,      \* pull_request_snapshot, or the index: the pull requests written
  complete,  \* snapshot_bootstrapped_at of a repository: the job that set it, or 0
  claiming,  \* the holder of the claim lock of the type
  proc,      \* the runners
  pages,     \* history: the pages of a job that were worked through
  owed,      \* history: the pull requests of its repository when a job was first claimed
  actions, faults

vars == <<jobs, list, snap, complete, claiming, proc, pages, owed, actions, faults>>

States == {"queued", "running", "paused", "completed", "failed", "cancelled"}
Active == {"queued", "running", "paused"}
Idle == [pc |-> "idle", job |-> 0, page |-> 0, items |-> <<>>, more |-> FALSE, failed |-> FALSE, end |-> "completed"]

Fault == faults < MaxFaults /\ faults' = faults + 1
With(state) == {j \in DOMAIN jobs : jobs[j].state = state}

-----------------------------------------------------------------------------
(* GitHub (external) *)

Create(r) ==
  /\ Len(list[r]) < MaxPrs
  /\ list' = [list EXCEPT ![r] = @ \o <<Len(@) + 1>>]
  /\ UNCHANGED <<jobs, snap, complete, claiming, proc, pages, owed, actions, faults>>

(* A list by the last change after a change of p. *)
Bumped(s, p) ==
  LET k == CHOOSE i \in DOMAIN s : s[i] = p
  IN  SubSeq(s, 1, k - 1) \o SubSeq(s, k + 1, Len(s)) \o <<p>>

(* Mutant of Listed: the list is sorted by the last change. *)
ListedByUpdate(r, p) == Bumped(list[r], p)

(* listPullRequestsPage: a bootstrap sorts by creation, which a change does *)
(* not touch; a backfill by the last change.                                *)
Listed(r, p) == IF Bootstrap THEN list[r] ELSE Bumped(list[r], p)

(* A pull request changes. *)
Update(r, p) ==
  /\ Fault
  /\ p \in Range(list[r])
  /\ list' = [list EXCEPT ![r] = Listed(r, p)]
  /\ UNCHANGED <<jobs, snap, complete, claiming, proc, pages, owed, actions>>

-----------------------------------------------------------------------------
(* The job table *)

(* enqueueJob, of operators or of enqueueSnapshotBootstrap; job_active_uk   *)
(* allows one active job per target.                                        *)
Enqueue(r) ==
  /\ Len(jobs) < MaxJobs
  /\ ~\E j \in DOMAIN jobs : jobs[j].repo = r /\ jobs[j].state \in Active
  /\ Bootstrap => complete[r] = 0
  /\ jobs' = jobs \o <<[repo |-> r, state |-> "queued", page |-> 1]>>
  /\ pages' = pages \o <<{}>> /\ owed' = owed \o <<{}>>
  /\ UNCHANGED <<list, snap, complete, claiming, proc, actions, faults>>

Moved(j, state) == [jobs EXCEPT ![j].state = state]

(* transitionJob *)
Transition(j, from, to) ==
  /\ Operating /\ actions < MaxActions
  /\ jobs[j].state \in from
  /\ jobs' = Moved(j, to)
  /\ actions' = actions + 1
  /\ UNCHANGED <<list, snap, complete, claiming, proc, pages, owed, faults>>

Pause(j) == Transition(j, {"queued", "running"}, "paused")
Resume(j) == Transition(j, {"paused"}, "queued")
Cancel(j) == Transition(j, Active, "cancelled")

(* Mutant of ClaimFree: the count and the claim are one transaction, and    *)
(* nothing more.                                                            *)
ClaimFreeAlways == TRUE

(* advisoryXactLock of the type *)
ClaimFree == claiming = None

(* claimNextJob: the lock and the count of the running jobs ... *)
ClaimCount(t) ==
  /\ proc[t].pc = "idle" /\ ClaimFree
  /\ Cardinality(With("running")) < MaxConcurrent /\ With("queued") # {}
  /\ claiming' = t
  /\ proc' = [proc EXCEPT ![t].pc = "claim"]
  /\ UNCHANGED <<jobs, list, snap, complete, pages, owed, actions, faults>>

(* ... and the oldest queued job, if there still is one. *)
ClaimTake(t) ==
  LET oldest == {j \in With("queued") : \A k \in With("queued") : j <= k}
  IN  /\ proc[t].pc = "claim"
      /\ claiming' = None
      /\ \/ /\ oldest = {}
            /\ proc' = [proc EXCEPT ![t] = Idle]
            /\ UNCHANGED <<jobs, owed>>
         \/ \E j \in oldest :
              /\ jobs' = Moved(j, "running")
              /\ proc' = [proc EXCEPT ![t] = [Idle EXCEPT !.pc = "look", !.job = j, !.page = jobs[j].page]]
              /\ owed' = [owed EXCEPT ![j] = IF @ = {} THEN Range(list[jobs[j].repo]) ELSE @]
      /\ UNCHANGED <<list, snap, complete, pages, actions, faults>>

-----------------------------------------------------------------------------
(* runBackfillJob *)

RepoOf(t) == jobs[proc[t].job].repo

(* isJobRunning: the row says so, whoever runs it. *)
Look(t) ==
  /\ proc[t].pc = "look"
  /\ proc' = [proc EXCEPT ![t] = IF jobs[@.job].state = "running" THEN [@ EXCEPT !.pc = "list"] ELSE Idle]
  /\ UNCHANGED <<jobs, list, snap, complete, claiming, pages, owed, actions, faults>>

(* A page is listed; or the rate limit is met, so that the cursor is saved  *)
(* and the round starts again; or the job fails.                            *)
ListPage(t) ==
  LET q == proc[t]
      all == list[RepoOf(t)]
      end == IF q.page * PageSize < Len(all) THEN q.page * PageSize ELSE Len(all)
      items == SubSeq(all, (q.page - 1) * PageSize + 1, end)
  IN  /\ q.pc = "list"
      /\ \/ /\ proc' = [proc EXCEPT ![t].pc = "item", ![t].items = items, ![t].more = (Len(items) >= PageSize)]
            /\ UNCHANGED <<jobs, faults>>
         \/ /\ Fault
            /\ jobs' = [jobs EXCEPT ![q.job].page = q.page]
            /\ proc' = [proc EXCEPT ![t].pc = "look"]
         \/ /\ Fault
            /\ proc' = [proc EXCEPT ![t].pc = "finish", ![t].end = "failed"]
            /\ UNCHANGED jobs
      /\ UNCHANGED <<list, snap, complete, claiming, pages, owed, actions>>

(* projectOne, for the next item of the page; a failure is kept in mind. *)
Item(t) ==
  LET q == proc[t]
  IN  /\ q.pc = "item" /\ q.items # <<>>
      /\ \/ /\ snap' = snap \cup {<<RepoOf(t), q.items[1]>>}
            /\ proc' = [proc EXCEPT ![t].items = Tail(@)]
            /\ UNCHANGED faults
         \/ /\ Fault
            /\ proc' = [proc EXCEPT ![t].items = Tail(@), ![t].failed = TRUE]
            /\ UNCHANGED snap
      /\ UNCHANGED <<jobs, list, complete, claiming, pages, owed, actions>>

(* Mutant of Saved: the cursor that is saved is a page ahead. *)
SavedAhead(t) == proc[t].page + 2

(* advanceCursor *)
Saved(t) == proc[t].page + 1

(* The page is done: the cursor advances, and is saved at the end and when  *)
(* PROGRESS_INTERVAL_MS has passed.                                         *)
Save(t) ==
  LET q == proc[t]
  IN  /\ q.pc = "item" /\ q.items = <<>>
      /\ pages' = [pages EXCEPT ![q.job] = @ \cup {q.page}]
      /\ proc' = [proc EXCEPT ![t].page = @ + 1, ![t].pc = IF q.more THEN "look" ELSE "finish"]
      /\ \/ jobs' = [jobs EXCEPT ![q.job].page = Saved(t)]
         \/ q.more /\ UNCHANGED jobs
      /\ UNCHANGED <<list, snap, complete, claiming, owed, actions, faults>>

(* finishJobIfRunning *)
Finished(j, end) == IF jobs[j].state = "running" THEN Moved(j, end) ELSE jobs

Finish(t) ==
  LET q == proc[t]
  IN  /\ q.pc = "finish"
      /\ jobs' = Finished(q.job, q.end)
      /\ proc' = [proc EXCEPT ![t] = IF q.end = "completed" /\ Bootstrap THEN [@ EXCEPT !.pc = "after"] ELSE Idle]
      /\ UNCHANGED <<list, snap, complete, claiming, pages, owed, actions, faults>>

(* completeSnapshotBootstrap: the run had no failures. *)
Whole(t) == ~proc[t].failed

After(t) ==
  /\ proc[t].pc = "after"
  /\ complete' = IF Whole(t) THEN [complete EXCEPT ![RepoOf(t)] = proc[t].job] ELSE complete
  /\ proc' = [proc EXCEPT ![t] = Idle]
  /\ UNCHANGED <<jobs, list, snap, claiming, pages, owed, actions, faults>>

Run(t) == ClaimCount(t) \/ ClaimTake(t) \/ Look(t) \/ ListPage(t) \/ Item(t) \/ Save(t) \/ Finish(t) \/ After(t)

(* The process dies.  Its job stays `running' until an operator moves it.   *)
Die(t) ==
  /\ proc[t].pc # "idle" /\ Fault
  /\ proc' = [proc EXCEPT ![t] = Idle]
  /\ claiming' = IF claiming = t THEN None ELSE claiming
  /\ UNCHANGED <<jobs, list, snap, complete, pages, owed, actions>>

-----------------------------------------------------------------------------
Init ==
  /\ jobs = <<>> /\ pages = <<>> /\ owed = <<>>
  /\ list = [r \in Repos |-> <<1>>]
  /\ snap = {}
  /\ complete = [r \in Repos |-> 0]
  /\ claiming = None
  /\ proc = [t \in Runners |-> Idle]
  /\ actions = 0 /\ faults = 0

Next ==
  \/ \E r \in Repos : Create(r) \/ Enqueue(r) \/ \E p \in 1 .. MaxPrs : Update(r, p)
  \/ \E j \in DOMAIN jobs : Pause(j) \/ Resume(j) \/ Cancel(j)
  \/ \E t \in Runners : Run(t) \/ Die(t)

Spec == Init /\ [][Next]_vars

-----------------------------------------------------------------------------
(* The jobs and the runners have their shapes, and a target has at most one *)
(* active job (job, job_active_uk).                                         *)
TypeOK ==
  /\ \A j \in DOMAIN jobs : jobs[j].state \in States /\ jobs[j].repo \in Repos /\ jobs[j].page \in 1 .. MaxPrs + 3
  /\ \A i, j \in DOMAIN jobs : jobs[i].repo = jobs[j].repo /\ {jobs[i].state, jobs[j].state} \subseteq Active => i = j
  /\ \A t \in Runners : proc[t].job \in 0 .. Len(jobs)

(* No more jobs of the type run than the cap, however many runners claim at *)
(* the same time (claimNextJob).                                            *)
CapIsKept == Cardinality(With("running")) <= MaxConcurrent

(* A completed job went through every page from the first to the last: also *)
(* when it was paused and resumed while its first runner went on, so that   *)
(* two runners worked on it, or when a runner died (runBackfillJob).        *)
CompletedIsCovered ==
  \A j \in DOMAIN jobs : jobs[j].state = "completed" =>
    pages[j] # {} /\ \A i \in 1 .. MaxPrs + 1 : i \in pages[j] => \A k \in 1 .. i : k \in pages[j]

(* A repository is marked complete only when every pull request it had when *)
(* the job was claimed has a snapshot: "a partial completion is not         *)
(* recorded" (completeSnapshotBootstrap).                                   *)
CompleteIsWhole ==
  \A r \in DOMAIN complete : complete[r] # 0 => \A p \in owed[complete[r]] : <<r, p>> \in snap
==============================================================================
