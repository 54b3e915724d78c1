------------------------ MODULE JobsAndScopesProofs ------------------------
(***************************************************************************)
(* Proofs about JobRunner, for any repositories, runners, cap, page size,  *)
(* pull requests, jobs and faults.                                         *)
(*                                                                         *)
(* The cap holds because the claim lock spans the count and the claim, and *)
(* everybody else can only take jobs out of `running'.  A completed job is *)
(* covered because every cursor, a runner's own or the saved one, stands   *)
(* behind pages that were worked through.  A repository marked complete is *)
(* whole when no operator requeues a job: then a job has one runner, that  *)
(* goes through the list from its start, and the list only grows.          *)
(*                                                                         *)
(* And about ScopeCache, for any requests, processes, lifetimes, changes   *)
(* and failing calls.  A row is fenced because a refresh knows the version *)
(* it read before it asked GitHub, and an invalidation raises it.  A scope *)
(* never gets younger on its way: what a request asked GitHub for is as of *)
(* its begin at least, and both layers keep the time of the answer.        *)
(***************************************************************************)
EXTENDS JobRunner, ScopeCache, FiniteSetTheorems, TLAPS

Points == {"idle", "claim", "look", "list", "item", "finish", "after"}
Job == [repo : Repos, state : States, page : Nat \ {0}]
Proc == [pc : Points, job : Nat, page : Nat, items : Seq(Nat), more : BOOLEAN, failed : BOOLEAN,
         end : {"completed", "failed"}]

At(t, points) == proc[t].pc \in points
Works(t) == At(t, {"look", "list", "item", "finish", "after"})

TypeInv ==
  /\ jobs \in Seq(Job) /\ pages \in Seq(SUBSET Nat) /\ owed \in Seq(SUBSET Nat)
  /\ Len(pages) = Len(jobs) /\ Len(owed) = Len(jobs)
  /\ list \in [Repos -> Seq(Nat)] /\ complete \in [Repos -> Nat]
  /\ claiming \in Runners \cup {None}
  /\ proc \in [Runners -> Proc]
  /\ \A t \in Runners : Works(t) => proc[t].job \in DOMAIN jobs /\ proc[t].page # 0

(* A runner between the count and the claim has the lock, and what it       *)
(* counted has not grown since.                                             *)
LockInv ==
  \A t \in Runners : At(t, {"claim"}) =>
    claiming = t /\ Cardinality(With("running")) < MaxConcurrent

(* Every page before a cursor was worked through.                           *)
Behind(done, page) == \A k \in 1 .. page - 1 : k \in done

RowCovered(j) ==
  /\ \A i \in pages[j] : Behind(pages[j], i)
  /\ Behind(pages[j], jobs[j].page)
  /\ jobs[j].state = "completed" => pages[j] # {}

RunnerCovered(t) ==
  /\ Behind(pages[proc[t].job], proc[t].page)
  /\ At(t, {"finish", "after"}) /\ proc[t].end = "completed" => pages[proc[t].job] # {}

CoverInv ==
  /\ \A j \in DOMAIN jobs : RowCovered(j)
  /\ \A t \in Runners : Works(t) => RunnerCovered(t)

(* The list by creation: a pull request is where its number says.           *)
ListInv == \A r \in Repos : \A i \in 1 .. Len(list[r]) : list[r][i] = i

(* A queued job was never claimed, and a claimed one has one runner.        *)
OnceInv ==
  /\ \A j \in DOMAIN jobs : jobs[j].state = "queued" => jobs[j].page = 1 /\ owed[j] = {}
  /\ \A t \in Runners : Works(t) =>
       /\ jobs[proc[t].job].state # "queued"
       /\ \A u \in Runners : Works(u) /\ proc[u].job = proc[t].job => u = t
  /\ \A r \in Repos : complete[r] # 0 => complete[r] \in DOMAIN jobs /\ jobs[complete[r]].state # "queued"

(* What a job owes is in the list of its repository, now and later.         *)
OwedInv == \A j \in DOMAIN jobs : \A p \in owed[j] : p \in 1 .. Len(list[jobs[j].repo])

Written(j, p) == <<jobs[j].repo, p>> \in snap

(* What a runner without a failure has written of what its job owes.        *)
Progress(t) ==
  LET j == proc[t].job
      before == (proc[t].page - 1) * PageSize
      behind == proc[t].page * PageSize
  IN  /\ At(t, {"look", "list"}) => \A p \in owed[j] : p <= before => Written(j, p)
      /\ At(t, {"item"}) =>
           \A p \in owed[j] : p <= behind \/ ~proc[t].more =>
             Written(j, p) \/ \E i \in 1 .. Len(proc[t].items) : proc[t].items[i] = p
      /\ At(t, {"finish", "after"}) /\ proc[t].end = "completed" => \A p \in owed[j] : Written(j, p)

ProgressInv == \A t \in Runners : Works(t) /\ ~proc[t].failed => Progress(t)

AfterInv == \A t \in Runners : At(t, {"after"}) => proc[t].end = "completed"

WholeInv == \A r \in Repos : complete[r] # 0 => jobs[complete[r]].repo = r
MarkedInv == \A r \in Repos : complete[r] # 0 => \A p \in owed[complete[r]] : <<r, p>> \in snap

(* The inductive invariant of every run, and the one of a bootstrap without *)
(* operators.                                                               *)
IInv == TypeInv /\ LockInv /\ CapIsKept /\ CoverInv

BInv == TypeInv /\ ListInv /\ OnceInv /\ OwedInv /\ ProgressInv /\ AfterInv /\ WholeInv /\ MarkedInv

----------------------------------------------------------------------------
(* Rows and processes.                                                      *)

(* A row of the job table is replaced.                                      *)
LEMMA ReplaceRow ==
  ASSUME NEW S, NEW s \in Seq(S), NEW j \in DOMAIN s, NEW v \in S
  PROVE  /\ [s EXCEPT ![j] = v] \in Seq(S) /\ Len([s EXCEPT ![j] = v]) = Len(s)
         /\ DOMAIN [s EXCEPT ![j] = v] = DOMAIN s
         /\ \A k \in DOMAIN s : [s EXCEPT ![j] = v][k] = IF k = j THEN v ELSE s[k]
<1>1. s \in [1 .. Len(s) -> S] /\ DOMAIN s = 1 .. Len(s) /\ Len(s) \in Nat
  OBVIOUS
<1>2. [s EXCEPT ![j] = v] \in [1 .. Len(s) -> S]
  BY <1>1
<1>3. \A f \in [1 .. Len(s) -> S] : f \in Seq(S) /\ Len(f) = Len(s)
  BY <1>1
<1>. QED  BY <1>1, <1>2, <1>3

(* transitionJob and finishJobIfRunning change the state of one row.        *)
LEMMA MovedOK ==
  ASSUME jobs \in Seq(Job), NEW j \in DOMAIN jobs, NEW s \in States
  PROVE  /\ Moved(j, s) \in Seq(Job) /\ Len(Moved(j, s)) = Len(jobs)
         /\ DOMAIN Moved(j, s) = DOMAIN jobs
         /\ \A k \in DOMAIN jobs : /\ Moved(j, s)[k].repo = jobs[k].repo
                                   /\ Moved(j, s)[k].page = jobs[k].page
                                   /\ Moved(j, s)[k].state = IF k = j THEN s ELSE jobs[k].state
<1>. DEFINE v == [jobs[j] EXCEPT !.state = s]
<1>1. jobs[j] \in Job
  OBVIOUS
<1>2. v \in Job /\ v.repo = jobs[j].repo /\ v.page = jobs[j].page /\ v.state = s
  BY <1>1 DEF Job
<1>3. Moved(j, s) = [jobs EXCEPT ![j] = v]
  BY DEF Moved
<1>. HIDE DEF v
<1>. QED  BY <1>2, <1>3, ReplaceRow

(* advanceCursor changes the page of one row.                               *)
LEMMA PagedOK ==
  ASSUME jobs \in Seq(Job), NEW j \in DOMAIN jobs, NEW n \in Nat \ {0}
  PROVE  LET paged == [jobs EXCEPT ![j].page = n]
         IN  /\ paged \in Seq(Job) /\ Len(paged) = Len(jobs) /\ DOMAIN paged = DOMAIN jobs
             /\ \A k \in DOMAIN jobs : /\ paged[k].repo = jobs[k].repo
                                       /\ paged[k].state = jobs[k].state
                                       /\ paged[k].page = IF k = j THEN n ELSE jobs[k].page
<1>. DEFINE v == [jobs[j] EXCEPT !.page = n]
<1>1. jobs[j] \in Job
  OBVIOUS
<1>2. v \in Job /\ v.repo = jobs[j].repo /\ v.state = jobs[j].state /\ v.page = n
  BY <1>1 DEF Job
<1>3. [jobs EXCEPT ![j].page = n] = [jobs EXCEPT ![j] = v]
  OBVIOUS
<1>. HIDE DEF v
<1>. QED  BY <1>2, <1>3, ReplaceRow

(* finishJobIfRunning: a job that runs ends, another one stays.             *)
LEMMA FinishedOK ==
  ASSUME jobs \in Seq(Job), NEW j \in DOMAIN jobs, NEW e \in {"completed", "failed"}
  PROVE  /\ Finished(j, e) \in Seq(Job) /\ Len(Finished(j, e)) = Len(jobs)
         /\ DOMAIN Finished(j, e) = DOMAIN jobs
         /\ \A k \in DOMAIN jobs :
              /\ Finished(j, e)[k].repo = jobs[k].repo
              /\ Finished(j, e)[k].page = jobs[k].page
              /\ Finished(j, e)[k].state = IF k = j /\ jobs[k].state = "running" THEN e
                                           ELSE jobs[k].state
<1>1. e \in States
  BY DEF States
<1>. QED  BY <1>1, MovedOK DEF Finished

(* A process is replaced.                                                   *)
LEMMA ReplaceProc ==
  ASSUME TypeInv, NEW t \in Runners, NEW q \in Proc, proc' = [proc EXCEPT ![t] = q]
  PROVE  /\ proc' \in [Runners -> Proc] /\ proc'[t] = q
         /\ \A u \in Runners \ {t} : proc'[u] = proc[u]
BY DEF TypeInv

LEMMA IdleOK == Idle \in Proc /\ Idle.pc = "idle" /\ Idle.failed = FALSE
BY DEF Idle, Proc, Points

(* The types of a process.                                                  *)
LEMMA ProcOK ==
  ASSUME TypeInv, NEW t \in Runners
  PROVE  /\ proc[t] \in Proc /\ proc[t].items \in Seq(Nat) /\ proc[t].page \in Nat
         /\ Works(t) => proc[t].job \in DOMAIN jobs /\ proc[t].page \in Nat \ {0}
BY DEF TypeInv, Proc

----------------------------------------------------------------------------
(* What each action does, for any state of the right types.                 *)

(* A pull request is created or changes: a list is replaced.                *)
LEMMA ListsOK ==
  ASSUME TypeInv, NEW r \in Repos, Create(r) \/ \E p \in 1 .. MaxPrs : Update(r, p)
  PROVE  /\ list' \in [Repos -> Seq(Nat)]
         /\ UNCHANGED <<jobs, snap, complete, claiming, proc, pages, owed>>
<1>1. list \in [Repos -> Seq(Nat)] /\ list[r] \in Seq(Nat)
  BY DEF TypeInv
<1>2. CASE Create(r)
  <2>1. list[r] \o <<Len(list[r]) + 1>> \in Seq(Nat)
    BY <1>1
  <2>. QED  BY <1>1, <1>2, <2>1 DEF Create
<1>3. ASSUME NEW p \in 1 .. MaxPrs, Update(r, p)
      PROVE  /\ list' \in [Repos -> Seq(Nat)]
             /\ UNCHANGED <<jobs, snap, complete, claiming, proc, pages, owed>>
  <2>1. PICK k \in DOMAIN list[r] : k = CHOOSE i \in DOMAIN list[r] : list[r][i] = p
    BY <1>3 DEF Update, Range
  <2>2. SubSeq(list[r], 1, k - 1) \in Seq(Nat) /\ SubSeq(list[r], k + 1, Len(list[r])) \in Seq(Nat)
        /\ p \in Nat
    BY <1>1, JobAssumption
  <2>3. Listed(r, p) \in Seq(Nat)
    BY <1>1, <2>1, <2>2 DEF Listed, Bumped
  <2>. QED  BY <1>1, <1>3, <2>3 DEF Update
<1>. QED  BY <1>2, <1>3

(* Without a step of a runner and of the table, the types stay.             *)
LEMMA TypeFrame ==
  ASSUME TypeInv, UNCHANGED <<jobs, pages, owed, proc, claiming, complete>>,
         list' \in [Repos -> Seq(Nat)]
  PROVE  TypeInv'
BY DEF TypeInv, Works, At

(* enqueueJob: a row is added, that nobody works on.                        *)
LEMMA EnqueueOK ==
  ASSUME TypeInv, NEW r \in Repos, Enqueue(r)
  PROVE  LET n == Len(jobs) + 1
         IN  /\ DOMAIN jobs' = DOMAIN jobs \cup {n} /\ n \notin DOMAIN jobs
             /\ \A k \in DOMAIN jobs : jobs'[k] = jobs[k] /\ pages'[k] = pages[k] /\ owed'[k] = owed[k]
             /\ jobs'[n].repo = r /\ jobs'[n].state = "queued" /\ jobs'[n].page = 1
             /\ pages'[n] = {} /\ owed'[n] = {}
             /\ UNCHANGED <<list, snap, complete, claiming, proc>>
             /\ TypeInv'
<1>. DEFINE new == [repo |-> r, state |-> "queued", page |-> 1]
<1>0. /\ jobs' = jobs \o <<new>> /\ pages' = pages \o <<{}>> /\ owed' = owed \o <<{}>>
      /\ UNCHANGED <<list, snap, complete, claiming, proc>>
  BY DEF Enqueue
<1>1. new \in Job /\ new.repo = r /\ new.state = "queued" /\ new.page = 1
  BY DEF Job, States
<1>. HIDE DEF new
<1>2. /\ jobs \in Seq(Job) /\ pages \in Seq(SUBSET Nat) /\ owed \in Seq(SUBSET Nat)
      /\ Len(pages) = Len(jobs) /\ Len(owed) = Len(jobs)
  BY DEF TypeInv
<1>3. /\ jobs' \in Seq(Job) /\ Len(jobs') = Len(jobs) + 1
      /\ \A k \in DOMAIN jobs : jobs'[k] = jobs[k]
      /\ jobs'[Len(jobs) + 1] = new
  BY <1>0, <1>1, <1>2
<1>4. {} \in SUBSET Nat
  OBVIOUS
<1>5. /\ pages' \in Seq(SUBSET Nat) /\ Len(pages') = Len(pages) + 1
      /\ \A k \in 1 .. Len(pages) : pages'[k] = pages[k]
      /\ pages'[Len(pages) + 1] = {}
  BY <1>0, <1>2, <1>4
<1>6. /\ owed' \in Seq(SUBSET Nat) /\ Len(owed') = Len(owed) + 1
      /\ \A k \in 1 .. Len(owed) : owed'[k] = owed[k]
      /\ owed'[Len(owed) + 1] = {}
  BY <1>0, <1>2, <1>4
<1>7. DOMAIN jobs = 1 .. Len(jobs) /\ Len(jobs) \in Nat /\ DOMAIN jobs' = 1 .. Len(jobs) + 1
  BY <1>2, <1>3
<1>8. DOMAIN jobs' = DOMAIN jobs \cup {Len(jobs) + 1} /\ Len(jobs) + 1 \notin DOMAIN jobs
  BY <1>7
<1>9. TypeInv'
  BY <1>0, <1>2, <1>3, <1>5, <1>6, <1>8 DEF TypeInv, Works, At
<1>. QED  BY <1>0, <1>1, <1>2, <1>3, <1>5, <1>6, <1>7, <1>8, <1>9

(* What a step does that changes rows in place and one process.             *)
InPlace ==
  /\ jobs' \in Seq(Job) /\ Len(jobs') = Len(jobs) /\ DOMAIN jobs' = DOMAIN jobs
  /\ \A k \in DOMAIN jobs : jobs'[k].repo = jobs[k].repo

(* transitionJob: the state of one row, and nothing else.                   *)
LEMMA TransitionOK ==
  ASSUME TypeInv, NEW j \in DOMAIN jobs, Pause(j) \/ Resume(j) \/ Cancel(j)
  PROVE  \E s \in {"paused", "queued", "cancelled"} :
           /\ InPlace /\ Operating
           /\ \A k \in DOMAIN jobs : /\ jobs'[k].page = jobs[k].page
                                     /\ jobs'[k].state = IF k = j THEN s ELSE jobs[k].state
           /\ UNCHANGED <<list, snap, complete, claiming, proc, pages, owed>>
           /\ TypeInv'
<1>1. PICK s \in {"paused", "queued", "cancelled"} :
        /\ jobs' = Moved(j, s) /\ Operating
        /\ UNCHANGED <<list, snap, complete, claiming, proc, pages, owed>>
  BY DEF Pause, Resume, Cancel, Transition
<1>2. s \in States /\ jobs \in Seq(Job)
  BY DEF States, TypeInv
<1>3. /\ jobs' \in Seq(Job) /\ Len(jobs') = Len(jobs) /\ DOMAIN jobs' = DOMAIN jobs
      /\ \A k \in DOMAIN jobs : /\ jobs'[k].repo = jobs[k].repo
                                /\ jobs'[k].page = jobs[k].page
                                /\ jobs'[k].state = IF k = j THEN s ELSE jobs[k].state
  BY <1>1, <1>2, MovedOK
<1>4. TypeInv'
  BY <1>1, <1>3 DEF TypeInv, Works, At
<1>. QED  BY <1>1, <1>3, <1>4 DEF InPlace

(* The count is taken under the lock.                                       *)
LEMMA ClaimCountOK ==
  ASSUME TypeInv, NEW t \in Runners, ClaimCount(t)
  PROVE  /\ proc[t].pc = "idle" /\ claiming = None /\ claiming' = t
         /\ Cardinality(With("running")) < MaxConcurrent
         /\ proc'[t].pc = "claim" /\ \A u \in Runners \ {t} : proc'[u] = proc[u]
         /\ UNCHANGED <<jobs, list, snap, complete, pages, owed>>
         /\ TypeInv'
<1>0. /\ proc[t].pc = "idle" /\ claiming = None /\ claiming' = t
      /\ Cardinality(With("running")) < MaxConcurrent
      /\ UNCHANGED <<jobs, list, snap, complete, pages, owed>>
      /\ proc' = [proc EXCEPT ![t] = [proc[t] EXCEPT !.pc = "claim"]]
  BY DEF ClaimCount, ClaimFree
<1>. DEFINE q == [proc[t] EXCEPT !.pc = "claim"]
<1>1. q \in Proc /\ q.pc = "claim"
  BY ProcOK DEF Proc, Points
<1>. HIDE DEF q
<1>2. /\ proc' \in [Runners -> Proc] /\ proc'[t] = q
      /\ \A u \in Runners \ {t} : proc'[u] = proc[u]
  BY <1>0, <1>1, ReplaceProc DEF q
<1>3. TypeInv'
  BY <1>0, <1>1, <1>2 DEF TypeInv, Works, At
<1>. QED  BY <1>0, <1>1, <1>2, <1>3

(* The claim: nothing, or one queued job.                                   *)
LEMMA ClaimTakeOK ==
  ASSUME TypeInv, NEW t \in Runners, ClaimTake(t)
  PROVE  /\ proc[t].pc = "claim" /\ claiming' = None
         /\ UNCHANGED <<list, snap, complete, pages>>
         /\ \A u \in Runners \ {t} : proc'[u] = proc[u]
         /\ TypeInv'
         /\ \/ proc'[t].pc = "idle" /\ UNCHANGED <<jobs, owed>>
            \/ \E j \in DOMAIN jobs :
                 /\ jobs[j].state = "queued"
                 /\ InPlace
                 /\ \A k \in DOMAIN jobs : /\ jobs'[k].page = jobs[k].page
                                           /\ jobs'[k].state = IF k = j THEN "running" ELSE jobs[k].state
                 /\ proc'[t].pc = "look" /\ proc'[t].job = j /\ proc'[t].page = jobs[j].page
                 /\ ~proc'[t].failed
                 /\ owed' \in Seq(SUBSET Nat) /\ DOMAIN owed' = DOMAIN owed
                 /\ \A k \in DOMAIN jobs :
                      owed'[k] = IF k = j /\ owed[k] = {} THEN Range(list[jobs[j].repo]) ELSE owed[k]
<1>. DEFINE oldest == {j \in With("queued") : \A k \in With("queued") : j <= k}
<1>0. /\ proc[t].pc = "claim" /\ claiming' = None
      /\ UNCHANGED <<list, snap, complete, pages>>
  BY DEF ClaimTake
<1>1. CASE proc' = [proc EXCEPT ![t] = Idle] /\ UNCHANGED <<jobs, owed>>
  <2>1. /\ proc' \in [Runners -> Proc] /\ proc'[t] = Idle
        /\ \A u \in Runners \ {t} : proc'[u] = proc[u]
    BY <1>1, IdleOK, ReplaceProc
  <2>2. TypeInv'
    BY <1>0, <1>1, <2>1, IdleOK DEF TypeInv, Works, At
  <2>. QED  BY <1>0, <1>1, <2>1, <2>2, IdleOK
<1>2. ASSUME NEW j \in oldest, jobs' = Moved(j, "running"),
             proc' = [proc EXCEPT ![t] = [Idle EXCEPT !.pc = "look", !.job = j, !.page = jobs[j].page]],
             owed' = [owed EXCEPT ![j] = IF owed[j] = {} THEN Range(list[jobs[j].repo]) ELSE owed[j]]
      PROVE  /\ \A u \in Runners \ {t} : proc'[u] = proc[u]
             /\ TypeInv'
             /\ j \in DOMAIN jobs
             /\ jobs[j].state = "queued"
             /\ InPlace
             /\ \A k \in DOMAIN jobs : /\ jobs'[k].page = jobs[k].page
                                       /\ jobs'[k].state = IF k = j THEN "running" ELSE jobs[k].state
             /\ proc'[t].pc = "look" /\ proc'[t].job = j /\ proc'[t].page = jobs[j].page
             /\ ~proc'[t].failed
             /\ owed' \in Seq(SUBSET Nat) /\ DOMAIN owed' = DOMAIN owed
             /\ \A k \in DOMAIN jobs :
                  owed'[k] = IF k = j /\ owed[k] = {} THEN Range(list[jobs[j].repo]) ELSE owed[k]
  <2>1. j \in DOMAIN jobs /\ jobs[j].state = "queued"
    BY <1>2 DEF With
  <2>2. jobs \in Seq(Job) /\ "running" \in States
    BY DEF TypeInv, States
  <2>3. /\ jobs' \in Seq(Job) /\ Len(jobs') = Len(jobs) /\ DOMAIN jobs' = DOMAIN jobs
        /\ \A k \in DOMAIN jobs : /\ jobs'[k].repo = jobs[k].repo
                                  /\ jobs'[k].page = jobs[k].page
                                  /\ jobs'[k].state = IF k = j THEN "running" ELSE jobs[k].state
    BY <1>2, <2>1, <2>2, MovedOK
  <2>4. jobs[j].page \in Nat \ {0} /\ jobs[j].repo \in Repos /\ j \in Nat
    <3>1. jobs[j] \in Job /\ DOMAIN jobs = 1 .. Len(jobs)
      BY <2>1, <2>2
    <3>. QED  BY <2>1, <3>1 DEF Job
  <2>. DEFINE q == [Idle EXCEPT !.pc = "look", !.job = j, !.page = jobs[j].page]
  <2>5. q \in Proc /\ q.pc = "look" /\ q.job = j /\ q.page = jobs[j].page /\ q.failed = FALSE
    <3>1. \A n \in Nat : LET p == [Idle EXCEPT !.pc = "look", !.job = j, !.page = n]
                         IN  p \in Proc /\ p.pc = "look" /\ p.job = j /\ p.page = n /\ p.failed = FALSE
      BY <2>4, IdleOK DEF Proc, Points
    <3>2. jobs[j].page \in Nat
      BY <2>4
    <3>. QED  BY <3>1, <3>2, Zenon
  <2>. HIDE DEF q
  <2>6. /\ proc' \in [Runners -> Proc] /\ proc'[t] = q
        /\ \A u \in Runners \ {t} : proc'[u] = proc[u]
    BY <1>2, <2>5, ReplaceProc DEF q
  <2>. DEFINE o == IF owed[j] = {} THEN Range(list[jobs[j].repo]) ELSE owed[j]
  <2>7. o \in SUBSET Nat
    BY <2>1, <2>4 DEF TypeInv, Range
  <2>8. owed \in Seq(SUBSET Nat) /\ DOMAIN owed = DOMAIN jobs
    BY DEF TypeInv
  <2>9. owed' = [owed EXCEPT ![j] = o]
    BY <1>2
  <2>. HIDE DEF o
  <2>10. /\ owed' \in Seq(SUBSET Nat) /\ Len(owed') = Len(owed) /\ DOMAIN owed' = DOMAIN owed
         /\ \A k \in DOMAIN jobs : owed'[k] = IF k = j THEN o ELSE owed[k]
    BY <2>1, <2>7, <2>8, <2>9, ReplaceRow
  <2>11. TypeInv'
    <3>1. \A u \in Runners : Works(u)' => proc'[u].job \in DOMAIN jobs' /\ proc'[u].page # 0
      <4>. TAKE u \in Runners
      <4>1. CASE u = t
        BY <2>1, <2>3, <2>4, <2>5, <2>6, <4>1
      <4>2. CASE u # t
        BY <2>3, <2>6, <4>2 DEF TypeInv, Works, At
      <4>. QED  BY <4>1, <4>2
    <3>. QED  BY <1>0, <2>3, <2>6, <2>10, <3>1 DEF TypeInv
  <2>. QED  BY <2>1, <2>3, <2>5, <2>6, <2>10, <2>11 DEF InPlace, o
<1>3. \/ proc' = [proc EXCEPT ![t] = Idle] /\ UNCHANGED <<jobs, owed>>
      \/ \E j \in oldest :
           /\ jobs' = Moved(j, "running")
           /\ proc' = [proc EXCEPT ![t] = [Idle EXCEPT !.pc = "look", !.job = j, !.page = jobs[j].page]]
           /\ owed' = [owed EXCEPT ![j] = IF owed[j] = {} THEN Range(list[jobs[j].repo]) ELSE owed[j]]
  BY DEF ClaimTake
<1>. HIDE DEF oldest
<1>4. CASE \E j \in oldest :
             /\ jobs' = Moved(j, "running")
             /\ proc' = [proc EXCEPT ![t] = [Idle EXCEPT !.pc = "look", !.job = j, !.page = jobs[j].page]]
             /\ owed' = [owed EXCEPT ![j] = IF owed[j] = {} THEN Range(list[jobs[j].repo]) ELSE owed[j]]
  <2>1. PICK j \in oldest :
             /\ jobs' = Moved(j, "running")
             /\ proc' = [proc EXCEPT ![t] = [Idle EXCEPT !.pc = "look", !.job = j, !.page = jobs[j].page]]
             /\ owed' = [owed EXCEPT ![j] = IF owed[j] = {} THEN Range(list[jobs[j].repo]) ELSE owed[j]]
    BY <1>4
  <2>2. /\ \A u \in Runners \ {t} : proc'[u] = proc[u]
        /\ TypeInv'
        /\ j \in DOMAIN jobs
        /\ jobs[j].state = "queued"
        /\ InPlace
        /\ \A k \in DOMAIN jobs : /\ jobs'[k].page = jobs[k].page
                                  /\ jobs'[k].state = IF k = j THEN "running" ELSE jobs[k].state
        /\ proc'[t].pc = "look" /\ proc'[t].job = j /\ proc'[t].page = jobs[j].page
        /\ ~proc'[t].failed
        /\ owed' \in Seq(SUBSET Nat) /\ DOMAIN owed' = DOMAIN owed
        /\ \A k \in DOMAIN jobs :
             owed'[k] = IF k = j /\ owed[k] = {} THEN Range(list[jobs[j].repo]) ELSE owed[k]
    BY <1>2, <2>1
  <2>. QED  BY <1>0, <2>2
<1>. QED  BY <1>1, <1>3, <1>4

(* isJobRunning: the runner goes on, or leaves.                             *)
LEMMA LookOK ==
  ASSUME TypeInv, NEW t \in Runners, Look(t)
  PROVE  /\ proc[t].pc = "look"
         /\ \/ proc'[t] = Idle
            \/ /\ proc'[t].pc = "list" /\ proc'[t].job = proc[t].job /\ proc'[t].page = proc[t].page
               /\ proc'[t].failed = proc[t].failed
         /\ \A u \in Runners \ {t} : proc'[u] = proc[u]
         /\ UNCHANGED <<jobs, list, snap, complete, claiming, pages, owed>>
         /\ TypeInv'
<1>. DEFINE l == [proc[t] EXCEPT !.pc = "list"]
<1>0. /\ proc[t].pc = "look" /\ UNCHANGED <<jobs, list, snap, complete, claiming, pages, owed>>
      /\ proc' = [proc EXCEPT ![t] = IF jobs[proc[t].job].state = "running" THEN l ELSE Idle]
  BY DEF Look
<1>1. /\ l \in Proc /\ l.pc = "list" /\ l.job = proc[t].job /\ l.page = proc[t].page
      /\ l.failed = proc[t].failed
  BY ProcOK DEF Proc, Points
<1>2. Works(t)
  BY <1>0 DEF Works, At
<1>. HIDE DEF l
<1>. DEFINE q == IF jobs[proc[t].job].state = "running" THEN l ELSE Idle
<1>3. q \in Proc /\ (q = l \/ q = Idle) /\ proc' = [proc EXCEPT ![t] = q]
  BY <1>0, <1>1, IdleOK
<1>. HIDE DEF q
<1>4. /\ proc' \in [Runners -> Proc] /\ proc'[t] = q
      /\ \A u \in Runners \ {t} : proc'[u] = proc[u]
  BY <1>3, ReplaceProc
<1>5. \A u \in Runners : Works(u)' => proc'[u].job \in DOMAIN jobs' /\ proc'[u].page # 0
  BY <1>0, <1>1, <1>2, <1>3, <1>4, IdleOK DEF TypeInv, Works, At
<1>6. TypeInv'
  BY <1>0, <1>4, <1>5 DEF TypeInv
<1>. QED  BY <1>0, <1>1, <1>3, <1>4, <1>6

(* The part of the list that is the next page.                              *)
PageItems(all, page) ==
  SubSeq(all, (page - 1) * PageSize + 1,
         IF page * PageSize < Len(all) THEN page * PageSize ELSE Len(all))

(* A product of naturals, and the page before.                              *)
LEMMA PageBounds ==
  ASSUME NEW n \in Nat \ {0}
  PROVE  /\ (n - 1) * PageSize \in Nat /\ n * PageSize \in Nat
         /\ n * PageSize = (n - 1) * PageSize + PageSize
         /\ (n + 1 - 1) * PageSize = n * PageSize
<1>1. PageSize \in Nat \ {0} /\ n - 1 \in Nat
  BY JobAssumption
<1>2. \A a, b \in Nat : a * b \in Nat /\ (a + 1) * b = a * b + b
  OBVIOUS
<1>3. n = (n - 1) + 1 /\ n + 1 - 1 = n
  OBVIOUS
<1>. QED  BY <1>1, <1>2, <1>3

(* A page of a list has the entries between its bounds.                     *)
LEMMA PageItemsOK ==
  ASSUME NEW all \in Seq(Nat), NEW n \in Nat \ {0}
  PROVE  /\ PageItems(all, n) \in Seq(Nat)
         /\ Len(PageItems(all, n)) <= PageSize
         /\ Len(PageItems(all, n)) < PageSize => Len(all) < n * PageSize
         /\ \A i \in 1 .. Len(all) : i > (n - 1) * PageSize /\ i <= n * PageSize =>
              \E k \in 1 .. Len(PageItems(all, n)) : PageItems(all, n)[k] = all[i]
<1>. DEFINE a == (n - 1) * PageSize
            b == n * PageSize
            e == IF b < Len(all) THEN b ELSE Len(all)
            s == SubSeq(all, a + 1, e)
<1>1. a \in Nat /\ b \in Nat /\ b = a + PageSize /\ PageSize \in Nat \ {0} /\ Len(all) \in Nat
  BY PageBounds, JobAssumption
<1>2. PageItems(all, n) = s
  BY DEF PageItems
<1>. HIDE DEF a, b
<1>3. e \in Nat /\ e <= Len(all) /\ e <= b /\ (e < b => Len(all) < b) /\ (e = b \/ e = Len(all))
  BY <1>1
<1>. HIDE DEF e
<1>4. CASE e <= a
  <2>1. s = <<>>
    BY <1>1, <1>3, <1>4
  <2>. HIDE DEF s
  <2>2. Len(s) = 0 /\ s \in Seq(Nat)
    BY <2>1
  <2>3. Len(all) <= a /\ Len(all) < b
    BY <1>1, <1>3, <1>4
  <2>4. ~ \E i \in 1 .. Len(all) : i > a /\ i <= b
    BY <1>1, <2>3
  <2>. QED  BY <1>1, <1>2, <2>2, <2>3, <2>4 DEF a, b
<1>5. CASE a < e
  <2>1. /\ s \in Seq(Nat) /\ Len(s) = e - a
        /\ \A k \in 1 .. e - a : s[k] = all[a + k]
    BY <1>1, <1>3, <1>5
  <2>. HIDE DEF s
  <2>2. Len(s) <= PageSize /\ (Len(s) < PageSize => Len(all) < b)
    BY <1>1, <1>3, <1>5, <2>1
  <2>3. ASSUME NEW i \in 1 .. Len(all), i > a, i <= b
        PROVE  \E k \in 1 .. Len(s) : s[k] = all[i]
    <3>1. i <= e /\ i - a \in 1 .. e - a /\ a + (i - a) = i
      BY <1>1, <1>3, <2>3 DEF e
    <3>. QED  BY <2>1, <3>1
  <2>. QED  BY <1>2, <2>1, <2>2, <2>3 DEF a, b
<1>6. e <= a \/ a < e
  BY <1>1, <1>3
<1>. QED  BY <1>4, <1>5, <1>6

(* A page is listed, or the cursor is saved and the round starts again, or  *)
(* the job is to fail.                                                      *)
LEMMA ListPageOK ==
  ASSUME TypeInv, NEW t \in Runners, ListPage(t)
  PROVE  LET j == proc[t].job
             items == PageItems(list[RepoOf(t)], proc[t].page)
         IN  /\ proc[t].pc = "list"
             /\ InPlace
             /\ \A k \in DOMAIN jobs : /\ jobs'[k].state = jobs[k].state
                                       /\ jobs'[k].page \in {jobs[k].page} \cup IF k = j THEN {proc[t].page} ELSE {}
             /\ proc'[t].job = j /\ proc'[t].page = proc[t].page /\ proc'[t].failed = proc[t].failed
             /\ \/ proc'[t].pc = "item" /\ proc'[t].items = items /\ proc'[t].more = (Len(items) >= PageSize)
                \/ proc'[t].pc = "look"
                \/ proc'[t].pc = "finish" /\ proc'[t].end = "failed"
             /\ \A u \in Runners \ {t} : proc'[u] = proc[u]
             /\ UNCHANGED <<list, snap, complete, claiming, pages, owed>>
             /\ TypeInv'
<1>. DEFINE j == proc[t].job
            items == PageItems(list[RepoOf(t)], proc[t].page)
            m == Len(items) >= PageSize
<1>0. proc[t].pc = "list" /\ UNCHANGED <<list, snap, complete, claiming, pages, owed>>
  BY DEF ListPage
<1>1. /\ proc[t] \in Proc /\ Works(t) /\ j \in DOMAIN jobs /\ proc[t].page \in Nat \ {0}
      /\ jobs \in Seq(Job)
  BY <1>0, ProcOK DEF Works, At, TypeInv
<1>2. items \in Seq(Nat)
  <2>1. jobs[j] \in Job
    BY <1>1
  <2>2. RepoOf(t) \in Repos
    BY <2>1 DEF RepoOf, Job
  <2>3. list[RepoOf(t)] \in Seq(Nat)
    BY <2>2 DEF TypeInv
  <2>. QED  BY <1>1, <2>3, PageItemsOK
<1>3. m \in BOOLEAN
  OBVIOUS
<1>4. \/ proc' = [proc EXCEPT ![t].pc = "item", ![t].items = items, ![t].more = m] /\ jobs' = jobs
      \/ proc' = [proc EXCEPT ![t].pc = "look"] /\ jobs' = [jobs EXCEPT ![j].page = proc[t].page]
      \/ proc' = [proc EXCEPT ![t].pc = "finish", ![t].end = "failed"] /\ jobs' = jobs
  BY DEF ListPage, PageItems
<1>. HIDE DEF items, m
<1>5. /\ InPlace
      /\ \A k \in DOMAIN jobs : /\ jobs'[k].state = jobs[k].state
                                /\ jobs'[k].page \in {jobs[k].page} \cup IF k = j THEN {proc[t].page} ELSE {}
  <2>1. CASE jobs' = jobs
    BY <1>1, <2>1 DEF InPlace
  <2>2. CASE jobs' = [jobs EXCEPT ![j].page = proc[t].page]
    BY <1>1, <2>2, PagedOK DEF InPlace
  <2>. QED  BY <1>4, <2>1, <2>2
<1>6. /\ proc' \in [Runners -> Proc] /\ \A u \in Runners \ {t} : proc'[u] = proc[u]
      /\ proc'[t].job = j /\ proc'[t].page = proc[t].page /\ proc'[t].failed = proc[t].failed
      /\ \/ proc'[t].pc = "item" /\ proc'[t].items = items /\ proc'[t].more = m
         \/ proc'[t].pc = "look"
         \/ proc'[t].pc = "finish" /\ proc'[t].end = "failed"
  <2>0. proc \in [Runners -> Proc]
    BY DEF TypeInv
  <2>1. CASE proc' = [proc EXCEPT ![t].pc = "item", ![t].items = items, ![t].more = m]
    BY <1>1, <1>2, <1>3, <2>0, <2>1 DEF Proc, Points
  <2>2. CASE proc' = [proc EXCEPT ![t].pc = "look"]
    BY <1>1, <2>0, <2>2 DEF Proc, Points
  <2>3. CASE proc' = [proc EXCEPT ![t].pc = "finish", ![t].end = "failed"]
    BY <1>1, <2>0, <2>3 DEF Proc, Points
  <2>. QED  BY <1>4, <2>1, <2>2, <2>3
<1>7. TypeInv'
  <2>1. \A u \in Runners : Works(u)' => proc'[u].job \in DOMAIN jobs' /\ proc'[u].page # 0
    BY <1>1, <1>5, <1>6 DEF TypeInv, Works, At, InPlace
  <2>. QED  BY <1>0, <1>5, <1>6, <2>1 DEF TypeInv, InPlace
<1>. QED  BY <1>0, <1>5, <1>6, <1>7 DEF m, items

(* projectOne: the item is written, or the failure kept in mind.            *)
LEMMA ItemOK ==
  ASSUME TypeInv, NEW t \in Runners, Item(t)
  PROVE  /\ proc[t].pc = "item" /\ proc[t].items # <<>>
         /\ proc'[t].pc = "item" /\ proc'[t].job = proc[t].job /\ proc'[t].page = proc[t].page
         /\ proc'[t].more = proc[t].more /\ proc'[t].items = Tail(proc[t].items)
         /\ \/ proc'[t].failed = proc[t].failed /\ snap' = snap \cup {<<RepoOf(t), proc[t].items[1]>>}
            \/ proc'[t].failed = TRUE /\ snap' = snap
         /\ \A u \in Runners \ {t} : proc'[u] = proc[u]
         /\ UNCHANGED <<jobs, list, complete, claiming, pages, owed>>
         /\ TypeInv'
<1>0. /\ proc[t].pc = "item" /\ proc[t].items # <<>>
      /\ UNCHANGED <<jobs, list, complete, claiming, pages, owed>>
  BY DEF Item
<1>. DEFINE rest == Tail(proc[t].items)
<1>1. /\ proc[t] \in Proc /\ proc \in [Runners -> Proc] /\ Works(t)
      /\ proc[t].job \in DOMAIN jobs /\ proc[t].page \in Nat \ {0}
  BY <1>0, ProcOK DEF Works, At, TypeInv
<1>2. rest \in Seq(Nat)
  BY <1>0, ProcOK
<1>3. \/ proc' = [proc EXCEPT ![t].items = rest] /\ snap' = snap \cup {<<RepoOf(t), proc[t].items[1]>>}
      \/ proc' = [proc EXCEPT ![t].items = rest, ![t].failed = TRUE] /\ snap' = snap
  BY DEF Item
<1>. HIDE DEF rest
<1>4. /\ proc' \in [Runners -> Proc] /\ \A u \in Runners \ {t} : proc'[u] = proc[u]
      /\ proc'[t].pc = "item" /\ proc'[t].job = proc[t].job /\ proc'[t].page = proc[t].page
      /\ proc'[t].more = proc[t].more /\ proc'[t].items = rest
      /\ \/ proc'[t].failed = proc[t].failed /\ snap' = snap \cup {<<RepoOf(t), proc[t].items[1]>>}
         \/ proc'[t].failed = TRUE /\ snap' = snap
  <2>1. CASE proc' = [proc EXCEPT ![t].items = rest] /\ snap' = snap \cup {<<RepoOf(t), proc[t].items[1]>>}
    BY <1>0, <1>1, <1>2, <2>1 DEF Proc, Points
  <2>2. CASE proc' = [proc EXCEPT ![t].items = rest, ![t].failed = TRUE] /\ snap' = snap
    BY <1>0, <1>1, <1>2, <2>2 DEF Proc, Points
  <2>. QED  BY <1>3, <2>1, <2>2
<1>5. TypeInv'
  <2>1. \A u \in Runners : Works(u)' => proc'[u].job \in DOMAIN jobs' /\ proc'[u].page # 0
    BY <1>0, <1>1, <1>4 DEF TypeInv, Works, At
  <2>. QED  BY <1>0, <1>4, <2>1 DEF TypeInv
<1>. QED  BY <1>0, <1>4, <1>5 DEF rest

(* The page is done, and the cursor stands behind it.                       *)
LEMMA SaveOK ==
  ASSUME TypeInv, NEW t \in Runners, Save(t)
  PROVE  LET j == proc[t].job
             n == proc[t].page
         IN  /\ proc[t].pc = "item" /\ proc[t].items = <<>> /\ j \in DOMAIN jobs
             /\ InPlace
             /\ \A k \in DOMAIN jobs :
                  /\ jobs'[k].state = jobs[k].state
                  /\ jobs'[k].page = jobs[k].page \/ (k = j /\ jobs'[k].page = n + 1)
                  /\ pages'[k] = pages[k] \cup IF k = j THEN {n} ELSE {}
             /\ proc'[t].job = j /\ proc'[t].page = n + 1 /\ proc'[t].failed = proc[t].failed
             /\ proc'[t].pc = IF proc[t].more THEN "look" ELSE "finish"
             /\ \A u \in Runners \ {t} : proc'[u] = proc[u]
             /\ UNCHANGED <<list, snap, complete, claiming, owed>>
             /\ TypeInv'
<1>. DEFINE j == proc[t].job
            n == proc[t].page
            pc == IF proc[t].more THEN "look" ELSE "finish"
<1>0. /\ proc[t].pc = "item" /\ proc[t].items = <<>>
      /\ UNCHANGED <<list, snap, complete, claiming, owed>>
  BY DEF Save
<1>1. /\ proc[t] \in Proc /\ proc \in [Runners -> Proc] /\ j \in DOMAIN jobs /\ n \in Nat \ {0}
      /\ jobs \in Seq(Job) /\ n + 1 \in Nat \ {0} /\ n + 1 # 0
  BY <1>0, ProcOK DEF Works, At, TypeInv
<1>2. proc' = [proc EXCEPT ![t].page = n + 1, ![t].pc = pc]
  BY DEF Save
<1>3. pages' = [pages EXCEPT ![j] = pages[j] \cup {n}]
  BY DEF Save
<1>4. jobs' = jobs \/ jobs' = [jobs EXCEPT ![j].page = n + 1]
  BY DEF Save, Saved
<1>5. /\ proc' \in [Runners -> Proc] /\ \A u \in Runners \ {t} : proc'[u] = proc[u]
      /\ proc'[t].job = j /\ proc'[t].page = n + 1 /\ proc'[t].failed = proc[t].failed
      /\ proc'[t].pc = pc
  <2>1. pc \in Points
    BY DEF Points
  <2>. HIDE DEF pc
  <2>. QED  BY <1>1, <1>2, <2>1 DEF Proc
<1>6. /\ pages' \in Seq(SUBSET Nat) /\ Len(pages') = Len(pages)
      /\ \A k \in DOMAIN jobs : pages'[k] = pages[k] \cup IF k = j THEN {n} ELSE {}
  <2>. DEFINE v == pages[j] \cup {n}
  <2>1. pages \in Seq(SUBSET Nat) /\ DOMAIN pages = DOMAIN jobs
    BY DEF TypeInv
  <2>2. v \in SUBSET Nat
    BY <1>1, <2>1
  <2>. HIDE DEF v
  <2>3. /\ [pages EXCEPT ![j] = v] \in Seq(SUBSET Nat) /\ Len([pages EXCEPT ![j] = v]) = Len(pages)
        /\ \A k \in DOMAIN jobs : [pages EXCEPT ![j] = v][k] = IF k = j THEN v ELSE pages[k]
    BY <1>1, <2>1, <2>2, ReplaceRow
  <2>. QED  BY <1>3, <2>3 DEF v
<1>7. /\ InPlace
      /\ \A k \in DOMAIN jobs : /\ jobs'[k].state = jobs[k].state
                                /\ jobs'[k].page = jobs[k].page \/ (k = j /\ jobs'[k].page = n + 1)
  <2>1. CASE jobs' = jobs
    BY <1>1, <2>1 DEF InPlace
  <2>2. CASE jobs' = [jobs EXCEPT ![j].page = n + 1]
    BY <1>1, <2>2, PagedOK DEF InPlace
  <2>. QED  BY <1>4, <2>1, <2>2
<1>8. TypeInv'
  <2>1. \A u \in Runners : Works(u)' => proc'[u].job \in DOMAIN jobs' /\ proc'[u].page # 0
    BY <1>1, <1>5, <1>7 DEF TypeInv, Works, At, InPlace
  <2>. QED  BY <1>0, <1>5, <1>6, <1>7, <2>1 DEF TypeInv, InPlace
<1>. QED  BY <1>0, <1>1, <1>5, <1>6, <1>7, <1>8

(* The job ends, if its row still says that it runs.                        *)
LEMMA FinishOK ==
  ASSUME TypeInv, NEW t \in Runners, Finish(t)
  PROVE  LET j == proc[t].job
         IN  /\ proc[t].pc = "finish" /\ j \in DOMAIN jobs
             /\ InPlace
             /\ \A k \in DOMAIN jobs :
                  /\ jobs'[k].page = jobs[k].page
                  /\ jobs'[k].state = IF k = j /\ jobs[k].state = "running" THEN proc[t].end
                                      ELSE jobs[k].state
             /\ proc[t].end \in {"completed", "failed"}
             /\ \/ proc'[t] = Idle
                \/ /\ proc'[t].pc = "after" /\ proc'[t].job = j /\ proc'[t].page = proc[t].page
                   /\ proc'[t].failed = proc[t].failed
                   /\ proc'[t].end = proc[t].end /\ proc[t].end = "completed" /\ Bootstrap
             /\ \A u \in Runners \ {t} : proc'[u] = proc[u]
             /\ UNCHANGED <<list, snap, complete, claiming, pages, owed>>
             /\ TypeInv'
<1>. DEFINE j == proc[t].job
            after == [proc[t] EXCEPT !.pc = "after"]
            q == IF proc[t].end = "completed" /\ Bootstrap THEN after ELSE Idle
<1>0. /\ proc[t].pc = "finish" /\ jobs' = Finished(j, proc[t].end) /\ proc' = [proc EXCEPT ![t] = q]
      /\ UNCHANGED <<list, snap, complete, claiming, pages, owed>>
  BY DEF Finish
<1>1. /\ proc[t] \in Proc /\ j \in DOMAIN jobs /\ proc[t].page \in Nat \ {0} /\ jobs \in Seq(Job)
      /\ proc[t].end \in {"completed", "failed"}
  BY <1>0, ProcOK DEF Works, At, TypeInv, Proc
<1>2. /\ after \in Proc /\ after.pc = "after" /\ after.job = j /\ after.page = proc[t].page
      /\ after.failed = proc[t].failed /\ after.end = proc[t].end
  BY <1>1 DEF Proc, Points
<1>. HIDE DEF after
<1>3. q \in Proc /\ (q = Idle \/ (q = after /\ proc[t].end = "completed" /\ Bootstrap))
  BY <1>2, IdleOK
<1>. HIDE DEF q
<1>4. /\ proc' \in [Runners -> Proc] /\ proc'[t] = q
      /\ \A u \in Runners \ {t} : proc'[u] = proc[u]
  BY <1>0, <1>3, ReplaceProc
<1>5. /\ InPlace
      /\ \A k \in DOMAIN jobs :
           /\ jobs'[k].page = jobs[k].page
           /\ jobs'[k].state = IF k = j /\ jobs[k].state = "running" THEN proc[t].end ELSE jobs[k].state
  BY <1>0, <1>1, FinishedOK DEF InPlace
<1>6. TypeInv'
  <2>1. \A u \in Runners : Works(u)' => proc'[u].job \in DOMAIN jobs' /\ proc'[u].page # 0
    <3>. TAKE u \in Runners
    <3>1. CASE u = t
      BY <1>1, <1>2, <1>3, <1>4, <1>5, <3>1, IdleOK DEF Works, At, InPlace
    <3>2. CASE u # t
      BY <1>4, <1>5, <3>2 DEF TypeInv, Works, At, InPlace
    <3>. QED  BY <3>1, <3>2
  <2>. QED  BY <1>0, <1>4, <1>5, <2>1 DEF TypeInv, InPlace
<1>. QED  BY <1>0, <1>1, <1>2, <1>3, <1>4, <1>5, <1>6

(* completeSnapshotBootstrap marks the repository of a run without failure. *)
LEMMA AfterOK ==
  ASSUME TypeInv, NEW t \in Runners, After(t)
  PROVE  /\ proc[t].pc = "after" /\ proc'[t] = Idle /\ proc[t].job \in DOMAIN jobs
         /\ RepoOf(t) \in Repos
         /\ \/ complete' = complete
            \/ ~proc[t].failed /\ complete' = [complete EXCEPT ![RepoOf(t)] = proc[t].job]
         /\ \A u \in Runners \ {t} : proc'[u] = proc[u]
         /\ UNCHANGED <<jobs, list, snap, claiming, pages, owed>>
         /\ TypeInv'
<1>0. /\ proc[t].pc = "after" /\ proc' = [proc EXCEPT ![t] = Idle]
      /\ UNCHANGED <<jobs, list, snap, claiming, pages, owed>>
      /\ complete' = IF Whole(t) THEN [complete EXCEPT ![RepoOf(t)] = proc[t].job] ELSE complete
  BY DEF After
<1>1. /\ proc' \in [Runners -> Proc] /\ proc'[t] = Idle
      /\ \A u \in Runners \ {t} : proc'[u] = proc[u]
  BY <1>0, IdleOK, ReplaceProc
<1>2. proc[t].job \in DOMAIN jobs /\ proc[t].job \in Nat
  BY <1>0, ProcOK DEF Works, At, Proc
<1>3. RepoOf(t) \in Repos
  <2>1. jobs[proc[t].job] \in Job
    BY <1>2 DEF TypeInv
  <2>. QED  BY <2>1 DEF RepoOf, Job
<1>4. /\ complete' \in [Repos -> Nat]
      /\ \/ complete' = complete
         \/ ~proc[t].failed /\ complete' = [complete EXCEPT ![RepoOf(t)] = proc[t].job]
  BY <1>0, <1>2, <1>3 DEF TypeInv, Whole
<1>5. TypeInv'
  <2>1. \A u \in Runners : Works(u)' => proc'[u].job \in DOMAIN jobs' /\ proc'[u].page # 0
    BY <1>0, <1>1, IdleOK DEF TypeInv, Works, At
  <2>. QED  BY <1>0, <1>1, <1>4, <2>1 DEF TypeInv
<1>. QED  BY <1>0, <1>1, <1>2, <1>3, <1>4, <1>5

(* A process dies; the table stays.                                         *)
LEMMA DieOK ==
  ASSUME TypeInv, NEW t \in Runners, Die(t)
  PROVE  /\ proc'[t] = Idle /\ \A u \in Runners \ {t} : proc'[u] = proc[u]
         /\ claiming' = IF claiming = t THEN None ELSE claiming
         /\ UNCHANGED <<jobs, list, snap, complete, pages, owed>>
         /\ TypeInv'
<1>0. /\ proc' = [proc EXCEPT ![t] = Idle]
      /\ UNCHANGED <<jobs, list, snap, complete, pages, owed>>
      /\ claiming' = IF claiming = t THEN None ELSE claiming
  BY DEF Die
<1>1. /\ proc' \in [Runners -> Proc] /\ proc'[t] = Idle
      /\ \A u \in Runners \ {t} : proc'[u] = proc[u]
  BY <1>0, IdleOK, ReplaceProc
<1>2. TypeInv'
  <2>1. \A u \in Runners : Works(u)' => proc'[u].job \in DOMAIN jobs' /\ proc'[u].page # 0
    BY <1>0, <1>1, IdleOK DEF TypeInv, Works, At
  <2>. QED  BY <1>0, <1>1, <2>1 DEF TypeInv
<1>. QED  BY <1>0, <1>1, <1>2

----------------------------------------------------------------------------
(* The cap.                                                                 *)

(* The running jobs can be counted.                                         *)
LEMMA RunningFinite ==
  ASSUME TypeInv
  PROVE  IsFiniteSet(With("running")) /\ Cardinality(With("running")) \in Nat
<1>1. With("running") \in SUBSET (1 .. Len(jobs)) /\ Len(jobs) \in Nat
  BY DEF TypeInv, With
<1>2. IsFiniteSet(1 .. Len(jobs))
  BY <1>1, FS_Interval
<1>. QED  BY <1>1, <1>2, FS_Subset, FS_CardinalityType

(* A step after which no other job runs, and no runner is at its claim that *)
(* was not there before with the lock it has.                               *)
LEMMA LockKept ==
  ASSUME TypeInv, LockInv, CapIsKept, TypeInv',
         With("running")' \subseteq With("running"),
         \A u \in Runners : At(u, {"claim"})' => At(u, {"claim"}) /\ claiming' = claiming
  PROVE  LockInv' /\ CapIsKept'
<1>1. Cardinality(With("running")') <= Cardinality(With("running"))
  BY RunningFinite, FS_Subset
<1>2. /\ Cardinality(With("running")) \in Nat /\ Cardinality(With("running")') \in Nat
      /\ MaxConcurrent \in Nat
  <2>1. IsFiniteSet(With("running"))
    BY RunningFinite
  <2>2. IsFiniteSet(With("running")')
    BY <2>1, FS_Subset
  <2>. QED  BY <2>1, <2>2, FS_CardinalityType, JobAssumption
<1>3. CapIsKept'
  BY <1>1, <1>2 DEF CapIsKept
<1>4. ASSUME NEW u \in Runners, At(u, {"claim"})'
      PROVE  claiming' = u /\ Cardinality(With("running")') < MaxConcurrent
  <2>1. claiming = u /\ claiming' = claiming /\ Cardinality(With("running")) < MaxConcurrent
    BY <1>4 DEF LockInv
  <2>. QED  BY <1>1, <1>2, <2>1
<1>. QED  BY <1>3, <1>4 DEF LockInv

(* Every step keeps the types, the lock and the cap.                        *)
LEMMA CapStep ==
  ASSUME TypeInv, LockInv, CapIsKept, [Next]_vars
  PROVE  TypeInv' /\ LockInv' /\ CapIsKept'
<1>1. ASSUME NEW r \in Repos, Create(r) \/ \E p \in 1 .. MaxPrs : Update(r, p)
      PROVE  TypeInv' /\ LockInv' /\ CapIsKept'
  <2>1. UNCHANGED <<jobs, snap, complete, claiming, proc, pages, owed>> /\ TypeInv'
    BY <1>1, ListsOK, TypeFrame
  <2>. QED  BY <2>1, LockKept DEF With, At
<1>2. ASSUME NEW r \in Repos, Enqueue(r)
      PROVE  TypeInv' /\ LockInv' /\ CapIsKept'
  <2>1. /\ DOMAIN jobs' = DOMAIN jobs \cup {Len(jobs) + 1}
        /\ \A k \in DOMAIN jobs : jobs'[k] = jobs[k]
        /\ jobs'[Len(jobs) + 1].state = "queued"
        /\ UNCHANGED <<claiming, proc>> /\ TypeInv'
    BY <1>2, EnqueueOK
  <2>2. With("running")' \subseteq With("running")
    BY <2>1 DEF With
  <2>. QED  BY <2>1, <2>2, LockKept DEF At
<1>3. ASSUME NEW j \in DOMAIN jobs, Pause(j) \/ Resume(j) \/ Cancel(j)
      PROVE  TypeInv' /\ LockInv' /\ CapIsKept'
  <2>1. PICK s \in {"paused", "queued", "cancelled"} :
          /\ DOMAIN jobs' = DOMAIN jobs
          /\ \A k \in DOMAIN jobs : jobs'[k].state = IF k = j THEN s ELSE jobs[k].state
          /\ UNCHANGED <<claiming, proc>> /\ TypeInv'
    BY <1>3, TransitionOK DEF InPlace
  <2>2. With("running")' \subseteq With("running")
    BY <2>1 DEF With
  <2>. QED  BY <2>1, <2>2, LockKept DEF At
<1>4. ASSUME NEW t \in Runners, ClaimCount(t)
      PROVE  TypeInv' /\ LockInv' /\ CapIsKept'
  <2>1. /\ claiming = None /\ claiming' = t /\ Cardinality(With("running")) < MaxConcurrent
        /\ \A u \in Runners \ {t} : proc'[u] = proc[u]
        /\ jobs' = jobs /\ TypeInv'
    BY <1>4, ClaimCountOK
  <2>2. With("running")' = With("running")
    BY <2>1 DEF With
  <2>3. \A u \in Runners : ~ At(u, {"claim"})
    BY <2>1, JobAssumption DEF LockInv
  <2>. QED  BY <2>1, <2>2, <2>3 DEF LockInv, CapIsKept, At
<1>5. ASSUME NEW t \in Runners, ClaimTake(t)
      PROVE  TypeInv' /\ LockInv' /\ CapIsKept'
  <2>1. /\ proc[t].pc = "claim" /\ \A u \in Runners \ {t} : proc'[u] = proc[u]
        /\ proc'[t].pc \in {"idle", "look"} /\ TypeInv'
    BY <1>5, ClaimTakeOK
  <2>2. claiming = t /\ Cardinality(With("running")) < MaxConcurrent
    BY <2>1 DEF LockInv, At
  <2>3. \A u \in Runners : ~ At(u, {"claim"})'
    BY <2>1, <2>2 DEF LockInv, At
  <2>4. Cardinality(With("running")') <= MaxConcurrent
    <3>0. IsFiniteSet(With("running")) /\ Cardinality(With("running")) \in Nat /\ MaxConcurrent \in Nat
      BY RunningFinite, JobAssumption
    <3>1. CASE jobs' = jobs
      BY <2>2, <3>0, <3>1 DEF With
    <3>2. ASSUME NEW j \in DOMAIN jobs, jobs[j].state = "queued", DOMAIN jobs' = DOMAIN jobs,
                 \A k \in DOMAIN jobs : jobs'[k].state = IF k = j THEN "running" ELSE jobs[k].state
          PROVE  Cardinality(With("running")') <= MaxConcurrent
      <4>1. With("running")' = With("running") \cup {j}
        BY <3>2 DEF With
      <4>. DEFINE w == With("running")
                  c == Cardinality(w)
                  d == Cardinality(w \cup {j})
      <4>2. IsFiniteSet(w) /\ c \in Nat /\ c < MaxConcurrent
        BY <2>2, <3>0
      <4>. HIDE DEF w
      <4>3. d = c \/ d = c + 1
        BY <4>2, FS_AddElement
      <4>. HIDE DEF c, d
      <4>4. d <= MaxConcurrent
        BY <3>0, <4>2, <4>3
      <4>. QED  BY <4>1, <4>4 DEF w, c, d
    <3>. QED  BY <1>5, <3>1, <3>2, ClaimTakeOK DEF InPlace
  <2>. QED  BY <2>1, <2>3, <2>4 DEF LockInv, CapIsKept
<1>6. ASSUME NEW t \in Runners, Look(t) \/ Item(t) \/ After(t)
      PROVE  TypeInv' /\ LockInv' /\ CapIsKept'
  <2>1. /\ \A u \in Runners \ {t} : proc'[u] = proc[u]
        /\ proc'[t].pc \in {"idle", "list", "item"}
        /\ UNCHANGED <<jobs, claiming>> /\ TypeInv'
    BY <1>6, LookOK, ItemOK, AfterOK, IdleOK
  <2>. QED  BY <2>1, LockKept DEF With, At
<1>7. ASSUME NEW t \in Runners, ListPage(t) \/ Save(t)
      PROVE  TypeInv' /\ LockInv' /\ CapIsKept'
  <2>1. /\ \A u \in Runners \ {t} : proc'[u] = proc[u]
        /\ proc'[t].pc \in {"look", "item", "finish"}
        /\ DOMAIN jobs' = DOMAIN jobs /\ \A k \in DOMAIN jobs : jobs'[k].state = jobs[k].state
        /\ claiming' = claiming /\ TypeInv'
    BY <1>7, ListPageOK, SaveOK DEF InPlace
  <2>2. With("running")' \subseteq With("running")
    BY <2>1 DEF With
  <2>. QED  BY <2>1, <2>2, LockKept DEF At
<1>8. ASSUME NEW t \in Runners, Finish(t)
      PROVE  TypeInv' /\ LockInv' /\ CapIsKept'
  <2>1. /\ \A u \in Runners \ {t} : proc'[u] = proc[u]
        /\ proc'[t].pc \in {"idle", "after"}
        /\ DOMAIN jobs' = DOMAIN jobs
        /\ \A k \in DOMAIN jobs : jobs'[k].state \in {jobs[k].state, "completed", "failed"}
        /\ claiming' = claiming /\ TypeInv'
    BY <1>8, FinishOK, IdleOK DEF InPlace
  <2>2. With("running")' \subseteq With("running")
    BY <2>1 DEF With
  <2>. QED  BY <2>1, <2>2, LockKept DEF At
<1>9. ASSUME NEW t \in Runners, Die(t)
      PROVE  TypeInv' /\ LockInv' /\ CapIsKept'
  <2>1. /\ proc'[t] = Idle /\ \A u \in Runners \ {t} : proc'[u] = proc[u]
        /\ claiming' = IF claiming = t THEN None ELSE claiming
        /\ jobs' = jobs /\ TypeInv'
    BY <1>9, DieOK
  <2>2. \A u \in Runners : At(u, {"claim"})' => At(u, {"claim"}) /\ claiming' = claiming
    BY <2>1, IdleOK DEF LockInv, At
  <2>. QED  BY <2>1, <2>2, LockKept DEF With
<1>10. CASE UNCHANGED vars
  <2>1. TypeInv'
    BY <1>10, TypeFrame DEF vars, TypeInv
  <2>. QED  BY <1>10, <2>1, LockKept DEF vars, With, At
<1>. QED  BY <1>1, <1>2, <1>3, <1>4, <1>5, <1>6, <1>7, <1>8, <1>9, <1>10 DEF Next, Run

----------------------------------------------------------------------------
(* The pages.                                                               *)

(* A step that works through no page: it may take a cursor from a row, or   *)
(* save a runner's, and it completes a job only for a runner at its end.    *)
LEMMA CoverKept ==
  ASSUME TypeInv, CoverInv, pages' = pages, DOMAIN jobs' = DOMAIN jobs, NEW t \in Runners,
         \A k \in DOMAIN jobs :
           /\ \/ jobs'[k].page = jobs[k].page
              \/ Works(t) /\ k = proc[t].job /\ jobs'[k].page = proc[t].page
           /\ \/ jobs'[k].state = jobs[k].state \/ jobs'[k].state # "completed"
              \/ At(t, {"finish"}) /\ k = proc[t].job /\ proc[t].end = "completed",
         \A u \in Runners \ {t} : proc'[u] = proc[u],
         Works(t)' =>
           /\ \/ Works(t) /\ proc'[t].job = proc[t].job /\ proc'[t].page = proc[t].page
              \/ proc'[t].job \in DOMAIN jobs /\ proc'[t].page = jobs[proc'[t].job].page
           /\ At(t, {"finish", "after"})' /\ proc'[t].end = "completed" =>
                At(t, {"finish", "after"}) /\ proc[t].end = "completed" /\ proc'[t].job = proc[t].job
  PROVE  CoverInv'
<1>1. ASSUME NEW k \in DOMAIN jobs
      PROVE  RowCovered(k)'
  <2>1. RowCovered(k) /\ (Works(t) => RunnerCovered(t))
    BY DEF CoverInv
  <2>2. \A i \in pages'[k] : Behind(pages'[k], i)
    BY <2>1 DEF RowCovered
  <2>3. Behind(pages'[k], jobs'[k].page)
    BY <2>1 DEF RowCovered, RunnerCovered
  <2>4. jobs'[k].state = "completed" => pages'[k] # {}
    BY <2>1 DEF RowCovered, RunnerCovered, Works, At
  <2>. QED  BY <2>2, <2>3, <2>4 DEF RowCovered
<1>2. ASSUME NEW u \in Runners, Works(u)'
      PROVE  RunnerCovered(u)'
  <2>1. CASE u # t
    <3>1. Works(u) /\ proc'[u] = proc[u]
      BY <1>2, <2>1 DEF Works, At
    <3>2. RunnerCovered(u)
      BY <3>1 DEF CoverInv
    <3>. QED  BY <3>1, <3>2 DEF RunnerCovered, At
  <2>2. CASE u = t
    <3>1. Behind(pages'[proc'[t].job], proc'[t].page)
      BY <1>2, <2>2 DEF CoverInv, RunnerCovered, RowCovered
    <3>2. At(t, {"finish", "after"})' /\ proc'[t].end = "completed" => pages'[proc'[t].job] # {}
      BY <1>2, <2>2 DEF CoverInv, RunnerCovered, Works, At
    <3>. QED  BY <2>2, <3>1, <3>2 DEF RunnerCovered
  <2>. QED  BY <2>1, <2>2
<1>. QED  BY <1>1, <1>2 DEF CoverInv

(* A page was worked through: the page of a runner whose pages before it    *)
(* were.                                                                    *)
LEMMA CoverSave ==
  ASSUME TypeInv, CoverInv, NEW t \in Runners, Save(t)
  PROVE  CoverInv'
<1>0. PICK j, n : j = proc[t].job /\ n = proc[t].page
  OBVIOUS
<1>1. /\ proc[t].pc = "item" /\ j \in DOMAIN jobs /\ DOMAIN jobs' = DOMAIN jobs
      /\ \A k \in DOMAIN jobs :
           /\ jobs'[k].state = jobs[k].state
           /\ jobs'[k].page = jobs[k].page \/ (k = j /\ jobs'[k].page = n + 1)
           /\ pages'[k] = pages[k] \cup IF k = j THEN {n} ELSE {}
      /\ proc'[t].job = j /\ proc'[t].page = n + 1
      /\ \A u \in Runners \ {t} : proc'[u] = proc[u]
  BY <1>0, SaveOK DEF InPlace
<1>2. Works(t) /\ n \in Nat \ {0} /\ Behind(pages[j], n)
  BY <1>0, <1>1, ProcOK DEF Works, At, CoverInv, RunnerCovered
<1>3. \A k \in DOMAIN jobs : pages[k] \subseteq pages'[k]
  BY <1>1
<1>4. n \in pages'[j] /\ Behind(pages'[j], n + 1)
  BY <1>1, <1>2 DEF Behind
<1>5. ASSUME NEW k \in DOMAIN jobs, NEW m, Behind(pages[k], m)
      PROVE  Behind(pages'[k], m)
  BY <1>3, <1>5 DEF Behind
<1>6. ASSUME NEW k \in DOMAIN jobs
      PROVE  RowCovered(k)'
  <2>1. RowCovered(k)
    BY DEF CoverInv
  <2>2. ASSUME NEW i \in pages'[k]
        PROVE  Behind(pages'[k], i)
    <3>1. CASE i \in pages[k]
      BY <1>5, <2>1, <3>1 DEF RowCovered
    <3>2. CASE k = j /\ i = n
      BY <1>2, <1>5, <3>2
    <3>. QED  BY <1>1, <2>2, <3>1, <3>2
  <2>3. Behind(pages'[k], jobs'[k].page)
    BY <1>1, <1>4, <1>5, <2>1 DEF RowCovered
  <2>4. jobs'[k].state = "completed" => pages'[k] # {}
    BY <1>1, <1>3, <2>1 DEF RowCovered
  <2>. QED  BY <2>2, <2>3, <2>4 DEF RowCovered
<1>7. ASSUME NEW u \in Runners, Works(u)'
      PROVE  RunnerCovered(u)'
  <2>1. CASE u # t
    <3>1. Works(u) /\ proc'[u] = proc[u] /\ proc[u].job \in DOMAIN jobs
      BY <1>1, <1>7, <2>1 DEF Works, At, TypeInv
    <3>2. RunnerCovered(u)
      BY <3>1 DEF CoverInv
    <3>3. Behind(pages'[proc[u].job], proc[u].page)
      BY <1>5, <3>1, <3>2 DEF RunnerCovered
    <3>. QED  BY <1>3, <3>1, <3>2, <3>3 DEF RunnerCovered, At
  <2>2. CASE u = t
    BY <1>1, <1>4, <2>2 DEF RunnerCovered
  <2>. QED  BY <2>1, <2>2
<1>. QED  BY <1>1, <1>6, <1>7 DEF CoverInv

(* Every step keeps the cursors behind worked pages.                        *)
LEMMA CoverStep ==
  ASSUME TypeInv, CoverInv, [Next]_vars
  PROVE  CoverInv'
<1>1. ASSUME UNCHANGED <<jobs, proc, pages>>
      PROVE  CoverInv'
  BY <1>1 DEF CoverInv, RowCovered, RunnerCovered, Behind, Works, At
<1>2. ASSUME NEW r \in Repos, Create(r) \/ \E p \in 1 .. MaxPrs : Update(r, p)
      PROVE  CoverInv'
  BY <1>1, <1>2, ListsOK
<1>3. ASSUME NEW r \in Repos, Enqueue(r)
      PROVE  CoverInv'
  <2>0. PICK n : n = Len(jobs) + 1
    OBVIOUS
  <2>1. /\ DOMAIN jobs' = DOMAIN jobs \cup {n}
        /\ \A k \in DOMAIN jobs : jobs'[k] = jobs[k] /\ pages'[k] = pages[k]
        /\ jobs'[n].state = "queued" /\ jobs'[n].page = 1 /\ pages'[n] = {}
        /\ proc' = proc
    BY <1>3, <2>0, EnqueueOK
  <2>2. \A k \in DOMAIN jobs : RowCovered(k)'
    BY <2>1 DEF CoverInv, RowCovered, Behind
  <2>3. RowCovered(n)'
    BY <2>1 DEF RowCovered, Behind
  <2>4. ASSUME NEW u \in Runners, Works(u)'
        PROVE  RunnerCovered(u)'
    <3>1. Works(u) /\ proc[u].job \in DOMAIN jobs /\ RunnerCovered(u)
      BY <2>1, <2>4 DEF Works, At, TypeInv, CoverInv
    <3>. QED  BY <2>1, <3>1 DEF RunnerCovered, Behind, At
  <2>. QED  BY <2>1, <2>2, <2>3, <2>4 DEF CoverInv
<1>4. ASSUME NEW j \in DOMAIN jobs, Pause(j) \/ Resume(j) \/ Cancel(j)
      PROVE  CoverInv'
  <2>1. PICK s \in {"paused", "queued", "cancelled"} :
          /\ DOMAIN jobs' = DOMAIN jobs
          /\ \A k \in DOMAIN jobs : /\ jobs'[k].page = jobs[k].page
                                    /\ jobs'[k].state = IF k = j THEN s ELSE jobs[k].state
          /\ UNCHANGED <<proc, pages>>
    BY <1>4, TransitionOK DEF InPlace
  <2>2. \A k \in DOMAIN jobs : RowCovered(k)'
    BY <2>1 DEF CoverInv, RowCovered, Behind
  <2>3. \A u \in Runners : Works(u)' => RunnerCovered(u)'
    BY <2>1 DEF CoverInv, RunnerCovered, Behind, Works, At
  <2>. QED  BY <2>1, <2>2, <2>3 DEF CoverInv
<1>5. ASSUME NEW t \in Runners, ClaimCount(t)
      PROVE  CoverInv'
  <2>1. /\ ~Works(t)' /\ \A u \in Runners \ {t} : proc'[u] = proc[u]
        /\ UNCHANGED <<jobs, pages>>
    BY <1>5, ClaimCountOK DEF Works, At
  <2>. QED  BY <2>1, CoverKept
<1>6. ASSUME NEW t \in Runners, ClaimTake(t)
      PROVE  CoverInv'
  <2>1. pages' = pages /\ \A u \in Runners \ {t} : proc'[u] = proc[u]
    BY <1>6, ClaimTakeOK
  <2>2. CASE proc'[t].pc = "idle" /\ UNCHANGED jobs
    <3>1. ~Works(t)'
      BY <2>2 DEF Works, At
    <3>. QED  BY <2>1, <2>2, <3>1, CoverKept
  <2>3. ASSUME NEW j \in DOMAIN jobs, DOMAIN jobs' = DOMAIN jobs,
               \A k \in DOMAIN jobs : /\ jobs'[k].page = jobs[k].page
                                      /\ jobs'[k].state = IF k = j THEN "running" ELSE jobs[k].state,
               proc'[t].pc = "look", proc'[t].job = j, proc'[t].page = jobs[j].page
        PROVE  CoverInv'
    <3>1. ~At(t, {"finish", "after"})'
      BY <2>3 DEF At
    <3>2. \A k \in DOMAIN jobs : jobs'[k].state = jobs[k].state \/ jobs'[k].state # "completed"
      BY <2>3
    <3>. QED  BY <2>1, <2>3, <3>1, <3>2, CoverKept
  <2>. QED  BY <1>6, <2>2, <2>3, ClaimTakeOK DEF InPlace
<1>7. ASSUME NEW t \in Runners, Look(t) \/ Item(t) \/ After(t) \/ Die(t)
      PROVE  CoverInv'
  <2>1. /\ \A u \in Runners \ {t} : proc'[u] = proc[u]
        /\ UNCHANGED <<jobs, pages>>
        /\ \/ proc'[t] = Idle
           \/ /\ proc[t].pc \in {"look", "item"} /\ proc'[t].pc \in {"list", "item"}
              /\ proc'[t].job = proc[t].job /\ proc'[t].page = proc[t].page
    BY <1>7, LookOK, ItemOK, AfterOK, DieOK
  <2>2. ~At(t, {"finish", "after"})'
    BY <2>1, IdleOK DEF At
  <2>3. Works(t)' => Works(t) /\ proc'[t].job = proc[t].job /\ proc'[t].page = proc[t].page
    BY <2>1, IdleOK DEF Works, At
  <2>. QED  BY <2>1, <2>2, <2>3, CoverKept
<1>8. ASSUME NEW t \in Runners, ListPage(t)
      PROVE  CoverInv'
  <2>1. /\ proc[t].pc = "list" /\ DOMAIN jobs' = DOMAIN jobs
        /\ \A k \in DOMAIN jobs : /\ jobs'[k].state = jobs[k].state
                                  /\ jobs'[k].page \in {jobs[k].page} \cup IF k = proc[t].job THEN {proc[t].page} ELSE {}
        /\ proc'[t].job = proc[t].job /\ proc'[t].page = proc[t].page
        /\ proc'[t].pc \in {"item", "look"} \/ (proc'[t].pc = "finish" /\ proc'[t].end = "failed")
        /\ \A u \in Runners \ {t} : proc'[u] = proc[u]
        /\ pages' = pages
    BY <1>8, ListPageOK DEF InPlace
  <2>2. Works(t)
    BY <2>1 DEF Works, At
  <2>3. ~ (At(t, {"finish", "after"})' /\ proc'[t].end = "completed")
    BY <2>1 DEF At
  <2>. QED  BY <2>1, <2>2, <2>3, CoverKept
<1>9. ASSUME NEW t \in Runners, Save(t)
      PROVE  CoverInv'
  BY <1>9, CoverSave
<1>10. ASSUME NEW t \in Runners, Finish(t)
      PROVE  CoverInv'
  <2>1. /\ proc[t].pc = "finish" /\ DOMAIN jobs' = DOMAIN jobs
        /\ \A k \in DOMAIN jobs :
             /\ jobs'[k].page = jobs[k].page
             /\ jobs'[k].state = IF k = proc[t].job /\ jobs[k].state = "running" THEN proc[t].end
                                 ELSE jobs[k].state
        /\ \/ proc'[t] = Idle
           \/ /\ proc'[t].pc = "after" /\ proc'[t].job = proc[t].job /\ proc'[t].page = proc[t].page
              /\ proc'[t].end = proc[t].end
        /\ \A u \in Runners \ {t} : proc'[u] = proc[u]
        /\ pages' = pages
    BY <1>10, FinishOK DEF InPlace
  <2>2. At(t, {"finish"}) /\ At(t, {"finish", "after"}) /\ Works(t)
    BY <2>1 DEF At, Works
  <2>3. \A k \in DOMAIN jobs :
          \/ jobs'[k].state = jobs[k].state \/ jobs'[k].state # "completed"
          \/ At(t, {"finish"}) /\ k = proc[t].job /\ proc[t].end = "completed"
    BY <2>1, <2>2
  <2>4. Works(t)' => /\ proc'[t].job = proc[t].job /\ proc'[t].page = proc[t].page
                     /\ proc'[t].end = proc[t].end
    BY <2>1, IdleOK DEF Works, At
  <2>. QED  BY <2>1, <2>2, <2>3, <2>4, CoverKept
<1>11. CASE UNCHANGED vars
  BY <1>1, <1>11 DEF vars
<1>. QED  BY <1>2, <1>3, <1>4, <1>5, <1>6, <1>7, <1>8, <1>9, <1>10, <1>11 DEF Next, Run

----------------------------------------------------------------------------
(* The initial states.                                                      *)
LEMMA InitType == Init => TypeInv
<1>. SUFFICES ASSUME Init PROVE TypeInv
  OBVIOUS
<1>1. /\ jobs = <<>> /\ pages = <<>> /\ owed = <<>>
      /\ list = [r \in Repos |-> <<1>>] /\ complete = [r \in Repos |-> 0]
      /\ claiming = None /\ proc = [t \in Runners |-> Idle]
  BY DEF Init
<1>2. list \in [Repos -> Seq(Nat)]
  BY <1>1
<1>3. proc \in [Runners -> Proc] /\ \A t \in Runners : ~Works(t)
  BY <1>1, IdleOK DEF Works, At
<1>4. jobs \in Seq(Job) /\ pages \in Seq(SUBSET Nat) /\ owed \in Seq(SUBSET Nat)
  BY <1>1
<1>. QED  BY <1>1, <1>2, <1>3, <1>4 DEF TypeInv

LEMMA InitInv == Init => IInv
<1>. SUFFICES ASSUME Init PROVE IInv
  OBVIOUS
<1>1. TypeInv
  BY InitType
<1>2. \A t \in Runners : proc[t].pc = "idle"
  BY IdleOK DEF Init
<1>3. jobs = <<>> /\ DOMAIN jobs = {} /\ With("running") = {}
  BY DEF Init, With
<1>4. CapIsKept
  BY <1>3, FS_EmptySet, JobAssumption DEF CapIsKept
<1>5. LockInv /\ CoverInv
  BY <1>2, <1>3 DEF LockInv, CoverInv, Works, At
<1>. QED  BY <1>1, <1>4, <1>5 DEF IInv

(* Whatever the runners, the operators and the deaths, the lock is held     *)
(* from the count to the claim, the cap is kept, and every cursor, a        *)
(* runner's or a saved one, stands behind pages that were worked through    *)
(* (claimNextJob, runBackfillJob, advanceCursor).                           *)
THEOREM Invariance == Spec => []IInv
<1>1. Init => IInv
  BY InitInv
<1>2. IInv /\ [Next]_vars => IInv'
  BY CapStep, CoverStep DEF IInv
<1>. QED  BY <1>1, <1>2, PTL DEF Spec

(* No more jobs run than the cap allows, however many runners claim at the  *)
(* same time (claimNextJob).                                                *)
THEOREM RunningIsCapped == Spec => []CapIsKept
<1>1. IInv => CapIsKept
  BY DEF IInv
<1>. QED  BY <1>1, Invariance, PTL

(* A job that is completed went through every page up to its last, also     *)
(* when it was paused under a runner that went on, resumed for another one, *)
(* or lost a runner (runBackfillJob, finishJobIfRunning).                   *)
THEOREM CompletedJobsAreCovered == Spec => []CompletedIsCovered
<1>1. IInv => CompletedIsCovered
  <2>. SUFFICES ASSUME IInv, NEW j \in DOMAIN jobs, jobs[j].state = "completed"
                PROVE  pages[j] # {} /\ \A i \in 1 .. MaxPrs + 1 : i \in pages[j] => \A k \in 1 .. i : k \in pages[j]
    BY DEF CompletedIsCovered
  <2>1. RowCovered(j)
    BY DEF IInv, CoverInv
  <2>2. ASSUME NEW i \in 1 .. MaxPrs + 1, i \in pages[j], NEW k \in 1 .. i
        PROVE  k \in pages[j]
    <3>1. CASE k = i
      BY <2>2, <3>1
    <3>2. CASE k # i
      <4>1. k \in 1 .. i - 1
        BY <3>2, JobAssumption
      <4>. QED  BY <2>1, <2>2, <4>1 DEF RowCovered, Behind
    <3>. QED  BY <3>1, <3>2
  <2>. QED  BY <2>1, <2>2 DEF RowCovered
<1>. QED  BY <1>1, Invariance, PTL

----------------------------------------------------------------------------
(* A bootstrap without operators: the parts of BInv, for a step of one      *)
(* runner.                                                                  *)

(* A step of t that queues nothing, and takes no other job.                 *)
LEMMA OnceKept ==
  ASSUME TypeInv, OnceInv, NEW t \in Runners, DOMAIN jobs' = DOMAIN jobs,
         \A k \in DOMAIN jobs : jobs'[k].state = "queued" =>
           jobs[k].state = "queued" /\ jobs'[k].page = jobs[k].page,
         UNCHANGED <<owed, complete>>,
         \A u \in Runners \ {t} : proc'[u] = proc[u],
         Works(t)' => Works(t) /\ proc'[t].job = proc[t].job
  PROVE  OnceInv'
<1>1. \A k \in DOMAIN jobs' : jobs'[k].state = "queued" => jobs'[k].page = 1 /\ owed'[k] = {}
  BY DEF OnceInv
<1>2. \A u \in Runners : Works(u)' => Works(u) /\ proc'[u].job = proc[u].job
  BY DEF Works, At
<1>3. ASSUME NEW u \in Runners, Works(u)'
      PROVE  /\ jobs'[proc'[u].job].state # "queued"
             /\ \A v \in Runners : Works(v)' /\ proc'[v].job = proc'[u].job => v = u
  <2>1. Works(u) /\ proc'[u].job = proc[u].job /\ proc[u].job \in DOMAIN jobs
    BY <1>2, <1>3 DEF TypeInv
  <2>2. jobs'[proc'[u].job].state # "queued"
    BY <2>1 DEF OnceInv
  <2>3. ASSUME NEW v \in Runners, Works(v)', proc'[v].job = proc'[u].job
        PROVE  v = u
    BY <1>2, <2>1, <2>3 DEF OnceInv
  <2>. QED  BY <2>2, <2>3
<1>4. \A r \in Repos : complete'[r] # 0 => complete'[r] \in DOMAIN jobs' /\ jobs'[complete'[r]].state # "queued"
  BY DEF OnceInv
<1>. QED  BY <1>1, <1>3, <1>4 DEF OnceInv

(* Another runner does not notice the step.                                 *)
LEMMA ProgressOther ==
  ASSUME ProgressInv, NEW u \in Runners, Works(u)', ~proc'[u].failed, proc'[u] = proc[u],
         snap \subseteq snap', owed'[proc[u].job] = owed[proc[u].job],
         jobs'[proc[u].job].repo = jobs[proc[u].job].repo
  PROVE  Progress(u)'
<1>1. Works(u) /\ Progress(u)
  BY DEF Works, At, ProgressInv
<1>. QED  BY <1>1 DEF Progress, Written, At

(* What is marked complete stays whole: its job is not claimed again.       *)
LEMMA WholeKept ==
  ASSUME TypeInv, OnceInv, WholeInv, MarkedInv, complete' = complete, snap \subseteq snap',
         \A k \in DOMAIN jobs :
           /\ jobs'[k].repo = jobs[k].repo
           /\ owed'[k] = owed[k] \/ jobs[k].state = "queued"
  PROVE  WholeInv' /\ MarkedInv'
<1>. SUFFICES ASSUME NEW r \in Repos, complete[r] # 0
              PROVE  jobs'[complete[r]].repo = r /\ \A p \in owed'[complete[r]] : <<r, p>> \in snap'
  BY DEF WholeInv, MarkedInv
<1>1. complete[r] \in DOMAIN jobs /\ jobs[complete[r]].state # "queued" /\ jobs[complete[r]].repo = r
  BY DEF OnceInv, WholeInv
<1>2. \A p \in owed[complete[r]] : <<r, p>> \in snap
  BY DEF MarkedInv
<1>. QED  BY <1>1, <1>2

(* A step of t that changes rows in place, and neither lists nor debts.     *)
LEMMA RunnerStep ==
  ASSUME TypeInv, BInv, NEW t \in Runners, TypeInv', InPlace, snap \subseteq snap',
         UNCHANGED <<list, owed, complete>>,
         \A k \in DOMAIN jobs : jobs'[k].state = "queued" =>
           jobs[k].state = "queued" /\ jobs'[k].page = jobs[k].page,
         \A u \in Runners \ {t} : proc'[u] = proc[u],
         Works(t)' => Works(t) /\ proc'[t].job = proc[t].job,
         Works(t)' /\ ~proc'[t].failed => Progress(t)',
         At(t, {"after"})' => proc'[t].end = "completed"
  PROVE  BInv'
<1>1. ListInv' /\ OwedInv'
  BY DEF BInv, ListInv, OwedInv, InPlace
<1>2. OnceInv'
  BY OnceKept DEF BInv, InPlace
<1>3. ASSUME NEW u \in Runners, Works(u)', ~proc'[u].failed
      PROVE  Progress(u)'
  <2>1. CASE u = t
    BY <1>3, <2>1
  <2>2. CASE u # t
    <3>1. proc'[u] = proc[u] /\ Works(u) /\ proc[u].job \in DOMAIN jobs
      BY <1>3, <2>2 DEF Works, At, TypeInv
    <3>2. jobs'[proc[u].job].repo = jobs[proc[u].job].repo
      BY <3>1 DEF InPlace
    <3>. QED  BY <1>3, <3>1, <3>2, ProgressOther DEF BInv
  <2>. QED  BY <2>1, <2>2
<1>4. AfterInv'
  BY DEF BInv, AfterInv, At
<1>5. WholeInv' /\ MarkedInv'
  BY WholeKept DEF BInv, InPlace
<1>. QED  BY <1>1, <1>2, <1>3, <1>4, <1>5 DEF BInv, ProgressInv

(* Pull requests are created, and only at the end of the list.              *)
LEMMA ListsStep ==
  ASSUME BInv, Bootstrap, NEW r \in Repos, Create(r) \/ \E p \in 1 .. MaxPrs : Update(r, p)
  PROVE  BInv'
<1>1. /\ UNCHANGED <<jobs, snap, complete, claiming, proc, pages, owed>> /\ TypeInv'
      /\ list \in [Repos -> Seq(Nat)] /\ TypeInv
  BY ListsOK, TypeFrame DEF BInv, TypeInv
<1>2. ListInv' /\ \A q \in Repos : Len(list[q]) <= Len(list'[q])
  <2>1. CASE Create(r)
    <3>. DEFINE new == list[r] \o <<Len(list[r]) + 1>>
    <3>1. list' = [list EXCEPT ![r] = new]
      BY <2>1 DEF Create
    <3>2. list[r] \in Seq(Nat) /\ \A i \in 1 .. Len(list[r]) : list[r][i] = i
      BY <1>1 DEF BInv, ListInv
    <3>3. Len(new) = Len(list[r]) + 1 /\ \A i \in 1 .. Len(new) : new[i] = i
      BY <3>2
    <3>. HIDE DEF new
    <3>4. list'[r] = new /\ \A q \in Repos \ {r} : list'[q] = list[q]
      BY <1>1, <3>1
    <3>5. \A q \in Repos : Len(list[q]) \in Nat
      BY <1>1
    <3>. QED  BY <3>3, <3>4, <3>5 DEF BInv, ListInv
  <2>2. ASSUME NEW p \in 1 .. MaxPrs, Update(r, p)
        PROVE  ListInv' /\ \A q \in Repos : Len(list[q]) <= Len(list'[q])
    <3>1. list' = list
      BY <1>1, <2>2 DEF Update, Listed
    <3>2. \A q \in Repos : Len(list[q]) \in Nat
      BY <1>1
    <3>. QED  BY <3>1, <3>2 DEF BInv, ListInv
  <2>. QED  BY <2>1, <2>2
<1>3. OwedInv'
  <2>. SUFFICES ASSUME NEW j \in DOMAIN jobs, NEW p \in owed[j]
                PROVE  p \in 1 .. Len(list'[jobs[j].repo])
    BY <1>1 DEF OwedInv
  <2>1. jobs[j] \in Job
    BY <1>1 DEF TypeInv
  <2>2. jobs[j].repo \in Repos
    BY <2>1 DEF Job
  <2>3. Len(list[jobs[j].repo]) \in Nat /\ Len(list'[jobs[j].repo]) \in Nat
    BY <1>1, <2>2 DEF TypeInv
  <2>4. p \in 1 .. Len(list[jobs[j].repo])
    BY DEF BInv, OwedInv
  <2>. QED  BY <1>2, <2>2, <2>3, <2>4
<1>4. OnceInv' /\ ProgressInv' /\ AfterInv' /\ WholeInv' /\ MarkedInv'
  <2>1. OnceInv' /\ AfterInv' /\ WholeInv' /\ MarkedInv'
    BY <1>1 DEF BInv, OnceInv, AfterInv, WholeInv, MarkedInv, Works, At
  <2>2. ProgressInv'
    BY <1>1, ProgressOther DEF BInv, ProgressInv, Works, At
  <2>. QED  BY <2>1, <2>2
<1>. QED  BY <1>1, <1>2, <1>3, <1>4 DEF BInv

(* A queued job is added.                                                   *)
LEMMA EnqueueStep ==
  ASSUME BInv, NEW r \in Repos, Enqueue(r)
  PROVE  BInv'
<1>0. PICK n : n = Len(jobs) + 1
  OBVIOUS
<1>1. /\ DOMAIN jobs' = DOMAIN jobs \cup {n} /\ n \notin DOMAIN jobs
      /\ \A k \in DOMAIN jobs : jobs'[k] = jobs[k] /\ owed'[k] = owed[k]
      /\ jobs'[n].state = "queued" /\ jobs'[n].page = 1 /\ owed'[n] = {}
      /\ UNCHANGED <<list, snap, complete, claiming, proc>> /\ TypeInv'
  BY <1>0, EnqueueOK DEF BInv
<1>2. \A u \in Runners : Works(u)' => Works(u) /\ proc'[u] = proc[u] /\ proc[u].job \in DOMAIN jobs
  BY <1>1 DEF BInv, TypeInv, Works, At
<1>3. ListInv' /\ OwedInv'
  BY <1>1 DEF BInv, ListInv, OwedInv
<1>4. OnceInv'
  <2>1. \A k \in DOMAIN jobs' : jobs'[k].state = "queued" => jobs'[k].page = 1 /\ owed'[k] = {}
    BY <1>1 DEF BInv, OnceInv
  <2>2. \A u \in Runners : Works(u)' =>
          /\ jobs'[proc'[u].job].state # "queued"
          /\ \A v \in Runners : Works(v)' /\ proc'[v].job = proc'[u].job => v = u
    BY <1>1, <1>2 DEF BInv, OnceInv
  <2>3. \A q \in Repos : complete'[q] # 0 => complete'[q] \in DOMAIN jobs' /\ jobs'[complete'[q]].state # "queued"
    BY <1>1 DEF BInv, OnceInv
  <2>. QED  BY <2>1, <2>2, <2>3 DEF OnceInv
<1>5. ProgressInv'
  BY <1>1, <1>2, ProgressOther DEF BInv, ProgressInv
<1>6. AfterInv'
  BY <1>1 DEF BInv, AfterInv, At
<1>7. WholeInv' /\ MarkedInv'
  BY <1>1, WholeKept DEF BInv
<1>. QED  BY <1>1, <1>3, <1>4, <1>5, <1>6, <1>7 DEF BInv

(* A queued job is claimed, which nobody works on and nobody worked on.     *)
LEMMA ClaimStep ==
  ASSUME BInv, NEW t \in Runners, ClaimTake(t)
  PROVE  BInv'
<1>1. /\ proc[t].pc = "claim" /\ UNCHANGED <<list, snap, complete>> /\ TypeInv /\ TypeInv'
      /\ \A u \in Runners \ {t} : proc'[u] = proc[u]
  BY ClaimTakeOK DEF BInv
<1>2. CASE proc'[t].pc = "idle" /\ UNCHANGED <<jobs, owed>>
  <2>1. ~Works(t)' /\ ~At(t, {"after"})' /\ InPlace
    BY <1>1, <1>2 DEF Works, At, InPlace, TypeInv
  <2>. QED  BY <1>1, <1>2, <2>1, RunnerStep
<1>3. ASSUME NEW j \in DOMAIN jobs, jobs[j].state = "queued", InPlace,
             \A k \in DOMAIN jobs : /\ jobs'[k].page = jobs[k].page
                                    /\ jobs'[k].state = IF k = j THEN "running" ELSE jobs[k].state,
             proc'[t].pc = "look", proc'[t].job = j, proc'[t].page = jobs[j].page,
             \A k \in DOMAIN jobs :
               owed'[k] = IF k = j /\ owed[k] = {} THEN Range(list[jobs[j].repo]) ELSE owed[k]
      PROVE  BInv'
  <2>1. /\ \A k \in DOMAIN jobs \ {j} : owed'[k] = owed[k] /\ jobs'[k].state = jobs[k].state
        /\ owed'[j] = Range(list[jobs[j].repo]) /\ jobs[j].page = 1
        /\ DOMAIN jobs' = DOMAIN jobs /\ \A k \in DOMAIN jobs : jobs'[k].repo = jobs[k].repo
    BY <1>3 DEF BInv, OnceInv, InPlace
  <2>2. \A u \in Runners \ {t} : Works(u)' =>
          Works(u) /\ proc'[u] = proc[u] /\ proc[u].job \in DOMAIN jobs /\ proc[u].job # j
    BY <1>1, <1>3 DEF BInv, TypeInv, OnceInv, Works, At
  <2>3. ListInv'
    BY <1>1 DEF BInv, ListInv
  <2>4. OwedInv'
    <3>1. jobs[j] \in Job
      BY <1>1, <1>3 DEF TypeInv
    <3>2. jobs[j].repo \in Repos
      BY <3>1 DEF Job
    <3>3. list[jobs[j].repo] \in Seq(Nat)
      BY <1>1, <3>2 DEF TypeInv
    <3>4. \A p \in owed'[j] : p \in 1 .. Len(list[jobs[j].repo])
      BY <2>1, <3>2, <3>3 DEF Range, BInv, ListInv
    <3>. QED  BY <1>1, <2>1, <3>4 DEF BInv, OwedInv
  <2>5. OnceInv'
    <3>1. \A k \in DOMAIN jobs' : jobs'[k].state = "queued" => jobs'[k].page = 1 /\ owed'[k] = {}
      BY <1>3, <2>1 DEF BInv, OnceInv
    <3>2. ASSUME NEW u \in Runners, Works(u)'
          PROVE  /\ jobs'[proc'[u].job].state # "queued"
                 /\ \A v \in Runners : Works(v)' /\ proc'[v].job = proc'[u].job => v = u
      <4>1. CASE u = t
        BY <1>3, <2>2, <4>1
      <4>2. CASE u # t
        BY <1>3, <2>1, <2>2, <3>2, <4>2 DEF BInv, OnceInv
      <4>. QED  BY <4>1, <4>2
    <3>3. \A q \in Repos : complete'[q] # 0 => complete'[q] \in DOMAIN jobs' /\ jobs'[complete'[q]].state # "queued"
      BY <1>1, <1>3, <2>1 DEF BInv, OnceInv
    <3>. QED  BY <3>1, <3>2, <3>3 DEF OnceInv
  <2>6. ProgressInv'
    <3>1. ASSUME NEW u \in Runners, u # t, Works(u)', ~proc'[u].failed
          PROVE  Progress(u)'
      BY <1>1, <2>1, <2>2, <3>1, ProgressOther DEF BInv
    <3>2. Progress(t)'
      <4>1. (proc'[t].page - 1) * PageSize = 0
        BY <1>3, <2>1, JobAssumption
      <4>2. ASSUME NEW p \in owed'[proc'[t].job] PROVE ~(p <= (proc'[t].page - 1) * PageSize)
        <5>1. p \in 1 .. Len(list'[jobs'[j].repo])
          BY <1>3, <2>1, <2>4, <4>2 DEF OwedInv
        <5>. QED  BY <4>1, <5>1
      <4>3. ~At(t, {"item"})' /\ ~At(t, {"finish", "after"})'
        BY <1>3 DEF At
      <4>. QED  BY <4>2, <4>3 DEF Progress
    <3>. QED  BY <3>1, <3>2 DEF ProgressInv
  <2>7. AfterInv'
    BY <1>1, <1>3 DEF BInv, AfterInv, At
  <2>8. WholeInv' /\ MarkedInv'
    <3>1. \A k \in DOMAIN jobs : jobs'[k].repo = jobs[k].repo /\ (owed'[k] = owed[k] \/ jobs[k].state = "queued")
      BY <1>3, <2>1
    <3>. QED  BY <1>1, <3>1, WholeKept DEF BInv
  <2>. QED  BY <1>1, <2>3, <2>4, <2>5, <2>6, <2>7, <2>8 DEF BInv
<1>. QED  BY <1>2, <1>3, ClaimTakeOK DEF BInv

(* The next page: what it lists, with what was written before, is all up to *)
(* its end, and a short page is the last one.                               *)
LEMMA ListPageStep ==
  ASSUME BInv, NEW t \in Runners, ListPage(t)
  PROVE  BInv'
<1>0. PICK j, n : j = proc[t].job /\ n = proc[t].page
  OBVIOUS
<1>a. PICK all, items, low, high :
       /\ all = list[jobs[j].repo] /\ items = PageItems(all, n)
       /\ low = (n - 1) * PageSize /\ high = n * PageSize
  OBVIOUS
<1>1. /\ proc[t].pc = "list" /\ InPlace /\ TypeInv /\ TypeInv'
      /\ \A k \in DOMAIN jobs : /\ jobs'[k].state = jobs[k].state
                                /\ jobs'[k].page \in {jobs[k].page} \cup IF k = j THEN {n} ELSE {}
      /\ proc'[t].job = j /\ proc'[t].page = n /\ proc'[t].failed = proc[t].failed
      /\ \/ proc'[t].pc = "item" /\ proc'[t].items = items /\ proc'[t].more = (Len(items) >= PageSize)
         \/ proc'[t].pc = "look"
         \/ proc'[t].pc = "finish" /\ proc'[t].end = "failed"
      /\ \A u \in Runners \ {t} : proc'[u] = proc[u]
      /\ UNCHANGED <<list, snap, complete, owed>>
  BY <1>0, <1>a, ListPageOK DEF BInv, RepoOf
<1>2. Works(t) /\ j \in DOMAIN jobs /\ n \in Nat \ {0} /\ jobs'[j].repo = jobs[j].repo
  BY <1>0, <1>1, ProcOK DEF Works, At, InPlace
<1>3. \A k \in DOMAIN jobs : jobs'[k].state = "queued" =>
        jobs[k].state = "queued" /\ jobs'[k].page = jobs[k].page
  BY <1>0, <1>1, <1>2 DEF BInv, OnceInv
<1>4. /\ all \in Seq(Nat) /\ Len(all) \in Nat /\ \A i \in 1 .. Len(all) : all[i] = i
      /\ \A p \in owed[j] : p \in 1 .. Len(all)
  <2>1. jobs[j] \in Job
    BY <1>1, <1>2 DEF TypeInv
  <2>2. jobs[j].repo \in Repos
    BY <2>1 DEF Job
  <2>3. all \in Seq(Nat) /\ Len(all) \in Nat
    BY <1>a, <1>1, <2>2 DEF TypeInv
  <2>4. \A i \in 1 .. Len(all) : all[i] = i
    BY <1>a, <2>2 DEF BInv, ListInv
  <2>5. \A p \in owed[j] : p \in 1 .. Len(all)
    BY <1>a, <1>2 DEF BInv, OwedInv
  <2>. QED  BY <2>3, <2>4, <2>5
<1>5. /\ items \in Seq(Nat) /\ Len(items) \in Nat
      /\ Len(items) < PageSize => Len(all) < high
      /\ \A i \in 1 .. Len(all) : i > low /\ i <= high =>
           \E k \in 1 .. Len(items) : items[k] = all[i]
  <2>1. /\ PageItems(all, n) \in Seq(Nat)
        /\ Len(PageItems(all, n)) < PageSize => Len(all) < n * PageSize
        /\ \A i \in 1 .. Len(all) : i > (n - 1) * PageSize /\ i <= n * PageSize =>
             \E k \in 1 .. Len(PageItems(all, n)) : PageItems(all, n)[k] = all[i]
    BY <1>2, <1>4, PageItemsOK, Zenon
  <2>2. /\ items \in Seq(Nat)
        /\ Len(items) < PageSize => Len(all) < high
        /\ \A i \in 1 .. Len(all) : i > low /\ i <= high => \E k \in 1 .. Len(items) : items[k] = all[i]
    BY <1>a, <2>1, Zenon
  <2>3. Len(items) \in Nat
    BY <2>2
  <2>. QED  BY <2>2, <2>3, Zenon
<1>6. low \in Nat /\ high \in Nat /\ PageSize \in Nat
  BY <1>a, <1>2, PageBounds, JobAssumption
<1>7. ASSUME ~proc'[t].failed PROVE Progress(t)'
  <2>1. \A p \in owed[j] : p <= low => <<jobs[j].repo, p>> \in snap
    BY <1>0, <1>a, <1>1, <1>2, <1>7 DEF BInv, ProgressInv, Progress, Written, At
  <2>2. CASE proc'[t].pc = "item" /\ proc'[t].items = items /\ proc'[t].more = (Len(items) >= PageSize)
    <3>. DEFINE done(p) == <<jobs[j].repo, p>> \in snap
    <3>1. ASSUME NEW p \in owed[j], p <= high \/ ~proc'[t].more
          PROVE  done(p) \/ \E i \in 1 .. Len(items) : items[i] = p
      <4>1. p \in 1 .. Len(all) /\ p \in Nat /\ all[p] = p
        BY <1>4
      <4>2. p <= high
        <5>1. CASE p <= high
          BY <5>1
        <5>2. CASE ~proc'[t].more
          <6>1. ~(Len(items) >= PageSize)
            BY <2>2, <5>2, Zenon
          <6>. QED  BY <1>4, <1>5, <1>6, <4>1, <6>1
        <5>. QED  BY <3>1, <5>1, <5>2
      <4>3. CASE p <= low
        BY <2>1, <4>3
      <4>4. CASE ~(p <= low)
        BY <1>5, <1>6, <4>1, <4>2, <4>4
      <4>. QED  BY <4>3, <4>4
    <3>2. \A p \in owed[j] : p <= high \/ ~proc'[t].more =>
            done(p) \/ \E i \in 1 .. Len(proc'[t].items) : proc'[t].items[i] = p
      BY <2>2, <3>1
    <3>. QED  BY <1>a, <1>1, <1>2, <2>2, <3>2 DEF Progress, Written, At
  <2>3. CASE proc'[t].pc = "look"
    BY <1>a, <1>1, <1>2, <2>1, <2>3 DEF Progress, Written, At
  <2>4. CASE proc'[t].pc = "finish" /\ proc'[t].end = "failed"
    BY <2>4 DEF Progress, At
  <2>. QED  BY <1>1, <2>2, <2>3, <2>4
<1>8. ~At(t, {"after"})'
  BY <1>1 DEF At
<1>. QED  BY <1>0, <1>1, <1>2, <1>3, <1>7, <1>8, RunnerStep

(* An item is written, or the failure is kept in mind.                      *)
LEMMA ItemStep ==
  ASSUME BInv, NEW t \in Runners, Item(t)
  PROVE  BInv'
<1>0. PICK j, items : j = proc[t].job /\ items = proc[t].items
  OBVIOUS
<1>1. /\ proc[t].pc = "item" /\ items # <<>> /\ proc'[t].pc = "item" /\ proc'[t].job = j
      /\ proc'[t].page = proc[t].page /\ proc'[t].more = proc[t].more /\ proc'[t].items = Tail(items)
      /\ \/ proc'[t].failed = proc[t].failed /\ snap' = snap \cup {<<jobs[j].repo, items[1]>>}
         \/ proc'[t].failed = TRUE /\ snap' = snap
      /\ \A u \in Runners \ {t} : proc'[u] = proc[u]
      /\ UNCHANGED <<jobs, list, complete, owed>>
      /\ TypeInv /\ TypeInv'
  BY <1>0, ItemOK DEF BInv, RepoOf
<1>2. Works(t) /\ j \in DOMAIN jobs /\ items \in Seq(Nat) /\ ~At(t, {"after"})' /\ InPlace
  BY <1>0, <1>1, ProcOK DEF Works, At, InPlace, TypeInv
<1>3. snap \subseteq snap'
  BY <1>1
<1>4. ASSUME ~proc'[t].failed PROVE Progress(t)'
  <2>1. proc'[t].failed = proc[t].failed /\ snap' = snap \cup {<<jobs[j].repo, items[1]>>}
    BY <1>1, <1>4
  <2>2. \A p \in owed[j] : p <= proc[t].page * PageSize \/ ~proc[t].more =>
          <<jobs[j].repo, p>> \in snap \/ \E i \in 1 .. Len(items) : items[i] = p
    BY <1>0, <1>1, <1>2, <1>4, <2>1 DEF BInv, ProgressInv, Progress, Written, At
  <2>3. ASSUME NEW p, NEW i \in 1 .. Len(items), items[i] = p, p # items[1]
        PROVE  \E k \in 1 .. Len(Tail(items)) : Tail(items)[k] = p
    <3>1. i # 1 /\ i - 1 \in 1 .. Len(Tail(items)) /\ Tail(items)[i - 1] = items[i]
      BY <1>1, <1>2, <2>3
    <3>. QED  BY <2>3, <3>1
  <2>4. \A p \in owed[j] : p <= proc[t].page * PageSize \/ ~proc[t].more =>
          <<jobs[j].repo, p>> \in snap' \/ \E i \in 1 .. Len(Tail(items)) : Tail(items)[i] = p
    BY <2>1, <2>2, <2>3
  <2>. QED  BY <1>1, <1>2, <2>4 DEF Progress, Written, At
<1>. QED  BY <1>0, <1>1, <1>2, <1>3, <1>4, RunnerStep

(* The page is done.                                                        *)
LEMMA SaveStep ==
  ASSUME BInv, NEW t \in Runners, Save(t)
  PROVE  BInv'
<1>0. PICK j, n : j = proc[t].job /\ n = proc[t].page
  OBVIOUS
<1>1. /\ proc[t].pc = "item" /\ proc[t].items = <<>> /\ j \in DOMAIN jobs /\ InPlace
      /\ \A k \in DOMAIN jobs : /\ jobs'[k].state = jobs[k].state
                                /\ jobs'[k].page = jobs[k].page \/ (k = j /\ jobs'[k].page = n + 1)
      /\ proc'[t].job = j /\ proc'[t].page = n + 1 /\ proc'[t].failed = proc[t].failed
      /\ proc'[t].pc = IF proc[t].more THEN "look" ELSE "finish"
      /\ \A u \in Runners \ {t} : proc'[u] = proc[u]
      /\ UNCHANGED <<list, snap, complete, owed>>
      /\ TypeInv /\ TypeInv'
  BY <1>0, SaveOK DEF BInv
<1>2. Works(t) /\ ~At(t, {"after"})' /\ n \in Nat \ {0} /\ jobs'[j].repo = jobs[j].repo
  BY <1>0, <1>1, ProcOK DEF Works, At, InPlace
<1>3. \A k \in DOMAIN jobs : jobs'[k].state = "queued" =>
        jobs[k].state = "queued" /\ jobs'[k].page = jobs[k].page
  BY <1>0, <1>1, <1>2 DEF BInv, OnceInv
<1>4. ASSUME ~proc'[t].failed PROVE Progress(t)'
  <2>1. \A p \in owed[j] : p <= n * PageSize \/ ~proc[t].more => <<jobs[j].repo, p>> \in snap
    <3>1. \A p \in owed[j] : p <= n * PageSize \/ ~proc[t].more =>
            <<jobs[j].repo, p>> \in snap \/ \E i \in 1 .. Len(proc[t].items) : proc[t].items[i] = p
      BY <1>0, <1>1, <1>2, <1>4 DEF BInv, ProgressInv, Progress, Written, At
    <3>2. 1 .. Len(proc[t].items) = {}
      BY <1>1
    <3>. QED  BY <3>1, <3>2
  <2>3. CASE proc[t].more
    <3>1. proc'[t].pc = "look" /\ proc'[t].page = n + 1
      BY <1>1, <2>3
    <3>2. (proc'[t].page - 1) * PageSize = n * PageSize
      <4>1. proc'[t].page - 1 = n
        BY <1>2, <3>1
      <4>. QED  BY <4>1, Zenon
    <3>. QED  BY <1>1, <1>2, <2>1, <3>1, <3>2 DEF Progress, Written, At
  <2>4. CASE ~proc[t].more
    <3>1. proc'[t].pc = "finish" /\ \A p \in owed[j] : <<jobs[j].repo, p>> \in snap
      BY <1>1, <2>1, <2>4
    <3>. QED  BY <1>1, <1>2, <3>1 DEF Progress, Written, At
  <2>. QED  BY <2>3, <2>4
<1>. QED  BY <1>0, <1>1, <1>2, <1>3, <1>4, RunnerStep

(* The other steps of a runner.                                             *)
LEMMA OtherStep ==
  ASSUME BInv, NEW t \in Runners, ClaimCount(t) \/ Look(t) \/ Finish(t) \/ Die(t)
  PROVE  BInv'
<1>0. PICK j : j = proc[t].job
  OBVIOUS
<1>1. /\ TypeInv /\ TypeInv' /\ InPlace
      /\ \A k \in DOMAIN jobs : jobs'[k].state = "queued" =>
           jobs[k].state = "queued" /\ jobs'[k].page = jobs[k].page
      /\ \A u \in Runners \ {t} : proc'[u] = proc[u]
      /\ UNCHANGED <<list, snap, complete, owed>>
  <2>1. TypeInv /\ (jobs' = jobs => InPlace)
    BY DEF BInv, TypeInv, InPlace
  <2>2. CASE ClaimCount(t)
    BY <2>1, <2>2, ClaimCountOK
  <2>3. CASE Look(t)
    BY <2>1, <2>3, LookOK
  <2>4. CASE Die(t)
    BY <2>1, <2>4, DieOK
  <2>5. CASE Finish(t)
    BY <2>1, <2>5, FinishOK
  <2>. QED  BY <2>2, <2>3, <2>4, <2>5
<1>2. \/ proc'[t].pc \in {"idle", "claim"}
      \/ /\ \/ proc[t].pc = "look" /\ proc'[t].pc = "list"
            \/ proc[t].pc = "finish" /\ proc'[t].pc = "after" /\ proc'[t].end = "completed" /\ proc[t].end = "completed"
         /\ proc'[t].job = j /\ proc'[t].page = proc[t].page /\ proc'[t].failed = proc[t].failed
  <2>0. TypeInv
    BY <1>1
  <2>1. CASE ClaimCount(t)
    BY <2>0, <2>1, ClaimCountOK
  <2>2. CASE Look(t)
    BY <1>0, <2>0, <2>2, LookOK, IdleOK
  <2>3. CASE Die(t)
    BY <2>0, <2>3, DieOK, IdleOK
  <2>4. CASE Finish(t)
    BY <1>0, <2>0, <2>4, FinishOK, IdleOK
  <2>. QED  BY <2>1, <2>2, <2>3, <2>4
<1>3. CASE proc'[t].pc \in {"idle", "claim"}
  <2>1. ~Works(t)' /\ ~At(t, {"after"})'
    BY <1>3 DEF Works, At
  <2>. QED  BY <1>1, <2>1, RunnerStep
<1>4. CASE /\ \/ proc[t].pc = "look" /\ proc'[t].pc = "list"
              \/ proc[t].pc = "finish" /\ proc'[t].pc = "after" /\ proc'[t].end = "completed" /\ proc[t].end = "completed"
           /\ proc'[t].job = j /\ proc'[t].page = proc[t].page /\ proc'[t].failed = proc[t].failed
  <2>1. Works(t) /\ (At(t, {"after"})' => proc'[t].end = "completed")
    BY <1>4 DEF Works, At
  <2>2. jobs'[j].repo = jobs[j].repo
    BY <1>0, <1>1, <2>1 DEF TypeInv, InPlace
  <2>3. ASSUME ~proc'[t].failed PROVE Progress(t)'
    <3>1. Progress(t)
      BY <1>4, <2>1, <2>3 DEF BInv, ProgressInv
    <3>2. CASE proc[t].pc = "look" /\ proc'[t].pc = "list"
      BY <1>0, <1>1, <1>4, <2>2, <3>1, <3>2 DEF Progress, Written, At
    <3>3. CASE proc[t].pc = "finish" /\ proc'[t].pc = "after" /\ proc[t].end = "completed"
      BY <1>0, <1>1, <1>4, <2>2, <3>1, <3>3 DEF Progress, Written, At
    <3>. QED  BY <1>4, <3>2, <3>3
  <2>. QED  BY <1>0, <1>1, <1>4, <2>1, <2>3, RunnerStep
<1>. QED  BY <1>2, <1>3, <1>4

(* A repository is marked by a runner that has written what it owed.        *)
LEMMA AfterStep ==
  ASSUME BInv, NEW t \in Runners, After(t)
  PROVE  BInv'
<1>0. PICK j, r : j = proc[t].job /\ r = jobs[j].repo
  OBVIOUS
<1>1. /\ proc[t].pc = "after" /\ proc'[t] = Idle /\ j \in DOMAIN jobs /\ r \in Repos
      /\ \/ complete' = complete
         \/ ~proc[t].failed /\ complete' = [complete EXCEPT ![r] = j]
      /\ \A u \in Runners \ {t} : proc'[u] = proc[u]
      /\ UNCHANGED <<jobs, list, snap, owed>>
      /\ TypeInv /\ TypeInv'
  BY <1>0, AfterOK DEF BInv, RepoOf
<1>2. Works(t) /\ ~Works(t)' /\ ~At(t, {"after"})' /\ InPlace
  BY <1>1, IdleOK DEF Works, At, InPlace, TypeInv
<1>3. CASE complete' = complete
  BY <1>1, <1>2, <1>3, RunnerStep
<1>4. CASE ~proc[t].failed /\ complete' = [complete EXCEPT ![r] = j]
  <2>1. complete'[r] = j /\ \A q \in Repos \ {r} : complete'[q] = complete[q]
    BY <1>1, <1>4 DEF TypeInv
  <2>2. jobs[j].state # "queued" /\ jobs[j].repo = r
    BY <1>0, <1>2 DEF BInv, OnceInv
  <2>3. \A p \in owed[j] : <<r, p>> \in snap
    BY <1>0, <1>1, <1>2, <1>4 DEF BInv, AfterInv, ProgressInv, Progress, Written, At
  <2>4. \A u \in Runners : Works(u)' => Works(u) /\ proc'[u] = proc[u]
    BY <1>1, <1>2 DEF Works, At
  <2>5. ListInv' /\ OwedInv'
    BY <1>1 DEF BInv, ListInv, OwedInv
  <2>6. OnceInv'
    <3>1. \A k \in DOMAIN jobs' : jobs'[k].state = "queued" => jobs'[k].page = 1 /\ owed'[k] = {}
      BY <1>1 DEF BInv, OnceInv
    <3>2. \A u \in Runners : Works(u)' =>
            /\ jobs'[proc'[u].job].state # "queued"
            /\ \A v \in Runners : Works(v)' /\ proc'[v].job = proc'[u].job => v = u
      BY <1>1, <2>4 DEF BInv, OnceInv
    <3>3. \A q \in Repos : complete'[q] # 0 => complete'[q] \in DOMAIN jobs' /\ jobs'[complete'[q]].state # "queued"
      BY <1>1, <2>1, <2>2 DEF BInv, OnceInv
    <3>. QED  BY <3>1, <3>2, <3>3 DEF OnceInv
  <2>7. ProgressInv'
    BY <1>1, <2>4, ProgressOther DEF BInv, ProgressInv
  <2>8. AfterInv'
    BY <1>1, <1>2 DEF BInv, AfterInv, At
  <2>9. WholeInv' /\ MarkedInv'
    BY <1>1, <2>1, <2>2, <2>3 DEF BInv, WholeInv, MarkedInv
  <2>. QED  BY <1>1, <2>5, <2>6, <2>7, <2>8, <2>9 DEF BInv
<1>. QED  BY <1>1, <1>3, <1>4

LEMMA WholeStep ==
  ASSUME ~Operating, Bootstrap, BInv, [Next]_vars
  PROVE  BInv'
<1>1. ASSUME NEW j \in DOMAIN jobs, Pause(j) \/ Resume(j) \/ Cancel(j)
      PROVE  FALSE
  BY <1>1 DEF Pause, Resume, Cancel, Transition
<1>2. CASE UNCHANGED vars
  <2>1. TypeInv' /\ ListInv' /\ OnceInv' /\ OwedInv'
    BY <1>2 DEF vars, BInv, TypeInv, ListInv, OnceInv, OwedInv, Works, At
  <2>2. ProgressInv'
    BY <1>2, ProgressOther DEF vars, BInv, ProgressInv, Works, At
  <2>3. AfterInv' /\ WholeInv' /\ MarkedInv'
    BY <1>2 DEF vars, BInv, AfterInv, WholeInv, MarkedInv, At
  <2>. QED  BY <2>1, <2>2, <2>3 DEF BInv
<1>. QED  BY <1>1, <1>2, ListsStep, EnqueueStep, ClaimStep, ListPageStep, ItemStep, SaveStep, OtherStep, AfterStep
          DEF Next, Run

LEMMA WholeInit == Init => BInv
<1>. SUFFICES ASSUME Init PROVE BInv
  OBVIOUS
<1>1. TypeInv
  BY InitType
<1>2. \A t \in Runners : ~Works(t) /\ ~At(t, {"after"})
  BY IdleOK DEF Init, Works, At
<1>3. DOMAIN jobs = {} /\ \A r \in Repos : complete[r] = 0 /\ list[r] = <<1>>
  BY DEF Init
<1>4. ListInv
  BY <1>3 DEF ListInv
<1>. QED  BY <1>1, <1>2, <1>3, <1>4
          DEF BInv, OnceInv, OwedInv, ProgressInv, AfterInv, WholeInv, MarkedInv

(* As long as no operator pauses and resumes it, a bootstrap that marks its *)
(* repository complete has written a snapshot of every pull request the     *)
(* repository had when it was claimed, whatever was created or changed      *)
(* while it ran, and whoever died (runBackfillJob,                          *)
(* completeSnapshotBootstrap).  With operators this is refuted.             *)
THEOREM BootstrapIsWhole ==
  ASSUME ~Operating, Bootstrap
  PROVE  Spec => []CompleteIsWhole
<1>1. Init => BInv
  BY WholeInit
<1>2. BInv /\ [Next]_vars => BInv'
  BY WholeStep
<1>3. BInv => CompleteIsWhole
  BY DEF BInv, TypeInv, MarkedInv, CompleteIsWhole
<1>. QED  BY <1>1, <1>2, <1>3, PTL DEF Spec

----------------------------------------------------------------------------
(* ScopeCache: the inductive invariant.                                     *)

ScopeRequests ==
  [pc : {"idle", "row", "refill", "user", "joined", "fetch", "answer", "write", "set"}, data : Nat, at : Nat, version : Nat, began : Nat]
ScopeRows == [data : Nat, at : Nat, version : Nat]
ScopeEntries == [data : Nat, at : Nat, until : Nat]
ScopeEvents == [change : Nat, named : BOOLEAN]
ScopeWorkers == [pc : {"idle", "forget"}, event : ScopeEvents \cup {Absent}, tries : Nat]

ChangesOK == Latest \in Nat /\ changed \in [1 .. Latest -> Nat] /\ \A i \in 1 .. Latest : changed[i] <= clock

(* What has the time `at' shows every change that was made a request before. *)
Recent(data, at) == \A i \in 1 .. Latest : changed[i] + Lag < at => i <= data

RowOK(o) == o # Absent => o \in ScopeRows /\ applied <= o.data /\ o.at <= clock /\ Recent(o.data, o.at)
EntryOK(o) == o # Absent => o \in ScopeEntries /\ o.at <= clock /\ Recent(o.data, o.at)
ServedOK(o) ==
  /\ o \in [data : Nat, at : Nat] /\ o.at <= clock
  /\ \A i \in 1 .. Latest : changed[i] + Ttl + 2 * Lag <= o.at => i <= o.data

(* A request: it is not older than Lag; what it has from GitHub shows what  *)
(* was changed before it began, and also every invalidation that was        *)
(* applied unless the version has been raised since it read it.             *)
RequestOK(q) ==
  /\ q.pc # "idle" => q.began <= clock /\ clock <= q.began + Lag
  /\ q.pc \in {"fetch", "answer", "write"} => q.version <= version
  /\ q.pc \in {"answer", "write"} /\ q.version = version => applied <= q.data
  /\ q.pc \in {"answer", "write", "set"} => \A i \in 1 .. Latest : changed[i] < q.began => i <= q.data
  /\ q.pc \in {"write", "set"} => q.at <= clock
  /\ q.pc = "refill" => Recent(q.data, q.at) /\ q.at <= clock /\ q.began < q.at + Ttl

EventOK(e) == e \in ScopeEvents /\ e.change <= Latest
EventsOK ==
  /\ \A e \in events : EventOK(e)
  /\ worker \in ScopeWorkers /\ (worker.event # Absent => EventOK(worker.event))

ScopeInv ==
  /\ clock \in Nat /\ version \in Nat /\ applied \in Nat /\ applied <= Latest
  /\ ChangesOK /\ EventsOK
  /\ req \in [Requests -> ScopeRequests] /\ \A t \in Requests : RequestOK(req[t])
  /\ RowOK(row) /\ EntryOK(redis) /\ ServedOK(served)

LEMMA ScopeConst == Ttl \in Nat /\ Ttl > 0 /\ Lag \in Nat
BY ScopeAssumption

(* What a fresh scope cannot miss when it is served within a request.        *)
LEMMA WithinLifetime ==
  ASSUME NEW c \in Nat, NEW a \in Nat, NEW b \in Nat, NEW k \in Nat, NEW life \in Nat, NEW lag \in Nat,
         c + life + 2 * lag <= k, k <= b + lag, b < a + life
  PROVE  c + lag < a
OBVIOUS

LEMMA NoRequestOK == NoRequest \in ScopeRequests /\ NoRequest.pc = "idle"
BY DEF NoRequest, ScopeRequests

----------------------------------------------------------------------------
(* Time and changes.                                                        *)

LEMMA TickScope ==
  ASSUME ScopeInv, Tick
  PROVE  ScopeInv'
<1>1. /\ clock' = clock + 1 /\ clock \in Nat /\ UNCHANGED <<changed, events, version, row, redis, req, worker, applied, served>>
      /\ \A t \in Requests : req[t].pc # "idle" => clock - req[t].began < Lag
  BY DEF Tick, ScopeInv
<1>2. Latest' = Latest
  BY <1>1 DEF Latest
<1>3. ChangesOK' /\ EventsOK'
  BY <1>1, <1>2 DEF ScopeInv, ChangesOK, EventsOK, EventOK
<1>4. RowOK(row)' /\ EntryOK(redis)'
  BY <1>1, <1>2 DEF ScopeInv, RowOK, EntryOK, Recent, ScopeRows, ScopeEntries
<1>5. ServedOK(served)'
  BY <1>1, <1>2 DEF ScopeInv, ServedOK
<1>6. ASSUME NEW t \in Requests PROVE RequestOK(req[t])'
  <2>1. PICK q \in ScopeRequests : q = req[t] /\ q = req'[t] /\ RequestOK(q)
    BY <1>1 DEF ScopeInv
  <2>2. q.at \in Nat /\ q.began \in Nat
    BY DEF ScopeRequests
  <2>3. q.pc # "idle" => q.began <= clock' /\ clock' <= q.began + Lag
    BY <1>1, <2>1, <2>2, ScopeConst DEF RequestOK
  <2>4. q.at <= clock => q.at <= clock'
    BY <1>1, <2>2
  <2>5. RequestOK(q)'
    BY <1>1, <1>2, <2>1, <2>3, <2>4 DEF RequestOK, Recent
  <2>. QED  BY <2>1, <2>5
<1>. QED  BY <1>1, <1>2, <1>3, <1>4, <1>5, <1>6 DEF ScopeInv

LEMMA ChangeScope ==
  ASSUME ScopeInv, NEW named \in BOOLEAN, Change(named)
  PROVE  ScopeInv'
<1>1. /\ changed' = [i \in 1 .. Latest + 1 |-> IF i <= Latest THEN changed[i] ELSE clock]
      /\ events' = events \cup {[change |-> Latest + 1, named |-> named]}
      /\ UNCHANGED <<clock, version, row, redis, req, worker, applied, served>>
  BY DEF Change
<1>2. clock \in Nat /\ Latest \in Nat /\ changed \in [1 .. Latest -> Nat] /\ \A i \in 1 .. Latest : changed[i] <= clock
  BY DEF ScopeInv, ChangesOK
<1>3. Latest' = Latest + 1
  <2>1. DOMAIN changed' = 1 .. Latest + 1
    BY <1>1
  <2>2. Cardinality(1 .. Latest + 1) = Latest + 1
    BY <1>2, FS_Interval
  <2>. QED  BY <2>1, <2>2 DEF Latest
<1>4. ASSUME NEW i \in 1 .. Latest' PROVE changed'[i] \in Nat /\ changed'[i] <= clock /\ (IF i \in 1 .. Latest THEN changed'[i] = changed[i] ELSE changed'[i] = clock)
  BY <1>1, <1>2, <1>3
<1>5. ChangesOK'
  BY <1>1, <1>2, <1>3, <1>4 DEF ChangesOK
<1>6. EventsOK'
  <2>1. \A e : EventOK(e) => EventOK(e)'
    BY <1>2, <1>3 DEF EventOK, ScopeEvents
  <2>2. PICK x : x = [change |-> Latest + 1, named |-> named]
    OBVIOUS
  <2>3. EventOK(x)'
    BY <1>2, <1>3, <2>2 DEF EventOK, ScopeEvents
  <2>4. events' = events \cup {x} /\ worker' = worker
    BY <1>1, <2>2
  <2>5. \A e \in events' : EventOK(e)'
    BY <2>1, <2>3, <2>4 DEF ScopeInv, EventsOK
  <2>6. worker.event # Absent => EventOK(worker.event)'
    BY <2>1, <2>4 DEF ScopeInv, EventsOK
  <2>. QED  BY <2>4, <2>5, <2>6 DEF ScopeInv, EventsOK
<1>7. ASSUME NEW data \in Nat, NEW at \in Nat, at <= clock, Recent(data, at) PROVE Recent(data, at)'
  BY <1>2, <1>4, <1>7, ScopeConst DEF Recent
<1>8. RowOK(row)' /\ EntryOK(redis)'
  <2>1. row # Absent => row \in ScopeRows /\ applied <= row.data /\ row.at <= clock /\ Recent(row.data, row.at) /\ row.data \in Nat /\ row.at \in Nat
    BY DEF ScopeInv, RowOK, ScopeRows
  <2>2. redis # Absent => redis \in ScopeEntries /\ redis.at <= clock /\ Recent(redis.data, redis.at) /\ redis.data \in Nat /\ redis.at \in Nat
    BY DEF ScopeInv, EntryOK, ScopeEntries
  <2>3. RowOK(row)'
    BY <1>1, <1>7, <2>1 DEF RowOK
  <2>4. EntryOK(redis)'
    BY <1>1, <1>7, <2>2 DEF EntryOK
  <2>. QED  BY <2>3, <2>4
<1>9. ServedOK(served)'
  <2>1. served.at \in Nat /\ served.data \in Nat /\ served.at <= clock
    BY DEF ScopeInv, ServedOK
  <2>2. ASSUME NEW i \in 1 .. Latest', changed'[i] + Ttl + 2 * Lag <= served.at PROVE i <= served.data
    <3>1. i \in 1 .. Latest
      BY <1>2, <1>4, <2>1, <2>2, ScopeConst
    <3>. QED  BY <1>4, <2>2, <3>1 DEF ScopeInv, ServedOK
  <2>. QED  BY <1>1, <2>2 DEF ScopeInv, ServedOK
<1>10. ASSUME NEW t \in Requests PROVE RequestOK(req[t])'
  <2>1. PICK q \in ScopeRequests : q = req[t] /\ q = req'[t] /\ RequestOK(q)
    BY <1>1 DEF ScopeInv
  <2>2. q.at \in Nat /\ q.began \in Nat /\ q.data \in Nat
    BY DEF ScopeRequests
  <2>3. q.pc \in {"answer", "write", "set"} => \A i \in 1 .. Latest' : changed'[i] < q.began => i <= q.data
    <3>1. ASSUME q.pc \in {"answer", "write", "set"}, NEW i \in 1 .. Latest', changed'[i] < q.began PROVE i <= q.data
      <4>1. q.began <= clock
        BY <2>1, <3>1 DEF RequestOK
      <4>2. i \in 1 .. Latest
        BY <1>2, <1>4, <2>2, <3>1, <4>1
      <4>. QED  BY <1>4, <2>1, <3>1, <4>2 DEF RequestOK
    <3>. QED  BY <3>1
  <2>4. q.pc = "refill" => Recent(q.data, q.at)'
    BY <1>7, <2>1, <2>2 DEF RequestOK
  <2>5. RequestOK(q)'
    BY <1>1, <2>1, <2>3, <2>4 DEF RequestOK
  <2>. QED  BY <2>1, <2>5
<1>11. applied' <= Latest'
  BY <1>1, <1>2, <1>3 DEF ScopeInv
<1>. QED  BY <1>1, <1>5, <1>6, <1>8, <1>9, <1>10, <1>11 DEF ScopeInv

----------------------------------------------------------------------------
(* The worker.                                                              *)

LEMMA InvalidateScope ==
  ASSUME ScopeInv, Invalidate
  PROVE  ScopeInv'
<1>1. UNCHANGED <<clock, changed, redis, req, served>> /\ worker \in ScopeWorkers /\ version \in Nat /\ applied \in Nat /\ Latest \in Nat
  BY DEF Invalidate, ScopeInv, EventsOK, ChangesOK
<1>2. Latest' = Latest
  BY <1>1 DEF Latest
<1>3. ChangesOK' /\ EntryOK(redis)' /\ ServedOK(served)'
  BY <1>1, <1>2 DEF ScopeInv, ChangesOK, EntryOK, Recent, ServedOK
<1>4. \A e : EventOK(e) => EventOK(e)'
  BY <1>2 DEF EventOK
<1>5. PICK e : /\ EventOK(e)
               /\ \/ /\ version' = version + 1 /\ row' = Absent
                     /\ applied' = IF e.change > applied THEN e.change ELSE applied
                     /\ worker' = [worker EXCEPT !.pc = "forget", !.event = e]
                     /\ UNCHANGED events
                  \/ /\ events' = events \ {e} /\ worker' = Resting
                     /\ UNCHANGED <<version, row, applied>>
  BY DEF Invalidate, ScopeInv, EventsOK
<1>6. e \in ScopeEvents /\ e.change \in Nat /\ e.change <= Latest
  BY <1>5 DEF EventOK, ScopeEvents
<1>7. CASE version' = version + 1
  <2>1. /\ row' = Absent /\ applied' = (IF e.change > applied THEN e.change ELSE applied)
        /\ worker' = [worker EXCEPT !.pc = "forget", !.event = e] /\ events' = events
    BY <1>1, <1>5, <1>7
  <2>2. worker' \in ScopeWorkers /\ worker'.event = e
    BY <1>1, <1>6, <2>1 DEF ScopeWorkers
  <2>3. EventsOK'
    BY <1>4, <1>5, <2>1, <2>2 DEF ScopeInv, EventsOK
  <2>4. applied' \in Nat /\ applied' <= Latest'
    BY <1>1, <1>2, <1>6, <2>1 DEF ScopeInv
  <2>5. ASSUME NEW t \in Requests PROVE RequestOK(req[t])'
    <3>1. PICK q \in ScopeRequests : q = req[t] /\ q = req'[t] /\ RequestOK(q) /\ q.version \in Nat
      BY <1>1 DEF ScopeInv, ScopeRequests
    <3>2. q.pc \in {"fetch", "answer", "write"} => q.version <= version' /\ q.version # version'
      BY <1>1, <1>7, <3>1 DEF RequestOK
    <3>3. RequestOK(q)'
      BY <1>1, <1>2, <3>1, <3>2 DEF RequestOK, Recent
    <3>. QED  BY <3>1, <3>3
  <2>6. RowOK(row)'
    BY <2>1 DEF RowOK
  <2>. QED  BY <1>1, <1>3, <1>7, <2>3, <2>4, <2>5, <2>6 DEF ScopeInv
<1>8. CASE version' # version + 1
  <2>1. events' = events \ {e} /\ worker' = Resting /\ UNCHANGED <<version, row, applied>>
    BY <1>5, <1>8
  <2>2. Resting \in ScopeWorkers /\ Resting.event = Absent
    BY DEF Resting, ScopeWorkers
  <2>3. EventsOK'
    BY <1>4, <2>1, <2>2 DEF ScopeInv, EventsOK
  <2>4. \A t \in Requests : RequestOK(req[t])'
    BY <1>1, <1>2, <2>1 DEF ScopeInv, RequestOK, Recent
  <2>5. RowOK(row)'
    BY <1>1, <1>2, <2>1 DEF ScopeInv, RowOK, Recent
  <2>. QED  BY <1>1, <1>2, <1>3, <2>1, <2>3, <2>4, <2>5 DEF ScopeInv
<1>. QED  BY <1>7, <1>8

LEMMA ForgetScope ==
  ASSUME ScopeInv, Forget
  PROVE  ScopeInv'
<1>1. UNCHANGED <<clock, changed, version, row, req, applied, served>> /\ worker \in ScopeWorkers
  BY DEF Forget, ScopeInv, EventsOK
<1>2. Latest' = Latest
  BY <1>1 DEF Latest
<1>3. ChangesOK' /\ RowOK(row)' /\ ServedOK(served)' /\ \A t \in Requests : RequestOK(req[t])'
  BY <1>1, <1>2 DEF ScopeInv, ChangesOK, RowOK, Recent, ServedOK, RequestOK
<1>4. redis' = Absent \/ redis' = redis
  BY DEF Forget
<1>5. EntryOK(redis)'
  BY <1>1, <1>2, <1>4 DEF ScopeInv, EntryOK, Recent
<1>6. events' \subseteq events /\ (worker' = Resting \/ worker' = [worker EXCEPT !.pc = "idle", !.tries = worker.tries + 1])
  BY DEF Forget
<1>7. worker' \in ScopeWorkers /\ worker'.event \in {Absent, worker.event}
  <2>1. Resting \in ScopeWorkers /\ Resting.event = Absent
    BY DEF Resting, ScopeWorkers
  <2>2. PICK k \in Nat : k = worker.tries + 1
    BY <1>1 DEF ScopeWorkers
  <2>3. CASE worker' = [worker EXCEPT !.pc = "idle", !.tries = k]
    BY <1>1, <2>3 DEF ScopeWorkers
  <2>. QED  BY <1>6, <2>1, <2>2, <2>3
<1>8. EventsOK'
  BY <1>2, <1>6, <1>7 DEF ScopeInv, EventsOK, EventOK
<1>. QED  BY <1>1, <1>2, <1>3, <1>5, <1>8 DEF ScopeInv

----------------------------------------------------------------------------
(* Requests.                                                                *)

LEMMA RequestScope ==
  ASSUME ScopeInv, UNCHANGED <<clock, changed, events, version, worker, applied>>,
         req' \in [Requests -> ScopeRequests], \A u \in Requests : req'[u] = req[u] \/ RequestOK(req'[u]),
         row' = row \/ RowOK(row'), redis' = redis \/ EntryOK(redis'), served' = served \/ ServedOK(served')
  PROVE  ScopeInv'
<1>1. Latest' = Latest
  BY DEF Latest
<1>2. ChangesOK' /\ EventsOK'
  BY <1>1 DEF ScopeInv, ChangesOK, EventsOK, EventOK
<1>3. RowOK(row)' /\ EntryOK(redis)' /\ ServedOK(served)'
  BY <1>1 DEF ScopeInv, RowOK, EntryOK, ServedOK, Recent
<1>4. ASSUME NEW u \in Requests PROVE RequestOK(req[u])'
  <2>1. PICK q : q = req'[u] /\ RequestOK(q)
    BY DEF ScopeInv
  <2>. QED  BY <1>1, <2>1 DEF RequestOK, Recent
<1>. QED  BY <1>1, <1>2, <1>3, <1>4 DEF ScopeInv

(* One request changes.                                                     *)
LEMMA OneRequest ==
  ASSUME ScopeInv, NEW t \in Requests, NEW r \in ScopeRequests, req' = [req EXCEPT ![t] = r], RequestOK(r)
  PROVE  req' \in [Requests -> ScopeRequests] /\ \A u \in Requests : req'[u] = req[u] \/ RequestOK(req'[u])
<1>1. req \in [Requests -> ScopeRequests]
  BY DEF ScopeInv
<1>2. req'[t] = r /\ \A u \in Requests : u # t => req'[u] = req[u]
  BY <1>1
<1>. QED  BY <1>1, <1>2

(* A request and those that joined it end.                                  *)
LEMMA AllRequests ==
  ASSUME ScopeInv, NEW t \in Requests,
         req' = [u \in Requests |-> IF u = t \/ (Home[u] = Home[t] /\ req[u].pc = "joined") THEN NoRequest ELSE req[u]]
  PROVE  req' \in [Requests -> ScopeRequests] /\ \A u \in Requests : req'[u] = req[u] \/ RequestOK(req'[u])
<1>1. RequestOK(NoRequest)
  BY NoRequestOK DEF RequestOK
<1>2. \A u \in Requests : req'[u] \in {req[u], NoRequest}
  OBVIOUS
<1>. QED  BY <1>1, <1>2, NoRequestOK DEF ScopeInv

LEMMA RequestTypes ==
  ASSUME ScopeInv, NEW t \in Requests, NEW q, q = req[t]
  PROVE  /\ q \in ScopeRequests /\ RequestOK(q) /\ q.data \in Nat /\ q.at \in Nat /\ q.version \in Nat /\ q.began \in Nat
         /\ clock \in Nat /\ Latest \in Nat /\ changed \in [1 .. Latest -> Nat]
BY DEF ScopeInv, ScopeRequests, ChangesOK

(* What a request that asked GitHub has in hand, whenever it hands it on.   *)
LEMMA FetchedOK ==
  ASSUME ScopeInv, NEW t \in Requests, NEW q, q = req[t], q.pc \in {"answer", "write", "set"}
  PROVE  /\ \A at \in Nat : at <= clock => Recent(q.data, at)
         /\ ServedOK([data |-> q.data, at |-> clock])
<1>1. /\ q.data \in Nat /\ q.began \in Nat /\ clock \in Nat /\ Latest \in Nat /\ changed \in [1 .. Latest -> Nat] /\ RequestOK(q)
  BY RequestTypes
<1>2. clock <= q.began + Lag /\ \A i \in 1 .. Latest : changed[i] < q.began => i <= q.data
  BY <1>1 DEF RequestOK
<1>3. ASSUME NEW at \in Nat, at <= clock PROVE Recent(q.data, at)
  <2>. SUFFICES ASSUME NEW i \in 1 .. Latest, changed[i] + Lag < at PROVE i <= q.data
    BY DEF Recent
  <2>1. changed[i] \in Nat
    BY <1>1
  <2>2. changed[i] < q.began
    BY <1>1, <1>2, <1>3, <2>1, ScopeConst
  <2>. QED  BY <1>2, <2>2
<1>4. ASSUME NEW i \in 1 .. Latest, changed[i] + Ttl + 2 * Lag <= clock PROVE i <= q.data
  <2>1. changed[i] \in Nat
    BY <1>1
  <2>2. changed[i] < q.began
    BY <1>1, <1>2, <1>4, <2>1, ScopeConst
  <2>. QED  BY <1>2, <2>2
<1>5. PICK o : o = [data |-> q.data, at |-> clock]
  OBVIOUS
<1>6. o \in [data : Nat, at : Nat] /\ o.data = q.data /\ o.at = clock
  BY <1>1, <1>5
<1>7. ServedOK(o)
  BY <1>1, <1>4, <1>6 DEF ServedOK
<1>. QED  BY <1>3, <1>5, <1>7

(* writeRedis: the entry has the time of the scope.                         *)
LEMMA WriteRedisOK ==
  ASSUME ScopeInv, NEW t \in Requests, WriteRedis(t), NEW q, q = req[t], q.at <= clock, Recent(q.data, q.at)
  PROVE  redis' = redis \/ EntryOK(redis')
<1>1. q.data \in Nat /\ q.at \in Nat
  BY RequestTypes
<1>2. PICK o : o = [data |-> q.data, at |-> q.at, until |-> q.at + Ttl]
  OBVIOUS
<1>3. redis' = redis \/ redis' = o
  BY <1>2 DEF WriteRedis, Entry
<1>4. o \in ScopeEntries /\ o.data = q.data /\ o.at = q.at
  BY <1>1, <1>2, ScopeConst DEF ScopeEntries
<1>5. EntryOK(o)
  BY <1>4 DEF EntryOK
<1>. QED  BY <1>3, <1>5

LEMMA BeginScope ==
  ASSUME ScopeInv, NEW t \in Requests, Begin(t)
  PROVE  ScopeInv'
<1>1. UNCHANGED <<clock, changed, events, version, row, redis, worker, applied>>
  BY DEF Begin
<1>2. clock \in Nat /\ Latest \in Nat /\ changed \in [1 .. Latest -> Nat]
  BY RequestTypes
<1>3. CASE redis # Absent /\ Fresh(redis.at) /\ Answer(t, redis.data)
  <2>1. redis.data \in Nat /\ redis.at \in Nat /\ Recent(redis.data, redis.at)
    BY <1>3 DEF ScopeInv, EntryOK, ScopeEntries
  <2>2. clock < redis.at + Ttl
    BY <1>2, <1>3, <2>1, ScopeConst DEF Fresh
  <2>3. PICK o : o = [data |-> redis.data, at |-> clock] /\ served' = o /\ req' = [req EXCEPT ![t] = NoRequest]
    BY <1>3 DEF Answer
  <2>4. o \in [data : Nat, at : Nat] /\ o.data = redis.data /\ o.at = clock
    BY <1>2, <2>1, <2>3
  <2>5. ASSUME NEW i \in 1 .. Latest, changed[i] + Ttl + 2 * Lag <= clock PROVE i <= o.data
    <3>1. changed[i] \in Nat
      BY <1>2
    <3>2. changed[i] + Lag < redis.at
      BY <1>2, <2>1, <2>2, <2>5, <3>1, ScopeConst
    <3>. QED  BY <2>1, <2>4, <3>2 DEF Recent
  <2>6. ServedOK(o)
    BY <1>2, <2>4, <2>5 DEF ServedOK
  <2>7. RequestOK(NoRequest)
    BY NoRequestOK DEF RequestOK
  <2>8. req' \in [Requests -> ScopeRequests] /\ \A u \in Requests : req'[u] = req[u] \/ RequestOK(req'[u])
    BY <2>3, <2>7, NoRequestOK, OneRequest
  <2>. QED  BY <1>1, <2>3, <2>6, <2>8, RequestScope
<1>4. CASE req' = [req EXCEPT ![t] = [NoRequest EXCEPT !.pc = "row", !.began = clock]] /\ served' = served
  <2>1. PICK r : r = [NoRequest EXCEPT !.pc = "row", !.began = clock]
    OBVIOUS
  <2>2. r \in ScopeRequests /\ r.pc = "row" /\ r.began = clock
    BY <1>2, <2>1 DEF NoRequest, ScopeRequests
  <2>3. RequestOK(r)
    BY <1>2, <2>2, ScopeConst DEF RequestOK
  <2>4. req' \in [Requests -> ScopeRequests] /\ \A u \in Requests : req'[u] = req[u] \/ RequestOK(req'[u])
    BY <1>4, <2>1, <2>2, <2>3, OneRequest
  <2>. QED  BY <1>1, <1>4, <2>4, RequestScope
<1>. QED  BY <1>3, <1>4 DEF Begin

LEMMA ReadRowScope ==
  ASSUME ScopeInv, NEW t \in Requests, ReadRow(t)
  PROVE  ScopeInv'
<1>1. UNCHANGED <<clock, changed, events, version, row, redis, worker, applied, served>>
  BY DEF ReadRow
<1>2. PICK q \in ScopeRequests : /\ q = req[t] /\ q.pc = "row" /\ RequestOK(q) /\ clock \in Nat /\ q.began \in Nat
                                 /\ req \in [Requests -> ScopeRequests]
  BY RequestTypes DEF ReadRow, ScopeInv
<1>3. q.began <= clock /\ clock <= q.began + Lag
  BY <1>2 DEF RequestOK
<1>4. PICK r \in ScopeRequests : req' = [req EXCEPT ![t] = r] /\ RequestOK(r)
  <2>1. CASE row # Absent /\ Fresh(row.at)
    <3>1. row.data \in Nat /\ row.at \in Nat /\ row.version \in Nat /\ row.at <= clock /\ Recent(row.data, row.at)
      BY <2>1 DEF ScopeInv, RowOK, ScopeRows
    <3>2. PICK d \in Nat, a \in Nat, v \in Nat : d = row.data /\ a = row.at /\ v = row.version
      BY <3>1
    <3>3. PICK r : r = [q EXCEPT !.pc = "refill", !.data = d, !.at = a, !.version = v]
      OBVIOUS
    <3>4. r \in ScopeRequests /\ r.pc = "refill" /\ r.data = d /\ r.at = a /\ r.began = q.began
      BY <3>3 DEF ScopeRequests
    <3>5. q.began < a + Ttl
      BY <1>2, <1>3, <2>1, <3>2, ScopeConst DEF Fresh
    <3>6. RequestOK(r)
      BY <1>3, <3>1, <3>2, <3>4, <3>5 DEF RequestOK
    <3>7. req' = [req EXCEPT ![t].pc = "refill", ![t].data = d, ![t].at = a, ![t].version = v]
      BY <2>1, <3>2 DEF ReadRow
    <3>8. req' = [req EXCEPT ![t] = r]
      BY <1>2, <3>3, <3>7
    <3>. QED  BY <3>4, <3>6, <3>8
  <2>2. CASE ~(row # Absent /\ Fresh(row.at))
    <3>1. PICK pc \in {"user", "joined"} : req' = [req EXCEPT ![t] = [req[t] EXCEPT !.pc = pc]]
      BY <2>2 DEF ReadRow, Goes
    <3>2. PICK r : r = [q EXCEPT !.pc = pc]
      OBVIOUS
    <3>3. r \in ScopeRequests /\ r.pc = pc /\ r.began = q.began
      BY <3>2 DEF ScopeRequests
    <3>4. RequestOK(r)
      BY <1>3, <3>3 DEF RequestOK
    <3>. QED  BY <1>2, <3>1, <3>2, <3>3, <3>4
  <2>. QED  BY <2>1, <2>2
<1>5. req' \in [Requests -> ScopeRequests] /\ \A u \in Requests : req'[u] = req[u] \/ RequestOK(req'[u])
  BY <1>4, OneRequest
<1>. QED  BY <1>1, <1>5, RequestScope

LEMMA RefillScope ==
  ASSUME ScopeInv, NEW t \in Requests, Refill(t)
  PROVE  ScopeInv'
<1>1. UNCHANGED <<clock, changed, events, version, row, worker, applied>> /\ WriteRedis(t)
  BY DEF Refill
<1>2. PICK q : /\ q = req[t] /\ q.pc = "refill" /\ RequestOK(q) /\ q.data \in Nat /\ q.at \in Nat /\ q.began \in Nat
               /\ clock \in Nat /\ Latest \in Nat /\ changed \in [1 .. Latest -> Nat]
  BY RequestTypes DEF Refill
<1>3. clock <= q.began + Lag /\ Recent(q.data, q.at) /\ q.at <= clock /\ q.began < q.at + Ttl
  BY <1>2 DEF RequestOK
<1>4. redis' = redis \/ EntryOK(redis')
  BY <1>1, <1>2, <1>3, WriteRedisOK
<1>5. PICK o : o = [data |-> q.data, at |-> clock] /\ served' = o /\ req' = [req EXCEPT ![t] = NoRequest]
  BY <1>2 DEF Refill, Answer
<1>6. o \in [data : Nat, at : Nat] /\ o.data = q.data /\ o.at = clock
  BY <1>2, <1>5
<1>7. ASSUME NEW i \in 1 .. Latest, changed[i] + Ttl + 2 * Lag <= clock PROVE i <= o.data
  <2>1. changed[i] \in Nat
    BY <1>2
  <2>2. changed[i] + Lag < q.at
    BY <1>2, <1>3, <1>7, <2>1, ScopeConst, WithinLifetime
  <2>. QED  BY <1>3, <1>6, <2>2 DEF Recent
<1>8. ServedOK(o)
  BY <1>2, <1>6, <1>7 DEF ServedOK
<1>9. RequestOK(NoRequest)
  BY NoRequestOK DEF RequestOK
<1>10. req' \in [Requests -> ScopeRequests] /\ \A u \in Requests : req'[u] = req[u] \/ RequestOK(req'[u])
  BY <1>5, <1>9, NoRequestOK, OneRequest
<1>. QED  BY <1>1, <1>4, <1>5, <1>8, <1>10, RequestScope

LEMMA AskScope ==
  ASSUME ScopeInv, NEW t \in Requests, ReadUser(t) \/ Fetch(t)
  PROVE  ScopeInv'
<1>1. UNCHANGED <<clock, changed, events, version, row, redis, worker, applied, served>>
  BY DEF ReadUser, Fetch
<1>2. PICK q \in ScopeRequests : /\ q = req[t] /\ q.pc \in {"user", "fetch"} /\ RequestOK(q) /\ q.version \in Nat
                                 /\ clock \in Nat /\ Latest \in Nat /\ version \in Nat /\ req \in [Requests -> ScopeRequests]
  BY RequestTypes DEF ReadUser, Fetch, ScopeInv
<1>3. q.began <= clock /\ clock <= q.began + Lag
  BY <1>2 DEF RequestOK
<1>4. PICK r \in ScopeRequests : req' = [req EXCEPT ![t] = r] /\ RequestOK(r)
  <2>1. CASE ReadUser(t)
    <3>1. PICK r : r = [q EXCEPT !.pc = "fetch", !.version = version]
      OBVIOUS
    <3>2. r \in ScopeRequests /\ r.pc = "fetch" /\ r.version = version /\ r.began = q.began
      BY <1>2, <3>1 DEF ScopeRequests
    <3>3. req' = [req EXCEPT ![t] = r]
      BY <1>2, <2>1, <3>1 DEF ReadUser
    <3>4. RequestOK(r)
      BY <1>2, <1>3, <3>2 DEF RequestOK
    <3>. QED  BY <3>2, <3>3, <3>4
  <2>2. CASE Fetch(t)
    <3>1. PICK r, n : n = Latest /\ r = [q EXCEPT !.pc = "answer", !.data = n]
      OBVIOUS
    <3>2. r \in ScopeRequests /\ r.pc = "answer" /\ r.data = Latest /\ r.version = q.version /\ r.began = q.began
      BY <1>2, <3>1 DEF ScopeRequests
    <3>3. req' = [req EXCEPT ![t].pc = "answer", ![t].data = n]
      BY <2>2, <3>1 DEF Fetch
    <3>4. req' = [req EXCEPT ![t] = r]
      BY <1>2, <3>1, <3>3
    <3>5. q.version <= version /\ applied <= Latest /\ \A i \in 1 .. Latest : i <= Latest
      BY <1>2, <2>2 DEF RequestOK, Fetch, ScopeInv
    <3>6. RequestOK(r)
      BY <1>3, <3>2, <3>5 DEF RequestOK
    <3>. QED  BY <3>2, <3>4, <3>6
  <2>. QED  BY <2>1, <2>2
<1>5. req' \in [Requests -> ScopeRequests] /\ \A u \in Requests : req'[u] = req[u] \/ RequestOK(req'[u])
  BY <1>4, OneRequest
<1>. QED  BY <1>1, <1>5, RequestScope

LEMMA ArriveScope ==
  ASSUME ScopeInv, NEW t \in Requests, Arrive(t)
  PROVE  ScopeInv'
<1>1. UNCHANGED <<clock, changed, events, version, row, redis, worker, applied, served>>
  BY DEF Arrive
<1>2. CASE req' = [req EXCEPT ![t].pc = "write", ![t].at = clock]
  <2>1. PICK q \in ScopeRequests : /\ q = req[t] /\ q.pc = "answer" /\ RequestOK(q) /\ clock \in Nat
                                   /\ req \in [Requests -> ScopeRequests]
    BY RequestTypes DEF Arrive, ScopeInv
  <2>2. PICK r : r = [q EXCEPT !.pc = "write", !.at = clock]
    OBVIOUS
  <2>3. /\ r \in ScopeRequests /\ r.pc = "write" /\ r.at = clock
        /\ r.data = q.data /\ r.version = q.version /\ r.began = q.began
    BY <2>1, <2>2 DEF ScopeRequests
  <2>4. req' = [req EXCEPT ![t] = r]
    BY <1>2, <2>1, <2>2
  <2>5. RequestOK(r)
    BY <2>1, <2>3 DEF RequestOK
  <2>6. req' \in [Requests -> ScopeRequests] /\ \A u \in Requests : req'[u] = req[u] \/ RequestOK(req'[u])
    BY <2>3, <2>4, <2>5, OneRequest
  <2>. QED  BY <1>1, <2>6, RequestScope
<1>3. CASE req' = [u \in Requests |-> IF u = t \/ (Home[u] = Home[t] /\ req[u].pc = "joined") THEN NoRequest ELSE req[u]]
  BY <1>1, <1>3, AllRequests, RequestScope
<1>. QED  BY <1>2, <1>3 DEF Arrive

(* writePermissionCache.  The version is the one that was read before GitHub *)
(* was asked, so no invalidation has been applied since.                    *)
LEMMA WriteRowScope ==
  ASSUME ScopeInv, NEW t \in Requests, WriteRow(t)
  PROVE  ScopeInv'
<1>1. UNCHANGED <<clock, changed, events, version, redis, worker, applied>>
  BY DEF WriteRow
<1>2. PICK q \in ScopeRequests : /\ q = req[t] /\ q.pc = "write" /\ RequestOK(q) /\ clock \in Nat
                                 /\ q.data \in Nat /\ q.at \in Nat /\ q.version \in Nat
                                 /\ req \in [Requests -> ScopeRequests]
  BY RequestTypes DEF WriteRow, ScopeInv
<1>3. (\A at \in Nat : at <= clock => Recent(q.data, at)) /\ ServedOK([data |-> q.data, at |-> clock])
  BY <1>2, FetchedOK
<1>4. CASE Fenced(q)
  <2>1. applied <= q.data
    BY <1>2, <1>4 DEF RequestOK, Fenced
  <2>2. PICK o : o = [data |-> q.data, at |-> clock, version |-> q.version]
    OBVIOUS
  <2>3. o \in ScopeRows /\ o.data = q.data /\ o.at = clock
    BY <1>2, <2>2 DEF ScopeRows
  <2>4. row' = o /\ served' = served /\ req' = [req EXCEPT ![t].pc = "set"]
    BY <1>2, <1>4, <2>2 DEF WriteRow, Goes
  <2>5. clock <= clock /\ Recent(q.data, clock)
    BY <1>2, <1>3
  <2>6. RowOK(o)
    BY <2>1, <2>3, <2>5 DEF RowOK
  <2>7. PICK r : r = [q EXCEPT !.pc = "set"]
    OBVIOUS
  <2>8. r \in ScopeRequests /\ r.pc = "set" /\ r.at = q.at /\ r.data = q.data /\ r.began = q.began
    BY <2>7 DEF ScopeRequests
  <2>9. RequestOK(r)
    BY <1>2, <2>8 DEF RequestOK
  <2>10. req' = [req EXCEPT ![t] = r]
    BY <1>2, <2>4, <2>7
  <2>11. req' \in [Requests -> ScopeRequests] /\ \A u \in Requests : req'[u] = req[u] \/ RequestOK(req'[u])
    BY <2>8, <2>9, <2>10, OneRequest
  <2>. QED  BY <1>1, <2>4, <2>6, <2>11, RequestScope
<1>5. CASE ~Fenced(q)
  <2>1. row' = row /\ AnswerAll(t, q.data)
    BY <1>2, <1>5 DEF WriteRow
  <2>2. req' \in [Requests -> ScopeRequests] /\ \A u \in Requests : req'[u] = req[u] \/ RequestOK(req'[u])
    BY <2>1, AllRequests DEF AnswerAll
  <2>3. ServedOK(served')
    BY <1>3, <2>1 DEF AnswerAll
  <2>. QED  BY <1>1, <2>1, <2>2, <2>3, RequestScope
<1>. QED  BY <1>4, <1>5

LEMMA SetScope ==
  ASSUME ScopeInv, NEW t \in Requests, Set(t)
  PROVE  ScopeInv'
<1>1. UNCHANGED <<clock, changed, events, version, row, worker, applied>> /\ WriteRedis(t)
  BY DEF Set
<1>2. PICK q : q = req[t] /\ q.pc = "set" /\ RequestOK(q) /\ q.at \in Nat
  BY RequestTypes DEF Set
<1>3. (\A at \in Nat : at <= clock => Recent(q.data, at)) /\ ServedOK([data |-> q.data, at |-> clock])
  BY <1>2, FetchedOK
<1>4. q.at <= clock /\ Recent(q.data, q.at)
  BY <1>2, <1>3 DEF RequestOK
<1>5. redis' = redis \/ EntryOK(redis')
  BY <1>1, <1>2, <1>4, WriteRedisOK
<1>6. AnswerAll(t, q.data)
  BY <1>2 DEF Set
<1>7. req' \in [Requests -> ScopeRequests] /\ \A u \in Requests : req'[u] = req[u] \/ RequestOK(req'[u])
  BY <1>6, AllRequests DEF AnswerAll
<1>8. ServedOK(served')
  BY <1>3, <1>6 DEF AnswerAll
<1>. QED  BY <1>1, <1>5, <1>7, <1>8, RequestScope

----------------------------------------------------------------------------
LEMMA InitScope == ScopeInit => ScopeInv
<1>. SUFFICES ASSUME ScopeInit PROVE ScopeInv
  OBVIOUS
<1>1. clock = 0 /\ changed = <<0>> /\ events = {} /\ version = 0 /\ row = Absent /\ redis = Absent /\ applied = 1
  BY DEF ScopeInit
<1>2. DOMAIN changed = 1 .. 1 /\ changed[1] = 0
  BY <1>1
<1>3. Latest = 1
  <2>1. DOMAIN changed = {1}
    BY <1>2
  <2>2. Cardinality({1}) = 1
    BY FS_Singleton
  <2>. QED  BY <2>1, <2>2 DEF Latest
<1>4. ChangesOK
  <2>1. changed \in [1 .. 1 -> Nat] /\ \A i \in 1 .. 1 : changed[i] <= 0
    BY <1>1, <1>2
  <2>. QED  BY <1>1, <1>3, <2>1 DEF ChangesOK
<1>5. EventsOK
  <2>1. worker = [pc |-> "idle", event |-> Absent, tries |-> 0]
    BY DEF ScopeInit, Resting
  <2>2. worker \in ScopeWorkers /\ worker.event = Absent
    BY <2>1 DEF ScopeWorkers
  <2>. QED  BY <1>1, <2>2 DEF EventsOK
<1>6. req \in [Requests -> ScopeRequests] /\ \A t \in Requests : req[t] = NoRequest
  BY NoRequestOK DEF ScopeInit
<1>7. \A t \in Requests : RequestOK(req[t])
  BY <1>6, NoRequestOK DEF RequestOK
<1>8. ServedOK(served)
  <2>1. served = [data |-> 1, at |-> 0]
    BY DEF ScopeInit
  <2>2. served \in [data : Nat, at : Nat] /\ served.at = 0 /\ served.data = 1
    BY <2>1
  <2>. QED  BY <1>1, <1>3, <2>2 DEF ServedOK
<1>. QED  BY <1>1, <1>3, <1>4, <1>5, <1>6, <1>7, <1>8 DEF ScopeInv, RowOK, EntryOK

LEMMA StillScope ==
  ASSUME ScopeInv, UNCHANGED scopeVars
  PROVE  ScopeInv'
<1>1. UNCHANGED <<clock, changed, events, version, row, redis, req, worker, applied, served>>
  BY DEF scopeVars
<1>2. req' \in [Requests -> ScopeRequests]
  BY <1>1 DEF ScopeInv
<1>. QED  BY <1>1, <1>2, RequestScope

LEMMA NextScope == ScopeInv /\ [ScopeNext]_scopeVars => ScopeInv'
<1>. SUFFICES ASSUME ScopeInv, [ScopeNext]_scopeVars PROVE ScopeInv'
  OBVIOUS
<1>1. CASE Tick
  BY <1>1, TickScope
<1>2. CASE Invalidate
  BY <1>2, InvalidateScope
<1>3. CASE Forget
  BY <1>3, ForgetScope
<1>4. ASSUME NEW named \in BOOLEAN, Change(named) PROVE ScopeInv'
  BY <1>4, ChangeScope
<1>5. ASSUME NEW t \in Requests, Resolve(t) PROVE ScopeInv'
  BY <1>5, BeginScope, ReadRowScope, RefillScope, AskScope, ArriveScope, WriteRowScope, SetScope DEF Resolve
<1>6. CASE UNCHANGED scopeVars
  BY <1>6, StillScope
<1>. QED  BY <1>1, <1>2, <1>3, <1>4, <1>5, <1>6 DEF ScopeNext

(* However many processes refresh the scope of a user and whenever GitHub's *)
(* events are applied, a row of permission_cache is never older than an     *)
(* invalidation that was applied to its user: writePermissionCache and      *)
(* invalidateUsers race on the version alone, and the version decides.      *)
THEOREM RowsAreFenced == ScopeSpec => []RowIsFenced
<1>1. ScopeInv => RowIsFenced
  <2>. SUFFICES ASSUME ScopeInv, row # Absent PROVE row.data >= applied
    BY DEF RowIsFenced
  <2>1. applied \in Nat /\ row \in ScopeRows /\ applied <= row.data
    BY DEF ScopeInv, RowOK
  <2>2. row.data \in Nat
    BY <2>1 DEF ScopeRows
  <2>. QED  BY <2>1, <2>2
<1>. QED  BY <1>1, InitScope, NextScope, PTL DEF ScopeSpec

(* Whatever is lost of the events, of Redis or of the worker, a scope that  *)
(* is served shows every change made at GitHub more than a lifetime and two *)
(* requests before: isFresh bounds each layer by the time the scope itself  *)
(* has, and writeRedis puts it back with that time and never a later one.   *)
THEOREM ServedScopesAreRecent == ScopeSpec => []ServedIsRecent
<1>1. ScopeInv => ServedIsRecent
  <2>. SUFFICES ASSUME ScopeInv, NEW i \in 1 .. Latest, changed[i] + Ttl + 2 * Lag <= served.at
                PROVE  served.data >= i
    BY DEF ServedIsRecent
  <2>1. Latest \in Nat /\ served \in [data : Nat, at : Nat] /\ i <= served.data
    BY DEF ScopeInv, ServedOK, ChangesOK
  <2>. QED  BY <2>1
<1>. QED  BY <1>1, InitScope, NextScope, PTL DEF ScopeSpec
============================================================================
