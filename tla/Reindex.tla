------------------------------- MODULE Reindex -------------------------------
(****************************************************************************)
(* Rebuilding an index while it is written to.                              *)
(*                                                                          *)
(* A reindex job builds the next version of an index from the snapshots in  *)
(* PostgreSQL and moves the alias to it.  Live writers write through the    *)
(* alias and, while the job asks for it, to the new index as well.  Writers *)
(* share a fence that activation and cutover take exclusively.  Operators   *)
(* pause, resume and cancel jobs, processes die, and the index under        *)
(* construction may be deleted from outside.                                *)
(*                                                                          *)
(* The pod that runs reindex jobs is single and never overlaps with its     *)
(* successor (deploy/k8s/pipeline-worker-batch.yaml), so there is one       *)
(* runner.  The index is the one of pull requests, whose contents are told  *)
(* apart by document_version.                                               *)
(****************************************************************************)
EXTENDS Naturals, Sequences, FiniteSets

CONSTANTS
  Prs,         \* the pull requests: pr_number
  Writers,     \* projection workers
  MaxVersion, MaxJobs, MaxFaults   \* bounds

ASSUME ReindexAssumption ==
  Prs \subseteq Nat \ {0} /\ MaxVersion \in Nat /\ MaxJobs \in Nat /\ MaxFaults \in Nat

VARIABLES
  canon,   \* pull_request_snapshot: document_version, 0 without a row
  index,   \* index[v]: its UUID (0 when it does not exist) and its documents
  alias,   \* the version the alias points to
  uuids,   \* UUIDs handed out so far
  jobs,    \* job rows of type reindex
  writer, runner, faults

vars == <<canon, index, alias, uuids, jobs, writer, runner, faults>>

Versions == DOMAIN index
Empty == [d \in DOMAIN canon |-> 0]
NoIndex == [uuid |-> 0, docs |-> Empty]
Active == {"queued", "running", "paused"}
IdleWriter == [pc |-> "idle", d |-> 0, v |-> 0, shadow |-> 0]
IdleRunner == [pc |-> "idle", j |-> 0, after |-> 0, row |-> <<>>, ids |-> {}]

(* finishJobIfRunning *)
Finished(js, j, state) == IF js[j].state = "running" THEN [js EXCEPT ![j].state = state] ELSE js

(* findDualWriteShadows: the target of a running job between activation and *)
(* cutover; 0 for none.                                                     *)
Shadow ==
  LET on == {j \in DOMAIN jobs : jobs[j].state = "running" /\ jobs[j].dual /\ ~jobs[j].switched}
  IN  IF on = {} THEN 0 ELSE jobs[CHOOSE j \in on : TRUE].target

(* CONDITIONAL_UPSERT_SCRIPT: a document takes a higher version only.  A    *)
(* write to an index that is gone creates it anew.                          *)
Upserted(i, d, v, new) ==
  [uuid |-> IF i.uuid = 0 THEN new ELSE i.uuid,
   docs |-> [i.docs EXCEPT ![d] = IF v > @ THEN v ELSE @]]

Write(ix, v, d, ver) ==
  IF v = 0 THEN ix ELSE [ix EXCEPT ![v] = Upserted(@, d, ver, uuids + 1)]
Created(v) == IF v # 0 /\ index[v].uuid = 0 THEN uuids + 1 ELSE uuids

(* recordShadowFailures, on findActiveReindexRow: the oldest active job, if *)
(* it is running, counts the failure and is failed.                         *)
ShadowFailed(js) ==
  LET act == {j \in DOMAIN js : js[j].state \in Active}
  IN  [j \in DOMAIN js |->
         IF j \in act /\ (\A i \in act : j <= i) /\ js[j].state = "running"
         THEN [js[j] EXCEPT !.state = "failed", !.failures = 1] ELSE js[j]]

-----------------------------------------------------------------------------
(* Live writers: withReindexWrite around the projection of a pull request   *)

(* The snapshot is committed before the index is written. *)
Commit(w, d) ==
  /\ writer[w].pc = "idle" /\ canon[d] < MaxVersion
  /\ canon' = [canon EXCEPT ![d] = @ + 1]
  /\ writer' = [writer EXCEPT ![w] = [pc |-> "want", d |-> d, v |-> canon[d] + 1, shadow |-> 0]]
  /\ UNCHANGED <<index, alias, uuids, jobs, runner, faults>>

(* The shared fence, which an exclusive holder keeps out, and inside it the *)
(* targets of the write.                                                    *)
Enter(w) ==
  /\ writer[w].pc = "want" /\ runner.pc # "record"
  /\ writer' = [writer EXCEPT ![w].pc = "in", ![w].shadow = Shadow]
  /\ UNCHANGED <<canon, index, alias, uuids, jobs, runner, faults>>

Serve(w) ==
  /\ writer[w].pc = "in"
  /\ index' = Write(index, alias, writer[w].d, writer[w].v)
  /\ writer' = [writer EXCEPT ![w].pc = IF writer[w].shadow = 0 THEN "leave" ELSE "mirror"]
  /\ UNCHANGED <<canon, alias, uuids, jobs, runner, faults>>

(* The same write to the new index. *)
Mirror(w) ==
  /\ writer[w].pc = "mirror"
  /\ index' = Write(index, writer[w].shadow, writer[w].d, writer[w].v)
  /\ uuids' = Created(writer[w].shadow)
  /\ writer' = [writer EXCEPT ![w].pc = "leave"]
  /\ UNCHANGED <<canon, alias, jobs, runner, faults>>

(* ... which fails: that is noted, and recorded before the fence is left.   *)
MirrorFails(w) ==
  /\ writer[w].pc = "mirror" /\ faults < MaxFaults
  /\ writer' = [writer EXCEPT ![w].pc = "failed"]
  /\ faults' = faults + 1
  /\ UNCHANGED <<canon, index, alias, uuids, jobs, runner>>

Leave(w) ==
  /\ writer[w].pc \in {"leave", "failed"}
  /\ jobs' = IF writer[w].pc = "failed" THEN ShadowFailed(jobs) ELSE jobs
  /\ writer' = [writer EXCEPT ![w] = IdleWriter]
  /\ UNCHANGED <<canon, index, alias, uuids, runner, faults>>

(* The worker dies or the call throws: the fence is let go, nothing is      *)
(* recorded, and the delivery comes again (IngestDelivery).                 *)
WriterDies(w) ==
  /\ writer[w].pc \in {"in", "mirror", "failed", "leave"} /\ faults < MaxFaults
  /\ writer' = [writer EXCEPT ![w].pc = "want", ![w].shadow = 0]
  /\ faults' = faults + 1
  /\ UNCHANGED <<canon, index, alias, uuids, jobs, runner>>

(* No writer is inside the fence: withReindexExclusive may go on. *)
FenceFree == \A w \in Writers : writer[w].pc \in {"idle", "want"}

-----------------------------------------------------------------------------
(* Operators *)

(* enqueueReindex: one active reindex at most, onto the next unused version. *)
Enqueue ==
  /\ Len(jobs) < MaxJobs /\ \A j \in DOMAIN jobs : jobs[j].state \notin Active
  /\ \E last \in Versions :
       /\ index[last].uuid # 0 /\ \A v \in Versions : v > last => index[v].uuid = 0
       /\ last + 1 \in Versions
       /\ jobs' = jobs \o <<[state |-> "queued", dual |-> FALSE, source |-> alias, target |-> last + 1, uuid |-> 0,
                             failures |-> 0, scanned |-> FALSE, switched |-> FALSE, retired |-> FALSE]>>
  /\ UNCHANGED <<canon, index, alias, uuids, writer, runner, faults>>

(* transitionJob *)
Transition(j) ==
  /\ \E t \in {<<"queued", "paused">>, <<"running", "paused">>, <<"paused", "queued">>}
              \cup (Active \X {"cancelled"}) :
       jobs[j].state = t[1] /\ jobs' = [jobs EXCEPT ![j].state = t[2]]
  /\ UNCHANGED <<canon, index, alias, uuids, writer, runner, faults>>

(* Somebody deletes the index under construction. *)
TargetDeleted(j) ==
  /\ faults < MaxFaults /\ jobs[j].target # alias /\ index[jobs[j].target].uuid # 0
  /\ index' = [index EXCEPT ![jobs[j].target] = NoIndex]
  /\ faults' = faults + 1
  /\ UNCHANGED <<canon, alias, uuids, jobs, writer, runner>>

-----------------------------------------------------------------------------
(* The runner *)

(* claimNextJob with a limit of one running job *)
Claim(j) ==
  /\ runner.pc = "idle" /\ jobs[j].state = "queued"
  /\ \A i \in DOMAIN jobs : jobs[i].state # "running"
  /\ jobs' = [jobs EXCEPT ![j].state = "running"]
  /\ runner' = [IdleRunner EXCEPT !.pc = "prepare", !.j = j]
  /\ UNCHANGED <<canon, index, alias, uuids, writer, faults>>

Give(js, state) == jobs' = Finished(js, runner.j, state) /\ runner' = IdleRunner

(* The target is created if it is absent; another UUID than the one on      *)
(* record ends the job.                                                     *)
Prepare ==
  /\ runner.pc = "prepare"
  /\ LET j == jobs[runner.j]
         t == [index[j.target] EXCEPT !.uuid = IF @ = 0 THEN uuids + 1 ELSE @]
     IN  /\ index' = [index EXCEPT ![j.target] = t]
         /\ uuids' = Created(j.target)
         /\ IF j.uuid \notin {0, t.uuid} THEN Give(jobs, "failed")
            ELSE /\ jobs' = [jobs EXCEPT ![runner.j].uuid = t.uuid]
                 /\ runner' = [runner EXCEPT !.pc = "activate"]
  /\ UNCHANGED <<canon, alias, writer, faults>>

(* Dual writes begin when no writer is under way, and before the first read. *)
Activate ==
  /\ runner.pc = "activate" /\ FenceFree
  /\ jobs' = [jobs EXCEPT ![runner.j].dual = TRUE]
  /\ runner' = [runner EXCEPT !.pc = "read"]
  /\ UNCHANGED <<canon, index, alias, uuids, writer, faults>>

(* listSnapshotsAfter, pages of one: a row as it is now, or the end.        *)
ReadRow ==
  /\ runner.pc = "read"
  /\ LET rest == {d \in Prs : d > runner.after /\ canon[d] > 0}
     IN  IF rest = {}
         THEN /\ jobs' = [jobs EXCEPT ![runner.j].scanned = TRUE]
              /\ runner' = [runner EXCEPT !.pc = "verify"]
         ELSE /\ \E d \in rest : /\ \A x \in rest : d <= x
                                 /\ runner' = [runner EXCEPT !.pc = "write", !.row = <<d, canon[d]>>]
              /\ UNCHANGED jobs
  /\ UNCHANGED <<canon, index, alias, uuids, writer, faults>>

(* The row is written through the fence as any other write, to the served   *)
(* index and to the shadow of this moment; a failure of the shadow fails    *)
(* the job and the rebuild goes on.                                         *)
WriteRow ==
  /\ runner.pc = "write"
  /\ LET d == runner.row[1]
         v == runner.row[2]
         served == Write(index, alias, d, v)
     IN  \/ /\ index' = Write(served, Shadow, d, v)
            /\ uuids' = Created(Shadow)
            /\ UNCHANGED <<jobs, faults>>
         \/ /\ Shadow # 0 /\ faults < MaxFaults
            /\ index' = served /\ jobs' = ShadowFailed(jobs) /\ faults' = faults + 1
            /\ UNCHANGED uuids
  /\ runner' = [runner EXCEPT !.pc = "read", !.after = runner.row[1], !.row = <<>>, !.ids = @ \cup {runner.row[1]}]
  /\ UNCHANGED <<canon, alias, writer>>

Count(i) == Cardinality({d \in Prs : i.docs[d] > 0})

(* verifyBeforeCutover *)
Verify ==
  /\ runner.pc = "verify"
  /\ LET j == jobs[runner.j]
         t == index[j.target]
         ok == /\ j.state = "running" /\ j.failures = 0 /\ j.scanned
               /\ t.uuid # 0 /\ t.uuid = j.uuid /\ Count(t) >= Cardinality(runner.ids)
     IN  IF ok THEN runner' = [runner EXCEPT !.pc = "cutover"] /\ UNCHANGED jobs
         ELSE Give(jobs, "failed")
  /\ UNCHANGED <<canon, index, alias, uuids, writer, faults>>

(* Mutant of Cutover: what was verified is not looked at again. *)
CutoverUnchecked ==
  /\ runner.pc = "cutover" /\ FenceFree
  /\ LET j == jobs[runner.j]
     IN  IF alias = j.source
         THEN alias' = j.target /\ runner' = [runner EXCEPT !.pc = "record"] /\ UNCHANGED jobs
         ELSE Give(jobs, "failed") /\ UNCHANGED alias
  /\ UNCHANGED <<canon, index, uuids, writer, faults>>

(* Mutant of Cutover: it does not wait for the writers inside the fence. *)
CutoverUnfenced ==
  /\ runner.pc = "cutover"
  /\ LET j == jobs[runner.j]
         ok == /\ j.state = "running" /\ j.failures = 0
               /\ index[j.target].uuid = j.uuid /\ alias = j.source
     IN  IF ok THEN /\ alias' = j.target
                    /\ runner' = [runner EXCEPT !.pc = "record"] /\ UNCHANGED jobs
         ELSE Give(jobs, "failed") /\ UNCHANGED alias
  /\ UNCHANGED <<canon, index, uuids, writer, faults>>

(* The cutover, up to switchAlias: everything is checked once more, and the *)
(* alias is taken from the source, an error if it is not there.             *)
Cutover ==
  /\ runner.pc = "cutover" /\ FenceFree
  /\ LET j == jobs[runner.j]
         ok == /\ j.state = "running" /\ j.failures = 0
               /\ index[j.target].uuid = j.uuid /\ alias = j.source
     IN  IF ok THEN /\ alias' = j.target
                    /\ runner' = [runner EXCEPT !.pc = "record"] /\ UNCHANGED jobs
         ELSE Give(jobs, "failed") /\ UNCHANGED alias
  /\ UNCHANGED <<canon, index, uuids, writer, faults>>

(* Still inside the fence the switch is recorded; three failed attempts     *)
(* leave it unrecorded and fail the job.                                    *)
Record ==
  /\ runner.pc = "record"
  /\ \/ /\ jobs' = [jobs EXCEPT ![runner.j].switched = TRUE, ![runner.j].dual = FALSE]
        /\ runner' = [runner EXCEPT !.pc = "finish"]
        /\ UNCHANGED faults
     \/ /\ faults < MaxFaults /\ faults' = faults + 1
        /\ Give(jobs, "failed")
  /\ UNCHANGED <<canon, index, alias, uuids, writer>>

Finish ==
  /\ runner.pc = "finish"
  /\ Give(jobs, "completed")
  /\ UNCHANGED <<canon, index, alias, uuids, writer, faults>>

(* The pod dies: the fence is let go, the row stays as it is.  A call that  *)
(* throws ends the job instead.                                             *)
RunnerDies ==
  /\ runner.pc # "idle" /\ faults < MaxFaults
  /\ runner' = IdleRunner
  /\ jobs' \in {jobs, Finished(jobs, runner.j, "failed")}
  /\ faults' = faults + 1
  /\ UNCHANGED <<canon, index, alias, uuids, writer>>

-----------------------------------------------------------------------------
(* runRetentionSweep *)

(* reconcileSwitchedJobs: a job whose target is served has switched. *)
Reconcile(j) ==
  /\ jobs[j].state \in {"failed", "completed", "running"} /\ ~jobs[j].switched
  /\ alias = jobs[j].target
  /\ jobs' = [jobs EXCEPT ![j].switched = TRUE, ![j].dual = FALSE]
  /\ UNCHANGED <<canon, index, alias, uuids, writer, runner, faults>>

(* listRetiredIndices and deleteRetiredIndex, once the retention is over:   *)
(* the old index of a completed job, unless the alias points to it.         *)
Retire(j) ==
  /\ jobs[j].state = "completed" /\ jobs[j].switched /\ ~jobs[j].retired
  /\ alias # jobs[j].source
  /\ index' = [index EXCEPT ![jobs[j].source] = NoIndex]
  /\ jobs' = [jobs EXCEPT ![j].retired = TRUE]
  /\ UNCHANGED <<canon, alias, uuids, writer, runner, faults>>

-----------------------------------------------------------------------------
Init ==
  /\ canon = [d \in Prs |-> 0]
  /\ index = [v \in 1 .. MaxJobs + 1 |-> IF v = 1 THEN [NoIndex EXCEPT !.uuid = 1] ELSE NoIndex]
  /\ alias = 1 /\ uuids = 1
  /\ jobs = <<>>
  /\ writer = [w \in Writers |-> IdleWriter]
  /\ runner = IdleRunner
  /\ faults = 0

Live(w) == Enter(w) \/ Serve(w) \/ Mirror(w) \/ MirrorFails(w) \/ Leave(w) \/ WriterDies(w)
Run == Prepare \/ Activate \/ ReadRow \/ WriteRow \/ Verify \/ Cutover \/ Record \/ Finish
Next ==
  \/ \E w \in Writers : Live(w) \/ \E d \in Prs : Commit(w, d)
  \/ Enqueue
  \/ \E j \in DOMAIN jobs : Transition(j) \/ TargetDeleted(j) \/ Claim(j) \/ Reconcile(j) \/ Retire(j)
  \/ Run \/ RunnerDies

Spec == Init /\ [][Next]_vars

-----------------------------------------------------------------------------
(* Properties *)

(* The documents of an index that does not exist are gone, and a job names  *)
(* the UUID it built (ReindexProgress).                                     *)
TypeOK ==
  /\ \A d \in DOMAIN canon : canon[d] \in Nat
  /\ \A v \in Versions : /\ index[v].uuid \in 0 .. uuids
                         /\ index[v].uuid = 0 => index[v].docs = Empty
                         /\ \A d \in DOMAIN canon : index[v].docs[d] <= canon[d]
  /\ alias \in Versions
  /\ \A j \in DOMAIN jobs : /\ jobs[j].state \in Active \cup {"completed", "failed", "cancelled"}
                            /\ jobs[j].source < jobs[j].target
  /\ Cardinality({j \in DOMAIN jobs : jobs[j].state \in Active}) <= 1

(* Every committed snapshot that no writer still has in hand is in the      *)
(* served index at its newest version, across activations, cutovers, pauses *)
(* and deaths (reindex-fence.ts: a write that is done is in the index that  *)
(* is served).                                                              *)
ServedIsComplete ==
  \A d \in DOMAIN canon :
    index[alias].docs[d] = canon[d] \/ \E w \in DOMAIN writer : writer[w].pc # "idle" /\ writer[w].d = d

(* The alias always points to an index that exists and that a job prepared  *)
(* with its mapping: neither retention nor a deletion during the rebuild    *)
(* leaves it on none, or on one that a write created (CR-119).              *)
ServedIsPrepared ==
  /\ index[alias].uuid # 0
  /\ alias = 1 \/ \E j \in DOMAIN jobs : jobs[j].target = alias /\ jobs[j].uuid = index[alias].uuid
==============================================================================
