-------------------------- MODULE IndexViewsProofs --------------------------
(****************************************************************************)
(* Proofs about what the search index shows: the index is rebuilt under its *)
(* writers (Reindex, for any pull requests, writers, versions, jobs and     *)
(* faults), and merge sequence numbers are projected into it                *)
(* (SequenceProjection, for any branches, histories, processes, pages,      *)
(* sweeps and failures).                                                    *)
(*                                                                          *)
(* Nothing is lost at a cutover because, as long as the job that is being   *)
(* built still runs, every writer inside the fence mirrors to its target    *)
(* (no one was inside when dual writes began), and every pull request the   *)
(* scan has passed is either in the target at its newest version or in the  *)
(* hand of somebody who will write it. A pause, a failed mirror and a       *)
(* deleted target each end this for good, and the cutover looks at each.    *)
(*                                                                          *)
(* A number is not lost in the projection because, for each document and    *)
(* each branch that numbers its commit, the document is right, or its own   *)
(* row of work is not finished, or a sweep that is not finished has its     *)
(* cursor below the number. The second part of this module begins at        *)
(* BasicInv.                                                                *)
(****************************************************************************)
EXTENDS Reindex, SequenceProjection, TLAPS, FiniteSetTheorems, WellFoundedInduction

Slots == 1 .. MaxJobs + 1
Indices == [uuid : Nat, docs : [Prs -> Nat]]
JobStates == {"queued", "running", "paused", "completed", "failed", "cancelled"}
Jobs == [state : JobStates, dual : BOOLEAN, source : Slots, target : Slots, uuid : Nat,
         failures : Nat, scanned : BOOLEAN, switched : BOOLEAN, retired : BOOLEAN]
WriterRecs == [pc : {"idle", "want", "in", "mirror", "failed", "leave"}, d : Prs \cup {0}, v : Nat, shadow : Slots \cup {0}]
RunnerRecs == [pc : {"idle", "prepare", "activate", "read", "write", "verify", "cutover", "record", "finish"},
               j : Nat, after : Nat, row : {<<>>} \cup (Prs \X Nat), ids : SUBSET Prs]

TypeInv ==
  /\ canon \in [Prs -> Nat] /\ index \in [Slots -> Indices]
  /\ alias \in Slots /\ uuids \in Nat
  /\ jobs \in Seq(Jobs) /\ writer \in [Writers -> WriterRecs] /\ runner \in RunnerRecs

(* At most one job is active; a job leads from an alias that was to a later *)
(* version, and has switched only if the alias came there.                  *)
JobsInv ==
  /\ \A i, j \in DOMAIN jobs : jobs[i].state \in Active /\ jobs[j].state \in Active => i = j
  /\ \A j \in DOMAIN jobs :
       /\ jobs[j].source < jobs[j].target /\ jobs[j].source <= alias /\ jobs[j].uuid <= uuids
       /\ jobs[j].switched => jobs[j].target <= alias

(* No index is ahead of the snapshots, UUIDs are the ones handed out, and   *)
(* the served index is there.                                               *)
IndexInv ==
  /\ \A v \in Slots : index[v].uuid <= uuids /\ \A d \in Prs : index[v].docs[d] <= canon[d]
  /\ index[alias].uuid # 0

(* What a writer or the runner has in hand was committed; the runner knows  *)
(* the UUID of its target from its preparation on, scans from 0, and        *)
(* records a switch that was made.                                          *)
WritersInv ==
  \A w \in Writers : writer[w].pc # "idle" => writer[w].d \in Prs /\ writer[w].v <= canon[writer[w].d]
RunnerInv ==
  /\ runner.pc # "idle" => runner.j \in DOMAIN jobs
  /\ runner.pc \in {"prepare", "activate"} => runner.after = 0
  /\ runner.pc \notin {"idle", "prepare"} => jobs[runner.j].uuid # 0
  /\ runner.pc = "write" => runner.row \in Prs \X Nat /\ runner.row[2] <= canon[runner.row[1]]
  /\ runner.pc = "record" => alias = jobs[runner.j].target

(* The rebuild goes on: the job still runs and the alias is where it was.   *)
Building ==
  /\ runner.pc \in {"read", "write", "verify", "cutover"}
  /\ jobs[runner.j].state = "running" /\ alias = jobs[runner.j].source
Target == jobs[runner.j].target

(* Who is inside the fence mirrors to the target of the rebuild.            *)
DualInv ==
  Building => /\ jobs[runner.j].dual
              /\ \A w \in Writers : writer[w].pc \in {"in", "mirror"} => writer[w].shadow = Target

(* The pull requests the scan has passed, and who still owes one.           *)
Passed(d) == (runner.pc = "read" => d <= runner.after) /\ (runner.pc = "write" => d <= runner.row[1])
Owed(d, pcs) == \E w \in Writers : writer[w].pc \in pcs /\ writer[w].d = d /\ writer[w].v = canon[d]
InHand(d) == runner.pc = "write" /\ runner.row = <<d, canon[d]>>
Covered(d) == index[Target].docs[d] = canon[d] \/ InHand(d) \/ Owed(d, {"want", "in", "mirror", "failed"})
Ours == index[Target].uuid = jobs[runner.j].uuid
CoverInv == Building /\ Ours => \A d \in Prs : Passed(d) => Covered(d)

(* The served index lacks only what a writer has not served yet.            *)
ServedInv == \A d \in Prs : index[alias].docs[d] = canon[d] \/ Owed(d, {"want", "in"})

(* The inductive invariant.                                                 *)
IInv ==
  /\ TypeInv /\ JobsInv /\ IndexInv /\ WritersInv /\ RunnerInv
  /\ DualInv /\ CoverInv /\ ServedInv /\ ServedIsPrepared

----------------------------------------------------------------------------
(* Types, jobs and indices.                                                 *)

LEMMA ConstOK == Prs \subseteq Nat /\ Slots \subseteq Nat /\ 0 \notin Slots /\ 0 \notin Prs /\ 1 \in Slots
BY ReindexAssumption DEF Slots

LEMMA WriterOK ==
  ASSUME TypeInv, NEW w \in Writers
  PROVE  /\ writer[w] \in WriterRecs /\ writer[w].d \in Prs \cup {0} /\ writer[w].v \in Nat
         /\ writer[w].pc \in {"idle", "want", "in", "mirror", "failed", "leave"}
         /\ writer[w].shadow \in Slots \cup {0}
BY DEF TypeInv, WriterRecs

LEMMA RunnerOK ==
  ASSUME TypeInv
  PROVE  /\ runner \in RunnerRecs /\ runner.j \in Nat /\ runner.after \in Nat /\ runner.ids \in SUBSET Prs
         /\ runner.pc \in {"idle", "prepare", "activate", "read", "write", "verify", "cutover", "record", "finish"}
BY DEF TypeInv, RunnerRecs

LEMMA JobOK ==
  ASSUME TypeInv, NEW j \in DOMAIN jobs
  PROVE  /\ jobs[j] \in Jobs /\ jobs[j].state \in JobStates /\ jobs[j].source \in Slots /\ jobs[j].target \in Slots
         /\ jobs[j].uuid \in Nat /\ jobs[j].dual \in BOOLEAN /\ jobs[j].switched \in BOOLEAN
         /\ jobs[j].source \in Nat /\ jobs[j].target \in Nat /\ j \in Nat
<1>1. jobs[j] \in Jobs /\ j \in Nat
  BY DEF TypeInv
<1>. QED  BY <1>1, ConstOK DEF Jobs

LEMMA IndexOK ==
  ASSUME TypeInv, NEW v \in Slots, NEW d \in Prs
  PROVE  index[v] \in Indices /\ index[v].uuid \in Nat /\ index[v].docs \in [Prs -> Nat]
         /\ index[v].docs[d] \in Nat /\ canon[d] \in Nat
BY DEF TypeInv, Indices

(* A job whose row is replaced.                                             *)
LEMMA Replaced ==
  ASSUME TypeInv, NEW j \in DOMAIN jobs, NEW r \in Jobs, jobs' = [jobs EXCEPT ![j] = r]
  PROVE  /\ jobs' \in Seq(Jobs) /\ DOMAIN jobs' = DOMAIN jobs /\ jobs'[j] = r
         /\ \A i \in DOMAIN jobs : i # j => jobs'[i] = jobs[i]
BY DEF TypeInv

(* What holds of the job rows when one of them is replaced.                 *)
LEMMA Edited ==
  ASSUME TypeInv, JobsInv, NEW j \in DOMAIN jobs, NEW r \in Jobs, jobs' = [jobs EXCEPT ![j] = r],
         alias' = alias, uuids' \in Nat, uuids <= uuids',
         r.source = jobs[j].source, r.target = jobs[j].target, r.uuid <= uuids',
         r.state \in Active => jobs[j].state \in Active,
         r.switched => jobs[j].switched \/ jobs[j].target <= alias
  PROVE  JobsInv'
<1>1. /\ DOMAIN jobs' = DOMAIN jobs /\ jobs'[j] = r
      /\ \A i \in DOMAIN jobs : i # j => jobs'[i] = jobs[i]
  BY Replaced
<1>2. \A i \in DOMAIN jobs : jobs'[i].state \in Active => jobs[i].state \in Active
  <2>. TAKE i \in DOMAIN jobs
  <2>1. CASE i = j
    BY <1>1, <2>1
  <2>2. CASE i # j
    BY <1>1, <2>2
  <2>. QED  BY <2>1, <2>2
<1>3. ASSUME NEW i \in DOMAIN jobs
      PROVE  /\ jobs'[i].source < jobs'[i].target /\ jobs'[i].source <= alias /\ jobs'[i].uuid <= uuids'
             /\ jobs'[i].switched => jobs'[i].target <= alias
  <2>1. CASE i = j
    BY <1>1, <2>1 DEF JobsInv
  <2>2. CASE i # j
    <3>1. jobs'[i] = jobs[i] /\ jobs[i].uuid \in Nat /\ uuids \in Nat
      BY <1>1, <2>2, JobOK DEF TypeInv
    <3>. QED  BY <3>1 DEF JobsInv
  <2>. QED  BY <2>1, <2>2
<1>4. \A i, k \in DOMAIN jobs' : jobs'[i].state \in Active /\ jobs'[k].state \in Active => i = k
  BY <1>1, <1>2 DEF JobsInv
<1>. QED  BY <1>1, <1>3, <1>4 DEF JobsInv

(* The job that is being built is the one whose target is the shadow.       *)
LEMMA ShadowOK ==
  ASSUME TypeInv
  PROVE  Shadow \in Slots \cup {0}
<1>. DEFINE on == {j \in DOMAIN jobs : jobs[j].state = "running" /\ jobs[j].dual /\ ~jobs[j].switched}
<1>1. CASE on = {}
  BY <1>1 DEF Shadow
<1>2. CASE on # {}
  <2>1. (CHOOSE j \in on : TRUE) \in on
    BY <1>2
  <2>2. jobs[CHOOSE j \in on : TRUE].target \in Slots
    BY <2>1, JobOK
  <2>. QED  BY <1>2, <2>2 DEF Shadow
<1>. QED  BY <1>1, <1>2

LEMMA BuildingOK ==
  ASSUME IInv, Building
  PROVE  /\ runner.j \in DOMAIN jobs /\ Target \in Slots /\ Target # alias /\ alias < Target
         /\ jobs[runner.j].dual /\ ~jobs[runner.j].switched
         /\ jobs[runner.j].uuid # 0 /\ jobs[runner.j].uuid \in Nat /\ jobs[runner.j].uuid <= uuids
         /\ Shadow = Target
<1>1. TypeInv /\ JobsInv /\ runner.j \in DOMAIN jobs /\ jobs[runner.j].uuid # 0 /\ jobs[runner.j].dual
  BY DEF IInv, Building, RunnerInv, DualInv
<1>2. /\ Target \in Slots /\ Target \in Nat /\ alias = jobs[runner.j].source /\ alias < Target
      /\ jobs[runner.j].uuid \in Nat /\ jobs[runner.j].uuid <= uuids /\ alias \in Nat
  BY <1>1, JobOK DEF Building, Target, JobsInv
<1>3. ~jobs[runner.j].switched
  BY <1>1, <1>2 DEF JobsInv, Target
<1>4. Shadow = Target
  <2>. DEFINE on == {j \in DOMAIN jobs : jobs[j].state = "running" /\ jobs[j].dual /\ ~jobs[j].switched}
  <2>1. runner.j \in on
    BY <1>1, <1>3 DEF Building
  <2>2. \A j \in on : j = runner.j
    BY <2>1 DEF IInv, JobsInv, Active
  <2>3. (CHOOSE j \in on : TRUE) \in on
    BY <2>1
  <2>4. (CHOOSE j \in on : TRUE) = runner.j
    BY <2>2, <2>3
  <2>5. on # {}
    BY <2>1
  <2>6. Shadow = jobs[CHOOSE j \in on : TRUE].target
    BY <2>5 DEF Shadow
  <2>. QED  BY <2>4, <2>6 DEF Target
<1>. QED  BY <1>1, <1>2, <1>3, <1>4

(* recordShadowFailures: no job begins to run, and the one that runs fails. *)
LEMMA ShadowFailedOK ==
  ASSUME TypeInv, JobsInv, jobs' = ShadowFailed(jobs), alias' = alias, uuids' \in Nat, uuids <= uuids'
  PROVE  /\ jobs' \in Seq(Jobs) /\ DOMAIN jobs' = DOMAIN jobs /\ JobsInv'
         /\ \A j \in DOMAIN jobs :
              /\ jobs'[j].source = jobs[j].source /\ jobs'[j].target = jobs[j].target /\ jobs'[j].uuid = jobs[j].uuid
              /\ jobs'[j].state # "running"
<1>. DEFINE act == {j \in DOMAIN jobs : jobs[j].state \in Active}
            hit(j) == j \in act /\ (\A i \in act : j <= i) /\ jobs[j].state = "running"
            row(j) == IF hit(j) THEN [jobs[j] EXCEPT !.state = "failed", !.failures = 1] ELSE jobs[j]
<1>1. jobs' = [j \in DOMAIN jobs |-> row(j)]
  BY DEF ShadowFailed
<1>2. ASSUME NEW j \in DOMAIN jobs
      PROVE  jobs[j].state = "running" => hit(j)
  <2>. SUFFICES ASSUME jobs[j].state = "running" PROVE hit(j)
    OBVIOUS
  <2>1. j \in act /\ j \in Nat
    BY JobOK DEF Active
  <2>2. \A i \in act : i = j
    BY <2>1 DEF JobsInv
  <2>. QED  BY <2>1, <2>2
<1>. HIDE DEF hit
<1>3. ASSUME NEW j \in DOMAIN jobs
      PROVE  /\ row(j) \in Jobs /\ row(j).source = jobs[j].source /\ row(j).target = jobs[j].target
             /\ row(j).uuid = jobs[j].uuid /\ row(j).switched = jobs[j].switched
             /\ row(j).state # "running" /\ (row(j).state \in Active => jobs[j].state \in Active)
  <2>1. jobs[j] \in Jobs
    BY JobOK
  <2>2. CASE hit(j)
    BY <2>1, <2>2 DEF Jobs, JobStates, Active
  <2>3. CASE ~hit(j)
    BY <1>2, <2>1, <2>3
  <2>. QED  BY <2>2, <2>3
<1>. HIDE DEF row
<1>4. jobs' \in Seq(Jobs) /\ DOMAIN jobs' = DOMAIN jobs /\ \A j \in DOMAIN jobs : jobs'[j] = row(j)
  <2>1. Len(jobs) \in Nat /\ DOMAIN jobs = 1 .. Len(jobs)
    BY DEF TypeInv
  <2>2. jobs' \in [1 .. Len(jobs) -> Jobs]
    BY <1>1, <1>3, <2>1
  <2>. QED  BY <1>1, <2>1, <2>2
<1>5. JobsInv'
  <2>1. \A i, k \in DOMAIN jobs' : jobs'[i].state \in Active /\ jobs'[k].state \in Active => i = k
    BY <1>3, <1>4 DEF JobsInv
  <2>2. ASSUME NEW i \in DOMAIN jobs
        PROVE  /\ jobs'[i].source < jobs'[i].target /\ jobs'[i].source <= alias /\ jobs'[i].uuid <= uuids'
               /\ jobs'[i].switched => jobs'[i].target <= alias
    <3>1. jobs[i].uuid \in Nat /\ uuids \in Nat
      BY JobOK DEF TypeInv
    <3>. QED  BY <1>3, <1>4, <3>1 DEF JobsInv
  <2>. QED  BY <1>4, <2>1, <2>2 DEF JobsInv
<1>. QED  BY <1>3, <1>4, <1>5

(* The scripted write: the documents of one index grow up to what is        *)
(* written, and an index that was gone is created.                          *)
LEMMA WriteOK ==
  ASSUME TypeInv, NEW ix \in [Slots -> Indices], NEW v \in Slots, NEW d \in Prs, NEW ver \in Nat
  PROVE  /\ Write(ix, v, d, ver) \in [Slots -> Indices]
         /\ \A u \in Slots : u # v => Write(ix, v, d, ver)[u] = ix[u]
         /\ Write(ix, v, d, ver)[v].uuid = IF ix[v].uuid = 0 THEN uuids + 1 ELSE ix[v].uuid
         /\ \A x \in Prs : x # d => Write(ix, v, d, ver)[v].docs[x] = ix[v].docs[x]
         /\ Write(ix, v, d, ver)[v].docs[d] = IF ver > ix[v].docs[d] THEN ver ELSE ix[v].docs[d]
<1>1. v # 0 /\ uuids + 1 \in Nat
  BY ConstOK DEF TypeInv
<1>2. ix[v] \in Indices /\ ix[v].docs \in [Prs -> Nat] /\ ix[v].uuid \in Nat
  BY DEF Indices
<1>. DEFINE up == Upserted(ix[v], d, ver, uuids + 1)
<1>3. /\ up \in Indices /\ up.uuid = (IF ix[v].uuid = 0 THEN uuids + 1 ELSE ix[v].uuid)
      /\ up.docs[d] = (IF ver > ix[v].docs[d] THEN ver ELSE ix[v].docs[d])
      /\ \A x \in Prs : x # d => up.docs[x] = ix[v].docs[x]
  <2>1. PICK top : top = IF ver > ix[v].docs[d] THEN ver ELSE ix[v].docs[d]
    OBVIOUS
  <2>2. PICK id : id = IF ix[v].uuid = 0 THEN uuids + 1 ELSE ix[v].uuid
    OBVIOUS
  <2>3. top \in Nat /\ id \in Nat
    BY <1>1, <1>2, <2>1, <2>2
  <2>4. up = [uuid |-> id, docs |-> [ix[v].docs EXCEPT ![d] = top]]
    BY <2>1, <2>2 DEF Upserted
  <2>5. [ix[v].docs EXCEPT ![d] = top] \in [Prs -> Nat]
    BY <1>2, <2>3
  <2>. QED  BY <1>2, <2>1, <2>2, <2>3, <2>4, <2>5 DEF Indices
<1>4. Write(ix, v, d, ver) = [ix EXCEPT ![v] = up]
  BY <1>1 DEF Write
<1>. HIDE DEF up
<1>. QED  BY <1>3, <1>4

LEMMA WriteNone == ASSUME NEW ix, NEW d, NEW ver PROVE Write(ix, 0, d, ver) = ix
BY DEF Write

----------------------------------------------------------------------------
(* The jobs and the runner.                                                 *)

(* No job loses what it was made for or what it built.                      *)
KeepsJobs ==
  /\ DOMAIN jobs \subseteq DOMAIN jobs'
  /\ \A j \in DOMAIN jobs : /\ jobs'[j].source = jobs[j].source /\ jobs'[j].target = jobs[j].target
                            /\ jobs'[j].uuid = jobs[j].uuid

LEMMA PreparedKept ==
  ASSUME ServedIsPrepared, KeepsJobs, alias' = alias, index'[alias].uuid = index[alias].uuid
  PROVE  ServedIsPrepared'
BY DEF ServedIsPrepared, KeepsJobs

LEMMA SameOwed ==
  ASSUME UNCHANGED <<canon, writer>>, NEW d, NEW P, Owed(d, P)
  PROVE  Owed(d, P)'
BY DEF Owed

(* The rebuild after a step that leaves the runner alone.                   *)
LEMMA SameRunner ==
  ASSUME IInv, KeepsJobs, runner' = runner, alias' = alias, Building',
         \A j \in DOMAIN jobs : jobs'[j].state = "running" => jobs[j].state = "running"
  PROVE  Building /\ Target' = Target /\ jobs'[runner.j].uuid = jobs[runner.j].uuid /\ runner.j \in DOMAIN jobs
<1>1. runner.j \in DOMAIN jobs
  BY DEF IInv, RunnerInv, Building
<1>. QED  BY <1>1 DEF Building, KeepsJobs, Target

LEMMA SameRunnerInv ==
  ASSUME IInv, KeepsJobs, runner' = runner, alias' = alias, \A d \in Prs : canon[d] <= canon'[d] /\ canon'[d] \in Nat
  PROVE  RunnerInv'
<1>1. runner.pc = "write" => runner.row \in Prs \X Nat /\ runner.row[2] <= canon'[runner.row[1]]
  <2>. SUFFICES ASSUME runner.pc = "write" PROVE runner.row \in Prs \X Nat /\ runner.row[2] <= canon'[runner.row[1]]
    OBVIOUS
  <2>1. runner.row \in Prs \X Nat /\ runner.row[2] <= canon[runner.row[1]]
    BY DEF IInv, RunnerInv
  <2>2. runner.row[1] \in Prs /\ runner.row[2] \in Nat
    BY <2>1
  <2>3. canon[runner.row[1]] \in Nat
    BY <2>2 DEF IInv, TypeInv
  <2>. QED  BY <2>1, <2>2, <2>3
<1>. QED  BY <1>1 DEF IInv, RunnerInv, KeepsJobs

(* Steps that change job rows and the runner only.                          *)
LEMMA BookStep ==
  ASSUME IInv, UNCHANGED <<canon, index, alias, uuids, writer>>,
         jobs' \in Seq(Jobs), runner' \in RunnerRecs, KeepsJobs, JobsInv', 
         \/ /\ runner' = runner
            /\ \A j \in DOMAIN jobs : /\ jobs'[j].state = "running" => jobs[j].state = "running"
                                      /\ jobs'[j].dual = jobs[j].dual \/ jobs[j].target = alias
         \/ runner'.pc \notin {"read", "write", "verify", "cutover"} /\ RunnerInv'
  PROVE  IInv'
<1>1. TypeInv'
  BY DEF IInv, TypeInv
<1>2. IndexInv' /\ WritersInv'
  BY DEF IInv, IndexInv, WritersInv
<1>3. ServedIsPrepared'
  BY PreparedKept DEF IInv
<1>4. ServedInv'
  BY SameOwed DEF IInv, ServedInv
<1>5. CASE runner'.pc \notin {"read", "write", "verify", "cutover"} /\ RunnerInv'
  <2>1. ~Building'
    BY <1>5 DEF Building
  <2>. QED  BY <1>1, <1>2, <1>3, <1>4, <1>5, <2>1 DEF IInv, DualInv, CoverInv
<1>6. CASE /\ runner' = runner
           /\ \A j \in DOMAIN jobs : /\ jobs'[j].state = "running" => jobs[j].state = "running"
                                     /\ jobs'[j].dual = jobs[j].dual \/ jobs[j].target = alias
  <2>1. RunnerInv'
    BY <1>6, SameRunnerInv DEF IInv, TypeInv
  <2>2. ASSUME Building'
        PROVE  Building /\ Target' = Target /\ jobs'[runner.j].uuid = jobs[runner.j].uuid /\ jobs'[runner.j].dual
    <3>1. Building /\ Target' = Target /\ jobs'[runner.j].uuid = jobs[runner.j].uuid /\ runner.j \in DOMAIN jobs
      BY <1>6, <2>2, SameRunner
    <3>2. Target # alias /\ jobs[runner.j].dual
      BY <3>1, BuildingOK
    <3>. QED  BY <1>6, <3>1, <3>2 DEF Target
  <2>3. DualInv'
    <3>. SUFFICES ASSUME Building' PROVE jobs'[runner.j].dual /\ \A w \in Writers : writer[w].pc \in {"in", "mirror"} => writer[w].shadow = Target'
      BY <1>6 DEF DualInv
    <3>. QED  BY <2>2 DEF IInv, DualInv
  <2>4. CoverInv'
    <3>. SUFFICES ASSUME Building', Ours', NEW d \in Prs, Passed(d)' PROVE Covered(d)'
      BY DEF CoverInv
    <3>1. Building /\ Ours /\ Passed(d)
      BY <1>6, <2>2 DEF Ours, Passed
    <3>2. Covered(d)
      BY <3>1 DEF IInv, CoverInv
    <3>. QED  BY <1>6, <2>2, <3>2, SameOwed DEF Covered, InHand
  <2>. QED  BY <1>1, <1>2, <1>3, <1>4, <2>1, <2>3, <2>4 DEF IInv
<1>. QED  BY <1>5, <1>6

LEMMA IdleOK == IdleRunner \in RunnerRecs /\ IdleRunner.pc = "idle"
<1>1. <<>> \in {<<>>} \cup (Prs \X Nat) /\ {} \in SUBSET Prs /\ 0 \in Nat
  OBVIOUS
<1>. QED  BY <1>1 DEF IdleRunner, RunnerRecs

LEMMA EnqueueStep ==
  ASSUME IInv, Enqueue
  PROVE  IInv'
<1>1. /\ TypeInv /\ JobsInv /\ IndexInv /\ UNCHANGED <<canon, index, alias, uuids, writer, runner>>
      /\ \A j \in DOMAIN jobs : jobs[j].state \notin Active
  BY DEF IInv, Enqueue
<1>2. PICK last \in Versions :
        /\ index[last].uuid # 0 /\ \A v \in Versions : v > last => index[v].uuid = 0
        /\ last + 1 \in Versions
        /\ jobs' = jobs \o <<[state |-> "queued", dual |-> FALSE, source |-> alias, target |-> last + 1, uuid |-> 0,
                             failures |-> 0, scanned |-> FALSE, switched |-> FALSE, retired |-> FALSE]>>
  BY DEF Enqueue
<1>3. Versions = Slots /\ last \in Slots /\ last + 1 \in Slots /\ last \in Nat /\ alias \in Slots /\ alias \in Nat
  BY <1>1, <1>2, ConstOK DEF Versions, TypeInv
<1>4. alias <= last
  BY <1>1, <1>2, <1>3 DEF IndexInv
<1>5. PICK new : new = [state |-> "queued", dual |-> FALSE, source |-> alias, target |-> last + 1, uuid |-> 0,
                        failures |-> 0, scanned |-> FALSE, switched |-> FALSE, retired |-> FALSE]
  OBVIOUS
<1>6. new \in Jobs /\ new.source = alias /\ new.target = last + 1 /\ new.uuid = 0 /\ new.switched = FALSE
  BY <1>3, <1>5 DEF Jobs, JobStates
<1>7. jobs' = jobs \o <<new>>
  BY <1>2, <1>5
<1>8. PICK n : n = Len(jobs) + 1
  OBVIOUS
<1>9. /\ jobs \in Seq(Jobs) /\ Len(jobs) \in Nat /\ jobs' \in Seq(Jobs) /\ DOMAIN jobs' = DOMAIN jobs \cup {n}
      /\ jobs'[n] = new /\ \A j \in DOMAIN jobs : jobs'[j] = jobs[j]
  BY <1>1, <1>6, <1>7, <1>8 DEF TypeInv
<1>10. JobsInv'
  <2>1. \A i, j \in DOMAIN jobs' : jobs'[i].state \in Active /\ jobs'[j].state \in Active => i = j
    BY <1>1, <1>9
  <2>2. ASSUME NEW j \in DOMAIN jobs'
        PROVE  /\ jobs'[j].source < jobs'[j].target /\ jobs'[j].source <= alias /\ jobs'[j].uuid <= uuids
               /\ jobs'[j].switched => jobs'[j].target <= alias
    <3>1. CASE j = n
      <4>1. jobs'[j] = new /\ uuids \in Nat
        BY <1>1, <1>9, <3>1 DEF TypeInv
      <4>. QED  BY <1>3, <1>4, <1>6, <4>1
    <3>2. CASE j # n
      BY <1>1, <1>9, <3>2 DEF JobsInv
    <3>. QED  BY <3>1, <3>2
  <2>. QED  BY <1>1, <2>1, <2>2 DEF JobsInv
<1>11. KeepsJobs
  BY <1>9 DEF KeepsJobs
<1>12. runner' \in RunnerRecs
  BY <1>1 DEF TypeInv
<1>. QED  BY <1>1, <1>9, <1>10, <1>11, <1>12, BookStep

(* One row is replaced, and nothing but its state, its flags or its scan.   *)
LEMMA RowStep ==
  ASSUME IInv, UNCHANGED <<canon, index, alias, uuids, writer>>,
         NEW j \in DOMAIN jobs, NEW r \in Jobs, jobs' = [jobs EXCEPT ![j] = r],
         r.source = jobs[j].source, r.target = jobs[j].target, r.uuid = jobs[j].uuid,
         r.state \in Active => jobs[j].state \in Active,
         r.switched => jobs[j].switched \/ jobs[j].target <= alias
  PROVE  jobs' \in Seq(Jobs) /\ KeepsJobs /\ JobsInv' /\ jobs'[j] = r /\ DOMAIN jobs' = DOMAIN jobs
         /\ \A i \in DOMAIN jobs : i # j => jobs'[i] = jobs[i]
<1>1. /\ jobs' \in Seq(Jobs) /\ DOMAIN jobs' = DOMAIN jobs /\ jobs'[j] = r
      /\ \A i \in DOMAIN jobs : i # j => jobs'[i] = jobs[i]
  BY Replaced DEF IInv
<1>2. uuids \in Nat /\ uuids' \in Nat /\ uuids <= uuids' /\ r.uuid <= uuids'
  BY DEF IInv, TypeInv, JobsInv
<1>3. JobsInv'
  BY <1>2, Edited DEF IInv
<1>4. KeepsJobs
  BY <1>1 DEF KeepsJobs
<1>. QED  BY <1>1, <1>3, <1>4

LEMMA TransitionStep ==
  ASSUME IInv, NEW j \in DOMAIN jobs, Transition(j)
  PROVE  IInv'
<1>1. TypeInv /\ UNCHANGED <<canon, index, alias, uuids, writer, runner>>
  BY DEF IInv, Transition
<1>2. PICK s \in {"paused", "queued", "cancelled"} : jobs[j].state \in Active /\ jobs' = [jobs EXCEPT ![j].state = s]
  <2>1. PICK t \in {<<"queued", "paused">>, <<"running", "paused">>, <<"paused", "queued">>} \cup (Active \X {"cancelled"}) :
          jobs[j].state = t[1] /\ jobs' = [jobs EXCEPT ![j].state = t[2]]
    BY DEF Transition
  <2>2. t[1] \in Active /\ t[2] \in {"paused", "queued", "cancelled"}
    BY DEF Active
  <2>. QED  BY <2>1, <2>2
<1>3. PICK r : r = [jobs[j] EXCEPT !.state = s]
  OBVIOUS
<1>4. jobs' = [jobs EXCEPT ![j] = r]
  BY <1>2, <1>3
<1>5. /\ r \in Jobs /\ r.source = jobs[j].source /\ r.target = jobs[j].target /\ r.uuid = jobs[j].uuid
      /\ r.switched = jobs[j].switched /\ r.dual = jobs[j].dual /\ r.state = s
  BY <1>1, <1>3, JobOK DEF Jobs, JobStates
<1>6. jobs' \in Seq(Jobs) /\ KeepsJobs /\ JobsInv' /\ jobs'[j] = r
      /\ \A i \in DOMAIN jobs : i # j => jobs'[i] = jobs[i]
  BY <1>1, <1>2, <1>4, <1>5, RowStep
<1>7. \A i \in DOMAIN jobs : (jobs'[i].state = "running" => jobs[i].state = "running") /\ jobs'[i].dual = jobs[i].dual
  BY <1>5, <1>6
<1>8. runner' \in RunnerRecs
  BY <1>1 DEF TypeInv
<1>. QED  BY <1>1, <1>6, <1>7, <1>8, BookStep

LEMMA ReconcileStep ==
  ASSUME IInv, NEW j \in DOMAIN jobs, Reconcile(j)
  PROVE  IInv'
<1>1. /\ TypeInv /\ UNCHANGED <<canon, index, alias, uuids, writer, runner>> /\ alias = jobs[j].target
      /\ jobs' = [jobs EXCEPT ![j].switched = TRUE, ![j].dual = FALSE]
  BY DEF IInv, Reconcile
<1>2. PICK r : r = [jobs[j] EXCEPT !.switched = TRUE, !.dual = FALSE]
  OBVIOUS
<1>3. jobs' = [jobs EXCEPT ![j] = r]
  BY <1>1, <1>2
<1>4. /\ r \in Jobs /\ r.source = jobs[j].source /\ r.target = jobs[j].target /\ r.uuid = jobs[j].uuid
      /\ r.state = jobs[j].state
  BY <1>1, <1>2, JobOK DEF Jobs
<1>5. jobs[j].target <= alias
  BY <1>1, JobOK
<1>6. jobs' \in Seq(Jobs) /\ KeepsJobs /\ JobsInv' /\ jobs'[j] = r
      /\ \A i \in DOMAIN jobs : i # j => jobs'[i] = jobs[i]
  BY <1>1, <1>3, <1>4, <1>5, RowStep
<1>7. \A i \in DOMAIN jobs : /\ jobs'[i].state = "running" => jobs[i].state = "running"
                             /\ jobs'[i].dual = jobs[i].dual \/ jobs[i].target = alias
  BY <1>1, <1>4, <1>6
<1>8. runner' \in RunnerRecs
  BY <1>1 DEF TypeInv
<1>. QED  BY <1>1, <1>6, <1>7, <1>8, BookStep

LEMMA ClaimStep ==
  ASSUME IInv, NEW j \in DOMAIN jobs, Claim(j)
  PROVE  IInv'
<1>1. /\ TypeInv /\ UNCHANGED <<canon, index, alias, uuids, writer>> /\ jobs[j].state = "queued"
      /\ jobs' = [jobs EXCEPT ![j].state = "running"]
      /\ runner' = [IdleRunner EXCEPT !.pc = "prepare", !.j = j]
  BY DEF IInv, Claim
<1>2. PICK r : r = [jobs[j] EXCEPT !.state = "running"]
  OBVIOUS
<1>3. jobs' = [jobs EXCEPT ![j] = r]
  BY <1>1, <1>2
<1>4. /\ r \in Jobs /\ r.source = jobs[j].source /\ r.target = jobs[j].target /\ r.uuid = jobs[j].uuid
      /\ r.switched = jobs[j].switched /\ jobs[j].state \in Active
  BY <1>1, <1>2, JobOK DEF Jobs, JobStates, Active
<1>5. jobs' \in Seq(Jobs) /\ KeepsJobs /\ JobsInv' /\ DOMAIN jobs' = DOMAIN jobs
  BY <1>1, <1>3, <1>4, RowStep
<1>6. runner' \in RunnerRecs /\ runner'.pc = "prepare" /\ runner'.j = j /\ runner'.after = 0
  <2>1. j \in Nat
    BY <1>1, JobOK
  <2>2. IdleRunner.after = 0
    BY DEF IdleRunner
  <2>. QED  BY <1>1, <2>1, <2>2, IdleOK DEF RunnerRecs
<1>7. RunnerInv'
  BY <1>5, <1>6 DEF RunnerInv
<1>. QED  BY <1>1, <1>5, <1>6, <1>7, BookStep

(* The runner lets go of its job.                                           *)
LEMMA GiveStep ==
  ASSUME IInv, runner.pc # "idle", UNCHANGED <<canon, index, alias, uuids, writer>>, runner' = IdleRunner,
         NEW s \in {"failed", "completed"}, jobs' \in {jobs, Finished(jobs, runner.j, s)}
  PROVE  IInv'
<1>1. TypeInv /\ JobsInv /\ runner.j \in DOMAIN jobs
  BY DEF IInv, RunnerInv
<1>2. RunnerInv' /\ runner' \in RunnerRecs /\ runner'.pc \notin {"read", "write", "verify", "cutover"}
  BY IdleOK DEF RunnerInv
<1>3. CASE jobs' = jobs
  <2>1. jobs' \in Seq(Jobs) /\ KeepsJobs /\ JobsInv'
    BY <1>1, <1>3 DEF TypeInv, KeepsJobs, JobsInv
  <2>. QED  BY <1>2, <2>1, BookStep
<1>4. CASE jobs' = [jobs EXCEPT ![runner.j].state = s]
  <2>1. PICK j \in DOMAIN jobs : j = runner.j
    BY <1>1
  <2>2. PICK r : r = [jobs[j] EXCEPT !.state = s]
    OBVIOUS
  <2>3. jobs' = [jobs EXCEPT ![j] = r]
    BY <1>4, <2>1, <2>2
  <2>4. /\ r \in Jobs /\ r.source = jobs[j].source /\ r.target = jobs[j].target /\ r.uuid = jobs[j].uuid
        /\ r.switched = jobs[j].switched /\ r.state \notin Active
    BY <1>1, <2>2, JobOK DEF Jobs, JobStates, Active
  <2>5. jobs' \in Seq(Jobs) /\ KeepsJobs /\ JobsInv'
    BY <2>3, <2>4, RowStep
  <2>. QED  BY <1>2, <2>5, BookStep
<1>. QED  BY <1>3, <1>4 DEF Finished

LEMMA RecordStep ==
  ASSUME IInv, Record
  PROVE  IInv'
<1>1. TypeInv /\ RunnerInv /\ runner.pc = "record" /\ UNCHANGED <<canon, index, alias, uuids, writer>>
  BY DEF IInv, Record
<1>2. CASE Give(jobs, "failed")
  BY <1>1, <1>2, GiveStep DEF Give
<1>3. CASE /\ jobs' = [jobs EXCEPT ![runner.j].switched = TRUE, ![runner.j].dual = FALSE]
           /\ runner' = [runner EXCEPT !.pc = "finish"]
  <2>1. PICK j \in DOMAIN jobs : j = runner.j
    BY <1>1 DEF RunnerInv
  <2>2. PICK r : r = [jobs[j] EXCEPT !.switched = TRUE, !.dual = FALSE]
    OBVIOUS
  <2>3. jobs' = [jobs EXCEPT ![j] = r]
    BY <1>3, <2>1, <2>2
  <2>4. /\ r \in Jobs /\ r.source = jobs[j].source /\ r.target = jobs[j].target /\ r.uuid = jobs[j].uuid
        /\ r.state = jobs[j].state
    BY <1>1, <2>2, JobOK DEF Jobs
  <2>5. jobs[j].target <= alias
    BY <1>1, <2>1, JobOK DEF RunnerInv
  <2>6. jobs' \in Seq(Jobs) /\ KeepsJobs /\ JobsInv' /\ DOMAIN jobs' = DOMAIN jobs /\ jobs'[j] = r
    BY <1>1, <2>3, <2>4, <2>5, RowStep
  <2>7. runner' \in RunnerRecs /\ runner'.pc = "finish" /\ runner'.j = j
    BY <1>1, <1>3, <2>1, RunnerOK DEF RunnerRecs
  <2>8. RunnerInv'
    BY <1>1, <2>1, <2>4, <2>6, <2>7 DEF RunnerInv
  <2>. QED  BY <1>1, <2>6, <2>7, <2>8, BookStep
<1>. QED  BY <1>1, <1>2, <1>3 DEF Record

LEMMA EndStep ==
  ASSUME IInv, Finish \/ RunnerDies
  PROVE  IInv'
<1>1. CASE Finish
  BY <1>1, GiveStep DEF Finish, Give
<1>2. CASE RunnerDies
  BY <1>2, GiveStep DEF RunnerDies
<1>. QED  BY <1>1, <1>2

----------------------------------------------------------------------------
(* The steps of a rebuild.                                                  *)

(* The index is created if it is not there; its documents stay.             *)
LEMMA PrepareStep ==
  ASSUME IInv, Prepare
  PROVE  IInv'
<1>1. /\ TypeInv /\ JobsInv /\ IndexInv /\ runner.pc = "prepare" /\ UNCHANGED <<canon, alias, writer>>
      /\ runner.j \in DOMAIN jobs /\ runner.after = 0
  BY DEF IInv, Prepare, RunnerInv
<1>2. PICK j \in DOMAIN jobs : j = runner.j
  BY <1>1
<1>3. PICK v : v = jobs[j].target
  OBVIOUS
<1>4. PICK id : id = IF index[v].uuid = 0 THEN uuids + 1 ELSE index[v].uuid
  OBVIOUS
<1>5. /\ jobs[j] \in Jobs /\ v \in Slots /\ v # 0 /\ index[v] \in Indices /\ index[v].uuid \in Nat /\ uuids \in Nat
      /\ index[v].uuid <= uuids /\ jobs[j].uuid \in Nat /\ jobs[j].uuid <= uuids
  BY <1>1, <1>3, JobOK, ConstOK DEF TypeInv, Indices, IndexInv, JobsInv
<1>6. id \in Nat /\ id # 0 /\ uuids' \in Nat /\ uuids <= uuids' /\ id <= uuids'
  <2>1. uuids' = IF v # 0 /\ index[v].uuid = 0 THEN uuids + 1 ELSE uuids
    BY <1>2, <1>3 DEF Prepare, Created
  <2>. QED  BY <1>4, <1>5, <2>1
<1>7. index' = [index EXCEPT ![v] = [index[v] EXCEPT !.uuid = id]]
  BY <1>2, <1>3, <1>4 DEF Prepare
<1>8. PICK new : new = [index[v] EXCEPT !.uuid = id]
  OBVIOUS
<1>9. new \in Indices /\ new.uuid = id /\ new.docs = index[v].docs
  BY <1>5, <1>6, <1>8 DEF Indices
<1>10. /\ index' \in [Slots -> Indices] /\ index'[v] = new /\ \A u \in Slots : u # v => index'[u] = index[u]
  BY <1>1, <1>5, <1>7, <1>8, <1>9 DEF TypeInv
<1>11. \A u \in Slots : index'[u].docs = index[u].docs
  BY <1>9, <1>10
<1>12. alias \in Slots /\ index[alias].uuid # 0 /\ index'[alias].uuid = index[alias].uuid
  <2>1. alias \in Slots /\ index[alias].uuid # 0
    BY <1>1 DEF TypeInv, IndexInv
  <2>2. CASE v = alias
    BY <1>4, <1>9, <1>10, <2>1, <2>2
  <2>3. CASE v # alias
    BY <1>10, <2>1, <2>3
  <2>. QED  BY <2>1, <2>2, <2>3
<1>13. IndexInv'
  <2>1. ASSUME NEW u \in Slots PROVE index'[u].uuid <= uuids'
    <3>1. CASE u = v
      BY <1>6, <1>9, <1>10, <3>1
    <3>2. CASE u # v
      <4>1. index'[u] = index[u] /\ index[u].uuid \in Nat /\ index[u].uuid <= uuids
        BY <1>1, <1>10, <3>2 DEF TypeInv, Indices, IndexInv
      <4>. QED  BY <1>5, <1>6, <4>1
    <3>. QED  BY <3>1, <3>2
  <2>. QED  BY <1>1, <1>11, <1>12, <2>1 DEF IndexInv
<1>14. ServedInv' /\ WritersInv'
  <2>1. ASSUME NEW d \in Prs PROVE index'[alias].docs[d] = canon'[d] \/ Owed(d, {"want", "in"})'
    BY <1>1, <1>11, <1>12, SameOwed DEF IInv, ServedInv
  <2>. QED  BY <1>1, <2>1 DEF ServedInv, WritersInv, IInv
<1>15. CASE Give(jobs, "failed")
  <2>1. runner' = IdleRunner /\ runner' \in RunnerRecs /\ runner'.pc = "idle"
    BY <1>15, IdleOK DEF Give
  <2>2. jobs' = jobs \/ jobs' = [jobs EXCEPT ![j].state = "failed"]
    BY <1>2, <1>15 DEF Give, Finished
  <2>3. PICK r : r = IF jobs' = jobs THEN jobs[j] ELSE [jobs[j] EXCEPT !.state = "failed"]
    OBVIOUS
  <2>4. jobs' = [jobs EXCEPT ![j] = r]
    BY <1>1, <2>2, <2>3 DEF TypeInv
  <2>5. /\ r \in Jobs /\ r.source = jobs[j].source /\ r.target = jobs[j].target /\ r.uuid = jobs[j].uuid
        /\ r.switched = jobs[j].switched /\ (r.state \in Active => jobs[j].state \in Active)
    BY <1>5, <2>3 DEF Jobs, JobStates, Active
  <2>6. r.uuid <= uuids'
    BY <1>5, <1>6, <2>5
  <2>7. JobsInv'
    BY <1>1, <1>6, <2>4, <2>5, <2>6, Edited
  <2>8. /\ jobs' \in Seq(Jobs) /\ DOMAIN jobs' = DOMAIN jobs /\ jobs'[j] = r
        /\ \A i \in DOMAIN jobs : i # j => jobs'[i] = jobs[i]
    BY <1>1, <2>4, <2>5, Replaced
  <2>9. KeepsJobs
    BY <2>5, <2>8 DEF KeepsJobs
  <2>10. ServedIsPrepared'
    BY <1>1, <1>12, <2>9, PreparedKept DEF IInv
  <2>11. ~Building' /\ RunnerInv'
    BY <2>1 DEF Building, RunnerInv
  <2>12. TypeInv'
    BY <1>1, <1>6, <1>10, <2>1, <2>8 DEF TypeInv
  <2>. QED  BY <1>13, <1>14, <2>7, <2>10, <2>11, <2>12 DEF IInv, DualInv, CoverInv
<1>16. CASE /\ jobs[j].uuid \in {0, id}
            /\ jobs' = [jobs EXCEPT ![j].uuid = id] /\ runner' = [runner EXCEPT !.pc = "activate"]
  <2>1. PICK r : r = [jobs[j] EXCEPT !.uuid = id]
    OBVIOUS
  <2>2. jobs' = [jobs EXCEPT ![j] = r]
    BY <1>16, <2>1
  <2>3. /\ r \in Jobs /\ r.source = jobs[j].source /\ r.target = jobs[j].target /\ r.uuid = id
        /\ r.switched = jobs[j].switched /\ r.state = jobs[j].state
    BY <1>5, <1>6, <2>1 DEF Jobs
  <2>4. JobsInv'
    BY <1>1, <1>6, <2>2, <2>3, Edited
  <2>5. /\ jobs' \in Seq(Jobs) /\ DOMAIN jobs' = DOMAIN jobs /\ jobs'[j] = r
        /\ \A i \in DOMAIN jobs : i # j => jobs'[i] = jobs[i]
    BY <1>1, <2>2, <2>3, Replaced
  <2>6. /\ runner' \in RunnerRecs /\ runner'.pc = "activate" /\ runner'.j = j /\ runner'.after = 0
    BY <1>1, <1>2, <1>16, RunnerOK DEF RunnerRecs
  <2>7. ~Building' /\ RunnerInv'
    BY <1>6, <2>3, <2>5, <2>6 DEF Building, RunnerInv
  <2>8. TypeInv'
    BY <1>1, <1>6, <1>10, <2>5, <2>6 DEF TypeInv
  <2>9. ServedIsPrepared'
    <3>1. alias = 1 \/ \E i \in DOMAIN jobs : jobs[i].target = alias /\ jobs[i].uuid = index[alias].uuid
      BY DEF IInv, ServedIsPrepared
    <3>2. ASSUME NEW i \in DOMAIN jobs, jobs[i].target = alias, jobs[i].uuid = index[alias].uuid
          PROVE  jobs'[i].target = alias /\ jobs'[i].uuid = index'[alias].uuid
      <4>1. CASE i = j
        <5>1. id = jobs[j].uuid
          BY <1>12, <1>16, <3>2, <4>1
        <5>. QED  BY <1>12, <2>3, <2>5, <3>2, <4>1, <5>1
      <4>2. CASE i # j
        BY <1>12, <2>5, <3>2, <4>2
      <4>. QED  BY <4>1, <4>2
    <3>. QED  BY <1>1, <1>12, <2>5, <3>1, <3>2 DEF ServedIsPrepared
  <2>. QED  BY <1>13, <1>14, <2>4, <2>7, <2>8, <2>9 DEF IInv, DualInv, CoverInv
<1>17. \/ Give(jobs, "failed")
       \/ /\ jobs[j].uuid \in {0, id}
          /\ jobs' = [jobs EXCEPT ![j].uuid = id] /\ runner' = [runner EXCEPT !.pc = "activate"]
  <2>1. [index[v] EXCEPT !.uuid = IF @ = 0 THEN uuids + 1 ELSE @].uuid = id
    BY <1>4, <1>5 DEF Indices
  <2>. QED  BY <1>2, <1>3, <2>1 DEF Prepare
<1>. QED  BY <1>15, <1>16, <1>17

(* A step of the runner that writes nothing but the row of its job, and not *)
(* its state: what is left is the rebuild itself.                           *)
LEMMA ScanStep ==
  ASSUME IInv, UNCHANGED <<canon, index, alias, uuids, writer>>, runner.j \in DOMAIN jobs,
         jobs' \in Seq(Jobs), KeepsJobs, JobsInv', runner' \in RunnerRecs, RunnerInv', DualInv', CoverInv'
  PROVE  IInv'
<1>1. TypeInv'
  BY DEF IInv, TypeInv
<1>2. IndexInv' /\ WritersInv'
  BY DEF IInv, IndexInv, WritersInv
<1>3. ServedIsPrepared'
  BY PreparedKept DEF IInv
<1>4. ServedInv'
  BY SameOwed DEF IInv, ServedInv
<1>. QED  BY <1>1, <1>2, <1>3, <1>4 DEF IInv

(* Dual writes begin when nobody is inside the fence, and nothing is        *)
(* scanned yet.                                                             *)
LEMMA ActivateStep ==
  ASSUME IInv, Activate
  PROVE  IInv'
<1>1. /\ TypeInv /\ RunnerInv /\ runner.pc = "activate" /\ FenceFree /\ UNCHANGED <<canon, index, alias, uuids, writer>>
      /\ jobs' = [jobs EXCEPT ![runner.j].dual = TRUE] /\ runner' = [runner EXCEPT !.pc = "read"]
  BY DEF IInv, Activate
<1>2. PICK j \in DOMAIN jobs : j = runner.j
  BY <1>1 DEF RunnerInv
<1>3. PICK r : r = [jobs[j] EXCEPT !.dual = TRUE]
  OBVIOUS
<1>4. jobs' = [jobs EXCEPT ![j] = r]
  BY <1>1, <1>2, <1>3
<1>5. /\ r \in Jobs /\ r.source = jobs[j].source /\ r.target = jobs[j].target /\ r.uuid = jobs[j].uuid
      /\ r.switched = jobs[j].switched /\ r.state = jobs[j].state /\ r.dual = TRUE
  BY <1>1, <1>3, JobOK DEF Jobs
<1>6. jobs' \in Seq(Jobs) /\ KeepsJobs /\ JobsInv' /\ jobs'[j] = r /\ DOMAIN jobs' = DOMAIN jobs
  BY <1>1, <1>4, <1>5, RowStep
<1>7. runner' \in RunnerRecs /\ runner'.pc = "read" /\ runner'.j = j /\ runner'.after = 0
  BY <1>1, <1>2, RunnerOK DEF RunnerRecs, RunnerInv
<1>8. RunnerInv'
  BY <1>1, <1>2, <1>5, <1>6, <1>7 DEF RunnerInv
<1>9. DualInv'
  BY <1>1, <1>5, <1>6, <1>7 DEF DualInv, FenceFree
<1>10. CoverInv'
  <2>1. \A d \in Prs : ~Passed(d)'
    BY <1>7, ReindexAssumption DEF Passed
  <2>. QED  BY <2>1 DEF CoverInv
<1>. QED  BY <1>1, <1>2, <1>6, <1>7, <1>8, <1>9, <1>10, ScanStep

(* The next snapshot is read: the ones that are skipped have no row yet.    *)
LEMMA ReadRowStep ==
  ASSUME IInv, ReadRow
  PROVE  IInv'
<1>1. /\ TypeInv /\ JobsInv /\ RunnerInv /\ runner.pc = "read" /\ UNCHANGED <<canon, index, alias, uuids, writer>>
      /\ runner.j \in DOMAIN jobs /\ runner.after \in Nat /\ canon \in [Prs -> Nat]
  BY RunnerOK DEF IInv, ReadRow, RunnerInv, TypeInv
<1>2. PICK j \in DOMAIN jobs : j = runner.j
  BY <1>1
<1>. DEFINE rest == {d \in Prs : d > runner.after /\ canon[d] > 0}
<1>3. ASSUME Building, Ours, NEW d \in Prs, d <= runner.after \/ d \notin rest
      PROVE  index[Target].docs[d] = canon[d] \/ Owed(d, {"want", "in", "mirror", "failed"})
  <2>1. CASE d <= runner.after
    <3>1. Covered(d)
      BY <1>1, <1>3, <2>1 DEF IInv, CoverInv, Passed
    <3>. QED  BY <1>1, <3>1 DEF Covered, InHand
  <2>2. CASE ~(d <= runner.after)
    <3>1. d \in Nat /\ canon[d] \in Nat
      BY <1>1, ConstOK
    <3>2. canon[d] = 0
      BY <1>1, <1>3, <2>2, <3>1
    <3>3. Target \in Slots
      BY <1>3, BuildingOK
    <3>4. index[Target].docs[d] \in Nat /\ index[Target].docs[d] <= canon[d]
      BY <1>1, <3>3, IndexOK DEF IInv, IndexInv
    <3>. QED  BY <3>2, <3>4
  <2>. QED  BY <2>1, <2>2
<1>4. CASE /\ rest = {}
           /\ jobs' = [jobs EXCEPT ![runner.j].scanned = TRUE] /\ runner' = [runner EXCEPT !.pc = "verify"]
  <2>1. PICK r : r = [jobs[j] EXCEPT !.scanned = TRUE]
    OBVIOUS
  <2>2. jobs' = [jobs EXCEPT ![j] = r]
    BY <1>2, <1>4, <2>1
  <2>3. /\ r \in Jobs /\ r.source = jobs[j].source /\ r.target = jobs[j].target /\ r.uuid = jobs[j].uuid
        /\ r.switched = jobs[j].switched /\ r.state = jobs[j].state /\ r.dual = jobs[j].dual
    BY <1>1, <2>1, JobOK DEF Jobs
  <2>4. jobs' \in Seq(Jobs) /\ KeepsJobs /\ JobsInv' /\ jobs'[j] = r /\ DOMAIN jobs' = DOMAIN jobs
    BY <1>1, <2>2, <2>3, RowStep
  <2>5. runner' \in RunnerRecs /\ runner'.pc = "verify" /\ runner'.j = j
    BY <1>1, <1>2, <1>4, RunnerOK DEF RunnerRecs
  <2>6. RunnerInv'
    BY <1>1, <1>2, <2>3, <2>4, <2>5 DEF RunnerInv
  <2>7. Target' = Target /\ (Building' => Building) /\ (Ours' => Ours) /\ jobs'[j].dual = jobs[runner.j].dual
    BY <1>1, <1>2, <2>3, <2>4, <2>5 DEF Building, Ours, Target
  <2>8. DualInv'
    BY <1>1, <2>5, <2>7 DEF IInv, DualInv
  <2>9. CoverInv'
    <3>. SUFFICES ASSUME Building', Ours', NEW d \in Prs PROVE Covered(d)'
      BY DEF CoverInv
    <3>1. index[Target].docs[d] = canon[d] \/ Owed(d, {"want", "in", "mirror", "failed"})
      BY <1>3, <1>4, <2>7
    <3>. QED  BY <1>1, <2>7, <3>1, SameOwed DEF Covered
  <2>. QED  BY <1>1, <2>4, <2>5, <2>6, <2>8, <2>9, ScanStep
<1>5. ASSUME NEW n \in rest, \A x \in rest : n <= x, UNCHANGED jobs,
             runner' = [runner EXCEPT !.pc = "write", !.row = <<n, canon[n]>>]
      PROVE  IInv'
  <2>1. n \in Prs /\ n \in Nat /\ canon[n] \in Nat
    BY <1>1, <1>5, ConstOK
  <2>2. runner' \in RunnerRecs /\ runner'.pc = "write" /\ runner'.j = j /\ runner'.row = <<n, canon[n]>>
    BY <1>1, <1>2, <1>5, <2>1, RunnerOK DEF RunnerRecs
  <2>3. jobs' \in Seq(Jobs) /\ KeepsJobs /\ JobsInv'
    BY <1>1, <1>5 DEF TypeInv, KeepsJobs, JobsInv
  <2>4. RunnerInv'
    BY <1>1, <1>2, <1>5, <2>1, <2>2 DEF RunnerInv
  <2>5. Target' = Target /\ (Building' => Building) /\ (Ours' => Ours)
    BY <1>1, <1>2, <1>5, <2>2 DEF Building, Ours, Target
  <2>6. DualInv'
    BY <1>1, <1>2, <1>5, <2>2, <2>5 DEF IInv, DualInv
  <2>7. CoverInv'
    <3>. SUFFICES ASSUME Building', Ours', NEW d \in Prs, Passed(d)' PROVE Covered(d)'
      BY DEF CoverInv
    <3>1. d <= n /\ d \in Nat
      BY <2>2, ConstOK DEF Passed
    <3>2. CASE d = n
      BY <1>1, <2>2, <3>2 DEF Covered, InHand
    <3>3. CASE d # n
      <4>1. d \notin rest
        BY <1>5, <2>1, <3>1, <3>3
      <4>2. index[Target].docs[d] = canon[d] \/ Owed(d, {"want", "in", "mirror", "failed"})
        BY <1>3, <2>5, <4>1
      <4>. QED  BY <1>1, <2>5, <4>2, SameOwed DEF Covered
    <3>. QED  BY <3>2, <3>3
  <2>. QED  BY <1>1, <2>2, <2>3, <2>4, <2>6, <2>7, ScanStep
<1>. QED  BY <1>1, <1>4, <1>5 DEF ReadRow

LEMMA VerifyStep ==
  ASSUME IInv, Verify
  PROVE  IInv'
<1>1. /\ TypeInv /\ JobsInv /\ RunnerInv /\ runner.pc = "verify" /\ UNCHANGED <<canon, index, alias, uuids, writer>>
      /\ runner.j \in DOMAIN jobs
  BY DEF IInv, Verify, RunnerInv
<1>2. CASE Give(jobs, "failed")
  BY <1>1, <1>2, GiveStep DEF Give
<1>3. CASE runner' = [runner EXCEPT !.pc = "cutover"] /\ UNCHANGED jobs
  <2>1. runner' \in RunnerRecs /\ runner'.pc = "cutover" /\ runner'.j = runner.j
    BY <1>1, <1>3, RunnerOK DEF RunnerRecs
  <2>2. jobs' \in Seq(Jobs) /\ KeepsJobs /\ JobsInv'
    BY <1>1, <1>3 DEF TypeInv, KeepsJobs, JobsInv
  <2>3. RunnerInv'
    BY <1>1, <1>3, <2>1 DEF RunnerInv
  <2>4. Target' = Target /\ (Building' => Building) /\ (Ours' => Ours)
    BY <1>1, <1>3, <2>1 DEF Building, Ours, Target
  <2>5. DualInv'
    BY <1>1, <1>3, <2>1, <2>4 DEF IInv, DualInv
  <2>6. CoverInv'
    <3>. SUFFICES ASSUME Building', Ours', NEW d \in Prs PROVE Covered(d)'
      BY DEF CoverInv
    <3>1. Covered(d)
      BY <1>1, <2>4 DEF IInv, CoverInv, Passed
    <3>. QED  BY <1>1, <2>4, <3>1, SameOwed DEF Covered, InHand
  <2>. QED  BY <1>1, <2>1, <2>2, <2>3, <2>5, <2>6, ScanStep
<1>. QED  BY <1>2, <1>3 DEF Verify

(* The cutover: the rebuild still goes on and its target is its own, nobody *)
(* is inside the fence, so that what the target lacks is with a writer that *)
(* has not come in yet.                                                     *)
LEMMA CutoverStep ==
  ASSUME IInv, Cutover
  PROVE  IInv'
<1>1. /\ TypeInv /\ JobsInv /\ RunnerInv /\ IndexInv /\ runner.pc = "cutover" /\ FenceFree
      /\ UNCHANGED <<canon, index, uuids, writer>> /\ runner.j \in DOMAIN jobs
  BY DEF IInv, Cutover, RunnerInv
<1>2. CASE Give(jobs, "failed") /\ UNCHANGED alias
  BY <1>1, <1>2, GiveStep DEF Give
<1>3. CASE /\ jobs[runner.j].state = "running" /\ Ours /\ alias = jobs[runner.j].source
           /\ alias' = Target /\ runner' = [runner EXCEPT !.pc = "record"] /\ UNCHANGED jobs
  <2>1. Building
    BY <1>1, <1>3 DEF Building
  <2>2. /\ Target \in Slots /\ alias < Target /\ jobs[runner.j].uuid # 0 /\ alias \in Nat /\ Target \in Nat
    BY <1>1, <2>1, BuildingOK, ConstOK DEF TypeInv
  <2>3. runner' \in RunnerRecs /\ runner'.pc = "record" /\ runner'.j = runner.j
    BY <1>1, <1>3, RunnerOK DEF RunnerRecs
  <2>4. TypeInv'
    BY <1>1, <1>3, <2>2, <2>3 DEF TypeInv
  <2>5. JobsInv'
    <3>1. ASSUME NEW j \in DOMAIN jobs
          PROVE  /\ jobs[j].source < jobs[j].target /\ jobs[j].source <= Target /\ jobs[j].uuid <= uuids
                 /\ jobs[j].switched => jobs[j].target <= Target
      <4>1. jobs[j].source \in Nat /\ jobs[j].target \in Nat
        BY <1>1, JobOK
      <4>. QED  BY <1>1, <2>2, <4>1 DEF JobsInv
    <3>. QED  BY <1>1, <1>3, <3>1 DEF JobsInv
  <2>6. IndexInv'
    BY <1>1, <1>3, <2>2 DEF IndexInv, Ours
  <2>7. WritersInv' /\ RunnerInv'
    BY <1>1, <1>3, <2>3 DEF IInv, WritersInv, RunnerInv, Target
  <2>8. ~Building'
    BY <2>3 DEF Building
  <2>9. ServedInv'
    <3>. SUFFICES ASSUME NEW d \in Prs PROVE index[Target].docs[d] = canon[d] \/ Owed(d, {"want", "in"})'
      BY <1>1, <1>3 DEF ServedInv
    <3>1. Covered(d)
      BY <1>1, <1>3, <2>1 DEF IInv, CoverInv, Passed
    <3>2. index[Target].docs[d] = canon[d] \/ Owed(d, {"want", "in"})
      BY <1>1, <3>1 DEF Covered, InHand, Owed, FenceFree
    <3>. QED  BY <1>1, <3>2, SameOwed
  <2>10. ServedIsPrepared'
    BY <1>1, <1>3, <2>2 DEF ServedIsPrepared, Ours, Target
  <2>. QED  BY <2>4, <2>5, <2>6, <2>7, <2>8, <2>9, <2>10 DEF IInv, DualInv, CoverInv
<1>. QED  BY <1>2, <1>3 DEF Cutover, Ours, Target

(* An index other than the served one is deleted.                           *)
LEMMA DeleteStep ==
  ASSUME IInv, UNCHANGED <<canon, alias, uuids, writer, runner>>, NEW v \in Slots, v # alias,
         index' = [index EXCEPT ![v] = NoIndex],
         jobs' \in Seq(Jobs), KeepsJobs, JobsInv',
         \A j \in DOMAIN jobs : jobs'[j].state = jobs[j].state /\ jobs'[j].dual = jobs[j].dual
  PROVE  IInv'
<1>1. TypeInv /\ IndexInv /\ uuids \in Nat /\ canon \in [Prs -> Nat] /\ alias \in Slots
  BY DEF IInv, TypeInv
<1>2. NoIndex \in Indices /\ NoIndex.uuid = 0 /\ \A d \in Prs : NoIndex.docs[d] = 0
  <2>1. Empty \in [Prs -> Nat] /\ \A d \in Prs : Empty[d] = 0
    BY <1>1 DEF Empty
  <2>. QED  BY <2>1 DEF NoIndex, Indices
<1>3. /\ index' \in [Slots -> Indices] /\ index'[v] = NoIndex /\ \A u \in Slots : u # v => index'[u] = index[u]
      /\ index'[alias] = index[alias]
  BY <1>1, <1>2 DEF TypeInv
<1>4. TypeInv'
  BY <1>1, <1>3 DEF TypeInv
<1>5. IndexInv'
  <2>1. ASSUME NEW u \in Slots PROVE index'[u].uuid <= uuids /\ \A d \in Prs : index'[u].docs[d] <= canon[d]
    <3>1. CASE u = v
      <4>1. index'[u].uuid = 0 /\ \A d \in Prs : index'[u].docs[d] = 0 /\ canon[d] \in Nat
        BY <1>1, <1>2, <1>3, <3>1
      <4>. QED  BY <1>1, <4>1
    <3>2. CASE u # v
      BY <1>1, <1>3, <3>2 DEF IndexInv
    <3>. QED  BY <3>1, <3>2
  <2>. QED  BY <1>1, <1>3, <2>1 DEF IndexInv
<1>6. WritersInv' /\ RunnerInv'
  BY <1>1, SameRunnerInv DEF IInv, WritersInv
<1>7. ServedInv' /\ ServedIsPrepared'
  BY <1>3, SameOwed, PreparedKept DEF IInv, ServedInv
<1>8. ASSUME Building'
      PROVE  Building /\ Target' = Target /\ jobs'[runner.j].uuid = jobs[runner.j].uuid /\ runner.j \in DOMAIN jobs
  BY <1>8, SameRunner
<1>9. DualInv'
  BY <1>8 DEF IInv, DualInv
<1>10. CoverInv'
  <2>. SUFFICES ASSUME Building', Ours', NEW d \in Prs, Passed(d)' PROVE Covered(d)'
    BY DEF CoverInv
  <2>1. Target \in Slots /\ jobs[runner.j].uuid # 0
    BY <1>8, BuildingOK
  <2>2. Target # v
    BY <1>2, <1>3, <1>8, <2>1 DEF Ours
  <2>3. index'[Target] = index[Target]
    BY <1>3, <2>1, <2>2
  <2>4. Covered(d)
    BY <1>8, <2>3 DEF IInv, CoverInv, Ours, Passed
  <2>. QED  BY <1>8, <2>3, <2>4, SameOwed DEF Covered, InHand
<1>. QED  BY <1>4, <1>5, <1>6, <1>7, <1>9, <1>10 DEF IInv

LEMMA TargetDeletedStep ==
  ASSUME IInv, NEW j \in DOMAIN jobs, TargetDeleted(j)
  PROVE  IInv'
<1>1. TypeInv /\ JobsInv /\ jobs[j].target \in Slots
  BY JobOK DEF IInv
<1>2. PICK v \in Slots : v = jobs[j].target
  BY <1>1
<1>3. /\ UNCHANGED <<canon, alias, uuids, writer, runner, jobs>> /\ v # alias
      /\ index' = [index EXCEPT ![v] = NoIndex]
  BY <1>2 DEF TargetDeleted
<1>4. jobs' \in Seq(Jobs) /\ KeepsJobs /\ JobsInv'
  BY <1>1, <1>3 DEF TypeInv, KeepsJobs, JobsInv
<1>. QED  BY <1>3, <1>4, DeleteStep

LEMMA RetireStep ==
  ASSUME IInv, NEW j \in DOMAIN jobs, Retire(j)
  PROVE  IInv'
<1>1. TypeInv /\ JobsInv /\ jobs[j].source \in Slots
  BY JobOK DEF IInv
<1>2. PICK v \in Slots : v = jobs[j].source
  BY <1>1
<1>3. /\ UNCHANGED <<canon, alias, uuids, writer, runner>> /\ v # alias
      /\ index' = [index EXCEPT ![v] = NoIndex] /\ jobs' = [jobs EXCEPT ![j].retired = TRUE]
  BY <1>2 DEF Retire
<1>4. PICK r : r = [jobs[j] EXCEPT !.retired = TRUE]
  OBVIOUS
<1>5. jobs' = [jobs EXCEPT ![j] = r]
  BY <1>3, <1>4
<1>6. /\ r \in Jobs /\ r.source = jobs[j].source /\ r.target = jobs[j].target /\ r.uuid = jobs[j].uuid
      /\ r.switched = jobs[j].switched /\ r.state = jobs[j].state /\ r.dual = jobs[j].dual
  BY <1>1, <1>4, JobOK DEF Jobs
<1>7. /\ jobs' \in Seq(Jobs) /\ DOMAIN jobs' = DOMAIN jobs /\ jobs'[j] = r
      /\ \A i \in DOMAIN jobs : i # j => jobs'[i] = jobs[i]
  BY <1>1, <1>5, <1>6, Replaced
<1>8. uuids' \in Nat /\ uuids <= uuids' /\ r.uuid <= uuids'
  BY <1>1, <1>3, <1>6 DEF TypeInv, JobsInv
<1>9. JobsInv'
  BY <1>1, <1>3, <1>5, <1>6, <1>8, Edited
<1>10. KeepsJobs /\ \A i \in DOMAIN jobs : jobs'[i].state = jobs[i].state /\ jobs'[i].dual = jobs[i].dual
  BY <1>6, <1>7 DEF KeepsJobs
<1>. QED  BY <1>3, <1>7, <1>9, <1>10, DeleteStep

----------------------------------------------------------------------------
(* Writes to the indices.                                                   *)

(* Documents grow up to the snapshots; an index that was gone gets a UUID   *)
(* nobody had.                                                              *)
Grown ==
  /\ index' \in [Slots -> Indices] /\ uuids' \in Nat /\ uuids <= uuids'
  /\ \A v \in Slots :
       /\ \A d \in Prs : index[v].docs[d] <= index'[v].docs[d] /\ index'[v].docs[d] <= canon[d]
       /\ \/ index'[v].uuid = index[v].uuid
          \/ index[v].uuid = 0 /\ index'[v].uuid = uuids + 1 /\ uuids' = uuids + 1

LEMMA WriteGrows ==
  ASSUME IInv, NEW v \in Slots, NEW d \in Prs, NEW ver \in Nat, ver <= canon[d],
         index' = Write(index, v, d, ver), uuids' = Created(v)
  PROVE  Grown /\ ver <= index'[v].docs[d]
<1>1. TypeInv /\ IndexInv /\ v # 0 /\ index \in [Slots -> Indices] /\ uuids \in Nat
  BY ConstOK DEF IInv, TypeInv
<1>2. /\ index' \in [Slots -> Indices]
      /\ \A u \in Slots : u # v => index'[u] = index[u]
      /\ index'[v].uuid = IF index[v].uuid = 0 THEN uuids + 1 ELSE index[v].uuid
      /\ \A x \in Prs : x # d => index'[v].docs[x] = index[v].docs[x]
      /\ index'[v].docs[d] = IF ver > index[v].docs[d] THEN ver ELSE index[v].docs[d]
  BY <1>1, WriteOK
<1>3. uuids' = IF index[v].uuid = 0 THEN uuids + 1 ELSE uuids
  BY <1>1 DEF Created
<1>4. uuids' \in Nat /\ uuids <= uuids'
  BY <1>1, <1>3
<1>5. \A u \in Slots, x \in Prs : index[u].docs[x] \in Nat /\ canon[x] \in Nat /\ index[u].docs[x] <= canon[x]
  BY <1>1, IndexOK DEF IndexInv
<1>6. ASSUME NEW u \in Slots, NEW x \in Prs
      PROVE  index[u].docs[x] <= index'[u].docs[x] /\ index'[u].docs[x] <= canon[x]
  <2>1. CASE u = v /\ x = d
    BY <1>2, <1>5, <2>1
  <2>2. CASE u # v \/ x # d
    <3>1. index'[u].docs[x] = index[u].docs[x]
      BY <1>2, <2>2
    <3>. QED  BY <1>5, <3>1
  <2>. QED  BY <2>1, <2>2
<1>7. ASSUME NEW u \in Slots
      PROVE  \/ index'[u].uuid = index[u].uuid
             \/ index[u].uuid = 0 /\ index'[u].uuid = uuids + 1 /\ uuids' = uuids + 1
  BY <1>2, <1>3
<1>8. ver <= index'[v].docs[d]
  BY <1>2, <1>5
<1>. QED  BY <1>2, <1>4, <1>6, <1>7, <1>8 DEF Grown

LEMMA SameGrows ==
  ASSUME IInv, UNCHANGED <<index, uuids>>
  PROVE  Grown
<1>1. TypeInv /\ IndexInv
  BY DEF IInv
<1>2. \A u \in Slots, x \in Prs : index[u].docs[x] \in Nat /\ canon[x] \in Nat /\ index[u].docs[x] <= canon[x]
  BY <1>1, IndexOK DEF IndexInv
<1>3. index' \in [Slots -> Indices] /\ uuids' \in Nat /\ uuids <= uuids'
  BY <1>1 DEF TypeInv
<1>. QED  BY <1>2, <1>3 DEF Grown

(* What a write leaves as it was: nothing that was in an index at its       *)
(* newest version is lost, and a target that is not the one prepared does   *)
(* not become it.                                                           *)
LEMMA GrownOK ==
  ASSUME IInv, Grown, canon' = canon, alias' = alias, KeepsJobs
  PROVE  /\ IndexInv' /\ ServedIsPrepared'
         /\ \A v \in Slots, d \in Prs : index[v].docs[d] = canon[d] => index'[v].docs[d] = canon[d]
         /\ \A v \in Slots, d \in Prs : canon[d] <= index'[v].docs[d] => index'[v].docs[d] = canon[d]
         /\ Building /\ index'[Target].uuid = jobs[runner.j].uuid => Ours
<1>1. TypeInv /\ IndexInv /\ alias \in Slots /\ uuids \in Nat /\ uuids' \in Nat /\ uuids <= uuids' /\ index[alias].uuid # 0
  BY DEF IInv, TypeInv, IndexInv, Grown
<1>2. \A v \in Slots, d \in Prs : /\ index[v].docs[d] \in Nat /\ canon[d] \in Nat /\ index'[v].docs[d] \in Nat
                                  /\ index[v].docs[d] <= index'[v].docs[d] /\ index'[v].docs[d] <= canon[d]
  <2>1. \A v \in Slots, d \in Prs : index'[v].docs[d] \in Nat
    BY DEF Grown, Indices
  <2>. QED  BY <1>1, <2>1, IndexOK DEF Grown
<1>3. index'[alias].uuid = index[alias].uuid
  BY <1>1 DEF Grown
<1>4. IndexInv'
  <2>1. ASSUME NEW v \in Slots PROVE index'[v].uuid <= uuids'
    <3>1. index[v].uuid \in Nat /\ index[v].uuid <= uuids
      BY <1>1 DEF IndexInv, TypeInv, Indices
    <3>. QED  BY <1>1, <3>1 DEF Grown
  <2>. QED  BY <1>1, <1>2, <1>3, <2>1 DEF IndexInv
<1>5. ServedIsPrepared'
  BY <1>3, PreparedKept DEF IInv
<1>6. ASSUME Building, index'[Target].uuid = jobs[runner.j].uuid PROVE Ours
  <2>1. Target \in Slots /\ jobs[runner.j].uuid \in Nat /\ jobs[runner.j].uuid <= uuids
    BY <1>6, BuildingOK
  <2>2. index'[Target].uuid # uuids + 1
    BY <1>1, <1>6, <2>1
  <2>. QED  BY <1>6, <2>1, <2>2 DEF Grown, Ours
<1>. QED  BY <1>2, <1>4, <1>5, <1>6

(* A step of one writer, after which it still has what it had or is idle.   *)
(* It may let go of a pull request only when the indices have it.           *)
LEMMA WriterStep ==
  ASSUME IInv, NEW w \in Writers, Grown, UNCHANGED <<canon, alias, runner>>,
         writer' \in [Writers -> WriterRecs], \A u \in Writers : u # w => writer'[u] = writer[u],
         \/ writer'[w].pc = "idle"
         \/ writer[w].pc # "idle" /\ writer'[w].d = writer[w].d /\ writer'[w].v = writer[w].v,
         jobs' \in Seq(Jobs), KeepsJobs, JobsInv',
         \A j \in DOMAIN jobs : jobs'[j].state = "running" => jobs[j].state = "running" /\ jobs'[j].dual = jobs[j].dual,
         Building /\ writer'[w].pc \in {"in", "mirror"} => writer'[w].shadow = Target,
         writer[w].pc \in {"want", "in"} =>
           \/ writer'[w].pc \in {"want", "in"} \/ writer[w].v <= index'[alias].docs[writer[w].d],
         writer[w].pc \in {"want", "in", "mirror", "failed"} /\ Building' /\ Building =>
           \/ writer'[w].pc \in {"want", "in", "mirror", "failed"} \/ writer[w].v <= index'[Target].docs[writer[w].d]
  PROVE  IInv'
<1>1. TypeInv'
  BY DEF IInv, TypeInv, Grown
<1>2. /\ IndexInv' /\ ServedIsPrepared'
      /\ \A v \in Slots, d \in Prs : index[v].docs[d] = canon[d] => index'[v].docs[d] = canon[d]
      /\ \A v \in Slots, d \in Prs : canon[d] <= index'[v].docs[d] => index'[v].docs[d] = canon[d]
      /\ Building /\ index'[Target].uuid = jobs[runner.j].uuid => Ours
  BY GrownOK
<1>3. WritersInv'
  <2>. SUFFICES ASSUME NEW u \in Writers, writer'[u].pc # "idle"
                PROVE  writer'[u].d \in Prs /\ writer'[u].v <= canon[writer'[u].d]
    BY DEF WritersInv
  <2>1. CASE u = w
    BY <2>1 DEF IInv, WritersInv
  <2>2. CASE u # w
    BY <2>2 DEF IInv, WritersInv
  <2>. QED  BY <2>1, <2>2
<1>4. RunnerInv'
  BY SameRunnerInv DEF IInv, TypeInv
<1>5. ASSUME NEW d \in Prs, NEW P, Owed(d, P)
      PROVE  Owed(d, P)' \/ (writer[w].pc \in P /\ writer[w].d = d /\ writer[w].v = canon[d])
  BY <1>5 DEF Owed
<1>6. ServedInv'
  <2>. SUFFICES ASSUME NEW d \in Prs PROVE index'[alias].docs[d] = canon[d] \/ Owed(d, {"want", "in"})'
    BY DEF ServedInv
  <2>0. alias \in Slots
    BY DEF IInv, TypeInv
  <2>1. CASE index[alias].docs[d] = canon[d]
    BY <1>2, <2>0, <2>1
  <2>2. CASE writer[w].pc \in {"want", "in"} /\ writer[w].d = d /\ writer[w].v = canon[d]
    <3>1. CASE writer'[w].pc \in {"want", "in"}
      BY <2>2, <3>1 DEF Owed
    <3>2. CASE writer[w].v <= index'[alias].docs[writer[w].d]
      BY <1>2, <2>0, <2>2, <3>2
    <3>. QED  BY <2>2, <3>1, <3>2
  <2>. QED  BY <1>5, <2>1, <2>2 DEF IInv, ServedInv
<1>7. ASSUME Building'
      PROVE  /\ Building /\ Target' = Target /\ jobs'[runner.j].uuid = jobs[runner.j].uuid
             /\ jobs'[runner.j].dual = jobs[runner.j].dual /\ Target \in Slots
  <2>1. Building /\ Target' = Target /\ jobs'[runner.j].uuid = jobs[runner.j].uuid /\ runner.j \in DOMAIN jobs
    BY <1>7, SameRunner
  <2>. QED  BY <1>7, <2>1, BuildingOK DEF Building
<1>8. DualInv'
  <2>. SUFFICES ASSUME Building', NEW u \in Writers
                PROVE  jobs'[runner.j].dual /\ (writer'[u].pc \in {"in", "mirror"} => writer'[u].shadow = Target)
    BY <1>7 DEF DualInv
  <2>1. CASE u = w
    BY <1>7, <2>1 DEF IInv, DualInv
  <2>2. CASE u # w
    BY <1>7, <2>2 DEF IInv, DualInv
  <2>. QED  BY <2>1, <2>2
<1>9. CoverInv'
  <2>. SUFFICES ASSUME Building', Ours', NEW d \in Prs, Passed(d)' PROVE Covered(d)'
    BY DEF CoverInv
  <2>1. Building /\ Ours /\ Passed(d) /\ Target' = Target /\ Target \in Slots
    BY <1>2, <1>7 DEF Ours, Passed
  <2>2. Covered(d)
    BY <2>1 DEF IInv, CoverInv
  <2>3. CASE index[Target].docs[d] = canon[d]
    BY <1>2, <2>1, <2>3 DEF Covered
  <2>4. CASE InHand(d)
    BY <2>4 DEF Covered, InHand
  <2>5. CASE writer[w].pc \in {"want", "in", "mirror", "failed"} /\ writer[w].d = d /\ writer[w].v = canon[d]
    <3>1. CASE writer'[w].pc \in {"want", "in", "mirror", "failed"}
      BY <2>5, <3>1 DEF Owed, Covered
    <3>2. CASE writer[w].v <= index'[Target].docs[writer[w].d]
      BY <1>2, <2>1, <2>5, <3>2 DEF Covered
    <3>. QED  BY <2>1, <2>5, <3>1, <3>2
  <2>. QED  BY <1>5, <2>2, <2>3, <2>4, <2>5 DEF Covered
<1>. QED  BY <1>1, <1>2, <1>3, <1>4, <1>6, <1>8, <1>9 DEF IInv

(* The jobs do not change.                                                  *)
LEMMA SameJobs ==
  ASSUME IInv, jobs' = jobs, alias' = alias, uuids' \in Nat, uuids <= uuids'
  PROVE  /\ jobs' \in Seq(Jobs) /\ KeepsJobs /\ JobsInv'
         /\ \A j \in DOMAIN jobs : jobs'[j].state = "running" => jobs[j].state = "running" /\ jobs'[j].dual = jobs[j].dual
<1>1. TypeInv /\ JobsInv /\ uuids \in Nat
  BY DEF IInv, TypeInv
<1>2. \A j \in DOMAIN jobs : jobs[j].uuid \in Nat /\ jobs[j].uuid <= uuids
  BY <1>1, JobOK DEF JobsInv
<1>3. \A j \in DOMAIN jobs : jobs[j].uuid <= uuids'
  BY <1>1, <1>2
<1>. QED  BY <1>1, <1>3 DEF TypeInv, KeepsJobs, JobsInv

(* A writer moves: its row after the step.                                  *)
LEMMA Moved ==
  ASSUME TypeInv, NEW w \in Writers, NEW pc \in {"want", "in", "mirror", "failed", "leave"}, NEW sh \in Slots \cup {0},
         writer' = [writer EXCEPT ![w] = [writer[w] EXCEPT !.pc = pc, !.shadow = sh]]
  PROVE  /\ writer' \in [Writers -> WriterRecs] /\ \A u \in Writers : u # w => writer'[u] = writer[u]
         /\ writer'[w].pc = pc /\ writer'[w].shadow = sh /\ writer'[w].d = writer[w].d /\ writer'[w].v = writer[w].v
<1>1. writer[w] \in WriterRecs
  BY WriterOK
<1>2. PICK r : r = [writer[w] EXCEPT !.pc = pc, !.shadow = sh]
  OBVIOUS
<1>3. r \in WriterRecs /\ r.pc = pc /\ r.shadow = sh /\ r.d = writer[w].d /\ r.v = writer[w].v
  BY <1>1, <1>2 DEF WriterRecs
<1>. QED  BY <1>2, <1>3 DEF TypeInv

LEMMA CommitStep ==
  ASSUME IInv, NEW w \in Writers, NEW d \in Prs, Commit(w, d)
  PROVE  IInv'
<1>1. /\ TypeInv /\ IndexInv /\ writer[w].pc = "idle" /\ canon[d] \in Nat /\ canon \in [Prs -> Nat]
      /\ canon' = [canon EXCEPT ![d] = canon[d] + 1]
      /\ writer' = [writer EXCEPT ![w] = [pc |-> "want", d |-> d, v |-> canon[d] + 1, shadow |-> 0]]
      /\ UNCHANGED <<index, alias, uuids, jobs, runner>>
  BY DEF IInv, TypeInv, Commit
<1>2. [pc |-> "want", d |-> d, v |-> canon[d] + 1, shadow |-> 0] \in WriterRecs
  BY <1>1 DEF WriterRecs
<1>3. /\ writer' \in [Writers -> WriterRecs] /\ \A u \in Writers : u # w => writer'[u] = writer[u]
      /\ writer'[w].pc = "want" /\ writer'[w].d = d /\ writer'[w].v = canon[d] + 1
  BY <1>1, <1>2 DEF TypeInv
<1>4. /\ canon' \in [Prs -> Nat] /\ canon'[d] = canon[d] + 1 /\ \A x \in Prs : x # d => canon'[x] = canon[x]
  BY <1>1
<1>5. \A x \in Prs : canon[x] \in Nat /\ canon[x] <= canon'[x] /\ canon'[x] \in Nat
  BY <1>1, <1>4
<1>6. TypeInv' /\ KeepsJobs
  BY <1>1, <1>3, <1>4 DEF TypeInv, KeepsJobs
<1>7. JobsInv'
  BY <1>1 DEF IInv, JobsInv
<1>8. IndexInv'
  <2>1. ASSUME NEW v \in Slots, NEW x \in Prs PROVE index[v].docs[x] <= canon'[x]
    <3>1. index[v].docs[x] \in Nat /\ index[v].docs[x] <= canon[x]
      BY <1>1, IndexOK DEF IndexInv
    <3>. QED  BY <1>5, <3>1
  <2>. QED  BY <1>1, <2>1 DEF IndexInv
<1>9. WritersInv'
  <2>. SUFFICES ASSUME NEW u \in Writers, writer'[u].pc # "idle"
                PROVE  writer'[u].d \in Prs /\ writer'[u].v <= canon'[writer'[u].d]
    BY DEF WritersInv
  <2>1. CASE u = w
    BY <1>3, <1>4, <2>1
  <2>2. CASE u # w
    <3>1. writer'[u] = writer[u] /\ writer[u].d \in Prs /\ writer[u].v <= canon[writer[u].d] /\ writer[u].v \in Nat
      BY <1>1, <1>3, <2>2, WriterOK DEF IInv, WritersInv
    <3>. QED  BY <1>5, <3>1
  <2>. QED  BY <2>1, <2>2
<1>10. RunnerInv'
  BY <1>1, <1>5, <1>6, SameRunnerInv
<1>11. ServedIsPrepared'
  BY <1>1 DEF IInv, ServedIsPrepared
<1>12. Owed(d, {"want", "in"})' /\ Owed(d, {"want", "in", "mirror", "failed"})'
  BY <1>3, <1>4 DEF Owed
<1>13. ASSUME NEW x \in Prs, x # d, NEW P \in SUBSET {"want", "in", "mirror", "failed"}, Owed(x, P)
       PROVE  Owed(x, P)'
  <2>1. PICK u \in Writers : writer[u].pc \in P /\ writer[u].d = x /\ writer[u].v = canon[x]
    BY <1>13 DEF Owed
  <2>2. u # w
    BY <1>1, <2>1
  <2>. QED  BY <1>3, <1>4, <1>13, <2>1, <2>2 DEF Owed
<1>14. ServedInv'
  <2>. SUFFICES ASSUME NEW x \in Prs, x # d PROVE index[alias].docs[x] = canon'[x] \/ Owed(x, {"want", "in"})'
    BY <1>1, <1>12 DEF ServedInv
  <2>. QED  BY <1>4, <1>13 DEF IInv, ServedInv
<1>15. (Building' <=> Building) /\ Target' = Target /\ (Ours' <=> Ours)
  BY <1>1 DEF Building, Target, Ours
<1>16. DualInv'
  BY <1>1, <1>3, <1>15 DEF IInv, DualInv
<1>17. CoverInv'
  <2>. SUFFICES ASSUME Building', Ours', NEW x \in Prs, x # d, Passed(x)' PROVE Covered(x)'
    BY <1>12 DEF CoverInv, Covered
  <2>1. Covered(x)
    BY <1>1, <1>15 DEF IInv, CoverInv, Passed
  <2>. QED  BY <1>1, <1>4, <1>13, <1>15, <2>1 DEF Covered, InHand
<1>. QED  BY <1>6, <1>7, <1>8, <1>9, <1>10, <1>11, <1>14, <1>16, <1>17 DEF IInv
LEMMA MovedOn ==
  ASSUME TypeInv, NEW w \in Writers, NEW pc \in {"want", "in", "mirror", "failed", "leave"},
         writer' = [writer EXCEPT ![w] = [writer[w] EXCEPT !.pc = pc]]
  PROVE  /\ writer' \in [Writers -> WriterRecs] /\ \A u \in Writers : u # w => writer'[u] = writer[u]
         /\ writer'[w].pc = pc /\ writer'[w].shadow = writer[w].shadow
         /\ writer'[w].d = writer[w].d /\ writer'[w].v = writer[w].v
<1>1. writer[w] \in WriterRecs
  BY WriterOK
<1>2. PICK r : r = [writer[w] EXCEPT !.pc = pc]
  OBVIOUS
<1>3. r \in WriterRecs /\ r.pc = pc /\ r.shadow = writer[w].shadow /\ r.d = writer[w].d /\ r.v = writer[w].v
  BY <1>1, <1>2 DEF WriterRecs
<1>. QED  BY <1>2, <1>3 DEF TypeInv

(* What a writer that is not idle has in hand.                              *)
LEMMA Holding ==
  ASSUME IInv, NEW w \in Writers, writer[w].pc # "idle"
  PROVE  writer[w].d \in Prs /\ writer[w].v \in Nat /\ writer[w].v <= canon[writer[w].d] /\ TypeInv
BY WriterOK DEF IInv, WritersInv

LEMMA EnterStep ==
  ASSUME IInv, NEW w \in Writers, Enter(w)
  PROVE  IInv'
<1>1. /\ TypeInv /\ writer[w].pc = "want" /\ uuids \in Nat
      /\ writer' = [writer EXCEPT ![w].pc = "in", ![w].shadow = Shadow]
      /\ UNCHANGED <<canon, index, alias, uuids, jobs, runner>>
  BY DEF IInv, TypeInv, Enter
<1>2. PICK sh \in Slots \cup {0} : sh = Shadow
  BY <1>1, ShadowOK
<1>3. writer' = [writer EXCEPT ![w] = [writer[w] EXCEPT !.pc = "in", !.shadow = sh]]
  BY <1>1, <1>2
<1>4. /\ writer' \in [Writers -> WriterRecs] /\ \A u \in Writers : u # w => writer'[u] = writer[u]
      /\ writer'[w].pc = "in" /\ writer'[w].shadow = sh /\ writer'[w].d = writer[w].d /\ writer'[w].v = writer[w].v
  BY <1>1, <1>3, Moved
<1>5. Building => sh = Target
  BY <1>2, BuildingOK
<1>6. Grown /\ uuids' \in Nat /\ uuids <= uuids'
  BY <1>1, SameGrows
<1>7. /\ jobs' \in Seq(Jobs) /\ KeepsJobs /\ JobsInv'
      /\ \A j \in DOMAIN jobs : jobs'[j].state = "running" => jobs[j].state = "running" /\ jobs'[j].dual = jobs[j].dual
  BY <1>1, <1>6, SameJobs
<1>. QED  BY <1>1, <1>4, <1>5, <1>6, <1>7, WriterStep

LEMMA ServeStep ==
  ASSUME IInv, NEW w \in Writers, Serve(w)
  PROVE  IInv'
<1>1. /\ TypeInv /\ writer[w].pc = "in" /\ uuids \in Nat /\ alias \in Slots /\ index[alias].uuid # 0
      /\ index' = Write(index, alias, writer[w].d, writer[w].v)
      /\ writer' = [writer EXCEPT ![w].pc = IF writer[w].shadow = 0 THEN "leave" ELSE "mirror"]
      /\ UNCHANGED <<canon, alias, uuids, jobs, runner>>
  BY DEF IInv, TypeInv, IndexInv, Serve
<1>2. writer[w].d \in Prs /\ writer[w].v \in Nat /\ writer[w].v <= canon[writer[w].d]
  BY <1>1, Holding
<1>3. PICK pc \in {"leave", "mirror"} : pc = IF writer[w].shadow = 0 THEN "leave" ELSE "mirror"
  OBVIOUS
<1>4. writer' = [writer EXCEPT ![w] = [writer[w] EXCEPT !.pc = pc]]
  BY <1>1, <1>3
<1>5. /\ writer' \in [Writers -> WriterRecs] /\ \A u \in Writers : u # w => writer'[u] = writer[u]
      /\ writer'[w].pc = pc /\ writer'[w].shadow = writer[w].shadow
      /\ writer'[w].d = writer[w].d /\ writer'[w].v = writer[w].v
  BY <1>1, <1>4, MovedOn
<1>6. uuids' = Created(alias)
  BY <1>1 DEF Created
<1>7. Grown /\ writer[w].v <= index'[alias].docs[writer[w].d]
  <2>1. PICK v \in Slots : v = alias
    BY <1>1
  <2>2. PICK d \in Prs, ver \in Nat : d = writer[w].d /\ ver = writer[w].v
    BY <1>2
  <2>3. index' = Write(index, v, d, ver) /\ ver <= canon[d] /\ uuids' = Created(v)
    BY <1>1, <1>2, <1>6, <2>1, <2>2
  <2>4. Grown /\ ver <= index'[v].docs[d]
    BY <2>3, WriteGrows
  <2>. QED  BY <2>1, <2>2, <2>4
<1>8. /\ jobs' \in Seq(Jobs) /\ KeepsJobs /\ JobsInv'
      /\ \A j \in DOMAIN jobs : jobs'[j].state = "running" => jobs[j].state = "running" /\ jobs'[j].dual = jobs[j].dual
  BY <1>1, <1>7, SameJobs DEF Grown
<1>9. Building => writer[w].shadow = Target /\ pc = "mirror"
  <2>. SUFFICES ASSUME Building PROVE writer[w].shadow = Target /\ pc = "mirror"
    OBVIOUS
  <2>1. writer[w].shadow = Target /\ Target # 0
    BY <1>1, BuildingOK, ConstOK DEF IInv, DualInv
  <2>. QED  BY <1>3, <2>1
<1>. QED  BY <1>1, <1>5, <1>7, <1>8, <1>9, WriterStep

LEMMA MirrorStep ==
  ASSUME IInv, NEW w \in Writers, Mirror(w)
  PROVE  IInv'
<1>1. /\ TypeInv /\ writer[w].pc = "mirror" /\ uuids \in Nat
      /\ index' = Write(index, writer[w].shadow, writer[w].d, writer[w].v)
      /\ uuids' = Created(writer[w].shadow)
      /\ writer' = [writer EXCEPT ![w].pc = "leave"]
      /\ UNCHANGED <<canon, alias, jobs, runner>>
  BY DEF IInv, TypeInv, Mirror
<1>2. writer[w].d \in Prs /\ writer[w].v \in Nat /\ writer[w].v <= canon[writer[w].d] /\ writer[w].shadow \in Slots \cup {0}
  BY <1>1, Holding, WriterOK
<1>3. writer' = [writer EXCEPT ![w] = [writer[w] EXCEPT !.pc = "leave"]]
  BY <1>1
<1>4. /\ writer' \in [Writers -> WriterRecs] /\ \A u \in Writers : u # w => writer'[u] = writer[u]
      /\ writer'[w].pc = "leave" /\ writer'[w].d = writer[w].d /\ writer'[w].v = writer[w].v
  BY <1>1, <1>3, MovedOn
<1>5. Grown /\ (writer[w].shadow # 0 => writer[w].v <= index'[writer[w].shadow].docs[writer[w].d])
  <2>1. CASE writer[w].shadow = 0
    <3>1. UNCHANGED <<index, uuids>>
      BY <1>1, <2>1, WriteNone DEF Created
    <3>. QED  BY <2>1, <3>1, SameGrows
  <2>2. CASE writer[w].shadow # 0
    <3>1. PICK v \in Slots : v = writer[w].shadow
      BY <1>2, <2>2
    <3>2. PICK d \in Prs, ver \in Nat : d = writer[w].d /\ ver = writer[w].v
      BY <1>2
    <3>3. index' = Write(index, v, d, ver) /\ ver <= canon[d] /\ uuids' = Created(v)
      BY <1>1, <1>2, <3>1, <3>2
    <3>4. Grown /\ ver <= index'[v].docs[d]
      BY <3>3, WriteGrows
    <3>. QED  BY <3>1, <3>2, <3>4
  <2>. QED  BY <2>1, <2>2
<1>6. /\ jobs' \in Seq(Jobs) /\ KeepsJobs /\ JobsInv'
      /\ \A j \in DOMAIN jobs : jobs'[j].state = "running" => jobs[j].state = "running" /\ jobs'[j].dual = jobs[j].dual
  BY <1>1, <1>5, SameJobs DEF Grown
<1>7. Building => writer[w].shadow = Target /\ writer[w].v <= index'[Target].docs[writer[w].d]
  <2>. SUFFICES ASSUME Building PROVE writer[w].shadow = Target /\ writer[w].v <= index'[Target].docs[writer[w].d]
    OBVIOUS
  <2>1. writer[w].shadow = Target /\ Target # 0
    BY <1>1, BuildingOK, ConstOK DEF IInv, DualInv
  <2>. QED  BY <1>5, <2>1
<1>. QED  BY <1>1, <1>4, <1>5, <1>6, <1>7, WriterStep

LEMMA MirrorFailsStep ==
  ASSUME IInv, NEW w \in Writers, MirrorFails(w)
  PROVE  IInv'
<1>1. /\ TypeInv /\ writer[w].pc = "mirror" /\ uuids \in Nat
      /\ writer' = [writer EXCEPT ![w] = [writer[w] EXCEPT !.pc = "failed"]]
      /\ UNCHANGED <<canon, index, alias, uuids, jobs, runner>>
  BY DEF IInv, TypeInv, MirrorFails
<1>2. /\ writer' \in [Writers -> WriterRecs] /\ \A u \in Writers : u # w => writer'[u] = writer[u]
      /\ writer'[w].pc = "failed" /\ writer'[w].d = writer[w].d /\ writer'[w].v = writer[w].v
  BY <1>1, MovedOn
<1>3. Grown /\ uuids' \in Nat /\ uuids <= uuids'
  BY <1>1, SameGrows
<1>4. /\ jobs' \in Seq(Jobs) /\ KeepsJobs /\ JobsInv'
      /\ \A j \in DOMAIN jobs : jobs'[j].state = "running" => jobs[j].state = "running" /\ jobs'[j].dual = jobs[j].dual
  BY <1>1, <1>3, SameJobs
<1>. QED  BY <1>1, <1>2, <1>3, <1>4, WriterStep

LEMMA WriterDiesStep ==
  ASSUME IInv, NEW w \in Writers, WriterDies(w)
  PROVE  IInv'
<1>1. /\ TypeInv /\ writer[w].pc # "idle" /\ uuids \in Nat
      /\ writer' = [writer EXCEPT ![w] = [writer[w] EXCEPT !.pc = "want", !.shadow = 0]]
      /\ UNCHANGED <<canon, index, alias, uuids, jobs, runner>>
  BY DEF IInv, TypeInv, WriterDies
<1>2. /\ writer' \in [Writers -> WriterRecs] /\ \A u \in Writers : u # w => writer'[u] = writer[u]
      /\ writer'[w].pc = "want" /\ writer'[w].d = writer[w].d /\ writer'[w].v = writer[w].v
  BY <1>1, Moved
<1>3. Grown /\ uuids' \in Nat /\ uuids <= uuids'
  BY <1>1, SameGrows
<1>4. /\ jobs' \in Seq(Jobs) /\ KeepsJobs /\ JobsInv'
      /\ \A j \in DOMAIN jobs : jobs'[j].state = "running" => jobs[j].state = "running" /\ jobs'[j].dual = jobs[j].dual
  BY <1>1, <1>3, SameJobs
<1>. QED  BY <1>1, <1>2, <1>3, <1>4, WriterStep

(* A writer that could not mirror leaves the fence only after the rebuild   *)
(* was told to fail.                                                        *)
LEMMA LeaveStep ==
  ASSUME IInv, NEW w \in Writers, Leave(w)
  PROVE  IInv'
<1>1. /\ TypeInv /\ JobsInv /\ writer[w].pc \in {"leave", "failed"} /\ uuids \in Nat
      /\ jobs' = (IF writer[w].pc = "failed" THEN ShadowFailed(jobs) ELSE jobs)
      /\ writer' = [writer EXCEPT ![w] = IdleWriter]
      /\ UNCHANGED <<canon, index, alias, uuids, runner>>
  BY DEF IInv, TypeInv, Leave
<1>2. IdleWriter \in WriterRecs /\ IdleWriter.pc = "idle"
  BY DEF IdleWriter, WriterRecs
<1>3. /\ writer' \in [Writers -> WriterRecs] /\ \A u \in Writers : u # w => writer'[u] = writer[u]
      /\ writer'[w].pc = "idle"
  BY <1>1, <1>2 DEF TypeInv
<1>4. Grown /\ uuids' \in Nat /\ uuids <= uuids'
  BY <1>1, SameGrows
<1>5. CASE writer[w].pc = "leave"
  <2>1. jobs' = jobs
    BY <1>1, <1>5
  <2>2. /\ jobs' \in Seq(Jobs) /\ KeepsJobs /\ JobsInv'
        /\ \A j \in DOMAIN jobs : jobs'[j].state = "running" => jobs[j].state = "running" /\ jobs'[j].dual = jobs[j].dual
    BY <1>1, <1>4, <2>1, SameJobs
  <2>. QED  BY <1>1, <1>3, <1>4, <1>5, <2>2, WriterStep
<1>6. CASE writer[w].pc = "failed"
  <2>1. jobs' = ShadowFailed(jobs)
    BY <1>1, <1>6
  <2>2. /\ jobs' \in Seq(Jobs) /\ DOMAIN jobs' = DOMAIN jobs /\ JobsInv'
        /\ \A j \in DOMAIN jobs :
             /\ jobs'[j].source = jobs[j].source /\ jobs'[j].target = jobs[j].target /\ jobs'[j].uuid = jobs[j].uuid
             /\ jobs'[j].state # "running"
    BY <1>1, <1>4, <2>1, ShadowFailedOK
  <2>3. KeepsJobs
    BY <2>2 DEF KeepsJobs
  <2>4. ~Building'
    <3>. SUFFICES ASSUME Building' PROVE FALSE
      OBVIOUS
    <3>1. runner.j \in DOMAIN jobs
      BY <1>1 DEF Building, IInv, RunnerInv
    <3>. QED  BY <1>1, <2>2, <3>1 DEF Building
  <2>. QED  BY <1>1, <1>3, <1>4, <1>6, <2>2, <2>3, <2>4, WriterStep
<1>. QED  BY <1>1, <1>5, <1>6
----------------------------------------------------------------------------
(* The runner writes the row it read to the served index and to the shadow. *)

LEMMA TwoWrites ==
  ASSUME IInv, NEW v \in Slots, NEW s \in Slots, NEW d \in Prs, NEW ver \in Nat, ver <= canon[d], index[v].uuid # 0,
         index' = Write(Write(index, v, d, ver), s, d, ver), uuids' = Created(s)
  PROVE  Grown /\ ver <= index'[s].docs[d]
<1>1. TypeInv /\ IndexInv /\ s # 0 /\ index \in [Slots -> Indices] /\ uuids \in Nat
  BY ConstOK DEF IInv, TypeInv
<1>2. PICK mid : mid = Write(index, v, d, ver)
  OBVIOUS
<1>3. /\ mid \in [Slots -> Indices]
      /\ \A u \in Slots : u # v => mid[u] = index[u]
      /\ mid[v].uuid = index[v].uuid
      /\ \A x \in Prs : x # d => mid[v].docs[x] = index[v].docs[x]
      /\ mid[v].docs[d] = IF ver > index[v].docs[d] THEN ver ELSE index[v].docs[d]
  BY <1>1, <1>2, WriteOK
<1>4. /\ index' \in [Slots -> Indices]
      /\ \A u \in Slots : u # s => index'[u] = mid[u]
      /\ index'[s].uuid = IF mid[s].uuid = 0 THEN uuids + 1 ELSE mid[s].uuid
      /\ \A x \in Prs : x # d => index'[s].docs[x] = mid[s].docs[x]
      /\ index'[s].docs[d] = IF ver > mid[s].docs[d] THEN ver ELSE mid[s].docs[d]
  BY <1>1, <1>2, <1>3, WriteOK
<1>5. uuids' = (IF index[s].uuid = 0 THEN uuids + 1 ELSE uuids) /\ \A u \in Slots : mid[u].uuid = index[u].uuid
  BY <1>1, <1>3 DEF Created
<1>6. uuids' \in Nat /\ uuids <= uuids'
  BY <1>1, <1>5
<1>7. \A u \in Slots, x \in Prs : index[u].docs[x] \in Nat /\ canon[x] \in Nat /\ index[u].docs[x] <= canon[x]
  BY <1>1, IndexOK DEF IndexInv
<1>8. \A u \in Slots, x \in Prs : mid[u].docs[x] \in Nat /\ index[u].docs[x] <= mid[u].docs[x] /\ mid[u].docs[x] <= canon[x]
  <2>. TAKE u \in Slots, x \in Prs
  <2>1. CASE u = v /\ x = d
    BY <1>3, <1>7, <2>1
  <2>2. CASE u # v \/ x # d
    <3>1. mid[u].docs[x] = index[u].docs[x]
      BY <1>3, <2>2
    <3>. QED  BY <1>7, <3>1
  <2>. QED  BY <2>1, <2>2
<1>9. ASSUME NEW u \in Slots, NEW x \in Prs
      PROVE  index[u].docs[x] <= index'[u].docs[x] /\ index'[u].docs[x] <= canon[x]
  <2>1. CASE u = s /\ x = d
    BY <1>4, <1>7, <1>8, <2>1
  <2>2. CASE u # s \/ x # d
    <3>1. index'[u].docs[x] = mid[u].docs[x]
      BY <1>4, <2>2
    <3>. QED  BY <1>7, <1>8, <3>1
  <2>. QED  BY <2>1, <2>2
<1>10. ASSUME NEW u \in Slots
       PROVE  \/ index'[u].uuid = index[u].uuid
              \/ index[u].uuid = 0 /\ index'[u].uuid = uuids + 1 /\ uuids' = uuids + 1
  BY <1>4, <1>5
<1>11. ver <= index'[s].docs[d]
  BY <1>4, <1>8
<1>. QED  BY <1>4, <1>6, <1>9, <1>10, <1>11 DEF Grown

LEMMA WriteRowStep ==
  ASSUME IInv, WriteRow
  PROVE  IInv'
<1>1. /\ TypeInv /\ JobsInv /\ IndexInv /\ runner.pc = "write" /\ runner.row \in Prs \X Nat
      /\ runner.row[2] <= canon[runner.row[1]] /\ runner.j \in DOMAIN jobs /\ jobs[runner.j].uuid # 0
      /\ alias \in Slots /\ index[alias].uuid # 0 /\ uuids \in Nat /\ UNCHANGED <<canon, alias, writer>>
      /\ runner' = [runner EXCEPT !.pc = "read", !.after = runner.row[1], !.row = <<>>, !.ids = @ \cup {runner.row[1]}]
  BY DEF IInv, TypeInv, IndexInv, RunnerInv, WriteRow
<1>2. PICK d \in Prs, ver \in Nat : d = runner.row[1] /\ ver = runner.row[2]
  BY <1>1
<1>3. ver <= canon[d] /\ runner.row = <<d, ver>> /\ d \in Nat
  BY <1>1, <1>2, ConstOK
<1>4. runner' \in RunnerRecs /\ runner'.pc = "read" /\ runner'.after = d /\ runner'.j = runner.j
  <2>1. runner' = [runner EXCEPT !.pc = "read", !.after = d, !.row = <<>>, !.ids = runner.ids \cup {d}]
    BY <1>1, <1>2
  <2>2. runner \in RunnerRecs /\ runner.ids \cup {d} \in SUBSET Prs
    BY <1>1, RunnerOK
  <2>3. PICK s \in SUBSET Prs : s = runner.ids \cup {d}
    BY <2>2
  <2>. QED  BY <1>3, <2>1, <2>2, <2>3 DEF RunnerRecs
<1>5. \/ /\ index' = Write(Write(index, alias, d, ver), Shadow, d, ver) /\ uuids' = Created(Shadow) /\ jobs' = jobs
      \/ index' = Write(index, alias, d, ver) /\ jobs' = ShadowFailed(jobs) /\ uuids' = uuids
  BY <1>2 DEF WriteRow
<1>6. PICK a \in Slots : a = alias
  BY <1>1
<1>7. Created(a) = uuids
  BY <1>1, <1>6 DEF Created
<1>8. /\ Grown /\ jobs' \in Seq(Jobs) /\ KeepsJobs /\ JobsInv'
      /\ Building' => /\ Building /\ Target' = Target /\ jobs'[runner.j] = jobs[runner.j]
                      /\ ver <= index'[Target].docs[d]
  <2>1. CASE index' = Write(index, alias, d, ver) /\ jobs' = ShadowFailed(jobs) /\ uuids' = uuids
    <3>1. index' = Write(index, a, d, ver) /\ uuids' = Created(a)
      BY <1>6, <1>7, <2>1
    <3>2. Grown
      BY <1>3, <3>1, WriteGrows
    <3>3. uuids' \in Nat /\ uuids <= uuids'
      BY <3>2 DEF Grown
    <3>4. /\ jobs' \in Seq(Jobs) /\ DOMAIN jobs' = DOMAIN jobs /\ JobsInv'
          /\ \A j \in DOMAIN jobs :
               /\ jobs'[j].source = jobs[j].source /\ jobs'[j].target = jobs[j].target /\ jobs'[j].uuid = jobs[j].uuid
               /\ jobs'[j].state # "running"
      BY <1>1, <2>1, <3>3, ShadowFailedOK
    <3>5. KeepsJobs
      BY <3>4 DEF KeepsJobs
    <3>6. ~Building'
      BY <1>1, <1>4, <3>4 DEF Building
    <3>. QED  BY <3>2, <3>4, <3>5, <3>6
  <2>2. CASE /\ index' = Write(Write(index, alias, d, ver), Shadow, d, ver) /\ uuids' = Created(Shadow)
             /\ jobs' = jobs
    <3>1. PICK s \in Slots \cup {0} : s = Shadow
      BY <1>1, ShadowOK
    <3>2. index' = Write(Write(index, a, d, ver), s, d, ver) /\ uuids' = Created(s)
      BY <1>6, <2>2, <3>1
    <3>3. Grown /\ (s # 0 => ver <= index'[s].docs[d])
      <4>1. CASE s = 0
        <5>1. index' = Write(index, a, d, ver) /\ uuids' = Created(a)
          BY <1>7, <3>2, <4>1, WriteNone DEF Created
        <5>. QED  BY <1>3, <4>1, <5>1, WriteGrows
      <4>2. CASE s \in Slots
        <5>1. index[a].uuid # 0
          BY <1>1, <1>6
        <5>. QED  BY <1>3, <3>2, <4>2, <5>1, TwoWrites
      <4>. QED  BY <4>1, <4>2
    <3>4. jobs' \in Seq(Jobs) /\ KeepsJobs /\ JobsInv'
      BY <1>1, <2>2, <3>3, SameJobs DEF Grown
    <3>5. Building' => Building /\ Target' = Target
      BY <1>1, <1>4, <2>2 DEF Building, Target
    <3>6. Building => ver <= index'[Target].docs[d]
      <4>. SUFFICES ASSUME Building PROVE ver <= index'[Target].docs[d]
        OBVIOUS
      <4>1. s = Target /\ s # 0
        BY <3>1, BuildingOK, ConstOK
      <4>. QED  BY <3>3, <4>1
    <3>. QED  BY <2>2, <3>3, <3>4, <3>5, <3>6
  <2>. QED  BY <1>5, <2>1, <2>2
<1>9. TypeInv'
  BY <1>1, <1>4, <1>8 DEF TypeInv, Grown
<1>10. /\ IndexInv' /\ ServedIsPrepared'
       /\ \A v \in Slots, x \in Prs : index[v].docs[x] = canon[x] => index'[v].docs[x] = canon[x]
       /\ \A v \in Slots, x \in Prs : canon[x] <= index'[v].docs[x] => index'[v].docs[x] = canon[x]
       /\ Building /\ index'[Target].uuid = jobs[runner.j].uuid => Ours
  BY <1>1, <1>8, GrownOK
<1>11. WritersInv'
  BY <1>1 DEF IInv, WritersInv
<1>12. RunnerInv'
  BY <1>1, <1>4, <1>8 DEF RunnerInv, KeepsJobs
<1>13. ServedInv'
  BY <1>1, <1>10, SameOwed DEF IInv, ServedInv
<1>14. DualInv'
  BY <1>1, <1>4, <1>8 DEF IInv, DualInv
<1>15. CoverInv'
  <2>. SUFFICES ASSUME Building', Ours', NEW x \in Prs, Passed(x)' PROVE Covered(x)'
    BY DEF CoverInv
  <2>1. Building /\ Target' = Target /\ jobs'[runner.j] = jobs[runner.j] /\ ver <= index'[Target].docs[d]
    BY <1>8
  <2>2. Target \in Slots
    BY <2>1, BuildingOK
  <2>3. Ours
    BY <1>4, <1>10, <2>1 DEF Ours
  <2>4. Passed(x)
    BY <1>1, <1>2, <1>4 DEF Passed
  <2>5. Covered(x)
    BY <2>1, <2>3, <2>4 DEF IInv, CoverInv
  <2>6. CASE index[Target].docs[x] = canon[x]
    BY <1>1, <1>10, <2>1, <2>2, <2>6 DEF Covered
  <2>7. CASE InHand(x)
    <3>1. x = d /\ ver = canon[x]
      BY <1>3, <2>7 DEF InHand
    <3>. QED  BY <1>1, <1>10, <2>1, <2>2, <3>1 DEF Covered
  <2>8. CASE Owed(x, {"want", "in", "mirror", "failed"})
    BY <1>1, <2>8, SameOwed DEF Covered
  <2>. QED  BY <2>5, <2>6, <2>7, <2>8 DEF Covered
<1>. QED  BY <1>8, <1>9, <1>10, <1>11, <1>12, <1>13, <1>14, <1>15 DEF IInv

----------------------------------------------------------------------------
(* The theorems.                                                            *)

LEMMA InitOK == Init => IInv
<1>. SUFFICES ASSUME Init PROVE IInv
  OBVIOUS
<1>1. canon \in [Prs -> Nat] /\ canon = [d \in Prs |-> 0] /\ alias = 1 /\ uuids = 1 /\ jobs = <<>> /\ 1 \in Slots
  BY ConstOK DEF Init
<1>2. NoIndex \in Indices /\ NoIndex.uuid = 0 /\ \A d \in Prs : NoIndex.docs[d] = 0
  BY <1>1 DEF NoIndex, Empty, Indices
<1>3. PICK one : one = [NoIndex EXCEPT !.uuid = 1]
  OBVIOUS
<1>4. one \in Indices /\ one.uuid = 1 /\ one.docs = NoIndex.docs
  BY <1>2, <1>3 DEF Indices
<1>5. index = [v \in Slots |-> IF v = 1 THEN one ELSE NoIndex]
  BY <1>3 DEF Init, Slots
<1>6. index \in [Slots -> Indices] /\ index[1] = one /\ \A v \in Slots : index[v].uuid <= 1 /\ \A d \in Prs : index[v].docs[d] = 0
  BY <1>1, <1>2, <1>4, <1>5
<1>7. IdleWriter \in WriterRecs /\ IdleWriter.pc = "idle"
  BY DEF IdleWriter, WriterRecs
<1>8. writer \in [Writers -> WriterRecs] /\ \A w \in Writers : writer[w].pc = "idle"
  BY <1>7 DEF Init
<1>9. runner \in RunnerRecs /\ runner.pc = "idle"
  BY IdleOK DEF Init
<1>10. jobs \in Seq(Jobs) /\ DOMAIN jobs = {}
  BY <1>1
<1>11. TypeInv
  BY <1>1, <1>6, <1>8, <1>9, <1>10 DEF TypeInv
<1>12. JobsInv /\ WritersInv /\ RunnerInv
  BY <1>8, <1>9, <1>10 DEF JobsInv, WritersInv, RunnerInv
<1>13. ~Building
  BY <1>9 DEF Building
<1>14. DualInv /\ CoverInv
  BY <1>13 DEF DualInv, CoverInv
<1>15. IndexInv /\ ServedInv /\ ServedIsPrepared
  BY <1>1, <1>4, <1>6 DEF IndexInv, ServedInv, ServedIsPrepared
<1>. QED  BY <1>11, <1>12, <1>14, <1>15 DEF IInv

LEMMA NextOK == IInv /\ [Next]_vars => IInv'
<1>. SUFFICES ASSUME IInv, [Next]_vars PROVE IInv'
  OBVIOUS
<1>1. ASSUME NEW w \in Writers, Live(w) PROVE IInv'
  BY <1>1, EnterStep, ServeStep, MirrorStep, MirrorFailsStep, LeaveStep, WriterDiesStep DEF Live
<1>2. ASSUME NEW w \in Writers, NEW d \in Prs, Commit(w, d) PROVE IInv'
  BY <1>2, CommitStep
<1>3. CASE Enqueue
  BY <1>3, EnqueueStep
<1>4. ASSUME NEW j \in DOMAIN jobs, Transition(j) \/ TargetDeleted(j) \/ Claim(j) \/ Reconcile(j) \/ Retire(j)
      PROVE  IInv'
  BY <1>4, TransitionStep, TargetDeletedStep, ClaimStep, ReconcileStep, RetireStep
<1>5. CASE Run
  BY <1>5, PrepareStep, ActivateStep, ReadRowStep, WriteRowStep, VerifyStep, CutoverStep, RecordStep, EndStep DEF Run
<1>6. CASE RunnerDies
  BY <1>6, EndStep
<1>7. CASE UNCHANGED vars
  <2>1. UNCHANGED <<canon, index, alias, uuids, jobs, writer, runner>>
    BY <1>7 DEF vars
  <2>3. TypeInv' /\ JobsInv' /\ IndexInv' /\ WritersInv' /\ RunnerInv' /\ ServedIsPrepared'
    BY <2>1 DEF IInv, TypeInv, JobsInv, IndexInv, WritersInv, RunnerInv, ServedIsPrepared
  <2>4. DualInv' /\ CoverInv' /\ ServedInv'
    BY <2>1 DEF IInv, DualInv, CoverInv, ServedInv, Building, Target, Ours, Passed, Covered, InHand, Owed
  <2>. QED  BY <2>3, <2>4 DEF IInv
<1>. QED  BY <1>1, <1>2, <1>3, <1>4, <1>5, <1>6, <1>7 DEF Next

(* The inductive invariant holds of every behaviour.                        *)
THEOREM Invariance == Spec => []IInv
<1>. QED  BY InitOK, NextOK, PTL DEF Spec

(* Whatever writers, operators, deaths and deletions do, a committed        *)
(* snapshot no writer has in hand is in the served index at its newest      *)
(* version: activation, scan, mirroring and cutover (reindex-runner.ts,     *)
(* reindex-fence.ts) lose no write.                                         *)
THEOREM ServedIndexIsComplete == Spec => []ServedIsComplete
<1>1. IInv => ServedIsComplete
  <2>. SUFFICES ASSUME IInv, NEW d \in DOMAIN canon
                PROVE  index[alias].docs[d] = canon[d] \/ \E w \in DOMAIN writer : writer[w].pc # "idle" /\ writer[w].d = d
    BY DEF ServedIsComplete
  <2>1. d \in Prs /\ DOMAIN writer = Writers
    BY DEF IInv, TypeInv
  <2>2. index[alias].docs[d] = canon[d] \/ Owed(d, {"want", "in"})
    BY <2>1 DEF IInv, ServedInv
  <2>. QED  BY <2>1, <2>2 DEF Owed
<1>. QED  BY <1>1, Invariance, PTL

(* The alias never points to an index that does not exist or that a write   *)
(* created without its mapping, through retention, deletion and cutover.    *)
THEOREM ServedIndexIsPrepared == Spec => []ServedIsPrepared
<1>1. IInv => ServedIsPrepared
  BY DEF IInv
<1>. QED  BY <1>1, Invariance, PTL

(****************************************************************************)
(* The projection of merge sequence numbers.                                *)
(****************************************************************************)

(* One process numbers, as the subscription of startSequenceWorker does,    *)
(* event after event. The advisory lock of assignSequence ends with its     *)
(* transaction: a second process (a job runner) can begin a later epoch     *)
(* before the query of the first (applyEpochBump) is sent, and that query   *)
(* takes documents back. The theorems leave this out.                       *)
OneNumberer == \A p, q \in Numberers : p = q

(* The type of every variable. *)
AllDocs == Shas \cup Pulls
AllKeys == Branches \X (1 .. MaxEpoch) \X ({"tail", "full"} \cup AllDocs)
AllProcs == Numberers \cup Runners \cup Enrichers
WorkStates == {"none", "due", "leased", "done", "obsolete", "parked"}
Calls == {"idle", "epoch", "bump", "range", "observe", "bulk", "holders", "page", "single", "settle",
          "save", "exhausted", "obsolete"}
DocRecs == [branch : Branches \cup {None}, epoch : Nat, seq : Nat, there : BOOLEAN]
WorkRecs == [state : WorkStates, owner : Runners \cup {None}, again : BOOLEAN, kinds : SUBSET Kinds,
             cursor : Nat, past : SUBSET Kinds, fresh : BOOLEAN, ended : BOOLEAN]
Items == [d : AllDocs, n : Nat]
Clashes == [item : Items, seen : Branches \cup {None}]
ProcKeys == {<<>>} \cup (Branches \X Nat \X ({"tail", "full"} \cup AllDocs))
ProcRecs == [pc : Calls, key : ProcKeys, b : Branches \cup {None}, e : Nat, cursor : Nat, last : Nat, used : Nat,
             kinds : SUBSET Kinds, items : SUBSET Items, wr : SUBSET Items, conf : SUBSET Clashes,
             pend : SUBSET AllDocs, stale : BOOLEAN, reclaim : BOOLEAN]

ChainsOK ==
  /\ chain \in [Branches -> Seq(Seq(Shas))]
  /\ \A b \in Branches : Epoch(b) <= MaxEpoch /\ \A e \in 1 .. Epoch(b) : chain[b][e] \in Histories[b]
StoreOK ==
  /\ snap \subseteq Pulls /\ made \subseteq Shas
  /\ DOMAIN tx \subseteq Pulls \ snap /\ tx \in [DOMAIN tx -> SUBSET AllKeys]
  /\ doc \in [AllDocs -> DocRecs] /\ work \in [AllKeys -> WorkRecs] /\ proc \in [AllProcs -> ProcRecs]
  /\ sweeps \in 0 .. MaxSweeps /\ failures \in 0 .. MaxFailures

(* The commits that may be on a branch, and the branch a document may be    *)
(* labelled with: a commit any branch that may hold it, a pull request its  *)
(* base.                                                                    *)
May(b, s) == \E h \in Histories[b] : s \in Range(h)
Home(b, d) == IF d \in Pulls THEN PrBranch[d] = b ELSE May(b, d)

DocOK(d, o) ==
  /\ o \in DocRecs
  /\ ~o.there => o = NoDoc
  /\ o.branch = None => o.epoch = 0
  /\ o.branch # None => o.epoch <= Epoch(o.branch) /\ Home(o.branch, d)
  /\ d \in Pulls /\ o.there => o.branch = PrBranch[d]

(* Item i stands in epoch e of b: the rows of an epoch are never changed,   *)
(* whatever becomes of the epoch.                                           *)
Numbered(b, e, i) ==
  /\ i.n \in 1 .. Len(chain[b][e]) /\ chain[b][e][i.n] = ShaOf(i.d)
  /\ i.d \in Pulls => PrBranch[i.d] = b

(* A process that is at work, and what it has in hand. *)
Placed(p, q) ==
  /\ q.b \in Branches /\ Epoch(q.b) > 0 /\ q.e <= Epoch(q.b)
  /\ p \in Runners => q.key \in AllKeys /\ q.key[1] = q.b /\ q.key[2] = q.e
  /\ p \in Enrichers => q.key[3] \in Shas /\ May(q.b, q.key[3])
Cargo(q) ==
  /\ \A i \in q.items \cup q.wr : Numbered(q.b, q.e, i)
  /\ \A c \in q.conf : Numbered(q.b, q.e, c.item) /\ c.item.d \in Shas /\ c.seen \in Branches \ {q.b}
  /\ q.stale => q.e < Epoch(q.b)
Between(p, q) ==
  /\ q.pc = "idle" => q = Idle
  /\ q.pc \in {"epoch", "bump", "range"} => p \in Numberers
  /\ q.pc \in {"page", "save", "exhausted", "obsolete"} => p \in Runners /\ q.key[3] \in {"tail", "full"}
  /\ q.pc \in {"single", "settle"} => p \in Runners \cup Enrichers
  /\ q.pc \notin {"idle", "epoch", "single", "settle"} => q.e > 0
  /\ q.pc = "single" => q.key[3] \in AllDocs
  /\ q.stale => q.pc \in {"observe", "bulk", "holders", "settle", "obsolete"}
  /\ q.items # {} => q.pc = "observe"
  /\ q.wr # {} => q.pc = "bulk"
  /\ q.conf # {} => q.pc \in {"bulk", "holders"}
ProcOK(p, q) ==
  /\ q \in ProcRecs /\ Between(p, q) /\ Cargo(q)
  /\ q.pc # "idle" => Placed(p, q)
  /\ p \in Numberers /\ q.pc \notin {"idle", "epoch"} => q.e = Epoch(q.b)

(* Where the next claim of a row begins. *)
Base(k) == IF k[3] = "full" /\ work[k].fresh THEN 0 ELSE work[k].cursor

(* The basic invariant: types; a document shows an epoch its branch has     *)
(* had, the pull request its base branch; what a process has in hand stands *)
(* in the epoch it works for, and is only there between the calls that use  *)
(* it; the numbering worker is in the current epoch once it has read it.    *)
DocsInv == \A d \in AllDocs : DocOK(d, doc[d])
ProcsInv == \A p \in AllProcs : ProcOK(p, proc[p])
BasicInv == ChainsOK /\ StoreOK /\ DocsInv /\ ProcsInv

----------------------------------------------------------------------------
(* Constants and records.                                                   *)

LEMMA RecordsOK ==
  /\ Idle \in ProcRecs /\ NoDoc \in DocRecs /\ NoWork \in WorkRecs
  /\ \A b \in Branches \cup {None}, e \in Nat, n \in Nat : Doc(b, e, n) \in DocRecs
BY DEF Idle, NoDoc, NoWork, Doc, ProcRecs, DocRecs, WorkRecs, Calls, WorkStates, ProcKeys

LEMMA ShaOfOK == \A d \in AllDocs : ShaOf(d) \in Shas
BY ProjectionAssumption DEF ShaOf, AllDocs

LEMMA ChainOK ==
  ASSUME ChainsOK, NEW b \in Branches
  PROVE  /\ Epoch(b) \in Nat /\ Epoch(b) <= MaxEpoch
         /\ \A e \in 1 .. Epoch(b) : chain[b][e] \in Seq(Shas) /\ chain[b][e] \in Histories[b] /\ Len(chain[b][e]) \in Nat
BY DEF ChainsOK, Epoch

LEMMA NextCallIs ==
  ASSUME NEW p, NEW q \in ProcRecs
  PROVE  \/ q.items # {} /\ NextCall(p, q) = [q EXCEPT !.pc = "observe"]
         \/ q.items = {} /\ q.wr # {} /\ NextCall(p, q) = [q EXCEPT !.pc = "bulk"]
         \/ q.items = {} /\ q.wr = {} /\ q.conf # {} /\ NextCall(p, q) = [q EXCEPT !.pc = "holders"]
         \/ q.items = {} /\ q.wr = {} /\ q.conf = {} /\ p \in Numberers /\ NextCall(p, q) = Idle
         \/ q.items = {} /\ q.wr = {} /\ q.conf = {} /\ p \notin Numberers /\ NextCall(p, q) = [q EXCEPT !.pc = "settle"]
BY DEF NextCall

LEMMA IdleProc == ASSUME NEW p PROVE ProcOK(p, Idle)
BY RecordsOK DEF ProcOK, Idle, Between, Cargo

LEMMA NextCallOK ==
  ASSUME NEW p \in AllProcs, NEW q \in ProcRecs, Placed(p, q), Cargo(q),
         p \in Numberers => q.e = Epoch(q.b),
         q.items # {} => q.wr = {} /\ q.conf = {},
         q.items \cup q.wr # {} \/ q.conf # {} => q.e > 0
  PROVE  ProcOK(p, NextCall(p, q))
<1>. DEFINE At(c) == [q EXCEPT !.pc = c]
<1>1. ASSUME NEW c \in {"observe", "bulk", "holders", "settle"},
             At(c).pc = c => Between(p, At(c))
      PROVE  ProcOK(p, At(c))
  <2>1. /\ At(c) \in ProcRecs /\ At(c).pc = c /\ At(c).b = q.b /\ At(c).e = q.e /\ At(c).key = q.key /\ At(c).items = q.items
        /\ At(c).wr = q.wr /\ At(c).conf = q.conf /\ At(c).stale = q.stale
    BY DEF ProcRecs, Calls
  <2>. QED
    BY <1>1, <2>1 DEF ProcOK, Placed, Cargo
<1>2. ASSUME NEW c \in {"observe", "bulk", "holders", "settle"},
             c # "settle" => q.e > 0, c = "settle" => p \in Runners \cup Enrichers,
             q.items # {} => c = "observe", q.wr # {} => c = "bulk", q.conf # {} => c \in {"bulk", "holders"}
      PROVE  Between(p, At(c))
  <2>1. /\ At(c).pc = c /\ At(c).e = q.e /\ At(c).items = q.items
        /\ At(c).wr = q.wr /\ At(c).conf = q.conf /\ At(c).stale = q.stale
    BY DEF ProcRecs
  <2>. QED
    BY <1>2, <2>1 DEF Between
<1>. QED
  BY <1>1, <1>2, NextCallIs, IdleProc DEF AllProcs

LEMMA ProcStep ==
  ASSUME BasicInv, chain' = chain, NEW p \in AllProcs, NEW r, ProcOK(p, r), proc' = [proc EXCEPT ![p] = r]
  PROVE  ProcsInv' /\ proc' \in [AllProcs -> ProcRecs]
<1>1. /\ proc \in [AllProcs -> ProcRecs] /\ r \in ProcRecs
      /\ \A a \in AllProcs : ProcOK(a, proc'[a])
  BY DEF BasicInv, StoreOK, ProcsInv, ProcOK
<1>2. ASSUME NEW a \in AllProcs PROVE ProcOK(a, proc[a])'
  <2>1. ProcOK(a, proc'[a])
    BY <1>1
  <2>. QED
    BY <2>1 DEF ProcOK, Placed, Cargo, Between, Numbered, Epoch
<1>. QED
  BY <1>1, <1>2 DEF ProcsInv

LEMMA DocStay == ASSUME BasicInv, UNCHANGED <<chain, doc>> PROVE DocsInv' /\ ChainsOK'
BY DEF BasicInv, DocsInv, DocOK, Epoch, ChainsOK, Home

(* The rows of `project' work. *)
LEMMA RequestedOK ==
  ASSUME NEW w \in WorkRecs, NEW kinds \in SUBSET Kinds
  PROVE  /\ RequestedWith(w, kinds) \in WorkRecs
         /\ RequestedWith(w, kinds).state = (IF w.state = "leased" THEN "leased" ELSE "due")
         /\ RequestedWith(w, kinds).owner = w.owner /\ RequestedWith(w, kinds).again = (w.state = "leased")
         /\ RequestedWith(w, kinds).fresh = TRUE /\ RequestedWith(w, kinds).kinds = kinds
         /\ RequestedWith(w, kinds).cursor = w.cursor /\ RequestedWith(w, kinds).past = w.past
BY DEF RequestedWith, WorkRecs, WorkStates

LEMMA RequestAllOK ==
  ASSUME work \in [AllKeys -> WorkRecs], NEW ks, NEW kinds \in SUBSET Kinds
  PROVE  /\ RequestAll(work, ks, kinds) \in [AllKeys -> WorkRecs]
         /\ \A k \in AllKeys : RequestAll(work, ks, kinds)[k] = IF k \in ks THEN RequestedWith(work[k], kinds) ELSE work[k]
BY RequestedOK DEF RequestAll, Keys

LEMMA SavedOK ==
  ASSUME NEW w \in WorkRecs, NEW p \in Runners, proc[p] \in ProcRecs, NEW cursor \in Nat, NEW ended \in BOOLEAN
  PROVE  /\ Saved(w, p, cursor, ended) \in WorkRecs
         /\ w.owner # p => Saved(w, p, cursor, ended) = w
         /\ w.owner = p => /\ Saved(w, p, cursor, ended).cursor = cursor /\ Saved(w, p, cursor, ended).past = proc[p].kinds
                           /\ Saved(w, p, cursor, ended).fresh = w.again
         /\ Saved(w, p, cursor, ended).owner = w.owner /\ Saved(w, p, cursor, ended).state = w.state
         /\ Saved(w, p, cursor, ended).again = w.again /\ Saved(w, p, cursor, ended).kinds = w.kinds
<1>1. proc[p].kinds \in SUBSET Kinds
  BY DEF ProcRecs
<1>. QED
  BY <1>1 DEF Saved, WorkRecs

LEMMA ReleasedOK ==
  ASSUME NEW w \in WorkRecs, NEW p \in Runners, NEW state \in WorkStates
  PROVE  /\ Released(w, p, state) \in WorkRecs
         /\ w.owner # p => Released(w, p, state) = w
         /\ w.owner = p => /\ Released(w, p, state).state = (IF state = "done" /\ w.again THEN "due" ELSE state)
                           /\ Released(w, p, state).owner = None
         /\ Released(w, p, state).again = w.again /\ Released(w, p, state).kinds = w.kinds
         /\ Released(w, p, state).cursor = w.cursor /\ Released(w, p, state).fresh = w.fresh
         /\ Released(w, p, state).past = w.past
BY ZenonT(60) DEF Released, WorkRecs, WorkStates

(* What PostgreSQL returns. *)
LEMMA TargetsOK ==
  ASSUME StoreOK, NEW b \in Branches, NEW s \in Shas, NEW kinds, NEW d \in Targets(b, s, kinds)
  PROVE  /\ d \in AllDocs /\ ShaOf(d) = s
         /\ d \in Pulls => PrBranch[d] = b /\ d \in snap
         /\ d \notin Pulls => d \in made \/ PrsOf(b, d) # {}
BY ProjectionAssumption DEF Targets, PrsOf, AllDocs, ShaOf, StoreOK

LEMMA ResolvedOK ==
  ASSUME BasicInv, NEW b \in Branches, NEW e \in 1 .. Epoch(b), NEW ns \in SUBSET (1 .. Len(chain[b][e])), NEW kinds
  PROVE  /\ Resolved(b, e, ns, kinds) \subseteq Items
         /\ \A i \in Resolved(b, e, ns, kinds) :
              /\ Numbered(b, e, i) /\ i.n \in ns /\ i.d \in Targets(b, chain[b][e][i.n], kinds)
         /\ \A n \in ns : \A d \in Targets(b, chain[b][e][n], kinds) : [d |-> d, n |-> n] \in Resolved(b, e, ns, kinds)
<1>1. StoreOK /\ chain[b][e] \in Seq(Shas) /\ Len(chain[b][e]) \in Nat /\ \A n \in ns : chain[b][e][n] \in Shas /\ n \in Nat
  <2>1. StoreOK /\ ChainsOK
    BY DEF BasicInv
  <2>2. chain[b][e] \in Seq(Shas) /\ Len(chain[b][e]) \in Nat
    BY <2>1, ChainOK
  <2>. QED
    BY <2>1, <2>2
<1>2. ASSUME NEW i \in Resolved(b, e, ns, kinds)
      PROVE  i \in Items /\ Numbered(b, e, i) /\ i.n \in ns /\ i.d \in Targets(b, chain[b][e][i.n], kinds)
  <2>1. PICK n \in ns : \E d \in Targets(b, chain[b][e][n], kinds) : i = [d |-> d, n |-> n]
    BY <1>2 DEF Resolved
  <2>2. PICK d \in Targets(b, chain[b][e][n], kinds) : i = [d |-> d, n |-> n]
    BY <2>1
  <2>3. d \in AllDocs /\ ShaOf(d) = chain[b][e][n] /\ (d \in Pulls => PrBranch[d] = b)
    BY <1>1, TargetsOK
  <2>. QED
    BY <1>1, <2>2, <2>3 DEF Items, Numbered
<1>3. ASSUME NEW n \in ns, NEW d \in Targets(b, chain[b][e][n], kinds)
      PROVE  [d |-> d, n |-> n] \in Resolved(b, e, ns, kinds)
  <2>. DEFINE Of(m) == {[d |-> x, n |-> m] : x \in Targets(b, chain[b][e][m], kinds)}
  <2>1. [d |-> d, n |-> n] \in Of(n)
    BY <1>3
  <2>2. Resolved(b, e, ns, kinds) = UNION {Of(m) : m \in ns}
    BY DEF Resolved
  <2>. HIDE DEF Of
  <2>3. Of(n) \in {Of(m) : m \in ns}
    OBVIOUS
  <2>. QED
    BY <2>1, <2>2, <2>3
<1>. QED
  BY <1>2, <1>3

LEMMA Fields ==
  ASSUME NEW q \in ProcRecs
  PROVE  /\ q.pc \in Calls /\ q.key \in ProcKeys /\ q.b \in Branches \cup {None} /\ q.e \in Nat /\ q.cursor \in Nat /\ q.last \in Nat
         /\ q.used \in Nat /\ q.kinds \in SUBSET Kinds /\ q.items \in SUBSET Items /\ q.wr \in SUBSET Items
         /\ q.conf \in SUBSET Clashes /\ q.pend \in SUBSET AllDocs /\ q.stale \in BOOLEAN /\ q.reclaim \in BOOLEAN
BY DEF ProcRecs

LEMMA Facts ==
  ASSUME BasicInv
  PROVE  /\ ChainsOK /\ StoreOK /\ work \in [AllKeys -> WorkRecs] /\ proc \in [AllProcs -> ProcRecs] /\ doc \in [AllDocs -> DocRecs]
         /\ Keys = AllKeys /\ Docs = AllDocs /\ Procs = AllProcs
         /\ \A p \in AllProcs : proc[p] \in ProcRecs /\ ProcOK(p, proc[p])
         /\ \A d \in AllDocs : DocOK(d, doc[d]) /\ doc[d] \in DocRecs
BY DEF BasicInv, StoreOK, ProcsInv, DocsInv, Keys, Docs, Procs

Quiet == /\ UNCHANGED <<chain, snap, made, doc, tx>>
         /\ work' \in [AllKeys -> WorkRecs] /\ sweeps' \in 0 .. MaxSweeps /\ failures' \in 0 .. MaxFailures

LEMMA QuietStep ==
  ASSUME BasicInv, NEW p \in AllProcs, NEW r, ProcOK(p, r), proc' = [proc EXCEPT ![p] = r], Quiet
  PROVE  BasicInv'
<1>1. ProcsInv' /\ proc' \in [AllProcs -> ProcRecs]
  BY ProcStep DEF Quiet
<1>2. DocsInv' /\ ChainsOK'
  BY DocStay DEF Quiet
<1>. QED
  BY <1>1, <1>2 DEF BasicInv, StoreOK, Quiet

LEMMA StillQuiet ==
  ASSUME BasicInv, UNCHANGED <<chain, snap, made, doc, work, tx, sweeps, failures>>
  PROVE  Quiet
BY DEF Quiet, BasicInv, StoreOK

LEMMA ReadEpochBasic == ASSUME BasicInv, NEW p \in AllProcs, ReadEpoch(p) PROVE BasicInv'
<1>. DEFINE q == proc[p]
            r == [q EXCEPT !.pc = "range", !.e = Epoch(q.b)]
<1>1. q \in ProcRecs /\ ProcOK(p, q) /\ q.pc = "epoch" /\ q.b \in Branches
  BY Facts DEF ReadEpoch, ProcOK, Placed
<1>2. Epoch(q.b) \in Nat
  BY <1>1, ChainOK, Facts
<1>3. /\ r \in ProcRecs /\ r.pc = "range" /\ r.b = q.b /\ r.e = Epoch(q.b) /\ r.key = q.key /\ r.items = q.items
      /\ r.wr = q.wr /\ r.conf = q.conf /\ r.stale = q.stale
  BY <1>1, <1>2 DEF ProcRecs, Calls
<1>4. ProcOK(p, r)
  BY <1>1, <1>2, <1>3, ProjectionAssumption DEF ProcOK, Between, Placed, Cargo
<1>5. proc' = [proc EXCEPT ![p] = r]
  BY Facts DEF ReadEpoch
<1>. QED
  BY <1>4, <1>5, QuietStep, StillQuiet DEF ReadEpoch

LEMMA AfterOK ==
  ASSUME BasicInv, NEW b \in Branches, NEW e \in 1 .. Epoch(b), NEW cursor \in Nat
  PROVE  After(b, e, cursor) \in SUBSET (1 .. Len(chain[b][e])) /\ PageOf(b, e, cursor) \in SUBSET (1 .. Len(chain[b][e]))
BY DEF After, PageOf

(* A read of canonical rows. *)
LEMMA ReadStep ==
  ASSUME BasicInv, NEW p \in AllProcs, proc[p].pc \in {"range", "page", "single"},
         NEW r \in ProcRecs, r.b = proc[p].b, r.key = proc[p].key, r.stale => proc[p].stale, r.wr = {}, r.conf = {},
         r.e \in 1 .. Epoch(r.b), r.e >= proc[p].e,
         p \in Runners => r.e = proc[p].e, p \in Numberers => r.e = Epoch(r.b),
         \A i \in r.items : Numbered(r.b, r.e, i), r.stale => r.e < Epoch(r.b)
  PROVE  ProcOK(p, NextCall(p, r))
<1>1. ProcOK(p, proc[p]) /\ proc[p].pc # "idle" /\ r.b \in Branches
  BY Facts DEF ProcOK, Placed
<1>2. Epoch(r.b) \in Nat
  BY <1>1, ChainOK, Facts
<1>3. Placed(p, r) /\ Cargo(r)
  BY <1>1, <1>2 DEF Placed, Cargo, ProcOK
<1>. QED
  BY <1>2, <1>3, NextCallOK

LEMMA ReadRangeBasic == ASSUME BasicInv, NEW p \in AllProcs, ReadRange(p) PROVE BasicInv'
<1>. DEFINE q == proc[p]
            ns == {n \in After(q.b, q.e, q.cursor) : n <= q.last}
            r == [q EXCEPT !.items = Resolved(q.b, q.e, ns, Kinds)]
<1>1. q \in ProcRecs /\ ProcOK(p, q) /\ q.pc = "range" /\ q.b \in Branches /\ q.e \in Nat /\ q.cursor \in Nat /\ p \in Numberers
  BY Facts, Fields DEF ReadRange, ProcOK, Placed, Between
<1>2. Epoch(q.b) \in Nat /\ q.e \in 1 .. Epoch(q.b) /\ q.e = Epoch(q.b)
  BY <1>1, ChainOK, Facts DEF ProcOK, Placed, Between
<1>3. ns \in SUBSET (1 .. Len(chain[q.b][q.e]))
  BY <1>1, <1>2, AfterOK
<1>4. Resolved(q.b, q.e, ns, Kinds) \subseteq Items /\ \A i \in Resolved(q.b, q.e, ns, Kinds) : Numbered(q.b, q.e, i)
  BY <1>1, <1>2, <1>3, ResolvedOK
<1>5. /\ r \in ProcRecs /\ r.b = q.b /\ r.e = q.e /\ r.key = q.key /\ r.items = Resolved(q.b, q.e, ns, Kinds)
      /\ r.wr = q.wr /\ r.conf = q.conf /\ r.stale = q.stale
  BY <1>1, <1>4 DEF ProcRecs
<1>6. q.wr = {} /\ q.conf = {} /\ ~q.stale /\ p \notin Runners
  BY <1>1, <1>2, ProjectionAssumption DEF ProcOK, Between, Cargo
<1>. HIDE DEF r
<1>7. ProcOK(p, NextCall(p, r))
  BY <1>1, <1>2, <1>4, <1>5, <1>6, ReadStep
<1>8. proc' = [proc EXCEPT ![p] = NextCall(p, r)]
  BY Facts DEF ReadRange, r
<1>. QED
  BY <1>7, <1>8, QuietStep, StillQuiet DEF ReadRange

LEMMA ClassifyIs ==
  ASSUME NEW i, doc[i.d] \in DocRecs, NEW b, NEW e, NEW reclaim \in BOOLEAN
  PROVE  /\ Classify(i, b, e, reclaim) \in {"missing", "branch", "stale", "noop", "write"}
         /\ Classify(i, b, e, reclaim) = "missing" => ~doc[i.d].there
         /\ Classify(i, b, e, reclaim) = "branch" =>
              doc[i.d].there /\ doc[i.d].branch # b /\ (i.d \in Pulls \/ (doc[i.d].branch # None /\ ~reclaim))
         /\ Classify(i, b, e, reclaim) = "stale" => doc[i.d].branch = b /\ doc[i.d].epoch > e
         /\ Classify(i, b, e, reclaim) = "noop" => doc[i.d] = Doc(b, e, i.n)
         /\ Classify(i, b, e, reclaim) = "write" =>
              /\ doc[i.d].there /\ ~(doc[i.d].branch = b /\ doc[i.d].epoch > e)
              /\ doc[i.d].branch # b => i.d \notin Pulls /\ (doc[i.d].branch = None \/ reclaim)
<1>1. doc[i.d].there \in BOOLEAN
  BY DEF DocRecs
<1>. QED
  BY <1>1 DEF Classify

LEMMA ItemFields == ASSUME NEW i \in Items PROVE i.d \in AllDocs /\ i.n \in Nat
BY DEF Items

(* What a process has in hand after it looked at the documents. *)
LEMMA ObserveIs ==
  ASSUME BasicInv, NEW p \in AllProcs, Observe(p)
  PROVE  \E r \in ProcRecs :
           /\ proc' = [proc EXCEPT ![p] = NextCall(p, r)]
           /\ r.key = proc[p].key /\ r.b = proc[p].b /\ r.e = proc[p].e /\ r.cursor = proc[p].cursor /\ r.last = proc[p].last
           /\ r.used = proc[p].used /\ r.kinds = proc[p].kinds /\ r.reclaim = proc[p].reclaim /\ r.items = {}
           /\ r.wr = {i \in proc[p].items : Classify(i, proc[p].b, proc[p].e, proc[p].reclaim) = "write"}
           /\ \A c \in r.conf : /\ c.item \in proc[p].items /\ c.item.d \in Shas /\ c.seen = doc[c.item.d].branch /\ ~proc[p].reclaim
                                /\ Classify(c.item, proc[p].b, proc[p].e, proc[p].reclaim) = "branch"
           /\ r.pend \subseteq proc[p].pend \cup {i.d : i \in proc[p].items} /\ proc[p].pend \subseteq r.pend
           /\ \A i \in proc[p].items : \/ Classify(i, proc[p].b, proc[p].e, proc[p].reclaim) \in {"write", "noop", "stale"}
                                       \/ i.d \in r.pend
                                       \/ i.d \in Shas /\ doc[i.d].branch \notin {proc[p].b, None}
           /\ r.stale = (proc[p].stale \/ \E i \in proc[p].items : Classify(i, proc[p].b, proc[p].e, proc[p].reclaim) = "stale")
<1>. DEFINE q == proc[p]
            V(i) == Classify(i, q.b, q.e, q.reclaim)
            Is(v) == {i \in q.items : V(i) \in v}
            clash == IF q.reclaim THEN {} ELSE {i \in Is({"branch"}) : i.d \in Shas}
            wr == Is({"write"})
            conf == {[item |-> i, seen |-> doc[i.d].branch] : i \in clash}
            pend == q.pend \cup {i.d : i \in Is({"missing", "branch"}) \ clash}
            stale == q.stale \/ Is({"stale"}) # {}
            r == [q EXCEPT !.items = {}, !.wr = wr, !.conf = conf, !.pend = pend, !.stale = stale]
<1>1. q \in ProcRecs /\ q.items \subseteq Items /\ q.pend \subseteq AllDocs
  BY Facts, Fields
<1>2. proc' = [proc EXCEPT ![p] = NextCall(p, r)]
  BY DEF Observe
<1>3. \A i \in q.items : i \in Items /\ i.d \in AllDocs /\ doc[i.d] \in DocRecs /\ doc[i.d].branch \in Branches \cup {None}
  BY <1>1, Facts, ItemFields DEF DocRecs
<1>4. clash \subseteq Is({"branch"}) /\ \A i \in clash : i \in q.items /\ i.d \in Shas /\ ~q.reclaim
  OBVIOUS
<1>5. wr \in SUBSET Items /\ pend \in SUBSET AllDocs /\ stale \in BOOLEAN /\ wr = {i \in q.items : V(i) = "write"}
  BY <1>1, <1>3
<1>6. conf \in SUBSET Clashes
  BY <1>3, <1>4 DEF Clashes
<1>7. \A c \in conf : c.item \in q.items /\ c.item.d \in Shas /\ c.seen = doc[c.item.d].branch /\ ~q.reclaim /\ V(c.item) = "branch"
  BY <1>4
<1>8. \A i \in q.items : V(i) \in {"write", "noop", "stale"} \/ i.d \in pend \/ (i.d \in Shas /\ doc[i.d].branch \notin {q.b, None})
  <2>. TAKE i \in q.items
  <2>1. CASE V(i) \notin {"missing", "branch"}
    BY <2>1, <1>3, <1>1, Fields, ClassifyIs
  <2>2. CASE V(i) \in {"missing", "branch"} /\ i \notin clash
    BY <2>2
  <2>3. CASE i \in clash
    BY <2>3, <1>1, <1>3, <1>4, Fields, ClassifyIs, ProjectionAssumption
  <2>. QED
    BY <2>1, <2>2, <2>3
<1>9. pend \subseteq q.pend \cup {i.d : i \in q.items} /\ q.pend \subseteq pend
  OBVIOUS
<1>10. stale = (q.stale \/ \E i \in q.items : V(i) = "stale")
  BY <1>1, Fields
<1>. HIDE DEF wr, conf, pend, stale, clash, Is, V
<1>11. /\ r \in ProcRecs /\ r.key = q.key /\ r.b = q.b /\ r.e = q.e /\ r.cursor = q.cursor /\ r.last = q.last /\ r.used = q.used
       /\ r.kinds = q.kinds /\ r.reclaim = q.reclaim /\ r.items = {} /\ r.wr = wr /\ r.conf = conf /\ r.pend = pend /\ r.stale = stale
  BY <1>1, <1>5, <1>6 DEF ProcRecs
<1>. HIDE DEF r
<1>. QED
  <2>. r \in ProcRecs
    BY <1>11
  <2>. WITNESS r \in ProcRecs
  <2>1. wr = {i \in q.items : V(i) = "write"}
    BY <1>5
  <2>. QED
    BY <2>1, <1>2, <1>7, <1>8, <1>9, <1>10, <1>11 DEF V

(* A process makes its next call with the same round in hand. *)
LEMMA SameRound ==
  ASSUME BasicInv, NEW p \in AllProcs, proc[p].pc \in {"observe", "bulk", "holders"},
         NEW r \in ProcRecs, r.key = proc[p].key, r.b = proc[p].b, r.e = proc[p].e, Cargo(r),
         r.items # {} => r.wr = {} /\ r.conf = {}
  PROVE  ProcOK(p, NextCall(p, r)) /\ proc[p].b \in Branches /\ proc[p].e \in 1 .. Epoch(proc[p].b) /\ Epoch(proc[p].b) \in Nat
<1>1. ProcOK(p, proc[p]) /\ proc[p].pc \notin {"idle", "epoch", "single", "settle"} /\ proc[p].e \in Nat
  BY Facts, Fields
<1>2. Placed(p, proc[p]) /\ proc[p].e > 0 /\ (p \in Numberers => proc[p].e = Epoch(proc[p].b))
  BY <1>1 DEF ProcOK, Between
<1>3. Placed(p, r) /\ r.e > 0 /\ (p \in Numberers => r.e = Epoch(r.b))
  BY <1>2 DEF Placed
<1>4. Epoch(r.b) \in Nat /\ r.b \in Branches
  BY <1>3, ChainOK, Facts DEF Placed
<1>. QED
  BY <1>1, <1>2, <1>3, <1>4, NextCallOK DEF Placed

LEMMA ObserveBasic == ASSUME BasicInv, NEW p \in AllProcs, Observe(p) PROVE BasicInv'
<1>1. PICK r \in ProcRecs :
           /\ proc' = [proc EXCEPT ![p] = NextCall(p, r)]
           /\ r.key = proc[p].key /\ r.b = proc[p].b /\ r.e = proc[p].e /\ r.items = {}
           /\ r.wr = {i \in proc[p].items : Classify(i, proc[p].b, proc[p].e, proc[p].reclaim) = "write"}
           /\ \A c \in r.conf : /\ c.item \in proc[p].items /\ c.item.d \in Shas /\ c.seen = doc[c.item.d].branch
                                /\ Classify(c.item, proc[p].b, proc[p].e, proc[p].reclaim) = "branch"
           /\ r.stale = (proc[p].stale \/ \E i \in proc[p].items : Classify(i, proc[p].b, proc[p].e, proc[p].reclaim) = "stale")
  BY ObserveIs
<1>2. /\ ProcOK(p, proc[p]) /\ proc[p].pc = "observe" /\ proc[p].items \subseteq Items /\ proc[p].e \in Nat /\ proc[p].b \in Branches
      /\ proc[p].reclaim \in BOOLEAN /\ Cargo(proc[p])
  BY Facts, Fields DEF Observe, ProcOK, Placed
<1>3. Epoch(proc[p].b) \in Nat
  BY <1>2, ChainOK, Facts
<1>4. \A i \in proc[p].items : i.d \in AllDocs /\ doc[i.d] \in DocRecs /\ DocOK(i.d, doc[i.d])
  BY <1>2, Facts, ItemFields
<1>5. ASSUME NEW c \in r.conf
      PROVE  Numbered(proc[p].b, proc[p].e, c.item) /\ c.item.d \in Shas /\ c.seen \in Branches \ {proc[p].b}
  BY <1>1, <1>2, <1>4, <1>5, ClassifyIs, ProjectionAssumption DEF Cargo, DocRecs
<1>6. r.stale => proc[p].e < Epoch(proc[p].b)
  <2>1. ASSUME NEW i \in proc[p].items, Classify(i, proc[p].b, proc[p].e, proc[p].reclaim) = "stale"
        PROVE  proc[p].e < Epoch(proc[p].b)
    <3>1. doc[i.d].branch = proc[p].b /\ doc[i.d].epoch > proc[p].e /\ doc[i.d].epoch \in Nat
      BY <2>1, <1>2, <1>4, ClassifyIs DEF DocRecs
    <3>2. doc[i.d].epoch <= Epoch(proc[p].b)
      BY <3>1, <1>2, <1>4, ProjectionAssumption DEF DocOK
    <3>. QED
      BY <1>2, <1>3, <3>1, <3>2
  <2>. QED
    BY <2>1, <1>1, <1>2 DEF Cargo
<1>7. Cargo(r)
  BY <1>1, <1>2, <1>5, <1>6 DEF Cargo
<1>8. ProcOK(p, NextCall(p, r))
  BY <1>1, <1>2, <1>7, SameRound
<1>. QED
  BY <1>1, <1>8, QuietStep, StillQuiet DEF Observe

LEMMA HoldersIs ==
  ASSUME BasicInv, NEW p \in AllProcs, Holders(p)
  PROVE  \E r \in ProcRecs :
           /\ proc' = [proc EXCEPT ![p] = NextCall(p, r)]
           /\ r.key = proc[p].key /\ r.b = proc[p].b /\ r.e = proc[p].e /\ r.cursor = proc[p].cursor /\ r.last = proc[p].last
           /\ r.used = proc[p].used /\ r.kinds = proc[p].kinds /\ r.reclaim = TRUE /\ r.conf = {}
           /\ \A i \in r.items : \E c \in proc[p].conf : i = c.item
           /\ r.wr = proc[p].wr /\ r.pend = proc[p].pend /\ r.stale = proc[p].stale
<1>. DEFINE q == proc[p]
            take == {c.item : c \in {c \in q.conf : ~Holds(c.seen, c.item.d)}}
            r == [q EXCEPT !.items = take, !.conf = {}, !.reclaim = TRUE]
<1>1. q \in ProcRecs /\ q.conf \subseteq Clashes
  BY Facts, Fields
<1>2. take \in SUBSET Items /\ \A i \in take : \E c \in q.conf : i = c.item
  BY <1>1 DEF Clashes
<1>3. proc' = [proc EXCEPT ![p] = NextCall(p, r)]
  BY DEF Holders
<1>. HIDE DEF take
<1>4. /\ r \in ProcRecs /\ r.key = q.key /\ r.b = q.b /\ r.e = q.e /\ r.cursor = q.cursor /\ r.last = q.last /\ r.used = q.used
      /\ r.kinds = q.kinds /\ r.reclaim = TRUE /\ r.items = take /\ r.wr = q.wr /\ r.conf = {} /\ r.pend = q.pend /\ r.stale = q.stale
  BY <1>1, <1>2 DEF ProcRecs
<1>. HIDE DEF r
<1>. QED
  BY <1>2, <1>3, <1>4

LEMMA HoldersBasic == ASSUME BasicInv, NEW p \in AllProcs, Holders(p) PROVE BasicInv'
<1>1. PICK r \in ProcRecs :
           /\ proc' = [proc EXCEPT ![p] = NextCall(p, r)]
           /\ r.key = proc[p].key /\ r.b = proc[p].b /\ r.e = proc[p].e /\ r.conf = {}
           /\ \A i \in r.items : \E c \in proc[p].conf : i = c.item
           /\ r.wr = proc[p].wr /\ r.stale = proc[p].stale
  BY ZenonT(60), HoldersIs
<1>2. ProcOK(p, proc[p]) /\ proc[p].pc = "holders"
  BY Facts DEF Holders
<1>3. proc[p].wr = {} /\ Cargo(proc[p])
  BY <1>2 DEF ProcOK, Between
<1>4. Cargo(r)
  BY <1>1, <1>3 DEF Cargo
<1>5. ProcOK(p, NextCall(p, r))
  BY <1>1, <1>2, <1>3, <1>4, SameRound
<1>. QED
  BY <1>1, <1>5, QuietStep, StillQuiet DEF Holders

LEMMA At ==
  ASSUME NEW q \in ProcRecs, NEW c \in Calls
  PROVE  LET r == [q EXCEPT !.pc = c]
         IN  /\ r \in ProcRecs /\ r.pc = c /\ r.key = q.key /\ r.b = q.b /\ r.e = q.e /\ r.cursor = q.cursor /\ r.last = q.last
             /\ r.used = q.used /\ r.kinds = q.kinds /\ r.reclaim = q.reclaim /\ r.items = q.items /\ r.wr = q.wr
             /\ r.conf = q.conf /\ r.pend = q.pend /\ r.stale = q.stale
BY DEF ProcRecs

LEMMA PageIs ==
  ASSUME BasicInv, NEW b \in Branches, NEW e \in 1 .. Epoch(b), NEW cursor \in Nat
  PROVE  LET m == cursor + Cardinality(PageOf(b, e, cursor))
         IN  /\ PageOf(b, e, cursor) = cursor + 1 .. m /\ m \in Nat
             /\ PageOf(b, e, cursor) # {} => cursor < m /\ m <= Len(chain[b][e])
<1>. DEFINE len == Len(chain[b][e])
            last == IF len < cursor + PageSize THEN len ELSE cursor + PageSize
<1>1. len \in Nat /\ PageSize \in Nat
  BY ChainOK, ProjectionAssumption DEF BasicInv
<1>2. PageOf(b, e, cursor) = cursor + 1 .. last
  BY <1>1 DEF PageOf, After
<1>3. Cardinality(PageOf(b, e, cursor)) = IF cursor + 1 > last THEN 0 ELSE last - cursor
  <2>1. cursor + 1 \in Int /\ last \in Int
    BY <1>1
  <2>. HIDE DEF last
  <2>2. Cardinality(cursor + 1 .. last) = IF cursor + 1 > last THEN 0 ELSE last - (cursor + 1) + 1
    BY <2>1, FS_Interval
  <2>. QED
    BY <1>2, <2>1, <2>2
<1>. QED
  BY <1>1, <1>2, <1>3

LEMMA ReadPageIs ==
  ASSUME BasicInv, NEW p \in AllProcs, ReadPage(p)
  PROVE  \/ /\ proc' = [proc EXCEPT ![p] = [proc[p] EXCEPT !.pc = "exhausted"]]
         \/ /\ proc' = [proc EXCEPT ![p] = [proc[p] EXCEPT !.pc = "obsolete"]] /\ Epoch(proc[p].b) # proc[p].e
         \/ \E r \in ProcRecs :
              /\ proc' = [proc EXCEPT ![p] = NextCall(p, r)] /\ Epoch(proc[p].b) = proc[p].e
              /\ r.key = proc[p].key /\ r.b = proc[p].b /\ r.e = proc[p].e /\ r.cursor = proc[p].cursor
              /\ r.cursor < r.last /\ r.last <= Len(chain[r.b][r.e])
              /\ r.used = proc[p].used /\ r.kinds = proc[p].kinds /\ r.reclaim = FALSE /\ r.pend = {}
              /\ r.items = Resolved(r.b, r.e, r.cursor + 1 .. r.last, r.kinds)
              /\ r.wr = proc[p].wr /\ r.conf = proc[p].conf /\ r.stale = proc[p].stale
<1>. DEFINE q == proc[p]
            ns == PageOf(q.b, q.e, q.cursor)
            last == q.cursor + Cardinality(ns)
            items == Resolved(q.b, q.e, ns, q.kinds)
            r == [q EXCEPT !.items = items, !.last = last, !.reclaim = FALSE, !.pend = {}]
<1>1. q \in ProcRecs /\ q.b \in Branches /\ q.e \in Nat /\ q.cursor \in Nat /\ q.e > 0 /\ q.e <= Epoch(q.b)
  BY Facts, Fields DEF ReadPage, ProcOK, Placed, Between
<1>2. Epoch(q.b) \in Nat /\ q.e \in 1 .. Epoch(q.b)
  BY <1>1, ChainOK, Facts
<1>3. proc' = [proc EXCEPT ![p] = IF ns = {} THEN [q EXCEPT !.pc = "exhausted"]
                                  ELSE IF Epoch(q.b) # q.e THEN [q EXCEPT !.pc = "obsolete"]
                                  ELSE NextCall(p, r)]
  BY DEF ReadPage
<1>4. CASE ns = {} \/ Epoch(q.b) # q.e
  BY <1>3, <1>4
<1>5. CASE ns # {} /\ Epoch(q.b) = q.e
  <2>1. ns = q.cursor + 1 .. last /\ last \in Nat /\ q.cursor < last /\ last <= Len(chain[q.b][q.e])
    BY <1>1, <1>2, <1>5, PageIs
  <2>2. ns \in SUBSET (1 .. Len(chain[q.b][q.e]))
    BY <1>1, <1>2, AfterOK
  <2>3. items \in SUBSET Items
    BY <1>1, <1>2, <2>2, ResolvedOK
  <2>4. proc' = [proc EXCEPT ![p] = NextCall(p, r)]
    BY <1>3, <1>5
  <2>5. items = Resolved(q.b, q.e, q.cursor + 1 .. last, q.kinds)
    BY <2>1
  <2>. HIDE DEF ns, last, items
  <2>6. /\ r \in ProcRecs /\ r.key = q.key /\ r.b = q.b /\ r.e = q.e /\ r.cursor = q.cursor /\ r.last = last /\ r.used = q.used
        /\ r.kinds = q.kinds /\ r.reclaim = FALSE /\ r.items = items /\ r.wr = q.wr /\ r.conf = q.conf /\ r.pend = {} /\ r.stale = q.stale
    BY <1>1, <2>1, <2>3 DEF ProcRecs
  <2>. HIDE DEF r
  <2>. QED
    BY <2>1, <2>4, <2>5, <2>6, <1>5
<1>. QED
  BY <1>4, <1>5

(* A runner moves on within its row. *)
LEMMA RunnerMoves ==
  ASSUME BasicInv, NEW p \in AllProcs, proc[p].pc \in {"page", "settle", "save"},
         proc[p].pc = "settle" => p \in Runners /\ proc[p].key[3] \in {"tail", "full"},
         NEW r \in ProcRecs, r.key = proc[p].key, r.b = proc[p].b, r.e = proc[p].e, r.stale = proc[p].stale,
         r.items = {}, r.wr = {}, r.conf = {}, r.pc \in {"page", "exhausted", "obsolete", "save"},
         r.stale => r.pc = "obsolete"
  PROVE  ProcOK(p, r)
<1>1. ProcOK(p, proc[p]) /\ p \in Runners /\ proc[p].key[3] \in {"tail", "full"}
  BY Facts DEF ProcOK, Between
<1>2. Placed(p, proc[p])
  BY <1>1 DEF ProcOK
<1>3. Placed(p, r) /\ p \notin Numberers /\ r.key \in AllKeys /\ r.key[2] = r.e
  BY <1>1, <1>2, ProjectionAssumption DEF Placed
<1>4. r.e > 0
  BY <1>3 DEF AllKeys
<1>5. Cargo(r)
  BY <1>1 DEF Cargo, ProcOK
<1>. QED
  BY <1>1, <1>3, <1>4, <1>5 DEF ProcOK, Between

LEMMA ReadPageBasic == ASSUME BasicInv, NEW p \in AllProcs, ReadPage(p) PROVE BasicInv'
<1>1. /\ ProcOK(p, proc[p]) /\ proc[p] \in ProcRecs /\ proc[p].pc = "page" /\ proc[p].kinds \in SUBSET Kinds
      /\ proc[p].e \in Nat /\ proc[p].cursor \in Nat
  BY Facts, Fields DEF ReadPage
<1>2. proc[p].items = {} /\ proc[p].wr = {} /\ proc[p].conf = {} /\ ~proc[p].stale /\ p \in Runners /\ proc[p].b \in Branches
  BY <1>1, Fields DEF ProcOK, Between, Placed
<1>3. ASSUME NEW c \in {"exhausted", "obsolete"}, proc' = [proc EXCEPT ![p] = [proc[p] EXCEPT !.pc = c]]
      PROVE  BasicInv'
  <2>. DEFINE r == [proc[p] EXCEPT !.pc = c]
  <2>1. /\ r \in ProcRecs /\ r.pc = c /\ r.key = proc[p].key /\ r.b = proc[p].b /\ r.e = proc[p].e /\ r.stale = proc[p].stale
        /\ r.items = {} /\ r.wr = {} /\ r.conf = {}
    BY <1>1, <1>2 DEF ProcRecs, Calls
  <2>. HIDE DEF r
  <2>2. ProcOK(p, r)
    BY <1>1, <1>2, <2>1, RunnerMoves
  <2>. QED
    BY <1>3, <2>2, QuietStep, StillQuiet DEF ReadPage, r
<1>4. ASSUME NEW r \in ProcRecs, proc' = [proc EXCEPT ![p] = NextCall(p, r)], Epoch(proc[p].b) = proc[p].e,
             r.key = proc[p].key, r.b = proc[p].b, r.e = proc[p].e, r.cursor = proc[p].cursor, r.last <= Len(chain[r.b][r.e]),
             r.items = Resolved(r.b, r.e, r.cursor + 1 .. r.last, r.kinds),
             r.wr = proc[p].wr, r.conf = proc[p].conf, r.stale = proc[p].stale
      PROVE  BasicInv'
  <2>1. Epoch(r.b) \in Nat /\ r.e \in 1 .. Epoch(r.b) /\ r.cursor \in Nat /\ r.last \in Nat
    BY <1>1, <1>2, <1>4, ChainOK, Facts, Fields DEF ProcOK, Between
  <2>2. r.cursor + 1 .. r.last \in SUBSET (1 .. Len(chain[r.b][r.e]))
    BY <2>1, <1>4, <1>2, ChainOK, Facts
  <2>. DEFINE ns == r.cursor + 1 .. r.last
  <2>. HIDE DEF ns
  <2>3. \A i \in r.items : Numbered(r.b, r.e, i)
    <3>1. r.b \in Branches /\ ns \in SUBSET (1 .. Len(chain[r.b][r.e]))
      BY <2>2, <1>2, <1>4 DEF ns
    <3>2. \A i \in Resolved(r.b, r.e, ns, r.kinds) : Numbered(r.b, r.e, i)
      BY <2>1, <3>1, ResolvedOK
    <3>. QED
      BY <3>2, <1>4 DEF ns
  <2>4. ProcOK(p, NextCall(p, r))
    BY <1>1, <1>2, <1>4, <2>1, <2>3, ReadStep, ProjectionAssumption
  <2>. QED
    BY <1>4, <2>4, QuietStep, StillQuiet DEF ReadPage
<1>. QED
  BY <1>3, <1>4, ReadPageIs

LEMMA ReadSingleIs ==
  ASSUME BasicInv, NEW p \in AllProcs, ReadSingle(p)
  PROVE  \E r \in ProcRecs :
           /\ proc' = [proc EXCEPT ![p] = NextCall(p, r)]
           /\ r.key = proc[p].key /\ r.b = proc[p].b /\ r.e = proc[p].e /\ r.cursor = proc[p].cursor /\ r.last = proc[p].last
           /\ r.used = proc[p].used /\ r.kinds = proc[p].kinds /\ r.reclaim = proc[p].reclaim /\ r.conf = proc[p].conf
           /\ r.items = {i \in Resolved(r.b, r.e, After(r.b, r.e, 0), Kinds) : i.d = r.key[3]}
           /\ r.wr = proc[p].wr /\ r.pend = proc[p].pend /\ r.stale = proc[p].stale
           /\ r.b \in Branches /\ r.e \in 1 .. Epoch(r.b)
<1>. DEFINE q == proc[p]
            found == {i \in Resolved(q.b, q.e, After(q.b, q.e, 0), Kinds) : i.d = q.key[3]}
            r == [q EXCEPT !.items = found]
<1>1. q \in ProcRecs /\ q.b \in Branches /\ q.e \in Nat /\ q.key \in AllKeys /\ q.key[2] = q.e /\ q.e <= Epoch(q.b)
  BY Facts, Fields DEF ReadSingle, ProcOK, Placed
<1>2. q.e \in 1 .. Epoch(q.b)
  BY <1>1, ChainOK, Facts DEF AllKeys
<1>3. After(q.b, q.e, 0) \in SUBSET (1 .. Len(chain[q.b][q.e]))
  BY <1>1, <1>2, AfterOK
<1>4. found \in SUBSET Items
  BY <1>1, <1>2, <1>3, ResolvedOK
<1>5. proc' = [proc EXCEPT ![p] = NextCall(p, r)]
  BY DEF ReadSingle
<1>6. found = {i \in Resolved(q.b, q.e, After(q.b, q.e, 0), Kinds) : i.d = q.key[3]}
  OBVIOUS
<1>. HIDE DEF found
<1>7. /\ r \in ProcRecs /\ r.key = q.key /\ r.b = q.b /\ r.e = q.e /\ r.cursor = q.cursor /\ r.last = q.last /\ r.used = q.used
      /\ r.kinds = q.kinds /\ r.reclaim = q.reclaim /\ r.items = found /\ r.wr = q.wr /\ r.conf = q.conf /\ r.pend = q.pend /\ r.stale = q.stale
  BY <1>1, <1>4 DEF ProcRecs
<1>. HIDE DEF r
<1>. QED
  BY ZenonT(60), <1>1, <1>2, <1>5, <1>6, <1>7

LEMMA ReadSingleBasic == ASSUME BasicInv, NEW p \in AllProcs, ReadSingle(p) PROVE BasicInv'
<1>1. PICK r \in ProcRecs :
           /\ proc' = [proc EXCEPT ![p] = NextCall(p, r)]
           /\ r.key = proc[p].key /\ r.b = proc[p].b /\ r.e = proc[p].e /\ r.conf = proc[p].conf
           /\ r.items = {i \in Resolved(r.b, r.e, After(r.b, r.e, 0), Kinds) : i.d = r.key[3]}
           /\ r.wr = proc[p].wr /\ r.stale = proc[p].stale /\ r.b \in Branches /\ r.e \in 1 .. Epoch(r.b)
  BY ReadSingleIs
<1>2. ProcOK(p, proc[p]) /\ proc[p].pc = "single" /\ p \in Runners /\ proc[p].stale \in BOOLEAN /\ proc[p].e \in Nat
  BY Facts, Fields DEF ReadSingle
<1>3. proc[p].wr = {} /\ proc[p].conf = {} /\ ~proc[p].stale
  BY <1>2 DEF ProcOK, Between
<1>. DEFINE ns == After(r.b, r.e, 0)
<1>4. ns \in SUBSET (1 .. Len(chain[r.b][r.e]))
  BY <1>1, AfterOK
<1>5. \A i \in Resolved(r.b, r.e, ns, Kinds) : Numbered(r.b, r.e, i)
  BY <1>1, <1>4, ResolvedOK
<1>6. \A i \in r.items : Numbered(r.b, r.e, i)
  BY <1>1, <1>5
<1>. HIDE DEF ns
<1>7. ProcOK(p, NextCall(p, r))
  BY <1>1, <1>2, <1>3, <1>6, ReadStep, ProjectionAssumption
<1>. QED
  BY <1>1, <1>7, QuietStep, StillQuiet DEF ReadSingle

LEMMA PositionOK ==
  ASSUME BasicInv, NEW b \in Branches, NEW s \in Shas, Holds(b, s)
  PROVE  LET n == Position(chain[b][Epoch(b)], s)
         IN  /\ Epoch(b) \in 1 .. Epoch(b) /\ Epoch(b) \in Nat
             /\ n \in 1 .. Len(chain[b][Epoch(b)]) /\ n \in Nat /\ chain[b][Epoch(b)][n] = s /\ May(b, s)
<1>1. Epoch(b) \in Nat /\ Epoch(b) \in 1 .. Epoch(b)
  BY ChainOK, Facts DEF Holds
<1>2. /\ chain[b][Epoch(b)] \in Seq(Shas) /\ chain[b][Epoch(b)] \in Histories[b] /\ Len(chain[b][Epoch(b)]) \in Nat
      /\ s \in Range(chain[b][Epoch(b)])
  BY <1>1, ChainOK, Facts DEF Holds
<1>3. \E n \in 1 .. Len(chain[b][Epoch(b)]) : chain[b][Epoch(b)][n] = s
  BY <1>2 DEF Range
<1>4. May(b, s)
  BY <1>2 DEF May
<1>5. /\ Position(chain[b][Epoch(b)], s) \in 1 .. Len(chain[b][Epoch(b)])
      /\ chain[b][Epoch(b)][Position(chain[b][Epoch(b)], s)] = s
  BY <1>3 DEF Position
<1>. QED
  BY <1>1, <1>2, <1>4, <1>5

LEMMA EnrichTargetBasic == ASSUME BasicInv, NEW p \in AllProcs, EnrichTarget(p) PROVE BasicInv'
<1>. DEFINE q == proc[p]
            s == q.key[3]
            found == IF Holds(q.b, s) THEN {[d |-> s, n |-> Position(chain[q.b][Epoch(q.b)], s)]} ELSE {}
            r == [q EXCEPT !.e = Epoch(q.b), !.items = found]
<1>1. /\ q \in ProcRecs /\ ProcOK(p, q) /\ q.pc = "single" /\ p \in Enrichers /\ q.b \in Branches /\ s \in Shas /\ q.e \in Nat
      /\ q.stale \in BOOLEAN
  BY Facts, Fields DEF EnrichTarget, ProcOK, Placed
<1>2. Epoch(q.b) \in Nat /\ q.e <= Epoch(q.b) /\ Epoch(q.b) > 0
  BY <1>1, ChainOK, Facts DEF ProcOK, Placed
<1>3. q.wr = {} /\ q.conf = {} /\ ~q.stale
  BY <1>1 DEF ProcOK, Between
<1>4. found \subseteq Items /\ \A i \in found : Numbered(q.b, Epoch(q.b), i)
  BY <1>1, PositionOK, ProjectionAssumption DEF Items, Numbered, AllDocs, ShaOf
<1>5. proc' = [proc EXCEPT ![p] = NextCall(p, r)]
  BY DEF EnrichTarget
<1>. HIDE DEF found
<1>6. /\ r \in ProcRecs /\ r.key = q.key /\ r.b = q.b /\ r.e = Epoch(q.b) /\ r.items = found /\ r.wr = q.wr /\ r.conf = q.conf
      /\ r.stale = q.stale
  BY <1>1, <1>2, <1>4 DEF ProcRecs
<1>. HIDE DEF r
<1>7. ProcOK(p, NextCall(p, r))
  BY <1>1, <1>2, <1>3, <1>4, <1>6, ReadStep, ProjectionAssumption
<1>. QED
  BY <1>5, <1>7, QuietStep, StillQuiet DEF EnrichTarget

LEMMA DelegateBasic == ASSUME BasicInv, NEW p \in AllProcs, Delegate(p) PROVE BasicInv'
<1>. DEFINE q == proc[p]
            c == IF q.stale THEN "obsolete" ELSE "save"
            r == [q EXCEPT !.pc = c]
            ks == {<<q.b, q.e, d>> : d \in q.pend}
<1>1. q \in ProcRecs /\ ProcOK(p, q) /\ q.pc = "settle" /\ p \in Runners /\ q.stale \in BOOLEAN /\ q.key \in AllKeys /\ q.key[3] \notin AllDocs
  BY Facts, Fields DEF Delegate, ProcOK, Placed
<1>2. q.items = {} /\ q.wr = {} /\ q.conf = {} /\ q.key[3] \in {"tail", "full"}
  BY <1>1 DEF ProcOK, Between, AllKeys
<1>3. /\ r \in ProcRecs /\ r.pc = c /\ r.key = q.key /\ r.b = q.b /\ r.e = q.e /\ r.items = {} /\ r.wr = {} /\ r.conf = {}
      /\ r.stale = q.stale
  BY <1>1, <1>2 DEF ProcRecs, Calls
<1>4. ProcOK(p, r)
  <2>. HIDE DEF r
  <2>. QED
    BY <1>1, <1>2, <1>3, RunnerMoves
<1>5. work' = IF q.stale THEN work ELSE RequestAll(work, ks, Kinds)
  BY DEF Delegate
<1>6. proc' = [proc EXCEPT ![p] = r]
  BY Facts DEF Delegate
<1>7. work' \in [AllKeys -> WorkRecs]
  <2>. HIDE DEF ks
  <2>. QED
    BY <1>5, RequestAllOK, Facts
<1>8. Quiet
  BY <1>7 DEF Delegate, Quiet, BasicInv, StoreOK
<1>. QED
  BY <1>4, <1>6, <1>8, QuietStep

(* A process is done with its round. *)
LEMMA GoesIdle ==
  ASSUME BasicInv, NEW p \in AllProcs, proc' = [proc EXCEPT ![p] = Idle], Quiet
  PROVE  BasicInv'
BY QuietStep, IdleProc

LEMMA RowSet ==
  ASSUME BasicInv, NEW k, NEW w \in WorkRecs, work' = [work EXCEPT ![k] = w]
  PROVE  work' \in [AllKeys -> WorkRecs]
BY Facts

LEMMA SavePageIs ==
  ASSUME BasicInv, NEW p \in AllProcs, SavePage(p)
  PROVE  /\ p \in Runners /\ proc[p].key \in AllKeys /\ work[proc[p].key] \in WorkRecs
         /\ work' = [work EXCEPT ![proc[p].key] = Saved(work[proc[p].key], p, proc[p].last, FALSE)]
         /\ \E r \in ProcRecs :
              /\ proc' = [proc EXCEPT ![p] = r] /\ r.pc \in {"exhausted", "page"}
              /\ r.key = proc[p].key /\ r.b = proc[p].b /\ r.e = proc[p].e /\ r.cursor = proc[p].last /\ r.last = proc[p].last
              /\ r.kinds = proc[p].kinds /\ r.reclaim = proc[p].reclaim /\ r.conf = proc[p].conf
              /\ r.items = proc[p].items /\ r.wr = proc[p].wr /\ r.pend = proc[p].pend /\ r.stale = proc[p].stale
<1>. DEFINE q == proc[p]
            end == q.used + 1 = PagesPerClaim \/ q.last < q.cursor + PageSize
            c == IF end THEN "exhausted" ELSE "page"
            u == q.used + 1
            r == [q EXCEPT !.pc = c, !.cursor = q.last, !.used = u]
<1>1. q \in ProcRecs /\ ProcOK(p, q) /\ q.pc = "save" /\ q.last \in Nat /\ q.used \in Nat
  BY Facts, Fields DEF SavePage
<1>2. p \in Runners /\ q.key \in AllKeys
  BY <1>1 DEF ProcOK, Between, Placed
<1>. HIDE DEF end
<1>a. c \in {"exhausted", "page"} /\ u \in Nat
  BY <1>1
<1>b. [q EXCEPT !.pc = c, !.cursor = q.last, !.used = @ + 1] = r
  BY <1>1
<1>. HIDE DEF c, u
<1>3. /\ r \in ProcRecs /\ r.pc \in {"exhausted", "page"} /\ r.key = q.key /\ r.b = q.b /\ r.e = q.e /\ r.cursor = q.last /\ r.last = q.last
      /\ r.kinds = q.kinds /\ r.reclaim = q.reclaim /\ r.items = q.items /\ r.wr = q.wr /\ r.conf = q.conf /\ r.pend = q.pend /\ r.stale = q.stale
  BY <1>1, <1>a DEF ProcRecs, Calls
<1>4. proc' = [proc EXCEPT ![p] = r]
  BY <1>b DEF SavePage, end, c
<1>. HIDE DEF r
<1>5. work' = [work EXCEPT ![q.key] = Saved(work[q.key], p, q.last, FALSE)]
  BY <1>2, Facts DEF SavePage
<1>. QED
  BY <1>2, <1>3, <1>4, <1>5, Facts

LEMMA SavePageBasic == ASSUME BasicInv, NEW p \in AllProcs, SavePage(p) PROVE BasicInv'
<1>1. PICK r \in ProcRecs :
              /\ proc' = [proc EXCEPT ![p] = r] /\ r.pc \in {"exhausted", "page"}
              /\ r.key = proc[p].key /\ r.b = proc[p].b /\ r.e = proc[p].e /\ r.conf = proc[p].conf
              /\ r.items = proc[p].items /\ r.wr = proc[p].wr /\ r.stale = proc[p].stale
  BY SavePageIs
<1>2. ProcOK(p, proc[p]) /\ proc[p].pc = "save" /\ proc[p].last \in Nat /\ proc[p] \in ProcRecs /\ proc[p].stale \in BOOLEAN
  BY Facts, Fields DEF SavePage
<1>3. proc[p].items = {} /\ proc[p].wr = {} /\ proc[p].conf = {} /\ ~proc[p].stale
  BY <1>2 DEF ProcOK, Between
<1>4. ProcOK(p, r)
  BY <1>1, <1>2, <1>3, RunnerMoves
<1>5. Saved(work[proc[p].key], p, proc[p].last, FALSE) \in WorkRecs
  BY <1>2, SavePageIs, SavedOK
<1>6. Quiet
  BY <1>5, SavePageIs, RowSet DEF SavePage, Quiet, BasicInv, StoreOK
<1>. QED
  BY <1>1, <1>4, <1>6, QuietStep

LEMMA RunnerKey ==
  ASSUME BasicInv, NEW p \in Runners, proc[p].pc # "idle"
  PROVE  /\ p \in AllProcs /\ proc[p] \in ProcRecs /\ proc[p].key \in AllKeys /\ work[proc[p].key] \in WorkRecs
         /\ proc[p].b \in Branches /\ proc[p].key = <<proc[p].b, proc[p].e, proc[p].key[3]>>
         /\ proc[p].e \in 1 .. Epoch(proc[p].b) /\ Epoch(proc[p].b) \in Nat /\ proc[p].e \in Nat
<1>1. p \in AllProcs
  BY DEF AllProcs
<1>2. proc[p] \in ProcRecs /\ proc[p].key \in AllKeys /\ proc[p].key[1] = proc[p].b /\ proc[p].key[2] = proc[p].e /\ proc[p].b \in Branches
      /\ proc[p].e <= Epoch(proc[p].b)
  BY <1>1, Facts DEF ProcOK, Placed
<1>3. work[proc[p].key] \in WorkRecs /\ Epoch(proc[p].b) \in Nat
  BY <1>2, Facts, ChainOK
<1>. QED
  BY <1>1, <1>2, <1>3 DEF AllKeys

LEMMA FinishSweepIs ==
  ASSUME BasicInv, NEW p \in AllProcs, FinishSweep(p)
  PROVE  LET q == proc[p]
             done == After(q.b, q.e, q.cursor) = {}
             w == Released(Saved(work[q.key], p, q.cursor, done), p, IF done THEN "done" ELSE "due")
         IN  /\ p \in Runners /\ q.pc = "exhausted" /\ q.cursor \in Nat
             /\ work' = [work EXCEPT ![q.key] = w] /\ w \in WorkRecs /\ proc' = [proc EXCEPT ![p] = Idle]
<1>1. p \in Runners /\ proc[p].pc = "exhausted" /\ proc[p].cursor \in Nat
  BY Facts, Fields DEF FinishSweep, ProcOK, Between
<1>2. proc[p].key \in AllKeys /\ work[proc[p].key] \in WorkRecs /\ proc[p] \in ProcRecs
  BY <1>1, RunnerKey
<1>. DEFINE done == After(proc[p].b, proc[p].e, proc[p].cursor) = {}
<1>3. done \in BOOLEAN
  OBVIOUS
<1>. HIDE DEF done
<1>4. Saved(work[proc[p].key], p, proc[p].cursor, done) \in WorkRecs
  BY <1>1, <1>2, <1>3, SavedOK
<1>5. Released(Saved(work[proc[p].key], p, proc[p].cursor, done), p, IF done THEN "done" ELSE "due") \in WorkRecs
  BY <1>1, <1>4, ReleasedOK DEF WorkStates
<1>. QED
  BY <1>1, <1>2, <1>5, Facts DEF FinishSweep, done

LEMMA FinishSweepBasic == ASSUME BasicInv, NEW p \in AllProcs, FinishSweep(p) PROVE BasicInv'
<1>0. PICK w \in WorkRecs : work' = [work EXCEPT ![proc[p].key] = w]
  BY FinishSweepIs
<1>1. work' \in [AllKeys -> WorkRecs] /\ proc' = [proc EXCEPT ![p] = Idle]
  BY <1>0, FinishSweepIs, RowSet
<1>. QED
  BY <1>1, GoesIdle DEF FinishSweep, Quiet, BasicInv, StoreOK

LEMMA ReleaseRow ==
  ASSUME BasicInv, NEW p \in Runners, proc[p].pc # "idle", NEW state \in WorkStates
  PROVE  [work EXCEPT ![proc[p].key] = Released(@, p, state)] \in [AllKeys -> WorkRecs]
<1>1. proc[p].key \in AllKeys /\ work[proc[p].key] \in WorkRecs
  BY RunnerKey
<1>2. Released(work[proc[p].key], p, state) \in WorkRecs
  BY <1>1, ReleasedOK
<1>. QED
  BY <1>1, <1>2, Facts

LEMMA ObsoleteBasic == ASSUME BasicInv, NEW p \in AllProcs, Obsolete(p) PROVE BasicInv'
<1>1. p \in Runners
  BY Facts DEF Obsolete, ProcOK, Between
<1>2. work' \in [AllKeys -> WorkRecs] /\ proc' = [proc EXCEPT ![p] = Idle]
  BY <1>1, ReleaseRow DEF Obsolete, WorkStates
<1>. QED
  BY <1>2, GoesIdle DEF Obsolete, Quiet, BasicInv, StoreOK

LEMMA SettleDocBasic == ASSUME BasicInv, NEW p \in AllProcs, SettleDoc(p) PROVE BasicInv'
<1>1. PICK state \in {"obsolete", "done", "due", "parked"} :
           /\ state = "parked" => failures < MaxFailures
           /\ failures' = IF state = "parked" THEN failures + 1 ELSE failures
           /\ work' = [work EXCEPT ![proc[p].key] = Released(@, p, state)]
  BY DEF SettleDoc
<1>2. work' \in [AllKeys -> WorkRecs] /\ proc' = [proc EXCEPT ![p] = Idle]
  BY <1>1, ReleaseRow DEF SettleDoc, WorkStates
<1>3. failures' \in 0 .. MaxFailures
  BY <1>1, ProjectionAssumption DEF BasicInv, StoreOK
<1>. QED
  BY <1>2, <1>3, GoesIdle DEF SettleDoc, Quiet, BasicInv, StoreOK

LEMMA ClaimFacts ==
  ASSUME BasicInv, NEW p \in Runners, NEW k \in AllKeys, ClaimWork(p, k)
  PROVE  /\ p \in AllProcs /\ p \notin Numberers /\ p \notin Enrichers /\ proc[p].pc = "idle"
         /\ work[k] \in WorkRecs /\ work[k].state = "due"
         /\ k[1] \in Branches /\ k[2] \in Nat /\ k[2] > 0 /\ k[3] \in {"tail", "full"} \cup AllDocs /\ k \in ProcKeys
         /\ UNCHANGED <<chain, snap, made, doc, tx, sweeps, failures>>
<1>1. p \in AllProcs /\ work[k] \in WorkRecs
  BY Facts DEF AllProcs
<1>2. k[1] \in Branches /\ k[2] \in Nat /\ k[2] > 0 /\ k[3] \in {"tail", "full"} \cup AllDocs /\ k \in ProcKeys
  BY DEF AllKeys, ProcKeys
<1>. QED
  BY <1>1, <1>2, ProjectionAssumption DEF ClaimWork

LEMMA ClaimDrops ==
  ASSUME BasicInv, NEW p \in Runners, NEW k \in AllKeys, ClaimWork(p, k), k[2] # Epoch(k[1])
  PROVE  UNCHANGED proc /\ work' = [work EXCEPT ![k] = [work[k] EXCEPT !.state = "obsolete"]]
BY Facts DEF ClaimWork

LEMMA ClaimLeases ==
  ASSUME BasicInv, NEW p \in Runners, NEW k \in AllKeys, ClaimWork(p, k), k[2] = Epoch(k[1])
  PROVE  /\ work' = [work EXCEPT ![k] = [work[k] EXCEPT !.state = "leased", !.owner = p, !.again = FALSE]]
         /\ \E r \in ProcRecs :
              /\ proc' = [proc EXCEPT ![p] = r]
              /\ k[3] \in AllDocs => r.pc = "single"
              /\ k[3] \notin AllDocs => r.pc = "page"
              /\ r.key = k /\ r.b = k[1] /\ r.e = k[2] /\ r.last = 0 /\ r.items = {} /\ r.wr = {} /\ r.conf = {} /\ r.pend = {}
              /\ ~r.stale /\ ~r.reclaim
              /\ r.kinds \in {work[k].kinds, work[k].past \cup work[k].kinds}
              /\ r.cursor = Base(k)
<1>. DEFINE w == work[k]
            restart == k[3] = "full" /\ w.fresh
            kinds == IF restart /\ w.ended THEN w.kinds ELSE w.past \cup w.kinds
            cursor == IF restart THEN 0 ELSE w.cursor
            c == IF k[3] \in AllDocs THEN "single" ELSE "page"
            r == [Idle EXCEPT !.pc = c, !.key = k, !.b = k[1], !.e = k[2], !.kinds = kinds, !.cursor = cursor]
<1>1. w \in WorkRecs /\ k[1] \in Branches /\ k[2] \in Nat /\ k \in ProcKeys
  BY ClaimFacts
<1>2. kinds \in SUBSET Kinds /\ cursor \in Nat /\ c \in Calls /\ kinds \in {w.kinds, w.past \cup w.kinds}
  BY <1>1 DEF WorkRecs, Calls
<1>3. (k[3] \in AllDocs => c = "single") /\ (k[3] \notin AllDocs => c = "page") /\ cursor = Base(k)
  BY DEF Base
<1>4. work' = [work EXCEPT ![k] = [work[k] EXCEPT !.state = "leased", !.owner = p, !.again = FALSE]]
  BY Facts DEF ClaimWork
<1>5. proc' = [proc EXCEPT ![p] = r]
  BY Facts DEF ClaimWork
<1>. HIDE DEF kinds, c, cursor
<1>6. /\ r \in ProcRecs /\ r.pc = c /\ r.key = k /\ r.b = k[1] /\ r.e = k[2] /\ r.last = 0 /\ r.items = {} /\ r.wr = {} /\ r.conf = {}
      /\ r.pend = {} /\ ~r.stale /\ ~r.reclaim /\ r.kinds = kinds /\ r.cursor = cursor
  BY <1>1, <1>2, RecordsOK DEF ProcRecs, Idle
<1>. HIDE DEF r
<1>. QED
  BY <1>2, <1>3, <1>4, <1>5, <1>6

LEMMA ClaimBasic == ASSUME BasicInv, NEW p \in Runners, NEW k \in AllKeys, ClaimWork(p, k) PROVE BasicInv'
<1>1. ASSUME NEW w \in WorkRecs, work' = [work EXCEPT ![k] = w] PROVE Quiet
  BY <1>1, ClaimFacts, RowSet DEF Quiet, BasicInv, StoreOK
<1>2. [work[k] EXCEPT !.state = "obsolete"] \in WorkRecs /\ [work[k] EXCEPT !.state = "leased", !.owner = p, !.again = FALSE] \in WorkRecs
  BY ClaimFacts DEF WorkRecs, WorkStates
<1>3. CASE k[2] # Epoch(k[1])
  <2>1. proc' = [proc EXCEPT ![p] = proc[p]] /\ ProcOK(p, proc[p]) /\ p \in AllProcs
    BY <1>3, ClaimDrops, ClaimFacts, Facts
  <2>2. Quiet
    BY <1>1, <1>2, <1>3, ClaimDrops
  <2>. QED
    BY <2>1, <2>2, QuietStep
<1>4. CASE k[2] = Epoch(k[1])
  <2>1. PICK r \in ProcRecs :
             /\ proc' = [proc EXCEPT ![p] = r]
             /\ k[3] \in AllDocs => r.pc = "single"
             /\ k[3] \notin AllDocs => r.pc = "page"
             /\ r.key = k /\ r.b = k[1] /\ r.e = k[2] /\ r.items = {} /\ r.wr = {} /\ r.conf = {} /\ ~r.stale
    BY <1>4, ClaimLeases
  <2>2. Placed(p, r) /\ Cargo(r)
    BY <1>4, <2>1, ClaimFacts DEF Placed, Cargo
  <2>3. Between(p, r)
    BY <1>4, <2>1, ClaimFacts, ProjectionAssumption DEF Between, AllDocs
  <2>4. ProcOK(p, r) /\ p \in AllProcs
    BY <2>1, <2>2, <2>3, ClaimFacts DEF ProcOK
  <2>5. Quiet
    BY <1>1, <1>2, <1>4, ClaimLeases
  <2>. QED
    BY <2>1, <2>4, <2>5, QuietStep
<1>. QED
  BY <1>3, <1>4

LEMMA ExpireBasic == ASSUME BasicInv, NEW k \in AllKeys, Expire(k) PROVE BasicInv'
<1>1. work[k] \in WorkRecs /\ work' = [work EXCEPT ![k] = [work[k] EXCEPT !.state = "due", !.owner = None]]
  BY Facts DEF Expire
<1>2. [work[k] EXCEPT !.state = "due", !.owner = None] \in WorkRecs
  BY <1>1 DEF WorkRecs, WorkStates
<1>3. work' \in [AllKeys -> WorkRecs]
  BY <1>1, <1>2, RowSet
<1>4. DocsInv' /\ ChainsOK'
  BY DocStay DEF Expire
<1>5. ProcsInv'
  BY SMTT(30) DEF Expire, ProcsInv, BasicInv, ProcOK, Placed, Cargo, Between, Numbered, Epoch
<1>. QED
  BY <1>3, <1>4, <1>5, ProjectionAssumption DEF BasicInv, StoreOK, Expire

(* Steps of PostgreSQL that leave the processes alone. *)
LEMMA StoreStep ==
  ASSUME BasicInv, UNCHANGED <<chain, doc, proc>>, work' \in [AllKeys -> WorkRecs], snap' \subseteq Pulls, made' \subseteq Shas,
         DOMAIN tx' \subseteq Pulls \ snap', tx' \in [DOMAIN tx' -> SUBSET AllKeys],
         sweeps' \in 0 .. MaxSweeps, failures' \in 0 .. MaxFailures
  PROVE  BasicInv'
<1>1. DocsInv' /\ ChainsOK'
  BY DocStay
<1>2. ProcsInv'
  BY DEF ProcsInv, BasicInv, ProcOK, Placed, Cargo, Between, Numbered, Epoch
<1>. QED
  BY <1>1, <1>2 DEF BasicInv, StoreOK

LEMMA RequestSweepBasic == ASSUME BasicInv, NEW b \in Branches, RequestSweep(b) PROVE BasicInv'
<1>1. PICK ks \in SweepKinds : work' = RequestAll(work, {<<b, Epoch(b), "full">>}, ks)
  BY DEF RequestSweep
<1>2. work' \in [AllKeys -> WorkRecs]
  BY <1>1, RequestAllOK, Facts, ProjectionAssumption DEF Kinds
<1>. QED
  <2>1. sweeps' \in 0 .. MaxSweeps /\ failures' \in 0 .. MaxFailures
    BY ProjectionAssumption DEF RequestSweep, BasicInv, StoreOK
  <2>. QED
    BY <1>2, <2>1, StoreStep DEF RequestSweep, BasicInv, StoreOK

LEMMA CommitSnapshotBasic == ASSUME BasicInv, NEW pr \in Pulls, CommitSnapshot(pr) PROVE BasicInv'
<1>1. work' \in [AllKeys -> WorkRecs]
  BY RequestAllOK, Facts DEF CommitSnapshot
<1>2. DOMAIN tx' \subseteq Pulls \ snap' /\ tx' \in [DOMAIN tx' -> SUBSET AllKeys]
  BY DEF CommitSnapshot, BasicInv, StoreOK
<1>. QED
  BY <1>1, <1>2, StoreStep DEF CommitSnapshot, BasicInv, StoreOK

LEMMA OpenSnapshotBasic == ASSUME BasicInv, NEW pr \in Pulls, OpenSnapshot(pr) PROVE BasicInv'
<1>. DEFINE b == PrBranch[pr]
            k == IF Holds(b, PrSha[pr]) THEN {<<b, Epoch(b), pr>>} ELSE {}
<1>1. b \in Branches /\ Epoch(b) \in Nat /\ Epoch(b) <= MaxEpoch
  BY ChainOK, Facts, ProjectionAssumption
<1>2. k \in SUBSET AllKeys
  BY <1>1, ProjectionAssumption DEF AllKeys, AllDocs, Holds
<1>3. tx' = [x \in DOMAIN tx \cup {pr} |-> IF x = pr THEN k ELSE tx[x]]
  BY DEF OpenSnapshot
<1>. HIDE DEF k
<1>4. DOMAIN tx' \subseteq Pulls \ snap' /\ tx' \in [DOMAIN tx' -> SUBSET AllKeys]
  BY <1>2, <1>3 DEF OpenSnapshot, BasicInv, StoreOK
<1>. QED
  BY <1>4, StoreStep DEF OpenSnapshot, BasicInv, StoreOK

LEMMA DocStep ==
  ASSUME BasicInv, chain' = chain, doc' \in [AllDocs -> DocRecs], \A d \in AllDocs : DocOK(d, doc'[d])
  PROVE  DocsInv' /\ ChainsOK'
<1>1. ASSUME NEW d \in AllDocs PROVE DocOK(d, doc[d])'
  <2>1. DocOK(d, doc'[d])
    OBVIOUS
  <2>. QED
    BY <2>1 DEF DocOK, Epoch
<1>. QED
  BY <1>1 DEF DocsInv, BasicInv, ChainsOK, Epoch

LEMMA IndexPrBasic == ASSUME BasicInv, NEW pr \in Pulls, IndexPr(pr) PROVE BasicInv'
<1>1. pr \in AllDocs /\ PrBranch[pr] \in Branches /\ PrBranch[pr] # None
  BY ProjectionAssumption DEF AllDocs
<1>2. doc' = [doc EXCEPT ![pr] = Doc(PrBranch[pr], 0, 0)] /\ Doc(PrBranch[pr], 0, 0) \in DocRecs
  BY <1>1, RecordsOK DEF IndexPr
<1>3. DocOK(pr, Doc(PrBranch[pr], 0, 0))
  BY <1>1, <1>2, ChainOK, Facts DEF DocOK, Doc, Home
<1>4. DocsInv' /\ ChainsOK' /\ doc' \in [AllDocs -> DocRecs]
  BY <1>2, <1>3, Facts, DocStep DEF IndexPr
<1>5. ProcsInv'
  BY DEF IndexPr, ProcsInv, BasicInv, ProcOK, Placed, Cargo, Between, Numbered, Epoch
<1>. QED
  BY <1>4, <1>5 DEF IndexPr, BasicInv, StoreOK

LEMMA EnrichBasic ==
  ASSUME BasicInv, NEW p \in Enrichers, NEW b \in Branches, NEW s \in Shas, Enrich(p, b, s) PROVE BasicInv'
<1>. DEFINE r == [Idle EXCEPT !.pc = "single", !.key = <<b, 0, s>>, !.b = b]
<1>1. p \in AllProcs /\ s \in AllDocs /\ s \notin Pulls /\ May(b, s) /\ b # None /\ p \notin Runners /\ p \notin Numberers
  BY PositionOK, ProjectionAssumption DEF Enrich, AllProcs, AllDocs
<1>2. Epoch(b) \in Nat /\ Epoch(b) > 0
  BY PositionOK DEF Enrich
<1>3. /\ r \in ProcRecs /\ r.pc = "single" /\ r.key = <<b, 0, s>> /\ r.b = b /\ r.e = 0 /\ r.items = {} /\ r.wr = {} /\ r.conf = {}
      /\ r.stale = FALSE
  BY <1>1, RecordsOK DEF ProcRecs, Idle, Calls, ProcKeys
<1>. HIDE DEF r
<1>4. ProcOK(p, r)
  BY <1>1, <1>2, <1>3 DEF ProcOK, Between, Placed, Cargo
<1>5. proc' = [proc EXCEPT ![p] = r]
  BY DEF Enrich, r
<1>6. Doc(b, 0, 0) \in DocRecs /\ DocOK(s, Doc(b, 0, 0))
  BY <1>1, <1>2, RecordsOK DEF DocOK, Doc, Home
<1>7. doc' \in [AllDocs -> DocRecs] /\ \A d \in AllDocs : DocOK(d, doc'[d])
  BY <1>1, <1>6, Facts DEF Enrich
<1>8. DocsInv' /\ ChainsOK'
  BY <1>7, DocStep DEF Enrich
<1>9. ProcsInv' /\ proc' \in [AllProcs -> ProcRecs]
  BY <1>1, <1>4, <1>5, ProcStep DEF Enrich
<1>. QED
  BY <1>7, <1>8, <1>9 DEF Enrich, BasicInv, StoreOK

LEMMA EnrichSettleBasic == ASSUME BasicInv, NEW p \in AllProcs, EnrichSettle(p) PROVE BasicInv'
<1>1. p \in Enrichers /\ proc[p].pc = "settle" /\ proc[p].key[3] \in Shas
  BY Facts DEF EnrichSettle, ProcOK, Placed
<1>2. work' \in [AllKeys -> WorkRecs]
  BY RequestAllOK, Facts DEF EnrichSettle
<1>3. ProcsInv' /\ proc' \in [AllProcs -> ProcRecs]
  BY ProcStep, IdleProc DEF EnrichSettle
<1>4. DocsInv' /\ ChainsOK'
  BY DocStay DEF EnrichSettle
<1>. QED
  BY <1>1, <1>2, <1>3, <1>4 DEF EnrichSettle, BasicInv, StoreOK

LEMMA ThrowBasic == ASSUME BasicInv, NEW p \in AllProcs, Throw(p) PROVE BasicInv'
<1>1. failures' \in 0 .. MaxFailures
  BY ProjectionAssumption DEF Throw, BasicInv, StoreOK
<1>2. CASE p \in Runners
  <2>1. proc[p].pc # "idle" /\ p \notin Numberers /\ p \notin Enrichers
    BY <1>2, ProjectionAssumption DEF Throw
  <2>2. work' = [work EXCEPT ![proc[p].key] = Released(@, p, "due")] /\ proc' = [proc EXCEPT ![p] = Idle]
    BY <1>2, <2>1 DEF Throw
  <2>3. work' \in [AllKeys -> WorkRecs]
    BY <1>2, <2>1, <2>2, ReleaseRow DEF WorkStates
  <2>. QED
    BY <1>1, <2>2, <2>3, GoesIdle DEF Throw, Quiet, BasicInv, StoreOK
<1>3. CASE p \in Numberers
  <2>1. UNCHANGED work /\ proc' = [proc EXCEPT ![p] = Idle]
    BY <1>3, ProjectionAssumption DEF Throw
  <2>. QED
    BY <1>1, <2>1, GoesIdle DEF Throw, Quiet, BasicInv, StoreOK
<1>4. CASE p \in Enrichers
  <2>. DEFINE q == proc[p]
              r == [Idle EXCEPT !.pc = "settle", !.key = q.key, !.b = q.b, !.pend = {q.key[3]}]
  <2>1. UNCHANGED work /\ proc' = [proc EXCEPT ![p] = r] /\ p \notin Numberers /\ p \notin Runners
    BY <1>4, ProjectionAssumption DEF Throw
  <2>2. q \in ProcRecs /\ ProcOK(p, q) /\ q.pc # "idle" /\ q.key \in ProcKeys
    BY Facts, Fields DEF Throw
  <2>3. q.key[3] \in Shas /\ q.b \in Branches /\ Placed(p, q)
    BY <1>4, <2>2 DEF ProcOK, Placed
  <2>4. Epoch(q.b) \in Nat
    BY <2>3, ChainOK, Facts
  <2>5. /\ r \in ProcRecs /\ r.pc = "settle" /\ r.key = q.key /\ r.b = q.b /\ r.e = 0 /\ r.items = {} /\ r.wr = {} /\ r.conf = {}
        /\ r.stale = FALSE
    BY <2>2, <2>3, RecordsOK DEF ProcRecs, Idle, Calls, AllDocs
  <2>. HIDE DEF r
  <2>6. ProcOK(p, r)
    BY <1>4, <2>1, <2>3, <2>4, <2>5 DEF ProcOK, Between, Placed, Cargo
  <2>7. Quiet
    BY <1>1, <2>1 DEF Throw, Quiet, BasicInv, StoreOK
  <2>. QED
    BY <2>1, <2>6, <2>7, QuietStep
<1>. QED
  BY <1>2, <1>3, <1>4 DEF AllProcs

LEMMA CrashBasic == ASSUME BasicInv, NEW p \in AllProcs, Crash(p) PROVE BasicInv'
<1>0. failures < MaxFailures /\ failures' = failures + 1
  BY DEF Crash
<1>1. failures' \in 0 .. MaxFailures
  BY <1>0, ProjectionAssumption DEF BasicInv, StoreOK
<1>2. \A k \in AllKeys : work[k] \in WorkRecs /\ [work[k] EXCEPT !.state = "due", !.owner = None] \in WorkRecs
  BY Facts DEF WorkRecs, WorkStates
<1>3. work' \in [AllKeys -> WorkRecs]
  BY <1>2, Facts DEF Crash
<1>. QED
  BY <1>1, <1>3, GoesIdle DEF Crash, Quiet, BasicInv, StoreOK

(* The bulk request. *)
LEMMA BulkDocs ==
  ASSUME BasicInv, NEW p \in AllProcs, Bulk(p)
  PROVE  /\ failures' \in 0 .. MaxFailures
         /\ doc' \in [AllDocs -> DocRecs]
         /\ \A d \in AllDocs : doc'[d] = doc[d]
              \/ \E i \in proc[p].wr : /\ Classify(i, proc[p].b, proc[p].e, proc[p].reclaim) = "write"
                                       /\ i.d = d /\ doc'[d] = Doc(proc[p].b, proc[p].e, i.n)
<1>. DEFINE q == proc[p]
            pass == {i \in q.wr : Classify(i, q.b, q.e, q.reclaim) = "write"}
<1>1. q \in ProcRecs /\ q.wr \subseteq Items /\ q.b \in Branches /\ q.e \in Nat /\ q.pend \subseteq AllDocs
  BY Facts, Fields DEF Bulk, ProcOK, Placed
<1>2. PICK lost \in SUBSET pass :
           /\ lost # {} => failures < MaxFailures
           /\ failures' = IF lost = {} THEN failures ELSE failures + 1
           /\ doc' = Written(doc, pass \ lost, q.b, q.e)
           /\ proc' = [proc EXCEPT ![p] = NextCall(p,
                [q EXCEPT !.wr = {}, !.pend = @ \cup {i.d : i \in q.wr \ (pass \ lost)}])]
  BY DEF Bulk
<1>3. failures' \in 0 .. MaxFailures
  BY <1>2, ProjectionAssumption DEF BasicInv, StoreOK
<1>. DEFINE sent == pass \ lost
<1>4. sent \subseteq q.wr /\ \A i \in sent : i \in q.wr /\ Classify(i, q.b, q.e, q.reclaim) = "write" /\ i.d \in AllDocs /\ i.n \in Nat
  BY <1>1, ItemFields
<1>. HIDE DEF pass
<1>5. DOMAIN doc' = AllDocs /\ \A d \in AllDocs : /\ (\E i \in sent : i.d = d) => doc'[d] = Doc(q.b, q.e, (CHOOSE i \in sent : i.d = d).n)
                                                  /\ ~(\E i \in sent : i.d = d) => doc'[d] = doc[d]
  BY <1>2, Facts DEF Written
<1>. HIDE DEF sent
<1>6. ASSUME NEW d \in AllDocs, \E i \in sent : i.d = d
      PROVE  \E i \in sent : i.d = d /\ doc'[d] = Doc(q.b, q.e, i.n)
  <2>1. (CHOOSE i \in sent : i.d = d) \in sent /\ (CHOOSE i \in sent : i.d = d).d = d
    BY <1>6
  <2>. QED
    BY <2>1, <1>5, <1>6
<1>7. \A d \in AllDocs : doc'[d] = doc[d] \/ \E i \in sent : i.d = d /\ doc'[d] = Doc(q.b, q.e, i.n)
  BY <1>5, <1>6
<1>8. doc' \in [AllDocs -> DocRecs]
  <2>1. \A d \in AllDocs : doc'[d] \in DocRecs
    BY <1>1, <1>4, <1>7, RecordsOK, Facts
  <2>. QED
    BY <2>1, <1>2, <1>5 DEF Written
<1>. QED
  BY <1>3, <1>4, <1>7, <1>8

LEMMA BulkIs ==
  ASSUME BasicInv, NEW p \in AllProcs, Bulk(p)
  PROVE  \E r \in ProcRecs :
           /\ proc' = [proc EXCEPT ![p] = NextCall(p, r)]
           /\ r.key = proc[p].key /\ r.b = proc[p].b /\ r.e = proc[p].e /\ r.cursor = proc[p].cursor /\ r.last = proc[p].last
           /\ r.used = proc[p].used /\ r.kinds = proc[p].kinds /\ r.reclaim = proc[p].reclaim
           /\ r.items = proc[p].items /\ r.wr = {} /\ r.conf = proc[p].conf /\ r.stale = proc[p].stale
           /\ proc[p].pend \subseteq r.pend /\ r.pend \subseteq proc[p].pend \cup {i.d : i \in proc[p].wr}
           /\ \A i \in proc[p].wr : i.d \in r.pend
                \/ \E j \in proc[p].wr : j.d = i.d /\ doc'[i.d] = Doc(proc[p].b, proc[p].e, j.n)
<1>. DEFINE q == proc[p]
            pass == {i \in q.wr : Classify(i, q.b, q.e, q.reclaim) = "write"}
<1>1. q \in ProcRecs /\ q.wr \subseteq Items /\ q.b \in Branches /\ q.e \in Nat /\ q.pend \subseteq AllDocs
  BY Facts, Fields DEF Bulk, ProcOK, Placed
<1>2. PICK lost \in SUBSET pass :
           /\ lost # {} => failures < MaxFailures
           /\ failures' = IF lost = {} THEN failures ELSE failures + 1
           /\ doc' = Written(doc, pass \ lost, q.b, q.e)
           /\ proc' = [proc EXCEPT ![p] = NextCall(p,
                [q EXCEPT !.wr = {}, !.pend = @ \cup {i.d : i \in q.wr \ (pass \ lost)}])]
  BY DEF Bulk
<1>. DEFINE sent == pass \ lost
<1>4. sent \subseteq q.wr /\ \A i \in sent : i \in q.wr /\ Classify(i, q.b, q.e, q.reclaim) = "write" /\ i.d \in AllDocs /\ i.n \in Nat
  BY <1>1, ItemFields
<1>. HIDE DEF pass
<1>5. DOMAIN doc' = AllDocs /\ \A d \in AllDocs : /\ (\E i \in sent : i.d = d) => doc'[d] = Doc(q.b, q.e, (CHOOSE i \in sent : i.d = d).n)
                                                  /\ ~(\E i \in sent : i.d = d) => doc'[d] = doc[d]
  BY <1>2, Facts DEF Written
<1>. HIDE DEF sent
<1>6. ASSUME NEW d \in AllDocs, \E i \in sent : i.d = d
      PROVE  \E i \in sent : i.d = d /\ doc'[d] = Doc(q.b, q.e, i.n)
  <2>1. (CHOOSE i \in sent : i.d = d) \in sent /\ (CHOOSE i \in sent : i.d = d).d = d
    BY <1>6
  <2>. QED
    BY <2>1, <1>5, <1>6
<1>. DEFINE pend == q.pend \cup {i.d : i \in q.wr \ sent}
            r == [q EXCEPT !.wr = {}, !.pend = pend]
<1>9. pend \in SUBSET AllDocs /\ q.pend \subseteq pend /\ pend \subseteq q.pend \cup {i.d : i \in q.wr}
  BY <1>1, ItemFields
<1>10. \A i \in q.wr : i.d \in pend \/ i \in sent
  OBVIOUS
<1>11. proc' = [proc EXCEPT ![p] = NextCall(p, r)]
  BY <1>1, <1>2 DEF sent
<1>. HIDE DEF pend
<1>12. /\ r \in ProcRecs /\ r.key = q.key /\ r.b = q.b /\ r.e = q.e /\ r.cursor = q.cursor /\ r.last = q.last
       /\ r.used = q.used /\ r.kinds = q.kinds /\ r.reclaim = q.reclaim /\ r.items = q.items /\ r.wr = {} /\ r.conf = q.conf
       /\ r.pend = pend /\ r.stale = q.stale
  BY <1>1, <1>9 DEF ProcRecs
<1>. HIDE DEF r
<1>13. \A i \in q.wr : i.d \in r.pend \/ \E j \in q.wr : j.d = i.d /\ doc'[i.d] = Doc(q.b, q.e, j.n)
  BY <1>4, <1>6, <1>10, <1>12
<1>. QED
  BY <1>9, <1>11, <1>12, <1>13

LEMMA NumberedHome ==
  ASSUME BasicInv, NEW b \in Branches, NEW e \in 1 .. Epoch(b), NEW i \in Items, Numbered(b, e, i)
  PROVE  Home(b, i.d) /\ i.d \in AllDocs /\ i.n \in Nat
<1>1. i.d \in AllDocs /\ i.n \in Nat
  BY ItemFields
<1>2. chain[b][e] \in Histories[b] /\ chain[b][e] \in Seq(Shas)
  BY ChainOK, Facts
<1>3. CASE i.d \notin Pulls
  <2>1. i.d \in Range(chain[b][e])
    BY <1>2, <1>3 DEF Range, Numbered, ShaOf
  <2>. QED
    BY <2>1, <1>1, <1>2, <1>3 DEF Home, May
<1>. QED
  BY <1>1, <1>3 DEF Home, Numbered

LEMMA BulkBasic == ASSUME BasicInv, NEW p \in AllProcs, Bulk(p) PROVE BasicInv'
<1>1. PICK r \in ProcRecs :
           /\ proc' = [proc EXCEPT ![p] = NextCall(p, r)]
           /\ r.key = proc[p].key /\ r.b = proc[p].b /\ r.e = proc[p].e
           /\ r.items = proc[p].items /\ r.wr = {} /\ r.conf = proc[p].conf /\ r.stale = proc[p].stale
  BY BulkIs
<1>2. ProcOK(p, proc[p]) /\ proc[p].pc = "bulk" /\ proc[p].wr \subseteq Items /\ proc[p].e \in Nat
  BY Facts, Fields DEF Bulk
<1>3. proc[p].items = {} /\ Cargo(proc[p])
  BY <1>2 DEF ProcOK, Between
<1>4. Cargo(r)
  BY <1>1, <1>3 DEF Cargo
<1>5. ProcOK(p, NextCall(p, r)) /\ proc[p].b \in Branches /\ proc[p].e \in 1 .. Epoch(proc[p].b) /\ Epoch(proc[p].b) \in Nat
  BY <1>1, <1>2, <1>3, <1>4, SameRound
<1>6. ASSUME NEW i \in proc[p].wr PROVE DocOK(i.d, Doc(proc[p].b, proc[p].e, i.n))
  <2>1. i \in Items /\ Numbered(proc[p].b, proc[p].e, i)
    BY <1>2, <1>3 DEF Cargo
  <2>2. Home(proc[p].b, i.d) /\ i.d \in AllDocs /\ i.n \in Nat
    BY <2>1, <1>5, NumberedHome
  <2>3. Doc(proc[p].b, proc[p].e, i.n) \in DocRecs
    BY <1>2, <1>5, <2>2, RecordsOK
  <2>. QED
    BY <2>2, <2>3, <1>5, ProjectionAssumption DEF DocOK, Doc, Home
<1>7. doc' \in [AllDocs -> DocRecs] /\ failures' \in 0 .. MaxFailures
      /\ \A d \in AllDocs : doc'[d] = doc[d] \/ \E i \in proc[p].wr : i.d = d /\ doc'[d] = Doc(proc[p].b, proc[p].e, i.n)
  BY BulkDocs
<1>8. \A d \in AllDocs : DocOK(d, doc'[d])
  BY <1>6, <1>7, Facts
<1>9. DocsInv' /\ ChainsOK'
  BY <1>7, <1>8, DocStep DEF Bulk
<1>10. ProcsInv' /\ proc' \in [AllProcs -> ProcRecs]
  BY <1>1, <1>5, ProcStep DEF Bulk
<1>. QED
  BY <1>7, <1>9, <1>10 DEF Bulk, BasicInv, StoreOK

LEMMA BumpIs ==
  ASSUME BasicInv, NEW p \in AllProcs, Bump(p)
  PROVE  /\ p \in Numberers /\ proc[p].b \in Branches /\ proc[p].e = Epoch(proc[p].b) /\ proc[p].e \in Nat /\ proc[p].e > 0
         /\ \A d \in AllDocs : \/ doc'[d] = doc[d]
                               \/ /\ doc[d].branch = proc[p].b /\ doc[d].there /\ doc[d].epoch # proc[p].e
                                  /\ doc'[d] = [doc[d] EXCEPT !.epoch = proc[p].e]
         /\ doc' \in [AllDocs -> DocRecs]
<1>1. p \in Numberers /\ proc[p].b \in Branches /\ proc[p].e = Epoch(proc[p].b) /\ proc[p].e \in Nat /\ proc[p].e > 0
  BY Facts, Fields DEF Bump, ProcOK, Placed, Between
<1>2. PICK D \in SUBSET Bumped(proc[p].b, proc[p].e) :
           doc' = [d \in Docs |-> IF d \in D THEN [doc[d] EXCEPT !.epoch = proc[p].e] ELSE doc[d]]
  BY DEF Bump
<1>3. \A d \in AllDocs : \/ doc'[d] = doc[d]
                         \/ /\ doc[d].branch = proc[p].b /\ doc[d].there /\ doc[d].epoch # proc[p].e
                            /\ doc'[d] = [doc[d] EXCEPT !.epoch = proc[p].e]
  BY <1>2, Facts DEF Bumped
<1>4. \A d \in AllDocs : [doc[d] EXCEPT !.epoch = proc[p].e] \in DocRecs
  BY <1>1, Facts DEF DocRecs
<1>. QED
  BY <1>1, <1>2, <1>3, <1>4, Facts

LEMMA BumpBasic == ASSUME BasicInv, NEW p \in AllProcs, Bump(p) PROVE BasicInv'
<1>. DEFINE q == proc[p]
            r == [q EXCEPT !.pc = "range"]
<1>1. q \in ProcRecs /\ ProcOK(p, q) /\ q.pc = "bump" /\ p \in Numberers /\ q.e > 0
  BY Facts, BumpIs DEF Bump
<1>2. /\ r \in ProcRecs /\ r.pc = "range" /\ r.b = q.b /\ r.e = q.e /\ r.key = q.key /\ r.items = q.items
      /\ r.wr = q.wr /\ r.conf = q.conf /\ r.stale = q.stale
  BY <1>1 DEF ProcRecs, Calls
<1>3. proc' = [proc EXCEPT ![p] = r]
  BY Facts DEF Bump
<1>. HIDE DEF r
<1>4. ProcOK(p, r)
  BY <1>1, <1>2, ProjectionAssumption DEF ProcOK, Between, Placed, Cargo
<1>5. \A d \in AllDocs : DocOK(d, doc'[d])
  <2>. TAKE d \in AllDocs
  <2>1. CASE doc'[d] = doc[d]
    BY <2>1, Facts
  <2>2. CASE doc[d].branch = q.b /\ doc[d].there /\ doc'[d] = [doc[d] EXCEPT !.epoch = q.e]
    <3>1. doc[d] \in DocRecs /\ DocOK(d, doc[d]) /\ doc[d].there \in BOOLEAN
      BY Facts DEF DocRecs
    <3>2. doc'[d] \in DocRecs /\ doc'[d].branch = q.b /\ doc'[d].epoch = q.e /\ doc'[d].there
      BY <2>2, <3>1, BumpIs DEF DocRecs
    <3>. QED
      BY <2>2, <3>1, <3>2, BumpIs, ProjectionAssumption DEF DocOK
  <2>. QED
    BY <2>1, <2>2, BumpIs
<1>6. DocsInv' /\ ChainsOK' /\ doc' \in [AllDocs -> DocRecs]
  BY <1>5, BumpIs, DocStep DEF Bump
<1>7. ProcsInv' /\ proc' \in [AllProcs -> ProcRecs]
  BY <1>3, <1>4, ProcStep DEF Bump
<1>. QED
  BY <1>6, <1>7 DEF Bump, BasicInv, StoreOK

(* The longest common prefix exists. *)
LEMMA PrefixLength ==
  ASSUME NEW S, NEW s \in Seq(S), NEW t \in Seq(S)
  PROVE  Len(LongestCommonPrefix({s, t})) \in Nat
<1>. DEFINE C == CommonPrefixes({s, t})
            T == {Len(s) - Len(x) : x \in C}
<1>1. \A x \in C : x \in Seq(S) /\ Len(x) \in Nat /\ Len(x) <= Len(s)
  <2>1. ASSUME NEW x \in C PROVE x \in Seq(S) /\ Len(x) \in Nat /\ Len(x) <= Len(s)
    <3>1. IsPrefix(x, s) /\ \E u \in {s, t} : x \in Prefixes(u)
      BY DEF CommonPrefixes
    <3>2. PICK u \in {s, t} : \E l \in 0 .. Len(u) : x = SubSeq(u, 1, l)
      BY <3>1 DEF Prefixes
    <3>3. x \in Seq(S)
      BY <3>2
    <3>. QED
      BY <3>1, <3>3 DEF IsPrefix
  <2>. QED
    BY <2>1
<1>2. C # {}
  <2>1. <<>> \in Prefixes(s)
    <3>1. SubSeq(s, 1, 0) = <<>> /\ 0 \in 0 .. Len(s)
      OBVIOUS
    <3>. QED
      BY <3>1 DEF Prefixes
  <2>2. \A u \in {s, t} : IsPrefix(<<>>, u)
    BY DEF IsPrefix
  <2>3. <<>> \in UNION {Prefixes(u) : u \in {s, t}}
    BY <2>1
  <2>. QED
    BY <2>2, <2>3 DEF CommonPrefixes
<1>. HIDE DEF C
<1>3. T \subseteq Nat /\ T # {}
  BY <1>1, <1>2
<1>. HIDE DEF T
<1>4. PICK m \in T : \A y \in T : ~(<<y, m>> \in OpToRel(<, Nat))
  BY <1>3, WFMin, NatLessThanWellFounded
<1>5. ASSUME NEW y \in T PROVE m <= y
  <2>1. m \in Nat /\ y \in Nat
    BY <1>3
  <2>2. y < m => <<y, m>> \in OpToRel(<, Nat)
    BY <2>1 DEF OpToRel
  <2>3. ~(y < m)
    BY <1>4, <2>2, Zenon
  <2>. QED
    BY <2>1, <2>3
<1>6. PICK x \in C : m = Len(s) - Len(x)
  BY DEF T
<1>7. ASSUME NEW y \in C PROVE Len(y) <= Len(x)
  <2>1. Len(s) - Len(y) \in T
    BY DEF T
  <2>2. m <= Len(s) - Len(y)
    BY <2>1, <1>5
  <2>. QED
    BY <2>2, <1>1, <1>6
<1>8. LongestCommonPrefix({s, t}) \in C
  BY <1>7 DEF LongestCommonPrefix, C
<1>. QED
  BY <1>1, <1>8

(* Chains only grow. *)
ChainGrows ==
  \A b \in Branches :
    /\ Epoch(b) <= Epoch(b)'
    /\ \A e \in 1 .. Epoch(b) : /\ Len(chain[b][e]) <= Len(chain'[b][e])
                                /\ \A n \in 1 .. Len(chain[b][e]) : chain'[b][e][n] = chain[b][e][n]

LEMMA NumberedGrows ==
  ASSUME ChainsOK, ChainsOK', ChainGrows, NEW b \in Branches, NEW e \in 1 .. Epoch(b), NEW i, Numbered(b, e, i)
  PROVE  Numbered(b, e, i)'
<1>1. Len(chain[b][e]) \in Nat /\ Epoch(b) \in Nat
  BY ChainOK
<1>2. Len(chain'[b][e]) \in Nat
  BY <1>1 DEF ChainGrows, ChainsOK, Epoch
<1>3. i.n \in 1 .. Len(chain[b][e]) /\ chain[b][e][i.n] = ShaOf(i.d) /\ (i.d \in Pulls => PrBranch[i.d] = b)
  BY DEF Numbered
<1>4. Len(chain[b][e]) <= Len(chain'[b][e]) /\ chain'[b][e][i.n] = chain[b][e][i.n]
  BY <1>1, <1>3 DEF ChainGrows
<1>5. i.n \in 1 .. Len(chain'[b][e])
  BY <1>1, <1>2, <1>3, <1>4
<1>. QED
  BY <1>3, <1>4, <1>5 DEF Numbered, ShaOf

LEMMA GrowsProc ==
  ASSUME BasicInv, ChainsOK', ChainGrows, NEW a \in AllProcs, proc'[a] = proc[a],
         a \in Numberers => proc[a].pc = "idle"
  PROVE  ProcOK(a, proc[a])'
<1>. DEFINE q == proc[a]
<1>1. q \in ProcRecs /\ ProcOK(a, q)
  BY Facts
<1>2. CASE q.pc = "idle"
  BY <1>1, <1>2 DEF ProcOK, Between, Idle, Cargo
<1>3. CASE q.pc # "idle"
  <2>1. q.b \in Branches /\ q.e \in Nat /\ Epoch(q.b) \in Nat /\ Placed(a, q) /\ a \notin Numberers
    BY <1>1, <1>3, Fields, ChainOK, Facts DEF ProcOK, Placed
  <2>2. Epoch(q.b) <= Epoch(q.b)' /\ Epoch(q.b)' \in Nat
    BY <2>1 DEF ChainGrows, ChainsOK, Epoch
  <2>3. Placed(a, proc[a])'
    BY <2>1, <2>2 DEF Placed, Epoch
  <2>4. Cargo(proc[a])'
    <3>1. q.items \cup q.wr # {} \/ q.conf # {} => q.e \in 1 .. Epoch(q.b)
      BY <1>1, <1>3, <2>1 DEF ProcOK, Between, Placed
    <3>2. ASSUME NEW i, i \in q.items \cup q.wr PROVE Numbered(q.b, q.e, i)'
      BY <1>1, <2>1, <3>1, <3>2, Facts, NumberedGrows DEF ProcOK, Cargo
    <3>3. ASSUME NEW c \in q.conf PROVE Numbered(q.b, q.e, c.item)' /\ c.item.d \in Shas /\ c.seen \in Branches \ {q.b}
      BY <1>1, <2>1, <3>1, <3>3, Facts, NumberedGrows DEF ProcOK, Cargo
    <3>4. q.stale => q.e < Epoch(q.b)'
      BY <1>1, <2>1, <2>2 DEF ProcOK, Cargo
    <3>. QED
      BY <3>2, <3>3, <3>4 DEF Cargo, Numbered, Epoch
  <2>5. Between(a, proc[a])'
    BY <1>1 DEF ProcOK, Between
  <2>. QED
    BY <1>1, <2>1, <2>3, <2>4, <2>5 DEF ProcOK
<1>. QED
  BY <1>2, <1>3

LEMMA GrowsDoc == ASSUME BasicInv, ChainsOK', ChainGrows, UNCHANGED doc PROVE DocsInv'
<1>1. ASSUME NEW d \in AllDocs PROVE DocOK(d, doc[d])'
  <2>1. DocOK(d, doc[d]) /\ doc[d] \in DocRecs /\ doc[d].epoch \in Nat /\ doc[d].branch \in Branches \cup {None}
    BY Facts DEF DocRecs
  <2>2. CASE doc[d].branch \in Branches
    <3>1. Epoch(doc[d].branch) <= Epoch(doc[d].branch)' /\ Epoch(doc[d].branch) \in Nat /\ Epoch(doc[d].branch)' \in Nat
      BY <2>2, ChainOK, Facts DEF ChainGrows, ChainsOK, Epoch
    <3>2. doc[d].epoch <= Epoch(doc[d].branch)'
      BY <2>1, <2>2, <3>1, ProjectionAssumption DEF DocOK
    <3>. QED
      BY <2>1, <2>2, <3>2 DEF DocOK, Epoch
  <2>3. CASE doc[d].branch = None
    BY <2>1, <2>3 DEF DocOK
  <2>. QED
    BY <2>1, <2>2, <2>3
<1>. QED
  BY <1>1 DEF DocsInv

(* A numbering: the numberer has nothing in hand yet. *)
LEMMA NumberingBasic ==
  ASSUME BasicInv, OneNumberer, NEW p \in Numberers, NEW b \in Branches, ChainsOK', ChainGrows, Epoch(b)' \in Nat, Epoch(b)' > 0,
         proc[p].pc = "idle", NEW r \in ProcRecs, proc' = [proc EXCEPT ![p] = r], r.b = b, r.items = {}, r.wr = {}, r.conf = {}, ~r.stale,
         \/ r.pc = "epoch" /\ r.e = 0
         \/ r.pc = "bump" /\ r.e = Epoch(b)',
         work' \in [AllKeys -> WorkRecs], UNCHANGED <<snap, made, doc, tx, sweeps, failures>>
  PROVE  BasicInv'
<1>1. p \in AllProcs /\ p \notin Runners /\ p \notin Enrichers /\ proc \in [AllProcs -> ProcRecs]
  BY ProjectionAssumption, Facts DEF AllProcs
<1>2. proc' \in [AllProcs -> ProcRecs] /\ proc'[p] = r /\ \A a \in AllProcs : a # p => proc'[a] = proc[a]
  BY <1>1
<1>3. ProcOK(p, proc[p])'
  <2>1. Placed(p, proc[p])'
    BY <1>1, <1>2 DEF Placed, Epoch
  <2>2. Cargo(proc[p])'
    BY <1>2 DEF Cargo
  <2>3. Between(p, proc[p])'
    BY <1>2 DEF Between
  <2>. QED
    BY <1>2, <2>1, <2>2, <2>3 DEF ProcOK, Epoch
<1>4. ASSUME NEW a \in AllProcs PROVE ProcOK(a, proc[a])'
  BY <1>2, <1>3, GrowsProc DEF OneNumberer
<1>5. ProcsInv'
  BY <1>4 DEF ProcsInv
<1>6. DocsInv'
  BY GrowsDoc
<1>. QED
  BY <1>2, <1>5, <1>6 DEF BasicInv, StoreOK

LEMMA AssignIs ==
  ASSUME BasicInv, NEW p \in Numberers, NEW b \in Branches, Assign(p, b)
  PROVE  /\ ChainsOK' /\ ChainGrows /\ Epoch(b)' = (IF Epoch(b) = 0 THEN 1 ELSE Epoch(b))
         /\ \A a \in Branches : a # b => chain'[a] = chain[a]
         /\ \A e \in 1 .. Epoch(b) : e # Epoch(b) => chain'[b][e] = chain[b][e]
         /\ work' = RequestAll(work, {<<b, IF Epoch(b) = 0 THEN 1 ELSE Epoch(b), "tail">>}, Kinds)
         /\ \E r \in ProcRecs :
              /\ proc' = [proc EXCEPT ![p] = r] /\ r.pc = "epoch" /\ r.b = b /\ r.e = 0 /\ r.items = {} /\ r.wr = {} /\ r.conf = {}
              /\ r.pend = {} /\ ~r.stale /\ ~r.reclaim
<1>. DEFINE old == IF Epoch(b) = 0 THEN <<>> ELSE chain[b][Epoch(b)]
            e == IF Epoch(b) = 0 THEN 1 ELSE Epoch(b)
<1>1. PICK h \in Histories[b] :
           /\ IsStrictPrefix(old, h)
           /\ chain' = [chain EXCEPT ![b] = IF Epoch(b) = 0 THEN <<h>> ELSE [chain[b] EXCEPT ![e] = h]]
           /\ work' = RequestAll(work, {<<b, e, "tail">>}, Kinds)
           /\ proc' = [proc EXCEPT ![p] = [Idle EXCEPT !.pc = "epoch", !.b = b, !.cursor = Len(old), !.last = Len(h)]]
  BY Facts DEF Assign, ChainsOK
<1>2. Epoch(b) \in Nat /\ Epoch(b) <= MaxEpoch /\ MaxEpoch \in Nat /\ MaxEpoch > 0 /\ h \in Seq(Shas) /\ Len(h) \in Nat
  BY ChainOK, Facts, ProjectionAssumption
<1>3. old \in Seq(Shas) /\ Len(old) \in Nat
  <2>1. CASE Epoch(b) = 0
    BY <2>1
  <2>2. CASE Epoch(b) # 0
    <3>1. ChainsOK /\ Epoch(b) \in 1 .. Epoch(b)
      BY <1>2, <2>2, Facts
    <3>2. chain[b][Epoch(b)] \in Seq(Shas) /\ Len(chain[b][Epoch(b)]) \in Nat
      BY <3>1, ChainOK
    <3>. QED
      BY <2>2, <3>2
  <2>. QED
    BY <2>1, <2>2
<1>4. Len(old) <= Len(h) /\ \A n \in 1 .. Len(old) : h[n] = old[n]
  BY <1>1, <1>2, <1>3 DEF IsStrictPrefix, IsPrefix
<1>5. chain \in [Branches -> Seq(Seq(Shas))] /\ \A a \in Branches : a # b => chain'[a] = chain[a]
  BY <1>1, Facts DEF ChainsOK
<1>6. /\ chain' \in [Branches -> Seq(Seq(Shas))] /\ Epoch(b)' = e /\ chain'[b][e] = h
      /\ \A x \in 1 .. Epoch(b) : x # Epoch(b) => chain'[b][x] = chain[b][x]
  <2>1. CASE Epoch(b) = 0
    <3>1. chain'[b] = <<h>> /\ <<h>> \in Seq(Seq(Shas))
      BY <1>1, <1>2, <1>5, <2>1
    <3>2. chain' \in [Branches -> Seq(Seq(Shas))]
      BY <1>1, <1>5, <3>1
    <3>. QED
      BY <3>1, <3>2, <2>1 DEF Epoch
  <2>2. CASE Epoch(b) # 0
    <3>1. chain'[b] = [chain[b] EXCEPT ![Epoch(b)] = h] /\ chain[b] \in Seq(Seq(Shas)) /\ Epoch(b) \in 1 .. Len(chain[b])
      BY <1>1, <1>2, <1>5, <2>2 DEF Epoch
    <3>2. chain'[b] \in Seq(Seq(Shas)) /\ Len(chain'[b]) = Len(chain[b]) /\ chain'[b][Epoch(b)] = h
          /\ \A x \in 1 .. Epoch(b) : x # Epoch(b) => chain'[b][x] = chain[b][x]
      BY <1>2, <3>1 DEF Epoch
    <3>3. chain' \in [Branches -> Seq(Seq(Shas))]
      BY <1>1, <1>5, <3>2
    <3>. QED
      BY <2>2, <3>2, <3>3 DEF Epoch
  <2>. QED
    BY <2>1, <2>2
<1>7. ChainsOK'
  <2>2. ASSUME NEW a \in Branches PROVE Epoch(a)' <= MaxEpoch /\ \A x \in 1 .. Epoch(a)' : chain'[a][x] \in Histories[a]
    <3>1. CASE a = b
      BY <1>1, <1>2, <1>6, <3>1, ChainOK, Facts
    <3>2. CASE a # b
      BY <1>5, <3>2, ChainOK, Facts DEF Epoch
    <3>. QED
      BY <3>1, <3>2
  <2>. QED
    BY <1>6, <2>2 DEF ChainsOK
<1>10. ChainGrows
  <2>1. ASSUME NEW a \in Branches
        PROVE  /\ Epoch(a) <= Epoch(a)'
               /\ \A x \in 1 .. Epoch(a) : /\ Len(chain[a][x]) <= Len(chain'[a][x])
                                           /\ \A n \in 1 .. Len(chain[a][x]) : chain'[a][x][n] = chain[a][x][n]
    <3>1. CASE a # b
      <4>1. Epoch(a)' = Epoch(a) /\ chain'[a] = chain[a]
        BY <1>5, <3>1 DEF Epoch
      <4>. QED
        BY <4>1, ChainOK, Facts
    <3>2. CASE a = b
      <4>1. Epoch(b) <= Epoch(b)'
        BY <1>2, <1>6
      <4>2. ASSUME NEW x \in 1 .. Epoch(b)
            PROVE  /\ Len(chain[b][x]) <= Len(chain'[b][x])
                   /\ \A n \in 1 .. Len(chain[b][x]) : chain'[b][x][n] = chain[b][x][n]
        <5>1. CASE x # Epoch(b)
          BY <1>6, <5>1, ChainOK, Facts
        <5>2. CASE x = Epoch(b)
          <6>1. Epoch(b) # 0
            BY <1>2, <4>2
          <6>. QED
            BY <1>4, <1>6, <5>2, <6>1
        <5>. QED
          BY <5>1, <5>2
      <4>. QED
        BY <3>2, <4>1, <4>2
    <3>. QED
      BY <3>1, <3>2
  <2>. QED
    BY <2>1 DEF ChainGrows
<1>. DEFINE r == [Idle EXCEPT !.pc = "epoch", !.b = b, !.cursor = Len(old), !.last = Len(h)]
<1>. HIDE DEF old
<1>8. /\ r \in ProcRecs /\ r.pc = "epoch" /\ r.b = b /\ r.e = 0 /\ r.items = {} /\ r.wr = {} /\ r.conf = {}
      /\ r.pend = {} /\ ~r.stale /\ ~r.reclaim
  BY <1>2, <1>3, RecordsOK DEF ProcRecs, Idle, Calls
<1>. HIDE DEF r
<1>9. \E rr \in ProcRecs :
        /\ proc' = [proc EXCEPT ![p] = rr] /\ rr.pc = "epoch" /\ rr.b = b /\ rr.e = 0 /\ rr.items = {} /\ rr.wr = {} /\ rr.conf = {}
        /\ rr.pend = {} /\ ~rr.stale /\ ~rr.reclaim
  BY <1>1, <1>8 DEF r
<1>. QED
  BY <1>1, <1>5, <1>6, <1>7, <1>9, <1>10

LEMMA ReassignIs ==
  ASSUME BasicInv, NEW p \in Numberers, NEW b \in Branches, Reassign(p, b)
  PROVE  /\ ChainsOK' /\ ChainGrows /\ Epoch(b)' = Epoch(b) + 1 /\ Epoch(b) \in 1 .. MaxEpoch - 1
         /\ \A a \in Branches : a # b => chain'[a] = chain[a]
         /\ \A e \in 1 .. Epoch(b) : chain'[b][e] = chain[b][e]
         /\ work' = RequestAll(work, {<<b, Epoch(b) + 1, "full">>}, Kinds)
         /\ \E r \in ProcRecs :
              /\ proc' = [proc EXCEPT ![p] = r] /\ r.pc = "bump" /\ r.b = b /\ r.e = Epoch(b) + 1 /\ r.items = {} /\ r.wr = {} /\ r.conf = {}
              /\ r.pend = {} /\ ~r.stale /\ ~r.reclaim
<1>. DEFINE old == chain[b][Epoch(b)]
<1>1. PICK h \in Histories[b] :
           /\ chain' = [chain EXCEPT ![b] = Append(chain[b], h)]
           /\ work' = RequestAll(work, {<<b, Epoch(b) + 1, "full">>}, Kinds)
           /\ proc' = [proc EXCEPT ![p] = [Idle EXCEPT !.pc = "bump", !.b = b, !.e = Epoch(b) + 1,
                         !.cursor = Len(LongestCommonPrefix({old, h})), !.last = Len(h)]]
  BY Facts DEF Reassign, ChainsOK
<1>2. /\ Epoch(b) \in Nat /\ Epoch(b) \in 1 .. MaxEpoch - 1 /\ MaxEpoch \in Nat /\ MaxEpoch > 0 /\ h \in Seq(Shas) /\ Len(h) \in Nat
      /\ Epoch(b) + 1 \in Nat
  BY ChainOK, Facts, ProjectionAssumption DEF Reassign
<1>3. old \in Seq(Shas) /\ \A x \in 1 .. Epoch(b) : chain[b][x] \in Histories[b]
  <2>1. Epoch(b) \in 1 .. Epoch(b)
    BY <1>2
  <2>. QED
    BY <2>1, ChainOK, Facts
<1>4. Len(LongestCommonPrefix({old, h})) \in Nat
  BY <1>2, <1>3, PrefixLength
<1>5. chain \in [Branches -> Seq(Seq(Shas))] /\ \A a \in Branches : a # b => chain'[a] = chain[a]
  BY <1>1, Facts DEF ChainsOK
<1>6. /\ chain' \in [Branches -> Seq(Seq(Shas))] /\ Epoch(b)' = Epoch(b) + 1 /\ chain'[b][Epoch(b) + 1] = h
      /\ \A x \in 1 .. Epoch(b) : chain'[b][x] = chain[b][x]
  <2>1. chain'[b] = Append(chain[b], h) /\ chain[b] \in Seq(Seq(Shas))
    BY <1>1, <1>5
  <2>2. Append(chain[b], h) \in Seq(Seq(Shas))
    BY <2>1, <1>2
  <2>3. chain' \in [Branches -> Seq(Seq(Shas))]
    BY <1>1, <1>5, <2>2
  <2>. QED
    BY <1>2, <2>1, <2>3 DEF Epoch
<1>7. ChainsOK'
  <2>2. ASSUME NEW a \in Branches PROVE Epoch(a)' <= MaxEpoch /\ \A x \in 1 .. Epoch(a)' : chain'[a][x] \in Histories[a]
    <3>1. CASE a = b
      <4>1. \A x \in 1 .. Epoch(b) + 1 : x = Epoch(b) + 1 \/ x \in 1 .. Epoch(b)
        BY <1>2
      <4>2. Epoch(b) + 1 <= MaxEpoch
        BY <1>2
      <4>. QED
        BY <1>3, <1>6, <3>1, <4>1, <4>2
    <3>2. CASE a # b
      BY <1>5, <3>2, ChainOK, Facts DEF Epoch
    <3>. QED
      BY <3>1, <3>2
  <2>. QED
    BY <1>6, <2>2 DEF ChainsOK
<1>8. ChainGrows
  <2>1. ASSUME NEW a \in Branches
        PROVE  /\ Epoch(a) <= Epoch(a)'
               /\ \A x \in 1 .. Epoch(a) : /\ Len(chain[a][x]) <= Len(chain'[a][x])
                                           /\ \A n \in 1 .. Len(chain[a][x]) : chain'[a][x][n] = chain[a][x][n]
    <3>1. CASE a # b
      <4>1. Epoch(a)' = Epoch(a) /\ chain'[a] = chain[a]
        BY <1>5, <3>1 DEF Epoch
      <4>. QED
        BY <4>1, ChainOK, Facts
    <3>2. CASE a = b
      BY SMTT(30), <1>2, <1>6, <3>2, ChainOK, Facts
    <3>. QED
      BY <3>1, <3>2
  <2>. QED
    BY <2>1 DEF ChainGrows
<1>. DEFINE r == [Idle EXCEPT !.pc = "bump", !.b = b, !.e = Epoch(b) + 1,
                         !.cursor = Len(LongestCommonPrefix({old, h})), !.last = Len(h)]
<1>9. proc' = [proc EXCEPT ![p] = r]
  BY <1>1
<1>10. /\ r \in ProcRecs /\ r.pc = "bump" /\ r.b = b /\ r.e = Epoch(b) + 1 /\ r.items = {} /\ r.wr = {} /\ r.conf = {}
       /\ r.pend = {} /\ ~r.stale /\ ~r.reclaim
  <2>. HIDE DEF old
  <2>. QED
    BY <1>2, <1>4, RecordsOK DEF ProcRecs, Idle, Calls
<1>. HIDE DEF r, old
<1>11. \E rr \in ProcRecs :
        /\ proc' = [proc EXCEPT ![p] = rr] /\ rr.pc = "bump" /\ rr.b = b /\ rr.e = Epoch(b) + 1 /\ rr.items = {} /\ rr.wr = {} /\ rr.conf = {}
        /\ rr.pend = {} /\ ~rr.stale /\ ~rr.reclaim
  BY <1>9, <1>10
<1>. QED
  BY <1>1, <1>2, <1>5, <1>6, <1>7, <1>8, <1>11

LEMMA AssignBasic == ASSUME BasicInv, OneNumberer, NEW p \in Numberers, NEW b \in Branches, Assign(p, b) PROVE BasicInv'
<1>1. PICK r \in ProcRecs :
        /\ proc' = [proc EXCEPT ![p] = r] /\ r.pc = "epoch" /\ r.b = b /\ r.e = 0 /\ r.items = {} /\ r.wr = {} /\ r.conf = {}
        /\ r.pend = {} /\ ~r.stale /\ ~r.reclaim
  BY AssignIs
<1>2. ChainsOK' /\ ChainGrows /\ Epoch(b)' \in Nat /\ Epoch(b)' > 0
  <2>1. Epoch(b) \in Nat
    BY ChainOK, Facts
  <2>2. ChainsOK' /\ ChainGrows /\ Epoch(b)' = (IF Epoch(b) = 0 THEN 1 ELSE Epoch(b))
    BY AssignIs
  <2>. QED
    BY <2>1, <2>2
<1>3. work' \in [AllKeys -> WorkRecs]
  <2>1. work' = RequestAll(work, {<<b, IF Epoch(b) = 0 THEN 1 ELSE Epoch(b), "tail">>}, Kinds)
    BY AssignIs
  <2>. QED
    BY <2>1, RequestAllOK, Facts
<1>. QED
  BY <1>1, <1>2, <1>3, NumberingBasic DEF Assign

LEMMA ReassignBasic == ASSUME BasicInv, OneNumberer, NEW p \in Numberers, NEW b \in Branches, Reassign(p, b) PROVE BasicInv'
<1>1. PICK r \in ProcRecs :
        /\ proc' = [proc EXCEPT ![p] = r] /\ r.pc = "bump" /\ r.b = b /\ r.e = Epoch(b) + 1 /\ r.items = {} /\ r.wr = {} /\ r.conf = {}
        /\ r.pend = {} /\ ~r.stale /\ ~r.reclaim
  BY ReassignIs
<1>2. ChainsOK' /\ ChainGrows /\ Epoch(b)' \in Nat /\ Epoch(b)' > 0 /\ r.e = Epoch(b)'
  <2>1. ChainsOK' /\ ChainGrows /\ Epoch(b)' = Epoch(b) + 1 /\ Epoch(b) \in 1 .. MaxEpoch - 1
    BY ReassignIs
  <2>. QED
    BY <1>1, <2>1
<1>3. work' \in [AllKeys -> WorkRecs]
  <2>1. work' = RequestAll(work, {<<b, Epoch(b) + 1, "full">>}, Kinds)
    BY ReassignIs
  <2>. QED
    BY <2>1, RequestAllOK, Facts
<1>. QED
  BY <1>1, <1>2, <1>3, NumberingBasic DEF Reassign

(* The basic invariant holds at the start, and every step keeps it. *)
LEMMA BasicInit == ProjectionInit => BasicInv
<1>. SUFFICES ASSUME ProjectionInit PROVE BasicInv
  OBVIOUS
<1>1. chain \in [Branches -> Seq(Seq(Shas))] /\ \A b \in Branches : chain[b] = <<>> /\ Epoch(b) = 0
  BY DEF ProjectionInit, Epoch
<1>2. ChainsOK
  BY <1>1, ProjectionAssumption DEF ChainsOK
<1>3. ASSUME NEW d \in AllDocs PROVE doc[d] \in DocRecs /\ DocOK(d, doc[d])
  <2>1. doc[d] = IF d \in Early THEN Doc(IF d \in Pulls THEN PrBranch[d] ELSE None, 0, 0) ELSE NoDoc
    BY DEF ProjectionInit, AllDocs
  <2>2. d \in Pulls => PrBranch[d] \in Branches /\ PrBranch[d] # None
    BY ProjectionAssumption
  <2>3. CASE d \notin Early
    BY <2>1, <2>3, RecordsOK DEF DocOK, NoDoc
  <2>4. CASE d \in Early /\ d \in Pulls
    BY <1>1, <2>1, <2>2, <2>4, RecordsOK DEF DocOK, Doc, Home
  <2>5. CASE d \in Early /\ d \notin Pulls
    BY <2>1, <2>5, RecordsOK DEF DocOK, Doc
  <2>. QED
    BY <2>3, <2>4, <2>5
<1>4. DocsInv /\ doc \in [AllDocs -> DocRecs]
  BY <1>3 DEF DocsInv, ProjectionInit, AllDocs
<1>5. ProcsInv /\ proc \in [AllProcs -> ProcRecs]
  BY IdleProc, RecordsOK DEF ProcsInv, ProjectionInit, AllProcs
<1>6. work \in [AllKeys -> WorkRecs]
  BY RecordsOK DEF ProjectionInit, AllKeys, AllDocs
<1>7. StoreOK
  BY <1>4, <1>5, <1>6, ProjectionAssumption DEF StoreOK, ProjectionInit
<1>. QED
  BY <1>2, <1>4, <1>5, <1>7 DEF BasicInv

LEMMA BasicNext == ASSUME OneNumberer, BasicInv, [ProjectionNext]_projectionVars PROVE BasicInv'
<1>1. Keys = AllKeys /\ Procs = AllProcs
  BY Facts
<1>2. ASSUME NEW p \in AllProcs, Project(p) PROVE BasicInv'
  BY <1>2, BumpBasic, ReadEpochBasic, ReadRangeBasic, ObserveBasic, BulkBasic, HoldersBasic, ReadPageBasic, ReadSingleBasic,
     DelegateBasic, SavePageBasic, FinishSweepBasic, ObsoleteBasic, SettleDocBasic, EnrichTargetBasic, EnrichSettleBasic DEF Project
<1>3. ASSUME UNCHANGED projectionVars PROVE BasicInv'
  BY <1>3 DEF projectionVars, BasicInv, ChainsOK, StoreOK, DocsInv, ProcsInv, DocOK, ProcOK, Between, Cargo, Placed, Numbered, Epoch
<1>. QED
  BY <1>1, <1>2, <1>3, AssignBasic, ReassignBasic, ThrowBasic, CrashBasic, ClaimBasic, ExpireBasic, RequestSweepBasic, EnrichBasic,
     OpenSnapshotBasic, CommitSnapshotBasic, IndexPrBasic DEF ProjectionNext, Numbering

(* A step that leaves the branch of a document does not lower its epoch. *)
LEMMA EpochStep ==
  ASSUME BasicInv, [ProjectionNext]_projectionVars, NEW d \in AllDocs, doc'[d].branch = doc[d].branch
  PROVE  doc'[d].epoch >= doc[d].epoch
<1>1. /\ doc \in [AllDocs -> DocRecs] /\ DocOK(d, doc[d]) /\ doc[d].epoch \in Nat /\ Keys = AllKeys /\ Procs = AllProcs /\ d \in DOMAIN doc
      /\ doc[d].branch \in Branches \cup {None}
  BY Facts DEF DocRecs
<1>2. CASE doc' = doc
  BY <1>1, <1>2
<1>3. ASSUME NEW p \in AllProcs, Bump(p) PROVE doc'[d].epoch >= doc[d].epoch
  <2>1. proc[p] \in ProcRecs /\ proc[p].pc = "bump" /\ ProcOK(p, proc[p])
    BY <1>3, Facts DEF Bump
  <2>2. PICK D \in SUBSET Bumped(proc[p].b, proc[p].e) :
          doc' = [x \in Docs |-> IF x \in D THEN [doc[x] EXCEPT !.epoch = proc[p].e] ELSE doc[x]]
    BY <1>3 DEF Bump
  <2>3. CASE d \in D
    <3>1. doc'[d].epoch = proc[p].e /\ doc[d].branch = proc[p].b
      BY <1>1, <2>2, <2>3 DEF Bumped, Docs, DocRecs
    <3>2. proc[p].e = Epoch(proc[p].b) /\ proc[p].b \in Branches /\ proc[p].b # None
      BY <2>1, ProjectionAssumption DEF ProcOK, Between, Placed
    <3>3. Epoch(proc[p].b) \in Nat
      BY <3>2, ChainOK, Facts
    <3>. QED
      BY <1>1, <3>1, <3>2, <3>3 DEF DocOK
  <2>4. CASE d \notin D
    BY <1>1, <2>2, <2>4 DEF Docs
  <2>. QED
    BY <2>3, <2>4
<1>4. ASSUME NEW p \in AllProcs, Bulk(p) PROVE doc'[d].epoch >= doc[d].epoch
  <2>. DEFINE q == proc[p]
              pass == {i \in q.wr : Classify(i, q.b, q.e, q.reclaim) = "write"}
  <2>1. PICK lost \in SUBSET pass : doc' = Written(doc, pass \ lost, q.b, q.e)
    BY <1>4 DEF Bulk
  <2>2. q \in ProcRecs /\ q.e \in Nat /\ q.wr \in SUBSET Items /\ q.reclaim \in BOOLEAN
    BY Facts, Fields
  <2>3. CASE \E i \in pass \ lost : i.d = d
    <3>1. PICK i \in pass \ lost : i.d = d
      BY <2>3
    <3>2. Classify(i, q.b, q.e, q.reclaim) = "write" /\ i \in Items
      BY <2>2
    <3>3. doc'[d] = Doc(q.b, q.e, (CHOOSE x \in pass \ lost : x.d = d).n)
      BY <1>1, <2>1, <2>3 DEF Written, Docs
    <3>4. doc'[d].branch = q.b /\ doc'[d].epoch = q.e
      BY <3>3 DEF Doc
    <3>5. ~(doc[d].branch = q.b /\ doc[d].epoch > q.e) /\ doc[i.d] \in DocRecs
      <4>1. doc[i.d] \in DocRecs /\ q.reclaim \in BOOLEAN
        BY <1>1, <2>2, <3>1
      <4>2. ~(doc[i.d].branch = q.b /\ doc[i.d].epoch > q.e)
        BY <3>2, <4>1, ClassifyIs
      <4>. QED
        BY <3>1, <4>1, <4>2
    <3>. QED
      BY <1>1, <2>2, <3>4, <3>5
  <2>4. CASE ~\E i \in pass \ lost : i.d = d
    BY <1>1, <2>1, <2>4 DEF Written, Docs
  <2>. QED
    BY <2>3, <2>4
<1>5. ASSUME NEW p \in Enrichers, NEW b \in Branches, NEW s \in Shas, Enrich(p, b, s) PROVE doc'[d].epoch >= doc[d].epoch
  <2>1. doc' = IF doc[s].there THEN doc ELSE [doc EXCEPT ![s] = Doc(b, 0, 0)]
    BY <1>5 DEF Enrich
  <2>2. d = s /\ ~doc[s].there => doc[d].epoch = 0 /\ doc'[d].epoch = 0
    BY <1>1, <2>1 DEF DocOK, NoDoc, Doc
  <2>. QED
    BY <1>1, <2>1, <2>2
<1>6. ASSUME NEW pr \in Pulls, IndexPr(pr) PROVE doc'[d].epoch >= doc[d].epoch
  <2>1. ~doc[pr].there /\ doc' = [doc EXCEPT ![pr] = Doc(PrBranch[pr], 0, 0)]
    BY <1>6 DEF IndexPr
  <2>2. d = pr => doc[d].epoch = 0 /\ doc'[d].epoch = 0
    BY <1>1, <2>1 DEF DocOK, NoDoc, Doc
  <2>. QED
    BY <1>1, <2>1, <2>2
<1>7. ASSUME NEW p \in AllProcs, Project(p) \/ Throw(p) \/ Crash(p) PROVE doc' = doc \/ Bump(p) \/ Bulk(p)
  BY <1>7 DEF Project, ReadEpoch, ReadRange, Observe, Holders, ReadPage, ReadSingle, Delegate, SavePage, FinishSweep, Obsolete,
     SettleDoc, EnrichTarget, EnrichSettle, Throw, Crash
<1>8. CASE ProjectionNext
  <2>1. Numbering => doc' = doc
    BY DEF Numbering, Assign, Reassign
  <2>2. (\E p \in Runners, k \in Keys : ClaimWork(p, k)) => doc' = doc
    BY DEF ClaimWork
  <2>3. (\E k \in Keys : Expire(k)) => doc' = doc
    BY DEF Expire
  <2>4. (\E b \in Branches : RequestSweep(b)) => doc' = doc
    BY DEF RequestSweep
  <2>5. (\E pr \in Pulls : OpenSnapshot(pr) \/ CommitSnapshot(pr) \/ IndexPr(pr)) => doc' = doc \/ \E pr \in Pulls : IndexPr(pr)
    BY DEF OpenSnapshot, CommitSnapshot
  <2>. QED
    BY <1>1, <1>2, <1>3, <1>4, <1>5, <1>6, <1>7, <1>8, <2>1, <2>2, <2>3, <2>4, <2>5 DEF ProjectionNext
<1>. QED
  BY <1>2, <1>8 DEF projectionVars

(* No step takes a document of a branch back to an older epoch of the same  *)
(* branch: neither a sweep, a single document or an inline range of an old  *)
(* epoch (the guard in the script of bulkApplySequence) nor the query that  *)
(* raises the epoch (applyEpochBump), whatever fails on the way.            *)
THEOREM EpochsOnlyRise == ASSUME OneNumberer PROVE ProjectionSpec => EpochNotLowered
<1>1. BasicInv /\ [ProjectionNext]_projectionVars
      => [\A d \in Docs : doc'[d].branch = doc[d].branch => doc'[d].epoch >= doc[d].epoch]_projectionVars
  BY EpochStep, Facts
<1>. QED
  BY <1>1, BasicInit, BasicNext, PTL DEF ProjectionSpec, EpochNotLowered

(****************************************************************************)
(* When all work is done, the documents show the canonical numbers.         *)
(*                                                                          *)
(* Two settings are covered. In the first no commit is ever on two          *)
(* branches, and any number of runners and enrichers work side by side. In  *)
(* the second the commit documents are shared by branches, and there is one *)
(* runner and no enricher: the runner may take a document over from a       *)
(* branch that does not hold the commit any more, and with two of them the  *)
(* late write of one, planned before both branches were rewritten, could    *)
(* take the document from the other after it has finished.                  *)
(****************************************************************************)
Apart == \A a, b \in Branches, s \in Shas : May(a, s) /\ May(b, s) => a = b
Alone == (\A p, q \in Runners : p = q) /\ Enrichers = {}

(* A sweep covers both kinds of documents: requestWork replaces the         *)
(* payload, so a sweep of one kind that is asked for before the last one    *)
(* was claimed drops the other kind.                                        *)
WholeSweeps == SweepKinds \subseteq {Kinds}
(* A commit is the merge commit of at most one pull request of a branch:    *)
(* with two of them resolveTargets projects none.                           *)
OnePullPerCommit == \A p, q \in Pulls : PrSha[p] = PrSha[q] /\ PrBranch[p] = PrBranch[q] => p = q
Setting == OneNumberer /\ WholeSweeps /\ OnePullPerCommit /\ (Apart \/ Alone)

(* A document that PostgreSQL knows of, and its row in the current epoch. *)
Known(b, d) == IF d \in Pulls THEN d \in snap ELSE d \in made \/ PrsOf(b, d) # {}
Row(b, x) == work[<<b, Epoch(b), x>>]

Loaded(q, d) == d \in q.pend \/ \E i \in q.items \cup q.wr : i.d = d
Carries(q, d) == q.pc = "single" \/ Loaded(q, d)

(* A sweep of the branch that is not finished has the number ahead of it. *)
SweepOwes(b, n) == \E x \in {"tail", "full"} : Row(b, x).state \in {"due", "leased"} /\ Base(<<b, Epoch(b), x>>) < n
(* The work of the document itself is not finished: it is due, or will be,  *)
(* or its runner has the document in hand or has not looked it up yet.      *)
DocOwes(b, d) ==
  \/ Row(b, d).state \in {"due", "parked"}
  \/ Row(b, d).state = "leased" /\ (Row(b, d).again \/ Carries(proc[Row(b, d).owner], d))
(* The document shows the number, or it is a commit that shows another      *)
(* branch.                                                                  *)
Right(b, n, d) == doc[d] = Doc(b, Epoch(b), n) \/ (d \in Shas /\ doc[d].branch \notin {b, None})
Served(b, n, d) == Right(b, n, d) \/ DocOwes(b, d)

(* d is at n in the current epoch of b, and the projection answers for it:  *)
(* the document was there from the start, or it has had work of its own in  *)
(* the epoch.                                                               *)
Answers(b, n, d) ==
  /\ Epoch(b) > 0 /\ n \in 1 .. Len(chain[b][Epoch(b)]) /\ chain[b][Epoch(b)][n] = ShaOf(d)
  /\ d \in Pulls => PrBranch[d] = b
  /\ d \in Early \/ Row(b, d).state # "none"

Accounted == \A b \in Branches, d \in AllDocs, n \in Nat : Answers(b, n, d) => Served(b, n, d) \/ SweepOwes(b, n)

(* Documents do not go away; the snapshot transaction asks for work of its  *)
(* own document in an epoch that is there.                                  *)
EarlyInv == \A d \in Early : doc[d].there /\ d \in snap \cup made
LabelInv == \A d \in AllDocs :
  /\ doc[d].there /\ doc[d].branch = None => d \in Early
  /\ Enrichers = {} /\ d \in Shas /\ doc[d].there => d \in Early
TxInv == \A pr \in DOMAIN tx : \A k \in tx[pr] : k[3] = pr /\ k[1] = PrBranch[pr] /\ k[2] <= Epoch(k[1])

(* A row: leased exactly while a runner that is at work on it owns it,      *)
(* obsolete only under a newer epoch, a cursor only over numbers that are   *)
(* there.                                                                   *)
RowInv(k) ==
  /\ work[k].state = "leased" <=> work[k].owner # None
  /\ work[k].owner # None => proc[work[k].owner].pc # "idle" /\ proc[work[k].owner].key = k
  /\ work[k].state = "none" => work[k] = NoWork
  /\ work[k].state # "none" => /\ k[2] <= Epoch(k[1]) /\ work[k].kinds = Kinds
                               /\ k[3] \in AllDocs => Home(k[1], k[3]) /\ Known(k[1], k[3])
                               /\ k[3] \in {"tail", "full"} => work[k].cursor <= Len(chain[k[1]][k[2]])
  /\ work[k].state = "obsolete" => k[2] < Epoch(k[1])

(* The round of a runner. *)
Sweeping(p) == p \in Runners /\ proc[p].pc # "idle" /\ proc[p].key[3] \in {"tail", "full"}
SweepInv(p) ==
  Sweeping(p) =>
    /\ proc[p].kinds = Kinds
    /\ proc[p].cursor <= Len(chain[proc[p].b][proc[p].e]) /\ proc[p].last <= Len(chain[proc[p].b][proc[p].e])
    /\ proc[p].pc = "obsolete" => proc[p].e < Epoch(proc[p].b)
    /\ work[proc[p].key].owner = p =>
         (proc[p].key[3] = "full" /\ work[proc[p].key].again) \/ Base(proc[p].key) = proc[p].cursor
Has(q) == q.pend \cup {i.d : i \in q.items \cup q.wr} \cup {c.item.d : c \in q.conf}
HandInv(p) == p \in Runners => \A d \in Has(proc[p]) : Home(proc[p].b, d) /\ Known(proc[p].b, d)
Paging(q) == q.e = Epoch(q.b) /\ q.pc \in {"observe", "bulk", "holders", "settle", "save"}
(* The page in hand: each number of it is served, or the process carries    *)
(* its document, until everything left over has become work of its own.     *)
Handled(p) ==
  Sweeping(p) /\ Paging(proc[p]) =>
    \A d \in AllDocs, n \in Nat : n > proc[p].cursor /\ n <= proc[p].last /\ Answers(proc[p].b, n, d)
      => Served(proc[p].b, n, d) \/ (proc[p].pc # "save" /\ Carries(proc[p], d))
(* A runner that is behind: with one runner, the full sweep of the new      *)
(* epoch is not claimed before it comes back.                               *)
Late(p) ==
  /\ Apart => proc[p].conf = {} /\ ~proc[p].reclaim /\ proc[p].pc # "holders"
  /\ Alone /\ p \in Runners /\ proc[p].pc # "idle" /\ proc[p].e < Epoch(proc[p].b) =>
       Row(proc[p].b, "full").state = "due" /\ Row(proc[p].b, "full").fresh
RoundInv(p) == SweepInv(p) /\ HandInv(p) /\ Handled(p) /\ Late(p)

(* The one runner works on a branch that was rebuilt under it. *)
Behind(b) == Alone /\ \E p \in Runners : proc[p].pc # "idle" /\ proc[p].b = b /\ proc[p].e < Epoch(b)

RowsInv == \A k \in AllKeys : RowInv(k)
RoundsInv == \A p \in AllProcs : RoundInv(p)
SettleInv == Accounted /\ EarlyInv /\ LabelInv /\ TxInv /\ RowsInv /\ RoundsInv

----------------------------------------------------------------------------
(* Rows. *)

LEMMA RowTypes ==
  ASSUME NEW w \in WorkRecs
  PROVE  /\ w.state \in WorkStates /\ w.owner \in Runners \cup {None} /\ w.again \in BOOLEAN /\ w.kinds \in SUBSET Kinds
         /\ w.cursor \in Nat /\ w.past \in SUBSET Kinds /\ w.fresh \in BOOLEAN
BY DEF WorkRecs

LEMMA AskedIs ==
  ASSUME NEW w \in WorkRecs, NEW v, v = RequestedWith(w, Kinds)
  PROVE  /\ v \in WorkRecs /\ v.state = (IF w.state = "leased" THEN "leased" ELSE "due") /\ v.owner = w.owner
         /\ (w.state = "leased" <=> v.again) /\ v.fresh /\ v.kinds = Kinds /\ v.cursor = w.cursor /\ v.past = w.past
BY DEF RequestedWith, WorkRecs, WorkStates

LEMMA KeyParts ==
  ASSUME NEW k \in AllKeys
  PROVE  k = <<k[1], k[2], k[3]>> /\ k[1] \in Branches /\ k[2] \in 1 .. MaxEpoch /\ k[3] \in {"tail", "full"} \cup AllDocs
BY DEF AllKeys

LEMMA RowKey ==
  ASSUME BasicInv, NEW b \in Branches, Epoch(b) > 0, NEW x \in {"tail", "full"} \cup AllDocs
  PROVE  <<b, Epoch(b), x>> \in AllKeys /\ Row(b, x) \in WorkRecs /\ Epoch(b) \in Nat
<1>1. Epoch(b) \in Nat /\ Epoch(b) <= MaxEpoch /\ MaxEpoch \in Nat
  BY ChainOK, Facts, ProjectionAssumption
<1>. QED
  BY <1>1, Facts DEF AllKeys, Row

LEMMA BaseNat == ASSUME BasicInv, NEW k \in AllKeys PROVE Base(k) \in Nat
BY Facts, RowTypes DEF Base

LEMMA NoClash == \A d \in AllDocs : d # "tail" /\ d # "full"
BY ProjectionAssumption DEF AllDocs

LEMMA NoneOut == None \notin Branches /\ None \notin Runners /\ MaxEpoch \in Nat /\ MaxEpoch > 0
BY ProjectionAssumption

(* What is known stays known. *)
LEMMA KnownStays ==
  ASSUME snap \subseteq snap', made \subseteq made', NEW b, NEW d, Known(b, d)
  PROVE  Known(b, d)'
BY DEF Known, PrsOf

LEMMA RowStays ==
  ASSUME BasicInv, NEW k \in AllKeys, RowInv(k), chain' = chain, snap \subseteq snap', made \subseteq made', work'[k] = work[k],
         work[k].owner # None => proc'[work[k].owner].pc # "idle" /\ proc'[work[k].owner].key = k
  PROVE  RowInv(k)'
<1>1. k[3] \in AllDocs /\ Known(k[1], k[3]) => Known(k[1], k[3])'
  BY KnownStays
<1>. QED
  BY <1>1 DEF RowInv, Epoch, Home

LEMMA RowAsked ==
  ASSUME BasicInv, NEW k \in AllKeys, RowInv(k), chain' = chain, work'[k] = RequestedWith(work[k], Kinds),
         k[2] <= Epoch(k[1]), k[3] \in AllDocs => Home(k[1], k[3]) /\ Known(k[1], k[3])',
         work[k].owner # None => proc'[work[k].owner].pc # "idle" /\ proc'[work[k].owner].key = k
  PROVE  RowInv(k)'
<1>1. work[k] \in WorkRecs /\ k[1] \in Branches /\ k[2] \in 1 .. MaxEpoch
  BY Facts, KeyParts
<1>2. /\ work'[k].state = (IF work[k].state = "leased" THEN "leased" ELSE "due") /\ work'[k].owner = work[k].owner
      /\ work'[k].kinds = Kinds /\ work'[k].cursor = work[k].cursor
  BY <1>1, AskedIs
<1>3. k[3] \in {"tail", "full"} => work[k].cursor <= Len(chain[k[1]][k[2]])
  <2>1. CASE work[k].state = "none"
    <3>1. work[k].cursor = 0
      BY <2>1 DEF RowInv, NoWork
    <3>2. Epoch(k[1]) \in Nat /\ k[2] \in 1 .. Epoch(k[1])
      BY <1>1, ChainOK, Facts, NoneOut
    <3>3. Len(chain[k[1]][k[2]]) \in Nat
      BY <1>1, <3>2, ChainOK, Facts
    <3>. QED
      BY <3>1, <3>3
  <2>2. CASE work[k].state # "none"
    BY <2>2 DEF RowInv
  <2>. QED
    BY <2>1, <2>2
<1>4. work[k].state = "leased" <=> work[k].owner # None
  BY DEF RowInv
<1>. QED
  BY <1>2, <1>3, <1>4 DEF RowInv, Epoch, Home

(* A row that its owner lets go of. *)
LEMMA RowLetGo ==
  ASSUME BasicInv, NEW k \in AllKeys, RowInv(k), chain' = chain, snap \subseteq snap', made \subseteq made',
         work[k].state # "none", work'[k].owner = None, work'[k].state \in {"due", "done", "obsolete", "parked"},
         work'[k].state = "obsolete" => k[2] < Epoch(k[1]),
         work'[k].kinds = work[k].kinds,
         k[3] \in {"tail", "full"} => work'[k].cursor <= Len(chain[k[1]][k[2]])
  PROVE  RowInv(k)'
<1>1. k[3] \in AllDocs /\ Known(k[1], k[3]) => Known(k[1], k[3])'
  BY KnownStays
<1>. QED
  BY <1>1 DEF RowInv, Epoch, Home

(* What a step does to the promises about documents. *)
Keeps ==
  \A b \in Branches, d \in AllDocs, n \in Nat :
    Answers(b, n, d)' => Served(b, n, d)' \/ (Answers(b, n, d) /\ ~Served(b, n, d)) \/ Behind(b)
SweepKeeps ==
  \A b \in Branches, n \in Nat : Epoch(b) > 0 /\ n \in 1 .. Len(chain[b][Epoch(b)]) /\ SweepOwes(b, n) => SweepOwes(b, n)'

LEMMA NotBehind ==
  ASSUME BasicInv, NEW p \in Runners, NEW b \in Branches, proc[p].b = b, proc[p].e = Epoch(b)
  PROVE  ~Behind(b)
<1>1. Epoch(b) \in Nat
  BY ChainOK, Facts
<1>. QED
  BY <1>1 DEF Behind, Alone

LEMMA BehindOwes ==
  ASSUME RoundsInv, NEW b \in Branches, NEW n \in Nat, n > 0, Behind(b)
  PROVE  SweepOwes(b, n)
<1>1. PICK p \in Runners : Alone /\ proc[p].pc # "idle" /\ proc[p].b = b /\ proc[p].e < Epoch(b)
  BY DEF Behind
<1>2. p \in AllProcs
  BY DEF AllProcs
<1>3. Row(b, "full").state = "due" /\ Row(b, "full").fresh
  BY <1>1, <1>2 DEF RoundsInv, RoundInv, Late
<1>4. Base(<<b, Epoch(b), "full">>) = 0
  BY <1>3 DEF Base, Row
<1>. QED
  BY <1>3, <1>4 DEF SweepOwes

LEMMA AccountsStep ==
  ASSUME BasicInv, chain' = chain, Accounted, RoundsInv, Keeps, SweepKeeps
  PROVE  Accounted'
<1>. SUFFICES ASSUME NEW b \in Branches, NEW d \in AllDocs, NEW n \in Nat, Answers(b, n, d)', ~Served(b, n, d)'
              PROVE  SweepOwes(b, n)'
  BY DEF Accounted
<1>1. (Answers(b, n, d) /\ ~Served(b, n, d)) \/ Behind(b)
  BY DEF Keeps
<1>2. Epoch(b) > 0 /\ n \in 1 .. Len(chain[b][Epoch(b)]) /\ n > 0
  BY DEF Answers, Epoch
<1>3. SweepOwes(b, n)
  BY <1>1, <1>2, BehindOwes DEF Accounted
<1>. QED
  BY <1>2, <1>3 DEF SweepKeeps

(* The round of a process that does not move. *)
LEMMA RoundStays ==
  ASSUME BasicInv, NEW a \in AllProcs, RoundInv(a), chain' = chain, snap \subseteq snap', made \subseteq made', proc'[a] = proc[a], Keeps,
         \A k \in AllKeys : a \in Runners /\ work'[k].owner = a => work'[k] = work[k] \/ (work'[k] = RequestedWith(work[k], Kinds) /\ work[k].state = "leased"),
         \A k \in AllKeys : Alone /\ a \in Runners /\ k[2] = Epoch(k[1]) /\ work[k].state = "due" /\ work[k].fresh =>
           work'[k].state = "due" /\ work'[k].fresh
  PROVE  RoundInv(a)'
<1>. DEFINE q == proc[a]
<1>1. q \in ProcRecs /\ ProcOK(a, q)
  BY Facts
<1>2. SweepInv(a)'
  <2>. SUFFICES ASSUME Sweeping(a) PROVE SweepInv(a)'
    BY DEF SweepInv, Sweeping
  <2>1. q.key \in AllKeys
    BY <1>1 DEF Sweeping, ProcOK, Placed
  <2>2. work[q.key] \in WorkRecs
    BY <2>1, Facts
  <2>3. work'[q.key].owner = a => (q.key[3] = "full" /\ work'[q.key].again) \/ Base(q.key)' = q.cursor
    <3>1. CASE work'[q.key] = work[q.key]
      BY <3>1 DEF RoundInv, SweepInv, Base
    <3>2. CASE work'[q.key] = RequestedWith(work[q.key], Kinds) /\ work[q.key].state = "leased"
      <4>1. work'[q.key].again /\ work'[q.key].cursor = work[q.key].cursor /\ work'[q.key].owner = work[q.key].owner
        BY <2>2, <3>2, AskedIs
      <4>. QED
        BY <4>1 DEF RoundInv, SweepInv, Base, Sweeping
    <3>. QED
      BY <2>1, <3>1, <3>2 DEF Sweeping
  <2>. QED
    BY <2>3 DEF RoundInv, SweepInv, Epoch
<1>3. HandInv(a)'
  BY KnownStays DEF RoundInv, HandInv, Has, Home
<1>4. Handled(a)'
  <2>1. Sweeping(a)' <=> Sweeping(a)
    BY DEF Sweeping
  <2>2. Paging(proc[a])' <=> Paging(proc[a])
    BY DEF Paging, Epoch
  <2>3. ASSUME Sweeping(a), Paging(q), NEW d \in AllDocs, NEW n \in Nat, n > q.cursor, n <= q.last, Answers(q.b, n, d)',
               ~Served(q.b, n, d)'
        PROVE  q.pc # "save" /\ Carries(q, d)
    <3>1. q.b \in Branches
      BY <1>1, <2>3 DEF Sweeping, ProcOK, Placed
    <3>2. ~Behind(q.b)
      BY <2>3, <3>1, NotBehind DEF Sweeping, Paging
    <3>3. Answers(q.b, n, d) /\ ~Served(q.b, n, d)
      BY <2>3, <3>1, <3>2 DEF Keeps
    <3>. QED
      BY <2>3, <3>3 DEF RoundInv, Handled
  <2>4. \A d : Carries(q, d) => Carries(proc'[a], d)
    OBVIOUS
  <2>5. \A d, n : Answers(q.b, n, d)' <=> Answers(proc[a].b, n, d)'
    OBVIOUS
  <2>. QED
    BY <2>1, <2>2, <2>3, <2>4 DEF Handled
<1>5. Late(a)'
  <2>1. Alone /\ a \in Runners /\ q.pc # "idle" /\ q.e < Epoch(q.b) =>
          Row(q.b, "full")'.state = "due" /\ Row(q.b, "full")'.fresh
    <3>. SUFFICES ASSUME Alone, a \in Runners, q.pc # "idle", q.e < Epoch(q.b)
                  PROVE  Row(q.b, "full")'.state = "due" /\ Row(q.b, "full")'.fresh
      OBVIOUS
    <3>1. q.b \in Branches /\ Epoch(q.b) > 0
      BY <1>1 DEF ProcOK, Placed
    <3>2. Row(q.b, "full").state = "due" /\ Row(q.b, "full").fresh
      BY DEF RoundInv, Late
    <3>3. <<q.b, Epoch(q.b), "full">> \in AllKeys
      BY <3>1, RowKey
    <3>. QED
      BY <3>2, <3>3 DEF Row, Epoch
  <2>. QED
    BY <2>1 DEF RoundInv, Late, Epoch
<1>. QED
  BY <1>2, <1>3, <1>4, <1>5 DEF RoundInv

LEMMA KeepsStep ==
  ASSUME chain' = chain,
         \A b \in Branches, d \in AllDocs, n \in Nat : Answers(b, n, d) /\ Right(b, n, d) => Right(b, n, d)' \/ Behind(b),
         \A b \in Branches, d \in AllDocs, n \in Nat : Answers(b, n, d) /\ DocOwes(b, d) => Served(b, n, d)',
         \A b \in Branches, d \in AllDocs : Epoch(b) > 0 /\ Row(b, d).state = "none" /\ Row(b, d)'.state # "none" => DocOwes(b, d)'
  PROVE  Keeps
<1>. SUFFICES ASSUME NEW b \in Branches, NEW d \in AllDocs, NEW n \in Nat, Answers(b, n, d)', ~Served(b, n, d)', ~Behind(b)
              PROVE  Answers(b, n, d) /\ ~Served(b, n, d)
  BY DEF Keeps
<1>1. ~Right(b, n, d)' /\ ~DocOwes(b, d)'
  BY DEF Served
<1>2. Epoch(b) > 0 /\ (d \in Early \/ Row(b, d)'.state # "none")
  BY DEF Answers, Epoch
<1>3. d \in Early \/ Row(b, d).state # "none"
  BY <1>1, <1>2
<1>4. Answers(b, n, d)
  BY <1>3 DEF Answers, Epoch
<1>. QED
  BY <1>1, <1>4 DEF Served

(* DocOwes, seen from the row. *)
LEMMA OwesIf ==
  ASSUME chain' = chain, NEW b, NEW d, NEW k, k = <<b, Epoch(b), d>>,
         \/ work'[k].state \in {"due", "parked"}
         \/ work'[k].state = "leased" /\ work'[k].again
         \/ work'[k].state = "leased" /\ Carries(proc'[work'[k].owner], d)
  PROVE  DocOwes(b, d)'
BY DEF DocOwes, Row, Epoch, Carries, Loaded

LEMMA OwesIs ==
  ASSUME NEW b, NEW d, NEW k, k = <<b, Epoch(b), d>>, DocOwes(b, d)
  PROVE  \/ work[k].state \in {"due", "parked"}
         \/ work[k].state = "leased" /\ work[k].again
         \/ work[k].state = "leased" /\ Carries(proc[work[k].owner], d)
BY DEF DocOwes, Row

LEMMA RightSame ==
  ASSUME chain' = chain, doc' = doc, NEW b, NEW n, NEW d, Right(b, n, d)
  PROVE  Right(b, n, d)'
BY DEF Right, Epoch

LEMMA SameSweeps == ASSUME chain' = chain, work' = work PROVE SweepKeeps
BY DEF SweepKeeps, SweepOwes, Row, Base, Epoch

LEMMA SettleStep ==
  ASSUME BasicInv, SettleInv, chain' = chain, snap \subseteq snap', made \subseteq made', \A d \in AllDocs : doc[d].there => doc'[d].there,
         Keeps, SweepKeeps, LabelInv', TxInv', RowsInv', RoundsInv'
  PROVE  SettleInv'
<1>1. Accounted'
  BY AccountsStep DEF SettleInv
<1>2. Early \subseteq AllDocs
  BY ProjectionAssumption DEF AllDocs
<1>3. EarlyInv'
  BY <1>2 DEF SettleInv, EarlyInv
<1>. QED
  BY <1>1, <1>3 DEF SettleInv

LEMMA SameLabels == ASSUME LabelInv, doc' = doc PROVE LabelInv'
BY DEF LabelInv

LEMMA SameTx == ASSUME TxInv, tx' = tx, chain' = chain PROVE TxInv'
BY DEF TxInv, Epoch

Still == UNCHANGED <<chain, snap, made, doc, tx>>

(* Documents stay, and keep their place but behind a rebuilt branch. *)
Writes ==
  /\ LabelInv' /\ \A d \in AllDocs : doc[d].there => doc'[d].there
  /\ \A b \in Branches, d \in AllDocs, n \in Nat : Answers(b, n, d) /\ Right(b, n, d) => Right(b, n, d)' \/ Behind(b)

(* A step of a process that owns no row. *)
LEMMA OutsiderStep ==
  ASSUME BasicInv, SettleInv, Still, work' = work, NEW p \in AllProcs, p \notin Runners, NEW r, proc' = [proc EXCEPT ![p] = r],
         Apart => r.conf = {} /\ ~r.reclaim /\ r.pc # "holders"
  PROVE  SettleInv'
<1>1. /\ proc \in [AllProcs -> ProcRecs] /\ proc'[p] = r /\ \A a \in AllProcs : a # p => proc'[a] = proc[a]
      /\ \A k \in AllKeys : work[k].owner \in Runners \cup {None}
  BY Facts, RowTypes
<1>2. \A k \in AllKeys : work[k].owner # None => proc'[work[k].owner] = proc[work[k].owner]
  BY <1>1 DEF AllProcs
<1>3. Keeps
  <2>1. ASSUME NEW b \in Branches, NEW d \in AllDocs, NEW n \in Nat, Answers(b, n, d), DocOwes(b, d) PROVE DocOwes(b, d)'
    <3>. DEFINE k == <<b, Epoch(b), d>>
    <3>1. k \in AllKeys
      BY <2>1, RowKey DEF Answers
    <3>2. work[k].state = "leased" => work[k].owner # None
      BY <3>1 DEF SettleInv, RowsInv, RowInv
    <3>. HIDE DEF k
    <3>3. k = <<b, Epoch(b), d>>
      BY DEF k
    <3>. QED
      BY <1>2, <2>1, <3>1, <3>2, <3>3, OwesIs, OwesIf DEF Still
  <2>2. \A b \in Branches, d \in AllDocs : Row(b, d)' = Row(b, d)
    BY DEF Row, Epoch, Still
  <2>. QED
    BY <2>1, <2>2, RightSame, KeepsStep DEF Still, Served
<1>4. RowsInv'
  BY <1>2, RowStays DEF SettleInv, RowsInv, RowInv, Still
<1>5. ASSUME NEW a \in AllProcs PROVE RoundInv(a)'
  <2>1. CASE a # p
    BY <1>1, <1>3, <2>1, RoundStays DEF SettleInv, RoundsInv, Still
  <2>2. CASE a = p
    BY <1>1, <2>2 DEF RoundInv, SweepInv, HandInv, Handled, Late, Sweeping
  <2>. QED
    BY <2>1, <2>2
<1>. QED
  BY <1>3, <1>4, <1>5, SettleStep, SameSweeps, SameLabels, SameTx DEF SettleInv, RoundsInv, Still

(* A step of a runner that keeps its row. *)
LEMMA InsiderWrites ==
  ASSUME BasicInv, SettleInv, UNCHANGED <<chain, snap, made, tx, work>>, Writes, NEW p \in Runners, NEW r, proc' = [proc EXCEPT ![p] = r], proc[p].pc # "idle",
         r.pc # "idle", r.key = proc[p].key,
         \A b \in Branches, d \in AllDocs, n \in Nat :
           proc[p].b = b /\ proc[p].e = Epoch(b) /\ proc[p].key[3] = d /\ Answers(b, n, d) /\ Carries(proc[p], d) =>
             Right(b, n, d)' \/ Carries(r, d),
         Keeps => RoundInv(p)'
  PROVE  SettleInv'
<1>0. p \in AllProcs
  BY DEF AllProcs
<1>1. /\ proc \in [AllProcs -> ProcRecs] /\ proc'[p] = r /\ \A a \in AllProcs : a # p => proc'[a] = proc[a]
      /\ \A k \in AllKeys : work[k].owner \in Runners \cup {None}
  BY <1>0, Facts, RowTypes
<1>2. \A k \in AllKeys : work[k].owner # None => proc'[work[k].owner].pc # "idle" /\ proc'[work[k].owner].key = k
  BY <1>1 DEF AllProcs, SettleInv, RowsInv, RowInv
<1>3. Keeps
  <2>1. ASSUME NEW b \in Branches, NEW d \in AllDocs, NEW n \in Nat, Answers(b, n, d), DocOwes(b, d) PROVE Served(b, n, d)'
    <3>. DEFINE k == <<b, Epoch(b), d>>
    <3>1. k \in AllKeys
      BY <2>1, RowKey DEF Answers
    <3>2. work[k].state = "leased" => work[k].owner # None
      BY <3>1 DEF SettleInv, RowsInv, RowInv
    <3>3. CASE work[k].state = "leased" /\ work[k].owner = p /\ ~work[k].again
      <4>1. proc[p].key = k
        BY <1>1, <3>1, <3>3, NoneOut DEF SettleInv, RowsInv, RowInv
      <4>2. proc[p].b = b /\ proc[p].e = Epoch(b) /\ proc[p].key[3] = d
        BY <1>0, <4>1, Facts DEF ProcOK, Placed
      <4>3. Carries(proc[p], d)
        BY <2>1, <3>3, OwesIs
      <4>4. Right(b, n, d)' \/ Carries(r, d)
        BY <2>1, <4>2, <4>3
      <4>5. Right(b, n, d)' \/ DocOwes(b, d)'
        <5>1. CASE Carries(r, d)
          BY <1>1, <3>3, <5>1, OwesIf
        <5>. QED
          BY <4>4, <5>1
      <4>. QED
        BY <4>5 DEF Served
    <3>4. CASE ~(work[k].state = "leased" /\ work[k].owner = p /\ ~work[k].again)
      <4>1. work[k].state = "leased" /\ work[k].owner # p => proc'[work[k].owner] = proc[work[k].owner]
        BY <1>1, <3>1, <3>2 DEF AllProcs
      <4>. HIDE DEF k
      <4>2. k = <<b, Epoch(b), d>>
        BY DEF k
      <4>3. DocOwes(b, d)'
        BY <2>1, <3>4, <4>1, <4>2, OwesIs, OwesIf
      <4>. QED
        BY <4>3 DEF Served
    <3>. QED
      BY <3>3, <3>4
  <2>2. \A b \in Branches, d \in AllDocs : Row(b, d)' = Row(b, d)
    BY DEF Row, Epoch
  <2>. QED
    BY <2>1, <2>2, KeepsStep DEF Writes
<1>4. RowsInv'
  BY <1>2, RowStays DEF SettleInv, RowsInv
<1>5. ASSUME NEW a \in AllProcs PROVE RoundInv(a)'
  <2>1. CASE a # p
    BY <1>1, <1>3, <2>1, RoundStays DEF SettleInv, RoundsInv
  <2>2. CASE a = p
    BY <1>3, <2>2
  <2>. QED
    BY <2>1, <2>2
<1>. QED
  BY <1>3, <1>4, <1>5, SettleStep, SameSweeps, SameTx DEF SettleInv, RoundsInv, Writes

LEMMA StillWrites == ASSUME LabelInv, Still PROVE Writes
BY RightSame, SameLabels DEF Writes, Still

LEMMA InsiderStep ==
  ASSUME BasicInv, SettleInv, Still, work' = work, NEW p \in Runners, NEW r, proc' = [proc EXCEPT ![p] = r], proc[p].pc # "idle",
         r.pc # "idle", r.key = proc[p].key,
         proc[p].key[3] \in AllDocs /\ proc[p].e = Epoch(proc[p].b) =>
           \A n \in Nat : Answers(proc[p].b, n, proc[p].key[3]) /\ Carries(proc[p], proc[p].key[3]) =>
             Carries(r, proc[p].key[3]),
         Keeps => RoundInv(p)'
  PROVE  SettleInv'
<1>1. Writes
  BY StillWrites DEF SettleInv
<1>2. \A b \in Branches, d \in AllDocs, n \in Nat :
        proc[p].b = b /\ proc[p].e = Epoch(b) /\ proc[p].key[3] = d /\ Answers(b, n, d) /\ Carries(proc[p], d) =>
          Right(b, n, d)' \/ Carries(r, d)
  OBVIOUS
<1>. QED
  BY <1>1, <1>2, InsiderWrites DEF Still

(* A step that asks for work. *)
LEMMA AskStep ==
  ASSUME BasicInv, SettleInv, UNCHANGED <<chain, doc>>, snap \subseteq snap', made \subseteq made', NEW ks,
         work' = RequestAll(work, ks, Kinds), TxInv',
         \A k \in AllKeys : k \in ks => k[2] <= Epoch(k[1]) /\ (k[3] \in AllDocs => Home(k[1], k[3]) /\ Known(k[1], k[3])'),
         \A a \in AllProcs : a \in Runners =>
           proc'[a] = proc[a] \/ (Sweeping(a) /\ proc'[a].pc # "idle" /\ proc'[a].key = proc[a].key),
         \A a \in AllProcs : Keeps /\ proc'[a] # proc[a] => RoundInv(a)'
  PROVE  SettleInv'
<1>1. ASSUME NEW k \in AllKeys
      PROVE  /\ work[k] \in WorkRecs /\ work[k].owner \in Runners \cup {None} /\ RowInv(k)
             /\ k \in ks => work'[k] = RequestedWith(work[k], Kinds)
             /\ k \notin ks => work'[k] = work[k]
  BY Facts, RowTypes, RequestAllOK DEF SettleInv, RowsInv
<1>2. ASSUME NEW k \in AllKeys, k \in ks
      PROVE  /\ work'[k].state = (IF work[k].state = "leased" THEN "leased" ELSE "due") /\ work'[k].owner = work[k].owner
             /\ (work[k].state = "leased" <=> work'[k].again) /\ work'[k].fresh /\ work'[k].cursor = work[k].cursor
  BY <1>1, <1>2, AskedIs
<1>3. ASSUME NEW k \in AllKeys, work[k].owner # None
      PROVE  proc'[work[k].owner].pc # "idle" /\ proc'[work[k].owner].key = k
  BY <1>1, <1>3 DEF RowInv, AllProcs
<1>4. RowsInv'
  <2>1. ASSUME NEW k \in AllKeys PROVE RowInv(k)'
    BY <1>1, <1>3, RowStays, RowAsked
  <2>. QED
    BY <2>1 DEF RowsInv
<1>5. Keeps
  <2>1. ASSUME NEW b \in Branches, NEW d \in AllDocs, NEW n \in Nat, Answers(b, n, d), DocOwes(b, d) PROVE DocOwes(b, d)'
    <3>1. PICK k \in AllKeys : k = <<b, Epoch(b), d>>
      BY <2>1, RowKey DEF Answers
    <3>2. CASE k \in ks
      <4>1. work'[k].state = "due" \/ (work'[k].state = "leased" /\ work'[k].again)
        BY <1>2, <3>2
      <4>. QED
        BY <3>1, <4>1, OwesIf
    <3>3. CASE k \notin ks
      <4>1. work[k].state = "leased" => proc'[work[k].owner] = proc[work[k].owner]
        <5>1. work[k].state = "leased" => work[k].owner \in Runners /\ proc[work[k].owner].key = k
          BY <1>1 DEF RowInv
        <5>2. k[3] = d /\ d # "tail" /\ d # "full"
          BY <3>1, NoClash
        <5>. QED
          BY <5>1, <5>2 DEF Sweeping, AllProcs
      <4>2. work'[k] = work[k]
        BY <1>1, <3>3
      <4>. QED
        BY <2>1, <3>1, <4>1, <4>2, OwesIs, OwesIf
    <3>. QED
      BY <3>2, <3>3
  <2>2. ASSUME NEW b \in Branches, NEW d \in AllDocs, Epoch(b) > 0, Row(b, d).state = "none", Row(b, d)'.state # "none"
        PROVE  DocOwes(b, d)'
    <3>1. PICK k \in AllKeys : k = <<b, Epoch(b), d>>
      BY <2>2, RowKey
    <3>2. work[k].state = "none" /\ work'[k].state # "none"
      BY <2>2, <3>1 DEF Row, Epoch
    <3>3. work'[k].state = "due"
      BY <1>1, <1>2, <3>2
    <3>. QED
      BY <3>1, <3>3, OwesIf
  <2>. QED
    BY <2>1, <2>2, RightSame, KeepsStep DEF Served
<1>6. SweepKeeps
  <2>. SUFFICES ASSUME NEW b \in Branches, NEW n \in Nat, Epoch(b) > 0, NEW x \in {"tail", "full"},
                       Row(b, x).state \in {"due", "leased"}, Base(<<b, Epoch(b), x>>) < n
                PROVE  SweepOwes(b, n)'
    BY DEF SweepKeeps, SweepOwes
  <2>1. PICK k \in AllKeys : k = <<b, Epoch(b), x>>
    BY RowKey
  <2>2. k[3] = x /\ work[k].state \in {"due", "leased"} /\ Base(k) < n /\ Base(k) \in Nat
    BY <2>1, BaseNat DEF Row
  <2>3. work'[k].state \in {"due", "leased"} /\ Base(k)' < n
    <3>1. CASE k \in ks
      BY <1>2, <2>2, <3>1 DEF Base
    <3>2. CASE k \notin ks
      BY <1>1, <2>2, <3>2 DEF Base
    <3>. QED
      BY <3>1, <3>2
  <2>. QED
    BY <2>1, <2>3 DEF SweepOwes, Row, Epoch
<1>7. ASSUME NEW a \in AllProcs PROVE RoundInv(a)'
  <2>1. CASE proc'[a] = proc[a]
    <3>1. \A k \in AllKeys : a \in Runners /\ work'[k].owner = a =>
            work'[k] = work[k] \/ (work'[k] = RequestedWith(work[k], Kinds) /\ work[k].state = "leased")
      BY <1>1, <1>2, NoneOut DEF RowInv
    <3>2. \A k \in AllKeys : work[k].state = "due" /\ work[k].fresh => work'[k].state = "due" /\ work'[k].fresh
      BY <1>1, <1>2
    <3>3. RoundInv(a)
      BY DEF SettleInv, RoundsInv
    <3>. QED
      BY <1>5, <2>1, <3>1, <3>2, <3>3, RoundStays
  <2>2. CASE proc'[a] # proc[a]
    BY <1>5, <2>2
  <2>. QED
    BY <2>1, <2>2
<1>. QED
  BY <1>4, <1>5, <1>6, <1>7, SettleStep, SameLabels DEF SettleInv, RoundsInv

(* SweepOwes, when one row changes. *)
LEMMA SweepsIf ==
  ASSUME BasicInv, chain' = chain, NEW k \in AllKeys, NEW v, work' = [work EXCEPT ![k] = v],
         k[3] \in {"tail", "full"} /\ k[2] = Epoch(k[1]) /\ work[k].state \in {"due", "leased"} =>
           \A n \in 1 .. Len(chain[k[1]][k[2]]) : Base(k) < n =>
             v.state \in {"due", "leased"} /\ (IF k[3] = "full" /\ v.fresh THEN 0 ELSE v.cursor) < n
  PROVE  SweepKeeps
<1>. SUFFICES ASSUME NEW b \in Branches, NEW n \in Nat, Epoch(b) > 0, NEW x \in {"tail", "full"}, n \in 1 .. Len(chain[b][Epoch(b)]),
                     Row(b, x).state \in {"due", "leased"}, Base(<<b, Epoch(b), x>>) < n
              PROVE  SweepOwes(b, n)'
  BY DEF SweepKeeps, SweepOwes
<1>1. PICK j \in AllKeys : j = <<b, Epoch(b), x>>
  BY RowKey
<1>2. j[3] = x /\ j[1] = b /\ j[2] = Epoch(b) /\ work[j].state \in {"due", "leased"} /\ Base(j) < n
  BY <1>1 DEF Row
<1>3. work'[j].state \in {"due", "leased"} /\ Base(j)' < n
  <2>1. CASE j = k
    <3>1. work'[j] = v
      BY <2>1, Facts
    <3>. QED
      BY <1>2, <2>1, <3>1 DEF Base
  <2>2. CASE j # k
    <3>1. work'[j] = work[j]
      BY <2>2, Facts
    <3>. QED
      BY <1>2, <3>1 DEF Base
  <2>. QED
    BY <2>1, <2>2
<1>. QED
  BY <1>1, <1>3 DEF SweepOwes, Row, Epoch

(* A runner ends its round. *)
LEMMA LetGoStep ==
  ASSUME BasicInv, SettleInv, Still, NEW p \in Runners, proc[p].pc # "idle", proc' = [proc EXCEPT ![p] = Idle],
         NEW k \in AllKeys, k = proc[p].key, NEW v, work' = [work EXCEPT ![k] = v], SweepKeeps,
         work[k].owner # p => v = work[k],
         work[k].owner = p =>
           /\ v.owner = None /\ v.state \in {"due", "done", "obsolete", "parked"} /\ v.kinds = work[k].kinds
           /\ v.state = "obsolete" => k[2] < Epoch(k[1])
           /\ k[3] \in {"tail", "full"} => v.cursor <= Len(chain[k[1]][k[2]])
           /\ k[3] \in AllDocs /\ k[2] = Epoch(k[1]) /\ (work[k].again \/ Carries(proc[p], k[3])) => v.state \in {"due", "parked"}
  PROVE  SettleInv'
<1>0. p \in AllProcs /\ p # None
  BY NoneOut DEF AllProcs
<1>1. /\ proc'[p] = Idle /\ \A a \in AllProcs : a # p => proc'[a] = proc[a]
      /\ \A j \in AllKeys : work[j].owner \in Runners \cup {None}
      /\ work'[k] = v /\ \A j \in AllKeys : j # k => work'[j] = work[j]
  BY <1>0, Facts, RowTypes
<1>2. \A j \in AllKeys : RowInv(j)
  BY DEF SettleInv, RowsInv
<1>3. \A j \in AllKeys : j # k => work[j].owner # p
  BY <1>0, <1>2 DEF RowInv
<1>4. ASSUME NEW j \in AllKeys, work[j].owner # p
      PROVE  /\ work'[j] = work[j]
             /\ work[j].owner # None => proc'[work[j].owner] = proc[work[j].owner]
  BY <1>1, <1>4 DEF AllProcs
<1>5. RowsInv'
  <2>1. ASSUME NEW j \in AllKeys PROVE RowInv(j)'
    <3>1. CASE work[j].owner # p
      BY <1>2, <1>4, <3>1, RowStays DEF RowInv, Still
    <3>2. CASE work[j].owner = p
      <4>1. j = k /\ work[k].state # "none"
        BY <1>0, <1>2, <1>3, <3>2 DEF RowInv
      <4>. QED
        BY <1>1, <1>2, <3>2, <4>1, RowLetGo DEF Still
    <3>. QED
      BY <3>1, <3>2
  <2>. QED
    BY <2>1 DEF RowsInv
<1>6. Keeps
  <2>1. ASSUME NEW b \in Branches, NEW d \in AllDocs, NEW n \in Nat, Answers(b, n, d), DocOwes(b, d) PROVE DocOwes(b, d)'
    <3>1. PICK j \in AllKeys : j = <<b, Epoch(b), d>>
      BY <2>1, RowKey DEF Answers
    <3>2. CASE work[j].owner # p
      <4>1. work[j].state = "leased" => work[j].owner # None
        BY <1>2 DEF RowInv
      <4>. QED
        BY <1>4, <2>1, <3>1, <3>2, <4>1, OwesIs, OwesIf DEF Still
    <3>3. CASE work[j].owner = p
      <4>1. j = k /\ work[k].state = "leased"
        BY <1>0, <1>2, <1>3, <3>3 DEF RowInv
      <4>2. k[1] = b /\ k[2] = Epoch(b) /\ k[3] = d
        BY <3>1, <4>1
      <4>3. work[k].again \/ Carries(proc[p], k[3])
        BY <2>1, <3>1, <3>3, <4>1, <4>2, OwesIs
      <4>4. v.state \in {"due", "parked"}
        BY <3>3, <4>1, <4>2, <4>3
      <4>. QED
        BY <1>1, <3>1, <4>1, <4>4, OwesIf DEF Still
    <3>. QED
      BY <3>2, <3>3
  <2>2. ASSUME NEW b \in Branches, NEW d \in AllDocs, Epoch(b) > 0, Row(b, d).state = "none" PROVE Row(b, d)'.state = "none"
    <3>1. PICK j \in AllKeys : j = <<b, Epoch(b), d>>
      BY <2>2, RowKey
    <3>2. work[j].state = "none"
      BY <2>2, <3>1 DEF Row
    <3>3. work[j].owner # p
      BY <1>0, <1>2, <3>2 DEF RowInv, NoWork
    <3>. QED
      BY <1>4, <3>1, <3>2, <3>3 DEF Row, Epoch, Still
  <2>. QED
    BY <2>1, <2>2, RightSame, KeepsStep DEF Still, Served
<1>7. ASSUME NEW a \in AllProcs PROVE RoundInv(a)'
  <2>1. CASE a # p
    <3>1. \A j \in AllKeys : a \in Runners /\ work'[j].owner = a => work'[j] = work[j]
      BY <1>1, <1>4, <2>1, NoneOut
    <3>2. Alone => a \notin Runners
      BY <2>1 DEF Alone
    <3>3. RoundInv(a)
      BY DEF SettleInv, RoundsInv
    <3>. QED
      BY <1>1, <1>6, <2>1, <3>1, <3>2, <3>3, RoundStays DEF Still
  <2>2. CASE a = p
    BY <1>1, <2>2 DEF RoundInv, SweepInv, HandInv, Handled, Late, Sweeping, Idle, Has
  <2>. QED
    BY <2>1, <2>2
<1>. QED
  BY <1>5, <1>6, <1>7, SettleStep, SameLabels, SameTx DEF SettleInv, RoundsInv, Still

LEMMA NextFields ==
  ASSUME NEW p, p \notin Numberers, NEW r \in ProcRecs, NEW m, m = NextCall(p, r)
  PROVE  /\ m \in ProcRecs /\ m.pc \in {"observe", "bulk", "holders", "settle"} /\ m.key = r.key /\ m.b = r.b /\ m.e = r.e
         /\ m.cursor = r.cursor /\ m.last = r.last /\ m.kinds = r.kinds /\ m.items = r.items /\ m.wr = r.wr /\ m.conf = r.conf
         /\ m.pend = r.pend /\ m.stale = r.stale /\ m.reclaim = r.reclaim
         /\ m.pc = "holders" => m.conf # {}
<1>1. \E c \in {"observe", "bulk", "holders", "settle"} : m = [r EXCEPT !.pc = c] /\ (c = "holders" => r.conf # {})
  BY NextCallIs
<1>2. PICK c \in {"observe", "bulk", "holders", "settle"} : m = [r EXCEPT !.pc = c] /\ (c = "holders" => r.conf # {})
  BY <1>1
<1>3. c \in Calls
  BY DEF Calls
<1>. QED
  BY <1>2, <1>3 DEF ProcRecs

LEMMA NextLate ==
  ASSUME NEW p, NEW r \in ProcRecs, r.conf = {}, ~r.reclaim
  PROVE  NextCall(p, r).conf = {} /\ ~NextCall(p, r).reclaim /\ NextCall(p, r).pc # "holders"
<1>1. CASE p \in Numberers /\ NextCall(p, r) = Idle
  BY <1>1 DEF Idle
<1>2. CASE \E c \in {"observe", "bulk", "settle"} : NextCall(p, r) = [r EXCEPT !.pc = c]
  BY <1>2 DEF ProcRecs
<1>. QED
  BY <1>1, <1>2, NextCallIs

(* A runner learns something and makes its next call. *)
LEMMA LoadWrites ==
  ASSUME BasicInv, SettleInv, UNCHANGED <<chain, snap, made, tx, work>>, Writes, NEW p \in Runners, proc[p].pc # "idle", NEW r \in ProcRecs,
         proc' = [proc EXCEPT ![p] = NextCall(p, r)],
         r.key = proc[p].key, r.b = proc[p].b, r.e = proc[p].e, r.cursor = proc[p].cursor, r.kinds = proc[p].kinds,
         Sweeping(p) => r.last <= Len(chain[r.b][r.e]),
         Apart => r.conf = {} /\ ~r.reclaim,
         \A d \in Has(r) : Home(r.b, d) /\ Known(r.b, d),
         \A n \in Nat : r.e = Epoch(r.b) /\ r.key[3] \in AllDocs /\ Answers(r.b, n, r.key[3]) /\ Carries(proc[p], r.key[3]) =>
           Right(r.b, n, r.key[3])' \/ Loaded(r, r.key[3]),
         \A d \in AllDocs, n \in Nat : r.e = Epoch(r.b) /\ Sweeping(p) /\ Answers(r.b, n, d) /\ n > r.cursor /\ n <= r.last =>
           Served(r.b, n, d) \/ Right(r.b, n, d)' \/ Loaded(r, d)
  PROVE  SettleInv'
<1>. DEFINE m == NextCall(p, r)
<1>0. p \in AllProcs /\ p \notin Numberers /\ proc \in [AllProcs -> ProcRecs] /\ proc[p].b \in Branches
  BY ProjectionAssumption, Facts, RunnerKey DEF AllProcs
<1>1. /\ m \in ProcRecs /\ m.pc \in {"observe", "bulk", "holders", "settle"} /\ m.key = r.key /\ m.b = r.b /\ m.e = r.e
      /\ m.cursor = r.cursor /\ m.last = r.last /\ m.kinds = r.kinds /\ m.items = r.items /\ m.wr = r.wr /\ m.conf = r.conf
      /\ m.pend = r.pend /\ m.stale = r.stale /\ m.reclaim = r.reclaim
      /\ m.pc = "holders" => m.conf # {}
  BY <1>0, NextFields
<1>. HIDE DEF m
<1>2. proc' = [proc EXCEPT ![p] = m] /\ proc'[p] = m
  BY <1>0 DEF m
<1>3. \A d : Loaded(r, d) => Carries(m, d)
  BY <1>1 DEF Loaded, Carries
<1>4. RoundInv(p)
  BY <1>0 DEF SettleInv, RoundsInv
<1>5. Sweeping(p)' <=> Sweeping(p)
  BY <1>1, <1>2 DEF Sweeping
<1>6. SweepInv(p)'
  <2>. SUFFICES ASSUME Sweeping(p) PROVE SweepInv(p)'
    BY <1>5 DEF SweepInv
  <2>1. work'[m.key].owner = p => (m.key[3] = "full" /\ work'[m.key].again) \/ Base(m.key)' = m.cursor
    BY <1>1, <1>4 DEF RoundInv, SweepInv, Base
  <2>. QED
    BY <1>1, <1>2, <1>4, <2>1 DEF RoundInv, SweepInv, Epoch
<1>7. HandInv(p)'
  <2>1. \A d : Known(r.b, d) => Known(r.b, d)'
    BY KnownStays
  <2>2. Has(m) = Has(r)
    BY <1>1 DEF Has
  <2>3. Has(proc'[p]) = Has(m)
    BY <1>2
  <2>4. \A d \in Has(m) : Home(m.b, d) /\ Known(m.b, d)'
    BY <1>1, <2>1, <2>2
  <2>. QED
    BY <1>2, <2>4 DEF HandInv, Has, Home
<1>8. ASSUME Keeps PROVE Handled(p)'
  <2>1. ASSUME Sweeping(p), m.e = Epoch(m.b), NEW d \in AllDocs, NEW n \in Nat, n > m.cursor, n <= m.last, Answers(m.b, n, d)',
               ~Served(m.b, n, d)'
        PROVE  Carries(m, d)
    <3>1. ~Behind(m.b)
      BY <1>0, <1>1, <2>1, NotBehind
    <3>2. Answers(m.b, n, d) /\ ~Served(m.b, n, d)
      BY <1>0, <1>1, <1>8, <2>1, <3>1 DEF Keeps
    <3>3. ~Right(r.b, n, d)'
      BY <1>1, <2>1 DEF Served
    <3>. QED
      BY <1>1, <1>3, <2>1, <3>2, <3>3
  <2>2. m.e = Epoch(m.b)' => m.e = Epoch(m.b)
    BY DEF Epoch
  <2>3. m.pc # "save"
    BY <1>1
  <2>4. \A d, n : Answers(proc[p].b, n, d)' <=> Answers(m.b, n, d)'
    BY <1>2 DEF Answers, Epoch, Row
  <2>5. \A d, n : Served(proc[p].b, n, d)' <=> Served(m.b, n, d)'
    BY <1>2 DEF Served, Right, DocOwes, Epoch, Row
  <2>. QED
    BY <1>2, <1>5, <2>1, <2>2, <2>3, <2>4, <2>5 DEF Handled, Paging, Carries, Loaded
<1>9. Late(p)'
  <2>1. Apart => m.conf = {} /\ ~m.reclaim /\ m.pc # "holders"
    BY <1>1
  <2>2. Alone /\ m.e < Epoch(m.b) => Row(m.b, "full").state = "due" /\ Row(m.b, "full").fresh
    BY <1>1, <1>4 DEF RoundInv, Late
  <2>. QED
    BY <1>2, <2>1, <2>2 DEF Late, Row, Epoch
<1>10. Keeps => RoundInv(p)'
  BY <1>6, <1>7, <1>8, <1>9 DEF RoundInv
<1>11. ASSUME NEW b \in Branches, NEW d \in AllDocs, NEW n \in Nat, proc[p].b = b, proc[p].e = Epoch(b), proc[p].key[3] = d,
              Answers(b, n, d), Carries(proc[p], d)
       PROVE  Right(b, n, d)' \/ Carries(m, d)
  <2>1. r.b = b /\ r.e = Epoch(r.b) /\ r.key[3] = d
    BY <1>11
  <2>2. Right(r.b, n, r.key[3])' \/ Loaded(r, r.key[3])
    BY <1>11, <2>1
  <2>. QED
    BY <1>3, <2>1, <2>2
<1>. QED
  BY <1>0, <1>1, <1>2, <1>10, <1>11, InsiderWrites

LEMMA LoadStep ==
  ASSUME BasicInv, SettleInv, Still, work' = work, NEW p \in Runners, proc[p].pc # "idle", NEW r \in ProcRecs,
         proc' = [proc EXCEPT ![p] = NextCall(p, r)],
         r.key = proc[p].key, r.b = proc[p].b, r.e = proc[p].e, r.cursor = proc[p].cursor, r.kinds = proc[p].kinds,
         Sweeping(p) => r.last <= Len(chain[r.b][r.e]),
         Apart => r.conf = {} /\ ~r.reclaim,
         \A d \in Has(r) : Home(r.b, d) /\ Known(r.b, d),
         \A n \in Nat : r.e = Epoch(r.b) /\ r.key[3] \in AllDocs /\ Answers(r.b, n, r.key[3]) /\ Carries(proc[p], r.key[3]) =>
           Right(r.b, n, r.key[3]) \/ Loaded(r, r.key[3]),
         \A d \in AllDocs, n \in Nat : r.e = Epoch(r.b) /\ Sweeping(p) /\ Answers(r.b, n, d) /\ n > r.cursor /\ n <= r.last =>
           Served(r.b, n, d) \/ Loaded(r, d)
  PROVE  SettleInv'
<1>1. Writes
  BY StillWrites DEF SettleInv
<1>2. \A n \in Nat : Right(r.b, n, r.key[3]) => Right(r.b, n, r.key[3])'
  BY RightSame DEF Still
<1>. QED
  BY <1>1, <1>2, LoadWrites DEF Still

----------------------------------------------------------------------------
(* The actions. *)

LEMMA OnePosition ==
  ASSUME BasicInv, NEW b \in Branches, NEW e \in 1 .. Epoch(b), NEW n \in 1 .. Len(chain[b][e]), NEW m \in 1 .. Len(chain[b][e]),
         chain[b][e][n] = chain[b][e][m]
  PROVE  n = m
<1>1. chain[b][e] \in Histories[b]
  BY ChainOK, Facts
<1>. QED
  BY <1>1, ProjectionAssumption

(* Under Apart a commit document is never labelled with another branch. *)
LEMMA NoClashApart ==
  ASSUME BasicInv, Apart, NEW p \in AllProcs, proc[p].pc # "idle", proc[p].e > 0, NEW i \in proc[p].items \cup proc[p].wr, i.d \in Shas
  PROVE  doc[i.d].branch \in {proc[p].b, None}
<1>1. proc[p] \in ProcRecs /\ ProcOK(p, proc[p]) /\ proc[p].b \in Branches /\ i \in Items /\ i.d \in AllDocs /\ proc[p].e \in Nat
  BY Facts, Fields, ItemFields DEF ProcOK, Placed
<1>2. Epoch(proc[p].b) \in Nat /\ proc[p].e \in 1 .. Epoch(proc[p].b) /\ Numbered(proc[p].b, proc[p].e, i)
  BY <1>1, ChainOK, Facts DEF ProcOK, Placed, Cargo
<1>3. Home(proc[p].b, i.d)
  BY <1>1, <1>2, NumberedHome
<1>4. i.d \notin Pulls
  BY ProjectionAssumption
<1>5. DocOK(i.d, doc[i.d]) /\ doc[i.d].branch \in Branches \cup {None}
  BY <1>1, Facts DEF DocRecs
<1>. QED
  BY <1>1, <1>3, <1>4, <1>5 DEF DocOK, Home, Apart

(* Where the item of a document stands. *)
LEMMA ItemPosition ==
  ASSUME BasicInv, NEW p \in AllProcs, proc[p].pc # "idle", proc[p].e = Epoch(proc[p].b),
         NEW i \in proc[p].items \cup proc[p].wr, NEW n \in Nat, Answers(proc[p].b, n, i.d)
  PROVE  i.n = n
<1>1. proc[p] \in ProcRecs /\ ProcOK(p, proc[p]) /\ proc[p].b \in Branches /\ Epoch(proc[p].b) > 0
  BY Facts, Fields DEF ProcOK, Placed
<1>2. Epoch(proc[p].b) \in Nat /\ proc[p].e \in 1 .. Epoch(proc[p].b) /\ Numbered(proc[p].b, proc[p].e, i)
  BY <1>1, ChainOK, Facts DEF ProcOK, Placed, Cargo
<1>. QED
  BY <1>1, <1>2, OnePosition DEF Answers, Numbered

LEMMA ObserveSettle == ASSUME BasicInv, SettleInv, NEW p \in AllProcs, Observe(p) PROVE SettleInv'
<1>. DEFINE q == proc[p]
            Verdict(i) == Classify(i, q.b, q.e, q.reclaim)
<1>1. q.pc = "observe" /\ Still /\ work' = work
  BY DEF Observe, Still
<1>2. q \in ProcRecs /\ ProcOK(p, q) /\ RoundInv(p) /\ q.b \in Branches /\ q.e > 0 /\ q.e \in Nat /\ q.items \in SUBSET Items /\ q.reclaim \in BOOLEAN
  BY <1>1, Facts, Fields DEF SettleInv, RoundsInv, ProcOK, Placed, Between
<1>3. PICK r \in ProcRecs :
           /\ proc' = [proc EXCEPT ![p] = NextCall(p, r)]
           /\ r.key = proc[p].key /\ r.b = proc[p].b /\ r.e = proc[p].e /\ r.cursor = proc[p].cursor /\ r.last = proc[p].last
           /\ r.used = proc[p].used /\ r.kinds = proc[p].kinds /\ r.reclaim = proc[p].reclaim /\ r.items = {}
           /\ r.wr = {i \in proc[p].items : Classify(i, proc[p].b, proc[p].e, proc[p].reclaim) = "write"}
           /\ \A c \in r.conf : /\ c.item \in proc[p].items /\ c.item.d \in Shas /\ c.seen = doc[c.item.d].branch /\ ~proc[p].reclaim
                                /\ Classify(c.item, proc[p].b, proc[p].e, proc[p].reclaim) = "branch"
           /\ r.pend \subseteq proc[p].pend \cup {i.d : i \in proc[p].items} /\ proc[p].pend \subseteq r.pend
           /\ \A i \in proc[p].items : \/ Classify(i, proc[p].b, proc[p].e, proc[p].reclaim) \in {"write", "noop", "stale"}
                                       \/ i.d \in r.pend
                                       \/ i.d \in Shas /\ doc[i.d].branch \notin {proc[p].b, None}
           /\ r.stale = (proc[p].stale \/ \E i \in proc[p].items : Classify(i, proc[p].b, proc[p].e, proc[p].reclaim) = "stale")
  BY ObserveIs
<1>4. ASSUME NEW i \in q.items
      PROVE  /\ i \in Items /\ doc[i.d] \in DocRecs /\ DocOK(i.d, doc[i.d]) /\ doc[i.d].epoch \in Nat
             /\ Verdict(i) = "stale" => doc[i.d].branch = q.b /\ doc[i.d].epoch > q.e
             /\ Verdict(i) = "noop" => doc[i.d] = Doc(q.b, q.e, i.n)
             /\ Verdict(i) = "branch" => doc[i.d].there /\ doc[i.d].branch # q.b /\ (i.d \in Pulls \/ (doc[i.d].branch # None /\ ~q.reclaim))
  <2>1. i \in Items /\ i.d \in AllDocs
    BY <1>2, ItemFields
  <2>2. doc[i.d] \in DocRecs /\ DocOK(i.d, doc[i.d]) /\ doc[i.d].epoch \in Nat
    BY <2>1, Facts DEF DocRecs
  <2>. HIDE DEF q
  <2>. QED
    BY <1>2, <2>1, <2>2, ClassifyIs
<1>. HIDE DEF Verdict
<1>5. Apart => r.conf = {} /\ ~r.reclaim
  <2>. SUFFICES ASSUME Apart PROVE r.conf = {} /\ ~r.reclaim
    OBVIOUS
  <2>1. ~q.reclaim
    BY <1>2 DEF RoundInv, Late
  <2>2. ASSUME NEW c \in r.conf PROVE FALSE
    <3>1. c.item \in q.items /\ c.item.d \in Shas /\ Verdict(c.item) = "branch"
      BY <1>3 DEF Verdict
    <3>2. doc[c.item.d].branch \in {q.b, None}
      BY <1>1, <1>2, <3>1, NoClashApart
    <3>3. c.item.d \notin Pulls
      BY <3>1, ProjectionAssumption
    <3>. QED
      BY <1>4, <3>1, <3>2, <3>3
  <2>. QED
    BY <1>3, <2>1, <2>2
<1>6. CASE p \notin Runners
  BY ZenonT(60), <1>1, <1>3, <1>5, <1>6, NextLate, OutsiderStep
<1>7. CASE p \in Runners
  <2>1. \A d \in Has(r) : Home(r.b, d) /\ Known(r.b, d)
    <3>1. Has(r) \subseteq Has(q)
      BY <1>3 DEF Has
    <3>. QED
      BY <1>2, <1>3, <1>7, <3>1 DEF RoundInv, HandInv
  <2>2. ASSUME NEW d \in AllDocs, NEW n \in Nat, q.e = Epoch(q.b), Answers(q.b, n, d), Carries(q, d) PROVE Right(q.b, n, d) \/ Loaded(r, d)
    <3>1. CASE d \in q.pend
      BY <1>3, <3>1 DEF Loaded
    <3>2. CASE \E i \in q.items : i.d = d
      <4>1. PICK i \in q.items : i.d = d
        BY <3>2
      <4>2. i.n = n
        BY <1>1, <2>2, <4>1, ItemPosition
      <4>3. CASE Verdict(i) = "write"
        BY <1>3, <4>1, <4>3 DEF Loaded, Verdict
      <4>4. CASE Verdict(i) = "noop"
        BY <1>4, <2>2, <4>1, <4>2, <4>4 DEF Right
      <4>5. Verdict(i) # "stale"
        <5>1. DocOK(d, doc[d]) /\ doc[d].epoch \in Nat
          BY <1>4, <4>1
        <5>2. Epoch(q.b) \in Nat /\ q.b # None
          BY <1>2, ChainOK, Facts, NoneOut
        <5>. QED
          BY <1>2, <1>4, <2>2, <4>1, <5>1, <5>2 DEF DocOK
      <4>6. CASE i.d \in r.pend
        BY <4>1, <4>6 DEF Loaded
      <4>7. CASE i.d \in Shas /\ doc[i.d].branch \notin {q.b, None}
        BY <4>1, <4>7 DEF Right
      <4>. QED
        BY <1>3, <4>3, <4>4, <4>5, <4>6, <4>7 DEF Verdict
    <3>3. CASE \E i \in q.wr : i.d = d
      BY <1>1, <1>2, <3>3 DEF ProcOK, Between
    <3>. QED
      BY <1>1, <2>2, <3>1, <3>2, <3>3 DEF Carries, Loaded
  <2>3. ASSUME NEW d \in AllDocs, NEW n \in Nat, q.e = Epoch(q.b), Sweeping(p), Answers(q.b, n, d), n > q.cursor, n <= q.last
        PROVE  Served(q.b, n, d) \/ Loaded(r, d)
    <3>1. Served(q.b, n, d) \/ Carries(q, d)
      BY <1>1, <1>2, <2>3 DEF RoundInv, Handled, Paging
    <3>. QED
      BY <2>2, <2>3, <3>1 DEF Served
  <2>4. Sweeping(p) => r.last <= Len(chain[r.b][r.e])
    BY <1>2, <1>3 DEF RoundInv, SweepInv
  <2>. QED
    BY <1>1, <1>3, <1>5, <1>7, <2>1, <2>2, <2>3, <2>4, LoadStep
<1>. QED
  BY <1>6, <1>7

LEMMA HoldersSettle == ASSUME BasicInv, SettleInv, NEW p \in AllProcs, Holders(p) PROVE SettleInv'
<1>. DEFINE q == proc[p]
<1>1. q.pc = "holders" /\ Still /\ work' = work
  BY DEF Holders, Still
<1>2. q \in ProcRecs /\ ProcOK(p, q) /\ RoundInv(p) /\ q.wr = {} /\ q.items = {}
  BY <1>1, Facts DEF SettleInv, RoundsInv, ProcOK, Between
<1>3. PICK r \in ProcRecs :
           /\ proc' = [proc EXCEPT ![p] = NextCall(p, r)]
           /\ r.key = proc[p].key /\ r.b = proc[p].b /\ r.e = proc[p].e /\ r.cursor = proc[p].cursor /\ r.last = proc[p].last
           /\ r.used = proc[p].used /\ r.kinds = proc[p].kinds /\ r.reclaim = TRUE /\ r.conf = {}
           /\ \A i \in r.items : \E c \in proc[p].conf : i = c.item
           /\ r.wr = proc[p].wr /\ r.pend = proc[p].pend /\ r.stale = proc[p].stale
  BY HoldersIs
<1>4. ~Apart
  BY <1>1, <1>2 DEF RoundInv, Late
<1>5. CASE p \notin Runners
  BY <1>1, <1>3, <1>4, <1>5, OutsiderStep
<1>6. CASE p \in Runners
  <2>1. \A d \in Has(r) : Home(r.b, d) /\ Known(r.b, d)
    <3>1. Has(r) \subseteq Has(q)
      BY <1>2, <1>3 DEF Has
    <3>. QED
      BY <1>2, <1>3, <1>6, <3>1 DEF RoundInv, HandInv
  <2>2. \A d : Carries(q, d) => Loaded(r, d)
    BY <1>1, <1>2, <1>3 DEF Carries, Loaded
  <2>3. ASSUME NEW d \in AllDocs, NEW n \in Nat, q.e = Epoch(q.b), Sweeping(p), Answers(q.b, n, d), n > q.cursor, n <= q.last
        PROVE  Served(q.b, n, d) \/ Loaded(r, d)
    BY <1>1, <1>2, <2>2, <2>3 DEF RoundInv, Handled, Paging
  <2>4. Sweeping(p) => r.last <= Len(chain[r.b][r.e])
    BY <1>2, <1>3 DEF RoundInv, SweepInv
  <2>. QED
    BY <1>1, <1>3, <1>4, <1>6, <2>1, <2>2, <2>3, <2>4, LoadStep
<1>. QED
  BY <1>5, <1>6

LEMMA TargetsComplete ==
  ASSUME BasicInv, OnePullPerCommit, NEW b \in Branches, NEW d \in AllDocs, d \in Pulls => PrBranch[d] = b, Known(b, d)
  PROVE  d \in Targets(b, ShaOf(d), Kinds)
<1>1. snap \subseteq Pulls /\ Kinds = {"commit", "pr"}
  BY Facts DEF StoreOK, Kinds
<1>2. CASE d \in Pulls
  <2>1. PrsOf(b, PrSha[d]) = {d}
    BY <1>1, <1>2 DEF PrsOf, Known, OnePullPerCommit
  <2>2. Cardinality({d}) = 1
    BY FS_Singleton
  <2>. QED
    BY <1>1, <1>2, <2>1, <2>2 DEF Targets, ShaOf
<1>3. CASE d \notin Pulls
  BY <1>1, <1>3 DEF Targets, ShaOf, Known
<1>. QED
  BY <1>2, <1>3

LEMMA AnswersKnown ==
  ASSUME BasicInv, SettleInv, OnePullPerCommit, NEW b \in Branches, NEW d \in AllDocs, NEW n \in Nat, Answers(b, n, d)
  PROVE  Known(b, d) /\ d \in Targets(b, chain[b][Epoch(b)][n], Kinds)
<1>1. Known(b, d)
  <2>1. CASE d \in Early
    <3>1. d \in snap \cup made /\ snap \subseteq Pulls /\ made \subseteq Shas
      BY <2>1, Facts DEF SettleInv, EarlyInv, StoreOK
    <3>. QED
      BY <3>1, ProjectionAssumption DEF Known
  <2>2. CASE d \notin Early
    <3>1. PICK k \in AllKeys : k = <<b, Epoch(b), d>>
      BY RowKey DEF Answers
    <3>2. work[k].state # "none" /\ k[1] = b /\ k[3] = d
      BY <2>2, <3>1 DEF Answers, Row
    <3>. QED
      BY <3>2 DEF SettleInv, RowsInv, RowInv
  <2>. QED
    BY <2>1, <2>2
<1>2. chain[b][Epoch(b)][n] = ShaOf(d) /\ (d \in Pulls => PrBranch[d] = b)
  BY DEF Answers
<1>. QED
  BY <1>1, <1>2, TargetsComplete

LEMMA ResolvedKnown ==
  ASSUME BasicInv, NEW b \in Branches, NEW e \in 1 .. Epoch(b), NEW ns \in SUBSET (1 .. Len(chain[b][e])), NEW kinds,
         NEW i \in Resolved(b, e, ns, kinds)
  PROVE  Home(b, i.d) /\ Known(b, i.d)
<1>1. i \in Items /\ Numbered(b, e, i) /\ i.n \in ns /\ i.d \in Targets(b, chain[b][e][i.n], kinds)
  BY ResolvedOK
<1>2. chain[b][e][i.n] \in Shas
  <2>1. chain[b][e] \in Seq(Shas)
    BY ChainOK, Facts
  <2>2. i.n \in 1 .. Len(chain[b][e])
    BY <1>1
  <2>. QED
    BY <2>1, <2>2
<1>. QED
  BY <1>1, <1>2, NumberedHome, TargetsOK, Facts DEF Known

LEMMA ReadEpochSettle == ASSUME BasicInv, SettleInv, NEW p \in AllProcs, ReadEpoch(p) PROVE SettleInv'
<1>. DEFINE r == [proc[p] EXCEPT !.pc = "range", !.e = Epoch(proc[p].b)]
<1>1. proc[p] \in ProcRecs /\ RoundInv(p) /\ p \notin Runners /\ Still /\ work' = work
  BY Facts, ProjectionAssumption DEF ReadEpoch, ProcOK, Between, SettleInv, RoundsInv, Still
<1>2. r.conf = proc[p].conf /\ r.reclaim = proc[p].reclaim /\ r.pc = "range"
  BY <1>1 DEF ProcRecs
<1>3. proc' = [proc EXCEPT ![p] = r]
  BY Facts DEF ReadEpoch
<1>. HIDE DEF r
<1>. QED
  BY <1>1, <1>2, <1>3, OutsiderStep DEF RoundInv, Late

LEMMA ReadRangeSettle == ASSUME BasicInv, SettleInv, NEW p \in AllProcs, ReadRange(p) PROVE SettleInv'
<1>. DEFINE q == proc[p]
            ns == {n \in After(q.b, q.e, q.cursor) : n <= q.last}
            r == [q EXCEPT !.items = Resolved(q.b, q.e, ns, Kinds)]
<1>1. q \in ProcRecs /\ ProcOK(p, q) /\ q.pc = "range" /\ q.b \in Branches /\ q.e \in Nat /\ q.cursor \in Nat /\ p \in Numberers
  BY Facts, Fields DEF ReadRange, ProcOK, Placed, Between
<1>2. Epoch(q.b) \in Nat /\ q.e \in 1 .. Epoch(q.b) /\ q.e = Epoch(q.b)
  BY <1>1, ChainOK, Facts DEF ProcOK, Placed, Between
<1>3. ns \in SUBSET (1 .. Len(chain[q.b][q.e]))
  BY <1>1, <1>2, AfterOK
<1>4. Resolved(q.b, q.e, ns, Kinds) \subseteq Items
  BY <1>1, <1>2, <1>3, ResolvedOK
<1>5. r \in ProcRecs /\ r.conf = q.conf /\ r.reclaim = q.reclaim
  BY <1>1, <1>4 DEF ProcRecs
<1>6. RoundInv(p) /\ p \notin Runners /\ Still /\ work' = work
  BY <1>1, ProjectionAssumption DEF ReadRange, SettleInv, RoundsInv, Still
<1>. HIDE DEF r
<1>7. proc' = [proc EXCEPT ![p] = NextCall(p, r)]
  BY Facts DEF ReadRange, r
<1>. QED
  BY <1>5, <1>6, <1>7, NextLate, OutsiderStep DEF RoundInv, Late

LEMMA EnrichTargetSettle == ASSUME BasicInv, SettleInv, NEW p \in AllProcs, EnrichTarget(p) PROVE SettleInv'
<1>. DEFINE q == proc[p]
            s == q.key[3]
            found == IF Holds(q.b, s) THEN {[d |-> s, n |-> Position(chain[q.b][Epoch(q.b)], s)]} ELSE {}
            r == [q EXCEPT !.e = Epoch(q.b), !.items = found]
<1>1. p \in Enrichers /\ q \in ProcRecs /\ ProcOK(p, q) /\ q.b \in Branches /\ s \in Shas
  BY Facts DEF EnrichTarget, ProcOK, Placed
<1>2. Epoch(q.b) \in Nat
  BY <1>1, ChainOK, Facts
<1>3. found \in SUBSET Items
  BY <1>1, PositionOK DEF Items, AllDocs
<1>4. r \in ProcRecs /\ r.conf = q.conf /\ r.reclaim = q.reclaim
  BY <1>1, <1>2, <1>3 DEF ProcRecs
<1>5. RoundInv(p) /\ p \notin Runners /\ Still /\ work' = work
  BY <1>1, ProjectionAssumption DEF EnrichTarget, SettleInv, RoundsInv, Still
<1>6. proc' = [proc EXCEPT ![p] = NextCall(p, r)]
  BY Facts DEF EnrichTarget
<1>. HIDE DEF r
<1>. QED
  BY <1>4, <1>5, <1>6, NextLate, OutsiderStep DEF RoundInv, Late

LEMMA ReadSingleSettle == ASSUME OnePullPerCommit, BasicInv, SettleInv, NEW p \in AllProcs, ReadSingle(p) PROVE SettleInv'
<1>. DEFINE q == proc[p]
<1>1. p \in Runners /\ q.pc = "single" /\ Still /\ work' = work
  BY DEF ReadSingle, Still
<1>2. q \in ProcRecs /\ ProcOK(p, q) /\ RoundInv(p) /\ q.wr = {} /\ q.items = {} /\ q.conf = {} /\ q.key[3] \in AllDocs
  BY <1>1, Facts DEF SettleInv, RoundsInv, ProcOK, Between
<1>3. PICK r \in ProcRecs :
           /\ proc' = [proc EXCEPT ![p] = NextCall(p, r)]
           /\ r.key = proc[p].key /\ r.b = proc[p].b /\ r.e = proc[p].e /\ r.cursor = proc[p].cursor /\ r.last = proc[p].last
           /\ r.used = proc[p].used /\ r.kinds = proc[p].kinds /\ r.reclaim = proc[p].reclaim /\ r.conf = proc[p].conf
           /\ r.items = {i \in Resolved(r.b, r.e, After(r.b, r.e, 0), Kinds) : i.d = r.key[3]}
           /\ r.wr = proc[p].wr /\ r.pend = proc[p].pend /\ r.stale = proc[p].stale
           /\ r.b \in Branches /\ r.e \in 1 .. Epoch(r.b)
  BY ReadSingleIs
<1>4. After(r.b, r.e, 0) \in SUBSET (1 .. Len(chain[r.b][r.e]))
  BY <1>3, AfterOK
<1>5. ~Sweeping(p)
  BY <1>2, NoClash DEF Sweeping
<1>6. \A d \in Has(r) : Home(r.b, d) /\ Known(r.b, d)
  <2>1. \A i \in r.items : Home(r.b, i.d) /\ Known(r.b, i.d)
    BY <1>3, <1>4, ResolvedKnown
  <2>2. \A d \in r.pend : Home(r.b, d) /\ Known(r.b, d)
    BY <1>1, <1>2, <1>3 DEF RoundInv, HandInv, Has
  <2>. QED
    BY <1>2, <1>3, <2>1, <2>2 DEF Has
<1>7. ASSUME NEW n \in Nat, r.e = Epoch(r.b), Answers(r.b, n, r.key[3]) PROVE Loaded(r, r.key[3])
  <2>. DEFINE d == r.key[3]
  <2>1. d \in Targets(r.b, chain[r.b][r.e][n], Kinds)
    BY <1>2, <1>3, <1>7, AnswersKnown
  <2>2. n \in After(r.b, r.e, 0)
    BY <1>7 DEF After, Answers
  <2>3. [d |-> d, n |-> n] \in Resolved(r.b, r.e, After(r.b, r.e, 0), Kinds)
    BY <1>3, <1>4, <2>1, <2>2, ResolvedOK
  <2>4. [d |-> d, n |-> n] \in r.items
    BY <1>3, <2>3
  <2>. QED
    BY <2>4 DEF Loaded
<1>8. Apart => r.conf = {} /\ ~r.reclaim
  BY <1>2, <1>3 DEF RoundInv, Late
<1>. QED
  BY <1>1, <1>3, <1>5, <1>6, <1>7, <1>8, LoadStep

(* A runner that sweeps leaves its page. *)
LEMMA HaltStep ==
  ASSUME BasicInv, SettleInv, Still, work' = work, NEW p \in Runners, Sweeping(p), NEW r, proc' = [proc EXCEPT ![p] = r],
         r.pc \in {"exhausted", "obsolete"}, r.key = proc[p].key, r.b = proc[p].b, r.e = proc[p].e, r.cursor = proc[p].cursor,
         r.last = proc[p].last, r.kinds = proc[p].kinds, r.reclaim = proc[p].reclaim, r.items = proc[p].items, r.wr = proc[p].wr,
         r.conf = proc[p].conf, r.pend = proc[p].pend, r.pc = "obsolete" => r.e < Epoch(r.b)
  PROVE  SettleInv'
<1>1. p \in AllProcs /\ proc \in [AllProcs -> ProcRecs] /\ RoundInv(p) /\ proc[p].key[3] \notin AllDocs
  BY Facts, NoClash DEF AllProcs, SettleInv, RoundsInv, Sweeping
<1>2. proc'[p] = r
  BY <1>1
<1>3. SweepInv(p)'
  <2>1. work'[r.key].owner = p => (r.key[3] = "full" /\ work'[r.key].again) \/ Base(r.key)' = r.cursor
    BY <1>1 DEF RoundInv, SweepInv, Base
  <2>. QED
    BY <1>1, <1>2, <2>1 DEF RoundInv, SweepInv, Epoch, Still
<1>4. HandInv(p)'
  <2>1. \A d : Known(r.b, d) => Known(r.b, d)'
    BY KnownStays DEF Still
  <2>2. \A d \in Has(r) : Home(r.b, d) /\ Known(r.b, d)'
    BY <1>1, <2>1 DEF RoundInv, HandInv, Has
  <2>. QED
    BY <1>2, <2>2 DEF HandInv, Has, Home
<1>5. Handled(p)'
  BY <1>2 DEF Handled, Paging
<1>6. Late(p)'
  BY <1>1, <1>2 DEF RoundInv, Late, Row, Epoch, Still, Sweeping
<1>. QED
  BY <1>1, <1>3, <1>4, <1>5, <1>6, InsiderStep DEF RoundInv, Sweeping

LEMMA ReadPageSettle == ASSUME OnePullPerCommit, BasicInv, SettleInv, NEW p \in AllProcs, ReadPage(p) PROVE SettleInv'
<1>. DEFINE q == proc[p]
<1>1. q.pc = "page" /\ Still /\ work' = work
  BY DEF ReadPage, Still
<1>2. q \in ProcRecs /\ ProcOK(p, q) /\ RoundInv(p) /\ q.wr = {} /\ q.items = {} /\ q.conf = {} /\ Sweeping(p) /\ p \in Runners
  BY <1>1, Facts DEF SettleInv, RoundsInv, ProcOK, Between, Sweeping
<1>3. q.b \in Branches /\ q.e \in 1 .. Epoch(q.b) /\ Epoch(q.b) \in Nat /\ q.key[3] \notin AllDocs /\ proc \in [AllProcs -> ProcRecs]
  BY <1>1, <1>2, RunnerKey, NoClash, Facts DEF Sweeping
<1>4. ASSUME NEW c \in {"exhausted", "obsolete"}, proc' = [proc EXCEPT ![p] = [q EXCEPT !.pc = c]], c = "obsolete" => Epoch(q.b) # q.e
      PROVE  SettleInv'
  <2>. DEFINE r == [q EXCEPT !.pc = c]
  <2>1. /\ r.pc = c /\ r.key = q.key /\ r.b = q.b /\ r.e = q.e /\ r.cursor = q.cursor /\ r.last = q.last
        /\ r.kinds = q.kinds /\ r.reclaim = q.reclaim /\ r.items = q.items /\ r.wr = q.wr /\ r.conf = q.conf /\ r.pend = q.pend
    BY <1>2 DEF ProcRecs
  <2>. HIDE DEF r
  <2>2. \E x : /\ proc' = [proc EXCEPT ![p] = x]
               /\ x.pc = c /\ x.key = q.key /\ x.b = q.b /\ x.e = q.e /\ x.cursor = q.cursor /\ x.last = q.last
               /\ x.kinds = q.kinds /\ x.reclaim = q.reclaim /\ x.items = q.items /\ x.wr = q.wr /\ x.conf = q.conf /\ x.pend = q.pend
    BY <1>4, <2>1 DEF r
  <2>3. PICK x : /\ proc' = [proc EXCEPT ![p] = x]
                 /\ x.pc = c /\ x.key = q.key /\ x.b = q.b /\ x.e = q.e /\ x.cursor = q.cursor /\ x.last = q.last
                 /\ x.kinds = q.kinds /\ x.reclaim = q.reclaim /\ x.items = q.items /\ x.wr = q.wr /\ x.conf = q.conf /\ x.pend = q.pend
    BY <2>2
  <2>4. x.pc = "obsolete" => x.e < Epoch(x.b)
    BY <1>3, <1>4, <2>3
  <2>. QED
    BY <1>1, <1>2, <2>3, <2>4, HaltStep
<1>5. ASSUME NEW r \in ProcRecs,
              /\ proc' = [proc EXCEPT ![p] = NextCall(p, r)] /\ Epoch(proc[p].b) = proc[p].e
              /\ r.key = proc[p].key /\ r.b = proc[p].b /\ r.e = proc[p].e /\ r.cursor = proc[p].cursor
              /\ r.cursor < r.last /\ r.last <= Len(chain[r.b][r.e])
              /\ r.used = proc[p].used /\ r.kinds = proc[p].kinds /\ r.reclaim = FALSE /\ r.pend = {}
              /\ r.items = Resolved(r.b, r.e, r.cursor + 1 .. r.last, r.kinds)
              /\ r.wr = proc[p].wr /\ r.conf = proc[p].conf /\ r.stale = proc[p].stale
      PROVE  SettleInv'
  <2>1. r.cursor \in Nat /\ r.last \in Nat /\ Len(chain[r.b][r.e]) \in Nat
    BY <1>3, <1>5, Fields, ChainOK, Facts
  <2>2. r.cursor + 1 .. r.last \in SUBSET (1 .. Len(chain[r.b][r.e]))
    BY <1>5, <2>1
  <2>3. \A d \in Has(r) : Home(r.b, d) /\ Known(r.b, d)
    <3>1. ASSUME NEW i \in r.items PROVE Home(r.b, i.d) /\ Known(r.b, i.d)
      <4>1. i \in Resolved(r.b, r.e, r.cursor + 1 .. r.last, r.kinds) /\ r.b \in Branches /\ r.e \in 1 .. Epoch(r.b)
        BY <1>3, <1>5
      <4>. QED
        BY <2>2, <4>1, ResolvedKnown
    <3>. QED
      BY <1>2, <1>5, <3>1 DEF Has
  <2>4. ASSUME NEW d \in AllDocs, NEW n \in Nat, Answers(r.b, n, d), n > r.cursor, n <= r.last PROVE Loaded(r, d)
    <3>1. r.kinds = Kinds
      BY <1>2, <1>5 DEF RoundInv, SweepInv
    <3>2. d \in Targets(r.b, chain[r.b][r.e][n], Kinds)
      BY <1>3, <1>5, <2>4, AnswersKnown
    <3>3. n \in r.cursor + 1 .. r.last
      BY <2>1, <2>4
    <3>4. [d |-> d, n |-> n] \in Resolved(r.b, r.e, r.cursor + 1 .. r.last, Kinds)
      <4>1. r.b \in Branches /\ r.e \in 1 .. Epoch(r.b)
        BY <1>3, <1>5
      <4>. QED
        BY <2>2, <3>2, <3>3, <4>1, ResolvedOK
    <3>. QED
      BY <1>5, <3>1, <3>4 DEF Loaded
  <2>. QED
    BY <1>1, <1>2, <1>3, <1>5, <2>3, <2>4, LoadStep
<1>. QED
  BY <1>4, <1>5, ReadPageIs

LEMMA AskNone == ASSUME work \in [AllKeys -> WorkRecs] PROVE RequestAll(work, {}, Kinds) = work
BY DEF RequestAll, Keys

LEMMA DelegateSettle == ASSUME BasicInv, SettleInv, NEW p \in AllProcs, Delegate(p) PROVE SettleInv'
<1>. DEFINE q == proc[p]
<1>1. p \in Runners /\ q.pc = "settle" /\ UNCHANGED <<chain, snap, made, doc, tx>> /\ q.key[3] \notin AllDocs
  BY Facts DEF Delegate
<1>2. q \in ProcRecs /\ ProcOK(p, q) /\ RoundInv(p) /\ q.wr = {} /\ q.items = {} /\ q.conf = {} /\ q.pend \in SUBSET AllDocs
      /\ proc \in [AllProcs -> ProcRecs]
  BY <1>1, Facts, Fields DEF SettleInv, RoundsInv, ProcOK, Between
<1>3. /\ q.b \in Branches /\ q.e \in 1 .. Epoch(q.b) /\ Epoch(q.b) \in Nat /\ q.key \in AllKeys /\ q.key = <<q.b, q.e, q.key[3]>>
      /\ q.key[3] \in {"tail", "full"} /\ Sweeping(p)
  BY <1>1, RunnerKey, KeyParts DEF Sweeping
<1>4. \E x : /\ proc' = [proc EXCEPT ![p] = x]
             /\ x.pc = (IF q.stale THEN "obsolete" ELSE "save") /\ x.key = q.key /\ x.b = q.b /\ x.e = q.e /\ x.cursor = q.cursor /\ x.last = q.last
             /\ x.kinds = q.kinds /\ x.reclaim = q.reclaim /\ x.items = q.items /\ x.wr = q.wr /\ x.conf = q.conf /\ x.pend = q.pend
  <2>. DEFINE r == [q EXCEPT !.pc = IF q.stale THEN "obsolete" ELSE "save"]
  <2>1. /\ r.pc = (IF q.stale THEN "obsolete" ELSE "save") /\ r.key = q.key /\ r.b = q.b /\ r.e = q.e /\ r.cursor = q.cursor /\ r.last = q.last
        /\ r.kinds = q.kinds /\ r.reclaim = q.reclaim /\ r.items = q.items /\ r.wr = q.wr /\ r.conf = q.conf /\ r.pend = q.pend
    BY <1>2 DEF ProcRecs
  <2>2. proc' = [proc EXCEPT ![p] = r]
    BY <1>2 DEF Delegate
  <2>. HIDE DEF r
  <2>. QED
    BY <2>1, <2>2
<1>5. PICK r : /\ proc' = [proc EXCEPT ![p] = r]
               /\ r.pc = (IF q.stale THEN "obsolete" ELSE "save") /\ r.key = q.key /\ r.b = q.b /\ r.e = q.e /\ r.cursor = q.cursor /\ r.last = q.last
               /\ r.kinds = q.kinds /\ r.reclaim = q.reclaim /\ r.items = q.items /\ r.wr = q.wr /\ r.conf = q.conf /\ r.pend = q.pend
  BY <1>4
<1>6. CASE q.stale
  <2>1. work' = work
    BY <1>6 DEF Delegate
  <2>2. r.e < Epoch(r.b)
    BY <1>2, <1>5, <1>6 DEF ProcOK, Cargo
  <2>. QED
    BY <1>1, <1>3, <1>5, <1>6, <2>1, <2>2, HaltStep DEF Still
<1>7. CASE ~q.stale
  <2>. DEFINE ks == {<<q.b, q.e, d>> : d \in q.pend}
  <2>1. work' = RequestAll(work, ks, Kinds)
    BY <1>7 DEF Delegate
  <2>2. proc'[p] = r /\ \A a \in AllProcs : a # p => proc'[a] = proc[a]
    BY <1>2, <1>5
  <2>3. \A k \in AllKeys : k \in ks => k[2] <= Epoch(k[1]) /\ (k[3] \in AllDocs => Home(k[1], k[3]) /\ Known(k[1], k[3]))
    BY <1>1, <1>2, <1>3 DEF RoundInv, HandInv, Has
  <2>4. \A b, d : Known(b, d) => Known(b, d)'
    BY <1>1, KnownStays
  <2>5. work'[q.key] = work[q.key]
    <3>1. q.key \notin ks
      BY <1>1, <1>2, <1>3
    <3>. QED
      BY <1>3, <2>1, <3>1, RequestAllOK, Facts
  <2>6. \A d \in q.pend : work'[<<q.b, q.e, d>>] = RequestedWith(work[<<q.b, q.e, d>>], Kinds) /\ <<q.b, q.e, d>> \in AllKeys
    <3>1. \A d \in q.pend : <<q.b, q.e, d>> \in ks /\ <<q.b, q.e, d>> \in AllKeys
      BY <1>2, <1>3, ChainOK, NoneOut, Facts DEF AllKeys
    <3>. QED
      BY <2>1, <3>1, RequestAllOK, Facts
  <2>. HIDE DEF ks
  <2>7. SweepInv(p)'
    <3>1. work'[r.key].owner = p => (r.key[3] = "full" /\ work'[r.key].again) \/ Base(r.key)' = r.cursor
      BY <1>2, <1>3, <1>5, <2>5 DEF RoundInv, SweepInv, Base
    <3>. QED
      BY <1>1, <1>2, <1>3, <1>5, <1>7, <2>2, <3>1 DEF RoundInv, SweepInv, Epoch
  <2>8. HandInv(p)'
    <3>1. \A d \in Has(r) : Home(r.b, d) /\ Known(r.b, d)'
      BY <1>1, <1>2, <1>5, <2>4 DEF RoundInv, HandInv, Has
    <3>. QED
      BY <2>2, <3>1 DEF HandInv, Has, Home
  <2>9. ASSUME Keeps PROVE Handled(p)'
    <3>1. ASSUME r.e = Epoch(r.b), NEW d \in AllDocs, NEW n \in Nat, n > r.cursor, n <= r.last, Answers(r.b, n, d)' PROVE Served(r.b, n, d)'
      <4>. SUFFICES ASSUME ~Served(r.b, n, d)' PROVE FALSE
        OBVIOUS
      <4>0. ~Behind(r.b)
        BY <1>1, <1>3, <1>5, <3>1, NotBehind
      <4>1. Answers(r.b, n, d) /\ ~Served(r.b, n, d)
        BY <1>3, <1>5, <2>9, <3>1, <4>0 DEF Keeps
      <4>2. Carries(q, d)
        BY <1>1, <1>3, <1>2, <1>5, <3>1, <4>1 DEF RoundInv, Handled, Paging
      <4>3. d \in q.pend
        BY <1>1, <1>2, <4>2 DEF Carries, Loaded
      <4>4. PICK k \in AllKeys : k = <<q.b, q.e, d>> /\ work'[k] = RequestedWith(work[k], Kinds)
        BY <2>6, <4>3
      <4>5. work'[k].state = "due" \/ (work'[k].state = "leased" /\ work'[k].again)
        BY <4>4, AskedIs, Facts
      <4>6. DocOwes(r.b, d)'
        BY <1>1, <1>5, <3>1, <4>4, <4>5, OwesIf
      <4>. QED
        BY <4>6 DEF Served
    <3>2. r.e = Epoch(r.b)' => r.e = Epoch(r.b)
      BY <1>1 DEF Epoch
    <3>3. \A d, n : Answers(proc[p].b, n, d)' <=> Answers(r.b, n, d)'
      BY <2>2 DEF Answers, Epoch, Row
    <3>4. \A d, n : Served(proc[p].b, n, d)' <=> Served(r.b, n, d)'
      BY <2>2 DEF Served, Right, DocOwes, Epoch, Row
    <3>. QED
      BY <2>2, <3>1, <3>2, <3>3, <3>4 DEF Handled, Paging
  <2>10. Late(p)'
    <3>1. Alone /\ r.e < Epoch(r.b) => Row(r.b, "full").state = "due" /\ Row(r.b, "full").fresh
      BY <1>1, <1>2, <1>5 DEF RoundInv, Late
    <3>2. Epoch(r.b) > 0 => Row(r.b, "full")' = Row(r.b, "full")
      <4>. SUFFICES ASSUME Epoch(r.b) > 0 PROVE Row(r.b, "full")' = Row(r.b, "full")
        OBVIOUS
      <4>1. PICK k \in AllKeys : k = <<r.b, Epoch(r.b), "full">>
        BY <1>3, <1>5, RowKey
      <4>2. k \notin ks
        BY <1>2, <4>1, NoClash DEF ks
      <4>3. work'[k] = work[k]
        BY <2>1, <4>2, RequestAllOK, Facts
      <4>. QED
        BY <1>1, <4>1, <4>3 DEF Row, Epoch
    <3>3. Epoch(r.b) > 0
      BY <1>3, <1>5
    <3>4. r.conf = proc[p].conf /\ r.reclaim = proc[p].reclaim /\ r.pc = "save"
      BY <1>5, <1>7
    <3>. QED
      BY <1>1, <1>2, <2>2, <3>1, <3>2, <3>3, <3>4 DEF RoundInv, Late, Row, Epoch
  <2>11. \A a \in AllProcs : a \in Runners =>
           proc'[a] = proc[a] \/ (Sweeping(a) /\ proc'[a].pc # "idle" /\ proc'[a].key = proc[a].key)
    BY <1>3, <1>5, <1>7, <2>2
  <2>12. \A a \in AllProcs : Keeps /\ proc'[a] # proc[a] => RoundInv(a)'
    BY <2>2, <2>7, <2>8, <2>9, <2>10 DEF RoundInv
  <2>13. TxInv'
    BY <1>1, SameTx DEF SettleInv
  <2>. QED
    BY <1>1, <2>1, <2>3, <2>4, <2>11, <2>12, <2>13, AskStep
<1>. QED
  BY <1>6, <1>7

LEMMA EnrichSettleSettle == ASSUME BasicInv, SettleInv, NEW p \in AllProcs, EnrichSettle(p) PROVE SettleInv'
<1>. DEFINE q == proc[p]
            s == q.key[3]
            ks == IF q.pend = {} THEN {} ELSE {<<q.b, Epoch(q.b), s>>}
<1>1. p \in Enrichers /\ q.pc = "settle" /\ UNCHANGED <<chain, snap, doc, tx>> /\ made' = made \cup {s} /\ proc' = [proc EXCEPT ![p] = Idle]
  BY DEF EnrichSettle
<1>2. ProcOK(p, q) /\ q.b \in Branches /\ s \in Shas /\ May(q.b, s) /\ Epoch(q.b) > 0 /\ proc \in [AllProcs -> ProcRecs]
  BY <1>1, Facts DEF ProcOK, Placed
<1>3. work' = RequestAll(work, ks, Kinds)
  BY AskNone, Facts DEF EnrichSettle
<1>4. proc'[p] = Idle /\ p \notin Runners /\ \A a \in AllProcs : a # p => proc'[a] = proc[a]
  BY <1>1, <1>2, ProjectionAssumption
<1>5. \A k \in AllKeys : k \in ks => k[2] <= Epoch(k[1]) /\ (k[3] \in AllDocs => Home(k[1], k[3]) /\ Known(k[1], k[3])')
  <2>1. s \notin Pulls /\ Epoch(q.b) \in Nat
    BY <1>2, ChainOK, Facts, ProjectionAssumption
  <2>2. Home(q.b, s)
    BY <1>2, <2>1 DEF Home
  <2>0. PICK x : x = s
    OBVIOUS
  <2>3. \A b : Known(b, x)'
    BY <1>1, <2>0, <2>1 DEF Known
  <2>4. \A k \in AllKeys : k \in ks => k[1] = q.b /\ k[2] = Epoch(q.b) /\ k[3] = x
    BY <2>0
  <2>. QED
    BY <2>0, <2>1, <2>2, <2>3, <2>4
<1>6. TxInv'
  BY <1>1, SameTx DEF SettleInv
<1>7. RoundInv(p)'
  BY <1>4 DEF RoundInv, SweepInv, HandInv, Handled, Late, Sweeping, Idle
<1>. QED
  BY <1>1, <1>3, <1>4, <1>5, <1>6, <1>7, AskStep

LEMMA RequestSweepSettle == ASSUME WholeSweeps, BasicInv, SettleInv, NEW b \in Branches, RequestSweep(b) PROVE SettleInv'
<1>1. UNCHANGED <<chain, snap, made, doc, proc, tx>> /\ Epoch(b) > 0 /\ work' = RequestAll(work, {<<b, Epoch(b), "full">>}, Kinds)
  BY DEF RequestSweep, WholeSweeps
<1>2. "full" \notin AllDocs /\ Epoch(b) \in Nat
  BY NoClash, ChainOK, Facts
<1>3. TxInv'
  BY <1>1, SameTx DEF SettleInv
<1>4. \A k \in AllKeys : k \in {<<b, Epoch(b), "full">>} => k[2] <= Epoch(k[1]) /\ (k[3] \in AllDocs => Home(k[1], k[3]) /\ Known(k[1], k[3])')
  BY <1>2
<1>. QED
  BY <1>1, <1>3, <1>4, AskStep

LEMMA CommitSnapshotSettle == ASSUME BasicInv, SettleInv, NEW pr \in Pulls, CommitSnapshot(pr) PROVE SettleInv'
<1>1. /\ UNCHANGED <<chain, made, doc, proc>> /\ pr \in DOMAIN tx /\ snap' = snap \cup {pr} /\ work' = RequestAll(work, tx[pr], Kinds)
      /\ tx' = [x \in DOMAIN tx \ {pr} |-> tx[x]]
  BY DEF CommitSnapshot
<1>2. \A k \in tx[pr] : k[3] = pr /\ k[1] = PrBranch[pr] /\ k[2] <= Epoch(k[1])
  BY <1>1 DEF SettleInv, TxInv
<1>3. \A b : Known(b, pr)'
  BY <1>1 DEF Known
<1>4. \A k \in AllKeys : k \in tx[pr] => k[2] <= Epoch(k[1]) /\ (k[3] \in AllDocs => Home(k[1], k[3]) /\ Known(k[1], k[3])')
  BY <1>2, <1>3 DEF Home
<1>5. TxInv'
  BY <1>1 DEF SettleInv, TxInv, Epoch
<1>. QED
  BY <1>1, <1>4, <1>5, AskStep

(* SweepOwes does not look at the rows of documents, nor at old epochs. *)
LEMMA FinishSweepSettle == ASSUME BasicInv, SettleInv, NEW p \in AllProcs, FinishSweep(p) PROVE SettleInv'
<1>. DEFINE q == proc[p]
            k == q.key
            done == After(q.b, q.e, q.cursor) = {}
            s == Saved(work[k], p, q.cursor, done)
            v == Released(s, p, IF done THEN "done" ELSE "due")
<1>1. p \in Runners /\ q.pc = "exhausted" /\ q.cursor \in Nat /\ work' = [work EXCEPT ![k] = v] /\ proc' = [proc EXCEPT ![p] = Idle]
  BY FinishSweepIs
<1>2. Still
  BY DEF FinishSweep, Still
<1>3. ProcOK(p, q) /\ RoundInv(p) /\ q \in ProcRecs /\ Sweeping(p)
  BY <1>1, Facts DEF SettleInv, RoundsInv, ProcOK, Between, Sweeping
<1>4. /\ k \in AllKeys /\ k = <<q.b, q.e, k[3]>> /\ work[k] \in WorkRecs /\ q.b \in Branches /\ q.e \in 1 .. Epoch(q.b) /\ Epoch(q.b) \in Nat
      /\ k[3] \in {"tail", "full"} /\ k[3] \notin AllDocs
  BY <1>1, <1>3, RunnerKey, NoClash DEF Sweeping
<1>5. /\ s \in WorkRecs /\ (work[k].owner # p => s = work[k]) /\ s.owner = work[k].owner /\ s.state = work[k].state
      /\ s.again = work[k].again /\ s.kinds = work[k].kinds
      /\ work[k].owner = p => s.cursor = q.cursor /\ s.fresh = work[k].again
  <2>1. proc[p] \in ProcRecs /\ done \in BOOLEAN /\ work[k] \in WorkRecs /\ q.cursor \in Nat
    BY <1>1, <1>3, <1>4
  <2>. HIDE DEF done
  <2>. QED
    BY <1>1, <2>1, SavedOK
<1>. HIDE DEF s
<1>6. /\ s.owner # p => v = s
      /\ s.owner = p => v.state = (IF done THEN IF s.again THEN "due" ELSE "done" ELSE "due") /\ v.owner = None
      /\ v.kinds = s.kinds /\ v.cursor = s.cursor /\ v.fresh = s.fresh
  <2>1. (IF done THEN "done" ELSE "due") \in WorkStates /\ "done" # "due"
    BY DEF WorkStates
  <2>. QED
    BY <1>1, <1>5, <2>1, ReleasedOK
<1>. HIDE DEF v
<1>7. SweepKeeps
  <2>1. ASSUME k[2] = Epoch(k[1]), work[k].state \in {"due", "leased"}, NEW n \in 1 .. Len(chain[k[1]][k[2]]), Base(k) < n
        PROVE  v.state \in {"due", "leased"} /\ (IF k[3] = "full" /\ v.fresh THEN 0 ELSE v.cursor) < n
    <3>1. CASE work[k].owner # p
      BY <1>5, <1>6, <2>1, <3>1 DEF Base
    <3>2. CASE work[k].owner = p
      <4>1. (k[3] = "full" /\ work[k].again) \/ Base(k) = q.cursor
        BY <1>3, <3>2 DEF RoundInv, SweepInv
      <4>2. CASE work[k].again
        <5>1. v.state = "due" /\ v.fresh /\ v.cursor = q.cursor
          BY <1>5, <1>6, <3>2, <4>2
        <5>2. Len(chain[k[1]][k[2]]) \in Nat
          BY <1>4, ChainOK, Facts
        <5>3. CASE k[3] = "full"
          BY <2>1, <5>1, <5>2, <5>3
        <5>4. CASE k[3] # "full"
          BY <2>1, <4>1, <5>1, <5>4
        <5>. QED
          BY <5>3, <5>4
      <4>3. CASE ~work[k].again
        <5>1. q.cursor < n
          BY <2>1, <4>1, <4>3
        <5>2. k[1] = q.b /\ k[2] = q.e
          BY <1>4
        <5>3. ~done
          BY <2>1, <5>1, <5>2 DEF After
        <5>. QED
          BY <1>5, <1>6, <3>2, <4>3, <5>1, <5>3
      <4>. QED
        BY <4>2, <4>3
    <3>. QED
      BY <3>1, <3>2
  <2>. QED
    BY <1>1, <1>2, <1>4, <2>1, SweepsIf DEF Still
<1>8. q.cursor <= Len(chain[k[1]][k[2]])
  BY <1>3, <1>4 DEF RoundInv, SweepInv
<1>9. work[k].owner = p =>
           /\ v.owner = None /\ v.state \in {"due", "done"} /\ v.kinds = work[k].kinds
           /\ v.cursor <= Len(chain[k[1]][k[2]])
  BY <1>5, <1>6, <1>8
<1>. QED
  BY <1>1, <1>2, <1>4, <1>5, <1>6, <1>7, <1>9, LetGoStep

LEMMA OtherRow ==
  ASSUME BasicInv, chain' = chain, NEW k \in AllKeys, NEW v, work' = [work EXCEPT ![k] = v],
         k[3] \in AllDocs \/ k[2] # Epoch(k[1])
         \/ (v.state \in {"due", "leased"} /\ v.fresh = work[k].fresh /\ v.cursor = work[k].cursor)
  PROVE  SweepKeeps
<1>1. k[3] \in {"tail", "full"} /\ k[2] = Epoch(k[1]) =>
        v.state \in {"due", "leased"} /\ v.fresh = work[k].fresh /\ v.cursor = work[k].cursor
  BY NoClash
<1>. QED
  BY <1>1, SweepsIf DEF Base

LEMMA LeaseOf == ASSUME SettleInv, NEW k \in AllKeys PROVE work[k].state = "leased" <=> work[k].owner # None
BY DEF SettleInv, RowsInv, RowInv

LEMMA SweptRow ==
  ASSUME BasicInv, SettleInv, NEW k \in AllKeys, work[k].state # "none", k[3] \in {"tail", "full"}
  PROVE  work[k].cursor <= Len(chain[k[1]][k[2]])
BY DEF SettleInv, RowsInv, RowInv

LEMMA ObsoleteSettle == ASSUME BasicInv, SettleInv, NEW p \in AllProcs, Obsolete(p) PROVE SettleInv'
<1>. DEFINE q == proc[p]
            k == q.key
            v == Released(work[k], p, "obsolete")
<1>1. q.pc = "obsolete" /\ proc' = [proc EXCEPT ![p] = Idle] /\ Still
  BY DEF Obsolete, Still
<1>2. p \in Runners /\ ProcOK(p, q) /\ RoundInv(p) /\ q \in ProcRecs /\ Sweeping(p)
  BY <1>1, Facts DEF SettleInv, RoundsInv, ProcOK, Between, Sweeping
<1>3. /\ k \in AllKeys /\ k = <<q.b, q.e, k[3]>> /\ work[k] \in WorkRecs /\ k[3] \in {"tail", "full"} /\ k[3] \notin AllDocs
      /\ Epoch(q.b) \in Nat /\ q.e \in Nat
  BY <1>1, <1>2, RunnerKey, NoClash DEF Sweeping
<1>4. k[2] < Epoch(k[1])
  BY <1>1, <1>2, <1>3 DEF RoundInv, SweepInv
<1>5. work' = [work EXCEPT ![k] = v]
  BY <1>3, Facts DEF Obsolete
<1>6. /\ work[k].owner # p => v = work[k]
      /\ work[k].owner = p => v.state = "obsolete" /\ v.owner = None
      /\ v.kinds = work[k].kinds /\ v.cursor = work[k].cursor
  <2>1. "obsolete" \in WorkStates /\ "obsolete" # "done" /\ work[k] \in WorkRecs
    BY <1>3 DEF WorkStates
  <2>. HIDE DEF k
  <2>. QED
    BY <1>2, <2>1, ReleasedOK
<1>. HIDE DEF v
<1>7. k[2] # Epoch(k[1])
  BY <1>3, <1>4
<1>8. SweepKeeps
  BY <1>1, <1>3, <1>5, <1>7, OtherRow DEF Still
<1>9. work[k].owner = p => work[k].cursor <= Len(chain[k[1]][k[2]])
  BY <1>2, <1>3, LeaseOf, SweptRow, NoneOut
<1>. QED
  BY <1>1, <1>2, <1>3, <1>4, <1>5, <1>6, <1>8, <1>9, LetGoStep

LEMMA SettleDocSettle == ASSUME BasicInv, SettleInv, NEW p \in AllProcs, SettleDoc(p) PROVE SettleInv'
<1>. DEFINE q == proc[p]
            k == q.key
<1>1. p \in Runners /\ q.pc = "settle" /\ proc' = [proc EXCEPT ![p] = Idle] /\ Still /\ k[3] \in AllDocs
  BY Facts DEF SettleDoc, Still
<1>2. ProcOK(p, q) /\ q \in ProcRecs /\ q.items = {} /\ q.wr = {}
  BY <1>1, Facts DEF ProcOK, Between
<1>3. /\ k \in AllKeys /\ k = <<q.b, q.e, k[3]>> /\ work[k] \in WorkRecs /\ k[3] \notin {"tail", "full"}
      /\ Epoch(q.b) \in Nat /\ q.e \in Nat
  BY <1>1, <1>2, RunnerKey, NoClash
<1>4. PICK state \in {"obsolete", "done", "due", "parked"} :
        /\ work' = [work EXCEPT ![k] = Released(work[k], p, state)]
        /\ state = "obsolete" => q.stale
        /\ state = "done" => q.pend = {}
  BY <1>1, <1>3, Facts DEF SettleDoc
<1>. DEFINE v == Released(work[k], p, state)
<1>5. /\ work[k].owner # p => v = work[k]
      /\ work[k].owner = p => v.state = (IF state = "done" /\ work[k].again THEN "due" ELSE state) /\ v.owner = None
      /\ v.kinds = work[k].kinds
  <2>1. state \in WorkStates /\ work[k] \in WorkRecs
    BY <1>3, <1>4 DEF WorkStates
  <2>. HIDE DEF k
  <2>. QED
    BY <1>1, <2>1, ReleasedOK
<1>6. work' = [work EXCEPT ![k] = v]
  BY <1>4
<1>. HIDE DEF v
<1>7. state = "obsolete" => k[2] < Epoch(k[1])
  BY <1>2, <1>3, <1>4 DEF ProcOK, Cargo
<1>8. Carries(q, k[3]) => state # "done"
  BY <1>1, <1>2, <1>4 DEF Carries, Loaded
<1>9. SweepKeeps
  BY <1>1, <1>3, <1>6, OtherRow DEF Still
<1>10. work[k].owner = p =>
           /\ v.owner = None /\ v.state \in {"due", "done", "obsolete", "parked"} /\ v.kinds = work[k].kinds
           /\ v.state = "obsolete" => k[2] < Epoch(k[1])
           /\ k[2] = Epoch(k[1]) /\ (work[k].again \/ Carries(q, k[3])) => v.state \in {"due", "parked"}
  <2>. SUFFICES ASSUME work[k].owner = p
                PROVE  /\ v.owner = None /\ v.state \in {"due", "done", "obsolete", "parked"} /\ v.kinds = work[k].kinds
                       /\ v.state = "obsolete" => k[2] < Epoch(k[1])
                       /\ k[2] = Epoch(k[1]) /\ (work[k].again \/ Carries(q, k[3])) => v.state \in {"due", "parked"}
    OBVIOUS
  <2>1. k[2] = Epoch(k[1]) => state # "obsolete"
    BY <1>3, <1>7
  <2>2. CASE state = "done" /\ work[k].again
    BY <1>5, <2>2
  <2>3. CASE state = "done" /\ ~work[k].again
    BY <1>5, <1>8, <2>3
  <2>4. CASE state # "done"
    BY <1>5, <1>7, <2>1, <2>4
  <2>. QED
    BY <2>2, <2>3, <2>4
<1>. QED
  BY <1>1, <1>3, <1>5, <1>6, <1>9, <1>10, LetGoStep

LEMMA SameBase ==
  ASSUME BasicInv, chain' = chain, NEW k \in AllKeys, NEW v, work' = [work EXCEPT ![k] = v],
         work[k].state \in {"due", "leased"} => v.state \in {"due", "leased"} /\ v.fresh = work[k].fresh /\ v.cursor = work[k].cursor
  PROVE  SweepKeeps
BY SweepsIf DEF Base

(* A row is put back, or dropped, and nobody learns of it. *)
LEMMA WorkRowStep ==
  ASSUME BasicInv, SettleInv, Still, proc' = proc, NEW k \in AllKeys, NEW v, work' = [work EXCEPT ![k] = v], SweepKeeps,
         work[k].state # "none", v.owner = None, v.kinds = work[k].kinds, v.cursor = work[k].cursor,
         v.state = "due" \/ (v.state = "obsolete" /\ k[2] < Epoch(k[1])), work[k].state = "due" => v.state = "obsolete"
  PROVE  SettleInv'
<1>1. ASSUME NEW j \in AllKeys
      PROVE  /\ RowInv(j) /\ (work[j].state = "leased" <=> work[j].owner # None)
             /\ j # k => work'[j] = work[j]
             /\ j = k => work'[j] = v
  BY Facts DEF SettleInv, RowsInv, RowInv
<1>2. RowsInv'
  <2>1. ASSUME NEW j \in AllKeys PROVE RowInv(j)'
    <3>1. CASE j # k
      BY <1>1, <3>1, RowStays DEF RowInv, Still
    <3>2. CASE j = k
      <4>1. k[3] \in {"tail", "full"} => v.cursor <= Len(chain[k[1]][k[2]])
        BY SweptRow
      <4>. QED
        BY <1>1, <3>2, <4>1, RowLetGo DEF Still
    <3>. QED
      BY <3>1, <3>2
  <2>. QED
    BY <2>1 DEF RowsInv
<1>3. Keeps
  <2>1. ASSUME NEW b \in Branches, NEW d \in AllDocs, NEW n \in Nat, Answers(b, n, d), DocOwes(b, d) PROVE DocOwes(b, d)'
    <3>1. PICK j \in AllKeys : j = <<b, Epoch(b), d>>
      BY <2>1, RowKey DEF Answers
    <3>2. Epoch(b) \in Nat /\ j[1] = b /\ j[2] = Epoch(b)
      BY <3>1, ChainOK, Facts
    <3>3. CASE j # k
      BY <1>1, <2>1, <3>1, <3>3, OwesIs, OwesIf DEF Still
    <3>4. CASE j = k
      <4>1. v.state = "due"
        BY <3>2, <3>4
      <4>. QED
        BY <1>1, <3>1, <3>4, <4>1, OwesIf DEF Still
    <3>. QED
      BY <3>3, <3>4
  <2>2. ASSUME NEW b \in Branches, NEW d \in AllDocs, Epoch(b) > 0, Row(b, d).state = "none" PROVE Row(b, d)'.state = "none"
    <3>1. PICK j \in AllKeys : j = <<b, Epoch(b), d>>
      BY <2>2, RowKey
    <3>. QED
      BY <1>1, <2>2, <3>1 DEF Row, Epoch, Still
  <2>. QED
    BY <2>1, <2>2, RightSame, KeepsStep DEF Still, Served
<1>4. ASSUME NEW a \in AllProcs PROVE RoundInv(a)'
  <2>1. \A j \in AllKeys : a \in Runners /\ work'[j].owner = a => work'[j] = work[j]
    BY <1>1, NoneOut
  <2>2. \A j \in AllKeys : j[2] = Epoch(j[1]) /\ work[j].state = "due" => work'[j] = work[j]
    <3>. SUFFICES ASSUME k[2] = Epoch(k[1]), work[k].state = "due" PROVE FALSE
      BY <1>1
    <3>1. k[1] \in Branches /\ k[2] \in 1 .. MaxEpoch
      BY KeyParts
    <3>2. Epoch(k[1]) \in Nat
      BY <3>1, ChainOK, Facts
    <3>. QED
      BY <3>2
  <2>3. RoundInv(a)
    BY DEF SettleInv, RoundsInv
  <2>. QED
    BY <1>3, <2>1, <2>2, <2>3, RoundStays DEF Still
<1>. QED
  BY <1>2, <1>3, <1>4, SettleStep, SameLabels, SameTx DEF SettleInv, RoundsInv, Still

LEMMA ExpireSettle == ASSUME BasicInv, SettleInv, NEW k \in AllKeys, Expire(k) PROVE SettleInv'
<1>1. work[k] \in WorkRecs /\ work[k].state = "leased" /\ Still /\ proc' = proc
  BY Facts DEF Expire, Still
<1>2. \E v : /\ work' = [work EXCEPT ![k] = v] /\ v.state = "due" /\ v.owner = None /\ v.kinds = work[k].kinds
             /\ v.cursor = work[k].cursor /\ v.fresh = work[k].fresh
  <2>. DEFINE v == [work[k] EXCEPT !.state = "due", !.owner = None]
  <2>1. v.state = "due" /\ v.owner = None /\ v.kinds = work[k].kinds /\ v.cursor = work[k].cursor /\ v.fresh = work[k].fresh
    BY <1>1 DEF WorkRecs
  <2>2. work' = [work EXCEPT ![k] = v]
    BY Facts DEF Expire
  <2>. HIDE DEF v
  <2>. QED
    BY <2>1, <2>2
<1>3. PICK v : /\ work' = [work EXCEPT ![k] = v] /\ v.state = "due" /\ v.owner = None /\ v.kinds = work[k].kinds
               /\ v.cursor = work[k].cursor /\ v.fresh = work[k].fresh
  BY <1>2
<1>4. SweepKeeps
  BY <1>1, <1>3, SameBase DEF Still
<1>. QED
  BY <1>1, <1>3, <1>4, WorkRowStep

LEMMA ThrowSettle == ASSUME BasicInv, SettleInv, NEW p \in AllProcs, Throw(p) PROVE SettleInv'
<1>1. Still /\ proc[p].pc \in {"bump", "observe", "bulk"} /\ proc \in [AllProcs -> ProcRecs] /\ ProcOK(p, proc[p])
  BY Facts DEF Throw, Still
<1>2. CASE p \in Runners
  <2>1. /\ p \notin Numberers /\ p \notin Enrichers /\ proc[p].key \in AllKeys /\ work[proc[p].key] \in WorkRecs
        /\ proc[p].pc # "bump"
    BY <1>1, <1>2, RunnerKey, ProjectionAssumption DEF ProcOK, Between
  <2>2. PICK k \in AllKeys : k = proc[p].key /\ work[k] \in WorkRecs
    BY <2>1
  <2>3. proc' = [proc EXCEPT ![p] = Idle] /\ work' = [work EXCEPT ![k] = Released(work[k], p, "due")]
    BY <1>2, <2>1, <2>2, Facts DEF Throw
  <2>4. "due" \in WorkStates /\ "due" # "done"
    BY DEF WorkStates
  <2>. DEFINE v == Released(work[k], p, "due")
  <2>5. /\ work[k].owner # p => v = work[k]
        /\ work[k].owner = p => v.state = "due" /\ v.owner = None
        /\ v.kinds = work[k].kinds /\ v.cursor = work[k].cursor /\ v.fresh = work[k].fresh
    BY <1>2, <2>2, <2>4, ReleasedOK
  <2>6. work' = [work EXCEPT ![k] = v]
    BY <2>3
  <2>. HIDE DEF v
  <2>7. work[k].state \in {"due", "leased"} => v.state \in {"due", "leased"}
    BY <2>5
  <2>8. SweepKeeps
    BY <1>1, <2>5, <2>6, <2>7, SameBase DEF Still
  <2>9. work[k].owner = p /\ k[3] \in {"tail", "full"} => work[k].cursor <= Len(chain[k[1]][k[2]])
    <3>1. work[k].owner = p => work[k].state # "none"
      BY <1>2, LeaseOf, NoneOut
    <3>. QED
      BY <3>1, SweptRow
  <2>10. /\ work[k].owner = p => v.owner = None /\ v.state = "due" /\ v.kinds = work[k].kinds
         /\ work[k].owner = p /\ k[3] \in {"tail", "full"} => v.cursor <= Len(chain[k[1]][k[2]])
         /\ proc[p].pc # "idle"
    BY <1>1, <2>5, <2>9
  <2>11. work[k].owner = p =>
           /\ v.owner = None /\ v.state \in {"due", "done", "obsolete", "parked"} /\ v.kinds = work[k].kinds
           /\ v.state = "obsolete" => k[2] < Epoch(k[1])
           /\ k[3] \in {"tail", "full"} => v.cursor <= Len(chain[k[1]][k[2]])
           /\ k[3] \in AllDocs /\ k[2] = Epoch(k[1]) /\ (work[k].again \/ Carries(proc[p], k[3])) => v.state \in {"due", "parked"}
    BY <2>10
  <2>12. proc' = [proc EXCEPT ![p] = Idle] /\ k = proc[p].key /\ (work[k].owner # p => v = work[k])
    BY <2>2, <2>3, <2>5
  <2>. QED
    BY <1>1, <1>2, <2>6, <2>8, <2>10, <2>11, <2>12, LetGoStep
<1>3. CASE p \in Numberers
  <2>1. p \notin Runners /\ work' = work /\ proc' = [proc EXCEPT ![p] = Idle]
    BY <1>3, ProjectionAssumption DEF Throw
  <2>2. Idle.conf = {} /\ ~Idle.reclaim /\ Idle.pc # "holders"
    BY DEF Idle
  <2>. QED
    BY <1>1, <2>1, <2>2, OutsiderStep
<1>4. CASE p \in Enrichers
  <2>. DEFINE r == [Idle EXCEPT !.pc = "settle", !.key = proc[p].key, !.b = proc[p].b, !.pend = {proc[p].key[3]}]
  <2>1. p \notin Runners /\ p \notin Numberers /\ work' = work /\ proc' = [proc EXCEPT ![p] = r]
    BY <1>4, ProjectionAssumption DEF Throw
  <2>2. r.conf = {} /\ ~r.reclaim /\ r.pc # "holders"
    BY DEF Idle
  <2>. HIDE DEF r
  <2>. QED
    BY <1>1, <2>1, <2>2, OutsiderStep
<1>. QED
  BY <1>2, <1>3, <1>4 DEF AllProcs

LEMMA CrashSettle == ASSUME BasicInv, SettleInv, NEW p \in AllProcs, Crash(p) PROVE SettleInv'
<1>1. Still /\ proc[p].pc # "idle" /\ proc' = [proc EXCEPT ![p] = Idle] /\ work \in [AllKeys -> WorkRecs] /\ p # None
  BY ZenonT(60), Facts, ProjectionAssumption DEF Crash, Still, AllProcs
<1>2. work' = [k \in AllKeys |-> IF work[k].owner = p THEN [work[k] EXCEPT !.state = "due", !.owner = None] ELSE work[k]]
  BY Facts DEF Crash
<1>3. CASE p \in Runners
  <2>1. PICK k \in AllKeys : k = proc[p].key /\ work[k] \in WorkRecs
    BY <1>1, <1>3, RunnerKey
  <2>2. \A j \in AllKeys : j # k => work[j].owner # p
    BY <1>1, <2>1 DEF SettleInv, RowsInv, RowInv
  <2>. DEFINE v == IF work[k].owner = p THEN [work[k] EXCEPT !.state = "due", !.owner = None] ELSE work[k]
  <2>3. work' = [work EXCEPT ![k] = v]
    BY <1>1, <1>2, <2>2
  <2>4. /\ work[k].owner # p => v = work[k]
        /\ work[k].owner = p => v.state = "due" /\ v.owner = None
        /\ v.kinds = work[k].kinds /\ v.cursor = work[k].cursor /\ v.fresh = work[k].fresh
    BY <2>1 DEF WorkRecs
  <2>. HIDE DEF v
  <2>5. SweepKeeps
    BY <1>1, <2>3, <2>4, SameBase DEF Still
  <2>6. work[k].owner = p /\ k[3] \in {"tail", "full"} => work[k].cursor <= Len(chain[k[1]][k[2]])
    <3>1. work[k].owner = p => work[k].state # "none"
      BY <1>1, LeaseOf
    <3>. QED
      BY <3>1, SweptRow
  <2>. QED
    BY <1>1, <1>3, <2>1, <2>3, <2>4, <2>5, <2>6, LetGoStep
<1>4. CASE p \notin Runners
  <2>1. \A k \in AllKeys : work[k].owner # p
    BY <1>1, <1>4, RowTypes
  <2>2. work' = work
    BY <1>1, <1>2, <2>1
  <2>3. Idle.conf = {} /\ ~Idle.reclaim /\ Idle.pc # "holders"
    BY DEF Idle
  <2>. QED
    BY <1>1, <1>4, <2>2, <2>3, OutsiderStep
<1>. QED
  BY <1>3, <1>4

LEMMA ClaimSettle == ASSUME BasicInv, SettleInv, NEW p \in Runners, NEW k \in AllKeys, ClaimWork(p, k) PROVE SettleInv'
<1>1. /\ p \in AllProcs /\ p # None /\ proc[p].pc = "idle" /\ work[k] \in WorkRecs /\ work[k].state = "due" /\ Still
      /\ proc \in [AllProcs -> ProcRecs] /\ work \in [AllKeys -> WorkRecs]
  BY ClaimFacts, NoneOut, Facts DEF Still
<1>2. RowInv(k) /\ work[k].owner = None /\ work[k].kinds = Kinds /\ k[2] <= Epoch(k[1])
  BY <1>1 DEF SettleInv, RowsInv, RowInv
<1>3. k[1] \in Branches /\ k[2] \in Nat /\ Epoch(k[1]) \in Nat
  BY ClaimFacts, ChainOK, Facts
<1>4. CASE k[2] # Epoch(k[1])
  <2>1. k[2] < Epoch(k[1])
    BY <1>2, <1>3, <1>4
  <2>2. PICK v : v = [work[k] EXCEPT !.state = "obsolete"]
    OBVIOUS
  <2>3. v.state = "obsolete" /\ v.owner = None /\ v.kinds = work[k].kinds /\ v.cursor = work[k].cursor
    BY <1>1, <1>2, <2>2 DEF WorkRecs
  <2>4. work' = [work EXCEPT ![k] = v] /\ proc' = proc
    BY <1>4, <2>2, ClaimDrops
  <2>5. SweepKeeps
    BY <1>1, <1>4, <2>4, OtherRow DEF Still
  <2>. QED
    BY <1>1, <2>1, <2>3, <2>4, <2>5, WorkRowStep
<1>5. CASE k[2] = Epoch(k[1])
  <2>1. PICK r \in ProcRecs :
              /\ proc' = [proc EXCEPT ![p] = r]
              /\ k[3] \in AllDocs => r.pc = "single"
              /\ k[3] \notin AllDocs => r.pc = "page"
              /\ r.key = k /\ r.b = k[1] /\ r.e = k[2] /\ r.last = 0 /\ r.items = {} /\ r.wr = {} /\ r.conf = {} /\ r.pend = {}
              /\ ~r.stale /\ ~r.reclaim
              /\ r.kinds \in {work[k].kinds, work[k].past \cup work[k].kinds}
              /\ r.cursor = Base(k)
    BY <1>5, ClaimLeases
  <2>2. PICK v : v = [work[k] EXCEPT !.state = "leased", !.owner = p, !.again = FALSE]
    OBVIOUS
  <2>3. /\ v.state = "leased" /\ v.owner = p /\ ~v.again /\ v.kinds = Kinds /\ v.cursor = work[k].cursor /\ v.fresh = work[k].fresh
    BY <1>1, <1>2, <2>2 DEF WorkRecs
  <2>4. work' = [work EXCEPT ![k] = v]
    BY <1>5, <2>2, ClaimLeases
  <2>5. SweepKeeps
    BY <1>1, <2>3, <2>4, SameBase DEF Still
  <2>6. /\ proc'[p] = r /\ work'[k] = v
        /\ \A a \in AllProcs : a # p => proc'[a] = proc[a]
        /\ \A j \in AllKeys : j # k => work'[j] = work[j]
    BY <1>1, <2>1, <2>4
  <2>7. ASSUME NEW j \in AllKeys
        PROVE  /\ RowInv(j) /\ work[j].owner # p /\ (work[j].state = "leased" <=> work[j].owner # None)
               /\ work[j].owner # None => proc'[work[j].owner] = proc[work[j].owner]
    <3>1. RowInv(j) /\ work[j].owner \in Runners \cup {None}
      BY Facts, RowTypes DEF SettleInv, RowsInv
    <3>2. work[j].owner # p
      BY <1>1, <3>1 DEF RowInv
    <3>. QED
      BY <2>6, <3>1, <3>2 DEF AllProcs, RowInv
  <2>8. RowsInv'
    <3>1. ASSUME NEW j \in AllKeys PROVE RowInv(j)'
      <4>1. CASE j # k
        BY <1>1, <2>6, <2>7, <4>1, RowStays DEF RowInv, Still
      <4>2. CASE j = k
        <5>1. k[3] \in AllDocs /\ Known(k[1], k[3]) => Known(k[1], k[3])'
          BY <1>1, KnownStays DEF Still
        <5>. QED
          BY <1>1, <1>2, <2>1, <2>3, <2>6, <4>2, <5>1 DEF RowInv, Epoch, Home, Still
      <4>. QED
        BY <4>1, <4>2
    <3>. QED
      BY <3>1 DEF RowsInv
  <2>9. Keeps
    <3>1. ASSUME NEW b \in Branches, NEW d \in AllDocs, NEW n \in Nat, Answers(b, n, d), DocOwes(b, d) PROVE DocOwes(b, d)'
      <4>1. PICK j \in AllKeys : j = <<b, Epoch(b), d>>
        BY <3>1, RowKey DEF Answers
      <4>2. CASE j # k
        <5>1. work[j].state = "leased" => proc'[work[j].owner] = proc[work[j].owner]
          BY <2>7
        <5>. QED
          BY <1>1, <2>6, <3>1, <4>1, <4>2, <5>1, OwesIs, OwesIf DEF Still
      <4>3. CASE j = k
        <5>1. k[3] = d
          BY <4>1, <4>3
        <5>2. Carries(r, d)
          BY <2>1, <5>1 DEF Carries
        <5>3. work'[j] = v /\ proc'[v.owner] = r
          BY <2>3, <2>6, <4>3
        <5>4. work'[j].state = "leased" /\ Carries(proc'[work'[j].owner], d)
          BY <2>3, <5>2, <5>3
        <5>. QED
          BY <1>1, <4>1, <5>4, OwesIf DEF Still
      <4>. QED
        BY <4>2, <4>3
    <3>2. ASSUME NEW b \in Branches, NEW d \in AllDocs, Epoch(b) > 0, Row(b, d).state = "none" PROVE Row(b, d)'.state = "none"
      <4>1. PICK j \in AllKeys : j = <<b, Epoch(b), d>>
        BY <3>2, RowKey
      <4>2. j # k
        BY <1>1, <3>2, <4>1 DEF Row
      <4>. QED
        BY <1>1, <2>6, <3>2, <4>1, <4>2 DEF Row, Epoch, Still
    <3>. QED
      BY <1>1, <3>1, <3>2, RightSame, KeepsStep DEF Still, Served
  <2>10. ASSUME NEW a \in AllProcs PROVE RoundInv(a)'
    <3>1. CASE a # p
      <4>1. \A j \in AllKeys : a \in Runners /\ work'[j].owner = a => work'[j] = work[j]
        BY <2>3, <2>6, <3>1
      <4>2. Alone => a \notin Runners
        BY <3>1 DEF Alone
      <4>3. RoundInv(a)
        BY DEF SettleInv, RoundsInv
      <4>. QED
        BY <1>1, <2>6, <2>9, <3>1, <4>1, <4>2, <4>3, RoundStays DEF Still
    <3>2. CASE a = p
      <4>1. SweepInv(p)'
        <5>. SUFFICES ASSUME k[3] \in {"tail", "full"} PROVE SweepInv(p)'
          BY <2>1, <2>6 DEF SweepInv, Sweeping
        <5>1. r.kinds = Kinds
          BY ZenonT(60), <1>1, <1>2, <2>1, RowTypes
        <5>2. Base(k) <= Len(chain[k[1]][k[2]])
          <6>1. Len(chain[k[1]][k[2]]) \in Nat /\ work[k].cursor <= Len(chain[k[1]][k[2]])
            <7>1. k[2] \in 1 .. Epoch(k[1])
              BY <1>3, <1>5, KeyParts
            <7>2. Len(chain[k[1]][k[2]]) \in Nat
              BY <1>3, <7>1, ChainOK, Facts
            <7>. QED
              BY <1>1, <7>2, SweptRow
          <6>. QED
            BY <6>1 DEF Base
        <5>3. Base(k)' = Base(k)
          BY <2>3, <2>6 DEF Base
        <5>4. Len(chain[k[1]][k[2]]) \in Nat
          <6>1. k[2] \in 1 .. Epoch(k[1])
            BY <1>3, <1>5, KeyParts
          <6>. QED
            BY <1>3, <6>1, ChainOK, Facts
        <5>5. r.pc # "obsolete"
          BY <2>1
        <5>6. /\ r.kinds = Kinds /\ r.cursor <= Len(chain'[r.b][r.e]) /\ r.last <= Len(chain'[r.b][r.e]) /\ Base(r.key)' = r.cursor
          BY <1>1, <2>1, <5>1, <5>2, <5>3, <5>4 DEF Still
        <5>. QED
          BY <2>6, <5>5, <5>6 DEF SweepInv
      <4>2. HandInv(p)'
        BY <2>1, <2>6 DEF HandInv, Has
      <4>3. Handled(p)'
        BY <2>1, <2>6 DEF Handled, Paging
      <4>4. Late(p)'
        BY <1>1, <1>3, <1>5, <2>1, <2>6 DEF Late, Epoch, Still
      <4>. QED
        BY <3>2, <4>1, <4>2, <4>3, <4>4 DEF RoundInv
    <3>. QED
      BY <3>1, <3>2
  <2>. QED
    BY <1>1, <2>5, <2>8, <2>9, <2>10, SettleStep, SameLabels, SameTx DEF SettleInv, RoundsInv, Still
<1>. QED
  BY <1>4, <1>5

(* A step outside of the rows: documents change, no runner moves. *)
LEMMA AsideStep ==
  ASSUME BasicInv, SettleInv, UNCHANGED <<chain, snap, made, work>>, TxInv', Writes,
         \A a \in AllProcs : proc'[a] = proc[a]
           \/ (a \notin Runners /\ (Apart => proc'[a].conf = {} /\ ~proc'[a].reclaim /\ proc'[a].pc # "holders"))
  PROVE  SettleInv'
<1>1. \A k \in AllKeys : work[k].owner # None => work[k].owner \in Runners /\ proc'[work[k].owner] = proc[work[k].owner]
  BY Facts, RowTypes DEF AllProcs
<1>2. Keeps
  <2>1. ASSUME NEW b \in Branches, NEW d \in AllDocs, NEW n \in Nat, Answers(b, n, d), DocOwes(b, d) PROVE DocOwes(b, d)'
    <3>1. PICK k \in AllKeys : k = <<b, Epoch(b), d>>
      BY <2>1, RowKey DEF Answers
    <3>2. work[k].state = "leased" => work[k].owner # None
      BY LeaseOf
    <3>. QED
      BY <1>1, <2>1, <3>1, <3>2, OwesIs, OwesIf
  <2>2. \A b \in Branches, d \in AllDocs : Row(b, d)' = Row(b, d)
    BY DEF Row, Epoch
  <2>. QED
    BY <2>1, <2>2, KeepsStep DEF Served, Writes
<1>3. RowsInv'
  BY <1>1, RowStays DEF SettleInv, RowsInv, RowInv
<1>4. ASSUME NEW a \in AllProcs PROVE RoundInv(a)'
  <2>1. CASE proc'[a] = proc[a]
    BY <1>2, <2>1, RoundStays DEF SettleInv, RoundsInv
  <2>2. CASE proc'[a] # proc[a]
    BY <2>2 DEF RoundInv, SweepInv, HandInv, Handled, Late, Sweeping
  <2>. QED
    BY <2>1, <2>2
<1>. QED
  BY <1>2, <1>3, <1>4, SettleStep, SameSweeps DEF SettleInv, RoundsInv, Writes

LEMMA OpenSnapshotSettle == ASSUME BasicInv, SettleInv, NEW pr \in Pulls, OpenSnapshot(pr) PROVE SettleInv'
<1>. DEFINE b == PrBranch[pr]
            ks == IF Holds(b, PrSha[pr]) THEN {<<b, Epoch(b), pr>>} ELSE {}
<1>2. UNCHANGED <<chain, snap, made, doc, work, proc>> /\ tx' = [x \in DOMAIN tx \cup {pr} |-> IF x = pr THEN ks ELSE tx[x]]
  BY DEF OpenSnapshot
<1>3. b \in Branches /\ Epoch(b) \in Nat
  BY ChainOK, Facts, ProjectionAssumption
<1>4. TxInv'
  <2>1. \A k \in ks : k[3] = pr /\ k[1] = b /\ k[2] <= Epoch(k[1])
    BY <1>3
  <2>2. \A x \in DOMAIN tx : \A k \in tx[x] : k[3] = x /\ k[1] = PrBranch[x] /\ k[2] <= Epoch(k[1])
    BY DEF SettleInv, TxInv
  <2>. HIDE DEF ks
  <2>3. \A x \in DOMAIN tx' : \A k \in tx'[x] : k[3] = x /\ k[1] = PrBranch[x] /\ k[2] <= Epoch(k[1])
    BY <1>2, <2>1, <2>2
  <2>4. chain' = chain
    BY <1>2
  <2>. QED
    BY <2>3, <2>4 DEF TxInv, Epoch
<1>5. Writes
  BY <1>2, RightSame, SameLabels DEF Writes, SettleInv
<1>. QED
  BY <1>2, <1>4, <1>5, AsideStep

LEMMA IndexPrSettle == ASSUME BasicInv, SettleInv, NEW pr \in Pulls, IndexPr(pr) PROVE SettleInv'
<1>1. UNCHANGED <<chain, snap, made, work, proc, tx>> /\ ~doc[pr].there /\ doc' = [doc EXCEPT ![pr] = Doc(PrBranch[pr], 0, 0)]
  BY DEF IndexPr
<1>2. pr \in AllDocs /\ pr \notin Shas /\ PrBranch[pr] # None /\ doc \in [AllDocs -> DocRecs]
  BY Facts, ProjectionAssumption DEF AllDocs
<1>3. doc'[pr].there /\ doc'[pr].branch # None /\ \A d \in AllDocs : d # pr => doc'[d] = doc[d]
  BY <1>1, <1>2 DEF Doc
<1>4. LabelInv'
  BY <1>2, <1>3 DEF SettleInv, LabelInv
<1>5. ASSUME NEW b \in Branches, NEW d \in AllDocs, NEW n \in Nat, Right(b, n, d) PROVE Right(b, n, d)'
  <2>1. d # pr
    BY <1>1, <1>2, <1>5 DEF Right, Doc
  <2>. QED
    BY <1>1, <1>3, <1>5, <2>1 DEF Right, Epoch
<1>6. Writes
  BY <1>3, <1>4, <1>5 DEF Writes
<1>7. TxInv'
  BY <1>1, SameTx DEF SettleInv
<1>. QED
  BY <1>1, <1>6, <1>7, AsideStep

LEMMA EnrichSettles ==
  ASSUME BasicInv, SettleInv, NEW p \in Enrichers, NEW b \in Branches, NEW s \in Shas, Enrich(p, b, s) PROVE SettleInv'
<1>. DEFINE r == [Idle EXCEPT !.pc = "single", !.key = <<b, 0, s>>, !.b = b]
<1>1. /\ UNCHANGED <<chain, snap, made, work, tx>> /\ doc' = (IF doc[s].there THEN doc ELSE [doc EXCEPT ![s] = Doc(b, 0, 0)])
      /\ proc' = [proc EXCEPT ![p] = r]
  BY DEF Enrich
<1>2. p \in AllProcs /\ p \notin Runners /\ s \in AllDocs /\ b # None /\ doc \in [AllDocs -> DocRecs] /\ proc \in [AllProcs -> ProcRecs]
  BY Facts, ProjectionAssumption DEF AllDocs, AllProcs
<1>3. r.conf = {} /\ ~r.reclaim /\ r.pc # "holders"
  BY DEF Idle
<1>. HIDE DEF r
<1>4. \A a \in AllProcs : proc'[a] = proc[a] \/ (a \notin Runners /\ proc'[a].conf = {} /\ ~proc'[a].reclaim /\ proc'[a].pc # "holders")
  BY <1>1, <1>2, <1>3
<1>5. ASSUME NEW d \in AllDocs PROVE doc'[d] = doc[d] \/ (~doc[d].there /\ doc'[d].there /\ doc'[d].branch = b)
  BY <1>1, <1>2 DEF Doc
<1>6. LabelInv'
  BY <1>2, <1>5 DEF SettleInv, LabelInv
<1>7. ASSUME NEW x \in Branches, NEW d \in AllDocs, NEW n \in Nat, Right(x, n, d) PROVE Right(x, n, d)'
  <2>1. ~doc[d].there => doc[d].branch = None
    BY Facts DEF DocOK, NoDoc
  <2>2. doc[d].there
    BY <1>7, <2>1 DEF Right, Doc
  <2>. QED
    BY <1>1, <1>5, <1>7, <2>2 DEF Right, Epoch
<1>8. Writes
  BY <1>5, <1>6, <1>7 DEF Writes
<1>9. TxInv'
  BY <1>1, SameTx DEF SettleInv
<1>. QED
  BY <1>1, <1>4, <1>8, <1>9, AsideStep

LEMMA BumpSettle == ASSUME BasicInv, SettleInv, NEW p \in AllProcs, Bump(p) PROVE SettleInv'
<1>. DEFINE q == proc[p]
            r == [q EXCEPT !.pc = "range"]
<1>1. UNCHANGED <<chain, snap, made, work, tx>> /\ proc' = [proc EXCEPT ![p] = r]
  BY DEF Bump
<1>2. /\ p \in Numberers /\ p \notin Runners /\ q.b \in Branches /\ q.e = Epoch(q.b) /\ q \in ProcRecs /\ proc \in [AllProcs -> ProcRecs]
      /\ RoundInv(p)
  BY BumpIs, Facts, ProjectionAssumption DEF SettleInv, RoundsInv
<1>3. r.conf = q.conf /\ r.reclaim = q.reclaim /\ r.pc # "holders"
  BY <1>2 DEF ProcRecs
<1>. HIDE DEF r
<1>4. \A a \in AllProcs : proc'[a] = proc[a]
        \/ (a \notin Runners /\ (Apart => proc'[a].conf = {} /\ ~proc'[a].reclaim /\ proc'[a].pc # "holders"))
  BY <1>1, <1>2, <1>3 DEF RoundInv, Late
<1>5. ASSUME NEW d \in AllDocs
      PROVE  /\ doc'[d].branch = doc[d].branch /\ doc'[d].there = doc[d].there
             /\ doc'[d] = doc[d] \/ (doc[d].branch = q.b /\ doc[d].epoch # Epoch(q.b))
  <2>1. doc[d] \in DocRecs
    BY Facts
  <2>2. \/ doc'[d] = doc[d]
        \/ doc[d].branch = q.b /\ doc[d].epoch # q.e /\ doc'[d] = [doc[d] EXCEPT !.epoch = q.e]
    BY BumpIs
  <2>. QED
    BY <1>2, <2>1, <2>2 DEF DocRecs
<1>6. LabelInv'
  BY <1>5 DEF SettleInv, LabelInv
<1>7. ASSUME NEW x \in Branches, NEW d \in AllDocs, NEW n \in Nat, Right(x, n, d) PROVE Right(x, n, d)'
  <2>1. CASE doc'[d] = doc[d]
    BY <1>1, <1>7, <2>1 DEF Right, Epoch
  <2>2. CASE doc[d].branch = q.b /\ doc[d].epoch # Epoch(q.b)
    <3>1. d \in Shas /\ doc[d].branch \notin {x, None}
      BY <1>7, <2>2 DEF Right, Doc
    <3>. QED
      BY <1>5, <3>1 DEF Right
  <2>. QED
    BY <1>5, <2>1, <2>2
<1>8. Writes
  BY <1>5, <1>6, <1>7 DEF Writes
<1>9. TxInv'
  BY <1>1, SameTx DEF SettleInv
<1>. QED
  BY <1>1, <1>4, <1>8, <1>9, AsideStep

(* The write of a numbering worker or of a runner in the epoch it serves, or *)
(* of the one runner that lags behind.                                       *)
LEMMA BulkWrites == ASSUME Apart \/ Alone, BasicInv, SettleInv, NEW p \in AllProcs, Bulk(p) PROVE Writes
<1>. DEFINE q == proc[p]
<1>1. UNCHANGED <<chain, snap, made, work, tx>> /\ q.pc = "bulk"
  BY DEF Bulk
<1>2. /\ q \in ProcRecs /\ ProcOK(p, q) /\ RoundInv(p) /\ q.b \in Branches /\ q.b # None /\ q.e > 0 /\ q.e \in Nat /\ q.wr \in SUBSET Items
      /\ q.reclaim \in BOOLEAN /\ q.e \in 1 .. Epoch(q.b) /\ Epoch(q.b) \in Nat
  <2>1. q \in ProcRecs /\ ProcOK(p, q) /\ RoundInv(p)
    BY Facts DEF SettleInv, RoundsInv
  <2>2. q.b \in Branches /\ q.e > 0 /\ q.e <= Epoch(q.b)
    BY <1>1, <2>1 DEF ProcOK, Placed, Between
  <2>. QED
    BY <2>1, <2>2, Fields, ChainOK, Facts, NoneOut
<1>3. ASSUME NEW d \in AllDocs, doc'[d] # doc[d]
      PROVE  \E i \in q.wr : i.d = d /\ doc'[d] = Doc(q.b, q.e, i.n) /\ doc[d].there /\ doc[d].epoch \in Nat /\ doc[d].branch \in Branches \cup {None}
               /\ (doc[d].branch # q.b => d \in Shas /\ (doc[d].branch = None \/ q.reclaim))
               /\ (doc[d].branch = q.b => doc[d].epoch <= q.e)
  <2>1. PICK i \in q.wr : Classify(i, q.b, q.e, q.reclaim) = "write" /\ i.d = d /\ doc'[d] = Doc(q.b, q.e, i.n)
    BY <1>3, BulkDocs
  <2>2. doc[d] \in DocRecs /\ i \in Items /\ doc[d].epoch \in Nat /\ doc[d].branch \in Branches \cup {None}
    BY <1>2, Facts DEF DocRecs
  <2>3. /\ doc[i.d].there
        /\ doc[i.d].branch # q.b => i.d \notin Pulls /\ (doc[i.d].branch = None \/ q.reclaim)
        /\ doc[i.d].branch = q.b => doc[i.d].epoch <= q.e
    BY <1>2, <2>1, <2>2, ClassifyIs
  <2>. QED
    BY <2>1, <2>2, <2>3 DEF AllDocs
<1>0. ASSUME NEW d \in AllDocs, doc'[d] # doc[d] PROVE doc[d].there /\ doc'[d].there /\ doc'[d].branch = q.b
  <2>1. PICK i \in q.wr : doc'[d] = Doc(q.b, q.e, i.n) /\ doc[d].there
    BY <1>0, <1>3
  <2>. QED
    BY <2>1 DEF Doc
<1>4. LabelInv'
  <2>1. ASSUME NEW d \in AllDocs
        PROVE  /\ doc'[d].there => doc[d].there
               /\ doc'[d].there /\ doc'[d].branch = None => doc[d].branch = None
    BY <1>0, <1>2
  <2>. QED
    BY <2>1 DEF SettleInv, LabelInv
<1>5. \A d \in AllDocs : doc[d].there => doc'[d].there
  BY <1>0
<1>6. ASSUME NEW b \in Branches, NEW d \in AllDocs, NEW n \in Nat, Answers(b, n, d), Right(b, n, d), ~Behind(b) PROVE Right(b, n, d)'
  <2>1. CASE doc'[d] = doc[d]
    BY <1>1, <1>6, <2>1 DEF Right, Epoch
  <2>2. CASE doc'[d] # doc[d]
    <3>1. PICK i \in q.wr : /\ i.d = d /\ doc'[d] = Doc(q.b, q.e, i.n) /\ doc[d].there /\ doc[d].epoch \in Nat /\ doc[d].branch \in Branches \cup {None}
               /\ (doc[d].branch # q.b => d \in Shas /\ (doc[d].branch = None \/ q.reclaim))
               /\ (doc[d].branch = q.b => doc[d].epoch <= q.e)
      BY <1>3, <2>2
    <3>2. CASE q.b # b
      <4>1. d \in Shas
        <5>1. CASE doc[d].branch = q.b
          BY <1>2, <1>6, <3>2, <5>1 DEF Right, Doc
        <5>. QED
          BY <3>1, <5>1
      <4>. QED
        BY <1>2, <3>1, <3>2, <4>1 DEF Right, Doc
    <3>3. CASE q.b = b /\ q.e = Epoch(b)
      <4>1. i.n = n
        BY <1>1, <1>2, <1>6, <3>1, <3>3, ItemPosition
      <4>. QED
        BY <1>1, <3>1, <3>3, <4>1 DEF Right, Epoch
    <3>4. q.b = b => q.e = Epoch(b)
      <4>. SUFFICES ASSUME q.b = b, q.e < Epoch(b) PROVE FALSE
        BY <1>2
      <4>1. doc[d] # Doc(b, Epoch(b), n)
        BY <3>1, <1>2 DEF Doc
      <4>2. d \in Shas /\ doc[d].branch \notin {b, None}
        BY <1>6, <4>1 DEF Right
      <4>3. q.reclaim
        BY <3>1, <4>2
      <4>4. Alone
        BY <1>2, <4>3 DEF RoundInv, Late
      <4>5. p \in Runners
        <5>1. p \notin Numberers
          BY <1>1, <1>2 DEF ProcOK
        <5>. QED
          BY <4>4, <5>1 DEF Alone, AllProcs
      <4>. QED
        BY <1>1, <1>6, <4>4, <4>5 DEF Behind
    <3>. QED
      BY <3>2, <3>3, <3>4
  <2>. QED
    BY <2>1, <2>2
<1>. QED
  BY <1>4, <1>5, <1>6 DEF Writes

LEMMA BulkSettle == ASSUME Apart \/ Alone, BasicInv, SettleInv, NEW p \in AllProcs, Bulk(p) PROVE SettleInv'
<1>. DEFINE q == proc[p]
<1>1. UNCHANGED <<chain, snap, made, work, tx>> /\ q.pc = "bulk" /\ Writes
  BY BulkWrites DEF Bulk
<1>2. q \in ProcRecs /\ ProcOK(p, q) /\ RoundInv(p) /\ q.items = {} /\ proc \in [AllProcs -> ProcRecs] /\ q.b \in Branches
  BY <1>1, Facts DEF SettleInv, RoundsInv, ProcOK, Between, Placed
<1>3. PICK r \in ProcRecs :
           /\ proc' = [proc EXCEPT ![p] = NextCall(p, r)]
           /\ r.key = proc[p].key /\ r.b = proc[p].b /\ r.e = proc[p].e /\ r.cursor = proc[p].cursor /\ r.last = proc[p].last
           /\ r.used = proc[p].used /\ r.kinds = proc[p].kinds /\ r.reclaim = proc[p].reclaim
           /\ r.items = proc[p].items /\ r.wr = {} /\ r.conf = proc[p].conf /\ r.stale = proc[p].stale
           /\ proc[p].pend \subseteq r.pend /\ r.pend \subseteq proc[p].pend \cup {i.d : i \in proc[p].wr}
           /\ \A i \in proc[p].wr : i.d \in r.pend
                \/ \E j \in proc[p].wr : j.d = i.d /\ doc'[i.d] = Doc(proc[p].b, proc[p].e, j.n)
  BY BulkIs
<1>4. TxInv'
  BY <1>1, SameTx DEF SettleInv
<1>5. Apart => r.conf = {} /\ ~r.reclaim
  BY <1>2, <1>3 DEF RoundInv, Late
<1>6. CASE p \notin Runners
  <2>1. Apart => NextCall(p, r).conf = {} /\ ~NextCall(p, r).reclaim /\ NextCall(p, r).pc # "holders"
    BY <1>5, NextLate
  <2>2. \A a \in AllProcs : proc'[a] = proc[a]
          \/ (a \notin Runners /\ (Apart => proc'[a].conf = {} /\ ~proc'[a].reclaim /\ proc'[a].pc # "holders"))
    BY <1>2, <1>3, <1>6, <2>1
  <2>. QED
    BY <1>1, <1>4, <2>2, AsideStep
<1>7. CASE p \in Runners
  <2>1. \A d \in Has(r) : Home(r.b, d) /\ Known(r.b, d)
    <3>1. Has(r) \subseteq Has(q)
      BY <1>3 DEF Has
    <3>. QED
      BY <1>2, <1>3, <1>7, <3>1 DEF RoundInv, HandInv
  <2>2. ASSUME NEW d \in AllDocs, NEW n \in Nat, r.e = Epoch(r.b), Answers(r.b, n, d), Carries(q, d) PROVE Right(r.b, n, d)' \/ Loaded(r, d)
    <3>1. CASE d \in q.pend
      BY <1>3, <3>1 DEF Loaded
    <3>2. CASE \E i \in q.wr : i.d = d
      <4>1. CASE d \in r.pend
        BY <4>1 DEF Loaded
      <4>2. CASE \E j \in q.wr : j.d = d /\ doc'[d] = Doc(q.b, q.e, j.n)
        <5>1. PICK j \in q.wr : j.d = d /\ doc'[d] = Doc(q.b, q.e, j.n)
          BY <4>2
        <5>2. q.e = Epoch(q.b) /\ Answers(q.b, n, j.d)
          BY <1>3, <2>2, <5>1
        <5>3. j.n = n
          BY <1>1, <1>2, <5>2, ItemPosition
        <5>. QED
          BY <1>1, <1>3, <2>2, <5>1, <5>3 DEF Right, Epoch
      <4>. QED
        BY <1>3, <3>2, <4>1, <4>2
    <3>. QED
      BY <1>1, <1>2, <2>2, <3>1, <3>2 DEF Carries, Loaded
  <2>3. ASSUME NEW d \in AllDocs, NEW n \in Nat, r.e = Epoch(r.b), Sweeping(p), Answers(r.b, n, d), n > r.cursor, n <= r.last
        PROVE  Served(r.b, n, d) \/ Right(r.b, n, d)' \/ Loaded(r, d)
    <3>1. Served(r.b, n, d) \/ Carries(q, d)
      <4>1. Answers(q.b, n, d) /\ n > q.cursor /\ n <= q.last /\ q.e = Epoch(q.b)
        BY <1>3, <2>3
      <4>2. Served(q.b, n, d) \/ Carries(q, d)
        BY <1>1, <1>2, <2>3, <4>1 DEF RoundInv, Handled, Paging
      <4>. QED
        BY <1>3, <4>2
    <3>. QED
      BY <2>2, <2>3, <3>1
  <2>4. Sweeping(p) => r.last <= Len(chain[r.b][r.e])
    BY <1>2, <1>3 DEF RoundInv, SweepInv
  <2>5. \A n \in Nat : r.e = Epoch(r.b) /\ r.key[3] \in AllDocs /\ Answers(r.b, n, r.key[3]) /\ Carries(proc[p], r.key[3]) =>
           Right(r.b, n, r.key[3])' \/ Loaded(r, r.key[3])
    BY <2>2
  <2>. QED
    BY <1>1, <1>3, <1>5, <1>7, <2>1, <2>3, <2>4, <2>5, LoadWrites
<1>. QED
  BY <1>6, <1>7

(* The cursor moves: what it passes is written or has work of its own. *)
LEMMA SavePageSettle == ASSUME BasicInv, SettleInv, NEW p \in AllProcs, SavePage(p) PROVE SettleInv'
<1>. DEFINE q == proc[p]
<1>1. Still /\ q.pc = "save"
  BY DEF SavePage, Still
<1>2. /\ p \in Runners /\ p # None /\ q \in ProcRecs /\ ProcOK(p, q) /\ RoundInv(p) /\ q.last \in Nat /\ q.cursor \in Nat /\ Sweeping(p)
      /\ proc \in [AllProcs -> ProcRecs] /\ work \in [AllKeys -> WorkRecs]
  <2>1. p \in Runners /\ q \in ProcRecs /\ ProcOK(p, q) /\ RoundInv(p)
    BY SavePageIs, Facts DEF SettleInv, RoundsInv
  <2>2. Sweeping(p)
    BY <1>1, <2>1 DEF Sweeping, ProcOK, Between
  <2>. QED
    BY <2>1, <2>2, Facts, Fields, NoneOut
<1>3. PICK k \in AllKeys : k = q.key
  BY SavePageIs
<1>4. /\ work[k] \in WorkRecs /\ k = <<q.b, q.e, k[3]>> /\ k[1] = q.b /\ k[2] = q.e /\ q.b \in Branches /\ q.e \in 1 .. Epoch(q.b) /\ Epoch(q.b) \in Nat
      /\ k[3] \in {"tail", "full"} /\ k[3] \notin AllDocs
  BY <1>1, <1>2, <1>3, RunnerKey, NoClash DEF Sweeping
<1>5. PICK r \in ProcRecs :
              /\ proc' = [proc EXCEPT ![p] = r] /\ r.pc \in {"exhausted", "page"}
              /\ r.key = proc[p].key /\ r.b = proc[p].b /\ r.e = proc[p].e /\ r.cursor = proc[p].last /\ r.last = proc[p].last
              /\ r.kinds = proc[p].kinds /\ r.reclaim = proc[p].reclaim /\ r.conf = proc[p].conf
              /\ r.items = proc[p].items /\ r.wr = proc[p].wr /\ r.pend = proc[p].pend /\ r.stale = proc[p].stale
  BY SavePageIs
<1>6. PICK v : v = Saved(work[k], p, q.last, FALSE)
  OBVIOUS
<1>7. work' = [work EXCEPT ![k] = v]
  BY <1>3, <1>6, SavePageIs
<1>8. /\ work[k].owner # p => v = work[k]
      /\ work[k].owner = p => v.cursor = q.last /\ v.fresh = work[k].again
      /\ v.owner = work[k].owner /\ v.state = work[k].state /\ v.again = work[k].again /\ v.kinds = work[k].kinds
  <2>1. FALSE \in BOOLEAN /\ proc[p] \in ProcRecs
    BY <1>2
  <2>. QED
    BY ZenonT(60), <1>2, <1>4, <1>6, <2>1, SavedOK
<1>9. /\ work'[k] = v /\ proc'[p] = r
      /\ \A j \in AllKeys : j # k => work'[j] = work[j]
      /\ \A a \in AllProcs : a # p => proc'[a] = proc[a]
  BY <1>2, <1>5, <1>7
<1>10. /\ q.cursor <= Len(chain[q.b][q.e]) /\ q.last <= Len(chain[q.b][q.e])
       /\ work[k].owner = p => (k[3] = "full" /\ work[k].again) \/ Base(k) = q.cursor
  BY <1>2, <1>3 DEF RoundInv, SweepInv
<1>11. ASSUME NEW j \in AllKeys
       PROVE  /\ RowInv(j) /\ work'[j].state = work[j].state /\ work'[j].owner = work[j].owner /\ work'[j].again = work[j].again
              /\ work'[j].kinds = work[j].kinds /\ (j[3] \in AllDocs => work'[j] = work[j])
              /\ work[j].owner # p => work'[j] = work[j]
              /\ work[j].owner = p => j = k
              /\ work[j].owner # None => proc'[work[j].owner].pc # "idle" /\ proc'[work[j].owner].key = j
              /\ work[j].owner \in Runners \cup {None}
  <2>1. RowInv(j) /\ work[j].owner \in Runners \cup {None}
    BY Facts, RowTypes DEF SettleInv, RowsInv
  <2>2. work[j].owner = p => j = k
    BY <1>2, <1>3, <2>1 DEF RowInv
  <2>3. work'[j].state = work[j].state /\ work'[j].owner = work[j].owner /\ work'[j].again = work[j].again
        /\ work'[j].kinds = work[j].kinds /\ (j[3] \in AllDocs => work'[j] = work[j]) /\ (work[j].owner # p => work'[j] = work[j])
    BY <1>4, <1>8, <1>9
  <2>4. work[j].owner # None => proc'[work[j].owner].pc # "idle" /\ proc'[work[j].owner].key = j
    <3>1. CASE work[j].owner = p
      BY <1>3, <1>5, <1>9, <2>2, <3>1
    <3>2. CASE work[j].owner # p
      BY <1>9, <2>1, <3>2 DEF RowInv, AllProcs
    <3>. QED
      BY <3>1, <3>2
  <2>. QED
    BY <2>1, <2>2, <2>3, <2>4
<1>12. RowsInv'
  <2>1. ASSUME NEW j \in AllKeys PROVE RowInv(j)'
    <3>1. CASE work[j].owner # p
      BY <1>1, <1>11, <3>1, RowStays DEF Still
    <3>2. CASE work[j].owner = p
      <4>1. j = k /\ work[k].state # "none" /\ work'[k].cursor = q.last
        BY <1>2, <1>8, <1>9, <1>11, <3>2, LeaseOf
      <4>2. k[3] \notin AllDocs /\ q.last <= Len(chain[k[1]][k[2]])
        BY <1>4, <1>10
      <4>3. work[k].state # "obsolete"
        BY <1>2, <3>2, <4>1, LeaseOf
      <4>. QED
        BY <1>1, <1>11, <3>2, <4>1, <4>2, <4>3 DEF RowInv, Epoch, Still
    <3>. QED
      BY <3>1, <3>2
  <2>. QED
    BY <2>1 DEF RowsInv
<1>13. Keeps
  <2>1. ASSUME NEW b \in Branches, NEW d \in AllDocs, NEW n \in Nat, Answers(b, n, d), DocOwes(b, d) PROVE DocOwes(b, d)'
    <3>1. PICK j \in AllKeys : j = <<b, Epoch(b), d>>
      BY <2>1, RowKey DEF Answers
    <3>2. work[j].owner # p
      BY <1>4, <1>11, <3>1
    <3>3. work[j].state = "leased" => work[j].owner \in AllProcs
      BY <1>11, LeaseOf DEF AllProcs
    <3>4. work[j].state = "leased" => proc'[work[j].owner] = proc[work[j].owner]
      BY <1>9, <3>2, <3>3
    <3>. QED
      BY <1>1, <1>11, <2>1, <3>1, <3>2, <3>4, OwesIs, OwesIf DEF Still
  <2>2. ASSUME NEW b \in Branches, NEW d \in AllDocs, Epoch(b) > 0, Row(b, d).state = "none" PROVE Row(b, d)'.state = "none"
    <3>1. PICK j \in AllKeys : j = <<b, Epoch(b), d>>
      BY <2>2, RowKey
    <3>. QED
      BY <1>1, <1>11, <2>2, <3>1 DEF Row, Epoch, Still
  <2>. QED
    BY <1>1, <2>1, <2>2, RightSame, KeepsStep DEF Still, Served
<1>14. Accounted'
  <2>. SUFFICES ASSUME NEW b \in Branches, NEW d \in AllDocs, NEW n \in Nat, Answers(b, n, d)', ~Served(b, n, d)'
                PROVE  SweepOwes(b, n)'
    BY DEF Accounted
  <2>1. n \in 1 .. Len(chain[b][Epoch(b)]) /\ Epoch(b) > 0 /\ n > 0
    BY <1>1 DEF Answers, Epoch, Still
  <2>2. (Answers(b, n, d) /\ ~Served(b, n, d)) \/ Behind(b)
    BY <1>13 DEF Keeps
  <2>3. SweepOwes(b, n)
    BY <2>1, <2>2, BehindOwes DEF SettleInv, Accounted
  <2>4. PICK x \in {"tail", "full"} : Row(b, x).state \in {"due", "leased"} /\ Base(<<b, Epoch(b), x>>) < n
    BY <2>3 DEF SweepOwes
  <2>5. PICK j \in AllKeys : j = <<b, Epoch(b), x>>
    BY <2>1, RowKey
  <2>6. work[j].state \in {"due", "leased"} /\ Base(j) < n /\ j[1] = b /\ j[2] = Epoch(b) /\ j[3] = x /\ Base(j) \in Nat
    BY <2>4, <2>5, BaseNat DEF Row
  <2>7. work'[j].state \in {"due", "leased"} /\ Base(j)' < n
    <3>1. CASE work[j].owner # p
      BY <1>11, <2>6, <3>1 DEF Base
    <3>2. CASE work[j].owner = p
      <4>1. j = k /\ k[1] = b /\ k[2] = Epoch(b) /\ q.b = b /\ q.e = Epoch(b)
        BY <1>4, <1>11, <2>6, <3>2
      <4>2. CASE k[3] = "full" /\ work[k].again
        <5>1. Base(k)' = 0
          BY <1>8, <1>9, <3>2, <4>1, <4>2 DEF Base
        <5>. QED
          BY <1>11, <2>1, <2>6, <4>1, <5>1
      <4>3. CASE ~(k[3] = "full" /\ work[k].again)
        <5>1. Base(k)' = q.last
          BY <1>8, <1>9, <3>2, <4>1, <4>3 DEF Base
        <5>2. Base(k) = q.cursor
          BY <1>10, <3>2, <4>1, <4>3
        <5>3. ~Behind(b)
          BY <1>2, <4>1, NotBehind
        <5>4. Answers(q.b, n, d) /\ ~Served(q.b, n, d)
          BY <2>2, <4>1, <5>3
        <5>5. ~(n <= q.last)
          BY <1>1, <1>2, <2>6, <4>1, <5>2, <5>4 DEF RoundInv, Handled, Paging
        <5>6. q.last < n
          BY <1>2, <5>5
        <5>. QED
          BY <1>11, <2>6, <4>1, <5>1, <5>6
      <4>. QED
        BY <4>2, <4>3
    <3>. QED
      BY <3>1, <3>2
  <2>. QED
    BY <1>1, <2>5, <2>7 DEF SweepOwes, Row, Epoch, Still
<1>15. ASSUME NEW a \in AllProcs PROVE RoundInv(a)'
  <2>1. CASE a # p
    <3>1. \A j \in AllKeys : a \in Runners /\ work'[j].owner = a => work'[j] = work[j]
      BY <1>11, <2>1
    <3>2. Alone => a \notin Runners
      BY <1>2, <2>1 DEF Alone
    <3>3. RoundInv(a)
      BY DEF SettleInv, RoundsInv
    <3>. QED
      BY <1>1, <1>9, <1>13, <2>1, <3>1, <3>2, <3>3, RoundStays DEF Still
  <2>2. CASE a = p
    <3>1. SweepInv(p)'
      <4>1. Base(k)' = r.cursor \/ (k[3] = "full" /\ work'[k].again) \/ work'[k].owner # p
        BY <1>5, <1>8, <1>9 DEF Base
      <4>2. r.kinds = Kinds /\ r.cursor <= Len(chain'[r.b][r.e]) /\ r.last <= Len(chain'[r.b][r.e]) /\ r.pc # "obsolete" /\ r.key = k
        BY <1>1, <1>2, <1>3, <1>5, <1>10 DEF RoundInv, SweepInv, Still
      <4>. QED
        BY <1>9, <4>1, <4>2 DEF SweepInv
    <3>2. HandInv(p)'
      <4>1. \A d : Known(r.b, d) => Known(r.b, d)'
        BY <1>1, KnownStays DEF Still
      <4>2. \A d \in Has(r) : Home(r.b, d) /\ Known(r.b, d)'
        BY <1>2, <1>5, <4>1 DEF RoundInv, HandInv, Has
      <4>. QED
        BY <1>9, <4>2 DEF HandInv, Has, Home
    <3>3. Handled(p)'
      BY <1>5, <1>9 DEF Handled, Paging
    <3>4. Late(p)'
      <4>1. Alone /\ r.e < Epoch(r.b) => Row(r.b, "full").state = "due" /\ Row(r.b, "full").fresh
        BY <1>1, <1>2, <1>5 DEF RoundInv, Late
      <4>2. Alone /\ r.e < Epoch(r.b) => Row(r.b, "full")' = Row(r.b, "full")
        <5>. SUFFICES ASSUME r.e < Epoch(r.b) PROVE Row(r.b, "full")' = Row(r.b, "full")
          OBVIOUS
        <5>1. r.b \in Branches /\ Epoch(r.b) > 0 /\ r.e = k[2]
          BY <1>4, <1>5
        <5>2. PICK j \in AllKeys : j = <<r.b, Epoch(r.b), "full">>
          BY <5>1, RowKey
        <5>3. j # k
          BY <1>4, <1>5, <5>1, <5>2
        <5>. QED
          BY <1>1, <1>9, <5>2, <5>3 DEF Row, Epoch, Still
      <4>3. r.conf = proc[p].conf /\ r.reclaim = proc[p].reclaim /\ r.pc # "holders"
        BY <1>5
      <4>. QED
        BY <1>1, <1>2, <1>9, <4>1, <4>2, <4>3 DEF RoundInv, Late, Row, Epoch, Still
    <3>. QED
      BY <2>2, <3>1, <3>2, <3>3, <3>4 DEF RoundInv
  <2>. QED
    BY <2>1, <2>2
<1>16. LabelInv' /\ TxInv' /\ EarlyInv'
  BY <1>1, SameLabels, SameTx DEF SettleInv, EarlyInv, Still
<1>. QED
  BY <1>12, <1>14, <1>15, <1>16 DEF SettleInv, RoundsInv

(* The numbering worker commits: the chain of b grows or a new epoch begins, *)
(* and the work for it is requested in the same transaction.                *)
Growth(p, b, r, x, K) ==
  /\ ChainGrows /\ \A a \in Branches : a # b => chain'[a] = chain[a]
  /\ Epoch(b)' > 0 /\ K = <<b, Epoch(b)', x>>
  /\ Epoch(b) = 0 \/ (x = "tail" /\ Epoch(b)' = Epoch(b)) \/ (x = "full" /\ Epoch(b)' > Epoch(b))
  /\ work' = RequestAll(work, {K}, Kinds) /\ UNCHANGED <<snap, made, doc, tx>>
  /\ proc' = [proc EXCEPT ![p] = r] /\ r.conf = {} /\ ~r.reclaim /\ r.pc # "holders"

LEMMA GrowthEpochs ==
  ASSUME BasicInv, BasicInv', ChainGrows, NEW a \in Branches
  PROVE  /\ Epoch(a) \in Nat /\ Epoch(a)' \in Nat /\ Epoch(a) <= Epoch(a)'
         /\ \A e \in 1 .. Epoch(a) : /\ Len(chain[a][e]) \in Nat /\ Len(chain'[a][e]) \in Nat /\ Len(chain[a][e]) <= Len(chain'[a][e])
                                     /\ \A n \in 1 .. Len(chain[a][e]) : chain'[a][e][n] = chain[a][e][n]
<1>1. Epoch(a) \in Nat /\ Epoch(a) <= Epoch(a)' /\ ChainsOK /\ ChainsOK'
  BY ChainOK, Facts DEF ChainGrows, BasicInv
<1>2. chain' \in [Branches -> Seq(Seq(Shas))]
  BY <1>1 DEF ChainsOK
<1>3. Epoch(a)' \in Nat
  BY <1>2 DEF Epoch
<1>4. ASSUME NEW e \in 1 .. Epoch(a)
      PROVE  Len(chain[a][e]) \in Nat /\ Len(chain'[a][e]) \in Nat
  <2>1. chain'[a] \in Seq(Seq(Shas)) /\ e \in 1 .. Len(chain'[a])
    BY <1>1, <1>2, <1>3 DEF Epoch
  <2>2. chain'[a][e] \in Seq(Shas)
    BY <2>1
  <2>. QED
    BY <1>1, <2>2, ChainOK
<1>. QED
  BY <1>1, <1>3, <1>4 DEF ChainGrows

(* What it does to the rows of work. *)
GrownWork(b, x, K) ==
  /\ K \in AllKeys /\ K[1] = b /\ K[2] = Epoch(b)' /\ K[3] = x
  /\ \A k \in AllKeys : k # K => work'[k] = work[k]
  /\ work'[K] = RequestedWith(work[K], Kinds) /\ work[K] \in WorkRecs
  /\ work'[K].state = (IF work[K].state = "leased" THEN "leased" ELSE "due") /\ (work[K].state = "leased" <=> work'[K].again)
  /\ work'[K].owner = work[K].owner /\ work'[K].fresh /\ work'[K].kinds = Kinds /\ work'[K].cursor = work[K].cursor
  /\ \A k \in AllKeys : /\ work'[k].owner = work[k].owner
                        /\ work[k].owner # None => proc'[work[k].owner] = proc[work[k].owner]
  /\ Epoch(b) < Epoch(b)' => work[K] = NoWork
  /\ Epoch(b) = Epoch(b)' => work[K].cursor <= Len(chain[b][Epoch(b)])

LEMMA GrowthRows ==
  ASSUME BasicInv, BasicInv', SettleInv, NEW p \in Numberers, NEW b \in Branches, NEW r, NEW x \in {"tail", "full"}, NEW K, Growth(p, b, r, x, K)
  PROVE  GrownWork(b, x, K)
<1>1. /\ K = <<b, Epoch(b)', x>> /\ Epoch(b)' > 0 /\ Epoch(b)' \in Nat /\ Epoch(b)' <= MaxEpoch /\ Epoch(b) \in Nat /\ MaxEpoch \in Nat
      /\ work' = RequestAll(work, {K}, Kinds) /\ proc' = [proc EXCEPT ![p] = r] /\ ChainGrows /\ Epoch(b) <= Epoch(b)'
  BY GrowthEpochs, NoneOut DEF Growth, BasicInv, ChainsOK
<1>2. K \in AllKeys /\ K[1] = b /\ K[2] = Epoch(b)' /\ K[3] = x
  BY <1>1 DEF AllKeys
<1>3. /\ work \in [AllKeys -> WorkRecs] /\ proc \in [AllProcs -> ProcRecs] /\ RowInv(K)
      /\ \A k \in AllKeys : work'[k] = IF k \in {K} THEN RequestedWith(work[k], Kinds) ELSE work[k]
  BY <1>1, <1>2, RequestAllOK, Facts DEF SettleInv, RowsInv
<1>4. work'[K] = RequestedWith(work[K], Kinds) /\ work[K] \in WorkRecs /\ \A k \in AllKeys : k # K => work'[k] = work[k]
  BY <1>2, <1>3
<1>5. /\ work'[K].state = (IF work[K].state = "leased" THEN "leased" ELSE "due") /\ (work[K].state = "leased" <=> work'[K].again)
      /\ work'[K].owner = work[K].owner /\ work'[K].fresh /\ work'[K].kinds = Kinds /\ work'[K].cursor = work[K].cursor
  BY <1>4, AskedIs
<1>6. \A k \in AllKeys : work'[k].owner = work[k].owner /\ work[k].owner \in Runners \cup {None}
  BY <1>3, <1>4, <1>5, RowTypes
<1>7. \A k \in AllKeys : work[k].owner # None => proc'[work[k].owner] = proc[work[k].owner]
  BY <1>1, <1>3, <1>6, ProjectionAssumption DEF AllProcs
<1>8. Epoch(b) < Epoch(b)' => work[K] = NoWork
  BY <1>1, <1>2, <1>3 DEF RowInv
<1>9. Epoch(b) = Epoch(b)' => work[K].cursor <= Len(chain[b][Epoch(b)])
  <2>. SUFFICES ASSUME Epoch(b) = Epoch(b)' PROVE work[K].cursor <= Len(chain[b][Epoch(b)])
    OBVIOUS
  <2>1. Len(chain[b][Epoch(b)]) \in Nat
    BY <1>1, ChainOK, Facts
  <2>. QED
    BY <1>2, <1>3, <2>1 DEF RowInv, NoWork
<1>. QED
  BY <1>2, <1>4, <1>5, <1>6, <1>7, <1>8, <1>9 DEF GrownWork

LEMMA GrowthRowsInv ==
  ASSUME BasicInv, BasicInv', SettleInv, NEW p \in Numberers, NEW b \in Branches, NEW r, NEW x \in {"tail", "full"}, NEW K, Growth(p, b, r, x, K)
  PROVE  RowsInv'
<1>. SUFFICES ASSUME NEW k \in AllKeys PROVE RowInv(k)'
  BY DEF RowsInv
<1>g. GrownWork(b, x, K)
  BY GrowthRows
<1>0. PICK c \in Branches, e \in 1 .. MaxEpoch, y \in {"tail", "full"} \cup AllDocs : k[1] = c /\ k[2] = e /\ k[3] = y
  BY KeyParts
<1>1. RowInv(k) /\ UNCHANGED <<snap, made>> /\ ChainGrows
  BY DEF SettleInv, RowsInv, Growth
<1>2. /\ Epoch(c) \in Nat /\ Epoch(c)' \in Nat /\ Epoch(c) <= Epoch(c)' /\ e \in Nat
      /\ e <= Epoch(c) => Len(chain[c][e]) \in Nat /\ Len(chain'[c][e]) \in Nat /\ Len(chain[c][e]) <= Len(chain'[c][e])
  <2>1. /\ Epoch(c) \in Nat /\ Epoch(c)' \in Nat /\ Epoch(c) <= Epoch(c)'
        /\ \A z \in 1 .. Epoch(c) : Len(chain[c][z]) \in Nat /\ Len(chain'[c][z]) \in Nat /\ Len(chain[c][z]) <= Len(chain'[c][z])
    BY <1>1, GrowthEpochs
  <2>2. e \in Nat /\ e >= 1
    BY NoneOut
  <2>. QED
    BY <2>1, <2>2
<1>3. work'[k].owner = work[k].owner /\ (work[k].owner # None => proc'[work[k].owner] = proc[work[k].owner]) /\ work[k] \in WorkRecs
  BY <1>g, Facts DEF GrownWork
<1>4. Known(c, y)' <=> Known(c, y)
  BY <1>1 DEF Known, PrsOf
<1>5. CASE k # K
  <2>1. work'[k] = work[k]
    BY <1>5, <1>g DEF GrownWork
  <2>2. work[k].state # "none" /\ y \in {"tail", "full"} => work[k].cursor \in Nat /\ work[k].cursor <= Len(chain'[c][e])
    BY <1>0, <1>1, <1>2, <1>3, RowTypes DEF RowInv
  <2>3. work[k].state # "none" => e <= Epoch(c)'
    BY <1>0, <1>1, <1>2 DEF RowInv
  <2>4. work[k].state = "obsolete" => e < Epoch(c)'
    BY <1>0, <1>1, <1>2 DEF RowInv
  <2>. QED
    BY <1>0, <1>1, <1>3, <1>4, <2>1, <2>2, <2>3, <2>4 DEF RowInv, Home
<1>6. CASE k = K
  <2>1. /\ e = Epoch(c)' /\ y \in {"tail", "full"} /\ c = b /\ work'[k].kinds = Kinds /\ work'[k].cursor = work[k].cursor
        /\ work'[k].state = (IF work[k].state = "leased" THEN "leased" ELSE "due")
    BY <1>0, <1>6, <1>g DEF GrownWork
  <2>2. work'[k].cursor <= Len(chain'[c][e])
    <3>1. CASE Epoch(c) < Epoch(c)'
      <4>1. work'[k].cursor = 0
        BY <1>6, <2>1, <3>1, <1>g DEF GrownWork, NoWork
      <4>2. chain' \in [Branches -> Seq(Seq(Shas))] /\ e \in 1 .. Len(chain'[c])
        BY <1>2, <2>1 DEF BasicInv, ChainsOK, Epoch
      <4>3. chain'[c] \in Seq(Seq(Shas))
        BY <4>2
      <4>4. chain'[c][e] \in Seq(Shas)
        BY <4>2, <4>3
      <4>. QED
        BY <4>1, <4>4
    <3>2. CASE Epoch(c) = Epoch(c)'
      <4>1. work[k].cursor <= Len(chain[c][Epoch(c)]) /\ work[k].cursor \in Nat
        BY <1>3, <1>6, <2>1, <3>2, <1>g, RowTypes DEF GrownWork
      <4>. QED
        BY <1>2, <2>1, <3>2, <4>1
    <3>. QED
      BY <1>2, <3>1, <3>2
  <2>3. y \notin AllDocs
    BY <2>1, NoClash
  <2>. QED
    BY <1>0, <1>1, <1>2, <1>3, <2>1, <2>2, <2>3 DEF RowInv
<1>. QED
  BY <1>5, <1>6

LEMMA GrowthServed ==
  ASSUME BasicInv, BasicInv', SettleInv, NEW p \in Numberers, NEW b \in Branches, NEW r, NEW x \in {"tail", "full"}, NEW K, Growth(p, b, r, x, K),
         NEW a \in Branches, Epoch(a)' = Epoch(a), NEW d \in AllDocs, NEW n \in Nat, Answers(a, n, d)', n <= Len(chain[a][Epoch(a)])
  PROVE  Answers(a, n, d) /\ (Served(a, n, d) => Served(a, n, d)')
<1>g. GrownWork(b, x, K)
  BY GrowthRows
<1>1. PICK e \in Nat : e = Epoch(a) /\ e = Epoch(a)'
  BY ChainOK, Facts
<1>2. /\ e > 0 /\ n \in 1 .. Len(chain'[a][e]) /\ chain'[a][e][n] = ShaOf(d) /\ (d \in Pulls => PrBranch[d] = a)
      /\ d \in Early \/ work'[<<a, e, d>>].state # "none"
  BY <1>1 DEF Answers, Row
<1>3. e \in 1 .. Epoch(a) /\ ChainGrows /\ doc' = doc
  BY <1>1, <1>2 DEF Growth
<1>4. Len(chain[a][e]) \in Nat /\ \A m \in 1 .. Len(chain[a][e]) : chain'[a][e][m] = chain[a][e][m]
  BY <1>3, GrowthEpochs
<1>5. n \in 1 .. Len(chain[a][e]) /\ chain[a][e][n] = ShaOf(d)
  BY <1>1, <1>2, <1>4
<1>6. <<a, e, d>> \in AllKeys
  BY <1>1, <1>2, RowKey
<1>7. PICK k \in AllKeys : k = <<a, e, d>>
  BY <1>6
<1>8. /\ work'[k] = work[k] /\ RowInv(k) /\ (work[k].owner # None => proc'[work[k].owner] = proc[work[k].owner])
  <2>1. k # K
    BY <1>7, <1>g, NoClash DEF GrownWork
  <2>. QED
    BY <2>1, <1>g DEF GrownWork, SettleInv, RowsInv
<1>9. Answers(a, n, d)
  BY <1>1, <1>2, <1>5, <1>7, <1>8 DEF Answers, Row
<1>10. Right(a, n, d) => Right(a, n, d)'
  BY <1>1, <1>3 DEF Right
<1>11. DocOwes(a, d) => DocOwes(a, d)'
  <2>1. DocOwes(a, d) <=> \/ work[k].state \in {"due", "parked"}
                          \/ work[k].state = "leased" /\ (work[k].again \/ Carries(proc[work[k].owner], d))
    BY <1>1, <1>7 DEF DocOwes, Row
  <2>2. DocOwes(a, d)' <=> \/ work'[k].state \in {"due", "parked"}
                           \/ work'[k].state = "leased" /\ (work'[k].again \/ Carries(proc'[work'[k].owner], d))
    BY <1>1, <1>7 DEF DocOwes, Row, Carries, Loaded
  <2>. QED
    BY <1>8, <2>1, <2>2 DEF RowInv
<1>. QED
  BY <1>9, <1>10, <1>11 DEF Served

LEMMA GrowthAccounts ==
  ASSUME BasicInv, BasicInv', SettleInv, NEW p \in Numberers, NEW b \in Branches, NEW r, NEW x \in {"tail", "full"}, NEW K, Growth(p, b, r, x, K)
  PROVE  Accounted'
<1>. SUFFICES ASSUME NEW a \in Branches, NEW d \in AllDocs, NEW n \in Nat, Answers(a, n, d)', ~Served(a, n, d)'
              PROVE  SweepOwes(a, n)'
  BY DEF Accounted
<1>g. GrownWork(b, x, K)
  BY GrowthRows
<1>1. ChainGrows /\ (a # b => Epoch(a)' = Epoch(a) /\ chain'[a] = chain[a])
  BY DEF Growth, Epoch
<1>2. /\ Epoch(a) \in Nat /\ Epoch(a)' \in Nat /\ Epoch(a) <= Epoch(a)'
      /\ Epoch(a) > 0 => Len(chain[a][Epoch(a)]) \in Nat
  BY <1>1, GrowthEpochs
<1>3. n > 0 /\ Epoch(a)' > 0
  BY DEF Answers
<1>4. CASE Epoch(a)' = Epoch(a) /\ n <= Len(chain[a][Epoch(a)])
  <2>1. Answers(a, n, d) /\ ~Served(a, n, d)
    BY <1>4, GrowthServed
  <2>2. PICK y \in {"tail", "full"} : Row(a, y).state \in {"due", "leased"} /\ Base(<<a, Epoch(a), y>>) < n
    BY <2>1 DEF SettleInv, Accounted, SweepOwes
  <2>3. PICK e \in Nat : e = Epoch(a) /\ e = Epoch(a)'
    BY <1>2, <1>4
  <2>4. <<a, e, y>> \in AllKeys
    BY <1>3, <2>3, RowKey
  <2>5. PICK k \in AllKeys : k = <<a, e, y>>
    BY <2>4
  <2>6. work[k].state \in {"due", "leased"} /\ Base(k) < n /\ Base(k) \in Nat /\ work[k] \in WorkRecs
    BY <2>2, <2>3, <2>5, BaseNat, Facts DEF Row
  <2>7. work'[k].state \in {"due", "leased"} /\ Base(k)' < n
    <3>1. CASE k # K
      <4>1. work'[k] = work[k]
        BY <3>1, <1>g DEF GrownWork
      <4>. QED
        BY <2>6, <4>1 DEF Base
    <3>2. CASE k = K
      <4>1. work'[k].state \in {"due", "leased"} /\ work'[k].cursor = work[k].cursor /\ work'[k].fresh
        BY <2>6, <3>2, <1>g DEF GrownWork
      <4>2. work[k].cursor \in Nat /\ (k[3] = "full" => Base(k)' = 0) /\ (k[3] # "full" => Base(k)' = Base(k))
        BY <2>6, <4>1, RowTypes DEF Base
      <4>. QED
        BY <1>3, <2>6, <4>1, <4>2
    <3>. QED
      BY <3>1, <3>2
  <2>. QED
    BY <2>3, <2>5, <2>7 DEF SweepOwes, Row
<1>5. CASE ~(Epoch(a)' = Epoch(a) /\ n <= Len(chain[a][Epoch(a)]))
  <2>1. a = b
    <3>. SUFFICES ASSUME a # b PROVE FALSE
      OBVIOUS
    <3>1. Epoch(a)' = Epoch(a) /\ chain'[a] = chain[a]
      BY <1>1
    <3>2. n \in 1 .. Len(chain[a][Epoch(a)])
      BY <3>1 DEF Answers
    <3>. QED
      BY <1>5, <3>1, <3>2
  <2>2. PICK e \in Nat : e = Epoch(b)'
    BY <1>2, <2>1
  <2>3. K = <<b, e, x>> /\ K \in AllKeys /\ work'[K].state \in {"due", "leased"} /\ work'[K].cursor = work[K].cursor /\ work[K] \in WorkRecs
    BY <2>2, <1>g DEF GrownWork, Growth
  <2>4. Base(K)' < n
    <3>1. CASE Epoch(b) < Epoch(b)'
      <4>1. work'[K].cursor = 0
        BY <2>3, <3>1, <1>g DEF GrownWork, NoWork
      <4>. QED
        BY <1>3, <4>1 DEF Base
    <3>2. CASE Epoch(b)' = Epoch(b)
      <4>1. work[K].cursor <= Len(chain[b][Epoch(b)]) /\ n > Len(chain[b][Epoch(b)]) /\ Len(chain[b][Epoch(b)]) \in Nat
        BY <1>2, <1>3, <1>5, <2>1, <3>2, <1>g DEF GrownWork
      <4>2. work'[K].cursor < n
        BY <2>3, <4>1, RowTypes
      <4>. QED
        BY <1>3, <4>2 DEF Base
    <3>. QED
      BY <1>2, <2>1, <3>1, <3>2
  <2>. QED
    BY <2>1, <2>2, <2>3, <2>4 DEF SweepOwes, Row
<1>. QED
  BY <1>4, <1>5

LEMMA GrowthRound ==
  ASSUME BasicInv, BasicInv', SettleInv, NEW p \in Numberers, NEW b \in Branches, NEW r, NEW x \in {"tail", "full"}, NEW K, Growth(p, b, r, x, K),
         NEW a \in Runners, proc[a].pc # "idle"
  PROVE  RoundInv(a)'
<1>g. GrownWork(b, x, K)
  BY GrowthRows
<1>1. /\ a \in AllProcs /\ proc[a] \in ProcRecs /\ ProcOK(a, proc[a]) /\ RoundInv(a) /\ ChainGrows /\ proc'[a] = proc[a]
      /\ UNCHANGED <<snap, made, doc>>
  <2>1. a \in AllProcs /\ a # p /\ proc \in [AllProcs -> ProcRecs] /\ p \in AllProcs
    BY ProjectionAssumption, Facts DEF AllProcs
  <2>. QED
    BY <2>1, Facts DEF Growth, SettleInv, RoundsInv
<1>2. PICK q : q = proc[a] /\ q = proc'[a]
  BY <1>1
<1>3. PICK c \in Branches, e \in Nat : c = q.b /\ e = q.e /\ e > 0 /\ e <= Epoch(c) /\ q.key \in AllKeys /\ q.key[1] = c /\ q.key[2] = e
  <2>1. q.key \in AllKeys /\ q.b \in Branches /\ q.e \in Nat /\ q.key[2] = q.e /\ q.key[1] = q.b /\ q.e <= Epoch(q.b)
    BY <1>1, <1>2, Fields DEF ProcOK, Placed
  <2>2. q.e > 0
    BY <2>1, KeyParts, NoneOut
  <2>. QED
    BY <2>1, <2>2
<1>4. /\ Epoch(c) \in Nat /\ Epoch(c)' \in Nat /\ Epoch(c) <= Epoch(c)'
      /\ Len(chain[c][e]) \in Nat /\ Len(chain'[c][e]) \in Nat /\ Len(chain[c][e]) <= Len(chain'[c][e])
  <2>1. ChainGrows
    BY <1>1
  <2>2. /\ Epoch(c) \in Nat /\ Epoch(c)' \in Nat /\ Epoch(c) <= Epoch(c)'
        /\ \A z \in 1 .. Epoch(c) : Len(chain[c][z]) \in Nat /\ Len(chain'[c][z]) \in Nat /\ Len(chain[c][z]) <= Len(chain'[c][z])
    BY <2>1, GrowthEpochs
  <2>3. e \in 1 .. Epoch(c)
    BY <1>3, <2>2
  <2>. QED
    BY <2>2, <2>3
<1>5. q.cursor \in Nat /\ q.last \in Nat /\ (Sweeping(a)' <=> Sweeping(a)) /\ (Sweeping(a) <=> q.key[3] \in {"tail", "full"})
  BY <1>1, <1>2, Fields DEF Sweeping
<1>6. SweepInv(a)'
  <2>. SUFFICES ASSUME Sweeping(a) PROVE SweepInv(a)'
    BY <1>5 DEF SweepInv
  <2>1. /\ q.kinds = Kinds /\ q.cursor <= Len(chain[c][e]) /\ q.last <= Len(chain[c][e]) /\ (q.pc = "obsolete" => e < Epoch(c))
        /\ work[q.key].owner = a => (q.key[3] = "full" /\ work[q.key].again) \/ Base(q.key) = q.cursor
    BY <1>1, <1>2, <1>3 DEF RoundInv, SweepInv
  <2>2. work'[q.key].owner = a => (q.key[3] = "full" /\ work'[q.key].again) \/ Base(q.key)' = q.cursor
    <3>1. CASE q.key # K
      <4>1. work'[q.key] = work[q.key]
        BY <1>3, <1>g, <3>1 DEF GrownWork
      <4>. QED
        BY <2>1, <4>1 DEF Base
    <3>2. CASE q.key = K
      <4>1. work'[K].owner = work[K].owner /\ work'[K].cursor = work[K].cursor /\ (work[K].state = "leased" <=> work'[K].again) /\ K[3] = x
        BY <1>g DEF GrownWork
      <4>2. work[K].owner = a => work[K].state = "leased"
        BY <1>3, <3>2, NoneOut, LeaseOf
      <4>3. x = "tail" => Base(K)' = Base(K)
        BY <4>1 DEF Base
      <4>. QED
        BY <2>1, <3>2, <4>1, <4>2, <4>3 DEF Base
    <3>. QED
      BY <3>1, <3>2
  <2>3. q.cursor <= Len(chain'[c][e]) /\ q.last <= Len(chain'[c][e]) /\ (q.pc = "obsolete" => e < Epoch(c)')
    <3>1. q.cursor <= Len(chain[c][e]) /\ q.last <= Len(chain[c][e])
      BY <2>1
    <3>2. q.cursor <= Len(chain'[c][e]) /\ q.last <= Len(chain'[c][e])
      BY SMTT(30), <1>4, <1>5, <3>1
    <3>3. q.pc = "obsolete" => e < Epoch(c)'
      BY <1>4, <2>1
    <3>. QED
      BY <3>2, <3>3
  <2>. QED
    BY <1>2, <1>3, <2>1, <2>2, <2>3 DEF SweepInv
<1>7. HandInv(a)'
  <2>1. \A d : Known(c, d) => Known(c, d)'
    BY <1>1, KnownStays
  <2>2. \A d \in Has(q) : Home(c, d) /\ Known(c, d)
    BY <1>1, <1>2, <1>3 DEF RoundInv, HandInv
  <2>. QED
    BY <1>2, <1>3, <2>1, <2>2 DEF HandInv, Home
<1>8. Handled(a)'
  <2>. SUFFICES ASSUME Sweeping(a), q.e = Epoch(c)', q.pc \in {"observe", "bulk", "holders", "settle", "save"}, NEW d \in AllDocs, NEW n \in Nat,
                       n > q.cursor, n <= q.last, Answers(c, n, d)'
                PROVE  Served(c, n, d)' \/ (q.pc # "save" /\ Carries(q, d))
    BY <1>2, <1>3, <1>5 DEF Handled, Paging
  <2>1. Epoch(c)' = Epoch(c) /\ e = Epoch(c)
    BY <1>3, <1>4
  <2>2. n <= Len(chain[c][Epoch(c)])
    <3>1. q.last <= Len(chain[c][e])
      BY <1>1, <1>2, <1>3 DEF RoundInv, SweepInv
    <3>. QED
      BY <1>4, <1>5, <2>1, <3>1
  <2>3. Answers(c, n, d) /\ (Served(c, n, d) => Served(c, n, d)')
    BY <2>1, <2>2, GrowthServed
  <2>4. Paging(proc[a])
    BY <1>2, <1>3, <2>1 DEF Paging
  <2>5. Served(c, n, d) \/ (q.pc # "save" /\ Carries(q, d))
    BY <1>1, <1>2, <1>3, <2>3, <2>4 DEF RoundInv, Handled
  <2>. QED
    BY <2>3, <2>5
<1>9. Late(a)'
  <2>1. Apart => q.conf = {} /\ ~q.reclaim /\ q.pc # "holders"
    BY <1>1, <1>2 DEF RoundInv, Late
  <2>2. ASSUME Alone, e < Epoch(c)' PROVE Row(c, "full")'.state = "due" /\ Row(c, "full")'.fresh
    <3>1. PICK z \in Nat : z = Epoch(c)'
      BY <1>4
    <3>2. CASE Epoch(c)' = Epoch(c)
      <4>1. Row(c, "full").state = "due" /\ Row(c, "full").fresh
        BY <1>1, <1>2, <1>3, <2>2, <3>2 DEF RoundInv, Late
      <4>2. <<c, z, "full">> \in AllKeys
        BY <1>3, <1>4, <3>1, <3>2, RowKey
      <4>3. work[<<c, z, "full">>].state = "due" /\ work[<<c, z, "full">>].fresh
        BY <3>1, <3>2, <4>1 DEF Row
      <4>4. work'[<<c, z, "full">>].state = "due" /\ work'[<<c, z, "full">>].fresh
        <5>1. CASE <<c, z, "full">> = K
          BY <1>g, <4>3, <5>1 DEF GrownWork
        <5>2. CASE <<c, z, "full">> # K
          BY <1>g, <4>2, <4>3, <5>2 DEF GrownWork
        <5>. QED
          BY <5>1, <5>2
      <4>. QED
        BY <3>1, <4>4 DEF Row
    <3>3. CASE Epoch(c)' # Epoch(c)
      <4>1. c = b /\ x = "full" /\ Epoch(b) < Epoch(b)' /\ K = <<b, z, "full">>
        <5>1. c = b
          BY <3>3 DEF Growth, Epoch
        <5>. QED
          BY <1>3, <1>4, <3>1, <3>3, <5>1 DEF Growth
      <4>2. work'[K].state = "due" /\ work'[K].fresh
        BY <1>g, <4>1 DEF GrownWork, NoWork
      <4>. QED
        BY <3>1, <4>1, <4>2 DEF Row
    <3>. QED
      BY <3>2, <3>3
  <2>. QED
    BY <1>2, <1>3, <2>1, <2>2 DEF Late
<1>. QED
  BY <1>6, <1>7, <1>8, <1>9 DEF RoundInv

LEMMA IdleRound == ASSUME NEW a, proc[a] = Idle PROVE RoundInv(a)
BY DEF RoundInv, SweepInv, HandInv, Handled, Late, Sweeping, Has, Idle

LEMMA GrowthSettle ==
  ASSUME BasicInv, BasicInv', SettleInv, NEW p \in Numberers, NEW b \in Branches, NEW r, NEW x \in {"tail", "full"}, NEW K, Growth(p, b, r, x, K)
  PROVE  SettleInv'
<1>1. p \in AllProcs /\ p \notin Runners /\ proc \in [AllProcs -> ProcRecs] /\ proc' = [proc EXCEPT ![p] = r]
      /\ r.conf = {} /\ ~r.reclaim /\ r.pc # "holders" /\ UNCHANGED <<snap, made, doc, tx>> /\ ChainGrows
  BY ProjectionAssumption, Facts DEF AllProcs, Growth
<1>2. ASSUME NEW a \in AllProcs PROVE RoundInv(a)'
  <2>1. CASE a = p
    BY <1>1, <2>1 DEF RoundInv, SweepInv, HandInv, Handled, Late, Sweeping
  <2>2. CASE a # p /\ a \notin Runners
    <3>1. proc'[a] = proc[a] /\ RoundInv(a)
      BY <1>1, <2>2 DEF SettleInv, RoundsInv
    <3>. QED
      BY <2>2, <3>1 DEF RoundInv, SweepInv, HandInv, Handled, Late, Sweeping
  <2>3. CASE a \in Runners /\ proc[a].pc = "idle"
    <3>1. proc'[a] = Idle
      <4>1. proc'[a] = proc[a] /\ ProcOK(a, proc[a])
        BY <1>1, <2>3, Facts
      <4>. QED
        BY <2>3, <4>1 DEF ProcOK, Between
    <3>2. Idle.pc = "idle" /\ Has(Idle) = {} /\ Idle.conf = {} /\ ~Idle.reclaim
      BY DEF Idle, Has
    <3>. QED
      BY <3>1, <3>2 DEF RoundInv, SweepInv, HandInv, Handled, Late, Sweeping
  <2>4. CASE a \in Runners /\ proc[a].pc # "idle"
    BY <2>4, GrowthRound
  <2>. QED
    BY <1>1, <2>1, <2>2, <2>3, <2>4
<1>3. TxInv'
  <2>. SUFFICES ASSUME NEW pr \in DOMAIN tx, NEW k \in tx[pr] PROVE k[3] = pr /\ k[1] = PrBranch[pr] /\ k[2] <= Epoch(k[1])'
    BY <1>1 DEF TxInv
  <2>1. k[3] = pr /\ k[1] = PrBranch[pr] /\ k[2] <= Epoch(k[1]) /\ k \in AllKeys
    BY Facts DEF SettleInv, TxInv, StoreOK
  <2>2. PICK c \in Branches, e \in Nat : c = k[1] /\ e = k[2]
    BY <2>1, KeyParts, NoneOut
  <2>3. Epoch(c) \in Nat /\ Epoch(c)' \in Nat /\ Epoch(c) <= Epoch(c)'
    BY <1>1, GrowthEpochs
  <2>4. e <= Epoch(c)'
    BY <2>1, <2>2, <2>3
  <2>. QED
    BY <2>1, <2>2, <2>4
<1>4. RowsInv' /\ Accounted'
  BY GrowthRowsInv, GrowthAccounts
<1>5. EarlyInv' /\ LabelInv'
  BY <1>1 DEF SettleInv, EarlyInv, LabelInv
<1>. QED
  BY <1>2, <1>3, <1>4, <1>5 DEF SettleInv, RoundsInv

LEMMA AssignSettle ==
  ASSUME OneNumberer, BasicInv, SettleInv, NEW p \in Numberers, NEW b \in Branches, Assign(p, b) PROVE SettleInv'
<1>1. BasicInv'
  BY AssignBasic
<1>2. /\ ChainGrows /\ Epoch(b)' = (IF Epoch(b) = 0 THEN 1 ELSE Epoch(b)) /\ \A a \in Branches : a # b => chain'[a] = chain[a]
      /\ work' = RequestAll(work, {<<b, IF Epoch(b) = 0 THEN 1 ELSE Epoch(b), "tail">>}, Kinds)
  BY AssignIs
<1>3. PICK r \in ProcRecs : proc' = [proc EXCEPT ![p] = r] /\ r.pc = "epoch" /\ r.conf = {} /\ ~r.reclaim
  BY AssignIs
<1>4. UNCHANGED <<snap, made, doc, tx>> /\ Epoch(b) \in Nat
  BY ChainOK, Facts DEF Assign
<1>5. PICK K : K = <<b, Epoch(b)', "tail">>
  OBVIOUS
<1>6. Growth(p, b, r, "tail", K)
  BY <1>2, <1>3, <1>4, <1>5 DEF Growth
<1>. QED
  BY <1>1, <1>6, GrowthSettle

LEMMA ReassignSettle ==
  ASSUME OneNumberer, BasicInv, SettleInv, NEW p \in Numberers, NEW b \in Branches, Reassign(p, b) PROVE SettleInv'
<1>1. BasicInv'
  BY ReassignBasic
<1>2. /\ ChainGrows /\ Epoch(b)' = Epoch(b) + 1 /\ \A a \in Branches : a # b => chain'[a] = chain[a]
      /\ work' = RequestAll(work, {<<b, Epoch(b) + 1, "full">>}, Kinds)
  BY ZenonT(60), ReassignIs
<1>3. PICK r \in ProcRecs : proc' = [proc EXCEPT ![p] = r] /\ r.pc = "bump" /\ r.conf = {} /\ ~r.reclaim
  BY ReassignIs
<1>4. UNCHANGED <<snap, made, doc, tx>> /\ Epoch(b) \in Nat
  BY ChainOK, Facts DEF Reassign
<1>5. PICK K : K = <<b, Epoch(b)', "full">>
  OBVIOUS
<1>6. Growth(p, b, r, "full", K)
  BY <1>2, <1>3, <1>4, <1>5 DEF Growth
<1>. QED
  BY <1>1, <1>6, GrowthSettle

(* The invariant holds at the start, and every step keeps it. *)
LEMMA SettleInit == ProjectionInit => SettleInv
<1>. SUFFICES ASSUME ProjectionInit PROVE SettleInv
  OBVIOUS
<1>1. \A b \in Branches : Epoch(b) = 0
  BY DEF ProjectionInit, Epoch
<1>2. \A k \in AllKeys : work[k] = NoWork
  BY DEF ProjectionInit, AllKeys, AllDocs
<1>3. \A p \in AllProcs : RoundInv(p)
  BY IdleRound DEF ProjectionInit, AllProcs
<1>4. Accounted
  BY <1>1 DEF Accounted, Answers
<1>5. RowsInv
  <2>1. NoWork.state = "none" /\ NoWork.owner = None
    BY DEF NoWork
  <2>. QED
    BY <1>2, <2>1 DEF RowsInv, RowInv
<1>6. \A d \in AllDocs : doc[d] = IF d \in Early THEN Doc(IF d \in Pulls THEN PrBranch[d] ELSE None, 0, 0) ELSE NoDoc
  BY DEF ProjectionInit, AllDocs
<1>7. EarlyInv /\ LabelInv
  BY <1>6, ProjectionAssumption DEF EarlyInv, LabelInv, AllDocs, Doc, NoDoc, ProjectionInit
<1>8. TxInv
  BY DEF ProjectionInit, TxInv
<1>. QED
  BY <1>3, <1>4, <1>5, <1>7, <1>8 DEF SettleInv, RoundsInv

LEMMA SettleSame == ASSUME BasicInv, SettleInv, UNCHANGED projectionVars PROVE SettleInv'
<1>1. Still /\ work' = work /\ proc' = proc /\ chain' = chain /\ doc' = doc
  BY DEF projectionVars, Still
<1>2. Keeps
  <2>1. ASSUME NEW b \in Branches, NEW d \in AllDocs, DocOwes(b, d) PROVE DocOwes(b, d)'
    <3>1. Row(b, d)' = Row(b, d)
      BY <1>1 DEF Row, Epoch
    <3>2. ASSUME NEW a, Carries(proc[a], d) PROVE Carries(proc'[a], d)
      BY <1>1, <3>2
    <3>. QED
      BY <1>1, <2>1, <3>1, <3>2 DEF DocOwes, Carries, Loaded
  <2>2. \A b \in Branches, d \in AllDocs : Row(b, d)' = Row(b, d)
    BY <1>1 DEF Row, Epoch
  <2>. QED
    BY <1>1, <2>1, <2>2, RightSame, KeepsStep DEF Served
<1>3. RowsInv'
  BY <1>1, RowStays DEF SettleInv, RowsInv, RowInv, Still
<1>4. ASSUME NEW a \in AllProcs PROVE RoundInv(a)'
  BY <1>1, <1>2, RoundStays DEF SettleInv, RoundsInv, Still
<1>. QED
  BY <1>1, <1>2, <1>3, <1>4, SettleStep, SameSweeps, SameLabels, SameTx DEF SettleInv, RoundsInv, Still

LEMMA SettleNext == ASSUME Setting, BasicInv, SettleInv, [ProjectionNext]_projectionVars PROVE SettleInv'
<1>1. Keys = AllKeys /\ Procs = AllProcs /\ OneNumberer /\ WholeSweeps /\ OnePullPerCommit /\ (Apart \/ Alone)
  BY Facts DEF Setting
<1>2. ASSUME NEW p \in AllProcs, Project(p) PROVE SettleInv'
  BY <1>1, <1>2, BumpSettle, ReadEpochSettle, ReadRangeSettle, ObserveSettle, BulkSettle, HoldersSettle, ReadPageSettle, ReadSingleSettle,
     DelegateSettle, SavePageSettle, FinishSweepSettle, ObsoleteSettle, SettleDocSettle, EnrichTargetSettle, EnrichSettleSettle DEF Project
<1>3. ASSUME UNCHANGED projectionVars PROVE SettleInv'
  BY <1>3, SettleSame
<1>. QED
  BY <1>1, <1>2, <1>3, AssignSettle, ReassignSettle, ThrowSettle, CrashSettle, ClaimSettle, ExpireSettle, RequestSweepSettle, EnrichSettles,
     OpenSnapshotSettle, CommitSnapshotSettle, IndexPrSettle DEF ProjectionNext, Numbering

(* With no work left nothing is owed, so what the projection answers for is *)
(* right.                                                                   *)
LEMMA QuietIsRight ==
  ASSUME BasicInv, SettleInv, Quiescent, NEW b \in Branches, NEW d \in AllDocs, NEW n \in Nat, Answers(b, n, d)
  PROVE  Right(b, n, d)
<1>1. \A k \in AllKeys : work[k].state \in {"none", "done", "obsolete"}
  BY Facts DEF Quiescent
<1>2. \A x \in {"tail", "full"} \cup AllDocs : Row(b, x).state \in {"none", "done", "obsolete"}
  BY <1>1, RowKey DEF Row, Answers
<1>3. ~SweepOwes(b, n) /\ ~DocOwes(b, d)
  BY <1>2 DEF SweepOwes, DocOwes
<1>. QED
  BY <1>3 DEF SettleInv, Accounted, Served

LEMMA QuietIsShown ==
  ASSUME Apart \/ Alone, BasicInv, SettleInv, Quiescent, NEW d \in AllDocs,
         d \in Early \/ \E b \in Branches : Epoch(b) > 0 /\ work[<<b, Epoch(b), d>>].state = "done"
  PROVE  Shown(d)
<1>. SUFFICES ASSUME doc[d].there PROVE Shown(d)
  BY DEF Shown
<1>1. DocOK(d, doc[d]) /\ doc[d].branch \in Branches \cup {None} /\ ShaOf(d) \in Shas /\ (d \in Shas \/ d \in Pulls)
  BY Facts, ShaOfOK DEF DocRecs, AllDocs
<1>2. DOMAIN chain = Branches
  BY DEF BasicInv, ChainsOK
<1>3. CASE doc[d].branch = None
  <2>1. d \in Early
    BY <1>3 DEF SettleInv, LabelInv
  <2>2. d \notin Pulls
    BY <1>1, <1>3, NoneOut, ProjectionAssumption DEF DocOK
  <2>3. ASSUME NEW x \in Branches, Holds(x, ShaOf(d)) PROVE FALSE
    <3>1. PICK n \in Nat : n = Position(chain[x][Epoch(x)], ShaOf(d))
      BY <1>1, <2>3, PositionOK
    <3>2. Epoch(x) > 0 /\ n \in 1 .. Len(chain[x][Epoch(x)]) /\ chain[x][Epoch(x)][n] = ShaOf(d)
      BY <1>1, <2>3, <3>1, PositionOK DEF Holds
    <3>3. Answers(x, n, d)
      BY <2>1, <2>2, <3>2 DEF Answers
    <3>4. Right(x, n, d)
      BY <3>3, QuietIsRight
    <3>. QED
      BY <1>3, <3>4, NoneOut DEF Right, Doc
  <2>. QED
    BY <1>2, <1>3, <2>3 DEF Shown
<1>4. ASSUME NEW b \in Branches, doc[d].branch = b, Holds(b, ShaOf(d))
      PROVE  doc[d] = Doc(b, Epoch(b), Position(chain[b][Epoch(b)], ShaOf(d)))
  <2>1. PICK n \in Nat : n = Position(chain[b][Epoch(b)], ShaOf(d))
    BY <1>1, <1>4, PositionOK
  <2>2. Epoch(b) > 0 /\ n \in 1 .. Len(chain[b][Epoch(b)]) /\ chain[b][Epoch(b)][n] = ShaOf(d)
    BY <1>1, <1>4, <2>1, PositionOK DEF Holds
  <2>3. Home(b, d) /\ (d \in Pulls => PrBranch[d] = b)
    BY <1>1, <1>4, NoneOut DEF DocOK
  <2>4. d \in Early \/ Row(b, d).state # "none"
    <3>. SUFFICES ASSUME d \notin Early PROVE Row(b, d).state # "none"
      OBVIOUS
    <3>1. PICK a \in Branches : Epoch(a) > 0 /\ Row(a, d).state = "done"
      BY DEF Row
    <3>2. <<a, Epoch(a), d>> \in AllKeys
      BY <3>1, RowKey
    <3>3. Home(a, d)
      BY <3>1, <3>2 DEF SettleInv, RowsInv, RowInv, Row
    <3>4. a = b
      <4>1. CASE d \in Pulls
        BY <2>3, <3>3, <4>1 DEF Home
      <4>2. CASE d \notin Pulls
        <5>1. d \in Shas /\ May(a, d) /\ May(b, d)
          BY <1>1, <2>3, <3>3, <4>2 DEF Home
        <5>2. CASE Apart
          BY <5>1, <5>2 DEF Apart
        <5>3. CASE Alone
          BY <5>1, <5>3 DEF Alone, SettleInv, LabelInv
        <5>. QED
          BY <5>2, <5>3
      <4>. QED
        BY <4>1, <4>2
    <3>. QED
      BY <3>1, <3>4
  <2>5. Answers(b, n, d)
    BY <2>2, <2>3, <2>4 DEF Answers
  <2>6. Right(b, n, d)
    BY <2>5, QuietIsRight
  <2>. QED
    BY <1>4, <2>1, <2>6 DEF Right
<1>5. CASE doc[d].branch # None
  BY <1>1, <1>4, <1>5 DEF Shown
<1>. QED
  BY <1>3, <1>5

(* Once every row of work is done or obsolete, every process idle and no    *)
(* snapshot transaction open, a document that was there before its commit   *)
(* was numbered, or that has had work of its own in the current epoch,      *)
(* shows the canonical number of its branch (projectSequenceRange,          *)
(* runSpaceProjectionWork, runDocProjectionWork, projectAfterCreate),       *)
(* whatever crashed, threw, was parked or taken over on the way.            *)
THEOREM SettledDocumentsAreShown == ASSUME Setting PROVE ProjectionSpec => []SettledIsShown
<1>1. OneNumberer /\ (Apart \/ Alone)
  BY DEF Setting
<1>2. BasicInv /\ SettleInv => SettledIsShown
  BY <1>1, QuietIsShown, Facts DEF SettledIsShown, BasicInv, ChainsOK
<1>. QED
  BY <1>1, <1>2, BasicInit, BasicNext, SettleInit, SettleNext, PTL DEF ProjectionSpec
=============================================================================
