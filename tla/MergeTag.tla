------------------------------ MODULE MergeTag ------------------------------
(***************************************************************************)
(* Tags for merge numbers: a row that gets a merge number is to have a     *)
(* lightweight tag of that name on GitHub, at its commit.  A tag is never  *)
(* moved.  Durable `tag' work reads the row, reads the tag, asks again     *)
(* whether the row is current, creates the tag and marks the row; a sweep  *)
(* asks for the work again and a reconcile job compares the rows with the  *)
(* tags.  One repository with one numbered branch is modelled.             *)
(***************************************************************************)
EXTENDS NumberedBranch

CONSTANTS
  Taggers,       \* executions of tag work; more than one when a lease runs out
  ForeignTags,   \* the numbers for which somebody else may make a tag
  MaxJobs,       \* bound
  TagAttempts    \* TAG_MAX_ATTEMPTS

ASSUME TagAssumption ==
  /\ MaxEpoch \in Nat \ {0} /\ MaxFaults \in Nat /\ MaxJobs \in Nat /\ TagAttempts \in Nat
  /\ \A e \in 1 .. MaxEpoch :
       /\ Len(History[e]) \in Nat /\ DOMAIN History[e] = 1 .. Len(History[e])
       /\ \A n \in DOMAIN History[e] : History[e][n] # None
  /\ None \notin Taggers

VARIABLES
  tag,       \* tag_state of the rows that have a number: tag[e][n]
  remote,    \* the tags on GitHub (external)
  work,      \* sequence_work of the kind tag
  tagger,    \* the executions of tag work
  job, jobs  \* the reconcile job in progress, and how many there were

tagVars == <<epoch, reassigning, tag, remote, flight, enabled, blocked, work, tagger, job, jobs, faults>>

Epochs == DOMAIN tag
Numbers == DOMAIN remote
Other == "other"     \* a tag somebody else made, or an annotated one
TagStates == {"null", "done", "conflict", "failed", "disabled", "unknown"}

NoWork == [state |-> "none", again |-> FALSE, owner |-> None]
NoTagging == [pc |-> "idle", e |-> 0, n |-> 0, attempt |-> 0, mark |-> "null", end |-> "done"]
NoJob == [pc |-> "idle", e |-> 0, list |-> <<>>, cut |-> FALSE, rows |-> <<>>, blocked |-> FALSE]

Assigned == DOMAIN tag[epoch]
WriteRow(e, n, s) == tag' = [tag EXCEPT ![e][n] = s]

-----------------------------------------------------------------------------
(* requestWork, and the three ways a lease ends: completeWork, releaseWork  *)
(* to be tried again, and releaseWork into a state nobody claims from.      *)
Requested(w) == IF w.state = "leased" THEN [w EXCEPT !.again = TRUE] ELSE [w EXCEPT !.state = "due"]

Ended(w, t, how) ==
  IF w.owner # t THEN w
  ELSE [state |-> IF how = "retry" \/ (how = "done" /\ w.again) THEN "due" ELSE "none", again |-> FALSE, owner |-> None]

-----------------------------------------------------------------------------
(* The rows *)

(* reconcileMergeNumbers gives a number and asks for the tag. *)
AssignTag ==
  LET n == Len(tag[epoch]) + 1
  IN  /\ ~reassigning /\ n <= Len(History[epoch])
      /\ tag' = [tag EXCEPT ![epoch] = @ \o <<"null">>]
      /\ work' = [work EXCEPT ![<<epoch, n>>] = Requested(@)]
      /\ UNCHANGED <<epoch, reassigning, remote, flight, enabled, blocked, tagger, job, jobs, faults>>

(* A rebuild of the branch: the mark, and then the new epoch or the end of  *)
(* the attempt.                                                             *)
MarkRebuild ==
  /\ ~reassigning /\ epoch < MaxEpoch
  /\ reassigning' = TRUE
  /\ UNCHANGED <<epoch, tag, remote, flight, enabled, blocked, work, tagger, job, jobs, faults>>

Rebuild ==
  /\ reassigning
  /\ reassigning' = FALSE
  /\ \/ epoch' = epoch + 1 /\ UNCHANGED faults
     \/ Fault /\ UNCHANGED epoch
  /\ UNCHANGED <<tag, remote, flight, enabled, blocked, work, tagger, job, jobs>>

-----------------------------------------------------------------------------
(* GitHub and the operators (external) *)

MakeForeignTag(n) ==
  /\ n \in ForeignTags /\ remote[n] = None
  /\ Fault
  /\ remote' = [remote EXCEPT ![n] = Other]
  /\ UNCHANGED <<epoch, reassigning, tag, flight, enabled, blocked, work, tagger, job, jobs>>

(* The way out of a conflict in the runbook: the wrong tag is deleted. *)
DeleteTag(n) ==
  /\ n \in Assigned /\ tag[epoch][n] = "conflict" /\ remote[n] # History[epoch][n]
  /\ remote' = [remote EXCEPT ![n] = None]
  /\ UNCHANGED <<epoch, reassigning, tag, flight, enabled, blocked, work, tagger, job, jobs, faults>>

SwitchTags ==
  /\ Fault
  /\ enabled' = ~enabled
  /\ UNCHANGED <<epoch, reassigning, tag, remote, flight, blocked, work, tagger, job, jobs>>

(* blockCooldownMs has passed. *)
CoolDownTags ==
  /\ blocked = "now"
  /\ blocked' = "old"
  /\ UNCHANGED <<epoch, reassigning, tag, remote, flight, enabled, work, tagger, job, jobs, faults>>

(* A tag is made where there is none; otherwise the answer is 422. *)
Made(n, sha) == [remote EXCEPT ![n] = IF @ = None THEN sha ELSE @]

(* GitHub executes a request nobody waits for any more. *)
LandTag ==
  /\ \E f \in flight : remote' = Made(f[1], f[2]) /\ flight' = flight \ {f}
  /\ UNCHANGED <<epoch, reassigning, tag, enabled, blocked, work, tagger, job, jobs, faults>>

-----------------------------------------------------------------------------
(* materializeTag *)

(* decideTagAction *)
DecideTag(sha, found) ==
  CASE found = None -> "create" [] found = sha -> "already_done" [] OTHER -> "conflict"

Claim(t) ==
  \E k \in DOMAIN work :
    /\ tagger[t].pc = "idle" /\ work[k].state = "due"
    /\ work' = [work EXCEPT ![k] = [state |-> "leased", again |-> FALSE, owner |-> t]]
    /\ tagger' = [tagger EXCEPT ![t] = [NoTagging EXCEPT !.pc = "target", !.e = k[1], !.n = k[2], !.attempt = 1]]
    /\ UNCHANGED <<epoch, reassigning, tag, remote, flight, enabled, blocked, job, jobs, faults>>

(* The execution is over but for the mark, or even without one. *)
MarksTag(t, s, how) == tagger' = [tagger EXCEPT ![t].pc = "mark", ![t].mark = s, ![t].end = how]
Ends(t, how) == tagger' = [tagger EXCEPT ![t].pc = "end", ![t].end = how]

(* findTagTarget and the policy of the repository. *)
Target(t) ==
  LET q == tagger[t]
  IN  /\ q.pc = "target"
      /\ CASE q.e # epoch \/ reassigning -> Ends(t, "obsolete")
           [] ~enabled -> MarksTag(t, "disabled", "done")
           [] blocked = "now" -> Ends(t, "retry")
           [] tag[q.e][q.n] = "conflict" -> Ends(t, "done")
           [] OTHER -> tagger' = [tagger EXCEPT ![t].pc = "read"]
      /\ UNCHANGED <<epoch, reassigning, tag, remote, flight, enabled, blocked, work, job, jobs, faults>>

(* What follows a failed request: another attempt, or the end with a mark.  *)
(* An execution that has failed too often is parked.                        *)
Failed(t, s) ==
  \/ /\ tagger[t].attempt < TagAttempts
     /\ tagger' = [tagger EXCEPT ![t].pc = "read", ![t].attempt = @ + 1]
  \/ MarksTag(t, s, "retry")
  \/ s = "failed" /\ MarksTag(t, s, "parked")

(* GitHub does not execute a request: an error, the rate limit, the end of  *)
(* the time budget, or no permission, which blocks the repository.          *)
RefusedTag(t) ==
  /\ Fault
  /\ \/ (Failed(t, "failed") \/ Ends(t, "retry")) /\ UNCHANGED blocked
     \/ blocked' = "now" /\ MarksTag(t, "failed", "parked")

(* readTagRef, before the request and again when the answer to it was 422;  *)
(* without a tag that means that the commit is not on GitHub.               *)
ReadTag(t) ==
  LET q == tagger[t]
      d == DecideTag(History[q.e][q.n], remote[q.n])
  IN  /\ q.pc \in {"read", "reread"}
      /\ \/ /\ CASE d = "already_done" -> MarksTag(t, "done", "done")
                 [] d = "conflict" -> MarksTag(t, "conflict", "done")
                 [] d = "create" -> IF q.pc = "read" THEN tagger' = [tagger EXCEPT ![t].pc = "check"]
                                    ELSE MarksTag(t, "failed", "parked")
            /\ UNCHANGED <<blocked, faults>>
         \/ RefusedTag(t)
      /\ UNCHANGED <<epoch, reassigning, tag, remote, flight, enabled, work, job, jobs>>

(* isTagTargetCurrent, right before the request. *)
CheckTag(t) ==
  LET q == tagger[t]
  IN  /\ q.pc = "check"
      /\ IF q.e = epoch /\ ~reassigning /\ enabled /\ blocked # "now"
         THEN tagger' = [tagger EXCEPT ![t].pc = "post"]
         ELSE Ends(t, "retry")
      /\ UNCHANGED <<epoch, reassigning, tag, remote, flight, enabled, blocked, work, job, jobs, faults>>

(* Mutant of NoTagAnswer: a request without an answer counts as executed. *)
NoTagAnswerIsDone(t) == MarksTag(t, "done", "done")

(* The answer of a request that was sent is missing. *)
NoTagAnswer(t) == Failed(t, "unknown")

(* createTagRef: created; 422, so that the tag is read again; not executed; *)
(* or without an answer.                                                    *)
PostTag(t) ==
  LET q == tagger[t]
      sha == History[q.e][q.n]
  IN  /\ q.pc = "post"
      /\ \/ /\ remote[q.n] = None
            /\ remote' = Made(q.n, sha)
            /\ blocked' = "no"
            /\ MarksTag(t, "done", "done")
            /\ UNCHANGED <<flight, faults>>
         \/ /\ (remote[q.n] # None /\ UNCHANGED faults) \/ Fault
            /\ tagger' = [tagger EXCEPT ![t].pc = "reread"]
            /\ UNCHANGED <<remote, flight, blocked>>
         \/ RefusedTag(t) /\ UNCHANGED <<remote, flight>>
         \/ /\ Fault
            /\ flight' = flight \cup {<<q.n, sha>>}
            /\ NoTagAnswer(t)
            /\ UNCHANGED <<remote, blocked>>
      /\ UNCHANGED <<epoch, reassigning, tag, enabled, work, job, jobs>>

(* markTagState *)
MarkTag(t) ==
  /\ tagger[t].pc = "mark"
  /\ WriteRow(tagger[t].e, tagger[t].n, tagger[t].mark)
  /\ tagger' = [tagger EXCEPT ![t].pc = "end"]
  /\ UNCHANGED <<epoch, reassigning, remote, flight, enabled, blocked, work, job, jobs, faults>>

(* The end of the lease. *)
End(t) ==
  LET q == tagger[t]
  IN  /\ q.pc = "end"
      /\ work' = [work EXCEPT ![<<q.e, q.n>>] = Ended(@, t, q.end)]
      /\ tagger' = [tagger EXCEPT ![t] = NoTagging]
      /\ UNCHANGED <<epoch, reassigning, tag, remote, flight, enabled, blocked, job, jobs, faults>>

Tagging(t) == Claim(t) \/ Target(t) \/ ReadTag(t) \/ CheckTag(t) \/ PostTag(t) \/ MarkTag(t) \/ End(t)

(* Mutant of Sweepable: a row that failed is not looked at again. *)
SweepableNotFailed == {n \in Assigned : tag[epoch][n] \in {"null", "unknown"}}

(* listTagSweepTargets: the rows without a result, or with one to be retried. *)
Sweepable == {n \in Assigned : tag[epoch][n] \in {"null", "failed", "unknown"}}

(* sweepTagTargets *)
SweepTags ==
  /\ enabled /\ ~reassigning /\ blocked # "now" /\ Sweepable # {}
  /\ work' = [k \in DOMAIN work |-> IF k[1] = epoch /\ k[2] \in Sweepable THEN Requested(work[k]) ELSE work[k]]
  /\ UNCHANGED <<epoch, reassigning, tag, remote, flight, enabled, blocked, tagger, job, jobs, faults>>

-----------------------------------------------------------------------------
(* reconcileTags *)

StartJob ==
  /\ job.pc = "idle" /\ jobs < MaxJobs /\ ~reassigning
  /\ jobs' = jobs + 1
  /\ job' = [NoJob EXCEPT !.pc = "list", !.e = epoch, !.blocked = (blocked # "no")]
  /\ UNCHANGED <<epoch, reassigning, tag, remote, flight, enabled, blocked, work, tagger, faults>>

(* listTagRefs, which may be cut off at its page limit. *)
List ==
  /\ job.pc = "list"
  /\ \/ job' = [job EXCEPT !.pc = "page", !.list = remote] /\ UNCHANGED faults
     \/ /\ Fault
        /\ \E k \in Numbers :
             job' = [job EXCEPT !.pc = "page", !.list = [n \in Numbers |-> IF n < k THEN remote[n] ELSE None], !.cut = TRUE]
  /\ UNCHANGED <<epoch, reassigning, tag, remote, flight, enabled, blocked, work, tagger, jobs>>

(* listNumberedRowsPage *)
Page ==
  /\ job.pc = "page"
  /\ job' = [job EXCEPT !.pc = "compare", !.rows = tag[job.e]]
  /\ UNCHANGED <<epoch, reassigning, tag, remote, flight, enabled, blocked, work, tagger, jobs, faults>>

(* A row of the page is compared with the listed tag: it is marked when it  *)
(* says something else, and reopened when it is a conflict without a tag.   *)
Compared(n, s) ==
  LET was == job.rows[n]
  IN  CASE job.list[n] = None -> IF was = "conflict" /\ ~job.cut THEN "null" ELSE s
        [] DecideTag(History[job.e][n], job.list[n]) = "already_done" -> IF was # "done" THEN "done" ELSE s
        [] OTHER -> IF was # "conflict" THEN "conflict" ELSE s

Compare ==
  /\ job.pc = "compare"
  /\ tag' = [tag EXCEPT ![job.e] = [n \in DOMAIN @ |-> IF n \in DOMAIN job.rows THEN Compared(n, @[n]) ELSE @[n]]]
  /\ blocked' = IF job.blocked THEN "no" ELSE blocked
  /\ job' = [job EXCEPT !.pc = "request"]
  /\ UNCHANGED <<epoch, reassigning, remote, flight, enabled, work, tagger, jobs, faults>>

(* The work of every row whose tag is missing is requested. *)
Request ==
  /\ job.pc = "request"
  /\ work' = [k \in DOMAIN work |->
       IF ~job.cut /\ k[1] = job.e /\ k[2] \in DOMAIN job.rows /\ job.list[k[2]] = None THEN Requested(work[k]) ELSE work[k]]
  /\ job' = NoJob
  /\ UNCHANGED <<epoch, reassigning, tag, remote, flight, enabled, blocked, tagger, jobs, faults>>

Reconcile == StartJob \/ List \/ Page \/ Compare \/ Request

-----------------------------------------------------------------------------
(* Faults *)

(* A lease runs out while its execution goes on. *)
LoseLease ==
  /\ Fault
  /\ \E k \in DOMAIN work : work[k].owner # None /\ work' = [work EXCEPT ![k] = Ended(@, @.owner, "retry")]
  /\ UNCHANGED <<epoch, reassigning, tag, remote, flight, enabled, blocked, tagger, job, jobs>>

(* The process dies, between any two steps; its lease runs out. *)
DieTagging(t) ==
  /\ tagger[t].pc # "idle"
  /\ Fault
  /\ tagger' = [tagger EXCEPT ![t] = NoTagging]
  /\ work' = [k \in DOMAIN work |-> Ended(work[k], t, "retry")]
  /\ UNCHANGED <<epoch, reassigning, tag, remote, flight, enabled, blocked, job, jobs>>

-----------------------------------------------------------------------------
TagInit ==
  /\ epoch = 1 /\ reassigning = FALSE /\ enabled = TRUE /\ blocked = "no"
  /\ tag = [e \in 1 .. MaxEpoch |-> <<>>]
  /\ remote = [n \in UNION {DOMAIN History[e] : e \in 1 .. MaxEpoch} |-> None]
  /\ flight = {}
  /\ work = [k \in Epochs \X Numbers |-> NoWork]
  /\ tagger = [t \in Taggers |-> NoTagging]
  /\ job = NoJob /\ jobs = 0 /\ faults = 0

TagNext ==
  \/ AssignTag \/ MarkRebuild \/ Rebuild \/ SwitchTags \/ CoolDownTags \/ LandTag
  \/ \E n \in Numbers : MakeForeignTag(n) \/ DeleteTag(n)
  \/ \E t \in Taggers : Tagging(t) \/ DieTagging(t)
  \/ SweepTags \/ Reconcile \/ LoseLease

TagSpec == TagInit /\ [][TagNext]_tagVars

(* The runner and the sweeper loop for ever, the block's cooldown passes,   *)
(* and a rebuild that was announced is committed or given up.               *)
TagFairness ==
  /\ WF_tagVars(SweepTags) /\ WF_tagVars(CoolDownTags) /\ WF_tagVars(Rebuild)
  /\ \A t \in Taggers : WF_tagVars(Tagging(t))

-----------------------------------------------------------------------------
(* The rows, the work and the executions have their shapes, and work is     *)
(* leased exactly when it has an owner (sequence_work, merge_sequence).     *)
TagTypeOK ==
  /\ epoch \in Epochs /\ blocked \in {"no", "now", "old"}
  /\ \A e \in Epochs : Len(tag[e]) <= Len(History[e]) /\ \A n \in DOMAIN tag[e] : tag[e][n] \in TagStates
  /\ \A k \in DOMAIN work : work[k].state \in {"none", "due", "leased"} /\ (work[k].state = "leased") = (work[k].owner \in Taggers)
  /\ \A t \in Taggers : tagger[t].attempt \in 0 .. TagAttempts

(* A row of the current epoch that says `done' has its tag on GitHub, at    *)
(* its own commit: through unanswered requests, tags of an older epoch or   *)
(* of others, a second execution, and a reconcile job that lists first and  *)
(* marks later (attemptOnce, decideTagAction, reconcileTags).               *)
DoneIsTagged ==
  \A n \in Assigned : tag[epoch][n] = "done" => remote[n] = History[epoch][n]

(* In the end, while tagging is enabled, every row of the current epoch has *)
(* a result that stays: work that was lost, parked or made obsolete by a    *)
(* rebuild that failed is asked for again (sweepTagTargets).                *)
EventuallySettled == <>[](enabled => \A n \in Assigned : tag[epoch][n] \in {"done", "conflict", "disabled"})
=============================================================================
