-------------------------- MODULE MCGithubEffects --------------------------
(***************************************************************************)
(* What merge numbers do on GitHub: instances of MergeTag and of           *)
(* TitleAnnotation.  `part' says which one a behaviour is of; it never     *)
(* changes, and the variables of the other module stay empty.              *)
(***************************************************************************)
EXTENDS TitleAnnotation, MergeTag

VARIABLE part

onlyTagVars == <<tag, remote, work, tagger, job, jobs>>
onlyTitleVars == <<state, touched, title, shown, events, lock, proc>>
allVars == <<part, epoch, reassigning, flight, enabled, blocked, faults, onlyTagVars, onlyTitleVars>>

(* What has the numbers (GithubEffects.cfg); every instance uses the first  *)
(* of them in an epoch.                                                     *)
Numbered == <<<<"p", "q">>, <<"q", "p">>>>

(* Two executions of tag work overlap over a rebuild of the branch, after   *)
(* which the commit of number 1 has number 2.                               *)
Rebuilt == INSTANCE MergeTag WITH History <- <<<<"p">>, <<"q", "p">>>>

(* A reconcile job runs beside the work, and somebody else makes a tag. *)
Reconciled == INSTANCE MergeTag WITH
  History <- <<<<"p", "q">>>>, Taggers <- {"t"}, ForeignTags <- {2}, MaxEpoch <- 1, MaxJobs <- 1, TagAttempts <- 1

(* Two processes and a rebuild after which a pull request has another       *)
(* number.                                                                  *)
Renumbered == INSTANCE TitleAnnotation WITH History <- <<<<"p">>, <<"q", "p">>>>

(* Faults in a row on one pull request. *)
Faulty == INSTANCE TitleAnnotation WITH
  History <- <<<<"p">>>>, Limit <- 1, MaxEpoch <- 1, MaxFaults <- 2

(* A title GitHub never accepts comes first and takes the whole limit. *)
Starved == INSTANCE TitleAnnotation WITH
  History <- <<<<"p", "q">>>>, Rejected <- {"p"}, Limit <- 1, MaxEpoch <- 1

Titles == {"renumbered", "faulty", "starved"}

-----------------------------------------------------------------------------
MCInit ==
  \/ /\ (part = "rebuilt" /\ Rebuilt!TagInit) \/ (part = "reconciled" /\ Reconciled!TagInit)
     /\ state = <<>> /\ touched = <<>> /\ title = [p \in Prs |-> <<>>] /\ shown = <<>> /\ events = {} /\ lock = None
     /\ proc = [t \in Runners |-> Idle]
  \/ /\ (part = "renumbered" /\ Renumbered!Init) \/ (part = "faulty" /\ Faulty!Init) \/ (part = "starved" /\ Starved!Init)
     /\ tag = [e \in 1 .. MaxEpoch |-> <<>>] /\ remote = <<>> /\ work = <<>> /\ tagger = <<>> /\ job = NoJob /\ jobs = 0

Effect ==
  /\ \/ ((part = "rebuilt" /\ Rebuilt!TagNext) \/ (part = "reconciled" /\ Reconciled!TagNext)) /\ UNCHANGED onlyTitleVars
     \/ /\ (part = "renumbered" /\ Renumbered!Next) \/ (part = "faulty" /\ Faulty!Next) \/ (part = "starved" /\ Starved!Next)
        /\ UNCHANGED onlyTagVars
  /\ UNCHANGED part

(* The fair steps; part does not change, so fairness of a union over the    *)
(* instances is fairness in each of them.                                   *)
TagStep(rebuilt, reconciled) ==
  ((part = "rebuilt" /\ rebuilt) \/ (part = "reconciled" /\ reconciled)) /\ UNCHANGED <<part, onlyTitleVars>>

TitleStep(renumbered, faulty, starved) ==
  /\ (part = "renumbered" /\ renumbered) \/ (part = "faulty" /\ faulty) \/ (part = "starved" /\ starved)
  /\ UNCHANGED <<part, onlyTagVars>>

MCFairness ==
  /\ WF_allVars(TagStep(Rebuilt!SweepTags, Reconciled!SweepTags))
  /\ SF_allVars(TitleStep(Renumbered!Sweep, Faulty!Sweep, Starved!Sweep))
  /\ WF_allVars(TagStep(Rebuilt!CoolDownTags \/ Rebuilt!Rebuild, Reconciled!CoolDownTags))
  /\ WF_allVars(TitleStep(Renumbered!CoolDown \/ Renumbered!Reassign, Faulty!CoolDown, Starved!CoolDown))
  /\ WF_allVars(TagStep(Rebuilt!Tagging("t"), Reconciled!Tagging("t")) \/ TitleStep(Renumbered!Step("r"), Faulty!Step("r"), Starved!Step("r")))
  /\ WF_allVars(TagStep(Rebuilt!Tagging("u"), FALSE) \/ TitleStep(Renumbered!Step("s"), Faulty!Step("s"), Starved!Step("s")))

MCSpec == MCInit /\ [][Effect]_allVars /\ MCFairness

-----------------------------------------------------------------------------
(* DoneIsTagged and EventuallySettled of MergeTag hold in its instances,     *)
(* and are vacuous in those of TitleAnnotation, where no tag is assigned;   *)
(* PrefixOnce, DoneWasShown and ChangedIsHeld of TitleAnnotation hold in    *)
(* its three instances, and are vacuous in those of MergeTag.               *)

(* EventuallyAnnotated of TitleAnnotation: every current row that GitHub    *)
(* accepts gets a result, also behind one that fails for ever               *)
(* (listAnnotateTargets).                                                   *)
EveryRowIsAnnotated ==
  <>[]((part \in Titles /\ enabled) =>
         \A n \in DOMAIN state[epoch] :
           (part = "starved" /\ n = 1) \/ state[epoch][n] \in {"done", "mismatch", "body_changed"})
============================================================================
