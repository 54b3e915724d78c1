-------------------------- MODULE MCJobsAndScopes --------------------------
(****************************************************************************)
(* Instances of JobRunner and of ScopeCache.  `part' says which one a       *)
(* behaviour is of; it never changes, and the variables of the other module *)
(* stay empty.                                                              *)
(****************************************************************************)
EXTENDS JobRunner, ScopeCache

VARIABLE part

jobVars == <<jobs, list, snap, complete, claiming, proc, pages, owed, actions, faults>>
allVars == <<part, jobVars, scopeVars>>

(* The constants of JobRunner itself (JobsAndScopes.cfg) are those of a     *)
(* backfill that is paused, resumed and cancelled while its runner goes on, *)
(* so that a second one may take it up.  Two runners and two jobs, of which *)
(* one may run:                                                             *)
Contended == INSTANCE JobRunner WITH Repos <- {"x", "y"}, MaxPrs <- 1, MaxJobs <- 2, MaxActions <- 1

(* Repositories are bootstrapped, and their pull requests change meanwhile. *)
Bootstrapped == INSTANCE JobRunner WITH
  Bootstrap <- TRUE, Repos <- {"x", "y"}, Operating <- FALSE, MaxJobs <- 2, MaxActions <- 0, MaxFaults <- 2

(* The constants of ScopeCache itself are those of requests of two          *)
(* processes, which share Redis and the row only.  Requests of one process  *)
(* join each other's call of GitHub:                                        *)
Processes == [t \in {"a", "b"} |-> t]
Together == INSTANCE ScopeCache WITH Home <- [t \in {"a", "b"} |-> "p"]

-----------------------------------------------------------------------------
MCInit ==
  \/ /\ (part = "paused" /\ Init) \/ (part = "contended" /\ Contended!Init) \/ (part = "bootstrapped" /\ Bootstrapped!Init)
     /\ clock = 0 /\ changed = <<>> /\ events = {} /\ version = 0 /\ row = Absent /\ redis = Absent /\ req = <<>>
     /\ worker = <<>> /\ applied = 0 /\ served = <<>> /\ outages = 0
  \/ /\ (part = "apart" /\ ScopeInit) \/ (part = "together" /\ Together!ScopeInit)
     /\ jobs = <<>> /\ list = <<>> /\ snap = {} /\ complete = [r \in Repos |-> 0] /\ claiming = None /\ proc = <<>>
     /\ pages = <<>> /\ owed = <<>> /\ actions = 0 /\ faults = 0

MCNext ==
  /\ \/ /\ (part = "paused" /\ Next) \/ (part = "contended" /\ Contended!Next) \/ (part = "bootstrapped" /\ Bootstrapped!Next)
        /\ UNCHANGED scopeVars
     \/ /\ (part = "apart" /\ ScopeNext) \/ (part = "together" /\ Together!ScopeNext)
        /\ UNCHANGED jobVars
  /\ UNCHANGED part

(* The properties of each module hold in its instances, which agree on the  *)
(* constants they name, and are vacuous in those of the other.              *)
MCSpec == MCInit /\ [][MCNext]_allVars
============================================================================
