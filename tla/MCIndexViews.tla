---------------------------- MODULE MCIndexViews ----------------------------
(***************************************************************************)
(* What the search index shows: instances of SequenceProjection and of     *)
(* Reindex, one per situation that has to happen.  `part' says which one a *)
(* behaviour is of; it never changes.                                      *)
(*                                                                         *)
(* The constants of Reindex itself are those of one of the parts: the      *)
(* index is rebuilt twice, with two faults.  The constants of              *)
(* SequenceProjection itself are everything its parts have between them;   *)
(* the parts have commits and pull requests of their own.  The properties  *)
(* quantify over what is in the variables and hold in every part.          *)
(***************************************************************************)
EXTENDS Reindex, SequenceProjection

VARIABLE part

projection == <<chain, snap, made, doc, work, proc, tx, sweeps, failures>>
reindex == <<canon, index, alias, uuids, jobs, writer, runner, faults>>
allVars == <<part, projection, reindex>>

Both == {"commit", "pr"}

AllPrSha == [x \in {"p2", "p5", "p7"} |-> IF x = "p2" THEN "c2" ELSE IF x = "p5" THEN "c5" ELSE "c7"]
AllPrBranch == [x \in {"p2", "p5", "p7"} |-> "main"]
AllHistories ==
  [b \in {"main", "rel"} |->
    IF b = "rel" THEN {<<"c2">>}
    ELSE {<<"c1", "c2">>, <<"c2">>, <<"c3">>, <<"c4", "c3">>, <<"c5">>, <<"c6", "c5">>, <<"c7">>}]
AllSweepKinds == {Both}

(* A commit on two branches, with a pull request; one branch is rebuilt. *)
Shared == INSTANCE SequenceProjection WITH
  Branches <- {"main", "rel"}, Shas <- {"c1", "c2"}, Pulls <- {"p2"},
  PrSha <- [x \in {"p2"} |-> "c2"], PrBranch <- [x \in {"p2"} |-> "main"],
  Histories <- [b \in {"main", "rel"} |-> IF b = "main" THEN {<<"c1", "c2">>, <<"c2">>} ELSE {<<"c2">>}],
  Early <- {"c2", "p2"}, Numberers <- {"n"}, Runners <- {"w"}, Enrichers <- {}, SweepKinds <- {},
  PageSize <- 1, PagesPerClaim <- 1, MaxEpoch <- 2, MaxSweeps <- 0, MaxFailures <- 0, None <- "none"

(* The documents are created while the branch is numbered and rebuilt, and  *)
(* a step fails.                                                            *)
Appearing == INSTANCE SequenceProjection WITH
  Branches <- {"main"}, Shas <- {"c3", "c4"}, Pulls <- {},
  PrSha <- [x \in {} |-> "c3"], PrBranch <- [x \in {} |-> "main"],
  Histories <- [b \in {"main"} |-> {<<"c3">>, <<"c4", "c3">>}],
  Early <- {}, Numberers <- {"n"}, Runners <- {"w"}, Enrichers <- {"en"}, SweepKinds <- {},
  PageSize <- 1, PagesPerClaim <- 1, MaxEpoch <- 2, MaxSweeps <- 0, MaxFailures <- 1, None <- "none"

(* Two steps fail while the branch is rebuilt. *)
Failing == INSTANCE SequenceProjection WITH
  Branches <- {"main"}, Shas <- {"c5", "c6"}, Pulls <- {"p5"},
  PrSha <- [x \in {"p5"} |-> "c5"], PrBranch <- [x \in {"p5"} |-> "main"],
  Histories <- [b \in {"main"} |-> {<<"c5">>, <<"c6", "c5">>}],
  Early <- {"c5", "p5"}, Numberers <- {"n"}, Runners <- {"w"}, Enrichers <- {}, SweepKinds <- {},
  PageSize <- 1, PagesPerClaim <- 1, MaxEpoch <- 2, MaxSweeps <- 0, MaxFailures <- 2, None <- "none"

(* A commit and its pull request appear while an operator sweeps. *)
Swept == INSTANCE SequenceProjection WITH
  Branches <- {"main"}, Shas <- {"c7"}, Pulls <- {"p7"},
  PrSha <- [x \in {"p7"} |-> "c7"], PrBranch <- [x \in {"p7"} |-> "main"],
  Histories <- [b \in {"main"} |-> {<<"c7">>}],
  Early <- {}, Numberers <- {"n"}, Runners <- {"w"}, Enrichers <- {"en"}, SweepKinds <- {Both},
  PageSize <- 1, PagesPerClaim <- 1, MaxEpoch <- 1, MaxSweeps <- 1, MaxFailures <- 1, None <- "none"

(* Two writers write the same pull request while it is rebuilt. *)
Writing == INSTANCE Reindex WITH
  Prs <- {1}, Writers <- {"w", "x"}, MaxVersion <- 2, MaxJobs <- 1, MaxFaults <- 2

(* The index is rebuilt twice, over two pull requests. *)
Paging == INSTANCE Reindex WITH
  Prs <- {1, 2}, Writers <- {"w"}, MaxVersion <- 1, MaxJobs <- 2, MaxFaults <- 1

-----------------------------------------------------------------------------
MCInit ==
  \/ /\ \/ part = "shared" /\ Shared!ProjectionInit
        \/ part = "appearing" /\ Appearing!ProjectionInit
        \/ part = "failing" /\ Failing!ProjectionInit
        \/ part = "swept" /\ Swept!ProjectionInit
     /\ Init
  \/ /\ \/ part = "writing" /\ Writing!Init
        \/ part = "paging" /\ Paging!Init
        \/ part = "again" /\ Init
     /\ Swept!ProjectionInit

Numbers ==
  /\ \/ part = "shared" /\ Shared!ProjectionNext
     \/ part = "appearing" /\ Appearing!ProjectionNext
     \/ part = "failing" /\ Failing!ProjectionNext
     \/ part = "swept" /\ Swept!ProjectionNext
  /\ UNCHANGED <<part, reindex>>

Rebuild ==
  /\ \/ part = "writing" /\ Writing!Next
     \/ part = "paging" /\ Paging!Next
     \/ part = "again" /\ Next
  /\ UNCHANGED <<part, projection>>

MCSpec == MCInit /\ [][Numbers \/ Rebuild]_allVars
=============================================================================
