--------------------------- MODULE MCMergeNumbers ---------------------------
(***************************************************************************)
(* Instances of MergeNumber, one per situation that has to happen.  `part' *)
(* says which one a behaviour is of; it never changes.  The constants of   *)
(* MergeNumbers.cfg are those of the part `shown', in which the numbers of *)
(* two epochs are copied to the documents by two workers.                  *)
(***************************************************************************)
EXTENDS MergeNumber

VARIABLE part

allVars == <<part, vars>>

ShownLanded == [s \in {"a", "b"} |-> IF s = "a" THEN {"p"} ELSE {"o"}]
ShownHint == [s \in {"a", "b"} |-> "none"]
ShownHistory == <<<<"a">>, <<"b", "a">>>>

(* Two rounds overlap over a row that is attested a direct push and one     *)
(* whose pull request GitHub shows late.                                    *)
Overlap == INSTANCE MergeNumber WITH
  Prs <- {"p"}, Landed <- [s \in {"a", "b"} |-> IF s = "b" THEN {"p"} ELSE {}], Squash <- {"b"},
  History <- <<<<"a", "b">>>>, Documents <- {}, Attesting <- TRUE, Reconcilers <- {"r", "q"}, Materializers <- {},
  MaxEpoch <- 1, MaxFaults <- 1

(* One pull request is the merge of two rows, the row between has another's *)
(* number in its commit message, lookups fail, and the numbers run out.     *)
Stuck == INSTANCE MergeNumber WITH
  Shas <- {"a", "b", "c"}, Landed <- [s \in {"a", "b", "c"} |-> IF s = "c" THEN {"o"} ELSE {"p"}],
  Hint <- [s \in {"a", "b", "c"} |-> IF s = "c" THEN "p" ELSE "none"],
  Squash <- {"a", "b", "c"}, History <- <<<<"a", "c", "b">>>>, Failures <- {"fetch_failed", "partial_lookup"},
  Documents <- {}, Materializers <- {}, NumberMax <- 1, MaxEpoch <- 1, MaxFaults <- 1

(* Two rounds overlap with a rebuild of the branch; one pull request is the *)
(* merge of two rows.                                                       *)
Rebuilt == INSTANCE MergeNumber WITH
  Prs <- {"p"}, Landed <- [s \in {"a", "b"} |-> {"p"}], History <- <<<<"a", "b">>, <<"b">>>>,
  Documents <- {}, Reconcilers <- {"r", "q"}, Materializers <- {}

(* One row, one round at a time, and a rebuild that may be given up. *)
GivenUp == INSTANCE MergeNumber WITH
  Shas <- {"a"}, Prs <- {"p"}, Landed <- [s \in {"a"} |-> {"p"}], Hint <- [s \in {"a"} |-> "p"], Squash <- {"a"},
  History <- <<<<"a">>, <<"a">>>>, Materializers <- {"m"}, BatchSize <- 1, NumberMax <- 1, MaxFaults <- 1

-----------------------------------------------------------------------------
MCInit ==
  \/ part = "overlap" /\ Overlap!Init
  \/ part = "stuck" /\ Stuck!Init
  \/ part = "rebuilt" /\ Rebuilt!Init
  \/ part = "shown" /\ Init
  \/ part = "given_up" /\ GivenUp!Init

Number ==
  /\ \/ part = "overlap" /\ Overlap!Next
     \/ part = "stuck" /\ Stuck!Next
     \/ part = "rebuilt" /\ Rebuilt!Next
     \/ part = "shown" /\ Next
     \/ part = "given_up" /\ GivenUp!Next
  /\ UNCHANGED part

MCSpec == MCInit /\ [][Number]_allVars
=============================================================================
