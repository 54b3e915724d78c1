-------------------------- MODULE MCMergeSequence --------------------------
(* Instances of MergeSequence on small histories.  A commit is a string; a *)
(* history is the list of parents of each commit, first parent first.      *)
(* `part' says which instance a behaviour is of; it never changes.         *)
EXTENDS MergeSequence

VARIABLE part

\* r - a - m with f (child of r) merged by m, and b beside a.  x merges a into
\* b and y merges b into a: whichever of the two follows the other's first
\* parent is a foxtrot merge.
Parents ==
    [c \in {"r", "a", "b", "f", "m", "x", "y"} |->
        CASE c = "r" -> <<>>
          [] c = "m" -> <<"a", "f">>
          [] c = "x" -> <<"b", "a">>
          [] c = "y" -> <<"a", "b">>
          [] OTHER   -> <<"r">>]

Histories == DOMAIN Parents
Tips == {"a", "b", "m", "x", "y"}

FirstParents ==
    LET chain[c \in DOMAIN Parents] ==
          IF Parents[c] = <<>> THEN <<c>> ELSE Append(chain[Parents[c][1]], c)
    IN chain

Reachable ==
    LET anc[c \in DOMAIN Parents] ==
          {c} \cup UNION {anc[Parents[c][i]] : i \in 1..Len(Parents[c])}
    IN anc

\* A consumer and a runner, over the REST API, while the branch grows and is
\* rewritten.
Api == INSTANCE MergeSequence WITH Heads <- {"a", "b", "m"}, GraphMode <- "api", Repairers <- {}

\* A runner and a repair, over the bare mirror, with foxtrot merges.
Foxtrot == INSTANCE MergeSequence WITH Heads <- {"a", "x", "y"}, GraphMode <- "mirror", Consumers <- {}

mcVars == <<vars, part>>

MCInit == Init /\ part \in {"api", "foxtrot"}

MCNext ==
    /\ \/ part = "api" /\ Api!Next
       \/ part = "foxtrot" /\ Foxtrot!Next
    /\ UNCHANGED part

MCSpec == MCInit /\ [][MCNext]_mcVars

\* Over the REST API the numbering is git's first-parent chain of the stored
\* head in every history (NumberingIsChain of MergeSequence; api-graph.ts).
ApiNumberingIsChain == part = "api" => NumberingIsChain
============================================================================
