----------------------------- MODULE GitGraph -----------------------------
(***************************************************************************)
(* The git history that sequencing reads through the CommitGraph interface *)
(* (packages/github/src/commit-graph.ts).  Commits are immutable, so every *)
(* question that names its commits by SHA has one answer for ever; only    *)
(* the branch head moves, and it lives in MergeSequence.                   *)
(*                                                                         *)
(* Chain[c] is `git rev-list --first-parent --reverse c', Anc[c] the       *)
(* commits reachable from c (c included), Heads the commits the branch may *)
(* ever point to.  GraphMode tells the two implementations of the          *)
(* interface apart: the bare mirror (mirror-graph.ts) and the REST API     *)
(* (api-graph.ts).                                                         *)
(***************************************************************************)
EXTENDS Naturals, Sequences, FiniteSets

CONSTANTS Commits, Heads, Chain, Anc, GraphMode

\* "No commit": SQL NULL and the null of resolveHead and mergeBase.
None == "none"

ASSUME HeadsAssumption == Heads \subseteq Commits /\ None \notin Commits

ASSUME ModeAssumption == GraphMode \in {"mirror", "api"}

\* A first-parent chain ends in its commit, and cut anywhere it is the chain
\* of the commit it is cut at.
ASSUME ChainAssumption ==
    /\ Chain \in [Commits -> Seq(Commits)]
    /\ \A c \in Commits :
         /\ Len(Chain[c]) > 0
         /\ Chain[c][Len(Chain[c])] = c
         /\ \A i \in 1..Len(Chain[c]) :
              Chain[Chain[c][i]] = SubSeq(Chain[c], 1, i)

\* Reachability is a partial order that contains the first-parent relation.
ASSUME AncAssumption ==
    /\ Anc \in [Commits -> SUBSET Commits]
    /\ \A c \in Commits : \A i \in 1..Len(Chain[c]) : Chain[c][i] \in Anc[c]
    /\ \A a, b, c \in Commits : a \in Anc[b] /\ b \in Anc[c] => a \in Anc[c]
    /\ \A a, b \in Commits : a \in Anc[b] /\ b \in Anc[a] => a = b

OnChain(a, c) == \E i \in 1..Len(Chain[c]) : Chain[c][i] = a

IsAncestor(a, c) == a \in Anc[c]

\* git merge-base prints one best common ancestor; which one is git's choice.
MergeBases(a, b) ==
    LET common == Anc[a] \cap Anc[b]
        best == {x \in common : \A y \in common : x \in Anc[y] => y = x}
    IN IF best = {} THEN {None} ELSE best

\* How much of the chain of `to' the revision range `from..to' leaves out:
\* the range excludes everything reachable from `from', not only its chain.
Excluded(from, to) ==
    IF from = None THEN 0
    ELSE Cardinality({i \in 1..Len(Chain[to]) : Chain[to][i] \in Anc[from]})

\* firstParentCommits({from, to}), oldest first.
FirstParentCommits(from, to) ==
    SubSeq(Chain[to], Excluded(from, to) + 1, Len(Chain[to]))

\* The API walk follows parents[0] and throws when it meets the root without
\* having met `from'; git answers any range.
ChainBroken(from, to) ==
    GraphMode = "api" /\ from # None /\ ~ OnChain(from, to)

\* A history without foxtrot merges: a branch head that the branch later
\* contains is still on the branch's first-parent chain, and so is the best
\* common ancestor of two heads whenever the older chain passes through it.
FoxtrotFree ==
    \A a, b \in Heads :
        /\ IsAncestor(a, b) => OnChain(a, b)
        /\ \A m \in MergeBases(a, b) :
             m # None /\ OnChain(m, a) => OnChain(m, b)
===========================================================================
