------------------------ MODULE MergeSequenceProofs ------------------------
(***************************************************************************)
(* What holds of MergeSequence for every history, every set of workers and *)
(* any number of pushes.                                                   *)
(***************************************************************************)
EXTENDS MergeSequence, FiniteSetTheorems, SequenceTheorems, TLAPS

---------------------------------------------------------------------------
(* The walk.                                                               *)

\* What the assumption says of one chain.
LEMMA ChainFacts ==
    ASSUME NEW c \in Commits
    PROVE  /\ Chain[c] \in Seq(Commits)
           /\ Len(Chain[c]) \in Nat /\ Len(Chain[c]) > 0
           /\ Chain[c][Len(Chain[c])] = c
           /\ \A i \in 1..Len(Chain[c]) :
                Chain[c][i] \in Commits /\ Chain[Chain[c][i]] = SubSeq(Chain[c], 1, i)
<1>1. Chain[c] \in Seq(Commits)
  BY ChainAssumption
<1>2. Len(Chain[c]) \in Nat
  BY <1>1
<1>3. \A i \in 1..Len(Chain[c]) : Chain[c][i] \in Commits
  BY <1>1
<1> QED
  BY <1>1, <1>2, <1>3, ChainAssumption

\* A range leaves out at most the whole chain.
LEMMA ExcludedType ==
    ASSUME NEW to \in Commits, NEW from \in Commits \cup {None}
    PROVE  Excluded(from, to) \in 0..Len(Chain[to])
<1> DEFINE n == Len(Chain[to])
           S == {i \in 1..n : Chain[to][i] \in Anc[from]}
<1>1. n \in Nat
  BY ChainAssumption
<1>2. IsFiniteSet(1..n) /\ Cardinality(1..n) = n
  BY <1>1, FS_Interval
<1>3. IsFiniteSet(S) /\ Cardinality(S) <= n
  <2>1. S \in SUBSET (1..n)
    OBVIOUS
  <2>2. IsFiniteSet(S) /\ Cardinality(S) <= Cardinality(1..n)
    BY <1>2, <2>1, FS_Subset
  <2> QED
    BY <1>2, <2>2
<1>4. Cardinality(S) \in Nat
  BY <1>3, FS_CardinalityType
<1> QED
  BY <1>1, <1>3, <1>4 DEF Excluded

\* The commits of a chain are distinct.
LEMMA ChainDistinct ==
    ASSUME NEW c \in Commits,
           NEW i \in 1..Len(Chain[c]), NEW j \in 1..Len(Chain[c]),
           Chain[c][i] = Chain[c][j]
    PROVE  i = j
<1>1. SubSeq(Chain[c], 1, i) = SubSeq(Chain[c], 1, j)
  <2>1. Chain[Chain[c][i]] = SubSeq(Chain[c], 1, i)
    BY ChainFacts
  <2>2. Chain[Chain[c][j]] = SubSeq(Chain[c], 1, j)
    BY ChainFacts
  <2> QED
    BY <2>1, <2>2
<1>2. Len(SubSeq(Chain[c], 1, i)) = i /\ Len(SubSeq(Chain[c], 1, j)) = j
  BY ChainFacts
<1> QED
  BY <1>1, <1>2

\* A range that starts on the chain leaves out exactly the chain up to there.
LEMMA ExcludedOnChain ==
    ASSUME NEW to \in Commits, NEW i \in 1..Len(Chain[to])
    PROVE  Excluded(Chain[to][i], to) = i
<1> DEFINE from == Chain[to][i]
           S == {j \in 1..Len(Chain[to]) : Chain[to][j] \in Anc[from]}
<1>0. from \in Commits /\ Len(Chain[to]) \in Nat
  BY ChainFacts
<1>1. ASSUME NEW j \in 1..i PROVE j \in S
  <2>1. Chain[from] = SubSeq(Chain[to], 1, i)
    BY ChainAssumption
  <2>2. Len(Chain[from]) = i /\ Chain[from][j] = Chain[to][j]
    BY <2>1, ChainAssumption
  <2>3. Chain[from][j] \in Anc[from]
    BY <1>0, <2>2, AncAssumption
  <2> QED
    BY <2>2, <2>3, <1>0
<1>2. ASSUME NEW j \in S PROVE j \in 1..i
  <2>1. j \in 1..Len(Chain[to]) /\ Chain[to][j] \in Anc[from] /\ Chain[to][j] \in Commits
    BY ChainAssumption
  <2>2. SUFFICES ASSUME j > i PROVE FALSE
    BY <2>1
  <2>3. Chain[Chain[to][j]] = SubSeq(Chain[to], 1, j)
    BY <2>1, ChainAssumption
  <2>4. Len(Chain[Chain[to][j]]) = j /\ Chain[Chain[to][j]][i] = from
    BY <2>1, <2>2, <2>3, ChainAssumption
  <2>5. from \in Anc[Chain[to][j]]
    BY <2>1, <2>2, <2>4, AncAssumption
  <2>6. from = Chain[to][j]
    BY <1>0, <2>1, <2>5, AncAssumption
  <2> QED
    BY <2>1, <2>2, <2>6, ChainDistinct
<1>3. S = 1..i
  BY <1>1, <1>2
<1>4. Cardinality(1..i) = i
  BY FS_Interval
<1>5. from # None
  BY <1>0, HeadsAssumption
<1> QED
  BY <1>3, <1>4, <1>5 DEF Excluded

\* The list a walk returns.
LEMMA WalkType ==
    ASSUME NEW to \in Commits, NEW from \in Commits \cup {None}
    PROVE  /\ FirstParentCommits(from, to) \in Seq(Commits)
           /\ Len(FirstParentCommits(from, to)) = Len(Chain[to]) - Excluded(from, to)
           /\ \A k \in 1..Len(FirstParentCommits(from, to)) :
                FirstParentCommits(from, to)[k] = Chain[to][Excluded(from, to) + k]
<1>1. Excluded(from, to) \in 0..Len(Chain[to])
  BY ExcludedType
<1>2. Chain[to] \in Seq(Commits) /\ Len(Chain[to]) \in Nat
  BY ChainFacts
<1> DEFINE x == Excluded(from, to)
           n == Len(Chain[to])
           f == SubSeq(Chain[to], x + 1, n)
<1>3. x \in Nat /\ n \in Nat /\ x <= n
  BY <1>1, <1>2
<1> HIDE DEF x
<1>4. Len(f) = n - x
  BY <1>2, <1>3
<1>5. \A k \in 1..(n - x) : f[k] = Chain[to][x + k]
  BY <1>2, <1>3
<1>6. f \in Seq(Commits)
  BY <1>2, <1>3
<1> QED
  BY <1>4, <1>5, <1>6 DEF FirstParentCommits, x

\* A walk that does not start at or after its end ends with its end.
LEMMA WalkEnds ==
    ASSUME NEW to \in Commits, NEW from \in Commits \cup {None},
           from # None => to \notin Anc[from]
    PROVE  /\ Len(FirstParentCommits(from, to)) > 0
           /\ FirstParentCommits(from, to)[Len(FirstParentCommits(from, to))] = to
<1> DEFINE n == Len(Chain[to])
           S == {i \in 1..n : Chain[to][i] \in Anc[from]}
<1>1. n \in Nat /\ n > 0 /\ Chain[to][n] = to
  BY ChainAssumption
<1>2. Excluded(from, to) < n
  <2>1. CASE from = None
    BY <1>1, <2>1 DEF Excluded
  <2>2. CASE from # None
    <3>1. S \subseteq 1..(n - 1)
      BY <1>1, <2>2
    <3>2. IsFiniteSet(1..(n - 1)) /\ Cardinality(1..(n - 1)) = n - 1
      <4> DEFINE m == n - 1
      <4>1. m \in Nat
        BY <1>1
      <4> HIDE DEF m
      <4>2. IsFiniteSet(1..m) /\ Cardinality(1..m) = m
        BY <4>1, FS_Interval
      <4> QED
        BY <4>2 DEF m
    <3>3. IsFiniteSet(S) /\ Cardinality(S) <= n - 1
      BY <3>1, <3>2, FS_Subset
    <3>4. Cardinality(S) \in Nat
      BY <3>3, FS_CardinalityType
    <3> QED
      BY <1>1, <2>2, <3>3, <3>4 DEF Excluded
  <2> QED
    BY <2>1, <2>2
<1>3. Excluded(from, to) \in 0..n
  BY ExcludedType
<1>4. Len(FirstParentCommits(from, to)) = n - Excluded(from, to)
  BY WalkType
<1>5. \A k \in 1..(n - Excluded(from, to)) :
        FirstParentCommits(from, to)[k] = Chain[to][Excluded(from, to) + k]
  BY <1>4, WalkType
<1> QED
  BY <1>1, <1>2, <1>3, <1>4, <1>5

---------------------------------------------------------------------------
(* Numberings without gaps are sequences of commits.                       *)

\* A function on 1..m is a sequence of length m.
LEMMA FnIsSeq ==
    ASSUME NEW S, NEW m \in Nat, NEW f \in [1..m -> S]
    PROVE  f \in Seq(S) /\ Len(f) = m
<1>1. f \in Seq(S)
  BY SeqDef
<1>2. DOMAIN f = 1..Len(f) /\ Len(f) \in Nat
  BY <1>1, LenProperties
<1>3. DOMAIN f = 1..m
  OBVIOUS
<1> QED
  BY <1>1, <1>2, <1>3

\* Numbering from the end of a numbering appends to it.
LEMMA NumberedFacts ==
    ASSUME NEW old \in Seq(Commits), NEW new \in Seq(Commits)
    PROVE  /\ Numbered(old, Len(old), new) \in Seq(Commits)
           /\ Len(Numbered(old, Len(old), new)) = Len(old) + Len(new)
           /\ \A i \in 1..Len(old) : Numbered(old, Len(old), new)[i] = old[i]
           /\ \A i \in 1..Len(new) : Numbered(old, Len(old), new)[Len(old) + i] = new[i]
<1> DEFINE b == Len(old)
           m == Len(new)
           f == Numbered(old, b, new)
<1>1. b \in Nat /\ DOMAIN old = 1..b /\ \A i \in 1..b : old[i] \in Commits
  BY LenProperties, ElementOfSeq
<1>2. m \in Nat /\ \A i \in 1..m : new[i] \in Commits
  BY LenProperties, ElementOfSeq
<1> HIDE DEF b, m
<1>3. DOMAIN old \cup (b + 1)..(b + m) = 1..(b + m)
  BY <1>1, <1>2
<1>4. f = [s \in 1..(b + m) |-> IF s \in 1..b THEN old[s] ELSE new[s - b]]
  BY <1>1, <1>3 DEF Numbered, m
<1>5. \A s \in 1..(b + m) : s \notin 1..b => s - b \in 1..m
  BY <1>1, <1>2
<1>6. f \in [1..(b + m) -> Commits]
  BY <1>1, <1>2, <1>4, <1>5
<1>7. f \in Seq(Commits) /\ Len(f) = b + m
  <2>1. b + m \in Nat
    BY <1>1, <1>2
  <2> QED
    BY <2>1, <1>6, FnIsSeq
<1>8. \A i \in 1..b : f[i] = old[i]
  BY <1>1, <1>2, <1>4
<1>9. \A i \in 1..m : f[b + i] = new[i]
  <2> SUFFICES ASSUME NEW i \in 1..m PROVE f[b + i] = new[i]
    OBVIOUS
  <2>1. b + i \in 1..(b + m) /\ b + i \notin 1..b /\ (b + i) - b = i
    BY <1>1, <1>2
  <2> QED
    BY <2>1, <1>4
<1> QED
  BY <1>7, <1>8, <1>9 DEF b, m

\* Copying the first n rows.
LEMMA CopyFacts ==
    ASSUME NEW old \in Seq(Commits), NEW n \in 0..Len(old)
    PROVE  /\ CopyUpTo(old, n) \in Seq(Commits)
           /\ Len(CopyUpTo(old, n)) = n
           /\ \A i \in 1..n : CopyUpTo(old, n)[i] = old[i]
<1>1. Len(old) \in Nat /\ DOMAIN old = 1..Len(old) /\ n \in Nat /\ n <= Len(old)
  BY LenProperties
<1>2. {t \in DOMAIN old : t <= n} = 1..n
  BY <1>1
<1>3. CopyUpTo(old, n) = [s \in 1..n |-> old[s]]
  BY <1>2 DEF CopyUpTo
<1>4. \A i \in 1..n : old[i] \in Commits
  BY <1>1, ElementOfSeq
<1>5. CopyUpTo(old, n) \in [1..n -> Commits]
  BY <1>3, <1>4
<1> QED
  BY <1>1, <1>3, <1>5, FnIsSeq

\* The number found for a commit is a number of that commit.
LEMMA SeqOfFacts ==
    ASSUME NEW old \in Seq(Commits), NEW c
    PROVE  /\ SeqOf(old, c) \in 0..Len(old)
           /\ SeqOf(old, c) # 0 => old[SeqOf(old, c)] = c
<1>1. Len(old) \in Nat /\ DOMAIN old = 1..Len(old)
  BY LenProperties
<1>2. CASE \E s \in DOMAIN old : old[s] = c
  <2>1. SeqOf(old, c) \in DOMAIN old /\ old[SeqOf(old, c)] = c
    BY <1>2 DEF SeqOf
  <2> QED
    BY <1>1, <2>1
<1>3. CASE ~ \E s \in DOMAIN old : old[s] = c
  BY <1>1, <1>3 DEF SeqOf
<1> QED
  BY <1>2, <1>3

\* The numbering of a new epoch.
LEMMA RebuiltFacts ==
    ASSUME NEW old \in Seq(Commits), old = rows[space.seq_epoch],
           NEW n \in 0..Len(old), NEW from \in Commits \cup {None},
           NEW to \in Commits
    PROVE  /\ Rebuilt(n, from, to) \in Seq(Commits)
           /\ Len(Rebuilt(n, from, to)) = n + Len(FirstParentCommits(from, to))
           /\ \A i \in 1..n : Rebuilt(n, from, to)[i] = old[i]
           /\ \A i \in 1..Len(FirstParentCommits(from, to)) :
                Rebuilt(n, from, to)[n + i] = FirstParentCommits(from, to)[i]
<1> DEFINE copy == CopyUpTo(old, n)
           walk == FirstParentCommits(from, to)
<1>1. copy \in Seq(Commits) /\ Len(copy) = n /\ \A i \in 1..n : copy[i] = old[i]
  BY CopyFacts
<1>2. walk \in Seq(Commits)
  BY WalkType
<1>3. Rebuilt(n, from, to) = Numbered(copy, Len(copy), walk)
  BY <1>1 DEF Rebuilt
<1> HIDE DEF copy, walk
<1>4. /\ Numbered(copy, Len(copy), walk) \in Seq(Commits)
      /\ Len(Numbered(copy, Len(copy), walk)) = Len(copy) + Len(walk)
      /\ \A i \in 1..Len(copy) : Numbered(copy, Len(copy), walk)[i] = copy[i]
      /\ \A i \in 1..Len(walk) : Numbered(copy, Len(copy), walk)[Len(copy) + i] = walk[i]
  BY <1>1, <1>2, NumberedFacts
<1> QED
  BY <1>1, <1>3, <1>4 DEF walk

\* A prefix of a chain continued by the walk from its last commit is the chain.
LEMMA PrefixAndWalk ==
    ASSUME NEW to \in Commits, NEW n \in 0..Len(Chain[to]),
           NEW f \in Seq(Commits),
           NEW from \in Commits \cup {None},
           n = 0 => from = None, n # 0 => from = Chain[to][n],
           Len(f) = n + Len(FirstParentCommits(from, to)),
           \A i \in 1..n : f[i] = Chain[to][i],
           \A i \in 1..Len(FirstParentCommits(from, to)) :
                f[n + i] = FirstParentCommits(from, to)[i]
    PROVE  f = Chain[to]
<1>1. Chain[to] \in Seq(Commits) /\ Len(Chain[to]) \in Nat
  BY ChainFacts
<1>2. Excluded(from, to) = n /\ from \in Commits \cup {None}
  <2>1. CASE n = 0
    BY <2>1 DEF Excluded
  <2>2. CASE n # 0
    <3>1. n \in 1..Len(Chain[to])
      BY <2>2, <1>1
    <3> QED
      BY <2>2, <3>1, ExcludedOnChain, ChainFacts
  <2> QED
    BY <2>1, <2>2
<1>3. Len(FirstParentCommits(from, to)) = Len(Chain[to]) - n
  BY <1>2, WalkType
<1>4. \A k \in 1..(Len(Chain[to]) - n) : FirstParentCommits(from, to)[k] = Chain[to][n + k]
  <2>1. \A k \in 1..Len(FirstParentCommits(from, to)) :
          FirstParentCommits(from, to)[k] = Chain[to][Excluded(from, to) + k]
    BY <1>2, WalkType
  <2> QED
    BY <1>2, <1>3, <2>1
<1>5. Len(f) = Len(Chain[to])
  BY <1>1, <1>3
<1>6. ASSUME NEW i \in 1..Len(Chain[to]) PROVE f[i] = Chain[to][i]
  <2>1. CASE i <= n
    BY <2>1
  <2>2. CASE i > n
    <3>1. i - n \in 1..(Len(Chain[to]) - n) /\ n + (i - n) = i
      BY <1>1, <2>2
    <3>2. f[n + (i - n)] = FirstParentCommits(from, to)[i - n]
      BY <1>3, <3>1
    <3>3. FirstParentCommits(from, to)[i - n] = Chain[to][n + (i - n)]
      BY <1>4, <3>1
    <3> QED
      BY <3>1, <3>2, <3>3
  <2> QED
    BY <1>1, <2>1, <2>2
<1> QED
  BY <1>1, <1>5, <1>6, SeqEqual

---------------------------------------------------------------------------
(* The inductive invariant.                                                *)

RepairPCs == {"r_space", "r_stored", "r_lock", "r_mark", "r_fence", "r_commit"}

\* What a worker has found out so far.  A forward walk starts at an ancestor
\* of its end; a repair has read an epoch that exists, and once it knows the
\* first diverging number, the rows below that number are the chain's.
Knows(w) ==
    /\ wk[w].pc \in {"walk", "mark", "relock", "rewalk"} \cup RepairPCs =>
         wk[w].new \in Heads
    /\ wk[w].pc \in {"mark", "relock", "rewalk"} => wk[w].head \in Heads
    /\ wk[w].pc = "walk" => wk[w].head = None \/ IsAncestor(wk[w].head, wk[w].new)
    /\ wk[w].pc \in RepairPCs \ {"r_space"} => wk[w].epoch \in 1..Len(rows)
    /\ wk[w].pc \in {"r_lock", "r_mark", "r_fence", "r_commit"} =>
         /\ wk[w].diverged \in 1..Len(rows[wk[w].epoch])
         /\ \A i \in 1..(wk[w].diverged - 1) :
              i <= Len(Chain[wk[w].new]) /\ rows[wk[w].epoch][i] = Chain[wk[w].new][i]

IInv ==
    /\ TypeOK
    /\ HeadEndsRows
    /\ AnalysisIsCurrent
    /\ \A w \in Workers : Knows(w)

\* Every epoch stays and every row in it stays.
Grows ==
    /\ Len(rows) <= Len(rows')
    /\ \A e \in 1..Len(rows) :
         /\ Len(rows[e]) <= Len(rows'[e])
         /\ \A i \in 1..Len(rows[e]) : rows'[e][i] = rows[e][i]

---------------------------------------------------------------------------
(* What the three committing steps write.                                  *)

\* The current epoch is a sequence of commits as long as head_seq.
LEMMA CurrentRows ==
    ASSUME TypeOK, HeadEndsRows
    PROVE  /\ space.seq_epoch \in 1..Len(rows)
           /\ rows[space.seq_epoch] \in Seq(Commits)
           /\ Len(rows[space.seq_epoch]) = space.head_seq
           /\ space.head_seq \in Nat
<1>1. rows \in Seq(Seq(Commits)) /\ space.seq_epoch \in Nat \ {0} /\ space.head_seq \in Nat
  BY DEF TypeOK, SpaceRow
<1>2. space.seq_epoch \in 1..Len(rows)
  BY <1>1 DEF HeadEndsRows
<1>3. rows[space.seq_epoch] \in Seq(Commits)
  BY <1>1, <1>2
<1>4. DOMAIN rows[space.seq_epoch] = 1..Len(rows[space.seq_epoch])
      /\ Len(rows[space.seq_epoch]) \in Nat
  BY <1>3, LenProperties
<1> QED
  BY <1>1, <1>2, <1>3, <1>4 DEF HeadEndsRows

\* The walk of a forward assignment ends at the new head; it is empty only
\* when the head did not move.
LEMMA ForwardWalk ==
    ASSUME NEW from \in Commits \cup {None}, NEW to \in Commits,
           from = None \/ IsAncestor(from, to)
    PROVE  \/ from = to /\ Len(FirstParentCommits(from, to)) = 0
           \/ /\ Len(FirstParentCommits(from, to)) > 0
              /\ FirstParentCommits(from, to)[Len(FirstParentCommits(from, to))] = to
<1>1. CASE from = to
  <2>1. Len(Chain[to]) \in 1..Len(Chain[to]) /\ Chain[to][Len(Chain[to])] = to
    BY ChainFacts
  <2>2. Excluded(to, to) = Len(Chain[to])
    BY <2>1, ExcludedOnChain
  <2>3. Len(FirstParentCommits(from, to)) = Len(Chain[to]) - Excluded(from, to)
    BY WalkType
  <2> QED
    BY <1>1, <2>2, <2>3, ChainFacts
<1>2. CASE from # to
  <2>1. from # None => to \notin Anc[from]
    BY <1>2, AncAssumption DEF IsAncestor
  <2> QED
    BY <2>1, WalkEnds
<1> QED
  BY <1>1, <1>2

\* A forward assignment appends the walk and ends at the new head.
LEMMA AssignFacts ==
    ASSUME IInv, NEW w \in Workers, AssignCommit(w)
    PROVE  LET n == Len(FirstParentCommits(wk[w].head, wk[w].new))
           IN /\ wk[w].new \in Heads /\ n \in Nat
              /\ Assigned(w) \in Seq(Commits)
              /\ Len(Assigned(w)) = space.head_seq + n
              /\ \A i \in 1..space.head_seq :
                   Assigned(w)[i] = rows[space.seq_epoch][i]
              /\ \A i \in 1..n : Assigned(w)[space.head_seq + i] =
                   FirstParentCommits(wk[w].head, wk[w].new)[i]
              /\ space.head_seq + n > 0
              /\ Assigned(w)[space.head_seq + n] = wk[w].new
<1> DEFINE old == rows[space.seq_epoch]
           b == space.head_seq
           walk == FirstParentCommits(wk[w].head, wk[w].new)
<1>1. old \in Seq(Commits) /\ Len(old) = b /\ b \in Nat
  BY CurrentRows DEF IInv
<1>2. /\ wk[w].pc = "walk" /\ wk[w].new \in Heads /\ wk[w].head \in HeadOrNone
      /\ wk[w].head = None \/ IsAncestor(wk[w].head, wk[w].new)
      /\ wk[w].head = space.head_sha
  BY DEF IInv, Knows, AnalysisIsCurrent, TypeOK, Worker, AssignCommit, At, Workers
<1>3. wk[w].new \in Commits /\ wk[w].head \in Commits \cup {None}
  BY <1>2, HeadsAssumption DEF HeadOrNone
<1>4. walk \in Seq(Commits)
  BY <1>3, WalkType
<1>5. Len(walk) \in Nat
  BY <1>4
<1>6. \/ wk[w].head = wk[w].new /\ Len(walk) = 0
      \/ Len(walk) > 0 /\ walk[Len(walk)] = wk[w].new
  BY <1>2, <1>3, ForwardWalk
<1>7. wk[w].head # None => b > 0 /\ old[b] = wk[w].head
  BY <1>2 DEF IInv, HeadEndsRows
<1>8. Assigned(w) = Numbered(old, Len(old), walk)
  BY <1>1 DEF Assigned
<1> HIDE DEF old, b, walk
<1>9. /\ Numbered(old, Len(old), walk) \in Seq(Commits)
      /\ Len(Numbered(old, Len(old), walk)) = Len(old) + Len(walk)
      /\ \A i \in 1..Len(old) : Numbered(old, Len(old), walk)[i] = old[i]
      /\ \A i \in 1..Len(walk) : Numbered(old, Len(old), walk)[Len(old) + i] = walk[i]
  BY <1>1, <1>4, NumberedFacts
<1>10. wk[w].new # None
  BY <1>3, HeadsAssumption
<1>11. b + Len(walk) > 0 /\ Assigned(w)[b + Len(walk)] = wk[w].new
  <2>1. CASE Len(walk) > 0
    <3>1. Len(walk) \in 1..Len(walk)
      BY <1>5, <2>1
    <3> QED
      BY <1>1, <1>5, <1>6, <1>8, <1>9, <2>1, <3>1
  <2>2. CASE Len(walk) = 0
    BY <1>1, <1>6, <1>7, <1>8, <1>9, <1>10, <2>2
  <2> QED
    BY <1>5, <2>1, <2>2
<1> QED
  BY <1>1, <1>2, <1>5, <1>8, <1>9, <1>11 DEF old, b, walk

\* A renumbered epoch ends at the new head, whatever the merge base was.
LEMMA ReassignFacts ==
    ASSUME IInv, NEW w \in Workers, NEW base \in Commits \cup {None},
           ReassignCommit(w, base)
    PROVE  LET n == SeqOf(rows[space.seq_epoch], base)
               from == IF n = 0 THEN None ELSE base
               m == n + Len(FirstParentCommits(from, wk[w].new))
           IN /\ wk[w].new \in Heads /\ m \in Nat
              /\ Rebuilt(n, from, wk[w].new) \in Seq(Commits)
              /\ Len(Rebuilt(n, from, wk[w].new)) = m
              /\ m > 0 /\ Rebuilt(n, from, wk[w].new)[m] = wk[w].new
<1> DEFINE old == rows[space.seq_epoch]
           n == SeqOf(old, base)
           from == IF n = 0 THEN None ELSE base
           walk == FirstParentCommits(from, wk[w].new)
           new == Rebuilt(n, from, wk[w].new)
<1>1. old \in Seq(Commits) /\ Len(old) \in Nat
  BY CurrentRows DEF IInv
<1>2. wk[w].pc = "rewalk" /\ wk[w].new \in Heads /\ wk[w].head \in Heads
      /\ base \in MergeBases(wk[w].head, wk[w].new)
  BY DEF IInv, Knows, ReassignCommit, At, Workers
<1>3. wk[w].new \in Commits /\ wk[w].head \in Commits
  BY <1>2, HeadsAssumption
<1>4. base # None => base \in Anc[wk[w].new]
  BY <1>2, <1>3 DEF MergeBases
<1>5. n \in 0..Len(old) /\ (n # 0 => old[n] = base)
  BY <1>1, SeqOfFacts
<1>6. /\ from \in Commits \cup {None} /\ (from # None => from \in Anc[wk[w].new])
      /\ n = 0 => from = None
      /\ n # 0 => from = base
  BY <1>4
<1> HIDE DEF old, n, from
<1>7. \/ from = wk[w].new /\ Len(walk) = 0
      \/ Len(walk) > 0 /\ walk[Len(walk)] = wk[w].new
  BY <1>3, <1>6, ForwardWalk DEF IsAncestor
<1>8. Len(walk) \in Nat
  BY <1>3, <1>6, WalkType
<1>9. /\ new \in Seq(Commits)
      /\ Len(new) = n + Len(walk)
      /\ \A i \in 1..n : new[i] = old[i]
      /\ \A i \in 1..Len(walk) : new[n + i] = walk[i]
  BY <1>1, <1>3, <1>5, <1>6, RebuiltFacts DEF old
<1>10. wk[w].new # None
  BY <1>3, HeadsAssumption
<1> HIDE DEF walk, new
<1>11. n + Len(walk) > 0 /\ new[n + Len(walk)] = wk[w].new
  <2>1. CASE Len(walk) > 0
    <3>1. Len(walk) \in 1..Len(walk)
      BY <1>8, <2>1
    <3> QED
      BY <1>1, <1>5, <1>7, <1>8, <1>9, <2>1, <3>1
  <2>2. CASE Len(walk) = 0
    BY <1>1, <1>5, <1>6, <1>7, <1>9, <1>10, <2>2
  <2> QED
    BY <1>8, <2>1, <2>2
<1> QED
  BY <1>1, <1>2, <1>5, <1>8, <1>9, <1>11 DEF walk, new, n, from, old

\* An epoch rebuilt behind a prefix of the chain is the chain.
LEMMA RebuiltIsChain ==
    ASSUME NEW old \in Seq(Commits), old = rows[space.seq_epoch],
           NEW to \in Commits,
           NEW n \in 0..Len(old), n \in 0..Len(Chain[to]),
           \A i \in 1..n : old[i] = Chain[to][i],
           NEW from \in Commits \cup {None},
           n = 0 => from = None, n # 0 => from = Chain[to][n]
    PROVE  /\ Rebuilt(n, from, to) = Chain[to]
           /\ n + Len(FirstParentCommits(from, to)) = Len(Chain[to])
<1> DEFINE f == Rebuilt(n, from, to)
<1>1. Len(old) \in Nat /\ Len(Chain[to]) \in Nat
  BY ChainFacts
<1>3. /\ f \in Seq(Commits) /\ Len(f) = n + Len(FirstParentCommits(from, to))
      /\ \A i \in 1..n : f[i] = old[i]
      /\ \A i \in 1..Len(FirstParentCommits(from, to)) :
           f[n + i] = FirstParentCommits(from, to)[i]
  <2> HIDE DEF f
  <2>1. /\ Rebuilt(n, from, to) \in Seq(Commits)
        /\ Len(Rebuilt(n, from, to)) = n + Len(FirstParentCommits(from, to))
        /\ \A i \in 1..n : Rebuilt(n, from, to)[i] = old[i]
        /\ \A i \in 1..Len(FirstParentCommits(from, to)) :
             Rebuilt(n, from, to)[n + i] = FirstParentCommits(from, to)[i]
    BY RebuiltFacts, Zenon
  <2> QED
    BY <2>1 DEF f
<1>4. \A i \in 1..n : f[i] = Chain[to][i]
  BY <1>3
<1> HIDE DEF f
<1>5. f = Chain[to]
  BY <1>3, <1>4, PrefixAndWalk, Zenon
<1> QED
  BY <1>3, <1>5 DEF f

\* A repaired epoch is the chain of the head the repair read.
LEMMA RepairFacts ==
    ASSUME IInv, NEW w \in Workers, RepairCommit(w)
    PROVE  LET n == wk[w].diverged - 1
               from == IF n = 0 THEN None ELSE Chain[wk[w].new][n]
           IN /\ wk[w].new \in Heads
              /\ Rebuilt(n, from, wk[w].new) = Chain[wk[w].new]
              /\ n + Len(FirstParentCommits(from, wk[w].new)) = Len(Chain[wk[w].new])
<1> DEFINE old == rows[space.seq_epoch]
           to == wk[w].new
           n == wk[w].diverged - 1
           from == IF n = 0 THEN None ELSE Chain[wk[w].new][n]
<1>1. old \in Seq(Commits) /\ Len(old) \in Nat
  BY CurrentRows DEF IInv
<1>2. /\ to \in Heads /\ wk[w].epoch = space.seq_epoch
      /\ wk[w].diverged \in 1..Len(old)
      /\ \A i \in 1..n : i <= Len(Chain[to]) /\ old[i] = Chain[to][i]
  BY DEF IInv, Knows, AnalysisIsCurrent, RepairCommit, At, Workers, RepairPCs
<1>3. to \in Commits
  BY <1>2, HeadsAssumption
<1>4. Len(Chain[to]) \in Nat /\ \A i \in 1..Len(Chain[to]) : Chain[to][i] \in Commits
  BY <1>3, ChainFacts
<1>5. n \in 0..Len(old)
  BY <1>1, <1>2
<1>6. (n = 0 => from = None) /\ (n # 0 => from = Chain[to][n])
  OBVIOUS
<1> HIDE DEF old, to, n, from
<1>7. n \in 0..Len(Chain[to]) /\ (n # 0 => n \in 1..Len(Chain[to]))
  BY <1>1, <1>2, <1>4, <1>5
<1>8. from \in Commits \cup {None}
  BY <1>4, <1>6, <1>7
<1>9. \A i \in 1..n : old[i] = Chain[to][i]
  BY <1>2
<1>10. Rebuilt(n, from, to) = Chain[to]
       /\ n + Len(FirstParentCommits(from, to)) = Len(Chain[to])
  BY <1>1, <1>3, <1>5, <1>6, <1>7, <1>8, <1>9, RebuiltIsChain DEF old
<1> QED
  BY <1>2, <1>10 DEF to, n, from

---------------------------------------------------------------------------
(* Type correctness, one step per action.                                  *)

\* A worker that ends has the locals of a fresh one.
LEMMA IdleType == Idle \in Worker
BY WorkersAssumption DEF Idle, Worker, PCs, HeadOrNone, States, Pushes

\* A worker that took job i.
LEMMA TakenType ==
    ASSUME NEW i \in Pushes
    PROVE  [Idle EXCEPT !.pc = "prepare", !.job = i] \in Worker
<1>1. i \in 0..MaxPushes
  BY WorkersAssumption DEF Pushes
<1> QED
  BY <1>1, IdleType DEF Worker, PCs

\* Replacing one worker's locals.
LEMMA WkUpdate ==
    ASSUME TypeOK, NEW w \in Workers, NEW r \in Worker,
           wk' = [wk EXCEPT ![w] = r]
    PROVE  wk' \in [Workers -> Worker]
BY DEF TypeOK

\* Moving one worker's control point.
LEMMA GotoType ==
    ASSUME TypeOK, NEW w \in Workers, NEW pc \in PCs, Goto(w, pc)
    PROVE  wk' \in [Workers -> Worker]
<1>1. wk[w] \in Worker /\ wk \in [Workers -> Worker]
  BY DEF TypeOK
<1>2. [wk[w] EXCEPT !.pc = pc] \in Worker
  BY <1>1 DEF Worker
<1>3. wk' = [wk EXCEPT ![w] = [wk[w] EXCEPT !.pc = pc]]
  BY DEF Goto
<1> QED
  BY <1>2, <1>3, WkUpdate

\* Ending a round without covering.
LEMMA GiveUpTypes ==
    ASSUME TypeOK, NEW w \in Workers, GiveUp(w)
    PROVE  /\ wk' \in [Workers -> Worker]
           /\ intents' \in [Pushes -> {"none", "due", "leased", "done"}]
           /\ lock' \in Workers \cup {None} /\ mirrorLock' \in Workers \cup {Sweeper, None}
<1>1. wk' \in [Workers -> Worker]
  BY IdleType, WkUpdate DEF GiveUp
<1>2. intents' \in [Pushes -> {"none", "due", "leased", "done"}]
  BY DEF TypeOK, GiveUp
<1>3. lock' \in Workers \cup {None} /\ mirrorLock' \in Workers \cup {Sweeper, None}
  BY DEF TypeOK, GiveUp, Freed
<1> QED
  BY <1>1, <1>2, <1>3

\* Returning from assignSequence.
LEMMA ReturnTypes ==
    ASSUME TypeOK, NEW w \in Workers, Return(w)
    PROVE  /\ wk' \in [Workers -> Worker]
           /\ lock' \in Workers \cup {None} /\ mirrorLock' \in Workers \cup {Sweeper, None}
<1>1. wk' \in [Workers -> Worker]
  BY GotoType DEF Return, PCs
<1>2. lock' \in Workers \cup {None} /\ mirrorLock' \in Workers \cup {Sweeper, None}
  BY DEF TypeOK, Return, Freed
<1> QED
  BY <1>1, <1>2


\* What Rebuild writes has the right shape.
LEMMA RebuildTypes ==
    ASSUME TypeOK, HeadEndsRows, NEW n, NEW from, NEW new \in Heads,
           Rebuilt(n, from, new) \in Seq(Commits),
           n + Len(FirstParentCommits(from, new)) \in Nat,
           Rebuild(n, from, new)
    PROVE  rows' \in Seq(Seq(Commits)) /\ space' \in SpaceRow /\ works' \subseteq WorkRow
<1>1. space \in SpaceRow /\ works \subseteq WorkRow /\ rows \in Seq(Seq(Commits))
  BY DEF TypeOK
<1>2. space.seq_epoch + 1 \in Nat \ {0}
  BY <1>1 DEF SpaceRow
<1>3. rows' \in Seq(Seq(Commits))
  BY <1>1 DEF Rebuild
<1>4. space' \in SpaceRow
  BY <1>2 DEF Rebuild, SpaceRow, HeadOrNone, States
<1>5. works' \subseteq WorkRow
  BY <1>1, <1>2 DEF Rebuild, WorkRow, Request
<1> QED
  BY <1>3, <1>4, <1>5

\* A step of the branch keeps the types.
LEMMA EnvironmentTypes ==
    ASSUME TypeOK, Environment
    PROVE  TypeOK'
<1>1. ASSUME NEW c \in Heads, NEW p \in BOOLEAN, Push(c, p) PROVE TypeOK'
  BY <1>1, WorkersAssumption DEF TypeOK, Push, HeadOrNone, Pushes
<1>2. CASE DeleteBranch
  BY <1>2, WorkersAssumption DEF TypeOK, DeleteBranch, HeadOrNone
<1>3. CASE SweepLock \/ SweepSync
  BY <1>3 DEF TypeOK, SweepLock, SweepSync
<1> QED
  BY <1>1, <1>2, <1>3 DEF Environment

\* A worker's step keeps the types.
LEMMA WorkerTypes ==
    ASSUME IInv, NEW w \in Workers, WorkerStep(w)
    PROVE  TypeOK'
<1>1. TypeOK /\ wk[w] \in Worker /\ wk \in [Workers -> Worker]
  BY DEF IInv, TypeOK
<1>2. ASSUME NEW i \in Pushes, TakeEvent(w, i) PROVE TypeOK'
  <2>0. [Idle EXCEPT !.pc = "prepare", !.job = i] \in Worker
    BY TakenType
  <2>1. wk' \in [Workers -> Worker]
    BY <1>1, <1>2, <2>0, WkUpdate DEF TakeEvent
  <2> QED
    BY <1>1, <1>2, <2>1 DEF TypeOK, TakeEvent
<1>3. ASSUME NEW i \in Pushes, TakeIntent(w, i) PROVE TypeOK'
  <2>0. [Idle EXCEPT !.pc = "prepare", !.job = i] \in Worker
    BY TakenType
  <2>1. wk' \in [Workers -> Worker]
    BY <1>1, <1>3, <2>0, WkUpdate DEF TakeIntent
  <2> QED
    BY <1>1, <1>3, <2>1 DEF TypeOK, TakeIntent
<1>4. CASE PrepareApi(w)
  <2>0. [wk[w] EXCEPT !.pc = "assign", !.cover = Coverable(w)] \in Worker
    BY <1>1, <1>4 DEF TypeOK, Worker, PCs, Coverable
  <2>1. wk' \in [Workers -> Worker]
    BY <1>1, <1>4, <2>0, WkUpdate DEF PrepareApi
  <2> QED
    BY <1>1, <1>4, <2>1 DEF TypeOK, PrepareApi
<1>5. CASE PrepareMirror(w)
  <2>0. [wk[w] EXCEPT !.pc = "fetch", !.cover = Coverable(w)] \in Worker
    BY <1>1, <1>5 DEF TypeOK, Worker, PCs, Coverable
  <2>1. wk' \in [Workers -> Worker]
    BY <1>1, <1>5, <2>0, WkUpdate DEF PrepareMirror
  <2> QED
    BY <1>1, <1>5, <2>1 DEF TypeOK, PrepareMirror
<1>6. CASE PrepareBusy(w)
  BY <1>1, <1>6, GiveUpTypes DEF TypeOK, PrepareBusy
<1>7. CASE Fetch(w)
  <2>1. wk' \in [Workers -> Worker]
    BY <1>1, <1>7, GotoType DEF Fetch, PCs
  <2> QED
    BY <1>1, <1>7, <2>1 DEF TypeOK, Fetch
<1>8. CASE FetchFails(w)
  BY <1>1, <1>8, GiveUpTypes DEF TypeOK, FetchFails
<1>9. CASE AssignLock(w)
  <2>0. [wk[w] EXCEPT !.pc = "resolve", !.head = space.head_sha] \in Worker
    BY <1>1, <1>9 DEF TypeOK, Worker, PCs, SpaceRow
  <2>1. wk' \in [Workers -> Worker]
    BY <1>1, <1>9, <2>0, WkUpdate DEF AssignLock
  <2> QED
    BY <1>1, <1>9, <2>1 DEF TypeOK, AssignLock
<1>10. CASE AssignLocked(w)
  BY <1>1, <1>10, GiveUpTypes DEF TypeOK, AssignLocked
<1>11. CASE ResolveForward(w)
  <2>0. [wk[w] EXCEPT !.pc = "walk", !.new = GraphHead] \in Worker
    BY <1>1, <1>11 DEF TypeOK, Worker, PCs, GraphHead
  <2>1. wk' \in [Workers -> Worker]
    BY <1>1, <1>11, <2>0, WkUpdate DEF ResolveForward
  <2> QED
    BY <1>1, <1>11, <2>1 DEF TypeOK, ResolveForward
<1>12. CASE ResolveRewritten(w)
  <2>0. [wk[w] EXCEPT !.pc = "mark", !.new = GraphHead] \in Worker
    BY <1>1, <1>12 DEF TypeOK, Worker, PCs, GraphHead
  <2>1. wk' \in [Workers -> Worker]
    BY <1>1, <1>12, <2>0, WkUpdate DEF ResolveRewritten
  <2> QED
    BY <1>1, <1>12, <2>1 DEF TypeOK, ResolveRewritten
<1>13. CASE ResolveNoBranch(w)
  BY <1>1, <1>13, ReturnTypes DEF TypeOK, ResolveNoBranch
<1>14. CASE GraphFails(w)
  <2>1. wk' \in [Workers -> Worker]
    BY <1>1, <1>14, GotoType DEF GraphFails, PCs, Rollback
  <2> QED
    BY <1>1, <1>14, <2>1 DEF TypeOK, GraphFails, Rollback
<1>15. CASE Publish(w)
  BY <1>1, <1>15, ReturnTypes DEF TypeOK, Publish
<1>16. CASE PublishFails(w)
  BY <1>1, <1>16, GiveUpTypes DEF TypeOK, PublishFails
<1>17. CASE MarkStale(w)
  <2>0. space' \in SpaceRow
    BY <1>1, <1>17 DEF TypeOK, MarkStale, SpaceRow, States
  <2>1. /\ wk' \in [Workers -> Worker]
        /\ intents' \in [Pushes -> {"none", "due", "leased", "done"}]
        /\ lock' \in Workers \cup {None} /\ mirrorLock' \in Workers \cup {Sweeper, None}
    BY <1>1, <1>17, GiveUpTypes DEF MarkStale
  <2> QED
    BY <1>1, <1>17, <2>0, <2>1 DEF TypeOK, MarkStale
<1>18. CASE Cover(w)
  <2>1. wk' \in [Workers -> Worker]
    BY <1>1, <1>18, IdleType, WkUpdate DEF Cover
  <2> QED
    BY <1>1, <1>18, <2>1 DEF TypeOK, Cover
<1>19. CASE MarkReassigning(w)
  <2>0. space' \in SpaceRow
    BY <1>1, <1>19 DEF TypeOK, MarkReassigning, SpaceRow, States
  <2>1. wk' \in [Workers -> Worker]
    BY <1>1, <1>19, GotoType DEF MarkReassigning, PCs
  <2> QED
    BY <1>1, <1>19, <2>0, <2>1 DEF TypeOK, MarkReassigning
<1>20. CASE ReassignLocked(w)
  BY <1>1, <1>20, GiveUpTypes DEF TypeOK, ReassignLocked
<1>21. CASE ReassignHeadMoved(w)
  BY <1>1, <1>21, ReturnTypes DEF TypeOK, ReassignHeadMoved
<1>22. CASE ReassignLock(w)
  <2>1. wk' \in [Workers -> Worker]
    BY <1>1, <1>22, GotoType DEF ReassignLock, PCs
  <2> QED
    BY <1>1, <1>22, <2>1 DEF TypeOK, ReassignLock
<1>23. CASE RepairResolve(w)
  <2>0. [Idle EXCEPT !.pc = "r_space", !.new = GraphHead] \in Worker
    BY <1>1, <1>23, IdleType DEF TypeOK, Worker, PCs, GraphHead
  <2>1. wk' \in [Workers -> Worker]
    BY <1>1, <1>23, <2>0, WkUpdate DEF RepairResolve
  <2> QED
    BY <1>1, <1>23, <2>1 DEF TypeOK, RepairResolve
<1>24. CASE RepairReadSpace(w)
  <2>0. [wk[w] EXCEPT !.pc = "r_stored", !.head = space.head_sha,
                      !.epoch = space.seq_epoch, !.prior = space.state] \in Worker
    BY <1>1 DEF TypeOK, Worker, PCs, SpaceRow
  <2>1. wk' \in [Workers -> Worker]
    BY <1>1, <1>24, <2>0, IdleType, WkUpdate DEF RepairReadSpace
  <2> QED
    BY <1>1, <1>24, <2>1 DEF TypeOK, RepairReadSpace
<1>25. CASE RepairConsistent(w)
  <2>1. wk' \in [Workers -> Worker]
    BY <1>1, <1>25, IdleType, WkUpdate DEF RepairConsistent
  <2> QED
    BY <1>1, <1>25, <2>1 DEF TypeOK, RepairConsistent, Request, Worker, WorkRow
<1>26. CASE RepairMismatch(w)
  <2>0. PICK s \in DOMAIN rows[wk[w].epoch] :
          /\ IsFirst(s, Mismatches(rows[wk[w].epoch], Chain[wk[w].new]))
          /\ wk' = [wk EXCEPT ![w].pc = "r_lock", ![w].diverged = s]
    BY <1>26 DEF RepairMismatch
  <2>1. wk' \in [Workers -> Worker]
    <3>1. rows[wk[w].epoch] \in Seq(Commits)
      BY <1>1, <1>26 DEF IInv, Knows, RepairPCs, RepairMismatch, At, TypeOK
    <3>2. s \in Nat
      BY <2>0, <3>1
    <3>3. [wk[w] EXCEPT !.pc = "r_lock", !.diverged = s] \in Worker
      BY <1>1, <3>2 DEF Worker, PCs
    <3> QED
      BY <1>1, <2>0, <3>3, WkUpdate
  <2> QED
    BY <1>1, <1>26, <2>1 DEF TypeOK, RepairMismatch
<1>27. CASE RepairGraphFails(w)
  <2>1. wk' \in [Workers -> Worker]
    BY <1>1, <1>27, GotoType DEF RepairGraphFails, PCs
  <2> QED
    BY <1>1, <1>27, <2>1 DEF TypeOK, RepairGraphFails
<1>28. CASE RepairSkip(w)
  <2>1. wk' \in [Workers -> Worker]
    BY <1>1, <1>28, IdleType, WkUpdate DEF RepairSkip
  <2> QED
    BY <1>1, <1>28, <2>1 DEF TypeOK, RepairSkip
<1>29. CASE RepairLock(w)
  <2>1. wk' \in [Workers -> Worker]
    BY <1>1, <1>29, GotoType DEF RepairLock, PCs
  <2> QED
    BY <1>1, <1>29, <2>1 DEF TypeOK, RepairLock
<1>30. CASE RepairMark(w)
  <2>0. space' \in SpaceRow
    BY <1>1, <1>30 DEF TypeOK, RepairMark, SpaceRow, States
  <2>1. wk' \in [Workers -> Worker]
    BY <1>1, <1>30, GotoType DEF RepairMark, PCs
  <2> QED
    BY <1>1, <1>30, <2>0, <2>1 DEF TypeOK, RepairMark
<1>31. CASE RepairFence(w)
  <2>1. wk' \in [Workers -> Worker]
    BY <1>1, <1>31, GotoType DEF RepairFence, PCs, Rollback
  <2> QED
    BY <1>1, <1>31, <2>1 DEF TypeOK, RepairFence, Rollback
<1>32. CASE RepairRestore(w)
  <2>0. space' \in SpaceRow
    BY <1>1, <1>32 DEF TypeOK, RepairRestore, SpaceRow, States, Worker
  <2>1. wk' \in [Workers -> Worker]
    BY <1>1, <1>32, IdleType, WkUpdate DEF RepairRestore
  <2> QED
    BY <1>1, <1>32, <2>0, <2>1 DEF TypeOK, RepairRestore
<1>33. CASE Crash(w)
  BY <1>1, <1>33, GiveUpTypes DEF TypeOK, Crash
<1>34. CASE AssignCommit(w)
  <2>1. wk[w].new \in Heads /\ Assigned(w) \in Seq(Commits)
        /\ space.head_seq + Len(FirstParentCommits(wk[w].head, wk[w].new)) \in Nat
    BY <1>34, AssignFacts, CurrentRows DEF IInv
  <2>2. space.seq_epoch \in 1..Len(rows)
    BY CurrentRows DEF IInv
  <2>3. rows' \in Seq(Seq(Commits))
    BY <1>1, <1>34, <2>1, <2>2 DEF TypeOK, AssignCommit
  <2>4. space' \in SpaceRow
    BY <1>1, <1>34, <2>1 DEF TypeOK, AssignCommit, SpaceRow, HeadOrNone, States
  <2>5. works' \subseteq WorkRow
    BY <1>1, <1>34 DEF TypeOK, AssignCommit, SpaceRow, WorkRow, Request
  <2>6. wk' \in [Workers -> Worker]
    BY <1>1, <1>34, GotoType DEF AssignCommit, PCs
  <2> QED
    BY <1>1, <1>34, <2>3, <2>4, <2>5, <2>6 DEF TypeOK, AssignCommit
<1>35. ASSUME NEW base \in Commits \cup {None}, ReassignCommit(w, base) PROVE TypeOK'
  <2> DEFINE n == SeqOf(rows[space.seq_epoch], base)
             from == IF n = 0 THEN None ELSE base
  <2>1. /\ wk[w].new \in Heads
        /\ Rebuilt(n, from, wk[w].new) \in Seq(Commits)
        /\ n + Len(FirstParentCommits(from, wk[w].new)) \in Nat
    BY <1>35, ReassignFacts
  <2>2. Rebuild(n, from, wk[w].new) /\ Return(w)
        /\ UNCHANGED <<remote, mirror, pushes, events, intents>>
    BY <1>35 DEF ReassignCommit
  <2> HIDE DEF n, from
  <2>3. rows' \in Seq(Seq(Commits)) /\ space' \in SpaceRow /\ works' \subseteq WorkRow
    BY <2>1, <2>2, RebuildTypes DEF IInv
  <2> QED
    BY <1>1, <2>2, <2>3, ReturnTypes DEF TypeOK
<1>36. CASE RepairCommit(w)
  <2> DEFINE n == wk[w].diverged - 1
             from == IF n = 0 THEN None ELSE Chain[wk[w].new][n]
  <2>1. /\ wk[w].new \in Heads
        /\ Rebuilt(n, from, wk[w].new) = Chain[wk[w].new]
        /\ n + Len(FirstParentCommits(from, wk[w].new)) = Len(Chain[wk[w].new])
    BY <1>36, RepairFacts
  <2>2. Rebuild(n, from, wk[w].new) /\ lock' = None /\ wk' = [wk EXCEPT ![w] = Idle]
        /\ UNCHANGED <<remote, mirror, pushes, events, intents, mirrorLock>>
    BY <1>36 DEF RepairCommit
  <2> HIDE DEF n, from
  <2>3. Chain[wk[w].new] \in Seq(Commits) /\ Len(Chain[wk[w].new]) \in Nat
    BY <2>1, ChainFacts, HeadsAssumption
  <2>4. rows' \in Seq(Seq(Commits)) /\ space' \in SpaceRow /\ works' \subseteq WorkRow
    BY <2>1, <2>2, <2>3, RebuildTypes DEF IInv
  <2>5. wk' \in [Workers -> Worker]
    BY <1>1, <2>2, IdleType, WkUpdate
  <2> QED
    BY <1>1, <2>2, <2>4, <2>5 DEF TypeOK
<1> QED
  BY <1>1, <1>2, <1>3, <1>4, <1>5, <1>6, <1>7, <1>8, <1>9, <1>10, <1>11,
     <1>12, <1>13, <1>14, <1>15, <1>16, <1>17, <1>18, <1>19, <1>20, <1>21,
     <1>22, <1>23, <1>24, <1>25, <1>26, <1>27, <1>28, <1>29, <1>30, <1>31,
     <1>32, <1>33, <1>34, <1>35, <1>36
  DEF WorkerStep, AssignStep, ReassignStep, RepairStep

---------------------------------------------------------------------------
(* Only three steps touch the numbering.                                   *)

\* The rows and the three fields that describe them are left alone.
Kept ==
    /\ rows' = rows
    /\ space'.seq_epoch = space.seq_epoch
    /\ space'.head_sha = space.head_sha
    /\ space'.head_seq = space.head_seq

\* Everything a worker does keeps the numbering, except its commits.
LEMMA CommitOrKept ==
    ASSUME TypeOK, NEW w \in Workers, WorkerStep(w)
    PROVE  \/ Kept
           \/ AssignCommit(w)
           \/ \E base \in Commits \cup {None} : ReassignCommit(w, base)
           \/ RepairCommit(w)
<1>1. CASE MarkStale(w) \/ MarkReassigning(w) \/ RepairMark(w) \/ RepairRestore(w)
  <2>1. space \in SpaceRow
    BY DEF TypeOK
  <2>2. rows' = rows /\ (space' = space \/ \E s : space' = [space EXCEPT !.state = s])
    BY <1>1 DEF MarkStale, MarkReassigning, RepairMark, RepairRestore
  <2> QED
    BY <2>1, <2>2 DEF Kept, SpaceRow
<1>2. CASE UNCHANGED <<rows, space>>
  BY <1>2 DEF Kept
<1>3. CASE AssignStep(w)
  BY <1>2, <1>3 DEF AssignStep, TakeEvent, TakeIntent, PrepareApi, PrepareMirror,
     PrepareBusy, Fetch, FetchFails, AssignLock, AssignLocked, ResolveForward,
     ResolveRewritten, ResolveNoBranch, Publish, PublishFails, Cover
<1>4. CASE ReassignStep(w)
  BY <1>1, <1>2, <1>4 DEF ReassignStep, ReassignLocked, ReassignHeadMoved, ReassignLock
<1>5. CASE RepairStep(w)
  BY <1>1, <1>2, <1>5 DEF RepairStep, RepairResolve, RepairReadSpace, RepairConsistent,
     RepairMismatch, RepairGraphFails, RepairSkip, RepairLock, RepairFence
<1>6. CASE GraphFails(w) \/ Crash(w)
  BY <1>2, <1>6 DEF GraphFails, Crash
<1> QED
  BY <1>1, <1>3, <1>4, <1>5, <1>6 DEF WorkerStep

\* A step of the branch touches neither the numbering, nor a lock, nor a worker.
LEMMA EnvironmentKeeps ==
    ASSUME Environment
    PROVE  Kept /\ UNCHANGED <<lock, wk>>
BY DEF Environment, Push, DeleteBranch, SweepLock, SweepSync, Kept

\* An unchanged numbering has grown, trivially.
LEMMA KeptGrows ==
    ASSUME TypeOK, Kept
    PROVE  Grows
<1>1. rows \in Seq(Seq(Commits)) /\ rows' = rows
  BY DEF TypeOK, Kept
<1>2. Len(rows) \in Nat /\ \A e \in 1..Len(rows) : rows[e] \in Seq(Commits)
  BY <1>1
<1>3. \A e \in 1..Len(rows) : Len(rows[e]) \in Nat
  BY <1>2
<1> QED
  BY <1>1, <1>2, <1>3 DEF Grows

\* An unchanged numbering still ends at the stored head.
LEMMA KeptHead ==
    ASSUME HeadEndsRows, Kept
    PROVE  HeadEndsRows'
BY DEF HeadEndsRows, Kept

\* A new epoch leaves the older ones alone, and ends where Rebuild says.
LEMMA RebuildEffect ==
    ASSUME TypeOK, HeadEndsRows, NEW n, NEW from, NEW new \in Heads,
           Rebuilt(n, from, new) \in Seq(Commits),
           NEW m \in Nat, m = n + Len(FirstParentCommits(from, new)), m > 0,
           Len(Rebuilt(n, from, new)) = m,
           Rebuilt(n, from, new)[m] = new,
           Rebuild(n, from, new)
    PROVE  /\ Grows /\ HeadEndsRows'
           /\ rows'[space'.seq_epoch] = Rebuilt(n, from, new)
           /\ space'.head_sha = new
<1> DEFINE f == Rebuilt(n, from, new)
<1>1. rows \in Seq(Seq(Commits)) /\ Len(rows) \in Nat /\ space \in SpaceRow
      /\ space.seq_epoch = Len(rows)
  BY DEF TypeOK, HeadEndsRows
<1>2. rows' = Append(rows, f) /\ space'.seq_epoch = Len(rows) + 1
      /\ space'.head_sha = new /\ space'.head_seq = m
  BY <1>1 DEF Rebuild
<1> HIDE DEF f
<1>3. f \in Seq(Commits) /\ Len(f) = m /\ f[m] = new
  BY DEF f
<1>4. Len(rows') = Len(rows) + 1 /\ rows'[Len(rows) + 1] = f
      /\ \A e \in 1..Len(rows) : rows'[e] = rows[e]
  BY <1>1, <1>2, <1>3
<1>5. Grows
  <2>1. \A e \in 1..Len(rows) : Len(rows[e]) \in Nat
    BY <1>1
  <2> QED
    BY <1>1, <1>4, <2>1 DEF Grows
<1>6. HeadEndsRows'
  <2>1. DOMAIN f = 1..m
    BY <1>3
  <2>2. new # None
    BY HeadsAssumption
  <2> QED
    BY <1>2, <1>3, <1>4, <2>1, <2>2 DEF HeadEndsRows
<1> QED
  BY <1>2, <1>4, <1>5, <1>6 DEF f

\* The three commits: no row is lost, and the stored head ends the rows.
LEMMA CommitEffect ==
    ASSUME IInv, NEW w \in Workers,
           \/ AssignCommit(w)
           \/ \E base \in Commits \cup {None} : ReassignCommit(w, base)
           \/ RepairCommit(w)
    PROVE  Grows /\ HeadEndsRows'
<1>1. CASE AssignCommit(w)
  <2> DEFINE e == space.seq_epoch
             m == space.head_seq + Len(FirstParentCommits(wk[w].head, wk[w].new))
             f == Assigned(w)
  <2>1. e \in 1..Len(rows) /\ rows[e] \in Seq(Commits) /\ Len(rows[e]) = space.head_seq
        /\ space.head_seq \in Nat
    BY CurrentRows DEF IInv
  <2>2. /\ f \in Seq(Commits) /\ Len(f) = m /\ m > 0 /\ f[m] = wk[w].new
        /\ m \in Nat /\ m >= space.head_seq
        /\ \A i \in 1..space.head_seq : f[i] = rows[e][i]
        /\ wk[w].new \in Heads
    BY <1>1, <2>1, AssignFacts
  <2>3. rows' = [rows EXCEPT ![e] = f] /\ space'.seq_epoch = e
        /\ space'.head_sha = wk[w].new /\ space'.head_seq = m
    BY <1>1 DEF AssignCommit, IInv, TypeOK, SpaceRow
  <2>4. rows \in Seq(Seq(Commits)) /\ e = Len(rows) /\ Len(rows) \in Nat
    BY DEF IInv, TypeOK, HeadEndsRows
  <2> HIDE DEF e, m, f
  <2>5. Len(rows') = Len(rows) /\ rows'[e] = f
        /\ \A d \in 1..Len(rows) : d # e => rows'[d] = rows[d]
    BY <2>1, <2>2, <2>3, <2>4
  <2>6. \A d \in 1..Len(rows) : Len(rows[d]) \in Nat
    BY <2>4
  <2>7. Grows
    <3>1. Len(rows[e]) <= Len(f) /\ \A i \in 1..Len(rows[e]) : f[i] = rows[e][i]
      BY <2>1, <2>2
    <3>2. ASSUME NEW d \in 1..Len(rows)
          PROVE  /\ Len(rows[d]) <= Len(rows'[d])
                 /\ \A i \in 1..Len(rows[d]) : rows'[d][i] = rows[d][i]
      <4>1. CASE d = e
        BY <3>1, <4>1, <2>5, Zenon
      <4>2. CASE d # e
        <5>1. rows'[d] = rows[d]
          BY <4>2, <2>5
        <5>2. Len(rows[d]) <= Len(rows[d])
          BY <2>6
        <5> QED
          BY <5>1, <5>2, Zenon
      <4> QED
        BY <4>1, <4>2
    <3>3. Len(rows) <= Len(rows')
      BY <2>4, <2>5
    <3> QED
      BY <3>2, <3>3 DEF Grows
  <2>8. DOMAIN f = 1..m
    BY <2>2
  <2>9. wk[w].new # None
    BY <2>2, HeadsAssumption
  <2>10. HeadEndsRows'
    BY <2>2, <2>3, <2>4, <2>5, <2>8, <2>9 DEF HeadEndsRows
  <2> QED
    BY <2>7, <2>10
<1>2. ASSUME NEW base \in Commits \cup {None}, ReassignCommit(w, base)
      PROVE  Grows /\ HeadEndsRows'
  <2> DEFINE n == SeqOf(rows[space.seq_epoch], base)
             from == IF n = 0 THEN None ELSE base
             m == n + Len(FirstParentCommits(from, wk[w].new))
  <2>1. /\ wk[w].new \in Heads /\ m \in Nat /\ m > 0
        /\ Rebuilt(n, from, wk[w].new) \in Seq(Commits)
        /\ Len(Rebuilt(n, from, wk[w].new)) = m
        /\ Rebuilt(n, from, wk[w].new)[m] = wk[w].new
    BY <1>2, ReassignFacts
  <2>2. Rebuild(n, from, wk[w].new)
    BY <1>2 DEF ReassignCommit
  <2> HIDE DEF n, from
  <2> QED
    BY <2>1, <2>2, RebuildEffect DEF IInv
<1>3. CASE RepairCommit(w)
  <2> DEFINE n == wk[w].diverged - 1
             from == IF n = 0 THEN None ELSE Chain[wk[w].new][n]
             m == n + Len(FirstParentCommits(from, wk[w].new))
  <2>1. /\ wk[w].new \in Heads
        /\ Rebuilt(n, from, wk[w].new) = Chain[wk[w].new]
        /\ m = Len(Chain[wk[w].new])
    BY <1>3, RepairFacts
  <2>2. Rebuild(n, from, wk[w].new)
    BY <1>3 DEF RepairCommit
  <2> HIDE DEF n, from
  <2>3. /\ Chain[wk[w].new] \in Seq(Commits) /\ m \in Nat /\ m > 0
        /\ Chain[wk[w].new][m] = wk[w].new
    BY <2>1, ChainFacts, HeadsAssumption
  <2> QED
    BY <2>1, <2>2, <2>3, RebuildEffect DEF IInv
<1> QED
  BY <1>1, <1>2, <1>3

\* No step of the specification loses a row or parts the head from the rows.
LEMMA RowsStep ==
    ASSUME IInv, [Next]_vars
    PROVE  Grows /\ HeadEndsRows'
<1>1. TypeOK /\ HeadEndsRows
  BY DEF IInv
<1>2. CASE UNCHANGED vars
  <2>1. Kept
    BY <1>2 DEF vars, Kept
  <2> QED
    BY <1>1, <2>1, KeptGrows, KeptHead
<1>3. CASE Environment
  BY <1>1, <1>3, EnvironmentKeeps, KeptGrows, KeptHead
<1>4. ASSUME NEW w \in Workers, WorkerStep(w) PROVE Grows /\ HeadEndsRows'
  BY <1>1, <1>4, CommitOrKept, CommitEffect, KeptGrows, KeptHead
<1> QED
  BY <1>2, <1>3, <1>4 DEF Next


---------------------------------------------------------------------------
(* What the workers know.                                                  *)

UnderLock == {"resolve", "walk", "rewalk", "r_mark", "r_fence", "r_commit"}

\* AnalysisIsCurrent for one worker.
Current(w) ==
    /\ wk[w].pc \in UnderLock => lock = w /\ wk[w].head = space.head_sha
    /\ wk[w].pc \in {"r_mark", "r_fence", "r_commit"} => wk[w].epoch = space.seq_epoch

\* Control points at which nothing has to be known.
Plain == {"idle", "prepare", "fetch", "assign", "publish", "cover", "stale", "r_restore"}

\* At those a worker satisfies its part of the invariant.
LEMMA PlainKnows ==
    ASSUME NEW w, wk'[w].pc \in Plain
    PROVE  Knows(w)' /\ Current(w)'
BY DEF Plain, Knows, Current, UnderLock, RepairPCs

\* A worker's step leaves the other workers, and a lock one of them holds, alone;
\* while one of them holds the lock it keeps the numbering.
LEMMA OthersStep ==
    ASSUME IInv, NEW w \in Workers, WorkerStep(w), NEW x \in Workers, x # w
    PROVE  wk'[x] = wk[x] /\ (lock = x => lock' = x /\ Kept)
<1>1. TypeOK /\ wk \in [Workers -> Worker] /\ x # None
      /\ (wk[w].pc \in UnderLock => lock = w)
  BY WorkersAssumption DEF IInv, TypeOK, AnalysisIsCurrent, UnderLock, Workers, Assigners
<1>2. CASE AssignCommit(w) \/ (\E base \in Commits \cup {None} : ReassignCommit(w, base))
           \/ RepairCommit(w)
  BY <1>1, <1>2 DEF AssignCommit, ReassignCommit, RepairCommit, At, Goto, Return, UnderLock
<1>3. ASSUME ~ (AssignCommit(w) \/ (\E base \in Commits \cup {None} : ReassignCommit(w, base))
                \/ RepairCommit(w))
      PROVE  wk'[x] = wk[x] /\ (lock = x => lock' = x)
  <2>1. ASSUME NEW i \in Pushes, TakeEvent(w, i) PROVE wk'[x] = wk[x] /\ (lock = x => lock' = x)
    BY <1>1, <2>1 DEF TakeEvent
  <2>2. ASSUME NEW i \in Pushes, TakeIntent(w, i) PROVE wk'[x] = wk[x] /\ (lock = x => lock' = x)
    BY <1>1, <2>2 DEF TakeIntent
  <2>3. CASE PrepareApi(w)
    BY <1>1, <2>3 DEF PrepareApi
  <2>4. CASE PrepareMirror(w)
    BY <1>1, <2>4 DEF PrepareMirror
  <2>5. CASE PrepareBusy(w)
    BY <1>1, <2>5 DEF PrepareBusy, GiveUp, Freed
  <2>6. CASE Fetch(w)
    BY <1>1, <2>6 DEF Fetch, Goto
  <2>7. CASE FetchFails(w)
    BY <1>1, <2>7 DEF FetchFails, GiveUp, Freed
  <2>8. CASE AssignLock(w)
    BY <1>1, <2>8 DEF AssignLock
  <2>9. CASE AssignLocked(w)
    BY <1>1, <2>9 DEF AssignLocked, GiveUp, Freed
  <2>10. CASE ResolveForward(w)
    BY <1>1, <2>10 DEF ResolveForward
  <2>11. CASE ResolveRewritten(w)
    BY <1>1, <2>11 DEF ResolveRewritten, At, UnderLock
  <2>12. CASE ResolveNoBranch(w)
    BY <1>1, <2>12 DEF ResolveNoBranch, Return, Goto, Freed
  <2>13. CASE GraphFails(w)
    BY <1>1, <2>13 DEF GraphFails, Goto, Rollback, At, UnderLock
  <2>14. CASE Publish(w)
    BY <1>1, <2>14 DEF Publish, Return, Goto, Freed
  <2>15. CASE PublishFails(w)
    BY <1>1, <2>15 DEF PublishFails, GiveUp, Freed
  <2>16. CASE MarkStale(w)
    BY <1>1, <2>16 DEF MarkStale, GiveUp, Freed
  <2>17. CASE Cover(w)
    BY <1>1, <2>17 DEF Cover
  <2>18. CASE MarkReassigning(w)
    BY <1>1, <2>18 DEF MarkReassigning, Goto
  <2>19. CASE ReassignLocked(w)
    BY <1>1, <2>19 DEF ReassignLocked, GiveUp, Freed
  <2>20. CASE ReassignHeadMoved(w)
    BY <1>1, <2>20 DEF ReassignHeadMoved, Return, Goto, Freed
  <2>21. CASE ReassignLock(w)
    BY <1>1, <2>21 DEF ReassignLock, Goto
  <2>22. CASE RepairResolve(w)
    BY <1>1, <2>22 DEF RepairResolve
  <2>23. CASE RepairReadSpace(w)
    BY <1>1, <2>23 DEF RepairReadSpace
  <2>24. CASE RepairConsistent(w)
    BY <1>1, <2>24 DEF RepairConsistent
  <2>25. CASE RepairMismatch(w)
    BY <1>1, <2>25 DEF RepairMismatch
  <2>26. CASE RepairGraphFails(w)
    BY <1>1, <2>26 DEF RepairGraphFails, Goto
  <2>27. CASE RepairSkip(w)
    BY <1>1, <2>27 DEF RepairSkip
  <2>28. CASE RepairLock(w)
    BY <1>1, <2>28 DEF RepairLock, Goto
  <2>29. CASE RepairMark(w)
    BY <1>1, <2>29 DEF RepairMark, Goto
  <2>30. CASE RepairFence(w)
    BY <1>1, <2>30 DEF RepairFence, Rollback, Goto, At, UnderLock
  <2>31. CASE RepairRestore(w)
    BY <1>1, <2>31 DEF RepairRestore
  <2>32. CASE Crash(w)
    BY <1>1, <2>32 DEF Crash, GiveUp, Freed
  <2> QED
    BY <1>3, <2>1, <2>2, <2>3, <2>4, <2>5, <2>6, <2>7, <2>8, <2>9, <2>10, <2>11,
       <2>12, <2>13, <2>14, <2>15, <2>16, <2>17, <2>18, <2>19, <2>20, <2>21,
       <2>22, <2>23, <2>24, <2>25, <2>26, <2>27, <2>28, <2>29, <2>30, <2>31,
       <2>32
    DEF WorkerStep, AssignStep, ReassignStep, RepairStep
<1> QED
  BY <1>1, <1>2, <1>3, CommitOrKept

\* What a worker knows after its own step.
LEMMA SelfStep ==
    ASSUME IInv, NEW w \in Workers, WorkerStep(w)
    PROVE  Knows(w)' /\ Current(w)'
<1> USE DEF UnderLock, RepairPCs, Plain
<1>1. /\ TypeOK /\ wk \in [Workers -> Worker] /\ Knows(w) /\ Current(w)
      /\ wk[w] \in Worker
  BY DEF IInv, TypeOK, AnalysisIsCurrent, Current
<1>2. ASSUME NEW i \in Pushes, TakeEvent(w, i) PROVE Knows(w)' /\ Current(w)'
  <2>1. wk'[w].pc \in Plain
    BY <1>1, <1>2 DEF Worker, TakeEvent, Idle
  <2> QED
    BY <2>1, PlainKnows
<1>3. ASSUME NEW i \in Pushes, TakeIntent(w, i) PROVE Knows(w)' /\ Current(w)'
  <2>1. wk'[w].pc \in Plain
    BY <1>1, <1>3 DEF Worker, TakeIntent, Idle
  <2> QED
    BY <2>1, PlainKnows
<1>4. CASE PrepareApi(w)
  <2>1. wk'[w].pc \in Plain
    BY <1>1, <1>4 DEF Worker, PrepareApi
  <2> QED
    BY <2>1, PlainKnows
<1>5. CASE PrepareMirror(w)
  <2>1. wk'[w].pc \in Plain
    BY <1>1, <1>5 DEF Worker, PrepareMirror
  <2> QED
    BY <2>1, PlainKnows
<1>6. CASE PrepareBusy(w)
  <2>1. wk'[w].pc \in Plain
    BY <1>1, <1>6 DEF Worker, PrepareBusy, GiveUp, Idle
  <2> QED
    BY <2>1, PlainKnows
<1>7. CASE Fetch(w)
  <2>1. wk'[w].pc \in Plain
    BY <1>1, <1>7 DEF Worker, Fetch, Goto
  <2> QED
    BY <2>1, PlainKnows
<1>8. CASE FetchFails(w)
  <2>1. wk'[w].pc \in Plain
    BY <1>1, <1>8 DEF Worker, FetchFails, GiveUp, Idle
  <2> QED
    BY <2>1, PlainKnows
<1>9. CASE AssignLock(w)
  <2>1. wk'[w] = [wk[w] EXCEPT !.pc = "resolve", !.head = space.head_sha]
    BY <1>1, <1>9 DEF AssignLock
  <2> QED
    BY <1>1, <1>9, <2>1 DEF TypeOK, Worker, Knows, Current, At, AssignLock
<1>10. CASE AssignLocked(w)
  <2>1. wk'[w].pc \in Plain
    BY <1>1, <1>10 DEF Worker, AssignLocked, GiveUp, Idle
  <2> QED
    BY <2>1, PlainKnows
<1>11. CASE ResolveForward(w)
  <2>1. wk'[w] = [wk[w] EXCEPT !.pc = "walk", !.new = GraphHead]
    BY <1>1, <1>11 DEF ResolveForward
  <2> QED
    BY <1>1, <1>11, <2>1 DEF TypeOK, Worker, Knows, Current, At, ResolveForward, GraphHead, HeadOrNone
<1>12. CASE ResolveRewritten(w)
  <2>1. wk'[w] = [wk[w] EXCEPT !.pc = "mark", !.new = GraphHead]
    BY <1>1, <1>12 DEF ResolveRewritten
  <2> QED
    BY <1>1, <1>12, <2>1 DEF TypeOK, Worker, Knows, Current, At, ResolveRewritten, GraphHead, HeadOrNone
<1>13. CASE ResolveNoBranch(w)
  <2>1. wk'[w].pc \in Plain
    BY <1>1, <1>13 DEF Worker, ResolveNoBranch, Return, Goto
  <2> QED
    BY <2>1, PlainKnows
<1>14. CASE GraphFails(w)
  <2>1. wk'[w].pc \in Plain
    BY <1>1, <1>14 DEF Worker, GraphFails, Goto, Rollback
  <2> QED
    BY <2>1, PlainKnows
<1>15. CASE Publish(w)
  <2>1. wk'[w].pc \in Plain
    BY <1>1, <1>15 DEF Worker, Publish, Return, Goto
  <2> QED
    BY <2>1, PlainKnows
<1>16. CASE PublishFails(w)
  <2>1. wk'[w].pc \in Plain
    BY <1>1, <1>16 DEF Worker, PublishFails, GiveUp, Idle
  <2> QED
    BY <2>1, PlainKnows
<1>17. CASE MarkStale(w)
  <2>1. wk'[w].pc \in Plain
    BY <1>1, <1>17 DEF Worker, MarkStale, GiveUp, Idle
  <2> QED
    BY <2>1, PlainKnows
<1>18. CASE Cover(w)
  <2>1. wk'[w].pc \in Plain
    BY <1>1, <1>18 DEF Worker, Cover, Idle
  <2> QED
    BY <2>1, PlainKnows
<1>19. CASE MarkReassigning(w)
  <2>1. wk'[w] = [wk[w] EXCEPT !.pc = "relock"]
    BY <1>1, <1>19 DEF MarkReassigning, Goto
  <2> QED
    BY <1>1, <1>19, <2>1 DEF TypeOK, Worker, Knows, Current, At, MarkReassigning, SpaceRow
<1>20. CASE ReassignLocked(w)
  <2>1. wk'[w].pc \in Plain
    BY <1>1, <1>20 DEF Worker, ReassignLocked, GiveUp, Idle
  <2> QED
    BY <2>1, PlainKnows
<1>21. CASE ReassignHeadMoved(w)
  <2>1. wk'[w].pc \in Plain
    BY <1>1, <1>21 DEF Worker, ReassignHeadMoved, Return, Goto
  <2> QED
    BY <2>1, PlainKnows
<1>22. CASE ReassignLock(w)
  <2>1. wk'[w] = [wk[w] EXCEPT !.pc = "rewalk"]
    BY <1>1, <1>22 DEF ReassignLock, Goto
  <2> QED
    BY <1>1, <1>22, <2>1 DEF TypeOK, Worker, Knows, Current, At, ReassignLock
<1>23. CASE RepairResolve(w)
  <2>1. wk'[w] = [Idle EXCEPT !.pc = "r_space", !.new = GraphHead]
    BY <1>1, <1>23 DEF RepairResolve
  <2> QED
    BY <1>1, <1>23, <2>1 DEF TypeOK, Worker, Knows, Current, At, RepairResolve, GraphHead, HeadOrNone, Idle
<1>24. CASE RepairReadSpace(w)
  <2>1. CASE space.state = "absent"
    <3>1. wk'[w].pc \in Plain
      BY <1>1, <1>24, <2>1 DEF RepairReadSpace, Idle
    <3> QED
      BY <3>1, PlainKnows
  <2>2. CASE space.state # "absent"
    <3>1. wk'[w] = [wk[w] EXCEPT !.pc = "r_stored", !.head = space.head_sha,
                                 !.epoch = space.seq_epoch, !.prior = space.state]
      BY <1>1, <1>24, <2>2 DEF RepairReadSpace
    <3>2. space.seq_epoch \in 1..Len(rows) /\ rows' = rows
      BY <1>24, CurrentRows DEF IInv, RepairReadSpace
    <3> QED
      BY ZenonT(60), <1>1, <1>24, <3>1, <3>2 DEF Worker, Knows, Current, At, RepairReadSpace
  <2> QED
    BY <2>1, <2>2
<1>25. CASE RepairConsistent(w)
  <2>1. wk'[w].pc \in Plain
    BY <1>1, <1>25 DEF Worker, RepairConsistent, Idle
  <2> QED
    BY <2>1, PlainKnows
<1>26. CASE RepairMismatch(w)
  <2> DEFINE old == rows[wk[w].epoch]
             ch == Chain[wk[w].new]
  <2>1. PICK s \in DOMAIN old :
          /\ IsFirst(s, Mismatches(old, ch))
          /\ wk' = [wk EXCEPT ![w].pc = "r_lock", ![w].diverged = s]
    BY <1>26 DEF RepairMismatch
  <2>2. wk[w].new \in Heads /\ wk[w].epoch \in 1..Len(rows) /\ rows' = rows
    BY <1>1, <1>26 DEF Knows, RepairMismatch, At
  <2>3. old \in Seq(Commits) /\ Len(old) \in Nat /\ DOMAIN old = 1..Len(old)
    BY <1>1, <2>2 DEF TypeOK
  <2>4. wk'[w] = [wk[w] EXCEPT !.pc = "r_lock", !.diverged = s]
    BY <1>1, <2>1
  <2>5. Len(ch) \in Nat
    BY <2>2, ChainFacts, HeadsAssumption
  <2> HIDE DEF old, ch
  <2>6. \A i \in 1..(s - 1) : i <= Len(ch) /\ old[i] = ch[i]
    <3> SUFFICES ASSUME NEW i \in 1..(s - 1) PROVE i <= Len(ch) /\ old[i] = ch[i]
      OBVIOUS
    <3>1. i \in DOMAIN old /\ ~ (s <= i)
      BY <2>1, <2>3
    <3>2. i \notin Mismatches(old, ch)
      BY <2>1, <3>1 DEF IsFirst
    <3> QED
      BY <2>3, <2>5, <3>1, <3>2 DEF Mismatches
  <2>7. s \in 1..Len(old)
    BY <2>1, <2>3
  <2> QED
    BY <1>1, <2>2, <2>4, <2>6, <2>7 DEF Worker, Knows, Current, old, ch
<1>27. CASE RepairGraphFails(w)
  <2>1. wk'[w].pc \in Plain
    BY <1>1, <1>27 DEF Worker, RepairGraphFails, Goto
  <2> QED
    BY <2>1, PlainKnows
<1>28. CASE RepairSkip(w)
  <2>1. wk'[w].pc \in Plain
    BY <1>1, <1>28 DEF Worker, RepairSkip, Idle
  <2> QED
    BY <2>1, PlainKnows
<1>29. CASE RepairLock(w)
  <2>1. wk'[w] = [wk[w] EXCEPT !.pc = "r_mark"]
    BY <1>1, <1>29 DEF RepairLock, Goto
  <2> QED
    BY <1>1, <1>29, <2>1 DEF TypeOK, Worker, Knows, Current, At, RepairLock, RepairFenced
<1>30. CASE RepairMark(w)
  <2>1. wk'[w] = [wk[w] EXCEPT !.pc = "r_fence"]
    BY <1>1, <1>30 DEF RepairMark, Goto
  <2> QED
    BY <1>1, <1>30, <2>1 DEF TypeOK, Worker, Knows, Current, At, RepairMark, SpaceRow
<1>31. CASE RepairFence(w)
  <2>1. CASE GraphHead = wk[w].new
    <3>1. wk'[w] = [wk[w] EXCEPT !.pc = "r_commit"]
      BY <1>1, <1>31, <2>1 DEF RepairFence, Goto
    <3> QED
      BY <1>1, <1>31, <2>1, <3>1 DEF Worker, Knows, Current, At, RepairFence
  <2>2. CASE GraphHead # wk[w].new
    <3>1. wk'[w].pc \in Plain
      BY <1>1, <1>31, <2>2 DEF RepairFence, Rollback, Goto, Worker
    <3> QED
      BY <3>1, PlainKnows
  <2> QED
    BY <2>1, <2>2
<1>32. CASE RepairRestore(w)
  <2>1. wk'[w].pc \in Plain
    BY <1>1, <1>32 DEF Worker, RepairRestore, Idle
  <2> QED
    BY <2>1, PlainKnows
<1>33. CASE Crash(w)
  <2>1. wk'[w].pc \in Plain
    BY <1>1, <1>33 DEF Worker, Crash, GiveUp, Idle
  <2> QED
    BY <2>1, PlainKnows
<1>34. CASE AssignCommit(w)
  <2>1. wk'[w].pc \in Plain
    BY <1>1, <1>34 DEF Worker, AssignCommit, Goto
  <2> QED
    BY <2>1, PlainKnows
<1>35. CASE RepairCommit(w)
  <2>1. wk'[w].pc \in Plain
    BY <1>1, <1>35 DEF Worker, RepairCommit, Idle
  <2> QED
    BY <2>1, PlainKnows
<1>36. ASSUME NEW base \in Commits \cup {None}, ReassignCommit(w, base)
      PROVE  Knows(w)' /\ Current(w)'
  <2>1. wk'[w].pc \in Plain
    BY <1>1, <1>36 DEF Worker, ReassignCommit, Return, Goto
  <2> QED
    BY <2>1, PlainKnows
<1> QED
  BY <1>1, <1>2, <1>3, <1>4, <1>5, <1>6, <1>7, <1>8, <1>9, <1>10, <1>11,
     <1>12, <1>13, <1>14, <1>15, <1>16, <1>17, <1>18, <1>19, <1>20, <1>21,
     <1>22, <1>23, <1>24, <1>25, <1>26, <1>27, <1>28, <1>29, <1>30, <1>31,
     <1>32, <1>33, <1>34, <1>35, <1>36
  DEF WorkerStep, AssignStep, ReassignStep, RepairStep

\* What the workers knew stays true when the rows grow.
LEMMA KnowsGrow ==
    ASSUME TypeOK, NEW x \in Workers, Knows(x), wk'[x] = wk[x], Grows
    PROVE  Knows(x)'
<1>1. rows \in Seq(Seq(Commits)) /\ Len(rows) \in Nat /\ wk[x] \in Worker
  BY DEF TypeOK
<1>3. CASE wk[x].pc \in {"r_lock", "r_mark", "r_fence", "r_commit"}
  <2> DEFINE e == wk[x].epoch
             d == wk[x].diverged
  <2>1. e \in 1..Len(rows) /\ d \in 1..Len(rows[e]) /\ rows[e] \in Seq(Commits)
    BY <1>1, <1>3 DEF Knows, RepairPCs
  <2>2. Len(rows[e]) \in Nat /\ e \in 1..Len(rows)
    BY <2>1
  <2>3. /\ Len(rows) <= Len(rows') /\ Len(rows[e]) <= Len(rows'[e])
        /\ \A i \in 1..Len(rows[e]) : rows'[e][i] = rows[e][i]
    BY <2>1 DEF Grows
  <2>4. \A i \in 1..(d - 1) :
          i <= Len(Chain[wk[x].new]) /\ rows[e][i] = Chain[wk[x].new][i]
    BY <1>3 DEF Knows
  <2>5. wk[x].new \in Heads
    BY <1>3 DEF Knows, RepairPCs
  <2> HIDE DEF d
  <2>6. e \in 1..Len(rows')
    BY <1>1, <2>1, <2>3
  <2>7. d \in 1..Len(rows'[e])
    BY <2>1, <2>2, <2>3
  <2>8. \A i \in 1..(d - 1) :
          i <= Len(Chain[wk[x].new]) /\ rows'[e][i] = Chain[wk[x].new][i]
    BY <2>1, <2>2, <2>3, <2>4
  <2> QED
    BY <1>3, <2>5, <2>6, <2>7, <2>8 DEF Knows, RepairPCs, d
<1>4. CASE wk[x].pc \notin {"r_lock", "r_mark", "r_fence", "r_commit"}
  BY <1>1, <1>4 DEF Knows, RepairPCs, Grows
<1> QED
  BY <1>3, <1>4

\* The initial states satisfy the invariant.
LEMMA InitIInv == Init => IInv
<1> SUFFICES ASSUME Init PROVE IInv
  OBVIOUS
<1>1. rows \in Seq(Seq(Commits)) /\ Len(rows) = 1 /\ rows[1] = <<>>
  BY DEF Init
<1>2. TypeOK
  BY <1>1, IdleType, WorkersAssumption
  DEF Init, TypeOK, HeadOrNone, SpaceRow, States, WorkRow, Pushes
<1>3. HeadEndsRows
  <2>1. DOMAIN rows[1] = 1..0
    BY <1>1
  <2> QED
    BY <1>1, <2>1 DEF Init, HeadEndsRows
<1>4. \A w \in Workers : wk[w].pc = "idle"
  BY DEF Init, Idle
<1> QED
  BY <1>2, <1>3, <1>4 DEF IInv, AnalysisIsCurrent, Knows, RepairPCs

\* Every step keeps the invariant.
LEMMA NextIInv == IInv /\ [Next]_vars => IInv'
<1> SUFFICES ASSUME IInv, [Next]_vars PROVE IInv'
  OBVIOUS
<1>1. Grows /\ HeadEndsRows'
  BY RowsStep
<1>2. TypeOK /\ \A x \in Workers : Knows(x) /\ Current(x)
  BY DEF IInv, AnalysisIsCurrent, Current, UnderLock
<1>3. CASE UNCHANGED vars
  BY <1>3 DEF vars, IInv, TypeOK, HeadEndsRows, AnalysisIsCurrent, Knows
<1>4. CASE Environment
  <2>1. TypeOK'
    BY <1>2, <1>4, EnvironmentTypes
  <2>2. Kept /\ UNCHANGED <<lock, wk>>
    BY <1>4, EnvironmentKeeps
  <2>3. \A x \in Workers : Knows(x)'
    BY <1>1, <1>2, <2>2, KnowsGrow
  <2>4. AnalysisIsCurrent'
    BY <2>2 DEF IInv, AnalysisIsCurrent, Kept
  <2> QED
    BY <1>1, <2>1, <2>3, <2>4 DEF IInv
<1>5. ASSUME NEW w \in Workers, WorkerStep(w) PROVE IInv'
  <2>1. TypeOK'
    BY <1>5, WorkerTypes
  <2>2. ASSUME NEW x \in Workers PROVE Knows(x)' /\ Current(x)'
    <3>1. CASE x = w
      BY <1>5, <3>1, SelfStep
    <3>2. CASE x # w
      <4>1. wk'[x] = wk[x] /\ (lock = x => lock' = x /\ Kept)
        BY <1>5, <3>2, OthersStep
      <4>2. Knows(x)'
        BY <1>1, <1>2, <4>1, KnowsGrow
      <4>3. Current(x)'
        BY <1>2, <4>1 DEF Current, Kept, UnderLock
      <4> QED
        BY <4>2, <4>3
    <3> QED
      BY <3>1, <3>2
  <2>3. AnalysisIsCurrent'
    BY <2>2 DEF AnalysisIsCurrent, Current, UnderLock
  <2> QED
    BY <1>1, <2>1, <2>2, <2>3 DEF IInv
<1> QED
  BY <1>3, <1>4, <1>5 DEF Next

---------------------------------------------------------------------------
(* The theorems.                                                           *)

\* The invariant is one of every behaviour.
THEOREM Invariance == Spec => []IInv
BY InitIInv, NextIInv, PTL DEF Spec

\* Every epoch is a gapless sequence of commits and every table row and local
\* variable has its shape (the sequence_space and merge_sequence tables).
THEOREM TypeCorrect == Spec => []TypeOK
<1>1. IInv => TypeOK
  BY DEF IInv
<1> QED
  BY <1>1, Invariance, PTL

\* The current epoch numbers 1..head_seq and the stored head has the last
\* number, whatever assignment, reassignment, repair and crashes interleave.
THEOREM HeadMatchesRows == Spec => []HeadEndsRows
<1>1. IInv => HeadEndsRows
  BY DEF IInv
<1> QED
  BY <1>1, Invariance, PTL

\* A worker that holds the space's lock computes with the stored head and
\* epoch: the fences of reassignSequence and repairSequence are enough.
THEOREM NoStaleAnalysis == Spec => []AnalysisIsCurrent
<1>1. IInv => AnalysisIsCurrent
  BY DEF IInv
<1> QED
  BY <1>1, Invariance, PTL

\* No step removes a row or points a number of any epoch at another commit.
THEOREM RowsNeverChange == Spec => RowsAppendOnly
<1>1. ASSUME IInv, IInv', [Next]_vars
      PROVE  [\A e \in 1..Len(rows) : \A s \in DOMAIN rows[e] :
                /\ e \in 1..Len(rows') /\ s \in DOMAIN rows'[e]
                /\ rows'[e][s] = rows[e][s]]_vars
  <2>1. Grows
    BY <1>1, RowsStep
  <2>2. rows \in Seq(Seq(Commits)) /\ rows' \in Seq(Seq(Commits))
    BY <1>1 DEF IInv, TypeOK
  <2>3. ASSUME NEW e \in 1..Len(rows), NEW s \in DOMAIN rows[e]
        PROVE  /\ e \in 1..Len(rows') /\ s \in DOMAIN rows'[e]
               /\ rows'[e][s] = rows[e][s]
    <3>1. e \in 1..Len(rows')
      BY <2>1, <2>2 DEF Grows
    <3>2. rows[e] \in Seq(Commits) /\ rows'[e] \in Seq(Commits)
      BY <2>2, <3>1
    <3>3. s \in 1..Len(rows[e])
      BY <3>2
    <3>4. Len(rows[e]) <= Len(rows'[e]) /\ rows'[e][s] = rows[e][s]
      BY <2>1, <3>3 DEF Grows
    <3>5. s \in DOMAIN rows'[e]
      BY <3>2, <3>3, <3>4
    <3> QED
      BY <3>1, <3>4, <3>5
  <2> QED
    BY <2>3
<1> QED
  BY <1>1, Invariance, PTL DEF Spec, RowsAppendOnly

\* A repair that commits leaves git's first-parent chain, whatever history
\* produced the numbering it replaced.
THEOREM RepairIsRight == Spec => RepairYieldsChain
<1>1. ASSUME IInv
      PROVE  [\A w \in Repairers : RepairCommit(w) =>
                rows'[space'.seq_epoch] = Chain[space'.head_sha]]_vars
  <2> SUFFICES ASSUME NEW w \in Repairers, RepairCommit(w)
               PROVE  rows'[space'.seq_epoch] = Chain[space'.head_sha]
    OBVIOUS
  <2> DEFINE n == wk[w].diverged - 1
             from == IF n = 0 THEN None ELSE Chain[wk[w].new][n]
  <2>1. w \in Workers
    BY DEF Workers
  <2>2. /\ wk[w].new \in Heads
        /\ Rebuilt(n, from, wk[w].new) = Chain[wk[w].new]
    BY <1>1, <2>1, RepairFacts
  <2>3. Rebuild(n, from, wk[w].new)
    BY DEF RepairCommit
  <2> HIDE DEF n, from
  <2>4. rows \in Seq(Seq(Commits)) /\ space.seq_epoch = Len(rows)
    BY <1>1 DEF IInv, TypeOK, HeadEndsRows
  <2> QED
    BY <2>2, <2>3, <2>4 DEF Rebuild
<1> QED
  BY <1>1, Invariance, PTL DEF RepairYieldsChain

---------------------------------------------------------------------------
(* The numbering is git's chain unless the mirror meets a foxtrot merge.   *)

\* A commit on a chain is where its own chain ends on it.
LEMMA OnChainPrefix ==
    ASSUME NEW a \in Commits, NEW c \in Commits, OnChain(a, c)
    PROVE  /\ Len(Chain[a]) \in 1..Len(Chain[c])
           /\ Chain[c][Len(Chain[a])] = a
           /\ \A i \in 1..Len(Chain[a]) : Chain[a][i] = Chain[c][i]
<1>1. PICK i \in 1..Len(Chain[c]) : Chain[c][i] = a
  BY DEF OnChain
<1>2. Chain[a] = SubSeq(Chain[c], 1, i) /\ Chain[c] \in Seq(Commits) /\ Len(Chain[c]) \in Nat
  BY <1>1, ChainFacts
<1>3. Len(Chain[a]) = i /\ \A j \in 1..i : Chain[a][j] = Chain[c][j]
  BY <1>2
<1> QED
  BY <1>1, <1>3

\* A forward assignment extends the chain of the old head to that of the new.
LEMMA AssignChain ==
    ASSUME IInv, NumberingIsChain, FoxtrotFree \/ GraphMode = "api",
           NEW w \in Workers, AssignCommit(w)
    PROVE  Assigned(w) = Chain[wk[w].new]
<1> DEFINE from == wk[w].head
           to == wk[w].new
           b == space.head_seq
           walk == FirstParentCommits(from, to)
           f == Assigned(w)
<1>1. /\ to \in Heads /\ f \in Seq(Commits) /\ Len(f) = b + Len(walk)
      /\ \A i \in 1..b : f[i] = rows[space.seq_epoch][i]
      /\ \A i \in 1..Len(walk) : f[b + i] = walk[i]
  BY AssignFacts
<1>2. /\ from = space.head_sha /\ from \in HeadOrNone
      /\ from = None \/ IsAncestor(from, to)
      /\ ~ ChainBroken(from, to)
  BY DEF IInv, AnalysisIsCurrent, Knows, TypeOK, SpaceRow, AssignCommit, At
<1>3. to \in Commits /\ from \in Commits \cup {None}
  BY <1>1, <1>2, HeadsAssumption DEF HeadOrNone
<1>4. b \in Nat /\ Len(rows[space.seq_epoch]) = b
  BY CurrentRows DEF IInv
<1>5. CASE from = None
  <2>1. b = 0
    BY <1>2, <1>5 DEF IInv, HeadEndsRows
  <2>2. 0 \in 0..Len(Chain[to])
    BY <1>3, ChainFacts
  <2> HIDE DEF from, to, b, f
  <2> QED
    BY <1>1, <1>3, <1>5, <2>1, <2>2, PrefixAndWalk DEF walk, to, f
<1>6. CASE from # None
  <2>1. OnChain(from, to)
    BY <1>1, <1>2, <1>6 DEF FoxtrotFree, ChainBroken, HeadOrNone
  <2>2. rows[space.seq_epoch] = Chain[from] /\ b = Len(Chain[from])
    BY <1>2, <1>4, <1>6 DEF NumberingIsChain
  <2>3. /\ b \in 1..Len(Chain[to]) /\ Chain[to][b] = from
        /\ \A i \in 1..b : Chain[from][i] = Chain[to][i]
    BY <1>3, <1>6, <2>1, <2>2, OnChainPrefix
  <2>4. Len(Chain[to]) \in Nat
    BY <1>3, ChainFacts
  <2>5. \A i \in 1..b : f[i] = Chain[to][i]
    BY <1>1, <2>2, <2>3
  <2> HIDE DEF from, to, b, f
  <2>6. b \in 0..Len(Chain[to]) /\ b # 0
    BY <2>3, <2>4
  <2>7. f = Chain[to]
    BY <1>1, <1>3, <2>3, <2>5, <2>6, PrefixAndWalk DEF walk
  <2> QED
    BY <2>7 DEF f, to
<1> QED
  BY <1>5, <1>6

\* A reassignment keeps the common prefix and continues with the new chain.
LEMMA ReassignChain ==
    ASSUME IInv, NumberingIsChain, FoxtrotFree \/ GraphMode = "api",
           NEW w \in Workers, NEW base \in Commits \cup {None},
           ReassignCommit(w, base)
    PROVE  LET n == SeqOf(rows[space.seq_epoch], base)
               from == IF n = 0 THEN None ELSE base
           IN Rebuilt(n, from, wk[w].new) = Chain[wk[w].new]
<1> DEFINE old == rows[space.seq_epoch]
           n == SeqOf(old, base)
           from == IF n = 0 THEN None ELSE base
           to == wk[w].new
           head == wk[w].head
<1>1. old \in Seq(Commits) /\ Len(old) \in Nat
  BY CurrentRows DEF IInv
<1>2. /\ to \in Heads /\ head \in Heads /\ base \in MergeBases(head, to)
      /\ head = space.head_sha /\ ~ ChainBroken(from, to)
  BY DEF IInv, Knows, AnalysisIsCurrent, ReassignCommit, At
<1>3. to \in Commits /\ head \in Commits /\ head # None
  BY <1>2, HeadsAssumption
<1>4. old = Chain[head]
  BY <1>2, <1>3 DEF NumberingIsChain
<1>5. n \in 0..Len(old) /\ (n # 0 => old[n] = base)
  BY <1>1, SeqOfFacts
<1>6. /\ from \in Commits \cup {None}
      /\ n = 0 => from = None
      /\ n # 0 => from = base
  OBVIOUS
<1>7. Len(Chain[to]) \in Nat
  BY <1>3, ChainFacts
<1> HIDE DEF n, from, old, to, head
<1>8. CASE n = 0
  <2>1. n \in 0..Len(Chain[to]) /\ \A i \in 1..n : old[i] = Chain[to][i]
    BY <1>7, <1>8
  <2>2. Rebuilt(n, from, to) = Chain[to]
    BY <1>1, <1>3, <1>5, <1>6, <1>8, <2>1, RebuiltIsChain DEF old
  <2> QED
    BY <2>2 DEF n, from, old, to
<1>9. CASE n # 0
  <2>1. n \in 1..Len(Chain[head]) /\ Chain[head][n] = base
    BY <1>1, <1>4, <1>5, <1>9
  <2>2. base \in Commits /\ OnChain(base, head)
    BY <1>3, <2>1, ChainFacts DEF OnChain
  <2>3. base # None
    BY <2>2, HeadsAssumption
  <2>4. OnChain(base, to)
    BY <1>2, <1>6, <1>9, <2>2, <2>3 DEF FoxtrotFree, ChainBroken
  <2>5. /\ Len(Chain[base]) \in 1..Len(Chain[to]) /\ Chain[to][Len(Chain[base])] = base
        /\ \A i \in 1..Len(Chain[base]) : Chain[base][i] = Chain[to][i]
    BY <1>3, <2>2, <2>4, OnChainPrefix
  <2>6. Chain[base] = SubSeq(Chain[head], 1, n) /\ Chain[head] \in Seq(Commits)
        /\ Len(Chain[head]) \in Nat
    BY <1>3, <2>1, ChainFacts
  <2>7. Len(Chain[base]) = n /\ \A i \in 1..n : Chain[base][i] = Chain[head][i]
    BY <2>1, <2>6
  <2>8. n \in 0..Len(Chain[to]) /\ \A i \in 1..n : old[i] = Chain[to][i]
    BY <1>4, <1>7, <2>5, <2>7
  <2>9. from = Chain[to][n]
    BY <1>6, <1>9, <2>5, <2>7
  <2>10. Rebuilt(n, from, to) = Chain[to]
    BY <1>1, <1>3, <1>5, <1>6, <1>9, <2>8, <2>9, RebuiltIsChain DEF old
  <2> QED
    BY <2>10 DEF n, from, old, to
<1> QED
  BY <1>8, <1>9

\* What Rebuild makes current.
LEMMA RebuildCurrent ==
    ASSUME TypeOK, HeadEndsRows, NEW n, NEW from, NEW new, Rebuild(n, from, new)
    PROVE  rows'[space'.seq_epoch] = Rebuilt(n, from, new) /\ space'.head_sha = new
<1>1. rows \in Seq(Seq(Commits)) /\ space.seq_epoch = Len(rows)
  BY DEF TypeOK, HeadEndsRows
<1> QED
  BY <1>1 DEF Rebuild

\* The product's claim, with the exact condition under which the code keeps
\* it: the API walk refuses a range that leaves the first-parent chain, the
\* mirror's `git rev-list from..to' does not, so there the history must be
\* free of foxtrot merges.
THEOREM NumbersAreTheChain ==
    ASSUME FoxtrotFree \/ GraphMode = "api"
    PROVE  Spec => []NumberingIsChain
<1>1. Init => NumberingIsChain
  BY DEF Init, NumberingIsChain
<1>2. ASSUME IInv, NumberingIsChain, [Next]_vars PROVE NumberingIsChain'
  <2>1. ASSUME Kept PROVE NumberingIsChain'
    BY <1>2, <2>1 DEF NumberingIsChain, Kept
  <2>2. CASE UNCHANGED vars
    BY <2>1, <2>2 DEF vars, Kept
  <2>3. CASE Environment
    BY <2>1, <2>3, EnvironmentKeeps
  <2>4. ASSUME NEW w \in Workers, AssignCommit(w) PROVE NumberingIsChain'
    <3>1. Assigned(w) = Chain[wk[w].new]
      BY <1>2, <2>4, AssignChain
    <3>2. rows \in Seq(Seq(Commits)) /\ space.seq_epoch \in 1..Len(rows)
      BY <1>2, CurrentRows DEF IInv, TypeOK
    <3>3. rows'[space.seq_epoch] = Assigned(w) /\ space'.seq_epoch = space.seq_epoch
          /\ space'.head_sha = wk[w].new
      BY <1>2, <2>4, <3>2 DEF AssignCommit, IInv, TypeOK, SpaceRow
    <3> QED
      BY <3>1, <3>3 DEF NumberingIsChain
  <2>5. ASSUME NEW w \in Workers, NEW base \in Commits \cup {None},
               ReassignCommit(w, base)
        PROVE  NumberingIsChain'
    <3> DEFINE n == SeqOf(rows[space.seq_epoch], base)
               from == IF n = 0 THEN None ELSE base
    <3>1. Rebuilt(n, from, wk[w].new) = Chain[wk[w].new]
      BY <1>2, <2>5, ReassignChain
    <3>2. Rebuild(n, from, wk[w].new)
      BY <2>5 DEF ReassignCommit
    <3> HIDE DEF n, from
    <3> QED
      BY <1>2, <3>1, <3>2, RebuildCurrent DEF NumberingIsChain, IInv
  <2>6. ASSUME NEW w \in Workers, RepairCommit(w) PROVE NumberingIsChain'
    <3> DEFINE n == wk[w].diverged - 1
               from == IF n = 0 THEN None ELSE Chain[wk[w].new][n]
    <3>1. Rebuilt(n, from, wk[w].new) = Chain[wk[w].new]
      BY <1>2, <2>6, RepairFacts
    <3>2. Rebuild(n, from, wk[w].new)
      BY <2>6 DEF RepairCommit
    <3> HIDE DEF n, from
    <3> QED
      BY <1>2, <3>1, <3>2, RebuildCurrent DEF NumberingIsChain, IInv
  <2>7. ASSUME NEW w \in Workers, WorkerStep(w) PROVE NumberingIsChain'
    BY <1>2, <2>1, <2>4, <2>5, <2>6, <2>7, CommitOrKept DEF IInv
  <2> QED
    BY <1>2, <2>2, <2>3, <2>7 DEF Next
<1> QED
  BY <1>1, <1>2, Invariance, PTL DEF Spec

---------------------------------------------------------------------------
(* The durable work that goes with the rows.                               *)

\* Numbering deletes no request: sequence_work rows end in their own runner.
LEMMA WorksGrow ==
    ASSUME [Next]_vars
    PROVE  works \subseteq works'
<1>1. CASE UNCHANGED works
  BY <1>1
<1>2. CASE UNCHANGED vars
  BY <1>2 DEF vars
<1>3. CASE Environment
  BY <1>3 DEF Environment, Push, DeleteBranch, SweepLock, SweepSync
<1>4. ASSUME NEW w \in Workers, WorkerStep(w) PROVE works \subseteq works'
  <2>1. CASE AssignCommit(w)
    BY <2>1 DEF AssignCommit
  <2>2. CASE \E base \in Commits \cup {None} : ReassignCommit(w, base)
    BY <2>2 DEF ReassignCommit, Rebuild
  <2>3. CASE RepairCommit(w)
    BY <2>3 DEF RepairCommit, Rebuild
  <2>4. CASE RepairConsistent(w)
    BY <2>4 DEF RepairConsistent
  <2>5. CASE AssignStep(w)
    BY <1>1, <2>1, <2>5 DEF AssignStep, TakeEvent, TakeIntent, PrepareApi,
       PrepareMirror, PrepareBusy, Fetch, FetchFails, AssignLock, AssignLocked,
       ResolveForward, ResolveRewritten, ResolveNoBranch, Publish, PublishFails, Cover
  <2>6. CASE ReassignStep(w)
    BY <1>1, <2>2, <2>6 DEF ReassignStep, MarkReassigning, ReassignLocked,
       ReassignHeadMoved, ReassignLock
  <2>7. CASE RepairStep(w)
    BY <1>1, <2>3, <2>4, <2>7 DEF RepairStep, RepairResolve, RepairReadSpace,
       RepairMismatch, RepairGraphFails, RepairSkip, RepairLock, RepairMark,
       RepairFence, RepairRestore
  <2>8. CASE GraphFails(w) \/ MarkStale(w) \/ Crash(w)
    BY <1>1, <2>8 DEF GraphFails, MarkStale, Crash
  <2> QED
    BY <1>4, <2>5, <2>6, <2>7, <2>8 DEF WorkerStep
<1> QED
  BY <1>2, <1>3, <1>4 DEF Next

\* What is requested for one epoch.
Owed(e) ==
    /\ Request("reconcile", e) \in works
    /\ Request("tail", e) \in works \/ Request("full", e) \in works

\* A new epoch is committed with its requests; the older ones keep theirs.
LEMMA RebuildRequests ==
    ASSUME TypeOK, HeadEndsRows, RowsHaveWork, NEW n, NEW from, NEW new,
           Rebuilt(n, from, new) \in Seq(Commits), Rebuild(n, from, new)
    PROVE  RowsHaveWork'
<1> DEFINE f == Rebuilt(n, from, new)
<1>1. rows \in Seq(Seq(Commits)) /\ Len(rows) \in Nat /\ space.seq_epoch = Len(rows)
  BY DEF TypeOK, HeadEndsRows
<1>2. rows' = Append(rows, f) /\ works \subseteq works'
      /\ Request("reconcile", Len(rows) + 1) \in works'
      /\ Request("full", Len(rows) + 1) \in works'
  BY <1>1 DEF Rebuild
<1> HIDE DEF f
<1>3. f \in Seq(Commits)
  BY DEF f
<1>4. Len(rows') = Len(rows) + 1 /\ \A e \in 1..Len(rows) : rows'[e] = rows[e]
  BY <1>1, <1>2, <1>3
<1>5. ASSUME NEW e \in 1..Len(rows'), DOMAIN rows'[e] # {}
      PROVE  Owed(e)'
  <2>1. CASE e = Len(rows) + 1
    BY <1>2, <2>1 DEF Owed, Request
  <2>2. CASE e \in 1..Len(rows)
    BY <1>2, <1>4, <1>5, <2>2 DEF RowsHaveWork, Owed, Request
  <2> QED
    BY <1>1, <1>4, <2>1, <2>2
<1> QED
  BY <1>5 DEF RowsHaveWork, Owed

\* A forward assignment that adds rows requests their work with them; one that
\* adds none leaves the epoch as it was.
LEMMA AssignRequests ==
    ASSUME IInv, RowsHaveWork, NEW w \in Workers, AssignCommit(w)
    PROVE  RowsHaveWork'
<1> DEFINE e == space.seq_epoch
           walk == FirstParentCommits(wk[w].head, wk[w].new)
           f == Assigned(w)
<1>1. /\ e \in 1..Len(rows) /\ rows[e] \in Seq(Commits)
      /\ Len(rows[e]) = space.head_seq /\ space.head_seq \in Nat
      /\ rows \in Seq(Seq(Commits))
  BY CurrentRows DEF IInv, TypeOK
<1>2. f \in Seq(Commits) /\ Len(f) = space.head_seq + Len(walk)
  BY AssignFacts
<1>3. /\ rows' = [rows EXCEPT ![e] = f]
      /\ works' = works \cup {Request("reconcile", e)}
                        \cup (IF walk = <<>> THEN {} ELSE {Request("tail", e)})
  BY DEF AssignCommit
<1> HIDE DEF e, walk, f
<1>4. Len(rows') = Len(rows) /\ rows'[e] = f
      /\ \A d \in 1..Len(rows) : d # e => rows'[d] = rows[d]
  BY <1>1, <1>2, <1>3
<1>5. ASSUME NEW d \in 1..Len(rows'), DOMAIN rows'[d] # {}
      PROVE  Owed(d)'
  <2>1. CASE d # e
    BY <1>3, <1>4, <1>5, <2>1 DEF RowsHaveWork, Owed, Request
  <2>2. CASE d = e /\ walk # <<>>
    BY <1>3, <2>2 DEF Owed, Request
  <2>3. CASE d = e /\ walk = <<>>
    <3>1. Len(f) = Len(rows[e])
      BY <1>1, <1>2, <2>3
    <3>2. DOMAIN rows[e] # {}
      BY <1>1, <1>2, <1>4, <1>5, <2>3, <3>1
    <3> QED
      BY <1>1, <1>3, <2>3, <3>2 DEF RowsHaveWork, Owed, Request
  <2> QED
    BY <2>1, <2>2, <2>3
<1> QED
  BY <1>5 DEF RowsHaveWork, Owed

\* A crash right after any commit loses no derived view: every epoch that
\* numbers a commit has its M reconciliation and its projection requested in
\* the same transaction, and no step of the numbering takes a request back.
THEOREM WorkGoesWithRows == Spec => []RowsHaveWork
<1>1. Init => RowsHaveWork
  BY DEF Init, RowsHaveWork
<1>2. ASSUME IInv, RowsHaveWork, [Next]_vars PROVE RowsHaveWork'
  <2>1. ASSUME Kept PROVE RowsHaveWork'
    <3>1. works \subseteq works'
      BY <1>2, WorksGrow
    <3> QED
      BY <1>2, <2>1, <3>1 DEF RowsHaveWork, Kept, Request
  <2>2. CASE UNCHANGED vars
    BY <2>1, <2>2 DEF vars, Kept
  <2>3. CASE Environment
    BY <2>1, <2>3, EnvironmentKeeps
  <2>4. ASSUME NEW w \in Workers, NEW base \in Commits \cup {None},
               ReassignCommit(w, base)
        PROVE  RowsHaveWork'
    <3> DEFINE n == SeqOf(rows[space.seq_epoch], base)
               from == IF n = 0 THEN None ELSE base
    <3>1. Rebuilt(n, from, wk[w].new) \in Seq(Commits)
      BY <1>2, <2>4, ReassignFacts
    <3>2. Rebuild(n, from, wk[w].new)
      BY <2>4 DEF ReassignCommit
    <3> HIDE DEF n, from
    <3> QED
      BY <1>2, <3>1, <3>2, RebuildRequests DEF IInv
  <2>5. ASSUME NEW w \in Workers, RepairCommit(w) PROVE RowsHaveWork'
    <3> DEFINE n == wk[w].diverged - 1
               from == IF n = 0 THEN None ELSE Chain[wk[w].new][n]
    <3>1. wk[w].new \in Heads /\ Rebuilt(n, from, wk[w].new) = Chain[wk[w].new]
      BY <1>2, <2>5, RepairFacts
    <3>2. Rebuild(n, from, wk[w].new)
      BY <2>5 DEF RepairCommit
    <3> HIDE DEF n, from
    <3>3. Rebuilt(n, from, wk[w].new) \in Seq(Commits)
      BY <3>1, ChainFacts, HeadsAssumption
    <3> QED
      BY <1>2, <3>2, <3>3, RebuildRequests DEF IInv
  <2>6. ASSUME NEW w \in Workers, WorkerStep(w) PROVE RowsHaveWork'
    BY <1>2, <2>1, <2>4, <2>5, <2>6, AssignRequests, CommitOrKept DEF IInv
  <2> QED
    BY <1>2, <2>2, <2>3, <2>6 DEF Next
<1> QED
  BY <1>1, <1>2, Invariance, PTL DEF Spec

---------------------------------------------------------------------------
(* Over the mirror no push is forgotten.                                   *)

\* Control points of a round that has fetched and holds the mirror lock.
Fetched == {"assign", "resolve", "walk", "publish", "mark", "relock", "rewalk"}

\* No repair is about to commit a head that the mirror has left behind.
RepairsAgree == \A r \in Workers : wk[r].pc = "r_commit" => wk[r].new = mirror

\* The branch's head is fetched and stored, and will stay so.
Settled == mirror = remote /\ space.head_sha = remote /\ RepairsAgree

\* A round keeps the mirror as it fetched it, and works with its head.
HoldsMirror(w) ==
    /\ wk[w].pc \in Fetched \cup {"fetch"} => mirrorLock = w
    /\ wk[w].pc \in {"walk", "mark", "relock", "rewalk"} => wk[w].new = mirror

\* A runner has the lease of its intent, and covers it.
HoldsLease(w) ==
    w \in Runners /\ wk[w].pc # "idle" =>
        /\ wk[w].job \in Pushes /\ intents[wk[w].job] = "leased"
        /\ wk[w].pc # "prepare" => wk[w].job \in wk[w].cover

\* Where a round stored the head or may find that a repair has done so.
StoresHead(w) ==
    /\ wk[w].pc = "publish" => space.head_sha = mirror /\ RepairsAgree
    /\ wk[w].pc \in {"mark", "relock"} =>
         space.head_sha \in {wk[w].head, mirror} /\ RepairsAgree

\* A round that will cover the last push has its head, or better.
CoversLast(w) ==
    remote # None /\ pushes \in wk[w].cover =>
        /\ wk[w].pc \in Fetched => mirror = remote
        /\ wk[w].pc = "cover" => Settled

Round(w) ==
    /\ w \in Assigners => wk[w].pc \notin RepairPCs \cup {"r_restore"}
    /\ HoldsMirror(w) /\ HoldsLease(w) /\ StoresHead(w) /\ CoversLast(w)
    /\ \A i \in wk[w].cover : i <= pushes

\* Two runners never have the same intent.
OneLease ==
    \A w, v \in Runners :
        wk[w].pc # "idle" /\ wk[v].pc # "idle" /\ wk[w].job = wk[v].job => w = v

\* Intents are those of the pushes so far; the last one is done only when the
\* head it announced is stored.
LastIntent ==
    /\ \A i \in Pushes : i > pushes => intents[i] = "none"
    /\ remote # None =>
         /\ pushes \in Pushes /\ intents[pushes] \in {"due", "leased", "done"}
         /\ intents[pushes] = "done" => Settled

CaughtInv == LastIntent /\ OneLease /\ \A w \in Workers : Round(w)

\* A step of a worker that leaves branch and mirror alone keeps the others'
\* rounds, if it stores no head but the mirror's as long as repairs agree.
LEMMA RoundsKept ==
    ASSUME TypeOK, CaughtInv, NEW w \in Workers, NEW r \in Worker,
           wk' = [wk EXCEPT ![w] = r], UNCHANGED <<remote, mirror, pushes>>,
           \A x \in Workers : x # w /\ mirrorLock = x => mirrorLock' = x,
           RepairsAgree => space'.head_sha \in {space.head_sha, mirror},
           r.pc = "r_commit" => r.new = mirror,
           \A i \in Pushes : i > pushes => intents'[i] = "none",
           remote # None => /\ intents'[pushes] \in {"due", "leased", "done"}
                            /\ intents'[pushes] = "done" => Settled,
           \A x \in Runners : x # w /\ wk[x].pc # "idle" =>
              /\ intents'[wk[x].job] = "leased"
              /\ w \in Runners /\ r.pc # "idle" => r.job # wk[x].job,
           Round(w)'
    PROVE  CaughtInv'
<1>1. wk \in [Workers -> Worker] /\ wk'[w] = r /\ \A x \in Workers : x # w => wk'[x] = wk[x]
  BY DEF TypeOK
<1>2. RepairsAgree => RepairsAgree'
  BY <1>1 DEF RepairsAgree
<1>3. Settled => Settled'
  BY <1>2 DEF Settled
<1>4. LastIntent'
  BY <1>3 DEF LastIntent, CaughtInv
<1>5. Runners \subseteq Workers
  BY DEF Workers, Assigners
<1>6. OneLease'
  BY <1>1, <1>5 DEF OneLease, CaughtInv
<1>7. ASSUME NEW x \in Workers, x # w PROVE Round(x)'
  <2>1. Round(x) /\ wk'[x] = wk[x]
    BY <1>1, <1>7 DEF CaughtInv
  <2>2. HoldsMirror(x)'
    BY <1>7, <2>1 DEF Round, HoldsMirror
  <2>3. HoldsLease(x)'
    BY <1>7, <2>1 DEF Round, HoldsLease
  <2>4. StoresHead(x)'
    BY <1>2, <2>1 DEF Round, StoresHead
  <2>5. CoversLast(x)'
    BY <1>3, <2>1 DEF Round, CoversLast
  <2> QED
    BY <2>1, <2>2, <2>3, <2>4, <2>5 DEF Round
<1> QED
  BY <1>4, <1>6, <1>7 DEF CaughtInv

\* A worker that gives up gives its lease back.
LEMMA GiveUpCaught ==
    ASSUME TypeOK, CaughtInv, NEW w \in Workers, wk[w].pc # "idle",
           GiveUp(w), Kept, UNCHANGED <<remote, mirror, pushes>>
    PROVE  CaughtInv'
<1>1. /\ Idle \in Worker /\ wk' = [wk EXCEPT ![w] = Idle]
      /\ wk \in [Workers -> Worker] /\ intents \in [Pushes -> {"none", "due", "leased", "done"}]
  BY IdleType DEF TypeOK, GiveUp
<1>2. \A x \in Workers : x # w /\ mirrorLock = x => mirrorLock' = x
  BY WorkersAssumption DEF GiveUp, Freed, Workers, Assigners
<1>3. Round(w) /\ LastIntent /\ OneLease
  BY DEF CaughtInv
<1>4. \A i \in Pushes : \/ intents'[i] = intents[i]
                        \/ intents[i] = "leased" /\ intents'[i] = "due" /\ w \in Runners /\ i = wk[w].job
  BY <1>1 DEF GiveUp
<1>5. ASSUME NEW x \in Runners, x # w, wk[x].pc # "idle"
      PROVE  intents'[wk[x].job] = "leased"
  <2>1. /\ x \in Workers /\ wk[x].job \in Pushes /\ intents[wk[x].job] = "leased"
    BY <1>5 DEF CaughtInv, Round, HoldsLease, Workers, Assigners
  <2>2. CASE w \in Runners
    <3>1. wk[x].job # wk[w].job
      BY <1>3, <1>5, <2>2 DEF OneLease
    <3> QED
      BY <1>4, <2>1, <3>1
  <2>3. CASE w \notin Runners
    BY <1>4, <2>1, <2>3
  <2> QED
    BY <2>2, <2>3
<1>6. Round(w)'
  BY <1>1 DEF Round, HoldsMirror, HoldsLease, StoresHead, CoversLast, Idle, Fetched, RepairPCs
<1>7. /\ \A i \in Pushes : i > pushes => intents'[i] = "none"
      /\ remote # None => /\ intents'[pushes] \in {"due", "leased", "done"}
                          /\ intents'[pushes] = "done" => Settled
  BY <1>3, <1>4 DEF LastIntent
<1>8. space'.head_sha = space.head_sha
  BY DEF Kept
<1> QED
  BY <1>1, <1>2, <1>5, <1>6, <1>7, <1>8, RoundsKept DEF Idle

\* A worker that goes on without touching intents, branch, mirror or numbering.
LEMMA GoOnCaught ==
    ASSUME TypeOK, CaughtInv, NEW w \in Workers, NEW r \in Worker,
           wk' = [wk EXCEPT ![w] = r], Kept, UNCHANGED <<remote, mirror, pushes, intents>>,
           \A x \in Workers : x # w /\ mirrorLock = x => mirrorLock' = x,
           r.pc = "r_commit" => r.new = mirror,
           w \in Runners => r.job = wk[w].job /\ wk[w].pc # "idle",
           Round(w)'
    PROVE  CaughtInv'
<1>1. LastIntent /\ OneLease /\ \A x \in Workers : Round(x)
  BY DEF CaughtInv
<1>2. space'.head_sha = space.head_sha
  BY DEF Kept
<1>3. ASSUME NEW x \in Runners, x # w, wk[x].pc # "idle"
      PROVE  /\ intents'[wk[x].job] = "leased"
             /\ w \in Runners /\ r.pc # "idle" => r.job # wk[x].job
  BY <1>1, <1>3 DEF Round, HoldsLease, OneLease, Workers, Assigners
<1>4. /\ \A i \in Pushes : i > pushes => intents'[i] = "none"
      /\ remote # None => /\ intents'[pushes] \in {"due", "leased", "done"}
                          /\ intents'[pushes] = "done" => Settled
  BY <1>1 DEF LastIntent
<1> QED
  BY <1>2, <1>3, <1>4, RoundsKept

\* A push is the last one now and its intent is due; a sweep that fetches holds
\* the mirror lock, so no round is under way.
LEMMA EnvironmentCaught ==
    ASSUME TypeOK, CaughtInv, Environment
    PROVE  CaughtInv'
<1>1. /\ UNCHANGED wk /\ space'.head_sha = space.head_sha
      /\ LastIntent /\ OneLease /\ \A w \in Workers : Round(w)
  BY EnvironmentKeeps DEF Kept, CaughtInv
<1>2. /\ intents \in [Pushes -> {"none", "due", "leased", "done"}] /\ pushes \in 0..MaxPushes
      /\ wk \in [Workers -> Worker] /\ Runners \subseteq Workers
  BY DEF TypeOK, Workers, Assigners
<1>3. OneLease'
  BY <1>1 DEF OneLease
<1>4. ASSUME NEW c \in Heads, NEW p \in BOOLEAN, Push(c, p) PROVE CaughtInv'
  <2>1. /\ pushes' = pushes + 1 /\ pushes' \in Pushes /\ mirror' = mirror /\ mirrorLock' = mirrorLock
        /\ intents' = [intents EXCEPT ![pushes + 1] = "due"] /\ UNCHANGED <<space, wk>>
    BY <1>2, <1>4, WorkersAssumption DEF Push, Pushes
  <2>2. LastIntent'
    BY <1>1, <1>2, <2>1 DEF LastIntent, Pushes
  <2>3. ASSUME NEW w \in Workers PROVE Round(w)'
    <3>1. Round(w) /\ wk'[w] = wk[w] /\ wk[w].cover \subseteq Pushes
      BY <1>1, <1>2 DEF Worker
    <3>2. pushes' \notin wk[w].cover
      BY <1>2, <2>1, <3>1 DEF Round, Pushes
    <3>3. CoversLast(w)'
      BY <3>1, <3>2 DEF CoversLast
    <3>4. HoldsLease(w)'
      <4>1. pushes < pushes + 1 /\ pushes + 1 \in Pushes
        BY <1>2, <2>1
      <4>2. intents[pushes + 1] = "none"
        BY <1>1, <4>1 DEF LastIntent, Pushes
      <4> QED
        BY <1>2, <2>1, <3>1, <4>2 DEF Round, HoldsLease
    <3>5. HoldsMirror(w)' /\ StoresHead(w)'
      BY <2>1, <3>1 DEF Round, HoldsMirror, StoresHead, RepairsAgree
    <3>6. \A i \in wk'[w].cover : i <= pushes'
      BY <1>2, <2>1, <3>1 DEF Round, Pushes
    <3> QED
      BY <3>1, <3>3, <3>4, <3>5, <3>6 DEF Round
  <2> QED
    BY <1>3, <2>2, <2>3 DEF CaughtInv
<1>5. CASE DeleteBranch
  <2>1. /\ remote' = None /\ pushes' = pushes + 1 /\ UNCHANGED <<mirror, mirrorLock, intents, space, wk>>
    BY <1>5 DEF DeleteBranch
  <2>2. LastIntent'
    BY <1>1, <1>2, <2>1 DEF LastIntent, Pushes
  <2>3. ASSUME NEW w \in Workers PROVE Round(w)'
    <3>1. Round(w) /\ wk'[w] = wk[w] /\ wk[w].cover \subseteq Pushes
      BY <1>1, <1>2 DEF Worker
    <3>2. \A i \in wk'[w].cover : i <= pushes'
      BY <1>2, <2>1, <3>1 DEF Round, Pushes
    <3> QED
      BY <2>1, <3>1, <3>2 DEF Round, CoversLast, HoldsLease, HoldsMirror, StoresHead, RepairsAgree
  <2> QED
    BY <1>3, <2>2, <2>3 DEF CaughtInv
<1>6. CASE SweepLock
  <2>1. mirrorLock = None /\ UNCHANGED <<remote, mirror, pushes, intents, space, wk>>
    BY <1>6 DEF SweepLock
  <2>2. LastIntent'
    BY <1>1, <2>1 DEF LastIntent, Settled, RepairsAgree
  <2>3. ASSUME NEW w \in Workers PROVE Round(w)'
    <3>1. w # None /\ Round(w)
      BY <1>1, WorkersAssumption DEF Workers, Assigners
    <3> QED
      BY <2>1, <3>1 DEF Round, CoversLast, HoldsLease, HoldsMirror, StoresHead, RepairsAgree, Settled
  <2> QED
    BY <1>3, <2>2, <2>3 DEF CaughtInv
<1>7. CASE SweepSync
  <2>1. mirrorLock = Sweeper /\ mirror' \in {mirror, remote} /\ UNCHANGED <<remote, pushes, intents, space, wk>>
    BY <1>7 DEF SweepSync
  <2>2. Settled => Settled'
    BY <2>1 DEF Settled, RepairsAgree
  <2>3. LastIntent'
    BY <1>1, <2>1, <2>2 DEF LastIntent
  <2>4. ASSUME NEW w \in Workers PROVE Round(w)'
    <3>1. w # Sweeper /\ Round(w)
      BY <1>1, WorkersAssumption DEF Workers, Assigners
    <3>2. wk[w].pc \notin Fetched \cup {"fetch"}
      BY <2>1, <3>1 DEF Round, HoldsMirror
    <3> QED
      BY <2>1, <2>2, <3>1, <3>2 DEF Round, CoversLast, HoldsLease, HoldsMirror, StoresHead, Fetched
  <2> QED
    BY <1>3, <2>3, <2>4 DEF CaughtInv
<1> QED
  BY <1>4, <1>5, <1>6, <1>7 DEF Environment

\* Returning to cover what the round was for, with the branch's head stored.
LEMMA ReturnCaught ==
    ASSUME TypeOK, CaughtInv, NEW w \in Workers, wk[w].pc \in Fetched, Return(w),
           UNCHANGED <<remote, mirror, pushes, intents>>,
           RepairsAgree => space'.head_sha \in {space.head_sha, mirror},
           remote # None /\ pushes \in wk[w].cover =>
               mirror = remote /\ space'.head_sha = remote /\ RepairsAgree
    PROVE  CaughtInv'
<1> DEFINE r == [wk[w] EXCEPT !.pc = "cover"]
<1>1. /\ wk' = [wk EXCEPT ![w] = r] /\ wk[w] \in Worker /\ wk \in [Workers -> Worker]
      /\ mirrorLock' = Freed(mirrorLock, w)
  BY DEF Return, Goto, TypeOK
<1>2. r \in Worker /\ r.pc = "cover" /\ r.cover = wk[w].cover /\ r.job = wk[w].job
  BY <1>1 DEF Worker, PCs
<1> HIDE DEF r
<1>3. Round(w) /\ LastIntent /\ OneLease
  BY DEF CaughtInv
<1>4. \A x \in Workers : x # w /\ mirrorLock = x => mirrorLock' = x
  BY <1>1 DEF Freed
<1>5. RepairsAgree => RepairsAgree'
  BY <1>1, <1>2 DEF RepairsAgree
<1>6. CoversLast(w)'
  BY <1>1, <1>2, <1>5 DEF CoversLast, Settled, Fetched
<1>7. Round(w)'
  BY <1>1, <1>2, <1>3, <1>6 DEF Round, HoldsMirror, HoldsLease, StoresHead, Fetched, RepairPCs
<1>8. ASSUME NEW x \in Runners, x # w, wk[x].pc # "idle"
      PROVE  /\ intents'[wk[x].job] = "leased"
             /\ w \in Runners /\ r.pc # "idle" => r.job # wk[x].job
  BY <1>2, <1>3, <1>8 DEF CaughtInv, Round, HoldsLease, OneLease, Workers, Assigners, Fetched
<1>9. /\ \A i \in Pushes : i > pushes => intents'[i] = "none"
      /\ remote # None => /\ intents'[pushes] \in {"due", "leased", "done"}
                          /\ intents'[pushes] = "done" => Settled
  BY <1>3 DEF LastIntent
<1> QED
  BY <1>1, <1>2, <1>4, <1>7, <1>8, <1>9, RoundsKept

\* Under the lock of the space there is no repair under way.
LEMMA AloneAgrees ==
    ASSUME AnalysisIsCurrent, NEW w \in Workers, lock = w, wk[w].pc # "r_commit"
    PROVE  RepairsAgree
BY DEF AnalysisIsCurrent, RepairsAgree

\* A round fixes what it covers, fetches, and returns to cover it.
LEMMA AssignCaught ==
    ASSUME GraphMode = "mirror", IInv, CaughtInv, NEW w \in Workers, AssignStep(w)
    PROVE  CaughtInv'
<1>1. /\ TypeOK /\ wk[w] \in Worker /\ wk \in [Workers -> Worker] /\ TypeOK'
      /\ intents \in [Pushes -> {"none", "due", "leased", "done"}]
      /\ w # None /\ AnalysisIsCurrent /\ Runners \subseteq Workers
  BY WorkerTypes, WorkersAssumption DEF IInv, TypeOK, WorkerStep, Workers, Assigners
<1>2. Round(w) /\ LastIntent /\ OneLease
  BY DEF CaughtInv
<1>3. ASSUME NEW pc, Goto(w, pc) PROVE /\ wk' = [wk EXCEPT ![w] = [wk[w] EXCEPT !.pc = pc]]
                                       /\ [wk[w] EXCEPT !.pc = pc] \in Worker
  <2>1. wk' = [wk EXCEPT ![w] = [wk[w] EXCEPT !.pc = pc]]
    BY <1>3 DEF Goto
  <2> QED
    BY <1>1, <2>1 DEF TypeOK
<1>4. ASSUME NEW i \in Pushes, TakeEvent(w, i) PROVE CaughtInv'
  <2> DEFINE r == [Idle EXCEPT !.pc = "prepare", !.job = i]
  <2>1. wk' = [wk EXCEPT ![w] = r] /\ r \in Worker /\ r.pc = "prepare" /\ r.cover = {} /\ w \notin Runners
        /\ UNCHANGED <<remote, mirror, pushes, intents, space, rows, mirrorLock>>
    BY <1>4, TakenType, WorkersAssumption DEF TakeEvent, Idle
  <2> HIDE DEF r
  <2>2. Round(w)'
    BY <1>1, <2>1 DEF Round, HoldsMirror, HoldsLease, StoresHead, CoversLast, Fetched, RepairPCs
  <2> QED
    BY <1>1, <2>1, <2>2, GoOnCaught DEF Kept
<1>5. ASSUME NEW i \in Pushes, TakeIntent(w, i) PROVE CaughtInv'
  <2> DEFINE r == [Idle EXCEPT !.pc = "prepare", !.job = i]
  <2>1. /\ wk' = [wk EXCEPT ![w] = r] /\ r \in Worker /\ r.pc = "prepare" /\ r.cover = {} /\ r.job = i
        /\ intents[i] = "due" /\ intents' = [intents EXCEPT ![i] = "leased"]
        /\ UNCHANGED <<remote, mirror, pushes, space, rows, mirrorLock>>
    BY <1>5, TakenType DEF TakeIntent, Idle
  <2> HIDE DEF r
  <2>2. Round(w)'
    BY <1>1, <2>1 DEF Round, HoldsMirror, HoldsLease, StoresHead, CoversLast, Fetched, RepairPCs
  <2>3. ASSUME NEW x \in Runners, x # w, wk[x].pc # "idle"
        PROVE  intents'[wk[x].job] = "leased" /\ r.job # wk[x].job
    BY <1>1, <2>1, <2>3 DEF CaughtInv, Round, HoldsLease
  <2>4. /\ \A j \in Pushes : j > pushes => intents'[j] = "none"
        /\ remote # None => /\ intents'[pushes] \in {"due", "leased", "done"}
                            /\ intents'[pushes] = "done" => Settled
    BY <1>1, <1>2, <2>1 DEF LastIntent
  <2> QED
    BY <1>1, <2>1, <2>2, <2>3, <2>4, RoundsKept
<1>6. CASE PrepareMirror(w)
  <2> DEFINE r == [wk[w] EXCEPT !.pc = "fetch", !.cover = Coverable(w)]
  <2>1. /\ wk' = [wk EXCEPT ![w] = r] /\ wk[w].pc = "prepare" /\ mirrorLock' = w /\ mirrorLock = None
        /\ UNCHANGED <<remote, mirror, pushes, intents, space, rows>>
    BY <1>6 DEF PrepareMirror, At
  <2>2. r \in Worker /\ r.pc = "fetch" /\ r.cover = Coverable(w) /\ r.job = wk[w].job
    BY <1>1, <2>1 DEF Worker, TypeOK
  <2> HIDE DEF r
  <2>3. \A i \in Coverable(w) : i \in Pushes /\ i <= pushes
    BY <1>1, <1>2 DEF Coverable, LastIntent, Pushes, TypeOK
  <2>4. HoldsLease(w)'
    BY <1>1, <1>2, <2>1, <2>2 DEF Round, HoldsLease, Coverable
  <2>5. Round(w)'
    BY <1>1, <1>2, <2>1, <2>2, <2>3, <2>4 DEF Round, HoldsMirror, StoresHead, CoversLast, Fetched, RepairPCs
  <2>6. \A x \in Workers : mirrorLock # x
    BY <2>1, WorkersAssumption DEF Workers, Assigners
  <2> QED
    BY <1>1, <2>1, <2>2, <2>5, <2>6, GoOnCaught DEF Kept
<1>7. CASE PrepareBusy(w) \/ FetchFails(w) \/ AssignLocked(w) \/ PublishFails(w)
  <2>1. wk[w].pc # "idle" /\ GiveUp(w) /\ Kept /\ UNCHANGED <<remote, mirror, pushes>>
    BY <1>7 DEF PrepareBusy, FetchFails, AssignLocked, PublishFails, At, Kept
  <2> QED
    BY <1>1, <2>1, GiveUpCaught
<1>8. CASE Fetch(w)
  <2> DEFINE r == [wk[w] EXCEPT !.pc = "assign"]
  <2>1. /\ wk' = [wk EXCEPT ![w] = r] /\ r \in Worker /\ wk[w].pc = "fetch" /\ mirror' = remote
        /\ UNCHANGED <<remote, pushes, intents, space, rows, mirrorLock>>
    BY <1>3, <1>8 DEF Fetch, At
  <2>2. r.pc = "assign" /\ r.cover = wk[w].cover /\ r.job = wk[w].job
    BY <1>1 DEF Worker
  <2> HIDE DEF r
  <2>3. mirrorLock = w
    BY <1>2, <2>1 DEF Round, HoldsMirror
  <2>4. wk'[w] = r /\ \A x \in Workers : x # w => wk'[x] = wk[x] /\ wk[x].pc \notin Fetched \cup {"fetch"}
    BY <1>1, <2>1, <2>3 DEF CaughtInv, Round, HoldsMirror
  <2>5. Settled => Settled'
    BY <2>1, <2>2, <2>4 DEF Settled, RepairsAgree
  <2>6. LastIntent' /\ OneLease'
    BY <1>1, <1>2, <2>1, <2>2, <2>4, <2>5 DEF LastIntent, OneLease
  <2>7. Round(w)'
    BY <1>2, <2>1, <2>2, <2>3, <2>4 DEF Round, HoldsMirror, HoldsLease, StoresHead, CoversLast, Fetched, RepairPCs
  <2>8. ASSUME NEW x \in Workers, x # w PROVE Round(x)'
    <3>1. Round(x) /\ wk'[x] = wk[x] /\ wk[x].pc \notin Fetched \cup {"fetch"}
      BY <2>4, <2>8 DEF CaughtInv
    <3> QED
      BY <2>1, <2>5, <3>1 DEF Round, HoldsMirror, HoldsLease, StoresHead, CoversLast, Fetched
  <2> QED
    BY <2>6, <2>7, <2>8 DEF CaughtInv
<1>9. CASE AssignLock(w)
  <2> DEFINE r == [wk[w] EXCEPT !.pc = "resolve", !.head = space.head_sha]
  <2>1. /\ wk' = [wk EXCEPT ![w] = r] /\ wk[w].pc = "assign"
        /\ UNCHANGED <<remote, mirror, pushes, intents, space, rows, mirrorLock>>
    BY <1>9 DEF AssignLock, At
  <2>2. r \in Worker /\ r.pc = "resolve" /\ r.cover = wk[w].cover /\ r.job = wk[w].job
    BY <1>1, <2>1 DEF Worker, TypeOK, PCs, SpaceRow
  <2> HIDE DEF r
  <2>3. Round(w)'
    BY <1>1, <1>2, <2>1, <2>2 DEF Round, HoldsMirror, HoldsLease, StoresHead, CoversLast, Fetched, RepairPCs
  <2> QED
    BY <1>1, <2>1, <2>2, <2>3, GoOnCaught DEF Kept
<1>10. CASE ResolveForward(w)
  <2> DEFINE r == [wk[w] EXCEPT !.pc = "walk", !.new = mirror]
  <2>1. /\ wk' = [wk EXCEPT ![w] = r] /\ wk[w].pc = "resolve"
        /\ UNCHANGED <<remote, mirror, pushes, intents, space, rows, mirrorLock>>
    BY <1>10 DEF ResolveForward, At, GraphHead
  <2>2. r \in Worker /\ r.pc = "walk" /\ r.new = mirror /\ r.cover = wk[w].cover /\ r.job = wk[w].job
    BY <1>1, <2>1 DEF Worker, TypeOK, PCs
  <2> HIDE DEF r
  <2>3. Round(w)'
    BY <1>1, <1>2, <2>1, <2>2 DEF Round, HoldsMirror, HoldsLease, StoresHead, CoversLast, Fetched, RepairPCs
  <2> QED
    BY <1>1, <2>1, <2>2, <2>3, GoOnCaught DEF Kept
<1>11. CASE ResolveRewritten(w)
  <2> DEFINE r == [wk[w] EXCEPT !.pc = "mark", !.new = mirror]
  <2>1. /\ wk' = [wk EXCEPT ![w] = r] /\ wk[w].pc = "resolve"
        /\ UNCHANGED <<remote, mirror, pushes, intents, space, rows, mirrorLock>>
    BY <1>11 DEF ResolveRewritten, At, GraphHead
  <2>2. /\ r \in Worker /\ r.pc = "mark" /\ r.new = mirror /\ r.cover = wk[w].cover /\ r.job = wk[w].job
        /\ r.head = wk[w].head
    BY <1>1, <2>1 DEF Worker, TypeOK, PCs
  <2> HIDE DEF r
  <2>3. lock = w /\ wk[w].head = space.head_sha
    BY <1>1, <2>1 DEF AnalysisIsCurrent
  <2>4. RepairsAgree
    BY <1>1, <2>1, <2>3, AloneAgrees
  <2>5. RepairsAgree'
    BY <1>1, <2>1, <2>2, <2>4 DEF RepairsAgree
  <2>6. StoresHead(w)'
    BY <1>1, <2>1, <2>2, <2>3, <2>5 DEF StoresHead
  <2>7. Round(w)'
    BY <1>1, <1>2, <2>1, <2>2, <2>6 DEF Round, HoldsMirror, HoldsLease, CoversLast, Fetched, RepairPCs
  <2> QED
    BY <1>1, <2>1, <2>2, <2>7, GoOnCaught DEF Kept
<1>12. CASE ResolveNoBranch(w)
  <2>1. /\ wk[w].pc = "resolve" /\ mirror = None /\ Return(w)
        /\ UNCHANGED <<remote, mirror, pushes, intents, space>>
    BY <1>12 DEF ResolveNoBranch, At, GraphHead
  <2>2. remote # None => pushes \notin wk[w].cover
    BY <1>2, <2>1 DEF Round, CoversLast, Fetched
  <2> QED
    BY <1>1, <2>1, <2>2, ReturnCaught DEF Fetched
<1>13. CASE AssignCommit(w)
  <2> DEFINE r == [wk[w] EXCEPT !.pc = "publish"]
  <2>1. /\ wk' = [wk EXCEPT ![w] = r] /\ r \in Worker /\ wk[w].pc = "walk"
        /\ UNCHANGED <<remote, mirror, pushes, intents, mirrorLock>>
    BY <1>3, <1>13 DEF AssignCommit, At
  <2>2. r.pc = "publish" /\ r.cover = wk[w].cover /\ r.job = wk[w].job
    BY <1>1 DEF Worker
  <2> HIDE DEF r
  <2>3. lock = w /\ wk[w].new = mirror
    BY <1>1, <1>2, <2>1 DEF AnalysisIsCurrent, Round, HoldsMirror
  <2>4. space'.head_sha = mirror
    BY <1>1, <1>13, <2>3 DEF AssignCommit, TypeOK, SpaceRow
  <2>5. RepairsAgree
    BY <1>1, <2>1, <2>3, AloneAgrees
  <2>6. RepairsAgree'
    BY <1>1, <2>1, <2>2, <2>5 DEF RepairsAgree
  <2>7. Round(w)'
    BY <1>1, <1>2, <2>1, <2>2, <2>4, <2>6 DEF Round, HoldsMirror, HoldsLease, StoresHead, CoversLast, Fetched, RepairPCs
  <2>8. ASSUME NEW x \in Runners, x # w, wk[x].pc # "idle"
        PROVE  /\ intents'[wk[x].job] = "leased"
               /\ w \in Runners /\ r.pc # "idle" => r.job # wk[x].job
    BY <1>1, <1>2, <2>1, <2>2, <2>8 DEF CaughtInv, Round, HoldsLease, OneLease
  <2>9. /\ \A i \in Pushes : i > pushes => intents'[i] = "none"
        /\ remote # None => /\ intents'[pushes] \in {"due", "leased", "done"}
                            /\ intents'[pushes] = "done" => Settled
    BY <1>2, <2>1 DEF LastIntent
  <2> QED
    BY <1>1, <2>1, <2>2, <2>4, <2>7, <2>8, <2>9, RoundsKept
<1>14. CASE Publish(w)
  <2>1. /\ wk[w].pc = "publish" /\ Return(w) /\ UNCHANGED <<remote, mirror, pushes, intents, space>>
    BY <1>14 DEF Publish, At
  <2>2. space.head_sha = mirror /\ RepairsAgree
    BY <1>2, <2>1 DEF Round, StoresHead
  <2>3. remote # None /\ pushes \in wk[w].cover => mirror = remote
    BY <1>2, <2>1 DEF Round, CoversLast, Fetched
  <2> QED
    BY <1>1, <2>1, <2>2, <2>3, ReturnCaught DEF Fetched
<1>15. CASE Cover(w)
  <2>1. /\ wk' = [wk EXCEPT ![w] = Idle] /\ Idle \in Worker /\ Idle.pc = "idle" /\ Idle.cover = {}
        /\ wk[w].pc = "cover" /\ UNCHANGED <<remote, mirror, pushes, space, mirrorLock>>
    BY <1>15, IdleType DEF Cover, At, Idle
  <2>2. ASSUME NEW i \in Pushes
        PROVE  \/ intents'[i] = intents[i]
               \/ /\ intents'[i] = "done" /\ i \in wk[w].cover
                  /\ \/ intents[i] = "due"
                     \/ intents[i] = "leased" /\ w \in Runners /\ wk[w].job = i
    <3>1. w \in Runners => wk[w].job \in wk[w].cover
      BY <1>2, <2>1 DEF Round, HoldsLease
    <3> QED
      BY <1>15, <3>1 DEF Cover, Coverable
  <2>3. ASSUME NEW x \in Runners, x # w, wk[x].pc # "idle"
        PROVE  intents'[wk[x].job] = "leased"
    <3>1. x \in Workers /\ wk[x].job \in Pushes /\ intents[wk[x].job] = "leased"
      BY <1>1, <2>3 DEF CaughtInv, Round, HoldsLease
    <3>2. w \in Runners => wk[w].job # wk[x].job
      BY <1>2, <2>1, <2>3 DEF OneLease
    <3> QED
      BY <2>2, <3>1, <3>2
  <2>4. /\ \A i \in Pushes : i > pushes => intents'[i] = "none"
        /\ remote # None => /\ intents'[pushes] \in {"due", "leased", "done"}
                            /\ intents'[pushes] = "done" => Settled
    <3>1. \A i \in wk[w].cover : i <= pushes
      BY <1>2 DEF Round
    <3>2. remote # None /\ pushes \in wk[w].cover => Settled
      BY <1>2, <2>1 DEF Round, CoversLast
    <3>3. \A i \in Pushes : i \in Nat /\ pushes \in Nat
      BY <1>1 DEF TypeOK, Pushes
    <3> QED
      BY <1>2, <2>2, <3>1, <3>2, <3>3 DEF LastIntent
  <2>5. Round(w)'
    BY <1>1, <2>1 DEF Round, HoldsMirror, HoldsLease, StoresHead, CoversLast, Fetched, RepairPCs
  <2> QED
    BY <1>1, <2>1, <2>3, <2>4, <2>5, RoundsKept
<1>16. ~ PrepareApi(w)
  BY DEF PrepareApi
<1> QED
  BY <1>4, <1>5, <1>6, <1>7, <1>8, <1>9, <1>10, <1>11, <1>12, <1>13, <1>14, <1>15, <1>16 DEF AssignStep

\* A rewritten history: between the two locks a repair may have stored the head,
\* and no other.
LEMMA ReassignCaught ==
    ASSUME IInv, CaughtInv, NEW w \in Workers, ReassignStep(w)
    PROVE  CaughtInv'
<1>1. TypeOK /\ wk[w] \in Worker /\ wk \in [Workers -> Worker] /\ AnalysisIsCurrent
  BY DEF IInv, TypeOK
<1>2. Round(w)
  BY DEF CaughtInv
<1>3. CASE MarkReassigning(w)
  <2> DEFINE r == [wk[w] EXCEPT !.pc = "relock"]
  <2>1. /\ wk' = [wk EXCEPT ![w] = r] /\ wk[w].pc = "mark" /\ Kept
        /\ UNCHANGED <<remote, mirror, pushes, intents, mirrorLock>>
    BY <1>1, <1>3 DEF MarkReassigning, At, Goto, Kept, TypeOK, SpaceRow
  <2>2. /\ r \in Worker /\ r.pc = "relock" /\ r.cover = wk[w].cover /\ r.job = wk[w].job
        /\ r.head = wk[w].head /\ r.new = wk[w].new
    BY <1>1 DEF Worker, PCs
  <2> HIDE DEF r
  <2>3. RepairsAgree => RepairsAgree'
    BY <1>1, <2>1, <2>2 DEF RepairsAgree
  <2>4. Round(w)'
    BY <1>1, <1>2, <2>1, <2>2, <2>3 DEF Round, HoldsMirror, HoldsLease, StoresHead, CoversLast, Fetched, RepairPCs, Kept
  <2> QED
    BY <1>1, <2>1, <2>2, <2>4, GoOnCaught
<1>4. CASE ReassignLocked(w)
  <2>1. wk[w].pc # "idle" /\ GiveUp(w) /\ Kept /\ UNCHANGED <<remote, mirror, pushes>>
    BY <1>4 DEF ReassignLocked, At, Kept
  <2> QED
    BY <1>1, <2>1, GiveUpCaught
<1>5. CASE ReassignHeadMoved(w)
  <2>1. /\ wk[w].pc = "relock" /\ space.head_sha # wk[w].head /\ Return(w)
        /\ UNCHANGED <<remote, mirror, pushes, intents, space>>
    BY <1>5 DEF ReassignHeadMoved, At
  <2>2. space.head_sha = mirror /\ RepairsAgree
    BY <1>2, <2>1 DEF Round, StoresHead
  <2>3. remote # None /\ pushes \in wk[w].cover => mirror = remote
    BY <1>2, <2>1 DEF Round, CoversLast, Fetched
  <2> QED
    BY <1>1, <2>1, <2>2, <2>3, ReturnCaught DEF Fetched
<1>6. CASE ReassignLock(w)
  <2> DEFINE r == [wk[w] EXCEPT !.pc = "rewalk"]
  <2>1. /\ wk' = [wk EXCEPT ![w] = r] /\ wk[w].pc = "relock"
        /\ UNCHANGED <<remote, mirror, pushes, intents, mirrorLock, space, rows>>
    BY <1>1, <1>6 DEF ReassignLock, At, Goto
  <2>2. r \in Worker /\ r.pc = "rewalk" /\ r.cover = wk[w].cover /\ r.job = wk[w].job /\ r.new = wk[w].new
    BY <1>1 DEF Worker, PCs
  <2> HIDE DEF r
  <2>3. Round(w)'
    BY <1>1, <1>2, <2>1, <2>2 DEF Round, HoldsMirror, HoldsLease, StoresHead, CoversLast, Fetched, RepairPCs
  <2> QED
    BY <1>1, <2>1, <2>2, <2>3, GoOnCaught DEF Kept
<1>7. ASSUME NEW base \in Commits \cup {None}, ReassignCommit(w, base) PROVE CaughtInv'
  <2>1. /\ wk[w].pc = "rewalk" /\ Return(w) /\ UNCHANGED <<remote, mirror, pushes, intents>>
        /\ space'.head_sha = wk[w].new
    BY <1>7 DEF ReassignCommit, At, Rebuild
  <2>2. lock = w /\ wk[w].new = mirror
    BY <1>1, <1>2, <2>1 DEF AnalysisIsCurrent, Round, HoldsMirror
  <2>3. RepairsAgree
    BY <1>1, <2>1, <2>2, AloneAgrees
  <2>4. remote # None /\ pushes \in wk[w].cover => mirror = remote
    BY <1>2, <2>1 DEF Round, CoversLast, Fetched
  <2> QED
    BY <1>1, <2>1, <2>2, <2>3, <2>4, ReturnCaught DEF Fetched
<1> QED
  BY <1>3, <1>4, <1>5, <1>6, <1>7 DEF ReassignStep

\* A repair is no round; what it commits is the mirror's head as long as
\* repairs agree.
LEMMA RepairCaught ==
    ASSUME GraphMode = "mirror", IInv, CaughtInv, NEW w \in Workers, RepairStep(w)
    PROVE  CaughtInv'
<1>1. TypeOK /\ wk[w] \in Worker /\ wk \in [Workers -> Worker] /\ space \in SpaceRow /\ TypeOK'
  BY WorkerTypes DEF IInv, TypeOK, WorkerStep
<1>2. Round(w) /\ Idle \in Worker /\ Idle.cover = {} /\ Idle.pc = "idle"
  BY IdleType DEF CaughtInv, Idle
<1>3. w \notin Assigners /\ w \notin Runners
  BY <1>2, WorkersAssumption DEF RepairStep, RepairResolve, RepairReadSpace, RepairConsistent,
     RepairMismatch, RepairGraphFails, RepairSkip, RepairLock, RepairMark, RepairFence,
     RepairCommit, RepairRestore, Round, At, RepairPCs, Assigners
<1>4. ASSUME NEW r \in Worker, wk' = [wk EXCEPT ![w] = r], Kept,
             r.pc \in RepairPCs \cup {"idle", "stale", "r_restore"},
             r.cover = {} \/ r.cover = wk[w].cover, r.pc = "r_commit" => r.new = mirror,
             UNCHANGED <<remote, mirror, pushes, intents, mirrorLock>>
      PROVE  CaughtInv'
  <2>1. Round(w)'
    BY <1>1, <1>2, <1>3, <1>4 DEF Round, HoldsMirror, HoldsLease, StoresHead, CoversLast, Fetched, RepairPCs
  <2> QED
    BY <1>1, <1>3, <1>4, <2>1, GoOnCaught
<1>5. CASE RepairResolve(w)
  <2>1. wk' = [wk EXCEPT ![w] = [Idle EXCEPT !.pc = "r_space", !.new = mirror]]
        /\ UNCHANGED <<remote, mirror, pushes, intents, mirrorLock, space, rows>>
    BY <1>5 DEF RepairResolve, GraphHead
  <2>2. /\ [Idle EXCEPT !.pc = "r_space", !.new = mirror] \in Worker
        /\ [Idle EXCEPT !.pc = "r_space", !.new = mirror].pc = "r_space"
        /\ [Idle EXCEPT !.pc = "r_space", !.new = mirror].cover = {}
    BY <1>1, <1>2 DEF Worker, PCs, TypeOK, Idle
  <2> QED
    BY <1>4, <2>1, <2>2 DEF Kept, RepairPCs
<1>6. CASE RepairReadSpace(w)
  <2> DEFINE q == [wk[w] EXCEPT !.pc = "r_stored", !.head = space.head_sha,
                                !.epoch = space.seq_epoch, !.prior = space.state]
  <2>1. /\ \/ wk' = [wk EXCEPT ![w] = Idle]
           \/ wk' = [wk EXCEPT ![w] = q]
        /\ UNCHANGED <<remote, mirror, pushes, intents, mirrorLock, space, rows>>
    BY <1>6 DEF RepairReadSpace
  <2>2. q \in Worker /\ q.pc = "r_stored" /\ q.cover = wk[w].cover
    BY <1>1 DEF Worker, PCs, SpaceRow
  <2> HIDE DEF q
  <2> QED
    BY <1>2, <1>4, <2>1, <2>2 DEF Kept, RepairPCs
<1>7. CASE RepairConsistent(w) \/ RepairSkip(w) \/ RepairRestore(w)
  <2>1. wk' = [wk EXCEPT ![w] = Idle] /\ UNCHANGED <<remote, mirror, pushes, intents, mirrorLock>>
    BY <1>7 DEF RepairConsistent, RepairSkip, RepairRestore
  <2>2. Kept
    BY <1>1, <1>7 DEF RepairConsistent, RepairSkip, RepairRestore, Kept, SpaceRow
  <2> QED
    BY <1>2, <1>4, <2>1, <2>2
<1>8. CASE RepairMismatch(w)
  <2>1. PICK s \in DOMAIN rows[wk[w].epoch] :
             wk' = [wk EXCEPT ![w] = [wk[w] EXCEPT !.pc = "r_lock", !.diverged = s]]
    BY <1>1, <1>8 DEF RepairMismatch
  <2>2. UNCHANGED <<remote, mirror, pushes, intents, mirrorLock, space, rows>>
    BY <1>8 DEF RepairMismatch
  <2> DEFINE q == [wk[w] EXCEPT !.pc = "r_lock", !.diverged = s]
  <2>3. q \in Worker
    BY <1>1, <2>1 DEF TypeOK
  <2>4. q.pc = "r_lock" /\ q.cover = wk[w].cover
    BY <1>1 DEF Worker
  <2> HIDE DEF q
  <2> QED
    BY <1>4, <2>1, <2>2, <2>3, <2>4 DEF Kept, RepairPCs, q
<1>9. ASSUME NEW pc \in {"stale", "r_mark", "r_fence", "r_commit", "r_restore"}, Goto(w, pc), Kept,
             pc = "r_commit" => wk[w].new = mirror,
             UNCHANGED <<remote, mirror, pushes, intents, mirrorLock>>
      PROVE  CaughtInv'
  <2> DEFINE q == [wk[w] EXCEPT !.pc = pc]
  <2>1. q \in Worker /\ q.pc = pc /\ q.cover = wk[w].cover /\ q.new = wk[w].new
    BY <1>1, <1>9 DEF Worker, PCs
  <2>2. wk' = [wk EXCEPT ![w] = q]
    BY <1>9 DEF Goto
  <2> HIDE DEF q
  <2> QED
    BY <1>4, <1>9, <2>1, <2>2 DEF RepairPCs
<1>10. CASE RepairGraphFails(w) \/ RepairLock(w) \/ RepairMark(w)
  <2>1. Kept
    BY <1>1, <1>10 DEF RepairGraphFails, RepairLock, RepairMark, Kept, SpaceRow
  <2> QED
    BY <1>9, <1>10, <2>1 DEF RepairGraphFails, RepairLock, RepairMark
<1>11. CASE RepairFence(w)
  <2>1. Kept /\ UNCHANGED <<remote, mirror, pushes, intents, mirrorLock>>
    BY <1>11 DEF RepairFence, Kept
  <2>2. (Goto(w, "r_commit") /\ mirror = wk[w].new) \/ Goto(w, "r_restore")
    BY <1>11 DEF RepairFence, GraphHead, Rollback
  <2> QED
    BY <1>9, <2>1, <2>2
<1>12. CASE RepairCommit(w)
  <2>1. /\ wk' = [wk EXCEPT ![w] = Idle] /\ UNCHANGED <<remote, mirror, pushes, intents, mirrorLock>>
        /\ wk[w].pc = "r_commit" /\ space'.head_sha = wk[w].new
    BY <1>12 DEF RepairCommit, Rebuild, At
  <2>2. RepairsAgree => space'.head_sha = mirror
    BY <2>1 DEF RepairsAgree
  <2>3. Round(w)'
    BY <1>1, <1>2, <1>3, <2>1 DEF Round, HoldsMirror, HoldsLease, StoresHead, CoversLast, Fetched
  <2>4. LastIntent /\ \A x \in Runners : x \in Workers /\ Round(x)
    BY DEF CaughtInv, Workers, Assigners
  <2>5. \A x \in Runners : x # w /\ wk[x].pc # "idle" => intents'[wk[x].job] = "leased"
    BY <2>1, <2>4 DEF Round, HoldsLease
  <2>6. /\ \A i \in Pushes : i > pushes => intents'[i] = "none"
        /\ remote # None => /\ intents'[pushes] \in {"due", "leased", "done"}
                            /\ intents'[pushes] = "done" => Settled
    BY <2>1, <2>4 DEF LastIntent
  <2> QED
    BY <1>1, <1>2, <1>3, <2>1, <2>2, <2>3, <2>5, <2>6, RoundsKept
<1> QED
  BY <1>5, <1>6, <1>7, <1>8, <1>10, <1>11, <1>12 DEF RepairStep

\* No push is forgotten over the mirror, whatever fails, whoever crashes and
\* whatever is repaired meanwhile: when nothing is left to do, the stored head is
\* the head of the branch.  The mirror lock covers a round from before its fetch
\* until after its commit (withFreshness), and the intents a round covers are
\* listed before it fetches (prepareAndAssignSequence).  Over the REST API this
\* is not so in general.
THEOREM NoPushIsForgotten ==
    ASSUME GraphMode = "mirror"
    PROVE  Spec => []QuiescentCaughtUp
<1>1. Init => CaughtInv
  <2>1. Runners \subseteq Workers
    BY DEF Workers, Assigners
  <2> QED
    BY <2>1, WorkersAssumption DEF Init, CaughtInv, LastIntent, OneLease, Round, HoldsMirror, HoldsLease, StoresHead,
       CoversLast, Idle, Fetched, RepairPCs, Pushes
<1>2. ASSUME IInv, CaughtInv, [Next]_vars PROVE CaughtInv'
  <2>1. TypeOK
    BY <1>2 DEF IInv
  <2>2. CASE UNCHANGED vars
    BY <1>2, <2>2 DEF vars, CaughtInv, LastIntent, OneLease, Round, HoldsMirror, HoldsLease,
       StoresHead, CoversLast, Settled, RepairsAgree
  <2>3. CASE Environment
    BY <1>2, <2>1, <2>3, EnvironmentCaught
  <2>4. ASSUME NEW w \in Workers, WorkerStep(w) PROVE CaughtInv'
    <3>1. CASE AssignStep(w) \/ ReassignStep(w) \/ RepairStep(w)
      BY <1>2, <2>4, <3>1, AssignCaught, ReassignCaught, RepairCaught
    <3>2. CASE GraphFails(w)
      <4> DEFINE q == [wk[w] EXCEPT !.pc = "stale"]
      <4>1. wk[w] \in Worker /\ wk \in [Workers -> Worker] /\ Round(w)
        BY <1>2, <2>1 DEF CaughtInv, TypeOK
      <4>2. /\ wk' = [wk EXCEPT ![w] = q] /\ UNCHANGED <<remote, mirror, pushes, intents, mirrorLock>> /\ Kept
            /\ wk[w].pc \notin {"idle", "prepare"}
        BY <3>2 DEF GraphFails, Rollback, Goto, Kept
      <4>3. q \in Worker /\ q.pc = "stale" /\ q.cover = wk[w].cover /\ q.job = wk[w].job
        BY <4>1 DEF Worker, PCs
      <4> HIDE DEF q
      <4>4. Round(w)'
        BY <4>1, <4>2, <4>3 DEF Round, HoldsMirror, HoldsLease, StoresHead, CoversLast, Fetched, RepairPCs
      <4> QED
        BY <1>2, <2>1, <4>2, <4>3, <4>4, GoOnCaught
    <3>3. CASE MarkStale(w) \/ Crash(w)
      <4>1. /\ wk[w].pc # "idle" /\ GiveUp(w) /\ Kept /\ UNCHANGED <<remote, mirror, pushes>>
        BY <2>1, <3>3 DEF MarkStale, Crash, At, Kept, TypeOK, SpaceRow
      <4> QED
        BY <1>2, <2>1, <4>1, GiveUpCaught
    <3> QED
      BY <2>4, <3>1, <3>2, <3>3 DEF WorkerStep
  <2> QED
    BY <1>2, <2>2, <2>3, <2>4 DEF Next
<1>3. CaughtInv => QuiescentCaughtUp
  BY DEF CaughtInv, LastIntent, Settled, QuiescentCaughtUp, Quiescent
<1> QED
  BY <1>1, <1>2, <1>3, Invariance, PTL DEF Spec
============================================================================
