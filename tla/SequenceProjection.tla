------------------------- MODULE SequenceProjection -------------------------
(***************************************************************************)
(* The projection of merge sequence numbers into the search index.         *)
(*                                                                         *)
(* PostgreSQL holds the canonical numbers (`chain'); Elasticsearch holds   *)
(* one document per commit, shared by every branch the commit is on, and   *)
(* one per pull request.  Three kinds of process write numbers into them:  *)
(* the numbering worker right after its transaction, the durable runner    *)
(* that serves `project' work (tail, full sweep, one document), and the    *)
(* commit enricher right after it created a document.  Every call to       *)
(* PostgreSQL or Elasticsearch is a step of its own.                       *)
(***************************************************************************)
EXTENDS Naturals, Sequences, FiniteSets, SequencesExt

CONSTANTS
  Branches,      \* the branches that are numbered
  Shas,          \* the commits; the commit document is named by its SHA
  Pulls,           \* the pull requests
  PrSha,         \* [Pulls -> Shas]: merge_commit_sha
  PrBranch,      \* [Pulls -> Branches]: base_branch
  Histories,     \* [Branches -> set of chains]: what the head of a branch may have
  Early,         \* the documents whose snapshot and document exist at the start
  Numberers, Runners, Enrichers,
  SweepKinds,    \* the sets of document kinds an operator may ask a sweep for
  PageSize,      \* PROJECTION_PAGE
  PagesPerClaim, \* PROJECTION_PAGES_PER_CLAIM
  MaxEpoch, MaxSweeps, MaxFailures,   \* bounds
  None

ASSUME ProjectionAssumption ==
  /\ Shas \cap Pulls = {} /\ {"tail", "full"} \cap (Shas \cup Pulls) = {} /\ Early \subseteq Shas \cup Pulls
  /\ PrSha \in [Pulls -> Shas] /\ PrBranch \in [Pulls -> Branches]
  /\ Histories \in [Branches -> SUBSET Seq(Shas)]
  /\ \A b \in Branches : \A h \in Histories[b] : \A m, n \in 1 .. Len(h) : h[m] = h[n] => m = n
  /\ Numberers \cap Runners = {} /\ Numberers \cap Enrichers = {} /\ Runners \cap Enrichers = {}
  /\ None \notin Branches \cup Numberers \cup Runners \cup Enrichers /\ SweepKinds \subseteq SUBSET {"commit", "pr"}
  /\ PageSize \in Nat \ {0} /\ PagesPerClaim \in Nat \ {0}
  /\ MaxEpoch \in Nat \ {0} /\ MaxSweeps \in Nat /\ MaxFailures \in Nat

VARIABLES
  chain,    \* merge_sequence: chain[b][e] is the chain of epoch e, Len(chain[b]) the current one
  snap,     \* pull requests with a snapshot in PostgreSQL
  made,     \* commits with projected_at
  doc,      \* the served index
  work,     \* sequence_work rows of kind `project'
  proc,     \* the processes
  tx,       \* pull requests whose snapshot transaction is open, with what it read
  sweeps, failures

projectionVars == <<chain, snap, made, doc, work, proc, tx, sweeps, failures>>

Kinds == {"commit", "pr"}
Docs == DOMAIN doc
Keys == DOMAIN work
Procs == DOMAIN proc

ShaOf(d) == IF d \in Pulls THEN PrSha[d] ELSE d
Epoch(b) == Len(chain[b])
Holds(b, s) == Epoch(b) > 0 /\ s \in Range(chain[b][Epoch(b)])
Position(c, s) == CHOOSE n \in 1 .. Len(c) : c[n] = s

NoDoc == [branch |-> None, epoch |-> 0, seq |-> 0, there |-> FALSE]
Doc(b, e, n) == [branch |-> b, epoch |-> e, seq |-> n, there |-> TRUE]
NoWork == [state |-> "none", owner |-> None, again |-> FALSE,
           kinds |-> {}, cursor |-> 0, past |-> {}, fresh |-> FALSE, ended |-> FALSE]
Idle == [pc |-> "idle", key |-> <<>>, b |-> None, e |-> 0, cursor |-> 0, last |-> 0, used |-> 0, kinds |-> {},
         items |-> {}, wr |-> {}, conf |-> {}, pend |-> {}, stale |-> FALSE, reclaim |-> FALSE]

-----------------------------------------------------------------------------
(* PostgreSQL *)

(* requestWork, requestWorkBatch: a new row is ready; an existing one gets   *)
(* the new payload and a new generation, and a lease is left alone.         *)
RequestedWith(w, ks) ==
  [w EXCEPT !.state = IF w.state = "leased" THEN "leased" ELSE "due",
            !.again = (w.state = "leased"), !.fresh = TRUE, !.kinds = ks]

RequestAll(W, ks, kinds) == [k \in Keys |-> IF k \in ks THEN RequestedWith(W[k], kinds) ELSE W[k]]

(* TARGET_SELECT: the snapshots that name this commit and this branch.      *)
PrsOf(b, s) == {p \in snap : PrSha[p] = s /\ PrBranch[p] = b}

(* resolveTargets, policy `live'. *)
Targets(b, s, kinds) ==
  (IF "commit" \in kinds /\ (s \in made \/ PrsOf(b, s) # {}) THEN {s} ELSE {})
    \cup (IF "pr" \in kinds /\ Cardinality(PrsOf(b, s)) = 1 THEN PrsOf(b, s) ELSE {})

(* The rows with the numbers ns of epoch e, as items to project. *)
Resolved(b, e, ns, kinds) ==
  UNION {{[d |-> d, n |-> n] : d \in Targets(b, chain[b][e][n], kinds)} : n \in ns}

(* listProjectionTargetsAfter *)
After(b, e, cursor) == {n \in 1 .. Len(chain[b][e]) : n > cursor}
PageOf(b, e, cursor) == {n \in After(b, e, cursor) : n <= cursor + PageSize}

-----------------------------------------------------------------------------
(* Elasticsearch *)

(* Mutant of Classify: a newer epoch in the document is not looked at. *)
ClassifyAnyEpoch(i, b, e, reclaim) ==
  LET o == doc[i.d]
      same == o.branch = b
  IN  CASE ~o.there -> "missing"
        [] o.there /\ ~same /\ (i.d \in Pulls \/ (o.branch # None /\ ~reclaim)) -> "branch"
        [] o = Doc(b, e, i.n) -> "noop"
        [] OTHER -> "write"

(* classifySequenceTarget, and the same rules again in the update script.   *)
Classify(i, b, e, reclaim) ==
  LET o == doc[i.d]
      same == o.branch = b
  IN  CASE ~o.there -> "missing"
        [] o.there /\ ~same /\ (i.d \in Pulls \/ (o.branch # None /\ ~reclaim)) -> "branch"
        [] o.there /\ same /\ o.epoch > e -> "stale"
        [] o = Doc(b, e, i.n) -> "noop"
        [] OTHER -> "write"

Written(D, is, b, e) ==
  [d \in Docs |-> IF \E i \in is : i.d = d
                  THEN Doc(b, e, (CHOOSE i \in is : i.d = d).n) ELSE D[d]]

(* applyEpochBump: update_by_query over the branch's numbered documents.    *)
Bumped(b, e) == {d \in Docs : doc[d].there /\ doc[d].branch = b /\ doc[d].seq > 0 /\ doc[d].epoch # e}

(* projectItems: the next call a process makes for what it has in hand. The *)
(* numbering worker ignores the outcome, its work is durable.               *)
NextCall(p, q) ==
  CASE q.items # {} -> [q EXCEPT !.pc = "observe"]
    [] q.items = {} /\ q.wr # {} -> [q EXCEPT !.pc = "bulk"]
    [] q.items = {} /\ q.wr = {} /\ q.conf # {} -> [q EXCEPT !.pc = "holders"]
    [] OTHER -> IF p \in Numberers THEN Idle ELSE [q EXCEPT !.pc = "settle"]

-----------------------------------------------------------------------------
(* What the numbering worker commits, and what it does afterwards           *)

(* assignSequence: the chain grows, the tail work is requested in the same  *)
(* transaction.                                                             *)
Assign(p, b) ==
  /\ proc[p].pc = "idle"
  /\ \E h \in Histories[b] :
       LET old == IF Epoch(b) = 0 THEN <<>> ELSE chain[b][Epoch(b)]
           e == IF Epoch(b) = 0 THEN 1 ELSE Epoch(b)
       IN  /\ IsStrictPrefix(old, h)
           /\ chain' = [chain EXCEPT ![b] = IF Epoch(b) = 0 THEN <<h>> ELSE [@ EXCEPT ![e] = h]]
           /\ work' = RequestAll(work, {<<b, e, "tail">>}, Kinds)
           /\ proc' = [proc EXCEPT ![p] = [Idle EXCEPT !.pc = "epoch", !.b = b, !.cursor = Len(old), !.last = Len(h)]]
  /\ UNCHANGED <<snap, made, doc, tx, sweeps, failures>>

(* reassignSequence: a new epoch, its full sweep requested with it. *)
Reassign(p, b) ==
  /\ proc[p].pc = "idle" /\ Epoch(b) \in 1 .. MaxEpoch - 1
  /\ \E h \in Histories[b] :
       LET old == chain[b][Epoch(b)]
           base == Len(LongestCommonPrefix({old, h}))
       IN  /\ ~IsPrefix(old, h)
           /\ chain' = [chain EXCEPT ![b] = Append(@, h)]
           /\ work' = RequestAll(work, {<<b, Epoch(b) + 1, "full">>}, Kinds)
           /\ proc' = [proc EXCEPT ![p] = [Idle EXCEPT !.pc = "bump", !.b = b, !.e = Epoch(b) + 1,
                                                        !.cursor = base, !.last = Len(h)]]
  /\ UNCHANGED <<snap, made, doc, tx, sweeps, failures>>

(* The epoch of the documents is raised by one query, which skips documents *)
(* that changed under it.                                                   *)
Bump(p) ==
  /\ proc[p].pc = "bump"
  /\ LET b == proc[p].b
         e == proc[p].e
     IN  \E D \in SUBSET Bumped(b, e) :
           doc' = [d \in Docs |-> IF d \in D THEN [doc[d] EXCEPT !.epoch = e] ELSE doc[d]]
  /\ proc' = [proc EXCEPT ![p].pc = "range"]
  /\ UNCHANGED <<chain, snap, made, work, tx, sweeps, failures>>

(* After an assignment the epoch is read again, outside of the transaction. *)
ReadEpoch(p) ==
  /\ proc[p].pc = "epoch"
  /\ proc' = [proc EXCEPT ![p].pc = "range", ![p].e = Epoch(proc[p].b)]
  /\ UNCHANGED <<chain, snap, made, doc, work, tx, sweeps, failures>>

(* projectSequenceRange: the canonical rows of the new range. *)
ReadRange(p) ==
  /\ proc[p].pc = "range"
  /\ LET q == proc[p]
         ns == {n \in After(q.b, q.e, q.cursor) : n <= q.last}
     IN  proc' = [proc EXCEPT ![p] = NextCall(p, [q EXCEPT !.items = Resolved(q.b, q.e, ns, Kinds)])]
  /\ UNCHANGED <<chain, snap, made, doc, work, tx, sweeps, failures>>

-----------------------------------------------------------------------------
(* projectItems: the steps every process shares                             *)

(* readSequenceProjection: an mget, and a verdict for every item. *)
Observe(p) ==
  /\ proc[p].pc = "observe"
  /\ LET q == proc[p]
         Is(v) == {i \in q.items : Classify(i, q.b, q.e, q.reclaim) \in v}
         clash == IF q.reclaim THEN {} ELSE {i \in Is({"branch"}) : i.d \in Shas}
     IN  proc' = [proc EXCEPT ![p] = NextCall(p,
           [q EXCEPT !.items = {}, !.wr = Is({"write"}),
                     !.conf = {[item |-> i, seen |-> doc[i.d].branch] : i \in clash},
                     !.pend = @ \cup {i.d : i \in Is({"missing", "branch"}) \ clash},
                     !.stale = @ \/ Is({"stale"}) # {}])]
  /\ UNCHANGED <<chain, snap, made, doc, work, tx, sweeps, failures>>

(* The bulk update: the script checks each document again, and any item may *)
(* fail.  What was not written is pending.                                  *)
Bulk(p) ==
  /\ proc[p].pc = "bulk"
  /\ LET q == proc[p]
         pass == {i \in q.wr : Classify(i, q.b, q.e, q.reclaim) = "write"}
     IN  \E lost \in SUBSET pass :
           /\ lost # {} => failures < MaxFailures
           /\ failures' = IF lost = {} THEN failures ELSE failures + 1
           /\ doc' = Written(doc, pass \ lost, q.b, q.e)
           /\ proc' = [proc EXCEPT ![p] = NextCall(p,
                [q EXCEPT !.wr = {}, !.pend = @ \cup {i.d : i \in q.wr \ (pass \ lost)}])]
  /\ UNCHANGED <<chain, snap, made, work, tx, sweeps>>

(* listSpacesHoldingCommits: a commit document that was seen labelled with  *)
(* a branch that holds the commit now is left to it, any other is taken.    *)
Holders(p) ==
  /\ proc[p].pc = "holders"
  /\ LET q == proc[p]
         take == {c.item : c \in {c \in q.conf : ~Holds(c.seen, c.item.d)}}
     IN  proc' = [proc EXCEPT ![p] = NextCall(p,
           [q EXCEPT !.items = take, !.conf = {}, !.reclaim = TRUE])]
  /\ UNCHANGED <<chain, snap, made, doc, work, tx, sweeps, failures>>

-----------------------------------------------------------------------------
(* The durable runner *)

(* claimDueWork, and the checks at the start of a round: work of another    *)
(* epoch is obsolete.  A sweep starts over when it was requested again; an  *)
(* unfinished one keeps its kinds.                                          *)
ClaimWork(p, k) ==
  LET w == work[k]
      b == k[1]
      e == k[2]
      restart == k[3] = "full" /\ w.fresh
      kinds == IF restart /\ w.ended THEN w.kinds ELSE w.past \cup w.kinds
  IN  /\ p \in Runners /\ proc[p].pc = "idle" /\ w.state = "due"
      /\ IF e # Epoch(b)
         THEN /\ work' = [work EXCEPT ![k].state = "obsolete"]
              /\ UNCHANGED proc
         ELSE /\ work' = [work EXCEPT ![k].state = "leased", ![k].owner = p, ![k].again = FALSE]
              /\ proc' = [proc EXCEPT ![p] =
                   [Idle EXCEPT !.pc = IF k[3] \in Docs THEN "single" ELSE "page",
                                !.key = k, !.b = b, !.e = e, !.kinds = kinds,
                                !.cursor = IF restart THEN 0 ELSE w.cursor]]
      /\ UNCHANGED <<chain, snap, made, doc, tx, sweeps, failures>>

(* One page of a sweep: the rows, and the epoch once more. *)
ReadPage(p) ==
  /\ proc[p].pc = "page"
  /\ LET q == proc[p]
         ns == PageOf(q.b, q.e, q.cursor)
     IN  proc' = [proc EXCEPT ![p] =
           IF ns = {} THEN [q EXCEPT !.pc = "exhausted"]
           ELSE IF Epoch(q.b) # q.e THEN [q EXCEPT !.pc = "obsolete"]
           ELSE NextCall(p, [q EXCEPT !.items = Resolved(q.b, q.e, ns, q.kinds),
                          !.last = q.cursor + Cardinality(ns), !.reclaim = FALSE, !.pend = {}])]
  /\ UNCHANGED <<chain, snap, made, doc, work, tx, sweeps, failures>>

(* projectSingleCommit, projectSinglePullRequest: the target is looked up   *)
(* in the canonical rows again.                                             *)
ReadSingle(p) ==
  /\ p \in Runners /\ proc[p].pc = "single"
  /\ LET q == proc[p]
         d == q.key[3]
         found == {i \in Resolved(q.b, q.e, After(q.b, q.e, 0), Kinds) : i.d = d}
     IN  proc' = [proc EXCEPT ![p] = NextCall(p, [q EXCEPT !.items = found])]
  /\ UNCHANGED <<chain, snap, made, doc, work, tx, sweeps, failures>>

(* Mutant of Delegate: the cursor moves, what is pending is forgotten. *)
DelegateNothing(p) ==
  /\ p \in Runners /\ proc[p].pc = "settle" /\ proc[p].key[3] \notin Docs
  /\ proc' = [proc EXCEPT ![p].pc = IF proc[p].stale THEN "obsolete" ELSE "save"]
  /\ UNCHANGED <<chain, snap, made, doc, work, tx, sweeps, failures>>

(* A page that met a newer epoch ends the sweep; what is pending becomes    *)
(* work of its own before the cursor moves.                                 *)
Delegate(p) ==
  /\ p \in Runners /\ proc[p].pc = "settle" /\ proc[p].key[3] \notin Docs
  /\ LET q == proc[p]
     IN  /\ work' = IF q.stale THEN work
                    ELSE RequestAll(work, {<<q.b, q.e, d>> : d \in q.pend}, Kinds)
         /\ proc' = [proc EXCEPT ![p].pc = IF q.stale THEN "obsolete" ELSE "save"]
  /\ UNCHANGED <<chain, snap, made, doc, tx, sweeps, failures>>

(* updateWorkProgress: only while the lease is held. *)
Saved(w, p, cursor, ended) ==
  IF w.owner # p THEN w
  ELSE [w EXCEPT !.cursor = cursor, !.past = proc[p].kinds, !.fresh = w.again, !.ended = ended]

(* Release of the row: done unless it was requested again, or the state the *)
(* outcome asks for.  Without the lease nothing is written.                 *)
Released(w, p, state) ==
  IF w.owner # p THEN w
  ELSE [w EXCEPT !.state = IF state = "done" /\ w.again THEN "due" ELSE state, !.owner = None]

SavePage(p) ==
  /\ proc[p].pc = "save"
  /\ LET q == proc[p]
         end == q.used + 1 = PagesPerClaim \/ q.last < q.cursor + PageSize
     IN  /\ work' = [work EXCEPT ![q.key] = Saved(@, p, q.last, FALSE)]
         /\ proc' = [proc EXCEPT ![p] = [q EXCEPT !.pc = IF end THEN "exhausted" ELSE "page",
                                                  !.cursor = q.last, !.used = @ + 1]]
  /\ UNCHANGED <<chain, snap, made, doc, tx, sweeps, failures>>

(* Are there rows after the cursor?  Then the budget is used up and the row *)
(* goes back to the queue, otherwise the sweep is complete.                 *)
FinishSweep(p) ==
  /\ proc[p].pc = "exhausted"
  /\ LET q == proc[p]
         done == After(q.b, q.e, q.cursor) = {}
     IN  work' = [work EXCEPT ![q.key] =
           Released(Saved(@, p, q.cursor, done), p, IF done THEN "done" ELSE "due")]
  /\ proc' = [proc EXCEPT ![p] = Idle]
  /\ UNCHANGED <<chain, snap, made, doc, tx, sweeps, failures>>

Obsolete(p) ==
  /\ proc[p].pc = "obsolete"
  /\ work' = [work EXCEPT ![proc[p].key] = Released(@, p, "obsolete")]
  /\ proc' = [proc EXCEPT ![p] = Idle]
  /\ UNCHANGED <<chain, snap, made, doc, tx, sweeps, failures>>

(* The outcome of a document's work: done, retried, or parked after         *)
(* MAX_RETRIES rounds without the document.                                 *)
SettleDoc(p) ==
  /\ p \in Runners /\ proc[p].pc = "settle" /\ proc[p].key[3] \in Docs
  /\ LET q == proc[p]
         d == q.key[3]
     IN  \E state \in IF q.stale THEN {"obsolete"}
                      ELSE IF q.pend = {} THEN {"done"}
                      ELSE IF doc[d].there THEN {"due"} ELSE {"due", "parked"} :
           /\ state = "parked" => failures < MaxFailures
           /\ failures' = IF state = "parked" THEN failures + 1 ELSE failures
           /\ work' = [work EXCEPT ![q.key] = Released(@, p, state)]
  /\ proc' = [proc EXCEPT ![p] = Idle]
  /\ UNCHANGED <<chain, snap, made, doc, tx, sweeps>>

(* reclaimExpiredLeases *)
Expire(k) ==
  /\ work[k].state = "leased" /\ failures < MaxFailures
  /\ work' = [work EXCEPT ![k].state = "due", ![k].owner = None]
  /\ failures' = failures + 1
  /\ UNCHANGED <<chain, snap, made, doc, proc, tx, sweeps>>

(* A sweep asked for by an operator, a repair or a reindex that cut over.   *)
RequestSweep(b) ==
  /\ sweeps < MaxSweeps /\ Epoch(b) > 0
  /\ \E ks \in SweepKinds : work' = RequestAll(work, {<<b, Epoch(b), "full">>}, ks)
  /\ sweeps' = sweeps + 1
  /\ UNCHANGED <<chain, snap, made, doc, proc, tx, failures>>

-----------------------------------------------------------------------------
(* Documents appear: enrichCommit and recordProjectionSnapshot              *)

(* A numbered commit gets its document, labelled with the branch. *)
Enrich(p, b, s) ==
  /\ p \in Enrichers /\ proc[p].pc = "idle" /\ s \notin made /\ Holds(b, s)
  /\ doc' = IF doc[s].there THEN doc ELSE [doc EXCEPT ![s] = Doc(b, 0, 0)]
  /\ proc' = [proc EXCEPT ![p] = [Idle EXCEPT !.pc = "single", !.key = <<b, 0, s>>, !.b = b]]
  /\ UNCHANGED <<chain, snap, made, work, tx, sweeps, failures>>

(* projectAfterCreate looks the commit up in the current epoch. *)
EnrichTarget(p) ==
  /\ p \in Enrichers /\ proc[p].pc = "single"
  /\ LET q == proc[p]
         s == q.key[3]
         found == IF Holds(q.b, s) THEN {[d |-> s, n |-> Position(chain[q.b][Epoch(q.b)], s)]} ELSE {}
     IN  proc' = [proc EXCEPT ![p] = NextCall(p, [q EXCEPT !.e = Epoch(q.b), !.items = found])]
  /\ UNCHANGED <<chain, snap, made, doc, work, tx, sweeps, failures>>

(* What is left pending becomes work in the epoch read again, and the       *)
(* commit is marked.                                                        *)
EnrichSettle(p) ==
  /\ p \in Enrichers /\ proc[p].pc = "settle"
  /\ LET q == proc[p]
     IN  /\ work' = IF q.pend = {} THEN work
                    ELSE RequestAll(work, {<<q.b, Epoch(q.b), q.key[3]>>}, Kinds)
         /\ made' = made \cup {q.key[3]}
  /\ proc' = [proc EXCEPT ![p] = Idle]
  /\ UNCHANGED <<chain, snap, doc, tx, sweeps, failures>>

(* The snapshot transaction of a merged pull request: it looks for the      *)
(* merge commit in the committed rows, and commits the snapshot with the    *)
(* document's work if it found it.  PostgreSQL runs it in READ COMMITTED:   *)
(* rows that are committed after the look-up are not seen.                  *)
OpenSnapshot(pr) ==
  /\ pr \notin snap /\ pr \notin DOMAIN tx
  /\ LET b == PrBranch[pr]
         k == IF Holds(b, PrSha[pr]) THEN {<<b, Epoch(b), pr>>} ELSE {}
     IN  tx' = [x \in DOMAIN tx \cup {pr} |-> IF x = pr THEN k ELSE tx[x]]
  /\ UNCHANGED <<chain, snap, made, doc, work, proc, sweeps, failures>>

CommitSnapshot(pr) ==
  /\ pr \in DOMAIN tx
  /\ snap' = snap \cup {pr}
  /\ work' = RequestAll(work, tx[pr], Kinds)
  /\ tx' = [x \in DOMAIN tx \ {pr} |-> tx[x]]
  /\ UNCHANGED <<chain, made, doc, proc, sweeps, failures>>

(* The index follows the snapshot. *)
IndexPr(pr) ==
  /\ pr \in snap /\ ~doc[pr].there
  /\ doc' = [doc EXCEPT ![pr] = Doc(PrBranch[pr], 0, 0)]
  /\ UNCHANGED <<chain, snap, made, work, proc, tx, sweeps, failures>>

-----------------------------------------------------------------------------
(* Faults *)

(* A call to Elasticsearch throws: the runner gives its row back, the       *)
(* numbering worker goes on, the enricher asks for the document's work.     *)
Throw(p) ==
  /\ proc[p].pc \in {"bump", "observe", "bulk"} /\ failures < MaxFailures
  /\ LET q == proc[p]
     IN  CASE p \in Runners -> /\ work' = [work EXCEPT ![q.key] = Released(@, p, "due")]
                               /\ proc' = [proc EXCEPT ![p] = Idle]
           [] p \in Numberers -> /\ proc' = [proc EXCEPT ![p] = Idle]
                                 /\ UNCHANGED work
           [] p \in Enrichers -> /\ proc' = [proc EXCEPT ![p] = [Idle EXCEPT !.pc = "settle", !.key = q.key,
                                                     !.b = q.b, !.pend = {q.key[3]}]]
                                 /\ UNCHANGED work
  /\ failures' = failures + 1
  /\ UNCHANGED <<chain, snap, made, doc, tx, sweeps>>

(* A process dies: what it held in memory is gone, and its lease runs out   *)
(* before anything else can happen to the row.                              *)
Crash(p) ==
  /\ proc[p].pc # "idle" /\ failures < MaxFailures
  /\ proc' = [proc EXCEPT ![p] = Idle]
  /\ work' = [k \in Keys |-> IF work[k].owner = p THEN [work[k] EXCEPT !.state = "due", !.owner = None] ELSE work[k]]
  /\ failures' = failures + 1
  /\ UNCHANGED <<chain, snap, made, doc, tx, sweeps>>

-----------------------------------------------------------------------------
ProjectionInit ==
  /\ chain = [b \in Branches |-> <<>>]
  /\ snap = Early \cap Pulls
  /\ made = Early \cap Shas
  /\ doc = [d \in Shas \cup Pulls |->
             IF d \in Early THEN Doc(IF d \in Pulls THEN PrBranch[d] ELSE None, 0, 0) ELSE NoDoc]
  /\ work = [k \in Branches \X (1 .. MaxEpoch) \X ({"tail", "full"} \cup Shas \cup Pulls) |-> NoWork]
  /\ proc = [p \in Numberers \cup Runners \cup Enrichers |-> Idle]
  /\ tx = <<>>
  /\ sweeps = 0 /\ failures = 0

Numbering == \E p \in Numberers, b \in Branches : Assign(p, b) \/ Reassign(p, b)

Project(p) == Bump(p) \/ ReadEpoch(p) \/ ReadRange(p) \/ Observe(p) \/ Bulk(p) \/ Holders(p)
              \/ ReadPage(p) \/ ReadSingle(p) \/ Delegate(p) \/ SavePage(p)
              \/ FinishSweep(p) \/ Obsolete(p) \/ SettleDoc(p)
              \/ EnrichTarget(p) \/ EnrichSettle(p)

ProjectionNext ==
  \/ Numbering
  \/ \E p \in Procs : Project(p) \/ Throw(p) \/ Crash(p)
  \/ \E p \in Runners, k \in Keys : ClaimWork(p, k)
  \/ \E k \in Keys : Expire(k)
  \/ \E b \in Branches : RequestSweep(b)
  \/ \E p \in Enrichers, b \in Branches, s \in Shas : Enrich(p, b, s)
  \/ \E pr \in Pulls : OpenSnapshot(pr) \/ CommitSnapshot(pr) \/ IndexPr(pr)

ProjectionSpec == ProjectionInit /\ [][ProjectionNext]_projectionVars

-----------------------------------------------------------------------------
(* Properties *)

(* Every row has a lease exactly while a runner may own it, no process has  *)
(* items in hand that its epoch does not number, and a document that is not *)
(* there carries nothing (sequence_work, SequenceProjectionItem).           *)
ProjectionTypeOK ==
  /\ \A b \in DOMAIN chain : Range(chain[b]) \subseteq Histories[b] /\ Epoch(b) <= MaxEpoch
  /\ snap \subseteq Pulls /\ made \subseteq Shas /\ DOMAIN tx \subseteq Pulls \ snap
  /\ \A d \in Docs : \/ doc[d] = NoDoc
                     \/ \E b \in Branches \cup {None}, e \in 0 .. MaxEpoch, n \in 0 .. Cardinality(Shas) : doc[d] = Doc(b, e, n)
  /\ \A k \in Keys : /\ work[k].state \in {"none", "due", "leased", "done", "obsolete", "parked"}
                     /\ work[k].owner \in Runners \cup {None}
                     /\ work[k].state = "leased" <=> work[k].owner # None
                     /\ work[k].kinds \cup work[k].past \subseteq Kinds
  /\ \A p \in Procs : \A i \in proc[p].items \cup proc[p].wr :
       /\ proc[p].e \in 1 .. Epoch(proc[p].b)
       /\ chain[proc[p].b][proc[p].e][i.n] = ShaOf(i.d)
  /\ sweeps \in 0 .. MaxSweeps /\ failures \in 0 .. MaxFailures

Quiescent ==
  /\ \A p \in Procs : proc[p].pc = "idle"
  /\ \A k \in Keys : work[k].state \in {"none", "done", "obsolete"}
  /\ DOMAIN tx = {}

(* The document shows the number its own branch gives its commit now; a     *)
(* commit document without a branch is one that no branch holds.            *)
Shown(d) ==
  LET b == doc[d].branch
      c == chain[b][Epoch(b)]
  IN  doc[d].there =>
        IF b = None THEN \A x \in DOMAIN chain : ~Holds(x, ShaOf(d))
        ELSE Holds(b, ShaOf(d)) => doc[d] = Doc(b, Epoch(b), Position(c, ShaOf(d)))

(* Once all work is done, a document shows the canonical number of its      *)
(* branch, whatever failed on the way, if it was there before its commit was *)
(* numbered or has had work of its own in the current epoch                 *)
(* (projectSequenceRange, runSpaceProjectionWork, runDocProjectionWork).     *)
SettledIsShown ==
  Quiescent => \A d \in Docs :
    (d \in Early \/ \E b \in DOMAIN chain : Epoch(b) > 0 /\ work[<<b, Epoch(b), d>>].state = "done") => Shown(d)

(* No step takes a document of a branch back to an older epoch of the same  *)
(* branch: sweeps, single documents and inline ranges of an old epoch meet  *)
(* the guard of the update script.                                          *)
EpochNotLowered ==
  [][\A d \in Docs : doc'[d].branch = doc[d].branch => doc'[d].epoch >= doc[d].epoch]_projectionVars
=============================================================================
