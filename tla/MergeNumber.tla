----------------------------- MODULE MergeNumber -----------------------------
(***************************************************************************)
(* Merge numbers (M): the rows of a numbered branch that are merges of a   *)
(* pull request are counted 1, 2, 3 ... in the order of their sequence     *)
(* numbers, once there is evidence which pull request each row is.         *)
(*                                                                         *)
(* A round (reconcileMergeNumbers) reads the checkpoint and the rows after *)
(* it, asks GitHub outside of any transaction, and then writes evidence,   *)
(* numbers and checkpoint in one transaction that checks what it read.     *)
(* Rounds overlap when a lease expires.  The numbers are copied to the     *)
(* documents by durable `materialize' work.  One branch is modelled.       *)
(***************************************************************************)
EXTENDS Naturals, Sequences, FiniteSets

CONSTANTS
  Shas, Prs,
  Landed,        \* [Shas -> SUBSET Prs]: the pull requests GitHub says were merged as this commit (external)
  Hint,          \* [Shas -> Prs \cup {None}]: the pull request the numbering worker knows for a row, if it does
  Squash,        \* the commits with fewer than two parents
  History,       \* [1 .. MaxEpoch -> Seq(Shas)]: the chain the branch has in each epoch
  Failures,      \* the ways a lookup may fail in the instance
  Documents,     \* the documents that get created in the instance
  Attesting,     \* whether an operator may attest that rows without evidence are direct pushes
  Reconcilers, Materializers,
  BatchSize,     \* config.batchSize
  NumberMax,     \* MERGE_NUMBER_MAX
  MaxEpoch, MaxFaults,   \* bounds
  None

Timed == {"fetch_failed", "profile_unverified", "partial_lookup"}      \* released, to be tried again
Attestable == {"negative_evidence_unavailable", "unsupported_merge_profile"}
Final == Attestable \cup {"mapping_conflict", "canonical_mismatch", "number_capacity_exceeded"}
Reasons == Timed \cup Final

ASSUME MergeNumberAssumption ==
  /\ MaxEpoch \in Nat \ {0} /\ BatchSize \in Nat /\ NumberMax \in Nat /\ MaxFaults \in Nat
  /\ Landed \in [Shas -> SUBSET Prs] /\ Hint \in [Shas -> Prs \cup {None}] /\ Squash \subseteq Shas
  /\ DOMAIN History = 1 .. MaxEpoch /\ \A e \in 1 .. MaxEpoch : History[e] \in Seq(Shas)
  /\ Failures \subseteq Timed /\ None \notin Reasons \cup Prs

VARIABLES
  space,     \* sequence_space: the epoch, the checkpoint, what blocks it
  row,       \* merge_sequence: row[e] is the chain of epoch e
  evid,      \* mnumber_evidence, one record per epoch and row
  seen,      \* pull requests whose merge GitHub shows (external)
  snap,      \* pull requests with a merged snapshot in PostgreSQL
  attested,  \* the epochs with an active attestation
  rec, mat,  \* sequence_work of the kinds reconcile and materialize
  hints,     \* the epochs whose EVT-SEQ-001/002 is not consumed yet
  proc,      \* the rounds and materializations in progress
  cleared,   \* clearedEpochBySpace of each process
  doc,       \* the documents of the served index
  faults

vars == <<space, row, evid, seen, snap, attested, rec, mat, hints, proc, cleared, doc, faults>>

Epochs == DOMAIN row
Seqs == DOMAIN evid[1]
Workers == DOMAIN proc

NoWork == [state |-> "none", again |-> FALSE, force |-> FALSE, owner |-> None]
NoEvidence == [state |-> "absent", pr |-> None, reason |-> None, fresh |-> FALSE]
Idle == [pc |-> "idle", key |-> 0, pr |-> None, e |-> 0, headSeq |-> 0, head |-> 0, force |-> FALSE,
         dec |-> <<>>, stale |-> FALSE, sha |-> None, num |-> 0]
NewSpace(e) == [epoch |-> e, state |-> "active", headSeq |-> 0, head |-> 0, blocked |-> None]

Upto(n) == 1 .. n
Numbered(e) == {i \in DOMAIN row[e] : row[e][i].num > 0}
NumberedPrs(e) == {row[e][i].pr : i \in Numbered(e)}

-----------------------------------------------------------------------------
(* The durable work of both kinds *)

(* requestWork: the payload is replaced, a lease is left alone. *)
Requested(w, force) ==
  [w EXCEPT !.state = IF w.state = "leased" THEN "leased" ELSE "due", !.again = (w.state = "leased"), !.force = force]

Leased(w, p) == [w EXCEPT !.state = "leased", !.again = FALSE, !.owner = p]

(* completeWork and releaseWork do nothing when the lease is not theirs.   *)
Completed(w, p) ==
  IF w.owner # p THEN w
  ELSE [w EXCEPT !.state = IF w.again THEN "due" ELSE "none", !.again = FALSE, !.owner = None]

Released(w, p) ==
  IF w.owner # p THEN w ELSE [w EXCEPT !.state = "due", !.again = FALSE, !.owner = None]

-----------------------------------------------------------------------------
(* What the rest of the system does *)

(* assignSequence: a row, the reconcile work in the same transaction, and   *)
(* the event after it.                                                      *)
AddRow ==
  LET e == space.epoch
      s == History[e][Len(row[e]) + 1]
  IN  /\ space.state = "active"
      /\ Len(row[e]) < Len(History[e])
      /\ \E pr \in {None, Hint[s]} : row' = [row EXCEPT ![e] = @ \o <<[sha |-> s, pr |-> pr, num |-> 0]>>]
      /\ rec' = [rec EXCEPT ![e] = Requested(@, FALSE)]
      /\ hints' = hints \cup {e}
      /\ UNCHANGED <<space, evid, seen, snap, attested, mat, proc, cleared, doc, faults>>

(* markReassigning, committed on its own. *)
MarkReassigning ==
  /\ space.state = "active" /\ space.epoch < MaxEpoch
  /\ space' = [space EXCEPT !.state = "reassigning"]
  /\ UNCHANGED <<row, evid, seen, snap, attested, rec, mat, hints, proc, cleared, doc, faults>>

(* The rows the chains of two epochs share. *)
Shared(e, f) == {i \in DOMAIN row[e] \cap DOMAIN History[f] : \A j \in Upto(i) : row[e][j].sha = History[f][j]}

(* Mutant of Rebased: the checkpoint of the old epoch is kept. *)
RebasedFromCheckpoint(f) == [space EXCEPT !.epoch = f, !.state = "active", !.headSeq = 0]

(* bumpEpoch puts the checkpoint back to zero. *)
Rebased(f) == NewSpace(f)

(* reassignSequence: copySequencesUpTo keeps the pull request of a row, not *)
(* its number.                                                              *)
Reassign ==
  LET e == space.epoch
      f == e + 1
  IN  /\ space.state = "reassigning"
      /\ space' = Rebased(f)
      /\ \E late \in SUBSET (DOMAIN History[f] \ Shared(e, f)) :
           row' = [row EXCEPT ![f] = [i \in DOMAIN History[f] |->
                     [sha |-> History[f][i], num |-> 0,
                      pr |-> IF i \in Shared(e, f) THEN row[e][i].pr
                             ELSE IF i \in late THEN None ELSE Hint[History[f][i]]]]]
      /\ rec' = [rec EXCEPT ![f] = Requested(@, FALSE)]
      /\ hints' = hints \cup {f}
      /\ UNCHANGED <<evid, seen, snap, attested, mat, proc, cleared, doc, faults>>

(* restoreSequenceState, when the rebuild fails. *)
GiveUpReassign ==
  /\ space.state = "reassigning" /\ faults < MaxFaults
  /\ space' = [space EXCEPT !.state = "active"]
  /\ faults' = faults + 1
  /\ UNCHANGED <<row, evid, seen, snap, attested, rec, mat, hints, proc, cleared, doc>>

(* handleMergeNumberHint: the event, whenever it arrives, asks for another  *)
(* round of the epoch it names if that is still the current one.            *)
ConsumeHint(e) ==
  /\ e \in hints
  /\ hints' = hints \ {e}
  /\ rec' = IF space.epoch = e THEN [rec EXCEPT ![e] = Requested(@, FALSE)] ELSE rec
  /\ UNCHANGED <<space, row, evid, seen, snap, attested, mat, proc, cleared, doc, faults>>

(* GitHub shows the merge (external). *)
Merge(p) ==
  /\ p \notin seen
  /\ seen' = seen \cup {p}
  /\ UNCHANGED <<space, row, evid, snap, attested, rec, mat, hints, proc, cleared, doc, faults>>

(* recordProjectionSnapshot of a merged pull request. *)
Snapshot(p) ==
  /\ p \in seen \ snap
  /\ snap' = snap \cup {p}
  /\ rec' = [rec EXCEPT ![space.epoch] = Requested(@, TRUE)]
  /\ UNCHANGED <<space, row, evid, seen, attested, mat, hints, proc, cleared, doc, faults>>

(* The documents are created by the project and enrich workers. *)
CreateDoc(d) ==
  /\ d \in Documents /\ ~doc[d].there
  /\ d \in Prs => d \in snap
  /\ \E s \in {s \in Shas : d \in {s} \cup Landed[s]} : doc' = [doc EXCEPT ![d].there = TRUE, ![d].sha = s]
  /\ UNCHANGED <<space, row, evid, seen, snap, attested, rec, mat, hints, proc, cleared, faults>>

(* prsctl mnumber attest and revoke, for the current epoch. *)
Attest ==
  /\ Attesting /\ space.epoch \notin attested
  /\ attested' = attested \cup {space.epoch}
  /\ rec' = [rec EXCEPT ![space.epoch] = Requested(@, FALSE)]
  /\ UNCHANGED <<space, row, evid, seen, snap, mat, hints, proc, cleared, doc, faults>>

Revoke ==
  /\ \E e \in attested : attested' = attested \ {e}
  /\ UNCHANGED <<space, row, evid, seen, snap, rec, mat, hints, proc, cleared, doc, faults>>

(* EVIDENCE_RECHECK_MS goes by. *)
Recheckable(i) ==
  /\ evid[space.epoch][i].fresh
  /\ evid' = [evid EXCEPT ![space.epoch][i].fresh = FALSE]
  /\ UNCHANGED <<space, row, seen, snap, attested, rec, mat, hints, proc, cleared, doc, faults>>

-----------------------------------------------------------------------------
(* resolveEvidence and applyAttestation *)

Confirmed(pr) == [kind |-> "pr", pr |-> pr, reason |-> None, grace |-> FALSE, kept |-> FALSE]
Direct(kept) == [kind |-> "direct", pr |-> None, reason |-> None, grace |-> FALSE, kept |-> kept]
Open(reason, grace) == [kind |-> "open", pr |-> None, reason |-> reason, grace |-> grace, kept |-> FALSE]

(* The candidates are the pull request of the row and the snapshots that    *)
(* name the commit; GitHub is asked for the list only if none of them is    *)
(* confirmed.                                                               *)
Matches(r) ==
  LET true == Landed[r.sha] \cap seen
      candidates == {r.pr} \cup (snap \cap Landed[r.sha])
  IN  IF candidates \cap true # {} THEN candidates \cap true ELSE true

(* What a lookup that succeeds says of a row: one decision, in a set. *)
Judged(r) ==
  CASE r.sha \notin Squash -> {Open("unsupported_merge_profile", FALSE)}
    [] Cardinality(Matches(r)) > 1 -> {Open("mapping_conflict", FALSE)}
    [] Cardinality(Matches(r)) = 1 -> {Confirmed(pr) : pr \in Matches(r)}
    [] OTHER -> {Open("negative_evidence_unavailable", FALSE)}

(* What a round may find for a row.  A lookup may fail; an incomplete one   *)
(* says so only when it has found nothing.                                  *)
Found(r, v, force) ==
  CASE v.state = "pr" -> {Confirmed(v.pr)}
    [] v.state = "direct" -> {Direct(TRUE)}
    [] v.state = "open" /\ v.fresh /\ ~force /\ v.reason # "partial_lookup" -> {Open(v.reason, FALSE)}
    [] OTHER -> Judged(r) \cup {Open(x, FALSE) : x \in Failures \ (IF Matches(r) = {} THEN {} ELSE {"partial_lookup"})}

(* The grace period of the attestation is over, or it is not. *)
Decisions(e, r, v, force) ==
  UNION {IF d.kind = "open" /\ d.reason \in Attestable /\ e \in attested
         THEN {Direct(FALSE), Open(d.reason, TRUE)} ELSE {d} : d \in Found(r, v, force)}

-----------------------------------------------------------------------------
(* planMergeNumbers *)

(* How many of the first i decisions are pull requests. *)
Count(dec, i) == Cardinality({j \in Upto(i) : dec[j].kind = "pr"})

(* What stops the plan at the i-th decision, if the ones before it do not. *)
Blocker(q, i) ==
  LET d == q.dec[i]
      r == row[q.e][q.headSeq + i]
  IN  CASE d.kind = "open" -> d.reason
        [] d.kind = "direct" -> None
        [] d.kind = "pr" /\ r.pr \notin {None, d.pr} -> "canonical_mismatch"
        [] d.pr \in NumberedPrs(q.e) \cup {q.dec[j].pr : j \in Upto(i - 1)} -> "mapping_conflict"
        [] q.head + Count(q.dec, i) > NumberMax -> "number_capacity_exceeded"
        [] OTHER -> None

(* How far the plan may get: no decision on the way stops it. *)
Reach(q) == {n \in 0 .. Len(q.dec) : \A i \in Upto(n) : Blocker(q, i) = None}

-----------------------------------------------------------------------------
(* A round of reconcileMergeNumbers *)

(* The work is claimed and the space is read. *)
StartRound(p) ==
  \E k \in Epochs :
    /\ proc[p].pc = "idle" /\ rec[k].state = "due"
    /\ IF space.state = "reassigning"
       THEN UNCHANGED <<rec, proc>>
       ELSE /\ rec' = [rec EXCEPT ![k] = Leased(@, p)]
            /\ proc' = [proc EXCEPT ![p] = [Idle EXCEPT
                 !.pc = IF cleared[p] < space.epoch THEN "clear" ELSE "look", !.key = k, !.force = rec[k].force,
                 !.e = space.epoch, !.headSeq = space.headSeq, !.head = space.head]]
    /\ UNCHANGED <<space, row, evid, seen, snap, attested, mat, hints, cleared, doc, faults>>

(* clearMergeNumbersBelowEpoch; a failure is only logged. *)
Clear(p) ==
  /\ proc[p].pc = "clear"
  /\ proc' = [proc EXCEPT ![p].pc = "look"]
  /\ \/ /\ doc' = [d \in DOMAIN doc |-> IF doc[d].epoch \in 1 .. (proc[p].e - 1)
                                        THEN [doc[d] EXCEPT !.epoch = proc[p].e, !.num = 0] ELSE doc[d]]
        /\ cleared' = [cleared EXCEPT ![p] = proc[p].e]
        /\ UNCHANGED faults
     \/ /\ faults < MaxFaults
        /\ faults' = faults + 1
        /\ UNCHANGED <<doc, cleared>>
  /\ UNCHANGED <<space, row, evid, seen, snap, attested, rec, mat, hints>>

(* The rows after the checkpoint, what is known of them, and what GitHub    *)
(* says: up to the first row that stays open.                               *)
Look(p) ==
  LET q == proc[p]
      n == IF Len(row[q.e]) - q.headSeq < BatchSize THEN Len(row[q.e]) - q.headSeq ELSE BatchSize
      at(i) == Decisions(q.e, row[q.e][q.headSeq + i], evid[q.e][q.headSeq + i], q.force)
  IN  /\ q.pc = "look"
      /\ IF n = 0
         THEN /\ rec' = [rec EXCEPT ![q.key] = Completed(@, p)]
              /\ proc' = [proc EXCEPT ![p] = Idle]
         ELSE /\ \E m \in Upto(n) : \E dec \in [Upto(m) -> UNION {at(i) : i \in Upto(m)}] :
                   /\ \A i \in Upto(m) : dec[i] \in at(i) /\ (i < m => dec[i].kind # "open")
                   /\ m < n => dec[m].kind = "open"
                   /\ proc' = [proc EXCEPT ![p].pc = "commit", ![p].dec = dec]
              /\ UNCHANGED rec
      /\ UNCHANGED <<space, row, evid, seen, snap, attested, mat, hints, cleared, doc, faults>>

(* Mutant of Overtaken: the evidence is not locked and compared. *)
OvertakenAtCheckpoint(q) == space.epoch # q.e \/ space.headSeq # q.headSeq

(* The epoch, the checkpoint, or the evidence of a row has moved since.     *)
Overtaken(q) == space.epoch # q.e \/ space.headSeq # q.headSeq \/ q.stale

(* upsertEvidence for every decision that brings one. *)
Recorded(q) ==
  [i \in Seqs |->
     IF i - q.headSeq \notin DOMAIN q.dec \/ i <= q.headSeq THEN evid[q.e][i]
     ELSE LET d == q.dec[i - q.headSeq]
          IN  IF d.kept THEN evid[q.e][i]
              ELSE [state |-> d.kind, pr |-> d.pr, reason |-> d.reason, fresh |-> (d.kind = "open")]]

(* The rows whose evidence is written. *)
Touched(q) == {q.headSeq + i : i \in {i \in DOMAIN q.dec : ~q.dec[i].kept}}

(* assignMergeNumbers: the chain with the numbers of the first n decisions. *)
Given(q, n) ==
  [i \in DOMAIN row[q.e] |->
     IF i - q.headSeq \in Upto(n) /\ q.dec[i - q.headSeq].kind = "pr"
     THEN [sha |-> row[q.e][i].sha, pr |-> q.dec[i - q.headSeq].pr, num |-> q.head + Count(q.dec, i - q.headSeq)]
     ELSE row[q.e][i]]

(* The round o finds evidence of another version once q has committed.      *)
Noticed(q, o) ==
  IF /\ o.pc = "commit" /\ o.e = q.e
     /\ Touched(q) \cap {o.headSeq + i : i \in DOMAIN o.dec} # {}
  THEN [o EXCEPT !.stale = TRUE] ELSE o

(* The transaction: evidence, numbers, checkpoint and work.  The plan may   *)
(* run out of its time budget after any row.                                *)
Commit(p) ==
  LET q == proc[p]
  IN  /\ q.pc = "commit"
      /\ ~Overtaken(q)
      /\ \E n \in Reach(q) :
           LET stop == IF n = Len(q.dec) THEN None ELSE Blocker(q, n + 1)
               new == {i \in Upto(n) : q.dec[i].kind = "pr"}
               again == n < Len(q.dec) /\ (stop = None \/ stop \in Timed \/ q.dec[n + 1].grace)
           IN  /\ evid' = [evid EXCEPT ![q.e] = Recorded(q)]
               /\ row' = [row EXCEPT ![q.e] = Given(q, n)]
               /\ space' = [space EXCEPT !.headSeq = q.headSeq + n, !.head = q.head + Count(q.dec, n), !.blocked = stop]
               /\ mat' = [k \in DOMAIN mat |-> IF k[1] = q.e /\ k[2] \in {q.dec[i].pr : i \in new}
                                              THEN Requested(mat[k], FALSE) ELSE mat[k]]
               /\ rec' = [rec EXCEPT ![q.key] = IF again THEN Released(@, p) ELSE Completed(@, p)]
               /\ proc' = [r \in Workers |-> IF r = p THEN Idle ELSE Noticed(q, proc[r])]
      /\ UNCHANGED <<seen, snap, attested, hints, cleared, doc, faults>>

(* The round is dropped: it was overtaken, the lock is taken, or the        *)
(* transaction fails.                                                       *)
DropRound(p) ==
  /\ proc[p].pc = "commit"
  /\ rec' = [rec EXCEPT ![proc[p].key] = Released(@, p)]
  /\ proc' = [proc EXCEPT ![p] = Idle]
  /\ UNCHANGED <<space, row, evid, seen, snap, attested, mat, hints, cleared, doc, faults>>

-----------------------------------------------------------------------------
(* materializeMergeNumber *)

(* The work is claimed and the space is read. *)
StartMaterialize(p) ==
  \E k \in DOMAIN mat :
    /\ proc[p].pc = "idle" /\ mat[k].state = "due"
    /\ IF space.epoch # k[1]
       THEN /\ mat' = [mat EXCEPT ![k] = NoWork]
            /\ UNCHANGED proc
       ELSE /\ mat' = [mat EXCEPT ![k] = Leased(@, p)]
            /\ proc' = [proc EXCEPT ![p] = [Idle EXCEPT !.pc = "lookup", !.e = k[1], !.pr = k[2]]]
    /\ UNCHANGED <<space, row, evid, seen, snap, attested, rec, hints, cleared, doc, faults>>

(* lookupMergeNumbers joins the current epoch, whichever that is by now.    *)
Lookup(p) ==
  LET q == proc[p]
      rs == {i \in DOMAIN row[space.epoch] : row[space.epoch][i].pr = q.pr}
  IN  /\ q.pc = "lookup"
      /\ IF rs = {}
         THEN /\ mat' = [mat EXCEPT ![<<q.e, q.pr>>] = Completed(@, p)]
              /\ proc' = [proc EXCEPT ![p] = Idle]
         ELSE /\ \E i \in rs :
                   /\ \A j \in rs : i <= j
                   /\ proc' = [proc EXCEPT ![p].pc = "pr", ![p].sha = row[space.epoch][i].sha, ![p].num = row[space.epoch][i].num]
              /\ UNCHANGED mat
      /\ UNCHANGED <<space, row, evid, seen, snap, attested, rec, hints, cleared, doc, faults>>

(* Mutant of Applied: a document of a newer epoch is overwritten. *)
AppliedAlways(o, q) == [o EXCEPT !.epoch = q.e, !.num = q.num]

(* The update script: nothing older than what the document has. *)
Applied(o, q) == IF o.epoch > q.e THEN o ELSE [o EXCEPT !.epoch = q.e, !.num = q.num]

(* applyMergeNumberToDocument; without the document, or with another merge  *)
(* commit in it, the work is tried again later.                             *)
WritePr(p) ==
  LET q == proc[p]
  IN  /\ q.pc = "pr"
      /\ IF doc[q.pr].there /\ doc[q.pr].sha = q.sha
         THEN /\ doc' = [doc EXCEPT ![q.pr] = Applied(@, q)]
              /\ proc' = [proc EXCEPT ![p].pc = "merge_commit"]
              /\ UNCHANGED mat
         ELSE /\ mat' = [mat EXCEPT ![<<q.e, q.pr>>] = Released(@, p)]
              /\ proc' = [proc EXCEPT ![p] = Idle]
              /\ UNCHANGED doc
      /\ UNCHANGED <<space, row, evid, seen, snap, attested, rec, hints, cleared, faults>>

(* applyMergeNumberToCommitDocument *)
WriteCommit(p) ==
  LET q == proc[p]
  IN  /\ q.pc = "merge_commit"
      /\ proc' = [proc EXCEPT ![p] = Idle]
      /\ IF doc[q.sha].there
         THEN /\ doc' = [doc EXCEPT ![q.sha] = Applied(@, q)]
              /\ mat' = [mat EXCEPT ![<<q.e, q.pr>>] = Completed(@, p)]
         ELSE /\ mat' = [mat EXCEPT ![<<q.e, q.pr>>] = Released(@, p)]
              /\ UNCHANGED doc
      /\ UNCHANGED <<space, row, evid, seen, snap, attested, rec, hints, cleared, faults>>

-----------------------------------------------------------------------------
(* Faults *)

(* A lease runs out while its holder goes on. *)
LoseLease ==
  /\ faults < MaxFaults
  /\ faults' = faults + 1
  /\ \/ \E e \in Epochs : rec[e].state = "leased" /\ rec' = [rec EXCEPT ![e] = Released(@, @.owner)] /\ UNCHANGED mat
     \/ \E k \in DOMAIN mat : mat[k].state = "leased" /\ mat' = [mat EXCEPT ![k] = Released(@, @.owner)] /\ UNCHANGED rec
  /\ UNCHANGED <<space, row, evid, seen, snap, attested, hints, proc, cleared, doc>>

(* A process dies; its lease runs out by itself. *)
Die(p) ==
  /\ proc[p].pc # "idle" /\ faults < MaxFaults
  /\ faults' = faults + 1
  /\ proc' = [proc EXCEPT ![p] = Idle]
  /\ cleared' = [cleared EXCEPT ![p] = 0]
  /\ rec' = [e \in Epochs |-> Released(rec[e], p)]
  /\ mat' = [k \in DOMAIN mat |-> Released(mat[k], p)]
  /\ UNCHANGED <<space, row, evid, seen, snap, attested, hints, doc>>

-----------------------------------------------------------------------------
Init ==
  /\ space = NewSpace(1)
  /\ row = [e \in 1 .. MaxEpoch |-> <<>>]
  /\ evid = [e \in 1 .. MaxEpoch |-> [i \in UNION {DOMAIN History[f] : f \in 1 .. MaxEpoch} |-> NoEvidence]]
  /\ seen = {} /\ snap = {} /\ attested = {} /\ hints = {}
  /\ rec = [e \in 1 .. MaxEpoch |-> NoWork]
  /\ mat = [k \in (1 .. MaxEpoch) \X Prs |-> NoWork]
  /\ proc = [p \in Reconcilers \cup Materializers |-> Idle]
  /\ cleared = [p \in Reconcilers \cup Materializers |-> 0]
  /\ doc = [d \in Prs \cup Shas |-> [there |-> FALSE, sha |-> None, epoch |-> 0, num |-> 0]]
  /\ faults = 0

Round(p) == StartRound(p) \/ Clear(p) \/ Look(p) \/ Commit(p) \/ DropRound(p)
Materialize(p) == StartMaterialize(p) \/ Lookup(p) \/ WritePr(p) \/ WriteCommit(p)

Next ==
  \/ AddRow \/ MarkReassigning \/ Reassign \/ GiveUpReassign \/ Attest \/ Revoke
  \/ \E e \in Epochs : ConsumeHint(e)
  \/ \E p \in Prs : Merge(p) \/ Snapshot(p)
  \/ \E d \in Prs \cup Shas : CreateDoc(d)
  \/ \E i \in Seqs : Recheckable(i)
  \/ \E p \in Reconcilers : Round(p)
  \/ \E p \in Materializers : Materialize(p)
  \/ LoseLease \/ \E p \in Workers : Die(p)

Spec == Init /\ [][Next]_vars

-----------------------------------------------------------------------------
(* The records have their shapes, and a lease has exactly one holder: work  *)
(* is leased if and only if it has an owner (the rows of sequence_work).    *)
TypeOK ==
  /\ space.epoch \in Epochs /\ space.state \in {"active", "reassigning"}
  /\ space.headSeq \in 0 .. Len(row[space.epoch]) /\ space.head \in 0 .. space.headSeq
  /\ space.blocked \in Reasons \cup {None}
  /\ \A w \in {rec[e] : e \in Epochs} \cup {mat[k] : k \in DOMAIN mat} :
       /\ w.state \in {"none", "due", "leased"}
       /\ (w.state = "leased") = (w.owner \in Workers)
       /\ w.again => w.state = "leased"
  /\ \A e \in Epochs : \A i \in Seqs : evid[e][i].state \in {"absent", "open", "direct", "pr"}
  /\ snap \subseteq seen

(* In every epoch the merge numbers are 1, 2, 3 ... in the order of the     *)
(* sequence numbers, no pull request has two, each rests on the confirmed   *)
(* evidence of its row; and behind the checkpoint of the current epoch a    *)
(* row has a number or is a confirmed direct push, before it none has, so   *)
(* the checkpoint counts them: whatever overlapping rounds, rebuilds and    *)
(* attestations do (reconcileMergeNumbers).                                 *)
NumbersAreGapless ==
  /\ \A e \in Epochs : \A i \in Numbered(e) :
       /\ row[e][i].num = Cardinality({j \in Numbered(e) : j <= i})
       /\ evid[e][i].state = "pr" /\ evid[e][i].pr = row[e][i].pr
       /\ \A j \in Numbered(e) : row[e][j].pr = row[e][i].pr => i = j
  /\ LET e == space.epoch
     IN  /\ space.head = Cardinality(Numbered(e))
         /\ \A i \in DOMAIN row[e] : IF i <= space.headSeq THEN i \in Numbered(e) \/ evid[e][i].state = "direct"
                                     ELSE i \notin Numbered(e)

(* A number once given and evidence once confirmed are never changed within *)
(* their epoch, whatever a late round has in hand (assignMergeNumbers and   *)
(* the evidence check in mnumber.ts).                                       *)
NumbersAreKept ==
  [][\A e \in Epochs :
       /\ \A i \in DOMAIN row[e] : row[e][i].num > 0 => row'[e][i] = row[e][i]
       /\ \A i \in Seqs : evid[e][i].state \in {"pr", "direct"} =>
            evid'[e][i].state = evid[e][i].state /\ evid'[e][i].pr = evid[e][i].pr]_vars

(* When the materialization of a numbered pull request is neither due nor   *)
(* running, its document and that of its merge commit show the number under *)
(* the current epoch: late writers of an older epoch and the clearing of    *)
(* old numbers do not undo it (materializeMergeNumber, merge-number.ts).    *)
NumberedIsShown ==
  \A i \in Numbered(space.epoch) :
    LET r == row[space.epoch][i]
    IN  (/\ mat[<<space.epoch, r.pr>>].state = "none"
         /\ \A p \in Workers : proc[p].pr # r.pr)
        => \A d \in {r.pr, r.sha} : doc[d].epoch = space.epoch /\ doc[d].num = r.num
=============================================================================
