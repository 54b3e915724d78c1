-------------------------- MODULE MergeNumberProofs --------------------------
(****************************************************************************)
(* Proofs about MergeNumber, for any chains, pull requests, processes,      *)
(* batch size, limit and faults.                                            *)
(*                                                                          *)
(* A round commits only at the checkpoint it read, and the checkpoint of an *)
(* epoch only moves up: so what it read of the checkpoint and the rows      *)
(* still holds, and rows the evidence of which another round has written    *)
(* meanwhile have made it stale.  The numbers it gives then continue those  *)
(* behind the checkpoint without a gap.                                     *)
(*                                                                          *)
(* A number and the materialize work of its pull request are written in one *)
(* transaction, and only the holder of the work ends it, after both         *)
(* documents.  A writer of an older epoch is turned away by a document that *)
(* has the current one; a writer of the current epoch holds the number of   *)
(* its row or another commit, which the document of the pull request does   *)
(* not name.                                                                *)
(****************************************************************************)
EXTENDS MergeNumber, FiniteSetTheorems, TLAPS

Es == 1 .. MaxEpoch
Ss == UNION {DOMAIN History[f] : f \in Es}
Ws == Reconcilers \cup Materializers
Rows == [sha : Shas, pr : Prs \cup {None}, num : Nat]
Works == [state : {"none", "due", "leased"}, again : BOOLEAN, force : BOOLEAN, owner : Ws \cup {None}]
Spaces == [epoch : Es, state : {"active", "reassigning"}, headSeq : Nat, head : Nat, blocked : Reasons \cup {None}]
Evidences ==
  {v \in [state : {"absent", "open", "direct", "pr"}, pr : Prs \cup {None}, reason : Reasons \cup {None}, fresh : BOOLEAN] :
     v.state = "open" => v.reason # None}
Decs ==
  {d \in [kind : {"pr", "direct", "open"}, pr : Prs \cup {None}, reason : Reasons \cup {None}, grace : BOOLEAN, kept : BOOLEAN] :
     (d.kind = "open" => d.reason # None) /\ (d.kept => d.kind = "direct")}
Procs ==
  [pc : {"idle", "clear", "look", "commit", "lookup", "pr", "merge_commit"}, key : Es \cup {0}, pr : Prs \cup {None},
   e : Es \cup {0}, headSeq : Nat, head : Nat, force : BOOLEAN, dec : Seq(Decs), stale : BOOLEAN,
   sha : Shas \cup {None}, num : Nat]

TypeInv ==
  /\ space \in Spaces /\ row \in [Es -> Seq(Rows)] /\ evid \in [Es -> [Ss -> Evidences]]
  /\ rec \in [Es -> Works] /\ DOMAIN mat = Es \X Prs /\ proc \in [Ws -> Procs]

(* Chains grow along the history of their epoch, those of later epochs are  *)
(* not begun, and the checkpoint is in the chain of the current one.        *)
ChainInv ==
  /\ \A e \in Es : Len(row[e]) <= Len(History[e]) /\ (e > space.epoch => row[e] = <<>>)
  /\ space.headSeq <= Len(row[space.epoch])
  /\ space.state = "reassigning" => space.epoch < MaxEpoch

(* What a round read of the checkpoint. *)
Started(q) ==
  q.pc \in {"clear", "look", "commit"} =>
    /\ q.e \in Es /\ q.e <= space.epoch
    /\ q.e = space.epoch => /\ q.headSeq <= space.headSeq
                            /\ q.headSeq = space.headSeq => q.head = space.head

(* What it decided stands on evidence that is there, unless it is stale. *)
Agrees(d, v) ==
  /\ v.state = "pr" => d.kind = "pr" /\ d.pr = v.pr
  /\ v.state = "direct" <=> d.kept

Decided(q) ==
  q.pc = "commit" =>
    /\ q.headSeq + Len(q.dec) <= Len(row[q.e])
    /\ ~q.stale => \A i \in DOMAIN q.dec : Agrees(q.dec[i], evid[q.e][q.headSeq + i])

RoundsInv == \A p \in Ws : Started(proc[p]) /\ Decided(proc[p])

(* The parts of NumbersAreGapless. *)
Rank(N, i) == Cardinality({j \in N : j <= i})
Gapless(e) ==
  \A i \in Numbered(e) :
    /\ row[e][i].num = Rank(Numbered(e), i)
    /\ evid[e][i].state = "pr" /\ evid[e][i].pr = row[e][i].pr
    /\ \A j \in Numbered(e) : row[e][j].pr = row[e][i].pr => i = j
GaplessInv == \A e \in Es : Gapless(e)

Checkpoint ==
  LET e == space.epoch
  IN  /\ space.head = Cardinality(Numbered(e))
      /\ \A i \in DOMAIN row[e] : IF i <= space.headSeq THEN i \in Numbered(e) \/ evid[e][i].state = "direct"
                                  ELSE i \notin Numbered(e)

(* The inductive invariant.                                                 *)
IInv == TypeInv /\ ChainInv /\ RoundsInv /\ GaplessInv /\ Checkpoint

----------------------------------------------------------------------------
(* Types.                                                                   *)

LEMMA ConstOK ==
  /\ Es \subseteq Nat /\ 0 \notin Es /\ 1 \in Es /\ MaxEpoch \in Nat /\ BatchSize \in Nat /\ None \notin Reasons /\ None \notin Prs
  /\ \A e \in Es : History[e] \in Seq(Shas) /\ DOMAIN History[e] \subseteq Ss
BY MergeNumberAssumption DEF Es, Ss

LEMMA SpaceOK ==
  ASSUME TypeInv
  PROVE  /\ space \in Spaces /\ space.epoch \in Es /\ space.epoch \in Nat /\ space.headSeq \in Nat /\ space.head \in Nat
         /\ space.state \in {"active", "reassigning"}
BY ConstOK DEF TypeInv, Spaces

LEMMA RowOK ==
  ASSUME TypeInv, NEW e \in Es
  PROVE  /\ row[e] \in Seq(Rows) /\ Len(row[e]) \in Nat /\ DOMAIN row[e] = 1 .. Len(row[e])
         /\ \A i \in DOMAIN row[e] : /\ row[e][i] \in Rows /\ row[e][i].sha \in Shas /\ row[e][i].pr \in Prs \cup {None}
                                     /\ row[e][i].num \in Nat /\ i \in Nat
<1>1. row[e] \in Seq(Rows) /\ Len(row[e]) \in Nat /\ DOMAIN row[e] = 1 .. Len(row[e])
  BY DEF TypeInv
<1>2. \A i \in DOMAIN row[e] : row[e][i] \in Rows /\ i \in Nat
  BY <1>1
<1>. QED  BY <1>1, <1>2 DEF Rows

LEMMA ChainOK ==
  ASSUME TypeInv, ChainInv, NEW e \in Es
  PROVE  DOMAIN row[e] \subseteq Ss /\ \A i \in DOMAIN row[e] : evid[e][i] \in Evidences
<1>1. /\ Len(row[e]) \in Nat /\ DOMAIN row[e] = 1 .. Len(row[e]) /\ Len(History[e]) \in Nat
      /\ DOMAIN History[e] = 1 .. Len(History[e]) /\ DOMAIN History[e] \subseteq Ss
  BY RowOK, ConstOK
<1>2. DOMAIN row[e] \subseteq DOMAIN History[e]
  BY <1>1 DEF ChainInv
<1>. QED  BY <1>1, <1>2 DEF TypeInv

LEMMA ProcOK ==
  ASSUME TypeInv, NEW p \in Ws
  PROVE  /\ proc[p] \in Procs /\ proc[p].key \in Es \cup {0} /\ proc[p].e \in Es \cup {0} /\ proc[p].headSeq \in Nat
         /\ proc[p].head \in Nat /\ proc[p].force \in BOOLEAN /\ proc[p].dec \in Seq(Decs) /\ proc[p].stale \in BOOLEAN
         /\ proc[p].pr \in Prs \cup {None}
         /\ proc[p].pc \in {"idle", "clear", "look", "commit", "lookup", "pr", "merge_commit"}
BY DEF TypeInv, Procs

LEMMA IdleOK == Idle \in Procs /\ Idle.pc = "idle"
BY DEF Idle, Procs

LEMMA WorkOK ==
  ASSUME NEW w \in Works, NEW f \in BOOLEAN, NEW p \in Ws \cup {None}
  PROVE  /\ Requested(w, f) \in Works /\ Leased(w, p) \in Works /\ Completed(w, p) \in Works /\ Released(w, p) \in Works
         /\ w.owner \in Ws \cup {None} /\ w.force \in BOOLEAN
<1>1. /\ w.state \in {"none", "due", "leased"} /\ w.again \in BOOLEAN /\ w.force \in BOOLEAN /\ w.owner \in Ws \cup {None}
  BY DEF Works
<1>2. Requested(w, f) \in Works
  <2>1. PICK b \in BOOLEAN : b = (w.state = "leased")
    OBVIOUS
  <2>2. PICK s \in {"due", "leased"} : s = IF w.state = "leased" THEN "leased" ELSE "due"
    OBVIOUS
  <2>3. Requested(w, f) = [w EXCEPT !.state = s, !.again = b, !.force = f]
    BY <2>1, <2>2 DEF Requested
  <2>. QED  BY <2>3 DEF Works
<1>3. Leased(w, p) \in Works
  BY DEF Works, Leased
<1>4. Completed(w, p) \in Works
  <2>1. PICK s \in {"due", "none"} : s = IF w.again THEN "due" ELSE "none"
    OBVIOUS
  <2>2. Completed(w, p) \in {w, [w EXCEPT !.state = s, !.again = FALSE, !.owner = None]}
    BY <2>1 DEF Completed
  <2>3. [w EXCEPT !.state = s, !.again = FALSE, !.owner = None] \in Works
    BY DEF Works
  <2>. QED  BY <2>2, <2>3
<1>5. Released(w, p) \in Works
  BY DEF Works, Released
<1>. QED  BY <1>1, <1>2, <1>3, <1>4, <1>5

LEMMA RecOK ==
  ASSUME TypeInv, NEW k \in Es \cup {0}, NEW w \in Works
  PROVE  [rec EXCEPT ![k] = w] \in [Es -> Works]
BY DEF TypeInv

----------------------------------------------------------------------------
(* Steps that touch no row and no evidence.                                 *)

LEMMA GaplessKept ==
  ASSUME NEW e, Gapless(e), Numbered(e)' = Numbered(e),
         \A i \in Numbered(e) : /\ row'[e][i] = row[e][i]
                                /\ evid'[e][i].state = evid[e][i].state /\ evid'[e][i].pr = evid[e][i].pr
  PROVE  Gapless(e)'
<1>1. PICK N : N = Numbered(e) /\ N = Numbered(e)'
  OBVIOUS
<1>2. \A i \in N : /\ row[e][i].num = Rank(N, i)
                   /\ evid[e][i].state = "pr" /\ evid[e][i].pr = row[e][i].pr
                   /\ \A j \in N : row[e][j].pr = row[e][i].pr => i = j
  BY <1>1 DEF Gapless
<1>3. \A i \in N : /\ row'[e][i].num = Rank(N, i)
                   /\ evid'[e][i].state = "pr" /\ evid'[e][i].pr = row'[e][i].pr
                   /\ \A j \in N : row'[e][j].pr = row'[e][i].pr => i = j
  BY <1>1, <1>2
<1>. QED  BY <1>1, <1>3 DEF Gapless

LEMMA NumbersSame ==
  ASSUME UNCHANGED <<space, row, evid>>, GaplessInv, Checkpoint
  PROVE  GaplessInv' /\ Checkpoint'
<1>1. \A e \in Es : Numbered(e)' = Numbered(e)
  BY DEF Numbered
<1>2. GaplessInv'
  BY <1>1, GaplessKept DEF GaplessInv
<1>3. Checkpoint'
  BY DEF Checkpoint, Numbered
<1>. QED  BY <1>2, <1>3

LEMMA WorkStep ==
  ASSUME IInv, UNCHANGED <<space, row, evid, proc>>, rec' \in [Es -> Works], DOMAIN mat' = DOMAIN mat
  PROVE  IInv'
<1>1. TypeInv' /\ ChainInv'
  BY DEF IInv, TypeInv, ChainInv
<1>2. RoundsInv'
  BY DEF IInv, RoundsInv, Started, Decided, Agrees
<1>3. GaplessInv' /\ Checkpoint'
  BY NumbersSame DEF IInv
<1>. QED  BY <1>1, <1>2, <1>3 DEF IInv

LEMMA ProcStep ==
  ASSUME IInv, UNCHANGED <<space, row, evid>>, rec' \in [Es -> Works], DOMAIN mat' = DOMAIN mat,
         NEW p \in Ws, NEW r \in Procs, proc' = [proc EXCEPT ![p] = r], Started(r), Decided(r)
  PROVE  IInv'
<1>1. proc' \in [Ws -> Procs] /\ proc'[p] = r /\ \A u \in Ws : u # p => proc'[u] = proc[u]
  BY DEF IInv, TypeInv
<1>2. TypeInv' /\ ChainInv'
  BY <1>1 DEF IInv, TypeInv, ChainInv
<1>3. RoundsInv'
  <2>. SUFFICES ASSUME NEW u \in Ws PROVE Started(proc[u])' /\ Decided(proc[u])'
    BY DEF RoundsInv
  <2>1. PICK x : x = proc'[u] /\ Started(x) /\ Decided(x)
    BY <1>1 DEF IInv, RoundsInv
  <2>. QED  BY <2>1 DEF Started, Decided, Agrees
<1>4. GaplessInv' /\ Checkpoint'
  BY NumbersSame DEF IInv
<1>. QED  BY <1>2, <1>3, <1>4 DEF IInv

(* Work that is requested, done, released or lost, and what rounds do not   *)
(* look at.                                                                 *)
LEMMA RequestStep ==
  ASSUME IInv, \/ \E e \in Epochs : ConsumeHint(e)
               \/ \E p \in Prs : Merge(p) \/ Snapshot(p)
               \/ \E d \in Prs \cup Shas : CreateDoc(d)
               \/ Attest \/ Revoke \/ LoseLease
  PROVE  IInv'
<1>1. TypeInv /\ Epochs = Es /\ rec \in [Es -> Works] /\ space.epoch \in Es
  BY SpaceOK DEF IInv, TypeInv, Epochs
<1>2. \A e \in Es, f \in BOOLEAN : [rec EXCEPT ![e] = Requested(rec[e], f)] \in [Es -> Works]
  BY <1>1, RecOK, WorkOK
<1>3. \A e \in Es : [rec EXCEPT ![e] = Released(rec[e], rec[e].owner)] \in [Es -> Works]
  BY <1>1, RecOK, WorkOK
<1>4. ASSUME NEW e \in Epochs, ConsumeHint(e) PROVE IInv'
  <2>1. rec' \in [Es -> Works]
    BY <1>1, <1>2, <1>4 DEF ConsumeHint
  <2>. QED  BY <1>4, <2>1, WorkStep DEF ConsumeHint
<1>5. ASSUME NEW p \in Prs, Merge(p) PROVE IInv'
  BY <1>1, <1>5, WorkStep DEF Merge
<1>6. ASSUME NEW p \in Prs, Snapshot(p) PROVE IInv'
  <2>1. rec' \in [Es -> Works]
    BY <1>1, <1>2, <1>6 DEF Snapshot
  <2>. QED  BY <1>6, <2>1, WorkStep DEF Snapshot
<1>7. ASSUME NEW d \in Prs \cup Shas, CreateDoc(d) PROVE IInv'
  BY <1>1, <1>7, WorkStep DEF CreateDoc
<1>8. CASE Attest
  <2>1. rec' \in [Es -> Works]
    BY <1>1, <1>2, <1>8 DEF Attest
  <2>. QED  BY <1>8, <2>1, WorkStep DEF Attest
<1>9. CASE Revoke
  BY <1>1, <1>9, WorkStep DEF Revoke
<1>10. CASE LoseLease
  <2>1. rec' \in [Es -> Works]
    BY <1>1, <1>3, <1>10 DEF LoseLease
  <2>2. DOMAIN mat' = DOMAIN mat
    BY <1>10 DEF LoseLease
  <2>. QED  BY <1>10, <2>1, <2>2, WorkStep DEF LoseLease
<1>. QED  BY <1>4, <1>5, <1>6, <1>7, <1>8, <1>9, <1>10

(* A rebuild is announced or given up.                                      *)
LEMMA StateStep ==
  ASSUME IInv, UNCHANGED <<row, evid, rec, mat, proc>>, NEW t \in {"active", "reassigning"},
         space' = [space EXCEPT !.state = t], t = "reassigning" => space.epoch < MaxEpoch
  PROVE  IInv'
<1>1. TypeInv
  BY DEF IInv
<1>2. /\ space' \in Spaces /\ space'.epoch = space.epoch /\ space'.headSeq = space.headSeq
      /\ space'.head = space.head /\ space'.state = t
  BY <1>1, SpaceOK DEF Spaces
<1>3. TypeInv' /\ ChainInv'
  BY <1>2 DEF IInv, TypeInv, ChainInv
<1>4. RoundsInv'
  BY <1>2 DEF IInv, RoundsInv, Started, Decided, Agrees
<1>5. \A e \in Es : Numbered(e)' = Numbered(e)
  BY DEF Numbered
<1>6. GaplessInv'
  BY <1>5, GaplessKept DEF IInv, GaplessInv
<1>7. Checkpoint'
  BY <1>2 DEF IInv, Checkpoint, Numbered
<1>. QED  BY <1>3, <1>4, <1>6, <1>7 DEF IInv

(* EVIDENCE_RECHECK_MS.                                                     *)
LEMMA RecheckStep ==
  ASSUME IInv, NEW i \in Seqs, Recheckable(i)
  PROVE  IInv'
<1>1. TypeInv /\ space.epoch \in Es /\ evid \in [Es -> [Ss -> Evidences]]
  BY SpaceOK DEF IInv, TypeInv
<1>2. PICK e \in Es : e = space.epoch
  BY <1>1
<1>3. i \in Ss
  BY <1>1, ConstOK DEF Seqs
<1>4. /\ evid' = [evid EXCEPT ![e] = [evid[e] EXCEPT ![i] = [evid[e][i] EXCEPT !.fresh = FALSE]]]
      /\ UNCHANGED <<space, row, rec, mat, proc>>
  BY <1>2 DEF Recheckable
<1>5. PICK v : v = [evid[e][i] EXCEPT !.fresh = FALSE]
  OBVIOUS
<1>6. evid[e][i] \in Evidences
  BY <1>1, <1>3
<1>7. v \in Evidences /\ v.state = evid[e][i].state /\ v.pr = evid[e][i].pr
  BY <1>5, <1>6 DEF Evidences
<1>8. evid' = [evid EXCEPT ![e] = [evid[e] EXCEPT ![i] = v]]
  BY <1>4, <1>5
<1>9. evid' \in [Es -> [Ss -> Evidences]]
  BY <1>1, <1>7, <1>8
<1>10. \A f \in Es, j \in Ss : evid'[f][j].state = evid[f][j].state /\ evid'[f][j].pr = evid[f][j].pr
  BY <1>1, <1>3, <1>7, <1>8
<1>11. TypeInv' /\ ChainInv'
  BY <1>4, <1>9 DEF IInv, TypeInv, ChainInv
<1>12. \A f \in Es : DOMAIN row[f] \subseteq Ss /\ Numbered(f) \subseteq Ss /\ Numbered(f)' = Numbered(f)
  BY <1>1, <1>4, ChainOK DEF IInv, Numbered
<1>13. GaplessInv'
  BY <1>4, <1>10, <1>12, GaplessKept DEF IInv, GaplessInv
<1>14. Checkpoint'
  BY <1>1, <1>4, <1>10, <1>12 DEF IInv, Checkpoint
<1>15. RoundsInv'
  <2>. SUFFICES ASSUME NEW p \in Ws PROVE Started(proc[p])' /\ Decided(proc[p])'
    BY DEF RoundsInv
  <2>1. PICK q \in Procs : q = proc[p] /\ q = proc'[p] /\ Started(q) /\ Decided(q)
    BY <1>1, <1>4, ProcOK DEF IInv, RoundsInv
  <2>2. Started(q)'
    BY <1>4, <2>1 DEF Started
  <2>3. Decided(q)'
    <3>. SUFFICES ASSUME q.pc = "commit", ~q.stale, NEW j \in DOMAIN q.dec
                  PROVE  Agrees(q.dec[j], evid'[q.e][q.headSeq + j])
      BY <1>4, <2>1 DEF Decided, Agrees
    <3>1. q.e \in Es /\ q.headSeq + Len(q.dec) <= Len(row[q.e]) /\ Agrees(q.dec[j], evid[q.e][q.headSeq + j])
      BY <2>1 DEF Started, Decided
    <3>2. q.headSeq \in Nat /\ q.dec \in Seq(Decs) /\ Len(row[q.e]) \in Nat /\ DOMAIN row[q.e] = 1 .. Len(row[q.e])
      BY <1>1, <3>1, RowOK DEF Procs
    <3>3. q.headSeq + j \in DOMAIN row[q.e]
      BY <3>1, <3>2
    <3>4. q.headSeq + j \in Ss
      BY <1>12, <3>1, <3>3
    <3>. QED  BY <1>10, <3>1, <3>4 DEF Agrees
  <2>. QED  BY <2>1, <2>2, <2>3
<1>. QED  BY <1>11, <1>13, <1>14, <1>15 DEF IInv

----------------------------------------------------------------------------
(* Rows that are added: at the end of the chain, and without a number.      *)

LEMMA AddRowStep ==
  ASSUME IInv, AddRow
  PROVE  IInv'
<1>1. TypeInv /\ ChainInv /\ space.epoch \in Es /\ space.headSeq \in Nat /\ rec \in [Es -> Works] /\ row \in [Es -> Seq(Rows)]
  BY SpaceOK DEF IInv, TypeInv
<1>2. PICK e \in Es : e = space.epoch
  BY <1>1
<1>3. /\ Len(row[e]) < Len(History[e]) /\ UNCHANGED <<space, evid, mat, proc>>
      /\ rec' = [rec EXCEPT ![e] = Requested(rec[e], FALSE)]
      /\ \E pr \in {None, Hint[History[e][Len(row[e]) + 1]]} :
           row' = [row EXCEPT ![e] = row[e] \o <<[sha |-> History[e][Len(row[e]) + 1], pr |-> pr, num |-> 0]>>]
  BY <1>2 DEF AddRow
<1>4. row[e] \in Seq(Rows) /\ Len(row[e]) \in Nat /\ DOMAIN row[e] = 1 .. Len(row[e]) /\ Len(History[e]) \in Nat
  BY <1>1, RowOK, ConstOK
<1>5. PICK s \in Shas : s = History[e][Len(row[e]) + 1]
  BY <1>3, <1>4, ConstOK
<1>6. PICK r \in Rows : r.num = 0 /\ row' = [row EXCEPT ![e] = row[e] \o <<r>>]
  <2>1. PICK pr \in {None, Hint[s]} : row' = [row EXCEPT ![e] = row[e] \o <<[sha |-> s, pr |-> pr, num |-> 0]>>]
    BY <1>3, <1>5
  <2>2. pr \in Prs \cup {None}
    BY <2>1, MergeNumberAssumption
  <2>3. [sha |-> s, pr |-> pr, num |-> 0] \in Rows
    BY <2>2 DEF Rows
  <2>. QED  BY <2>1, <2>3
<1>7. PICK c : c = row[e] \o <<r>>
  OBVIOUS
<1>8. /\ c \in Seq(Rows) /\ Len(c) = Len(row[e]) + 1 /\ DOMAIN c = 1 .. Len(row[e]) + 1
      /\ \A i \in DOMAIN row[e] : c[i] = row[e][i]
      /\ c[Len(row[e]) + 1].num = 0
  BY <1>4, <1>6, <1>7
<1>9. row' \in [Es -> Seq(Rows)] /\ row'[e] = c /\ \A f \in Es : f # e => row'[f] = row[f]
  BY <1>1, <1>6, <1>7, <1>8
<1>10. rec' \in [Es -> Works]
  BY <1>1, <1>3, RecOK, WorkOK
<1>11. TypeInv'
  BY <1>3, <1>9, <1>10 DEF IInv, TypeInv
<1>12. \A f \in Es : Len(row[f]) \in Nat /\ Len(row'[f]) \in Nat /\ Len(row[f]) <= Len(row'[f])
  <2>1. \A f \in Es : Len(row[f]) \in Nat
    BY <1>1, RowOK
  <2>. QED  BY <1>4, <1>8, <1>9, <2>1
<1>13. ChainInv'
  <2>1. \A f \in Es : Len(row'[f]) <= Len(History[f])
    BY <1>1, <1>3, <1>4, <1>8, <1>9 DEF ChainInv
  <2>2. \A f \in Es : f > space.epoch => row'[f] = <<>>
    <3>1. ~(e > space.epoch)
      BY <1>2, ConstOK
    <3>. QED  BY <1>1, <1>9, <3>1 DEF ChainInv
  <2>3. space.headSeq <= Len(row'[e])
    BY <1>1, <1>2, <1>12 DEF ChainInv
  <2>. QED  BY <1>1, <1>2, <1>3, <2>1, <2>2, <2>3 DEF ChainInv
<1>14. \A f \in Es : Numbered(f)' = Numbered(f) /\ \A i \in Numbered(f) : row'[f][i] = row[f][i]
  <2>. SUFFICES ASSUME NEW f \in Es PROVE Numbered(f)' = Numbered(f) /\ \A i \in Numbered(f) : row'[f][i] = row[f][i]
    OBVIOUS
  <2>1. CASE f # e
    BY <1>9, <2>1 DEF Numbered
  <2>2. CASE f = e
    <3>1. \A i \in DOMAIN c : i \in DOMAIN row[e] \/ i = Len(row[e]) + 1
      BY <1>4, <1>8
    <3>2. DOMAIN row[e] \subseteq DOMAIN c /\ ~(c[Len(row[e]) + 1].num > 0)
      BY <1>4, <1>8
    <3>3. {i \in DOMAIN c : c[i].num > 0} = {i \in DOMAIN row[e] : row[e][i].num > 0}
      BY <1>8, <3>1, <3>2
    <3>. QED  BY <1>8, <1>9, <2>2, <3>3 DEF Numbered
  <2>. QED  BY <2>1, <2>2
<1>15. GaplessInv'
  BY <1>3, <1>14, GaplessKept DEF IInv, GaplessInv
<1>16. Checkpoint'
  <2>1. space.head = Cardinality(Numbered(e))'
    BY <1>2, <1>14 DEF IInv, Checkpoint
  <2>2. ASSUME NEW i \in DOMAIN c
        PROVE  IF i <= space.headSeq THEN i \in Numbered(e) \/ evid[e][i].state = "direct" ELSE i \notin Numbered(e)
    <3>1. CASE i \in DOMAIN row[e]
      BY <1>2, <3>1 DEF IInv, Checkpoint
    <3>2. CASE i \notin DOMAIN row[e]
      <4>1. i = Len(row[e]) + 1 /\ i \notin Numbered(e)
        BY <1>4, <1>8, <2>2, <3>2 DEF Numbered
      <4>2. ~(i <= space.headSeq)
        BY <1>1, <1>2, <1>4, <4>1 DEF ChainInv
      <4>. QED  BY <4>1, <4>2
    <3>. QED  BY <3>1, <3>2
  <2>. QED  BY <1>2, <1>3, <1>9, <1>14, <2>1, <2>2 DEF Checkpoint
<1>17. RoundsInv'
  <2>. SUFFICES ASSUME NEW p \in Ws PROVE Started(proc[p])' /\ Decided(proc[p])'
    BY DEF RoundsInv
  <2>1. PICK q \in Procs : q = proc[p] /\ q = proc'[p] /\ Started(q) /\ Decided(q)
    BY <1>1, <1>3, ProcOK DEF IInv, RoundsInv
  <2>2. Started(q)'
    BY <1>3, <2>1 DEF Started
  <2>3. Decided(q)'
    <3>. SUFFICES ASSUME q.pc = "commit" PROVE Decided(q)'
      BY DEF Decided
    <3>1. q.e \in Es /\ q.headSeq + Len(q.dec) <= Len(row[q.e]) /\ q.headSeq \in Nat /\ Len(q.dec) \in Nat
      BY <2>1 DEF Started, Decided, Procs
    <3>2. q.headSeq + Len(q.dec) <= Len(row'[q.e])
      BY <1>12, <3>1
    <3>. QED  BY <1>3, <2>1, <3>2 DEF Decided, Agrees
  <2>. QED  BY <2>1, <2>2, <2>3
<1>. QED  BY <1>11, <1>13, <1>15, <1>16, <1>17 DEF IInv

(* A rebuild: the chain of the next epoch begins at once, the checkpoint at *)
(* zero, and no round of that epoch is under way.                           *)
LEMMA ReassignStep ==
  ASSUME IInv, Reassign
  PROVE  IInv'
<1>1. /\ TypeInv /\ ChainInv /\ space.epoch \in Es /\ space.epoch \in Nat /\ rec \in [Es -> Works] /\ row \in [Es -> Seq(Rows)]
      /\ space.state = "reassigning"
  BY SpaceOK DEF IInv, TypeInv, Reassign
<1>2. PICK e \in Es, f \in Es : e = space.epoch /\ f = e + 1
  <2>1. space.epoch + 1 \in Es
    BY <1>1, ConstOK DEF ChainInv, Es
  <2>. QED  BY <1>1, <2>1
<1>3. /\ space' = NewSpace(f) /\ UNCHANGED <<evid, mat, proc>>
      /\ rec' = [rec EXCEPT ![f] = Requested(rec[f], FALSE)]
  BY <1>2 DEF Reassign, Rebased
<1>. DEFINE E == space.epoch
            F == space.epoch + 1
            new(late, i) == [sha |-> History[F][i], num |-> 0,
                             pr |-> IF i \in Shared(E, F) THEN row[E][i].pr
                                    ELSE IF i \in late THEN None ELSE Hint[History[F][i]]]
            chain(late) == [i \in DOMAIN History[F] |-> new(late, i)]
<1>4. PICK late \in SUBSET (DOMAIN History[F] \ Shared(E, F)) : row' = [row EXCEPT ![F] = chain(late)]
  BY DEF Reassign
<1>5. History[f] \in Seq(Shas) /\ Len(History[f]) \in Nat /\ DOMAIN History[f] = 1 .. Len(History[f])
  BY ConstOK
<1>6. ASSUME NEW i \in DOMAIN History[F] PROVE new(late, i) \in Rows /\ new(late, i).num = 0
  <2>1. History[F][i] \in Shas /\ Hint[History[F][i]] \in Prs \cup {None}
    BY <1>2, <1>5, <1>6, MergeNumberAssumption
  <2>2. i \in Shared(E, F) => row[E][i].pr \in Prs \cup {None}
    BY <1>1, RowOK DEF Shared
  <2>3. PICK pr \in Prs \cup {None} : pr = IF i \in Shared(E, F) THEN row[E][i].pr
                                           ELSE IF i \in late THEN None ELSE Hint[History[F][i]]
    BY <2>1, <2>2
  <2>4. new(late, i) = [sha |-> History[F][i], num |-> 0, pr |-> pr]
    BY <2>3
  <2>. HIDE DEF new
  <2>. QED  BY <2>1, <2>4 DEF Rows
<1>. HIDE DEF new
<1>7. PICK c : c = chain(late)
  OBVIOUS
<1>8. c \in Seq(Rows) /\ Len(c) = Len(History[f]) /\ DOMAIN c = DOMAIN History[f] /\ \A i \in DOMAIN c : c[i].num = 0
  <2>1. DOMAIN History[F] = 1 .. Len(History[f])
    BY <1>2, <1>5
  <2>2. c \in [1 .. Len(History[f]) -> Rows]
    BY <1>6, <1>7, <2>1
  <2>3. \A i \in DOMAIN c : c[i].num = 0
    BY <1>6, <1>7
  <2>. QED  BY <1>5, <2>2, <2>3
<1>9. row' \in [Es -> Seq(Rows)] /\ row'[f] = c /\ \A g \in Es : g # f => row'[g] = row[g]
  <2>1. row' = [row EXCEPT ![f] = c]
    BY <1>2, <1>4, <1>7
  <2>. QED  BY <1>1, <1>8, <2>1
<1>10. rec' \in [Es -> Works]
  BY <1>1, <1>3, RecOK, WorkOK
<1>11. space' \in Spaces /\ space'.epoch = f /\ space'.headSeq = 0 /\ space'.head = 0 /\ space'.state = "active"
  BY <1>3 DEF NewSpace, Spaces
<1>12. TypeInv'
  BY <1>3, <1>9, <1>10, <1>11 DEF IInv, TypeInv
<1>13. ChainInv'
  <2>1. \A g \in Es : Len(row'[g]) <= Len(History[g])
    <3>1. Len(row'[f]) <= Len(History[f])
      BY <1>5, <1>8, <1>9
    <3>2. \A g \in Es : g # f => Len(row'[g]) <= Len(History[g])
      BY <1>1, <1>9 DEF ChainInv
    <3>. QED  BY <3>1, <3>2
  <2>2. \A g \in Es : g > f => row'[g] = <<>>
    BY <1>1, <1>2, <1>9, ConstOK DEF ChainInv
  <2>. QED  BY <1>5, <1>8, <1>9, <1>11, <2>1, <2>2 DEF ChainInv
<1>14. row[f] = <<>>
  BY <1>1, <1>2 DEF ChainInv
<1>15. Numbered(f)' = {} /\ Numbered(f) = {} /\ \A g \in Es : g # f => Numbered(g)' = Numbered(g)
  BY <1>8, <1>9, <1>14 DEF Numbered
<1>16. GaplessInv'
  <2>. SUFFICES ASSUME NEW g \in Es PROVE Gapless(g)'
    BY DEF GaplessInv
  <2>1. CASE g = f
    BY <1>15, <2>1 DEF Gapless
  <2>2. CASE g # f
    BY <1>3, <1>9, <1>15, <2>2, GaplessKept DEF IInv, GaplessInv
  <2>. QED  BY <2>1, <2>2
<1>17. Checkpoint'
  <2>1. Cardinality(Numbered(f)') = 0
    BY <1>15, FS_EmptySet
  <2>2. \A i \in DOMAIN c : ~(i <= 0)
    BY <1>5, <1>8
  <2>. QED  BY <1>9, <1>11, <1>15, <2>1, <2>2 DEF Checkpoint
<1>18. RoundsInv'
  <2>. SUFFICES ASSUME NEW p \in Ws PROVE Started(proc[p])' /\ Decided(proc[p])'
    BY DEF RoundsInv
  <2>1. PICK q \in Procs : q = proc[p] /\ q = proc'[p] /\ Started(q) /\ Decided(q)
    BY <1>1, <1>3, ProcOK DEF IInv, RoundsInv
  <2>2. q.pc \in {"clear", "look", "commit"} => q.e \in Es /\ q.e # f /\ q.e <= f
    <3>. SUFFICES ASSUME q.pc \in {"clear", "look", "commit"} PROVE q.e \in Es /\ q.e # f /\ q.e <= f
      OBVIOUS
    <3>1. q.e \in Es /\ q.e <= e
      BY <1>2, <2>1 DEF Started
    <3>2. q.e \in Nat /\ e \in Nat
      BY <3>1, ConstOK
    <3>. QED  BY <1>2, <3>1, <3>2
  <2>3. Started(q)'
    BY <1>11, <2>2 DEF Started
  <2>4. Decided(q)'
    <3>. SUFFICES ASSUME q.pc = "commit" PROVE Decided(q)'
      BY DEF Decided
    <3>1. row'[q.e] = row[q.e]
      BY <1>9, <2>2
    <3>. QED  BY <1>3, <2>1, <3>1 DEF Decided, Agrees
  <2>. QED  BY <2>1, <2>3, <2>4
<1>. QED  BY <1>12, <1>13, <1>16, <1>17, <1>18 DEF IInv

----------------------------------------------------------------------------
(* Rounds and materializations up to their commit.                          *)

(* What may be decided about a row, and how it stands to the evidence.      *)
LEMMA JudgedOK ==
  ASSUME NEW r \in Rows, NEW d \in Judged(r)
  PROVE  d \in Decs /\ ~d.kept
<1>1. Matches(r) \subseteq Prs
  <2>1. Landed[r.sha] \subseteq Prs
    BY MergeNumberAssumption DEF Rows
  <2>. QED  BY <2>1 DEF Matches
<1>2. \A x \in Reasons : Open(x, FALSE) \in Decs /\ ~Open(x, FALSE).kept
  BY ConstOK DEF Open, Decs
<1>3. \A x \in Prs : Confirmed(x) \in Decs /\ ~Confirmed(x).kept
  BY DEF Confirmed, Decs
<1>4. {"unsupported_merge_profile", "mapping_conflict", "negative_evidence_unavailable"} \subseteq Reasons
  BY DEF Reasons, Final, Attestable
<1>5. \/ d \in {Open(x, FALSE) : x \in {"unsupported_merge_profile", "mapping_conflict", "negative_evidence_unavailable"}}
      \/ d \in {Confirmed(pr) : pr \in Matches(r)}
  BY DEF Judged
<1>. QED  BY <1>1, <1>2, <1>3, <1>4, <1>5

LEMMA FoundOK ==
  ASSUME NEW r \in Rows, NEW v \in Evidences, NEW force \in BOOLEAN, NEW d \in Found(r, v, force)
  PROVE  d \in Decs /\ Agrees(d, v) /\ (d.kind = "open" => v.state \notin {"pr", "direct"})
<1>1. /\ v.state \in {"absent", "open", "direct", "pr"} /\ v.pr \in Prs \cup {None}
      /\ v.state = "open" => v.reason \in Reasons
  BY DEF Evidences
<1>2. \A x \in Reasons : Open(x, FALSE) \in Decs /\ ~Open(x, FALSE).kept
  BY ConstOK DEF Open, Decs
<1>3. Failures \subseteq Reasons
  BY MergeNumberAssumption DEF Reasons
<1>4. CASE v.state = "pr"
  <2>1. d = Confirmed(v.pr)
    BY <1>4 DEF Found
  <2>. QED  BY <1>1, <1>4, <2>1 DEF Confirmed, Decs, Agrees
<1>5. CASE v.state = "direct"
  <2>1. d = Direct(TRUE)
    BY <1>5 DEF Found
  <2>. QED  BY <1>1, <1>5, <2>1 DEF Direct, Decs, Agrees
<1>6. CASE v.state \notin {"pr", "direct"}
  <2>1. \/ d \in Judged(r)
        \/ v.state = "open" /\ d = Open(v.reason, FALSE)
        \/ \E x \in Failures : d = Open(x, FALSE)
    BY <1>6 DEF Found
  <2>2. d \in Decs /\ ~d.kept
    BY <1>1, <1>2, <1>3, <2>1, JudgedOK
  <2>. QED  BY <1>6, <2>2 DEF Agrees
<1>. QED  BY <1>4, <1>5, <1>6

LEMMA DecisionOK ==
  ASSUME NEW e, NEW r \in Rows, NEW v \in Evidences, NEW force \in BOOLEAN, NEW d \in Decisions(e, r, v, force)
  PROVE  d \in Decs /\ Agrees(d, v)
<1>1. PICK x \in Found(r, v, force) :
        \/ d = x
        \/ x.kind = "open" /\ x.reason \in Attestable /\ d \in {Direct(FALSE), Open(x.reason, TRUE)}
  BY DEF Decisions
<1>2. x \in Decs /\ Agrees(x, v) /\ (x.kind = "open" => v.state \notin {"pr", "direct"})
  BY FoundOK
<1>3. CASE d = x
  BY <1>2, <1>3
<1>4. CASE x.kind = "open" /\ x.reason \in Attestable /\ d \in {Direct(FALSE), Open(x.reason, TRUE)}
  <2>1. x.reason \in Reasons
    BY <1>4 DEF Reasons, Final
  <2>2. d \in Decs /\ ~d.kept
    <3>1. Direct(FALSE) \in Decs /\ ~Direct(FALSE).kept
      BY DEF Direct, Decs
    <3>2. Open(x.reason, TRUE) \in Decs /\ ~Open(x.reason, TRUE).kept
      BY <2>1, ConstOK DEF Open, Decs
    <3>. QED  BY <1>4, <3>1, <3>2
  <2>. QED  BY <1>2, <1>4, <2>2 DEF Agrees
<1>. QED  BY <1>1, <1>3, <1>4

LEMMA StartRoundStep ==
  ASSUME IInv, NEW p \in Ws, StartRound(p)
  PROVE  IInv'
<1>1. TypeInv /\ Epochs = Es /\ rec \in [Es -> Works]
  BY DEF IInv, TypeInv, Epochs
<1>2. PICK k \in Es :
        /\ IF space.state = "reassigning"
           THEN UNCHANGED <<rec, proc>>
           ELSE /\ rec' = [rec EXCEPT ![k] = Leased(rec[k], p)]
                /\ proc' = [proc EXCEPT ![p] = [Idle EXCEPT
                     !.pc = IF cleared[p] < space.epoch THEN "clear" ELSE "look", !.key = k, !.force = rec[k].force,
                     !.e = space.epoch, !.headSeq = space.headSeq, !.head = space.head]]
        /\ UNCHANGED <<space, row, evid, mat>>
  BY <1>1 DEF StartRound
<1>3. CASE UNCHANGED <<rec, proc>>
  BY <1>1, <1>2, <1>3, WorkStep
<1>4. CASE space.state # "reassigning"
  <2>1. rec[k] \in Works /\ rec[k].force \in BOOLEAN /\ Leased(rec[k], p) \in Works
    BY <1>1, WorkOK
  <2>2. rec' \in [Es -> Works]
    BY <1>1, <1>2, <1>4, <2>1, RecOK
  <2>3. PICK pc \in {"clear", "look"} : pc = IF cleared[p] < space.epoch THEN "clear" ELSE "look"
    OBVIOUS
  <2>4. PICK f \in BOOLEAN : f = rec[k].force
    BY <2>1
  <2>5. PICK r : r = [Idle EXCEPT !.pc = pc, !.key = k, !.force = f, !.e = space.epoch, !.headSeq = space.headSeq, !.head = space.head]
    OBVIOUS
  <2>6. r \in Procs /\ r.pc = pc /\ r.e = space.epoch /\ r.headSeq = space.headSeq /\ r.head = space.head
    BY <1>1, <2>5, IdleOK, SpaceOK DEF Procs
  <2>7. proc' = [proc EXCEPT ![p] = r]
    BY <1>2, <1>4, <2>3, <2>4, <2>5
  <2>8. Started(r) /\ Decided(r)
    BY <1>1, <2>6, SpaceOK DEF Started, Decided
  <2>. QED  BY <1>2, <2>2, <2>6, <2>7, <2>8, ProcStep
<1>. QED  BY <1>2, <1>3, <1>4

(* A process goes back to idle.                                             *)
LEMMA IdleStep ==
  ASSUME IInv, NEW p \in Ws, UNCHANGED <<space, row, evid>>, rec' \in [Es -> Works], DOMAIN mat' = DOMAIN mat,
         proc' = [proc EXCEPT ![p] = Idle]
  PROVE  IInv'
<1>1. Started(Idle) /\ Decided(Idle) /\ Idle \in Procs
  BY IdleOK DEF Started, Decided
<1>. QED  BY <1>1, ProcStep

LEMMA ClearStep ==
  ASSUME IInv, NEW p \in Ws, Clear(p)
  PROVE  IInv'
<1>1. /\ TypeInv /\ proc[p].pc = "clear" /\ UNCHANGED <<space, row, evid, rec, mat>>
      /\ proc' = [proc EXCEPT ![p] = [proc[p] EXCEPT !.pc = "look"]]
  BY DEF IInv, Clear
<1>2. PICK r : r = [proc[p] EXCEPT !.pc = "look"]
  OBVIOUS
<1>3. r \in Procs /\ r.pc = "look" /\ r.e = proc[p].e /\ r.headSeq = proc[p].headSeq /\ r.head = proc[p].head
  BY <1>1, <1>2, ProcOK DEF Procs
<1>4. Started(r) /\ Decided(r)
  <2>1. Started(proc[p])
    BY DEF IInv, RoundsInv
  <2>. QED  BY <1>1, <1>3, <2>1 DEF Started, Decided
<1>5. rec' \in [Es -> Works]
  BY <1>1 DEF TypeInv
<1>. QED  BY <1>1, <1>2, <1>3, <1>4, <1>5, ProcStep

LEMMA LookStep ==
  ASSUME IInv, NEW p \in Ws, Look(p)
  PROVE  IInv'
<1>1. TypeInv /\ ChainInv /\ rec \in [Es -> Works] /\ UNCHANGED <<space, row, evid, mat>> /\ proc[p].pc = "look"
  BY DEF IInv, TypeInv, Look
<1>2. PICK q \in Procs : q = proc[p]
  BY <1>1, ProcOK
<1>. DEFINE n == IF Len(row[q.e]) - q.headSeq < BatchSize THEN Len(row[q.e]) - q.headSeq ELSE BatchSize
            at(i) == Decisions(q.e, row[q.e][q.headSeq + i], evid[q.e][q.headSeq + i], q.force)
<1>3. \/ /\ rec' = [rec EXCEPT ![q.key] = Completed(rec[q.key], p)] /\ proc' = [proc EXCEPT ![p] = Idle]
      \/ \E m \in Upto(n) : \E dec :
           /\ dec \in [Upto(m) -> UNION {at(i) : i \in Upto(m)}]
           /\ \A i \in Upto(m) : dec[i] \in at(i)
           /\ proc' = [proc EXCEPT ![p].pc = "commit", ![p].dec = dec]
           /\ UNCHANGED rec
  BY <1>2 DEF Look
<1>4. CASE rec' = [rec EXCEPT ![q.key] = Completed(rec[q.key], p)] /\ proc' = [proc EXCEPT ![p] = Idle]
  <2>1. rec' \in [Es -> Works]
    <3>1. q.key \in Es \cup {0}
      BY DEF Procs
    <3>2. CASE q.key \in Es
      BY <1>1, <1>4, <3>2, RecOK, WorkOK
    <3>3. CASE q.key = 0
      BY <1>1, <1>4, <3>3, ConstOK
    <3>. QED  BY <3>1, <3>2, <3>3
  <2>. QED  BY <1>1, <1>4, <2>1, IdleStep
<1>5. ASSUME NEW m \in Upto(n), NEW dec,
             dec \in [Upto(m) -> UNION {at(i) : i \in Upto(m)}],
             \A i \in Upto(m) : dec[i] \in at(i),
             proc' = [proc EXCEPT ![p].pc = "commit", ![p].dec = dec],
             UNCHANGED rec
      PROVE  IInv'
  <2>1. q.e \in Es /\ Started(q) /\ q.headSeq \in Nat /\ q.force \in BOOLEAN
    BY <1>1, <1>2 DEF IInv, RoundsInv, Started, Procs
  <2>2. Len(row[q.e]) \in Nat /\ DOMAIN row[q.e] = 1 .. Len(row[q.e])
    BY <1>1, <2>1, RowOK
  <2>3. m \in Nat /\ q.headSeq + m <= Len(row[q.e])
    BY <2>1, <2>2, ConstOK DEF Upto
  <2>4. ASSUME NEW i \in Upto(m)
        PROVE  dec[i] \in Decs /\ Agrees(dec[i], evid[q.e][q.headSeq + i])
    <3>1. q.headSeq + i \in DOMAIN row[q.e]
      BY <2>1, <2>2, <2>3 DEF Upto
    <3>2. row[q.e][q.headSeq + i] \in Rows /\ evid[q.e][q.headSeq + i] \in Evidences
      BY <1>1, <2>1, <3>1, RowOK, ChainOK
    <3>. QED  BY <1>5, <2>1, <3>2, DecisionOK
  <2>. HIDE DEF at, n
  <2>5. dec \in Seq(Decs) /\ Len(dec) = m /\ DOMAIN dec = Upto(m)
    <3>1. dec \in [1 .. m -> Decs]
      BY <1>5, <2>4 DEF Upto
    <3>. QED  BY <2>3, <3>1 DEF Upto
  <2>6. PICK r : r = [q EXCEPT !.pc = "commit", !.dec = dec]
    OBVIOUS
  <2>7. r \in Procs /\ r.pc = "commit" /\ r.dec = dec /\ r.e = q.e /\ r.headSeq = q.headSeq /\ r.head = q.head
    BY <2>5, <2>6 DEF Procs
  <2>8. proc' = [proc EXCEPT ![p] = r]
    BY <1>2, <1>5, <2>6
  <2>9. Started(r) /\ Decided(r)
    BY <1>1, <1>2, <2>1, <2>3, <2>4, <2>5, <2>7 DEF Started, Decided
  <2>10. rec' \in [Es -> Works]
    BY <1>1, <1>5
  <2>. QED  BY <1>1, <2>7, <2>8, <2>9, <2>10, ProcStep
<1>. QED  BY <1>3, <1>4, <1>5

LEMMA DropRoundStep ==
  ASSUME IInv, NEW p \in Ws, DropRound(p)
  PROVE  IInv'
<1>1. TypeInv /\ rec \in [Es -> Works] /\ proc[p].key \in Es \cup {0}
  BY ProcOK DEF IInv, TypeInv
<1>2. PICK k \in Es \cup {0} : k = proc[p].key
  BY <1>1
<1>3. /\ rec' = [rec EXCEPT ![k] = Released(rec[k], p)] /\ proc' = [proc EXCEPT ![p] = Idle]
      /\ UNCHANGED <<space, row, evid, mat>>
  BY <1>2 DEF DropRound
<1>4. rec' \in [Es -> Works]
  <2>1. CASE k \in Es
    BY <1>1, <1>3, <2>1, RecOK, WorkOK
  <2>2. CASE k = 0
    BY <1>1, <1>3, <2>2, ConstOK
  <2>. QED  BY <2>1, <2>2
<1>. QED  BY <1>3, <1>4, IdleStep

LEMMA DieStep ==
  ASSUME IInv, NEW p \in Ws, Die(p)
  PROVE  IInv'
<1>1. TypeInv /\ rec \in [Es -> Works] /\ Epochs = Es
  BY DEF IInv, TypeInv, Epochs
<1>2. /\ rec' = [e \in Es |-> Released(rec[e], p)] /\ proc' = [proc EXCEPT ![p] = Idle]
      /\ UNCHANGED <<space, row, evid>> /\ DOMAIN mat' = DOMAIN mat
  BY <1>1 DEF Die
<1>3. rec' \in [Es -> Works]
  BY <1>1, <1>2, WorkOK
<1>. QED  BY <1>2, <1>3, IdleStep

LEMMA MaterializeStep ==
  ASSUME IInv, NEW p \in Ws, Materialize(p)
  PROVE  IInv'
<1>1. TypeInv /\ rec' \in [Es -> Works] /\ UNCHANGED <<space, row, evid>> /\ DOMAIN mat' = DOMAIN mat /\ DOMAIN mat = Es \X Prs
  BY DEF IInv, TypeInv, Materialize, StartMaterialize, Lookup, WritePr, WriteCommit
<1>2. CASE proc' = proc
  BY <1>1, <1>2, WorkStep
<1>3. CASE proc' = [proc EXCEPT ![p] = Idle]
  BY <1>1, <1>3, IdleStep
<1>4. ASSUME NEW r \in Procs, proc' = [proc EXCEPT ![p] = r], r.pc \notin {"clear", "look", "commit"}
      PROVE  IInv'
  <2>1. Started(r) /\ Decided(r)
    BY <1>4 DEF Started, Decided
  <2>. QED  BY <1>1, <1>4, <2>1, ProcStep
<1>5. CASE StartMaterialize(p)
  <2>1. PICK k \in Es \X Prs :
          IF space.epoch # k[1] THEN proc' = proc
          ELSE proc' = [proc EXCEPT ![p] = [Idle EXCEPT !.pc = "lookup", !.e = k[1], !.pr = k[2]]]
    BY <1>1, <1>5 DEF StartMaterialize
  <2>2. k[1] \in Es /\ k[2] \in Prs
    BY <2>1
  <2>3. PICK r : r = [Idle EXCEPT !.pc = "lookup", !.e = k[1], !.pr = k[2]]
    OBVIOUS
  <2>4. r \in Procs /\ r.pc = "lookup"
    BY <2>2, <2>3, IdleOK DEF Procs
  <2>. QED  BY <1>2, <1>4, <2>1, <2>3, <2>4
<1>6. CASE Lookup(p)
  <2>1. \/ proc' = [proc EXCEPT ![p] = Idle]
        \/ \E i \in DOMAIN row[space.epoch] :
             proc' = [proc EXCEPT ![p] = [proc[p] EXCEPT !.pc = "pr", !.sha = row[space.epoch][i].sha, !.num = row[space.epoch][i].num]]
    BY <1>6 DEF Lookup
  <2>2. ASSUME NEW i \in DOMAIN row[space.epoch],
               proc' = [proc EXCEPT ![p] = [proc[p] EXCEPT !.pc = "pr", !.sha = row[space.epoch][i].sha, !.num = row[space.epoch][i].num]]
        PROVE  IInv'
    <3>1. row[space.epoch][i].sha \in Shas /\ row[space.epoch][i].num \in Nat
      BY <1>1, SpaceOK, RowOK
    <3>2. PICK s \in Shas, n \in Nat : s = row[space.epoch][i].sha /\ n = row[space.epoch][i].num
      BY <3>1
    <3>3. PICK r : r = [proc[p] EXCEPT !.pc = "pr", !.sha = s, !.num = n]
      OBVIOUS
    <3>4. r \in Procs /\ r.pc = "pr"
      BY <1>1, <3>3, ProcOK DEF Procs
    <3>. QED  BY <1>4, <2>2, <3>2, <3>3, <3>4
  <2>. QED  BY <1>3, <2>1, <2>2
<1>7. CASE WritePr(p)
  <2>1. \/ proc' = [proc EXCEPT ![p] = Idle]
        \/ proc' = [proc EXCEPT ![p] = [proc[p] EXCEPT !.pc = "merge_commit"]]
    BY <1>7 DEF WritePr
  <2>2. PICK r : r = [proc[p] EXCEPT !.pc = "merge_commit"]
    OBVIOUS
  <2>3. r \in Procs /\ r.pc = "merge_commit"
    BY <1>1, <2>2, ProcOK DEF Procs
  <2>. QED  BY <1>3, <1>4, <2>1, <2>2, <2>3
<1>8. CASE WriteCommit(p)
  BY <1>3, <1>8 DEF WriteCommit
<1>. QED  BY <1>5, <1>6, <1>7, <1>8 DEF Materialize

----------------------------------------------------------------------------
(* Counting.                                                                *)

After(h, A) == {h + j : j \in A}
Joined(N, h, A) == N \cup After(h, A)

LEMMA Shifted ==
  ASSUME NEW h \in Nat, NEW A \in SUBSET Nat, IsFiniteSet(A), NEW B, B = After(h, A)
  PROVE  IsFiniteSet(B) /\ Cardinality(B) = Cardinality(A)
<1>. DEFINE f == [j \in A |-> h + j]
<1>1. f \in [A -> B]
  BY DEF After
<1>2. \A a, b \in A : f[a] = f[b] => a = b
  OBVIOUS
<1>3. \A t \in B : \E a \in A : f[a] = t
  BY DEF After
<1>. HIDE DEF f
<1>4. f \in Bijection(A, B)
  BY <1>1, <1>2, <1>3 DEF Bijection, Injection, Surjection, IsInjective
<1>5. ExistsBijection(A, B)
  BY <1>4 DEF ExistsBijection
<1>. QED  BY <1>5, FS_Bijection

(* A set of rows up to h, and rows after it.                                *)
LEMMA Appended ==
  ASSUME NEW h \in Nat, NEW N \in SUBSET (1 .. h), NEW A \in SUBSET (Nat \ {0}), IsFiniteSet(A),
         NEW B, B = Joined(N, h, A)
  PROVE  /\ Cardinality(B) = Cardinality(N) + Cardinality(A)
         /\ Cardinality(N) \in Nat /\ Cardinality(A) \in Nat
<1>1. IsFiniteSet(N) /\ IsFiniteSet(A)
  <2>1. IsFiniteSet(1 .. h)
    BY FS_Interval
  <2>. QED  BY <2>1, FS_Subset
<1>2. PICK C : C = After(h, A)
  OBVIOUS
<1>3. A \in SUBSET Nat
  OBVIOUS
<1>4. IsFiniteSet(C) /\ Cardinality(C) = Cardinality(A)
  BY <1>1, <1>2, <1>3, Shifted
<1>5. N \cap C = {}
  BY <1>2 DEF After
<1>6. Cardinality(N \cup C) = Cardinality(N) + Cardinality(C) /\ Cardinality(N) \in Nat /\ Cardinality(A) \in Nat
  <2>1. Cardinality(N \cup C) = Cardinality(N) + Cardinality(C) - Cardinality(N \cap C)
    BY <1>1, <1>4, FS_Union
  <2>2. Cardinality(N \cap C) = 0
    BY <1>5, FS_EmptySet
  <2>3. Cardinality(N) \in Nat /\ Cardinality(A) \in Nat /\ Cardinality(C) \in Nat
    BY <1>1, <1>4, FS_CardinalityType
  <2>. QED  BY <2>1, <2>2, <2>3
<1>. QED  BY <1>2, <1>4, <1>6 DEF Joined

Picks(dec, i) == {j \in Upto(i) : dec[j].kind = "pr"}

LEMMA CountOK ==
  ASSUME NEW dec, NEW i \in Nat
  PROVE  /\ Picks(dec, i) \in SUBSET (1 .. i) /\ IsFiniteSet(Picks(dec, i))
         /\ Count(dec, i) = Cardinality(Picks(dec, i)) /\ Count(dec, i) \in Nat
         /\ i = 0 => Count(dec, i) = 0
         /\ i > 0 /\ dec[i].kind = "pr" => Count(dec, i) > 0
<1>1. Picks(dec, i) \in SUBSET (1 .. i)
  BY DEF Picks, Upto
<1>2. IsFiniteSet(Picks(dec, i))
  BY <1>1, FS_Interval, FS_Subset
<1>3. Cardinality(Picks(dec, i)) \in Nat /\ (Cardinality(Picks(dec, i)) = 0 <=> Picks(dec, i) = {})
  BY <1>2, FS_CardinalityType, FS_EmptySet
<1>4. Count(dec, i) = Cardinality(Picks(dec, i))
  BY DEF Count, Picks
<1>5. i = 0 => Picks(dec, i) = {}
  BY <1>1
<1>6. i > 0 /\ dec[i].kind = "pr" => i \in Picks(dec, i)
  BY DEF Picks, Upto
<1>. QED  BY <1>1, <1>2, <1>3, <1>4, <1>5, <1>6

(* What a decision that does not stop the plan says.                        *)
LEMMA UnblockedOK ==
  ASSUME NEW q \in Procs, NEW i \in DOMAIN q.dec, Blocker(q, i) = None
  PROVE  /\ q.dec[i] \in Decs /\ q.dec[i].kind \in {"pr", "direct"}
         /\ q.dec[i].kind = "pr" => /\ q.dec[i].pr \notin NumberedPrs(q.e)
                                    /\ \A j \in Upto(i - 1) : q.dec[j].pr # q.dec[i].pr
<1>1. q.dec[i] \in Decs
  BY DEF Procs
<1>2. q.dec[i].kind \in {"pr", "direct", "open"} /\ (q.dec[i].kind = "open" => q.dec[i].reason # None)
  BY <1>1 DEF Decs
<1>3. None # "canonical_mismatch" /\ None # "mapping_conflict" /\ None # "number_capacity_exceeded"
  BY ConstOK DEF Reasons, Final
<1>4. q.dec[i].kind # "open"
  BY <1>2, <1>3 DEF Blocker
<1>5. CASE q.dec[i].kind = "pr"
  <2>1. q.dec[i].pr \notin NumberedPrs(q.e) \cup {q.dec[j].pr : j \in Upto(i - 1)}
    BY <1>3, <1>5 DEF Blocker
  <2>. QED  BY <1>1, <1>5, <2>1
<1>. QED  BY <1>1, <1>2, <1>4, <1>5

----------------------------------------------------------------------------
(* The transaction of a round.                                              *)

(* A round q that commits the first n of its decisions: it is at the        *)
(* checkpoint and its decisions agree with the evidence.                    *)
Committing(q, n) ==
  /\ q \in Procs /\ n \in Nat /\ q.e \in Es /\ q.headSeq \in Nat /\ q.head \in Nat /\ q.dec \in Seq(Decs)
  /\ q.e = space.epoch /\ q.headSeq = space.headSeq /\ q.head = space.head
  /\ n <= Len(q.dec) /\ q.headSeq + Len(q.dec) <= Len(row[q.e])
  /\ \A i \in 1 .. n : Blocker(q, i) = None
  /\ \A i \in DOMAIN q.dec : Agrees(q.dec[i], evid[q.e][q.headSeq + i])

LEMMA CommitOK ==
  ASSUME IInv, NEW p \in Ws, Commit(p)
  PROVE  \E q, n :
           /\ Committing(q, n)
           /\ row' = [row EXCEPT ![q.e] = Given(q, n)] /\ evid' = [evid EXCEPT ![q.e] = Recorded(q)]
           /\ space' \in Spaces /\ space'.epoch = space.epoch /\ space'.state = space.state
           /\ space'.headSeq = q.headSeq + n /\ space'.head = q.head + Count(q.dec, n)
           /\ rec' \in [Es -> Works] /\ DOMAIN mat' = DOMAIN mat
           /\ proc' = [r \in Ws |-> IF r = p THEN Idle ELSE Noticed(q, proc[r])]
<1>1. TypeInv /\ Workers = Ws /\ rec \in [Es -> Works]
  BY DEF IInv, TypeInv, Workers
<1>2. PICK q \in Procs : q = proc[p]
  BY <1>1, ProcOK
<1>3. /\ q.pc = "commit" /\ q.e = space.epoch /\ q.headSeq = space.headSeq /\ ~q.stale
      /\ q.headSeq \in Nat /\ q.head \in Nat /\ q.dec \in Seq(Decs) /\ q.key \in Es \cup {0}
  BY <1>2 DEF Commit, Overtaken, Procs
<1>4. Started(q) /\ Decided(q)
  BY <1>2 DEF IInv, RoundsInv
<1>5. q.e \in Es /\ q.head = space.head
  BY <1>3, <1>4 DEF Started
<1>6. PICK n, stop, again :
        /\ n \in Reach(q) /\ stop = (IF n = Len(q.dec) THEN None ELSE Blocker(q, n + 1))
        /\ row' = [row EXCEPT ![q.e] = Given(q, n)] /\ evid' = [evid EXCEPT ![q.e] = Recorded(q)]
        /\ space' = [space EXCEPT !.headSeq = q.headSeq + n, !.head = q.head + Count(q.dec, n), !.blocked = stop]
        /\ rec' = [rec EXCEPT ![q.key] = IF again THEN Released(rec[q.key], p) ELSE Completed(rec[q.key], p)]
        /\ DOMAIN mat' = DOMAIN mat
        /\ proc' = [r \in Ws |-> IF r = p THEN Idle ELSE Noticed(q, proc[r])]
  BY <1>1, <1>2 DEF Commit
<1>7. n \in Nat /\ n <= Len(q.dec) /\ \A i \in 1 .. n : Blocker(q, i) = None
  BY <1>3, <1>6 DEF Reach, Upto
<1>8. Committing(q, n)
  BY <1>3, <1>4, <1>5, <1>7 DEF Committing, Decided
<1>9. stop \in Reasons \cup {None}
  <2>1. CASE n = Len(q.dec)
    BY <1>6, <2>1
  <2>2. CASE n # Len(q.dec)
    <3>1. q.dec[n + 1] \in Decs
      BY <1>3, <1>7, <2>2
    <3>2. q.dec[n + 1].kind \in {"pr", "direct", "open"} /\ q.dec[n + 1].reason \in Reasons \cup {None}
      BY <3>1 DEF Decs
    <3>3. {"canonical_mismatch", "mapping_conflict", "number_capacity_exceeded"} \subseteq Reasons
      BY DEF Reasons, Final
    <3>4. Blocker(q, n + 1) \in {q.dec[n + 1].reason, None, "canonical_mismatch", "mapping_conflict", "number_capacity_exceeded"}
      BY <3>2 DEF Blocker
    <3>. QED  BY <1>6, <2>2, <3>2, <3>3, <3>4
  <2>. QED  BY <2>1, <2>2
<1>10. /\ space' \in Spaces /\ space'.epoch = space.epoch /\ space'.state = space.state
       /\ space'.headSeq = q.headSeq + n /\ space'.head = q.head + Count(q.dec, n)
  <2>1. PICK hs \in Nat, h \in Nat : hs = q.headSeq + n /\ h = q.head + Count(q.dec, n)
    <3>1. Count(q.dec, n) \in Nat
      BY <1>7, CountOK
    <3>. QED  BY <1>3, <1>7, <3>1
  <2>2. space' = [space EXCEPT !.headSeq = hs, !.head = h, !.blocked = stop]
    BY <1>6, <2>1
  <2>. QED  BY <1>1, <1>9, <2>1, <2>2, SpaceOK DEF Spaces
<1>11. rec' \in [Es -> Works]
  <2>1. CASE q.key \in Es
    <3>1. PICK w \in Works : w = IF again THEN Released(rec[q.key], p) ELSE Completed(rec[q.key], p)
      BY <1>1, <2>1, WorkOK
    <3>. QED  BY <1>1, <1>3, <1>6, <3>1, RecOK
  <2>2. CASE q.key = 0
    BY <1>1, <1>6, <2>2, ConstOK
  <2>. QED  BY <1>3, <2>1, <2>2
<1>. QED  BY <1>6, <1>8, <1>10, <1>11

(* The rows that get a number, and the evidence that is written.            *)
Continued(q, n, c) ==
  /\ c \in Seq(Rows) /\ Len(c) = Len(row[q.e]) /\ DOMAIN c = DOMAIN row[q.e]
  /\ \A i \in DOMAIN c : i <= q.headSeq \/ i > q.headSeq + n => c[i] = row[q.e][i]
  /\ \A k \in 1 .. n :
       /\ q.headSeq + k \in DOMAIN c
       /\ q.dec[k].kind # "pr" => c[q.headSeq + k] = row[q.e][q.headSeq + k]
       /\ q.dec[k].kind = "pr" => /\ c[q.headSeq + k].pr = q.dec[k].pr
                                  /\ c[q.headSeq + k].num = q.head + Count(q.dec, k)

LEMMA GivenOK ==
  ASSUME TypeInv, NEW q, NEW n, Committing(q, n), NEW c, c = Given(q, n)
  PROVE  Continued(q, n, c)
<1>1. /\ q.headSeq \in Nat /\ n \in Nat /\ q.head \in Nat /\ q.e \in Es /\ n <= Len(q.dec) /\ q.dec \in Seq(Decs)
      /\ q.headSeq + Len(q.dec) <= Len(row[q.e])
  BY DEF Committing
<1>2. /\ Len(row[q.e]) \in Nat /\ DOMAIN row[q.e] = 1 .. Len(row[q.e])
      /\ \A i \in DOMAIN row[q.e] : row[q.e][i] \in Rows /\ row[q.e][i].sha \in Shas
  BY <1>1, RowOK
<1>. DEFINE hit(i) == i - q.headSeq \in Upto(n) /\ q.dec[i - q.headSeq].kind = "pr"
            new(i) == [sha |-> row[q.e][i].sha, pr |-> q.dec[i - q.headSeq].pr, num |-> q.head + Count(q.dec, i - q.headSeq)]
<1>3. c = [i \in DOMAIN row[q.e] |-> IF hit(i) THEN new(i) ELSE row[q.e][i]]
  BY DEF Given
<1>4. \A i \in DOMAIN row[q.e] : i - q.headSeq \in Upto(n) <=> q.headSeq < i /\ i <= q.headSeq + n
  BY <1>1, <1>2 DEF Upto
<1>5. ASSUME NEW i \in DOMAIN row[q.e], hit(i)
      PROVE  /\ new(i) \in Rows /\ new(i).pr = q.dec[i - q.headSeq].pr
             /\ new(i).num = q.head + Count(q.dec, i - q.headSeq)
  <2>1. PICK k \in 1 .. n : k = i - q.headSeq
    BY <1>5 DEF Upto
  <2>2. k \in Nat /\ q.dec[k] \in Decs
    BY <1>1, <2>1
  <2>3. q.dec[k].pr \in Prs \cup {None}
    BY <2>2 DEF Decs
  <2>4. PICK m \in Nat : m = q.head + Count(q.dec, k)
    BY <1>1, <2>2, CountOK
  <2>5. new(i) = [sha |-> row[q.e][i].sha, pr |-> q.dec[k].pr, num |-> m]
    BY <2>1, <2>4
  <2>. QED  BY <1>2, <2>1, <2>3, <2>4, <2>5 DEF Rows
<1>. HIDE DEF new
<1>6. c \in [DOMAIN row[q.e] -> Rows]
  BY <1>2, <1>3, <1>5
<1>7. c \in Seq(Rows) /\ Len(c) = Len(row[q.e]) /\ DOMAIN c = DOMAIN row[q.e]
  BY <1>2, <1>6
<1>8. \A i \in DOMAIN c : i <= q.headSeq \/ i > q.headSeq + n => c[i] = row[q.e][i]
  <2>. TAKE i \in DOMAIN c
  <2>. HAVE i <= q.headSeq \/ i > q.headSeq + n
  <2>1. ~hit(i)
    BY <1>1, <1>2, <1>4, <1>7
  <2>. QED  BY <1>3, <1>7, <2>1
<1>9. ASSUME NEW k \in 1 .. n
      PROVE  /\ q.headSeq + k \in DOMAIN c
             /\ q.dec[k].kind # "pr" => c[q.headSeq + k] = row[q.e][q.headSeq + k]
             /\ q.dec[k].kind = "pr" => /\ c[q.headSeq + k].pr = q.dec[k].pr
                                        /\ c[q.headSeq + k].num = q.head + Count(q.dec, k)
  <2>1. PICK i \in DOMAIN row[q.e] : i = q.headSeq + k
    BY <1>1, <1>2
  <2>2. i - q.headSeq = k /\ k \in Upto(n)
    BY <1>1, <2>1 DEF Upto
  <2>3. hit(i) <=> q.dec[k].kind = "pr"
    BY <2>2
  <2>. HIDE DEF hit
  <2>4. CASE hit(i)
    <3>1. c[i] = new(i) /\ new(i).pr = q.dec[k].pr /\ new(i).num = q.head + Count(q.dec, k)
      BY <1>3, <1>5, <2>2, <2>4
    <3>. QED  BY <1>7, <2>1, <2>3, <2>4, <3>1
  <2>5. CASE ~hit(i)
    BY <1>3, <1>7, <2>1, <2>3, <2>5
  <2>. QED  BY <2>4, <2>5
<1>. QED  BY <1>7, <1>8, <1>9 DEF Continued

LEMMA RecordedOK ==
  ASSUME TypeInv, NEW q, NEW n, Committing(q, n), NEW v, v = Recorded(q)
  PROVE  /\ v \in [Ss -> Evidences]
         /\ \A i \in Ss : i \notin Touched(q) => v[i] = evid[q.e][i]
         /\ \A k \in DOMAIN q.dec : q.headSeq + k \in Ss /\ ~q.dec[k].kept =>
              v[q.headSeq + k].state = q.dec[k].kind /\ v[q.headSeq + k].pr = q.dec[k].pr
<1>1. /\ q.headSeq \in Nat /\ q.e \in Es /\ q.dec \in Seq(Decs) /\ Len(q.dec) \in Nat /\ DOMAIN q.dec = 1 .. Len(q.dec)
      /\ evid[q.e] \in [Ss -> Evidences] /\ Seqs = Ss
  <2>1. q.headSeq \in Nat /\ q.e \in Es /\ q.dec \in Seq(Decs)
    BY DEF Committing
  <2>2. evid[q.e] \in [Ss -> Evidences] /\ evid[1] \in [Ss -> Evidences]
    BY <2>1, ConstOK DEF TypeInv
  <2>. QED  BY <2>1, <2>2 DEF Seqs
<1>2. Ss \subseteq Nat
  <2>1. \A e \in Es : DOMAIN History[e] \subseteq Nat
    BY ConstOK
  <2>. QED  BY <2>1 DEF Ss
<1>. DEFINE old(i) == i - q.headSeq \notin DOMAIN q.dec \/ i <= q.headSeq
            d(i) == q.dec[i - q.headSeq]
            new(i) == [state |-> d(i).kind, pr |-> d(i).pr, reason |-> d(i).reason, fresh |-> (d(i).kind = "open")]
<1>3. v = [i \in Ss |-> IF old(i) THEN evid[q.e][i] ELSE IF d(i).kept THEN evid[q.e][i] ELSE new(i)]
  BY <1>1 DEF Recorded
<1>4. ASSUME NEW i \in Ss, ~old(i)
      PROVE  new(i) \in Evidences /\ new(i).state = d(i).kind /\ new(i).pr = d(i).pr
  <2>1. d(i) \in Decs
    BY <1>1, <1>4
  <2>2. PICK b \in BOOLEAN : b = (d(i).kind = "open")
    OBVIOUS
  <2>3. PICK x \in Decs : x = d(i)
    BY <2>1
  <2>4. new(i) = [state |-> x.kind, pr |-> x.pr, reason |-> x.reason, fresh |-> b]
    BY <2>2, <2>3
  <2>. QED  BY <2>3, <2>4 DEF Decs, Evidences
<1>. HIDE DEF new
<1>5. v \in [Ss -> Evidences]
  BY <1>1, <1>3, <1>4
<1>6. ASSUME NEW i \in Ss, i \notin Touched(q) PROVE v[i] = evid[q.e][i]
  <2>1. CASE old(i)
    BY <1>3, <2>1
  <2>2. CASE ~old(i)
    <3>1. PICK k \in DOMAIN q.dec : k = i - q.headSeq
      BY <2>2
    <3>2. i = q.headSeq + k
      BY <1>1, <1>2, <3>1
    <3>3. q.dec[k].kept
      BY <1>6, <3>1, <3>2 DEF Touched
    <3>. QED  BY <1>3, <2>2, <3>1, <3>3
  <2>. QED  BY <2>1, <2>2
<1>7. ASSUME NEW k \in DOMAIN q.dec, q.headSeq + k \in Ss, ~q.dec[k].kept
      PROVE  v[q.headSeq + k].state = q.dec[k].kind /\ v[q.headSeq + k].pr = q.dec[k].pr
  <2>1. PICK i \in Ss : i = q.headSeq + k
    BY <1>7
  <2>2. i - q.headSeq = k /\ ~(i <= q.headSeq)
    BY <1>1, <1>2, <1>7, <2>1
  <2>3. ~old(i) /\ d(i) = q.dec[k]
    BY <1>7, <2>2
  <2>. HIDE DEF old, d
  <2>. QED  BY <1>3, <1>4, <1>7, <2>1, <2>3
<1>. QED  BY <1>5, <1>6, <1>7

(* The numbers of the chain after a commit: those behind the checkpoint,    *)
(* and the next ones.                                                       *)
LEMMA NumbersAfter ==
  ASSUME IInv, NEW q, NEW n, Committing(q, n), row' = [row EXCEPT ![q.e] = Given(q, n)]
  PROVE  /\ Numbered(q.e) \in SUBSET (1 .. q.headSeq)
         /\ Numbered(q.e)' = Numbered(q.e) \cup After(q.headSeq, Picks(q.dec, n))
         /\ \A f \in Es : f # q.e => Numbered(f)' = Numbered(f) /\ row'[f] = row[f]
         /\ row'[q.e] = Given(q, n) /\ row' \in [Es -> Seq(Rows)]
<1>1. /\ TypeInv /\ q.e \in Es /\ q.e = space.epoch /\ q.headSeq \in Nat /\ q.headSeq = space.headSeq /\ n \in Nat
      /\ q.head \in Nat /\ row \in [Es -> Seq(Rows)]
  BY DEF IInv, TypeInv, Committing
<1>2. PICK c : c = Given(q, n)
  OBVIOUS
<1>3. /\ c \in Seq(Rows) /\ Len(c) = Len(row[q.e]) /\ DOMAIN c = DOMAIN row[q.e]
      /\ \A i \in DOMAIN c : i <= q.headSeq \/ i > q.headSeq + n => c[i] = row[q.e][i]
      /\ \A k \in 1 .. n :
           /\ q.headSeq + k \in DOMAIN c
           /\ q.dec[k].kind # "pr" => c[q.headSeq + k] = row[q.e][q.headSeq + k]
           /\ q.dec[k].kind = "pr" => /\ c[q.headSeq + k].pr = q.dec[k].pr
                                      /\ c[q.headSeq + k].num = q.head + Count(q.dec, k)
  <2>1. Continued(q, n, c)
    BY <1>1, <1>2, GivenOK
  <2>. QED  BY <2>1 DEF Continued
<1>4. row'[q.e] = c /\ row' \in [Es -> Seq(Rows)] /\ \A f \in Es : f # q.e => row'[f] = row[f]
  BY <1>1, <1>2, <1>3
<1>5. \A f \in Es : f # q.e => Numbered(f)' = Numbered(f)
  BY <1>4 DEF Numbered
<1>6. DOMAIN row[q.e] = 1 .. Len(row[q.e]) /\ Len(row[q.e]) \in Nat
  BY <1>1, RowOK
<1>7. ASSUME NEW i \in Numbered(q.e) PROVE i \in 1 .. q.headSeq
  <2>1. i \in DOMAIN row[q.e] /\ i \in Nat /\ i >= 1
    BY <1>6 DEF Numbered
  <2>2. i <= q.headSeq
    BY <1>1, <2>1 DEF IInv, Checkpoint
  <2>. QED  BY <1>1, <2>1, <2>2
<1>8. ASSUME NEW i \in DOMAIN c
      PROVE  c[i].num > 0 <=> i \in Numbered(q.e) \/ \E k \in Picks(q.dec, n) : i = q.headSeq + k
  <2>1. i \in Nat
    BY <1>3, <1>6
  <2>2. \A k \in Picks(q.dec, n) : k \in 1 .. n
    BY DEF Picks, Upto
  <2>3. CASE i <= q.headSeq \/ i > q.headSeq + n
    <3>1. c[i] = row[q.e][i]
      BY <1>3, <2>3
    <3>2. ~\E k \in Picks(q.dec, n) : i = q.headSeq + k
      BY <1>1, <2>1, <2>2, <2>3
    <3>. QED  BY <1>3, <3>1, <3>2 DEF Numbered
  <2>4. CASE ~(i <= q.headSeq \/ i > q.headSeq + n)
    <3>1. PICK k \in 1 .. n : i = q.headSeq + k
      <4>1. i - q.headSeq \in 1 .. n /\ i = q.headSeq + (i - q.headSeq)
        BY <1>1, <2>1, <2>4
      <4>. QED  BY <4>1
    <3>2. i \notin Numbered(q.e)
      BY <1>1, <1>7, <2>1, <2>4
    <3>3. (\E j \in Picks(q.dec, n) : i = q.headSeq + j) <=> q.dec[k].kind = "pr"
      <4>1. \A j \in 1 .. n : i = q.headSeq + j => j = k
        BY <1>1, <3>1
      <4>. QED  BY <2>2, <3>1, <4>1 DEF Picks, Upto
    <3>4. CASE q.dec[k].kind = "pr"
      <4>1. c[i].num = q.head + Count(q.dec, k)
        BY <1>3, <3>1, <3>4
      <4>2. Count(q.dec, k) \in Nat /\ Count(q.dec, k) > 0
        BY <3>1, <3>4, CountOK
      <4>. QED  BY <1>1, <3>3, <3>4, <4>1, <4>2
    <3>5. CASE q.dec[k].kind # "pr"
      <4>1. c[i] = row[q.e][i]
        BY <1>3, <3>1, <3>5
      <4>. QED  BY <1>3, <3>2, <3>3, <3>5, <4>1 DEF Numbered
    <3>. QED  BY <3>4, <3>5
  <2>. QED  BY <2>3, <2>4
<1>9. Numbered(q.e)' = Numbered(q.e) \cup After(q.headSeq, Picks(q.dec, n))
  <2>1. Numbered(q.e)' = {i \in DOMAIN c : c[i].num > 0}
    BY <1>4 DEF Numbered
  <2>2. \A k \in Picks(q.dec, n) : q.headSeq + k \in DOMAIN c
    BY <1>3 DEF Picks, Upto
  <2>3. Numbered(q.e) \subseteq DOMAIN c
    BY <1>3 DEF Numbered
  <2>. QED  BY <1>8, <2>1, <2>2, <2>3 DEF After
<1>. QED  BY <1>2, <1>4, <1>5, <1>7, <1>9

LEMMA RanksAfter ==
  ASSUME NEW h \in Nat, NEW n \in Nat, NEW dec, NEW N \in SUBSET (1 .. h),
         NEW M, M = Joined(N, h, Picks(dec, n))
  PROVE  /\ \A i \in 1 .. h : Rank(M, i) = Rank(N, i)
         /\ \A k \in 1 .. n : Rank(M, h + k) = Cardinality(N) + Count(dec, k)
         /\ Cardinality(M) = Cardinality(N) + Count(dec, n)
<1>1. ASSUME NEW i \in 1 .. h PROVE Rank(M, i) = Rank(N, i)
  <2>1. \A k \in Picks(dec, n) : k \in 1 .. n
    BY DEF Picks, Upto
  <2>2. {j \in M : j <= i} = {j \in N : j <= i}
    BY <2>1 DEF After, Joined
  <2>. QED  BY <2>2 DEF Rank
<1>2. ASSUME NEW k \in 1 .. n PROVE Rank(M, h + k) = Cardinality(N) + Count(dec, k)
  <2>1. PICK B : B = N \cup After(h, Picks(dec, k))
    OBVIOUS
  <2>2. {j \in M : j <= h + k} = B
    <3>1. \A j \in Picks(dec, n) : j \in 1 .. n /\ (j <= k <=> j \in Picks(dec, k))
      BY DEF Picks, Upto
    <3>2. \A j \in Picks(dec, k) : j \in Picks(dec, n) /\ j \in 1 .. k
      BY DEF Picks, Upto
    <3>3. \A x \in N : x <= h + k
      OBVIOUS
    <3>4. ASSUME NEW x \in B PROVE x \in M /\ x <= h + k
      <4>1. CASE x \in N
        BY <3>3, <4>1 DEF Joined
      <4>2. CASE x \notin N
        <5>1. PICK j \in Picks(dec, k) : x = h + j
          BY <2>1, <4>2 DEF After, Joined
        <5>. QED  BY <3>2, <5>1 DEF After, Joined
      <4>. QED  BY <4>1, <4>2
    <3>5. ASSUME NEW x \in M, x <= h + k PROVE x \in B
      <4>1. CASE x \in N
        BY <2>1, <4>1
      <4>2. CASE \E j \in Picks(dec, n) : x = h + j
        BY <2>1, <3>1, <3>5, <4>2 DEF After, Joined
      <4>. QED  BY <4>1, <4>2 DEF After, Joined
    <3>. QED  BY <3>4, <3>5
  <2>3. Picks(dec, k) \in SUBSET (1 .. k) /\ Count(dec, k) = Cardinality(Picks(dec, k)) /\ k \in Nat
    BY CountOK
  <2>4. Cardinality(B) = Cardinality(N) + Cardinality(Picks(dec, k))
    <3>1. PICK A \in SUBSET (Nat \ {0}) : A = Picks(dec, k) /\ IsFiniteSet(A)
      BY <2>3, CountOK
    <3>2. B = Joined(N, h, A)
      BY <2>1, <3>1 DEF Joined
    <3>3. Cardinality(B) = Cardinality(N) + Cardinality(A) /\ Cardinality(N) \in Nat /\ Cardinality(A) \in Nat
      BY <3>1, <3>2, Appended
    <3>. QED  BY <3>1, <3>3
  <2>. QED  BY <2>2, <2>3, <2>4 DEF Rank
<1>3. Cardinality(M) = Cardinality(N) + Count(dec, n)
  <2>1. Picks(dec, n) \in SUBSET (1 .. n) /\ Count(dec, n) = Cardinality(Picks(dec, n))
    BY CountOK
  <2>2. PICK A \in SUBSET (Nat \ {0}) : A = Picks(dec, n) /\ IsFiniteSet(A)
    BY <2>1, CountOK
  <2>3. PICK B : B = Joined(N, h, A)
    OBVIOUS
  <2>4. Cardinality(B) = Cardinality(N) + Cardinality(A) /\ Cardinality(N) \in Nat /\ Cardinality(A) \in Nat
    BY <2>2, <2>3, Appended
  <2>5. M = B
    BY <2>2, <2>3
  <2>. QED  BY <2>1, <2>2, <2>4, <2>5
<1>. QED  BY <1>1, <1>2, <1>3

(* The evidence after a commit: confirmed evidence stays what it is.        *)
LEMMA EvidenceAfter ==
  ASSUME IInv, NEW q, NEW n, Committing(q, n), evid' = [evid EXCEPT ![q.e] = Recorded(q)]
  PROVE  /\ evid' \in [Es -> [Ss -> Evidences]] /\ \A f \in Es : f # q.e => evid'[f] = evid[f]
         /\ \A i \in Ss : i \notin Touched(q) => evid'[q.e][i] = evid[q.e][i]
         /\ \A k \in DOMAIN q.dec :
              /\ q.headSeq + k \in Ss
              /\ q.dec[k].kept => evid'[q.e][q.headSeq + k].state = "direct"
              /\ ~q.dec[k].kept => /\ evid'[q.e][q.headSeq + k].state = q.dec[k].kind
                                   /\ evid'[q.e][q.headSeq + k].pr = q.dec[k].pr
         /\ \A f \in Es : \A i \in Ss : evid[f][i].state \in {"pr", "direct"} =>
              evid'[f][i].state = evid[f][i].state /\ evid'[f][i].pr = evid[f][i].pr
<1>1. /\ TypeInv /\ ChainInv /\ evid \in [Es -> [Ss -> Evidences]] /\ q.e \in Es /\ q.headSeq \in Nat /\ q.dec \in Seq(Decs)
      /\ q.headSeq + Len(q.dec) <= Len(row[q.e]) /\ \A k \in DOMAIN q.dec : Agrees(q.dec[k], evid[q.e][q.headSeq + k])
  BY DEF IInv, TypeInv, Committing
<1>2. /\ Len(row[q.e]) \in Nat /\ DOMAIN row[q.e] = 1 .. Len(row[q.e]) /\ DOMAIN row[q.e] \subseteq Ss
      /\ Len(q.dec) \in Nat /\ DOMAIN q.dec = 1 .. Len(q.dec)
  BY <1>1, RowOK, ChainOK
<1>3. PICK v : v = Recorded(q)
  OBVIOUS
<1>4. /\ v \in [Ss -> Evidences]
      /\ \A i \in Ss : i \notin Touched(q) => v[i] = evid[q.e][i]
      /\ \A k \in DOMAIN q.dec : q.headSeq + k \in Ss /\ ~q.dec[k].kept =>
           v[q.headSeq + k].state = q.dec[k].kind /\ v[q.headSeq + k].pr = q.dec[k].pr
  BY <1>1, <1>3, RecordedOK
<1>5. evid' \in [Es -> [Ss -> Evidences]] /\ evid'[q.e] = v /\ \A f \in Es : f # q.e => evid'[f] = evid[f]
  BY <1>1, <1>3, <1>4
<1>6. \A k \in DOMAIN q.dec : q.headSeq + k \in Ss
  <2>. TAKE k \in DOMAIN q.dec
  <2>1. q.headSeq + k \in 1 .. Len(row[q.e])
    BY <1>1, <1>2
  <2>. QED  BY <1>2, <2>1
<1>7. ASSUME NEW k \in DOMAIN q.dec, q.dec[k].kept PROVE v[q.headSeq + k].state = "direct"
  <2>1. \A j \in DOMAIN q.dec : q.headSeq + j = q.headSeq + k => j = k
    BY <1>1, <1>2
  <2>2. q.headSeq + k \notin Touched(q)
    BY <1>7, <2>1 DEF Touched
  <2>3. v[q.headSeq + k] = evid[q.e][q.headSeq + k]
    BY <1>4, <1>6, <2>2
  <2>. QED  BY <1>1, <1>7, <2>3 DEF Agrees
<1>8. ASSUME NEW f \in Es, NEW i \in Ss, evid[f][i].state \in {"pr", "direct"}
      PROVE  evid'[f][i].state = evid[f][i].state /\ evid'[f][i].pr = evid[f][i].pr
  <2>1. CASE f # q.e
    BY <1>5, <2>1
  <2>2. CASE f = q.e /\ i \notin Touched(q)
    BY <1>4, <1>5, <2>2
  <2>3. CASE f = q.e /\ i \in Touched(q)
    <3>1. PICK k \in DOMAIN q.dec : i = q.headSeq + k /\ ~q.dec[k].kept
      BY <2>3 DEF Touched
    <3>2. Agrees(q.dec[k], evid[q.e][i])
      BY <1>1, <3>1
    <3>3. v[i].state = q.dec[k].kind /\ v[i].pr = q.dec[k].pr
      BY <1>4, <3>1
    <3>4. evid[q.e][i].state # "direct"
      BY <3>1, <3>2 DEF Agrees
    <3>5. evid[q.e][i].state = "pr" /\ q.dec[k].kind = "pr" /\ q.dec[k].pr = evid[q.e][i].pr
      BY <1>8, <2>3, <3>2, <3>4 DEF Agrees
    <3>. QED  BY <1>5, <2>3, <3>3, <3>5
  <2>. QED  BY <2>1, <2>2, <2>3
<1>. QED  BY <1>4, <1>5, <1>6, <1>7, <1>8

(* What a commit gives, as the new values of rows and evidence show it.     *)
AllNew(q, n, N) ==
  \A k \in 1 .. n :
    /\ k \in DOMAIN q.dec /\ q.dec[k].kind \in {"pr", "direct"}
    /\ q.dec[k].kept => q.dec[k].kind = "direct"
    /\ q.dec[k].kind = "pr" => /\ \A i \in N : row[q.e][i].pr # q.dec[k].pr
                               /\ \A j \in Upto(k - 1) : q.dec[j].pr # q.dec[k].pr

LEMMA AllNewOK ==
  ASSUME NEW q, NEW n, NEW N, AllNew(q, n, N), NEW k, k \in 1 .. n
  PROVE  /\ k \in DOMAIN q.dec /\ q.dec[k].kind \in {"pr", "direct"} /\ (q.dec[k].kept => q.dec[k].kind = "direct")
         /\ q.dec[k].kind = "pr" => /\ \A i \in N : row[q.e][i].pr # q.dec[k].pr
                                    /\ \A j \in Upto(k - 1) : q.dec[j].pr # q.dec[k].pr
BY DEF AllNew

LEMMA CommitFacts ==
  ASSUME IInv, NEW q, NEW n, Committing(q, n), row' = [row EXCEPT ![q.e] = Given(q, n)],
         NEW N, N = Numbered(q.e), NEW c, c = row'[q.e]
  PROVE  /\ N \in SUBSET (1 .. q.headSeq) /\ q.head = Cardinality(N) /\ Continued(q, n, c)
         /\ AllNew(q, n, N)
<1>1. /\ TypeInv /\ q \in Procs /\ n \in Nat /\ q.e \in Es /\ q.dec \in Seq(Decs) /\ n <= Len(q.dec)
      /\ q.e = space.epoch /\ q.head = space.head /\ \A k \in 1 .. n : Blocker(q, k) = None
  BY DEF IInv, Committing
<1>2. N \in SUBSET (1 .. q.headSeq) /\ c = Given(q, n)
  BY NumbersAfter
<1>3. q.head = Cardinality(N)
  BY <1>1 DEF IInv, Checkpoint
<1>4. Continued(q, n, c)
  BY <1>1, <1>2, GivenOK
<1>5. ASSUME NEW k \in 1 .. n
      PROVE  /\ k \in DOMAIN q.dec /\ q.dec[k].kind \in {"pr", "direct"}
             /\ q.dec[k].kept => q.dec[k].kind = "direct"
             /\ q.dec[k].kind = "pr" => /\ \A i \in N : row[q.e][i].pr # q.dec[k].pr
                                        /\ \A j \in Upto(k - 1) : q.dec[j].pr # q.dec[k].pr
  <2>1. k \in DOMAIN q.dec /\ Blocker(q, k) = None
    BY <1>1
  <2>2. /\ q.dec[k] \in Decs /\ q.dec[k].kind \in {"pr", "direct"}
        /\ q.dec[k].kind = "pr" => /\ q.dec[k].pr \notin NumberedPrs(q.e)
                                   /\ \A j \in Upto(k - 1) : q.dec[j].pr # q.dec[k].pr
    BY <1>1, <2>1, UnblockedOK
  <2>3. q.dec[k].kept => q.dec[k].kind = "direct"
    BY <2>2 DEF Decs
  <2>. QED  BY <2>1, <2>2, <2>3 DEF NumberedPrs
<1>. QED  BY <1>2, <1>3, <1>4, <1>5 DEF AllNew

LEMMA CommitGapless ==
  ASSUME IInv, NEW q, NEW n, Committing(q, n), row' = [row EXCEPT ![q.e] = Given(q, n)],
         evid' = [evid EXCEPT ![q.e] = Recorded(q)]
  PROVE  GaplessInv'
<1>1. TypeInv /\ ChainInv /\ q.e \in Es /\ q.headSeq \in Nat /\ q.head \in Nat /\ n \in Nat
  BY DEF IInv, Committing
<1>2. PICK h \in Nat, e \in Es : h = q.headSeq /\ e = q.e
  BY <1>1
<1>3. PICK N, c : N = Numbered(e) /\ c = row'[e]
  OBVIOUS
<1>4. N \in SUBSET (1 .. h) /\ q.head = Cardinality(N) /\ Continued(q, n, c) /\ AllNew(q, n, N)
  <2>1. N \in SUBSET (1 .. q.headSeq) /\ q.head = Cardinality(N) /\ Continued(q, n, c) /\ AllNew(q, n, N)
    BY <1>2, <1>3, CommitFacts
  <2>. QED  BY <1>2, <2>1
<1>5. PICK M, dec : dec = q.dec /\ M = Numbered(e)' /\ M = N \cup After(h, Picks(dec, n))
  BY <1>2, <1>3, NumbersAfter
<1>6. /\ \A i \in 1 .. h : Rank(M, i) = Rank(N, i)
      /\ \A k \in 1 .. n : Rank(M, h + k) = Cardinality(N) + Count(q.dec, k)
  <2>1. M = Joined(N, h, Picks(dec, n))
    BY <1>5 DEF Joined
  <2>2. /\ \A i \in 1 .. h : Rank(M, i) = Rank(N, i)
        /\ \A k \in 1 .. n : Rank(M, h + k) = Cardinality(N) + Count(dec, k)
        /\ Cardinality(M) = Cardinality(N) + Count(dec, n)
    BY <1>1, <1>4, <2>1, RanksAfter
  <2>. QED  BY <1>5, <2>2
<1>7. /\ \A f \in Es : f # e => Numbered(f)' = Numbered(f) /\ row'[f] = row[f]
      /\ \A f \in Es : f # e => evid'[f] = evid[f]
  BY <1>2, NumbersAfter, EvidenceAfter
<1>8. /\ \A k \in DOMAIN q.dec : ~q.dec[k].kept => evid'[e][h + k].state = q.dec[k].kind /\ evid'[e][h + k].pr = q.dec[k].pr
      /\ \A i \in Ss : evid[e][i].state \in {"pr", "direct"} =>
           evid'[e][i].state = evid[e][i].state /\ evid'[e][i].pr = evid[e][i].pr
  BY <1>2, EvidenceAfter
<1>9. ASSUME NEW f \in Es, f # e PROVE Gapless(f)'
  BY <1>7, <1>9, GaplessKept DEF IInv, GaplessInv
<1>10. \A i \in N : /\ row[e][i].num = Rank(N, i) /\ evid[e][i].state = "pr" /\ evid[e][i].pr = row[e][i].pr
                    /\ \A j \in N : row[e][j].pr = row[e][i].pr => i = j
  BY <1>3 DEF IInv, GaplessInv, Gapless
<1>11. ASSUME NEW i \in N
       PROVE  i \in 1 .. h /\ c[i] = row[e][i] /\ evid'[e][i].state = "pr" /\ evid'[e][i].pr = row[e][i].pr
  <2>1. i \in 1 .. h
    BY <1>4
  <2>2. i \in DOMAIN row[e] /\ DOMAIN row[e] \subseteq Ss
    BY <1>1, <1>3, ChainOK DEF Numbered
  <2>3. c[i] = row[e][i]
    BY <1>2, <1>4, <2>1, <2>2 DEF Continued
  <2>. QED  BY <1>8, <1>10, <2>1, <2>2, <2>3
<1>12. ASSUME NEW k \in Picks(q.dec, n)
       PROVE  /\ k \in 1 .. n /\ c[h + k].pr = q.dec[k].pr /\ c[h + k].num = q.head + Count(q.dec, k)
              /\ evid'[e][h + k].state = "pr" /\ evid'[e][h + k].pr = q.dec[k].pr
              /\ \A i \in N : row[e][i].pr # q.dec[k].pr
              /\ \A j \in 1 .. (k - 1) : q.dec[j].pr # q.dec[k].pr
  <2>1. k \in 1 .. n /\ q.dec[k].kind = "pr"
    BY DEF Picks, Upto
  <2>2. c[h + k].pr = q.dec[k].pr /\ c[h + k].num = q.head + Count(q.dec, k)
    BY <1>2, <1>4, <2>1 DEF Continued
  <2>3. /\ k \in DOMAIN q.dec /\ q.dec[k].kind \in {"pr", "direct"} /\ (q.dec[k].kept => q.dec[k].kind = "direct")
        /\ q.dec[k].kind = "pr" => /\ \A i \in N : row[q.e][i].pr # q.dec[k].pr
                                   /\ \A j \in Upto(k - 1) : q.dec[j].pr # q.dec[k].pr
    BY <1>4, <2>1, AllNewOK
  <2>4. ~q.dec[k].kept
    BY <2>1, <2>3
  <2>. QED  BY <1>2, <1>8, <2>1, <2>2, <2>3, <2>4 DEF Upto
<1>13. \A j, k \in Picks(q.dec, n) : q.dec[j].pr = q.dec[k].pr => j = k
  <2>. SUFFICES ASSUME NEW j \in Picks(q.dec, n), NEW k \in Picks(q.dec, n), q.dec[j].pr = q.dec[k].pr, j # k PROVE FALSE
    OBVIOUS
  <2>1. j \in 1 .. n /\ k \in 1 .. n
    BY <1>12
  <2>2. j \in 1 .. (k - 1) \/ k \in 1 .. (j - 1)
    BY <1>1, <2>1
  <2>. QED  BY <1>12, <2>2
<1>14. \A i \in M : i \in N \/ \E k \in Picks(q.dec, n) : i = h + k
  BY <1>5 DEF After
<1>15. ASSUME NEW i \in M
       PROVE  c[i].num = Rank(M, i) /\ evid'[e][i].state = "pr" /\ evid'[e][i].pr = c[i].pr
  <2>1. CASE i \in N
    BY <1>6, <1>10, <1>11, <2>1
  <2>2. ASSUME NEW k \in Picks(q.dec, n), i = h + k
        PROVE  c[i].num = Rank(M, i) /\ evid'[e][i].state = "pr" /\ evid'[e][i].pr = c[i].pr
    BY <1>4, <1>6, <1>12, <2>2
  <2>. QED  BY <1>14, <2>1, <2>2
<1>16. ASSUME NEW i \in M, NEW j \in M, c[j].pr = c[i].pr PROVE i = j
  <2>1. CASE i \in N /\ j \in N
    BY <1>10, <1>11, <1>16, <2>1
  <2>2. ASSUME i \in N, NEW k \in Picks(q.dec, n), j = h + k PROVE i = j
    BY <1>11, <1>12, <1>16, <2>2
  <2>3. ASSUME j \in N, NEW k \in Picks(q.dec, n), i = h + k PROVE i = j
    BY <1>11, <1>12, <1>16, <2>3
  <2>4. ASSUME NEW k \in Picks(q.dec, n), NEW l \in Picks(q.dec, n), i = h + k, j = h + l PROVE i = j
    <3>1. q.dec[k].pr = q.dec[l].pr
      BY <1>12, <1>16, <2>4
    <3>. QED  BY <1>13, <2>4, <3>1
  <2>. QED  BY <1>14, <2>1, <2>2, <2>3, <2>4
<1>17. Gapless(e)'
  BY <1>3, <1>5, <1>15, <1>16 DEF Gapless
<1>. QED  BY <1>9, <1>17 DEF GaplessInv

LEMMA CommitCheckpoint ==
  ASSUME IInv, NEW q, NEW n, Committing(q, n), row' = [row EXCEPT ![q.e] = Given(q, n)],
         evid' = [evid EXCEPT ![q.e] = Recorded(q)],
         space'.epoch = space.epoch, space'.headSeq = q.headSeq + n, space'.head = q.head + Count(q.dec, n)
  PROVE  Checkpoint'
<1>1. /\ TypeInv /\ ChainInv /\ q.e \in Es /\ q.headSeq \in Nat /\ q.head \in Nat /\ n \in Nat
      /\ q.e = space.epoch /\ q.headSeq = space.headSeq
  BY DEF IInv, Committing
<1>2. PICK h \in Nat, e \in Es : h = q.headSeq /\ e = q.e
  BY <1>1
<1>3. PICK N, c : N = Numbered(e) /\ c = row'[e]
  OBVIOUS
<1>4. N \in SUBSET (1 .. h) /\ q.head = Cardinality(N) /\ Continued(q, n, c) /\ AllNew(q, n, N)
  <2>1. N \in SUBSET (1 .. q.headSeq) /\ q.head = Cardinality(N) /\ Continued(q, n, c) /\ AllNew(q, n, N)
    BY <1>2, <1>3, CommitFacts
  <2>. QED  BY <1>2, <2>1
<1>5. PICK M, dec : dec = q.dec /\ M = Numbered(e)' /\ M = Joined(N, h, Picks(dec, n))
  BY <1>2, <1>3, NumbersAfter DEF Joined
<1>6. Cardinality(M) = q.head + Count(q.dec, n)
  <2>1. /\ \A i \in 1 .. h : Rank(M, i) = Rank(N, i)
        /\ \A k \in 1 .. n : Rank(M, h + k) = Cardinality(N) + Count(dec, k)
        /\ Cardinality(M) = Cardinality(N) + Count(dec, n)
    BY <1>1, <1>4, <1>5, RanksAfter
  <2>. QED  BY <1>4, <1>5, <2>1
<1>7. /\ \A k \in DOMAIN q.dec :
           /\ q.dec[k].kept => evid'[e][h + k].state = "direct"
           /\ ~q.dec[k].kept => evid'[e][h + k].state = q.dec[k].kind
      /\ \A i \in Ss : evid[e][i].state \in {"pr", "direct"} => evid'[e][i].state = evid[e][i].state
  BY <1>2, EvidenceAfter
<1>8. /\ DOMAIN c = DOMAIN row[e] /\ DOMAIN row[e] = 1 .. Len(row[e]) /\ DOMAIN row[e] \subseteq Ss /\ Len(row[e]) \in Nat
  BY <1>1, <1>2, <1>4, RowOK, ChainOK DEF Continued
<1>9. \A k \in Picks(q.dec, n) : k \in 1 .. n
  BY DEF Picks, Upto
<1>10. ASSUME NEW i \in DOMAIN c, i <= h + n PROVE i \in M \/ evid'[e][i].state = "direct"
  <2>1. CASE i <= h
    <3>1. i \in N \/ evid[e][i].state = "direct"
      BY <1>1, <1>2, <1>3, <1>8, <2>1 DEF IInv, Checkpoint
    <3>. QED  BY <1>5, <1>7, <1>8, <3>1 DEF Joined
  <2>2. CASE ~(i <= h)
    <3>1. PICK k \in 1 .. n : i = h + k
      <4>1. i - h \in 1 .. n /\ i = h + (i - h)
        BY <1>1, <1>8, <1>10, <2>2
      <4>. QED  BY <4>1
    <3>2. k \in DOMAIN q.dec /\ q.dec[k].kind \in {"pr", "direct"}
      BY <1>4, AllNewOK
    <3>3. CASE q.dec[k].kind = "pr"
      BY <1>5, <3>1, <3>3 DEF Joined, After, Picks, Upto
    <3>4. CASE q.dec[k].kind = "direct"
      BY <1>7, <3>1, <3>2, <3>4
    <3>. QED  BY <3>2, <3>3, <3>4
  <2>. QED  BY <2>1, <2>2
<1>11. ASSUME NEW i \in M PROVE i <= h + n
  <2>1. CASE i \in N
    BY <1>1, <1>4, <2>1
  <2>2. ASSUME NEW k \in Picks(q.dec, n), i = h + k PROVE i <= h + n
    BY <1>1, <1>9, <2>2
  <2>. QED  BY <1>5, <2>1, <2>2 DEF Joined, After
<1>12. space'.epoch = e /\ space'.headSeq = h + n /\ space'.head = Cardinality(M)
  BY <1>1, <1>2, <1>6
<1>. QED  BY <1>3, <1>5, <1>10, <1>11, <1>12 DEF Checkpoint

LEMMA CommitRounds ==
  ASSUME IInv, NEW p \in Ws, NEW q, NEW n, Committing(q, n), row' = [row EXCEPT ![q.e] = Given(q, n)],
         evid' = [evid EXCEPT ![q.e] = Recorded(q)],
         space'.epoch = space.epoch, space'.headSeq = q.headSeq + n, space'.head = q.head + Count(q.dec, n),
         proc' = [r \in Ws |-> IF r = p THEN Idle ELSE Noticed(q, proc[r])]
  PROVE  proc' \in [Ws -> Procs] /\ RoundsInv'
<1>1. /\ TypeInv /\ ChainInv /\ q.e \in Es /\ q.headSeq \in Nat /\ q.head \in Nat /\ n \in Nat
      /\ q.e = space.epoch /\ q.headSeq = space.headSeq /\ q.head = space.head
  BY DEF IInv, Committing
<1>2. /\ \A f \in Es : f # q.e => row'[f] = row[f] /\ evid'[f] = evid[f]
      /\ \A i \in Ss : i \notin Touched(q) => evid'[q.e][i] = evid[q.e][i]
  BY NumbersAfter, EvidenceAfter
<1>3. Len(row'[q.e]) = Len(row[q.e])
  <2>1. PICK N, c : N = Numbered(q.e) /\ c = row'[q.e]
    OBVIOUS
  <2>2. Continued(q, n, c)
    BY <2>1, CommitFacts
  <2>. QED  BY <2>1, <2>2 DEF Continued
<1>4. \A f \in Es : Len(row'[f]) = Len(row[f])
  BY <1>2, <1>3
<1>5. n = 0 => Count(q.dec, n) = 0
  BY <1>1, CountOK
<1>6. ASSUME NEW r \in Ws
      PROVE  \E o : o = proc'[r] /\ o \in Procs /\ Started(o)' /\ Decided(o)'
  <2>1. CASE r = p
    <3>1. proc'[r] = Idle
      BY <2>1
    <3>2. Started(Idle)' /\ Decided(Idle)'
      BY IdleOK DEF Started, Decided
    <3>. QED  BY <3>1, <3>2, IdleOK
  <2>2. CASE r # p
    <3>1. PICK u \in Procs : u = proc[r] /\ Started(u) /\ Decided(u)
      BY <1>1, ProcOK DEF IInv, RoundsInv
    <3>2. PICK o : o = Noticed(q, u)
      OBVIOUS
    <3>3. o = proc'[r]
      BY <2>2, <3>1, <3>2
    <3>4. /\ o \in Procs /\ o.pc = u.pc /\ o.e = u.e /\ o.headSeq = u.headSeq /\ o.head = u.head /\ o.dec = u.dec
          /\ o.stale \in BOOLEAN
          /\ ~o.stale => /\ ~u.stale
                         /\ u.pc = "commit" /\ u.e = q.e => Touched(q) \cap {u.headSeq + i : i \in DOMAIN u.dec} = {}
      BY <3>2 DEF Noticed, Procs
    <3>5. Started(o)'
      <4>. SUFFICES ASSUME o.pc \in {"clear", "look", "commit"} PROVE Started(o)'
        BY DEF Started
      <4>1. /\ u.e \in Es /\ u.e <= space.epoch
            /\ u.e = space.epoch => u.headSeq <= space.headSeq /\ (u.headSeq = space.headSeq => u.head = space.head)
        BY <3>1, <3>4 DEF Started
      <4>2. u.headSeq \in Nat
        BY DEF Procs
      <4>3. u.e = space.epoch => /\ u.headSeq <= q.headSeq + n
                                 /\ u.headSeq = q.headSeq + n => u.head = q.head + Count(q.dec, n)
        <5>. SUFFICES ASSUME u.e = space.epoch
                      PROVE  u.headSeq <= q.headSeq + n /\ (u.headSeq = q.headSeq + n => u.head = q.head + Count(q.dec, n))
          OBVIOUS
        <5>1. u.headSeq <= q.headSeq /\ (u.headSeq = q.headSeq => u.head = q.head)
          BY <1>1, <4>1
        <5>2. u.headSeq <= q.headSeq + n /\ (u.headSeq = q.headSeq + n => n = 0 /\ u.headSeq = q.headSeq)
          BY <1>1, <4>2, <5>1
        <5>. QED  BY <1>1, <1>5, <5>1, <5>2
      <4>. QED  BY <3>4, <4>1, <4>3 DEF Started
    <3>6. Decided(o)'
      <4>. SUFFICES ASSUME o.pc = "commit" PROVE Decided(o)'
        BY DEF Decided
      <4>1. /\ u.e \in Es /\ u.headSeq + Len(u.dec) <= Len(row[u.e]) /\ u.headSeq \in Nat /\ u.dec \in Seq(Decs)
            /\ ~u.stale => \A i \in DOMAIN u.dec : Agrees(u.dec[i], evid[u.e][u.headSeq + i])
        BY <3>1, <3>4 DEF Started, Decided, Procs
      <4>2. u.headSeq + Len(u.dec) <= Len(row'[u.e])
        BY <1>4, <4>1
      <4>3. ASSUME ~o.stale, NEW i \in DOMAIN u.dec PROVE Agrees(u.dec[i], evid'[u.e][u.headSeq + i])
        <5>1. Agrees(u.dec[i], evid[u.e][u.headSeq + i])
          BY <3>4, <4>1, <4>3
        <5>2. /\ Len(row[u.e]) \in Nat /\ DOMAIN row[u.e] = 1 .. Len(row[u.e]) /\ DOMAIN row[u.e] \subseteq Ss
          BY <1>1, <4>1, RowOK, ChainOK
        <5>3. u.headSeq + i \in 1 .. Len(row[u.e])
          BY <4>1, <4>3, <5>2
        <5>4. u.headSeq + i \in Ss
          BY <5>2, <5>3
        <5>5. evid'[u.e][u.headSeq + i] = evid[u.e][u.headSeq + i]
          <6>1. CASE u.e # q.e
            BY <1>2, <4>1, <6>1
          <6>2. CASE u.e = q.e
            <7>1. u.headSeq + i \notin Touched(q)
              BY <3>4, <4>3, <6>2
            <7>. QED  BY <1>2, <5>4, <6>2, <7>1
          <6>. QED  BY <6>1, <6>2
        <5>. QED  BY <5>1, <5>5
      <4>. QED  BY <3>4, <4>2, <4>3 DEF Decided, Agrees
    <3>. QED  BY <3>3, <3>4, <3>5, <3>6
  <2>. QED  BY <2>1, <2>2
<1>7. proc' \in [Ws -> Procs]
  BY <1>6
<1>8. RoundsInv'
  <2>. SUFFICES ASSUME NEW r \in Ws PROVE Started(proc[r])' /\ Decided(proc[r])'
    BY DEF RoundsInv
  <2>1. PICK o : o = proc'[r] /\ Started(o)' /\ Decided(o)'
    BY <1>6
  <2>. QED  BY <2>1 DEF Started, Decided, Agrees
<1>. QED  BY <1>7, <1>8

(* A round that commits.                                                    *)
LEMMA CommitStep ==
  ASSUME IInv, NEW p \in Ws, Commit(p)
  PROVE  IInv'
<1>1. PICK q, n :
        /\ Committing(q, n)
        /\ row' = [row EXCEPT ![q.e] = Given(q, n)] /\ evid' = [evid EXCEPT ![q.e] = Recorded(q)]
        /\ space' \in Spaces /\ space'.epoch = space.epoch /\ space'.state = space.state
        /\ space'.headSeq = q.headSeq + n /\ space'.head = q.head + Count(q.dec, n)
        /\ rec' \in [Es -> Works] /\ DOMAIN mat' = DOMAIN mat
        /\ proc' = [r \in Ws |-> IF r = p THEN Idle ELSE Noticed(q, proc[r])]
  BY CommitOK
<1>2. /\ TypeInv /\ ChainInv /\ q.e \in Es /\ q.headSeq \in Nat /\ n \in Nat /\ q.dec \in Seq(Decs) /\ q.e = space.epoch
      /\ n <= Len(q.dec) /\ q.headSeq + Len(q.dec) <= Len(row[q.e])
  BY <1>1 DEF IInv, Committing
<1>3. proc' \in [Ws -> Procs] /\ RoundsInv'
  BY <1>1, CommitRounds
<1>4. GaplessInv' /\ Checkpoint'
  BY <1>1, CommitGapless, CommitCheckpoint
<1>5. row' \in [Es -> Seq(Rows)] /\ \A f \in Es : f # q.e => row'[f] = row[f]
  BY <1>1, NumbersAfter
<1>6. evid' \in [Es -> [Ss -> Evidences]]
  BY <1>1, EvidenceAfter
<1>7. TypeInv'
  BY <1>1, <1>2, <1>3, <1>5, <1>6 DEF TypeInv
<1>8. ChainInv'
  <2>1. Len(row'[q.e]) = Len(row[q.e])
    <3>1. PICK N, c : N = Numbered(q.e) /\ c = row'[q.e]
      OBVIOUS
    <3>2. Continued(q, n, c)
      BY <1>1, <3>1, CommitFacts
    <3>. QED  BY <3>1, <3>2 DEF Continued
  <2>2. \A e \in Es : Len(row'[e]) <= Len(History[e]) /\ (e > space.epoch => row'[e] = <<>>)
    <3>1. ~(q.e > space.epoch)
      <4>1. space.epoch \in Nat
        BY <1>2, SpaceOK
      <4>. QED  BY <1>2, <4>1
    <3>. QED  BY <1>2, <1>5, <2>1, <3>1 DEF ChainInv
  <2>3. q.headSeq + n <= Len(row'[q.e])
    <3>1. Len(row[q.e]) \in Nat /\ Len(q.dec) \in Nat
      BY <1>2, RowOK
    <3>. QED  BY <1>2, <2>1, <3>1
  <2>. QED  BY <1>1, <1>2, <2>2, <2>3 DEF ChainInv
<1>. QED  BY <1>3, <1>4, <1>7, <1>8 DEF IInv

----------------------------------------------------------------------------
LEMMA InitOK == Init => IInv
<1>. SUFFICES ASSUME Init PROVE IInv
  OBVIOUS
<1>1. /\ space = NewSpace(1) /\ row = [e \in Es |-> <<>>] /\ evid = [e \in Es |-> [i \in Ss |-> NoEvidence]]
      /\ rec = [e \in Es |-> NoWork] /\ mat = [k \in Es \X Prs |-> NoWork] /\ proc = [p \in Ws |-> Idle]
  BY DEF Init, Es, Ss, Ws
<1>2. NewSpace(1) \in Spaces /\ NoEvidence \in Evidences /\ NoWork \in Works
  BY ConstOK DEF NewSpace, Spaces, NoEvidence, Evidences, NoWork, Works
<1>3. <<>> \in Seq(Rows) /\ Len(<<>>) = 0 /\ DOMAIN <<>> = {}
  OBVIOUS
<1>4. TypeInv
  BY <1>1, <1>2, <1>3, IdleOK DEF TypeInv
<1>5. space.epoch = 1 /\ space.headSeq = 0 /\ space.head = 0 /\ space.state = "active"
  BY <1>1 DEF NewSpace
<1>6. \A e \in Es : row[e] = <<>> /\ Len(History[e]) \in Nat /\ Numbered(e) = {}
  BY <1>1, <1>3, ConstOK DEF Numbered
<1>7. ChainInv
  BY <1>3, <1>5, <1>6, ConstOK DEF ChainInv
<1>8. RoundsInv
  BY <1>1, IdleOK DEF RoundsInv, Started, Decided
<1>9. GaplessInv
  BY <1>6 DEF GaplessInv, Gapless
<1>10. Checkpoint
  BY <1>3, <1>5, <1>6, ConstOK, FS_EmptySet DEF Checkpoint
<1>. QED  BY <1>4, <1>7, <1>8, <1>9, <1>10 DEF IInv

LEMMA NextOK == IInv /\ [Next]_vars => IInv'
<1>. SUFFICES ASSUME IInv, [Next]_vars PROVE IInv'
  OBVIOUS
<1>1. TypeInv /\ Epochs = Es /\ Workers = Ws /\ Reconcilers \subseteq Ws /\ Materializers \subseteq Ws
  BY DEF IInv, TypeInv, Epochs, Workers, Ws
<1>2. CASE AddRow
  BY <1>2, AddRowStep
<1>3. CASE MarkReassigning
  BY <1>3, StateStep DEF MarkReassigning
<1>4. CASE Reassign
  BY <1>4, ReassignStep
<1>5. CASE GiveUpReassign
  BY <1>5, StateStep DEF GiveUpReassign
<1>6. CASE \/ \E e \in Epochs : ConsumeHint(e)
           \/ \E p \in Prs : Merge(p) \/ Snapshot(p)
           \/ \E d \in Prs \cup Shas : CreateDoc(d)
           \/ Attest \/ Revoke \/ LoseLease
  BY <1>6, RequestStep
<1>7. ASSUME NEW i \in Seqs, Recheckable(i) PROVE IInv'
  BY <1>7, RecheckStep
<1>8. ASSUME NEW p \in Reconcilers, Round(p) PROVE IInv'
  <2>1. p \in Ws
    BY <1>1
  <2>. QED  BY <1>8, <2>1, StartRoundStep, ClearStep, LookStep, CommitStep, DropRoundStep DEF Round
<1>9. ASSUME NEW p \in Materializers, Materialize(p) PROVE IInv'
  BY <1>1, <1>9, MaterializeStep
<1>10. ASSUME NEW p \in Workers, Die(p) PROVE IInv'
  BY <1>1, <1>10, DieStep
<1>11. CASE UNCHANGED vars
  BY <1>1, <1>11, WorkStep DEF vars, IInv, TypeInv
<1>. QED  BY <1>2, <1>3, <1>4, <1>5, <1>6, <1>7, <1>8, <1>9, <1>10, <1>11 DEF Next

(* The merge numbers of every epoch are 1, 2, 3 ... in the order of the     *)
(* rows, no pull request has two, each stands on confirmed evidence, and    *)
(* the checkpoint counts them: however many rounds overlap, and whatever is *)
(* rebuilt, attested or revoked (reconcileMergeNumbers).                    *)
THEOREM Invariance == Spec => []IInv
BY InitOK, NextOK, PTL DEF Spec

(* The numbers have no gap: NumbersAreGapless of the model, in every state. *)
THEOREM NumbersHaveNoGaps == Spec => []NumbersAreGapless
<1>1. IInv => NumbersAreGapless
  <2>. SUFFICES ASSUME IInv PROVE NumbersAreGapless
    OBVIOUS
  <2>1. Epochs = Es
    BY DEF IInv, TypeInv, Epochs
  <2>2. \A e \in Epochs : \A i \in Numbered(e) :
          /\ row[e][i].num = Cardinality({j \in Numbered(e) : j <= i})
          /\ evid[e][i].state = "pr" /\ evid[e][i].pr = row[e][i].pr
          /\ \A j \in Numbered(e) : row[e][j].pr = row[e][i].pr => i = j
    BY <2>1 DEF IInv, GaplessInv, Gapless, Rank
  <2>. QED  BY <2>2 DEF IInv, Checkpoint, NumbersAreGapless
<1>. QED  BY Invariance, <1>1, PTL

----------------------------------------------------------------------------
(* What is given is kept.                                                   *)
Kept ==
  \A e \in Epochs :
    /\ \A i \in DOMAIN row[e] : row[e][i].num > 0 => row'[e][i] = row[e][i]
    /\ \A i \in Seqs : evid[e][i].state \in {"pr", "direct"} =>
         evid'[e][i].state = evid[e][i].state /\ evid'[e][i].pr = evid[e][i].pr

LEMMA SameKept == UNCHANGED <<row, evid>> => Kept
BY DEF Kept

LEMMA AddRowKept ==
  ASSUME IInv, AddRow
  PROVE  Kept
<1>1. TypeInv /\ space.epoch \in Es /\ Epochs = Es /\ row \in [Es -> Seq(Rows)] /\ UNCHANGED evid
  BY SpaceOK DEF IInv, TypeInv, Epochs, AddRow
<1>2. PICK e, r : e \in Es /\ row' = [row EXCEPT ![e] = row[e] \o <<r>>]
  BY <1>1 DEF AddRow
<1>3. \A f \in Es : f # e => row'[f] = row[f]
  BY <1>1, <1>2
<1>4. row'[e] = row[e] \o <<r>> /\ row[e] \in Seq(Rows)
  BY <1>1, <1>2
<1>5. \A i \in DOMAIN row[e] : row'[e][i] = row[e][i]
  BY <1>4
<1>. QED  BY <1>1, <1>3, <1>5 DEF Kept

LEMMA ReassignKept ==
  ASSUME IInv, Reassign
  PROVE  Kept
<1>1. TypeInv /\ ChainInv /\ space.epoch \in Nat /\ Epochs = Es /\ row \in [Es -> Seq(Rows)] /\ UNCHANGED evid
  BY SpaceOK DEF IInv, TypeInv, Epochs, Reassign
<1>2. PICK f, c : f = space.epoch + 1 /\ row' = [row EXCEPT ![f] = c]
  BY DEF Reassign
<1>3. \A e \in Es : e # f => row'[e] = row[e]
  BY <1>1, <1>2
<1>4. f \in Es => DOMAIN row[f] = {}
  <2>1. f > space.epoch
    BY <1>1, <1>2
  <2>2. f \in Es => row[f] = <<>>
    BY <1>1, <2>1 DEF ChainInv
  <2>. QED  BY <2>2
<1>. QED  BY <1>1, <1>3, <1>4 DEF Kept

LEMMA RecheckKept ==
  ASSUME IInv, NEW i \in Seqs, Recheckable(i)
  PROVE  Kept
<1>1. TypeInv /\ space.epoch \in Es /\ Epochs = Es /\ evid \in [Es -> [Ss -> Evidences]] /\ UNCHANGED row
  BY SpaceOK DEF IInv, TypeInv, Epochs, Recheckable
<1>2. Seqs = Ss
  BY <1>1, ConstOK DEF Seqs
<1>3. PICK e, v : /\ e \in Es /\ v = [evid[e][i] EXCEPT !.fresh = FALSE]
                  /\ evid' = [evid EXCEPT ![e] = [evid[e] EXCEPT ![i] = v]]
  BY <1>1 DEF Recheckable
<1>4. evid[e][i] \in Evidences
  BY <1>1, <1>2, <1>3
<1>5. v.state = evid[e][i].state /\ v.pr = evid[e][i].pr
  BY <1>3, <1>4 DEF Evidences
<1>6. \A f \in Es, j \in Ss : evid'[f][j].state = evid[f][j].state /\ evid'[f][j].pr = evid[f][j].pr
  BY <1>1, <1>2, <1>3, <1>5
<1>. QED  BY <1>1, <1>2, <1>6 DEF Kept

LEMMA CommitKept ==
  ASSUME IInv, NEW p \in Ws, Commit(p)
  PROVE  Kept
<1>1. PICK q, n :
        /\ Committing(q, n)
        /\ row' = [row EXCEPT ![q.e] = Given(q, n)] /\ evid' = [evid EXCEPT ![q.e] = Recorded(q)]
        /\ space' \in Spaces /\ space'.epoch = space.epoch /\ space'.state = space.state
        /\ space'.headSeq = q.headSeq + n /\ space'.head = q.head + Count(q.dec, n)
        /\ rec' \in [Es -> Works] /\ DOMAIN mat' = DOMAIN mat
        /\ proc' = [r \in Ws |-> IF r = p THEN Idle ELSE Noticed(q, proc[r])]
  BY CommitOK
<1>2. Epochs = Es /\ Seqs = Ss /\ q.e \in Es
  BY <1>1, ConstOK DEF IInv, TypeInv, Epochs, Seqs, Committing
<1>3. \A e \in Es : e # q.e => row'[e] = row[e]
  BY <1>1, NumbersAfter
<1>4. ASSUME NEW i \in DOMAIN row[q.e], row[q.e][i].num > 0 PROVE row'[q.e][i] = row[q.e][i]
  <2>1. PICK N, c : N = Numbered(q.e) /\ c = row'[q.e]
    OBVIOUS
  <2>2. N \in SUBSET (1 .. q.headSeq) /\ Continued(q, n, c)
    BY <1>1, <2>1, CommitFacts
  <2>3. i \in N
    BY <1>4, <2>1 DEF Numbered
  <2>4. i <= q.headSeq
    BY <1>1, <2>2, <2>3 DEF Committing
  <2>. QED  BY <2>1, <2>2, <2>4 DEF Continued
<1>5. \A f \in Es : \A i \in Ss : evid[f][i].state \in {"pr", "direct"} =>
        evid'[f][i].state = evid[f][i].state /\ evid'[f][i].pr = evid[f][i].pr
  BY <1>1, EvidenceAfter
<1>. QED  BY <1>2, <1>3, <1>4, <1>5 DEF Kept

LEMMA NextKept == IInv /\ [Next]_vars => Kept
<1>. SUFFICES ASSUME IInv, [Next]_vars PROVE Kept
  OBVIOUS
<1>1. CASE \/ MarkReassigning \/ GiveUpReassign \/ Attest \/ Revoke
           \/ \E e \in Epochs : ConsumeHint(e)
           \/ \E p \in Prs : Merge(p) \/ Snapshot(p)
           \/ \E d \in Prs \cup Shas : CreateDoc(d)
           \/ LoseLease \/ \E p \in Workers : Die(p)
           \/ UNCHANGED vars
  <2>1. UNCHANGED <<row, evid>>
    BY <1>1 DEF MarkReassigning, GiveUpReassign, Attest, Revoke, ConsumeHint, Merge, Snapshot, CreateDoc, LoseLease, Die, vars
  <2>. QED  BY <2>1, SameKept
<1>2. ASSUME NEW p \in Materializers, Materialize(p) PROVE Kept
  <2>1. UNCHANGED <<row, evid>>
    BY <1>2 DEF Materialize, StartMaterialize, Lookup, WritePr, WriteCommit
  <2>. QED  BY <2>1, SameKept
<1>3. ASSUME NEW p \in Reconcilers, Round(p) PROVE Kept
  <2>1. CASE Commit(p)
    BY <2>1, CommitKept DEF Ws
  <2>2. CASE StartRound(p) \/ Clear(p) \/ Look(p) \/ DropRound(p)
    <3>1. UNCHANGED <<row, evid>>
      BY <2>2 DEF StartRound, Clear, Look, DropRound
    <3>. QED  BY <3>1, SameKept
  <2>. QED  BY <1>3, <2>1, <2>2 DEF Round
<1>4. CASE AddRow \/ Reassign
  BY <1>4, AddRowKept, ReassignKept
<1>5. ASSUME NEW i \in Seqs, Recheckable(i) PROVE Kept
  BY <1>5, RecheckKept
<1>. QED  BY <1>1, <1>2, <1>3, <1>4, <1>5 DEF Next

(* No step changes a number that was given or evidence that was confirmed,  *)
(* within its epoch: what a round that was overtaken has in hand is dropped *)
(* (assignMergeNumbers, and lockEvidence in reconcileMergeNumbers).         *)
THEOREM NumbersStay == Spec => NumbersAreKept
<1>1. Spec => [][Kept]_vars
  BY Invariance, NextKept, PTL DEF Spec
<1>. QED  BY <1>1 DEF Kept, NumbersAreKept

----------------------------------------------------------------------------
(* What the documents show.                                                 *)

(* A pull request is merged as one commit, a chain has a commit once, and   *)
(* names are not mixed up.                                                  *)
OneMerge ==
  /\ \A s, t \in Shas : Landed[s] \cap Landed[t] # {} => s = t
  /\ \A e \in Es : \A i, j \in DOMAIN History[e] : History[e][i] = History[e][j] => i = j
  /\ Prs \cap Shas = {} /\ None \notin Ws

Docs == [there : BOOLEAN, sha : Shas \cup {None}, epoch : Nat, num : Nat]
DocTypes == mat \in [Es \X Prs -> Works] /\ doc \in [Prs \cup Shas -> Docs]

(* Chains are the history's, and what is confirmed or about to be confirmed *)
(* of a row is a pull request GitHub merged as its commit.                  *)
HistoryInv == \A e \in Es : \A i \in DOMAIN row[e] : i \in DOMAIN History[e] /\ row[e][i].sha = History[e][i]
EvidenceInv == \A e \in Es : \A i \in DOMAIN History[e] : evid[e][i].state = "pr" => evid[e][i].pr \in Landed[History[e][i]]
Truthful(q) ==
  q.pc = "commit" => \A i \in DOMAIN q.dec : q.dec[i].kind = "pr" => q.dec[i].pr \in Landed[History[q.e][q.headSeq + i]]
DecisionsInv == \A p \in Ws : Truthful(proc[p])

(* The work of a pull request is there for a number, and its holder is at   *)
(* work on it.                                                              *)
Writing == {"lookup", "pr", "merge_commit"}
WorkInv ==
  \A e \in Es, x \in Prs :
    /\ mat[<<e, x>>].state # "none" => \E j \in Numbered(e) : row[e][j].pr = x
    /\ \A p \in Ws : mat[<<e, x>>].owner = p => proc[p].pc \in Writing /\ proc[p].e = e /\ proc[p].pr = x

(* What a materialization of the current epoch knows: the number it has in  *)
(* hand is that of its row unless the commit is another, and once it has    *)
(* passed the document of the pull request it is the same commit.           *)
Shows(d, e, n) == doc[d].epoch = e /\ doc[d].num = n
Knows(q, r) ==
  /\ r.pr = q.pr
  /\ q.e = space.epoch /\ q.pc # "lookup" /\ q.sha = r.sha => q.num = r.num
  /\ q.e = space.epoch /\ q.pc = "merge_commit" => q.sha = r.sha /\ Shows(q.pr, q.e, q.num)
Writer(q) ==
  q.pc \in Writing =>
    /\ q.e \in Es /\ q.e <= space.epoch /\ q.pr \in Prs /\ (q.pc # "lookup" => q.sha \in Shas)
    /\ \E j \in Numbered(q.e) : Knows(q, row[q.e][j])
WritersInv == \A p \in Ws : Writer(proc[p])

(* Documents are not ahead, and that of a pull request names a commit the   *)
(* pull request was merged as.                                              *)
DocInv ==
  \A d \in Prs \cup Shas :
    /\ doc[d].epoch <= space.epoch
    /\ doc[d].there /\ d \in Prs => doc[d].sha \in Shas /\ d \in Landed[doc[d].sha]

(* NumberedIsShown, whoever is still writing.                               *)
ShownRow(e, r) == mat[<<e, r.pr>>].state = "none" => Shows(r.pr, e, r.num) /\ Shows(r.sha, e, r.num)
ShownInv == \A j \in Numbered(space.epoch) : ShownRow(space.epoch, row[space.epoch][j])

SInv == DocTypes /\ HistoryInv /\ EvidenceInv /\ DecisionsInv /\ WorkInv /\ WritersInv /\ DocInv /\ ShownInv

----------------------------------------------------------------------------
(* Rows with a number, and what of them lasts.                              *)

LEMMA NumRow ==
  ASSUME IInv, SInv, NEW e \in Es, NEW j \in Numbered(e), NEW r, r = row[e][j]
  PROVE  /\ j \in DOMAIN row[e] /\ j \in DOMAIN History[e] /\ r.sha = History[e][j] /\ r.sha \in Shas /\ r.num \in Nat
         /\ r.pr \in Landed[r.sha] /\ r.pr \in Prs
<1>1. TypeInv /\ HistoryInv /\ EvidenceInv /\ Gapless(e)
  BY DEF IInv, SInv, GaplessInv
<1>2. j \in DOMAIN row[e] /\ r.sha \in Shas /\ r.num \in Nat
  BY <1>1, RowOK DEF Numbered
<1>3. j \in DOMAIN History[e] /\ r.sha = History[e][j]
  BY <1>1, <1>2 DEF HistoryInv
<1>4. evid[e][j].state = "pr" /\ evid[e][j].pr = r.pr
  BY <1>1 DEF Gapless
<1>5. r.pr \in Landed[r.sha]
  BY <1>1, <1>3, <1>4 DEF EvidenceInv
<1>6. Landed[r.sha] \subseteq Prs
  BY <1>2, MergeNumberAssumption
<1>. QED  BY <1>2, <1>3, <1>5, <1>6

(* A row is known by its pull request among the numbered, by its commit in  *)
(* the chain.                                                               *)
LEMMA SameRow ==
  ASSUME OneMerge, IInv, SInv, NEW e \in Es, NEW i \in Numbered(e), NEW j \in Numbered(e),
         \/ row[e][i].pr = row[e][j].pr
         \/ row[e][i].sha = row[e][j].sha
  PROVE  i = j
<1>1. CASE row[e][i].pr = row[e][j].pr
  BY <1>1 DEF IInv, GaplessInv, Gapless
<1>2. CASE row[e][i].sha = row[e][j].sha
  <2>1. /\ i \in DOMAIN History[e] /\ row[e][i].sha = History[e][i]
        /\ j \in DOMAIN History[e] /\ row[e][j].sha = History[e][j]
    BY NumRow
  <2>. QED  BY <1>2, <2>1 DEF OneMerge
<1>. QED  BY <1>1, <1>2

(* What is numbered stays as it is.                                         *)
Lasting == \A e \in Es : \A j \in Numbered(e) : j \in Numbered(e)' /\ row'[e][j] = row[e][j]

LEMMA SameLasting == UNCHANGED row => Lasting
BY DEF Lasting, Numbered

LEMMA GrownLasting ==
  ASSUME IInv, Kept, \A e \in Es : DOMAIN row[e] \subseteq DOMAIN row'[e]
  PROVE  Lasting
<1>1. Epochs = Es
  BY DEF IInv, TypeInv, Epochs
<1>. SUFFICES ASSUME NEW e \in Es, NEW j \in Numbered(e) PROVE j \in Numbered(e)' /\ row'[e][j] = row[e][j]
  BY DEF Lasting
<1>2. j \in DOMAIN row[e] /\ row[e][j].num > 0
  BY DEF Numbered
<1>3. row'[e][j] = row[e][j]
  BY <1>1, <1>2 DEF Kept
<1>. QED  BY <1>2, <1>3 DEF Numbered

(* What a document shows of a numbered row it goes on to show.              *)
Stable ==
  \A j \in Numbered(space.epoch) : \A d \in {row[space.epoch][j].pr, row[space.epoch][j].sha} :
    Shows(d, space.epoch, row[space.epoch][j].num) =>
      doc'[d].epoch = space.epoch /\ doc'[d].num = row[space.epoch][j].num

LEMMA SameStable == UNCHANGED doc => Stable
BY DEF Stable, Shows

LEMMA WriterKept ==
  ASSUME IInv, SInv, Lasting, Stable, space'.epoch \in Nat, space.epoch <= space'.epoch, NEW q, Writer(q)
  PROVE  Writer(q)'
<1>. SUFFICES ASSUME q.pc \in Writing
     PROVE  /\ q.e \in Es /\ q.e <= space'.epoch /\ q.pr \in Prs /\ (q.pc # "lookup" => q.sha \in Shas)
            /\ \E j \in Numbered(q.e)' : Knows(q, row[q.e][j])'
  BY DEF Writer
<1>1. q.e \in Es /\ q.e <= space.epoch /\ q.pr \in Prs /\ (q.pc # "lookup" => q.sha \in Shas)
  BY DEF Writer
<1>2. PICK j \in Numbered(q.e) : Knows(q, row[q.e][j])
  BY DEF Writer
<1>3. PICK r : r = row[q.e][j] /\ r = row'[q.e][j] /\ j \in Numbered(q.e)'
  BY <1>1, <1>2 DEF Lasting
<1>4. space.epoch \in Nat /\ q.e \in Nat
  BY <1>1, SpaceOK, ConstOK DEF IInv
<1>5. q.e <= space'.epoch /\ (q.e = space'.epoch => q.e = space.epoch)
  BY <1>1, <1>4
<1>6. Knows(q, r)
  BY <1>2, <1>3
<1>7. q.e = space'.epoch /\ q.pc = "merge_commit" => doc'[q.pr].epoch = q.e /\ doc'[q.pr].num = q.num
  <2>. HAVE q.e = space'.epoch /\ q.pc = "merge_commit"
  <2>1. q.e = space.epoch /\ r.pr = q.pr /\ q.num = r.num /\ Shows(r.pr, q.e, r.num)
    BY <1>5, <1>6 DEF Knows
  <2>2. PICK e : e = space.epoch /\ e = q.e /\ j \in Numbered(e) /\ r = row[e][j]
    BY <1>2, <1>3, <2>1
  <2>3. Shows(r.pr, e, r.num) => doc'[r.pr].epoch = e /\ doc'[r.pr].num = r.num
    BY <2>2 DEF Stable
  <2>. QED  BY <2>1, <2>2, <2>3
<1>8. Knows(q, r)'
  BY <1>5, <1>6, <1>7 DEF Knows, Shows
<1>. QED  BY <1>1, <1>3, <1>5, <1>8

LEMMA ShownStep ==
  ASSUME IInv, SInv, Stable, NEW e \in Es, e = space.epoch, e = space'.epoch,
         \A j \in Numbered(e)' : j \in Numbered(e) /\ row'[e][j] = row[e][j],
         \A j \in Numbered(e) : mat'[<<e, row[e][j].pr>>].state = "none" =>
           \/ mat[<<e, row[e][j].pr>>].state = "none"
           \/ \A d \in {row[e][j].pr, row[e][j].sha} : doc'[d].epoch = e /\ doc'[d].num = row[e][j].num
  PROVE  ShownInv'
<1>. SUFFICES ASSUME NEW j \in Numbered(e)' PROVE ShownRow(e, row[e][j])'
  BY DEF ShownInv
<1>1. PICK r : r = row[e][j] /\ r = row'[e][j] /\ j \in Numbered(e)
  OBVIOUS
<1>2. mat'[<<e, r.pr>>].state = "none" =>
        \A d \in {r.pr, r.sha} : doc'[d].epoch = e /\ doc'[d].num = r.num
  <2>. HAVE mat'[<<e, r.pr>>].state = "none"
  <2>1. CASE mat[<<e, r.pr>>].state = "none"
    <3>1. Shows(r.pr, e, r.num) /\ Shows(r.sha, e, r.num)
      BY <1>1, <2>1 DEF SInv, ShownInv, ShownRow
    <3>. QED  BY <1>1, <3>1 DEF Stable
  <2>. QED  BY <1>1, <2>1
<1>. QED  BY <1>1, <1>2 DEF ShownRow, Shows

----------------------------------------------------------------------------
(* Steps beside the documents.                                              *)

LEMMA WorkKept ==
  ASSUME SInv, Lasting, UNCHANGED <<mat, proc>>
  PROVE  WorkInv'
<1>1. ASSUME NEW e \in Es, NEW x \in Prs, mat[<<e, x>>].state # "none"
      PROVE  \E j \in Numbered(e)' : row'[e][j].pr = x
  <2>1. PICK j \in Numbered(e) : row[e][j].pr = x
    BY <1>1 DEF SInv, WorkInv
  <2>. QED  BY <2>1 DEF Lasting
<1>2. \A e \in Es, x \in Prs : \A p \in Ws :
        mat[<<e, x>>].owner = p => proc[p].pc \in Writing /\ proc[p].e = e /\ proc[p].pr = x
  BY DEF SInv, WorkInv
<1>3. mat' = mat /\ proc' = proc
  OBVIOUS
<1>4. ASSUME NEW e \in Es, NEW x \in Prs
      PROVE  /\ mat'[<<e, x>>].state # "none" => \E j \in Numbered(e)' : row'[e][j].pr = x
             /\ \A p \in Ws : mat'[<<e, x>>].owner = p => proc'[p].pc \in Writing /\ proc'[p].e = e /\ proc'[p].pr = x
  <2>1. mat'[<<e, x>>].state # "none" => \E j \in Numbered(e)' : row'[e][j].pr = x
    BY <1>1, <1>3
  <2>2. ASSUME NEW p \in Ws, mat'[<<e, x>>].owner = p
        PROVE  proc'[p].pc \in Writing /\ proc'[p].e = e /\ proc'[p].pr = x
    BY <1>2, <1>3, <2>2
  <2>. QED  BY <2>1, <2>2
<1>. QED  BY <1>4 DEF WorkInv

LEMMA QuietShown ==
  ASSUME IInv, SInv, UNCHANGED <<mat, proc, doc>>, space'.epoch = space.epoch, Lasting, HistoryInv', EvidenceInv',
         \A j \in Numbered(space.epoch)' : j \in Numbered(space.epoch) /\ row'[space.epoch][j] = row[space.epoch][j]
  PROVE  SInv'
<1>1. space.epoch \in Nat /\ space.epoch \in Es /\ Stable
  BY SpaceOK, SameStable DEF IInv
<1>2. DocTypes' /\ DocInv' /\ DecisionsInv'
  BY DEF SInv, DocTypes, DocInv, DecisionsInv, Truthful
<1>3. WorkInv'
  BY WorkKept
<1>4. WritersInv'
  <2>. SUFFICES ASSUME NEW p \in Ws PROVE Writer(proc[p])'
    BY DEF WritersInv
  <2>1. PICK q : q = proc[p] /\ q = proc'[p] /\ Writer(q)
    BY DEF SInv, WritersInv
  <2>2. Writer(q)'
    BY <1>1, <2>1, WriterKept
  <2>. QED  BY <2>1, <2>2
<1>5. ShownInv'
  <2>1. PICK e \in Es : e = space.epoch /\ e = space'.epoch
    BY <1>1
  <2>2. \A j \in Numbered(e)' : j \in Numbered(e) /\ row'[e][j] = row[e][j]
    BY <2>1
  <2>. QED  BY <1>1, <2>1, <2>2, ShownStep
<1>. QED  BY <1>2, <1>3, <1>4, <1>5 DEF SInv

LEMMA RequestShown ==
  ASSUME IInv, SInv, \/ MarkReassigning \/ GiveUpReassign \/ Attest \/ Revoke
                     \/ \E e \in Epochs : ConsumeHint(e)
                     \/ \E p \in Prs : Merge(p) \/ Snapshot(p)
                     \/ UNCHANGED vars
  PROVE  SInv'
<1>1. UNCHANGED <<row, evid, mat, proc, doc>>
  BY DEF MarkReassigning, GiveUpReassign, Attest, Revoke, ConsumeHint, Merge, Snapshot, vars
<1>2. space' = space \/ \E t : space' = [space EXCEPT !.state = t]
  BY DEF MarkReassigning, GiveUpReassign, Attest, Revoke, ConsumeHint, Merge, Snapshot, vars
<1>3. space'.epoch = space.epoch
  BY <1>2, SpaceOK DEF IInv, Spaces
<1>4. HistoryInv' /\ EvidenceInv' /\ Lasting
  BY <1>1, SameLasting DEF SInv, HistoryInv, EvidenceInv
<1>5. \A j \in Numbered(space.epoch)' : j \in Numbered(space.epoch) /\ row'[space.epoch][j] = row[space.epoch][j]
  BY <1>1, <1>3 DEF Numbered
<1>. QED  BY <1>1, <1>3, <1>4, <1>5, QuietShown

LEMMA RecheckShown ==
  ASSUME IInv, SInv, NEW i \in Seqs, Recheckable(i)
  PROVE  SInv'
<1>1. TypeInv /\ space.epoch \in Es /\ evid \in [Es -> [Ss -> Evidences]] /\ UNCHANGED <<space, row, mat, proc, doc>> /\ Seqs = Ss
  BY SpaceOK, ConstOK DEF IInv, TypeInv, Recheckable, Seqs
<1>2. PICK e, v : /\ e \in Es /\ v = [evid[e][i] EXCEPT !.fresh = FALSE]
                  /\ evid' = [evid EXCEPT ![e] = [evid[e] EXCEPT ![i] = v]]
  BY <1>1 DEF Recheckable
<1>3. v.state = evid[e][i].state /\ v.pr = evid[e][i].pr
  <2>1. evid[e][i] \in Evidences
    BY <1>1, <1>2
  <2>. QED  BY <1>2, <2>1 DEF Evidences
<1>4. \A f \in Es, j \in Ss : evid'[f][j].state = evid[f][j].state /\ evid'[f][j].pr = evid[f][j].pr
  BY <1>1, <1>2, <1>3
<1>5. EvidenceInv'
  BY <1>4, ConstOK DEF SInv, EvidenceInv
<1>6. HistoryInv' /\ Lasting
  BY <1>1, SameLasting DEF SInv, HistoryInv
<1>7. \A j \in Numbered(space.epoch)' : j \in Numbered(space.epoch) /\ row'[space.epoch][j] = row[space.epoch][j]
  BY <1>1 DEF Numbered
<1>. QED  BY <1>1, <1>5, <1>6, <1>7, QuietShown

LEMMA AddRowShown ==
  ASSUME IInv, SInv, AddRow
  PROVE  SInv'
<1>1. TypeInv /\ row \in [Es -> Seq(Rows)] /\ UNCHANGED <<space, evid, mat, proc, doc>>
  BY DEF IInv, TypeInv, AddRow
<1>2. PICK e \in Es : e = space.epoch
  BY <1>1, SpaceOK
<1>3. PICK r : row' = [row EXCEPT ![e] = row[e] \o <<r>>] /\ r.sha = History[e][Len(row[e]) + 1] /\ r.num = 0
  <2>1. PICK pr : row' = [row EXCEPT ![e] = row[e] \o <<[sha |-> History[e][Len(row[e]) + 1], pr |-> pr, num |-> 0]>>]
    BY <1>2 DEF AddRow
  <2>2. PICK r : r = [sha |-> History[e][Len(row[e]) + 1], pr |-> pr, num |-> 0]
    OBVIOUS
  <2>3. r.sha = History[e][Len(row[e]) + 1] /\ r.num = 0
    BY <2>2
  <2>. QED  BY <2>1, <2>2, <2>3, Zenon
<1>4. Len(row[e]) \in Nat /\ DOMAIN row[e] = 1 .. Len(row[e]) /\ row[e] \in Seq(Rows)
  BY <1>1, RowOK
<1>5. Len(row[e]) + 1 \in DOMAIN History[e]
  <2>1. Len(row[e]) < Len(History[e]) /\ History[e] \in Seq(Shas)
    BY <1>2, ConstOK DEF AddRow
  <2>. QED  BY <1>4, <2>1
<1>6. row'[e] = row[e] \o <<r>> /\ \A f \in Es : f # e => row'[f] = row[f]
  BY <1>1, <1>3
<1>7. /\ DOMAIN row'[e] = 1 .. (Len(row[e]) + 1) /\ row'[e][Len(row[e]) + 1] = r
      /\ \A i \in DOMAIN row[e] : row'[e][i] = row[e][i]
  BY <1>4, <1>6
<1>8. \A i \in DOMAIN row'[e] : i \in DOMAIN row[e] \/ i = Len(row[e]) + 1
  BY <1>4, <1>7
<1>9. HistoryInv'
  <2>1. \A i \in DOMAIN row'[e] : i \in DOMAIN History[e] /\ row'[e][i].sha = History[e][i]
    BY <1>3, <1>5, <1>7, <1>8 DEF SInv, HistoryInv
  <2>. QED  BY <1>6, <2>1 DEF SInv, HistoryInv
<1>10. Lasting
  <2>1. \A f \in Es : DOMAIN row[f] \subseteq DOMAIN row'[f]
    BY <1>4, <1>6, <1>7
  <2>. QED  BY <2>1, AddRowKept, GrownLasting
<1>11. EvidenceInv'
  BY <1>1 DEF SInv, EvidenceInv
<1>12. \A j \in Numbered(e)' : j \in Numbered(e) /\ row'[e][j] = row[e][j]
  <2>. TAKE j \in Numbered(e)'
  <2>1. j \in DOMAIN row'[e] /\ row'[e][j].num > 0
    BY DEF Numbered
  <2>2. j \in DOMAIN row[e]
    BY <1>3, <1>7, <1>8, <2>1
  <2>. QED  BY <1>7, <2>1, <2>2 DEF Numbered
<1>. QED  BY <1>1, <1>2, <1>9, <1>10, <1>11, <1>12, QuietShown

LEMMA ReassignShown ==
  ASSUME IInv, IInv', SInv, Reassign
  PROVE  SInv'
<1>1. /\ TypeInv /\ TypeInv' /\ ChainInv /\ row \in [Es -> Seq(Rows)] /\ space.epoch \in Nat /\ space'.epoch \in Es
      /\ UNCHANGED <<evid, mat, proc, doc>>
  BY SpaceOK DEF IInv, TypeInv, Reassign, Spaces
<1>2. PICK f : f = space.epoch + 1 /\ f = space'.epoch
  BY DEF Reassign, Rebased, NewSpace
<1>3. PICK c : row' = [row EXCEPT ![f] = c] /\ DOMAIN c = DOMAIN History[f]
                /\ \A i \in DOMAIN c : c[i].sha = History[f][i] /\ c[i].num = 0
  <2>. DEFINE E == space.epoch
              F == space.epoch + 1
              new(late, i) == [sha |-> History[F][i], num |-> 0,
                               pr |-> IF i \in Shared(E, F) THEN row[E][i].pr
                                      ELSE IF i \in late THEN None ELSE Hint[History[F][i]]]
              chain(late) == [i \in DOMAIN History[F] |-> new(late, i)]
  <2>1. PICK late : row' = [row EXCEPT ![F] = chain(late)]
    BY DEF Reassign
  <2>2. PICK c : c = chain(late)
    OBVIOUS
  <2>3. DOMAIN c = DOMAIN History[F] /\ \A i \in DOMAIN c : c[i].sha = History[F][i] /\ c[i].num = 0
    BY <2>2
  <2>. HIDE DEF chain
  <2>4. row' = [row EXCEPT ![f] = c] /\ F = f
    BY <1>2, <2>1, <2>2
  <2>. HIDE DEF F
  <2>. QED  BY <2>3, <2>4
<1>4. f \in Es /\ f \in Nat /\ f > space.epoch
  BY <1>1, <1>2, ConstOK
<1>5. row'[f] = c /\ row[f] = <<>> /\ \A e \in Es : e # f => row'[e] = row[e]
  BY <1>1, <1>4, <1>3 DEF ChainInv
<1>6. HistoryInv'
  BY <1>5, <1>3 DEF SInv, HistoryInv
<1>7. Lasting
  <2>1. \A e \in Es : DOMAIN row[e] \subseteq DOMAIN row'[e]
    BY <1>5
  <2>. QED  BY <2>1, ReassignKept, GrownLasting
<1>8. EvidenceInv' /\ DocTypes' /\ DecisionsInv'
  BY <1>1 DEF SInv, EvidenceInv, DocTypes, DecisionsInv, Truthful
<1>9. DocInv'
  <2>1. \A d \in Prs \cup Shas : doc[d].epoch \in Nat
    BY DEF SInv, DocTypes, Docs
  <2>. QED  BY <1>1, <1>2, <2>1 DEF SInv, DocInv
<1>10. WorkInv'
  BY <1>1, <1>7, WorkKept
<1>11. WritersInv'
  <2>. SUFFICES ASSUME NEW p \in Ws PROVE Writer(proc[p])'
    BY DEF WritersInv
  <2>1. PICK q : q = proc[p] /\ q = proc'[p] /\ Writer(q)
    BY <1>1 DEF SInv, WritersInv
  <2>2. Writer(q)'
    BY <1>1, <1>2, <1>4, <1>7, <2>1, SameStable, WriterKept
  <2>. QED  BY <2>1, <2>2
<1>12. ShownInv'
  <2>1. Numbered(f)' = {}
    BY <1>5, <1>3 DEF Numbered
  <2>. QED  BY <1>2, <2>1 DEF ShownInv
<1>. QED  BY <1>6, <1>8, <1>9, <1>10, <1>11, <1>12 DEF SInv

----------------------------------------------------------------------------
(* Rounds.                                                                  *)

(* Nothing is leased to a process that is not writing.                      *)
LEMMA Unowned ==
  ASSUME SInv, NEW p \in Ws, proc[p].pc \notin Writing, NEW e \in Es, NEW x \in Prs
  PROVE  mat[<<e, x>>].owner # p
<1>1. mat[<<e, x>>].owner = p => proc[p].pc \in Writing
  BY DEF SInv, WorkInv
<1>. QED  BY <1>1

LEMMA RoundShown ==
  ASSUME IInv, SInv, NEW p \in Ws, NEW r, UNCHANGED <<space, row, evid, mat>>, proc' = [proc EXCEPT ![p] = r],
         proc[p].pc \notin Writing, r.pc \notin Writing, Truthful(r), Stable, doc' \in [Prs \cup Shas -> Docs], DocInv'
  PROVE  SInv'
<1>1. proc \in [Ws -> Procs] /\ space.epoch \in Nat /\ space.epoch \in Es
  BY SpaceOK DEF IInv, TypeInv
<1>2. proc'[p] = r /\ \A u \in Ws : u # p => proc'[u] = proc[u]
  BY <1>1
<1>3. DocTypes' /\ HistoryInv' /\ EvidenceInv' /\ Lasting
  BY SameLasting DEF SInv, DocTypes, HistoryInv, EvidenceInv
<1>4. DecisionsInv'
  <2>. SUFFICES ASSUME NEW u \in Ws PROVE Truthful(proc[u])'
    BY DEF DecisionsInv
  <2>1. PICK q : q = proc'[u] /\ Truthful(q)
    BY <1>2 DEF SInv, DecisionsInv
  <2>. QED  BY <2>1 DEF Truthful
<1>5. WorkInv'
  <2>1. ASSUME NEW e \in Es, NEW x \in Prs
        PROVE  /\ mat'[<<e, x>>].state # "none" => \E j \in Numbered(e)' : row'[e][j].pr = x
               /\ \A u \in Ws : mat'[<<e, x>>].owner = u => proc'[u].pc \in Writing /\ proc'[u].e = e /\ proc'[u].pr = x
    <3>1. mat'[<<e, x>>].state # "none" => \E j \in Numbered(e)' : row'[e][j].pr = x
      BY DEF SInv, WorkInv, Numbered
    <3>2. ASSUME NEW u \in Ws, mat'[<<e, x>>].owner = u
          PROVE  proc'[u].pc \in Writing /\ proc'[u].e = e /\ proc'[u].pr = x
      <4>1. mat[<<e, x>>].owner = u
        BY <3>2
      <4>2. u # p
        BY <4>1, Unowned
      <4>3. proc[u].pc \in Writing /\ proc[u].e = e /\ proc[u].pr = x
        BY <4>1 DEF SInv, WorkInv
      <4>. QED  BY <1>2, <4>2, <4>3
    <3>. QED  BY <3>1, <3>2
  <2>. QED  BY <2>1 DEF WorkInv
<1>6. WritersInv'
  <2>. SUFFICES ASSUME NEW u \in Ws PROVE Writer(proc[u])'
    BY DEF WritersInv
  <2>1. CASE u = p
    BY <1>2, <2>1 DEF Writer
  <2>2. CASE u # p
    <3>1. PICK q : q = proc'[u] /\ Writer(q)
      BY <1>2, <2>2 DEF SInv, WritersInv
    <3>2. Writer(q)'
      BY <1>1, <1>3, <3>1, WriterKept
    <3>. QED  BY <3>1, <3>2
  <2>. QED  BY <2>1, <2>2
<1>7. ShownInv'
  <2>1. PICK e \in Es : e = space.epoch /\ e = space'.epoch
    BY <1>1
  <2>2. \A j \in Numbered(e)' : j \in Numbered(e) /\ row'[e][j] = row[e][j]
    BY DEF Numbered
  <2>. QED  BY <2>1, <2>2, ShownStep
<1>. QED  BY <1>3, <1>4, <1>5, <1>6, <1>7 DEF SInv

LEMMA StartRoundShown ==
  ASSUME IInv, SInv, NEW p \in Ws, StartRound(p)
  PROVE  SInv'
<1>1. UNCHANGED <<space, row, evid, mat, doc>> /\ proc[p].pc = "idle"
  BY DEF StartRound
<1>2. DocInv' /\ doc' \in [Prs \cup Shas -> Docs] /\ Stable
  BY <1>1, SameStable DEF SInv, DocInv, DocTypes
<1>3. PICK k :
        IF space.state = "reassigning" THEN proc' = proc
        ELSE proc' = [proc EXCEPT ![p] = [Idle EXCEPT
               !.pc = IF cleared[p] < space.epoch THEN "clear" ELSE "look", !.key = k, !.force = rec[k].force,
               !.e = space.epoch, !.headSeq = space.headSeq, !.head = space.head]]
  BY DEF StartRound
<1>4. PICK r : proc' = [proc EXCEPT ![p] = r] /\ r.pc \in {"idle", "clear", "look"}
  <2>1. CASE space.state = "reassigning"
    <3>1. proc' = [proc EXCEPT ![p] = proc[p]]
      BY <1>3, <2>1 DEF IInv, TypeInv
    <3>. QED  BY <1>1, <3>1
  <2>2. CASE space.state # "reassigning"
    <3>1. PICK pc, f : pc \in {"clear", "look"} /\ f = rec[k].force /\ pc = IF cleared[p] < space.epoch THEN "clear" ELSE "look"
      OBVIOUS
    <3>2. PICK r : r = [Idle EXCEPT !.pc = pc, !.key = k, !.force = f, !.e = space.epoch, !.headSeq = space.headSeq, !.head = space.head]
      OBVIOUS
    <3>3. r.pc = pc
      BY <3>2 DEF Idle
    <3>4. proc' = [proc EXCEPT ![p] = r]
      BY <1>3, <2>2, <3>1, <3>2
    <3>. QED  BY <3>1, <3>3, <3>4
  <2>. QED  BY <2>1, <2>2
<1>5. r.pc \notin Writing /\ proc[p].pc \notin Writing /\ Truthful(r)
  BY <1>1, <1>4 DEF Writing, Truthful
<1>. QED  BY <1>1, <1>2, <1>4, <1>5, RoundShown

(* clearMergeNumbersBelowEpoch touches no document of the current epoch.    *)
LEMMA ClearShown ==
  ASSUME IInv, SInv, NEW p \in Ws, Clear(p)
  PROVE  SInv'
<1>1. /\ UNCHANGED <<space, row, evid, mat>> /\ proc[p].pc = "clear" /\ TypeInv /\ doc \in [Prs \cup Shas -> Docs]
      /\ proc' = [proc EXCEPT ![p] = [proc[p] EXCEPT !.pc = "look"]]
  BY DEF Clear, IInv, SInv, DocTypes
<1>2. PICK e \in Es : e = proc[p].e /\ e <= space.epoch /\ e \in Nat /\ space.epoch \in Nat
  <2>1. Started(proc[p])
    BY DEF IInv, RoundsInv
  <2>. QED  BY <1>1, <2>1, ConstOK, SpaceOK DEF Started
<1>3. \/ doc' = doc
      \/ doc' = [d \in DOMAIN doc |-> IF doc[d].epoch \in 1 .. (e - 1) THEN [doc[d] EXCEPT !.epoch = e, !.num = 0] ELSE doc[d]]
  BY <1>2 DEF Clear
<1>4. ASSUME NEW d \in Prs \cup Shas
      PROVE  /\ doc'[d] \in Docs /\ doc'[d].there = doc[d].there /\ doc'[d].sha = doc[d].sha /\ doc'[d].epoch <= space.epoch
             /\ doc[d].epoch = space.epoch => doc'[d] = doc[d]
  <2>1. PICK o \in Docs : o = doc[d] /\ o.epoch <= space.epoch /\ o.epoch \in Nat
    BY <1>1 DEF SInv, DocInv, Docs
  <2>2. PICK x : x = [o EXCEPT !.epoch = e, !.num = 0]
    OBVIOUS
  <2>3. x \in Docs /\ x.there = o.there /\ x.sha = o.sha /\ x.epoch = e
    BY <1>2, <2>2 DEF Docs
  <2>4. doc'[d] = o \/ (doc'[d] = x /\ o.epoch \in 1 .. (e - 1))
    BY <1>1, <1>3, <2>1, <2>2
  <2>5. o.epoch \in 1 .. (e - 1) => o.epoch # space.epoch
    BY <1>2, <2>1
  <2>. QED  BY <1>2, <2>1, <2>3, <2>4, <2>5
<1>5. doc' \in [Prs \cup Shas -> Docs]
  <2>1. DOMAIN doc' = Prs \cup Shas /\ doc' = [d \in DOMAIN doc' |-> doc'[d]]
    BY <1>1, <1>3
  <2>. QED  BY <1>4, <2>1
<1>6. DocInv'
  BY <1>1, <1>4 DEF SInv, DocInv
<1>7. Stable
  <2>. SUFFICES ASSUME NEW j \in Numbered(space.epoch), NEW d \in {row[space.epoch][j].pr, row[space.epoch][j].sha},
                       doc[d].epoch = space.epoch
                PROVE  doc'[d] = doc[d]
    BY DEF Stable, Shows
  <2>1. d \in Prs \cup Shas
    BY <1>1, NumRow, SpaceOK
  <2>. QED  BY <1>4, <2>1
<1>8. PICK r : r = [proc[p] EXCEPT !.pc = "look"]
  OBVIOUS
<1>9. r.pc = "look"
  BY <1>1, <1>8, ProcOK DEF Procs
<1>10. r.pc \notin Writing /\ proc[p].pc \notin Writing /\ Truthful(r)
  BY <1>1, <1>9 DEF Writing, Truthful
<1>. QED  BY <1>1, <1>5, <1>6, <1>7, <1>8, <1>10, RoundShown

(* What a lookup confirms is a pull request GitHub merged as this commit.   *)
LEMMA DecisionLanded ==
  ASSUME NEW e, NEW r \in Rows, NEW v \in Evidences, NEW force \in BOOLEAN, NEW d \in Decisions(e, r, v, force),
         d.kind = "pr", v.state = "pr" => v.pr \in Landed[r.sha]
  PROVE  d.pr \in Landed[r.sha]
<1>1. PICK x \in Found(r, v, force) : d = x \/ d \in {Direct(FALSE), Open(x.reason, TRUE)}
  BY DEF Decisions
<1>2. d = x
  BY <1>1 DEF Direct, Open
<1>3. Matches(r) \subseteq Landed[r.sha]
  BY DEF Matches
<1>4. CASE v.state = "pr"
  <2>1. d = Confirmed(v.pr)
    BY <1>2, <1>4 DEF Found
  <2>. QED  BY <1>4, <2>1 DEF Confirmed
<1>5. CASE v.state # "pr"
  <2>1. d \in Judged(r) \/ d = Direct(TRUE) \/ \E y : d = Open(y, FALSE)
    BY <1>2, <1>5 DEF Found
  <2>2. d \in Judged(r)
    BY <2>1 DEF Direct, Open
  <2>3. d \in {Confirmed(pr) : pr \in Matches(r)} \/ \E y : d = Open(y, FALSE)
    BY <2>2 DEF Judged
  <2>4. PICK pr \in Matches(r) : d = Confirmed(pr)
    BY <2>3 DEF Open
  <2>. QED  BY <1>3, <2>4 DEF Confirmed
<1>. QED  BY <1>4, <1>5

LEMMA LookShown ==
  ASSUME IInv, SInv, NEW p \in Ws, Look(p)
  PROVE  SInv'
<1>1. TypeInv /\ ChainInv /\ UNCHANGED <<space, row, evid, mat, doc>> /\ proc[p].pc = "look"
  BY DEF IInv, Look
<1>2. DocInv' /\ doc' \in [Prs \cup Shas -> Docs] /\ Stable
  BY <1>1, SameStable DEF SInv, DocInv, DocTypes
<1>3. PICK q \in Procs : q = proc[p]
  BY <1>1, ProcOK
<1>. DEFINE n == IF Len(row[q.e]) - q.headSeq < BatchSize THEN Len(row[q.e]) - q.headSeq ELSE BatchSize
            at(i) == Decisions(q.e, row[q.e][q.headSeq + i], evid[q.e][q.headSeq + i], q.force)
<1>4. \/ proc' = [proc EXCEPT ![p] = Idle]
      \/ \E m \in Upto(n) : \E dec :
           /\ dec \in [Upto(m) -> UNION {at(i) : i \in Upto(m)}]
           /\ \A i \in Upto(m) : dec[i] \in at(i)
           /\ proc' = [proc EXCEPT ![p].pc = "commit", ![p].dec = dec]
  BY <1>3 DEF Look
<1>5. CASE proc' = [proc EXCEPT ![p] = Idle]
  <2>1. Idle.pc \notin Writing /\ proc[p].pc \notin Writing /\ Truthful(Idle)
    BY <1>1, IdleOK DEF Writing, Truthful
  <2>. QED  BY <1>1, <1>2, <1>5, <2>1, RoundShown
<1>6. ASSUME NEW m \in Upto(n), NEW dec,
             dec \in [Upto(m) -> UNION {at(i) : i \in Upto(m)}],
             \A i \in Upto(m) : dec[i] \in at(i),
             proc' = [proc EXCEPT ![p].pc = "commit", ![p].dec = dec]
      PROVE  SInv'
  <2>1. q.e \in Es /\ q.headSeq \in Nat /\ q.force \in BOOLEAN
    BY <1>1, <1>3 DEF IInv, RoundsInv, Started, Procs
  <2>2. Len(row[q.e]) \in Nat /\ DOMAIN row[q.e] = 1 .. Len(row[q.e])
    BY <1>1, <2>1, RowOK
  <2>3. m \in Nat /\ q.headSeq + m <= Len(row[q.e])
    BY <2>1, <2>2, ConstOK DEF Upto
  <2>4. ASSUME NEW i \in Upto(m), dec[i].kind = "pr"
        PROVE  dec[i].pr \in Landed[History[q.e][q.headSeq + i]]
    <3>1. PICK k \in DOMAIN row[q.e] : k = q.headSeq + i
      BY <2>1, <2>2, <2>3 DEF Upto
    <3>2. row[q.e][k] \in Rows /\ evid[q.e][k] \in Evidences
      BY <1>1, <2>1, RowOK, ChainOK
    <3>3. k \in DOMAIN History[q.e] /\ row[q.e][k].sha = History[q.e][k]
      BY <2>1 DEF SInv, HistoryInv
    <3>4. evid[q.e][k].state = "pr" => evid[q.e][k].pr \in Landed[row[q.e][k].sha]
      BY <2>1, <3>3 DEF SInv, EvidenceInv
    <3>5. dec[i] \in Decisions(q.e, row[q.e][k], evid[q.e][k], q.force)
      BY <1>6, <3>1
    <3>6. dec[i].pr \in Landed[row[q.e][k].sha]
      BY <2>1, <2>4, <3>2, <3>4, <3>5, DecisionLanded
    <3>. QED  BY <3>1, <3>3, <3>6
  <2>. HIDE DEF at, n
  <2>5. PICK r : r = [q EXCEPT !.pc = "commit", !.dec = dec]
    OBVIOUS
  <2>6. r.pc = "commit" /\ r.dec = dec /\ r.e = q.e /\ r.headSeq = q.headSeq /\ DOMAIN dec = Upto(m)
    BY <1>6, <2>5 DEF Procs
  <2>7. proc' = [proc EXCEPT ![p] = r]
    BY <1>3, <1>6, <2>5
  <2>8. r.pc \notin Writing /\ proc[p].pc \notin Writing /\ Truthful(r)
    BY <1>1, <2>4, <2>6 DEF Writing, Truthful
  <2>. QED  BY <1>1, <1>2, <2>7, <2>8, RoundShown
<1>. QED  BY <1>4, <1>5, <1>6

LEMMA DropRoundShown ==
  ASSUME IInv, SInv, NEW p \in Ws, DropRound(p)
  PROVE  SInv'
<1>1. UNCHANGED <<space, row, evid, mat, doc>> /\ proc[p].pc = "commit" /\ proc' = [proc EXCEPT ![p] = Idle]
  BY DEF DropRound
<1>2. DocInv' /\ doc' \in [Prs \cup Shas -> Docs] /\ Stable
  BY <1>1, SameStable DEF SInv, DocInv, DocTypes
<1>3. Idle.pc \notin Writing /\ proc[p].pc \notin Writing /\ Truthful(Idle)
  BY <1>1, IdleOK DEF Writing, Truthful
<1>. QED  BY <1>1, <1>2, <1>3, RoundShown

----------------------------------------------------------------------------
(* The transaction of a round asks for the materialization of what it gave. *)

LEMMA CommitMat ==
  ASSUME IInv, NEW p \in Ws, Commit(p)
  PROVE  \E q, n :
           /\ q = proc[p] /\ q.pc = "commit" /\ Committing(q, n)
           /\ row' = [row EXCEPT ![q.e] = Given(q, n)] /\ evid' = [evid EXCEPT ![q.e] = Recorded(q)]
           /\ mat' = [k \in DOMAIN mat |-> IF k[1] = q.e /\ k[2] \in {q.dec[i].pr : i \in Picks(q.dec, n)}
                                          THEN Requested(mat[k], FALSE) ELSE mat[k]]
           /\ proc' = [r \in Ws |-> IF r = p THEN Idle ELSE Noticed(q, proc[r])]
<1>1. TypeInv /\ Workers = Ws
  BY DEF IInv, TypeInv, Workers
<1>2. PICK q \in Procs : q = proc[p]
  BY <1>1, ProcOK
<1>3. /\ q.pc = "commit" /\ q.e = space.epoch /\ q.headSeq = space.headSeq /\ ~q.stale
      /\ q.headSeq \in Nat /\ q.head \in Nat /\ q.dec \in Seq(Decs)
  BY <1>2 DEF Commit, Overtaken, Procs
<1>4. Started(q) /\ Decided(q)
  BY <1>2 DEF IInv, RoundsInv
<1>5. q.e \in Es /\ q.head = space.head
  BY <1>3, <1>4 DEF Started
<1>6. PICK n \in Reach(q) :
        /\ row' = [row EXCEPT ![q.e] = Given(q, n)] /\ evid' = [evid EXCEPT ![q.e] = Recorded(q)]
        /\ mat' = [k \in DOMAIN mat |-> IF k[1] = q.e /\ k[2] \in {q.dec[i].pr : i \in Picks(q.dec, n)}
                                       THEN Requested(mat[k], FALSE) ELSE mat[k]]
        /\ proc' = [r \in Ws |-> IF r = p THEN Idle ELSE Noticed(q, proc[r])]
  <2>1. PICK n \in Reach(proc[p]) :
          /\ row' = [row EXCEPT ![proc[p].e] = Given(proc[p], n)] /\ evid' = [evid EXCEPT ![proc[p].e] = Recorded(proc[p])]
          /\ mat' = [k \in DOMAIN mat |->
                       IF k[1] = proc[p].e /\ k[2] \in {proc[p].dec[i].pr : i \in {i \in Upto(n) : proc[p].dec[i].kind = "pr"}}
                       THEN Requested(mat[k], FALSE) ELSE mat[k]]
          /\ proc' = [r \in Workers |-> IF r = p THEN Idle ELSE Noticed(proc[p], proc[r])]
    BY Zenon DEF Commit
  <2>. QED  BY <1>1, <1>2, <2>1, Zenon DEF Picks
<1>7. n \in Nat /\ n <= Len(q.dec) /\ \A i \in 1 .. n : Blocker(q, i) = None
  BY <1>3 DEF Reach, Upto
<1>8. Committing(q, n)
  BY <1>3, <1>4, <1>5, <1>7 DEF Committing, Decided
<1>. QED  BY <1>2, <1>3, <1>6, <1>8

LEMMA CommitShown ==
  ASSUME IInv, IInv', SInv, NEW p \in Ws, Commit(p)
  PROVE  SInv'
<1>1. PICK q, n :
        /\ q = proc[p] /\ q.pc = "commit" /\ Committing(q, n)
        /\ row' = [row EXCEPT ![q.e] = Given(q, n)] /\ evid' = [evid EXCEPT ![q.e] = Recorded(q)]
        /\ mat' = [k \in DOMAIN mat |-> IF k[1] = q.e /\ k[2] \in {q.dec[i].pr : i \in Picks(q.dec, n)}
                                       THEN Requested(mat[k], FALSE) ELSE mat[k]]
        /\ proc' = [r \in Ws |-> IF r = p THEN Idle ELSE Noticed(q, proc[r])]
  BY CommitMat
<1>2. /\ TypeInv /\ q.e \in Es /\ q.headSeq \in Nat /\ n \in Nat /\ q.dec \in Seq(Decs) /\ n <= Len(q.dec) /\ q.e = space.epoch
      /\ q.headSeq + Len(q.dec) <= Len(row[q.e]) /\ space.epoch \in Nat
  BY <1>1, SpaceOK DEF IInv, Committing
<1>3. UNCHANGED doc /\ space'.epoch = space.epoch
  <2>1. space'.epoch = space.epoch
    BY CommitOK
  <2>. QED  BY <2>1 DEF Commit
<1>4. PICK N, c : N = Numbered(q.e) /\ c = row'[q.e]
  OBVIOUS
<1>5. /\ N \in SUBSET (1 .. q.headSeq) /\ Continued(q, n, c)
      /\ Numbered(q.e)' = N \cup After(q.headSeq, Picks(q.dec, n))
      /\ \A f \in Es : f # q.e => Numbered(f)' = Numbered(f) /\ row'[f] = row[f]
      /\ c = Given(q, n)
  <2>1. N \in SUBSET (1 .. q.headSeq) /\ Continued(q, n, c)
    BY <1>1, <1>4, CommitFacts
  <2>2. Committing(q, n) /\ row' = [row EXCEPT ![q.e] = Given(q, n)]
    BY <1>1
  <2>3. /\ Numbered(q.e)' = Numbered(q.e) \cup After(q.headSeq, Picks(q.dec, n)) /\ row'[q.e] = Given(q, n)
        /\ \A f \in Es : f # q.e => Numbered(f)' = Numbered(f) /\ row'[f] = row[f]
    BY <2>2, NumbersAfter
  <2>. QED  BY <1>4, <2>1, <2>3
<1>6. \A f \in Es : DOMAIN row'[f] = DOMAIN row[f] /\ \A i \in DOMAIN row[f] : row'[f][i].sha = row[f][i].sha
  <2>1. DOMAIN c = DOMAIN row[q.e] /\ \A i \in DOMAIN row[q.e] : c[i].sha = row[q.e][i].sha
    BY <1>5 DEF Given
  <2>. QED  BY <1>4, <1>5, <2>1
<1>7. HistoryInv'
  BY <1>6 DEF SInv, HistoryInv
<1>8. Lasting
  BY <1>6, CommitKept, GrownLasting
<1>9. Truthful(q)
  BY <1>1 DEF SInv, DecisionsInv
<1>10. EvidenceInv'
  <2>1. PICK v : v = Recorded(q)
    OBVIOUS
  <2>2. /\ \A i \in Ss : i \notin Touched(q) => v[i] = evid[q.e][i]
        /\ \A k \in DOMAIN q.dec : q.headSeq + k \in Ss /\ ~q.dec[k].kept =>
             v[q.headSeq + k].state = q.dec[k].kind /\ v[q.headSeq + k].pr = q.dec[k].pr
    BY <1>1, <1>2, <2>1, RecordedOK
  <2>3. evid'[q.e] = v /\ \A f \in Es : f # q.e => evid'[f] = evid[f]
    BY <1>1, <1>2, <2>1 DEF TypeInv
  <2>4. ASSUME NEW i \in DOMAIN History[q.e], v[i].state = "pr" PROVE v[i].pr \in Landed[History[q.e][i]]
    <3>1. i \in Ss
      BY <1>2, ConstOK
    <3>2. CASE i \notin Touched(q)
      BY <1>2, <2>2, <2>4, <3>1, <3>2 DEF SInv, EvidenceInv
    <3>3. CASE i \in Touched(q)
      <4>1. PICK k \in DOMAIN q.dec : ~q.dec[k].kept /\ i = q.headSeq + k
        BY <3>3 DEF Touched
      <4>2. v[i].state = q.dec[k].kind /\ v[i].pr = q.dec[k].pr
        BY <2>2, <3>1, <4>1
      <4>. QED  BY <1>1, <1>9, <2>4, <4>1, <4>2 DEF Truthful
    <3>. QED  BY <3>2, <3>3
  <2>. QED  BY <2>3, <2>4 DEF SInv, EvidenceInv
<1>11. ASSUME NEW u \in Ws
       PROVE  /\ u = p => proc'[u] = Idle
              /\ u # p => /\ proc'[u].pc = proc[u].pc /\ proc'[u].e = proc[u].e /\ proc'[u].headSeq = proc[u].headSeq
                          /\ proc'[u].dec = proc[u].dec /\ (proc[u].pc \in Writing => proc'[u] = proc[u])
  <2>1. u = p => proc'[u] = Idle
    BY <1>1
  <2>2. CASE u # p
    <3>1. PICK o \in Procs : o = proc[u]
      BY <1>2, ProcOK
    <3>2. proc'[u] = Noticed(q, o)
      BY <1>1, <2>2, <3>1
    <3>3. PICK x : x = [o EXCEPT !.stale = TRUE]
      OBVIOUS
    <3>4. x.pc = o.pc /\ x.e = o.e /\ x.headSeq = o.headSeq /\ x.dec = o.dec
      BY <3>3 DEF Procs
    <3>5. proc'[u] = o \/ (proc'[u] = x /\ o.pc = "commit")
      BY <3>2, <3>3 DEF Noticed
    <3>. QED  BY <2>2, <3>1, <3>4, <3>5 DEF Writing
  <2>. QED  BY <2>1, <2>2
<1>12. DecisionsInv'
  <2>. SUFFICES ASSUME NEW u \in Ws PROVE Truthful(proc[u])'
    BY DEF DecisionsInv
  <2>1. Truthful(proc[u])
    BY DEF SInv, DecisionsInv
  <2>. QED  BY <1>11, <2>1, IdleOK DEF Truthful
<1>13. WritersInv'
  <2>. SUFFICES ASSUME NEW u \in Ws PROVE Writer(proc[u])'
    BY DEF WritersInv
  <2>1. CASE proc'[u].pc \in Writing
    <3>1. proc'[u] = proc[u]
      BY <1>11, <2>1, IdleOK DEF Writing
    <3>2. PICK o : o = proc[u] /\ o = proc'[u] /\ Writer(o)
      BY <3>1 DEF SInv, WritersInv
    <3>3. Writer(o)'
      BY <1>2, <1>3, <1>8, <3>2, SameStable, WriterKept
    <3>. QED  BY <3>2, <3>3
  <2>. QED  BY <2>1 DEF Writer
<1>14. ASSUME NEW e \in Es, NEW x \in Prs
       PROVE  /\ mat'[<<e, x>>] \in Works /\ mat'[<<e, x>>].owner = mat[<<e, x>>].owner
              /\ mat'[<<e, x>>].state = "none" =>
                   mat[<<e, x>>].state = "none" /\ ~(e = q.e /\ \E i \in Picks(q.dec, n) : q.dec[i].pr = x)
              /\ mat'[<<e, x>>].state # "none" =>
                   mat[<<e, x>>].state # "none" \/ (e = q.e /\ \E i \in Picks(q.dec, n) : q.dec[i].pr = x)
  <2>1. DOMAIN mat = Es \X Prs
    BY <1>2 DEF TypeInv
  <2>2. PICK w \in Works : w = mat[<<e, x>>]
    BY DEF SInv, DocTypes
  <2>3. mat'[<<e, x>>] = IF e = q.e /\ \E i \in Picks(q.dec, n) : q.dec[i].pr = x THEN Requested(w, FALSE) ELSE w
    BY <1>1, <2>1, <2>2
  <2>4. Requested(w, FALSE) \in Works /\ Requested(w, FALSE).owner = w.owner /\ Requested(w, FALSE).state # "none"
    <3>1. Requested(w, FALSE) \in Works
      BY WorkOK
    <3>. QED  BY <3>1 DEF Requested, Works
  <2>. QED  BY <2>2, <2>3, <2>4
<1>15. DocTypes'
  <2>1. DOMAIN mat' = Es \X Prs /\ mat' = [k \in DOMAIN mat' |-> mat'[k]]
    BY <1>1, <1>2 DEF TypeInv
  <2>2. \A k \in Es \X Prs : mat'[k] \in Works
    BY <1>14
  <2>. QED  BY <1>3, <2>1, <2>2 DEF SInv, DocTypes
<1>16. ASSUME NEW i \in Picks(q.dec, n)
       PROVE  q.headSeq + i \in Numbered(q.e)' /\ c[q.headSeq + i].pr = q.dec[i].pr
  <2>1. i \in 1 .. n /\ q.dec[i].kind = "pr"
    BY DEF Picks, Upto
  <2>. QED  BY <1>5, <2>1 DEF Continued, After
<1>17. WorkInv'
  <2>1. ASSUME NEW e \in Es, NEW x \in Prs
        PROVE  /\ mat'[<<e, x>>].state # "none" => \E j \in Numbered(e)' : row'[e][j].pr = x
               /\ \A u \in Ws : mat'[<<e, x>>].owner = u => proc'[u].pc \in Writing /\ proc'[u].e = e /\ proc'[u].pr = x
    <3>1. mat'[<<e, x>>].state # "none" => \E j \in Numbered(e)' : row'[e][j].pr = x
      <4>1. CASE mat[<<e, x>>].state # "none"
        <5>1. PICK j \in Numbered(e) : row[e][j].pr = x
          BY <4>1 DEF SInv, WorkInv
        <5>. QED  BY <1>8, <5>1 DEF Lasting
      <4>2. CASE e = q.e /\ \E i \in Picks(q.dec, n) : q.dec[i].pr = x
        BY <1>4, <1>16, <4>2
      <4>. QED  BY <1>14, <4>1, <4>2
    <3>2. ASSUME NEW u \in Ws, mat'[<<e, x>>].owner = u
          PROVE  proc'[u].pc \in Writing /\ proc'[u].e = e /\ proc'[u].pr = x
      <4>1. mat[<<e, x>>].owner = u
        BY <1>14, <3>2
      <4>2. proc[u].pc \in Writing /\ proc[u].e = e /\ proc[u].pr = x
        BY <4>1 DEF SInv, WorkInv
      <4>3. u # p
        BY <1>1, <4>2 DEF Writing
      <4>. QED  BY <1>11, <4>2, <4>3
    <3>. QED  BY <3>1, <3>2
  <2>. QED  BY <2>1 DEF WorkInv
<1>18. DocInv'
  BY <1>3 DEF SInv, DocInv
<1>19. ShownInv'
  <2>. SUFFICES ASSUME NEW j \in Numbered(q.e)' PROVE ShownRow(q.e, row[q.e][j])'
    BY <1>2, <1>3 DEF ShownInv
  <2>1. CASE j \in N
    <3>1. PICK r : r = row[q.e][j] /\ r = row'[q.e][j]
      BY <1>2, <1>4, <1>8, <2>1 DEF Lasting
    <3>2. ShownRow(q.e, r) /\ r.pr \in Prs
      BY <1>2, <1>4, <2>1, <3>1, NumRow DEF SInv, ShownInv
    <3>3. mat'[<<q.e, r.pr>>].state = "none" => mat[<<q.e, r.pr>>].state = "none"
      BY <1>2, <1>14, <3>2
    <3>4. ShownRow(q.e, r)'
      BY <1>3, <3>2, <3>3 DEF ShownRow, Shows
    <3>. QED  BY <3>1, <3>4
  <2>2. CASE j \in After(q.headSeq, Picks(q.dec, n))
    <3>1. PICK i \in Picks(q.dec, n) : j = q.headSeq + i
      BY <2>2 DEF After
    <3>2. PICK r : r = row'[q.e][j] /\ r.pr = q.dec[i].pr
      BY <1>4, <1>16, <3>1
    <3>3. r.pr \in Prs
      <4>1. i \in 1 .. n /\ q.dec[i].kind = "pr"
        BY <3>1 DEF Picks, Upto
      <4>2. i \in DOMAIN q.dec
        BY <1>2, <4>1
      <4>3. r.pr \in Landed[History[q.e][j]]
        BY <1>1, <1>9, <3>1, <3>2, <4>1, <4>2 DEF Truthful
      <4>4. j \in DOMAIN row[q.e]
        BY <1>4, <1>5, <3>1, <4>1 DEF Continued
      <4>5. History[q.e][j] \in Shas
        BY <1>2, <4>4, RowOK DEF SInv, HistoryInv
      <4>. QED  BY <4>3, <4>5, MergeNumberAssumption
    <3>4. mat'[<<q.e, r.pr>>].state # "none"
      BY <1>2, <1>14, <3>1, <3>2, <3>3
    <3>5. ShownRow(q.e, r)'
      BY <3>4 DEF ShownRow
    <3>. QED  BY <3>2, <3>5
  <2>. QED  BY <1>5, <2>1, <2>2
<1>. QED  BY <1>7, <1>10, <1>12, <1>13, <1>15, <1>17, <1>18, <1>19 DEF SInv

----------------------------------------------------------------------------
(* Steps of the work and of the documents; rows and evidence stay.          *)

LEMMA MatShown ==
  ASSUME IInv, SInv, UNCHANGED <<space, row, evid>>, Stable, DecisionsInv', WritersInv', DocInv',
         mat' \in [Es \X Prs -> Works], doc' \in [Prs \cup Shas -> Docs],
         \A e \in Es, x \in Prs : mat'[<<e, x>>].state # "none" => \E j \in Numbered(e) : row[e][j].pr = x,
         \A e \in Es, x \in Prs, u \in Ws :
           mat'[<<e, x>>].owner = u => proc'[u].pc \in Writing /\ proc'[u].e = e /\ proc'[u].pr = x,
         \A j \in Numbered(space.epoch) :
           mat'[<<space.epoch, row[space.epoch][j].pr>>].state = "none" =>
             \/ mat[<<space.epoch, row[space.epoch][j].pr>>].state = "none"
             \/ \A d \in {row[space.epoch][j].pr, row[space.epoch][j].sha} :
                  doc'[d].epoch = space.epoch /\ doc'[d].num = row[space.epoch][j].num
  PROVE  SInv'
<1>1. DocTypes' /\ HistoryInv' /\ EvidenceInv'
  BY DEF SInv, DocTypes, HistoryInv, EvidenceInv
<1>2. WorkInv'
  <2>1. ASSUME NEW e \in Es, NEW x \in Prs
        PROVE  /\ mat'[<<e, x>>].state # "none" => \E j \in Numbered(e)' : row'[e][j].pr = x
               /\ \A u \in Ws : mat'[<<e, x>>].owner = u => proc'[u].pc \in Writing /\ proc'[u].e = e /\ proc'[u].pr = x
    <3>1. mat'[<<e, x>>].state # "none" => \E j \in Numbered(e)' : row'[e][j].pr = x
      BY DEF Numbered
    <3>. QED  BY <3>1
  <2>. QED  BY <2>1 DEF WorkInv
<1>3. ShownInv'
  <2>1. PICK e \in Es : e = space.epoch /\ e = space'.epoch
    BY SpaceOK DEF IInv
  <2>2. \A j \in Numbered(e)' : j \in Numbered(e) /\ row'[e][j] = row[e][j]
    BY DEF Numbered
  <2>. QED  BY <2>1, <2>2, ShownStep
<1>. QED  BY <1>1, <1>2, <1>3 DEF SInv

LEMMA WritersStep ==
  ASSUME IInv, SInv, UNCHANGED <<space, row, evid>>, Stable, NEW p \in Ws, NEW r, proc' = [proc EXCEPT ![p] = r],
         r.pc # "commit", Writer(r)'
  PROVE  DecisionsInv' /\ WritersInv'
<1>1. proc'[p] = r /\ (\A u \in Ws : u # p => proc'[u] = proc[u]) /\ space.epoch \in Nat /\ Lasting
  BY SpaceOK, SameLasting DEF IInv, TypeInv
<1>2. ASSUME NEW u \in Ws PROVE Truthful(proc[u])' /\ Writer(proc[u])'
  <2>1. CASE u = p
    BY <1>1, <2>1 DEF Truthful
  <2>2. CASE u # p
    <3>1. PICK q : q = proc'[u] /\ Truthful(q) /\ Writer(q)
      BY <1>1, <2>2 DEF SInv, DecisionsInv, WritersInv
    <3>2. Writer(q)'
      BY <1>1, <3>1, WriterKept
    <3>. QED  BY <3>1, <3>2 DEF Truthful
  <2>. QED  BY <2>1, <2>2
<1>. QED  BY <1>2 DEF DecisionsInv, WritersInv

LEMMA ReleaseOK ==
  ASSUME OneMerge, NEW p \in Ws, NEW w \in Works, NEW v \in {Completed(w, p), Released(w, p)}
  PROVE  /\ v \in Works /\ v.owner # p /\ (v = w \/ (w.owner = p /\ v.owner = None))
         /\ v = Released(w, p) /\ v.state = "none" => w.state = "none"
         /\ w.owner # p => v = w
<1>1. None # p /\ v \in Works
  BY WorkOK DEF OneMerge
<1>2. CASE w.owner # p
  BY <1>1, <1>2 DEF Completed, Released
<1>3. CASE w.owner = p
  <2>1. \/ v = [w EXCEPT !.state = IF w.again THEN "due" ELSE "none", !.again = FALSE, !.owner = None]
        \/ v = [w EXCEPT !.state = "due", !.again = FALSE, !.owner = None]
    BY <1>3 DEF Completed, Released
  <2>2. v.owner = None
    BY <2>1 DEF Works
  <2>3. v = Released(w, p) => v.state = "due"
    BY <1>3 DEF Released, Works
  <2>. QED  BY <1>1, <1>3, <2>2, <2>3
<1>. QED  BY <1>2, <1>3

(* Whoever holds the work of a pull request works for a number of it.       *)
LEMMA HolderOK ==
  ASSUME SInv, NEW p \in Ws, proc[p].pc \in Writing, NEW e, NEW x, e = proc[p].e, x = proc[p].pr
  PROVE  e \in Es /\ x \in Prs /\ e <= space.epoch /\ \E j \in Numbered(e) : row[e][j].pr = x
BY DEF SInv, WritersInv, Writer, Knows

(* One key of the work changes, and one process: what has to be shown.      *)
WorkFor(e, x) == \E j \in Numbered(e) : row[e][j].pr = x
Displayed(e, x) ==
  \A j \in Numbered(e) : row[e][j].pr = x =>
    \A d \in {row[e][j].pr, row[e][j].sha} : doc'[d].epoch = e /\ doc'[d].num = row[e][j].num
Changed(p, r, e, x, v) ==
  /\ mat' = [mat EXCEPT ![<<e, x>>] = v] /\ proc' = [proc EXCEPT ![p] = r]
  /\ v.owner \in {p, None, mat[<<e, x>>].owner}
  /\ \A f \in Es, y \in Prs : mat'[<<f, y>>].owner = p => r.pc \in Writing /\ r.e = f /\ r.pr = y
  /\ v.state = "none" => mat[<<e, x>>].state = "none" \/ e # space.epoch \/ Displayed(e, x)

LEMMA KeyOK ==
  ASSUME SInv, NEW e \in Es, NEW x \in Prs, NEW v \in Works, mat' = [mat EXCEPT ![<<e, x>>] = v]
  PROVE  /\ mat' \in [Es \X Prs -> Works] /\ mat[<<e, x>>] \in Works
         /\ \A f \in Es, y \in Prs : mat'[<<f, y>>] = IF f = e /\ y = x THEN v ELSE mat[<<f, y>>]
<1>1. mat \in [Es \X Prs -> Works]
  BY DEF SInv, DocTypes
<1>. QED  BY <1>1

LEMMA ChangeShown ==
  ASSUME OneMerge, IInv, SInv, UNCHANGED <<space, row, evid>>, Stable, DocInv', doc' \in [Prs \cup Shas -> Docs],
         NEW p \in Ws, NEW r, NEW e \in Es, NEW x \in Prs, NEW v \in Works,
         r.pc # "commit", Writer(r)', WorkFor(e, x), Changed(p, r, e, x, v)
  PROVE  SInv'
<1>1. /\ mat' \in [Es \X Prs -> Works]
      /\ \A f \in Es, y \in Prs : mat'[<<f, y>>] = IF f = e /\ y = x THEN v ELSE mat[<<f, y>>]
  BY KeyOK DEF Changed
<1>2. proc \in [Ws -> Procs] /\ proc' = [proc EXCEPT ![p] = r]
  BY DEF IInv, TypeInv, Changed
<1>3. proc'[p] = r /\ \A u \in Ws : u # p => proc'[u] = proc[u]
  BY <1>2
<1>4. \A f \in Es, y \in Prs : mat'[<<f, y>>].state # "none" => \E j \in Numbered(f) : row[f][j].pr = y
  <2>. SUFFICES ASSUME NEW f \in Es, NEW y \in Prs, mat'[<<f, y>>].state # "none"
                PROVE  \E j \in Numbered(f) : row[f][j].pr = y
    OBVIOUS
  <2>1. CASE f = e /\ y = x
    BY <2>1 DEF WorkFor
  <2>2. CASE ~(f = e /\ y = x)
    <3>1. mat[<<f, y>>].state # "none"
      BY <1>1, <2>2
    <3>. QED  BY <3>1 DEF SInv, WorkInv
  <2>. QED  BY <2>1, <2>2
<1>5. \A f \in Es, y \in Prs, u \in Ws : mat'[<<f, y>>].owner = u => proc'[u].pc \in Writing /\ proc'[u].e = f /\ proc'[u].pr = y
  <2>. SUFFICES ASSUME NEW f \in Es, NEW y \in Prs, NEW u \in Ws, mat'[<<f, y>>].owner = u
                PROVE  proc'[u].pc \in Writing /\ proc'[u].e = f /\ proc'[u].pr = y
    OBVIOUS
  <2>1. CASE u = p
    BY <1>3, <2>1 DEF Changed
  <2>2. CASE u # p
    <3>1. mat[<<f, y>>].owner = u
      <4>1. CASE f = e /\ y = x
        <5>1. mat'[<<f, y>>] = v /\ v.owner \in {p, None, mat[<<e, x>>].owner} /\ u # None
          BY <1>1, <4>1 DEF Changed, OneMerge
        <5>. QED  BY <2>2, <4>1, <5>1
      <4>2. CASE ~(f = e /\ y = x)
        BY <1>1, <4>2
      <4>. QED  BY <4>1, <4>2
    <3>2. proc[u].pc \in Writing /\ proc[u].e = f /\ proc[u].pr = y
      BY <3>1 DEF SInv, WorkInv
    <3>. QED  BY <1>3, <2>2, <3>2
  <2>. QED  BY <2>1, <2>2
<1>6. ASSUME NEW j \in Numbered(space.epoch), mat'[<<space.epoch, row[space.epoch][j].pr>>].state = "none"
      PROVE  \/ mat[<<space.epoch, row[space.epoch][j].pr>>].state = "none"
             \/ \A d \in {row[space.epoch][j].pr, row[space.epoch][j].sha} :
                  doc'[d].epoch = space.epoch /\ doc'[d].num = row[space.epoch][j].num
  <2>1. PICK f \in Es, y \in Prs : f = space.epoch /\ y = row[f][j].pr
    <3>1. space.epoch \in Es
      BY SpaceOK DEF IInv
    <3>. QED  BY <3>1, NumRow
  <2>2. CASE f = e /\ y = x
    <3>1. v.state = "none"
      BY <1>1, <1>6, <2>1, <2>2
    <3>2. mat[<<e, x>>].state = "none" \/ Displayed(e, x)
      BY <2>1, <2>2, <3>1 DEF Changed
    <3>. QED  BY <2>1, <2>2, <3>2 DEF Displayed
  <2>3. CASE ~(f = e /\ y = x)
    BY <1>1, <1>6, <2>1, <2>3
  <2>. QED  BY <2>2, <2>3
<1>7. DecisionsInv' /\ WritersInv'
  BY <1>2, WritersStep
<1>. QED  BY <1>1, <1>4, <1>5, <1>6, <1>7, MatShown

(* A materialization ends: its work is done, or tried again later.          *)
LEMMA EndShown ==
  ASSUME OneMerge, IInv, SInv, UNCHANGED <<space, row, evid>>, Stable, DocInv', doc' \in [Prs \cup Shas -> Docs],
         NEW p \in Ws, NEW q, q = proc[p], q.pc \in Writing, NEW w, w = mat[<<q.e, q.pr>>],
         NEW v \in {Completed(w, p), Released(w, p)},
         mat' = [mat EXCEPT ![<<q.e, q.pr>>] = v], proc' = [proc EXCEPT ![p] = Idle],
         v = Released(w, p) \/ q.e # space.epoch \/ Displayed(q.e, q.pr)
  PROVE  SInv'
<1>1. PICK e \in Es, x \in Prs : e = q.e /\ x = q.pr /\ WorkFor(e, x)
  BY HolderOK DEF WorkFor
<1>2. w \in Works
  BY <1>1 DEF SInv, DocTypes
<1>3. /\ v \in Works /\ v.owner # p /\ (v = w \/ (w.owner = p /\ v.owner = None))
      /\ v = Released(w, p) /\ v.state = "none" => w.state = "none"
  BY <1>2, ReleaseOK
<1>4. \A f \in Es, y \in Prs : mat'[<<f, y>>] = IF f = e /\ y = x THEN v ELSE mat[<<f, y>>]
  BY <1>1, <1>3, KeyOK
<1>5. \A f \in Es, y \in Prs : mat'[<<f, y>>].owner # p
  <2>. SUFFICES ASSUME NEW f \in Es, NEW y \in Prs, mat'[<<f, y>>].owner = p PROVE FALSE
    OBVIOUS
  <2>1. mat[<<f, y>>].owner = p /\ ~(f = e /\ y = x)
    BY <1>3, <1>4
  <2>2. proc[p].e = f /\ proc[p].pr = y
    BY <2>1 DEF SInv, WorkInv
  <2>. QED  BY <1>1, <2>1, <2>2
<1>6. Changed(p, Idle, e, x, v)
  BY <1>1, <1>3, <1>5 DEF Changed
<1>7. Idle.pc # "commit" /\ Writer(Idle)'
  BY IdleOK DEF Writer, Writing
<1>. QED  BY <1>1, <1>3, <1>6, <1>7, ChangeShown

(* A materialization goes on: its work stays as it is.                      *)
LEMMA KeepShown ==
  ASSUME OneMerge, IInv, SInv, UNCHANGED <<space, row, evid, mat>>, Stable, DocInv', doc' \in [Prs \cup Shas -> Docs],
         NEW p \in Ws, NEW q, q = proc[p], q.pc \in Writing,
         NEW r, r.pc \in Writing, r.e = q.e, r.pr = q.pr, Writer(r)', proc' = [proc EXCEPT ![p] = r]
  PROVE  SInv'
<1>1. PICK e \in Es, x \in Prs : e = q.e /\ x = q.pr /\ WorkFor(e, x)
  BY HolderOK DEF WorkFor
<1>2. mat \in [Es \X Prs -> Works] /\ mat' = mat
  BY DEF SInv, DocTypes
<1>3. PICK v \in Works : v = mat[<<e, x>>] /\ mat' = [mat EXCEPT ![<<e, x>>] = v]
  BY <1>2
<1>4. \A f \in Es, y \in Prs : mat'[<<f, y>>].owner = p => r.pc \in Writing /\ r.e = f /\ r.pr = y
  <2>. SUFFICES ASSUME NEW f \in Es, NEW y \in Prs, mat[<<f, y>>].owner = p PROVE q.e = f /\ q.pr = y
    BY <1>2
  <2>. QED  BY DEF SInv, WorkInv
<1>5. Changed(p, r, e, x, v)
  BY <1>3, <1>4 DEF Changed
<1>6. r.pc # "commit"
  BY DEF Writing
<1>. QED  BY <1>1, <1>5, <1>6, ChangeShown

----------------------------------------------------------------------------
(* What a materialization writes.                                           *)

(* The number in hand is that of the row, if the epoch is still current.    *)
InHand(q) ==
  q.e = space.epoch => \E k \in Numbered(q.e) : row[q.e][k].pr = q.pr /\ row[q.e][k].sha = q.sha /\ row[q.e][k].num = q.num

LEMMA AppliedOK ==
  ASSUME NEW o \in Docs, NEW q, q.e \in Nat, q.num \in Nat, NEW a, a = Applied(o, q)
  PROVE  /\ a \in Docs /\ a.there = o.there /\ a.sha = o.sha
         /\ o.epoch > q.e => a = o
         /\ o.epoch <= q.e => a.epoch = q.e /\ a.num = q.num
<1>1. o.epoch \in Nat
  BY DEF Docs
<1>2. CASE o.epoch > q.e
  BY <1>1, <1>2 DEF Applied
<1>3. CASE ~(o.epoch > q.e)
  <2>1. a = [o EXCEPT !.epoch = q.e, !.num = q.num]
    BY <1>3 DEF Applied
  <2>. QED  BY <1>1, <1>3, <2>1 DEF Docs
<1>. QED  BY <1>2, <1>3

LEMMA Written ==
  ASSUME OneMerge, IInv, SInv, UNCHANGED <<space, row>>, NEW q, q.e \in Es, q.e <= space.epoch, q.num \in Nat,
         q.pr \in Prs, q.sha \in Shas, NEW d \in {q.pr, q.sha}, doc' = [doc EXCEPT ![d] = Applied(doc[d], q)], InHand(q)
  PROVE  /\ Stable /\ doc' \in [Prs \cup Shas -> Docs] /\ DocInv'
         /\ q.e = space.epoch => doc'[d].epoch = q.e /\ doc'[d].num = q.num
<1>1. doc \in [Prs \cup Shas -> Docs] /\ d \in Prs \cup Shas /\ space.epoch \in Es /\ space.epoch \in Nat /\ q.e \in Nat
  BY SpaceOK, ConstOK DEF SInv, DocTypes, IInv
<1>2. PICK o \in Docs : o = doc[d] /\ o.epoch \in Nat /\ o.epoch <= space.epoch
  BY <1>1 DEF SInv, DocInv, Docs
<1>3. PICK a : a = Applied(o, q)
  OBVIOUS
<1>4. /\ a \in Docs /\ a.there = o.there /\ a.sha = o.sha
      /\ o.epoch > q.e => a = o
      /\ o.epoch <= q.e => a.epoch = q.e /\ a.num = q.num
  BY <1>1, <1>3, AppliedOK
<1>5. doc' = [doc EXCEPT ![d] = a]
  BY <1>2, <1>3
<1>6. doc' \in [Prs \cup Shas -> Docs] /\ doc'[d] = a /\ \A c \in Prs \cup Shas : c # d => doc'[c] = doc[c]
  BY <1>1, <1>4, <1>5
<1>7. q.e = space.epoch => a.epoch = q.e /\ a.num = q.num
  BY <1>1, <1>2, <1>4
<1>8. DocInv'
  <2>. SUFFICES ASSUME NEW c \in Prs \cup Shas
                PROVE  /\ doc'[c].epoch <= space.epoch
                       /\ doc'[c].there /\ c \in Prs => doc'[c].sha \in Shas /\ c \in Landed[doc'[c].sha]
    BY DEF DocInv
  <2>1. /\ doc[c].epoch <= space.epoch
        /\ doc[c].there /\ c \in Prs => doc[c].sha \in Shas /\ c \in Landed[doc[c].sha]
    BY DEF SInv, DocInv
  <2>2. CASE c = d
    <3>1. a.epoch <= space.epoch
      BY <1>1, <1>2, <1>4
    <3>. QED  BY <1>2, <1>4, <1>6, <2>1, <2>2, <3>1
  <2>3. CASE c # d
    BY <1>6, <2>1, <2>3
  <2>. QED  BY <2>2, <2>3
<1>9. Stable
  <2>. SUFFICES ASSUME NEW e, e = space.epoch, NEW j \in Numbered(e), NEW r, r = row[e][j], NEW c \in {r.pr, r.sha}, Shows(c, e, r.num)
                PROVE  doc'[c].epoch = e /\ doc'[c].num = r.num
    BY DEF Stable
  <2>1. c \in Prs \cup Shas /\ r.pr \in Prs /\ r.sha \in Shas
    BY <1>1, NumRow
  <2>2. CASE c # d
    BY <1>6, <2>1, <2>2 DEF Shows
  <2>3. CASE c = d /\ q.e # e
    <3>1. o.epoch > q.e
      BY <1>1, <1>2, <2>3 DEF Shows
    <3>. QED  BY <1>2, <1>4, <1>6, <2>3, <3>1 DEF Shows
  <2>4. CASE c = d /\ q.e = e
    <3>1. PICK k \in Numbered(e) : row[e][k].pr = q.pr /\ row[e][k].sha = q.sha /\ row[e][k].num = q.num
      BY <2>4 DEF InHand
    <3>2. row[e][k].pr = row[e][j].pr \/ row[e][k].sha = row[e][j].sha
      BY <2>1, <2>4, <3>1 DEF OneMerge
    <3>3. k = j
      BY <1>1, <3>2, SameRow
    <3>. QED  BY <1>6, <1>7, <2>4, <3>1, <3>3
  <2>. QED  BY <2>2, <2>3, <2>4
<1>. QED  BY <1>6, <1>7, <1>8, <1>9

LEMMA StartMaterializeShown ==
  ASSUME OneMerge, IInv, SInv, NEW p \in Ws, StartMaterialize(p)
  PROVE  SInv'
<1>1. UNCHANGED <<space, row, evid, doc>> /\ proc[p].pc = "idle" /\ mat \in [Es \X Prs -> Works] /\ proc \in [Ws -> Procs]
  BY DEF StartMaterialize, SInv, DocTypes, IInv, TypeInv
<1>2. DocInv' /\ doc' \in [Prs \cup Shas -> Docs] /\ Stable
  BY <1>1, SameStable DEF SInv, DocInv, DocTypes
<1>3. PICK k \in Es \X Prs :
        /\ mat[k].state = "due"
        /\ IF space.epoch # k[1] THEN mat' = [mat EXCEPT ![k] = NoWork] /\ UNCHANGED proc
           ELSE /\ mat' = [mat EXCEPT ![k] = Leased(mat[k], p)]
                /\ proc' = [proc EXCEPT ![p] = [Idle EXCEPT !.pc = "lookup", !.e = k[1], !.pr = k[2]]]
  BY <1>1 DEF StartMaterialize
<1>4. PICK e \in Es, x \in Prs : k = <<e, x>> /\ k[1] = e /\ k[2] = x
  BY <1>3
<1>5. PICK w \in Works : w = mat[<<e, x>>] /\ w.state = "due"
  BY <1>1, <1>3, <1>4
<1>6. WorkFor(e, x)
  BY <1>5 DEF SInv, WorkInv, WorkFor
<1>7. proc[p].pc \notin Writing
  BY <1>1 DEF Writing
<1>8. CASE space.epoch # e
  <2>1. mat' = [mat EXCEPT ![<<e, x>>] = NoWork] /\ proc' = proc
    BY <1>3, <1>4, <1>8
  <2>2. NoWork \in Works /\ NoWork.owner = None /\ NoWork.state = "none"
    BY DEF NoWork, Works
  <2>3. \A f \in Es, y \in Prs : mat'[<<f, y>>] = IF f = e /\ y = x THEN NoWork ELSE mat[<<f, y>>]
    BY <2>1, <2>2, KeyOK
  <2>4. \A f \in Es, y \in Prs : mat'[<<f, y>>].owner # p
    BY <1>7, <2>2, <2>3, Unowned DEF OneMerge
  <2>5. PICK r : r = proc[p] /\ proc' = [proc EXCEPT ![p] = r]
    BY <1>1, <2>1
  <2>6. Changed(p, r, e, x, NoWork)
    BY <1>8, <2>1, <2>2, <2>4, <2>5 DEF Changed
  <2>7. r.pc # "commit" /\ Writer(r)'
    BY <1>1, <2>5 DEF Writer, Writing
  <2>. QED  BY <1>1, <1>2, <1>6, <2>2, <2>6, <2>7, ChangeShown
<1>9. CASE space.epoch = e
  <2>1. PICK v, r : v = Leased(w, p) /\ r = [Idle EXCEPT !.pc = "lookup", !.e = e, !.pr = x]
    OBVIOUS
  <2>2. mat' = [mat EXCEPT ![<<e, x>>] = v] /\ proc' = [proc EXCEPT ![p] = r]
    BY <1>3, <1>4, <1>5, <1>9, <2>1
  <2>3. v \in Works /\ v.owner = p /\ v.state = "leased"
    BY <1>5, <2>1, WorkOK DEF Leased, Works
  <2>4. r.pc = "lookup" /\ r.e = e /\ r.pr = x
    BY <2>1 DEF Idle
  <2>5. \A f \in Es, y \in Prs : mat'[<<f, y>>] = IF f = e /\ y = x THEN v ELSE mat[<<f, y>>]
    BY <2>2, <2>3, KeyOK
  <2>6. \A f \in Es, y \in Prs : mat'[<<f, y>>].owner = p => r.pc \in Writing /\ r.e = f /\ r.pr = y
    <3>. SUFFICES ASSUME NEW f \in Es, NEW y \in Prs, mat'[<<f, y>>].owner = p PROVE f = e /\ y = x
      BY <2>4 DEF Writing
    <3>1. mat[<<f, y>>].owner # p
      BY <1>7, Unowned
    <3>. QED  BY <2>5, <3>1
  <2>7. Changed(p, r, e, x, v)
    BY <2>2, <2>3, <2>6 DEF Changed
  <2>8. Writer(r)'
    <3>1. PICK j \in Numbered(e)' : row'[e][j].pr = x
      BY <1>1, <1>6 DEF WorkFor, Numbered
    <3>2. e <= space'.epoch
      BY <1>1, <1>9, SpaceOK DEF IInv
    <3>3. Knows(r, row[e][j])'
      BY <2>4, <3>1 DEF Knows
    <3>. QED  BY <2>4, <3>2, <3>3 DEF Writer
  <2>. QED  BY <1>1, <1>2, <1>6, <2>3, <2>4, <2>7, <2>8, ChangeShown
<1>. QED  BY <1>8, <1>9

(* lookupMergeNumbers: while the epoch lasts the row is found, and another  *)
(* row of the pull request has another commit.                              *)
LEMMA LookupShown ==
  ASSUME OneMerge, IInv, SInv, NEW p \in Ws, Lookup(p)
  PROVE  SInv'
<1>1. PICK q \in Procs : q = proc[p] /\ q.pc = "lookup"
  BY ProcOK DEF Lookup, IInv
<1>2. UNCHANGED <<space, row, evid, doc>> /\ q.pc \in Writing /\ TypeInv
  BY <1>1 DEF Lookup, Writing, IInv
<1>3. DocInv' /\ doc' \in [Prs \cup Shas -> Docs] /\ Stable
  BY <1>2, SameStable DEF SInv, DocInv, DocTypes
<1>4. PICK e, rs : e \in Es /\ e = space.epoch /\ rs = {i \in DOMAIN row[e] : row[e][i].pr = q.pr}
  BY <1>2, SpaceOK
<1>5. Writer(q)
  BY <1>1 DEF SInv, WritersInv
<1>6. PICK j \in Numbered(q.e) : row[q.e][j].pr = q.pr
  BY <1>2, <1>5 DEF Writer, Knows
<1>7. CASE rs = {}
  <2>1. q.e # space.epoch
    BY <1>4, <1>6, <1>7 DEF Numbered
  <2>2. PICK w, v : w = mat[<<q.e, q.pr>>] /\ v = Completed(w, p)
    OBVIOUS
  <2>3. mat' = [mat EXCEPT ![<<q.e, q.pr>>] = v] /\ proc' = [proc EXCEPT ![p] = Idle]
    BY <1>1, <1>4, <1>7, <2>2 DEF Lookup
  <2>. QED  BY <1>1, <1>2, <1>3, <2>1, <2>2, <2>3, EndShown
<1>8. CASE rs # {}
  <2>1. PICK i \in rs : proc' = [proc EXCEPT ![p].pc = "pr", ![p].sha = row[e][i].sha, ![p].num = row[e][i].num]
    BY <1>1, <1>4, <1>8 DEF Lookup
  <2>2. mat' = mat
    BY <1>1, <1>4, <1>8 DEF Lookup
  <2>3. PICK s \in Shas, n \in Nat : s = row[e][i].sha /\ n = row[e][i].num
    BY <1>2, <1>4, RowOK
  <2>4. PICK r : r = [q EXCEPT !.pc = "pr", !.sha = s, !.num = n]
    OBVIOUS
  <2>5. r.pc = "pr" /\ r.sha = s /\ r.num = n /\ r.e = q.e /\ r.pr = q.pr
    BY <2>4 DEF Procs
  <2>6. proc' = [proc EXCEPT ![p] = r]
    <3>1. proc \in [Ws -> Procs] /\ proc' = [proc EXCEPT ![p].pc = "pr", ![p].sha = s, ![p].num = n]
      BY <1>2, <2>1, <2>3 DEF TypeInv
    <3>. QED  BY <1>1, <2>4, <3>1
  <2>7. ASSUME q.e = space.epoch, s = row[q.e][j].sha PROVE n = row[q.e][j].num
    <3>1. j \in DOMAIN row[e] /\ i \in DOMAIN row[e] /\ row[e][i].sha = row[e][j].sha
      BY <1>4, <1>6, <2>3, <2>7 DEF Numbered
    <3>2. i \in DOMAIN History[e] /\ j \in DOMAIN History[e] /\ row[e][i].sha = History[e][i] /\ row[e][j].sha = History[e][j]
      BY <1>4, <3>1 DEF SInv, HistoryInv
    <3>3. i = j
      BY <1>4, <3>1, <3>2 DEF OneMerge
    <3>. QED  BY <1>4, <2>3, <2>7, <3>3
  <2>8. Writer(r)'
    <3>1. r.e \in Es /\ r.e <= space'.epoch /\ r.pr \in Prs /\ r.sha \in Shas /\ r.pc = "pr"
      BY <1>2, <1>5, <2>5 DEF Writer
    <3>2. j \in Numbered(r.e)' /\ row'[r.e][j] = row[q.e][j]
      BY <1>2, <2>5 DEF Numbered
    <3>3. PICK t : t = row[q.e][j] /\ t = row'[r.e][j]
      BY <3>2
    <3>4. Knows(r, t)'
      BY <1>2, <1>6, <2>5, <2>7, <3>3 DEF Knows
    <3>. QED  BY <3>1, <3>2, <3>3, <3>4 DEF Writer
  <2>9. r.pc \in Writing
    BY <2>5 DEF Writing
  <2>. QED  BY <1>1, <1>2, <1>3, <2>2, <2>5, <2>6, <2>8, <2>9, KeepShown
<1>. QED  BY <1>7, <1>8

(* applyMergeNumberToDocument: a document that names the commit in hand is  *)
(* of the numbered row.                                                     *)
LEMMA WritePrShown ==
  ASSUME OneMerge, IInv, SInv, NEW p \in Ws, WritePr(p)
  PROVE  SInv'
<1>1. PICK q \in Procs : q = proc[p] /\ q.pc = "pr"
  BY ProcOK DEF WritePr, IInv
<1>2. UNCHANGED <<space, row, evid>> /\ q.pc \in Writing /\ TypeInv
  BY <1>1 DEF WritePr, Writing, IInv
<1>3. Writer(q)
  BY <1>1 DEF SInv, WritersInv
<1>4. q.e \in Es /\ q.e <= space.epoch /\ q.pr \in Prs /\ q.sha \in Shas /\ q.num \in Nat
  BY <1>1, <1>2, <1>3 DEF Writer, Procs
<1>5. PICK j \in Numbered(q.e) : Knows(q, row[q.e][j])
  BY <1>2, <1>3 DEF Writer
<1>6. CASE doc[q.pr].there /\ doc[q.pr].sha = q.sha
  <2>1. /\ doc' = [doc EXCEPT ![q.pr] = Applied(doc[q.pr], q)] /\ mat' = mat
        /\ proc' = [proc EXCEPT ![p] = [proc[p] EXCEPT !.pc = "merge_commit"]]
    BY <1>1, <1>6 DEF WritePr
  <2>2. PICK t : t = row[q.e][j] /\ t.pr = q.pr /\ t.sha \in Shas /\ t.pr \in Landed[t.sha] /\ Knows(q, t)
    BY <1>4, <1>5, NumRow DEF Knows
  <2>3. t.sha = q.sha
    <3>1. q.pr \in Landed[q.sha]
      BY <1>4, <1>6 DEF SInv, DocInv
    <3>. QED  BY <1>4, <2>2, <3>1 DEF OneMerge
  <2>4. q.e = space.epoch => t.num = q.num
    BY <1>1, <2>2, <2>3 DEF Knows
  <2>5. InHand(q)
    BY <2>2, <2>3, <2>4 DEF InHand
  <2>6. PICK d \in {q.pr, q.sha} : d = q.pr /\ doc' = [doc EXCEPT ![d] = Applied(doc[d], q)]
    BY <2>1
  <2>7. /\ Stable /\ doc' \in [Prs \cup Shas -> Docs] /\ DocInv'
        /\ q.e = space.epoch => doc'[d].epoch = q.e /\ doc'[d].num = q.num
    BY <1>2, <1>4, <2>5, <2>6, Written
  <2>8. PICK r : r = [q EXCEPT !.pc = "merge_commit"]
    OBVIOUS
  <2>9. r.pc = "merge_commit" /\ r.sha = q.sha /\ r.num = q.num /\ r.e = q.e /\ r.pr = q.pr
    BY <2>8 DEF Procs
  <2>10. proc' = [proc EXCEPT ![p] = r] /\ r.pc \in Writing
    BY <1>1, <2>1, <2>8, <2>9 DEF Writing
  <2>11. Writer(r)'
    <3>1. r.e \in Es /\ r.e <= space'.epoch /\ r.pr \in Prs /\ r.sha \in Shas
      BY <1>2, <1>4, <2>9
    <3>2. j \in Numbered(r.e)' /\ row'[r.e][j] = t
      BY <1>2, <2>2, <2>9 DEF Numbered
    <3>3. Knows(r, t)'
      BY <1>2, <2>2, <2>3, <2>4, <2>6, <2>7, <2>9 DEF Knows, Shows
    <3>. QED  BY <3>1, <3>2, <3>3 DEF Writer
  <2>. QED  BY <1>1, <1>2, <2>1, <2>7, <2>9, <2>10, <2>11, KeepShown
<1>7. CASE ~(doc[q.pr].there /\ doc[q.pr].sha = q.sha)
  <2>1. PICK w, v : w = mat[<<q.e, q.pr>>] /\ v = Released(w, p)
    OBVIOUS
  <2>2. doc' = doc /\ mat' = [mat EXCEPT ![<<q.e, q.pr>>] = v] /\ proc' = [proc EXCEPT ![p] = Idle]
    BY <1>1, <1>7, <2>1 DEF WritePr
  <2>3. DocInv' /\ doc' \in [Prs \cup Shas -> Docs] /\ Stable
    BY <1>2, <2>2, SameStable DEF SInv, DocInv, DocTypes
  <2>. QED  BY <1>1, <1>2, <2>1, <2>2, <2>3, EndShown
<1>. QED  BY <1>6, <1>7

(* applyMergeNumberToCommitDocument: the work ends when both are written.   *)
LEMMA WriteCommitShown ==
  ASSUME OneMerge, IInv, SInv, NEW p \in Ws, WriteCommit(p)
  PROVE  SInv'
<1>1. PICK q \in Procs : q = proc[p] /\ q.pc = "merge_commit"
  BY ProcOK DEF WriteCommit, IInv
<1>2. UNCHANGED <<space, row, evid>> /\ q.pc \in Writing /\ TypeInv /\ proc' = [proc EXCEPT ![p] = Idle]
  BY <1>1 DEF WriteCommit, Writing, IInv
<1>3. Writer(q)
  BY <1>1 DEF SInv, WritersInv
<1>4. q.e \in Es /\ q.e <= space.epoch /\ q.pr \in Prs /\ q.sha \in Shas /\ q.num \in Nat
  BY <1>1, <1>2, <1>3 DEF Writer, Procs
<1>5. PICK j \in Numbered(q.e) : Knows(q, row[q.e][j])
  BY <1>2, <1>3 DEF Writer
<1>6. PICK w : w = mat[<<q.e, q.pr>>]
  OBVIOUS
<1>7. CASE doc[q.sha].there
  <2>1. PICK d \in {q.pr, q.sha} : d = q.sha /\ doc' = [doc EXCEPT ![d] = Applied(doc[d], q)]
    BY <1>1, <1>7 DEF WriteCommit
  <2>2. PICK v : v = Completed(w, p) /\ mat' = [mat EXCEPT ![<<q.e, q.pr>>] = v]
    BY <1>1, <1>6, <1>7 DEF WriteCommit
  <2>3. PICK t : t = row[q.e][j] /\ Knows(q, t)
    BY <1>5
  <2>4. /\ t.pr = q.pr
        /\ q.e = space.epoch => t.sha = q.sha /\ t.num = q.num /\ Shows(q.pr, q.e, q.num)
    BY <1>1, <2>3 DEF Knows
  <2>5. InHand(q)
    BY <2>3, <2>4 DEF InHand
  <2>6. /\ Stable /\ doc' \in [Prs \cup Shas -> Docs] /\ DocInv'
        /\ q.e = space.epoch => doc'[d].epoch = q.e /\ doc'[d].num = q.num
    BY <1>2, <1>4, <2>1, <2>5, Written
  <2>7. ASSUME q.e = space.epoch PROVE Displayed(q.e, q.pr)
    <3>1. PICK e \in Es : e = q.e /\ e = space.epoch
      BY <1>4, <2>7
    <3>2. doc'[t.pr].epoch = e /\ doc'[t.pr].num = t.num
      BY <2>3, <2>4, <2>6, <3>1 DEF Stable
    <3>3. doc'[t.sha].epoch = e /\ doc'[t.sha].num = t.num
      BY <2>1, <2>4, <2>6, <3>1
    <3>4. ASSUME NEW k \in Numbered(e), row[e][k].pr = q.pr PROVE row[e][k] = t
      <4>1. k = j
        BY <1>5, <2>3, <2>4, <3>1, <3>4, SameRow
      <4>. QED  BY <2>3, <3>1, <4>1
    <3>. QED  BY <3>1, <3>2, <3>3, <3>4 DEF Displayed
  <2>. QED  BY <1>1, <1>2, <1>6, <2>2, <2>6, <2>7, EndShown
<1>8. CASE ~doc[q.sha].there
  <2>1. PICK v : v = Released(w, p) /\ doc' = doc /\ mat' = [mat EXCEPT ![<<q.e, q.pr>>] = v]
    BY <1>1, <1>6, <1>8 DEF WriteCommit
  <2>2. DocInv' /\ doc' \in [Prs \cup Shas -> Docs] /\ Stable
    BY <1>2, <2>1, SameStable DEF SInv, DocInv, DocTypes
  <2>. QED  BY <1>1, <1>2, <1>6, <2>1, <2>2, EndShown
<1>. QED  BY <1>7, <1>8

----------------------------------------------------------------------------
(* Faults, new documents, and the theorem.                                  *)

LEMMA WritersStay ==
  ASSUME IInv, SInv, UNCHANGED <<space, row, evid, proc>>, Stable
  PROVE  DecisionsInv' /\ WritersInv'
<1>1. space.epoch \in Nat /\ Lasting
  BY SpaceOK, SameLasting DEF IInv
<1>2. ASSUME NEW u \in Ws PROVE Truthful(proc[u])' /\ Writer(proc[u])'
  <2>1. PICK q : q = proc'[u] /\ Truthful(q) /\ Writer(q)
    BY DEF SInv, DecisionsInv, WritersInv
  <2>2. Writer(q)'
    BY <1>1, <2>1, WriterKept
  <2>. QED  BY <2>1, <2>2 DEF Truthful
<1>. QED  BY <1>2 DEF DecisionsInv, WritersInv

LEMMA CreateDocShown ==
  ASSUME OneMerge, IInv, SInv, NEW c \in Prs \cup Shas, CreateDoc(c)
  PROVE  SInv'
<1>1. UNCHANGED <<space, row, evid, mat, proc>> /\ doc \in [Prs \cup Shas -> Docs] /\ mat \in [Es \X Prs -> Works]
  BY DEF CreateDoc, SInv, DocTypes
<1>2. PICK s \in Shas : c \in {s} \cup Landed[s] /\ doc' = [doc EXCEPT ![c].there = TRUE, ![c].sha = s]
  BY DEF CreateDoc
<1>3. PICK o, a : o \in Docs /\ o = doc[c] /\ a = [o EXCEPT !.there = TRUE, !.sha = s]
  BY <1>1
<1>4. a \in Docs /\ a.epoch = o.epoch /\ a.num = o.num /\ a.sha = s
  BY <1>3 DEF Docs
<1>5. doc' = [doc EXCEPT ![c] = a]
  BY <1>1, <1>2, <1>3
<1>6. doc' \in [Prs \cup Shas -> Docs] /\ doc'[c] = a /\ \A d \in Prs \cup Shas : d # c => doc'[d] = doc[d]
  BY <1>1, <1>4, <1>5
<1>7. ASSUME NEW d \in Prs \cup Shas PROVE doc'[d].epoch = doc[d].epoch /\ doc'[d].num = doc[d].num
  BY <1>3, <1>4, <1>6
<1>8. Stable
  <2>. SUFFICES ASSUME NEW j \in Numbered(space.epoch), NEW d \in {row[space.epoch][j].pr, row[space.epoch][j].sha}
                PROVE  doc'[d].epoch = doc[d].epoch /\ doc'[d].num = doc[d].num
    BY DEF Stable, Shows
  <2>1. space.epoch \in Es
    BY SpaceOK DEF IInv
  <2>2. d \in Prs \cup Shas
    BY <2>1, NumRow
  <2>. QED  BY <1>7, <2>2
<1>9. DocInv'
  <2>. SUFFICES ASSUME NEW d \in Prs \cup Shas
                PROVE  /\ doc'[d].epoch <= space.epoch
                       /\ doc'[d].there /\ d \in Prs => doc'[d].sha \in Shas /\ d \in Landed[doc'[d].sha]
    BY <1>1 DEF DocInv
  <2>1. /\ doc[d].epoch <= space.epoch
        /\ doc[d].there /\ d \in Prs => doc[d].sha \in Shas /\ d \in Landed[doc[d].sha]
    BY DEF SInv, DocInv
  <2>2. CASE d = c
    <3>1. d \in Prs => d \in Landed[s]
      BY <1>2, <2>2 DEF OneMerge
    <3>. QED  BY <1>4, <1>6, <1>7, <2>1, <2>2, <3>1
  <2>3. CASE d # c
    BY <1>6, <2>1, <2>3
  <2>. QED  BY <2>2, <2>3
<1>10. \A e \in Es, x \in Prs : mat'[<<e, x>>].state # "none" => \E j \in Numbered(e) : row[e][j].pr = x
  BY <1>1 DEF SInv, WorkInv
<1>11. \A e \in Es, x \in Prs, u \in Ws :
         mat'[<<e, x>>].owner = u => proc'[u].pc \in Writing /\ proc'[u].e = e /\ proc'[u].pr = x
  BY <1>1 DEF SInv, WorkInv
<1>12. DecisionsInv' /\ WritersInv'
  BY <1>1, <1>8, WritersStay
<1>. QED  BY <1>1, <1>6, <1>8, <1>9, <1>10, <1>11, <1>12, MatShown

LEMMA LoseLeaseShown ==
  ASSUME OneMerge, IInv, SInv, LoseLease
  PROVE  SInv'
<1>1. UNCHANGED <<space, row, evid, proc, doc>> /\ mat \in [Es \X Prs -> Works]
  BY DEF LoseLease, SInv, DocTypes
<1>2. DocInv' /\ doc' \in [Prs \cup Shas -> Docs] /\ Stable
  BY <1>1, SameStable DEF SInv, DocInv, DocTypes
<1>3. mat' = mat \/ \E k \in DOMAIN mat : mat[k].state = "leased" /\ mat' = [mat EXCEPT ![k] = Released(mat[k], mat[k].owner)]
  BY DEF LoseLease
<1>4. CASE mat' = mat
  <2>1. HistoryInv' /\ EvidenceInv' /\ Lasting
    BY <1>1, SameLasting DEF SInv, HistoryInv, EvidenceInv
  <2>2. \A j \in Numbered(space.epoch)' : j \in Numbered(space.epoch) /\ row'[space.epoch][j] = row[space.epoch][j]
    BY <1>1 DEF Numbered
  <2>. QED  BY <1>1, <1>4, <2>1, <2>2, QuietShown
<1>5. ASSUME NEW e \in Es, NEW x \in Prs, mat[<<e, x>>].state = "leased",
             mat' = [mat EXCEPT ![<<e, x>>] = Released(mat[<<e, x>>], mat[<<e, x>>].owner)]
      PROVE  SInv'
  <2>1. PICK w, v : w \in Works /\ w = mat[<<e, x>>] /\ v = Released(w, w.owner)
    BY <1>1
  <2>2. v = [w EXCEPT !.state = "due", !.again = FALSE, !.owner = None]
    BY <2>1 DEF Released
  <2>3. v \in Works /\ v.state = "due" /\ v.owner = None /\ mat' = [mat EXCEPT ![<<e, x>>] = v]
    BY <1>5, <2>1, <2>2 DEF Works
  <2>4. \A f \in Es, y \in Prs : mat'[<<f, y>>] = IF f = e /\ y = x THEN v ELSE mat[<<f, y>>]
    BY <2>3, KeyOK
  <2>5. mat' \in [Es \X Prs -> Works]
    BY <2>3, KeyOK
  <2>6. \A f \in Es, y \in Prs : mat'[<<f, y>>].state # "none" => \E j \in Numbered(f) : row[f][j].pr = y
    <3>. SUFFICES ASSUME NEW f \in Es, NEW y \in Prs, mat'[<<f, y>>].state # "none"
                  PROVE  \E j \in Numbered(f) : row[f][j].pr = y
      OBVIOUS
    <3>1. mat[<<f, y>>].state # "none"
      BY <1>5, <2>4
    <3>. QED  BY <3>1 DEF SInv, WorkInv
  <2>7. \A f \in Es, y \in Prs, u \in Ws :
          mat'[<<f, y>>].owner = u => proc'[u].pc \in Writing /\ proc'[u].e = f /\ proc'[u].pr = y
    <3>. SUFFICES ASSUME NEW f \in Es, NEW y \in Prs, NEW u \in Ws, mat'[<<f, y>>].owner = u
                  PROVE  proc'[u].pc \in Writing /\ proc'[u].e = f /\ proc'[u].pr = y
      OBVIOUS
    <3>1. mat[<<f, y>>].owner = u
      BY <2>3, <2>4 DEF OneMerge
    <3>. QED  BY <1>1, <3>1 DEF SInv, WorkInv
  <2>8. ASSUME NEW j \in Numbered(space.epoch), mat'[<<space.epoch, row[space.epoch][j].pr>>].state = "none"
        PROVE  mat[<<space.epoch, row[space.epoch][j].pr>>].state = "none"
    <3>1. PICK f \in Es, y \in Prs : f = space.epoch /\ y = row[f][j].pr
      <4>1. space.epoch \in Es
        BY SpaceOK DEF IInv
      <4>. QED  BY <4>1, NumRow
    <3>. QED  BY <2>3, <2>4, <2>8, <3>1
  <2>9. DecisionsInv' /\ WritersInv'
    BY <1>1, <1>2, WritersStay
  <2>. QED  BY <1>1, <1>2, <2>5, <2>6, <2>7, <2>8, <2>9, MatShown
<1>6. ASSUME NEW k \in Es \X Prs, mat[k].state = "leased", mat' = [mat EXCEPT ![k] = Released(mat[k], mat[k].owner)]
      PROVE  SInv'
  <2>1. PICK e \in Es, x \in Prs : k = <<e, x>>
    BY <1>6
  <2>2. mat[<<e, x>>].state = "leased" /\ mat' = [mat EXCEPT ![<<e, x>>] = Released(mat[<<e, x>>], mat[<<e, x>>].owner)]
    BY <1>6, <2>1
  <2>. QED  BY <1>5, <2>2
<1>7. DOMAIN mat = Es \X Prs
  BY <1>1
<1>. QED  BY <1>3, <1>4, <1>6, <1>7

LEMMA DieShown ==
  ASSUME OneMerge, IInv, SInv, NEW p \in Ws, Die(p)
  PROVE  SInv'
<1>1. /\ UNCHANGED <<space, row, evid, doc>> /\ mat \in [Es \X Prs -> Works] /\ proc \in [Ws -> Procs]
      /\ proc' = [proc EXCEPT ![p] = Idle] /\ mat' = [k \in DOMAIN mat |-> Released(mat[k], p)]
  BY DEF Die, SInv, DocTypes, IInv, TypeInv
<1>2. DocInv' /\ doc' \in [Prs \cup Shas -> Docs] /\ Stable
  BY <1>1, SameStable DEF SInv, DocInv, DocTypes
<1>3. ASSUME NEW f \in Es, NEW y \in Prs, NEW w, w = mat[<<f, y>>], NEW v, v = mat'[<<f, y>>]
      PROVE  /\ v \in Works /\ v.owner # p /\ (v = w \/ (w.owner = p /\ v.owner = None))
             /\ v.state = "none" => w.state = "none"
  <2>1. w \in Works /\ v = Released(w, p)
    BY <1>1, <1>3
  <2>. QED  BY <2>1, ReleaseOK
<1>4. mat' \in [Es \X Prs -> Works]
  <2>1. \A k \in Es \X Prs : Released(mat[k], p) \in Works
    BY <1>1, WorkOK
  <2>. QED  BY <1>1, <2>1
<1>5. \A f \in Es, y \in Prs : mat'[<<f, y>>].state # "none" => \E j \in Numbered(f) : row[f][j].pr = y
  <2>. SUFFICES ASSUME NEW f \in Es, NEW y \in Prs, mat'[<<f, y>>].state # "none"
                PROVE  \E j \in Numbered(f) : row[f][j].pr = y
    OBVIOUS
  <2>1. CASE mat[<<f, y>>].owner = p
    <3>1. proc[p].pc \in Writing /\ proc[p].e = f /\ proc[p].pr = y
      BY <2>1 DEF SInv, WorkInv
    <3>. QED  BY <3>1, HolderOK
  <2>2. CASE mat[<<f, y>>].owner # p
    <3>1. mat[<<f, y>>].state # "none"
      BY <1>3, <2>2
    <3>. QED  BY <3>1 DEF SInv, WorkInv
  <2>. QED  BY <2>1, <2>2
<1>6. \A f \in Es, y \in Prs, u \in Ws : mat'[<<f, y>>].owner = u => proc'[u].pc \in Writing /\ proc'[u].e = f /\ proc'[u].pr = y
  <2>. SUFFICES ASSUME NEW f \in Es, NEW y \in Prs, NEW u \in Ws, mat'[<<f, y>>].owner = u
                PROVE  proc'[u].pc \in Writing /\ proc'[u].e = f /\ proc'[u].pr = y
    OBVIOUS
  <2>1. u # p /\ mat[<<f, y>>].owner = u
    BY <1>3 DEF OneMerge
  <2>2. proc[u].pc \in Writing /\ proc[u].e = f /\ proc[u].pr = y
    BY <2>1 DEF SInv, WorkInv
  <2>. QED  BY <1>1, <2>1, <2>2
<1>7. ASSUME NEW j \in Numbered(space.epoch), mat'[<<space.epoch, row[space.epoch][j].pr>>].state = "none"
      PROVE  mat[<<space.epoch, row[space.epoch][j].pr>>].state = "none"
  <2>1. PICK f \in Es, y \in Prs : f = space.epoch /\ y = row[f][j].pr
    <3>1. space.epoch \in Es
      BY SpaceOK DEF IInv
    <3>. QED  BY <3>1, NumRow
  <2>. QED  BY <1>3, <1>7, <2>1
<1>8. DecisionsInv' /\ WritersInv'
  <2>1. Idle.pc # "commit" /\ Writer(Idle)'
    BY IdleOK DEF Writer, Writing
  <2>. QED  BY <1>1, <1>2, <2>1, WritersStep
<1>. QED  BY <1>1, <1>2, <1>4, <1>5, <1>6, <1>7, <1>8, MatShown

LEMMA InitShown == OneMerge /\ Init => SInv
<1>. SUFFICES ASSUME OneMerge, Init PROVE SInv
  OBVIOUS
<1>1. \A e \in Es : row[e] = <<>> /\ DOMAIN row[e] = {} /\ Numbered(e) = {}
  BY DEF Init, Es, Numbered
<1>2. NoWork \in Works /\ NoWork.state = "none" /\ NoWork.owner = None
  BY DEF NoWork, Works
<1>3. \A e \in Es, x \in Prs : mat[<<e, x>>] = NoWork
  BY DEF Init, Es
<1>4. DocTypes /\ DocInv
  <2>1. mat \in [Es \X Prs -> Works]
    BY <1>2 DEF Init, Es
  <2>2. PICK o : o = [there |-> FALSE, sha |-> None, epoch |-> 0, num |-> 0]
    OBVIOUS
  <2>3. o \in Docs /\ o.there = FALSE /\ o.epoch = 0
    BY <2>2 DEF Docs
  <2>4. doc = [d \in Prs \cup Shas |-> o] /\ space.epoch = 1
    BY <2>2 DEF Init, NewSpace
  <2>. QED  BY <2>1, <2>3, <2>4 DEF DocTypes, DocInv
<1>5. HistoryInv /\ WorkInv
  BY <1>1, <1>2, <1>3 DEF HistoryInv, WorkInv, OneMerge
<1>6. EvidenceInv
  <2>1. \A e \in Es : \A i \in Ss : evid[e][i].state = "absent"
    BY DEF Init, Es, Ss, NoEvidence
  <2>. QED  BY <2>1, ConstOK DEF EvidenceInv
<1>7. DecisionsInv /\ WritersInv
  <2>1. \A p \in Ws : proc[p] = Idle
    BY DEF Init, Ws
  <2>. QED  BY <2>1, IdleOK DEF DecisionsInv, WritersInv, Truthful, Writer, Writing
<1>8. ShownInv
  <2>1. space.epoch \in Es
    BY MergeNumberAssumption DEF Init, NewSpace, Es
  <2>. QED  BY <1>1, <2>1 DEF ShownInv
<1>. QED  BY <1>4, <1>5, <1>6, <1>7, <1>8 DEF SInv

LEMMA NextShown == OneMerge /\ IInv /\ IInv' /\ SInv /\ [Next]_vars => SInv'
<1>. SUFFICES ASSUME OneMerge, IInv, IInv', SInv, [Next]_vars PROVE SInv'
  OBVIOUS
<1>1. Epochs = Es /\ Workers = Ws /\ Reconcilers \subseteq Ws /\ Materializers \subseteq Ws
  BY DEF IInv, TypeInv, Epochs, Workers, Ws
<1>2. CASE AddRow
  BY <1>2, AddRowShown
<1>3. CASE Reassign
  BY <1>3, ReassignShown
<1>4. CASE \/ MarkReassigning \/ GiveUpReassign \/ Attest \/ Revoke
           \/ \E e \in Epochs : ConsumeHint(e)
           \/ \E p \in Prs : Merge(p) \/ Snapshot(p)
           \/ UNCHANGED vars
  BY <1>4, RequestShown
<1>5. ASSUME NEW d \in Prs \cup Shas, CreateDoc(d) PROVE SInv'
  BY <1>5, CreateDocShown
<1>6. ASSUME NEW i \in Seqs, Recheckable(i) PROVE SInv'
  BY <1>6, RecheckShown
<1>7. ASSUME NEW p \in Reconcilers, Round(p) PROVE SInv'
  <2>1. p \in Ws
    BY <1>1
  <2>. QED  BY <1>7, <2>1, StartRoundShown, ClearShown, LookShown, CommitShown, DropRoundShown DEF Round
<1>8. ASSUME NEW p \in Materializers, Materialize(p) PROVE SInv'
  <2>1. p \in Ws
    BY <1>1
  <2>. QED  BY <1>8, <2>1, StartMaterializeShown, LookupShown, WritePrShown, WriteCommitShown DEF Materialize
<1>9. CASE LoseLease
  BY <1>9, LoseLeaseShown
<1>10. ASSUME NEW p \in Ws, Die(p) PROVE SInv'
  BY <1>10, DieShown
<1>. QED  BY <1>1, <1>2, <1>3, <1>4, <1>5, <1>6, <1>7, <1>8, <1>9, <1>10 DEF Next

(* When the materialization of a numbered pull request is neither due nor   *)
(* running, its document and that of its merge commit show the number under *)
(* the current epoch, whatever late writers, expired leases, crashes,       *)
(* rebuilds and the clearing of old numbers do; for pull requests that are  *)
(* merged as one commit (materializeMergeNumber, merge-number.ts).          *)
THEOREM NumbersAreShown == ASSUME OneMerge PROVE Spec => []NumberedIsShown
<1>1. SInv /\ IInv => NumberedIsShown
  <2>. SUFFICES ASSUME SInv, IInv, NEW j \in Numbered(space.epoch), mat[<<space.epoch, row[space.epoch][j].pr>>].state = "none"
                PROVE  \A d \in {row[space.epoch][j].pr, row[space.epoch][j].sha} :
                         doc[d].epoch = space.epoch /\ doc[d].num = row[space.epoch][j].num
    BY DEF NumberedIsShown
  <2>. QED  BY DEF SInv, ShownInv, ShownRow, Shows
<1>2. Init => SInv
  BY InitShown
<1>3. IInv /\ IInv' /\ SInv /\ [Next]_vars => SInv'
  BY NextShown
<1>4. Spec => []IInv
  BY Invariance
<1>. QED  BY <1>1, <1>2, <1>3, <1>4, PTL DEF Spec
============================================================================
