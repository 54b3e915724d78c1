------------------------- MODULE SequenceWorkProofs -------------------------
(***************************************************************************)
(* Proofs about the lease queue of SequenceWork, for any number of keys,   *)
(* runners, tokens and requests and any batch size.                        *)
(***************************************************************************)
EXTENDS SequenceWork, TLAPS

\* A row and its history agree: only a leased row has a token, what is
\* acknowledged was served, and a row that waits for nobody owes nothing.
RowOK(k) ==
    /\ row[k].state # "leased" => row[k].token = Null
    /\ row[k].completed <= served[k]
    /\ served[k] <= row[k].requested
    /\ row[k].state = "done" => served[k] = row[k].requested
    /\ row[k].state = "absent" => row[k].requested = 0
    /\ row[k].state = "parked" => k \in DocKeys
    /\ row[k].state = "obsolete" => ~ current

\* A token leads back to the row it was made for, and a claim whose token is
\* still on the row has a generation that was requested.
ClaimOK(c) ==
    \A k \in Keys : row[k].token = c.token =>
        c.key = k /\ c.gen <= row[k].requested

\* An execution saw no request from the future, and, while it holds the lease,
\* saw everything it will acknowledge.
ExecOK(w) ==
    pc[w] = "exec" =>
        /\ seen[w] <= row[job[w].key].requested
        /\ row[job[w].key].token = job[w].token => job[w].gen <= seen[w]

\* The inductive invariant.
IInv ==
    /\ TypeOK
    /\ \A k \in Keys : RowOK(k)
    /\ \A w \in Runners : \A c \in batch[w] : ClaimOK(c)
    /\ \A w \in Runners : ExecOK(w)

----------------------------------------------------------------------------

\* The initial queue is empty.
LEMMA InitOK == Init => IInv
BY QueueAssumption DEF Init, IInv, TypeOK, RowOK, ClaimOK, ExecOK, NoRow, NoJob,
   WorkRow, Claim, States, Null, Keys

\* What TypeOK says of one row and of one claim.
LEMMA RowTypes ==
    ASSUME TypeOK, NEW k \in Keys
    PROVE  /\ row[k] \in WorkRow
           /\ row[k].state \in States /\ row[k].requested \in Nat
           /\ row[k].completed \in Nat /\ row[k].token \in Tokens \cup {Null}
           /\ row[k].attempts \in 0..MaxRetries /\ served[k] \in Nat
BY DEF TypeOK, WorkRow

LEMMA ClaimTypes ==
    ASSUME TypeOK, NEW w \in Runners, NEW c \in batch[w]
    PROVE  /\ c \in Claim
           /\ c.key \in Keys /\ c.token \in Tokens /\ c.gen \in Nat
           /\ c.attempts \in 0..MaxRetries
BY DEF TypeOK, Claim

LEMMA ExecTypes ==
    ASSUME TypeOK, NEW w \in Runners, pc[w] = "exec"
    PROVE  /\ job[w] \in batch[w] /\ job[w].key \in Keys
           /\ job[w].token \in Tokens /\ job[w].gen \in Nat /\ seen[w] \in Nat
BY ClaimTypes DEF TypeOK

\* An update of a row with values of the right types is a row.
LEMMA RowUpdate ==
    ASSUME NEW r \in WorkRow, NEW s \in States, NEW m \in Nat, NEW n \in Nat,
           NEW t \in Tokens \cup {Null}, NEW a \in 0..MaxRetries
    PROVE  /\ [r EXCEPT !.requested = m, !.state = s, !.attempts = a] \in WorkRow
           /\ [r EXCEPT !.expired = TRUE] \in WorkRow
           /\ [r EXCEPT !.expired = FALSE] \in WorkRow
           /\ [r EXCEPT !.state = s, !.token = t, !.expired = FALSE] \in WorkRow
           /\ [r EXCEPT !.state = s, !.token = t, !.expired = FALSE,
                        !.attempts = a] \in WorkRow
           /\ [r EXCEPT !.completed = n, !.state = s, !.token = t,
                        !.expired = FALSE] \in WorkRow
BY DEF WorkRow

\* The history part of the invariant survives a step that hands out no token,
\* starts and ends nothing, and lowers no generation.
LEMMA ClaimsKept ==
    ASSUME IInv, TypeOK', UNCHANGED <<pc, batch, job, seen>>,
           \A k \in Keys : /\ row'[k].requested >= row[k].requested
                           /\ row'[k].token \in {row[k].token, Null}
    PROVE  /\ \A w \in Runners : \A c \in batch'[w] : ClaimOK(c)'
           /\ \A w \in Runners : ExecOK(w)'
<1>1. ASSUME NEW w \in Runners, NEW c \in batch[w], NEW k \in Keys,
             row'[k].token = c.token
      PROVE  c.key = k /\ c.gen <= row'[k].requested
  <2>1. c.token \in Tokens /\ c.gen \in Nat
    BY ClaimTypes DEF IInv
  <2>2. c.token # Null
    BY <2>1, QueueAssumption
  <2>3. row[k].token = c.token
    BY <1>1, <2>2
  <2>4. c.key = k /\ c.gen <= row[k].requested
    BY <2>3 DEF IInv, ClaimOK
  <2>5. row[k].requested \in Nat /\ row'[k].requested \in Nat
    BY RowTypes DEF IInv, TypeOK, WorkRow
  <2>. QED  BY <2>1, <2>4, <2>5
<1>2. ASSUME NEW w \in Runners, pc[w] = "exec"
      PROVE  /\ seen[w] <= row'[job[w].key].requested
             /\ row'[job[w].key].token = job[w].token => job[w].gen <= seen[w]
  <2>1. /\ job[w].key \in Keys /\ job[w].token \in Tokens
        /\ job[w].gen \in Nat /\ seen[w] \in Nat
    BY <1>2, ExecTypes DEF IInv
  <2>2. job[w].token # Null
    BY <2>1, QueueAssumption
  <2>3. row[job[w].key].requested \in Nat /\ row'[job[w].key].requested \in Nat
    BY <2>1, RowTypes DEF IInv, TypeOK, WorkRow
  <2>4. /\ seen[w] <= row[job[w].key].requested
        /\ row[job[w].key].token = job[w].token => job[w].gen <= seen[w]
    BY <1>2 DEF IInv, ExecOK
  <2>. QED  BY <2>1, <2>2, <2>3, <2>4
<1>. QED  BY <1>1, <1>2 DEF ClaimOK, ExecOK

----------------------------------------------------------------------------

\* requestWork keeps the invariant.
LEMMA RequestOK ==
    ASSUME IInv, NEW k \in Keys, RequestWork(k)
    PROVE  IInv'
<1>. DEFINE s == IF row[k].state = "leased" THEN "leased" ELSE "ready"
            a == IF row[k].state = "leased" THEN row[k].attempts ELSE 0
            r == [row[k] EXCEPT !.requested = row[k].requested + 1, !.state = s,
                                !.attempts = a]
<1>1. TypeOK /\ row \in [Keys -> WorkRow]
  BY DEF IInv, TypeOK
<1>2. /\ row[k] \in WorkRow /\ row[k].requested + 1 \in Nat
      /\ s \in States /\ a \in 0..MaxRetries
  BY <1>1, RowTypes, QueueAssumption DEF States
<1>3. row' = [row EXCEPT ![k] = r]
  BY <1>1 DEF RequestWork
<1>4. r \in WorkRow
  BY <1>2, RowUpdate
<1>5. /\ r.requested = row[k].requested + 1 /\ r.state = s
      /\ r.completed = row[k].completed /\ r.token = row[k].token
  BY <1>2 DEF WorkRow
<1>. HIDE DEF r
<1>6. TypeOK'
  <2>1. row' \in [Keys -> WorkRow]
    BY <1>1, <1>3, <1>4
  <2>2. UNCHANGED <<current, pc, batch, job, seen, served>>
    BY DEF RequestWork
  <2>. QED  BY <1>1, <2>1, <2>2 DEF TypeOK
<1>7. \A l \in Keys : RowOK(l)'
  <2>1. ASSUME NEW l \in Keys, l # k PROVE RowOK(l)'
    BY <1>1, <1>3, <2>1 DEF IInv, RowOK, RequestWork
  <2>2. RowOK(k)'
    <3>1. row'[k] = r /\ served' = served /\ current' = current
      BY <1>1, <1>3 DEF RequestWork
    <3>2. RowOK(k) /\ served[k] \in Nat /\ row[k].requested \in Nat
      BY <1>1, RowTypes DEF IInv
    <3>. QED  BY <1>5, <3>1, <3>2 DEF RowOK
  <2>. QED  BY <2>1, <2>2
<1>8. \A l \in Keys : /\ row'[l].requested >= row[l].requested
                      /\ row'[l].token \in {row[l].token, Null}
  BY <1>1, <1>3, <1>5, RowTypes
<1>9. UNCHANGED <<pc, batch, job, seen>>
  BY DEF RequestWork
<1>. QED  BY <1>6, <1>7, <1>8, <1>9, ClaimsKept DEF IInv

\* The space's epoch moves on.
LEMMA EpochOK == ASSUME IInv, EpochMoves PROVE IInv'
<1>1. current' = FALSE /\ UNCHANGED <<row, pc, batch, job, seen, served>>
  BY DEF EpochMoves
<1>2. TypeOK'
  BY <1>1 DEF IInv, TypeOK
<1>3. \A k \in Keys : RowOK(k)'
  BY <1>1 DEF IInv, RowOK
<1>4. \A w \in Runners : \A c \in batch'[w] : ClaimOK(c)'
  BY <1>1 DEF IInv, ClaimOK
<1>5. \A w \in Runners : ExecOK(w)'
  BY <1>1 DEF IInv, ExecOK
<1>. QED  BY <1>2, <1>3, <1>4, <1>5 DEF IInv

\* A step that changes nothing but the expiry of one lease keeps the invariant.
LEMMA ExpiryOK ==
    ASSUME IInv, NEW k \in Keys, NEW b \in BOOLEAN,
           row' = [row EXCEPT ![k].expired = b],
           UNCHANGED <<current, pc, batch, job, seen, served>>
    PROVE  IInv'
<1>. DEFINE r == [row[k] EXCEPT !.expired = b]
<1>1. TypeOK /\ row \in [Keys -> WorkRow] /\ row[k] \in WorkRow
  BY DEF IInv, TypeOK
<1>2. row' = [row EXCEPT ![k] = r]
  BY <1>1
<1>3. r \in WorkRow
  BY <1>1 DEF WorkRow
<1>4. /\ r.requested = row[k].requested /\ r.state = row[k].state
      /\ r.completed = row[k].completed /\ r.token = row[k].token
  BY <1>1 DEF WorkRow
<1>. HIDE DEF r
<1>5. TypeOK'
  BY <1>1, <1>2, <1>3 DEF TypeOK
<1>6. \A l \in Keys : /\ row'[l].requested = row[l].requested
                      /\ row'[l].state = row[l].state
                      /\ row'[l].completed = row[l].completed
                      /\ row'[l].token = row[l].token
  BY <1>1, <1>2, <1>4
<1>7. \A l \in Keys : RowOK(l)'
  BY <1>6 DEF IInv, RowOK
<1>8. \A l \in Keys : /\ row'[l].requested >= row[l].requested
                      /\ row'[l].token \in {row[l].token, Null}
  BY <1>1, <1>6, RowTypes
<1>. QED  BY <1>5, <1>7, <1>8, ClaimsKept DEF IInv

\* cleanupDoneWork keeps the invariant: whoever still runs the deleted row saw
\* none of the generations to come.
LEMMA CleanupOK ==
    ASSUME IInv, NEW k \in Keys, CleanupDoneWork(k)
    PROVE  IInv'
<1>1. TypeOK /\ row \in [Keys -> WorkRow]
  BY DEF IInv, TypeOK
<1>2. row' = [row EXCEPT ![k] = NoRow] /\ served' = [served EXCEPT ![k] = 0]
  BY DEF CleanupDoneWork
<1>3. NoRow \in WorkRow
  BY QueueAssumption DEF NoRow, WorkRow, States
<1>4. seen' \in [Runners -> Nat]
  BY <1>1 DEF CleanupDoneWork, TypeOK
<1>5. TypeOK'
  BY <1>1, <1>2, <1>3, <1>4 DEF TypeOK, CleanupDoneWork
<1>6. NoRow.token = Null /\ NoRow.requested = 0
  BY DEF NoRow
<1>7. \A l \in Keys : RowOK(l)'
  <2>1. ASSUME NEW l \in Keys, l # k PROVE RowOK(l)'
    BY <1>1, <1>2, <2>1 DEF IInv, TypeOK, RowOK, CleanupDoneWork
  <2>2. RowOK(k)'
    BY <1>1, <1>2 DEF TypeOK, RowOK, NoRow
  <2>. QED  BY <2>1, <2>2
<1>8. ASSUME NEW w \in Runners, NEW c \in batch[w], NEW l \in Keys,
             row'[l].token = c.token
      PROVE  c.key = l /\ c.gen <= row'[l].requested
  <2>1. c.token # Null
    BY <1>1, ClaimTypes, QueueAssumption
  <2>2. l # k
    BY <1>1, <1>2, <1>6, <1>8, <2>1
  <2>. QED  BY <1>1, <1>2, <1>8, <2>2 DEF IInv, ClaimOK
<1>9. ASSUME NEW w \in Runners, pc[w] = "exec"
      PROVE  /\ seen'[w] <= row'[job[w].key].requested
             /\ row'[job[w].key].token = job[w].token => job[w].gen <= seen'[w]
  <2>1. job[w].key \in Keys /\ job[w].token # Null
    BY <1>1, <1>9, ExecTypes, QueueAssumption
  <2>2. CASE job[w].key = k
    BY <1>1, <1>2, <1>6, <1>9, <2>1, <2>2 DEF CleanupDoneWork
  <2>3. CASE job[w].key # k
    <3>1. seen'[w] = seen[w] /\ row'[job[w].key] = row[job[w].key]
      BY <1>1, <1>2, <2>1, <2>3 DEF CleanupDoneWork
    <3>. QED  BY <1>9, <3>1 DEF IInv, ExecOK
  <2>. QED  BY <2>2, <2>3
<1>10. UNCHANGED <<pc, batch, job, current>>
  BY DEF CleanupDoneWork
<1>11. \A w \in Runners : \A c \in batch'[w] : ClaimOK(c)'
  BY <1>8, <1>10 DEF ClaimOK
<1>12. \A w \in Runners : ExecOK(w)'
  BY <1>9, <1>10 DEF ExecOK
<1>. QED  BY <1>5, <1>7, <1>11, <1>12 DEF IInv

\* reclaimExpiredLeases keeps the invariant.
LEMMA ReclaimOK ==
    ASSUME IInv, NEW w \in Runners, ReclaimExpiredLeases(w)
    PROVE  IInv'
<1>. DEFINE r(k) == [row[k] EXCEPT !.state = "retry", !.token = Null, !.expired = FALSE]
<1>1. TypeOK /\ row \in [Keys -> WorkRow]
  BY DEF IInv, TypeOK
<1>2. \A k \in Keys : r(k) \in WorkRow
  <2>1. "retry" \in States /\ Null \in Tokens \cup {Null}
    BY DEF States
  <2>. QED  BY <1>1, <2>1, RowUpdate, RowTypes
<1>3. \A k \in Keys : /\ r(k).requested = row[k].requested /\ r(k).state = "retry"
                      /\ r(k).completed = row[k].completed /\ r(k).token = Null
  BY <1>1 DEF WorkRow
<1>4. row' = [k \in Keys |-> IF row[k].state = "leased" /\ row[k].expired
                             THEN r(k) ELSE row[k]]
  BY DEF ReclaimExpiredLeases
<1>. HIDE DEF r
<1>5. \A k \in Keys : /\ row'[k] \in WorkRow
                      /\ row'[k].requested = row[k].requested
                      /\ row'[k].completed = row[k].completed
                      /\ \/ row'[k] = row[k]
                         \/ row'[k].state = "retry" /\ row'[k].token = Null
  BY <1>1, <1>2, <1>3, <1>4
<1>6. /\ UNCHANGED <<current, batch, job, seen, served>>
      /\ pc' = [pc EXCEPT ![w] = "claim"] /\ pc[w] = "idle"
  BY DEF ReclaimExpiredLeases
<1>7. TypeOK'
  <2>1. row' \in [Keys -> WorkRow]
    BY <1>4, <1>5
  <2>2. \A v \in Runners : pc'[v] = "exec" => pc[v] = "exec"
    BY <1>1, <1>6 DEF TypeOK
  <2>. QED  BY <1>1, <1>6, <2>1, <2>2 DEF TypeOK
<1>8. \A k \in Keys : RowOK(k)'
  BY <1>5, <1>6 DEF IInv, RowOK
<1>9. ASSUME NEW v \in Runners, NEW c \in batch[v], NEW k \in Keys,
             row'[k].token = c.token
      PROVE  c.key = k /\ c.gen <= row'[k].requested
  <2>1. c.token # Null
    BY <1>1, ClaimTypes, QueueAssumption
  <2>2. row'[k] = row[k]
    BY <1>5, <1>9, <2>1
  <2>. QED  BY <1>9, <2>2 DEF IInv, ClaimOK
<1>10. ASSUME NEW v \in Runners, pc[v] = "exec"
       PROVE  /\ seen[v] <= row'[job[v].key].requested
              /\ row'[job[v].key].token = job[v].token => job[v].gen <= seen[v]
  <2>1. job[v].key \in Keys /\ job[v].token # Null
    BY <1>1, <1>10, ExecTypes, QueueAssumption
  <2>. QED  BY <1>5, <1>10, <2>1 DEF IInv, ExecOK
<1>11. \A v \in Runners : \A c \in batch'[v] : ClaimOK(c)'
  BY <1>6, <1>9 DEF ClaimOK
<1>12. \A v \in Runners : ExecOK(v)'
  BY <1>1, <1>6, <1>10 DEF ExecOK, TypeOK
<1>. QED  BY <1>7, <1>8, <1>11, <1>12 DEF IInv

\* claimDueWork keeps the invariant: the new tokens are known to nobody else.
LEMMA ClaimDueOK ==
    ASSUME IInv, NEW w \in Runners, NEW ks \in SUBSET Keys, NEW tok \in [ks -> Tokens],
           ClaimDueWork(w, ks, tok)
    PROVE  IInv'
<1>. DEFINE a(k) == Attempted(row[k].attempts)
            r(k) == [row[k] EXCEPT !.state = "leased", !.token = tok[k],
                                   !.expired = FALSE, !.attempts = a(k)]
            d(k) == [key |-> k, token |-> tok[k], gen |-> row[k].requested,
                     attempts |-> a(k)]
<1>1. TypeOK /\ row \in [Keys -> WorkRow]
  BY DEF IInv, TypeOK
<1>2. \A k \in ks : a(k) \in 0..MaxRetries
  BY <1>1, RowTypes, QueueAssumption DEF Attempted
<1>. HIDE DEF a
<1>3. \A k \in ks : r(k) \in WorkRow
  <2>1. "leased" \in States
    BY DEF States
  <2>2. \A k \in ks : tok[k] \in Tokens \cup {Null} /\ row[k] \in WorkRow
    BY <1>1
  <2>. QED  BY <1>2, <2>1, <2>2, RowUpdate
<1>4. \A k \in ks : /\ r(k).requested = row[k].requested /\ r(k).state = "leased"
                    /\ r(k).completed = row[k].completed /\ r(k).token = tok[k]
  BY <1>1 DEF WorkRow
<1>5. \A k \in ks : /\ d(k) \in Claim
                    /\ d(k).key = k /\ d(k).token = tok[k] /\ d(k).gen = row[k].requested
  BY <1>1, <1>2, RowTypes DEF Claim
<1>6. /\ row' = [k \in Keys |-> IF k \in ks THEN r(k) ELSE row[k]]
      /\ batch' = [batch EXCEPT ![w] = {d(k) : k \in ks}]
      /\ pc' = [pc EXCEPT ![w] = "run"]
      /\ UNCHANGED <<current, job, seen, served>>
  BY DEF ClaimDueWork, a
<1>7. pc[w] = "claim"
  BY DEF ClaimDueWork
<1>8. \A k \in ks : /\ tok[k] \in Tokens
                    /\ \A l \in Keys : row[l].token # tok[k]
                    /\ \A v \in Runners : \A c \in batch[v] : c.token # tok[k]
                    /\ \A l \in ks : tok[l] = tok[k] => l = k
  BY DEF ClaimDueWork, FreshTokens
<1>9. \A k \in Keys : /\ row'[k].requested = row[k].requested
                      /\ row'[k].completed = row[k].completed
                      /\ k \notin ks => row'[k] = row[k]
                      /\ k \in ks => row'[k].state = "leased" /\ row'[k].token = tok[k]
  <2>. HIDE DEF r
  <2>. QED  BY <1>4, <1>6
<1>10. row' \in [Keys -> WorkRow]
  <2>. HIDE DEF r
  <2>. QED  BY <1>1, <1>3, <1>6
<1>. HIDE DEF r, d
<1>11. TypeOK'
  <2>1. {d(k) : k \in ks} \subseteq Claim
    BY <1>5
  <2>2. batch' \in [Runners -> SUBSET Claim]
    BY <1>1, <1>6, <2>1 DEF TypeOK
  <2>3. pc' \in [Runners -> {"idle", "claim", "run", "exec"}]
    BY <1>1, <1>6 DEF TypeOK
  <2>4. \A v \in Runners : pc'[v] = "exec" => job'[v] \in batch'[v]
    BY <1>1, <1>6 DEF TypeOK
  <2>. QED  BY <1>1, <1>6, <1>10, <2>2, <2>3, <2>4 DEF TypeOK
<1>12. \A k \in Keys : RowOK(k)'
  BY <1>6, <1>9 DEF IInv, RowOK
<1>13. ASSUME NEW v \in Runners, NEW c \in batch'[v], NEW k \in Keys,
              row'[k].token = c.token
       PROVE  c.key = k /\ c.gen <= row'[k].requested
  <2>1. CASE c \in batch[v]
    <3>1. k \notin ks
      BY <1>8, <1>9, <1>13, <2>1
    <3>. QED  BY <1>9, <1>13, <2>1, <3>1 DEF IInv, ClaimOK
  <2>2. CASE c \notin batch[v]
    <3>1. PICK l \in ks : c = d(l)
      BY <1>1, <1>6, <2>2 DEF TypeOK
    <3>2. c.key = l /\ c.token = tok[l] /\ c.gen = row[l].requested
      BY <1>5, <3>1
    <3>3. k = l
      BY <1>8, <1>9, <1>13, <3>2
    <3>. QED  BY <1>1, <1>9, <3>2, <3>3, RowTypes
  <2>. QED  BY <2>1, <2>2
<1>14. ASSUME NEW v \in Runners, pc'[v] = "exec"
       PROVE  /\ seen[v] <= row'[job[v].key].requested
              /\ row'[job[v].key].token = job[v].token => job[v].gen <= seen[v]
  <2>1. pc[v] = "exec"
    BY <1>1, <1>6, <1>14 DEF TypeOK
  <2>2. job[v] \in batch[v] /\ job[v].key \in Keys
    BY <1>1, <2>1, ExecTypes
  <2>3. row'[job[v].key].token = job[v].token => job[v].key \notin ks
    BY <1>8, <1>9, <2>2
  <2>. QED  BY <1>9, <2>1, <2>2, <2>3 DEF IInv, ExecOK
<1>15. \A v \in Runners : \A c \in batch'[v] : ClaimOK(c)'
  BY <1>13 DEF ClaimOK
<1>16. \A v \in Runners : ExecOK(v)'
  BY <1>6, <1>14 DEF ExecOK
<1>. QED  BY <1>11, <1>12, <1>15, <1>16 DEF IInv

\* A runner that goes to a control point outside of an execution, with part of
\* its batch, keeps the invariant (ClaimNothing, Crash).
LEMMA LeavesOK ==
    ASSUME IInv, NEW w \in Runners, NEW p \in {"idle", "run"}, NEW S \in SUBSET batch[w],
           pc' = [pc EXCEPT ![w] = p],
           batch' = [batch EXCEPT ![w] = S],
           job' \in [Runners -> Claim \cup {NoJob}], seen' \in [Runners -> Nat],
           \A v \in Runners : v # w => job'[v] = job[v] /\ seen'[v] = seen[v],
           UNCHANGED <<row, current, served>>
    PROVE  IInv'
<1>1. TypeOK
  BY DEF IInv
<1>2. \A v \in Runners : pc'[v] = "exec" => v # w /\ pc[v] = "exec"
  BY <1>1 DEF TypeOK
<1>3. \A v \in Runners : batch'[v] \subseteq batch[v] /\ (v # w => batch'[v] = batch[v])
  BY <1>1 DEF TypeOK
<1>4. TypeOK'
  <2>1. batch' \in [Runners -> SUBSET Claim]
    BY <1>1, <1>3 DEF TypeOK
  <2>2. pc' \in [Runners -> {"idle", "claim", "run", "exec"}]
    BY <1>1 DEF TypeOK
  <2>3. \A v \in Runners : pc'[v] = "exec" => job'[v] \in batch'[v]
    BY <1>1, <1>2, <1>3 DEF TypeOK
  <2>. QED  BY <1>1, <2>1, <2>2, <2>3 DEF TypeOK
<1>5. \A k \in Keys : RowOK(k)'
  BY DEF IInv, RowOK
<1>6. \A v \in Runners : \A c \in batch'[v] : ClaimOK(c)'
  BY <1>3 DEF IInv, ClaimOK
<1>7. \A v \in Runners : ExecOK(v)'
  BY <1>2 DEF IInv, ExecOK
<1>. QED  BY <1>4, <1>5, <1>6, <1>7 DEF IInv

\* Starting a claimed row keeps the invariant.
LEMMA StartOK ==
    ASSUME IInv, NEW w \in Runners, NEW c \in batch[w], Start(w, c)
    PROVE  IInv'
<1>1. TypeOK /\ c \in Claim /\ c.key \in Keys /\ c.gen \in Nat
  BY ClaimTypes DEF IInv
<1>2. /\ pc' = [pc EXCEPT ![w] = "exec"] /\ job' = [job EXCEPT ![w] = c]
      /\ seen' = [seen EXCEPT ![w] = row[c.key].requested]
      /\ UNCHANGED <<row, current, batch, served>>
  BY DEF Start
<1>3. row[c.key].requested \in Nat
  BY <1>1, RowTypes
<1>4. TypeOK'
  <2>1. /\ pc' \in [Runners -> {"idle", "claim", "run", "exec"}]
        /\ job' \in [Runners -> Claim \cup {NoJob}] /\ seen' \in [Runners -> Nat]
    BY <1>1, <1>2, <1>3 DEF TypeOK
  <2>2. \A v \in Runners : pc'[v] = "exec" => job'[v] \in batch'[v]
    BY <1>1, <1>2 DEF TypeOK
  <2>. QED  BY <1>1, <1>2, <2>1, <2>2 DEF TypeOK
<1>5. \A k \in Keys : RowOK(k)'
  BY <1>2 DEF IInv, RowOK
<1>6. \A v \in Runners : \A b \in batch'[v] : ClaimOK(b)'
  BY <1>2 DEF IInv, ClaimOK
<1>7. ASSUME NEW v \in Runners PROVE ExecOK(v)'
  <2>1. CASE v = w
    <3>1. job'[v] = c /\ seen'[v] = row[c.key].requested
      BY <1>1, <1>2, <2>1 DEF TypeOK
    <3>2. row[c.key].token = c.token => c.gen <= row[c.key].requested
      BY <1>1 DEF IInv, ClaimOK
    <3>. QED  BY <1>2, <1>3, <3>1, <3>2 DEF ExecOK
  <2>2. CASE v # w
    <3>1. job'[v] = job[v] /\ seen'[v] = seen[v] /\ pc'[v] = pc[v]
      BY <1>1, <1>2, <2>2 DEF TypeOK
    <3>. QED  BY <1>2, <3>1 DEF IInv, ExecOK
  <2>. QED  BY <2>1, <2>2
<1>. QED  BY <1>4, <1>5, <1>6, <1>7 DEF IInv

----------------------------------------------------------------------------

\* The end of an execution keeps the invariant once its rows are in order and
\* it has handed out no token and no generation.
LEMMA FinishOK ==
    ASSUME IInv, NEW w \in Runners, pc[w] = "exec", Finish(w),
           row' \in [Keys -> WorkRow], served' \in [Keys -> Nat],
           \A k \in Keys : RowOK(k)',
           \A k \in Keys : /\ row'[k].requested = row[k].requested
                           /\ row'[k].token \in {row[k].token, Null}
    PROVE  IInv'
<1>1. TypeOK
  BY DEF IInv
<1>2. /\ batch' = [batch EXCEPT ![w] = batch[w] \ {job[w]}]
      /\ pc' = [pc EXCEPT ![w] = IF batch[w] = {job[w]} THEN "idle" ELSE "run"]
      /\ job' = [job EXCEPT ![w] = NoJob] /\ seen' = [seen EXCEPT ![w] = 0]
      /\ current' = current
  BY DEF Finish
<1>3. \A v \in Runners : pc'[v] = "exec" => v # w /\ pc[v] = "exec"
  BY <1>1, <1>2 DEF TypeOK
<1>4. \A v \in Runners : /\ batch'[v] \subseteq batch[v]
                         /\ v # w => /\ batch'[v] = batch[v]
                                     /\ job'[v] = job[v] /\ seen'[v] = seen[v]
  BY <1>1, <1>2 DEF TypeOK
<1>5. TypeOK'
  <2>1. batch' \in [Runners -> SUBSET Claim]
    BY <1>1, <1>2 DEF TypeOK
  <2>2. /\ pc' \in [Runners -> {"idle", "claim", "run", "exec"}]
        /\ job' \in [Runners -> Claim \cup {NoJob}] /\ seen' \in [Runners -> Nat]
    BY <1>1, <1>2 DEF TypeOK
  <2>3. \A v \in Runners : pc'[v] = "exec" => job'[v] \in batch'[v]
    BY <1>1, <1>3, <1>4 DEF TypeOK
  <2>. QED  BY <1>1, <1>2, <2>1, <2>2, <2>3 DEF TypeOK
<1>6. ASSUME NEW v \in Runners, NEW c \in batch'[v], NEW k \in Keys,
             row'[k].token = c.token
      PROVE  c.key = k /\ c.gen <= row'[k].requested
  <2>1. c \in batch[v] /\ c.token # Null
    BY <1>1, <1>4, ClaimTypes, QueueAssumption
  <2>2. row[k].token = c.token
    BY <1>6, <2>1
  <2>. QED  BY <2>1, <2>2 DEF IInv, ClaimOK
<1>7. ASSUME NEW v \in Runners, pc'[v] = "exec"
      PROVE  /\ seen'[v] <= row'[job'[v].key].requested
             /\ row'[job'[v].key].token = job'[v].token => job'[v].gen <= seen'[v]
  <2>1. v # w /\ pc[v] = "exec" /\ job'[v] = job[v] /\ seen'[v] = seen[v]
    BY <1>3, <1>4, <1>7
  <2>2. job[v].key \in Keys /\ job[v].token # Null
    BY <1>1, <2>1, ExecTypes, QueueAssumption
  <2>. QED  BY <2>1, <2>2 DEF IInv, ExecOK
<1>8. \A v \in Runners : \A c \in batch'[v] : ClaimOK(c)'
  BY <1>6 DEF ClaimOK
<1>9. \A v \in Runners : ExecOK(v)'
  BY <1>7 DEF ExecOK
<1>. QED  BY <1>5, <1>8, <1>9 DEF IInv

\* completeWork keeps the invariant: what it acknowledges was seen.
LEMMA CompleteOK ==
    ASSUME IInv, NEW w \in Runners, CompleteWork(w)
    PROVE  IInv'
<1>1. TypeOK /\ row \in [Keys -> WorkRow] /\ served \in [Keys -> Nat]
  BY DEF IInv, TypeOK
<1>0. PICK k \in Keys : k = job[w].key
  BY <1>1, ExecTypes DEF CompleteWork
<1>. DEFINE g == job[w].gen
            n == Later(g, row[k].completed)
            s == IF row[k].requested > g THEN "ready" ELSE "done"
            r == [row[k] EXCEPT !.completed = n, !.state = s, !.token = Null,
                                !.expired = FALSE]
<1>2. /\ pc[w] = "exec" /\ Finish(w)
      /\ served' = [served EXCEPT ![k] = Later(seen[w], served[k])]
      /\ row' = IF Holds(w) THEN [row EXCEPT ![k] = r] ELSE row
  BY <1>0, <1>1 DEF CompleteWork
<1>3. k \in Keys /\ g \in Nat /\ seen[w] \in Nat
  BY <1>1, <1>2, ExecTypes
<1>4. /\ row[k] \in WorkRow /\ row[k].requested \in Nat /\ row[k].completed \in Nat
      /\ served[k] \in Nat
  BY <1>1, <1>3, RowTypes
<1>5. n \in Nat /\ s \in States
  BY <1>3, <1>4 DEF Later, States
<1>. HIDE DEF n, s
<1>6. r \in WorkRow
  BY <1>4, <1>5 DEF WorkRow
<1>7. /\ r.completed = n /\ r.state = s /\ r.token = Null
      /\ r.requested = row[k].requested
  BY <1>4 DEF WorkRow
<1>8. /\ seen[w] <= row[k].requested
      /\ Holds(w) => g <= seen[w]
  BY <1>0, <1>2 DEF IInv, ExecOK, Holds
<1>9. RowOK(k)
  BY <1>3 DEF IInv
<1>10. current' = current
  BY <1>2 DEF Finish
<1>. HIDE DEF r
<1>11. row' \in [Keys -> WorkRow] /\ served' \in [Keys -> Nat]
  BY <1>1, <1>2, <1>3, <1>4, <1>6 DEF Later
<1>12. ASSUME NEW l \in Keys, l # k PROVE RowOK(l)' /\ row'[l] = row[l]
  BY <1>1, <1>2, <1>10, <1>12 DEF IInv, RowOK
<1>13. served'[k] = Later(seen[w], served[k])
  BY <1>1, <1>2, <1>3
<1>14. CASE Holds(w)
  <2>1. row'[k] = r
    BY <1>1, <1>2, <1>3, <1>14
  <2>2. RowOK(k)'
    BY <1>3, <1>4, <1>7, <1>8, <1>9, <1>10, <1>13, <1>14, <2>1
       DEF RowOK, Later, n, s
  <2>. QED  BY <1>2, <1>4, <1>7, <1>11, <1>12, <2>1, <2>2, FinishOK
<1>15. CASE ~ Holds(w)
  <2>1. row' = row
    BY <1>2, <1>15
  <2>2. RowOK(k)'
    BY <1>3, <1>4, <1>8, <1>9, <1>10, <1>13, <2>1 DEF RowOK, Later
  <2>. QED  BY <1>2, <1>11, <1>12, <2>1, <2>2, FinishOK
<1>. QED  BY <1>14, <1>15

\* releaseWork keeps the invariant for each state it is called with.
LEMMA ReleaseOK ==
    ASSUME IInv, NEW w \in Runners, NEW s \in States, NEW reset \in BOOLEAN,
           ReleaseWork(w, s, reset),
           s \in {"retry", "ready", "obsolete", "parked"},
           s = "parked" => job[w].key \in DocKeys,
           s = "obsolete" => ~ current
    PROVE  IInv'
<1>1. TypeOK /\ row \in [Keys -> WorkRow] /\ served \in [Keys -> Nat]
  BY DEF IInv, TypeOK
<1>0. PICK k \in Keys : k = job[w].key
  BY <1>1, ExecTypes DEF ReleaseWork
<1>. DEFINE a == IF reset THEN 0 ELSE row[k].attempts
            r == [row[k] EXCEPT !.state = s, !.token = Null, !.expired = FALSE,
                                !.attempts = a]
<1>2. /\ pc[w] = "exec" /\ Finish(w) /\ served' = served
      /\ row' = IF Holds(w) THEN [row EXCEPT ![k] = r] ELSE row
  BY <1>0, <1>1 DEF ReleaseWork
<1>3. k \in Keys
  BY <1>1, <1>2, ExecTypes
<1>4. row[k] \in WorkRow /\ a \in 0..MaxRetries
  BY <1>1, <1>3, RowTypes, QueueAssumption
<1>. HIDE DEF a
<1>5. r \in WorkRow
  BY <1>4, RowUpdate
<1>6. /\ r.completed = row[k].completed /\ r.state = s /\ r.token = Null
      /\ r.requested = row[k].requested
  BY <1>4 DEF WorkRow
<1>7. current' = current
  BY <1>2 DEF Finish
<1>. HIDE DEF r
<1>8. row' \in [Keys -> WorkRow]
  BY <1>1, <1>2, <1>3, <1>5
<1>9. ASSUME NEW l \in Keys, l # k PROVE RowOK(l)' /\ row'[l] = row[l]
  BY <1>1, <1>2, <1>7, <1>9 DEF IInv, RowOK
<1>10. RowOK(k)
  BY <1>3 DEF IInv
<1>11. CASE Holds(w)
  <2>1. row'[k] = r
    BY <1>1, <1>2, <1>3, <1>11
  <2>2. RowOK(k)'
    BY <1>0, <1>2, <1>6, <1>7, <1>10, <2>1 DEF RowOK
  <2>. QED  BY <1>1, <1>2, <1>6, <1>8, <1>9, <2>1, <2>2, FinishOK
<1>12. CASE ~ Holds(w)
  <2>1. row' = row
    BY <1>2, <1>12
  <2>2. RowOK(k)'
    BY <1>2, <1>7, <1>10, <2>1 DEF RowOK
  <2>. QED  BY <1>1, <1>2, <1>8, <1>9, <2>1, <2>2, FinishOK
<1>. QED  BY <1>11, <1>12

\* Every way runOne can end keeps the invariant.
LEMMA ExecutedOK ==
    ASSUME IInv, NEW w \in Runners, Executed(w)
    PROVE  IInv'
<1>1. CASE CompleteWork(w)
  BY <1>1, CompleteOK
<1>2. CASE Retry(w)
  BY <1>2, ReleaseOK DEF Retry, States
<1>3. CASE AwaitEvidence(w)
  BY <1>3, ReleaseOK DEF AwaitEvidence, States
<1>4. CASE Defer(w)
  BY <1>4, ReleaseOK DEF Defer, States
<1>5. CASE Obsolete(w)
  BY <1>5, ReleaseOK DEF Obsolete, States
<1>6. CASE Park(w)
  BY <1>6, ReleaseOK DEF Park, States
<1>. QED  BY <1>1, <1>2, <1>3, <1>4, <1>5, <1>6 DEF Executed

\* Every step keeps the invariant.
LEMMA StepOK == IInv /\ [Next]_vars => IInv'
<1>. SUFFICES ASSUME IInv, [Next]_vars PROVE IInv'
  OBVIOUS
<1>1. CASE EpochMoves
  BY <1>1, EpochOK
<1>2. ASSUME NEW k \in Keys, QueueStep(k) PROVE IInv'
  <2>1. CASE RequestWork(k)
    BY <2>1, RequestOK
  <2>2. CASE CleanupDoneWork(k)
    BY <2>2, CleanupOK
  <2>3. CASE LeaseExpires(k)
    BY <2>3, ExpiryOK DEF LeaseExpires
  <2>. QED  BY <1>2, <2>1, <2>2, <2>3 DEF QueueStep
<1>3. ASSUME NEW w \in Runners, RunnerStep(w) PROVE IInv'
  <2>1. CASE ReclaimExpiredLeases(w)
    BY <2>1, ReclaimOK
  <2>2. CASE Claims(w)
    BY <2>2, ClaimDueOK DEF Claims
  <2>3. CASE ClaimNothing(w)
    <3>1. batch' = [batch EXCEPT ![w] = batch[w]]
      BY <2>3 DEF ClaimNothing, IInv, TypeOK
    <3>. QED  BY <2>3, <3>1, LeavesOK DEF ClaimNothing, IInv, TypeOK
  <2>4. CASE \E c \in batch[w] : Start(w, c)
    BY <2>4, StartOK
  <2>5. CASE HeartbeatWork(w)
    BY <2>5, ExpiryOK, ExecTypes DEF HeartbeatWork, IInv
  <2>6. CASE Executed(w)
    BY <2>6, ExecutedOK
  <2>7. CASE Crash(w)
    <3>1. /\ job' \in [Runners -> Claim \cup {NoJob}] /\ seen' \in [Runners -> Nat]
          /\ \A v \in Runners : v # w => job'[v] = job[v] /\ seen'[v] = seen[v]
      BY <2>7 DEF Crash, IInv, TypeOK
    <3>. QED  BY <2>7, <3>1, LeavesOK DEF Crash
  <2>. QED  BY <1>3, <2>1, <2>2, <2>3, <2>4, <2>5, <2>6, <2>7 DEF RunnerStep
<1>4. CASE UNCHANGED vars
  BY <1>4 DEF vars, IInv, TypeOK, RowOK, ClaimOK, ExecOK
<1>. QED  BY <1>1, <1>2, <1>3, <1>4 DEF Next

----------------------------------------------------------------------------

\* The inductive invariant holds in every state of every behaviour.
THEOREM Invariance == Spec => []IInv
BY InitOK, StepOK, PTL DEF Spec

\* The rows, the claims and the locals of the runners keep their types.
THEOREM TypeCorrect == Spec => []TypeOK
BY Invariance, PTL DEF IInv

\* completeWork never reports a generation, and a row is never done, before an
\* execution that started after the request succeeded.
THEOREM AcknowledgedWorkIsServed == Spec => []CompletedIsServed
<1>1. IInv => CompletedIsServed
  BY DEF IInv, RowOK, CompletedIsServed
<1>. QED  BY <1>1, Invariance, PTL

\* A request that nobody served is waiting or running, unless its epoch is
\* past or its document is parked.
THEOREM OwedWorkIsScheduled == Spec => []OwedIsScheduled
<1>1. IInv => OwedIsScheduled
  <2>. SUFFICES ASSUME IInv, NEW k \in Keys, row[k].requested > served[k]
                PROVE  \/ row[k].state \in {"ready", "retry", "leased"}
                       \/ row[k].state = "parked" /\ k \in DocKeys
                       \/ row[k].state = "obsolete" /\ ~ current
    BY DEF OwedIsScheduled
  <2>1. /\ row[k].state \in States /\ row[k].requested \in Nat /\ served[k] \in Nat
        /\ RowOK(k)
    BY RowTypes DEF IInv
  <2>. QED  BY <2>1 DEF RowOK, States
<1>. QED  BY <1>1, Invariance, PTL

\* Nobody but its holder ends a lease in its time.
THEOREM LeaseIsRespected == Spec => LeaseEndedByHolder
<1>. DEFINE Kept(k) ==
       /\ row[k].state = "leased" /\ ~ row[k].expired
       /\ row'[k].token # row[k].token
       => \E w \in Runners :
             pc[w] = "exec" /\ job[w].key = k /\ job[w].token = row[k].token
<1>1. ASSUME IInv, [Next]_vars, NEW k \in Keys PROVE Kept(k)
  <2>. SUFFICES ASSUME row[k].state = "leased", ~ row[k].expired,
                       row'[k].token # row[k].token
                PROVE  \E w \in Runners : pc[w] = "exec" /\ job[w].key = k
                                          /\ job[w].token = row[k].token
    OBVIOUS
  <2>1. TypeOK /\ row \in [Keys -> WorkRow] /\ row[k] \in WorkRow
    BY <1>1 DEF IInv, TypeOK
  <2>2. row' # row
    OBVIOUS
  <2>3. ~ EpochMoves /\ ~ UNCHANGED vars
    BY <2>2 DEF EpochMoves, vars
  <2>4. ASSUME NEW l \in Keys, QueueStep(l) PROVE FALSE
    <3>1. CASE RequestWork(l)
      BY <2>1, <3>1 DEF RequestWork, WorkRow
    <3>2. CASE CleanupDoneWork(l)
      BY <2>1, <3>2 DEF CleanupDoneWork
    <3>3. CASE LeaseExpires(l)
      BY <2>1, <3>3 DEF LeaseExpires, WorkRow
    <3>. QED  BY <2>4, <3>1, <3>2, <3>3 DEF QueueStep
  <2>5. ASSUME NEW w \in Runners, RunnerStep(w), ~ Executed(w) PROVE FALSE
    <3>1. CASE ReclaimExpiredLeases(w)
      BY <3>1 DEF ReclaimExpiredLeases
    <3>2. CASE Claims(w)
      BY <3>2 DEF Claims, ClaimDueWork, Due
    <3>3. CASE HeartbeatWork(w)
      BY <2>1, <3>3 DEF HeartbeatWork, WorkRow
    <3>. QED  BY <2>2, <2>5, <3>1, <3>2, <3>3 DEF RunnerStep, ClaimNothing, Start, Crash
  <2>6. ASSUME NEW w \in Runners, Executed(w)
        PROVE  pc[w] = "exec" /\ job[w].key = k /\ job[w].token = row[k].token
    <3>1. pc[w] = "exec"
      BY <2>6 DEF Executed
    <3>2. Holds(w) /\ \A l \in Keys : l # job[w].key => row'[l] = row[l]
      BY <2>1, <2>2, <2>6 DEF Executed, CompleteWork, Retry, AwaitEvidence, Defer,
         Obsolete, Park, ReleaseWork
    <3>. QED  BY <3>1, <3>2 DEF Holds
  <2>. QED  BY <1>1, <2>3, <2>4, <2>5, <2>6 DEF Next
<1>2. IInv /\ [Next]_vars => [\A k \in Keys : Kept(k)]_vars
  BY <1>1
<1>. QED  BY <1>2, Invariance, PTL DEF Spec, LeaseEndedByHolder

=============================================================================
