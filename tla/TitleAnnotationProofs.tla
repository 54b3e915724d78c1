----------------------- MODULE TitleAnnotationProofs -----------------------
(****************************************************************************)
(* Proofs about TitleAnnotation, for any histories, pull requests, runners, *)
(* limits, epochs and faults.                                               *)
(*                                                                          *)
(* A title gets no second prefix because a pass prepares a replacement only *)
(* of a title without one, and a replacement that is executed late puts     *)
(* there exactly what was prepared.  `done' was shown because both ways to  *)
(* it, a title that was read and one that was stored, leave the number in   *)
(* the history of the title.  What GitHub changed is held because a pass    *)
(* whose session lives has the lock, and the rows it listed are different   *)
(* ones.                                                                    *)
(*                                                                          *)
(* And about MergeTag, for any histories, executions, epochs, jobs and      *)
(* faults.  A row that says `done' has its tag because a tag that is right  *)
(* is never taken away: GitHub makes one only where there is none, and what *)
(* the runbook deletes is wrong.  So what an execution or a job saw is      *)
(* still true when it marks the row, unless the epoch has ended.            *)
(****************************************************************************)
EXTENDS TitleAnnotation, MergeTag, TLAPS

EpochSet == 1 .. MaxEpoch
Points == {"idle", "first", "read", "check", "post", "mark"}
Pairs == Nat \X Nat
Proc == [pc : Points, alive : BOOLEAN, event : Pairs, rows : Seq(Pairs), attempt : Nat, next : Seq(Nat),
         mark : States \cup {"patched", "permission"}]

Works(t) == proc[t].pc # "idle"

TypeInv ==
  /\ epoch \in EpochSet /\ (reassigning => epoch < MaxEpoch)
  /\ state \in [EpochSet -> Seq(States)]
  /\ \A e \in EpochSet : Len(state[e]) <= Len(History[e])
  /\ title \in [Prs -> Seq(Nat)] /\ shown \in [Prs -> SUBSET Nat]
  /\ flight \in SUBSET (Prs \X Seq(Nat)) /\ events \in SUBSET Pairs
  /\ lock \in Runners \cup {None}
  /\ proc \in [Runners -> Proc]

(* A pass has a row in hand, and all of its rows exist.                     *)
RowsInv ==
  \A t \in Runners : Works(t) =>
    proc[t].rows # <<>> /\ \A i \in DOMAIN proc[t].rows : proc[t].rows[i] \in Rows

(* No title has two prefixes, nor one that its history does not know; and   *)
(* no replacement under way would write two.                                *)
TitleInv ==
  /\ \A p \in Prs : Len(title[p]) <= 1 /\ (title[p] # <<>> => title[p][1] \in shown[p])
  /\ \A f \in flight : Len(f[2]) <= 1

(* What a pass has prepared is the number of its row alone, and a success   *)
(* it is about to record was seen.                                          *)
Prepared(t) == proc[t].pc \in {"check", "post"} => proc[t].next = <<Row(t)[2]>>
Seen(t) == proc[t].pc = "mark" /\ proc[t].mark \in {"done", "patched"} => Row(t)[2] \in shown[PrOf(Row(t))]
MarkInv == \A t \in Runners : Works(t) => Prepared(t) /\ Seen(t)

(* A pass whose session lives has the lock, and the rows before it, which   *)
(* are different ones, wait for no operator.                                *)
Held(t) ==
  /\ lock = t
  /\ \A i, j \in DOMAIN proc[t].rows : proc[t].rows[i] = proc[t].rows[j] => i = j
  /\ \A i \in DOMAIN proc[t].rows :
       i # 1 \/ proc[t].pc # "mark" => StateOf(proc[t].rows[i]) # "body_changed"
HeldInv == \A t \in Runners : Works(t) /\ proc[t].alive => Held(t)

(* The inductive invariant.                                                 *)
IInv == TypeInv /\ RowsInv /\ TitleInv /\ MarkInv /\ DoneWasShown /\ HeldInv

----------------------------------------------------------------------------
(* Rows and processes.                                                      *)

LEMMA IdleOK == Idle \in Proc /\ Idle.pc = "idle" /\ Idle.alive = TRUE
BY DEF Idle, Proc, Points, Pairs, Sweeping, States

LEMMA ProcOK ==
  ASSUME TypeInv, NEW t \in Runners
  PROVE  /\ proc[t] \in Proc /\ proc[t].rows \in Seq(Pairs) /\ proc[t].next \in Seq(Nat)
         /\ proc[t].alive \in BOOLEAN /\ proc[t].pc \in Points /\ proc[t].attempt \in Nat
         /\ proc[t].mark \in States \cup {"patched", "permission"}
BY DEF TypeInv, Proc

(* What a row is.                                                           *)
LEMMA RowOK ==
  ASSUME TypeInv, NEW r \in Rows
  PROVE  /\ r[1] \in EpochSet /\ r[2] \in DOMAIN state[r[1]] /\ r = <<r[1], r[2]>>
         /\ r[1] \in Nat /\ r[2] \in Nat /\ r \in Pairs
         /\ PrOf(r) \in Prs /\ StateOf(r) \in States
<1>1. DOMAIN state = EpochSet /\ \A e \in EpochSet : state[e] \in Seq(States) /\ Len(state[e]) <= Len(History[e])
  BY DEF TypeInv
<1>2. PICK e \in EpochSet : r \in {e} \X DOMAIN state[e]
  BY <1>1 DEF Rows
<1>3. r[1] = e /\ r[2] \in DOMAIN state[e] /\ r = <<r[1], r[2]>>
  BY <1>2
<1>4. e \in Nat /\ r[2] \in Nat /\ r[2] \in 1 .. Len(state[e])
  BY <1>1, <1>3, TitleAssumption DEF EpochSet
<1>5. History[e] \in Seq(Prs)
  BY TitleAssumption DEF EpochSet
<1>6. PrOf(r) \in Prs
  <2>1. r[2] \in 1 .. Len(History[e])
    BY <1>1, <1>4, <1>5
  <2>. QED  BY <1>3, <1>5, <2>1 DEF PrOf
<1>7. StateOf(r) \in States
  BY <1>1, <1>3, <1>4 DEF StateOf
<1>. QED  BY <1>2, <1>3, <1>4, <1>6, <1>7 DEF Pairs

(* The row in hand.                                                         *)
LEMMA InHand ==
  ASSUME TypeInv, RowsInv, NEW t \in Runners, Works(t)
  PROVE  Row(t) \in Rows /\ 1 \in DOMAIN proc[t].rows /\ Len(proc[t].rows) \in Nat \ {0}
<1>1. proc[t].rows \in Seq(Pairs) /\ proc[t].rows # <<>>
  BY ProcOK DEF RowsInv
<1>2. 1 \in DOMAIN proc[t].rows /\ Len(proc[t].rows) \in Nat \ {0}
  BY <1>1
<1>. QED  BY <1>2 DEF RowsInv, Row

----------------------------------------------------------------------------
(* What a step of a pass can come to: it ends, goes on with its row, has an *)
(* outcome to record, or takes the next row.                                *)
Apart(t) ==
  /\ proc' \in [Runners -> Proc] /\ \A u \in Runners \ {t} : proc'[u] = proc[u]
  /\ lock' \in Runners \cup {None} /\ events' \in SUBSET Pairs

Over(t) == proc'[t] = Idle /\ lock' = IF lock = t /\ proc[t].alive THEN None ELSE lock

Same(t) == lock' = lock /\ proc'[t].alive = proc[t].alive

On(t, pc) == Same(t) /\ proc'[t].pc = pc /\ proc'[t].rows = proc[t].rows /\ proc'[t].next = proc[t].next

Marking(t, s) == Same(t) /\ proc'[t].pc = "mark" /\ proc'[t].mark = s /\ proc'[t].rows = proc[t].rows

NextRow(t) ==
  /\ Same(t) /\ proc'[t].pc = "first"
  /\ Len(proc[t].rows) # 1 /\ proc'[t].rows = Tail(proc[t].rows)

LEMMA EndPassOK ==
  ASSUME TypeInv, NEW t \in Runners, NEW ack, EndPass(t, ack)
  PROVE  Apart(t) /\ Over(t)
<1>1. proc' = [proc EXCEPT ![t] = Idle] /\ lock' = IF lock = t /\ proc[t].alive THEN None ELSE lock
  BY DEF EndPass
<1>2. events' \in SUBSET Pairs
  BY DEF EndPass, TypeInv
<1>. QED  BY <1>1, <1>2, IdleOK DEF TypeInv, Apart, Over

LEMMA GoesOK ==
  ASSUME TypeInv, NEW t \in Runners, NEW pc \in Points, Goes(t, pc)
  PROVE  Apart(t) /\ On(t, pc)
<1>1. proc' = [proc EXCEPT ![t].pc = pc] /\ UNCHANGED <<lock, events>>
  BY DEF Goes
<1>2. proc[t] \in Proc
  BY ProcOK
<1>3. /\ proc' \in [Runners -> Proc] /\ \A u \in Runners \ {t} : proc'[u] = proc[u]
      /\ proc'[t].pc = pc /\ proc'[t].rows = proc[t].rows /\ proc'[t].next = proc[t].next
      /\ proc'[t].alive = proc[t].alive
  BY <1>1, <1>2 DEF TypeInv, Proc
<1>. QED  BY <1>1, <1>3 DEF TypeInv, Apart, On, Same

LEMMA MarksOK ==
  ASSUME TypeInv, NEW t \in Runners, NEW s \in States \cup {"patched", "permission"}, Marks(t, s)
  PROVE  Apart(t) /\ Marking(t, s)
<1>1. proc' = [proc EXCEPT ![t].pc = "mark", ![t].mark = s] /\ UNCHANGED <<lock, events>>
  BY DEF Marks
<1>2. proc[t] \in Proc
  BY ProcOK
<1>3. /\ proc' \in [Runners -> Proc] /\ \A u \in Runners \ {t} : proc'[u] = proc[u]
      /\ proc'[t].pc = "mark" /\ proc'[t].mark = s /\ proc'[t].rows = proc[t].rows
      /\ proc'[t].alive = proc[t].alive
  BY <1>1, <1>2 DEF TypeInv, Proc, Points
<1>. QED  BY <1>1, <1>3 DEF TypeInv, Apart, Marking, Same

LEMMA AdvanceOK ==
  ASSUME TypeInv, NEW t \in Runners, proc[t].rows # <<>>, Advance(t)
  PROVE  Apart(t) /\ (Over(t) \/ NextRow(t))
<1>1. CASE Len(proc[t].rows) = 1
  BY <1>1, EndPassOK DEF Advance
<1>2. CASE Len(proc[t].rows) # 1
  <2>1. /\ proc' = [proc EXCEPT ![t].pc = "first", ![t].rows = Tail(proc[t].rows), ![t].attempt = 1]
        /\ UNCHANGED <<lock, events>>
    BY <1>2 DEF Advance
  <2>2. proc[t] \in Proc /\ Tail(proc[t].rows) \in Seq(Pairs)
    BY ProcOK
  <2>3. /\ proc' \in [Runners -> Proc] /\ \A u \in Runners \ {t} : proc'[u] = proc[u]
        /\ proc'[t].pc = "first" /\ proc'[t].rows = Tail(proc[t].rows) /\ proc'[t].alive = proc[t].alive
    BY <2>1, <2>2 DEF TypeInv, Proc, Points
  <2>. QED  BY <1>2, <2>1, <2>3 DEF TypeInv, Apart, NextRow, Same
<1>. QED  BY <1>1, <1>2

LEMMA IsCurrentOK ==
  ASSUME TypeInv, NEW t \in Runners, proc[t].rows # <<>>, NEW pc \in Points, IsCurrent(t, pc)
  PROVE  Apart(t) /\ (Over(t) \/ On(t, pc) \/ NextRow(t))
BY EndPassOK, GoesOK, AdvanceOK DEF IsCurrent

LEMMA AgainOK ==
  ASSUME TypeInv, NEW t \in Runners, NEW s \in States, Again(t, s)
  PROVE  Apart(t) /\ (On(t, "first") \/ Marking(t, s))
<1>1. CASE /\ proc' = [proc EXCEPT ![t].pc = "first", ![t].attempt = proc[t].attempt + 1]
           /\ UNCHANGED <<lock, events>>
  <2>1. proc[t] \in Proc /\ proc[t].attempt + 1 \in Nat
    BY ProcOK
  <2>2. /\ proc' \in [Runners -> Proc] /\ \A u \in Runners \ {t} : proc'[u] = proc[u]
        /\ proc'[t].pc = "first" /\ proc'[t].rows = proc[t].rows /\ proc'[t].next = proc[t].next
        /\ proc'[t].alive = proc[t].alive
    BY <1>1, <2>1 DEF TypeInv, Proc, Points
  <2>. QED  BY <1>1, <2>2 DEF TypeInv, Apart, On, Same
<1>2. CASE Marks(t, s)
  BY <1>2, MarksOK
<1>. QED  BY <1>1, <1>2 DEF Again

LEMMA RefusedOK ==
  ASSUME TypeInv, NEW t \in Runners, Refused(t)
  PROVE  /\ Apart(t)
         /\ Over(t) \/ On(t, "first") \/ Marking(t, "failed") \/ Marking(t, "permission")
<1>1. "failed" \in States
  BY DEF States
<1>. QED  BY <1>1, AgainOK, MarksOK, EndPassOK DEF Refused

----------------------------------------------------------------------------
(* The invariant, for the other passes and for a pass that goes on.         *)

(* The rows after the one in hand.                                          *)
LEMMA TailOK ==
  ASSUME NEW rows \in Seq(Pairs), rows # <<>>, Len(rows) # 1
  PROVE  /\ Tail(rows) # <<>>
         /\ \A i \in DOMAIN Tail(rows) : i \in Nat /\ i + 1 \in DOMAIN rows /\ i + 1 # 1 /\ Tail(rows)[i] = rows[i + 1]
<1>1. Len(rows) \in Nat /\ DOMAIN rows = 1 .. Len(rows)
  OBVIOUS
<1>2. Len(rows) # 0
  OBVIOUS
<1>3. Len(rows) > 1
  BY <1>1, <1>2
<1>4. Tail(rows) \in Seq(Pairs) /\ Len(Tail(rows)) = Len(rows) - 1
  OBVIOUS
<1>5. DOMAIN Tail(rows) = 1 .. Len(rows) - 1
  BY <1>4
<1>6. \A i \in 1 .. Len(rows) - 1 : Tail(rows)[i] = rows[i + 1]
  BY <1>3
<1>7. Tail(rows) # <<>>
  <2>1. Len(Tail(rows)) # 0
    BY <1>1, <1>3, <1>4
  <2>2. Len(<<>>) = 0
    OBVIOUS
  <2>. QED  BY <2>1, <2>2, Zenon
<1>. QED  BY <1>1, <1>5, <1>6, <1>7

(* A pass that the step is not of: the rows stay, and none of them comes to *)
(* wait for an operator.                                                    *)
LEMMA OtherPass ==
  ASSUME IInv, NEW u \in Runners, Works(u)', proc'[u] = proc[u],
         Rows \subseteq Rows', \A p \in Prs : shown[p] \subseteq shown'[p],
         lock = u => /\ lock' = u
                     /\ \A r \in Rows : StateOf(r)' = "body_changed" => StateOf(r) = "body_changed"
  PROVE  /\ proc'[u].rows # <<>> /\ \A i \in DOMAIN proc'[u].rows : proc'[u].rows[i] \in Rows'
         /\ Prepared(u)' /\ Seen(u)' /\ (proc'[u].alive => Held(u)')
<1>1. Works(u) /\ TypeInv /\ RowsInv
  BY DEF Works, IInv
<1>2. proc[u].rows # <<>> /\ \A i \in DOMAIN proc[u].rows : proc[u].rows[i] \in Rows
  BY <1>1 DEF RowsInv
<1>3. Row(u)' = Row(u) /\ Row(u) \in Rows
  BY <1>1, InHand DEF Row
<1>4. PrOf(Row(u)') = PrOf(Row(u)) /\ PrOf(Row(u)) \in Prs
  BY <1>1, <1>3, RowOK
<1>5. Prepared(u) /\ Seen(u)
  BY <1>1 DEF IInv, MarkInv
<1>6. Prepared(u)'
  BY <1>3, <1>5 DEF Prepared
<1>7. Seen(u)'
  <2>. SUFFICES ASSUME proc[u].pc = "mark", proc[u].mark \in {"done", "patched"}
                PROVE  Row(u)[2] \in shown'[PrOf(Row(u))]
    BY <1>3, <1>4 DEF Seen, PrOf
  <2>. QED  BY <1>4, <1>5 DEF Seen
<1>8. ASSUME proc'[u].alive PROVE Held(u)'
  <2>1. Held(u) /\ lock = u
    BY <1>1, <1>8 DEF IInv, HeldInv, Held
  <2>. QED  BY <1>2, <2>1 DEF Held
<1>. QED  BY <1>2, <1>6, <1>7, <1>8

(* Together: the other passes, and the one that made the step.              *)
LEMMA Together ==
  ASSUME IInv, TypeInv', TitleInv', DoneWasShown', NEW t \in Runners,
         \A u \in Runners \ {t} : proc'[u] = proc[u],
         Rows \subseteq Rows', \A p \in Prs : shown[p] \subseteq shown'[p],
         \A u \in Runners \ {t} : lock = u =>
            /\ lock' = u
            /\ \A r \in Rows : StateOf(r)' = "body_changed" => StateOf(r) = "body_changed",
         Works(t)' =>
           /\ proc'[t].rows # <<>> /\ \A i \in DOMAIN proc'[t].rows : proc'[t].rows[i] \in Rows'
           /\ Prepared(t)' /\ Seen(t)' /\ (proc'[t].alive => Held(t)')
  PROVE  IInv'
<1>1. ASSUME NEW u \in Runners, Works(u)'
      PROVE  /\ proc'[u].rows # <<>> /\ \A i \in DOMAIN proc'[u].rows : proc'[u].rows[i] \in Rows'
             /\ Prepared(u)' /\ Seen(u)' /\ (proc'[u].alive => Held(u)')
  <2>1. CASE u = t
    BY <1>1, <2>1
  <2>2. CASE u # t
    BY <1>1, <2>2, OtherPass
  <2>. QED  BY <2>1, <2>2
<1>. QED  BY <1>1 DEF IInv, RowsInv, MarkInv, HeldInv

(* Success stays shown when no row becomes `done'.                          *)
LEMMA DoneKept ==
  ASSUME IInv, TypeInv', \A p \in Prs : shown[p] \subseteq shown'[p],
         \A r \in Rows' : StateOf(r)' = "done" => r \in Rows /\ StateOf(r) = "done"
  PROVE  DoneWasShown'
<1>. SUFFICES ASSUME NEW r \in Rows', StateOf(r)' = "done"
              PROVE  r[2] \in shown'[PrOf(r)]
  BY DEF DoneWasShown, PrOf
<1>1. r \in Rows /\ StateOf(r) = "done"
  OBVIOUS
<1>2. PrOf(r) \in Prs /\ r[2] \in shown[PrOf(r)]
  BY <1>1, RowOK DEF IInv, DoneWasShown
<1>. QED  BY <1>2

(* A step of a pass that records nothing.                                   *)
LEMMA PassStep ==
  ASSUME IInv, NEW t \in Runners, Works(t), TypeInv', TitleInv', Apart(t), state' = state,
         \A p \in Prs : shown[p] \subseteq shown'[p],
         \/ Over(t)
         \/ NextRow(t) /\ proc[t].pc # "mark"
         \/ /\ Same(t) /\ proc'[t].rows = proc[t].rows /\ proc[t].pc # "mark"
            /\ Prepared(t)' /\ Seen(t)'
  PROVE  IInv'
<1>1. Rows' = Rows /\ \A r : StateOf(r)' = StateOf(r)
  BY DEF Rows, StateOf
<1>2. DoneWasShown'
  BY <1>1, DoneKept
<1>3. TypeInv /\ RowsInv /\ proc[t].rows \in Seq(Pairs) /\ proc[t].rows # <<>>
      /\ \A i \in DOMAIN proc[t].rows : proc[t].rows[i] \in Rows
  BY ProcOK DEF IInv, RowsInv
<1>4. \A u \in Runners \ {t} : lock = u => lock' = u
  BY DEF Over, NextRow, Same
<1>5. CASE Over(t)
  <2>1. ~Works(t)'
    BY <1>5, IdleOK DEF Over, Works
  <2>. QED  BY <1>1, <1>2, <1>4, <2>1, Together DEF Apart
<1>6. CASE NextRow(t) /\ proc[t].pc # "mark"
  <2>1. /\ proc'[t].rows = Tail(proc[t].rows) /\ proc'[t].pc = "first" /\ Tail(proc[t].rows) # <<>>
        /\ \A i \in DOMAIN Tail(proc[t].rows) :
             /\ i \in Nat /\ i + 1 \in DOMAIN proc[t].rows /\ i + 1 # 1
             /\ Tail(proc[t].rows)[i] = proc[t].rows[i + 1]
    BY <1>3, <1>6, TailOK DEF NextRow
  <2>2. Prepared(t)' /\ Seen(t)'
    BY <2>1 DEF Prepared, Seen
  <2>3. ASSUME proc'[t].alive PROVE Held(t)'
    <3>1. Held(t) /\ lock' = t
      BY <1>6, <2>3 DEF NextRow, Same, IInv, HeldInv, Held
    <3>2. \A i, j \in DOMAIN Tail(proc[t].rows) : Tail(proc[t].rows)[i] = Tail(proc[t].rows)[j] => i = j
      BY <2>1, <3>1 DEF Held
    <3>3. \A i \in DOMAIN Tail(proc[t].rows) : StateOf(Tail(proc[t].rows)[i]) # "body_changed"
      BY <2>1, <3>1 DEF Held
    <3>. QED  BY <1>1, <2>1, <3>1, <3>2, <3>3 DEF Held
  <2>4. \A i \in DOMAIN Tail(proc[t].rows) : Tail(proc[t].rows)[i] \in Rows
    BY <1>3, <2>1
  <2>. QED  BY <1>1, <1>2, <1>4, <2>1, <2>2, <2>3, <2>4, Together DEF Apart
<1>7. CASE /\ Same(t) /\ proc'[t].rows = proc[t].rows /\ proc[t].pc # "mark"
           /\ Prepared(t)' /\ Seen(t)'
  <2>1. ASSUME proc'[t].alive PROVE Held(t)'
    <3>1. Held(t) /\ lock' = t
      BY <1>7, <2>1 DEF Same, IInv, HeldInv, Held
    <3>. QED  BY <1>1, <1>7, <3>1 DEF Held
  <2>. QED  BY <1>1, <1>2, <1>3, <1>4, <1>7, <2>1, Together DEF Apart
<1>. QED  BY <1>5, <1>6, <1>7

(* A step that no pass makes.                                               *)
LEMMA OutsideStep ==
  ASSUME IInv, TypeInv', TitleInv', UNCHANGED <<proc, lock>>, Rows \subseteq Rows',
         \A p \in Prs : shown[p] \subseteq shown'[p],
         \A r \in Rows' : StateOf(r)' \in {"done", "body_changed"} => r \in Rows /\ StateOf(r)' = StateOf(r)
  PROVE  IInv'
<1>1. DoneWasShown'
  BY DoneKept
<1>2. \A r \in Rows : StateOf(r)' = "body_changed" => StateOf(r) = "body_changed"
  OBVIOUS
<1>3. ASSUME NEW u \in Runners, Works(u)'
      PROVE  /\ proc'[u].rows # <<>> /\ \A i \in DOMAIN proc'[u].rows : proc'[u].rows[i] \in Rows'
             /\ Prepared(u)' /\ Seen(u)' /\ (proc'[u].alive => Held(u)')
  BY <1>2, <1>3, OtherPass
<1>. QED  BY <1>1, <1>3 DEF IInv, RowsInv, MarkInv, HeldInv

----------------------------------------------------------------------------
(* The steps outside of a pass.                                             *)

(* A title is replaced by one with at most one prefix.                      *)
LEMMA RetitledOK ==
  ASSUME TypeInv, TitleInv, NEW p \in Prs, NEW x \in Seq(Nat), Len(x) <= 1, Retitled(p, x)
  PROVE  /\ title' \in [Prs -> Seq(Nat)] /\ shown' \in [Prs -> SUBSET Nat]
         /\ \A q \in Prs : /\ shown[q] \subseteq shown'[q] /\ Len(title'[q]) <= 1
                           /\ title'[q] # <<>> => title'[q][1] \in shown'[q]
         /\ x # <<>> => x[1] \in shown'[p]
<1>. DEFINE first == IF x = <<>> THEN {} ELSE {x[1]}
<1>1. title' = [title EXCEPT ![p] = x] /\ shown' = [shown EXCEPT ![p] = shown[p] \cup first]
  BY DEF Retitled
<1>2. first \in SUBSET Nat /\ (x # <<>> => x[1] \in first)
  <2>1. CASE x = <<>>
    BY <2>1
  <2>2. CASE x # <<>>
    <3>1. x[1] \in Nat
      BY <2>2
    <3>. QED  BY <2>2, <3>1
  <2>. QED  BY <2>1, <2>2
<1>. HIDE DEF first
<1>3. title \in [Prs -> Seq(Nat)] /\ shown \in [Prs -> SUBSET Nat]
  BY DEF TypeInv
<1>4. /\ title' \in [Prs -> Seq(Nat)] /\ title'[p] = x /\ \A q \in Prs \ {p} : title'[q] = title[q]
      /\ shown' \in [Prs -> SUBSET Nat] /\ shown'[p] = shown[p] \cup first
      /\ \A q \in Prs \ {p} : shown'[q] = shown[q]
  BY <1>1, <1>2, <1>3
<1>5. ASSUME NEW q \in Prs
      PROVE  /\ shown[q] \subseteq shown'[q] /\ Len(title'[q]) <= 1
             /\ title'[q] # <<>> => title'[q][1] \in shown'[q]
  <2>1. CASE q = p
    BY <1>2, <1>4, <2>1
  <2>2. CASE q # p
    BY <1>4, <2>2 DEF TitleInv
  <2>. QED  BY <2>1, <2>2
<1>. QED  BY <1>2, <1>4, <1>5

(* A step that leaves rows, titles and requests alone.                      *)
LEMMA PlainStep ==
  ASSUME IInv, TypeInv', UNCHANGED <<state, title, shown, flight, proc, lock>>
  PROVE  IInv'
<1>1. Rows' = Rows /\ \A r : StateOf(r)' = StateOf(r)
  BY DEF Rows, StateOf
<1>2. TitleInv'
  BY DEF IInv, TitleInv
<1>. QED  BY <1>1, <1>2, OutsideStep

LEMMA SettingsStep ==
  ASSUME IInv, MarkReassigning \/ Reassign \/ Switch \/ CoolDown \/ Skip \/ UNCHANGED vars
  PROVE  IInv'
<1>1. UNCHANGED <<state, title, shown, flight, proc, lock>>
  BY DEF MarkReassigning, Reassign, Switch, CoolDown, Skip, vars
<1>2. epoch' \in EpochSet /\ (reassigning' => epoch' < MaxEpoch) /\ events' \in SUBSET Pairs
  <2>0. TypeInv /\ MaxEpoch \in Nat
    BY TitleAssumption DEF IInv
  <2>1. CASE MarkReassigning
    BY <2>0, <2>1 DEF MarkReassigning, TypeInv
  <2>2. CASE Reassign
    BY <2>0, <2>2 DEF Reassign, TypeInv, EpochSet
  <2>3. CASE Switch \/ CoolDown \/ UNCHANGED vars
    BY <2>0, <2>3 DEF Switch, CoolDown, vars, TypeInv
  <2>4. CASE Skip
    BY <2>0, <2>4 DEF Skip, TypeInv
  <2>. QED  BY <2>1, <2>2, <2>3, <2>4
<1>3. TypeInv'
  BY <1>1, <1>2 DEF IInv, TypeInv
<1>. QED  BY <1>1, <1>3, PlainStep

(* A number is given: a row is added.                                       *)
LEMMA AssignStep ==
  ASSUME IInv, Assign
  PROVE  IInv'
<1>1. PICK n : n = Len(state[epoch]) + 1
  OBVIOUS
<1>2. /\ TypeInv /\ epoch \in EpochSet /\ epoch \in Nat /\ state \in [EpochSet -> Seq(States)]
      /\ state[epoch] \in Seq(States) /\ n \in Nat /\ "null" \in States
  BY <1>1, TitleAssumption DEF IInv, TypeInv, EpochSet, States
<1>. DEFINE new == state[epoch] \o <<"null">>
<1>3. /\ state' = [state EXCEPT ![epoch] = new] /\ n <= Len(History[epoch])
      /\ events' = events \cup {<<epoch, n>>}
      /\ UNCHANGED <<epoch, reassigning, title, shown, flight, lock, proc>>
  BY <1>1 DEF Assign
<1>4. /\ new \in Seq(States) /\ Len(new) = n /\ DOMAIN new = DOMAIN state[epoch] \cup {n}
      /\ new[n] = "null" /\ \A k \in DOMAIN state[epoch] : new[k] = state[epoch][k]
  BY <1>1, <1>2
<1>. HIDE DEF new
<1>5. /\ state' \in [EpochSet -> Seq(States)] /\ state'[epoch] = new
      /\ \A e \in EpochSet \ {epoch} : state'[e] = state[e]
      /\ DOMAIN state' = EpochSet /\ DOMAIN state = EpochSet
  BY <1>2, <1>3, <1>4
<1>6. events' \in SUBSET Pairs
  BY <1>2, <1>3 DEF TypeInv, Pairs
<1>7. TypeInv'
  BY <1>2, <1>3, <1>4, <1>5, <1>6 DEF TypeInv
<1>8. Rows \subseteq Rows'
  BY <1>4, <1>5 DEF Rows
<1>9. ASSUME NEW r \in Rows', StateOf(r)' \in {"done", "body_changed"}
      PROVE  r \in Rows /\ StateOf(r)' = StateOf(r)
  <2>1. PICK e \in EpochSet : r \in {e} \X DOMAIN state'[e]
    BY <1>5 DEF Rows
  <2>2. r[1] = e /\ r[2] \in DOMAIN state'[e] /\ r = <<e, r[2]>>
    BY <2>1
  <2>3. CASE e = epoch
    <3>1. state'[e] = new
      BY <1>5, <2>3
    <3>2. r[2] \in DOMAIN state[e]
      BY <1>4, <1>9, <2>2, <2>3, <3>1 DEF StateOf
    <3>. QED  BY <1>4, <1>5, <2>2, <2>3, <3>1, <3>2 DEF Rows, StateOf
  <2>4. CASE e # epoch
    BY <1>5, <2>1, <2>2, <2>4 DEF Rows, StateOf
  <2>. QED  BY <2>3, <2>4
<1>10. TitleInv' /\ \A p \in Prs : shown[p] \subseteq shown'[p]
  BY <1>3 DEF IInv, TitleInv
<1>. QED  BY <1>3, <1>7, <1>8, <1>9, <1>10, OutsideStep

(* The states of rows change, and neither to `done' nor to `body_changed'.  *)
LEMMA RowsStep ==
  ASSUME IInv, state' \in [EpochSet -> Seq(States)],
         UNCHANGED <<epoch, reassigning, title, shown, flight, events, lock, proc>>,
         \A e \in EpochSet : /\ DOMAIN state'[e] = DOMAIN state[e] /\ Len(state'[e]) = Len(state[e])
                             /\ \A n \in DOMAIN state[e] : state'[e][n] \in {state[e][n], "null", "disabled"}
  PROVE  IInv'
<1>1. TypeInv'
  BY DEF IInv, TypeInv
<1>2. DOMAIN state = EpochSet /\ DOMAIN state' = EpochSet
  BY DEF IInv, TypeInv
<1>3. Rows' = Rows
  BY <1>2 DEF Rows
<1>4. ASSUME NEW r \in Rows', StateOf(r)' \in {"done", "body_changed"}
      PROVE  r \in Rows /\ StateOf(r)' = StateOf(r)
  <2>1. r[1] \in EpochSet /\ r[2] \in DOMAIN state[r[1]] /\ r \in Rows
    BY <1>3, RowOK DEF IInv
  <2>. QED  BY <1>4, <2>1 DEF StateOf
<1>5. TitleInv' /\ \A p \in Prs : shown[p] \subseteq shown'[p]
  BY DEF IInv, TitleInv
<1>. QED  BY <1>1, <1>3, <1>4, <1>5, OutsideStep

LEMMA OperatorStep ==
  ASSUME IInv, Resume \/ MarkDisabled
  PROVE  IInv'
<1>1. TypeInv /\ state \in [EpochSet -> Seq(States)] /\ {"null", "disabled"} \subseteq States /\ epoch \in EpochSet
  BY DEF IInv, TypeInv, States
<1>2. \A e \in EpochSet : /\ Len(state[e]) \in Nat /\ DOMAIN state[e] = 1 .. Len(state[e])
                          /\ \A n \in DOMAIN state[e] : state[e][n] \in States
  BY <1>1
<1>3. ASSUME NEW e \in EpochSet, NEW f, f \in [DOMAIN state[e] -> States]
      PROVE  f \in Seq(States) /\ Len(f) = Len(state[e]) /\ DOMAIN f = DOMAIN state[e]
  BY <1>2, <1>3
<1>4. CASE Resume
  <2>. DEFINE waiting == {r \in Rows : StateOf(r) = "body_changed"}
              new(e) == [n \in DOMAIN state[e] |-> IF <<e, n>> \in waiting THEN "null" ELSE state[e][n]]
  <2>1. state' = [e \in EpochSet |-> new(e)] /\ UNCHANGED <<epoch, reassigning, title, shown, flight, events, lock, proc>>
    BY <1>1, <1>4 DEF Resume
  <2>. HIDE DEF waiting
  <2>2. ASSUME NEW e \in EpochSet
        PROVE  new(e) \in [DOMAIN state[e] -> States] /\ \A n \in DOMAIN state[e] : new(e)[n] \in {state[e][n], "null", "disabled"}
    BY <1>1, <1>2
  <2>. HIDE DEF new
  <2>3. \A e \in EpochSet : new(e) \in Seq(States) /\ Len(new(e)) = Len(state[e]) /\ DOMAIN new(e) = DOMAIN state[e]
    BY <1>3, <2>2
  <2>4. state' \in [EpochSet -> Seq(States)] /\ \A e \in EpochSet : state'[e] = new(e)
    BY <2>1, <2>3
  <2>. QED  BY <2>1, <2>2, <2>3, <2>4, RowsStep
<1>5. CASE MarkDisabled
  <2>. DEFINE new == [n \in DOMAIN state[epoch] |-> IF state[epoch][n] \in {"null", "failed"} THEN "disabled" ELSE state[epoch][n]]
  <2>1. state' = [state EXCEPT ![epoch] = new] /\ UNCHANGED <<epoch, reassigning, title, shown, flight, events, lock, proc>>
    BY <1>5 DEF MarkDisabled
  <2>2. new \in [DOMAIN state[epoch] -> States] /\ \A n \in DOMAIN state[epoch] : new[n] \in {state[epoch][n], "null", "disabled"}
    BY <1>1, <1>2
  <2>. HIDE DEF new
  <2>3. new \in Seq(States) /\ Len(new) = Len(state[epoch]) /\ DOMAIN new = DOMAIN state[epoch]
    BY <1>1, <1>3, <2>2
  <2>4. /\ state' \in [EpochSet -> Seq(States)] /\ state'[epoch] = new
        /\ \A e \in EpochSet \ {epoch} : state'[e] = state[e]
    BY <1>1, <2>1, <2>3
  <2>5. ASSUME NEW e \in EpochSet
        PROVE  /\ DOMAIN state'[e] = DOMAIN state[e] /\ Len(state'[e]) = Len(state[e])
               /\ \A n \in DOMAIN state[e] : state'[e][n] \in {state[e][n], "null", "disabled"}
    <3>1. CASE e = epoch
      BY <2>2, <2>3, <2>4, <3>1
    <3>2. CASE e # epoch
      BY <2>4, <3>2
    <3>. QED  BY <3>1, <3>2
  <2>. QED  BY <2>1, <2>4, <2>5, RowsStep
<1>. QED  BY <1>4, <1>5

(* A title is edited, or replaced by a late request.                        *)
LEMMA GithubStep ==
  ASSUME IInv, (\E p \in Prs : Edit(p)) \/ Land
  PROVE  IInv'
<1>1. /\ TypeInv /\ TitleInv /\ UNCHANGED <<epoch, reassigning, state, events, lock, proc>>
      /\ flight' \in SUBSET flight
  BY DEF IInv, Edit, Land
<1>2. /\ title' \in [Prs -> Seq(Nat)] /\ shown' \in [Prs -> SUBSET Nat]
      /\ \A q \in Prs : /\ shown[q] \subseteq shown'[q] /\ Len(title'[q]) <= 1
                        /\ title'[q] # <<>> => title'[q][1] \in shown'[q]
  <2>1. ASSUME NEW p \in Prs, Edit(p) PROVE <1>2!:
    <3>1. PICK x \in {<<>>, <<Foreign>>} : Retitled(p, x)
      BY <2>1 DEF Edit
    <3>2. x \in Seq(Nat) /\ Len(x) <= 1
      <4>1. CASE x = <<>>
        BY <4>1
      <4>2. CASE x = <<Foreign>>
        BY <4>2 DEF Foreign
      <4>. QED  BY <4>1, <4>2
    <3>. QED  BY <1>1, <3>1, <3>2, RetitledOK
  <2>2. ASSUME NEW f \in flight, Retitled(f[1], f[2]) PROVE <1>2!:
    <3>1. f[1] \in Prs /\ f[2] \in Seq(Nat) /\ Len(f[2]) <= 1
      BY <1>1 DEF TypeInv, TitleInv
    <3>. QED  BY <1>1, <2>2, <3>1, RetitledOK
  <2>3. CASE UNCHANGED <<title, shown>>
    BY <1>1, <2>3 DEF TypeInv, TitleInv
  <2>. QED  BY <2>1, <2>2, <2>3 DEF Land
<1>3. TypeInv'
  BY <1>1, <1>2 DEF TypeInv
<1>4. TitleInv'
  BY <1>1, <1>2 DEF TitleInv
<1>5. Rows' = Rows /\ \A r : StateOf(r)' = StateOf(r)
  BY <1>1 DEF Rows, StateOf
<1>. QED  BY <1>1, <1>2, <1>3, <1>4, <1>5, OutsideStep

----------------------------------------------------------------------------
(* The steps of a pass.                                                     *)

(* The listed rows: there is one, they are different ones, and none of them *)
(* waits for an operator.                                                   *)
LEMMA TargetsOK ==
  ASSUME TypeInv, NEW event, NEW rows \in Targets(event)
  PROVE  /\ rows \in Seq(Pairs) /\ rows # <<>>
         /\ \A i \in DOMAIN rows : rows[i] \in Rows /\ StateOf(rows[i]) # "body_changed"
         /\ \A i, j \in DOMAIN rows : rows[i] = rows[j] => i = j
<1>1. PICK n \in 1 .. Limit : rows \in [1 .. n -> Eligible(event)]
  BY DEF Targets
<1>2. \A i, j \in DOMAIN rows : i < j => rows[i] # rows[j]
  BY DEF Targets
<1>3. \A r \in Eligible(event) : r \in Rows /\ StateOf(r) # "body_changed"
  BY DEF Eligible, Current
<1>4. \A r \in Eligible(event) : r \in Pairs
  BY <1>3, RowOK
<1>5. n \in Nat /\ 1 \in 1 .. n /\ DOMAIN rows = 1 .. n
  BY <1>1, TitleAssumption
<1>6. rows \in Seq(Pairs)
  BY <1>1, <1>4, <1>5
<1>7. rows # <<>>
  BY <1>5
<1>8. ASSUME NEW i \in DOMAIN rows, NEW j \in DOMAIN rows, rows[i] = rows[j]
      PROVE  i = j
  BY <1>2, <1>5, <1>8
<1>. QED  BY <1>1, <1>3, <1>5, <1>6, <1>7, <1>8

(* A pass begins with the lock, which nobody had.                           *)
LEMMA StartStep ==
  ASSUME IInv, NEW t \in Runners, NEW event \in Pairs, Start(t, event)
  PROVE  IInv'
<1>1. /\ TypeInv /\ lock = None /\ lock' = t
      /\ UNCHANGED <<epoch, reassigning, state, title, shown, flight, events>>
  BY DEF IInv, Start, LockFree
<1>2. PICK rows \in Targets(event) :
        proc' = [proc EXCEPT ![t] = [Idle EXCEPT !.pc = "first", !.event = event, !.rows = rows, !.attempt = 1]]
  BY DEF Start
<1>3. /\ rows \in Seq(Pairs) /\ rows # <<>>
      /\ \A i \in DOMAIN rows : rows[i] \in Rows /\ StateOf(rows[i]) # "body_changed"
      /\ \A i, j \in DOMAIN rows : rows[i] = rows[j] => i = j
  BY <1>1, TargetsOK
<1>4. /\ proc' \in [Runners -> Proc] /\ \A u \in Runners \ {t} : proc'[u] = proc[u]
      /\ proc'[t].pc = "first" /\ proc'[t].rows = rows
  <2>1. [Idle EXCEPT !.pc = "first", !.event = event, !.rows = rows, !.attempt = 1] \in Proc
    BY <1>3, IdleOK DEF Proc, Points
  <2>2. /\ [Idle EXCEPT !.pc = "first", !.event = event, !.rows = rows, !.attempt = 1].pc = "first"
        /\ [Idle EXCEPT !.pc = "first", !.event = event, !.rows = rows, !.attempt = 1].rows = rows
    BY IdleOK DEF Proc
  <2>. QED  BY <1>1, <1>2, <2>1, <2>2 DEF TypeInv
<1>5. TypeInv'
  BY <1>1, <1>4 DEF TypeInv
<1>6. Rows' = Rows /\ \A r : StateOf(r)' = StateOf(r)
  BY <1>1 DEF Rows, StateOf
<1>7. TitleInv' /\ \A p \in Prs : shown[p] \subseteq shown'[p]
  BY <1>1 DEF IInv, TitleInv
<1>8. DoneWasShown'
  BY <1>5, <1>6, <1>7, DoneKept
<1>9. Prepared(t)' /\ Seen(t)' /\ Held(t)'
  BY <1>1, <1>3, <1>4, <1>6 DEF Prepared, Seen, Held
<1>10. \A u \in Runners \ {t} : lock # u
  BY <1>1, TitleAssumption
<1>. QED  BY <1>3, <1>4, <1>5, <1>6, <1>7, <1>8, <1>9, <1>10, Together

(* A step of a pass after which it is typed.                                *)
LEMMA QuietPass ==
  ASSUME IInv, NEW t \in Runners, Apart(t), UNCHANGED <<epoch, reassigning, state, title, shown, flight>>
  PROVE  TypeInv' /\ TitleInv' /\ \A p \in Prs : shown[p] \subseteq shown'[p]
<1>1. TypeInv'
  BY DEF IInv, TypeInv, Apart
<1>. QED  BY <1>1 DEF IInv, TitleInv

(* The row in hand before and after.                                        *)
LEMMA SameRow ==
  ASSUME IInv, NEW t \in Runners, Works(t), proc'[t].rows = proc[t].rows
  PROVE  Row(t)' = Row(t) /\ Row(t) \in Rows /\ PrOf(Row(t)) \in Prs /\ Row(t)[2] \in Nat
<1>1. Row(t) \in Rows /\ TypeInv
  BY InHand DEF IInv
<1>. QED  BY <1>1, RowOK DEF Row

LEMMA FirstStep ==
  ASSUME IInv, NEW t \in Runners, First(t)
  PROVE  IInv'
<1>1. /\ TypeInv /\ proc[t].pc = "first" /\ Works(t) /\ IsCurrent(t, "read") /\ "read" \in Points
      /\ proc[t].rows # <<>>
      /\ UNCHANGED <<epoch, reassigning, state, title, shown, flight>>
  BY DEF First, Works, IInv, RowsInv, Points
<1>2. Apart(t) /\ (Over(t) \/ On(t, "read") \/ NextRow(t))
  BY <1>1, IsCurrentOK
<1>3. TypeInv' /\ TitleInv' /\ \A p \in Prs : shown[p] \subseteq shown'[p]
  BY <1>1, <1>2, QuietPass
<1>4. CASE On(t, "read")
  <2>1. Prepared(t)' /\ Seen(t)'
    BY <1>4 DEF On, Prepared, Seen
  <2>. QED  BY <1>1, <1>2, <1>3, <1>4, <2>1, PassStep DEF On
<1>. QED  BY <1>1, <1>2, <1>3, <1>4, PassStep

LEMMA CheckStep ==
  ASSUME IInv, NEW t \in Runners, Check(t)
  PROVE  IInv'
<1>1. /\ TypeInv /\ proc[t].pc = "check" /\ Works(t) /\ {"post", "first"} \subseteq Points
      /\ proc[t].rows # <<>> /\ (IsCurrent(t, "post") \/ Goes(t, "first"))
      /\ UNCHANGED <<epoch, reassigning, state, title, shown, flight>>
  BY DEF Check, Works, IInv, RowsInv, Points
<1>2. Apart(t) /\ (Over(t) \/ On(t, "post") \/ On(t, "first") \/ NextRow(t))
  BY <1>1, IsCurrentOK, GoesOK
<1>3. TypeInv' /\ TitleInv' /\ \A p \in Prs : shown[p] \subseteq shown'[p]
  BY <1>1, <1>2, QuietPass
<1>4. ASSUME NEW pc \in {"post", "first"}, On(t, pc) PROVE IInv'
  <2>1. Row(t)' = Row(t) /\ proc[t].next = <<Row(t)[2]>>
    BY <1>1, <1>4, SameRow DEF On, IInv, MarkInv, Prepared
  <2>2. Prepared(t)' /\ Seen(t)'
    BY <1>4, <2>1 DEF On, Prepared, Seen
  <2>. QED  BY <1>1, <1>2, <1>3, <1>4, <2>2, PassStep DEF On
<1>. QED  BY <1>1, <1>2, <1>3, <1>4, PassStep

(* A failed request leaves titles as they are.                              *)
LEMMA RefusedStep ==
  ASSUME IInv, NEW t \in Runners, Works(t), proc[t].pc # "mark", Apart(t), TypeInv', TitleInv', state' = state,
         \A p \in Prs : shown[p] \subseteq shown'[p],
         \/ Over(t) \/ On(t, "first") \/ Marking(t, "failed") \/ Marking(t, "permission")
         \/ Marking(t, "mismatch") \/ Marking(t, "unknown") \/ Marking(t, "body_changed")
  PROVE  IInv'
<1>1. CASE \/ On(t, "first") \/ Marking(t, "failed") \/ Marking(t, "permission")
           \/ Marking(t, "mismatch") \/ Marking(t, "unknown") \/ Marking(t, "body_changed")
  <2>1. Prepared(t)' /\ Seen(t)'
    BY <1>1 DEF On, Marking, Prepared, Seen
  <2>. QED  BY <1>1, <2>1, PassStep DEF On, Marking
<1>. QED  BY <1>1, PassStep

(* A title is read: one that begins with the number has shown it, and only  *)
(* one without a prefix is replaced.                                        *)
LEMMA ReadStep ==
  ASSUME IInv, NEW t \in Runners, Read(t)
  PROVE  IInv'
<1>1. /\ TypeInv /\ TitleInv /\ proc[t].pc = "read" /\ Works(t) /\ proc[t].rows # <<>>
      /\ UNCHANGED <<epoch, reassigning, state, title, shown, flight>>
  BY DEF Read, Works, IInv, RowsInv
<1>2. PICK n : n = Row(t)[2]
  OBVIOUS
<1>3. PICK p : p = PrOf(Row(t))
  OBVIOUS
<1>4. PICK now : now = title[p]
  OBVIOUS
<1>5. /\ Row(t) \in Rows /\ p \in Prs /\ n \in Nat
      /\ now \in Seq(Nat) /\ Len(now) <= 1 /\ (now # <<>> => now[1] \in shown[p])
  <2>1. Row(t) \in Rows
    BY <1>1, InHand DEF IInv
  <2>2. p \in Prs /\ n \in Nat
    BY <1>1, <1>2, <1>3, <2>1, RowOK
  <2>. QED  BY <1>1, <1>4, <2>1, <2>2 DEF TypeInv, TitleInv
<1>6. \/ Decide(n, now) = "already_annotated" /\ Marks(t, "done")
      \/ Decide(n, now) = "mismatch" /\ Marks(t, "mismatch")
      \/ /\ Decide(n, now) = "update"
         /\ proc' = [proc EXCEPT ![t].pc = "check", ![t].next = <<n>> \o now]
         /\ UNCHANGED <<lock, events>>
      \/ Refused(t)
  <2>1. Decide(n, now) \in {"already_annotated", "mismatch", "update"}
    BY DEF Decide
  <2>. QED  BY <1>2, <1>3, <1>4, <2>1 DEF Read
<1>7. CASE Decide(n, now) = "already_annotated" /\ Marks(t, "done")
  <2>1. now # <<>> /\ now[1] = n
    BY <1>7 DEF Decide
  <2>2. Apart(t) /\ Marking(t, "done")
    BY <1>1, <1>7, MarksOK DEF States
  <2>3. Row(t)' = Row(t)
    BY <1>1, <2>2, SameRow DEF Marking
  <2>4. Row(t)[2] \in shown'[PrOf(Row(t))]
    BY <1>1, <1>2, <1>3, <1>5, <2>1
  <2>5. Prepared(t)' /\ Seen(t)'
    BY <2>2, <2>3, <2>4 DEF Marking, Prepared, Seen, PrOf
  <2>6. TypeInv' /\ TitleInv' /\ \A q \in Prs : shown[q] \subseteq shown'[q]
    BY <1>1, <2>2, QuietPass
  <2>. QED  BY <1>1, <2>2, <2>5, <2>6, PassStep DEF Marking
<1>8. CASE Decide(n, now) = "mismatch" /\ Marks(t, "mismatch")
  <2>1. Apart(t) /\ Marking(t, "mismatch")
    BY <1>1, <1>8, MarksOK DEF States
  <2>2. TypeInv' /\ TitleInv' /\ \A q \in Prs : shown[q] \subseteq shown'[q]
    BY <1>1, <2>1, QuietPass
  <2>. QED  BY <1>1, <2>1, <2>2, RefusedStep
<1>9. CASE /\ Decide(n, now) = "update"
           /\ proc' = [proc EXCEPT ![t].pc = "check", ![t].next = <<n>> \o now]
           /\ UNCHANGED <<lock, events>>
  <2>1. now = <<>>
    BY <1>9 DEF Decide
  <2>2. <<n>> \o now = <<n>> /\ <<n>> \in Seq(Nat)
    BY <1>5, <2>1
  <2>3. proc' = [proc EXCEPT ![t].pc = "check", ![t].next = <<n>>]
    BY <1>9, <2>2, Zenon
  <2>4. proc[t] \in Proc
    BY <1>1, ProcOK
  <2>5. /\ proc' \in [Runners -> Proc] /\ \A u \in Runners \ {t} : proc'[u] = proc[u]
        /\ proc'[t].pc = "check" /\ proc'[t].rows = proc[t].rows /\ proc'[t].next = <<n>>
        /\ proc'[t].alive = proc[t].alive
    BY <1>1, <2>2, <2>3, <2>4 DEF TypeInv, Proc, Points
  <2>6. Apart(t) /\ Same(t)
    BY <1>1, <1>9, <2>5 DEF Apart, Same, TypeInv
  <2>7. Row(t)' = Row(t)
    BY <1>1, <2>5, SameRow
  <2>8. Prepared(t)' /\ Seen(t)'
    BY <1>2, <2>5, <2>7 DEF Prepared, Seen
  <2>9. TypeInv' /\ TitleInv' /\ \A q \in Prs : shown[q] \subseteq shown'[q]
    BY <1>1, <2>6, QuietPass
  <2>. QED  BY <1>1, <2>5, <2>6, <2>8, <2>9, PassStep
<1>10. CASE Refused(t)
  <2>1. Apart(t) /\ (Over(t) \/ On(t, "first") \/ Marking(t, "failed") \/ Marking(t, "permission"))
    BY <1>1, <1>10, RefusedOK
  <2>2. TypeInv' /\ TitleInv' /\ \A q \in Prs : shown[q] \subseteq shown'[q]
    BY <1>1, <2>1, QuietPass
  <2>. QED  BY <1>1, <2>1, <2>2, RefusedStep
<1>. QED  BY <1>6, <1>7, <1>8, <1>9, <1>10

(* A replacement is sent.                                                   *)
LEMMA PostStep ==
  ASSUME IInv, NEW t \in Runners, Post(t)
  PROVE  IInv'
<1>1. /\ TypeInv /\ TitleInv /\ proc[t].pc = "post" /\ Works(t) /\ proc[t].rows # <<>>
      /\ UNCHANGED <<epoch, reassigning, state>>
  BY DEF Post, Works, IInv, RowsInv
<1>2. PICK n : n = Row(t)[2]
  OBVIOUS
<1>3. PICK p : p = PrOf(Row(t))
  OBVIOUS
<1>4. PICK next : next = proc[t].next
  OBVIOUS
<1>5. Row(t) \in Rows /\ p \in Prs /\ n \in Nat /\ next = <<n>>
  BY <1>1, <1>2, <1>3, <1>4, InHand, RowOK DEF IInv, MarkInv, Prepared
<1>6. next \in Seq(Nat) /\ Len(next) <= 1 /\ next # <<>> /\ next[1] = n /\ Tail(next) = <<>>
  BY <1>5
<1>7. {"body_changed", "failed", "unknown"} \subseteq States
  BY DEF States
<1>8. ASSUME Apart(t), title' \in [Prs -> Seq(Nat)], shown' \in [Prs -> SUBSET Nat],
             \A q \in Prs : /\ shown[q] \subseteq shown'[q] /\ Len(title'[q]) <= 1
                            /\ title'[q] # <<>> => title'[q][1] \in shown'[q],
             UNCHANGED flight \/ flight' = flight \cup {<<p, next>>}
      PROVE  TypeInv' /\ TitleInv' /\ \A q \in Prs : shown[q] \subseteq shown'[q]
  <2>1. flight' \in SUBSET (Prs \X Seq(Nat)) /\ \A f \in flight' : Len(f[2]) <= 1
    <3>1. flight \in SUBSET (Prs \X Seq(Nat)) /\ \A f \in flight : Len(f[2]) <= 1
      BY <1>1 DEF TypeInv, TitleInv
    <3>2. <<p, next>> \in Prs \X Seq(Nat) /\ Len(<<p, next>>[2]) <= 1
      BY <1>5, <1>6
    <3>. QED  BY <1>8, <3>1, <3>2, Zenon
  <2>2. TypeInv'
    BY <1>1, <1>8, <2>1 DEF TypeInv, Apart
  <2>. QED  BY <1>8, <2>1, <2>2 DEF TitleInv
<1>9. ASSUME UNCHANGED <<title, shown>>
      PROVE  /\ title' \in [Prs -> Seq(Nat)] /\ shown' \in [Prs -> SUBSET Nat]
             /\ \A q \in Prs : /\ shown[q] \subseteq shown'[q] /\ Len(title'[q]) <= 1
                               /\ title'[q] # <<>> => title'[q][1] \in shown'[q]
  BY <1>1, <1>9 DEF TypeInv, TitleInv
<1>10. CASE Retitled(p, next) /\ Marks(t, "patched") /\ UNCHANGED flight
  <2>1. Apart(t) /\ Marking(t, "patched")
    BY <1>1, <1>10, MarksOK
  <2>2. /\ title' \in [Prs -> Seq(Nat)] /\ shown' \in [Prs -> SUBSET Nat]
        /\ \A q \in Prs : /\ shown[q] \subseteq shown'[q] /\ Len(title'[q]) <= 1
                          /\ title'[q] # <<>> => title'[q][1] \in shown'[q]
        /\ n \in shown'[p]
    BY <1>1, <1>5, <1>6, <1>10, RetitledOK
  <2>3. TypeInv' /\ TitleInv' /\ \A q \in Prs : shown[q] \subseteq shown'[q]
    BY <1>8, <1>10, <2>1, <2>2
  <2>4. Row(t)' = Row(t)
    BY <1>1, <2>1, SameRow DEF Marking
  <2>5. Prepared(t)' /\ Seen(t)'
    BY <1>2, <1>3, <2>1, <2>2, <2>4 DEF Marking, Prepared, Seen, PrOf
  <2>. QED  BY <1>1, <2>1, <2>3, <2>5, PassStep DEF Marking
<1>11. CASE (\E stored \in {<<>>, Tail(next)} : Retitled(p, stored)) /\ Marks(t, "body_changed") /\ UNCHANGED flight
  <2>1. Apart(t) /\ Marking(t, "body_changed")
    BY <1>1, <1>7, <1>11, MarksOK
  <2>2. Retitled(p, <<>>)
    BY <1>6, <1>11
  <2>3. <<>> \in Seq(Nat) /\ Len(<<>>) <= 1
    OBVIOUS
  <2>4. /\ title' \in [Prs -> Seq(Nat)] /\ shown' \in [Prs -> SUBSET Nat]
        /\ \A q \in Prs : /\ shown[q] \subseteq shown'[q] /\ Len(title'[q]) <= 1
                          /\ title'[q] # <<>> => title'[q][1] \in shown'[q]
    BY <1>1, <1>5, <2>2, <2>3, RetitledOK
  <2>5. TypeInv' /\ TitleInv' /\ \A q \in Prs : shown[q] \subseteq shown'[q]
    BY <1>8, <1>11, <2>1, <2>4
  <2>. QED  BY <1>1, <2>1, <2>5, RefusedStep
<1>12. CASE Marks(t, "failed") /\ UNCHANGED <<title, shown, flight>>
  <2>1. Apart(t) /\ Marking(t, "failed")
    BY <1>1, <1>7, <1>12, MarksOK
  <2>2. TypeInv' /\ TitleInv' /\ \A q \in Prs : shown[q] \subseteq shown'[q]
    BY <1>8, <1>9, <1>12, <2>1
  <2>. QED  BY <1>1, <2>1, <2>2, RefusedStep
<1>13. CASE Refused(t) /\ UNCHANGED <<title, shown, flight>>
  <2>1. Apart(t) /\ (Over(t) \/ On(t, "first") \/ Marking(t, "failed") \/ Marking(t, "permission"))
    BY <1>1, <1>13, RefusedOK
  <2>2. TypeInv' /\ TitleInv' /\ \A q \in Prs : shown[q] \subseteq shown'[q]
    BY <1>8, <1>9, <1>13, <2>1
  <2>. QED  BY <1>1, <2>1, <2>2, RefusedStep
<1>14. CASE flight' = flight \cup {<<p, next>>} /\ NoAnswer(t) /\ UNCHANGED <<title, shown>>
  <2>1. Apart(t) /\ (On(t, "first") \/ Marking(t, "unknown"))
    BY <1>1, <1>7, <1>14, AgainOK DEF NoAnswer
  <2>2. TypeInv' /\ TitleInv' /\ \A q \in Prs : shown[q] \subseteq shown'[q]
    BY <1>8, <1>9, <1>14, <2>1
  <2>. QED  BY <1>1, <2>1, <2>2, RefusedStep
<1>. QED  BY <1>3, <1>4, <1>10, <1>11, <1>12, <1>13, <1>14 DEF Post

(* What is recorded: `done' for a number that was seen, and `body_changed'  *)
(* for the row in hand only, with which the pass is finished.               *)
LEMMA MarkStep ==
  ASSUME IInv, NEW t \in Runners, Mark(t)
  PROVE  IInv'
<1>1. /\ TypeInv /\ TitleInv /\ RowsInv /\ proc[t].pc = "mark" /\ Works(t) /\ proc[t].rows # <<>>
      /\ proc[t].rows \in Seq(Pairs)
      /\ UNCHANGED <<epoch, reassigning, title, shown, flight>>
  BY ProcOK DEF Mark, Works, IInv, RowsInv
<1>2. PICK r : r = Row(t)
  OBVIOUS
<1>3. PICK m : m = proc[t].mark
  OBVIOUS
<1>4. PICK s : s = CASE m = "patched" -> "done" [] m = "permission" -> "failed" [] OTHER -> m
  OBVIOUS
<1>5. r \in Rows /\ r[1] \in EpochSet /\ r[2] \in DOMAIN state[r[1]] /\ r = <<r[1], r[2]>>
  BY <1>1, <1>2, InHand, RowOK
<1>6. s \in States /\ (s = "done" => m \in {"done", "patched"})
  <2>1. m \in States \cup {"patched", "permission"} /\ {"done", "failed"} \subseteq States
    BY <1>1, <1>3, ProcOK DEF States
  <2>. QED  BY <1>4, <2>1
<1>7. CASE ~proc[t].alive
  <2>1. EndPass(t, FALSE) /\ state' = state
    BY <1>1, <1>7 DEF Mark
  <2>2. Apart(t) /\ Over(t)
    BY <1>1, <2>1, EndPassOK
  <2>3. TypeInv' /\ TitleInv' /\ \A q \in Prs : shown[q] \subseteq shown'[q]
    BY <1>1, <2>1, <2>2, QuietPass
  <2>. QED  BY <1>1, <2>1, <2>2, <2>3, PassStep
<1>8. CASE proc[t].alive
  <2>1. state' = [state EXCEPT ![r[1]][r[2]] = s] /\ (EndPass(t, TRUE) \/ Advance(t))
    BY <1>2, <1>3, <1>4, <1>8 DEF Mark
  <2>2. Apart(t) /\ (Over(t) \/ NextRow(t))
    BY <1>1, <2>1, EndPassOK, AdvanceOK
  <2>3. Held(t) /\ lock = t
    BY <1>1, <1>8 DEF IInv, HeldInv, Held
  <2>4. state \in [EpochSet -> Seq(States)] /\ state[r[1]] \in Seq(States)
    BY <1>1, <1>5 DEF TypeInv
  <2>. DEFINE row == [state[r[1]] EXCEPT ![r[2]] = s]
  <2>5. /\ row \in Seq(States) /\ Len(row) = Len(state[r[1]]) /\ DOMAIN row = DOMAIN state[r[1]]
        /\ row[r[2]] = s /\ \A k \in DOMAIN row : k # r[2] => row[k] = state[r[1]][k]
    BY <1>5, <1>6, <2>4
  <2>6. state' = [state EXCEPT ![r[1]] = row]
    BY <2>1
  <2>. HIDE DEF row
  <2>7. /\ state' \in [EpochSet -> Seq(States)] /\ state'[r[1]] = row
        /\ \A e \in EpochSet \ {r[1]} : state'[e] = state[e]
        /\ DOMAIN state' = EpochSet /\ DOMAIN state = EpochSet
    BY <1>5, <2>4, <2>5, <2>6
  <2>8. \A e \in EpochSet : DOMAIN state'[e] = DOMAIN state[e] /\ Len(state'[e]) = Len(state[e])
    <3>. TAKE e \in EpochSet
    <3>1. CASE e = r[1]
      BY <2>5, <2>7, <3>1
    <3>2. CASE e # r[1]
      BY <2>7, <3>2
    <3>. QED  BY <3>1, <3>2
  <2>9. Rows' = Rows
    BY <2>7, <2>8 DEF Rows
  <2>10. ASSUME NEW k \in Rows
         PROVE  StateOf(k)' = IF k = r THEN s ELSE StateOf(k)
    <3>1. k[1] \in EpochSet /\ k[2] \in DOMAIN state[k[1]] /\ k = <<k[1], k[2]>>
      BY <1>1, RowOK
    <3>2. CASE k = r
      BY <1>5, <2>5, <2>7, <3>2 DEF StateOf
    <3>3. CASE k # r /\ k[1] = r[1]
      <4>1. k[2] # r[2]
        BY <1>5, <3>1, <3>3, Zenon
      <4>2. state'[k[1]] = row /\ row[k[2]] = state[k[1]][k[2]]
        BY <2>5, <2>7, <3>1, <3>3, <4>1
      <4>. QED  BY <3>3, <4>2 DEF StateOf
    <3>4. CASE k[1] # r[1]
      <4>1. state'[k[1]] = state[k[1]]
        BY <2>7, <3>1, <3>4
      <4>. QED  BY <3>4, <4>1 DEF StateOf
    <3>. QED  BY <3>2, <3>3, <3>4
  <2>11. TypeInv'
    BY <1>1, <2>2, <2>7, <2>8 DEF TypeInv, Apart
  <2>12. TitleInv' /\ \A q \in Prs : shown[q] \subseteq shown'[q]
    BY <1>1 DEF TitleInv
  <2>13. DoneWasShown'
    <3>. SUFFICES ASSUME NEW k \in Rows, StateOf(k)' = "done"
                  PROVE  k[2] \in shown[PrOf(k)]
      BY <1>1, <2>9 DEF DoneWasShown, PrOf
    <3>1. CASE k = r
      <4>1. m \in {"done", "patched"}
        BY <1>6, <2>10, <3>1
      <4>2. Seen(t)
        BY <1>1 DEF IInv, MarkInv
      <4>. QED  BY <1>1, <1>2, <1>3, <3>1, <4>1, <4>2 DEF Seen
    <3>2. CASE k # r
      BY <2>10, <3>2 DEF IInv, DoneWasShown
    <3>. QED  BY <3>1, <3>2
  <2>14. \A u \in Runners \ {t} : lock # u
    BY <2>3
  <2>15. CASE Over(t)
    <3>1. ~Works(t)'
      BY <2>15, IdleOK DEF Over, Works
    <3>. QED  BY <2>2, <2>9, <2>11, <2>12, <2>13, <2>14, <3>1, Together DEF Apart
  <2>16. CASE NextRow(t)
    <3>1. /\ proc'[t].rows = Tail(proc[t].rows) /\ proc'[t].pc = "first" /\ Tail(proc[t].rows) # <<>>
          /\ \A i \in DOMAIN Tail(proc[t].rows) :
               /\ i \in Nat /\ i + 1 \in DOMAIN proc[t].rows /\ i + 1 # 1
               /\ Tail(proc[t].rows)[i] = proc[t].rows[i + 1]
      BY <1>1, <2>16, TailOK DEF NextRow
    <3>2. Prepared(t)' /\ Seen(t)'
      BY <3>1 DEF Prepared, Seen
    <3>3. \A i, j \in DOMAIN Tail(proc[t].rows) : Tail(proc[t].rows)[i] = Tail(proc[t].rows)[j] => i = j
      BY <2>3, <3>1 DEF Held
    <3>4. \A i \in DOMAIN Tail(proc[t].rows) : Tail(proc[t].rows)[i] \in Rows
      BY <1>1, <3>1 DEF RowsInv
    <3>5. ASSUME NEW i \in DOMAIN Tail(proc[t].rows), NEW k, k = Tail(proc[t].rows)[i]
          PROVE  StateOf(k)' # "body_changed"
      <4>1. k = proc[t].rows[i + 1] /\ i + 1 \in DOMAIN proc[t].rows /\ i + 1 # 1 /\ 1 \in DOMAIN proc[t].rows
        BY <1>1, <3>1, <3>5, InHand
      <4>2. k # r
        BY <1>2, <2>3, <4>1 DEF Held, Row
      <4>3. k \in Rows /\ StateOf(k) # "body_changed"
        BY <2>3, <3>4, <3>5, <4>1 DEF Held
      <4>. QED  BY <2>10, <4>2, <4>3
    <3>6. Held(t)'
      <4>1. lock' = t
        BY <2>3, <2>16 DEF NextRow, Same
      <4>2. \A i \in DOMAIN Tail(proc[t].rows) : state'[Tail(proc[t].rows)[i][1]][Tail(proc[t].rows)[i][2]] # "body_changed"
        BY <3>5 DEF StateOf
      <4>. QED  BY <3>1, <3>3, <4>1, <4>2 DEF Held, StateOf
    <3>. QED  BY <2>2, <2>9, <2>11, <2>12, <2>13, <2>14, <3>1, <3>2, <3>4, <3>6, Together DEF Apart
  <2>. QED  BY <2>2, <2>15, <2>16
<1>. QED  BY <1>1, <1>7, <1>8, ProcOK

(* The session of a pass is lost: it works on without the lock.             *)
LEMMA LoseSessionStep ==
  ASSUME IInv, NEW t \in Runners, LoseSession(t)
  PROVE  IInv'
<1>1. /\ TypeInv /\ lock = t /\ lock' = None /\ proc' = [proc EXCEPT ![t].alive = FALSE]
      /\ UNCHANGED <<epoch, reassigning, state, title, shown, flight, events>>
  BY DEF LoseSession, IInv
<1>2. proc[t] \in Proc
  BY <1>1, ProcOK
<1>3. /\ proc' \in [Runners -> Proc] /\ \A u \in Runners \ {t} : proc'[u] = proc[u]
      /\ proc'[t].pc = proc[t].pc /\ proc'[t].rows = proc[t].rows /\ proc'[t].next = proc[t].next
      /\ proc'[t].mark = proc[t].mark /\ proc'[t].alive = FALSE
  BY <1>1, <1>2 DEF TypeInv, Proc
<1>4. Apart(t)
  BY <1>1, <1>3 DEF Apart, TypeInv
<1>5. TypeInv' /\ TitleInv' /\ \A q \in Prs : shown[q] \subseteq shown'[q]
  BY <1>1, <1>4, QuietPass
<1>6. Rows' = Rows /\ \A r : StateOf(r)' = StateOf(r)
  BY <1>1 DEF Rows, StateOf
<1>7. DoneWasShown'
  BY <1>5, <1>6, DoneKept
<1>8. ASSUME Works(t)'
      PROVE  /\ proc'[t].rows # <<>> /\ \A i \in DOMAIN proc'[t].rows : proc'[t].rows[i] \in Rows'
             /\ Prepared(t)' /\ Seen(t)' /\ (proc'[t].alive => Held(t)')
  <2>1. Works(t) /\ RowsInv /\ Prepared(t) /\ Seen(t)
    BY <1>3, <1>8 DEF Works, IInv, MarkInv
  <2>2. Row(t)' = Row(t)
    BY <1>3 DEF Row
  <2>3. Prepared(t)' /\ Seen(t)'
    BY <1>1, <1>3, <2>1, <2>2 DEF Prepared, Seen, PrOf
  <2>. QED  BY <1>3, <1>6, <2>1, <2>3 DEF RowsInv
<1>. QED  BY <1>1, <1>3, <1>5, <1>6, <1>7, <1>8, Together

LEMMA DieStep ==
  ASSUME IInv, NEW t \in Runners, Die(t)
  PROVE  IInv'
<1>1. /\ TypeInv /\ Works(t) /\ EndPass(t, FALSE)
      /\ UNCHANGED <<epoch, reassigning, state, title, shown, flight>>
  BY DEF Die, Works, IInv
<1>2. Apart(t) /\ Over(t)
  BY <1>1, EndPassOK
<1>3. TypeInv' /\ TitleInv' /\ \A q \in Prs : shown[q] \subseteq shown'[q]
  BY <1>1, <1>2, QuietPass
<1>. QED  BY <1>1, <1>2, <1>3, PassStep

----------------------------------------------------------------------------
(* The theorems.                                                            *)

LEMMA InitOK == Init => IInv
<1>. SUFFICES ASSUME Init PROVE IInv
  OBVIOUS
<1>1. /\ epoch = 1 /\ reassigning = FALSE /\ state = [e \in EpochSet |-> <<>>]
      /\ title = [p \in Prs |-> <<>>] /\ shown = [p \in Prs |-> {}] /\ flight = {} /\ events = {}
      /\ lock = None /\ proc = [t \in Runners |-> Idle]
  BY DEF Init, EpochSet
<1>2. <<>> \in Seq(States) /\ <<>> \in Seq(Nat) /\ Len(<<>>) = 0 /\ 1 \in EpochSet
  BY TitleAssumption DEF EpochSet
<1>3. \A e \in EpochSet : state[e] = <<>> /\ Len(state[e]) <= Len(History[e])
  <2>. TAKE e \in EpochSet
  <2>1. History[e] \in Seq(Prs) /\ state[e] = <<>>
    BY <1>1, TitleAssumption DEF EpochSet
  <2>2. Len(History[e]) \in Nat /\ Len(state[e]) = 0
    BY <1>2, <2>1
  <2>. QED  BY <2>1, <2>2
<1>4. TypeInv
  BY <1>1, <1>2, <1>3, IdleOK DEF TypeInv
<1>5. Rows = {}
  BY <1>1, <1>3 DEF Rows
<1>6. \A t \in Runners : ~Works(t)
  BY <1>1, IdleOK DEF Works
<1>7. TitleInv
  BY <1>1, <1>2 DEF TitleInv
<1>. QED  BY <1>4, <1>5, <1>6, <1>7 DEF IInv, RowsInv, MarkInv, DoneWasShown, HeldInv

LEMMA NextStep == IInv /\ [Next]_vars => IInv'
<1>. SUFFICES ASSUME IInv, [Next]_vars PROVE IInv'
  OBVIOUS
<1>1. CASE MarkReassigning \/ Reassign \/ Switch \/ CoolDown \/ Skip \/ UNCHANGED vars
  BY <1>1, SettingsStep
<1>2. CASE Assign
  BY <1>2, AssignStep
<1>3. CASE Resume \/ MarkDisabled
  BY <1>3, OperatorStep
<1>4. CASE (\E p \in Prs : Edit(p)) \/ Land
  BY <1>4, GithubStep
<1>5. CASE Sweep
  <2>1. Sweeping \in Pairs
    BY DEF Sweeping, Pairs
  <2>. QED  BY <1>5, <2>1, StartStep DEF Sweep
<1>6. ASSUME NEW t \in Runners, (\E r \in events : Start(t, r)) \/ Step(t) \/ LoseSession(t) \/ Die(t)
      PROVE  IInv'
  <2>1. ASSUME NEW r \in events, Start(t, r) PROVE IInv'
    <3>1. r \in Pairs
      BY DEF IInv, TypeInv
    <3>. QED  BY <2>1, <3>1, StartStep
  <2>2. CASE Step(t)
    BY <2>2, FirstStep, ReadStep, CheckStep, PostStep, MarkStep DEF Step
  <2>. QED  BY <1>6, <2>1, <2>2, LoseSessionStep, DieStep
<1>. QED  BY <1>1, <1>2, <1>3, <1>4, <1>5, <1>6 DEF Next

(* The invariant of the annotation job: the shape of its passes, what they  *)
(* have prepared and seen, and the lock of a pass whose session lives, in   *)
(* every reachable state (annotate.ts, annotate-lock.ts).                   *)
THEOREM Invariance == Spec => []IInv
BY InitOK, NextStep, PTL DEF Spec

(* No title ever has two merge numbers, however many processes, rebuilds,   *)
(* deaths and late requests there are (attemptOnce, decideTitleUpdate).     *)
THEOREM TitlesHaveOnePrefix == Spec => []PrefixOnce
<1>1. IInv => PrefixOnce
  BY DEF IInv, TitleInv, PrefixOnce
<1>. QED  BY <1>1, Invariance, PTL

(* A row says `done' only when its title did begin with its number          *)
(* (annotateOne).                                                           *)
THEOREM SuccessIsReal == Spec => []DoneWasShown
<1>1. IInv => DoneWasShown
  BY DEF IInv
<1>. QED  BY <1>1, Invariance, PTL

(* A pass whose session lives never comes to the request for a row that     *)
(* waits for an operator (listAnnotateTargets, the runner lock).            *)
THEOREM ChangedTitlesAreHeld == Spec => []ChangedIsHeld
<1>1. IInv => ChangedIsHeld
  <2>. SUFFICES ASSUME IInv, NEW t \in Runners, proc[t].pc \in {"first", "read", "check", "post"}, proc[t].alive
                PROVE  StateOf(Row(t)) # "body_changed"
    BY DEF ChangedIsHeld
  <2>1. Works(t) /\ TypeInv /\ RowsInv
    BY DEF Works, IInv
  <2>2. Held(t) /\ 1 \in DOMAIN proc[t].rows
    BY <2>1, InHand DEF IInv, HeldInv
  <2>. QED  BY <2>2 DEF Held, Row
<1>. QED  BY <1>1, Invariance, PTL

----------------------------------------------------------------------------
(* MergeTag: the inductive invariant.                                       *)

TagEpochs == 1 .. MaxEpoch
TagNumbers == UNION {DOMAIN History[e] : e \in TagEpochs}
TagPoints == {"idle", "target", "read", "reread", "check", "post", "mark", "end"}
TagEnds == {"done", "retry", "obsolete", "parked"}
TagProc == [pc : TagPoints, e : Nat, n : Nat, attempt : Nat, mark : TagStates, end : TagEnds]

(* Only epochs that began have rows, and a row has something to tag.        *)
TagTables ==
  /\ epoch \in TagEpochs /\ (reassigning => epoch < MaxEpoch)
  /\ tag \in [TagEpochs -> Seq(TagStates)]
  /\ \A e \in TagEpochs : Len(tag[e]) <= Len(History[e]) /\ (e > epoch => tag[e] = <<>>)
  /\ DOMAIN remote = TagNumbers

(* What is there stays: the tag of number n is at the commit of this epoch. *)
Tagged(e, n) == remote[n] # None /\ remote[n] = History[e][n]

(* Work and executions are of rows; one that is about to mark its row       *)
(* `done' has seen the tag, and it is still there if the epoch is.          *)
WorkInv ==
  /\ DOMAIN work = TagEpochs \X TagNumbers
  /\ \A e \in TagEpochs, n \in TagNumbers : work[<<e, n>>] = NoWork \/ n \in DOMAIN tag[e]
TaggerOK(q) ==
  q.pc # "idle" => /\ q.e \in TagEpochs /\ q.n \in DOMAIN tag[q.e]
                   /\ q.pc = "mark" /\ q.mark = "done" /\ q.e = epoch => Tagged(q.e, q.n)

(* What a job listed of its epoch is still there if the epoch is.           *)
JobShape(j) ==
  j = [pc |-> j.pc, e |-> j.e, list |-> j.list, cut |-> j.cut, rows |-> j.rows, blocked |-> j.blocked]
JobOK(j) ==
  /\ JobShape(j)
  /\ j.pc # "idle" => j.e \in TagEpochs /\ j.e <= epoch
  /\ j.pc \in {"page", "compare", "request"} /\ j.e = epoch =>
       \A n \in TagNumbers : j.list[n] # None /\ j.list[n] = History[j.e][n] => Tagged(j.e, n)
  /\ j.pc \in {"compare", "request"} => DOMAIN j.rows \subseteq DOMAIN tag[j.e]

RowsTagged == \A n \in DOMAIN tag[epoch] : tag[epoch][n] = "done" => Tagged(epoch, n)

TagInv ==
  /\ TagTables /\ WorkInv /\ JobOK(job) /\ RowsTagged
  /\ tagger \in [Taggers -> TagProc] /\ \A t \in Taggers : TaggerOK(tagger[t])

LEMMA TagRows ==
  ASSUME TagTables, NEW e \in TagEpochs
  PROVE  /\ tag[e] \in Seq(TagStates) /\ Len(tag[e]) \in Nat /\ DOMAIN tag[e] = 1 .. Len(tag[e])
         /\ DOMAIN tag[e] \subseteq DOMAIN History[e] /\ DOMAIN tag[e] \subseteq TagNumbers
         /\ DOMAIN tag[e] \subseteq Nat /\ \A n \in DOMAIN tag[e] : History[e][n] # None
<1>1. tag[e] \in Seq(TagStates) /\ Len(tag[e]) \in Nat /\ DOMAIN tag[e] = 1 .. Len(tag[e]) /\ Len(tag[e]) <= Len(History[e])
  BY DEF TagTables
<1>2. /\ Len(History[e]) \in Nat /\ DOMAIN History[e] = 1 .. Len(History[e])
      /\ \A n \in DOMAIN History[e] : History[e][n] # None
  BY TagAssumption DEF TagEpochs
<1>3. DOMAIN tag[e] \subseteq DOMAIN History[e]
  BY <1>1, <1>2
<1>. QED  BY <1>1, <1>2, <1>3 DEF TagNumbers

(* A step of an epoch: rows are not taken away, and no tag is that was      *)
(* right.                                                                   *)
LEMMA TagFrame ==
  ASSUME TagInv, TagTables', epoch' = epoch,
         \A e \in TagEpochs : DOMAIN tag[e] \subseteq DOMAIN tag'[e],
         \A n \in TagNumbers : Tagged(epoch, n) => remote'[n] = remote[n],
         DOMAIN work' = DOMAIN work,
         \A e \in TagEpochs, n \in TagNumbers :
           work'[<<e, n>>] = work[<<e, n>>] \/ work'[<<e, n>>] = NoWork \/ n \in DOMAIN tag[e] \/ n \in DOMAIN tag'[e],
         tagger' \in [Taggers -> TagProc], \A t \in Taggers : tagger'[t] = tagger[t] \/ TaggerOK(tagger[t])',
         job' = job \/ JobOK(job)',
         \A n \in DOMAIN tag'[epoch] :
           tag'[epoch][n] = "done" => (n \in DOMAIN tag[epoch] /\ tag[epoch][n] = "done") \/ Tagged(epoch, n)'
  PROVE  TagInv'
<1>1. \A n \in TagNumbers : Tagged(epoch, n) => Tagged(epoch, n)'
  BY DEF Tagged
<1>2. epoch \in TagEpochs /\ DOMAIN tag[epoch] \subseteq TagNumbers
  BY TagRows DEF TagInv, TagTables
<1>3. RowsTagged'
  BY <1>1, <1>2 DEF TagInv, RowsTagged
<1>4. WorkInv'
  BY DEF TagInv, WorkInv
<1>5. ASSUME NEW t \in Taggers PROVE TaggerOK(tagger[t])'
  <2>1. CASE tagger'[t] = tagger[t]
    <3>1. PICK q : q = tagger[t] /\ TaggerOK(q)
      BY DEF TagInv
    <3>2. q.pc # "idle" => q.e \in TagEpochs /\ q.n \in DOMAIN tag'[q.e] /\ q.n \in TagNumbers
      BY <3>1, TagRows DEF TaggerOK, TagInv
    <3>. QED  BY <1>1, <2>1, <3>1, <3>2 DEF TaggerOK, Tagged
  <2>. QED  BY <2>1
<1>6. JobOK(job)'
  <2>1. CASE job' = job
    <3>1. PICK j : j = job /\ JobOK(j)
      BY DEF TagInv
    <3>2. JobOK(j)'
      BY <1>1, <3>1 DEF JobOK, JobShape, Tagged
    <3>. QED  BY <2>1, <3>1, <3>2
  <2>. QED  BY <2>1
<1>. QED  BY <1>3, <1>4, <1>5, <1>6 DEF TagInv

(* A step that leaves rows and tags alone.                                  *)
LEMMA TagAside ==
  ASSUME TagInv, UNCHANGED <<epoch, tag, remote>>, reassigning' => epoch < MaxEpoch,
         DOMAIN work' = DOMAIN work,
         \A e \in TagEpochs, n \in TagNumbers :
           work'[<<e, n>>] = work[<<e, n>>] \/ work'[<<e, n>>] = NoWork \/ n \in DOMAIN tag[e],
         tagger' \in [Taggers -> TagProc], \A t \in Taggers : tagger'[t] = tagger[t] \/ TaggerOK(tagger'[t]),
         job' = job \/ JobOK(job')
  PROVE  TagInv'
<1>1. TagTables'
  BY DEF TagInv, TagTables
<1>2. ASSUME NEW t \in Taggers PROVE tagger'[t] = tagger[t] \/ TaggerOK(tagger[t])'
  <2>1. PICK q : q = tagger'[t]
    OBVIOUS
  <2>2. TaggerOK(q) => TaggerOK(q)'
    BY DEF TaggerOK, Tagged
  <2>. QED  BY <2>1, <2>2
<1>3. job' = job \/ JobOK(job)'
  <2>1. PICK j : j = job'
    OBVIOUS
  <2>2. JobOK(j) => JobOK(j)'
    BY DEF JobOK, JobShape, Tagged
  <2>. QED  BY <2>1, <2>2
<1>. QED  BY <1>1, <1>2, <1>3, TagFrame

----------------------------------------------------------------------------
(* Executions of tag work.                                                  *)

(* An execution goes on, and if it is to mark its row, then as one of marks. *)
Moved(t, marks) ==
  \E r \in TagProc :
    /\ tagger' = [tagger EXCEPT ![t] = r]
    /\ r.e = tagger[t].e /\ r.n = tagger[t].n /\ r.pc # "idle"
    /\ r.pc = "mark" => r.mark \in marks

LEMMA GoesMoved ==
  ASSUME tagger \in [Taggers -> TagProc], NEW t \in Taggers, NEW p \in TagPoints \ {"idle", "mark"}, NEW marks,
         tagger' = [tagger EXCEPT ![t].pc = p]
  PROVE  Moved(t, marks)
<1>1. PICK q \in TagProc : q = tagger[t]
  OBVIOUS
<1>2. PICK r : r = [q EXCEPT !.pc = p]
  OBVIOUS
<1>3. r \in TagProc /\ r.e = q.e /\ r.n = q.n /\ r.pc = p
  BY <1>2 DEF TagProc
<1>4. tagger' = [tagger EXCEPT ![t] = r]
  BY <1>1, <1>2
<1>. QED  BY <1>1, <1>3, <1>4 DEF Moved

LEMMA EndsMoved ==
  ASSUME tagger \in [Taggers -> TagProc], NEW t \in Taggers, NEW how \in TagEnds, NEW marks, Ends(t, how)
  PROVE  Moved(t, marks)
<1>1. PICK q \in TagProc : q = tagger[t]
  OBVIOUS
<1>2. PICK r : r = [q EXCEPT !.pc = "end", !.end = how]
  OBVIOUS
<1>3. r \in TagProc /\ r.e = q.e /\ r.n = q.n /\ r.pc = "end"
  BY <1>2 DEF TagProc, TagPoints
<1>4. tagger' = [tagger EXCEPT ![t] = r]
  BY <1>1, <1>2 DEF Ends
<1>. QED  BY <1>1, <1>3, <1>4 DEF Moved

LEMMA MarksMoved ==
  ASSUME tagger \in [Taggers -> TagProc], NEW t \in Taggers, NEW how \in TagEnds, NEW s \in TagStates, MarksTag(t, s, how)
  PROVE  Moved(t, {s})
<1>1. PICK q \in TagProc : q = tagger[t]
  OBVIOUS
<1>2. PICK r : r = [q EXCEPT !.pc = "mark", !.mark = s, !.end = how]
  OBVIOUS
<1>3. r \in TagProc /\ r.e = q.e /\ r.n = q.n /\ r.pc = "mark" /\ r.mark = s
  BY <1>2 DEF TagProc, TagPoints
<1>4. tagger' = [tagger EXCEPT ![t] = r]
  BY <1>1, <1>2 DEF MarksTag
<1>. QED  BY <1>1, <1>3, <1>4 DEF Moved

LEMMA FailedMoved ==
  ASSUME tagger \in [Taggers -> TagProc], NEW t \in Taggers, NEW s \in {"failed", "unknown"}, Failed(t, s)
  PROVE  Moved(t, {s})
<1>1. CASE tagger' = [tagger EXCEPT ![t].pc = "read", ![t].attempt = @ + 1]
  <2>1. PICK q \in TagProc : q = tagger[t]
    OBVIOUS
  <2>2. PICK a \in Nat : a = q.attempt + 1
    BY DEF TagProc
  <2>3. PICK r : r = [q EXCEPT !.pc = "read", !.attempt = a]
    OBVIOUS
  <2>4. r \in TagProc /\ r.e = q.e /\ r.n = q.n /\ r.pc = "read"
    BY <2>3 DEF TagProc, TagPoints
  <2>5. tagger' = [tagger EXCEPT ![t] = r]
    BY <1>1, <2>1, <2>2, <2>3
  <2>. QED  BY <2>1, <2>4, <2>5 DEF Moved
<1>2. s \in TagStates /\ "retry" \in TagEnds /\ "parked" \in TagEnds
  BY DEF TagStates, TagEnds
<1>. QED  BY <1>1, <1>2, MarksMoved DEF Failed

LEMMA RefusedMoved ==
  ASSUME tagger \in [Taggers -> TagProc], NEW t \in Taggers, RefusedTag(t)
  PROVE  Moved(t, {"failed"})
<1>1. "failed" \in TagStates /\ "retry" \in TagEnds /\ "parked" \in TagEnds
  BY DEF TagStates, TagEnds
<1>. QED  BY <1>1, FailedMoved, EndsMoved, MarksMoved DEF RefusedTag

(* The invariant after such a step; a tag may have been made by it.         *)
LEMMA MovedInv ==
  ASSUME TagInv, NEW t \in Taggers, NEW marks, Moved(t, marks), tagger[t].pc # "idle",
         UNCHANGED <<epoch, reassigning, tag, work, job>>, DOMAIN remote' = DOMAIN remote,
         \A n \in TagNumbers : remote[n] # None => remote'[n] = remote[n],
         "done" \in marks => Tagged(tagger[t].e, tagger[t].n)'
  PROVE  TagInv'
<1>1. TagTables'
  BY DEF TagInv, TagTables
<1>2. PICK r \in TagProc : /\ tagger' = [tagger EXCEPT ![t] = r]
                           /\ r.e = tagger[t].e /\ r.n = tagger[t].n /\ r.pc # "idle" /\ (r.pc = "mark" => r.mark \in marks)
  BY DEF Moved
<1>3. tagger \in [Taggers -> TagProc] /\ TaggerOK(tagger[t])
  BY DEF TagInv
<1>4. tagger' \in [Taggers -> TagProc] /\ tagger'[t] = r /\ \A u \in Taggers : u # t => tagger'[u] = tagger[u]
  BY <1>2, <1>3
<1>5. r.e \in TagEpochs /\ r.n \in DOMAIN tag'[r.e]
  BY <1>2, <1>3 DEF TaggerOK
<1>6. r.pc = "mark" /\ r.mark = "done" => remote'[r.n] # None /\ remote'[r.n] = History[r.e][r.n]
  <2>1. PICK e, n : e = r.e /\ n = r.n
    OBVIOUS
  <2>2. ASSUME "done" \in marks PROVE remote'[n] # None /\ remote'[n] = History[e][n]
    <3>1. tagger'[t].e = e /\ tagger'[t].n = n
      BY <1>4, <2>1
    <3>. QED  BY <2>2, <3>1 DEF Tagged
  <2>. QED  BY <1>2, <2>1, <2>2
<1>7. TaggerOK(tagger[t])'
  BY <1>4, <1>5, <1>6 DEF TaggerOK, Tagged
<1>8. \A u \in Taggers : tagger'[u] = tagger[u] \/ TaggerOK(tagger[u])'
  BY <1>4, <1>7
<1>9. \A n \in TagNumbers : Tagged(epoch, n) => remote'[n] = remote[n]
  BY DEF Tagged
<1>. QED  BY <1>1, <1>4, <1>8, <1>9, TagFrame

LEMMA ClaimTag ==
  ASSUME TagInv, NEW t \in Taggers, Claim(t)
  PROVE  TagInv'
<1>1. UNCHANGED <<epoch, reassigning, tag, remote, job>>
  BY DEF Claim
<1>2. PICK k \in DOMAIN work : /\ work[k].state = "due"
                               /\ work' = [work EXCEPT ![k] = [state |-> "leased", again |-> FALSE, owner |-> t]]
                               /\ tagger' = [tagger EXCEPT ![t] = [NoTagging EXCEPT !.pc = "target", !.e = k[1], !.n = k[2], !.attempt = 1]]
  BY DEF Claim
<1>3. DOMAIN work = TagEpochs \X TagNumbers
  BY DEF TagInv, WorkInv
<1>4. PICK e \in TagEpochs, n \in TagNumbers : k = <<e, n>> /\ k[1] = e /\ k[2] = n
  BY <1>3
<1>5. n \in DOMAIN tag[e]
  <2>1. work[k] # NoWork
    BY <1>2 DEF NoWork
  <2>. QED  BY <1>4, <2>1 DEF TagInv, WorkInv
<1>6. e \in Nat /\ n \in Nat
  BY <1>5, TagRows, TagAssumption DEF TagInv, TagEpochs
<1>7. PICK r : r = [NoTagging EXCEPT !.pc = "target", !.e = e, !.n = n, !.attempt = 1]
  OBVIOUS
<1>8. r \in TagProc /\ r.pc = "target" /\ r.e = e /\ r.n = n
  BY <1>6, <1>7 DEF NoTagging, TagProc, TagPoints, TagStates, TagEnds
<1>9. TaggerOK(r)
  BY <1>5, <1>8 DEF TaggerOK
<1>10. tagger' = [tagger EXCEPT ![t] = r]
  BY <1>2, <1>4, <1>7
<1>11. tagger' \in [Taggers -> TagProc] /\ \A u \in Taggers : tagger'[u] = tagger[u] \/ TaggerOK(tagger'[u])
  BY <1>8, <1>9, <1>10 DEF TagInv
<1>12. DOMAIN work' = DOMAIN work /\ \A a \in TagEpochs, b \in TagNumbers : work'[<<a, b>>] = work[<<a, b>>] \/ b \in DOMAIN tag[a]
  <2>1. \A x \in DOMAIN work : x # k => work'[x] = work[x]
    BY <1>2
  <2>. QED  BY <1>2, <1>3, <1>4, <1>5, <2>1
<1>. QED  BY <1>1, <1>11, <1>12, TagAside DEF TagInv, TagTables

LEMMA TargetTag ==
  ASSUME TagInv, NEW t \in Taggers, Target(t)
  PROVE  TagInv'
<1>1. UNCHANGED <<epoch, reassigning, tag, remote, work, job>> /\ tagger[t].pc # "idle" /\ tagger \in [Taggers -> TagProc]
  BY DEF Target, TagInv
<1>2. \/ \E how \in {"obsolete", "retry", "done"} : Ends(t, how)
      \/ MarksTag(t, "disabled", "done")
      \/ tagger' = [tagger EXCEPT ![t].pc = "read"]
  BY DEF Target
<1>3. "disabled" \in TagStates /\ "read" \in TagPoints \ {"idle", "mark"} /\ {"obsolete", "retry", "done"} \subseteq TagEnds
  BY DEF TagStates, TagPoints, TagEnds
<1>4. Moved(t, {"disabled"})
  BY <1>1, <1>2, <1>3, EndsMoved, MarksMoved, GoesMoved
<1>. QED  BY <1>1, <1>4, MovedInv

LEMMA CheckTagInv ==
  ASSUME TagInv, NEW t \in Taggers, CheckTag(t)
  PROVE  TagInv'
<1>1. UNCHANGED <<epoch, reassigning, tag, remote, work, job>> /\ tagger[t].pc # "idle" /\ tagger \in [Taggers -> TagProc]
  BY DEF CheckTag, TagInv
<1>2. Ends(t, "retry") \/ tagger' = [tagger EXCEPT ![t].pc = "post"]
  BY DEF CheckTag
<1>3. "post" \in TagPoints \ {"idle", "mark"} /\ "retry" \in TagEnds
  BY DEF TagPoints, TagEnds
<1>4. Moved(t, {})
  BY <1>1, <1>2, <1>3, EndsMoved, GoesMoved
<1>. QED  BY <1>1, <1>4, MovedInv

LEMMA DecideTagResult ==
  ASSUME NEW sha, NEW found, sha # None
  PROVE  DecideTag(sha, found) = IF found = None THEN "create" ELSE IF found = sha THEN "already_done" ELSE "conflict"
BY DEF DecideTag

(* The row of an execution has a commit.                                    *)
LEMMA TaggerRow ==
  ASSUME TagInv, NEW t \in Taggers, tagger[t].pc # "idle", NEW e, NEW n, e = tagger[t].e, n = tagger[t].n
  PROVE  e \in TagEpochs /\ n \in DOMAIN tag[e] /\ n \in TagNumbers /\ History[e][n] # None
BY TagRows DEF TagInv, TaggerOK

LEMMA ReadTagInv ==
  ASSUME TagInv, NEW t \in Taggers, ReadTag(t)
  PROVE  TagInv'
<1>1. UNCHANGED <<epoch, reassigning, tag, remote, work, job>> /\ tagger[t].pc # "idle" /\ tagger \in [Taggers -> TagProc]
  BY DEF ReadTag, TagInv
<1>2. PICK e, n : e = tagger[t].e /\ n = tagger[t].n
  OBVIOUS
<1>3. \/ MarksTag(t, "done", "done") /\ remote[n] # None /\ remote[n] = History[e][n]
      \/ MarksTag(t, "conflict", "done")
      \/ tagger' = [tagger EXCEPT ![t].pc = "check"]
      \/ MarksTag(t, "failed", "parked")
      \/ RefusedTag(t)
  <2>1. PICK d : d = DecideTag(History[e][n], remote[n])
    OBVIOUS
  <2>2. d = IF remote[n] = None THEN "create" ELSE IF remote[n] = History[e][n] THEN "already_done" ELSE "conflict"
    BY <1>1, <1>2, <2>1, TaggerRow, DecideTagResult
  <2>3. \/ CASE d = "already_done" -> MarksTag(t, "done", "done")
            [] d = "conflict" -> MarksTag(t, "conflict", "done")
            [] d = "create" -> IF tagger[t].pc = "read" THEN tagger' = [tagger EXCEPT ![t].pc = "check"]
                               ELSE MarksTag(t, "failed", "parked")
        \/ RefusedTag(t)
    BY <1>2, <2>1 DEF ReadTag
  <2>. QED  BY <2>2, <2>3
<1>4. {"done", "conflict", "failed"} \subseteq TagStates /\ "check" \in TagPoints \ {"idle", "mark"} /\ {"parked", "done"} \subseteq TagEnds
  BY DEF TagStates, TagPoints, TagEnds
<1>5. CASE MarksTag(t, "done", "done") /\ remote[n] # None /\ remote[n] = History[e][n]
  <2>2. Moved(t, {"done"})
    BY <1>1, <1>4, <1>5, MarksMoved
  <2>3. tagger'[t].e = e /\ tagger'[t].n = n
    BY <1>1, <1>2, <2>2 DEF Moved
  <2>4. Tagged(tagger[t].e, tagger[t].n)'
    BY <1>1, <1>5, <2>3 DEF Tagged
  <2>. QED  BY <1>1, <2>2, <2>4, MovedInv
<1>6. CASE MarksTag(t, "conflict", "done")
  BY <1>1, <1>4, <1>6, MarksMoved, MovedInv
<1>7. CASE tagger' = [tagger EXCEPT ![t].pc = "check"]
  <2>1. Moved(t, {})
    BY <1>1, <1>4, <1>7, GoesMoved
  <2>. QED  BY <1>1, <2>1, MovedInv
<1>8. CASE MarksTag(t, "failed", "parked")
  BY <1>1, <1>4, <1>8, MarksMoved, MovedInv
<1>9. CASE RefusedTag(t)
  BY <1>1, <1>9, RefusedMoved, MovedInv
<1>. QED  BY <1>3, <1>5, <1>6, <1>7, <1>8, <1>9

(* createTagRef makes a tag only where there is none.                       *)
LEMMA MadeTag ==
  ASSUME TagTables, NEW n, NEW sha, remote' = Made(n, sha)
  PROVE  /\ DOMAIN remote' = DOMAIN remote
         /\ \A m \in TagNumbers : remote[m] # None => remote'[m] = remote[m]
         /\ n \in TagNumbers /\ remote[n] = None => remote'[n] = sha
BY DEF TagTables, Made

LEMMA PostTagInv ==
  ASSUME TagInv, NEW t \in Taggers, PostTag(t)
  PROVE  TagInv'
<1>1. UNCHANGED <<epoch, reassigning, tag, work, job>> /\ tagger[t].pc # "idle" /\ tagger \in [Taggers -> TagProc]
  BY DEF PostTag, TagInv
<1>2. PICK e, n : e = tagger[t].e /\ n = tagger[t].n
  OBVIOUS
<1>3. \/ remote[n] = None /\ remote' = Made(n, History[e][n]) /\ MarksTag(t, "done", "done")
      \/ tagger' = [tagger EXCEPT ![t].pc = "reread"] /\ remote' = remote
      \/ RefusedTag(t) /\ remote' = remote
      \/ Failed(t, "unknown") /\ remote' = remote
  BY <1>2 DEF PostTag, NoTagAnswer
<1>4. "done" \in TagStates /\ "reread" \in TagPoints \ {"idle", "mark"} /\ "done" \in TagEnds
  BY DEF TagStates, TagPoints, TagEnds
<1>5. CASE remote[n] = None /\ remote' = Made(n, History[e][n]) /\ MarksTag(t, "done", "done")
  <2>1. TagTables /\ n \in TagNumbers /\ History[e][n] # None
    BY <1>1, <1>2, TaggerRow DEF TagInv
  <2>2. /\ DOMAIN remote' = DOMAIN remote /\ remote'[n] = History[e][n]
        /\ \A m \in TagNumbers : remote[m] # None => remote'[m] = remote[m]
    BY <1>5, <2>1, MadeTag
  <2>3. Moved(t, {"done"})
    BY <1>1, <1>4, <1>5, MarksMoved
  <2>4. tagger'[t].e = e /\ tagger'[t].n = n
    BY <1>1, <1>2, <2>3 DEF Moved
  <2>5. Tagged(tagger[t].e, tagger[t].n)'
    BY <2>1, <2>2, <2>4 DEF Tagged
  <2>. QED  BY <1>1, <2>2, <2>3, <2>5, MovedInv
<1>6. CASE tagger' = [tagger EXCEPT ![t].pc = "reread"] /\ remote' = remote
  <2>1. Moved(t, {})
    BY <1>1, <1>4, <1>6, GoesMoved
  <2>. QED  BY <1>1, <1>6, <2>1, MovedInv
<1>7. CASE RefusedTag(t) /\ remote' = remote
  BY <1>1, <1>7, RefusedMoved, MovedInv
<1>8. CASE Failed(t, "unknown") /\ remote' = remote
  BY <1>1, <1>8, FailedMoved, MovedInv
<1>. QED  BY <1>3, <1>5, <1>6, <1>7, <1>8

LEMMA ReplacedElement ==
  ASSUME NEW S, NEW old \in Seq(S), NEW n \in DOMAIN old, NEW s \in S, NEW new, new = [old EXCEPT ![n] = s]
  PROVE  /\ new \in Seq(S) /\ Len(new) = Len(old) /\ DOMAIN new = DOMAIN old
         /\ new[n] = s /\ \A m \in DOMAIN old : m # n => new[m] = old[m]
OBVIOUS

(* markTagState writes `done' only where the tag is, if the epoch is.       *)
LEMMA MarkTagInv ==
  ASSUME TagInv, NEW t \in Taggers, MarkTag(t)
  PROVE  TagInv'
<1>1. UNCHANGED <<epoch, reassigning, remote, work, job>> /\ tagger[t].pc = "mark" /\ tagger \in [Taggers -> TagProc]
  BY DEF MarkTag, TagInv
<1>2. PICK q \in TagProc : q = tagger[t] /\ TaggerOK(q)
  BY <1>1 DEF TagInv
<1>3. PICK e \in TagEpochs, n \in Nat, s \in TagStates : q.e = e /\ q.n = n /\ q.mark = s /\ n \in DOMAIN tag[e]
  BY <1>1, <1>2 DEF TaggerOK, TagProc
<1>4. tag' = [tag EXCEPT ![e][n] = s] /\ tagger' = [tagger EXCEPT ![t].pc = "end"]
  BY <1>2, <1>3 DEF MarkTag, WriteRow
<1>5. TagTables /\ tag \in [TagEpochs -> Seq(TagStates)]
  BY DEF TagInv, TagTables
<1>6. tag[e] \in Seq(TagStates) /\ DOMAIN tag[e] = 1 .. Len(tag[e]) /\ Len(tag[e]) \in Nat
  BY <1>5, TagRows
<1>7. PICK new : new = [tag[e] EXCEPT ![n] = s]
  OBVIOUS
<1>8. /\ new \in Seq(TagStates) /\ Len(new) = Len(tag[e]) /\ DOMAIN new = DOMAIN tag[e]
      /\ new[n] = s /\ \A m \in DOMAIN tag[e] : m # n => new[m] = tag[e][m]
  BY <1>3, <1>6, <1>7, ReplacedElement
<1>9. tag' = [tag EXCEPT ![e] = new]
  BY <1>4, <1>7
<1>10. tag' \in [TagEpochs -> Seq(TagStates)] /\ tag'[e] = new /\ \A a \in TagEpochs : a # e => tag'[a] = tag[a]
  BY <1>5, <1>8, <1>9
<1>11. tag[e] # <<>> /\ \A a \in TagEpochs : DOMAIN tag'[a] = DOMAIN tag[a] /\ Len(tag'[a]) = Len(tag[a])
  BY <1>3, <1>6, <1>8, <1>10
<1>12. TagTables'
  BY <1>1, <1>10, <1>11 DEF TagTables, TagInv
<1>13. epoch \in TagEpochs
  BY <1>5 DEF TagTables
<1>14. ASSUME NEW m \in DOMAIN tag'[epoch], tag'[epoch][m] = "done"
       PROVE  (m \in DOMAIN tag[epoch] /\ tag[epoch][m] = "done") \/ Tagged(epoch, m)'
  <2>1. CASE e = epoch /\ m = n
    <3>1. s = "done"
      BY <1>8, <1>10, <1>14, <2>1
    <3>2. Tagged(epoch, m)
      BY <1>1, <1>2, <1>3, <2>1, <3>1 DEF TaggerOK
    <3>. QED  BY <1>1, <3>2 DEF Tagged
  <2>2. CASE ~(e = epoch /\ m = n)
    <3>1. m \in DOMAIN tag[epoch]
      BY <1>11, <1>13, <1>14
    <3>2. tag'[epoch][m] = tag[epoch][m]
      BY <1>8, <1>10, <1>13, <2>2, <3>1
    <3>. QED  BY <1>14, <3>1, <3>2
  <2>. QED  BY <2>1, <2>2
<1>15. Moved(t, {})
  BY <1>1, <1>4, GoesMoved DEF TagPoints
<1>16. PICK r \in TagProc : tagger' = [tagger EXCEPT ![t] = r] /\ r.e = e /\ r.n = n /\ r.pc # "mark"
  BY <1>2, <1>3, <1>15 DEF Moved
<1>17. tagger' \in [Taggers -> TagProc] /\ tagger'[t] = r /\ \A u \in Taggers : u # t => tagger'[u] = tagger[u]
  BY <1>1, <1>16
<1>18. TaggerOK(tagger[t])'
  BY <1>3, <1>11, <1>16, <1>17 DEF TaggerOK
<1>19. \A u \in Taggers : tagger'[u] = tagger[u] \/ TaggerOK(tagger[u])'
  BY <1>17, <1>18
<1>. QED  BY <1>1, <1>11, <1>12, <1>14, <1>17, <1>19, TagFrame

(* The ends of executions, and requests of work, are about rows.            *)
LEMMA EndedWork ==
  ASSUME NEW w, NEW t, NEW how, w = NoWork, t # None
  PROVE  Ended(w, t, how) = NoWork
BY DEF Ended, NoWork

LEMMA NoTaggingOK == NoTagging \in TagProc /\ TaggerOK(NoTagging)
BY DEF NoTagging, TagProc, TagPoints, TagStates, TagEnds, TaggerOK

LEMMA WorkKeys ==
  ASSUME TagInv
  PROVE  /\ DOMAIN work = TagEpochs \X TagNumbers
         /\ \A e \in TagEpochs, n \in TagNumbers : <<e, n>> \in DOMAIN work /\ (work[<<e, n>>] = NoWork \/ n \in DOMAIN tag[e])
         /\ \A k \in DOMAIN work : k = <<k[1], k[2]>> /\ k[1] \in TagEpochs /\ k[2] \in TagNumbers
BY DEF TagInv, WorkInv

LEMMA EndTagInv ==
  ASSUME TagInv, NEW t \in Taggers, End(t) \/ DieTagging(t)
  PROVE  TagInv'
<1>1. UNCHANGED <<epoch, reassigning, tag, remote, job>> /\ tagger[t].pc # "idle" /\ tagger' = [tagger EXCEPT ![t] = NoTagging]
  BY DEF End, DieTagging
<1>2. tagger' \in [Taggers -> TagProc] /\ \A u \in Taggers : tagger'[u] = tagger[u] \/ TaggerOK(tagger'[u])
  BY <1>1, NoTaggingOK DEF TagInv
<1>3. DOMAIN work' = DOMAIN work
  BY DEF End, DieTagging
<1>4. ASSUME NEW e \in TagEpochs, NEW n \in TagNumbers
      PROVE  work'[<<e, n>>] = work[<<e, n>>] \/ work'[<<e, n>>] = NoWork \/ n \in DOMAIN tag[e]
  <2>1. PICK k : k = <<e, n>> /\ k \in DOMAIN work /\ (work[k] = NoWork \/ n \in DOMAIN tag[e])
    BY WorkKeys
  <2>2. work'[k] = work[k] \/ \E how \in {tagger[t].end, "retry"} : work'[k] = Ended(work[k], t, how)
    BY <2>1 DEF End, DieTagging
  <2>3. t # None
    BY TagAssumption
  <2>. QED  BY <2>1, <2>2, <2>3, EndedWork
<1>. QED  BY <1>1, <1>2, <1>3, <1>4, TagAside DEF TagInv, TagTables

LEMMA RequestTagInv ==
  ASSUME TagInv, SweepTags \/ Request \/ LoseLease
  PROVE  TagInv'
<1>1. UNCHANGED <<epoch, reassigning, tag, remote, tagger>> /\ (job' = job \/ job' = NoJob)
  BY DEF SweepTags, Request, LoseLease
<1>2. JobOK(NoJob)
  BY DEF JobOK, JobShape, NoJob
<1>3. DOMAIN work' = DOMAIN work
  BY DEF SweepTags, Request, LoseLease
<1>4. ASSUME NEW e \in TagEpochs, NEW n \in TagNumbers
      PROVE  work'[<<e, n>>] = work[<<e, n>>] \/ work'[<<e, n>>] = NoWork \/ n \in DOMAIN tag[e]
  <2>1. PICK k : k = <<e, n>> /\ k[1] = e /\ k[2] = n /\ k \in DOMAIN work /\ (work[k] = NoWork \/ n \in DOMAIN tag[e])
    BY WorkKeys
  <2>2. CASE SweepTags
    <3>1. work'[k] = work[k] \/ (e = epoch /\ n \in Sweepable)
      BY <2>1, <2>2 DEF SweepTags
    <3>. QED  BY <2>1, <3>1 DEF Sweepable, Assigned
  <2>3. CASE Request
    <3>1. work'[k] = work[k] \/ (e = job.e /\ n \in DOMAIN job.rows)
      BY <2>1, <2>3 DEF Request
    <3>2. DOMAIN job.rows \subseteq DOMAIN tag[job.e]
      BY <2>3 DEF Request, TagInv, JobOK
    <3>. QED  BY <2>1, <3>1, <3>2
  <2>4. CASE LoseLease
    <3>1. work'[k] = work[k] \/ work[k].owner # None
      BY <2>1, <2>4 DEF LoseLease
    <3>. QED  BY <2>1, <3>1 DEF NoWork
  <2>. QED  BY <2>2, <2>3, <2>4
<1>. QED  BY <1>1, <1>2, <1>3, <1>4, TagAside DEF TagInv, TagTables

----------------------------------------------------------------------------
(* Rows, tags and the reconcile job.                                        *)

LEMMA AssignTagInv ==
  ASSUME TagInv, AssignTag
  PROVE  TagInv'
<1>1. UNCHANGED <<epoch, reassigning, remote, tagger, job>>
  BY DEF AssignTag
<1>2. TagTables /\ epoch \in TagEpochs /\ tag \in [TagEpochs -> Seq(TagStates)]
  BY DEF TagInv, TagTables
<1>3. tag[epoch] \in Seq(TagStates) /\ Len(tag[epoch]) \in Nat /\ DOMAIN tag[epoch] = 1 .. Len(tag[epoch])
  BY <1>2, TagRows
<1>4. PICK n \in Nat : n = Len(tag[epoch]) + 1 /\ n <= Len(History[epoch])
  BY <1>3 DEF AssignTag
<1>5. PICK new : new = tag[epoch] \o <<"null">>
  OBVIOUS
<1>6. /\ new \in Seq(TagStates) /\ Len(new) = n /\ DOMAIN new = 1 .. n
      /\ new[n] = "null" /\ \A m \in DOMAIN tag[epoch] : new[m] = tag[epoch][m]
  BY <1>3, <1>4, <1>5 DEF TagStates
<1>7. tag' = [tag EXCEPT ![epoch] = new] /\ work' = [work EXCEPT ![<<epoch, n>>] = Requested(@)]
  BY <1>4, <1>5 DEF AssignTag
<1>8. tag' \in [TagEpochs -> Seq(TagStates)] /\ tag'[epoch] = new /\ \A a \in TagEpochs : a # epoch => tag'[a] = tag[a]
  BY <1>2, <1>6, <1>7
<1>9. epoch \in Nat
  BY <1>2, TagAssumption DEF TagEpochs
<1>10. TagTables'
  BY <1>1, <1>2, <1>4, <1>6, <1>8, <1>9 DEF TagTables
<1>11. \A a \in TagEpochs : DOMAIN tag[a] \subseteq DOMAIN tag'[a]
  BY <1>3, <1>4, <1>6, <1>8
<1>12. ASSUME NEW m \in DOMAIN tag'[epoch], tag'[epoch][m] = "done"
       PROVE  m \in DOMAIN tag[epoch] /\ tag[epoch][m] = "done"
  BY <1>3, <1>4, <1>6, <1>8, <1>12
<1>13. /\ DOMAIN work' = DOMAIN work
       /\ \A a \in TagEpochs, b \in TagNumbers : work'[<<a, b>>] = work[<<a, b>>] \/ b \in DOMAIN tag'[a]
  <2>1. n \in DOMAIN tag'[epoch]
    BY <1>4, <1>6, <1>8
  <2>2. ASSUME NEW a \in TagEpochs, NEW b \in TagNumbers, work'[<<a, b>>] # work[<<a, b>>]
        PROVE  <<a, b>> = <<epoch, n>>
    BY <1>7, <2>2, WorkKeys
  <2>. QED  BY <1>7, <2>1, <2>2
<1>14. tagger' \in [Taggers -> TagProc]
  BY <1>1 DEF TagInv
<1>. QED  BY <1>1, <1>10, <1>11, <1>12, <1>13, <1>14, TagFrame

LEMMA RemoteTagInv ==
  ASSUME TagInv, LandTag \/ \E n \in Numbers : MakeForeignTag(n) \/ DeleteTag(n)
  PROVE  TagInv'
<1>1. UNCHANGED <<epoch, reassigning, tag, work, tagger, job>> /\ TagTables /\ tagger \in [Taggers -> TagProc]
  BY DEF LandTag, MakeForeignTag, DeleteTag, TagInv
<1>2. DOMAIN remote' = DOMAIN remote /\ \A m \in TagNumbers : Tagged(epoch, m) => remote'[m] = remote[m]
  <2>1. CASE LandTag
    <3>1. PICK f \in flight : remote' = Made(f[1], f[2])
      BY <2>1 DEF LandTag
    <3>. QED  BY <1>1, <3>1, MadeTag DEF Tagged
  <2>2. ASSUME NEW n \in Numbers, MakeForeignTag(n) PROVE DOMAIN remote' = DOMAIN remote /\ \A m \in TagNumbers : Tagged(epoch, m) => remote'[m] = remote[m]
    BY <1>1, <2>2 DEF MakeForeignTag, Tagged, TagTables
  <2>3. ASSUME NEW n \in Numbers, DeleteTag(n) PROVE DOMAIN remote' = DOMAIN remote /\ \A m \in TagNumbers : Tagged(epoch, m) => remote'[m] = remote[m]
    BY <1>1, <2>3 DEF DeleteTag, Tagged, TagTables
  <2>. QED  BY <2>1, <2>2, <2>3
<1>3. TagTables'
  BY <1>1, <1>2 DEF TagTables
<1>. QED  BY <1>1, <1>2, <1>3, TagFrame

(* A new epoch has no rows, and everything that is under way is of an older *)
(* one.                                                                     *)
LEMMA RebuildTagInv ==
  ASSUME TagInv, MarkRebuild \/ Rebuild
  PROVE  TagInv'
<1>1. UNCHANGED <<tag, remote, work, tagger, job>>
  BY DEF MarkRebuild, Rebuild
<1>2. tagger \in [Taggers -> TagProc] /\ TagTables /\ epoch \in TagEpochs
  BY DEF TagInv, TagTables
<1>3. CASE epoch' = epoch
  <2>1. reassigning' => epoch < MaxEpoch
    BY DEF MarkRebuild, Rebuild
  <2>. QED  BY <1>1, <1>2, <1>3, <2>1, TagAside
<1>4. CASE Rebuild /\ epoch' = epoch + 1
  <2>1. epoch \in Nat /\ epoch' \in TagEpochs /\ epoch < epoch' /\ ~reassigning'
    BY <1>2, <1>4, TagAssumption DEF Rebuild, TagTables, TagEpochs
  <2>2. TagTables' /\ tag'[epoch'] = <<>>
    BY <1>1, <2>1 DEF TagInv, TagTables, TagEpochs
  <2>3. RowsTagged'
    BY <2>2 DEF RowsTagged
  <2>4. WorkInv'
    BY <1>1 DEF TagInv, WorkInv
  <2>5. ASSUME NEW t \in Taggers PROVE TaggerOK(tagger[t])'
    <3>1. PICK q : q = tagger[t] /\ TaggerOK(q)
      BY DEF TagInv
    <3>2. q.pc # "idle" => q.e # epoch'
      BY <1>1, <2>2, <3>1 DEF TaggerOK
    <3>. QED  BY <1>1, <3>1, <3>2 DEF TaggerOK
  <2>6. JobOK(job)'
    <3>1. PICK j : j = job /\ JobOK(j)
      BY DEF TagInv
    <3>2. j.pc # "idle" => j.e <= epoch' /\ j.e # epoch'
      BY <2>1, <3>1, TagAssumption DEF JobOK, TagEpochs
    <3>. QED  BY <1>1, <3>1, <3>2 DEF JobOK, JobShape
  <2>. QED  BY <1>1, <1>2, <2>2, <2>3, <2>4, <2>5, <2>6 DEF TagInv
<1>. QED  BY <1>3, <1>4 DEF MarkRebuild, Rebuild

LEMMA StartJobInv ==
  ASSUME TagInv, StartJob
  PROVE  TagInv'
<1>1. UNCHANGED <<epoch, reassigning, tag, remote, work, tagger>>
  BY DEF StartJob
<1>2. epoch \in TagEpochs /\ epoch <= epoch /\ tagger \in [Taggers -> TagProc] /\ TagTables
  BY TagAssumption DEF TagInv, TagTables, TagEpochs
<1>3. PICK b : job' = [NoJob EXCEPT !.pc = "list", !.e = epoch, !.blocked = b]
  BY DEF StartJob
<1>4. PICK j : j = job'
  OBVIOUS
<1>5. j = [pc |-> "list", e |-> epoch, list |-> <<>>, cut |-> FALSE, rows |-> <<>>, blocked |-> b]
  BY <1>3, <1>4 DEF NoJob
<1>6. JobOK(j)
  BY <1>2, <1>5 DEF JobOK, JobShape
<1>. QED  BY <1>1, <1>2, <1>4, <1>6, TagAside DEF TagTables

LEMMA ListInv ==
  ASSUME TagInv, List
  PROVE  TagInv'
<1>1. UNCHANGED <<epoch, reassigning, tag, remote, work, tagger>> /\ tagger \in [Taggers -> TagProc] /\ TagTables
  BY DEF List, TagInv
<1>2. PICK list, cut : /\ job' = [job EXCEPT !.pc = "page", !.list = list, !.cut = cut]
                       /\ \A n \in TagNumbers : list[n] = remote[n] \/ list[n] = None
  <2>1. CASE job' = [job EXCEPT !.pc = "page", !.list = remote]
    <3>1. job' = [job EXCEPT !.pc = "page", !.list = remote, !.cut = job.cut]
      BY <2>1 DEF TagInv, JobOK, JobShape
    <3>. QED  BY <3>1
  <2>2. ASSUME NEW k \in Numbers,
               job' = [job EXCEPT !.pc = "page", !.list = [n \in Numbers |-> IF n < k THEN remote[n] ELSE None], !.cut = TRUE]
        PROVE  \E list, cut : /\ job' = [job EXCEPT !.pc = "page", !.list = list, !.cut = cut]
                              /\ \A n \in TagNumbers : list[n] = remote[n] \/ list[n] = None
    <3>1. Numbers = TagNumbers
      BY <1>1 DEF TagTables, Numbers
    <3>2. PICK list : list = [n \in Numbers |-> IF n < k THEN remote[n] ELSE None]
      OBVIOUS
    <3>3. \A n \in TagNumbers : list[n] = remote[n] \/ list[n] = None
      BY <3>1, <3>2
    <3>4. job' = [job EXCEPT !.pc = "page", !.list = list, !.cut = TRUE]
      BY <2>2, <3>2
    <3>. QED  BY <3>3, <3>4
  <2>. QED  BY <2>1, <2>2 DEF List
<1>3. PICK j : j = job' /\ JobOK(job)
  BY DEF TagInv
<1>4. j = [pc |-> "page", e |-> job.e, list |-> list, cut |-> cut, rows |-> job.rows, blocked |-> job.blocked]
  BY <1>2, <1>3 DEF JobOK, JobShape
<1>5. job.pc = "list" /\ job.e \in TagEpochs /\ job.e <= epoch
  BY <1>3 DEF List, JobOK
<1>6. JobOK(j)
  BY <1>2, <1>4, <1>5 DEF JobOK, JobShape, Tagged
<1>. QED  BY <1>1, <1>3, <1>6, TagAside DEF TagTables

LEMMA PageInv ==
  ASSUME TagInv, Page
  PROVE  TagInv'
<1>1. UNCHANGED <<epoch, reassigning, tag, remote, work, tagger>> /\ tagger \in [Taggers -> TagProc] /\ TagTables
  BY DEF Page, TagInv
<1>2. PICK j : j = job' /\ JobOK(job)
  BY DEF TagInv
<1>3. PICK rows : rows = tag[job.e] /\ job' = [job EXCEPT !.pc = "compare", !.rows = rows]
  BY DEF Page
<1>4. j = [pc |-> "compare", e |-> job.e, list |-> job.list, cut |-> job.cut, rows |-> rows, blocked |-> job.blocked]
  BY <1>2, <1>3 DEF JobOK, JobShape
<1>5. job.pc = "page"
  BY DEF Page
<1>6. JobOK(j)
  BY <1>2, <1>3, <1>4, <1>5 DEF JobOK, JobShape
<1>. QED  BY <1>1, <1>2, <1>6, TagAside DEF TagTables

(* reconcileTags marks `done' what it listed at its commit.                 *)
LEMMA CompareInv ==
  ASSUME TagInv, Compare
  PROVE  TagInv'
<1>1. UNCHANGED <<epoch, reassigning, remote, work, tagger>> /\ tagger \in [Taggers -> TagProc] /\ TagTables
  BY DEF Compare, TagInv
<1>2. /\ JobOK(job) /\ job.pc = "compare" /\ job.e \in TagEpochs /\ job.e <= epoch /\ DOMAIN job.rows \subseteq DOMAIN tag[job.e]
      /\ epoch \in TagEpochs /\ tag \in [TagEpochs -> Seq(TagStates)]
  BY <1>1 DEF Compare, TagInv, JobOK, TagTables
<1>3. PICK e \in TagEpochs : e = job.e
  BY <1>2
<1>4. tag[e] \in Seq(TagStates) /\ Len(tag[e]) \in Nat /\ DOMAIN tag[e] = 1 .. Len(tag[e]) /\ DOMAIN tag[e] \subseteq TagNumbers
  BY <1>1, TagRows
<1>5. PICK new : new = [n \in DOMAIN tag[e] |-> IF n \in DOMAIN job.rows THEN Compared(n, tag[e][n]) ELSE tag[e][n]]
  OBVIOUS
<1>6. tag' = [tag EXCEPT ![e] = new]
  BY <1>3, <1>5 DEF Compare
<1>7. ASSUME NEW n \in DOMAIN tag[e]
      PROVE  /\ new[n] \in TagStates
             /\ new[n] = "done" => tag[e][n] = "done" \/ (job.list[n] # None /\ job.list[n] = History[e][n])
  <2>1. tag[e][n] \in TagStates /\ History[e][n] # None
    BY <1>1, <1>4, <1>7, TagRows
  <2>2. CASE n \notin DOMAIN job.rows
    BY <1>5, <1>7, <2>1, <2>2
  <2>3. CASE n \in DOMAIN job.rows
    <3>1. PICK c, l, s : c = Compared(n, s) /\ l = job.list[n] /\ s = tag[e][n] /\ new[n] = c
      BY <1>5, <1>7, <2>3
    <3>2. PICK d : d = DecideTag(History[e][n], l)
      OBVIOUS
    <3>3. d = IF l = None THEN "create" ELSE IF l = History[e][n] THEN "already_done" ELSE "conflict"
      BY <2>1, <3>2, DecideTagResult
    <3>4. c = CASE l = None -> IF job.rows[n] = "conflict" /\ ~job.cut THEN "null" ELSE s
                [] d = "already_done" -> IF job.rows[n] # "done" THEN "done" ELSE s
                [] OTHER -> IF job.rows[n] # "conflict" THEN "conflict" ELSE s
      BY <1>3, <3>1, <3>2 DEF Compared
    <3>5. c \in {"null", "conflict", s} \/ (c = "done" /\ l # None /\ l = History[e][n])
      BY <3>3, <3>4
    <3>. QED  BY <2>1, <3>1, <3>5 DEF TagStates
  <2>. QED  BY <2>2, <2>3
<1>8. DOMAIN new = DOMAIN tag[e] /\ new \in [1 .. Len(tag[e]) -> TagStates]
  BY <1>4, <1>5, <1>7
<1>9. new \in Seq(TagStates) /\ Len(new) = Len(tag[e])
  BY <1>4, <1>8
<1>10. tag' \in [TagEpochs -> Seq(TagStates)] /\ tag'[e] = new /\ \A a \in TagEpochs : a # e => tag'[a] = tag[a]
  BY <1>2, <1>6, <1>9
<1>11. \A a \in TagEpochs : DOMAIN tag'[a] = DOMAIN tag[a] /\ Len(tag'[a]) = Len(tag[a])
  BY <1>8, <1>9, <1>10
<1>12. ~(e > epoch)
  BY <1>2, <1>3, TagAssumption DEF TagEpochs
<1>13. TagTables'
  BY <1>1, <1>10, <1>11, <1>12 DEF TagTables
<1>14. ASSUME NEW m \in DOMAIN tag'[epoch], tag'[epoch][m] = "done"
       PROVE  (m \in DOMAIN tag[epoch] /\ tag[epoch][m] = "done") \/ Tagged(epoch, m)'
  <2>1. m \in DOMAIN tag[epoch]
    BY <1>2, <1>11, <1>14
  <2>2. CASE e # epoch
    BY <1>2, <1>10, <1>14, <2>1, <2>2
  <2>3. CASE e = epoch /\ tag[epoch][m] # "done"
    <3>1. job.list[m] # None /\ job.list[m] = History[e][m] /\ m \in TagNumbers
      BY <1>4, <1>7, <1>10, <1>14, <2>1, <2>3
    <3>2. Tagged(e, m)
      BY <1>2, <1>3, <2>3, <3>1 DEF JobOK
    <3>. QED  BY <1>1, <2>3, <3>2 DEF Tagged
  <2>. QED  BY <2>1, <2>2, <2>3
<1>15. PICK j : j = job'
  OBVIOUS
<1>16. j = [pc |-> "request", e |-> e, list |-> job.list, cut |-> job.cut, rows |-> job.rows, blocked |-> job.blocked]
  BY <1>2, <1>3, <1>15 DEF Compare, JobOK, JobShape
<1>17. JobOK(j)'
  <2>1. DOMAIN job.rows \subseteq DOMAIN tag'[e]
    BY <1>2, <1>3, <1>11
  <2>2. e = epoch => \A n \in TagNumbers : job.list[n] # None /\ job.list[n] = History[e][n] => Tagged(e, n)
    BY <1>2, <1>3 DEF JobOK
  <2>3. /\ j.pc = "request" /\ j.e = e /\ j.list = job.list /\ j.rows = job.rows
        /\ j = [pc |-> j.pc, e |-> j.e, list |-> j.list, cut |-> j.cut, rows |-> j.rows, blocked |-> j.blocked]
    BY <1>16
  <2>. QED  BY <1>1, <1>2, <1>3, <2>1, <2>2, <2>3 DEF JobOK, JobShape, Tagged
<1>18. JobOK(job)'
  BY <1>15, <1>17
<1>. QED  BY <1>1, <1>11, <1>13, <1>14, <1>18, TagFrame

----------------------------------------------------------------------------
LEMMA InitTag == TagInit => TagInv
<1>. SUFFICES ASSUME TagInit PROVE TagInv
  OBVIOUS
<1>1. TagTables
  <2>1. /\ epoch = 1 /\ reassigning = FALSE /\ tag = [e \in TagEpochs |-> <<>>] /\ remote = [n \in TagNumbers |-> None]
    BY DEF TagInit, TagEpochs, TagNumbers
  <2>2. epoch \in TagEpochs
    BY <2>1, TagAssumption DEF TagEpochs
  <2>3. \A e \in TagEpochs : Len(<<>>) <= Len(History[e])
    BY TagAssumption DEF TagEpochs
  <2>4. <<>> \in Seq(TagStates)
    OBVIOUS
  <2>. QED  BY <2>1, <2>2, <2>3, <2>4 DEF TagTables
<1>2. WorkInv
  <2>1. Epochs = TagEpochs /\ Numbers = TagNumbers
    BY DEF TagInit, Epochs, Numbers, TagEpochs, TagNumbers
  <2>2. work = [k \in Epochs \X Numbers |-> NoWork]
    BY DEF TagInit
  <2>. QED  BY <2>1, <2>2 DEF WorkInv
<1>3. JobOK(job)
  BY DEF TagInit, NoJob, JobOK, JobShape
<1>4. RowsTagged
  <2>1. epoch \in TagEpochs /\ tag[epoch] = <<>>
    BY <1>1 DEF TagInit, TagTables, TagEpochs
  <2>. QED  BY <2>1 DEF RowsTagged
<1>5. tagger \in [Taggers -> TagProc] /\ \A t \in Taggers : TaggerOK(tagger[t])
  BY NoTaggingOK DEF TagInit
<1>. QED  BY <1>1, <1>2, <1>3, <1>4, <1>5 DEF TagInv

LEMMA NextTag == TagInv /\ [TagNext]_tagVars => TagInv'
<1>. SUFFICES ASSUME TagInv, [TagNext]_tagVars PROVE TagInv'
  OBVIOUS
<1>1. CASE SwitchTags \/ CoolDownTags \/ UNCHANGED tagVars
  <2>1. UNCHANGED <<epoch, reassigning, tag, remote, work, tagger, job>>
    BY <1>1 DEF SwitchTags, CoolDownTags, tagVars
  <2>2. tagger' \in [Taggers -> TagProc] /\ (reassigning' => epoch < MaxEpoch)
    BY <2>1 DEF TagInv, TagTables
  <2>. QED  BY <2>1, <2>2, TagAside
<1>2. CASE AssignTag
  BY <1>2, AssignTagInv
<1>3. CASE MarkRebuild \/ Rebuild
  BY <1>3, RebuildTagInv
<1>4. CASE LandTag \/ \E n \in Numbers : MakeForeignTag(n) \/ DeleteTag(n)
  BY <1>4, RemoteTagInv
<1>5. ASSUME NEW t \in Taggers, Tagging(t) \/ DieTagging(t) PROVE TagInv'
  BY <1>5, ClaimTag, TargetTag, ReadTagInv, CheckTagInv, PostTagInv, MarkTagInv, EndTagInv DEF Tagging
<1>6. CASE SweepTags \/ LoseLease
  BY <1>6, RequestTagInv
<1>7. CASE Reconcile
  BY <1>7, StartJobInv, ListInv, PageInv, CompareInv, RequestTagInv DEF Reconcile
<1>. QED  BY <1>1, <1>2, <1>3, <1>4, <1>5, <1>6, <1>7 DEF TagNext

(* A row of the current epoch that says `done' has its tag on GitHub at its *)
(* own commit, for any number of executions, epochs, lost answers, late     *)
(* requests, tags of others, deletions by the runbook and reconcile jobs    *)
(* (attemptOnce, decideTagAction, markTagState, reconcileTags).             *)
THEOREM DoneTagsExist == TagSpec => []DoneIsTagged
<1>1. TagInv => DoneIsTagged
  BY DEF TagInv, RowsTagged, Tagged, DoneIsTagged, Assigned
<1>. QED  BY <1>1, InitTag, NextTag, PTL DEF TagSpec
============================================================================
