-------------------------- MODULE TitleAnnotation --------------------------
(***************************************************************************)
(* The merge number in the title of its pull request.  Passes of the       *)
(* annotation job, started by an event or by the sweeper, one at a time    *)
(* under a session lock, read the title from GitHub, decide, ask again     *)
(* whether the row is current, and replace the title.  A title is a        *)
(* sequence of merge number prefixes; the text after them is left out.     *)
(* One repository with one numbered branch is modelled.                    *)
(***************************************************************************)
EXTENDS NumberedBranch

CONSTANTS
  Prs,
  Rejected,      \* the pull requests whose title GitHub never accepts
  Runners,       \* processes
  Limit,         \* sweepLimit
  MaxAttempts    \* ANNOTATE_MAX_ATTEMPTS

ASSUME TitleAssumption ==
  /\ MaxEpoch \in Nat \ {0} /\ History \in [1 .. MaxEpoch -> Seq(Prs)]
  /\ Limit \in Nat /\ MaxAttempts \in Nat /\ MaxFaults \in Nat
  /\ None \notin Runners

VARIABLES
  state,     \* annotate_state of the rows that have a number: state[e][n]
  touched,   \* the rows that have an annotated_at, the oldest first
  title,     \* the titles on GitHub (external)
  shown,     \* history: the prefixes a title has begun with
  events,    \* EVT-SEQ-004 not acknowledged, by row
  lock,      \* the holder of the runner lock
  proc       \* the passes of the processes

vars == <<epoch, reassigning, state, touched, title, shown, flight, enabled, blocked, events, lock, proc, faults>>

Sweeping == <<0, 0>> \* the event of a pass of the sweeper
Foreign == 9         \* a merge number somebody wrote by hand
States == {"null", "done", "mismatch", "failed", "disabled", "body_changed", "unknown"}
Rows == UNION {{e} \X DOMAIN state[e] : e \in DOMAIN state}
Current == {r \in Rows : r[1] = epoch}
StateOf(r) == state[r[1]][r[2]]
PrOf(r) == History[r[1]][r[2]]

Idle == [pc |-> "idle", alive |-> TRUE, event |-> Sweeping, rows |-> <<>>, attempt |-> 0, next |-> <<>>, mark |-> "null"]

(* A title as it is from now on. *)
Retitled(p, t) ==
  /\ title' = [title EXCEPT ![p] = t]
  /\ shown' = [shown EXCEPT ![p] = @ \cup (IF t = <<>> THEN {} ELSE {t[1]})]

-----------------------------------------------------------------------------
(* The rows *)

(* reconcileMergeNumbers gives a number and announces it. *)
Assign ==
  LET n == Len(state[epoch]) + 1
  IN  /\ ~reassigning /\ n <= Len(History[epoch])
      /\ state' = [state EXCEPT ![epoch] = @ \o <<"null">>]
      /\ events' = events \cup {<<epoch, n>>}
      /\ UNCHANGED <<epoch, reassigning, touched, title, shown, flight, enabled, blocked, lock, proc, faults>>

(* A rebuild of the branch: the mark, and then the new epoch or the end of  *)
(* the attempt.                                                             *)
MarkReassigning ==
  /\ ~reassigning /\ epoch < MaxEpoch
  /\ reassigning' = TRUE
  /\ UNCHANGED <<epoch, state, touched, title, shown, flight, enabled, blocked, events, lock, proc, faults>>

Reassign ==
  /\ reassigning
  /\ reassigning' = FALSE
  /\ \/ epoch' = epoch + 1 /\ UNCHANGED faults
     \/ Fault /\ UNCHANGED epoch
  /\ UNCHANGED <<state, touched, title, shown, flight, enabled, blocked, events, lock, proc>>

-----------------------------------------------------------------------------
(* GitHub, its users and the operators (external, but for Resume) *)

(* A user takes the prefix away, or writes a number by hand. *)
Edit(p) ==
  /\ Fault
  /\ \E t \in {<<>>, <<Foreign>>} : t # title[p] /\ Retitled(p, t)
  /\ UNCHANGED <<epoch, reassigning, state, touched, flight, enabled, blocked, events, lock, proc>>

Switch ==
  /\ Fault
  /\ enabled' = ~enabled
  /\ UNCHANGED <<epoch, reassigning, state, touched, title, shown, flight, blocked, events, lock, proc>>

(* blockCooldownMs has passed. *)
CoolDown ==
  /\ blocked = "now"
  /\ blocked' = "old"
  /\ UNCHANGED <<epoch, reassigning, state, touched, title, shown, flight, enabled, events, lock, proc, faults>>

(* GitHub executes a replacement nobody waits for any more, or never will. *)
Land ==
  /\ \E f \in flight : (Retitled(f[1], f[2]) \/ UNCHANGED <<title, shown>>) /\ flight' = flight \ {f}
  /\ UNCHANGED <<epoch, reassigning, state, touched, enabled, blocked, events, lock, proc, faults>>

(* resumeAnnotation: the block is cleared and the rows that wait for an     *)
(* operator are opened as if nobody had touched them.                       *)
Resume ==
  LET waiting == {r \in Rows : StateOf(r) = "body_changed"}
  IN  /\ waiting # {}
      /\ blocked' = "no"
      /\ state' = [e \in DOMAIN state |-> [n \in DOMAIN state[e] |-> IF <<e, n>> \in waiting THEN "null" ELSE state[e][n]]]
      /\ touched' = SelectSeq(touched, LAMBDA r : r \notin waiting)
      /\ UNCHANGED <<epoch, reassigning, title, shown, flight, enabled, events, lock, proc, faults>>

-----------------------------------------------------------------------------
(* A pass *)

(* Mutant of Decide: only the own number is looked for. *)
DecideOwnOnly(n, t) == IF t # <<>> /\ t[1] = n THEN "already_annotated" ELSE "update"

(* decideTitleUpdate *)
Decide(n, t) ==
  CASE t = <<>> -> "update" [] t # <<>> /\ t[1] = n -> "already_annotated" [] OTHER -> "mismatch"

(* The current rows in the order of their numbers. *)
ByNumber == [n \in DOMAIN state[epoch] |-> <<epoch, n>>]

(* Mutant of Earlier: the order is the one of the numbers. *)
EarlierByNumber(a, b) == a[2] < b[2]

(* ORDER BY of listAnnotateTargets: the rows without an annotated_at by     *)
(* their number, and then the others, the one touched longest ago first.    *)
Earlier(a, b) ==
  LET Touched(r) == \E i \in DOMAIN touched : touched[i] = r
  IN  \/ ~Touched(a) /\ (Touched(b) \/ a[2] < b[2])
      \/ \E i, j \in DOMAIN touched : i < j /\ touched[i] = a /\ touched[j] = b

(* WHERE of listAnnotateTargets: rows of the current epoch to be looked at. *)
Eligible(event) ==
  {r \in Current :
    /\ ~reassigning /\ enabled
    /\ blocked = "no" \/ (blocked = "old" /\ event = Sweeping)
    /\ StateOf(r) \in {"null", "failed", "disabled", "unknown"}
    /\ event = Sweeping \/ event = r}

(* listAnnotateTargets: the first of the eligible rows, in order, up to the *)
(* limit.                                                                   *)
Targets(event) ==
  {rows \in UNION {[1 .. n -> Eligible(event)] : n \in 1 .. Limit} :
    /\ \A i, j \in DOMAIN rows : i < j => rows[i] # rows[j] /\ Earlier(rows[i], rows[j])
    /\ \A r \in Eligible(event) :
         (\E i \in DOMAIN rows : rows[i] = r) \/ (Len(rows) = Limit /\ \A i \in DOMAIN rows : Earlier(rows[i], r))}

(* Mutant of LockFree: a process that runs a pass does not stop another.    *)
LockFreeAlways == TRUE

(* tryAdvisorySessionLock *)
LockFree == lock = None

(* markDisabledRepositoryTargets, a statement of its own under the lock. *)
MarkDisabled ==
  LET rows == SelectSeq(ByNumber, LAMBDA r : StateOf(r) \in {"null", "failed"})
  IN  /\ LockFree /\ ~enabled /\ rows # <<>>
      /\ state' = [state EXCEPT ![epoch] = [n \in DOMAIN @ |-> IF @[n] \in {"null", "failed"} THEN "disabled" ELSE @[n]]]
      /\ touched' = SelectSeq(touched, LAMBDA r : \A i \in DOMAIN rows : rows[i] # r) \o rows
      /\ UNCHANGED <<epoch, reassigning, title, shown, flight, enabled, blocked, events, lock, proc, faults>>

(* runAnnotationPass, by the sweeper or for an event. *)
Start(t, event) ==
  /\ proc[t].pc = "idle" /\ LockFree
  /\ lock' = t
  /\ \E rows \in Targets(event) :
       proc' = [proc EXCEPT ![t] = [Idle EXCEPT !.pc = "first", !.event = event, !.rows = rows, !.attempt = 1]]
  /\ UNCHANGED <<epoch, reassigning, state, touched, title, shown, flight, enabled, blocked, events, faults>>

(* handleMergeNumberAssigned for an event of an older epoch, or one whose   *)
(* pass has nothing to do: it is acknowledged.                              *)
Skip ==
  /\ \E r \in events : (r[1] # epoch \/ (LockFree /\ Eligible(r) = {})) /\ events' = events \ {r}
  /\ UNCHANGED <<epoch, reassigning, state, touched, title, shown, flight, enabled, blocked, lock, proc, faults>>

(* The end of a pass: the lock is released with the session, and its event  *)
(* is acknowledged, or comes again.                                         *)
EndPass(t, ack) ==
  /\ lock' = IF lock = t /\ proc[t].alive THEN None ELSE lock
  /\ events' = IF ack THEN events \ {proc[t].event} ELSE events
  /\ proc' = [proc EXCEPT ![t] = Idle]

Row(t) == proc[t].rows[1]

(* The next row of the pass. *)
Advance(t) ==
  IF Len(proc[t].rows) = 1 THEN EndPass(t, TRUE)
  ELSE /\ proc' = [proc EXCEPT ![t].pc = "first", ![t].rows = Tail(@), ![t].attempt = 1]
       /\ UNCHANGED <<lock, events>>

Goes(t, pc) == proc' = [proc EXCEPT ![t].pc = pc] /\ UNCHANGED <<lock, events>>
Marks(t, s) == proc' = [proc EXCEPT ![t].pc = "mark", ![t].mark = s] /\ UNCHANGED <<lock, events>>

(* isAnnotationCurrent, on the connection of the lock: when that is gone    *)
(* the pass ends.                                                           *)
IsCurrent(t, pc) ==
  IF ~proc[t].alive THEN EndPass(t, TRUE)
  ELSE IF Row(t)[1] = epoch /\ ~reassigning /\ enabled THEN Goes(t, pc)
  ELSE Advance(t)

(* What follows a failed request: the whole judgement again, or the end. *)
Again(t, s) ==
  \/ /\ proc[t].attempt < MaxAttempts
     /\ proc' = [proc EXCEPT ![t].pc = "first", ![t].attempt = @ + 1]
     /\ UNCHANGED <<lock, events>>
  \/ Marks(t, s)

(* GitHub did not execute a request: an error, no permission, the rate      *)
(* limit or the end of the time budget; the last two end the pass.          *)
Refused(t) ==
  /\ Fault
  /\ Again(t, "failed") \/ Marks(t, "permission") \/ EndPass(t, FALSE)

First(t) ==
  /\ proc[t].pc = "first"
  /\ IsCurrent(t, "read")
  /\ UNCHANGED <<epoch, reassigning, state, touched, title, shown, flight, enabled, blocked, faults>>

Read(t) ==
  LET now == title[PrOf(Row(t))]
      d == Decide(Row(t)[2], now)
  IN  /\ proc[t].pc = "read"
      /\ \/ /\ CASE d = "already_annotated" -> Marks(t, "done")
                 [] d = "mismatch" -> Marks(t, "mismatch")
                 [] d = "update" -> /\ proc' = [proc EXCEPT ![t].pc = "check", ![t].next = <<Row(t)[2]>> \o now]
                                    /\ UNCHANGED <<lock, events>>
            /\ UNCHANGED faults
         \/ Refused(t)
      /\ UNCHANGED <<epoch, reassigning, state, touched, title, shown, flight, enabled, blocked>>

(* The write gate, which after a long wait starts the judgement again, and  *)
(* the second isAnnotationCurrent.                                          *)
Check(t) ==
  /\ proc[t].pc = "check"
  /\ \/ IsCurrent(t, "post") /\ UNCHANGED faults
     \/ Goes(t, "first") /\ Fault
  /\ UNCHANGED <<epoch, reassigning, state, touched, title, shown, flight, enabled, blocked>>

(* Mutant of NoAnswer: a request without an answer counts as executed. *)
NoAnswerIsDone(t) == Marks(t, "done")

(* The answer to a request that was sent is missing. *)
NoAnswer(t) == Again(t, "unknown")

(* updateTitle: executed; executed with a title that is not what was sent;  *)
(* not acceptable; not executed; or without an answer.                      *)
Post(t) ==
  LET p == PrOf(Row(t))
      next == proc[t].next
  IN  /\ proc[t].pc = "post"
      /\ \/ p \notin Rejected /\ Retitled(p, next) /\ Marks(t, "patched") /\ UNCHANGED <<flight, faults>>
         \/ /\ p \notin Rejected /\ Fault
            /\ \E stored \in {<<>>, Tail(next)} : Retitled(p, stored)
            /\ Marks(t, "body_changed")
            /\ UNCHANGED flight
         \/ p \in Rejected /\ Marks(t, "failed") /\ UNCHANGED <<title, shown, flight, faults>>
         \/ Refused(t) /\ UNCHANGED <<title, shown, flight>>
         \/ /\ p \notin Rejected /\ Fault
            /\ flight' = flight \cup {<<p, next>>}
            /\ NoAnswer(t)
            /\ UNCHANGED <<title, shown>>
      /\ UNCHANGED <<epoch, reassigning, state, touched, enabled, blocked>>

(* The outcome is recorded on the connection of the lock; when that is gone *)
(* the pass fails and its event comes again.  A title that was replaced     *)
(* clears the block of the repository, a missing permission sets it and     *)
(* ends the pass.                                                           *)
Mark(t) ==
  LET r == Row(t)
      m == proc[t].mark
      s == CASE m = "patched" -> "done" [] m = "permission" -> "failed" [] OTHER -> m
  IN  /\ proc[t].pc = "mark"
      /\ IF ~proc[t].alive THEN EndPass(t, FALSE) /\ UNCHANGED <<state, touched, blocked>>
         ELSE /\ state' = [state EXCEPT ![r[1]][r[2]] = s]
              /\ touched' = SelectSeq(touched, LAMBDA k : k # r) \o <<r>>
              /\ blocked' = CASE m = "patched" -> "no" [] m = "permission" -> "now" [] OTHER -> blocked
              /\ IF m = "permission" THEN EndPass(t, TRUE) ELSE Advance(t)
      /\ UNCHANGED <<epoch, reassigning, title, shown, flight, enabled, faults>>

Step(t) == First(t) \/ Read(t) \/ Check(t) \/ Post(t) \/ Mark(t)

-----------------------------------------------------------------------------
(* Faults *)

(* The session of the lock is gone while the process goes on. *)
LoseSession(t) ==
  /\ lock = t /\ Fault
  /\ lock' = None
  /\ proc' = [proc EXCEPT ![t].alive = FALSE]
  /\ UNCHANGED <<epoch, reassigning, state, touched, title, shown, flight, enabled, blocked, events>>

Die(t) ==
  /\ proc[t].pc # "idle" /\ Fault
  /\ EndPass(t, FALSE)
  /\ UNCHANGED <<epoch, reassigning, state, touched, title, shown, flight, enabled, blocked>>

-----------------------------------------------------------------------------
Init ==
  /\ epoch = 1 /\ reassigning = FALSE /\ enabled = TRUE /\ blocked = "no"
  /\ state = [e \in 1 .. MaxEpoch |-> <<>>]
  /\ touched = <<>>
  /\ title = [p \in Prs |-> <<>>]
  /\ shown = [p \in Prs |-> {}]
  /\ flight = {} /\ events = {}
  /\ lock = None
  /\ proc = [t \in Runners |-> Idle]
  /\ faults = 0

Sweep == \E t \in Runners : Start(t, Sweeping)

Next ==
  \/ Assign \/ MarkReassigning \/ Reassign \/ Switch \/ CoolDown \/ Land \/ Resume \/ MarkDisabled \/ Skip
  \/ \E p \in Prs : Edit(p)
  \/ Sweep
  \/ \E t \in Runners : (\E r \in events : Start(t, r)) \/ Step(t) \/ LoseSession(t) \/ Die(t)

Spec == Init /\ [][Next]_vars

(* The sweeper of some process comes round and finds the lock free again    *)
(* and again, a pass that runs goes on, and a block's cooldown passes.      *)
Fairness ==
  /\ SF_vars(Sweep) /\ WF_vars(CoolDown) /\ WF_vars(Reassign)
  /\ \A t \in Runners : WF_vars(Step(t))

-----------------------------------------------------------------------------
(* The rows and the processes have their shapes, and a row is touched once  *)
(* at a time (merge_sequence).                                              *)
TypeOK ==
  /\ epoch \in 1 .. MaxEpoch /\ blocked \in {"no", "now", "old"}
  /\ \A r \in Rows : StateOf(r) \in States
  /\ \A i, j \in DOMAIN touched : touched[i] \in Rows /\ (touched[i] = touched[j] => i = j)
  /\ lock \in Runners \cup {None}

(* The job never puts a second merge number into a title: a pass that died  *)
(* after its request, a request without an answer that is executed later, a *)
(* second process or a rebuild leave at most one (attemptOnce, title.ts).   *)
PrefixOnce == \A p \in Prs : Len(title[p]) <= 1

(* A row says `done' only when its title did begin with its number: no      *)
(* outcome that is not known is recorded as a success (annotateOne).        *)
DoneWasShown == \A r \in Rows : StateOf(r) = "done" => r[2] \in shown[PrOf(r)]

(* A title that GitHub did not store as it was sent is left alone until an  *)
(* operator resumes: no pass comes to its request again, but for one whose  *)
(* session is lost and that had asked before (annotateOne, annotate-lock).  *)
ChangedIsHeld ==
  \A t \in Runners : (proc[t].pc \in {"first", "read", "check", "post"} /\ proc[t].alive) => StateOf(Row(t)) # "body_changed"

(* In the end, while annotation is enabled, every row of the current epoch  *)
(* that GitHub accepts has a result: a row that fails for ever does not     *)
(* keep the sweeper from the others (listAnnotateTargets).                  *)
EventuallyAnnotated ==
  <>[](enabled => \A r \in Current : PrOf(r) \notin Rejected => StateOf(r) \in {"done", "mismatch", "body_changed"})
============================================================================
