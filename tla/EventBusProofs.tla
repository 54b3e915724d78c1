-------------------------- MODULE EventBusProofs --------------------------
(***************************************************************************)
(* Proofs about RedisPartition, for any number of events and faults, any   *)
(* batch size, idle time, budget and delays, and about MemoryPartition.    *)
(*                                                                         *)
(* The reason the order holds over Redis: what is pending is always an     *)
(* interval that ends at the group's cursor and fits in one batch, and all *)
(* of it was delivered at the same time, so it becomes stale, is claimed   *)
(* and is served as a whole.  In memory what waits is an interval that     *)
(* ends at the last event, and what is pending is its first event or none. *)
(***************************************************************************)
EXTENDS MCEventBus, FiniteSetTheorems, TLAPS

InBatch == pc \in {"claim", "deliver", "call", "ack"}

\* What is pending: everything read after the first d entries.
Window(d) == pending = (d + 1)..lastRead /\ lastRead - d <= BatchSize

WindowInv == \E d \in 0..lastRead : Window(d)

SameIdle == \A d, e \in pending : idle[d] = idle[e]

\* The batch at hand is the whole pending list.
BatchInv == /\ InBatch => todo = pending /\ todo # {}
            /\ ~ InBatch => todo = {}

SettledInv == AckedIsSettled /\ (pc = "ack" => First(todo) \in settled \cup Broken)

\* Each failure of a message used up one physical delivery of it.
BudgetInv ==
    /\ \A e \in Ids : e > lastRead => failed[e] = 0
    /\ \A e \in pending : /\ failed[e] <= count[e]
                          /\ pc \in {"deliver", "call", "ack"} => failed[e] < count[e]
    /\ \A e \in pending \cap known : retries[e] >= failed[e]
    /\ InBatch => \A e \in pending : retries[e] >= failed[e]

\* The inductive invariant.
IInv == TypeOK /\ WindowInv /\ SameIdle /\ BatchInv /\ SettledInv /\ BudgetInv

----------------------------------------------------------------------------
(* Intervals.                                                              *)

\* The first entry of an interval is its lower end.
LEMMA FirstOfInterval ==
    ASSUME NEW a \in Nat, NEW b \in Nat, a <= b
    PROVE  First(a..b) = a
<1>1. a \in a..b /\ \A x \in a..b : a <= x
  OBVIOUS
<1>2. First(a..b) \in a..b /\ \A x \in a..b : First(a..b) <= x
  BY <1>1 DEF First
<1>. QED  BY <1>1, <1>2

\* An interval that fits in a batch is read as a whole.
LEMMA LowestOfInterval ==
    ASSUME NEW d \in Nat, NEW b \in Nat, b - d <= BatchSize
    PROVE  Lowest((d + 1)..b) = (d + 1)..b
<1>1. ASSUME NEW e \in (d + 1)..b
      PROVE  Cardinality({x \in (d + 1)..b : x < e}) < BatchSize
  <2>1. {x \in (d + 1)..b : x < e} = (d + 1)..(e - 1)
    OBVIOUS
  <2>2. Cardinality((d + 1)..(e - 1)) = IF d + 1 > e - 1 THEN 0 ELSE e - 1 - (d + 1) + 1
    BY FS_Interval
  <2>3. Cardinality((d + 1)..(e - 1)) < BatchSize
    <3>1. BatchSize \in Nat \ {0}
      BY PartitionAssumption
    <3>. QED  BY <2>2, <3>1
  <2>. QED  BY <2>1, <2>3, Zenon
<1>. QED  BY <1>1 DEF Lowest

\* While a batch is at hand, its first entry is the oldest one pending.
LEMMA HeadOfBatch ==
    ASSUME IInv, InBatch
    PROVE  \E d \in 0..lastRead :
              /\ Window(d) /\ d + 1 <= lastRead /\ First(todo) = d + 1
              /\ todo = (d + 1)..lastRead /\ todo = pending
              /\ First(todo) \in Ids
<1>1. PICK d \in 0..lastRead : Window(d)
  BY DEF IInv, WindowInv
<1>2. lastRead \in Nat /\ lastRead <= MaxEvents /\ d \in Nat /\ MaxEvents \in Nat
  BY PartitionAssumption DEF IInv, TypeOK
<1>3. todo = pending /\ todo # {} /\ pending = (d + 1)..lastRead
  BY <1>1 DEF IInv, BatchInv, Window
<1>4. d + 1 <= lastRead
  BY <1>2, <1>3
<1>5. First(todo) = d + 1
  BY <1>2, <1>3, <1>4, FirstOfInterval
<1>. QED  BY <1>1, <1>2, <1>3, <1>4, <1>5 DEF Ids

\* Pending entries become stale together.
LEMMA StaleTogether ==
    ASSUME IInv
    PROVE  Stale(pending) = pending \/ Stale(pending) = {}
<1>. SUFFICES ASSUME Stale(pending) # {} PROVE Stale(pending) = pending
  OBVIOUS
<1>1. PICK d \in pending : idle[d] >= ClaimIdle
  BY DEF Stale
<1>2. \A e \in pending : idle[e] >= ClaimIdle
  BY <1>1 DEF IInv, SameIdle
<1>. QED  BY <1>2 DEF Stale

----------------------------------------------------------------------------
(* The invariant is inductive.                                             *)

\* The first state: an empty stream and no subscription.
LEMMA InitOK == Init => IInv
<1>. SUFFICES ASSUME Init PROVE IInv
  OBVIOUS
<1>1. TypeOK
  BY PartitionAssumption DEF Init, TypeOK, Points
<1>2. WindowInv
  BY PartitionAssumption DEF Init, WindowInv, Window
<1>3. SameIdle /\ BatchInv /\ BudgetInv
  BY DEF Init, SameIdle, BatchInv, InBatch, BudgetInv, Ids
<1>4. SettledInv
  BY DEF Init, SettledInv, AckedIsSettled, Acked
<1>. QED  BY <1>1, <1>2, <1>3, <1>4 DEF IInv

\* A publication touches the end of the stream only.
LEMMA PublishKeeps == IInv /\ Publish => IInv'
<1>. SUFFICES ASSUME IInv, Publish PROVE IInv'
  OBVIOUS
<1>5. TypeOK'
  BY PartitionAssumption DEF IInv, TypeOK, Points, Publish, stream, attempts, history, budgets
<1>6. WindowInv'
  BY DEF IInv, WindowInv, Window, Publish, stream, attempts, history, budgets
<1>7. SameIdle'
  BY DEF IInv, SameIdle, Publish, stream, attempts, history, budgets
<1>8. BatchInv'
  BY DEF IInv, BatchInv, InBatch, Publish, stream, attempts, history, budgets
<1>9. SettledInv'
  BY DEF IInv, SettledInv, AckedIsSettled, Acked, Publish, First, stream, attempts, history, budgets
<1>10. BudgetInv'
  BY DEF IInv, BudgetInv, InBatch, Publish, stream, attempts, history, budgets
<1>. QED  BY <1>5, <1>6, <1>7, <1>8, <1>9, <1>10 DEF IInv

\* Time passes for all pending entries alike.
LEMMA TickKeeps == IInv /\ Tick => IInv'
<1>. SUFFICES ASSUME IInv, Tick PROVE IInv'
  OBVIOUS
<1>5. TypeOK'
  BY PartitionAssumption DEF IInv, TypeOK, Points, Tick, stream, attempts, history, budgets
<1>6. WindowInv'
  BY DEF IInv, WindowInv, Window, Tick, stream, attempts, history, budgets
<1>7. SameIdle'
  BY DEF IInv, TypeOK, SameIdle, Tick, stream, attempts, history, budgets
<1>8. BatchInv'
  BY DEF IInv, BatchInv, InBatch, Tick, stream, attempts, history, budgets
<1>9. SettledInv'
  BY DEF IInv, SettledInv, AckedIsSettled, Acked, Tick, First, stream, attempts, history, budgets
<1>10. BudgetInv'
  BY DEF IInv, BudgetInv, InBatch, Tick, stream, attempts, history, budgets
<1>. QED  BY <1>5, <1>6, <1>7, <1>8, <1>9, <1>10 DEF IInv

\* A new subscription starts with nothing at hand.
LEMMA SubscribeKeeps == IInv /\ Subscribe => IInv'
<1>. SUFFICES ASSUME IInv, Subscribe PROVE IInv'
  OBVIOUS
<1>5. TypeOK'
  BY DEF IInv, TypeOK, Points, Subscribe, stream, attempts, history, budgets
<1>6. WindowInv'
  BY DEF IInv, WindowInv, Window, Subscribe, stream, attempts, history, budgets
<1>7. SameIdle'
  BY DEF IInv, SameIdle, Subscribe, stream, attempts, history, budgets
<1>8. BatchInv'
  BY DEF IInv, BatchInv, InBatch, Subscribe, stream, attempts, history, budgets
<1>9. SettledInv'
  BY DEF IInv, SettledInv, AckedIsSettled, Acked, Subscribe, stream, attempts, history, budgets
<1>10. BudgetInv'
  BY DEF IInv, BudgetInv, InBatch, Subscribe, stream, attempts, history, budgets
<1>. QED  BY <1>5, <1>6, <1>7, <1>8, <1>9, <1>10 DEF IInv

\* A dead process takes its retry state with it, not the pending list.
LEMMA CrashKeeps == IInv /\ Crash => IInv'
<1>. SUFFICES ASSUME IInv, Crash PROVE IInv'
  OBVIOUS
<1>5. TypeOK'
  BY PartitionAssumption DEF IInv, TypeOK, Points, Crash, stream, attempts, history, budgets
<1>6. WindowInv'
  BY DEF IInv, WindowInv, Window, Crash, stream, attempts, history, budgets
<1>7. SameIdle'
  BY DEF IInv, SameIdle, Crash, stream, attempts, history, budgets
<1>8. BatchInv'
  BY DEF IInv, BatchInv, InBatch, Crash, stream, attempts, history, budgets
<1>9. SettledInv'
  BY DEF IInv, SettledInv, AckedIsSettled, Acked, Crash, stream, attempts, history, budgets
<1>10. BudgetInv'
  BY DEF IInv, BudgetInv, InBatch, Crash, stream, attempts, history, budgets
<1>. QED  BY <1>5, <1>6, <1>7, <1>8, <1>9, <1>10 DEF IInv

\* Fresh entries are read when nothing is pending, at most a batch of them.
LEMMA ReadFreshKeeps == IInv /\ ReadFresh => IInv'
<1>. SUFFICES ASSUME IInv, ReadFresh PROVE IInv'
  OBVIOUS
<1>. DEFINE fresh == (lastRead + 1)..FreshEnd
<1>1. /\ lastRead \in Nat /\ published \in Nat /\ lastRead < published /\ published <= MaxEvents
      /\ BatchSize \in Nat \ {0} /\ MaxEvents \in Nat
  BY PartitionAssumption DEF IInv, TypeOK, ReadFresh
<1>2. /\ FreshEnd \in Nat /\ lastRead < FreshEnd /\ FreshEnd <= published
      /\ FreshEnd - lastRead <= BatchSize
  BY <1>1 DEF FreshEnd
<1>3. /\ pending' = fresh /\ lastRead' = FreshEnd /\ fresh # {} /\ fresh \subseteq Ids
      /\ \/ pc' = "deliver" /\ todo' = fresh /\ faults' = faults
         \/ pc' = "poll" /\ todo' = {} /\ faults < MaxFaults /\ faults' = faults + 1
  <2>1. fresh # {} /\ fresh \subseteq Ids
    BY <1>1, <1>2 DEF Ids
  <2>2. pending' = fresh /\ lastRead' = FreshEnd /\ (Reply(fresh) \/ Lost)
    BY DEF ReadFresh
  <2>. HIDE DEF fresh
  <2>. QED  BY <2>1, <2>2 DEF Reply, Lost, After
<1>4. /\ published' = published /\ known' = known /\ retries' = retries /\ wait' = wait
      /\ settled' = settled /\ failed' = failed /\ defers' = defers
      /\ idle' = [e \in Ids |-> IF e \in fresh THEN 0 ELSE idle[e]]
      /\ count' = [e \in Ids |-> IF e \in fresh THEN 1 ELSE count[e]]
  BY DEF ReadFresh, attempts, history
<1>5. TypeOK'
  <2>1. MaxFaults \in Nat /\ ClaimIdle \in Nat /\ lastRead' \in 0..published
    BY <1>1, <1>2, <1>3, PartitionAssumption
  <2>. HIDE DEF fresh
  <2>2. idle' \in [Ids -> 0..ClaimIdle] /\ count' \in [Ids -> Nat]
    BY <1>4, <2>1 DEF IInv, TypeOK
  <2>3. faults' \in 0..MaxFaults /\ pc' \in Points /\ todo' \subseteq Ids /\ pending' \subseteq Ids
    BY <1>3, <2>1 DEF IInv, TypeOK, Points
  <2>. QED  BY <1>4, <2>1, <2>2, <2>3 DEF IInv, TypeOK
<1>6. WindowInv'
  BY <1>1, <1>2, <1>3 DEF WindowInv, Window
<1>7. SameIdle'
  BY <1>3, <1>4 DEF SameIdle
<1>8. BatchInv'
  BY <1>3 DEF BatchInv, InBatch
<1>9. SettledInv'
  <2>1. Acked' = Acked \cup {} /\ pc' # "ack"
    BY <1>1, <1>2, <1>3 DEF Acked, ReadFresh
  <2>. QED  BY <1>4, <2>1 DEF IInv, SettledInv, AckedIsSettled
<1>10. BudgetInv'
  <2>1. \A e \in fresh : e \in Ids /\ failed[e] = 0
    BY <1>1, <1>2, <1>3 DEF IInv, BudgetInv
  <2>2. \A e \in Ids : retries[e] \in Nat
    BY DEF IInv, TypeOK
  <2>3. \A e \in Ids : e > lastRead' => failed[e] = 0
    BY <1>1, <1>2, <1>3 DEF IInv, BudgetInv, Ids
  <2>. QED  BY <1>3, <1>4, <2>1, <2>2, <2>3 DEF BudgetInv
<1>. QED  BY <1>5, <1>6, <1>7, <1>8, <1>9, <1>10 DEF IInv

\* The pending list is scanned as a whole.
LEMMA ScanKeeps == IInv /\ Scan => IInv'
<1>. SUFFICES ASSUME IInv, Scan PROVE IInv'
  OBVIOUS
<1>1. Stale(pending) = pending /\ pending # {}
  BY StaleTogether DEF Scan
<1>2. PICK d \in 0..lastRead : Window(d)
  BY DEF IInv, WindowInv
<1>3. Lowest(pending) = pending
  <2>1. d \in Nat /\ lastRead \in Nat
    BY DEF IInv, TypeOK
  <2>. QED  BY <1>2, <2>1, LowestOfInterval DEF Window
<1>4. /\ todo' = pending /\ known' = known \cup pending /\ pc' = "claim"
      /\ retries' = [e \in Ids |-> IF e \in pending \ known THEN count[e] ELSE retries[e]]
  BY <1>1, <1>3 DEF Scan
<1>5. TypeOK'
  BY <1>4 DEF IInv, TypeOK, Points, Scan, stream, attempts, history, budgets
<1>6. WindowInv'
  BY DEF IInv, WindowInv, Window, Scan, stream, attempts, history, budgets
<1>7. SameIdle'
  BY DEF IInv, SameIdle, Scan, stream, attempts, history, budgets
<1>8. BatchInv'
  BY <1>1, <1>4 DEF BatchInv, InBatch, Scan, stream
<1>9. SettledInv'
  BY <1>4 DEF IInv, SettledInv, AckedIsSettled, Acked, Scan, stream, attempts, history, budgets
<1>10. BudgetInv'
  BY <1>4 DEF IInv, TypeOK, BudgetInv, InBatch, Scan, stream, attempts, history, budgets
<1>. QED  BY <1>5, <1>6, <1>7, <1>8, <1>9, <1>10 DEF IInv

\* A claim takes all that is pending or nothing.
LEMMA ClaimKeeps == IInv /\ Claim => IInv'
<1>. SUFFICES ASSUME IInv, Claim PROVE IInv'
  OBVIOUS
<1>1. todo = pending /\ pending # {} /\ pc = "claim"
  BY DEF IInv, BatchInv, InBatch, Claim
<1>2. Stale(todo) = pending \/ Stale(todo) = {}
  BY <1>1, StaleTogether
<1>3. PICK got : /\ got = pending \/ got = {}
                 /\ idle' = [e \in Ids |-> IF e \in got THEN 0 ELSE idle[e]]
                 /\ count' = [e \in Ids |-> IF e \in got THEN count[e] + 1 ELSE count[e]]
                 /\ \/ pc' = (IF got = {} THEN "poll" ELSE "deliver") /\ todo' = got
                       /\ faults' = faults
                    \/ pc' = "poll" /\ todo' = {} /\ faults < MaxFaults
                       /\ faults' = faults + 1
  BY <1>2 DEF Claim, Reply, Lost, After
<1>4. /\ published' = published /\ lastRead' = lastRead /\ pending' = pending
      /\ known' = known /\ retries' = retries /\ wait' = wait
      /\ settled' = settled /\ failed' = failed /\ defers' = defers
  BY DEF Claim, attempts, history
<1>5. TypeOK'
  BY <1>3, <1>4, PartitionAssumption DEF IInv, TypeOK, Points
<1>6. WindowInv'
  BY <1>4 DEF IInv, WindowInv, Window
<1>7. SameIdle'
  BY <1>3, <1>4 DEF IInv, TypeOK, SameIdle
<1>8. BatchInv'
  BY <1>1, <1>3, <1>4 DEF BatchInv, InBatch
<1>9. SettledInv'
  BY <1>3, <1>4 DEF IInv, SettledInv, AckedIsSettled, Acked
<1>10. BudgetInv'
  <2>1. \A e \in pending : e \in Ids /\ count[e] \in Nat /\ failed[e] \in Nat
    BY DEF IInv, TypeOK
  <2>2. \A e \in pending : /\ failed[e] <= count'[e]
                           /\ pc' \in {"deliver", "call", "ack"} => failed[e] < count'[e]
    BY <1>3, <2>1 DEF IInv, BudgetInv
  <2>3. \A e \in pending : retries[e] >= failed[e]
    BY <1>1 DEF IInv, BudgetInv, InBatch
  <2>. QED  BY <1>4, <2>2, <2>3 DEF IInv, BudgetInv
<1>. QED  BY <1>5, <1>6, <1>7, <1>8, <1>9, <1>10 DEF IInv

\* A command without effect only drops the batch at hand.
LEMMA CommandFailsKeeps == IInv /\ CommandFails => IInv'
<1>. SUFFICES ASSUME IInv, CommandFails PROVE IInv'
  OBVIOUS
<1>5. TypeOK'
  BY PartitionAssumption DEF IInv, TypeOK, Points, CommandFails, Lost, stream, attempts, history, budgets
<1>6. WindowInv'
  BY DEF IInv, WindowInv, Window, CommandFails, Lost, stream, attempts, history, budgets
<1>7. SameIdle'
  BY DEF IInv, SameIdle, CommandFails, Lost, stream, attempts, history, budgets
<1>8. BatchInv'
  BY DEF IInv, BatchInv, InBatch, CommandFails, Lost, stream, attempts, history, budgets
<1>9. SettledInv'
  BY DEF IInv, SettledInv, AckedIsSettled, Acked, CommandFails, Lost, stream, attempts, history, budgets
<1>10. BudgetInv'
  BY DEF IInv, BudgetInv, InBatch, CommandFails, Lost, stream, attempts, history, budgets
<1>. QED  BY <1>5, <1>6, <1>7, <1>8, <1>9, <1>10 DEF IInv

\* A message that has to wait stops the round.
LEMMA NotYetKeeps == IInv /\ NotYet => IInv'
<1>. SUFFICES ASSUME IInv, NotYet PROVE IInv'
  OBVIOUS
<1>5. TypeOK'
  BY DEF IInv, TypeOK, Points, NotYet, Leave, stream, attempts, history, budgets
<1>6. WindowInv'
  BY DEF IInv, WindowInv, Window, NotYet, Leave, stream, attempts, history, budgets
<1>7. SameIdle'
  BY DEF IInv, SameIdle, NotYet, Leave, stream, attempts, history, budgets
<1>8. BatchInv'
  BY DEF IInv, BatchInv, InBatch, NotYet, Leave, stream, attempts, history, budgets
<1>9. SettledInv'
  BY DEF IInv, SettledInv, AckedIsSettled, Acked, NotYet, Leave, stream, attempts, history, budgets
<1>10. BudgetInv'
  BY DEF IInv, BudgetInv, InBatch, NotYet, Leave, stream, attempts, history, budgets
<1>. QED  BY <1>5, <1>6, <1>7, <1>8, <1>9, <1>10 DEF IInv

\* The handler is called with the oldest message pending.
LEMMA DeliverKeeps == IInv /\ Deliver => IInv'
<1>. SUFFICES ASSUME IInv, Deliver PROVE IInv'
  OBVIOUS
<1>5. TypeOK'
  BY DEF IInv, TypeOK, Points, Deliver, stream, attempts, history, budgets
<1>6. WindowInv'
  BY DEF IInv, WindowInv, Window, Deliver, stream, attempts, history, budgets
<1>7. SameIdle'
  BY DEF IInv, SameIdle, Deliver, stream, attempts, history, budgets
<1>8. BatchInv'
  BY DEF IInv, BatchInv, InBatch, Deliver, stream, attempts, history, budgets
<1>9. SettledInv'
  BY DEF IInv, SettledInv, AckedIsSettled, Acked, Deliver, stream, attempts, history, budgets
<1>10. BudgetInv'
  BY DEF IInv, BudgetInv, InBatch, Deliver, stream, attempts, history, budgets
<1>. QED  BY <1>5, <1>6, <1>7, <1>8, <1>9, <1>10 DEF IInv

\* The handler settles the message it holds.
LEMMA HandlerAcksKeeps == IInv /\ HandlerAcks => IInv'
<1>. SUFFICES ASSUME IInv, HandlerAcks PROVE IInv'
  OBVIOUS
<1>1. PICK d \in 0..lastRead :
         /\ Window(d) /\ d + 1 <= lastRead /\ First(todo) = d + 1
         /\ todo = (d + 1)..lastRead /\ todo = pending /\ First(todo) \in Ids
  BY HeadOfBatch DEF InBatch, HandlerAcks
<1>5. TypeOK'
  BY <1>1 DEF IInv, TypeOK, Points, HandlerAcks, stream, attempts, history, budgets
<1>6. WindowInv'
  BY DEF IInv, WindowInv, Window, HandlerAcks, stream, attempts, history, budgets
<1>7. SameIdle'
  BY DEF IInv, SameIdle, HandlerAcks, stream, attempts, history, budgets
<1>8. BatchInv'
  BY DEF IInv, BatchInv, InBatch, HandlerAcks, stream, attempts, history, budgets
<1>9. SettledInv'
  BY DEF IInv, SettledInv, AckedIsSettled, Acked, HandlerAcks, stream, attempts, history, budgets
<1>10. BudgetInv'
  BY DEF IInv, BudgetInv, InBatch, HandlerAcks, stream, attempts, history, budgets
<1>. QED  BY <1>5, <1>6, <1>7, <1>8, <1>9, <1>10 DEF IInv

\* So it does when it gives up.
LEMMA HandlerGivesUpKeeps == IInv /\ HandlerGivesUp => IInv'
<1>. SUFFICES ASSUME IInv, HandlerGivesUp PROVE IInv'
  OBVIOUS
<1>1. PICK d \in 0..lastRead :
         /\ Window(d) /\ d + 1 <= lastRead /\ First(todo) = d + 1
         /\ todo = (d + 1)..lastRead /\ todo = pending /\ First(todo) \in Ids
  BY HeadOfBatch DEF InBatch, HandlerGivesUp
<1>5. TypeOK'
  BY <1>1 DEF IInv, TypeOK, Points, HandlerGivesUp, stream, attempts, history, budgets
<1>6. WindowInv'
  BY DEF IInv, WindowInv, Window, HandlerGivesUp, stream, attempts, history, budgets
<1>7. SameIdle'
  BY DEF IInv, SameIdle, HandlerGivesUp, stream, attempts, history, budgets
<1>8. BatchInv'
  BY DEF IInv, BatchInv, InBatch, HandlerGivesUp, stream, attempts, history, budgets
<1>9. SettledInv'
  BY DEF IInv, SettledInv, AckedIsSettled, Acked, HandlerGivesUp, stream, attempts, history, budgets
<1>10. BudgetInv'
  BY DEF IInv, BudgetInv, InBatch, HandlerGivesUp, stream, attempts, history, budgets
<1>. QED  BY <1>5, <1>6, <1>7, <1>8, <1>9, <1>10 DEF IInv

\* A failure is paid for with the physical delivery that led to it.
LEMMA HandlerFailsKeeps == IInv /\ HandlerFails => IInv'
<1>. SUFFICES ASSUME IInv, HandlerFails PROVE IInv'
  OBVIOUS
<1>1. PICK d \in 0..lastRead :
         /\ Window(d) /\ d + 1 <= lastRead /\ First(todo) = d + 1
         /\ todo = (d + 1)..lastRead /\ todo = pending /\ First(todo) \in Ids
  BY HeadOfBatch DEF InBatch, HandlerFails
<1>2. /\ known' = known \cup {d + 1} /\ pc' = "poll" /\ todo' = {}
      /\ retries' = [retries EXCEPT ![d + 1] = retries[d + 1] + 1]
      /\ failed' = [failed EXCEPT ![d + 1] = failed[d + 1] + 1]
      /\ \E delay \in 1..MaxBackoff : wait' = [wait EXCEPT ![d + 1] = delay]
      /\ faults' = faults \/ (faults < MaxFaults /\ faults' = faults + 1)
  BY <1>1 DEF HandlerFails, Leave
<1>3. /\ published' = published /\ lastRead' = lastRead /\ pending' = pending
      /\ idle' = idle /\ count' = count
      /\ settled' = settled /\ defers' = defers
  BY DEF HandlerFails, stream
<1>4. d + 1 \in Ids /\ d + 1 \in pending /\ d + 1 <= lastRead /\ pc = "call"
  BY <1>1 DEF HandlerFails, IInv, TypeOK
<1>5. TypeOK'
  BY <1>2, <1>3, <1>4, PartitionAssumption DEF IInv, TypeOK, Points
<1>6. WindowInv'
  BY <1>3 DEF IInv, WindowInv, Window
<1>7. SameIdle'
  BY <1>3 DEF IInv, SameIdle
<1>8. BatchInv'
  BY <1>2 DEF BatchInv, InBatch
<1>9. SettledInv'
  BY <1>2, <1>3 DEF IInv, SettledInv, AckedIsSettled, Acked
<1>10. BudgetInv'
  <2>1. \A e \in Ids : count[e] \in Nat /\ failed[e] \in Nat /\ retries[e] \in Nat
    BY DEF IInv, TypeOK
  <2>2. pending \subseteq Ids /\ lastRead \in Nat
    BY DEF IInv, TypeOK
  <2>3. \A e \in Ids : e > lastRead => failed'[e] = 0
    BY <1>2, <1>4, <2>1, <2>2 DEF IInv, TypeOK, BudgetInv, Ids
  <2>4. \A e \in pending : failed'[e] <= count[e]
    BY <1>2, <1>4, <2>1, <2>2 DEF IInv, TypeOK, BudgetInv
  <2>5. \A e \in pending : retries'[e] >= failed'[e]
    BY <1>2, <1>4, <2>1, <2>2 DEF IInv, TypeOK, BudgetInv, InBatch
  <2>. QED  BY <1>2, <1>3, <2>3, <2>4, <2>5 DEF BudgetInv, InBatch
<1>. QED  BY <1>5, <1>6, <1>7, <1>8, <1>9, <1>10 DEF IInv

\* A deferral leaves the message pending and its retries alone.
LEMMA HandlerDefersKeeps == IInv /\ HandlerDefers => IInv'
<1>. SUFFICES ASSUME IInv, HandlerDefers PROVE IInv'
  OBVIOUS
<1>1. PICK d \in 0..lastRead :
         /\ Window(d) /\ d + 1 <= lastRead /\ First(todo) = d + 1
         /\ todo = (d + 1)..lastRead /\ todo = pending /\ First(todo) \in Ids
  BY HeadOfBatch DEF InBatch, HandlerDefers
<1>5. TypeOK'
  <2>1. MaxDefers \in Nat /\ MaxDefer \in Nat
    BY PartitionAssumption
  <2>2. PICK delay \in 1..MaxDefer : wait' = [wait EXCEPT ![First(todo)] = delay]
    BY DEF HandlerDefers
  <2>3. wait' \in [Ids -> Nat]
    BY <1>1, <2>1, <2>2 DEF IInv, TypeOK
  <2>4. defers' \in 0..MaxDefers
    BY <2>1 DEF IInv, TypeOK, HandlerDefers
  <2>. QED  BY <1>1, <2>3, <2>4 DEF IInv, TypeOK, Points, HandlerDefers, Leave, stream, history
<1>6. WindowInv'
  BY DEF IInv, WindowInv, Window, HandlerDefers, Leave, stream, attempts, history, budgets
<1>7. SameIdle'
  BY DEF IInv, SameIdle, HandlerDefers, Leave, stream, attempts, history, budgets
<1>8. BatchInv'
  BY DEF IInv, BatchInv, InBatch, HandlerDefers, Leave, stream, attempts, history, budgets
<1>9. SettledInv'
  BY DEF IInv, SettledInv, AckedIsSettled, Acked, HandlerDefers, Leave, stream, attempts, history, budgets
<1>10. BudgetInv'
  BY DEF IInv, BudgetInv, InBatch, HandlerDefers, Leave, stream, attempts, history, budgets
<1>. QED  BY <1>5, <1>6, <1>7, <1>8, <1>9, <1>10 DEF IInv

\* An acknowledgement takes the oldest message off the pending list.
LEMMA AckKeeps == IInv /\ Ack => IInv'
<1>. SUFFICES ASSUME IInv, Ack PROVE IInv'
  OBVIOUS
<1>1. PICK d \in 0..lastRead :
         /\ Window(d) /\ d + 1 <= lastRead /\ First(todo) = d + 1
         /\ todo = (d + 1)..lastRead /\ todo = pending /\ First(todo) \in Ids
  BY HeadOfBatch DEF InBatch, Ack
<1>2. /\ pending' = pending \ {d + 1} /\ lastRead' = lastRead /\ published' = published
      /\ idle' = [idle EXCEPT ![d + 1] = 0] /\ count' = [count EXCEPT ![d + 1] = 0]
      /\ settled' = settled /\ failed' = failed /\ defers' = defers
      /\ \/ /\ todo' = todo \ {d + 1} /\ faults' = faults
            /\ pc' = (IF todo \ {d + 1} = {} THEN "poll" ELSE "deliver")
            /\ known' = known \ {d + 1}
            /\ retries' = [retries EXCEPT ![d + 1] = 0]
            /\ wait' = [wait EXCEPT ![d + 1] = 0]
         \/ /\ todo' = {} /\ pc' = "poll" /\ faults < MaxFaults /\ faults' = faults + 1
            /\ known' = known /\ retries' = retries /\ wait' = wait
  BY <1>1 DEF Ack, Reply, Lost, After, attempts, history
<1>3. /\ pc = "ack" /\ d \in Nat /\ lastRead \in Nat /\ d + 1 <= lastRead
      /\ pending = (d + 1)..lastRead /\ lastRead - d <= BatchSize /\ BatchSize \in Nat
      /\ pending' = (d + 2)..lastRead /\ d + 1 \in Ids
  <2>1. pc = "ack" /\ lastRead \in Nat /\ d \in Nat /\ BatchSize \in Nat
    BY PartitionAssumption DEF Ack, IInv, TypeOK
  <2>2. d + 1 \in Ids /\ d + 1 <= lastRead /\ pending = (d + 1)..lastRead
        /\ lastRead - d <= BatchSize
    BY <1>1 DEF Window
  <2>3. pending' = (d + 2)..lastRead
    BY <1>2, <2>1, <2>2
  <2>. QED  BY <2>1, <2>2, <2>3
<1>5. TypeOK'
  <2>1. MaxFaults \in Nat /\ ClaimIdle \in Nat
    BY PartitionAssumption
  <2>2. idle' \in [Ids -> 0..ClaimIdle] /\ count' \in [Ids -> Nat]
    BY <1>2, <1>3, <2>1 DEF IInv, TypeOK
  <2>3. retries' \in [Ids -> Nat] /\ wait' \in [Ids -> Nat] /\ known' \subseteq Ids
    <3>1. retries \in [Ids -> Nat] /\ wait \in [Ids -> Nat] /\ known \subseteq Ids
      BY DEF IInv, TypeOK
    <3>2. /\ [retries EXCEPT ![d + 1] = 0] \in [Ids -> Nat]
          /\ [wait EXCEPT ![d + 1] = 0] \in [Ids -> Nat]
      BY <3>1
    <3>. QED  BY <1>2, <3>1, <3>2, Zenon
  <2>4. faults' \in 0..MaxFaults /\ pc' \in Points /\ todo' \subseteq Ids /\ pending' \subseteq Ids
    BY <1>2, <2>1 DEF IInv, TypeOK, Points
  <2>. QED  BY <1>2, <2>2, <2>3, <2>4 DEF IInv, TypeOK
<1>6. WindowInv'
  <2>1. d + 1 \in 0..lastRead /\ lastRead' = lastRead /\ pending' = ((d + 1) + 1)..lastRead
        /\ lastRead - (d + 1) <= BatchSize
    BY <1>2, <1>3
  <2>. QED  BY <2>1 DEF WindowInv, Window
<1>7. SameIdle'
  BY <1>2, <1>3 DEF IInv, TypeOK, SameIdle
<1>8. BatchInv'
  BY <1>1, <1>2 DEF BatchInv, InBatch
<1>9. SettledInv'
  <2>1. d + 1 \in settled \cup Broken
    BY <1>1, <1>3 DEF IInv, SettledInv
  <2>2. Acked' = Acked \cup {d + 1}
    BY <1>2, <1>3 DEF Acked
  <2>. QED  BY <1>2, <2>1, <2>2 DEF IInv, SettledInv, AckedIsSettled
<1>10. BudgetInv'
  <2>1. \A e \in pending' : e \in Ids /\ e # d + 1 /\ e \in pending
    BY <1>2 DEF IInv, TypeOK
  <2>2. \A e \in pending' : /\ count'[e] = count[e] /\ retries'[e] = retries[e]
                            /\ failed[e] \in Nat /\ count[e] \in Nat
    BY <1>2, <2>1 DEF IInv, TypeOK
  <2>3. \A e \in pending' : failed[e] < count[e] \/ pc' \notin {"deliver", "call", "ack"}
    BY <1>3, <2>1, <2>2 DEF IInv, BudgetInv
  <2>4. \A e \in pending' : failed[e] <= count[e] /\ retries[e] >= failed[e]
    BY <1>3, <2>1 DEF IInv, BudgetInv, InBatch
  <2>. QED  BY <1>2, <2>1, <2>2, <2>3, <2>4 DEF IInv, BudgetInv, InBatch
<1>. QED  BY <1>5, <1>6, <1>7, <1>8, <1>9, <1>10 DEF IInv

\* IInv is an invariant of the specification.
THEOREM Invariance == Spec => []IInv
<1>1. IInv /\ UNCHANGED vars => IInv'
  BY DEF vars, stream, attempts, history, budgets, IInv, TypeOK, WindowInv, Window, SameIdle,
     BatchInv, InBatch, SettledInv, AckedIsSettled, Acked, BudgetInv
<1>2. IInv /\ [Next]_vars => IInv'
  BY <1>1, PublishKeeps, TickKeeps, SubscribeKeeps, CrashKeeps, ReadFreshKeeps, ScanKeeps,
     ClaimKeeps, CommandFailsKeeps, NotYetKeeps, DeliverKeeps, HandlerAcksKeeps,
     HandlerGivesUpKeeps, HandlerFailsKeeps, HandlerDefersKeeps, AckKeeps
     DEF Next, Loop, Handler
<1>. QED  BY <1>2, InitOK, PTL DEF Spec

\* The stream and the state of the subscription keep their types.
THEOREM TypeCorrect == Spec => []TypeOK
<1>1. IInv => TypeOK
  BY DEF IInv
<1>. QED  BY <1>1, Invariance, PTL

\* No handler ever holds an event while an earlier one is not acknowledged.
THEOREM OrderIsKept == Spec => []CalledInOrder
<1>1. IInv => CalledInOrder
  <2>. SUFFICES ASSUME IInv, pc = "call" PROVE 1..(First(todo) - 1) \subseteq Acked
    BY DEF CalledInOrder
  <2>1. PICK d \in 0..lastRead : Window(d) /\ d + 1 <= lastRead /\ First(todo) = d + 1
    BY HeadOfBatch DEF InBatch
  <2>2. d \in Nat /\ lastRead \in Nat
    BY DEF IInv, TypeOK
  <2>. QED  BY <2>1, <2>2 DEF Acked, Window
<1>. QED  BY <1>1, Invariance, PTL

\* Whatever was acknowledged was settled by a handler, or could not be parsed.
THEOREM NothingIsDropped == Spec => []AckedIsSettled
<1>1. IInv => AckedIsSettled
  BY DEF IInv, SettledInv
<1>. QED  BY <1>1, Invariance, PTL

\* Restarts do not give a message its retry budget back.
THEOREM BudgetIsKept == Spec => []BudgetNotRevived
<1>1. IInv => BudgetNotRevived
  <2>. SUFFICES ASSUME IInv, pc = "call" PROVE retries[First(todo)] >= failed[First(todo)]
    BY DEF BudgetNotRevived
  <2>1. PICK d \in 0..lastRead : Window(d) /\ d + 1 <= lastRead /\ First(todo) = d + 1
    BY HeadOfBatch DEF InBatch
  <2>2. d + 1 \in pending
    BY <2>1 DEF Window, IInv, TypeOK
  <2>. QED  BY <2>1, <2>2 DEF IInv, BudgetInv, InBatch
<1>. QED  BY <1>1, Invariance, PTL

----------------------------------------------------------------------------
(* The stream implements the partition of the port.                        *)

\* An interval of pending entries starts right after what is done.
LEMMA DoneOfInterval ==
    ASSUME NEW d \in Nat, NEW b \in Nat, d <= b, NEW S, S = (d + 1)..b
    PROVE  (IF S = {} THEN b ELSE First(S) - 1) = d
<1>1. CASE S = {}
  BY <1>1
<1>2. CASE S # {}
  <2>1. d + 1 <= b
    BY <1>2
  <2>2. First(S) = d + 1
    BY <2>1, FirstOfInterval
  <2>. QED  BY <1>2, <2>2
<1>. QED  BY <1>1, <1>2

\* Where the partition stands, in the terms of the abstract queue.
LEMMA Position ==
    ASSUME IInv
    PROVE  /\ Done \in Nat /\ Done <= lastRead /\ pending = (Done + 1)..lastRead
           /\ InBatch => First(todo) = Done + 1 /\ Done + 1 <= lastRead
<1>1. PICK d \in 0..lastRead : Window(d)
  BY DEF IInv, WindowInv
<1>2. lastRead \in Nat /\ d \in Nat /\ d <= lastRead /\ pending = (d + 1)..lastRead
  BY <1>1 DEF IInv, TypeOK, Window
<1>3. Done = d
  BY <1>2, DoneOfInterval DEF Done
<1>4. InBatch => First(todo) = Done + 1 /\ Done + 1 <= lastRead
  <2>. SUFFICES ASSUME InBatch PROVE First(todo) = d + 1 /\ d + 1 <= lastRead
    BY <1>3
  <2>1. todo = pending /\ todo # {}
    BY DEF IInv, BatchInv
  <2>2. d + 1 <= lastRead
    BY <1>2, <2>1
  <2>. QED  BY <1>2, <2>1, <2>2, FirstOfInterval
<1>. QED  BY <1>2, <1>3, <1>4

\* Every step is a step of the abstract queue, or none.
LEMMA StepIsQueueStep ==
    IInv /\ IInv' /\ [Next]_vars => [Queue!QueueNext]_(Queue!queueVars)
<1>. SUFFICES ASSUME IInv, IInv', [Next]_vars
              PROVE  Queue!QueueNext \/ UNCHANGED <<published, Done, Serving>>
  BY DEF Queue!queueVars
<1>. USE DEF Queue!QueueNext
<1>0. /\ Done \in Nat /\ lastRead \in Nat /\ published \in Nat /\ lastRead <= published
      /\ InBatch => First(todo) = Done + 1 /\ Done + 1 <= lastRead
  BY Position DEF IInv, TypeOK
<1>1. pending' = pending /\ lastRead' = lastRead => Done' = Done
  BY DEF Done
<1>2. CASE Publish
  BY <1>1, <1>2 DEF Publish, Queue!Append, Serving
<1>3. CASE Tick \/ Subscribe \/ Scan \/ NotYet
  BY <1>1, <1>3 DEF Tick, Subscribe, Scan, NotYet, Leave, Serving, stream
<1>4. CASE Claim
  BY <1>1, <1>4 DEF Claim, Reply, Lost, After, Serving
<1>5. CASE Crash \/ CommandFails \/ HandlerFails \/ HandlerDefers
  <2>1. /\ pc' \in {"off", "poll"} /\ published' = published
        /\ pending' = pending /\ lastRead' = lastRead
    <3>1. CASE Crash \/ CommandFails
      BY <3>1 DEF Crash, CommandFails, Lost, stream
    <3>2. CASE HandlerFails \/ HandlerDefers
      BY <3>2 DEF HandlerFails, HandlerDefers, Leave, stream
    <3>. QED  BY <1>5, <3>1, <3>2
  <2>2. Done' = Done /\ Serving' = 0
    BY <1>1, <2>1 DEF Serving
  <2>. QED  BY <2>1, <2>2 DEF Queue!GiveBack
<1>6. CASE HandlerAcks \/ HandlerGivesUp
  BY <1>1, <1>6 DEF HandlerAcks, HandlerGivesUp, Serving, stream
<1>7. CASE Deliver
  <2>1. Done' = Done /\ published' = published /\ Serving = 0 /\ Serving' = First(todo)
    BY <1>1, <1>7 DEF Deliver, Serving, stream
  <2>. QED  BY <1>0, <1>7, <2>1 DEF Deliver, InBatch, Queue!Serve
<1>8. CASE ReadFresh
  <2>1. /\ Serving = 0 /\ Serving' = 0 /\ published' = published /\ Done = lastRead
    BY <1>8 DEF ReadFresh, Reply, Lost, After, Serving, Done
  <2>2. FreshEnd \in Nat /\ lastRead <= FreshEnd
    BY <1>0, PartitionAssumption DEF FreshEnd
  <2>3. pending' = (lastRead + 1)..FreshEnd /\ lastRead' = FreshEnd
    BY <1>8 DEF ReadFresh
  <2>4. Done' = lastRead
    <3>1. Done' = (IF pending' = {} THEN lastRead' ELSE First(pending') - 1)
      BY DEF Done
    <3>2. PICK n \in Nat : n = FreshEnd
      BY <2>2
    <3>3. /\ lastRead \in Nat /\ lastRead <= n
          /\ pending' = (lastRead + 1)..n /\ lastRead' = n
      BY <1>0, <2>2, <2>3, <3>2
    <3>4. (IF pending' = {} THEN n ELSE First(pending') - 1) = lastRead
      BY <3>3, DoneOfInterval
    <3>. QED  BY <3>1, <3>3, <3>4
  <2>. QED  BY <2>1, <2>4
<1>9. CASE Ack
  <2>1. /\ Serving = Done + 1 /\ Serving' = 0 /\ published' = published
        /\ pending' = pending \ {Done + 1} /\ lastRead' = lastRead /\ Done + 1 <= lastRead
    BY <1>0, <1>9 DEF Ack, Reply, Lost, After, Serving, InBatch
  <2>2. pending' = ((Done + 1) + 1)..lastRead
    BY <1>0, <2>1, Position
  <2>3. Done' = Done + 1
    <3>1. Done' = (IF pending' = {} THEN lastRead' ELSE First(pending') - 1)
      BY DEF Done
    <3>2. PICK k \in Nat : k = Done
      BY <1>0
    <3>3. /\ k + 1 \in Nat /\ k + 1 <= lastRead /\ lastRead' = lastRead /\ lastRead \in Nat
          /\ pending' = ((k + 1) + 1)..lastRead
      BY <1>0, <2>1, <2>2, <3>2
    <3>4. (IF pending' = {} THEN lastRead ELSE First(pending') - 1) = k + 1
      BY <3>3, DoneOfInterval
    <3>. QED  BY <3>1, <3>2, <3>3, <3>4
  <2>. QED  BY <1>0, <2>1, <2>3 DEF Queue!Finish
<1>10. CASE UNCHANGED vars
  BY <1>1, <1>10 DEF vars, stream, Serving
<1>. QED  BY <1>2, <1>3, <1>4, <1>5, <1>6, <1>7, <1>8, <1>9, <1>10 DEF Next, Loop, Handler

\* The Redis adapter implements the partition that the port promises.
THEOREM Refinement == Spec => ImplementsQueue
<1>1. Init => Queue!QueueInit
  BY DEF Init, Queue!QueueInit, Done, Serving
<1>. QED  BY <1>1, StepIsQueueStep, Invariance, PTL DEF Spec, ImplementsQueue, Queue!QueueSpec


----------------------------------------------------------------------------
(* The in-memory adapter, as MCEventBus starts it.                         *)

\* What waits: everything after the first d events; of it only the first may
\* be pending, and what came before the first subscription is unclaimed.
MemoryWindow(d) ==
    /\ d <= published
    /\ unclaimed \cup backlog \cup held = (d + 1)..published
    /\ held \subseteq {d + 1} /\ held \cap backlog = {}
    /\ group => unclaimed = {}
    /\ ~ group => backlog = {} /\ held = {} /\ point = "off"
    /\ point \in {"off", "poll", "call"} /\ (point = "call" => held # {})

MemoryInv ==
    /\ published \in Nat /\ adapter \in {"redis", "memory"}
    /\ adapter = "memory" => \E d \in Nat : MemoryWindow(d)

\* What the refinement mapping says of such a state.
LEMMA MemoryState ==
    ASSUME published \in Nat, NEW d \in Nat, MemoryWindow(d)
    PROVE  /\ Memory!Done = d /\ Memory!Serving = IF point = "call" THEN d + 1 ELSE 0
           /\ held # {} => held = {d + 1} /\ Memory!First(held) = d + 1 /\ d < published
           /\ held = {} /\ backlog # {} => Memory!First(backlog) = d + 1 /\ d < published
<1>1. ASSUME NEW S, d + 1 \in S, \A x \in S : x \in Nat /\ d + 1 <= x
      PROVE  Memory!First(S) = d + 1
  <2>1. Memory!First(S) \in S /\ \A x \in S : Memory!First(S) <= x
    BY <1>1 DEF Memory!First
  <2>. QED  BY <1>1, <2>1
<1>2. held # {} => held = {d + 1} /\ Memory!First(held) = d + 1 /\ d < published
  <2>. HAVE held # {}
  <2>1. held = {d + 1} /\ d + 1 \in (d + 1)..published
    BY DEF MemoryWindow
  <2>2. Memory!First(held) = d + 1
    BY <1>1, <2>1
  <2>. QED  BY <2>1, <2>2
<1>3. held = {} /\ backlog # {} => Memory!First(backlog) = d + 1 /\ d < published
  <2>. HAVE held = {} /\ backlog # {}
  <2>1. unclaimed = {}
    BY DEF MemoryWindow
  <2>2. backlog = (d + 1)..published
    BY <2>1 DEF MemoryWindow
  <2>3. d + 1 \in backlog /\ \A x \in backlog : x \in Nat /\ d + 1 <= x
    BY <2>2
  <2>4. Memory!First(backlog) = d + 1
    BY <1>1, <2>3
  <2>. QED  BY <2>2, <2>3, <2>4
<1>4. Memory!Done = d
  <2>1. Memory!Waiting = (d + 1)..published /\ d <= published
    BY DEF MemoryWindow, Memory!Waiting
  <2>2. CASE d = published
    <3>1. Memory!Waiting = {}
      BY <2>1, <2>2
    <3>. QED  BY <2>2, <3>1 DEF Memory!Done
  <2>3. CASE d # published
    <3>1. d + 1 \in Memory!Waiting /\ \A x \in Memory!Waiting : x \in Nat /\ d + 1 <= x
      BY <2>1, <2>3
    <3>2. Memory!First(Memory!Waiting) = d + 1 /\ Memory!Waiting # {}
      BY <1>1, <3>1
    <3>. QED  BY <3>2 DEF Memory!Done
  <2>. QED  BY <2>2, <2>3
<1>5. Memory!Serving = IF point = "call" THEN d + 1 ELSE 0
  BY <1>2 DEF MemoryWindow, Memory!Serving
<1>. QED  BY <1>2, <1>3, <1>4, <1>5

MemoryMap ==
    \A d \in Nat : published \in Nat /\ MemoryWindow(d) =>
      Memory!Done = d /\ Memory!Serving = IF point = "call" THEN d + 1 ELSE 0

LEMMA MemoryMaps == MemoryMap /\ MemoryMap'
<1>1. MemoryMap
  BY MemoryState DEF MemoryMap
<1>. QED  BY <1>1, PTL

\* The ways a step may move the window.
MemoryMove(d, f) ==
    \/ published' = published + 1 /\ f = d /\ point' = point
    \/ published' = published /\ f = d /\ point # "call" /\ point' # "call"
    \/ published' = published /\ f = d /\ point' = point
    \/ published' = published /\ f = d /\ point # "call" /\ point' = "call" /\ d < published
    \/ published' = published /\ f = d /\ point = "call" /\ point' = "poll"
    \/ published' = published /\ f = d + 1 /\ point = "call" /\ point' = "poll"

LEMMA MemoryStep ==
    ASSUME published \in Nat, NEW d \in Nat, MemoryWindow(d), Memory!Next
    PROVE  \E f \in Nat : MemoryWindow(f)' /\ MemoryMove(d, f)
<1>1. CASE Memory!Publish
  <2>1. /\ published' = published + 1 /\ UNCHANGED <<group, held, point>>
        /\ IF group THEN backlog' = backlog \cup {published + 1} /\ UNCHANGED unclaimed
                    ELSE unclaimed' = unclaimed \cup {published + 1} /\ UNCHANGED backlog
    BY <1>1 DEF Memory!Publish
  <2>2. (unclaimed \cup backlog \cup held)' = (d + 1)..published'
    <3>1. unclaimed' \cup backlog' \cup held' = (unclaimed \cup backlog \cup held) \cup {published + 1}
      BY <2>1
    <3>2. unclaimed \cup backlog \cup held = (d + 1)..published /\ d <= published
      BY DEF MemoryWindow
    <3>3. (d + 1)..(published + 1) = ((d + 1)..published) \cup {published + 1}
      BY <3>2
    <3>. QED  BY <2>1, <3>1, <3>2, <3>3
  <2>3. held' \cap backlog' = {}
    <3>1. published + 1 \notin held
      BY DEF MemoryWindow
    <3>. QED  BY <2>1, <3>1 DEF MemoryWindow
  <2>4. MemoryWindow(d)'
    BY <2>1, <2>2, <2>3 DEF MemoryWindow
  <2>. QED  BY <2>1, <2>4 DEF MemoryMove
<1>2. CASE Memory!Subscribe
  <2>1. /\ point = "off" /\ point' = "poll" /\ group' = TRUE /\ backlog' = backlog \cup unclaimed /\ unclaimed' = {}
        /\ UNCHANGED <<published, held>>
    BY <1>2 DEF Memory!Subscribe
  <2>2. held' \cap backlog' = {}
    BY <2>1 DEF MemoryWindow
  <2>3. (unclaimed \cup backlog \cup held)' = (d + 1)..published'
    BY <2>1 DEF MemoryWindow
  <2>4. MemoryWindow(d)'
    BY <2>1, <2>2, <2>3 DEF MemoryWindow
  <2>. QED  BY <2>1, <2>4 DEF MemoryMove
<1>3. CASE Memory!Close
  <2>1. point = "poll" /\ point' = "off" /\ UNCHANGED <<published, unclaimed, group, backlog, held>>
    BY <1>3 DEF Memory!Close
  <2>2. MemoryWindow(d)'
    BY <2>1 DEF MemoryWindow
  <2>. QED  BY <2>1, <2>2 DEF MemoryMove
<1>4. CASE Memory!Tick
  <2>1. UNCHANGED <<published, unclaimed, group, backlog, held, point>>
    BY <1>4 DEF Memory!Tick
  <2>2. MemoryWindow(d)'
    BY <2>1 DEF MemoryWindow
  <2>. QED  BY <2>1, <2>2 DEF MemoryMove
<1>5. CASE Memory!Redeliver
  <2>1. point = "poll" /\ held # {} /\ point' = "call" /\ UNCHANGED <<published, unclaimed, group, backlog, held>>
    BY <1>5 DEF Memory!Redeliver
  <2>2. MemoryWindow(d)'
    BY <2>1 DEF MemoryWindow
  <2>3. d < published
    BY <2>1, MemoryState
  <2>. QED  BY <2>1, <2>2, <2>3 DEF MemoryMove
<1>6. CASE Memory!Take
  <2>1. /\ point = "poll" /\ held = {} /\ backlog # {} /\ point' = "call" /\ UNCHANGED <<published, unclaimed, group>>
        /\ held' = held \cup {Memory!First(backlog)} /\ backlog' = backlog \ {Memory!First(backlog)}
    BY <1>6 DEF Memory!Take
  <2>2. Memory!First(backlog) = d + 1 /\ d < published
    BY <2>1, MemoryState
  <2>3. held' = {d + 1} /\ backlog' = backlog \ {d + 1}
    BY <2>1, <2>2
  <2>4. (unclaimed \cup backlog \cup held)' = (d + 1)..published'
    BY <2>1, <2>2, <2>3 DEF MemoryWindow
  <2>5. MemoryWindow(d)'
    BY <2>1, <2>3, <2>4 DEF MemoryWindow
  <2>. QED  BY <2>1, <2>2, <2>5 DEF MemoryMove
<1>7. CASE Memory!HandlerAcks
  <2>1. /\ point = "call" /\ point' = "poll" /\ held' = held \ {Memory!First(held)} /\ UNCHANGED <<published, unclaimed, group, backlog>>
    BY <1>7 DEF Memory!HandlerAcks
  <2>2. held = {d + 1} /\ Memory!First(held) = d + 1 /\ d < published
    BY <2>1, MemoryState DEF MemoryWindow
  <2>3. held' = {}
    BY <2>1, <2>2
  <2>4. (unclaimed \cup backlog \cup held)' = ((d + 1) + 1)..published'
    <3>1. group /\ unclaimed = {}
      BY <2>1 DEF MemoryWindow
    <3>2. backlog = ((d + 1)..published) \ {d + 1}
      BY <2>2, <3>1 DEF MemoryWindow
    <3>. QED  BY <2>1, <2>3, <3>1, <3>2
  <2>5. MemoryWindow(d + 1)'
    BY <2>1, <2>2, <2>3, <2>4 DEF MemoryWindow
  <2>. QED  BY <2>1, <2>5 DEF MemoryMove
<1>8. CASE Memory!HandlerFails \/ Memory!HandlerDefers
  <2>1. point = "call" /\ point' = "poll" /\ UNCHANGED <<published, unclaimed, group, backlog, held>>
    BY <1>8 DEF Memory!HandlerFails, Memory!HandlerDefers
  <2>2. MemoryWindow(d)'
    BY <2>1 DEF MemoryWindow
  <2>. QED  BY <2>1, <2>2 DEF MemoryMove
<1>. QED  BY <1>1, <1>2, <1>3, <1>4, <1>5, <1>6, <1>7, <1>8 DEF Memory!Next

LEMMA BusStep ==
    ASSUME MemoryInv, RedisNext \/ MemoryNext
    PROVE  MemoryInv' /\ (MemoryQueue!QueueNext \/ UNCHANGED MemoryQueue!queueVars)
<1>1. CASE RedisNext
  <2>1. adapter = "redis" /\ adapter' = "redis" /\ Next
    BY <1>1 DEF RedisNext
  <2>2. published' \in {published, published + 1}
    BY <2>1 DEF Next, Loop, Handler, Publish, Tick, Subscribe, Crash, CommandFails, ReadFresh, Scan, Claim, NotYet,
                Deliver, Ack, HandlerAcks, HandlerGivesUp, HandlerFails, HandlerDefers, stream
  <2>. QED  BY <2>1, <2>2 DEF MemoryInv, IsRedis, MemoryQueue!QueueNext, MemoryQueue!Append, MemoryQueue!queueVars
<1>2. CASE MemoryNext
  <2>1. adapter = "memory" /\ adapter' = "memory" /\ Memory!Next
    BY <1>2 DEF MemoryNext
  <2>2. PICK d \in Nat : MemoryWindow(d)
    BY <2>1 DEF MemoryInv
  <2>3. published \in Nat
    BY DEF MemoryInv
  <2>4. PICK f \in Nat : MemoryWindow(f)' /\ MemoryMove(d, f)
    BY <2>1, <2>2, <2>3, MemoryStep
  <2>5. published' \in Nat
    BY <2>3, <2>4 DEF MemoryMove
  <2>6. Memory!Done = d /\ Memory!Serving = IF point = "call" THEN d + 1 ELSE 0
    BY <2>2, <2>3, MemoryMaps DEF MemoryMap
  <2>7. (Memory!Done)' = f /\ (Memory!Serving)' = IF point' = "call" THEN f + 1 ELSE 0
    BY <2>4, <2>5, MemoryMaps DEF MemoryMap
  <2>8. MemoryInv'
    BY <2>1, <2>4, <2>5 DEF MemoryInv
  <2>. QED  BY <2>1, <2>3, <2>4, <2>6, <2>7, <2>8
            DEF MemoryMove, IsRedis, MemoryQueue!QueueNext, MemoryQueue!Append, MemoryQueue!Serve, MemoryQueue!GiveBack,
                MemoryQueue!Finish, MemoryQueue!queueVars
<1>. QED  BY <1>1, <1>2

\* The in-memory adapter implements the partition that the port promises, for
\* any number of events, also for what was published before the first
\* subscription, and whatever the handlers answer (in-memory.ts).
THEOREM MemoryRefinement == BusSpec => MemoryImplementsQueue
<1>1. BusInit => MemoryInv /\ MemoryQueue!QueueInit
  <2>. SUFFICES ASSUME BusInit PROVE MemoryInv /\ MemoryQueue!QueueInit
    OBVIOUS
  <2>1. /\ published = 0 /\ unclaimed = {} /\ group = FALSE /\ backlog = {} /\ held = {} /\ point = "off"
        /\ adapter \in {"redis", "memory"}
    BY DEF BusInit, Memory!Init
  <2>2. MemoryWindow(0)
    BY <2>1 DEF MemoryWindow
  <2>3. Memory!Done = 0 /\ Memory!Serving = 0
    BY <2>1, <2>2, MemoryMaps DEF MemoryMap
  <2>. QED  BY <2>1, <2>2, <2>3 DEF MemoryInv, MemoryQueue!QueueInit
<1>2. MemoryInv /\ [RedisNext \/ MemoryNext]_busVars => MemoryInv' /\ [MemoryQueue!QueueNext]_MemoryQueue!queueVars
  <2>. SUFFICES ASSUME MemoryInv, [RedisNext \/ MemoryNext]_busVars
                PROVE  MemoryInv' /\ (MemoryQueue!QueueNext \/ UNCHANGED MemoryQueue!queueVars)
    OBVIOUS
  <2>1. CASE UNCHANGED busVars
    <3>1. UNCHANGED <<published, adapter, unclaimed, group, backlog, held, point>>
      BY <2>1 DEF busVars, vars, stream, memoryOnly
    <3>2. MemoryInv'
      BY <3>1 DEF MemoryInv, MemoryWindow
    <3>3. UNCHANGED <<Memory!Done, Memory!Serving>>
      BY <3>1 DEF Memory!Done, Memory!Serving, Memory!Waiting
    <3>. QED  BY <3>1, <3>2, <3>3 DEF IsRedis, MemoryQueue!queueVars
  <2>. QED  BY <2>1, BusStep
<1>. QED  BY <1>1, <1>2, PTL DEF BusSpec, MemoryImplementsQueue, MemoryQueue!QueueSpec
============================================================================
