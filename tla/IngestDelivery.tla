-------------------------- MODULE IngestDelivery --------------------------
(***************************************************************************)
(* The way of a webhook delivery through the ingestion pipeline, for one   *)
(* pull request: the gateway stores it (apps/ingest-gateway), the enrich   *)
(* worker completes it from GitHub (enrich.ts), the project worker writes  *)
(* the PostgreSQL snapshot and the Elasticsearch document (project.ts),    *)
(* the outbox relay publishes again what was not processed                 *)
(* (outbox-relay.ts), and what fails for good waits in dead_letter for an  *)
(* operator (dead-letter.ts, ops/dead-letters.ts).                         *)
(*                                                                         *)
(* The n-th change of the pull request sends delivery n.  A document is    *)
(* what the pipeline knows of the pull request: how many of its changes    *)
(* the content shows, and whether the enrichment was complete.  Its        *)
(* version is the time its delivery was received.  Both topics are the     *)
(* partition PartitionQueue promises: the oldest event is handed out until *)
(* it is acknowledged.                                                     *)
(***************************************************************************)
EXTENDS Naturals, Sequences

CONSTANTS
    MaxChanges,    \* bound: changes of the pull request
    MaxRetries,    \* MAX_RETRIES
    MaxReprocess,  \* MAX_REPROCESS_ATTEMPTS
    MaxCopies,     \* bound: events published to prs:ingest
    MaxRequests,   \* bound: reprocessing requests of operators
    MaxFaults      \* bound: lost calls, deaths of a worker, archiving

Deliveries == 1..MaxChanges
Stages == {"enrich", "project"}
Rows == Deliveries \X Stages

ASSUME IngestAssumption ==
    /\ MaxChanges \in Nat
    /\ MaxRetries \in Nat /\ MaxReprocess \in Nat \ {0}
    /\ MaxCopies \in Nat /\ MaxRequests \in Nat /\ MaxFaults \in Nat

Doc == [from : 0..MaxChanges, content : 0..MaxChanges, complete : BOOLEAN]
NoDoc == [from |-> 0, content |-> 0, complete |-> FALSE]

VARIABLES
    changes,    \* changes of the pull request on GitHub
    received,   \* raw_event.received_at in milliseconds, 0 for no row
    clock,      \* the gateway's clock
    active,     \* repository.status
    queued,     \* rows with a queued_at; it grows old by itself
    processed,  \* rows with a processed_at
    entering,   \* stored deliveries the gateway has still to publish
    ingest,     \* prs:ingest
    copies,     \* events published to it so far
    enriched,   \* prs:enriched
    enr,        \* the enrich worker: control point and retriesUsed
    prj,        \* the project worker: control point, outcome of the upsert, retriesUsed
    snapshot,   \* pull_request_snapshot
    index,      \* the document in prs-pull-requests
    announced,  \* deliveries whose EVT-ING-003 was published
    dead,       \* dead_letter, by delivery and stage
    relay,      \* the outbox relay: the row it has read and will publish, or 0
    ops,        \* rows an operator's request has marked and not published yet
    requests,   \* requests so far
    faults      \* faults so far

raw      == <<changes, received, clock>>
topics   == <<ingest, copies, enriched>>
documents == <<snapshot, index, announced>>
operator == <<ops, requests>>
vars == <<raw, active, queued, processed, entering, topics, enr, prj, documents, dead,
          relay, operator, faults>>

\* Every variable keeps its type, and no delivery is stored twice, so that the
\* clock ticks at most once for each (ingest-gateway, store.ts).
TypeOK ==
    /\ changes \in 0..MaxChanges
    /\ received \in [Deliveries -> 0..MaxChanges] /\ clock \in 0..MaxChanges
    /\ active \in BOOLEAN /\ queued \subseteq Deliveries
    /\ processed \subseteq Deliveries /\ entering \subseteq Deliveries
    /\ ingest \in Seq(Deliveries) /\ copies \in 0..MaxCopies
    /\ enriched \in Seq(Doc)
    /\ enr \in [at : {"idle", "record", "ack"}, tries : Nat]
    /\ prj \in [at : {"idle", "index", "mark", "resolve", "announce", "ack"},
                fresh : BOOLEAN, tries : Nat]
    /\ snapshot \in Doc /\ index \in Doc /\ announced \subseteq Deliveries
    /\ dead \in [Rows -> [state : {"none", "pending", "reprocessing", "held", "resolved"},
                          count : Nat]]
    /\ relay \in 0..MaxChanges
    /\ ops \subseteq Rows /\ requests \in 0..MaxRequests /\ faults \in 0..MaxFaults

Init ==
    /\ changes = 0 /\ received = [d \in Deliveries |-> 0] /\ clock = 0
    /\ active = TRUE /\ queued = {} /\ processed = {} /\ entering = {}
    /\ ingest = <<>> /\ copies = 0 /\ enriched = <<>>
    /\ enr = [at |-> "idle", tries |-> 0]
    /\ prj = [at |-> "idle", fresh |-> FALSE, tries |-> 0]
    /\ snapshot = NoDoc /\ index = NoDoc /\ announced = {}
    /\ dead = [r \in Rows |-> [state |-> "none", count |-> 0]]
    /\ relay = 0
    /\ ops = {} /\ requests = 0 /\ faults = 0

Version(doc) == IF doc.from = 0 THEN 0 ELSE received[doc.from]

Fault == faults < MaxFaults /\ faults' = faults + 1

----------------------------------------------------------------------------
(* GitHub and the gateway                                                  *)

Change ==
    /\ changes < MaxChanges
    /\ changes' = changes + 1
    /\ UNCHANGED <<received, clock, active, queued, processed, entering, topics, enr, prj,
                   documents, dead, relay, operator, faults>>

\* Mutant of Store: the row is not marked for the outbox.
StoreUnqueued(d) ==
    /\ d <= changes /\ received[d] = 0
    /\ \E now \in {clock, clock + 1} \ {0} :
         received' = [received EXCEPT ![d] = now] /\ clock' = now
    /\ entering' = entering \cup {d}
    /\ UNCHANGED <<changes, active, queued, processed, topics, enr, prj, documents, dead, relay,
                   operator, faults>>

\* received_at is in milliseconds: the next delivery may have the time of the last.
\* Deliveries arrive in any order; GitHub sends one again until it is stored,
\* and one that is stored changes nothing any more.
Store(d) ==
    /\ d <= changes /\ received[d] = 0
    /\ \E now \in {clock, clock + 1} \ {0} :
         received' = [received EXCEPT ![d] = now] /\ clock' = now
    /\ queued' = queued \cup {d}
    /\ entering' = entering \cup {d}
    /\ UNCHANGED <<changes, active, processed, topics, enr, prj, documents, dead, relay,
                   operator, faults>>

\* Publish to prs:ingest.
ToIngest(d) ==
    /\ copies < MaxCopies /\ copies' = copies + 1
    /\ ingest' = Append(ingest, d)
    /\ UNCHANGED enriched

\* A publication that fails, or a gateway that dies, does not take back the 202.
Enqueue(d) ==
    /\ d \in entering /\ entering' = entering \ {d}
    /\ \/ ToIngest(d) /\ UNCHANGED faults
       \/ Fault /\ UNCHANGED topics
    /\ UNCHANGED <<raw, active, queued, processed, enr, prj, documents, dead, relay, operator>>

----------------------------------------------------------------------------
(* JOB-ING-007, the outbox relay                                           *)

\* The relay reads the rows that wait too long, and publishes them one after the
\* other: each may be processed meanwhile.
FindStuckOutboxEvents(d) ==
    /\ relay = 0 /\ d \in queued \ processed
    /\ relay' = d
    /\ UNCHANGED <<raw, active, queued, processed, entering, topics, enr, prj, documents, dead,
                   operator, faults>>

\* markQueued winds up the timer of a published row; whether it fails, or the
\* publication does, the row is read again.
RelayPublish ==
    /\ relay # 0 /\ relay' = 0
    /\ \/ ToIngest(relay) /\ UNCHANGED faults
       \/ Fault /\ UNCHANGED topics
    /\ UNCHANGED <<raw, active, queued, processed, entering, enr, prj, documents, dead, operator>>

----------------------------------------------------------------------------
(* dead_letter                                                             *)

\* Mutant of Recorded: every failure counts as a failed reprocessing.
RecordedCountsAll(row) ==
    LET count == IF row.state = "none" THEN 0 ELSE row.count + 1 IN
    [count |-> count,
     state |-> IF row.state = "held" \/ count >= MaxReprocess THEN "held" ELSE "pending"]

\* What recordDeadLetter's upsert makes of a row.
Recorded(row) ==
    LET count == CASE row.state = "reprocessing" -> row.count + 1
                   [] row.state = "resolved"     -> 0
                   [] OTHER                      -> row.count
    IN  [count |-> count,
         state |-> IF \/ row.state = "held"
                      \/ row.state = "reprocessing" /\ count >= MaxReprocess
                   THEN "held" ELSE "pending"]

Record(r) == dead' = [dead EXCEPT ![r] = Recorded(dead[r])]

\* An operator points at a row of any state, or filters for some.
MarkReprocessing(r) ==
    /\ dead[r].state # "none" /\ r \notin ops
    /\ requests < MaxRequests /\ requests' = requests + 1
    /\ dead' = [dead EXCEPT ![r].state = "reprocessing"]
    /\ ops' = ops \cup {r}
    /\ UNCHANGED <<raw, active, queued, processed, entering, topics, enr, prj, documents, relay,
                   faults>>

\* A publication that fails takes the mark back, unless that fails too.
Reinject(r) ==
    /\ r \in ops /\ ops' = ops \ {r}
    /\ \/ ToIngest(r[1]) /\ UNCHANGED <<dead, faults>>
       \/ /\ Fault /\ UNCHANGED topics
          /\ \/ dead' = [dead EXCEPT ![r].state = IF dead[r].state = "reprocessing"
                                                  THEN "pending" ELSE dead[r].state]
             \/ UNCHANGED dead
    /\ UNCHANGED <<raw, active, queued, processed, entering, enr, prj, documents, relay,
                   requests>>

----------------------------------------------------------------------------
(* JOB-ING-002, the enrich worker                                          *)

enrichFrame == <<raw, active, queued, entering, prj, documents, relay, operator>>

EnrichAt(p) == enr.at = p /\ ingest # <<>>

\* No repository to index: acknowledged, nothing else.
EnrichSkips ==
    /\ EnrichAt("idle") /\ ~active
    /\ enr' = [enr EXCEPT !.at = "ack"]
    /\ UNCHANGED <<enrichFrame, processed, topics, dead, faults>>

\* A malformed payload, an unknown installation, a deleted pull request.
EnrichRejects ==
    /\ EnrichAt("idle") /\ active
    /\ Record(<<Head(ingest), "enrich">>)
    /\ enr' = [enr EXCEPT !.at = "ack"]
    /\ UNCHANGED <<enrichFrame, processed, topics, faults>>

\* A deferral until the rate limit recovers leaves everything as it is.
EnrichRetries ==
    /\ EnrichAt("idle") /\ active
    /\ enr.tries < MaxRetries
    /\ enr' = [enr EXCEPT !.tries = enr.tries + 1]
    /\ UNCHANGED <<enrichFrame, processed, topics, dead, faults>>

\* Mutant of Fetched: the payload of the webhook is trusted.
FetchedFromPayload(d) == [from : {d}, content : {d}, complete : BOOLEAN]

\* The pull request as GitHub has it now; when it cannot be read, as the webhook
\* had it, and then, or without commits, files or reviews, the result is partial.
Fetched(d) ==
    {doc \in [from : {d}, content : {changes, d}, complete : BOOLEAN] :
        doc.complete => doc.content = changes}

\* Mutant of EnrichPublishes: the row is marked here, before it is indexed.
EnrichPublishesAndMarks ==
    /\ EnrichAt("idle") /\ active
    /\ \E doc \in Fetched(Head(ingest)) :
         /\ enriched' = Append(enriched, doc)
         /\ processed' = processed \cup {doc.from}
         /\ enr' = [enr EXCEPT !.at = IF doc.complete THEN "ack" ELSE "record"]
    /\ UNCHANGED <<enrichFrame, ingest, copies, dead, faults>>

\* EVT-ING-002 goes out before the failure is recorded, so that a partial document
\* survives.  A change between the reads and the publication is one just after it.
EnrichPublishes ==
    /\ EnrichAt("idle") /\ active
    /\ \E doc \in Fetched(Head(ingest)) :
         /\ enriched' = Append(enriched, doc)
         /\ enr' = [enr EXCEPT !.at = IF doc.complete THEN "ack" ELSE "record"]
    /\ UNCHANGED <<enrichFrame, processed, ingest, copies, dead, faults>>

EnrichRecords ==
    /\ EnrichAt("record")
    /\ Record(<<Head(ingest), "enrich">>)
    /\ enr' = [enr EXCEPT !.at = "ack"]
    /\ UNCHANGED <<enrichFrame, processed, topics, faults>>

EnrichAcks ==
    /\ EnrichAt("ack")
    /\ ingest' = Tail(ingest)
    /\ enr' = [at |-> "idle", tries |-> 0]
    /\ UNCHANGED <<enrichFrame, processed, copies, enriched, dead, faults>>

\* A call throws, the worker dies or its acknowledgement is lost: the event
\* comes back with one delivery more.
EnrichThrows ==
    /\ enr.at # "idle"
    /\ Fault
    /\ enr' = [at |-> "idle", tries |-> enr.tries + 1]
    /\ UNCHANGED <<enrichFrame, processed, topics, dead>>

Enrich == EnrichSkips \/ EnrichRejects \/ EnrichRetries \/ EnrichPublishes
          \/ EnrichRecords \/ EnrichAcks

----------------------------------------------------------------------------
(* JOB-ING-003, the project worker                                         *)

projectFrame == <<raw, active, queued, entering, ingest, copies, enr, relay, ops, requests>>

ProjectAt(p) == prj.at = p /\ enriched # <<>>

Current == Head(enriched)

\* The repository was archived since.
ProjectSkips ==
    /\ ProjectAt("idle") /\ ~active
    /\ prj' = [prj EXCEPT !.at = "ack"]
    /\ UNCHANGED <<projectFrame, processed, enriched, documents, dead, faults>>

\* Mutant of RecordSnapshot: the index goes first.
RecordSnapshotLater ==
    /\ ProjectAt("idle") /\ active
    /\ prj' = [prj EXCEPT !.at = "index"]
    /\ UNCHANGED <<projectFrame, processed, enriched, documents, dead, faults>>

\* The snapshot is taken unless a newer one is there; it precedes the index.
RecordSnapshot ==
    /\ ProjectAt("idle") /\ active
    /\ snapshot' = IF Version(snapshot) <= Version(Current) THEN Current ELSE snapshot
    /\ prj' = [prj EXCEPT !.at = "index"]
    /\ UNCHANGED <<projectFrame, processed, enriched, index, announced, dead, faults>>

\* CONDITIONAL_UPSERT_SCRIPT: only a higher version is assigned.
Fresh == Version(index) < Version(Current)

Upserted == IF Fresh THEN Current ELSE index

BulkUpsert ==
    /\ ProjectAt("index")
    /\ index' = Upserted
    /\ prj' = [prj EXCEPT !.at = "mark", !.fresh = Fresh]
    /\ UNCHANGED <<projectFrame, processed, enriched, snapshot, announced, dead, faults>>

\* Some item of the bulk fails: the document itself may be written or not.
\* Within the budget the event comes back, and else it is given up.
BulkFails ==
    /\ ProjectAt("index")
    /\ index' \in {index, Upserted}
    /\ \/ /\ prj.tries < MaxRetries
          /\ prj' = [at |-> "idle", fresh |-> FALSE, tries |-> prj.tries + 1]
          /\ UNCHANGED dead
       \/ /\ prj.tries >= MaxRetries
          /\ Record(<<Current.from, "project">>)
          /\ prj' = [prj EXCEPT !.at = "ack"]
    /\ UNCHANGED <<projectFrame, processed, enriched, snapshot, announced, faults>>

\* What classifyFailure calls rejected is not tried again: a mapping violation, but
\* also an error without a status, such as no connection or no reindex fence.
BulkRejected ==
    /\ ProjectAt("index")
    /\ index' \in {index, Upserted}
    /\ Record(<<Current.from, "project">>)
    /\ prj' = [prj EXCEPT !.at = "ack"]
    /\ UNCHANGED <<projectFrame, processed, enriched, snapshot, announced, faults>>

MarkProcessed ==
    /\ ProjectAt("mark")
    /\ processed' = processed \cup {Current.from}
    /\ prj' = [prj EXCEPT !.at = "resolve"]
    /\ UNCHANGED <<projectFrame, enriched, documents, dead, faults>>

ResolveByDelivery ==
    /\ ProjectAt("resolve")
    /\ dead' = [r \in Rows |->
                   IF r[1] = Current.from /\ dead[r].state # "none"
                   THEN [dead[r] EXCEPT !.state = "resolved"] ELSE dead[r]]
    /\ prj' = [prj EXCEPT !.at = "announce"]
    /\ UNCHANGED <<projectFrame, processed, enriched, documents, faults>>

\* A document the script left alone is not announced.
PublishProjected ==
    /\ ProjectAt("announce")
    /\ announced' = IF prj.fresh THEN announced \cup {Current.from} ELSE announced
    /\ prj' = [prj EXCEPT !.at = "ack"]
    /\ UNCHANGED <<projectFrame, processed, enriched, snapshot, index, dead, faults>>

ProjectAcks ==
    /\ ProjectAt("ack")
    /\ enriched' = Tail(enriched)
    /\ prj' = [at |-> "idle", fresh |-> FALSE, tries |-> 0]
    /\ UNCHANGED <<projectFrame, processed, documents, dead, faults>>

\* A call throws, the worker dies or its acknowledgement is lost.
ProjectThrows ==
    /\ prj.at # "idle"
    /\ Fault
    /\ prj' = [at |-> "idle", fresh |-> FALSE, tries |-> prj.tries + 1]
    /\ UNCHANGED <<projectFrame, processed, enriched, documents, dead>>

Project == ProjectSkips \/ RecordSnapshot \/ BulkUpsert \/ BulkFails \/ BulkRejected
           \/ MarkProcessed \/ ResolveByDelivery \/ PublishProjected \/ ProjectAcks

----------------------------------------------------------------------------
\* The repository leaves the index.
Archive ==
    /\ active /\ Fault
    /\ active' = FALSE
    /\ UNCHANGED <<raw, queued, processed, entering, topics, enr, prj, documents, dead,
                   relay, operator>>

Gateway == \E d \in Deliveries : Store(d) \/ Enqueue(d)
Relay == RelayPublish \/ \E d \in Deliveries : FindStuckOutboxEvents(d)
Operator == \E r \in Rows : MarkReprocessing(r) \/ Reinject(r)

Next ==
    \/ Change \/ Gateway \/ Relay \/ Operator
    \/ Archive
    \/ Enrich \/ EnrichThrows
    \/ Project \/ ProjectThrows

Spec == Init /\ [][Next]_vars

(***************************************************************************)
(* The gateway ends what it stored, the relay's interval passes and its    *)
(* round is run, and the bus hands out what waits in a topic               *)
(* (MCEventBus, PublishedIsAcked).  Nothing obliges a call to succeed,     *)
(* an operator to act or GitHub to deliver.                                *)
(***************************************************************************)
FairSpec ==
    /\ Spec
    /\ \A d \in Deliveries :
         WF_vars(Enqueue(d)) /\ SF_vars(FindStuckOutboxEvents(d))
    /\ WF_vars(RelayPublish)
    /\ WF_vars(Enrich) /\ WF_vars(Project)

----------------------------------------------------------------------------
(* Properties                                                              *)

Stored(d) == received[d] # 0

\* A row is marked processed only when the index has its delivery or a later one
\* (project.ts: the mark means that the document is indexed).
ProcessedIsIndexed == \A d \in processed : Version(index) >= received[d]

\* Nothing is only in the index: the snapshot is as new as the document
\* (snapshot.ts, ADR-004), also when the worker dies in between.
IndexHasSnapshot == Version(snapshot) >= Version(index)

\* An old state never covers a new one (project.ts, AC-1): once a delivery is
\* processed, a complete document shows the change it was sent for, however the
\* deliveries were reordered, repeated, relayed or reprocessed.  Excepted are
\* deliveries received in the same millisecond, which the version cannot tell apart.
IndexShowsProcessed ==
    \A d \in processed : index.complete =>
        \/ index.content >= d
        \/ \E e \in Deliveries \ {d} : received[e] = received[d]

\* A row is held only after MAX_REPROCESS_ATTEMPTS requests of operators
\* (dead-letter.ts, recordDeadLetter): no failure of another copy is counted twice.
HeldIsEarned ==
    \A r \in Rows : dead[r].state = "held" => requests >= MaxReprocess

\* A stored delivery of a pull request is indexed or in the dead letter queue in
\* the end, also when its publication was lost (outbox-relay.ts).
EventuallyHandled ==
    \A d \in Deliveries :
        Stored(d) ~> \/ ~active \/ d \in processed
                     \/ \E s \in Stages : dead[<<d, s>>].state # "none"

============================================================================
