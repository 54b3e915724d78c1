----------------------- MODULE IngestDeliveryProofs -----------------------
(***************************************************************************)
(* Proofs about IngestDelivery, for any number of changes, retries,        *)
(* reprocessings, copies, requests and faults.                             *)
(*                                                                         *)
(* The reason the index never goes back: a delivery's received_at is       *)
(* written once and the gateway's clock never goes back, so a document     *)
(* fetched for a delivery shows every delivery with an earlier version,    *)
(* also those stored after the fetch (they cannot be earlier).  The        *)
(* project worker then only has to keep versions from falling, snapshot    *)
(* before index before mark, and the event it works on at the head of the  *)
(* topic however often it dies.                                            *)
(***************************************************************************)
EXTENDS IngestDelivery, FiniteSets, FiniteSetTheorems, SequenceTheorems, TLAPS

StoredSet == {d \in Deliveries : Stored(d)}

\* The clock has not ticked more often than a delivery was stored, and no
\* delivery is ahead of it; only what happened was delivered.
ClockInv ==
    /\ clock <= Cardinality(StoredSet)
    /\ \A d \in Deliveries : received[d] <= clock
    /\ \A d \in StoredSet : d <= changes

\* Whatever is under way, waits or was given up is a delivery that was stored.
SourceInv ==
    /\ queued \subseteq StoredSet /\ entering \subseteq StoredSet
    /\ processed \subseteq StoredSet
    /\ relay # 0 => relay \in StoredSet
    /\ ingest \in Seq(StoredSet)
    /\ \A r \in ops : r[1] \in StoredSet
    /\ \A r \in Rows : dead[r].state # "none" => r[1] \in StoredSet

\* A complete document shows the delivery it was fetched for, and every
\* delivery with an earlier version.
Shows(doc) ==
    doc.complete =>
        /\ doc.from # 0
        /\ \A d \in StoredSet :
             d = doc.from \/ received[d] < received[doc.from] => d <= doc.content

Sound(doc) == (doc.from # 0 => doc.from \in StoredSet) /\ Shows(doc)

DocsInv ==
    /\ Sound(snapshot) /\ Sound(index)
    /\ \A i \in 1..Len(enriched) : Sound(enriched[i]) /\ enriched[i].from # 0

\* What the project worker has done for the event at the head of the topic.
ControlInv ==
    /\ prj.at # "idle" => enriched # <<>>
    /\ prj.at = "index" => Version(snapshot) >= Version(Current)
    /\ prj.at \in {"mark", "resolve", "announce"} => Version(index) >= Version(Current)

\* Each failed reprocessing of a row, and the one under way, was requested.
EarnedInv ==
    \A r \in Rows :
        /\ dead[r].count <= requests
        /\ dead[r].state = "reprocessing" => dead[r].count < requests
        /\ dead[r].state = "held" => requests >= MaxReprocess

\* The inductive invariant.
IInv == /\ TypeOK /\ ClockInv /\ SourceInv /\ DocsInv /\ ControlInv /\ EarnedInv
        /\ IndexHasSnapshot /\ ProcessedIsIndexed

----------------------------------------------------------------------------
(* The first state, and what follows from the invariant.                   *)

\* Nothing was delivered yet.
LEMMA InitOK == Init => IInv
<1>. SUFFICES ASSUME Init PROVE IInv
  OBVIOUS
<1>1. TypeOK
  BY IngestAssumption DEF Init, TypeOK, NoDoc, Doc, Deliveries, Rows, Stages
<1>2. StoredSet = {}
  BY DEF Init, StoredSet, Stored
<1>3. ClockInv
  <2>1. Cardinality(StoredSet) = 0
    BY <1>2, FS_EmptySet
  <2>. QED  BY <1>2, <2>1 DEF Init, ClockInv
<1>4. SourceInv
  BY <1>2 DEF Init, SourceInv
<1>5. DocsInv
  BY DEF Init, DocsInv, Sound, Shows, NoDoc
<1>6. ControlInv
  BY DEF Init, ControlInv
<1>7. EarnedInv
  BY IngestAssumption DEF Init, EarnedInv
<1>8. IndexHasSnapshot /\ ProcessedIsIndexed
  BY DEF Init, IndexHasSnapshot, ProcessedIsIndexed, Version, NoDoc
<1>. QED  BY <1>1, <1>3, <1>4, <1>5, <1>6, <1>7, <1>8 DEF IInv

\* What is processed is covered by the document's version, and a complete
\* document of a later version was fetched after it was stored.
LEMMA IndexShows == IInv => IndexShowsProcessed
<1>. SUFFICES ASSUME IInv, NEW d \in processed, index.complete,
                     \A e \in Deliveries \ {d} : received[e] # received[d]
              PROVE  index.content >= d
  BY DEF IndexShowsProcessed
<1>1. d \in StoredSet /\ d \in Deliveries /\ received[d] \in Nat
  BY IngestAssumption DEF IInv, SourceInv, StoredSet, TypeOK
<1>2. index.from # 0 /\ index.from \in StoredSet /\ index.from \in Deliveries
  BY DEF IInv, DocsInv, Sound, Shows, StoredSet
<1>3. received[index.from] >= received[d] /\ received[index.from] \in Nat
  BY <1>2, IngestAssumption DEF IInv, ProcessedIsIndexed, Version, TypeOK
<1>4. index.from = d \/ received[d] < received[index.from]
  BY <1>1, <1>2, <1>3
<1>5. d <= index.content
  BY <1>1, <1>4 DEF IInv, DocsInv, Sound, Shows
<1>6. d \in Nat /\ index.content \in Nat
  BY <1>1, IngestAssumption DEF IInv, TypeOK, Doc, Deliveries
<1>. QED  BY <1>5, <1>6

----------------------------------------------------------------------------
(* Each part of the invariant depends on some variables only.              *)

\* Without a new delivery and without a change.
LEMMA ClockFrame == ClockInv /\ UNCHANGED raw => ClockInv'
BY DEF ClockInv, StoredSet, Stored, raw

\* Without a new delivery the documents keep their meaning.
LEMMA DocsFrame == DocsInv /\ UNCHANGED <<received, snapshot, index, enriched>> => DocsInv'
BY DEF DocsInv, Sound, Shows, StoredSet, Stored

\* Without a new delivery, documents that were sound before are sound now.
LEMMA DocsFrom ==
    ASSUME UNCHANGED received, Sound(snapshot'), Sound(index'),
           \A i \in 1..Len(enriched') : Sound(enriched'[i]) /\ enriched'[i].from # 0
    PROVE  DocsInv'
BY DEF DocsInv, Sound, Shows, StoredSet, Stored

\* The project worker and what it reads stand still.
LEMMA ControlFrame ==
    ControlInv /\ UNCHANGED <<received, snapshot, index, enriched, prj>> => ControlInv'
BY DEF ControlInv, Version, Current

\* No row and no request is touched.
LEMMA EarnedFrame == EarnedInv /\ UNCHANGED <<dead, requests>> => EarnedInv'
BY DEF EarnedInv

\* Neither the documents nor the marks change.
LEMMA IndexFrame ==
    /\ IndexHasSnapshot /\ ProcessedIsIndexed
    /\ UNCHANGED <<received, snapshot, index, processed>>
    => (IndexHasSnapshot /\ ProcessedIsIndexed)'
BY DEF IndexHasSnapshot, ProcessedIsIndexed, Version

\* Nothing that is under way, waits or was given up changes.
LEMMA SourceFrame ==
    /\ SourceInv
    /\ UNCHANGED <<received, queued, entering, processed, relay, ingest, ops, dead>>
    => SourceInv'
BY DEF SourceInv, StoredSet, Stored

----------------------------------------------------------------------------
(* GitHub and the gateway.                                                 *)

\* A change shows in no document yet, and is no delivery yet.
LEMMA ChangeKeeps == IInv /\ Change => IInv'
<1>. SUFFICES ASSUME IInv, Change PROVE IInv'
  OBVIOUS
<1>1. TypeOK'
  BY IngestAssumption DEF IInv, TypeOK, Change, topics, documents, operator
<1>2. ClockInv'
  <2>1. \A d \in StoredSet : d \in Nat
    BY DEF StoredSet, Deliveries
  <2>2. UNCHANGED StoredSet
    BY DEF StoredSet, Stored, Change
  <2>. QED  BY <2>1, <2>2 DEF IInv, ClockInv, TypeOK, Change
<1>3. SourceInv'
  BY SourceFrame DEF IInv, Change, topics, operator
<1>4. DocsInv' /\ ControlInv' /\ EarnedInv'
  BY DocsFrame, ControlFrame, EarnedFrame DEF IInv, Change, topics, documents, operator
<1>5. (IndexHasSnapshot /\ ProcessedIsIndexed)'
  BY IndexFrame DEF IInv, Change, documents
<1>. QED  BY <1>1, <1>2, <1>3, <1>4, <1>5 DEF IInv

\* The clock has room for a delivery that is not stored yet: it never ticks
\* more than MaxChanges times.
LEMMA ClockHasRoom ==
    ASSUME IInv, NEW d \in Deliveries, ~ Stored(d)
    PROVE  /\ IsFiniteSet(StoredSet) /\ Cardinality(StoredSet) \in Nat
           /\ Cardinality(StoredSet \cup {d}) = Cardinality(StoredSet) + 1
           /\ clock + 1 <= MaxChanges
<1>1. IsFiniteSet(Deliveries) /\ Cardinality(Deliveries) = MaxChanges
  BY FS_Interval, IngestAssumption DEF Deliveries
<1>2. IsFiniteSet(StoredSet) /\ Cardinality(StoredSet) \in Nat
  BY <1>1, FS_Subset, FS_CardinalityType DEF StoredSet
<1>3. d \notin StoredSet /\ StoredSet \cup {d} \in SUBSET Deliveries
  BY DEF StoredSet
<1>4. Cardinality(StoredSet \cup {d}) = Cardinality(StoredSet) + 1
  BY <1>2, <1>3, FS_AddElement
<1>5. Cardinality(StoredSet \cup {d}) <= MaxChanges
  BY <1>1, <1>3, FS_Subset
<1>6. clock \in Nat /\ MaxChanges \in Nat /\ clock <= Cardinality(StoredSet)
  BY IngestAssumption DEF IInv, ClockInv, TypeOK
<1>. QED  BY <1>2, <1>4, <1>5, <1>6

\* What Store does to the versions: a stored delivery keeps its own, the new
\* one is not earlier than any.
LEMMA StoreVersions ==
    ASSUME IInv, NEW d \in Deliveries, Store(d)
    PROVE  /\ StoredSet' = StoredSet \cup {d} /\ d \notin StoredSet
           /\ \A e \in StoredSet : received'[e] = received[e]
           /\ received' \in [Deliveries -> 0..MaxChanges]
           /\ \A e \in Deliveries : received'[e] <= received'[d]
           /\ clock' = received'[d] /\ clock' \in {clock, clock + 1} /\ clock' \in 1..MaxChanges
           /\ d <= changes
<1>1. PICK now \in {clock, clock + 1} \ {0} :
        received' = [received EXCEPT ![d] = now] /\ clock' = now
  BY DEF Store
<1>2. d <= changes /\ received[d] = 0
  BY DEF Store
<1>3. clock + 1 <= MaxChanges
  BY <1>2, ClockHasRoom DEF Stored
<1>4. clock \in Nat /\ MaxChanges \in Nat /\ received \in [Deliveries -> 0..MaxChanges]
  BY IngestAssumption DEF IInv, TypeOK
<1>5. now \in 1..MaxChanges /\ now >= clock
  BY <1>3, <1>4
<1>6. /\ received' \in [Deliveries -> 0..MaxChanges] /\ received'[d] = now
      /\ \A e \in Deliveries \ {d} : received'[e] = received[e]
  BY <1>1, <1>4, <1>5
<1>7. StoredSet' = StoredSet \cup {d} /\ d \notin StoredSet
  BY <1>2, <1>5, <1>6 DEF StoredSet, Stored
<1>8. \A e \in StoredSet : received'[e] = received[e]
  BY <1>6, <1>7 DEF StoredSet
<1>9. \A e \in Deliveries : received'[e] <= received'[d]
  <2>. TAKE e \in Deliveries
  <2>1. received[e] <= clock /\ received[e] \in Nat
    BY <1>4 DEF IInv, ClockInv
  <2>. QED  BY <1>4, <1>5, <1>6, <2>1
<1>. QED  BY <1>1, <1>2, <1>5, <1>6, <1>7, <1>8, <1>9

\* A document fetched before the delivery was stored shows all it must.
LEMMA StoreKeepsSound ==
    ASSUME IInv, NEW d \in Deliveries, Store(d), NEW doc \in Doc, Sound(doc)
    PROVE  /\ doc.from # 0 => doc.from \in StoredSet' /\ received'[doc.from] = received[doc.from]
           /\ doc.complete =>
                /\ doc.from # 0
                /\ \A e \in StoredSet' :
                     e = doc.from \/ received'[e] < received'[doc.from] => e <= doc.content
<1>1. doc.from # 0 => doc.from \in StoredSet /\ doc.from \in Deliveries
  BY DEF Sound, StoredSet
<1>2. doc.from # 0 => doc.from \in StoredSet' /\ received'[doc.from] = received[doc.from]
  BY <1>1, StoreVersions
<1>3. ASSUME doc.complete, NEW e \in StoredSet',
             e = doc.from \/ received'[e] < received'[doc.from]
      PROVE  e <= doc.content
  <2>1. doc.from # 0
    BY <1>3 DEF Sound, Shows
  <2>2. received'[doc.from] \in Nat /\ received'[d] \in Nat /\ received'[doc.from] <= received'[d]
    BY <1>1, <2>1, StoreVersions, IngestAssumption
  <2>3. e # d
    BY <1>1, <1>3, <2>1, <2>2, StoreVersions
  <2>4. e \in StoredSet /\ received'[e] = received[e]
    BY <1>3, <2>3, StoreVersions
  <2>. QED  BY <1>2, <1>3, <2>1, <2>4 DEF Sound, Shows
<1>. QED  BY <1>2, <1>3 DEF Sound, Shows

\* A delivery is stored.
LEMMA StoreKeeps == \A d \in Deliveries : IInv /\ Store(d) => IInv'
<1>. SUFFICES ASSUME IInv, NEW d \in Deliveries, Store(d) PROVE IInv'
  OBVIOUS
<1>0. /\ StoredSet' = StoredSet \cup {d} /\ d \notin StoredSet
      /\ \A e \in StoredSet : received'[e] = received[e]
      /\ received' \in [Deliveries -> 0..MaxChanges]
      /\ \A e \in Deliveries : received'[e] <= received'[d]
      /\ clock' = received'[d] /\ clock' \in {clock, clock + 1} /\ clock' \in 1..MaxChanges
      /\ d <= changes
  BY StoreVersions
<1>1. TypeOK'
  BY <1>0, IngestAssumption DEF IInv, TypeOK, Store, topics, documents, operator
<1>2. ClockInv'
  <2>1. clock' <= Cardinality(StoredSet')
    <3>1. Cardinality(StoredSet') = Cardinality(StoredSet) + 1 /\ Cardinality(StoredSet) \in Nat
      BY <1>0, ClockHasRoom DEF StoredSet
    <3>2. clock <= Cardinality(StoredSet) /\ clock \in Nat
      BY IngestAssumption DEF IInv, ClockInv, TypeOK
    <3>. QED  BY <1>0, <3>1, <3>2
  <2>2. changes' = changes
    BY DEF Store
  <2>. QED  BY <1>0, <2>1, <2>2 DEF IInv, ClockInv
<1>3. SourceInv'
  <2>1. \A s \in Seq(StoredSet) : s \in Seq(StoredSet')
    BY <1>0
  <2>2. ingest' \in Seq(StoredSet')
    BY <2>1 DEF IInv, SourceInv, Store, topics
  <2>. QED  BY <1>0, <2>2 DEF IInv, SourceInv, Store, operator
<1>4. DocsInv'
  <2>1. snapshot \in Doc /\ index \in Doc /\ \A i \in 1..Len(enriched) : enriched[i] \in Doc
    BY DEF IInv, TypeOK
  <2>2. UNCHANGED <<snapshot, index, enriched>>
    BY DEF Store, topics, documents
  <2>3. Sound(snapshot) /\ Sound(index)
        /\ \A i \in 1..Len(enriched) : Sound(enriched[i]) /\ enriched[i].from # 0
    BY DEF IInv, DocsInv
  <2>4. Sound(snapshot)'
    BY <2>1, <2>2, <2>3, StoreKeepsSound DEF Sound, Shows
  <2>5. Sound(index)'
    BY <2>1, <2>2, <2>3, StoreKeepsSound DEF Sound, Shows
  <2>6. ASSUME NEW i \in 1..Len(enriched') PROVE Sound(enriched[i])' /\ enriched'[i].from # 0
    BY <2>1, <2>2, <2>3, StoreKeepsSound DEF Sound, Shows
  <2>. QED  BY <2>4, <2>5, <2>6 DEF DocsInv
<1>5. UNCHANGED <<snapshot, index, enriched, prj, processed>>
  BY DEF Store, topics, documents
<1>6. Version(snapshot)' = Version(snapshot) /\ Version(index)' = Version(index)
  BY <1>0, <1>5 DEF IInv, DocsInv, Sound, Version
<1>7. ControlInv'
  <2>1. prj.at # "idle" => Version(Current)' = Version(Current)
    <3>. SUFFICES ASSUME prj.at # "idle" PROVE Version(Current)' = Version(Current)
      OBVIOUS
    <3>1. enriched \in Seq(Doc) /\ enriched # <<>>
      BY DEF IInv, TypeOK, ControlInv
    <3>2. Head(enriched).from \in StoredSet
      BY <3>1 DEF IInv, DocsInv, Sound
    <3>. QED  BY <1>0, <1>5, <3>2 DEF Version, Current
  <2>. QED  BY <1>5, <1>6, <2>1 DEF IInv, ControlInv
<1>8. EarnedInv'
  BY EarnedFrame DEF IInv, Store, operator
<1>9. (IndexHasSnapshot /\ ProcessedIsIndexed)'
  BY <1>0, <1>5, <1>6 DEF IInv, IndexHasSnapshot, ProcessedIsIndexed, SourceInv
<1>. QED  BY <1>1, <1>2, <1>3, <1>4, <1>7, <1>8, <1>9 DEF IInv

\* A publication to prs:ingest of a stored delivery.
LEMMA ToIngestTypes ==
    ASSUME IInv, NEW d \in StoredSet, ToIngest(d)
    PROVE  /\ ingest' \in Seq(StoredSet) /\ ingest' \in Seq(Deliveries)
           /\ copies' \in 0..MaxCopies /\ UNCHANGED enriched
<1>1. ingest \in Seq(StoredSet) /\ ingest \in Seq(Deliveries) /\ d \in Deliveries
  BY DEF IInv, SourceInv, TypeOK, StoredSet
<1>. QED  BY <1>1, IngestAssumption DEF ToIngest, IInv, TypeOK

\* The gateway publishes what it stored, or fails to.
LEMMA EnqueueKeeps == \A d \in Deliveries : IInv /\ Enqueue(d) => IInv'
<1>. SUFFICES ASSUME IInv, NEW d \in Deliveries, Enqueue(d) PROVE IInv'
  OBVIOUS
<1>0. UNCHANGED <<raw, active, queued, processed, enr, prj, documents, dead, relay, operator>>
  BY DEF Enqueue
<1>1. d \in entering /\ d \in StoredSet /\ entering' = entering \ {d}
  BY DEF Enqueue, IInv, SourceInv
<1>2. /\ ingest' \in Seq(StoredSet) /\ ingest' \in Seq(Deliveries)
      /\ copies' \in 0..MaxCopies /\ UNCHANGED enriched /\ faults' \in 0..MaxFaults
  <2>1. CASE ToIngest(d) /\ UNCHANGED faults
    BY <1>1, <2>1, ToIngestTypes DEF IInv, TypeOK
  <2>2. CASE Fault /\ UNCHANGED topics
    BY <2>2, IngestAssumption DEF IInv, TypeOK, SourceInv, Fault, topics
  <2>. QED  BY <2>1, <2>2 DEF Enqueue
<1>3. TypeOK'
  BY <1>0, <1>1, <1>2 DEF IInv, TypeOK, raw, documents, operator
<1>4. StoredSet' = StoredSet
  BY <1>0 DEF StoredSet, Stored, raw
<1>5. SourceInv'
  BY <1>0, <1>1, <1>2, <1>4 DEF IInv, SourceInv, operator
<1>6. ClockInv' /\ DocsInv' /\ ControlInv' /\ EarnedInv'
  BY <1>0, <1>2, ClockFrame, DocsFrame, ControlFrame, EarnedFrame
  DEF IInv, raw, documents, operator
<1>7. (IndexHasSnapshot /\ ProcessedIsIndexed)'
  BY <1>0, IndexFrame DEF IInv, raw, documents
<1>. QED  BY <1>3, <1>5, <1>6, <1>7 DEF IInv

\* The relay reads a row.
LEMMA FindKeeps == \A d \in Deliveries : IInv /\ FindStuckOutboxEvents(d) => IInv'
<1>. SUFFICES ASSUME IInv, NEW d \in Deliveries, FindStuckOutboxEvents(d) PROVE IInv'
  OBVIOUS
<1>0. UNCHANGED <<raw, active, queued, processed, entering, topics, enr, prj, documents, dead,
                  operator, faults>>
  BY DEF FindStuckOutboxEvents
<1>1. d \in StoredSet /\ relay' = d /\ d \in 0..MaxChanges
  BY IngestAssumption DEF FindStuckOutboxEvents, IInv, SourceInv, Deliveries
<1>2. TypeOK'
  BY <1>0, <1>1 DEF IInv, TypeOK, raw, topics, documents, operator
<1>3. StoredSet' = StoredSet
  BY <1>0 DEF StoredSet, Stored, raw
<1>4. SourceInv'
  BY <1>0, <1>1, <1>3 DEF IInv, SourceInv, topics, operator
<1>5. ClockInv' /\ DocsInv' /\ ControlInv' /\ EarnedInv'
  BY <1>0, ClockFrame, DocsFrame, ControlFrame, EarnedFrame
  DEF IInv, raw, topics, documents, operator
<1>6. (IndexHasSnapshot /\ ProcessedIsIndexed)'
  BY <1>0, IndexFrame DEF IInv, raw, documents
<1>. QED  BY <1>2, <1>4, <1>5, <1>6 DEF IInv

\* The relay publishes the row it read, or fails to.
LEMMA RelayKeeps == IInv /\ RelayPublish => IInv'
<1>. SUFFICES ASSUME IInv, RelayPublish PROVE IInv'
  OBVIOUS
<1>0. UNCHANGED <<raw, active, queued, processed, entering, enr, prj, documents, dead, operator>>
  BY DEF RelayPublish
<1>1. relay \in StoredSet /\ relay' = 0
  BY DEF RelayPublish, IInv, SourceInv
<1>2. /\ ingest' \in Seq(StoredSet) /\ ingest' \in Seq(Deliveries)
      /\ copies' \in 0..MaxCopies /\ UNCHANGED enriched /\ faults' \in 0..MaxFaults
  <2>1. CASE ToIngest(relay) /\ UNCHANGED faults
    BY <1>1, <2>1, ToIngestTypes DEF IInv, TypeOK
  <2>2. CASE Fault /\ UNCHANGED topics
    BY <2>2, IngestAssumption DEF IInv, TypeOK, SourceInv, Fault, topics
  <2>. QED  BY <2>1, <2>2 DEF RelayPublish
<1>3. TypeOK'
  BY <1>0, <1>1, <1>2, IngestAssumption DEF IInv, TypeOK, raw, documents, operator
<1>4. StoredSet' = StoredSet
  BY <1>0 DEF StoredSet, Stored, raw
<1>5. SourceInv'
  BY <1>0, <1>1, <1>2, <1>4 DEF IInv, SourceInv, operator
<1>6. ClockInv' /\ DocsInv' /\ ControlInv' /\ EarnedInv'
  BY <1>0, <1>2, ClockFrame, DocsFrame, ControlFrame, EarnedFrame
  DEF IInv, raw, documents, operator
<1>7. (IndexHasSnapshot /\ ProcessedIsIndexed)'
  BY <1>0, IndexFrame DEF IInv, raw, documents
<1>. QED  BY <1>3, <1>5, <1>6, <1>7 DEF IInv

----------------------------------------------------------------------------
(* dead_letter.                                                            *)

RowType == [state : {"none", "pending", "reprocessing", "held", "resolved"}, count : Nat]

\* What recordDeadLetter leaves of a row: a failure is counted only when it is
\* that of a reprocessing, which was requested.
LEMMA RecordedOK ==
    ASSUME NEW row \in RowType, NEW n \in Nat, row.count <= n,
           row.state = "reprocessing" => row.count < n,
           row.state = "held" => n >= MaxReprocess
    PROVE  /\ Recorded(row) \in RowType
           /\ Recorded(row).count <= n
           /\ Recorded(row).state \in {"held", "pending"}
           /\ Recorded(row).state = "held" => n >= MaxReprocess
BY IngestAssumption DEF RowType, Recorded

\* A failure is recorded for a stored delivery.
LEMMA RecordKeeps ==
    ASSUME IInv, NEW r \in Rows, r[1] \in StoredSet, Record(r), UNCHANGED <<received, requests>>
    PROVE  /\ dead' \in [Rows -> RowType] /\ EarnedInv'
           /\ \A s \in Rows : dead'[s].state # "none" => s[1] \in StoredSet
<1>1. dead \in [Rows -> RowType] /\ requests \in Nat
  BY IngestAssumption DEF IInv, TypeOK, RowType
<1>2. dead' = [dead EXCEPT ![r] = Recorded(dead[r])]
  BY DEF Record
<1>3. /\ Recorded(dead[r]) \in RowType
      /\ Recorded(dead[r]).count <= requests
      /\ Recorded(dead[r]).state \in {"held", "pending"}
      /\ Recorded(dead[r]).state = "held" => requests >= MaxReprocess
  <2>1. dead[r] \in RowType
    BY <1>1
  <2>2. /\ dead[r].count <= requests
        /\ dead[r].state = "reprocessing" => dead[r].count < requests
        /\ dead[r].state = "held" => requests >= MaxReprocess
    BY DEF IInv, EarnedInv
  <2>. QED  BY <1>1, <2>1, <2>2, RecordedOK
<1>4. EarnedInv'
  BY <1>1, <1>2, <1>3 DEF IInv, EarnedInv
<1>. QED  BY <1>1, <1>2, <1>3, <1>4 DEF IInv, SourceInv

\* An operator's request: one more, and one reprocessing under way.
LEMMA MarkReprocessingKeeps == \A r \in Rows : IInv /\ MarkReprocessing(r) => IInv'
<1>. SUFFICES ASSUME IInv, NEW r \in Rows, MarkReprocessing(r) PROVE IInv'
  OBVIOUS
<1>0. UNCHANGED <<raw, active, queued, processed, entering, topics, enr, prj, documents, relay,
                  faults>>
  BY DEF MarkReprocessing
<1>1. /\ dead[r].state # "none" /\ requests < MaxRequests /\ requests' = requests + 1
      /\ dead' = [dead EXCEPT ![r].state = "reprocessing"] /\ ops' = ops \cup {r}
  BY DEF MarkReprocessing
<1>2. dead \in [Rows -> RowType] /\ requests \in Nat /\ MaxRequests \in Nat
  BY IngestAssumption DEF IInv, TypeOK, RowType
<1>3. dead' \in [Rows -> RowType] /\ requests' \in 0..MaxRequests
  BY <1>1, <1>2 DEF RowType
<1>4. TypeOK'
  BY <1>0, <1>1, <1>3 DEF IInv, TypeOK, RowType, raw, topics, documents
<1>5. StoredSet' = StoredSet
  BY <1>0 DEF StoredSet, Stored, raw
<1>6. SourceInv'
  BY <1>0, <1>1, <1>2, <1>5 DEF IInv, SourceInv, topics
<1>7. EarnedInv'
  <2>. SUFFICES ASSUME NEW s \in Rows
                PROVE  /\ dead'[s].count <= requests'
                       /\ dead'[s].state = "reprocessing" => dead'[s].count < requests'
                       /\ dead'[s].state = "held" => requests' >= MaxReprocess
    BY DEF EarnedInv
  <2>1. dead[s].count \in Nat /\ dead[s].count <= requests
        /\ (dead[s].state = "held" => requests >= MaxReprocess)
    BY <1>2 DEF IInv, EarnedInv, RowType
  <2>2. dead'[s].count = dead[s].count
    BY <1>1, <1>2 DEF RowType
  <2>3. dead'[s].state = "held" => dead[s].state = "held"
    BY <1>1, <1>2 DEF RowType
  <2>. QED  BY <1>1, <1>2, <2>1, <2>2, <2>3, IngestAssumption
<1>8. ClockInv' /\ DocsInv' /\ ControlInv'
  BY <1>0, ClockFrame, DocsFrame, ControlFrame DEF IInv, raw, topics, documents
<1>9. (IndexHasSnapshot /\ ProcessedIsIndexed)'
  BY <1>0, IndexFrame DEF IInv, raw, documents
<1>. QED  BY <1>4, <1>6, <1>7, <1>8, <1>9 DEF IInv

\* The request's publication, or the mark taken back.
LEMMA ReinjectKeeps == \A r \in Rows : IInv /\ Reinject(r) => IInv'
<1>. SUFFICES ASSUME IInv, NEW r \in Rows, Reinject(r) PROVE IInv'
  OBVIOUS
<1>0. UNCHANGED <<raw, active, queued, processed, entering, enr, prj, documents, relay, requests>>
  BY DEF Reinject
<1>1. r[1] \in StoredSet /\ ops' = ops \ {r}
  BY DEF Reinject, IInv, SourceInv
<1>2. dead \in [Rows -> RowType]
  BY DEF IInv, TypeOK, RowType
<1>3. /\ ingest' \in Seq(StoredSet) /\ ingest' \in Seq(Deliveries)
      /\ copies' \in 0..MaxCopies /\ UNCHANGED enriched /\ faults' \in 0..MaxFaults
      /\ dead' \in [Rows -> RowType]
      /\ \A s \in Rows : /\ dead'[s].count = dead[s].count
                         /\ dead'[s].state # "none" => dead[s].state # "none"
                         /\ dead'[s].state \in {"reprocessing", "held"}
                            => dead'[s].state = dead[s].state
  <2>1. CASE ToIngest(r[1]) /\ UNCHANGED <<dead, faults>>
    BY <1>1, <1>2, <2>1, ToIngestTypes DEF IInv, TypeOK
  <2>2. CASE /\ Fault /\ UNCHANGED topics
             /\ \/ dead' = [dead EXCEPT ![r].state = IF dead[r].state = "reprocessing"
                                                     THEN "pending" ELSE dead[r].state]
                \/ UNCHANGED dead
    <3>0. Fault /\ UNCHANGED topics
      BY <2>2, Zenon
    <3>1. /\ ingest' \in Seq(StoredSet) /\ ingest' \in Seq(Deliveries)
          /\ copies' \in 0..MaxCopies /\ UNCHANGED enriched /\ faults' \in 0..MaxFaults
      <4>. HIDE <2>2
      <4>. QED  BY <3>0, IngestAssumption DEF IInv, TypeOK, SourceInv, Fault, topics
    <3>2. /\ dead' \in [Rows -> RowType]
          /\ \A s \in Rows : /\ dead'[s].count = dead[s].count
                             /\ dead'[s].state # "none" => dead[s].state # "none"
                             /\ dead'[s].state \in {"reprocessing", "held"}
                                => dead'[s].state = dead[s].state
      BY <1>2, <2>2 DEF RowType
    <3>. QED  BY <3>1, <3>2
  <2>. QED  BY <2>1, <2>2 DEF Reinject
<1>4. TypeOK'
  BY <1>0, <1>1, <1>3 DEF IInv, TypeOK, RowType, raw, documents
<1>5. StoredSet' = StoredSet
  BY <1>0 DEF StoredSet, Stored, raw
<1>6. SourceInv'
  BY <1>0, <1>1, <1>3, <1>5 DEF IInv, SourceInv
<1>7. EarnedInv'
  BY <1>0, <1>3 DEF IInv, EarnedInv
<1>8. ClockInv' /\ DocsInv' /\ ControlInv'
  BY <1>0, <1>3, ClockFrame, DocsFrame, ControlFrame DEF IInv, raw, documents
<1>9. (IndexHasSnapshot /\ ProcessedIsIndexed)'
  BY <1>0, IndexFrame DEF IInv, raw, documents
<1>. QED  BY <1>4, <1>6, <1>7, <1>8, <1>9 DEF IInv

----------------------------------------------------------------------------
(* The enrich worker.                                                      *)

\* A step of the enrich worker that writes no document and no row.
LEMMA EnrichQuiet ==
    ASSUME IInv, UNCHANGED <<enrichFrame, processed, copies, enriched, dead>>,
           enr' \in [at : {"idle", "record", "ack"}, tries : Nat], faults' \in 0..MaxFaults,
           ingest' \in Seq(StoredSet)
    PROVE  IInv'
<1>1. ingest' \in Seq(StoredSet) /\ ingest' \in Seq(Deliveries)
  <2>1. \A d \in StoredSet : d \in Deliveries
    BY DEF StoredSet
  <2>. QED  BY <2>1
<1>2. TypeOK'
  BY <1>1 DEF IInv, TypeOK, enrichFrame, raw, documents, operator
<1>3. StoredSet' = StoredSet
  BY DEF StoredSet, Stored, enrichFrame, raw
<1>4. SourceInv'
  BY <1>1, <1>3 DEF IInv, SourceInv, enrichFrame, operator
<1>5. ClockInv' /\ DocsInv' /\ ControlInv' /\ EarnedInv'
  BY ClockFrame, DocsFrame, ControlFrame, EarnedFrame
  DEF IInv, enrichFrame, raw, documents, operator
<1>6. (IndexHasSnapshot /\ ProcessedIsIndexed)'
  BY IndexFrame DEF IInv, enrichFrame, raw, documents
<1>. QED  BY <1>2, <1>4, <1>5, <1>6 DEF IInv

\* A step of the enrich worker that records a failure of the event at hand.
LEMMA EnrichFailure ==
    ASSUME IInv, UNCHANGED <<enrichFrame, processed, topics, faults>>, ingest # <<>>,
           Record(<<Head(ingest), "enrich">>), enr' = [enr EXCEPT !.at = "ack"]
    PROVE  IInv'
<1>1. Head(ingest) \in StoredSet /\ <<Head(ingest), "enrich">> \in Rows
  <2>1. Head(ingest) \in StoredSet
    BY DEF IInv, SourceInv
  <2>. QED  BY <2>1 DEF Rows, Stages, StoredSet
<1>2. StoredSet' = StoredSet
  BY DEF StoredSet, Stored, enrichFrame, raw
<1>3. /\ dead' \in [Rows -> RowType] /\ EarnedInv'
      /\ \A s \in Rows : dead'[s].state # "none" => s[1] \in StoredSet
  <2>1. <<Head(ingest), "enrich">>[1] \in StoredSet
    BY <1>1
  <2>. QED  BY <1>1, <2>1, RecordKeeps DEF enrichFrame, raw, operator
<1>4. enr' \in [at : {"idle", "record", "ack"}, tries : Nat]
  BY DEF IInv, TypeOK
<1>5. TypeOK'
  BY <1>3, <1>4 DEF IInv, TypeOK, RowType, enrichFrame, raw, topics, documents, operator
<1>6. SourceInv'
  BY <1>2, <1>3 DEF IInv, SourceInv, enrichFrame, topics, operator
<1>7. ClockInv' /\ DocsInv' /\ ControlInv'
  BY ClockFrame, DocsFrame, ControlFrame DEF IInv, enrichFrame, raw, topics, documents
<1>8. (IndexHasSnapshot /\ ProcessedIsIndexed)'
  BY IndexFrame DEF IInv, enrichFrame, raw, documents
<1>. QED  BY <1>3, <1>5, <1>6, <1>7, <1>8 DEF IInv

\* What is fetched for a delivery is sound: when it is complete, it shows the
\* pull request as it is now, which is not before any stored delivery.
LEMMA FetchedIsSound ==
    ASSUME IInv, NEW d \in StoredSet, NEW doc \in Fetched(d)
    PROVE  doc \in Doc /\ doc.from = d /\ d # 0 /\ Sound(doc)
<1>1. d \in Deliveries /\ d # 0 /\ d \in 0..MaxChanges /\ changes \in 0..MaxChanges
  BY IngestAssumption DEF StoredSet, Deliveries, IInv, TypeOK
<1>2. doc \in [from : {d}, content : {changes, d}, complete : BOOLEAN]
      /\ (doc.complete => doc.content = changes)
  BY DEF Fetched
<1>3. doc \in Doc /\ doc.from = d
  BY <1>1, <1>2 DEF Doc
<1>4. Shows(doc)
  BY <1>1, <1>2, <1>3 DEF Shows, IInv, ClockInv
<1>. QED  BY <1>1, <1>3, <1>4 DEF Sound

\* EVT-ING-002 goes behind whatever the project worker has at hand.
LEMMA EnrichPublishesKeeps == IInv /\ EnrichPublishes => IInv'
<1>. SUFFICES ASSUME IInv, EnrichPublishes PROVE IInv'
  OBVIOUS
<1>0. UNCHANGED <<enrichFrame, processed, ingest, copies, dead, faults>>
  BY DEF EnrichPublishes
<1>1. Head(ingest) \in StoredSet
  BY DEF EnrichPublishes, EnrichAt, IInv, SourceInv
<1>2. PICK doc \in Fetched(Head(ingest)) :
        /\ enriched' = Append(enriched, doc)
        /\ enr' = [enr EXCEPT !.at = IF doc.complete THEN "ack" ELSE "record"]
  BY DEF EnrichPublishes
<1>3. doc \in Doc /\ doc.from # 0 /\ Sound(doc)
  BY <1>1, FetchedIsSound
<1>4. enriched \in Seq(Doc) /\ enriched' \in Seq(Doc)
  BY <1>2, <1>3 DEF IInv, TypeOK
<1>5. TypeOK'
  <2>1. enr' \in [at : {"idle", "record", "ack"}, tries : Nat]
    BY <1>2 DEF IInv, TypeOK
  <2>. QED  BY <1>0, <1>4, <2>1 DEF IInv, TypeOK, enrichFrame, raw, documents, operator
<1>6. SourceInv'
  BY <1>0, SourceFrame DEF IInv, enrichFrame, raw, operator
<1>7. UNCHANGED <<received, snapshot, index, prj>>
  BY <1>0 DEF enrichFrame, raw, documents
<1>8. DocsInv'
  <2>2. \A i \in 1..Len(enriched') : Sound(enriched'[i]) /\ enriched'[i].from # 0
    BY <1>2, <1>3, <1>4 DEF IInv, DocsInv
  <2>3. Sound(snapshot') /\ Sound(index')
    BY <1>7 DEF IInv, DocsInv
  <2>. QED  BY <1>7, <2>2, <2>3, DocsFrom
<1>9. ControlInv'
  <2>1. enriched # <<>> => Head(enriched') = Head(enriched) /\ enriched' # <<>>
    BY <1>2, <1>3, <1>4
  <2>. QED  BY <1>7, <2>1 DEF IInv, ControlInv, Version, Current
<1>10. ClockInv' /\ EarnedInv'
  BY <1>0, ClockFrame, EarnedFrame DEF IInv, enrichFrame, operator
<1>11. (IndexHasSnapshot /\ ProcessedIsIndexed)'
  BY <1>0, <1>7, IndexFrame DEF IInv
<1>. QED  BY <1>5, <1>6, <1>8, <1>9, <1>10, <1>11 DEF IInv

\* The enrich worker, also when it dies.
LEMMA EnrichKeeps == IInv /\ (Enrich \/ EnrichThrows) => IInv'
<1>. SUFFICES ASSUME IInv, Enrich \/ EnrichThrows PROVE IInv'
  OBVIOUS
<1>0. /\ enr \in [at : {"idle", "record", "ack"}, tries : Nat] /\ faults \in 0..MaxFaults
      /\ ingest \in Seq(StoredSet)
  BY DEF IInv, TypeOK, SourceInv
<1>1. CASE EnrichSkips
  <2>1. /\ UNCHANGED <<enrichFrame, processed, copies, enriched, dead>>
        /\ ingest' = ingest /\ faults' = faults
    BY <1>1 DEF EnrichSkips, topics
  <2>2. enr' \in [at : {"idle", "record", "ack"}, tries : Nat]
    BY <1>0, <1>1 DEF EnrichSkips
  <2>. QED  BY <1>0, <2>1, <2>2, EnrichQuiet
<1>2. CASE EnrichRejects
  BY <1>2, EnrichFailure DEF EnrichRejects, EnrichAt
<1>3. CASE EnrichRetries
  <2>1. /\ UNCHANGED <<enrichFrame, processed, copies, enriched, dead>>
        /\ ingest' = ingest /\ faults' = faults
    BY <1>3 DEF EnrichRetries, topics
  <2>2. enr' \in [at : {"idle", "record", "ack"}, tries : Nat]
    BY <1>0, <1>3 DEF EnrichRetries
  <2>. QED  BY <1>0, <2>1, <2>2, EnrichQuiet
<1>4. CASE EnrichPublishes
  BY <1>4, EnrichPublishesKeeps
<1>5. CASE EnrichRecords
  BY <1>5, EnrichFailure DEF EnrichRecords, EnrichAt
<1>6. CASE EnrichAcks
  <2>1. UNCHANGED <<enrichFrame, processed, copies, enriched, dead>> /\ faults' = faults
    BY <1>6 DEF EnrichAcks
  <2>2. ingest' \in Seq(StoredSet)
    BY <1>0, <1>6 DEF EnrichAcks, EnrichAt
  <2>3. enr' \in [at : {"idle", "record", "ack"}, tries : Nat]
    BY <1>6 DEF EnrichAcks
  <2>. QED  BY <1>0, <2>1, <2>2, <2>3, EnrichQuiet
<1>7. CASE EnrichThrows
  <2>1. faults' \in 0..MaxFaults
    BY <1>0, <1>7, IngestAssumption DEF EnrichThrows, Fault
  <2>2. enr' \in [at : {"idle", "record", "ack"}, tries : Nat]
    BY <1>0, <1>7 DEF EnrichThrows
  <2>3. UNCHANGED <<enrichFrame, processed, copies, enriched, dead>> /\ ingest' = ingest
    BY <1>7 DEF EnrichThrows, topics
  <2>. QED  BY <1>0, <2>1, <2>2, <2>3, EnrichQuiet
<1>. QED  BY <1>1, <1>2, <1>3, <1>4, <1>5, <1>6, <1>7 DEF Enrich

----------------------------------------------------------------------------
(* The project worker.                                                     *)

PrjType == [at : {"idle", "index", "mark", "resolve", "announce", "ack"},
            fresh : BOOLEAN, tries : Nat]

\* The event at hand is the head of the topic, for a stored delivery.
LEMMA CurrentOK ==
    ASSUME IInv, enriched # <<>>
    PROVE  /\ Current \in Doc /\ Current.from # 0 /\ Current.from \in StoredSet
           /\ Sound(Current) /\ Version(Current) = received[Current.from]
           /\ Version(Current) \in Nat /\ Version(snapshot) \in Nat /\ Version(index) \in Nat
<1>1. enriched \in Seq(Doc) /\ received \in [Deliveries -> 0..MaxChanges] /\ MaxChanges \in Nat
  BY IngestAssumption DEF IInv, TypeOK
<1>2. Current = enriched[1] /\ 1 \in 1..Len(enriched) /\ Current \in Doc
  BY <1>1 DEF Current
<1>3. Sound(Current) /\ Current.from # 0
  BY <1>2 DEF IInv, DocsInv
<1>4. Current.from \in StoredSet
  BY <1>3 DEF Sound
<1>5. \A d \in StoredSet : received[d] \in Nat
  BY <1>1 DEF StoredSet
<1>. QED  BY <1>2, <1>3, <1>4, <1>5 DEF Version, Sound, IInv, DocsInv

\* What a step of the project worker has to keep, when it changes neither the
\* versions nor the deliveries: the rest of the invariant follows.
LEMMA ProjectFrame ==
    ASSUME IInv, UNCHANGED projectFrame,
           processed' \subseteq StoredSet, enriched' \in Seq(Doc), prj' \in PrjType,
           snapshot' \in Doc, index' \in Doc, announced' \subseteq Deliveries,
           dead' \in [Rows -> RowType], faults' \in 0..MaxFaults,
           \A r \in Rows : dead'[r].state # "none" => r[1] \in StoredSet,
           EarnedInv', DocsInv', ControlInv', IndexHasSnapshot', ProcessedIsIndexed'
    PROVE  IInv'
<1>1. TypeOK'
  <2>1. processed' \subseteq Deliveries
    BY DEF StoredSet
  <2>. QED  BY <2>1 DEF IInv, TypeOK, RowType, PrjType, projectFrame, raw
<1>2. StoredSet' = StoredSet
  BY DEF StoredSet, Stored, projectFrame, raw
<1>3. SourceInv'
  BY <1>2 DEF IInv, SourceInv, projectFrame
<1>4. ClockInv'
  BY ClockFrame DEF IInv, projectFrame
<1>. QED  BY <1>1, <1>3, <1>4 DEF IInv

\* The parts of the invariant ProjectFrame asks for, before the step.
LEMMA ProjectTypes ==
    ASSUME IInv
    PROVE  /\ processed \subseteq StoredSet /\ enriched \in Seq(Doc) /\ prj \in PrjType
           /\ snapshot \in Doc /\ index \in Doc /\ announced \subseteq Deliveries
           /\ dead \in [Rows -> RowType] /\ faults \in 0..MaxFaults
           /\ \A r \in Rows : dead[r].state # "none" => r[1] \in StoredSet
BY DEF IInv, TypeOK, SourceInv, RowType, PrjType

\* The worker gives the event up to be acknowledged, or dies over it: what it
\* has done stays, and it starts again with the same event.
LEMMA ProjectLeavesKeeps == IInv /\ (ProjectSkips \/ ProjectThrows) => IInv'
<1>. SUFFICES ASSUME IInv, ProjectSkips \/ ProjectThrows PROVE IInv'
  OBVIOUS
<1>0. /\ UNCHANGED projectFrame
      /\ UNCHANGED <<processed, enriched, snapshot, index, announced, dead>>
  BY DEF ProjectSkips, ProjectThrows, documents
<1>1. prj' \in PrjType /\ prj'.at \in {"idle", "ack"} /\ faults' \in 0..MaxFaults
      /\ (prj'.at = "ack" => enriched # <<>>)
  <2>0. prj \in PrjType /\ faults \in 0..MaxFaults
    BY ProjectTypes
  <2>1. CASE ProjectSkips
    BY <2>0, <2>1 DEF ProjectSkips, PrjType, ProjectAt
  <2>2. CASE ProjectThrows
    <3>1. faults' \in 0..MaxFaults
      BY <2>0, <2>2, IngestAssumption DEF ProjectThrows, Fault
    <3>2. prj' = [at |-> "idle", fresh |-> FALSE, tries |-> prj.tries + 1]
      BY <2>2 DEF ProjectThrows
    <3>. QED  BY <2>0, <3>1, <3>2 DEF PrjType
  <2>. QED  BY <2>1, <2>2
<1>2. received' = received /\ requests' = requests
  BY <1>0 DEF projectFrame, raw
<1>3. ControlInv'
  BY <1>0, <1>1 DEF ControlInv
<1>4. DocsInv' /\ EarnedInv' /\ IndexHasSnapshot' /\ ProcessedIsIndexed'
  BY <1>0, <1>2, DocsFrame, EarnedFrame, IndexFrame DEF IInv
<1>. QED  BY <1>0, <1>1, <1>3, <1>4, ProjectTypes, ProjectFrame

\* The snapshot only gets newer, and then has the event at hand.
LEMMA RecordSnapshotKeeps == IInv /\ RecordSnapshot => IInv'
<1>. SUFFICES ASSUME IInv, RecordSnapshot PROVE IInv'
  OBVIOUS
<1>0. /\ UNCHANGED projectFrame /\ enriched # <<>>
      /\ UNCHANGED <<processed, enriched, index, announced, dead, faults>>
      /\ snapshot' = IF Version(snapshot) <= Version(Current) THEN Current ELSE snapshot
      /\ prj' = [prj EXCEPT !.at = "index"]
  BY DEF RecordSnapshot, ProjectAt
<1>1. received' = received /\ requests' = requests
  BY <1>0 DEF projectFrame, raw
<1>2. snapshot' \in Doc /\ Sound(snapshot') /\ prj' \in PrjType /\ prj'.at = "index"
  BY <1>0, CurrentOK, ProjectTypes DEF IInv, DocsInv, PrjType
<1>3. Version(snapshot)' >= Version(snapshot) /\ Version(snapshot)' >= Version(Current)
      /\ Version(snapshot)' \in Nat
  <2>1. Version(snapshot)' = IF Version(snapshot) <= Version(Current)
                             THEN Version(Current) ELSE Version(snapshot)
    BY <1>0, <1>1 DEF Version
  <2>. QED  BY <1>0, <2>1, CurrentOK
<1>4. Version(index)' = Version(index) /\ Version(Current)' = Version(Current)
  BY <1>0, <1>1 DEF Version, Current
<1>5. ControlInv'
  BY <1>0, <1>2, <1>3, <1>4 DEF ControlInv
<1>6. DocsInv'
  BY <1>0, <1>1, <1>2, DocsFrom DEF IInv, DocsInv
<1>7. EarnedInv'
  BY <1>0, <1>1, EarnedFrame DEF IInv
<1>8. IndexHasSnapshot'
  <2>1. Version(snapshot) >= Version(index)
    BY DEF IInv, IndexHasSnapshot
  <2>. QED  BY <1>0, <1>3, <1>4, <2>1, CurrentOK DEF IndexHasSnapshot
<1>9. ProcessedIsIndexed'
  BY <1>0, <1>1, <1>4 DEF IInv, ProcessedIsIndexed
<1>. QED  BY <1>0, <1>2, <1>5, <1>6, <1>7, <1>8, <1>9, ProjectTypes, ProjectFrame

\* The upsert's outcome, whether the bulk as a whole succeeds or not: the index
\* only gets newer, and never newer than the snapshot.
LEMMA UpsertedOK ==
    ASSUME IInv, ProjectAt("index"), UNCHANGED <<received, snapshot, enriched, processed>>,
           index' \in {index, Upserted}
    PROVE  /\ index' \in Doc /\ DocsInv' /\ IndexHasSnapshot' /\ ProcessedIsIndexed'
           /\ index' = Upserted => Version(index)' >= Version(Current)'
<1>1. enriched # <<>> /\ prj.at = "index"
  BY DEF ProjectAt
<1>2. /\ Version(Current) \in Nat /\ Version(snapshot) \in Nat /\ Version(index) \in Nat
      /\ Current \in Doc /\ Sound(Current)
  BY <1>1, CurrentOK
<1>3. index' \in Doc /\ Sound(index')
  BY <1>2, ProjectTypes DEF Upserted, IInv, DocsInv
<1>4. /\ Version(snapshot)' = Version(snapshot) /\ Version(Current)' = Version(Current)
      /\ index' = index => Version(index)' = Version(index)
      /\ index' = Upserted => Version(index)' = IF Fresh THEN Version(Current) ELSE Version(index)
  BY DEF Version, Current, Upserted
<1>5. Version(snapshot) >= Version(Current) /\ Version(snapshot) >= Version(index)
  BY <1>1 DEF IInv, ControlInv, IndexHasSnapshot
<1>6. /\ Version(index)' >= Version(index) /\ Version(snapshot)' >= Version(index)'
      /\ Version(index)' \in Nat
      /\ index' = Upserted => Version(index)' >= Version(Current)'
  BY <1>2, <1>4, <1>5 DEF Fresh
<1>7. DocsInv'
  BY <1>3, DocsFrom DEF IInv, DocsInv
<1>8. ProcessedIsIndexed'
  <2>. SUFFICES ASSUME NEW d \in processed' PROVE Version(index)' >= received'[d]
    BY DEF ProcessedIsIndexed
  <2>1. Version(index) >= received[d] /\ received[d] \in Nat
    BY IngestAssumption DEF IInv, ProcessedIsIndexed, TypeOK
  <2>. QED  BY <1>2, <1>6, <2>1
<1>. QED  BY <1>3, <1>6, <1>7, <1>8 DEF IndexHasSnapshot

\* The document is written, or left alone because it is as new.
LEMMA BulkUpsertKeeps == IInv /\ BulkUpsert => IInv'
<1>. SUFFICES ASSUME IInv, BulkUpsert PROVE IInv'
  OBVIOUS
<1>0. /\ UNCHANGED projectFrame /\ ProjectAt("index") /\ enriched # <<>>
      /\ UNCHANGED <<processed, enriched, snapshot, announced, dead, faults>>
      /\ index' = Upserted /\ prj' = [prj EXCEPT !.at = "mark", !.fresh = Fresh]
  BY DEF BulkUpsert, ProjectAt
<1>1. received' = received /\ requests' = requests
  BY <1>0 DEF projectFrame, raw
<1>2. prj' \in PrjType /\ prj'.at = "mark"
  <2>1. Fresh \in BOOLEAN
    BY DEF Fresh
  <2>2. prj \in PrjType
    BY ProjectTypes
  <2>. QED  BY <1>0, <2>1, <2>2 DEF PrjType
<1>3. /\ index' \in Doc /\ DocsInv' /\ IndexHasSnapshot' /\ ProcessedIsIndexed'
      /\ Version(index)' >= Version(Current)'
  BY <1>0, <1>1, UpsertedOK
<1>4. ControlInv'
  BY <1>0, <1>2, <1>3 DEF ControlInv
<1>5. EarnedInv'
  BY <1>0, <1>1, EarnedFrame DEF IInv
<1>. QED  BY <1>0, <1>2, <1>3, <1>4, <1>5, ProjectTypes, ProjectFrame

\* The bulk fails: the event comes back, or is given up and recorded.
LEMMA BulkErrorKeeps == IInv /\ (BulkFails \/ BulkRejected) => IInv'
<1>. SUFFICES ASSUME IInv, BulkFails \/ BulkRejected PROVE IInv'
  OBVIOUS
<1>0. /\ UNCHANGED projectFrame /\ ProjectAt("index") /\ enriched # <<>>
      /\ UNCHANGED <<processed, enriched, snapshot, announced, faults>>
      /\ index' \in {index, Upserted}
  BY DEF BulkFails, BulkRejected, ProjectAt
<1>1. \/ UNCHANGED dead /\ prj' = [at |-> "idle", fresh |-> FALSE, tries |-> prj.tries + 1]
      \/ Record(<<Current.from, "project">>) /\ prj' = [prj EXCEPT !.at = "ack"]
  BY DEF BulkFails, BulkRejected
<1>2. received' = received /\ requests' = requests
  BY <1>0 DEF projectFrame, raw
<1>3. prj' \in PrjType /\ prj'.at \in {"idle", "ack"}
  <2>1. prj \in PrjType
    BY ProjectTypes
  <2>2. CASE prj' = [at |-> "idle", fresh |-> FALSE, tries |-> prj.tries + 1]
    BY <2>1, <2>2 DEF PrjType
  <2>3. CASE prj' = [prj EXCEPT !.at = "ack"]
    BY <2>1, <2>3 DEF PrjType
  <2>. QED  BY <1>1, <2>2, <2>3
<1>4. /\ index' \in Doc /\ DocsInv' /\ IndexHasSnapshot' /\ ProcessedIsIndexed'
  BY <1>0, <1>2, UpsertedOK
<1>5. ControlInv'
  BY <1>0, <1>3 DEF ControlInv
<1>6. /\ dead' \in [Rows -> RowType] /\ EarnedInv'
      /\ \A s \in Rows : dead'[s].state # "none" => s[1] \in StoredSet
  <2>1. CASE UNCHANGED dead
    BY <1>2, <2>1, EarnedFrame, ProjectTypes DEF IInv
  <2>2. CASE Record(<<Current.from, "project">>)
    <3>1. Current.from \in StoredSet
      BY <1>0, CurrentOK
    <3>2. <<Current.from, "project">> \in Rows /\ <<Current.from, "project">>[1] \in StoredSet
      BY <3>1 DEF Rows, Stages, StoredSet
    <3>. QED  BY <1>2, <2>2, <3>2, RecordKeeps
  <2>. QED  BY <1>1, <2>1, <2>2
<1>. QED  BY <1>0, <1>3, <1>4, <1>5, <1>6, ProjectTypes, ProjectFrame

\* The row is marked: the index has its delivery, or a later one.
LEMMA MarkProcessedKeeps == IInv /\ MarkProcessed => IInv'
<1>. SUFFICES ASSUME IInv, MarkProcessed PROVE IInv'
  OBVIOUS
<1>0. /\ UNCHANGED projectFrame /\ prj.at = "mark" /\ enriched # <<>>
      /\ UNCHANGED <<enriched, snapshot, index, announced, dead, faults>>
      /\ processed' = processed \cup {Current.from} /\ prj' = [prj EXCEPT !.at = "resolve"]
  BY DEF MarkProcessed, ProjectAt, documents
<1>1. received' = received /\ requests' = requests
  BY <1>0 DEF projectFrame, raw
<1>2. prj' \in PrjType /\ prj'.at = "resolve"
  BY <1>0, ProjectTypes DEF PrjType
<1>3. Version(index)' = Version(index) /\ Version(Current)' = Version(Current)
  BY <1>0, <1>1 DEF Version, Current
<1>4. Version(index) >= received[Current.from] /\ Current.from \in StoredSet
  BY <1>0, CurrentOK DEF IInv, ControlInv
<1>5. ProcessedIsIndexed'
  BY <1>0, <1>1, <1>3, <1>4 DEF IInv, ProcessedIsIndexed
<1>6. ControlInv'
  BY <1>0, <1>2, <1>3 DEF IInv, ControlInv
<1>7. DocsInv' /\ EarnedInv'
  BY <1>0, <1>1, DocsFrame, EarnedFrame DEF IInv
<1>8. IndexHasSnapshot'
  BY <1>0, <1>1 DEF IInv, IndexHasSnapshot, Version
<1>9. processed' \subseteq StoredSet
  BY <1>0, <1>4, ProjectTypes
<1>. QED  BY <1>0, <1>2, <1>5, <1>6, <1>7, <1>8, <1>9, ProjectTypes, ProjectFrame

\* The rows of the delivery are resolved, whatever state they were in.
LEMMA ResolveKeeps == IInv /\ ResolveByDelivery => IInv'
<1>. SUFFICES ASSUME IInv, ResolveByDelivery PROVE IInv'
  OBVIOUS
<1>0. /\ UNCHANGED projectFrame /\ prj.at = "resolve" /\ enriched # <<>>
      /\ UNCHANGED <<processed, enriched, snapshot, index, announced, faults>>
      /\ prj' = [prj EXCEPT !.at = "announce"]
  BY DEF ResolveByDelivery, ProjectAt, documents
<1>1. received' = received /\ requests' = requests
  BY <1>0 DEF projectFrame, raw
<1>2. prj' \in PrjType /\ prj'.at = "announce"
  BY <1>0, ProjectTypes DEF PrjType
<1>3. /\ dead' \in [Rows -> RowType]
      /\ \A r \in Rows : \/ dead'[r] = dead[r]
                         \/ /\ dead'[r].count = dead[r].count /\ dead'[r].state = "resolved"
                            /\ dead[r].state # "none"
  <2>1. dead' = [r \in Rows |->
                   IF r[1] = Current.from /\ dead[r].state # "none"
                   THEN [dead[r] EXCEPT !.state = "resolved"] ELSE dead[r]]
    BY DEF ResolveByDelivery
  <2>2. \A r \in Rows : dead[r] \in RowType
    BY ProjectTypes
  <2>. QED  BY <2>1, <2>2 DEF RowType
<1>4. EarnedInv'
  BY <1>1, <1>3 DEF IInv, EarnedInv
<1>5. \A r \in Rows : dead'[r].state # "none" => r[1] \in StoredSet
  BY <1>3, ProjectTypes
<1>6. ControlInv'
  BY <1>0, <1>1, <1>2 DEF IInv, ControlInv, Version, Current
<1>7. DocsInv' /\ IndexHasSnapshot' /\ ProcessedIsIndexed'
  BY <1>0, <1>1, DocsFrame, IndexFrame DEF IInv
<1>. QED  BY <1>0, <1>2, <1>3, <1>4, <1>5, <1>6, <1>7, ProjectTypes, ProjectFrame

\* EVT-ING-003 is published, or not.
LEMMA PublishProjectedKeeps == IInv /\ PublishProjected => IInv'
<1>. SUFFICES ASSUME IInv, PublishProjected PROVE IInv'
  OBVIOUS
<1>0. /\ UNCHANGED projectFrame /\ enriched # <<>>
      /\ UNCHANGED <<processed, enriched, snapshot, index, dead, faults>>
      /\ announced' \in {announced, announced \cup {Current.from}}
      /\ prj' = [prj EXCEPT !.at = "ack"]
  BY DEF PublishProjected, ProjectAt
<1>1. received' = received /\ requests' = requests
  BY <1>0 DEF projectFrame, raw
<1>2. prj' \in PrjType /\ prj'.at = "ack"
  BY <1>0, ProjectTypes DEF PrjType
<1>3. announced' \subseteq Deliveries
  BY <1>0, CurrentOK, ProjectTypes DEF StoredSet
<1>4. ControlInv'
  BY <1>0, <1>2 DEF ControlInv
<1>5. DocsInv' /\ EarnedInv' /\ IndexHasSnapshot' /\ ProcessedIsIndexed'
  BY <1>0, <1>1, DocsFrame, EarnedFrame, IndexFrame DEF IInv
<1>. QED  BY <1>0, <1>2, <1>3, <1>4, <1>5, ProjectTypes, ProjectFrame

\* The event is acknowledged and the worker takes the next one.
LEMMA ProjectAcksKeeps == IInv /\ ProjectAcks => IInv'
<1>. SUFFICES ASSUME IInv, ProjectAcks PROVE IInv'
  OBVIOUS
<1>0. /\ UNCHANGED projectFrame /\ enriched # <<>> /\ enriched' = Tail(enriched)
      /\ UNCHANGED <<processed, snapshot, index, announced, dead, faults>>
      /\ prj' = [at |-> "idle", fresh |-> FALSE, tries |-> 0]
  BY DEF ProjectAcks, ProjectAt, documents
<1>1. received' = received /\ requests' = requests
  BY <1>0 DEF projectFrame, raw
<1>2. prj' \in PrjType /\ prj'.at = "idle"
  BY <1>0 DEF PrjType
<1>3. enriched \in Seq(Doc) /\ enriched' \in Seq(Doc)
      /\ \A i \in 1..Len(enriched') : i + 1 \in 1..Len(enriched) /\ enriched'[i] = enriched[i + 1]
  BY <1>0, ProjectTypes
<1>4. DocsInv'
  <2>1. \A i \in 1..Len(enriched') : Sound(enriched'[i]) /\ enriched'[i].from # 0
    BY <1>3 DEF IInv, DocsInv
  <2>2. Sound(snapshot') /\ Sound(index')
    BY <1>0 DEF IInv, DocsInv
  <2>. QED  BY <1>1, <2>1, <2>2, DocsFrom
<1>5. ControlInv'
  BY <1>2 DEF ControlInv
<1>6. EarnedInv' /\ IndexHasSnapshot' /\ ProcessedIsIndexed'
  BY <1>0, <1>1, EarnedFrame, IndexFrame DEF IInv
<1>. QED  BY <1>0, <1>2, <1>3, <1>4, <1>5, <1>6, ProjectTypes, ProjectFrame

\* The repository is archived.
LEMMA ArchiveKeeps == IInv /\ Archive => IInv'
<1>. SUFFICES ASSUME IInv, Archive PROVE IInv'
  OBVIOUS
<1>0. UNCHANGED <<raw, queued, processed, entering, topics, enr, prj, documents, dead,
                  relay, operator>>
  BY DEF Archive
<1>1. active' \in BOOLEAN /\ faults' \in 0..MaxFaults
  <2>1. active' \in BOOLEAN
    BY DEF Archive
  <2>2. faults < MaxFaults /\ faults' = faults + 1 /\ faults \in 0..MaxFaults
    BY DEF Archive, Fault, IInv, TypeOK
  <2>3. faults' \in 0..MaxFaults
    BY <2>2, IngestAssumption
  <2>. QED  BY <2>1, <2>3
<1>2. TypeOK'
  BY <1>0, <1>1 DEF IInv, TypeOK, raw, topics, documents, operator
<1>3. SourceInv'
  BY <1>0, SourceFrame DEF IInv, raw, topics, operator
<1>4. ClockInv' /\ DocsInv' /\ ControlInv' /\ EarnedInv'
  BY <1>0, ClockFrame, DocsFrame, ControlFrame, EarnedFrame
  DEF IInv, raw, topics, documents, operator
<1>5. (IndexHasSnapshot /\ ProcessedIsIndexed)'
  BY <1>0, IndexFrame DEF IInv, raw, documents
<1>. QED  BY <1>2, <1>3, <1>4, <1>5 DEF IInv

\* Nothing happens.
LEMMA StutterKeeps == IInv /\ UNCHANGED vars => IInv'
<1>. SUFFICES ASSUME IInv, UNCHANGED vars PROVE IInv'
  OBVIOUS
<1>1. TypeOK'
  BY DEF IInv, TypeOK, vars, raw, topics, documents, operator
<1>2. SourceInv'
  BY SourceFrame DEF IInv, vars, raw, topics, operator
<1>3. ClockInv' /\ DocsInv' /\ ControlInv' /\ EarnedInv'
  BY ClockFrame, DocsFrame, ControlFrame, EarnedFrame
  DEF IInv, vars, raw, topics, documents, operator
<1>4. (IndexHasSnapshot /\ ProcessedIsIndexed)'
  BY IndexFrame DEF IInv, vars, raw, documents
<1>. QED  BY <1>1, <1>2, <1>3, <1>4 DEF IInv

----------------------------------------------------------------------------
(* The theorems.                                                           *)

\* Every step keeps the invariant.
LEMMA NextKeeps == IInv /\ [Next]_vars => IInv'
<1>. SUFFICES ASSUME IInv, [Next]_vars PROVE IInv'
  OBVIOUS
<1>1. CASE Change
  BY <1>1, ChangeKeeps
<1>2. CASE Gateway
  BY <1>2, StoreKeeps, EnqueueKeeps DEF Gateway
<1>3. CASE Relay
  BY <1>3, FindKeeps, RelayKeeps DEF Relay
<1>4. CASE Operator
  BY <1>4, MarkReprocessingKeeps, ReinjectKeeps DEF Operator
<1>5. CASE Archive
  BY <1>5, ArchiveKeeps
<1>6. CASE Enrich \/ EnrichThrows
  BY <1>6, EnrichKeeps
<1>7. CASE Project \/ ProjectThrows
  BY <1>7, ProjectLeavesKeeps, RecordSnapshotKeeps, BulkUpsertKeeps, BulkErrorKeeps,
     MarkProcessedKeeps, ResolveKeeps, PublishProjectedKeeps, ProjectAcksKeeps DEF Project
<1>8. CASE UNCHANGED vars
  BY <1>8, StutterKeeps
<1>. QED  BY <1>1, <1>2, <1>3, <1>4, <1>5, <1>6, <1>7, <1>8 DEF Next

\* The inductive invariant holds in every reachable state.
THEOREM Invariance == Spec => []IInv
BY InitOK, NextKeeps, PTL DEF Spec

\* Every variable keeps its type; in particular the clock, which ticks at most
\* once per stored delivery (store.ts).
THEOREM TypeCorrect == Spec => []TypeOK
<1>1. IInv => TypeOK
  BY DEF IInv
<1>. QED  BY <1>1, Invariance, PTL

\* A row is marked processed only when the index has its delivery or a later one
\* (project.ts).
THEOREM ProcessedAreIndexed == Spec => []ProcessedIsIndexed
<1>1. IInv => ProcessedIsIndexed
  BY DEF IInv
<1>. QED  BY <1>1, Invariance, PTL

\* The snapshot is as new as the document in the index (snapshot.ts).
THEOREM SnapshotIsAhead == Spec => []IndexHasSnapshot
<1>1. IInv => IndexHasSnapshot
  BY DEF IInv
<1>. QED  BY <1>1, Invariance, PTL

\* A complete document shows every delivery that is processed, but those received
\* in the same millisecond as another (project.ts, AC-1).
THEOREM NewStateStays == Spec => []IndexShowsProcessed
BY IndexShows, Invariance, PTL

\* A row is held only after MAX_REPROCESS_ATTEMPTS requests of operators
\* (dead-letter.ts).
THEOREM HeldRowsAreEarned == Spec => []HeldIsEarned
<1>1. IInv => HeldIsEarned
  BY DEF IInv, EarnedInv, HeldIsEarned
<1>. QED  BY <1>1, Invariance, PTL
============================================================================
