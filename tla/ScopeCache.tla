----------------------------- MODULE ScopeCache -----------------------------
(***************************************************************************)
(* The cache of what a user may see: Redis before a row of PostgreSQL      *)
(* before GitHub (AccessScopeResolver), filled by requests of several      *)
(* processes and invalidated by a worker when GitHub says that something   *)
(* changed.  A scope is modelled by the number of the change it is as of.  *)
(* One user; a statement of SQL is a step.                                 *)
(***************************************************************************)
EXTENDS Naturals, FiniteSets

CONSTANTS
  Requests, Home,  \* requests and the process each one is of
  Ttl,             \* CACHE_TTL_MS
  Lag,             \* no request takes longer (timeouts of the client)
  MaxRetries,      \* MAX_RETRIES
  MaxTime, MaxChanges, MaxOutages,   \* bounds
  Absent

ASSUME ScopeAssumption ==
  Ttl \in Nat \ {0} /\ Lag \in Nat /\ MaxRetries \in Nat /\ MaxTime \in Nat /\ MaxChanges \in Nat /\ MaxOutages \in Nat

VARIABLES
  clock,
  changed,  \* when each change happened at GitHub; the first is the state at the start (external)
  events,   \* invalidations on the bus: the change and whether it names the user
  version,  \* access_scope_version of app_user
  row,      \* permission_cache
  redis,    \* the entry of Redis and when it expires
  req,      \* the requests
  worker,   \* the consumer of EVT-AUTH-001
  applied,  \* history: the newest change an invalidation of this user was applied for
  served,   \* history: the scope served last, and when
  outages   \* calls of Redis and GitHub that failed

scopeVars == <<clock, changed, events, version, row, redis, req, worker, applied, served, outages>>

Latest == Cardinality(DOMAIN changed)
NoRequest == [pc |-> "idle", data |-> 0, at |-> 0, version |-> 0, began |-> 0]
Resting == [pc |-> "idle", event |-> Absent, tries |-> 0]
Outage == outages < MaxOutages /\ outages' = outages + 1

-----------------------------------------------------------------------------
(* Time and GitHub (external) *)

Tick ==
  /\ clock < MaxTime
  /\ \A t \in Requests : req[t].pc # "idle" => clock - req[t].began < Lag
  /\ clock' = clock + 1
  /\ UNCHANGED <<changed, events, version, row, redis, req, worker, applied, served, outages>>

(* The access of the user changes, and the event says so: of a member or a  *)
(* team it names the user, of a repository it does not.                     *)
Change(named) ==
  /\ Latest <= MaxChanges
  /\ changed' = [i \in 1 .. Latest + 1 |-> IF i <= Latest THEN changed[i] ELSE clock]
  /\ events' = events \cup {[change |-> Latest + 1, named |-> named]}
  /\ UNCHANGED <<clock, version, row, redis, req, worker, applied, served, outages>>

-----------------------------------------------------------------------------
(* AccessScopeResolver *)

(* isFresh *)
Fresh(at) == clock - at < Ttl

Answer(t, data) ==
  /\ served' = [data |-> data, at |-> clock]
  /\ req' = [req EXCEPT ![t] = NoRequest]

Goes(t, pc) == req' = [req EXCEPT ![t].pc = pc]

(* resolveCached begins: readRedis has an entry that is fresh by its own    *)
(* time, or has none, or fails.                                             *)
Begin(t) ==
  LET hit == redis # Absent /\ clock < redis.until /\ Fresh(redis.at)
  IN  /\ req[t].pc = "idle"
      /\ \/ hit /\ Answer(t, redis.data) /\ UNCHANGED outages
         \/ /\ (IF hit THEN Outage ELSE UNCHANGED outages) /\ UNCHANGED served
            /\ req' = [req EXCEPT ![t] = [NoRequest EXCEPT !.pc = "row", !.began = clock]]
      /\ UNCHANGED <<clock, changed, events, version, row, redis, worker, applied>>

(* The refresh of the same user that its process has under way (inFlight) *)
Leader(t) == {u \in Requests : Home[u] = Home[t] /\ req[u].pc \in {"user", "fetch", "answer", "write", "set"}}

(* readCache; a row that is not fresh is as none, and refresh leads a call  *)
(* of GitHub or joins the one under way.                                    *)
ReadRow(t) ==
  /\ req[t].pc = "row"
  /\ IF row # Absent /\ Fresh(row.at)
     THEN req' = [req EXCEPT ![t].pc = "refill", ![t].data = row.data, ![t].at = row.at, ![t].version = row.version]
     ELSE Goes(t, IF Leader(t) = {} THEN "user" ELSE "joined")
  /\ UNCHANGED <<clock, changed, events, version, row, redis, worker, applied, served, outages>>

(* Mutant of Entry: what is put back counts from now. *)
EntryFromNow(q) == [data |-> q.data, at |-> clock, until |-> clock + Ttl]

(* writeRedis keeps the time of the scope and sets what remains of its TTL. *)
Entry(q) == [data |-> q.data, at |-> q.at, until |-> q.at + Ttl]

WriteRedis(t) ==
  \/ /\ redis' = IF clock < req[t].at + Ttl THEN Entry(req[t]) ELSE redis
     /\ UNCHANGED outages
  \/ Outage /\ UNCHANGED redis

(* The requests that joined get the answer with their leader. *)
AnswerAll(t, data) ==
  /\ served' = [data |-> data, at |-> clock]
  /\ req' = [u \in Requests |->
               IF u = t \/ (Home[u] = Home[t] /\ req[u].pc = "joined") THEN NoRequest ELSE req[u]]

Refill(t) ==
  /\ req[t].pc = "refill"
  /\ WriteRedis(t)
  /\ Answer(t, req[t].data)
  /\ UNCHANGED <<clock, changed, events, version, row, worker, applied>>

(* refreshOnce: the version first ... *)
ReadUser(t) ==
  /\ req[t].pc = "user"
  /\ req' = [req EXCEPT ![t].pc = "fetch", ![t].version = version]
  /\ UNCHANGED <<clock, changed, events, version, row, redis, worker, applied, served, outages>>

(* ... then GitHub, whose answer is as of some moment before it arrives ... *)
Fetch(t) ==
  /\ req[t].pc = "fetch"
  /\ req' = [req EXCEPT ![t].pc = "answer", ![t].data = Latest]
  /\ UNCHANGED <<clock, changed, events, version, row, redis, worker, applied, served, outages>>

Arrive(t) ==
  /\ req[t].pc = "answer"
  /\ \/ req' = [req EXCEPT ![t].pc = "write", ![t].at = clock] /\ UNCHANGED outages
     \/ /\ Outage      \* ScopeUnavailableError, for all that wait
        /\ req' = [u \in Requests |->
                     IF u = t \/ (Home[u] = Home[t] /\ req[u].pc = "joined") THEN NoRequest ELSE req[u]]
  /\ UNCHANGED <<clock, changed, events, version, row, redis, worker, applied, served>>

(* Mutant of Fenced: the row that is there decides alone. *)
FencedByRow(q) == row # Absent => row.version <= q.version

(* The condition of writePermissionCache *)
Fenced(q) == version = q.version /\ (row # Absent => row.version <= q.version)

(* ... then the row, if no invalidation came in between. *)
WriteRow(t) ==
  /\ req[t].pc = "write"
  /\ \/ /\ Fenced(req[t])
        /\ row' = [data |-> req[t].data, at |-> clock, version |-> req[t].version]
        /\ Goes(t, "set") /\ UNCHANGED served
     \/ /\ ~Fenced(req[t])
        /\ AnswerAll(t, req[t].data) /\ UNCHANGED row
  /\ UNCHANGED <<clock, changed, events, version, redis, worker, applied, outages>>

Set(t) ==
  /\ req[t].pc = "set"
  /\ WriteRedis(t)
  /\ AnswerAll(t, req[t].data)
  /\ UNCHANGED <<clock, changed, events, version, row, worker, applied>>

Resolve(t) == Begin(t) \/ ReadRow(t) \/ Refill(t) \/ ReadUser(t) \/ Fetch(t) \/ Arrive(t) \/ WriteRow(t) \/ Set(t)

-----------------------------------------------------------------------------
(* createAuthzHandler *)

(* Whether an event is found to be about the user: it names them, or their  *)
(* row holds the repository (findUsersAffectedByRepository), which only a   *)
(* row that is there can.                                                   *)
Concerned(e) == IF e.named THEN {TRUE} ELSE {FALSE, row # Absent}

(* invalidateUsers raises the version and deletes the row, in one statement. *)
Invalidate ==
  /\ worker.pc = "idle"
  /\ \E e \in (IF worker.event = Absent THEN events ELSE {worker.event}), concerned \in BOOLEAN :
       concerned \in Concerned(e) /\
       IF concerned
       THEN /\ version' = version + 1
            /\ row' = Absent
            /\ applied' = IF e.change > applied THEN e.change ELSE applied
            /\ worker' = [worker EXCEPT !.pc = "forget", !.event = e]
            /\ UNCHANGED events
       ELSE /\ events' = events \ {e}
            /\ worker' = Resting
            /\ UNCHANGED <<version, row, applied>>
  /\ UNCHANGED <<clock, changed, redis, req, served, outages>>

(* forgetCached.  When it fails the event comes again, and is dead after    *)
(* MAX_RETRIES; what remains then ends with its TTL.                        *)
Forget ==
  /\ worker.pc = "forget"
  /\ \/ /\ redis' = Absent
        /\ events' = events \ {worker.event}
        /\ worker' = Resting
        /\ UNCHANGED outages
     \/ /\ Outage
        /\ IF worker.tries + 1 >= MaxRetries
           THEN events' = events \ {worker.event} /\ worker' = Resting
           ELSE events' = events /\ worker' = [worker EXCEPT !.pc = "idle", !.tries = @ + 1]
        /\ UNCHANGED redis
  /\ UNCHANGED <<clock, changed, version, row, req, applied, served>>

-----------------------------------------------------------------------------
ScopeInit ==
  /\ clock = 0 /\ changed = <<0>> /\ events = {} /\ version = 0
  /\ row = Absent /\ redis = Absent
  /\ req = [t \in Requests |-> NoRequest]
  /\ worker = Resting
  /\ applied = 1 /\ served = [data |-> 1, at |-> 0] /\ outages = 0

ScopeNext ==
  \/ Tick \/ Invalidate \/ Forget
  \/ \E named \in BOOLEAN : Change(named)
  \/ \E t \in Requests : Resolve(t)

ScopeSpec == ScopeInit /\ [][ScopeNext]_scopeVars

-----------------------------------------------------------------------------
(* The row, the entry and the requests have their shapes, the version is    *)
(* never behind one that was read, and whoever joined a refresh has one to  *)
(* wait for (AccessScopeResolver).                                          *)
ScopeTypeOK ==
  /\ version \in Nat /\ applied \in 1 .. Latest
  /\ row # Absent => row.data \in 1 .. Latest /\ row.version <= version
  /\ redis # Absent => redis.data \in 1 .. Latest /\ redis.until <= redis.at + Ttl
  /\ \A t \in Requests :
       /\ req[t].data \in 0 .. Latest /\ req[t].version <= version
       /\ req[t].pc = "joined" => Cardinality(Leader(t)) = 1

(* A row is never older than an invalidation applied to its user: a refresh *)
(* that began before one and ends after it leaves no row (CR-015,           *)
(* writePermissionCache, invalidateUsers).                                  *)
RowIsFenced == row # Absent => row.data >= applied

(* Whatever was lost on the way (an event, a call of Redis, the worker), a  *)
(* scope that is served was the truth at most a TTL and two requests ago:   *)
(* going through the layers never renews it (isFresh, writeRedis).          *)
ServedIsRecent ==
  \A i \in 1 .. Latest : changed[i] + Ttl + 2 * Lag <= served.at => served.data >= i
=============================================================================
