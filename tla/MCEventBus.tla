---------------------------- MODULE MCEventBus ----------------------------
(***************************************************************************)
(* Both adapters of the bus against one contract.  The services run on     *)
(* Redis, their tests in memory; the variables the two have in common      *)
(* (published, retries, wait, failed) mean the same in both.               *)
(***************************************************************************)
EXTENDS RedisPartition

VARIABLES
    adapter,    \* "redis" or "memory"
    unclaimed, group, backlog, held, point   \* of the in-memory adapter

Memory == INSTANCE MemoryPartition WITH MaxDelay <- MaxBackoff, pending <- held, pc <- point

redisOnly == <<lastRead, pending, idle, count, pc, todo, known, settled, budgets>>
memoryOnly == <<unclaimed, group, backlog, held, point>>
busVars == <<vars, adapter, memoryOnly>>

BusInit == Init /\ Memory!Init /\ adapter \in {"redis", "memory"}

RedisNext == adapter = "redis" /\ Next /\ UNCHANGED <<adapter, memoryOnly>>
MemoryNext == adapter = "memory" /\ Memory!Next /\ UNCHANGED <<adapter, redisOnly>>

IsRedis == adapter = "redis"

\* Fairness, for the adapter the services run on: a subscription that is closed is
\* opened again by the worker's restart, its loop never returns while it runs, a
\* handler returns, and the clock runs.  Nobody has to publish, no handler to succeed.
BusSpec ==
    /\ BusInit /\ [][RedisNext \/ MemoryNext]_busVars
    /\ WF_vars(IsRedis /\ Tick) /\ WF_vars(IsRedis /\ Subscribe)
    /\ WF_vars(IsRedis /\ Loop) /\ WF_vars(IsRedis /\ Handler)

---------------------------------------------------------------------------
(* Properties                                                              *)

MemoryQueue == INSTANCE PartitionQueue WITH
    done    <- IF IsRedis THEN 0 ELSE Memory!Done,
    serving <- IF IsRedis THEN 0 ELSE Memory!Serving

\* The in-memory adapter implements the abstract partition too, also for what was
\* published before the first subscription (in-memory.ts against the port of
\* packages/bus/src/types.ts).
MemoryImplementsQueue == MemoryQueue!QueueSpec

\* On Redis a handler that fails on an event for ever holds its partition only
\* until the budget is used up: every published event is acknowledged in the end
\* (redis-streams.ts, #deliver).
PublishedIsAcked == \A e \in Ids : IsRedis /\ e <= published ~> e \in Acked

===========================================================================
