-------------------------- MODULE PartitionQueue --------------------------
(***************************************************************************)
(* What one partition of an EventBus promises its consumer, whichever      *)
(* adapter is behind it (packages/bus/src/types.ts): events are numbered   *)
(* in the order they were published, one of them at a time is in the       *)
(* consumer's hands, it is the oldest one not finished, and it is finished *)
(* before the next one is served.  An event may be given back and served   *)
(* again any number of times.                                              *)
(***************************************************************************)
EXTENDS Naturals

VARIABLES
    published,  \* events published so far: 1..published
    done,       \* events finished so far: 1..done
    serving     \* the event in the consumer's hands, 0 for none

queueVars == <<published, done, serving>>

QueueInit == published = 0 /\ done = 0 /\ serving = 0

Append == published' = published + 1 /\ UNCHANGED <<done, serving>>

Serve ==
    /\ serving = 0 /\ done < published
    /\ serving' = done + 1
    /\ UNCHANGED <<published, done>>

GiveBack == serving # 0 /\ serving' = 0 /\ UNCHANGED <<published, done>>

Finish ==
    /\ serving # 0
    /\ done' = serving
    /\ serving' = 0
    /\ UNCHANGED published

QueueNext == Append \/ Serve \/ GiveBack \/ Finish

QueueSpec == QueueInit /\ [][QueueNext]_queueVars
============================================================================
