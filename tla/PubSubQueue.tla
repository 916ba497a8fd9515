----------------------------- MODULE PubSubQueue ----------------------------
(***************************************************************************)
(* pub-sub-plugin: Vendure's job queue over Google Pub/Sub.                *)
(*                                                                         *)
(* add publishes a job; start puts a listener on the subscription of the   *)
(* queue, which runs every message it is handed and then acknowledges it   *)
(* or hands it back; stop takes the listener off and waits for nothing.    *)
(* The subscription leases a message to one client at a time; a lease that *)
(* runs out, or whose client is gone, makes the message deliverable again, *)
(* while the job it was handed to may still be at work.                    *)
(*                                                                         *)
(* Abstractions: one queue, one process function; Pub/Sub and its client   *)
(* are external.  Of several runs of one job in one process that have lost *)
(* their lease one is kept.                                                *)
(***************************************************************************)
EXTENDS Naturals, FiniteSets

CONSTANTS
    Jobs,
    Processes,        \* processes of the shop: server and workers
    Concurrency,      \* option concurrency: messages a client holds at most
    MaxQueueFaults    \* bound on failed runs, lost leases, stops (stop, destroy) and
                      \* crashes

ASSUME QueueAssumption ==
    /\ Concurrency \in Nat \ {0}
    /\ MaxQueueFaults \in Nat

VARIABLES
    message,       \* each job's message at the subscription
    process,       \* the strategy in each process
    runs,          \* the messages at work
    ran,           \* the jobs that ran to their end at least once
    queueFaults    \* faults so far

queueVars == <<message, process, runs, ran, queueFaults>>

-----------------------------------------------------------------------------
(* An acknowledged message is never delivered again. *)
MessageState == {"unsent", "waiting", "leased", "acked"}

(* hasInitialized; the entry of `started`; the entry of `listeners`; the   *)
(* listeners that are on the subscription.                                 *)
Strategy == [initialized : BOOLEAN, started : BOOLEAN, registered : BOOLEAN,
             listeners : 0..2]

NotRunning ==
    [initialized |-> FALSE, started |-> FALSE, registered |-> FALSE, listeners |-> 0]

(* A message at work; leased while its delivery is the current one. *)
Run == [proc : Processes, job : Jobs, leased : BOOLEAN]

QueueTypeOK ==
    /\ message \in [Jobs -> MessageState]
    /\ process \in [Processes -> Strategy]
    /\ runs \subseteq Run
    /\ ran \subseteq Jobs
    /\ queueFaults \in 0..MaxQueueFaults

Fault == queueFaults < MaxQueueFaults /\ queueFaults' = queueFaults + 1

-----------------------------------------------------------------------------
(* Mutant: start does not look whether there is a listener already. *)
ListenAgain(s) ==
    [s EXCEPT !.started = FALSE, !.registered = TRUE,
              !.listeners = IF @ < 2 THEN @ + 1 ELSE @]

(* start, once the strategy is initialized. *)
Listen(s) ==
    IF s.registered
    THEN [s EXCEPT !.started = FALSE]
    ELSE [s EXCEPT !.started = FALSE, !.registered = TRUE, !.listeners = @ + 1]

(* The listener comes off, if it still is on. *)
Unlisten(s) ==
    [initialized |-> s.initialized, started |-> s.started, registered |-> FALSE,
     listeners |-> IF s.listeners = 0 THEN 0 ELSE s.listeners - 1]

(* Every listener comes off, but `listeners` keeps its entry. *)
Destroyed(s) ==
    [initialized |-> FALSE, started |-> s.started, registered |-> s.registered,
     listeners |-> 0]

(* init: what was started before is started now. *)
InitStrategy(p) ==
    /\ ~process[p].initialized
    /\ process' = [process EXCEPT ![p] =
           LET s == [@ EXCEPT !.initialized = TRUE]
           IN  IF s.started THEN Listen(s) ELSE s]
    /\ UNCHANGED <<message, runs, ran, queueFaults>>

(* start: kept for later before init, no more than one listener after it. *)
StartQueue(p) ==
    /\ process' = [process EXCEPT ![p] =
           IF @.initialized THEN Listen(@) ELSE [@ EXCEPT !.started = TRUE]]
    /\ UNCHANGED <<message, runs, ran, queueFaults>>

(* stop: what is at work goes on. *)
StopQueue(p) ==
    /\ process[p].registered
    /\ Fault
    /\ process' = [process EXCEPT ![p] = Unlisten(@)]
    /\ UNCHANGED <<message, runs, ran>>

(* destroy: a start after another init puts no listener on then. *)
DestroyStrategy(p) ==
    /\ process[p].initialized
    /\ Fault
    /\ process' = [process EXCEPT ![p] = Destroyed(@)]
    /\ UNCHANGED <<message, runs, ran>>

(* The process stops dead.  Its leases run out in their time. *)
Crash(p) ==
    /\ process[p] # NotRunning
    /\ Fault
    /\ process' = [process EXCEPT ![p] = NotRunning]
    /\ runs' = {r \in runs : r.proc # p}
    /\ UNCHANGED <<message, ran>>

-----------------------------------------------------------------------------
(* add, in a process whose strategy is initialized; before that it throws. *)
AddJob(p, j) ==
    /\ process[p].initialized
    /\ message[j] = "unsent"
    /\ message' = [message EXCEPT ![j] = "waiting"]
    /\ UNCHANGED <<process, runs, ran, queueFaults>>

HeldBy(p) == {r \in runs : r.proc = p /\ r.leased}

(* Mutant: a message is acknowledged when it comes, not when its job ends. *)
DeliverAcknowledged(p, j) ==
    /\ process[p].listeners > 0
    /\ Cardinality(HeldBy(p)) < Concurrency
    /\ message[j] = "waiting"
    /\ message' = [message EXCEPT ![j] = "acked"]
    /\ runs' = runs \cup {[proc |-> p, job |-> j, leased |-> TRUE]}
    /\ UNCHANGED <<process, ran, queueFaults>>

(* The subscription hands a message to a client with a listener and room.  *)
(* The client holds a stale run of the same job for another message.       *)
Deliver(p, j) ==
    /\ process[p].listeners > 0
    /\ Cardinality(HeldBy(p)) < Concurrency
    /\ message[j] = "waiting"
    /\ message' = [message EXCEPT ![j] = "leased"]
    /\ runs' = runs \cup {[proc |-> p, job |-> j, leased |-> TRUE]}
    /\ UNCHANGED <<process, ran, queueFaults>>

(* The job ends well and the message is acknowledged.  The answer may be   *)
(* lost (after stop the client is closed); one of an old delivery counts   *)
(* or not.                                                                 *)
FinishRun(r) ==
    /\ r \in runs
    /\ runs' = runs \ {r}
    /\ ran' = ran \cup {r.job}
    /\ \/ message' = [message EXCEPT ![r.job] = "acked"]
       \/ UNCHANGED message
    /\ UNCHANGED <<process, queueFaults>>

(* Mutant: a job that fails is acknowledged like one that ends well. *)
FailAcknowledged(r) ==
    /\ r \in runs
    /\ Fault
    /\ runs' = runs \ {r}
    /\ message' = [message EXCEPT ![r.job] = "acked"]
    /\ UNCHANGED <<process, ran>>

(* The job fails, or its data is no JSON: the message is handed back. *)
FailRun(r) ==
    /\ r \in runs
    /\ Fault
    /\ runs' = runs \ {r}
    /\ message' = IF r.leased /\ message[r.job] = "leased"
                  THEN [message EXCEPT ![r.job] = "waiting"]
                  ELSE message
    /\ UNCHANGED <<process, ran>>

(* The deadline of a delivery passes; a run it was for goes on without it. *)
LeaseExpires(j) ==
    /\ message[j] = "leased"
    /\ message' = [message EXCEPT ![j] = "waiting"]
    /\ runs' = {IF r.job = j THEN [r EXCEPT !.leased = FALSE] ELSE r : r \in runs}
    /\ IF \E r \in runs : r.job = j /\ r.leased
       THEN Fault
       ELSE UNCHANGED queueFaults
    /\ UNCHANGED <<process, ran>>
=============================================================================
