---------------------------- MODULE CachedSearch ----------------------------
(***************************************************************************)
(* The cache of stellate-plugin over a search index that jobs of           *)
(* pub-sub-plugin's queue keep: a change to the catalog is an event for    *)
(* the purge rules and, at the same time, the cause of an update job.      *)
(* Neither waits for the other.                                            *)
(*                                                                         *)
(* A job updates the index when it ends; how it does so, one request at a  *)
(* time, is the matter of ProductDocuments.                                *)
(***************************************************************************)
EXTENDS PubSubQueue, StellatePurge

CONSTANT MaxFaults    \* bound on the faults of both

VARIABLES
    jobOf,    \* what each job is to read again
    unsent    \* the changes whose job could not be added

vars == <<queueVars, cacheVars, jobOf, unsent>>

TypeOK ==
    /\ QueueTypeOK
    /\ CacheTypeOK
    /\ jobOf \in [Jobs -> Indexed \cup {"none"}]
    /\ \A j \in Jobs : message[j] = "unsent" <=> jobOf[j] = "none"
    /\ unsent \subseteq Indexed

-----------------------------------------------------------------------------
(* A change that the index depends on, and the job for it. *)
ChangeAndUpdate(rule, key) ==
    LET source == SourceOf(rule, key)
    IN  /\ source \in Indexed
        /\ ChangeCatalog(rule, key)
        /\ \E j \in Jobs, p \in Processes :
               /\ AddJob(p, j)
               /\ jobOf' = [jobOf EXCEPT ![j] = source]
        /\ UNCHANGED unsent

(* The job is not added: its process is not initialized, or publishing     *)
(* fails.  The change is made all the same.                                *)
ChangeWithoutJob(rule, key) ==
    LET source == SourceOf(rule, key)
    IN  /\ source \in Indexed => Fault
        /\ source \notin Indexed => UNCHANGED queueFaults
        /\ ChangeCatalog(rule, key)
        /\ unsent' = unsent \cup ({source} \cap Indexed)
        /\ UNCHANGED <<message, process, runs, ran, jobOf>>

(* A job ends well: the index has what it was to read again. *)
EndJob(r) ==
    /\ FinishRun(r)
    /\ IndexCatchesUp(jobOf[r.job])
    /\ UNCHANGED <<jobOf, unsent>>

(* A step of the queue that leaves the index alone, or of the cache. *)
QueueAlone ==
    /\ UNCHANGED <<cacheVars, jobOf, unsent>>
    /\ queueFaults' + cacheFaults <= MaxFaults

CacheAlone ==
    /\ UNCHANGED <<queueVars, jobOf, unsent>>
    /\ queueFaults + cacheFaults' <= MaxFaults

-----------------------------------------------------------------------------
Init ==
    /\ message = [j \in Jobs |-> "unsent"]
    /\ process = [p \in Processes |-> NotRunning]
    /\ runs = {} /\ ran = {} /\ queueFaults = 0
    /\ CacheInit
    /\ jobOf = [j \in Jobs |-> "none"] /\ unsent = {}

Next ==
    \/ \E rule \in Rules : \E key \in KeysOf(rule) :
           ChangeAndUpdate(rule, key) \/ ChangeWithoutJob(rule, key)
    \/ \E r \in runs : EndJob(r)
    \/ \E p \in Processes :
           \/ InitStrategy(p) /\ QueueAlone
           \/ StartQueue(p) /\ QueueAlone
           \/ StopQueue(p) /\ QueueAlone
           \/ DestroyStrategy(p) /\ QueueAlone
           \/ Crash(p) /\ QueueAlone
           \/ \E j \in Jobs : Deliver(p, j) /\ QueueAlone
    \/ \E r \in runs : FailRun(r) /\ QueueAlone
    \/ \E j \in Jobs : LeaseExpires(j) /\ QueueAlone
    \/ \E page \in Page :
           \/ FetchPage(page) /\ CacheAlone
           \/ FillCache(page) /\ CacheAlone
           \/ ExpireCopy(page) /\ CacheAlone
    \/ \E rule \in Rules : CloseBuffer(rule) /\ CacheAlone
    \/ \E q \in purges : TakePurge(q) /\ CacheAlone
    \/ \E q \in purges : LosePurge(q) /\ CacheAlone
    \/ StopServer /\ CacheAlone

Spec == Init /\ [][Next]_vars

-----------------------------------------------------------------------------
(* Properties *)

(* What the index has not read again since it changed has a job that the   *)
(* queue still owes a run, whatever processes stop, crash, fail or let a   *)
(* lease run out; unless its job was never added.                          *)
IndexIsOwed ==
    \A source \in lag \ unsent :
        \E j \in Jobs : jobOf[j] = source /\ message[j] \in {"waiting", "leased"}

(* After stop a process is handed no message, however often it was started *)
(* before and whether before or after init.                                *)
StoppedIsSilent ==
    [][\A r \in runs' \ runs : r.leased => process[r.proc].registered]_vars

(* The queue loses nothing: it implements AtLeastOnce.                     *)
Queue == INSTANCE AtLeastOnce WITH
             added <- {j \in Jobs : message[j] # "unsent"},
             gone <- {j \in Jobs : message[j] = "acked"}

DeliversAtLeastOnce == Queue!Spec
=============================================================================
