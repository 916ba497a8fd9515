---------------------------- MODULE AtLeastOnce -----------------------------
(***************************************************************************)
(* What a job queue promises: a job that was added may run any number of   *)
(* times, it leaves the queue only after it ran to its end at least once,  *)
(* and nothing comes back.  When it leaves is the queue's own affair.      *)
(***************************************************************************)
CONSTANT Jobs

VARIABLES
    added,   \* the jobs that were handed to the queue
    ran,     \* those that ran to their end
    gone     \* those the queue has forgotten

Init == added = {} /\ ran = {} /\ gone = {}

Add(j) ==
    /\ j \notin added
    /\ added' = added \cup {j}
    /\ UNCHANGED <<ran, gone>>

(* A run ends; the queue may forget the job. *)
Run(j) ==
    /\ j \in added
    /\ ran' = ran \cup {j}
    /\ gone' \in {gone, gone \cup {j}}
    /\ UNCHANGED added

Next == \E j \in Jobs : Add(j) \/ Run(j)

Spec == Init /\ [][Next]_<<added, ran, gone>>
=============================================================================
