------------------------------ MODULE TaskPool ------------------------------
(***************************************************************************)
(* What Downloader.Download promises about the chunk tasks it is given,    *)
(* with no workers, queues or contexts: every task is fetched at most      *)
(* MaxFetchRetries times, ends at most once, as "ok" after a successful    *)
(* fetch or as "error" after the last failed one, and the state files are  *)
(* removed only when nothing is left to end.                               *)
(***************************************************************************)
EXTENDS Naturals

CONSTANTS Tasks,            \* the chunk tasks of one Download call
          MaxFetchRetries   \* failed fetches after which a task is given up

VARIABLES outcome,   \* "none" until OnChunkComplete is called for the task
          retries,   \* failed fetches of the task so far
          cleaned    \* the state files have been removed

vars == <<outcome, retries, cleaned>>

Init == /\ outcome = [t \in Tasks |-> "none"]
        /\ retries = [t \in Tasks |-> 0]
        /\ cleaned = FALSE

Succeed(t) == /\ outcome[t] = "none"
              /\ outcome' = [outcome EXCEPT ![t] = "ok"]
              /\ UNCHANGED <<retries, cleaned>>

Retry(t) == /\ outcome[t] = "none"
            /\ retries[t] + 1 < MaxFetchRetries
            /\ retries' = [retries EXCEPT ![t] = @ + 1]
            /\ UNCHANGED <<outcome, cleaned>>

GiveUp(t) == /\ outcome[t] = "none"
             /\ retries[t] + 1 = MaxFetchRetries
             /\ retries' = [retries EXCEPT ![t] = @ + 1]
             /\ outcome' = [outcome EXCEPT ![t] = "error"]
             /\ UNCHANGED cleaned

Cleanup == /\ \A t \in Tasks : outcome[t] # "none"
           /\ cleaned' = TRUE
           /\ UNCHANGED <<outcome, retries>>

Next == \/ \E t \in Tasks : Succeed(t) \/ Retry(t) \/ GiveUp(t)
        \/ Cleanup

Spec == Init /\ [][Next]_vars
=============================================================================
