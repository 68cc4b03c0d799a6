---------------------------- MODULE RunContract -----------------------------
(***************************************************************************)
(* What a dialer run promises about its leads, whatever the pacing, the    *)
(* agents and FreeSWITCH do: each lead is tried at most MaxAttempts times, *)
(* one try at a time, and a try ends in an answer, a failure or another    *)
(* turn; what is on the DNC list is not tried; a run that ends by itself   *)
(* has no lead waiting, and one that is stopped leaves none open.          *)
(*                                                                         *)
(* After an error the tries in flight still bring in their results; that   *)
(* is the one thing that happens to a closed run.                          *)
(***************************************************************************)
EXTENDS Naturals

CONSTANTS
  Leads,       \* the leads of the run
  Excluded,    \* those on the DNC list
  MaxAttempts, \* tries per lead
  Batches      \* the sets of leads that may be tried together

VARIABLES
  item,        \* where each lead stands
  tries,       \* how often it has been tried
  ending       \* "open", or how the run ended

vars == <<item, tries, ending>>

Final == {"answered", "failed", "skipped", "stopped"}

Init ==
  /\ item = [l \in Leads |-> IF l \in Excluded THEN "skipped" ELSE "queued"]
  /\ tries = [l \in Leads |-> 0]
  /\ ending = "open"

\* A tick starts tries of some waiting leads.
Try ==
  /\ ending = "open"
  /\ \E S \in Batches :
       /\ \A l \in S : item[l] = "queued" /\ tries[l] < MaxAttempts
       /\ item' = [l \in Leads |-> IF l \in S THEN "dialing" ELSE item[l]]
       /\ tries' = [l \in Leads |-> IF l \in S THEN tries[l] + 1 ELSE tries[l]]
  /\ UNCHANGED ending

\* A try ends.
Result(l) ==
  /\ item[l] = "dialing"
  /\ ending \in {"open", "error"}
  /\ \E result \in {"answered", "failed", "queued"} :
       /\ result = "queued" => tries[l] < MaxAttempts
       /\ item' = [item EXCEPT ![l] = result]
  /\ UNCHANGED <<tries, ending>>

Done ==
  /\ ending = "open"
  /\ \A l \in Leads : item[l] # "queued"
  /\ ending' = "done"
  /\ UNCHANGED <<item, tries>>

Stopped ==
  /\ ending = "open"
  /\ ending' = "stopped"
  /\ item' = [l \in Leads |-> IF item[l] \in Final THEN item[l] ELSE "stopped"]
  /\ UNCHANGED tries

Error ==
  /\ ending = "open"
  /\ ending' = "error"
  /\ UNCHANGED <<item, tries>>

Next == Try \/ (\E l \in Leads : Result(l)) \/ Done \/ Stopped \/ Error

Spec == Init /\ [][Next]_vars
=============================================================================
