----------------------------- MODULE LeadOutcome ----------------------------
(***************************************************************************)
(* What a disposition means for a lead.  Two handlers decide it: the       *)
(* Preview controller's leadOutcome and the dialer's, each from the        *)
(* disposition's category; both then write the lead's status the same way. *)
(***************************************************************************)
EXTENDS Integers

CONSTANTS
  Dispositions,  \* what an agent may pick
  Configured,    \* those the tenant has a catalog row for
  Category       \* the category of the row, or of the built-in default

ASSUME DispositionsAssumption ==
  /\ Configured \subseteq Dispositions
  /\ Category \in [Dispositions -> {"success", "failure", "retry", "callback", "dnc"}]

Outcomes == {"retry", "dnc", "done"}

\* CampaignPreviewController.leadOutcome: a call that never connected is a
\* retry whatever was picked; the built-in default stands in for a missing row.
previewOutcome(disposition, completed) ==
  CASE ~completed                               -> "retry"
    [] completed /\ Category[disposition] = "dnc"   -> "dnc"
    [] completed /\ Category[disposition] = "retry" -> "retry"
    [] OTHER                                    -> "done"

\* DialerService.leadOutcome: only a catalog row counts.
dialerOutcome(disposition) ==
  CASE disposition \notin Configured                   -> "done"
    [] disposition \in Configured /\ Category[disposition] = "dnc" -> "dnc"
    [] disposition \in Configured /\ Category[disposition] \in {"retry", "callback"} -> "retry"
    [] OTHER                                           -> "done"

\* The status written: a retry goes back to new while attempts are left.
statusAfter(outcome, attempts, maxAttempts) ==
  CASE outcome = "dnc"                             -> "dnc"
    [] outcome = "retry" /\ attempts < maxAttempts -> "new"
    [] OTHER                                       -> "done"
=============================================================================
