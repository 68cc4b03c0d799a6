----------------------------- MODULE MCBrowser ------------------------------
(***************************************************************************)
(* Small instances of what runs in a browser: the softphone with its call  *)
(* and its log, the recordings of preview calls, the signed-in profile,    *)
(* the bell with its notifications, and two Console tabs of an agent who   *)
(* plays in to a campaign.  They share no state: the one chosen at the     *)
(* start moves, the others stay as they begin.                             *)
(***************************************************************************)
EXTENDS MCRunRoster, Session, Recording, Notifications

CONSTANTS u1, o1

MCUsers     == {u1}
MCStaff     == {o1}
MCGrants    == {{}, {"softphone"}, {"live"}}
MCProfiles  == {{"queues", "campaigns"}, {"logs"}}

VARIABLE part   \* the component that moves

BrowserVars == <<part, softphoneVars, sessionVars, vars, recordingVars, bellVars>>

BrowserInit ==
  /\ part \in {"softphone", "session", "roster", "recording", "bell"}
  /\ SoftphoneInit /\ SessionInit /\ Init /\ RecordingInit /\ BellInit
  /\ part # "bell" => granted = {"logs"}

BrowserNext ==
  \/ /\ part = "softphone" /\ SoftphoneNext
     /\ UNCHANGED <<part, sessionVars, vars, recordingVars, bellVars>>
  \/ /\ part = "session" /\ SessionNext
     /\ UNCHANGED <<part, softphoneVars, vars, recordingVars, bellVars>>
  \/ /\ part = "roster" /\ Next
     /\ UNCHANGED <<part, softphoneVars, sessionVars, recordingVars, bellVars>>
  \/ /\ part = "recording" /\ RecordingNext
     /\ UNCHANGED <<part, softphoneVars, sessionVars, vars, bellVars>>
  \/ /\ part = "bell" /\ BellNext
     /\ UNCHANGED <<part, softphoneVars, sessionVars, vars, recordingVars>>

\* The fairness of SoftphoneSpec, of SessionSpec and of RunRoster's FairSpec.
BrowserSpec ==
  /\ BrowserInit /\ [][BrowserNext]_BrowserVars
  /\ WF_softphoneVars(part = "softphone" /\ Progress)
  /\ WF_sessionVars(part = "session" /\ PageOpens)
  /\ WF_sessionVars(part = "session" /\ Answered)
  /\ \A s \in Sessions : WF_vars(part = "roster" /\ RequestStep(s)) /\ WF_vars(part = "roster" /\ ParticipationPoll(s))
  /\ \A r \in Runs :
       /\ WF_vars(part = "roster" /\ (Drained(r) \/ UnwireTier(r) \/ RunEnds(r)))
       /\ WF_vars(part = "roster" /\ run[r].status = "stopping" /\ LoopLeavesWhile(r))

\* Only what moves can leave its type.
BrowserTypeOK ==
  /\ part = "softphone" => SoftphoneTypeOK
  /\ part = "session" => SessionTypeOK
  /\ part = "roster" => TypeOK
  /\ part = "recording" => RecordingTypeOK
  /\ part = "bell" => BellTypeOK

\* Softphone's ComesBack, where the softphone is what moves: a phone that is connecting
\* gets done with it, whatever fails on the way, unless the page is left.
PhoneComesBack == part = "softphone" => ComesBack

\* RunRoster's StopsArrive, where the roster is what moves.
RosterStopsArrive == part = "roster" => StopsArrive
=============================================================================
