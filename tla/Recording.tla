----------------------------- MODULE Recording -----------------------------
(***************************************************************************)
(* The recording of an agent's calls in a preview campaign (CallProvider,  *)
(* telephony.service): once a call is answered the Console asks the server *)
(* to record it; the server looks for the agent's channel, starts the      *)
(* recording and answers with its file, which the Console keeps in         *)
(* recordFileRef and sends along with the call's log and its disposition.  *)
(*                                                                         *)
(* Each step is an await of its own, while the agent goes on to the next   *)
(* call.  A file is the call it records; 0 stands for none.  Softphone has *)
(* the rest of the Console.                                                *)
(***************************************************************************)
EXTENDS Softphone

CONSTANT MaxTaped   \* bound on the calls

ASSUME RecordingAssumption == MaxTaped \in Nat

VARIABLES
  live,        \* the call on the agent's phone, or 0
  onAnswer,    \* has it been answered?
  taped,       \* calls so far; the last one is on the Console
  asked,       \* each call's request: its next await and the call it has found
  recordFile,  \* recordFileRef
  advancing,   \* a disposition is sent, or the next lead fetched
  logged,      \* each call's log: is it there, has it its disposition, its file
  mixed,       \* auxiliary: calls that began while something of an earlier one was pending
  answeredIn   \* auxiliary: calls whose file arrived before their disposition was sent

phoneLine     == <<live, onAnswer, taped>>
recordingVars == <<phoneLine, asked, recordFile, advancing, logged, mixed, answeredIn>>

Taped   == 1..MaxTaped
File    == 0..MaxTaped
NotMade == [at |-> "none", found |-> 0]
NoLog   == [made |-> FALSE, disposed |-> FALSE, rec |-> 0]

RecordingTypeOK ==
  /\ live \in File /\ taped \in File /\ recordFile \in File
  /\ onAnswer \in BOOLEAN /\ advancing \in BOOLEAN
  /\ asked \in [Taped -> [at : {"none", "channel", "record", "answer"}, found : File]]
  /\ logged \in [Taped -> [made : BOOLEAN, disposed : BOOLEAN, rec : File]]
  /\ mixed \subseteq Taped /\ answeredIn \subseteq Taped

RecordingInit ==
  /\ live = 0 /\ onAnswer = FALSE /\ taped = 0
  /\ asked = [c \in Taped |-> NotMade] /\ recordFile = 0 /\ advancing = FALSE
  /\ logged = [c \in Taped |-> NoLog] /\ mixed = {} /\ answeredIn = {}

-----------------------------------------------------------------------------
\* A call begins; what is pending of an earlier one is a file it has left, a request, or
\* the next lead.
CallBegins(file) ==
  /\ live = 0 /\ taped < MaxTaped
  /\ live' = taped + 1 /\ taped' = taped + 1 /\ onAnswer' = FALSE
  /\ recordFile' = file
  /\ mixed' = mixed \cup IF file # 0 \/ advancing \/ \E c \in Taped : asked[c] # NotMade
                         THEN {taped + 1} ELSE {}
  /\ UNCHANGED <<asked, advancing, logged, answeredIn>>

\* The agent dials, which forgets the file ...
dialsLead == CallBegins(0)

\* ... or is called, which does not.
callComesIn == CallBegins(recordFile)

callAnswered ==
  /\ live # 0 /\ ~onAnswer
  /\ onAnswer' = TRUE
  /\ asked' = [asked EXCEPT ![live].at = "channel"]
  /\ UNCHANGED <<live, taped, recordFile, advancing, logged, mixed, answeredIn>>

\* The log of a call that ends carries the file there is by then.
callOver ==
  /\ live # 0
  /\ live' = 0 /\ onAnswer' = FALSE
  /\ logged' = [logged EXCEPT ![live] = [@ EXCEPT !.made = TRUE, !.rec = recordFile]]
  /\ UNCHANGED <<taped, asked, recordFile, advancing, mixed, answeredIn>>

-----------------------------------------------------------------------------
(* POST telephony/record/start *)

\* The agent's channel, of whatever call is on by now; without one the request fails.
findsChannel(c) ==
  /\ asked[c].at = "channel"
  /\ asked' = [asked EXCEPT ![c] = IF live = 0 THEN NotMade ELSE [at |-> "record", found |-> live]]
  /\ UNCHANGED <<phoneLine, recordFile, advancing, logged, mixed, answeredIn>>

\* uuid_record, of a channel that may be gone.
startRecording(c) ==
  /\ asked[c].at = "record"
  /\ asked' = [asked EXCEPT ![c] = IF live = @.found THEN [@ EXCEPT !.at = "answer"] ELSE NotMade]
  /\ UNCHANGED <<phoneLine, recordFile, advancing, logged, mixed, answeredIn>>

\* The answer, or one that is lost; the Console takes the file whatever call it shows.
fileArrives(c) ==
  /\ asked[c].at = "answer"
  /\ asked' = [asked EXCEPT ![c] = NotMade]
  /\ \/ /\ recordFile' = asked[c].found
        /\ answeredIn' = IF advancing \/ logged[c].disposed THEN answeredIn ELSE answeredIn \cup {c}
     \/ UNCHANGED <<recordFile, answeredIn>>
  /\ UNCHANGED <<phoneLine, advancing, logged, mixed>>

-----------------------------------------------------------------------------
\* The disposition of the call on the Console, which ends it if it is still on, carries
\* the file there is, if there is one.
disposesCall ==
  /\ taped # 0 /\ ~advancing /\ ~logged[taped].disposed
  /\ live' = 0 /\ onAnswer' = FALSE
  /\ logged' = [logged EXCEPT ![taped] = [made |-> TRUE, disposed |-> TRUE,
                                          rec |-> IF recordFile = 0 THEN @.rec ELSE recordFile]]
  /\ advancing' = TRUE
  /\ UNCHANGED <<taped, asked, recordFile, mixed, answeredIn>>

\* The next lead is on the Console, without a file; or it could not be had.
nextLeadArrives ==
  /\ advancing /\ advancing' = FALSE
  /\ recordFile' \in {0, recordFile}
  /\ UNCHANGED <<phoneLine, asked, logged, mixed, answeredIn>>

RecordingNext ==
  \/ dialsLead \/ callComesIn \/ callAnswered \/ callOver
  \/ \E c \in Taped : findsChannel(c) \/ startRecording(c) \/ fileArrives(c)
  \/ disposesCall \/ nextLeadArrives

RecordingSpec == RecordingInit /\ [][RecordingNext]_recordingVars

-----------------------------------------------------------------------------
\* A log has the recording of its own call or none, and has it when the file arrived
\* before the disposition was sent.  Mixed are the calls that began with the file of an
\* earlier call still there, its request still under way, or the next lead not yet there.
RecordingOfItsCall ==
  \A c \in Taped \ mixed :
    /\ logged[c].rec \in {0, c}
    /\ logged[c].disposed /\ c \in answeredIn => logged[c].rec = c

\* Every call has one log, with its own disposition and its own recording on it.
LogsAreTrue == LogsOfTheirCalls /\ RecordingOfItsCall
=============================================================================
