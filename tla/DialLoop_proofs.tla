-------------------------- MODULE DialLoop_proofs ---------------------------
(***************************************************************************)
(* The dialer run keeps its contract, for any leads, agents, limits and    *)
(* pacing: proofs of DialLoop's type invariant, of its safety invariants,  *)
(* and that it implements RunContract.                                     *)
(*                                                                         *)
(* OneCallPerNumber and FinishedLeavesNoWork are not inductive: that no    *)
(* number is dialed twice rests on an item being queued, with a try left,  *)
(* while it waits; that a finished run has no work left rests on what the  *)
(* loop knows when it leaves the while.  IInv adds exactly that.           *)
(***************************************************************************)
EXTENDS DialLoop, Pacing_proofs, FiniteSetTheorems

\* A queued item has a try left and is in the list of what is to be launched.
QueuedIsListed ==
  \A l \in Leads : item[l] = "queued" =>
    /\ attempts[l] < MaxAttempts
    /\ \E i \in 1..Len(todo) : todo[i] = l

\* What holds once the loop has left the while, unless an error did it: past
\* settle nothing is in flight, and a run not told to stop has nothing to launch.
AfterWhile ==
  ~threw =>
    /\ pc \in {"drain", "unwire", "unload"} => active = {}
    /\ pc \in {"settle", "drain", "unwire", "unload"} /\ status # "stopping" =>
         todo = <<>> /\ active = {}

\* The status is final exactly when the loop is over.
EndedIsFinished == pc = "ended" <=> status \in DONE_STATES

IInv ==
  /\ TypeOK
  /\ DncNeverDialed
  /\ OneCallPerNumber
  /\ QueuedIsListed
  /\ AfterWhile
  /\ EndedIsFinished
  /\ FinishedLeavesNoWork

-----------------------------------------------------------------------------
\* The launch loop reads todo up to some n and dials at most `slots` items.
LEMMA ReachIsPrefix ==
  ASSUME NEW slots, NEW n \in Reach(slots)
  PROVE  n \in 0..Len(todo) /\ Cardinality(Dialable(n)) <= slots
BY DEF Reach

\* What is left of todo is a sequence of leads, and holds every entry past n.
LEMMA RestOfTodo ==
  ASSUME todo \in Seq(Leads), NEW n \in 0..Len(todo)
  PROVE  /\ SubSeq(todo, n + 1, Len(todo)) \in Seq(Leads)
         /\ Len(SubSeq(todo, n + 1, Len(todo))) = Len(todo) - n
         /\ \A i \in 1..Len(todo) : i > n =>
              SubSeq(todo, n + 1, Len(todo))[i - n] = todo[i]
OBVIOUS

\* Pushing l keeps every entry and adds l.
LEMMA PushedTodo ==
  ASSUME todo \in Seq(Leads), NEW l \in Leads
  PROVE  /\ Append(todo, l) \in Seq(Leads)
         /\ Len(Append(todo, l)) = Len(todo) + 1
         /\ \A i \in 1..Len(todo) : Append(todo, l)[i] = todo[i]
         /\ Append(todo, l)[Len(todo) + 1] = l
OBVIOUS

-----------------------------------------------------------------------------
\* The invariant holds initially.
LEMMA InitInv == Init => IInv
<1> SUFFICES ASSUME Init
             PROVE  IInv
  OBVIOUS
<1> USE LeadsAssumption, LimitsAssumption
<1>1. TypeOK
  <2>1. item \in [Leads -> ItemStatus] /\ attempts \in [Leads -> 0..MaxAttempts]
    BY DEF Init, ItemStatus
  <2>2. todo \in Seq(Leads) /\ caller \in [Leads -> CallerState]
    BY DEF Init, CallerState
  <2>3. QED
    BY <2>1, <2>2 DEF Init, TypeOK, RunStatus, LoopAt, DrainResult
<1>2. QueuedIsListed
  BY DEF Init, QueuedIsListed
<1>3. QED
  BY <1>1, <1>2 DEF Init, IInv, DncNeverDialed, OneCallPerNumber, AfterWhile,
                    EndedIsFinished, FinishedLeavesNoWork, DONE_STATES, active

\* The steps of the loop that dial nobody and touch no item.
LEMMA QuietLoopInv ==
  ASSUME IInv,
         PlanRead \/ PlanFails \/ TickDone \/ TickWindowClosed \/ TickPoll
           \/ Wake \/ Recheck \/ RecheckFails \/ Settled \/ Drain \/ Unwire
  PROVE  IInv'
<1> USE DEF loopVars, callVars, envVars
<1>1. TypeOK'
  BY DEF IInv, TypeOK, LoopAt, RunStatus, DrainResult, Calls, PlanRead, PlanFails, TickDone,
         TickWindowClosed, TickPoll, Wake, Recheck, RecheckFails, Settled, Drain,
         DrainEnds, Unwire
<1>2. UNCHANGED <<item, attempts, todo, ringing, saving>>
  BY DEF PlanRead, PlanFails, TickDone, TickWindowClosed, TickPoll, Wake, Recheck,
         RecheckFails, Settled, Drain, DrainEnds, Unwire
<1>3. DncNeverDialed' /\ OneCallPerNumber' /\ QueuedIsListed'
  BY <1>2 DEF IInv, DncNeverDialed, OneCallPerNumber, QueuedIsListed
<1>4. AfterWhile'
  BY <1>2 DEF IInv, AfterWhile, active, MoreToDo, PlanRead, PlanFails, TickDone,
         TickWindowClosed, TickPoll, Wake, Recheck, RecheckFails, Settled, Drain,
         DrainEnds, Unwire
<1>5. EndedIsFinished'
  BY DEF IInv, TypeOK, EndedIsFinished, DONE_STATES, PlanRead, PlanFails, TickDone,
         TickWindowClosed, TickPoll, Wake, Recheck, RecheckFails, Settled, Drain,
         DrainEnds, Unwire
<1>6. FinishedLeavesNoWork'
  BY <1>2 DEF IInv, TypeOK, EndedIsFinished, FinishedLeavesNoWork, active, DONE_STATES,
         PlanRead, PlanFails, TickDone, TickWindowClosed, TickPoll, Wake, Recheck,
         RecheckFails, Settled, Drain, DrainEnds, Unwire
<1>7. QED
  BY <1>1, <1>3, <1>4, <1>5, <1>6 DEF IInv

\* What agents, supervisors and customers do.
LEMMA EnvironmentInv ==
  ASSUME IInv, Environment
  PROVE  IInv'
<1> USE DEF loopVars, callVars, envVars
<1>1. UNCHANGED <<item, attempts, todo, ringing, saving, pc, threw, wanted, drained>>
  BY DEF Environment, AgentJoins, AgentLeaves, stop, SetCampaignActive, CallerMoves
<1>2. \/ status' = status
      \/ status = "running" /\ status' = "stopping"
  BY DEF Environment, AgentJoins, AgentLeaves, stop, SetCampaignActive, CallerMoves
<1>3. caller' \in [Leads -> CallerState] /\ roster' \subseteq Agents /\ campaign' \in BOOLEAN
  BY DEF IInv, TypeOK, CallerState, Environment, AgentJoins, AgentLeaves, stop,
         SetCampaignActive, CallerMoves
<1>4. TypeOK'
  BY <1>1, <1>2, <1>3 DEF IInv, TypeOK, RunStatus, Calls
<1>5. QED
  BY <1>1, <1>2, <1>4 DEF IInv, DncNeverDialed, OneCallPerNumber, QueuedIsListed, AfterWhile,
         EndedIsFinished, FinishedLeavesNoWork, DONE_STATES, active

-----------------------------------------------------------------------------
\* One tick's launches: the queued items among the entries read are dialed.
LEMMA PollReplyInv ==
  ASSUME IInv, PollReply
  PROVE  IInv'
<1> USE DEF loopVars, callVars, envVars
<1>1. PICK n \in 0..Len(todo) :
        /\ item' = [l \in Leads |-> IF l \in Dialable(n) THEN "dialing" ELSE item[l]]
        /\ attempts' = [l \in Leads |-> IF l \in Dialable(n) THEN attempts[l] + 1
                                                             ELSE attempts[l]]
        /\ ringing' = ringing \cup {<<l, attempts[l] + 1>> : l \in Dialable(n)}
        /\ todo' = SubSeq(todo, n + 1, Len(todo))
        /\ pc' \in {"race", "tick", "sleep", "recheck"}
  BY ReachIsPrefix DEF PollReply
<1>2. pc = "poll" /\ UNCHANGED <<status, threw, wanted, drained, saving, roster, campaign, caller>>
  BY DEF PollReply
<1>3. /\ todo' \in Seq(Leads)
      /\ Len(todo') = Len(todo) - n
      /\ \A i \in 1..Len(todo) : i > n => todo'[i - n] = todo[i]
  BY <1>1, RestOfTodo DEF IInv, TypeOK
<1>4. \A l \in Dialable(n) : l \in Leads /\ item[l] = "queued" /\ attempts[l] + 1 \in 1..MaxAttempts
  BY LimitsAssumption DEF Dialable, IInv, TypeOK, QueuedIsListed
<1>5. TypeOK'
  <2>1. item' \in [Leads -> ItemStatus]
    BY <1>1 DEF IInv, TypeOK, ItemStatus
  <2>2. attempts' \in [Leads -> 0..MaxAttempts]
    BY <1>1, <1>4 DEF IInv, TypeOK
  <2>3. ringing' \subseteq Calls
    BY <1>1, <1>4 DEF IInv, TypeOK, Calls
  <2>4. QED
    BY <1>1, <1>2, <1>3, <2>1, <2>2, <2>3 DEF IInv, TypeOK, LoopAt, Calls
<1>6. DncNeverDialed'
  BY <1>1, <1>4, LeadsAssumption DEF IInv, TypeOK, DncNeverDialed
<1>7. OneCallPerNumber'
  <2> SUFFICES ASSUME NEW c \in ringing'
               PROVE  item'[c[1]] = "dialing" /\ attempts'[c[1]] = c[2]
    BY DEF OneCallPerNumber
  <2>1. CASE c \in ringing
    <3>1. c[1] \in Leads /\ item[c[1]] = "dialing" /\ attempts[c[1]] = c[2]
      BY <2>1 DEF IInv, TypeOK, OneCallPerNumber, Calls
    <3>2. c[1] \notin Dialable(n)
      BY <1>4, <3>1
    <3>3. QED
      BY <1>1, <3>1, <3>2
  <2>2. CASE c \notin ringing
    <3>1. PICK l \in Dialable(n) : c = <<l, attempts[l] + 1>>
      BY <1>1, <2>2
    <3>2. QED
      BY <1>1, <1>4, <3>1
  <2>3. QED
    BY <2>1, <2>2
<1>8. QueuedIsListed'
  <2> SUFFICES ASSUME NEW l \in Leads, item'[l] = "queued"
               PROVE  attempts'[l] < MaxAttempts /\ \E i \in 1..Len(todo') : todo'[i] = l
    BY DEF QueuedIsListed
  <2>1. l \notin Dialable(n) /\ item[l] = "queued"
    BY <1>1
  <2>2. PICK i \in 1..Len(todo) : todo[i] = l
    BY <2>1 DEF IInv, QueuedIsListed
  <2>3. i > n
    BY <2>1, <2>2 DEF Dialable
  <2>4. i - n \in 1..Len(todo') /\ todo'[i - n] = l
    BY <1>3, <2>2, <2>3
  <2>5. attempts'[l] < MaxAttempts
    BY <1>1, <2>1 DEF IInv, QueuedIsListed
  <2>6. QED
    BY <2>4, <2>5
<1>9. AfterWhile' /\ EndedIsFinished' /\ FinishedLeavesNoWork'
  BY <1>1, <1>2 DEF IInv, AfterWhile, EndedIsFinished, FinishedLeavesNoWork, DONE_STATES
<1>10. QED
  BY <1>5, <1>6, <1>7, <1>8, <1>9 DEF IInv

\* The end of the run: nothing is in flight unless an error has been thrown.
LEMMA EndInv ==
  ASSUME IInv, End
  PROVE  IInv'
<1> USE DEF loopVars, callVars, envVars
<1>1. /\ pc = "unload" /\ pc' = "ended"
      /\ UNCHANGED <<attempts, todo, threw, wanted, drained, ringing, saving,
                     roster, campaign, caller>>
      /\ status' = (IF threw THEN "error"
                    ELSE IF status = "stopping" THEN "stopped" ELSE "done")
      /\ item' = IF status' = "stopped"
                   THEN [l \in Leads |-> IF item[l] \in {"queued", "dialing"}
                                           THEN "stopped" ELSE item[l]]
                   ELSE item
  BY DEF End
<1>2. ~threw => active = {}
  BY <1>1 DEF IInv, AfterWhile
<1>3. status' \in DONE_STATES
  BY <1>1 DEF DONE_STATES
<1>4. TypeOK'
  <2>1. item' \in [Leads -> ItemStatus]
    BY <1>1 DEF IInv, TypeOK, ItemStatus
  <2>2. QED
    BY <1>1, <1>3, <2>1 DEF IInv, TypeOK, RunStatus, LoopAt, Calls, DONE_STATES
<1>5. DncNeverDialed'
  BY <1>1, LeadsAssumption DEF IInv, TypeOK, DncNeverDialed
<1>6. OneCallPerNumber'
  <2>1. CASE threw
    BY <1>1, <2>1 DEF IInv, OneCallPerNumber
  <2>2. CASE ~threw
    BY <1>1, <1>2, <2>2 DEF OneCallPerNumber, active
  <2>3. QED
    BY <2>1, <2>2
<1>7. QueuedIsListed'
  BY <1>1 DEF IInv, TypeOK, QueuedIsListed
<1>8. AfterWhile' /\ EndedIsFinished'
  BY <1>1, <1>3 DEF AfterWhile, EndedIsFinished
<1>9. FinishedLeavesNoWork'
  <2>1. CASE status' = "done"
    <3>1. todo = <<>> /\ active = {} /\ item' = item
      BY <1>1, <2>1 DEF IInv, AfterWhile
    <3>2. \A l \in Leads : item[l] # "queued"
      BY <3>1 DEF IInv, QueuedIsListed
    <3>3. QED
      BY <1>1, <2>1, <3>1, <3>2 DEF FinishedLeavesNoWork, active
  <2>2. CASE status' = "stopped"
    BY <1>1, <1>2, <2>2 DEF FinishedLeavesNoWork, active
  <2>3. QED
    BY <2>1, <2>2 DEF FinishedLeavesNoWork
<1>10. QED
  BY <1>4, <1>5, <1>6, <1>7, <1>8, <1>9 DEF IInv

-----------------------------------------------------------------------------
\* A ringing call is the only one of its lead, and while it rings the lead is
\* dialing and the run has neither finished nor found its queue drained.
LEMMA RingingCall ==
  ASSUME IInv, NEW l \in Leads, NEW n \in 1..MaxAttempts, <<l, n>> \in ringing
  PROVE  /\ item[l] = "dialing" /\ attempts[l] = n /\ l \notin Dnc
         /\ \A c \in ringing \ {<<l, n>>} : c[1] \in Leads /\ c[1] # l
         /\ status \notin {"done", "stopped"}
         /\ pc \in {"drain", "unwire", "unload"} => threw
         /\ pc = "settle" /\ ~threw => status = "stopping"
<1>1. item[l] = "dialing" /\ attempts[l] = n
  BY DEF IInv, OneCallPerNumber
<1>2. l \notin Dnc
  BY <1>1 DEF IInv, DncNeverDialed
<1>3. \A c \in ringing \ {<<l, n>>} : c[1] \in Leads /\ c[1] # l
  <2> SUFFICES ASSUME NEW c \in ringing \ {<<l, n>>}
               PROVE  c[1] \in Leads /\ c[1] # l
    OBVIOUS
  <2>1. c \in Calls /\ attempts[c[1]] = c[2]
    BY DEF IInv, TypeOK, OneCallPerNumber
  <2>2. c = <<c[1], c[2]>> /\ c[1] \in Leads
    BY <2>1 DEF Calls
  <2>3. QED
    BY <1>1, <2>1, <2>2
<1>4. active # {}
  BY DEF active
<1>5. QED
  BY <1>1, <1>2, <1>3, <1>4 DEF IInv, FinishedLeavesNoWork, AfterWhile, TypeOK

\* The originate has returned: the call is saved, and its lead has a result.
LEMMA CallReturnsInv ==
  ASSUME IInv, NEW l \in Leads, NEW n \in 1..MaxAttempts,
         CallAnswered(l, n) \/ CallRetried(l, n) \/ CallFailed(l, n)
  PROVE  IInv'
<1> USE DEF loopVars, callVars, envVars
<1>1. /\ <<l, n>> \in ringing
      /\ ringing' = ringing \ {<<l, n>>} /\ saving' = saving \cup {<<l, n>>}
      /\ UNCHANGED <<status, attempts, pc, threw, wanted, drained, roster, campaign>>
  BY DEF CallAnswered, CallRetried, CallFailed
<1>2. PICK result \in {"answered", "failed", "queued"} :
        /\ item' = [item EXCEPT ![l] = result]
        /\ IF result = "queued" THEN attempts[l] < MaxAttempts /\ todo' = Append(todo, l)
                                ELSE todo' = todo
  BY DEF CallAnswered, CallRetried, CallFailed
<1>3. caller' \in [Leads -> CallerState]
  BY DEF IInv, TypeOK, CallerState, CallAnswered, CallRetried, CallFailed
<1>4. /\ item[l] = "dialing" /\ attempts[l] = n /\ l \notin Dnc
      /\ \A c \in ringing \ {<<l, n>>} : c[1] \in Leads /\ c[1] # l
      /\ status \notin {"done", "stopped"}
      /\ pc \in {"drain", "unwire", "unload"} => threw
      /\ pc = "settle" /\ ~threw => status = "stopping"
  BY <1>1, RingingCall
<1>5. todo' \in Seq(Leads) /\ \A i \in 1..Len(todo) : i \in 1..Len(todo') /\ todo'[i] = todo[i]
  <2>1. todo \in Seq(Leads)
    BY DEF IInv, TypeOK
  <2>2. CASE todo' = todo
    BY <2>1, <2>2
  <2>3. CASE todo' = Append(todo, l)
    <3>1. /\ Append(todo, l) \in Seq(Leads)
          /\ Len(Append(todo, l)) = Len(todo) + 1
          /\ \A i \in 1..Len(todo) : Append(todo, l)[i] = todo[i]
      BY <2>1, PushedTodo
    <3>2. QED
      BY <2>1, <2>3, <3>1
  <2>4. QED
    BY <1>2, <2>2, <2>3
<1>6. TypeOK'
  <2>1. item' \in [Leads -> ItemStatus]
    BY <1>2 DEF IInv, TypeOK, ItemStatus
  <2>2. ringing' \subseteq Calls /\ saving' \subseteq Calls
    BY <1>1 DEF IInv, TypeOK, Calls
  <2>3. QED
    BY <1>1, <1>3, <1>5, <2>1, <2>2 DEF IInv, TypeOK, Calls
<1>7. DncNeverDialed'
  BY <1>1, <1>2, <1>4, LeadsAssumption DEF IInv, TypeOK, DncNeverDialed
<1>8. OneCallPerNumber'
  BY <1>1, <1>2, <1>4 DEF IInv, TypeOK, OneCallPerNumber
<1>9. QueuedIsListed'
  <2> SUFFICES ASSUME NEW k \in Leads, item'[k] = "queued"
               PROVE  attempts'[k] < MaxAttempts /\ \E i \in 1..Len(todo') : todo'[i] = k
    BY DEF QueuedIsListed
  <2>1. CASE k = l
    <3>1. item'[l] = result
      BY <1>2 DEF IInv, TypeOK
    <3>2. attempts[l] < MaxAttempts /\ todo' = Append(todo, l)
      BY <1>2, <2>1, <3>1
    <3>3. Len(todo) + 1 \in 1..Len(todo') /\ todo'[Len(todo) + 1] = l
      BY <3>2, PushedTodo DEF IInv, TypeOK
    <3>4. QED
      BY <1>1, <2>1, <3>2, <3>3
  <2>2. CASE k # l
    <3>1. item[k] = "queued"
      BY <1>2, <2>2 DEF IInv, TypeOK
    <3>2. QED
      BY <1>1, <1>5, <3>1 DEF IInv, QueuedIsListed
  <2>3. QED
    BY <2>1, <2>2
<1>10. AfterWhile' /\ EndedIsFinished' /\ FinishedLeavesNoWork'
  BY <1>1, <1>4 DEF IInv, AfterWhile, EndedIsFinished, FinishedLeavesNoWork, DONE_STATES
<1>11. QED
  BY <1>6, <1>7, <1>8, <1>9, <1>10 DEF IInv

\* A launch rejects, or its attempt has been persisted: its promise settles.
LEMMA CallSettlesInv ==
  ASSUME IInv, NEW l \in Leads, NEW n \in 1..MaxAttempts,
         CallThrows(l, n) \/ CallSaved(l, n)
  PROVE  IInv'
<1> USE DEF loopVars, callVars, envVars
<1>1. /\ active' \subseteq active /\ ringing' \subseteq ringing /\ saving' \subseteq saving
      /\ UNCHANGED <<status, item, attempts, todo, wanted, drained, roster, campaign, caller>>
  BY DEF CallThrows, CallSaved, active
<1>2. \/ UNCHANGED <<pc, threw>>
      \/ pc = "race" /\ pc' = "unwire" /\ threw' = TRUE
      \/ pc = "race" /\ pc' = "tick" /\ threw' = threw
  BY DEF CallThrows, CallSaved
<1>3. TypeOK'
  BY <1>1, <1>2 DEF IInv, TypeOK, LoopAt, Calls
<1>4. DncNeverDialed' /\ OneCallPerNumber' /\ QueuedIsListed'
  BY <1>1 DEF IInv, DncNeverDialed, OneCallPerNumber, QueuedIsListed
<1>5. AfterWhile' /\ EndedIsFinished'
  BY <1>1, <1>2 DEF IInv, AfterWhile, EndedIsFinished, DONE_STATES
<1>6. FinishedLeavesNoWork'
  BY <1>1 DEF IInv, FinishedLeavesNoWork
<1>7. QED
  BY <1>3, <1>4, <1>5, <1>6 DEF IInv

-----------------------------------------------------------------------------
\* Every step preserves the invariant.
LEMMA StepInv == IInv /\ [Next]_vars => IInv'
<1> SUFFICES ASSUME IInv, [Next]_vars
             PROVE  IInv'
  OBVIOUS
<1>1. CASE UNCHANGED vars
  BY <1>1 DEF IInv, TypeOK, DncNeverDialed, OneCallPerNumber, QueuedIsListed, AfterWhile,
       EndedIsFinished, FinishedLeavesNoWork, active, vars, loopVars, callVars, envVars, Calls
<1>2. CASE Loop
  BY <1>2, QuietLoopInv, PollReplyInv, EndInv DEF Loop
<1>3. ASSUME NEW l \in Leads, NEW n \in 1..MaxAttempts, CallStep(l, n)
      PROVE  IInv'
  BY <1>3, CallReturnsInv, CallSettlesInv DEF CallStep
<1>4. CASE Environment
  BY <1>4, EnvironmentInv
<1>5. QED
  BY <1>1, <1>2, <1>3, <1>4 DEF Next

\* The strengthened invariant holds throughout every run.
THEOREM Invariance == Spec => []IInv
<1>1. Init => IInv
  BY InitInv
<1>2. IInv /\ [Next]_vars => IInv'
  BY StepInv
<1>3. QED
  BY <1>1, <1>2, PTL DEF Spec

\* Every variable keeps its type; in particular no item is tried more often than
\* maxAttempts, whatever its calls return and however they interleave.
THEOREM TypeCorrect == Spec => []TypeOK
BY Invariance, PTL DEF IInv

\* No number is dialed twice at once (DialerService.launch and its retries).
THEOREM NeverTwiceAtOnce == Spec => []OneCallPerNumber
BY Invariance, PTL DEF IInv

\* The run never dials a number that was on the DNC list when it started.
THEOREM DncRespected == Spec => []DncNeverDialed
BY Invariance, PTL DEF IInv

\* A run that ends as done has tried every lead to the end and has nothing in
\* flight; one that ends as stopped has closed every item.
THEOREM FinishedIsComplete == Spec => []FinishedLeavesNoWork
BY Invariance, PTL DEF IInv

-----------------------------------------------------------------------------
\* The concurrency cap. A tick adds at most `slots` calls to the active ones.

LEMMA ActiveIsFinite ==
  ASSUME TypeOK
  PROVE  IsFiniteSet(active) /\ Cardinality(active) \in Nat
<1>1. IsFiniteSet(1..MaxAttempts)
  BY FS_Interval, LimitsAssumption
<1>2. IsFiniteSet(Calls)
  BY <1>1, FS_Product, LeadsAssumption DEF Calls
<1>3. active \in SUBSET Calls
  BY DEF TypeOK, active
<1>4. IsFiniteSet(active)
  BY <1>2, <1>3, FS_Subset
<1>5. QED
  BY <1>4, FS_CardinalityType

LEMMA SlotsWithinCap ==
  ASSUME TypeOK, NEW free \in Nat, NEW waiting \in Nat, NEW ratio \in Nat
  PROVE  /\ slotsFor(free, waiting, ratio) \in Nat
         /\ slotsFor(free, waiting, ratio) <= AtLeast(0, Concurrency - Cardinality(active))
<1> DEFINE dialing == Cardinality(active)
<1>1. dialing \in Nat
  BY ActiveIsFinite
<1> HIDE DEF dialing
<1>2. /\ AtLeast(0, progressiveSlots(free, dialing, Concurrency)) \in Nat
      /\ AtLeast(0, progressiveSlots(free, dialing, Concurrency))
           <= AtLeast(0, Concurrency - dialing)
  BY <1>1, LimitsAssumption, ProgressiveWithinCap
<1>3. /\ computeOverdialSlots(free, dialing, waiting, ratio, Concurrency) \in Nat
      /\ computeOverdialSlots(free, dialing, waiting, ratio, Concurrency)
           <= AtLeast(0, Concurrency - dialing)
  <2>1. free \in Int /\ waiting \in Int /\ ratio \in Int /\ Concurrency \in Nat
    BY LimitsAssumption
  <2>2. QED
    BY <1>1, <2>1, OverdialWithinCap, Zenon
<1>4. AtLeast(0, computeOverdialSlots(free, dialing, waiting, ratio, Concurrency))
        = computeOverdialSlots(free, dialing, waiting, ratio, Concurrency)
  BY <1>3 DEF AtLeast
<1>5. CASE Progressive
  BY <1>2, <1>5 DEF slotsFor, dialing
<1>6. CASE ~Progressive
  BY <1>3, <1>4, <1>6 DEF slotsFor, dialing
<1>7. QED
  BY <1>5, <1>6

\* What a tick launches, as a set of calls and as a set of leads.
LEMMA LaunchesWithinSlots ==
  ASSUME TypeOK, PollReply
  PROVE  \E D \in SUBSET {l \in Leads : item[l] = "queued"} :
           /\ IsFiniteSet(D)
           /\ Cardinality(D) <= AtLeast(0, Concurrency - Cardinality(active))
           /\ item' = [l \in Leads |-> IF l \in D THEN "dialing" ELSE item[l]]
           /\ attempts' = [l \in Leads |-> IF l \in D THEN attempts[l] + 1 ELSE attempts[l]]
           /\ ringing' = ringing \cup {<<l, attempts[l] + 1>> : l \in D}
           /\ saving' = saving
<1>1. PICK free \in availableAgents, waiting \in queueWaitingCount, ratio \in Ratios :
        \E n \in Reach(slotsFor(free, waiting, ratio)) :
          /\ item' = [l \in Leads |-> IF l \in Dialable(n) THEN "dialing" ELSE item[l]]
          /\ attempts' = [l \in Leads |-> IF l \in Dialable(n) THEN attempts[l] + 1
                                                               ELSE attempts[l]]
          /\ ringing' = ringing \cup {<<l, attempts[l] + 1>> : l \in Dialable(n)}
  BY DEF PollReply
<1>2. PICK n \in Reach(slotsFor(free, waiting, ratio)) :
        /\ item' = [l \in Leads |-> IF l \in Dialable(n) THEN "dialing" ELSE item[l]]
        /\ attempts' = [l \in Leads |-> IF l \in Dialable(n) THEN attempts[l] + 1
                                                             ELSE attempts[l]]
        /\ ringing' = ringing \cup {<<l, attempts[l] + 1>> : l \in Dialable(n)}
  BY <1>1
<1>3. free \in Nat /\ waiting \in Nat /\ ratio \in Nat
  BY LimitsAssumption DEF availableAgents, queueWaitingCount
<1>4. slotsFor(free, waiting, ratio) \in Nat
      /\ slotsFor(free, waiting, ratio) <= AtLeast(0, Concurrency - Cardinality(active))
  BY <1>3, SlotsWithinCap
<1>5. Dialable(n) \in SUBSET {l \in Leads : item[l] = "queued"} /\ Dialable(n) \in SUBSET Leads
  BY DEF Dialable
<1>6. IsFiniteSet(Dialable(n)) /\ Cardinality(Dialable(n)) \in Nat
  BY <1>5, FS_Subset, FS_CardinalityType, LeadsAssumption
<1>7. Cardinality(Dialable(n)) <= slotsFor(free, waiting, ratio)
  BY ReachIsPrefix
<1>8. Cardinality(Dialable(n)) <= AtLeast(0, Concurrency - Cardinality(active))
  <2>1. AtLeast(0, Concurrency - Cardinality(active)) \in Int
    BY ActiveIsFinite, LimitsAssumption DEF AtLeast
  <2>2. QED
    BY <1>4, <1>6, <1>7, <2>1
<1>9. saving' = saving
  BY DEF PollReply
<1>10. QED
  BY <1>2, <1>5, <1>6, <1>8, <1>9

\* As many calls are added as leads are dialed.
LEMMA LaunchedCount ==
  ASSUME NEW D, IsFiniteSet(D)
  PROVE  /\ IsFiniteSet({<<l, attempts[l] + 1>> : l \in D})
         /\ Cardinality({<<l, attempts[l] + 1>> : l \in D}) <= Cardinality(D)
<1> DEFINE new == {<<l, attempts[l] + 1>> : l \in D}
           f   == [l \in D |-> <<l, attempts[l] + 1>>]
<1>1. f \in Surjection(D, new)
  BY DEF Surjection
<1>2. QED
  BY <1>1, FS_Surjection

LEMMA PollReplyCap ==
  ASSUME TypeOK, ConcurrencyCap, PollReply
  PROVE  ConcurrencyCap'
<1>1. PICK D \in SUBSET {l \in Leads : item[l] = "queued"} :
        /\ IsFiniteSet(D)
        /\ Cardinality(D) <= AtLeast(0, Concurrency - Cardinality(active))
        /\ ringing' = ringing \cup {<<l, attempts[l] + 1>> : l \in D}
        /\ saving' = saving
  BY LaunchesWithinSlots
<1> DEFINE new == {<<l, attempts[l] + 1>> : l \in D}
<1>2. IsFiniteSet(new) /\ Cardinality(new) <= Cardinality(D)
  BY <1>1, LaunchedCount
<1>3. Cardinality(new) \in Nat /\ Cardinality(D) \in Nat
  BY <1>1, <1>2, FS_CardinalityType
<1>4. IsFiniteSet(active) /\ Cardinality(active) \in Nat
  BY ActiveIsFinite
<1>5. active' = active \cup new
  BY <1>1 DEF active
<1>6. IsFiniteSet(active \cap new) /\ Cardinality(active \cap new) \in Nat
  BY <1>4, FS_Intersection, FS_CardinalityType
<1>7. Cardinality(active') = Cardinality(active) + Cardinality(new) - Cardinality(active \cap new)
  BY <1>2, <1>4, <1>5, FS_Union
<1>8. Cardinality(D) <= Concurrency - Cardinality(active)
  BY <1>1, <1>3, <1>4, LimitsAssumption DEF ConcurrencyCap, AtLeast
<1> HIDE DEF new
<1>9. QED
  BY <1>2, <1>3, <1>4, <1>6, <1>7, <1>8, LimitsAssumption DEF ConcurrencyCap

LEMMA OtherStepsCap ==
  ASSUME TypeOK, ConcurrencyCap, [Next]_vars, ~PollReply
  PROVE  ConcurrencyCap'
<1> USE DEF loopVars, callVars, envVars
<1>1. active' \subseteq active
  <2>1. CASE UNCHANGED vars
    BY <2>1 DEF vars, active
  <2>2. CASE Loop
    BY <2>2 DEF Loop, PlanRead, PlanFails, TickDone, TickWindowClosed, TickPoll, Wake,
         Recheck, RecheckFails, Settled, Drain, DrainEnds, Unwire, End, active
  <2>3. ASSUME NEW l \in Leads, NEW n \in 1..MaxAttempts, CallStep(l, n)
        PROVE  active' \subseteq active
    BY <2>3 DEF CallStep, CallAnswered, CallRetried, CallFailed, CallThrows, CallSaved, active
  <2>4. CASE Environment
    BY <2>4 DEF Environment, AgentJoins, AgentLeaves, stop, SetCampaignActive, CallerMoves, active
  <2>5. QED
    BY <2>1, <2>2, <2>3, <2>4 DEF Next
<1>2. IsFiniteSet(active) /\ Cardinality(active) \in Nat
  BY ActiveIsFinite
<1>3. IsFiniteSet(active') /\ Cardinality(active') <= Cardinality(active)
  BY <1>1, <1>2, FS_Subset
<1>4. Cardinality(active') \in Nat
  BY <1>3, FS_CardinalityType
<1>5. QED
  BY <1>2, <1>3, <1>4, LimitsAssumption DEF ConcurrencyCap

\* Never more calls in flight than the campaign's concurrency: not with stale
\* counts of free agents, not with any over-dial ratio, not while retries are
\* launched and earlier attempts are still being persisted.
THEOREM NeverOverConcurrency == Spec => []ConcurrencyCap
<1>1. Init => ConcurrencyCap
  <2> SUFFICES ASSUME Init PROVE ConcurrencyCap
    OBVIOUS
  <2>1. active = {}
    BY DEF Init, active
  <2>2. Cardinality(active) = 0
    BY <2>1, FS_EmptySet
  <2>3. QED
    BY <2>2, LimitsAssumption DEF ConcurrencyCap
<1>2. TypeOK /\ ConcurrencyCap /\ [Next]_vars => ConcurrencyCap'
  BY PollReplyCap, OtherStepsCap
<1>3. QED
  BY <1>1, <1>2, TypeCorrect, PTL DEF Spec

-----------------------------------------------------------------------------
\* The loop implements RunContract.

LEMMA LaunchIsTry ==
  ASSUME IInv, ConcurrencyCap, PollReply
  PROVE  Contract!Try
<1>1. PICK D \in SUBSET {l \in Leads : item[l] = "queued"} :
        /\ IsFiniteSet(D)
        /\ Cardinality(D) <= AtLeast(0, Concurrency - Cardinality(active))
        /\ item' = [l \in Leads |-> IF l \in D THEN "dialing" ELSE item[l]]
        /\ attempts' = [l \in Leads |-> IF l \in D THEN attempts[l] + 1 ELSE attempts[l]]
  BY LaunchesWithinSlots DEF IInv
<1>2. D \in SUBSET Leads /\ \A l \in D : item[l] = "queued" /\ attempts[l] < MaxAttempts
  BY DEF IInv, QueuedIsListed
<1>3. Cardinality(D) <= Concurrency
  <2>1. Cardinality(D) \in Nat /\ Cardinality(active) \in Nat
    BY <1>1, FS_CardinalityType, ActiveIsFinite DEF IInv
  <2>2. QED
    BY <1>1, <2>1, LimitsAssumption DEF AtLeast
<1>4. status \notin DONE_STATES /\ status' = status
  BY DEF PollReply, IInv, EndedIsFinished
<1>5. D \in {S \in SUBSET Leads : Cardinality(S) <= Concurrency}
  BY <1>2, <1>3
<1>6. QED
  BY <1>1, <1>2, <1>4, <1>5 DEF Contract!Try, DONE_STATES

LEMMA ReturnIsResult ==
  ASSUME IInv, NEW l \in Leads, NEW n \in 1..MaxAttempts,
         CallAnswered(l, n) \/ CallRetried(l, n) \/ CallFailed(l, n)
  PROVE  Contract!Result(l)
<1>1. <<l, n>> \in ringing /\ UNCHANGED <<status, attempts>>
  BY DEF CallAnswered, CallRetried, CallFailed
<1>2. item[l] = "dialing" /\ status \notin {"done", "stopped"}
  BY <1>1, RingingCall
<1>3. \E result \in {"answered", "failed", "queued"} :
        /\ result = "queued" => attempts[l] < MaxAttempts
        /\ item' = [item EXCEPT ![l] = result]
  BY DEF CallAnswered, CallRetried, CallFailed
<1>4. QED
  BY <1>1, <1>2, <1>3 DEF Contract!Result, DONE_STATES

LEMMA EndIsEnding ==
  ASSUME IInv, End
  PROVE  Contract!Done \/ Contract!Stopped \/ Contract!Error
<1>1. /\ UNCHANGED attempts
      /\ status' = (IF threw THEN "error"
                    ELSE IF status = "stopping" THEN "stopped" ELSE "done")
      /\ item' = IF status' = "stopped"
                   THEN [l \in Leads |-> IF item[l] \in {"queued", "dialing"}
                                           THEN "stopped" ELSE item[l]]
                   ELSE item
  BY DEF End
<1>2. status \notin DONE_STATES
  BY DEF End, IInv, EndedIsFinished
<1>3. CASE status' = "error"
  BY <1>1, <1>2, <1>3 DEF Contract!Error, DONE_STATES
<1>4. CASE status' = "stopped"
  <2>1. item' = [l \in Leads |-> IF item[l] \in Contract!Final THEN item[l] ELSE "stopped"]
    BY <1>1, <1>4 DEF IInv, TypeOK, ItemStatus, Contract!Final
  <2>2. QED
    BY <1>1, <1>2, <1>4, <2>1 DEF Contract!Stopped, DONE_STATES
<1>5. CASE status' = "done"
  <2>1. \A l \in Leads : item[l] # "queued"
    BY <1>5, <1>1, EndInv DEF IInv, FinishedLeavesNoWork
  <2>2. QED
    BY <1>1, <1>2, <1>5, <2>1 DEF Contract!Done, DONE_STATES
<1>6. QED
  BY <1>1, <1>3, <1>4, <1>5

\* Every step of the run is a step of the contract, or leaves it as it is.
LEMMA ContractStep ==
  IInv /\ ConcurrencyCap /\ [Next]_vars => [Contract!Next]_(Contract!vars)
<1> USE DEF loopVars, callVars, envVars
<1> SUFFICES ASSUME IInv, ConcurrencyCap, [Next]_vars
             PROVE  [Contract!Next]_(Contract!vars)
  OBVIOUS
<1>1. CASE UNCHANGED vars
  BY <1>1 DEF vars, Contract!vars
<1>2. CASE Loop
  <2>1. CASE PollReply
    BY <2>1, LaunchIsTry DEF Contract!Next
  <2>2. CASE End
    BY <2>2, EndIsEnding DEF Contract!Next
  <2>3. CASE PlanFails
    BY <2>3 DEF PlanFails, IInv, EndedIsFinished, Contract!Next, Contract!Error, DONE_STATES
  <2>4. CASE \/ PlanRead \/ TickDone \/ TickWindowClosed \/ TickPoll
             \/ Wake \/ Recheck \/ RecheckFails \/ Settled \/ Drain \/ Unwire
    <3>1. UNCHANGED <<item, attempts>>
      BY <2>4 DEF PlanRead, TickDone, TickWindowClosed, TickPoll, Wake, Recheck,
                  RecheckFails, Settled, Drain, DrainEnds, Unwire
    <3>2. status \notin DONE_STATES /\ status' \notin DONE_STATES
      BY <2>4 DEF IInv, EndedIsFinished, DONE_STATES, PlanRead, TickDone, TickWindowClosed,
                  TickPoll, Wake, Recheck, RecheckFails, Settled, Drain, DrainEnds, Unwire
    <3>3. QED
      BY <3>1, <3>2 DEF Contract!vars
  <2>5. QED
    BY <1>2, <2>1, <2>2, <2>3, <2>4 DEF Loop
<1>3. ASSUME NEW l \in Leads, NEW n \in 1..MaxAttempts, CallStep(l, n)
      PROVE  [Contract!Next]_(Contract!vars)
  <2>1. CASE CallAnswered(l, n) \/ CallRetried(l, n) \/ CallFailed(l, n)
    BY <2>1, ReturnIsResult DEF Contract!Next
  <2>2. CASE CallThrows(l, n) \/ CallSaved(l, n)
    BY <2>2 DEF CallThrows, CallSaved, Contract!vars
  <2>3. QED
    BY <1>3, <2>1, <2>2 DEF CallStep
<1>4. CASE Environment
  BY <1>4 DEF Environment, AgentJoins, AgentLeaves, stop, SetCampaignActive, CallerMoves,
              Contract!vars, DONE_STATES
<1>5. QED
  BY <1>1, <1>2, <1>3, <1>4 DEF Next

\* A run keeps its contract, for any number of leads and agents, any limits and
\* any pacing: DialerService.loop, with its awaits, retries, late results, stops
\* and errors, implements RunContract.
THEOREM ImplementsContract == Spec => KeepsContract
<1>1. Init => Contract!Init
  BY DEF Init, Contract!Init, DONE_STATES
<1>2. IInv /\ ConcurrencyCap /\ [Next]_vars => [Contract!Next]_(Contract!vars)
  BY ContractStep
<1>3. QED
  BY <1>1, <1>2, Invariance, NeverOverConcurrency, PTL DEF Spec, KeepsContract, Contract!Spec

\* The outcome of a number is final, whatever still comes in for it: a
\* consequence of the contract.
THEOREM OutcomesAreFinal == Spec => OutcomeIsFinal
<1>1. [Contract!Next]_(Contract!vars) /\ TypeOK
        => [\A l \in Leads : item[l] \in {"answered", "failed", "skipped", "stopped"}
                               => item'[l] = item[l]]_vars
  <2> SUFFICES ASSUME [Contract!Next]_(Contract!vars), TypeOK,
                      NEW l \in Leads, item[l] \in {"answered", "failed", "skipped", "stopped"}
               PROVE  item'[l] = item[l]
    OBVIOUS
  <2>1. CASE UNCHANGED Contract!vars
    BY <2>1 DEF Contract!vars
  <2>2. CASE Contract!Try
    BY <2>2 DEF Contract!Try
  <2>3. ASSUME NEW k \in Leads, Contract!Result(k)
        PROVE  item'[l] = item[l]
    BY <2>3 DEF Contract!Result, TypeOK
  <2>4. CASE Contract!Done \/ Contract!Stopped \/ Contract!Error
    BY <2>4 DEF Contract!Done, Contract!Stopped, Contract!Error, Contract!Final
  <2>5. QED
    BY <2>1, <2>2, <2>3, <2>4 DEF Contract!Next
<1>2. QED
  BY <1>1, TypeCorrect, ImplementsContract, PTL DEF KeepsContract, Contract!Spec, OutcomeIsFinal

\* A finished run stays finished and dials nobody, and one told to stop does not
\* go on: late stops, leaves, joins and results do not revive it.
THEOREM NeverRevived == Spec => FinishedStaysFinished
<1> USE DEF loopVars, callVars, envVars
<1>1. IInv /\ [Next]_vars
        => [/\ status \in DONE_STATES => status' = status /\ attempts' = attempts
            /\ status = "stopping" => status' \in {"stopping", "stopped", "error"}]_vars
  <2> SUFFICES ASSUME IInv, Next
               PROVE  /\ status \in DONE_STATES => status' = status /\ attempts' = attempts
                      /\ status = "stopping" => status' \in {"stopping", "stopped", "error"}
    OBVIOUS
  <2>1. CASE Loop
    BY <2>1 DEF IInv, EndedIsFinished, DONE_STATES, Loop, PlanRead, PlanFails, TickDone,
         TickWindowClosed, TickPoll, PollReply, Wake, Recheck, RecheckFails, Settled, Drain,
         DrainEnds, Unwire, End
  <2>2. ASSUME NEW l \in Leads, NEW n \in 1..MaxAttempts, CallStep(l, n)
        PROVE  UNCHANGED <<status, attempts>>
    BY <2>2 DEF CallStep, CallAnswered, CallRetried, CallFailed, CallThrows, CallSaved
  <2>3. CASE Environment
    BY <2>3 DEF Environment, AgentJoins, AgentLeaves, stop, SetCampaignActive, CallerMoves,
         DONE_STATES
  <2>4. QED
    BY <2>1, <2>2, <2>3 DEF Next
<1>2. QED
  BY <1>1, Invariance, PTL DEF Spec, FinishedStaysFinished
=============================================================================
