-------------------------- MODULE RunRoster_proofs --------------------------
(***************************************************************************)
(* The runs and rosters of agent-dialed campaigns, for any tabs, agents    *)
(* and number of runs: proofs of RunRoster's type invariant, of NoIdleRun  *)
(* and of RosterStaysTrue.                                                 *)
(*                                                                         *)
(* NoIdleRun holds whatever overlaps, and is inductive with Basics: what a *)
(* suspended request holds at each await.  RosterStaysTrue speaks of the   *)
(* moments between requests, so IInv says where roster, tiers and          *)
(* FreeSWITCH stand inside one too (Calm).  As long as nothing overlaps    *)
(* there is one request at most, it works on the campaign's current run,   *)
(* which is not being torn down, and every run that is not at work has     *)
(* been emptied.                                                           *)
(***************************************************************************)
EXTENDS RunRoster, SequenceTheorems, WellFoundedInduction, TLAPS

RunRec == [status : {"running", "stopping"} \cup DONE_STATES, queueLoaded : BOOLEAN,
           tiers : Seq(Exts), joinedAgents : SUBSET Exts, loop : LoopPhase,
           dels : Seq(Exts), threw : BOOLEAN]
ReqRec == [at : ReqAt, run : 0..MaxRuns, fresh : BOOLEAN, idx : Nat]
Waiter == ({"req"} \X Sessions) \cup ({"run"} \X Runs)

\* What a request holds while it is suspended.
RequestShape ==
  \A s \in Sessions :
    /\ req[s].at \in {"idle", "starting"} => req[s].run = 0
    /\ req[s].at \notin {"idle", "starting"} => req[s].run \in 1..made
    /\ req[s].at \in {"starting", "loading"} => req[s].fresh
    /\ req[s].at = "deleting" => ~req[s].fresh

\* A run is registered when it is made, and untouched before.
RunsInOrder ==
  /\ current <= made
  /\ \A r \in Runs : r > made => run[r] = NewRun

Basics ==
  /\ TypeOK
  /\ RequestShape
  /\ RunsInOrder
  /\ NoIdleRun

\* As long as nothing overlaps.  One request is in flight at most, and no run is
\* being torn down meanwhile.
OneAtATime == \A s, t \in Sessions : req[s].at # "idle" /\ req[t].at # "idle" => s = t

NotTearingDown ==
  \A s \in Sessions, r \in Runs : req[s].at # "idle" => run[r].loop # "unwiring"

\* Only the registered run is at work, and a run has its final status exactly
\* when its loop has ended.
Working == {"dialing", "draining"}

OnlyCurrent ==
  \A r \in Runs : run[r].loop \in Working \cup {"unwiring"} => r = current

EndedIsDone == \A r \in Runs : run[r].status \in DONE_STATES <=> run[r].loop = "ended"

\* Where a request is suspended: it works on the registered run, which dials
\* unless the request made it, a joining agent is not on the roster yet, and a
\* leaving agent's tier is still where findIndex saw it.
Waits == {"loading", "naming", "adding", "arming", "deleting"}

Awaits(s) ==
  /\ req[s].at = "starting" => \A r \in Runs : run[r].loop \in {"none", "ended"}
  /\ req[s].at \in Waits =>
       /\ req[s].run = current
       /\ run[current].loop \in (IF req[s].fresh THEN {"none"} ELSE Working)
  /\ req[s].at \in {"naming", "adding", "arming"} => ExtOf[s] \notin run[current].joinedAgents
  /\ req[s].at = "deleting" =>
       /\ req[s].idx \in 1..Len(run[current].tiers)
       /\ run[current].tiers[req[s].idx] = ExtOf[s]

\* A run's lists in each of its phases.
ListsMatch(r) ==
  /\ run[r].loop \notin Working => run[r].tiers = <<>> /\ run[r].joinedAgents = {}
  /\ run[r].loop # "unwiring" => run[r].dels = <<>>
  /\ run[r].loop \in Working =>
       InSeq(run[r].tiers) = run[r].joinedAgents /\ NoDuplicates(run[r].tiers)
  /\ NoDuplicates(run[r].dels)

\* FreeSWITCH has the tiers the registered run lists or has yet to delete, and
\* the one of an agent whose status is being set.
Arming == {e \in Exts : \E s \in Sessions : req[s].at = "arming" /\ ExtOf[s] = e}

TiersOf(r) == IF r = 0 THEN {} ELSE InSeq(run[r].tiers) \cup InSeq(run[r].dels)

Calm ==
  /\ OneAtATime
  /\ NotTearingDown
  /\ OnlyCurrent
  /\ EndedIsDone
  /\ \A s \in Sessions : Awaits(s)
  /\ \A r \in Runs : ListsMatch(r)
  /\ fsTier = TiersOf(current) \cup Arming

IInv == Basics /\ (~raced => Calm)

-----------------------------------------------------------------------------
\* Sequences of extensions.

\* Every non-empty set of numbers has a smallest.
LEMMA NatMin ==
  ASSUME NEW T \in SUBSET Nat, T # {}
  PROVE  \E x \in T : \A y \in T : x <= y
<1>1. \E x \in T : \A y \in T : ~ (<<y, x>> \in OpToRel(<, Nat))
  BY NatLessThanWellFounded, WFMin, Zenon
<1>2. \E x \in T : \A y \in T : ~ (y < x)
  BY <1>1, Zenon DEF OpToRel
<1>3. QED
  BY <1>2

\* findIndex returns the place of an entry, if there is one.
LEMMA FirstIndexFinds ==
  ASSUME NEW t \in Seq(Exts), NEW e
  PROVE  /\ FirstIndex(t, e) \in Nat
         /\ e \in InSeq(t) => FirstIndex(t, e) \in 1..Len(t) /\ t[FirstIndex(t, e)] = e
         /\ e \notin InSeq(t) => FirstIndex(t, e) = 0
<1>1. CASE e \in InSeq(t)
  <2> DEFINE T == {i \in 1..Len(t) : t[i] = e}
  <2>1. T \in SUBSET Nat /\ T # {}
    BY <1>1 DEF InSeq
  <2>2. PICK x \in T : \A y \in T : x <= y
    BY <2>1, NatMin
  <2>3. x \in 1..Len(t) /\ t[x] = e /\ \A j \in 1..(x - 1) : t[j] # e
    BY <2>2
  <2>4. FirstIndex(t, e) \in 1..Len(t) /\ t[FirstIndex(t, e)] = e
    BY <1>1, <2>3 DEF FirstIndex
  <2>5. QED
    BY <1>1, <2>4
<1>2. CASE e \notin InSeq(t)
  BY <1>2 DEF FirstIndex
<1>3. QED
  BY <1>1, <1>2

\* A push adds one entry, and no duplicate if it was not there.
LEMMA PushedTier ==
  ASSUME NEW t \in Seq(Exts), NEW e \in Exts
  PROVE  /\ Append(t, e) \in Seq(Exts) /\ Append(t, e) # <<>>
         /\ InSeq(Append(t, e)) = InSeq(t) \cup {e}
         /\ NoDuplicates(t) /\ e \notin InSeq(t) => NoDuplicates(Append(t, e))
<1>1. /\ Append(t, e) \in Seq(Exts) /\ Len(Append(t, e)) = Len(t) + 1
      /\ \A i \in 1..Len(t) : Append(t, e)[i] = t[i]
      /\ Append(t, e)[Len(t) + 1] = e
  OBVIOUS
<1>2. InSeq(Append(t, e)) = InSeq(t) \cup {e}
  BY <1>1 DEF InSeq
<1>3. QED
  BY <1>1, <1>2 DEF InSeq, NoDuplicates

\* Without duplicates, dropping the head or splicing one entry out drops that agent.
LEMMA DroppedTier ==
  ASSUME NEW t \in Seq(Exts), t # <<>>
  PROVE  /\ Tail(t) \in Seq(Exts) /\ Head(t) \in Exts
         /\ NoDuplicates(t) => /\ NoDuplicates(Tail(t))
                               /\ InSeq(Tail(t)) = InSeq(t) \ {Head(t)}
<1>1. /\ Tail(t) \in Seq(Exts) /\ Len(Tail(t)) = Len(t) - 1 /\ Len(t) >= 1
      /\ Head(t) = t[1] /\ Head(t) \in Exts
      /\ \A i \in 1..Len(Tail(t)) : Tail(t)[i] = t[i + 1]
  OBVIOUS
<1>2. ASSUME NoDuplicates(t)
      PROVE  NoDuplicates(Tail(t)) /\ InSeq(Tail(t)) = InSeq(t) \ {Head(t)}
  <2>1. NoDuplicates(Tail(t))
    BY <1>1, <1>2 DEF NoDuplicates
  <2>2. ASSUME NEW e \in InSeq(t), e # Head(t)
        PROVE  e \in InSeq(Tail(t))
    <3>1. PICK i \in 1..Len(t) : t[i] = e
      BY <2>2 DEF InSeq
    <3>2. i - 1 \in 1..Len(Tail(t)) /\ Tail(t)[i - 1] = e
      BY <1>1, <2>2, <3>1
    <3>3. QED
      BY <3>2 DEF InSeq
  <2>3. ASSUME NEW e \in InSeq(Tail(t))
        PROVE  e \in InSeq(t) /\ e # Head(t)
    <3>1. PICK i \in 1..Len(Tail(t)) : Tail(t)[i] = e
      BY <2>3 DEF InSeq
    <3>2. i + 1 \in 1..Len(t) /\ t[i + 1] = e /\ i + 1 # 1 /\ 1 \in 1..Len(t)
      BY <1>1, <3>1
    <3>3. QED
      BY <1>1, <1>2, <3>2 DEF InSeq, NoDuplicates
  <2>4. QED
    BY <2>1, <2>2, <2>3
<1>3. QED
  BY <1>1, <1>2

LEMMA SplicedTier ==
  ASSUME NEW t \in Seq(Exts), NEW i \in Nat
  PROVE  /\ SpliceOne(t, i) \in Seq(Exts)
         /\ NoDuplicates(t) /\ i \in 1..Len(t) => /\ NoDuplicates(SpliceOne(t, i))
                                                  /\ InSeq(SpliceOne(t, i)) = InSeq(t) \ {t[i]}
<1>1. CASE i \notin 1..Len(t)
  BY <1>1 DEF SpliceOne
<1>2. CASE i \in 1..Len(t)
  <2> DEFINE a == SubSeq(t, 1, i - 1)
             b == SubSeq(t, i + 1, Len(t))
  <2>1. /\ a \in Seq(Exts) /\ Len(a) = i - 1 /\ \A k \in 1..(i - 1) : a[k] = t[k]
        /\ b \in Seq(Exts) /\ Len(b) = Len(t) - i /\ \A k \in 1..(Len(t) - i) : b[k] = t[i + k]
    BY <1>2
  <2>2. SpliceOne(t, i) = a \o b
    BY <1>2 DEF SpliceOne
  <2> HIDE DEF a, b
  <2> DEFINE c == a \o b
  <2>3. /\ c \in Seq(Exts) /\ Len(c) = Len(a) + Len(b)
        /\ \A k \in 1..Len(a) + Len(b) : c[k] = IF k <= Len(a) THEN a[k] ELSE b[k - Len(a)]
    BY <2>1, ConcatProperties
  <2> HIDE DEF c
  <2>4. /\ c \in Seq(Exts) /\ Len(c) = Len(t) - 1 /\ Len(t) \in Nat
        /\ \A k \in 1..(i - 1) : c[k] = t[k]
        /\ \A k \in i..(Len(t) - 1) : c[k] = t[k + 1]
    <3>1. ASSUME NEW k \in 1..(i - 1)
          PROVE  c[k] = t[k]
      <4>1. k \in 1..Len(a) + Len(b) /\ k <= Len(a)
        BY <1>2, <2>1
      <4>2. c[k] = a[k]
        BY <2>3, <4>1
      <4>3. QED
        BY <2>1, <4>2
    <3>2. ASSUME NEW k \in i..(Len(t) - 1)
          PROVE  c[k] = t[k + 1]
      <4>1. k - (i - 1) \in 1..(Len(t) - i) /\ i + (k - (i - 1)) = k + 1
        BY <1>2
      <4>2. b[k - (i - 1)] = t[k + 1]
        BY <2>1, <4>1
      <4>3. k \in 1..Len(a) + Len(b) /\ ~(k <= Len(a)) /\ k - Len(a) = k - (i - 1)
        BY <1>2, <2>1
      <4>4. c[k] = b[k - Len(a)]
        BY <2>3, <4>3
      <4>5. QED
        BY <4>2, <4>3, <4>4
    <3>3. QED
      BY <1>2, <2>1, <2>3, <3>1, <3>2
  <2>5. ASSUME NoDuplicates(t)
        PROVE  NoDuplicates(c) /\ InSeq(c) = InSeq(t) \ {t[i]}
    <3>1. NoDuplicates(c)
      BY <1>2, <2>4, <2>5 DEF NoDuplicates
    <3>2. ASSUME NEW e \in InSeq(t), e # t[i]
          PROVE  e \in InSeq(c)
      <4>1. PICK k \in 1..Len(t) : t[k] = e
        BY <3>2 DEF InSeq
      <4>2. CASE k < i
        BY <1>2, <2>4, <4>1, <4>2 DEF InSeq
      <4>3. CASE k > i
        <5>1. k - 1 \in 1..(Len(t) - 1) /\ c[k - 1] = e
          BY <1>2, <2>4, <4>1, <4>3
        <5>2. QED
          BY <2>4, <5>1 DEF InSeq
      <4>4. QED
        BY <1>2, <3>2, <4>1, <4>2, <4>3
    <3>3. ASSUME NEW e \in InSeq(c)
          PROVE  e \in InSeq(t) /\ e # t[i]
      <4>1. PICK k \in 1..(Len(t) - 1) : c[k] = e
        BY <2>4, <3>3 DEF InSeq
      <4>2. PICK j \in 1..Len(t) : t[j] = e /\ j # i
        BY <1>2, <2>4, <4>1
      <4>3. QED
        BY <1>2, <2>5, <4>2 DEF InSeq, NoDuplicates
    <3>4. QED
      BY <3>1, <3>2, <3>3
  <2>6. QED
    BY <1>2, <2>2, <2>4, <2>5 DEF c
<1>3. QED
  BY <1>1, <1>2

\* The empty list has nobody on it.
LEMMA NobodyInEmpty == InSeq(<<>>) = {} /\ NoDuplicates(<<>>)
BY DEF InSeq, NoDuplicates

-----------------------------------------------------------------------------
\* Basics: what holds whatever overlaps.

\* The type invariant, part by part.
LEMMA Types ==
  TypeOK <=> /\ current \in 0..MaxRuns /\ made \in 0..MaxRuns
             /\ run \in [Runs -> RunRec] /\ req \in [Sessions -> ReqRec]
             /\ console \in [Sessions -> BOOLEAN] /\ fsTier \subseteq Exts
             /\ fsQueue \in BOOLEAN /\ esl \in Seq(Waiter) /\ raced \in BOOLEAN
BY DEF TypeOK, RunRec, ReqRec, Waiter

LEMMA TypesNext ==
  TypeOK' <=> /\ current' \in 0..MaxRuns /\ made' \in 0..MaxRuns
              /\ run' \in [Runs -> RunRec] /\ req' \in [Sessions -> ReqRec]
              /\ console' \in [Sessions -> BOOLEAN] /\ fsTier' \subseteq Exts
              /\ fsQueue' \in BOOLEAN /\ esl' \in Seq(Waiter) /\ raced' \in BOOLEAN
BY DEF TypeOK, RunRec, ReqRec, Waiter

\* A new run and an idle request are well formed, and runs are numbered from 1.
LEMMA Blank ==
  /\ NewRun \in RunRec /\ Idle \in ReqRec
  /\ \A n \in 1..MaxRuns : n \in Runs
  /\ \A r \in Runs : r \in 1..MaxRuns /\ r # 0 /\ r \in Nat
<1>1. <<>> \in Seq(Exts) /\ 0 \in 0..MaxRuns /\ 0 \in Nat
  BY RosterAssumption
<1>2. NewRun \in RunRec
  BY <1>1 DEF NewRun, RunRec, LoopPhase, DONE_STATES
<1>3. Idle \in ReqRec
  BY <1>1 DEF Idle, ReqRec, ReqAt
<1>4. QED
  BY <1>2, <1>3, RosterAssumption DEF Runs

\* The commands in flight stay a queue of requests and loops.
LEMMA Waiting ==
  ASSUME NEW w \in Seq(Waiter)
  PROVE  /\ \A s \in Sessions : Append(w, Request(s)) \in Seq(Waiter)
         /\ \A r \in Runs : Append(w, LoopOf(r)) \in Seq(Waiter)
         /\ w # <<>> => Tail(w) \in Seq(Waiter)
BY DEF Waiter, Request, LoopOf

LEMMA InitBasics == Init => Basics
<1> SUFFICES ASSUME Init
             PROVE  Basics
  OBVIOUS
<1>1. current \in 0..MaxRuns /\ made \in 0..MaxRuns /\ <<>> \in Seq(Waiter)
  BY RosterAssumption DEF Init
<1>2. TypeOK
  BY <1>1, Types, Blank DEF Init
<1>3. RequestShape
  BY Blank DEF Init, RequestShape, Idle
<1>4. RunsInOrder /\ NoIdleRun
  BY DEF Init, RunsInOrder, NoIdleRun, Live
<1>5. QED
  BY <1>2, <1>3, <1>4 DEF Basics

\* The end of a join, whatever it finds: the request is over, and a fresh run is
\* either dialing or forgotten.
LEMMA JoinReturnsBasics ==
  ASSUME Basics, NEW s \in Sessions, NEW r \in Runs, r <= made, NEW fresh \in BOOLEAN,
         NEW runs \in [Runs -> RunRec],
         \A q \in Runs : /\ runs[q].loop = run[q].loop /\ runs[q].status = run[q].status
                         /\ q # r => runs[q] = run[q],
         req[s].run = current /\ current # 0 /\ req[s].fresh => r = current /\ fresh,
         JoinReturns(s, r, fresh, runs), made' = made
  PROVE  /\ run' \in [Runs -> RunRec] /\ req' \in [Sessions -> ReqRec]
         /\ console' \in [Sessions -> BOOLEAN] /\ current' \in 0..MaxRuns
         /\ RequestShape' /\ RunsInOrder' /\ NoIdleRun'
<1> DEFINE ok == ExtOf[s] \in runs[r].joinedAgents
<1>1. /\ TypeOK /\ made \in 0..MaxRuns /\ current \in 0..MaxRuns
      /\ req \in [Sessions -> ReqRec] /\ console \in [Sessions -> BOOLEAN] /\ MaxRuns \in Nat
  BY Types, RosterAssumption DEF Basics
<1>2. /\ run' = IF ok /\ fresh THEN [runs EXCEPT ![r].loop = "dialing"] ELSE runs
      /\ current' = IF ~ok /\ fresh THEN 0 ELSE current
      /\ console' = [console EXCEPT ![s] = ok]
      /\ req' = [req EXCEPT ![s] = Idle]
  BY DEF JoinReturns
<1>3. ok \in BOOLEAN
  OBVIOUS
<1> HIDE DEF ok
<1>4. run' \in [Runs -> RunRec]
  <2>1. [runs EXCEPT ![r].loop = "dialing"] \in [Runs -> RunRec]
    BY DEF RunRec, LoopPhase
  <2>2. QED
    BY <1>2, <2>1
<1>5. /\ req' \in [Sessions -> ReqRec] /\ req'[s] = Idle
      /\ \A t \in Sessions \ {s} : req'[t] = req[t]
  BY <1>1, <1>2, Blank
<1>6. console' \in [Sessions -> BOOLEAN] /\ current' \in 0..MaxRuns /\ current' \in {0, current}
  BY <1>1, <1>2, <1>3
<1>7. /\ \A q \in Runs \ {r} : run'[q] = run[q]
      /\ run'[r].status = run[r].status
      /\ run'[r].loop = IF ok /\ fresh THEN "dialing" ELSE run[r].loop
  BY <1>2 DEF RunRec
<1>8. RequestShape'
  BY <1>5, RosterAssumption DEF Basics, RequestShape, Idle
<1>9. RunsInOrder'
  BY <1>1, <1>6, <1>7, Blank DEF Basics, RunsInOrder
<1>10. NoIdleRun'
  <2> SUFFICES ASSUME current' # 0, run'[current'].status \notin DONE_STATES,
                      run'[current'].loop = "none"
               PROVE  \E t \in Sessions : req'[t].run = current' /\ req'[t].fresh
    BY DEF NoIdleRun, Live
  <2>1. current' = current /\ current \in Runs /\ current # 0 /\ ~(~ok /\ fresh)
    BY <1>1, <1>2, <1>6 DEF Runs
  <2>2. run[current].loop = "none" /\ run[current].status \notin DONE_STATES
        /\ ~(r = current /\ fresh)
    BY <1>3, <1>7, <2>1
  <2>3. PICK t \in Sessions : req[t].run = current /\ req[t].fresh
    BY <2>1, <2>2 DEF Basics, NoIdleRun, Live
  <2>4. t # s
    BY <2>1, <2>2, <2>3
  <2>5. QED
    BY <1>5, <2>1, <2>3, <2>4
<1>11. QED
  BY <1>4, <1>5, <1>6, <1>8, <1>9, <1>10

\* tierAddAgent begins, for a run the request may go on with.
LEMMA TierAddEnteredBasics ==
  ASSUME Basics, NEW s \in Sessions, NEW r \in Runs, r <= made, NEW fresh \in BOOLEAN,
         NEW runs \in [Runs -> RunRec], NEW waiting \in Seq(Waiter),
         \A q \in Runs : /\ runs[q].loop = run[q].loop /\ runs[q].status = run[q].status
                         /\ q # r => runs[q] = run[q],
         req[s].run = current /\ current # 0 /\ req[s].fresh => r = current /\ fresh,
         TierAddEntered(s, r, fresh, runs, waiting), made' = made
  PROVE  /\ run' \in [Runs -> RunRec] /\ req' \in [Sessions -> ReqRec]
         /\ console' \in [Sessions -> BOOLEAN] /\ current' \in 0..MaxRuns
         /\ RequestShape' /\ RunsInOrder' /\ NoIdleRun' /\ esl' \in Seq(Waiter)
<1> DEFINE q0 == [at |-> "naming", run |-> r, fresh |-> fresh, idx |-> 0]
<1>1. CASE JoinReturns(s, r, fresh, runs) /\ esl' = waiting
  BY <1>1, JoinReturnsBasics
<1>2. CASE /\ run' = runs /\ esl' = Append(waiting, Request(s))
           /\ req' = [req EXCEPT ![s] = q0] /\ UNCHANGED <<current, console>>
  <2>1. /\ TypeOK /\ made \in 0..MaxRuns /\ current \in 0..MaxRuns
        /\ req \in [Sessions -> ReqRec] /\ console \in [Sessions -> BOOLEAN] /\ MaxRuns \in Nat
    BY Types, RosterAssumption DEF Basics
  <2>2. q0 \in ReqRec
    BY Blank DEF ReqRec, ReqAt
  <2>3. /\ req' \in [Sessions -> ReqRec] /\ req'[s] = q0
        /\ \A t \in Sessions \ {s} : req'[t] = req[t]
    BY <1>2, <2>1, <2>2
  <2>4. RequestShape'
    <3>1. r \in 1..made
      BY <2>1, Blank
    <3>2. /\ req'[s].at = "naming" /\ req'[s].run \in 1..made
      BY <2>3, <3>1
    <3>3. QED
      BY <2>3, <3>2 DEF Basics, RequestShape
  <2>5. RunsInOrder'
    BY <1>2, <2>1, Blank DEF Basics, RunsInOrder
  <2>6. NoIdleRun'
    <3> SUFFICES ASSUME current # 0, runs[current].status \notin DONE_STATES,
                        runs[current].loop = "none"
                 PROVE  \E t \in Sessions : req'[t].run = current /\ req'[t].fresh
      BY <1>2 DEF NoIdleRun, Live
    <3>1. current \in Runs
      BY <2>1 DEF Runs
    <3>2. PICK t \in Sessions : req[t].run = current /\ req[t].fresh
      BY <3>1 DEF Basics, NoIdleRun, Live
    <3>3. QED
      BY <2>3, <3>2
  <2>7. esl' \in Seq(Waiter)
    BY <1>2, Waiting
  <2>8. QED
    BY <1>2, <2>1, <2>3, <2>4, <2>5, <2>6, <2>7
<1>3. QED
  BY <1>1, <1>2 DEF TierAddEntered

\* Basics from what a step leaves.
LEMMA BasicsFrom ==
  ASSUME made' \in 0..MaxRuns, run' \in [Runs -> RunRec], req' \in [Sessions -> ReqRec],
         console' \in [Sessions -> BOOLEAN], current' \in 0..MaxRuns, fsTier' \subseteq Exts,
         fsQueue' \in BOOLEAN, esl' \in Seq(Waiter), raced' \in BOOLEAN,
         RequestShape', RunsInOrder', NoIdleRun'
  PROVE  Basics'
BY TypesNext DEF Basics

\* A join arrives: the agent is on it already, is tiered in, or starts a run.
LEMMA JoinArrivesBasics ==
  ASSUME Basics, NEW s \in Sessions, JoinArrives(s)
  PROVE  Basics'
<1>1. /\ TypeOK /\ made \in 0..MaxRuns /\ current \in 0..MaxRuns /\ run \in [Runs -> RunRec]
      /\ req \in [Sessions -> ReqRec] /\ console \in [Sessions -> BOOLEAN] /\ esl \in Seq(Waiter)
      /\ fsTier \subseteq Exts /\ fsQueue \in BOOLEAN /\ raced \in BOOLEAN
  BY Types DEF Basics
<1>2. req[s].at = "idle" /\ UNCHANGED <<made, fsTier, fsQueue>> /\ raced' \in BOOLEAN
  BY <1>1 DEF JoinArrives
<1>3. req[s].run = 0
  BY <1>2 DEF Basics, RequestShape
<1>4. CASE Live(current)
  <2>1. TierAddEntered(s, current, FALSE, run, esl)
    BY <1>4 DEF JoinArrives
  <2>2. current \in Runs /\ current <= made
    BY <1>1, <1>4 DEF Live, Runs, Basics, RunsInOrder
  <2>3. /\ run' \in [Runs -> RunRec] /\ req' \in [Sessions -> ReqRec]
        /\ console' \in [Sessions -> BOOLEAN] /\ current' \in 0..MaxRuns
        /\ RequestShape' /\ RunsInOrder' /\ NoIdleRun' /\ esl' \in Seq(Waiter)
    BY <1>1, <1>2, <1>3, <2>1, <2>2, TierAddEnteredBasics
  <2>4. QED
    BY <1>1, <1>2, <2>3, BasicsFrom
<1>5. CASE ~Live(current)
  <2> DEFINE q0 == [Idle EXCEPT !.at = "starting", !.fresh = TRUE]
  <2>1. req' = [req EXCEPT ![s] = q0] /\ UNCHANGED <<run, current, console, esl>>
    BY <1>5 DEF JoinArrives
  <2>2. q0 \in ReqRec /\ q0.at = "starting" /\ q0.fresh /\ q0.run = 0
    BY Blank DEF Idle, ReqRec, ReqAt
  <2> HIDE DEF q0
  <2>3. /\ req' \in [Sessions -> ReqRec] /\ req'[s] = q0
        /\ \A t \in Sessions \ {s} : req'[t] = req[t]
    BY <1>1, <2>1, <2>2
  <2>4. RequestShape'
    BY <1>2, <2>2, <2>3 DEF Basics, RequestShape
  <2>5. RunsInOrder' /\ NoIdleRun'
    BY <1>2, <1>5, <2>1 DEF Basics, RunsInOrder, NoIdleRun, Live
  <2>6. QED
    BY <1>1, <1>2, <2>1, <2>3, <2>4, <2>5, BasicsFrom
<1>6. QED
  BY <1>4, <1>5

\* startRun registers its run, or refuses.
LEMMA StartBasics ==
  ASSUME Basics, NEW s \in Sessions, RunRegistered(s) \/ StartRefused(s)
  PROVE  Basics'
<1>1. /\ TypeOK /\ made \in 0..MaxRuns /\ current \in 0..MaxRuns /\ run \in [Runs -> RunRec]
      /\ req \in [Sessions -> ReqRec] /\ console \in [Sessions -> BOOLEAN] /\ esl \in Seq(Waiter)
      /\ fsTier \subseteq Exts /\ fsQueue \in BOOLEAN /\ raced \in BOOLEAN
  BY Types DEF Basics
<1>2. req[s].at = "starting" /\ UNCHANGED <<run, console, fsTier, fsQueue, raced>>
  BY DEF RunRegistered, StartRefused
<1>3. req[s].run = 0 /\ req[s].fresh
  BY <1>2 DEF Basics, RequestShape
<1>4. CASE RunRegistered(s)
  <2> DEFINE q0 == [req[s] EXCEPT !.at = "loading", !.run = made + 1]
  <2>1. /\ made' = made + 1 /\ current' = made + 1 /\ made + 1 \in 0..MaxRuns
        /\ made + 1 \in 1..(made + 1) /\ esl' = Append(esl, Request(s))
    BY <1>1, <1>4, RosterAssumption DEF RunRegistered
  <2>2. /\ q0 \in ReqRec /\ q0.at = "loading" /\ q0.fresh /\ q0.run = made + 1
    BY <1>1, <1>3, <2>1 DEF ReqRec, ReqAt
  <2>3. /\ req' \in [Sessions -> ReqRec] /\ req'[s].at = "loading" /\ req'[s].fresh
        /\ req'[s].run = made + 1 /\ \A t \in Sessions \ {s} : req'[t] = req[t]
    BY <1>1, <1>3, <1>4, <2>1 DEF RunRegistered, ReqRec, ReqAt
  <2>4. RequestShape'
    BY <1>1, <2>1, <2>3 DEF Basics, RequestShape
  <2>5. RunsInOrder'
    BY <1>1, <1>2, <2>1, Blank DEF Basics, RunsInOrder
  <2>6. NoIdleRun'
    BY <2>1, <2>3 DEF NoIdleRun
  <2>7. QED
    BY <1>1, <1>2, <2>1, <2>3, <2>4, <2>5, <2>6, Waiting, BasicsFrom
<1>5. CASE StartRefused(s)
  <2>1. req' = [req EXCEPT ![s] = Idle] /\ UNCHANGED <<current, made, esl>>
    BY <1>5 DEF StartRefused
  <2>2. /\ req' \in [Sessions -> ReqRec] /\ req'[s] = Idle
        /\ \A t \in Sessions \ {s} : req'[t] = req[t]
    BY <1>1, <2>1, Blank, RosterAssumption
  <2>3. RequestShape'
    BY <2>1, <2>2 DEF Basics, RequestShape, Idle
  <2>4. RunsInOrder' /\ NoIdleRun'
    BY <1>2, <1>3, <2>1, <2>2 DEF Basics, RunsInOrder, NoIdleRun, Live
  <2>5. QED
    BY <1>1, <1>2, <2>1, <2>2, <2>3, <2>4, BasicsFrom
<1>6. QED
  BY <1>4, <1>5

\* loadQueue returns.
LEMMA QueueLoadedBasics ==
  ASSUME Basics, NEW s \in Sessions, QueueLoaded(s)
  PROVE  Basics'
<1> DEFINE r == req[s].run
<1>1. /\ TypeOK /\ made \in 0..MaxRuns /\ current \in 0..MaxRuns /\ run \in [Runs -> RunRec]
      /\ req \in [Sessions -> ReqRec] /\ console \in [Sessions -> BOOLEAN] /\ esl \in Seq(Waiter)
      /\ fsTier \subseteq Exts /\ fsQueue \in BOOLEAN /\ raced \in BOOLEAN
  BY Types DEF Basics
<1>2. req[s].at = "loading" /\ esl # <<>> /\ UNCHANGED <<made, fsTier>>
  BY DEF QueueLoaded, ReplyTo
<1>3. r \in Runs /\ r <= made
  <2>1. r \in 1..made
    BY <1>2 DEF Basics, RequestShape
  <2>2. QED
    BY <1>1, <2>1, Blank, RosterAssumption
<1>4. PICK ok \in BOOLEAN :
        /\ fsQueue' = (fsQueue \/ ok) /\ raced' = (raced \/ ~ok)
        /\ TierAddEntered(s, r, TRUE, [run EXCEPT ![r].queueLoaded = ok], Tail(esl))
  BY DEF QueueLoaded
<1> DEFINE runs == [run EXCEPT ![r].queueLoaded = ok]
<1>5. runs \in [Runs -> RunRec]
  BY <1>1, <1>3 DEF RunRec
<1>6. \A q \in Runs : /\ runs[q].loop = run[q].loop /\ runs[q].status = run[q].status
                      /\ q # r => runs[q] = run[q]
  BY <1>1, <1>3 DEF RunRec
<1>7. Tail(esl) \in Seq(Waiter)
  BY <1>1, <1>2, Waiting
<1>8. TierAddEntered(s, r, TRUE, runs, Tail(esl))
  BY <1>4
<1> HIDE DEF runs, r
<1>9. /\ run' \in [Runs -> RunRec] /\ req' \in [Sessions -> ReqRec]
      /\ console' \in [Sessions -> BOOLEAN] /\ current' \in 0..MaxRuns
      /\ RequestShape' /\ RunsInOrder' /\ NoIdleRun' /\ esl' \in Seq(Waiter)
  BY <1>2, <1>3, <1>5, <1>6, <1>7, <1>8, TierAddEnteredBasics DEF r
<1>10. QED
  BY <1>1, <1>2, <1>4, <1>9, BasicsFrom

\* tierAddAgent goes on to its next command, or returns without having attached.
LEMMA TierAddBasics ==
  ASSUME Basics, NEW s \in Sessions, AgentNamed(s) \/ TierAdded(s)
  PROVE  Basics'
<1> DEFINE r == req[s].run
<1>1. /\ TypeOK /\ made \in 0..MaxRuns /\ current \in 0..MaxRuns /\ run \in [Runs -> RunRec]
      /\ req \in [Sessions -> ReqRec] /\ console \in [Sessions -> BOOLEAN] /\ esl \in Seq(Waiter)
      /\ fsTier \subseteq Exts /\ fsQueue \in BOOLEAN /\ raced \in BOOLEAN /\ ExtOf[s] \in Exts
  BY Types, RosterAssumption DEF Basics
<1>2. /\ req[s].at \in {"naming", "adding"} /\ esl # <<>> /\ UNCHANGED <<made, fsQueue>>
      /\ fsTier' \in {fsTier, fsTier \cup {ExtOf[s]}} /\ raced' \in {raced, TRUE}
  BY DEF AgentNamed, TierAdded, ReplyTo
<1>3. r \in Runs /\ r <= made /\ req[s].fresh \in BOOLEAN
  <2>1. r \in 1..made
    BY <1>2 DEF Basics, RequestShape
  <2>2. QED
    BY <1>1, <2>1, Blank DEF ReqRec
<1>4. Tail(esl) \in Seq(Waiter)
  BY <1>1, <1>2, Waiting
<1>5. fsTier' \subseteq Exts /\ fsQueue' \in BOOLEAN /\ raced' \in BOOLEAN /\ made' \in 0..MaxRuns
  BY <1>1, <1>2
<1>6. CASE JoinReturns(s, r, req[s].fresh, run) /\ esl' = Tail(esl)
  <2>1. /\ run' \in [Runs -> RunRec] /\ req' \in [Sessions -> ReqRec]
        /\ console' \in [Sessions -> BOOLEAN] /\ current' \in 0..MaxRuns
        /\ RequestShape' /\ RunsInOrder' /\ NoIdleRun'
    BY <1>1, <1>2, <1>3, <1>6, JoinReturnsBasics
  <2>2. QED
    BY <1>4, <1>5, <1>6, <2>1, BasicsFrom
<1>7. CASE /\ \E at \in {"adding", "arming"} : req' = [req EXCEPT ![s].at = at]
           /\ esl' = Append(Tail(esl), Request(s)) /\ UNCHANGED <<run, current, console>>
  <2>1. PICK at \in {"adding", "arming"} : req' = [req EXCEPT ![s].at = at]
    BY <1>7
  <2>2. req' \in [Sessions -> ReqRec]
    BY <1>1, <2>1 DEF ReqRec, ReqAt
  <2>3. /\ req'[s].at = at /\ req'[s].run = req[s].run /\ req'[s].fresh = req[s].fresh
        /\ \A t \in Sessions \ {s} : req'[t] = req[t]
    BY <1>1, <2>1 DEF ReqRec
  <2>4. RequestShape'
    BY <1>2, <2>1, <2>3 DEF Basics, RequestShape
  <2>5. NoIdleRun' /\ RunsInOrder'
    BY <1>2, <1>7, <2>3 DEF Basics, NoIdleRun, Live, RunsInOrder
  <2>6. QED
    BY <1>1, <1>4, <1>5, <1>7, <2>2, <2>4, <2>5, Waiting, BasicsFrom
<1>8. QED
  BY <1>6, <1>7 DEF AgentNamed, TierAdded

\* The agent is attached, and the join returns.
LEMMA AgentArmedBasics ==
  ASSUME Basics, NEW s \in Sessions, AgentArmed(s)
  PROVE  Basics'
<1> DEFINE r == req[s].run
           runs == [run EXCEPT ![r].tiers = Append(@, ExtOf[s]),
                               ![r].joinedAgents = @ \cup {ExtOf[s]}]
<1>1. /\ TypeOK /\ made \in 0..MaxRuns /\ current \in 0..MaxRuns /\ run \in [Runs -> RunRec]
      /\ req \in [Sessions -> ReqRec] /\ console \in [Sessions -> BOOLEAN] /\ esl \in Seq(Waiter)
      /\ fsTier \subseteq Exts /\ fsQueue \in BOOLEAN /\ raced \in BOOLEAN /\ ExtOf[s] \in Exts
  BY Types, RosterAssumption DEF Basics
<1>2. /\ req[s].at = "arming" /\ esl # <<>> /\ esl' = Tail(esl)
      /\ UNCHANGED <<made, fsTier, fsQueue, raced>>
      /\ JoinReturns(s, r, req[s].fresh, runs)
  BY DEF AgentArmed, ReplyTo
<1>3. r \in Runs /\ r <= made /\ req[s].fresh \in BOOLEAN
  <2>1. r \in 1..made
    BY <1>2 DEF Basics, RequestShape
  <2>2. QED
    BY <1>1, <2>1, Blank DEF ReqRec
<1>4. Append(run[r].tiers, ExtOf[s]) \in Seq(Exts) /\ run[r].joinedAgents \cup {ExtOf[s]} \subseteq Exts
  BY <1>1, <1>3 DEF RunRec
<1>5. runs \in [Runs -> RunRec]
  <2>1. run[r] \in RunRec
    BY <1>1, <1>3
  <2>2. QED
    BY <1>1, <1>3, <1>4, <2>1 DEF RunRec
<1>6. \A q \in Runs : /\ runs[q].loop = run[q].loop /\ runs[q].status = run[q].status
                      /\ q # r => runs[q] = run[q]
  BY <1>1, <1>3 DEF RunRec
<1> HIDE DEF runs
<1>7. /\ run' \in [Runs -> RunRec] /\ req' \in [Sessions -> ReqRec]
      /\ console' \in [Sessions -> BOOLEAN] /\ current' \in 0..MaxRuns
      /\ RequestShape' /\ RunsInOrder' /\ NoIdleRun'
  BY <1>2, <1>3, <1>5, <1>6, JoinReturnsBasics
<1>8. QED
  BY <1>1, <1>2, <1>7, Waiting, BasicsFrom

\* The end of a leave: the run stays as live as it was, and its loop where it was.
LEMMA LeftBasics ==
  ASSUME Basics, NEW s \in Sessions, NEW r \in Runs, r <= made, NEW tiers \in Seq(Exts),
         Left(s, r, tiers), UNCHANGED <<current, made>>,
         req[s].run = 0 \/ ~req[s].fresh
  PROVE  /\ run' \in [Runs -> RunRec] /\ req' \in [Sessions -> ReqRec]
         /\ console' \in [Sessions -> BOOLEAN]
         /\ RequestShape' /\ RunsInOrder' /\ NoIdleRun'
<1> DEFINE joined == run[r].joinedAgents \ {ExtOf[s]}
           st == IF joined = {} /\ run[r].status = "running" THEN "stopping" ELSE run[r].status
<1>1. /\ made \in 0..MaxRuns /\ current \in 0..MaxRuns /\ run \in [Runs -> RunRec]
      /\ req \in [Sessions -> ReqRec] /\ console \in [Sessions -> BOOLEAN]
  BY Types DEF Basics
<1>2. /\ run' = [run EXCEPT ![r].tiers = tiers, ![r].joinedAgents = joined, ![r].status = st]
      /\ console' = [console EXCEPT ![s] = FALSE] /\ req' = [req EXCEPT ![s] = Idle]
  BY <1>1 DEF Left, RunRec
<1>3. /\ joined \subseteq Exts
      /\ st \in {"running", "stopping"} \cup DONE_STATES
      /\ (st \in DONE_STATES <=> run[r].status \in DONE_STATES)
  BY <1>1 DEF RunRec, DONE_STATES
<1> HIDE DEF joined, st
<1>4. run' \in [Runs -> RunRec]
  <2>1. run[r] \in RunRec
    BY <1>1
  <2>2. QED
    BY <1>1, <1>2, <1>3, <2>1 DEF RunRec
<1>5. /\ \A q \in Runs \ {r} : run'[q] = run[q]
      /\ run'[r].status = st /\ run'[r].loop = run[r].loop
  BY <1>1, <1>2 DEF RunRec
<1>6. /\ req' \in [Sessions -> ReqRec] /\ req'[s] = Idle
      /\ \A t \in Sessions \ {s} : req'[t] = req[t]
  BY <1>1, <1>2, Blank
<1>7. RequestShape'
  BY <1>6 DEF Basics, RequestShape, Idle
<1>8. RunsInOrder'
  BY <1>1, <1>5, Blank DEF Basics, RunsInOrder
<1>9. NoIdleRun'
  <2> SUFFICES ASSUME current # 0, run'[current].status \notin DONE_STATES,
                      run'[current].loop = "none"
               PROVE  \E t \in Sessions : req'[t].run = current /\ req'[t].fresh
    BY DEF NoIdleRun, Live
  <2>1. current \in Runs
    BY <1>1 DEF Runs
  <2>2. run[current].status \notin DONE_STATES /\ run[current].loop = "none"
    BY <1>3, <1>5, <2>1
  <2>3. PICK t \in Sessions : req[t].run = current /\ req[t].fresh
    BY <2>2 DEF Basics, NoIdleRun, Live
  <2>4. QED
    BY <1>6, <2>3
<1>10. QED
  BY <1>1, <1>2, <1>4, <1>6, <1>7, <1>8, <1>9

\* agentLeave, before and after its await.
LEMMA LeaveBasics ==
  ASSUME Basics, NEW s \in Sessions, LeaveArrives(s) \/ TierDeleted(s)
  PROVE  Basics'
<1>1. /\ TypeOK /\ made \in 0..MaxRuns /\ current \in 0..MaxRuns /\ run \in [Runs -> RunRec]
      /\ req \in [Sessions -> ReqRec] /\ console \in [Sessions -> BOOLEAN] /\ esl \in Seq(Waiter)
      /\ fsTier \subseteq Exts /\ fsQueue \in BOOLEAN /\ raced \in BOOLEAN
  BY Types DEF Basics
<1>2. CASE LeaveArrives(s)
  <2> DEFINE idx == IF current = 0 THEN 0 ELSE FirstIndex(run[current].tiers, ExtOf[s])
             q0 == [at |-> "deleting", run |-> current, fresh |-> FALSE, idx |-> idx]
  <2>1. /\ req[s].at = "idle" /\ UNCHANGED <<current, made, fsTier, fsQueue>>
        /\ raced' \in BOOLEAN
    BY <1>1, <1>2 DEF LeaveArrives
  <2>2. req[s].run = 0
    BY <2>1 DEF Basics, RequestShape
  <2>3. /\ idx \in Nat
        /\ current # 0 => /\ current \in Runs /\ current <= made
                          /\ run[current].tiers \in Seq(Exts)
    <3>1. current # 0 => /\ current \in Runs /\ current <= made
                         /\ run[current].tiers \in Seq(Exts)
      BY <1>1 DEF Runs, RunRec, Basics, RunsInOrder
    <3>2. QED
      BY <3>1, FirstIndexFinds
  <2>4. \/ current = 0 /\ console' = [console EXCEPT ![s] = FALSE] /\ UNCHANGED <<run, req, esl>>
        \/ current # 0 /\ Left(s, current, run[current].tiers) /\ UNCHANGED esl
        \/ /\ current # 0 /\ req' = [req EXCEPT ![s] = q0]
           /\ esl' = Append(esl, Request(s)) /\ UNCHANGED <<run, console>>
    BY <1>2 DEF LeaveArrives
  <2> HIDE DEF idx
  <2>5. CASE current = 0 /\ console' = [console EXCEPT ![s] = FALSE] /\ UNCHANGED <<run, req, esl>>
    <3>1. RequestShape' /\ RunsInOrder' /\ NoIdleRun'
      BY <2>1, <2>5 DEF Basics, RequestShape, RunsInOrder, NoIdleRun, Live
    <3>2. console' \in [Sessions -> BOOLEAN]
      BY <1>1, <2>5
    <3>3. QED
      BY <1>1, <2>1, <2>5, <3>1, <3>2, BasicsFrom
  <2>6. CASE current # 0 /\ Left(s, current, run[current].tiers) /\ UNCHANGED esl
    <3>1. /\ run' \in [Runs -> RunRec] /\ req' \in [Sessions -> ReqRec]
          /\ console' \in [Sessions -> BOOLEAN]
          /\ RequestShape' /\ RunsInOrder' /\ NoIdleRun'
      BY <2>1, <2>2, <2>3, <2>6, LeftBasics
    <3>2. QED
      BY <1>1, <2>1, <2>6, <3>1, BasicsFrom
  <2>7. CASE /\ current # 0 /\ req' = [req EXCEPT ![s] = q0]
             /\ esl' = Append(esl, Request(s)) /\ UNCHANGED <<run, console>>
    <3>1. q0 \in ReqRec
      BY <1>1, <2>3 DEF ReqRec, ReqAt
    <3>2. /\ req' \in [Sessions -> ReqRec] /\ req'[s] = q0
          /\ \A t \in Sessions \ {s} : req'[t] = req[t]
      BY <1>1, <2>7, <3>1
    <3>3. current \in 1..made
      BY <1>1, <2>3, <2>7
    <3>4. RequestShape'
      <4>1. req'[s].at = "deleting" /\ req'[s].run \in 1..made /\ ~req'[s].fresh
        BY <3>2, <3>3
      <4>2. QED
        BY <2>1, <3>2, <4>1 DEF Basics, RequestShape
    <3>5. RunsInOrder' /\ NoIdleRun'
      <4>1. \A t \in Sessions : req[t].run = current /\ req[t].fresh
                                  => req'[t].run = current /\ req'[t].fresh
        BY <2>2, <2>7, <3>2
      <4>2. QED
        BY <2>1, <2>7, <4>1 DEF Basics, RunsInOrder, NoIdleRun, Live
    <3>6. QED
      BY <1>1, <2>1, <2>7, <3>2, <3>4, <3>5, Waiting, BasicsFrom
  <2>8. QED
    BY <2>4, <2>5, <2>6, <2>7
<1>3. CASE TierDeleted(s)
  <2> DEFINE r == req[s].run
             t == SpliceOne(run[r].tiers, req[s].idx)
  <2>1. /\ req[s].at = "deleting" /\ esl # <<>> /\ esl' = Tail(esl)
        /\ fsTier' \in {fsTier, fsTier \ {ExtOf[s]}} /\ raced' \in {raced, TRUE}
        /\ Left(s, r, t) /\ UNCHANGED <<current, made, fsQueue>>
    BY <1>3 DEF TierDeleted, ReplyTo
  <2>2. r \in Runs /\ r <= made /\ ~req[s].fresh
    <3>1. r \in 1..made /\ ~req[s].fresh
      BY <2>1 DEF Basics, RequestShape
    <3>2. QED
      BY <1>1, <3>1, Blank
  <2>3. run[r].tiers \in Seq(Exts) /\ req[s].idx \in Nat
    BY <1>1, <2>2 DEF RunRec, ReqRec
  <2>4. t \in Seq(Exts)
    BY <2>3, SplicedTier
  <2> HIDE DEF t
  <2>5. /\ run' \in [Runs -> RunRec] /\ req' \in [Sessions -> ReqRec]
        /\ console' \in [Sessions -> BOOLEAN]
        /\ RequestShape' /\ RunsInOrder' /\ NoIdleRun'
    BY <2>1, <2>2, <2>4, LeftBasics
  <2>6. fsTier' \subseteq Exts /\ raced' \in BOOLEAN
    BY <1>1, <2>1
  <2>7. QED
    BY <1>1, <2>1, <2>5, <2>6, Waiting, BasicsFrom
<1>4. QED
  BY <1>2, <1>3

\* What the Console learns and forgets, and the supervisor's stop.
LEMMA ConsoleBasics ==
  ASSUME Basics, (\E s \in Sessions : ParticipationPoll(s) \/ Restore(s) \/ Refresh(s)) \/ stop
  PROVE  Basics'
<1>1. /\ TypeOK /\ made \in 0..MaxRuns /\ current \in 0..MaxRuns /\ run \in [Runs -> RunRec]
      /\ req \in [Sessions -> ReqRec] /\ console \in [Sessions -> BOOLEAN] /\ esl \in Seq(Waiter)
      /\ fsTier \subseteq Exts /\ fsQueue \in BOOLEAN /\ raced \in BOOLEAN
  BY Types DEF Basics
<1>2. UNCHANGED <<current, made, req, fsTier, fsQueue, esl, raced>>
  BY DEF ParticipationPoll, Restore, Refresh, stop
<1>3. CASE stop
  <2>1. /\ current \in Runs /\ current <= made /\ run[current].status = "running"
        /\ run' = [run EXCEPT ![current].status = "stopping"] /\ console' = console
    BY <1>1, <1>3 DEF stop, Runs, Basics, RunsInOrder
  <2>2. run' \in [Runs -> RunRec]
    BY <1>1, <2>1 DEF RunRec
  <2>3. /\ \A q \in Runs \ {current} : run'[q] = run[q]
        /\ run'[current].loop = run[current].loop
    BY <1>1, <2>1 DEF RunRec
  <2>4. RunsInOrder'
    BY <1>1, <1>2, <2>1, <2>3, Blank DEF Basics, RunsInOrder
  <2>5. NoIdleRun'
    BY <1>2, <2>1, <2>3 DEF Basics, NoIdleRun, Live, DONE_STATES
  <2>6. RequestShape'
    BY <1>2 DEF Basics, RequestShape
  <2>7. QED
    BY <1>1, <1>2, <2>1, <2>2, <2>4, <2>5, <2>6, BasicsFrom
<1>4. CASE \E s \in Sessions : ParticipationPoll(s) \/ Restore(s) \/ Refresh(s)
  <2>1. run' = run /\ console' \in [Sessions -> BOOLEAN]
    BY <1>1, <1>4 DEF ParticipationPoll, Restore, Refresh
  <2>2. RequestShape' /\ RunsInOrder' /\ NoIdleRun'
    BY <1>2, <2>1 DEF Basics, RequestShape, RunsInOrder, NoIdleRun, Live
  <2>3. QED
    BY <1>1, <1>2, <2>1, <2>2, BasicsFrom
<1>5. QED
  BY <1>3, <1>4

\* A step of a loop that has begun: its run never goes back to "none".
LEMMA LoopFrom ==
  ASSUME Basics, NEW r \in Runs, r <= made, UNCHANGED <<current, made, req, console>>,
         NEW rec \in RunRec, run' = [run EXCEPT ![r] = rec], rec.loop # "none",
         fsTier' \subseteq Exts, fsQueue' \in BOOLEAN, esl' \in Seq(Waiter), raced' \in BOOLEAN
  PROVE  Basics'
<1>1. /\ made \in 0..MaxRuns /\ current \in 0..MaxRuns /\ run \in [Runs -> RunRec]
      /\ req \in [Sessions -> ReqRec] /\ console \in [Sessions -> BOOLEAN]
  BY Types DEF Basics
<1>2. run' \in [Runs -> RunRec] /\ run'[r] = rec /\ \A q \in Runs \ {r} : run'[q] = run[q]
  BY <1>1
<1>3. RequestShape'
  BY DEF Basics, RequestShape
<1>4. RunsInOrder'
  BY <1>1, <1>2, Blank DEF Basics, RunsInOrder
<1>5. NoIdleRun'
  BY <1>1, <1>2 DEF Basics, NoIdleRun, Live, Runs
<1>6. QED
  BY <1>1, <1>2, <1>3, <1>4, <1>5, BasicsFrom

\* The record Unwiring leaves.
Unwired(r, threw) == [run[r] EXCEPT !.dels = run[r].tiers, !.tiers = <<>>, !.joinedAgents = {},
                                    !.loop = "unwiring", !.threw = threw]

\* Its fields, and what it is told to delete.
LEMMA UnwiringLeaves ==
  ASSUME Basics, NEW r \in Runs, NEW threw \in BOOLEAN, Unwiring(r, threw)
  PROVE  /\ run' = [run EXCEPT ![r] = Unwired(r, threw)] /\ Unwired(r, threw) \in RunRec
         /\ Unwired(r, threw).loop = "unwiring" /\ Unwired(r, threw).tiers = <<>>
         /\ Unwired(r, threw).joinedAgents = {} /\ Unwired(r, threw).dels = run[r].tiers
         /\ Unwired(r, threw).status = run[r].status
         /\ esl' \in Seq(Waiter) /\ raced' = (raced \/ ~NoRequest)
<1>1. run[r] \in RunRec /\ esl \in Seq(Waiter)
  BY Types DEF Basics
<1>2. run[r].tiers \in Seq(Exts) /\ <<>> \in Seq(Exts)
  BY <1>1 DEF RunRec
<1>3. Unwired(r, threw) \in RunRec
  BY <1>1, <1>2 DEF Unwired, RunRec, LoopPhase
<1>4. /\ Unwired(r, threw).loop = "unwiring" /\ Unwired(r, threw).tiers = <<>>
      /\ Unwired(r, threw).joinedAgents = {} /\ Unwired(r, threw).dels = run[r].tiers
      /\ Unwired(r, threw).status = run[r].status
  BY <1>1 DEF Unwired, RunRec
<1>5. run' = [run EXCEPT ![r] = Unwired(r, threw)]
  BY DEF Unwiring, Unwired
<1>6. esl' \in Seq(Waiter) /\ raced' = (raced \/ ~NoRequest)
  BY <1>1, Waiting DEF Unwiring
<1>7. QED
  BY <1>3, <1>4, <1>5, <1>6

LEMMA LoopBasics ==
  ASSUME Basics, NEW r \in 1..made, LoopStep(r)
  PROVE  Basics'
<1>1. /\ made \in 0..MaxRuns /\ current \in 0..MaxRuns /\ run \in [Runs -> RunRec]
      /\ esl \in Seq(Waiter) /\ fsTier \subseteq Exts /\ fsQueue \in BOOLEAN /\ raced \in BOOLEAN
  BY Types DEF Basics
<1>2. r \in Runs /\ r <= made /\ run[r] \in RunRec
  BY <1>1, Blank, RosterAssumption
<1>3. UNCHANGED <<current, made, req, console>>
  BY DEF LoopStep, LoopNeverStarts, LoopThrows, LoopLeavesWhile, Drained, UnwireTier, RunEnds
<1>4. CASE LoopNeverStarts(r)
  <2> DEFINE rec == [run[r] EXCEPT !.loop = "ended", !.status = "error"]
  <2>1. run' = [run EXCEPT ![r] = rec] /\ raced' = TRUE /\ UNCHANGED <<fsTier, fsQueue, esl>>
    BY <1>4 DEF LoopNeverStarts
  <2>2. rec \in RunRec /\ rec.loop # "none"
    BY <1>2 DEF RunRec, LoopPhase, DONE_STATES
  <2> HIDE DEF rec
  <2>3. QED
    BY <1>1, <1>2, <1>3, <2>1, <2>2, LoopFrom
<1>5. CASE \E threw \in BOOLEAN : Unwiring(r, threw) /\ UNCHANGED <<fsTier, fsQueue>>
  <2>1. PICK threw \in BOOLEAN : Unwiring(r, threw) /\ UNCHANGED <<fsTier, fsQueue>>
    BY <1>5
  <2>2. /\ run' = [run EXCEPT ![r] = Unwired(r, threw)] /\ Unwired(r, threw) \in RunRec
        /\ Unwired(r, threw).loop # "none" /\ esl' \in Seq(Waiter) /\ raced' \in BOOLEAN
    BY <1>1, <1>2, <2>1, UnwiringLeaves
  <2>3. QED
    BY <1>1, <1>2, <1>3, <2>1, <2>2, LoopFrom
<1>6. CASE /\ run' = [run EXCEPT ![r] = [@ EXCEPT !.loop = "draining"]]
           /\ UNCHANGED <<fsTier, fsQueue, esl, raced>>
  <2> DEFINE rec == [run[r] EXCEPT !.loop = "draining"]
  <2>1. run' = [run EXCEPT ![r] = rec]
    BY <1>6
  <2>2. rec \in RunRec /\ rec.loop # "none"
    BY <1>2 DEF RunRec, LoopPhase
  <2> HIDE DEF rec
  <2>3. QED
    BY <1>1, <1>2, <1>3, <1>6, <2>1, <2>2, LoopFrom
<1>7. CASE UnwireTier(r)
  <2> DEFINE rec == [run[r] EXCEPT !.dels = Tail(run[r].dels)]
  <2>a. run' = [run EXCEPT ![r] = rec]
    BY <1>7 DEF UnwireTier
  <2>b. /\ run[r].loop = "unwiring" /\ run[r].dels # <<>> /\ fsQueue' = fsQueue
        /\ fsTier' \in {fsTier, fsTier \ {Head(run[r].dels)}} /\ (raced' = raced \/ raced' = TRUE)
    BY <1>7 DEF UnwireTier
  <2>c. esl # <<>> /\ (esl' = Append(Tail(esl), LoopOf(r)) \/ esl' = Tail(esl))
    BY <1>7, Zenon DEF UnwireTier, ReplyTo
  <2>1. /\ run' = [run EXCEPT ![r] = rec] /\ run[r].loop = "unwiring" /\ run[r].dels # <<>>
        /\ esl # <<>> /\ esl' \in {Append(Tail(esl), LoopOf(r)), Tail(esl)}
        /\ fsTier' \in {fsTier, fsTier \ {Head(run[r].dels)}} /\ raced' \in {raced, TRUE}
        /\ fsQueue' = fsQueue
    BY <2>a, <2>b, <2>c
  <2>2. Tail(run[r].dels) \in Seq(Exts)
    BY <1>2, <2>1 DEF RunRec
  <2>3. rec \in RunRec /\ rec.loop # "none"
    BY <1>2, <2>1, <2>2 DEF RunRec
  <2> HIDE DEF rec
  <2>4. esl' \in Seq(Waiter)
    BY <1>1, <1>2, <2>1, Waiting
  <2>5. fsTier' \subseteq Exts /\ fsQueue' \in BOOLEAN /\ raced' \in BOOLEAN
    BY <1>1, <2>1
  <2>6. QED
    BY <1>2, <1>3, <2>1, <2>3, <2>4, <2>5, LoopFrom
<1>8. CASE RunEnds(r)
  <2> DEFINE st  == IF run[r].threw THEN "error"
                    ELSE IF run[r].status = "stopping" THEN "stopped" ELSE "done"
             rec == [run[r] EXCEPT !.queueLoaded = FALSE, !.loop = "ended", !.status = st]
  <2>a. run' = [run EXCEPT ![r] = rec] /\ fsTier' = fsTier
    BY <1>8 DEF RunEnds
  <2>b. esl' = esl \/ (esl # <<>> /\ esl' = Tail(esl))
    BY <1>8, Zenon DEF RunEnds, ReplyTo
  <2>c. (fsQueue' = fsQueue \/ fsQueue' = FALSE) /\ (raced' = raced \/ raced' = TRUE)
    BY <1>8, Zenon DEF RunEnds
  <2>1. /\ run' = [run EXCEPT ![r] = rec]
        /\ esl' = esl \/ (esl # <<>> /\ esl' = Tail(esl))
        /\ fsQueue' \in {fsQueue, FALSE} /\ raced' \in {raced, TRUE} /\ fsTier' = fsTier
    BY <2>a, <2>b, <2>c
  <2>2. st \in DONE_STATES
    BY DEF DONE_STATES
  <2> HIDE DEF st
  <2>3. rec \in RunRec /\ rec.loop # "none"
    BY <1>2, <2>2 DEF RunRec, LoopPhase
  <2> HIDE DEF rec
  <2>4. esl' \in Seq(Waiter)
    BY <1>1, <2>1, Waiting
  <2>5. QED
    BY <1>1, <1>2, <1>3, <2>1, <2>3, <2>4, LoopFrom
<1>9. QED
  BY <1>4, <1>5, <1>6, <1>7, <1>8
     DEF LoopStep, LoopThrows, LoopLeavesWhile, Drained

LEMMA NextBasics == Basics /\ [Next]_vars => Basics'
<1> SUFFICES ASSUME Basics, [Next]_vars
             PROVE  Basics'
  OBVIOUS
<1>1. CASE \E s \in Sessions : JoinArrives(s)
  BY <1>1, JoinArrivesBasics
<1>2. CASE \E s \in Sessions : RequestStep(s)
  BY <1>2, StartBasics, QueueLoadedBasics, TierAddBasics, AgentArmedBasics, LeaveBasics
     DEF RequestStep
<1>3. CASE \E s \in Sessions : LeaveArrives(s)
  BY <1>3, LeaveBasics
<1>4. CASE (\E s \in Sessions : ParticipationPoll(s) \/ Restore(s) \/ Refresh(s)) \/ stop
  BY <1>4, ConsoleBasics
<1>5. CASE \E r \in 1..made : LoopStep(r)
  BY <1>5, LoopBasics
<1>6. CASE UNCHANGED vars
  BY <1>6 DEF vars, Basics, TypeOK, RequestShape, RunsInOrder, NoIdleRun, Live
<1>7. QED
  BY <1>1, <1>2, <1>3, <1>4, <1>5, <1>6 DEF Next

\* agentJoin, agentLeave and the loop keep runs, requests and tiers well formed.
THEOREM TypeCorrect == Spec => []TypeOK
<1>1. Basics => TypeOK
  BY DEF Basics
<1>2. QED
  BY InitBasics, NextBasics, <1>1, PTL DEF Spec

\* agentJoin: a live run that is not dialing yet has its join in flight; a first join
\* that fails does not leave one behind, whatever overlaps it.
THEOREM NoRunIdles == Spec => []NoIdleRun
<1>1. Basics => NoIdleRun
  BY DEF Basics
<1>2. QED
  BY InitBasics, NextBasics, <1>1, PTL DEF Spec

-----------------------------------------------------------------------------
\* Calm: what holds as long as nothing overlaps.

LEMMA InitCalm == Init => Calm
<1> SUFFICES ASSUME Init
             PROVE  Calm
  OBVIOUS
<1>1. /\ \A s \in Sessions : req[s].at = "idle"
      /\ \A r \in Runs : run[r] = NewRun
      /\ current = 0 /\ fsTier = {}
  BY DEF Init, Idle
<1>2. OneAtATime /\ NotTearingDown /\ \A s \in Sessions : Awaits(s)
  BY <1>1 DEF OneAtATime, NotTearingDown, Awaits, Waits
<1>3. OnlyCurrent /\ EndedIsDone
  BY <1>1 DEF OnlyCurrent, EndedIsDone, NewRun, Working, DONE_STATES
<1>4. \A r \in Runs : ListsMatch(r)
  BY <1>1, NobodyInEmpty DEF ListsMatch, NewRun, Working
<1>5. fsTier = TiersOf(current) \cup Arming
  BY <1>1 DEF TiersOf, Arming
<1>6. QED
  BY <1>2, <1>3, <1>4, <1>5 DEF Calm

\* A request in flight is the only one.
LEMMA OneRequest ==
  ASSUME Basics, Calm, NEW s \in Sessions, req[s].at # "idle"
  PROVE  /\ \A t \in Sessions \ {s} : req[t].at = "idle"
         /\ \A r \in Runs : run[r].loop # "unwiring"
         /\ Arming = IF req[s].at = "arming" THEN {ExtOf[s]} ELSE {}
<1>1. \A t \in Sessions \ {s} : req[t].at = "idle"
  BY DEF Calm, OneAtATime
<1>2. \A r \in Runs : run[r].loop # "unwiring"
  BY DEF Calm, NotTearingDown
<1>3. Arming = IF req[s].at = "arming" THEN {ExtOf[s]} ELSE {}
  BY <1>1, RosterAssumption DEF Arming
<1>4. QED
  BY <1>1, <1>2, <1>3

\* Without a request in flight nobody is being armed.
LEMMA NoneArming == NoRequest => Arming = {}
BY DEF NoRequest, Arming

\* Calm after a step of the one request, from what the step leaves.
LEMMA RequestCalm ==
  ASSUME NEW s \in Sessions, \A t \in Sessions \ {s} : req'[t].at = "idle",
         \A r \in Runs : run'[r].loop # "unwiring",
         OnlyCurrent', EndedIsDone', Awaits(s)', \A r \in Runs : ListsMatch(r)',
         fsTier' = TiersOf(current)' \cup (IF req'[s].at = "arming" THEN {ExtOf[s]} ELSE {})
  PROVE  Calm'
<1>1. OneAtATime' /\ NotTearingDown'
  BY DEF OneAtATime, NotTearingDown
<1>2. \A t \in Sessions : Awaits(t)'
  <2>1. ASSUME NEW t \in Sessions \ {s}
        PROVE  Awaits(t)'
    BY DEF Awaits, Waits
  <2>2. QED
    BY <2>1
<1>3. Arming' = IF req'[s].at = "arming" THEN {ExtOf[s]} ELSE {}
  BY RosterAssumption DEF Arming
<1>4. QED
  BY <1>1, <1>2, <1>3 DEF Calm

\* A step that leaves the runs alone.
LEMMA RunsAlone ==
  ASSUME Calm, UNCHANGED <<run, current>>
  PROVE  /\ OnlyCurrent' /\ EndedIsDone' /\ \A r \in Runs : ListsMatch(r)'
         /\ TiersOf(current)' = TiersOf(current)
BY DEF Calm, OnlyCurrent, EndedIsDone, ListsMatch, TiersOf

\* The Console's own steps.
LEMMA ConsoleCalm ==
  ASSUME Basics, Calm, (\E s \in Sessions : ParticipationPoll(s) \/ Restore(s) \/ Refresh(s)) \/ stop
  PROVE  Calm'
<1>1. UNCHANGED <<current, req, fsTier>>
  BY DEF ParticipationPoll, Restore, Refresh, stop
<1>2. \A r \in Runs : /\ run'[r].loop = run[r].loop /\ run'[r].tiers = run[r].tiers
                      /\ run'[r].joinedAgents = run[r].joinedAgents
                      /\ run'[r].dels = run[r].dels
                      /\ (run'[r].status \in DONE_STATES <=> run[r].status \in DONE_STATES)
  <2>1. CASE stop
    <3>1. /\ current \in Runs /\ run[current].status = "running" /\ run \in [Runs -> RunRec]
          /\ run' = [run EXCEPT ![current].status = "stopping"]
      BY <2>1, Types DEF Basics, stop, Runs
    <3>2. QED
      BY <3>1 DEF RunRec, DONE_STATES
  <2>2. CASE run' = run
    BY <2>2
  <2>3. QED
    BY <2>1, <2>2 DEF ParticipationPoll, Restore, Refresh
<1>3. current # 0 => current \in Runs
  BY Types DEF Basics, Runs
<1>4. OneAtATime' /\ NotTearingDown' /\ OnlyCurrent'
  BY <1>1, <1>2 DEF Calm, OneAtATime, NotTearingDown, OnlyCurrent
<1>5. EndedIsDone' /\ \A r \in Runs : ListsMatch(r)'
  BY <1>2 DEF Calm, EndedIsDone, ListsMatch
<1>6. ASSUME NEW s \in Sessions
      PROVE  Awaits(s)'
  <2>1. req[s].at \in Waits => current \in Runs
    BY <1>3, RosterAssumption DEF Calm, Awaits, Basics, RequestShape, Waits
  <2>2. req[s].at \in Waits \cup {"naming", "adding", "arming", "deleting"} => current \in Runs
    BY <2>1 DEF Waits
  <2>3. QED
    BY <1>1, <1>2, <2>2 DEF Calm, Awaits
<1>7. (TiersOf(current) \cup Arming)' = TiersOf(current) \cup Arming
  BY <1>1, <1>2, <1>3 DEF TiersOf, Arming
<1>8. QED
  BY <1>1, <1>4, <1>5, <1>6, <1>7 DEF Calm

\* The run a suspended request works on is the registered one.
LEMMA WorksOnCurrent ==
  ASSUME Basics, Calm, NEW s \in Sessions, req[s].at \in Waits
  PROVE  /\ req[s].run = current /\ current \in Runs /\ current # 0 /\ current <= made
         /\ run[current] \in RunRec
         /\ run[current].loop \in (IF req[s].fresh THEN {"none"} ELSE Working)
<1>1. req[s].run = current /\ run[current].loop \in (IF req[s].fresh THEN {"none"} ELSE Working)
  BY DEF Calm, Awaits
<1>2. current \in 1..made /\ made \in 0..MaxRuns /\ run \in [Runs -> RunRec]
  BY <1>1, Types DEF Basics, RequestShape, Waits
<1>3. QED
  BY <1>1, <1>2, RosterAssumption DEF Runs

\* A join arrives while nothing is under way.
LEMMA JoinArrivesCalm ==
  ASSUME Basics, Calm, NEW s \in Sessions, JoinArrives(s), Quiet
  PROVE  Calm'
<1>1. /\ req \in [Sessions -> ReqRec] /\ current \in 0..MaxRuns /\ made \in 0..MaxRuns
      /\ \A t \in Sessions : req[t].at = "idle" /\ fsTier' = fsTier
  BY Types DEF Basics, JoinArrives, Quiet, NoRequest
<1>2. \A r \in Runs : run[r].loop # "unwiring"
  <2>1. \A r \in Runs : r > made => run[r].loop = "none"
    BY DEF Basics, RunsInOrder, NewRun
  <2>2. \A r \in Runs : r \in 1..made \/ r > made
    BY <1>1, Blank
  <2>3. QED
    BY <2>1, <2>2 DEF Quiet
<1>3. fsTier = TiersOf(current)
  BY NoneArming DEF Calm, Quiet
<1>4. CASE Live(current)
  <2> DEFINE q0 == [at |-> "naming", run |-> current, fresh |-> FALSE, idx |-> 0]
  <2>1. current \in Runs /\ run[current].status \notin DONE_STATES
    BY <1>1, <1>4, RosterAssumption DEF Live, Runs
  <2>2. run[current].loop \in Working
    <3>1. run[current].loop # "none"
      BY <1>1, <1>4, <2>1 DEF Basics, NoIdleRun, RequestShape, Live, Runs
    <3>2. run[current].loop # "ended" /\ run[current].loop # "unwiring"
      BY <1>2, <2>1 DEF Calm, EndedIsDone
    <3>3. run[current].loop \in LoopPhase
      BY <2>1, Types DEF Basics, RunRec
    <3>4. QED
      BY <3>1, <3>2, <3>3 DEF LoopPhase, Working
  <2>3. /\ UNCHANGED <<run, current>>
        /\ \/ req' = [req EXCEPT ![s] = Idle]
           \/ req' = [req EXCEPT ![s] = q0] /\ ExtOf[s] \notin run[current].joinedAgents
    BY <1>4 DEF JoinArrives, TierAddEntered, JoinReturns
  <2>4. /\ \A t \in Sessions \ {s} : req'[t] = req[t]
        /\ req'[s] = Idle \/ (req'[s] = q0 /\ ExtOf[s] \notin run[current].joinedAgents)
    <3> HIDE DEF q0
    <3>1. CASE req' = [req EXCEPT ![s] = Idle]
      BY <1>1, <3>1
    <3>2. CASE req' = [req EXCEPT ![s] = q0] /\ ExtOf[s] \notin run[current].joinedAgents
      BY <1>1, <3>2
    <3>3. QED
      BY <2>3, <3>1, <3>2
  <2>5. Awaits(s)'
    BY <2>2, <2>3, <2>4 DEF Awaits, Waits, Idle
  <2>6. req'[s].at # "arming"
    BY <2>4 DEF Idle
  <2>7. QED
    BY <1>1, <1>2, <1>3, <2>3, <2>4, <2>5, <2>6, RunsAlone, RequestCalm
<1>5. CASE ~Live(current)
  <2> DEFINE q0 == [Idle EXCEPT !.at = "starting", !.fresh = TRUE]
  <2>1. req' = [req EXCEPT ![s] = q0] /\ UNCHANGED <<run, current>>
    BY <1>5 DEF JoinArrives
  <2>2. q0.at = "starting"
    BY DEF Idle
  <2> HIDE DEF q0
  <2>3. /\ \A t \in Sessions \ {s} : req'[t] = req[t]
        /\ req'[s].at = "starting"
    BY <1>1, <2>1, <2>2
  <2>4. \A r \in Runs : run[r].loop \in {"none", "ended"}
    <3> SUFFICES ASSUME NEW r \in Runs, run[r].loop \notin {"none", "ended"}
                 PROVE  FALSE
      OBVIOUS
    <3>1. run[r].loop \in Working
      BY <1>2, Types DEF Basics, RunRec, LoopPhase, Working
    <3>2. r = current /\ r # 0
      BY <3>1, Blank DEF Calm, OnlyCurrent
    <3>3. run[r].loop = "ended"
      BY <1>5, <3>2 DEF Live, Calm, EndedIsDone
    <3>4. QED
      BY <3>3
  <2>5. Awaits(s)'
    BY <2>1, <2>3, <2>4 DEF Awaits, Waits
  <2>6. QED
    BY <1>1, <1>2, <1>3, <2>1, <2>3, <2>5, RunsAlone, RequestCalm
<1>6. QED
  BY <1>4, <1>5

\* startRun registers its run, or refuses.
LEMMA StartCalm ==
  ASSUME Basics, Calm, NEW s \in Sessions, RunRegistered(s) \/ StartRefused(s)
  PROVE  Calm'
<1>1. /\ req \in [Sessions -> ReqRec] /\ current \in 0..MaxRuns /\ made \in 0..MaxRuns
      /\ req[s].at = "starting" /\ UNCHANGED <<run, fsTier>>
  BY Types DEF Basics, RunRegistered, StartRefused
<1>2. /\ \A t \in Sessions \ {s} : req[t].at = "idle"
      /\ \A r \in Runs : run[r].loop # "unwiring"
      /\ Arming = {}
  BY <1>1, OneRequest
<1>3. \A r \in Runs : run[r].loop \in {"none", "ended"}
  BY <1>1 DEF Calm, Awaits
<1>4. \A r \in Runs : TiersOf(r) = {}
  <2>1. \A r \in Runs : run[r].tiers = <<>> /\ run[r].dels = <<>>
    BY <1>3 DEF Calm, ListsMatch, Working
  <2>2. QED
    BY <2>1, NobodyInEmpty DEF TiersOf
<1>5. fsTier = {}
  <2>1. current # 0 => current \in Runs
    BY <1>1 DEF Runs
  <2>2. TiersOf(current) = {}
    BY <1>4, <2>1 DEF TiersOf
  <2>3. QED
    BY <1>2, <2>2 DEF Calm
<1>6. /\ \A r \in Runs : ListsMatch(r)'
      /\ EndedIsDone' /\ OnlyCurrent'
  BY <1>1, <1>3 DEF Calm, ListsMatch, EndedIsDone, OnlyCurrent, Working
<1>7. CASE RunRegistered(s)
  <2>1. /\ current' = made + 1 /\ made + 1 \in Runs /\ made + 1 # 0 /\ made + 1 > made
        /\ req' = [req EXCEPT ![s].at = "loading", ![s].run = made + 1]
    BY <1>1, <1>7, RosterAssumption DEF RunRegistered, Runs
  <2>2. /\ \A t \in Sessions \ {s} : req'[t] = req[t]
        /\ req'[s].at = "loading" /\ req'[s].run = made + 1 /\ req'[s].fresh
    BY <1>1, <2>1 DEF Basics, RequestShape, ReqRec
  <2>3. run[made + 1].loop = "none"
    BY <2>1 DEF Basics, RunsInOrder, NewRun
  <2>4. Awaits(s)'
    BY <1>1, <2>1, <2>2, <2>3 DEF Awaits
  <2>5. TiersOf(current)' = {}
    BY <1>1, <1>4, <2>1 DEF TiersOf
  <2>6. QED
    BY <1>1, <1>2, <1>5, <1>6, <2>2, <2>4, <2>5, RequestCalm
<1>8. CASE StartRefused(s)
  <2>1. current' = current /\ req' = [req EXCEPT ![s] = Idle]
    BY <1>8 DEF StartRefused
  <2>2. /\ \A t \in Sessions \ {s} : req'[t] = req[t]
        /\ req'[s].at = "idle"
    BY <1>1, <2>1 DEF Idle
  <2>3. Awaits(s)'
    BY <2>2 DEF Awaits, Waits
  <2>4. TiersOf(current)' = {}
    <3>1. current # 0 => current \in Runs
      BY <1>1 DEF Runs
    <3>2. QED
      BY <1>1, <1>4, <2>1, <3>1 DEF TiersOf
  <2>5. QED
    BY <1>1, <1>2, <1>5, <1>6, <2>2, <2>3, <2>4, RequestCalm
<1>9. QED
  BY <1>7, <1>8

\* loadQueue has returned well: the agent of a new run is not on its roster.
LEMMA QueueLoadedCalm ==
  ASSUME Basics, Calm, NEW s \in Sessions, QueueLoaded(s), ~raced'
  PROVE  Calm'
<1> DEFINE runs == [run EXCEPT ![current].queueLoaded = TRUE]
           q0   == [at |-> "naming", run |-> current, fresh |-> TRUE, idx |-> 0]
<1>1. /\ req \in [Sessions -> ReqRec] /\ run \in [Runs -> RunRec]
      /\ req[s].at = "loading" /\ req[s].fresh /\ fsTier' = fsTier
  BY Types DEF Basics, QueueLoaded, RequestShape
<1>2. /\ req[s].run = current /\ current \in Runs /\ current # 0
      /\ run[current].loop = "none"
  BY <1>1, WorksOnCurrent DEF Waits
<1>3. /\ \A t \in Sessions \ {s} : req[t].at = "idle"
      /\ \A r \in Runs : run[r].loop # "unwiring"
      /\ Arming = {}
  BY <1>1, OneRequest
<1>4. TierAddEntered(s, current, TRUE, runs, Tail(esl))
  BY <1>2 DEF QueueLoaded
<1>5. \A r \in Runs : /\ runs[r].loop = run[r].loop /\ runs[r].status = run[r].status
                      /\ runs[r].tiers = run[r].tiers /\ runs[r].dels = run[r].dels
                      /\ runs[r].joinedAgents = run[r].joinedAgents
  BY <1>1, <1>2 DEF RunRec
<1>6. ExtOf[s] \notin runs[current].joinedAgents
  BY <1>2, <1>5 DEF Calm, ListsMatch, Working
<1>7. run' = runs /\ req' = [req EXCEPT ![s] = q0] /\ UNCHANGED current
  BY <1>4, <1>6 DEF TierAddEntered
<1> HIDE DEF runs
<1>8. req'[s] = q0 /\ \A t \in Sessions \ {s} : req'[t] = req[t]
  BY <1>1, <1>7
<1>9. OnlyCurrent' /\ EndedIsDone' /\ \A r \in Runs : ListsMatch(r)'
  BY <1>5, <1>7 DEF Calm, OnlyCurrent, EndedIsDone, ListsMatch
<1>10. TiersOf(current)' = TiersOf(current)
  BY <1>2, <1>5, <1>7 DEF TiersOf
<1>11. Awaits(s)'
  BY <1>2, <1>5, <1>6, <1>7, <1>8 DEF Awaits
<1>12. fsTier = TiersOf(current) /\ req'[s].at # "arming"
  BY <1>3, <1>8 DEF Calm
<1>13. \A r \in Runs : run'[r].loop # "unwiring"
  BY <1>3, <1>5, <1>7
<1> HIDE DEF q0
<1>14. QED
  BY <1>1, <1>3, <1>8, <1>9, <1>10, <1>11, <1>12, <1>13, RequestCalm

\* A join that ends without its agent on the roster leaves the roster as it was,
\* and a new run, which is empty, unregistered.
LEMMA RefusedCalm ==
  ASSUME Basics, Calm, NEW s \in Sessions, req[s].at = "naming",
         JoinReturns(s, req[s].run, req[s].fresh, run), fsTier' = fsTier
  PROVE  Calm'
<1>1. /\ req \in [Sessions -> ReqRec] /\ run \in [Runs -> RunRec] /\ req[s].fresh \in BOOLEAN
  BY Types DEF Basics, ReqRec
<1>2. /\ req[s].run = current /\ current \in Runs /\ current # 0
      /\ run[current].loop \in (IF req[s].fresh THEN {"none"} ELSE Working)
  BY WorksOnCurrent DEF Waits
<1>3. /\ \A t \in Sessions \ {s} : req[t].at = "idle"
      /\ \A r \in Runs : run[r].loop # "unwiring"
      /\ Arming = {}
  BY OneRequest
<1>4. ExtOf[s] \notin run[current].joinedAgents
  BY DEF Calm, Awaits
<1>5. /\ run' = run /\ current' = IF req[s].fresh THEN 0 ELSE current
      /\ req' = [req EXCEPT ![s] = Idle]
  BY <1>2, <1>4 DEF JoinReturns
<1>6. req'[s].at = "idle" /\ \A t \in Sessions \ {s} : req'[t] = req[t]
  BY <1>1, <1>5 DEF Idle
<1>7. Awaits(s)'
  BY <1>6 DEF Awaits, Waits
<1>8. CASE ~req[s].fresh
  BY <1>3, <1>5, <1>6, <1>7, <1>8, RunsAlone, RequestCalm DEF Calm
<1>9. CASE req[s].fresh
  <2>1. current' = 0 /\ run[current].loop = "none"
    BY <1>2, <1>5, <1>9
  <2>2. OnlyCurrent'
    BY <1>5, <2>1 DEF Calm, OnlyCurrent, Working
  <2>3. EndedIsDone' /\ \A r \in Runs : ListsMatch(r)'
    BY <1>5 DEF Calm, EndedIsDone, ListsMatch
  <2>4. TiersOf(current) = {} /\ TiersOf(current)' = {}
    BY <1>2, <2>1, NobodyInEmpty DEF TiersOf, Calm, ListsMatch, Working
  <2>5. fsTier' = TiersOf(current)'
    BY <1>3, <2>4 DEF Calm
  <2>6. QED
    BY <1>3, <1>5, <1>6, <1>7, <2>2, <2>3, <2>5, RequestCalm
<1>10. QED
  BY <1>1, <1>8, <1>9

\* tierAddAgent goes on to its next command, or gives up.
LEMMA TierAddCalm ==
  ASSUME Basics, Calm, NEW s \in Sessions, AgentNamed(s) \/ TierAdded(s), ~raced'
  PROVE  Calm'
<1>1. /\ req \in [Sessions -> ReqRec] /\ req[s].at \in {"naming", "adding"}
      /\ ExtOf[s] \in Exts
  BY Types, RosterAssumption DEF Basics, AgentNamed, TierAdded
<1>2. CASE JoinReturns(s, req[s].run, req[s].fresh, run) /\ fsTier' = fsTier /\ req[s].at = "naming"
  BY <1>2, RefusedCalm
<1>3. CASE /\ UNCHANGED <<run, current>>
           /\ \/ req[s].at = "naming" /\ req' = [req EXCEPT ![s].at = "adding"] /\ fsTier' = fsTier
              \/ /\ req[s].at = "adding" /\ req' = [req EXCEPT ![s].at = "arming"]
                 /\ fsTier' = fsTier \cup {ExtOf[s]}
  <2>1. /\ req[s].run = current
        /\ run[current].loop \in (IF req[s].fresh THEN {"none"} ELSE Working)
    BY <1>1, WorksOnCurrent DEF Waits
  <2>2. /\ \A t \in Sessions \ {s} : req[t].at = "idle"
        /\ \A r \in Runs : run[r].loop # "unwiring"
        /\ Arming = {}
    BY <1>1, OneRequest
  <2>3. /\ \A t \in Sessions \ {s} : req'[t] = req[t]
        /\ req'[s].run = req[s].run /\ req'[s].fresh = req[s].fresh
        /\ \/ req'[s].at = "adding" /\ fsTier' = fsTier
           \/ req'[s].at = "arming" /\ fsTier' = fsTier \cup {ExtOf[s]}
    BY <1>1, <1>3 DEF ReqRec
  <2>4. ExtOf[s] \notin run[current].joinedAgents
    BY <1>1 DEF Calm, Awaits
  <2>5. Awaits(s)'
    BY <1>3, <2>1, <2>3, <2>4 DEF Awaits
  <2>6. fsTier = TiersOf(current)
    BY <2>2 DEF Calm
  <2>7. fsTier' = TiersOf(current)' \cup (IF req'[s].at = "arming" THEN {ExtOf[s]} ELSE {})
    BY <1>3, <2>3, <2>6, RunsAlone
  <2>8. QED
    BY <1>3, <2>2, <2>3, <2>5, <2>7, RunsAlone, RequestCalm
<1>4. QED
  BY <1>2, <1>3 DEF AgentNamed, TierAdded

\* The agent is attached: on both lists at once, as FreeSWITCH has it.
LEMMA AgentArmedCalm ==
  ASSUME Basics, Calm, NEW s \in Sessions, AgentArmed(s)
  PROVE  Calm'
<1> DEFINE runs == [run EXCEPT ![current].tiers = Append(@, ExtOf[s]),
                               ![current].joinedAgents = @ \cup {ExtOf[s]}]
           to == IF req[s].fresh THEN "dialing" ELSE run[current].loop
<1>1. /\ req \in [Sessions -> ReqRec] /\ run \in [Runs -> RunRec] /\ ExtOf[s] \in Exts
      /\ req[s].at = "arming" /\ fsTier' = fsTier /\ req[s].fresh \in BOOLEAN
  BY Types, RosterAssumption DEF Basics, AgentArmed, ReqRec
<1>2. /\ req[s].run = current /\ current \in Runs /\ current # 0 /\ run[current] \in RunRec
      /\ run[current].loop \in (IF req[s].fresh THEN {"none"} ELSE Working)
  BY <1>1, WorksOnCurrent DEF Waits
<1>3. /\ \A t \in Sessions \ {s} : req[t].at = "idle"
      /\ \A r \in Runs : run[r].loop # "unwiring"
      /\ Arming = {ExtOf[s]}
  BY <1>1, OneRequest
<1>4. /\ InSeq(run[current].tiers) = run[current].joinedAgents
      /\ NoDuplicates(run[current].tiers) /\ ExtOf[s] \notin run[current].joinedAgents
      /\ run[current].dels = <<>>
  <2>1. ExtOf[s] \notin run[current].joinedAgents /\ run[current].dels = <<>>
    BY <1>1, <1>2, <1>3 DEF Calm, Awaits, ListsMatch
  <2>2. InSeq(run[current].tiers) = run[current].joinedAgents /\ NoDuplicates(run[current].tiers)
    BY <1>2, NobodyInEmpty DEF Calm, ListsMatch, Working
  <2>3. QED
    BY <2>1, <2>2
<1>5. /\ Append(run[current].tiers, ExtOf[s]) \in Seq(Exts)
      /\ InSeq(Append(run[current].tiers, ExtOf[s])) = run[current].joinedAgents \cup {ExtOf[s]}
      /\ NoDuplicates(Append(run[current].tiers, ExtOf[s]))
  <2>1. run[current].tiers \in Seq(Exts)
    BY <1>2 DEF RunRec
  <2>2. QED
    BY <1>1, <1>4, <2>1, PushedTier
<1>6. JoinReturns(s, current, req[s].fresh, runs)
  BY <1>2 DEF AgentArmed
<1>7. /\ runs[current].tiers = Append(run[current].tiers, ExtOf[s])
      /\ runs[current].joinedAgents = run[current].joinedAgents \cup {ExtOf[s]}
      /\ runs[current].dels = <<>> /\ runs[current].loop = run[current].loop
      /\ runs[current].status = run[current].status
      /\ \A r \in Runs \ {current} : runs[r] = run[r]
      /\ runs \in [Runs -> RunRec]
  <2>1. run[current].joinedAgents \cup {ExtOf[s]} \subseteq Exts
    BY <1>1, <1>2 DEF RunRec
  <2>2. QED
    BY <1>1, <1>2, <1>4, <1>5, <2>1 DEF RunRec
<1> HIDE DEF runs
<1>8. /\ run' = IF req[s].fresh THEN [runs EXCEPT ![current].loop = "dialing"] ELSE runs
      /\ current' = current /\ req' = [req EXCEPT ![s] = Idle]
  BY <1>6, <1>7 DEF JoinReturns
<1>9. /\ run'[current].tiers = Append(run[current].tiers, ExtOf[s])
      /\ run'[current].joinedAgents = run[current].joinedAgents \cup {ExtOf[s]}
      /\ run'[current].dels = <<>> /\ run'[current].loop \in Working
      /\ run'[current].status = run[current].status
      /\ \A r \in Runs \ {current} : run'[r] = run[r]
  <2>1. CASE req[s].fresh
    BY <1>2, <1>7, <1>8, <2>1 DEF RunRec, Working
  <2>2. CASE ~req[s].fresh
    BY <1>2, <1>7, <1>8, <2>2
  <2>3. QED
    BY <1>1, <2>1, <2>2
<1>10. req'[s].at = "idle" /\ \A t \in Sessions \ {s} : req'[t] = req[t]
  BY <1>1, <1>8 DEF Idle
<1>11. Awaits(s)'
  BY <1>10 DEF Awaits, Waits
<1>12. OnlyCurrent' /\ EndedIsDone'
  BY <1>2, <1>8, <1>9 DEF Calm, OnlyCurrent, EndedIsDone, Working
<1>13. \A r \in Runs : ListsMatch(r)'
  <2>1. ListsMatch(current)'
    BY <1>5, <1>8, <1>9, NobodyInEmpty DEF ListsMatch, Working
  <2>2. ASSUME NEW r \in Runs \ {current}
        PROVE  ListsMatch(r)'
    BY <1>9 DEF Calm, ListsMatch
  <2>3. QED
    BY <1>8, <2>1, <2>2 DEF ListsMatch
<1>14. \A r \in Runs : run'[r].loop # "unwiring"
  BY <1>3, <1>9 DEF Working
<1>15. fsTier' = TiersOf(current)'
  <2>1. fsTier = run[current].joinedAgents \cup {ExtOf[s]}
    BY <1>2, <1>3, <1>4, NobodyInEmpty DEF Calm, TiersOf
  <2>2. TiersOf(current)' = run[current].joinedAgents \cup {ExtOf[s]}
    BY <1>2, <1>5, <1>8, <1>9, NobodyInEmpty DEF TiersOf
  <2>3. QED
    BY <1>1, <2>1, <2>2
<1>16. QED
  BY <1>3, <1>10, <1>11, <1>12, <1>13, <1>14, <1>15, RequestCalm

\* The end of a leave on the registered run: its agent is off the roster, and off
\* the tier list if it comes from one that agrees with the roster.
LEMMA LeftCalm ==
  ASSUME Basics, Calm, NEW s \in Sessions, NEW tiers \in Seq(Exts), current \in Runs,
         run[current].loop \in Working \cup {"ended"},
         Left(s, current, tiers), current' = current,
         \A t \in Sessions \ {s} : req[t].at = "idle",
         \A r \in Runs : run[r].loop # "unwiring",
         NoDuplicates(tiers), InSeq(tiers) = InSeq(run[current].tiers) \ {ExtOf[s]},
         run[current].loop = "ended" => tiers = <<>>,
         fsTier' = InSeq(tiers)
  PROVE  Calm'
<1> DEFINE joined == run[current].joinedAgents \ {ExtOf[s]}
           st == IF joined = {} /\ run[current].status = "running" THEN "stopping"
                 ELSE run[current].status
<1>1. /\ req \in [Sessions -> ReqRec] /\ run \in [Runs -> RunRec] /\ run[current] \in RunRec
  BY Types DEF Basics
<1>2. /\ run' = [run EXCEPT ![current].tiers = tiers, ![current].joinedAgents = joined,
                            ![current].status = st]
      /\ req' = [req EXCEPT ![s] = Idle]
  BY <1>1 DEF Left, RunRec
<1>3. st \in DONE_STATES <=> run[current].status \in DONE_STATES
  BY <1>1 DEF RunRec, DONE_STATES
<1> HIDE DEF st, joined
<1>4. /\ run'[current].tiers = tiers /\ run'[current].joinedAgents = joined
      /\ run'[current].status = st /\ run'[current].loop = run[current].loop
      /\ run'[current].dels = run[current].dels
      /\ \A r \in Runs \ {current} : run'[r] = run[r]
  BY <1>1, <1>2 DEF RunRec
<1>5. req'[s].at = "idle" /\ \A t \in Sessions \ {s} : req'[t] = req[t]
  BY <1>1, <1>2 DEF Idle
<1>6. Awaits(s)'
  BY <1>5 DEF Awaits, Waits
<1>7. OnlyCurrent' /\ EndedIsDone'
  BY <1>3, <1>4 DEF Calm, OnlyCurrent, EndedIsDone
<1>8. run[current].dels = <<>> /\ ListsMatch(current)
  BY DEF Calm, ListsMatch
<1>9. \A r \in Runs : ListsMatch(r)'
  <2>1. CASE run[current].loop = "ended"
    <3>1. tiers = <<>> /\ joined = {}
      BY <1>8, <2>1 DEF ListsMatch, Working, joined
    <3>2. ListsMatch(current)'
      BY <1>4, <1>8, <2>1, <3>1, NobodyInEmpty DEF ListsMatch, Working
    <3>3. QED
      BY <1>4, <3>2 DEF Calm, ListsMatch
  <2>2. CASE run[current].loop \in Working
    <3>1. InSeq(tiers) = joined
      BY <1>8, <2>2 DEF ListsMatch, joined
    <3>2. ListsMatch(current)'
      BY <1>4, <1>8, <2>2, <3>1, NobodyInEmpty DEF ListsMatch, Working
    <3>3. QED
      BY <1>4, <3>2 DEF Calm, ListsMatch
  <2>3. QED
    BY <2>1, <2>2
<1>10. \A r \in Runs : run'[r].loop # "unwiring"
  BY <1>4
<1>11. fsTier' = TiersOf(current)'
  BY <1>4, <1>8, NobodyInEmpty, Blank DEF TiersOf
<1>12. QED
  BY <1>5, <1>6, <1>7, <1>9, <1>10, <1>11, RequestCalm

\* agentLeave while nothing is under way.
LEMMA LeaveArrivesCalm ==
  ASSUME Basics, Calm, NEW s \in Sessions, LeaveArrives(s), Quiet
  PROVE  Calm'
<1> DEFINE idx == IF current = 0 THEN 0 ELSE FirstIndex(run[current].tiers, ExtOf[s])
           q0 == [at |-> "deleting", run |-> current, fresh |-> FALSE, idx |-> idx]
<1>1. /\ req \in [Sessions -> ReqRec] /\ current \in 0..MaxRuns /\ made \in 0..MaxRuns
      /\ run \in [Runs -> RunRec]
      /\ \A t \in Sessions : req[t].at = "idle"
      /\ fsTier' = fsTier /\ current' = current
  BY Types DEF Basics, LeaveArrives, Quiet, NoRequest
<1>2. \A r \in Runs : run[r].loop # "unwiring"
  <2>1. \A r \in Runs : r > made => run[r].loop = "none"
    BY DEF Basics, RunsInOrder, NewRun
  <2>2. \A r \in Runs : r \in 1..made \/ r > made
    BY <1>1, Blank
  <2>3. QED
    BY <2>1, <2>2 DEF Quiet
<1>3. fsTier = TiersOf(current)
  BY NoneArming DEF Calm, Quiet
<1>4. CASE current = 0
  <2>1. run' = run /\ req' = req
    BY <1>4 DEF LeaveArrives
  <2>2. Awaits(s)'
    BY <1>1, <2>1 DEF Awaits, Waits
  <2>3. QED
    BY <1>1, <1>2, <1>3, <2>1, <2>2, RunsAlone, RequestCalm
<1>5. CASE current # 0
  <2>1. current \in Runs /\ run[current].tiers \in Seq(Exts)
    BY <1>1, <1>5 DEF Runs, RunRec
  <2>2. run[current].loop \in Working \cup {"ended"}
    <3>1. run[current].loop # "none"
      BY <1>1, <1>5, <2>1 DEF Basics, NoIdleRun, RequestShape, Live, Runs, Calm, EndedIsDone
    <3>2. run[current].loop \in LoopPhase
      BY <1>1, <2>1 DEF RunRec
    <3>3. QED
      BY <1>2, <2>1, <3>1, <3>2 DEF LoopPhase, Working
  <2>3. /\ run[current].dels = <<>>
        /\ run[current].loop \in Working =>
             /\ InSeq(run[current].tiers) = run[current].joinedAgents
             /\ NoDuplicates(run[current].tiers)
        /\ run[current].loop = "ended" => run[current].tiers = <<>>
    BY <1>2, <2>1 DEF Calm, ListsMatch, Working
  <2>4. fsTier = InSeq(run[current].tiers)
    BY <1>3, <1>5, <2>3, NobodyInEmpty DEF TiersOf
  <2>5. /\ idx \in Nat
        /\ idx # 0 => idx \in 1..Len(run[current].tiers) /\ run[current].tiers[idx] = ExtOf[s]
        /\ idx = 0 => ExtOf[s] \notin InSeq(run[current].tiers)
    BY <1>5, <2>1, FirstIndexFinds
  <2>6. \/ idx = 0 /\ Left(s, current, run[current].tiers)
        \/ idx # 0 /\ req' = [req EXCEPT ![s] = q0] /\ UNCHANGED run
    BY <1>5 DEF LeaveArrives
  <2> HIDE DEF idx
  <2>7. CASE idx = 0 /\ Left(s, current, run[current].tiers)
    <3>1. InSeq(run[current].tiers) = InSeq(run[current].tiers) \ {ExtOf[s]}
      BY <2>5, <2>7
    <3>2. NoDuplicates(run[current].tiers)
      BY <2>2, <2>3, NobodyInEmpty
    <3>3. QED
      BY <1>1, <1>2, <2>1, <2>2, <2>3, <2>4, <2>7, <3>1, <3>2, LeftCalm
  <2>8. CASE idx # 0 /\ req' = [req EXCEPT ![s] = q0] /\ UNCHANGED run
    <3>1. req'[s] = q0 /\ \A t \in Sessions \ {s} : req'[t] = req[t]
      BY <1>1, <2>8
    <3>2. run[current].loop \in Working
      <4>1. run[current].tiers # <<>>
        BY <2>5, <2>8
      <4>2. QED
        BY <2>2, <2>3, <4>1
    <3>3. Awaits(s)'
      BY <1>1, <2>5, <2>8, <3>1, <3>2 DEF Awaits, Waits
    <3>4. req'[s].at # "arming"
      BY <3>1
    <3>5. QED
      BY <1>1, <1>2, <1>3, <2>8, <3>1, <3>3, <3>4, RunsAlone, RequestCalm
  <2>9. QED
    BY <2>6, <2>7, <2>8
<1>6. QED
  BY <1>4, <1>5

\* `tier del` has returned well: the entry found before the await is the agent's.
LEMMA TierDeletedCalm ==
  ASSUME Basics, Calm, NEW s \in Sessions, TierDeleted(s), ~raced'
  PROVE  Calm'
<1> DEFINE t == SpliceOne(run[current].tiers, req[s].idx)
<1>1. /\ req[s].at = "deleting" /\ current' = current /\ fsTier' = fsTier \ {ExtOf[s]}
      /\ req \in [Sessions -> ReqRec]
  BY Types DEF Basics, TierDeleted
<1>2. /\ req[s].run = current /\ current \in Runs /\ current # 0 /\ run[current] \in RunRec
      /\ run[current].loop \in Working
  BY <1>1, WorksOnCurrent DEF Waits, Basics, RequestShape
<1>3. /\ \A q \in Sessions \ {s} : req[q].at = "idle"
      /\ \A r \in Runs : run[r].loop # "unwiring"
      /\ Arming = {}
  BY <1>1, OneRequest
<1>4. /\ run[current].tiers \in Seq(Exts) /\ req[s].idx \in Nat
      /\ req[s].idx \in 1..Len(run[current].tiers)
      /\ run[current].tiers[req[s].idx] = ExtOf[s]
      /\ NoDuplicates(run[current].tiers) /\ run[current].dels = <<>>
  BY <1>1, <1>2, <1>3 DEF RunRec, ReqRec, Calm, Awaits, ListsMatch
<1>5. t \in Seq(Exts) /\ NoDuplicates(t) /\ InSeq(t) = InSeq(run[current].tiers) \ {ExtOf[s]}
  BY <1>4, SplicedTier
<1>6. Left(s, current, t)
  BY <1>2 DEF TierDeleted
<1> HIDE DEF t
<1>7. fsTier = InSeq(run[current].tiers)
  BY <1>2, <1>3, <1>4, NobodyInEmpty DEF Calm, TiersOf
<1>8. run[current].loop # "ended"
  BY <1>2 DEF Working
<1>9. QED
  BY <1>1, <1>2, <1>3, <1>5, <1>6, <1>7, <1>8, LeftCalm

\* A step of the loop while no request is in flight.
LEMMA AloneCalm ==
  ASSUME Basics, Calm, NoRequest, UNCHANGED <<current, req>>, current \in Runs,
         NEW rec \in RunRec, run' = [run EXCEPT ![current] = rec],
         rec.loop \in Working \cup {"unwiring", "ended"},
         rec.status \in DONE_STATES <=> rec.loop = "ended",
         ListsMatch(current)',
         fsTier' = InSeq(rec.tiers) \cup InSeq(rec.dels)
  PROVE  Calm'
<1>1. run \in [Runs -> RunRec] /\ \A s \in Sessions : req[s].at = "idle"
  BY Types DEF Basics, NoRequest
<1>2. run'[current] = rec /\ \A r \in Runs \ {current} : run'[r] = run[r]
  BY <1>1
<1>3. OneAtATime' /\ NotTearingDown' /\ \A s \in Sessions : Awaits(s)'
  BY <1>1 DEF OneAtATime, NotTearingDown, Awaits, Waits
<1>4. OnlyCurrent' /\ EndedIsDone'
  BY <1>2 DEF Calm, OnlyCurrent, EndedIsDone
<1>5. \A r \in Runs : ListsMatch(r)'
  BY <1>2 DEF Calm, ListsMatch
<1>6. TiersOf(current)' = InSeq(rec.tiers) \cup InSeq(rec.dels) /\ Arming' = {}
  BY <1>1, <1>2, Blank DEF TiersOf, Arming
<1>7. QED
  BY <1>3, <1>4, <1>5, <1>6 DEF Calm

\* unwireQueue takes the run's tiers for deletion while no request is in flight.
LEMMA UnwiringCalm ==
  ASSUME Basics, Calm, NoRequest, NEW r \in Runs, run[r].loop \in Working,
         NEW threw \in BOOLEAN, Unwiring(r, threw), UNCHANGED <<current, req, fsTier>>
  PROVE  Calm'
<1> DEFINE rec == Unwired(r, threw)
<1>1. r = current /\ run[r] \in RunRec
  BY Types DEF Basics, Calm, OnlyCurrent
<1>2. /\ run' = [run EXCEPT ![r] = rec] /\ rec \in RunRec
      /\ rec.loop = "unwiring" /\ rec.tiers = <<>> /\ rec.joinedAgents = {}
      /\ rec.dels = run[r].tiers /\ rec.status = run[r].status
  BY UnwiringLeaves
<1> HIDE DEF rec
<1>3. /\ InSeq(run[r].tiers) = run[r].joinedAgents /\ NoDuplicates(run[r].tiers)
      /\ run[r].dels = <<>> /\ run[r].status \notin DONE_STATES
  BY DEF Calm, ListsMatch, EndedIsDone, Working
<1>4. run'[r] = rec
  BY <1>2, Types DEF Basics
<1>5. ListsMatch(r)'
  BY <1>2, <1>3, <1>4 DEF ListsMatch, Working
<1>6. fsTier' = InSeq(rec.tiers) \cup InSeq(rec.dels)
  BY <1>1, <1>2, <1>3, NoneArming, NobodyInEmpty, Blank DEF Calm, TiersOf
<1>7. QED
  BY <1>1, <1>2, <1>3, <1>5, <1>6, AloneCalm

\* The dial loop's phases.
LEMMA LoopCalm ==
  ASSUME Basics, Calm, NEW r \in 1..made, LoopStep(r), ~raced, ~raced'
  PROVE  Calm'
<1>1. /\ made \in 0..MaxRuns /\ run \in [Runs -> RunRec] /\ r \in Runs /\ run[r] \in RunRec
  BY Types, Blank, RosterAssumption DEF Basics
<1>2. UNCHANGED <<current, req>> /\ ~LoopNeverStarts(r)
  BY DEF LoopStep, LoopNeverStarts, LoopThrows, LoopLeavesWhile, Drained, UnwireTier, RunEnds
<1>3. CASE \E threw \in BOOLEAN : Unwiring(r, threw) /\ run[r].loop \in Working /\ UNCHANGED fsTier
  <2>1. NoRequest
    BY <1>3 DEF Unwiring
  <2>2. QED
    BY <1>1, <1>2, <1>3, <2>1, UnwiringCalm
<1>4. CASE /\ run[r].loop = "dialing" /\ run' = [run EXCEPT ![r] = [@ EXCEPT !.loop = "draining"]]
           /\ UNCHANGED fsTier
  <2> DEFINE rec == [run[r] EXCEPT !.loop = "draining"]
  <2>1. r = current /\ current \in Runs
    BY <1>1, <1>4 DEF Calm, OnlyCurrent, Working
  <2>2. run' = [run EXCEPT ![r] = rec]
    BY <1>4
  <2>3. /\ rec.loop = "draining" /\ rec.tiers = run[r].tiers /\ rec.dels = run[r].dels
        /\ rec.joinedAgents = run[r].joinedAgents /\ rec.status = run[r].status
    BY <1>1 DEF RunRec
  <2> HIDE DEF rec
  <2>4. run'[r] = rec /\ \A q \in Runs \ {r} : run'[q] = run[q]
    BY <1>1, <2>2
  <2>5. OneAtATime' /\ NotTearingDown' /\ OnlyCurrent'
    BY <1>2, <2>1, <2>3, <2>4 DEF Calm, OneAtATime, NotTearingDown, OnlyCurrent
  <2>6. EndedIsDone' /\ \A q \in Runs : ListsMatch(q)'
    BY <1>4, <2>1, <2>3, <2>4 DEF Calm, EndedIsDone, ListsMatch, Working
  <2>7. ASSUME NEW s \in Sessions
        PROVE  Awaits(s)'
    <3>1. req[s].at # "starting"
      BY <1>4, <2>1 DEF Calm, Awaits
    <3>2. req[s].at \in Waits => run[current].loop \in Working /\ req[s].fresh = FALSE
      BY <1>4, <2>1, Types DEF Calm, Awaits, Basics, ReqRec
    <3>3. /\ run'[current].loop = "draining" /\ run'[current].tiers = run[current].tiers
          /\ run'[current].joinedAgents = run[current].joinedAgents
      BY <2>1, <2>3, <2>4
    <3>4. QED
      BY <1>2, <2>1, <3>1, <3>2, <3>3 DEF Calm, Awaits, Working
  <2>8. (TiersOf(current) \cup Arming)' = TiersOf(current) \cup Arming
    BY <1>2, <2>1, <2>3, <2>4 DEF TiersOf, Arming
  <2>9. QED
    BY <1>2, <1>4, <2>5, <2>6, <2>7, <2>8 DEF Calm
<1>5. CASE run[r].loop = "unwiring"
  <2>1. NoRequest /\ r = current
    BY <1>1, <1>5 DEF Calm, NotTearingDown, OnlyCurrent, NoRequest
  <2>2. /\ run[r].tiers = <<>> /\ run[r].joinedAgents = {} /\ NoDuplicates(run[r].dels)
        /\ run[r].status \notin DONE_STATES
    BY <1>1, <1>5 DEF Calm, ListsMatch, EndedIsDone, Working
  <2>3. fsTier = InSeq(run[r].dels)
    BY <1>1, <2>1, <2>2, NoneArming, NobodyInEmpty, Blank DEF Calm, TiersOf
  <2>4. CASE UnwireTier(r)
    <3> DEFINE rec == [run[r] EXCEPT !.dels = Tail(run[r].dels)]
    <3>1. /\ run' = [run EXCEPT ![r] = rec] /\ run[r].dels # <<>>
          /\ fsTier' = fsTier \ {Head(run[r].dels)}
      BY <2>4 DEF UnwireTier
    <3>2. run[r].dels \in Seq(Exts)
      BY <1>1 DEF RunRec
    <3>3. /\ Tail(run[r].dels) \in Seq(Exts) /\ NoDuplicates(Tail(run[r].dels))
          /\ InSeq(Tail(run[r].dels)) = InSeq(run[r].dels) \ {Head(run[r].dels)}
      BY <2>2, <3>1, <3>2, DroppedTier
    <3>4. /\ rec \in RunRec /\ rec.loop = "unwiring" /\ rec.dels = Tail(run[r].dels)
          /\ rec.tiers = <<>> /\ rec.joinedAgents = {} /\ rec.status = run[r].status
      BY <1>1, <1>5, <2>2, <3>3 DEF RunRec
    <3> HIDE DEF rec
    <3>5. run'[r] = rec
      BY <1>1, <3>1
    <3>6. ListsMatch(r)'
      BY <3>3, <3>4, <3>5 DEF ListsMatch, Working
    <3>7. fsTier' = InSeq(rec.tiers) \cup InSeq(rec.dels)
      BY <2>3, <3>1, <3>3, <3>4, NobodyInEmpty
    <3>8. QED
      BY <1>1, <1>2, <2>1, <2>2, <3>1, <3>4, <3>6, <3>7, AloneCalm
  <2>5. CASE RunEnds(r)
    <3> DEFINE st  == IF run[r].threw THEN "error"
                      ELSE IF run[r].status = "stopping" THEN "stopped" ELSE "done"
               rec == [run[r] EXCEPT !.queueLoaded = FALSE, !.loop = "ended", !.status = st]
    <3>1. run' = [run EXCEPT ![r] = rec] /\ run[r].dels = <<>> /\ fsTier' = fsTier
      BY <2>5 DEF RunEnds
    <3>2. st \in DONE_STATES
      BY DEF DONE_STATES
    <3> HIDE DEF st
    <3>3. /\ rec \in RunRec /\ rec.loop = "ended" /\ rec.dels = <<>>
          /\ rec.tiers = <<>> /\ rec.joinedAgents = {} /\ rec.status \in DONE_STATES
      BY <1>1, <2>2, <3>1, <3>2 DEF RunRec, LoopPhase
    <3> HIDE DEF rec
    <3>4. run'[r] = rec
      BY <1>1, <3>1
    <3>5. ListsMatch(r)'
      BY <3>3, <3>4, NobodyInEmpty DEF ListsMatch, Working
    <3>6. fsTier' = InSeq(rec.tiers) \cup InSeq(rec.dels)
      BY <2>3, <3>1, <3>3
    <3>7. QED
      BY <1>1, <1>2, <2>1, <3>1, <3>3, <3>5, <3>6, AloneCalm
  <2>6. QED
    BY <1>2, <1>5, <2>4, <2>5
       DEF LoopStep, LoopThrows, LoopLeavesWhile, Drained
<1>6. QED
  BY <1>2, <1>3, <1>4, <1>5
     DEF LoopStep, LoopThrows, LoopLeavesWhile, Drained, UnwireTier, RunEnds, Working

\* Every overlap, failed command or teardown met on the way is remembered, so a
\* state that is still calm came from a calm one.
LEMMA NextCalm ==
  ASSUME Basics, ~raced => Calm, [Next]_vars, ~raced'
  PROVE  Calm'
<1>1. ~raced
  BY DEF Next, vars, JoinArrives, LeaveArrives, RequestStep, RunRegistered, StartRefused,
         QueueLoaded, AgentNamed, TierAdded, AgentArmed, TierDeleted, ParticipationPoll,
         Restore, Refresh, stop, LoopStep, LoopNeverStarts, LoopThrows, LoopLeavesWhile,
         Drained, UnwireTier, RunEnds, Unwiring
<1>2. Calm
  BY <1>1
<1>3. ASSUME NEW s \in Sessions, JoinArrives(s) \/ LeaveArrives(s)
      PROVE  Calm'
  <2>1. Quiet
    BY <1>3 DEF JoinArrives, LeaveArrives
  <2>2. QED
    BY <1>2, <1>3, <2>1, JoinArrivesCalm, LeaveArrivesCalm
<1>4. ASSUME NEW s \in Sessions, RequestStep(s)
      PROVE  Calm'
  BY <1>2, <1>4, StartCalm, QueueLoadedCalm, TierAddCalm, AgentArmedCalm, TierDeletedCalm
     DEF RequestStep
<1>5. CASE (\E s \in Sessions : ParticipationPoll(s) \/ Restore(s) \/ Refresh(s)) \/ stop
  BY <1>2, <1>5, ConsoleCalm
<1>6. CASE \E r \in 1..made : LoopStep(r)
  BY <1>1, <1>2, <1>6, LoopCalm
<1>7. CASE UNCHANGED vars
  BY <1>2, <1>7 DEF vars, Calm, OneAtATime, NotTearingDown, OnlyCurrent, EndedIsDone, Awaits,
                    ListsMatch, TiersOf, Arming
<1>8. QED
  BY <1>3, <1>4, <1>5, <1>6, <1>7 DEF Next

\* What calm runs and requests mean for the roster.
LEMMA CalmRoster ==
  ASSUME Basics, Calm
  PROVE  RosterStaysTrue
<1>1. current \in 0..MaxRuns /\ made \in 0..MaxRuns
  BY Types DEF Basics
<1>2. \A r \in 1..made : r \in Runs /\ r # 0
  BY <1>1, Blank, RosterAssumption
<1>3. ASSUME NoRequest, NEW r \in 1..made, run[r].loop \in Working
      PROVE  /\ InSeq(run[r].tiers) = run[r].joinedAgents /\ NoDuplicates(run[r].tiers)
             /\ fsTier = InSeq(run[r].tiers)
  <2>1. r = current /\ r # 0 /\ ListsMatch(r)
    BY <1>2, <1>3 DEF Calm, OnlyCurrent
  <2>2. fsTier = InSeq(run[r].tiers) \cup InSeq(run[r].dels)
    BY <1>3, <2>1, NoneArming DEF Calm, TiersOf
  <2>3. run[r].dels = <<>>
    BY <1>3, <2>1 DEF ListsMatch, Working
  <2>4. QED
    BY <1>3, <2>1, <2>2, <2>3, NobodyInEmpty DEF ListsMatch
<1>4. ASSUME NoRequest, \A r \in 1..made : run[r].loop \in {"none", "ended"}
      PROVE  fsTier = {} /\ \A r \in 1..made : run[r].tiers = <<>> /\ run[r].joinedAgents = {}
  <2>1. \A r \in 1..made : run[r].tiers = <<>> /\ run[r].joinedAgents = {} /\ run[r].dels = <<>>
    BY <1>2, <1>4 DEF Calm, ListsMatch, Working
  <2>2. current # 0 => current \in 1..made
    BY <1>1 DEF Basics, RunsInOrder
  <2>3. QED
    BY <1>4, <2>1, <2>2, NoneArming, NobodyInEmpty DEF Calm, TiersOf
<1>5. QED
  BY <1>3, <1>4 DEF RosterStaysTrue, RosterMatchesTiers, TornDownClean, Working

\* agentJoin, agentLeave and unwireQueue: as long as no request overlaps another one or
\* a teardown and no command fails, run, roster and FreeSWITCH's tiers agree between
\* requests, and nobody is left tiered after a run.
THEOREM RosterAgrees == Spec => []RosterStaysTrue
<1>1. Init => IInv
  BY InitBasics, InitCalm DEF IInv
<1>2. IInv /\ [Next]_vars => IInv'
  BY NextBasics, NextCalm DEF IInv
<1>3. IInv => RosterStaysTrue
  <2>1. raced => RosterStaysTrue
    BY DEF RosterStaysTrue, RosterMatchesTiers, TornDownClean
  <2>2. QED
    BY <2>1, CalmRoster DEF IInv
<1>4. QED
  BY <1>1, <1>2, <1>3, PTL DEF Spec
=============================================================================
