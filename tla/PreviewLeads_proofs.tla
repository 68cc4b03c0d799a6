------------------------ MODULE PreviewLeads_proofs -------------------------
(***************************************************************************)
(* Preview dialing for any leads, agents and limits: proofs that           *)
(* reservations stay counted, that a Console's lead is reserved for it     *)
(* alone, and that a Do Not Call lead stays one.                           *)
(*                                                                         *)
(* The first is inductive once a request is known to hold what its step    *)
(* needs.  The other two are not: that a reservation protects its holder   *)
(* rests on what the requests in flight have found, since Reserve takes    *)
(* its lead whatever has become of it.  Without a clash a lead found is    *)
(* still free and found by one request only, and a lead being disposed of  *)
(* is the one its agent's Console shows.                                   *)
(***************************************************************************)
EXTENDS PreviewLeads, TLAPS

\* A suspended request knows its lead, and a disposition what was picked.
RequestsHold ==
  \A a \in Agents :
    /\ req[a].at \in {"reserving", "disposing"} => req[a].lead \in Leads
    /\ req[a].at = "disposing" => /\ req[a].picked \in Dispositions
                                  /\ req[a].lead = holds[a]
    /\ req[a].at \in {"finding", "resurfacing", "reserving"} => holds[a] = None

\* Without a clash what a request has found is free, and no other found it.
FoundIsFree ==
  ~clashed =>
    \A a \in Agents : req[a].at = "reserving" =>
      /\ status[req[a].lead] \in {"new", "skipped"}
      /\ \A b \in Agents : req[b].at = "reserving" /\ req[b].lead = req[a].lead => a = b

IInv ==
  /\ ReservationsCounted
  /\ RequestsHold
  /\ FoundIsFree
  /\ HeldIsReserved

-----------------------------------------------------------------------------
\* findFirst returns a lead with the status asked for, or nothing.
LEMMA FirstHasStatus ==
  ASSUME NEW order, NEW s
  PROVE  \/ FirstWith(order, s) = None
         \/ FirstWith(order, s) \in Leads /\ status[FirstWith(order, s)] = s
<1> DEFINE hits   == {l \in Leads : status[l] = s}
           oldest == {l \in hits : \A k \in hits : <<k, l>> \notin order}
<1>1. CASE oldest = {}
  BY <1>1 DEF FirstWith
<1>2. CASE oldest # {}
  <2>1. FirstWith(order, s) \in oldest
    BY <1>2 DEF FirstWith
  <2>2. QED
    BY <2>1
<1>3. QED
  BY <1>1, <1>2

\* An update keeps the order one of leads.
LEMMA TouchedIsAnOrder ==
  ASSUME updatedBefore \subseteq Leads \X Leads, NEW updated \in SUBSET Leads
  PROVE  Touched(updated) \subseteq Leads \X Leads
BY DEF Touched

\* No outcome reserves a lead.
LEMMA OutcomeReservesNothing ==
  ASSUME NEW outcome, NEW seen
  PROVE  statusAfter(outcome, seen, MaxAttempts) \in {"new", "dnc", "done"}
BY DEF statusAfter

\* A step that counts nothing and reserves nothing keeps reservations counted.
LEMMA StillCounted ==
  ASSUME ReservationsCounted, TypeOK', attempts' = attempts,
         \A l \in Leads : status'[l] = "dialing" => status[l] = "dialing"
  PROVE  ReservationsCounted'
<1>1. \A l \in Leads : attempts[l] \in 0..MaxReservations
  BY DEF ReservationsCounted, TypeOK
<1>2. QED
  BY <1>1, PreviewAssumption DEF ReservationsCounted

LEMMA InitInv == Init => IInv
<1> SUFFICES ASSUME Init
             PROVE  IInv
  OBVIOUS
<1>1. None \notin Leads /\ 0 \in 0..MaxReservations /\ CreatedBefore \subseteq Leads \X Leads
  BY PreviewAssumption
<1>2. req \in [Agents -> [at : {"idle", "finding", "resurfacing", "reserving", "disposing"},
                          lead : Leads \cup {None}, seen : 0..MaxReservations,
                          picked : Dispositions \cup {None}, completed : BOOLEAN]]
  BY <1>1 DEF Init, Idle
<1>3. TypeOK
  BY <1>1, <1>2 DEF Init, TypeOK, Status
<1>4. \A l \in Leads : attempts[l] = 0 /\ status[l] = "new"
  BY DEF Init
<1>5. \A a \in Agents : req[a].at = "idle" /\ holds[a] = None
  BY DEF Init, Idle
<1>6. ReservationsCounted
  BY <1>3, <1>4 DEF ReservationsCounted
<1>7. RequestsHold /\ FoundIsFree /\ HeldIsReserved
  BY <1>5 DEF RequestsHold, FoundIsFree, HeldIsReserved
<1>8. QED
  BY <1>6, <1>7 DEF IInv

\* next arrives: what it reclaims is found by nobody, and a clash if anybody works it.
LEMMA NextArrivesInv ==
  ASSUME IInv, NEW a \in Agents, NextArrives(a)
  PROVE  IInv'
<1> DEFINE quiet == {l \in stale : status[l] = "dialing"}
<1>1. /\ req[a].at = "idle" /\ holds[a] = None /\ holds' = holds
      /\ status' = [l \in Leads |-> IF l \in quiet THEN "new" ELSE status[l]]
      /\ attempts' = [l \in Leads |-> IF l \in quiet THEN attempts[l] - 1 ELSE attempts[l]]
      /\ updatedBefore' = Touched(quiet) /\ stale' = stale \ quiet /\ last' = last
      /\ clashed' = (clashed \/ \E l \in quiet : BusyElsewhere(a, l))
      /\ req' = [req EXCEPT ![a].at = "finding"]
  BY DEF NextArrives
<1>2. TypeOK /\ quiet \subseteq Leads
  BY DEF IInv, ReservationsCounted, TypeOK
<1>3. /\ \A b \in Agents \ {a} : req'[b] = req[b]
      /\ req'[a].at = "finding" /\ req'[a].lead = req[a].lead
  BY <1>1, <1>2 DEF TypeOK
<1>4. \A l \in Leads : /\ attempts[l] \in 0..MaxReservations
                       /\ status[l] = "dialing" => attempts[l] >= 1
  BY <1>2 DEF IInv, ReservationsCounted, TypeOK
<1>5. /\ status' \in [Leads -> Status]
      /\ attempts' \in [Leads -> 0..MaxReservations]
      /\ \A l \in Leads : /\ attempts'[l] >= 0
                          /\ status'[l] = "dialing" => attempts'[l] >= 1
      /\ \A l \in Leads : status'[l] = IF l \in quiet THEN "new" ELSE status[l]
  <2>1. status' \in [Leads -> Status]
    BY <1>1, <1>2 DEF TypeOK, Status
  <2>2. ASSUME NEW l \in Leads
        PROVE  /\ attempts'[l] \in 0..MaxReservations
               /\ status'[l] = "dialing" => attempts'[l] >= 1
    BY <1>1, <1>4, PreviewAssumption
  <2>3. QED
    BY <1>1, <2>1, <2>2
<1>6. TypeOK'
  <2>1. updatedBefore' \subseteq Leads \X Leads
    BY <1>1, <1>2, TouchedIsAnOrder DEF TypeOK
  <2>2. clashed' \in BOOLEAN /\ stale' \subseteq Leads
    BY <1>1, <1>2 DEF TypeOK
  <2>3. req' \in [Agents -> [at : {"idle", "finding", "resurfacing", "reserving", "disposing"},
                             lead : Leads \cup {None}, seen : 0..MaxReservations,
                             picked : Dispositions \cup {None}, completed : BOOLEAN]]
    BY <1>1, <1>2 DEF TypeOK
  <2>4. QED
    BY <1>1, <1>2, <1>5, <2>1, <2>2, <2>3 DEF TypeOK
<1>7. ReservationsCounted'
  BY <1>5, <1>6 DEF ReservationsCounted
<1>8. RequestsHold'
  BY <1>1, <1>3 DEF IInv, RequestsHold
<1>9. FoundIsFree' /\ HeldIsReserved'
  <2> SUFFICES ASSUME ~clashed'
               PROVE  FoundIsFree' /\ HeldIsReserved'
    BY DEF FoundIsFree, HeldIsReserved
  <2>1. ~clashed /\ \A l \in quiet : ~BusyElsewhere(a, l)
    BY <1>1
  <2>2. FoundIsFree'
    BY <1>2, <1>3, <1>5, <2>1 DEF IInv, FoundIsFree, RequestsHold
  <2>3. ASSUME NEW b \in Agents, holds[b] # None
        PROVE  status'[holds[b]] = "dialing"
    <3>1. b # a /\ holds[b] \in Leads /\ status[holds[b]] = "dialing"
      BY <1>1, <1>2, <2>1, <2>3 DEF IInv, HeldIsReserved, TypeOK
    <3>2. holds[b] \notin quiet
      BY <2>1, <3>1 DEF BusyElsewhere
    <3>3. QED
      BY <1>5, <3>1, <3>2
  <2>4. HeldIsReserved'
    BY <1>1, <2>1, <2>3 DEF IInv, HeldIsReserved
  <2>5. QED
    BY <2>2, <2>4
<1>10. QED
  BY <1>7, <1>8, <1>9 DEF IInv

\* A findFirst returns: the lead is free, and a clash if another request has found it.
LEMMA FindInv ==
  ASSUME IInv, NEW a \in Agents, FindNew(a) \/ FindSkipped(a)
  PROVE  IInv'
<1>1. PICK l \in Leads \cup {None}, next \in {"resurfacing", "idle"} :
        /\ Found(a, l, next) /\ req[a].at \in {"finding", "resurfacing"}
        /\ l # None => status[l] \in {"new", "skipped"}
  BY FirstHasStatus DEF FindNew, FindSkipped
<1>2. TypeOK /\ None \notin Leads
  BY PreviewAssumption DEF IInv, ReservationsCounted
<1>3. /\ UNCHANGED <<leadVars, holds>>
      /\ clashed' = (clashed \/ \E b \in Agents : req[b].at = "reserving" /\ req[b].lead = l)
      /\ \A b \in Agents \ {a} : req'[b] = req[b]
      /\ req'[a].at = (IF l = None THEN next ELSE "reserving") /\ req'[a].lead = l
  BY <1>1, <1>2 DEF Found, TypeOK
<1>4. TypeOK'
  <2>1. req' \in [Agents -> [at : {"idle", "finding", "resurfacing", "reserving", "disposing"},
                             lead : Leads \cup {None}, seen : 0..MaxReservations,
                             picked : Dispositions \cup {None}, completed : BOOLEAN]]
    <3>1. PICK at \in {"resurfacing", "idle", "reserving"} :
            req' = [req EXCEPT ![a] = [Idle EXCEPT !.at = at, !.lead = l]]
      BY <1>1 DEF Found
    <3>2. [Idle EXCEPT !.at = at, !.lead = l]
            \in [at : {"idle", "finding", "resurfacing", "reserving", "disposing"},
                 lead : Leads \cup {None}, seen : 0..MaxReservations,
                 picked : Dispositions \cup {None}, completed : BOOLEAN]
      <4>1. at \in {"idle", "finding", "resurfacing", "reserving", "disposing"}
        BY <3>1
      <4>2. l \in Leads \cup {None} /\ 0 \in 0..MaxReservations
        BY <1>1, PreviewAssumption
      <4>3. QED
        BY <4>1, <4>2 DEF Idle
    <3>3. QED
      BY <1>2, <3>1, <3>2 DEF TypeOK
  <2>2. clashed' \in BOOLEAN
    BY <1>2, <1>3 DEF TypeOK
  <2>3. QED
    BY <1>2, <1>3, <2>1, <2>2 DEF TypeOK, leadVars
<1>5. ReservationsCounted'
  BY <1>3, <1>4 DEF IInv, ReservationsCounted, leadVars
<1>6. RequestsHold'
  BY <1>1, <1>2, <1>3 DEF IInv, RequestsHold
<1>7. HeldIsReserved'
  BY <1>3 DEF IInv, HeldIsReserved, leadVars
<1>8. FoundIsFree'
  <2> SUFFICES ASSUME ~clashed'
               PROVE  FoundIsFree'
    BY DEF FoundIsFree
  <2>1. ~clashed /\ \A b \in Agents : ~(req[b].at = "reserving" /\ req[b].lead = l)
    BY <1>3
  <2>2. req'[a].at = "reserving" => l # None
    BY <1>1, <1>3
  <2>3. QED
    BY <1>1, <1>3, <2>1, <2>2 DEF IInv, FoundIsFree, leadVars
<1>9. QED
  BY <1>5, <1>6, <1>7, <1>8 DEF IInv

\* The lead found is reserved: without a clash nobody had it.
LEMMA ReserveInv ==
  ASSUME IInv, NEW a \in Agents, Reserve(a)
  PROVE  IInv'
<1> DEFINE l == req[a].lead
<1>1. TypeOK /\ None \notin Leads /\ req[a].at = "reserving" /\ l \in Leads /\ holds[a] = None
  BY PreviewAssumption DEF IInv, ReservationsCounted, RequestsHold, Reserve
<1>2. /\ attempts[l] < MaxReservations
      /\ status' = [status EXCEPT ![l] = "dialing"]
      /\ attempts' = [attempts EXCEPT ![l] = @ + 1]
      /\ updatedBefore' = Touched({l}) /\ stale' = stale \ {l}
      /\ holds' = [holds EXCEPT ![a] = l] /\ req' = [req EXCEPT ![a] = Idle]
      /\ UNCHANGED <<last, clashed>>
  BY DEF Reserve
<1>3. /\ \A b \in Agents \ {a} : req'[b] = req[b] /\ holds'[b] = holds[b]
      /\ req'[a].at = "idle" /\ holds'[a] = l
      /\ \A k \in Leads \ {l} : status'[k] = status[k] /\ attempts'[k] = attempts[k]
      /\ status'[l] = "dialing" /\ attempts'[l] = attempts[l] + 1
  BY <1>1, <1>2 DEF TypeOK, Idle
<1>4. \A k \in Leads : attempts[k] \in 0..MaxReservations
  BY <1>1 DEF TypeOK
<1>5. TypeOK'
  <2>1. attempts' \in [Leads -> 0..MaxReservations]
    <3>1. attempts[l] + 1 \in 0..MaxReservations
      BY <1>1, <1>2, <1>4, PreviewAssumption
    <3>2. QED
      BY <1>1, <1>2, <3>1 DEF TypeOK
  <2>2. updatedBefore' \subseteq Leads \X Leads
    BY <1>1, <1>2, TouchedIsAnOrder DEF TypeOK
  <2>3. Idle \in [at : {"idle", "finding", "resurfacing", "reserving", "disposing"},
                  lead : Leads \cup {None}, seen : 0..MaxReservations,
                  picked : Dispositions \cup {None}, completed : BOOLEAN]
    BY PreviewAssumption DEF Idle
  <2>4. status' \in [Leads -> Status]
    BY <1>1, <1>2 DEF TypeOK, Status
  <2>5. QED
    BY <1>1, <1>2, <2>1, <2>2, <2>3, <2>4 DEF TypeOK
<1>6. ReservationsCounted'
  BY <1>1, <1>3, <1>4, <1>5 DEF IInv, ReservationsCounted
<1>7. RequestsHold'
  BY <1>3 DEF IInv, RequestsHold
<1>8. FoundIsFree' /\ HeldIsReserved'
  <2> SUFFICES ASSUME ~clashed
               PROVE  FoundIsFree' /\ HeldIsReserved'
    BY <1>2 DEF FoundIsFree, HeldIsReserved
  <2>1. /\ status[l] \in {"new", "skipped"}
        /\ \A b \in Agents \ {a} : req[b].at = "reserving" => req[b].lead # l
    BY <1>1 DEF IInv, FoundIsFree
  <2>2. \A b \in Agents : holds[b] # l
    BY <1>1, <2>1 DEF IInv, HeldIsReserved
  <2>3. \A b \in Agents : req[b].at = "reserving" => req[b].lead \in Leads
    BY DEF IInv, RequestsHold
  <2>4. FoundIsFree'
    BY <1>3, <2>1, <2>3 DEF IInv, FoundIsFree
  <2>5. \A b \in Agents : holds[b] \in Leads \cup {None}
    BY <1>1 DEF TypeOK
  <2>6. HeldIsReserved'
    BY <1>1, <1>3, <2>2, <2>5 DEF IInv, HeldIsReserved
  <2>7. QED
    BY <2>4, <2>6
<1>9. QED
  BY <1>6, <1>7, <1>8 DEF IInv

\* A step that puts down the lead a Console shows, whatever it makes of it.
LEMMA PutDownInv ==
  ASSUME IInv, NEW a \in Agents, holds[a] # None, ReservationsCounted',
         req' = req \/ req' = [req EXCEPT ![a] = Idle],
         req[a].at \in {"idle", "disposing"}, req'[a].at = "idle",
         holds' = [holds EXCEPT ![a] = None], clashed' = clashed,
         \A k \in Leads : k # holds[a] => status'[k] = status[k]
  PROVE  IInv'
<1>1. TypeOK /\ None \notin Leads
  BY PreviewAssumption DEF IInv, ReservationsCounted
<1>2. \A b \in Agents \ {a} : req'[b] = req[b] /\ holds'[b] = holds[b]
  BY <1>1 DEF TypeOK
<1>3. holds'[a] = None /\ holds[a] \in Leads /\ \A b \in Agents : holds[b] \in Leads \cup {None}
  BY <1>1 DEF TypeOK
<1>4. RequestsHold'
  BY <1>2 DEF IInv, RequestsHold
<1>5. FoundIsFree' /\ HeldIsReserved'
  <2> SUFFICES ASSUME ~clashed
               PROVE  FoundIsFree' /\ HeldIsReserved'
    BY DEF FoundIsFree, HeldIsReserved
  <2>1. status[holds[a]] = "dialing" /\ \A b \in Agents \ {a} : holds[b] # holds[a]
    BY DEF IInv, HeldIsReserved
  <2>2. \A b \in Agents : req[b].at = "reserving" => /\ req[b].lead \in Leads
                                                     /\ req[b].lead # holds[a]
    BY <2>1 DEF IInv, FoundIsFree, RequestsHold
  <2>3. FoundIsFree'
    BY <1>2, <2>2 DEF IInv, FoundIsFree
  <2>4. HeldIsReserved'
    BY <1>2, <1>3, <2>1 DEF IInv, HeldIsReserved
  <2>5. QED
    BY <2>3, <2>4
<1>6. QED
  BY <1>4, <1>5 DEF IInv

\* The disposition is written: the lead put down is no longer reserved.
LEMMA DisposeWritesInv ==
  ASSUME IInv, NEW a \in Agents, DisposeWrites(a)
  PROVE  IInv'
<1> DEFINE l == req[a].lead
           s == statusAfter(previewOutcome(req[a].picked, req[a].completed),
                            req[a].seen, MaxAttempts)
<1>1. /\ TypeOK /\ None \notin Leads /\ req[a].at = "disposing"
      /\ l \in Leads /\ l = holds[a] /\ req[a].picked \in Dispositions
  BY PreviewAssumption DEF IInv, ReservationsCounted, RequestsHold, DisposeWrites
<1>2. /\ status' = [status EXCEPT ![l] = s] /\ last' = [last EXCEPT ![l] = req[a].picked]
      /\ updatedBefore' = Touched({l}) /\ stale' = stale \ {l}
      /\ holds' = [holds EXCEPT ![a] = None] /\ req' = [req EXCEPT ![a] = Idle]
      /\ UNCHANGED <<attempts, clashed>>
  BY DEF DisposeWrites
<1>3. s \in {"new", "dnc", "done"}
  BY OutcomeReservesNothing
<1> HIDE DEF s
<1>4. TypeOK'
  <2>1. updatedBefore' \subseteq Leads \X Leads
    BY <1>1, <1>2, TouchedIsAnOrder DEF TypeOK
  <2>2. Idle \in [at : {"idle", "finding", "resurfacing", "reserving", "disposing"},
                  lead : Leads \cup {None}, seen : 0..MaxReservations,
                  picked : Dispositions \cup {None}, completed : BOOLEAN]
    BY PreviewAssumption DEF Idle
  <2>3. status' \in [Leads -> Status]
    BY <1>1, <1>2, <1>3 DEF TypeOK, Status
  <2>4. last' \in [Leads -> Dispositions \cup {None, "Skipped"}]
    BY <1>1, <1>2 DEF TypeOK
  <2>5. QED
    BY <1>1, <1>2, <2>1, <2>2, <2>3, <2>4 DEF TypeOK
<1>5. ReservationsCounted'
  <2>1. \A k \in Leads : status'[k] = "dialing" => status[k] = "dialing"
    BY <1>1, <1>2, <1>3 DEF TypeOK
  <2>2. QED
    BY <1>2, <1>4, <2>1, StillCounted DEF IInv
<1>6. req'[a].at = "idle" /\ holds[a] # None
  BY <1>1, <1>2 DEF TypeOK, Idle
<1>7. \A k \in Leads : k # holds[a] => status'[k] = status[k]
  BY <1>1, <1>2 DEF TypeOK
<1>8. QED
  BY <1>1, <1>2, <1>5, <1>6, <1>7, PutDownInv

\* A skip, and a Console that goes away: the lead is put down.
LEMMA SkipInv ==
  ASSUME IInv, NEW a \in Agents, Skip(a) \/ Abandon(a)
  PROVE  IInv'
<1> DEFINE l == holds[a]
<1>1. TypeOK /\ None \notin Leads /\ req[a].at = "idle" /\ l \in Leads
  BY PreviewAssumption DEF IInv, ReservationsCounted, TypeOK, Skip, Abandon
<1>2. /\ status' \in {status, [status EXCEPT ![l] = "skipped"]}
      /\ last' \in {last, [last EXCEPT ![l] = "Skipped"]}
      /\ updatedBefore' \in {updatedBefore, Touched({l})} /\ stale' \in {stale, stale \ {l}}
      /\ holds' = [holds EXCEPT ![a] = None]
      /\ UNCHANGED <<attempts, req, clashed>>
  BY DEF Skip, Abandon, leadVars
<1>3. TypeOK'
  <2>1. updatedBefore' \subseteq Leads \X Leads
    BY <1>1, <1>2, TouchedIsAnOrder DEF TypeOK
  <2>2. status' \in [Leads -> Status] /\ last' \in [Leads -> Dispositions \cup {None, "Skipped"}]
    BY <1>1, <1>2 DEF TypeOK, Status
  <2>3. QED
    BY <1>1, <1>2, <2>1, <2>2 DEF TypeOK
<1>4. ReservationsCounted'
  <2>1. \A k \in Leads : status'[k] = "dialing" => status[k] = "dialing"
    BY <1>1, <1>2 DEF TypeOK
  <2>2. QED
    BY <1>2, <1>3, <2>1, StillCounted DEF IInv
<1>5. \A k \in Leads : k # holds[a] => status'[k] = status[k]
  BY <1>1, <1>2 DEF TypeOK
<1>6. QED
  BY <1>1, <1>2, <1>4, <1>5, PutDownInv

\* A disposition arrives, for the lead the Console shows.
LEMMA DisposeArrivesInv ==
  ASSUME IInv, NEW a \in Agents, DisposeArrives(a)
  PROVE  IInv'
<1>1. TypeOK /\ None \notin Leads /\ req[a].at = "idle" /\ holds[a] \in Leads
  BY PreviewAssumption DEF IInv, ReservationsCounted, TypeOK, DisposeArrives
<1>2. PICK d \in Dispositions, completed \in BOOLEAN :
        req' = [req EXCEPT ![a] = [at |-> "disposing", lead |-> holds[a],
                                   seen |-> attempts[holds[a]],
                                   picked |-> d, completed |-> completed]]
  BY DEF DisposeArrives
<1>3. UNCHANGED <<leadVars, holds, clashed>>
  BY DEF DisposeArrives
<1>4. /\ \A b \in Agents \ {a} : req'[b] = req[b]
      /\ req'[a].at = "disposing" /\ req'[a].lead = holds[a] /\ req'[a].picked = d
  BY <1>1, <1>2 DEF TypeOK
<1>5. TypeOK'
  <2>1. attempts[holds[a]] \in 0..MaxReservations
    BY <1>1 DEF TypeOK
  <2>2. req' \in [Agents -> [at : {"idle", "finding", "resurfacing", "reserving", "disposing"},
                             lead : Leads \cup {None}, seen : 0..MaxReservations,
                             picked : Dispositions \cup {None}, completed : BOOLEAN]]
    BY <1>1, <1>2, <2>1 DEF TypeOK
  <2>3. QED
    BY <1>1, <1>3, <2>2 DEF TypeOK, leadVars
<1>6. ReservationsCounted'
  BY <1>3, <1>5 DEF IInv, ReservationsCounted, leadVars
<1>7. RequestsHold'
  BY <1>1, <1>3, <1>4 DEF IInv, RequestsHold
<1>8. FoundIsFree'
  BY <1>3, <1>4 DEF IInv, FoundIsFree, leadVars
<1>9. HeldIsReserved'
  BY <1>3 DEF IInv, HeldIsReserved, leadVars
<1>10. QED
  BY <1>6, <1>7, <1>8, <1>9 DEF IInv

\* A reservation goes quiet.
LEMMA AgeInv ==
  ASSUME IInv, NEW l \in Leads, Age(l)
  PROVE  IInv'
<1>1. UNCHANGED <<status, attempts, last, updatedBefore, req, holds, clashed>> /\ stale' = stale \cup {l}
  BY DEF Age
<1>2. QED
  BY <1>1 DEF IInv, ReservationsCounted, TypeOK, RequestsHold, FoundIsFree, HeldIsReserved

\* A reset re-opens every lead; it clashes with any lead at work.
LEMMA ResetInv ==
  ASSUME IInv, resetCampaignProgress
  PROVE  IInv'
<1>1. /\ status' = [l \in Leads |-> "new"] /\ attempts' = [l \in Leads |-> 0]
      /\ last' = [l \in Leads |-> None] /\ stale' = {} /\ UNCHANGED <<updatedBefore, req, holds>>
      /\ clashed' = (clashed \/ \E a \in Agents : holds[a] # None \/ req[a].at # "idle")
  BY DEF resetCampaignProgress
<1>2. \A l \in Leads : status'[l] = "new" /\ attempts'[l] = 0
  BY <1>1
<1>3. TypeOK'
  <2>1. status' \in [Leads -> Status] /\ last' \in [Leads -> Dispositions \cup {None, "Skipped"}]
    BY <1>1 DEF Status
  <2>2. attempts' \in [Leads -> 0..MaxReservations]
    BY <1>1, PreviewAssumption
  <2>3. clashed' \in BOOLEAN
    BY <1>1 DEF IInv, ReservationsCounted, TypeOK
  <2>4. QED
    BY <1>1, <2>1, <2>2, <2>3 DEF IInv, ReservationsCounted, TypeOK
<1>4. ReservationsCounted'
  BY <1>2, <1>3 DEF ReservationsCounted
<1>5. RequestsHold'
  BY <1>1 DEF IInv, RequestsHold
<1>6. FoundIsFree' /\ HeldIsReserved'
  BY <1>1 DEF IInv, FoundIsFree, HeldIsReserved
<1>7. QED
  BY <1>4, <1>5, <1>6 DEF IInv

LEMMA NextInv == IInv /\ [Next]_vars => IInv'
<1> SUFFICES ASSUME IInv, [Next]_vars
             PROVE  IInv'
  OBVIOUS
<1>1. CASE \E a \in Agents : NextArrives(a) \/ DisposeArrives(a) \/ Skip(a) \/ Abandon(a)
  BY <1>1, NextArrivesInv, DisposeArrivesInv, SkipInv
<1>2. CASE \E a \in Agents : RequestStep(a)
  BY <1>2, FindInv, ReserveInv, DisposeWritesInv DEF RequestStep
<1>3. CASE \E l \in Leads : Age(l)
  BY <1>3, AgeInv
<1>4. CASE resetCampaignProgress
  BY <1>4, ResetInv
<1>5. CASE UNCHANGED vars
  BY <1>5 DEF vars, leadVars, IInv, ReservationsCounted, TypeOK, RequestsHold, FoundIsFree,
              HeldIsReserved
<1>6. QED
  BY <1>1, <1>2, <1>3, <1>4, <1>5 DEF Next

\* Without a clash no step but a reset takes a lead out of Do Not Call.
LEMMA DncStep ==
  ASSUME IInv, [Next]_vars, NEW l \in Leads,
         status[l] = "dnc", ~clashed, ~resetCampaignProgress
  PROVE  status'[l] = "dnc"
<1>1. TypeOK
  BY DEF IInv, ReservationsCounted
<1>2. \A a \in Agents : holds[a] # l
  BY PreviewAssumption DEF IInv, HeldIsReserved
<1>3. CASE \E a \in Agents : NextArrives(a)
  BY <1>3 DEF NextArrives
<1>4. CASE \E a \in Agents : Reserve(a)
  <2>1. PICK a \in Agents : Reserve(a)
    BY <1>4
  <2>2. req[a].lead # l
    BY <2>1 DEF IInv, FoundIsFree, Reserve
  <2>3. QED
    BY <1>1, <2>1, <2>2 DEF Reserve, TypeOK
<1>5. CASE \E a \in Agents : DisposeWrites(a)
  <2>1. PICK a \in Agents : DisposeWrites(a)
    BY <1>5
  <2>2. req[a].lead # l
    BY <1>2, <2>1 DEF IInv, RequestsHold, DisposeWrites
  <2>3. QED
    BY <1>1, <2>1, <2>2 DEF DisposeWrites, TypeOK
<1>6. CASE \E a \in Agents : Skip(a)
  BY <1>1, <1>2, <1>6 DEF Skip, TypeOK
<1>7. CASE \E a \in Agents : FindNew(a) \/ FindSkipped(a) \/ DisposeArrives(a) \/ Abandon(a)
  BY <1>7 DEF FindNew, FindSkipped, Found, DisposeArrives, Abandon, leadVars
<1>8. CASE (\E k \in Leads : Age(k)) \/ UNCHANGED vars
  BY <1>8 DEF Age, vars, leadVars
<1>9. QED
  BY <1>3, <1>4, <1>5, <1>6, <1>7, <1>8 DEF Next, RequestStep

\* next, reclaimStale, dispose and skip: a reservation is a counted attempt, and no
\* sequence of them takes a lead's attempts below zero.
THEOREM AttemptsStayCounted == Spec => []ReservationsCounted
<1>1. IInv => ReservationsCounted
  BY DEF IInv
<1>2. QED
  BY InitInv, NextInv, <1>1, PTL DEF Spec

\* next: without a clash the lead a Console shows is dialing, and no other shows it.
THEOREM HolderIsAlone == Spec => []HeldIsReserved
<1>1. IInv => HeldIsReserved
  BY DEF IInv
<1>2. QED
  BY InitInv, NextInv, <1>1, PTL DEF Spec

\* leadOutcome, next and skip: without a clash Do Not Call lasts until a reset.
THEOREM DncLasts == Spec => DncStays
<1> DEFINE Stays == \A l \in Leads : status[l] = "dnc" /\ ~clashed /\ ~resetCampaignProgress
                                       => status'[l] = "dnc"
<1>1. IInv /\ [Next]_vars => [Stays]_vars
  BY DncStep
<1>2. QED
  BY InitInv, NextInv, <1>1, PTL DEF Spec, DncStays
=============================================================================
