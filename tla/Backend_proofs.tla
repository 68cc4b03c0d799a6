--------------------------- MODULE Backend_proofs ---------------------------
(***************************************************************************)
(* Parts of the backend whose invariants hold for any instance: the        *)
(* realtime gateway, company accounts and their carrier, a tenant's        *)
(* numbers, what syncs give FreeSWITCH, the routes of its calls, the       *)
(* counters of a Predictive run, roles and their permissions, teams, and   *)
(* the demo backend's store. They share no variable; each has a section    *)
(* with its own invariant, and the last section puts them together.        *)
(*                                                                         *)
(* The realtime gateway: for any sockets, its counter never leaves its     *)
(* type, and PushesWhileWatched holds. That one is inductive with the type *)
(* alone: as long as no uncounted socket has left, every step that changes *)
(* the counter changes Connected by the same one member.                   *)
(***************************************************************************)
EXTENDS MCBackend, Pacing_proofs, FiniteSetTheorems, FunctionTheorems, WellFoundedInduction, TLAPS

RealtimeInv ==
  /\ RealtimeTypeOK
  /\ PushesWhileWatched

-----------------------------------------------------------------------------
\* Connected sockets can be counted, and none are exactly when the count is zero.
LEMMA ConnectedCounts ==
  /\ IsFiniteSet(Connected) /\ Cardinality(Connected) \in Nat
  /\ Cardinality(Connected) = 0 <=> Connected = {}
<1>1. Connected \subseteq Sockets /\ IsFiniteSet(Sockets)
  BY RealtimeAssumption DEF Connected
<1>2. IsFiniteSet(Connected)
  BY <1>1, FS_Subset
<1>3. QED
  BY <1>2, FS_CardinalityType, FS_EmptySet

LEMMA RealtimeInitInv == RealtimeInit => RealtimeInv
<1> SUFFICES ASSUME RealtimeInit
             PROVE  RealtimeInv
  OBVIOUS
<1>1. Cardinality(Sockets) \in Nat /\ Cardinality({}) = 0
  BY RealtimeAssumption, FS_CardinalityType, FS_EmptySet
<1>2. Connected = {}
  BY DEF RealtimeInit, Connected, Away
<1>3. clients \in 0..2 * Cardinality(Sockets)
  BY <1>1 DEF RealtimeInit
<1>4. RealtimeTypeOK
  BY <1>3 DEF RealtimeInit, RealtimeTypeOK, Away, Places, Credentials
<1>5. clients = Cardinality(Connected) /\ ticking = (Connected # {})
  BY <1>1, <1>2 DEF RealtimeInit
<1>6. QED
  BY <1>4, <1>5 DEF RealtimeInv, PushesWhileWatched

\* A socket that opens, and one that is turned away, is not connected before or after.
LEMMA OutsideInv ==
  ASSUME RealtimeInv, NEW s \in Sockets, NEW by \in Credentials,
         Connects(s, by) \/ Rejects(s)
  PROVE  RealtimeInv'
<1>1. /\ socket' \in [Sockets -> [at : Places, by : Credentials]]
      /\ \A k \in Sockets \ {s} : socket'[k] = socket[k]
      /\ socket[s].at # "connected" /\ socket'[s].at # "connected"
  BY DEF RealtimeInv, RealtimeTypeOK, Connects, Rejects, Places, Credentials, Away
<1>2. UNCHANGED <<clients, ticking, behind, miscounted>>
  BY DEF Connects, Rejects
<1>3. Connected' = Connected
  BY <1>1 DEF Connected
<1>4. RealtimeTypeOK'
  BY <1>1, <1>2 DEF RealtimeInv, RealtimeTypeOK
<1>5. QED
  BY <1>2, <1>3, <1>4 DEF RealtimeInv, PushesWhileWatched

\* A socket is admitted: one more, unless it has left and the count is off from now on.
LEMMA AdmitsInv ==
  ASSUME RealtimeInv, NEW s \in Sockets, Admits(s)
  PROVE  RealtimeInv'
<1>1. /\ socket' \in [Sockets -> [at : Places, by : Credentials]]
      /\ \A k \in Sockets \ {s} : socket'[k] = socket[k]
  BY DEF RealtimeInv, RealtimeTypeOK, Admits, Places, Credentials, Away
<1>2. RealtimeTypeOK'
  <2>1. clients' \in 0..2 * Cardinality(Sockets)
    BY RealtimeAssumption, FS_CardinalityType DEF RealtimeInv, RealtimeTypeOK, Admits
  <2>2. ticking' \in BOOLEAN /\ miscounted' \in BOOLEAN /\ behind' \subseteq Sockets
    BY DEF RealtimeInv, RealtimeTypeOK, Admits
  <2>3. QED
    BY <1>1, <2>1, <2>2 DEF RealtimeTypeOK
<1>3. PushesWhileWatched'
  <2> SUFFICES ASSUME ~miscounted'
               PROVE  clients' = Cardinality(Connected') /\ ticking' = (Connected' # {})
    BY DEF PushesWhileWatched
  <2>1. ~miscounted /\ socket[s].at = "checking"
    BY DEF Admits
  <2>2. socket'[s].at = "connected"
    BY <2>1 DEF RealtimeInv, RealtimeTypeOK, Admits
  <2>3. Connected' = Connected \cup {s} /\ s \notin Connected
    BY <1>1, <2>1, <2>2 DEF Connected
  <2>4. Cardinality(Connected') = Cardinality(Connected) + 1
    BY <2>3, ConnectedCounts, FS_AddElement
  <2>5. clients = Cardinality(Connected)
    BY <2>1 DEF RealtimeInv, PushesWhileWatched
  <2>6. QED
    BY <2>3, <2>4, <2>5 DEF Admits
<1>4. QED
  BY <1>2, <1>3 DEF RealtimeInv

\* A socket leaves: one less if it was counted; if it was not, the count is off from
\* now on, unless there was nobody to lose.
LEMMA LeavesInv ==
  ASSUME RealtimeInv, NEW s \in Sockets, Leaves(s)
  PROVE  RealtimeInv'
<1>1. /\ socket' \in [Sockets -> [at : Places, by : Credentials]]
      /\ \A k \in Sockets \ {s} : socket'[k] = socket[k]
      /\ socket'[s].at # "connected"
  BY DEF RealtimeInv, RealtimeTypeOK, Leaves, Places, Credentials, Away
<1>2. Cardinality(Sockets) \in Nat /\ clients \in Nat
  BY RealtimeAssumption, FS_CardinalityType DEF RealtimeInv, RealtimeTypeOK
<1>3. RealtimeTypeOK'
  <2>1. clients' \in 0..2 * Cardinality(Sockets)
    BY <1>2 DEF RealtimeInv, RealtimeTypeOK, Leaves, handleDisconnect
  <2>2. ticking' \in BOOLEAN /\ miscounted' \in BOOLEAN /\ behind' \subseteq Sockets
    BY DEF RealtimeInv, RealtimeTypeOK, Leaves, handleDisconnect
  <2>3. QED
    BY <1>1, <2>1, <2>2 DEF RealtimeTypeOK
<1>4. PushesWhileWatched'
  <2> SUFFICES ASSUME ~miscounted'
               PROVE  clients' = Cardinality(Connected') /\ ticking' = (Connected' # {})
    BY DEF PushesWhileWatched
  <2>1. ~miscounted /\ (clients > 0 => socket[s].at = "connected")
    BY DEF Leaves
  <2>2. clients = Cardinality(Connected) /\ ticking = (Connected # {})
    BY <2>1 DEF RealtimeInv, PushesWhileWatched
  <2>3. CASE clients = 0
    <3>1. Connected = {}
      BY <2>2, <2>3, ConnectedCounts
    <3>2. Connected' = {}
      BY <1>1, <3>1 DEF Connected
    <3>3. clients' = 0 /\ ticking' = (ticking /\ 0 > 0)
      BY <2>3 DEF Leaves, handleDisconnect
    <3>4. ~ (0 > 0)
      OBVIOUS
    <3>5. ticking' = FALSE
      BY <3>3, <3>4, Zenon
    <3>6. Cardinality(Connected') = 0
      BY <3>2, FS_EmptySet
    <3>7. QED
      BY <3>2, <3>3, <3>5, <3>6
  <2>4. CASE clients > 0
    <3>1. Connected' = Connected \ {s} /\ s \in Connected
      BY <1>1, <2>1, <2>4 DEF Connected
    <3>2. Cardinality(Connected') = Cardinality(Connected) - 1
      BY <3>1, ConnectedCounts, FS_RemoveElement
    <3>3. IsFiniteSet(Connected')
      BY <3>1, ConnectedCounts, FS_Subset
    <3>4. Cardinality(Connected') = 0 <=> Connected' = {}
      BY <3>3, FS_EmptySet
    <3>5. clients' = clients - 1 /\ ticking' = (ticking /\ clients - 1 > 0)
      BY <2>4 DEF Leaves, handleDisconnect
    <3>6. clients' = Cardinality(Connected')
      BY <2>2, <3>2, <3>5
    <3>7. clients - 1 > 0 <=> Connected' # {}
      BY <1>2, <2>4, <3>4, <3>5, <3>6
    <3>8. ticking
      BY <2>2, <3>1
    <3>9. ticking' = (Connected' # {})
      BY <3>5, <3>7, <3>8, Zenon
    <3>10. QED
      BY <3>6, <3>9
  <2>5. QED
    BY <1>2, <2>3, <2>4
<1>5. QED
  BY <1>3, <1>4 DEF RealtimeInv

LEMMA RealtimeNextInv == RealtimeInv /\ [RealtimeNext]_realtimeVars => RealtimeInv'
<1> SUFFICES ASSUME RealtimeInv, [RealtimeNext]_realtimeVars
             PROVE  RealtimeInv'
  OBVIOUS
<1>1. CASE \E s \in Sockets, by \in Credentials : Connects(s, by)
  BY <1>1, OutsideInv
<1>2. CASE \E s \in Sockets : Rejects(s)
  BY <1>2, OutsideInv DEF Credentials
<1>3. CASE \E s \in Sockets : Admits(s) \/ Leaves(s)
  BY <1>3, AdmitsInv, LeavesInv
<1>4. CASE push \/ UNCHANGED realtimeVars
  <2>1. UNCHANGED <<socket, clients, ticking, miscounted>> /\ behind' \in {{}, behind}
    BY <1>4 DEF push, realtimeVars
  <2>2. Connected' = Connected
    BY <2>1 DEF Connected
  <2>3. RealtimeTypeOK'
    BY <2>1 DEF RealtimeInv, RealtimeTypeOK
  <2>4. QED
    BY <2>1, <2>2, <2>3 DEF RealtimeInv, PushesWhileWatched
<1>5. QED
  BY <1>1, <1>2, <1>3, <1>4 DEF RealtimeNext

\* realtime.module, handleConnection and handleDisconnect: the counter stays within
\* its type however sockets come, leave and are turned away.
THEOREM RealtimeTypeCorrect == RealtimeSpec => []RealtimeTypeOK
<1>1. RealtimeInv => RealtimeTypeOK
  BY DEF RealtimeInv
<1>2. QED
  BY RealtimeInitInv, RealtimeNextInv, <1>1, PTL DEF RealtimeSpec

\* realtime.module: until a socket that was not counted leaves, the gateway's counter
\* is the number of connected sockets and its timer runs exactly while there are any.
THEOREM GatewayPushesWhileWatched == RealtimeSpec => []PushesWhileWatched
<1>1. RealtimeInv => PushesWhileWatched
  BY DEF RealtimeInv
<1>2. QED
  BY RealtimeInitInv, RealtimeNextInv, <1>1, PTL DEF RealtimeSpec

-----------------------------------------------------------------------------
(***************************************************************************)
(* Company accounts.  TenantsAreWhole speaks of finished and failed signups,*)
(* so the invariant says what a signup has written at every await, that two*)
(* which claim one email are blurred, and how far the carrier's books may be*)
(* behind a status on its way.  That the search for a slug ends rests on a *)
(* count: each slug passed is another company's.                           *)
(***************************************************************************)
\* A request has written what the awaits behind it write.
Made(r)     == request[r].at \notin {"idle", "email", "slug", "tenant", "refused", "failed"}
HasRole(r)  == Made(r) /\ request[r].at # "role"
Claims(r)   == admin[r] # None \/ request[r].at \in DatabaseSteps \ {"email"}

Written ==
  \A r \in Signups :
    /\ Made(r) => tenant[r].status # "none"
    /\ request[r].at \in {"idle", "email", "slug", "tenant"} =>
         tenant[r] = NoTenant /\ admin[r] = None /\ r \notin trunk
    /\ request[r].at \in {"slug", "tenant", "role", "admin"} => admin[r] = None
    /\ HasRole(r) => r \in role
    /\ admin[r] # None => r \in role /\ tenant[r].status # "none" /\ admin[r] = request[r].email
    /\ request[r].at \in {"setPlan"} \cup CarrierSteps => admin[r] # None
    /\ request[r].at # "idle" => request[r].email \in Emails
    /\ request[r].at = "assign" => request[r].picked \in Dids
    /\ request[r].at \in {"dids", "assign", "trunk"} => client[r].active
    /\ request[r].at \in CarrierSteps => r \notin trunk
    /\ r \in trunk => request[r].at = "answered"

\* Each slug a request has stepped over is another tenant's.
SlugsPassed ==
  \A r \in Signups : \A n \in 1..request[r].slug - 1 :
    \E t \in Signups \ {r} : tenant[t].slug = n

\* Requests that claim one email make it blurred.
ClaimsApart ==
  \A r, u \in Signups :
    r # u /\ Claims(r) /\ Claims(u) /\ request[r].email = request[u].email
      => request[r].email \in blurred

\* A tenant whose status is being mirrored has the status that is on its way.
MirrorsAgree ==
  \A o \in Operators : operator[o].at = "mirror" =>
    /\ operator[o].of \in Signups
    /\ tenant[operator[o].of].status # "none"
    /\ operator[o].of \notin blurred =>
         /\ tenant[operator[o].of].status = operator[o].want
         /\ \A p \in Operators \ {o} : operator[p].at = "mirror" => operator[p].of # operator[o].of

NumbersAssigned ==
  \A t \in Signups : client[t].number \in Dids \ blurred => did[client[t].number] = "Assigned"

CarrierInv == MirrorsAgree /\ NumbersAssigned /\ CarrierAgrees

TenancyInv ==
  /\ TenancyTypeOK /\ Written /\ SlugsPassed
  /\ ClaimsApart /\ CarrierInv

Steps      == {"idle"} \cup DatabaseSteps \cup CarrierSteps \cup Answers
RequestRec == [at : Steps, self : BOOLEAN, email : Emails \cup {None},
               slug : 1..Cardinality(Signups) + 1, picked : Dids \cup {None}]
ClientRec  == [active : BOOLEAN, number : Dids \cup {None}]
TenantRec  == [status : {"none", "trial", "active", "suspended"}, slug : 0..Cardinality(Signups)]

-----------------------------------------------------------------------------
LEMMA GoesEffect ==
  ASSUME TenancyTypeOK, NEW r \in Signups, NEW s \in Steps, GoesTo(r, s)
  PROVE  /\ request' \in [Signups -> RequestRec]
         /\ request'[r].at = s
         /\ \A q \in Signups \ {r} : request'[q] = request[q]
         /\ \A q \in Signups :
              /\ request'[q].self = request[q].self /\ request'[q].email = request[q].email
              /\ request'[q].slug = request[q].slug /\ request'[q].picked = request[q].picked
<1>1. request \in [Signups -> RequestRec]
  BY DEF TenancyTypeOK, RequestRec, Steps
<1>2. request' = [request EXCEPT ![r].at = s]
  BY DEF GoesTo
<1>3. QED
  BY <1>1, <1>2 DEF RequestRec

\* A request that looks for a slug has passed fewer than there are other tenants.
LEMMA SlugBound ==
  ASSUME TenancyTypeOK, SlugsPassed, NEW r \in Signups
  PROVE  request[r].slug <= Cardinality(Signups)
<1> DEFINE Passed   == 1..request[r].slug - 1
           TenantOf == [n \in Passed |-> CHOOSE t \in Signups \ {r} : tenant[t].slug = n]
<1>1. request[r].slug \in Nat /\ request[r].slug >= 1
  <2>1. IsFiniteSet(Signups) /\ Cardinality(Signups) \in Nat
    BY TenancyAssumption, FS_CardinalityType
  <2>2. QED
    BY <2>1 DEF TenancyTypeOK
<1>2. \A n \in Passed : TenantOf[n] \in Signups \ {r} /\ tenant[TenantOf[n]].slug = n
  BY DEF SlugsPassed
<1>3. TenantOf \in Injection(Passed, Signups \ {r})
  BY <1>2 DEF Injection, IsInjective
<1>4. IsFiniteSet(Signups \ {r}) /\ Cardinality(Signups \ {r}) = Cardinality(Signups) - 1
  BY TenancyAssumption, FS_RemoveElement
<1>5. Cardinality(Passed) <= Cardinality(Signups \ {r})
  BY <1>3, <1>4, FS_Injection
<1>6. Cardinality(Passed) = request[r].slug - 1
  BY <1>1, FS_Interval
<1>7. Cardinality(Signups) \in Nat
  BY TenancyAssumption, FS_CardinalityType
<1>8. QED
  BY <1>1, <1>4, <1>5, <1>6, <1>7

LEMMA SlugsKept ==
  ASSUME SlugsPassed, \A q \in Signups : request'[q].slug = request[q].slug,
         \A t \in Signups : tenant[t].slug = 0 \/ tenant'[t].slug = tenant[t].slug
  PROVE  SlugsPassed'
BY DEF SlugsPassed

LEMMA ClaimsKept ==
  ASSUME ClaimsApart, blurred \subseteq blurred',
         \A q \in Signups : request'[q].email = request[q].email /\ (Claims(q)' => Claims(q))
  PROVE  ClaimsApart'
BY DEF ClaimsApart

LEMMA TrunksAreTenants == TenancyInv => trunk \subseteq Signups
BY DEF TenancyInv, TenancyTypeOK

\* What does not concern the carrier, and no status that an operator may have set.
LEMMA CarrierKept ==
  ASSUME TenancyInv, UNCHANGED <<client, did, trunk, operator>>, blurred \subseteq blurred',
         \A t \in Signups : tenant[t].status # "none" => tenant'[t].status = tenant[t].status
  PROVE  CarrierInv'
<1>1. \A t \in trunk : t \in Signups /\ tenant[t].status # "none"
  BY DEF TenancyInv, TenancyTypeOK, Written, Made
<1>2. CarrierFollowsStatus'
  BY <1>1 DEF TenancyInv, CarrierInv, CarrierAgrees, CarrierFollowsStatus, Mirroring
<1>3. QED
  BY <1>2 DEF TenancyInv, CarrierInv, MirrorsAgree, Mirroring, NumbersAssigned, CarrierAgrees,
              NumberOfOneClient

\* A signup arrives, or has its email checked.
LEMMA ArrivesStep ==
  ASSUME TenancyInv, NEW r \in Signups, NEW self \in BOOLEAN, NEW e \in Emails, SignupArrives(r, self, e)
  PROVE  TenancyInv'
<1> DEFINE s == IF self THEN "email" ELSE "slug"
           arrived == [request[r] EXCEPT !.at = s, !.self = self, !.email = e]
<1>1. request \in [Signups -> RequestRec] /\ s \in Steps
  BY DEF TenancyInv, TenancyTypeOK, RequestRec, Steps, DatabaseSteps
<1>2. arrived \in RequestRec /\ arrived.at = s /\ arrived.email = e /\ arrived.slug = request[r].slug
  BY <1>1 DEF RequestRec
<1>3. request' = [request EXCEPT ![r] = arrived]
  BY DEF SignupArrives
<1> HIDE DEF arrived
<1>4. /\ request' \in [Signups -> RequestRec]
      /\ request'[r] = arrived
      /\ \A q \in Signups \ {r} : request'[q] = request[q]
  BY <1>1, <1>2, <1>3
<1>5. UNCHANGED <<tenant, admin, role, client, did, trunk, operator, faults>> /\ request[r].at = "idle"
  BY DEF SignupArrives, carrierVars
<1>6. blurred \subseteq blurred' /\ blurred' \subseteq blurred \cup {e} /\ (~self => e \in blurred')
  BY DEF SignupArrives
<1>7. /\ request'[r].at \in {"email", "slug"} /\ request'[r].email = e /\ request'[r].slug = request[r].slug
      /\ (request'[r].at = "slug" => ~self)
  BY <1>4, <1>2
<1>8. TenancyTypeOK'
  BY <1>4, <1>5, <1>6 DEF TenancyInv, TenancyTypeOK, RequestRec, Steps
<1>9. Written'
  BY <1>4, <1>5, <1>7 DEF TenancyInv, Written, Made, HasRole, CarrierSteps, NoTenant
<1>10. SlugsPassed'
  BY <1>4, <1>5, <1>7, SlugsKept DEF TenancyInv
<1>11. ClaimsApart'
  BY <1>4, <1>5, <1>6, <1>7 DEF TenancyInv, ClaimsApart, Claims, Written, DatabaseSteps
<1>12. CarrierInv'
  BY <1>5, <1>6, CarrierKept
<1>13. QED
  BY <1>8, <1>9, <1>10, <1>11, <1>12 DEF TenancyInv

LEMMA ChecksStep ==
  ASSUME TenancyInv, NEW r \in Signups, ChecksEmail(r)
  PROVE  TenancyInv'
<1>1. PICK s \in {"refused", "slug"} : GoesTo(r, s) /\ (s = "slug" => ~EmailTaken(request[r].email))
  BY DEF ChecksEmail
<1>2. /\ request' \in [Signups -> RequestRec] /\ request'[r].at = s
      /\ \A q \in Signups \ {r} : request'[q] = request[q]
      /\ \A q \in Signups : request'[q].email = request[q].email /\ request'[q].slug = request[q].slug
  BY <1>1, GoesEffect DEF TenancyInv, Steps, DatabaseSteps, Answers
<1>3. UNCHANGED <<tenant, admin, role, client, did, trunk, operator, faults>> /\ request[r].at = "email"
  BY DEF ChecksEmail, carrierVars
<1>4. /\ blurred \subseteq blurred' /\ blurred' \subseteq blurred \cup {request[r].email}
      /\ (AboutToTake(request[r].email) # {} => request[r].email \in blurred')
  BY DEF ChecksEmail
<1>5. request[r].email \in Emails
  BY <1>3 DEF TenancyInv, Written
<1>6. TenancyTypeOK'
  BY <1>2, <1>3, <1>4, <1>5 DEF TenancyInv, TenancyTypeOK, RequestRec, Steps
<1>7. Written'
  BY <1>2, <1>3 DEF TenancyInv, Written, Made, HasRole, CarrierSteps, NoTenant
<1>8. SlugsPassed'
  BY <1>2, <1>3, SlugsKept DEF TenancyInv
<1>9. ClaimsApart'
  <2>1. \A q \in Signups \ {r} : Claims(q)' <=> Claims(q)
    BY <1>2, <1>3 DEF Claims
  <2>2. ASSUME NEW u \in Signups \ {r}, Claims(u), Claims(r)', request[u].email = request[r].email
        PROVE  request[r].email \in blurred'
    <3>1. admin[r] = None /\ s = "slug"
      BY <1>2, <1>3, <2>2 DEF TenancyInv, Written, Claims, DatabaseSteps
    <3>2. admin[u] = None
      BY <1>1, <2>2, <3>1 DEF TenancyInv, Written, EmailTaken
    <3>3. u \in AboutToTake(request[r].email)
      BY <2>2, <3>2 DEF AboutToTake, Claims
    <3>4. QED
      BY <1>4, <3>3
  <2>3. QED
    BY <1>2, <1>4, <2>1, <2>2 DEF TenancyInv, ClaimsApart
<1>10. CarrierInv'
  BY <1>3, <1>4, CarrierKept
<1>11. QED
  BY <1>6, <1>7, <1>8, <1>9, <1>10 DEF TenancyInv

\* The rows of a signup, up to its plan.
LEMMA SlugStep ==
  ASSUME TenancyInv, NEW r \in Signups, uniqueSlug(r)
  PROVE  TenancyInv'
<1>1. UNCHANGED <<tenant, admin, role, client, did, trunk, operator, faults, blurred>>
      /\ request[r].at = "slug"
  BY DEF uniqueSlug, carrierVars
<1>2. request \in [Signups -> RequestRec]
  BY DEF TenancyInv, TenancyTypeOK, RequestRec, Steps
<1>3. request[r].slug <= Cardinality(Signups) /\ Cardinality(Signups) \in Nat
  BY SlugBound, TenancyAssumption, FS_CardinalityType DEF TenancyInv
<1> DEFINE next == IF SlugTaken(request[r].slug) THEN [request[r] EXCEPT !.slug = request[r].slug + 1]
                   ELSE [request[r] EXCEPT !.at = "tenant"]
<1>4. request' = [request EXCEPT ![r] = next]
  BY <1>2 DEF uniqueSlug, GoesTo
<1>5. /\ next \in RequestRec /\ next.email = request[r].email /\ next.at \in {"slug", "tenant"}
      /\ (next.slug = request[r].slug \/ (next.slug = request[r].slug + 1 /\ SlugTaken(request[r].slug)))
  BY <1>1, <1>2, <1>3 DEF RequestRec, Steps, DatabaseSteps
<1> HIDE DEF next
<1>6. /\ request' \in [Signups -> RequestRec] /\ request'[r] = next
      /\ \A q \in Signups \ {r} : request'[q] = request[q]
  BY <1>2, <1>4, <1>5
<1>7. TenancyTypeOK'
  BY <1>1, <1>6 DEF TenancyInv, TenancyTypeOK, RequestRec, Steps
<1>8. Written'
  BY <1>1, <1>5, <1>6 DEF TenancyInv, Written, Made, HasRole, CarrierSteps, NoTenant
<1>9. SlugsPassed'
  <2>1. ASSUME NEW n \in 1..next.slug - 1
        PROVE  \E t \in Signups \ {r} : tenant[t].slug = n
    <3>1. CASE n \in 1..request[r].slug - 1
      BY <3>1 DEF TenancyInv, SlugsPassed
    <3>2. CASE n \notin 1..request[r].slug - 1
      <4>1. request[r].slug \in Nat
        BY <1>2, <1>3 DEF RequestRec
      <4>2. n = request[r].slug /\ SlugTaken(request[r].slug)
        BY <1>5, <2>1, <3>2, <4>1
      <4>3. tenant[r].slug = 0 /\ n # 0
        BY <1>1, <2>1 DEF TenancyInv, Written, NoTenant
      <4>4. QED
        BY <4>2, <4>3 DEF SlugTaken
    <3>3. QED
      BY <3>1, <3>2
  <2>2. QED
    BY <1>1, <1>6, <2>1 DEF TenancyInv, SlugsPassed
<1>10. ClaimsApart'
  BY <1>1, <1>5, <1>6, ClaimsKept DEF TenancyInv, Claims, DatabaseSteps
<1>11. CarrierInv'
  BY <1>1, CarrierKept
<1>12. QED
  BY <1>7, <1>8, <1>9, <1>10, <1>11 DEF TenancyInv

LEMMA TenantStep ==
  ASSUME TenancyInv, NEW r \in Signups, CreatesTenant(r)
  PROVE  TenancyInv'
<1>1. PICK s \in {"failed", "role"} : GoesTo(r, s)
  BY DEF CreatesTenant
<1>2. /\ request' \in [Signups -> RequestRec] /\ request'[r].at = s
      /\ \A q \in Signups \ {r} : request'[q] = request[q]
      /\ \A q \in Signups : request'[q].email = request[q].email /\ request'[q].slug = request[q].slug
  BY <1>1, GoesEffect DEF TenancyInv, Steps, DatabaseSteps, Answers
<1>3. UNCHANGED <<admin, role, client, did, trunk, operator, faults, blurred>> /\ request[r].at = "tenant"
  BY DEF CreatesTenant, carrierVars
<1>4. request[r].slug \in 0..Cardinality(Signups)
  BY SlugBound, TenancyAssumption, FS_CardinalityType DEF TenancyInv, TenancyTypeOK
<1>5. /\ tenant' \in [Signups -> TenantRec]
      /\ \A t \in Signups \ {r} : tenant'[t] = tenant[t]
      /\ s = "role" => tenant'[r].status # "none"
      /\ s = "failed" => tenant'[r] = tenant[r]
  <2>1. tenant \in [Signups -> TenantRec]
    BY DEF TenancyInv, TenancyTypeOK, TenantRec
  <2>2. request'[r].at \in {"failed", "role"}
    BY <1>2
  <2>3. CASE SlugTaken(request[r].slug)
    <3>1. tenant' = tenant /\ GoesTo(r, "failed")
      BY <2>3 DEF CreatesTenant
    <3>2. request'[r].at = "failed"
      BY <3>1, GoesEffect DEF TenancyInv, Steps, Answers
    <3>3. QED
      BY <1>2, <2>1, <3>1, <3>2
  <2>4. CASE ~SlugTaken(request[r].slug)
    <3>1. tenant' = [tenant EXCEPT ![r] = [status |-> IF request[r].self THEN "trial" ELSE "active",
                                          slug |-> request[r].slug]]
          /\ GoesTo(r, "role")
      BY <2>4 DEF CreatesTenant
    <3>2. [status |-> IF request[r].self THEN "trial" ELSE "active", slug |-> request[r].slug] \in TenantRec
      BY <1>4 DEF TenantRec
    <3>3. request'[r].at = "role"
      BY <3>1, GoesEffect DEF TenancyInv, Steps, DatabaseSteps
    <3>4. QED
      BY <1>2, <2>1, <3>1, <3>2, <3>3
  <2>5. QED
    BY <2>3, <2>4
<1>6. tenant[r] = NoTenant
  BY <1>3 DEF TenancyInv, Written
<1>7. TenancyTypeOK'
  BY <1>2, <1>3, <1>5 DEF TenancyInv, TenancyTypeOK, RequestRec, Steps, TenantRec
<1>8. Written'
  BY <1>1, <1>2, <1>3, <1>5, <1>6 DEF TenancyInv, Written, Made, HasRole, CarrierSteps, NoTenant
<1>9. SlugsPassed'
  BY <1>2, <1>5, <1>6, SlugsKept DEF TenancyInv, NoTenant
<1>10. ClaimsApart'
  BY <1>1, <1>2, <1>3, ClaimsKept DEF TenancyInv, Claims, DatabaseSteps
<1>11. CarrierInv'
  BY <1>3, <1>5, <1>6, CarrierKept DEF NoTenant
<1>12. QED
  BY <1>7, <1>8, <1>9, <1>10, <1>11 DEF TenancyInv

LEMMA RowsStep ==
  ASSUME TenancyInv, NEW r \in Signups,
         CreatesRole(r) \/ CreatesAdmin(r) \/ SetsPlan(r) \/ DatabaseFails(r)
  PROVE  TenancyInv'
<1>1. PICK s \in {"admin", "setPlan", "retail", "answered", "failed"} : GoesTo(r, s)
  BY DEF CreatesRole, CreatesAdmin, SetsPlan, DatabaseFails
<1>2. /\ request' \in [Signups -> RequestRec] /\ request'[r].at = s
      /\ \A q \in Signups \ {r} : request'[q] = request[q]
      /\ \A q \in Signups : request'[q].email = request[q].email /\ request'[q].slug = request[q].slug
  BY <1>1, GoesEffect DEF TenancyInv, Steps, DatabaseSteps, CarrierSteps, Answers
<1>3. UNCHANGED <<tenant, client, did, trunk, operator, blurred>>
  BY DEF CreatesRole, CreatesAdmin, SetsPlan, DatabaseFails, carrierVars
<1>4. admin' \in [Signups -> Emails \cup {None}] /\ role' \subseteq Signups /\ faults' \in 0..MaxFaults
  <2>1. request[r].at = "admin" => request[r].email \in Emails
    BY DEF TenancyInv, Written
  <2>2. admin \in [Signups -> Emails \cup {None}] /\ role \subseteq Signups /\ faults \in 0..MaxFaults
    BY DEF TenancyInv, TenancyTypeOK
  <2>3. QED
    BY <2>1, <2>2, TenancyAssumption DEF CreatesRole, CreatesAdmin, SetsPlan, DatabaseFails, Fault
<1>5. \/ /\ request[r].at = "role" /\ s = "admin" /\ role' = role \cup {r} /\ admin' = admin
      \/ /\ request[r].at = "admin" /\ s = "setPlan" /\ role' = role
         /\ admin'[r] = request[r].email /\ \A q \in Signups \ {r} : admin'[q] = admin[q]
      \/ /\ request[r].at = "setPlan" /\ s \in {"retail", "answered"} /\ role' = role /\ admin' = admin
      \/ /\ request[r].at \in DatabaseSteps /\ s = "failed" /\ role' = role /\ admin' = admin
  <2>1. admin \in [Signups -> Emails \cup {None}]
    BY DEF TenancyInv, TenancyTypeOK
  <2>2. \A z \in Steps : GoesTo(r, z) => z = s
    BY <1>2, GoesEffect DEF TenancyInv
  <2>3. QED
    BY <2>1, <2>2 DEF CreatesRole, CreatesAdmin, SetsPlan, DatabaseFails, Steps, DatabaseSteps, CarrierSteps, Answers
<1>6. TenancyTypeOK'
  BY <1>2, <1>3, <1>4 DEF TenancyInv, TenancyTypeOK, RequestRec, Steps
<1>7. Written'
  BY <1>2, <1>3, <1>5, TenancyAssumption
     DEF TenancyInv, Written, Made, HasRole, DatabaseSteps, CarrierSteps
<1>8. SlugsPassed'
  BY <1>2, <1>3, SlugsKept DEF TenancyInv
<1>9. ClaimsApart'
  <2>1. \A q \in Signups : Claims(q)' => Claims(q)
    BY <1>2, <1>5 DEF Claims, DatabaseSteps
  <2>2. QED
    BY <1>2, <1>3, <2>1, ClaimsKept DEF TenancyInv
<1>10. CarrierInv'
  BY <1>3, CarrierKept
<1>11. QED
  BY <1>6, <1>7, <1>8, <1>9, <1>10 DEF TenancyInv

\* The carrier's part of a signup, before the trunk's row.
LEMMA ClientStep ==
  ASSUME TenancyInv, NEW r \in Signups, CreatesClient(r) \/ ListsDids(r) \/ CarrierFails(r)
  PROVE  TenancyInv'
<1> DEFINE Effect == /\ request' \in [Signups -> RequestRec]
                     /\ \A q \in Signups \ {r} : request'[q] = request[q]
                     /\ \A q \in Signups : request'[q].email = request[q].email /\ request'[q].slug = request[q].slug
                     /\ request'[r].at \in {"dids", "assign", "trunk", "answered"}
                     /\ request'[r].at = "assign" => request'[r].picked \in Dids
<1>1. ASSUME NEW s \in {"dids", "trunk", "answered"}, GoesTo(r, s)
      PROVE  Effect /\ request'[r].at = s
  BY <1>1, GoesEffect DEF TenancyInv, Steps, CarrierSteps, Answers
<1>2. ASSUME NEW n \in Dids, request' = [request EXCEPT ![r].picked = n, ![r].at = "assign"]
      PROVE  Effect /\ request'[r].at = "assign"
  <2>1. request \in [Signups -> RequestRec] /\ "assign" \in Steps
    BY DEF TenancyInv, TenancyTypeOK, RequestRec, Steps, CarrierSteps
  <2>2. QED
    BY <1>2, <2>1 DEF RequestRec
<1>3. /\ Effect /\ request[r].at \in CarrierSteps \ {"assign"}
      /\ request'[r].at \in {"assign", "trunk"} => request[r].at = "dids"
      /\ request'[r].at = "dids" => client' = [client EXCEPT ![r].active = TRUE]
      /\ client' = client \/ client' = [client EXCEPT ![r].active = TRUE]
  <2>1. CASE CreatesClient(r)
    BY <1>1, <2>1 DEF CreatesClient, CarrierSteps
  <2>2. CASE ListsDids(r)
    BY <1>1, <1>2, <2>2 DEF ListsDids, CarrierSteps, carrierVars
  <2>3. CASE CarrierFails(r)
    BY <1>1, <2>3 DEF CarrierFails, CarrierSteps, carrierVars
  <2>4. QED
    BY <2>1, <2>2, <2>3
<1>4. UNCHANGED <<tenant, admin, role, did, trunk, operator, blurred>> /\ faults' \in 0..MaxFaults
  BY TenancyAssumption DEF CreatesClient, ListsDids, CarrierFails, carrierVars, Fault, TenancyInv, TenancyTypeOK
<1>5. /\ client' \in [Signups -> ClientRec]
      /\ \A t \in Signups \ {r} : client'[t] = client[t]
      /\ client'[r].number = client[r].number
      /\ client[r].active = TRUE \/ request'[r].at = "dids" => client'[r].active = TRUE
  <2>1. client \in [Signups -> ClientRec]
    BY DEF TenancyInv, TenancyTypeOK, ClientRec
  <2>2. QED
    BY <1>3, <2>1 DEF ClientRec
<1>6. TenancyTypeOK'
  BY <1>3, <1>4, <1>5 DEF TenancyInv, TenancyTypeOK, RequestRec, ClientRec, Steps
<1>7. Written'
  BY <1>3, <1>4, <1>5 DEF TenancyInv, Written, Made, HasRole, CarrierSteps
<1>8. SlugsPassed'
  BY <1>3, <1>4, SlugsKept DEF TenancyInv
<1>9. ClaimsApart'
  BY <1>3, <1>4, ClaimsKept DEF TenancyInv, Claims, DatabaseSteps
<1>10. CarrierInv'
  <2>1. r \notin trunk
    BY <1>3 DEF TenancyInv, Written
  <2>2. CarrierFollowsStatus'
    BY <1>4, <1>5, <2>1, TrunksAreTenants DEF TenancyInv, CarrierInv, CarrierAgrees, CarrierFollowsStatus, Mirroring
  <2>3. \A t \in Signups : client'[t].number = client[t].number
    BY <1>5
  <2>4. NumbersAssigned' /\ NumberOfOneClient'
    BY <1>4, <2>3 DEF TenancyInv, CarrierInv, NumbersAssigned, CarrierAgrees, NumberOfOneClient
  <2>5. QED
    BY <1>4, <2>2, <2>4 DEF TenancyInv, CarrierInv, CarrierAgrees, MirrorsAgree, Mirroring
<1>11. QED
  BY <1>6, <1>7, <1>8, <1>9, <1>10 DEF TenancyInv

LEMMA AssignsStep ==
  ASSUME TenancyInv, NEW r \in Signups, AssignsDid(r)
  PROVE  TenancyInv'
<1> DEFINE n == request[r].picked
<1>1. /\ request' \in [Signups -> RequestRec] /\ request'[r].at = "trunk"
      /\ \A q \in Signups \ {r} : request'[q] = request[q]
      /\ \A q \in Signups : request'[q].email = request[q].email /\ request'[q].slug = request[q].slug
  BY GoesEffect DEF AssignsDid, TenancyInv, Steps, CarrierSteps
<1>2. UNCHANGED <<tenant, admin, role, trunk, operator>> /\ request[r].at = "assign" /\ n \in Dids
  BY DEF AssignsDid, TenancyInv, Written
<1>3. /\ did' \in [Dids -> {"Available", "Assigned"}] /\ faults' \in 0..MaxFaults
      /\ \A m \in Dids : did[m] = "Assigned" => did'[m] = "Assigned"
  BY <1>2, TenancyAssumption DEF AssignsDid, Fault, TenancyInv, TenancyTypeOK
<1>4. /\ blurred \subseteq blurred' /\ blurred' \subseteq blurred \cup {n}
      /\ did'[n] = "Available" \/ did[n] = "Assigned" => n \in blurred'
  BY DEF AssignsDid
<1>5. /\ client' \in [Signups -> ClientRec]
      /\ \A t \in Signups \ {r} : client'[t] = client[t]
      /\ client'[r].active = client[r].active /\ client'[r].number = n
  <2>1. client \in [Signups -> ClientRec]
    BY DEF TenancyInv, TenancyTypeOK, ClientRec
  <2>2. client' = [client EXCEPT ![r].number = n]
    BY DEF AssignsDid
  <2>3. QED
    BY <1>2, <2>1, <2>2 DEF ClientRec
<1>6. TenancyTypeOK'
  BY <1>1, <1>2, <1>3, <1>4, <1>5 DEF TenancyInv, TenancyTypeOK, RequestRec, ClientRec, Steps
<1>7. Written'
  BY <1>1, <1>2, <1>5 DEF TenancyInv, Written, Made, HasRole, CarrierSteps
<1>8. SlugsPassed'
  BY <1>1, <1>2, SlugsKept DEF TenancyInv
<1>9. ClaimsApart'
  BY <1>1, <1>2, <1>4, ClaimsKept DEF TenancyInv, Claims, DatabaseSteps
<1>10. CarrierInv'
  <2>1. r \notin trunk
    BY <1>2 DEF TenancyInv, Written, CarrierSteps
  <2>2. CarrierFollowsStatus'
    BY <1>2, <1>4, <1>5, <2>1, TrunksAreTenants
       DEF TenancyInv, CarrierInv, CarrierAgrees, CarrierFollowsStatus, Mirroring
  <2>3. NumbersAssigned'
    BY <1>2, <1>3, <1>4, <1>5 DEF TenancyInv, CarrierInv, NumbersAssigned
  <2>4. n \notin blurred' => \A t \in Signups : client[t].number # n
    BY <1>2, <1>4 DEF TenancyInv, CarrierInv, NumbersAssigned
  <2>5. NumberOfOneClient'
    BY <1>2, <1>4, <1>5, <2>4 DEF TenancyInv, CarrierInv, CarrierAgrees, NumberOfOneClient
  <2>6. MirrorsAgree'
    BY <1>2, <1>4 DEF TenancyInv, CarrierInv, MirrorsAgree, Mirroring
  <2>7. QED
    BY <2>2, <2>3, <2>5, <2>6 DEF CarrierInv, CarrierAgrees
<1>11. QED
  BY <1>6, <1>7, <1>8, <1>9, <1>10 DEF TenancyInv

LEMMA TrunkStep ==
  ASSUME TenancyInv, NEW r \in Signups, CreatesTrunk(r)
  PROVE  TenancyInv'
<1>1. /\ request' \in [Signups -> RequestRec] /\ request'[r].at = "answered"
      /\ \A q \in Signups \ {r} : request'[q] = request[q]
      /\ \A q \in Signups : request'[q].email = request[q].email /\ request'[q].slug = request[q].slug
  BY GoesEffect DEF CreatesTrunk, TenancyInv, Steps, Answers
<1>2. UNCHANGED <<tenant, admin, role, client, did, operator, faults>> /\ request[r].at = "trunk"
      /\ trunk' = trunk \cup {r}
  BY DEF CreatesTrunk
<1>3. /\ blurred \subseteq blurred' /\ blurred' \subseteq blurred \cup {r}
      /\ tenant[r].status = "suspended" /\ Mirroring(r) = {} => r \in blurred'
  BY DEF CreatesTrunk
<1>4. client[r].active /\ client[r].active \in BOOLEAN /\ admin[r] # None /\ r \in role
  BY <1>2 DEF TenancyInv, TenancyTypeOK, Written, CarrierSteps
<1>5. TenancyTypeOK'
  BY <1>1, <1>2, <1>3 DEF TenancyInv, TenancyTypeOK, RequestRec, Steps
<1>6. Written'
  BY <1>1, <1>2, <1>4 DEF TenancyInv, Written, Made, HasRole, CarrierSteps
<1>7. SlugsPassed'
  BY <1>1, <1>2, SlugsKept DEF TenancyInv
<1>8. ClaimsApart'
  BY <1>1, <1>2, <1>3, ClaimsKept DEF TenancyInv, Claims, DatabaseSteps
<1>9. CarrierInv'
  <2>1. \A t \in Signups : Mirroring(t)' = Mirroring(t)
    BY <1>2 DEF Mirroring
  <2>2. CarrierFollowsStatus'
    BY <1>2, <1>3, <1>4, <2>1 DEF TenancyInv, TenancyTypeOK, CarrierInv, CarrierAgrees, CarrierFollowsStatus
  <2>3. NumbersAssigned' /\ NumberOfOneClient'
    BY <1>2, <1>3 DEF TenancyInv, CarrierInv, NumbersAssigned, CarrierAgrees, NumberOfOneClient
  <2>4. MirrorsAgree'
    BY <1>2, <1>3 DEF TenancyInv, CarrierInv, MirrorsAgree, Mirroring
  <2>5. QED
    BY <2>2, <2>3, <2>4 DEF CarrierInv, CarrierAgrees
<1>10. QED
  BY <1>5, <1>6, <1>7, <1>8, <1>9 DEF TenancyInv

\* An operator's request, and its mirror at the carrier.
LEMMA StatusStep ==
  ASSUME TenancyInv, NEW o \in Operators, NEW t \in Signups, NEW want \in {"active", "suspended"},
         setStatus(o, t, want)
  PROVE  TenancyInv'
<1>1. UNCHANGED <<request, admin, role, client, did, trunk, faults>>
      /\ operator[o].at = "idle" /\ tenant[t].status # "none"
  BY DEF setStatus, carrierVars
<1>2. /\ tenant' \in [Signups -> TenantRec]
      /\ \A u \in Signups \ {t} : tenant'[u] = tenant[u]
      /\ tenant'[t].status = want /\ tenant'[t].slug = tenant[t].slug
  BY DEF setStatus, TenancyInv, TenancyTypeOK, TenantRec
<1>3. /\ operator' \in [Operators -> [at : {"idle", "mirror", "done"}, of : Signups \cup {None},
                                      want : {"active", "suspended"}]]
      /\ \A p \in Operators \ {o} : operator'[p] = operator[p]
      /\ operator'[o] = [at |-> "mirror", of |-> t, want |-> want]
  BY DEF setStatus, TenancyInv, TenancyTypeOK
<1>4. /\ blurred \subseteq blurred' /\ blurred' \subseteq blurred \cup {t}
      /\ Mirroring(t) # {} => t \in blurred'
  BY DEF setStatus
<1>5. TenancyTypeOK'
  BY <1>1, <1>2, <1>3, <1>4 DEF TenancyInv, TenancyTypeOK, TenantRec
<1>6. Written'
  BY <1>1, <1>2 DEF TenancyInv, Written, Made, HasRole, CarrierSteps, NoTenant
<1>7. SlugsPassed'
  BY <1>1, <1>2, SlugsKept DEF TenancyInv
<1>8. ClaimsApart'
  BY <1>1, <1>4, ClaimsKept DEF TenancyInv, Claims
<1>9. CarrierInv'
  <2>1. /\ \A u \in Signups \ {t} : Mirroring(u)' = Mirroring(u)
        /\ Mirroring(t)' = Mirroring(t) \cup {o}
    BY <1>1, <1>3 DEF Mirroring
  <2>2. CarrierFollowsStatus'
    <3> SUFFICES ASSUME NEW u \in trunk \ blurred', Mirroring(u)' = {}
                 PROVE  client[u].active = (tenant'[u].status # "suspended")
      BY <1>1 DEF CarrierFollowsStatus
    <3>1. u \in Signups \ {t} /\ Mirroring(u) = {}
      BY <2>1, TrunksAreTenants
    <3>2. QED
      BY <1>2, <1>4, <3>1 DEF TenancyInv, CarrierInv, CarrierAgrees, CarrierFollowsStatus
  <2>3. NumbersAssigned' /\ NumberOfOneClient'
    BY <1>1, <1>4 DEF TenancyInv, CarrierInv, NumbersAssigned, CarrierAgrees, NumberOfOneClient
  <2>4. MirrorsAgree'
    <3> SUFFICES ASSUME NEW p \in Operators, operator'[p].at = "mirror"
                 PROVE  /\ operator'[p].of \in Signups /\ tenant'[operator'[p].of].status # "none"
                        /\ operator'[p].of \notin blurred' =>
                             /\ tenant'[operator'[p].of].status = operator'[p].want
                             /\ \A k \in Operators \ {p} :
                                  operator'[k].at = "mirror" => operator'[k].of # operator'[p].of
      BY DEF MirrorsAgree
    <3>1. \A k \in Operators \ {o} : operator'[k].at = "mirror" /\ operator'[k].of = t => t \in blurred'
      BY <1>3, <1>4 DEF Mirroring
    <3>2. CASE p = o
      BY <1>2, <1>3, <3>1, <3>2
    <3>3. CASE p # o
      <4>1. operator'[p] = operator[p] /\ operator[p].at = "mirror" /\ operator[p].of \in Signups
        BY <1>3, <3>3 DEF TenancyInv, CarrierInv, MirrorsAgree
      <4>2. CASE operator[p].of = t
        BY <1>2, <3>1, <3>3, <4>1, <4>2
      <4>3. CASE operator[p].of # t
        BY <1>2, <1>3, <1>4, <4>1, <4>3 DEF TenancyInv, CarrierInv, MirrorsAgree
      <4>4. QED
        BY <4>2, <4>3
    <3>4. QED
      BY <3>2, <3>3
  <2>5. QED
    BY <2>2, <2>3, <2>4 DEF CarrierInv, CarrierAgrees
<1>10. QED
  BY <1>5, <1>6, <1>7, <1>8, <1>9 DEF TenancyInv

LEMMA MirrorStep ==
  ASSUME TenancyInv, NEW o \in Operators, Mirrors(o)
  PROVE  TenancyInv'
<1>1. PICK t \in Signups : operator[o].of = t
  BY DEF Mirrors, TenancyInv, CarrierInv, MirrorsAgree
<1>2. UNCHANGED <<request, tenant, admin, role, did, trunk>> /\ operator[o].at = "mirror"
  BY DEF Mirrors, requestVars
<1>3. /\ operator' \in [Operators -> [at : {"idle", "mirror", "done"}, of : Signups \cup {None},
                                      want : {"active", "suspended"}]]
      /\ \A p \in Operators \ {o} : operator'[p] = operator[p]
      /\ operator'[o].at = "done"
  BY DEF Mirrors, Finished, TenancyInv, TenancyTypeOK
<1>4. /\ client' \in [Signups -> ClientRec]
      /\ \A u \in Signups \ {t} : client'[u] = client[u]
      /\ client'[t].number = client[t].number
      /\ t \notin trunk => client' = client
      /\ t \in trunk \ blurred' => client'[t].active = (operator[o].want = "active")
  <2>1. client \in [Signups -> ClientRec] /\ (operator[o].want = "active") \in BOOLEAN
    BY DEF TenancyInv, TenancyTypeOK, ClientRec
  <2>2. \/ t \in trunk /\ client' = [client EXCEPT ![t].active = (operator[o].want = "active")]
        \/ t \notin trunk /\ client' = client
        \/ t \in trunk /\ t \in blurred' /\ client' = client
    BY <1>1 DEF Mirrors
  <2>3. QED
    BY <2>1, <2>2 DEF ClientRec
<1>5. blurred \subseteq blurred' /\ blurred' \subseteq blurred \cup {t} /\ faults' \in 0..MaxFaults
  BY <1>1, TenancyAssumption DEF Mirrors, Fault, TenancyInv, TenancyTypeOK
<1>6. TenancyTypeOK'
  BY <1>2, <1>3, <1>4, <1>5 DEF TenancyInv, TenancyTypeOK, ClientRec
<1>7. Written'
  BY <1>2, <1>4 DEF TenancyInv, Written, Made, HasRole, CarrierSteps, NoTenant
<1>8. SlugsPassed'
  BY <1>2, SlugsKept DEF TenancyInv
<1>9. ClaimsApart'
  BY <1>2, <1>5, ClaimsKept DEF TenancyInv, Claims
<1>10. CarrierInv'
  <2>1. /\ \A u \in Signups \ {t} : Mirroring(u)' = Mirroring(u)
        /\ Mirroring(t)' = Mirroring(t) \ {o}
    BY <1>1, <1>2, <1>3 DEF Mirroring
  <2>2. operator[o].want \in {"active", "suspended"}
        /\ (t \notin blurred => tenant[t].status = operator[o].want)
    BY <1>1, <1>2 DEF TenancyInv, TenancyTypeOK, CarrierInv, MirrorsAgree
  <2>3. CarrierFollowsStatus'
    <3> SUFFICES ASSUME NEW u \in trunk \ blurred', Mirroring(u)' = {}
                 PROVE  client'[u].active = (tenant[u].status # "suspended")
      BY <1>2 DEF CarrierFollowsStatus
    <3>1. CASE u = t
      BY <1>4, <1>5, <2>2, <3>1
    <3>2. CASE u # t
      BY <1>4, <1>5, <2>1, <3>2 DEF TenancyInv, TenancyTypeOK, CarrierInv, CarrierAgrees, CarrierFollowsStatus
    <3>3. QED
      BY <3>1, <3>2
  <2>4. \A u \in Signups : client'[u].number = client[u].number
    BY <1>4
  <2>5. NumbersAssigned' /\ NumberOfOneClient'
    BY <1>2, <1>5, <2>4 DEF TenancyInv, CarrierInv, NumbersAssigned, CarrierAgrees, NumberOfOneClient
  <2>6. MirrorsAgree'
    BY <1>2, <1>3, <1>5 DEF TenancyInv, CarrierInv, MirrorsAgree
  <2>7. QED
    BY <2>3, <2>5, <2>6 DEF CarrierInv, CarrierAgrees
<1>11. QED
  BY <1>6, <1>7, <1>8, <1>9, <1>10 DEF TenancyInv

LEMMA TenancyInitInv == TenancyInit => TenancyInv
<1> SUFFICES ASSUME TenancyInit
             PROVE  TenancyInv
  OBVIOUS
<1>1. Cardinality(Signups) \in Nat
  BY TenancyAssumption, FS_CardinalityType
<1>2. TenancyTypeOK
  BY <1>1, TenancyAssumption DEF TenancyInit, TenancyTypeOK, NoTenant, NoClient
<1>3. Written /\ SlugsPassed /\ ClaimsApart
  BY DEF TenancyInit, Written, Made, HasRole, SlugsPassed, ClaimsApart, Claims, DatabaseSteps, CarrierSteps
<1>4. CarrierInv
  BY TenancyAssumption DEF TenancyInit, CarrierInv, MirrorsAgree, NumbersAssigned, CarrierAgrees,
     CarrierFollowsStatus, NumberOfOneClient, NoClient
<1>5. QED
  BY <1>2, <1>3, <1>4 DEF TenancyInv

LEMMA TenancyNextInv == TenancyInv /\ [TenancyNext]_tenancyVars => TenancyInv'
<1> SUFFICES ASSUME TenancyInv, [TenancyNext]_tenancyVars
             PROVE  TenancyInv'
  OBVIOUS
<1>1. CASE \E r \in Signups : SignupStep(r)
  BY <1>1, ChecksStep, SlugStep, TenantStep, RowsStep, ClientStep, AssignsStep, TrunkStep DEF SignupStep
<1>2. CASE \E r \in Signups, self \in BOOLEAN, e \in Emails : SignupArrives(r, self, e)
  BY <1>2, ArrivesStep
<1>3. CASE \E o \in Operators, t \in Signups, want \in {"active", "suspended"} : setStatus(o, t, want)
  BY <1>3, StatusStep
<1>4. CASE \E o \in Operators : Mirrors(o)
  BY <1>4, MirrorStep
<1>5. CASE UNCHANGED tenancyVars
  BY <1>5 DEF tenancyVars, requestVars, carrierVars, TenancyInv, TenancyTypeOK, Written, Made, HasRole,
     SlugsPassed, ClaimsApart, Claims, CarrierInv, MirrorsAgree, Mirroring, NumbersAssigned,
     CarrierAgrees, CarrierFollowsStatus, NumberOfOneClient
<1>6. QED
  BY <1>1, <1>2, <1>3, <1>4, <1>5 DEF TenancyNext

LEMMA TenancyInvAlways == TenancySpec => []TenancyInv
BY TenancyInitInv, TenancyNextInv, PTL DEF TenancySpec

\* billing.service: no signup looks further for a slug than there are companies, and
\* requests, rows and the carrier's books keep their types.
THEOREM TenancyTypeCorrect == TenancySpec => []TenancyTypeOK
<1>1. TenancyInv => TenancyTypeOK
  BY DEF TenancyInv
<1>2. QED
  BY TenancyInvAlways, <1>1, PTL

\* billing.service and voipswitch.service: wherever a signup, its carrier calls or a
\* suspension fail, an account that can log in has its tenant and role, the carrier lets
\* exactly the tenants call that are not suspended, and a number is one client's.
THEOREM TenantsStayWhole == TenancySpec => []TenantsAreWhole
<1>1. TenancyInv => LoginFindsItsTenant
  BY DEF TenancyInv, Written, ClaimsApart, Claims, LoginFindsItsTenant
<1>2. TenancyInv => TenantsAreWhole
  BY <1>1 DEF TenancyInv, CarrierInv, TenantsAreWhole
<1>3. QED
  BY TenancyInvAlways, <1>2, PTL

-----------------------------------------------------------------------------
(***************************************************************************)
(* Numbers.  LiveMatchesRows speaks of moments without a sync, so the      *)
(* invariant says what a sync under way carries: as long as nothing is     *)
(* overtaken there is one, and what it has read and written is what the rows*)
(* are.  NumbersStayApart speaks of accounts at rest; the invariant gives  *)
(* every account the number whose row is its own (Owns), also between the  *)
(* awaits of a request, and keeps apart the accounts that are not doubtful.*)
(***************************************************************************)
\* What a request is doing, by its kind.
JobShape ==
  \A j \in Jobs :
    /\ job[j].at \in {"idle", "done"} <=> job[j].kind = "none"
    /\ job[j].at = "check" => job[j].kind \in {"create", "update"}
    /\ job[j].at = "account" => job[j].kind = "create"
    /\ job[j].at \in {"move", "link"} => job[j].kind = "update"
    /\ job[j].at = "row" => job[j].kind \in {"create", "addQueue"}
    /\ job[j].kind = "addQueue" => job[j].at = "row" \/ Syncing(j)
    /\ job[j].kind = "remove" => Syncing(j)
    /\ IF job[j].kind \in {"create", "update"} THEN job[j].who \in Staff ELSE job[j].who = NoAccount
    /\ job[j].kind \in {"create", "update", "addQueue"} => job[j].number \in Numbers
    /\ ~Syncing(j) => snapshot[j] = NotRead

\* One sync at a time, which has read the rows as they are and writes them, unless a row
\* has moved whose request has yet to link its account.
OneSync == ~overtaken => \A i, j \in Jobs : Syncing(i) /\ Syncing(j) => i = j

Carries(j) ==
  /\ snapshot[j].extension \in {Unread, extension} /\ snapshot[j].queue \in {Unread, queue}
  /\ job[j].at # "load" => snapshot[j].extension = extension /\ snapshot[j].queue = queue
  /\ job[j].at \in {"queues", "reload"} => file.extension = extension
  /\ job[j].at = "reload" => file.queue = queue

Linking(j) == job[j].at = "link"

SyncsCarry ==
  ~overtaken /\ (\A j \in Jobs : ~Linking(j)) =>
    /\ \A j \in Jobs : Syncing(j) => Carries(j)
    /\ (\A j \in Jobs : ~Syncing(j)) => live.extension = extension /\ live.queue = queue

LiveInv == OneSync /\ SyncsCarry

-----------------------------------------------------------------------------
Clear == Staff \ doubtful
Of(a) == {j \in Jobs : job[j].who = a}

\* What a request for an account that is not doubtful has written so far.
Progress(j, a) ==
  /\ \A i \in Of(a) : i = j
  /\ job[j].kind = "create" /\ job[j].at \in {"check", "account"} => account[a] = 0
  /\ job[j].kind = "create" /\ job[j].at = "row" => account[a] = job[j].number
  /\ job[j].at \in {"account", "row", "move"} => job[j].number \notin extension
  /\ job[j].kind = "update" /\ job[j].at \in {"check", "move"} => account[a] = job[j].old /\ account[a] # 0
  /\ Syncing(j) => account[a] = job[j].number

Progressing == \A a \in Clear : \A j \in Of(a) : Progress(j, a)

\* Two requests for one number make their accounts doubtful.
Rivals ==
  \A i, j \in Jobs : i # j /\ i \in Taking(job[j].number) /\ j \in Taking(job[j].number) =>
    {job[i].who, job[j].who} \subseteq doubtful

\* The number whose extension row is the account's: the one it is being given once the row
\* has moved, otherwise its own, once the row is there.
Owns(a, n) ==
  \/ \E j \in Of(a) : Linking(j) /\ job[j].number = n
  \/ account[a] = n /\ n # 0 /\ \A j \in Of(a) : job[j].at \notin {"link", "row"}

OwnedApart ==
  \A a \in Clear, n \in Numbers : Owns(a, n) =>
    n \in extension /\ \A b \in Clear : Owns(b, n) => b = a

\* The number a queue is about to get.
QueueNumbersFree ==
  \A j \in Jobs : At(j, "addQueue", "row") /\ job[j].number \in extension => job[j].number \in doubtful

ApartInv == Progressing /\ Rivals /\ OwnedApart /\ QueueNumbersFree

NumberingInv == NumberingTypeOK /\ JobShape /\ LiveInv /\ ApartInv

JobRec == [kind : Kinds,
           at : {"idle", "check", "account", "row", "move", "link", "read", "load",
                 "users", "queues", "reload", "done"},
           who : Staff \cup {NoAccount}, number : 0..LastNumber, old : 0..LastNumber]
JobSteps == {"idle", "check", "account", "row", "move", "link", "read", "load", "users", "queues", "reload", "done"}
SyncSteps == {"load", "users", "queues", "reload"}

-----------------------------------------------------------------------------
\* A request goes on to its next await, or ends.
GoesOn(j, s) ==
  /\ job' \in [Jobs -> JobRec]
  /\ \A i \in Jobs \ {j} : job'[i] = job[i]
  /\ job'[j].at = s /\ job'[j].kind = job[j].kind /\ job'[j].who = job[j].who
  /\ job'[j].number = job[j].number /\ job'[j].old = job[j].old

IsOver(j) ==
  /\ job' \in [Jobs -> JobRec]
  /\ \A i \in Jobs \ {j} : job'[i] = job[i]
  /\ job'[j].at = "done" /\ job'[j].kind = "none" /\ job'[j].who = NoAccount

LEMMA JobsTyped == NumberingTypeOK => job \in [Jobs -> JobRec]
BY DEF NumberingTypeOK, JobRec

LEMMA GoEffect ==
  ASSUME NumberingTypeOK, NEW j \in Jobs, NEW s \in JobSteps, Go(j, s)
  PROVE  GoesOn(j, s)
<1>1. job \in [Jobs -> JobRec] /\ job' = [job EXCEPT ![j].at = s]
  BY JobsTyped DEF Go
<1>2. QED
  BY <1>1 DEF GoesOn, JobRec, JobSteps

LEMMA EndEffect ==
  ASSUME NumberingTypeOK, NEW j \in Jobs, Ends(j)
  PROVE  IsOver(j)
<1> DEFINE over == [Idle EXCEPT !.at = "done"]
<1>1. over \in JobRec /\ over.at = "done" /\ over.kind = "none" /\ over.who = NoAccount
  BY NumberingAssumption DEF Idle, JobRec, Kinds
<1>2. job \in [Jobs -> JobRec] /\ job' = [job EXCEPT ![j] = over]
  BY JobsTyped DEF Ends
<1> HIDE DEF over
<1>3. QED
  BY <1>1, <1>2 DEF IsOver

\* A request arrives.
Arrived(j, k, s, a, n) ==
  /\ job' \in [Jobs -> JobRec]
  /\ \A i \in Jobs \ {j} : job'[i] = job[i]
  /\ job'[j].kind = k /\ job'[j].at = s /\ job'[j].who = a /\ job'[j].number = n
  /\ job[j].at = "idle" /\ job[j].kind = "none" /\ job[j].who = NoAccount

LEMMA ArrivalEffect ==
  ASSUME NumberingTypeOK, NEW j \in Jobs, NEW k \in Kinds, NEW s \in JobSteps,
         NEW a \in Staff \cup {NoAccount}, NEW n \in 0..LastNumber, NEW o \in 0..LastNumber,
         job[j] = Idle, job' = [job EXCEPT ![j] = [kind |-> k, at |-> s, who |-> a, number |-> n, old |-> o]]
  PROVE  Arrived(j, k, s, a, n) /\ job'[j].old = o
<1> DEFINE new == [kind |-> k, at |-> s, who |-> a, number |-> n, old |-> o]
<1>1. /\ new \in JobRec /\ new.kind = k /\ new.at = s /\ new.who = a /\ new.number = n /\ new.old = o
  BY DEF JobRec, JobSteps
<1>2. job \in [Jobs -> JobRec] /\ job[j].at = "idle" /\ job[j].kind = "none" /\ job[j].who = NoAccount
  BY JobsTyped DEF Idle
<1> HIDE DEF new
<1>3. job' = [job EXCEPT ![j] = new]
  BY DEF new
<1>4. QED
  BY <1>1, <1>2, <1>3 DEF Arrived

LEMMA CreateArrival ==
  ASSUME NumberingTypeOK, NEW j \in Jobs, NEW a \in Staff, NEW n \in Numbers, AccountCreateArrives(j, a, n)
  PROVE  Arrived(j, "create", "check", a, n)
<1>1. /\ job[j] = Idle
      /\ job' = [job EXCEPT ![j] = [kind |-> "create", at |-> "check", who |-> a, number |-> n, old |-> 0]]
  BY DEF AccountCreateArrives
<1>2. /\ "create" \in Kinds /\ "check" \in JobSteps /\ a \in Staff \cup {NoAccount}
      /\ n \in 0..LastNumber /\ 0 \in 0..LastNumber
  BY NumberingAssumption DEF Kinds, JobSteps, Numbers
<1>3. QED
  BY ONLY <1>1, <1>2, NumberingTypeOK, ArrivalEffect

LEMMA UpdateArrival ==
  ASSUME NumberingTypeOK, NEW j \in Jobs, NEW a \in Staff, NEW n \in Numbers, AccountUpdateArrives(j, a, n)
  PROVE  Arrived(j, "update", "check", a, n) /\ job'[j].old = account[a]
<1>1. PICK o \in 0..LastNumber : o = account[a]
  BY DEF NumberingTypeOK
<1> DEFINE new == [kind |-> "update", at |-> "check", who |-> a, number |-> n, old |-> o]
<1>2. /\ new \in JobRec /\ new.kind = "update" /\ new.at = "check"
      /\ new.who = a /\ new.number = n /\ new.old = o
  BY <1>1, NumberingAssumption DEF JobRec, Kinds, Numbers
<1>3. job \in [Jobs -> JobRec] /\ job[j].at = "idle" /\ job[j].kind = "none" /\ job[j].who = NoAccount
  BY JobsTyped DEF AccountUpdateArrives, Idle
<1>4. job' = [job EXCEPT ![j] = new]
  BY <1>1 DEF AccountUpdateArrives
<1> HIDE DEF new
<1>5. Arrived(j, "update", "check", a, n) /\ job'[j].old = o
  BY ONLY <1>2, <1>3, <1>4 DEF Arrived
<1>6. QED
  BY <1>1, <1>5

LEMMA RemoveArrival ==
  ASSUME NumberingTypeOK, NEW j \in Jobs, NEW n \in Numbers, RemovesRow(j, n)
  PROVE  Arrived(j, "remove", "load", NoAccount, 0)
<1> DEFINE new == [Idle EXCEPT !.kind = "remove", !.at = "load"]
<1>1. /\ Idle.kind = "none" /\ Idle.at = "idle" /\ Idle.who = NoAccount /\ Idle.number = 0 /\ Idle.old = 0
      /\ Idle \in JobRec /\ "remove" \in Kinds
  BY NumberingAssumption DEF Idle, JobRec, Kinds
<1>2. /\ new \in JobRec /\ new.kind = "remove" /\ new.at = "load" /\ new.who = NoAccount /\ new.number = 0
  BY <1>1 DEF JobRec
<1>3. job \in [Jobs -> JobRec] /\ job[j] = Idle /\ job' = [job EXCEPT ![j] = new]
  BY JobsTyped DEF RemovesRow
<1> HIDE DEF new
<1>4. QED
  BY <1>1, <1>2, <1>3 DEF Arrived

\* POST of a queue: the number is the least that is free in range, if there is one.
LEMMA NextNumberFree ==
  ASSUME NEW used
  PROVE  nextNumber(used) = 0 \/ nextNumber(used) \in QueueNumbers \ used
<1> DEFINE free == QueueNumbers \ used
<1>1. CASE free = {}
  BY <1>1 DEF nextNumber
<1>2. CASE free # {}
  <2>1. free \subseteq Nat
    BY NumberingAssumption DEF QueueNumbers
  <2>2. PICK n \in free : \A m \in free : <<m, n>> \notin OpToRel(<, Nat)
    BY <1>2, <2>1, NatLessThanWellFounded, WFMin
  <2>3. ASSUME NEW m \in free
        PROVE  n <= m
    <3>1. n \in Nat /\ m \in Nat
      BY <2>1, <2>2
    <3>2. m < n => <<m, n>> \in OpToRel(<, Nat)
      BY <3>1 DEF OpToRel
    <3>3. ~(m < n)
      BY <2>2, <3>2
    <3>4. QED
      BY <3>1, <3>3
  <2>4. QED
    BY <1>2, <2>2, <2>3 DEF nextNumber
<1>3. QED
  BY <1>1, <1>2

LEMMA QueueArrival ==
  ASSUME NumberingTypeOK, NEW j \in Jobs, QueueArrives(j)
  PROVE  \/ IsOver(j)
         \/ \E n \in Numbers \ (queue \cup extension) : Arrived(j, "addQueue", "row", NoAccount, n)
<1>1. job[j] = Idle
  BY DEF QueueArrives
<1>2. PICK n \in 0..LastNumber : n = nextNumber(queue \cup extension)
  BY NextNumberFree, NumberingAssumption DEF QueueNumbers
<1>3. CASE n = 0
  BY <1>2, <1>3, EndEffect DEF QueueArrives, Ends
<1>4. CASE n # 0
  <2>1. n \in Numbers \ (queue \cup extension)
    BY <1>2, <1>4, NextNumberFree DEF Numbers
  <2>2. job' = [job EXCEPT ![j] = [kind |-> "addQueue", at |-> "row", who |-> NoAccount, number |-> n, old |-> 0]]
    BY <1>2, <1>4 DEF QueueArrives
  <2>3. /\ "addQueue" \in Kinds /\ "row" \in JobSteps /\ NoAccount \in Staff \cup {NoAccount}
        /\ n \in 0..LastNumber /\ 0 \in 0..LastNumber
    BY <1>2, NumberingAssumption DEF Kinds, JobSteps
  <2>4. Arrived(j, "addQueue", "row", NoAccount, n)
    BY ONLY <1>1, <2>2, <2>3, NumberingTypeOK, ArrivalEffect
  <2>5. QED
    BY <2>1, <2>4
<1>5. QED
  BY <1>3, <1>4

-----------------------------------------------------------------------------
\* What a step of one request leaves as it was.
Apart(j) == (\A i \in Jobs \ {j} : job'[i] = job[i]) /\ doubtful \subseteq doubtful'

LEMMA OwnsElsewhere ==
  ASSUME NEW j \in Jobs, Apart(j), NEW a \in Staff, a # job[j].who, a # job'[j].who,
         account'[a] = account[a], NEW n
  PROVE  Owns(a, n)' <=> Owns(a, n)
BY DEF Apart, Owns, Of, Linking

LEMMA ProgressElsewhere ==
  ASSUME JobShape, ApartInv, NEW j \in Jobs, Apart(j), NEW a \in Staff \ doubtful',
         a # job[j].who, a # job'[j].who, account'[a] = account[a],
         \/ extension' \subseteq extension
         \/ j \in Taking(job[j].number) /\ extension' \subseteq extension \cup {job[j].number}
  PROVE  \A i \in Of(a)' : Progress(i, a)'
<1> SUFFICES ASSUME NEW i \in Of(a)'
             PROVE  Progress(i, a)'
  OBVIOUS
<1>1. i \in Of(a) /\ i # j /\ job'[i] = job[i] /\ a \in Clear /\ i \in Jobs
  BY DEF Of, Apart, Clear
<1>2. Progress(i, a)
  BY <1>1 DEF ApartInv, Progressing
<1>3. \A k \in Of(a)' : k = i
  BY <1>1, <1>2 DEF Progress, Of, Apart
<1>4. job[i].at \in {"account", "row", "move"} => i \in Taking(job[i].number)
  BY <1>1, NumberingAssumption DEF JobShape, Taking, Of
<1>5. job[i].at \in {"account", "row", "move"} => job[i].number \notin extension'
  BY <1>1, <1>2, <1>4 DEF Progress, ApartInv, Rivals, Of, Clear
<1>6. QED
  BY <1>1, <1>2, <1>3, <1>5 DEF Progress, Syncing

LEMMA RivalsKept ==
  ASSUME ApartInv, NEW j \in Jobs, Apart(j),
         \A n : j \in Taking(n)' => j \in Taking(n) /\ job'[j].number = job[j].number /\ job'[j].who = job[j].who
  PROVE  Rivals'
<1> SUFFICES ASSUME NEW i \in Jobs, NEW k \in Jobs, i # k,
                    (i \in Taking(job[k].number))', (k \in Taking(job[k].number))'
             PROVE  {job'[i].who, job'[k].who} \subseteq doubtful'
  BY DEF Rivals
<1>1. \A q \in Jobs : \A n : q \in Taking(n)' =>
        q \in Taking(n) /\ job'[q].number = job[q].number /\ job'[q].who = job[q].who
  BY DEF Apart, Taking
<1>2. QED
  BY <1>1 DEF ApartInv, Rivals, Apart, Taking

\* Whoever owns a row is among those its removal or its move by another touches.
LEMMA OwnersTouched ==
  ASSUME JobShape, NEW b \in Staff, NEW m, Owns(b, m)
  PROVE  b \in TouchedBy(m)
<1>1. CASE \E i \in Of(b) : Linking(i) /\ job[i].number = m
  <2>1. PICK i \in Of(b) : Linking(i) /\ job[i].number = m
    BY <1>1
  <2>2. i \in Taking(m) /\ job[i].who = b
    BY <2>1 DEF Linking, Taking, Of, JobShape
  <2>3. QED
    BY <2>2 DEF TouchedBy
<1>2. CASE account[b] = m
  BY <1>2 DEF TouchedBy, Holders
<1>3. QED
  BY <1>1, <1>2 DEF Owns

\* A number changes hands only to an account for whom it was free, and takes its row along.
LEMMA OwnedKept ==
  ASSUME OwnedApart, doubtful \subseteq doubtful', NEW c, NEW m,
         \A a \in Staff \ doubtful', n \in Numbers :
           Owns(a, n)' => n \in extension' /\ (Owns(a, n) \/ (a = c /\ n = m /\ m \notin extension))
  PROVE  OwnedApart'
<1>1. (Clear \subseteq Staff)' /\ Clear' \subseteq Clear
  BY DEF Clear
<1>2. ASSUME NEW a \in Clear', NEW n \in Numbers, Owns(a, n)', NEW b \in Clear', Owns(b, n)'
      PROVE  b = a
  <2>1. Owns(a, n) => n \in extension /\ \A d \in Clear : Owns(d, n) => d = a
    BY <1>1, <1>2 DEF OwnedApart
  <2>2. Owns(b, n) => n \in extension
    BY <1>1, <1>2 DEF OwnedApart
  <2>3. /\ Owns(a, n) \/ (a = c /\ n = m /\ m \notin extension)
        /\ Owns(b, n) \/ (b = c /\ n = m /\ m \notin extension)
    BY <1>2 DEF Clear
  <2>4. QED
    BY <1>1, <1>2, <2>1, <2>2, <2>3
<1>3. QED
  BY <1>1, <1>2 DEF OwnedApart, Clear

LEMMA QueueNumbersKept ==
  ASSUME ApartInv, NEW j \in Jobs, Apart(j),
         \A m \in extension' \ extension : AboutToQueue(m) \subseteq doubtful',
         (At(j, "addQueue", "row"))' => job'[j].number \notin extension' \/ job'[j].number \in doubtful'
  PROVE  QueueNumbersFree'
<1> SUFFICES ASSUME NEW i \in Jobs \ {j}, job[i].kind = "addQueue", job[i].at = "row", job[i].number \in extension'
             PROVE  job[i].number \in doubtful'
  BY DEF QueueNumbersFree, At, Apart
<1>1. CASE job[i].number \in extension
  BY <1>1 DEF ApartInv, QueueNumbersFree, At, Apart
<1>2. CASE job[i].number \notin extension
  BY <1>2 DEF AboutToQueue, At
<1>3. QED
  BY <1>1, <1>2

-----------------------------------------------------------------------------
(* Numbers stay apart: the step of each operation.                         *)

\* A request that writes nothing of its own: it arrives, ends, or goes on with its sync.
LEMMA NobodysStep ==
  ASSUME NumberingTypeOK, JobShape, ApartInv, NEW j \in Jobs, Apart(j),
         extension' \subseteq extension, account' = account,
         job'[j].who \in {NoAccount} \cup doubtful',
         job[j].who \in {NoAccount} \cup doubtful',
         job'[j].kind \notin {"create", "update"},
         (At(j, "addQueue", "row"))' => job'[j].number \notin extension' \/ job'[j].number \in doubtful',
         \A a \in Staff \ doubtful', n \in extension \ extension' : ~Owns(a, n)
  PROVE  ApartInv'
<1>1. \A a \in Staff \ doubtful' : a # job[j].who /\ a # job'[j].who /\ account'[a] = account[a]
  BY NumberingAssumption
<1>2. Progressing'
  BY <1>1, ProgressElsewhere DEF Progressing, Clear
<1>3. Rivals'
  BY RivalsKept DEF Taking
<1>4. OwnedApart'
  <2>1. \A a \in Staff \ doubtful', n \in Numbers : Owns(a, n)' => Owns(a, n) /\ n \in extension'
    BY <1>1, OwnsElsewhere DEF ApartInv, OwnedApart, Clear, Apart
  <2>2. QED
    BY <2>1, OwnedKept DEF ApartInv, Apart
<1>5. QueueNumbersFree'
  BY QueueNumbersKept DEF ApartInv
<1>6. QED
  BY <1>2, <1>3, <1>4, <1>5 DEF ApartInv

\* A request that has to do with the account a.
LEMMA AccountsStep ==
  ASSUME NumberingTypeOK, JobShape, ApartInv, NEW j \in Jobs, Apart(j), NEW a \in Staff, NEW m,
         job[j].who \in {a, NoAccount}, job'[j].who \in {a, NoAccount}, job'[j].kind # "addQueue",
         \A b \in Staff \ {a} : account'[b] = account[b],
         \/ extension' \subseteq extension
         \/ j \in Taking(job[j].number) /\ extension' \subseteq extension \cup {job[j].number},
         \A n \in extension' \ extension : AboutToQueue(n) \subseteq doubtful',
         \A b \in Staff \ (doubtful' \cup {a}), n \in extension \ extension' : ~Owns(b, n),
         a \notin doubtful' => \A i \in Of(a)' : Progress(i, a)',
         a \notin doubtful' =>
           \A n \in Numbers : Owns(a, n)' => n \in extension' /\ (Owns(a, n) \/ (n = m /\ m \notin extension)),
         Rivals'
  PROVE  ApartInv'
<1>1. \A b \in Staff \ (doubtful' \cup {a}) : b # job[j].who /\ b # job'[j].who /\ account'[b] = account[b]
  BY NumberingAssumption
<1>2. Progressing'
  <2>1. \A b \in Staff \ (doubtful' \cup {a}) : \A i \in Of(b)' : Progress(i, b)'
    BY <1>1, ProgressElsewhere
  <2>2. QED
    BY <2>1 DEF Progressing, Clear
<1>3. OwnedApart'
  <2>1. \A b \in Staff \ (doubtful' \cup {a}), n \in Numbers : Owns(b, n)' => Owns(b, n) /\ n \in extension'
    BY <1>1, OwnsElsewhere DEF ApartInv, OwnedApart, Clear, Apart
  <2>2. \A b \in Staff \ doubtful', n \in Numbers :
          Owns(b, n)' => n \in extension' /\ (Owns(b, n) \/ (b = a /\ n = m /\ m \notin extension))
    BY <2>1
  <2>3. QED
    BY <2>2, OwnedKept DEF ApartInv, Apart
<1>4. QueueNumbersFree'
  BY QueueNumbersKept DEF ApartInv, At
<1>5. QED
  BY <1>2, <1>3, <1>4 DEF ApartInv

\* POST and PATCH of an account arrive.
LEMMA CreateArrivesApart ==
  ASSUME NumberingInv, NEW j \in Jobs, NEW a \in Staff, NEW n \in Numbers, AccountCreateArrives(j, a, n)
  PROVE  ApartInv'
<1>1. Arrived(j, "create", "check", a, n) /\ UNCHANGED <<extension, account, doubtful>>
  BY CreateArrival DEF AccountCreateArrives, rowVars, NumberingInv
<1>2. account[a] = 0 /\ \A i \in Jobs : job[i].who # a
  BY DEF AccountCreateArrives
<1>3. Of(a)' = {j} /\ Apart(j)
  BY <1>1, <1>2 DEF Arrived, Of, Apart
<1>4. \A i \in Of(a)' : Progress(i, a)'
  BY <1>1, <1>2, <1>3 DEF Arrived, Progress, Syncing
<1>5. \A k \in Numbers : ~Owns(a, k)'
  BY <1>1, <1>2, <1>3 DEF Arrived, Owns, Linking, Numbers
<1>6. Rivals'
  BY <1>1, <1>3, RivalsKept DEF Arrived, Taking, NumberingInv
<1>7. QED
  BY <1>1, <1>3, <1>4, <1>5, <1>6, AccountsStep DEF Arrived, NumberingInv

LEMMA UpdateArrivesApart ==
  ASSUME NumberingInv, NEW j \in Jobs, NEW a \in Staff, NEW n \in Numbers, AccountUpdateArrives(j, a, n)
  PROVE  ApartInv'
<1>1. account[a] # 0 /\ account[a] \in 0..LastNumber
  BY DEF AccountUpdateArrives, NumberingInv, NumberingTypeOK
<1>2. Arrived(j, "update", "check", a, n) /\ job'[j].old = account[a] /\ UNCHANGED <<extension, account>>
  BY UpdateArrival DEF AccountUpdateArrives, rowVars, NumberingInv
<1>3. doubtful' = IF \E i \in Jobs : job[i].who = a THEN doubtful \cup {a} ELSE doubtful
  BY DEF AccountUpdateArrives
<1>4. Apart(j)
  BY <1>2, <1>3 DEF Arrived, Apart
<1>5. a \notin doubtful' => Of(a)' = {j}
  BY <1>2, <1>3 DEF Arrived, Of
<1>6. a \notin doubtful' => \A i \in Of(a)' : Progress(i, a)'
  BY <1>1, <1>2, <1>5 DEF Arrived, Progress, Syncing
<1>7. a \notin doubtful' => \A k \in Numbers : Owns(a, k)' => Owns(a, k)
  BY <1>2, <1>3, <1>5 DEF Arrived, Owns, Linking, Of
<1>8. a \notin doubtful' => \A k \in Numbers : Owns(a, k) => k \in extension
  BY <1>4 DEF NumberingInv, ApartInv, OwnedApart, Clear, Apart
<1>9. Rivals'
  BY <1>2, <1>4, RivalsKept DEF Arrived, Taking, NumberingInv
<1>10. QED
  BY <1>2, <1>4, <1>6, <1>7, <1>8, <1>9, AccountsStep DEF Arrived, NumberingInv

\* The requests of an account, await by await.
LEMMA ChecksApart ==
  ASSUME NumberingInv, NEW j \in Jobs, ChecksExtension(j)
  PROVE  ApartInv'
<1> DEFINE n == job[j].number
<1>1. PICK a \in Staff : job[j].who = a
  BY DEF NumberingInv, JobShape, ChecksExtension
<1>2. job[j].at = "check" /\ UNCHANGED <<extension, account>> /\ job[j].kind \in {"create", "update"}
  BY DEF ChecksExtension, rowVars, NumberingInv, JobShape
<1>3. CASE n \in extension
  <2>1. IsOver(j) /\ doubtful' = doubtful
    BY <1>3, EndEffect DEF ChecksExtension, NumberingInv
  <2>2. Apart(j) /\ Of(a)' = Of(a) \ {j} /\ j \in Of(a)
    BY <1>1, <2>1, NumberingAssumption DEF Apart, IsOver, Of
  <2>3. a \notin doubtful' => \A i \in Of(a)' : Progress(i, a)'
    BY <2>1, <2>2 DEF NumberingInv, ApartInv, Progressing, Progress, Clear
  <2>4. \A k \in Numbers : Owns(a, k)' => Owns(a, k)
    BY <1>2, <2>1, <2>2 DEF Owns, Linking, Of, IsOver
  <2>5. a \notin doubtful' => \A k \in Numbers : Owns(a, k) => k \in extension
    BY <2>1 DEF NumberingInv, ApartInv, OwnedApart, Clear
  <2>6. Rivals'
    BY <2>1, <2>2, RivalsKept DEF IsOver, Taking, NumberingInv
  <2>7. QED
    BY <1>1, <1>2, <2>1, <2>2, <2>3, <2>4, <2>5, <2>6, AccountsStep DEF IsOver, NumberingInv
<1>4. CASE n \notin extension
  <2>1. PICK s \in {"account", "move"} : Go(j, s) /\ (s = "account" <=> job[j].kind = "create")
    BY <1>4 DEF ChecksExtension
  <2>2. GoesOn(j, s)
    BY <2>1, GoEffect DEF NumberingInv, JobSteps
  <2>3. doubtful' = IF Taking(n) = {} THEN doubtful ELSE doubtful \cup {a} \cup {job[i].who : i \in Taking(n)}
    BY <1>1, <1>4 DEF ChecksExtension
  <2>4. Apart(j) /\ Of(a)' = Of(a) /\ j \in Of(a) /\ job'[j].who = a
    BY <1>1, <2>2, <2>3 DEF Apart, GoesOn, Of
  <2>5. a \notin doubtful' => \A i \in Of(a)' : Progress(i, a)'
    <3> SUFFICES ASSUME a \notin doubtful', NEW i \in Of(a)
                 PROVE  Progress(i, a)'
      BY <2>4
    <3>1. i = j /\ Progress(j, a) /\ \A k \in Of(a) : k = j
      BY <2>4 DEF NumberingInv, ApartInv, Progressing, Progress, Clear, Apart
    <3>2. QED
      BY <1>2, <1>4, <2>1, <2>2, <2>4, <3>1 DEF Progress, GoesOn, Syncing
  <2>6. \A k \in Numbers : Owns(a, k)' => Owns(a, k)
    BY <1>2, <2>1, <2>2, <2>4 DEF Owns, Linking, Of, GoesOn
  <2>7. a \notin doubtful' => \A k \in Numbers : Owns(a, k) => k \in extension
    BY <2>4 DEF NumberingInv, ApartInv, OwnedApart, Clear, Apart
  <2>8. Rivals'
    <3> SUFFICES ASSUME NEW i \in Jobs, NEW k \in Jobs, i # k,
                        (i \in Taking(job[k].number))', (k \in Taking(job[k].number))'
                 PROVE  {job'[i].who, job'[k].who} \subseteq doubtful'
      BY DEF Rivals
    <3>1. CASE i # j /\ k # j
      <4>1. i \in Taking(job[k].number) /\ k \in Taking(job[k].number)
        BY <2>4, <3>1 DEF Apart, Taking
      <4>2. QED
        BY <2>4, <3>1, <4>1 DEF Apart, NumberingInv, ApartInv, Rivals
    <3>2. CASE i = j
      <4>1. k \in Taking(n)
        BY <2>2, <2>4, <3>2 DEF Apart, Taking, GoesOn
      <4>2. QED
        BY <2>3, <2>4, <3>2, <4>1 DEF Apart
    <3>3. CASE k = j
      <4>1. i \in Taking(n)
        BY <2>2, <2>4, <3>3 DEF Apart, Taking, GoesOn
      <4>2. QED
        BY <2>3, <2>4, <3>3, <4>1 DEF Apart
    <3>4. QED
      BY <3>1, <3>2, <3>3
  <2>9. QED
    BY <1>1, <1>2, <2>2, <2>4, <2>5, <2>6, <2>7, <2>8, AccountsStep DEF GoesOn, NumberingInv
<1>5. QED
  BY <1>3, <1>4

LEMMA AccountMadeApart ==
  ASSUME NumberingInv, NEW j \in Jobs, CreatesAccount(j)
  PROVE  ApartInv'
<1>1. PICK a \in Staff : job[j].who = a
  BY DEF NumberingInv, JobShape, CreatesAccount, At
<1>2. /\ job[j].kind = "create" /\ job[j].at = "account" /\ UNCHANGED <<extension, doubtful>>
      /\ account' = [account EXCEPT ![a] = job[j].number] /\ Go(j, "row")
  BY <1>1 DEF CreatesAccount, At
<1>3. GoesOn(j, "row") /\ account \in [Staff -> 0..LastNumber]
  BY <1>2, GoEffect DEF NumberingInv, JobSteps, NumberingTypeOK
<1>4. Apart(j) /\ Of(a)' = Of(a) /\ j \in Of(a) /\ job'[j].who = a
  BY <1>1, <1>2, <1>3 DEF Apart, GoesOn, Of
<1>5. a \notin doubtful' => \A i \in Of(a)' : Progress(i, a)'
  <2> SUFFICES ASSUME a \notin doubtful', NEW i \in Of(a)
               PROVE  Progress(i, a)'
    BY <1>4
  <2>1. i = j /\ Progress(j, a) /\ \A k \in Of(a) : k = j
    BY <1>4 DEF NumberingInv, ApartInv, Progressing, Progress, Clear, Apart
  <2>2. QED
    BY <1>2, <1>3, <1>4, <2>1 DEF Progress, GoesOn, Syncing
<1>6. \A k \in Numbers : Owns(a, k)' => Owns(a, k)
  BY <1>2, <1>3, <1>4 DEF Owns, Linking, Of, GoesOn
<1>7. a \notin doubtful' => \A k \in Numbers : Owns(a, k) => k \in extension
  BY <1>4 DEF NumberingInv, ApartInv, OwnedApart, Clear, Apart
<1>8. Rivals'
  BY <1>2, <1>3, <1>4, RivalsKept DEF GoesOn, Taking, NumberingInv
<1>9. QED
  BY <1>1, <1>2, <1>3, <1>4, <1>5, <1>6, <1>7, <1>8, AccountsStep DEF GoesOn, NumberingInv

LEMMA ExtensionMadeApart ==
  ASSUME NumberingInv, NEW j \in Jobs, CreatesExtension(j)
  PROVE  ApartInv'
<1> DEFINE n == job[j].number
<1>1. PICK a \in Staff : job[j].who = a
  BY DEF NumberingInv, JobShape, CreatesExtension, At
<1>2. job[j].kind = "create" /\ job[j].at = "row" /\ UNCHANGED account /\ n \in Numbers
  BY DEF CreatesExtension, At, NumberingInv, JobShape
<1>3. doubtful' = doubtful \cup AboutToQueue(n)
  BY DEF CreatesExtension
<1>4. j \in Of(a) /\ j \in Taking(n)
  BY <1>1, <1>2 DEF Of, Taking
<1>5. a \notin doubtful' => n \notin extension /\ account[a] = n /\ \A k \in Of(a) : k = j
  BY <1>2, <1>3, <1>4 DEF NumberingInv, ApartInv, Progressing, Progress, Clear
<1>6. CASE n \in extension
  <2>1. IsOver(j) /\ UNCHANGED extension
    BY <1>6, EndEffect DEF CreatesExtension, NumberingInv
  <2>2. Apart(j)
    BY <1>3, <2>1 DEF Apart, IsOver
  <2>3. Rivals'
    BY <2>1, <2>2, RivalsKept DEF IsOver, Taking, NumberingInv
  <2>4. QED
    BY <1>1, <1>2, <1>5, <1>6, <2>1, <2>2, <2>3, AccountsStep DEF IsOver, NumberingInv
<1>7. CASE n \notin extension
  <2>1. extension' = extension \cup {n} /\ GoesOn(j, "load")
    BY <1>7, GoEffect DEF CreatesExtension, GoSync, NumberingInv, JobSteps
  <2>2. Apart(j) /\ Of(a)' = Of(a) /\ job'[j].who = a
    BY <1>1, <1>3, <2>1 DEF Apart, GoesOn, Of
  <2>3. a \notin doubtful' => \A i \in Of(a)' : Progress(i, a)'
    BY <1>2, <1>5, <2>1, <2>2 DEF Progress, GoesOn, Syncing
  <2>4. a \notin doubtful' => \A k \in Numbers : Owns(a, k)' => k = n /\ n \in extension'
    BY <1>2, <1>5, <2>1, <2>2 DEF Owns, Linking, GoesOn
  <2>5. Rivals'
    BY <1>2, <2>1, <2>2, RivalsKept DEF GoesOn, Taking, NumberingInv
  <2>6. \A k \in extension' \ extension : AboutToQueue(k) \subseteq doubtful'
    BY <1>3, <2>1
  <2>7. job'[j].kind # "addQueue"
    BY <1>2, <2>1 DEF GoesOn
  <2>8. QED
    BY <1>1, <1>2, <1>4, <1>7, <2>1, <2>2, <2>3, <2>4, <2>5, <2>6, <2>7, AccountsStep DEF NumberingInv
<1>8. QED
  BY <1>6, <1>7

LEMMA ExtensionMovedApart ==
  ASSUME NumberingInv, NEW j \in Jobs, MovesExtension(j)
  PROVE  ApartInv'
<1> DEFINE n == job[j].number
           old == job[j].old
<1>1. PICK a \in Staff : job[j].who = a
  BY DEF NumberingInv, JobShape, MovesExtension, At
<1>2. job[j].kind = "update" /\ job[j].at = "move" /\ UNCHANGED account /\ n \in Numbers
  BY DEF MovesExtension, At, NumberingInv, JobShape
<1>3. doubtful' = doubtful \cup AboutToQueue(n) \cup IF a \in doubtful THEN TouchedBy(old) ELSE {}
  BY <1>1 DEF MovesExtension
<1>4. j \in Of(a) /\ j \in Taking(n)
  BY <1>1, <1>2 DEF Of, Taking
<1>5. a \notin doubtful =>
        n \notin extension /\ account[a] = old /\ old # 0 /\ \A k \in Of(a) : k = j
  BY <1>2, <1>4 DEF NumberingInv, ApartInv, Progressing, Progress, Clear
<1>6. CASE n \in extension
  <2>1. IsOver(j) /\ UNCHANGED extension
    BY <1>6, EndEffect DEF MovesExtension, NumberingInv
  <2>2. Apart(j)
    BY <1>3, <2>1 DEF Apart, IsOver
  <2>3. Rivals'
    BY <2>1, <2>2, RivalsKept DEF IsOver, Taking, NumberingInv
  <2>4. QED
    BY <1>1, <1>2, <1>3, <1>5, <1>6, <2>1, <2>2, <2>3, AccountsStep DEF IsOver, NumberingInv
<1>7. CASE n \notin extension
  <2>1. extension' = (extension \ {old}) \cup {n} /\ GoesOn(j, "link")
    BY <1>7, GoEffect DEF MovesExtension, NumberingInv, JobSteps
  <2>2. Apart(j) /\ Of(a)' = Of(a) /\ job'[j].who = a
    BY <1>1, <1>3, <2>1 DEF Apart, GoesOn, Of
  <2>3. a \notin doubtful' => \A i \in Of(a)' : Progress(i, a)'
    BY <1>2, <1>3, <1>5, <2>1, <2>2 DEF Progress, GoesOn, Syncing
  <2>4. a \notin doubtful' => \A k \in Numbers : Owns(a, k)' => k = n /\ n \in extension'
    BY <1>2, <1>3, <1>4, <1>5, <2>1, <2>2 DEF Owns, Linking, GoesOn
  <2>5. Rivals'
    BY <1>2, <2>1, <2>2, RivalsKept DEF GoesOn, Taking, NumberingInv
  <2>6. \A k \in extension' \ extension : AboutToQueue(k) \subseteq doubtful'
    BY <1>3, <2>1
  <2>7. job'[j].kind # "addQueue"
    BY <1>2, <2>1 DEF GoesOn
  <2>8. \A b \in Staff \ (doubtful' \cup {a}), k \in extension \ extension' : ~Owns(b, k)
    <3> SUFFICES ASSUME NEW b \in Staff \ (doubtful' \cup {a}), Owns(b, old), old \in extension
                 PROVE  FALSE
      BY <2>1
    <3>1. old \in Numbers
      BY DEF NumberingInv, NumberingTypeOK
    <3>2. CASE a \in doubtful
      <4>1. b \in TouchedBy(old)
        BY OwnersTouched DEF NumberingInv
      <4>2. QED
        BY <1>3, <3>2, <4>1
    <3>3. CASE a \notin doubtful
      <4>1. Owns(a, old)
        BY <1>2, <1>5, <3>3 DEF Owns
      <4>2. QED
        BY <2>2, <3>1, <3>3, <4>1 DEF NumberingInv, ApartInv, OwnedApart, Clear, Apart
    <3>4. QED
      BY <3>2, <3>3
  <2>9. QED
    BY <1>1, <1>2, <1>4, <1>7, <2>1, <2>2, <2>3, <2>4, <2>5, <2>6, <2>7, <2>8, AccountsStep DEF NumberingInv
<1>8. QED
  BY <1>6, <1>7

LEMMA AccountLinkedApart ==
  ASSUME NumberingInv, NEW j \in Jobs, LinksAccount(j)
  PROVE  ApartInv'
<1>1. PICK a \in Staff : job[j].who = a
  BY DEF NumberingInv, JobShape, LinksAccount, At
<1>2. /\ job[j].kind = "update" /\ job[j].at = "link" /\ UNCHANGED <<extension, doubtful>>
      /\ account' = [account EXCEPT ![a] = job[j].number] /\ Go(j, "load")
  BY <1>1 DEF LinksAccount, At, GoSync
<1>3. GoesOn(j, "load") /\ account \in [Staff -> 0..LastNumber]
  BY <1>2, GoEffect DEF NumberingInv, JobSteps, NumberingTypeOK
<1>4. Apart(j) /\ Of(a)' = Of(a) /\ j \in Of(a) /\ job'[j].who = a
  BY <1>1, <1>2, <1>3 DEF Apart, GoesOn, Of
<1>5. a \notin doubtful' => \A k \in Of(a) : k = j
  BY <1>4 DEF NumberingInv, ApartInv, Progressing, Progress, Clear, Apart
<1>6. a \notin doubtful' => \A i \in Of(a)' : Progress(i, a)'
  BY <1>2, <1>3, <1>4, <1>5 DEF Progress, GoesOn, Syncing
<1>7. a \notin doubtful' => \A k \in Numbers : Owns(a, k)' => Owns(a, k)
  BY <1>2, <1>3, <1>4, <1>5 DEF Owns, Linking, GoesOn
<1>8. a \notin doubtful' => \A k \in Numbers : Owns(a, k) => k \in extension
  BY <1>4 DEF NumberingInv, ApartInv, OwnedApart, Clear, Apart
<1>9. Rivals'
  BY <1>2, <1>3, <1>4, RivalsKept DEF GoesOn, Taking, NumberingInv
<1>10. QED
  BY <1>1, <1>2, <1>3, <1>4, <1>6, <1>7, <1>8, <1>9, AccountsStep DEF GoesOn, NumberingInv

LEMMA FailsApart ==
  ASSUME NumberingInv, NEW j \in Jobs, RequestFails(j)
  PROVE  ApartInv'
<1>1. IsOver(j) /\ doubtful' = doubtful \cup {job[j].who} /\ UNCHANGED <<extension, account>>
  BY EndEffect DEF RequestFails, rowVars, NumberingInv
<1>2. Apart(j)
  BY <1>1 DEF IsOver, Apart
<1>3. QED
  BY <1>1, <1>2, NobodysStep DEF IsOver, At, NumberingInv

\* DELETE of a row.
LEMMA RemovesApart ==
  ASSUME NumberingInv, NEW j \in Jobs, NEW n \in Numbers, RemovesRow(j, n)
  PROVE  ApartInv'
<1>1. Arrived(j, "remove", "load", NoAccount, 0)
  BY RemoveArrival DEF NumberingInv
<1>2. /\ account' = account /\ extension' \subseteq extension
      /\ \A m \in extension \ extension' : m = n /\ doubtful' = doubtful \cup TouchedBy(n)
      /\ doubtful \subseteq doubtful'
  BY DEF RemovesRow
<1>3. Apart(j)
  BY <1>1, <1>2 DEF Arrived, Apart
<1>4. \A a \in Staff \ doubtful', m \in extension \ extension' : ~Owns(a, m)
  BY <1>2, OwnersTouched DEF NumberingInv
<1>5. QED
  BY <1>1, <1>2, <1>3, <1>4, NobodysStep DEF Arrived, At, NumberingInv

\* POST of a queue.
LEMMA QueueArrivesApart ==
  ASSUME NumberingInv, NEW j \in Jobs, QueueArrives(j)
  PROVE  ApartInv'
<1>1. job[j] = Idle /\ UNCHANGED <<extension, account, doubtful>>
  BY DEF QueueArrives, rowVars
<1>2. IsOver(j) \/ \E n \in Numbers \ (queue \cup extension) : Arrived(j, "addQueue", "row", NoAccount, n)
  BY QueueArrival DEF NumberingInv
<1>3. QED
  BY <1>1, <1>2, NobodysStep DEF IsOver, Arrived, At, Apart, Idle, NumberingInv

LEMMA QueueMadeApart ==
  ASSUME NumberingInv, NEW j \in Jobs, CreatesQueue(j)
  PROVE  ApartInv'
<1>1. /\ job[j].kind = "addQueue" /\ job[j].who = NoAccount /\ UNCHANGED <<extension, account, doubtful>>
      /\ Ends(j) \/ Go(j, "load")
  BY DEF CreatesQueue, At, GoSync, NumberingInv, JobShape
<1>2. IsOver(j) \/ GoesOn(j, "load")
  BY <1>1, EndEffect, GoEffect DEF NumberingInv, JobSteps
<1>3. QED
  BY <1>1, <1>2, NobodysStep DEF IsOver, GoesOn, At, Apart, NumberingInv

\* A sync goes on or ends: no number changes.
LEMMA SyncsApart ==
  ASSUME NumberingInv, NEW j \in Jobs, Syncing(j), UNCHANGED <<extension, account, doubtful>>,
         IsOver(j) \/ UNCHANGED job \/ \E s \in SyncSteps : GoesOn(j, s)
  PROVE  ApartInv'
<1>1. CASE UNCHANGED job
  BY <1>1 DEF NumberingInv, ApartInv, Progressing, Progress, Rivals, Taking, OwnedApart, Owns, Linking,
              QueueNumbersFree, At, Clear, Of, Syncing
<1>2. Apart(j) /\ job[j].at \in SyncSteps
  BY DEF IsOver, GoesOn, Apart, Syncing, SyncSteps
<1>3. CASE job[j].who = NoAccount
  <2>1. job[j].kind \notin {"create", "update"}
    BY <1>3, NumberingAssumption DEF NumberingInv, JobShape
  <2>2. job'[j].kind \notin {"create", "update"} /\ job'[j].who = NoAccount /\ ~(At(j, "addQueue", "row"))'
    BY <1>2, <1>3, <2>1 DEF IsOver, GoesOn, At, SyncSteps
  <2>3. QED
    BY <1>2, <1>3, <2>2, NobodysStep DEF NumberingInv
<1>4. CASE job[j].who # NoAccount /\ ~UNCHANGED job
  <2>1. PICK a \in Staff : job[j].who = a
    BY <1>4 DEF NumberingInv, JobShape
  <2>2. job[j].kind \in {"create", "update"} /\ j \in Of(a)
    BY <1>4, <2>1 DEF NumberingInv, JobShape, Of
  <2>3. a \notin doubtful => Progress(j, a)
    BY <2>2 DEF NumberingInv, ApartInv, Progressing, Clear
  <2>4. job'[j].who \in {a, NoAccount} /\ job'[j].kind # "addQueue"
    BY <1>4, <2>1, <2>2 DEF IsOver, GoesOn
  <2>5. a \notin doubtful' => \A i \in Of(a)' : Progress(i, a)'
    <3> SUFFICES ASSUME a \notin doubtful', NEW i \in Of(a)'
                 PROVE  Progress(i, a)'
      OBVIOUS
    <3>1. \A k \in Of(a)' : k = j
      BY <1>2, <2>3 DEF Progress, Of, Apart
    <3>2. i = j /\ i \in Jobs /\ job'[j].who = a
      BY <3>1 DEF Of
    <3>3. PICK s \in SyncSteps : GoesOn(j, s)
      BY <1>4, <3>2, NumberingAssumption DEF IsOver
    <3>4. QED
      BY <1>2, <2>2, <2>3, <3>1, <3>2, <3>3 DEF Progress, Syncing, GoesOn, SyncSteps
  <2>6. \A k \in Numbers : Owns(a, k)' => Owns(a, k)
    BY <1>2, <1>4, <2>1, <2>2 DEF Owns, Linking, Of, IsOver, GoesOn, SyncSteps, Apart
  <2>7. a \notin doubtful' => \A k \in Numbers : Owns(a, k) => k \in extension
    BY DEF NumberingInv, ApartInv, OwnedApart, Clear
  <2>8. Rivals'
    BY <1>2, <1>4, RivalsKept DEF Taking, IsOver, GoesOn, SyncSteps, NumberingInv
  <2>9. QED
    BY <1>2, <2>1, <2>4, <2>5, <2>6, <2>7, <2>8, AccountsStep DEF NumberingInv
<1>5. QED
  BY <1>1, <1>3, <1>4

-----------------------------------------------------------------------------
(* What runs follows the rows.                                             *)

\* A step that neither syncs nor writes a row.
LEMMA LiveKept ==
  ASSUME LiveInv, NEW j \in Jobs, \A i \in Jobs \ {j} : job'[i] = job[i],
         UNCHANGED <<extension, queue, file, live, snapshot>>,
         ~Syncing(j), ~(Syncing(j))', overtaken => overtaken', Linking(j) => (Linking(j))' \/ overtaken'
  PROVE  LiveInv'
<1>1. \A i \in Jobs : (Syncing(i))' <=> Syncing(i)
  BY DEF Syncing
<1>2. OneSync'
  BY <1>1 DEF LiveInv, OneSync
<1>3. ASSUME ~overtaken', \A i \in Jobs : ~(Linking(i))'
      PROVE  ~overtaken /\ \A i \in Jobs : ~Linking(i)
  BY <1>3 DEF Linking
<1>4. \A i \in Jobs : Syncing(i) /\ Carries(i) => Carries(i)'
  BY DEF Carries, Syncing
<1>5. SyncsCarry'
  BY <1>1, <1>3, <1>4 DEF LiveInv, SyncsCarry
<1>6. QED
  BY <1>2, <1>5 DEF LiveInv

\* A sync starts, with the rows its request has written.
LEMMA LiveStarts ==
  ASSUME LiveInv, NEW j \in Jobs, \A i \in Jobs \ {j} : job'[i] = job[i],
         job'[j].at = "load", ~Syncing(j), UNCHANGED snapshot, snapshot[j] = NotRead,
         overtaken' <=> (overtaken \/ \E i \in Jobs \ {j} : Syncing(i))
  PROVE  LiveInv'
<1>1. ~overtaken' => \A i \in Jobs \ {j} : ~(Syncing(i))'
  BY DEF Syncing
<1>2. OneSync'
  BY <1>1 DEF OneSync
<1>3. (Syncing(j))' /\ Carries(j)'
  BY DEF Syncing, Carries, NotRead
<1>4. SyncsCarry'
  BY <1>1, <1>3 DEF SyncsCarry
<1>5. QED
  BY <1>2, <1>4 DEF LiveInv

LEMMA MovesLive ==
  ASSUME NumberingInv, NEW j \in Jobs, MovesExtension(j)
  PROVE  LiveInv'
<1>1. job[j].at = "move" /\ UNCHANGED <<queue, file, live, snapshot, overtaken>>
  BY DEF MovesExtension, At, fsVars
<1>2. CASE job[j].number \in extension
  <2>1. IsOver(j) /\ UNCHANGED extension
    BY <1>2, EndEffect DEF MovesExtension, NumberingInv
  <2>2. QED
    BY <1>1, <2>1, LiveKept DEF IsOver, Syncing, Linking, NumberingInv
<1>3. CASE job[j].number \notin extension
  <2>1. GoesOn(j, "link")
    BY <1>3, GoEffect DEF MovesExtension, NumberingInv, JobSteps
  <2>2. \A i \in Jobs : (Syncing(i))' <=> Syncing(i)
    BY <1>1, <2>1 DEF GoesOn, Syncing
  <2>3. (Linking(j))'
    BY <2>1 DEF GoesOn, Linking
  <2>4. QED
    BY <1>1, <2>2, <2>3 DEF NumberingInv, LiveInv, OneSync, SyncsCarry
<1>4. QED
  BY <1>2, <1>3

\* The steps of a sync: no row is written meanwhile, unless something is overtaken.
LEMMA LoadsLive ==
  ASSUME NumberingInv, NEW j \in Jobs, LoadsTable(j)
  PROVE  LiveInv'
<1>1. /\ job[j].at = "load" /\ UNCHANGED <<extension, queue, file, live, overtaken>> /\ snapshot \in [Jobs -> Rows]
      /\ \/ snapshot' = [snapshot EXCEPT ![j].extension = extension]
         \/ snapshot' = [snapshot EXCEPT ![j].queue = queue]
  BY DEF LoadsTable, rowVars, fsVars, NumberingInv, NumberingTypeOK
<1>2. /\ \A i \in Jobs \ {j} : snapshot'[i] = snapshot[i]
      /\ snapshot'[j].extension \in {snapshot[j].extension, extension}
      /\ snapshot'[j].queue \in {snapshot[j].queue, queue}
  BY <1>1 DEF Rows
<1>3. \/ UNCHANGED job /\ Unread \in {snapshot'[j].extension, snapshot'[j].queue}
      \/ GoesOn(j, "users") /\ Unread \notin {snapshot'[j].extension, snapshot'[j].queue}
  BY GoEffect DEF LoadsTable, NumberingInv, JobSteps
<1>4. \A i \in Jobs \ {j} : job'[i] = job[i]
  BY <1>3 DEF GoesOn
<1>5. Syncing(j) /\ (Syncing(j))' /\ ~Linking(j) /\ job'[j].at \in {"load", "users"}
  BY <1>1, <1>3 DEF GoesOn, Syncing, Linking
<1>6. OneSync'
  BY <1>1, <1>4, <1>5 DEF NumberingInv, LiveInv, OneSync, Syncing
<1>7. SyncsCarry'
  <2> SUFFICES ASSUME ~overtaken', \A i \in Jobs : ~(Linking(i))'
               PROVE  (\A i \in Jobs : Syncing(i) => Carries(i))'
    BY <1>5 DEF SyncsCarry
  <2>1. ~overtaken /\ \A i \in Jobs : ~Linking(i)
    BY <1>1, <1>4, <1>5 DEF Linking
  <2>2. \A i \in Jobs : Syncing(i) => i = j
    BY <1>5, <2>1 DEF NumberingInv, LiveInv, OneSync
  <2>3. Carries(j)
    BY <1>5, <2>1 DEF NumberingInv, LiveInv, SyncsCarry
  <2>4. Carries(j)'
    BY <1>1, <1>2, <1>3, <1>5, <2>3 DEF Carries, GoesOn
  <2>5. \A i \in Jobs : (Syncing(i))' => i = j
    BY <1>4, <2>2 DEF Syncing
  <2>6. QED
    BY <2>4, <2>5
<1>8. QED
  BY <1>6, <1>7 DEF LiveInv

LEMMA WritesLive ==
  ASSUME NumberingInv, NEW j \in Jobs, WritesUsers(j) \/ WritesQueues(j)
  PROVE  LiveInv'
<1>1. UNCHANGED <<extension, queue, live, snapshot, overtaken>> /\ file \in Rows
  BY DEF WritesUsers, WritesQueues, rowVars, NumberingInv, NumberingTypeOK
<1>2. \/ job[j].at = "users" /\ file' = [file EXCEPT !.extension = snapshot[j].extension] /\ GoesOn(j, "queues")
      \/ job[j].at = "queues" /\ file' = [file EXCEPT !.queue = snapshot[j].queue] /\ GoesOn(j, "reload")
  BY GoEffect DEF WritesUsers, WritesQueues, NumberingInv, JobSteps
<1>3. \A i \in Jobs \ {j} : job'[i] = job[i]
  BY <1>2 DEF GoesOn
<1>4. Syncing(j) /\ (Syncing(j))' /\ ~Linking(j)
  BY <1>2 DEF GoesOn, Syncing, Linking
<1>5. OneSync'
  BY <1>1, <1>3, <1>4 DEF NumberingInv, LiveInv, OneSync, Syncing
<1>6. SyncsCarry'
  <2> SUFFICES ASSUME ~overtaken', \A i \in Jobs : ~(Linking(i))'
               PROVE  (\A i \in Jobs : Syncing(i) => Carries(i))'
    BY <1>4 DEF SyncsCarry
  <2>1. ~overtaken /\ \A i \in Jobs : ~Linking(i)
    BY <1>1, <1>3, <1>4 DEF Linking
  <2>2. \A i \in Jobs : Syncing(i) => i = j
    BY <1>4, <2>1 DEF NumberingInv, LiveInv, OneSync
  <2>3. Carries(j)
    BY <1>4, <2>1 DEF NumberingInv, LiveInv, SyncsCarry
  <2>4. Carries(j)'
    BY <1>1, <1>2, <2>3 DEF Carries, GoesOn, Rows
  <2>5. \A i \in Jobs : (Syncing(i))' => i = j
    BY <1>3, <2>2 DEF Syncing
  <2>6. QED
    BY <2>4, <2>5
<1>7. QED
  BY <1>5, <1>6 DEF LiveInv

LEMMA ReloadsLive ==
  ASSUME NumberingInv, NEW j \in Jobs, Reloads(j)
  PROVE  LiveInv'
<1>1. IsOver(j) /\ job[j].at = "reload" /\ live' = file /\ UNCHANGED <<extension, queue, file, overtaken>>
  BY EndEffect DEF Reloads, rowVars, NumberingInv
<1>2. snapshot \in [Jobs -> Rows] /\ snapshot' = [snapshot EXCEPT ![j] = NotRead]
  BY DEF Reloads, NumberingInv, NumberingTypeOK
<1>3. Syncing(j) /\ ~(Syncing(j))' /\ ~Linking(j) /\ \A i \in Jobs \ {j} : job'[i] = job[i]
  BY <1>1 DEF IsOver, Syncing, Linking
<1>4. OneSync'
  BY <1>1, <1>3 DEF NumberingInv, LiveInv, OneSync, Syncing
<1>5. SyncsCarry'
  <2> SUFFICES ASSUME ~overtaken', \A i \in Jobs : ~(Linking(i))'
               PROVE  (\A i \in Jobs : ~Syncing(i))' /\ live'.extension = extension' /\ live'.queue = queue'
    BY DEF SyncsCarry
  <2>1. ~overtaken /\ \A i \in Jobs : ~Linking(i)
    BY <1>1, <1>3 DEF Linking
  <2>2. \A i \in Jobs : ~(Syncing(i))'
    BY <1>3, <2>1 DEF NumberingInv, LiveInv, OneSync, Syncing
  <2>3. Carries(j)
    BY <1>3, <2>1 DEF NumberingInv, LiveInv, SyncsCarry
  <2>4. QED
    BY <1>1, <2>2, <2>3 DEF Carries
<1>6. QED
  BY <1>4, <1>5 DEF LiveInv

LEMMA LiveStep ==
  ASSUME NumberingInv, NumberingNext
  PROVE  LiveInv'
<1> USE DEF NumberingInv
<1>1. ASSUME NEW j \in Jobs, NEW a \in Staff, NEW n \in Numbers,
             AccountCreateArrives(j, a, n) \/ AccountUpdateArrives(j, a, n)
      PROVE  LiveInv'
  <2>1. /\ Arrived(j, "create", "check", a, n) \/ Arrived(j, "update", "check", a, n)
        /\ UNCHANGED <<extension, queue, file, live, snapshot, overtaken>>
    BY <1>1, CreateArrival, UpdateArrival DEF AccountCreateArrives, AccountUpdateArrives, rowVars, fsVars
  <2>2. QED
    BY <2>1, LiveKept DEF Arrived, Syncing, Linking
<1>2. ASSUME NEW j \in Jobs, QueueArrives(j)
      PROVE  LiveInv'
  <2>1. /\ job[j].at = "idle" /\ UNCHANGED <<extension, queue, file, live, snapshot, overtaken>>
    BY <1>2 DEF QueueArrives, Idle, rowVars, fsVars
  <2>2. QED
    BY <1>2, <2>1, QueueArrival, LiveKept DEF Arrived, IsOver, Syncing, Linking
<1>3. ASSUME NEW j \in Jobs, NEW n \in Numbers, RemovesRow(j, n)
      PROVE  LiveInv'
  <2>1. Arrived(j, "remove", "load", NoAccount, 0)
    BY <1>3, RemoveArrival
  <2>2. /\ UNCHANGED snapshot /\ (overtaken' <=> overtaken \/ \E i \in Jobs : Syncing(i)) /\ ~Syncing(j)
    BY <1>3, <2>1 DEF RemovesRow, Syncing, Arrived, NumberingTypeOK
  <2>3. snapshot[j] = NotRead
    BY <2>2 DEF JobShape
  <2>4. QED
    BY <2>1, <2>2, <2>3, LiveStarts DEF Arrived
<1>4. ASSUME NEW j \in Jobs, ChecksExtension(j)
      PROVE  LiveInv'
  <2>1. /\ job[j].at = "check" /\ UNCHANGED <<extension, queue, file, live, snapshot, overtaken>>
        /\ IsOver(j) \/ GoesOn(j, "account") \/ GoesOn(j, "move")
    BY <1>4, EndEffect, GoEffect DEF ChecksExtension, JobSteps, rowVars, fsVars
  <2>2. QED
    BY <2>1, LiveKept DEF IsOver, GoesOn, Syncing, Linking
<1>5. ASSUME NEW j \in Jobs, CreatesAccount(j)
      PROVE  LiveInv'
  <2>1. /\ job[j].at = "account" /\ UNCHANGED <<extension, queue, file, live, snapshot, overtaken>>
        /\ GoesOn(j, "row")
    BY <1>5, GoEffect DEF CreatesAccount, At, JobSteps, fsVars
  <2>2. QED
    BY <2>1, LiveKept DEF GoesOn, Syncing, Linking
<1>6. ASSUME NEW j \in Jobs, CreatesExtension(j) \/ CreatesQueue(j) \/ LinksAccount(j)
      PROVE  LiveInv'
  <2>1. /\ job[j].at \in {"row", "link"} /\ UNCHANGED <<snapshot, file, live>>
        /\ \/ Ends(j) /\ UNCHANGED <<extension, queue, overtaken>> /\ job[j].at = "row"
           \/ GoSync(j)
    BY <1>6 DEF CreatesExtension, CreatesQueue, LinksAccount, At, fsVars
  <2>2. ~Syncing(j) /\ snapshot[j] = NotRead
    BY <2>1 DEF Syncing, JobShape
  <2>3. CASE GoSync(j)
    <3>1. GoesOn(j, "load") /\ (overtaken' <=> overtaken \/ \E i \in Jobs \ {j} : Syncing(i))
      BY <2>3, GoEffect DEF GoSync, JobSteps, NumberingTypeOK
    <3>2. QED
      BY <2>1, <2>2, <3>1, LiveStarts DEF GoesOn
  <2>4. CASE ~GoSync(j)
    BY <2>1, <2>2, <2>4, EndEffect, LiveKept DEF IsOver, Syncing, Linking
  <2>5. QED
    BY <2>3, <2>4
<1>7. ASSUME NEW j \in Jobs, RequestFails(j)
      PROVE  LiveInv'
  <2>1. /\ job[j].at \in {"account", "row", "move", "link"} /\ IsOver(j)
        /\ UNCHANGED <<extension, queue, file, live, snapshot>>
        /\ (overtaken => overtaken') /\ (job[j].at = "link" => overtaken')
    BY <1>7, EndEffect DEF RequestFails, rowVars, fsVars
  <2>2. QED
    BY <2>1, LiveKept DEF IsOver, Syncing, Linking
<1>8. ASSUME NEW j \in Jobs, SyncFails(j)
      PROVE  LiveInv'
  BY <1>8 DEF SyncFails, LiveInv, OneSync, SyncsCarry
<1>9. ASSUME NEW j \in Jobs, JobStep(j)
      PROVE  LiveInv'
  BY <1>4, <1>5, <1>6, <1>7, <1>8, <1>9, MovesLive, LoadsLive, WritesLive, ReloadsLive DEF JobStep
<1>10. QED
  BY <1>1, <1>2, <1>3, <1>9 DEF NumberingNext

-----------------------------------------------------------------------------
(* Types, and the shape of each request.                                   *)

LEMMA TypeStep ==
  ASSUME NumberingInv, NumberingNext
  PROVE  NumberingTypeOK'
<1> USE DEF NumberingInv
<1>1. job' \in [Jobs -> JobRec]
  <2>1. ASSUME NEW j \in Jobs, JobStep(j)
        PROVE  job' \in [Jobs -> JobRec]
    <3>1. \/ Ends(j) \/ UNCHANGED job
          \/ \E s \in {"account", "move", "row", "link", "load", "users", "queues", "reload"} : Go(j, s)
      BY <2>1 DEF JobStep, ChecksExtension, CreatesAccount, CreatesExtension, MovesExtension, LinksAccount,
                  RequestFails, CreatesQueue, LoadsTable, WritesUsers, WritesQueues, Reloads, SyncFails, GoSync
    <3>2. QED
      BY <3>1, EndEffect, GoEffect, JobsTyped DEF IsOver, GoesOn, JobSteps
  <2>2. QED
    BY <2>1, CreateArrival, UpdateArrival, RemoveArrival, QueueArrival DEF NumberingNext, Arrived, IsOver
<1>2. \A n \in 0..LastNumber : TouchedBy(n) \subseteq Staff \cup {NoAccount} /\ AboutToQueue(n) \subseteq {n}
  BY JobsTyped DEF TouchedBy, Holders, Taking, AboutToQueue, JobRec
<1>3. \A j \in Jobs : job[j].who \in Staff \cup {NoAccount} /\ job[j].number \in 0..LastNumber
                     /\ job[j].old \in 0..LastNumber
  BY JobsTyped DEF JobRec
<1>4. \A j \in Jobs : job[j].at \in {"account", "row", "move", "link"} =>
        job[j].number \in Numbers /\ (job[j].kind \in {"create", "update"} => job[j].who \in Staff)
  BY DEF JobShape
<1>5. ASSUME NEW j \in Jobs, JobStep(j)
      PROVE  /\ extension' \subseteq Numbers /\ queue' \subseteq Numbers
             /\ account' \in [Staff -> 0..LastNumber]
             /\ doubtful' \subseteq Staff \cup Numbers \cup {NoAccount}
  <2>1. CASE ChecksExtension(j)
    <3>1. \A n : {job[i].who : i \in Taking(n)} \subseteq Staff \cup {NoAccount}
      BY <1>3 DEF Taking
    <3>2. QED
      BY <1>3, <2>1, <3>1 DEF ChecksExtension, rowVars, NumberingTypeOK
  <2>2. CASE CreatesAccount(j)
    BY <1>3, <2>2 DEF CreatesAccount, NumberingTypeOK
  <2>3. CASE CreatesExtension(j)
    BY <1>2, <1>3, <1>4, <2>3 DEF CreatesExtension, At, NumberingTypeOK
  <2>4. CASE MovesExtension(j)
    <3>1. job[j].number \in Numbers /\ UNCHANGED <<queue, account>>
      BY <1>4, <2>4 DEF MovesExtension, At
    <3>2. extension' \subseteq Numbers
      BY <2>4, <3>1 DEF MovesExtension, NumberingTypeOK
    <3>3. AboutToQueue(job[j].number) \subseteq Numbers /\ TouchedBy(job[j].old) \subseteq Staff \cup {NoAccount}
      BY <1>2, <1>3, <3>1
    <3>4. doubtful' \subseteq Staff \cup Numbers \cup {NoAccount}
      BY <2>4, <3>3 DEF MovesExtension, NumberingTypeOK
    <3>5. QED
      BY <3>1, <3>2, <3>4 DEF NumberingTypeOK
  <2>5. CASE LinksAccount(j)
    BY <1>3, <2>5 DEF LinksAccount, NumberingTypeOK
  <2>6. CASE RequestFails(j)
    BY <1>3, <2>6 DEF RequestFails, rowVars, NumberingTypeOK
  <2>7. CASE CreatesQueue(j)
    BY <1>4, <2>7 DEF CreatesQueue, At, NumberingTypeOK
  <2>8. CASE LoadsTable(j) \/ WritesUsers(j) \/ WritesQueues(j) \/ Reloads(j) \/ SyncFails(j)
    BY <2>8 DEF LoadsTable, WritesUsers, WritesQueues, Reloads, SyncFails, rowVars, NumberingTypeOK
  <2>9. QED
    BY <1>5, <2>1, <2>2, <2>3, <2>4, <2>5, <2>6, <2>7, <2>8 DEF JobStep
<1>6. ASSUME NEW j \in Jobs, JobStep(j)
      PROVE  snapshot' \in [Jobs -> Rows] /\ file' \in Rows /\ live' \in Rows
  <2>1. NotRead \in Rows
    BY DEF NotRead, Rows
  <2>2. \/ UNCHANGED snapshot
        \/ snapshot' = [snapshot EXCEPT ![j].extension = extension]
        \/ snapshot' = [snapshot EXCEPT ![j].queue = queue]
        \/ snapshot' = [snapshot EXCEPT ![j] = NotRead]
    BY <1>6 DEF JobStep, ChecksExtension, CreatesAccount, CreatesExtension, MovesExtension, LinksAccount,
                RequestFails, CreatesQueue, LoadsTable, WritesUsers, WritesQueues, Reloads, SyncFails
  <2>3. snapshot' \in [Jobs -> Rows]
    <3>1. snapshot \in [Jobs -> Rows] /\ extension \in SUBSET Numbers /\ queue \in SUBSET Numbers
      BY DEF NumberingTypeOK
    <3>2. snapshot' = [snapshot EXCEPT ![j].extension = extension] => snapshot' \in [Jobs -> Rows]
      BY <3>1 DEF Rows
    <3>3. snapshot' = [snapshot EXCEPT ![j].queue = queue] => snapshot' \in [Jobs -> Rows]
      BY <3>1 DEF Rows
    <3>4. QED
      BY <2>1, <2>2, <3>1, <3>2, <3>3
  <2>4. /\ \/ UNCHANGED file
           \/ file' = [file EXCEPT !.extension = snapshot[j].extension]
           \/ file' = [file EXCEPT !.queue = snapshot[j].queue]
        /\ live' \in {live, file}
    BY <1>6 DEF JobStep, ChecksExtension, CreatesAccount, CreatesExtension, MovesExtension, LinksAccount,
                RequestFails, CreatesQueue, LoadsTable, WritesUsers, WritesQueues, Reloads, SyncFails, fsVars
  <2>5. file' \in Rows /\ live' \in Rows
    BY <2>4 DEF NumberingTypeOK, Rows
  <2>6. QED
    BY <2>3, <2>5
<1>7. ASSUME NEW j \in Jobs, JobStep(j)
      PROVE  outages' \in 0..MaxOutages
  BY <1>7, NumberingAssumption DEF JobStep, ChecksExtension, CreatesAccount, CreatesExtension, MovesExtension,
          LinksAccount, RequestFails, CreatesQueue, LoadsTable, WritesUsers, WritesQueues, Reloads, SyncFails,
          NumberingTypeOK
<1>8. ASSUME NEW j \in Jobs, JobStep(j)
      PROVE  overtaken' \in BOOLEAN
  <2>1. \/ overtaken' \in {overtaken, TRUE}
        \/ overtaken' = (overtaken \/ \E i \in Jobs \ {j} : Syncing(i))
        \/ overtaken' = (overtaken \/ job[j].at = "link")
    BY <1>8 DEF JobStep, ChecksExtension, CreatesAccount, CreatesExtension, MovesExtension, LinksAccount,
                RequestFails, CreatesQueue, LoadsTable, WritesUsers, WritesQueues, Reloads, SyncFails, GoSync
  <2>2. QED
    BY <2>1 DEF NumberingTypeOK
<1>9. ASSUME NEW j \in Jobs, QueueArrives(j)
      PROVE  UNCHANGED <<snapshot, extension, queue, account, file, live, outages, doubtful, overtaken>>
  BY <1>9 DEF QueueArrives, rowVars, fsVars
<1>10. ASSUME NEW j \in Jobs, NEW n \in Numbers, RemovesRow(j, n)
       PROVE  /\ UNCHANGED <<snapshot, account, file, live, outages>>
              /\ extension' \subseteq Numbers /\ queue' \subseteq Numbers
              /\ doubtful' \subseteq Staff \cup Numbers \cup {NoAccount}
              /\ overtaken' \in BOOLEAN
  BY <1>2, <1>10, NumberingAssumption DEF RemovesRow, fsVars, Numbers, NumberingTypeOK
<1>11. ASSUME NEW j \in Jobs, NEW a \in Staff, NEW n \in Numbers,
              AccountCreateArrives(j, a, n) \/ AccountUpdateArrives(j, a, n)
       PROVE  /\ UNCHANGED <<snapshot, extension, queue, account, file, live, outages, overtaken>>
              /\ doubtful' \subseteq doubtful \cup {a}
  BY <1>11 DEF AccountCreateArrives, AccountUpdateArrives, rowVars, fsVars
<1>12. QED
  <2>1. CASE \E j \in Jobs : JobStep(j)
    BY <1>1, <1>5, <1>6, <1>7, <1>8, <2>1 DEF NumberingTypeOK, JobRec
  <2>2. CASE \E j \in Jobs : QueueArrives(j)
    BY <1>1, <1>9, <2>2 DEF NumberingTypeOK, JobRec
  <2>3. CASE \E j \in Jobs, n \in Numbers : RemovesRow(j, n)
    BY <1>1, <1>10, <2>3 DEF NumberingTypeOK, JobRec
  <2>4. CASE \E j \in Jobs, a \in Staff, n \in Numbers : AccountCreateArrives(j, a, n) \/ AccountUpdateArrives(j, a, n)
    BY <1>1, <1>11, <2>4 DEF NumberingTypeOK, JobRec
  <2>5. QED
    BY <2>1, <2>2, <2>3, <2>4 DEF NumberingNext

\* A step changes one request, whose new state has its shape.
LEMMA ShapeKept ==
  ASSUME JobShape, NEW j \in Jobs, \A i \in Jobs \ {j} : job'[i] = job[i] /\ snapshot'[i] = snapshot[i],
         job'[j].at \in {"idle", "done"} <=> job'[j].kind = "none",
         job'[j].at = "check" => job'[j].kind \in {"create", "update"},
         job'[j].at = "account" => job'[j].kind = "create",
         job'[j].at \in {"move", "link"} => job'[j].kind = "update",
         job'[j].at = "row" => job'[j].kind \in {"create", "addQueue"},
         job'[j].kind = "addQueue" => job'[j].at = "row" \/ (Syncing(j))',
         job'[j].kind = "remove" => (Syncing(j))',
         IF job'[j].kind \in {"create", "update"} THEN job'[j].who \in Staff ELSE job'[j].who = NoAccount,
         job'[j].kind \in {"create", "update", "addQueue"} => job'[j].number \in Numbers,
         ~(Syncing(j))' => snapshot'[j] = NotRead
  PROVE  JobShape'
<1> SUFFICES ASSUME NEW i \in Jobs \ {j}
             PROVE  (/\ job[i].at \in {"idle", "done"} <=> job[i].kind = "none"
                     /\ job[i].at = "check" => job[i].kind \in {"create", "update"}
                     /\ job[i].at = "account" => job[i].kind = "create"
                     /\ job[i].at \in {"move", "link"} => job[i].kind = "update"
                     /\ job[i].at = "row" => job[i].kind \in {"create", "addQueue"}
                     /\ job[i].kind = "addQueue" => job[i].at = "row" \/ Syncing(i)
                     /\ job[i].kind = "remove" => Syncing(i)
                     /\ IF job[i].kind \in {"create", "update"} THEN job[i].who \in Staff ELSE job[i].who = NoAccount
                     /\ job[i].kind \in {"create", "update", "addQueue"} => job[i].number \in Numbers
                     /\ ~Syncing(i) => snapshot[i] = NotRead)'
  BY DEF JobShape
<1>1. job'[i] = job[i] /\ snapshot'[i] = snapshot[i] /\ ((Syncing(i))' <=> Syncing(i))
  BY DEF Syncing
<1>2. QED
  BY <1>1 DEF JobShape

\* A request arrives; a request or its sync ends.
LEMMA ArrivalShape ==
  ASSUME NumberingInv, NEW j \in Jobs, NEW k, NEW s, NEW a, NEW n, Arrived(j, k, s, a, n), UNCHANGED snapshot,
         \/ k \in {"create", "update"} /\ s = "check" /\ a \in Staff /\ n \in Numbers
         \/ k = "addQueue" /\ s = "row" /\ a = NoAccount /\ n \in Numbers
         \/ k = "remove" /\ s = "load" /\ a = NoAccount
  PROVE  JobShape'
<1>1. snapshot[j] = NotRead
  BY DEF NumberingInv, JobShape, Arrived, Syncing
<1>2. QED
  BY <1>1, ShapeKept DEF NumberingInv, Arrived, Syncing

LEMMA EndShape ==
  ASSUME NumberingInv, NEW j \in Jobs, IsOver(j), \A i \in Jobs \ {j} : snapshot'[i] = snapshot[i],
         snapshot'[j] = NotRead
  PROVE  JobShape'
BY NumberingAssumption, ShapeKept DEF NumberingInv, IsOver, Syncing

\* From one await to the next of its kind.
LEMMA GoShape ==
  ASSUME NumberingInv, NEW j \in Jobs, NEW s, GoesOn(j, s), \A i \in Jobs \ {j} : snapshot'[i] = snapshot[i],
         \/ s = "account" /\ job[j].kind = "create"
         \/ s = "move" /\ job[j].kind = "update"
         \/ s = "row" /\ job[j].kind = "create"
         \/ s = "link" /\ job[j].kind = "update"
         \/ s \in SyncSteps /\ job[j].kind \in {"create", "update", "addQueue", "remove"},
         s \notin SyncSteps => snapshot'[j] = NotRead
  PROVE  JobShape'
BY ShapeKept DEF NumberingInv, JobShape, GoesOn, Syncing, SyncSteps

LEMMA ShapeStep ==
  ASSUME NumberingInv, NumberingNext
  PROVE  JobShape'
<1>1. ASSUME NEW j \in Jobs, JobStep(j)
      PROVE  JobShape'
  <2>1. /\ ~Syncing(j) => snapshot[j] = NotRead
        /\ job[j].at \notin {"idle", "done"} => job[j].kind \in {"create", "update", "addQueue", "remove"}
    BY JobsTyped DEF NumberingInv, JobShape, JobRec, Kinds
  <2>2. snapshot \in [Jobs -> Rows]
    BY DEF NumberingInv, NumberingTypeOK
  <2>3. CASE ChecksExtension(j)
    <3>1. UNCHANGED snapshot /\ ~Syncing(j) /\ job[j].kind \in {"create", "update"}
      BY <2>3 DEF ChecksExtension, Syncing, NumberingInv, JobShape
    <3>2. IsOver(j) \/ GoesOn(j, IF job[j].kind = "create" THEN "account" ELSE "move")
      BY <2>3, EndEffect, GoEffect DEF ChecksExtension, NumberingInv, JobSteps
    <3>3. QED
      BY <2>1, <3>1, <3>2, EndShape, GoShape
  <2>4. CASE CreatesAccount(j)
    <3>1. UNCHANGED snapshot /\ ~Syncing(j) /\ job[j].kind = "create" /\ GoesOn(j, "row")
      BY <2>4, GoEffect DEF CreatesAccount, At, Syncing, NumberingInv, JobSteps
    <3>2. QED
      BY <2>1, <3>1, GoShape
  <2>5. CASE MovesExtension(j)
    <3>1. UNCHANGED snapshot /\ ~Syncing(j) /\ job[j].kind = "update" /\ (IsOver(j) \/ GoesOn(j, "link"))
      BY <2>5, EndEffect, GoEffect DEF MovesExtension, At, Syncing, NumberingInv, JobSteps
    <3>2. QED
      BY <2>1, <3>1, EndShape, GoShape
  <2>6. CASE CreatesExtension(j) \/ CreatesQueue(j) \/ LinksAccount(j)
    <3>1. /\ UNCHANGED snapshot /\ ~Syncing(j) /\ job[j].kind \in {"create", "update", "addQueue", "remove"}
          /\ IsOver(j) \/ GoesOn(j, "load")
      BY <2>6, EndEffect, GoEffect DEF CreatesExtension, CreatesQueue, LinksAccount, GoSync, At, Syncing,
                                        NumberingInv, JobSteps
    <3>2. QED
      BY <2>1, <3>1, EndShape, GoShape DEF SyncSteps
  <2>7. CASE RequestFails(j)
    <3>1. UNCHANGED snapshot /\ ~Syncing(j) /\ IsOver(j)
      BY <2>7, EndEffect DEF RequestFails, Syncing, NumberingInv
    <3>2. QED
      BY <2>1, <3>1, EndShape
  <2>8. CASE LoadsTable(j)
    <3>1. /\ Syncing(j) /\ job[j].at = "load" /\ (UNCHANGED job \/ GoesOn(j, "users"))
          /\ \/ snapshot' = [snapshot EXCEPT ![j].extension = extension]
             \/ snapshot' = [snapshot EXCEPT ![j].queue = queue]
      BY <2>8, GoEffect DEF LoadsTable, Syncing, NumberingInv, JobSteps
    <3>2. \A i \in Jobs \ {j} : snapshot'[i] = snapshot[i]
      BY <2>2, <3>1
    <3>3. job[j].at \notin {"idle", "done"}
      BY <3>1
    <3>4. CASE GoesOn(j, "users")
      BY <2>1, <3>2, <3>3, <3>4, GoShape DEF SyncSteps
    <3>5. CASE UNCHANGED job
      BY <3>1, <3>2, <3>5 DEF NumberingInv, JobShape, Syncing
    <3>6. QED
      BY <3>1, <3>4, <3>5
  <2>9. CASE WritesUsers(j) \/ WritesQueues(j)
    <3>1. UNCHANGED snapshot /\ job[j].at \notin {"idle", "done"} /\ \E s \in SyncSteps : GoesOn(j, s)
      BY <2>9, GoEffect DEF WritesUsers, WritesQueues, NumberingInv, JobSteps, SyncSteps
    <3>2. QED
      BY <2>1, <3>1, GoShape
  <2>10. CASE Reloads(j) \/ SyncFails(j)
    <3>1. IsOver(j) /\ snapshot' = [snapshot EXCEPT ![j] = NotRead]
      BY <2>10, EndEffect DEF Reloads, SyncFails, NumberingInv
    <3>2. QED
      BY <2>2, <3>1, EndShape
  <2>11. QED
    BY <1>1, <2>3, <2>4, <2>5, <2>6, <2>7, <2>8, <2>9, <2>10 DEF JobStep
<1>2. ASSUME NEW j \in Jobs, QueueArrives(j)
      PROVE  JobShape'
  <2>1. UNCHANGED snapshot /\ job[j].at = "idle"
    BY <1>2 DEF QueueArrives, Idle
  <2>2. snapshot'[j] = NotRead
    BY <2>1 DEF NumberingInv, JobShape, Syncing
  <2>3. QED
    BY <1>2, <2>1, <2>2, QueueArrival, ArrivalShape, EndShape DEF NumberingInv
<1>3. ASSUME NEW j \in Jobs, NEW n \in Numbers, RemovesRow(j, n)
      PROVE  JobShape'
  BY <1>3, RemoveArrival, ArrivalShape DEF RemovesRow, NumberingInv
<1>4. ASSUME NEW j \in Jobs, NEW a \in Staff, NEW n \in Numbers,
             AccountCreateArrives(j, a, n) \/ AccountUpdateArrives(j, a, n)
      PROVE  JobShape'
  BY <1>4, CreateArrival, UpdateArrival, ArrivalShape DEF AccountCreateArrives, AccountUpdateArrives, NumberingInv
<1>5. QED
  BY <1>1, <1>2, <1>3, <1>4 DEF NumberingNext

-----------------------------------------------------------------------------
LEMMA ApartStep ==
  ASSUME NumberingInv, NumberingNext
  PROVE  ApartInv'
<1>1. ASSUME NEW j \in Jobs, LoadsTable(j) \/ WritesUsers(j) \/ WritesQueues(j) \/ Reloads(j) \/ SyncFails(j)
      PROVE  ApartInv'
  <2>1. /\ Syncing(j) /\ UNCHANGED <<extension, account, doubtful>>
        /\ IsOver(j) \/ UNCHANGED job \/ \E s \in SyncSteps : GoesOn(j, s)
    BY <1>1, EndEffect, GoEffect
       DEF LoadsTable, WritesUsers, WritesQueues, Reloads, SyncFails, Syncing, rowVars, NumberingInv, JobSteps,
           SyncSteps
  <2>2. QED
    BY <2>1, SyncsApart
<1>2. ASSUME NEW j \in Jobs, JobStep(j)
      PROVE  ApartInv'
  BY <1>1, <1>2, ChecksApart, AccountMadeApart, ExtensionMadeApart, ExtensionMovedApart, AccountLinkedApart,
     FailsApart, QueueMadeApart DEF JobStep
<1>3. QED
  BY <1>2, CreateArrivesApart, UpdateArrivesApart, RemovesApart, QueueArrivesApart DEF NumberingNext

LEMMA NumberingStart == NumberingInit => NumberingInv
<1> SUFFICES ASSUME NumberingInit
             PROVE  NumberingInv
  OBVIOUS
<1>1. \A j \in Jobs : job[j].kind = "none" /\ job[j].at = "idle" /\ job[j].who = NoAccount
  BY DEF NumberingInit, Idle
<1>2. NumberingTypeOK
  <2>1. 1 \in Numbers /\ 0 \in 0..LastNumber /\ 1 \in 0..LastNumber /\ 0 \in 0..MaxOutages
    BY NumberingAssumption DEF Numbers
  <2>2. job \in [Jobs -> JobRec]
    BY <2>1 DEF NumberingInit, Idle, JobRec, Kinds
  <2>3. file \in Rows /\ live \in Rows /\ extension \subseteq Numbers
    BY <2>1 DEF NumberingInit, Rows
  <2>4. snapshot \in [Jobs -> Rows]
    BY DEF NumberingInit, NotRead, Rows
  <2>5. account \in [Staff -> 0..LastNumber]
    BY <2>1 DEF NumberingInit
  <2>6. QED
    BY <2>1, <2>2, <2>3, <2>4, <2>5 DEF NumberingInit, NumberingTypeOK, JobRec
<1>3. JobShape
  BY <1>1 DEF JobShape, NumberingInit, Syncing
<1>4. LiveInv
  BY <1>1 DEF LiveInv, OneSync, SyncsCarry, Syncing, NumberingInit
<1>5. ApartInv
  <2>1. \A a \in Staff : Of(a) = {}
    BY <1>1, NumberingAssumption DEF Of
  <2>2. Progressing /\ Rivals /\ QueueNumbersFree
    BY <1>1, <2>1 DEF Progressing, Clear, Rivals, Taking, QueueNumbersFree, At
  <2>3. \A a, b \in Settled : a = b
    BY NumberingAssumption
  <2>4. OwnedApart
    BY <2>1, <2>3 DEF OwnedApart, Owns, Clear, NumberingInit
  <2>5. QED
    BY <2>2, <2>4 DEF ApartInv
<1>6. QED
  BY <1>2, <1>3, <1>4, <1>5 DEF NumberingInv

LEMMA NumberingStep ==
  ASSUME NumberingInv, NumberingNext
  PROVE  NumberingInv'
BY TypeStep, ShapeStep, LiveStep, ApartStep DEF NumberingInv

LEMMA NumberingStutter ==
  ASSUME NumberingInv, UNCHANGED numberingVars
  PROVE  NumberingInv'
BY DEF numberingVars, rowVars, fsVars, NumberingInv, NumberingTypeOK, JobShape, LiveInv, OneSync, SyncsCarry, Carries,
       Linking, Syncing, ApartInv, Progressing, Progress, Rivals, Taking, OwnedApart, Owns, Of, Clear,
       QueueNumbersFree, At

\* The numbers' invariant holds throughout.
THEOREM NumberingInvariant == NumberingSpec => []NumberingInv
<1>1. NumberingInv /\ [NumberingNext]_numberingVars => NumberingInv'
  BY NumberingStep, NumberingStutter
<1>2. QED
  BY <1>1, NumberingStart, PTL DEF NumberingSpec

\* Every request, row and file stays within its bounds and kinds, through every
\* interleaving and failure.
THEOREM NumberingTypeCorrect == NumberingSpec => []NumberingTypeOK
<1>1. NumberingInv => NumberingTypeOK
  BY DEF NumberingInv
<1>2. QED
  BY <1>1, NumberingInvariant, PTL

\* FreeSWITCH runs with the rows of the database once nobody syncs, unless two syncs ran
\* at a time or a call failed (pbx.service's syncToFreeSwitch, fs-provisioning's apply).
THEOREM LiveMatches == NumberingSpec => []LiveMatchesRows
<1>1. NumberingInv => LiveMatchesRows
  <2> SUFFICES ASSUME NumberingInv, \A j \in Jobs : ~Syncing(j) /\ job[j].at # "link", ~overtaken
               PROVE  live = [extension |-> extension, queue |-> queue]
    BY DEF LiveMatchesRows
  <2>1. live.extension = extension /\ live.queue = queue
    BY DEF NumberingInv, LiveInv, SyncsCarry, Linking
  <2>2. live \in Rows
    BY DEF NumberingInv, NumberingTypeOK
  <2>3. QED
    BY <2>1, <2>2 DEF Rows
<1>2. QED
  BY <1>1, NumberingInvariant, PTL

\* An account at rest has its extension, and the number to itself; a queue is created on
\* no extension's number, unless a request for that number was under way.
THEOREM NumbersApart == NumberingSpec => NumbersStayApart
<1>1. NumberingInv => ExtensionOfItsAccount
  <2> SUFFICES ASSUME NumberingInv, NEW a \in Staff \ doubtful, account[a] # 0, \A j \in Jobs : job[j].who # a
               PROVE  /\ account[a] \in extension
                      /\ \A b \in Staff \ doubtful :
                           account[b] = account[a] /\ (\A j \in Jobs : job[j].who # b) => b = a
    BY DEF ExtensionOfItsAccount, Holders
  <2>1. account[a] \in Numbers
    BY NumberingAssumption DEF NumberingInv, NumberingTypeOK, Numbers
  <2>2. \A b \in Staff : (\A j \in Jobs : job[j].who # b) /\ account[b] = account[a] => Owns(b, account[a])
    BY DEF Owns, Of
  <2>3. QED
    BY <2>1, <2>2 DEF NumberingInv, ApartInv, OwnedApart, Clear
<1>2. NumberingInv /\ NumberingNext => \A n \in queue' \ queue : n \in extension => n \in doubtful
  <2> SUFFICES ASSUME NumberingInv, NumberingNext, NEW n \in queue' \ queue, n \in extension
               PROVE  n \in doubtful
    OBVIOUS
  <2>1. PICK j \in Jobs : CreatesQueue(j)
    BY DEF NumberingNext, JobStep, ChecksExtension, CreatesAccount, CreatesExtension, MovesExtension, LinksAccount,
           RequestFails, CreatesQueue, LoadsTable, WritesUsers, WritesQueues, Reloads, SyncFails, QueueArrives,
           RemovesRow, AccountCreateArrives, AccountUpdateArrives, rowVars
  <2>2. At(j, "addQueue", "row") /\ n = job[j].number
    BY <2>1 DEF CreatesQueue
  <2>3. QED
    BY <2>2 DEF NumberingInv, ApartInv, QueueNumbersFree
<1>3. NumberingInv /\ ExtensionOfItsAccount' /\ [NumberingNext]_numberingVars =>
        [numberingVars' # numberingVars =>
           /\ ExtensionOfItsAccount'
           /\ \A n \in queue' \ queue : n \in extension => n \in doubtful]_numberingVars
  BY <1>2
<1>4. QED
  BY <1>1, <1>3, NumberingInvariant, PTL DEF NumberingSpec, NumbersStayApart

-----------------------------------------------------------------------------
(***************************************************************************)
(* What syncs give FreeSWITCH.  QueuesStaffed speaks of moments without a  *)
(* sync, so the invariant names, for each seat and trunk not yet there, the*)
(* sync under way that brings it: any step of that sync keeps bringing it, *)
(* delivers it or counts it as missed, and no other sync takes it away unless*)
(* two of them write the same files.                                       *)
(***************************************************************************)
\* A sync under way that will bring a seat to mod_callcenter, as long as no files cross.
Covers(j, p) ==
  /\ sync[j].of = QueueTenant
  /\ \/ sync[j].at = "read"
     \/ /\ p \in sync[j].seats /\ p[1] \in sync[j].queues
        /\ \/ sync[j].at = "push"
           \/ sync[j].at = "reload" /\ (remote \/ (included /\ p[1] \in qFile))
           \/ sync[j].at \in {"rescan", "queue", "agent", "tier"} /\ (remote \/ p[1] \in xml)
     \/ sync[j].at \in {"agent", "tier"} /\ p \in sync[j].left /\ p[1] \in loaded

\* A sync under way that will bring the tenant's gateway to Sofia.
Brings(j, t) ==
  /\ sync[j].of = t
  /\ \/ sync[j].at = "read"
     \/ sync[j].at = "push" /\ sync[j].trunk
     \/ sync[j].at \in {"reload", "rescan"} /\ t \in gwFile /\ (remote \/ sync[j].trunk)

\* Two syncs that write the same files have crossed.
Crossing ==
  \A i, j \in Syncs : Running(i) /\ Running(j) /\ i # j =>
    IF remote THEN sync[i].of = sync[j].of => sync[i].of \in crossed ELSE crossed = BoxTenants

TrunksComing ==
  \A t \in trunks : t \in gateways \cup missed \cup crossed \/ \E j \in Syncs : Brings(j, t)

SeatsComing ==
  remote \/ crossed = {} =>
    \A p \in roster : p[1] \in active => p \in tiers \cup missed \/ \E j \in Syncs : Covers(j, p)

\* The members left are those of the queue just loaded; the one being seated is an agent.
MemberByMember ==
  \A j \in Syncs :
    /\ sync[j].at \notin {"agent", "tier"} => sync[j].left = {}
    /\ sync[j].at = "tier" => sync[j].seat \in sync[j].left /\ status[sync[j].seat[2]] # "none"

ProvisioningInv == ProvisioningTypeOK /\ Crossing /\ TrunksComing /\ SeatsComing /\ MemberByMember

SyncRec == [at : {"idle", "read", "push", "reload", "rescan", "queue", "agent", "tier", "done"},
            of : BoxTenants, seats : SUBSET Seats, queues : SUBSET CallQueues,
            trunk : BOOLEAN, left : SUBSET Seats, seat : Seats \cup {NoSeat}]

-----------------------------------------------------------------------------
\* A step is one sync's.
Only(j) == sync' \in [Syncs -> SyncRec] /\ \A i \in Syncs \ {j} : sync'[i] = sync[i]

\* It turns to its next command, as the tenant's and with the rows it has read.
TurnsTo(j, at) ==
  /\ Only(j)
  /\ sync'[j].at = at /\ sync'[j].of = sync[j].of /\ sync'[j].seats = sync[j].seats
  /\ sync'[j].trunk = sync[j].trunk

LEMMA SyncTyped == ProvisioningTypeOK => sync \in [Syncs -> SyncRec]
BY DEF ProvisioningTypeOK, SyncRec

LEMMA TurnsEffect ==
  ASSUME ProvisioningTypeOK, NEW j \in Syncs, NEW s,
         s \in {"push", "reload", "rescan", "queue", "agent", "tier", "done"}, Turns(j, s)
  PROVE  /\ TurnsTo(j, s) /\ sync'[j].queues = sync[j].queues /\ sync'[j].left = sync[j].left
         /\ sync'[j].seat = sync[j].seat
<1>1. sync \in [Syncs -> SyncRec] /\ sync' = [sync EXCEPT ![j].at = s]
  BY SyncTyped DEF Turns
<1>2. QED
  BY <1>1 DEF TurnsTo, Only, SyncRec

LEMMA StartsEffect ==
  ASSUME ProvisioningTypeOK, NEW j \in Syncs, NEW t \in BoxTenants, Starts(j, t)
  PROVE  /\ Only(j) /\ sync[j].at = "idle"
         /\ sync'[j].at = "read" /\ sync'[j].of = t /\ sync'[j].left = {}
<1> DEFINE new == [NotSyncing EXCEPT !.at = "read", !.of = t]
<1>1. new \in SyncRec /\ new.at = "read" /\ new.of = t /\ new.left = {}
  <2>1. NotSyncing \in SyncRec /\ NotSyncing.left = {}
    BY ProvisioningAssumption DEF NotSyncing, SyncRec
  <2>2. QED
    BY <2>1 DEF SyncRec
<1>2. sync \in [Syncs -> SyncRec] /\ sync' = [sync EXCEPT ![j] = new] /\ sync[j].at = "idle"
  BY SyncTyped DEF Starts
<1> HIDE DEF new
<1>3. QED
  BY <1>1, <1>2 DEF Only

LEMMA ReadsEffect ==
  ASSUME ProvisioningTypeOK, NEW j \in Syncs, ReadsRows(j)
  PROVE  /\ Only(j) /\ sync'[j].at = "push" /\ sync'[j].of = sync[j].of /\ sync'[j].left = sync[j].left
         /\ (sync'[j].trunk <=> sync[j].of \in trunks)
         /\ sync[j].of = QueueTenant => sync'[j].queues = active /\ sync'[j].seats = {p \in roster : p[1] \in active}
<1> DEFINE mine == IF sync[j].of = QueueTenant THEN active ELSE {}
           given == {p \in roster : p[1] \in mine}
           has == sync[j].of \in trunks
           new == [sync[j] EXCEPT !.at = "push", !.queues = mine, !.trunk = has, !.seats = given]
<1>1. mine \in SUBSET CallQueues /\ given \in SUBSET Seats
  BY DEF ProvisioningTypeOK
<1>2. sync[j].of = QueueTenant => mine = active /\ given = {p \in roster : p[1] \in active}
  OBVIOUS
<1>3. sync \in [Syncs -> SyncRec] /\ sync' = [sync EXCEPT ![j] = new]
  BY SyncTyped DEF ReadsRows
<1>4. has \in BOOLEAN
  OBVIOUS
<1> HIDE DEF mine, given, has
<1>5. /\ new \in SyncRec /\ new.at = "push" /\ new.of = sync[j].of /\ new.left = sync[j].left
      /\ new.trunk = has /\ new.queues = mine /\ new.seats = given
  BY <1>1, <1>3, <1>4 DEF SyncRec
<1> HIDE DEF new
<1>6. /\ Only(j) /\ sync'[j].at = "push" /\ sync'[j].of = sync[j].of /\ sync'[j].left = sync[j].left
      /\ sync'[j].trunk = has /\ sync'[j].queues = mine /\ sync'[j].seats = given
  BY <1>3, <1>5 DEF Only
<1> USE DEF has
<1>7. QED
  BY <1>2, <1>6

LEMMA LoadsEffect ==
  ASSUME ProvisioningTypeOK, NEW j \in Syncs, LoadsQueue(j)
  PROVE  \E q \in sync[j].queues :
           LET ms == sync[j].seats \cap SeatsOf(q) IN
             /\ TurnsTo(j, IF ms # {} THEN "agent" ELSE IF sync[j].queues = {q} THEN "done" ELSE "queue")
             /\ sync'[j].queues = sync[j].queues \ {q} /\ sync'[j].left = ms
             /\ \/ drops' = drops /\ loaded' = loaded \cup ({q} \cap Defined) /\ UNCHANGED missed
                \/ Drops /\ UNCHANGED loaded /\ missed' = missed \cup ms
<1>1. PICK q \in sync[j].queues :
        /\ sync' = [sync EXCEPT ![j] = [sync[j] EXCEPT
                     !.queues = sync[j].queues \ {q}, !.left = sync[j].seats \cap SeatsOf(q),
                     !.at = IF sync[j].seats \cap SeatsOf(q) # {} THEN "agent"
                            ELSE IF sync[j].queues = {q} THEN "done" ELSE "queue"]]
        /\ \/ Works /\ loaded' = loaded \cup ({q} \cap Defined) /\ UNCHANGED missed
           \/ Drops /\ UNCHANGED loaded /\ missed' = missed \cup (sync[j].seats \cap SeatsOf(q))
  BY DEF LoadsQueue
<1> DEFINE ms == sync[j].seats \cap SeatsOf(q)
           rest == sync[j].queues \ {q}
           next == IF ms # {} THEN "agent" ELSE IF sync[j].queues = {q} THEN "done" ELSE "queue"
<1>2. sync \in [Syncs -> SyncRec]
  BY SyncTyped
<1>3. ms \in SUBSET Seats /\ rest \in SUBSET CallQueues /\ next \in {"agent", "done", "queue"}
  BY <1>2 DEF SyncRec
<1> DEFINE new == [sync[j] EXCEPT !.queues = rest, !.left = ms, !.at = next]
<1>4. sync' = [sync EXCEPT ![j] = new]
  BY <1>1
<1> HIDE DEF ms, rest, next
<1>5. /\ new \in SyncRec /\ new.at = next /\ new.of = sync[j].of /\ new.seats = sync[j].seats
      /\ new.trunk = sync[j].trunk /\ new.queues = rest /\ new.left = ms
  BY <1>2, <1>3 DEF SyncRec
<1> HIDE DEF new
<1>6. TurnsTo(j, next) /\ sync'[j].queues = rest /\ sync'[j].left = ms
  BY <1>2, <1>4, <1>5 DEF TurnsTo, Only
<1> USE DEF ms, rest, next
<1>7. QED
  BY <1>1, <1>6 DEF Works

LEMMA ContinuesEffect ==
  ASSUME ProvisioningTypeOK, NEW j \in Syncs, NEW p, Continues(j, p)
  PROVE  /\ TurnsTo(j, IF sync[j].left \ {p} # {} THEN "agent" ELSE IF sync[j].queues # {} THEN "queue" ELSE "done")
         /\ sync'[j].queues = sync[j].queues /\ sync'[j].left = sync[j].left \ {p}
<1> DEFINE rest == sync[j].left \ {p}
           next == IF rest # {} THEN "agent" ELSE IF sync[j].queues # {} THEN "queue" ELSE "done"
<1>1. sync \in [Syncs -> SyncRec]
  BY SyncTyped
<1>2. rest \in SUBSET Seats /\ next \in {"agent", "done", "queue"}
  BY <1>1 DEF SyncRec
<1> DEFINE new == [sync[j] EXCEPT !.left = rest, !.seat = NoSeat, !.at = next]
<1>3. sync' = [sync EXCEPT ![j] = new]
  BY DEF Continues
<1> HIDE DEF rest, next
<1>4. /\ new \in SyncRec /\ new.at = next /\ new.of = sync[j].of /\ new.seats = sync[j].seats
      /\ new.trunk = sync[j].trunk /\ new.queues = sync[j].queues /\ new.left = rest
  BY <1>1, <1>2 DEF SyncRec
<1> HIDE DEF new
<1>5. TurnsTo(j, next) /\ sync'[j].queues = sync[j].queues /\ sync'[j].left = rest
  BY <1>1, <1>3, <1>4 DEF TurnsTo, Only
<1> USE DEF rest, next
<1>6. QED
  BY <1>5

LEMMA AddsEffect ==
  ASSUME ProvisioningTypeOK, NEW j \in Syncs, AddsAgent(j)
  PROVE  \E p \in sync[j].left :
           \/ /\ TurnsTo(j, "tier") /\ sync'[j].queues = sync[j].queues
              /\ sync'[j].left = sync[j].left /\ sync'[j].seat = p
              /\ Works /\ status' = [status EXCEPT ![p[2]] = "Available"] /\ UNCHANGED missed
           \/ /\ Continues(j, p) /\ Drops /\ missed' = missed \cup {p}
              /\ \/ UNCHANGED status
                 \/ status[p[2]] = "none" /\ status' = [status EXCEPT ![p[2]] = "Logged Out"]
<1>1. PICK p \in sync[j].left :
        \/ /\ Works
           /\ sync' = [sync EXCEPT ![j] = [sync[j] EXCEPT !.at = "tier", !.seat = p]]
           /\ status' = [status EXCEPT ![p[2]] = "Available"]
           /\ UNCHANGED missed
        \/ /\ Drops
           /\ Continues(j, p)
           /\ \/ UNCHANGED status
              \/ status[p[2]] = "none" /\ status' = [status EXCEPT ![p[2]] = "Logged Out"]
           /\ missed' = missed \cup {p}
  BY DEF AddsAgent
<1> DEFINE new == [sync[j] EXCEPT !.at = "tier", !.seat = p]
<1>2. sync \in [Syncs -> SyncRec]
  BY SyncTyped
<1>3. /\ new \in SyncRec /\ new.at = "tier" /\ new.of = sync[j].of /\ new.seats = sync[j].seats
      /\ new.trunk = sync[j].trunk /\ new.queues = sync[j].queues /\ new.left = sync[j].left /\ new.seat = p
  BY <1>1, <1>2 DEF SyncRec
<1>4. sync' = [sync EXCEPT ![j] = new] =>
        /\ TurnsTo(j, "tier") /\ sync'[j].queues = sync[j].queues
        /\ sync'[j].left = sync[j].left /\ sync'[j].seat = p
  <2> HIDE DEF new
  <2>1. QED
    BY <1>2, <1>3 DEF TurnsTo, Only
<1>5. QED
  BY <1>1, <1>4

-----------------------------------------------------------------------------
(* What a step of one sync leaves of the others' promises.                 *)

LEMMA CrossingKept ==
  ASSUME Crossing, NEW j \in Syncs, Only(j), Running(j), sync'[j].of = sync[j].of, UNCHANGED <<remote, crossed>>
  PROVE  Crossing'
<1>1. \A i \in Syncs : (Running(i))' => Running(i)
  BY DEF Only, Running
<1>2. \A i \in Syncs : sync'[i].of = sync[i].of
  BY DEF Only
<1>3. QED
  BY <1>1, <1>2 DEF Crossing

LEMMA TrunksKept ==
  ASSUME ProvisioningInv, NEW j \in Syncs, Only(j), Running(j), sync'[j].of = sync[j].of,
         UNCHANGED <<remote, trunks, crossed>>, gateways \subseteq gateways',
         \A t \in BoxTenants : t \in missed => t \in missed' \cup gateways',
         remote => \A t \in BoxTenants \ {sync[j].of} : t \in gwFile => t \in gwFile',
         sync[j].of \in trunks /\ Brings(j, sync[j].of) =>
           (Brings(j, sync[j].of))' \/ sync[j].of \in gateways' \cup missed'
  PROVE  TrunksComing'
<1> SUFFICES ASSUME NEW t \in trunks, t \notin gateways' \cup missed' \cup crossed'
             PROVE  \E i \in Syncs : (Brings(i, t))'
  BY DEF TrunksComing
<1>1. t \in BoxTenants
  BY DEF ProvisioningInv, ProvisioningTypeOK
<1>2. PICK i \in Syncs : Brings(i, t)
  BY <1>1 DEF ProvisioningInv, TrunksComing
<1>3. Running(i)
  BY <1>2 DEF Brings, Running
<1>4. CASE i = j
  BY <1>2, <1>4 DEF Brings
<1>5. CASE i # j
  <2>1. remote /\ sync[j].of # t
    BY <1>1, <1>2, <1>3, <1>5 DEF ProvisioningInv, Crossing, Brings
  <2>2. sync'[i] = sync[i] /\ (t \in gwFile => t \in gwFile')
    BY <1>1, <1>5, <2>1 DEF Only
  <2>3. (Brings(i, t))'
    BY <1>2, <2>1, <2>2 DEF Brings
  <2>4. QED
    BY <2>3
<1>6. QED
  BY <1>4, <1>5

LEMMA SeatsKept ==
  ASSUME ProvisioningInv, NEW j \in Syncs, Only(j), Running(j), sync'[j].of = sync[j].of,
         UNCHANGED <<remote, roster, active, crossed>>, tiers \subseteq tiers', loaded \subseteq loaded',
         \A p \in Seats : p \in missed => p \in missed' \cup tiers',
         \A p \in roster : p[1] \in active /\ Covers(j, p) => (Covers(j, p))' \/ p \in tiers' \cup missed'
  PROVE  SeatsComing'
<1> SUFFICES ASSUME remote \/ crossed = {}, NEW p \in roster, p[1] \in active, p \notin tiers' \cup missed'
             PROVE  \E i \in Syncs : (Covers(i, p))'
  BY DEF SeatsComing
<1>1. p \in Seats
  BY DEF ProvisioningInv, ProvisioningTypeOK
<1>2. PICK i \in Syncs : Covers(i, p)
  BY <1>1 DEF ProvisioningInv, SeatsComing
<1>3. Running(i)
  BY <1>2 DEF Covers, Running
<1>4. CASE i = j
  BY <1>2, <1>4
<1>5. CASE i # j
  <2>1. remote
    BY <1>3, <1>5, ProvisioningAssumption DEF ProvisioningInv, Crossing
  <2>2. sync'[i] = sync[i]
    BY <1>5 DEF Only
  <2>3. (Covers(i, p))'
    BY <1>2, <2>1, <2>2 DEF Covers
  <2>4. QED
    BY <2>3
<1>6. QED
  BY <1>4, <1>5

LEMMA MembersKept ==
  ASSUME ProvisioningInv, NEW j \in Syncs, Only(j),
         \A x \in MemberExts : status[x] # "none" => status'[x] # "none",
         sync'[j].at \notin {"agent", "tier"} => sync'[j].left = {},
         sync'[j].at = "tier" => sync'[j].seat \in sync'[j].left /\ status'[sync'[j].seat[2]] # "none"
  PROVE  MemberByMember'
<1> SUFFICES ASSUME NEW i \in Syncs \ {j}
             PROVE  /\ sync'[i].at \notin {"agent", "tier"} => sync'[i].left = {}
                    /\ sync'[i].at = "tier" => sync'[i].seat \in sync'[i].left /\ status'[sync'[i].seat[2]] # "none"
  BY DEF MemberByMember
<1>1. sync'[i] = sync[i]
  BY DEF Only
<1>2. sync[i].seat \in sync[i].left => sync[i].seat[2] \in MemberExts
  BY SyncTyped DEF ProvisioningInv, SyncRec, MemberExts
<1>3. QED
  BY <1>1, <1>2 DEF ProvisioningInv, MemberByMember

-----------------------------------------------------------------------------
(* Promises: the step of each operation.                                   *)

Promises == Crossing /\ TrunksComing /\ SeatsComing /\ MemberByMember

\* A request writes its row and starts a sync.
LEMMA StartsPromises ==
  ASSUME ProvisioningInv, NEW j \in Syncs, NEW t \in BoxTenants, Starts(j, t),
         trunks' \subseteq trunks \cup {t},
         \A p \in roster' : p[1] \in active' => (p \in roster /\ p[1] \in active) \/ t = QueueTenant
  PROVE  Promises'
<1>1. /\ Only(j) /\ sync[j].at = "idle" /\ sync'[j].at = "read" /\ sync'[j].of = t /\ sync'[j].left = {}
  BY StartsEffect DEF ProvisioningInv
<1>2. /\ UNCHANGED <<remote, gwFile, qFile, included, xml, gateways, loaded, status, tiers, missed>>
      /\ crossed' = crossed \cup (IF remote THEN {t} \cap {sync[i].of : i \in {k \in Syncs : Running(k)}}
                                  ELSE {u \in BoxTenants : \E i \in Syncs : Running(i)})
  BY DEF Starts, boxFiles, centerVars
<1>3. \A i \in Syncs \ {j} : sync'[i] = sync[i] /\ ((Running(i))' <=> Running(i))
  BY <1>1 DEF Only, Running
<1>4. \A i \in Syncs \ {j} : Running(i) =>
        IF remote THEN sync[i].of = t => t \in crossed' ELSE crossed' = BoxTenants
  BY <1>2 DEF ProvisioningInv, ProvisioningTypeOK
<1>5. ASSUME NEW i \in Syncs, NEW k \in Syncs, (Running(i))', (Running(k))', i # k
      PROVE  IF remote' THEN sync'[i].of = sync'[k].of => sync'[i].of \in crossed' ELSE crossed' = BoxTenants
  <2>1. CASE i # j /\ k # j
    BY <1>2, <1>3, <1>5, <2>1 DEF ProvisioningInv, ProvisioningTypeOK, Crossing
  <2>2. CASE i = j
    BY <1>1, <1>2, <1>3, <1>4, <1>5, <2>2
  <2>3. CASE k = j
    BY <1>1, <1>2, <1>3, <1>4, <1>5, <2>3
  <2>4. QED
    BY <2>1, <2>2, <2>3
<1>6. Crossing'
  BY <1>5 DEF Crossing
<1>7. \A i, u : Brings(i, u) /\ i \in Syncs => (Brings(i, u))'
  BY <1>1, <1>2, <1>3 DEF Brings
<1>8. TrunksComing'
  <2>1. (Brings(j, t))'
    BY <1>1 DEF Brings
  <2>2. QED
    BY <1>2, <1>7, <2>1 DEF ProvisioningInv, TrunksComing
<1>9. \A p, i : Covers(i, p) /\ i \in Syncs => (Covers(i, p))'
  BY <1>1, <1>2, <1>3 DEF Covers
<1>10. SeatsComing'
  <2>1. t = QueueTenant => \A p : (Covers(j, p))'
    BY <1>1 DEF Covers
  <2>2. remote' \/ crossed' = {} => remote \/ crossed = {}
    BY <1>2
  <2>3. QED
    BY <1>2, <1>9, <2>1, <2>2 DEF ProvisioningInv, SeatsComing
<1>11. MemberByMember'
  BY <1>1, <1>2, MembersKept
<1>12. QED
  BY <1>6, <1>8, <1>10, <1>11 DEF Promises

LEMMA ReadsPromises ==
  ASSUME ProvisioningInv, NEW j \in Syncs, ReadsRows(j)
  PROVE  Promises'
<1>1. /\ Only(j) /\ sync'[j].at = "push" /\ sync'[j].of = sync[j].of /\ sync'[j].left = sync[j].left
      /\ (sync'[j].trunk <=> sync[j].of \in trunks)
      /\ (sync[j].of = QueueTenant =>
            sync'[j].queues = active /\ sync'[j].seats = {p \in roster : p[1] \in active})
  BY ReadsEffect DEF ProvisioningInv
<1>2. /\ sync[j].at = "read"
      /\ UNCHANGED <<remote, roster, active, trunks, gwFile, gateways, loaded, status, tiers, missed, crossed>>
  BY DEF ReadsRows, rowsVars, boxFiles, centerVars
<1>3. Running(j) /\ sync[j].left = {}
  BY <1>2 DEF Running, ProvisioningInv, MemberByMember
<1>4. Crossing'
  BY <1>1, <1>2, <1>3, CrossingKept DEF ProvisioningInv
<1>5. TrunksComing'
  <2>1. sync[j].of \in trunks => (Brings(j, sync[j].of))'
    BY <1>1 DEF Brings
  <2>2. QED
    BY <1>1, <1>2, <1>3, <2>1, TrunksKept
<1>6. SeatsComing'
  <2>1. \A p \in roster : p[1] \in active /\ Covers(j, p) => (Covers(j, p))'
    BY <1>1, <1>2 DEF Covers
  <2>2. QED
    BY <1>1, <1>2, <1>3, <2>1, SeatsKept
<1>7. MemberByMember'
  BY <1>1, <1>2, <1>3, MembersKept
<1>8. QED
  BY <1>4, <1>5, <1>6, <1>7 DEF Promises

\* A sync that ends early has left out its seats and its trunk.
LEMMA MissesPromises ==
  ASSUME ProvisioningInv, NEW j \in Syncs, sync[j].at \in {"push", "reload", "rescan"}, Turns(j, "done"), MissesAll(j),
         UNCHANGED <<remote, roster, active, trunks, gwFile, gateways, loaded, status, tiers, crossed>>
  PROVE  Promises'
<1>1. /\ Only(j) /\ sync'[j].at = "done" /\ sync'[j].of = sync[j].of /\ sync'[j].left = sync[j].left
      /\ Running(j) /\ sync[j].left = {}
  BY TurnsEffect DEF TurnsTo, Running, ProvisioningInv, MemberByMember
<1>2. missed' = missed \cup sync[j].seats \cup {sync[j].of}
  BY DEF MissesAll
<1>3. Crossing'
  BY <1>1, CrossingKept DEF ProvisioningInv
<1>4. TrunksComing'
  BY <1>1, <1>2, TrunksKept
<1>5. SeatsComing'
  <2>1. \A p : Covers(j, p) => p \in missed'
    BY <1>2 DEF Covers
  <2>2. QED
    BY <1>1, <1>2, <2>1, SeatsKept
<1>6. MemberByMember'
  BY <1>1, MembersKept
<1>7. QED
  BY <1>3, <1>4, <1>5, <1>6 DEF Promises

LEMMA WritesPromises ==
  ASSUME ProvisioningInv, NEW j \in Syncs, WritesFiles(j)
  PROVE  Promises'
<1>1. /\ sync[j].at = "push" /\ ~remote
      /\ UNCHANGED <<remote, roster, active, trunks, xml, gateways, loaded, status, tiers, crossed>>
  BY DEF WritesFiles, rowsVars, centerVars
<1>2. CASE Turns(j, "done") /\ MissesAll(j) /\ UNCHANGED <<gwFile, qFile, included>>
  BY <1>1, <1>2, MissesPromises
<1>3. CASE /\ Turns(j, "reload") /\ ensureCallcenterInclude(j)
           /\ gwFile' = {t \in {sync[j].of} : sync[j].trunk} /\ qFile' = sync[j].queues
  <2>1. /\ Only(j) /\ sync'[j].at = "reload" /\ sync'[j].of = sync[j].of /\ sync'[j].left = sync[j].left
        /\ sync'[j].seats = sync[j].seats /\ sync'[j].trunk = sync[j].trunk /\ sync'[j].queues = sync[j].queues
        /\ Running(j) /\ sync[j].left = {}
    BY <1>1, <1>3, TurnsEffect DEF TurnsTo, Running, ProvisioningInv, MemberByMember
  <2>2. missed \subseteq missed' /\ (included' = TRUE \/ missed' = missed \cup sync[j].seats)
    BY <1>3 DEF ensureCallcenterInclude
  <2>3. Crossing'
    BY <1>1, <2>1, CrossingKept DEF ProvisioningInv
  <2>4. TrunksComing'
    <3>1. Brings(j, sync[j].of) => (Brings(j, sync[j].of))'
      BY <1>1, <1>3, <2>1 DEF Brings
    <3>2. QED
      BY <1>1, <2>1, <2>2, <3>1, TrunksKept
  <2>5. SeatsComing'
    <3>1. \A p \in roster : p[1] \in active /\ Covers(j, p) => (Covers(j, p))' \/ p \in tiers' \cup missed'
      BY <1>1, <1>3, <2>1, <2>2 DEF Covers
    <3>2. QED
      BY <1>1, <2>1, <2>2, <3>1, SeatsKept
  <2>6. MemberByMember'
    BY <1>1, <2>1, MembersKept
  <2>7. QED
    BY <2>3, <2>4, <2>5, <2>6 DEF Promises
<1>4. QED
  BY <1>2, <1>3 DEF WritesFiles

LEMMA PushesPromises ==
  ASSUME ProvisioningInv, NEW j \in Syncs, PushesGateways(j)
  PROVE  Promises'
<1>1. /\ sync[j].at = "push" /\ remote /\ Turns(j, "reload")
      /\ UNCHANGED <<remote, roster, active, trunks, gateways, loaded, status, tiers, crossed>>
  BY DEF PushesGateways, rowsVars, centerVars
<1>2. \/ missed' = missed /\ gwFile' = (gwFile \ {sync[j].of}) \cup {t \in {sync[j].of} : sync[j].trunk}
      \/ gwFile' = gwFile /\ missed' = missed \cup {sync[j].of}
  BY DEF PushesGateways, sshWriteFile
<1>3. /\ Only(j) /\ sync'[j].at = "reload" /\ sync'[j].of = sync[j].of /\ sync'[j].left = sync[j].left
      /\ sync'[j].seats = sync[j].seats /\ sync'[j].trunk = sync[j].trunk /\ sync'[j].queues = sync[j].queues
      /\ Running(j) /\ sync[j].left = {}
  BY <1>1, TurnsEffect DEF TurnsTo, Running, ProvisioningInv, MemberByMember
<1>4. Crossing'
  BY <1>1, <1>3, CrossingKept DEF ProvisioningInv
<1>5. TrunksComing'
  <2>1. Brings(j, sync[j].of) => (Brings(j, sync[j].of))' \/ sync[j].of \in missed'
    BY <1>1, <1>2, <1>3 DEF Brings
  <2>2. QED
    BY <1>1, <1>2, <1>3, <2>1, TrunksKept
<1>6. SeatsComing'
  <2>1. \A p \in roster : p[1] \in active /\ Covers(j, p) => (Covers(j, p))'
    BY <1>1, <1>3 DEF Covers
  <2>2. QED
    BY <1>1, <1>2, <1>3, <2>1, SeatsKept
<1>7. MemberByMember'
  BY <1>1, <1>3, MembersKept
<1>8. QED
  BY <1>4, <1>5, <1>6, <1>7 DEF Promises

LEMMA ReloadsPromises ==
  ASSUME ProvisioningInv, NEW j \in Syncs, ReloadsXml(j)
  PROVE  Promises'
<1>1. /\ sync[j].at = "reload"
      /\ UNCHANGED <<remote, roster, active, trunks, gwFile, qFile, included, gateways, loaded, status, tiers, crossed>>
  BY DEF ReloadsXml, rowsVars, centerVars
<1>2. CASE Turns(j, "done") /\ MissesAll(j)
  BY <1>1, <1>2, MissesPromises
<1>3. CASE Turns(j, "rescan") /\ xml' = (IF remote THEN xml ELSE {q \in qFile : included}) /\ UNCHANGED missed
  <2>1. /\ Only(j) /\ sync'[j].at = "rescan" /\ sync'[j].of = sync[j].of /\ sync'[j].left = sync[j].left
        /\ sync'[j].seats = sync[j].seats /\ sync'[j].trunk = sync[j].trunk /\ sync'[j].queues = sync[j].queues
        /\ Running(j) /\ sync[j].left = {}
    BY <1>1, <1>3, TurnsEffect DEF TurnsTo, Running, ProvisioningInv, MemberByMember
  <2>2. Crossing'
    BY <1>1, <2>1, CrossingKept DEF ProvisioningInv
  <2>3. TrunksComing'
    <3>1. Brings(j, sync[j].of) => (Brings(j, sync[j].of))'
      BY <1>1, <2>1 DEF Brings
    <3>2. QED
      BY <1>1, <1>3, <2>1, <3>1, TrunksKept
  <2>4. SeatsComing'
    <3>1. \A p \in roster : p[1] \in active /\ Covers(j, p) => (Covers(j, p))'
      BY <1>1, <1>3, <2>1 DEF Covers
    <3>2. QED
      BY <1>1, <1>3, <2>1, <3>1, SeatsKept
  <2>5. MemberByMember'
    BY <1>1, <2>1, MembersKept
  <2>6. QED
    BY <2>2, <2>3, <2>4, <2>5 DEF Promises
<1>4. QED
  BY <1>2, <1>3 DEF ReloadsXml

LEMMA RescansPromises ==
  ASSUME ProvisioningInv, NEW j \in Syncs, Rescans(j)
  PROVE  Promises'
<1>1. /\ sync[j].at = "rescan"
      /\ UNCHANGED <<remote, roster, active, trunks, gwFile, qFile, included, xml, loaded, status, tiers, crossed>>
  BY DEF Rescans, rowsVars, boxFiles, centerVars
<1>2. CASE Turns(j, "done") /\ MissesAll(j) /\ UNCHANGED gateways
  BY <1>1, <1>2, MissesPromises
<1>3. CASE /\ gateways' = (IF remote \/ sync[j].trunk THEN gateways \cup gwFile ELSE gateways)
           /\ missed' = (IF remote \/ sync[j].trunk THEN missed \ gateways' ELSE missed)
           /\ Turns(j, IF sync[j].queues = {} THEN "done" ELSE "queue")
  <2>1. PICK s \in {"done", "queue"} : s = IF sync[j].queues = {} THEN "done" ELSE "queue"
    OBVIOUS
  <2>2. /\ Only(j) /\ sync'[j].at = s /\ sync'[j].of = sync[j].of /\ sync'[j].left = sync[j].left
        /\ sync'[j].seats = sync[j].seats /\ sync'[j].trunk = sync[j].trunk /\ sync'[j].queues = sync[j].queues
        /\ Running(j) /\ sync[j].left = {}
    BY <1>1, <1>3, <2>1, TurnsEffect DEF TurnsTo, Running, ProvisioningInv, MemberByMember
  <2>3. Crossing'
    BY <1>1, <2>2, CrossingKept DEF ProvisioningInv
  <2>4. gateways \subseteq gateways' /\ gateways' \subseteq BoxTenants
    BY <1>3 DEF ProvisioningInv, ProvisioningTypeOK
  <2>5. TrunksComing'
    <3>1. Brings(j, sync[j].of) => sync[j].of \in gateways'
      BY <1>1, <1>3 DEF Brings
    <3>2. \A t \in BoxTenants : t \in missed => t \in missed' \cup gateways'
      BY <1>3
    <3>3. QED
      BY <1>1, <2>2, <2>4, <3>1, <3>2, TrunksKept
  <2>6. SeatsComing'
    <3>1. \A p \in roster : p[1] \in active /\ Covers(j, p) => (Covers(j, p))'
      BY <1>1, <2>1, <2>2 DEF Covers
    <3>2. \A p \in Seats : p \in missed => p \in missed'
      BY <1>3, <2>4, ProvisioningAssumption
    <3>3. QED
      BY <1>1, <2>2, <3>1, <3>2, SeatsKept
  <2>7. MemberByMember'
    BY <1>1, <2>2, MembersKept
  <2>8. QED
    BY <2>3, <2>5, <2>6, <2>7 DEF Promises
<1>4. QED
  BY <1>2, <1>3 DEF Rescans

LEMMA LoadsPromises ==
  ASSUME ProvisioningInv, NEW j \in Syncs, LoadsQueue(j)
  PROVE  Promises'
<1>1. /\ sync[j].at = "queue" /\ Running(j)
      /\ UNCHANGED <<remote, roster, active, trunks, gwFile, qFile, included, xml, gateways, status, tiers, crossed>>
  BY DEF LoadsQueue, Running, rowsVars, boxFiles
<1>2. PICK q \in sync[j].queues :
        LET ms == sync[j].seats \cap SeatsOf(q) IN
          /\ TurnsTo(j, IF ms # {} THEN "agent" ELSE IF sync[j].queues = {q} THEN "done" ELSE "queue")
          /\ sync'[j].queues = sync[j].queues \ {q} /\ sync'[j].left = ms
          /\ \/ drops' = drops /\ loaded' = loaded \cup ({q} \cap Defined) /\ UNCHANGED missed
             \/ Drops /\ UNCHANGED loaded /\ missed' = missed \cup ms
  BY LoadsEffect DEF ProvisioningInv
<1>3. PICK s \in {"agent", "done", "queue"} :
        /\ TurnsTo(j, s) /\ (s = "agent" <=> sync[j].seats \cap SeatsOf(q) # {})
        /\ s = "done" => sync[j].queues = {q}
  BY <1>2
<1>4. /\ Only(j) /\ sync'[j].at = s /\ sync'[j].of = sync[j].of /\ sync'[j].seats = sync[j].seats
  BY <1>3 DEF TurnsTo
<1>5. loaded \subseteq loaded' /\ missed \subseteq missed'
  BY <1>2
<1>6. Crossing'
  BY <1>1, <1>4, CrossingKept DEF ProvisioningInv
<1>7. TrunksComing'
  BY <1>1, <1>4, <1>5, TrunksKept DEF Brings
<1>8. SeatsComing'
  <2>1. ASSUME NEW p \in roster, p[1] \in active, Covers(j, p)
        PROVE  (Covers(j, p))' \/ p \in missed'
    <3>1. p \in Seats /\ p \in sync[j].seats /\ p[1] \in sync[j].queues /\ (remote \/ p[1] \in xml)
          /\ sync[j].of = QueueTenant
      BY <1>1, <2>1 DEF Covers, ProvisioningInv, ProvisioningTypeOK
    <3>2. CASE p[1] = q
      <4>1. p \in sync[j].seats \cap SeatsOf(q)
        BY <3>1, <3>2 DEF SeatsOf
      <4>2. p[1] \in Defined
        BY <2>1, <3>1 DEF Defined
      <4>3. s = "agent" /\ p \in sync'[j].left /\ (p[1] \in loaded' \/ p \in missed')
        BY <1>2, <1>3, <3>2, <4>1, <4>2
      <4>4. QED
        BY <1>4, <3>1, <4>3 DEF Covers
    <3>3. CASE p[1] # q
      <4>1. p[1] \in sync'[j].queues /\ s \in {"agent", "queue"}
        BY <1>2, <1>3, <3>1, <3>3
      <4>2. QED
        BY <1>1, <1>4, <3>1, <4>1 DEF Covers
    <3>4. QED
      BY <3>2, <3>3
  <2>2. QED
    BY <1>1, <1>4, <1>5, <2>1, SeatsKept
<1>9. MemberByMember'
  <2>1. s # "agent" => sync'[j].left = {}
    BY <1>2, <1>3
  <2>2. QED
    BY <1>1, <1>4, <2>1, MembersKept
<1>10. QED
  BY <1>6, <1>7, <1>8, <1>9 DEF Promises

\* A member dealt with, or given up: the others of its queue and the queues left stay covered.
LEMMA ContinuesCovers ==
  ASSUME ProvisioningInv, NEW j \in Syncs, sync[j].at \in {"agent", "tier"}, NEW p \in sync[j].left, Continues(j, p),
         UNCHANGED <<remote, xml, loaded>>
  PROVE  /\ Only(j) /\ Running(j) /\ sync'[j].of = sync[j].of /\ sync'[j].at # "tier"
         /\ sync'[j].at # "agent" => sync'[j].left = {}
         /\ \A m : Covers(j, m) /\ m # p => (Covers(j, m))'
         /\ Covers(j, p) => (Covers(j, p))' \/ (sync[j].of = QueueTenant /\ p[1] \in loaded)
         /\ ~Brings(j, sync[j].of)
<1>1. PICK s \in {"agent", "queue", "done"} :
        /\ TurnsTo(j, s) /\ sync'[j].queues = sync[j].queues /\ sync'[j].left = sync[j].left \ {p}
        /\ (s = "agent" <=> sync[j].left \ {p} # {}) /\ (s = "done" => sync[j].queues = {})
  BY ContinuesEffect DEF ProvisioningInv
<1>2. /\ Only(j) /\ sync'[j].at = s /\ sync'[j].of = sync[j].of /\ sync'[j].seats = sync[j].seats
  BY <1>1 DEF TurnsTo
<1>3. \A m : Covers(j, m) /\ m # p => (Covers(j, m))'
  BY <1>1, <1>2 DEF Covers
<1>4. Covers(j, p) => (Covers(j, p))' \/ (sync[j].of = QueueTenant /\ p[1] \in loaded)
  BY <1>1, <1>2 DEF Covers
<1>5. QED
  BY <1>1, <1>2, <1>3, <1>4 DEF Running, Brings

LEMMA AddsPromises ==
  ASSUME ProvisioningInv, NEW j \in Syncs, AddsAgent(j)
  PROVE  Promises'
<1>1. /\ sync[j].at = "agent" /\ Running(j)
      /\ UNCHANGED <<remote, roster, active, trunks, gwFile, qFile, included, xml, gateways, loaded, tiers, crossed>>
  BY DEF AddsAgent, Running, rowsVars, boxFiles
<1>2. PICK p \in sync[j].left :
        \/ /\ TurnsTo(j, "tier") /\ sync'[j].queues = sync[j].queues
           /\ sync'[j].left = sync[j].left /\ sync'[j].seat = p
           /\ Works /\ status' = [status EXCEPT ![p[2]] = "Available"] /\ UNCHANGED missed
        \/ /\ Continues(j, p) /\ Drops /\ missed' = missed \cup {p}
           /\ \/ UNCHANGED status
              \/ status[p[2]] = "none" /\ status' = [status EXCEPT ![p[2]] = "Logged Out"]
  BY AddsEffect DEF ProvisioningInv
<1>3. p \in Seats /\ p[2] \in MemberExts /\ status \in [MemberExts -> {"none", "Logged Out", "Available"}]
  BY SyncTyped DEF ProvisioningInv, ProvisioningTypeOK, SyncRec, MemberExts
<1>4. missed \subseteq missed' /\ \A x \in MemberExts : status[x] # "none" => status'[x] # "none"
  BY <1>2, <1>3
<1>5. CASE TurnsTo(j, "tier") /\ sync'[j].queues = sync[j].queues /\ sync'[j].left = sync[j].left /\ sync'[j].seat = p
           /\ status' = [status EXCEPT ![p[2]] = "Available"]
  <2>1. /\ Only(j) /\ sync'[j].at = "tier" /\ sync'[j].of = sync[j].of /\ sync'[j].seats = sync[j].seats
    BY <1>5 DEF TurnsTo
  <2>2. \A m : Covers(j, m) => (Covers(j, m))'
    BY <1>1, <1>5, <2>1 DEF Covers
  <2>3. status'[p[2]] # "none"
    BY <1>3, <1>5
  <2>4. Crossing' /\ SeatsComing'
    BY <1>1, <1>4, <2>1, <2>2, CrossingKept, SeatsKept DEF ProvisioningInv
  <2>5. TrunksComing'
    BY <1>1, <1>4, <2>1, TrunksKept DEF Brings
  <2>6. MemberByMember'
    BY <1>4, <1>5, <2>1, <2>3, MembersKept
  <2>7. QED
    BY <2>4, <2>5, <2>6 DEF Promises
<1>6. CASE Continues(j, p) /\ missed' = missed \cup {p}
  <2>1. /\ Only(j) /\ sync'[j].of = sync[j].of /\ sync'[j].at # "tier"
        /\ sync'[j].at # "agent" => sync'[j].left = {}
        /\ \A m : Covers(j, m) /\ m # p => (Covers(j, m))'
        /\ ~Brings(j, sync[j].of)
    BY <1>1, <1>6, ContinuesCovers
  <2>2. Crossing' /\ SeatsComing' /\ TrunksComing'
    BY <1>1, <1>4, <1>6, <2>1, CrossingKept, SeatsKept, TrunksKept DEF ProvisioningInv
  <2>3. MemberByMember'
    BY <1>4, <2>1, MembersKept
  <2>4. QED
    BY <2>2, <2>3 DEF Promises
<1>7. QED
  BY <1>2, <1>5, <1>6

LEMMA TiersPromises ==
  ASSUME ProvisioningInv, NEW j \in Syncs, AddsTier(j)
  PROVE  Promises'
<1>1. PICK p \in sync[j].left : p = sync[j].seat /\ status[p[2]] # "none" /\ p \in Seats
  BY SyncTyped DEF ProvisioningInv, MemberByMember, SyncRec, AddsTier
<1>2. /\ sync[j].at = "tier" /\ Running(j) /\ Continues(j, p)
      /\ UNCHANGED <<remote, roster, active, trunks, gwFile, qFile, included, xml, gateways, loaded, status, crossed>>
      /\ \/ /\ tiers' = (IF p[1] \in loaded /\ status[p[2]] # "none" THEN tiers \cup {p} ELSE tiers)
            /\ missed' = (IF p \in tiers' THEN missed \ {p} ELSE missed)
         \/ missed' = missed \cup {p} /\ UNCHANGED tiers
  BY <1>1 DEF AddsTier, Running, rowsVars, boxFiles
<1>3. /\ Only(j) /\ sync'[j].of = sync[j].of /\ sync'[j].at # "tier"
      /\ sync'[j].at # "agent" => sync'[j].left = {}
      /\ \A m : Covers(j, m) /\ m # p => (Covers(j, m))'
      /\ Covers(j, p) => (Covers(j, p))' \/ p[1] \in loaded
      /\ ~Brings(j, sync[j].of)
  BY <1>1, <1>2, ContinuesCovers
<1>4. tiers \subseteq tiers' /\ \A m : m \in missed => m \in missed' \cup tiers'
  BY <1>2
<1>5. Crossing'
  BY <1>2, <1>3, CrossingKept DEF ProvisioningInv
<1>6. TrunksComing'
  <2>1. \A t \in BoxTenants : t \in missed => t \in missed'
    BY <1>1, <1>2, ProvisioningAssumption
  <2>2. QED
    BY <1>2, <1>3, <2>1, TrunksKept
<1>7. SeatsComing'
  <2>1. \A m : Covers(j, m) => (Covers(j, m))' \/ m \in tiers' \cup missed'
    BY <1>1, <1>2, <1>3
  <2>2. QED
    BY <1>2, <1>3, <1>4, <2>1, SeatsKept
<1>8. MemberByMember'
  BY <1>2, <1>3, MembersKept
<1>9. QED
  BY <1>5, <1>6, <1>7, <1>8 DEF Promises

-----------------------------------------------------------------------------
LEMMA PromisesStep ==
  ASSUME ProvisioningInv, ProvisioningNext
  PROVE  Promises'
<1>1. ASSUME NEW j \in Syncs, NEW q \in CallQueues, NEW on \in BOOLEAN, NEW ms \in SUBSET SeatsOf(q),
             EditsQueue(j, q, ms, on)
      PROVE  Promises'
  BY <1>1, StartsPromises, ProvisioningAssumption DEF EditsQueue
<1>2. ASSUME NEW j \in Syncs, NEW t \in BoxTenants, EditsTrunk(j, t)
      PROVE  Promises'
  BY <1>2, StartsPromises DEF EditsTrunk
<1>3. QED
  BY <1>1, <1>2, ReadsPromises, WritesPromises, PushesPromises, ReloadsPromises, RescansPromises, LoadsPromises,
     AddsPromises, TiersPromises DEF ProvisioningNext

LEMMA ProvisioningTypeStep ==
  ASSUME ProvisioningInv, ProvisioningNext
  PROVE  ProvisioningTypeOK'
<1> USE DEF ProvisioningInv
<1>0. ProvisioningTypeOK /\ (Drops => drops' \in 0..MaxDrops)
  <2>1. drops \in 0..MaxDrops /\ MaxDrops \in Nat
    BY ProvisioningAssumption DEF ProvisioningTypeOK
  <2>2. QED
    BY <2>1 DEF Drops
<1>1. ASSUME NEW j \in Syncs, NEW t \in BoxTenants, Starts(j, t),
             roster' \subseteq Seats, active' \subseteq CallQueues, trunks' \subseteq BoxTenants
      PROVE  ProvisioningTypeOK'
  <2>1. sync' \in [Syncs -> SyncRec]
    BY <1>1, StartsEffect DEF Only
  <2>2. crossed' \subseteq BoxTenants
    BY <1>1 DEF Starts, ProvisioningTypeOK
  <2>3. UNCHANGED <<remote, gwFile, qFile, included, xml, gateways, loaded, status, tiers, drops, missed>>
    BY <1>1 DEF Starts, boxFiles, centerVars
  <2>4. QED
    BY <1>1, <2>1, <2>2, <2>3 DEF ProvisioningTypeOK, SyncRec
<1>2. ASSUME NEW j \in Syncs, NEW q \in CallQueues, NEW on \in BOOLEAN, NEW ms \in SUBSET SeatsOf(q),
             EditsQueue(j, q, ms, on)
      PROVE  ProvisioningTypeOK'
  <2>1. roster' \subseteq Seats /\ active' \subseteq CallQueues /\ trunks' \subseteq BoxTenants
    BY <1>2 DEF EditsQueue, SeatsOf, ProvisioningTypeOK
  <2>2. QED
    BY <1>1, <1>2, <2>1, ProvisioningAssumption DEF EditsQueue
<1>3. ASSUME NEW j \in Syncs, NEW t \in BoxTenants, EditsTrunk(j, t)
      PROVE  ProvisioningTypeOK'
  <2>1. roster' \subseteq Seats /\ active' \subseteq CallQueues /\ trunks' \subseteq BoxTenants
    BY <1>3 DEF EditsTrunk, ProvisioningTypeOK
  <2>2. QED
    BY <1>1, <1>3, <2>1 DEF EditsTrunk
<1>4. ASSUME NEW j \in Syncs, ReadsRows(j)
      PROVE  ProvisioningTypeOK'
  <2>1. sync' \in [Syncs -> SyncRec]
    BY <1>4, ReadsEffect DEF Only
  <2>2. QED
    BY <1>4, <2>1 DEF ReadsRows, rowsVars, boxFiles, centerVars, ProvisioningTypeOK, SyncRec
<1>5. ASSUME NEW j \in Syncs, WritesFiles(j) \/ PushesGateways(j) \/ ReloadsXml(j) \/ Rescans(j)
      PROVE  ProvisioningTypeOK'
  <2>1. sync' \in [Syncs -> SyncRec]
    <3>1. \E s \in {"reload", "rescan", "queue", "done"} : Turns(j, s)
      BY <1>5 DEF WritesFiles, PushesGateways, ReloadsXml, Rescans
    <3>2. QED
      BY <3>1, TurnsEffect DEF TurnsTo, Only
  <2>2. /\ UNCHANGED <<remote, roster, active, trunks, loaded, status, tiers, crossed>>
        /\ drops' = drops \/ Drops
    BY <1>5 DEF WritesFiles, PushesGateways, ReloadsXml, Rescans, ensureCallcenterInclude, sshWriteFile, Works,
                rowsVars, centerVars
  <2>3. sync[j].of \in BoxTenants /\ sync[j].queues \subseteq CallQueues /\ sync[j].seats \subseteq Seats
    BY SyncTyped DEF SyncRec
  <2>4. gwFile' \subseteq BoxTenants /\ qFile' \subseteq CallQueues /\ xml' \subseteq CallQueues
        /\ gateways' \subseteq BoxTenants /\ missed' \subseteq Seats \cup BoxTenants
    BY <1>5, <2>3 DEF WritesFiles, PushesGateways, ReloadsXml, Rescans, ensureCallcenterInclude, sshWriteFile,
                      MissesAll, boxFiles, ProvisioningTypeOK
  <2>5. included' \in BOOLEAN
    BY <1>5 DEF WritesFiles, PushesGateways, ReloadsXml, Rescans, ensureCallcenterInclude, boxFiles,
                ProvisioningTypeOK
  <2>6. QED
    BY <1>0, <2>1, <2>2, <2>4, <2>5 DEF ProvisioningTypeOK, SyncRec
<1>6. ASSUME NEW j \in Syncs, LoadsQueue(j)
      PROVE  ProvisioningTypeOK'
  <2>1. UNCHANGED <<remote, roster, active, trunks, gwFile, qFile, included, xml, gateways, status, tiers, crossed>>
    BY <1>6 DEF LoadsQueue, rowsVars, boxFiles
  <2>2. sync' \in [Syncs -> SyncRec] /\ loaded' \subseteq CallQueues /\ missed' \subseteq Seats \cup BoxTenants
        /\ (drops' = drops \/ Drops)
    <3>1. PICK q \in sync[j].queues :
            /\ Only(j)
            /\ \/ drops' = drops /\ loaded' = loaded \cup ({q} \cap Defined) /\ UNCHANGED missed
               \/ Drops /\ UNCHANGED loaded /\ missed' = missed \cup (sync[j].seats \cap SeatsOf(q))
      BY <1>6, LoadsEffect DEF TurnsTo
    <3>2. q \in CallQueues /\ sync[j].seats \subseteq Seats
      BY <3>1, SyncTyped DEF SyncRec
    <3>3. QED
      BY <3>1, <3>2 DEF Only, ProvisioningTypeOK
  <2>3. QED
    BY <1>0, <2>1, <2>2 DEF ProvisioningTypeOK, SyncRec
<1>7. ASSUME NEW j \in Syncs, AddsAgent(j)
      PROVE  ProvisioningTypeOK'
  <2>1. UNCHANGED <<remote, roster, active, trunks, gwFile, qFile, included, xml, gateways, loaded, tiers, crossed>>
    BY <1>7 DEF AddsAgent, rowsVars, boxFiles
  <2>2. PICK p \in sync[j].left :
          \/ /\ TurnsTo(j, "tier")
             /\ Works /\ status' = [status EXCEPT ![p[2]] = "Available"] /\ UNCHANGED missed
          \/ /\ Continues(j, p) /\ Drops /\ missed' = missed \cup {p}
             /\ \/ UNCHANGED status
                \/ status' = [status EXCEPT ![p[2]] = "Logged Out"]
    BY <1>7, AddsEffect
  <2>3. p \in Seats
    BY <2>2, SyncTyped DEF SyncRec
  <2>4. sync' \in [Syncs -> SyncRec]
    BY <2>2, ContinuesEffect DEF TurnsTo, Only
  <2>5. /\ status' \in [MemberExts -> {"none", "Logged Out", "Available"}] /\ missed' \subseteq Seats \cup BoxTenants
        /\ (drops' = drops \/ Drops)
    BY <2>2, <2>3 DEF Works, ProvisioningTypeOK
  <2>6. QED
    BY <1>0, <2>1, <2>4, <2>5 DEF ProvisioningTypeOK, SyncRec
<1>8. ASSUME NEW j \in Syncs, AddsTier(j)
      PROVE  ProvisioningTypeOK'
  <2>1. UNCHANGED <<remote, roster, active, trunks, gwFile, qFile, included, xml, gateways, loaded, status, crossed>>
    BY <1>8 DEF AddsTier, rowsVars, boxFiles
  <2>2. PICK p \in sync[j].left : p = sync[j].seat /\ p \in Seats
    BY <1>8, SyncTyped DEF MemberByMember, SyncRec, AddsTier
  <2>3. sync' \in [Syncs -> SyncRec]
    BY <1>8, <2>2, ContinuesEffect DEF AddsTier, TurnsTo, Only
  <2>4. tiers' \subseteq Seats /\ missed' \subseteq Seats \cup BoxTenants /\ (drops' = drops \/ Drops)
    BY <1>8, <2>2 DEF AddsTier, Works, ProvisioningTypeOK
  <2>5. QED
    BY <1>0, <2>1, <2>3, <2>4 DEF ProvisioningTypeOK, SyncRec
<1>9. QED
  BY <1>2, <1>3, <1>4, <1>5, <1>6, <1>7, <1>8 DEF ProvisioningNext

LEMMA ProvisioningStart == ProvisioningInit => ProvisioningInv
<1> SUFFICES ASSUME ProvisioningInit
             PROVE  ProvisioningInv
  OBVIOUS
<1>1. NotSyncing \in SyncRec /\ NotSyncing.at = "idle" /\ NotSyncing.left = {}
  BY ProvisioningAssumption DEF NotSyncing, SyncRec
<1>2. ProvisioningTypeOK
  <2>1. sync \in [Syncs -> SyncRec]
    BY <1>1 DEF ProvisioningInit
  <2>2. drops \in 0..MaxDrops
    BY ProvisioningAssumption DEF ProvisioningInit
  <2>3. QED
    BY <2>1, <2>2 DEF ProvisioningInit, ProvisioningTypeOK, SyncRec
<1>3. \A j \in Syncs : sync[j].at = "idle" /\ sync[j].left = {}
  BY <1>1 DEF ProvisioningInit
<1>4. QED
  BY <1>2, <1>3 DEF ProvisioningInit, ProvisioningInv, Crossing, Running, TrunksComing, SeatsComing, MemberByMember

LEMMA ProvisioningInvStep == ProvisioningInv /\ [ProvisioningNext]_provisioningVars => ProvisioningInv'
<1>1. ASSUME ProvisioningInv, UNCHANGED provisioningVars
      PROVE  ProvisioningInv'
  <2>1. UNCHANGED <<remote, roster, active, trunks, sync, gwFile, qFile, included, xml, gateways, loaded, status, tiers,
                    drops, missed, crossed>>
    BY <1>1 DEF provisioningVars, rowsVars, boxFiles, centerVars
  <2>2. ProvisioningTypeOK'
    BY <1>1, <2>1 DEF ProvisioningInv, ProvisioningTypeOK
  <2>3. Crossing'
    BY <1>1, <2>1 DEF ProvisioningInv, Crossing, Running
  <2>4. TrunksComing'
    BY <1>1, <2>1 DEF ProvisioningInv, TrunksComing, Brings
  <2>5. SeatsComing'
    BY <1>1, <2>1 DEF ProvisioningInv, SeatsComing, Covers
  <2>6. MemberByMember'
    BY <1>1, <2>1 DEF ProvisioningInv, MemberByMember
  <2>7. QED
    BY <2>2, <2>3, <2>4, <2>5, <2>6 DEF ProvisioningInv
<1>2. QED
  BY <1>1, ProvisioningTypeStep, PromisesStep DEF Promises, ProvisioningInv

\* The invariant of the syncs holds throughout.
THEOREM ProvisioningInvariant == ProvisioningSpec => []ProvisioningInv
BY ProvisioningStart, ProvisioningInvStep, PTL DEF ProvisioningSpec

\* Rows, files, gateways, agents and tiers keep their types, whatever overlaps or fails.
THEOREM ProvisioningTypeCorrect == ProvisioningSpec => []ProvisioningTypeOK
<1>1. ProvisioningInv => ProvisioningTypeOK
  BY DEF ProvisioningInv
<1>2. QED
  BY <1>1, ProvisioningInvariant, PTL

\* Once no sync runs, every seat and trunk the rows give has reached FreeSWITCH, but for
\* what a failed command or crossed files left out (fs-provisioning's apply, applyRemote
\* and provisionCallcenter).
THEOREM SeatsAndTrunksArrive == ProvisioningSpec => []QueuesStaffed
<1>1. ProvisioningInv => QueuesStaffed
  <2> SUFFICES ASSUME ProvisioningInv, \A j \in Syncs : ~Running(j)
               PROVE  /\ remote \/ crossed = {} => {p \in roster : p[1] \in active} \subseteq tiers \cup missed
                      /\ trunks \subseteq gateways \cup missed \cup crossed
    BY DEF QueuesStaffed
  <2>1. \A j \in Syncs : (\A p : ~Covers(j, p)) /\ \A t : ~Brings(j, t)
    BY DEF Covers, Brings, Running
  <2>2. QED
    BY <2>1 DEF ProvisioningInv, TrunksComing, SeatsComing
<1>2. QED
  BY <1>1, ProvisioningInvariant, PTL

\* Side by side, numbers and syncs keep FreeSWITCH with the rows.
THEOREM LiveFollows == NumberingSpec /\ ProvisioningSpec => []LiveFollowsRows
<1>1. LiveMatchesRows /\ QueuesStaffed => LiveFollowsRows
  BY DEF LiveFollowsRows
<1>2. QED
  BY <1>1, LiveMatches, SeatsAndTrunksArrive, PTL

-----------------------------------------------------------------------------
(***************************************************************************)
(* The routes.  A number of one use is found by the table, or the block,   *)
(* of that use and by no other, wherever it stands in the order.           *)
(***************************************************************************)
DialplanInv == DialplanTypeOK /\ IsFiniteSet(row)

LEMMA DialplanInvAlways == DialplanSpec => []DialplanInv
<1>1. DialplanInit => DialplanInv
  <2> SUFFICES ASSUME DialplanInit
               PROVE  DialplanInv
    OBVIOUS
  <2>1. IsFiniteSet(row) /\ Cardinality(row) = 0
    BY FS_EmptySet DEF DialplanInit
  <2>2. QED
    BY <2>1, DialplanAssumption DEF DialplanInit, DialplanInv, DialplanTypeOK
<1>2. DialplanInv /\ [DialplanNext]_row => DialplanInv'
  <2> SUFFICES ASSUME DialplanInv, [DialplanNext]_row
               PROVE  DialplanInv'
    OBVIOUS
  <2>1. row \subseteq PbxRows /\ IsFiniteSet(row) /\ Cardinality(row) \in Nat /\ Cardinality(row) <= MaxRows /\ MaxRows \in Nat
    BY FS_CardinalityType, DialplanAssumption DEF DialplanInv, DialplanTypeOK
  <2>2. CASE CreatesRow
    <3>1. PICK r \in PbxRows : row' = row \cup {r}
      BY <2>2 DEF CreatesRow
    <3>2. Cardinality(row) < MaxRows
      BY <2>2 DEF CreatesRow
    <3>3. IsFiniteSet(row') /\ (Cardinality(row') = Cardinality(row) \/ Cardinality(row') = Cardinality(row) + 1)
      BY <2>1, <3>1, FS_AddElement
    <3>4. QED
      BY <2>1, <3>1, <3>2, <3>3 DEF DialplanInv, DialplanTypeOK
  <2>3. CASE TogglesRow
    <3>1. PICK r \in row : row' = (row \ {r}) \cup {[r EXCEPT !.active = ~r.active]}
      BY <2>3 DEF TogglesRow
    <3>2. PICK k \in DOMAIN Kinds2Modes :
            r \in [tenant : Tenants, kind : {k}, number : Dialled, mode : Kinds2Modes[k], active : BOOLEAN]
      BY <2>1, <3>1 DEF PbxRows
    <3>3. PICK q : q = [r EXCEPT !.active = ~r.active]
      OBVIOUS
    <3>4. q \in [tenant : Tenants, kind : {k}, number : Dialled, mode : Kinds2Modes[k], active : BOOLEAN]
      BY <3>2, <3>3
    <3>5. q \in PbxRows /\ row' = (row \ {r}) \cup {q}
      BY <3>1, <3>2, <3>3, <3>4 DEF PbxRows
    <3>6. IsFiniteSet(row \ {r}) /\ Cardinality(row \ {r}) = Cardinality(row) - 1
      BY <2>1, <3>1, FS_RemoveElement
    <3>7. /\ IsFiniteSet(row')
          /\ Cardinality(row') = Cardinality(row \ {r}) \/ Cardinality(row') = Cardinality(row \ {r}) + 1
      BY <3>5, <3>6, FS_AddElement
    <3>8. QED
      BY <2>1, <3>5, <3>6, <3>7 DEF DialplanInv, DialplanTypeOK
  <2>4. CASE DeletesRow
    <3>1. PICK r \in row : row' = row \ {r}
      BY <2>4 DEF DeletesRow
    <3>2. IsFiniteSet(row \ {r}) /\ Cardinality(row \ {r}) = Cardinality(row) - 1
      BY <2>1, <3>1, FS_RemoveElement
    <3>3. QED
      BY <2>1, <3>1, <3>2 DEF DialplanInv, DialplanTypeOK
  <2>5. CASE UNCHANGED row
    BY <2>5 DEF DialplanInv, DialplanTypeOK
  <2>6. QED
    BY <2>2, <2>3, <2>4, <2>5 DEF DialplanNext
<1>3. QED
  BY <1>1, <1>2, PTL DEF DialplanSpec

\* The tables of buildRoute and the blocks of the files.
Tables == <<"user", "queue", "group", "ivr", "inbound">>
Blocks == <<"group", "inbound", "ivr", "queue", "time">>

LEMMA FirstOfFive ==
  \A S \in SUBSET (1..5) : S # {} => \E i \in S : \A j \in S : i <= j
<1> SUFFICES ASSUME NEW S \in SUBSET (1..5), S # {}
             PROVE  \E i \in S : \A j \in S : i <= j
  OBVIOUS
<1>1. S \subseteq {1, 2, 3, 4, 5}
  OBVIOUS
<1>2. CASE 1 \in S
  BY <1>1, <1>2
<1>3. CASE 1 \notin S /\ 2 \in S
  BY <1>1, <1>3
<1>4. CASE 1 \notin S /\ 2 \notin S /\ 3 \in S
  BY <1>1, <1>4
<1>5. CASE 1 \notin S /\ 2 \notin S /\ 3 \notin S /\ 4 \in S
  BY <1>1, <1>5
<1>6. CASE 1 \notin S /\ 2 \notin S /\ 3 \notin S /\ 4 \notin S
  <2>1. S = {5}
    BY <1>1, <1>6
  <2>2. QED
    BY <2>1
<1>7. QED
  BY <1>2, <1>3, <1>4, <1>5, <1>6

\* A number goes out unless a table knows it; the table found knows it.
LEMMA FirstKnows ==
  ASSUME NEW t, NEW d, NEW order, DOMAIN order = 1..5
  PROVE  \/ /\ FirstKind(t, d, order) = "outbound"
            /\ \A i \in 1..5 : Active(t, order[i], d) = {}
         \/ \E i \in 1..5 : FirstKind(t, d, order) = order[i] /\ Active(t, order[i], d) # {}
<1> DEFINE known == {i \in DOMAIN order : Active(t, order[i], d) # {}}
<1>1. CASE known = {}
  BY <1>1 DEF FirstKind
<1>2. CASE known # {}
  <2>1. known \in SUBSET (1..5)
    OBVIOUS
  <2>2. \E i \in known : \A j \in known : i <= j
    BY <1>2, <2>1, FirstOfFive
  <2>3. PICK i : i = CHOOSE n \in known : \A j \in known : n <= j
    OBVIOUS
  <2>4. i \in known /\ FirstKind(t, d, order) = order[i]
    BY <1>2, <2>2, <2>3 DEF FirstKind
  <2>5. QED
    BY <2>1, <2>4
<1>3. QED
  BY <1>1, <1>2

\* The same for the two orders, by name.
LEMMA FirstTable ==
  ASSUME NEW t, NEW d
  PROVE  \/ /\ FirstKind(t, d, Tables) = "outbound"
            /\ \A k \in {"user", "queue", "group", "ivr", "inbound"} : Active(t, k, d) = {}
         \/ /\ FirstKind(t, d, Tables) \in {"user", "queue", "group", "ivr", "inbound"}
            /\ Active(t, FirstKind(t, d, Tables), d) # {}
<1>1. /\ DOMAIN Tables = 1..5 /\ Tables[1] = "user" /\ Tables[2] = "queue" /\ Tables[3] = "group"
      /\ Tables[4] = "ivr" /\ Tables[5] = "inbound"
  BY DEF Tables
<1>2. \A i \in 1..5 : i = 1 \/ i = 2 \/ i = 3 \/ i = 4 \/ i = 5
  OBVIOUS
<1>3. \/ /\ FirstKind(t, d, Tables) = "outbound"
         /\ \A i \in 1..5 : Active(t, Tables[i], d) = {}
      \/ \E i \in 1..5 : FirstKind(t, d, Tables) = Tables[i] /\ Active(t, Tables[i], d) # {}
  BY <1>1, FirstKnows
<1>4. QED
  BY <1>1, <1>2, <1>3

LEMMA FirstBlock ==
  ASSUME NEW t, NEW d
  PROVE  \/ /\ FirstKind(t, d, Blocks) = "outbound"
            /\ \A k \in {"group", "inbound", "ivr", "queue", "time"} : Active(t, k, d) = {}
         \/ /\ FirstKind(t, d, Blocks) \in {"group", "inbound", "ivr", "queue", "time"}
            /\ Active(t, FirstKind(t, d, Blocks), d) # {}
<1>1. /\ DOMAIN Blocks = 1..5 /\ Blocks[1] = "group" /\ Blocks[2] = "inbound" /\ Blocks[3] = "ivr"
      /\ Blocks[4] = "queue" /\ Blocks[5] = "time"
  BY DEF Blocks
<1>2. \A i \in 1..5 : i = 1 \/ i = 2 \/ i = 3 \/ i = 4 \/ i = 5
  OBVIOUS
<1>3. \/ /\ FirstKind(t, d, Blocks) = "outbound"
         /\ \A i \in 1..5 : Active(t, Blocks[i], d) = {}
      \/ \E i \in 1..5 : FirstKind(t, d, Blocks) = Blocks[i] /\ Active(t, Blocks[i], d) # {}
  BY <1>1, FirstKnows
<1>4. QED
  BY <1>1, <1>2, <1>3

LEMMA OneUse ==
  \A S : IsFiniteSet(S) /\ Cardinality(S) <= 1 => \A x, y \in S : x = y
<1> SUFFICES ASSUME NEW S, IsFiniteSet(S), Cardinality(S) <= 1, NEW x \in S, NEW y \in S, x # y
             PROVE  FALSE
  OBVIOUS
<1>1. Cardinality(S) \in Nat /\ IsFiniteSet(S \ {x}) /\ Cardinality(S \ {x}) = Cardinality(S) - 1
  BY FS_CardinalityType, FS_RemoveElement
<1>2. y \in S \ {x}
  OBVIOUS
<1>3. Cardinality(S \ {x}) \in Nat /\ Cardinality(S \ {x}) # 0
  BY <1>1, <1>2, FS_CardinalityType, FS_EmptySet
<1>4. QED
  BY <1>1, <1>3

\* A number of one use, of a kind both generators look for, is routed alike.
LEMMA OneUseRoutes ==
  ASSUME DialplanInv, NEW t, NEW d,
         Cardinality({r \in row : r.tenant = t /\ r.number = d /\ r.kind \notin {"campaign", "trunk"}}) <= 1,
         \A r \in {r \in row : r.tenant = t /\ r.number = d /\ r.kind \notin {"campaign", "trunk"}} : r.kind \notin {"user", "time"}
  PROVE  buildRoute(t, d) = dialplanXml(t, d)
<1> DEFINE uses == {r \in row : r.tenant = t /\ r.number = d /\ r.kind \notin {"campaign", "trunk"}}
<1>1. \A r, q \in uses : r = q
  <2>1. IsFiniteSet(uses)
    BY FS_Subset DEF DialplanInv
  <2>2. QED
    BY <2>1, OneUse
<1>2. \A k : k \notin {"campaign", "trunk"} /\ Active(t, k, d) # {} => \E r \in uses : r.kind = k
  BY DEF Active, RowsOf
<1>3. Active(t, "user", d) = {} /\ Active(t, "time", d) = {}
  <2>1. \A r \in uses : r.kind # "user" /\ r.kind # "time"
    OBVIOUS
  <2>2. QED
    BY <1>2, <2>1
<1>4. \A k, l : /\ k \notin {"campaign", "trunk"} /\ l \notin {"campaign", "trunk"}
                /\ Active(t, k, d) # {} /\ Active(t, l, d) # {}
             => k = l
  <2> SUFFICES ASSUME NEW k, NEW l, k \notin {"campaign", "trunk"}, l \notin {"campaign", "trunk"},
                      Active(t, k, d) # {}, Active(t, l, d) # {}
               PROVE  k = l
    OBVIOUS
  <2>1. PICK r \in uses : r.kind = k
    BY <1>2
  <2>2. PICK q \in uses : q.kind = l
    BY <1>2
  <2>3. r = q
    BY <1>1
  <2>4. QED
    BY <2>1, <2>2, <2>3
<1>5. FirstKind(t, d, Tables) = FirstKind(t, d, Blocks)
  BY <1>3, <1>4, FirstTable, FirstBlock
<1>6. QED
  BY <1>5 DEF buildRoute, dialplanXml, Tables, Blocks

\* A call goes into a queue only when the queue has an active row.
LEMMA RoutedToQueue ==
  ASSUME NEW t, NEW d, buildRoute(t, d)[1] = "queue"
  PROVE  Active(t, "queue", d) # {}
<1> DEFINE k == FirstKind(t, d, Tables)
<1>1. buildRoute(t, d) = block(t, d, k)
  BY DEF buildRoute, Tables
<1>2. k = "queue" => Active(t, "queue", d) # {}
  BY FirstTable
<1>3. k # "queue" => block(t, d, k)[1] # "queue"
  <2> HIDE DEF k
  <2>1. outbound(t, d)[1] # "queue"
    BY DEF outbound, NoRoute
  <2>2. QED
    BY <2>1 DEF block
<1>4. QED
  BY <1>1, <1>2, <1>3

\* Rows keep their type and their number.
THEOREM DialplanTypeCorrect == DialplanSpec => []DialplanTypeOK
<1>1. DialplanInv => DialplanTypeOK
  BY DEF DialplanInv
<1>2. QED
  BY <1>1, DialplanInvAlways, PTL

\* For any rows, however they came about, the answers over xml_curl and the files agree:
\* on who may register, on the routes of numbers of one use, and on the queues they name.
THEOREM RoutesAgree == DialplanSpec => []GeneratorsAgree
<1>1. DialplanInv => GeneratorsAgree
  <2> SUFFICES ASSUME DialplanInv
               PROVE  GeneratorsAgree
    OBVIOUS
  <2>1. ASSUME NEW t, NEW d \in Dialled
        PROVE  AgreeOn(t, d)
    <3>1. directory(t, d) <=> d \in directoryXml(t)
      BY DialplanAssumption DEF directory, directoryXml, Active, RowsOf, Dialled
    <3>2. LET uses == {r \in row : r.tenant = t /\ r.number = d /\ r.kind \notin {"campaign", "trunk"}}
          IN  Cardinality(uses) <= 1 /\ (\A r \in uses : r.kind \notin {"user", "time"})
                => buildRoute(t, d) = dialplanXml(t, d)
      BY OneUseRoutes
    <3>3. buildRoute(t, d)[1] = "queue" => <<"q", t, d>> \in configuration \cap callcenterQueuesXml(t)
      <4> SUFFICES ASSUME buildRoute(t, d)[1] = "queue"
                   PROVE  <<"q", t, d>> \in configuration \cap callcenterQueuesXml(t)
        OBVIOUS
      <4>1. PICK r \in row : r.tenant = t /\ r.kind = "queue" /\ r.number = d /\ r.active
        BY RoutedToQueue DEF Active, RowsOf
      <4>2. QED
        BY <4>1 DEF configuration, callcenterQueuesXml
    <3>4. (\E r \in RowsOf(t, "campaign", d) : r.mode = "Predictive") => ccxRoute(t, d) \in configuration
      BY DEF RowsOf, ccxRoute, configuration
    <3>5. QED
      BY <3>1, <3>2, <3>3, <3>4 DEF AgreeOn
  <2>2. QED
    BY <2>1 DEF GeneratorsAgree
<1>2. QED
  BY <1>1, DialplanInvAlways, PTL
-----------------------------------------------------------------------------
(***************************************************************************)
(* The counters of a Predictive run. CountsAreRight is not inductive: that *)
(* a bridged call counts once rests on bridgedMembers being exactly the    *)
(* members now talking to an agent, and that no event of an earlier run is *)
(* counted on every member in the queue being of this run. That the        *)
(* counters stay in their type holds of tainted runs too, and there it     *)
(* rests on each member reaching an agent and leaving the queue at most    *)
(* once.                                                                   *)
(***************************************************************************)
\* Members that have reached an agent, and that have left the queue, in any run.
EverReached == {m \in Members : member[m].at \in {"bridged", "served"}}
EverGone    == {m \in Members : member[m].at \in {"served", "dropped"}}

\* Each member counts at most once for each of the two counters.
CountedOnce ==
  /\ bridged <= Cardinality(EverReached)
  /\ abandoned <= Cardinality(EverGone)

\* A member belongs to a run that was made, or has not called yet.
RunsOfMembers ==
  \A m \in Members : /\ member[m].run <= made
                     /\ member[m].at = "none" => member[m].run = 0

\* Nothing missed: the run knows its bridged members, and only its own are there.
KnowsItsMembers ==
  ~tainted =>
    /\ bridgedMembers = {m \in OfThisRun : member[m].at = "bridged"}
    /\ \A m \in Members : InQueue(m) => member[m].run = made

EventsInv ==
  /\ TypeOK
  /\ CountedOnce
  /\ RunsOfMembers
  /\ KnowsItsMembers
  /\ CountsAreRight

-----------------------------------------------------------------------------
\* A set of members has a size, at most that of Members.
LEMMA SizeOfMembers ==
  ASSUME NEW S \in SUBSET Members
  PROVE  IsFiniteSet(S) /\ Cardinality(S) \in Nat /\ Cardinality(S) <= Cardinality(Members)
<1>1. IsFiniteSet(Members)
  BY EventsAssumption
<1>2. QED
  BY <1>1, FS_Subset, FS_CardinalityType

\* One member more makes the set one larger.
LEMMA OneMore ==
  ASSUME NEW S \in SUBSET Members, NEW m \in Members, m \notin S
  PROVE  Cardinality(S \cup {m}) = Cardinality(S) + 1
BY SizeOfMembers, FS_AddElement

\* Dials that were answered, and dials that have resolved, are numbers.
LEMMA DialsAreCounted ==
  ASSUME TypeOK
  PROVE  answered \in Nat /\ dialed \in Nat
<1>1. OfThisRun \in SUBSET Members
  BY DEF OfThisRun
<1>2. answered \in Nat
  BY <1>1, SizeOfMembers DEF answered
<1>3. QED
  BY <1>2, EventsAssumption DEF dialed, TypeOK

-----------------------------------------------------------------------------
LEMMA EventsInitInv == Init => EventsInv
<1> SUFFICES ASSUME Init
             PROVE  EventsInv
  OBVIOUS
<1>1. Cardinality({}) = 0 /\ Cardinality(Members) \in Nat
  BY FS_EmptySet, SizeOfMembers
<1>2. \A m \in Members : member[m].run = 0 /\ member[m].at = "none"
  BY DEF Init
<1>3. TypeOK
  <2>1. member \in [Members -> [run : 0..MaxRuns, at : Whereabouts]]
    BY EventsAssumption DEF Init, Whereabouts
  <2>2. made \in 1..MaxRuns /\ failed \in 0..MaxFailed /\ ratio \in 100..MaxRatio
    BY EventsAssumption DEF Init
  <2>3. bridged \in 0..Cardinality(Members) /\ abandoned \in 0..Cardinality(Members)
    BY <1>1 DEF Init
  <2>4. up \in BOOLEAN /\ tainted \in BOOLEAN /\ bridgedMembers \subseteq Members
    BY DEF Init
  <2>5. QED
    BY <2>1, <2>2, <2>3, <2>4 DEF TypeOK
<1>4. EverReached = {} /\ EverGone = {} /\ OfThisRun = {} /\ Reached = {} /\ Dropped = {}
  BY <1>2 DEF EverReached, EverGone, OfThisRun, Reached, Dropped, Init
<1>5. CountedOnce /\ CountsAreRight
  BY <1>1, <1>4 DEF Init, CountedOnce, CountsAreRight
<1>6. RunsOfMembers /\ KnowsItsMembers
  BY <1>2, <1>4 DEF Init, RunsOfMembers, KnowsItsMembers, InQueue
<1>7. QED
  BY <1>3, <1>5, <1>6 DEF EventsInv

\* A dial is answered: a new member, of this run, that has reached nobody.
LEMMA AnsweredInv ==
  ASSUME EventsInv, NEW m \in Members, DialAnswered(m)
  PROVE  EventsInv'
<1> USE DEF counters
<1>1. member' = [member EXCEPT ![m] = [run |-> made, at |-> "queued"]] /\ member[m].at = "none"
  BY DEF DialAnswered
<1>2. /\ \A k \in Members \ {m} : member'[k] = member[k]
      /\ member'[m] = [run |-> made, at |-> "queued"]
  BY <1>1 DEF EventsInv, TypeOK
<1>3. TypeOK'
  BY <1>1, EventsAssumption DEF EventsInv, TypeOK, DialAnswered, Whereabouts
<1>4. EverReached' = EverReached /\ EverGone' = EverGone
  BY <1>1, <1>2 DEF EverReached, EverGone
<1>5. /\ \A k \in Members : member[k].run = made <=> k \in OfThisRun
      /\ OfThisRun' = OfThisRun \cup {m}
      /\ Reached' = Reached /\ Dropped' = Dropped
  BY <1>1, <1>2 DEF OfThisRun, Reached, Dropped, DialAnswered
<1>6. CountedOnce' /\ CountsAreRight'
  BY <1>4, <1>5 DEF EventsInv, CountedOnce, CountsAreRight, DialAnswered
<1>7. RunsOfMembers' /\ KnowsItsMembers'
  BY <1>1, <1>2 DEF EventsInv, TypeOK, RunsOfMembers, KnowsItsMembers, DialAnswered, InQueue, OfThisRun
<1>8. QED
  BY <1>3, <1>6, <1>7 DEF EventsInv

\* A member reaches an agent: it counts once, if the event arrives.
LEMMA ReachesAgentInv ==
  ASSUME EventsInv, NEW m \in Members, ReachesAgent(m)
  PROVE  EventsInv'
<1> USE DEF counters
<1>1. /\ member[m].at = "queued"
      /\ \A k \in Members \ {m} : member'[k] = member[k]
      /\ member'[m].run = member[m].run /\ member'[m].at = "bridged"
      /\ member' \in [Members -> [run : 0..MaxRuns, at : Whereabouts]]
      /\ made' = made /\ failed' = failed /\ abandoned' = abandoned /\ ratio' = ratio
  BY DEF EventsInv, TypeOK, Whereabouts, ReachesAgent, BridgeAgentStart, EventLost
<1>2. bridged' \in {bridged, bridged + 1}
  BY DEF ReachesAgent, BridgeAgentStart, EventLost
<1>3. /\ EverReached' = EverReached \cup {m} /\ m \notin EverReached
      /\ EverGone' = EverGone
  BY <1>1 DEF EverReached, EverGone
<1>4. EverReached \in SUBSET Members /\ EverReached' \in SUBSET Members
  BY DEF EverReached
<1>5. CountedOnce'
  BY <1>1, <1>2, <1>3, <1>4, OneMore, SizeOfMembers DEF EventsInv, TypeOK, CountedOnce
<1>6. TypeOK'
  <2>1. bridged' \in 0..Cardinality(Members)
    BY <1>2, <1>4, <1>5, SizeOfMembers DEF EventsInv, TypeOK, CountedOnce
  <2>2. up' \in BOOLEAN /\ tainted' \in BOOLEAN /\ bridgedMembers' \subseteq Members
    BY DEF EventsInv, TypeOK, ReachesAgent, BridgeAgentStart, EventLost
  <2>3. QED
    BY <1>1, <2>1, <2>2 DEF EventsInv, TypeOK
<1>7. RunsOfMembers'
  BY <1>1 DEF EventsInv, RunsOfMembers
<1>8. KnowsItsMembers' /\ CountsAreRight'
  <2> SUFFICES ASSUME ~tainted'
               PROVE  KnowsItsMembers' /\ CountsAreRight'
    BY DEF KnowsItsMembers, CountsAreRight
  <2>1. ~tainted
    BY DEF ReachesAgent, EventLost
  <2>2. member[m].run = made
    BY <1>1, <2>1 DEF EventsInv, KnowsItsMembers, InQueue
  <2>3. up
    BY <2>2 DEF ReachesAgent, EventLost
  <2>4. m \notin bridgedMembers
    BY <1>1, <2>1 DEF EventsInv, KnowsItsMembers
  <2>5. bridged' = bridged + 1 /\ bridgedMembers' = bridgedMembers \cup {m}
    BY <2>3, <2>4 DEF ReachesAgent, BridgeAgentStart
  <2>6. /\ OfThisRun' = OfThisRun
        /\ Reached' = Reached \cup {m} /\ m \notin Reached /\ Dropped' = Dropped
    BY <1>1, <2>2 DEF OfThisRun, Reached, Dropped
  <2>7. KnowsItsMembers'
    BY <1>1, <2>1, <2>2, <2>5, <2>6 DEF EventsInv, KnowsItsMembers, OfThisRun, InQueue
  <2>8. Cardinality(Reached') = Cardinality(Reached) + 1
    BY <2>6, OneMore DEF Reached, OfThisRun
  <2>9. QED
    BY <1>1, <2>1, <2>5, <2>6, <2>7, <2>8 DEF EventsInv, CountsAreRight
<1>9. QED
  BY <1>5, <1>6, <1>7, <1>8 DEF EventsInv

\* A member leaves the queue: abandoned if the run never saw it with an agent.
LEMMA LeavesQueueInv ==
  ASSUME EventsInv, NEW m \in Members, LeavesQueue(m)
  PROVE  EventsInv'
<1> USE DEF counters
<1> DEFINE where == IF member[m].at = "bridged" THEN "served" ELSE "dropped"
<1>1. /\ InQueue(m)
      /\ \A k \in Members \ {m} : member'[k] = member[k]
      /\ member'[m].run = member[m].run /\ member'[m].at = where
      /\ member' \in [Members -> [run : 0..MaxRuns, at : Whereabouts]]
      /\ made' = made /\ failed' = failed /\ bridged' = bridged /\ ratio' = ratio
  BY DEF EventsInv, TypeOK, Whereabouts, LeavesQueue, MemberQueueEnd, EventLost
<1>2. abandoned' \in {abandoned, abandoned + 1}
  BY DEF LeavesQueue, MemberQueueEnd, EventLost
<1>3. /\ EverReached' = EverReached
      /\ EverGone' = EverGone \cup {m} /\ m \notin EverGone
  BY <1>1 DEF EverReached, EverGone, InQueue
<1>4. EverGone \in SUBSET Members /\ EverGone' \in SUBSET Members
  BY DEF EverGone
<1>5. CountedOnce'
  BY <1>1, <1>2, <1>3, <1>4, OneMore, SizeOfMembers DEF EventsInv, TypeOK, CountedOnce
<1>6. TypeOK'
  <2>1. abandoned' \in 0..Cardinality(Members)
    BY <1>2, <1>4, <1>5, SizeOfMembers DEF EventsInv, TypeOK, CountedOnce
  <2>2. up' \in BOOLEAN /\ tainted' \in BOOLEAN /\ bridgedMembers' \subseteq Members
    BY DEF EventsInv, TypeOK, LeavesQueue, MemberQueueEnd, EventLost
  <2>3. QED
    BY <1>1, <2>1, <2>2 DEF EventsInv, TypeOK
<1>7. RunsOfMembers'
  BY <1>1 DEF EventsInv, RunsOfMembers
<1>8. KnowsItsMembers' /\ CountsAreRight'
  <2> SUFFICES ASSUME ~tainted'
               PROVE  KnowsItsMembers' /\ CountsAreRight'
    BY DEF KnowsItsMembers, CountsAreRight
  <2>1. ~tainted
    BY DEF LeavesQueue, EventLost
  <2>2. member[m].run = made
    BY <1>1, <2>1 DEF EventsInv, KnowsItsMembers
  <2>3. up
    BY <2>2 DEF LeavesQueue, EventLost
  <2>4. m \in bridgedMembers <=> member[m].at = "bridged"
    BY <2>1, <2>2 DEF EventsInv, KnowsItsMembers, OfThisRun
  <2>5. /\ bridgedMembers' = bridgedMembers \ {m}
        /\ abandoned' = IF member[m].at = "bridged" THEN abandoned ELSE abandoned + 1
    BY <2>3, <2>4 DEF LeavesQueue, MemberQueueEnd
  <2>6. OfThisRun' = OfThisRun /\ m \in OfThisRun /\ OfThisRun \subseteq Members
    BY <1>1, <2>2 DEF OfThisRun
  <2>7. KnowsItsMembers'
    BY <1>1, <2>1, <2>2, <2>5, <2>6 DEF EventsInv, KnowsItsMembers, OfThisRun, InQueue
  <2>8. CASE member[m].at = "bridged"
    <3>1. member'[m].at = "served"
      BY <1>1, <2>8
    <3>2. Reached' = Reached /\ Dropped' = Dropped
      BY <1>1, <2>6, <2>8, <3>1 DEF Reached, Dropped
    <3>3. QED
      BY <1>1, <2>1, <2>5, <2>7, <2>8, <3>2 DEF EventsInv, CountsAreRight
  <2>9. CASE member[m].at = "queued"
    <3>1. member'[m].at = "dropped"
      BY <1>1, <2>9
    <3>2. Reached' = Reached
      BY <1>1, <2>6, <2>9, <3>1 DEF Reached
    <3>3. Dropped' = Dropped \cup {m} /\ m \notin Dropped
      BY <1>1, <2>6, <2>9, <3>1 DEF Dropped
    <3>4. Cardinality(Dropped') = Cardinality(Dropped) + 1
      BY <3>3, OneMore DEF Dropped, OfThisRun
    <3>5. QED
      BY <1>1, <2>1, <2>5, <2>7, <2>9, <3>2, <3>4 DEF EventsInv, CountsAreRight
  <2>10. QED
    BY <1>1, <2>8, <2>9 DEF InQueue
<1>9. QED
  BY <1>5, <1>6, <1>7, <1>8 DEF EventsInv

\* The steps that touch no member and no counter.
LEMMA QuietInv ==
  ASSUME EventsInv, DialFailed \/ SocketDrops \/ Resubscribe \/ Tick
  PROVE  EventsInv'
<1> USE DEF counters
<1>1. UNCHANGED <<made, member, counters, tainted>>
  BY DEF DialFailed, SocketDrops, Resubscribe, Tick
<1>2. ratio' \in 100..MaxRatio
  <2>1. CASE Tick
    <3>1. MaxRatio >= 100 /\ ratio \in Int /\ abandoned \in Nat
      BY EventsAssumption DEF EventsInv, TypeOK
    <3>2. QED
      BY <2>1, <3>1, DialsAreCounted, RatioInRange, EventsAssumption DEF EventsInv, Tick
  <2>2. CASE ~Tick
    BY <2>2 DEF EventsInv, TypeOK, DialFailed, SocketDrops, Resubscribe
  <2>3. QED
    BY <2>1, <2>2
<1>3. failed' \in 0..MaxFailed /\ up' \in BOOLEAN
  <2>1. CASE DialFailed
    BY <2>1, EventsAssumption DEF EventsInv, TypeOK, DialFailed
  <2>2. CASE SocketDrops \/ Resubscribe \/ Tick
    BY <2>2 DEF EventsInv, TypeOK, SocketDrops, Resubscribe, Tick
  <2>3. QED
    BY <2>1, <2>2
<1>4. TypeOK'
  BY <1>1, <1>2, <1>3 DEF EventsInv, TypeOK
<1>5. EverReached' = EverReached /\ EverGone' = EverGone /\ OfThisRun' = OfThisRun
  BY <1>1 DEF EverReached, EverGone, OfThisRun
<1>6. Reached' = Reached /\ Dropped' = Dropped
  BY <1>1, <1>5 DEF Reached, Dropped
<1>7. CountedOnce' /\ RunsOfMembers' /\ KnowsItsMembers' /\ CountsAreRight'
  BY <1>1, <1>5, <1>6 DEF EventsInv, CountedOnce, RunsOfMembers, KnowsItsMembers, CountsAreRight, InQueue
<1>8. QED
  BY <1>4, <1>7 DEF EventsInv

\* The next run: nobody is of it yet, and it is tainted if the queue is not empty.
LEMMA NewRunInv ==
  ASSUME EventsInv, NewRun
  PROVE  EventsInv'
<1> USE DEF counters
<1>1. /\ member' = member /\ made' = made + 1 /\ made' \in 1..MaxRuns
      /\ bridged' = 0 /\ abandoned' = 0 /\ bridgedMembers' = {}
  BY EventsAssumption DEF EventsInv, TypeOK, NewRun
<1>2. Cardinality({}) = 0 /\ Cardinality(Members) \in Nat
  BY FS_EmptySet, SizeOfMembers
<1>3. TypeOK'
  BY <1>1, <1>2, EventsAssumption DEF EventsInv, TypeOK, NewRun
<1>4. \A m \in Members : member'[m].run < made'
  BY <1>1 DEF EventsInv, TypeOK, RunsOfMembers
<1>5. OfThisRun' = {} /\ Reached' = {} /\ Dropped' = {}
  BY <1>1, <1>4 DEF EventsInv, TypeOK, OfThisRun, Reached, Dropped
<1>6. EverReached' \in SUBSET Members /\ EverGone' \in SUBSET Members
  BY DEF EverReached, EverGone
<1>7. CountedOnce' /\ CountsAreRight'
  BY <1>1, <1>2, <1>5, <1>6, SizeOfMembers DEF CountedOnce, CountsAreRight
<1>8. RunsOfMembers' /\ KnowsItsMembers'
  BY <1>1, <1>4, <1>5 DEF EventsInv, TypeOK, RunsOfMembers, KnowsItsMembers, NewRun, InQueue
<1>9. QED
  BY <1>3, <1>7, <1>8 DEF EventsInv

LEMMA EventsNextInv == EventsInv /\ [Next]_vars => EventsInv'
<1> SUFFICES ASSUME EventsInv, [Next]_vars
             PROVE  EventsInv'
  OBVIOUS
<1>1. CASE \E m \in Members : DialAnswered(m) \/ ReachesAgent(m) \/ LeavesQueue(m)
  BY <1>1, AnsweredInv, ReachesAgentInv, LeavesQueueInv
<1>2. CASE DialFailed \/ SocketDrops \/ Resubscribe \/ Tick
  BY <1>2, QuietInv
<1>3. CASE NewRun
  BY <1>3, NewRunInv
<1>4. CASE UNCHANGED vars
  <2>1. EverReached' = EverReached /\ EverGone' = EverGone /\ OfThisRun' = OfThisRun
    BY <1>4 DEF vars, counters, EverReached, EverGone, OfThisRun
  <2>2. Reached' = Reached /\ Dropped' = Dropped
    BY <1>4, <2>1 DEF vars, Reached, Dropped
  <2>3. QED
    BY <1>4, <2>1, <2>2 DEF vars, counters, EventsInv, TypeOK, CountedOnce, RunsOfMembers,
                            KnowsItsMembers, CountsAreRight, InQueue
<1>5. QED
  BY <1>1, <1>2, <1>3, <1>4 DEF Next

\* handleCallcenterEvent: the counters of the current run stay within the number
\* of members, the ratio within [1, MAX_OVERDIAL_RATIO], whatever is lost.
THEOREM EventsTypeCorrect == Spec => []TypeOK
<1>1. EventsInv => TypeOK
  BY DEF EventsInv
<1>2. QED
  BY EventsInitInv, EventsNextInv, <1>1, PTL DEF Spec

\* handleCallcenterEvent: with no event lost and the queue empty at its start, a
\* run's bridged and abandoned are the members that reached an agent and the
\* members that gave up, each once, however the calls interleave.
THEOREM CountersAreTheFacts == Spec => []CountsAreRight
<1>1. EventsInv => CountsAreRight
  BY DEF EventsInv
<1>2. QED
  BY EventsInitInv, EventsNextInv, <1>1, PTL DEF Spec

-----------------------------------------------------------------------------
(***************************************************************************)
(* Roles. The permissions of a role, and those on a form, are whole: each  *)
(* has those it needs. No chain of needs is longer than two, so two turns  *)
(* of resolvePermissionDeps' loop leave nothing out, and what depsOf and   *)
(* dependentsOf reach in two steps is everything.                          *)
(***************************************************************************)

LEMMA MaxOfFour ==
  /\ \A s \in SUBSET (1..4) : 4 \in s => Max(s) = 4
  /\ \A s \in SUBSET (1..3) : 3 \in s => Max(s) = 3
  /\ \A s \in SUBSET (1..2) : 2 \in s => Max(s) = 2
  /\ \A s \in SUBSET (1..1) : 1 \in s => Max(s) = 1
<1>1. ASSUME NEW k \in 1..4, NEW s \in SUBSET (1..k), k \in s
      PROVE  Max(s) = k
  <2> DEFINE Big(x) == x \in s /\ \A y \in s : x >= y
  <2>1. Big(k)
    BY <1>1
  <2>2. Max(s) = CHOOSE x : Big(x)
    BY DEF Max
  <2>3. Big(CHOOSE x : Big(x))
    BY <2>1
  <2>4. \A x : Big(x) => x = k
    BY <1>1
  <2>5. QED
    BY <2>2, <2>3, <2>4
<1>2. 1 \in 1..4 /\ 2 \in 1..4 /\ 3 \in 1..4 /\ 4 \in 1..4
  OBVIOUS
<1>3. QED
  BY <1>1, <1>2

LEMMA PassIs ==
  ASSUME NEW perms
  PROVE  pass(perms) = Added(Added(Added(Added(perms, PERMISSION_DEPS[1]), PERMISSION_DEPS[2]), PERMISSION_DEPS[3]), PERMISSION_DEPS[4])
<1> DEFINE D == DOMAIN PERMISSION_DEPS
           When(s, i, on) == IF i \in s THEN Added(on, PERMISSION_DEPS[i]) ELSE on
           W(s) == When(s, 4, When(s, 3, When(s, 2, When(s, 1, perms))))
           Wit == [s \in SUBSET D |-> W(s)]
           Body(g, s) == IF s = {} THEN perms ELSE Added(g[s \ {Max(s)}], PERMISSION_DEPS[Max(s)])
           Eq(g) == g = [s \in SUBSET D |-> Body(g, s)]
<1>1. D = 1..4
  BY DEF PERMISSION_DEPS
<1>2. ASSUME NEW s \in SUBSET D PROVE W(s) = Body(Wit, s)
  <2>1. CASE 4 \in s
    BY <1>1, <2>1, MaxOfFour
  <2>2. CASE 4 \notin s /\ 3 \in s
    BY <1>1, <2>2, MaxOfFour
  <2>3. CASE 4 \notin s /\ 3 \notin s /\ 2 \in s
    BY <1>1, <2>3, MaxOfFour
  <2>4. CASE s = {1}
    BY <1>1, <2>4, MaxOfFour
  <2>5. CASE s = {}
    BY <1>1, <2>5
  <2>6. QED
    BY <1>1, <2>1, <2>2, <2>3, <2>4, <2>5
<1>3. Eq(Wit)
  <2> HIDE DEF W, Body
  <2>1. Wit = [s \in SUBSET D |-> W(s)]
    OBVIOUS
  <2> HIDE DEF Wit
  <2>2. [s \in SUBSET D |-> W(s)] = [s \in SUBSET D |-> Body(Wit, s)]
    BY <1>2
  <2>3. QED
    BY <2>1, <2>2
<1>4. Eq(CHOOSE g : Eq(g))
  BY <1>3, Zenon
<1>5. pass(perms) = (CHOOSE g : Eq(g))[D]
  BY DEF pass, FoldLeft, MapThenFoldSet, Added
<1>6. PICK G : Eq(G) /\ pass(perms) = G[D]
  <2> HIDE DEF Eq
  <2>1. QED
    BY <1>4, <1>5
<1>7. G = [s \in SUBSET D |-> Body(G, s)]
  BY <1>6
<1>8. \A s \in SUBSET D : G[s] = Body(G, s)
  <2> HIDE DEF Body
  <2>1. QED
    BY <1>7
<1>9. /\ Max(1..4) = 4 /\ Max(1..3) = 3 /\ Max(1..2) = 2 /\ Max(1..1) = 1
      /\ (1..4) \ {4} = 1..3 /\ (1..3) \ {3} = 1..2 /\ (1..2) \ {2} = 1..1 /\ (1..1) \ {1} = {}
  BY MaxOfFour
<1>10. \A k \in 1..4 : 1..k \in SUBSET D /\ 1..k # {}
  BY <1>1
<1>11. G[{}] = perms
  BY <1>8
<1>12. \A k \in 1..4 : G[1..k] = Added(G[(1..k) \ {Max(1..k)}], PERMISSION_DEPS[Max(1..k)])
  BY <1>8, <1>10
<1>13. QED
  BY <1>6, <1>9, <1>11, <1>12, <1>1

\* A set of permissions that grants what it depends on, and the one it takes: two turns
\* of the loop are enough, since nothing depends on what depends on something.
Whole(perms) == \A d \in ToSet(PERMISSION_DEPS) : d[1] \in perms => d[2] \in perms

LEMMA TheTable ==
  /\ PERMISSION_DEPS[1] = <<"softphone", "contacts">> /\ PERMISSION_DEPS[2] = <<"live", "softphone">>
  /\ PERMISSION_DEPS[3] = <<"campaigns", "contacts">> /\ PERMISSION_DEPS[4] = <<"team_scope", "team">>
  /\ ToSet(PERMISSION_DEPS) = { <<"softphone", "contacts">>, <<"live", "softphone">>,
                                <<"campaigns", "contacts">>, <<"team_scope", "team">> }
  /\ Permissions = {"softphone", "contacts", "live", "campaigns", "team_scope", "team"}
<1>1. ToSet(PERMISSION_DEPS) = { <<"softphone", "contacts">>, <<"live", "softphone">>,
                                <<"campaigns", "contacts">>, <<"team_scope", "team">> }
  <2>1. DOMAIN PERMISSION_DEPS = {1, 2, 3, 4}
    BY DEF PERMISSION_DEPS
  <2>2. QED
    BY <2>1 DEF PERMISSION_DEPS, ToSet
<1>2. QED
  BY <1>1 DEF PERMISSION_DEPS, Permissions

LEMMA PassOf ==
  ASSUME NEW perms \in SUBSET Permissions
  PROVE  /\ pass(perms) \in SUBSET Permissions
         /\ pass(perms) = perms <=> Whole(perms)
         /\ Whole(pass(pass(perms)))
<1> DEFINE Turn(on) == Added(Added(Added(Added(on, PERMISSION_DEPS[1]), PERMISSION_DEPS[2]), PERMISSION_DEPS[3]), PERMISSION_DEPS[4])
<1>1. ASSUME NEW on, NEW x
      PROVE  x \in Turn(on) <=> \/ x \in on
                                \/ x = "contacts" /\ ("softphone" \in on \/ "campaigns" \in on)
                                \/ x = "softphone" /\ "live" \in on
                                \/ x = "team" /\ "team_scope" \in on
  <2> DEFINE A == Added(on, <<"softphone", "contacts">>)
             B == Added(A, <<"live", "softphone">>)
             C == Added(B, <<"campaigns", "contacts">>)
  <2>1. \A y : y \in A <=> y \in on \/ (y = "contacts" /\ "softphone" \in on)
    BY DEF Added
  <2>2. \A y : y \in B <=> y \in A \/ (y = "softphone" /\ "live" \in A)
    BY DEF Added
  <2>3. \A y : y \in C <=> y \in B \/ (y = "contacts" /\ "campaigns" \in B)
    BY DEF Added
  <2>4. x \in Added(C, <<"team_scope", "team">>) <=> x \in C \/ (x = "team" /\ "team_scope" \in C)
    BY DEF Added
  <2>5. Turn(on) = Added(C, <<"team_scope", "team">>)
    BY TheTable
  <2> HIDE DEF A, B, C, Turn
  <2>6. QED
    BY <2>1, <2>2, <2>3, <2>4, <2>5
<1>0. \A on : Whole(on) <=> /\ "softphone" \in on => "contacts" \in on
                            /\ "live" \in on => "softphone" \in on
                            /\ "campaigns" \in on => "contacts" \in on
                            /\ "team_scope" \in on => "team" \in on
  BY TheTable DEF Whole
<1>2. \A on : pass(on) = Turn(on)
  BY PassIs
<1> HIDE DEF Turn
<1>3. Turn(perms) \in SUBSET Permissions
  BY <1>1, TheTable
<1>4. Turn(perms) = perms <=> Whole(perms)
  <2>1. ASSUME Turn(perms) = perms PROVE Whole(perms)
    BY <2>1, <1>1, <1>0
  <2>2. ASSUME Whole(perms) PROVE Turn(perms) = perms
    <3>1. \A x : x \in Turn(perms) <=> x \in perms
      BY <2>2, <1>1, <1>0
    <3>2. Turn(perms) \subseteq perms /\ perms \subseteq Turn(perms)
      BY <3>1
    <3>3. QED
      BY <3>2
  <2>3. QED
    BY <2>1, <2>2
<1>5. Whole(Turn(Turn(perms)))
  BY <1>1, <1>0
<1>6. QED
  BY <1>2, <1>3, <1>4, <1>5

\* resolvePermissionDeps stops after two turns, with a whole set; it changes a whole set not.
LEMMA Resolved ==
  ASSUME NEW perms \in SUBSET Permissions
  PROVE  /\ resolvePermissionDeps(perms) \in SUBSET Permissions
         /\ Whole(resolvePermissionDeps(perms))
         /\ Whole(perms) => resolvePermissionDeps(perms) = perms
<1> DEFINE Wit == [on \in SUBSET Permissions |-> pass(pass(on))]
           Body(g, on) == IF pass(on) = on THEN on ELSE g[pass(on)]
           Eq(g) == g = [on \in SUBSET Permissions |-> Body(g, on)]
<1>1. \A on \in SUBSET Permissions : pass(pass(on)) = Body(Wit, on)
  BY PassOf
<1>2. Eq(Wit)
  <2> HIDE DEF Body
  <2>1. Wit = [on \in SUBSET Permissions |-> pass(pass(on))]
    OBVIOUS
  <2> HIDE DEF Wit
  <2>2. [on \in SUBSET Permissions |-> pass(pass(on))] = [on \in SUBSET Permissions |-> Body(Wit, on)]
    BY <1>1
  <2>3. QED
    BY <2>1, <2>2
<1>3. Eq(CHOOSE g : Eq(g))
  BY <1>2, Zenon
<1>4. resolvePermissionDeps(perms) = (CHOOSE g : Eq(g))[perms]
  BY DEF resolvePermissionDeps
<1>5. PICK G : Eq(G) /\ resolvePermissionDeps(perms) = G[perms]
  <2> HIDE DEF Eq
  <2>1. QED
    BY <1>3, <1>4
<1>6. \A on \in SUBSET Permissions : G[on] = Body(G, on)
  <2>1. G = [on \in SUBSET Permissions |-> Body(G, on)]
    BY <1>5
  <2> HIDE DEF Body
  <2>2. QED
    BY <2>1
<1>7. \A on \in SUBSET Permissions : pass(on) \in SUBSET Permissions /\ (pass(on) = on <=> Whole(on)) /\ Whole(pass(pass(on)))
  BY PassOf
<1>8. Whole(perms) => G[perms] = perms
  BY <1>6, <1>7
<1>9. \A on \in SUBSET Permissions : Whole(on) => G[on] = on
  BY <1>6, <1>7
<1>10. G[perms] \in SUBSET Permissions /\ Whole(G[perms])
  <2>1. CASE Whole(perms)
    BY <2>1, <1>9
  <2>2. CASE ~Whole(perms) /\ Whole(pass(perms))
    BY <2>2, <1>6, <1>7, <1>9
  <2>3. CASE ~Whole(perms) /\ ~Whole(pass(perms))
    BY <2>3, <1>6, <1>7, <1>9
  <2>4. QED
    BY <2>1, <2>2, <2>3
<1>11. QED
  BY <1>5, <1>8, <1>10

\* The page's edges, either way round: no path is longer than two.
Flipped == {<<e[2], e[1]>> : e \in Needs}
Short(edges) ==
  /\ edges \in SUBSET (Permissions \X Permissions)
  /\ \A on \in SUBSET Permissions : From(From(From(on, edges), edges), edges) = {}

LEMMA FromIs ==
  ASSUME NEW on, NEW edges, NEW x
  PROVE  x \in From(on, edges) <=> \E e \in edges : e[1] \in on /\ x = e[2]
BY DEF From

LEMMA TheEdges ==
  /\ Needs = ToSet(PERMISSION_DEPS)
  /\ Flipped = {<<d[2], d[1]>> : d \in ToSet(PERMISSION_DEPS)}
<1>1. /\ DOMAIN PERM_DEPS = {"softphone", "live", "campaigns", "team_scope"}
      /\ PERM_DEPS["softphone"] = {"contacts"} /\ PERM_DEPS["live"] = {"softphone"}
      /\ PERM_DEPS["campaigns"] = {"contacts"} /\ PERM_DEPS["team_scope"] = {"team"}
  BY DEF PERM_DEPS
<1>2. \A e \in Permissions \X Permissions : e \in Needs <=> e \in ToSet(PERMISSION_DEPS)
  <2> SUFFICES ASSUME NEW p \in Permissions, NEW q \in Permissions
               PROVE  <<p, q>> \in Needs <=> <<p, q>> \in ToSet(PERMISSION_DEPS)
    OBVIOUS
  <2>1. <<p, q>> \in Needs <=> p \in DOMAIN PERM_DEPS /\ q \in PERM_DEPS[p]
    BY DEF Needs
  <2>2. <<p, q>> \in ToSet(PERMISSION_DEPS) <=>
          \/ (p = "softphone" /\ q = "contacts") \/ (p = "live" /\ q = "softphone")
          \/ (p = "campaigns" /\ q = "contacts") \/ (p = "team_scope" /\ q = "team")
    BY TheTable
  <2>3. QED
    BY <2>1, <2>2, <1>1
<1>3. ToSet(PERMISSION_DEPS) \subseteq Permissions \X Permissions
  BY TheTable
<1>4. Needs \subseteq Permissions \X Permissions
  BY DEF Needs
<1>5. Needs = ToSet(PERMISSION_DEPS)
  BY <1>2, <1>3, <1>4
<1>6. QED
  BY <1>5 DEF Flipped

LEMMA BothShort == Short(Needs) /\ Short(Flipped)
<1>1. /\ Needs = { <<"softphone", "contacts">>, <<"live", "softphone">>, <<"campaigns", "contacts">>, <<"team_scope", "team">> }
      /\ Flipped = { <<"contacts", "softphone">>, <<"softphone", "live">>, <<"contacts", "campaigns">>, <<"team", "team_scope">> }
  BY TheEdges, TheTable
<1>2. Needs \in SUBSET (Permissions \X Permissions) /\ Flipped \in SUBSET (Permissions \X Permissions)
  BY <1>1, TheTable
<1>3. ASSUME NEW on, NEW x
      PROVE  x \in From(on, Needs) <=>
               \/ x = "contacts" /\ ("softphone" \in on \/ "campaigns" \in on)
               \/ x = "softphone" /\ "live" \in on
               \/ x = "team" /\ "team_scope" \in on
  <2>1. x \in From(on, Needs) <=> \E e \in Needs : e[1] \in on /\ x = e[2]
    BY FromIs
  <2>2. (\E e \in Needs : e[1] \in on /\ x = e[2]) <=>
               \/ x = "contacts" /\ ("softphone" \in on \/ "campaigns" \in on)
               \/ x = "softphone" /\ "live" \in on
               \/ x = "team" /\ "team_scope" \in on
    BY <1>1
  <2>3. QED
    BY <2>1, <2>2
<1>4. ASSUME NEW on, NEW x
      PROVE  x \in From(on, Flipped) <=>
               \/ x = "softphone" /\ "contacts" \in on
               \/ x = "campaigns" /\ "contacts" \in on
               \/ x = "live" /\ "softphone" \in on
               \/ x = "team_scope" /\ "team" \in on
  <2>1. x \in From(on, Flipped) <=> \E e \in Flipped : e[1] \in on /\ x = e[2]
    BY FromIs
  <2>2. (\E e \in Flipped : e[1] \in on /\ x = e[2]) <=>
               \/ x = "softphone" /\ "contacts" \in on
               \/ x = "campaigns" /\ "contacts" \in on
               \/ x = "live" /\ "softphone" \in on
               \/ x = "team_scope" /\ "team" \in on
    BY <1>1
  <2>3. QED
    BY <2>1, <2>2
<1>5. \A on : From(From(From(on, Needs), Needs), Needs) = {}
  BY <1>3
<1>6. \A on : From(From(From(on, Flipped), Flipped), Flipped) = {}
  BY <1>4
<1>7. QED
  BY <1>2, <1>5, <1>6 DEF Short

\* Along short edges Reach stops, with everything that is next to the key and next to
\* what it has.
LEMMA ReachedIs ==
  ASSUME NEW key \in Permissions, NEW edges, Short(edges)
  PROVE  /\ Reach(key, edges) \in SUBSET Permissions
         /\ From({key}, edges) \subseteq Reach(key, edges)
         /\ From(Reach(key, edges), edges) \subseteq Reach(key, edges)
<1> DEFINE F(on) == From(on, edges)
           W(on) == on \cup F(on) \cup F(F(on))
           Wit == [on \in SUBSET Permissions |-> W(on)]
           Body(g, on) == IF F(on) \subseteq on THEN on ELSE g[on \cup F(on)]
           Eq(g) == g = [on \in SUBSET Permissions |-> Body(g, on)]
<1>1. \A on : F(on) \in SUBSET Permissions
  BY DEF Short, From
<1>2. \A on, more : F(on \cup more) = F(on) \cup F(more)
  BY DEF From
<1>3. \A on \in SUBSET Permissions : F(F(F(on))) = {}
  BY DEF Short
<1>4. Reach(key, edges) = (CHOOSE g : Eq(g))[F({key})]
  BY DEF Reach
<1> HIDE DEF F
<1>5. ASSUME NEW on \in SUBSET Permissions
      PROVE  W(on) = Body(Wit, on)
  <2>1. on \cup F(on) \in SUBSET Permissions
    BY <1>1
  <2>2. W(on \cup F(on)) = on \cup F(on) \cup F(F(on)) \cup F(F(F(on)))
    BY <1>2
  <2>3. W(on \cup F(on)) = W(on)
    BY <2>2, <1>3
  <2>4. F(on) \subseteq on => F(F(on)) \subseteq on
    <3>1. \A a, b : a \subseteq b => F(a) \subseteq F(b)
      <4> SUFFICES ASSUME NEW a, NEW b, a \subseteq b PROVE F(a) \subseteq F(b)
        OBVIOUS
      <4>1. a \cup b = b
        OBVIOUS
      <4>2. QED
        BY <4>1, <1>2
    <3>2. QED
      BY <3>1
  <2>5. Wit[on \cup F(on)] = W(on \cup F(on))
    BY <2>1
  <2>6. QED
    BY <2>3, <2>4, <2>5
<1>6. Eq(Wit)
  <2> HIDE DEF W, Body
  <2>1. Wit = [on \in SUBSET Permissions |-> W(on)]
    OBVIOUS
  <2> HIDE DEF Wit
  <2>2. [on \in SUBSET Permissions |-> W(on)] = [on \in SUBSET Permissions |-> Body(Wit, on)]
    BY <1>5
  <2>3. QED
    BY <2>1, <2>2
<1>7. Eq(CHOOSE g : Eq(g))
  BY <1>6, Zenon
<1>8. PICK G : Eq(G) /\ Reach(key, edges) = G[F({key})]
  <2> HIDE DEF Eq
  <2>1. QED
    BY <1>4, <1>7
<1>9. \A on \in SUBSET Permissions : G[on] = Body(G, on)
  <2>1. G = [on \in SUBSET Permissions |-> Body(G, on)]
    BY <1>8
  <2> HIDE DEF Body
  <2>2. QED
    BY <2>1
<1>10. PICK A : A = F({key})
  OBVIOUS
<1>11. PICK B : B = A \cup F(A)
  OBVIOUS
<1>12. F(B) = F(A) \cup F(F(A)) /\ F(F(A)) = {}
  BY <1>2, <1>3, <1>10, <1>11
<1>13. A \in SUBSET Permissions /\ B \in SUBSET Permissions
  BY <1>1, <1>10, <1>11
<1>14. F(B) \subseteq B /\ A \subseteq B
  BY <1>11, <1>12
<1>15. G[B] = B
  BY <1>9, <1>13, <1>14
<1>16. (G[A] = A /\ F(A) \subseteq A) \/ G[A] = B
  BY <1>9, <1>11, <1>13, <1>15
<1>17. PICK R : R = Reach(key, edges)
  OBVIOUS
<1>18. (R = A /\ F(A) \subseteq A) \/ R = B
  BY <1>8, <1>10, <1>16, <1>17
<1>19. R \in SUBSET Permissions /\ A \subseteq R /\ F(R) \subseteq R
  BY <1>18, <1>13, <1>14
<1>20. QED
  BY <1>10, <1>17, <1>19 DEF F

\* What a tick adds and what it takes away leave a whole set whole.
LEMMA TickKeepsWhole ==
  ASSUME NEW perms \in SUBSET Permissions, Whole(perms), NEW key \in Permissions
  PROVE  /\ perms \cup {key} \cup depsOf(key) \in SUBSET Permissions
         /\ Whole(perms \cup {key} \cup depsOf(key))
         /\ Whole(perms \ ({key} \cup dependentsOf(key)))
<1>1. /\ depsOf(key) \in SUBSET Permissions
      /\ From({key}, Needs) \subseteq depsOf(key) /\ From(depsOf(key), Needs) \subseteq depsOf(key)
  BY ReachedIs, BothShort DEF depsOf
<1>2. From({key}, Flipped) \subseteq dependentsOf(key) /\ From(dependentsOf(key), Flipped) \subseteq dependentsOf(key)
  BY ReachedIs, BothShort DEF dependentsOf, Flipped
<1>3. \A d \in ToSet(PERMISSION_DEPS) : \A on : /\ d[1] \in on => d[2] \in From(on, Needs)
                                                /\ d[2] \in on => d[1] \in From(on, Flipped)
  <2> SUFFICES ASSUME NEW d \in ToSet(PERMISSION_DEPS), NEW on
               PROVE  /\ d[1] \in on => d[2] \in From(on, Needs)
                      /\ d[2] \in on => d[1] \in From(on, Flipped)
    OBVIOUS
  <2>1. d \in Needs /\ <<d[2], d[1]>> \in Flipped
    BY TheEdges
  <2>2. QED
    BY <2>1, FromIs
<1>4. \A on : Whole(on) <=> \A d \in ToSet(PERMISSION_DEPS) : d[1] \in on => d[2] \in on
  BY DEF Whole
<1>5. \A d \in ToSet(PERMISSION_DEPS) : /\ d[1] \in perms => d[2] \in perms
                                        /\ d[1] = key => d[2] \in depsOf(key)
                                        /\ d[1] \in depsOf(key) => d[2] \in depsOf(key)
                                        /\ d[2] = key => d[1] \in dependentsOf(key)
                                        /\ d[2] \in dependentsOf(key) => d[1] \in dependentsOf(key)
  BY <1>1, <1>2, <1>3, <1>4
<1>6. Whole(perms \cup {key} \cup depsOf(key))
  BY <1>4, <1>5
<1>7. Whole(perms \ ({key} \cup dependentsOf(key)))
  BY <1>4, <1>5
<1>8. QED
  BY <1>1, <1>6, <1>7

-----------------------------------------------------------------------------
RolesInv ==
  /\ RolesTypeOK
  /\ \A r \in DOMAIN grants : Whole(grants[r])
  /\ \A f \in Forms : Whole(form[f].perms)

LEMMA EmptyIsWhole == Whole({})
BY DEF Whole

LEMMA RolesStart == RolesInit => RolesInv
<1> SUFFICES ASSUME RolesInit PROVE RolesInv
  OBVIOUS
<1>1. DOMAIN grants = {} /\ grants \in [DOMAIN grants -> SUBSET Permissions]
  BY DEF RolesInit
<1>2. form \in [Forms -> [open : BOOLEAN, role : Roles \cup {NoRole}, perms : SUBSET Permissions]]
  BY DEF RolesInit, Closed
<1>3. \A f \in Forms : form[f].perms = {}
  BY DEF RolesInit, Closed
<1>4. QED
  BY <1>1, <1>2, <1>3, EmptyIsWhole DEF RolesInv, RolesTypeOK

\* A role is stored with whole grants.
LEMMA PutsKeeps ==
  ASSUME RolesInv, NEW r \in Roles, NEW perms \in SUBSET Permissions, Puts(r, resolvePermissionDeps(perms))
  PROVE  /\ DOMAIN grants' \subseteq Roles /\ grants' \in [DOMAIN grants' -> SUBSET Permissions]
         /\ \A x \in DOMAIN grants' : Whole(grants'[x])
<1> DEFINE put == resolvePermissionDeps(perms)
<1>1. put \in SUBSET Permissions /\ Whole(put)
  BY Resolved
<1> HIDE DEF put
<1>2. grants' = [x \in DOMAIN grants \cup {r} |-> IF x = r THEN put ELSE grants[x]]
  BY DEF Puts, put
<1>3. QED
  BY <1>1, <1>2 DEF RolesInv, RolesTypeOK

FormsKept ==
  /\ form' \in [Forms -> [open : BOOLEAN, role : Roles \cup {NoRole}, perms : SUBSET Permissions]]
  /\ \A f \in Forms : Whole(form'[f].perms)

LEMMA FormKept ==
  ASSUME RolesInv, NEW f \in Forms, NEW one \in [open : BOOLEAN, role : Roles \cup {NoRole}, perms : SUBSET Permissions],
         Whole(one.perms), form' = [form EXCEPT ![f] = one]
  PROVE  FormsKept
BY DEF RolesInv, RolesTypeOK, FormsKept

LEMMA ClosedForm == Closed \in [open : BOOLEAN, role : Roles \cup {NoRole}, perms : SUBSET Permissions] /\ Whole(Closed.perms)
BY EmptyIsWhole DEF Closed

LEMMA RolesStep == RolesInv /\ [RolesNext]_rolesVars => RolesInv'
<1> SUFFICES ASSUME RolesInv, [RolesNext]_rolesVars PROVE RolesInv'
  OBVIOUS
<1>0. ASSUME UNCHANGED grants, FormsKept PROVE RolesInv'
  BY <1>0 DEF RolesInv, RolesTypeOK, FormsKept, Whole
<1>1. ASSUME NEW f \in Forms, NEW r \in Roles \cup {NoRole}, OpensForm(f, r) PROVE RolesInv'
  <2> DEFINE one == [open |-> TRUE, role |-> r, perms |-> IF r = NoRole THEN {} ELSE grants[r]]
  <2>1. one \in [open : BOOLEAN, role : Roles \cup {NoRole}, perms : SUBSET Permissions] /\ Whole(one.perms)
    BY <1>1, EmptyIsWhole DEF OpensForm, RolesInv, RolesTypeOK
  <2>2. form' = [form EXCEPT ![f] = one] /\ UNCHANGED grants
    BY <1>1 DEF OpensForm
  <2> HIDE DEF one
  <2>3. QED
    BY <2>1, <2>2, FormKept, <1>0
<1>2. ASSUME NEW f \in Forms, NEW key \in Permissions, toggle(f, key) PROVE RolesInv'
  <2>1. PICK was : was = form[f].perms
    OBVIOUS
  <2> DEFINE ticked == IF key \in was THEN was \ ({key} \cup dependentsOf(key)) ELSE was \cup {key} \cup depsOf(key)
             one == [form[f] EXCEPT !.perms = ticked]
  <2>2. was \in SUBSET Permissions /\ Whole(was)
    BY <2>1 DEF RolesInv, RolesTypeOK
  <2>3. ticked \in SUBSET Permissions /\ Whole(ticked)
    BY <2>2, TickKeepsWhole
  <2>4. form' = [form EXCEPT ![f] = one] /\ UNCHANGED grants
    BY <1>2, <2>1 DEF toggle
  <2> HIDE DEF ticked
  <2>5. one \in [open : BOOLEAN, role : Roles \cup {NoRole}, perms : SUBSET Permissions] /\ one.perms = ticked
    BY <2>3 DEF RolesInv, RolesTypeOK
  <2> HIDE DEF one
  <2>6. QED
    BY <2>3, <2>4, <2>5, FormKept, <1>0
<1>3. ASSUME NEW f \in Forms, NEW r \in Roles, SavesForm(f, r) PROVE RolesInv'
  <2>1. form[f].perms \in SUBSET Permissions
    BY DEF RolesInv, RolesTypeOK
  <2>2. Puts(r, resolvePermissionDeps(form[f].perms)) /\ form' = [form EXCEPT ![f] = Closed]
    BY <1>3 DEF SavesForm
  <2>3. FormsKept
    BY <2>2, ClosedForm, FormKept
  <2>4. QED
    BY <2>1, <2>2, <2>3, PutsKeeps DEF RolesInv, RolesTypeOK, FormsKept, Whole
<1>4. ASSUME NEW f \in Forms, ClosesForm(f) PROVE RolesInv'
  BY <1>4, ClosedForm, FormKept, <1>0 DEF ClosesForm
<1>5. ASSUME NEW r \in Roles, NEW perms \in SUBSET Permissions, PostsRole(r, perms) PROVE RolesInv'
  BY <1>5, PutsKeeps DEF PostsRole, RolesInv, RolesTypeOK, Whole
<1>6. ASSUME NEW r \in Roles, NEW source \in Roles, ClonesRole(r, source) PROVE RolesInv'
  <2>1. grants[source] \in SUBSET Permissions
    BY <1>6 DEF ClonesRole, RolesInv, RolesTypeOK
  <2>2. QED
    BY <1>6, <2>1, PutsKeeps DEF ClonesRole, RolesInv, RolesTypeOK, Whole
<1>7. ASSUME NEW r \in Roles, DeletesRole(r) PROVE RolesInv'
  BY <1>7 DEF DeletesRole, RolesInv, RolesTypeOK, Whole
<1>8. CASE UNCHANGED rolesVars
  BY <1>8 DEF rolesVars, RolesInv, RolesTypeOK, Whole
<1>9. QED
  BY <1>1, <1>2, <1>3, <1>4, <1>5, <1>6, <1>7, <1>8 DEF RolesNext

\* roles.service's grants and the forms of the roles page keep their types.
THEOREM RolesTypeCorrect == RolesSpec => []RolesTypeOK
<1>1. RolesInv => RolesTypeOK
  BY DEF RolesInv
<1>2. QED
  BY <1>1, RolesStart, RolesStep, PTL DEF RolesSpec

LEMMA WholeIsClosed == RolesInv => RolesClosed
<1> SUFFICES ASSUME RolesInv PROVE RolesClosed
  OBVIOUS
<1>1. \A f \in Forms : form[f].perms \in SUBSET Permissions /\ Whole(form[f].perms)
  BY DEF RolesInv, RolesTypeOK
<1>2. \A f \in Forms : resolvePermissionDeps(form[f].perms) = form[f].perms
  BY <1>1, Resolved
<1>3. QED
  BY <1>2 DEF RolesInv, RolesClosed, Whole

\* resolvePermissionDeps, depsOf, dependentsOf: whatever is ticked, posted and cloned in any
\* order, a stored role grants what its permissions depend on, and saving a form stores
\* what it shows.
THEOREM RolesStayClosed == RolesSpec => []RolesClosed
BY WholeIsClosed, RolesStart, RolesStep, PTL DEF RolesSpec

-----------------------------------------------------------------------------
(***************************************************************************)
(* Sums, as sizes of sets of pairs: what a figure of the demo backend adds *)
(* up is the size of the union of its shares, which are disjoint, so that  *)
(* two figures are equal when there is a bijection between the pairs       *)
(* behind them.                                                            *)
(***************************************************************************)

\* A sum as the size of a set: so many pairs for each of its members.
Pairs(n, S) == UNION {{x} \X (1..n[x]) : x \in S}

LEMMA InPairs ==
  ASSUME NEW S, NEW n, NEW z
  PROVE  z \in Pairs(n, S) <=> \E x \in S : \E i \in 1..n[x] : z = <<x, i>>
BY DEF Pairs

LEMMA FinitePairs ==
  ASSUME NEW S, IsFiniteSet(S), NEW n, \A x \in S : n[x] \in Nat
  PROVE  IsFiniteSet(Pairs(n, S)) /\ Cardinality(Pairs(n, S)) \in Nat
<1> DEFINE Row(x) == {x} \X (1..n[x])
           Columns == {Row(x) : x \in S}
           f == [x \in S |-> Row(x)]
<1>1. f \in Surjection(S, Columns)
  <2>1. f \in [S -> Columns] /\ \A t \in Columns : \E s \in S : f[s] = t
    OBVIOUS
  <2> HIDE DEF f, Columns
  <2>2. QED
    BY <2>1, Fun_IsSurj
<1>2. IsFiniteSet(Columns)
  <2> HIDE DEF f, Columns
  <2>1. QED
    BY <1>1, FS_Surjection
<1>3. ASSUME NEW x \in S PROVE IsFiniteSet(Row(x))
  <2>1. PICK k : k = n[x]
    OBVIOUS
  <2>2. k \in Nat /\ 1 \in Int /\ k \in Int
    BY <2>1
  <2>3. IsFiniteSet(1..k)
    BY <2>2, FS_Interval
  <2> DEFINE g == [i \in 1..k |-> <<x, i>>]
  <2>4. g \in [1..k -> Row(x)] /\ \A t \in Row(x) : \E i \in 1..k : g[i] = t
    BY <2>1
  <2> HIDE DEF g, Row
  <2>5. g \in Surjection(1..k, Row(x))
    BY <2>4, Fun_IsSurj
  <2>6. QED
    BY <2>3, <2>5, FS_Surjection
<1>4. \A T \in Columns : IsFiniteSet(T)
  BY <1>3
<1>5. IsFiniteSet(UNION Columns)
  <2> HIDE DEF Columns
  <2>1. QED
    BY <1>2, <1>4, FS_UNION
<1>6. Pairs(n, S) = UNION Columns
  BY DEF Pairs
<1> HIDE DEF Columns
<1>7. QED
  BY <1>5, <1>6, FS_CardinalityType

LEMMA PairsPositive ==
  ASSUME NEW S, IsFiniteSet(S), NEW n, \A x \in S : n[x] \in Nat
  PROVE  Cardinality(Pairs(n, S)) > 0 <=> \E x \in S : n[x] > 0
<1>1. PICK X : X = Pairs(n, S)
  OBVIOUS
<1>2. IsFiniteSet(X) /\ Cardinality(X) \in Nat
  BY <1>1, FinitePairs
<1>3. Cardinality(X) = 0 <=> X = {}
  BY <1>2, FS_EmptySet
<1>4. X # {} <=> \E x \in S : n[x] > 0
  <2>1. ASSUME X # {} PROVE \E x \in S : n[x] > 0
    <3>1. PICK z \in X : TRUE
      BY <2>1
    <3>2. PICK x \in S : \E i \in 1..n[x] : z = <<x, i>>
      BY <3>1, <1>1, InPairs
    <3>3. QED
      BY <3>2
  <2>2. ASSUME NEW x \in S, n[x] > 0 PROVE X # {}
    <3>1. 1 \in 1..n[x]
      BY <2>2
    <3>2. <<x, 1>> \in X
      BY <3>1, <1>1, InPairs
    <3>3. QED
      BY <3>2
  <2>3. QED
    BY <2>1, <2>2
<1>5. QED
  BY <1>1, <1>2, <1>3, <1>4

LEMMA SameSize ==
  ASSUME NEW X, NEW Y, IsFiniteSet(X), NEW f \in [Y -> X],
         \A a, b \in Y : f[a] = f[b] => a = b, \A x \in X : \E y \in Y : f[y] = x
  PROVE  IsFiniteSet(Y) /\ Cardinality(Y) = Cardinality(X)
<1>1. f \in Bijection(Y, X)
  BY Fun_IsBij
<1>2. ExistsBijection(Y, X)
  BY <1>1 DEF ExistsBijection
<1>3. ExistsBijection(X, Y)
  BY <1>2, Fun_ExistsBijSymmetric
<1>4. QED
  BY <1>3, FS_Bijection

\* What the parts of a finite set count adds up to its size.
LEMMA PartsAddUp ==
  ASSUME NEW X, IsFiniteSet(X), NEW P, NEW own \in [X -> P],
         NEW n, \A p \in P : n[p] = Cardinality({x \in X : own[x] = p})
  PROVE  Cardinality(Pairs(n, P)) = Cardinality(X)
<1> DEFINE Part(p) == {x \in X : own[x] = p}
           Y == Pairs(n, P)
<1>1. ASSUME NEW p \in P
      PROVE  \E f : f \in Bijection(1..n[p], Part(p))
  <2>1. PICK T : T = Part(p)
    OBVIOUS
  <2>2. T \in SUBSET X
    BY <2>1
  <2>3. IsFiniteSet(T)
    BY <2>2, FS_Subset
  <2>4. ExistsBijection(1..Cardinality(T), T)
    BY <2>3, FS_CardinalityType
  <2>5. n[p] = Cardinality(T)
    BY <2>1
  <2>6. ExistsBijection(1..n[p], T)
    BY <2>4, <2>5
  <2>7. QED
    BY <2>1, <2>6 DEF ExistsBijection
<1> DEFINE b == [p \in P |-> CHOOSE f : f \in Bijection(1..n[p], Part(p))]
           B == [y \in Y |-> b[y[1]][y[2]]]
<1>2. ASSUME NEW p \in P
      PROVE  /\ b[p] \in [1..n[p] -> Part(p)]
             /\ \A i, j \in 1..n[p] : b[p][i] = b[p][j] => i = j
             /\ \A x \in Part(p) : \E i \in 1..n[p] : b[p][i] = x
  <2>1. b[p] \in Bijection(1..n[p], Part(p))
    BY <1>1
  <2>2. PICK f, D, T : f = b[p] /\ D = 1..n[p] /\ T = Part(p)
    OBVIOUS
  <2> HIDE DEF b, Part
  <2>3. f \in Bijection(D, T)
    BY <2>1, <2>2
  <2>4. f \in [D -> T] /\ (\A i, j \in D : f[i] = f[j] => i = j) /\ \A x \in T : \E i \in D : f[i] = x
    BY <2>3, Fun_BijectionProperties
  <2>5. QED
    BY <2>2, <2>4
<1>3. \A z : z \in Y <=> \E p \in P : \E i \in 1..n[p] : z = <<p, i>>
  BY InPairs
<1>4. \A p \in P : \A i \in 1..n[p] : <<p, i>> \in Y
  BY <1>3
<1>5. \A y \in Y : y[1] \in P /\ y[2] \in 1..n[y[1]] /\ y = <<y[1], y[2]>>
  BY <1>3
<1> HIDE DEF b, Y
<1>6. \A y \in Y : B[y] \in X /\ own[B[y]] = y[1]
  <2> SUFFICES ASSUME NEW y \in Y PROVE B[y] \in X /\ own[B[y]] = y[1]
    OBVIOUS
  <2>1. PICK p, i : p = y[1] /\ i = y[2]
    OBVIOUS
  <2>2. p \in P /\ i \in 1..n[p]
    BY <1>5, <2>1
  <2>3. b[p][i] \in Part(p)
    BY <1>2, <2>2
  <2>4. B[y] = b[p][i]
    BY <2>1
  <2>5. QED
    BY <2>1, <2>3, <2>4
<1>7. B \in [Y -> X]
  BY <1>6
<1>8. ASSUME NEW u \in Y, NEW v \in Y, B[u] = B[v]
      PROVE  u = v
  <2>1. u[1] = v[1]
    BY <1>6, <1>8
  <2>2. b[u[1]][u[2]] = b[u[1]][v[2]]
    BY <1>8, <2>1
  <2>3. u[2] = v[2]
    BY <1>2, <1>5, <2>1, <2>2
  <2>4. QED
    BY <1>5, <2>1, <2>3
<1>9. ASSUME NEW x \in X
      PROVE  \E y \in Y : B[y] = x
  <2>1. own[x] \in P /\ x \in Part(own[x])
    OBVIOUS
  <2>2. PICK i \in 1..n[own[x]] : b[own[x]][i] = x
    BY <1>2, <2>1
  <2>3. <<own[x], i>> \in Y
    BY <1>4, <2>1, <2>2
  <2>4. B[<<own[x], i>>] = x
    BY <2>2, <2>3
  <2>5. QED
    BY <2>3, <2>4
<1> HIDE DEF B
<1>10. Cardinality(Y) = Cardinality(X)
  BY <1>7, <1>8, <1>9, SameSize
<1>11. QED
  BY <1>10 DEF Y

\* Naturals up to a bound have a largest one.
LEMMA LargestOf ==
  \A k \in Nat : \A S : S \subseteq 0..k /\ S # {} => \E x \in S : \A y \in S : y <= x
<1> SUFFICES ASSUME NEW k \in Nat, NEW S, S \subseteq 0..k, S # {}
             PROVE  \E x \in S : \A y \in S : y <= x
  OBVIOUS
<1> DEFINE T == {k - x : x \in S}
<1>1. T \subseteq Nat /\ T # {}
  <2>1. \A x \in S : k - x \in Nat
    OBVIOUS
  <2>2. PICK x \in S : TRUE
    OBVIOUS
  <2>3. k - x \in T
    BY <2>2
  <2>4. QED
    BY <2>1, <2>3
<1> HIDE DEF T
<1>2. PICK n \in T : \A m \in T : <<m, n>> \notin OpToRel(<, Nat)
  BY <1>1, NatLessThanWellFounded, WFMin
<1>3. \A m \in T : ~(m < n)
  BY <1>1, <1>2 DEF OpToRel
<1>4. PICK x \in S : n = k - x
  BY DEF T
<1>5. \A y \in S : k - y \in T
  BY DEF T
<1>6. ASSUME NEW y \in S
      PROVE  y <= x
  <2>1. ~(k - y < k - x) /\ x \in 0..k /\ y \in 0..k
    BY <1>3, <1>4, <1>5
  <2>2. QED
    BY <2>1
<1>7. QED
  BY <1>6

\* The same amounts under other names: g gives each y the x whose amount it has, no
\* two the same one, and what it gives to nobody is empty.
LEMMA SameAmounts ==
  ASSUME NEW S, IsFiniteSet(S), NEW n, \A x \in S : n[x] \in Nat,
         NEW T, NEW m, NEW g \in [T -> S],
         \A y \in T : m[y] = n[g[y]],
         \A y, z \in T : g[y] = g[z] => y = z,
         \A x \in S : n[x] = 0 \/ \E y \in T : g[y] = x
  PROVE  Cardinality(Pairs(m, T)) = Cardinality(Pairs(n, S))
<1> DEFINE X == Pairs(n, S)
           Y == Pairs(m, T)
           f == [p \in Y |-> <<g[p[1]], p[2]>>]
<1>1. IsFiniteSet(X)
  BY FinitePairs
<1>2. f \in [Y -> X]
  <2> SUFFICES ASSUME NEW p \in Y PROVE <<g[p[1]], p[2]>> \in X
    OBVIOUS
  <2>1. PICK y \in T : \E i \in 1..m[y] : p = <<y, i>>
    BY InPairs
  <2>2. PICK i \in 1..m[y] : p = <<y, i>>
    BY <2>1
  <2>3. g[y] \in S /\ i \in 1..n[g[y]]
    OBVIOUS
  <2>4. <<g[y], i>> \in X
    BY <2>3, InPairs
  <2>5. QED
    BY <2>2, <2>4
<1>3. \A p, q \in Y : f[p] = f[q] => p = q
  <2> SUFFICES ASSUME NEW p \in Y, NEW q \in Y, f[p] = f[q] PROVE p = q
    OBVIOUS
  <2>1. PICK y \in T : \E i \in 1..m[y] : p = <<y, i>>
    BY InPairs
  <2>2. PICK i \in 1..m[y] : p = <<y, i>>
    BY <2>1
  <2>3. PICK z \in T : \E k \in 1..m[z] : q = <<z, k>>
    BY InPairs
  <2>4. PICK k \in 1..m[z] : q = <<z, k>>
    BY <2>3
  <2>5. f[p] = <<g[y], i>> /\ f[q] = <<g[z], k>>
    BY <2>2, <2>4
  <2>6. <<g[y], i>> = <<g[z], k>>
    BY <2>5
  <2>7. g[y] = g[z] /\ i = k
    BY <2>6
  <2>8. QED
    BY <2>2, <2>4, <2>7
<1>4. \A p \in X : \E q \in Y : f[q] = p
  <2> SUFFICES ASSUME NEW p \in X PROVE \E q \in Y : f[q] = p
    OBVIOUS
  <2>1. PICK x \in S : \E i \in 1..n[x] : p = <<x, i>>
    BY InPairs
  <2>2. PICK i \in 1..n[x] : p = <<x, i>>
    BY <2>1
  <2>3. n[x] # 0
    OBVIOUS
  <2>4. PICK y \in T : g[y] = x
    BY <2>3
  <2>5. i \in 1..m[y]
    BY <2>4
  <2>6. <<y, i>> \in Y
    BY <2>5, InPairs
  <2>7. f[<<y, i>>] = p
    BY <2>2, <2>4, <2>6
  <2>8. QED
    BY <2>6, <2>7
<1> HIDE DEF X, Y, f
<1>5. QED
  BY <1>1, <1>2, <1>3, <1>4, SameSize DEF X, Y

-----------------------------------------------------------------------------
(***************************************************************************)
(* The vendor's Console. Every company carries a copy of its plan's limits *)
(* and price; a request that changes a plan writes the copies of all its   *)
(* companies, and one that changes a company takes them from the plan.     *)
(***************************************************************************)

\* A company's copies agree with the price list.
CompanyFits(t, prices) ==
  /\ prices[t.plan] # NoPlan /\ t.limits = prices[t.plan]
  /\ t.mrr = IF Billable(t.status) THEN prices[t.plan] ELSE 0

PlatformInv ==
  /\ PlatformTypeOK
  /\ \A c \in Booked : CompanyFits(tenants[c], plans)
  /\ \A c \in Companies : tenants[c] = NoCompany => unpaid[c] = 0
  /\ PastDueOwes
  /\ OwnerRemains

-----------------------------------------------------------------------------
LEMMA PlatformFacts ==
  ASSUME PlatformInv
  PROVE  /\ tenants \in [Companies -> CompanyRecord \cup {NoCompany}]
         /\ plans \in [PlanIds -> Terms \cup {NoPlan}]
         /\ unpaid \in [Companies -> 0..MaxInvoices]
         /\ platformStaff \in [Managers -> [super : BOOLEAN, active : BOOLEAN] \cup {NoStaff}]
         /\ \A c \in Companies : tenants[c] # NoCompany =>
              /\ tenants[c] \in CompanyRecord /\ CompanyFits(tenants[c], plans)
              /\ tenants[c].status = "past_due" => unpaid[c] > 0
         /\ \A c \in Companies : tenants[c] = NoCompany => unpaid[c] = 0
         /\ Supers # {}
         /\ MaxInvoices \in Nat \ {0} /\ Terms \subseteq Nat \ {0}
         /\ NoCompany \notin CompanyRecord /\ NoPlan \notin Terms
BY PlatformAssumption DEF PlatformInv, PlatformTypeOK, Booked, PastDueOwes, chasePayment, OwnerRemains

LEMMA PlatformHolds ==
  ASSUME PlatformTypeOK', OwnerRemains',
         \A c \in Companies : tenants'[c] # NoCompany =>
              /\ CompanyFits(tenants'[c], plans')
              /\ tenants'[c].status = "past_due" => unpaid'[c] > 0,
         \A c \in Companies : tenants'[c] = NoCompany => unpaid'[c] = 0
  PROVE  PlatformInv'
BY DEF PlatformInv, Booked, PastDueOwes, chasePayment, CompanyFits

LEMMA PlatformStart == PlatformInit => PlatformInv
<1> SUFFICES ASSUME PlatformInit PROVE PlatformInv
  OBVIOUS
<1>1. plans \in [PlanIds -> Terms] /\ platformStaff = [m \in Managers |-> [super |-> m \in Owners, active |-> TRUE]]
      /\ unpaid = [c \in Companies |-> IF Billable(tenants[c].status) THEN 1 ELSE 0]
  BY DEF PlatformInit
<1>2. tenants \in [Companies -> {[status |-> s, plan |-> p, limits |-> plans[p],
                                 mrr |-> IF Billable(s) THEN plans[p] ELSE 0] : s \in Statuses, p \in PlanIds}]
  BY DEF PlatformInit
<1>3. ASSUME NEW c \in Companies
      PROVE  /\ tenants[c] \in CompanyRecord /\ CompanyFits(tenants[c], plans)
             /\ unpaid[c] \in 0..MaxInvoices
             /\ tenants[c].status = "past_due" => unpaid[c] > 0
  <2>1. PICK s \in Statuses, p \in PlanIds :
          tenants[c] = [status |-> s, plan |-> p, limits |-> plans[p], mrr |-> IF Billable(s) THEN plans[p] ELSE 0]
    BY <1>2
  <2>2. plans[p] \in Terms /\ plans[p] # NoPlan
    BY <1>1, PlatformAssumption
  <2>3. tenants[c] \in CompanyRecord
    BY <2>1, <2>2 DEF CompanyRecord
  <2>4. CompanyFits(tenants[c], plans)
    BY <2>1, <2>2 DEF CompanyFits
  <2>5. unpaid[c] \in 0..MaxInvoices /\ (tenants[c].status = "past_due" => unpaid[c] > 0)
    BY <1>1, PlatformAssumption DEF Billable
  <2>6. QED
    BY <2>3, <2>4, <2>5
<1>4. tenants \in [Companies -> CompanyRecord \cup {NoCompany}] /\ unpaid \in [Companies -> 0..MaxInvoices]
  BY <1>1, <1>2, <1>3
<1>5. platformStaff \in [Managers -> [super : BOOLEAN, active : BOOLEAN] \cup {NoStaff}]
  BY <1>1
<1>6. PlatformTypeOK
  BY <1>1, <1>4, <1>5 DEF PlatformTypeOK
<1>7. OwnerRemains
  <2>1. PICK m \in Owners : TRUE
    BY PlatformAssumption
  <2>2. m \in Managers /\ platformStaff[m] = [super |-> TRUE, active |-> TRUE]
    BY <1>1, <2>1, PlatformAssumption
  <2>3. [super |-> TRUE, active |-> TRUE] \in [super : BOOLEAN, active : BOOLEAN]
    OBVIOUS
  <2>4. m \in Supers
    BY <2>2, <2>3, PlatformAssumption DEF Supers
  <2>5. QED
    BY <2>4 DEF OwnerRemains
<1>8. \A c \in Companies : tenants[c] # NoCompany
  BY <1>3, PlatformAssumption
<1>9. QED
  BY <1>3, <1>6, <1>7, <1>8 DEF PlatformInv, Booked, PastDueOwes, chasePayment

\* One company changes, with its invoices.
LEMMA CompanyChanges ==
  ASSUME PlatformInv, NEW c \in Companies, NEW t \in CompanyRecord \cup {NoCompany}, NEW n \in 0..MaxInvoices,
         tenants' = [tenants EXCEPT ![c] = t], unpaid' = [unpaid EXCEPT ![c] = n],
         t # NoCompany => CompanyFits(t, plans) /\ (t.status = "past_due" => n > 0),
         t = NoCompany => n = 0,
         UNCHANGED <<plans, platformStaff>>
  PROVE  PlatformInv'
<1>1. PlatformTypeOK'
  BY PlatformFacts DEF PlatformTypeOK
<1>2. OwnerRemains'
  BY PlatformFacts DEF OwnerRemains, Supers
<1>3. \A b \in Companies : tenants'[b] = (IF b = c THEN t ELSE tenants[b]) /\ unpaid'[b] = (IF b = c THEN n ELSE unpaid[b])
  BY PlatformFacts
<1>4. \A b \in Companies : tenants'[b] # NoCompany =>
              /\ CompanyFits(tenants'[b], plans')
              /\ tenants'[b].status = "past_due" => unpaid'[b] > 0
  BY <1>3, PlatformFacts
<1>5. \A b \in Companies : tenants'[b] = NoCompany => unpaid'[b] = 0
  BY <1>3, PlatformFacts
<1>6. QED
  BY <1>1, <1>2, <1>4, <1>5, PlatformHolds

LEMMA InvoicesStay == ASSUME PlatformInv, NEW c \in Companies PROVE unpaid = [unpaid EXCEPT ![c] = unpaid[c]] /\ unpaid[c] \in 0..MaxInvoices
BY PlatformFacts

\* Records that are another's with some fields set.
LEMMA TwoSet ==
  ASSUME NEW t \in CompanyRecord, NEW s, NEW m
  PROVE  [t EXCEPT !.status = s, !.mrr = m] = [status |-> s, plan |-> t.plan, limits |-> t.limits, mrr |-> m]
<1>1. PICK q : q = [t EXCEPT !.status = s]
  OBVIOUS
<1>2. q = [status |-> s, plan |-> t.plan, limits |-> t.limits, mrr |-> t.mrr]
  BY <1>1 DEF CompanyRecord
<1>3. [q EXCEPT !.mrr = m] = [status |-> s, plan |-> t.plan, limits |-> t.limits, mrr |-> m]
  BY <1>2
<1>4. [t EXCEPT !.status = s, !.mrr = m] = [q EXCEPT !.mrr = m]
  BY <1>1
<1>5. QED
  BY <1>3, <1>4

LEMMA LimitsSet ==
  ASSUME NEW t \in CompanyRecord, NEW l, NEW m
  PROVE  [t EXCEPT !.limits = l, !.mrr = m] = [status |-> t.status, plan |-> t.plan, limits |-> l, mrr |-> m]
<1>1. PICK q : q = [t EXCEPT !.limits = l]
  OBVIOUS
<1>2. q = [status |-> t.status, plan |-> t.plan, limits |-> l, mrr |-> t.mrr]
  BY <1>1 DEF CompanyRecord
<1>3. [q EXCEPT !.mrr = m] = [status |-> t.status, plan |-> t.plan, limits |-> l, mrr |-> m]
  BY <1>2
<1>4. [t EXCEPT !.limits = l, !.mrr = m] = [q EXCEPT !.mrr = m]
  BY <1>1
<1>5. QED
  BY <1>3, <1>4

LEMMA PlanSet ==
  ASSUME NEW t \in CompanyRecord, NEW p, NEW l, NEW m
  PROVE  [t EXCEPT !.plan = p, !.limits = l, !.mrr = m] = [status |-> t.status, plan |-> p, limits |-> l, mrr |-> m]
<1>1. PICK q : q = [t EXCEPT !.plan = p]
  OBVIOUS
<1>2. q = [status |-> t.status, plan |-> p, limits |-> t.limits, mrr |-> t.mrr]
  BY <1>1 DEF CompanyRecord
<1>3. PICK r : r = [q EXCEPT !.limits = l]
  OBVIOUS
<1>4. r = [status |-> t.status, plan |-> p, limits |-> l, mrr |-> t.mrr]
  BY <1>2, <1>3
<1>5. [r EXCEPT !.mrr = m] = [status |-> t.status, plan |-> p, limits |-> l, mrr |-> m]
  BY <1>4
<1>6. [t EXCEPT !.plan = p, !.limits = l, !.mrr = m] = [r EXCEPT !.mrr = m]
  BY <1>1, <1>3
<1>7. QED
  BY <1>5, <1>6

LEMMA Fitting ==
  ASSUME NEW s \in Statuses, NEW p \in PlanIds, NEW prices, prices[p] \in Terms, NEW m,
         m = IF Billable(s) THEN prices[p] ELSE 0
  PROVE  LET t == [status |-> s, plan |-> p, limits |-> prices[p], mrr |-> m]
         IN  t \in CompanyRecord /\ CompanyFits(t, prices) /\ t.status = s
BY PlatformAssumption DEF CompanyRecord, CompanyFits

LEMMA CompanyRequests ==
  ASSUME PlatformInv, NEW c \in Companies,
         \/ \E p \in PlanIds : changePlan(c, p) \/ \E startTrial \in BOOLEAN : createTenant(c, p, startTrial)
         \/ deleteTenant(c) \/ suspend(c) \/ activate(c) \/ invoice(c) \/ markPaid(c)
  PROVE  PlatformInv'
<1> DEFINE t == tenants[c]
<1>0. ASSUME t # NoCompany
      PROVE  t \in CompanyRecord /\ t.status \in Statuses /\ t.plan \in PlanIds /\ plans[t.plan] \in Terms
             /\ t.limits = plans[t.plan] /\ t.mrr = (IF Billable(t.status) THEN plans[t.plan] ELSE 0)
             /\ t = [status |-> t.status, plan |-> t.plan, limits |-> t.limits, mrr |-> t.mrr]
  BY <1>0, PlatformFacts DEF CompanyRecord, CompanyFits
<1>1. ASSUME NEW p \in PlanIds, changePlan(c, p) PROVE PlatformInv'
  <2> DEFINE n == [status |-> t.status, plan |-> p, limits |-> plans[p], mrr |-> planMrr(t.status, plans[p])]
  <2>1. t # NoCompany /\ p \in Sold /\ UNCHANGED <<plans, unpaid, platformStaff>>
        /\ tenants' = [tenants EXCEPT ![c] = [t EXCEPT !.plan = p, !.limits = plans[p], !.mrr = planMrr(t.status, plans[p])]]
    BY <1>1 DEF changePlan
  <2>2. tenants' = [tenants EXCEPT ![c] = n]
    <3>1. t \in CompanyRecord
      BY <2>1, <1>0
    <3>2. [t EXCEPT !.plan = p, !.limits = plans[p], !.mrr = planMrr(t.status, plans[p])] = n
      BY <3>1, PlanSet
    <3>3. QED
      BY <2>1, <3>2
  <2>3. plans[p] \in Terms
    BY <2>1, PlatformFacts DEF Sold
  <2>4. planMrr(t.status, plans[p]) = IF Billable(t.status) THEN plans[p] ELSE 0
    BY <2>1, <1>0 DEF planMrr, Billable, Statuses
  <2>5. n \in CompanyRecord /\ CompanyFits(n, plans) /\ n.status = t.status
    BY <2>1, <2>3, <2>4, <1>0, Fitting
  <2>6. t.status = "past_due" => unpaid[c] > 0
    BY <2>1, PlatformFacts
  <2>7. n # NoCompany
    BY <2>5, PlatformAssumption
  <2> HIDE DEF n
  <2>8. QED
    BY <2>1, <2>2, <2>5, <2>6, <2>7, InvoicesStay, CompanyChanges
<1>2. ASSUME NEW p \in PlanIds, NEW startTrial \in BOOLEAN, createTenant(c, p, startTrial) PROVE PlatformInv'
  <2> DEFINE s == IF startTrial THEN "trial" ELSE "active"
             n == [status |-> s, plan |-> p, limits |-> plans[p], mrr |-> IF startTrial THEN 0 ELSE plans[p]]
  <2>1. p \in Sold /\ UNCHANGED <<plans, unpaid, platformStaff>> /\ tenants' = [tenants EXCEPT ![c] = n]
    BY <1>2 DEF createTenant
  <2>2. plans[p] \in Terms
    BY <2>1, PlatformFacts DEF Sold
  <2>3. s \in Statuses /\ s # "past_due" /\ (IF startTrial THEN 0 ELSE plans[p]) = (IF Billable(s) THEN plans[p] ELSE 0)
    BY DEF Statuses, Billable
  <2>4. n \in CompanyRecord /\ CompanyFits(n, plans) /\ n.status = s
    BY <2>2, <2>3, Fitting
  <2>5. n # NoCompany
    BY <2>4, PlatformAssumption
  <2> HIDE DEF n
  <2>6. QED
    BY <2>1, <2>3, <2>4, <2>5, InvoicesStay, CompanyChanges
<1>3. CASE deleteTenant(c)
  <2>1. 0 \in 0..MaxInvoices
    BY PlatformFacts
  <2>2. QED
    BY <1>3, <2>1, CompanyChanges DEF deleteTenant
<1>4. CASE suspend(c)
  <2> DEFINE n == [status |-> "suspended", plan |-> t.plan, limits |-> t.limits, mrr |-> 0]
  <2>1. t # NoCompany /\ UNCHANGED <<plans, unpaid, platformStaff>>
        /\ tenants' = [tenants EXCEPT ![c] = [t EXCEPT !.status = "suspended", !.mrr = 0]]
    BY <1>4 DEF suspend
  <2>2. tenants' = [tenants EXCEPT ![c] = n]
    <3>1. t \in CompanyRecord
      BY <2>1, <1>0
    <3>2. [t EXCEPT !.status = "suspended", !.mrr = 0] = n
      BY <3>1, TwoSet
    <3>3. QED
      BY <2>1, <3>2
  <2>3. "suspended" \in Statuses /\ ~Billable("suspended")
    BY DEF Statuses, Billable
  <2>4. n \in CompanyRecord /\ CompanyFits(n, plans) /\ n.status = "suspended"
    <3>1. t.plan \in PlanIds /\ plans[t.plan] \in Terms /\ t.limits = plans[t.plan]
      BY <2>1, <1>0
    <3>2. QED
      BY <2>3, <3>1, Fitting
  <2>5. n # NoCompany
    BY <2>4, PlatformAssumption
  <2> HIDE DEF n
  <2>6. QED
    BY <2>1, <2>2, <2>4, <2>5, InvoicesStay, CompanyChanges
<1>5. CASE activate(c)
  <2> DEFINE n == [status |-> "active", plan |-> t.plan, limits |-> t.limits, mrr |-> plans[t.plan]]
  <2>1. t # NoCompany /\ UNCHANGED <<plans, unpaid, platformStaff>>
        /\ tenants' = [tenants EXCEPT ![c] = [t EXCEPT !.status = "active", !.mrr = plans[t.plan]]]
    BY <1>5 DEF activate
  <2>2. tenants' = [tenants EXCEPT ![c] = n]
    <3>1. t \in CompanyRecord
      BY <2>1, <1>0
    <3>2. [t EXCEPT !.status = "active", !.mrr = plans[t.plan]] = n
      BY <3>1, TwoSet
    <3>3. QED
      BY <2>1, <3>2
  <2>3. "active" \in Statuses /\ Billable("active")
    BY DEF Statuses, Billable
  <2>4. n \in CompanyRecord /\ CompanyFits(n, plans) /\ n.status = "active"
    <3>1. t.plan \in PlanIds /\ plans[t.plan] \in Terms /\ t.limits = plans[t.plan]
      BY <2>1, <1>0
    <3>2. QED
      BY <2>3, <3>1, Fitting
  <2>5. n # NoCompany
    BY <2>4, PlatformAssumption
  <2> HIDE DEF n
  <2>6. QED
    BY <2>1, <2>2, <2>4, <2>5, InvoicesStay, CompanyChanges
<1>6. CASE invoice(c)
  <2>1. t # NoCompany /\ unpaid[c] < MaxInvoices /\ unpaid' = [unpaid EXCEPT ![c] = unpaid[c] + 1]
        /\ UNCHANGED <<tenants, plans, platformStaff>>
    BY <1>6 DEF invoice
  <2>2. unpaid[c] + 1 \in 0..MaxInvoices /\ unpaid[c] + 1 > 0
    BY <2>1, PlatformFacts
  <2>3. tenants' = [tenants EXCEPT ![c] = t] /\ t \in CompanyRecord /\ CompanyFits(t, plans)
    BY <2>1, PlatformFacts
  <2> HIDE DEF t
  <2>4. QED
    BY <2>1, <2>2, <2>3, CompanyChanges
<1>7. CASE markPaid(c)
  <2> DEFINE n == IF t.status # "past_due" THEN t ELSE [t EXCEPT !.status = "active"]
  <2>1. unpaid[c] > 0 /\ unpaid' = [unpaid EXCEPT ![c] = unpaid[c] - 1] /\ UNCHANGED <<plans, platformStaff>>
        /\ tenants' = IF t.status # "past_due" THEN tenants ELSE [tenants EXCEPT ![c] = [t EXCEPT !.status = "active"]]
    BY <1>7 DEF markPaid
  <2>2. t # NoCompany /\ unpaid[c] - 1 \in 0..MaxInvoices
    BY <2>1, PlatformFacts
  <2>3. tenants' = [tenants EXCEPT ![c] = n]
    BY <2>1, PlatformFacts
  <2>4. n \in CompanyRecord /\ CompanyFits(n, plans) /\ n.status # "past_due"
    <3>1. CASE t.status # "past_due"
      BY <2>2, <3>1, PlatformFacts
    <3>2. CASE t.status = "past_due"
      <4> DEFINE k == [status |-> "active", plan |-> t.plan, limits |-> plans[t.plan], mrr |-> plans[t.plan]]
      <4>1. t = [status |-> t.status, plan |-> t.plan, limits |-> t.limits, mrr |-> t.mrr]
            /\ t.limits = plans[t.plan] /\ t.mrr = plans[t.plan] /\ t.plan \in PlanIds /\ plans[t.plan] \in Terms
        BY <2>2, <3>2, <1>0 DEF Billable
      <4>2. n = k
        BY <3>2, <4>1
      <4>3. "active" \in Statuses /\ Billable("active")
        BY DEF Statuses, Billable
      <4>4. k \in CompanyRecord /\ CompanyFits(k, plans) /\ k.status = "active"
        BY <4>1, <4>3, Fitting
      <4> HIDE DEF n, k
      <4>5. QED
        BY <4>2, <4>4
    <3>3. QED
      BY <3>1, <3>2
  <2>5. n # NoCompany
    BY <2>4, PlatformAssumption
  <2> HIDE DEF n
  <2>6. QED
    BY <2>1, <2>2, <2>3, <2>4, <2>5, CompanyChanges
<1>8. QED
  BY <1>1, <1>2, <1>3, <1>4, <1>5, <1>6, <1>7

LEMMA PlanRequests ==
  ASSUME PlatformInv, NEW p \in PlanIds,
         deletePlan(p) \/ \E price \in Terms : createPlan(p, price) \/ updatePlan(p, price)
  PROVE  PlatformInv'
<1>0. ASSUME NEW c \in Companies, tenants[c] # NoCompany
      PROVE  tenants[c].plan \in PlanIds /\ plans[tenants[c].plan] # NoPlan
  BY <1>0, PlatformFacts DEF CompanyRecord, CompanyFits
<1>1. CASE deletePlan(p)
  <2>1. plans' = [plans EXCEPT ![p] = NoPlan] /\ UNCHANGED <<tenants, unpaid, platformStaff>>
        /\ \A c \in Companies : tenants[c] # NoCompany => tenants[c].plan # p
    BY <1>1 DEF deletePlan, Booked
  <2>2. \A c \in Companies : tenants[c] # NoCompany => plans'[tenants[c].plan] = plans[tenants[c].plan]
    BY <2>1, <1>0, PlatformFacts
  <2>3. PlatformTypeOK' /\ OwnerRemains'
    BY <2>1, PlatformFacts DEF PlatformTypeOK, OwnerRemains, Supers
  <2>4. QED
    BY <2>1, <2>2, <2>3, PlatformFacts, PlatformHolds DEF CompanyFits
<1>2. ASSUME NEW price \in Terms, createPlan(p, price) PROVE PlatformInv'
  <2>1. plans[p] = NoPlan /\ plans' = [plans EXCEPT ![p] = price] /\ UNCHANGED <<tenants, unpaid, platformStaff>>
    BY <1>2 DEF createPlan
  <2>2. \A c \in Companies : tenants[c] # NoCompany => plans'[tenants[c].plan] = plans[tenants[c].plan]
    BY <2>1, <1>0, PlatformFacts
  <2>3. PlatformTypeOK' /\ OwnerRemains'
    BY <2>1, PlatformFacts DEF PlatformTypeOK, OwnerRemains, Supers
  <2>4. QED
    BY <2>1, <2>2, <2>3, PlatformFacts, PlatformHolds DEF CompanyFits
<1>3. ASSUME NEW price \in Terms, updatePlan(p, price) PROVE PlatformInv'
  <2>1. plans' = [plans EXCEPT ![p] = price] /\ UNCHANGED <<unpaid, platformStaff>>
        /\ tenants' = [c \in Companies |-> Repriced(tenants[c], p, price)]
    BY <1>3 DEF updatePlan
  <2>2. \A q \in PlanIds : plans'[q] = IF q = p THEN price ELSE plans[q]
    BY <2>1, PlatformFacts
  <2>3. ASSUME NEW c \in Companies
        PROVE  /\ tenants'[c] = NoCompany <=> tenants[c] = NoCompany
               /\ tenants'[c] \in CompanyRecord \cup {NoCompany}
               /\ tenants[c] # NoCompany => tenants'[c].status = tenants[c].status /\ CompanyFits(tenants'[c], plans')
    <3> DEFINE t == tenants[c]
    <3>1. tenants'[c] = Repriced(t, p, price)
      BY <2>1
    <3>2. CASE t = NoCompany \/ t.plan # p
      <4>1. tenants'[c] = t
        BY <3>1, <3>2 DEF Repriced
      <4>2. t # NoCompany => plans'[t.plan] = plans[t.plan]
        BY <3>2, <1>0, <2>2
      <4>3. QED
        BY <4>1, <4>2, PlatformFacts DEF CompanyFits
    <3>3. CASE t # NoCompany /\ t.plan = p
      <4> DEFINE m == IF Billable(t.status) THEN price ELSE t.mrr
                 n == [status |-> t.status, plan |-> t.plan, limits |-> price, mrr |-> m]
      <4>1. t \in CompanyRecord /\ CompanyFits(t, plans)
        BY <3>3, PlatformFacts
      <4>2. tenants'[c] = [t EXCEPT !.limits = price, !.mrr = m]
        BY <3>1, <3>3 DEF Repriced
      <4>3. tenants'[c] = n
        BY <4>1, <4>2, LimitsSet
      <4>4. m = IF Billable(t.status) THEN price ELSE 0
        BY <4>1 DEF CompanyFits
      <4>5. t.status \in Statuses /\ t.plan \in PlanIds /\ plans'[t.plan] = price
        BY <4>1, <3>3, <2>2 DEF CompanyRecord
      <4>6. n \in CompanyRecord /\ n.status = t.status
        BY <4>4, <4>5 DEF CompanyRecord
      <4>7. CompanyFits(n, plans')
        BY <4>4, <4>5, PlatformAssumption DEF CompanyFits
      <4> HIDE DEF n, m
      <4>8. QED
        BY <3>3, <4>3, <4>6, <4>7, PlatformAssumption
    <3>4. QED
      BY <3>2, <3>3
  <2>4. PlatformTypeOK' /\ OwnerRemains'
    <3>1. tenants' \in [Companies -> CompanyRecord \cup {NoCompany}]
      BY <2>1, <2>3
    <3>2. plans' \in [PlanIds -> Terms \cup {NoPlan}]
      BY <2>1, PlatformFacts
    <3>3. QED
      BY <2>1, <3>1, <3>2, PlatformFacts DEF PlatformTypeOK, OwnerRemains, Supers
  <2>5. QED
    BY <2>1, <2>3, <2>4, PlatformFacts, PlatformHolds
<1>4. QED
  BY <1>1, <1>2, <1>3

\* If there were two owners, one is left whoever goes.
LEMMA AnotherOwner ==
  ASSUME NEW m, ~(m \in Supers /\ Cardinality(Supers) <= 1), Supers # {}
  PROVE  \E o \in Supers : o # m
<1>1. PICK S : S = Supers
  OBVIOUS
<1>2. S \in SUBSET Managers /\ IsFiniteSet(Managers)
  BY <1>1, PlatformAssumption DEF Supers
<1>3. IsFiniteSet(S) /\ Cardinality(S) \in Nat
  BY <1>2, FS_Subset, FS_CardinalityType
<1>4. CASE m \notin S
  BY <1>1, <1>4
<1>5. CASE m \in S
  <2>1. Cardinality(S) # 1
    BY <1>1, <1>3, <1>5
  <2>2. S # {m}
    BY <2>1, FS_Singleton
  <2>3. QED
    BY <1>1, <1>5, <2>2
<1>6. QED
  BY <1>4, <1>5

LEMMA StaffRequests ==
  ASSUME PlatformInv, NEW m \in Managers,
         \/ revoke(m)
         \/ \E super \in BOOLEAN : invite(m, super)
         \/ \E change \in [super : BOOLEAN, active : BOOLEAN] : updateStaff(m, change)
  PROVE  PlatformInv'
<1> DEFINE Member == [super : BOOLEAN, active : BOOLEAN]
<1>1. PICK s \in Member \cup {NoStaff} :
        /\ platformStaff' = [platformStaff EXCEPT ![m] = s] /\ UNCHANGED <<tenants, plans, unpaid>>
        /\ m \in Supers /\ Cardinality(Supers) <= 1 => s # NoStaff /\ s.super /\ s.active
  <2>1. CASE revoke(m)
    <3>1. ~(m \in Supers /\ Cardinality(Supers) <= 1)
      BY <2>1 DEF revoke, Supers
    <3>2. QED
      BY <2>1, <3>1 DEF revoke
  <2>2. ASSUME NEW super \in BOOLEAN, invite(m, super)
        PROVE  \E s \in Member \cup {NoStaff} :
                 /\ platformStaff' = [platformStaff EXCEPT ![m] = s] /\ UNCHANGED <<tenants, plans, unpaid>>
                 /\ m \in Supers /\ Cardinality(Supers) <= 1 => s # NoStaff /\ s.super /\ s.active
    <3>1. m \notin Supers
      BY <2>2 DEF invite, Supers
    <3>2. [super |-> super, active |-> TRUE] \in Member
      OBVIOUS
    <3>3. QED
      BY <2>2, <3>1, <3>2 DEF invite
  <2>3. ASSUME NEW change \in Member, updateStaff(m, change)
        PROVE  \E s \in Member \cup {NoStaff} :
                 /\ platformStaff' = [platformStaff EXCEPT ![m] = s] /\ UNCHANGED <<tenants, plans, unpaid>>
                 /\ m \in Supers /\ Cardinality(Supers) <= 1 => s # NoStaff /\ s.super /\ s.active
    <3>1. m \in Supers /\ Cardinality(Supers) <= 1 => change # NoStaff /\ change.super /\ change.active
      BY <2>3, PlatformAssumption DEF updateStaff, demoting, Supers
    <3>2. QED
      BY <2>3, <3>1 DEF updateStaff
  <2>4. QED
    BY <2>1, <2>2, <2>3
<1>2. PlatformTypeOK'
  BY <1>1, PlatformFacts DEF PlatformTypeOK
<1>3. \A o \in Managers : platformStaff'[o] = IF o = m THEN s ELSE platformStaff[o]
  BY <1>1, PlatformFacts
<1>4. OwnerRemains'
  <2>1. CASE m \in Supers /\ Cardinality(Supers) <= 1
    BY <2>1, <1>1, <1>3 DEF OwnerRemains, Supers
  <2>2. CASE ~(m \in Supers /\ Cardinality(Supers) <= 1)
    <3>1. PICK o \in Supers : o # m
      BY <2>2, AnotherOwner, PlatformFacts
    <3>2. o \in Supers'
      BY <3>1, <1>3 DEF Supers
    <3>3. QED
      BY <3>2 DEF OwnerRemains
  <2>3. QED
    BY <2>1, <2>2
<1>5. QED
  BY <1>1, <1>2, <1>4, PlatformFacts, PlatformHolds

LEMMA PlatformStep == PlatformInv /\ [PlatformNext]_platformVars => PlatformInv'
<1> SUFFICES ASSUME PlatformInv, [PlatformNext]_platformVars PROVE PlatformInv'
  OBVIOUS
<1>1. CASE UNCHANGED platformVars
  BY <1>1, PlatformFacts, PlatformHolds DEF platformVars, PlatformTypeOK, OwnerRemains, Supers
<1>2. CASE PlatformNext
  BY <1>2, CompanyRequests, PlanRequests, StaffRequests DEF PlatformNext
<1>3. QED
  BY <1>1, <1>2

-----------------------------------------------------------------------------
\* The figures of the revenue page are sums of copies that agree.
LEMMA SharesAddUp == PlatformInv => BooksBalance
<1> SUFFICES ASSUME PlatformInv PROVE BooksBalance
  OBVIOUS
<1> DEFINE n == [c \in Booked |-> tenants[c].mrr]
           X == Pairs(n, Booked)
           own == [x \in X |-> tenants[x[1]].plan]
           s == [p \in byPlan |-> revenueOf(companiesOn(p))]
<1>1. /\ Booked \in SUBSET Companies /\ IsFiniteSet(Companies)
      /\ \A c \in Booked : /\ tenants[c].plan \in Sold /\ tenants[c].limits = plans[tenants[c].plan]
                           /\ tenants[c].mrr = (IF Billable(tenants[c].status) THEN plans[tenants[c].plan] ELSE 0)
                           /\ tenants[c].mrr \in Nat
                           /\ tenants[c].mrr > 0 <=> Billable(tenants[c].status)
  <2>1. ASSUME NEW c \in Booked
        PROVE  /\ tenants[c].plan \in PlanIds /\ plans[tenants[c].plan] \in Terms
               /\ CompanyFits(tenants[c], plans)
    BY PlatformFacts DEF Booked, CompanyRecord, CompanyFits
  <2>2. ASSUME NEW c \in Booked
        PROVE  /\ tenants[c].plan \in Sold /\ tenants[c].limits = plans[tenants[c].plan]
               /\ tenants[c].mrr = (IF Billable(tenants[c].status) THEN plans[tenants[c].plan] ELSE 0)
    BY <2>1, PlatformAssumption DEF Sold, CompanyFits
  <2>3. ASSUME NEW c \in Booked
        PROVE  tenants[c].mrr \in Nat /\ (tenants[c].mrr > 0 <=> Billable(tenants[c].status))
    <3>1. PICK price \in Terms : price = plans[tenants[c].plan]
      BY <2>1
    <3>2. price \in Nat \ {0}
      BY PlatformAssumption
    <3>3. CASE Billable(tenants[c].status)
      BY <3>1, <3>2, <3>3, <2>2
    <3>4. CASE ~Billable(tenants[c].status)
      BY <3>4, <2>2
    <3>5. QED
      BY <3>3, <3>4
  <2>4. Booked \in SUBSET Companies /\ IsFiniteSet(Companies)
    BY PlatformAssumption DEF Booked
  <2>5. QED
    BY <2>2, <2>3, <2>4
<1>2. \A S \in SUBSET Booked : /\ revenueOf(S) = Cardinality(Pairs(n, S))
                               /\ IsFiniteSet(S) /\ \A c \in S : n[c] \in Nat
  <2> SUFFICES ASSUME NEW S \in SUBSET Booked
               PROVE  revenueOf(S) = Cardinality(Pairs(n, S)) /\ IsFiniteSet(S) /\ \A c \in S : n[c] \in Nat
    OBVIOUS
  <2>1. \A c \in S : n[c] = tenants[c].mrr
    OBVIOUS
  <2>2. {{c} \X (1..tenants[c].mrr) : c \in S} = {{c} \X (1..n[c]) : c \in S}
    BY <2>1
  <2>3. S \in SUBSET Companies
    BY <1>1
  <2>4. IsFiniteSet(S)
    BY <1>1, <2>3, FS_Subset
  <2> HIDE DEF n
  <2>5. QED
    BY <1>1, <2>1, <2>2, <2>4 DEF revenueOf, Pairs
<1>3. \A p : companiesOn(p) \in SUBSET Booked
  BY DEF companiesOn
<1> HIDE DEF n
<1>4. IsFiniteSet(X)
  BY <1>2, FinitePairs
<1>5. \A x \in X : x[1] \in Booked
  BY InPairs
<1>6. own \in [X -> byPlan]
  <2> SUFFICES ASSUME NEW x \in X PROVE tenants[x[1]].plan \in byPlan
    OBVIOUS
  <2>1. x[1] \in companiesOn(tenants[x[1]].plan)
    BY <1>5 DEF companiesOn
  <2>2. QED
    BY <2>1, <1>1, <1>5 DEF byPlan
<1>7. ASSUME NEW p \in byPlan
      PROVE  s[p] = Cardinality({x \in X : own[x] = p})
  <2>1. \A x : x \in Pairs(n, companiesOn(p)) <=> x \in X /\ own[x] = p
    <3> SUFFICES ASSUME NEW x PROVE x \in Pairs(n, companiesOn(p)) <=> x \in X /\ own[x] = p
      OBVIOUS
    <3>1. x \in Pairs(n, companiesOn(p)) <=> \E c \in companiesOn(p) : \E i \in 1..n[c] : x = <<c, i>>
      BY InPairs
    <3>2. x \in X <=> \E c \in Booked : \E i \in 1..n[c] : x = <<c, i>>
      BY InPairs
    <3>3. \A c, i : x = <<c, i>> => x[1] = c
      OBVIOUS
    <3>4. x \in X => own[x] = tenants[x[1]].plan
      OBVIOUS
    <3> HIDE DEF X, own
    <3>5. QED
      BY <3>1, <3>2, <3>3, <3>4 DEF companiesOn
  <2>2. Pairs(n, companiesOn(p)) = {x \in X : own[x] = p}
    BY <2>1
  <2>3. QED
    BY <2>2, <1>2, <1>3
<1>8. shares = Cardinality(Pairs(s, byPlan))
  <2>1. \A p \in byPlan : s[p] = revenueOf(companiesOn(p))
    OBVIOUS
  <2>2. {{p} \X (1..revenueOf(companiesOn(p))) : p \in byPlan} = {{p} \X (1..s[p]) : p \in byPlan}
    BY <2>1
  <2> HIDE DEF s
  <2>3. QED
    BY <2>2 DEF shares, Pairs
<1> HIDE DEF X, own, s
<1>9. Cardinality(Pairs(s, byPlan)) = Cardinality(X)
  BY <1>4, <1>6, <1>7, PartsAddUp
<1>10. revenueTotals.mrr = shares
  BY <1>2, <1>8, <1>9 DEF revenueTotals, X
<1>11. ASSUME NEW p \in byPlan
       PROVE  revenueOf(companiesOn(p)) > 0 <=> \E c \in companiesOn(p) : Billable(tenants[c].status)
  <2>1. PICK S : S = companiesOn(p)
    OBVIOUS
  <2>2. S \in SUBSET Booked /\ IsFiniteSet(S) /\ \A c \in S : n[c] \in Nat
    BY <2>1, <1>2, <1>3
  <2>3. Cardinality(Pairs(n, S)) > 0 <=> \E c \in S : n[c] > 0
    BY <2>2, PairsPositive
  <2>4. \A c \in S : n[c] > 0 <=> Billable(tenants[c].status)
    BY <2>2, <1>1 DEF n
  <2>5. QED
    BY <2>1, <2>2, <2>3, <2>4, <1>2
<1>12. QED
  BY <1>1, <1>10, <1>11 DEF BooksBalance

LEMMA ConsoleHolds == PlatformInv => ConsoleConsistent
BY SharesAddUp DEF ConsoleConsistent, PlatformInv

-----------------------------------------------------------------------------
(***************************************************************************)
(* Accounts of the demo workspace. An account's figures are those of the   *)
(* logs of its number; that a new account begins with none rests on a free *)
(* number having no logs.                                                  *)
(***************************************************************************)

\* Numbers that are used once each, and only by an account.
OwnNumbers ==
  /\ \A e, f \in Present : accounts[e].ext = accounts[f].ext => e = f
  /\ \A x \in TeamExts \ UsedExts : callLogs[x].completed = 0 /\ callLogs[x].other = 0

RowAgrees(a) ==
  /\ a.role \notin edited => a.grant = roles[a.role]
  /\ a.manager \in Present \cup {NoRow} /\ (a.named => a.manager # NoRow)

DemoTeamInv ==
  /\ DemoTeamTypeOK
  /\ Seeded \in Present
  /\ signedIn # NoRow => signedIn.who \in Present
  /\ \A e \in Present : RowAgrees(accounts[e])
  /\ signedIn # NoRow /\ ~stale => signedIn.grant = roles[accounts[signedIn.who].role]
  /\ ~typed => OwnNumbers

LEMMA DemoTeamStart == DemoTeamInit => DemoTeamInv
<1> SUFFICES ASSUME DemoTeamInit PROVE DemoTeamInv
  OBVIOUS
<1>1. PICK g \in Leading :
        /\ roles = [r \in RoleIds |-> g]
        /\ accounts = [e \in Logins |->
            IF e = Seeded THEN [role |-> System, grant |-> g, ext |-> 1, active |-> TRUE,
                                manager |-> NoRow, named |-> FALSE] ELSE NoRow]
  BY DEF DemoTeamInit
<1> DEFINE first == [role |-> System, grant |-> g, ext |-> 1, active |-> TRUE, manager |-> NoRow, named |-> FALSE]
<1>2. first \in AccountRow /\ first # NoRow
  <2>1. 1 \in 1..LastExt /\ System \in RoleIds /\ g \in RoleKinds
    BY DemoTeamAssumption
  <2>2. first \in AccountRow
    BY <2>1 DEF AccountRow
  <2> HIDE DEF first
  <2>3. QED
    BY <2>2, DemoTeamAssumption
<1>3. accounts[Seeded] = first /\ \A e \in Logins : e # Seeded => accounts[e] = NoRow
  BY <1>1, DemoTeamAssumption
<1>4. Present = {Seeded}
  BY <1>2, <1>3, DemoTeamAssumption DEF Present
<1>5. /\ signedIn = NoRow /\ callLogs = [x \in TeamExts |-> [completed |-> 0, other |-> 0]]
      /\ teamEdits = 0 /\ edited = {} /\ stale = FALSE /\ typed = FALSE
  BY DEF DemoTeamInit
<1>6. DemoTeamTypeOK
  <2>1. accounts \in [Logins -> AccountRow \cup {NoRow}]
    BY <1>1, <1>2
  <2>2. roles \in [RoleIds -> RoleKinds \cup {NoRow}]
    BY <1>1, DemoTeamAssumption
  <2>3. [completed |-> 0, other |-> 0] \in CallCount
    BY DemoTeamAssumption DEF CallCount
  <2>4. callLogs \in [TeamExts -> CallCount]
    BY <1>5, <2>3
  <2>5. 0 \in 0..MaxTeamEdits
    BY DemoTeamAssumption
  <2>6. QED
    BY <1>5, <2>1, <2>2, <2>4, <2>5 DEF DemoTeamTypeOK
<1>7. RowAgrees(accounts[Seeded])
  BY <1>1, <1>3, DemoTeamAssumption DEF RowAgrees
<1>8. OwnNumbers
  BY <1>4, <1>5 DEF OwnNumbers
<1>9. QED
  BY <1>4, <1>5, <1>6, <1>7, <1>8 DEF DemoTeamInv

LEMMA DemoTeamFacts ==
  ASSUME DemoTeamInv
  PROVE  /\ accounts \in [Logins -> AccountRow \cup {NoRow}]
         /\ roles \in [RoleIds -> RoleKinds \cup {NoRow}]
         /\ signedIn \in Profile \cup {NoRow}
         /\ callLogs \in [TeamExts -> CallCount]
         /\ teamEdits \in 0..MaxTeamEdits /\ edited \subseteq RoleIds /\ stale \in BOOLEAN /\ typed \in BOOLEAN
         /\ Self \in Logins /\ accounts[Self] # NoRow
         /\ SelfExt \in TeamExts /\ SelfExt \in UsedExts
         /\ \A e \in Present : e \in Logins /\ accounts[e] \in AccountRow /\ accounts[e] # NoRow
         /\ NoRow \notin Logins /\ NoRow \notin RoleKinds /\ NoRow \notin AccountRow /\ NoRow \notin Profile
         /\ UsedExts \in SUBSET TeamExts
<1>1. DemoTeamTypeOK
  BY DEF DemoTeamInv
<1>2. NoRow \notin Logins /\ NoRow \notin RoleKinds /\ NoRow \notin AccountRow /\ NoRow \notin Profile
  BY DemoTeamAssumption
<1>3. \A e \in Present : e \in Logins /\ accounts[e] \in AccountRow /\ accounts[e] # NoRow
  BY <1>1 DEF DemoTeamTypeOK, Present
<1>4. Self \in Present
  BY DEF Self, DemoTeamInv
<1>5. \A e \in Present : accounts[e].ext \in TeamExts
  BY <1>3 DEF AccountRow, TeamExts
<1>6. SelfExt \in TeamExts /\ SelfExt \in UsedExts
  BY <1>4, <1>5 DEF SelfExt, UsedExts
<1>7. UsedExts \in SUBSET TeamExts
  BY <1>5 DEF UsedExts
<1>8. QED
  BY <1>1, <1>2, <1>3, <1>4, <1>6, <1>7 DEF DemoTeamTypeOK, Present

\* The proposed extension is above every one in use.
LEMMA NextIsFree ==
  ASSUME DemoTeamInv
  PROVE  NextExt \notin UsedExts
<1> DEFINE U == {0} \cup UsedExts
<1>1. U \subseteq 0..LastExt /\ LastExt \in Nat /\ 0 \in U
  BY DemoTeamFacts, DemoTeamAssumption DEF TeamExts
<1> HIDE DEF U
<1>2. \E x \in U : \A y \in U : y <= x
  BY <1>1, LargestOf
<1>3. \E x \in U : \A y \in U : x >= y
  BY <1>1, <1>2
<1>4. Max(U) \in U /\ \A y \in U : Max(U) >= y
  BY <1>3 DEF Max
<1>5. Max(U) + 1 \notin U
  <2>1. PICK k : k = Max(U)
    OBVIOUS
  <2>2. k \in U /\ \A y \in U : k >= y
    BY <1>4, <2>1
  <2>3. k + 1 \notin U
    <3>1. k \in 0..LastExt
      BY <1>1, <2>2
    <3>2. ~(k >= k + 1)
      BY <1>1, <3>1
    <3>3. QED
      BY <2>2, <3>2
  <2>4. QED
    BY <2>1, <2>3
<1>6. NextExt = Max(U) + 1
  BY DEF NextExt, U
<1>7. QED
  BY <1>5, <1>6 DEF U

\* One row is written: its copies agree, and its extension is its own if all are.
LEMMA RowWritten ==
  ASSUME DemoTeamInv, NEW e \in Logins, NEW n \in AccountRow, accounts' = [accounts EXCEPT ![e] = n],
         UNCHANGED <<roles, signedIn, callLogs, edited>>,
         teamEdits' \in 0..MaxTeamEdits, stale' \in BOOLEAN, typed' \in BOOLEAN,
         RowAgrees(n),
         signedIn # NoRow /\ ~stale' => ~stale /\ signedIn.who # e,
         ~typed' => ~typed /\ (IF accounts[e] = NoRow THEN n.ext \notin UsedExts ELSE n.ext = accounts[e].ext)
  PROVE  DemoTeamInv'
<1>1. \A f \in Logins : accounts'[f] = IF f = e THEN n ELSE accounts[f]
  BY DemoTeamFacts
<1>2. n # NoRow
  BY DemoTeamFacts
<1>3. Present' = Present \cup {e}
  BY <1>1, <1>2 DEF Present
<1>4. accounts' \in [Logins -> AccountRow \cup {NoRow}]
  BY DemoTeamFacts
<1>5. DemoTeamTypeOK'
  BY <1>4, DemoTeamFacts DEF DemoTeamTypeOK
<1>6. Seeded \in Present' /\ (signedIn # NoRow => signedIn.who \in Present')
  BY <1>3 DEF DemoTeamInv
<1>7. (\A f \in Present : RowAgrees(accounts[f]))'
  <2> SUFFICES ASSUME NEW f \in Present' PROVE RowAgrees(accounts[f])'
    OBVIOUS
  <2>1. CASE f = e
    <3>1. accounts'[f] = n
      BY <2>1, <1>1
    <3>2. QED
      BY <3>1, <1>3 DEF RowAgrees
  <2>2. CASE f # e
    <3>1. f \in Present /\ f \in Logins
      BY <2>2, <1>3 DEF Present
    <3>2. accounts'[f] = accounts[f]
      BY <2>2, <3>1, <1>1
    <3>3. RowAgrees(accounts[f])
      BY <3>1 DEF DemoTeamInv
    <3>4. QED
      BY <3>2, <3>3, <1>3 DEF RowAgrees
  <2>3. QED
    BY <2>1, <2>2
<1>8. signedIn # NoRow /\ ~stale' => signedIn.grant = roles[accounts'[signedIn.who].role]
  BY <1>1, DemoTeamFacts DEF DemoTeamInv, Present
<1>9. ASSUME ~typed' PROVE OwnNumbers'
  <2>1. OwnNumbers /\ (IF accounts[e] = NoRow THEN n.ext \notin UsedExts ELSE n.ext = accounts[e].ext)
    BY <1>9 DEF DemoTeamInv
  <2>2. \A f \in Present : accounts[f].ext \in UsedExts /\ f \in Logins /\ accounts[f] # NoRow
    BY DEF UsedExts, Present
  <2>3. \A f \in Present : f # e => accounts[f].ext # n.ext
    BY <2>1, <2>2 DEF OwnNumbers, Present
  <2>4. \A f, h \in Present' : accounts'[f].ext = accounts'[h].ext => f = h
    BY <1>1, <1>3, <2>1, <2>2, <2>3 DEF OwnNumbers
  <2>5. \A f \in Present : accounts[f].ext \in UsedExts'
    <3> SUFFICES ASSUME NEW f \in Present PROVE accounts[f].ext \in UsedExts'
      OBVIOUS
    <3>1. f \in Present' /\ accounts'[f].ext = accounts[f].ext
      BY <1>1, <1>3, <2>1, <2>2
    <3>2. QED
      BY <3>1 DEF UsedExts
  <2>6. UsedExts \subseteq UsedExts'
    BY <2>5 DEF UsedExts
  <2>7. QED
    BY <2>1, <2>4, <2>6 DEF OwnNumbers, TeamExts
<1>10. QED
  BY <1>5, <1>6, <1>7, <1>8, <1>9 DEF DemoTeamInv

\* A role is written or deleted: its rows no longer need to agree with it.
LEMMA RoleWritten ==
  ASSUME DemoTeamInv, NEW r \in RoleIds, NEW g \in RoleKinds \cup {NoRow},
         Edit, Touches(r), roles' = [roles EXCEPT ![r] = g]
  PROVE  DemoTeamInv'
<1>1. /\ UNCHANGED <<accounts, signedIn, callLogs, typed>> /\ edited' = edited \cup {r} /\ stale' = TRUE
      /\ teamEdits' \in 0..MaxTeamEdits
  BY DemoTeamFacts, DemoTeamAssumption DEF Edit, Touches
<1>2. DemoTeamTypeOK'
  BY <1>1, DemoTeamFacts DEF DemoTeamTypeOK
<1>3. Present' = Present
  BY <1>1 DEF Present
<1>4. \A q \in RoleIds : q # r => roles'[q] = roles[q]
  BY DemoTeamFacts
<1>5. \A e \in Present : RowAgrees(accounts[e])'
  BY <1>1, <1>3, <1>4, DemoTeamFacts DEF DemoTeamInv, RowAgrees, AccountRow
<1>6. OwnNumbers => OwnNumbers'
  BY <1>1, <1>3 DEF OwnNumbers, UsedExts, TeamExts
<1>7. QED
  BY <1>1, <1>2, <1>3, <1>5, <1>6 DEF DemoTeamInv

LEMMA RowPatched ==
  ASSUME NEW a \in AccountRow, NEW r, NEW m, NEW on
  PROVE  patchedRow(a, r, m, on) =
           [role |-> r, grant |-> IF roles[r] = NoRow THEN a.grant ELSE roles[r], ext |-> a.ext,
            active |-> on, manager |-> m, named |-> m # NoRow]
<1> DEFINE g == IF roles[r] = NoRow THEN a.grant ELSE roles[r]
<1>1. PICK b : b = [a EXCEPT !.role = r]
  OBVIOUS
<1>2. b = [role |-> r, grant |-> a.grant, ext |-> a.ext, active |-> a.active, manager |-> a.manager, named |-> a.named]
  BY <1>1 DEF AccountRow
<1>3. PICK c : c = [b EXCEPT !.grant = g]
  OBVIOUS
<1>4. c = [role |-> r, grant |-> g, ext |-> a.ext, active |-> a.active, manager |-> a.manager, named |-> a.named]
  BY <1>2, <1>3
<1>5. PICK d : d = [c EXCEPT !.active = on]
  OBVIOUS
<1>6. d = [role |-> r, grant |-> g, ext |-> a.ext, active |-> on, manager |-> a.manager, named |-> a.named]
  BY <1>4, <1>5
<1>7. PICK f : f = [d EXCEPT !.manager = m]
  OBVIOUS
<1>8. f = [role |-> r, grant |-> g, ext |-> a.ext, active |-> on, manager |-> m, named |-> a.named]
  BY <1>6, <1>7
<1>9. [f EXCEPT !.named = m # NoRow] = [role |-> r, grant |-> g, ext |-> a.ext, active |-> on,
                                        manager |-> m, named |-> m # NoRow]
  BY <1>8
<1>10. patchedRow(a, r, m, on) = [f EXCEPT !.named = m # NoRow]
  <2>1. patchedRow(a, r, m, on) =
          [a EXCEPT !.role = r, !.grant = g, !.active = on, !.manager = m, !.named = m # NoRow]
    BY <1>1, <1>2 DEF patchedRow
  <2> HIDE DEF g
  <2>2. QED
    BY <2>1, <1>1, <1>3, <1>5, <1>7
<1>11. QED
  BY <1>9, <1>10

LEMMA AccountRequests ==
  ASSUME DemoTeamInv, NEW e \in Logins, NEW r \in RoleIds, NEW m \in Logins \cup {NoRow},
         \/ \E x \in TeamExts : createAccount(e, r, x, m)
         \/ \E on \in BOOLEAN : patchAccount(e, r, m, on)
  PROVE  DemoTeamInv'
<1>0. \A f : f \in LeadersFor(e) => f \in Present \cup {NoRow}
  BY DEF LeadersFor
<1>1. ASSUME NEW x \in TeamExts, createAccount(e, r, x, m) PROVE DemoTeamInv'
  <2> DEFINE n == [role |-> r, grant |-> roles[r], ext |-> x, active |-> TRUE, manager |-> m, named |-> m # NoRow]
  <2>1. /\ Edit /\ accounts[e] = NoRow /\ r \in Standing /\ m \in LeadersFor(e)
        /\ accounts' = [accounts EXCEPT ![e] = n] /\ typed' = (typed \/ x # NextExt)
        /\ UNCHANGED <<roles, edited, stale>>
    BY <1>1 DEF createAccount
  <2>2. UNCHANGED <<signedIn, callLogs>> /\ teamEdits' \in 0..MaxTeamEdits /\ stale' \in BOOLEAN /\ typed' \in BOOLEAN
    BY <2>1, DemoTeamFacts, DemoTeamAssumption DEF Edit
  <2>3. roles[r] \in RoleKinds
    BY <2>1, DemoTeamFacts DEF Standing
  <2>4. n \in AccountRow
    BY <2>3 DEF AccountRow, TeamExts
  <2>5. RowAgrees(n)
    BY <2>1, <1>0 DEF RowAgrees
  <2>6. signedIn # NoRow => signedIn.who # e
    BY <2>1 DEF DemoTeamInv, Present
  <2>7. ~typed' => ~typed /\ x \notin UsedExts
    BY <2>1, NextIsFree
  <2>8. n.ext = x
    OBVIOUS
  <2> HIDE DEF n
  <2>9. QED
    BY <2>1, <2>2, <2>4, <2>5, <2>6, <2>7, <2>8, RowWritten
<1>2. ASSUME NEW on \in BOOLEAN, patchAccount(e, r, m, on) PROVE DemoTeamInv'
  <2> DEFINE a == accounts[e]
             g == IF roles[r] = NoRow THEN a.grant ELSE roles[r]
             n == [role |-> r, grant |-> g, ext |-> a.ext, active |-> on, manager |-> m, named |-> m # NoRow]
  <2>1. /\ Edit /\ a # NoRow /\ r \in Standing \cup {a.role} /\ m \in LeadersFor(e) \cup {a.manager}
        /\ accounts' = [accounts EXCEPT ![e] = patchedRow(a, r, m, on)]
        /\ stale' = (stale \/ Self = e) /\ UNCHANGED <<roles, edited, typed>>
    BY <1>2 DEF patchAccount
  <2>2. UNCHANGED <<signedIn, callLogs>> /\ teamEdits' \in 0..MaxTeamEdits /\ stale' \in BOOLEAN /\ typed' \in BOOLEAN
    BY <2>1, DemoTeamFacts, DemoTeamAssumption DEF Edit
  <2>3. a \in AccountRow /\ e \in Present /\ RowAgrees(a)
    BY <2>1, DemoTeamFacts DEF Present, DemoTeamInv
  <2>4. patchedRow(a, r, m, on) = n
    BY <2>3, RowPatched
  <2>5. g \in RoleKinds
    BY <2>3, DemoTeamFacts DEF AccountRow
  <2>6. n \in AccountRow
    BY <2>3, <2>5 DEF AccountRow
  <2>7. RowAgrees(n)
    <3>1. r \notin edited => g = roles[r]
      BY <2>1, <2>3 DEF RowAgrees, Standing
    <3>2. m \in Present \cup {NoRow}
      BY <2>1, <2>3, <1>0 DEF RowAgrees
    <3>3. QED
      BY <3>1, <3>2 DEF RowAgrees
  <2>8. signedIn # NoRow /\ ~stale' => ~stale /\ signedIn.who # e
    BY <2>1 DEF Self
  <2>9. n.ext = a.ext
    OBVIOUS
  <2> HIDE DEF n
  <2>10. QED
    BY <2>1, <2>2, <2>4, <2>6, <2>7, <2>8, <2>9, RowWritten
<1>3. QED
  BY <1>1, <1>2

LEMMA RoleRequests ==
  ASSUME DemoTeamInv, NEW r \in RoleIds,
         \/ deleteRole(r)
         \/ \E g \in RoleKinds : createRole(r, g) \/ patchRole(r, g)
         \/ \E of \in RoleIds : cloneRole(r, of)
  PROVE  DemoTeamInv'
<1>1. \E g \in RoleKinds \cup {NoRow} : Edit /\ Touches(r) /\ roles' = [roles EXCEPT ![r] = g]
  BY DemoTeamFacts DEF deleteRole, createRole, patchRole, cloneRole, Standing
<1>2. QED
  BY <1>1, RoleWritten

\* Who is signed in changes.
LEMMA SessionRequests ==
  ASSUME DemoTeamInv, signOut \/ \E e \in Logins : signIn(e)
  PROVE  DemoTeamInv'
<1>1. UNCHANGED <<accounts, roles, callLogs, teamEdits, edited, typed>> /\ stale' = FALSE
  BY DEF signOut, signIn
<1>2. \/ signedIn' = NoRow
      \/ \E e \in Present : signedIn' = [who |-> e, grant |-> roles[accounts[e].role]]
  BY DEF signOut, signIn, Present
<1>3. Present' = Present
  BY <1>1 DEF Present
<1>4. \A e \in Present : [who |-> e, grant |-> roles[accounts[e].role]] \in Profile
  BY DemoTeamFacts DEF Profile, AccountRow
<1>5. signedIn' \in Profile \cup {NoRow}
  BY <1>2, <1>4
<1>6. DemoTeamTypeOK'
  BY <1>1, <1>5, DemoTeamFacts DEF DemoTeamTypeOK
<1>7. \A e \in Present : RowAgrees(accounts[e])'
  BY <1>1, <1>3 DEF DemoTeamInv, RowAgrees
<1>8. OwnNumbers => OwnNumbers'
  BY <1>1, <1>3 DEF OwnNumbers, UsedExts, TeamExts
<1>9. signedIn' # NoRow => signedIn'.who \in Present /\ signedIn'.grant = roles[accounts[signedIn'.who].role]
  BY <1>2
<1>10. QED
  BY <1>1, <1>3, <1>6, <1>7, <1>8, <1>9 DEF DemoTeamInv

\* Only an extension in use logs a call.
LEMMA LogRequest ==
  ASSUME DemoTeamInv, NEW kind \in {"completed", "other"}, logCall(kind)
  PROVE  DemoTeamInv'
<1> DEFINE log == callLogs[SelfExt]
<1>1. log \in CallCount /\ SelfExt \in TeamExts /\ SelfExt \in UsedExts
  BY DemoTeamFacts
<1>2. UNCHANGED <<accounts, roles, teamEdits, edited, stale, typed, signedIn>>
  BY DEF logCall, teamRows
<1>3. \E n \in CallCount : callLogs' = [callLogs EXCEPT ![SelfExt] = n]
  <2>1. CASE kind = "completed"
    <3>1. log.completed < MaxLogs /\ callLogs' = [callLogs EXCEPT ![SelfExt] = [log EXCEPT !.completed = @ + 1]]
      BY <2>1 DEF logCall
    <3>2. [log EXCEPT !.completed = @ + 1] \in CallCount
      BY <1>1, <3>1, DemoTeamAssumption DEF CallCount
    <3>3. QED
      BY <3>1, <3>2
  <2>2. CASE kind = "other"
    <3>1. log.other < MaxLogs /\ callLogs' = [callLogs EXCEPT ![SelfExt] = [log EXCEPT !.other = @ + 1]]
      BY <2>2 DEF logCall
    <3>2. [log EXCEPT !.other = @ + 1] \in CallCount
      BY <1>1, <3>1, DemoTeamAssumption DEF CallCount
    <3>3. QED
      BY <3>1, <3>2
  <2>3. QED
    BY <2>1, <2>2
<1>4. PICK n \in CallCount : callLogs' = [callLogs EXCEPT ![SelfExt] = n]
  BY <1>3
<1>5. callLogs' \in [TeamExts -> CallCount] /\ \A x \in TeamExts : x # SelfExt => callLogs'[x] = callLogs[x]
  BY <1>4, DemoTeamFacts
<1>6. DemoTeamTypeOK'
  BY <1>2, <1>5, DemoTeamFacts DEF DemoTeamTypeOK
<1>7. Present' = Present /\ UsedExts' = UsedExts
  BY <1>2 DEF Present, UsedExts
<1>8. \A e \in Present : RowAgrees(accounts[e])'
  BY <1>2, <1>7 DEF DemoTeamInv, RowAgrees
<1>9. OwnNumbers => OwnNumbers'
  BY <1>1, <1>2, <1>5, <1>7 DEF OwnNumbers, TeamExts
<1>10. QED
  BY <1>2, <1>6, <1>7, <1>8, <1>9 DEF DemoTeamInv

LEMMA DemoTeamStep == DemoTeamInv /\ [DemoTeamNext]_demoTeamVars => DemoTeamInv'
<1> SUFFICES ASSUME DemoTeamInv, [DemoTeamNext]_demoTeamVars PROVE DemoTeamInv'
  OBVIOUS
<1>1. CASE UNCHANGED demoTeamVars
  <2>1. UNCHANGED <<accounts, roles, signedIn, callLogs, teamEdits, edited, stale, typed>>
    BY <1>1 DEF demoTeamVars, teamRows
  <2>2. Present' = Present /\ UsedExts' = UsedExts
    BY <2>1 DEF Present, UsedExts
  <2>3. DemoTeamTypeOK'
    BY <2>1, DemoTeamFacts DEF DemoTeamTypeOK
  <2>4. \A e \in Present : RowAgrees(accounts[e])'
    BY <2>1, <2>2 DEF DemoTeamInv, RowAgrees
  <2>5. OwnNumbers => OwnNumbers'
    BY <2>1, <2>2 DEF OwnNumbers, TeamExts
  <2>6. QED
    BY <2>1, <2>2, <2>3, <2>4, <2>5 DEF DemoTeamInv
<1>2. CASE DemoTeamNext
  <2>1. ASSUME NEW e \in Logins, NEW r \in RoleIds, NEW m \in Logins \cup {NoRow},
               \/ \E x \in TeamExts : createAccount(e, r, x, m)
               \/ \E on \in BOOLEAN : patchAccount(e, r, m, on)
        PROVE  DemoTeamInv'
    BY <2>1, AccountRequests
  <2>2. ASSUME NEW r \in RoleIds,
               \/ deleteRole(r)
               \/ \E g \in RoleKinds : createRole(r, g) \/ patchRole(r, g)
               \/ \E of \in RoleIds : cloneRole(r, of)
        PROVE  DemoTeamInv'
    BY <2>2, RoleRequests
  <2>3. QED
    BY <1>2, <2>1, <2>2, SessionRequests, LogRequest DEF DemoTeamNext
<1>3. QED
  BY <1>1, <1>2

\* The agents' figures add up to the workspace's, since no two have one extension and
\* no other has a call.
LEMMA FiguresAddUp ==
  ASSUME DemoTeamInv, ~typed, NEW n, \A x \in TeamExts : n[x] \in Nat,
         \A x \in TeamExts \ UsedExts : n[x] = 0
  PROVE  Total(n, TeamExts) = Total([e \in Present |-> n[accounts[e].ext]], Present)
<1> DEFINE g == [e \in Present |-> accounts[e].ext]
           m == [e \in Present |-> n[accounts[e].ext]]
<1>1. g \in [Present -> TeamExts] /\ \A e \in Present : m[e] = n[g[e]]
  BY DemoTeamFacts DEF UsedExts
<1>2. \A e, f \in Present : g[e] = g[f] => e = f
  BY DEF DemoTeamInv, OwnNumbers
<1>3. \A x \in TeamExts : n[x] = 0 \/ \E e \in Present : g[e] = x
  BY DEF UsedExts
<1>4. IsFiniteSet(TeamExts)
  <2>1. 1 \in Int /\ LastExt \in Int
    BY DemoTeamAssumption
  <2>2. QED
    BY <2>1, FS_Interval DEF TeamExts
<1> HIDE DEF g, m
<1>5. Cardinality(Pairs(m, Present)) = Cardinality(Pairs(n, TeamExts))
  BY <1>1, <1>2, <1>3, <1>4, SameAmounts
<1>6. QED
  BY <1>5 DEF m, Total, Pairs

LEMMA TeamHolds == DemoTeamInv => TeamCopiesHold
<1> SUFFICES ASSUME DemoTeamInv PROVE TeamCopiesHold
  OBVIOUS
<1>1. \A e \in Present : LET a == accounts[e] IN
       /\ a.role \notin edited => a.grant = roles[a.role]
       /\ a.named => a.manager \in Present
  BY DEF DemoTeamInv, RowAgrees
<1>2. signedIn # NoRow /\ ~stale => signedIn.grant = roles[accounts[signedIn.who].role]
  BY DEF DemoTeamInv
<1>3. \A x \in TeamExts : callLogs[x].completed \in Nat /\ callLogs[x].other \in Nat /\ callsOf(x) \in Nat
  BY DemoTeamFacts, DemoTeamAssumption DEF CallCount, callsOf
<1>4. ASSUME ~typed
      PROVE  /\ dashboard.calls = Total([e \in Present |-> telephonyAgents(e).calls], Present)
             /\ dashboard.connected = Total([e \in Present |-> telephonyAgents(e).connected], Present)
  <2>1. \A x \in TeamExts \ UsedExts : callLogs[x].completed = 0 /\ callsOf(x) = 0
    BY <1>4 DEF DemoTeamInv, OwnNumbers, callsOf
  <2>2. PICK n : n = [x \in TeamExts |-> callsOf(x)]
    OBVIOUS
  <2>3. PICK k : k = [x \in TeamExts |-> callLogs[x].completed]
    OBVIOUS
  <2>4. /\ Total(n, TeamExts) = Total([e \in Present |-> n[accounts[e].ext]], Present)
        /\ Total(k, TeamExts) = Total([e \in Present |-> k[accounts[e].ext]], Present)
    <3>1. \A x \in TeamExts : n[x] \in Nat /\ k[x] \in Nat
      BY <1>3, <2>2, <2>3
    <3>2. \A x \in TeamExts \ UsedExts : n[x] = 0 /\ k[x] = 0
      BY <2>1, <2>2, <2>3
    <3>3. Total(n, TeamExts) = Total([e \in Present |-> n[accounts[e].ext]], Present)
      BY <1>4, <3>1, <3>2, FiguresAddUp
    <3>4. Total(k, TeamExts) = Total([e \in Present |-> k[accounts[e].ext]], Present)
      BY <1>4, <3>1, <3>2, FiguresAddUp
    <3>5. QED
      BY <3>3, <3>4
  <2>5. \A e \in Present : accounts[e].ext \in TeamExts
    BY DemoTeamFacts DEF UsedExts
  <2>6. /\ [e \in Present |-> n[accounts[e].ext]] = [e \in Present |-> telephonyAgents(e).calls]
        /\ [e \in Present |-> k[accounts[e].ext]] = [e \in Present |-> telephonyAgents(e).connected]
    BY <2>2, <2>3, <2>5 DEF telephonyAgents
  <2>7. dashboard.calls = Total(n, TeamExts) /\ dashboard.connected = Total(k, TeamExts)
    BY <2>2, <2>3 DEF dashboard
  <2>8. QED
    BY <2>4, <2>6, <2>7
<1>5. agentDashboard.calls = telephonyAgents(Self).calls
  BY DEF agentDashboard, telephonyAgents, SelfExt
<1>6. adminDashboard.seats = adminDashboard.online + Cardinality(adminDashboard.disabled)
  <2>1. PICK P : P = Present
    OBVIOUS
  <2>2. PICK D : D = {e \in P : ~accounts[e].active}
    OBVIOUS
  <2>3. IsFiniteSet(P)
    <3>1. P \in SUBSET Logins /\ IsFiniteSet(Logins)
      BY <2>1, DemoTeamAssumption DEF Present
    <3>2. QED
      BY <3>1, FS_Subset
  <2>4. P \cap D = D /\ P \ D = {e \in P : telephonyAgents(e).online}
    BY <2>2 DEF telephonyAgents
  <2>5. Cardinality(P \ D) = Cardinality(P) - Cardinality(P \cap D)
    BY <2>3, FS_Difference
  <2>6. Cardinality(P) \in Nat /\ Cardinality(D) \in Nat
    <3>1. D \in SUBSET P
      BY <2>2
    <3>2. IsFiniteSet(D)
      BY <2>3, <3>1, FS_Subset
    <3>3. QED
      BY <2>3, <3>2, FS_CardinalityType
  <2>7. /\ adminDashboard.seats = Cardinality(P) /\ adminDashboard.online = Cardinality(P \ D)
        /\ adminDashboard.disabled = D
    BY <2>1, <2>2, <2>4 DEF adminDashboard
  <2>8. Cardinality(P) = Cardinality(P \ D) + Cardinality(D)
    <3>1. PICK a : a = Cardinality(P)
      OBVIOUS
    <3>2. PICK b : b = Cardinality(D)
      OBVIOUS
    <3>3. Cardinality(P \ D) = a - b /\ a \in Nat /\ b \in Nat
      BY <2>4, <2>5, <2>6, <3>1, <3>2
    <3>4. QED
      BY <3>1, <3>2, <3>3
  <2>9. QED
    BY <2>7, <2>8
<1>7. QED
  BY <1>1, <1>2, <1>4, <1>5, <1>6, NextIsFree DEF TeamCopiesHold

-----------------------------------------------------------------------------
(***************************************************************************)
(* Leads of the demo workspace. A lead that is done has an outcome, and    *)
(* one that is open has none, unless the outcome was told by its number;   *)
(* what the views count of a campaign are its leads.                       *)
(***************************************************************************)

Lead == [status : {"open", "done"}, disposition : Results, attempts : 0..MaxTries]

\* An open lead is as new but for an outcome told by number; a done one has an outcome.
LeadFits(l, c, i, of) ==
  /\ l.status = "open" => l.attempts = 0 /\ (l.disposition # "none" => <<c, i>> \in of)
  /\ l.status = "done" => l.disposition # "none"

DemoLeadsInv ==
  /\ DemoLeadsTypeOK
  /\ \A c \in 1..born, i \in LeadNos : LeadFits(demoLeads[c][i], c, i, told)

-----------------------------------------------------------------------------
LEMMA LeadNosCount == IsFiniteSet(LeadNos) /\ Cardinality(LeadNos) = LeadCount
<1>1. 1 \in Int /\ LeadCount \in Int /\ LeadCount > 0
  BY DemoLeadsAssumption
<1>2. QED
  BY <1>1, FS_Interval DEF LeadNos

LEMMA FirstOpen ==
  ASSUME NEW S, S \in SUBSET Nat, S # {}
  PROVE  Min(S) \in S /\ \A i \in S : Min(S) <= i
<1>1. PICK n \in S : \A m \in S : <<m, n>> \notin OpToRel(<, Nat)
  BY NatLessThanWellFounded, WFMin
<1>2. \A m \in S : ~(m < n)
  BY <1>1 DEF OpToRel
<1>3. n \in S /\ \A m \in S : n <= m
  BY <1>2
<1>4. QED
  BY <1>3 DEF Min

LEMMA DemoLeadsStart == DemoLeadsInit => DemoLeadsInv
<1> SUFFICES ASSUME DemoLeadsInit PROVE DemoLeadsInv
  OBVIOUS
<1>1. PICK d \in Endings : demoLeads = [c \in 1..Seeds |-> [i \in LeadNos |-> IF i = 1 THEN Worked(d) ELSE NewLead]]
  BY DEF DemoLeadsInit
<1>2. Worked(d) \in Lead /\ NewLead \in Lead /\ \A c, i : LeadFits(Worked(d), c, i, told) /\ LeadFits(NewLead, c, i, told)
  BY DemoLeadsAssumption DEF Worked, NewLead, Lead, Results, LeadFits
<1>3. \A c \in 1..Seeds, i \in LeadNos : demoLeads[c][i] \in Lead /\ LeadFits(demoLeads[c][i], c, i, told)
  BY <1>1, <1>2
<1>4. demoLeads \in [1..Seeds -> [LeadNos -> Lead]]
  BY <1>1, <1>2
<1>5. born = Seeds /\ present = 1..Seeds /\ inCampaign = 0 /\ told = {} /\ Seeds \in Seeds..LastCampaign /\ 0 \in 0..Seeds
  BY DemoLeadsAssumption DEF DemoLeadsInit
<1>6. DemoLeadsTypeOK
  BY <1>4, <1>5 DEF DemoLeadsTypeOK, Lead
<1>7. QED
  BY <1>3, <1>5, <1>6 DEF DemoLeadsInv

\* One lead changes, and what was told of it.
LEMMA LeadChanges ==
  ASSUME DemoLeadsInv, NEW c \in 1..born, NEW i \in LeadNos, NEW l \in Lead, LeadsOnly,
         demoLeads' = [demoLeads EXCEPT ![c][i] = l],
         told' = told \ {<<c, i>>} \/ told' = told \cup {<<c, i>>},
         LeadFits(l, c, i, told')
  PROVE  DemoLeadsInv'
<1>1. demoLeads \in [1..born -> [LeadNos -> Lead]] /\ told \subseteq (1..born) \X LeadNos /\ born' = born
  BY DEF DemoLeadsInv, DemoLeadsTypeOK, Lead, LeadsOnly
<1>2. demoLeads' = [demoLeads EXCEPT ![c] = [demoLeads[c] EXCEPT ![i] = l]]
  OBVIOUS
<1>3. \A b \in 1..born, j \in LeadNos : demoLeads'[b][j] = IF b = c /\ j = i THEN l ELSE demoLeads[b][j]
  BY <1>1, <1>2
<1>4. demoLeads' \in [1..born -> [LeadNos -> Lead]]
  BY <1>1, <1>2
<1>5. told' \subseteq (1..born) \X LeadNos /\ \A b, j : <<b, j>> # <<c, i>> => (<<b, j>> \in told' <=> <<b, j>> \in told)
  BY <1>1
<1>6. ASSUME NEW b \in 1..born, NEW j \in LeadNos
      PROVE  LeadFits(demoLeads'[b][j], b, j, told')
  <2>1. CASE b = c /\ j = i
    BY <2>1, <1>3
  <2>2. CASE ~(b = c /\ j = i)
    <3>1. LeadFits(demoLeads[b][j], b, j, told)
      BY DEF DemoLeadsInv
    <3>2. demoLeads'[b][j] = demoLeads[b][j] /\ (<<b, j>> \in told' <=> <<b, j>> \in told)
      BY <2>2, <1>3, <1>5
    <3>3. QED
      BY <3>1, <3>2 DEF LeadFits
  <2>3. QED
    BY <2>1, <2>2
<1>7. DemoLeadsTypeOK'
  BY <1>1, <1>4, <1>5 DEF DemoLeadsInv, DemoLeadsTypeOK, Lead, LeadsOnly
<1>8. QED
  BY <1>1, <1>6, <1>7 DEF DemoLeadsInv

\* Leads opened again are as new.
LEMMA ReopenedFits ==
  ASSUME DemoLeadsInv, NEW c \in 1..born
  PROVE  /\ Reopened(c) \in [LeadNos -> Lead]
         /\ \A i \in LeadNos : \A b, of : LeadFits(Reopened(c)[i], b, i, of)
<1>1. \A i \in LeadNos : demoLeads[c][i] \in Lead
  BY DEF DemoLeadsInv, DemoLeadsTypeOK, Lead
<1>2. ASSUME NEW l \in Lead
      PROVE  reopened(l) \in Lead /\ \A b, i, of : LeadFits(reopened(l), b, i, of)
  <2>1. reopened(l) = [status |-> "open", disposition |-> "none", attempts |-> 0]
    <3>1. PICK p : p = [l EXCEPT !.status = "open"]
      OBVIOUS
    <3>2. PICK q : q = [p EXCEPT !.disposition = "none"]
      OBVIOUS
    <3>3. p = [status |-> "open", disposition |-> l.disposition, attempts |-> l.attempts]
      BY <3>1 DEF Lead
    <3>4. q = [status |-> "open", disposition |-> "none", attempts |-> l.attempts]
      BY <3>2, <3>3
    <3>5. [q EXCEPT !.attempts = 0] = [status |-> "open", disposition |-> "none", attempts |-> 0]
      BY <3>4
    <3>6. reopened(l) = [q EXCEPT !.attempts = 0]
      BY <3>1, <3>2 DEF reopened
    <3>7. QED
      BY <3>5, <3>6
  <2>2. [status |-> "open", disposition |-> "none", attempts |-> 0] \in Lead
    BY DemoLeadsAssumption DEF Lead, Results
  <2>3. QED
    BY <2>1, <2>2 DEF LeadFits
<1>3. QED
  BY <1>1, <1>2 DEF Reopened

LEMMA DemoLeadsStep == DemoLeadsInv /\ [DemoLeadsNext]_demoLeadsVars => DemoLeadsInv'
<1> SUFFICES ASSUME DemoLeadsInv, [DemoLeadsNext]_demoLeadsVars PROVE DemoLeadsInv'
  OBVIOUS
<1>0. /\ born \in Seeds..LastCampaign /\ Seeds \in Nat \ {0} /\ present \subseteq 1..born
      /\ demoLeads \in [1..born -> [LeadNos -> Lead]] /\ inCampaign \in 0..born /\ told \subseteq (1..born) \X LeadNos
  BY DemoLeadsAssumption DEF DemoLeadsInv, DemoLeadsTypeOK, Lead
<1>1. ASSUME NEW c \in 1..born, duplicate(c) PROVE DemoLeadsInv'
  <2> DEFINE new == Reopened(c)
  <2>1. new \in [LeadNos -> Lead] /\ \A i \in LeadNos : \A b, of : LeadFits(new[i], b, i, of)
    BY ReopenedFits
  <2>2. /\ born' = born + 1 /\ born + 1 \in Seeds..LastCampaign /\ present' = present \cup {born + 1}
        /\ demoLeads' = [b \in 1..(born + 1) |-> IF b = born + 1 THEN new ELSE demoLeads[b]]
        /\ UNCHANGED <<inCampaign, told>>
    BY <1>0, <1>1, DemoLeadsAssumption DEF duplicate
  <2> HIDE DEF new
  <2>3. \A b \in 1..(born + 1) : b \in 1..born \/ b = born + 1
    BY <1>0
  <2>4. demoLeads' \in [1..(born + 1) -> [LeadNos -> Lead]]
    BY <1>0, <2>1, <2>2, <2>3
  <2>5. DemoLeadsTypeOK'
    BY <1>0, <2>2, <2>4 DEF DemoLeadsTypeOK, Lead
  <2>6. ASSUME NEW b \in 1..(born + 1), NEW i \in LeadNos
        PROVE  LeadFits(demoLeads'[b][i], b, i, told')
    BY <2>1, <2>2, <2>3 DEF DemoLeadsInv
  <2>7. QED
    BY <2>2, <2>5, <2>6 DEF DemoLeadsInv
<1>2. ASSUME NEW c \in 1..born, reset(c) PROVE DemoLeadsInv'
  <2> DEFINE new == Reopened(c)
  <2>1. new \in [LeadNos -> Lead] /\ \A i \in LeadNos : \A b, of : LeadFits(new[i], b, i, of)
    BY ReopenedFits
  <2>2. demoLeads' = [demoLeads EXCEPT ![c] = new] /\ told' = told \ ({c} \X LeadNos) /\ UNCHANGED <<born, present, inCampaign>>
    BY <1>2 DEF reset, LeadsOnly
  <2> HIDE DEF new
  <2>3. demoLeads' \in [1..born -> [LeadNos -> Lead]]
    BY <1>0, <2>1, <2>2
  <2>4. DemoLeadsTypeOK'
    BY <1>0, <2>2, <2>3 DEF DemoLeadsTypeOK, Lead
  <2>5. ASSUME NEW b \in 1..born, NEW i \in LeadNos
        PROVE  LeadFits(demoLeads'[b][i], b, i, told')
    <3>1. CASE b = c
      BY <3>1, <1>0, <2>1, <2>2
    <3>2. CASE b # c
      <4>1. demoLeads'[b] = demoLeads[b] /\ (<<b, i>> \in told' <=> <<b, i>> \in told)
        BY <3>2, <1>0, <2>2
      <4>2. LeadFits(demoLeads[b][i], b, i, told)
        BY DEF DemoLeadsInv
      <4>3. QED
        BY <4>1, <4>2 DEF LeadFits
    <3>3. QED
      BY <3>1, <3>2
  <2>6. QED
    BY <2>2, <2>4, <2>5 DEF DemoLeadsInv
<1>3. ASSUME NEW c \in 1..born, deleteCampaign(c) \/ joinRun(c) PROVE DemoLeadsInv'
  <2>1. /\ UNCHANGED <<born, demoLeads, told>>
        /\ present' \subseteq 1..born /\ inCampaign' \in 0..born
    <3>1. CASE deleteCampaign(c)
      BY <1>0, <3>1 DEF deleteCampaign
    <3>2. CASE joinRun(c)
      BY <1>0, <3>2 DEF joinRun
    <3>3. QED
      BY <1>3, <3>1, <3>2
  <2>2. QED
    BY <2>1 DEF DemoLeadsInv, DemoLeadsTypeOK, LeadFits
<1>4. ASSUME NEW c \in 1..born, NEW i \in LeadNos, skip(c, i) PROVE DemoLeadsInv'
  <2> DEFINE l == [demoLeads[c][i] EXCEPT !.status = "done", !.disposition = "Skipped"]
  <2>1. l \in Lead /\ LeadFits(l, c, i, told')
    <3>1. demoLeads[c][i] \in Lead
      BY <1>0
    <3>2. l = [status |-> "done", disposition |-> "Skipped", attempts |-> demoLeads[c][i].attempts]
      <4>1. PICK p : p = [demoLeads[c][i] EXCEPT !.status = "done"]
        OBVIOUS
      <4>2. p = [status |-> "done", disposition |-> demoLeads[c][i].disposition, attempts |-> demoLeads[c][i].attempts]
        BY <3>1, <4>1 DEF Lead
      <4>3. [p EXCEPT !.disposition = "Skipped"] = [status |-> "done", disposition |-> "Skipped", attempts |-> demoLeads[c][i].attempts]
        BY <4>2
      <4>4. l = [p EXCEPT !.disposition = "Skipped"]
        BY <4>1
      <4>5. QED
        BY <4>3, <4>4
    <3>3. [status |-> "done", disposition |-> "Skipped", attempts |-> demoLeads[c][i].attempts] \in Lead
      BY <3>1 DEF Lead, Results
    <3>4. QED
      BY <3>2, <3>3 DEF LeadFits
  <2>2. demoLeads' = [demoLeads EXCEPT ![c][i] = l] /\ told' = told \ {<<c, i>>} /\ LeadsOnly
    BY <1>4 DEF skip
  <2> HIDE DEF l
  <2>3. LeadFits(l, c, i, told')
    BY <2>1 DEF LeadFits
  <2>4. QED
    BY <2>1, <2>2, <2>3, LeadChanges
<1>5. ASSUME NEW c \in 1..born, NEW i \in LeadNos, NEW d \in Endings, dispose(c, i, d) PROVE DemoLeadsInv'
  <2> DEFINE l == [status |-> "done", disposition |-> d, attempts |-> demoLeads[c][i].attempts + 1]
  <2>1. demoLeads[c][i].attempts \in 0..MaxTries /\ demoLeads[c][i].attempts < MaxTries
    BY <1>0, <1>5 DEF Lead, dispose
  <2>2. l \in Lead /\ LeadFits(l, c, i, told')
    BY <2>1, DemoLeadsAssumption DEF Lead, LeadFits, Results
  <2>3. demoLeads' = [demoLeads EXCEPT ![c][i] = l] /\ told' = told \ {<<c, i>>} /\ LeadsOnly
    BY <1>5 DEF dispose
  <2> HIDE DEF l
  <2>4. LeadFits(l, c, i, told')
    BY <2>2 DEF LeadFits
  <2>5. QED
    BY <2>2, <2>3, <2>4, LeadChanges
<1>6. ASSUME leaveRun PROVE DemoLeadsInv'
  BY <1>0, <1>6 DEF leaveRun, DemoLeadsInv, DemoLeadsTypeOK, LeadFits
<1>7. ASSUME NEW i \in LeadNos, NEW d \in Endings, disposeByNumber(i, d) PROVE DemoLeadsInv'
  <2> DEFINE l == [demoLeads[1][i] EXCEPT !.disposition = d]
  <2>1. 1 \in 1..born
    BY <1>0
  <2>2. l \in Lead /\ (<<1, i>> \in told' => LeadFits(l, 1, i, told'))
    BY <1>0, <2>1, DemoLeadsAssumption DEF Lead, LeadFits, Results, DemoLeadsInv
  <2>3. demoLeads' = [demoLeads EXCEPT ![1][i] = l] /\ told' = told \cup {<<1, i>>} /\ LeadsOnly
    BY <1>7 DEF disposeByNumber
  <2> HIDE DEF l
  <2>4. LeadFits(l, 1, i, told')
    BY <2>2, <2>3 DEF LeadFits
  <2>5. QED
    BY <2>1, <2>2, <2>3, <2>4, LeadChanges
<1>8. CASE UNCHANGED demoLeadsVars
  BY <1>8 DEF demoLeadsVars, DemoLeadsInv, DemoLeadsTypeOK, LeadFits
<1>9. QED
  BY <1>1, <1>2, <1>3, <1>4, <1>5, <1>6, <1>7, <1>8 DEF DemoLeadsNext

LEMMA DemoLeadsAgree == DemoLeadsInv => DemoLeadsHold
<1> SUFFICES ASSUME DemoLeadsInv, NEW c \in 1..born
             PROVE  /\ nextLead(c) = 0 <=> pulseOf(c).remaining = 0
                    /\ nextLead(c) # 0 => \A i \in 1..(nextLead(c) - 1) : demoLeads[c][i].status = "done"
                    /\ nextLead(c) = 0 => contactRate(c) = 100
                    /\ \A i \in OpenLeads(c) :
                         /\ demoLeads[c][i].attempts = 0
                         /\ demoLeads[c][i].disposition # "none" => <<c, i>> \in told
                    /\ \A i \in doneLeads(c) : demoLeads[c][i].disposition # "none"
  BY DEF DemoLeadsHold
<1>1. \A i \in LeadNos : demoLeads[c][i].status \in {"open", "done"} /\ LeadFits(demoLeads[c][i], c, i, told)
  BY DEF DemoLeadsInv, DemoLeadsTypeOK
<1>2. OpenLeads(c) \in SUBSET LeadNos /\ OpenLeads(c) \in SUBSET Nat
  BY DEF OpenLeads, LeadNos
<1>3. PICK open : open = OpenLeads(c)
  OBVIOUS
<1>4. PICK all : all = LeadNos
  OBVIOUS
<1>5. all \cap open = open /\ open \subseteq all /\ IsFiniteSet(all) /\ Cardinality(all) = LeadCount
  BY <1>2, <1>3, <1>4, LeadNosCount
<1>6. IsFiniteSet(open) /\ Cardinality(open) \in Nat /\ (Cardinality(open) = 0 <=> open = {})
  BY <1>5, FS_Subset, FS_CardinalityType, FS_EmptySet
<1>7. Cardinality(all \ open) = LeadCount - Cardinality(open)
  BY <1>5, FS_Difference
<1>8. Cardinality(doneLeads(c)) = LeadCount - Cardinality(open)
  BY <1>3, <1>4, <1>7 DEF doneLeads
<1>9. nextLead(c) = 0 <=> open = {}
  <2>1. open # {} => Min(open) \in open
    BY <1>2, <1>3, FirstOpen
  <2>2. 0 \notin open
    BY <1>4, <1>5 DEF LeadNos
  <2>3. QED
    BY <2>1, <2>2, <1>3 DEF nextLead
<1>10. LeadCount \in Nat \ {0}
  BY DemoLeadsAssumption
<1>11. nextLead(c) = 0 <=> pulseOf(c).remaining = 0
  BY <1>6, <1>8, <1>9, <1>10 DEF pulseOf
<1>12. ASSUME nextLead(c) # 0, NEW i \in 1..(nextLead(c) - 1)
       PROVE  demoLeads[c][i].status = "done"
  <2>1. nextLead(c) \in open /\ \A j \in open : nextLead(c) <= j
    BY <1>12, <1>2, <1>3, <1>9, FirstOpen DEF nextLead
  <2>2. nextLead(c) \in 1..LeadCount
    BY <2>1, <1>4, <1>5 DEF LeadNos
  <2>3. i \in LeadNos /\ i < nextLead(c)
    BY <2>2, <1>10 DEF LeadNos
  <2>4. i \notin open
    BY <2>1, <2>2, <2>3 DEF LeadNos
  <2>5. QED
    BY <2>3, <2>4, <1>1, <1>3 DEF OpenLeads
<1>13. nextLead(c) = 0 => contactRate(c) = 100
  <2> SUFFICES ASSUME nextLead(c) = 0 PROVE contactRate(c) = 100
    OBVIOUS
  <2>1. Cardinality(doneLeads(c)) = LeadCount
    BY <1>6, <1>8, <1>9, <1>10
  <2>2. contactRate(c) = (200 * LeadCount + LeadCount) \div (2 * LeadCount)
    BY <2>1 DEF contactRate
  <2>3. ASSUME NEW n \in Nat \ {0} PROVE (200 * n + n) \div (2 * n) = 100
    <3>1. 200 * n + n = 100 * (2 * n) + n /\ 0 <= n /\ n < 2 * n
      BY <2>3
    <3>2. PICK m : m = 2 * n
      OBVIOUS
    <3>3. m \in Nat \ {0}
      BY <3>2
    <3>4. (100 * m + n) \div m = 100
      BY <3>1, <3>2, <3>3
    <3>5. QED
      BY <3>1, <3>2, <3>4
  <2>4. QED
    BY <2>2, <2>3, <1>10
<1>14. \A i \in OpenLeads(c) : /\ demoLeads[c][i].attempts = 0
                               /\ demoLeads[c][i].disposition # "none" => <<c, i>> \in told
  BY <1>1 DEF OpenLeads, LeadFits
<1>15. \A i \in doneLeads(c) : demoLeads[c][i].disposition # "none"
  BY <1>1 DEF OpenLeads, doneLeads, LeadFits
<1>16. QED
  BY <1>11, <1>12, <1>13, <1>14, <1>15

-----------------------------------------------------------------------------
(***************************************************************************)
(* Teams. The walk of teamScopeIds finds the least set that is closed      *)
(* under having a manager in it: each of its turns adds somebody or is the *)
(* last. That an eavesdrop rings into the right channel rests on a phone   *)
(* having one channel, which came up before every other that shows its     *)
(* number. A request whose team has not changed is about a member of it.   *)
(***************************************************************************)

\* Everybody whose manager is in S is in S.
ClosedUp(S, all, boss) == \A w \in all : boss[w] \in S => w \in S

\* The team is the least closed set that has its head.
LEMMA BelowIsLeast ==
  ASSUME NEW u \in Users, NEW all \in SUBSET Users, NEW boss
  PROVE  /\ Below(u, all, boss) \in SUBSET Users
         /\ u \in Below(u, all, boss)
         /\ ClosedUp(Below(u, all, boss), all, boss)
         /\ \A S \in SUBSET Users : u \in S /\ ClosedUp(S, all, boss) => Below(u, all, boss) \subseteq S
BY DEF Below, ClosedUp

\* Under the same tree a member's team is part of it, and it has no strangers.
LEMMA TeamsNest ==
  ASSUME NEW u \in Users, NEW all \in SUBSET Users, NEW boss, NEW v \in Below(u, all, boss)
  PROVE  Below(v, all, boss) \subseteq Below(u, all, boss) /\ v \in all \cup {u}
<1>1. v \in Users
  BY BelowIsLeast
<1>2. Below(v, all, boss) \subseteq Below(u, all, boss)
  BY <1>1, BelowIsLeast
<1>3. ClosedUp(all \cup {u}, all, boss) /\ all \cup {u} \in SUBSET Users
  BY DEF ClosedUp
<1>4. v \in all \cup {u}
  BY <1>3, BelowIsLeast
<1>5. QED
  BY <1>2, <1>4

\* Moving a member of the team anywhere brings nobody in.
LEMMA MovesWithin ==
  ASSUME NEW u \in Users, NEW all \in SUBSET Users, NEW boss, NEW v \in Below(u, all, boss), NEW m,
         NEW moves, moves = [boss EXCEPT ![v] = m], DOMAIN boss = Users
  PROVE  Below(u, all, moves) \subseteq Below(u, all, boss)
<1>1. \A w \in all : w # v => moves[w] = boss[w]
  OBVIOUS
<1>2. ClosedUp(Below(u, all, boss), all, moves)
  BY <1>1, BelowIsLeast DEF ClosedUp
<1>3. QED
  BY <1>2, BelowIsLeast

-----------------------------------------------------------------------------
\* The walk: its first turns, and what the next one adds.
Fresh(w) == Reports(w.stack) \ w.ids
Turn(w)  == [ids |-> w.ids \cup Fresh(w), stack |-> Fresh(w)]
Walks(u, n, f) == f = [k \in 0..n |-> IF k = 0 THEN [ids |-> {u}, stack |-> {u}] ELSE Turn(f[k - 1])]

\* There is a walk of every length: the shortest without one would extend one.
LEMMA WalkExists ==
  ASSUME NEW u, NEW N \in Nat
  PROVE  \E f : Walks(u, N, f)
<1> DEFINE T == {n \in Nat : ~\E f : Walks(u, n, f)}
           first == [ids |-> {u}, stack |-> {u}]
<1>1. SUFFICES ASSUME T # {} PROVE FALSE
  BY DEF T
<1>2. T \subseteq Nat
  OBVIOUS
<1> HIDE DEF T
<1>3. PICK n \in T : \A m \in T : <<m, n>> \notin OpToRel(<, Nat)
  BY <1>1, <1>2, NatLessThanWellFounded, WFMin
<1>4. \A m \in T : ~(m < n)
  BY <1>2, <1>3 DEF OpToRel
<1>5. n \in Nat /\ ~\E f : Walks(u, n, f)
  BY DEF T
<1>6. CASE n = 0
  <2> DEFINE f == [k \in 0..n |-> first]
  <2>1. f = [k \in 0..n |-> IF k = 0 THEN first ELSE Turn(f[k - 1])]
    <3>1. \A k \in 0..n : k = 0
      BY <1>6
    <3>2. QED
      BY <3>1
  <2>2. Walks(u, n, f)
    BY <2>1 DEF Walks
  <2>3. QED
    BY <1>5, <2>2
<1>7. CASE n # 0
  <2>1. n - 1 \in Nat /\ n - 1 < n
    BY <1>5, <1>7
  <2>2. n - 1 \notin T
    BY <1>4, <2>1
  <2>3. PICK g : Walks(u, n - 1, g)
    BY <2>1, <2>2 DEF T
  <2> DEFINE f == [k \in 0..n |-> IF k = n THEN Turn(g[n - 1]) ELSE g[k]]
             body == [k \in 0..n |-> IF k = 0 THEN first ELSE Turn(f[k - 1])]
  <2>4. ASSUME NEW k \in 0..n PROVE f[k] = body[k]
    <3>1. CASE k = 0
      <4>1. f[k] = g[k] /\ k \in 0..(n - 1)
        BY <1>5, <1>7, <3>1
      <4>2. g[k] = first
        BY <2>3, <3>1, <4>1 DEF Walks
      <4>3. QED
        BY <3>1, <4>1, <4>2
    <3>2. CASE k # 0 /\ k = n
      <4>1. k - 1 \in 0..n /\ k - 1 # n /\ k - 1 = n - 1
        BY <1>5, <3>2
      <4>2. f[k - 1] = g[n - 1]
        BY <4>1
      <4>3. f[k] = Turn(g[n - 1])
        BY <3>2
      <4>4. body[k] = Turn(f[k - 1])
        BY <3>2
      <4> HIDE DEF f, body
      <4>5. QED
        BY <4>2, <4>3, <4>4
    <3>3. CASE k # 0 /\ k # n
      <4>1. k - 1 \in 0..n /\ k - 1 # n /\ k \in 0..(n - 1)
        BY <1>5, <3>3
      <4>2. f[k - 1] = g[k - 1]
        BY <4>1
      <4>3. f[k] = g[k]
        BY <3>3
      <4>4. g[k] = Turn(g[k - 1])
        BY <2>3, <3>3, <4>1 DEF Walks
      <4>5. body[k] = Turn(f[k - 1])
        BY <3>3
      <4> HIDE DEF f, body
      <4>6. QED
        BY <4>2, <4>3, <4>4, <4>5
    <3>4. QED
      BY <3>1, <3>2, <3>3
  <2>5. f = body
    BY <2>4
  <2>6. Walks(u, n, f)
    BY <2>5 DEF Walks
  <2>7. QED
    BY <1>5, <2>6
<1>8. QED
  BY <1>6, <1>7

LEMMA WalkIs ==
  ASSUME NEW u \in Users
  PROVE  \E f : Walks(u, Cardinality(Users), f) /\ teamScopeIds(u) = f[Cardinality(Users)].ids
<1>1. PICK N : N = Cardinality(Users)
  OBVIOUS
<1>2. N \in Nat
  BY <1>1, TeamsAssumption, FS_CardinalityType
<1>3. PICK f : f = CHOOSE g : Walks(u, N, g)
  OBVIOUS
<1>4. Walks(u, N, f)
  BY <1>2, <1>3, WalkExists
<1>5. teamScopeIds(u) = (CHOOSE g : Walks(u, N, g))[N].ids
  BY <1>1 DEF teamScopeIds, Walks, Turn, Fresh
<1>6. QED
  BY <1>1, <1>3, <1>4, <1>5

\* Every turn has ids in the team, whose reports are found or about to be, and either
\* more than the turn before or nobody left to visit.
LEMMA WalkFinds ==
  ASSUME NEW u \in Users, people \in SUBSET Users
  PROVE  teamScopeIds(u) = Team(u)
<1>1. PICK N : N = Cardinality(Users)
  OBVIOUS
<1>2. N \in Nat /\ IsFiniteSet(Users)
  BY <1>1, TeamsAssumption, FS_CardinalityType
<1>3. PICK f : Walks(u, N, f) /\ teamScopeIds(u) = f[N].ids
  BY <1>1, WalkIs
<1> DEFINE Good(w, k) ==
             /\ w = [ids |-> w.ids, stack |-> w.stack]
             /\ w.ids \in SUBSET Team(u) /\ u \in w.ids /\ w.stack \subseteq w.ids
             /\ Reports(w.ids \ w.stack) \subseteq w.ids
             /\ w.stack = {} \/ Cardinality(w.ids) > k
           T == {k \in 0..N : ~Good(f[k], k)}
<1>4. Team(u) \in SUBSET Users /\ u \in Team(u) /\ Reports(Team(u)) \subseteq Team(u)
  <2>1. Team(u) \in SUBSET Users /\ u \in Team(u) /\ ClosedUp(Team(u), people, manager)
    BY BelowIsLeast DEF Team
  <2>2. QED
    BY <2>1 DEF ClosedUp, Reports
<1>5. Good(f[0], 0)
  <2>1. f[0] = [ids |-> {u}, stack |-> {u}]
    BY <1>2, <1>3 DEF Walks
  <2>2. Cardinality({u}) = 1
    BY FS_Singleton
  <2>3. QED
    <3>1. Reports({u} \ {u}) = {}
      BY DEF Reports
    <3>2. QED
      BY <1>4, <2>1, <2>2, <3>1
<1>6. ASSUME NEW k \in 0..N, k # 0, Good(f[k - 1], k - 1) PROVE Good(f[k], k)
  <2>1. PICK w : w = f[k - 1]
    OBVIOUS
  <2>2. Good(w, k - 1)
    BY <1>6, <2>1
  <2> DEFINE new == Fresh(w)
  <2>3. f[k] = [ids |-> w.ids \cup new, stack |-> new]
    BY <1>3, <1>6, <2>1 DEF Walks, Turn
  <2>4. new \in SUBSET Team(u) /\ new \cap w.ids = {}
    BY <1>4, <2>2 DEF Fresh, Reports
  <2>5. w.stack = {} => new = {}
    BY DEF Fresh, Reports
  <2>6. Reports((w.ids \cup new) \ new) \subseteq w.ids \cup new
    BY <2>2 DEF Fresh, Reports
  <2> HIDE DEF new
  <2>7. new = {} \/ Cardinality(w.ids \cup new) > k
    <3> SUFFICES ASSUME new # {} PROVE Cardinality(w.ids \cup new) > k
      OBVIOUS
    <3>1. w.stack # {}
      BY <2>5
    <3>2. Cardinality(w.ids) > k - 1
      BY <2>2, <3>1
    <3>3. PICK v \in new : TRUE
      OBVIOUS
    <3>4. PICK big : big = w.ids \cup new
      OBVIOUS
    <3>5. PICK small : small = w.ids
      OBVIOUS
    <3>6. big \in SUBSET Users /\ small \in SUBSET big /\ v \in big /\ v \notin small
      BY <1>4, <2>2, <2>4, <3>3, <3>4, <3>5
    <3>7. IsFiniteSet(big) /\ IsFiniteSet(small)
      BY <1>2, <3>6, FS_Subset
    <3>8. Cardinality(small) <= Cardinality(big) /\ Cardinality(small) # Cardinality(big)
      BY <3>6, <3>7, FS_Subset
    <3>9. Cardinality(small) \in Nat /\ Cardinality(big) \in Nat
      BY <3>7, FS_CardinalityType
    <3>10. QED
      BY <3>2, <3>4, <3>5, <3>8, <3>9
  <2>8. QED
    <3> DEFINE all == w.ids \cup new
    <3>1. all \in SUBSET Team(u) /\ u \in all /\ new \subseteq all
      BY <2>2, <2>4
    <3>2. f[k].ids = all /\ f[k].stack = new /\ f[k] = [ids |-> f[k].ids, stack |-> f[k].stack]
      BY <2>3
    <3>3. Reports(all \ new) \subseteq all /\ (new = {} \/ Cardinality(all) > k)
      BY <2>6, <2>7
    <3> HIDE DEF all
    <3>4. QED
      BY <3>1, <3>2, <3>3
<1>7. T = {}
  <2> SUFFICES ASSUME T # {} PROVE FALSE
    OBVIOUS
  <2>1. T \subseteq Nat
    BY <1>2
  <2> HIDE DEF T
  <2>2. PICK n \in T : \A m \in T : <<m, n>> \notin OpToRel(<, Nat)
    BY <2>1, NatLessThanWellFounded, WFMin
  <2>3. \A m \in T : ~(m < n)
    BY <2>1, <2>2 DEF OpToRel
  <2>4. n \in 0..N /\ ~Good(f[n], n)
    BY DEF T
  <2>5. n # 0
    BY <1>5, <2>4
  <2>6. n - 1 \in 0..N /\ n - 1 < n
    BY <1>2, <2>4, <2>5
  <2>7. Good(f[n - 1], n - 1)
    BY <2>3, <2>6 DEF T
  <2>8. QED
    BY <1>6, <2>4, <2>5, <2>7
<1>8. N \in 0..N
  BY <1>2
<1>9. Good(f[N], N)
  BY <1>7, <1>8
<1>10. f[N].stack = {}
  <2>1. PICK S : S = f[N].ids
    OBVIOUS
  <2>2. S \in SUBSET Users
    BY <1>4, <1>9, <2>1
  <2>3. Cardinality(S) <= N /\ Cardinality(S) \in Nat
    BY <1>1, <1>2, <2>2, FS_Subset, FS_CardinalityType
  <2>4. ~(Cardinality(S) > N)
    BY <1>2, <2>3
  <2>5. QED
    BY <1>9, <2>1, <2>4
<1>11. ClosedUp(f[N].ids, people, manager)
  BY <1>9, <1>10 DEF ClosedUp, Reports
<1>12. Team(u) \subseteq f[N].ids
  BY <1>4, <1>9, <1>11, BelowIsLeast DEF Team
<1>13. QED
  BY <1>3, <1>9, <1>12

-----------------------------------------------------------------------------
\* A channel that shows another's number comes after that one's own of the same call,
\* and a phone has one channel.
Paired(channels) ==
  /\ \A l \in channels : l.cid # l.whose => [whose |-> l.cid, cid |-> l.cid, call |-> l.call] \in channels
  /\ \A k, l \in channels : k.whose = l.whose => k = l

\* What is heard is what was asked for, once the channels have been listed.
Listens(p, h) == h # Silent => p.at = "idle" /\ p # NoRequest /\ h.whose = p.of

\* A limited manager's request is about the team that was read, unless that has changed.
InTeam(p, all, boss) == p.by \in Scoped => p.of \in Below(p.by, all, boss)

TeamsInv ==
  /\ TeamsTypeOK
  /\ Paired(leg)
  /\ \A q \in Requests : Listens(pending[q], heard[q])
  /\ \A q \in Requests \ moved : InTeam(pending[q], people, manager)
  /\ \A q \in Requests : pending[q].at \in {"manager", "write"} => pending[q].by \in Scoped

LEMMA TeamsFacts ==
  ASSUME TeamsInv
  PROVE  /\ people \in SUBSET Users /\ manager \in [Users -> Users \cup {Nobody}]
         /\ pending \in [Requests -> Request] /\ heard \in [Requests -> {Silent} \cup Channel]
         /\ leg \in SUBSET Channel /\ calls \in 0..MaxCalls /\ moved \in SUBSET Requests
         /\ Nobody \notin Users /\ Scoped \subseteq Users /\ MaxCalls \in Nat
         /\ NoRequest \in Request /\ NoRequest.by \notin Scoped
BY TeamsAssumption DEF TeamsInv, TeamsTypeOK, NoRequest, Request

\* The first row that names a phone is that phone's own channel.
LEMMA FirstIsOwn ==
  ASSUME leg \in SUBSET Channel, Paired(leg), NEW t, Naming(t) # {}
  PROVE  findChannelUuid(t) \in leg /\ findChannelUuid(t).whose = t
<1>1. PICK o \in leg : o.whose = t
  BY DEF Naming, Paired
<1>2. o \in Naming(t)
  BY <1>1 DEF Naming
<1>3. \A k \in Naming(t) \ {o} : k.cid = t /\ k.whose # t
  BY <1>1 DEF Naming, Paired
<1>4. ASSUME NEW k \in Naming(t) \ {o} PROVE o.call = k.call /\ o.cid = t
  <2>1. k \in leg /\ k.cid = t /\ k.whose # t
    BY <1>3 DEF Naming
  <2> DEFINE own == [whose |-> k.cid, cid |-> k.cid, call |-> k.call]
  <2>2. own \in leg /\ own.whose = t /\ own.cid = t /\ own.call = k.call
    BY <2>1 DEF Paired
  <2> HIDE DEF own
  <2>3. own = o
    BY <1>1, <2>2 DEF Paired
  <2>4. QED
    BY <2>2, <2>3
<1>5. \A k \in Naming(t) \ {o} : Before(o, k)
  BY <1>1, <1>4 DEF Before
<1>6. \E l \in Naming(t) : \A k \in Naming(t) \ {l} : Before(l, k)
  BY <1>2, <1>5
<1>7. PICK l : l = CHOOSE x \in Naming(t) : \A k \in Naming(t) \ {x} : Before(x, k)
  OBVIOUS
<1>8. l \in Naming(t) /\ \A k \in Naming(t) \ {l} : Before(l, k)
  BY <1>6, <1>7
<1>9. l = o
  <2> SUFFICES ASSUME l # o PROVE FALSE
    OBVIOUS
  <2>1. l \in Naming(t) \ {o} /\ Before(l, o)
    BY <1>2, <1>8
  <2>2. l.whose # t /\ l.cid = t /\ o.call = l.call
    BY <1>3, <1>4, <2>1
  <2>3. o.call \in Int /\ l.call \in Int
    BY <1>1, <1>8 DEF Naming, Channel
  <2>4. QED
    BY <2>1, <2>2, <2>3 DEF Before
<1>10. findChannelUuid(t) = l
  BY <1>7 DEF findChannelUuid
<1>11. QED
  BY <1>1, <1>9, <1>10

LEMMA TeamsStart == TeamsInit => TeamsInv
<1> SUFFICES ASSUME TeamsInit PROVE TeamsInv
  OBVIOUS
<1>1. /\ people = Scoped /\ manager = [u \in Users |-> Nobody] /\ pending = [q \in Requests |-> NoRequest]
      /\ leg = {} /\ calls = 0 /\ heard = [q \in Requests |-> Silent] /\ moved = {}
  BY DEF TeamsInit
<1>2. NoRequest \in Request /\ NoRequest.by \notin Scoped /\ NoRequest.at = "idle"
  BY TeamsAssumption DEF NoRequest, Request
<1>3. TeamsTypeOK
  BY <1>1, <1>2, TeamsAssumption DEF TeamsTypeOK
<1>4. Paired(leg)
  BY <1>1 DEF Paired
<1>5. \A q \in Requests : pending[q] = NoRequest /\ heard[q] = Silent
  BY <1>1
<1>6. QED
  BY <1>2, <1>3, <1>4, <1>5 DEF TeamsInv, Listens, InTeam

-----------------------------------------------------------------------------
\* The tree changes: a request that is not marked is about the same team as before.
LEMMA TreeChanges ==
  ASSUME TeamsInv, people' \in SUBSET Users, manager' \in [Users -> Users \cup {Nobody}], UNCHANGED phoneVars,
         pending' \in [Requests -> Request], moved' \in SUBSET Requests,
         \A q \in Requests : \/ pending'[q] = pending[q] /\ (q \in moved \/ q \in Stale(people', manager') => q \in moved')
                             \/ pending'[q] = NoRequest /\ heard[q] = Silent
  PROVE  TeamsInv'
<1>1. TeamsTypeOK'
  BY TeamsFacts DEF TeamsTypeOK, phoneVars
<1>2. Paired(leg)'
  BY DEF TeamsInv, Paired, phoneVars
<1>3. NoRequest.by \notin Scoped /\ NoRequest.at = "idle"
  BY TeamsFacts DEF NoRequest
<1>4. \A q \in Requests : Listens(pending[q], heard[q])'
  BY <1>3 DEF TeamsInv, Listens, phoneVars
<1>5. ASSUME NEW q \in Requests \ moved' PROVE InTeam(pending'[q], people', manager')
  <2>1. CASE pending'[q] = NoRequest
    BY <2>1, <1>3 DEF InTeam
  <2>2. CASE pending'[q] # NoRequest
    <3>1. pending'[q] = pending[q] /\ q \notin moved /\ q \notin Stale(people', manager')
      BY <1>5, <2>2
    <3>2. InTeam(pending[q], people, manager)
      BY <3>1 DEF TeamsInv
    <3>3. Below(pending[q].by, people', manager') = Below(pending[q].by, people, manager)
      BY <2>2, <3>1 DEF Stale, Team
    <3>4. QED
      BY <3>1, <3>2, <3>3 DEF InTeam
  <2>3. QED
    BY <2>1, <2>2
<1>6. \A q \in Requests : pending'[q].at \in {"manager", "write"} => pending'[q].by \in Scoped
  BY <1>3 DEF TeamsInv
<1>7. (\A q \in Requests \ moved : InTeam(pending[q], people, manager))'
  BY <1>5
<1>8. QED
  BY <1>1, <1>2, <1>4, <1>6, <1>7 DEF TeamsInv

LEMMA EditsKeep ==
  ASSUME TeamsInv, NEW u \in Users, NEW b \in Users \cup {Nobody},
         people' = people \cup {u}, manager' = [manager EXCEPT ![u] = b],
         moved' = moved \cup Stale(people', manager'), UNCHANGED <<pending, phoneVars>>
  PROVE  TeamsInv'
<1>1. people' \in SUBSET Users /\ manager' \in [Users -> Users \cup {Nobody}] /\ pending' \in [Requests -> Request]
  BY TeamsFacts
<1>2. moved' \in SUBSET Requests
  BY TeamsFacts DEF Stale
<1>3. QED
  BY <1>1, <1>2, TreeChanges

LEMMA WriteKeeps ==
  ASSUME TeamsInv, NEW q \in Requests, WritesManager(q)
  PROVE  TeamsInv'
<1>1. /\ pending[q].at = "write" /\ manager' = [manager EXCEPT ![pending[q].of] = pending[q].boss]
      /\ pending' = [pending EXCEPT ![q] = NoRequest] /\ moved' = (moved \cup Stale(people, manager')) \ {q}
      /\ UNCHANGED <<people, phoneVars>>
  BY DEF WritesManager
<1>2. pending[q] \in Request /\ NoRequest \in Request
  BY TeamsFacts
<1>3. manager' \in [Users -> Users \cup {Nobody}] /\ pending' \in [Requests -> Request] /\ moved' \in SUBSET Requests
  BY <1>1, <1>2, TeamsFacts DEF Request, Stale
<1>4. heard[q] = Silent
  BY <1>1 DEF TeamsInv, Listens
<1>5. \A r \in Requests : r # q => pending'[r] = pending[r] /\ (r \in moved \/ r \in Stale(people', manager') => r \in moved')
  BY <1>1, TeamsFacts
<1>6. pending'[q] = NoRequest
  BY <1>1, TeamsFacts
<1>7. people' \in SUBSET Users
  BY <1>1, TeamsFacts
<1>8. QED
  BY <1>1, <1>3, <1>4, <1>5, <1>6, <1>7, TreeChanges

\* One request takes a step, and what it hears with it.
LEMMA RequestMoves ==
  ASSUME TeamsInv, NEW q \in Requests, NEW p \in Request, NEW h \in {Silent} \cup Channel,
         pending' = [pending EXCEPT ![q] = p], heard' = [heard EXCEPT ![q] = h],
         UNCHANGED <<people, manager, leg, calls>>,
         moved' = moved \/ moved' = moved \ {q},
         Listens(p, h), q \notin moved' => InTeam(p, people, manager),
         p.at \in {"manager", "write"} => p.by \in Scoped
  PROVE  TeamsInv'
<1>1. \A r \in Requests : pending'[r] = (IF r = q THEN p ELSE pending[r]) /\ heard'[r] = IF r = q THEN h ELSE heard[r]
  BY TeamsFacts
<1>2. TeamsTypeOK'
  BY TeamsFacts DEF TeamsTypeOK
<1>3. Paired(leg)'
  BY DEF TeamsInv, Paired
<1>4. \A r \in Requests : Listens(pending'[r], heard'[r])
  BY <1>1 DEF TeamsInv
<1>5. \A r \in Requests \ moved' : InTeam(pending'[r], people, manager)
  BY <1>1 DEF TeamsInv
<1>6. \A r \in Requests : pending'[r].at \in {"manager", "write"} => pending'[r].by \in Scoped
  BY <1>1 DEF TeamsInv
<1>7. (\A r \in Requests : Listens(pending[r], heard[r]))'
  BY <1>4
<1>8. (\A r \in Requests \ moved : InTeam(pending[r], people, manager))'
  BY <1>5
<1>9. QED
  BY <1>2, <1>3, <1>6, <1>7, <1>8 DEF TeamsInv

LEMMA RequestSteps ==
  ASSUME TeamsInv, NEW q \in Requests,
         \/ \E u, v \in Users, boss \in Users \cup {Nobody} : UpdateArrives(q, u, v, boss)
         \/ resolveManagerId(q)
         \/ \E u, t \in Users : monitorAgent(q, u, t)
         \/ Eavesdrops(q) \/ HangsUp(q)
  PROVE  TeamsInv'
<1> DEFINE p == pending[q]
<1>0. /\ p \in Request /\ heard[q] \in {Silent} \cup Channel /\ heard = [heard EXCEPT ![q] = heard[q]]
      /\ Listens(p, heard[q]) /\ (q \notin moved => InTeam(p, people, manager))
      /\ p.at \in {"manager", "write"} => p.by \in Scoped
  BY TeamsFacts DEF TeamsInv
<1>00. NoRequest \in Request /\ NoRequest.by \notin Scoped /\ NoRequest.at = "idle" /\ Silent \in {Silent} \cup Channel
  BY TeamsFacts DEF NoRequest
<1>1. ASSUME NEW u \in Users, NEW v \in Users, NEW boss \in Users \cup {Nobody}, UpdateArrives(q, u, v, boss)
      PROVE  TeamsInv'
  <2> DEFINE n == [at |-> "manager", by |-> u, of |-> v, boss |-> boss]
  <2>1. /\ p = NoRequest /\ u \in people /\ u \in Scoped /\ v \in teamScopeIds(u)
        /\ pending' = [pending EXCEPT ![q] = n] /\ UNCHANGED <<people, manager, leg, calls, heard, moved>>
    BY <1>1 DEF UpdateArrives, isTeamScoped, treeVars, phoneVars
  <2>2. v \in Below(u, people, manager)
    BY <2>1, TeamsFacts, WalkFinds DEF Team
  <2>3. n \in Request /\ InTeam(n, people, manager) /\ n.by \in Scoped
    BY <2>1, <2>2 DEF Request, InTeam
  <2>4. heard[q] = Silent
    BY <1>0, <2>1 DEF Listens
  <2>5. Listens(n, heard[q])
    BY <2>4 DEF Listens
  <2> HIDE DEF n
  <2>6. QED
    BY <2>1, <2>3, <2>5, <1>0, RequestMoves
<1>2. CASE resolveManagerId(q)
  <2>1. p.at = "manager" /\ UNCHANGED <<people, manager, leg, calls, heard>>
    BY <1>2 DEF resolveManagerId, treeVars, phoneVars
  <2>2. \E n \in {NoRequest, [p EXCEPT !.at = "write"]} :
          pending' = [pending EXCEPT ![q] = n] /\ moved' = IF pending'[q] = NoRequest THEN moved \ {q} ELSE moved
    BY <1>2 DEF resolveManagerId
  <2>3. PICK n \in {NoRequest, [p EXCEPT !.at = "write"]} :
          pending' = [pending EXCEPT ![q] = n] /\ moved' = IF pending'[q] = NoRequest THEN moved \ {q} ELSE moved
    BY <2>2
  <2>4. pending'[q] = n
    BY <2>3, TeamsFacts
  <2>5. heard[q] = Silent
    BY <1>0, <2>1 DEF Listens
  <2>6. CASE n = NoRequest
    BY <2>1, <2>3, <2>4, <2>5, <2>6, <1>0, <1>00, RequestMoves DEF Listens, InTeam
  <2>7. CASE n = [p EXCEPT !.at = "write"] /\ n # NoRequest
    <3>1. n \in Request /\ n.by = p.by /\ n.of = p.of
      BY <1>0, <2>7 DEF Request
    <3>2. moved' = moved
      BY <2>3, <2>4, <2>7
    <3>3. n.by \in Scoped /\ (q \notin moved' => InTeam(n, people, manager))
      BY <1>0, <2>1, <3>1, <3>2 DEF InTeam
    <3>4. QED
      BY <2>1, <2>3, <2>5, <3>1, <3>2, <3>3, <1>0, RequestMoves DEF Listens
  <2>8. QED
    BY <2>6, <2>7
<1>3. ASSUME NEW u \in Users, NEW t \in Users, monitorAgent(q, u, t)
      PROVE  TeamsInv'
  <2> DEFINE n == [at |-> "channels", by |-> u, of |-> t, boss |-> Nobody]
  <2>1. /\ p = NoRequest /\ u \in people /\ (u \in Scoped => t \in teamScopeIds(u))
        /\ pending' = [pending EXCEPT ![q] = n] /\ UNCHANGED <<people, manager, leg, calls, heard, moved>>
    BY <1>3 DEF monitorAgent, isTeamScoped, treeVars, phoneVars
  <2>2. u \in Scoped => t \in Below(u, people, manager)
    BY <2>1, TeamsFacts, WalkFinds DEF Team
  <2>3. n \in Request /\ InTeam(n, people, manager) /\ n.at \notin {"manager", "write"}
    BY <2>2 DEF Request, InTeam
  <2>4. heard[q] = Silent
    BY <1>0, <2>1 DEF Listens
  <2>5. Listens(n, heard[q])
    BY <2>4 DEF Listens
  <2> HIDE DEF n
  <2>6. QED
    BY <2>1, <2>3, <2>5, <1>0, RequestMoves
<1>4. CASE Eavesdrops(q)
  <2> DEFINE h == findChannelUuid(p.of)
             n == IF h = Silent THEN NoRequest ELSE [p EXCEPT !.at = "idle"]
  <2>1. p.at = "channels" /\ heard' = [heard EXCEPT ![q] = h] /\ UNCHANGED <<people, manager, leg, calls>>
    BY <1>4 DEF Eavesdrops, treeVars
  <2>2. heard'[q] = h
    BY <2>1, TeamsFacts
  <2>3. pending' = [pending EXCEPT ![q] = n]
    BY <1>4, <2>2 DEF Eavesdrops
  <2>4. moved' = IF n = NoRequest THEN moved \ {q} ELSE moved
    <3>1. pending'[q] = n
      BY <2>3, TeamsFacts
    <3>2. QED
      BY <1>4, <3>1 DEF Eavesdrops
  <2>5. h = Silent \/ (h \in Channel /\ h.whose = p.of)
    <3>1. CASE Naming(p.of) = {}
      BY <3>1 DEF findChannelUuid
    <3>2. CASE Naming(p.of) # {}
      BY <3>2, TeamsFacts, FirstIsOwn DEF TeamsInv
    <3>3. QED
      BY <3>1, <3>2
  <2>6. CASE h = Silent
    <3>1. n = NoRequest
      BY <2>6
    <3>2. Listens(n, h) /\ InTeam(n, people, manager)
      BY <1>00, <2>6, <3>1 DEF Listens, InTeam
    <3>3. QED
      BY <2>1, <2>3, <2>4, <2>6, <3>1, <3>2, <1>00, RequestMoves
  <2>7. CASE h # Silent
    <3>1. n = [p EXCEPT !.at = "idle"]
      BY <2>7
    <3>2. n \in Request /\ n.by = p.by /\ n.of = p.of /\ n.at = "idle"
      BY <1>0, <3>1 DEF Request
    <3>3. n # NoRequest
      <4>1. \E x \in Users : h.whose = x
        BY <2>5, <2>7 DEF Channel
      <4>2. n.of \in Users
        BY <2>5, <2>7, <3>2, <4>1
      <4>3. NoRequest.of \notin Users
        BY TeamsFacts DEF NoRequest
      <4>4. QED
        BY <4>2, <4>3
    <3>4. moved' = moved
      BY <2>4, <3>3
    <3>5. Listens(n, h) /\ (q \notin moved' => InTeam(n, people, manager))
      BY <2>5, <2>7, <3>2, <3>3, <3>4, <1>0 DEF Listens, InTeam
    <3> HIDE DEF n, h
    <3>6. QED
      BY <2>1, <2>3, <2>5, <3>2, <3>4, <3>5, RequestMoves
  <2>8. QED
    BY <2>6, <2>7
<1>5. CASE HangsUp(q)
  <2>1. /\ pending' = [pending EXCEPT ![q] = NoRequest] /\ heard' = [heard EXCEPT ![q] = Silent]
        /\ moved' = moved \ {q} /\ UNCHANGED <<people, manager, leg, calls>>
    BY <1>5 DEF HangsUp, treeVars
  <2>2. QED
    BY <2>1, <1>00, RequestMoves DEF Listens, InTeam
<1>6. QED
  BY <1>1, <1>2, <1>3, <1>4, <1>5

-----------------------------------------------------------------------------
\* A call has a channel for each of its phones, the caller's among them.
LEMMA CallStartKeeps ==
  ASSUME TeamsInv, NEW u \in Users, NEW v \in Users \cup {Nobody}, CallStarts(u, v)
  PROVE  TeamsInv'
<1> DEFINE ends == {u, v} \ {Nobody}
           channel(w) == [whose |-> w, cid |-> u, call |-> calls + 1]
<1>1. /\ calls < MaxCalls /\ u # v /\ \A l \in leg : l.whose \notin {u, v}
      /\ calls' = calls + 1 /\ leg' = leg \cup {channel(w) : w \in ends}
      /\ UNCHANGED <<people, manager, pending, heard, moved>>
  BY DEF CallStarts, treeVars
<1>2. ends \in SUBSET Users /\ u \in ends
  BY TeamsFacts
<1>3. calls + 1 \in 1..MaxCalls /\ calls' \in 0..MaxCalls
  BY <1>1, TeamsFacts
<1>4. \A w \in ends : channel(w) \in Channel /\ channel(w).whose = w /\ channel(w).cid = u /\ channel(w).call = calls + 1
  BY <1>2, <1>3 DEF Channel
<1> HIDE DEF ends
<1>5. leg' \in SUBSET Channel
  BY <1>1, <1>4, TeamsFacts
<1>6. TeamsTypeOK'
  BY <1>1, <1>3, <1>5, TeamsFacts DEF TeamsTypeOK
<1>7. ASSUME NEW l \in leg', l.cid # l.whose
      PROVE  [whose |-> l.cid, cid |-> l.cid, call |-> l.call] \in leg'
  <2>1. CASE l \in leg
    BY <1>1, <1>7, <2>1 DEF TeamsInv, Paired
  <2>2. CASE l \notin leg
    <3>1. l.cid = u /\ l.call = calls + 1
      BY <1>1, <1>4, <2>2
    <3>2. channel(u) \in leg'
      BY <1>1, <1>2
    <3>3. QED
      BY <3>1, <3>2
  <2>3. QED
    BY <2>1, <2>2
<1>8. ASSUME NEW k \in leg', NEW l \in leg', k.whose = l.whose PROVE k = l
  <2>1. CASE k \in leg /\ l \in leg
    BY <1>8, <2>1 DEF TeamsInv, Paired
  <2>2. ASSUME NEW w \in ends, NEW m \in leg PROVE channel(w).whose # m.whose
    <3>1. w \in {u, v}
      BY DEF ends
    <3>2. QED
      BY <1>1, <1>4, <3>1
  <2>3. \A w, x \in ends : channel(w).whose = channel(x).whose => channel(w) = channel(x)
    BY <1>4
  <2> HIDE DEF channel
  <2>4. QED
    BY <1>1, <1>8, <2>1, <2>2, <2>3
<1>9. Paired(leg')
  BY <1>7, <1>8 DEF Paired
<1>10. Paired(leg)'
  BY <1>9 DEF Paired
<1>11. QED
  BY <1>1, <1>6, <1>10 DEF TeamsInv, Listens, InTeam, Below

\* A call that ends takes all of its channels with it, and who listened to one hears nothing.
LEMMA CallEndKeeps ==
  ASSUME TeamsInv, NEW c \in 1..MaxCalls, CallEnds(c)
  PROVE  TeamsInv'
<1>1. /\ leg' = {l \in leg : l.call # c}
      /\ heard' = [q \in Requests |-> IF heard[q].call = c THEN Silent ELSE heard[q]]
      /\ UNCHANGED <<people, manager, pending, calls, moved>>
  BY DEF CallEnds, treeVars
<1>2. \A q \in Requests : heard'[q] \in {Silent, heard[q]} /\ heard[q] \in {Silent} \cup Channel
  BY <1>1, TeamsFacts
<1>3. heard' \in [Requests -> {Silent} \cup Channel]
  <2>1. \A q \in Requests : (IF heard[q].call = c THEN Silent ELSE heard[q]) \in {Silent} \cup Channel
    BY <1>2
  <2>2. QED
    BY <1>1, <2>1
<1>4. TeamsTypeOK'
  BY <1>1, <1>3, TeamsFacts DEF TeamsTypeOK
<1>5. Paired(leg')
  BY <1>1 DEF TeamsInv, Paired
<1>6. \A q \in Requests : Listens(pending'[q], heard'[q])
  BY <1>1, <1>2 DEF TeamsInv, Listens
<1>7. Paired(leg)' /\ (\A q \in Requests : Listens(pending[q], heard[q]))'
  BY <1>5, <1>6 DEF Paired
<1>8. QED
  BY <1>1, <1>4, <1>7 DEF TeamsInv, InTeam, Below

LEMMA TeamsStep == TeamsInv /\ [TeamsNext]_teamsVars => TeamsInv'
<1> SUFFICES ASSUME TeamsInv, [TeamsNext]_teamsVars PROVE TeamsInv'
  OBVIOUS
<1>1. ASSUME NEW u \in Users, NEW boss \in Users \cup {Nobody}, AdministratorEdits(u, boss) PROVE TeamsInv'
  BY <1>1, EditsKeep DEF AdministratorEdits
<1>2. ASSUME NEW u \in Users, NEW v \in Users, ScopedCreates(u, v) PROVE TeamsInv'
  BY <1>2, EditsKeep DEF ScopedCreates
<1>3. ASSUME NEW q \in Requests, NEW u \in Users, NEW v \in Users, NEW boss \in Users \cup {Nobody},
             UpdateArrives(q, u, v, boss)
      PROVE  TeamsInv'
  BY <1>3, RequestSteps
<1>4. ASSUME NEW q \in Requests, resolveManagerId(q) PROVE TeamsInv'
  BY <1>4, RequestSteps
<1>5. ASSUME NEW q \in Requests, WritesManager(q) PROVE TeamsInv'
  BY <1>5, WriteKeeps
<1>6. ASSUME NEW u \in Users, NEW v \in Users \cup {Nobody}, CallStarts(u, v) PROVE TeamsInv'
  BY <1>6, CallStartKeeps
<1>7. ASSUME NEW c \in 1..MaxCalls, CallEnds(c) PROVE TeamsInv'
  BY <1>7, CallEndKeeps
<1>8. ASSUME NEW q \in Requests, NEW u \in Users, NEW t \in Users, monitorAgent(q, u, t) PROVE TeamsInv'
  BY <1>8, RequestSteps
<1>9. ASSUME NEW q \in Requests, Eavesdrops(q) \/ HangsUp(q) PROVE TeamsInv'
  BY <1>9, RequestSteps
<1>10. CASE UNCHANGED teamsVars
  BY <1>10 DEF teamsVars, treeVars, phoneVars, TeamsInv, TeamsTypeOK, Paired, Listens, InTeam, Below
<1>11. QED
  BY <1>1, <1>2, <1>3, <1>4, <1>5, <1>6, <1>7, <1>8, <1>9, <1>10 DEF TeamsNext

-----------------------------------------------------------------------------
LEMMA TeamsHear == TeamsInv => HearsOwnTeam
<1> SUFFICES ASSUME TeamsInv PROVE HearsOwnTeam
  OBVIOUS
<1>1. ASSUME NEW q \in Requests, heard[q] # Silent
      PROVE  /\ heard[q].whose = pending[q].of
             /\ pending[q].by \in Scoped /\ q \notin moved => pending[q].of \in Team(pending[q].by)
  BY <1>1 DEF TeamsInv, Listens, InTeam, Team
<1>2. \A u \in Users : teamScopeIds(u) = Team(u)
  BY TeamsFacts, WalkFinds
<1>3. ASSUME NEW u \in Users PROVE u \in Team(u) /\ \A v \in Team(u) : v \in people \cup {u} /\ Team(v) \subseteq Team(u)
  BY TeamsFacts, BelowIsLeast, TeamsNest DEF Team
<1>4. ASSUME NEW u \in people PROVE u \in listsLogs(u)
  BY <1>2, <1>3, TeamsFacts DEF listsLogs, teamScopeExtensions
<1>5. ASSUME NEW u \in people \cap Scoped \cap Analysts
      PROVE  /\ listsLogs(u) = Team(u)
             /\ \A v \in Team(u) : ownOnly(v) \/ isTeamScoped(v) => listsLogs(v) \subseteq listsLogs(u)
  <2>1. u \in Users /\ ~ownOnly(u) /\ isTeamScoped(u)
    BY TeamsFacts DEF ownOnly, isTeamScoped
  <2>2. listsLogs(u) = Team(u)
    BY <1>2, <2>1 DEF listsLogs, teamScopeExtensions
  <2>3. ASSUME NEW v \in Team(u), ownOnly(v) \/ isTeamScoped(v) PROVE listsLogs(v) \subseteq Team(u)
    <3>1. v \in Users /\ v \in people \cup {u} /\ Team(v) \subseteq Team(u)
      BY <1>3, <2>1, TeamsFacts
    <3>2. listsLogs(v) = {v} \/ listsLogs(v) = Team(v)
      BY <1>2, <2>3, <3>1 DEF listsLogs, teamScopeExtensions
    <3>3. QED
      BY <3>1, <3>2
  <2>4. QED
    BY <2>2, <2>3
<1>6. QED
  BY <1>1, <1>2, <1>4, <1>5, TeamsFacts DEF HearsOwnTeam

\* Only the write itself takes a request from there to none, and it moves one of the team.
LEMMA WritesWithin ==
  ASSUME TeamsInv, [TeamsNext]_teamsVars,
         NEW q \in Requests, pending[q].at = "write", pending'[q] = NoRequest, q \notin moved
  PROVE  Below(pending[q].by, people', manager') \subseteq Team(pending[q].by)
<1>1. pending \in [Requests -> Request] /\ NoRequest.at = "idle"
  BY TeamsFacts DEF NoRequest
<1>2. pending' # pending
  BY <1>1
<1>3. ASSUME NEW r \in Requests,
             \/ \E u, v \in Users, boss \in Users \cup {Nobody} : UpdateArrives(r, u, v, boss)
             \/ resolveManagerId(r)
             \/ \E u, t \in Users : monitorAgent(r, u, t)
             \/ Eavesdrops(r) \/ HangsUp(r)
      PROVE  FALSE
  <2>1. pending[r] = NoRequest \/ pending[r].at \in {"manager", "channels", "idle"}
    BY <1>3 DEF UpdateArrives, resolveManagerId, monitorAgent, Eavesdrops, HangsUp
  <2>2. r # q
    BY <1>1, <2>1
  <2>3. pending'[q] = pending[q]
    BY <1>1, <1>3, <2>2 DEF UpdateArrives, resolveManagerId, monitorAgent, Eavesdrops, HangsUp
  <2>4. QED
    BY <1>1, <2>3
<1>4. PICK r \in Requests : WritesManager(r)
  BY <1>2, <1>3 DEF TeamsNext, AdministratorEdits, ScopedCreates, CallStarts, CallEnds, teamsVars
<1>5. r = q
  BY <1>1, <1>4 DEF WritesManager
<1>6. manager' = [manager EXCEPT ![pending[q].of] = pending[q].boss] /\ people' = people
  BY <1>4, <1>5 DEF WritesManager
<1>7. pending[q].by \in Scoped /\ InTeam(pending[q], people, manager)
  BY DEF TeamsInv
<1>8. PICK by : by = pending[q].by
  OBVIOUS
<1>9. PICK of : of = pending[q].of
  OBVIOUS
<1>10. PICK boss : boss = pending[q].boss
  OBVIOUS
<1>11. by \in Users /\ of \in Below(by, people, manager)
  BY <1>7, <1>8, <1>9, TeamsFacts DEF InTeam
<1>12. PICK all : all = people
  OBVIOUS
<1>13. PICK old : old = manager
  OBVIOUS
<1>14. PICK new : new = manager'
  OBVIOUS
<1>15. new = [old EXCEPT ![of] = boss] /\ all \in SUBSET Users /\ DOMAIN old = Users /\ of \in Below(by, all, old)
  BY <1>6, <1>9, <1>10, <1>11, <1>12, <1>13, <1>14, TeamsFacts
<1>16. Below(by, all, new) \subseteq Below(by, all, old)
  BY <1>11, <1>15, MovesWithin
<1>17. QED
  BY <1>6, <1>8, <1>12, <1>13, <1>14, <1>16 DEF Team

\* The requests, the channels and the tree keep their types.
THEOREM TeamsTypeCorrect == TeamsSpec => []TeamsTypeOK
<1>1. TeamsInv => TeamsTypeOK
  BY DEF TeamsInv
<1>2. QED
  BY <1>1, TeamsStart, TeamsStep, PTL DEF TeamsSpec

\* teamScopeIds finds exactly the team, an eavesdrop rings into the channel of the agent asked for
\* and of the team, and an update by a limited manager brings nobody into it.
THEOREM ScopeHolds == TeamsSpec => []HearsOwnTeam /\ TeamScopeHolds
<1>1. TeamsInv /\ [TeamsNext]_teamsVars =>
        [teamsVars' # teamsVars =>
           /\ HearsOwnTeam
           /\ \A q \in Requests :
              pending[q].at = "write" /\ pending'[q] = NoRequest /\ q \notin moved
                => Below(pending[q].by, people', manager') \subseteq Team(pending[q].by)]_teamsVars
  BY WritesWithin, TeamsHear
<1>2. QED
  BY <1>1, TeamsStart, TeamsStep, TeamsHear, PTL DEF TeamsSpec, TeamScopeHolds

-----------------------------------------------------------------------------
(***************************************************************************)
(* The server and the demo backend together: what moves is one part, and   *)
(* the others stay as they are, so a behaviour of all is one of each.      *)
(***************************************************************************)

\* A step of the server is a step of the part that moves, and none of the others.
LEMMA PartsStep ==
  [BackendNext]_BackendVars =>
    /\ part' = part
    /\ [TenancyNext]_tenancyVars /\ [NumberingNext]_numberingVars /\ [ProvisioningNext]_provisioningVars
    /\ [DialplanNext]_row /\ [RealtimeNext]_realtimeVars /\ [RolesNext]_rolesVars
    /\ [TeamsNext]_teamsVars /\ [Next]_vars /\ [PlatformNext]_platformVars
    /\ [DemoTeamNext]_demoTeamVars /\ [DemoLeadsNext]_demoLeadsVars
BY DEF BackendNext, BackendVars, serverVars, demoVars

LEMMA PartsStart ==
  BackendInit =>
    /\ TenancyInit /\ NumberingInit /\ ProvisioningInit /\ DialplanInit /\ RealtimeInit /\ RolesInit
    /\ TeamsInit /\ Init /\ PlatformInit /\ DemoTeamInit /\ DemoLeadsInit
BY DEF BackendInit

\* A behaviour of the server is one of each of its parts.
THEOREM EachPart ==
  BackendSpec =>
    /\ TenancySpec /\ NumberingSpec /\ ProvisioningSpec /\ DialplanSpec /\ RealtimeSpec /\ RolesSpec
    /\ TeamsSpec /\ Spec /\ PlatformSpec
    /\ DemoTeamInit /\ [][DemoTeamNext]_demoTeamVars
    /\ DemoLeadsInit /\ [][DemoLeadsNext]_demoLeadsVars
BY PartsStart, PartsStep, PTL
   DEF BackendSpec, TenancySpec, NumberingSpec, ProvisioningSpec, DialplanSpec, RealtimeSpec, RolesSpec,
       TeamsSpec, Spec, PlatformSpec

\* What the demo store keeps, of its three parts.
LEMMA DemoStoreKept == BackendSpec => [](PlatformInv /\ DemoTeamInv /\ DemoLeadsInv)
BY EachPart, PlatformStart, PlatformStep, DemoTeamStart, DemoTeamStep, DemoLeadsStart, DemoLeadsStep, PTL
   DEF PlatformSpec

\* No request to the server or to the demo backend takes a part's state out of its type.
THEOREM BackendTypesHold == BackendSpec => []BackendTypeOK
<1>1. PlatformInv /\ DemoTeamInv /\ DemoLeadsInv => PlatformTypeOK /\ DemoTeamTypeOK /\ DemoLeadsTypeOK
  BY DEF PlatformInv, DemoTeamInv, DemoLeadsInv
<1>2. /\ TenancyTypeOK /\ NumberingTypeOK /\ ProvisioningTypeOK /\ DialplanTypeOK /\ RealtimeTypeOK
      /\ RolesTypeOK /\ TeamsTypeOK /\ TypeOK /\ PlatformTypeOK /\ DemoTeamTypeOK /\ DemoLeadsTypeOK
      => BackendTypeOK
  BY DEF BackendTypeOK
<1>3. QED
  BY <1>1, <1>2, EachPart, DemoStoreKept, TenancyTypeCorrect, NumberingTypeCorrect, ProvisioningTypeCorrect,
     DialplanTypeCorrect, RealtimeTypeCorrect, RolesTypeCorrect, TeamsTypeCorrect, EventsTypeCorrect, PTL

\* The demo backend's copies of one fact agree: the vendor's books with its companies, the roles and
\* figures of accounts with their rows, the leads of a campaign with its counts.
THEOREM DemoStoreHolds == BackendSpec => []DemoStoreAgrees
<1>1. PlatformInv /\ DemoTeamInv /\ DemoLeadsInv => DemoStoreAgrees
  BY ConsoleHolds, TeamHolds, DemoLeadsAgree DEF DemoStoreAgrees
<1>2. QED
  BY <1>1, DemoStoreKept, PTL
=============================================================================
