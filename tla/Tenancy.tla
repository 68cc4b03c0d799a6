------------------------------ MODULE Tenancy -------------------------------
(***************************************************************************)
(* Companies and their carrier account: self-service signup and onboarding *)
(* (billing.service), which write tenant, role, admin account, plan and    *)
(* trunk one after the other without a transaction, the VoipSwitch client  *)
(* they provision (voipswitch.service), suspension and its mirror at the   *)
(* carrier, and login by email across all tenants.               *)
(*                                                                         *)
(* A request creates at most one tenant, so the request names it. Every    *)
(* company asks for the same name, the case in which slugs compete. A      *)
(* database call may fail until MaxFaults calls have; so may a carrier     *)
(* call.                                                                   *)
(***************************************************************************)
EXTENDS Integers, FiniteSets

CONSTANTS
  Signups,    \* requests to registerTenant or onboardTenant, and their tenants
  Emails,     \* admin emails
  Dids,       \* the carrier's pool of numbers
  Operators,  \* suspend and activate requests of platform operators
  MaxFaults,  \* bound on failing calls
  None

ASSUME TenancyAssumption ==
  /\ IsFiniteSet(Signups) /\ IsFiniteSet(Emails) /\ IsFiniteSet(Dids)
  /\ MaxFaults \in Nat
  /\ None \notin Emails \cup Dids \cup Signups

VARIABLES
  request,    \* each signup: how it came, its email, and its next await
  tenant,     \* each tenant's row: status and slug number
  admin,      \* the email of the tenant's admin account, or None
  role,       \* tenants with their Administrator role
  client,     \* the tenant's VoipSwitch client: whether active, and its number
  did,        \* each number of the pool as the carrier lists it
  trunk,      \* tenants whose trunk row names their client
  operator,   \* each suspend or activate request
  faults,     \* calls that have failed
  blurred     \* auxiliary: requests, tenants and numbers a race or a failed
              \* carrier call has touched

requestVars == <<request, tenant, admin, role>>
carrierVars == <<client, did, trunk>>
tenancyVars == <<requestVars, carrierVars, operator, faults, blurred>>

\* The awaits of a signup, in their order.
DatabaseSteps == {"email", "slug", "tenant", "role", "admin", "setPlan"}
CarrierSteps  == {"retail", "dids", "assign", "trunk"}
Answers       == {"answered", "refused", "failed"}

NoTenant == [status |-> "none", slug |-> 0]
NoClient == [active |-> FALSE, number |-> None]
Finished == [at |-> "done", of |-> None, want |-> "active"]

TenancyTypeOK ==
  /\ request \in [Signups -> [at : {"idle"} \cup DatabaseSteps \cup CarrierSteps \cup Answers,
                              self : BOOLEAN, email : Emails \cup {None},
                              slug : 1..Cardinality(Signups) + 1, picked : Dids \cup {None}]]
  /\ tenant \in [Signups -> [status : {"none", "trial", "active", "suspended"},
                             slug : 0..Cardinality(Signups)]]
  /\ admin \in [Signups -> Emails \cup {None}]
  /\ role \subseteq Signups /\ trunk \subseteq Signups
  /\ client \in [Signups -> [active : BOOLEAN, number : Dids \cup {None}]]
  /\ did \in [Dids -> {"Available", "Assigned"}]
  /\ operator \in [Operators -> [at : {"idle", "mirror", "done"}, of : Signups \cup {None},
                                 want : {"active", "suspended"}]]
  /\ faults \in 0..MaxFaults
  /\ blurred \subseteq Signups \cup Emails \cup Dids

TenancyInit ==
  /\ request = [r \in Signups |-> [at |-> "idle", self |-> FALSE, email |-> None,
                                   slug |-> 1, picked |-> None]]
  /\ tenant = [t \in Signups |-> NoTenant]
  /\ admin = [t \in Signups |-> None]
  /\ role = {} /\ trunk = {}
  /\ client = [t \in Signups |-> NoClient]
  /\ did = [n \in Dids |-> "Available"]
  /\ operator = [o \in Operators |-> [at |-> "idle", of |-> None, want |-> "active"]]
  /\ faults = 0
  /\ blurred = {}

-----------------------------------------------------------------------------
GoesTo(r, s)   == request' = [request EXCEPT ![r].at = s]
Fault          == faults < MaxFaults /\ faults' = faults + 1
EmailTaken(e)  == \E t \in Signups : admin[t] = e
SlugTaken(n)   == \E t \in Signups : tenant[t].slug = n
\* Requests past their email check that have not written their account yet.
AboutToTake(e) == {r \in Signups : request[r].email = e /\ admin[r] = None
                                /\ request[r].at \in DatabaseSteps \ {"email"}}

\* Requests about to tell the carrier of a tenant's new status.
Mirroring(t)   == {o \in Operators : operator[o].at = "mirror" /\ operator[o].of = t}

\* POST /signup (self) or POST /platform/tenants: the required fields are there.
SignupArrives(r, self, e) ==
  /\ request[r].at = "idle"
  /\ request' = [request EXCEPT ![r] = [@ EXCEPT !.at = IF self THEN "email" ELSE "slug",
                                          !.self = self, !.email = e]]
  \* onboardTenant does not ask whether the email is taken
  /\ blurred' = IF self THEN blurred ELSE blurred \cup {e}
  /\ UNCHANGED <<tenant, admin, role, carrierVars, operator, faults>>

\* registerTenant's account.findFirst over all tenants; a chosen plan that is not
\* available refuses too.
ChecksEmail(r) ==
  /\ request[r].at = "email"
  /\ \/ GoesTo(r, "refused")
     \/ ~EmailTaken(request[r].email) /\ GoesTo(r, "slug")
  /\ blurred' = IF AboutToTake(request[r].email) = {} THEN blurred
                ELSE blurred \cup {request[r].email}
  /\ UNCHANGED <<tenant, admin, role, carrierVars, operator, faults>>

\* uniqueSlug: one lookup per turn of its loop.
uniqueSlug(r) ==
  /\ request[r].at = "slug"
  /\ IF SlugTaken(request[r].slug) THEN request' = [request EXCEPT ![r].slug = @ + 1]
     ELSE GoesTo(r, "tenant")
  /\ UNCHANGED <<tenant, admin, role, carrierVars, operator, faults, blurred>>

\* tenant.create; the slug is unique in the database, so a request that lost the
\* race for it fails.
CreatesTenant(r) ==
  /\ request[r].at = "tenant"
  /\ IF SlugTaken(request[r].slug)
     THEN GoesTo(r, "failed") /\ UNCHANGED tenant
     ELSE /\ GoesTo(r, "role")
          /\ tenant' = [tenant EXCEPT ![r] = [status |-> IF request[r].self THEN "trial" ELSE "active",
                                              slug |-> request[r].slug]]
  /\ UNCHANGED <<admin, role, carrierVars, operator, faults, blurred>>

CreatesRole(r) ==
  /\ request[r].at = "role"
  /\ role' = role \cup {r}
  /\ GoesTo(r, "admin")
  /\ UNCHANGED <<tenant, admin, carrierVars, operator, faults, blurred>>

CreatesAdmin(r) ==
  /\ request[r].at = "admin"
  /\ admin' = [admin EXCEPT ![r] = request[r].email]
  /\ GoesTo(r, "setPlan")
  /\ UNCHANGED <<tenant, role, carrierVars, operator, faults, blurred>>

\* setPlan (its own checks and rows) and ensureSystemDispositions; provisionTrunk
\* returns at once without a configured carrier.
SetsPlan(r) ==
  /\ request[r].at = "setPlan"
  /\ \E configured \in BOOLEAN : GoesTo(r, IF configured THEN "retail" ELSE "answered")
  /\ UNCHANGED <<tenant, admin, role, carrierVars, operator, faults, blurred>>

\* A rejected database call ends the request; what it has written stays.
DatabaseFails(r) ==
  /\ request[r].at \in DatabaseSteps
  /\ Fault
  /\ GoesTo(r, "failed")
  /\ UNCHANGED <<tenant, admin, role, carrierVars, operator, blurred>>

-----------------------------------------------------------------------------
\* VoipswitchService.provisionTrunk: a free login, then admin.retail.create, whose
\* client is active from the start.
CreatesClient(r) ==
  /\ request[r].at = "retail"
  /\ client' = [client EXCEPT ![r].active = TRUE]
  /\ GoesTo(r, "dids")
  /\ UNCHANGED <<tenant, admin, role, did, trunk, operator, faults, blurred>>

\* allocateDid: the first Available number of the list ...
ListsDids(r) ==
  /\ request[r].at = "dids"
  /\ LET free == {n \in Dids : did[n] = "Available"} IN
       IF free = {} THEN GoesTo(r, "trunk")
       ELSE \E n \in free : request' = [request EXCEPT ![r].picked = n, ![r].at = "assign"]
  /\ UNCHANGED <<tenant, admin, role, carrierVars, operator, faults, blurred>>

\* ... is marked Assigned. A failing mark is ignored and the number used all the same;
\* so is one that another request has listed too.
AssignsDid(r) ==
  /\ request[r].at = "assign"
  /\ LET n == request[r].picked IN
       /\ \/ did' = [did EXCEPT ![n] = "Assigned"] /\ UNCHANGED faults
          \/ Fault /\ UNCHANGED did
       /\ blurred' = IF did'[n] = "Available" \/ did[n] = "Assigned"
                        \/ \E q \in Signups \ {r} : request[q].picked = n /\ request[q].at = "assign"
                     THEN blurred \cup {n} ELSE blurred
       /\ client' = [client EXCEPT ![r].number = n]
  /\ GoesTo(r, "trunk")
  /\ UNCHANGED <<tenant, admin, role, trunk, operator>>

\* BillingService.provisionTrunk: the trunk row; the sync of its gateway
\* never throws.
CreatesTrunk(r) ==
  /\ request[r].at = "trunk"
  /\ trunk' = trunk \cup {r}
  /\ GoesTo(r, "answered")
  \* a suspension that has already looked for trunks has missed this one
  /\ blurred' = IF tenant[r].status = "suspended" /\ Mirroring(r) = {}
                THEN blurred \cup {r} ELSE blurred
  /\ UNCHANGED <<tenant, admin, role, client, did, operator, faults>>

\* provisionTrunk's catch: the signup is answered without a trunk. A failing list of
\* numbers means no number.
CarrierFails(r) ==
  /\ request[r].at \in CarrierSteps \ {"assign"}
  /\ Fault
  /\ GoesTo(r, IF request[r].at = "dids" THEN "trunk" ELSE "answered")
  /\ UNCHANGED <<tenant, admin, role, carrierVars, operator, blurred>>

-----------------------------------------------------------------------------
\* setStatus: the tenant's row, then every trunk's client at the carrier. Two requests
\* for one tenant may reach the carrier in the other order.
setStatus(o, t, want) ==
  /\ operator[o].at = "idle"
  /\ tenant[t].status # "none"
  /\ tenant' = [tenant EXCEPT ![t].status = want]
  /\ operator' = [operator EXCEPT ![o] = [at |-> "mirror", of |-> t, want |-> want]]
  /\ blurred' = IF Mirroring(t) = {} THEN blurred ELSE blurred \cup {t}
  /\ UNCHANGED <<request, admin, role, carrierVars, faults>>

\* Mutant: only a suspension is mirrored.
MirrorsSuspension(o) ==
  /\ operator[o].at = "mirror"
  /\ LET t == operator[o].of IN
       client' = IF t \in trunk /\ operator[o].want = "suspended"
                 THEN [client EXCEPT ![t].active = FALSE] ELSE client
  /\ operator' = [operator EXCEPT ![o] = Finished]
  /\ UNCHANGED <<requestVars, did, trunk, faults, blurred>>

Mirrors(o) ==
  /\ operator[o].at = "mirror"
  /\ LET t == operator[o].of IN
       \/ /\ t \in trunk
          /\ client' = [client EXCEPT ![t].active = (operator[o].want = "active")]
          /\ UNCHANGED <<faults, blurred>>
       \/ /\ t \notin trunk
          /\ UNCHANGED <<client, faults, blurred>>
       \/ /\ t \in trunk /\ Fault                        \* logged
          /\ blurred' = blurred \cup {t}
          /\ UNCHANGED client
  /\ operator' = [operator EXCEPT ![o] = Finished]
  /\ UNCHANGED <<requestVars, did, trunk>>

SignupStep(r) ==
  \/ ChecksEmail(r) \/ uniqueSlug(r) \/ CreatesTenant(r) \/ CreatesRole(r) \/ CreatesAdmin(r)
  \/ SetsPlan(r) \/ DatabaseFails(r) \/ CreatesClient(r) \/ ListsDids(r) \/ AssignsDid(r)
  \/ CreatesTrunk(r) \/ CarrierFails(r)

TenancyNext ==
  \/ \E r \in Signups : SignupStep(r)
  \/ \E r \in Signups, self \in BOOLEAN, e \in Emails : SignupArrives(r, self, e)
  \/ \E o \in Operators, t \in Signups, want \in {"active", "suspended"} : setStatus(o, t, want)
  \/ \E o \in Operators : Mirrors(o)

TenancySpec == TenancyInit /\ [][TenancyNext]_tenancyVars

-----------------------------------------------------------------------------
\* Whatever fails on the way, an email that counts as taken belongs to an account
\* that can be used: its tenant and role are there (the email is refused to everybody
\* else). And the email finds that account alone, unless two requests for it
\* overlapped or an operator onboarded it, which does not ask.
LoginFindsItsTenant ==
  \A t \in Signups : admin[t] # None =>
     /\ t \in role /\ tenant[t].status # "none"
     /\ admin[t] \notin blurred => \A u \in Signups \ {t} : admin[u] # admin[t]

\* The carrier lets exactly the tenants place calls that are not suspended, unless a
\* carrier call failed, the tenant's changes overlapped or its trunk came later.
CarrierFollowsStatus ==
  \A t \in trunk \ blurred :
     Mirroring(t) = {} => client[t].active = (tenant[t].status # "suspended")

\* A number is the caller id of one client, unless marking it failed or two requests
\* had listed it.
NumberOfOneClient ==
  \A t, u \in Signups :
     t # u /\ client[t].number # None /\ client[t].number = client[u].number
        => client[t].number \in blurred

\* The rows and the carrier's books of clients and numbers agree.
CarrierAgrees == CarrierFollowsStatus /\ NumberOfOneClient

\* What a signup, its carrier calls and later suspensions leave behind, wherever they failed.
TenantsAreWhole == LoginFindsItsTenant /\ CarrierAgrees
=============================================================================
