-------------------------- MODULE PlatformConsole --------------------------
(***************************************************************************)
(* The vendor's console as the demo backend answers it                     *)
(* (lib/demo/router.ts): companies with a status, a plan, a copy of the    *)
(* plan's limits and the monthly revenue they bring (mrr), the price list, *)
(* the invoices, and the staff who may open the console.  A handler runs   *)
(* to its end before the next begins and saves the whole store, so every   *)
(* action is one request; what can go wrong is the bookkeeping a LATER     *)
(* request finds, since status, plan, price and mrr are four copies that   *)
(* eleven handlers keep in step.                                           *)
(***************************************************************************)
EXTENDS Integers, FiniteSets, FiniteSetsExt, Functions

CONSTANTS
  Companies,   \* slugs a company may have
  PlanIds,
  Terms,       \* the prices, each with its limits, a plan may be given
  Managers,    \* e-mail addresses of platform staff
  Owners,      \* those the seed makes Super Admin
  MaxInvoices, \* bound on the unpaid invoices of a company
  NoCompany, NoPlan, NoStaff

Statuses == {"trial", "active", "past_due", "suspended"}
CompanyRecord == [status : Statuses, plan : PlanIds, limits : Terms, mrr : Terms \cup {0}]

ASSUME PlatformAssumption ==
  /\ IsFiniteSet(Companies) /\ IsFiniteSet(Managers)
  /\ Terms \subseteq Nat \ {0} /\ Owners \subseteq Managers /\ Owners # {} /\ MaxInvoices \in Nat \ {0}
  /\ NoCompany \notin CompanyRecord /\ NoPlan \notin Terms /\ NoStaff \notin [super : BOOLEAN, active : BOOLEAN]

VARIABLES
  tenants,       \* the record of each company, or NoCompany
  plans,         \* the price of each plan, or NoPlan
  unpaid,        \* invoices of each company that are open or overdue
  platformStaff  \* the record of each member of staff, or NoStaff

platformVars == <<tenants, plans, unpaid, platformStaff>>

Sold == {p \in PlanIds : plans[p] # NoPlan}
Booked == {c \in Companies : tenants[c] # NoCompany}

PlatformTypeOK ==
  /\ tenants \in [Companies -> CompanyRecord \cup {NoCompany}]
  /\ plans \in [PlanIds -> Terms \cup {NoPlan}]
  /\ unpaid \in [Companies -> 0..MaxInvoices]
  /\ platformStaff \in [Managers -> [super : BOOLEAN, active : BOOLEAN] \cup {NoStaff}]

-----------------------------------------------------------------------------
Billable(status) == status \in {"active", "past_due"}

\* The seed bills every billable company once, overdue where it is past due.
PlatformInit ==
  /\ plans \in [PlanIds -> Terms]
  /\ tenants \in [Companies -> {[status |-> s, plan |-> p, limits |-> plans[p],
                                 mrr |-> IF Billable(s) THEN plans[p] ELSE 0] : s \in Statuses, p \in PlanIds}]
  /\ unpaid = [c \in Companies |-> IF Billable(tenants[c].status) THEN 1 ELSE 0]
  /\ platformStaff = [m \in Managers |-> [super |-> m \in Owners, active |-> TRUE]]

-----------------------------------------------------------------------------
(* Companies *)

\* What changing the plan makes of a company's revenue.
planMrr(status, price) == IF status \in {"suspended", "trial"} THEN 0 ELSE price

createTenant(c, p, startTrial) ==
  /\ tenants[c] = NoCompany /\ p \in Sold
  /\ tenants' = [tenants EXCEPT ![c] = [status |-> IF startTrial THEN "trial" ELSE "active", plan |-> p,
                                        limits |-> plans[p], mrr |-> IF startTrial THEN 0 ELSE plans[p]]]
  /\ UNCHANGED <<plans, unpaid, platformStaff>>

\* The company goes, its invoices stay without one.
deleteTenant(c) ==
  /\ tenants[c] # NoCompany
  /\ tenants' = [tenants EXCEPT ![c] = NoCompany]
  /\ unpaid' = [unpaid EXCEPT ![c] = 0]
  /\ UNCHANGED <<plans, platformStaff>>

suspend(c) ==
  /\ tenants[c] # NoCompany
  /\ tenants' = [tenants EXCEPT ![c] = [tenants[c] EXCEPT !.status = "suspended", !.mrr = 0]]
  /\ UNCHANGED <<plans, unpaid, platformStaff>>

activate(c) ==
  /\ tenants[c] # NoCompany
  /\ tenants' = [tenants EXCEPT ![c] = [tenants[c] EXCEPT !.status = "active", !.mrr = plans[tenants[c].plan]]]
  /\ UNCHANGED <<plans, unpaid, platformStaff>>

changePlan(c, p) ==
  /\ tenants[c] # NoCompany /\ p \in Sold
  /\ tenants' = [tenants EXCEPT ![c] = [tenants[c] EXCEPT !.plan = p, !.limits = plans[p],
                                                        !.mrr = planMrr(tenants[c].status, plans[p])]]
  /\ UNCHANGED <<plans, unpaid, platformStaff>>

invoice(c) ==
  /\ tenants[c] # NoCompany /\ unpaid[c] < MaxInvoices
  /\ unpaid' = [unpaid EXCEPT ![c] = @ + 1]
  /\ UNCHANGED <<tenants, plans, platformStaff>>

markPaid(c) ==
  /\ unpaid[c] > 0
  /\ unpaid' = [unpaid EXCEPT ![c] = @ - 1]
  /\ tenants' = IF tenants[c].status # "past_due" THEN tenants
                ELSE [tenants EXCEPT ![c] = [tenants[c] EXCEPT !.status = "active"]]
  /\ UNCHANGED <<plans, platformStaff>>

-----------------------------------------------------------------------------
(* The price list *)

\* Mutant: a plan's new price reaches active companies only.
RepricedActive(t, p, price) ==
  IF t = NoCompany \/ t.plan # p THEN t
  ELSE [t EXCEPT !.limits = price, !.mrr = IF t.status = "active" THEN price ELSE @]

\* What a changed plan does to a company: only one that pays is repriced.
Repriced(t, p, price) ==
  IF t = NoCompany \/ t.plan # p THEN t
  ELSE [t EXCEPT !.limits = price, !.mrr = IF Billable(t.status) THEN price ELSE @]

createPlan(p, price) ==
  /\ plans[p] = NoPlan
  /\ plans' = [plans EXCEPT ![p] = price]
  /\ UNCHANGED <<tenants, unpaid, platformStaff>>

updatePlan(p, price) ==
  /\ p \in Sold
  /\ plans' = [plans EXCEPT ![p] = price]
  /\ tenants' = [c \in Companies |-> Repriced(tenants[c], p, price)]
  /\ UNCHANGED <<unpaid, platformStaff>>

deletePlan(p) ==
  /\ p \in Sold /\ \A c \in Booked : tenants[c].plan # p
  /\ plans' = [plans EXCEPT ![p] = NoPlan]
  /\ UNCHANGED <<tenants, unpaid, platformStaff>>

-----------------------------------------------------------------------------
(* Staff *)

Supers == {m \in Managers : platformStaff[m] # NoStaff /\ platformStaff[m].super /\ platformStaff[m].active}

\* Would this change take m out of the owners?
demoting(m, change) == platformStaff[m].super /\ (change.super = FALSE \/ change.active = FALSE)

invite(m, super) ==
  /\ platformStaff[m] = NoStaff
  /\ platformStaff' = [platformStaff EXCEPT ![m] = [super |-> super, active |-> TRUE]]
  /\ UNCHANGED <<tenants, plans, unpaid>>

\* The page sends a role or a state, never both: the other one stays.
updateStaff(m, change) ==
  /\ platformStaff[m] # NoStaff
  /\ change.super = platformStaff[m].super \/ change.active = platformStaff[m].active
  /\ ~(demoting(m, change) /\ Cardinality(Supers) <= 1)
  /\ platformStaff' = [platformStaff EXCEPT ![m] = change]
  /\ UNCHANGED <<tenants, plans, unpaid>>

revoke(m) ==
  /\ platformStaff[m] # NoStaff
  /\ ~(platformStaff[m].super /\ Cardinality(Supers) <= 1)
  /\ platformStaff' = [platformStaff EXCEPT ![m] = NoStaff]
  /\ UNCHANGED <<tenants, plans, unpaid>>

-----------------------------------------------------------------------------
PlatformNext ==
  \/ \E c \in Companies :
       \/ \E p \in PlanIds : changePlan(c, p) \/ \E startTrial \in BOOLEAN : createTenant(c, p, startTrial)
       \/ deleteTenant(c) \/ suspend(c) \/ activate(c) \/ invoice(c) \/ markPaid(c)
  \/ \E p \in PlanIds : deletePlan(p) \/ \E price \in Terms : createPlan(p, price) \/ updatePlan(p, price)
  \/ \E m \in Managers :
       \/ revoke(m)
       \/ \E super \in BOOLEAN : invite(m, super)
       \/ \E change \in [super : BOOLEAN, active : BOOLEAN] : updateStaff(m, change)

PlatformSpec == PlatformInit /\ [][PlatformNext]_platformVars

-----------------------------------------------------------------------------
(* What the overview, the price list and the revenue page show.            *)

companiesOn(p) == {c \in Booked : tenants[c].plan = p}
\* A sum of amounts is the size of a set that has so many pairs for each of them.
revenueOf(S)   == Cardinality(UNION {{c} \X (1..tenants[c].mrr) : c \in S})
revenueTotals  == [mrr |-> revenueOf(Booked), arr |-> 12 * revenueOf(Booked)]
byPlan         == {p \in Sold : companiesOn(p) # {}}
shares         == Cardinality(UNION {{p} \X (1..revenueOf(companiesOn(p))) : p \in byPlan})
chasePayment   == {c \in Booked : tenants[c].status = "past_due"}

(* Every company's plan exists, its limits are the plan's, and it brings   *)
(* the plan's price exactly when it is active or past due: the totals of   *)
(* the revenue page are sums of these copies.  "Changing a price or limit  *)
(* applies to every company already on that plan" (plans/page.tsx).  So    *)
(* the plans' shares add up to the total the page shows.                   *)
BooksBalance ==
  /\ revenueTotals.mrr = shares
  /\ \A p \in byPlan : revenueOf(companiesOn(p)) > 0 <=> \E c \in companiesOn(p) : Billable(tenants[c].status)
  /\ \A c \in Booked : LET t == tenants[c] IN
       /\ t.plan \in Sold /\ t.limits = plans[t.plan]
       /\ t.mrr = IF Billable(t.status) THEN plans[t.plan] ELSE 0

(* Only settling an invoice lifts past_due, so a company that is past due  *)
(* has one left to settle: otherwise it could never be cleared.            *)
PastDueOwes == \A c \in chasePayment : unpaid[c] > 0

(* "The platform must never be left without an owner": whatever is         *)
(* demoted, disabled or revoked in whatever order, an active Super Admin   *)
(* is left.                                                                *)
OwnerRemains == Supers # {}

(* In whatever order the console's requests come, its copies of status,    *)
(* plan, price and revenue agree, and somebody owns it.                    *)
ConsoleConsistent == BooksBalance /\ PastDueOwes /\ OwnerRemains
=============================================================================
