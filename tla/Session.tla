------------------------------ MODULE Session ------------------------------
(***************************************************************************)
(* The signed-in profile of a browser: the cookie the server trusts, the   *)
(* copy of name, role and permissions in localStorage that the pages go by *)
(* (lib/api.ts), its refresh on every page (Sidebar), the customer company *)
(* a member of the platform's staff may be viewing, layered over it, and   *)
(* the redirects of the pages' guards.                                     *)
(*                                                                         *)
(* An answer to /auth/me holds what the server loaded for that request     *)
(* (jwt.strategy) and is applied to whatever profile is there when it      *)
(* arrives.                                                                *)
(***************************************************************************)
EXTENDS Integers, FiniteSets

CONSTANTS
  Users,        \* accounts of a company
  Staff,        \* the platform's own
  RoleNames,    \* roles of the company
  Grants,       \* sets of permissions a role may have
  MaxChanges,   \* bound on changes of rights
  MaxAnswers,   \* bound on /auth/me answers on their way
  Nobody, NoRole

\* Of the sections, those that a guard or landingPath asks about.
TENANT_SECTIONS == {"softphone", "contacts", "live", "campaigns", "recordings", "analytics", "users", "pbx", "billing"}

ASSUME SessionAssumption ==
  /\ Users \cap Staff = {} /\ Nobody \notin Users \cup Staff /\ NoRole \notin RoleNames
  /\ Grants \subseteq SUBSET TENANT_SECTIONS /\ MaxChanges \in Nat /\ MaxAnswers \in Nat

VARIABLES
  rights,    \* what the server grants each account
  changes,   \* changes of rights so far
  cookie,    \* whose token the browser sends
  profile,   \* localStorage's nativetalk_user
  viewing,   \* is nativetalk_impersonation set?
  answers,   \* answers to /auth/me on their way
  leaving,   \* logout's request is on its way
  reloading, \* the last refresh reloaded the page
  echo       \* auxiliary: the answer the profile was last refreshed with, if none else wrote it

sessionVars == <<rights, changes, cookie, profile, viewing, answers, leaving, reloading, echo>>

Accounts == Users \cup Staff
NoProfile == [of |-> Nobody, role |-> NoRole, super |-> FALSE, perms |-> {}, tenant |-> "none"]
Answer == [of : Accounts \cup {Nobody}, role : RoleNames \cup {NoRole, "Staff"}, super : BOOLEAN,
           perms : SUBSET TENANT_SECTIONS]
Refused == [of |-> Nobody, role |-> NoRole, super |-> FALSE, perms |-> {}]   \* 401

SessionTypeOK ==
  /\ rights \in [Accounts -> [role : RoleNames \cup {NoRole, "Staff"}, perms : SUBSET TENANT_SECTIONS]]
  /\ changes \in 0..MaxChanges /\ cookie \in Accounts \cup {Nobody}
  /\ profile \in [of : Accounts \cup {Nobody}, role : RoleNames \cup {NoRole, "Staff", "Administrator"},
                  super : BOOLEAN, perms : SUBSET TENANT_SECTIONS, tenant : {"none", "own", "theirs"}]
  /\ {viewing, leaving, reloading} \subseteq BOOLEAN
  /\ answers \subseteq Answer /\ echo \in Answer

-----------------------------------------------------------------------------
\* What the server says of the bearer of the cookie.
Me == IF cookie = Nobody THEN Refused
      ELSE [of |-> cookie, role |-> rights[cookie].role, super |-> cookie \in Staff, perms |-> rights[cookie].perms]

\* The profile, or the customer's administrator over it.
getUser ==
  IF profile = NoProfile \/ ~viewing THEN profile
  ELSE [profile EXCEPT !.tenant = "theirs", !.role = "Administrator", !.super = FALSE, !.perms = TENANT_SECTIONS]
hasPermission(section) == getUser.super \/ section \in getUser.perms
getPlatformRole == profile.of \in Staff   \* platformRole is not layered over
isImpersonating == viewing

LandingOrder ==
  << <<"analytics", "/dashboard">>, <<"softphone", "/agent">>, <<"contacts", "/contacts">>,
     <<"live", "/agents">>, <<"campaigns", "/campaigns">>, <<"recordings", "/recordings">>,
     <<"users", "/users">>, <<"pbx", "/trunks">>, <<"billing", "/billing">> >>
landingPath ==
  LET open == {i \in 1..9 : hasPermission(LandingOrder[i][1])}
  IN  IF getPlatformRole /\ ~isImpersonating THEN "/platform"
      ELSE IF open = {} THEN "/agent"
      ELSE LandingOrder[CHOOSE i \in open : \A j \in open : i <= j][2]

Pages == {"/dashboard", "/agent", "/agents", "/users", "/roles", "/platform", "/contacts"}

\* Mutant: the console lets staff in only, also while they view a customer.
guardForgetsViewing(page) ==
  CASE page = "/agent" /\ ~hasPermission("softphone") -> landingPath
    [] page = "/agents" /\ ~hasPermission("live")     -> landingPath
    [] page = "/roles" /\ ~hasPermission("users")     -> landingPath
    [] page = "/users" /\ ~hasPermission("users")     -> "/agent"
    [] page = "/dashboard" /\ getPlatformRole         -> "/platform"
    [] page = "/platform" /\ (isImpersonating \/ ~getPlatformRole) -> "/dashboard"
    [] OTHER -> page

\* Where a page's guard sends the user; itself when it lets the user in.
guard(page) ==
  CASE page = "/agent" /\ ~hasPermission("softphone") -> landingPath
    [] page = "/agents" /\ ~hasPermission("live")     -> landingPath
    [] page = "/roles" /\ ~hasPermission("users")     -> landingPath
    [] page = "/users" /\ ~hasPermission("users")     -> "/agent"
    [] page = "/dashboard" /\ getPlatformRole /\ ~isImpersonating -> "/platform"
    [] page = "/platform" /\ (isImpersonating \/ ~getPlatformRole) -> "/dashboard"
    [] OTHER -> page

-----------------------------------------------------------------------------
SessionInit ==
  /\ rights \in {[a \in Accounts |-> IF a \in Staff THEN [role |-> "Staff", perms |-> {}]
                                                    ELSE [role |-> NoRole, perms |-> {}]]}
  /\ changes = 0 /\ cookie = Nobody /\ profile = NoProfile /\ viewing = FALSE
  /\ answers = {} /\ leaving = FALSE /\ reloading = FALSE /\ echo = Refused

\* An administrator gives the account a role, edits it, or deletes it (the account keeps
\* none).
RightsChange(a, role, perms) ==
  /\ changes < MaxChanges /\ changes' = changes + 1
  /\ (role = NoRole) => (perms = {})
  /\ rights' = [rights EXCEPT ![a] = [role |-> role, perms |-> perms]]
  /\ UNCHANGED <<cookie, profile, viewing, answers, leaving, reloading, echo>>

\* login: cookie and profile; a company being viewed stays.
login(a) ==
  /\ profile = NoProfile /\ ~leaving
  /\ cookie' = a
  /\ profile' = [of |-> a, role |-> rights[a].role, super |-> a \in Staff, perms |-> rights[a].perms, tenant |-> "own"]
  /\ echo' = Refused /\ reloading' = FALSE
  /\ UNCHANGED <<rights, changes, viewing, answers, leaving>>

\* logout: the server's cookie, then the profile.
logout ==
  /\ profile # NoProfile /\ ~leaving
  /\ leaving' = TRUE /\ cookie' = Nobody
  /\ UNCHANGED <<rights, changes, profile, viewing, answers, reloading, echo>>

clearProfile == profile' = NoProfile /\ viewing' = FALSE /\ echo' = Refused

LoggedOut ==
  /\ leaving /\ leaving' = FALSE /\ clearProfile
  /\ UNCHANGED <<rights, changes, cookie, answers, reloading>>

\* The token expires, or the account is disabled.
CookieExpires ==
  /\ cookie # Nobody /\ cookie' = Nobody
  /\ UNCHANGED <<rights, changes, profile, viewing, answers, leaving, reloading, echo>>

\* Open a customer's workspace, and return to the console.
setImpersonation(on) ==
  /\ profile # NoProfile /\ getPlatformRole /\ viewing # on /\ viewing' = on
  /\ UNCHANGED <<rights, changes, cookie, profile, answers, leaving, reloading, echo>>

\* A page of the workspace opens, by navigation or by the reload: it asks /auth/me.
PageOpens ==
  /\ profile # NoProfile /\ Cardinality(answers \cup {Me}) <= MaxAnswers
  /\ answers' = answers \cup {Me} /\ reloading' = FALSE
  /\ UNCHANGED <<rights, changes, cookie, profile, viewing, leaving, echo>>

\* Mutant: the permissions are stored only with a role's name.
RefreshedByRole(me) ==
  [getUser EXCEPT !.of = me.of, !.super = me.super, !.perms = IF me.role = NoRole THEN @ ELSE me.perms,
                  !.role = IF me.role = NoRole THEN @ ELSE me.role]

\* refreshProfile goes by what the pages see, and keeps the role's name when there is none.
Changed(me) == me.role # getUser.role \/ me.super # getUser.super \/ me.perms # getUser.perms
Refreshed(me) ==
  [getUser EXCEPT !.of = me.of, !.super = me.super, !.perms = me.perms,
                  !.role = IF me.role = NoRole THEN @ ELSE me.role]

refreshProfile(me) ==
  /\ me \in answers /\ me # Refused
  /\ profile' = Refreshed(me)
  /\ reloading' = Changed(me)
  /\ answers' = answers \ {me} /\ echo' = me
  /\ UNCHANGED <<rights, changes, cookie, viewing, leaving>>

\* api on a 401: signed out, unless on the login page.
Unauthorized ==
  /\ Refused \in answers /\ answers' = answers \ {Refused}
  /\ IF profile = NoProfile THEN UNCHANGED <<profile, viewing, echo>> ELSE clearProfile
  /\ UNCHANGED <<rights, changes, cookie, leaving, reloading>>

SessionNext ==
  \/ \E a \in Users, role \in RoleNames \cup {NoRole}, perms \in Grants : RightsChange(a, role, perms)
  \/ \E a \in Accounts : login(a)
  \/ logout \/ LoggedOut \/ CookieExpires
  \/ \E on \in BOOLEAN : setImpersonation(on)
  \/ PageOpens
  \/ \E me \in answers : refreshProfile(me)
  \/ Unauthorized

Answered == (\E me \in answers : refreshProfile(me)) \/ Unauthorized

SessionSpec ==
  /\ SessionInit /\ [][SessionNext]_sessionVars
  /\ WF_sessionVars(PageOpens) /\ WF_sessionVars(Answered)

-----------------------------------------------------------------------------
\* The guards' redirects end: no page sends the user on a round trip, whoever is signed in
\* and whatever is being viewed. A user with no permission is left on the Call Console.
RedirectsEnd ==
  profile # NoProfile =>
    \A page \in Pages : LET next == guard(page) IN
      guard(next) # page \/ next = page

\* While pages are being opened, a change of rights reaches them: from some time on, a
\* profile of the account that is signed in grants what the server does.
RightsArrive ==
  <>[](profile # NoProfile /\ cookie = profile.of => profile.perms = rights[cookie].perms)

\* "Safe to call on every load": a refresh that brings what the one before brought does
\* not reload the page.
SafeOnEveryLoad ==
  [][\A me \in answers : me \notin answers' /\ me = echo /\ echo' = echo => ~reloading']_sessionVars

\* "The staff profile stays put" under the company being viewed.
StaffProfileStaysPut == profile.tenant # "theirs"
=============================================================================
