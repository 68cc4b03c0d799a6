------------------------------- MODULE Roles -------------------------------
(***************************************************************************)
(* The custom roles of a tenant: sets of permissions kept closed under the *)
(* dependencies between them twice, by the form of the roles page as its   *)
(* boxes are ticked (PERM_DEPS, depsOf, dependentsOf) and by the server as *)
(* a role is saved (PERMISSION_DEPS, resolvePermissionDeps).               *)
(*                                                                         *)
(* Every form works on the permissions the role had when it was opened.    *)
(***************************************************************************)
EXTENDS FiniteSets, SequencesExt

CONSTANTS
  Roles,      \* custom roles
  Forms,      \* open role forms
  NoRole

ASSUME RolesAssumption == IsFiniteSet(Roles) /\ NoRole \notin Roles

VARIABLES
  grants,     \* the permissions of each role that exists
  form        \* each form: the role it edits (NoRole for a new one) and its ticked boxes

rolesVars == <<grants, form>>

PERMISSION_DEPS ==   \* in the order the server's loop visits them
  << <<"softphone", "contacts">>, <<"live", "softphone">>,
     <<"campaigns", "contacts">>, <<"team_scope", "team">> >>
PERM_DEPS ==         \* the page's own copy
  [softphone |-> {"contacts"}, live |-> {"softphone"}, campaigns |-> {"contacts"}, team_scope |-> {"team"}]
Permissions == UNION {{d[1], d[2]} : d \in ToSet(PERMISSION_DEPS)}
Closed == [open |-> FALSE, role |-> NoRole, perms |-> {}]

RolesTypeOK ==
  /\ DOMAIN grants \subseteq Roles /\ grants \in [DOMAIN grants -> SUBSET Permissions]
  /\ form \in [Forms -> [open : BOOLEAN, role : Roles \cup {NoRole}, perms : SUBSET Permissions]]

-----------------------------------------------------------------------------
\* One turn of resolvePermissionDeps' loop, over the whole table, and the loop: until a
\* turn changes nothing.
Added(on, d) == IF d[1] \in on THEN on \cup {d[2]} ELSE on
pass(perms)  == FoldLeft(Added, perms, PERMISSION_DEPS)

\* Mutant: the dependencies of a permission that was off before are not looked at again.
resolvePermissionDepsOnce(perms) ==
  perms \cup {d[2] : d \in {e \in ToSet(PERMISSION_DEPS) : e[1] \in perms}}

resolvePermissionDeps(perms) ==
  LET loop[on \in SUBSET Permissions] == IF pass(on) = on THEN on ELSE loop[pass(on)] IN loop[perms]

\* The page's own table, as edges.
Needs == {e \in Permissions \X Permissions : e[1] \in DOMAIN PERM_DEPS /\ e[2] \in PERM_DEPS[e[1]]}

\* Mutant: only the permissions that need it directly go with one that is turned off.
dependentsOfDirect(key) == {e[1] : e \in {d \in Needs : d[2] = key}}

\* What a key reaches along a set of edges.
From(keys, edges) == {e[2] : e \in {d \in edges : d[1] \in keys}}
Reach(key, edges) ==
  LET grow[on \in SUBSET Permissions] ==
        IF From(on, edges) \subseteq on THEN on ELSE grow[on \cup From(on, edges)]
  IN grow[From({key}, edges)]
depsOf(key) == Reach(key, Needs)
dependentsOf(key) == Reach(key, {<<e[2], e[1]>> : e \in Needs})

-----------------------------------------------------------------------------
RolesInit == grants = <<>> /\ form = [f \in Forms |-> Closed]

\* + Add role, or Edit: the boxes are those of the role as the page has it.
OpensForm(f, r) ==
  /\ ~form[f].open /\ (r = NoRole \/ r \in DOMAIN grants)
  /\ form' = [form EXCEPT ![f] = [open |-> TRUE, role |-> r, perms |-> IF r = NoRole THEN {} ELSE grants[r]]]
  /\ UNCHANGED grants

toggle(f, key) ==
  /\ form[f].open
  /\ form' = [form EXCEPT ![f].perms = IF key \in @ THEN @ \ ({key} \cup dependentsOf(key))
                                       ELSE @ \cup {key} \cup depsOf(key)]
  /\ UNCHANGED grants

Puts(r, perms) == grants' = [x \in DOMAIN grants \cup {r} |-> IF x = r THEN perms ELSE grants[x]]

\* POST and PATCH /roles; the role may be gone by then, and the form stays open.
SavesForm(f, r) ==
  /\ form[f].open
  /\ IF form[f].role = NoRole THEN r \notin DOMAIN grants ELSE r = form[f].role /\ r \in DOMAIN grants
  /\ Puts(r, resolvePermissionDeps(form[f].perms))
  /\ form' = [form EXCEPT ![f] = Closed]

ClosesForm(f) == form[f].open /\ form' = [form EXCEPT ![f] = Closed] /\ UNCHANGED grants

\* POST /roles by another client, with boxes ticked as it likes.
PostsRole(r, perms) ==
  /\ r \notin DOMAIN grants
  /\ Puts(r, resolvePermissionDeps(perms))
  /\ UNCHANGED form

ClonesRole(r, source) ==
  /\ r \notin DOMAIN grants /\ source \in DOMAIN grants
  /\ Puts(r, resolvePermissionDeps(grants[source]))
  /\ UNCHANGED form

DeletesRole(r) ==
  /\ r \in DOMAIN grants
  /\ grants' = [x \in DOMAIN grants \ {r} |-> grants[x]]
  /\ UNCHANGED form

RolesNext ==
  \/ \E f \in Forms, r \in Roles \cup {NoRole} : OpensForm(f, r)
  \/ \E f \in Forms, key \in Permissions : toggle(f, key)
  \/ \E f \in Forms, r \in Roles : SavesForm(f, r)
  \/ \E f \in Forms : ClosesForm(f)
  \/ \E r \in Roles, perms \in SUBSET Permissions : PostsRole(r, perms)
  \/ \E r, source \in Roles : ClonesRole(r, source)
  \/ \E r \in Roles : DeletesRole(r)

RolesSpec == RolesInit /\ [][RolesNext]_rolesVars

-----------------------------------------------------------------------------
\* A role that grants a permission grants all it depends on, whoever saved it, and the
\* page and the server mean the same by that: what a form shows at any moment is what
\* saving it would store.
RolesClosed ==
  /\ \A r \in DOMAIN grants, d \in ToSet(PERMISSION_DEPS) : d[1] \in grants[r] => d[2] \in grants[r]
  /\ \A f \in Forms : resolvePermissionDeps(form[f].perms) = form[f].perms
=============================================================================
