------------------------------ MODULE Contacts ------------------------------
(***************************************************************************)
(* A company's contacts, their groups and custom fields: the server's      *)
(* requests with their awaits, and the manager's page that issues them and *)
(* shows the list of a group.  Nothing on the page waits for a request, so *)
(* they overlap.                                                           *)
(*                                                                         *)
(* Abstracted: a file has one row with one group name, and hand-made       *)
(* groups have that name too; the search box filters what is shown; fields *)
(* are made with one label, and a key is its number: label, label_2, ...   *)
(* The chips are taken to be the groups there are; the last call shown     *)
(* beside a contact is CallRecords' log.                                   *)
(***************************************************************************)
EXTENDS Integers, FiniteSets, SequencesExt

CONSTANTS
  GroupIds, ContactIds, FieldIds,
  Handlers,    \* the page's handlers that wait for a request
  MaxPages,    \* bound on the loads of the list under way
  MaxActs,     \* bound on what the manager does
  AllOfThem    \* the list without a group

ASSUME ContactsAssumption == IsFiniteSet(FieldIds) /\ MaxPages \in Nat /\ MaxActs \in Nat

VARIABLES
  contactGroup, \* the groups there are, and those that were made
  contactRow,   \* is it there, and its groups
  customField,  \* the number of each field's key, 0 without the field
  handler,      \* what each waits for
  groupFilter,  \* the group chosen on the page
  list,         \* the contacts it shows, with their groups
  loads,        \* its loads of the list
  editing,      \* the drawer: nothing, a new contact (id 0) or one of them, with its groups
  acts,
  touched,      \* auxiliary: groups that a drawer or a file named while they were deleted, and
                \* contacts written between a deletion's read and its write
  twice,        \* auxiliary: a group was made while another was, or a file was under way
  outdated      \* auxiliary: the list missed a change of its group, or an answer

contactsDb   == <<contactGroup, contactRow, customField>>
contactsPage == <<groupFilter, list, loads, editing>>
contactsVars == <<contactsDb, handler, contactsPage, acts, touched, twice, outdated>>

Filters  == GroupIds \cup {AllOfThem}
Absent   == [there |-> FALSE, groups |-> {}]
Done     == [at |-> "none", of |-> AllOfThem, id |-> AllOfThem, groups |-> {}, members |-> {}]
NoDrawer == [id |-> AllOfThem, groups |-> {}, open |-> FALSE]
There    == {c \in ContactIds : contactRow[c].there}
Exists   == contactGroup.there
Pending(kinds) == {r \in Handlers : handler[r].at \in kinds}
Deleting == {handler[r].id : r \in Pending({"members", "strip"})}
Named    == editing.groups \cup
            UNION {handler[r].groups : r \in Pending({"save", "names", "create", "insert"})}
InGroup(f) == {<<c, contactRow[c].groups>> : c \in {d \in There : f = AllOfThem \/ f \in contactRow[d].groups}}

ContactsTypeOK ==
  /\ contactGroup \in [there : SUBSET GroupIds, made : SUBSET GroupIds] /\ Exists \subseteq contactGroup.made
  /\ contactRow \in [ContactIds -> [there : BOOLEAN, groups : SUBSET GroupIds]]
  /\ customField \in [FieldIds -> 0..Cardinality(FieldIds)]
  /\ \A r \in Handlers : /\ handler[r].of \in Filters /\ handler[r].groups \subseteq GroupIds
                         /\ handler[r].at \in {"none", "save", "remove", "members", "strip", "names", "create",
                                               "insert", "key", "count"}
  /\ groupFilter \in Filters /\ list \subseteq ContactIds \X SUBSET GroupIds /\ Len(loads) <= MaxPages
  /\ editing.groups \subseteq GroupIds /\ acts \in 0..MaxActs
  /\ touched \subseteq GroupIds \cup ContactIds /\ twice \in BOOLEAN /\ outdated \in BOOLEAN

ContactsInit ==
  /\ contactGroup = [there |-> {}, made |-> {}] /\ contactRow = [c \in ContactIds |-> Absent]
  /\ customField = [f \in FieldIds |-> 0] /\ handler = [r \in Handlers |-> Done]
  /\ groupFilter = AllOfThem /\ list = {} /\ loads = <<>> /\ editing = NoDrawer
  /\ acts = 0 /\ touched = {} /\ twice = FALSE /\ outdated = FALSE

-----------------------------------------------------------------------------
(* The page *)

Acts == acts < MaxActs /\ acts' = acts + 1

\* GET contacts, of the group that was chosen when the handler began.
loadList(f) == Len(loads) < MaxPages /\ loads' = Append(loads, [of |-> f, read |-> FALSE, found |-> {}])

\* Another chip, and the effect on it.
setGroupFilter(f) ==
  /\ Acts /\ f # groupFilter /\ f \in Exists \cup {AllOfThem}
  /\ groupFilter' = f /\ loadList(f)
  /\ outdated' = (loads # <<>> \/ \E r \in Handlers : handler[r].at # "none")
  /\ UNCHANGED <<contactsDb, handler, list, editing, touched, twice>>

\* The server reads the contacts of the group ...
listReads(i) ==
  /\ ~loads[i].read
  /\ loads' = [loads EXCEPT ![i] = [loads[i] EXCEPT !.read = TRUE, !.found = InGroup(loads[i].of)]]
  /\ UNCHANGED <<contactsDb, handler, groupFilter, list, editing, acts, touched, twice, outdated>>

\* ... and the answer is shown, whatever has been asked since; a failed load shows nothing.
listArrives(i, fails) ==
  /\ loads[i].read
  /\ list' = IF fails THEN {} ELSE loads[i].found
  /\ loads' = RemoveAt(loads, i)
  /\ outdated' = (outdated \/ fails \/ Len(loads) > 1)
  /\ UNCHANGED <<contactsDb, handler, groupFilter, editing, acts, touched, twice>>

\* A handler sends its request; the list it will load afterwards is of today's group.
Sends(r, what) ==
  /\ handler[r] = Done
  /\ handler' = [handler EXCEPT ![r] = [what EXCEPT !.of = groupFilter]]

\* The handler goes on after its request.
ThenLoads(r) == handler' = [handler EXCEPT ![r] = Done] /\ loadList(handler[r].of)

\* A new contact, or one of the list as it was when it was loaded.
opensDrawer ==
  /\ Acts /\ ~editing.open
  /\ \E row \in list \cup {<<AllOfThem, {}>>} : editing' = [id |-> row[1], open |-> TRUE, groups |-> row[2]]
  /\ touched' = touched \cup (editing'.groups \ (Exists \ Deleting))
  /\ UNCHANGED <<contactsDb, handler, groupFilter, list, loads, twice, outdated>>

toggleGroupOnContact(g) ==
  /\ Acts /\ editing.open /\ g \in Exists
  /\ editing' = [editing EXCEPT !.groups = IF g \in @ THEN @ \ {g} ELSE @ \cup {g}]
  /\ touched' = touched \cup ({g} \cap Deleting)
  /\ UNCHANGED <<contactsDb, handler, groupFilter, list, loads, twice, outdated>>

saveEditing(r) ==
  /\ Acts /\ editing.open
  /\ Sends(r, [Done EXCEPT !.at = "save", !.id = editing.id, !.groups = editing.groups])
  /\ UNCHANGED <<contactsDb, contactsPage, touched, twice, outdated>>

remove(r, c) ==
  /\ Acts /\ (\E row \in list : row[1] = c) /\ Sends(r, [Done EXCEPT !.at = "remove", !.id = c])
  /\ UNCHANGED <<contactsDb, contactsPage, touched, twice, outdated>>

\* Deleting the group that is shown goes to all contacts at once; but the handler will load
\* the group it was called with, and shows what that finds: nobody.
deleteGroup(r, g) ==
  /\ Acts /\ g \in Exists
  /\ Sends(r, [Done EXCEPT !.at = "members", !.id = g])
  /\ IF groupFilter = g THEN groupFilter' = AllOfThem /\ loadList(AllOfThem) /\ outdated' = TRUE
                        ELSE UNCHANGED <<groupFilter, loads, outdated>>
  /\ touched' = touched \cup ({g} \cap Named)
  /\ UNCHANGED <<contactsDb, list, editing, twice>>

doImport(r, extra) ==
  /\ Acts /\ extra \subseteq Exists /\ Cardinality(extra) <= 1
  /\ Sends(r, [Done EXCEPT !.at = "names", !.groups = extra])
  /\ touched' = touched \cup (extra \cap Deleting)
  /\ twice' = (twice \/ Pending({"names", "create"}) # {})
  /\ UNCHANGED <<contactsDb, contactsPage, outdated>>

addField(r) ==
  /\ Acts /\ Sends(r, [Done EXCEPT !.at = "key"])
  /\ twice' = (twice \/ Pending({"key", "count"}) # {})
  /\ UNCHANGED <<contactsDb, contactsPage, touched, outdated>>

-----------------------------------------------------------------------------
(* The server *)

Creates(groups) ==
  \E c \in ContactIds \ There : contactRow' = [contactRow EXCEPT ![c] = [there |-> TRUE, groups |-> groups]]

\* POST contacts, or PATCH with the drawer's whole list of groups; an update finds nothing
\* if the contact is gone.  The drawer closes, whoever is in it by now.
saves(r) ==
  /\ handler[r].at = "save"
  /\ LET id == handler[r].id
     IN  IF id = AllOfThem THEN Creates(handler[r].groups)
         ELSE contactRow' = IF id \in There THEN [contactRow EXCEPT ![id] = [there |-> TRUE, groups |-> handler[r].groups]] ELSE contactRow
  /\ editing' = NoDrawer /\ ThenLoads(r)
  /\ UNCHANGED <<contactGroup, customField, groupFilter, list, acts, touched, twice, outdated>>

removes(r) ==
  /\ handler[r].at = "remove"
  /\ contactRow' = [contactRow EXCEPT ![handler[r].id] = Absent]
  /\ ThenLoads(r)
  /\ UNCHANGED <<contactGroup, customField, groupFilter, list, editing, acts, touched, twice, outdated>>

\* DELETE contact-groups/:id: the members are read with their groups, ...
readsMembers(r) ==
  /\ handler[r].at = "members"
  /\ handler' = [handler EXCEPT ![r] = [handler[r] EXCEPT !.at = "strip", !.members = InGroup(handler[r].id)]]
  /\ UNCHANGED <<contactsDb, contactsPage, acts, touched, twice, outdated>>

\* Mutant: the groups are left as they were read.
strippedNot(groups, g) == groups

stripped(groups, g) == groups \ {g}

\* ... each is written without the group, in any order; one that is gone fails the request
\* and leaves the group where it is; ...
stripsMember(r) ==
  /\ handler[r].at = "strip"
  /\ \E m \in handler[r].members :
       IF m[1] \in There
       THEN /\ contactRow' = [contactRow EXCEPT ![m[1]] = [there |-> TRUE, groups |-> stripped(m[2], handler[r].id)]]
            /\ handler' = [handler EXCEPT ![r] = [handler[r] EXCEPT !.members = @ \ {m}]]
            /\ touched' = touched \cup (IF contactRow[m[1]].groups # m[2] THEN {m[1]} ELSE {})
       ELSE handler' = [handler EXCEPT ![r] = Done] /\ UNCHANGED <<contactRow, touched>>
  /\ UNCHANGED <<contactGroup, customField, contactsPage, acts, twice>>
  /\ outdated' = (outdated \/ handler'[r] = Done)

\* ... and then the group goes.
dropsGroup(r) ==
  /\ handler[r].at = "strip" /\ handler[r].members = {}
  /\ contactGroup' = [contactGroup EXCEPT !.there = @ \ {handler[r].id}]
  /\ ThenLoads(r)
  /\ UNCHANGED <<contactRow, customField, groupFilter, list, editing, acts, touched, twice, outdated>>

\* POST contacts/import: the groups there are, by their name, ...
readsNames(r) ==
  /\ handler[r].at = "names"
  /\ handler' = [handler EXCEPT ![r] =
       IF Exists = {} THEN [handler[r] EXCEPT !.at = "create"]
       ELSE [handler[r] EXCEPT !.at = "insert", !.groups = @ \cup {CHOOSE g \in Exists : TRUE}]]
  /\ touched' = touched \cup (Deleting \cap handler'[r].groups)
  /\ UNCHANGED <<contactsDb, contactsPage, acts, twice, outdated>>

\* ... a group for a name that is new, ...
Makes(g) ==
  /\ g \notin contactGroup.made
  /\ contactGroup' = [there |-> Exists \cup {g}, made |-> contactGroup.made \cup {g}]

createsGroup(r, g) ==
  /\ handler[r].at = "create" /\ Makes(g)
  /\ handler' = [handler EXCEPT ![r] = [handler[r] EXCEPT !.at = "insert", !.groups = @ \cup {g}]]
  /\ UNCHANGED <<contactRow, customField, contactsPage, acts, touched, twice, outdated>>

\* ... and the rows.
inserts(r) ==
  /\ handler[r].at = "insert"
  /\ Creates(handler[r].groups) /\ ThenLoads(r)
  /\ UNCHANGED <<contactGroup, customField, groupFilter, list, editing, acts, touched, twice, outdated>>

\* A group made by hand.
addGroup(g) ==
  /\ Acts /\ Makes(g)
  /\ twice' = (twice \/ Exists # {} \/ Pending({"names", "create"}) # {})
  /\ UNCHANGED <<contactRow, customField, handler, contactsPage, touched, outdated>>

\* The database fails a request between two of its steps; the page says so.
HandlerFails(r) ==
  /\ handler[r].at # "none" /\ handler' = [handler EXCEPT ![r] = Done]
  /\ UNCHANGED <<contactsDb, contactsPage, acts, touched, twice>>
  /\ outdated' = (outdated \/ handler[r].at = "strip")

\* POST custom-fields: the first key that is free ...
findsKey(r) ==
  /\ handler[r].at = "key"
  /\ LET taken == {customField[f] : f \in FieldIds}
     IN  handler' = [handler EXCEPT ![r] = [handler[r] EXCEPT !.at = "count",
           !.id = CHOOSE k \in 1..Cardinality(FieldIds) + 1 : k \notin taken /\ 1..k - 1 \subseteq taken]]
  /\ UNCHANGED <<contactsDb, contactsPage, acts, touched, twice, outdated>>

\* ... is the field's.
createsField(r, f) ==
  /\ handler[r].at = "count" /\ customField[f] = 0 /\ handler[r].id <= Cardinality(FieldIds)
  /\ customField' = [customField EXCEPT ![f] = handler[r].id]
  /\ handler' = [handler EXCEPT ![r] = Done]
  /\ UNCHANGED <<contactGroup, contactRow, contactsPage, acts, touched, twice, outdated>>

removesField(f) ==
  /\ Acts /\ customField[f] # 0
  /\ customField' = [customField EXCEPT ![f] = 0]
  /\ UNCHANGED <<contactGroup, contactRow, handler, contactsPage, touched, twice, outdated>>

ContactsNext ==
  \/ \E f \in Filters : setGroupFilter(f)
  \/ \E i \in DOMAIN loads : listReads(i) \/ \E fails \in BOOLEAN : listArrives(i, fails)
  \/ opensDrawer
  \/ \E g \in GroupIds : toggleGroupOnContact(g) \/ addGroup(g)
  \/ \E r \in Handlers :
       \/ saveEditing(r) \/ saves(r) \/ removes(r) \/ readsMembers(r) \/ stripsMember(r) \/ dropsGroup(r)
       \/ readsNames(r) \/ inserts(r) \/ addField(r) \/ findsKey(r) \/ HandlerFails(r)
       \/ \E c \in ContactIds : remove(r, c)
       \/ \E g \in GroupIds : deleteGroup(r, g) \/ createsGroup(r, g)
       \/ \E extra \in SUBSET GroupIds : doImport(r, extra)
       \/ \E f \in FieldIds : createsField(r, f)
  \/ \E f \in FieldIds : removesField(f)

ContactsSpec == ContactsInit /\ [][ContactsNext]_contactsVars

-----------------------------------------------------------------------------
\* A contact is in no group that is gone, whatever failed on the way, unless a drawer or a
\* file named the group while it was being deleted, or the deletion wrote the contact over
\* another change.  A file makes a group for a name only once, also when it is repeated
\* after a failure, and a field's key is its own, unless two such requests overlapped.
\* And when every request is through the page shows the chosen group as it is, with the
\* groups the drawer will start from, unless the group was changed while a request was
\* under way, two answers crossed or one failed.
ContactsKept ==
  /\ \A c \in There \ touched : contactRow[c].groups \subseteq Exists \cup touched
  /\ twice \/ Cardinality(Exists) <= 1
  /\ twice \/ \A f, g \in FieldIds : customField[f] # 0 /\ customField[f] = customField[g] => f = g
  /\ loads = <<>> /\ (\A r \in Handlers : handler[r].at = "none") /\ ~outdated => list = InGroup(groupFilter)
=============================================================================
