------------------------------ MODULE Dialplan ------------------------------
(***************************************************************************)
(* Where a dialled number goes. FreeSWITCH gets its routes in one of two   *)
(* ways: it asks for one number at a time over xml_curl (fs-xml.service),  *)
(* or it reads the files a sync has written (fs-provisioning.service). The *)
(* two generators are separate code over the same rows; here they are two  *)
(* functions of the rows, and their answers are compared while rows come,  *)
(* change and go.                                                          *)
(*                                                                         *)
(* A route is what the first application with an effect does: bridge to a  *)
(* user, a group or a gateway, enter a queue, an IVR, transfer, hang up.   *)
(***************************************************************************)
EXTENDS Naturals, FiniteSets

CONSTANTS
  Tenants,      \* tenants of the installation, with rows of their own
  FirstTenant,  \* the oldest one
  Internal,     \* numbers of 3 to 6 digits
  External,     \* numbers that the outbound pattern matches
  MaxRows,      \* bound on the rows
  Nowhere

ASSUME DialplanAssumption ==
  /\ FirstTenant \in Tenants /\ Internal \cap External = {} /\ MaxRows \in Nat
  /\ Nowhere \notin Internal \cup External

Dialled == Internal \cup External

VARIABLE row   \* the rows of the PBX tables and campaigns

Kinds2Modes ==
  [user |-> {"any"}, queue |-> {"any"}, group |-> {"failover", "any"}, ivr |-> {"any"},
   inbound |-> {"hangup", "voicemail", "extension"}, time |-> {"any"}, trunk |-> {"any"},
   campaign |-> {"Predictive", "Preview"}]
PbxRows ==
  UNION {[tenant : Tenants, kind : {k}, number : Dialled, mode : Kinds2Modes[k], active : BOOLEAN]
         : k \in DOMAIN Kinds2Modes}

\* The database keeps one row of a kind per tenant and number. Inbound routes alone
\* bear external numbers.
MayBe(r, rs) ==
  /\ r.kind # "inbound" => r.number \in Internal
  /\ r.kind = "campaign" => r.active
  /\ ~\E q \in rs : q.tenant = r.tenant /\ q.kind = r.kind /\ q.number = r.number

DialplanTypeOK == row \subseteq PbxRows /\ Cardinality(row) <= MaxRows
DialplanInit   == row = {}

\* crud's create, update (of active) and remove.
CreatesRow == /\ Cardinality(row) < MaxRows
              /\ \E r \in PbxRows : MayBe(r, row) /\ row' = row \cup {r}
TogglesRow == \E r \in row : r.kind # "campaign" /\ row' = (row \ {r}) \cup {[r EXCEPT !.active = ~r.active]}
DeletesRow == \E r \in row : row' = row \ {r}
DialplanNext == CreatesRow \/ TogglesRow \/ DeletesRow
DialplanSpec == DialplanInit /\ [][DialplanNext]_row

-----------------------------------------------------------------------------
RowsOf(t, k, d) == {r \in row : r.tenant = t /\ r.kind = k /\ r.number = d}
Active(t, k, d) == {r \in RowsOf(t, k, d) : r.active}
Trunks(t)     == {r \in row : r.tenant = t /\ r.kind = "trunk" /\ r.active}
NoRoute       == <<"none", Nowhere>>

\* The first table in the order that has an active row of the number.
FirstKind(t, d, order) ==
  LET known == {i \in DOMAIN order : Active(t, order[i], d) # {}} IN
    IF known = {} THEN "outbound" ELSE order[CHOOSE i \in known : \A j \in known : i <= j]

outbound(t, d) == IF d \in External /\ Trunks(t) # {} THEN <<"gateway", d>> ELSE NoRoute

\* What the block of a row does: a group may fail over, an inbound route transfers,
\* answers with voicemail or hangs up, the others have one application.
block(t, d, k) ==
  IF k = "outbound" THEN outbound(t, d)
  ELSE IF k \in {"group", "inbound"} THEN <<k, d, (CHOOSE r \in Active(t, k, d) : TRUE).mode>>
  ELSE <<k, d>>

\* Mutant: an external number goes out before the inbound routes are looked at.
buildRouteOutFirst(t, d) ==
  IF outbound(t, d) # NoRoute THEN outbound(t, d)
  ELSE block(t, d, FirstKind(t, d, <<"user", "queue", "group", "ivr", "inbound">>))

\* FsXmlService.buildRoute: one table after the other; time conditions are not looked at.
buildRoute(t, d) == block(t, d, FirstKind(t, d, <<"user", "queue", "group", "ivr", "inbound">>))

\* FsProvisioningService.dialplanXml: FreeSWITCH takes the first block of the file whose
\* condition holds. Users are left to the dialplan the file is included in.
dialplanXml(t, d) == block(t, d, FirstKind(t, d, <<"group", "inbound", "ivr", "queue", "time">>))

\* directoryXml and the xml_curl directory: the users FreeSWITCH lets register.
directoryXml(t)  == {r.number : r \in {q \in row : q.tenant = t /\ q.kind = "user" /\ q.active}}
directory(t, d)  == d # Nowhere /\ Active(t, "user", d) # {}

\* The queues callcenter.conf defines: every agent-mode campaign's, and every active
\* queue of every tenant, named by row and not by number.
configuration ==
  {<<"cc", r.tenant, r.number>> : r \in {q \in row : q.kind = "campaign" /\ q.mode = "Predictive"}}
    \cup {<<"q", r.tenant, r.number>> : r \in {q \in row : q.kind = "queue" /\ q.active}}
callcenterQueuesXml(t) == {<<"q", t, r.number>> : r \in {q \in row : q.tenant = t /\ q.kind = "queue" /\ q.active}}

\* The answered customer's leg of a dialer campaign enters through ccx-<campaign>.
ccxRoute(t, c) ==
  IF \E r \in row : r.tenant = t /\ r.kind = "campaign" /\ r.number = c THEN <<"cc", t, c>> ELSE NoRoute

\* FsXmlService.resolveTenant: by subdomain, by the configured default, else the oldest.
resolveTenant(slug, default) ==
  IF slug \in Tenants THEN slug ELSE IF default \in Tenants THEN default ELSE FirstTenant

-----------------------------------------------------------------------------
\* Of tenant t and number d, the two ways of configuring FreeSWITCH let the same users in,
\* send a number of one use (a user's, or a time condition's, aside) to the same place, and
\* define the queue a call is sent into.
AgreeOn(t, d) ==
  LET uses == {r \in row : r.tenant = t /\ r.number = d /\ r.kind \notin {"campaign", "trunk"}}
  IN  /\ directory(t, d) <=> d \in directoryXml(t)
      /\ Cardinality(uses) <= 1 /\ (\A r \in uses : r.kind \notin {"user", "time"})
           => buildRoute(t, d) = dialplanXml(t, d)
      /\ buildRoute(t, d)[1] = "queue" => <<"q", t, d>> \in configuration \cap callcenterQueuesXml(t)
      /\ (\E r \in RowsOf(t, "campaign", d) : r.mode = "Predictive") => ccxRoute(t, d) \in configuration

\* They agree on every number, of whichever tenant a request turns out to be.
GeneratorsAgree ==
  \A t \in {resolveTenant(slug, default) : slug, default \in Tenants \cup {Nowhere}}, d \in Dialled : AgreeOn(t, d)
=============================================================================
