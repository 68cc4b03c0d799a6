------------------------------ MODULE Realtime ------------------------------
(***************************************************************************)
(* The gateway that feeds the live dashboards (realtime.module): a socket  *)
(* is admitted after its token has been verified, and the gateway counts   *)
(* its clients to know whether to keep pushing a snapshot every two        *)
(* seconds. The count goes up after the awaited check and down with every  *)
(* socket that leaves, whether it was ever counted or not.                 *)
(*                                                                         *)
(* The web client (lib/realtime) sends its cookie and no token.            *)
(***************************************************************************)
EXTENDS Naturals, FiniteSets

CONSTANTS Sockets   \* connections; a closed one may connect again

ASSUME RealtimeAssumption == IsFiniteSet(Sockets)

VARIABLES
  socket,      \* each connection, as the gateway has it
  clients,     \* the gateway's counter
  ticking,     \* whether its push timer runs
  behind,      \* connected sockets that have had no snapshot yet
  miscounted   \* auxiliary: a socket has left that was not counted, while
               \* others were, or before its check was over

realtimeVars == <<socket, clients, ticking, behind, miscounted>>

Credentials == {"token", "cookie", "invalid"}
Places      == {"closed", "checking", "left", "connected", "rejected"}
Away        == [at |-> "closed", by |-> "invalid"]

RealtimeTypeOK ==
  /\ socket \in [Sockets -> [at : Places, by : Credentials]]
  /\ clients \in 0..2 * Cardinality(Sockets)
  /\ ticking \in BOOLEAN /\ miscounted \in BOOLEAN
  /\ behind \subseteq Sockets

RealtimeInit ==
  /\ socket = [s \in Sockets |-> Away]
  /\ clients = 0 /\ ticking = FALSE /\ behind = {} /\ miscounted = FALSE

-----------------------------------------------------------------------------
Connected == {s \in Sockets : socket[s].at = "connected"}

\* A dashboard opens a socket; handleConnection awaits the check of its token.
Connects(s, by) ==
  /\ socket[s].at = "closed"
  /\ socket' = [socket EXCEPT ![s] = [at |-> "checking", by |-> by]]
  /\ UNCHANGED <<clients, ticking, behind, miscounted>>

\* The token the handshake carries (a cookie is not looked at) is verified, and the
\* gateway starts pushing, even when the socket has left in the meantime.
Admits(s) ==
  /\ socket[s].at \in {"checking", "left"} /\ socket[s].by = "token"
  /\ socket' = [socket EXCEPT ![s] = IF @.at = "left" THEN Away ELSE [@ EXCEPT !.at = "connected"]]
  /\ clients < 2 * Cardinality(Sockets)     \* bound on a miscounting counter
  /\ clients' = clients + 1
  /\ ticking' = TRUE
  /\ behind' = IF socket[s].at = "left" THEN behind ELSE behind \cup {s}
  /\ miscounted' = (miscounted \/ socket[s].at = "left")

Rejects(s) ==
  /\ socket[s].at \in {"checking", "left"} /\ socket[s].by # "token"
  /\ socket' = [socket EXCEPT ![s] = IF @.at = "left" THEN Away ELSE [@ EXCEPT !.at = "rejected"]]
  /\ UNCHANGED <<clients, ticking, behind, miscounted>>

\* Mutant: the timer is cleared with any client that leaves.
handleDisconnectAny ==
  /\ clients' = IF clients = 0 THEN 0 ELSE clients - 1
  /\ ticking' = FALSE

\* handleDisconnect: one client less, whoever left.
handleDisconnect ==
  LET left == IF clients = 0 THEN 0 ELSE clients - 1 IN
    /\ clients' = left
    /\ ticking' = (ticking /\ left > 0)

Leaves(s) ==
  /\ socket[s].at \in {"checking", "connected", "rejected"}
  /\ socket' = [socket EXCEPT ![s] = IF @.at = "checking" THEN [@ EXCEPT !.at = "left"] ELSE Away]
  /\ handleDisconnect
  /\ behind' = behind \ {s}
  /\ miscounted' = (miscounted \/ (clients > 0 /\ socket[s].at # "connected"))

\* push: a snapshot to every socket; a failing one is logged. The first one is pushed
\* when a socket is admitted, the others by the timer.
push ==
  /\ ticking /\ behind # {}
  /\ behind' = {}
  /\ UNCHANGED <<socket, clients, ticking, miscounted>>

RealtimeNext ==
  \/ \E s \in Sockets, by \in Credentials : Connects(s, by)
  \/ \E s \in Sockets : Admits(s) \/ Rejects(s) \/ Leaves(s)
  \/ push

RealtimeSpec == RealtimeInit /\ [][RealtimeNext]_realtimeVars

-----------------------------------------------------------------------------
\* The gateway pushes exactly while somebody watches, and knows how many, until a
\* socket that was turned away, or left before its check was over, has upset the count.
PushesWhileWatched ==
  ~miscounted => clients = Cardinality(Connected) /\ ticking = (Connected # {})

\* What lib/realtime says of the handshake: the cookie lets the server authenticate it.
\* Not so, since the gateway looks for a token only (README, Known divergences).
CookieAuthenticates == \A s \in Sockets : socket[s].by = "cookie" => socket[s].at # "rejected"
=============================================================================
