------------------------------ MODULE WebClient ------------------------------
(***************************************************************************)
(* The WebSocket of the dashboard's web client (src/dashboard/web/src):    *)
(* WSClient of lib/ws.ts, and ProtectedRoute, whose effect connects and    *)
(* disconnects it when the probe of the server or the token changes.  The  *)
(* close event of a socket comes after close(), when the client may have   *)
(* another socket.  A step is a task of the browser: a commit with its     *)
(* effects, an event or a timer.  An error event is followed by the close  *)
(* event in the same task.                                                 *)
(***************************************************************************)
EXTENDS Naturals, Sequences, SequencesExt, FiniteSets

CONSTANT MaxSockets   \* bound on the sockets opened

ASSUME WebClientAssumption == MaxSockets \in Nat

VARIABLES
  route,     \* ProtectedRoute: mounted or not, what the probe said, whether it is out
  hasToken,  \* the session's token
  client,    \* WSClient: socket (0: null), intentionallyClosed, status, and whether
             \* the retry timer runs
  sockets,   \* readyState of each socket there has been
  overtaken  \* history: an older socket's close came while the current one was open

webVars == <<route, hasToken, client, sockets, overtaken>>

WebTypeOK ==
  /\ route \in [mounted : BOOLEAN, probe : {"loading", "open", "required"},
                probing : BOOLEAN]
  /\ hasToken \in BOOLEAN /\ overtaken \in BOOLEAN
  /\ client \in [socket : 0 .. Len(sockets), intentionallyClosed : BOOLEAN,
                 status : {"closed", "connecting", "open"}, timer : BOOLEAN]
  /\ sockets \in Seq({"CONNECTING", "OPEN", "CLOSING", "CLOSED"})
  /\ Len(sockets) <= MaxSockets

LoginPage == [mounted |-> FALSE, probe |-> "loading", probing |-> FALSE]

WebInit ==
  /\ route = LoginPage /\ hasToken = FALSE
  /\ client = [socket |-> 0, intentionallyClosed |-> FALSE, status |-> "closed",
               timer |-> FALSE]
  /\ sockets = <<>> /\ overtaken = FALSE
-----------------------------------------------------------------------------
(***************************************************************************)
(* WSClient.                                                               *)
(***************************************************************************)
\* disconnect(): the client, and the sockets once close() was called.
ClosedBy(c) == [c EXCEPT !.intentionallyClosed = TRUE, !.timer = FALSE, !.socket = 0]
Closing(ss, i) ==
  IF i # 0 /\ ss[i] # "CLOSED" THEN [ss EXCEPT ![i] = "CLOSING"] ELSE ss

\* connect() does nothing while there is a socket that is not CLOSED; if the constructor
\* throws, it is tried again later.
Connects(c, ss) ==
  IF c.socket # 0 /\ ss[c.socket] # "CLOSED"
  THEN client' = c /\ sockets' = ss /\ UNCHANGED overtaken
  ELSE /\ Len(ss) < MaxSockets
       /\ overtaken' = FALSE
       /\ LET d == [c EXCEPT !.intentionallyClosed = FALSE, !.status = "connecting"] IN
          \/ /\ client' = [d EXCEPT !.socket = Len(ss) + 1]
             /\ sockets' = Append(ss, "CONNECTING")
          \/ client' = [d EXCEPT !.timer = TRUE] /\ sockets' = ss

\* onopen, of whichever socket.
SocketOpens(i) ==
  /\ sockets[i] = "CONNECTING"
  /\ sockets' = [sockets EXCEPT ![i] = "OPEN"]
  /\ client' = [client EXCEPT !.status = "open"]
  /\ UNCHANGED <<route, hasToken, overtaken>>

ServerStartsClosing(i) ==
  /\ sockets[i] = "OPEN"
  /\ sockets' = [sockets EXCEPT ![i] = "CLOSING"]
  /\ UNCHANGED <<route, hasToken, client, overtaken>>

\* onclose looks at intentionallyClosed as it is now, and sets the status of the client.
SocketCloses(i) ==
  /\ sockets[i] # "CLOSED"
  /\ sockets' = [sockets EXCEPT ![i] = "CLOSED"]
  /\ client' = [client EXCEPT !.status = "closed",
                              !.timer = @ \/ ~client.intentionallyClosed]
  /\ overtaken' = (/\ i # client.socket
                   /\ overtaken \/ (client.socket # 0 /\ sockets[client.socket] = "OPEN"))
  /\ UNCHANGED <<route, hasToken>>

RetryTimerFires ==
  /\ client.timer
  /\ Connects([client EXCEPT !.timer = FALSE], sockets)
  /\ UNCHANGED <<route, hasToken>>
-----------------------------------------------------------------------------
(***************************************************************************)
(* ProtectedRoute.                                                         *)
(***************************************************************************)
Wants(r, token) == r.mounted /\ (r.probe = "open" \/ (r.probe = "required" /\ token))

\* The effect of [probe, token]: its cleanup if it had connected, then its body.
Renders(r, token) ==
  /\ route' = r /\ hasToken' = token
  /\ IF r.mounted = route.mounted /\ r.probe = route.probe /\ token = hasToken
     THEN UNCHANGED <<client, sockets, overtaken>>
     ELSE LET wanted == Wants(route, hasToken)
              c == IF wanted THEN ClosedBy(client) ELSE client
              ss == IF wanted THEN Closing(sockets, client.socket) ELSE sockets
          IN  IF Wants(r, token) THEN Connects(c, ss)
              ELSE client' = c /\ sockets' = ss /\ overtaken' = (overtaken /\ c.socket # 0)

\* The login page gives way to the route, with a token or without.
Enter ==
  /\ ~route.mounted
  /\ \E token \in {hasToken, TRUE} :
       Renders([mounted |-> TRUE, probe |-> "loading", probing |-> TRUE], token)

\* The probe returns, or fails with anything but 401.
ProbePasses ==
  /\ route.probing
  /\ Renders([route EXCEPT !.probe = "open", !.probing = FALSE], hasToken)

\* 401 clears the token; a token that changes is probed anew, and the answer of the old
\* probe may or may not still be looked at.
ProbeUnauthorized ==
  /\ route.probing
  /\ \/ Renders([route EXCEPT !.probe = "required", !.probing = hasToken], FALSE)
     \/ hasToken /\ Renders(route, FALSE)

\* Any other request that is refused, or a logout, clears the token.
TokenCleared ==
  /\ route.mounted /\ hasToken
  /\ Renders([route EXCEPT !.probing = TRUE], FALSE)

\* The redirect, or a logout that leaves the route in the same commit.
LeaveForLogin ==
  /\ route.mounted
  /\ Renders(LoginPage, FALSE)

WebNext ==
  \/ Enter \/ ProbePasses \/ ProbeUnauthorized \/ TokenCleared \/ LeaveForLogin
  \/ RetryTimerFires
  \/ \E i \in DOMAIN sockets : SocketOpens(i) \/ ServerStartsClosing(i) \/ SocketCloses(i)

WebSpec == WebInit /\ [][WebNext]_webVars
-----------------------------------------------------------------------------
\* The client has one connection at most, its current one, however often the effect
\* runs and timers set by older sockets fire (ws.ts:28).
OneConnection ==
  \A i \in DOMAIN sockets : sockets[i] \in {"CONNECTING", "OPEN"} => i = client.socket

\* As long as the route wants a connection there is a socket that is not CLOSED or a
\* timer that will try again; once it does not, nothing reconnects (ws.ts:59).
KeepsTrying ==
  IF Wants(route, hasToken)
  THEN \/ client.timer
       \/ client.socket # 0 /\ sockets[client.socket] # "CLOSED"
  ELSE ~client.timer /\ client.socket = 0

\* The status shown is that of the current socket once no socket is closing, unless the
\* close of an older one came after the current one had opened: it then shows "closed"
\* for as long as the connection lasts (ws.ts:58).
StatusIsTheSockets ==
  (\A i \in DOMAIN sockets : sockets[i] # "CLOSING") /\ ~overtaken =>
    (client.status = "open" <=> client.socket # 0 /\ sockets[client.socket] = "OPEN")
=============================================================================
