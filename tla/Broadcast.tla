----------------------------- MODULE Broadcast -----------------------------
(***************************************************************************)
(* WebSocketManager (src/dashboard/websocket.py): the list of connections, *)
(* and broadcasts that go through the live list with an await per send.    *)
(* Connections are numbered; a sender is a coroutine that broadcasts.  A   *)
(* step of a broadcast runs from one await to the next.                    *)
(***************************************************************************)
EXTENDS Integers, Sequences, FiniteSets, SequencesExt

CONSTANTS
  NumConns,   \* bound on the connections one process of the server accepts
  Senders     \* the coroutines that call broadcast()

ASSUME BroadcastAssumption == NumConns \in Nat

Conns == 1 .. NumConns

VARIABLES
  connections,  \* _connections
  closed,       \* the connections whose client is gone
  sending       \* what each sender's broadcast() is at

broadcastVars == <<connections, closed, sending>>

\* at: place in the list of ws, the connection being sent to (0: none).  History:
\* owed: connections that were there at the beginning, are still there and have not
\* been sent to; shifts: how many left the list at or before `at`; raced: someone
\* else took one out of the list that this broadcast holds as dead or is sending to.
Quiet == [phase |-> "idle", at |-> 0, ws |-> 0, dead |-> <<>>,
          owed |-> {}, shifts |-> 0, raced |-> FALSE]

BroadcastTypeOK ==
  /\ connections \in Seq(Conns) /\ IsInjective(connections)
  /\ closed \subseteq Conns
  /\ \A s \in Senders :
       LET b == sending[s] IN
       /\ b.phase \in {"idle", "sending", "returned", "raised"}
       /\ b.phase = "sending" <=> b.at > 0
       /\ b.at \in 0 .. NumConns /\ b.ws \in 0 .. NumConns
       /\ b.dead \in Seq(Conns) /\ IsInjective(b.dead)
       /\ b.owed \subseteq Range(connections)
       /\ b.shifts \in 0 .. NumConns
       /\ b.raced \in BOOLEAN

BroadcastInit ==
  /\ connections = <<>> /\ closed = {}
  /\ sending = [s \in Senders |-> Quiet]
-----------------------------------------------------------------------------
(***************************************************************************)
(* The list.  Whoever takes connections out of it moves the later ones     *)
(* forward, under the index of every broadcast that is going on.           *)
(***************************************************************************)
Without(gone) ==
  LET kept[i \in 0 .. Len(connections)] ==
        IF i = 0 THEN <<>>
        ELSE IF connections[i] \in gone THEN kept[i - 1]
        ELSE Append(kept[i - 1], connections[i])
  IN  kept[Len(connections)]

Disturbed(b, gone) ==
  IF b.phase # "sending" THEN [b EXCEPT !.owed = @ \ gone]
  ELSE [b EXCEPT
          !.owed = @ \ gone,
          !.shifts = @ + Cardinality({p \in DOMAIN connections :
                                        p <= b.at /\ connections[p] \in gone}),
          !.raced = @ \/ gone \cap (Range(b.dead) \cup {b.ws}) # {}]

\* connect(): the client is new to this process, and the connections are numbered as
\* they come.
Connect(c) ==
  /\ closed \cup Range(connections) = 1 .. c - 1
  /\ connections' = Append(connections, c)
  /\ UNCHANGED <<closed, sending>>

ClientLeaves(c) ==
  /\ c \in Range(connections) \ closed
  /\ closed' = closed \cup {c}
  /\ UNCHANGED <<connections, sending>>

\* The endpoint's receive_text() raises: disconnect().
Disconnect(c) ==
  /\ c \in closed \cap Range(connections)
  /\ connections' = Without({c})
  /\ sending' = [s \in Senders |-> Disturbed(sending[s], {c})]
  /\ UNCHANGED closed
-----------------------------------------------------------------------------
(***************************************************************************)
(* broadcast().                                                            *)
(***************************************************************************)
\* What a broadcast is at when it begins: it returns at once if nobody is connected.
Begun ==
  IF connections = <<>> THEN [Quiet EXCEPT !.phase = "returned"]
  ELSE [Quiet EXCEPT !.phase = "sending", !.at = 1, !.ws = connections[1],
                     !.owed = Range(connections) \ {connections[1]}]

\* Mutant of AfterSend: a connection that fails is put on the list of the dead twice.
AfterSend_twice(s, failed) ==
  LET b == sending[s]
  IN  [b EXCEPT !.dead = IF failed THEN @ \o <<b.ws, b.ws>> ELSE @]

\* The send to ws is over; it raised if it `failed`.  b is the broadcast afterwards.
AfterSend(s, failed) ==
  LET b == sending[s]
  IN  [b EXCEPT !.dead = IF failed THEN Append(@, b.ws) ELSE @]

\* The next connection of the live list.
SendsNext(s, b) ==
  /\ b.at < Len(connections)
  /\ LET ws == connections[b.at + 1]
     IN sending' = [sending EXCEPT ![s] = [b EXCEPT !.at = @ + 1, !.ws = ws, !.owed = @ \ {ws}]]
  /\ UNCHANGED connections

\* The dead ones that are taken out: all of them, or those before the first that
\* is not in the list any more, at which remove() raises ValueError.
Missing(b) ==
  {i \in DOMAIN b.dead : b.dead[i] \notin Range(connections) \ {b.dead[j] : j \in 1 .. i - 1}}

Removed(b) == {b.dead[i] : i \in {j \in DOMAIN b.dead : \A m \in Missing(b) : j < m}}

\* The end of the list: the dead are removed.
Finishes(s, b) ==
  /\ b.at >= Len(connections)
  /\ connections' = Without(Removed(b))
  /\ sending' = [r \in Senders |->
       IF r = s
       THEN [b EXCEPT !.phase = IF Missing(b) = {} THEN "returned" ELSE "raised",
                      !.at = 0, !.ws = 0, !.dead = <<>>, !.owed = @ \ Removed(b)]
       ELSE Disturbed(sending[r], Removed(b))]

\* Mutant of SendReturns: the first send that raises ends the broadcast.
SendReturns_breaks(s) ==
  /\ sending[s].phase = "sending"
  /\ \E failed \in {FALSE} \cup {sending[s].ws \in closed} :
       LET b == AfterSend(s, failed)
       IN IF failed THEN Finishes(s, [b EXCEPT !.at = Len(connections)])
          ELSE SendsNext(s, b) \/ Finishes(s, b)
  /\ UNCHANGED closed

\* The send under way returns, or raises because the client is gone.
SendReturns(s) ==
  /\ sending[s].phase = "sending"
  /\ \E failed \in {FALSE} \cup {sending[s].ws \in closed} :
       SendsNext(s, AfterSend(s, failed)) \/ Finishes(s, AfterSend(s, failed))
  /\ UNCHANGED closed

BroadcastNext ==
  \/ \E c \in Conns : Connect(c) \/ ClientLeaves(c) \/ Disconnect(c)
  \/ \E s \in Senders : SendReturns(s)
-----------------------------------------------------------------------------
(***************************************************************************)
(* Properties.                                                             *)
(***************************************************************************)
\* broadcast() (websocket.py:58) goes through the list while others change it: a
\* connection that was there before a broadcast began and still is when it ends has
\* been sent the event, except that each one that left the list in the meantime, at
\* or before the place the broadcast was at, can make it pass over one other.
MissedOnlyWhenShifted ==
  \A s \in Senders :
    sending[s].phase \in {"returned", "raised"} =>
      Cardinality(sending[s].owed) <= sending[s].shifts
=============================================================================
