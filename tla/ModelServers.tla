---------------------------- MODULE ModelServers ----------------------------
(***************************************************************************)
(* VLLMBridge and OllamaBridge (src/runtime/vllm_bridge.py,                *)
(* ollama_bridge.py): a registry of model servers and the set of those     *)
(* that answered their last health check.  A check reads the endpoint,     *)
(* awaits the server, once or (Ollama) twice, and then writes the set by   *)
(* name, whatever was registered or unregistered meanwhile.                *)
(***************************************************************************)
EXTENDS Naturals, FiniteSets

CONSTANTS
  Names,            \* the names of endpoints
  Checks,           \* the single checks that can be in flight
  MaxRegistrations  \* bound on the calls of register()

ASSUME ModelServersAssumption ==
  /\ IsFiniteSet(Names) /\ MaxRegistrations \in Nat /\ "sweep" \notin Checks

VARIABLES
  endpoint,    \* _endpoints: which registration a name has; 0 is none
  inserted,    \* when the name was put into the dict, for its order
  registrations, \* the registrations so far
  healthy,     \* _healthy
  check,       \* the checks in flight: of which name, as registered then
  sweep,       \* health_check_all(): where it is, and the size the dict had
  vouched,     \* history: the registration a healthy name was found healthy as
  raced        \* history: the names whose registration changed under a check,
               \* or while they were healthy

serverVars == <<endpoint, inserted, registrations, healthy, check, sweep, vouched, raced>>

Checkers == Checks \cup {"sweep"}
NoCheck == [phase |-> "idle", name |-> "none", as |-> 0]
NoSweep == [phase |-> "idle", at |-> 0, size |-> 0, missed |-> {}]
Registered == {n \in Names : endpoint[n] # 0}
InCheck(n) == \E c \in Checkers : check[c].phase # "idle" /\ check[c].name = n

ServersTypeOK ==
  /\ registrations \in 0 .. MaxRegistrations
  /\ endpoint \in [Names -> 0 .. registrations] /\ inserted \in [Names -> 0 .. registrations]
  /\ healthy \subseteq Names /\ raced \subseteq Names
  /\ check \in [Checkers -> [phase : {"idle", "health", "tags"},
                             name : Names \cup {"none"}, as : 0 .. registrations]]
  /\ sweep \in [phase : {"idle", "next", "checks", "raised"}, at : 0 .. registrations,
                size : 0 .. Cardinality(Names), missed : SUBSET Names]
  /\ vouched \in [Names -> 0 .. registrations]

ServersInit ==
  /\ endpoint = [n \in Names |-> 0] /\ inserted = [n \in Names |-> 0]
  /\ registrations = 0 /\ healthy = {}
  /\ check = [c \in Checkers |-> NoCheck] /\ sweep = NoSweep
  /\ vouched = [n \in Names |-> 0] /\ raced = {}
-----------------------------------------------------------------------------
\* register(): another endpoint under the same name inherits its health.
Register(n) ==
  /\ registrations < MaxRegistrations
  /\ registrations' = registrations + 1
  /\ endpoint' = [endpoint EXCEPT ![n] = registrations + 1]
  /\ inserted' = IF n \in Registered THEN inserted
                 ELSE [inserted EXCEPT ![n] = registrations + 1]
  /\ raced' = IF n \in healthy \/ InCheck(n) THEN raced \cup {n} ELSE raced
  /\ UNCHANGED <<healthy, check, sweep, vouched>>

Unregister(n) ==
  /\ n \in Registered
  /\ endpoint' = [endpoint EXCEPT ![n] = 0]
  /\ healthy' = healthy \ {n}
  /\ raced' = IF InCheck(n) THEN raced \cup {n} ELSE raced
  /\ inserted' = [inserted EXCEPT ![n] = 0]
  /\ vouched' = [vouched EXCEPT ![n] = 0]
  /\ sweep' = [sweep EXCEPT !.missed = @ \ {n}]
  /\ UNCHANGED <<registrations, check>>

Checking(c, phase, n) ==
  check' = [check EXCEPT ![c] = [phase |-> phase, name |-> n, as |-> endpoint[n]]]

\* health_check() of a registered name; of another it returns False at once.
StartCheck(c, n) ==
  /\ check[c].phase = "idle" /\ n \in Registered
  /\ Checking(c, "health", n)
  /\ UNCHANGED <<endpoint, inserted, registrations, healthy, sweep, vouched, raced>>

\* Ollama asks for its models as well, by the endpoint it has read before.
AsksForTags(c) ==
  /\ check[c].phase = "health"
  /\ check' = [check EXCEPT ![c].phase = "tags"]
  /\ UNCHANGED <<endpoint, inserted, registrations, healthy, sweep, vouched, raced>>

\* The answer, or httpx.HTTPError, decides by name.
CheckEnds(c, ok) ==
  LET n == check[c].name IN
  /\ check[c].phase # "idle"
  /\ healthy' = IF ok THEN healthy \cup {n} ELSE healthy \ {n}
  /\ vouched' = [vouched EXCEPT ![n] = IF ok THEN check[c].as ELSE 0]
  /\ check' = [check EXCEPT ![c] = NoCheck]
  /\ raced' = IF check[c].as = endpoint[n] /\ \A d \in Checkers \ {c} : check[d].name # n
              THEN raced \ {n} ELSE raced
  /\ sweep' = IF c = "sweep"
              THEN [sweep EXCEPT !.phase = "next", !.missed = @ \ {n}]
              ELSE sweep
  /\ UNCHANGED <<endpoint, inserted, registrations>>

\* Anything else that is raised, by an answer that cannot be read, ends the check and the
\* sweep it belongs to, and decides nothing.
CheckRaises(c) ==
  /\ check[c].phase # "idle"
  /\ check' = [check EXCEPT ![c] = NoCheck]
  /\ sweep' = IF c = "sweep" THEN [NoSweep EXCEPT !.phase = "raised"] ELSE sweep
  /\ UNCHANGED <<endpoint, inserted, registrations, healthy, vouched, raced>>

StartSweep ==
  /\ sweep.phase \in {"idle", "raised"}
  /\ sweep' = [phase |-> "next", at |-> 0, size |-> Cardinality(Registered),
               missed |-> Registered]
  /\ UNCHANGED <<endpoint, inserted, registrations, healthy, check, vouched, raced>>

\* The loop goes on in the order of insertion; a dict whose size has changed raises
\* RuntimeError.
SweepNext(n) ==
  /\ sweep.phase = "next" /\ sweep.size = Cardinality(Registered)
  /\ n \in Registered /\ inserted[n] > sweep.at
  /\ \A m \in Registered : inserted[m] > sweep.at => inserted[n] <= inserted[m]
  /\ sweep' = [sweep EXCEPT !.phase = "checks", !.at = inserted[n]]
  /\ Checking("sweep", "health", n)
  /\ UNCHANGED <<endpoint, inserted, registrations, healthy, vouched, raced>>

SweepEnds ==
  /\ sweep.phase = "next"
  /\ \/ /\ sweep.size # Cardinality(Registered)
        /\ sweep' = [NoSweep EXCEPT !.phase = "raised"]
     \/ /\ sweep.size = Cardinality(Registered)
        /\ \A n \in Registered : inserted[n] <= sweep.at
        /\ sweep' = [NoSweep EXCEPT !.missed = sweep.missed]
  /\ UNCHANGED <<endpoint, inserted, registrations, healthy, check, vouched, raced>>

ServersNext ==
  \/ \E n \in Names :
       \/ Register(n) \/ Unregister(n) \/ SweepNext(n)
       \/ \E c \in Checks : StartCheck(c, n)
  \/ \E c \in Checkers :
       AsksForTags(c) \/ CheckRaises(c) \/ \E ok \in BOOLEAN : CheckEnds(c, ok)
  \/ StartSweep \/ SweepEnds

ServersSpec == ServersInit /\ [][ServersNext]_serverVars
-----------------------------------------------------------------------------
\* A name that counts as healthy is registered, and was found healthy as it is
\* registered now, unless its registration changed under a check or while it was
\* healthy: then an unregistered name can count as healthy, and a server nobody has
\* asked yet (vllm_bridge.py:113).
HealthyMeansChecked ==
  \A n \in healthy \ raced : n \in Registered /\ vouched[n] = endpoint[n]

\* health_check_all() that returns has asked every endpoint that was there from its
\* start to its end; if the registry changes size under it, or an answer cannot be read,
\* it raises (vllm_bridge.py:131).
SweepIsComplete ==
  sweep.phase = "idle" => sweep.missed = {}
=============================================================================
