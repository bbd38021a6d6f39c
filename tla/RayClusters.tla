----------------------------- MODULE RayClusters -----------------------------
(***************************************************************************)
(* ClusterManager (src/runtime/cluster.py), whose worker nodes are set     *)
(* online, offline and draining by anyone, and KubeRayManager              *)
(* (src/runtime/kuberay.py), whose status follows requests to an API       *)
(* server, if it was given an HTTP client.  A request is handled there,    *)
(* and its answer read here, as steps of their own: operations in flight   *)
(* overlap.                                                                *)
(***************************************************************************)
EXTENDS Integers, FiniteSets

CONSTANTS
  Nodes,
  MaxOperations, \* bound on the calls of deploy, scale and delete
  Replicas       \* the numbers of replicas of the worker group, 0 (min_replicas) on

ASSUME RayAssumption ==
  MaxOperations \in Nat /\ Replicas \subseteq Nat /\ Replicas # {}

VARIABLES
  node,        \* _workers: the status of each node
  drained,     \* history: the nodes that were drained since they were last registered
  givenUp,     \* history: those of them that were marked offline after that
  hasClient,   \* whether there is an _http_client; by default there is none
  rayStatus,   \* _status
  wanted,      \* worker_groups[0].replicas
  operation,   \* the operations in the order of their calls: what each asks for, and how
               \* far it is
  cluster,     \* at the API server: the replicas of the cluster, if there is one
  excuses      \* history: why the status need not be the truth

nodeVars == <<node, drained, givenUp>>
kubeVars == <<hasClient, rayStatus, wanted, operation, cluster, excuses>>
rayVars == <<nodeVars, kubeVars>>

Absent == -1
Operations == 1 .. MaxOperations
Kinds == {"deploy", "scale", "delete"}
\* Nothing sets DEGRADED.
WorkerStatuses == {"ONLINE", "OFFLINE", "DEGRADED", "DRAINING"}
ClusterStatuses == {"UNKNOWN", "CREATING", "RUNNING", "SCALING", "FAILED", "DELETED"}

RayTypeOK ==
  /\ node \in [Nodes -> {"absent"} \cup WorkerStatuses]
  /\ drained \subseteq Nodes /\ givenUp \subseteq drained
  /\ hasClient \in BOOLEAN /\ rayStatus \in ClusterStatuses
  /\ wanted \in Replicas
  /\ operation \in [Operations -> [kind : Kinds \cup {"none"}, replicas : Replicas \cup {Absent},
                                   phase : {"new", "sent", "done", "refused", "over"}]]
  /\ cluster \in Replicas \cup {Absent}
  /\ excuses \subseteq {"overlap", "ignored", "lost"}

RayInit ==
  /\ node = [n \in Nodes |-> "absent"] /\ drained = {} /\ givenUp = {}
  /\ hasClient \in BOOLEAN /\ rayStatus = "UNKNOWN" /\ wanted \in Replicas /\ cluster = Absent
  /\ operation = [o \in Operations |-> [kind |-> "none", replicas |-> Absent, phase |-> "new"]]
  /\ excuses = {}
-----------------------------------------------------------------------------
(***************************************************************************)
(* ClusterManager.                                                         *)
(***************************************************************************)
SetNode(n, to) == node' = [node EXCEPT ![n] = to]

\* A new node, or another configuration for one: either way it is ONLINE.
RegisterNode(n) ==
  /\ SetNode(n, "ONLINE")
  /\ drained' = drained \ {n} /\ givenUp' = givenUp \ {n}

UnregisterNode(n) ==
  /\ node[n] # "absent" /\ SetNode(n, "absent")
  /\ drained' = drained \ {n} /\ givenUp' = givenUp \ {n}

\* Mutant of Heartbeat: whoever beats is ONLINE.
Heartbeat_any(n) ==
  /\ node[n] # "absent" /\ SetNode(n, "ONLINE")
  /\ UNCHANGED <<drained, givenUp>>

Heartbeat(n) ==
  /\ node[n] = "OFFLINE" /\ SetNode(n, "ONLINE")
  /\ UNCHANGED <<drained, givenUp>>

MarkOffline(n) ==
  /\ node[n] # "absent" /\ SetNode(n, "OFFLINE")
  /\ givenUp' = givenUp \cup ({n} \cap drained)
  /\ UNCHANGED drained

DrainNode(n) ==
  /\ node[n] # "absent" /\ SetNode(n, "DRAINING")
  /\ drained' = drained \cup {n} /\ givenUp' = givenUp \ {n}
-----------------------------------------------------------------------------
(***************************************************************************)
(* KubeRayManager, and the API server as its answers show it.              *)
(***************************************************************************)
InFlight == {o \in Operations : operation[o].phase \in {"sent", "done", "refused"}}
Overlap(o) == IF InFlight \ {o} = {} THEN {} ELSE {"overlap"}
Reaches(o, phase) == operation' = [operation EXCEPT ![o].phase = phase]

\* Without a client nothing is asked of anyone: the call succeeds at once.  (A scale of a
\* group that is not there changes nothing either way.)
SucceedAlone(kind, r) ==
  /\ ~hasClient
  /\ kind = "scale" \/ r = wanted
  /\ wanted' = r
  /\ rayStatus' = IF kind = "delete" THEN "DELETED" ELSE "RUNNING"
  /\ UNCHANGED <<hasClient, operation, cluster, excuses>>

\* deploy_cluster() and scale_workers() set a status before they await, and a scale its
\* replicas; delete_cluster() sets none.
Send(o, kind, r) ==
  /\ hasClient /\ operation[o].phase = "new" /\ \A p \in 1 .. o - 1 : operation[p].phase # "new"
  /\ kind = "scale" \/ r = wanted
  /\ operation' = [operation EXCEPT ![o] = [kind |-> kind, replicas |-> r, phase |-> "sent"]]
  /\ wanted' = r
  /\ rayStatus' = CASE kind = "deploy" -> "CREATING"
                  [] kind = "scale" -> "SCALING"
                  [] OTHER -> rayStatus
  /\ excuses' = excuses \cup Overlap(o)
  /\ UNCHANGED <<hasClient, cluster>>

\* The server does what it is asked for, if it can.
ServerHandles(o) ==
  LET op == operation[o]
      can == (op.kind = "deploy") <=> (cluster = Absent) IN
  /\ op.phase = "sent"
  /\ cluster' = IF ~can THEN cluster ELSE IF op.kind = "delete" THEN Absent ELSE op.replicas
  /\ Reaches(o, IF can THEN "done" ELSE "refused")
  /\ UNCHANGED <<hasClient, rayStatus, wanted, excuses>>

\* The answer is read.  What the server answered to a scale is not looked at.
Answered(o) ==
  LET op == operation[o] IN
  /\ op.phase \in {"done", "refused"}
  /\ rayStatus' = CASE op.kind = "scale" -> "RUNNING"
                  [] op.kind = "deploy" -> IF op.phase = "done" THEN "RUNNING" ELSE "FAILED"
                  [] OTHER -> IF op.phase = "done" THEN "DELETED" ELSE rayStatus
  /\ excuses' = IF op.kind = "scale" /\ op.phase = "refused" THEN excuses \cup {"ignored"}
                ELSE excuses
  /\ Reaches(o, "over")
  /\ UNCHANGED <<hasClient, wanted, cluster>>

\* The request or its answer is lost: the client raises, nothing is written.
Lost(o) ==
  /\ o \in InFlight
  /\ Reaches(o, "over")
  /\ excuses' = excuses \cup {"lost"}
  /\ UNCHANGED <<hasClient, rayStatus, wanted, cluster>>

KubeNext ==
  \/ \E o \in Operations :
       \/ \E kind \in Kinds, r \in Replicas : Send(o, kind, r)
       \/ ServerHandles(o) \/ Answered(o) \/ Lost(o)
  \/ \E kind \in Kinds, r \in Replicas : SucceedAlone(kind, r)

NodesNext ==
  \E n \in Nodes :
    RegisterNode(n) \/ UnregisterNode(n) \/ Heartbeat(n) \/ MarkOffline(n) \/ DrainNode(n)

RayNext ==
  \/ NodesNext /\ UNCHANGED kubeVars
  \/ KubeNext /\ UNCHANGED nodeVars

RaySpec == RayInit /\ [][RayNext]_rayVars
-----------------------------------------------------------------------------
\* A drained node takes tasks again only after it was registered anew, or was marked
\* offline and sent a heartbeat: the drain is then forgotten (cluster.py:194).
DrainedStaysDrained ==
  \A n \in drained : node[n] = "ONLINE" => n \in givenUp

\* With no operation under way CREATING and SCALING are no resting states; with a client
\* a RUNNING cluster is there, with the replicas asked for, and a DELETED one is not,
\* unless operations overlapped, one was lost, or a refused scale was taken for a success
\* (kuberay.py:205).  Without one RUNNING says nothing of a cluster, and there is none.
KubeStatusIsTrue ==
  InFlight = {} /\ excuses = {} =>
    /\ rayStatus \notin {"CREATING", "SCALING"}
    /\ hasClient /\ rayStatus = "RUNNING" => cluster = wanted
    /\ ~hasClient \/ rayStatus \in {"UNKNOWN", "DELETED"} => cluster = Absent
=============================================================================
