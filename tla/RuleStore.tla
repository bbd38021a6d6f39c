------------------------------ MODULE RuleStore ------------------------------
(***************************************************************************)
(* NotificationRuleStore of src/dashboard/persistence.py, over the one     *)
(* connection all stores share.  tx() holds a threading.Lock that its own  *)
(* thread cannot take twice, and the handlers all run on the thread of the *)
(* event loop: a call that waits for the lock stops the process.           *)
(***************************************************************************)
EXTENDS Naturals, FiniteSets

CONSTANTS
  RuleContents,   \* event, channel, target and enabled
  MaxRules,       \* bound on the rules inserted
  MaxRestarts     \* bound on the restarts

ASSUME RuleStoreAssumption == MaxRules \in Nat /\ MaxRestarts \in Nat

VARIABLES
  rules,       \* stored: the committed rows
  newRule,     \* stored: the next AUTOINCREMENT id
  ruleCall,    \* what the thread of the event loop is doing
  rowsInTx,    \* the rows as the open transaction sees them
  restarts

ruleVars == <<rules, newRule, ruleCall, rowsInTx, restarts>>

Rule == [id : 1 .. MaxRules, content : RuleContents]
NoCall == [op |-> "none", id |-> 0]

RuleStoreTypeOK ==
  /\ rules \subseteq Rule /\ rowsInTx \subseteq Rule
  /\ newRule \in 1 .. MaxRules + 1
  /\ ruleCall \in [op : {"none", "insert", "update", "waits", "delete"}, id : 0 .. MaxRules]
  /\ restarts \in 0 .. MaxRestarts

RuleStoreInit ==
  /\ rules = {} /\ newRule = 1 /\ ruleCall = NoCall /\ rowsInTx = {} /\ restarts = 0

Row(id) == {r \in rules : r.id = id}

\* BEGIN IMMEDIATE and the statement, in one of the calls of tx().
BeginInsert(c) ==
  /\ ruleCall = NoCall /\ newRule <= MaxRules
  /\ ruleCall' = [op |-> "insert", id |-> newRule]
  /\ rowsInTx' = rules \cup {[id |-> newRule, content |-> c]}
  /\ UNCHANGED <<rules, newRule, restarts>>

BeginUpdate(id, c) ==
  /\ ruleCall = NoCall
  /\ ruleCall' = [op |-> "update", id |-> id]
  /\ rowsInTx' = IF Row(id) = {} THEN rules
                 ELSE (rules \ Row(id)) \cup {[id |-> id, content |-> c]}
  /\ UNCHANGED <<rules, newRule, restarts>>

BeginDelete(id) ==
  /\ ruleCall = NoCall
  /\ ruleCall' = [op |-> "delete", id |-> id]
  /\ rowsInTx' = rules \ Row(id)
  /\ UNCHANGED <<rules, newRule, restarts>>

\* An update that has changed a row reads created_at by query_one(), which takes the
\* lock that tx() holds.  Nothing wakes it.
ReadsCreatedAt ==
  /\ ruleCall.op = "update" /\ Row(ruleCall.id) # {}
  /\ ruleCall' = [ruleCall EXCEPT !.op = "waits"]
  /\ UNCHANGED <<rules, newRule, rowsInTx, restarts>>

\* COMMIT; an update of no row has returned early, inside the transaction.
CommitRules ==
  /\ \/ ruleCall.op \in {"insert", "delete"}
     \/ ruleCall.op = "update" /\ Row(ruleCall.id) = {}
  /\ rules' = rowsInTx
  /\ newRule' = IF ruleCall.op = "insert" THEN newRule + 1 ELSE newRule
  /\ ruleCall' = NoCall
  /\ UNCHANGED <<rowsInTx, restarts>>

\* The process is killed and started again: the open transaction is rolled back.
RestartRules ==
  /\ restarts < MaxRestarts /\ restarts' = restarts + 1
  /\ ruleCall' = NoCall /\ rowsInTx' = rules
  /\ UNCHANGED <<rules, newRule>>

RuleStoreNext ==
  \/ \E c \in RuleContents :
       BeginInsert(c) \/ \E id \in 1 .. MaxRules : BeginUpdate(id, c)
  \/ \E id \in 1 .. MaxRules : BeginDelete(id)
  \/ ReadsCreatedAt \/ CommitRules \/ RestartRules

\* The thread runs the call it is in, as far as it can; no restart is promised.
RuleStoreFairness == WF_ruleVars(ReadsCreatedAt \/ CommitRules)

RuleStoreSpec == RuleStoreInit /\ [][RuleStoreNext]_ruleVars /\ RuleStoreFairness
-----------------------------------------------------------------------------
\* Wherever the process is killed, the stored rules change by whole calls: a rule comes
\* with an insert, under an id that was never given, and changes or goes with a call that
\* names it (persistence.py:325).
RulesChangeAsAsked ==
  [][/\ newRule' >= newRule
     /\ \A r \in rules : r \notin rules' =>
          ruleCall.op \in {"update", "delete"} /\ ruleCall.id = r.id
     /\ \A q \in rules' \ rules :
          \/ ruleCall.op = "insert" /\ q.id = newRule
          \/ ruleCall.op = "update" /\ q.id = ruleCall.id]_ruleVars

\* The rules can be created, read, updated and deleted (persistence.py:1048): a call of
\* the store comes to its end.
CallsEnd == ruleCall.op # "none" ~> ruleCall.op = "none"
=============================================================================
