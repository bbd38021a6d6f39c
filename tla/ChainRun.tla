------------------------------ MODULE ChainRun ------------------------------
(***************************************************************************)
(* What Orchestrator.process_chain promises, without what goes on in an    *)
(* attempt: the stages of a chain come one after the other, each makes at  *)
(* most MaxRetries attempts more than its first, and its files are         *)
(* committed at most once, as it passes; the first that does not pass is   *)
(* the last, and what a developer is handed is never a decision to rework. *)
(***************************************************************************)
EXTENDS Naturals, Sequences

CONSTANT MaxRetries  \* the attempts of a stage after its first

VARIABLES
  length,     \* how many stages the chain has
  outcomes,   \* the decisions the stages have ended with, in order
  retries,    \* the attempts the present stage has made after its first
  delivered,  \* the stages whose files were committed
  over        \* "no", "done", "raised" or "hung"

vars == <<length, outcomes, retries, delivered, over>>

HandedOver == {"L2_HUMAN", "L3_HALT", "L4_DEPLOY"}

Present == Len(outcomes) + 1

Init ==
  /\ length \in Nat \ {0}
  /\ outcomes = <<>> /\ retries = 0 /\ delivered = {} /\ over = "no"

Retry ==
  /\ over = "no" /\ retries < MaxRetries
  /\ retries' = retries + 1
  /\ UNCHANGED <<length, outcomes, delivered, over>>

\* A stage passes, with files to commit or without, and the next begins.
Pass ==
  /\ over = "no"
  /\ outcomes' = Append(outcomes, "AUTO_PASS")
  /\ delivered' \in {delivered, delivered \cup {Present}}
  /\ IF Present < length
     THEN retries' = 0 /\ over' = "no"
     ELSE retries' = retries /\ over' = "done"
  /\ UNCHANGED length

\* A stage ends otherwise, and with it the chain.
HandOver ==
  /\ over = "no"
  /\ \E d \in HandedOver : outcomes' = Append(outcomes, d)
  /\ over' = "done"
  /\ UNCHANGED <<length, retries, delivered>>

\* The chain breaks off: what it awaits never returns, or it fails to commit the files
\* of a stage that passes, if only after they are in.
Fail ==
  /\ over = "no"
  /\ over' \in {"raised", "hung"}
  /\ delivered' \in {delivered, delivered \cup {Present}}
  /\ UNCHANGED <<length, outcomes, retries>>

Next == Retry \/ Pass \/ HandOver \/ Fail

Spec == Init /\ [][Next]_vars
=============================================================================
