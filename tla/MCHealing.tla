----------------------------- MODULE MCHealing -----------------------------
(* Instances of Healing for TLC.                                           *)
EXTENDS Healing

\* A failure that took until its timeout, and a success in time: a failure leaves
\* the average latency high when it no longer counts as a failure in a row.
MCOutcomes == {[success |-> FALSE, latency |-> 5], [success |-> TRUE, latency |-> 0]}
=============================================================================
