---------------------------- MODULE PaidRequest ----------------------------
(***************************************************************************)
(* What a generate-document request promises its owner, whatever crashes,  *)
(* retries and takeovers happen behind it: provider requests are paid for  *)
(* one at a time and never repeated blindly, a document is charged once    *)
(* and only when it is complete, and a request with an ambiguous provider  *)
(* outcome stops for reconciliation.                                       *)
(***************************************************************************)
EXTENDS Integers

CONSTANTS
  Stages,       \* the logical stages of the document
  DraftStages   \* those a complete document needs

VARIABLES
  phase,        \* "open", "held" for reconciliation, or "paid"
  asked,        \* provider requests sent, as <<stage, attempt>>
  delivered     \* stages with a usable provider result

promise == <<phase, asked, delivered>>

PromiseInit == phase = "open" /\ asked = {} /\ delivered = {}

\* A stage asks its provider for the first time, or once more; never again
\* once it has its result, nor while the request is held or after the charge.
Ask(s, n) ==
  /\ phase = "open" /\ s \notin delivered /\ <<s, n>> \notin asked
  /\ n = 2 => <<s, 1>> \in asked
  /\ asked' = asked \cup {<<s, n>>}
  /\ UNCHANGED <<phase, delivered>>

\* A stage is delivered by a provider request of that stage.
Deliver(s) ==
  /\ phase = "open" /\ s \notin delivered
  /\ \E n \in 1..2 : <<s, n>> \in asked
  /\ delivered' = delivered \cup {s}
  /\ UNCHANGED <<phase, asked>>

\* The outcome of a provider request is ambiguous, or nobody waits for it.
HoldRequest == phase = "open" /\ phase' = "held" /\ UNCHANGED <<asked, delivered>>

\* The document is charged.
Pay ==
  /\ phase = "open" /\ DraftStages \subseteq delivered
  /\ phase' = "paid"
  /\ UNCHANGED <<asked, delivered>>

PromiseNext ==
  \/ \E s \in Stages : Deliver(s) \/ \E n \in 1..2 : Ask(s, n)
  \/ HoldRequest
  \/ Pay

Promise == PromiseInit /\ [][PromiseNext]_promise
=============================================================================
