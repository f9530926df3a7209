-------------------------- MODULE LegacyRefinement --------------------------
(* LegacyGeneration keeps the promise of PaidRequest: the state mapping.    *)
EXTENDS LegacyGeneration

\* The latest reservation decides whether the request is held; the charge in
\* the usage ledger, whether it is paid.
phaseOf ==
  IF charged # 0 THEN "paid"
  ELSE IF last > 0 /\ rows[last].held THEN "held" ELSE "open"

askedOf     == {a \in Admissions : sent[a] > 0}
deliveredOf == {s \in Stages : result[s] # 0 /\ usage[<<s, result[s]>>] = "ok"}

Request == INSTANCE PaidRequest WITH phase <- phaseOf, asked <- askedOf, delivered <- deliveredOf

\* Every behaviour of the database functions and their invocations - crashes,
\* lapsed claims, lost acknowledgements and takeovers included - looks to the
\* owner like one PaidRequest: no provider request is repeated or sent after a
\* hold or a charge, and only a complete document is charged, once.
KeepsPromise == Request!Promise
=============================================================================
