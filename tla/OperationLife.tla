--------------------------- MODULE OperationLife ---------------------------
(***************************************************************************)
(* What captured operations promise the allowance of their user, whatever  *)
(* their workers, owners and other requests do: an operation lives with    *)
(* one slot reserved, and it ends once, in one transaction with its slot,  *)
(* either with a document while its time is not over, or without one.      *)
(***************************************************************************)
CONSTANT Operations

VARIABLES
  life,   \* "new", "live", "ready" or "closed"
  slot,   \* its reservation: "absent", "reserved", "settled" or "released"
  over    \* the operations whose expiry has passed; it is fixed on acceptance

lives == <<life, slot, over>>

\* An operation is seen from before its acceptance, or from then on.
LifeInit ==
  /\ life \in [Operations -> {"new", "live"}]
  /\ slot = [o \in Operations |-> IF life[o] = "new" THEN "absent" ELSE "reserved"]
  /\ over = {}

\* Operation o and its slot go to the next state together.
Turn(o, l, s) ==
  /\ life' = [life EXCEPT ![o] = l]
  /\ slot' = [slot EXCEPT ![o] = s]

\* Its acceptance may have waited for locks beyond the expiry it computed.
Accepted(o) ==
  /\ life[o] = "new" /\ slot[o] = "absent"
  /\ Turn(o, "live", "reserved") /\ over' \in {over, over \cup {o}}

Finished(o) ==
  /\ life[o] = "live" /\ slot[o] = "reserved" /\ o \notin over
  /\ Turn(o, "ready", "settled") /\ UNCHANGED over

Ended(o) ==
  /\ life[o] = "live" /\ slot[o] = "reserved"
  /\ Turn(o, "closed", "released") /\ UNCHANGED over

TimePasses ==
  /\ over \subseteq over' /\ \A o \in over' : o \in Operations /\ life[o] # "new"
  /\ UNCHANGED <<life, slot>>

LifeNext ==
  \/ \E o \in Operations : Accepted(o) \/ Finished(o) \/ Ended(o)
  \/ TimePasses

Promise == LifeInit /\ [][LifeNext]_lives
=============================================================================
