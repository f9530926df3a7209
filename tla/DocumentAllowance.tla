-------------------------- MODULE DocumentAllowance --------------------------
(***************************************************************************)
(* The monthly document allowance of one user, over all of the user's      *)
(* requests: legacy requests, which reserve a slot for a short time and    *)
(* settle it themselves, and captured operations, whose slot lives as long *)
(* as the operation.  What LegacyGeneration details inside one request -   *)
(* claims, attempts, results - appears here only as the furthest provider   *)
(* attempt that is still open under a reservation.                         *)
(*                                                                         *)
(* A call of the reserve core is three actions: it reads its clock at      *)
(* entry and waits for the advisory lock of the account (Enter), resolves  *)
(* the plan under that lock and waits for the lock of the billing period   *)
(* (Resolve), and then sweeps, counts and writes.  A settle call reads its *)
(* clock and waits for the period only.  The lock of the account does not  *)
(* stop a change of the subscription.  A transaction that raises leaves    *)
(* everything as it was, its sweep too.                                    *)
(***************************************************************************)
EXTENDS Integers, FiniteSets

CONSTANTS
  Legacy,       \* legacy requests
  Captured,     \* captured operations, each with one request
  Callers,      \* database calls under way at the same time
  Plans,        \* product plans
  CapOf,        \* documents per billing period of a plan
  Ttl,          \* lifetime of a legacy reservation
  Lifetime,     \* lifetime of a captured operation
  MonthLength,  \* length of a billing period
  MaxTime,      \* bound: the last instant
  MaxAttempt    \* bound: reservation attempts of a request

Documents == Legacy \cup Captured

ASSUME AllowanceAssumption ==
  /\ IsFiniteSet(Documents) /\ Legacy \cap Captured = {}
  /\ CapOf \in [Plans -> Nat \ {0}]
  /\ {Ttl, Lifetime, MonthLength} \subseteq Nat \ {0}
  /\ MaxTime \in Nat /\ MaxAttempt \in Nat

VARIABLES
  now,    \* the database clock
  plan,   \* the plan resolve_product_access_v1 finds
  row,    \* the latest document_allowance_reservations row of a request
  work,   \* the furthest provider attempt that is open under it
  op,     \* captured_document_operations: life cycle and immutable expiry
  call    \* database calls that have read their clock: what they are about, the
          \* cap they go by, whether they hold the account's lock, and the cap
          \* of the plan that they then found in force

vars == <<now, plan, row, work, op, call>>

Never    == MaxTime + Ttl + Lifetime
Time     == 0..MaxTime
PeriodOf(t) == t \div MonthLength

Row ==
  [status: {"absent", "prior", "reserved", "settled", "released", "expired"},
   period: Nat, expires: 0..Never, held: BOOLEAN, attempt: 0..MaxAttempt]
Operation == [status: {"new", "live", "ready", "closed"}, expires: 0..Never]
NoCall == [kind |-> "none"]
Calls ==
  {NoCall} \cup
  [kind: {"reserve", "accept", "renew", "settle"}, doc: Documents, clock: Time,
   cap: Nat, limit: Nat, locked: BOOLEAN, attempt: 0..MaxAttempt]

\* "prior" stands for a document_created row from before reservations existed.
Unreserved(status) ==
  [status |-> status, period |-> 0, expires |-> 0, held |-> FALSE, attempt |-> 0]

Init ==
  /\ now = 0
  /\ plan \in Plans
  /\ \E prior \in SUBSET Legacy :
       row = [d \in Documents |-> Unreserved(IF d \in prior THEN "prior" ELSE "absent")]
  /\ work = [d \in Documents |-> "none"]
  /\ op = [o \in Captured |-> [status |-> "new", expires |-> 0]]
  /\ call = [c \in Callers |-> NoCall]

-----------------------------------------------------------------------------
(* The reservation trigger, as far as slots are concerned *)

Hold(r) == [r EXCEPT !.expires = Never, !.held = TRUE]

\* Mutant: only sent attempts keep a reservation.
Closed_SentOnly(d, status, reconcile) ==
  IF work[d] = "sent" \/ reconcile THEN Hold(row[d]) ELSE [row[d] EXCEPT !.status = status]
\* A reservation that should be closed: it is held or kept while provider
\* work is open under it, or when its worker asks for reconciliation.
Closed(d, status, reconcile) ==
  IF work[d] = "sent" THEN Hold(row[d])
  ELSE IF work[d] = "prepared" THEN [row[d] EXCEPT !.expires = Never]
  ELSE IF reconcile THEN Hold(row[d])
  ELSE [row[d] EXCEPT !.status = status]

-----------------------------------------------------------------------------
(* reserve_document_allowance_core *)

\* Mutant: captured reservations are swept like legacy ones.
Lapsed_CapturedToo(d, clock) ==
  row[d].status = "reserved" /\ row[d].expires <= clock /\ PeriodOf(clock) = row[d].period
\* Legacy reservations of the caller's period that have run out at its clock.
Lapsed(d, clock) ==
  /\ d \in Legacy
  /\ row[d].status = "reserved" /\ row[d].period = PeriodOf(clock)
  /\ row[d].expires <= clock

Swept(clock) ==
  [d \in Documents |-> IF Lapsed(d, clock) THEN Closed(d, "expired", FALSE) ELSE row[d]]

\* What counts against the cap of the period of clock.
Counted(rows, clock) ==
  {d \in Documents :
     /\ rows[d].period = PeriodOf(clock)
     /\ \/ rows[d].status \in {"settled", "prior"}
        \/ rows[d].status = "reserved" /\ d \in Legacy /\ rows[d].expires > clock
        \/ rows[d].status = "reserved" /\ d \in Captured /\ op[d].status = "live" /\ op[d].expires > clock}

\* The count leaves a slot under the cap that the call goes by.
Admissible(rows, k) == Cardinality(Counted(rows, k.clock)) < k.cap

\* The next reservation attempt of request d.
Inserted(rows, d, k, lifetime) ==
  [rows EXCEPT ![d] =
    [status |-> "reserved", period |-> PeriodOf(k.clock), expires |-> k.clock + lifetime,
     held |-> FALSE, attempt |-> rows[d].attempt + 1]]

Admit(rows, d, k, lifetime) ==
  /\ rows[d].attempt < MaxAttempt
  /\ Admissible(rows, k)
  /\ row' = Inserted(rows, d, k, lifetime)

\* Mutant: a reclaim adds its lifetime to the old expiry.
Reclaimed_Extended(r) == [r EXCEPT !.expires = @ + Ttl]
\* The reservation of a silent worker is taken over for a new lifetime, by a
\* clock read after the locks.
Reclaimed(r) == [r EXCEPT !.expires = now + Ttl]

\* An exact replay of a request with a live reservation: it keeps it, takes it
\* over when the worker's claim has lapsed, or holds it when that worker left
\* a sent attempt behind.
Replay(rows, d) ==
  \/ row' = rows
  \/ ~rows[d].held /\ work[d] = "sent" /\ row' = [rows EXCEPT ![d] = Hold(@)]
  \/ ~rows[d].held /\ work[d] # "sent" /\ row' = [rows EXCEPT ![d] = Reclaimed(@)]

\* A legacy request; a lapsed reservation of an earlier period is outside the
\* sweep and is closed on its own.
ReserveLegacy(k) ==
  LET d == k.doc
      rows == Swept(k.clock)
      expired == Closed(d, "expired", FALSE)
  IN  \/ rows[d].status \in {"settled", "prior"} /\ row' = rows
      \/ rows[d].status \in {"absent", "released", "expired"} /\ Admit(rows, d, k, Ttl)
      \/ rows[d].status = "reserved" /\ rows[d].expires > k.clock /\ Replay(rows, d)
      \/ /\ rows[d].status = "reserved" /\ rows[d].expires <= k.clock
         /\ expired.status = "expired"
         /\ Admit([rows EXCEPT ![d] = expired], d, k, Ttl)

\* Finish the call; whether its transaction raised is decided by "commits".
Return(c) == call' = [call EXCEPT ![c] = NoCall] /\ UNCHANGED <<now, plan, work>>
Raise(c) == Return(c) /\ UNCHANGED <<row, op>>

Reserve(c) ==
  /\ call[c].kind = "reserve" /\ call[c].locked
  /\ ReserveLegacy(call[c]) /\ Return(c) /\ UNCHANGED op

\* The insert trigger of captured_document_operations.
Accept(c) ==
  /\ call[c].kind = "accept" /\ call[c].locked
  /\ LET k == call[c]
     IN  /\ Admit(Swept(k.clock), k.doc, k, Lifetime)
         /\ op' = [op EXCEPT ![k.doc] = [status |-> "live", expires |-> k.clock + Lifetime]]
  /\ Return(c)

\* The update trigger of a captured operation that stays active.
Renew(c) ==
  /\ call[c].kind = "renew" /\ call[c].locked
  /\ LET k == call[c]
         rows == Swept(k.clock)
     IN  /\ op[k.doc].expires > k.clock
         /\ row' = [rows EXCEPT ![k.doc].expires = op[k.doc].expires]
  /\ Return(c) /\ UNCHANGED op

\* settle_document_allowance: the clock is the one read at entry.
Settle(c) ==
  /\ call[c].kind = "settle"
  /\ LET k == call[c]
         r == row[k.doc]
     IN  /\ r.status = "reserved" /\ r.attempt = k.attempt /\ r.expires > k.clock
         /\ work[k.doc] = "none" /\ ~r.held
         /\ row' = [row EXCEPT ![k.doc].status = "settled"]
  /\ Return(c) /\ UNCHANGED op

\* The transaction raises: the cap is reached, a unique index or the held row
\* rejects the write, the operation has expired, or the connection is lost.
Fail(c) == call[c].kind # "none" /\ Raise(c)

\* A call that writes an operation holds the lock of its row until it returns.
Unlocked(o) == \A c \in Callers : call[c] # NoCall => call[c].doc # o

\* Call c holds the lock of the account.
Holds(c) == call[c] # NoCall /\ call[c].locked

\* A call reads its clock; whoever asks for a new document has read a plan then
\* or earlier, and passes its cap on.
Enter(c) ==
  /\ call[c] = NoCall
  /\ \E kind \in {"reserve", "accept", "renew", "settle"}, d \in Documents,
       cap \in {0} \cup {CapOf[p] : p \in Plans} :
       /\ \/ kind = "reserve" /\ d \in Legacy
          \/ kind = "settle" /\ d \in Legacy /\ row[d].status = "reserved"
          \/ kind = "accept" /\ d \in Captured /\ op[d].status = "new"
          \/ kind = "renew" /\ d \in Captured /\ op[d].status = "live"
       /\ kind \in {"renew", "settle"} <=> cap = 0
       /\ d \in Captured => Unlocked(d)
       /\ call' = [call EXCEPT ![c] =
            [kind |-> kind, doc |-> d, clock |-> now, cap |-> cap, limit |-> 0, locked |-> FALSE,
             attempt |-> IF kind = "settle" THEN row[d].attempt ELSE 0]]
  /\ UNCHANGED <<now, plan, row, work, op>>

\* Mutant: the cap of the plan that the caller has read stays in force.
Resolved_SnapshotOnly(k) == [k EXCEPT !.locked = TRUE, !.limit = CapOf[plan]]
\* The smaller one of the caps of that plan and of the plan in force counts.
Resolved(k) ==
  [k EXCEPT !.locked = TRUE, !.limit = CapOf[plan],
            !.cap = IF @ < CapOf[plan] THEN @ ELSE CapOf[plan]]

\* A call of the reserve core gets the lock of the account, which it keeps
\* until it returns, and resolves the plan.
Resolve(c) ==
  /\ call[c].kind \in {"reserve", "accept", "renew"}
  /\ \A b \in Callers : ~Holds(b)
  /\ call' = [call EXCEPT ![c] = Resolved(@)]
  /\ UNCHANGED <<now, plan, row, work, op>>

-----------------------------------------------------------------------------
(* Legacy workers *)

\* release_document_allowance; closing a held row raises.
Release(d) ==
  /\ d \in Legacy /\ row[d].status = "reserved" /\ ~row[d].held
  /\ \E reconcile \in BOOLEAN :
       row' = [row EXCEPT ![d] = Closed(d, "released", reconcile)]
  /\ UNCHANGED <<now, plan, work, op, call>>

\* Provider attempts are prepared, sent and recorded while the reservation is
\* live and not held; recording one may leave another that is less far.
Work(d) ==
  /\ d \in Legacy /\ row[d].status = "reserved" /\ ~row[d].held
  /\ \/ work[d] = "none" /\ work' = [work EXCEPT ![d] = "prepared"]
     \/ work[d] = "prepared" /\ work' \in {[work EXCEPT ![d] = k] : k \in {"none", "sent"}}
     \/ work[d] = "sent" /\ work' \in {[work EXCEPT ![d] = k] : k \in {"none", "prepared"}}
  /\ UNCHANGED <<now, plan, row, op, call>>

\* An ambiguous outcome is recorded, of a held reservation too.
Ambiguous(d) ==
  /\ d \in Legacy /\ row[d].status = "reserved" /\ work[d] = "sent"
  /\ row' = [row EXCEPT ![d] = Hold(@)]
  /\ \E k \in {"none", "prepared", "sent"} : work' = [work EXCEPT ![d] = k]
  /\ UNCHANGED <<now, plan, op, call>>

-----------------------------------------------------------------------------
(* Captured operations *)

\* Mutant: the settlement trigger does not check the expiry.
Settleable_Unchecked(o) == op[o].status = "live" /\ row[o].status = "reserved"
Settleable(o) ==
  op[o].status = "live" /\ row[o].status = "reserved" /\ row[o].expires > now

\* Finalisation charges the document and settles through the usage trigger,
\* which reads its clock under the lock of the billing period.
Finish(o) ==
  /\ Unlocked(o) /\ Settleable(o)
  /\ row' = [row EXCEPT ![o].status = "settled"]
  /\ op' = [op EXCEPT ![o].status = "ready"]
  /\ UNCHANGED <<now, plan, work, call>>

\* The operation fails for good, is cancelled, or is found expired.
Close(o) ==
  /\ Unlocked(o) /\ op[o].status = "live"
  /\ op' = [op EXCEPT ![o].status = "closed"]
  /\ row' = [row EXCEPT ![o] = IF @.status = "reserved" THEN Closed(o, "released", FALSE) ELSE @]
  /\ UNCHANGED <<now, plan, work, call>>

-----------------------------------------------------------------------------
Tick == now < MaxTime /\ now' = now + 1 /\ UNCHANGED <<plan, row, work, op, call>>

ChangePlan == plan' \in Plans /\ UNCHANGED <<now, row, work, op, call>>

Next ==
  \/ \E c \in Callers :
       Enter(c) \/ Resolve(c) \/ Reserve(c) \/ Accept(c) \/ Renew(c) \/ Settle(c) \/ Fail(c)
  \/ \E d \in Legacy : Release(d) \/ Work(d) \/ Ambiguous(d)
  \/ \E o \in Captured : Finish(o) \/ Close(o)
  \/ Tick
  \/ ChangePlan

Spec == Init /\ [][Next]_vars

-----------------------------------------------------------------------------
(* Properties *)

\* Every variable has its type.
TypeOK ==
  /\ now \in Time
  /\ plan \in Plans
  /\ row \in [Documents -> Row]
  /\ work \in [Documents -> {"none", "prepared", "sent"}]
  /\ op \in [Captured -> Operation]
  /\ call \in [Callers -> Calls]

\* The documents that period p has paid for or may still have to pay for:
\* charged ones, every legacy reservation that nobody has closed - even one
\* whose time has run out, since its worker may be settling it with an earlier
\* clock - and captured operations that can still finish.
Committed(p) ==
  {d \in Documents :
     /\ row[d].period = p
     /\ \/ row[d].status \in {"settled", "prior"}
        \/ row[d].status = "reserved" /\ d \in Legacy
        \/ /\ row[d].status = "reserved" /\ d \in Captured
           /\ op[d].status = "live" /\ op[d].expires > now}

\* Whenever a period commits to another document, it stays within the cap of a
\* plan that was in force while the admitting call held the lock of the account:
\* neither a call with an old clock or an old plan, nor a swept reservation that
\* settles after all, nor a captured operation that was not counted any more
\* and finishes, lets a user exceed it.  A plan that changes while that call waits
\* for the billing period comes too late for it, and for it alone: whoever is
\* admitted next has not resolved the plan yet.
CommitsWithinCap ==
  \A p \in 0..PeriodOf(MaxTime) :
    \/ Committed(p)' \subseteq Committed(p)
    \/ \E c \in Callers :
         /\ Holds(c) /\ Cardinality(Committed(p)') <= call[c].limit
         /\ \A b \in Callers : ~Holds(b)'
AdmissionWithinPlan == [][CommitsWithinCap]_vars

\* The slot of a captured operation lives exactly as long as the operation:
\* reserved until its own expiry while it is live, settled when it is ready
\* and released when it failed; no sweep of a legacy request ends it.
CapturedSlotFollows ==
  \A o \in Captured :
    /\ op[o].status = "new" => row[o].status = "absent"
    /\ op[o].status = "live" => row[o].status = "reserved" /\ row[o].expires = op[o].expires
    /\ op[o].status = "ready" => row[o].status = "settled"
    /\ op[o].status = "closed" => row[o].status = "released"

\* Provider work that is still open, or whose outcome is unknown, occupies a
\* slot of its period although its reservation has run out.
OpenWorkOccupiesSlot ==
  \A d \in Legacy :
    (work[d] # "none" \/ row[d].held) =>
      d \in Committed(row[d].period) /\ (row[d].held => row[d].expires > now)

-----------------------------------------------------------------------------
Life == INSTANCE OperationLife WITH
          Operations <- Captured, life <- [o \in Captured |-> op[o].status],
          slot <- [o \in Captured |-> row[o].status],
          over <- {o \in Captured : op[o].status # "new" /\ op[o].expires <= now}

\* Among all the calls and sweeps of the user's other requests, every captured
\* operation lives and ends with its slot as CapturedOperation details it.
KeepsLife == Life!Promise
=============================================================================
