---------------------- MODULE DocumentAllowanceProofs ----------------------
(***************************************************************************)
(* Proofs about DocumentAllowance for every set of requests, callers and   *)
(* plans, and every lifetime, period length and bound.                     *)
(***************************************************************************)
EXTENDS DocumentAllowance, FiniteSetTheorems, TLAPS

-----------------------------------------------------------------------------
(* Data *)

\* Periods are numbers, and a deadline set to Never lies after every instant.
LEMMA Instants ==
  /\ \A t \in Time : PeriodOf(t) \in Nat /\ t < Never
  /\ Never \in Nat
  /\ \A t \in Time : t + Ttl \in 0..Never /\ t + Lifetime \in 0..Never
  <1>1. MaxTime \in Nat /\ Ttl \in Nat \ {0} /\ Lifetime \in Nat \ {0} /\ MonthLength \in Nat \ {0}
    BY AllowanceAssumption
  <1>2. ASSUME NEW t \in Nat, NEW m \in Nat \ {0} PROVE t \div m \in Nat
    OBVIOUS
  <1> QED BY <1>1, <1>2 DEF Time, Never, PeriodOf

\* What the trigger stores for a reservation that should be closed.
LEMMA ClosedFields ==
  ASSUME NEW d \in Documents, row[d] \in Row, row[d].status = "reserved",
         NEW status \in {"released", "expired"}, NEW reconcile \in BOOLEAN
  PROVE  LET r == Closed(d, status, reconcile)
         IN  /\ r \in Row /\ r.period = row[d].period /\ r.attempt = row[d].attempt
             /\ r.status \in {"reserved", status}
             /\ r.status = "reserved" => r.expires = Never
             /\ r.status = status => work[d] \notin {"prepared", "sent"} /\ r.held = row[d].held
             /\ r.held => row[d].held \/ r.status = "reserved"
  <1> DEFINE old == row[d]
  <1>1. Never \in 0..Never
    BY Instants
  <1>2. /\ Hold(old) \in Row /\ Hold(old).status = "reserved" /\ Hold(old).period = old.period
        /\ Hold(old).attempt = old.attempt /\ Hold(old).expires = Never /\ Hold(old).held
    BY <1>1 DEF Hold, Row
  <1>3. LET r == [old EXCEPT !.expires = Never]
        IN  /\ r \in Row /\ r.status = "reserved" /\ r.period = old.period
            /\ r.attempt = old.attempt /\ r.expires = Never /\ r.held = old.held
    BY <1>1 DEF Row
  <1>4. LET r == [old EXCEPT !.status = status]
        IN  /\ r \in Row /\ r.status = status /\ r.period = old.period
            /\ r.attempt = old.attempt /\ r.expires = old.expires /\ r.held = old.held
    BY DEF Row
  <1> HIDE DEF old
  <1>5. \/ Closed(d, status, reconcile) = Hold(old)
        \/ Closed(d, status, reconcile) = [old EXCEPT !.expires = Never]
        \/ /\ Closed(d, status, reconcile) = [old EXCEPT !.status = status]
           /\ work[d] \notin {"prepared", "sent"}
    BY DEF Closed, old
  <1> QED BY <1>2, <1>3, <1>4, <1>5 DEF old

-----------------------------------------------------------------------------
(* The inductive invariant *)

\* A held row is a legacy reservation that never expires, and provider work is
\* open only under a legacy reservation.
SlotsOK ==
  \A d \in Documents :
    /\ row[d].held => d \in Legacy /\ row[d].status = "reserved" /\ row[d].expires = Never
    /\ work[d] # "none" => d \in Legacy /\ row[d].status = "reserved"

\* One call at a time holds the lock of the account, and goes by no larger cap
\* than that of the plan it found in force.
LocksOK ==
  \A c \in Callers : Holds(c) =>
    call[c].cap <= call[c].limit /\ \A b \in Callers \ {c} : ~Holds(b)

\* A waiting call read its clock in the past; one that writes an operation
\* holds that operation's lock, so the operation is as the call found it.
CallsOK ==
  /\ LocksOK
  /\ \A c \in Callers : call[c] # NoCall =>
    /\ call[c].clock <= now
    /\ call[c].kind \in {"reserve", "settle"} <=> call[c].doc \in Legacy
    /\ call[c].kind = "accept" => op[call[c].doc].status = "new"
    /\ call[c].kind = "renew" => op[call[c].doc].status = "live"
    /\ call[c].doc \in Captured =>
         \A b \in Callers \ {c} : call[b] # NoCall => call[b].doc # call[c].doc

AInv == TypeOK /\ SlotsOK /\ CallsOK /\ CapturedSlotFollows

\* A row that may replace the one of request d: the same slot, or closed when
\* no provider work is open under it.
Successor(d, r) ==
  /\ r \in Row /\ r.period = row[d].period
  /\ r.status = row[d].status \/ (row[d].status = "reserved" /\ r.status \in {"released", "expired"})
  /\ r.held => r.status = "reserved" /\ r.expires = Never
  /\ work[d] # "none" => r.status = "reserved"

\* The sweep replaces rows by successors, leaves captured ones alone, and the
\* legacy reservations it leaves in its period run beyond its clock.
LEMMA SweptRows ==
  ASSUME AInv, NEW clock \in Time
  PROVE  /\ Swept(clock) \in [Documents -> Row]
         /\ \A d \in Documents :
              LET r == Swept(clock)[d]
              IN  /\ Successor(d, r) /\ r.attempt = row[d].attempt
                  /\ d \in Captured => r = row[d]
                  /\ d \in Legacy /\ r.status = "reserved" /\ r.period = PeriodOf(clock)
                       => r.expires > clock
                  /\ row[d].held => r.held
  <1> SUFFICES ASSUME NEW d \in Documents
               PROVE  LET r == Swept(clock)[d]
                      IN  /\ r \in Row /\ Successor(d, r) /\ r.attempt = row[d].attempt
                          /\ d \in Captured => r = row[d]
                          /\ d \in Legacy /\ r.status = "reserved" /\ r.period = PeriodOf(clock)
                               => r.expires > clock
                          /\ row[d].held => r.held
    BY DEF Swept
  <1>1. row[d] \in Row /\ work[d] \in {"none", "prepared", "sent"}
    BY DEF AInv, TypeOK
  <1>2. clock < Never /\ clock \in Nat /\ Never \in Nat
    BY Instants, AllowanceAssumption DEF Time
  <1>3. CASE Lapsed(d, clock)
    <2> DEFINE r == Closed(d, "expired", FALSE)
    <2>1. Swept(clock)[d] = r
      BY <1>3 DEF Swept
    <2>2. row[d].status = "reserved" /\ d \in Legacy /\ ~row[d].held
      BY <1>1, <1>2, <1>3 DEF Lapsed, AInv, SlotsOK, Row
    <2>3. /\ r \in Row /\ r.period = row[d].period /\ r.attempt = row[d].attempt
          /\ r.status \in {"reserved", "expired"}
          /\ r.status = "reserved" => r.expires = Never
          /\ r.status = "expired" => work[d] \notin {"prepared", "sent"} /\ r.held = row[d].held
      BY <1>1, <2>2, ClosedFields
    <2> HIDE DEF r
    <2>4. Successor(d, r)
      BY <1>1, <2>2, <2>3 DEF Successor
    <2> QED BY <1>2, <2>1, <2>2, <2>3, <2>4, AllowanceAssumption
  <1>4. CASE ~Lapsed(d, clock)
    <2>1. Swept(clock)[d] = row[d]
      BY <1>4 DEF Swept
    <2>2. Successor(d, row[d])
      BY <1>1 DEF Successor, AInv, SlotsOK
    <2>3. d \in Legacy /\ row[d].status = "reserved" /\ row[d].period = PeriodOf(clock)
            => row[d].expires > clock
      BY <1>1, <1>2, <1>4, Instants DEF Lapsed, Row
    <2> QED BY <1>1, <2>1, <2>2, <2>3
  <1> QED BY <1>3, <1>4

-----------------------------------------------------------------------------
(* Steps that admit nothing *)

\* Calls that return or keep waiting stay consistent while their operations
\* are not touched by anyone else.
LEMMA CallsKept ==
  ASSUME AInv, now' \in Nat, now' >= now,
         \A c \in Callers : call'[c] = call[c] \/ call'[c] = NoCall,
         \A o \in Captured :
           op'[o].status = op[o].status \/ \A c \in Callers : call'[c] # NoCall => call[c].doc # o
  PROVE  CallsOK'
  <1> SUFFICES ASSUME NEW c \in Callers, call'[c] # NoCall
               PROVE  /\ call'[c].clock <= now'
                      /\ call'[c].kind \in {"reserve", "settle"} <=> call'[c].doc \in Legacy
                      /\ call'[c].kind = "accept" => op'[call'[c].doc].status = "new"
                      /\ call'[c].kind = "renew" => op'[call'[c].doc].status = "live"
                      /\ call'[c].doc \in Captured =>
                           \A b \in Callers \ {c} : call'[b] # NoCall => call'[b].doc # call'[c].doc
    <2>1. LocksOK'
      BY DEF AInv, CallsOK, LocksOK, Holds
    <2> QED BY <2>1 DEF CallsOK
  <1>1. call'[c] = call[c] /\ call[c] # NoCall
    OBVIOUS
  <1>2. call[c].clock \in Nat /\ now \in Nat /\ call[c].doc \in Documents
    <2>1. call[c] \in Calls
      BY DEF AInv, TypeOK
    <2> QED BY <1>1, <2>1, AllowanceAssumption DEF Calls, Time, AInv, TypeOK
  <1>3. /\ call[c].clock <= now
        /\ call[c].kind \in {"reserve", "settle"} <=> call[c].doc \in Legacy
        /\ call[c].kind = "accept" => op[call[c].doc].status = "new"
        /\ call[c].kind = "renew" => op[call[c].doc].status = "live"
        /\ call[c].doc \in Captured =>
             \A b \in Callers \ {c} : call[b] # NoCall => call[b].doc # call[c].doc
    BY <1>1 DEF AInv, CallsOK
  <1>4. call[c].doc \in Captured => op'[call[c].doc].status = op[call[c].doc].status
    BY <1>1
  <1>5. call[c].kind \in {"accept", "renew"} => call[c].doc \in Captured
    BY <1>2, <1>3 DEF Documents
  <1> QED BY <1>1, <1>2, <1>3, <1>4, <1>5

\* A step that only replaces legacy rows by successors keeps the invariant.
LEMMA LegacyStep ==
  ASSUME AInv, row' \in [Documents -> Row],
         \A d \in Documents : Successor(d, row'[d]),
         \A o \in Captured : row'[o] = row[o],
         work' \in [Documents -> {"none", "prepared", "sent"}],
         \A d \in Documents : work'[d] # "none" => d \in Legacy /\ row'[d].status = "reserved",
         \A d \in Documents : row'[d].held => d \in Legacy,
         UNCHANGED <<now, plan, op>>, CallsOK', call' \in [Callers -> Calls]
  PROVE  AInv'
  <1>1. TypeOK'
    BY DEF AInv, TypeOK
  <1>2. SlotsOK'
    BY DEF Successor, SlotsOK
  <1>3. CapturedSlotFollows'
    BY DEF AInv, CapturedSlotFollows
  <1> QED BY <1>1, <1>2, <1>3 DEF AInv

\* A step that keeps or closes rows, or settles what its period had committed
\* to, commits no period to more.
LEMMA KeepsCommitted ==
  ASSUME AInv, now' \in Nat, now' >= now,
         \A d \in Documents :
           /\ row'[d].period = row[d].period
           /\ \/ row'[d].status = row[d].status
              \/ row'[d].status \in {"released", "expired"}
              \/ row'[d].status = "settled" /\ d \in Committed(row[d].period),
         \A o \in Captured : op'[o] = op[o] \/ op'[o].status # "live"
  PROVE  CommitsWithinCap
  <1> SUFFICES ASSUME NEW p, NEW d \in Committed(p)'
               PROVE  d \in Committed(p)
    BY DEF CommitsWithinCap
  <1>1. /\ d \in Documents /\ row'[d].period = p
        /\ \/ row'[d].status \in {"settled", "prior"}
           \/ row'[d].status = "reserved" /\ d \in Legacy
           \/ /\ row'[d].status = "reserved" /\ d \in Captured
              /\ op'[d].status = "live" /\ op'[d].expires > now'
    BY DEF Committed
  <1>2. CASE row'[d].status = row[d].status
    <2>1. d \in Captured /\ op'[d].status = "live" => op'[d] = op[d] /\ op[d].expires \in 0..Never
      BY DEF AInv, TypeOK, Operation
    <2>2. d \in Captured /\ op'[d].status = "live" /\ op'[d].expires > now' => op[d].expires > now
      BY <2>1, Instants, AllowanceAssumption DEF AInv, TypeOK, Time
    <2> QED BY <1>1, <1>2, <2>1, <2>2 DEF Committed
  <1>3. CASE row'[d].status = "settled" /\ d \in Committed(row[d].period)
    BY <1>1, <1>3
  <1> QED BY <1>1, <1>2, <1>3

-----------------------------------------------------------------------------
(* Admission *)

\* An admission from the swept rows inserts one reservation and stays within
\* the cap: what the period commits to was counted, or is the new document.
LEMMA AdmitStep ==
  ASSUME AInv, NEW c \in Callers, call[c] # NoCall, NEW rows \in [Documents -> Row],
         NEW lifetime \in {Ttl, Lifetime},
         \A d \in Documents \ {call[c].doc} : rows[d] = Swept(call[c].clock)[d],
         rows[call[c].doc].status \notin {"settled", "prior"},
         Admit(rows, call[c].doc, call[c], lifetime), call[c].locked, Return(c),
         now' = now,
         \A o \in Captured \ {call[c].doc} : op'[o] = op[o]
  PROVE  /\ row' \in [Documents -> Row]
         /\ \A d \in Documents \ {call[c].doc} : row'[d] = Swept(call[c].clock)[d]
         /\ LET r == row'[call[c].doc]
            IN  r.status = "reserved" /\ ~r.held /\ r.expires = call[c].clock + lifetime
         /\ CommitsWithinCap
  <1> DEFINE k == call[c]
             q == k.doc
             new == [status |-> "reserved", period |-> PeriodOf(k.clock),
                     expires |-> k.clock + lifetime, held |-> FALSE, attempt |-> rows[q].attempt + 1]
  <1>1. k \in Calls /\ k # NoCall
    BY DEF AInv, TypeOK
  <1>2. q \in Documents /\ k.clock \in Time /\ k.cap \in Nat /\ k.clock <= now
    BY <1>1 DEF Calls, AInv, CallsOK
  <1>3. row' = [rows EXCEPT ![q] = new] /\ rows[q].attempt < MaxAttempt /\ Admissible(rows, k)
    BY DEF Admit, Inserted
  <1>4. new \in Row
    <2>1. PeriodOf(k.clock) \in Nat /\ k.clock + lifetime \in 0..Never
      BY <1>2, Instants
    <2>2. rows[q].attempt + 1 \in 0..MaxAttempt
      BY <1>2, <1>3, AllowanceAssumption DEF Row
    <2> QED BY <2>1, <2>2 DEF Row
  <1>5. /\ row' \in [Documents -> Row] /\ row'[q] = new
        /\ \A d \in Documents \ {q} : row'[d] = rows[d]
    BY <1>2, <1>3, <1>4
  <1>6. new.status = "reserved" /\ new.period = PeriodOf(k.clock) /\ ~new.held
        /\ new.expires = k.clock + lifetime
    OBVIOUS
  <1> HIDE DEF new
  <1>7. \A d \in Documents \ {q} :
          /\ rows[d] = Swept(k.clock)[d] /\ Successor(d, rows[d])
          /\ d \in Captured => rows[d] = row[d]
          /\ d \in Legacy /\ rows[d].status = "reserved" /\ rows[d].period = PeriodOf(k.clock)
               => rows[d].expires > k.clock
    BY <1>2, SweptRows
  <1>8. ASSUME NEW p \in 0..PeriodOf(MaxTime), p # PeriodOf(k.clock)
        PROVE  Committed(p)' \subseteq Committed(p)
    <2> SUFFICES ASSUME NEW d \in Committed(p)' PROVE d \in Committed(p)
      OBVIOUS
    <2>1. /\ d \in Documents \ {q} /\ rows[d].period = p
          /\ \/ rows[d].status \in {"settled", "prior"}
             \/ rows[d].status = "reserved" /\ d \in Legacy
             \/ /\ rows[d].status = "reserved" /\ d \in Captured
                /\ op[d].status = "live" /\ op[d].expires > now
      BY <1>5, <1>6, <1>8 DEF Committed
    <2>2. row[d].period = p /\ row[d].status = rows[d].status
      BY <1>7, <2>1 DEF Successor
    <2> QED BY <2>1, <2>2 DEF Committed
  <1>9. ASSUME NEW p, p = PeriodOf(k.clock)
        PROVE  Committed(p)' \subseteq Counted(rows, k.clock) \cup {q}
    <2> SUFFICES ASSUME NEW d \in Committed(p)', d # q
                 PROVE  d \in Counted(rows, k.clock)
      OBVIOUS
    <2>1. /\ d \in Documents \ {q} /\ rows[d].period = PeriodOf(k.clock)
          /\ \/ rows[d].status \in {"settled", "prior"}
             \/ rows[d].status = "reserved" /\ d \in Legacy
             \/ /\ rows[d].status = "reserved" /\ d \in Captured
                /\ op[d].status = "live" /\ op[d].expires > now
      BY <1>5, <1>9 DEF Committed
    <2>2. d \in Captured => op[d].expires \in Nat
      BY Instants DEF AInv, TypeOK, Operation
    <2>3. k.clock \in Nat /\ now \in Nat
      BY <1>2, AllowanceAssumption DEF Time, AInv, TypeOK
    <2>4. d \in Captured /\ op[d].expires > now => op[d].expires > k.clock
      BY <1>2, <2>2, <2>3
    <2> QED BY <1>7, <1>9, <2>1, <2>4 DEF Counted
  <1>10. ASSUME NEW p, p = PeriodOf(k.clock)
         PROVE  Cardinality(Committed(p)') <= k.limit
    <2> DEFINE C == Counted(rows, k.clock)
    <2>1. IsFiniteSet(C)
      BY AllowanceAssumption, FS_Subset DEF Counted
    <2>2. Cardinality(C) \in Nat
      BY <2>1, FS_CardinalityType
    <2>3. /\ IsFiniteSet(C \cup {q})
          /\ Cardinality(C \cup {q}) = IF q \in C THEN Cardinality(C) ELSE Cardinality(C) + 1
      BY <2>1, FS_AddElement
    <2>4. Cardinality(C) < k.cap
      BY <1>3 DEF Admissible
    <2>5. k.cap \in Nat /\ k.limit \in Nat /\ k.cap <= k.limit
      BY <1>1 DEF Calls, AInv, CallsOK, LocksOK, Holds
    <2> HIDE DEF C
    <2>6. Cardinality(C \cup {q}) \in Nat /\ Cardinality(C \cup {q}) <= k.limit
      BY <2>2, <2>3, <2>4, <2>5
    <2>7. /\ Cardinality(Committed(p)') <= Cardinality(C \cup {q})
          /\ Cardinality(Committed(p)') \in Nat
      <3>1. Committed(p)' \subseteq C \cup {q}
        BY <1>9, <1>10 DEF C
      <3>2. IsFiniteSet(Committed(p)')
        BY <2>3, <3>1, FS_Subset
      <3> QED BY <2>3, <3>1, <3>2, FS_Subset, FS_CardinalityType
    <2> QED BY <2>5, <2>6, <2>7
  <1>11. Holds(c) /\ \A b \in Callers : ~Holds(b)'
    BY DEF Return, AInv, TypeOK, CallsOK, LocksOK, Holds
  <1>12. CommitsWithinCap
    <2> SUFFICES ASSUME NEW p \in 0..PeriodOf(MaxTime)
                 PROVE  \/ Committed(p)' \subseteq Committed(p)
                        \/ Holds(c) /\ Cardinality(Committed(p)') <= call[c].limit
                              /\ \A b \in Callers : ~Holds(b)'
      BY DEF CommitsWithinCap
    <2> QED BY <1>8, <1>10, <1>11
  <1> QED BY <1>5, <1>6, <1>7, <1>12

-----------------------------------------------------------------------------
(* The database calls *)

\* A call that returns gives up its lock; the operation it wrote is nobody
\* else's.
LEMMA ReturnCalls ==
  ASSUME AInv, NEW c \in Callers, Return(c), call[c] # NoCall,
         \A o \in Captured \ {call[c].doc} : op'[o] = op[o]
  PROVE  CallsOK' /\ call' \in [Callers -> Calls] /\ now' = now /\ now \in Nat /\ UNCHANGED <<plan, work>>
  <1>1. /\ call' \in [Callers -> Calls] /\ call'[c] = NoCall
        /\ \A b \in Callers \ {c} : call'[b] = call[b]
    BY DEF Return, AInv, TypeOK, Calls
  <1>2. now' = now /\ now \in Nat /\ UNCHANGED <<plan, work>>
    BY AllowanceAssumption DEF Return, AInv, TypeOK, Time
  <1>3. \A o \in Captured :
          op'[o].status = op[o].status \/ \A b \in Callers : call'[b] # NoCall => call[b].doc # o
    <2> SUFFICES ASSUME NEW o \in Captured, o = call[c].doc, NEW b \in Callers, call'[b] # NoCall
                 PROVE  call[b].doc # o
      OBVIOUS
    <2>1. b # c /\ call[b] # NoCall
      BY <1>1
    <2> QED BY <2>1 DEF AInv, CallsOK
  <1>4. CallsOK'
    BY <1>1, <1>2, <1>3, CallsKept
  <1> QED BY <1>1, <1>2, <1>4

\* A legacy call that puts successors in place of legacy rows.
LEMMA LegacyCall ==
  ASSUME AInv, NEW c \in Callers, Return(c), call[c] # NoCall, UNCHANGED op,
         row' \in [Documents -> Row],
         \A d \in Documents : Successor(d, row'[d]) /\ (d \in Captured => row'[d] = row[d])
  PROVE  AInv' /\ CommitsWithinCap
  <1>1. CallsOK' /\ call' \in [Callers -> Calls] /\ now' = now /\ now \in Nat /\ UNCHANGED <<plan, work>>
    BY ReturnCalls
  <1>2. \A d \in Documents : d \in Legacy \/ d \in Captured
    BY DEF Documents
  <1>3. \A d \in Documents : row'[d].held => d \in Legacy
    BY <1>2, AllowanceAssumption DEF AInv, SlotsOK
  <1>4. work' \in [Documents -> {"none", "prepared", "sent"}]
    BY <1>1 DEF AInv, TypeOK
  <1>5. \A d \in Documents : work'[d] # "none" => d \in Legacy /\ row'[d].status = "reserved"
    BY <1>1 DEF Successor, AInv, SlotsOK
  <1>6. AInv'
    <2>1. \A d \in Documents : Successor(d, row'[d])
      OBVIOUS
    <2>2. \A o \in Captured : row'[o] = row[o]
      BY DEF Documents
    <2>3. UNCHANGED <<now, plan, op>>
      BY <1>1
    <2> QED BY <1>1, <1>3, <1>4, <1>5, <2>1, <2>2, <2>3, LegacyStep, ZenonT(60)
  <1>7. CommitsWithinCap
    BY <1>1, KeepsCommitted DEF Successor
  <1> QED BY <1>6, <1>7

\* An admission of a legacy request.
LEMMA LegacyAdmission ==
  ASSUME AInv, NEW c \in Callers, Return(c), call[c] # NoCall, UNCHANGED op,
         call[c].doc \in Legacy, NEW rows \in [Documents -> Row],
         \A d \in Documents \ {call[c].doc} : rows[d] = Swept(call[c].clock)[d],
         rows[call[c].doc].status \notin {"settled", "prior"},
         Admit(rows, call[c].doc, call[c], Ttl), call[c].locked
  PROVE  AInv' /\ CommitsWithinCap
  <1> DEFINE q == call[c].doc
  <1>1. CallsOK' /\ call' \in [Callers -> Calls] /\ now' = now /\ UNCHANGED <<plan, work>>
    BY ReturnCalls
  <1>2. /\ row' \in [Documents -> Row]
        /\ \A d \in Documents \ {q} : row'[d] = Swept(call[c].clock)[d]
        /\ row'[q].status = "reserved" /\ ~row'[q].held
        /\ CommitsWithinCap
    BY <1>1, AdmitStep
  <1>3. call[c].clock \in Time
    BY DEF AInv, TypeOK, Calls
  <1>4. \A d \in Documents \ {q} : Successor(d, row'[d]) /\ (d \in Captured => row'[d] = row[d])
    BY <1>2, <1>3, SweptRows
  <1>5. TypeOK'
    BY <1>1, <1>2 DEF AInv, TypeOK
  <1>6. SlotsOK'
    <2> SUFFICES ASSUME NEW d \in Documents
                 PROVE  /\ row'[d].held => d \in Legacy /\ row'[d].status = "reserved" /\ row'[d].expires = Never
                        /\ work'[d] # "none" => d \in Legacy /\ row'[d].status = "reserved"
      BY DEF SlotsOK
    <2>1. CASE d = q
      BY <1>2, <2>1
    <2>2. CASE d # q
      <3>1. row'[d].held => d \in Legacy
        BY <1>4, <2>2 DEF Documents, AInv, SlotsOK
      <3> QED BY <1>1, <1>4, <2>2, <3>1 DEF Successor, AInv, SlotsOK
    <2> QED BY <2>1, <2>2
  <1>7. CapturedSlotFollows'
    <2>1. \A o \in Captured : o # q /\ o \in Documents
      BY AllowanceAssumption DEF Documents
    <2>2. \A o \in Captured : row'[o] = row[o]
      BY <1>4, <2>1
    <2> QED BY <2>2 DEF AInv, CapturedSlotFollows
  <1> QED BY <1>1, <1>2, <1>5, <1>6, <1>7 DEF AInv

\* A reserve call of a legacy request: replay, take over, hold or admit.
LEMMA ReserveStep ==
  ASSUME AInv, NEW c \in Callers, Reserve(c)
  PROVE  AInv' /\ CommitsWithinCap
  <1> DEFINE k == call[c]
             q == k.doc
             rows == Swept(k.clock)
             expired == Closed(q, "expired", FALSE)
  <1>1. k # NoCall /\ k \in Calls /\ k.locked /\ q \in Legacy /\ Return(c) /\ UNCHANGED op
    BY DEF Reserve, AInv, TypeOK, CallsOK, NoCall
  <1>2. q \in Documents /\ k.clock \in Time
    BY <1>1 DEF Calls
  <1>3. /\ rows \in [Documents -> Row]
        /\ \A d \in Documents : Successor(d, rows[d]) /\ (d \in Captured => rows[d] = row[d])
    BY <1>2, SweptRows
  <1> HIDE DEF rows
  <1>4. CASE row' = rows
    BY <1>1, <1>3, <1>4, LegacyCall
  <1>5. CASE rows[q].status \in {"absent", "released", "expired"} /\ Admit(rows, q, k, Ttl)
    BY <1>1, <1>3, <1>5, LegacyAdmission DEF rows
  <1>6. CASE rows[q].status = "reserved" /\ Replay(rows, q)
    <2>0. rows[q] \in Row /\ now + Ttl \in 0..Never /\ Never \in 0..Never
      BY <1>2, <1>3, Instants DEF AInv, TypeOK
    <2>1. ASSUME ~rows[q].held, NEW r \in {Hold(rows[q]), Reclaimed(rows[q])}, row' = [rows EXCEPT ![q] = r]
          PROVE  AInv' /\ CommitsWithinCap
      <3>1. /\ Hold(rows[q]) \in Row /\ Hold(rows[q]).status = rows[q].status
            /\ Hold(rows[q]).period = rows[q].period /\ Hold(rows[q]).expires = Never
        BY <2>0 DEF Hold, Row
      <3>2. /\ Reclaimed(rows[q]) \in Row /\ Reclaimed(rows[q]).status = rows[q].status
            /\ Reclaimed(rows[q]).period = rows[q].period /\ ~Reclaimed(rows[q]).held
        BY <2>0, <2>1 DEF Reclaimed, Row
      <3>3. r \in Row /\ r.status = "reserved" /\ r.period = rows[q].period /\ (r.held => r.expires = Never)
        BY <1>6, <2>1, <3>1, <3>2
      <3>4. Successor(q, r)
        BY <1>2, <1>3, <1>6, <3>3 DEF Successor
      <3>5. /\ row' \in [Documents -> Row]
            /\ \A d \in Documents : row'[d] = IF d = q THEN r ELSE rows[d]
        BY <1>2, <1>3, <2>1, <3>3
      <3>6. q \notin Captured
        BY <1>1, AllowanceAssumption
      <3> QED BY <1>1, <1>3, <3>4, <3>5, <3>6, LegacyCall
    <2> QED BY <1>4, <1>6, <2>1 DEF Replay
  <1>7. CASE /\ rows[q].status = "reserved" /\ expired.status = "expired"
             /\ Admit([rows EXCEPT ![q] = expired], q, k, Ttl)
    <2>1. row[q].status = "reserved" /\ row[q] \in Row
      BY <1>2, <1>3, <1>7 DEF Successor, AInv, TypeOK
    <2>2. expired \in Row
      BY <1>2, <2>1, ClosedFields
    <2> HIDE DEF expired
    <2>3. /\ [rows EXCEPT ![q] = expired] \in [Documents -> Row]
          /\ [rows EXCEPT ![q] = expired][q] = expired
          /\ \A d \in Documents \ {q} : [rows EXCEPT ![q] = expired][d] = Swept(k.clock)[d]
      BY <1>2, <1>3, <2>2 DEF rows
    <2>4. expired.status \notin {"settled", "prior"}
      BY <1>7
    <2> QED BY <1>1, <1>7, <2>3, <2>4, LegacyAdmission, ZenonT(60)
  <1> QED BY <1>4, <1>5, <1>6, <1>7 DEF Reserve, ReserveLegacy, rows

\* What a captured operation's row says of it.
LEMMA CapturedRow ==
  ASSUME AInv, NEW o \in Captured
  PROVE  /\ o \in Documents /\ o \notin Legacy
         /\ row[o] \in Row /\ ~row[o].held /\ work[o] = "none"
         /\ op[o].status = "live" => row[o].status = "reserved" /\ row[o].expires = op[o].expires
         /\ op[o].status = "new" => row[o].status = "absent"
  BY AllowanceAssumption DEF Documents, AInv, TypeOK, SlotsOK, CapturedSlotFollows, Row

\* A step that, besides replacing legacy rows by successors, changes the row
\* and the status of one captured operation together.
LEMMA CapturedStep ==
  ASSUME AInv, NEW o \in Captured, row' \in [Documents -> Row],
         \A d \in Documents \ {o} : Successor(d, row'[d]) /\ (d \in Captured => row'[d] = row[d]),
         op' \in [Captured -> Operation], \A b \in Captured \ {o} : op'[b] = op[b],
         op'[o].status # "new", ~row'[o].held,
         op'[o].status = "live" => row'[o].status = "reserved" /\ row'[o].expires = op'[o].expires,
         op'[o].status = "ready" => row'[o].status = "settled",
         op'[o].status = "closed" => row'[o].status = "released",
         UNCHANGED <<now, plan, work>>, CallsOK', call' \in [Callers -> Calls]
  PROVE  AInv'
  <1>1. TypeOK'
    BY DEF AInv, TypeOK
  <1>2. SlotsOK'
    <2> SUFFICES ASSUME NEW d \in Documents
                 PROVE  /\ row'[d].held => d \in Legacy /\ row'[d].status = "reserved" /\ row'[d].expires = Never
                        /\ work[d] # "none" => d \in Legacy /\ row'[d].status = "reserved"
      BY DEF SlotsOK
    <2>1. CASE d = o
      BY <2>1, CapturedRow
    <2>2. CASE d # o
      <3>1. Successor(d, row'[d]) /\ (d \in Captured => ~row'[d].held)
        BY <2>2, CapturedRow
      <3>2. d \in Legacy \/ d \in Captured
        BY DEF Documents
      <3> QED BY <3>1, <3>2 DEF Successor, AInv, SlotsOK
    <2> QED BY <2>1, <2>2
  <1>3. CapturedSlotFollows'
    <2> SUFFICES ASSUME NEW b \in Captured
                 PROVE  /\ op'[b].status = "new" => row'[b].status = "absent"
                        /\ op'[b].status = "live" => row'[b].status = "reserved" /\ row'[b].expires = op'[b].expires
                        /\ op'[b].status = "ready" => row'[b].status = "settled"
                        /\ op'[b].status = "closed" => row'[b].status = "released"
      BY DEF CapturedSlotFollows
    <2>1. CASE b = o
      BY <2>1
    <2>2. CASE b # o
      <3>1. row'[b] = row[b] /\ op'[b] = op[b]
        BY <2>2 DEF Documents
      <3> QED BY <3>1 DEF AInv, CapturedSlotFollows
    <2> QED BY <2>1, <2>2
  <1> QED BY <1>1, <1>2, <1>3 DEF AInv

\* The accept trigger admits the first row of an operation.
LEMMA AcceptStep ==
  ASSUME AInv, NEW c \in Callers, Accept(c)
  PROVE  AInv' /\ CommitsWithinCap
  <1> DEFINE k == call[c]
             o == k.doc
             rows == Swept(k.clock)
  <1>1. k # NoCall /\ k \in Calls /\ k.locked /\ Return(c)
    BY DEF Accept, AInv, TypeOK, NoCall
  <1>2. o \in Captured /\ o \in Documents /\ k.clock \in Time /\ op[o].status = "new"
    BY <1>1 DEF Calls, Documents, AInv, CallsOK, Accept
  <1>3. /\ rows \in [Documents -> Row]
        /\ \A d \in Documents : Successor(d, rows[d]) /\ (d \in Captured => rows[d] = row[d])
    BY <1>2, SweptRows
  <1>4. rows[o].status = "absent"
    BY <1>2, <1>3, CapturedRow
  <1>5. op' = [op EXCEPT ![o] = [status |-> "live", expires |-> k.clock + Lifetime]] /\ Admit(rows, o, k, Lifetime)
    BY DEF Accept
  <1>6. k.clock + Lifetime \in 0..Never
    BY <1>2, Instants
  <1>7. /\ op' \in [Captured -> Operation] /\ \A b \in Captured \ {o} : op'[b] = op[b]
        /\ op'[o].status = "live" /\ op'[o].expires = k.clock + Lifetime
    BY <1>2, <1>5, <1>6 DEF AInv, TypeOK, Operation
  <1>8. CallsOK' /\ call' \in [Callers -> Calls] /\ now' = now /\ UNCHANGED <<plan, work>>
    BY <1>1, <1>7, ReturnCalls
  <1>9. /\ row' \in [Documents -> Row]
        /\ \A d \in Documents \ {o} : row'[d] = rows[d]
        /\ row'[o].status = "reserved" /\ ~row'[o].held /\ row'[o].expires = k.clock + Lifetime
        /\ CommitsWithinCap
    <2>1. \A d \in Documents \ {o} : rows[d] = Swept(k.clock)[d]
      OBVIOUS
    <2>2. rows[o].status \notin {"settled", "prior"}
      BY <1>4
    <2>3. now' = now
      BY <1>8
    <2> HIDE DEF rows
    <2> QED BY <1>1, <1>3, <1>5, <1>7, <2>1, <2>2, <2>3, AdmitStep, ZenonT(60)
  <1>10. \A d \in Documents \ {o} : Successor(d, row'[d]) /\ (d \in Captured => row'[d] = row[d])
    BY <1>3, <1>9
  <1>11. op'[o].status # "new" /\ op'[o].status # "ready" /\ op'[o].status # "closed"
    BY <1>7
  <1>12. row'[o].expires = op'[o].expires /\ row'[o].status = "reserved" /\ ~row'[o].held
    BY <1>7, <1>9
  <1>13. UNCHANGED <<now, plan, work>>
    BY <1>8
  <1>14. AInv'
    BY <1>2, <1>7, <1>8, <1>9, <1>10, <1>11, <1>12, <1>13, CapturedStep, ZenonT(60)
  <1> QED BY <1>9, <1>14

\* Renewing a live operation writes the expiry its row already has.
LEMMA RenewStep ==
  ASSUME AInv, NEW c \in Callers, Renew(c)
  PROVE  AInv' /\ CommitsWithinCap
  <1> DEFINE k == call[c]
             o == k.doc
             rows == Swept(k.clock)
  <1>1. k # NoCall /\ k \in Calls /\ Return(c) /\ UNCHANGED op
    BY DEF Renew, AInv, TypeOK, NoCall
  <1>2. o \in Captured /\ k.clock \in Time /\ op[o].status = "live"
    BY <1>1 DEF Calls, Documents, AInv, CallsOK, Renew
  <1>3. /\ rows \in [Documents -> Row]
        /\ \A d \in Documents : Successor(d, rows[d]) /\ (d \in Captured => rows[d] = row[d])
    BY <1>2, SweptRows
  <1>4. o \in Documents /\ rows[o] = row[o] /\ row[o].expires = op[o].expires /\ row[o] \in Row
    BY <1>2, <1>3, CapturedRow
  <1>5. row' = [rows EXCEPT ![o].expires = op[o].expires]
    BY DEF Renew
  <1> HIDE DEF rows
  <1>6. row' = rows
    <2>1. [rows[o] EXCEPT !.expires = op[o].expires] = rows[o]
      BY <1>4 DEF Row
    <2> QED BY <1>3, <1>5, <2>1
  <1> QED BY <1>1, <1>3, <1>6, LegacyCall

\* Settling with the clock of the call charges what the period committed to.
LEMMA SettleStep ==
  ASSUME AInv, NEW c \in Callers, Settle(c)
  PROVE  AInv' /\ CommitsWithinCap
  <1> DEFINE q == call[c].doc
  <1>1. call[c] # NoCall /\ call[c] \in Calls /\ Return(c) /\ UNCHANGED op
    BY DEF Settle, AInv, TypeOK, NoCall
  <1>2. q \in Legacy /\ q \in Documents /\ q \notin Captured
    BY <1>1, AllowanceAssumption DEF AInv, CallsOK, Settle, Documents
  <1>3. CallsOK' /\ call' \in [Callers -> Calls] /\ now' = now /\ now \in Nat /\ UNCHANGED <<plan, work>>
    BY <1>1, ReturnCalls
  <1>4. row[q].status = "reserved" /\ work[q] = "none" /\ ~row[q].held /\ row[q] \in Row
    BY <1>2 DEF Settle, AInv, TypeOK
  <1>5. /\ row' \in [Documents -> Row]
        /\ \A d \in Documents \ {q} : row'[d] = row[d]
        /\ row'[q].status = "settled" /\ row'[q].period = row[q].period /\ ~row'[q].held
    BY <1>2, <1>4 DEF Settle, AInv, TypeOK, Row
  <1>6. TypeOK'
    BY <1>1, <1>3, <1>5 DEF AInv, TypeOK
  <1>7. SlotsOK'
    BY <1>3, <1>4, <1>5 DEF AInv, SlotsOK
  <1>8. CapturedSlotFollows'
    BY <1>1, <1>2, <1>5 DEF AInv, CapturedSlotFollows, Documents
  <1>9. CommitsWithinCap
    <2>1. q \in Committed(row[q].period)
      BY <1>2, <1>4 DEF Committed
    <2> QED BY <1>1, <1>3, <1>5, <2>1, KeepsCommitted
  <1> QED BY <1>3, <1>6, <1>7, <1>8, <1>9 DEF AInv

\* A call that raises changes nothing.
LEMMA FailStep ==
  ASSUME AInv, NEW c \in Callers, Fail(c)
  PROVE  AInv' /\ CommitsWithinCap
  <1>1. call[c] # NoCall /\ Return(c) /\ UNCHANGED <<row, op>>
    BY DEF Fail, Raise, NoCall
  <1>2. row' \in [Documents -> Row] /\ \A d \in Documents : Successor(d, row'[d])
    BY <1>1 DEF AInv, TypeOK, SlotsOK, Successor
  <1> QED BY <1>1, <1>2, LegacyCall

\* A call that enters takes the lock of the operation it writes.
LEMMA EnterStep ==
  ASSUME AInv, NEW c \in Callers, Enter(c)
  PROVE  AInv' /\ CommitsWithinCap
  <1>1. PICK kind \in {"reserve", "accept", "renew", "settle"}, d \in Documents,
             cap \in {0} \cup {CapOf[p] : p \in Plans} :
          /\ \/ kind = "reserve" /\ d \in Legacy
             \/ kind = "settle" /\ d \in Legacy /\ row[d].status = "reserved"
             \/ kind = "accept" /\ d \in Captured /\ op[d].status = "new"
             \/ kind = "renew" /\ d \in Captured /\ op[d].status = "live"
          /\ d \in Captured => Unlocked(d)
          /\ call' = [call EXCEPT ![c] =
               [kind |-> kind, doc |-> d, clock |-> now, cap |-> cap, limit |-> 0, locked |-> FALSE,
                attempt |-> IF kind = "settle" THEN row[d].attempt ELSE 0]]
    BY DEF Enter
  <1> DEFINE k == [kind |-> kind, doc |-> d, clock |-> now, cap |-> cap, limit |-> 0, locked |-> FALSE,
                   attempt |-> IF kind = "settle" THEN row[d].attempt ELSE 0]
  <1>2. UNCHANGED <<now, plan, row, work, op>> /\ call[c] = NoCall
    BY DEF Enter
  <1>3. k \in Calls
    <2>1. cap \in Nat /\ 0 \in Nat /\ 0 \in 0..MaxAttempt
      BY AllowanceAssumption
    <2>2. row[d].attempt \in 0..MaxAttempt /\ now \in Time
      BY DEF AInv, TypeOK, Row
    <2> QED BY <2>1, <2>2 DEF Calls
  <1>4. k.doc = d /\ k.kind = kind /\ k.clock = now /\ ~k.locked
    OBVIOUS
  <1>5. call' = [call EXCEPT ![c] = k]
    BY <1>1
  <1> HIDE DEF k
  <1>6. call' \in [Callers -> Calls] /\ call'[c] = k /\ \A b \in Callers \ {c} : call'[b] = call[b]
    BY <1>3, <1>5 DEF AInv, TypeOK
  <1>7. TypeOK'
    BY <1>2, <1>6 DEF AInv, TypeOK
  <1>8. now \in Nat /\ now <= now
    BY AllowanceAssumption DEF AInv, TypeOK, Time
  <1>9. CallsOK'
    <2> SUFFICES ASSUME NEW b \in Callers, call'[b] # NoCall
                 PROVE  /\ call'[b].clock <= now
                        /\ call'[b].kind \in {"reserve", "settle"} <=> call'[b].doc \in Legacy
                        /\ call'[b].kind = "accept" => op[call'[b].doc].status = "new"
                        /\ call'[b].kind = "renew" => op[call'[b].doc].status = "live"
                        /\ call'[b].doc \in Captured =>
                             \A a \in Callers \ {b} : call'[a] # NoCall => call'[a].doc # call'[b].doc
      <3>1. LocksOK'
        BY <1>4, <1>6 DEF AInv, CallsOK, LocksOK, Holds
      <3> QED BY <1>2, <3>1 DEF CallsOK
    <2>1. CASE b = c
      <3>1. kind \in {"reserve", "settle"} <=> d \in Legacy
        BY <1>1, AllowanceAssumption
      <3>2. d \in Captured => \A a \in Callers \ {b} : call'[a] # NoCall => call'[a].doc # d
        BY <1>1, <1>6, <2>1 DEF Unlocked
      <3>3. (kind = "accept" => op[d].status = "new") /\ (kind = "renew" => op[d].status = "live")
        BY <1>1
      <3> QED BY <1>4, <1>6, <1>8, <2>1, <3>1, <3>2, <3>3
    <2>2. CASE b # c
      <3>1. call'[b] = call[b] /\ call[b] # NoCall
        BY <1>6, <2>2
      <3>2. call[b].doc \in Captured =>
              \A a \in Callers \ {b} : call'[a] # NoCall => call'[a].doc # call[b].doc
        <4> SUFFICES ASSUME call[b].doc \in Captured, NEW a \in Callers \ {b}, call'[a] # NoCall
                     PROVE  call'[a].doc # call[b].doc
          OBVIOUS
        <4>1. CASE a = c
          BY <1>1, <1>4, <1>6, <3>1, <4>1 DEF Unlocked
        <4>2. CASE a # c
          BY <1>6, <3>1, <4>2 DEF AInv, CallsOK
        <4> QED BY <4>1, <4>2
      <3> QED BY <3>1, <3>2 DEF AInv, CallsOK
    <2> QED BY <2>1, <2>2
  <1>10. AInv'
    BY <1>2, <1>7, <1>9 DEF AInv, SlotsOK, CapturedSlotFollows
  <1>11. CommitsWithinCap
    BY <1>2, <1>8, KeepsCommitted
  <1> QED BY <1>10, <1>11

\* A call that gets the lock of the account is the only one to hold it, and
\* goes by the smaller cap.
LEMMA ResolveStep ==
  ASSUME AInv, NEW c \in Callers, Resolve(c)
  PROVE  AInv' /\ CommitsWithinCap
  <1>1. UNCHANGED <<now, plan, row, work, op>> /\ call' = [call EXCEPT ![c] = Resolved(call[c])]
    BY DEF Resolve
  <1>2. call[c] \in Calls /\ call[c] # NoCall /\ \A b \in Callers : ~Holds(b)
    BY DEF Resolve, AInv, TypeOK, NoCall
  <1>3. CapOf[plan] \in Nat /\ now \in Nat
    BY AllowanceAssumption DEF AInv, TypeOK, Time
  <1>4. /\ Resolved(call[c]) \in Calls /\ Resolved(call[c]) # NoCall
        /\ Resolved(call[c]).cap <= Resolved(call[c]).limit
        /\ Resolved(call[c]).kind = call[c].kind /\ Resolved(call[c]).doc = call[c].doc
        /\ Resolved(call[c]).clock = call[c].clock
    <2>1. PICK k \in [kind: {"reserve", "accept", "renew", "settle"}, doc: Documents, clock: Time,
                      cap: Nat, limit: Nat, locked: BOOLEAN, attempt: 0..MaxAttempt] : call[c] = k
      BY <1>2 DEF Calls
    <2> DEFINE cap == IF k.cap < CapOf[plan] THEN k.cap ELSE CapOf[plan]
               q == [k EXCEPT !.locked = TRUE, !.limit = CapOf[plan], !.cap = cap]
    <2>2. k.cap \in Nat /\ k.locked \in BOOLEAN
      OBVIOUS
    <2>3. cap \in Nat /\ cap <= CapOf[plan]
      BY <1>3, <2>2
    <2>4. Resolved(call[c]) = q
      BY <2>1 DEF Resolved
    <2> HIDE DEF cap
    <2>5. /\ q \in [kind: {"reserve", "accept", "renew", "settle"}, doc: Documents, clock: Time,
                   cap: Nat, limit: Nat, locked: BOOLEAN, attempt: 0..MaxAttempt]
          /\ q.kind = k.kind /\ q.doc = k.doc /\ q.clock = k.clock /\ q.cap = cap /\ q.limit = CapOf[plan]
      BY <1>3, <2>3
    <2> HIDE DEF q
    <2>6. q \in Calls /\ q # NoCall
      BY <2>5 DEF Calls, NoCall
    <2> QED BY <2>1, <2>3, <2>4, <2>5, <2>6
  <1>5. /\ call' \in [Callers -> Calls] /\ call'[c] = Resolved(call[c])
        /\ \A b \in Callers \ {c} : call'[b] = call[b]
    BY <1>1, <1>4 DEF AInv, TypeOK
  <1>6. LocksOK'
    <2>1. \A b \in Callers \ {c} : ~Holds(b)'
      BY <1>2, <1>5 DEF Holds
    <2> QED BY <1>4, <1>5, <2>1 DEF LocksOK
  <1>7. \A b \in Callers :
          /\ call'[b] # NoCall <=> call[b] # NoCall
          /\ call'[b].kind = call[b].kind /\ call'[b].doc = call[b].doc /\ call'[b].clock = call[b].clock
    BY <1>2, <1>4, <1>5
  <1>8. CallsOK'
    BY <1>1, <1>6, <1>7 DEF AInv, CallsOK
  <1>9. AInv'
    BY <1>1, <1>5, <1>8 DEF AInv, TypeOK, SlotsOK, CapturedSlotFollows
  <1>10. CommitsWithinCap
    BY <1>1, <1>3, KeepsCommitted
  <1> QED BY <1>9, <1>10

-----------------------------------------------------------------------------
(* The other steps *)

\* A step outside the calls that replaces legacy rows by successors.
LEMMA WorkerStep ==
  ASSUME AInv, NEW d \in Legacy, NEW r, Successor(d, r), NEW k \in {"none", "prepared", "sent"},
         row' = [row EXCEPT ![d] = r], work' = [work EXCEPT ![d] = k],
         k # "none" => r.status = "reserved",
         UNCHANGED <<now, plan, op, call>>
  PROVE  AInv' /\ CommitsWithinCap
  <1>1. d \in Documents /\ d \notin Captured /\ r \in Row
    BY AllowanceAssumption DEF Documents, Successor
  <1>2. /\ row' \in [Documents -> Row]
        /\ \A b \in Documents : row'[b] = IF b = d THEN r ELSE row[b]
    BY <1>1 DEF AInv, TypeOK
  <1>3. /\ work' \in [Documents -> {"none", "prepared", "sent"}]
        /\ \A b \in Documents : work'[b] = IF b = d THEN k ELSE work[b]
    BY <1>1 DEF AInv, TypeOK
  <1>4. \A b \in Documents : Successor(b, row'[b])
    <2>1. \A b \in Documents : row[b] \in Row
      BY DEF AInv, TypeOK
    <2> QED BY <1>2, <2>1 DEF AInv, SlotsOK, Successor
  <1>5. \A o \in Captured : row'[o] = row[o]
    BY <1>1, <1>2 DEF Documents
  <1>6. \A b \in Documents : work'[b] # "none" => b \in Legacy /\ row'[b].status = "reserved"
    BY <1>2, <1>3 DEF AInv, SlotsOK
  <1>7. \A b \in Documents : row'[b].held => b \in Legacy
    BY <1>2 DEF AInv, SlotsOK
  <1>8. CallsOK' /\ call' \in [Callers -> Calls] /\ now \in Nat /\ now' = now
    BY AllowanceAssumption DEF AInv, CallsOK, LocksOK, Holds, TypeOK, Time
  <1>9. UNCHANGED <<now, plan, op>>
    OBVIOUS
  <1>10. AInv'
    BY <1>2, <1>3, <1>4, <1>5, <1>6, <1>7, <1>8, <1>9, LegacyStep, ZenonT(60)
  <1>11. CommitsWithinCap
    BY <1>4, <1>8, KeepsCommitted DEF Successor
  <1> QED BY <1>10, <1>11

LEMMA ReleaseStep ==
  ASSUME AInv, NEW d \in Legacy, Release(d)
  PROVE  AInv' /\ CommitsWithinCap
  <1>1. PICK reconcile \in BOOLEAN : row' = [row EXCEPT ![d] = Closed(d, "released", reconcile)]
    BY DEF Release
  <1> DEFINE r == Closed(d, "released", reconcile)
  <1>2. d \in Documents /\ row[d] \in Row /\ row[d].status = "reserved" /\ ~row[d].held
        /\ work[d] \in {"none", "prepared", "sent"}
    BY DEF Release, Documents, AInv, TypeOK
  <1>3. /\ r \in Row /\ r.period = row[d].period /\ r.status \in {"reserved", "released"}
        /\ r.status = "reserved" => r.expires = Never
        /\ r.status = "released" => work[d] \notin {"prepared", "sent"}
        /\ r.held => r.status = "reserved"
    BY <1>2, ClosedFields
  <1> HIDE DEF r
  <1>4. Successor(d, r)
    BY <1>2, <1>3 DEF Successor
  <1>5. work' = [work EXCEPT ![d] = work[d]] /\ UNCHANGED <<now, plan, op, call>>
    BY DEF Release, AInv, TypeOK
  <1>6. row' = [row EXCEPT ![d] = r]
    BY <1>1 DEF r
  <1>7. work[d] # "none" => r.status = "reserved"
    BY <1>2, <1>3
  <1> QED BY <1>2, <1>4, <1>5, <1>6, <1>7, WorkerStep, ZenonT(60)

LEMMA WorkStep ==
  ASSUME AInv, NEW d \in Legacy, Work(d)
  PROVE  AInv' /\ CommitsWithinCap
  <1>1. d \in Documents /\ row[d] \in Row /\ row[d].status = "reserved" /\ ~row[d].held
    BY DEF Work, Documents, AInv, TypeOK
  <1>2. Successor(d, row[d])
    BY <1>1 DEF Successor
  <1>3. PICK k \in {"none", "prepared", "sent"} : work' = [work EXCEPT ![d] = k]
    BY DEF Work
  <1>4. row' = [row EXCEPT ![d] = row[d]] /\ UNCHANGED <<now, plan, op, call>>
    BY DEF Work, AInv, TypeOK
  <1> QED BY <1>1, <1>2, <1>3, <1>4, WorkerStep, ZenonT(60)

LEMMA AmbiguousStep ==
  ASSUME AInv, NEW d \in Legacy, Ambiguous(d)
  PROVE  AInv' /\ CommitsWithinCap
  <1>1. d \in Documents /\ row[d] \in Row /\ row[d].status = "reserved"
    BY DEF Ambiguous, Documents, AInv, TypeOK
  <1>2. Never \in 0..Never
    BY Instants
  <1>3. Hold(row[d]) \in Row /\ Hold(row[d]).status = "reserved" /\ Hold(row[d]).period = row[d].period
        /\ Hold(row[d]).expires = Never
    BY <1>1, <1>2 DEF Hold, Row
  <1>4. Successor(d, Hold(row[d]))
    BY <1>1, <1>3 DEF Successor
  <1>5. PICK k \in {"none", "prepared", "sent"} : work' = [work EXCEPT ![d] = k]
    BY DEF Ambiguous
  <1>6. row' = [row EXCEPT ![d] = Hold(row[d])] /\ UNCHANGED <<now, plan, op, call>>
    BY DEF Ambiguous
  <1> QED BY <1>3, <1>4, <1>5, <1>6, WorkerStep, ZenonT(60)

\* Nobody holds the lock of an operation that finishes or closes.
LEMMA UnlockedCalls ==
  ASSUME AInv, NEW o \in Captured, Unlocked(o), UNCHANGED <<now, call>>,
         \A b \in Captured \ {o} : op'[b] = op[b]
  PROVE  CallsOK' /\ call' \in [Callers -> Calls] /\ now' = now /\ now \in Nat
  <1>1. now' = now /\ now \in Nat /\ now' >= now
    BY AllowanceAssumption DEF AInv, TypeOK, Time
  <1>2. \A b \in Captured :
          op'[b].status = op[b].status \/ \A c \in Callers : call'[c] # NoCall => call[c].doc # b
    BY DEF Unlocked
  <1>3. \A c \in Callers : call'[c] = call[c] \/ call'[c] = NoCall
    OBVIOUS
  <1>4. CallsOK'
    BY <1>1, <1>2, <1>3, CallsKept
  <1> QED BY <1>1, <1>4 DEF AInv, TypeOK

\* Finalisation charges an operation that its period had committed to: the row
\* has not run out, and neither has the operation, whose expiry it shares.
LEMMA FinishStep ==
  ASSUME AInv, NEW o \in Captured, Finish(o)
  PROVE  AInv' /\ CommitsWithinCap
  <1>1. /\ o \in Documents /\ o \notin Legacy /\ row[o] \in Row /\ ~row[o].held
        /\ op[o].status = "live" /\ row[o].status = "reserved" /\ row[o].expires > now
        /\ row[o].expires = op[o].expires
    BY CapturedRow DEF Finish, Settleable
  <1>2. /\ row' \in [Documents -> Row] /\ \A d \in Documents \ {o} : row'[d] = row[d]
        /\ row'[o].status = "settled" /\ ~row'[o].held /\ row'[o].period = row[o].period
    BY <1>1 DEF Finish, AInv, TypeOK, Row
  <1>3. /\ op' \in [Captured -> Operation] /\ \A b \in Captured \ {o} : op'[b] = op[b]
        /\ op'[o].status = "ready"
    BY DEF Finish, AInv, TypeOK, Operation
  <1>4. CallsOK' /\ call' \in [Callers -> Calls] /\ now' = now /\ now \in Nat
    BY <1>3, UnlockedCalls DEF Finish
  <1>5. UNCHANGED <<now, plan, work>>
    BY DEF Finish
  <1>6. \A d \in Documents \ {o} : Successor(d, row'[d]) /\ (d \in Captured => row'[d] = row[d])
    BY <1>2 DEF AInv, TypeOK, SlotsOK, Successor
  <1>7. op'[o].status # "new" /\ op'[o].status # "live" /\ op'[o].status # "closed"
    BY <1>3
  <1>8. AInv'
    BY <1>2, <1>3, <1>4, <1>5, <1>6, <1>7, CapturedStep, ZenonT(60)
  <1>9. o \in Committed(row[o].period)
    BY <1>1 DEF Committed
  <1>10. CommitsWithinCap
    BY <1>2, <1>3, <1>4, <1>9, KeepsCommitted
  <1> QED BY <1>8, <1>10

\* A captured operation has no legacy provider work, so closing it releases
\* its slot.
LEMMA CloseStep ==
  ASSUME AInv, NEW o \in Captured, Close(o)
  PROVE  AInv' /\ CommitsWithinCap
  <1>1. /\ o \in Documents /\ o \notin Legacy /\ row[o] \in Row /\ ~row[o].held
        /\ work[o] = "none" /\ row[o].status = "reserved"
    BY CapturedRow DEF Close
  <1>2. row' = [row EXCEPT ![o] = [row[o] EXCEPT !.status = "released"]]
    BY <1>1 DEF Close, Closed
  <1>3. /\ row' \in [Documents -> Row] /\ \A d \in Documents \ {o} : row'[d] = row[d]
        /\ row'[o].status = "released" /\ ~row'[o].held /\ row'[o].period = row[o].period
    BY <1>1, <1>2 DEF AInv, TypeOK, Row
  <1>4. /\ op' \in [Captured -> Operation] /\ \A b \in Captured \ {o} : op'[b] = op[b]
        /\ op'[o].status = "closed"
    BY DEF Close, AInv, TypeOK, Operation
  <1>5. CallsOK' /\ call' \in [Callers -> Calls] /\ now' = now /\ now \in Nat
    BY <1>4, UnlockedCalls DEF Close
  <1>6. UNCHANGED <<now, plan, work>>
    BY DEF Close
  <1>7. \A d \in Documents \ {o} : Successor(d, row'[d]) /\ (d \in Captured => row'[d] = row[d])
    BY <1>3 DEF AInv, TypeOK, SlotsOK, Successor
  <1>8. op'[o].status # "new" /\ op'[o].status # "live" /\ op'[o].status # "ready"
    BY <1>4
  <1>9. AInv'
    BY <1>3, <1>4, <1>5, <1>6, <1>7, <1>8, CapturedStep, ZenonT(60)
  <1>10. CommitsWithinCap
    BY <1>3, <1>4, <1>5, KeepsCommitted
  <1> QED BY <1>9, <1>10

\* Time passes, or the plan changes.
LEMMA EnvironmentStep ==
  ASSUME AInv, Tick \/ ChangePlan
  PROVE  AInv' /\ CommitsWithinCap
  <1>1. UNCHANGED <<row, work, op, call>> /\ plan' \in Plans
    BY DEF Tick, ChangePlan, AInv, TypeOK
  <1>2. now' \in Time /\ now' \in Nat /\ now' >= now
    BY AllowanceAssumption DEF Tick, ChangePlan, AInv, TypeOK, Time
  <1>3. TypeOK'
    BY <1>1, <1>2 DEF AInv, TypeOK
  <1>4. CallsOK'
    BY <1>1, <1>2, CallsKept
  <1>5. AInv'
    BY <1>1, <1>3, <1>4 DEF AInv, SlotsOK, CapturedSlotFollows
  <1>6. CommitsWithinCap
    BY <1>1, <1>2, KeepsCommitted
  <1> QED BY <1>5, <1>6

-----------------------------------------------------------------------------
(* Theorems *)

LEMMA InitAInv == Init => AInv
  <1> SUFFICES ASSUME Init PROVE AInv
    OBVIOUS
  <1>1. PICK prior \in SUBSET Legacy :
          row = [d \in Documents |-> Unreserved(IF d \in prior THEN "prior" ELSE "absent")]
    BY DEF Init
  <1>2. \A d \in Documents :
          /\ row[d] \in Row /\ ~row[d].held /\ row[d].status \in {"prior", "absent"}
          /\ d \in Captured => row[d].status = "absent"
    <2>1. 0 \in 0..Never /\ 0 \in 0..MaxAttempt
      BY Instants, AllowanceAssumption
    <2>2. ASSUME NEW status \in {"prior", "absent"}
          PROVE  Unreserved(status) \in Row /\ ~Unreserved(status).held /\ Unreserved(status).status = status
      BY <2>1 DEF Unreserved, Row
    <2> QED BY <1>1, <2>2, AllowanceAssumption
  <1>3. TypeOK
    <2>1. 0 \in 0..Never /\ 0 \in Time
      BY Instants, AllowanceAssumption DEF Time
    <2>2. row \in [Documents -> Row]
      BY <1>1, <1>2
    <2> QED BY <2>1, <2>2 DEF Init, TypeOK, Operation, Calls
  <1>4. SlotsOK
    BY <1>2 DEF Init, SlotsOK
  <1>5. CallsOK
    BY DEF Init, CallsOK, LocksOK, Holds
  <1>6. CapturedSlotFollows
    BY <1>2 DEF Init, CapturedSlotFollows, Documents
  <1> QED BY <1>3, <1>4, <1>5, <1>6 DEF AInv

LEMMA StepAInv == AInv /\ [Next]_vars => AInv' /\ [CommitsWithinCap]_vars
  <1> SUFFICES ASSUME AInv, [Next]_vars PROVE AInv' /\ [CommitsWithinCap]_vars
    OBVIOUS
  <1>1. ASSUME NEW c \in Callers, Enter(c) \/ Resolve(c) PROVE AInv' /\ CommitsWithinCap
    BY <1>1, EnterStep, ResolveStep
  <1>2. ASSUME NEW c \in Callers, Reserve(c) PROVE AInv' /\ CommitsWithinCap
    BY <1>2, ReserveStep
  <1>3. ASSUME NEW c \in Callers, Accept(c) PROVE AInv' /\ CommitsWithinCap
    BY <1>3, AcceptStep
  <1>4. ASSUME NEW c \in Callers, Renew(c) PROVE AInv' /\ CommitsWithinCap
    BY <1>4, RenewStep
  <1>5. ASSUME NEW c \in Callers, Settle(c) PROVE AInv' /\ CommitsWithinCap
    BY <1>5, SettleStep
  <1>6. ASSUME NEW c \in Callers, Fail(c) PROVE AInv' /\ CommitsWithinCap
    BY <1>6, FailStep
  <1>7. ASSUME NEW d \in Legacy, Release(d) \/ Work(d) \/ Ambiguous(d) PROVE AInv' /\ CommitsWithinCap
    BY <1>7, ReleaseStep, WorkStep, AmbiguousStep
  <1>8. ASSUME NEW o \in Captured, Finish(o) \/ Close(o) PROVE AInv' /\ CommitsWithinCap
    BY <1>8, FinishStep, CloseStep
  <1>9. CASE Tick \/ ChangePlan
    BY <1>9, EnvironmentStep
  <1>10. CASE UNCHANGED vars
    BY <1>10 DEF vars, AInv, TypeOK, SlotsOK, CallsOK, LocksOK, Holds, CapturedSlotFollows
  <1> QED BY <1>1, <1>2, <1>3, <1>4, <1>5, <1>6, <1>7, <1>8, <1>9, <1>10 DEF Next

LEMMA Invariance == Spec => []AInv
  <1>1. AInv /\ [Next]_vars => AInv'
    BY StepAInv
  <1> QED BY InitAInv, <1>1, PTL DEF Spec

\* Every variable keeps its type: clocks, expiries and attempts stay in range
\* whatever the order of calls, takeovers and closings.
THEOREM AllowanceTypeCorrect == Spec => []TypeOK
  BY Invariance, PTL DEF AInv

\* The slot of a captured operation follows the operation through every
\* interleaving with the sweeps and calls of other requests.
THEOREM CapturedSlots == Spec => []CapturedSlotFollows
  BY Invariance, PTL DEF AInv

\* Open provider work of a legacy request occupies a slot of its period, and a
\* held reservation has not run out, whatever sweeps and takeovers happen.
THEOREM OpenWork == Spec => []OpenWorkOccupiesSlot
  <1>1. AInv => OpenWorkOccupiesSlot
    <2> SUFFICES ASSUME AInv, NEW d \in Legacy, work[d] # "none" \/ row[d].held
                 PROVE  d \in Committed(row[d].period) /\ (row[d].held => row[d].expires > now)
      BY DEF OpenWorkOccupiesSlot
    <2>1. d \in Documents /\ row[d].status = "reserved" /\ (row[d].held => row[d].expires = Never)
      BY DEF Documents, AInv, SlotsOK
    <2>2. now < Never
      BY Instants DEF AInv, TypeOK
    <2>3. now \in Nat /\ Never \in Nat
      BY Instants, AllowanceAssumption DEF AInv, TypeOK, Time
    <2> QED BY <2>1, <2>2, <2>3 DEF Committed
  <1> QED BY <1>1, Invariance, PTL

\* No step commits a billing period to another document beyond the cap of a plan
\* that was in force under the admitting call's lock of the account, for any
\* number of requests, operations and concurrent calls with old clocks and old
\* plans, and however the plan changes between the lock and the count.
THEOREM AdmissionsStayWithinPlan == Spec => AdmissionWithinPlan
  <1>1. AInv /\ [Next]_vars => [CommitsWithinCap]_vars
    BY StepAInv
  <1> QED BY <1>1, Invariance, PTL DEF Spec, AdmissionWithinPlan


-----------------------------------------------------------------------------
(* The life cycle of OperationLife *)

\* Which slot goes with a status of an operation.
SlotFor(status) ==
  CASE status = "new" -> "absent" [] status = "live" -> "reserved"
    [] status = "ready" -> "settled" [] OTHER -> "released"

LEMMA SlotsFollow ==
  ASSUME AInv, NEW o \in Captured
  PROVE  op[o] \in Operation /\ row[o].status = SlotFor(op[o].status)
  <1>1. op[o].status \in {"new", "live", "ready", "closed"} /\ op[o] \in Operation
    BY DEF AInv, TypeOK, Operation
  <1> QED BY <1>1 DEF AInv, CapturedSlotFollows, SlotFor

\* What a step may do to the operations: time passes them by, or one of them is
\* accepted, finishes in time, or is closed.
Begins(o) == op[o].status = "new" /\ op'[o].status = "live"
EndsAs(o, status) ==
  op[o].status = "live" /\ op'[o].status = status /\ op'[o].expires = op[o].expires

LEMMA OperationStep ==
  ASSUME AInv, [Next]_vars
  PROVE  \/ op' = op
         \/ /\ now' = now
            /\ \E o \in Captured :
                 /\ \A b \in Captured \ {o} : op'[b] = op[b]
                 /\ Begins(o) \/ (EndsAs(o, "ready") /\ op[o].expires > now) \/ EndsAs(o, "closed")
  <1>1. op \in [Captured -> Operation]
    BY DEF AInv, TypeOK
  <1>2. ASSUME NEW c \in Callers,
               Enter(c) \/ Resolve(c) \/ Reserve(c) \/ Renew(c) \/ Settle(c) \/ Fail(c)
        PROVE  op' = op
    BY <1>2 DEF Enter, Resolve, Reserve, Renew, Settle, Fail, Raise
  <1>3. ASSUME NEW c \in Callers, Accept(c)
        PROVE  /\ now' = now
               /\ \E o \in Captured : Begins(o) /\ \A b \in Captured \ {o} : op'[b] = op[b]
    <2> DEFINE k == call[c]
    <2>1. k # NoCall /\ k \in Calls /\ k.kind = "accept" /\ now' = now
      BY <1>3 DEF Accept, Return, AInv, TypeOK, NoCall
    <2>2. k.doc \in Captured /\ op[k.doc].status = "new"
      BY <2>1 DEF Calls, Documents, AInv, CallsOK
    <2>3. op' = [op EXCEPT ![k.doc] = [status |-> "live", expires |-> k.clock + Lifetime]]
      BY <1>3 DEF Accept
    <2> QED BY <1>1, <2>1, <2>2, <2>3 DEF Begins
  <1>4. ASSUME NEW d \in Legacy, Release(d) \/ Work(d) \/ Ambiguous(d) PROVE op' = op
    BY <1>4 DEF Release, Work, Ambiguous
  <1>5. ASSUME NEW o \in Captured, Finish(o)
        PROVE  /\ now' = now /\ \A b \in Captured \ {o} : op'[b] = op[b]
               /\ EndsAs(o, "ready") /\ op[o].expires > now
    BY <1>1, <1>5, CapturedRow DEF Finish, Settleable, EndsAs, Operation
  <1>6. ASSUME NEW o \in Captured, Close(o)
        PROVE  now' = now /\ EndsAs(o, "closed") /\ \A b \in Captured \ {o} : op'[b] = op[b]
    BY <1>1, <1>6 DEF Close, EndsAs, Operation
  <1>7. CASE Tick \/ ChangePlan \/ UNCHANGED vars
    BY <1>7 DEF Tick, ChangePlan, vars
  <1> QED BY <1>2, <1>3, <1>4, <1>5, <1>6, <1>7 DEF Next

LEMMA TimeStep ==
  ASSUME AInv, [Next]_vars
  PROVE  now \in Nat /\ now' \in Nat /\ now <= now'
  <1>1. now \in Nat
    BY AllowanceAssumption DEF AInv, TypeOK, Time
  <1>2. ASSUME Next PROVE now' = now \/ now' = now + 1
    BY <1>2 DEF Next, Enter, Resolve, Reserve, Accept, Renew, Settle, Fail, Raise, Return, Release, Work,
         Ambiguous, Finish, Close, Tick, ChangePlan
  <1> QED BY <1>1, <1>2 DEF vars

\* The mapping of the operations, as functions.
lifeOf == [o \in Captured |-> op[o].status]
slotOf == [o \in Captured |-> row[o].status]
overOf == {o \in Captured : op[o].status # "new" /\ op[o].expires <= now}

LEMMA LifeStep ==
  ASSUME AInv, AInv', [Next]_vars
  PROVE  [Life!LifeNext]_Life!lives
  <1> USE DEF lifeOf, slotOf, overOf
  <1>0. /\ \A o \in Captured : row[o].status = SlotFor(op[o].status) /\ op[o].expires \in Nat
        /\ \A o \in Captured : row'[o].status = SlotFor(op'[o].status) /\ op'[o].expires \in Nat
    <2>1. \A o \in Captured : row'[o].status = SlotFor(op'[o].status)
      BY DEF AInv, TypeOK, Operation, CapturedSlotFollows, SlotFor
    <2> QED BY <2>1, SlotsFollow, Instants DEF AInv, TypeOK, Operation
  <1>1. now \in Nat /\ now' \in Nat /\ now <= now'
    BY TimeStep
  <1>2. CASE op' = op
    <2>1. lifeOf' = lifeOf /\ slotOf' = slotOf
      BY <1>0, <1>2
    <2>2. overOf \subseteq overOf' /\ \A o \in overOf' : o \in Captured /\ lifeOf[o] # "new"
      BY <1>0, <1>1, <1>2
    <2>3. Life!TimePasses
      BY <2>1, <2>2 DEF Life!TimePasses
    <2> QED BY <2>3 DEF Life!LifeNext
  <1>3. ASSUME NEW o \in Captured, \A b \in Captured \ {o} : op'[b] = op[b],
               NEW l, op'[o].status = l, NEW slot, SlotFor(l) = slot
        PROVE  Life!Turn(o, l, slot)
    <2>1. \A b \in Captured : op'[b].status = IF b = o THEN l ELSE op[b].status
      BY <1>3
    <2>2. \A b \in Captured : row'[b].status = IF b = o THEN slot ELSE row[b].status
      BY <1>0, <1>3
    <2>3. lifeOf' = [lifeOf EXCEPT ![o] = l]
      BY <2>1
    <2>4. slotOf' = [slotOf EXCEPT ![o] = slot]
      BY <2>2
    <2> QED BY <2>3, <2>4 DEF Life!Turn
  <1>4. ASSUME NEW o \in Captured, now' = now, \A b \in Captured \ {o} : op'[b] = op[b],
               Begins(o)
        PROVE  Life!LifeNext
    <2>1. Life!Turn(o, "live", "reserved")
      <3>1. op'[o].status = "live" /\ SlotFor("live") = "reserved"
        BY <1>4 DEF Begins, SlotFor
      <3> QED BY <1>3, <1>4, <3>1
    <2>2. overOf' \in {overOf, overOf \cup {o}}
      <3>1. o \notin overOf /\ \A b \in Captured \ {o} : b \in overOf' <=> b \in overOf
        BY <1>4 DEF Begins
      <3>2. overOf \subseteq Captured /\ overOf' \subseteq Captured
        OBVIOUS
      <3> QED BY <1>4, <3>1, <3>2
    <2>3. lifeOf[o] = "new" /\ slotOf[o] = "absent"
      BY <1>0, <1>4 DEF Begins, SlotFor
    <2>4. Life!Accepted(o)
      BY <2>1, <2>2, <2>3 DEF Life!Accepted
    <2> QED BY <2>4 DEF Life!LifeNext
  <1>5. ASSUME NEW o \in Captured, now' = now, \A b \in Captured \ {o} : op'[b] = op[b],
               \/ EndsAs(o, "ready") /\ op[o].expires > now
               \/ EndsAs(o, "closed")
        PROVE  Life!LifeNext
    <2>1. overOf' = overOf
      BY <1>5 DEF EndsAs
    <2>2. lifeOf[o] = "live" /\ slotOf[o] = "reserved"
      BY <1>0, <1>5 DEF EndsAs, SlotFor
    <2>3. CASE EndsAs(o, "ready") /\ op[o].expires > now
      <3>1. o \notin overOf
        BY <1>0, <1>1, <2>3
      <3>2. Life!Turn(o, "ready", "settled")
        <4>1. op'[o].status = "ready" /\ SlotFor("ready") = "settled"
          BY <2>3 DEF EndsAs, SlotFor
        <4> QED BY <1>3, <1>5, <4>1
      <3>3. Life!Finished(o)
        BY <2>1, <2>2, <3>1, <3>2 DEF Life!Finished
      <3> QED BY <3>3 DEF Life!LifeNext
    <2>4. CASE EndsAs(o, "closed")
      <3>1. Life!Turn(o, "closed", "released")
        <4>1. op'[o].status = "closed" /\ SlotFor("closed") = "released"
          BY <2>4 DEF EndsAs, SlotFor
        <4> QED BY <1>3, <1>5, <4>1
      <3>2. Life!Ended(o)
        BY <2>1, <2>2, <3>1 DEF Life!Ended
      <3> QED BY <3>2 DEF Life!LifeNext
    <2> QED BY <1>5, <2>3, <2>4
  <1> QED BY <1>2, <1>4, <1>5, OperationStep

\* KeepsLife of DocumentAllowance: for any number of operations, requests and
\* concurrent calls, every captured operation lives and ends with its slot.
THEOREM AllowanceKeepsLife == Spec => KeepsLife
  <1>1. Init => Life!LifeInit
    <2> SUFFICES ASSUME Init PROVE Life!LifeInit
      OBVIOUS
    <2>1. AInv
      BY InitAInv
    <2>2. \A o \in Captured : op[o].status = "new" /\ row[o].status = "absent"
      BY <2>1, CapturedRow DEF Init
    <2> QED BY <2>2 DEF Life!LifeInit
  <1>2. AInv /\ AInv' /\ [Next]_vars => [Life!LifeNext]_Life!lives
    BY LifeStep
  <1> QED BY <1>1, <1>2, Invariance, PTL DEF Spec, KeepsLife, Life!Promise
=============================================================================
