----------------------- MODULE LegacyRefinementProofs -----------------------
(***************************************************************************)
(* LegacyGeneration implements PaidRequest for every set of workers and    *)
(* stages and every bound: initial states map to initial states, and every *)
(* step maps to one step of the promise or to a stutter.                   *)
(***************************************************************************)
EXTENDS LegacyGenerationProofs, LegacyRefinement

USE DEF Attempts, Rows

-----------------------------------------------------------------------------
(* What the mapping needs beyond the inductive invariant *)

\* An attempt with a provider answer was sent, and so was one whose worker
\* waits for the answer.
Answered == \A a \in Admissions : usage[a] \in Outcomes \ {"unknown", "refused"} => sent[a] = 1
Awaited  == \A w \in Workers, s \in Stages : call[w][s].pc = "sent" => sent[<<s, call[w][s].n>>] = 1

MappingInv == IInv /\ Answered /\ Awaited

\* A sent attempt stays sent, and only the dispatch of a call makes it await
\* an answer: Awaited is kept.
LEMMA StepAwaited ==
  ASSUME MappingInv, Next
  PROVE  Awaited' /\ \A a \in Admissions : sent[a] = 1 => sent'[a] = 1
  <1>0. /\ call \in [Workers -> [Stages -> Call]] /\ sent \in [Admissions -> Nat]
        /\ \A v \in Workers, t \in Stages : call[v][t].pc = "sent" => <<t, call[v][t].n>> \in Admissions
    BY DEF MappingInv, IInv, Core, TypeOK, WorkersOK, Admissions
  <1>1. ASSUME sent' = sent,
               \A v \in Workers, t \in Stages :
                 call'[v][t].pc = "sent" => call'[v][t] = call[v][t]
        PROVE  Awaited' /\ \A a \in Admissions : sent[a] = 1 => sent'[a] = 1
    BY <1>1 DEF MappingInv, Awaited
  <1>2. ASSUME NEW w \in Workers, NEW s \in Stages, NEW pc, NEW n, pc # "sent",
               SetCall(w, s, pc, n), NEW v \in Workers, NEW t \in Stages, call'[v][t].pc = "sent"
        PROVE  call'[v][t] = call[v][t]
    BY <1>0, <1>2 DEF SetCall
  <1>3. ASSUME NEW w \in Workers, NEW s \in Stages, ReadCheckpoint(w, s)
        PROVE  Awaited' /\ \A a \in Admissions : sent[a] = 1 => sent'[a] = 1
    <2>1. sent' = sent /\ \E pc, n : pc # "sent" /\ SetCall(w, s, pc, n)
      BY <1>3 DEF ReadCheckpoint
    <2> QED BY <1>1, <1>2, <2>1
  <1>4. ASSUME NEW w \in Workers, NEW s \in Stages, RecordAttempt(w, s)
        PROVE  Awaited' /\ \A a \in Admissions : sent[a] = 1 => sent'[a] = 1
    <2>1. sent' = sent /\ \E pc, n : pc # "sent" /\ SetCall(w, s, pc, n)
      BY <1>4 DEF RecordAttempt
    <2> QED BY <1>1, <1>2, <2>1
  <1>5. ASSUME NEW w \in Workers, NEW s \in Stages, DispatchFails(w, s) \/ RecordRejected(w, s)
        PROVE  Awaited' /\ \A a \in Admissions : sent[a] = 1 => sent'[a] = 1
    <2>1. sent' = sent /\ \E pc, n : pc # "sent" /\ SetCall(w, s, pc, n)
      BY <1>5 DEF DispatchFails, RecordRejected
    <2> QED BY <1>1, <1>2, <2>1
  <1>6. ASSUME NEW w \in Workers, NEW s \in Stages, MarkDispatched(w, s)
        PROVE  Awaited' /\ \A a \in Admissions : sent[a] = 1 => sent'[a] = 1
    <2> DEFINE n == call[w][s].n
               a == <<s, n>>
    <2>1. a \in Admissions /\ adm[a].state = "prepared"
      BY <1>6 DEF MarkDispatched, Dispatchable, MappingInv, IInv, Core, WorkersOK, Admissions
    <2>2. sent[a] = 0
      BY <2>1 DEF MappingInv, IInv, History
    <2>3. CASE SetCall(w, s, "ambiguous", n) /\ sent' = sent
      <3>1. "ambiguous" # "sent"
        OBVIOUS
      <3> QED BY <1>1, <1>2, <2>3, <3>1
    <2>4. CASE SetCall(w, s, "sent", n) /\ sent' = [sent EXCEPT ![a] = @ + 1]
      <3>1. sent'[a] = 1 /\ \A b \in Admissions \ {a} : sent'[b] = sent[b]
        BY <1>0, <2>1, <2>2, <2>4
      <3>2. \A v \in Workers, t \in Stages :
              call'[v][t] = IF v = w /\ t = s THEN [pc |-> "sent", n |-> n] ELSE call[v][t]
        BY <1>0, <2>4 DEF SetCall
      <3>3. Awaited'
        BY <1>0, <3>1, <3>2 DEF MappingInv, Awaited
      <3> QED BY <3>1, <3>3
    <2> QED BY <1>6, <2>3, <2>4 DEF MarkDispatched
  <1>7. ASSUME NEW w \in Workers, Exit(w)
        PROVE  Awaited' /\ \A a \in Admissions : sent[a] = 1 => sent'[a] = 1
    <2>1. sent' = sent /\ call' = [call EXCEPT ![w] = [s \in Stages |-> NoCall]]
      BY <1>7 DEF Exit
    <2>2. NoCall.pc # "sent"
      BY DEF NoCall
    <2>3. \A v \in Workers, t \in Stages : call'[v][t].pc = "sent" => call'[v][t] = call[v][t]
      BY <1>0, <2>1, <2>2
    <2> QED BY <1>1, <2>1, <2>3
  <1>8. ASSUME UNCHANGED <<call, sent>>
        PROVE  Awaited' /\ \A a \in Admissions : sent[a] = 1 => sent'[a] = 1
    BY <1>1, <1>8
  <1>9. ASSUME NEW w \in Workers,
               \/ \E late \in BOOLEAN : Reserve(w, late)
               \/ Settle(w)
               \/ \E code \in {"none", "reconcile"} : Release(w, code)
        PROVE  UNCHANGED <<call, sent>>
    BY <1>9 DEF Reserve, Admit, Reclaim, Observe, Settle, Release
  <1>10. SweepByOtherRequest \/ Elapse => UNCHANGED <<call, sent>>
    BY DEF SweepByOtherRequest, Elapse
  <1> QED BY <1>3, <1>4, <1>5, <1>6, <1>7, <1>8, <1>9, <1>10 DEF Next

\* Only a worker that sent its request records an answer: Answered is kept.
LEMMA StepAnswered ==
  ASSUME MappingInv, Next
  PROVE  Answered'
  <1>1. \A a \in Admissions : sent[a] = 1 => sent'[a] = 1
    BY StepAwaited
  <1>2. ASSUME usage' = usage PROVE Answered'
    BY <1>1, <1>2 DEF MappingInv, Answered
  <1>3. ASSUME NEW w \in Workers, NEW s \in Stages, RecordAttempt(w, s) PROVE Answered'
    <2> DEFINE a == <<s, call[w][s].n>>
    <2>1. PICK o \in Reports(call[w][s].pc) : usage' = [usage EXCEPT ![a] = o]
      BY <1>3 DEF RecordAttempt
    <2>2. o \in Outcomes \ {"unknown", "refused"} => call[w][s].pc = "sent"
      BY <2>1 DEF Reports
    <2>3. o \in Outcomes \ {"unknown", "refused"} => sent[a] = 1
      BY <2>2 DEF MappingInv, Awaited
    <2>4. usage \in [Admissions -> Outcomes \cup {"none"}]
      BY DEF MappingInv, IInv, Core, TypeOK
    <2>5. \A b \in Admissions : usage'[b] = IF b = a THEN o ELSE usage[b]
      BY <2>1, <2>4
    <2> QED BY <1>1, <2>3, <2>5 DEF MappingInv, Answered
  <1>4. ASSUME NEW w \in Workers, NEW s \in Stages, ReadCheckpoint(w, s) \/ MarkDispatched(w, s)
        PROVE  usage' = usage
    BY <1>4 DEF ReadCheckpoint, MarkDispatched
  <1>5. QuietNext => usage' = usage
    BY QuietActions DEF Quiet, MappingInv, IInv
  <1> QED BY <1>2, <1>3, <1>4, <1>5 DEF Next, QuietNext

\* The invariant of the mapping holds in every reachable state.
LEMMA MappingInvariant == Spec => []MappingInv
  <1>1. Init => MappingInv
    <2> SUFFICES ASSUME Init PROVE MappingInv
      OBVIOUS
    <2>1. Answered /\ Awaited
      BY DEF Init, Answered, Awaited, Outcomes, Completed, NoCall
    <2> QED BY <2>1, InitIInv DEF MappingInv
  <1>2. ASSUME MappingInv, [Next]_vars PROVE MappingInv'
    <2>1. IInv'
      BY <1>2, StepIInv DEF MappingInv
    <2>2. CASE UNCHANGED vars
      BY <1>2, <2>1, <2>2 DEF vars, MappingInv, Answered, Awaited
    <2>3. CASE Next
      BY <1>2, <2>1, <2>3, StepAwaited, StepAnswered DEF MappingInv
    <2> QED BY <1>2, <2>2, <2>3
  <1> QED BY <1>1, <1>2, PTL DEF Spec

-----------------------------------------------------------------------------
(* The mapping of the steps *)

\* A reservation that passes the claim checks is the latest one, and nothing
\* has been charged: the request is open unless the row is held.
LEMMA LiveIsOpen ==
  ASSUME IInv, NEW r \in 1..last, rows[r].status = "reserved"
  PROVE  r = last /\ last \in Rows /\ charged = 0 /\ (rows[r].held \/ phaseOf = "open")
  <1>1. r \in Rows /\ last \in Rows /\ charged \in 0..MaxRows
    BY ConstantsAssumption DEF IInv, Core, TypeOK
  <1>2. r = last
    BY <1>1 DEF IInv, Core, RowsOK
  <1>3. charged = 0
    BY <1>1, <1>2 DEF IInv, Charges
  <1> QED BY <1>1, <1>2, <1>3 DEF phaseOf

\* A step that neither sends, records nor charges is a stutter or a hold.
LEMMA HoldsOrStutters ==
  ASSUME IInv, Core', HoldKept, UNCHANGED <<usage, result, sent, charged>>,
         last' = last \/ last' = last + 1
  PROVE  [Request!PromiseNext]_Request!promise
  <1>1. askedOf' = askedOf /\ deliveredOf' = deliveredOf
    BY DEF askedOf, deliveredOf
  <1>2. phaseOf \in {"open", "held", "paid"} /\ phaseOf' \in {"open", "held", "paid"}
    BY DEF phaseOf
  <1>3. phaseOf = "paid" <=> phaseOf' = "paid"
    BY DEF phaseOf
  <1>4. ASSUME phaseOf = "held" PROVE phaseOf' = "held"
    <2>1. charged = 0 /\ last > 0 /\ rows[last].held
      BY <1>4 DEF phaseOf
    <2>2. last \in Rows /\ last \in Nat
      BY <2>1, ConstantsAssumption DEF IInv, Core, TypeOK
    <2>3. rows[last].status = "reserved" /\ rows'[last].held /\ rows'[last].status = "reserved"
      BY <2>1, <2>2 DEF HoldKept, IInv, Core, RowsOK
    <2>4. last' = last
      BY <2>2, <2>3 DEF Core, RowsOK
    <2> QED BY <2>1, <2>3, <2>4 DEF phaseOf
  <1>5. CASE phaseOf' = phaseOf
    BY <1>1, <1>5 DEF Request!promise
  <1>6. CASE phaseOf = "open" /\ phaseOf' = "held"
    BY <1>1, <1>6 DEF Request!PromiseNext, Request!HoldRequest
  <1> QED BY <1>2, <1>3, <1>4, <1>5, <1>6

\* Among the quiet actions only Settle charges.
LEMMA QuietMaps ==
  ASSUME IInv, Core', HoldKept, QuietNext, charged' = charged
  PROVE  [Request!PromiseNext]_Request!promise
  <1>1. UNCHANGED <<usage, result, sent>>
    BY QuietActions DEF IInv, Quiet
  <1>2. last' = last \/ last' = last + 1
    BY DEF QuietNext, Reserve, Admit, Reclaim, Observe, Settle, Release, Exit, DispatchFails,
           RecordRejected, SweepByOtherRequest, Elapse
  <1> QED BY <1>1, <1>2, HoldsOrStutters

\* The charge is the payment: the worker that settles has seen a usable result
\* of every draft stage, and the reservation it settles was not held.
LEMMA SettleMaps ==
  ASSUME IInv, Core', HoldKept, NEW w \in Workers, Settle(w)
  PROVE  [Request!PromiseNext]_Request!promise
  <1> DEFINE r == work[w].row
  <1>1. CASE charged' = charged
    BY <1>1, QuietMaps DEF QuietNext
  <1>2. CASE charged' # charged
    <2>1. /\ rows[r].status = "reserved" /\ charged = 0 /\ charged' = r
          /\ \E row \in HoldTrigger(r, rows[r], [rows[r] EXCEPT !.status = "settled"], "none") :
               rows' = [rows EXCEPT ![r] = row]
          /\ \A s \in DraftStages : call[w][s].pc = "done"
          /\ UNCHANGED <<usage, result, sent, last>>
      BY <1>2 DEF Settle
    <2>2. r \in 1..last
      BY DEF Settle, IInv, Core, WorkersOK
    <2>3. r = last /\ last \in Rows /\ (rows[r].held \/ phaseOf = "open")
      BY <2>1, <2>2, LiveIsOpen
    <2>4. ~rows[r].held
      <3>1. rows[r] \in Reservation
        BY <2>3 DEF IInv, Core, TypeOK
      <3> DEFINE old == rows[r]
                 new == [old EXCEPT !.status = "settled"]
      <3>2. new.status = "settled" /\ new # old /\ old.status = "reserved"
        BY <2>1, <3>1 DEF Reservation
      <3>3. PICK row : row \in HoldTrigger(r, old, new, "none")
        BY <2>1
      <3> HIDE DEF new, old
      <3>4. old.held => FALSE
        BY <3>2, <3>3 DEF HoldTrigger, HeldUpdate
      <3> QED BY <3>4 DEF old
    <2>5. phaseOf = "open" /\ phaseOf' = "paid"
      <3>1. r # 0
        BY <2>2
      <3> QED BY <2>1, <2>3, <2>4, <3>1 DEF phaseOf
    <2>6. DraftStages \subseteq deliveredOf
      BY <2>1, ConstantsAssumption DEF IInv, History, deliveredOf
    <2>7. askedOf' = askedOf /\ deliveredOf' = deliveredOf
      BY <2>1 DEF askedOf, deliveredOf
    <2> QED BY <2>5, <2>6, <2>7 DEF Request!PromiseNext, Request!Pay
  <1> QED BY <1>1, <1>2

\* A checkpoint is invisible to the owner.
LEMMA CheckpointMaps ==
  ASSUME IInv, Core', HoldKept, NEW w \in Workers, NEW s \in Stages, ReadCheckpoint(w, s)
  PROVE  [Request!PromiseNext]_Request!promise
  BY HoldsOrStutters DEF ReadCheckpoint

\* An acknowledged dispatch asks the provider, for the first time under this
\* attempt and while the request is open; an unacknowledged one is a stutter.
LEMMA DispatchMaps ==
  ASSUME MappingInv, Core', HoldKept, NEW w \in Workers, NEW s \in Stages, MarkDispatched(w, s)
  PROVE  [Request!PromiseNext]_Request!promise
  <1> DEFINE r == work[w].row
             n == call[w][s].n
             a == <<s, n>>
  <1>1. CASE sent' = sent
    BY <1>1, HoldsOrStutters DEF MarkDispatched, MappingInv
  <1>2. CASE sent' # sent
    <2>1. /\ a \in Admissions /\ n \in 1..2 /\ r \in 1..last
          /\ rows[r].status = "reserved" /\ ~rows[r].held /\ adm[a].state = "prepared"
          /\ sent' = [sent EXCEPT ![a] = @ + 1]
          /\ rows' = [rows EXCEPT ![r].lease = "future"]
          /\ UNCHANGED <<usage, result, charged, last>>
      BY <1>2 DEF MarkDispatched, Dispatchable, MappingInv, IInv, Core, WorkersOK, Admissions
    <2>2. r = last /\ last \in Rows /\ charged = 0 /\ phaseOf = "open"
      BY <2>1, LiveIsOpen DEF MappingInv
    <2>3. phaseOf' = "open"
      <3>1. rows \in [Rows -> Reservation]
        BY DEF MappingInv, IInv, Core, TypeOK
      <3>2. rows'[last] = [rows[last] EXCEPT !.lease = "future"] /\ rows[last] \in Reservation
        BY <2>1, <2>2, <3>1
      <3>3. ~rows'[last].held
        BY <2>1, <2>2, <3>2 DEF Reservation
      <3> QED BY <2>1, <2>2, <3>3 DEF phaseOf
    <2>4. sent \in [Admissions -> Nat] /\ sent[a] = 0
      BY <2>1 DEF MappingInv, IInv, Core, TypeOK, History
    <2>5. a \notin askedOf /\ askedOf' = askedOf \cup {a}
      BY <2>1, <2>4 DEF askedOf
    <2>6. deliveredOf' = deliveredOf
      BY <2>1 DEF deliveredOf
    <2>7. n = 2 => usage[<<s, 1>>] = "retryable" /\ <<s, 1>> \in askedOf
      <3>1. ASSUME n = 2 PROVE usage[<<s, 1>>] = "retryable"
        BY <2>1, <3>1 DEF MappingInv, IInv, History
      <3>2. <<s, 1>> \in Admissions
        BY DEF Admissions
      <3> QED BY <3>1, <3>2 DEF MappingInv, Answered, askedOf, Outcomes
    <2>8. s \notin deliveredOf
      <3> SUFFICES ASSUME result[s] # 0, usage[<<s, result[s]>>] = "ok" PROVE FALSE
        BY DEF deliveredOf
      <3>1. result[s] \in 1..2
        <4>1. result[s] \in 0..2
          BY DEF MappingInv, IInv, Core, TypeOK
        <4> QED BY <4>1
      <3>2. <<s, result[s]>> \in Admissions
        BY <3>1 DEF Admissions
      <3>3. sent[<<s, result[s]>>] = 1
        BY <3>2 DEF MappingInv, Answered, Outcomes, Completed
      <3>4. result[s] # n
        BY <2>4, <3>3
      <3>5. CASE n = 2
        BY <2>1, <2>7, <3>1, <3>4, <3>5
      <3>6. CASE n = 1 /\ result[s] = 2
        <4>1. <<s, 1>> \in Admissions /\ adm[<<s, 2>>].state # "none"
          BY <3>2, <3>6 DEF MappingInv, IInv, Core, AdmissionsOK, Admissions
        <4>2. usage[<<s, 1>>] = "retryable"
          BY <4>1 DEF MappingInv, IInv, History
        <4>3. sent[<<s, 1>>] = 1
          BY <4>1, <4>2 DEF MappingInv, Answered, Outcomes, Completed
        <4> QED BY <2>4, <3>6, <4>3
      <3> QED BY <2>1, <3>1, <3>4, <3>5, <3>6
    <2>9. Request!Ask(s, n)
      BY <2>2, <2>3, <2>5, <2>6, <2>7, <2>8 DEF Request!Ask
    <2> QED BY <2>1, <2>9 DEF Request!PromiseNext
  <1> QED BY <1>1, <1>2

\* Once a stage has a stored result, the attempt that produced it is the only
\* one that may still be recorded as usable.
LEMMA StoredIsLatest ==
  ASSUME IInv, NEW s \in Stages, NEW n \in Attempts, result[s] # 0,
         usage[<<s, n>>] \in {"none", "ok"}, adm[<<s, n>>].state # "none"
  PROVE  result[s] = n
  <1>1. result[s] \in 0..2
    BY DEF IInv, Core, TypeOK
  <1>2. result[s] \in Attempts
    BY <1>1
  <1>3. usage[<<s, result[s]>>] \in Completed
    BY DEF IInv, History
  <1>4. <<s, result[s]>> \in Admissions
    BY <1>2 DEF Admissions
  <1>5. adm[<<s, result[s]>>].state # "none"
    BY <1>3, <1>4 DEF IInv, Core, AdmissionsOK, Completed
  <1>6. result[s] = 1 => adm[<<s, 2>>].state = "none"
    BY <1>3 DEF IInv, History, Completed
  <1>7. n = 1 => adm[<<s, 2>>].state = "none"
    BY DEF IInv, History
  <1> QED BY <1>2, <1>5, <1>6, <1>7

\* Recording a usable answer of a request that is not held delivers the stage
\* (again, when the same answer is recorded twice); recording an ambiguous
\* outcome holds the request; any other record is a stutter.
LEMMA RecordMaps ==
  ASSUME MappingInv, IInv', HoldKept, NEW w \in Workers, NEW s \in Stages, RecordAttempt(w, s)
  PROVE  [Request!PromiseNext]_Request!promise
  <1> DEFINE r == work[w].row
             n == call[w][s].n
             a == <<s, n>>
  <1>1. PICK o \in Reports(call[w][s].pc) :
          /\ Recordable(w, s, o)
          /\ \E row \in Recorded(r, o) : rows' = [rows EXCEPT ![r] = [row EXCEPT !.lease = "future"]]
          /\ usage' = [usage EXCEPT ![a] = o]
          /\ result' = IF o \in Completed /\ result[s] = 0 THEN [result EXCEPT ![s] = n] ELSE result
          /\ UNCHANGED <<last, charged, sent>>
          /\ work[w].pc # "idle"
    BY DEF RecordAttempt
  <1>2. /\ o \in Outcomes /\ n \in Attempts /\ a \in Admissions /\ usage[a] \in {"none", o}
        /\ r \in 1..last /\ rows[r].status = "reserved" /\ adm[a].row = r
    BY <1>1 DEF Reports, MappingInv, IInv, Core, WorkersOK, Admissions, Recordable, Claimant
  <1>3. r = last /\ last \in Rows /\ charged = 0 /\ (rows[r].held \/ phaseOf = "open")
    BY <1>2, LiveIsOpen DEF MappingInv
  <1>4. PICK row \in Recorded(r, o) : rows' = [rows EXCEPT ![r] = [row EXCEPT !.lease = "future"]]
    BY <1>1
  <1>5. /\ row \in Reservation /\ (rows[r].held => row = rows[r]) /\ (o = "unknown" => row.held)
    BY <1>2, <1>4, RecordedRow DEF MappingInv, IInv
  <1>6. rows'[last].held = row.held
    <2>1. rows'[last] = [row EXCEPT !.lease = "future"]
      BY <1>3, <1>4 DEF MappingInv, IInv, Core, TypeOK
    <2> QED BY <1>5, <2>1 DEF Reservation
  <1>7. askedOf' = askedOf
    BY <1>1 DEF askedOf
  <1>8. /\ usage'[a] = o
        /\ \A b \in Admissions \ {a} : usage'[b] = usage[b]
        /\ result'[s] = (IF o \in Completed /\ result[s] = 0 THEN n ELSE result[s])
        /\ \A t \in Stages \ {s} : result'[t] = result[t]
    BY <1>1, <1>2 DEF MappingInv, IInv, Core, TypeOK
  <1>9. result[s] \in 0..2 /\ \A t \in Stages : result[t] # 0 => <<t, result[t]>> \in Admissions
    <2>1. \A t \in Stages : result[t] \in 0..2
      BY DEF MappingInv, IInv, Core, TypeOK
    <2> QED BY <2>1 DEF Admissions
  <1>10. \A t \in Stages \ {s} : t \in deliveredOf' <=> t \in deliveredOf
    BY <1>8, <1>9 DEF deliveredOf
  <1>11. ASSUME o # "ok" PROVE deliveredOf' = deliveredOf
    <2>1. s \in deliveredOf' => s \in deliveredOf
      <3> SUFFICES ASSUME result'[s] # 0, usage'[<<s, result'[s]>>] = "ok"
                   PROVE  result[s] # 0 /\ usage[<<s, result[s]>>] = "ok"
        BY DEF deliveredOf
      <3>1. result'[s] # n
        BY <1>8, <1>11
      <3>2. result'[s] = result[s]
        BY <1>8, <3>1
      <3> QED BY <1>8, <1>9, <3>1, <3>2
    <2>2. s \in deliveredOf => s \in deliveredOf'
      <3> SUFFICES ASSUME result[s] # 0, usage[<<s, result[s]>>] = "ok"
                   PROVE  result'[s] # 0 /\ usage'[<<s, result'[s]>>] = "ok"
        BY DEF deliveredOf
      <3>1. <<s, result[s]>> # a
        BY <1>2, <1>11
      <3> QED BY <1>8, <1>9, <3>1
    <2> QED BY <1>10, <2>1, <2>2 DEF deliveredOf
  <1>12. CASE o = "ok"
    <2>1. ~rows[r].held /\ ~row.held
      <3> DEFINE old == rows[r]
                 new == [old EXCEPT !.held = FALSE]
      <3>1. old \in Reservation /\ old.status = "reserved"
        BY <1>2, <1>3 DEF MappingInv, IInv, Core, TypeOK
      <3>2. ~new.held /\ new.status = "reserved"
        BY <3>1 DEF Reservation
      <3>3. row \in HoldTrigger(r, old, new, "none")
        BY <1>4, <1>12 DEF Recorded
      <3> HIDE DEF new, old
      <3>4. row \in (IF old.held THEN HeldUpdate(old, new) ELSE {new})
        BY <3>1, <3>2, <3>3 DEF HoldTrigger
      <3>5. row = new /\ ~old.held
        BY <3>2, <3>4 DEF HeldUpdate
      <3> QED BY <3>2, <3>5 DEF old
    <2>2. phaseOf = "open" /\ phaseOf' = "open"
      BY <1>1, <1>3, <1>6, <2>1 DEF phaseOf
    <2>3. result'[s] # 0 /\ usage'[<<s, result'[s]>>] = "ok"
      <3>1. CASE result[s] = 0
        BY <1>2, <1>8, <1>12, <3>1 DEF Completed
      <3>2. CASE result[s] # 0
        <4>1. adm[a].state # "none"
          BY <1>2, <1>3 DEF MappingInv, IInv, Core, AdmissionsOK
        <4>2. result[s] = n
          BY <1>2, <1>12, <3>2, <4>1, StoredIsLatest DEF MappingInv
        <4> QED BY <1>2, <1>8, <1>12, <3>2, <4>2
      <3> QED BY <3>1, <3>2
    <2>4. s \in deliveredOf'
      BY <2>3 DEF deliveredOf
    <2>5. \E m \in 1..2 : <<s, m>> \in askedOf
      <3>1. call[w][s].pc = "sent"
        BY <1>1, <1>12 DEF Reports
      <3>2. sent[a] = 1
        BY <3>1 DEF MappingInv, Awaited
      <3> QED BY <1>2, <3>2 DEF askedOf
    <2>6. CASE s \in deliveredOf
      <3>1. deliveredOf' = deliveredOf
        BY <1>10, <2>4, <2>6 DEF deliveredOf
      <3> QED BY <1>7, <2>2, <3>1 DEF Request!promise
    <2>7. CASE s \notin deliveredOf
      <3>1. deliveredOf' = deliveredOf \cup {s}
        BY <1>10, <2>4 DEF deliveredOf
      <3>2. Request!Deliver(s)
        BY <1>7, <2>2, <2>5, <2>7, <3>1 DEF Request!Deliver
      <3> QED BY <3>2 DEF Request!PromiseNext
    <2> QED BY <2>6, <2>7
  <1>13. CASE o # "ok"
    <2>1. phaseOf' = phaseOf \/ (phaseOf = "open" /\ phaseOf' = "held")
      BY <1>1, <1>3, <1>5, <1>6 DEF phaseOf
    <2>2. CASE phaseOf' = phaseOf
      BY <1>7, <1>11, <1>13, <2>2 DEF Request!promise
    <2>3. CASE phaseOf = "open" /\ phaseOf' = "held"
      BY <1>7, <1>11, <1>13, <2>3 DEF Request!PromiseNext, Request!HoldRequest
    <2> QED BY <2>1, <2>2, <2>3
  <1> QED BY <1>12, <1>13

-----------------------------------------------------------------------------
(* The refinement *)

\* Every step of the detailed specification is a step of the promise or a stutter.
LEMMA StepMaps ==
  ASSUME MappingInv, IInv', [Next]_vars
  PROVE  [Request!PromiseNext]_Request!promise
  <1>1. Core' /\ HoldKept
    BY CoreStep, CoreStutter DEF MappingInv, IInv
  <1>2. CASE UNCHANGED vars
    BY <1>2 DEF vars, Request!promise, phaseOf, askedOf, deliveredOf
  <1>3. ASSUME NEW w \in Workers, Settle(w) PROVE [Request!PromiseNext]_Request!promise
    BY <1>1, <1>3, SettleMaps DEF MappingInv
  <1>4. ASSUME NEW w \in Workers, NEW s \in Stages,
               ReadCheckpoint(w, s) \/ MarkDispatched(w, s) \/ RecordAttempt(w, s)
        PROVE  [Request!PromiseNext]_Request!promise
    BY <1>1, <1>4, CheckpointMaps, DispatchMaps, RecordMaps DEF MappingInv
  <1>5. ASSUME QuietNext, charged' = charged PROVE [Request!PromiseNext]_Request!promise
    BY <1>1, <1>5, QuietMaps DEF MappingInv
  <1>6. ASSUME Next
        PROVE  \/ \E w \in Workers : Settle(w)
               \/ \E w \in Workers, s \in Stages :
                    ReadCheckpoint(w, s) \/ MarkDispatched(w, s) \/ RecordAttempt(w, s)
               \/ QuietNext /\ charged' = charged
    <2>1. \A w \in Workers :
            /\ \A late \in BOOLEAN : Reserve(w, late) => charged' = charged
            /\ \A code \in {"none", "reconcile"} : Release(w, code) => charged' = charged
            /\ Exit(w) => charged' = charged
            /\ \A s \in Stages : DispatchFails(w, s) \/ RecordRejected(w, s) => charged' = charged
      BY DEF Reserve, Admit, Reclaim, Observe, Release, Exit, DispatchFails, RecordRejected
    <2>2. SweepByOtherRequest \/ Elapse => charged' = charged
      BY DEF SweepByOtherRequest, Elapse
    <2> QED BY <1>6, <2>1, <2>2 DEF Next, QuietNext
  <1> QED BY <1>2, <1>3, <1>4, <1>5, <1>6

\* The generate-document request keeps its promise: for every number of
\* invocations, stages, reservations and claims, no provider request is
\* repeated, none follows a hold or a charge, and only a complete document is
\* charged, once.
THEOREM LegacyKeepsPromise == Spec => KeepsPromise
  <1>1. Init => Request!PromiseInit
    BY DEF Init, Request!PromiseInit, phaseOf, askedOf, deliveredOf
  <1>2. MappingInv /\ MappingInv' /\ [Next]_vars => [Request!PromiseNext]_Request!promise
    BY StepMaps DEF MappingInv
  <1> QED BY <1>1, <1>2, MappingInvariant, PTL DEF Spec, KeepsPromise, Request!Promise
=============================================================================
