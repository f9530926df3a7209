-------------------------- MODULE LegacyGeneration --------------------------
(***************************************************************************)
(* One generate-document request of the legacy path, from the allowance    *)
(* reservation to the settled document, as the database functions and the  *)
(* edge function that calls them carry it out.                             *)
(*                                                                         *)
(* Durable state (Postgres): the reservation rows of the request with the  *)
(* execution claim of each, the attempt admissions, the model_call rows of *)
(* the usage ledger, the immutable stage results and the document_created  *)
(* charge.  Volatile state: the edge-function invocations ("workers") that *)
(* hold a reservation and a claim token and run several stages at once.    *)
(*                                                                         *)
(* Every database function runs under the advisory lock of its billing     *)
(* period, so it is one atomic action.  It reads its clock at entry,       *)
(* BEFORE it waits for that lock: a call may still see a deadline as open  *)
(* that has passed meanwhile (the parameter "late").  A deadline is        *)
(* modelled by whether it lies in the future, in the past, or was set to   *)
(* infinity; time passing is the action Elapse.                            *)
(***************************************************************************)
EXTENDS Integers, FiniteSets

CONSTANTS
  Workers,      \* edge-function invocations that may serve the request
  Stages,       \* logical stage keys of the document pipeline
  DraftStages,  \* the stages every document needs (phase "draft")
  SectionOf,    \* the document section a stage writes
  MaxAttempts,  \* route maxAttempts: provider attempts of one stage
  MaxRows,      \* bound: reservation attempts of the request
  MaxTokens,    \* bound: execution claims ever issued
  MaxMonth      \* bound: billing periods that begin

ASSUME ConstantsAssumption ==
  /\ DraftStages \subseteq Stages
  /\ SectionOf \in [Stages -> Stages]
  /\ MaxAttempts \in 1..2
  /\ MaxRows \in Nat /\ MaxTokens \in Nat /\ MaxMonth \in Nat

VARIABLES
  month,    \* the current UTC billing period
  rows,     \* document_allowance_reservations of the request, by attempt
  last,     \* the latest attempt_number (0: none)
  adm,      \* legacy_model_attempt_admissions by <<stage, attempt>>
  usage,    \* usage_ledger model_call row of an admission
  result,   \* legacy_model_call_results: the attempt that produced it
  charged,  \* document_created usage row: the reservation it settled
  issued,   \* claim tokens issued so far
  work,     \* per worker: program counter, reservation and claim token
  call,     \* per worker and stage: the provider call under way
  sent      \* provider requests that left the process, per admission

vars == <<month, rows, last, adm, usage, result, charged, issued, work, call, sent>>

Attempts   == 1..2
Admissions == Stages \X Attempts
Rows       == 1..MaxRows
Deadline   == {"future", "past", "infinity"}

(* What a model_call row says: "ok" and "rejected" are completed provider  *)
(* answers (the second unusable), "retryable" is an upstream 429, "failed" *)
(* any other provider failure, "unknown" an ambiguous one; "refused" never *)
(* crossed the provider boundary (rejected_before_provider or cancelled).  *)
Completed == {"ok", "rejected"}
Outcomes  == Completed \cup {"retryable", "failed", "unknown", "refused"}

Reservation ==
  [status: {"absent", "reserved", "settled", "released", "expired"},
   period: 0..MaxMonth, expires: Deadline, held: BOOLEAN,
   token: 0..MaxTokens, lease: Deadline]
Admission ==
  [state: {"none", "prepared", "dispatched"}, row: 0..MaxRows,
   token: 0..MaxTokens, lease: Deadline]
Worker == [pc: {"idle", "running", "ended"}, row: 0..MaxRows, token: 0..MaxTokens]
Call ==
  [pc: {"none", "prepared", "sent", "ambiguous", "refused", "done", "failed", "reconcile"},
   n: 0..2]

AbsentRow == [status |-> "absent", period |-> 0, expires |-> "past",
              held |-> FALSE, token |-> 0, lease |-> "past"]
NoAdmission == [state |-> "none", row |-> 0, token |-> 0, lease |-> "past"]
Idle   == [pc |-> "idle", row |-> 0, token |-> 0]
NoCall == [pc |-> "none", n |-> 0]

Init ==
  /\ month = 0
  /\ rows = [r \in Rows |-> AbsentRow]
  /\ last = 0
  /\ adm = [a \in Admissions |-> NoAdmission]
  /\ usage = [a \in Admissions |-> "none"]
  /\ result = [s \in Stages |-> 0]
  /\ charged = 0
  /\ issued = 0
  /\ work = [w \in Workers |-> Idle]
  /\ call = [w \in Workers |-> [s \in Stages |-> NoCall]]
  /\ sent = [a \in Admissions |-> 0]

-----------------------------------------------------------------------------
(* Shared predicates of the database functions *)

\* A deadline comparison "<= v_now"; a late caller read its clock earlier.
Expired(deadline, late) == deadline = "past" /\ ~late

\* Mutant: only a dispatched admission counts as unresolved.
Unresolved_DispatchedOnly(r, st) ==
  /\ st = "dispatched"
  /\ \E a \in Admissions : adm[a].row = r /\ adm[a].state = st /\ usage[a] = "none"

\* Admissions of row r in state st that have no model_call row yet.
Unresolved(r, st) ==
  \E a \in Admissions : adm[a].row = r /\ adm[a].state = st /\ usage[a] = "none"

\* Dispatched provider failures that count against the operation's budget.
Failures(r) ==
  {a \in Admissions : /\ adm[a].row = r
                      /\ adm[a].state = "dispatched"
                      /\ usage[a] \in {"retryable", "failed"}}
\* Mutant: off by one.
BudgetExhausted_OffByOne(r) == Cardinality(Failures(r)) > 2
BudgetExhausted(r) == Cardinality(Failures(r)) >= 2

\* Another repair of the same section was already dispatched.
RepairTaken(s, r) ==
  /\ s \notin DraftStages
  /\ \E t \in Stages \ (DraftStages \cup {s}), n \in Attempts :
       /\ SectionOf[t] = SectionOf[s]
       /\ adm[<<t, n>>].row = r
       /\ adm[<<t, n>>].state = "dispatched"

\* A row that waits for reconciliation is flagged and never expires.
NeverExpires(row) == [row EXCEPT !.expires = "infinity"]
Hold(row) == [NeverExpires(row) EXCEPT !.held = TRUE]

\* Mutant: the reservation stays but keeps its elapsed expiry.
KeptForResume_StillExpires(old) == old
\* An undispatched attempt keeps its reservation alive for a later claimant.
KeptForResume(old) == NeverExpires(old)

\* Mutant: no protection of held rows.
HeldUpdate_Unprotected(old, new) == {new}
\* A held row only tolerates an update that changes none of these columns.
HeldUpdate(old, new) == IF new = old THEN {old} ELSE {}

\* The BEFORE UPDATE trigger on reservations: the row that is stored when
\* "new" is written with release code "code"; no row when the write raises.
\* A row kept "reserved" cannot carry settlement columns (table CHECK), so
\* settling with an unresolved admission raises.
HoldTrigger(r, old, new, code) ==
  LET leaving    == old.status = "reserved" /\ new.status # "reserved"
      keep(row)  == IF new.status = "settled" THEN {} ELSE {row}
      recovering == code = "reconcile" /\ new.status = "released"
  IN  IF leaving /\ Unresolved(r, "dispatched") THEN keep(Hold(old))
      ELSE IF leaving /\ Unresolved(r, "prepared") THEN keep(KeptForResume(old))
      ELSE IF recovering /\ (leaving \/ old.held) THEN {Hold(old)}
      ELSE IF old.held THEN HeldUpdate(old, new) ELSE {new}

\* The claim check shared by checkpoint and dispatch.
ClaimLive(r, token, late) ==
  rows[r].token = token /\ ~Expired(rows[r].lease, late)

-----------------------------------------------------------------------------
(* reserve_document_allowance_with_policy: sweep, replay, reclaim or admit *)

\* The sweep of the current period, as it leaves the latest row.
Swept(late) ==
  IF /\ rows[last].period = month
     /\ rows[last].status = "reserved"
     /\ Expired(rows[last].expires, late)
  THEN HoldTrigger(last, rows[last], [rows[last] EXCEPT !.status = "expired"], "expired")
  ELSE {rows[last]}

\* A reserved row whose execution claim has just been issued.
JustClaimed(period) ==
  [status |-> "reserved", period |-> period, expires |-> "future", held |-> FALSE,
   token |-> issued + 1, lease |-> "future"]

\* Insert the next reservation attempt and its execution claim.  The unique
\* index over live rows rejects it while the latest row is still live.
Admit(w, stored) ==
  /\ last < MaxRows /\ issued < MaxTokens
  /\ last > 0 => stored.status \in {"released", "expired"}
  /\ charged = 0
  /\ rows' = [r \in Rows |->
       IF r = last + 1 THEN JustClaimed(month) ELSE IF r = last THEN stored ELSE rows[r]]
  /\ last' = last + 1
  /\ issued' = issued + 1
  /\ work' = [work EXCEPT ![w] = [pc |-> "running", row |-> last + 1, token |-> issued + 1]]
  /\ UNCHANGED <<month, adm, usage, result, charged, call, sent>>

\* Mutant: open admissions keep the old token.
Reclaim_AdmissionsStay(w, stored) ==
  /\ issued < MaxTokens
  /\ rows' = [rows EXCEPT ![last] = JustClaimed(stored.period)]
  /\ issued' = issued + 1
  /\ work' = [work EXCEPT ![w] = [pc |-> "running", row |-> last, token |-> issued + 1]]
  /\ UNCHANGED <<month, last, adm, usage, result, charged, call, sent>>

\* A live reservation whose worker is silent: rotate the claim, move every
\* undispatched admission to the new token and run again.
Reclaim(w, stored) ==
  /\ issued < MaxTokens
  /\ rows' = [rows EXCEPT ![last] = JustClaimed(stored.period)]
  /\ adm' = [a \in Admissions |->
       IF adm[a].row = last /\ adm[a].state = "prepared" /\ usage[a] = "none"
       THEN [adm[a] EXCEPT !.token = issued + 1] ELSE adm[a]]
  /\ issued' = issued + 1
  /\ work' = [work EXCEPT ![w] = [pc |-> "running", row |-> last, token |-> issued + 1]]
  /\ UNCHANGED <<month, last, usage, result, charged, call, sent>>

\* A live reservation that may not be reclaimed: unchanged while it is held or
\* its lease runs, held for reconciliation when the lapsed claim left a
\* dispatched attempt without a result.
Observe(stored, unresolved) ==
  /\ rows' = [rows EXCEPT ![last] =
       IF unresolved THEN Hold(stored) ELSE stored]
  /\ UNCHANGED <<month, last, adm, usage, result, charged, issued, work, call, sent>>

Reserve(w, late) ==
  /\ work[w].pc = "idle"
  /\ \/ last = 0 /\ Admit(w, AbsentRow)
     \/ last > 0 /\ \E row \in Swept(late) :
          \/ row.status \in {"released", "expired"} /\ Admit(w, row)
          \/ /\ row.status = "reserved" /\ Expired(row.expires, late)
             /\ \E closed \in HoldTrigger(last, row, [row EXCEPT !.status = "expired"], "expired") :
                  Admit(w, closed)
          \/ /\ row.status = "reserved" /\ ~Expired(row.expires, late)
             /\ LET lapsed     == ~row.held /\ row.lease = "past"
                    unresolved == \E r \in Rows : Unresolved(r, "dispatched")
                IN  IF lapsed /\ ~unresolved THEN Reclaim(w, row)
                                             ELSE Observe(row, lapsed /\ unresolved)

\* Any other request of the same user runs the same sweep.
SweepByOtherRequest ==
  /\ last > 0
  /\ \E row \in Swept(FALSE) : row # rows[last] /\ rows' = [rows EXCEPT ![last] = row]
  /\ UNCHANGED <<month, last, adm, usage, result, charged, issued, work, call, sent>>

-----------------------------------------------------------------------------
(* read_legacy_model_call_checkpoint *)

\* The latest admitted attempt of a stage; attempts are numbered from 1.
LatestAttempt(s) ==
  IF adm[<<s, 2>>].state # "none" THEN 2
  ELSE IF adm[<<s, 1>>].state # "none" THEN 1 ELSE 0

\* Mutants: every provider failure is retried; the attempt limit is forgotten.
Retryable_AnyFailure(a) == usage[a] \in {"retryable", "failed"} /\ a[2] < MaxAttempts
Retryable_NoLimit(a) == usage[a] = "retryable"

\* A recorded attempt that permits the next one.
Retryable(a) == usage[a] = "retryable" /\ a[2] < MaxAttempts

\* Mutant: an unusable provider answer counts as done.
UsableResult_Any(s) == result[s] # 0
\* The stored provider result of a stage can be used.
UsableResult(s) == usage[<<s, result[s]>>] = "ok"

\* The answer to the live claimant of row r about stage s.  "denied" stands
\* for the two answers that roll the heartbeat back: a raised token conflict
\* and the failure budget.
Answers(r, token, s, answer) ==
  LET n == LatestAttempt(s)
      a == <<s, n>>
      none  == result[s] = 0
      open  == n # 0 /\ usage[a] = "none"
      fresh == n # 0 => Retryable(a)
  IN  \/ ~none /\ answer = (IF UsableResult(s) THEN "done" ELSE "failed")
      \/ none /\ open /\ adm[a].state = "dispatched" /\ answer = "reconcile"
      \/ /\ none /\ open /\ adm[a].state = "prepared"
         /\ answer = (IF adm[a].token = token THEN "resume" ELSE "denied")
      \/ /\ none /\ ~open /\ fresh
         /\ answer = (IF BudgetExhausted(r) THEN "denied" ELSE "admit")
      \/ /\ none /\ ~open /\ ~fresh
         /\ answer = (IF usage[a] = "unknown" THEN "reconcile" ELSE "failed")

SetCall(w, s, pc, n) == call' = [call EXCEPT ![w][s] = [pc |-> pc, n |-> n]]

ReadCheckpoint(w, s) ==
  LET r     == work[w].row
      token == work[w].token
      \* The checkpoint runs for the live claimant of a row that is not held.
      claimed(late) == /\ ~rows[r].held /\ rows[r].status = "reserved"
                       /\ ClaimLive(r, token, late)
      Answered(answer) == (\E late \in BOOLEAN : claimed(late)) /\ Answers(r, token, s, answer)
      Prepare(n, row) ==
        /\ SetCall(w, s, "prepared", n)
        /\ rows' = [rows EXCEPT ![r].lease = "future"]
        /\ adm' = [adm EXCEPT ![<<s, n>>] = [state |-> "prepared", row |-> row,
                                             token |-> token, lease |-> "future"]]
  IN  /\ work[w].pc # "idle" /\ call[w][s].pc = "none"
      /\ \/ /\ \E late \in BOOLEAN : ~claimed(late)
            /\ SetCall(w, s, IF rows[r].held THEN "reconcile" ELSE "failed", 0)
            /\ UNCHANGED <<rows, adm>>
         \/ /\ Answered("denied")
            /\ SetCall(w, s, "failed", 0)
            /\ UNCHANGED <<rows, adm>>
         \/ /\ \E answer \in {"done", "failed", "reconcile"} :
                 Answered(answer) /\ SetCall(w, s, answer, 0)
            /\ rows' = [rows EXCEPT ![r].lease = "future"]
            /\ adm' = adm
         \/ Answered("admit") /\ Prepare(LatestAttempt(s) + 1, r)
         \/ Answered("resume") /\ Prepare(LatestAttempt(s), adm[<<s, LatestAttempt(s)>>].row)
      /\ UNCHANGED <<month, last, usage, result, charged, issued, work, sent>>

-----------------------------------------------------------------------------
(* mark_legacy_model_attempt_dispatched, and the network call behind it *)

\* Mutant: the dispatch boundary ignores a reconciliation hold.
Dispatchable_HeldToo(w, s, late) ==
  LET a == <<s, call[w][s].n>>
  IN  /\ rows[work[w].row].status = "reserved" /\ ClaimLive(work[w].row, work[w].token, late)
      /\ adm[a].row = work[w].row /\ adm[a].token = work[w].token
      /\ adm[a].state = "prepared" /\ ~Expired(adm[a].lease, late)

\* The row, claim and admission checks of the dispatch boundary.
Dispatchable(w, s, late) ==
  LET r == work[w].row
      a == <<s, call[w][s].n>>
  IN  /\ rows[r].status = "reserved" /\ ~rows[r].held
      /\ ClaimLive(r, work[w].token, late)
      /\ adm[a].row = r /\ adm[a].token = work[w].token
      /\ adm[a].state = "prepared" /\ ~Expired(adm[a].lease, late)

\* Mutant: the repair budget is not checked at dispatch.
WithinBudget_FailuresOnly(w, s) == ~BudgetExhausted(work[w].row)

\* The failure and repair budgets, checked again by the trigger at dispatch.
WithinBudget(w, s) == ~BudgetExhausted(work[w].row) /\ ~RepairTaken(s, work[w].row)

\* The dispatch commits.  Only an acknowledged one is followed by the provider
\* request; when the acknowledgement and its retry are both lost the worker
\* treats the attempt as ambiguous and sends nothing.
MarkDispatched(w, s) ==
  LET r == work[w].row
      n == call[w][s].n
      a == <<s, n>>
  IN  /\ work[w].pc # "idle" /\ call[w][s].pc = "prepared"
      /\ \E late \in BOOLEAN : Dispatchable(w, s, late)
      /\ WithinBudget(w, s)
      /\ adm' = [adm EXCEPT ![a] = [state |-> "dispatched", row |-> r,
                                    token |-> work[w].token, lease |-> "future"]]
      /\ rows' = [rows EXCEPT ![r].lease = "future"]
      /\ \/ SetCall(w, s, "sent", n) /\ sent' = [sent EXCEPT ![a] = @ + 1]
         \/ SetCall(w, s, "ambiguous", n) /\ sent' = sent
      /\ UNCHANGED <<month, last, usage, result, charged, issued, work>>

\* The prepared call never becomes a provider request: it was refused by a
\* budget, by missing configuration or capacity, cancelled by the caller, its
\* route deadline passed (nothing is recorded then), or the dispatch RPC
\* failed without a budget code, which the worker cannot tell from a lost
\* acknowledgement.
DispatchFails(w, s) ==
  /\ work[w].pc # "idle" /\ call[w][s].pc = "prepared"
  /\ \/ SetCall(w, s, "failed", 0)
     \/ \E pc \in {"refused", "ambiguous"} : SetCall(w, s, pc, call[w][s].n)
  /\ UNCHANGED <<month, rows, last, adm, usage, result, charged, issued, work, sent>>

-----------------------------------------------------------------------------
(* record_legacy_model_call_attempt *)

\* What a call may report: the provider's answer, or why there was none.
Reports(pc) ==
  {o \in Outcomes : \/ pc = "sent" /\ o # "refused"
                    \/ pc = "ambiguous" /\ o = "unknown"
                    \/ pc = "refused" /\ o = "refused"}

\* The reservation row the function writes for outcome o: an unknown outcome
\* holds it, any other one clears the reconciliation columns.
Recorded(r, o) ==
  HoldTrigger(r, rows[r],
    IF o = "unknown" THEN Hold(rows[r]) ELSE [rows[r] EXCEPT !.held = FALSE],
    "none")

\* The reservation, claim (its lease is not checked) and admission checks.
Claimant(w, s) ==
  LET r == work[w].row
      a == <<s, call[w][s].n>>
  IN  /\ rows[r].status = "reserved" /\ rows[r].token = work[w].token
      /\ adm[a].row = r /\ adm[a].token = work[w].token

Recordable(w, s, o) ==
  LET a == <<s, call[w][s].n>>
  IN  /\ Claimant(w, s)
      /\ (adm[a].state = "dispatched") <=> (o # "refused")
      /\ usage[a] \in {"none", o}
      /\ Recorded(work[w].row, o) # {}

RecordAttempt(w, s) ==
  LET r == work[w].row
      n == call[w][s].n
      a == <<s, n>>
  IN  \E o \in Reports(call[w][s].pc) :
        /\ work[w].pc # "idle"
        /\ Recordable(w, s, o)
        /\ \E row \in Recorded(r, o) : rows' = [rows EXCEPT ![r] = [row EXCEPT !.lease = "future"]]
        /\ usage' = [usage EXCEPT ![a] = o]
        /\ result' = IF o \in Completed /\ result[s] = 0 THEN [result EXCEPT ![s] = n] ELSE result
        /\ \/ o = "ok" /\ SetCall(w, s, "done", 0)
           \/ o = "retryable" /\ n < MaxAttempts /\ SetCall(w, s, "none", 0)
           \/ /\ o \in Outcomes \ {"ok", "unknown"} /\ (o = "retryable" => n >= MaxAttempts)
              /\ SetCall(w, s, "failed", 0)
           \/ SetCall(w, s, "reconcile", 0)   \* unknown, or both acknowledgements lost
        /\ UNCHANGED <<month, last, adm, charged, issued, work, sent>>

\* The function raises: nothing is stored and the stage fails.
RecordRejected(w, s) ==
  /\ work[w].pc # "idle"
  /\ \E o \in Reports(call[w][s].pc) : ~Recordable(w, s, o)
  /\ SetCall(w, s, "failed", 0)
  /\ UNCHANGED <<month, rows, last, adm, usage, result, charged, issued, work, sent>>

-----------------------------------------------------------------------------
(* The end of a request: settle, release, hold, or the process just dies *)

\* settle_document_allowance_with_result, once every draft stage is done and
\* no stage is under way.  A failed settlement is not followed by a release.
Settle(w) ==
  LET r == work[w].row
  IN  /\ work[w].pc = "running"
      /\ \A s \in DraftStages : call[w][s].pc = "done"
      /\ \A s \in Stages : call[w][s].pc \in {"none", "done"}
      /\ \/ /\ rows[r].status = "reserved"
            /\ \E late \in BOOLEAN : ~Expired(rows[r].expires, late)
            /\ rows' \in {[rows EXCEPT ![r] = row] :
                 row \in HoldTrigger(r, rows[r], [rows[r] EXCEPT !.status = "settled"], "none")}
            /\ charged' = IF charged = 0 THEN r ELSE charged
         \/ UNCHANGED <<rows, charged>>   \* settled already, refused, or no answer
      /\ work' = [work EXCEPT ![w].pc = "ended"]
      /\ UNCHANGED <<month, last, adm, usage, result, issued, call, sent>>

\* release_document_allowance with the given code: a failed or disconnected
\* request releases, one that met an ambiguous outcome asks for a hold.  It
\* checks no claim, and other stages of the worker may still be running.
Release(w, code) ==
  LET r == work[w].row
  IN  /\ work[w].pc = "running"
      /\ code = "reconcile" => \E s \in Stages : call[w][s].pc = "reconcile"
      /\ \/ /\ rows[r].status = "reserved"
            /\ rows' \in {[rows EXCEPT ![r] = row] :
                 row \in HoldTrigger(r, rows[r], [rows[r] EXCEPT !.status = "released"], code)}
         \/ UNCHANGED rows                \* closed already, refused, or no answer
      /\ work' = [work EXCEPT ![w].pc = "ended"]
      /\ UNCHANGED <<month, last, adm, usage, result, charged, issued, call, sent>>

\* The invocation returns or its isolate is killed at any point.
Exit(w) ==
  /\ work[w].pc # "idle"
  /\ work' = [work EXCEPT ![w] = Idle]
  /\ call' = [call EXCEPT ![w] = [s \in Stages |-> NoCall]]
  /\ UNCHANGED <<month, rows, last, adm, usage, result, charged, issued, sent>>

-----------------------------------------------------------------------------
(* Time *)

Elapse ==
  /\ \/ /\ last > 0 /\ rows[last].status = "reserved"
        /\ \/ rows[last].expires = "future" /\ rows' = [rows EXCEPT ![last].expires = "past"]
           \/ rows[last].lease = "future" /\ rows' = [rows EXCEPT ![last].lease = "past"]
        /\ UNCHANGED <<month, adm>>
     \/ /\ \E a \in Admissions :
             /\ adm[a].state = "prepared" /\ usage[a] = "none" /\ adm[a].lease = "future"
             /\ adm' = [adm EXCEPT ![a].lease = "past"]
        /\ UNCHANGED <<month, rows>>
     \/ month < MaxMonth /\ month' = month + 1 /\ UNCHANGED <<rows, adm>>
  /\ UNCHANGED <<last, usage, result, charged, issued, work, call, sent>>

Next ==
  \/ \E w \in Workers :
       \/ \E late \in BOOLEAN : Reserve(w, late)
       \/ Settle(w)
       \/ \E code \in {"none", "reconcile"} : Release(w, code)
       \/ Exit(w)
       \/ \E s \in Stages :
            \/ ReadCheckpoint(w, s)
            \/ MarkDispatched(w, s)
            \/ DispatchFails(w, s)
            \/ RecordAttempt(w, s)
            \/ RecordRejected(w, s)
  \/ SweepByOtherRequest
  \/ Elapse

Spec == Init /\ [][Next]_vars

\* Clients retry (with a current clock), invocations make progress and time
\* passes.
WorkerStep(w) ==
  \/ Settle(w) \/ Release(w, "none") \/ Release(w, "reconcile") \/ Exit(w)
  \/ \E s \in Stages : \/ ReadCheckpoint(w, s) \/ MarkDispatched(w, s) \/ DispatchFails(w, s)
                        \/ RecordAttempt(w, s) \/ RecordRejected(w, s)
Retry(w) == Reserve(w, FALSE) /\ work'[w].pc # "idle"
FairSpec ==
  /\ Spec
  /\ WF_vars(Elapse)
  /\ \A w \in Workers : WF_vars(WorkerStep(w)) /\ WF_vars(Retry(w))

-----------------------------------------------------------------------------
(* Properties *)

\* Every variable has its type.
TypeOK ==
  /\ month \in 0..MaxMonth
  /\ rows \in [Rows -> Reservation]
  /\ last \in 0..MaxRows
  /\ adm \in [Admissions -> Admission]
  /\ usage \in [Admissions -> Outcomes \cup {"none"}]
  /\ result \in [Stages -> 0..2]
  /\ charged \in 0..MaxRows
  /\ issued \in 0..MaxTokens
  /\ work \in [Workers -> Worker]
  /\ call \in [Workers -> [Stages -> Call]]
  /\ sent \in [Admissions -> Nat]

Open(a) == adm[a].state # "none" /\ usage[a] = "none"

\* A reservation leaves "reserved" (settled, released or expired, by any of
\* the worker, a stale worker, or the sweep of another request) only when
\* every attempt admitted under it has its model_call row: no provider work
\* escapes accounting because its allowance was closed.
ClosedMeansResolved ==
  \A a \in Admissions : Open(a) => rows[adm[a].row].status = "reserved"

\* Whoever holds the current execution claim also owns every open attempt:
\* after a reclaim the new claimant can resume each of them, and the silent
\* worker's token opens none.
ClaimOwnsOpenAttempts ==
  \A a \in Admissions : Open(a) => adm[a].row = last /\ adm[a].token = rows[last].token

\* One admission never leads to two provider requests, and the second attempt
\* of a stage is sent only after the first was recorded as a retryable
\* provider failure - never on a lease expiry, a crash or a lost answer.
NoBlindRedispatch ==
  /\ \A a \in Admissions : sent[a] <= 1
  /\ \A s \in Stages : adm[<<s, 2>>].state # "none" => usage[<<s, 1>>] = "retryable"

\* An ambiguous provider outcome keeps the reservation alive, out of reach of
\* expiry and flagged for reconciliation, whatever the other stages and the
\* other workers of the request do next.
UnknownIsHeld ==
  \A a \in Admissions : usage[a] = "unknown" =>
    LET row == rows[adm[a].row]
    IN  row.status = "reserved" /\ row.held /\ row.expires = "infinity"

\* A request is charged for one reservation only, that reservation is the
\* settled one, and a settled document rests on a usable stored result for
\* every draft stage.
SettledIsDelivered ==
  /\ \A r \in Rows : rows[r].status = "settled" <=> (charged = r)
  /\ charged # 0 => \A s \in DraftStages : result[s] # 0 /\ usage[<<s, result[s]>>] = "ok"

\* Once a reservation waits for reconciliation no step of any actor settles,
\* releases, expires or reclaims it.
HoldKept ==
  \A r \in Rows : rows[r].held =>
    /\ rows'[r].held /\ rows'[r].status = rows[r].status
    /\ rows'[r].expires = "infinity" /\ rows'[r].token = rows[r].token
HoldIsFinal == [][HoldKept]_vars

\* The budget check runs at admission and again at dispatch, so the failures
\* of one reservation exceed the first by at most the stages that can be in
\* flight together: the draft stages and one repair stage of every section.
FailuresBounded ==
  LET Repaired == {SectionOf[s] : s \in Stages \ DraftStages}
  IN  \A r \in Rows :
        Cardinality(Failures(r)) <= 1 + Cardinality(DraftStages) + Cardinality(Repaired)

\* Under one reservation at most one repair stage of a section reaches the
\* provider, although several may be admitted before the first is sent.
OneRepairPerSection ==
  \A a, b \in Admissions :
    /\ adm[a].state = "dispatched" /\ adm[b].state = "dispatched"
    /\ adm[a].row = adm[b].row
    /\ {a[1], b[1]} \cap DraftStages = {}
    /\ SectionOf[a[1]] = SectionOf[b[1]]
    => a[1] = b[1]

\* An attempt that was prepared but never sent does not stay so for ever: it
\* is dispatched or recorded, unless the request ends up held for
\* reconciliation or the bound on claims is reached.
PreparedIsResumed ==
  \A a \in Admissions :
    Open(a) /\ adm[a].state = "prepared"
      ~> ~(Open(a) /\ adm[a].state = "prepared") \/ rows[last].held \/ issued = MaxTokens

\* The claimant of a dispatched attempt may store its exact provider result
\* although an observer has put the reservation on hold meanwhile.
LateResultAccepted ==
  \A w \in Workers, s \in Stages :
    /\ work[w].pc = "running" /\ call[w][s].pc = "sent" /\ Claimant(w, s)
    => Recordable(w, s, "ok")
=============================================================================
