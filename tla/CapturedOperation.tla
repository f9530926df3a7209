------------------------- MODULE CapturedOperation -------------------------
(***************************************************************************)
(* One accepted captured document operation, from acceptance to its end:   *)
(* the operation row with its worker lease, its provider attempts and its  *)
(* allowance slot (database functions), and the background workers         *)
(* (runCapturedDocumentOperation with routeRequest inside) that resume it. *)
(*                                                                         *)
(* Every database function locks the operation row, so it is one action.   *)
(* A worker is at the next call it will make; what it computes between two *)
(* calls depends on the last answer only and belongs to the step of the    *)
(* call before.  A call may commit and its answer be lost ("ack"), or fail *)
(* without effect (Refused).  operation_revision only ever serves to       *)
(* compare a caller's copy with the row, so "fresh" keeps who would pass.  *)
(*                                                                         *)
(* An update that leaves the operation active renews its allowance         *)
(* reservation in the same transaction, which raises after expires_at.     *)
(***************************************************************************)
EXTENDS Integers, FiniteSets

CONSTANTS
  Workers,      \* background invocations; an ended or crashed one may be a new one later
  None,         \* no lease
  MaxAttempts   \* maxAttempts of both accepted routes

ASSUME CapturedAssumption == None \notin Workers /\ MaxAttempts \in 1..2

Stages     == {"generation", "review"}
Attempts   == 1..2
Terminal   == {"ready_for_review", "terminal_failure", "cancelled"}
Resumable  == {"accepted", "generating", "validating", "persisting", "awaiting_capacity",
               "retryable_failure"}
StatusOf(s) == IF s = "generation" THEN "generating" ELSE "validating"

VARIABLES
  status,   \* captured_document_operations.status
  cancel,   \* cancel_requested_at is set
  expired,  \* expires_at has passed
  due,      \* capacity_retry_after_at has passed
  route,    \* capacity_semantic_route, as the stage that waits
  lease,    \* whose lease_token the row holds
  live,     \* lease_expires_at has not passed
  attempt,  \* captured_document_provider_attempts by stage and number
  slot,     \* the reservation of the operation
  fresh,    \* workers whose operation_revision is the row's
  work,     \* the workers
  quality,  \* what validation finds in the wording, and whether facts are missing
  calm      \* no more crashes, lost answers or failing connections

row   == <<status, cancel, lease, live, slot>>
clock == <<expired, due, calm, quality>>
vars  == <<row, clock, attempt, route, fresh, work>>

\* An attempt row: "sent" is prepared with an egress dispatch, its request may
\* have left; "failed" and "unknown" are failures after that, definite or to be
\* reconciled; "free" ended without counting as a failed request: it was never
\* granted egress, was cancelled, or its answer was unusable.
AttemptStates == {"none", "prepared", "sent", "succeeded", "failed", "unknown", "free"}
OpenStates == {"prepared", "sent"}

Renewals == {"prepRenew", "completeRenew", "againRenew", "catchRenew", "reconcileRenew",
             "stopRenew", "lastRenew", "validRenew", "persistRenew"}
Points == Renewals \cup
  {"idle", "claim", "capacityClaim", "clarify", "generate", "ask", "prepare", "prepared",
   "inflight", "complete", "again", "reread", "reconcile", "stopReconcile", "stop", "defer",
   "fail", "review", "invalid", "validate", "persist", "finalize"}

\* What ended an attempt, and what the runner's catch block was given.
Outcomes == {"none", "succeeded", "retry", "failed", "unusable", "unknown", "cancelled", "early"}
Errors   == {"none", "capacity", "abort", "reconcile", "confirm", "retryable", "unconfirmed", "other"}

Idle == [pc |-> "idle", stage |-> "generation", n |-> 1, out |-> "none", err |-> "none"]
Worker == [pc: Points, stage: Stages, n: Attempts, out: Outcomes, err: Errors]

Init ==
  /\ status = "accepted" /\ cancel = FALSE /\ lease = None /\ live = FALSE /\ slot = "reserved"
  /\ expired = FALSE /\ due = FALSE /\ calm = FALSE
  /\ quality \in {"fine", "reviewable", "hopeless", "blocked"}
  /\ attempt = [s \in Stages |-> [n \in Attempts |-> "none"]]
  /\ route = "generation" /\ fresh = {}
  /\ work = [w \in Workers |-> Idle]

-----------------------------------------------------------------------------
(* The operation row *)

Active   == status \notin Terminal
Own(w)   == lease = w /\ live
Leased   == lease # None /\ live
Prepared == {a \in Stages \X Attempts : attempt[a[1]][a[2]] \in OpenStates}
Open(s)  == \E n \in Attempts : attempt[s][n] \in OpenStates
Stored(s) == \E n \in Attempts : attempt[s][n] = "succeeded"

\* assert_captured_generation_failure_budget: every attempt that ended as failed
\* or unknown is charged, in whatever stage.
Failures == {a \in Stages \X Attempts : attempt[a[1]][a[2]] \in {"failed", "unknown"}}
\* Mutant: the third failure is refused instead of the request after the second.
WithinBudget_TooLate == Cardinality(Failures) <= 2
WithinBudget == Cardinality(Failures) < 2

\* The attempt number record_captured_document_provider_attempt gives out.
NextNumber(s) == CHOOSE n \in 1..3 : \A m \in Attempts : m < n <=> attempt[s][m] # "none"

\* Mutant: the row takes over the outcome as the worker names it.
Ended_RawOutcome(st, out) == IF st = "prepared" THEN "free" ELSE out
\* An attempt in state st is completed, or reconciled, with an outcome.
Ended(st, out) ==
  IF out = "succeeded" THEN "succeeded"
  ELSE IF st = "prepared" \/ out \in {"unusable", "cancelled"} THEN "free"
  ELSE IF out = "unknown" THEN "unknown" ELSE "failed"

Reconciled ==
  [s \in Stages |-> [n \in Attempts |->
     IF attempt[s][n] \in OpenStates THEN Ended(attempt[s][n], "unknown") ELSE attempt[s][n]]]

\* Triggers of a terminal update: no prepared attempt may be left, and the
\* slot is released or settled in the same transaction.
End(s) ==
  /\ status' = s /\ lease' = None /\ live' = FALSE
  /\ slot' = IF s = "ready_for_review" THEN "settled" ELSE "released"

-----------------------------------------------------------------------------
(* Which calls the database accepts *)

\* Mutant: a worker's copy of the row may be out of date when it prepares.
MayPrepare_AnyRevision(w, s) ==
  /\ Own(w) /\ status = StatusOf(s) /\ ~expired
  /\ ~Open(s) /\ ~Stored(s) /\ NextNumber(s) <= MaxAttempts /\ WithinBudget
\* Mutant: an attempt that is still prepared does not stop the next one.
MayPrepare_OverOpen(w, s) ==
  /\ w \in fresh /\ Own(w) /\ status = StatusOf(s) /\ ~expired
  /\ ~Stored(s) /\ NextNumber(s) <= MaxAttempts /\ WithinBudget
\* record_captured_document_provider_attempt
MayPrepare(w, s) ==
  /\ w \in fresh /\ Own(w) /\ status = StatusOf(s) /\ ~expired
  /\ ~Open(s) /\ ~Stored(s)
  /\ NextNumber(s) <= MaxAttempts /\ WithinBudget

\* Mutant: the document is charged although the operation's time is over.
MayFinalize_Expired(w) ==
  /\ w \in fresh /\ Own(w) /\ status = "persisting" /\ ~cancel
  /\ Prepared = {} /\ \E s \in Stages : Stored(s)
\* finalize_captured_document_operation, and the triggers it fires: the update
\* raises after a cancellation, the charge of the document after expires_at.
MayFinalize(w) ==
  /\ w \in fresh /\ Own(w) /\ status = "persisting" /\ ~cancel /\ ~expired
  /\ Prepared = {} /\ \E s \in Stages : Stored(s)

\* claim, renew, complete, reconcile, advance, cancel, defer, resume
\* and finalize: the guard of the call a worker is at.
Accepts(w) ==
  LET u == work[w]
  IN  CASE u.pc \in Renewals -> Own(w) /\ Active /\ ~expired
        [] u.pc = "claim" -> w \in fresh /\ Active /\ (expired \/ ~Leased)
        [] u.pc = "capacityClaim" ->
             w \in fresh /\ status = "awaiting_capacity" /\ ~cancel /\ ~expired
        [] u.pc = "prepare" -> MayPrepare(w, u.stage)
        [] u.pc \in {"complete", "again"} ->
             /\ Own(w)
             /\ \/ attempt[u.stage][u.n] \in OpenStates /\ status = StatusOf(u.stage) /\ ~expired
                \/ attempt[u.stage][u.n] \in {Ended(st, u.out) : st \in OpenStates}
        [] u.pc \in {"reconcile", "stopReconcile"} ->
             Own(w) /\ Cardinality(Prepared) <= 1 /\ (Prepared = {} \/ ~expired)
        [] u.pc = "stop" ->
             w \in fresh /\ Active /\ lease \in {None, w} /\ Prepared = {}
        [] u.pc = "defer" ->
             w \in fresh /\ Own(w) /\ status = StatusOf(u.stage) /\ ~cancel /\ ~expired
        [] u.pc = "fail" ->
             /\ w \in fresh /\ Own(w) /\ Active
             /\ IF u.err = "retryable" THEN ~expired ELSE Prepared = {}
        [] u.pc = "invalid" -> w \in fresh /\ Own(w) /\ Active /\ Prepared = {}
        [] u.pc \in {"clarify", "generate", "review", "validate", "persist"} ->
             w \in fresh /\ Own(w) /\ ~expired
        [] u.pc = "finalize" -> MayFinalize(w)
        [] OTHER -> TRUE

-----------------------------------------------------------------------------
(* What a worker does next *)

At(u, pc)    == [u EXCEPT !.pc = pc]
Asking(s)    == [Idle EXCEPT !.pc = "ask", !.stage = s]
Caught(u, e) == [Asking(u.stage) EXCEPT !.pc = "catchRenew", !.err = e]

\* With the generated text at hand: the text, or the checkpointed review, goes
\* to validation, or the review stage comes first.
Judge(st) ==
  IF Stored("review") \/ quality = "fine" THEN At(Idle, "lastRenew")
  ELSE IF st = "generating" THEN At(Idle, "review")
  ELSE IF st = "validating" THEN Asking("review") ELSE Idle

\* A worker that holds the lease of an operation in status st; neither
\* acceptance nor claim has told it of a cancellation.
Continue(st) ==
  IF st = "accepted" /\ quality = "blocked" THEN At(Idle, "clarify")
  ELSE IF st \in {"accepted", "retryable_failure"} THEN At(Idle, "generate")
  ELSE IF Stored("generation") \/ Stored("review") THEN Judge(st)
  ELSE IF st = "generating" THEN Asking("generation") ELSE Idle

\* A stage has its text; the last answer told whether to cancel.
Delivered(u) ==
  IF cancel THEN At(Idle, "stopRenew")
  ELSE IF u.stage = "generation" THEN Judge(status) ELSE At(Idle, "lastRenew")

\* routeRequest after the attempt is recorded: retry, wait, or give up.  The
\* egress and capacity receipts may fail even after a success ("other").
Concluded(u) ==
  CASE u.out = "succeeded" -> {Caught(u, "other")}
    [] u.out = "retry" /\ MaxAttempts = 1 -> {Caught(u, "other")}
    [] u.out = "retry" /\ u.n = MaxAttempts /\ MaxAttempts = 2 ->
         {Asking(u.stage), Caught(u, "capacity"), Caught(u, "abort"), Caught(u, "other")}
    [] u.out = "retry" /\ u.n < MaxAttempts ->
         {Asking(u.stage)} \cup {Caught(u, e) : e \in {"capacity", "abort", "retryable", "other"}}
    [] u.out = "early" -> {Caught(u, IF u.n < MaxAttempts THEN "retryable" ELSE "other")}
    [] u.out = "unknown" -> {Caught(u, "reconcile")}
    [] u.out = "cancelled" -> {Caught(u, "abort")}
    [] OTHER -> {Caught(u, "other")}

\* The completion could not be confirmed.  routeRequest wraps the error of the
\* lifecycle as OPENAI_ATTEMPT_LIFECYCLE_FAILED, unless it was rejecting an
\* attempt before it had begun to dispatch it.
Unconfirmed(u) == Caught(u, IF u.out = "early" THEN "confirm" ELSE "unconfirmed")

\* A call failed, or its answer was lost.
OnFailure(u) ==
  CASE u.pc \in {"prepRenew", "prepare", "completeRenew"} -> Caught(u, "other")
    [] u.pc = "complete" -> At(u, "againRenew")
    [] u.pc \in {"againRenew", "again"} -> At(u, "reread")
    [] u.pc = "reread" -> Unconfirmed(u)
    [] OTHER -> Idle

\* Mutant: a cancelled operation is not reconciled before it is ended.
AfterRenewal_StopsAtOnce(u) ==
  CASE u.pc = "prepRenew" -> IF cancel THEN Caught(u, "other") ELSE At(u, "prepare")
    [] u.pc = "completeRenew" -> At(u, "complete")
    [] u.pc = "againRenew" -> At(u, "again")
    [] u.pc = "catchRenew" /\ cancel -> At(Idle, "stopRenew")
    [] u.pc = "stopRenew" -> At(u, "stop")
    [] OTHER -> Idle
\* A renewal tells the worker whether to cancel.
AfterRenewal(u) ==
  CASE u.pc = "prepRenew" -> IF cancel THEN Caught(u, "other") ELSE At(u, "prepare")
    [] u.pc = "completeRenew" -> At(u, "complete")
    [] u.pc = "againRenew" -> At(u, "again")
    [] u.pc = "catchRenew" ->
         IF cancel \/ u.err = "abort" THEN At(Idle, "stopRenew")
         ELSE IF u.err = "capacity" THEN At(u, "defer")
         ELSE IF u.err = "confirm" THEN Idle
         ELSE IF u.err = "reconcile" THEN At(Idle, "reconcileRenew")
         ELSE [Idle EXCEPT !.pc = "fail", !.err = u.err]
    [] u.pc = "reconcileRenew" -> At(u, "reconcile")
    [] u.pc = "stopRenew" -> At(u, "stopReconcile")
    [] u.pc = "lastRenew" ->
         IF cancel THEN At(Idle, "stopRenew")
         ELSE IF quality = "hopeless" THEN At(Idle, "invalid")
         ELSE At(Idle, IF status = "generating" THEN "validate" ELSE "validRenew")
    [] u.pc = "validRenew" ->
         At(u, IF status = "persisting" THEN "persistRenew" ELSE "persist")
    [] u.pc = "persistRenew" -> IF cancel THEN At(Idle, "stopRenew") ELSE At(u, "finalize")
    [] OTHER -> Idle

-----------------------------------------------------------------------------
(* The steps of a worker *)

\* An answer is lost only while things still fail.
Answers == IF calm THEN {TRUE} ELSE BOOLEAN

Move(w, u, knowing) ==
  /\ work' = [work EXCEPT ![w] = u]
  /\ fresh' = IF u = Idle THEN knowing \ {w} ELSE knowing

\* A committed call that raised operation_revision.
Commit(w, next) ==
  \E ack \in Answers :
    Move(w, IF ack THEN next ELSE OnFailure(work[w]), IF ack THEN {w} ELSE {})

Calling(w, points) == work[w].pc \in points /\ Accepts(w)

\* The owner resumes the operation; a background worker reads it.
Start(w) ==
  /\ work[w].pc = "idle" /\ status \in Resumable
  /\ status = "awaiting_capacity" => due
  /\ Move(w, At(Idle, IF status = "awaiting_capacity" THEN "capacityClaim" ELSE "claim"),
          fresh \cup {w})
  /\ UNCHANGED <<row, clock, attempt, route>>

\* Mutant: an expired operation is refused like one that is leased.
Claim_RefusesExpired(w) ==
  /\ Calling(w, {"claim"}) /\ ~expired
  /\ lease' = w /\ live' = TRUE
  /\ Commit(w, Continue(status))
  /\ UNCHANGED <<status, cancel, slot, clock, attempt, route>>
\* claim: an expired operation is ended instead, its prepared attempt first.
Claim(w) ==
  /\ Calling(w, {"claim"})
  /\ IF expired
     THEN /\ attempt' = Reconciled
          /\ End(IF cancel THEN "cancelled" ELSE "terminal_failure")
          /\ Move(w, Idle, {})
     ELSE /\ lease' = w /\ live' = TRUE /\ UNCHANGED <<status, slot, attempt>>
          /\ Commit(w, Continue(status))
  /\ UNCHANGED <<cancel, clock, route>>

\* resume_captured_document_operation_from_capacity
CapacityClaim(w) ==
  /\ Calling(w, {"capacityClaim"})
  /\ IF due
     THEN /\ status' = StatusOf(route) /\ lease' = w /\ live' = TRUE /\ due' = FALSE
          /\ Commit(w, Continue(StatusOf(route)))
     ELSE Move(w, Idle, fresh) /\ UNCHANGED <<status, lease, live, due>>
  /\ UNCHANGED <<cancel, slot, expired, calm, quality, attempt, route>>

Renew(w) ==
  /\ Calling(w, Renewals)
  /\ Commit(w, AfterRenewal(work[w]))
  /\ UNCHANGED <<row, clock, attempt, route>>

\* advance_captured_document_operation on the way to the document
Advance(w) ==
  /\ Calling(w, {"generate", "review", "validate", "persist"})
  /\ LET pc == work[w].pc
     IN  /\ status' = CASE pc = "generate" -> "generating"
                        [] pc = "persist" -> "persisting" [] OTHER -> "validating"
         /\ Commit(w, CASE pc = "generate" -> Continue("generating")
                        [] pc = "review" -> Asking("review")
                        [] pc = "validate" -> At(Idle, "validRenew")
                        [] OTHER -> At(Idle, "persistRenew"))
  /\ UNCHANGED <<cancel, lease, live, slot, clock, attempt, route>>

\* ... and to a question for the owner, which gives the lease back.
Clarify(w) ==
  /\ Calling(w, {"clarify"})
  /\ status' = "awaiting_clarification" /\ lease' = None /\ live' = FALSE
  /\ Move(w, Idle, {})
  /\ UNCHANGED <<cancel, slot, clock, attempt, route>>

\* routeRequest before the attempt: the route's deadline, its configuration
\* and its capacity decide.
Admit(w) ==
  /\ work[w].pc = "ask"
  /\ \E u \in {At(work[w], "prepRenew")} \cup
              {Caught(work[w], e) : e \in {"capacity", "retryable", "other"}} :
       Move(w, u, fresh)
  /\ UNCHANGED <<row, clock, attempt, route>>

Prepare(w) ==
  /\ Calling(w, {"prepare"})
  /\ LET u == work[w]
         n == NextNumber(u.stage)
     IN  /\ attempt' = [attempt EXCEPT ![u.stage][n] = "prepared"]
         /\ Commit(w, [u EXCEPT !.pc = "prepared", !.n = n])
  /\ UNCHANGED <<row, clock, route>>

\* Another worker's attempt of the stage is still prepared.
PrepareBlocked(w) ==
  /\ work[w].pc = "prepare" /\ Open(work[w].stage)
  /\ Move(w, Caught(work[w], "reconcile"), fresh)
  /\ UNCHANGED <<row, clock, attempt, route>>

\* The egress claim and the provider request.  It may be refused, its answer
\* may be lost, the invocation may be aborted, or the route's time be over.
\* It does not ask whether the attempt is still open: one that an expiry has
\* closed in between is sent all the same, and counts as failed from then on.
Dispatch(w) ==
  /\ work[w].pc = "prepared"
  /\ LET u == work[w]
     IN  \/ /\ WithinBudget
            /\ attempt' = [attempt EXCEPT ![u.stage][u.n] =
                              IF @ = "prepared" THEN "sent" ELSE "unknown"]
            /\ \/ Move(w, At(u, "inflight"), fresh)
               \/ ~calm /\ Move(w, [u EXCEPT !.pc = "completeRenew", !.out = "unknown"], fresh)
         \/ /\ \E out \in {"failed", "cancelled", "early", "unknown"} :
                 Move(w, [u EXCEPT !.pc = "completeRenew", !.out = out], fresh)
            /\ UNCHANGED attempt
  /\ UNCHANGED <<row, clock, route>>

\* A provider answer, or a timeout, 5xx or abort that proves nothing.
Answer(w) ==
  /\ work[w].pc = "inflight"
  /\ \E out \in {"succeeded", "retry", "failed", "unusable", "unknown"} :
       Move(w, [work[w] EXCEPT !.pc = "completeRenew", !.out = out], fresh)
  /\ UNCHANGED <<row, clock, attempt, route>>

\* complete_captured_document_provider_attempt; an exact replay changes nothing.
Complete(w) ==
  /\ Calling(w, {"complete", "again"})
  /\ LET u == work[w]
         before == attempt[u.stage][u.n]
         replay == before \notin OpenStates
     IN  \E ack \in Answers, next \in Concluded(u) \cup
                (IF u.out = "succeeded" THEN {Delivered(u)} ELSE {}) :
           /\ attempt' = [attempt EXCEPT ![u.stage][u.n] = IF replay THEN before ELSE Ended(before, u.out)]
           /\ Move(w, IF ack THEN next ELSE OnFailure(u),
                   (IF replay THEN fresh ELSE {}) \cup (IF ack THEN {w} ELSE {}))
  /\ UNCHANGED <<row, clock, route>>

\* Both answers were lost: the accepted operation is read once more.
Reread(w) ==
  /\ work[w].pc = "reread"
  /\ LET u == work[w]
     IN  IF u.out = "succeeded" /\ Stored(u.stage)
         THEN \E next \in Concluded(u) \cup {Delivered(u)} : Move(w, next, fresh \cup {w})
         ELSE Move(w, Unconfirmed(u), fresh)
  /\ UNCHANGED <<row, clock, attempt, route>>

\* reconcile_captured_document_provider_attempt
Reconcile(w) ==
  /\ Calling(w, {"reconcile", "stopReconcile"})
  /\ attempt' = Reconciled
  /\ LET u == work[w]
         next == At(Idle, IF u.pc = "reconcile" THEN "fail" ELSE "stop")
     IN  \E ack \in Answers :
           Move(w, IF ack THEN next ELSE Idle,
                (IF Prepared = {} THEN fresh ELSE {}) \cup (IF ack THEN {w} ELSE {}))
  /\ UNCHANGED <<row, clock, route>>

\* cancel_captured_document_operation
Stop(w) ==
  /\ Calling(w, {"stop"})
  /\ End("cancelled") /\ cancel' = TRUE
  /\ Move(w, Idle, {})
  /\ UNCHANGED <<clock, attempt, route>>

\* defer_captured_document_operation_for_capacity
Defer(w) ==
  /\ Calling(w, {"defer"})
  /\ status' = "awaiting_capacity" /\ lease' = None /\ live' = FALSE
  /\ route' = work[w].stage /\ due' = FALSE
  /\ Move(w, Idle, {})
  /\ UNCHANGED <<cancel, slot, expired, calm, quality, attempt>>

\* The catch block gives up, for now or for good; or validation failed.
Fail(w) ==
  /\ Calling(w, {"fail", "invalid"})
  /\ IF work[w].pc = "fail" /\ work[w].err = "retryable"
     THEN status' = "retryable_failure" /\ lease' = None /\ live' = FALSE /\ UNCHANGED slot
     ELSE End("terminal_failure")
  /\ Move(w, Idle, {})
  /\ UNCHANGED <<cancel, clock, attempt, route>>

\* finalize_captured_document_operation: sections, usage row and slot at once.
Finalize(w) ==
  /\ Calling(w, {"finalize"})
  /\ End("ready_for_review")
  /\ Move(w, Idle, {})
  /\ UNCHANGED <<cancel, clock, attempt, route>>

\* A database call fails: it is refused, or the connection breaks.
Refused(w) ==
  /\ work[w].pc \notin {"idle", "ask", "prepared", "inflight"}
  /\ calm => ~Accepts(w) /\ ~(work[w].pc = "prepare" /\ Open(work[w].stage))
  /\ Move(w, OnFailure(work[w]), fresh)
  /\ UNCHANGED <<row, clock, attempt, route>>

Step(w) ==
  \/ Claim(w) \/ CapacityClaim(w) \/ Renew(w) \/ Advance(w) \/ Clarify(w) \/ Admit(w)
  \/ Prepare(w) \/ PrepareBlocked(w) \/ Dispatch(w) \/ Answer(w) \/ Complete(w) \/ Reread(w)
  \/ Reconcile(w) \/ Stop(w) \/ Defer(w) \/ Fail(w) \/ Finalize(w) \/ Refused(w)

\* The invocation is gone; its lease stays.
Crash(w) ==
  /\ ~calm /\ work[w].pc # "idle"
  /\ Move(w, Idle, fresh)
  /\ UNCHANGED <<row, clock, attempt, route>>

-----------------------------------------------------------------------------
(* The owner and time *)

\* Mutant: without a live lease the operation is cancelled at once, whatever
\* its attempts.
RequestCancellation_OverAttempt ==
  /\ Active /\ ~cancel
  /\ cancel' = TRUE /\ fresh' = {}
  /\ IF Leased THEN ~expired /\ UNCHANGED <<status, lease, live, slot>> ELSE End("cancelled")
  /\ UNCHANGED <<clock, attempt, route, work>>
\* Mutant: a finished operation can still be cancelled.
RequestCancellation_AnyStatus ==
  /\ ~cancel /\ ~Leased /\ Prepared = {}
  /\ cancel' = TRUE /\ fresh' = {} /\ End("cancelled")
  /\ UNCHANGED <<clock, attempt, route, work>>
\* request_captured_document_cancellation: an intent while a worker may be
\* active; a repeated request only replays.
RequestCancellation ==
  /\ Active /\ ~cancel
  /\ cancel' = TRUE /\ fresh' = {}
  /\ IF Leased \/ Prepared # {}
     THEN ~expired /\ UNCHANGED <<status, lease, live, slot>>
     ELSE End("cancelled")
  /\ UNCHANGED <<clock, attempt, route, work>>

\* A route's deadline ends a request long before the 300 s lease, and a worker
\* that still answers renews its lease in time.
LeaseExpires ==
  /\ Leased
  /\ work[lease].pc \notin {"prepared", "inflight"}
  /\ calm => work[lease].pc \in {"idle", "claim", "capacityClaim"}
  /\ live' = FALSE
  /\ UNCHANGED <<status, cancel, lease, slot, clock, attempt, route, fresh, work>>

OperationExpires ==
  /\ ~expired /\ expired' = TRUE
  /\ UNCHANGED <<row, due, calm, quality, attempt, route, fresh, work>>

RetryTimeComes ==
  /\ status = "awaiting_capacity" /\ ~due /\ due' = TRUE
  /\ UNCHANGED <<row, expired, calm, quality, attempt, route, fresh, work>>

FaultsEnd ==
  /\ ~calm /\ calm' = TRUE
  /\ UNCHANGED <<row, expired, due, quality, attempt, route, fresh, work>>

Next ==
  \/ \E w \in Workers : Start(w) \/ Step(w) \/ Crash(w)
  \/ RequestCancellation
  \/ LeaseExpires \/ OperationExpires \/ RetryTimeComes \/ FaultsEnd

Spec == Init /\ [][Next]_vars

\* Workers run, time passes, faults end, and somebody keeps resuming.
Fairness ==
  /\ \A w \in Workers : WF_vars(Start(w)) /\ WF_vars(Step(w))
  /\ WF_vars(LeaseExpires) /\ WF_vars(RetryTimeComes) /\ WF_vars(FaultsEnd)

FairSpec == Spec /\ Fairness

-----------------------------------------------------------------------------
TypeOK ==
  /\ status \in Resumable \cup Terminal \cup {"awaiting_clarification"}
  /\ {cancel, expired, due, live, calm} \subseteq BOOLEAN
  /\ route \in Stages /\ lease \in Workers \cup {None}
  /\ attempt \in [Stages -> [Attempts -> AttemptStates]]
  /\ slot \in {"reserved", "settled", "released"} /\ fresh \subseteq Workers
  /\ work \in [Workers -> Worker]
  /\ quality \in {"fine", "reviewable", "hopeless", "blocked"}

\* The fence every attempt relies on: whatever takeovers, lost answers and
\* stale workers there are, at most one provider attempt of the operation is
\* open, and a review is only asked for a text that is stored.  Otherwise
\* reconciliation raises for good ("ambiguous").
OneOpenAttempt ==
  /\ Cardinality(Prepared) <= 1
  /\ Open("review") => Stored("generation")

\* An operation ends with its provider attempts accounted for and its slot
\* decided: never with an attempt open, with a document after a cancellation,
\* or with a slot that does not match.
EndIsResolved ==
  /\ slot = CASE status = "ready_for_review" -> "settled"
              [] status \in {"terminal_failure", "cancelled"} -> "released"
              [] OTHER -> "reserved"
  /\ status \in Terminal => Prepared = {}
  /\ status = "ready_for_review" => ~cancel /\ Stored("generation")

\* Once a cancellation is recorded no provider attempt is admitted any more,
\* although the workers learn of it only from their next answer.
NoAdmissionAfterCancel ==
  [][cancel => \A s \in Stages, n \in Attempts :
       attempt'[s][n] \in OpenStates => attempt[s][n] \in OpenStates]_vars

\* Two failed requests that may have reached the provider are all an operation
\* is charged with, over both stages, all restarts and takeovers.
FailureBudget == Cardinality(Failures) <= 2

\* An ended operation stays as it ended, with the texts it has stored.
EndIsFinal ==
  [][~Active => UNCHANGED <<status, slot, cancel>> /\ \A s \in Stages : Stored(s)' = Stored(s)]_vars

\* Two waits end by nobody but the owner.
Waiting == {"awaiting_capacity", "awaiting_clarification"}

\* If its workers may crash but somebody resumes it, a cancelled operation does
\* not hang with its slot reserved and its attempts open: it ends or waits.
CancelEnds == cancel ~> status \in Terminal \cup Waiting

\* So does an operation whose time is over.
ExpiryEnds == expired ~> status \in Terminal \cup Waiting

\* The plan rules out a second request once the outcome of one is unknown.
UnknownIsNotRedispatched ==
  [][\A s \in Stages, n \in Attempts : attempt[s][n] # "sent" /\ attempt'[s][n] = "sent" =>
       \A a \in Stages \X Attempts : attempt[a[1]][a[2]] # "unknown"]_vars

-----------------------------------------------------------------------------
\* What the allowance sees of the operation.
lifeOf ==
  CASE status = "ready_for_review" -> "ready"
    [] status \in {"terminal_failure", "cancelled"} -> "closed" [] OTHER -> "live"

This == {"this operation"}
Life == INSTANCE OperationLife WITH
          Operations <- This, life <- [o \in This |-> lifeOf], slot <- [o \in This |-> slot],
          over <- {o \in This : expired}

\* Behind all its takeovers, lost answers and stale workers the operation is
\* what DocumentAllowance takes it for: it ends once, together with its slot,
\* and never with a document after its time is over.
KeepsLife == Life!Promise
=============================================================================
