----------------------- MODULE CapturedOperationProofs -----------------------
(***************************************************************************)
(* Proofs about CapturedOperation.  The induction needs more than the      *)
(* properties: which worker an attempt belongs to, that a worker about to  *)
(* send holds the lease, that every text a worker builds on is stored, and *)
(* that a request under way is charged like a failed one.                  *)
(***************************************************************************)
EXTENDS CapturedOperation, FiniteSetTheorems, TLAPS

\* The calls a worker makes with an attempt of its own at hand, and those it
\* makes with the generated text at hand.
Attempting == {"prepared", "inflight", "completeRenew", "complete", "againRenew", "again",
               "reread"}
AfterText  == {"review", "lastRenew", "validate", "validRenew", "persist", "persistRenew",
               "finalize", "invalid"}

-----------------------------------------------------------------------------
(* What a worker does next *)

LEMMA IdleWorker == Idle \in Worker /\ Idle.pc = "idle"
BY DEF Idle, Worker, Points, Stages, Attempts, Outcomes, Errors

LEMMA AtWorker ==
  ASSUME NEW u \in Worker, NEW p \in Points
  PROVE  /\ At(u, p) \in Worker /\ At(u, p).pc = p
         /\ At(u, p).stage = u.stage /\ At(u, p).n = u.n
BY DEF At, Worker

LEMMA AtIdle ==
  ASSUME NEW p \in Points
  PROVE  At(Idle, p) \in Worker /\ At(Idle, p).pc = p
BY IdleWorker, AtWorker

LEMMA AskingWorker ==
  ASSUME NEW s \in Stages
  PROVE  Asking(s) \in Worker /\ Asking(s).pc = "ask" /\ Asking(s).stage = s
BY IdleWorker DEF Asking, Worker, Points

LEMMA CaughtWorker ==
  ASSUME NEW u \in Worker, NEW e \in Errors
  PROVE  Caught(u, e) \in Worker /\ Caught(u, e).pc = "catchRenew"
<1>1. u.stage \in Stages
  BY DEF Worker
<1> QED
  BY <1>1, AskingWorker DEF Caught, Worker, Points, Renewals

LEMMA JudgeWorker ==
  ASSUME NEW st
  PROVE  Judge(st) \in Worker /\ Judge(st).pc \in {"lastRenew", "review", "ask", "idle"}
<1>1. "lastRenew" \in Points /\ "review" \in Points /\ "review" \in Stages
  BY DEF Points, Renewals, Stages
<1> QED
  BY <1>1, IdleWorker, AtIdle, AskingWorker DEF Judge

LEMMA ContinueWorker ==
  ASSUME NEW st
  PROVE  /\ Continue(st) \in Worker
         /\ Continue(st).pc \in {"lastRenew", "review", "ask", "idle", "clarify", "generate"}
         /\ Continue(st).pc \in {"lastRenew", "review"} =>
              Stored("generation") \/ Stored("review")
<1>1. "clarify" \in Points /\ "generate" \in Points /\ "generation" \in Stages
  BY DEF Points, Stages
<1> QED
  BY <1>1, IdleWorker, AtIdle, AskingWorker, JudgeWorker DEF Continue

LEMMA DeliveredWorker ==
  ASSUME NEW u \in Worker
  PROVE  /\ Delivered(u) \in Worker
         /\ Delivered(u).pc \in {"stopRenew", "lastRenew", "review", "ask", "idle"}
<1>1. "stopRenew" \in Points /\ "lastRenew" \in Points
  BY DEF Points, Renewals
<1> QED
  BY <1>1, AtIdle, JudgeWorker DEF Delivered

LEMMA ConcludedWorker ==
  ASSUME NEW u \in Worker, NEW next \in Concluded(u)
  PROVE  next \in Worker /\ next.pc \in {"catchRenew", "ask"}
<1>1. u.stage \in Stages
  BY DEF Worker
<1>2. {"other", "capacity", "abort", "retryable", "reconcile"} \subseteq Errors
  BY DEF Errors
<1>3. next = Asking(u.stage) \/ \E e \in Errors : next = Caught(u, e)
  BY <1>2 DEF Concluded
<1> QED
  BY <1>1, <1>3, AskingWorker, CaughtWorker

LEMMA OnFailureWorker ==
  ASSUME NEW u \in Worker
  PROVE  /\ OnFailure(u) \in Worker
         /\ OnFailure(u).pc \in {"catchRenew", "againRenew", "reread", "idle"}
         /\ OnFailure(u).pc \in {"againRenew", "reread"} =>
              /\ u.pc \in Attempting
              /\ OnFailure(u).stage = u.stage /\ OnFailure(u).n = u.n
<1>1. {"againRenew", "reread"} \subseteq Points
  BY DEF Points, Renewals
<1>2. {"other", "confirm", "unconfirmed"} \subseteq Errors
  BY DEF Errors
<1>3. /\ Caught(u, "other") \in Worker /\ Caught(u, "other").pc = "catchRenew"
      /\ Unconfirmed(u) \in Worker /\ Unconfirmed(u).pc = "catchRenew"
  BY <1>2, CaughtWorker DEF Unconfirmed
<1>4. At(u, "againRenew") \in Worker /\ At(u, "againRenew").pc = "againRenew"
      /\ At(u, "againRenew").stage = u.stage /\ At(u, "againRenew").n = u.n
  BY <1>1, AtWorker
<1>5. At(u, "reread") \in Worker /\ At(u, "reread").pc = "reread"
      /\ At(u, "reread").stage = u.stage /\ At(u, "reread").n = u.n
  BY <1>1, AtWorker
<1> QED
  BY <1>3, <1>4, <1>5, IdleWorker DEF OnFailure, Attempting

LEMMA AfterRenewalWorker ==
  ASSUME NEW u \in Worker, u.pc \in Renewals
  PROVE  /\ AfterRenewal(u) \in Worker /\ AfterRenewal(u).pc # "claim"
         /\ AfterRenewal(u).pc = "prepare" => u.pc = "prepRenew" /\ ~cancel
         /\ AfterRenewal(u).pc \in AfterText => u.pc \in AfterText
         /\ AfterRenewal(u).pc \in Attempting =>
              /\ u.pc \in Attempting /\ AfterRenewal(u).pc # "prepared"
              /\ AfterRenewal(u).stage = u.stage /\ AfterRenewal(u).n = u.n
<1> DEFINE r == AfterRenewal(u)
<1>a. \A p \in Points : /\ At(Idle, p) \in Worker /\ At(Idle, p).pc = p
                        /\ At(u, p) \in Worker /\ At(u, p).pc = p
  BY AtIdle, AtWorker
<1>1. CASE u.pc = "prepRenew"
  <2>1. CASE cancel
    <3>1. r = Caught(u, "other")
      BY <1>1, <2>1 DEF AfterRenewal
    <3> QED
      BY <3>1, CaughtWorker DEF Errors, AfterText, Attempting
  <2>2. CASE ~cancel
    <3>1. r = At(u, "prepare")
      BY <1>1, <2>2 DEF AfterRenewal
    <3> QED
      BY <1>1, <2>2, <3>1, AtWorker DEF Points, AfterText, Attempting
  <2> QED
    BY <2>1, <2>2
<1>2. CASE u.pc = "completeRenew"
  <2>1. r = At(u, "complete")
    BY <1>2 DEF AfterRenewal
  <2> QED
    BY <1>2, <2>1, AtWorker DEF Points, AfterText, Attempting
<1>3. CASE u.pc = "againRenew"
  <2>1. r = At(u, "again")
    BY <1>3 DEF AfterRenewal
  <2> QED
    BY <1>3, <2>1, AtWorker DEF Points, AfterText, Attempting
<1>4. CASE u.pc = "catchRenew"
  <2>1. \/ r = At(Idle, "stopRenew") \/ r = At(u, "defer") \/ r = Idle
        \/ r = At(Idle, "reconcileRenew") \/ r = [Idle EXCEPT !.pc = "fail", !.err = u.err]
    BY <1>4 DEF AfterRenewal
  <2>2. {"stopRenew", "defer", "reconcileRenew"} \subseteq Points
    BY DEF Points, Renewals
  <2>3. CASE r = [Idle EXCEPT !.pc = "fail", !.err = u.err]
    BY <2>3, IdleWorker DEF Worker, Points, AfterText, Attempting
  <2>4. CASE r \in Worker /\ r.pc \in {"stopRenew", "defer", "idle", "reconcileRenew"}
    BY <2>4 DEF AfterText, Attempting
  <2>5. r # [Idle EXCEPT !.pc = "fail", !.err = u.err] =>
          r \in Worker /\ r.pc \in {"stopRenew", "defer", "idle", "reconcileRenew"}
    BY <2>1, <2>2, <1>a, IdleWorker
  <2> QED
    BY <2>3, <2>4, <2>5
<1>5. CASE u.pc \in {"reconcileRenew", "stopRenew"}
  <2>1. r = At(u, "reconcile") \/ r = At(u, "stopReconcile")
    BY <1>5 DEF AfterRenewal
  <2>2. r \in Worker /\ r.pc \in {"reconcile", "stopReconcile"}
    BY <2>1, AtWorker DEF Points
  <2> QED
    BY <2>2 DEF AfterText, Attempting
<1>6. CASE u.pc \in {"lastRenew", "validRenew", "persistRenew"}
  <2>1. \/ r = At(Idle, "stopRenew") \/ r = At(Idle, "invalid") \/ r = At(Idle, "validate")
        \/ r = At(Idle, "validRenew") \/ r = At(u, "persistRenew") \/ r = At(u, "persist")
        \/ r = At(u, "finalize")
    BY <1>6 DEF AfterRenewal
  <2>2. {"stopRenew", "invalid", "validate", "validRenew", "persistRenew", "persist",
         "finalize"} \subseteq Points
    BY DEF Points, Renewals
  <2>3. /\ r \in Worker
        /\ r.pc \in {"stopRenew", "invalid", "validate", "validRenew", "persistRenew",
                     "persist", "finalize"}
    BY <2>1, <2>2, <1>a
  <2> QED
    BY <1>6, <2>3 DEF AfterText, Attempting
<1> QED
  BY <1>1, <1>2, <1>3, <1>4, <1>5, <1>6 DEF Renewals

-----------------------------------------------------------------------------
(* What a step does to its worker *)

\* The attempts of a stage are numbered without gaps.
Filled == \A s \in Stages : attempt[s][1] = "none" => attempt[s][2] = "none"

LEMMA NextNumberFacts ==
  ASSUME TypeOK, Filled, NEW s \in Stages
  PROVE  /\ NextNumber(s) \in 1..3
         /\ \A m \in Attempts : m < NextNumber(s) <=> attempt[s][m] # "none"
<1> DEFINE P(n) == \A m \in Attempts : m < n <=> attempt[s][m] # "none"
<1>1. \E n \in 1..3 : P(n)
  <2>1. CASE attempt[s][1] = "none"
    <3>1. attempt[s][2] = "none"
      BY <2>1 DEF Filled
    <3> QED
      BY <2>1, <3>1 DEF Attempts
  <2>2. CASE attempt[s][1] # "none" /\ attempt[s][2] = "none"
    <3>1. P(2)
      BY <2>2 DEF Attempts
    <3> QED
      BY <3>1
  <2>3. CASE attempt[s][1] # "none" /\ attempt[s][2] # "none"
    <3>1. P(3)
      BY <2>3 DEF Attempts
    <3> QED
      BY <3>1
  <2> QED
    BY <2>1, <2>2, <2>3
<1> HIDE DEF P
<1>2. NextNumber(s) = CHOOSE n \in 1..3 : P(n)
  BY DEF NextNumber, P
<1>3. NextNumber(s) \in 1..3 /\ P(NextNumber(s))
  BY <1>1, <1>2
<1> QED
  BY <1>3 DEF P

LEMMA MoveFacts ==
  ASSUME NEW w \in Workers, NEW u, NEW knowing, knowing \subseteq fresh \cup {w},
         Move(w, u, knowing)
  PROVE  work' = [work EXCEPT ![w] = u] /\ fresh' \subseteq fresh \cup {w}
BY DEF Move

LEMMA CommitFacts ==
  ASSUME NEW w \in Workers, NEW next, Commit(w, next)
  PROVE  \E u \in {next, OnFailure(work[w])} :
           work' = [work EXCEPT ![w] = u] /\ fresh' \subseteq {w}
BY DEF Commit, Move

\* What may become of a worker, and what tells so.
Went(w, u) ==
  /\ u \in Worker /\ work' = [work EXCEPT ![w] = u] /\ fresh' \subseteq fresh \cup {w}
  /\ u.pc = "claim" => status # "awaiting_capacity" /\ status' = status
  /\ u.pc = "prepare" => ~cancel /\ cancel' = cancel
  /\ u.pc \in Attempting =>
       \/ /\ u.pc # "prepared" /\ work[w].pc \in Attempting
          /\ u.stage = work[w].stage /\ u.n = work[w].n
       \/ /\ u.pc = "prepared" /\ Prepare(w)
          /\ u.stage = work[w].stage /\ u.n = NextNumber(work[w].stage)
  /\ u.pc \in AfterText =>
       \/ Stored("generation") \/ Stored("review") \/ work[w].pc \in AfterText
       \/ Complete(w) /\ work[w].out = "succeeded"

Quiet(u) == u \in Worker /\ u.pc \notin {"claim", "prepare"} \cup Attempting \cup AfterText

LEMMA WentQuietly ==
  ASSUME NEW w \in Workers, NEW u, Quiet(u),
         work' = [work EXCEPT ![w] = u], fresh' \subseteq fresh \cup {w}
  PROVE  Went(w, u)
BY DEF Quiet, Went

LEMMA QuietPoints ==
  /\ Quiet(Idle)
  /\ \A p \in Points \ ({"claim", "prepare"} \cup Attempting \cup AfterText) : Quiet(At(Idle, p))
  /\ \A s \in Stages : Quiet(Asking(s))
  /\ \A u \in Worker, e \in Errors : Quiet(Caught(u, e))
<1>1. Quiet(Idle)
  BY IdleWorker DEF Quiet, Attempting, AfterText
<1>2. ASSUME NEW p \in Points \ ({"claim", "prepare"} \cup Attempting \cup AfterText)
      PROVE  Quiet(At(Idle, p))
  BY AtIdle DEF Quiet
<1>3. ASSUME NEW s \in Stages PROVE Quiet(Asking(s))
  BY AskingWorker DEF Quiet, Attempting, AfterText
<1>4. ASSUME NEW u \in Worker, NEW e \in Errors PROVE Quiet(Caught(u, e))
  BY CaughtWorker DEF Quiet, Attempting, AfterText
<1> QED
  BY <1>1, <1>2, <1>3, <1>4

\* A call that failed leaves its worker quiet or still busy with its attempt.
LEMMA WentWrong ==
  ASSUME TypeOK, NEW w \in Workers,
         work' = [work EXCEPT ![w] = OnFailure(work[w])], fresh' \subseteq fresh \cup {w}
  PROVE  Went(w, OnFailure(work[w]))
<1>1. work[w] \in Worker
  BY DEF TypeOK
<1>2. CASE OnFailure(work[w]).pc \in {"againRenew", "reread"}
  BY <1>1, <1>2, OnFailureWorker DEF Went, Attempting, AfterText
<1>3. CASE OnFailure(work[w]).pc \in {"catchRenew", "idle"}
  <2>1. Quiet(OnFailure(work[w]))
    BY <1>1, <1>3, OnFailureWorker DEF Quiet, Attempting, AfterText
  <2> QED
    BY <2>1, WentQuietly
<1> QED
  BY <1>1, <1>2, <1>3, OnFailureWorker

\* A committed call goes on as it says, or its answer is lost.
LEMMA CommitWent ==
  ASSUME TypeOK, NEW w \in Workers, NEW next, Commit(w, next),
         work' = [work EXCEPT ![w] = next] /\ fresh' \subseteq fresh \cup {w} => Went(w, next)
  PROVE  \E u : Went(w, u)
<1>1. PICK u \in {next, OnFailure(work[w])} :
        work' = [work EXCEPT ![w] = u] /\ fresh' \subseteq {w}
  BY CommitFacts
<1>2. fresh' \subseteq fresh \cup {w}
  BY <1>1
<1>3. CASE u = next
  BY <1>1, <1>2, <1>3
<1>4. CASE u = OnFailure(work[w])
  BY <1>1, <1>2, <1>4, WentWrong
<1> QED
  BY <1>1, <1>3, <1>4

\* Every step of a worker leaves it in a state that the operation justifies.
LEMMA StepWent ==
  ASSUME TypeOK, Filled, NEW w \in Workers, Start(w) \/ Step(w) \/ Crash(w)
  PROVE  \E u : Went(w, u)
<1> USE DEF Stages
<1>1. work[w] \in Worker /\ work[w].stage \in Stages /\ work[w].n \in Attempts
  BY DEF TypeOK, Worker
<1>2. fresh \subseteq fresh \cup {w} /\ {w} \subseteq fresh \cup {w} /\ {} \subseteq fresh \cup {w}
  OBVIOUS
<1>q. ASSUME NEW u, Quiet(u), NEW k \in SUBSET (fresh \cup {w}), Move(w, u, k)
      PROVE  \E v : Went(w, v)
  <2>1. work' = [work EXCEPT ![w] = u] /\ fresh' \subseteq fresh \cup {w}
    BY <1>q, MoveFacts
  <2> QED
    BY <1>q, <2>1, WentQuietly
<1>c. ASSUME NEW u, Quiet(u), Commit(w, u) PROVE \E v : Went(w, v)
  <2>1. work' = [work EXCEPT ![w] = u] /\ fresh' \subseteq fresh \cup {w} => Went(w, u)
    BY <1>c, WentQuietly
  <2> QED
    BY <1>c, <2>1, CommitWent
<1>s. ASSUME Commit(w, Continue(status)) \/ Commit(w, Continue(StatusOf(route)))
             \/ Commit(w, Continue("generating"))
      PROVE  \E v : Went(w, v)
  <2>1. PICK st : Commit(w, Continue(st))
    BY <1>s
  <2>2. ASSUME work' = [work EXCEPT ![w] = Continue(st)], fresh' \subseteq fresh \cup {w}
        PROVE  Went(w, Continue(st))
    BY <2>2, ContinueWorker DEF Went, Attempting, AfterText
  <2> QED
    BY <2>1, <2>2, CommitWent
<1>3. CASE Start(w)
  <2>1. CASE status = "awaiting_capacity"
    <3>1. Quiet(At(Idle, "capacityClaim"))
      BY QuietPoints DEF Points, Attempting, AfterText
    <3>2. Move(w, At(Idle, "capacityClaim"), fresh \cup {w})
      BY <1>3, <2>1 DEF Start
    <3> QED
      BY <3>1, <3>2, <1>q
  <2>2. CASE status # "awaiting_capacity"
    <3>1. At(Idle, "claim") \in Worker /\ At(Idle, "claim").pc = "claim"
      BY AtIdle DEF Points
    <3>2. Move(w, At(Idle, "claim"), fresh \cup {w}) /\ status' = status
      BY <1>3, <2>2 DEF Start, row
    <3>3. work' = [work EXCEPT ![w] = At(Idle, "claim")] /\ fresh' \subseteq fresh \cup {w}
      BY <3>2, MoveFacts
    <3>4. Went(w, At(Idle, "claim"))
      BY <2>2, <3>1, <3>2, <3>3 DEF Went, Attempting, AfterText
    <3> QED
      BY <3>4
  <2> QED
    BY <2>1, <2>2
<1>4. CASE Claim(w)
  BY <1>4, <1>2, <1>q, <1>s, QuietPoints DEF Claim
<1>5. CASE CapacityClaim(w)
  BY <1>5, <1>2, <1>q, <1>s, QuietPoints DEF CapacityClaim
<1>6. CASE Renew(w)
  <2>1. Commit(w, AfterRenewal(work[w])) /\ work[w].pc \in Renewals /\ cancel' = cancel
    BY <1>6 DEF Renew, Calling, row
  <2>2. ASSUME work' = [work EXCEPT ![w] = AfterRenewal(work[w])],
               fresh' \subseteq fresh \cup {w}
        PROVE  Went(w, AfterRenewal(work[w]))
    BY <1>1, <2>1, <2>2, AfterRenewalWorker DEF Went
  <2> QED
    BY <2>1, <2>2, CommitWent
<1>7. CASE Advance(w)
  <2>1. CASE work[w].pc = "generate"
    BY <1>7, <2>1, <1>s DEF Advance
  <2>2. CASE work[w].pc = "review"
    <3>1. Commit(w, Asking("review"))
      BY <1>7, <2>2 DEF Advance
    <3> QED
      BY <3>1, <1>c, QuietPoints
  <2>3. CASE work[w].pc \in {"validate", "persist"}
    <3>1. PICK p \in {"validRenew", "persistRenew"} : Commit(w, At(Idle, p))
      BY <1>7, <2>3 DEF Advance
    <3>2. At(Idle, p) \in Worker /\ At(Idle, p).pc = p
      BY AtIdle DEF Points, Renewals
    <3>3. ASSUME work' = [work EXCEPT ![w] = At(Idle, p)], fresh' \subseteq fresh \cup {w}
          PROVE  Went(w, At(Idle, p))
      BY <2>3, <3>2, <3>3 DEF Went, Attempting, AfterText
    <3> QED
      BY <3>1, <3>3, CommitWent
  <2> QED
    BY <1>7, <2>1, <2>2, <2>3 DEF Advance, Calling
<1>8. CASE Clarify(w) \/ Stop(w) \/ Defer(w) \/ Fail(w) \/ Finalize(w)
  <2>1. Move(w, Idle, {})
    BY <1>8 DEF Clarify, Stop, Defer, Fail, Finalize
  <2> QED
    BY <2>1, <1>2, <1>q, QuietPoints
<1>9. CASE Admit(w)
  <2>1. PICK u : /\ Move(w, u, fresh)
                 /\ u = At(work[w], "prepRenew") \/ \E e \in Errors : u = Caught(work[w], e)
    BY <1>9 DEF Admit, Errors
  <2>2. Quiet(At(work[w], "prepRenew"))
    BY <1>1, AtWorker DEF Quiet, Points, Renewals, Attempting, AfterText
  <2> QED
    BY <1>1, <1>2, <2>1, <2>2, <1>q, QuietPoints
<1>10. CASE Prepare(w)
  <2> DEFINE n == NextNumber(work[w].stage)
             u == [work[w] EXCEPT !.pc = "prepared", !.n = n]
  <2>1. Commit(w, u) /\ n <= MaxAttempts
    BY <1>10 DEF Prepare, Calling, Accepts, MayPrepare, Renewals
  <2>2. n \in Attempts
    BY <1>1, <2>1, NextNumberFacts, CapturedAssumption DEF Attempts
  <2>3. /\ u \in Worker /\ u.pc = "prepared"
        /\ u.stage = work[w].stage /\ u.n = n
    BY <1>1, <2>2 DEF Worker, Points
  <2> HIDE DEF u, n
  <2>4. ASSUME work' = [work EXCEPT ![w] = u], fresh' \subseteq fresh \cup {w}
        PROVE  Went(w, u)
    BY <1>10, <2>3, <2>4 DEF Went, AfterText, n
  <2> QED
    BY <2>1, <2>4, CommitWent
<1>11. CASE PrepareBlocked(w)
  BY <1>11, <1>1, <1>2, <1>q, QuietPoints DEF PrepareBlocked, Errors
<1>12. CASE Dispatch(w) \/ Answer(w)
  <2>1. PICK u : /\ Move(w, u, fresh)
                 /\ \/ u = At(work[w], "inflight")
                    \/ \E out \in Outcomes : u = [work[w] EXCEPT !.pc = "completeRenew", !.out = out]
    BY <1>12 DEF Dispatch, Answer, Outcomes
  <2>2. work[w].pc \in Attempting
    BY <1>12 DEF Dispatch, Answer, Attempting
  <2>3. /\ u \in Worker /\ u.pc \in {"inflight", "completeRenew"}
        /\ u.stage = work[w].stage /\ u.n = work[w].n
    <3>1. CASE u = At(work[w], "inflight")
      BY <1>1, <3>1, AtWorker DEF Points
    <3>2. CASE \E out \in Outcomes : u = [work[w] EXCEPT !.pc = "completeRenew", !.out = out]
      BY <1>1, <3>2 DEF Worker, Points, Renewals
    <3> QED
      BY <2>1, <3>1, <3>2
  <2>4. work' = [work EXCEPT ![w] = u] /\ fresh' \subseteq fresh \cup {w}
    BY <1>2, <2>1, MoveFacts
  <2>5. Went(w, u)
    BY <2>2, <2>3, <2>4 DEF Went, AfterText
  <2> QED
    BY <2>5
<1>13. CASE Complete(w)
  <2>1. PICK u : /\ \E k \in SUBSET (fresh \cup {w}) : Move(w, u, k)
                 /\ \/ u \in Concluded(work[w]) \/ u = OnFailure(work[w])
                    \/ u = Delivered(work[w]) /\ work[w].out = "succeeded"
    BY <1>13 DEF Complete
  <2>2. work' = [work EXCEPT ![w] = u] /\ fresh' \subseteq fresh \cup {w}
    BY <2>1, MoveFacts
  <2>3. CASE u = OnFailure(work[w])
    BY <2>2, <2>3, WentWrong
  <2>4. CASE u \in Concluded(work[w])
    <3>1. Quiet(u)
      BY <1>1, <2>4, ConcludedWorker DEF Quiet, Attempting, AfterText
    <3> QED
      BY <2>2, <3>1, WentQuietly
  <2>5. CASE u = Delivered(work[w]) /\ work[w].out = "succeeded"
    <3>1. Went(w, u)
      BY <1>1, <1>13, <2>2, <2>5, DeliveredWorker DEF Went, Attempting, AfterText
    <3> QED
      BY <3>1
  <2> QED
    BY <2>1, <2>3, <2>4, <2>5
<1>14. CASE Reread(w)
  <2>1. PICK u : /\ \E k \in SUBSET (fresh \cup {w}) : Move(w, u, k)
                 /\ \/ u \in Concluded(work[w]) \/ u = Unconfirmed(work[w])
                    \/ u = Delivered(work[w]) /\ Stored(work[w].stage)
    BY <1>14, <1>2 DEF Reread
  <2>2. work' = [work EXCEPT ![w] = u] /\ fresh' \subseteq fresh \cup {w}
    BY <2>1, MoveFacts
  <2>3. CASE u \in Concluded(work[w]) \/ u = Unconfirmed(work[w])
    <3>1. Quiet(u)
      BY <1>1, <2>3, ConcludedWorker, CaughtWorker
      DEF Quiet, Unconfirmed, Errors, Attempting, AfterText
    <3> QED
      BY <2>2, <3>1, WentQuietly
  <2>4. CASE u = Delivered(work[w]) /\ Stored(work[w].stage)
    <3>1. Went(w, u)
      BY <1>1, <2>2, <2>4, DeliveredWorker DEF Went, Attempting, AfterText
    <3> QED
      BY <3>1
  <2> QED
    BY <2>1, <2>3, <2>4
<1>15. CASE Reconcile(w)
  <2>1. Quiet(At(Idle, "fail")) /\ Quiet(At(Idle, "stop")) /\ Quiet(Idle)
    BY QuietPoints DEF Points, Attempting, AfterText
  <2>2. PICK ack \in Answers :
          Move(w, IF ack THEN At(Idle, IF work[w].pc = "reconcile" THEN "fail" ELSE "stop")
                         ELSE Idle,
               (IF Prepared = {} THEN fresh ELSE {}) \cup (IF ack THEN {w} ELSE {}))
    BY <1>15 DEF Reconcile
  <2> DEFINE u == IF ack THEN At(Idle, IF work[w].pc = "reconcile" THEN "fail" ELSE "stop")
                         ELSE Idle
             k == (IF Prepared = {} THEN fresh ELSE {}) \cup (IF ack THEN {w} ELSE {})
  <2>3. Quiet(u) /\ k \in SUBSET (fresh \cup {w})
    BY <2>1
  <2>4. Move(w, u, k)
    BY <2>2
  <2> HIDE DEF u, k
  <2> QED
    BY <2>3, <2>4, <1>q
<1>16. CASE Refused(w)
  <2>1. work' = [work EXCEPT ![w] = OnFailure(work[w])] /\ fresh' \subseteq fresh \cup {w}
    BY <1>16, <1>2, MoveFacts DEF Refused
  <2> QED
    BY <2>1, WentWrong
<1>17. CASE Crash(w)
  BY <1>17, <1>2, <1>q, QuietPoints DEF Crash
<1> QED
  BY <1>3, <1>4, <1>5, <1>6, <1>7, <1>8, <1>9, <1>10, <1>11, <1>12, <1>13, <1>14, <1>15,
     <1>16, <1>17 DEF Step

-----------------------------------------------------------------------------
(* What a step does to the attempts *)

LEMMA EndedFacts ==
  ASSUME NEW st, NEW out
  PROVE  /\ Ended(st, out) \in {"succeeded", "free", "unknown", "failed"}
         /\ Ended(st, out) = "succeeded" <=> out = "succeeded"
         /\ st = "prepared" => Ended(st, out) \in {"succeeded", "free"}
BY DEF Ended

Admits(w) ==
  LET s == work[w].stage
      n == NextNumber(s)
  IN  /\ Prepare(w) /\ n \in Attempts /\ attempt[s][n] = "none"
      /\ attempt' = [attempt EXCEPT ![s][n] = "prepared"]

Sends(w) ==
  /\ work[w].pc = "prepared" /\ work'[w].pc # "prepared" /\ WithinBudget /\ UNCHANGED row
  /\ attempt' = [attempt EXCEPT ![work[w].stage][work[w].n] =
                    IF @ = "prepared" THEN "sent" ELSE "unknown"]

Completes(w) ==
  LET s == work[w].stage
      n == work[w].n
  IN  /\ Complete(w) /\ Own(w) /\ status = StatusOf(s) /\ attempt[s][n] \in OpenStates
      /\ attempt' = [attempt EXCEPT ![s][n] = Ended(attempt[s][n], work[w].out)]

Closes(w) ==
  /\ attempt' = Reconciled
  /\ \/ Own(w) /\ work[w].pc # "prepared" /\ UNCHANGED row
     \/ Active /\ status' \in Terminal

LEMMA PrepareAdmits ==
  ASSUME TypeOK, Filled, NEW w \in Workers, Prepare(w)
  PROVE  Admits(w)
<1> DEFINE s == work[w].stage
           n == NextNumber(s)
<1>1. s \in Stages
  BY DEF TypeOK, Worker
<1>2. n <= MaxAttempts
  BY DEF Prepare, Calling, Accepts, MayPrepare, Renewals
<1>3. n \in Attempts /\ attempt[s][n] = "none"
  BY <1>1, <1>2, NextNumberFacts, CapturedAssumption DEF Attempts
<1> QED
  BY <1>3 DEF Admits, Prepare

\* There are four ways to touch an attempt.
LEMMA AttemptStep ==
  ASSUME TypeOK, Filled, [Next]_vars
  PROVE  \/ attempt' = attempt
         \/ \E w \in Workers : Admits(w) \/ Sends(w) \/ Completes(w) \/ Closes(w)
<1> USE DEF vars, row, clock
<1>1. ASSUME NEW w \in Workers, Prepare(w) PROVE Admits(w)
  BY <1>1, PrepareAdmits
<1>2. ASSUME NEW w \in Workers, Complete(w) PROVE attempt' = attempt \/ Completes(w)
  <2> DEFINE s == work[w].stage
             n == work[w].n
  <2>1. s \in Stages /\ n \in Attempts
    BY DEF TypeOK, Worker
  <2>2. /\ Own(w)
        /\ \/ attempt[s][n] \in OpenStates /\ status = StatusOf(s)
           \/ attempt[s][n] \in {Ended(st, work[w].out) : st \in OpenStates}
    BY <1>2 DEF Complete, Calling, Accepts, Renewals
  <2>3. CASE attempt[s][n] \in OpenStates
    <3>1. attempt[s][n] \notin {Ended(st, work[w].out) : st \in OpenStates}
      BY <2>3, EndedFacts DEF OpenStates
    <3> QED
      BY <1>2, <2>2, <2>3, <3>1 DEF Completes, Complete
  <2>4. CASE attempt[s][n] \notin OpenStates
    <3>1. attempt' = [attempt EXCEPT ![s][n] = attempt[s][n]]
      BY <1>2, <2>4 DEF Complete
    <3> QED
      BY <2>1, <3>1 DEF TypeOK
  <2> QED
    BY <2>3, <2>4
<1>3. ASSUME NEW w \in Workers, Dispatch(w) PROVE attempt' = attempt \/ Sends(w)
  <2>1. work[w] \in Worker
    BY DEF TypeOK
  <2>2. CASE attempt' = attempt
    BY <2>2
  <2>3. CASE attempt' # attempt
    <3>1. /\ work[w].pc = "prepared" /\ WithinBudget /\ UNCHANGED row
          /\ attempt' = [attempt EXCEPT ![work[w].stage][work[w].n] =
                            IF @ = "prepared" THEN "sent" ELSE "unknown"]
          /\ \/ Move(w, At(work[w], "inflight"), fresh)
             \/ Move(w, [work[w] EXCEPT !.pc = "completeRenew", !.out = "unknown"], fresh)
      BY <1>3, <2>3 DEF Dispatch
    <3>2. work'[w].pc # "prepared"
      <4>1. At(work[w], "inflight").pc = "inflight"
        BY <2>1, AtWorker DEF Points
      <4>2. PICK u : u.pc # "prepared" /\ work' = [work EXCEPT ![w] = u]
        BY <2>1, <3>1, <4>1 DEF Move, Worker
      <4> QED
        BY <4>2 DEF TypeOK
    <3> QED
      BY <3>1, <3>2 DEF Sends
  <2> QED
    BY <2>2, <2>3
<1>4. ASSUME NEW w \in Workers, Reconcile(w) PROVE Closes(w)
  <2>1. work[w].pc \in {"reconcile", "stopReconcile"} /\ Accepts(w)
    BY <1>4 DEF Reconcile, Calling
  <2>2. Own(w)
    BY <2>1 DEF Accepts, Renewals
  <2>3. attempt' = Reconciled /\ UNCHANGED row
    BY <1>4 DEF Reconcile
  <2> QED
    BY <2>1, <2>2, <2>3 DEF Closes
<1>5. ASSUME NEW w \in Workers, Claim(w) PROVE attempt' = attempt \/ Closes(w)
  BY <1>5 DEF Claim, Closes, Calling, Accepts, Renewals, End, Terminal
<1>6. ASSUME NEW w \in Workers,
             \/ Start(w) \/ CapacityClaim(w) \/ Renew(w) \/ Advance(w) \/ Clarify(w) \/ Admit(w)
             \/ PrepareBlocked(w) \/ Answer(w) \/ Reread(w) \/ Stop(w) \/ Defer(w) \/ Fail(w)
             \/ Finalize(w) \/ Refused(w) \/ Crash(w)
      PROVE  attempt' = attempt
  BY <1>6 DEF Start, CapacityClaim, Renew, Advance, Clarify, Admit, PrepareBlocked, Answer,
       Reread, Stop, Defer, Fail, Finalize, Refused, Crash
<1>7. ASSUME \/ RequestCancellation \/ LeaseExpires \/ OperationExpires \/ RetryTimeComes
             \/ FaultsEnd \/ UNCHANGED vars
      PROVE  attempt' = attempt
  BY <1>7 DEF RequestCancellation, LeaseExpires, OperationExpires, RetryTimeComes, FaultsEnd
<1> QED
  BY <1>1, <1>2, <1>3, <1>4, <1>5, <1>6, <1>7 DEF Next, Step

\* What each of them writes, cell by cell.
LEMMA AttemptCells ==
  ASSUME TypeOK, NEW s \in Stages, NEW n \in Attempts, NEW v \in AttemptStates,
         attempt' = [attempt EXCEPT ![s][n] = v]
  PROVE  /\ attempt' \in [Stages -> [Attempts -> AttemptStates]]
         /\ attempt'[s][n] = v
         /\ \A t \in Stages, m \in Attempts :
              ~(t = s /\ m = n) => attempt'[t][m] = attempt[t][m]
BY DEF TypeOK

LEMMA ReconciledCells ==
  ASSUME TypeOK, attempt' = Reconciled
  PROVE  /\ attempt' \in [Stages -> [Attempts -> AttemptStates]]
         /\ \A t \in Stages, m \in Attempts :
              attempt'[t][m] = CASE attempt[t][m] = "prepared" -> "free"
                                 [] attempt[t][m] = "sent" -> "unknown"
                                 [] OTHER -> attempt[t][m]
<1>1. \A t \in Stages, m \in Attempts :
        attempt'[t][m] = IF attempt[t][m] \in OpenStates THEN Ended(attempt[t][m], "unknown")
                         ELSE attempt[t][m]
  BY DEF Reconciled
<1>2. \A t \in Stages, m \in Attempts :
        attempt'[t][m] = CASE attempt[t][m] = "prepared" -> "free"
                           [] attempt[t][m] = "sent" -> "unknown"
                           [] OTHER -> attempt[t][m]
  BY <1>1 DEF Ended, OpenStates
<1>3. \A t \in Stages, m \in Attempts : attempt'[t][m] \in AttemptStates
  BY <1>2 DEF TypeOK, AttemptStates
<1>4. attempt' = [t \in Stages |-> [m \in Attempts |-> attempt'[t][m]]]
  BY DEF Reconciled
<1> QED
  BY <1>2, <1>3, <1>4

-----------------------------------------------------------------------------
(* Types *)

\* A worker at its attempt has one.
Numbered ==
  \A w \in Workers :
    work[w].pc \in Attempting => attempt[work[w].stage][work[w].n] # "none"

\* An attempt row never disappears, and only an admission makes one.
LEMMA RowsStay ==
  ASSUME TypeOK, Filled, Numbered, [Next]_vars
  PROVE  /\ \A t \in Stages, m \in Attempts : attempt[t][m] # "none" => attempt'[t][m] # "none"
         /\ (\A w \in Workers : ~Admits(w)) =>
              \A t \in Stages, m \in Attempts : attempt[t][m] = "none" => attempt'[t][m] = "none"
<1>1. CASE attempt' = attempt
  BY <1>1
<1>2. ASSUME NEW w \in Workers, Admits(w)
      PROVE  \A t \in Stages, m \in Attempts : attempt[t][m] # "none" => attempt'[t][m] # "none"
  BY <1>2 DEF Admits, TypeOK
<1>3. ASSUME NEW w \in Workers, Sends(w) \/ Completes(w) \/ Closes(w)
      PROVE  \A t \in Stages, m \in Attempts : attempt[t][m] # "none" <=> attempt'[t][m] # "none"
  <2>0. work[w].stage \in Stages /\ work[w].n \in Attempts
    BY DEF TypeOK, Worker
  <2>1. CASE Sends(w)
    BY <2>0, <2>1 DEF Sends, TypeOK, Numbered, Attempting
  <2>2. CASE Completes(w)
    BY <2>0, <2>2, EndedFacts DEF Completes, TypeOK, OpenStates
  <2>3. CASE Closes(w)
    BY <2>3, ReconciledCells DEF Closes
  <2> QED
    BY <1>3, <2>1, <2>2, <2>3
<1> QED
  BY <1>1, <1>2, <1>3, AttemptStep

LEMMA FilledStep ==
  ASSUME TypeOK, Filled, Numbered, [Next]_vars PROVE Filled'
<1>1. CASE \A w \in Workers : ~Admits(w)
  BY <1>1, RowsStay DEF Filled, Attempts
<1>2. ASSUME NEW w \in Workers, Admits(w) PROVE Filled'
  <2> DEFINE s == work[w].stage
             n == NextNumber(s)
  <2>1. s \in Stages /\ n \in Attempts
    BY <1>2 DEF TypeOK, Worker, Admits
  <2>2. \A m \in Attempts : m < n <=> attempt[s][m] # "none"
    BY <2>1, NextNumberFacts
  <2>3. /\ attempt'[s][n] = "prepared"
        /\ \A t \in Stages, m \in Attempts :
             ~(t = s /\ m = n) => attempt'[t][m] = attempt[t][m]
    BY <1>2, <2>1 DEF Admits, TypeOK
  <2> QED
    BY <2>1, <2>2, <2>3 DEF Filled, Attempts
<1> QED
  BY <1>1, <1>2

LEMMA NumberedStep ==
  ASSUME TypeOK, Filled, Numbered, [Next]_vars PROVE Numbered'
<1>1. ASSUME NEW w \in Workers, Start(w) \/ Step(w) \/ Crash(w) PROVE Numbered'
  <2>1. PICK u : Went(w, u)
    BY <1>1, StepWent
  <2>2. /\ work'[w] = u
        /\ \A v \in Workers : v # w => work'[v] = work[v]
    BY <2>1 DEF Went, TypeOK
  <2>3. ASSUME NEW v \in Workers
        PROVE  work[v].stage \in Stages /\ work[v].n \in Attempts
    BY DEF TypeOK, Worker
  <2>4. ASSUME u.pc \in Attempting PROVE attempt'[u.stage][u.n] # "none"
    <3>1. CASE work[w].pc \in Attempting /\ u.stage = work[w].stage /\ u.n = work[w].n
      BY <3>1, <2>3, RowsStay DEF Numbered
    <3>2. CASE Prepare(w) /\ u.stage = work[w].stage /\ u.n = NextNumber(work[w].stage)
      <4>1. Admits(w)
        BY <3>2, PrepareAdmits
      <4>2. attempt'[u.stage][u.n] = "prepared"
        BY <3>2, <4>1, <2>3 DEF Admits, TypeOK
      <4> QED
        BY <4>2
    <3> QED
      BY <2>1, <2>4, <3>1, <3>2 DEF Went
  <2> QED
    BY <2>2, <2>3, <2>4, RowsStay DEF Numbered
<1>2. ASSUME UNCHANGED work PROVE Numbered'
  BY <1>2, RowsStay DEF Numbered, TypeOK, Worker
<1>3. \/ \E w \in Workers : Start(w) \/ Step(w) \/ Crash(w)
      \/ UNCHANGED work
  BY DEF Next, vars, RequestCancellation, LeaseExpires, OperationExpires, RetryTimeComes, FaultsEnd
<1> QED
  BY <1>1, <1>2, <1>3

\* What a step does to the operation row, as far as its worth for the rest.
LEMMA RowTypes ==
  ASSUME TypeOK, [Next]_vars
  PROVE  /\ status' \in Resumable \cup Terminal \cup {"awaiting_clarification"}
         /\ {cancel', expired', due', live', calm'} \subseteq BOOLEAN
         /\ route' \in Stages /\ lease' \in Workers \cup {None}
         /\ slot' \in {"reserved", "settled", "released"}
         /\ quality' = quality
<1> USE DEF vars, row, clock
<1>0. \A w \in Workers : work[w].stage \in Stages
  BY DEF TypeOK, Worker
<1>1. \A s : StatusOf(s) \in Resumable
  BY DEF StatusOf, Resumable
<1>2. ASSUME NEW s \in Terminal, End(s)
      PROVE  /\ status' \in Terminal /\ lease' = None /\ live' = FALSE
             /\ slot' \in {"settled", "released"}
  BY <1>2 DEF End
<1>3. ASSUME NEW w \in Workers,
             \/ Start(w) \/ Renew(w) \/ Admit(w) \/ Prepare(w) \/ PrepareBlocked(w) \/ Dispatch(w)
             \/ Answer(w) \/ Complete(w) \/ Reread(w) \/ Reconcile(w) \/ Refused(w) \/ Crash(w)
      PROVE  UNCHANGED <<row, clock, route>>
  BY <1>3 DEF Start, Renew, Admit, Prepare, PrepareBlocked, Dispatch, Answer, Complete, Reread,
       Reconcile, Refused, Crash
<1>4. ASSUME NEW w \in Workers, Claim(w) \/ Stop(w) \/ Fail(w) \/ Finalize(w)
      PROVE  /\ UNCHANGED <<clock, route>> /\ cancel' \in {cancel, TRUE}
             /\ \/ \E s \in Terminal : End(s)
                \/ /\ status' \in {status, "retryable_failure"} /\ slot' = slot
                   /\ lease' \in {w, None} /\ live' \in BOOLEAN
  BY <1>4 DEF Claim, Stop, Fail, Finalize, Terminal
<1>5. ASSUME NEW w \in Workers, CapacityClaim(w)
      PROVE  /\ UNCHANGED <<cancel, slot, expired, calm, quality, route>>
             /\ status' \in {status, StatusOf(route)} /\ due' \in {due, FALSE}
             /\ lease' \in {lease, w} /\ live' \in {live, TRUE}
  BY <1>5 DEF CapacityClaim
<1>6. ASSUME NEW w \in Workers, Advance(w) \/ Clarify(w)
      PROVE  /\ UNCHANGED <<cancel, slot, clock, route>>
             /\ status' \in {"generating", "validating", "persisting", "awaiting_clarification"}
             /\ lease' \in {lease, None} /\ live' \in {live, FALSE}
  <2>1. CASE Advance(w)
    BY <2>1 DEF Advance
  <2>2. CASE Clarify(w)
    BY <2>2 DEF Clarify
  <2> QED
    BY <1>6, <2>1, <2>2
<1>7. ASSUME NEW w \in Workers, Defer(w)
      PROVE  /\ UNCHANGED <<cancel, slot, expired, calm, quality>>
             /\ status' = "awaiting_capacity" /\ due' = FALSE /\ route' \in Stages
             /\ lease' = None /\ live' = FALSE
  BY <1>7, <1>0 DEF Defer
<1>8. ASSUME RequestCancellation
      PROVE  /\ UNCHANGED <<clock, route>> /\ cancel' = TRUE
             /\ (\E s \in Terminal : End(s)) \/ UNCHANGED <<status, lease, live, slot>>
  BY <1>8 DEF RequestCancellation, Terminal
<1>9. ASSUME LeaseExpires \/ OperationExpires \/ RetryTimeComes \/ FaultsEnd \/ UNCHANGED vars
      PROVE  /\ UNCHANGED <<status, cancel, lease, slot, quality, route>>
             /\ live' \in {live, FALSE} /\ expired' \in {expired, TRUE}
             /\ due' \in {due, TRUE} /\ calm' \in {calm, TRUE}
  BY <1>9 DEF LeaseExpires, OperationExpires, RetryTimeComes, FaultsEnd
<1>10. CASE UNCHANGED <<row, clock, route>>
  BY <1>10 DEF TypeOK
<1>11. CASE \E w \in Workers : Claim(w) \/ Stop(w) \/ Fail(w) \/ Finalize(w)
  BY <1>11, <1>2, <1>4 DEF TypeOK, Resumable
<1>12. CASE \E w \in Workers : CapacityClaim(w)
  BY <1>12, <1>1, <1>5 DEF TypeOK
<1>13. CASE \E w \in Workers : Advance(w) \/ Clarify(w)
  BY <1>13, <1>6 DEF TypeOK, Resumable
<1>14. CASE \E w \in Workers : Defer(w)
  BY <1>14, <1>7 DEF TypeOK, Resumable
<1>15. CASE RequestCancellation
  BY <1>15, <1>2, <1>8 DEF TypeOK
<1>16. CASE LeaseExpires \/ OperationExpires \/ RetryTimeComes \/ FaultsEnd \/ UNCHANGED vars
  BY <1>16, <1>9 DEF TypeOK
<1> QED
  BY <1>3, <1>10, <1>11, <1>12, <1>13, <1>14, <1>15, <1>16 DEF Next, Step

LEMMA TypeStep ==
  ASSUME TypeOK, Filled, [Next]_vars PROVE TypeOK'
<1>1. attempt' \in [Stages -> [Attempts -> AttemptStates]]
  <2> USE DEF AttemptStates
  <2>0. \A w \in Workers : work[w].stage \in Stages /\ work[w].n \in Attempts
    BY DEF TypeOK, Worker
  <2>1. ASSUME NEW w \in Workers, Admits(w)
        PROVE  attempt' \in [Stages -> [Attempts -> AttemptStates]]
    BY <2>0, <2>1, AttemptCells DEF Admits
  <2>2. ASSUME NEW w \in Workers, Sends(w)
        PROVE  attempt' \in [Stages -> [Attempts -> AttemptStates]]
    BY <2>0, <2>2, AttemptCells DEF Sends
  <2>3. ASSUME NEW w \in Workers, Completes(w)
        PROVE  attempt' \in [Stages -> [Attempts -> AttemptStates]]
    <3>1. Ended(attempt[work[w].stage][work[w].n], work[w].out) \in AttemptStates
      BY EndedFacts
    <3> QED
      BY <2>0, <2>3, <3>1, AttemptCells DEF Completes
  <2>4. ASSUME NEW w \in Workers, Closes(w)
        PROVE  attempt' \in [Stages -> [Attempts -> AttemptStates]]
    BY <2>4, ReconciledCells DEF Closes
  <2> QED
    BY <2>1, <2>2, <2>3, <2>4, AttemptStep DEF TypeOK
<1>2. work' \in [Workers -> Worker] /\ fresh' \subseteq Workers
  <2>1. ASSUME NEW w \in Workers, Start(w) \/ Step(w) \/ Crash(w)
        PROVE  work' \in [Workers -> Worker] /\ fresh' \subseteq Workers
    <3>1. PICK u : Went(w, u)
      BY <2>1, StepWent
    <3> QED
      BY <3>1 DEF Went, TypeOK
  <2>2. ASSUME RequestCancellation \/ LeaseExpires \/ OperationExpires \/ RetryTimeComes
               \/ FaultsEnd \/ UNCHANGED vars
        PROVE  work' = work /\ fresh' \in {fresh, {}}
    BY <2>2 DEF RequestCancellation, LeaseExpires, OperationExpires, RetryTimeComes, FaultsEnd, vars
  <2> QED
    BY <2>1, <2>2 DEF Next, TypeOK
<1> QED
  BY <1>1, <1>2, RowTypes DEF TypeOK

\* What the type invariant rests on.
TypeInv == TypeOK /\ Filled /\ Numbered

LEMMA TypeInit == Init => TypeInv
<1> SUFFICES ASSUME Init PROVE TypeInv
  OBVIOUS
<1>1. TypeOK
  BY IdleWorker DEF Init, TypeOK, Resumable, Stages, AttemptStates, Attempts
<1>2. Filled
  BY DEF Init, Filled, Attempts
<1>3. Numbered
  BY IdleWorker DEF Init, Numbered, Attempting
<1> QED
  BY <1>1, <1>2, <1>3 DEF TypeInv

LEMMA TypeInvStep == TypeInv /\ [Next]_vars => TypeInv'
BY TypeStep, FilledStep, NumberedStep DEF TypeInv

\* TypeOK of CapturedOperation holds for every set of workers: among others no
\* call names an attempt, a stage or a next call the code does not know.
THEOREM TypeCorrect == Spec => []TypeOK
<1>1. TypeInv => TypeOK
  BY DEF TypeInv
<1> QED
  BY <1>1, TypeInit, TypeInvStep, PTL DEF Spec

-----------------------------------------------------------------------------
(* What a step does to the operation row *)

\* Only an operation that somebody works on is leased.
LeaseIsActive ==
  /\ lease # None => Active /\ status # "awaiting_capacity"
  /\ live => lease # None

\* A worker about to claim has read a status that can be claimed.
ClaimIsResumable ==
  \A w \in fresh : work[w].pc = "claim" => status # "awaiting_capacity"

\* A worker about to prepare an attempt was told that nothing is cancelled,
\* and its copy of the row is no longer good once something is.
PrepareIsUncancelled ==
  \A w \in fresh : work[w].pc = "prepare" => ~cancel

SlotFits ==
  slot = CASE status = "ready_for_review" -> "settled"
           [] status \in {"terminal_failure", "cancelled"} -> "released"
           [] OTHER -> "reserved"

Rests ==
  /\ UNCHANGED <<status, slot, lease, route>>
  /\ \/ live' = live
     \/ /\ Leased /\ live' = FALSE /\ work[lease].pc # "prepared"
  /\ \/ cancel' = cancel
     \/ /\ Active /\ cancel' = TRUE /\ fresh' = {}

Takes(w) ==
  /\ Active /\ ~Leased /\ lease' = w /\ live' = TRUE
  /\ UNCHANGED <<cancel, slot, attempt, route>>
  /\ \/ /\ status # "awaiting_capacity" /\ status' = status
     \/ /\ status = "awaiting_capacity" /\ status' = StatusOf(route)

Moves(w) ==
  /\ Own(w) /\ UNCHANGED <<cancel, lease, live, slot, attempt, route>>
  /\ \/ status' = "generating"
     \/ /\ status' \in {"validating", "persisting"} /\ work[w].pc \in AfterText

Parks(w) ==
  /\ Own(w) /\ work[w].pc # "prepared" /\ lease' = None /\ live' = FALSE /\ fresh' = {}
  /\ UNCHANGED <<cancel, slot, attempt>>
  /\ status' \in {"awaiting_clarification", "awaiting_capacity", "retryable_failure"}
  /\ route' = route \/ status = StatusOf(route')

Ends ==
  /\ Active /\ fresh' = {} /\ UNCHANGED route
  /\ \/ attempt' = Reconciled
     \/ /\ attempt' = attempt /\ Prepared = {}
  /\ \/ /\ cancel' \in {cancel, TRUE}
        /\ End("cancelled") \/ End("terminal_failure")
     \/ /\ ~cancel /\ ~expired /\ cancel' = cancel /\ End("ready_for_review")
        /\ \E w \in Workers : work[w].pc = "finalize"

LEMMA RowStep ==
  ASSUME TypeInv, LeaseIsActive, ClaimIsResumable, [Next]_vars
  PROVE  Rests \/ Ends \/ \E w \in Workers : Takes(w) \/ Moves(w) \/ Parks(w)
<1> USE DEF vars, row, clock
<1>0. TypeOK /\ Filled
  BY DEF TypeInv
<1>m. ASSUME NEW w \in Workers, Move(w, Idle, {}) PROVE fresh' = {}
  BY <1>m DEF Move
<1>1. ASSUME NEW w \in Workers,
             \/ Start(w) \/ Renew(w) \/ Admit(w) \/ Prepare(w) \/ PrepareBlocked(w) \/ Dispatch(w)
             \/ Answer(w) \/ Complete(w) \/ Reread(w) \/ Reconcile(w) \/ Refused(w) \/ Crash(w)
      PROVE  Rests
  BY <1>1 DEF Rests, Start, Renew, Admit, Prepare, PrepareBlocked, Dispatch, Answer, Complete,
       Reread, Reconcile, Refused, Crash
<1>2. ASSUME NEW w \in Workers, Claim(w) PROVE Ends \/ Takes(w)
  <2>1. w \in fresh /\ work[w].pc = "claim" /\ Active /\ (expired \/ ~Leased)
    BY <1>2 DEF Claim, Calling, Accepts, Renewals
  <2>2. CASE expired
    <3>1. /\ attempt' = Reconciled /\ End(IF cancel THEN "cancelled" ELSE "terminal_failure")
          /\ Move(w, Idle, {}) /\ UNCHANGED <<cancel, route>>
      BY <1>2, <2>2 DEF Claim
    <3> QED
      BY <2>1, <3>1, <1>m DEF Ends
  <2>3. CASE ~expired
    BY <1>2, <2>1, <2>3 DEF Claim, Takes, ClaimIsResumable
  <2> QED
    BY <2>2, <2>3
<1>3. ASSUME NEW w \in Workers, CapacityClaim(w) PROVE Rests \/ Takes(w)
  <2>1. status = "awaiting_capacity"
    BY <1>3 DEF CapacityClaim, Calling, Accepts, Renewals
  <2>2. Active /\ ~Leased
    BY <2>1 DEF Active, Terminal, LeaseIsActive, Leased
  <2> QED
    BY <1>3, <2>1, <2>2 DEF CapacityClaim, Rests, Takes
<1>4. ASSUME NEW w \in Workers, Advance(w) PROVE Moves(w)
  <2>1. /\ work[w].pc \in {"generate", "review", "validate", "persist"} /\ Own(w)
    BY <1>4 DEF Advance, Calling, Accepts, Renewals
  <2>2. status' = CASE work[w].pc = "generate" -> "generating"
                    [] work[w].pc = "persist" -> "persisting" [] OTHER -> "validating"
    BY <1>4 DEF Advance
  <2>3. UNCHANGED <<cancel, lease, live, slot, attempt, route>>
    BY <1>4 DEF Advance
  <2> QED
    BY <2>1, <2>2, <2>3 DEF Moves, AfterText
<1>5. ASSUME NEW w \in Workers, Clarify(w) PROVE Parks(w)
  <2>1. work[w].pc = "clarify" /\ Own(w)
    BY <1>5 DEF Clarify, Calling, Accepts, Renewals
  <2> QED
    BY <1>5, <2>1, <1>m DEF Clarify, Parks
<1>6. ASSUME NEW w \in Workers, Defer(w) PROVE Parks(w)
  <2>1. work[w].pc = "defer" /\ Own(w) /\ status = StatusOf(work[w].stage)
    BY <1>6 DEF Defer, Calling, Accepts, Renewals
  <2> QED
    BY <1>6, <2>1, <1>m DEF Defer, Parks
<1>7. ASSUME NEW w \in Workers, Fail(w) PROVE Parks(w) \/ Ends
  <2>1. /\ work[w].pc \in {"fail", "invalid"} /\ Own(w) /\ Active
        /\ \/ Prepared = {}
           \/ /\ work[w].pc = "fail" /\ work[w].err = "retryable"
    BY <1>7 DEF Fail, Calling, Accepts, Renewals
  <2>2. fresh' = {} /\ UNCHANGED <<cancel, attempt, route>>
    BY <1>7, <1>m DEF Fail
  <2>3. CASE work[w].pc = "fail" /\ work[w].err = "retryable"
    BY <1>7, <2>1, <2>2, <2>3 DEF Fail, Parks
  <2>4. CASE ~(work[w].pc = "fail" /\ work[w].err = "retryable")
    BY <1>7, <2>1, <2>2, <2>4 DEF Fail, Ends
  <2> QED
    BY <2>3, <2>4
<1>8. ASSUME NEW w \in Workers, Stop(w) PROVE Ends
  <2>1. Active /\ Prepared = {}
    BY <1>8 DEF Stop, Calling, Accepts, Renewals
  <2> QED
    BY <1>8, <2>1, <1>m DEF Stop, Ends
<1>9. ASSUME NEW w \in Workers, Finalize(w) PROVE Ends
  <2>1. /\ work[w].pc = "finalize" /\ ~cancel /\ ~expired /\ Prepared = {}
        /\ status = "persisting"
    BY <1>9 DEF Finalize, Calling, Accepts, MayFinalize, Renewals
  <2>2. Active
    BY <2>1 DEF Active, Terminal
  <2> QED
    BY <1>9, <2>1, <2>2, <1>m DEF Finalize, Ends
<1>10. ASSUME RequestCancellation PROVE Rests \/ Ends
  BY <1>10 DEF RequestCancellation, Rests, Ends
<1>11. ASSUME LeaseExpires \/ OperationExpires \/ RetryTimeComes \/ FaultsEnd \/ UNCHANGED vars
       PROVE  Rests
  BY <1>11 DEF LeaseExpires, OperationExpires, RetryTimeComes, FaultsEnd, Rests
<1> QED
  BY <1>1, <1>2, <1>3, <1>4, <1>5, <1>6, <1>7, <1>8, <1>9, <1>10, <1>11 DEF Next, Step

\* A step moves one worker at most.
LEMMA WorkStep ==
  ASSUME TypeInv, [Next]_vars
  PROVE  \/ \E w \in Workers : \E u : Went(w, u)
         \/ work' = work /\ fresh' \subseteq fresh
<1>1. TypeOK /\ Filled
  BY DEF TypeInv
<1>2. ASSUME \/ RequestCancellation \/ LeaseExpires \/ OperationExpires \/ RetryTimeComes
             \/ FaultsEnd \/ UNCHANGED vars
      PROVE  work' = work /\ fresh' \subseteq fresh
  BY <1>2 DEF RequestCancellation, LeaseExpires, OperationExpires, RetryTimeComes, FaultsEnd, vars
<1> QED
  BY <1>1, <1>2, StepWent DEF Next

\* What is settled about the row: it supports every worker whose copy is good.
RowInv == LeaseIsActive /\ ClaimIsResumable /\ PrepareIsUncancelled /\ SlotFits

LEMMA RowInit == Init => RowInv
<1> SUFFICES ASSUME Init PROVE RowInv
  OBVIOUS
<1> QED
  BY CapturedAssumption
  DEF Init, RowInv, LeaseIsActive, ClaimIsResumable, PrepareIsUncancelled, SlotFits

LEMMA RowInvStep ==
  ASSUME TypeInv, RowInv, [Next]_vars PROVE RowInv'
<1>0. LeaseIsActive /\ ClaimIsResumable /\ PrepareIsUncancelled /\ SlotFits
  BY DEF RowInv
<1>1. Rests \/ Ends \/ \E w \in Workers : Takes(w) \/ Moves(w) \/ Parks(w)
  BY <1>0, RowStep
<1>2. \A w \in Workers : Own(w) => Active /\ status # "awaiting_capacity"
  BY <1>0, CapturedAssumption DEF Own, LeaseIsActive
<1>3. \A s : StatusOf(s) \in {"generating", "validating"}
  BY DEF StatusOf
<1>4. LeaseIsActive'
  <2>1. CASE Rests
    BY <1>0, <2>1 DEF Rests, LeaseIsActive, Active
  <2>2. CASE Ends
    BY <2>2 DEF Ends, End, LeaseIsActive
  <2>3. CASE \E w \in Workers : Takes(w)
    BY <1>3, <2>3, CapturedAssumption DEF Takes, LeaseIsActive, Active, Terminal
  <2>4. CASE \E w \in Workers : Moves(w)
    BY <1>0, <1>2, <2>4 DEF Moves, LeaseIsActive, Active, Terminal
  <2>5. CASE \E w \in Workers : Parks(w)
    BY <2>5 DEF Parks, LeaseIsActive
  <2> QED
    BY <1>1, <2>1, <2>2, <2>3, <2>4, <2>5
<1>5. fresh' # {} => status' = status \/ status' # "awaiting_capacity"
  BY <1>1, <1>3 DEF Rests, Ends, Takes, Moves, Parks
<1>6. fresh' # {} => cancel' = cancel
  BY <1>1 DEF Rests, Ends, Takes, Moves, Parks
<1>7. ClaimIsResumable' /\ PrepareIsUncancelled'
  <2>1. ASSUME NEW w \in Workers, NEW u, Went(w, u)
        PROVE  ClaimIsResumable' /\ PrepareIsUncancelled'
    <3>1. /\ work'[w] = u /\ fresh' \subseteq fresh \cup {w}
          /\ \A v \in Workers : v # w => work'[v] = work[v]
      BY <2>1 DEF Went, TypeInv, TypeOK
    <3>2. ASSUME NEW v \in fresh'
          PROVE  /\ work'[v].pc = "claim" => status' # "awaiting_capacity"
                 /\ work'[v].pc = "prepare" => ~cancel'
      <4>1. CASE v = w
        BY <2>1, <3>1, <4>1 DEF Went
      <4>2. CASE v # w
        <5>1. v \in fresh /\ v \in Workers /\ work'[v] = work[v] /\ fresh' # {}
          BY <3>1, <3>2, <4>2 DEF TypeInv, TypeOK
        <5> QED
          BY <1>0, <1>5, <1>6, <5>1 DEF ClaimIsResumable, PrepareIsUncancelled
      <4> QED
        BY <4>1, <4>2
    <3> QED
      BY <3>2 DEF ClaimIsResumable, PrepareIsUncancelled
  <2>2. CASE work' = work /\ fresh' \subseteq fresh
    BY <1>0, <1>5, <1>6, <2>2 DEF ClaimIsResumable, PrepareIsUncancelled
  <2> QED
    BY <2>1, <2>2, WorkStep
<1>8. SlotFits'
  <2>1. CASE Rests
    BY <1>0, <2>1 DEF Rests, SlotFits
  <2>2. CASE Ends
    BY <2>2 DEF Ends, End, SlotFits
  <2>3. CASE \E w \in Workers : Takes(w) \/ Moves(w) \/ Parks(w)
    <3>1. Active /\ slot' = slot /\ status' \notin Terminal
      BY <1>2, <1>3, <2>3 DEF Takes, Moves, Parks, Active, Terminal
    <3> QED
      BY <1>0, <3>1 DEF SlotFits, Active, Terminal
  <2> QED
    BY <1>1, <2>1, <2>2, <2>3
<1> QED
  BY <1>4, <1>7, <1>8 DEF RowInv

\* NoAdmissionAfterCancel of CapturedOperation: only a worker whose copy of the
\* row is good admits an attempt, and a copy from before the cancellation is not.
THEOREM NoneAfterCancel == Spec => NoAdmissionAfterCancel
<1> DEFINE A == cancel => \A s \in Stages, n \in Attempts :
                            attempt'[s][n] \in OpenStates => attempt[s][n] \in OpenStates
<1>1. TypeInv /\ RowInv /\ [Next]_vars => A
  <2> SUFFICES ASSUME TypeInv, RowInv, [Next]_vars, cancel,
                      NEW s \in Stages, NEW n \in Attempts, attempt'[s][n] \in OpenStates
               PROVE  attempt[s][n] \in OpenStates
    OBVIOUS
  <2>0. TypeOK /\ Filled /\ Numbered
    BY DEF TypeInv
  <2>w. \A w \in Workers : work[w].stage \in Stages /\ work[w].n \in Attempts
    BY <2>0 DEF TypeOK, Worker
  <2>1. CASE attempt' = attempt
    BY <2>1
  <2>2. ASSUME NEW w \in Workers PROVE ~Admits(w)
    <3>1. Prepare(w) => w \in fresh /\ work[w].pc = "prepare"
      BY DEF Prepare, Calling, Accepts, MayPrepare, Renewals
    <3> QED
      BY <3>1 DEF Admits, RowInv, PrepareIsUncancelled
  <2>3. ASSUME NEW w \in Workers, Sends(w) PROVE attempt[s][n] \in OpenStates
    BY <2>0, <2>w, <2>3 DEF Sends, TypeOK, OpenStates
  <2>4. ASSUME NEW w \in Workers, Completes(w) PROVE attempt[s][n] \in OpenStates
    BY <2>0, <2>w, <2>4, EndedFacts DEF Completes, TypeOK, OpenStates
  <2>5. ASSUME NEW w \in Workers, Closes(w) PROVE attempt[s][n] \in OpenStates
    BY <2>0, <2>5, ReconciledCells DEF Closes, OpenStates
  <2> QED
    BY <2>0, <2>1, <2>2, <2>3, <2>4, <2>5, AttemptStep
<1>2. RowInv /\ TypeInv /\ [Next]_vars => RowInv'
  BY RowInvStep
<1>3. Spec => [][A]_vars
  BY <1>1, <1>2, TypeInit, TypeInvStep, RowInit, PTL DEF Spec
<1> QED
  BY <1>3 DEF NoAdmissionAfterCancel

-----------------------------------------------------------------------------
(* The attempts *)

\* At most one is open; none of a stage that has its text; no review of a text
\* that is not stored.
OneOpen ==
  /\ \A s, t \in Stages, n, m \in Attempts :
       attempt[s][n] \in OpenStates /\ attempt[t][m] \in OpenStates => s = t /\ n = m
  /\ \A s \in Stages : Stored(s) => ~Open(s)
  /\ Open("review") \/ Stored("review") => Stored("generation")

\* Whoever works with the generated text finds it stored.
TextIsStored ==
  /\ status \in {"validating", "persisting", "ready_for_review"} => Stored("generation")
  /\ route = "review" => Stored("generation")
  /\ \A w \in Workers : work[w].pc \in AfterText => Stored("generation")

\* A worker about to send holds the lease and an attempt nobody else works at;
\* when an expiry has ended the operation, that attempt is closed.
AttemptOwned ==
  \A w \in Workers : work[w].pc = "prepared" =>
    /\ IF Active THEN Own(w) /\ attempt[work[w].stage][work[w].n] = "prepared"
       ELSE attempt[work[w].stage][work[w].n] = "free"
    /\ \A v \in Workers : v # w /\ work[v].pc \in Attempting =>
         ~(work[v].stage = work[w].stage /\ work[v].n = work[w].n)

EndIsClosed ==
  /\ ~Active => Prepared = {}
  /\ status = "ready_for_review" => ~cancel /\ Stored("generation")

AttemptInv == OneOpen /\ TextIsStored /\ AttemptOwned /\ EndIsClosed

LEMMA PreparedFacts ==
  /\ Prepared = {} <=> \A s \in Stages, n \in Attempts : attempt[s][n] \notin OpenStates
  /\ Prepared' = {} <=> \A s \in Stages, n \in Attempts : attempt'[s][n] \notin OpenStates
<1>1. \A s \in Stages, n \in Attempts : <<s, n>> \in Stages \X Attempts
  OBVIOUS
<1>2. \A a \in Stages \X Attempts : a[1] \in Stages /\ a[2] \in Attempts
  OBVIOUS
<1>3. \A s \in Stages, n \in Attempts : <<s, n>> \in Prepared <=> attempt[s][n] \in OpenStates
  BY DEF Prepared
<1>4. \A s \in Stages, n \in Attempts : <<s, n>> \in Prepared' <=> attempt'[s][n] \in OpenStates
  BY DEF Prepared
<1>5. Prepared = {} <=> \A s \in Stages, n \in Attempts : attempt[s][n] \notin OpenStates
  <2>1. Prepared = {} => \A s \in Stages, n \in Attempts : attempt[s][n] \notin OpenStates
    BY <1>3
  <2>2. ASSUME NEW a \in Prepared PROVE \E s \in Stages, n \in Attempts : attempt[s][n] \in OpenStates
    BY <1>2 DEF Prepared
  <2> QED
    BY <2>1, <2>2
<1>6. Prepared' = {} <=> \A s \in Stages, n \in Attempts : attempt'[s][n] \notin OpenStates
  <2>1. Prepared' = {} => \A s \in Stages, n \in Attempts : attempt'[s][n] \notin OpenStates
    BY <1>4
  <2>2. ASSUME NEW a \in Prepared' PROVE \E s \in Stages, n \in Attempts : attempt'[s][n] \in OpenStates
    BY <1>2 DEF Prepared
  <2> QED
    BY <2>1, <2>2
<1> QED
  BY <1>5, <1>6

LEMMA AttemptInit == Init => AttemptInv
<1> SUFFICES ASSUME Init PROVE AttemptInv
  OBVIOUS
<1>1. \A s \in Stages, n \in Attempts : attempt[s][n] = "none"
  BY DEF Init
<1>2. \A w \in Workers : work[w].pc = "idle"
  BY IdleWorker DEF Init
<1>3. status = "accepted" /\ route = "generation"
  BY DEF Init
<1>4. \A s \in Stages : ~Stored(s) /\ ~Open(s)
  BY <1>1 DEF Stored, Open, OpenStates
<1>5. OneOpen
  BY <1>1, <1>4 DEF OneOpen, OpenStates, Stages
<1>6. TextIsStored
  BY <1>2, <1>3 DEF TextIsStored, AfterText
<1>7. AttemptOwned /\ EndIsClosed
  BY <1>2, <1>3 DEF AttemptOwned, EndIsClosed, Active, Terminal
<1> QED
  BY <1>5, <1>6, <1>7 DEF AttemptInv

\* What is sent was admitted for this worker, or closed by the operation's end.
LEMMA SentCell ==
  ASSUME TypeInv, AttemptOwned, NEW w \in Workers, Sends(w),
         NEW s \in Stages, NEW n \in Attempts
  PROVE  IF s = work[w].stage /\ n = work[w].n
         THEN IF Active THEN attempt[s][n] = "prepared" /\ attempt'[s][n] = "sent"
              ELSE attempt[s][n] = "free" /\ attempt'[s][n] = "unknown"
         ELSE attempt'[s][n] = attempt[s][n]
<1>1. TypeOK /\ work[w].stage \in Stages /\ work[w].n \in Attempts
  BY DEF TypeInv, TypeOK, Worker
<1> QED
  BY <1>1 DEF Sends, AttemptOwned, TypeOK

\* A stored text stays; only an admission opens an attempt, and only a
\* completion stores a text.
LEMMA WhatLasts ==
  ASSUME TypeInv, AttemptOwned, [Next]_vars, NEW s \in Stages, NEW n \in Attempts
  PROVE  /\ attempt[s][n] = "succeeded" => attempt'[s][n] = "succeeded"
         /\ (\A w \in Workers : ~Admits(w)) =>
              (attempt'[s][n] \in OpenStates => attempt[s][n] \in OpenStates)
         /\ (\A w \in Workers : ~Completes(w)) =>
              (attempt'[s][n] = "succeeded" => attempt[s][n] = "succeeded")
<1>0. TypeOK /\ Filled /\ Numbered
  BY DEF TypeInv
<1>w. \A w \in Workers : work[w].stage \in Stages /\ work[w].n \in Attempts
  BY <1>0 DEF TypeOK, Worker
<1>2. ASSUME NEW w \in Workers, Admits(w)
      PROVE  attempt'[s][n] = "succeeded" <=> attempt[s][n] = "succeeded"
  BY <1>0, <1>w, <1>2 DEF Admits, TypeOK
<1>3. ASSUME NEW w \in Workers, Sends(w)
      PROVE  /\ attempt'[s][n] = "succeeded" <=> attempt[s][n] = "succeeded"
             /\ attempt'[s][n] \in OpenStates => attempt[s][n] \in OpenStates
  BY <1>3, SentCell DEF OpenStates
<1>4. ASSUME NEW w \in Workers, Completes(w)
      PROVE  /\ attempt[s][n] = "succeeded" => attempt'[s][n] = "succeeded"
             /\ attempt'[s][n] \in OpenStates => attempt[s][n] \in OpenStates
  BY <1>0, <1>w, <1>4, EndedFacts DEF Completes, TypeOK, OpenStates
<1>5. ASSUME NEW w \in Workers, Closes(w)
      PROVE  /\ attempt'[s][n] = "succeeded" <=> attempt[s][n] = "succeeded"
             /\ attempt'[s][n] \notin OpenStates
  BY <1>0, <1>5, ReconciledCells DEF Closes, OpenStates
<1> QED
  BY <1>0, <1>2, <1>3, <1>4, <1>5, AttemptStep

LEMMA StoredStays ==
  ASSUME TypeInv, AttemptOwned, [Next]_vars, NEW s \in Stages
  PROVE  /\ Stored(s) => Stored(s)'
         /\ (\A w \in Workers : ~Completes(w)) => (Stored(s)' => Stored(s))
BY WhatLasts DEF Stored

LEMMA OneOpenStep ==
  ASSUME TypeInv, AttemptInv, [Next]_vars PROVE OneOpen'
<1>0. TypeOK /\ Filled /\ OneOpen /\ TextIsStored /\ AttemptOwned
  BY DEF TypeInv, AttemptInv
<1>g. "generation" \in Stages /\ "review" \in Stages
  BY DEF Stages
<1>w. \A w \in Workers : work[w].stage \in Stages /\ work[w].n \in Attempts
  BY <1>0 DEF TypeOK, Worker
<1>1. CASE \A w \in Workers : ~Admits(w) /\ ~Completes(w)
  <2>1. \A s \in Stages : /\ Stored(s)' <=> Stored(s)
                          /\ Open(s)' => Open(s)
    BY <1>0, <1>1, StoredStays, WhatLasts DEF Open
  <2> QED
    BY <1>0, <1>1, <1>g, <2>1, WhatLasts DEF OneOpen
<1>2. ASSUME NEW w \in Workers, Admits(w) PROVE OneOpen'
  <2> DEFINE a == work[w].stage
             b == NextNumber(a)
  <2>1. /\ a \in Stages /\ b \in Attempts
        /\ attempt'[a][b] = "prepared" /\ attempt[a][b] = "none"
        /\ \A t \in Stages, m \in Attempts : ~(t = a /\ m = b) => attempt'[t][m] = attempt[t][m]
    BY <1>0, <1>2, <1>w DEF Admits, TypeOK
  <2>2. status = StatusOf(a) /\ ~Open(a) /\ ~Stored(a)
    BY <1>2 DEF Admits, Prepare, Calling, Accepts, MayPrepare, Renewals
  <2> HIDE DEF a, b
  <2>3. a = "review" => Stored("generation")
    BY <1>0, <2>2 DEF StatusOf, TextIsStored
  <2>4. \A s \in Stages : ~Open(s)
    BY <1>0, <2>1, <2>2, <2>3 DEF OneOpen, Stages
  <2>5. \A t \in Stages, m \in Attempts : attempt[t][m] \notin OpenStates
    BY <2>4 DEF Open
  <2>6. \A t \in Stages, m \in Attempts :
          attempt'[t][m] \in OpenStates => t = a /\ m = b
    BY <2>1, <2>5
  <2>7. \A s \in Stages : Stored(s)' <=> Stored(s)
    BY <2>1 DEF Stored
  <2>8. \A s \in Stages : Open(s)' => s = a
    BY <2>6 DEF Open
  <2> QED
    BY <1>0, <1>g, <2>2, <2>3, <2>6, <2>7, <2>8 DEF OneOpen
<1>3. ASSUME NEW w \in Workers, Completes(w) PROVE OneOpen'
  <2> DEFINE a == work[w].stage
             b == work[w].n
  <2>1. /\ a \in Stages /\ b \in Attempts /\ attempt[a][b] \in OpenStates
        /\ attempt'[a][b] \notin OpenStates
        /\ \A t \in Stages, m \in Attempts : ~(t = a /\ m = b) => attempt'[t][m] = attempt[t][m]
    BY <1>0, <1>3, <1>w, EndedFacts DEF Completes, TypeOK, OpenStates
  <2> HIDE DEF a, b
  <2>2. \A t \in Stages, m \in Attempts : attempt'[t][m] \notin OpenStates
    BY <1>0, <2>1 DEF OneOpen
  <2>3. \A s \in Stages : ~Open(s)'
    BY <2>2 DEF Open
  <2>4. \A s \in Stages : s # a => (Stored(s)' <=> Stored(s))
    BY <2>1 DEF Stored
  <2>5. Open(a)
    BY <2>1 DEF Open
  <2>6. Stored("review")' => Stored("generation")
    BY <1>0, <1>g, <2>1, <2>4, <2>5 DEF OneOpen
  <2> QED
    BY <1>0, <1>g, <2>2, <2>3, <2>6, StoredStays DEF OneOpen
<1> QED
  BY <1>1, <1>2, <1>3

LEMMA TextIsStoredStep ==
  ASSUME TypeInv, RowInv, AttemptInv, [Next]_vars PROVE TextIsStored'
<1>0. TypeOK /\ Filled /\ OneOpen /\ TextIsStored /\ AttemptOwned
  BY DEF TypeInv, AttemptInv
<1>g. "generation" \in Stages /\ "review" \in Stages
  BY DEF Stages
<1>1. Stored("generation") => Stored("generation")'
  BY <1>0, <1>g, StoredStays
<1>2. Stored("generation")' \/ Stored("review")' => Stored("generation")'
  BY OneOpenStep DEF OneOpen
<1>3. Rests \/ Ends \/ \E w \in Workers : Takes(w) \/ Moves(w) \/ Parks(w)
  BY RowStep DEF RowInv
<1>4. /\ status' \in {"validating", "persisting", "ready_for_review"} => Stored("generation")
      /\ route' = "review" => Stored("generation")
  <2>1. CASE Rests
    BY <1>0, <2>1 DEF Rests, TextIsStored
  <2>2. CASE Ends
    BY <1>0, <2>2 DEF Ends, End, TextIsStored, AfterText
  <2>3. ASSUME NEW w \in Workers, Takes(w) \/ Moves(w) \/ Parks(w)
        PROVE  /\ status' \in {"validating", "persisting", "ready_for_review"} => Stored("generation")
               /\ route' = "review" => Stored("generation")
    <3>1. CASE Takes(w)
      BY <1>0, <3>1 DEF Takes, TextIsStored, StatusOf, TypeOK, Stages
    <3>2. CASE Moves(w)
      BY <1>0, <3>2 DEF Moves, TextIsStored
    <3>3. CASE Parks(w)
      <4>1. status' \notin {"validating", "persisting", "ready_for_review"}
        BY <3>3 DEF Parks
      <4>2. route' = "review" => route = "review" \/ status = "validating"
        BY <3>3 DEF Parks, StatusOf
      <4> QED
        BY <1>0, <4>1, <4>2 DEF TextIsStored
    <3> QED
      BY <2>3, <3>1, <3>2, <3>3
  <2> QED
    BY <1>3, <2>1, <2>2, <2>3
<1>5. ASSUME NEW v \in Workers, work'[v].pc \in AfterText PROVE Stored("generation")'
  <2>1. CASE work' = work
    BY <1>0, <1>1, <1>5, <2>1 DEF TextIsStored
  <2>2. ASSUME NEW w \in Workers, NEW u, Went(w, u) PROVE Stored("generation")'
    <3>1. work' = [work EXCEPT ![w] = u]
      BY <2>2 DEF Went
    <3>2. CASE v # w
      BY <1>0, <1>1, <1>5, <3>1, <3>2 DEF TextIsStored, TypeOK
    <3>3. CASE v = w
      <4>1. u.pc \in AfterText
        BY <1>0, <1>5, <3>1, <3>3 DEF TypeOK
      <4>2. CASE Stored("generation") \/ Stored("review") \/ work[w].pc \in AfterText
        BY <1>0, <1>1, <4>2 DEF TextIsStored, OneOpen
      <4>3. CASE Complete(w) /\ work[w].out = "succeeded"
        <5>0. work[w].stage \in Stages /\ work[w].n \in Attempts
          BY <1>0 DEF TypeOK, Worker
        <5>1. PICK a \in Stages : a = work[w].stage
          BY <5>0
        <5>b. PICK b \in Attempts : b = work[w].n
          BY <5>0
        <5>2. /\ \/ attempt[a][b] \in OpenStates
                 \/ attempt[a][b] \in {Ended(st, work[w].out) : st \in OpenStates}
              /\ attempt' = [attempt EXCEPT ![a][b] =
                               IF attempt[a][b] \notin OpenStates THEN attempt[a][b]
                               ELSE Ended(attempt[a][b], work[w].out)]
          BY <4>3, <5>1, <5>b DEF Complete, Calling, Accepts, Renewals
        <5>3. attempt'[a][b] = "succeeded"
          BY <1>0, <4>3, <5>1, <5>2 DEF TypeOK, Ended
        <5>4. Stored(a)'
          BY <5>1, <5>3 DEF Stored
        <5> QED
          BY <1>2, <5>1, <5>4 DEF Stages
      <4> QED
        BY <2>2, <4>1, <4>2, <4>3 DEF Went
    <3> QED
      BY <3>2, <3>3
  <2> QED
    BY <2>1, <2>2, WorkStep
<1> QED
  BY <1>1, <1>4, <1>5 DEF TextIsStored

\* The worker that is about to send keeps its lease and its attempt, whatever
\* the others do.
LEMMA OwnedStays ==
  ASSUME TypeInv, RowInv, AttemptInv, [Next]_vars,
         NEW w \in Workers, work[w].pc = "prepared", work'[w] = work[w], ~Sends(w)
  PROVE  IF Active' THEN Own(w)' /\ attempt'[work[w].stage][work[w].n] = "prepared"
         ELSE attempt'[work[w].stage][work[w].n] = "free"
<1> DEFINE a == work[w].stage
           b == work[w].n
<1>0. TypeOK /\ Filled /\ Numbered /\ OneOpen /\ AttemptOwned /\ EndIsClosed
  BY DEF TypeInv, AttemptInv
<1>w. \A v \in Workers : work[v].stage \in Stages /\ work[v].n \in Attempts
  BY <1>0 DEF TypeOK, Worker
<1>1. Rests \/ Ends \/ \E v \in Workers : Takes(v) \/ Moves(v) \/ Parks(v)
  BY RowStep DEF RowInv
<1>2. /\ IF Active THEN Own(w) /\ attempt[a][b] = "prepared" ELSE attempt[a][b] = "free"
      /\ \A v \in Workers : v # w /\ work[v].pc \in Attempting =>
           ~(work[v].stage = a /\ work[v].n = b)
  BY <1>0 DEF AttemptOwned
<1>3. \A v \in Workers : Own(v) => Active
  BY CapturedAssumption DEF Own, RowInv, LeaseIsActive
<1>4. \A v \in Workers : Own(v) /\ Own(w) => v = w
  BY DEF Own
<1>5. ASSUME NEW v \in Workers, v # w, Sends(v) PROVE attempt'[a][b] = attempt[a][b]
  <2>1. work[v].pc \in Attempting
    BY <1>5 DEF Sends, Attempting
  <2> QED
    BY <1>0, <1>2, <1>5, <1>w, <2>1, SentCell
<1>6. ASSUME NEW v \in Workers, Admits(v) PROVE Active /\ attempt'[a][b] = attempt[a][b]
  <2>1. Own(v)
    BY <1>6 DEF Admits, Prepare, Calling, Accepts, MayPrepare, Renewals
  <2>2. attempt[a][b] # "none"
    BY <1>2
  <2> QED
    BY <1>0, <1>3, <1>6, <1>w, <2>1, <2>2 DEF Admits, TypeOK
<1>7. ASSUME NEW v \in Workers, Completes(v) PROVE Active /\ attempt'[a][b] = attempt[a][b]
  <2>1. Own(v) /\ work[v].pc \in {"complete", "again"}
    BY <1>7 DEF Completes, Complete, Calling
  <2>2. v = w
    BY <1>2, <1>3, <1>4, <2>1
  <2> QED
    BY <2>1, <2>2
<1>8. ASSUME NEW v \in Workers, Closes(v), status' = status
      PROVE  FALSE
  <2>1. Own(v) /\ work[v].pc # "prepared"
    BY <1>8 DEF Closes, Active
  <2> QED
    BY <1>2, <1>3, <1>4, <2>1
<1>9. status' = status => attempt'[a][b] = attempt[a][b]
  BY <1>0, <1>5, <1>6, <1>7, <1>8, AttemptStep
<1>10. CASE Rests
  <2>1. Active' = Active /\ (Own(w) => Own(w)')
    BY <1>10 DEF Rests, Active, Own
  <2> QED
    BY <1>2, <1>9, <1>10, <2>1 DEF Rests
<1>11. CASE Ends
  <2>1. ~Active' /\ attempt[a][b] = "prepared"
    BY <1>2, <1>11 DEF Ends, End, Active, Terminal
  <2>2. attempt' = Reconciled
    BY <1>11, <1>w, <2>1, PreparedFacts DEF Ends, OpenStates
  <2>3. attempt'[a][b] = "free"
    BY <1>0, <1>w, <2>1, <2>2, ReconciledCells
  <2> QED
    BY <2>1, <2>3
<1>12. ASSUME NEW v \in Workers, Takes(v) PROVE FALSE
  BY <1>2, <1>12, CapturedAssumption DEF Takes, Own, Leased
<1>13. ASSUME NEW v \in Workers, Moves(v)
       PROVE  Active' /\ Own(w)' /\ attempt'[a][b] = "prepared"
  BY <1>2, <1>3, <1>13 DEF Moves, Own, Active, Terminal
<1>14. ASSUME NEW v \in Workers, Parks(v) PROVE FALSE
  BY <1>2, <1>3, <1>4, <1>14 DEF Parks
<1> QED
  BY <1>1, <1>10, <1>11, <1>12, <1>13, <1>14

LEMMA AttemptOwnedStep ==
  ASSUME TypeInv, RowInv, AttemptInv, [Next]_vars PROVE AttemptOwned'
<1>0. TypeOK /\ Filled /\ Numbered /\ AttemptOwned
  BY DEF TypeInv, AttemptInv
<1>w. \A v \in Workers : work[v].stage \in Stages /\ work[v].n \in Attempts
  BY <1>0 DEF TypeOK, Worker
<1>1. SUFFICES ASSUME NEW w \in Workers, work'[w].pc = "prepared"
      PROVE  /\ IF Active' THEN Own(w)' /\ attempt'[work'[w].stage][work'[w].n] = "prepared"
                ELSE attempt'[work'[w].stage][work'[w].n] = "free"
             /\ \A v \in Workers : v # w /\ work'[v].pc \in Attempting =>
                  ~(work'[v].stage = work'[w].stage /\ work'[v].n = work'[w].n)
  BY DEF AttemptOwned
<1>2. ASSUME work'[w] = work[w]
      PROVE  IF Active' THEN Own(w)' /\ attempt'[work'[w].stage][work'[w].n] = "prepared"
             ELSE attempt'[work'[w].stage][work'[w].n] = "free"
  <2>1. ~Sends(w)
    BY <1>1 DEF Sends
  <2> QED
    BY <1>1, <1>2, <2>1, OwnedStays
<1>3. ASSUME NEW v \in Workers, v # w, work'[v] = work[v], work'[w] = work[w],
             work'[v].pc \in Attempting
      PROVE  ~(work'[v].stage = work'[w].stage /\ work'[v].n = work'[w].n)
  BY <1>0, <1>1, <1>3 DEF AttemptOwned
<1>4. CASE work' = work
  BY <1>2, <1>3, <1>4
<1>5. ASSUME NEW x \in Workers, NEW u, Went(x, u)
      PROVE  /\ IF Active' THEN Own(w)' /\ attempt'[work'[w].stage][work'[w].n] = "prepared"
                ELSE attempt'[work'[w].stage][work'[w].n] = "free"
             /\ \A v \in Workers : v # w /\ work'[v].pc \in Attempting =>
                  ~(work'[v].stage = work'[w].stage /\ work'[v].n = work'[w].n)
  <2>1. work'[x] = u /\ \A v \in Workers : v # x => work'[v] = work[v]
    BY <1>0, <1>5 DEF Went, TypeOK
  <2>2. ASSUME Prepare(x), u.stage = work[x].stage, u.n = NextNumber(work[x].stage)
        PROVE  /\ Active' /\ Own(x)' /\ attempt'[u.stage][u.n] = "prepared"
               /\ attempt[u.stage][u.n] = "none"
    <3>1. Admits(x) /\ Own(x) /\ status = StatusOf(work[x].stage) /\ UNCHANGED row
      BY <1>0, <2>2, PrepareAdmits DEF Prepare, Calling, Accepts, MayPrepare, Renewals
    <3>2. attempt'[u.stage][u.n] = "prepared" /\ attempt[u.stage][u.n] = "none"
      BY <1>0, <1>w, <2>2, <3>1 DEF Admits, TypeOK
    <3> QED
      BY <3>1, <3>2 DEF row, Own, Active, Terminal, StatusOf
  <2>3. CASE x = w
    <3>1. Prepare(w) /\ u.stage = work[w].stage /\ u.n = NextNumber(work[w].stage)
      BY <1>1, <1>5, <2>1, <2>3 DEF Went, Attempting
    <3>2. /\ Active' /\ Own(w)' /\ attempt'[u.stage][u.n] = "prepared"
          /\ attempt[u.stage][u.n] = "none"
      BY <2>2, <2>3, <3>1
    <3>3. ASSUME NEW v \in Workers, v # w, work'[v].pc \in Attempting
          PROVE  ~(work'[v].stage = u.stage /\ work'[v].n = u.n)
      BY <1>0, <2>1, <2>3, <3>2, <3>3 DEF Numbered
    <3> QED
      BY <2>1, <2>3, <3>2, <3>3
  <2>4. CASE x # w
    <3>1. work'[w] = work[w] /\ work[w].pc = "prepared"
      BY <1>1, <2>1, <2>4
    <3>2. ASSUME NEW v \in Workers, v # w, work'[v].pc \in Attempting
          PROVE  ~(work'[v].stage = work'[w].stage /\ work'[v].n = work'[w].n)
      <4>1. CASE v # x
        BY <1>3, <2>1, <3>1, <3>2, <4>1
      <4>2. CASE v = x
        <5>1. u.pc \in Attempting
          BY <2>1, <3>2, <4>2
        <5>2. CASE work[x].pc \in Attempting /\ u.stage = work[x].stage /\ u.n = work[x].n
          BY <1>0, <2>1, <2>4, <3>1, <4>2, <5>2 DEF AttemptOwned
        <5>3. CASE Prepare(x) /\ u.stage = work[x].stage /\ u.n = NextNumber(work[x].stage)
          <6>1. attempt[work[w].stage][work[w].n] # "none"
            BY <1>0, <3>1 DEF Numbered, Attempting
          <6> QED
            BY <2>1, <2>2, <3>1, <4>2, <5>3, <6>1
        <5> QED
          BY <1>5, <5>1, <5>2, <5>3 DEF Went
      <4> QED
        BY <4>1, <4>2
    <3> QED
      BY <1>2, <3>1, <3>2
  <2> QED
    BY <2>3, <2>4
<1> QED
  BY <1>4, <1>5, WorkStep

LEMMA EndIsClosedStep ==
  ASSUME TypeInv, RowInv, AttemptInv, [Next]_vars PROVE EndIsClosed'
<1>0. TypeOK /\ TextIsStored /\ AttemptOwned /\ EndIsClosed
  BY DEF TypeInv, AttemptInv
<1>1. Rests \/ Ends \/ \E w \in Workers : Takes(w) \/ Moves(w) \/ Parks(w)
  BY RowStep DEF RowInv
<1>2. \A w \in Workers : Own(w) => Active
  BY CapturedAssumption DEF Own, RowInv, LeaseIsActive
<1>3. "generation" \in Stages
  BY DEF Stages
<1>4. CASE Ends
  <2>1. Prepared' = {}
    <3>1. CASE attempt' = Reconciled
      BY <1>0, <3>1, ReconciledCells, PreparedFacts DEF OpenStates
    <3>2. CASE attempt' = attempt /\ Prepared = {}
      BY <3>2, PreparedFacts
    <3> QED
      BY <1>4, <3>1, <3>2 DEF Ends
  <2>2. status' = "ready_for_review" => ~cancel' /\ Stored("generation")'
    BY <1>0, <1>3, <1>4, StoredStays DEF Ends, End, TextIsStored, AfterText
  <2> QED
    BY <2>1, <2>2 DEF EndIsClosed
<1>5. CASE Rests /\ ~Active
  <2>1. \A w \in Workers : ~Admits(w)
    BY <1>2, <1>5 DEF Admits, Prepare, Calling, Accepts, MayPrepare, Renewals
  <2>2. Prepared' = {}
    BY <1>0, <1>5, <2>1, WhatLasts, PreparedFacts DEF EndIsClosed
  <2> QED
    BY <1>0, <1>3, <1>5, <2>2, StoredStays DEF Rests, EndIsClosed
<1>6. CASE Rests /\ Active
  BY <1>6 DEF Rests, Active, EndIsClosed, Terminal
<1>7. ASSUME NEW w \in Workers, Takes(w) \/ Moves(w) \/ Parks(w)
      PROVE  Active' /\ status' # "ready_for_review"
  BY <1>7 DEF Takes, Moves, Parks, Active, Terminal, StatusOf
<1> QED
  BY <1>1, <1>4, <1>5, <1>6, <1>7 DEF EndIsClosed

LEMMA AttemptInvStep ==
  ASSUME TypeInv, RowInv, AttemptInv, [Next]_vars PROVE AttemptInv'
BY OneOpenStep, TextIsStoredStep, AttemptOwnedStep, EndIsClosedStep DEF AttemptInv

\* The inductive invariant behind the theorems below.
IInv == TypeInv /\ RowInv /\ AttemptInv

LEMMA IInvAlways == Spec => []IInv
<1>1. Init => IInv
  BY TypeInit, RowInit, AttemptInit DEF IInv
<1>2. IInv /\ [Next]_vars => IInv'
  BY TypeInvStep, RowInvStep, AttemptInvStep DEF IInv
<1> QED
  BY <1>1, <1>2, PTL DEF Spec

-----------------------------------------------------------------------------
(* The properties *)

\* OneOpenAttempt of CapturedOperation, for every set of workers.
THEOREM OneOpenAttemptAlways == Spec => []OneOpenAttempt
<1>1. IInv => OneOpenAttempt
  <2> SUFFICES ASSUME IInv PROVE OneOpenAttempt
    OBVIOUS
  <2>0. OneOpen
    BY DEF IInv, AttemptInv
  <2>1. \A a, b \in Prepared : a = b
    BY <2>0 DEF Prepared, OneOpen
  <2>2. CASE Prepared = {}
    BY <2>0, <2>2, FS_EmptySet DEF OneOpenAttempt, OneOpen
  <2>3. CASE Prepared # {}
    <3>1. PICK a \in Prepared : TRUE
      BY <2>3
    <3>2. Prepared = {a}
      BY <2>1, <3>1
    <3>3. Cardinality(Prepared) = 1
      BY <3>2, FS_Singleton
    <3> QED
      BY <2>0, <3>3 DEF OneOpenAttempt, OneOpen
  <2> QED
    BY <2>2, <2>3
<1> QED
  BY <1>1, IInvAlways, PTL

\* EndIsResolved of CapturedOperation: an operation ends with no attempt open,
\* with its slot decided, and without a document once it is cancelled.
THEOREM EndIsResolvedAlways == Spec => []EndIsResolved
<1>1. IInv => EndIsResolved
  BY DEF IInv, RowInv, SlotFits, AttemptInv, EndIsClosed, EndIsResolved, Active
<1> QED
  BY <1>1, IInvAlways, PTL

\* EndIsFinal of CapturedOperation: late answers, stale workers and late
\* cancellations leave an ended operation as it is.
THEOREM EndIsFinalAlways == Spec => EndIsFinal
<1> DEFINE A == ~Active => /\ UNCHANGED <<status, slot, cancel>>
                           /\ \A s \in Stages : Stored(s)' = Stored(s)
<1>1. IInv /\ [Next]_vars => A
  <2> SUFFICES ASSUME IInv, [Next]_vars, ~Active PROVE A
    OBVIOUS
  <2>0. TypeInv /\ RowInv /\ AttemptInv /\ AttemptOwned
    BY DEF IInv, AttemptInv
  <2>1. \A w \in Workers : ~Own(w)
    BY <2>0, CapturedAssumption DEF Own, RowInv, LeaseIsActive
  <2>2. Rests
    BY <2>0, <2>1, RowStep DEF RowInv, Takes, Moves, Parks, Ends
  <2>3. \A w \in Workers : ~Completes(w)
    BY <2>1 DEF Completes
  <2>4. ASSUME NEW s \in Stages PROVE Stored(s)' = Stored(s)
    <3>1. Stored(s)' <=> Stored(s)
      BY <2>0, <2>3, StoredStays
    <3> QED
      BY <3>1 DEF Stored
  <2> QED
    BY <2>2, <2>4 DEF Rests
<1> QED
  BY <1>1, IInvAlways, PTL DEF Spec, EndIsFinal

\* A request under way is charged like one that failed.
Charged == {a \in Stages \X Attempts : attempt[a[1]][a[2]] \in {"sent", "failed", "unknown"}}

LEMMA ChargedFinite ==
  /\ IsFiniteSet(Charged) /\ IsFiniteSet(Failures)
  /\ Cardinality(Charged) \in Nat /\ Cardinality(Failures) \in Nat
  /\ Cardinality(Failures) <= Cardinality(Charged)
<1>1. IsFiniteSet(Stages) /\ IsFiniteSet(Attempts)
  <2>1. IsFiniteSet(Stages)
    <3>1. Stages = {"generation"} \cup {"review"}
      BY DEF Stages
    <3> QED
      BY <3>1, FS_Singleton, FS_Union
  <2>2. IsFiniteSet(Attempts)
    BY FS_Interval, 1 \in Int, 2 \in Int DEF Attempts
  <2> QED
    BY <2>1, <2>2
<1>2. IsFiniteSet(Stages \X Attempts)
  BY <1>1, FS_Product
<1>3. Charged \subseteq Stages \X Attempts /\ Failures \subseteq Charged
  BY DEF Charged, Failures
<1> QED
  BY <1>2, <1>3, FS_Subset, FS_CardinalityType

\* FailureBudget of CapturedOperation, for every set of workers.
THEOREM FailureBudgetAlways == Spec => []FailureBudget
<1> DEFINE B == Cardinality(Charged) <= 2
<1>1. Init => B
  <2> SUFFICES ASSUME Init PROVE B
    OBVIOUS
  <2>1. Charged = {}
    BY DEF Init, Charged
  <2> QED
    BY <2>1, FS_EmptySet
<1>2. IInv /\ B /\ [Next]_vars => B'
  <2> SUFFICES ASSUME IInv, B, [Next]_vars PROVE B'
    OBVIOUS
  <2>0. TypeInv /\ TypeOK /\ Filled /\ AttemptOwned /\ OneOpen /\ EndIsClosed
    BY DEF IInv, TypeInv, AttemptInv
  <2>w. \A w \in Workers : work[w].stage \in Stages /\ work[w].n \in Attempts
    BY <2>0 DEF TypeOK, Worker
  <2>1. ASSUME NEW w \in Workers, Sends(w) PROVE B'
    <3>1. PICK s \in Stages, n \in Attempts : s = work[w].stage /\ n = work[w].n
      BY <2>w
    <3>2. \A t \in Stages, m \in Attempts :
            IF t = s /\ m = n
            THEN IF Active THEN attempt[t][m] = "prepared" /\ attempt'[t][m] = "sent"
                 ELSE attempt[t][m] = "free" /\ attempt'[t][m] = "unknown"
            ELSE attempt'[t][m] = attempt[t][m]
      BY <2>0, <2>1, <3>1, SentCell
    <3>3. \A t \in Stages, m \in Attempts : attempt[t][m] # "sent"
      <4>1. CASE Active
        <5>1. attempt[s][n] = "prepared"
          BY <3>2, <4>1
        <5> QED
          BY <2>0, <5>1 DEF OneOpen, OpenStates
      <4>2. CASE ~Active
        BY <2>0, <4>2, PreparedFacts DEF EndIsClosed, OpenStates
      <4> QED
        BY <4>1, <4>2
    <3>4. Charged = Failures
      BY <3>3 DEF Charged, Failures
    <3>5. Charged' \subseteq Failures \cup {<<s, n>>}
      <4>1. ASSUME NEW a \in Charged', a # <<s, n>> PROVE a \in Failures
        <5>1. /\ a[1] \in Stages /\ a[2] \in Attempts /\ a = <<a[1], a[2]>>
              /\ attempt'[a[1]][a[2]] \in {"sent", "failed", "unknown"}
          BY <4>1 DEF Charged
        <5>2. attempt'[a[1]][a[2]] = attempt[a[1]][a[2]]
          BY <3>2, <4>1, <5>1
        <5> QED
          BY <3>4, <4>1, <5>1, <5>2 DEF Charged
      <4> QED
        BY <4>1
    <3>6. Cardinality(Failures) < 2
      BY <2>1 DEF Sends, WithinBudget
    <3>7. /\ IsFiniteSet(Failures \cup {<<s, n>>})
          /\ Cardinality(Failures \cup {<<s, n>>}) <= 2
      <4>1. CASE <<s, n>> \in Failures
        <5>1. Failures \cup {<<s, n>>} = Failures
          BY <4>1
        <5> QED
          BY <3>6, <5>1, ChargedFinite
      <4>2. CASE <<s, n>> \notin Failures
        <5>1. Cardinality(Failures \cup {<<s, n>>}) = Cardinality(Failures) + 1
          BY <4>2, ChargedFinite, FS_AddElement
        <5>2. IsFiniteSet(Failures \cup {<<s, n>>})
          BY ChargedFinite, FS_AddElement
        <5> QED
          BY <3>6, <5>1, <5>2, ChargedFinite
      <4> QED
        BY <4>1, <4>2
    <3> QED
      BY <3>5, <3>7, FS_Subset, FS_CardinalityType
  <2>2. ASSUME \A w \in Workers : ~Sends(w) PROVE B'
    <3>1. \A t \in Stages, m \in Attempts :
            attempt'[t][m] \in {"sent", "failed", "unknown"} =>
              attempt[t][m] \in {"sent", "failed", "unknown"}
      <4>1. ASSUME NEW w \in Workers, Admits(w), NEW t \in Stages, NEW m \in Attempts
            PROVE  attempt'[t][m] \in {attempt[t][m], "prepared"}
        BY <2>0, <2>w, <4>1 DEF Admits, TypeOK
      <4>2. ASSUME NEW w \in Workers, Completes(w), NEW t \in Stages, NEW m \in Attempts,
                   attempt'[t][m] # attempt[t][m]
            PROVE  \/ attempt[t][m] = "sent"
                   \/ attempt'[t][m] \in {"succeeded", "free"}
        BY <2>0, <2>w, <4>2, EndedFacts DEF Completes, TypeOK, OpenStates
      <4>3. ASSUME NEW w \in Workers, Closes(w), NEW t \in Stages, NEW m \in Attempts
            PROVE  attempt'[t][m] \in {"sent", "failed", "unknown"} =>
                     attempt[t][m] \in {"sent", "failed", "unknown"}
        BY <2>0, <4>3, ReconciledCells DEF Closes
      <4> QED
        BY <2>0, <2>2, <4>1, <4>2, <4>3, AttemptStep
    <3>2. Charged' \subseteq Charged
      BY <3>1 DEF Charged
    <3> QED
      BY <3>2, ChargedFinite, FS_Subset, FS_CardinalityType
  <2> QED
    BY <2>1, <2>2
<1>3. B => FailureBudget
  BY ChargedFinite DEF FailureBudget
<1> HIDE DEF B
<1>4. Spec => []B
  BY <1>1, <1>2, IInvAlways, PTL DEF Spec
<1> QED
  BY <1>3, <1>4, PTL

-----------------------------------------------------------------------------
(* The life cycle of OperationLife *)

\* Time only passes, and nothing happens to the row in the meantime.
LEMMA ClockStep ==
  ASSUME [Next]_vars
  PROVE  expired' = expired \/ (expired' /\ UNCHANGED row)
<1> USE DEF vars, clock
<1>1. ASSUME NEW w \in Workers, Start(w) \/ Step(w) \/ Crash(w) PROVE expired' = expired
  BY <1>1 DEF Start, Step, Crash, Claim, CapacityClaim, Renew, Advance, Clarify, Admit, Prepare,
       PrepareBlocked, Dispatch, Answer, Complete, Reread, Reconcile, Stop, Defer, Fail, Finalize,
       Refused
<1>2. ASSUME RequestCancellation \/ LeaseExpires \/ RetryTimeComes \/ FaultsEnd \/ UNCHANGED vars
      PROVE  expired' = expired
  BY <1>2 DEF RequestCancellation, LeaseExpires, RetryTimeComes, FaultsEnd
<1>3. CASE OperationExpires
  BY <1>3 DEF OperationExpires
<1> QED
  BY <1>1, <1>2, <1>3 DEF Next

\* The operation and its slot turn together, or neither does.
LEMMA LifeStep ==
  ASSUME IInv, [Next]_vars
  PROVE  [Life!LifeNext]_Life!lives
<1>0. TypeInv /\ RowInv /\ SlotFits /\ LeaseIsActive
  BY DEF IInv, RowInv
<1>1. Rests \/ Ends \/ \E w \in Workers : Takes(w) \/ Moves(w) \/ Parks(w)
  BY <1>0, RowStep DEF RowInv
<1>2. CASE lifeOf' = lifeOf /\ slot' = slot
  <2>1. CASE expired' = expired
    BY <1>2, <2>1 DEF Life!lives
  <2>2. CASE expired' /\ UNCHANGED row
    <3>1. CASE ~expired
      <4>1. lifeOf = "live" \/ lifeOf = "ready" \/ lifeOf = "closed"
        BY DEF lifeOf
      <4>2. Life!TimePasses
        BY <1>2, <2>2, <4>1 DEF Life!TimePasses, This
      <4> QED
        BY <4>2 DEF Life!LifeNext
    <3>2. CASE expired
      BY <1>2, <2>2, <3>2 DEF Life!lives, This
    <3> QED
      BY <3>1, <3>2
  <2> QED
    BY <2>1, <2>2, ClockStep
<1>3. ASSUME NEW w \in Workers, Takes(w) \/ Moves(w) \/ Parks(w)
      PROVE  lifeOf' = lifeOf /\ slot' = slot
  <2>1. Active /\ slot' = slot
    BY <1>0, <1>3, CapturedAssumption DEF Takes, Moves, Parks, Own, LeaseIsActive
  <2>2. status' \notin Terminal
    BY <1>3, <2>1 DEF Takes, Moves, Parks, StatusOf, Active, Terminal
  <2> QED
    BY <2>1, <2>2 DEF lifeOf, Active, Terminal
<1>4. CASE Rests
  BY <1>2, <1>4 DEF Rests, lifeOf
<1>5. CASE Ends
  <2>1. lifeOf = "live" /\ slot = "reserved"
    BY <1>0, <1>5 DEF Ends, lifeOf, SlotFits, Active, Terminal
  <2>2. status' # status
    BY <1>5 DEF Ends, End, Active, Terminal
  <2>3. expired' = expired
    BY <2>2, ClockStep DEF row
  <2>4. CASE status' = "ready_for_review"
    <3>1. ~expired /\ slot' = "settled" /\ lifeOf' = "ready"
      BY <1>5, <2>4 DEF Ends, End, lifeOf
    <3>2. Life!Finished("this operation")
      BY <2>1, <2>3, <3>1 DEF Life!Finished, Life!Turn, This
    <3> QED
      BY <3>2 DEF Life!LifeNext, This
  <2>5. CASE status' \in {"terminal_failure", "cancelled"}
    <3>1. slot' = "released" /\ lifeOf' = "closed"
      BY <1>5, <2>5 DEF Ends, End, lifeOf
    <3>2. Life!Ended("this operation")
      BY <2>1, <2>3, <3>1 DEF Life!Ended, Life!Turn, This
    <3> QED
      BY <3>2 DEF Life!LifeNext, This
  <2> QED
    BY <1>5, <2>4, <2>5 DEF Ends, End
<1> QED
  BY <1>1, <1>2, <1>3, <1>4, <1>5

\* KeepsLife of CapturedOperation, for every set of workers: the detailed
\* operation implements the life cycle that the allowance counts on.
THEOREM OperationKeepsLife == Spec => KeepsLife
<1>1. Init => Life!LifeInit
  BY DEF Init, Life!LifeInit, lifeOf, This
<1>2. IInv /\ [Next]_vars => [Life!LifeNext]_Life!lives
  BY LifeStep
<1> QED
  BY <1>1, <1>2, IInvAlways, PTL DEF Spec, KeepsLife, Life!Promise
=============================================================================
