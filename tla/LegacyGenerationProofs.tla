----------------------- MODULE LegacyGenerationProofs -----------------------
(***************************************************************************)
(* Proofs about LegacyGeneration for every number of workers, stages,      *)
(* reservation attempts, claims and billing periods.                       *)
(***************************************************************************)
EXTENDS LegacyGeneration, FiniteSetTheorems, TLAPS

-----------------------------------------------------------------------------
(* The update trigger *)

\* Putting a row on hold keeps it a reservation and touches nothing but the
\* expiry and the reconciliation flag.
LEMMA HoldFields ==
  ASSUME NEW old \in Reservation
  PROVE  /\ NeverExpires(old) \in Reservation
         /\ Hold(old) \in Reservation
         /\ \A row \in {NeverExpires(old), Hold(old)} :
              /\ row.status = old.status /\ row.period = old.period
              /\ row.token = old.token /\ row.lease = old.lease
              /\ row.expires = "infinity"
         /\ Hold(old).held /\ NeverExpires(old).held = old.held
         /\ old.held /\ old.expires = "infinity" => NeverExpires(old) = old /\ Hold(old) = old
  <1>1. /\ NeverExpires(old) \in Reservation
        /\ NeverExpires(old).status = old.status /\ NeverExpires(old).period = old.period
        /\ NeverExpires(old).token = old.token /\ NeverExpires(old).lease = old.lease
        /\ NeverExpires(old).expires = "infinity" /\ NeverExpires(old).held = old.held
    BY DEF NeverExpires, Reservation, Deadline
  <1>2. /\ Hold(old) \in Reservation
        /\ Hold(old).status = old.status /\ Hold(old).period = old.period
        /\ Hold(old).token = old.token /\ Hold(old).lease = old.lease
        /\ Hold(old).expires = "infinity" /\ Hold(old).held
    BY <1>1 DEF Hold, Reservation
  <1>3. ASSUME old.held, old.expires = "infinity" PROVE NeverExpires(old) = old /\ Hold(old) = old
    <2>1. NeverExpires(old) = old
      BY <1>3 DEF NeverExpires, Reservation
    <2> QED BY <2>1, <1>3 DEF Hold, Reservation
  <1> QED BY <1>1, <1>2, <1>3

\* What the reservation trigger stores for an update of a reserved row that
\* leaves period, claim token and lease alone: a closed row only when no open
\* attempt is left and the row was not held; a held row comes back unchanged.
LEMMA HoldTriggerStores ==
  ASSUME NEW r, NEW old \in Reservation, NEW new \in Reservation, NEW code,
         old.status = "reserved", new.status # "absent",
         new.token = old.token, new.lease = old.lease, new.period = old.period,
         old.held => old.expires = "infinity",
         new.held /\ new.status = "reserved" => new.expires = "infinity",
         new.status # "reserved" => new.held = old.held,
         NEW row \in HoldTrigger(r, old, new, code)
  PROVE  /\ row \in Reservation
         /\ row.status # "absent"
         /\ row.token = old.token
         /\ row.period = old.period
         /\ row.held => row.status = "reserved" /\ row.expires = "infinity"
         /\ row.status # "reserved" => /\ row = new
                                       /\ ~Unresolved(r, "dispatched")
                                       /\ ~Unresolved(r, "prepared")
         /\ old.held => row = old
  <1>1. row \in {Hold(old), NeverExpires(old), old, new}
    BY DEF HoldTrigger, HeldUpdate, KeptForResume
  <1>2. ASSUME row.status # "reserved"
        PROVE  row = new /\ ~old.held /\ ~Unresolved(r, "dispatched") /\ ~Unresolved(r, "prepared")
    <2>1. row # old /\ row # NeverExpires(old) /\ row # Hold(old)
      BY <1>2, HoldFields
    <2>2. row = new /\ ~Unresolved(r, "dispatched") /\ ~Unresolved(r, "prepared")
      BY <1>1, <1>2, <2>1 DEF HoldTrigger, HeldUpdate, KeptForResume
    <2> QED BY <2>1, <2>2 DEF HoldTrigger, HeldUpdate, KeptForResume
  <1>3. ASSUME old.held PROVE row = old
    <2>1. Hold(old) = old /\ NeverExpires(old) = old
      BY <1>3, HoldFields
    <2> QED BY <1>3, <2>1 DEF HoldTrigger, HeldUpdate, KeptForResume
  <1>4. row \in Reservation /\ row.status # "absent" /\ row.token = old.token /\ row.period = old.period
    BY <1>1, HoldFields
  <1>5. row.held => row.status = "reserved" /\ row.expires = "infinity"
    BY <1>1, <1>2, <1>3, HoldFields
  <1> QED BY <1>2, <1>3, <1>4, <1>5

-----------------------------------------------------------------------------
(* The inductive invariant *)

\* Reservation attempts 1..last exist, only the latest may be live, and a row
\* on hold is a reservation that never expires.
RowsOK ==
  \A r \in Rows :
    /\ r > last => rows[r] = AbsentRow
    /\ r <= last => rows[r].status # "absent"
    /\ r < last => rows[r].status # "reserved"
    /\ rows[r].held => rows[r].status = "reserved" /\ rows[r].expires = "infinity"

\* An admission belongs to an existing reservation; only admissions are recorded.
AdmissionsOK ==
  \A a \in Admissions :
    /\ adm[a].state = "none" <=> adm[a].row = 0
    /\ adm[a].row <= last
    /\ adm[a].state = "none" => usage[a] = "none"

\* A running worker has a reservation; a call in progress is an attempt of it.
WorkersOK ==
  \A w \in Workers :
    /\ work[w].pc # "idle" => work[w].row \in 1..last
    /\ \A s \in Stages : call[w][s].pc \in {"prepared", "sent", "ambiguous", "refused"} =>
                             call[w][s].n \in Attempts

\* An open attempt belongs to the live reservation and its current claim.
OpenOwned ==
  \A a \in Admissions : Open(a) =>
    /\ adm[a].row = last /\ last > 0
    /\ rows[last].status = "reserved"
    /\ adm[a].token = rows[last].token

\* An attempt is sent at most once, after its dispatch; the second attempt
\* follows a retryable first one; a stored result is the one its usage row and
\* every worker that is done with the stage rely on.
History ==
  /\ \A a \in Admissions : sent[a] = 0 \/ (sent[a] = 1 /\ adm[a].state = "dispatched")
  /\ \A s \in Stages :
       /\ adm[<<s, 2>>].state # "none" => usage[<<s, 1>>] = "retryable"
       /\ result[s] # 0 => usage[<<s, result[s]>>] \in Completed
  /\ \A w \in Workers, s \in Stages :
       call[w][s].pc = "done" => result[s] # 0 /\ usage[<<s, result[s]>>] = "ok"

\* The charge names the settled reservation, which stays the latest one.
Charges ==
  /\ \A r \in Rows : rows[r].status = "settled" <=> charged = r
  /\ charged # 0 => charged = last
  /\ charged # 0 => \A s \in DraftStages : result[s] # 0 /\ usage[<<s, result[s]>>] = "ok"

Core == TypeOK /\ RowsOK /\ AdmissionsOK /\ WorkersOK /\ OpenOwned

USE DEF Attempts, Rows

\* Replacing one row by a legal successor keeps the row structure and every hold.
LEMMA RowUpdate ==
  ASSUME Core, NEW r \in 1..last, NEW row \in Reservation,
         row.status # "absent", row.token = rows[r].token,
         row.held => row.status = "reserved" /\ row.expires = "infinity",
         row.status = "reserved" => rows[r].status = "reserved",
         row.status # "reserved" => \A a \in Admissions : Open(a) => adm[a].row # r,
         rows[r].held => row.held,
         last' = last, rows' = [rows EXCEPT ![r] = row]
  PROVE  /\ rows' \in [Rows -> Reservation]
         /\ RowsOK' /\ HoldKept
         /\ rows'[last].token = rows[last].token
         /\ \A a \in Admissions : Open(a) => rows'[last].status = "reserved"
  <1>1. last \in Nat /\ last <= MaxRows /\ MaxRows \in Nat /\ r \in Rows /\ last \in Rows
    BY ConstantsAssumption DEF Core, TypeOK
  <1>2. rows \in [Rows -> Reservation]
    BY DEF Core, TypeOK
  <1>3. rows' \in [Rows -> Reservation] /\ rows'[r] = row /\ \A q \in Rows \ {r} : rows'[q] = rows[q]
    BY <1>1, <1>2
  <1>4. RowsOK'
    BY <1>1, <1>3 DEF Core, RowsOK
  <1>5. HoldKept
    BY <1>1, <1>3 DEF Core, RowsOK, HoldKept
  <1>6. rows'[last].token = rows[last].token
    BY <1>1, <1>3
  <1>7. ASSUME NEW a \in Admissions, Open(a) PROVE rows'[last].status = "reserved"
    BY <1>1, <1>3, <1>7 DEF Core, OpenOwned
  <1> QED BY <1>3, <1>4, <1>5, <1>6, <1>7

\* What closing a live reservation with any code may store.
LEMMA ClosedRow ==
  ASSUME Core, NEW r \in 1..last, rows[r].status = "reserved", NEW code,
         NEW status \in {"settled", "released", "expired"},
         NEW row \in HoldTrigger(r, rows[r], [rows[r] EXCEPT !.status = status], code)
  PROVE  /\ row \in Reservation
         /\ row.status # "absent" /\ row.token = rows[r].token /\ row.period = rows[r].period
         /\ row.held => row.status = "reserved" /\ row.expires = "infinity"
         /\ row.status # "reserved" => /\ row.status = status
                                       /\ \A a \in Admissions : Open(a) => adm[a].row # r
         /\ rows[r].held => row = rows[r]
  <1> DEFINE new == [rows[r] EXCEPT !.status = status]
  <1>1. rows[r] \in Reservation
    BY ConstantsAssumption DEF Core, TypeOK
  <1>2. /\ new \in Reservation /\ new.status = status /\ new.token = rows[r].token
        /\ new.lease = rows[r].lease /\ new.period = rows[r].period /\ new.held = rows[r].held
        /\ new.status # "absent" /\ new.status # "reserved"
    BY <1>1 DEF Reservation
  <1>3. rows[r].held => rows[r].expires = "infinity"
    BY ConstantsAssumption DEF Core, TypeOK, RowsOK
  <1> HIDE DEF new
  <1>4. row \in HoldTrigger(r, rows[r], new, code)
    BY DEF new
  <1>5. /\ row \in Reservation
        /\ row.status # "absent" /\ row.token = rows[r].token /\ row.period = rows[r].period
        /\ row.held => row.status = "reserved" /\ row.expires = "infinity"
        /\ row.status # "reserved" => /\ row = new
                                      /\ ~Unresolved(r, "dispatched") /\ ~Unresolved(r, "prepared")
        /\ rows[r].held => row = rows[r]
    <2> DEFINE old == rows[r]
    <2>1. /\ old \in Reservation /\ old.status = "reserved" /\ new.status # "absent"
          /\ new.token = old.token /\ new.lease = old.lease /\ new.period = old.period
          /\ old.held => old.expires = "infinity"
          /\ new.held /\ new.status = "reserved" => new.expires = "infinity"
          /\ new.status # "reserved" => new.held = old.held
          /\ row \in HoldTrigger(r, old, new, code)
      BY <1>1, <1>2, <1>3, <1>4
    <2> HIDE DEF old
    <2>2. /\ row \in Reservation
          /\ row.status # "absent" /\ row.token = old.token /\ row.period = old.period
          /\ row.held => row.status = "reserved" /\ row.expires = "infinity"
          /\ row.status # "reserved" => /\ row = new
                                        /\ ~Unresolved(r, "dispatched") /\ ~Unresolved(r, "prepared")
          /\ old.held => row = old
      BY <1>2, <2>1, HoldTriggerStores
    <2> QED BY <2>2 DEF old
  <1>6. ASSUME ~Unresolved(r, "dispatched"), ~Unresolved(r, "prepared"),
               NEW a \in Admissions, Open(a)
        PROVE  adm[a].row # r
    BY <1>6 DEF Unresolved, Open, Core, TypeOK, Admission
  <1> QED BY <1>2, <1>5, <1>6

\* A step that closes or keeps one reservation and touches no admission.
LEMMA CloseCore ==
  ASSUME Core, NEW r \in 1..last, rows[r].status = "reserved", NEW code,
         NEW status \in {"settled", "released", "expired"},
         NEW row \in HoldTrigger(r, rows[r], [rows[r] EXCEPT !.status = status], code),
         rows' = [rows EXCEPT ![r] = row], UNCHANGED <<last, adm, usage>>
  PROVE  rows' \in [Rows -> Reservation] /\ RowsOK' /\ HoldKept /\ AdmissionsOK' /\ OpenOwned'
  <1>1. /\ row \in Reservation
        /\ row.status # "absent" /\ row.token = rows[r].token
        /\ row.held => row.status = "reserved" /\ row.expires = "infinity"
        /\ row.status # "reserved" => \A a \in Admissions : Open(a) => adm[a].row # r
        /\ rows[r].held => row = rows[r]
    BY ClosedRow, ZenonT(60)
  <1>2. /\ rows' \in [Rows -> Reservation]
        /\ RowsOK' /\ HoldKept
        /\ rows'[last].token = rows[last].token
        /\ \A a \in Admissions : Open(a) => rows'[last].status = "reserved"
    BY <1>1, RowUpdate, ZenonT(60)
  <1>3. AdmissionsOK' /\ OpenOwned'
    BY <1>2 DEF Core, AdmissionsOK, OpenOwned, Open
  <1> QED BY <1>2, <1>3

\* Settling keeps Core: the row that is stored comes from the hold trigger.
LEMMA SettleCore ==
  ASSUME Core, NEW w \in Workers, Settle(w)
  PROVE  Core' /\ HoldKept
  <1> DEFINE r == work[w].row
  <1>1. r \in 1..last /\ r \in 0..MaxRows
    BY DEF Core, WorkersOK, TypeOK, Worker, Settle
  <1>2. WorkersOK' /\ work' \in [Workers -> Worker]
    BY DEF Core, WorkersOK, TypeOK, Worker, Settle
  <1>3. UNCHANGED <<month, last, adm, usage, result, issued, call, sent>>
    BY DEF Settle
  <1>4. CASE UNCHANGED <<rows, charged>>
    <2>1. TypeOK' /\ RowsOK' /\ AdmissionsOK' /\ OpenOwned'
      BY <1>2, <1>3, <1>4 DEF Core, TypeOK, RowsOK, AdmissionsOK, OpenOwned, Open
    <2>2. HoldKept
      BY <1>4 DEF Core, RowsOK, HoldKept
    <2> QED BY <1>2, <2>1, <2>2 DEF Core
  <1>5. CASE ~UNCHANGED <<rows, charged>>
    <2>1. /\ rows[r].status = "reserved" /\ charged' \in {charged, r}
          /\ \E row \in HoldTrigger(r, rows[r], [rows[r] EXCEPT !.status = "settled"], "none") :
               rows' = [rows EXCEPT ![r] = row]
      BY <1>5 DEF Settle
    <2>2. rows' \in [Rows -> Reservation] /\ RowsOK' /\ HoldKept /\ AdmissionsOK' /\ OpenOwned'
      BY <1>1, <1>3, <2>1, CloseCore, ZenonT(60)
    <2>3. TypeOK'
      BY <1>1, <1>2, <1>3, <2>1, <2>2 DEF Core, TypeOK
    <2> QED BY <1>2, <2>2, <2>3 DEF Core
  <1> QED BY <1>4, <1>5

\* Releasing or holding a reservation keeps Core, although no claim is checked.
LEMMA ReleaseCore ==
  ASSUME Core, NEW w \in Workers, NEW code, Release(w, code)
  PROVE  Core' /\ HoldKept
  <1> DEFINE r == work[w].row
  <1>1. r \in 1..last
    BY DEF Core, WorkersOK, Release
  <1>2. WorkersOK' /\ work' \in [Workers -> Worker]
    BY DEF Core, WorkersOK, TypeOK, Worker, Release
  <1>3. UNCHANGED <<month, last, adm, usage, result, charged, issued, call, sent>>
    BY DEF Release
  <1>4. CASE UNCHANGED rows
    <2>1. TypeOK' /\ RowsOK' /\ AdmissionsOK' /\ OpenOwned'
      BY <1>2, <1>3, <1>4 DEF Core, TypeOK, RowsOK, AdmissionsOK, OpenOwned, Open
    <2>2. HoldKept
      BY <1>4 DEF Core, RowsOK, HoldKept
    <2> QED BY <1>2, <2>1, <2>2 DEF Core
  <1>5. CASE ~UNCHANGED rows
    <2>1. /\ rows[r].status = "reserved"
          /\ \E row \in HoldTrigger(r, rows[r], [rows[r] EXCEPT !.status = "released"], code) :
               rows' = [rows EXCEPT ![r] = row]
      BY <1>5 DEF Release
    <2>2. rows' \in [Rows -> Reservation] /\ RowsOK' /\ HoldKept /\ AdmissionsOK' /\ OpenOwned'
      BY <1>1, <1>3, <2>1, CloseCore, ZenonT(60)
    <2>3. TypeOK'
      BY <1>2, <1>3, <2>2 DEF Core, TypeOK
    <2> QED BY <1>2, <2>2, <2>3 DEF Core
  <1> QED BY <1>4, <1>5

\* The sweep and the reserve function see a row that is the stored one, or the
\* trigger's answer to its expiry.
LEMMA SweptRow ==
  ASSUME Core, last > 0, NEW late, NEW row \in Swept(late)
  PROVE  /\ row \in Reservation
         /\ row.status # "absent" /\ row.token = rows[last].token /\ row.period = rows[last].period
         /\ row.held => row.status = "reserved" /\ row.expires = "infinity"
         /\ row.status = "reserved" => rows[last].status = "reserved"
         /\ row.status # "reserved" => \A a \in Admissions : ~Open(a)
         /\ row = rows[last] \/ row.status \in {"reserved", "expired"}
         /\ rows[last].held => row = rows[last]
  <1>1. last \in 1..last /\ last \in Rows
    BY ConstantsAssumption DEF Core, TypeOK
  <1>2. CASE row = rows[last]
    BY <1>1, <1>2 DEF Core, TypeOK, RowsOK, OpenOwned
  <1>3. CASE row # rows[last]
    <2>1. /\ rows[last].status = "reserved"
          /\ row \in HoldTrigger(last, rows[last], [rows[last] EXCEPT !.status = "expired"], "expired")
      BY <1>3 DEF Swept
    <2>2. /\ row \in Reservation
          /\ row.status # "absent" /\ row.token = rows[last].token /\ row.period = rows[last].period
          /\ row.held => row.status = "reserved" /\ row.expires = "infinity"
          /\ row.status # "reserved" => /\ row.status = "expired"
                                        /\ \A a \in Admissions : Open(a) => adm[a].row # last
          /\ rows[last].held => row = rows[last]
      BY <1>1, <2>1, ClosedRow, ZenonT(60)
    <2> QED BY <2>1, <2>2 DEF Core, OpenOwned
  <1> QED BY <1>2, <1>3

\* Admission of the next reservation attempt: nothing is open any more.
LEMMA AdmitCore ==
  ASSUME Core, NEW w \in Workers, NEW stored \in Reservation,
         last > 0 => stored.status # "absent", ~stored.held,
         last > 0 /\ rows[last].held => stored = rows[last],
         \A a \in Admissions : ~Open(a),
         Admit(w, stored)
  PROVE  Core' /\ HoldKept
  <1>1. /\ last' = last + 1 /\ last' \in 1..MaxRows /\ last \in Nat
        /\ issued' \in 0..MaxTokens /\ issued + 1 \in 0..MaxTokens /\ month \in 0..MaxMonth
    BY ConstantsAssumption DEF Core, TypeOK, Admit
  <1>2. JustClaimed(month) \in Reservation
    BY <1>1 DEF JustClaimed, Reservation, Deadline
  <1>3. rows' \in [Rows -> Reservation]
    BY <1>2 DEF Core, TypeOK, Admit
  <1>4. work' \in [Workers -> Worker] /\ WorkersOK'
    BY <1>1 DEF Core, TypeOK, WorkersOK, Worker, Admit
  <1>5. TypeOK'
    BY <1>1, <1>3, <1>4 DEF Core, TypeOK, Admit
  <1>6. RowsOK'
    <2> SUFFICES ASSUME NEW r \in Rows
                 PROVE  /\ r > last' => rows'[r] = AbsentRow
                        /\ r <= last' => rows'[r].status # "absent"
                        /\ r < last' => rows'[r].status # "reserved"
                        /\ rows'[r].held => /\ rows'[r].status = "reserved"
                                            /\ rows'[r].expires = "infinity"
      BY DEF RowsOK
    <2>1. CASE r = last + 1
      BY <1>1, <2>1 DEF Admit, JustClaimed
    <2>2. CASE r = last
      BY <1>1, <2>2 DEF Admit
    <2>3. CASE r # last /\ r # last + 1
      BY <1>1, <2>3 DEF Admit, Core, RowsOK
    <2> QED BY <2>1, <2>2, <2>3
  <1>7. HoldKept
    <2> SUFFICES ASSUME NEW r \in Rows, rows[r].held
                 PROVE  rows'[r] = rows[r] /\ rows[r].expires = "infinity"
      BY DEF HoldKept
    <2>1. rows[r].status = "reserved" /\ rows[r].expires = "infinity" /\ r = last
      BY <1>1 DEF Core, RowsOK, AbsentRow
    <2> QED BY <1>1, <2>1 DEF Admit
  <1>8. AdmissionsOK' /\ OpenOwned'
    BY <1>1 DEF Core, TypeOK, Admission, AdmissionsOK, OpenOwned, Open, Admit
  <1> QED BY <1>4, <1>5, <1>6, <1>7, <1>8 DEF Core

\* A reclaim moves every open attempt to the new claim.
LEMMA ReclaimCore ==
  ASSUME Core, last > 0, NEW w \in Workers, NEW stored \in Reservation,
         stored.status = "reserved", rows[last].status = "reserved", ~rows[last].held,
         \A r \in Rows : ~Unresolved(r, "dispatched"),
         Reclaim(w, stored)
  PROVE  Core' /\ HoldKept
  <1>1. last \in Rows /\ issued' = issued + 1 /\ issued' \in 0..MaxTokens
    BY ConstantsAssumption DEF Core, TypeOK, Reclaim
  <1> DEFINE row == JustClaimed(stored.period)
  <1>2. row \in Reservation /\ row.status = "reserved" /\ ~row.held /\ row.token = issued'
    BY <1>1 DEF JustClaimed, Reservation, Deadline
  <1>3. rows' = [rows EXCEPT ![last] = row]
    BY DEF Reclaim
  <1> HIDE DEF row
  <1>4. rows' \in [Rows -> Reservation] /\ rows'[last] = row
        /\ \A r \in Rows \ {last} : rows'[r] = rows[r]
    BY <1>1, <1>2, <1>3 DEF Core, TypeOK
  <1>5. RowsOK' /\ HoldKept
    BY <1>1, <1>2, <1>4 DEF Core, TypeOK, RowsOK, HoldKept, Reclaim
  <1>6. work' \in [Workers -> Worker] /\ WorkersOK'
    BY <1>1 DEF Core, TypeOK, WorkersOK, Worker, Reclaim
  <1>7. /\ adm' \in [Admissions -> Admission]
        /\ \A a \in Admissions :
             /\ adm'[a].state = adm[a].state /\ adm'[a].row = adm[a].row
             /\ adm[a].row = last /\ adm[a].state = "prepared" /\ usage[a] = "none"
                  => adm'[a].token = issued'
    BY <1>1 DEF Core, TypeOK, Admission, Reclaim
  <1>8. TypeOK'
    BY <1>1, <1>4, <1>6, <1>7 DEF Core, TypeOK, Reclaim
  <1>9. AdmissionsOK'
    BY <1>7 DEF Core, AdmissionsOK, Reclaim
  <1>10. OpenOwned'
    <2> SUFFICES ASSUME NEW a \in Admissions, Open(a)'
                 PROVE  adm'[a].row = last /\ adm'[a].token = issued'
      BY <1>1, <1>2, <1>4 DEF OpenOwned, Reclaim
    <2>1. usage[a] = "none" /\ adm[a].state # "none"
      BY <1>7 DEF Open, Reclaim
    <2>2. adm[a].row = last /\ adm[a].state # "dispatched"
      BY <1>1, <2>1 DEF Core, OpenOwned, Open, Unresolved
    <2>3. adm[a].state = "prepared"
      BY <2>1, <2>2 DEF Core, TypeOK, Admission
    <2> QED BY <1>7, <2>1, <2>2, <2>3
  <1> QED BY <1>5, <1>6, <1>8, <1>9, <1>10 DEF Core

\* An observer stores the swept row or puts it on hold.
LEMMA ObserveCore ==
  ASSUME Core, last > 0, NEW stored \in Reservation, NEW unresolved,
         stored.status = "reserved", stored.token = rows[last].token,
         stored.held => stored.expires = "infinity",
         rows[last].status = "reserved", rows[last].held => stored = rows[last],
         Observe(stored, unresolved)
  PROVE  Core' /\ HoldKept
  <1> DEFINE row == IF unresolved THEN Hold(stored) ELSE stored
  <1>1. /\ row \in Reservation /\ row.status = "reserved" /\ row.token = rows[last].token
        /\ row.held => row.expires = "infinity"
        /\ stored.held => row.held
    BY HoldFields
  <1>2. rows' = [rows EXCEPT ![last] = row] /\ last' = last
    BY DEF Observe
  <1>3. last \in 1..last
    BY DEF Core, TypeOK
  <1> HIDE DEF row
  <1>4. /\ rows' \in [Rows -> Reservation]
        /\ RowsOK' /\ HoldKept
        /\ rows'[last].token = rows[last].token
        /\ \A a \in Admissions : Open(a) => rows'[last].status = "reserved"
    BY <1>1, <1>2, <1>3, RowUpdate, ZenonT(60)
  <1> QED BY <1>4 DEF Core, TypeOK, AdmissionsOK, WorkersOK, OpenOwned, Open, Observe

\* A reserve call keeps Core: it admits a new row, reclaims the latest one or
\* holds it.
LEMMA ReserveCore ==
  ASSUME Core, NEW w \in Workers, NEW late \in BOOLEAN, Reserve(w, late)
  PROVE  Core' /\ HoldKept
  <1>1. CASE last = 0 /\ Admit(w, AbsentRow)
    <2>1. \A a \in Admissions : ~Open(a)
      BY <1>1 DEF Core, OpenOwned
    <2>2. AbsentRow \in Reservation /\ ~AbsentRow.held
      BY ConstantsAssumption DEF AbsentRow, Reservation, Deadline
    <2> QED BY <1>1, <2>1, <2>2, AdmitCore
  <1>2. ASSUME last > 0, NEW row \in Swept(late),
               row.status \in {"released", "expired"}, Admit(w, row)
        PROVE  Core' /\ HoldKept
    <2>1. /\ row \in Reservation /\ row.status # "absent" /\ ~row.held
          /\ rows[last].held => row = rows[last]
          /\ \A a \in Admissions : ~Open(a)
      BY <1>2, SweptRow
    <2> QED BY <1>2, <2>1, AdmitCore
  <1>3. ASSUME last > 0, NEW row \in Swept(late), row.status = "reserved", Expired(row.expires, late),
               NEW closed \in HoldTrigger(last, row, [row EXCEPT !.status = "expired"], "expired"),
               Admit(w, closed)
        PROVE  Core' /\ HoldKept
    <2>1. /\ row \in Reservation /\ row.token = rows[last].token
          /\ row.held => row.expires = "infinity"
          /\ rows[last].held => row = rows[last]
      BY <1>3, SweptRow
    <2>2. ~row.held
      BY <1>3, <2>1 DEF Expired
    <2>3. closed.status # "reserved"
      BY <1>3 DEF Admit
    <2> DEFINE new == [row EXCEPT !.status = "expired"]
    <2>4. /\ new \in Reservation /\ new.status = "expired" /\ new.token = row.token
          /\ new.lease = row.lease /\ new.period = row.period /\ new.held = row.held
      BY <2>1 DEF Reservation
    <2>5. closed \in HoldTrigger(last, row, new, "expired")
      BY <1>3
    <2> HIDE DEF new
    <2>6. /\ closed \in Reservation /\ closed = new
          /\ ~Unresolved(last, "dispatched") /\ ~Unresolved(last, "prepared")
      <3>1. row.status = "reserved" /\ new.status # "absent" /\ new.status # "reserved"
        BY <1>3, <2>4
      <3> QED BY <2>1, <2>3, <2>4, <2>5, <3>1, HoldTriggerStores
    <2>7. \A a \in Admissions : ~Open(a)
      BY <2>6 DEF Unresolved, Open, Core, TypeOK, Admission, OpenOwned
    <2> QED BY <1>3, <2>1, <2>2, <2>4, <2>6, <2>7, AdmitCore
  <1>4. ASSUME last > 0, NEW row \in Swept(late), row.status = "reserved",
               ~row.held, \A r \in Rows : ~Unresolved(r, "dispatched"), Reclaim(w, row)
        PROVE  Core' /\ HoldKept
    <2>1. row \in Reservation /\ rows[last].status = "reserved" /\ ~rows[last].held
      BY <1>4, SweptRow
    <2> QED BY <1>4, <2>1, ReclaimCore
  <1>5. ASSUME last > 0, NEW row \in Swept(late), row.status = "reserved",
               NEW unresolved, Observe(row, unresolved)
        PROVE  Core' /\ HoldKept
    <2>1. /\ row \in Reservation /\ rows[last].status = "reserved" /\ row.token = rows[last].token
          /\ row.held => row.expires = "infinity"
          /\ rows[last].held => row = rows[last]
      BY <1>5, SweptRow
    <2> QED BY <1>5, <2>1, ObserveCore
  <1> QED
    BY <1>1, <1>2, <1>3, <1>4, <1>5 DEF Reserve

\* The sweep of another request keeps Core.
LEMMA SweepCore ==
  ASSUME Core, SweepByOtherRequest
  PROVE  Core' /\ HoldKept
  <1>1. PICK row \in Swept(FALSE) : row # rows[last] /\ rows' = [rows EXCEPT ![last] = row]
    BY DEF SweepByOtherRequest
  <1>2. last > 0 /\ last \in 1..last /\ UNCHANGED <<last, adm, usage>>
    BY DEF SweepByOtherRequest, Core, TypeOK
  <1>3. /\ rows[last].status = "reserved"
        /\ row \in HoldTrigger(last, rows[last], [rows[last] EXCEPT !.status = "expired"], "expired")
    BY <1>1 DEF Swept
  <1>4. rows' \in [Rows -> Reservation] /\ RowsOK' /\ HoldKept /\ AdmissionsOK' /\ OpenOwned'
    BY <1>1, <1>2, <1>3, CloseCore, ZenonT(60)
  <1> QED BY <1>4 DEF Core, TypeOK, WorkersOK, SweepByOtherRequest

\* The death of an invocation keeps Core: it changes no durable state.
LEMMA ExitCore ==
  ASSUME Core, NEW w \in Workers, Exit(w)
  PROVE  Core' /\ HoldKept
  <1>1. work' \in [Workers -> Worker] /\ call' \in [Workers -> [Stages -> Call]] /\ WorkersOK'
    BY ConstantsAssumption DEF Core, TypeOK, WorkersOK, Worker, Call, Idle, NoCall, Exit
  <1>2. RowsOK' /\ HoldKept /\ AdmissionsOK' /\ OpenOwned'
    BY DEF Core, RowsOK, HoldKept, AdmissionsOK, OpenOwned, Open, Exit
  <1> QED BY <1>1, <1>2 DEF Core, TypeOK, Exit

\* Steps that move one call and leave the durable state alone.
LEMMA CallOnlyCore ==
  ASSUME Core, NEW w \in Workers, NEW s \in Stages,
         NEW pc \in {"refused", "ambiguous", "failed"}, NEW n \in 0..2,
         pc # "failed" => n \in Attempts,
         SetCall(w, s, pc, n),
         UNCHANGED <<month, rows, last, adm, usage, result, charged, issued, work, sent>>
  PROVE  Core' /\ HoldKept
  <1>1. call' \in [Workers -> [Stages -> Call]] /\ WorkersOK'
    BY DEF Core, TypeOK, WorkersOK, Call, SetCall
  <1>2. RowsOK' /\ HoldKept /\ AdmissionsOK' /\ OpenOwned'
    BY DEF Core, RowsOK, HoldKept, AdmissionsOK, OpenOwned, Open
  <1> QED BY <1>1, <1>2 DEF Core, TypeOK

\* A call that is not sent keeps Core: it changes no durable state.
LEMMA DispatchFailsCore ==
  ASSUME Core, NEW w \in Workers, NEW s \in Stages, DispatchFails(w, s)
  PROVE  Core' /\ HoldKept
  <1>1. call[w][s].n \in Attempts
    BY DEF Core, WorkersOK, DispatchFails
  <1>2. UNCHANGED <<month, rows, last, adm, usage, result, charged, issued, work, sent>>
    BY DEF DispatchFails
  <1>3. CASE SetCall(w, s, "failed", 0)
    BY <1>2, <1>3, CallOnlyCore
  <1>4. ASSUME NEW pc \in {"refused", "ambiguous"}, SetCall(w, s, pc, call[w][s].n)
        PROVE  Core' /\ HoldKept
    BY <1>1, <1>2, <1>4, CallOnlyCore
  <1> QED BY <1>3, <1>4 DEF DispatchFails

\* A rejected recording keeps Core: it changes no durable state.
LEMMA RecordRejectedCore ==
  ASSUME Core, NEW w \in Workers, NEW s \in Stages, RecordRejected(w, s)
  PROVE  Core' /\ HoldKept
  BY CallOnlyCore DEF RecordRejected

\* A heartbeat renews the execution lease and nothing else.
LEMMA HeartbeatCore ==
  ASSUME Core, NEW r \in 1..last, last' = last, NEW lease \in Deadline,
         rows' = [rows EXCEPT ![r].lease = lease]
  PROVE  /\ rows' \in [Rows -> Reservation] /\ RowsOK' /\ HoldKept
         /\ rows'[last].token = rows[last].token
         /\ rows'[last].status = rows[last].status
  <1>1. r \in Rows /\ last \in Rows /\ rows[r] \in Reservation
    BY ConstantsAssumption DEF Core, TypeOK
  <1> DEFINE row == [rows[r] EXCEPT !.lease = lease]
  <1>2. /\ row \in Reservation /\ row.status = rows[r].status /\ row.token = rows[r].token
        /\ row.held = rows[r].held /\ row.expires = rows[r].expires
    BY <1>1 DEF Reservation
  <1>3. rows' = [rows EXCEPT ![r] = row]
    BY <1>1 DEF Core, TypeOK
  <1>4. /\ row.status # "absent"
        /\ row.held => row.status = "reserved" /\ row.expires = "infinity"
        /\ row.status # "reserved" => \A a \in Admissions : Open(a) => adm[a].row # r
    BY <1>1, <1>2 DEF Core, TypeOK, RowsOK, OpenOwned
  <1> HIDE DEF row
  <1>5. rows' \in [Rows -> Reservation] /\ RowsOK' /\ HoldKept /\ rows'[last].token = rows[last].token
    BY <1>2, <1>3, <1>4, RowUpdate, ZenonT(60)
  <1>6. rows'[last].status = rows[last].status
    BY <1>1, <1>2, <1>3 DEF Core, TypeOK
  <1> QED BY <1>5, <1>6

\* The live claimant prepares attempt n of a stage for the latest reservation.
LEMMA PrepareCore ==
  ASSUME Core, NEW w \in Workers, NEW s \in Stages, NEW n \in Attempts,
         work[w].pc # "idle", rows[work[w].row].status = "reserved",
         rows[work[w].row].token = work[w].token,
         SetCall(w, s, "prepared", n),
         rows' = [rows EXCEPT ![work[w].row].lease = "future"],
         adm' = [adm EXCEPT ![<<s, n>>] = [state |-> "prepared", row |-> work[w].row,
                                          token |-> work[w].token, lease |-> "future"]],
         UNCHANGED <<month, last, usage, result, charged, issued, work, sent>>
  PROVE  Core' /\ HoldKept
  <1>1. /\ work[w].row \in 1..last /\ work[w].row = last /\ last \in 1..MaxRows
        /\ work[w].token \in 0..MaxTokens
    BY ConstantsAssumption DEF Core, TypeOK, WorkersOK, RowsOK, Worker
  <1>2. /\ rows' \in [Rows -> Reservation] /\ RowsOK' /\ HoldKept
        /\ rows'[last].token = rows[last].token
        /\ rows'[last].status = rows[last].status
    BY <1>1, HeartbeatCore DEF Deadline
  <1>3. call' \in [Workers -> [Stages -> Call]] /\ WorkersOK'
    BY DEF Core, TypeOK, WorkersOK, Call, SetCall
  <1>4. <<s, n>> \in Admissions
    BY DEF Admissions
  <1>5. adm' \in [Admissions -> Admission]
    BY <1>1, <1>4 DEF Core, TypeOK, Admission, Deadline
  <1>6. /\ adm'[<<s, n>>].state = "prepared" /\ adm'[<<s, n>>].row = last
        /\ adm'[<<s, n>>].token = rows[last].token
        /\ \A a \in Admissions \ {<<s, n>>} : adm'[a] = adm[a]
    BY <1>1, <1>4 DEF Core, TypeOK
  <1>7. AdmissionsOK' /\ OpenOwned'
    BY <1>1, <1>2, <1>6 DEF Core, AdmissionsOK, OpenOwned, Open
  <1> QED BY <1>2, <1>3, <1>5, <1>7 DEF Core, TypeOK

\* Reading a checkpoint keeps Core: a prepared attempt belongs to the live
\* claimant of the latest row.
LEMMA ReadCheckpointCore ==
  ASSUME Core, NEW w \in Workers, NEW s \in Stages, ReadCheckpoint(w, s)
  PROVE  Core' /\ HoldKept
  <1> DEFINE r == work[w].row
             n == LatestAttempt(s)
             live == /\ rows[r].status = "reserved" /\ rows[r].token = work[w].token
  <1>1. /\ work[w].pc # "idle" /\ r \in 1..last /\ n \in 0..2
        /\ UNCHANGED <<month, last, usage, result, charged, issued, work, sent>>
    <2>1. n \in 0..2
      BY DEF LatestAttempt
    <2>2. work[w].pc # "idle" /\ UNCHANGED <<month, last, usage, result, charged, issued, work, sent>>
      BY DEF ReadCheckpoint
    <2> QED BY <2>1, <2>2 DEF Core, WorkersOK
  <1>2. ASSUME NEW pc \in {"done", "failed", "reconcile"}, SetCall(w, s, pc, 0)
        PROVE  call' \in [Workers -> [Stages -> Call]] /\ WorkersOK'
    BY <1>1, <1>2 DEF Core, TypeOK, WorkersOK, Call, SetCall
  <1>3. ASSUME NEW pc \in {"done", "failed", "reconcile"}, SetCall(w, s, pc, 0),
               UNCHANGED <<rows, adm>>
        PROVE  Core' /\ HoldKept
    BY <1>1, <1>2, <1>3 DEF Core, TypeOK, RowsOK, HoldKept, AdmissionsOK, OpenOwned, Open
  <1>4. ASSUME NEW pc \in {"done", "failed", "reconcile"}, SetCall(w, s, pc, 0),
               rows' = [rows EXCEPT ![r].lease = "future"], adm' = adm
        PROVE  Core' /\ HoldKept
    <2>1. /\ rows' \in [Rows -> Reservation] /\ RowsOK' /\ HoldKept
          /\ rows'[last].token = rows[last].token
          /\ rows'[last].status = rows[last].status
      BY <1>1, <1>4, HeartbeatCore DEF Deadline
    <2> QED BY <1>1, <1>2, <1>4, <2>1 DEF Core, TypeOK, AdmissionsOK, OpenOwned, Open
  <1>5. ASSUME live, Answers(r, work[w].token, s, "admit"), SetCall(w, s, "prepared", n + 1),
               rows' = [rows EXCEPT ![r].lease = "future"],
               adm' = [adm EXCEPT ![<<s, n + 1>>] = [state |-> "prepared", row |-> r,
                         token |-> work[w].token, lease |-> "future"]]
        PROVE  Core' /\ HoldKept
    <2>1. n + 1 \in Attempts
      BY <1>1, <1>5, ConstantsAssumption DEF Answers, Retryable
    <2> QED BY <1>1, <1>5, <2>1, PrepareCore, ZenonT(60)
  <1>6. ASSUME live, Answers(r, work[w].token, s, "resume"), SetCall(w, s, "prepared", n),
               rows' = [rows EXCEPT ![r].lease = "future"],
               adm' = [adm EXCEPT ![<<s, n>>] = [state |-> "prepared", row |-> adm[<<s, n>>].row,
                         token |-> work[w].token, lease |-> "future"]]
        PROVE  Core' /\ HoldKept
    <2>1. n \in Attempts /\ Open(<<s, n>>) /\ <<s, n>> \in Admissions
      BY <1>1, <1>6 DEF Answers, Open, Admissions
    <2>2. adm[<<s, n>>].row = last /\ r = last
      BY <1>1, <1>6, <2>1, ConstantsAssumption DEF Core, TypeOK, OpenOwned, RowsOK
    <2> QED BY <1>1, <1>6, <2>1, <2>2, PrepareCore, ZenonT(60)
  <1> QED
    BY <1>3, <1>4, <1>5, <1>6 DEF ReadCheckpoint, ClaimLive

\* Dispatching an attempt keeps Core: it is still owned by the current claim.
LEMMA MarkDispatchedCore ==
  ASSUME Core, NEW w \in Workers, NEW s \in Stages, MarkDispatched(w, s)
  PROVE  Core' /\ HoldKept
  <1> DEFINE r == work[w].row
             n == call[w][s].n
             a == <<s, n>>
             marked == [state |-> "dispatched", row |-> r, token |-> work[w].token, lease |-> "future"]
  <1>1. /\ r \in 1..last /\ r = last /\ r \in 1..MaxRows /\ n \in Attempts /\ a \in Admissions
        /\ adm[a].row = r /\ adm[a].token = work[w].token /\ adm[a].state = "prepared"
        /\ work[w].token \in 0..MaxTokens
    BY ConstantsAssumption
    DEF MarkDispatched, Dispatchable, Core, TypeOK, Worker, WorkersOK, RowsOK, Admissions
  <1>2. /\ rows' = [rows EXCEPT ![r].lease = "future"]
        /\ adm' = [adm EXCEPT ![a] = marked]
        /\ UNCHANGED <<month, last, usage, result, charged, issued, work>>
    BY DEF MarkDispatched
  <1>3. /\ rows' \in [Rows -> Reservation] /\ RowsOK' /\ HoldKept
        /\ rows'[last].token = rows[last].token
        /\ rows'[last].status = rows[last].status
    BY <1>1, <1>2, HeartbeatCore DEF Deadline
  <1>4. adm' \in [Admissions -> Admission]
    BY <1>1, <1>2 DEF Core, TypeOK, Admission, Deadline
  <1>5. /\ adm'[a].state = "dispatched" /\ adm'[a].row = r /\ adm'[a].token = adm[a].token
        /\ \A b \in Admissions \ {a} : adm'[b] = adm[b]
    BY <1>1, <1>2 DEF Core, TypeOK
  <1>6. AdmissionsOK' /\ OpenOwned'
    BY <1>1, <1>2, <1>3, <1>5 DEF Core, AdmissionsOK, OpenOwned, Open
  <1>7. sent' \in [Admissions -> Nat]
    <2>1. sent' = sent \/ sent' = [sent EXCEPT ![a] = sent[a] + 1]
      BY DEF MarkDispatched
    <2>2. sent \in [Admissions -> Nat] /\ sent[a] + 1 \in Nat
      BY <1>1 DEF Core, TypeOK
    <2> HIDE DEF a
    <2>3. CASE sent' = [sent EXCEPT ![a] = sent[a] + 1]
      BY <1>1, <2>2, <2>3
    <2> QED BY <2>1, <2>2, <2>3
  <1>8. call' \in [Workers -> [Stages -> Call]] /\ WorkersOK'
    <2>1. PICK pc \in {"sent", "ambiguous"} : SetCall(w, s, pc, n)
      BY DEF MarkDispatched
    <2> QED BY <1>1, <1>2, <2>1 DEF Core, TypeOK, WorkersOK, Call, SetCall
  <1> QED BY <1>2, <1>3, <1>4, <1>6, <1>7, <1>8 DEF Core, TypeOK

\* The row stored with an outcome: an unknown one holds it, and a held row
\* accepts nothing else.
LEMMA RecordedRow ==
  ASSUME Core, NEW r \in 1..last, rows[r].status = "reserved",
         NEW o \in Outcomes, NEW row \in Recorded(r, o)
  PROVE  /\ row \in Reservation /\ row.status = "reserved" /\ row.token = rows[r].token
         /\ row.held => row.expires = "infinity"
         /\ rows[r].held => row = rows[r]
         /\ o = "unknown" => row.held
  <1> DEFINE old == rows[r]
             new == IF o = "unknown" THEN Hold(old) ELSE [old EXCEPT !.held = FALSE]
  <1>1. old \in Reservation /\ (old.held => old.expires = "infinity") /\ old.status = "reserved"
    BY ConstantsAssumption DEF Core, TypeOK, RowsOK
  <1>2. /\ new \in Reservation /\ new.status = "reserved" /\ new.token = old.token
        /\ new.held => new.expires = "infinity"
        /\ o = "unknown" => new.held
    <2>1. CASE o = "unknown"
      BY <1>1, <2>1, HoldFields
    <2>2. CASE o # "unknown"
      BY <1>1, <2>2 DEF Reservation
    <2> QED BY <2>1, <2>2
  <1>3. row \in HoldTrigger(r, old, new, "none")
    BY DEF Recorded
  <1> HIDE DEF new, old
  <1>4. row \in (IF old.held THEN HeldUpdate(old, new) ELSE {new})
    BY <1>1, <1>2, <1>3 DEF HoldTrigger
  <1>5. row = new /\ (old.held => row = old)
    BY <1>4 DEF HeldUpdate
  <1> QED BY <1>1, <1>2, <1>5 DEF old

\* Recording an attempt keeps Core.
LEMMA RecordAttemptCore ==
  ASSUME Core, NEW w \in Workers, NEW s \in Stages, RecordAttempt(w, s)
  PROVE  Core' /\ HoldKept
  <1> DEFINE r == work[w].row
             n == call[w][s].n
             a == <<s, n>>
  <1>1. PICK o \in Reports(call[w][s].pc) :
          /\ work[w].pc # "idle"
          /\ Recordable(w, s, o)
          /\ \E row \in Recorded(r, o) : rows' = [rows EXCEPT ![r] = [row EXCEPT !.lease = "future"]]
          /\ usage' = [usage EXCEPT ![a] = o]
          /\ result' = IF o \in Completed /\ result[s] = 0 THEN [result EXCEPT ![s] = n] ELSE result
          /\ \E pc \in {"done", "none", "failed", "reconcile"} : SetCall(w, s, pc, 0)
          /\ UNCHANGED <<month, last, adm, charged, issued, work, sent>>
    BY DEF RecordAttempt
  <1>2. /\ o \in Outcomes /\ n \in Attempts /\ a \in Admissions
        /\ r \in 1..last /\ r \in Rows /\ last \in Rows /\ rows[r].status = "reserved" /\ adm[a].row = r
    BY <1>1, ConstantsAssumption
    DEF Reports, Core, TypeOK, WorkersOK, Admissions, Recordable, Claimant
  <1>3. PICK row \in Recorded(r, o) : rows' = [rows EXCEPT ![r] = [row EXCEPT !.lease = "future"]]
    BY <1>1
  <1> DEFINE new == [row EXCEPT !.lease = "future"]
  <1>4. /\ row \in Reservation /\ row.status = "reserved" /\ row.token = rows[r].token
        /\ row.held => row.expires = "infinity"
        /\ rows[r].held => row = rows[r]
    BY <1>2, <1>3, RecordedRow
  <1>5. /\ new \in Reservation /\ new.status = "reserved" /\ new.token = rows[r].token
        /\ new.held => new.expires = "infinity"
        /\ rows[r].held => new.held
    BY <1>4 DEF Reservation, Deadline
  <1> HIDE DEF new
  <1>6. /\ rows' \in [Rows -> Reservation]
        /\ RowsOK' /\ HoldKept
        /\ rows'[last].token = rows[last].token
        /\ \A b \in Admissions : Open(b) => rows'[last].status = "reserved"
    BY <1>1, <1>2, <1>3, <1>5, RowUpdate DEF new
  <1>7. /\ usage' \in [Admissions -> Outcomes \cup {"none"}]
        /\ usage'[a] = o /\ \A b \in Admissions \ {a} : usage'[b] = usage[b]
    BY <1>1, <1>2 DEF Core, TypeOK
  <1>8. result' \in [Stages -> 0..2]
    BY <1>1, <1>2 DEF Core, TypeOK
  <1>9. call' \in [Workers -> [Stages -> Call]] /\ WorkersOK'
    BY <1>1 DEF Core, TypeOK, WorkersOK, Call, SetCall
  <1>10. AdmissionsOK'
    BY <1>1, <1>2, <1>7 DEF Core, AdmissionsOK
  <1>11. OpenOwned'
    <2> SUFFICES ASSUME NEW b \in Admissions, Open(b)' PROVE Open(b)
      BY <1>1, <1>6 DEF Core, OpenOwned
    <2>1. adm' = adm /\ usage'[b] = "none" /\ adm[b].state # "none"
      BY <1>1 DEF Open
    <2>2. b # a
      BY <1>2, <1>7, <2>1 DEF Outcomes, Completed
    <2> QED BY <1>7, <2>1, <2>2 DEF Open
  <1> QED BY <1>1, <1>6, <1>7, <1>8, <1>9, <1>10, <1>11 DEF Core, TypeOK

\* The passage of time keeps Core.
LEMMA ElapseCore ==
  ASSUME Core, Elapse
  PROVE  Core' /\ HoldKept
  <1>1. UNCHANGED <<last, usage, result, charged, issued, work, call, sent>>
    BY DEF Elapse
  <1>2. WorkersOK'
    BY <1>1 DEF Core, WorkersOK
  <1>3. CASE last > 0 /\ rows' = [rows EXCEPT ![last].lease = "past"] /\ UNCHANGED <<month, adm>>
    <2>0. last \in 1..last /\ "past" \in Deadline
      BY <1>3 DEF Core, TypeOK, Deadline
    <2>1. /\ rows' \in [Rows -> Reservation] /\ RowsOK' /\ HoldKept
          /\ rows'[last].token = rows[last].token
          /\ rows'[last].status = rows[last].status
      BY <1>1, <1>3, <2>0, HeartbeatCore, ZenonT(60)
    <2> QED BY <1>1, <1>2, <1>3, <2>1 DEF Core, TypeOK, AdmissionsOK, OpenOwned, Open
  <1>4. CASE /\ last > 0 /\ rows[last].status = "reserved" /\ rows[last].expires = "future"
             /\ rows' = [rows EXCEPT ![last].expires = "past"] /\ UNCHANGED <<month, adm>>
    <2> DEFINE row == [rows[last] EXCEPT !.expires = "past"]
    <2>1. last \in 1..last /\ last \in Rows /\ rows[last] \in Reservation
      BY <1>4, ConstantsAssumption DEF Core, TypeOK
    <2>2. /\ row \in Reservation /\ row.status = "reserved" /\ row.token = rows[last].token
          /\ row.held = rows[last].held
      BY <1>4, <2>1 DEF Reservation, Deadline
    <2>3. ~rows[last].held /\ rows' = [rows EXCEPT ![last] = row]
      BY <1>4, <2>1 DEF Core, RowsOK, TypeOK
    <2> HIDE DEF row
    <2>4. /\ rows' \in [Rows -> Reservation]
          /\ RowsOK' /\ HoldKept
          /\ rows'[last].token = rows[last].token
          /\ \A a \in Admissions : Open(a) => rows'[last].status = "reserved"
      BY <1>1, <1>4, <2>1, <2>2, <2>3, RowUpdate, ZenonT(60)
    <2> QED BY <1>1, <1>2, <1>4, <2>4 DEF Core, TypeOK, AdmissionsOK, OpenOwned, Open
  <1>5. ASSUME NEW a \in Admissions, adm' = [adm EXCEPT ![a].lease = "past"], UNCHANGED <<month, rows>>
        PROVE  Core' /\ HoldKept
    <2>1. /\ adm' \in [Admissions -> Admission]
          /\ \A b \in Admissions : /\ adm'[b].state = adm[b].state /\ adm'[b].row = adm[b].row
                                   /\ adm'[b].token = adm[b].token
      BY <1>5 DEF Core, TypeOK, Admission, Deadline
    <2>2. RowsOK' /\ HoldKept
      BY <1>1, <1>5 DEF Core, RowsOK, HoldKept
    <2> QED BY <1>1, <1>2, <1>5, <2>1, <2>2 DEF Core, TypeOK, AdmissionsOK, OpenOwned, Open
  <1>6. CASE month < MaxMonth /\ month' = month + 1 /\ UNCHANGED <<rows, adm>>
    <2>1. month' \in 0..MaxMonth
      BY <1>6, ConstantsAssumption DEF Core, TypeOK
    <2> QED BY <1>1, <1>2, <1>6, <2>1
            DEF Core, TypeOK, RowsOK, HoldKept, AdmissionsOK, OpenOwned, Open
  <1> QED BY <1>3, <1>4, <1>5, <1>6 DEF Elapse

\* Every step, of any worker, any other request or the clock, keeps the core
\* of the invariant and every hold.
LEMMA CoreStep ==
  ASSUME Core, Next
  PROVE  Core' /\ HoldKept
  <1>1. ASSUME NEW w \in Workers, NEW late \in BOOLEAN, Reserve(w, late) PROVE Core' /\ HoldKept
    BY <1>1, ReserveCore
  <1>2. ASSUME NEW w \in Workers, Settle(w) PROVE Core' /\ HoldKept
    BY <1>2, SettleCore
  <1>3. ASSUME NEW w \in Workers, NEW code \in {"none", "reconcile"}, Release(w, code)
        PROVE  Core' /\ HoldKept
    BY <1>3, ReleaseCore
  <1>4. ASSUME NEW w \in Workers, Exit(w) PROVE Core' /\ HoldKept
    BY <1>4, ExitCore
  <1>5. ASSUME NEW w \in Workers, NEW s \in Stages,
               \/ ReadCheckpoint(w, s) \/ MarkDispatched(w, s) \/ DispatchFails(w, s)
               \/ RecordAttempt(w, s) \/ RecordRejected(w, s)
        PROVE  Core' /\ HoldKept
    BY <1>5, ReadCheckpointCore, MarkDispatchedCore, DispatchFailsCore, RecordAttemptCore,
       RecordRejectedCore
  <1> QED BY <1>1, <1>2, <1>3, <1>4, <1>5, SweepCore, ElapseCore DEF Next

\* Core holds initially.
LEMMA CoreInit == Init => Core
  <1> SUFFICES ASSUME Init PROVE Core
    OBVIOUS
  <1>1. TypeOK
    <2>1. /\ AbsentRow \in Reservation /\ NoAdmission \in Admission
          /\ Idle \in Worker /\ NoCall \in Call
      BY ConstantsAssumption
      DEF AbsentRow, Reservation, NoAdmission, Admission, Deadline, Idle, Worker, NoCall, Call
    <2> QED BY <2>1, ConstantsAssumption DEF Init, TypeOK
  <1>2. RowsOK /\ AdmissionsOK /\ WorkersOK /\ OpenOwned
    BY ConstantsAssumption
    DEF Init, RowsOK, AdmissionsOK, WorkersOK, OpenOwned, Open, AbsentRow, NoAdmission, Idle, NoCall
  <1> QED BY <1>1, <1>2 DEF Core

\* Core holds after a stuttering step.
LEMMA CoreStutter ==
  ASSUME Core, UNCHANGED vars
  PROVE  Core' /\ HoldKept
  BY DEF vars, Core, TypeOK, RowsOK, AdmissionsOK, WorkersOK, OpenOwned, Open, HoldKept

-----------------------------------------------------------------------------
(* The accounting history *)

\* Steps that admit, send and record nothing.
Quiet ==
  /\ \A a \in Admissions : adm'[a].state = adm[a].state /\ adm'[a].row = adm[a].row
  /\ UNCHANGED <<usage, result, sent>>
  /\ \A w \in Workers, s \in Stages : call'[w][s].pc = "done" => call[w][s].pc = "done"

\* Every action but the checkpoint, the dispatch and the record is quiet.
QuietNext ==
  \/ \E w \in Workers :
       \/ \E late \in BOOLEAN : Reserve(w, late)
       \/ Settle(w)
       \/ \E code \in {"none", "reconcile"} : Release(w, code)
       \/ Exit(w)
       \/ \E s \in Stages : DispatchFails(w, s) \/ RecordRejected(w, s)
  \/ SweepByOtherRequest
  \/ Elapse

\* Those actions leave admissions, usage rows, results and sent requests alone.
LEMMA QuietActions ==
  ASSUME Core, QuietNext
  PROVE  Quiet
  <1>1. ASSUME NEW w \in Workers, NEW late \in BOOLEAN, Reserve(w, late) PROVE Quiet
    <2>1. \/ \E row : Admit(w, row) \/ Reclaim(w, row)
          \/ \E row, unresolved : Observe(row, unresolved)
      BY <1>1 DEF Reserve
    <2>2. ASSUME NEW row, Admit(w, row) PROVE Quiet
      BY <2>2 DEF Admit, Quiet
    <2>3. ASSUME NEW row, Reclaim(w, row) PROVE Quiet
      BY <2>3 DEF Reclaim, Quiet, Core, TypeOK, Admission
    <2>4. ASSUME NEW row, NEW unresolved, Observe(row, unresolved) PROVE Quiet
      BY <2>4 DEF Observe, Quiet
    <2> QED BY <2>1, <2>2, <2>3, <2>4
  <1>2. ASSUME NEW w \in Workers, Settle(w) PROVE Quiet
    BY <1>2 DEF Settle, Quiet
  <1>3. ASSUME NEW w \in Workers, NEW code \in {"none", "reconcile"}, Release(w, code) PROVE Quiet
    BY <1>3 DEF Release, Quiet
  <1>4. ASSUME NEW w \in Workers, Exit(w) PROVE Quiet
    BY <1>4 DEF Exit, Quiet, Core, TypeOK, NoCall
  <1>5. ASSUME NEW w \in Workers, NEW s \in Stages, DispatchFails(w, s) PROVE Quiet
    <2>1. \E pc, n : pc \in {"failed", "refused", "ambiguous"} /\ SetCall(w, s, pc, n)
      BY <1>5 DEF DispatchFails
    <2> QED BY <1>5, <2>1 DEF DispatchFails, SetCall, Quiet, Core, TypeOK, Call
  <1>6. ASSUME NEW w \in Workers, NEW s \in Stages, RecordRejected(w, s) PROVE Quiet
    BY <1>6 DEF RecordRejected, SetCall, Quiet, Core, TypeOK, Call
  <1>7. CASE SweepByOtherRequest
    BY <1>7 DEF SweepByOtherRequest, Quiet
  <1>8. CASE Elapse
    <2>1. UNCHANGED <<usage, result, sent, call>>
      BY <1>8 DEF Elapse
    <2>2. \/ UNCHANGED adm
          \/ \E a \in Admissions : adm' = [adm EXCEPT ![a].lease = "past"]
      BY <1>8 DEF Elapse
    <2>3. ASSUME NEW a \in Admissions, adm' = [adm EXCEPT ![a].lease = "past"]
          PROVE  \A b \in Admissions : adm'[b].state = adm[b].state /\ adm'[b].row = adm[b].row
      BY <2>3 DEF Core, TypeOK, Admission
    <2> QED BY <2>1, <2>2, <2>3 DEF Quiet
  <1> QED BY <1>1, <1>2, <1>3, <1>4, <1>5, <1>6, <1>7, <1>8 DEF QuietNext

\* A recorded attempt belongs to an existing reservation.
LEMMA RecordedHasRow ==
  ASSUME Core, NEW a \in Admissions, usage[a] # "none"
  PROVE  adm[a].row \in Rows
  <1>1. adm[a].row \in 0..MaxRows
    BY DEF Core, TypeOK, Admission
  <1>2. adm[a].row # 0
    BY DEF Core, AdmissionsOK
  <1> QED BY <1>1, <1>2, ConstantsAssumption

\* A quiet step keeps the history and, as holds are kept, every hold an
\* unknown outcome has asked for.
LEMMA QuietHistory ==
  ASSUME Core, History, UnknownIsHeld, Quiet, Core', HoldKept
  PROVE  History' /\ UnknownIsHeld'
  <1>1. History'
    BY DEF Quiet, History, Admissions
  <1>2. UnknownIsHeld'
    <2> SUFFICES ASSUME NEW a \in Admissions, usage'[a] = "unknown"
                 PROVE  /\ rows'[adm'[a].row].status = "reserved"
                        /\ rows'[adm'[a].row].held
                        /\ rows'[adm'[a].row].expires = "infinity"
      BY DEF UnknownIsHeld
    <2>1. usage[a] = "unknown" /\ adm'[a].row = adm[a].row /\ adm[a].row \in Rows
      BY ConstantsAssumption DEF Quiet, Core, TypeOK, AdmissionsOK, Admission
    <2>2. rows[adm[a].row].held /\ rows[adm[a].row].status = "reserved"
      BY <2>1 DEF UnknownIsHeld
    <2> QED BY <2>1, <2>2 DEF HoldKept
  <1> QED BY <1>1, <1>2

\* Reading a checkpoint keeps History: the second attempt of a stage is
\* admitted only after a retryable failure of the first.
LEMMA ReadCheckpointHistory ==
  ASSUME Core, History, UnknownIsHeld, NEW w \in Workers, NEW s \in Stages,
         ReadCheckpoint(w, s), Core', HoldKept
  PROVE  History' /\ UnknownIsHeld'
  <1> DEFINE n == LatestAttempt(s)
  <1>1. UNCHANGED <<usage, result, sent>>
    BY DEF ReadCheckpoint
  <1>2. ASSUME NEW pc \in {"done", "failed", "reconcile"}, SetCall(w, s, pc, 0),
               pc = "done" => result[s] # 0 /\ UsableResult(s), adm' = adm
        PROVE  History' /\ UnknownIsHeld'
    <2>1. \A v \in Workers, t \in Stages :
            call'[v][t].pc = "done" => \/ call[v][t].pc = "done"
                                       \/ t = s /\ result[s] # 0 /\ UsableResult(s)
      BY <1>2 DEF SetCall, Core, TypeOK, Call
    <2>2. History'
      BY <1>1, <1>2, <2>1 DEF History, UsableResult
    <2>3. UnknownIsHeld'
      BY <1>1, <1>2, ConstantsAssumption
      DEF UnknownIsHeld, HoldKept, Core, RowsOK, TypeOK, AdmissionsOK, Admission
    <2> QED BY <2>2, <2>3
  <1>3. ASSUME NEW m \in Attempts, NEW row, SetCall(w, s, "prepared", m),
               usage[<<s, m>>] = "none", adm[<<s, m>>].state # "dispatched",
               m = 2 => usage[<<s, 1>>] = "retryable",
               adm' = [adm EXCEPT ![<<s, m>>] = [state |-> "prepared", row |-> row,
                         token |-> work[w].token, lease |-> "future"]]
        PROVE  History' /\ UnknownIsHeld'
    <2> DEFINE a == <<s, m>>
    <2>1. /\ a \in Admissions /\ adm'[a].state = "prepared"
          /\ \A b \in Admissions \ {a} : adm'[b] = adm[b]
      BY <1>3 DEF Core, TypeOK, Admissions
    <2>2. \A v \in Workers, t \in Stages : call'[v][t].pc = "done" => call[v][t].pc = "done"
      BY <1>3 DEF SetCall, Core, TypeOK, Call
    <2>3. \A b \in Admissions : sent'[b] = 0 \/ (sent'[b] = 1 /\ adm'[b].state = "dispatched")
      BY <1>1, <1>3, <2>1 DEF History
    <2>4. \A t \in Stages : adm'[<<t, 2>>].state # "none" => usage'[<<t, 1>>] = "retryable"
      <3> SUFFICES ASSUME NEW t \in Stages, adm'[<<t, 2>>].state # "none"
                   PROVE  usage'[<<t, 1>>] = "retryable"
        OBVIOUS
      <3>1. CASE t = s /\ m = 2
        BY <1>1, <1>3, <3>1
      <3>2. CASE ~(t = s /\ m = 2)
        <4>1. <<t, 2>> \in Admissions \ {a}
          BY <3>2 DEF Admissions
        <4> QED BY <1>1, <2>1, <4>1 DEF History
      <3> QED BY <3>1, <3>2
    <2>5. History'
      BY <1>1, <2>2, <2>3, <2>4 DEF History
    <2>6. UnknownIsHeld'
      <3> SUFFICES ASSUME NEW b \in Admissions, usage'[b] = "unknown"
                   PROVE  /\ rows'[adm'[b].row].status = "reserved"
                          /\ rows'[adm'[b].row].held
                          /\ rows'[adm'[b].row].expires = "infinity"
        BY DEF UnknownIsHeld
      <3>1. usage[b] = "unknown" /\ adm'[b] = adm[b] /\ adm[b].row \in Rows
        BY <1>1, <1>3, <2>1, RecordedHasRow
      <3> QED BY <3>1 DEF UnknownIsHeld, HoldKept
    <2> QED BY <2>5, <2>6
  <1>4. ASSUME NEW r, NEW token, Answers(r, token, s, "admit")
        PROVE  /\ n + 1 \in Attempts /\ usage[<<s, n + 1>>] = "none"
               /\ adm[<<s, n + 1>>].state # "dispatched"
               /\ n + 1 = 2 => usage[<<s, 1>>] = "retryable"
    <2>1. n \in {0, 1} /\ (n = 1 => usage[<<s, 1>>] = "retryable")
      BY <1>4, ConstantsAssumption DEF Answers, Retryable, LatestAttempt
    <2>2. <<s, 1>> \in Admissions /\ <<s, 2>> \in Admissions
      BY DEF Admissions
    <2>3. adm[<<s, n + 1>>].state = "none"
      BY <2>1 DEF LatestAttempt
    <2> QED BY <2>1, <2>2, <2>3 DEF Core, AdmissionsOK
  <1>5. ASSUME NEW r, NEW token, Answers(r, token, s, "resume")
        PROVE  /\ n \in Attempts /\ usage[<<s, n>>] = "none"
               /\ adm[<<s, n>>].state = "prepared"
               /\ n = 2 => usage[<<s, 1>>] = "retryable"
    <2>1. n \in Attempts /\ usage[<<s, n>>] = "none" /\ adm[<<s, n>>].state = "prepared"
      BY <1>5 DEF Answers, LatestAttempt
    <2> QED BY <2>1 DEF History
  <1>6. ASSUME NEW r, NEW token, Answers(r, token, s, "done")
        PROVE  result[s] # 0 /\ UsableResult(s)
    BY <1>6 DEF Answers
  <1> QED BY <1>2, <1>3, <1>4, <1>5, <1>6 DEF ReadCheckpoint

\* Dispatching keeps History: an attempt that was prepared has not been sent.
LEMMA MarkDispatchedHistory ==
  ASSUME Core, History, UnknownIsHeld, NEW w \in Workers, NEW s \in Stages,
         MarkDispatched(w, s), Core', HoldKept
  PROVE  History' /\ UnknownIsHeld'
  <1> DEFINE a == <<s, call[w][s].n>>
  <1>1. a \in Admissions /\ adm[a].state = "prepared" /\ UNCHANGED <<usage, result>>
    BY DEF MarkDispatched, Dispatchable, Core, WorkersOK, Admissions
  <1>2. /\ adm'[a].state = "dispatched" /\ adm'[a].row = adm[a].row
        /\ \A b \in Admissions \ {a} : adm'[b] = adm[b]
    BY <1>1 DEF MarkDispatched, Dispatchable, Core, TypeOK
  <1>3. sent[a] = 0
    BY <1>1 DEF History
  <1>4. sent'[a] \in {0, 1} /\ \A b \in Admissions \ {a} : sent'[b] = sent[b]
    <2>1. sent' = sent \/ sent' = [sent EXCEPT ![a] = sent[a] + 1]
      BY DEF MarkDispatched
    <2> QED BY <1>1, <1>3, <2>1 DEF Core, TypeOK
  <1>5. \A v \in Workers, t \in Stages : call'[v][t].pc = "done" => call[v][t].pc = "done"
    <2>1. PICK pc \in {"sent", "ambiguous"} : SetCall(w, s, pc, call[w][s].n)
      BY DEF MarkDispatched
    <2> QED BY <2>1 DEF SetCall, Core, TypeOK, Call
  <1>6. \A b \in Admissions : (adm'[b].state = "none") = (adm[b].state = "none")
    BY <1>1, <1>2
  <1>7. \A b \in Admissions : sent'[b] = 0 \/ (sent'[b] = 1 /\ adm'[b].state = "dispatched")
    BY <1>2, <1>4 DEF History
  <1>8. History'
    BY <1>1, <1>5, <1>6, <1>7 DEF History, Admissions
  <1>9. UnknownIsHeld'
    <2> SUFFICES ASSUME NEW b \in Admissions, usage'[b] = "unknown"
                 PROVE  /\ rows'[adm'[b].row].status = "reserved"
                        /\ rows'[adm'[b].row].held
                        /\ rows'[adm'[b].row].expires = "infinity"
      BY DEF UnknownIsHeld
    <2>1. usage[b] = "unknown" /\ adm'[b].row = adm[b].row /\ adm[b].row \in Rows
      BY <1>1, <1>2, RecordedHasRow
    <2> QED BY <2>1 DEF UnknownIsHeld, HoldKept
  <1> QED BY <1>8, <1>9

\* Recording keeps History: an outcome, once stored, is not replaced.
LEMMA RecordAttemptHistory ==
  ASSUME Core, History, UnknownIsHeld, NEW w \in Workers, NEW s \in Stages,
         RecordAttempt(w, s), Core', HoldKept
  PROVE  /\ History' /\ UnknownIsHeld'
         /\ \A t \in Stages : result[t] # 0 /\ usage[<<t, result[t]>>] = "ok" =>
              result'[t] = result[t] /\ usage'[<<t, result[t]>>] = "ok"
  <1> DEFINE r == work[w].row
             n == call[w][s].n
             a == <<s, n>>
  <1>1. PICK o \in Reports(call[w][s].pc) :
          /\ work[w].pc # "idle"
          /\ Recordable(w, s, o)
          /\ \E row \in Recorded(r, o) : rows' = [rows EXCEPT ![r] = [row EXCEPT !.lease = "future"]]
          /\ usage' = [usage EXCEPT ![a] = o]
          /\ result' = IF o \in Completed /\ result[s] = 0 THEN [result EXCEPT ![s] = n] ELSE result
          /\ \E pc \in {"done", "none", "failed", "reconcile"} :
               SetCall(w, s, pc, 0) /\ (pc = "done" => o = "ok")
          /\ UNCHANGED <<last, adm, sent>>
    BY DEF RecordAttempt
  <1>2. /\ o \in Outcomes /\ n \in Attempts /\ a \in Admissions
        /\ r \in 1..last /\ r \in Rows /\ rows[r].status = "reserved" /\ adm[a].row = r
        /\ usage[a] \in {"none", o}
    BY <1>1, ConstantsAssumption
    DEF Reports, Core, TypeOK, WorkersOK, Admissions, Recordable, Claimant
  <1>3. /\ usage'[a] = o
        /\ \A b \in Admissions \ {a} : usage'[b] = usage[b]
        /\ \A b \in Admissions : usage[b] # "none" => usage'[b] = usage[b]
    BY <1>1, <1>2 DEF Core, TypeOK
  <1>4. adm[a].state # "none"
    BY <1>2 DEF Core, AdmissionsOK
  <1>5. /\ result'[s] = IF o \in Completed /\ result[s] = 0 THEN n ELSE result[s]
        /\ \A t \in Stages \ {s} : result'[t] = result[t]
    BY <1>1 DEF Core, TypeOK
  <1>6. o = "ok" => result'[s] = n
    <2>1. CASE result[s] = 0
      BY <1>5, <2>1 DEF Completed
    <2>2. CASE result[s] # 0 /\ o = "ok"
      <3>0. result[s] \in 0..2
        BY DEF Core, TypeOK
      <3>1. result[s] \in Attempts /\ usage[<<s, result[s]>>] \in Completed
        <4>1. result[s] \in Attempts
          BY <2>2, <3>0
        <4>2. usage[<<s, result[s]>>] \in Completed
          BY <2>2 DEF History
        <4> QED BY <4>1, <4>2
      <3>2. <<s, 1>> \in Admissions /\ <<s, 2>> \in Admissions
        BY DEF Admissions
      <3>3. adm[<<s, result[s]>>].state # "none"
        BY <3>1, <3>2 DEF Core, AdmissionsOK, Completed
      <3>4. result[s] = 1 => adm[<<s, 2>>].state = "none"
        BY <3>1 DEF History, Completed
      <3>5. n = 1 => adm[<<s, 2>>].state = "none"
        BY <1>2, <2>2 DEF History
      <3> QED BY <1>2, <1>4, <1>5, <3>1, <3>3, <3>4, <3>5
    <2> QED BY <2>1, <2>2
  <1>7. \A t \in Stages : result[t] # 0 /\ usage[<<t, result[t]>>] = "ok" =>
          result'[t] = result[t] /\ usage'[<<t, result[t]>>] = "ok"
    BY <1>3, <1>5 DEF Core, TypeOK, Admissions
  <1>8. \A t \in Stages : result'[t] # 0 => usage'[<<t, result'[t]>>] \in Completed
    <2> SUFFICES ASSUME NEW t \in Stages, result'[t] # 0
                 PROVE  usage'[<<t, result'[t]>>] \in Completed
      OBVIOUS
    <2>1. CASE result[t] # 0
      <3>1. result'[t] = result[t] /\ <<t, result[t]>> \in Admissions
        BY <1>5, <2>1 DEF Core, TypeOK, Admissions
      <3>2. usage[<<t, result[t]>>] \in Completed
        BY <2>1 DEF History
      <3> QED BY <1>3, <3>1, <3>2 DEF Completed
    <2>2. CASE result[t] = 0
      BY <1>3, <1>5, <2>2
    <2> QED BY <2>1, <2>2
  <1>9. \A v \in Workers, t \in Stages :
          call'[v][t].pc = "done" => \/ call[v][t].pc = "done"
                                     \/ t = s /\ o = "ok"
    <2>1. PICK pc \in {"done", "none", "failed", "reconcile"} :
            SetCall(w, s, pc, 0) /\ (pc = "done" => o = "ok")
      BY <1>1
    <2> QED BY <2>1 DEF SetCall, Core, TypeOK, Call
  <1>10. \A v \in Workers, t \in Stages :
           call'[v][t].pc = "done" => result'[t] # 0 /\ usage'[<<t, result'[t]>>] = "ok"
    <2> SUFFICES ASSUME NEW v \in Workers, NEW t \in Stages, call'[v][t].pc = "done"
                 PROVE  result'[t] # 0 /\ usage'[<<t, result'[t]>>] = "ok"
      OBVIOUS
    <2>1. CASE call[v][t].pc = "done"
      BY <1>7, <2>1 DEF History
    <2>2. CASE t = s /\ o = "ok"
      BY <1>2, <1>3, <1>6, <2>2
    <2> QED BY <1>9, <2>1, <2>2
  <1>11. \A t \in Stages : adm'[<<t, 2>>].state # "none" => usage'[<<t, 1>>] = "retryable"
    <2> SUFFICES ASSUME NEW t \in Stages, adm'[<<t, 2>>].state # "none"
                 PROVE  usage'[<<t, 1>>] = "retryable"
      OBVIOUS
    <2>1. <<t, 1>> \in Admissions
      BY DEF Admissions
    <2>2. adm[<<t, 2>>].state # "none"
      BY <1>1
    <2>3. usage[<<t, 1>>] = "retryable"
      BY <2>2 DEF History
    <2> QED BY <1>3, <2>1, <2>3
  <1>12. History'
    BY <1>1, <1>8, <1>10, <1>11 DEF History
  <1>13. UnknownIsHeld'
    <2> SUFFICES ASSUME NEW b \in Admissions, usage'[b] = "unknown"
                 PROVE  rows'[adm'[b].row].held /\ adm'[b].row \in Rows
      BY DEF UnknownIsHeld, Core, RowsOK
    <2>1. adm'[b].row = adm[b].row
      BY <1>1
    <2>2. CASE usage[b] = "unknown"
      <3>1. adm[b].row \in Rows /\ rows[adm[b].row].held
        BY <2>2, ConstantsAssumption DEF UnknownIsHeld, Core, TypeOK, AdmissionsOK, Admission
      <3> QED BY <2>1, <3>1 DEF HoldKept
    <2>3. CASE usage[b] # "unknown"
      <3>1. b = a /\ o = "unknown"
        BY <1>2, <1>3, <2>3
      <3>2. PICK row \in Recorded(r, o) : rows' = [rows EXCEPT ![r] = [row EXCEPT !.lease = "future"]]
        BY <1>1
      <3>3. row \in Reservation /\ row.held
        BY <1>2, <3>1, <3>2, RecordedRow
      <3>4. [row EXCEPT !.lease = "future"].held
        BY <3>3 DEF Reservation
      <3> QED BY <1>2, <2>1, <3>1, <3>2, <3>4 DEF Core, TypeOK
    <2> QED BY <2>2, <2>3
  <1> QED BY <1>7, <1>12, <1>13

-----------------------------------------------------------------------------
(* The charge *)

\* A usable stored result stays the result of its stage.
ResultsKept ==
  \A s \in Stages : result[s] # 0 /\ usage[<<s, result[s]>>] = "ok" =>
    result'[s] = result[s] /\ usage'[<<s, result[s]>>] = "ok"

\* Steps that settle nothing keep the charge.
LEMMA ChargesKept ==
  ASSUME Charges, ResultsKept, charged' = charged, last' = last \/ charged = 0,
         \A r \in Rows : rows'[r].status = "settled" <=> rows[r].status = "settled"
  PROVE  Charges'
  <1>1. \A r \in Rows : rows'[r].status = "settled" <=> charged' = r
    BY DEF Charges
  <1>2. charged' # 0 => charged' = last'
    BY DEF Charges
  <1>3. ASSUME charged' # 0, NEW s \in DraftStages
        PROVE  result'[s] # 0 /\ usage'[<<s, result'[s]>>] = "ok"
    <2>1. result[s] # 0 /\ usage[<<s, result[s]>>] = "ok" /\ s \in Stages
      BY <1>3, ConstantsAssumption DEF Charges
    <2> QED BY <2>1 DEF ResultsKept
  <1> QED BY <1>1, <1>2, <1>3 DEF Charges

\* Only a settlement of the live reservation charges, for the results that
\* its worker has seen.
LEMMA SettleCharges ==
  ASSUME Core, History, Charges, NEW w \in Workers, Settle(w)
  PROVE  Charges'
  <1> DEFINE r == work[w].row
             new == [rows[r] EXCEPT !.status = "settled"]
  <1>1. ResultsKept /\ last' = last /\ UNCHANGED <<usage, result>>
    BY DEF Settle, ResultsKept
  <1>2. CASE UNCHANGED <<rows, charged>>
    BY <1>1, <1>2, ChargesKept
  <1>3. CASE ~UNCHANGED <<rows, charged>>
    <2>1. /\ rows[r].status = "reserved" /\ charged' = IF charged = 0 THEN r ELSE charged
          /\ \E row \in HoldTrigger(r, rows[r], new, "none") : rows' = [rows EXCEPT ![r] = row]
      BY <1>3 DEF Settle
    <2>2. r \in 1..last /\ r = last /\ r \in Rows /\ rows[r] \in Reservation
      BY <2>1, ConstantsAssumption DEF Core, TypeOK, WorkersOK, RowsOK, Settle
    <2>3. new.status = "settled"
      BY <2>2 DEF Reservation
    <2>4. charged = 0 /\ charged' = r
      BY <2>1, <2>2 DEF Charges
    <2> HIDE DEF new
    <2>5. PICK row \in HoldTrigger(r, rows[r], new, "none") : rows' = [rows EXCEPT ![r] = row]
      BY <2>1
    <2>6. row = new
      BY <2>1, <2>3, <2>5 DEF HoldTrigger, HeldUpdate
    <2>7. rows'[r].status = "settled" /\ \A q \in Rows \ {r} : rows'[q] = rows[q]
      BY <2>2, <2>3, <2>5, <2>6 DEF Core, TypeOK
    <2>8. \A q \in Rows : rows'[q].status = "settled" <=> charged' = q
      BY <2>2, <2>4, <2>7 DEF Charges
    <2>9. \A s \in DraftStages : result[s] # 0 /\ usage[<<s, result[s]>>] = "ok"
      BY ConstantsAssumption DEF Settle, History
    <2> QED BY <1>1, <2>2, <2>4, <2>8, <2>9 DEF Charges
  <1> QED BY <1>2, <1>3

\* A new reservation attempt starts only after the latest one was closed
\* without a charge.
LEMMA AdmitCharges ==
  ASSUME Core, Charges, NEW w \in Workers, NEW stored,
         Admit(w, stored)
  PROVE  Charges'
  <1>1. /\ charged = 0 /\ charged' = charged /\ UNCHANGED <<usage, result>>
        /\ last > 0 => stored.status # "settled"
    BY DEF Admit
  <1>2. ASSUME NEW r \in Rows PROVE rows'[r].status # "settled"
    <2>1. rows[r].status # "settled" /\ r \in 1..MaxRows
      BY <1>1, ConstantsAssumption DEF Charges
    <2> QED BY <1>1, <2>1 DEF Admit, JustClaimed
  <1>3. ResultsKept
    BY <1>1 DEF ResultsKept
  <1> QED BY <1>1, <1>2, <1>3, ChargesKept DEF Charges

\* Replacing the status of one row by one that is settled in neither state.
LEMMA RowCharges ==
  ASSUME Core, Charges, ResultsKept, NEW r \in 1..last, NEW row,
         rows' = [rows EXCEPT ![r] = row], UNCHANGED <<last, charged>>,
         row.status = "settled" <=> rows[r].status = "settled"
  PROVE  Charges'
  <1>1. rows \in [Rows -> Reservation] /\ r \in Rows
    BY ConstantsAssumption DEF Core, TypeOK
  <1> QED BY <1>1, ChargesKept

\* A reserve call keeps Charges: a settled reservation is never replaced.
LEMMA ReserveCharges ==
  ASSUME Core, Charges, NEW w \in Workers, NEW late \in BOOLEAN, Reserve(w, late)
  PROVE  Charges'
  <1>1. ASSUME NEW stored, Admit(w, stored) PROVE Charges'
    BY <1>1, AdmitCharges
  <1>2. ASSUME last > 0, NEW row \in Swept(late), row.status = "reserved", Reclaim(w, row)
        PROVE  Charges'
    <2>1. rows[last].status = "reserved" /\ last \in 1..last
      BY <1>2, SweptRow DEF Core, TypeOK
    <2>2. JustClaimed(row.period).status = "reserved"
      BY DEF JustClaimed
    <2>3. /\ rows' = [rows EXCEPT ![last] = JustClaimed(row.period)]
          /\ UNCHANGED <<last, charged>> /\ ResultsKept
      BY <1>2 DEF Reclaim, ResultsKept
    <2> QED BY <2>1, <2>2, <2>3, RowCharges, ZenonT(60)
  <1>3. ASSUME last > 0, NEW row \in Swept(late), row.status = "reserved",
               NEW unresolved, Observe(row, unresolved)
        PROVE  Charges'
    <2> DEFINE stored == IF unresolved THEN Hold(row) ELSE row
    <2>1. rows[last].status = "reserved" /\ last \in 1..last /\ row \in Reservation
      BY <1>3, SweptRow DEF Core, TypeOK
    <2>2. stored.status = "reserved"
      BY <1>3, <2>1, HoldFields
    <2>3. /\ rows' = [rows EXCEPT ![last] = stored]
          /\ UNCHANGED <<last, charged>> /\ ResultsKept
      BY <1>3 DEF Observe, ResultsKept
    <2> HIDE DEF stored
    <2> QED BY <2>1, <2>2, <2>3, RowCharges, ZenonT(60)
  <1> QED BY <1>1, <1>2, <1>3 DEF Reserve

\* Moving a deadline of a row moves no status.
LEMMA DeadlineCharges ==
  ASSUME rows \in [Rows -> Reservation], NEW r, NEW v, NEW q \in Rows,
         \/ rows' = rows
         \/ rows' = [rows EXCEPT ![r].lease = v] \/ rows' = [rows EXCEPT ![r].expires = v]
  PROVE  rows'[q].status = rows[q].status
  <1>1. CASE rows' = rows
    BY <1>1
  <1>2. rows[q] \in Reservation
    OBVIOUS
  <1>3. CASE rows' = [rows EXCEPT ![r].lease = v]
    <2>1. rows'[q] = IF q = r THEN [rows[q] EXCEPT !.lease = v] ELSE rows[q]
      BY <1>3
    <2> QED BY <1>2, <2>1 DEF Reservation
  <1>4. CASE rows' = [rows EXCEPT ![r].expires = v]
    <2>1. rows'[q] = IF q = r THEN [rows[q] EXCEPT !.expires = v] ELSE rows[q]
      BY <1>4
    <2> QED BY <1>2, <2>1 DEF Reservation
  <1> QED BY <1>1, <1>3, <1>4

\* Every other step leaves the set of settled rows alone.
LEMMA OtherCharges ==
  ASSUME Core, History, Charges, UnknownIsHeld, Core', HoldKept,
         \/ \E w \in Workers :
              \/ \E code \in {"none", "reconcile"} : Release(w, code)
              \/ Exit(w)
              \/ \E s \in Stages : \/ ReadCheckpoint(w, s) \/ MarkDispatched(w, s)
                                   \/ DispatchFails(w, s) \/ RecordAttempt(w, s)
                                   \/ RecordRejected(w, s)
         \/ SweepByOtherRequest
         \/ Elapse
  PROVE  Charges'
  <1>0. rows \in [Rows -> Reservation]
    BY DEF Core, TypeOK
  <1>1. ASSUME NEW w \in Workers, NEW code, Release(w, code) PROVE Charges'
    <2> DEFINE r == work[w].row
    <2>1. ResultsKept /\ UNCHANGED <<last, charged>> /\ r \in 1..last
      BY <1>1 DEF Release, ResultsKept, Core, WorkersOK
    <2>2. CASE UNCHANGED rows
      BY <2>1, <2>2, ChargesKept
    <2>3. CASE ~UNCHANGED rows
      <3>1. rows[r].status = "reserved"
        BY <1>1, <2>3 DEF Release
      <3>2. PICK row \in HoldTrigger(r, rows[r], [rows[r] EXCEPT !.status = "released"], code) :
              rows' = [rows EXCEPT ![r] = row]
        BY <1>1, <2>3 DEF Release
      <3>3. row.status # "settled"
        BY <2>1, <3>1, <3>2, ClosedRow, ZenonT(60)
      <3> QED BY <2>1, <3>1, <3>2, <3>3, RowCharges, ZenonT(60)
    <2> QED BY <2>2, <2>3
  <1>2. ASSUME NEW w \in Workers,
               Exit(w) \/ \E s \in Stages : DispatchFails(w, s) \/ RecordRejected(w, s)
        PROVE  Charges'
    <2>1. ResultsKept /\ UNCHANGED <<last, charged, rows>>
      BY <1>2 DEF Exit, DispatchFails, RecordRejected, ResultsKept
    <2> QED BY <2>1, ChargesKept
  <1>3. ASSUME NEW w \in Workers, NEW s \in Stages, ReadCheckpoint(w, s) \/ MarkDispatched(w, s)
        PROVE  Charges'
    <2> DEFINE r == work[w].row
    <2>1. ResultsKept /\ UNCHANGED <<last, charged>> /\ r \in 1..last
      BY <1>3 DEF ReadCheckpoint, MarkDispatched, ResultsKept, Core, WorkersOK
    <2>2. rows' = rows \/ rows' = [rows EXCEPT ![r].lease = "future"]
      BY <1>3 DEF ReadCheckpoint, MarkDispatched
    <2>3. ASSUME NEW q \in Rows PROVE rows'[q].status = rows[q].status
      <3>1. CASE rows' = rows
        BY <3>1
      <3>2. CASE rows' = [rows EXCEPT ![r].lease = "future"]
        BY <1>0, <3>2, DeadlineCharges
      <3> QED BY <2>2, <3>1, <3>2
    <2> QED BY <2>1, <2>3, ChargesKept
  <1>4. ASSUME NEW w \in Workers, NEW s \in Stages, RecordAttempt(w, s)
        PROVE  Charges'
    <2> DEFINE r == work[w].row
    <2>1. ResultsKept
      BY <1>4, RecordAttemptHistory DEF ResultsKept
    <2>2. PICK o \in Reports(call[w][s].pc) :
            /\ Recordable(w, s, o)
            /\ \E row \in Recorded(r, o) : rows' = [rows EXCEPT ![r] = [row EXCEPT !.lease = "future"]]
      BY <1>4 DEF RecordAttempt
    <2>3. r \in 1..last /\ rows[r].status = "reserved" /\ o \in Outcomes /\ UNCHANGED <<last, charged>>
      BY <1>4, <2>2 DEF RecordAttempt, Recordable, Claimant, Reports, Core, WorkersOK
    <2>4. PICK row \in Recorded(r, o) : rows' = [rows EXCEPT ![r] = [row EXCEPT !.lease = "future"]]
      BY <2>2
    <2>5. row \in Reservation /\ row.status = "reserved"
      BY <2>3, <2>4, RecordedRow
    <2>6. [row EXCEPT !.lease = "future"].status = "reserved"
      BY <2>5 DEF Reservation
    <2> QED BY <2>1, <2>3, <2>4, <2>6, RowCharges, ZenonT(60)
  <1>5. CASE SweepByOtherRequest
    <2>1. PICK row \in Swept(FALSE) : row # rows[last] /\ rows' = [rows EXCEPT ![last] = row]
      BY <1>5 DEF SweepByOtherRequest
    <2>2. last > 0 /\ last \in 1..last /\ UNCHANGED <<last, charged>> /\ ResultsKept
      BY <1>5 DEF SweepByOtherRequest, Core, TypeOK, ResultsKept
    <2>3. row.status # "settled" /\ rows[last].status = "reserved"
      BY <2>1, <2>2, SweptRow DEF Swept
    <2> QED BY <2>1, <2>2, <2>3, RowCharges, ZenonT(60)
  <1>6. CASE Elapse
    <2>1. ResultsKept /\ UNCHANGED <<last, charged>>
      BY <1>6 DEF Elapse, ResultsKept
    <2>2. \/ rows' = rows \/ rows' = [rows EXCEPT ![last].expires = "past"]
          \/ rows' = [rows EXCEPT ![last].lease = "past"]
      BY <1>6 DEF Elapse
    <2>3. ASSUME NEW q \in Rows PROVE rows'[q].status = rows[q].status
      <3>1. CASE rows' = rows
        BY <3>1
      <3>2. CASE rows' = [rows EXCEPT ![last].expires = "past"]
        BY <1>0, <3>2, DeadlineCharges
      <3>3. CASE rows' = [rows EXCEPT ![last].lease = "past"]
        BY <1>0, <3>3, DeadlineCharges
      <3> QED BY <2>2, <3>1, <3>2, <3>3
    <2> QED BY <2>1, <2>3, ChargesKept
  <1> QED BY <1>1, <1>2, <1>3, <1>4, <1>5, <1>6

-----------------------------------------------------------------------------
(* One repair per section *)

\* Dispatched admissions stay dispatched under their reservation, and only
\* MarkDispatched adds one.
LEMMA RepairStep ==
  ASSUME Core, OneRepairPerSection, Next
  PROVE  OneRepairPerSection'
  <1>1. ASSUME \A a \in Admissions :
                 adm'[a].state = "dispatched" => /\ adm[a].state = "dispatched"
                                                 /\ adm'[a].row = adm[a].row
        PROVE  OneRepairPerSection'
    BY <1>1 DEF OneRepairPerSection
  <1>2. ASSUME NEW w \in Workers, NEW s \in Stages, MarkDispatched(w, s)
        PROVE  OneRepairPerSection'
    <2> DEFINE m == <<s, call[w][s].n>>
    <2>1. /\ m \in Admissions /\ adm[m].row = work[w].row /\ adm'[m].row = adm[m].row
          /\ \A b \in Admissions \ {m} : adm'[b] = adm[b]
      BY <1>2 DEF MarkDispatched, Dispatchable, Core, TypeOK, WorkersOK, Admissions
    <2>2. ~RepairTaken(s, work[w].row)
      BY <1>2 DEF MarkDispatched, WithinBudget
    <2>3. ASSUME NEW b \in Admissions \ {m}, adm[b].state = "dispatched",
                 adm[b].row = adm[m].row, {s, b[1]} \cap DraftStages = {},
                 SectionOf[s] = SectionOf[b[1]]
          PROVE  b[1] = s
      <3>1. b[1] \in Stages /\ b[2] \in Attempts /\ b = <<b[1], b[2]>>
        BY DEF Admissions
      <3> QED BY <2>1, <2>2, <2>3, <3>1 DEF RepairTaken
    <2> SUFFICES ASSUME NEW a \in Admissions, NEW b \in Admissions,
                        adm'[a].state = "dispatched", adm'[b].state = "dispatched",
                        adm'[a].row = adm'[b].row, {a[1], b[1]} \cap DraftStages = {},
                        SectionOf[a[1]] = SectionOf[b[1]]
                 PROVE  a[1] = b[1]
      BY DEF OneRepairPerSection
    <2>4. m[1] = s
      OBVIOUS
    <2>5. CASE a = m /\ b # m
      BY <2>1, <2>3, <2>4, <2>5
    <2>6. CASE b = m /\ a # m
      BY <2>1, <2>3, <2>4, <2>6
    <2>7. CASE a # m /\ b # m
      BY <2>1, <2>7 DEF OneRepairPerSection
    <2> QED BY <2>5, <2>6, <2>7
  <1>3. ASSUME NEW w \in Workers, NEW s \in Stages, ReadCheckpoint(w, s)
        PROVE  OneRepairPerSection'
    <2>1. \/ adm' = adm
          \/ \E n, row : adm' = [adm EXCEPT ![<<s, n>>] =
               [state |-> "prepared", row |-> row, token |-> work[w].token, lease |-> "future"]]
      BY <1>3 DEF ReadCheckpoint
    <2>2. CASE adm' = adm
      BY <1>1, <2>2
    <2>3. ASSUME NEW a, NEW row,
                 adm' = [adm EXCEPT ![a] =
                   [state |-> "prepared", row |-> row, token |-> work[w].token, lease |-> "future"]]
          PROVE  OneRepairPerSection'
      <3> SUFFICES ASSUME NEW b \in Admissions, adm'[b].state = "dispatched"
                   PROVE  adm'[b] = adm[b]
        BY <1>1
      <3>1. CASE b = a
        BY <2>3, <3>1 DEF Core, TypeOK
      <3>2. CASE b # a
        BY <2>3, <3>2 DEF Core, TypeOK
      <3> QED BY <3>1, <3>2
    <2> QED BY <2>1, <2>2, <2>3
  <1>4. ASSUME NEW w \in Workers, NEW s \in Stages, RecordAttempt(w, s)
        PROVE  OneRepairPerSection'
    BY <1>1, <1>4 DEF RecordAttempt
  <1>5. CASE QuietNext
    BY <1>1, <1>5, QuietActions DEF Quiet
  <1> QED BY <1>2, <1>3, <1>4, <1>5 DEF Next, QuietNext

-----------------------------------------------------------------------------
(* The inductive invariant as a whole *)

IInv == Core /\ History /\ Charges /\ UnknownIsHeld /\ OneRepairPerSection

\* The inductive invariant holds initially.
LEMMA InitIInv == Init => IInv
  <1> SUFFICES ASSUME Init PROVE IInv
    OBVIOUS
  <1>1. Core
    BY CoreInit
  <1>2. History
    BY DEF Init, History, Admissions, NoAdmission, NoCall
  <1>3. Charges
    BY DEF Init, Charges, AbsentRow
  <1>4. UnknownIsHeld /\ OneRepairPerSection
    BY DEF Init, UnknownIsHeld, OneRepairPerSection, NoAdmission
  <1> QED BY <1>1, <1>2, <1>3, <1>4 DEF IInv

\* Every step keeps the inductive invariant.
LEMMA StepIInv ==
  ASSUME IInv, [Next]_vars
  PROVE  IInv'
  <1>1. Core' /\ HoldKept
    BY CoreStep, CoreStutter DEF IInv
  <1>2. CASE UNCHANGED vars
    BY <1>1, <1>2 DEF vars, IInv, History, Charges, UnknownIsHeld, OneRepairPerSection
  <1>3. CASE Next
    <2>1. OneRepairPerSection'
      BY <1>3, RepairStep DEF IInv
    <2>2. History' /\ UnknownIsHeld'
      <3>1. CASE QuietNext
        BY <1>1, <3>1, QuietActions, QuietHistory DEF IInv
      <3>2. ASSUME NEW w \in Workers, NEW s \in Stages,
                   ReadCheckpoint(w, s) \/ MarkDispatched(w, s) \/ RecordAttempt(w, s)
            PROVE  History' /\ UnknownIsHeld'
        BY <1>1, <3>2, ReadCheckpointHistory, MarkDispatchedHistory, RecordAttemptHistory DEF IInv
      <3> QED BY <1>3, <3>1, <3>2 DEF Next, QuietNext
    <2>3. Charges'
      <3>1. ASSUME NEW w \in Workers, Settle(w) PROVE Charges'
        BY <3>1, SettleCharges DEF IInv
      <3>2. ASSUME NEW w \in Workers, NEW late \in BOOLEAN, Reserve(w, late) PROVE Charges'
        BY <3>2, ReserveCharges DEF IInv
      <3> QED BY <1>1, <1>3, <3>1, <3>2, OtherCharges DEF Next, IInv
    <2> QED BY <1>1, <2>1, <2>2, <2>3 DEF IInv
  <1> QED BY <1>2, <1>3

\* The inductive invariant holds throughout.
THEOREM Invariant == Spec => []IInv
  BY InitIInv, StepIInv, PTL DEF Spec

-----------------------------------------------------------------------------
(* The failure budget: what is charged and what may still be *)

Repaired == {SectionOf[s] : s \in Stages \ DraftStages}

\* Attempts under reservation r that the provider has and nobody has recorded.
InFlight(r) ==
  {a \in Admissions : adm[a].row = r /\ adm[a].state = "dispatched" /\ usage[a] = "none"}

\* Attempts that count against the budget of r, or may still come to.
Chargeable(r) == Failures(r) \cup InFlight(r)

\* Only a request that was sent can have failed.
FailedWasSent ==
  \A a \in Admissions : usage[a] \in {"retryable", "failed"} => adm[a].state = "dispatched"

ChargeableBounded ==
  \A r \in Rows :
    Cardinality(Chargeable(r)) <= 1 + Cardinality(DraftStages) + Cardinality(Repaired)

LEMMA StagesFinite ==
  ASSUME IsFiniteSet(Stages)
  PROVE  /\ IsFiniteSet(Admissions) /\ IsFiniteSet(DraftStages) /\ IsFiniteSet(Repaired)
         /\ Cardinality(DraftStages) \in Nat /\ Cardinality(Repaired) \in Nat
  <1>1. IsFiniteSet(Attempts)
    <2>1. IsFiniteSet({1}) /\ IsFiniteSet({1} \cup {2})
      BY FS_Singleton, FS_AddElement
    <2>2. Attempts = {1} \cup {2}
      OBVIOUS
    <2> QED BY <2>1, <2>2
  <1>2. IsFiniteSet(Admissions)
    BY <1>1, FS_Product DEF Admissions
  <1>3. Repaired \in SUBSET Stages /\ DraftStages \in SUBSET Stages
    BY ConstantsAssumption DEF Repaired
  <1> QED BY <1>2, <1>3, FS_Subset, FS_CardinalityType

\* Attempts of different stages, with at most one repair stage of a section.
LEMMA DistinctStages ==
  ASSUME IsFiniteSet(Stages), NEW S \in SUBSET Admissions,
         \A a, b \in S : a[1] = b[1] => a = b,
         \A a, b \in S : /\ {a[1], b[1]} \cap DraftStages = {}
                         /\ SectionOf[a[1]] = SectionOf[b[1]]
                         => a[1] = b[1]
  PROVE  IsFiniteSet(S) /\ Cardinality(S) <= Cardinality(DraftStages) + Cardinality(Repaired)
  <1> DEFINE D == {a \in S : a[1] \in DraftStages}
             R == {a \in S : a[1] \notin DraftStages}
             f == [a \in D |-> a[1]]
             g == [a \in R |-> SectionOf[a[1]]]
  <1>1. /\ IsFiniteSet(DraftStages) /\ IsFiniteSet(Repaired)
        /\ Cardinality(DraftStages) \in Nat /\ Cardinality(Repaired) \in Nat
    BY StagesFinite
  <1>2. f \in Injection(D, DraftStages)
    BY DEF Injection, IsInjective
  <1>3. g \in Injection(R, Repaired)
    <2>1. \A a \in R : a[1] \in Stages \ DraftStages
      BY DEF Admissions
    <2>2. g \in [R -> Repaired]
      BY <2>1 DEF Repaired
    <2>3. \A a, b \in R : g[a] = g[b] => a = b
      OBVIOUS
    <2> QED BY <2>2, <2>3 DEF Injection, IsInjective
  <1>4. IsFiniteSet(D) /\ Cardinality(D) <= Cardinality(DraftStages) /\ Cardinality(D) \in Nat
    BY <1>1, <1>2, FS_Injection, FS_CardinalityType
  <1>5. IsFiniteSet(R) /\ Cardinality(R) <= Cardinality(Repaired) /\ Cardinality(R) \in Nat
    BY <1>1, <1>3, FS_Injection, FS_CardinalityType
  <1> HIDE DEF f, g
  <1>6. S = D \cup R /\ D \cap R = {}
    OBVIOUS
  <1>7. IsFiniteSet(D \cup R) /\ Cardinality(D \cup R) = Cardinality(D) + Cardinality(R) - Cardinality(D \cap R)
    BY <1>4, <1>5, FS_Union
  <1>8. Cardinality(D \cap R) = 0
    BY <1>6, FS_EmptySet
  <1> HIDE DEF D, R
  <1> QED BY <1>1, <1>4, <1>5, <1>6, <1>7, <1>8

\* Sending one more attempt: at most one failure was charged until then, and
\* no two attempts in flight are of one stage, or repair one section.
LEMMA DispatchChargeable ==
  ASSUME IsFiniteSet(Stages), IInv, IInv', FailedWasSent, ChargeableBounded,
         NEW w \in Workers, NEW s \in Stages, MarkDispatched(w, s)
  PROVE  ChargeableBounded'
  <1> DEFINE m == <<s, call[w][s].n>>
             q == work[w].row
  <1>1. /\ m \in Admissions /\ adm[m].row = q /\ adm'[m].row = q /\ adm[m].state = "prepared"
        /\ usage' = usage
        /\ \A b \in Admissions \ {m} : adm'[b] = adm[b]
    BY DEF MarkDispatched, Dispatchable, IInv, Core, TypeOK, WorkersOK, Admissions
  <1>2. usage[m] \notin {"retryable", "failed"}
    BY <1>1 DEF FailedWasSent
  <1> HIDE DEF m
  <1> SUFFICES ASSUME NEW r \in Rows
               PROVE  Cardinality(Chargeable(r)') <= 1 + Cardinality(DraftStages) + Cardinality(Repaired)
    BY DEF ChargeableBounded
  <1>3. Failures(r)' \subseteq Failures(r)
    BY <1>1, <1>2 DEF Failures
  <1>4. /\ IsFiniteSet(Admissions)
        /\ Cardinality(DraftStages) \in Nat /\ Cardinality(Repaired) \in Nat
    BY StagesFinite
  <1>5. CASE r # q
    <2>1. Chargeable(r)' \subseteq Chargeable(r)
      BY <1>1, <1>3, <1>5 DEF Chargeable, InFlight
    <2>2. Chargeable(r) \in SUBSET Admissions
      BY DEF Chargeable, Failures, InFlight
    <2>3. /\ IsFiniteSet(Chargeable(r)) /\ Cardinality(Chargeable(r)) \in Nat
          /\ Cardinality(Chargeable(r)') <= Cardinality(Chargeable(r))
          /\ Cardinality(Chargeable(r)') \in Nat
      BY <1>4, <2>1, <2>2, FS_Subset, FS_CardinalityType
    <2> QED BY <1>4, <2>3 DEF ChargeableBounded
  <1>6. CASE r = q
    <2> DEFINE F == Failures(r)'
               I == InFlight(r)'
    <2>1. IsFiniteSet(F) /\ Cardinality(F) \in Nat /\ Cardinality(F) <= 1
      <3>1. Failures(r) \in SUBSET Admissions
        BY DEF Failures
      <3>2. /\ IsFiniteSet(Failures(r)) /\ Cardinality(Failures(r)) \in Nat
            /\ IsFiniteSet(F) /\ Cardinality(F) \in Nat /\ Cardinality(F) <= Cardinality(Failures(r))
        BY <1>3, <1>4, <3>1, FS_Subset, FS_CardinalityType
      <3>3. ~(Cardinality(Failures(r)) >= 2)
        BY <1>6 DEF MarkDispatched, WithinBudget, BudgetExhausted
      <3> QED BY <3>2, <3>3
    <2>2. IsFiniteSet(I) /\ Cardinality(I) <= Cardinality(DraftStages) + Cardinality(Repaired)
      <3>1. I \in SUBSET Admissions
        BY DEF InFlight
      <3>2. ASSUME NEW a \in I, NEW b \in I, a[1] = b[1] PROVE a = b
        <4>1. /\ a[1] \in Stages /\ a[2] \in {1, 2} /\ a = <<a[1], a[2]>>
              /\ b[2] \in {1, 2} /\ b = <<b[1], b[2]>>
              /\ usage'[a] = "none" /\ usage'[b] = "none"
              /\ adm'[a].state # "none" /\ adm'[b].state # "none"
          BY <3>1 DEF InFlight, Admissions
        <4>2. adm'[<<a[1], 2>>].state # "none" => usage'[<<a[1], 1>>] = "retryable"
          BY <4>1 DEF IInv, History
        <4> QED BY <3>2, <4>1, <4>2
      <3>3. ASSUME NEW a \in I, NEW b \in I, {a[1], b[1]} \cap DraftStages = {},
                   SectionOf[a[1]] = SectionOf[b[1]]
            PROVE  a[1] = b[1]
        BY <3>1, <3>3 DEF InFlight, IInv, OneRepairPerSection
      <3> HIDE DEF I
      <3> QED BY <3>1, <3>2, <3>3, DistinctStages
    <2>3. Chargeable(r)' = F \cup I
      BY DEF Chargeable
    <2> HIDE DEF F, I
    <2>4. /\ Cardinality(F \cup I) = Cardinality(F) + Cardinality(I) - Cardinality(F \cap I)
          /\ Cardinality(I) \in Nat /\ Cardinality(F \cap I) \in Nat
      BY <2>1, <2>2, FS_Union, FS_Intersection, FS_CardinalityType
    <2> QED BY <1>4, <2>1, <2>2, <2>3, <2>4
  <1> QED BY <1>5, <1>6

\* No other step lets an attempt count that did not before.
LEMMA ChargeableStep ==
  ASSUME IsFiniteSet(Stages), IInv, IInv', FailedWasSent, ChargeableBounded, [Next]_vars
  PROVE  FailedWasSent' /\ ChargeableBounded'
  <1>1. ASSUME \A a \in Admissions :
                 /\ adm'[a].state = "dispatched" <=> adm[a].state = "dispatched"
                 /\ adm[a].state = "dispatched" => adm'[a].row = adm[a].row
                 /\ \/ usage'[a] = usage[a]
                    \/ usage[a] = "none" /\ (usage'[a] # "refused" => adm[a].state = "dispatched")
        PROVE  FailedWasSent' /\ ChargeableBounded'
    <2>1. FailedWasSent'
      BY <1>1 DEF FailedWasSent
    <2> SUFFICES ASSUME NEW r \in Rows
                 PROVE  Cardinality(Chargeable(r)') <= 1 + Cardinality(DraftStages) + Cardinality(Repaired)
      BY <2>1 DEF ChargeableBounded
    <2>2. Chargeable(r)' \subseteq Chargeable(r)
      BY <1>1 DEF Chargeable, Failures, InFlight
    <2>3. Chargeable(r) \in SUBSET Admissions
      BY DEF Chargeable, Failures, InFlight
    <2>4. /\ Cardinality(DraftStages) \in Nat /\ Cardinality(Repaired) \in Nat
          /\ Cardinality(Chargeable(r)) \in Nat /\ Cardinality(Chargeable(r)') \in Nat
          /\ Cardinality(Chargeable(r)') <= Cardinality(Chargeable(r))
      BY <2>2, <2>3, StagesFinite, FS_Subset, FS_CardinalityType
    <2> QED BY <2>4 DEF ChargeableBounded
  <1>2. ASSUME NEW w \in Workers, NEW s \in Stages, MarkDispatched(w, s)
        PROVE  FailedWasSent' /\ ChargeableBounded'
    <2>1. FailedWasSent'
      <3> DEFINE m == <<s, call[w][s].n>>
      <3>1. /\ m \in Admissions /\ adm'[m].state = "dispatched" /\ usage' = usage
            /\ \A b \in Admissions \ {m} : adm'[b] = adm[b]
        BY <1>2 DEF MarkDispatched, Dispatchable, IInv, Core, TypeOK, WorkersOK, Admissions
      <3> QED BY <3>1 DEF FailedWasSent
    <2> QED BY <1>2, <2>1, DispatchChargeable
  <1>3. ASSUME NEW w \in Workers, NEW s \in Stages, ReadCheckpoint(w, s)
        PROVE  FailedWasSent' /\ ChargeableBounded'
    <2>1. usage' = usage
      BY <1>3 DEF ReadCheckpoint
    <2>2. \/ adm' = adm
          \/ \E n, row : /\ adm' = [adm EXCEPT ![<<s, n>>] =
                              [state |-> "prepared", row |-> row, token |-> work[w].token, lease |-> "future"]]
                         /\ <<s, n>> \in Admissions => adm[<<s, n>>].state # "dispatched"
      <3>1. ASSUME NEW r, Answers(r, work[w].token, s, "resume")
            PROVE  adm[<<s, LatestAttempt(s)>>].state # "dispatched"
        BY <3>1 DEF Answers
      <3>2. adm[<<s, LatestAttempt(s) + 1>>].state = "none" \/ <<s, LatestAttempt(s) + 1>> \notin Admissions
        BY DEF LatestAttempt, Admissions
      <3> QED BY <1>3, <3>1, <3>2 DEF ReadCheckpoint
    <2>3. CASE adm' = adm
      BY <1>1, <2>1, <2>3
    <2>4. ASSUME NEW a, NEW row, a \in Admissions => adm[a].state # "dispatched",
                 adm' = [adm EXCEPT ![a] =
                   [state |-> "prepared", row |-> row, token |-> work[w].token, lease |-> "future"]]
          PROVE  \A b \in Admissions :
                   /\ adm'[b].state = "dispatched" <=> adm[b].state = "dispatched"
                   /\ adm[b].state = "dispatched" => adm'[b].row = adm[b].row
      BY <2>4 DEF IInv, Core, TypeOK
    <2> QED BY <1>1, <2>1, <2>2, <2>3, <2>4
  <1>4. ASSUME NEW w \in Workers, NEW s \in Stages, RecordAttempt(w, s)
        PROVE  FailedWasSent' /\ ChargeableBounded'
    <2> DEFINE m == <<s, call[w][s].n>>
    <2>1. PICK o : /\ (adm[m].state = "dispatched") <=> (o # "refused")
                   /\ usage[m] \in {"none", o}
                   /\ usage' = [usage EXCEPT ![m] = o]
                   /\ adm' = adm
      BY <1>4 DEF RecordAttempt, Recordable
    <2>2. \A a \in Admissions : \/ usage'[a] = usage[a]
                                \/ usage[a] = "none" /\ (usage'[a] # "refused" => adm[a].state = "dispatched")
      BY <2>1 DEF IInv, Core, TypeOK
    <2> QED BY <1>1, <2>1, <2>2
  <1>5. CASE QuietNext
    BY <1>1, <1>5, QuietActions DEF Quiet, IInv
  <1>6. CASE UNCHANGED vars
    BY <1>1, <1>6 DEF vars
  <1> QED BY <1>2, <1>3, <1>4, <1>5, <1>6 DEF Next, QuietNext

LEMMA ChargeableAlways ==
  ASSUME IsFiniteSet(Stages)
  PROVE  Spec => [](FailedWasSent /\ ChargeableBounded)
  <1>1. Init => FailedWasSent /\ ChargeableBounded
    <2> SUFFICES ASSUME Init PROVE FailedWasSent /\ ChargeableBounded
      OBVIOUS
    <2>1. \A r \in Rows : Chargeable(r) = {}
      BY DEF Init, NoAdmission, Chargeable, Failures, InFlight
    <2>2. FailedWasSent
      BY DEF Init, FailedWasSent
    <2>3. ChargeableBounded
      BY <2>1, StagesFinite, FS_EmptySet DEF ChargeableBounded
    <2> QED BY <2>2, <2>3
  <1>2. IInv /\ IInv' /\ FailedWasSent /\ ChargeableBounded /\ [Next]_vars
          => FailedWasSent' /\ ChargeableBounded'
    BY ChargeableStep
  <1> QED BY <1>1, <1>2, Invariant, PTL DEF Spec

-----------------------------------------------------------------------------
(* What follows for every reachable state *)

\* Types: every variable of every reachable state is in its declared set.
THEOREM TypeCorrect == Spec => []TypeOK
  <1>1. IInv => TypeOK
    BY DEF IInv, Core
  <1> QED BY <1>1, Invariant, PTL

\* A reservation is closed only when every attempt admitted under it has its
\* accounting row, for any number of workers, stages and reservations.
THEOREM ClosedReservationsAreResolved == Spec => []ClosedMeansResolved
  <1>1. IInv => ClosedMeansResolved
    BY DEF IInv, Core, OpenOwned, ClosedMeansResolved
  <1> QED BY <1>1, Invariant, PTL

\* The current execution claim owns every open attempt.
THEOREM CurrentClaimOwnsOpenAttempts == Spec => []ClaimOwnsOpenAttempts
  <1>1. IInv => ClaimOwnsOpenAttempts
    BY DEF IInv, Core, OpenOwned, ClaimOwnsOpenAttempts
  <1> QED BY <1>1, Invariant, PTL

\* No step ends or reclaims a reservation that waits for reconciliation.
THEOREM HoldsAreFinal == Spec => HoldIsFinal
  <1>1. IInv /\ [Next]_vars => [HoldKept]_vars
    BY CoreStep DEF IInv
  <1> QED BY <1>1, Invariant, PTL DEF Spec, HoldIsFinal

\* No admission is sent twice and a second attempt needs a retryable first one.
THEOREM NothingIsRedispatchedBlindly == Spec => []NoBlindRedispatch
  <1>1. IInv => NoBlindRedispatch
    <2>1. IInv => \A a \in Admissions : sent[a] <= 1
      BY DEF IInv, History
    <2>2. IInv => \A s \in Stages : adm[<<s, 2>>].state # "none" => usage[<<s, 1>>] = "retryable"
      BY DEF IInv, History
    <2> QED BY <2>1, <2>2 DEF NoBlindRedispatch
  <1> QED BY <1>1, Invariant, PTL

\* An unknown provider outcome keeps its reservation on hold.
THEOREM UnknownOutcomesAreHeld == Spec => []UnknownIsHeld
  <1>1. IInv => UnknownIsHeld
    BY DEF IInv
  <1> QED BY <1>1, Invariant, PTL

\* One charge per request, for a settled reservation whose draft is complete.
THEOREM SettledDocumentsAreDelivered == Spec => []SettledIsDelivered
  <1>1. IInv => SettledIsDelivered
    BY DEF IInv, Charges, SettledIsDelivered
  <1> QED BY <1>1, Invariant, PTL

\* At most one repair stage of a section reaches the provider.
THEOREM SectionsAreRepairedOnce == Spec => []OneRepairPerSection
  <1>1. IInv => OneRepairPerSection
    BY DEF IInv
  <1> QED BY <1>1, Invariant, PTL

\* However many stages fail together, a reservation is charged at most one
\* failure more than there are stages that can be in flight at once.
THEOREM FailuresStayBounded ==
  ASSUME IsFiniteSet(Stages)
  PROVE  Spec => []FailuresBounded
  <1>1. ChargeableBounded => FailuresBounded
    <2> SUFFICES ASSUME ChargeableBounded, NEW r \in Rows
                 PROVE  Cardinality(Failures(r)) <= 1 + Cardinality(DraftStages) + Cardinality(Repaired)
      BY DEF FailuresBounded, Repaired
    <2>1. Failures(r) \in SUBSET Chargeable(r) /\ Chargeable(r) \in SUBSET Admissions
      BY DEF Chargeable, Failures, InFlight
    <2>2. /\ Cardinality(Failures(r)) <= Cardinality(Chargeable(r))
          /\ Cardinality(Failures(r)) \in Nat /\ Cardinality(Chargeable(r)) \in Nat
          /\ Cardinality(DraftStages) \in Nat /\ Cardinality(Repaired) \in Nat
      BY <2>1, StagesFinite, FS_Subset, FS_CardinalityType
    <2> QED BY <2>2 DEF ChargeableBounded
  <1> QED BY <1>1, ChargeableAlways, PTL
=============================================================================
