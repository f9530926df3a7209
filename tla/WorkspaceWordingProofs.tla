----------------------- MODULE WorkspaceWordingProofs -----------------------
(***************************************************************************)
(* What WorkspaceSave promises the words of a section.  No change that     *)
(* reached the account is lost to another one that set out from the same   *)
(* revision; and a page loses no words to an applied suggestion that the   *)
(* account never held.  Behind the second is that a page has a suggestion  *)
(* only for a section whose words it has read from the account or brought  *)
(* there, and that nobody writes in the section while it has it.           *)
(***************************************************************************)
EXTENDS WorkspaceSaveProofs

-----------------------------------------------------------------------------
(* What the steps of a page change *)


SameWording(p, q) == q.view = p.view /\ q.base = p.base /\ q.seen = p.seen
SameSave(p, q) ==
  q.pending = p.pending /\ q.run = p.run /\ q.sync = p.sync /\ q.scheduled = p.scheduled
SameTed(p, q) == q.ted = p.ted /\ q.id = p.id /\ q.truth = p.truth

LEMMA TargetFits ==
  ASSUME TypeOK, NEW t \in Tabs, tab[t].ted # "none"
  PROVE  tab[t].id \in Asked /\ tab[t].id \in EditIds /\ Target(tab[t]) \in Sections
<1>1. tab[t].id \in Asked
  BY DEF TypeOK
<1> QED
  BY <1>1 DEF TypeOK, Asked, Target, Operations, NoEdit

\* The owner changes section s of the page; a suggestion that goes on is for
\* another section, or for the same words.
LEMMA OwnerPage ==
  ASSUME IInv, NEW t \in Tabs, NEW s \in Sections,
         ToggleLock(t, s) \/ \E w \in Words : Write(t, s, w)
  PROVE  \E q \in Pages :
    /\ OnePage(t, q) /\ typed' # typed /\ q.base = tab[t].base /\ q.seen = tab[t].seen
    /\ q.sync = "idle" /\ q.pending = tab[t].pending /\ q.run.state = tab[t].run.state
    /\ q.truth = None
    /\ q.ted # "none" => /\ tab[t].ted # "none" /\ q.id = tab[t].id
                         /\ q.view[Target(tab[t])].words = tab[t].view[Target(tab[t])].words
<1> DEFINE p == tab[t]
           SameSide(q) == /\ q.base = p.base /\ q.seen = p.seen /\ q.sync = "idle"
                          /\ q.pending = p.pending /\ q.run.state = p.run.state
                          /\ q.truth = None
           Now(x, ted) == [Changing(p, s, x) EXCEPT !.ted = ted]
<1>1. /\ p \in Pages /\ p.view[s] \in Texts /\ tab \in [Tabs -> Pages] /\ typed \in Nat
      /\ p.truth = None
  BY PageFits, NoAnswerYet DEF IInv, FitPage, Pages, Wording, TypeOK, ToggleLock, Write, AtHand
<1>2. ASSUME NEW x \in Texts, NEW ted \in {"none", p.ted}, NEW q, q = Now(x, ted)
      PROVE  /\ q \in Pages /\ SameSide(q) /\ q.ted = ted /\ q.id = p.id
             /\ \A z \in Sections : q.view[z] = IF z = s THEN x ELSE p.view[z]
  <2> DEFINE v == [p.view EXCEPT ![s] = x]
             run == IF p.run.state = "none" THEN p.run ELSE [p.run EXCEPT !.current = FALSE]
  <2>1. v \in Wording /\ \A z \in Sections : v[z] = IF z = s THEN x ELSE p.view[z]
    BY <1>1 DEF Pages, Wording
  <2>2. run \in Runs /\ run.state = p.run.state
    BY <1>1 DEF Pages, Runs, NoRun
  <2>3. q = [p EXCEPT !.view = v, !.sync = "idle", !.scheduled = TRUE, !.run = run, !.ted = ted]
    BY <1>1, <1>2 DEF Changing, Pages
  <2> HIDE DEF v, run
  <2>4. /\ q \in Pages /\ SameSide(q) /\ q.ted = ted /\ q.id = p.id
        /\ q.view = v
    BY <1>1, <2>1, <2>2, <2>3 DEF Pages, SameSide
  <2> QED
    BY <2>1, <2>4
<1>3. \A x, ted : OnePage(t, Now(x, ted)) <=>
        /\ tab' = [tab EXCEPT ![t] = [Changing(p, s, x) EXCEPT !.ted = ted]]
        /\ UNCHANGED <<text, rev, doc, receipts, edit>>
  BY DEF OnePage
<1> HIDE DEF Now, SameSide
<1>4. ASSUME NEW w \in Words, Write(t, s, w)
      PROVE  \E q \in Pages :
               /\ OnePage(t, q) /\ SameSide(q)
               /\ q.ted # "none" => /\ p.ted # "none" /\ q.id = p.id
                                    /\ q.view[Target(p)].words = p.view[Target(p)].words
  <2>1. PICK ted : ted = IF Streams(t, s) THEN "none" ELSE p.ted
    OBVIOUS
  <2>2. PICK q : q = Now(Edited(w), ted)
    OBVIOUS
  <2>3. OnePage(t, q) /\ p.ted \in {"none", "streaming"}
    BY <1>1, <1>3, <1>4, <2>1, <2>2 DEF Write, rows, Changing, AtHand, Pages
  <2>4. /\ q \in Pages /\ SameSide(q) /\ q.ted = ted /\ q.id = p.id
        /\ \A z \in Sections : q.view[z] = IF z = s THEN Edited(w) ELSE p.view[z]
    <3>1. Edited(w) \in Texts /\ ted \in {"none", p.ted}
      BY <2>1, EditedIsText
    <3> QED
      BY <1>2, <2>2, <3>1
  <2>5. q.ted # "none" => p.ted # "none" /\ Target(p) # s /\ Target(p) \in Sections
    BY <2>1, <2>3, <2>4, TargetFits DEF Streams, Target, IInv
  <2> QED
    BY <2>3, <2>4, <2>5
<1>5. ASSUME ToggleLock(t, s)
      PROVE  \E q \in Pages :
               /\ OnePage(t, q) /\ SameSide(q)
               /\ q.ted # "none" => /\ p.ted # "none" /\ q.id = p.id
                                    /\ q.view[Target(p)].words = p.view[Target(p)].words
  <2>1. PICK x : x = [p.view[s] EXCEPT !.status = IF p.view[s].status = "locked"
                                                  THEN "edited" ELSE "locked"]
    OBVIOUS
  <2>2. x \in Texts /\ x.words = p.view[s].words
    BY <1>1, <2>1 DEF Texts
  <2>3. PICK q : q = Now(x, p.ted)
    OBVIOUS
  <2>4. OnePage(t, q)
    <3>1. Now(x, p.ted) = Changing(p, s, x)
      BY <1>1 DEF Now, Changing, Pages
    <3>2. /\ tab' = [tab EXCEPT ![t] = Changing(p, s, x)]
          /\ UNCHANGED <<text, rev, doc, receipts, edit>>
      BY <1>5, <2>1 DEF ToggleLock, rows
    <3> QED
      BY <2>3, <3>1, <3>2 DEF OnePage
  <2>5. /\ q \in Pages /\ SameSide(q) /\ q.ted = p.ted /\ q.id = p.id
        /\ \A z \in Sections : q.view[z] = IF z = s THEN x ELSE p.view[z]
    BY <1>2, <2>2, <2>3
  <2>6. p.ted # "none" => Target(p) \in Sections
    BY TargetFits DEF IInv
  <2> QED
    BY <2>2, <2>4, <2>5, <2>6
<1>6. typed' # typed
  BY <1>1 DEF Write, ToggleLock
<1> QED
  BY <1>4, <1>5, <1>6 DEF SameSide

\* Page m, which owes the account nothing older, sends what it shows, if that
\* is not saved: it becomes page q.
SentFrom(t, m, q) ==
  /\ OnePage(t, q) /\ SameWording(m, q) /\ SameTed(m, q) /\ q.scheduled = m.scheduled
  /\ \/ /\ m.view = m.base /\ q.sync = "saved" /\ q.run = NoRun /\ q.pending = None
        /\ net' = net
     \/ /\ q.sync = "saving" /\ q.pending = Command(m) /\ q.run.state = "sent"
        /\ net' = net \cup {[kind |-> "save", from |-> t, cmd |-> Command(m)]}

LEMMA SentPage ==
  ASSUME NEW t \in Tabs, NEW m \in Pages, m.pending = None, Sent(t, m),
         UNCHANGED <<rows, receipts, edit>>
  PROVE  \E q \in Pages : SentFrom(t, m, q)
<1>1. Command(m) \in Commands
  BY CommandFits
<1>2. CASE Unchanged(m)
  <2> DEFINE q == [m EXCEPT !.sync = "saved", !.run = NoRun]
  <2>1. OnePage(t, q) /\ net' = net
    BY <1>2 DEF Sent, OnePage, rows
  <2>2. /\ q \in Pages /\ SameWording(m, q) /\ SameTed(m, q) /\ q.scheduled = m.scheduled
        /\ q.sync = "saved" /\ q.run = NoRun /\ q.pending = None
    BY DEF Pages, Runs, NoRun, SameWording, SameTed
  <2> HIDE DEF q
  <2> QED
    BY <1>2, <2>1, <2>2 DEF SentFrom, Unchanged
<1>3. CASE ~Unchanged(m)
  <2> DEFINE c == Command(m)
             q == [m EXCEPT !.sync = "saving", !.pending = c,
                     !.run = [state |-> "sent", cmd |-> c, current |-> TRUE]]
  <2>1. OnePage(t, q) /\ net' = net \cup {[kind |-> "save", from |-> t, cmd |-> c]}
    BY <1>3 DEF Sent, OnePage, rows
  <2>2. /\ q \in Pages /\ SameWording(m, q) /\ SameTed(m, q) /\ q.scheduled = m.scheduled
        /\ q.sync = "saving" /\ q.pending = c /\ q.run.state = "sent"
    BY <1>1 DEF Pages, Runs, NoRun, SameWording, SameTed
  <2> HIDE DEF q
  <2> QED
    BY <2>1, <2>2 DEF SentFrom
<1> QED
  BY <1>2, <1>3

\* A pending command is sent again as it was; otherwise the page is sent.
LEMMA PersistPage ==
  ASSUME IInv, NEW t \in Tabs, Persist(t)
  PROVE  \E q \in Pages :
    \/ /\ OnePage(t, q) /\ SameWording(tab[t], q) /\ SameTed(tab[t], q)
       /\ tab[t].pending # None /\ q.pending = tab[t].pending
       /\ q.sync = "saving" /\ q.run.state = "sent"
       /\ net' = net \cup {[kind |-> "save", from |-> t, cmd |-> q.pending]}
    \/ \E m \in Pages : /\ m.pending = None /\ SameWording(tab[t], m) /\ SameTed(tab[t], m)
                        /\ tab[t].pending = None /\ SentFrom(t, m, q)
<1> DEFINE o == tab[t]
<1>1. o \in Pages
  BY PageFits DEF IInv, FitPage
<1>2. PICK p : p = [o EXCEPT !.scheduled = FALSE]
  OBVIOUS
<1>3. p \in Pages /\ p.pending = o.pending /\ SameWording(o, p) /\ SameTed(o, p)
  BY <1>1, <1>2 DEF Pages, SameWording, SameTed
<1>4. CASE p.pending = None
  <2>1. Sent(t, p) /\ UNCHANGED <<rows, receipts, edit>>
    BY <1>2, <1>4 DEF Persist
  <2> QED
    BY <1>3, <1>4, <2>1, SentPage
<1>5. CASE p.pending # None
  <2> DEFINE q == [p EXCEPT !.sync = "saving",
                     !.run = [state |-> "sent", cmd |-> p.pending, current |-> TRUE]]
  <2>1. OnePage(t, q) /\ net' = net \cup {[kind |-> "save", from |-> t, cmd |-> p.pending]}
    BY <1>2, <1>5 DEF Persist, OnePage, rows
  <2>2. /\ q \in Pages /\ SameWording(p, q) /\ SameTed(p, q)
        /\ q.pending = p.pending /\ q.sync = "saving" /\ q.run.state = "sent"
    BY <1>3, <1>5 DEF Pages, Runs, NoRun, SameWording, SameTed
  <2> HIDE DEF q
  <2> QED
    BY <1>3, <1>5, <2>1, <2>2 DEF SameWording, SameTed
<1> QED
  BY <1>4, <1>5

\* A page that merges the receipt of its save goes on with a suggestion only if
\* the save has left the section of it as the page had it.
LEMMA MergedKeepsTed ==
  ASSUME IInv, NEW t \in Tabs, tab[t].run.state = "receipt",
         NEW m, m = Rendered(tab[t], Merged(tab[t], Receipt(tab[t].run.cmd)))
  PROVE  /\ m \in Pages /\ m.pending = None /\ m.view = tab[t].view
         /\ m.sync = tab[t].sync /\ m.scheduled
         /\ m.id = tab[t].id /\ m.truth \in {None, tab[t].truth}
         /\ m.ted # "none" =>
              tab[t].ted # "none" /\ m.base[Target(tab[t])] = tab[t].base[Target(tab[t])]
         /\ \A s \in Sections : LET n == Receipt(tab[t].run.cmd).rev[s]
                                IN  m.seen[s] = IF tab[t].seen[s] > n THEN tab[t].seen[s] ELSE n
<1> DEFINE p == tab[t]
           c == p.run.cmd
           r == Receipt(c)
           g == Merged(p, r)
<1>1. p \in Pages
  BY PageFits DEF IInv, FitPage
<1>2. r \in Receipts /\ r.cmd = c
  BY ReceivedReceipt, ChangedSections
<1>3. /\ g \in Pages /\ g.pending = None /\ g.view = p.view
      /\ g.ted = p.ted /\ g.id = p.id /\ g.truth = p.truth
      /\ \A s \in Sections :
           /\ g.seen[s] = IF p.seen[s] > r.rev[s] THEN p.seen[s] ELSE r.rev[s]
           /\ g.base[s] = IF p.seen[s] > r.rev[s] THEN p.base[s] ELSE r.cmd.new[s]
  BY <1>1, <1>2, MergedPage
<1>4. g.sync = p.sync /\ g.scheduled
  BY <1>1 DEF Merged, Pages
<1> HIDE DEF g, r
<1>5. /\ m \in Pages /\ m.seen = g.seen /\ m.base = g.base /\ m.pending = None /\ m.id = g.id
      /\ \/ m.ted = "none"
         \/ m.ted = g.ted /\ (p.ted # "none" => g.seen[Target(p)] = p.seen[Target(p)])
  BY <1>1, <1>3, RenderedPage DEF g, r
<1>6. /\ m.view = g.view /\ m.sync = g.sync /\ m.scheduled = g.scheduled
      /\ m.truth \in {None, g.truth}
  BY <1>3 DEF Rendered, Pages, g, r
<1>7. ASSUME m.ted # "none" PROVE p.ted # "none" /\ g.base[Target(p)] = p.base[Target(p)]
  <2> DEFINE s == Target(p)
  <2>1. p.ted # "none" /\ g.seen[s] = p.seen[s]
    BY <1>3, <1>5, <1>7
  <2>2. s \in Sections
    BY <2>1, TargetFits DEF IInv
  <2>3. p.seen[s] \in Nat /\ r.rev[s] \in Nat
    BY <1>1, <1>2, <2>2 DEF Pages, Receipts, Revisions
  <2>4. p.seen[s] = r.rev[s] => p.base[s] = r.cmd.new[s]
    BY <2>2, OwnReceiptFits DEF Regression, r
  <2> QED
    BY <1>3, <2>1, <2>2, <2>3, <2>4
<1> QED
  BY <1>3, <1>4, <1>5, <1>6, <1>7 DEF r

\* The page after its receipt: merged, and what it shows is sent if it has moved
\* on, or called saved if not.
LEMMA ReceivedPage ==
  ASSUME IInv, NEW t \in Tabs, SaveReceived(t)
  PROVE  \E q, m \in Pages :
    /\ m = Rendered(tab[t], Merged(tab[t], Receipt(tab[t].run.cmd)))
    /\ \/ SentFrom(t, m, q)
       \/ /\ OnePage(t, q) /\ SameWording(m, q) /\ SameTed(m, q)
          /\ q.scheduled /\ q.run = NoRun /\ q.pending = None /\ net' = net
          /\ \/ q.sync = tab[t].sync
             \/ tab[t].run.cmd.new = tab[t].view
<1> DEFINE p == tab[t]
           r == Receipt(p.run.cmd)
<1>1. p.run.state = "receipt" /\ r.cmd = p.run.cmd
  BY DEF SaveReceived, Receipt
<1>2. PICK m : m = Rendered(p, Merged(p, r))
  OBVIOUS
<1>3. m \in Pages /\ m.pending = None /\ m.sync = p.sync /\ m.scheduled
  BY <1>1, <1>2, MergedKeepsTed
<1>4. ~Regression(p, r)
  BY <1>1, OwnReceiptFits
<1>5. CASE p.run.current /\ r.cmd.new # p.view
  <2>1. Sent(t, m) /\ UNCHANGED <<rows, receipts, edit>>
    BY <1>2, <1>4, <1>5 DEF SaveReceived
  <2> QED
    BY <1>2, <1>3, <2>1, SentPage
<1>6. CASE ~(p.run.current /\ r.cmd.new # p.view)
  <2> DEFINE q == [m EXCEPT !.run = NoRun, !.sync = IF p.run.current THEN "saved" ELSE @]
  <2>1. OnePage(t, q) /\ net' = net
    BY <1>2, <1>4, <1>6 DEF SaveReceived, OnePage, rows
  <2>2. /\ q \in Pages /\ SameWording(m, q) /\ SameTed(m, q)
        /\ q.scheduled /\ q.run = NoRun /\ q.pending = None
        /\ q.sync = IF p.run.current THEN "saved" ELSE p.sync
    BY <1>3 DEF Pages, Runs, NoRun, SameWording, SameTed
  <2> HIDE DEF q
  <2> QED
    BY <1>1, <1>2, <1>3, <1>6, <2>1, <2>2
<1> QED
  BY <1>5, <1>6

\* A save that is given up: refused, and the command forgotten, or unknown.
LEMMA GivenUpPage ==
  ASSUME IInv, NEW t \in Tabs, SaveRefused(t) \/ SaveUnknown(t)
  PROVE  \E q \in Pages :
    /\ OnePage(t, q) /\ SameWording(tab[t], q) /\ SameTed(tab[t], q)
    /\ tab[t].run # NoRun /\ q.run = NoRun /\ q.sync \in {"failed", tab[t].sync}
    /\ q.pending = tab[t].pending \/ (q.pending = None /\ tab[t].run.state = "conflict")
<1> DEFINE p == tab[t]
<1>1. p \in Pages
  BY PageFits DEF IInv, FitPage
<1>2. CASE SaveRefused(t)
  <2> DEFINE q == Failed([p EXCEPT !.pending = None])
  <2>1. OnePage(t, q) /\ p.run.state = "conflict"
    BY <1>2 DEF SaveRefused, OnePage, rows
  <2>2. /\ q \in Pages /\ SameWording(p, q) /\ SameTed(p, q)
        /\ q.run = NoRun /\ q.sync \in {"failed", p.sync} /\ q.pending = None
    BY <1>1 DEF Failed, Pages, Runs, NoRun, SameWording, SameTed
  <2> HIDE DEF q
  <2> QED
    BY <2>1, <2>2 DEF NoRun
<1>3. CASE SaveUnknown(t)
  <2> DEFINE q == Failed(p)
  <2>1. OnePage(t, q) /\ p.run.state # "none"
    BY <1>3 DEF SaveUnknown, OnePage, rows
  <2>2. /\ q \in Pages /\ SameWording(p, q) /\ SameTed(p, q)
        /\ q.run = NoRun /\ q.sync \in {"failed", p.sync} /\ q.pending = p.pending
    BY <1>1 DEF Failed, Pages, Runs, NoRun, SameWording, SameTed
  <2> HIDE DEF q
  <2> QED
    BY <2>1, <2>2 DEF NoRun
<1> QED
  BY <1>2, <1>3

LEMMA RetryPage ==
  ASSUME IInv, NEW t \in Tabs, Retry(t)
  PROVE  \E q \in Pages :
    /\ OnePage(t, q) /\ SameWording(tab[t], q) /\ SameTed(tab[t], q)
    /\ q.run = tab[t].run /\ q.pending = tab[t].pending /\ q.sync = "failed"
<1> DEFINE p == tab[t]
           q == [p EXCEPT !.scheduled = TRUE]
<1>1. p \in Pages
  BY PageFits DEF IInv, FitPage
<1>2. OnePage(t, q)
  BY <1>1 DEF Retry, OnePage, rows, Pages, IInv, TypeOK
<1>3. /\ q \in Pages /\ SameWording(p, q) /\ SameTed(p, q)
      /\ q.run = p.run /\ q.pending = p.pending /\ q.sync = p.sync
  BY <1>1 DEF Pages, SameWording, SameTed
<1>4. p.sync = "failed"
  BY DEF Retry
<1> HIDE DEF q
<1> QED
  BY <1>2, <1>3, <1>4

\* Steps between a page and TED that leave its wording and its save alone.
LEMMA TedPage ==
  ASSUME IInv, NEW t \in Tabs,
         \/ StreamEnds(t) \/ Confirm(t) \/ ApplyUnknown(t) \/ Leave(t)
         \/ ApplyReceived(t) /\ tab[t].truth.rev = 0
  PROVE  \E q \in Pages :
    /\ OnePage(t, q) /\ SameWording(tab[t], q) /\ SameSave(tab[t], q)
    /\ q.id = tab[t].id /\ q.truth = None /\ tab[t].ted # "none"
    /\ \/ q.ted = "none" /\ (tab[t].ted = "streaming" \/ MayLeave)
       \/ q.ted \in {"review", "applying"} /\ tab[t].ted \in {"review", "applying"}
    /\ \/ net' = net
       \/ q.ted = "applying" /\ net' = net \cup {[kind |-> "apply", from |-> t, id |-> q.id]}
<1> DEFINE p == tab[t]
<1>1. p \in Pages
  BY PageFits DEF IInv, FitPage
<1>2. PICK o : o = p
  OBVIOUS
<1>3. ASSUME NEW ted \in {"none", "review", "applying"}
      PROVE  LET q == [o EXCEPT !.ted = ted, !.truth = None]
             IN  /\ q \in Pages /\ SameWording(p, q) /\ SameSave(p, q)
                 /\ q.id = p.id /\ q.truth = None /\ q.ted = ted
  BY <1>1, <1>2 DEF Pages, Truths, SameWording, SameSave
<1>4. CASE StreamEnds(t)
  <2>1. OnePage(t, [o EXCEPT !.ted = "none", !.truth = None])
    BY <1>1, <1>2, <1>4, NoAnswerYet DEF StreamEnds, OnePage, rows, Pages, IInv, TypeOK
  <2> QED
    BY <1>3, <1>4, <2>1 DEF StreamEnds
<1>5. CASE Confirm(t)
  <2>1. OnePage(t, [o EXCEPT !.ted = "applying", !.truth = None])
    BY <1>1, <1>2, <1>5, NoAnswerYet DEF Confirm, OnePage, rows, Pages, IInv, TypeOK
  <2> QED
    BY <1>3, <1>5, <2>1 DEF Confirm
<1>6. CASE ApplyUnknown(t)
  <2>1. OnePage(t, [o EXCEPT !.ted = "review", !.truth = None])
    BY <1>1, <1>2, <1>6 DEF ApplyUnknown, OnePage, rows, Pages, IInv, TypeOK
  <2> QED
    BY <1>3, <1>6, <2>1 DEF ApplyUnknown
<1>7. CASE Leave(t)
  <2>1. OnePage(t, [o EXCEPT !.ted = "none", !.truth = None])
    BY <1>1, <1>2, <1>7 DEF Leave, OnePage, rows, Pages, IInv, TypeOK
  <2> QED
    BY <1>3, <1>7, <2>1 DEF Leave
<1>8. CASE ApplyReceived(t) /\ p.truth.rev = 0
  <2>1. OnePage(t, [o EXCEPT !.ted = "review", !.truth = None])
    BY <1>2, <1>8 DEF ApplyReceived, OnePage, rows
  <2> QED
    BY <1>3, <1>8, <2>1 DEF ApplyReceived
<1> QED
  BY <1>4, <1>5, <1>6, <1>7, <1>8

LEMMA RecoverPage ==
  ASSUME IInv, NEW t \in Tabs, NEW s \in Sections, Recover(t, s)
  PROVE  \E q \in Pages :
    /\ OnePage(t, q) /\ SameWording(tab[t], q) /\ SameSave(tab[t], q)
    /\ tab[t].ted = "none" /\ tab[t].sync = "saved" /\ q.ted = "review" /\ q.truth = None
    /\ q.id \in Latest(s) /\ edit[q.id].state = "ready"
<1> DEFINE p == tab[t]
<1>1. p \in Pages /\ p.ted = "none" /\ p.truth = None /\ p.sync = "saved"
  BY PageFits, NoAnswerYet DEF IInv, FitPage, Recover
<1>2. PICK i \in Latest(s) : /\ edit[i].state = "ready" /\ StillAccepted(edit[i])
                             /\ tab' = [tab EXCEPT ![t].ted = "review", ![t].id = i]
  BY DEF Recover
<1>3. i \in EditIds
  BY <1>2 DEF Latest, Asked
<1> DEFINE q == [p EXCEPT !.ted = "review", !.id = i]
<1>4. OnePage(t, q)
  BY <1>1, <1>2 DEF Recover, OnePage, rows, Pages, IInv, TypeOK
<1>5. /\ q \in Pages /\ SameWording(p, q) /\ SameSave(p, q)
      /\ q.ted = "review" /\ q.id = i /\ q.truth = None
  BY <1>1, <1>3 DEF Pages, SameWording, SameSave
<1> HIDE DEF q
<1> QED
  BY <1>1, <1>2, <1>4, <1>5

\* The answer of an apply: the page shows it, and takes it for its baseline.
LEMMA AppliedPage ==
  ASSUME IInv, NEW t \in Tabs, ApplyReceived(t), tab[t].truth.rev # 0
  PROVE  \E q \in Pages :
    /\ OnePage(t, q) /\ Told(tab[t]) /\ tab[t].ted = "applying"
    /\ q.pending = tab[t].pending /\ q.sync = "idle" /\ q.ted = "none" /\ q.truth = None
    /\ q.run.state = tab[t].run.state /\ (q.run.state # "none" => q.run.cmd = tab[t].run.cmd)
    /\ \A x \in Sections :
         /\ q.view[x] = IF x = Target(tab[t]) THEN tab[t].truth.text ELSE tab[t].view[x]
         /\ q.seen[x] = IF x = Target(tab[t]) THEN tab[t].truth.rev ELSE tab[t].seen[x]
<1> DEFINE p == tab[t]
           s == Target(p)
           run == IF p.run.state = "none" THEN NoRun ELSE [p.run EXCEPT !.current = FALSE]
           q == [p EXCEPT !.view = [@ EXCEPT ![s] = p.truth.text],
                          !.base = [@ EXCEPT ![s] = p.truth.text],
                          !.seen = [@ EXCEPT ![s] = p.truth.rev], !.doc = p.truth.doc, !.run = run,
                          !.sync = "idle", !.scheduled = TRUE, !.ted = "none", !.truth = None]
<1>1. p \in Pages /\ p.ted = "applying" /\ p.truth # None
  BY PageFits DEF IInv, FitPage, ApplyReceived
<1>2. OnePage(t, q)
  BY DEF ApplyReceived, OnePage, rows, Target
<1>3. s \in Sections
  BY <1>1, TargetFits DEF IInv
<1>4. p.truth.rev \in Nat /\ p.truth.text \in Texts /\ p.truth.doc \in Nat
  BY <1>1 DEF Pages, Truths
<1>5. /\ run \in Runs /\ run.state = p.run.state
      /\ run.state # "none" => run.cmd = p.run.cmd
  BY <1>1 DEF Pages, Runs, NoRun
<1> HIDE DEF run, s
<1>6. /\ q \in Pages /\ q.pending = p.pending /\ q.run = run
      /\ q.sync = "idle" /\ q.ted = "none" /\ q.truth = None
  BY <1>1, <1>3, <1>4, <1>5 DEF Pages, Truths, Wording, Revisions
<1>7. \A x \in Sections : /\ q.view[x] = IF x = s THEN p.truth.text ELSE p.view[x]
                          /\ q.seen[x] = IF x = s THEN p.truth.rev ELSE p.seen[x]
  BY <1>1, <1>3 DEF Pages, Wording, Revisions
<1> HIDE DEF q
<1> QED
  BY <1>1, <1>2, <1>5, <1>6, <1>7 DEF Told, s

LEMMA ReloadPage ==
  ASSUME IInv, NEW t \in Tabs, Reload(t)
  PROVE  /\ OnePage(t, Loaded) /\ Loaded \in Pages
         /\ Loaded.seen = rev /\ Loaded.view = text /\ Loaded.base = text
         /\ Loaded.pending = None /\ Loaded.run = NoRun /\ Loaded.run.state = "none"
         /\ Loaded.ted = "none" /\ Loaded.truth = None
<1>1. Loaded.id = 0 /\ Loaded.run = NoRun
  BY DEF Loaded
<1> QED
  BY <1>1 DEF Loaded, Pages, Runs, NoRun, Truths, Reload, OnePage, IInv, TypeOK

LEMMA AnsweredPage ==
  ASSUME IInv, NEW t \in Tabs \cup {None}, NEW c \in Commands,
         NEW answer \in {"receipt", "conflict"}, tab' = Answered(t, c, answer), NEW u \in Tabs
  PROVE  /\ SameWording(tab[u], tab'[u]) /\ SameTed(tab[u], tab'[u])
         /\ tab'[u].pending = tab[u].pending /\ tab'[u].sync = tab[u].sync
         /\ tab'[u].scheduled = tab[u].scheduled
         /\ \/ tab'[u].run = tab[u].run
            \/ /\ t = u /\ tab[u].run.state = "sent" /\ tab[u].run.cmd = c
               /\ tab'[u].run.state = answer /\ tab'[u].run.cmd = c
<1>1. tab \in [Tabs -> Pages] /\ tab[u] \in Pages
  BY DEF IInv, TypeOK
<1>2. CASE t \in Tabs /\ tab[t].run.state = "sent" /\ tab[t].run.cmd = c
  <2> DEFINE q == [tab[t] EXCEPT !.run = [@ EXCEPT !.state = answer]]
  <2>0. tab[t] \in Pages
    BY <1>1, <1>2
  <2>1. tab' = [tab EXCEPT ![t] = q]
    BY <1>1, <1>2, <2>0 DEF Answered, Pages
  <2>2. /\ SameWording(tab[t], q) /\ SameTed(tab[t], q)
        /\ q.pending = tab[t].pending /\ q.sync = tab[t].sync /\ q.scheduled = tab[t].scheduled
        /\ q.run.state = answer /\ q.run.cmd = c
    BY <1>2, <2>0 DEF Pages, Runs, NoRun, SameWording, SameTed
  <2> HIDE DEF q
  <2>3. CASE u = t
    BY <1>1, <1>2, <2>1, <2>2, <2>3
  <2>4. CASE u # t
    BY <1>1, <1>2, <2>1, <2>4 DEF SameWording, SameTed
  <2> QED
    BY <2>3, <2>4
<1>3. CASE ~(t \in Tabs /\ tab[t].run.state = "sent" /\ tab[t].run.cmd = c)
  BY <1>3 DEF Answered, SameWording, SameTed
<1> QED
  BY <1>2, <1>3

-----------------------------------------------------------------------------
(* What the steps of the account change *)

\* An apply takes an edit that is ready and was accepted on the row as it is.
LEMMA ApplyFacts ==
  ASSUME IInv, NEW m \in net, m.kind # "save", Apply(m)
  PROVE  /\ m.id \in EditIds /\ receipts' = receipts
         /\ \A i \in EditIds : i # m.id => edit'[i] = edit[i]
         /\ edit'[m.id].section = edit[m.id].section
         /\ \/ edit' = edit
            \/ /\ edit[m.id].state = "ready" /\ edit'[m.id].rev = edit[m.id].rev
               /\ edit[m.id].section \in Sections
               /\ edit[m.id].rev = rev[edit[m.id].section]
         /\ \A u \in Tabs : /\ SameWording(tab[u], tab'[u]) /\ SameSave(tab[u], tab'[u])
                            /\ tab'[u].ted = tab[u].ted /\ tab'[u].id = tab[u].id
<1> DEFINE e == edit[m.id]
           applies == e.state = "ready" /\ StillAccepted(e)
<1>1. m.from \in Tabs \cup {None} /\ m.id \in EditIds
  BY DEF IInv, TypeOK, Messages
<1>2. edit \in [EditIds -> Operations] /\ tab \in [Tabs -> Pages]
  BY DEF IInv, TypeOK
<1>3. ASSUME applies
      PROVE  /\ e.state = "ready" /\ e.section \in Sections /\ e.rev = rev[e.section]
             /\ edit'[m.id].section = e.section /\ edit'[m.id].rev = e.rev
             /\ \A i \in EditIds : i # m.id => edit'[i] = edit[i]
  <2>1. e \in Operations /\ e # NoEdit /\ e.section \in Sections /\ e.rev = rev[e.section]
    BY <1>1, <1>2, <1>3 DEF Operations, NoEdit, StillAccepted
  <2>2. edit' = [edit EXCEPT ![m.id] = [e EXCEPT !.state = "applied"]]
    BY <1>2, <1>3 DEF Apply
  <2>3. /\ [e EXCEPT !.state = "applied"].section = e.section
        /\ [e EXCEPT !.state = "applied"].rev = e.rev
    BY <2>1 DEF Operations, NoEdit
  <2> HIDE DEF e
  <2>4. /\ edit'[m.id].section = e.section /\ edit'[m.id].rev = e.rev
        /\ \A i \in EditIds : i # m.id => edit'[i] = edit[i]
    BY <1>1, <1>2, <2>2, <2>3
  <2> QED
    BY <1>3, <2>1, <2>4 DEF e
<1>4. ASSUME ~applies PROVE edit' = edit
  BY <1>4 DEF Apply
<1>5. ASSUME NEW u \in Tabs
      PROVE  /\ SameWording(tab[u], tab'[u]) /\ SameSave(tab[u], tab'[u])
             /\ tab'[u].ted = tab[u].ted /\ tab'[u].id = tab[u].id
  <2>1. CASE m.from \in Tabs /\ tab[m.from].ted = "applying" /\ tab[m.from].id = m.id
    <3>1. PICK v : v = IF edit'[m.id].state = "applied" THEN Truth(e) ELSE [rev |-> 0]
      OBVIOUS
    <3>2. tab' = [tab EXCEPT ![m.from] = [tab[m.from] EXCEPT !.truth = v]]
      BY <1>2, <2>1, <3>1 DEF Apply, Pages
    <3>3. tab'[u] = tab[u] \/ tab'[u] = [tab[u] EXCEPT !.truth = v]
      BY <1>2, <2>1, <3>2
    <3> QED
      BY <1>2, <3>3 DEF Pages, SameWording, SameSave
  <2>2. CASE ~(m.from \in Tabs /\ tab[m.from].ted = "applying" /\ tab[m.from].id = m.id)
    BY <2>2 DEF Apply, SameWording, SameSave
  <2> QED
    BY <2>1, <2>2
<1>6. receipts' = receipts
  BY DEF Apply
<1> QED
  BY <1>1, <1>3, <1>4, <1>5, <1>6

\* A new edit is of words the account has, and the page that asks for it too.
LEMMA AskFacts ==
  ASSUME IInv, NEW t \in Tabs, NEW s \in Sections, Ask(t, s)
  PROVE  \E i \in EditIds :
    /\ i \notin Asked /\ edit'[i].state = "accepted" /\ edit'[i].section = s
    /\ \A j \in EditIds : j # i => edit'[j] = edit[j]
    /\ receipts' = receipts /\ tab[t].sync = "saved"
    /\ \A u \in Tabs : u # t => tab'[u] = tab[u]
    /\ SameWording(tab[t], tab'[t]) /\ SameSave(tab[t], tab'[t])
    /\ tab'[t].id = i /\ tab'[t].truth = None
<1> DEFINE p == tab[t]
<1>1. p \in Pages /\ p.sync = "saved" /\ p.truth = None /\ receipts' = receipts
  BY PageFits, NoAnswerYet DEF Ask, IInv, FitPage
<1>2. PICK i \in EditIds :
        /\ Asked = 1..(i - 1)
        /\ edit' = [edit EXCEPT ![i] =
                      [state |-> "accepted", section |-> s, rev |-> rev[s],
                       old |-> text[s].words, new |-> text[s].words]]
        /\ tab' = [tab EXCEPT ![t].ted = "streaming", ![t].id = i]
  BY DEF Ask
<1>3. i \notin Asked
  BY <1>2 DEF EditIds
<1>4. /\ edit'[i].state = "accepted" /\ edit'[i].section = s
      /\ \A j \in EditIds : j # i => edit'[j] = edit[j]
  BY <1>2 DEF IInv, TypeOK
<1>5. /\ tab'[t] = [p EXCEPT !.ted = "streaming", !.id = i]
      /\ \A u \in Tabs : u # t => tab'[u] = tab[u]
  BY <1>1, <1>2 DEF IInv, TypeOK, Pages
<1>6. SameWording(p, tab'[t]) /\ SameSave(p, tab'[t]) /\ tab'[t].id = i /\ tab'[t].truth = None
  BY <1>1, <1>5 DEF Pages, SameWording, SameSave
<1> QED
  BY <1>1, <1>3, <1>4, <1>5, <1>6

\* An edit that is dispatched, completed, settled or discarded, and the pages
\* that show it.
LEMMA EditFacts ==
  ASSUME IInv,
         \/ \E i \in EditIds : Dispatch(i) \/ Settle(i) \/ \E w \in Words : Complete(i, w)
         \/ \E t \in Tabs : Discard(t)
  PROVE  \E i \in Asked :
    /\ edit[i].state # "applied" /\ edit'[i].state # "applied"
    /\ edit'[i].section = edit[i].section
    /\ \A j \in EditIds : j # i => edit'[j] = edit[j]
    /\ receipts' = receipts
    /\ \A u \in Tabs : /\ SameWording(tab[u], tab'[u]) /\ SameSave(tab[u], tab'[u])
                       /\ tab'[u].id = tab[u].id /\ tab'[u].truth = tab[u].truth
                       /\ (tab'[u].ted = tab[u].ted \/ tab[u].ted # "none")
<1> USE DEF IInv, TypeOK
<1>1. \A i \in Asked : i \in EditIds /\ edit[i] \in Operations /\ edit[i] # NoEdit
  BY DEF Asked, NoEdit
<1>2. ASSUME NEW i \in Asked, NEW st \in {"dispatched", "ready", "ended", "discarded"}, NEW w,
             \/ edit' = [edit EXCEPT ![i].state = st]
             \/ edit' = [edit EXCEPT ![i].state = st, ![i].new = w]
      PROVE  /\ edit'[i].state # "applied" /\ edit'[i].section = edit[i].section
             /\ \A j \in EditIds : j # i => edit'[j] = edit[j]
  BY <1>1, <1>2 DEF Operations
<1>3. ASSUME NEW u \in Tabs, NEW ted,
             tab'[u] = tab[u] \/ (tab[u].ted # "none" /\ tab'[u] = [tab[u] EXCEPT !.ted = ted])
      PROVE  /\ SameWording(tab[u], tab'[u]) /\ SameSave(tab[u], tab'[u])
             /\ tab'[u].id = tab[u].id /\ tab'[u].truth = tab[u].truth
             /\ (tab'[u].ted = tab[u].ted \/ tab[u].ted # "none")
  BY <1>3 DEF Pages, SameWording, SameSave
<1>4. CASE \E i \in EditIds : Dispatch(i) \/ Settle(i) \/ \E w \in Words : Complete(i, w)
  <2>1. PICK i \in EditIds : Dispatch(i) \/ Settle(i) \/ \E w \in Words : Complete(i, w)
    BY <1>4
  <2>2. i \in Asked /\ receipts' = receipts /\ edit[i].state # "applied"
    BY <2>1 DEF Dispatch, Settle, Complete, Asked
  <2>3. /\ edit'[i].state # "applied" /\ edit'[i].section = edit[i].section
        /\ \A j \in EditIds : j # i => edit'[j] = edit[j]
    <3>1. PICK st \in {"dispatched", "ready", "ended", "discarded"}, w \in Words \cup {edit[i].new} :
            \/ edit' = [edit EXCEPT ![i].state = st]
            \/ edit' = [edit EXCEPT ![i].state = st, ![i].new = w]
      BY <2>1 DEF Dispatch, Settle, Complete
    <3>2. CASE edit' = [edit EXCEPT ![i].state = st]
      BY <1>2, <2>2, <3>2
    <3>3. CASE edit' = [edit EXCEPT ![i].state = st, ![i].new = w]
      BY <1>2, <2>2, <3>3
    <3> QED
      BY <3>1, <3>2, <3>3
  <2>4. ASSUME NEW u \in Tabs
        PROVE  \E ted : \/ tab'[u] = tab[u]
                        \/ tab[u].ted # "none" /\ tab'[u] = [tab[u] EXCEPT !.ted = ted]
    <3>1. CASE Dispatch(i)
      BY <3>1 DEF Dispatch
    <3>2. CASE Settle(i)
      BY <3>2 DEF Settle
    <3>3. CASE \E w \in Words : Complete(i, w)
      BY <3>3 DEF Complete
    <3> QED
      BY <2>1, <3>1, <3>2, <3>3
  <2> QED
    BY <1>3, <2>2, <2>3, <2>4
<1>5. CASE \E t \in Tabs : Discard(t)
  <2>1. PICK t \in Tabs : Discard(t)
    BY <1>5
  <2>2. PICK i : i = tab[t].id
    OBVIOUS
  <2>3. /\ i \in Asked /\ tab[t].ted = "review" /\ receipts' = receipts
        /\ edit[i].state # "applied"
    BY <2>1, <2>2 DEF Discard
  <2>4. edit' = [edit EXCEPT ![i].state = "discarded"] /\ tab' = [tab EXCEPT ![t].ted = "none"]
    BY <2>1, <2>2 DEF Discard
  <2>5. ASSUME NEW u \in Tabs
        PROVE  tab'[u] = tab[u] \/ (tab[u].ted # "none" /\ tab'[u] = [tab[u] EXCEPT !.ted = "none"])
    BY <2>3, <2>4 DEF Pages
  <2> QED
    BY <1>2, <1>3, <2>3, <2>4, <2>5
<1> QED
  BY <1>4, <1>5

-----------------------------------------------------------------------------
(* No change is lost *)

\* A change that reached the account has moved its section past the revision it
\* set out from.
LEMMA ChangesArePast ==
  ASSUME IInv, NEW s \in Sections
  PROVE  /\ \A r \in SavesOf(s) : r.cmd.rev[s] \in Nat /\ r.cmd.rev[s] < rev[s]
         /\ \A i \in AppliedTo(s) : edit[i].rev \in Nat /\ edit[i].rev < rev[s]
<1>1. ASSUME NEW r \in SavesOf(s) PROVE r.cmd.rev[s] \in Nat /\ r.cmd.rev[s] < rev[s]
  <2>1. r \in receipts /\ r.cmd \in Commands /\ r = Receipt(r.cmd) /\ s \in Changed(r.cmd)
    BY DEF SavesOf, IInv, NoDocBetween, TypeOK, Receipts
  <2>2. r.cmd.rev[s] \in Nat /\ r.rev[s] = r.cmd.rev[s] + 1
    <3>1. PICK c \in Commands : c = r.cmd
      BY <2>1
    <3>2. Receipt(c).rev[s] = c.rev[s] + 1 /\ c.rev[s] \in Nat
      BY <2>1, <3>1, ChangedSections DEF Changed, Commands, Revisions
    <3> QED
      BY <2>1, <3>1, <3>2
  <2>3. Known(s, r.rev[s], r.cmd.new[s])
    BY <2>1 DEF Known
  <2>4. r.rev[s] <= rev[s] /\ rev[s] \in Nat
    BY <2>3, KnownIsTyped DEF IInv, AllPast, TypeOK, Revisions
  <2> QED
    BY <2>2, <2>4
<1>2. ASSUME NEW i \in AppliedTo(s) PROVE edit[i].rev \in Nat /\ edit[i].rev < rev[s]
  <2>1. i \in EditIds /\ edit[i].state = "applied" /\ edit[i].section = s
    BY DEF AppliedTo, Asked
  <2>2. edit[i].rev \in Nat
    BY <2>1 DEF IInv, TypeOK, Operations, NoEdit
  <2> QED
    BY <2>1, <2>2 DEF IInv, AppliedIsPast
<1> QED
  BY <1>1, <1>2

\* No step but a save and an apply makes a change.
LEMMA NoMoreChanges ==
  ASSUME NoLostUpdate, receipts' = receipts,
         \A i \in EditIds : i \in Asked' /\ edit'[i].state = "applied" => i \in Asked /\ edit'[i] = edit[i]
  PROVE  NoLostUpdate'
<1>1. \A s \in Sections : SavesOf(s)' = SavesOf(s)
  BY DEF SavesOf
<1>2. \A s \in Sections : \A i \in AppliedTo(s)' : i \in AppliedTo(s) /\ edit'[i] = edit[i]
  BY DEF AppliedTo, Asked
<1> QED
  BY <1>1, <1>2 DEF NoLostUpdate

LEMMA SaveLosesNone ==
  ASSUME IInv, NoLostUpdate, NEW m \in net, m.kind = "save", Save(m)
  PROVE  NoLostUpdate'
<1> DEFINE c == m.cmd
<1>1. c \in Commands /\ edit' = edit
  BY DEF IInv, TypeOK, Messages, Save
<1>2. CASE receipts' = receipts
  BY <1>1, <1>2, NoMoreChanges DEF Asked
<1>3. CASE Expected(c) /\ receipts' = receipts \cup {Receipt(c)}
  <2>1. Receipt(c).cmd = c /\ c.rev = rev
    BY <1>1, <1>3, ChangedSections DEF Expected
  <2>2. ASSUME NEW s \in Sections
        PROVE  /\ \A r \in SavesOf(s)' : r \in SavesOf(s) \/ (r = Receipt(c) /\ r.cmd.rev[s] = rev[s])
               /\ AppliedTo(s)' = AppliedTo(s)
    BY <1>1, <1>3, <2>1 DEF SavesOf, AppliedTo, Asked
  <2>3. \A s \in Sections : /\ \A r \in SavesOf(s) : r.cmd.rev[s] # rev[s]
                            /\ \A i \in AppliedTo(s) : edit[i].rev # rev[s]
    BY ChangesArePast DEF IInv, TypeOK, Revisions
  <2> QED
    BY <1>1, <2>2, <2>3 DEF NoLostUpdate
<1> QED
  BY <1>2, <1>3 DEF Save

LEMMA ApplyLosesNone ==
  ASSUME IInv, NoLostUpdate, NEW m \in net, m.kind # "save", Apply(m)
  PROVE  NoLostUpdate'
<1> DEFINE e == edit[m.id]
<1>1. /\ m.id \in EditIds /\ receipts' = receipts
      /\ \A i \in EditIds : i # m.id => edit'[i] = edit[i]
      /\ edit'[m.id].section = e.section
      /\ \/ edit' = edit
         \/ /\ e.state = "ready" /\ edit'[m.id].rev = e.rev
            /\ e.section \in Sections /\ e.rev = rev[e.section]
  BY ApplyFacts
<1>2. CASE edit' = edit
  BY <1>1, <1>2, NoMoreChanges DEF Asked
<1>3. CASE e.state = "ready" /\ edit'[m.id].rev = e.rev /\ e.rev = rev[e.section]
  <2>1. ASSUME NEW s \in Sections
        PROVE  /\ SavesOf(s)' = SavesOf(s)
               /\ \A i \in AppliedTo(s)' : \/ i \in AppliedTo(s) /\ edit'[i] = edit[i]
                                           \/ i = m.id /\ edit'[i].rev = rev[s]
    BY <1>1, <1>3 DEF SavesOf, AppliedTo, Asked
  <2>2. \A s \in Sections : /\ \A r \in SavesOf(s) : r.cmd.rev[s] # rev[s]
                            /\ \A i \in AppliedTo(s) : edit[i].rev # rev[s]
    BY ChangesArePast DEF IInv, TypeOK, Revisions
  <2> QED
    BY <2>1, <2>2 DEF NoLostUpdate
<1> QED
  BY <1>1, <1>2, <1>3

LEMMA StepLosesNone == IInv /\ NoLostUpdate /\ [Next]_vars => NoLostUpdate'
<1> SUFFICES ASSUME IInv, NoLostUpdate, [Next]_vars PROVE NoLostUpdate'
  OBVIOUS
<1>1. CASE \E m \in net : Deliver(m)
  BY <1>1, SaveLosesNone, ApplyLosesNone DEF Deliver
<1>2. ASSUME receipts' = receipts, edit' = edit PROVE NoLostUpdate'
  BY <1>2, NoMoreChanges DEF Asked
<1>3. ASSUME NEW t \in Tabs, NEW s \in Sections, Ask(t, s) PROVE NoLostUpdate'
  <2>1. PICK i \in EditIds :
          /\ edit'[i].state = "accepted" /\ receipts' = receipts
          /\ \A j \in EditIds : j # i => edit'[j] = edit[j]
    BY <1>3, AskFacts
  <2> QED
    BY <2>1, NoMoreChanges DEF Asked
<1>4. CASE \/ \E i \in EditIds : Dispatch(i) \/ Settle(i) \/ \E w \in Words : Complete(i, w)
           \/ \E t \in Tabs : Discard(t)
  <2>1. PICK i \in Asked :
          /\ edit'[i].state # "applied" /\ receipts' = receipts
          /\ \A j \in EditIds : j # i => edit'[j] = edit[j]
    BY <1>4, EditFacts
  <2> QED
    BY <2>1, NoMoreChanges DEF Asked
<1>5. CASE \E t \in Tabs : \/ Saving(t) \/ Applying(t) \/ Confirm(t) \/ StreamEnds(t) \/ Leave(t) \/ Reload(t)
                           \/ \E s \in Sections : \/ Recover(t, s) \/ ToggleLock(t, s)
                                                  \/ \E w \in Words : Write(t, s, w)
  BY <1>2, <1>5 DEF Saving, Persist, SaveReceived, SaveRefused, SaveUnknown, Retry, Applying,
       ApplyReceived, ApplyUnknown, Confirm, StreamEnds, Leave, Reload, Recover, ToggleLock, Write
<1>6. CASE (\E m \in net : Lose(m)) \/ FaultsEnd \/ UNCHANGED vars
  BY <1>2, <1>6 DEF Lose, FaultsEnd, vars
<1> QED
  BY <1>1, <1>3, <1>4, <1>5, <1>6 DEF Next, Deciding

\* However many tabs, sections and suggestions there are, and whatever is lost
\* or late: of two changes of a section, saved or suggested, that set out from
\* the same revision, the account refuses one.
THEOREM NoUpdateIsLost == Spec => []NoLostUpdate
<1>1. Init => NoLostUpdate
  BY DEF Init, NoLostUpdate, SavesOf, AppliedTo, Asked, NoEdit
<1> QED
  BY <1>1, StepLosesNone, IInvAlways, PTL DEF Spec

-----------------------------------------------------------------------------
(* The invariant of a page's words *)

\* The page has read its words of section s from the account, or a save has
\* brought them there.
Held(p, s) == p.view[s].words = p.base[s].words \/ Taken(s, p.view[s].words)

\* A saved page has no save under way, and the account has held all its words.
SavedIsHeld(p) == p.sync = "saved" => p.run = NoRun /\ \A s \in Sections : Held(p, s)

\* The account has held the words that a suggestion on the page is to replace.
BoundIsHeld(p) == p.ted # "none" => Held(p, Target(p))

PageKept(p) == SavedIsHeld(p) /\ BoundIsHeld(p)
KeptInv == \A t \in Tabs : PageKept(tab[t])

\* What becomes of the words of a page in one step.
WordsKept ==
  \A t \in Tabs, s \in Sections :
    /\ tab'[t].view[s].words # tab[t].view[s].words
    /\ typed' = typed /\ tab'[t] # Loaded
    => Held(tab[t], s)

\* A page that goes on with its words, and calls them saved, or has a
\* suggestion for them, only if it did so before or they were saved.
Alike(p, q) ==
  /\ q.view = p.view /\ q.base = p.base
  /\ q.sync = "saved" => p.sync = "saved" /\ (p.run = NoRun => q.run = NoRun)
  /\ q.ted # "none" => \/ p.ted # "none" /\ q.id = p.id
                       \/ p.sync = "saved" /\ edit'[q.id].section \in Sections

LEMMA AlikeKeeps ==
  ASSUME TypeOK, KeptInv, receipts \subseteq receipts',
         \A i \in Asked : edit'[i].section = edit[i].section,
         \A u \in Tabs : Alike(tab[u], tab'[u])
  PROVE  KeptInv' /\ WordsKept
<1>1. ASSUME NEW u \in Tabs PROVE PageKept(tab[u])'
  <2> DEFINE p == tab[u]
             q == tab'[u]
  <2>1. PageKept(p) /\ Alike(p, q)
    BY DEF KeptInv
  <2>2. \A s \in Sections : Held(p, s) => Held(tab[u], s)'
    BY <2>1 DEF Held, Taken, Alike
  <2>3. SavedIsHeld(tab[u])'
    BY <2>1, <2>2 DEF PageKept, SavedIsHeld, Alike
  <2>4. ASSUME q.ted # "none" PROVE Held(tab[u], edit[tab[u].id].section)'
    <3>1. CASE p.ted # "none" /\ q.id = p.id
      <4>1. edit'[q.id].section = Target(p) /\ Target(p) \in Sections /\ Held(p, Target(p))
        BY <2>1, <3>1, TargetFits DEF PageKept, BoundIsHeld, Target
      <4> QED
        BY <2>2, <4>1
    <3>2. CASE p.sync = "saved" /\ edit'[q.id].section \in Sections
      BY <2>1, <2>2, <3>2 DEF PageKept, SavedIsHeld
    <3> QED
      BY <2>1, <2>4, <3>1, <3>2 DEF Alike
  <2> QED
    BY <2>3, <2>4 DEF PageKept, BoundIsHeld, Target
<1>2. \A u \in Tabs : tab'[u].view = tab[u].view
  BY DEF Alike
<1> QED
  BY <1>1, <1>2 DEF KeptInv, WordsKept

\* A step of one page that comes to q.
LEMMA PageKeeps ==
  ASSUME TypeOK, KeptInv, NEW t \in Tabs, NEW q, OnePage(t, q), PageKept(q),
         \/ typed' # typed
         \/ q = Loaded
         \/ \A s \in Sections : q.view[s].words # tab[t].view[s].words => Held(tab[t], s)
  PROVE  KeptInv' /\ WordsKept
<1>1. tab'[t] = q /\ (\A u \in Tabs : u # t => tab'[u] = tab[u]) /\ UNCHANGED <<edit, receipts>>
  BY DEF TypeOK, OnePage
<1>2. \A u \in Tabs : PageKept(tab'[u])
  BY <1>1 DEF KeptInv
<1>3. KeptInv'
  BY <1>1, <1>2 DEF KeptInv, PageKept, SavedIsHeld, BoundIsHeld, Held, Taken, Target
<1>4. WordsKept
  BY <1>1 DEF WordsKept
<1> QED
  BY <1>3, <1>4

\* ... and that goes on with its words.
LEMMA OneAlikeKeeps ==
  ASSUME TypeOK, KeptInv, NEW t \in Tabs, NEW q, OnePage(t, q), Alike(tab[t], q)
  PROVE  KeptInv' /\ WordsKept
<1>1. tab'[t] = q /\ (\A u \in Tabs : u # t => tab'[u] = tab[u]) /\ UNCHANGED <<edit, receipts>>
  BY DEF TypeOK, OnePage
<1>2. \A u \in Tabs : Alike(tab[u], tab'[u])
  BY <1>1 DEF Alike
<1> QED
  BY <1>1, <1>2, AlikeKeeps

-----------------------------------------------------------------------------
(* Every step keeps the words of a page *)

LEMMA OwnerKeeps ==
  ASSUME IInv, KeptInv, NEW t \in Tabs, NEW s \in Sections,
         ToggleLock(t, s) \/ \E w \in Words : Write(t, s, w)
  PROVE  KeptInv' /\ WordsKept
<1> DEFINE p == tab[t]
<1>1. PICK q \in Pages :
        /\ OnePage(t, q) /\ typed' # typed /\ q.base = p.base /\ q.sync = "idle"
        /\ q.ted # "none" => /\ p.ted # "none" /\ q.id = p.id
                             /\ q.view[Target(p)].words = p.view[Target(p)].words
  BY OwnerPage
<1>2. PageKept(p)
  BY DEF KeptInv
<1>3. PageKept(q)
  BY <1>1, <1>2 DEF PageKept, SavedIsHeld, BoundIsHeld, Held, Target
<1> QED
  BY <1>1, <1>3, PageKeeps DEF IInv

\* A page that sends what it shows, or finds that there is nothing to send.
LEMMA SentIsKept ==
  ASSUME NEW t \in Tabs, NEW m, NEW q, SentFrom(t, m, q), BoundIsHeld(m)
  PROVE  PageKept(q) /\ q.view = m.view
<1>1. q.sync = "saved" => q.run = NoRun /\ q.view = q.base
  BY DEF SentFrom, SameWording
<1>2. q.view = m.view /\ q.base = m.base /\ q.ted = m.ted /\ q.id = m.id
  BY DEF SentFrom, SameWording, SameTed
<1> QED
  BY <1>1, <1>2 DEF PageKept, SavedIsHeld, BoundIsHeld, Held, Target

LEMMA PersistKeeps ==
  ASSUME IInv, KeptInv, NEW t \in Tabs, Persist(t)
  PROVE  KeptInv' /\ WordsKept
<1> DEFINE p == tab[t]
<1>1. PageKept(p)
  BY DEF KeptInv
<1>2. PICK q \in Pages :
    \/ /\ OnePage(t, q) /\ SameWording(p, q) /\ SameTed(p, q) /\ q.sync = "saving"
    \/ \E m \in Pages : SameWording(p, m) /\ SameTed(p, m) /\ SentFrom(t, m, q)
  BY PersistPage
<1>3. CASE OnePage(t, q) /\ SameWording(p, q) /\ SameTed(p, q) /\ q.sync = "saving"
  BY <1>3, OneAlikeKeeps DEF Alike, SameWording, SameTed, IInv
<1>4. ASSUME NEW m \in Pages, SameWording(p, m), SameTed(p, m), SentFrom(t, m, q)
      PROVE  KeptInv' /\ WordsKept
  <2>1. BoundIsHeld(m)
    BY <1>1, <1>4 DEF PageKept, BoundIsHeld, Held, Target, SameWording, SameTed
  <2>2. PageKept(q) /\ q.view = p.view /\ OnePage(t, q)
    BY <1>4, <2>1, SentIsKept DEF SameWording, SentFrom
  <2> QED
    BY <2>2, PageKeeps DEF IInv
<1> QED
  BY <1>2, <1>3, <1>4

LEMMA ReceivedKeeps ==
  ASSUME IInv, KeptInv, NEW t \in Tabs, SaveReceived(t)
  PROVE  KeptInv' /\ WordsKept
<1> DEFINE p == tab[t]
<1>1. PageKept(p) /\ p.run.state = "receipt" /\ p.run # NoRun
  BY DEF KeptInv, SaveReceived, NoRun
<1>2. PICK q \in Pages, m \in Pages :
    /\ m = Rendered(p, Merged(p, Receipt(p.run.cmd)))
    /\ \/ SentFrom(t, m, q)
       \/ /\ OnePage(t, q) /\ SameWording(m, q) /\ SameTed(m, q) /\ q.run = NoRun
          /\ q.sync = p.sync \/ p.run.cmd.new = p.view
  BY ReceivedPage
<1>3. /\ m.view = p.view /\ m.id = p.id
      /\ m.ted # "none" => p.ted # "none" /\ m.base[Target(p)] = p.base[Target(p)]
  BY <1>1, <1>2, MergedKeepsTed
<1>4. BoundIsHeld(m)
  BY <1>1, <1>3 DEF PageKept, BoundIsHeld, Held, Target
<1>5. CASE SentFrom(t, m, q)
  <2>1. PageKept(q) /\ q.view = p.view /\ OnePage(t, q)
    BY <1>3, <1>4, <1>5, SentIsKept DEF SentFrom
  <2> QED
    BY <2>1, PageKeeps DEF IInv
<1>6. CASE /\ OnePage(t, q) /\ SameWording(m, q) /\ SameTed(m, q) /\ q.run = NoRun
           /\ q.sync = p.sync \/ p.run.cmd.new = p.view
  <2>1. Receipt(p.run.cmd) \in receipts /\ Receipt(p.run.cmd).cmd = p.run.cmd
    BY <1>1, ReceivedReceipt, ChangedSections
  <2>2. p.sync # "saved"
    BY <1>1 DEF PageKept, SavedIsHeld
  <2>3. q.sync = "saved" => p.run.cmd.new = q.view
    BY <1>3, <1>6, <2>2 DEF SameWording
  <2>4. SavedIsHeld(q)
    BY <1>6, <2>1, <2>3 DEF SavedIsHeld, Held, Taken
  <2>5. BoundIsHeld(q)
    BY <1>4, <1>6 DEF BoundIsHeld, Held, Target, SameWording, SameTed
  <2>6. q.view = p.view
    BY <1>3, <1>6 DEF SameWording
  <2> QED
    BY <1>6, <2>4, <2>5, <2>6, PageKeeps DEF PageKept, IInv
<1> QED
  BY <1>2, <1>5, <1>6

LEMMA OtherKeeps ==
  ASSUME IInv, KeptInv, NEW t \in Tabs,
         \/ SaveRefused(t) \/ SaveUnknown(t) \/ Retry(t)
         \/ Applying(t) \/ Confirm(t) \/ StreamEnds(t) \/ Leave(t) \/ Reload(t)
         \/ \E s \in Sections : Recover(t, s)
  PROVE  KeptInv' /\ WordsKept
<1> DEFINE p == tab[t]
<1>1. PageKept(p)
  BY DEF KeptInv
<1>2. CASE SaveRefused(t) \/ SaveUnknown(t)
  <2>1. PICK q \in Pages :
          /\ OnePage(t, q) /\ SameWording(p, q) /\ SameTed(p, q)
          /\ q.run = NoRun /\ q.sync \in {"failed", p.sync}
    BY <1>2, GivenUpPage
  <2>2. Alike(p, q)
    BY <2>1 DEF Alike, SameWording, SameTed
  <2> QED
    BY <2>1, <2>2, OneAlikeKeeps DEF IInv
<1>3. CASE Retry(t)
  <2>1. PICK q \in Pages :
          OnePage(t, q) /\ SameWording(p, q) /\ SameTed(p, q) /\ q.sync = "failed"
    BY <1>3, RetryPage
  <2>2. Alike(p, q)
    BY <2>1 DEF Alike, SameWording, SameTed
  <2> QED
    BY <2>1, <2>2, OneAlikeKeeps DEF IInv
<1>4. CASE \/ StreamEnds(t) \/ Confirm(t) \/ ApplyUnknown(t) \/ Leave(t)
           \/ ApplyReceived(t) /\ p.truth.rev = 0
  <2>1. PICK q \in Pages :
          /\ OnePage(t, q) /\ SameWording(p, q) /\ SameSave(p, q)
          /\ q.id = p.id /\ p.ted # "none"
    BY <1>4, TedPage
  <2>2. Alike(p, q)
    BY <2>1 DEF Alike, SameWording, SameSave
  <2> QED
    BY <2>1, <2>2, OneAlikeKeeps DEF IInv
<1>5. CASE ApplyReceived(t) /\ p.truth.rev # 0
  <2>1. PICK q \in Pages :
          /\ OnePage(t, q) /\ p.ted = "applying" /\ q.sync = "idle" /\ q.ted = "none"
          /\ \A x \in Sections : x # Target(p) => q.view[x] = p.view[x]
    BY <1>5, AppliedPage
  <2>2. Held(p, Target(p)) /\ PageKept(q)
    BY <1>1, <2>1 DEF PageKept, BoundIsHeld, SavedIsHeld
  <2> QED
    BY <2>1, <2>2, PageKeeps DEF IInv
<1>6. CASE Reload(t)
  <2>1. PICK q : q = Loaded
    OBVIOUS
  <2>2. OnePage(t, q) /\ PageKept(q)
    BY <1>6, <2>1, ReloadPage DEF PageKept, BoundIsHeld, SavedIsHeld, Held
  <2> QED
    BY <2>1, <2>2, PageKeeps DEF IInv
<1>7. ASSUME NEW s \in Sections, Recover(t, s) PROVE KeptInv' /\ WordsKept
  <2>1. PICK q \in Pages :
          /\ OnePage(t, q) /\ SameWording(p, q) /\ SameSave(p, q)
          /\ p.sync = "saved" /\ q.id \in Latest(s)
    BY <1>7, RecoverPage
  <2>2. edit'[q.id].section \in Sections
    BY <2>1 DEF Latest, OnePage
  <2>3. Alike(p, q)
    BY <2>1, <2>2 DEF Alike, SameWording, SameSave
  <2> QED
    BY <2>1, <2>3, OneAlikeKeeps DEF IInv
<1> QED
  BY <1>2, <1>3, <1>4, <1>5, <1>6, <1>7 DEF Applying

LEMMA DeliverKeeps ==
  ASSUME IInv, KeptInv, NEW m \in net, Deliver(m)
  PROVE  KeptInv' /\ WordsKept
<1>1. CASE m.kind = "save"
  <2>1. /\ m.from \in Tabs \cup {None} /\ m.cmd \in Commands
        /\ \E answer \in {"receipt", "conflict"} : tab' = Answered(m.from, m.cmd, answer)
        /\ edit' = edit /\ receipts \subseteq receipts'
    BY <1>1 DEF IInv, TypeOK, Messages, Deliver, Save
  <2>2. \A u \in Tabs : Alike(tab[u], tab'[u])
    BY <2>1, AnsweredPage DEF Alike, SameWording, SameTed, NoRun
  <2> QED
    BY <2>1, <2>2, AlikeKeeps DEF IInv
<1>2. CASE m.kind # "save"
  <2>1. Apply(m)
    BY <1>2 DEF Deliver
  <2>2. \A i \in Asked : edit'[i].section = edit[i].section
    BY <1>2, <2>1, ApplyFacts DEF Asked
  <2>3. receipts' = receipts /\ \A u \in Tabs : Alike(tab[u], tab'[u])
    BY <1>2, <2>1, ApplyFacts DEF Alike, SameWording, SameSave
  <2> QED
    BY <2>2, <2>3, AlikeKeeps DEF IInv
<1> QED
  BY <1>1, <1>2

LEMMA EditKeeps ==
  ASSUME IInv, KeptInv,
         \/ \E t \in Tabs, s \in Sections : Ask(t, s)
         \/ \E i \in EditIds : Dispatch(i) \/ Settle(i) \/ \E w \in Words : Complete(i, w)
         \/ \E t \in Tabs : Discard(t)
  PROVE  KeptInv' /\ WordsKept
<1>1. ASSUME NEW t \in Tabs, NEW s \in Sections, Ask(t, s) PROVE KeptInv' /\ WordsKept
  <2>1. PICK i \in EditIds :
          /\ i \notin Asked /\ edit'[i].section = s
          /\ \A j \in EditIds : j # i => edit'[j] = edit[j]
          /\ receipts' = receipts /\ tab[t].sync = "saved"
          /\ \A u \in Tabs : u # t => tab'[u] = tab[u]
          /\ SameWording(tab[t], tab'[t]) /\ SameSave(tab[t], tab'[t]) /\ tab'[t].id = i
    BY <1>1, AskFacts
  <2>2. \A j \in Asked : edit'[j].section = edit[j].section
    BY <2>1 DEF Asked
  <2>3. Alike(tab[t], tab'[t])
    BY <2>1 DEF Alike, SameWording, SameSave
  <2>4. \A u \in Tabs : Alike(tab[u], tab'[u])
    BY <2>1, <2>3 DEF Alike
  <2> QED
    BY <2>1, <2>2, <2>4, AlikeKeeps DEF IInv
<1>2. CASE \/ \E i \in EditIds : Dispatch(i) \/ Settle(i) \/ \E w \in Words : Complete(i, w)
           \/ \E t \in Tabs : Discard(t)
  <2>1. PICK i \in Asked :
          /\ edit'[i].section = edit[i].section
          /\ \A j \in EditIds : j # i => edit'[j] = edit[j]
          /\ receipts' = receipts
          /\ \A u \in Tabs :
               /\ SameWording(tab[u], tab'[u]) /\ SameSave(tab[u], tab'[u])
               /\ tab'[u].id = tab[u].id /\ (tab'[u].ted = tab[u].ted \/ tab[u].ted # "none")
    BY <1>2, EditFacts
  <2>2. \A j \in Asked : edit'[j].section = edit[j].section
    BY <2>1 DEF Asked
  <2>3. \A u \in Tabs : Alike(tab[u], tab'[u])
    BY <2>1 DEF Alike, SameWording, SameSave
  <2> QED
    BY <2>1, <2>2, <2>3, AlikeKeeps DEF IInv
<1> QED
  BY <1>1, <1>2

LEMMA StepKeeps == IInv /\ KeptInv /\ [Next]_vars => KeptInv' /\ WordsKept
<1> SUFFICES ASSUME IInv, KeptInv, [Next]_vars PROVE KeptInv' /\ WordsKept
  OBVIOUS
<1>1. CASE \E m \in net : Deliver(m)
  BY <1>1, DeliverKeeps
<1>2. CASE \E t \in Tabs : Saving(t) \/ Applying(t) \/ Confirm(t) \/ StreamEnds(t) \/ Leave(t) \/ Reload(t)
  BY <1>2, PersistKeeps, ReceivedKeeps, OtherKeeps DEF Saving
<1>3. CASE \E t \in Tabs, s \in Sections :
             Recover(t, s) \/ ToggleLock(t, s) \/ \E w \in Words : Write(t, s, w)
  BY <1>3, OwnerKeeps, OtherKeeps
<1>4. CASE \/ \E t \in Tabs, s \in Sections : Ask(t, s)
           \/ \E i \in EditIds : Dispatch(i) \/ Settle(i) \/ \E w \in Words : Complete(i, w)
           \/ \E t \in Tabs : Discard(t)
  BY <1>4, EditKeeps
<1>5. CASE (\E m \in net : Lose(m)) \/ FaultsEnd \/ UNCHANGED vars
  BY <1>5, AlikeKeeps DEF Alike, Lose, FaultsEnd, vars, IInv
<1> QED
  BY <1>1, <1>2, <1>3, <1>4, <1>5 DEF Next, Deciding

LEMMA KeptAlways == Spec => [](IInv /\ KeptInv)
<1>1. Init => KeptInv
  BY DEF Init, Loaded, KeptInv, PageKept, SavedIsHeld, BoundIsHeld, Held
<1> QED
  BY <1>1, StepKeeps, IInvAlways, PTL DEF Spec

\* However many tabs, sections and suggestions there are, whatever is locked,
\* restored, lost or late: a receipt, a suggestion and an applied answer take
\* from a page only words that it has read from the account or that a save has
\* brought there.
THEOREM NoWordingIsLost == Spec => WordingIsKept
<1>1. WordsKept <=> (\A t \in Tabs, s \in Sections :
                       /\ tab'[t].view[s].words # tab[t].view[s].words
                       /\ typed' = typed /\ tab'[t] # Loaded
                       => \/ tab[t].view[s].words = tab[t].base[s].words
                          \/ Taken(s, tab[t].view[s].words))
  BY DEF WordsKept, Held
<1> QED
  BY <1>1, StepKeeps, KeptAlways, PTL DEF Spec, WordingIsKept
=============================================================================
