------------------------- MODULE WorkspaceSaveProofs -------------------------
(***************************************************************************)
(* Proofs about WorkspaceSave.  Behind them is one idea: whatever a page,  *)
(* a receipt or an answer says about a revision of a section was true when *)
(* that revision was written, and a revision is written once.              *)
(***************************************************************************)
EXTENDS WorkspaceSave, FiniteSetTheorems, TLAPS

\* A page that waits for the answer of an Apply has got one about the wording.
Told(p) == p.truth # None /\ p.truth.rev # 0
Target(p) == edit[p.id].section

\* Somebody holds that revision n of section s reads w: the account, a page's
\* baseline, an answer on its way to a page, or a receipt.
Known(s, n, w) ==
  \/ n = rev[s] /\ w = text[s]
  \/ \E t \in Tabs : n = tab[t].seen[s] /\ w = tab[t].base[s]
  \/ \E t \in Tabs : /\ Told(tab[t]) /\ s = Target(tab[t])
                     /\ n = tab[t].truth.rev /\ w = tab[t].truth.text
  \/ \E r \in receipts : n = r.rev[s] /\ w = r.cmd.new[s]

KnownDoc(d) ==
  \/ d = doc
  \/ \E t \in Tabs : d = tab[t].doc
  \/ \E t \in Tabs : Told(tab[t]) /\ d = tab[t].truth.doc
  \/ \E r \in receipts : d = r.doc

-----------------------------------------------------------------------------
(* The invariant *)

\* What is known is not ahead of the account.
AllPast ==
  /\ \A s \in Sections, n \in Nat, w \in Texts :
       Known(s, n, w) => n <= rev[s] /\ (n = rev[s] => w = text[s])
  /\ \A d \in Nat : KnownDoc(d) => d <= doc

\* A revision has one wording.
OneWording ==
  \A s \in Sections, n \in Nat : \A v, w \in Texts : Known(s, n, v) /\ Known(s, n, w) => v = w

\* A save moves the document over all its sections at once.
NoDocBetween ==
  \A r \in receipts : r = Receipt(r.cmd) /\
    \A d \in Nat : KnownDoc(d) => d <= r.cmd.doc \/ r.doc <= d

\* An applied suggestion has moved its section on.
AppliedIsPast ==
  \A i \in EditIds : edit[i].state = "applied" => edit[i].rev < rev[edit[i].section]

\* The baseline of a page is not older than the command it may send again.
PendingIsOld(p) ==
  p.pending # None =>
    p.pending.doc <= p.doc /\ \A s \in Sections : p.pending.rev[s] <= p.seen[s]

\* A suggestion on a page is for the wording the page has, or for a newer one.
BoundToPage(p) == p.ted # "none" => p.seen[Target(p)] <= edit[p.id].rev

\* An answer tells of a row that moved after the suggestion was accepted, and
\* no save was based on an older one after that.
AnswerIsNew(p) ==
  p.truth # None =>
    /\ p.ted = "applying"
    /\ p.truth.rev # 0 =>
         /\ edit[p.id].rev < p.truth.rev /\ p.doc <= p.truth.doc
         /\ \A r \in receipts : p.truth.doc < r.doc => p.truth.rev <= r.cmd.rev[Target(p)]

ReceiptIsKept(p) == p.run.state = "receipt" => Receipt(p.run.cmd) \in receipts

PageOK(p) == PendingIsOld(p) /\ BoundToPage(p) /\ AnswerIsNew(p) /\ ReceiptIsKept(p)

IInv ==
  /\ TypeOK /\ AllPast /\ OneWording /\ NoDocBetween /\ AppliedIsPast
  /\ \A t \in Tabs : PageOK(tab[t])

-----------------------------------------------------------------------------
(* Types *)

FitPage(q) ==
  /\ q \in Pages
  /\ q.run # NoRun => q.pending = q.run.cmd
  /\ q.ted # "none" => q.id \in Asked

LEMMA PageFits ==
  ASSUME TypeOK, NEW t \in Tabs PROVE FitPage(tab[t])
BY DEF TypeOK, FitPage

LEMMA CommandFits ==
  ASSUME NEW p \in Pages PROVE Command(p) \in Commands
BY DEF Command, Pages, Commands

LEMMA ChangedSections ==
  ASSUME NEW c \in Commands
  PROVE  /\ IsFiniteSet(Changed(c)) /\ Cardinality(Changed(c)) \in Nat
         /\ Receipt(c) \in Receipts /\ Receipt(c).cmd = c
         /\ Receipt(c).doc = c.doc + Cardinality(Changed(c))
         /\ \A s \in Sections : Receipt(c).rev[s] =
              IF c.new[s] # c.old[s] THEN c.rev[s] + 1 ELSE c.rev[s]
<1>1. IsFiniteSet(Changed(c)) /\ Cardinality(Changed(c)) \in Nat
  BY SaveAssumption, FS_Subset, FS_CardinalityType DEF Changed
<1> QED
  BY <1>1 DEF Receipt, Receipts, Revisions, Commands, Changed

LEMMA MergedPage ==
  ASSUME NEW p \in Pages, NEW r \in Receipts
  PROVE  /\ Merged(p, r) \in Pages
         /\ Merged(p, r).pending = None /\ Merged(p, r).run = p.run
         /\ Merged(p, r).ted = p.ted /\ Merged(p, r).id = p.id /\ Merged(p, r).truth = p.truth
         /\ Merged(p, r).view = p.view
         /\ Merged(p, r).doc = IF p.doc > r.doc THEN p.doc ELSE r.doc
         /\ \A s \in Sections :
              /\ Merged(p, r).seen[s] = IF p.seen[s] > r.rev[s] THEN p.seen[s] ELSE r.rev[s]
              /\ Merged(p, r).base[s] =
                   IF p.seen[s] > r.rev[s] THEN p.base[s] ELSE r.cmd.new[s]
BY DEF Merged, Pages, Receipts, Commands, Revisions, Wording

\* A step of one page.
OnePage(t, q) ==
  /\ tab' = [tab EXCEPT ![t] = q]
  /\ UNCHANGED <<text, rev, doc, receipts, edit>>

LEMMA OnePageType ==
  ASSUME TypeOK, NEW t \in Tabs, NEW q, OnePage(t, q), FitPage(q)
  PROVE  /\ tab' \in [Tabs -> Pages] /\ tab'[t] = q
         /\ \A u \in Tabs : u # t => tab'[u] = tab[u]
         /\ \A u \in Tabs : FitPage(tab'[u])
<1>1. Asked' = Asked
  BY DEF OnePage, Asked
<1> QED
  BY <1>1 DEF OnePage, TypeOK, FitPage


-----------------------------------------------------------------------------
(* Steps of one page *)

OtherTypes ==
  net \subseteq Messages /\ by \in [Sections -> Tabs \cup {None}] /\ typed \in Nat /\ calm \in BOOLEAN

\* What a page may come to say: only what is known already.
Learned(q) ==
  /\ FitPage(q) /\ PageOK(q)
  /\ KnownDoc(q.doc)
  /\ \A s \in Sections : Known(s, q.seen[s], q.base[s])
  /\ Told(q) => Known(Target(q), q.truth.rev, q.truth.text) /\ KnownDoc(q.truth.doc)

LEMMA PageIsLearned ==
  ASSUME IInv, NEW t \in Tabs PROVE Learned(tab[t])
BY PageFits DEF IInv, Learned, Known, KnownDoc, FitPage, Pages

LEMMA KnownIsTyped ==
  ASSUME IInv
  PROVE  /\ \A s \in Sections : \A n, w : Known(s, n, w) => n \in Nat /\ w \in Texts
         /\ \A d : KnownDoc(d) => d \in Nat
<1> USE DEF IInv, TypeOK
<1>1. \A t \in Tabs : tab[t] \in Pages
  OBVIOUS
<1>2. \A t \in Tabs : Told(tab[t]) => /\ tab[t].truth.rev \in Nat /\ tab[t].truth.text \in Texts
                                      /\ tab[t].truth.doc \in Nat
  BY <1>1 DEF Told, Pages, Truths
<1>3. \A r \in receipts : /\ r.doc \in Nat
                          /\ \A s \in Sections : r.rev[s] \in Nat /\ r.cmd.new[s] \in Texts
  BY DEF Receipts, Commands, Revisions, Wording
<1>4. \A t \in Tabs : /\ tab[t].doc \in Nat
                      /\ \A s \in Sections : tab[t].seen[s] \in Nat /\ tab[t].base[s] \in Texts
  BY <1>1 DEF Pages, Revisions, Wording
<1> QED
  BY <1>2, <1>3, <1>4 DEF Known, KnownDoc, Revisions, Wording

LEMMA PageStep ==
  ASSUME IInv, OtherTypes', NEW t \in Tabs, NEW q, OnePage(t, q), Learned(q)
  PROVE  IInv'
<1> USE DEF IInv
<1>1. /\ tab' \in [Tabs -> Pages] /\ tab'[t] = q
      /\ \A u \in Tabs : u # t => tab'[u] = tab[u]
      /\ \A u \in Tabs : FitPage(tab'[u])
  BY OnePageType DEF Learned
<1>2. TypeOK'
  <2>1. Asked' = Asked
    BY DEF OnePage, Asked
  <2> QED
    BY <1>1, <2>1 DEF TypeOK, OtherTypes, OnePage, FitPage
<1>3. /\ \A s \in Sections : \A n, w : Known(s, n, w)' => Known(s, n, w)
      /\ \A d : KnownDoc(d)' => KnownDoc(d)
  <2>1. \A u \in Tabs, s \in Sections : Known(s, tab'[u].seen[s], tab'[u].base[s])
    BY <1>1, PageIsLearned DEF Learned
  <2>2. \A u \in Tabs : KnownDoc(tab'[u].doc)
    BY <1>1, PageIsLearned DEF Learned
  <2>3. \A u \in Tabs : Told(tab'[u]) => /\ Known(Target(tab'[u]), tab'[u].truth.rev, tab'[u].truth.text)
                                         /\ KnownDoc(tab'[u].truth.doc)
    BY <1>1, PageIsLearned DEF Learned
  <2>4. ASSUME NEW s \in Sections, NEW n, NEW w, Known(s, n, w)' PROVE Known(s, n, w)
    <3>1. CASE n = rev[s] /\ w = text[s]
      BY <3>1 DEF Known
    <3>2. CASE \E u \in Tabs : n = tab'[u].seen[s] /\ w = tab'[u].base[s]
      BY <3>2, <2>1
    <3>3. CASE \E u \in Tabs : /\ Told(tab'[u]) /\ s = Target(tab'[u])
                               /\ n = tab'[u].truth.rev /\ w = tab'[u].truth.text
      BY <3>3, <2>3
    <3>4. CASE \E r \in receipts : n = r.rev[s] /\ w = r.cmd.new[s]
      BY <3>4 DEF Known
    <3> QED
      BY <2>4, <3>1, <3>2, <3>3, <3>4 DEF Known, OnePage, Target, Told
  <2>5. ASSUME NEW d, KnownDoc(d)' PROVE KnownDoc(d)
    BY <2>5, <2>2, <2>3 DEF KnownDoc, OnePage, Told
  <2> QED
    BY <2>4, <2>5
<1>4. AllPast' /\ OneWording' /\ NoDocBetween' /\ AppliedIsPast'
  BY <1>3 DEF AllPast, OneWording, NoDocBetween, AppliedIsPast, OnePage
<1>5. (\A u \in Tabs : PageOK(tab[u]))'
  <2>1. \A u \in Tabs : PageOK(tab'[u])
    BY <1>1 DEF Learned
  <2> QED
    BY <2>1 DEF OnePage, PageOK, PendingIsOld, BoundToPage, AnswerIsNew, ReceiptIsKept, Target
<1> QED
  BY <1>2, <1>4, <1>5

\* A step that leaves alone what a page believes to be saved.
LEMMA SameBaseline ==
  ASSUME IInv, NEW t \in Tabs, NEW q, FitPage(q),
         q.seen = tab[t].seen, q.base = tab[t].base, q.doc = tab[t].doc,
         q.pending \in {None, tab[t].pending, Command(tab[t])},
         q.run.state = "receipt" => Receipt(q.run.cmd) \in receipts,
         q.ted = "none" \/ (tab[t].ted # "none" /\ q.id = tab[t].id),
         q.truth = None \/ (q.truth = tab[t].truth /\ q.ted = tab[t].ted /\ q.id = tab[t].id)
  PROVE  Learned(q)
<1> DEFINE p == tab[t]
<1>1. Learned(p)
  BY PageIsLearned
<1>2. PageOK(q)
  <2>1. PendingIsOld(q)
    <3>1. CASE q.pending = Command(p)
      BY <1>1, <3>1 DEF Learned, PendingIsOld, Command, FitPage, Pages, Revisions
    <3> QED
      BY <1>1, <3>1 DEF Learned, PageOK, PendingIsOld
  <2>2. BoundToPage(q)
    BY <1>1 DEF Learned, PageOK, BoundToPage, Target
  <2>3. AnswerIsNew(q)
    BY <1>1 DEF Learned, PageOK, AnswerIsNew, Target
  <2>4. ReceiptIsKept(q)
    BY DEF ReceiptIsKept
  <2> QED
    BY <2>1, <2>2, <2>3, <2>4 DEF PageOK
<1>3. Told(q) => Known(Target(q), q.truth.rev, q.truth.text) /\ KnownDoc(q.truth.doc)
  BY <1>1 DEF Learned, Told, Target
<1> QED
  BY <1>1, <1>2, <1>3 DEF Learned

LEMMA NoAnswerYet ==
  ASSUME IInv, NEW t \in Tabs, tab[t].ted # "applying"
  PROVE  tab[t].truth = None
BY DEF IInv, PageOK, AnswerIsNew

LEMMA EditedIsText ==
  /\ \A w \in Words : Edited(w) \in Texts /\ Edited(w).words = w
  /\ \A x \in Texts : x.words \in Words
BY DEF Edited, Texts

\* The owner changes a section of the page, with or without the suggestion on it.
LEMMA ChangingStep ==
  ASSUME IInv, NEW t \in Tabs, NEW s \in Sections, NEW x \in Texts, AtHand(t),
         NEW ted \in {"none", tab[t].ted},
         OnePage(t, [Changing(tab[t], s, x) EXCEPT !.ted = ted])
  PROVE  \E q : OnePage(t, q) /\ Learned(q)
<1> DEFINE p == tab[t]
           q == [Changing(p, s, x) EXCEPT !.ted = ted]
<1>1. FitPage(p) /\ Learned(p) /\ p.truth = None
  BY PageFits, PageIsLearned, NoAnswerYet DEF IInv, AtHand
<1>2. OnePage(t, q)
  OBVIOUS
<1>3. /\ FitPage(q)
      /\ q.seen = p.seen /\ q.base = p.base /\ q.doc = p.doc /\ q.pending = p.pending
      /\ q.ted = ted /\ q.id = p.id /\ q.truth = None
      /\ q.run.state = "receipt" => p.run.state = "receipt" /\ q.run.cmd = p.run.cmd
  <2> DEFINE v == [p.view EXCEPT ![s] = x]
             run == IF p.run.state = "none" THEN p.run ELSE [p.run EXCEPT !.current = FALSE]
  <2>1. p \in Pages /\ v \in Wording /\ p.run \in Runs
    BY <1>1 DEF FitPage, Pages, Wording
  <2>2. /\ run \in Runs /\ (run # NoRun => p.run # NoRun /\ run.cmd = p.run.cmd)
        /\ run.state = "receipt" => p.run.state = "receipt" /\ run.cmd = p.run.cmd
    BY <2>1 DEF Runs, NoRun
  <2>3. q = [p EXCEPT !.view = v, !.sync = "idle", !.scheduled = TRUE, !.run = run, !.ted = ted]
    BY <2>1 DEF Changing, Pages
  <2> HIDE DEF v, run, q
  <2>4. /\ q \in Pages /\ q.run = run
        /\ q.seen = p.seen /\ q.base = p.base /\ q.doc = p.doc /\ q.pending = p.pending
        /\ q.ted = ted /\ q.id = p.id /\ q.truth = p.truth
    BY <2>1, <2>2, <2>3 DEF Pages
  <2> QED
    BY <1>1, <2>2, <2>4 DEF FitPage
<1>4. q.run.state = "receipt" => Receipt(q.run.cmd) \in receipts
  BY <1>1, <1>3 DEF Learned, PageOK, ReceiptIsKept
<1> HIDE DEF q
<1>5. Learned(q)
  BY <1>3, <1>4, SameBaseline
<1> QED
  BY <1>2, <1>5

LEMMA OwnerStep ==
  ASSUME IInv, NEW t \in Tabs, NEW s \in Sections,
         ToggleLock(t, s) \/ \E w \in Words : Write(t, s, w)
  PROVE  \E q : OnePage(t, q) /\ Learned(q)
<1> DEFINE p == tab[t]
<1>1. p \in Pages /\ p.view[s] \in Texts /\ tab \in [Tabs -> Pages]
  BY PageFits DEF IInv, FitPage, Pages, Wording, TypeOK
<1>2. ASSUME NEW w \in Words, Write(t, s, w) PROVE \E q : OnePage(t, q) /\ Learned(q)
  <2>1. PICK ted : ted = IF Streams(t, s) THEN "none" ELSE p.ted
    OBVIOUS
  <2>2. OnePage(t, [Changing(p, s, Edited(w)) EXCEPT !.ted = ted]) /\ AtHand(t)
    BY <1>1, <1>2, <2>1 DEF Write, OnePage, rows, Changing, Pages
  <2> QED
    BY <2>1, <2>2, EditedIsText, ChangingStep
<1>3. CASE ToggleLock(t, s)
  <2>1. PICK x : x = [p.view[s] EXCEPT !.status = IF p.view[s].status = "locked"
                                                  THEN "edited" ELSE "locked"]
    OBVIOUS
  <2>2. x \in Texts
    BY <1>1, <2>1 DEF Texts
  <2>3. Changing(p, s, x) = [Changing(p, s, x) EXCEPT !.ted = p.ted]
    BY <1>1 DEF Changing, Pages
  <2>4. OnePage(t, Changing(p, s, x)) /\ AtHand(t)
    BY <1>1, <1>3, <2>1 DEF ToggleLock, OnePage, rows, Changing, Pages
  <2> QED
    BY <2>2, <2>3, <2>4, ChangingStep
<1> QED
  BY <1>2, <1>3

\* persistRemote sends what the page shows, on top of what it believes.
LEMMA SentIsOnePage ==
  ASSUME TypeOK, NEW t \in Tabs, NEW p \in Pages, p.ted # "none" => p.id \in Asked,
         p.pending = None, Sent(t, p),
         UNCHANGED <<rows, receipts, edit>>
  PROVE  /\ net' \subseteq Messages
         /\ \E q : /\ OnePage(t, q) /\ FitPage(q)
                   /\ q.seen = p.seen /\ q.base = p.base /\ q.doc = p.doc
                   /\ q.pending \in {None, Command(p)} /\ q.run.state # "receipt"
                   /\ q.ted = p.ted /\ q.id = p.id /\ q.truth = p.truth
<1>1. Command(p) \in Commands
  BY CommandFits
<1>2. CASE Unchanged(p)
  <2> DEFINE q == [p EXCEPT !.sync = "saved", !.run = NoRun]
  <2>1. OnePage(t, q) /\ net' = net
    BY <1>2 DEF Sent, OnePage, rows
  <2>2. /\ FitPage(q)
        /\ q.seen = p.seen /\ q.base = p.base /\ q.doc = p.doc
        /\ q.pending = None /\ q.run.state # "receipt"
        /\ q.ted = p.ted /\ q.id = p.id /\ q.truth = p.truth
    BY DEF FitPage, Pages, Runs, NoRun
  <2> HIDE DEF q
  <2> QED
    BY <2>1, <2>2 DEF TypeOK
<1>3. CASE ~Unchanged(p)
  <2> DEFINE c == Command(p)
             q == [p EXCEPT !.sync = "saving", !.pending = c,
                     !.run = [state |-> "sent", cmd |-> c, current |-> TRUE]]
  <2>1. OnePage(t, q) /\ net' = net \cup {[kind |-> "save", from |-> t, cmd |-> c]}
    BY <1>3 DEF Sent, OnePage, rows
  <2>2. /\ FitPage(q)
        /\ q.seen = p.seen /\ q.base = p.base /\ q.doc = p.doc
        /\ q.pending = c /\ q.run.state # "receipt"
        /\ q.ted = p.ted /\ q.id = p.id /\ q.truth = p.truth
    BY <1>1 DEF FitPage, Pages, Runs, NoRun
  <2>3. net' \subseteq Messages
    BY <2>1, <1>1 DEF TypeOK, Messages
  <2> HIDE DEF q
  <2> QED
    BY <2>1, <2>2, <2>3
<1> QED
  BY <1>2, <1>3

LEMMA PersistStep ==
  ASSUME IInv, NEW t \in Tabs, Persist(t)
  PROVE  net' \subseteq Messages /\ \E q : OnePage(t, q) /\ Learned(q)
<1> DEFINE o == tab[t]
<1>1. FitPage(o) /\ Learned(o) /\ TypeOK
  BY PageFits, PageIsLearned DEF IInv
<1>2. PICK p : p = [o EXCEPT !.scheduled = FALSE]
  OBVIOUS
<1>3. /\ FitPage(p) /\ Command(p) = Command(o)
      /\ p.seen = o.seen /\ p.base = o.base /\ p.doc = o.doc /\ p.pending = o.pending
      /\ p.ted = o.ted /\ p.id = o.id /\ p.truth = o.truth
  BY <1>1, <1>2 DEF FitPage, Pages, Command
<1>4. CASE p.pending = None
  <2>1. Sent(t, p)
    BY <1>2, <1>4 DEF Persist
  <2>2. PICK q : /\ net' \subseteq Messages
                 /\ OnePage(t, q) /\ FitPage(q)
                 /\ q.seen = p.seen /\ q.base = p.base /\ q.doc = p.doc
                 /\ q.pending \in {None, Command(p)} /\ q.run.state # "receipt"
                 /\ q.ted = p.ted /\ q.id = p.id /\ q.truth = p.truth
    BY <1>1, <1>3, <1>4, <2>1, SentIsOnePage DEF Persist, FitPage
  <2>3. Learned(q)
    BY <2>2, <1>3, SameBaseline
  <2> QED
    BY <2>2, <2>3
<1>5. CASE p.pending # None
  <2> DEFINE q == [p EXCEPT !.sync = "saving",
                     !.run = [state |-> "sent", cmd |-> p.pending, current |-> TRUE]]
  <2>1. OnePage(t, q) /\ net' = net \cup {[kind |-> "save", from |-> t, cmd |-> p.pending]}
    BY <1>2, <1>5 DEF Persist, OnePage, rows
  <2>2. /\ FitPage(q)
        /\ q.seen = p.seen /\ q.base = p.base /\ q.doc = p.doc
        /\ q.pending = p.pending /\ q.run.state # "receipt"
        /\ q.ted = p.ted /\ q.id = p.id /\ q.truth = p.truth
    BY <1>3, <1>5 DEF FitPage, Pages, Runs, NoRun
  <2>3. net' \subseteq Messages
    BY <1>1, <1>3, <1>5, <2>1 DEF TypeOK, Messages, FitPage, Pages
  <2> HIDE DEF q
  <2>4. Learned(q)
    BY <1>3, <2>2, SameBaseline
  <2> QED
    BY <2>1, <2>3, <2>4
<1> QED
  BY <1>4, <1>5

\* The receipt of a save that the page still waits for.
LEMMA ReceivedReceipt ==
  ASSUME IInv, NEW t \in Tabs, tab[t].run.state = "receipt"
  PROVE  /\ tab[t].run.cmd \in Commands /\ tab[t].pending = tab[t].run.cmd
         /\ Receipt(tab[t].run.cmd) \in receipts /\ Receipt(tab[t].run.cmd) \in Receipts
         /\ tab[t].doc >= tab[t].run.cmd.doc
         /\ \A s \in Sections : tab[t].seen[s] >= tab[t].run.cmd.rev[s]
<1> DEFINE p == tab[t]
<1>1. FitPage(p) /\ Learned(p)
  BY PageFits, PageIsLearned DEF IInv
<1>2. p.run.cmd \in Commands /\ p.pending = p.run.cmd
  BY <1>1 DEF FitPage, Pages, Runs, NoRun
<1>3. Receipt(p.run.cmd) \in receipts /\ Receipt(p.run.cmd) \in Receipts
  BY <1>1, <1>2, ChangedSections DEF Learned, PageOK, ReceiptIsKept
<1>4. p.pending # None => p.doc >= p.run.cmd.doc /\ \A s \in Sections : p.seen[s] >= p.run.cmd.rev[s]
  BY <1>1, <1>2 DEF Learned, PageOK, PendingIsOld, FitPage, Pages, Commands, Revisions
<1> QED
  BY <1>2, <1>3, <1>4, SaveAssumption

LEMMA RenderedPage ==
  ASSUME NEW p \in Pages, NEW q \in Pages,
         q.ted = p.ted, q.id = p.id, q.truth = p.truth, q.pending = None
  PROVE  /\ Rendered(p, q) \in Pages
         /\ Rendered(p, q).seen = q.seen /\ Rendered(p, q).base = q.base
         /\ Rendered(p, q).doc = q.doc /\ Rendered(p, q).pending = None
         /\ Rendered(p, q).id = q.id
         /\ \/ Rendered(p, q).ted = "none" /\ Rendered(p, q).truth = None
            \/ /\ Rendered(p, q).ted = q.ted /\ Rendered(p, q).truth = q.truth
               /\ p.ted # "none" => q.seen[Target(p)] = p.seen[Target(p)]
BY DEF Rendered, Pages, Truths, Target

\* The heart of it: merging a receipt into the baseline, the newer of both
\* section by section, says nothing that is not known.  A suggestion that the
\* page goes on with was accepted on what the page still has, so an answer to
\* its Apply is not older than the receipt.
LEMMA MergedIsLearned ==
  ASSUME IInv, NEW t \in Tabs, tab[t].run.state = "receipt",
         NEW m, m = Rendered(tab[t], Merged(tab[t], Receipt(tab[t].run.cmd))),
         NEW q, FitPage(q), q.seen = m.seen, q.base = m.base, q.doc = m.doc,
         q.ted = m.ted, q.id = m.id, q.truth = m.truth,
         q.pending \in {None, Command(m)}, q.run.state # "receipt"
  PROVE  Learned(q)
<1> DEFINE p == tab[t]
           c == p.run.cmd
           r == Receipt(c)
           g == Merged(p, r)
<1>1. /\ p \in Pages /\ FitPage(p) /\ Learned(p)
  BY PageFits, PageIsLearned DEF IInv, FitPage
<1>2. /\ c \in Commands /\ r \in receipts /\ r \in Receipts /\ p.doc >= c.doc
      /\ \A s \in Sections : p.seen[s] >= c.rev[s]
  BY ReceivedReceipt
<1>3. /\ g \in Pages /\ g.pending = None
      /\ g.ted = p.ted /\ g.id = p.id /\ g.truth = p.truth
      /\ g.doc = IF p.doc > r.doc THEN p.doc ELSE r.doc
      /\ \A s \in Sections :
           /\ g.seen[s] = IF p.seen[s] > r.rev[s] THEN p.seen[s] ELSE r.rev[s]
           /\ g.base[s] = IF p.seen[s] > r.rev[s] THEN p.base[s] ELSE r.cmd.new[s]
  BY <1>1, <1>2, MergedPage
<1> HIDE DEF g
<1>4. /\ q.seen = g.seen /\ q.base = g.base /\ q.doc = g.doc /\ q.id = p.id
      /\ \/ q.ted = "none" /\ q.truth = None
         \/ /\ q.ted = p.ted /\ q.truth = p.truth
            /\ p.ted # "none" => q.seen[Target(p)] = p.seen[Target(p)]
  BY <1>1, <1>3, RenderedPage DEF g
<1>5. \A s \in Sections : Known(s, q.seen[s], q.base[s])
  <2> SUFFICES ASSUME NEW s \in Sections PROVE Known(s, g.seen[s], g.base[s])
    BY <1>4
  <2>1. Known(s, p.seen[s], p.base[s])
    BY <1>1 DEF Learned
  <2>2. Known(s, r.rev[s], r.cmd.new[s])
    BY <1>2 DEF Known
  <2>3. \/ g.seen[s] = p.seen[s] /\ g.base[s] = p.base[s]
        \/ g.seen[s] = r.rev[s] /\ g.base[s] = r.cmd.new[s]
    BY <1>3
  <2> QED
    BY <2>1, <2>2, <2>3
<1>6. KnownDoc(q.doc)
  BY <1>1, <1>2, <1>3, <1>4 DEF Learned, KnownDoc
<1>7. Told(q) => Known(Target(q), q.truth.rev, q.truth.text) /\ KnownDoc(q.truth.doc)
  BY <1>1, <1>4 DEF Learned, Told, Target
<1>8. PendingIsOld(q)
  <2>1. q.pending = None \/ (q.pending.doc = q.doc /\ q.pending.rev = q.seen)
    BY DEF Command
  <2>2. q \in Pages
    BY DEF FitPage
  <2> QED
    BY <2>1, <2>2 DEF PendingIsOld, Pages, Revisions
<1>9. BoundToPage(q)
  BY <1>1, <1>4 DEF Learned, PageOK, BoundToPage, Target
<1>10. AnswerIsNew(q)
  <2> SUFFICES ASSUME q.truth # None PROVE AnswerIsNew(q)
    BY DEF AnswerIsNew
  <2>1. /\ q.ted = p.ted /\ q.truth = p.truth /\ p.ted = "applying"
        /\ q.seen[Target(p)] = p.seen[Target(p)]
    BY <1>1, <1>4 DEF Learned, PageOK, AnswerIsNew
  <2>2. CASE q.truth.rev # 0
    <3>1. /\ edit[p.id].rev < q.truth.rev /\ p.doc <= q.truth.doc
          /\ \A x \in receipts : q.truth.doc < x.doc => q.truth.rev <= x.cmd.rev[Target(p)]
          /\ p.seen[Target(p)] <= edit[p.id].rev
      BY <1>1, <2>1, <2>2 DEF Learned, PageOK, AnswerIsNew, BoundToPage
    <3>2. q.doc <= q.truth.doc
      <4>1. /\ r.cmd = c /\ r.doc \in Nat
        BY <1>2, ChangedSections DEF Receipts
      <4>2. /\ p.doc \in Nat /\ q.truth.doc \in Nat /\ q.truth.rev \in Nat
            /\ edit[p.id] \in Operations /\ edit[p.id].state # "none"
        BY <1>1, <2>1, <2>2 DEF IInv, TypeOK, FitPage, Pages, Truths, Asked
      <4>3. Target(p) \in Sections /\ edit[p.id].rev \in Nat
        BY <4>2 DEF Operations, NoEdit, Target
      <4>4. c.rev[Target(p)] \in Nat /\ p.seen[Target(p)] \in Nat
        BY <1>1, <1>2, <4>3 DEF Commands, Revisions, Pages
      <4>5. ~(q.truth.doc < r.doc)
        BY <1>2, <3>1, <4>1, <4>2, <4>3, <4>4
      <4>6. q.doc = p.doc \/ q.doc = r.doc
        BY <1>3, <1>4
      <4> QED
        BY <3>1, <4>1, <4>2, <4>5, <4>6
    <3> QED
      BY <1>4, <2>1, <3>1, <3>2 DEF AnswerIsNew, Target
  <2> QED
    BY <2>1, <2>2 DEF AnswerIsNew
<1> QED
  BY <1>5, <1>6, <1>7, <1>8, <1>9, <1>10 DEF Learned, PageOK, ReceiptIsKept

LEMMA SaveReceivedStep ==
  ASSUME IInv, NEW t \in Tabs, SaveReceived(t)
  PROVE  net' \subseteq Messages /\ \E q : OnePage(t, q) /\ Learned(q)
<1> DEFINE p == tab[t]
           r == Receipt(p.run.cmd)
<1>1. /\ p \in Pages /\ FitPage(p) /\ Learned(p) /\ TypeOK /\ p.run.state = "receipt"
      /\ net \subseteq Messages
  BY PageFits, PageIsLearned DEF IInv, FitPage, SaveReceived, TypeOK
<1>2. r \in Receipts
  BY <1>1, ReceivedReceipt
<1>3. CASE Regression(p, r)
  <2> DEFINE q == Failed([p EXCEPT !.pending = None])
  <2>1. OnePage(t, q) /\ net' = net
    BY <1>3 DEF SaveReceived, OnePage, rows
  <2>2. /\ FitPage(q)
        /\ q.seen = p.seen /\ q.base = p.base /\ q.doc = p.doc
        /\ q.pending = None /\ q.run.state # "receipt"
        /\ q.ted = p.ted /\ q.id = p.id /\ q.truth = p.truth
    BY <1>1 DEF Failed, FitPage, Pages, Runs, NoRun
  <2> HIDE DEF q
  <2>3. Learned(q)
    BY <2>2, SameBaseline
  <2> QED
    BY <1>1, <2>1, <2>3
<1>4. CASE ~Regression(p, r)
  <2>1. PICK m : m = Rendered(p, Merged(p, r))
    OBVIOUS
  <2>2. m \in Pages /\ m.pending = None /\ (m.ted # "none" => m.id \in Asked)
    <3>1. /\ Merged(p, r) \in Pages /\ Merged(p, r).pending = None
          /\ Merged(p, r).ted = p.ted /\ Merged(p, r).id = p.id /\ Merged(p, r).truth = p.truth
      BY <1>1, <1>2, MergedPage
    <3>2. /\ m \in Pages /\ m.pending = None /\ m.id = p.id
          /\ m.ted = "none" \/ m.ted = p.ted
      BY <1>1, <2>1, <3>1, RenderedPage
    <3> QED
      BY <1>1, <3>2 DEF FitPage
  <2>3. CASE p.run.current /\ r.cmd.new # p.view
    <3>1. Sent(t, m)
      BY <1>4, <2>1, <2>3 DEF SaveReceived
    <3>2. PICK q : /\ net' \subseteq Messages
                   /\ OnePage(t, q) /\ FitPage(q)
                   /\ q.seen = m.seen /\ q.base = m.base /\ q.doc = m.doc
                   /\ q.pending \in {None, Command(m)} /\ q.run.state # "receipt"
                   /\ q.ted = m.ted /\ q.id = m.id /\ q.truth = m.truth
      BY <1>1, <2>2, <3>1, SentIsOnePage DEF SaveReceived
    <3>3. Learned(q)
      BY <1>1, <2>1, <3>2, MergedIsLearned
    <3> QED
      BY <3>2, <3>3
  <2>4. CASE ~(p.run.current /\ r.cmd.new # p.view)
    <3> DEFINE q == [m EXCEPT !.run = NoRun, !.sync = IF p.run.current THEN "saved" ELSE @]
    <3>1. OnePage(t, q) /\ net' = net
      BY <1>4, <2>1, <2>4 DEF SaveReceived, OnePage, rows
    <3>2. /\ FitPage(q)
          /\ q.seen = m.seen /\ q.base = m.base /\ q.doc = m.doc
          /\ q.pending = None /\ q.run.state # "receipt"
          /\ q.ted = m.ted /\ q.id = m.id /\ q.truth = m.truth
      BY <2>2 DEF FitPage, Pages, Runs, NoRun
    <3> HIDE DEF q
    <3>3. Learned(q)
      BY <1>1, <2>1, <3>2, MergedIsLearned
    <3> QED
      BY <1>1, <3>1, <3>3
  <2> QED
    BY <2>3, <2>4
<1> QED
  BY <1>3, <1>4

\* Steps that give a save up, or take up another.
LEMMA SaveGivenUp ==
  ASSUME IInv, NEW t \in Tabs, SaveRefused(t) \/ SaveUnknown(t) \/ Retry(t)
  PROVE  \E q : OnePage(t, q) /\ Learned(q)
<1> DEFINE p == tab[t]
<1>1. /\ p \in Pages /\ FitPage(p) /\ Learned(p)
  BY PageFits, PageIsLearned DEF IInv, FitPage
<1>2. CASE SaveRefused(t)
  <2> DEFINE q == Failed([p EXCEPT !.pending = None])
  <2>1. OnePage(t, q)
    BY <1>2 DEF SaveRefused, OnePage, rows
  <2>2. /\ FitPage(q)
        /\ q.seen = p.seen /\ q.base = p.base /\ q.doc = p.doc
        /\ q.pending = None /\ q.run.state # "receipt"
        /\ q.ted = p.ted /\ q.id = p.id /\ q.truth = p.truth
    BY <1>1 DEF Failed, FitPage, Pages, Runs, NoRun
  <2> HIDE DEF q
  <2> QED
    BY <2>1, <2>2, SameBaseline
<1>3. CASE SaveUnknown(t)
  <2> DEFINE q == Failed(p)
  <2>1. OnePage(t, q)
    BY <1>3 DEF SaveUnknown, OnePage, rows
  <2>2. /\ FitPage(q)
        /\ q.seen = p.seen /\ q.base = p.base /\ q.doc = p.doc
        /\ q.pending = p.pending /\ q.run.state # "receipt"
        /\ q.ted = p.ted /\ q.id = p.id /\ q.truth = p.truth
    BY <1>1 DEF Failed, FitPage, Pages, Runs, NoRun
  <2> HIDE DEF q
  <2> QED
    BY <2>1, <2>2, SameBaseline
<1>4. CASE Retry(t)
  <2> DEFINE q == [p EXCEPT !.scheduled = TRUE]
  <2>1. OnePage(t, q)
    BY <1>1, <1>4 DEF Retry, OnePage, rows, Pages, IInv, TypeOK
  <2>2. /\ FitPage(q)
        /\ q.seen = p.seen /\ q.base = p.base /\ q.doc = p.doc
        /\ q.pending = p.pending /\ q.run = p.run
        /\ q.ted = p.ted /\ q.id = p.id /\ q.truth = p.truth
    BY <1>1 DEF FitPage, Pages
  <2>3. q.run.state = "receipt" => Receipt(q.run.cmd) \in receipts
    BY <1>1, <2>2 DEF Learned, PageOK, ReceiptIsKept
  <2> HIDE DEF q
  <2> QED
    BY <2>1, <2>2, <2>3, SameBaseline
<1> QED
  BY <1>2, <1>3, <1>4

\* Steps after which the page has no answer, and the suggestion it had or none.
LEMMA TedGoesOn ==
  ASSUME IInv, NEW t \in Tabs, NEW p, p = tab[t], NEW ted \in {"none", "review", "applying"},
         p.ted # "none", OnePage(t, [p EXCEPT !.ted = ted, !.truth = None])
  PROVE  \E q : OnePage(t, q) /\ Learned(q)
<1> DEFINE q == [p EXCEPT !.ted = ted, !.truth = None]
<1>1. /\ p \in Pages /\ FitPage(p) /\ Learned(p)
  BY PageFits, PageIsLearned DEF IInv, FitPage
<1>2. /\ FitPage(q)
      /\ q.seen = p.seen /\ q.base = p.base /\ q.doc = p.doc
      /\ q.pending = p.pending /\ q.run = p.run
      /\ q.ted = ted /\ q.id = p.id /\ q.truth = None
  BY <1>1 DEF FitPage, Pages, Truths
<1>3. q.run.state = "receipt" => Receipt(q.run.cmd) \in receipts
  BY <1>1, <1>2 DEF Learned, PageOK, ReceiptIsKept
<1>4. OnePage(t, q)
  OBVIOUS
<1> HIDE DEF q
<1>5. Learned(q)
  BY <1>2, <1>3, SameBaseline
<1> QED
  BY <1>4, <1>5

LEMMA TedSteps ==
  ASSUME IInv, NEW t \in Tabs,
         StreamEnds(t) \/ Confirm(t) \/ ApplyUnknown(t) \/ Leave(t)
  PROVE  net' \subseteq Messages /\ \E q : OnePage(t, q) /\ Learned(q)
<1> DEFINE p == tab[t]
<1>1. /\ p \in Pages /\ FitPage(p) /\ net \subseteq Messages
  BY PageFits DEF IInv, FitPage, TypeOK
<1>2. PICK o : o = p
  OBVIOUS
<1>3. CASE StreamEnds(t)
  <2>1. OnePage(t, [o EXCEPT !.ted = "none", !.truth = None])
    BY <1>1, <1>2, <1>3, NoAnswerYet DEF StreamEnds, OnePage, rows, Pages, IInv, TypeOK
  <2> QED
    BY <1>1, <1>2, <1>3, <2>1, TedGoesOn DEF StreamEnds
<1>4. CASE Confirm(t)
  <2>1. OnePage(t, [o EXCEPT !.ted = "applying", !.truth = None])
    BY <1>1, <1>2, <1>4, NoAnswerYet DEF Confirm, OnePage, rows, Pages, IInv, TypeOK
  <2>2. p.id \in EditIds
    BY <1>1, <1>4 DEF Confirm, FitPage, Asked
  <2>3. net' \subseteq Messages
    BY <1>1, <1>4, <2>2 DEF Confirm, Messages
  <2> QED
    BY <1>1, <1>2, <1>4, <2>1, <2>3, TedGoesOn DEF Confirm
<1>5. CASE ApplyUnknown(t)
  <2>1. OnePage(t, [o EXCEPT !.ted = "review", !.truth = None])
    BY <1>1, <1>2, <1>5 DEF ApplyUnknown, OnePage, rows, Pages, IInv, TypeOK
  <2> QED
    BY <1>1, <1>2, <1>5, <2>1, TedGoesOn DEF ApplyUnknown
<1>6. CASE Leave(t)
  <2>1. OnePage(t, [o EXCEPT !.ted = "none", !.truth = None])
    BY <1>1, <1>2, <1>6 DEF Leave, OnePage, rows, Pages, IInv, TypeOK
  <2> QED
    BY <1>1, <1>2, <1>6, <2>1, TedGoesOn DEF Leave
<1> QED
  BY <1>3, <1>4, <1>5, <1>6

LEMMA RecoverStep ==
  ASSUME IInv, NEW t \in Tabs, NEW s \in Sections, Recover(t, s)
  PROVE  \E q : OnePage(t, q) /\ Learned(q)
<1> DEFINE p == tab[t]
<1>1. /\ p \in Pages /\ FitPage(p) /\ Learned(p) /\ p.ted = "none" /\ p.truth = None
  BY PageFits, PageIsLearned, NoAnswerYet DEF IInv, FitPage, Recover
<1>2. PICK i \in Latest(s) : /\ edit[i].state = "ready" /\ StillAccepted(edit[i])
                             /\ tab' = [tab EXCEPT ![t].ted = "review", ![t].id = i]
  BY DEF Recover
<1>3. i \in Asked /\ i \in EditIds /\ edit[i].section = s /\ rev[s] = edit[i].rev
  BY <1>2 DEF Latest, Asked, StillAccepted
<1> DEFINE q == [p EXCEPT !.ted = "review", !.id = i]
<1>4. OnePage(t, q)
  BY <1>1, <1>2 DEF Recover, OnePage, rows, Pages, IInv, TypeOK
<1>5. /\ FitPage(q)
      /\ q.seen = p.seen /\ q.base = p.base /\ q.doc = p.doc
      /\ q.pending = p.pending /\ q.run = p.run
      /\ q.ted = "review" /\ q.id = i /\ q.truth = None
  BY <1>1, <1>3 DEF FitPage, Pages
<1> HIDE DEF q
<1>6. q.seen[Target(q)] <= edit[q.id].rev
  <2>1. Known(s, p.seen[s], p.base[s]) /\ p.seen[s] \in Nat /\ p.base[s] \in Texts
    BY <1>1 DEF Learned, Pages, Revisions, Wording
  <2>2. p.seen[s] <= rev[s]
    BY <2>1 DEF IInv, AllPast
  <2> QED
    BY <1>3, <1>5, <2>2 DEF Target
<1>7. PageOK(q)
  BY <1>1, <1>5, <1>6 DEF Learned, PageOK, PendingIsOld, BoundToPage, AnswerIsNew, ReceiptIsKept
<1>8. Learned(q)
  BY <1>1, <1>5, <1>7 DEF Learned, Told
<1> QED
  BY <1>4, <1>8

LEMMA ApplyReceivedStep ==
  ASSUME IInv, NEW t \in Tabs, ApplyReceived(t)
  PROVE  \E q : OnePage(t, q) /\ Learned(q)
<1> DEFINE p == tab[t]
<1>1. /\ p \in Pages /\ FitPage(p) /\ Learned(p) /\ p.ted = "applying" /\ p.truth # None
  BY PageFits, PageIsLearned DEF IInv, FitPage, ApplyReceived
<1>2. PICK o : o = p
  OBVIOUS
<1>3. CASE p.truth.rev = 0
  <2>1. OnePage(t, [o EXCEPT !.ted = "review", !.truth = None])
    BY <1>2, <1>3 DEF ApplyReceived, OnePage, rows
  <2> QED
    BY <1>1, <1>2, <2>1, TedGoesOn
<1>4. CASE p.truth.rev # 0
  <2> DEFINE s == edit[p.id].section
             run == IF p.run.state = "none" THEN NoRun ELSE [p.run EXCEPT !.current = FALSE]
             q == [p EXCEPT !.view = [@ EXCEPT ![s] = p.truth.text],
                            !.base = [@ EXCEPT ![s] = p.truth.text],
                            !.seen = [@ EXCEPT ![s] = p.truth.rev], !.doc = p.truth.doc, !.run = run,
                            !.sync = "idle", !.scheduled = TRUE, !.ted = "none", !.truth = None]
  <2>1. OnePage(t, q)
    BY <1>4 DEF ApplyReceived, OnePage, rows
  <2>2. s \in Sections /\ edit[p.id].rev \in Nat
    BY <1>1 DEF IInv, TypeOK, FitPage, Asked, Operations, NoEdit
  <2>3. p.truth.rev \in Nat /\ p.truth.text \in Texts /\ p.truth.doc \in Nat
    BY <1>1, <1>4 DEF Pages, Truths
  <2>4. /\ run \in Runs /\ run.state = p.run.state
        /\ run # NoRun => p.run # NoRun /\ run.cmd = p.run.cmd
    BY <1>1 DEF Pages, Runs, NoRun
  <2> HIDE DEF run
  <2>5. /\ q \in Pages
        /\ q.pending = p.pending /\ q.doc = p.truth.doc /\ q.run = run
        /\ q.ted = "none" /\ q.truth = None
    BY <1>1, <2>2, <2>3, <2>4 DEF Pages, Truths, Wording, Revisions
  <2>6. \A x \in Sections : /\ q.seen[x] = IF x = s THEN p.truth.rev ELSE p.seen[x]
                            /\ q.base[x] = IF x = s THEN p.truth.text ELSE p.base[x]
    BY <1>1, <2>2 DEF Pages, Wording, Revisions
  <2> HIDE DEF q
  <2>7. FitPage(q)
    BY <1>1, <2>4, <2>5 DEF FitPage
  <2>8. Told(p) /\ Target(p) = s
    BY <1>1, <1>4 DEF Told, Target
  <2>9. KnownDoc(q.doc) /\ \A x \in Sections : Known(x, q.seen[x], q.base[x])
    BY <1>1, <2>5, <2>6, <2>8 DEF Learned
  <2>10. PendingIsOld(q)
    <3> SUFFICES ASSUME p.pending # None PROVE PendingIsOld(q)
      BY <2>5 DEF PendingIsOld
    <3>1. /\ p.pending.doc <= p.doc /\ \A x \in Sections : p.pending.rev[x] <= p.seen[x]
          /\ p.seen[s] <= edit[p.id].rev /\ edit[p.id].rev < p.truth.rev /\ p.doc <= p.truth.doc
      BY <1>1, <1>4, <2>8 DEF Learned, PageOK, PendingIsOld, BoundToPage, AnswerIsNew
    <3>2. p.pending.doc \in Nat /\ p.doc \in Nat /\ \A x \in Sections : p.pending.rev[x] \in Nat /\ p.seen[x] \in Nat
      BY <1>1 DEF Pages, Commands, Revisions
    <3>3. q.pending.doc <= q.doc
      BY <2>3, <2>5, <3>1, <3>2
    <3>4. \A x \in Sections : q.pending.rev[x] <= q.seen[x]
      BY <2>2, <2>3, <2>5, <2>6, <3>1, <3>2
    <3> QED
      BY <3>3, <3>4 DEF PendingIsOld
  <2>11. PageOK(q)
    BY <1>1, <2>4, <2>5, <2>10 DEF Learned, PageOK, BoundToPage, AnswerIsNew, ReceiptIsKept, NoRun
  <2>12. Learned(q)
    BY <2>5, <2>7, <2>9, <2>11 DEF Learned, Told
  <2> QED
    BY <2>1, <2>12
<1> QED
  BY <1>3, <1>4

LEMMA ReloadStep ==
  ASSUME IInv, NEW t \in Tabs, Reload(t)
  PROVE  /\ net' \subseteq Messages /\ by' \in [Sections -> Tabs \cup {None}]
         /\ \E q : OnePage(t, q) /\ Learned(q)
<1> USE DEF IInv, TypeOK
<1> DEFINE q == Loaded
<1>1. net' \subseteq Messages
  <2>1. \A m \in Messages : [m EXCEPT !.from = None] \in Messages
    BY DEF Messages
  <2> QED
    BY <2>1 DEF Reload
<1>2. by' \in [Sections -> Tabs \cup {None}]
  BY DEF Reload
<1>3. OnePage(t, q)
  BY DEF Reload, OnePage
<1>4. /\ FitPage(q) /\ q.seen = rev /\ q.base = text /\ q.doc = doc
      /\ q.pending = None /\ q.run.state = "none" /\ q.ted = "none" /\ q.truth = None
  <2>1. q.id = 0 /\ q.run = NoRun
    BY DEF Loaded
  <2> QED
    BY <2>1 DEF Loaded, FitPage, Pages, Runs, NoRun, Truths
<1> HIDE DEF q
<1>5. Learned(q)
  BY <1>4 DEF Learned, Known, KnownDoc, Told, PageOK, PendingIsOld, BoundToPage, AnswerIsNew, ReceiptIsKept
<1> QED
  BY <1>1, <1>2, <1>3, <1>5

-----------------------------------------------------------------------------
(* Steps of the section edits *)

\* What a step of an edit may do to a page: take its suggestion away, let it go
\* on with the one it has, or give it a new one for wording it has.
Follows(p, q) ==
  /\ q \in Pages
  /\ q.seen = p.seen /\ q.base = p.base /\ q.doc = p.doc
  /\ q.pending = p.pending /\ q.run = p.run /\ q.truth = p.truth
  /\ p.truth # None => q.ted = p.ted /\ q.id = p.id
  /\ \/ q.ted = "none"
     \/ p.ted # "none" /\ q.id = p.id
     \/ q.id \in Asked' /\ q.seen[edit'[q.id].section] <= edit'[q.id].rev

LEMMA EditStep ==
  ASSUME IInv, OtherTypes', UNCHANGED <<text, rev, doc, receipts>>,
         edit' \in [EditIds -> Operations],
         \A i \in Asked : /\ i \in Asked' /\ edit'[i].section = edit[i].section
                          /\ edit'[i].rev = edit[i].rev,
         \A i \in EditIds : edit'[i].state = "applied" => edit[i].state = "applied",
         tab' \in [Tabs -> Pages],
         \A u \in Tabs : Follows(tab[u], tab'[u])
  PROVE  IInv'
<1> USE DEF IInv
<1>1. \A u \in Tabs : FitPage(tab[u]) /\ PageOK(tab[u])
  BY PageFits
<1>2. TypeOK'
  BY <1>1 DEF TypeOK, OtherTypes, Follows, FitPage
<1>3. \A u \in Tabs : tab[u].truth # None =>
        /\ tab[u].ted = "applying" /\ tab[u].id \in Asked
        /\ tab'[u].ted = "applying" /\ tab'[u].id = tab[u].id
        /\ edit'[tab'[u].id].section = edit[tab[u].id].section
        /\ edit'[tab'[u].id].rev = edit[tab[u].id].rev
  BY <1>1 DEF PageOK, AnswerIsNew, FitPage, Follows
<1>4. /\ \A s \in Sections : \A n, w : Known(s, n, w)' => Known(s, n, w)
      /\ \A d : KnownDoc(d)' => KnownDoc(d)
  <2>1. ASSUME NEW s \in Sections, NEW n, NEW w, Known(s, n, w)' PROVE Known(s, n, w)
    <3>1. CASE n = rev[s] /\ w = text[s]
      BY <3>1 DEF Known
    <3>2. CASE \E u \in Tabs : n = tab'[u].seen[s] /\ w = tab'[u].base[s]
      BY <3>2 DEF Known, Follows
    <3>3. CASE \E u \in Tabs : /\ Told(tab'[u]) /\ s = edit'[tab'[u].id].section
                               /\ n = tab'[u].truth.rev /\ w = tab'[u].truth.text
      <4>1. PICK u \in Tabs : /\ Told(tab'[u]) /\ s = edit'[tab'[u].id].section
                              /\ n = tab'[u].truth.rev /\ w = tab'[u].truth.text
        BY <3>3
      <4>2. tab'[u].truth = tab[u].truth
        BY DEF Follows
      <4> QED
        BY <4>1, <4>2, <1>3 DEF Known, Told, Target
    <3>4. CASE \E r \in receipts : n = r.rev[s] /\ w = r.cmd.new[s]
      BY <3>4 DEF Known
    <3> QED
      BY <2>1, <3>1, <3>2, <3>3, <3>4 DEF Known, Target, Told
  <2>2. ASSUME NEW d, KnownDoc(d)' PROVE KnownDoc(d)
    BY <2>2 DEF KnownDoc, Told, Follows
  <2> QED
    BY <2>1, <2>2
<1>5. AllPast' /\ OneWording' /\ NoDocBetween'
  BY <1>4 DEF AllPast, OneWording, NoDocBetween
<1>6. AppliedIsPast'
  BY DEF AppliedIsPast, Asked
<1>7. ASSUME NEW u \in Tabs PROVE PageOK(tab[u])'
  <2> DEFINE p == tab[u]
             q == tab'[u]
  <2>1. PageOK(p) /\ FitPage(p) /\ Follows(p, q)
    BY <1>1
  <2>2. PendingIsOld(q)
    BY <2>1 DEF PageOK, PendingIsOld, Follows
  <2>3. q.ted # "none" => q.seen[edit'[q.id].section] <= edit'[q.id].rev
    BY <2>1 DEF PageOK, BoundToPage, Target, Follows, FitPage
  <2>4. AnswerIsNew(tab[u])'
    BY <2>1, <1>3 DEF PageOK, AnswerIsNew, Target, Follows
  <2>5. q.run.state = "receipt" => Receipt(q.run.cmd) \in receipts
    BY <2>1 DEF PageOK, ReceiptIsKept, Follows
  <2> QED
    BY <2>2, <2>3, <2>4, <2>5 DEF PageOK, PendingIsOld, BoundToPage, Target, ReceiptIsKept, Receipt
<1> QED
  BY <1>2, <1>5, <1>6, <1>7

LEMMA SameFollows ==
  ASSUME NEW p \in Pages PROVE Follows(p, p)
BY DEF Follows

\* A suggestion that streams or is reviewed has no answer to an Apply yet.
LEMMA TedFollows ==
  ASSUME NEW p \in Pages, p.truth = None, NEW ted \in {"none", "review"},
         p.ted # "none"
  PROVE  Follows(p, [p EXCEPT !.ted = ted])
<1> DEFINE q == [p EXCEPT !.ted = ted]
<1>1. /\ q \in Pages /\ q.ted = ted /\ q.id = p.id
      /\ q.seen = p.seen /\ q.base = p.base /\ q.doc = p.doc
      /\ q.pending = p.pending /\ q.run = p.run /\ q.truth = p.truth
  BY DEF Pages
<1> QED
  BY <1>1 DEF Follows

LEMMA AskStep ==
  ASSUME IInv, NEW t \in Tabs, NEW s \in Sections, Ask(t, s)
  PROVE  IInv'
<1> USE DEF IInv, TypeOK
<1> DEFINE p == tab[t]
<1>1. p \in Pages /\ p.ted = "none" /\ p.truth = None /\ rev[s] = p.seen[s]
  BY NoAnswerYet DEF Ask
<1>2. PICK i \in EditIds :
        /\ Asked = 1..(i - 1)
        /\ edit' = [edit EXCEPT ![i] = [state |-> "accepted", section |-> s, rev |-> rev[s],
                                        old |-> text[s].words, new |-> text[s].words]]
        /\ tab' = [tab EXCEPT ![t].ted = "streaming", ![t].id = i]
  BY DEF Ask
<1>3. i \notin Asked
  BY <1>2 DEF EditIds
<1>4. /\ edit' \in [EditIds -> Operations]
      /\ edit'[i].state = "accepted" /\ edit'[i].section = s /\ edit'[i].rev = rev[s]
      /\ \A j \in EditIds : j # i => edit'[j] = edit[j]
  BY <1>2, EditedIsText DEF Operations, Wording, Revisions
<1>5. /\ \A j \in Asked : /\ j \in Asked' /\ edit'[j].section = edit[j].section
                          /\ edit'[j].rev = edit[j].rev
      /\ i \in Asked'
  BY <1>3, <1>4 DEF Asked
<1>6. \A j \in EditIds : edit'[j].state = "applied" => edit[j].state = "applied"
  BY <1>4
<1> DEFINE q == [p EXCEPT !.ted = "streaming", !.id = i]
<1>7. /\ tab' = [tab EXCEPT ![t] = q]
      /\ q \in Pages /\ q.ted = "streaming" /\ q.id = i
      /\ q.seen = p.seen /\ q.base = p.base /\ q.doc = p.doc
      /\ q.pending = p.pending /\ q.run = p.run /\ q.truth = p.truth
  BY <1>1, <1>2 DEF Pages
<1>8. Follows(p, q)
  <2>1. q.seen[edit'[q.id].section] <= edit'[q.id].rev
    BY <1>1, <1>4, <1>7 DEF Pages, Revisions
  <2> HIDE DEF q
  <2> QED
    BY <1>1, <1>5, <1>7, <2>1 DEF Follows
<1> HIDE DEF q
<1>9. tab' \in [Tabs -> Pages] /\ \A u \in Tabs : Follows(tab[u], tab'[u])
  BY <1>7, <1>8, SameFollows
<1>10. UNCHANGED <<text, rev, doc, receipts>> /\ OtherTypes'
  BY DEF Ask, rows, OtherTypes
<1> QED
  BY <1>4, <1>5, <1>6, <1>9, <1>10, EditStep

\* The state of an edit moves, and with it what a page makes of it.
LEMMA StateStep ==
  ASSUME IInv, NEW i \in EditIds, NEW st \in {"dispatched", "ready", "discarded", "ended"},
         NEW w \in Words, edit[i].state # "none",
         \/ edit' = [edit EXCEPT ![i].state = st]
         \/ edit' = [edit EXCEPT ![i].state = st, ![i].new = w],
         UNCHANGED <<rows, receipts, net, typed, calm>>,
         tab' \in [Tabs -> Pages], \A u \in Tabs : Follows(tab[u], tab'[u])
  PROVE  IInv'
<1> USE DEF IInv, TypeOK
<1>1. edit[i] \in Operations /\ edit[i] # NoEdit
  BY DEF NoEdit
<1>2. /\ edit' \in [EditIds -> Operations]
      /\ edit'[i].state = st /\ edit'[i].section = edit[i].section /\ edit'[i].rev = edit[i].rev
      /\ \A j \in EditIds : j # i => edit'[j] = edit[j]
  BY <1>1 DEF Operations
<1>3. /\ \A j \in Asked : /\ j \in Asked' /\ edit'[j].section = edit[j].section
                          /\ edit'[j].rev = edit[j].rev
      /\ \A j \in EditIds : edit'[j].state = "applied" => edit[j].state = "applied"
  BY <1>2 DEF Asked
<1>4. UNCHANGED <<text, rev, doc, receipts>> /\ OtherTypes'
  BY DEF rows, OtherTypes
<1> QED
  BY <1>2, <1>3, <1>4, EditStep

LEMMA OperationSteps ==
  ASSUME IInv, NEW i \in EditIds, NEW v \in Words,
         Dispatch(i) \/ Settle(i) \/ Complete(i, v)
  PROVE  IInv'
<1> USE DEF IInv, TypeOK
<1>1. \A u \in Tabs : tab[u] \in Pages /\ (tab[u].ted = "streaming" => tab[u].truth = None)
  BY NoAnswerYet
<1>2. CASE Dispatch(i)
  <2>1. edit' = [edit EXCEPT ![i].state = "dispatched"] /\ edit[i].state # "none"
        /\ UNCHANGED <<rows, receipts, net, typed, calm>> /\ tab' = tab
    BY <1>2 DEF Dispatch
  <2>2. tab' \in [Tabs -> Pages] /\ \A u \in Tabs : Follows(tab[u], tab'[u])
    BY <1>1, <2>1, SameFollows
  <2> QED
    BY <2>1, <2>2, StateStep
<1>3. CASE Settle(i)
  <2>1. /\ edit' = [edit EXCEPT ![i].state = "ended"] /\ edit[i].state # "none"
        /\ UNCHANGED <<rows, receipts, net, typed, calm>>
        /\ tab' = [t \in Tabs |-> IF tab[t].ted = "streaming" /\ tab[t].id = i
                                  THEN [tab[t] EXCEPT !.ted = "none"] ELSE tab[t]]
    BY <1>3 DEF Settle
  <2>2. \A u \in Tabs : Follows(tab[u], tab'[u])
    BY <1>1, <2>1, SameFollows, TedFollows
  <2>3. tab' \in [Tabs -> Pages]
    BY <2>1, <2>2 DEF Follows
  <2> QED
    BY <2>1, <2>2, <2>3, StateStep
<1>4. CASE Complete(i, v)
  <2>1. /\ edit' = [edit EXCEPT ![i].state = "ready", ![i].new = v] /\ edit[i].state # "none"
        /\ UNCHANGED <<rows, receipts, net, typed, calm>>
        /\ tab' = [t \in Tabs |-> IF tab[t].ted = "streaming" /\ tab[t].id = i
                                  THEN [tab[t] EXCEPT !.ted = "review"] ELSE tab[t]]
    BY <1>4 DEF Complete
  <2>2. \A u \in Tabs : Follows(tab[u], tab'[u])
    BY <1>1, <2>1, SameFollows, TedFollows
  <2>3. tab' \in [Tabs -> Pages]
    BY <2>1, <2>2 DEF Follows
  <2> QED
    BY <2>1, <2>2, <2>3, StateStep
<1> QED
  BY <1>2, <1>3, <1>4

LEMMA DiscardStep ==
  ASSUME IInv, NEW t \in Tabs, Discard(t)
  PROVE  IInv'
<1> USE DEF IInv, TypeOK
<1> DEFINE p == tab[t]
<1>1. p \in Pages /\ p.ted = "review" /\ p.truth = None
  BY NoAnswerYet DEF Discard
<1>2. PICK i : i = p.id
  OBVIOUS
<1>3. i \in EditIds /\ edit[i].state # "none"
  BY <1>1, <1>2 DEF Asked
<1>4. /\ edit' = [edit EXCEPT ![i].state = "discarded"]
      /\ tab' = [tab EXCEPT ![t] = [p EXCEPT !.ted = "none"]]
      /\ UNCHANGED <<rows, receipts, net, typed, calm>>
  BY <1>1, <1>2 DEF Discard, Pages
<1>5. Follows(p, [p EXCEPT !.ted = "none"])
  BY <1>1, TedFollows
<1>6. tab' \in [Tabs -> Pages] /\ \A u \in Tabs : Follows(tab[u], tab'[u])
  <2>1. [p EXCEPT !.ted = "none"] \in Pages
    BY <1>1 DEF Pages
  <2> QED
    BY <1>4, <1>5, <2>1, SameFollows
<1>7. PICK w : w \in Words
  <2>1. edit[i] \in Operations /\ edit[i] # NoEdit
    BY <1>3 DEF NoEdit
  <2> QED
    BY <2>1 DEF Operations
<1> QED
  BY <1>3, <1>4, <1>6, <1>7, StateStep

-----------------------------------------------------------------------------
(* Steps of the database *)

\* What a page may hear from the database: the answer to its save, or how the
\* row of its suggestion reads now.
Hears(p, q) ==
  /\ q \in Pages
  /\ q.seen = p.seen /\ q.base = p.base /\ q.doc = p.doc
  /\ q.pending = p.pending /\ q.ted = p.ted /\ q.id = p.id
  /\ q.run # NoRun => q.pending = q.run.cmd
  /\ q.run.state = "receipt" => Receipt(q.run.cmd) \in receipts'
  /\ \/ q.truth = p.truth
     \/ p.ted = "applying" /\ q.truth.rev = 0
     \/ /\ p.ted = "applying" /\ q.truth = [rev |-> rev'[Target(p)], text |-> text'[Target(p)], doc |-> doc']
        /\ edit[p.id].rev < rev'[Target(p)]

\* A receipt of the save this step makes.
Issued(r) ==
  /\ r \in Receipts /\ r = Receipt(r.cmd)
  /\ r.cmd.doc = doc /\ r.doc = doc' /\ r.cmd.rev = rev /\ r.rev = rev' /\ r.cmd.new = text'

Forward ==
  /\ text' \in Wording /\ rev' \in Revisions /\ doc' \in Nat /\ doc <= doc'
  /\ \A s \in Sections : rev[s] <= rev'[s] /\ (rev'[s] = rev[s] => text'[s] = text[s])
  /\ receipts \subseteq receipts' /\ \A r \in receipts' : r \in receipts \/ Issued(r)
  /\ edit' \in [EditIds -> Operations] /\ Asked' = Asked
  /\ \A i \in Asked : /\ edit'[i].section = edit[i].section /\ edit'[i].rev = edit[i].rev
                      /\ edit'[i].state = "applied" =>
                           edit[i].state = "applied" \/ edit[i].rev < rev'[edit[i].section]
  /\ tab' \in [Tabs -> Pages] /\ \A u \in Tabs : Hears(tab[u], tab'[u])

LEMMA KnownAfter ==
  ASSUME IInv, Forward
  PROVE  /\ \A s \in Sections : \A n, w : Known(s, n, w)' => Known(s, n, w) \/ (n = rev'[s] /\ w = text'[s])
         /\ \A d : KnownDoc(d)' => KnownDoc(d) \/ d = doc'
<1>1. \A u \in Tabs : Told(tab'[u]) =>
        /\ edit'[tab'[u].id].section = Target(tab[u]) /\ Target(tab[u]) \in Sections
        /\ \/ tab'[u].truth = tab[u].truth /\ Told(tab[u])
           \/ /\ tab'[u].truth.rev = rev'[Target(tab[u])]
              /\ tab'[u].truth.text = text'[Target(tab[u])]
              /\ tab'[u].truth.doc = doc'
  <2> SUFFICES ASSUME NEW u \in Tabs, Told(tab'[u])
               PROVE  /\ edit'[tab'[u].id].section = Target(tab[u]) /\ Target(tab[u]) \in Sections
                      /\ \/ tab'[u].truth = tab[u].truth /\ Told(tab[u])
                         \/ /\ tab'[u].truth.rev = rev'[Target(tab[u])]
                            /\ tab'[u].truth.text = text'[Target(tab[u])]
                            /\ tab'[u].truth.doc = doc'
    OBVIOUS
  <2>1. Hears(tab[u], tab'[u]) /\ FitPage(tab[u]) /\ PageOK(tab[u])
    BY PageFits DEF IInv, Forward
  <2>2. /\ \/ tab'[u].truth = tab[u].truth /\ Told(tab[u])
           \/ /\ tab'[u].truth.rev = rev'[Target(tab[u])]
              /\ tab'[u].truth.text = text'[Target(tab[u])]
              /\ tab'[u].truth.doc = doc'
        /\ tab[u].ted = "applying"
    BY <2>1 DEF Hears, Told, PageOK, AnswerIsNew
  <2>3. tab[u].id \in Asked /\ tab'[u].id = tab[u].id
    BY <2>1, <2>2 DEF FitPage, Hears
  <2>4. edit[tab[u].id] \in Operations /\ edit[tab[u].id] # NoEdit
    BY <2>3 DEF IInv, TypeOK, Asked, NoEdit
  <2> QED
    BY <2>2, <2>3, <2>4 DEF Forward, Target, Operations
<1>2. ASSUME NEW s \in Sections, NEW n, NEW w, Known(s, n, w)'
      PROVE  Known(s, n, w) \/ (n = rev'[s] /\ w = text'[s])
  <2>1. CASE n = rev'[s] /\ w = text'[s]
    BY <2>1
  <2>2. CASE \E u \in Tabs : n = tab'[u].seen[s] /\ w = tab'[u].base[s]
    BY <2>2 DEF Known, Forward, Hears
  <2>3. CASE \E u \in Tabs : /\ Told(tab'[u]) /\ s = edit'[tab'[u].id].section
                             /\ n = tab'[u].truth.rev /\ w = tab'[u].truth.text
    <3>1. PICK u \in Tabs : /\ Told(tab'[u]) /\ s = edit'[tab'[u].id].section
                            /\ n = tab'[u].truth.rev /\ w = tab'[u].truth.text
      BY <2>3
    <3> QED
      BY <3>1, <1>1 DEF Known
  <2>4. CASE \E r \in receipts' : n = r.rev[s] /\ w = r.cmd.new[s]
    BY <2>4 DEF Known, Forward, Issued
  <2> QED
    BY <1>2, <2>1, <2>2, <2>3, <2>4 DEF Known, Target, Told
<1>3. ASSUME NEW d, KnownDoc(d)' PROVE KnownDoc(d) \/ d = doc'
  <2>1. CASE \E u \in Tabs : d = tab'[u].doc
    BY <2>1 DEF KnownDoc, Forward, Hears
  <2>2. CASE \E u \in Tabs : Told(tab'[u]) /\ d = tab'[u].truth.doc
    BY <2>2, <1>1 DEF KnownDoc
  <2>3. CASE \E r \in receipts' : d = r.doc
    BY <2>3 DEF KnownDoc, Forward, Issued
  <2> QED
    BY <1>3, <2>1, <2>2, <2>3 DEF KnownDoc, Told
<1> QED
  BY <1>2, <1>3

LEMMA ForwardStep ==
  ASSUME IInv, OtherTypes', Forward
  PROVE  IInv'
<1>1. TypeOK'
  <2>1. \A u \in Tabs : FitPage(tab[u])
    BY PageFits DEF IInv
  <2>2. receipts' \subseteq Receipts
    BY DEF Forward, Issued, IInv, TypeOK
  <2> QED
    BY <2>1, <2>2 DEF TypeOK, OtherTypes, Forward, Hears, FitPage
<1>2. AllPast'
  <2>1. ASSUME NEW s \in Sections, NEW n \in Nat, NEW w \in Texts, Known(s, n, w)'
        PROVE  n <= rev'[s] /\ (n = rev'[s] => w = text'[s])
    <3>1. CASE Known(s, n, w)
      <4>1. n <= rev[s] /\ (n = rev[s] => w = text[s])
        BY <3>1 DEF IInv, AllPast
      <4>2. rev[s] \in Nat /\ rev'[s] \in Nat
        BY DEF IInv, TypeOK, Forward, Revisions
      <4>3. rev[s] <= rev'[s] /\ (rev'[s] = rev[s] => text'[s] = text[s])
        BY DEF Forward
      <4> QED
        BY <4>1, <4>2, <4>3
    <3>2. CASE n = rev'[s] /\ w = text'[s]
      BY <3>2
    <3> QED
      BY <2>1, <3>1, <3>2, KnownAfter
  <2>2. ASSUME NEW d \in Nat, KnownDoc(d)' PROVE d <= doc'
    BY <2>2, KnownAfter DEF IInv, AllPast, Forward, TypeOK
  <2> QED
    BY <2>1, <2>2 DEF AllPast
<1>3. OneWording'
  <2>1. ASSUME NEW s \in Sections, NEW n \in Nat, NEW v \in Texts, NEW w \in Texts,
               Known(s, n, v)', Known(s, n, w)'
        PROVE  v = w
    <3>1. n = rev'[s] => v = text'[s] /\ w = text'[s]
      BY <1>2, <2>1 DEF AllPast
    <3>2. n # rev'[s] => Known(s, n, v) /\ Known(s, n, w)
      BY <2>1, KnownAfter
    <3> QED
      BY <3>1, <3>2 DEF IInv, OneWording
  <2> QED
    BY <2>1 DEF OneWording
<1>4. NoDocBetween'
  <2>1. ASSUME NEW r \in receipts', NEW d \in Nat, KnownDoc(d)' PROVE d <= r.cmd.doc \/ r.doc <= d
    <3>1. CASE r \in receipts
      <4>1. r.doc <= doc /\ r.doc \in Nat
        BY <3>1 DEF IInv, AllPast, KnownDoc, TypeOK, Receipts
      <4>2. d = doc' => r.doc <= d
        BY <4>1 DEF Forward, IInv, TypeOK
      <4> QED
        BY <2>1, <3>1, <4>2, KnownAfter DEF IInv, NoDocBetween
    <3>2. CASE Issued(r)
      <4>1. r.cmd.doc = doc /\ r.doc = doc'
        BY <3>2 DEF Issued
      <4>2. KnownDoc(d) => d <= doc
        BY DEF IInv, AllPast
      <4>3. d = doc' => r.doc <= d
        BY <4>1 DEF Forward
      <4> QED
        BY <2>1, <4>1, <4>2, <4>3, KnownAfter
    <3> QED
      BY <3>1, <3>2 DEF Forward
  <2>2. \A r \in receipts' : r = Receipt(r.cmd)
    BY DEF IInv, NoDocBetween, Forward, Issued
  <2> QED
    BY <2>1, <2>2 DEF NoDocBetween, Receipt, Changed
<1>5. AppliedIsPast'
  <2>1. ASSUME NEW i \in EditIds, edit'[i].state = "applied"
        PROVE  edit'[i].rev < rev'[edit'[i].section]
    <3>1. i \in Asked
      BY <2>1 DEF Forward, Asked
    <3>2. edit[i] \in Operations /\ edit[i] # NoEdit
      BY <3>1 DEF IInv, TypeOK, Asked, NoEdit
    <3>3. edit[i].rev \in Nat /\ edit[i].section \in Sections
      BY <3>2 DEF Operations
    <3>4. edit[i].state = "applied" => edit[i].rev < rev[edit[i].section]
      BY DEF IInv, AppliedIsPast
    <3>5. rev[edit[i].section] \in Nat /\ rev'[edit[i].section] \in Nat
          /\ rev[edit[i].section] <= rev'[edit[i].section]
      BY <3>3 DEF IInv, TypeOK, Forward, Revisions
    <3>6. edit'[i].rev = edit[i].rev /\ edit'[i].section = edit[i].section
          /\ (edit[i].state = "applied" \/ edit[i].rev < rev'[edit[i].section])
      BY <2>1, <3>1 DEF Forward
    <3> QED
      BY <3>3, <3>4, <3>5, <3>6
  <2> QED
    BY <2>1 DEF AppliedIsPast
<1>6. ASSUME NEW u \in Tabs PROVE PageOK(tab[u])'
  <2> DEFINE p == tab[u]
             q == tab'[u]
  <2>1. Hears(p, q) /\ FitPage(p) /\ Learned(p)
    BY PageFits, PageIsLearned DEF IInv, Forward
  <2>2. PendingIsOld(q)
    BY <2>1 DEF Learned, PageOK, PendingIsOld, Hears
  <2>3. q.ted # "none" => /\ q.id = p.id /\ q.id \in Asked
                          /\ edit'[q.id].section = Target(p) /\ edit'[q.id].rev = edit[p.id].rev
                          /\ Target(p) \in Sections
    <3> SUFFICES ASSUME q.ted # "none"
                 PROVE  /\ q.id = p.id /\ q.id \in Asked
                        /\ edit'[q.id].section = Target(p) /\ edit'[q.id].rev = edit[p.id].rev
                        /\ Target(p) \in Sections
      OBVIOUS
    <3>1. q.id = p.id /\ p.id \in Asked
      BY <2>1 DEF Hears, FitPage
    <3>2. edit[p.id] \in Operations /\ edit[p.id] # NoEdit
      BY <3>1 DEF IInv, TypeOK, Asked, NoEdit
    <3> QED
      BY <3>1, <3>2 DEF Forward, Target, Operations
  <2>4. q.ted # "none" => q.seen[Target(p)] <= edit[p.id].rev
    BY <2>1 DEF Learned, PageOK, BoundToPage, Hears
  <2>5. q.truth # None => q.ted = "applying"
    BY <2>1 DEF Learned, PageOK, AnswerIsNew, Hears
  <2>6. ASSUME q.truth # None, q.truth.rev # 0
        PROVE  /\ edit[p.id].rev < q.truth.rev /\ q.doc <= q.truth.doc
               /\ \A r \in receipts' : q.truth.doc < r.doc => q.truth.rev <= r.cmd.rev[Target(p)]
    <3>1. CASE q.truth = p.truth
      <4>1. /\ edit[p.id].rev < q.truth.rev /\ q.doc <= q.truth.doc
            /\ \A r \in receipts : q.truth.doc < r.doc => q.truth.rev <= r.cmd.rev[Target(p)]
            /\ Known(Target(p), q.truth.rev, q.truth.text)
        BY <2>1, <2>6, <3>1 DEF Learned, PageOK, AnswerIsNew, Hears, Told
      <4>2. Target(p) \in Sections
        BY <2>3, <2>5, <2>6
      <4>3. q.truth.rev \in Nat /\ q.truth.text \in Texts
        BY <4>1, <4>2, KnownIsTyped
      <4>4. q.truth.rev <= rev[Target(p)]
        BY <4>1, <4>2, <4>3 DEF IInv, AllPast
      <4> QED
        BY <4>1, <4>4 DEF Forward, Issued
    <3>2. CASE q.truth = [rev |-> rev'[Target(p)], text |-> text'[Target(p)], doc |-> doc']
               /\ edit[p.id].rev < rev'[Target(p)]
      <4>1. q.doc <= q.truth.doc
        <5>1. p.doc <= doc /\ p.doc \in Nat
          BY <2>1 DEF Learned, FitPage, Pages, IInv, AllPast
        <5> QED
          BY <2>1, <3>2, <5>1 DEF Hears, Forward, IInv, TypeOK
      <4>2. \A r \in receipts' : ~(q.truth.doc < r.doc)
        <5>1. \A r \in receipts : r.doc <= doc /\ r.doc \in Nat
          BY DEF IInv, AllPast, KnownDoc, TypeOK, Receipts
        <5> QED
          BY <3>2, <5>1 DEF Forward, Issued, IInv, TypeOK
      <4> QED
        BY <3>2, <4>1, <4>2
    <3> QED
      BY <2>1, <2>6, <3>1, <3>2 DEF Hears
  <2>7. AnswerIsNew(tab[u])'
    <3>1. q.truth # None => edit'[q.id].section = Target(p) /\ edit'[q.id].rev = edit[p.id].rev
      BY <2>3, <2>5
    <3> QED
      BY <2>5, <2>6, <3>1 DEF AnswerIsNew, Target
  <2>8. BoundToPage(tab[u])'
    BY <2>3, <2>4 DEF BoundToPage, Target
  <2>9. ReceiptIsKept(tab[u])'
    BY <2>1 DEF ReceiptIsKept, Hears, Receipt, Changed
  <2>10. PendingIsOld(tab[u])'
    BY <2>2 DEF PendingIsOld
  <2> QED
    BY <2>7, <2>8, <2>9, <2>10 DEF PageOK
<1> QED
  BY <1>1, <1>2, <1>3, <1>4, <1>5, <1>6 DEF IInv

LEMMA SameHears ==
  ASSUME IInv, NEW u \in Tabs, receipts \subseteq receipts' PROVE Hears(tab[u], tab[u])
BY PageFits DEF IInv, FitPage, Hears, PageOK, ReceiptIsKept

\* The page that waits for the answer to its save.
LEMMA AnsweredHears ==
  ASSUME IInv, receipts \subseteq receipts', NEW t \in Tabs \cup {None}, NEW c \in Commands,
         NEW answer \in {"receipt", "conflict"}, tab' = Answered(t, c, answer),
         answer = "receipt" => Receipt(c) \in receipts'
  PROVE  tab' \in [Tabs -> Pages] /\ \A u \in Tabs : Hears(tab[u], tab'[u])
<1> USE DEF IInv, TypeOK
<1>1. \A u \in Tabs : tab[u] \in Pages
  OBVIOUS
<1>2. CASE t \in Tabs /\ tab[t].run.state = "sent" /\ tab[t].run.cmd = c
  <2> DEFINE p == tab[t]
             q == [p EXCEPT !.run = [@ EXCEPT !.state = answer]]
  <2>1. tab' = [tab EXCEPT ![t] = q]
    BY <1>1, <1>2 DEF Answered, Pages
  <2>2. FitPage(p)
    BY <1>2, PageFits
  <2>3. /\ q \in Pages
        /\ q.seen = p.seen /\ q.base = p.base /\ q.doc = p.doc /\ q.pending = p.pending
        /\ q.ted = p.ted /\ q.id = p.id /\ q.truth = p.truth
        /\ p.run # NoRun /\ q.run.state = answer /\ q.run.cmd = c
    BY <1>1, <1>2 DEF Pages, Runs, NoRun
  <2>4. Hears(p, q)
    BY <1>2, <2>2, <2>3 DEF Hears, FitPage
  <2> HIDE DEF q
  <2> QED
    BY <1>2, <2>1, <2>3, <2>4, SameHears
<1>3. CASE ~(t \in Tabs /\ tab[t].run.state = "sent" /\ tab[t].run.cmd = c)
  BY <1>3, SameHears DEF Answered
<1> QED
  BY <1>2, <1>3

\* A save whose expectations hold moves the rows on, all at once.
LEMMA ExpectedSave ==
  ASSUME IInv, NEW c \in Commands, Expected(c),
         text' = c.new, rev' = Receipt(c).rev, doc' = Receipt(c).doc,
         receipts' = receipts \cup {Receipt(c)}
  PROVE  /\ text' \in Wording /\ rev' \in Revisions /\ doc' \in Nat /\ doc <= doc'
         /\ \A s \in Sections : rev[s] <= rev'[s] /\ (rev'[s] = rev[s] => text'[s] = text[s])
         /\ receipts \subseteq receipts' /\ \A r \in receipts' : r \in receipts \/ Issued(r)
<1>1. /\ Cardinality(Changed(c)) \in Nat
      /\ Receipt(c) \in Receipts /\ Receipt(c).cmd = c
      /\ Receipt(c).doc = c.doc + Cardinality(Changed(c))
      /\ \A s \in Sections : Receipt(c).rev[s] =
           IF c.new[s] # c.old[s] THEN c.rev[s] + 1 ELSE c.rev[s]
  BY ChangedSections
<1>2. c.doc = doc /\ c.rev = rev /\ c.old = text /\ c.new \in Wording
  BY DEF Expected, Commands
<1>3. doc \in Nat /\ \A s \in Sections : rev[s] \in Nat
  BY DEF IInv, TypeOK, Revisions
<1>4. \A s \in Sections : rev[s] <= rev'[s] /\ (rev'[s] = rev[s] => text'[s] = text[s])
  BY <1>1, <1>2, <1>3
<1>5. Issued(Receipt(c))
  BY <1>1, <1>2 DEF Issued
<1> QED
  BY <1>1, <1>2, <1>3, <1>4, <1>5 DEF Receipts, Revisions

LEMMA SaveStep ==
  ASSUME IInv, NEW m \in net, m.kind = "save", Save(m)
  PROVE  IInv'
<1> DEFINE c == m.cmd
<1>1. m.from \in Tabs \cup {None} /\ c \in Commands
  BY DEF IInv, TypeOK, Messages
<1>2. OtherTypes'
  <2>1. net' \subseteq Messages /\ typed' \in Nat /\ calm' \in BOOLEAN
    BY DEF IInv, TypeOK, Save
  <2>2. by' \in [Sections -> Tabs \cup {None}]
    BY <1>1 DEF IInv, TypeOK, Save, rows
  <2> QED
    BY <2>1, <2>2 DEF OtherTypes
<1>3. edit' = edit /\ edit' \in [EditIds -> Operations] /\ Asked' = Asked
  BY DEF Save, IInv, TypeOK, Asked
<1>4. /\ text' \in Wording /\ rev' \in Revisions /\ doc' \in Nat /\ doc <= doc'
      /\ \A s \in Sections : rev[s] <= rev'[s] /\ (rev'[s] = rev[s] => text'[s] = text[s])
      /\ receipts \subseteq receipts' /\ \A r \in receipts' : r \in receipts \/ Issued(r)
  <2>1. CASE UNCHANGED <<rows, receipts>>
    BY <2>1 DEF rows, IInv, TypeOK, Revisions
  <2>2. CASE /\ Expected(c)
             /\ text' = c.new /\ rev' = Receipt(c).rev /\ doc' = Receipt(c).doc
             /\ receipts' = receipts \cup {Receipt(c)}
    BY <1>1, <2>2, ExpectedSave
  <2> QED
    BY <2>1, <2>2 DEF Save
<1>5. \/ tab' = Answered(m.from, c, "receipt") /\ Receipt(c) \in receipts'
      \/ tab' = Answered(m.from, c, "conflict")
  BY DEF Save
<1>6. tab' \in [Tabs -> Pages] /\ \A u \in Tabs : Hears(tab[u], tab'[u])
  BY <1>1, <1>4, <1>5, AnsweredHears
<1>7. Forward
  BY <1>3, <1>4, <1>6 DEF Forward
<1> QED
  BY <1>2, <1>7, ForwardStep

LEMMA ApplyStep ==
  ASSUME IInv, NEW m \in net, m.kind # "save", Apply(m)
  PROVE  IInv'
<1> DEFINE e == edit[m.id]
           applies == e.state = "ready" /\ StillAccepted(e)
<1>1. m.from \in Tabs \cup {None} /\ m.id \in EditIds
  BY DEF IInv, TypeOK, Messages
<1>2. e.state # "none" => /\ e \in Operations /\ e.section \in Sections /\ e.rev \in Nat
                          /\ Edited(e.new) \in Texts /\ m.id \in Asked
  BY <1>1, EditedIsText DEF IInv, TypeOK, Operations, NoEdit, Asked
<1>3. /\ text \in Wording /\ rev \in Revisions /\ doc \in Nat
      /\ edit \in [EditIds -> Operations] /\ by \in [Sections -> Tabs \cup {None}]
  BY DEF IInv, TypeOK
<1>4. applies =>
        /\ text' = [text EXCEPT ![e.section] = Edited(e.new)]
        /\ rev' = [rev EXCEPT ![e.section] = @ + 1] /\ doc' = doc + 1
        /\ by' = [by EXCEPT ![e.section] = m.from]
        /\ edit' = [edit EXCEPT ![m.id].state = "applied"]
        /\ e.rev = rev[e.section] /\ e.state = "ready"
  BY DEF Apply, StillAccepted
<1>5. ~applies => UNCHANGED <<rows, edit>>
  BY DEF Apply
<1>6. /\ text' \in Wording /\ rev' \in Revisions /\ doc' \in Nat /\ doc <= doc'
      /\ \A s \in Sections : rev[s] <= rev'[s] /\ (rev'[s] = rev[s] => text'[s] = text[s])
      /\ by' \in [Sections -> Tabs \cup {None}]
  BY <1>1, <1>2, <1>3, <1>4, <1>5 DEF rows, Wording, Revisions
<1>7. /\ edit' \in [EditIds -> Operations]
      /\ \A i \in EditIds : edit'[i] = edit[i] \/ (applies /\ i = m.id)
      /\ applies => /\ edit'[m.id].state = "applied" /\ edit'[m.id].section = e.section
                    /\ edit'[m.id].rev = e.rev
  <2>1. CASE applies
    <3>1. edit' = [edit EXCEPT ![m.id] = [e EXCEPT !.state = "applied"]]
      BY <1>3, <1>4, <2>1
    <3>2. e \in Operations /\ e # NoEdit
      BY <1>2, <2>1 DEF NoEdit
    <3>3. /\ [e EXCEPT !.state = "applied"] \in Operations
          /\ [e EXCEPT !.state = "applied"].state = "applied"
          /\ [e EXCEPT !.state = "applied"].section = e.section
          /\ [e EXCEPT !.state = "applied"].rev = e.rev
      BY <3>2 DEF Operations
    <3> QED
      BY <1>1, <1>3, <2>1, <3>1, <3>3
  <2>2. CASE ~applies
    BY <1>3, <1>5, <2>2
  <2> QED
    BY <2>1, <2>2
<1>8. /\ Asked' = Asked
      /\ \A i \in Asked : edit'[i].section = edit[i].section /\ edit'[i].rev = edit[i].rev
  BY <1>2, <1>7 DEF Asked
<1>9. applies => e.rev < rev'[e.section]
  BY <1>2, <1>3, <1>4 DEF Revisions
<1>10. \A i \in Asked : edit'[i].state = "applied" =>
         edit[i].state = "applied" \/ edit[i].rev < rev'[edit[i].section]
  BY <1>7, <1>9 DEF Asked
<1>11. edit'[m.id].state = "applied" => e.state # "none" /\ e.rev < rev'[e.section]
  <2>1. e.state = "applied" => e.rev < rev[e.section]
    BY <1>1 DEF IInv, AppliedIsPast
  <2>2. e.state = "applied" => e.rev \in Nat /\ rev[e.section] \in Nat /\ rev'[e.section] \in Nat
                               /\ rev[e.section] <= rev'[e.section]
    BY <1>2, <1>3, <1>6 DEF Revisions
  <2>3. edit'[m.id].state = "applied" => applies \/ e.state = "applied"
    BY <1>1, <1>7
  <2> QED
    BY <1>9, <2>1, <2>2, <2>3
<1>12. receipts' = receipts
  BY DEF Apply
<1>13. tab' \in [Tabs -> Pages] /\ \A u \in Tabs : Hears(tab[u], tab'[u])
  <2>1. \A u \in Tabs : tab[u] \in Pages /\ Hears(tab[u], tab[u])
    BY <1>12, SameHears DEF IInv, TypeOK
  <2>2. CASE m.from \in Tabs /\ tab[m.from].ted = "applying" /\ tab[m.from].id = m.id
    <3> DEFINE p == tab[m.from]
    <3>1. PICK v : v = IF edit'[m.id].state = "applied" THEN Truth(e) ELSE [rev |-> 0]
      OBVIOUS
    <3>2. tab' = [tab EXCEPT ![m.from] = [p EXCEPT !.truth = v]]
      BY <2>1, <2>2, <3>1 DEF Apply, Pages, IInv, TypeOK
    <3>3. /\ v \in Truths
          /\ \/ v.rev = 0
             \/ /\ v = [rev |-> rev'[Target(p)], text |-> text'[Target(p)], doc |-> doc']
                /\ edit[p.id].rev < rev'[Target(p)]
      <4>1. CASE edit'[m.id].state = "applied"
        <5>1. e.section \in Sections /\ Target(p) = e.section /\ edit[p.id] = e
          BY <1>2, <1>11, <2>2, <4>1 DEF Target
        <5>2. v = [rev |-> rev'[e.section], text |-> text'[e.section], doc |-> doc']
          BY <3>1, <4>1 DEF Truth
        <5>3. rev'[e.section] \in Nat /\ text'[e.section] \in Texts
          BY <1>6, <5>1 DEF Revisions, Wording
        <5> QED
          BY <1>6, <1>11, <4>1, <5>1, <5>2, <5>3 DEF Truths
      <4>2. CASE edit'[m.id].state # "applied"
        BY <3>1, <4>2 DEF Truths
      <4> QED
        BY <4>1, <4>2
    <3> DEFINE q == [p EXCEPT !.truth = v]
    <3>4. /\ q \in Pages
          /\ q.seen = p.seen /\ q.base = p.base /\ q.doc = p.doc /\ q.pending = p.pending
          /\ q.ted = p.ted /\ q.id = p.id /\ q.truth = v /\ q.run = p.run
      BY <2>1, <2>2, <3>3 DEF Pages
    <3> HIDE DEF q
    <3>5. Hears(p, q)
      BY <2>1, <2>2, <3>3, <3>4 DEF Hears
    <3> QED
      BY <2>1, <2>2, <3>2, <3>4, <3>5 DEF q, IInv, TypeOK
  <2>3. CASE ~(m.from \in Tabs /\ tab[m.from].ted = "applying" /\ tab[m.from].id = m.id)
    BY <2>1, <2>3 DEF Apply, IInv, TypeOK
  <2> QED
    BY <2>2, <2>3
<1>14. Forward
  BY <1>6, <1>7, <1>8, <1>10, <1>12, <1>13 DEF Forward
<1>15. OtherTypes'
  BY <1>6 DEF Apply, OtherTypes, IInv, TypeOK
<1> QED
  BY <1>14, <1>15, ForwardStep

-----------------------------------------------------------------------------
(* The theorems *)

LEMMA PageSteps ==
  ASSUME IInv, NEW t \in Tabs,
         \/ Saving(t) \/ Applying(t) \/ Confirm(t) \/ StreamEnds(t) \/ Leave(t) \/ Reload(t)
         \/ \E s \in Sections : Recover(t, s) \/ ToggleLock(t, s) \/ \E w \in Words : Write(t, s, w)
  PROVE  IInv'
<1> SUFFICES OtherTypes' /\ \E q : OnePage(t, q) /\ Learned(q)
  BY PageStep
<1>1. OtherTypes
  BY DEF IInv, TypeOK, OtherTypes
<1>2. CASE Persist(t)
  BY <1>1, <1>2, PersistStep DEF Persist, OtherTypes, rows
<1>3. CASE SaveReceived(t)
  BY <1>1, <1>3, SaveReceivedStep DEF SaveReceived, OtherTypes, rows
<1>4. CASE SaveRefused(t) \/ SaveUnknown(t) \/ Retry(t)
  BY <1>1, <1>4, SaveGivenUp DEF SaveRefused, SaveUnknown, Retry, OtherTypes, rows
<1>5. CASE ApplyReceived(t)
  BY <1>1, <1>5, ApplyReceivedStep DEF ApplyReceived, OtherTypes, rows
<1>6. CASE StreamEnds(t) \/ Confirm(t) \/ ApplyUnknown(t) \/ Leave(t)
  BY <1>1, <1>6, TedSteps DEF StreamEnds, Confirm, ApplyUnknown, Leave, OtherTypes, rows
<1>7. CASE Reload(t)
  BY <1>1, <1>7, ReloadStep DEF Reload, OtherTypes
<1>8. ASSUME NEW s \in Sections, Recover(t, s) PROVE OtherTypes' /\ \E q : OnePage(t, q) /\ Learned(q)
  BY <1>1, <1>8, RecoverStep DEF Recover, OtherTypes, rows
<1>9. ASSUME NEW s \in Sections, ToggleLock(t, s) \/ \E w \in Words : Write(t, s, w)
      PROVE  OtherTypes' /\ \E q : OnePage(t, q) /\ Learned(q)
  <2>1. OtherTypes'
    <3>1. net' = net /\ by' = by /\ calm' = calm /\ typed' = typed + 1
      BY <1>9 DEF ToggleLock, Write, rows
    <3> QED
      BY <1>1, <3>1 DEF OtherTypes
  <2> QED
    BY <1>9, <2>1, OwnerStep
<1> QED
  BY <1>2, <1>3, <1>4, <1>5, <1>6, <1>7, <1>8, <1>9 DEF Saving, Applying

\* A step that leaves alone everything the invariant is about.
LEMMA QuietStep ==
  ASSUME IInv, OtherTypes', UNCHANGED <<text, rev, doc, receipts, edit, tab>>
  PROVE  IInv'
<1>1. Asked' = Asked
  BY DEF Asked
<1>2. /\ \A s \in Sections : \A n, w : Known(s, n, w)' <=> Known(s, n, w)
      /\ \A d : KnownDoc(d)' <=> KnownDoc(d)
  BY DEF Known, KnownDoc, Told, Target
<1>3. TypeOK'
  BY <1>1 DEF IInv, TypeOK, OtherTypes
<1>4. AllPast' /\ OneWording' /\ NoDocBetween' /\ AppliedIsPast'
  BY <1>2 DEF IInv, AllPast, OneWording, NoDocBetween, AppliedIsPast
<1>5. (\A t \in Tabs : PageOK(tab[t]))'
  BY DEF IInv, PageOK, PendingIsOld, BoundToPage, AnswerIsNew, ReceiptIsKept, Target
<1> QED
  BY <1>3, <1>4, <1>5 DEF IInv

LEMMA InitIInv == Init => IInv
<1> SUFFICES ASSUME Init PROVE IInv
  OBVIOUS
<1>1. text \in Wording /\ rev \in Revisions /\ doc = 1
  BY EditedIsText DEF Init, Wording, Revisions
<1>2. \A t \in Tabs : /\ tab[t] = Loaded /\ tab[t].seen = rev /\ tab[t].base = text
                      /\ tab[t].doc = doc /\ tab[t].pending = None /\ tab[t].run = NoRun
                      /\ tab[t].ted = "none" /\ tab[t].truth = None
  BY DEF Init, Loaded
<1>3. TypeOK
  <2>1. Loaded \in Pages
    BY <1>1 DEF Loaded, Pages, Runs, Truths
  <2>2. edit \in [EditIds -> Operations]
    BY DEF Init, Operations
  <2>3. tab \in [Tabs -> Pages]
    BY <2>1 DEF Init
  <2>4. by \in [Sections -> Tabs \cup {None}] /\ doc \in Nat /\ receipts = {} /\ net = {}
        /\ typed \in Nat /\ calm \in BOOLEAN
    BY DEF Init
  <2> QED
    BY <1>1, <1>2, <2>2, <2>3, <2>4 DEF TypeOK
<1>4. /\ \A s \in Sections : \A n, w : Known(s, n, w) => n = rev[s] /\ w = text[s]
      /\ \A d : KnownDoc(d) => d = doc
  BY <1>2 DEF Init, Known, KnownDoc, Told
<1>5. AllPast /\ OneWording /\ NoDocBetween
  BY <1>1, <1>4 DEF Init, AllPast, OneWording, NoDocBetween, Revisions
<1>6. AppliedIsPast
  BY DEF Init, AppliedIsPast, NoEdit
<1>7. \A t \in Tabs : PageOK(tab[t])
  BY <1>2 DEF PageOK, PendingIsOld, BoundToPage, AnswerIsNew, ReceiptIsKept, NoRun
<1> QED
  BY <1>3, <1>5, <1>6, <1>7 DEF IInv

LEMMA NextIInv == IInv /\ [Next]_vars => IInv'
<1> SUFFICES ASSUME IInv, [Next]_vars PROVE IInv'
  OBVIOUS
<1>1. OtherTypes
  BY DEF IInv, TypeOK, OtherTypes
<1>2. ASSUME NEW m \in net, Deliver(m) PROVE IInv'
  BY <1>2, SaveStep, ApplyStep DEF Deliver
<1>3. ASSUME NEW m \in net, Lose(m) PROVE IInv'
  BY <1>1, <1>3, QuietStep DEF Lose, OtherTypes, rows
<1>4. ASSUME NEW t \in Tabs,
             Saving(t) \/ Applying(t) \/ Confirm(t) \/ StreamEnds(t) \/ Leave(t) \/ Reload(t)
      PROVE  IInv'
  BY <1>4, PageSteps
<1>5. ASSUME NEW t \in Tabs, Discard(t) PROVE IInv'
  BY <1>5, DiscardStep
<1>6. ASSUME NEW t \in Tabs, NEW s \in Sections, Ask(t, s) PROVE IInv'
  BY <1>6, AskStep
<1>7. ASSUME NEW t \in Tabs, NEW s \in Sections, Recover(t, s) \/ ToggleLock(t, s) \/ \E w \in Words : Write(t, s, w)
      PROVE  IInv'
  BY <1>7, PageSteps
<1>8. ASSUME NEW i \in EditIds, Dispatch(i) \/ Settle(i) PROVE IInv'
  <2>1. PICK w : w \in Words
    <3>1. edit[i] \in Operations /\ edit[i].state # "none"
      BY <1>8 DEF IInv, TypeOK, Dispatch, Settle
    <3> QED
      BY <3>1 DEF Operations, NoEdit
  <2> QED
    BY <1>8, <2>1, OperationSteps
<1>9. ASSUME NEW i \in EditIds, NEW w \in Words, Complete(i, w) PROVE IInv'
  BY <1>9, OperationSteps
<1>10. CASE FaultsEnd
  BY <1>1, <1>10, QuietStep DEF FaultsEnd, OtherTypes, rows
<1>11. CASE UNCHANGED vars
  BY <1>1, <1>11, QuietStep DEF vars, OtherTypes, rows
<1> QED
  BY <1>2, <1>3, <1>4, <1>5, <1>6, <1>7, <1>8, <1>9, <1>10, <1>11 DEF Next, Deciding

LEMMA IInvAlways == Spec => []IInv
  BY InitIInv, NextIInv, PTL DEF Spec

\* Every variable of a save stays in its set, a running save is the command the
\* page keeps, and a suggestion on a page is one that was asked for.
THEOREM SaveTypeCorrect == Spec => []TypeOK
<1>1. IInv => TypeOK
  BY DEF IInv
<1> QED
  BY <1>1, IInvAlways, PTL

\* However many tabs, sections and suggestions there are, and whatever is lost
\* or late: no page believes to be saved what the account does not hold at that
\* revision, so no save passes the revision check with another wording in mind.
THEOREM BaselinesAreTrue == Spec => []BaselineIsTrue
<1>1. IInv => BaselineIsTrue
  <2> SUFFICES ASSUME IInv, NEW t \in Tabs
               PROVE  /\ tab[t].doc <= doc
                      /\ \A s \in Sections : /\ tab[t].seen[s] <= rev[s]
                                             /\ tab[t].seen[s] = rev[s] => tab[t].base[s] = text[s]
    BY DEF BaselineIsTrue
  <2>1. Learned(tab[t])
    BY PageIsLearned
  <2> QED
    BY <2>1, KnownIsTyped DEF Learned, IInv, AllPast
<1> QED
  BY <1>1, IInvAlways, PTL

LEMMA OwnReceiptFits ==
  ASSUME IInv, NEW t \in Tabs, tab[t].run.state = "receipt"
  PROVE  ~Regression(tab[t], Receipt(tab[t].run.cmd))
<1> DEFINE p == tab[t]
           c == p.run.cmd
           r == Receipt(c)
<1>1. /\ c \in Commands /\ r \in receipts /\ r \in Receipts /\ p.doc >= c.doc
      /\ \A s \in Sections : p.seen[s] >= c.rev[s]
  BY ReceivedReceipt
<1>2. /\ p \in Pages /\ Learned(p)
  BY PageFits, PageIsLearned DEF IInv, FitPage
<1>3. /\ r.cmd = c
      /\ \A s \in Sections : r.rev[s] = IF c.new[s] # c.old[s] THEN c.rev[s] + 1 ELSE c.rev[s]
  BY <1>1, ChangedSections
<1>4. ASSUME NEW s \in Sections, p.seen[s] = r.rev[s] PROVE p.base[s] = r.cmd.new[s]
  <2>1. Known(s, p.seen[s], p.base[s]) /\ Known(s, p.seen[s], r.cmd.new[s])
    BY <1>1, <1>2, <1>4 DEF Learned, Known
  <2> QED
    BY <2>1, KnownIsTyped DEF IInv, OneWording
<1>5. ASSUME NEW s \in Sections, p.seen[s] < r.rev[s] PROVE p.seen[s] = r.cmd.rev[s]
  <2>1. c.rev[s] \in Nat /\ p.seen[s] \in Nat /\ p.seen[s] >= c.rev[s]
    BY <1>1, <1>2 DEF Commands, Pages, Revisions
  <2> QED
    BY <1>3, <1>5, <2>1
<1>6. ASSUME p.doc < r.doc PROVE p.doc = r.cmd.doc
  <2>1. p.doc \in Nat /\ r.doc \in Nat /\ c.doc \in Nat /\ KnownDoc(p.doc)
    BY <1>1, <1>2 DEF Learned, Pages, Receipts, Commands
  <2>2. p.doc <= c.doc \/ r.doc <= p.doc
    BY <1>1, <1>3, <2>1 DEF IInv, NoDocBetween
  <2> QED
    BY <1>1, <1>3, <1>6, <2>1, <2>2
<1> QED
  BY <1>4, <1>5, <1>6 DEF Regression

\* The receipt of a page's own command, however late it comes and whatever the
\* page has learned meanwhile, is never taken for a regression: a save that has
\* succeeded is not reported as failed.
THEOREM ReceiptsFit == Spec => []ReceiptFits
<1>1. IInv => ReceiptFits
  BY OwnReceiptFits DEF ReceiptFits
<1> QED
  BY <1>1, IInvAlways, PTL
=============================================================================
