------------------------ MODULE WorkspaceTruthProofs ------------------------
(***************************************************************************)
(* "Saved to your account" in WorkspaceSave.  A page that says so keeps no *)
(* command, and a page that keeps none has heard of everything its saves   *)
(* have written: a command is forgotten only with its receipt, or refused  *)
(* when it can never be taken any more.                                    *)
(***************************************************************************)
EXTENDS WorkspaceWordingProofs

-----------------------------------------------------------------------------
(* The invariant *)

\* The account has moved on since a command was made: it will never be taken.
Stale(c) == c.doc < doc \/ \E s \in Sections : c.rev[s] < rev[s]

\* ... or it has been taken already.
Spent(c) == Receipt(c) \in receipts \/ Stale(c)

\* A save on its way is the command its page keeps, or is of no effect.
MessageFits(m) ==
  m.kind = "save" /\ m.from \in Tabs => tab[m.from].pending = m.cmd \/ Spent(m.cmd)

\* A saved page has no save under way, and shows its baseline or looks again.
SavedRests(p) ==
  p.sync = "saved" => /\ p.run = NoRun /\ p.pending = None
                      /\ p.scheduled \/ p.view = p.base

\* No save of the page itself has changed the section of a suggestion since its
\* page was answered.
AnswerIsCurrent(t, p) ==
  Told(p) /\ by[Target(p)] = t /\ SavedLast(Target(p)) => p.truth.rev = rev[Target(p)]

\* What the command a page keeps expects of a section was true of that revision.
PendingIsTrue(p) ==
  p.pending # None =>
    \A s \in Sections : p.pending.rev[s] = rev[s] => p.pending.old[s] = text[s]

\* A command is refused only when it was not taken and never will be.
RefusedIsStale(p) ==
  p.run.state = "conflict" => Stale(p.pending) /\ Receipt(p.pending) \notin receipts

\* A page that has not heard of its own last save of a section keeps the command.
Behind(t, p, s) == by[s] = t /\ SavedLast(s) /\ p.seen[s] # rev[s]
Open(p, s) ==
  p.pending # None /\ Receipt(p.pending) \in receipts /\ Receipt(p.pending).rev[s] = rev[s]
BehindIsOpen(t, p) == \A s \in Sections : Behind(t, p, s) => Open(p, s)

PageTrue(t, p) ==
  /\ SavedRests(p) /\ AnswerIsCurrent(t, p) /\ PendingIsTrue(p)
  /\ RefusedIsStale(p) /\ BehindIsOpen(t, p)

TruthInv == (\A m \in net : MessageFits(m)) /\ \A t \in Tabs : PageTrue(t, tab[t])

-----------------------------------------------------------------------------
(* Steps of one page *)

LEMMA OnePageTrue ==
  ASSUME IInv, TruthInv, NEW t \in Tabs, NEW q, OnePage(t, q), by' = by, PageTrue(t, q),
         \/ q.pending = tab[t].pending \/ tab[t].pending = None
         \/ Spent(tab[t].pending),
         \A m \in net' : \/ m \in net
                         \/ m.from = t /\ m.kind = "save" /\ m.cmd = q.pending
                         \/ m.kind # "save"
  PROVE  TruthInv'
<1>1. /\ tab'[t] = q /\ \A u \in Tabs : u # t => tab'[u] = tab[u]
      /\ UNCHANGED <<text, rev, doc, by, receipts, edit>>
  BY DEF IInv, TypeOK, OnePage
<1>2. \A c : /\ (Stale(c)' <=> Stale(c)) /\ Receipt(c)' = Receipt(c)
             /\ (Spent(c)' <=> Spent(c))
  BY <1>1 DEF Stale, Receipt, Changed, Spent
<1>3. ASSUME NEW m \in net', m.kind = "save", m.from \in Tabs
      PROVE  tab'[m.from].pending = m.cmd \/ Spent(m.cmd)
  <2>1. CASE m \in net /\ m.from # t
    BY <1>1, <1>3, <2>1 DEF TruthInv, MessageFits
  <2>2. CASE m \in net /\ m.from = t
    <3>1. m.cmd # None
      BY <1>3, <2>2, SaveAssumption DEF IInv, TypeOK, Messages
    <3> QED
      BY <1>1, <1>3, <2>2, <3>1 DEF TruthInv, MessageFits
  <2>3. CASE m.from = t /\ m.cmd = q.pending
    BY <1>1, <2>3
  <2> QED
    BY <1>3, <2>1, <2>2, <2>3
<1>4. \A u \in Tabs : PageTrue(u, tab'[u])
  BY <1>1 DEF TruthInv
<1>5. \A s : SavedLast(s)' <=> SavedLast(s)
  BY <1>1 DEF SavedLast, SavesOf, Changed
<1>6. ASSUME NEW u \in Tabs PROVE PageTrue(u, tab[u])'
  <2>1. SavedRests(tab[u])' /\ AnswerIsCurrent(u, tab[u])' /\ PendingIsTrue(tab[u])'
    BY <1>1, <1>4, <1>5 DEF PageTrue, SavedRests, AnswerIsCurrent, PendingIsTrue, Told, Target
  <2>2. RefusedIsStale(tab[u])'
    BY <1>1, <1>2, <1>4 DEF PageTrue, RefusedIsStale
  <2>3. BehindIsOpen(u, tab[u])'
    BY <1>1, <1>2, <1>4, <1>5 DEF PageTrue, BehindIsOpen, Behind, Open
  <2> QED
    BY <2>1, <2>2, <2>3 DEF PageTrue
<1> QED
  BY <1>2, <1>3, <1>6 DEF TruthInv, MessageFits

LEMMA TrueOwner ==
  ASSUME IInv, TruthInv, NEW t \in Tabs, NEW s \in Sections,
         ToggleLock(t, s) \/ \E w \in Words : Write(t, s, w)
  PROVE  TruthInv'
<1> DEFINE p == tab[t]
<1>1. PageTrue(t, p) /\ by' = by /\ net' = net
  BY DEF TruthInv, ToggleLock, Write, rows
<1>2. PICK q \in Pages :
        /\ OnePage(t, q) /\ q.seen = p.seen /\ q.sync = "idle" /\ q.truth = None
        /\ q.pending = p.pending /\ q.run.state = p.run.state
  BY OwnerPage
<1>3. PageTrue(t, q)
  BY <1>1, <1>2 DEF PageTrue, SavedRests, AnswerIsCurrent, PendingIsTrue, RefusedIsStale,
       BehindIsOpen, Behind, Open, Told, Target
<1> QED
  BY <1>1, <1>2, <1>3, OnePageTrue

\* What a page sends it has read, and what it has read was true.
LEMMA SentIsTrue ==
  ASSUME IInv, IInv', NEW t \in Tabs, NEW m \in Pages, NEW q, SentFrom(t, m, q),
         AnswerIsCurrent(t, m), \A s \in Sections : ~Behind(t, m, s)
  PROVE  PageTrue(t, q)
<1>1. tab'[t] = q /\ UNCHANGED <<text, rev, edit>>
  BY DEF SentFrom, OnePage, IInv, TypeOK
<1>2. q.seen = m.seen /\ q.base = m.base /\ q.view = m.view
  BY DEF SentFrom, SameWording
<1>3. PendingIsTrue(q)
  <2> SUFFICES ASSUME q.pending = Command(m), NEW s \in Sections, m.seen[s] = rev[s]
               PROVE  m.base[s] = text[s]
    BY DEF SentFrom, PendingIsTrue, Command
  <2>1. Known(s, q.seen[s], q.base[s])'
    BY <1>1 DEF Known
  <2>2. rev[s] \in Nat /\ m.base[s] \in Texts
    BY DEF IInv, TypeOK, Revisions, Pages, Wording
  <2> QED
    BY <1>1, <1>2, <2>1, <2>2 DEF IInv, AllPast
<1>4. SavedRests(q) /\ RefusedIsStale(q)
  BY <1>2 DEF SentFrom, SavedRests, RefusedIsStale, NoRun
<1>5. AnswerIsCurrent(t, q) /\ BehindIsOpen(t, q)
  BY <1>2 DEF SentFrom, SameTed, AnswerIsCurrent, BehindIsOpen, Behind, Told, Target
<1> QED
  BY <1>3, <1>4, <1>5 DEF PageTrue

LEMMA TruePersist ==
  ASSUME IInv, IInv', TruthInv, NEW t \in Tabs, Persist(t)
  PROVE  TruthInv'
<1> DEFINE p == tab[t]
<1>1. PageTrue(t, p) /\ by' = by
  BY DEF TruthInv, Persist, rows
<1>2. PICK q \in Pages :
    \/ /\ OnePage(t, q) /\ SameWording(p, q) /\ SameTed(p, q)
       /\ p.pending # None /\ q.pending = p.pending
       /\ q.sync = "saving" /\ q.run.state = "sent"
       /\ net' = net \cup {[kind |-> "save", from |-> t, cmd |-> q.pending]}
    \/ \E m \in Pages : /\ m.pending = None /\ SameWording(p, m) /\ SameTed(p, m)
                        /\ p.pending = None /\ SentFrom(t, m, q)
  BY PersistPage
<1>3. CASE /\ OnePage(t, q) /\ SameWording(p, q) /\ SameTed(p, q)
           /\ q.pending = p.pending /\ q.sync = "saving" /\ q.run.state = "sent"
           /\ net' = net \cup {[kind |-> "save", from |-> t, cmd |-> q.pending]}
  <2>1. PageTrue(t, q)
    BY <1>1, <1>3 DEF PageTrue, SavedRests, AnswerIsCurrent, PendingIsTrue, RefusedIsStale,
         BehindIsOpen, Behind, Open, Told, Target, SameWording, SameTed
  <2> QED
    BY <1>1, <1>3, <2>1, OnePageTrue
<1>4. ASSUME NEW m \in Pages, SameWording(p, m), SameTed(p, m), p.pending = None, SentFrom(t, m, q)
      PROVE  TruthInv'
  <2>1. AnswerIsCurrent(t, m) /\ \A s \in Sections : ~Behind(t, m, s)
    BY <1>1, <1>4 DEF PageTrue, AnswerIsCurrent, BehindIsOpen, Behind, Open, Told, Target,
         SameWording, SameTed
  <2>2. PageTrue(t, q)
    BY <1>4, <2>1, SentIsTrue
  <2>3. /\ OnePage(t, q)
        /\ net' = net \/ net' = net \cup {[kind |-> "save", from |-> t, cmd |-> q.pending]}
    BY <1>4 DEF SentFrom
  <2> QED
    BY <1>1, <1>4, <2>2, <2>3, OnePageTrue
<1> QED
  BY <1>2, <1>3, <1>4

\* A page that has its receipt has heard of all its saves.
LEMMA TrueReceived ==
  ASSUME IInv, IInv', TruthInv, NEW t \in Tabs, SaveReceived(t)
  PROVE  TruthInv'
<1> DEFINE p == tab[t]
           r == Receipt(p.run.cmd)
<1>1. PageTrue(t, p) /\ by' = by /\ p.run.state = "receipt" /\ p.run # NoRun
  BY DEF TruthInv, SaveReceived, rows, NoRun
<1>2. p.pending = p.run.cmd /\ r \in receipts /\ r \in Receipts /\ p \in Pages
  BY <1>1, ReceivedReceipt, PageFits DEF IInv, FitPage
<1>3. PICK q \in Pages, m \in Pages :
    /\ m = Rendered(p, Merged(p, r))
    /\ \/ SentFrom(t, m, q)
       \/ /\ OnePage(t, q) /\ SameWording(m, q) /\ SameTed(m, q)
          /\ q.scheduled /\ q.run = NoRun /\ q.pending = None /\ net' = net
  BY ReceivedPage
<1>4. /\ m.id = p.id /\ m.truth \in {None, p.truth}
      /\ \A s \in Sections : m.seen[s] = IF p.seen[s] > r.rev[s] THEN p.seen[s] ELSE r.rev[s]
  BY <1>1, <1>3, MergedKeepsTed
<1>5. ASSUME NEW s \in Sections PROVE ~Behind(t, m, s)
  <2> SUFFICES ASSUME by[s] = t, SavedLast(s) PROVE m.seen[s] = rev[s]
    BY DEF Behind
  <2>1. p.seen[s] \in Nat /\ r.rev[s] \in Nat /\ rev[s] \in Nat
    BY <1>2 DEF Pages, Receipts, Revisions, IInv, TypeOK
  <2>2. p.seen[s] <= rev[s] /\ r.rev[s] <= rev[s]
    <3>1. Known(s, p.seen[s], p.base[s]) /\ Known(s, r.rev[s], r.cmd.new[s])
      BY <1>2 DEF Known
    <3> QED
      BY <3>1, KnownIsTyped DEF IInv, AllPast
  <2>3. p.seen[s] = rev[s] \/ r.rev[s] = rev[s]
    BY <1>1, <1>2 DEF PageTrue, BehindIsOpen, Behind, Open
  <2> QED
    BY <1>4, <2>1, <2>2, <2>3
<1>6. AnswerIsCurrent(t, m)
  BY <1>1, <1>4 DEF PageTrue, AnswerIsCurrent, Told, Target
<1>7. PageTrue(t, q)
  <2>1. CASE SentFrom(t, m, q)
    BY <1>5, <1>6, <2>1, SentIsTrue
  <2>2. CASE /\ SameWording(m, q) /\ SameTed(m, q)
             /\ q.scheduled /\ q.run = NoRun /\ q.pending = None
    BY <1>5, <1>6, <2>2 DEF PageTrue, SavedRests, AnswerIsCurrent, PendingIsTrue, RefusedIsStale,
         BehindIsOpen, Behind, Told, Target, NoRun, SameWording, SameTed
  <2> QED
    BY <1>3, <2>1, <2>2
<1>8. /\ OnePage(t, q)
      /\ net' = net \/ net' = net \cup {[kind |-> "save", from |-> t, cmd |-> q.pending]}
  BY <1>3 DEF SentFrom
<1> QED
  BY <1>1, <1>2, <1>7, <1>8, OnePageTrue DEF Spent

\* Steps that end a save, or that only concern a suggestion.
LEMMA TrueOther ==
  ASSUME IInv, TruthInv, NEW t \in Tabs,
         \/ SaveRefused(t) \/ SaveUnknown(t) \/ Retry(t)
         \/ Applying(t) \/ Confirm(t) \/ StreamEnds(t) \/ Leave(t)
         \/ \E s \in Sections : Recover(t, s)
  PROVE  TruthInv'
<1> DEFINE p == tab[t]
<1>1. PageTrue(t, p) /\ by' = by
  BY DEF TruthInv, SaveRefused, SaveUnknown, Retry, Applying, ApplyReceived, ApplyUnknown,
         Confirm, StreamEnds, Leave, Recover, rows
<1>2. CASE SaveRefused(t) \/ SaveUnknown(t)
  <2>1. PICK q \in Pages :
          /\ OnePage(t, q) /\ SameWording(p, q) /\ SameTed(p, q)
          /\ p.run # NoRun /\ q.run = NoRun /\ q.sync \in {"failed", p.sync}
          /\ q.pending = p.pending \/ (q.pending = None /\ p.run.state = "conflict")
    BY <1>2, GivenUpPage
  <2>2. p.run.state = "conflict" => Stale(p.pending) /\ Receipt(p.pending) \notin receipts
    BY <1>1 DEF PageTrue, RefusedIsStale
  <2>3. PageTrue(t, q)
    BY <1>1, <2>1, <2>2 DEF PageTrue, SavedRests, AnswerIsCurrent, PendingIsTrue, RefusedIsStale,
         BehindIsOpen, Behind, Open, Told, Target, NoRun, SameWording, SameTed
  <2>4. net' = net
    BY <1>2 DEF SaveRefused, SaveUnknown
  <2> QED
    BY <1>1, <2>1, <2>2, <2>3, <2>4, OnePageTrue DEF Spent
<1>3. CASE Retry(t)
  <2>1. PICK q \in Pages :
          /\ OnePage(t, q) /\ SameWording(p, q) /\ SameTed(p, q)
          /\ q.run = p.run /\ q.pending = p.pending /\ q.sync = "failed"
    BY <1>3, RetryPage
  <2>2. PageTrue(t, q)
    BY <1>1, <2>1 DEF PageTrue, SavedRests, AnswerIsCurrent, PendingIsTrue, RefusedIsStale,
         BehindIsOpen, Behind, Open, Told, Target, SameWording, SameTed
  <2>3. net' = net
    BY <1>3 DEF Retry
  <2> QED
    BY <1>1, <2>1, <2>2, <2>3, OnePageTrue
<1>4. CASE \/ StreamEnds(t) \/ Confirm(t) \/ ApplyUnknown(t) \/ Leave(t)
           \/ ApplyReceived(t) /\ p.truth.rev = 0
  <2>1. PICK q \in Pages :
    /\ OnePage(t, q) /\ SameWording(p, q) /\ SameSave(p, q) /\ q.truth = None
    /\ \/ net' = net
       \/ net' = net \cup {[kind |-> "apply", from |-> t, id |-> q.id]}
    BY <1>4, TedPage
  <2>2. PageTrue(t, q)
    BY <1>1, <2>1 DEF PageTrue, SavedRests, AnswerIsCurrent, PendingIsTrue, RefusedIsStale,
         BehindIsOpen, Behind, Open, Told, Target, SameWording, SameSave
  <2> QED
    BY <1>1, <2>1, <2>2, OnePageTrue DEF SameSave
<1>5. ASSUME NEW s \in Sections, Recover(t, s) PROVE TruthInv'
  <2>1. PICK q \in Pages :
          OnePage(t, q) /\ SameWording(p, q) /\ SameSave(p, q) /\ q.truth = None
    BY <1>5, RecoverPage
  <2>2. PageTrue(t, q)
    BY <1>1, <2>1 DEF PageTrue, SavedRests, AnswerIsCurrent, PendingIsTrue, RefusedIsStale,
         BehindIsOpen, Behind, Open, Told, Target, SameWording, SameSave
  <2>3. net' = net
    BY <1>5 DEF Recover
  <2> QED
    BY <1>1, <2>1, <2>2, <2>3, OnePageTrue DEF SameSave
<1>6. CASE ApplyReceived(t) /\ p.truth.rev # 0
  <2>1. PICK q \in Pages :
    /\ OnePage(t, q) /\ Told(p) /\ p.ted = "applying"
    /\ q.pending = p.pending /\ q.sync = "idle" /\ q.truth = None
    /\ q.run.state = p.run.state
    /\ \A x \in Sections :
         q.seen[x] = IF x = Target(p) THEN p.truth.rev ELSE p.seen[x]
    BY <1>6, AppliedPage
  <2>2. by[Target(p)] = t /\ SavedLast(Target(p)) => p.truth.rev = rev[Target(p)]
    BY <1>1, <2>1 DEF PageTrue, AnswerIsCurrent
  <2>3. BehindIsOpen(t, q)
    BY <1>1, <2>1, <2>2 DEF PageTrue, BehindIsOpen, Behind, Open
  <2>4. PageTrue(t, q)
    BY <1>1, <2>1, <2>3 DEF PageTrue, SavedRests, AnswerIsCurrent, PendingIsTrue, RefusedIsStale, Told, Target
  <2>5. net' = net
    BY <1>6 DEF ApplyReceived
  <2> QED
    BY <1>1, <2>1, <2>4, <2>5, OnePageTrue
<1> QED
  BY <1>2, <1>3, <1>4, <1>5, <1>6 DEF Applying

\* What a page had under way comes from nobody once it is opened again.
LEMMA TrueReload ==
  ASSUME IInv, TruthInv, NEW t \in Tabs, Reload(t)
  PROVE  TruthInv'
<1>1. /\ UNCHANGED <<text, rev, doc, receipts, edit>>
      /\ tab'[t] = Loaded /\ \A u \in Tabs : u # t => tab'[u] = tab[u]
  BY ReloadPage DEF OnePage, IInv, TypeOK
<1>2. /\ \A s \in Sections : by'[s] # t /\ \A u \in Tabs : by'[s] = u => by[s] = u
      /\ \A m \in net' : m.from # t /\ (m.from \in Tabs => m \in net)
  <2>1. None \notin Tabs
    BY SaveAssumption
  <2>2. \A m \in net : [m EXCEPT !.from = None].from = None
    BY DEF IInv, TypeOK, Messages
  <2>3. net' = {IF m.from = t THEN [m EXCEPT !.from = None] ELSE m : m \in net}
        /\ by' = [s \in Sections |-> IF by[s] = t THEN None ELSE by[s]]
    BY DEF Reload
  <2>4. \A n \in net' : \E m \in net : n = IF m.from = t THEN [m EXCEPT !.from = None] ELSE m
    BY <2>3
  <2> QED
    BY <2>1, <2>2, <2>3, <2>4
<1>3. \A c : /\ (Stale(c)' <=> Stale(c)) /\ Receipt(c)' = Receipt(c)
             /\ (Spent(c)' <=> Spent(c))
  BY <1>1 DEF Stale, Receipt, Changed, Spent
<1>4. \A m \in net' : MessageFits(m)'
  BY <1>1, <1>2, <1>3 DEF TruthInv, MessageFits
<1>5. \A s : SavedLast(s)' <=> SavedLast(s)
  BY <1>1 DEF SavedLast, SavesOf, Changed
<1>6. ASSUME NEW u \in Tabs PROVE PageTrue(u, tab[u])'
  <2>1. CASE u = t
    BY <1>1, <1>2, <2>1, ReloadPage DEF PageTrue, SavedRests, AnswerIsCurrent, PendingIsTrue,
         RefusedIsStale, BehindIsOpen, Behind, Told, Target
  <2>2. CASE u # t
    <3>1. PageTrue(u, tab[u]) /\ tab'[u] = tab[u]
      BY <1>1, <2>2 DEF TruthInv
    <3>2. SavedRests(tab[u])' /\ PendingIsTrue(tab[u])'
      BY <1>1, <3>1 DEF PageTrue, SavedRests, PendingIsTrue
    <3>3. Told(tab[u]) => Target(tab[u]) \in Sections
      BY NoAnswerYet, TargetFits DEF IInv, Told
    <3>4. AnswerIsCurrent(u, tab[u])'
      BY <1>1, <1>2, <1>5, <3>1, <3>3 DEF PageTrue, AnswerIsCurrent, Told, Target
    <3>5. RefusedIsStale(tab[u])' /\ BehindIsOpen(u, tab[u])'
      BY <1>1, <1>2, <1>3, <1>5, <3>1 DEF PageTrue, RefusedIsStale, BehindIsOpen, Behind, Open
    <3> QED
      BY <3>2, <3>4, <3>5 DEF PageTrue
  <2> QED
    BY <2>1, <2>2
<1> QED
  BY <1>4, <1>6 DEF TruthInv

-----------------------------------------------------------------------------
(* Steps of the account *)

Onward ==
  /\ doc <= doc' /\ receipts \subseteq receipts'
  /\ \A s \in Sections : rev[s] <= rev'[s] /\ (rev'[s] = rev[s] => text'[s] = text[s])

LEMMA StaleStays ==
  ASSUME IInv, IInv', Onward, NEW c \in Commands, Stale(c) PROVE Stale(c)'
<1>1. c.doc \in Nat /\ doc \in Nat /\ doc' \in Nat
  BY DEF IInv, TypeOK, Commands
<1>2. \A s \in Sections : c.rev[s] \in Nat /\ rev[s] \in Nat /\ rev'[s] \in Nat
  BY DEF IInv, TypeOK, Commands, Revisions
<1> QED
  BY <1>1, <1>2 DEF Stale, Onward

\* The command a page keeps is not ahead of the account.
LEMMA PendingIsPast ==
  ASSUME IInv, NEW t \in Tabs, tab[t].pending # None
  PROVE  /\ tab[t].pending \in Commands /\ tab[t].pending.doc <= doc
         /\ \A s \in Sections : tab[t].pending.rev[s] <= rev[s]
<1> DEFINE p == tab[t]
<1>1. p \in Pages /\ p.pending \in Commands
  BY PageFits DEF IInv, FitPage, Pages
<1>2. Learned(p)
  BY PageIsLearned
<1>3. /\ p.doc \in Nat /\ p.pending.doc \in Nat /\ doc \in Nat
      /\ \A s \in Sections : /\ p.seen[s] \in Nat /\ p.pending.rev[s] \in Nat /\ rev[s] \in Nat
                             /\ p.base[s] \in Texts
  BY <1>1 DEF Pages, Commands, Revisions, Wording, IInv, TypeOK
<1>4. p.doc <= doc /\ \A s \in Sections : p.seen[s] <= rev[s]
  BY <1>2, <1>3 DEF Learned, IInv, AllPast
<1>5. p.pending.doc <= p.doc /\ \A s \in Sections : p.pending.rev[s] <= p.seen[s]
  BY DEF IInv, PageOK, PendingIsOld
<1> QED
  BY <1>1, <1>3, <1>4, <1>5

\* What is left to show of a step that leaves all pages as they are but for
\* their suggestions and for an answer to a save under way.
LEMMA AccountTrue ==
  ASSUME IInv, IInv', TruthInv, Onward, net' \subseteq net,
         \A u \in Tabs :
           /\ SameWording(tab[u], tab'[u])
           /\ tab'[u].pending = tab[u].pending /\ tab'[u].sync = tab[u].sync
           /\ tab'[u].scheduled = tab[u].scheduled
           /\ tab[u].run = NoRun => tab'[u].run = NoRun,
         \A u \in Tabs : RefusedIsStale(tab[u])' /\ AnswerIsCurrent(u, tab[u])'
                         /\ BehindIsOpen(u, tab[u])'
  PROVE  TruthInv'
<1>1. \A c : Receipt(c)' = Receipt(c)
  BY DEF Receipt, Changed
<1>2. ASSUME NEW m \in net', m.kind = "save", m.from \in Tabs
      PROVE  tab'[m.from].pending = m.cmd \/ Spent(m.cmd)'
  <2>1. m.cmd \in Commands /\ (tab[m.from].pending = m.cmd \/ Spent(m.cmd))
    BY <1>2 DEF TruthInv, MessageFits, IInv, TypeOK, Messages
  <2>2. Stale(m.cmd) => Stale(m.cmd)'
    BY <2>1, StaleStays
  <2> QED
    BY <1>1, <1>2, <2>1, <2>2 DEF Spent, Onward
<1>3. ASSUME NEW u \in Tabs PROVE PendingIsTrue(tab[u])'
  <2> SUFFICES ASSUME tab[u].pending # None, NEW s \in Sections, tab[u].pending.rev[s] = rev'[s]
               PROVE  tab[u].pending.old[s] = text'[s]
    BY DEF PendingIsTrue
  <2>1. /\ tab[u].pending.rev[s] <= rev[s] /\ rev[s] <= rev'[s]
        /\ (rev'[s] = rev[s] => text'[s] = text[s])
    BY PendingIsPast DEF Onward
  <2>2. rev[s] \in Nat /\ rev'[s] \in Nat
    BY DEF IInv, TypeOK, Revisions
  <2>3. PendingIsTrue(tab[u])
    BY DEF TruthInv, PageTrue
  <2> QED
    BY <2>1, <2>2, <2>3 DEF PendingIsTrue
<1>4. ASSUME NEW u \in Tabs PROVE SavedRests(tab[u])'
  <2>1. SavedRests(tab[u])
    BY DEF TruthInv, PageTrue
  <2> QED
    BY <2>1 DEF SavedRests, SameWording
<1>5. \A u \in Tabs : PageTrue(u, tab[u])'
  BY <1>3, <1>4 DEF PageTrue
<1> QED
  BY <1>2, <1>5 DEF TruthInv, MessageFits

\* ... and of one that leaves the rows, the receipts and the saves alone.
LEMMA QuietTrue ==
  ASSUME IInv, IInv', TruthInv, UNCHANGED <<rows, receipts>>, net' \subseteq net,
         \A u \in Tabs : SameWording(tab[u], tab'[u]) /\ SameSave(tab[u], tab'[u]),
         \A u \in Tabs : Told(tab'[u]) =>
           tab'[u].truth = tab[u].truth /\ edit'[tab'[u].id].section = Target(tab[u])
  PROVE  TruthInv'
<1>1. UNCHANGED <<text, rev, doc, by>>
  BY DEF rows
<1>2. Onward
  BY <1>1 DEF Onward, IInv, TypeOK, Revisions
<1>3. \A c : (Stale(c)' <=> Stale(c)) /\ Receipt(c)' = Receipt(c)
  BY <1>1 DEF Stale, Receipt, Changed
<1>4. \A s : SavedLast(s)' <=> SavedLast(s)
  BY <1>1 DEF SavedLast, SavesOf, Changed
<1>5. ASSUME NEW u \in Tabs
      PROVE  RefusedIsStale(tab[u])' /\ BehindIsOpen(u, tab[u])' /\ AnswerIsCurrent(u, tab[u])'
  <2>1. RefusedIsStale(tab[u]) /\ BehindIsOpen(u, tab[u]) /\ AnswerIsCurrent(u, tab[u])
    BY DEF TruthInv, PageTrue
  <2>2. RefusedIsStale(tab[u])'
    BY <1>3, <2>1 DEF RefusedIsStale, SameSave
  <2>3. BehindIsOpen(u, tab[u])'
    BY <1>1, <1>3, <1>4, <2>1 DEF BehindIsOpen, Behind, Open, SameWording, SameSave
  <2>4. AnswerIsCurrent(u, tab[u])'
    BY <1>1, <1>4, <2>1 DEF AnswerIsCurrent, Told, Target
  <2> QED
    BY <2>2, <2>3, <2>4
<1> QED
  BY <1>2, <1>5, AccountTrue DEF SameSave

\* What the account does with a save, and who wrote what then.
LEMMA SaveFacts ==
  ASSUME IInv, NEW m \in net, m.kind = "save", Save(m)
  PROVE  LET c == m.cmd
         IN  /\ m.from \in Tabs \cup {None} /\ c \in Commands
             /\ edit' = edit /\ net' = net \ {m} /\ Onward
             /\ \/ /\ UNCHANGED <<rows, receipts>>
                   /\ \/ tab' = Answered(m.from, c, "receipt")
                      \/ /\ tab' = Answered(m.from, c, "conflict")
                         /\ ~Expected(c) /\ Receipt(c) \notin receipts
                \/ /\ Expected(c) /\ Receipt(c) \notin receipts
                   /\ tab' = Answered(m.from, c, "receipt")
                   /\ receipts' = receipts \cup {Receipt(c)} /\ Receipt(c).rev = rev'
                   /\ \A s \in Sections :
                        IF c.new[s] # c.old[s] THEN by'[s] = m.from
                        ELSE by'[s] = by[s] /\ rev'[s] = rev[s]
<1> DEFINE c == m.cmd
<1>1. m.from \in Tabs \cup {None} /\ c \in Commands /\ edit' = edit /\ net' = net \ {m}
  BY DEF IInv, TypeOK, Messages, Save
<1>2. CASE Receipt(c) \in receipts \/ ~Expected(c)
  <2>1. UNCHANGED <<rows, receipts>>
    BY <1>2 DEF Save
  <2>2. Onward
    BY <2>1 DEF Onward, rows, IInv, TypeOK, Revisions
  <2> QED
    BY <1>1, <1>2, <2>1, <2>2 DEF Save
<1>3. CASE Expected(c) /\ Receipt(c) \notin receipts
  <2>1. /\ text' = c.new /\ rev' = Receipt(c).rev /\ doc' = Receipt(c).doc
        /\ by' = [s \in Sections |-> IF s \in Changed(c) THEN m.from ELSE by[s]]
        /\ receipts' = receipts \cup {Receipt(c)}
        /\ tab' = Answered(m.from, c, "receipt")
    BY <1>3 DEF Save
  <2>2. Onward
    BY <1>1, <1>3, <2>1, ExpectedSave DEF Onward
  <2>3. ASSUME NEW s \in Sections
        PROVE  IF c.new[s] # c.old[s] THEN by'[s] = m.from ELSE by'[s] = by[s] /\ rev'[s] = rev[s]
    BY <1>1, <1>3, <2>1, ChangedSections DEF Changed, Expected
  <2> QED
    BY <1>1, <1>3, <2>1, <2>2, <2>3
<1> QED
  BY <1>2, <1>3

\* A save that its page waits for is refused only if it has become stale.
LEMMA RefusalIsFinal ==
  ASSUME IInv, TruthInv, NEW u \in Tabs, tab[u].pending # None, ~Expected(tab[u].pending)
  PROVE  Stale(tab[u].pending)
<1> DEFINE c == tab[u].pending
<1>1. /\ c \in Commands /\ c.doc <= doc /\ c.doc \in Nat /\ doc \in Nat
      /\ \A s \in Sections : c.rev[s] <= rev[s] /\ c.rev[s] \in Nat /\ rev[s] \in Nat
  BY PendingIsPast DEF Commands, Revisions, IInv, TypeOK
<1>2. \A s \in Sections : c.rev[s] = rev[s] => c.old[s] = text[s]
  BY DEF TruthInv, PageTrue, PendingIsTrue
<1>3. ASSUME c.doc = doc, \A s \in Sections : c.rev[s] = rev[s] PROVE Expected(c)
  <2>1. c.rev = rev /\ c.old = text
    BY <1>1, <1>2, <1>3 DEF Commands, Revisions, Wording, IInv, TypeOK
  <2> QED
    BY <1>3, <2>1 DEF Expected
<1> QED
  BY <1>1, <1>3 DEF Stale

\* A page is answered about a later row than the one its command starts from.
LEMMA ToldIsNewer ==
  ASSUME IInv, NEW u \in Tabs, Told(tab[u]), tab[u].pending # None
  PROVE  tab[u].pending.rev[Target(tab[u])] < tab[u].truth.rev
<1> DEFINE p == tab[u]
           s == Target(p)
<1>1. PageOK(p) /\ p \in Pages /\ p.pending \in Commands
  BY PageFits DEF IInv, FitPage, Pages
<1>2. p.ted = "applying" /\ edit[p.id].rev < p.truth.rev
  BY <1>1 DEF PageOK, AnswerIsNew, Told
<1>3. s \in Sections /\ p.id \in EditIds /\ p.id \in Asked
  BY <1>2, TargetFits DEF IInv
<1>4. p.pending.rev[s] <= p.seen[s] /\ p.seen[s] <= edit[p.id].rev
  BY <1>1, <1>2, <1>3 DEF PageOK, PendingIsOld, BoundToPage
<1>5. edit[p.id].rev \in Nat
  BY <1>3 DEF IInv, TypeOK, Asked, Operations, NoEdit
<1>6. p.truth.rev \in Nat /\ p.seen[s] \in Nat /\ p.pending.rev[s] \in Nat
  BY <1>1, <1>3 DEF Pages, Truths, Told, Commands, Revisions
<1> QED
  BY <1>2, <1>4, <1>5, <1>6

LEMMA TrueSave ==
  ASSUME IInv, IInv', TruthInv, NEW m \in net, m.kind = "save", Save(m)
  PROVE  TruthInv'
<1> DEFINE c == m.cmd
<1>1. /\ m.from \in Tabs \cup {None} /\ c \in Commands /\ c # None
      /\ edit' = edit /\ net' = net \ {m} /\ Onward
  BY SaveFacts, SaveAssumption
<1>2. \E answer \in {"receipt", "conflict"} : tab' = Answered(m.from, c, answer)
  BY DEF Save
<1>3. \A u \in Tabs :
         /\ SameWording(tab[u], tab'[u]) /\ SameTed(tab[u], tab'[u])
         /\ tab'[u].pending = tab[u].pending /\ tab'[u].sync = tab[u].sync
         /\ tab'[u].scheduled = tab[u].scheduled
         /\ tab[u].run = NoRun => tab'[u].run = NoRun
  BY <1>1, <1>2, AnsweredPage DEF NoRun
<1>4. \A d : Receipt(d)' = Receipt(d)
  BY DEF Receipt, Changed
<1>5. \A u \in Tabs : RefusedIsStale(tab[u]) /\ BehindIsOpen(u, tab[u]) /\ AnswerIsCurrent(u, tab[u])
  BY DEF TruthInv, PageTrue
<1>6. \A u \in Tabs : Target(tab[u])' = Target(tab[u]) /\ (Told(tab[u])' <=> Told(tab[u]))
  BY <1>1, <1>3 DEF Told, Target, SameTed
<1>7. ASSUME NEW s \in Sections, c.new[s] = c.old[s], rev'[s] = rev[s], SavedLast(s)'
      PROVE  SavedLast(s)
  <2>1. receipts' \subseteq receipts \cup {Receipt(c)} /\ Receipt(c).cmd = c
    BY <1>1, SaveFacts, ChangedSections
  <2>2. PICK r \in receipts' : s \in Changed(r.cmd) /\ r.rev[s] = rev'[s]
    BY <1>7 DEF SavedLast, SavesOf, Changed
  <2>3. r \in receipts
    BY <1>7, <2>1, <2>2 DEF Changed
  <2> QED
    BY <1>7, <2>2, <2>3 DEF SavedLast, SavesOf
<1>8. CASE /\ UNCHANGED <<rows, receipts>>
           /\ \/ tab' = Answered(m.from, c, "receipt")
              \/ /\ tab' = Answered(m.from, c, "conflict")
                 /\ ~Expected(c) /\ Receipt(c) \notin receipts
  <2>1. \A d : Stale(d)' <=> Stale(d)
    BY <1>8 DEF rows, Stale
  <2>2. ASSUME NEW u \in Tabs PROVE BehindIsOpen(u, tab[u])' /\ AnswerIsCurrent(u, tab[u])'
    <3>1. \A s : SavedLast(s)' <=> SavedLast(s)
      BY <1>8 DEF SavedLast, SavesOf, Changed, rows
    <3>2. BehindIsOpen(u, tab[u])'
      BY <1>3, <1>4, <1>5, <1>8, <3>1 DEF rows, BehindIsOpen, Behind, Open, SameWording
    <3>3. AnswerIsCurrent(u, tab[u])'
      BY <1>3, <1>5, <1>6, <1>8, <3>1 DEF rows, AnswerIsCurrent, SameTed
    <3> QED
      BY <3>2, <3>3
  <2>3. ASSUME NEW u \in Tabs, tab'[u].run.state = "conflict"
        PROVE  Stale(tab[u].pending) /\ Receipt(tab[u].pending) \notin receipts
    <3>1. CASE tab'[u].run = tab[u].run
      BY <1>5, <2>3, <3>1 DEF RefusedIsStale
    <3>2. CASE tab[u].run.state = "sent" /\ tab[u].run.cmd = c /\ ~Expected(c) /\ Receipt(c) \notin receipts
      <4>1. tab[u].pending = c
        BY <3>2, PageFits DEF IInv, FitPage, NoRun
      <4> QED
        BY <1>1, <3>2, <4>1, RefusalIsFinal
    <3> QED
      BY <1>1, <1>8, <2>3, <3>1, <3>2, AnsweredPage
  <2>4. ASSUME NEW u \in Tabs PROVE RefusedIsStale(tab[u])'
    BY <1>3, <1>4, <1>8, <2>1, <2>3 DEF RefusedIsStale
  <2> QED
    BY <1>1, <1>3, <2>2, <2>4, AccountTrue
<1>9. CASE /\ Expected(c) /\ Receipt(c) \notin receipts
           /\ tab' = Answered(m.from, c, "receipt")
           /\ receipts' = receipts \cup {Receipt(c)} /\ Receipt(c).rev = rev'
           /\ \A s \in Sections :
                IF c.new[s] # c.old[s] THEN by'[s] = m.from
                ELSE by'[s] = by[s] /\ rev'[s] = rev[s]
  <2>1. ~Stale(c)
    BY <1>1, <1>9 DEF Stale, Expected, IInv, TypeOK, Revisions
  <2>2. m.from \in Tabs => tab[m.from].pending = c
    BY <1>9, <2>1 DEF TruthInv, MessageFits, Spent
  <2>3. ASSUME NEW u \in Tabs PROVE RefusedIsStale(tab[u])'
    <3>1. tab'[u].run = tab[u].run \/ tab'[u].run.state = "receipt"
      BY <1>1, <1>9, AnsweredPage
    <3>2. PICK d : d = tab[u].pending
      OBVIOUS
    <3>3. CASE tab[u].run.state = "conflict"
      <4>1. Stale(d) /\ Receipt(d) \notin receipts /\ d \in Commands
        <5>1. FitPage(tab[u]) /\ tab[u].run # NoRun
          BY <3>3, PageFits DEF IInv, NoRun
        <5> QED
          BY <1>5, <3>2, <3>3, <5>1 DEF RefusedIsStale, FitPage, Pages, Runs
      <4>2. Receipt(d) # Receipt(c)
        BY <2>1, <4>1 DEF Receipt
      <4>3. Stale(d)'
        BY <1>1, <4>1, StaleStays
      <4> QED
        BY <1>3, <1>4, <1>9, <3>2, <4>1, <4>2, <4>3 DEF RefusedIsStale
    <3> QED
      BY <3>1, <3>3 DEF RefusedIsStale
  <2>4. ASSUME NEW u \in Tabs PROVE BehindIsOpen(u, tab[u])'
    <3> SUFFICES ASSUME NEW s \in Sections, by'[s] = u, SavedLast(s)', tab[u].seen[s] # rev'[s]
                 PROVE  Open(tab[u], s)'
      BY <1>3 DEF BehindIsOpen, Behind, SameWording
    <3>1. CASE c.new[s] # c.old[s]
      BY <1>1, <1>3, <1>4, <1>9, <2>2, <3>1 DEF Open
    <3>2. CASE c.new[s] = c.old[s]
      BY <1>3, <1>4, <1>5, <1>7, <1>9, <3>2 DEF BehindIsOpen, Behind, Open
    <3> QED
      BY <3>1, <3>2
\* A command of the page is older than the answer it has got.
  <2>5. ASSUME NEW u \in Tabs PROVE AnswerIsCurrent(u, tab[u])'
    <3>0. PICK s : s = Target(tab[u])
      OBVIOUS
    <3> SUFFICES ASSUME Told(tab[u]), by'[s] = u, SavedLast(s)'
                 PROVE  tab[u].truth.rev = rev'[s]
      <4>1. SavedLast(Target(tab[u]))' <=> SavedLast(s)'
        BY <1>6, <3>0 DEF SavedLast, SavesOf, Changed
      <4> QED
        BY <1>3, <1>6, <3>0, <4>1 DEF AnswerIsCurrent, SameTed
    <3>1. s \in Sections
      BY <3>0, NoAnswerYet, TargetFits DEF IInv, Told
    <3>2. CASE c.new[s] = c.old[s]
      BY <1>5, <1>7, <1>9, <3>0, <3>1, <3>2 DEF AnswerIsCurrent
    <3>3. CASE c.new[s] # c.old[s]
      <4>1. u = m.from /\ tab[u].pending = c /\ c.rev[s] = rev[s]
        BY <1>9, <2>2, <3>1, <3>3 DEF Expected
      <4>2. tab[u].pending.rev[s] < tab[u].truth.rev
        BY <1>1, <3>0, <4>1, ToldIsNewer
      <4>3. Known(s, tab[u].truth.rev, tab[u].truth.text)
        BY <3>0 DEF Known
      <4>4. tab[u].truth.rev <= rev[s]
        BY <3>1, <4>3, KnownIsTyped DEF IInv, AllPast
      <4>5. tab[u].truth.rev \in Nat /\ rev[s] \in Nat
        BY <3>1, <4>3, KnownIsTyped DEF IInv, TypeOK, Revisions
      <4> QED
        BY <4>1, <4>2, <4>4, <4>5
    <3> QED
      BY <3>2, <3>3
  <2> QED
    BY <1>1, <1>3, <2>3, <2>4, <2>5, AccountTrue
<1> QED
  BY <1>8, <1>9, SaveFacts

\* An apply moves one row on, and tells its page of the row only if it is applied.
LEMMA ApplyTells ==
  ASSUME IInv, NEW m \in net, m.kind # "save", Apply(m)
  PROVE  /\ \A u \in Tabs : \/ tab'[u].truth = tab[u].truth
                            \/ tab'[u].truth.rev = 0
                            \/ tab[u].id = m.id /\ tab'[u].truth.rev = rev'[edit[m.id].section]
         /\ \/ UNCHANGED <<rows, edit>>
            \/ /\ edit'[m.id].state = "applied" /\ edit[m.id].section \in Sections
               /\ rev'[edit[m.id].section] = rev[edit[m.id].section] + 1 /\ doc' = doc + 1
               /\ \A s \in Sections : s # edit[m.id].section =>
                    rev'[s] = rev[s] /\ text'[s] = text[s] /\ by'[s] = by[s]
<1> DEFINE e == edit[m.id]
           applies == e.state = "ready" /\ StillAccepted(e)
<1>1. m.id \in EditIds /\ edit \in [EditIds -> Operations] /\ tab \in [Tabs -> Pages]
  BY DEF IInv, TypeOK, Messages
<1>2. ASSUME applies
      PROVE  /\ edit'[m.id].state = "applied" /\ e.section \in Sections
             /\ rev'[e.section] = rev[e.section] + 1 /\ doc' = doc + 1
             /\ \A s \in Sections : s # e.section =>
                  rev'[s] = rev[s] /\ text'[s] = text[s] /\ by'[s] = by[s]
  <2>1. e \in Operations /\ e # NoEdit /\ e.section \in Sections
    BY <1>1, <1>2 DEF Operations, NoEdit
  <2>2. edit' = [edit EXCEPT ![m.id] = [e EXCEPT !.state = "applied"]]
    BY <1>1, <1>2 DEF Apply
  <2>3. [e EXCEPT !.state = "applied"].state = "applied"
    BY <2>1 DEF Operations, NoEdit
  <2>4. /\ text' = [text EXCEPT ![e.section] = Edited(e.new)]
        /\ rev' = [rev EXCEPT ![e.section] = @ + 1] /\ doc' = doc + 1
        /\ by' = [by EXCEPT ![e.section] = m.from]
    BY <1>2 DEF Apply
  <2> HIDE DEF e
  <2>5. edit'[m.id].state = "applied"
    BY <1>1, <2>2, <2>3
  <2>6. /\ rev'[e.section] = rev[e.section] + 1
        /\ \A s \in Sections : s # e.section =>
             rev'[s] = rev[s] /\ text'[s] = text[s] /\ by'[s] = by[s]
    BY <2>1, <2>4 DEF IInv, TypeOK, Wording, Revisions
  <2> QED
    BY <2>1, <2>4, <2>5, <2>6
<1>3. ASSUME ~applies PROVE UNCHANGED <<rows, edit>>
  BY <1>3 DEF Apply
<1>4. ASSUME NEW u \in Tabs
      PROVE  \/ tab'[u].truth = tab[u].truth
             \/ tab'[u].truth.rev = 0
             \/ tab[u].id = m.id /\ tab'[u].truth.rev = rev'[e.section]
  <2>1. CASE m.from \in Tabs /\ tab[m.from].ted = "applying" /\ tab[m.from].id = m.id
    <3>1. PICK v : v = IF edit'[m.id].state = "applied" THEN Truth(e) ELSE [rev |-> 0]
      OBVIOUS
    <3>2. tab' = [tab EXCEPT ![m.from] = [tab[m.from] EXCEPT !.truth = v]]
      BY <1>1, <2>1, <3>1 DEF Apply, Pages
    <3>3. tab'[u] = tab[u] \/ (u = m.from /\ tab'[u].truth = v)
      BY <1>1, <2>1, <3>2 DEF Pages
    <3> QED
      BY <2>1, <3>1, <3>3 DEF Truth
  <2>2. CASE ~(m.from \in Tabs /\ tab[m.from].ted = "applying" /\ tab[m.from].id = m.id)
    BY <2>2 DEF Apply
  <2> QED
    BY <2>1, <2>2
<1> QED
  BY <1>2, <1>3, <1>4

LEMMA TrueApply ==
  ASSUME IInv, IInv', TruthInv, NEW m \in net, m.kind # "save", Apply(m)
  PROVE  TruthInv'
<1> DEFINE e == edit[m.id]
<1>1. /\ m.id \in EditIds /\ receipts' = receipts /\ net' \subseteq net
      /\ \A i \in EditIds : i # m.id => edit'[i] = edit[i]
      /\ edit'[m.id].section = e.section
      /\ \A u \in Tabs : /\ SameWording(tab[u], tab'[u]) /\ SameSave(tab[u], tab'[u])
                         /\ tab'[u].id = tab[u].id
  BY ApplyFacts DEF Apply
<1>2. \/ UNCHANGED <<rows, edit>>
      \/ /\ edit'[m.id].state = "applied" /\ e.section \in Sections
         /\ rev'[e.section] = rev[e.section] + 1 /\ doc' = doc + 1
         /\ \A s \in Sections : s # e.section =>
              rev'[s] = rev[s] /\ text'[s] = text[s] /\ by'[s] = by[s]
  BY ApplyTells
<1>3. Onward
  <2>1. doc \in Nat /\ \A s \in Sections : rev[s] \in Nat
    BY DEF IInv, TypeOK, Revisions
  <2> QED
    BY <1>1, <1>2, <2>1 DEF Onward, rows
<1>4. \A i \in EditIds : /\ edit'[i].section = edit[i].section
                         /\ edit[i].state = "applied" => edit'[i].state = "applied"
  BY <1>1, <1>2
<1>5. \A u \in Tabs : /\ RefusedIsStale(tab[u]) /\ BehindIsOpen(u, tab[u])
                      /\ AnswerIsCurrent(u, tab[u])
  BY DEF TruthInv, PageTrue
<1>6. \A d : Receipt(d)' = Receipt(d)
  BY DEF Receipt, Changed
<1>7. ASSUME NEW u \in Tabs PROVE RefusedIsStale(tab[u])'
  <2>1. PICK d : d = tab[u].pending
    OBVIOUS
  <2>2. CASE tab[u].run.state = "conflict"
    <3>1. FitPage(tab[u]) /\ tab[u].run # NoRun
      BY <2>2, PageFits DEF IInv, NoRun
    <3>2. Stale(d) /\ Receipt(d) \notin receipts /\ d \in Commands
      BY <1>5, <2>1, <2>2, <3>1 DEF RefusedIsStale, FitPage, Pages, Runs
    <3>3. Stale(d)'
      BY <1>3, <3>2, StaleStays
    <3> QED
      BY <1>1, <1>6, <2>1, <3>2, <3>3 DEF RefusedIsStale, SameSave
  <2> QED
    BY <1>1, <2>2 DEF RefusedIsStale, SameSave
\* A row that an apply has moved on has not been written by a save.
<1>8. ASSUME NEW s \in Sections, SavedLast(s)'
      PROVE  rev'[s] = rev[s] /\ by'[s] = by[s] /\ SavedLast(s)
  <2>1. PICK r \in receipts : s \in Changed(r.cmd) /\ r.rev[s] = rev'[s]
    BY <1>1, <1>8 DEF SavedLast, SavesOf, Changed
  <2>2. Known(s, r.rev[s], r.cmd.new[s])
    BY <2>1 DEF Known
  <2>3. rev'[s] <= rev[s] /\ rev[s] \in Nat
    BY <2>1, <2>2, KnownIsTyped DEF IInv, AllPast, TypeOK, Revisions
  <2>4. rev'[s] = rev[s] /\ by'[s] = by[s]
    BY <1>2, <2>3 DEF rows
  <2> QED
    BY <2>1, <2>4 DEF SavedLast, SavesOf
<1>9. ASSUME NEW u \in Tabs PROVE AnswerIsCurrent(u, tab[u])'
  <2>0. PICK s : s = edit'[tab[u].id].section
    OBVIOUS
  <2> SUFFICES ASSUME Told(tab'[u]), by'[s] = u, SavedLast(s)'
               PROVE  tab'[u].truth.rev = rev'[s]
    <3>1. Target(tab[u])' = s
      BY <1>1, <2>0 DEF Target
    <3>2. SavedLast(Target(tab[u]))' <=> SavedLast(s)'
      BY <3>1 DEF SavedLast, SavesOf, Changed
    <3> QED
      BY <3>1, <3>2 DEF AnswerIsCurrent, Told
  <2>1. CASE tab[u].id = m.id /\ tab'[u].truth.rev = rev'[e.section]
    BY <1>1, <2>0, <2>1
  <2>2. CASE tab'[u].truth = tab[u].truth
    <3>1. Told(tab[u]) /\ tab[u].ted # "none"
      BY <2>2, NoAnswerYet DEF Told
    <3>2. tab[u].id \in EditIds /\ Target(tab[u]) \in Sections
      BY <3>1, TargetFits DEF IInv
    <3>3. s = Target(tab[u])
      BY <1>4, <2>0, <3>2 DEF Target
    <3> QED
      BY <1>5, <1>8, <2>2, <3>1, <3>2, <3>3 DEF AnswerIsCurrent
  <2> QED
    BY <2>1, <2>2, ApplyTells DEF Told
<1>10. ASSUME NEW u \in Tabs PROVE BehindIsOpen(u, tab[u])'
  <2> SUFFICES ASSUME NEW s \in Sections, by'[s] = u, SavedLast(s)', tab[u].seen[s] # rev'[s]
               PROVE  Open(tab[u], s)'
    BY <1>1 DEF BehindIsOpen, Behind, SameWording
  <2>1. Open(tab[u], s) /\ rev'[s] = rev[s]
    BY <1>5, <1>8 DEF BehindIsOpen, Behind
  <2> QED
    BY <1>1, <1>6, <2>1 DEF Open, SameSave
<1> QED
  BY <1>1, <1>3, <1>7, <1>9, <1>10, AccountTrue DEF SameSave

-----------------------------------------------------------------------------
(* Steps of an edit *)

LEMMA TrueAsk ==
  ASSUME IInv, IInv', TruthInv, NEW t \in Tabs, NEW s \in Sections, Ask(t, s)
  PROVE  TruthInv'
<1>1. PICK i \in EditIds :
    /\ i \notin Asked
    /\ \A j \in EditIds : j # i => edit'[j] = edit[j]
    /\ \A u \in Tabs : u # t => tab'[u] = tab[u]
    /\ SameWording(tab[t], tab'[t]) /\ SameSave(tab[t], tab'[t]) /\ tab'[t].truth = None
  BY AskFacts
<1>2. UNCHANGED <<rows, receipts, net>>
  BY DEF Ask
<1>3. ASSUME NEW u \in Tabs, Told(tab'[u])
      PROVE  tab'[u].truth = tab[u].truth /\ edit'[tab'[u].id].section = Target(tab[u])
  <2>1. tab'[u] = tab[u]
    BY <1>1, <1>3 DEF Told
  <2>2. tab[u].id \in Asked /\ tab[u].id \in EditIds
    BY <1>3, <2>1, NoAnswerYet, TargetFits DEF Told, IInv
  <2> QED
    BY <1>1, <2>1, <2>2 DEF Target
<1> QED
  BY <1>1, <1>2, <1>3, QuietTrue DEF SameWording, SameSave

LEMMA TrueEdit ==
  ASSUME IInv, IInv', TruthInv,
         \/ \E i \in EditIds : Dispatch(i) \/ Settle(i) \/ \E w \in Words : Complete(i, w)
         \/ \E t \in Tabs : Discard(t)
  PROVE  TruthInv'
<1>1. PICK i \in Asked :
    /\ edit'[i].section = edit[i].section
    /\ \A j \in EditIds : j # i => edit'[j] = edit[j]
    /\ \A u \in Tabs : /\ SameWording(tab[u], tab'[u]) /\ SameSave(tab[u], tab'[u])
                       /\ tab'[u].id = tab[u].id /\ tab'[u].truth = tab[u].truth
  BY EditFacts
<1>2. UNCHANGED <<rows, receipts, net>>
  BY DEF Dispatch, Settle, Complete, Discard
<1>3. ASSUME NEW u \in Tabs, Told(tab'[u])
      PROVE  tab'[u].truth = tab[u].truth /\ edit'[tab'[u].id].section = Target(tab[u])
  <2>1. Told(tab[u])
    BY <1>1, <1>3 DEF Told
  <2>2. tab[u].id \in EditIds
    BY <2>1, NoAnswerYet, TargetFits DEF Told, IInv
  <2> QED
    BY <1>1, <2>2 DEF Target
<1> QED
  BY <1>1, <1>2, <1>3, QuietTrue

-----------------------------------------------------------------------------
(* Saved is the truth *)

LEMMA InitTrue == Init => TruthInv
<1> SUFFICES ASSUME Init PROVE TruthInv
  OBVIOUS
<1>1. \A t \in Tabs : /\ tab[t].pending = None /\ tab[t].run = NoRun /\ tab[t].truth = None
                      /\ tab[t].view = text /\ tab[t].base = text /\ tab[t].seen = rev
  BY DEF Init, Loaded
<1>2. net = {}
  BY DEF Init
<1> QED
  BY <1>1, <1>2 DEF TruthInv, PageTrue, SavedRests, AnswerIsCurrent, PendingIsTrue,
     RefusedIsStale, BehindIsOpen, Behind, Told, Target, NoRun

LEMMA NextTrue == IInv /\ IInv' /\ TruthInv /\ [Next]_vars => TruthInv'
<1> SUFFICES ASSUME IInv, IInv', TruthInv, [Next]_vars PROVE TruthInv'
  OBVIOUS
<1>1. ASSUME NEW m \in net, Deliver(m) PROVE TruthInv'
  BY <1>1, TrueSave, TrueApply DEF Deliver
<1>2. ASSUME NEW t \in Tabs, Saving(t) \/ Applying(t) \/ Confirm(t) \/ StreamEnds(t) \/ Leave(t)
      PROVE  TruthInv'
  BY <1>2, TruePersist, TrueReceived, TrueOther DEF Saving
<1>3. ASSUME NEW t \in Tabs, Reload(t) PROVE TruthInv'
  BY <1>3, TrueReload
<1>4. ASSUME NEW t \in Tabs, NEW s \in Sections,
             \/ Ask(t, s) \/ Recover(t, s) \/ ToggleLock(t, s)
             \/ \E w \in Words : Write(t, s, w)
      PROVE  TruthInv'
  BY <1>4, TrueAsk, TrueOther, TrueOwner
<1>5. CASE \/ \E i \in EditIds : Dispatch(i) \/ Settle(i) \/ \E w \in Words : Complete(i, w)
           \/ \E t \in Tabs : Discard(t)
  BY <1>5, TrueEdit
<1>6. CASE (\E m \in net : Lose(m)) \/ FaultsEnd \/ UNCHANGED vars
  <2>1. UNCHANGED <<rows, receipts, edit, tab>> /\ net' \subseteq net
    BY <1>6 DEF Lose, FaultsEnd, vars
  <2> QED
    BY <2>1, QuietTrue DEF SameWording, SameSave, Target
<1> QED
  BY <1>1, <1>2, <1>3, <1>4, <1>5, <1>6 DEF Next, Deciding

LEMMA TrueIsTruth == IInv /\ TruthInv => SavedSectionIsTruth
<1> SUFFICES ASSUME IInv, TruthInv, NEW t \in Tabs, tab[t].sync = "saved", ~tab[t].scheduled,
                    NEW s \in Sections, by[s] = t, SavedLast(s)
             PROVE  tab[t].view[s] = text[s]
  BY DEF SavedSectionIsTruth
<1>1. PageTrue(t, tab[t]) /\ Learned(tab[t])
  BY PageIsLearned DEF TruthInv
<1>2. tab[t].pending = None /\ tab[t].view = tab[t].base
  BY <1>1 DEF PageTrue, SavedRests
<1>3. tab[t].seen[s] = rev[s]
  BY <1>1, <1>2 DEF PageTrue, BehindIsOpen, Behind, Open
<1>4. tab[t].seen[s] \in Nat /\ tab[t].base[s] \in Texts
  BY DEF IInv, TypeOK, Pages, Revisions, Wording
<1>5. tab[t].base[s] = text[s]
  BY <1>1, <1>3, <1>4 DEF Learned, IInv, AllPast
<1> QED
  BY <1>2, <1>5

\* However many tabs, sections and suggestions there are, whatever is lost, late
\* or repeated, and wherever the owner turns: a page that calls a section saved,
\* and whose save was the last to change it, shows what the account holds.
THEOREM SavedSectionsAreTrue == Spec => []SavedSectionIsTruth
BY InitTrue, NextTrue, TrueIsTruth, IInvAlways, PTL DEF Spec
=============================================================================
