--------------------------- MODULE WorkspaceSave ---------------------------
(***************************************************************************)
(* The wording of one legacy document, edited in several browser tabs and  *)
(* by TED: the section rows with their revisions, the saved receipts and   *)
(* the section edits in the database, and in each tab what its page shows, *)
(* what it believes to be saved (the baseline), the save it is running and *)
(* the suggestion it reviews.                                              *)
(*                                                                         *)
(* A save sends all sections with the revision and wording it expects; the *)
(* database takes all or nothing and keeps a receipt for the exact command.*)
(* A request may be lost, or arrive after the tab has given up on it; its  *)
(* answer may be lost.  An epoch number separates what the page shows from *)
(* what a running save has captured; here run.current says they agree.     *)
(* A section is its words and whether it is locked.                        *)
(***************************************************************************)
EXTENDS Integers, FiniteSets

CONSTANTS
  Tabs, Sections, Words,
  None,
  Edits,      \* section edits with TED, in the order they are asked for
  MaxTyping,  \* how often the owner changes a page
  MayLock,    \* whether the owner locks and unlocks sections
  MayLeave    \* whether the owner may turn to another section during an Apply

Texts     == [words: Words, status: {"edited", "locked"}]
Wording   == [Sections -> Texts]
Revisions == [Sections -> Nat]
Commands  == [doc: Nat, rev: Revisions, old: Wording, new: Wording]

ASSUME SaveAssumption ==
  /\ IsFiniteSet(Sections) /\ None \notin Tabs \cup Texts \cup Commands
  /\ Edits \in Nat /\ MaxTyping \in Nat /\ MayLock \in BOOLEAN /\ MayLeave \in BOOLEAN

VARIABLES
  text, rev, doc,  \* sections.content and .revision, documents.current_revision
  by,              \* the tab whose page wrote a section last
  receipts,        \* legacy_workspace_save_receipts
  edit,            \* legacy_section_edit_operations
  net,             \* requests on their way
  tab,             \* the pages
  typed,           \* how often the owner has changed a page
  calm             \* nothing is lost any more

rows == <<text, rev, doc, by>>
vars == <<rows, receipts, edit, net, tab, typed, calm>>

EditIds == 1..Edits
NoEdit  == [state |-> "none"]
NoRun   == [state |-> "none"]

\* New words leave a section "edited", wherever they come from.
Edited(w) == [words |-> w, status |-> "edited"]

\* The page of a tab that has just loaded the document.
Loaded ==
  [view |-> text, seen |-> rev, base |-> text, doc |-> doc, sync |-> "saved",
   pending |-> None, scheduled |-> FALSE, run |-> NoRun,
   ted |-> "none", id |-> 0, truth |-> None]

Init ==
  /\ \E w \in Words : text = [s \in Sections |-> Edited(w)]
  /\ rev = [s \in Sections |-> 1] /\ doc = 1 /\ by = [s \in Sections |-> None]
  /\ receipts = {} /\ net = {} /\ typed = 0 /\ calm = FALSE
  /\ edit = [i \in EditIds |-> NoEdit]
  /\ tab = [t \in Tabs |-> Loaded]

-----------------------------------------------------------------------------
(* The database *)

\* save_legacy_workspace_core_v1: every expectation is checked first.
Expected(c) == c.doc = doc /\ c.rev = rev /\ c.old = text

Changed(c) == {s \in Sections : c.new[s] # c.old[s]}

\* advance_legacy_section_revision: a changed section moves on, and with every
\* one of them the document.
Receipt(c) ==
  [cmd |-> c, doc |-> c.doc + Cardinality(Changed(c)),
   rev |-> [s \in Sections |-> IF s \in Changed(c) THEN c.rev[s] + 1 ELSE c.rev[s]]]

\* A tab that still waits for the answer to c gets it.
Answered(t, c, answer) ==
  IF t \in Tabs /\ tab[t].run.state = "sent" /\ tab[t].run.cmd = c
  THEN [tab EXCEPT ![t].run.state = answer]
  ELSE tab

Save(m) ==
  /\ net' = net \ {m}
  /\ LET c == m.cmd
     IN  IF Receipt(c) \in receipts
         THEN tab' = Answered(m.from, c, "receipt") /\ UNCHANGED <<rows, receipts>>
         ELSE IF Expected(c)
         THEN /\ text' = c.new /\ rev' = Receipt(c).rev /\ doc' = Receipt(c).doc
              /\ by' = [s \in Sections |-> IF s \in Changed(c) THEN m.from ELSE by[s]]
              /\ receipts' = receipts \cup {Receipt(c)}
              /\ tab' = Answered(m.from, c, "receipt")
         ELSE tab' = Answered(m.from, c, "conflict") /\ UNCHANGED <<rows, receipts>>
  /\ UNCHANGED <<edit, typed, calm>>

\* Mutant: the row is not compared with the one the edit was accepted on.
StillAccepted_Unchecked(e) == TRUE

\* The row an edit was accepted on has its revision and its words still.
StillAccepted(e) == rev[e.section] = e.rev /\ text[e.section].words = e.old

Truth(e) == [rev |-> rev'[e.section], text |-> text'[e.section], doc |-> doc']

\* apply_legacy_section_edit: an edit that is ready replaces the row it was
\* accepted on; an exact replay answers with the row as it is now.
Apply(m) ==
  /\ net' = net \ {m}
  /\ LET e == edit[m.id]
     IN  /\ IF e.state = "ready" /\ StillAccepted(e)
            THEN /\ text' = [text EXCEPT ![e.section] = Edited(e.new)]
                 /\ rev' = [rev EXCEPT ![e.section] = @ + 1] /\ doc' = doc + 1
                 /\ by' = [by EXCEPT ![e.section] = m.from]
                 /\ edit' = [edit EXCEPT ![m.id].state = "applied"]
            ELSE UNCHANGED <<rows, edit>>
         /\ tab' = IF m.from \in Tabs /\ tab[m.from].ted = "applying" /\ tab[m.from].id = m.id
                   THEN [tab EXCEPT ![m.from].truth =
                           IF edit'[m.id].state = "applied" THEN Truth(e) ELSE [rev |-> 0]]
                   ELSE tab
  /\ UNCHANGED <<receipts, typed, calm>>

-----------------------------------------------------------------------------
(* A tab that saves *)

\* setSections: the epoch moves on, so a running save is no longer current.
Changing(p, s, x) ==
  [p EXCEPT !.view[s] = x, !.sync = "idle", !.scheduled = TRUE,
            !.run = IF @.state = "none" THEN @ ELSE [@ EXCEPT !.current = FALSE]]

\* The dialog that shows a suggestion is modal: the page behind it is inert.
AtHand(t) == tab[t].ted \notin {"review", "applying"}

Streams(t, s) == tab[t].ted = "streaming" /\ edit[tab[t].id].section = s

\* Mutant: a suggestion outlives the words it was made for.
Write_WhileStreaming(t, s, w) ==
  /\ typed < MaxTyping /\ typed' = typed + 1
  /\ AtHand(t) /\ w # tab[t].view[s].words
  /\ tab' = [tab EXCEPT ![t] = Changing(tab[t], s, Edited(w))]
  /\ UNCHANGED <<rows, receipts, edit, net, calm>>

\* The owner types, or restores an earlier version, which neither a lock nor
\* TED at work on the section prevents; a suggestion for other words is dropped.
Write(t, s, w) ==
  /\ typed < MaxTyping /\ typed' = typed + 1
  /\ AtHand(t) /\ w # tab[t].view[s].words
  /\ tab' = [tab EXCEPT ![t] = [Changing(tab[t], s, Edited(w)) EXCEPT
                                  !.ted = IF Streams(t, s) THEN "none" ELSE tab[t].ted]]
  /\ UNCHANGED <<rows, receipts, edit, net, calm>>

\* toggleLock, which a suggestion under way does not notice.
ToggleLock(t, s) ==
  /\ MayLock /\ typed < MaxTyping /\ typed' = typed + 1
  /\ AtHand(t)
  /\ LET status == IF tab[t].view[s].status = "locked" THEN "edited" ELSE "locked"
     IN  tab' = [tab EXCEPT ![t] =
                   Changing(tab[t], s, [tab[t].view[s] EXCEPT !.status = status])]
  /\ UNCHANGED <<rows, receipts, edit, net, calm>>

\* buildLegacyWorkspaceSaveRequest
Command(p) == [doc |-> p.doc, rev |-> p.seen, old |-> p.base, new |-> p.view]
Unchanged(p) == p.view = p.base

\* Mutant: the command is not kept while it runs.
Sent_NotKept(t, p) ==
  IF Unchanged(p)
  THEN /\ tab' = [tab EXCEPT ![t] = [p EXCEPT !.sync = "saved", !.run = NoRun]]
       /\ UNCHANGED net
  ELSE /\ tab' = [tab EXCEPT ![t] = [p EXCEPT !.sync = "saving",
                    !.run = [state |-> "sent", cmd |-> Command(p), current |-> TRUE]]]
       /\ net' = net \cup {[kind |-> "save", from |-> t, cmd |-> Command(p)]}

\* The rest of persistRemote for a page p that owes the account nothing older.
Sent(t, p) ==
  IF Unchanged(p)
  THEN /\ tab' = [tab EXCEPT ![t] = [p EXCEPT !.sync = "saved", !.run = NoRun]]
       /\ UNCHANGED net
  ELSE /\ tab' = [tab EXCEPT ![t] = [p EXCEPT !.sync = "saving", !.pending = Command(p),
                    !.run = [state |-> "sent", cmd |-> Command(p), current |-> TRUE]]]
       /\ net' = net \cup {[kind |-> "save", from |-> t, cmd |-> Command(p)]}

\* persistRemote: a command whose outcome is unknown is sent again first.
Persist(t) ==
  /\ tab[t].scheduled /\ tab[t].run.state = "none"
  /\ LET p == [tab[t] EXCEPT !.scheduled = FALSE]
     IN  IF p.pending = None
         THEN Sent(t, p)
         ELSE /\ tab' = [tab EXCEPT ![t] = [p EXCEPT !.sync = "saving",
                           !.run = [state |-> "sent", cmd |-> p.pending, current |-> TRUE]]]
              /\ net' = net \cup {[kind |-> "save", from |-> t, cmd |-> p.pending]}
  /\ UNCHANGED <<rows, receipts, edit, typed, calm>>

\* Mutant: a baseline that has moved past the receipt counts as one.
Regression_Newer(p, r) ==
  \/ \E s \in Sections :
       \/ p.seen[s] = r.rev[s] /\ p.base[s] # r.cmd.new[s]
       \/ p.seen[s] # r.rev[s] /\ p.seen[s] # r.cmd.rev[s]
  \/ p.doc < r.doc /\ p.doc # r.cmd.doc

\* mergeLegacyWorkspaceReceipt finds the receipt older than the baseline in a
\* way that no order of answers explains.
Regression(p, r) ==
  \/ \E s \in Sections :
       \/ p.seen[s] = r.rev[s] /\ p.base[s] # r.cmd.new[s]
       \/ p.seen[s] < r.rev[s] /\ p.seen[s] # r.cmd.rev[s]
  \/ p.doc < r.doc /\ p.doc # r.cmd.doc

\* Mutant: the wording of the receipt is taken whatever its age.
Merged_ItsWording(p, r) ==
  [p EXCEPT !.seen = [s \in Sections |-> IF @[s] > r.rev[s] THEN @[s] ELSE r.rev[s]],
            !.base = [s \in Sections |-> r.cmd.new[s]],
            !.doc  = IF @ > r.doc THEN @ ELSE r.doc,
            !.pending = None, !.scheduled = TRUE]

\* Mutant: the page is not rendered again.
Merged_NotRendered(p, r) ==
  [p EXCEPT !.seen = [s \in Sections |-> IF @[s] > r.rev[s] THEN @[s] ELSE r.rev[s]],
            !.base = [s \in Sections |-> IF p.seen[s] > r.rev[s] THEN @[s] ELSE r.cmd.new[s]],
            !.doc  = IF @ > r.doc THEN @ ELSE r.doc,
            !.pending = None]

\* ... otherwise the newer of both is kept, section by section.  The page is
\* rendered again, and so its autosave comes back to it once more.
Merged(p, r) ==
  [p EXCEPT !.seen = [s \in Sections |-> IF @[s] > r.rev[s] THEN @[s] ELSE r.rev[s]],
            !.base = [s \in Sections |-> IF p.seen[s] > r.rev[s] THEN @[s] ELSE r.cmd.new[s]],
            !.doc  = IF @ > r.doc THEN @ ELSE r.doc,
            !.pending = None, !.scheduled = TRUE]

\* A suggestion is bound to the revision its section had on the page.
Rendered(p, q) ==
  IF p.ted # "none" /\ q.seen[edit[p.id].section] # p.seen[edit[p.id].section]
  THEN [q EXCEPT !.ted = "none", !.truth = None] ELSE q

\* A save that failed: it says so if it is still about what the page shows.
Failed(p) ==
  [p EXCEPT !.run = NoRun, !.sync = IF p.run.current THEN "failed" ELSE @]

SaveReceived(t) ==
  /\ tab[t].run.state = "receipt"
  /\ LET p == tab[t]
         r == Receipt(p.run.cmd)
     IN  IF Regression(p, r)
         THEN tab' = [tab EXCEPT ![t] = Failed([p EXCEPT !.pending = None])] /\ UNCHANGED net
         ELSE IF p.run.current /\ r.cmd.new # p.view
         THEN Sent(t, Rendered(p, Merged(p, r)))
         ELSE /\ tab' = [tab EXCEPT ![t] = [Rendered(p, Merged(p, r)) EXCEPT !.run = NoRun,
                           !.sync = IF p.run.current THEN "saved" ELSE @]]
              /\ UNCHANGED net
  /\ UNCHANGED <<rows, receipts, edit, typed, calm>>

\* Mutant: the refused command is sent again and again.
SaveRefused_Kept(t) ==
  /\ tab[t].run.state = "conflict"
  /\ tab' = [tab EXCEPT ![t] = Failed(tab[t])]
  /\ UNCHANGED <<rows, receipts, edit, net, typed, calm>>

SaveRefused(t) ==
  /\ tab[t].run.state = "conflict"
  /\ tab' = [tab EXCEPT ![t] = Failed([tab[t] EXCEPT !.pending = None])]
  /\ UNCHANGED <<rows, receipts, edit, net, typed, calm>>

Lost(t, kind) == \A m \in net : m.from # t \/ m.kind # kind

\* Mutant: a command whose outcome is unknown is forgotten like a refused one.
SaveUnknown_Forgotten(t) ==
  /\ tab[t].run.state # "none"
  /\ calm => tab[t].run.state = "sent" /\ Lost(t, "save")
  /\ tab' = [tab EXCEPT ![t] = Failed([tab[t] EXCEPT !.pending = None])]
  /\ UNCHANGED <<rows, receipts, edit, net, typed, calm>>

\* The connection breaks: the command stays pending.
SaveUnknown(t) ==
  /\ tab[t].run.state # "none"
  /\ calm => tab[t].run.state = "sent" /\ Lost(t, "save")
  /\ tab' = [tab EXCEPT ![t] = Failed(tab[t])]
  /\ UNCHANGED <<rows, receipts, edit, net, typed, calm>>

\* retrySync, by the owner
Retry(t) ==
  /\ tab[t].sync = "failed" /\ ~tab[t].scheduled
  /\ tab' = [tab EXCEPT ![t].scheduled = TRUE]
  /\ UNCHANGED <<rows, receipts, edit, net, typed, calm>>

-----------------------------------------------------------------------------
(* A tab that edits with TED *)

Asked == {i \in EditIds : edit[i].state # "none"}
Latest(s) == {i \in Asked : edit[i].section = s /\ \A j \in Asked : edit[j].section = s => j <= i}

\* prepare_legacy_section_edit, of words the account has saved, whether or not
\* other edits of the section are under way.
Ask(t, s) ==
  /\ tab[t].ted = "none" /\ tab[t].sync = "saved"
  /\ rev[s] = tab[t].seen[s] /\ text[s].words = tab[t].view[s].words
  /\ \E i \in EditIds :
       /\ Asked = 1..(i - 1)
       /\ edit' = [edit EXCEPT ![i] =
                     [state |-> "accepted", section |-> s, rev |-> rev[s],
                      old |-> text[s].words, new |-> text[s].words]]
       /\ tab' = [tab EXCEPT ![t].ted = "streaming", ![t].id = i]
  /\ UNCHANGED <<rows, receipts, net, typed, calm>>

\* mark_legacy_section_edit_dispatched
Dispatch(i) ==
  /\ edit[i].state = "accepted"
  /\ edit' = [edit EXCEPT ![i].state = "dispatched"]
  /\ UNCHANGED <<rows, receipts, net, tab, typed, calm>>

\* complete_legacy_section_edit, of other words than the ones it is for; the
\* page that streams shows the suggestion.
Complete(i, w) ==
  /\ edit[i].state = "dispatched" /\ w # edit[i].old
  /\ edit' = [edit EXCEPT ![i].state = "ready", ![i].new = w]
  /\ tab' = [t \in Tabs |-> IF tab[t].ted = "streaming" /\ tab[t].id = i
                            THEN [tab[t] EXCEPT !.ted = "review"] ELSE tab[t]]
  /\ UNCHANGED <<rows, receipts, net, typed, calm>>

\* settle_legacy_section_edit, or its five minutes are over
Settle(i) ==
  /\ edit[i].state \in {"accepted", "dispatched"}
  /\ edit' = [edit EXCEPT ![i].state = "ended"]
  /\ tab' = [t \in Tabs |-> IF tab[t].ted = "streaming" /\ tab[t].id = i
                            THEN [tab[t] EXCEPT !.ted = "none"] ELSE tab[t]]
  /\ UNCHANGED <<rows, receipts, net, typed, calm>>

\* The stream breaks, or the owner turns to another section.
StreamEnds(t) ==
  /\ tab[t].ted = "streaming"
  /\ tab' = [tab EXCEPT ![t].ted = "none"]
  /\ UNCHANGED <<rows, receipts, edit, net, typed, calm>>

\* get_latest_legacy_section_edit: any saved page of the owner finds it again.
Recover(t, s) ==
  /\ tab[t].ted = "none" /\ tab[t].sync = "saved"
  /\ \E i \in Latest(s) :
       /\ edit[i].state = "ready" /\ StillAccepted(edit[i])
       /\ tab' = [tab EXCEPT ![t].ted = "review", ![t].id = i]
  /\ UNCHANGED <<rows, receipts, edit, net, typed, calm>>

\* discard_legacy_section_edit
Discard(t) ==
  /\ tab[t].ted = "review" /\ edit[tab[t].id].state \in {"ready", "discarded"}
  /\ edit' = [edit EXCEPT ![tab[t].id].state = "discarded"]
  /\ tab' = [tab EXCEPT ![t].ted = "none"]
  /\ UNCHANGED <<rows, receipts, net, typed, calm>>

Confirm(t) ==
  /\ tab[t].ted = "review"
  /\ tab' = [tab EXCEPT ![t].ted = "applying"]
  /\ net' = net \cup {[kind |-> "apply", from |-> t, id |-> tab[t].id]}
  /\ UNCHANGED <<rows, receipts, edit, typed, calm>>

\* mergePersistedLegacyApply: the answer is the truth, and the page saves again.
ApplyReceived(t) ==
  /\ tab[t].ted = "applying" /\ tab[t].truth # None
  /\ LET p == tab[t]
         s == edit[p.id].section
         run == IF p.run.state = "none" THEN NoRun ELSE [p.run EXCEPT !.current = FALSE]
     IN  tab' = [tab EXCEPT ![t] =
           IF p.truth.rev = 0
           THEN [p EXCEPT !.ted = "review", !.truth = None]
           ELSE [p EXCEPT !.view[s] = p.truth.text, !.base[s] = p.truth.text,
                          !.seen[s] = p.truth.rev, !.doc = p.truth.doc, !.run = run,
                          !.sync = "idle", !.scheduled = TRUE, !.ted = "none", !.truth = None]]
  /\ UNCHANGED <<rows, receipts, edit, net, typed, calm>>

ApplyUnknown(t) ==
  /\ tab[t].ted = "applying"
  /\ calm => tab[t].truth = None /\ Lost(t, "apply")
  /\ tab' = [tab EXCEPT ![t].ted = "review", ![t].truth = None]
  /\ UNCHANGED <<rows, receipts, edit, net, typed, calm>>

\* The owner turns to another section; the editor that waited for the answer,
\* or that would ask for it again, is gone.
Leave(t) ==
  /\ MayLeave /\ tab[t].ted \in {"review", "applying"}
  /\ tab' = [tab EXCEPT ![t].ted = "none", ![t].truth = None]
  /\ UNCHANGED <<rows, receipts, edit, net, typed, calm>>

-----------------------------------------------------------------------------
(* The page is opened again; what it had under way comes from nobody. *)
Reload(t) ==
  /\ ~calm
  /\ tab' = [tab EXCEPT ![t] = Loaded]
  /\ net' = {IF m.from = t THEN [m EXCEPT !.from = None] ELSE m : m \in net}
  /\ by' = [s \in Sections |-> IF by[s] = t THEN None ELSE by[s]]
  /\ UNCHANGED <<text, rev, doc, receipts, edit, typed, calm>>

Lose(m) ==
  /\ ~calm /\ net' = net \ {m}
  /\ UNCHANGED <<rows, receipts, edit, tab, typed, calm>>

FaultsEnd ==
  /\ ~calm /\ calm' = TRUE
  /\ UNCHANGED <<rows, receipts, edit, net, tab, typed>>

Deliver(m) == IF m.kind = "save" THEN Save(m) ELSE Apply(m)

Saving(t)   == Persist(t) \/ SaveReceived(t) \/ SaveRefused(t) \/ SaveUnknown(t) \/ Retry(t)
Applying(t) == ApplyReceived(t) \/ ApplyUnknown(t)
Deciding(t) == Confirm(t) \/ Discard(t)

Next ==
  \/ \E m \in net : Deliver(m) \/ Lose(m)
  \/ \E t \in Tabs : Saving(t) \/ Applying(t) \/ Deciding(t) \/ StreamEnds(t) \/ Leave(t) \/ Reload(t)
  \/ \E t \in Tabs, s \in Sections : Ask(t, s) \/ Recover(t, s) \/ ToggleLock(t, s)
  \/ \E t \in Tabs, s \in Sections, w \in Words : Write(t, s, w)
  \/ \E i \in EditIds : Dispatch(i) \/ Settle(i) \/ \E w \in Words : Complete(i, w)
  \/ FaultsEnd

Spec == Init /\ [][Next]_vars

\* Requests arrive, a page takes every answer and saves when it is time, the
\* owner retries a failed save and decides on a suggestion, and faults end.
Fairness ==
  /\ \A t \in Tabs : WF_vars(Saving(t)) /\ WF_vars(Applying(t)) /\ WF_vars(Deciding(t))
  /\ \A k \in {"save", "apply"} : WF_vars(\E m \in net : m.kind = k /\ Deliver(m))
  /\ WF_vars(FaultsEnd)

FairSpec == Spec /\ Fairness

-----------------------------------------------------------------------------
Runs      == {NoRun} \cup [state: {"sent", "receipt", "conflict"}, cmd: Commands, current: BOOLEAN]
Truths    == {None} \cup [rev: {0}] \cup [rev: Nat, text: Texts, doc: Nat]
Pages ==
  [view: Wording, seen: Revisions, base: Wording, doc: Nat,
   sync: {"saved", "idle", "saving", "failed"}, pending: {None} \cup Commands,
   scheduled: BOOLEAN, run: Runs, ted: {"none", "streaming", "review", "applying"},
   id: EditIds \cup {0}, truth: Truths]
Operations == {NoEdit} \cup
  [state: {"accepted", "dispatched", "ready", "applied", "discarded", "ended"},
   section: Sections, rev: Nat, old: Words, new: Words]
Messages == [kind: {"save"}, from: Tabs \cup {None}, cmd: Commands] \cup
            [kind: {"apply"}, from: Tabs \cup {None}, id: EditIds]
Receipts == [cmd: Commands, doc: Nat, rev: Revisions]

TypeOK ==
  /\ text \in Wording /\ rev \in Revisions /\ doc \in Nat
  /\ by \in [Sections -> Tabs \cup {None}] /\ typed \in Nat /\ calm \in BOOLEAN
  /\ receipts \subseteq Receipts /\ net \subseteq Messages
  /\ edit \in [EditIds -> Operations] /\ tab \in [Tabs -> Pages]
  /\ \A t \in Tabs : tab[t].run # NoRun => tab[t].pending = tab[t].run.cmd
  /\ \A t \in Tabs : tab[t].ted # "none" => tab[t].id \in Asked

\* What a page believes to be saved is never ahead of the account and never
\* wrong about a revision, in whatever order receipts and applied suggestions
\* reach it: the next save would pass the check with another wording in mind.
BaselineIsTrue ==
  \A t \in Tabs :
    /\ tab[t].doc <= doc
    /\ \A s \in Sections : /\ tab[t].seen[s] <= rev[s]
                           /\ tab[t].seen[s] = rev[s] => tab[t].base[s] = text[s]

\* The changes of section s, as the revisions they replaced.
SavesOf(s) == {r \in receipts : s \in Changed(r.cmd)}
AppliedTo(s) == {i \in Asked : edit[i].section = s /\ edit[i].state = "applied"}

\* "Saved to your account": once a page rests, the account holds what it shows,
\* unless another page has written the section since or a suggestion is at hand.
SavedIsTruth ==
  \A t \in Tabs : tab[t].sync = "saved" /\ ~tab[t].scheduled /\ tab[t].ted = "none" =>
    \A s \in Sections : by[s] = t => tab[t].view[s] = text[s]

\* ... and whatever the page has at hand, this holds of a section that a save was
\* the last to change: a page that wrote it and calls it saved has not taken back
\* on the screen what an unanswered save has put into the account.
SavedLast(s) == \E r \in SavesOf(s) : r.rev[s] = rev[s]
SavedSectionIsTruth ==
  \A t \in Tabs : tab[t].sync = "saved" /\ ~tab[t].scheduled =>
    \A s \in Sections : by[s] = t /\ SavedLast(s) => tab[t].view[s] = text[s]

\* The receipt of a page's own command never looks like a regression to it,
\* which would drop the command and report a failed save that had succeeded.
ReceiptFits ==
  \A t \in Tabs : tab[t].run.state = "receipt" => ~Regression(tab[t], Receipt(tab[t].run.cmd))

\* The account has taken these words of section s with some save.
Taken(s, w) == \E r \in receipts : r.cmd.new[s].words = w

\* Whatever replaces words of a page, other than the owner or opening the page
\* again, those words are not lost with it: they are the ones the page has read
\* from the account, or a save has brought them there.
WordingIsKept ==
  [][\A t \in Tabs, s \in Sections :
       /\ tab'[t].view[s].words # tab[t].view[s].words
       /\ typed' = typed /\ tab'[t] # Loaded
       => \/ tab[t].view[s].words = tab[t].base[s].words
          \/ Taken(s, tab[t].view[s].words)]_vars

\* No change is lost: of a save and a suggestion, two saves or two suggestions
\* that set out from the same revision of a section, one is refused.
NoLostUpdate ==
  \A s \in Sections :
    /\ \A q, r \in SavesOf(s) : q.cmd.rev[s] = r.cmd.rev[s] => q = r
    /\ \A i, j \in AppliedTo(s) : edit[i].rev = edit[j].rev => i = j
    /\ \A r \in SavesOf(s), i \in AppliedTo(s) : r.cmd.rev[s] # edit[i].rev

\* Another writer has overtaken what the page has read.
Overtaken(t) == \E s \in Sections : by[s] # t /\ rev[s] > tab[t].seen[s]

\* Whatever was lost or came late, a page that nobody overtakes gets saved.
SaveSettles == \A t \in Tabs : <>[](tab[t].sync = "saved" \/ Overtaken(t))
=============================================================================
