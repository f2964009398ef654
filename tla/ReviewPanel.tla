----------------------------- MODULE ReviewPanel -----------------------------
(***************************************************************************)
(* The review-panel draft engine for one draft key: runs of the CLI look   *)
(* for the stored draft of the PR's head, else resume or start the         *)
(* LangGraph thread of that key (load_pr, the lenses in parallel,          *)
(* reconcile, store_draft).  Runs may be killed, overlap, and the draft    *)
(* row may be deleted by hand.  Another head is another key: another row   *)
(* and another thread, so that one key shows everything.                   *)
(*                                                                         *)
(* A draft is the list of reviews it was reconciled from; what the reader  *)
(* sees of it is Reconciled of that list.  The thread follows LangGraph:   *)
(* a step ends with a checkpoint, a node's write is kept with the latest   *)
(* checkpoint when it is the one the run works from.                       *)
(***************************************************************************)
EXTENDS Reconcile

CONSTANTS
    Runs,          \* processes of the CLI that can be alive at once
    MaxAsks,       \* a bound on the processes started
    Lenses,        \* the lenses, in the order their reviews are joined
    Replies,       \* per lens: the sequences of findings its model may report
    None,
    Faults         \* which faults of the environment may occur

KnownFaults == {"process_killed", "row_deleted", "model_fails"}

ASSUME PanelAssumption ==
    /\ Lenses \in Seq(ToSet(Lenses)) /\ IsInjective(Lenses) /\ Len(Lenses) > 0
    /\ DOMAIN Replies = ToSet(Lenses)
    /\ \A l \in ToSet(Lenses) : \A reply \in Replies[l] :
         /\ reply \in Seq(ToSet(reply))
         /\ \A f \in ToSet(reply) : f.severity \in Severities /\ IsFiniteSet(f.text)
    /\ MaxAsks \in Nat
    /\ Faults \subseteq KnownFaults

VARIABLES
    row,           \* the review_draft row
    thread,        \* the latest checkpoint of the thread, with its writes
    run,           \* the processes
    asks,          \* how many processes were started
    overlapped,    \* ghost: two runs worked on the thread at once
    deleted        \* ghost: the row was deleted by hand

vars == <<row, thread, run, asks, overlapped, deleted>>

LensSet == ToSet(Lenses)

Synthesizer == "synthesizer"

Reviews == UNION {[lens : {l}, findings : Replies[l]] : l \in LensSet}

Drafts == Seq(Reviews)

\* next: the node(s) to run.  writes: the reviews that finished in the step.
Checkpoints == [next : {"none", "load_pr", "review", "reconcile", "store_draft", "end"},
                reviews : Drafts,
                writes : [LensSet -> {None} \cup Reviews],
                draft : {None} \cup Drafts]

\* linked: the thread's latest checkpoint is the one this run works from.
\* retried: the nodes that have used their one schema repair.
RunStates == [at : {"ended", "lookup", "probe", "clear", "start", "resume", "working",
                    "reread"},
              memory : Checkpoints, linked : BOOLEAN,
              retried : SUBSET (LensSet \cup {Synthesizer}),
              result : {None} \cup Drafts]

TypeOK == /\ row \in {None} \cup Drafts
          /\ thread \in Checkpoints
          /\ run \in [Runs -> RunStates]
          /\ asks \in 0 .. MaxAsks
          /\ overlapped \in BOOLEAN /\ deleted \in BOOLEAN

NoWrites == [l \in LensSet |-> None]

Blank == [next |-> "none", reviews |-> <<>>, writes |-> NoWrites, draft |-> None]

NoRun == [at |-> "ended", memory |-> Blank, linked |-> FALSE, retried |-> {}, result |-> None]

Init == /\ row = None
        /\ thread = Blank
        /\ run = [r \in Runs |-> NoRun]
        /\ asks = 0
        /\ overlapped = FALSE
        /\ deleted = FALSE
------------------------------------------------------------------------------
Goto(r, place) == run' = [run EXCEPT ![r].at = place]

End(r, draft) == run' = [run EXCEPT ![r] = [NoRun EXCEPT !.result = draft]]

\* Run r makes checkpoint c the latest of the thread.
Put(r, c) ==
    /\ thread' = c
    /\ run' = [x \in Runs |->
                 IF x = r THEN [run[r] EXCEPT !.at = "working", !.memory = c,
                                              !.linked = TRUE, !.retried = {}]
                 ELSE [run[x] EXCEPT !.linked = FALSE]]

\* get_stored_draft, first half: GitHub names the head, and so the key.
Ask(r) == /\ run[r].at = "ended" /\ asks < MaxAsks
          /\ asks' = asks + 1
          /\ run' = [run EXCEPT ![r] = [NoRun EXCEPT !.at = "lookup"]]
          /\ UNCHANGED <<row, thread, overlapped, deleted>>

FindsDraft(r) == /\ run[r].at = "lookup" /\ row # None
                 /\ End(r, row)
                 /\ UNCHANGED <<row, thread, asks, overlapped, deleted>>

Busy(r) == run[r].at \notin {"ended", "lookup"}

Misses(r) == /\ run[r].at = "lookup" /\ row = None
             /\ Goto(r, "probe")
             /\ overlapped' = (overlapped \/ \E x \in Runs \ {r} : Busy(x))
             /\ UNCHANGED <<row, thread, asks, deleted>>

\* (mutant) A finished thread is taken for a fresh one.
NeverClears == IF thread.next \in {"none", "end"} THEN "start" ELSE "resume"

\* What compute_draft does with the state that aget_state returned.
Decision == CASE thread.next = "none" -> "start"
              [] thread.next = "end" -> "clear"
              [] OTHER -> "resume"

Probe(r) == /\ run[r].at = "probe"
            /\ Goto(r, Decision)
            /\ UNCHANGED <<row, thread, asks, overlapped, deleted>>

\* adelete_thread: the finished thread has lost its row.
ClearThread(r) ==
    /\ run[r].at = "clear"
    /\ thread' = Blank
    /\ run' = [x \in Runs |-> IF x = r THEN [run[r] EXCEPT !.at = "start"]
                              ELSE [run[x] EXCEPT !.linked = FALSE]]
    /\ UNCHANGED <<row, asks, overlapped, deleted>>

\* ainvoke({"pr": pr}): the input is merged into whatever the thread holds by
\* now; the unfinished step of it is dropped.
Start(r) == /\ run[r].at = "start"
            /\ Put(r, [thread EXCEPT !.next = "load_pr", !.writes = NoWrites])
            /\ UNCHANGED <<row, asks, overlapped, deleted>>

\* (mutant) The writes of the interrupted step are not read back.
WritesForgotten == [thread EXCEPT !.writes = NoWrites]

Restored == thread

\* ainvoke(None): the thread goes on where its latest checkpoint stands.
Resume(r) == /\ run[r].at = "resume"
             /\ thread.next \notin {"none", "end"}
             /\ run' = [run EXCEPT ![r].at = "working", ![r].memory = Restored,
                                   ![r].linked = TRUE]
             /\ UNCHANGED <<row, thread, asks, overlapped, deleted>>

\* ... which a rival may have finished, or cleared, in the meantime.
ResumeTooLate(r) == /\ run[r].at = "resume"
                    /\ thread.next \in {"none", "end"}
                    /\ End(r, thread.draft)
                    /\ UNCHANGED <<row, thread, asks, overlapped, deleted>>
------------------------------------------------------------------------------
Working(r, node) == run[r].at = "working" /\ run[r].memory.next = node

LoadPr(r) == /\ Working(r, "load_pr")
             /\ Put(r, [run[r].memory EXCEPT !.next = "review"])
             /\ UNCHANGED <<row, asks, overlapped, deleted>>

Answered(c, l) == c.writes[l] # None \/ \E i \in DOMAIN c.reviews : c.reviews[i].lens = l

\* The reviewer node of lens l returns.  Its write joins the latest checkpoint.
ReviewerReturns(r, l) ==
    /\ Working(r, "review") /\ run[r].memory.writes[l] = None
    /\ \E review \in [lens : {l}, findings : Replies[l]] :
         /\ run' = [run EXCEPT ![r].memory.writes[l] = review]
         /\ thread' = IF run[r].linked /\ thread.writes[l] = None
                        THEN [thread EXCEPT !.writes[l] = review] ELSE thread
    /\ UNCHANGED <<row, asks, overlapped, deleted>>

\* The nodes whose model call is out.
Waiting(r) == CASE Working(r, "review") -> {l \in LensSet : run[r].memory.writes[l] = None}
                [] Working(r, "reconcile") -> {Synthesizer}
                [] OTHER -> {}

\* A reply fails review_findings_v1: one repair, then the run fails.
BadReply(r, node) ==
    /\ "model_fails" \in Faults
    /\ node \in Waiting(r)
    /\ IF node \in run[r].retried THEN End(r, None)
       ELSE run' = [run EXCEPT ![r].retried = @ \cup {node}]
    /\ UNCHANGED <<row, thread, asks, overlapped, deleted>>

\* The reviews of a step join the list in a fixed order (operator.add).
Joined(c) == c.reviews \o [i \in DOMAIN Lenses |-> c.writes[Lenses[i]]]

AllIn(c) == \A l \in LensSet : c.writes[l] # None

JoinReviews(r) ==
    /\ Working(r, "review") /\ AllIn(run[r].memory)
    /\ Put(r, [run[r].memory EXCEPT !.next = "reconcile", !.writes = NoWrites,
                                    !.reviews = Joined(run[r].memory)])
    /\ UNCHANGED <<row, asks, overlapped, deleted>>

ReconcileNode(r) ==
    /\ Working(r, "reconcile")
    /\ Put(r, [run[r].memory EXCEPT !.next = "store_draft", !.draft = run[r].memory.reviews])
    /\ UNCHANGED <<row, asks, overlapped, deleted>>

FirstWriterWins(draft) == IF row = None THEN draft ELSE row

\* put_if_absent, the INSERT.
StoreDraft(r) == /\ Working(r, "store_draft")
                 /\ row' = FirstWriterWins(run[r].memory.draft)
                 /\ Goto(r, "reread")
                 /\ UNCHANGED <<thread, asks, overlapped, deleted>>

\* (mutant) The run returns what it tried to store.
OwnDraft(r) == run[r].memory.draft

Reread(r) == row

\* put_if_absent, the SELECT: the winner's row is the state's draft.
RereadDraft(r) ==
    /\ run[r].at = "reread" /\ row # None
    /\ thread' = [run[r].memory EXCEPT !.next = "end", !.draft = Reread(r)]
    /\ run' = [x \in Runs |-> IF x = r THEN [NoRun EXCEPT !.result = Reread(r)]
                              ELSE [run[x] EXCEPT !.linked = FALSE]]
    /\ UNCHANGED <<row, asks, overlapped, deleted>>

\* "draft vanished after write"
DraftVanished(r) == /\ run[r].at = "reread" /\ row = None
                    /\ End(r, None)
                    /\ UNCHANGED <<row, thread, asks, overlapped, deleted>>
------------------------------------------------------------------------------
Kill(r) == /\ "process_killed" \in Faults
           /\ run[r].at # "ended"
           /\ End(r, None)
           /\ UNCHANGED <<row, thread, asks, overlapped, deleted>>

DeleteRow == /\ "row_deleted" \in Faults
             /\ row # None
             /\ row' = None
             /\ deleted' = TRUE
             /\ UNCHANGED <<thread, run, asks, overlapped>>

Step(r) == \/ FindsDraft(r) \/ Misses(r) \/ Probe(r) \/ ClearThread(r)
           \/ Start(r) \/ Resume(r) \/ ResumeTooLate(r)
           \/ LoadPr(r) \/ JoinReviews(r) \/ ReconcileNode(r)
           \/ StoreDraft(r) \/ RereadDraft(r) \/ DraftVanished(r)
           \/ \E l \in LensSet : ReviewerReturns(r, l)
           \/ \E node \in LensSet \cup {Synthesizer} : BadReply(r, node)

Next == DeleteRow \/ \E r \in Runs : Ask(r) \/ Step(r) \/ Kill(r)

Spec == Init /\ [][Next]_vars
------------------------------------------------------------------------------
\* The lenses a list of reviews comes from.
LensesOf(draft) == [i \in DOMAIN draft |-> draft[i].lens]

\* Crashes, resumes and recomputations never make the panel count a lens twice
\* or leave one out, as long as no two runs work on the thread at once
\* (graph/state.py: "each reviewer node appends exactly one entry").
OneReviewPerLens == row # None /\ ~overlapped => LensesOf(row) = Lenses

\* The same promise for runs that race.
NeverEight == row # None => LensesOf(row) = Lenses

\* A reviewer whose answer the thread holds is never called again by a resumed
\* run (application.py: "completed reviewer nodes - and their LLM spend - are
\* never re-executed").
NeverRepaid ==
    [][\A r \in Runs, l \in LensSet :
         ReviewerReturns(r, l) /\ ~overlapped => ~Answered(thread, l)]_vars

\* Every run that ends with a draft returns the one row of the key, whichever
\* runs raced, crashed or resumed, unless somebody deletes the row by hand.
AllReturnTheRow ==
    \A r \in Runs : run[r].result # None /\ ~deleted => run[r].result = row

\* Of the lens of review i the draft holds one finding, and so one vote.
SaysOneThing(draft, i) ==
    /\ Len(draft[i].findings) = 1
    /\ \A k \in DOMAIN draft : draft[k].lens = draft[i].lens => k = i

\* Every text of the draft has these words, or none of them.
Unmixed(draft, text) ==
    /\ text # {}
    /\ \A i \in DOMAIN draft : \A j \in DOMAIN draft[i].findings :
         draft[i].findings[j].text = text \/ draft[i].findings[j].text \cap text = {}

\* Each reported finding is in the draft with its evidence and its lens, and as
\* severe as a lens that reports nothing else rated it.
FindingsKept ==
    row # None =>
        \A i \in DOMAIN row : \A j \in DOMAIN row[i].findings :
            LET f == row[i].findings[j]
            IN  \E m \in Range(Reconciled(row)) :
                    /\ f.evidence \subseteq m.evidence /\ row[i].lens \in m.lenses
                    /\ SaysOneThing(row, i) => m.severity <= f.severity

\* Two lenses that rate the same text differently are shown to disagree, and the
\* higher severity is kept, if no other finding shares some of its words only.
DisputesShown ==
    row # None =>
        \A i, k \in {i \in DOMAIN row : SaysOneThing(row, i)} :
            LET f == row[i].findings[1]  g == row[k].findings[1]
            IN  f.text = g.text /\ f.severity < g.severity /\ Unmixed(row, f.text) =>
                    \E m \in Range(Reconciled(row)) :
                        /\ {row[i].lens, row[k].lens} \subseteq m.lenses
                        /\ m.severity <= f.severity /\ m.disputed

\* Reconciliation loses neither a finding nor a disagreement about it.
MergeLosesNothing == FindingsKept /\ DisputesShown

\* Refuted (README, section 5): "highest kept", for every finding of a lens.
HighestKept ==
    row # None =>
        \A i \in DOMAIN row : \A j \in DOMAIN row[i].findings :
            LET f == row[i].findings[j]
            IN  \E m \in Range(Reconciled(row)) :
                    f.evidence \subseteq m.evidence /\ m.severity <= f.severity

\* Refuted (README, section 5): the same words always meet.
SameWordsMeet ==
    row # None =>
        \A i, k \in {i \in DOMAIN row : SaysOneThing(row, i)} :
            LET f == row[i].findings[1]  g == row[k].findings[1]
            IN  f.text = g.text /\ f.text # {} =>
                    \E m \in Range(Reconciled(row)) : {row[i].lens, row[k].lens} \subseteq m.lenses
==============================================================================
