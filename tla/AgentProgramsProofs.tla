------------------------- MODULE AgentProgramsProofs -------------------------
(***************************************************************************)
(* What the run of the agent programs shows of the review panel for three  *)
(* runs of two lenses, of the calls of Retrieval for one small graph and   *)
(* of the agent without a broker for a handful of turns, for every number  *)
(* of runs, every panel and set of replies, every graph and registry,      *)
(* every ranking, every order of commits between the reads, every model    *)
(* and every budget.                                                       *)
(***************************************************************************)
EXTENDS ReviewPanel, Retrieval, KbAgent, SelectionsProofs

\* The joined reviews of a complete step are reviews.
LEMMA JoinedIsADraft ==
    ASSUME NEW c \in Checkpoints, AllIn(c)
    PROVE  Joined(c) \in Drafts
<1> DEFINE step == [i \in DOMAIN Lenses |-> c.writes[Lenses[i]]]
<1>1. Lenses \in Seq(ToSet(Lenses))
  BY PanelAssumption
<1>2. \A i \in DOMAIN Lenses : Lenses[i] \in LensSet
  BY DEF LensSet, ToSet
<1>3. \A l \in LensSet : c.writes[l] \in Reviews
  BY DEF AllIn, Checkpoints
<1>4. DOMAIN Lenses = 1 .. Len(Lenses) /\ Len(Lenses) \in Nat
  BY <1>1
<1>5. step \in Seq(Reviews)
  <2>1. step \in [1 .. Len(Lenses) -> Reviews]
    BY <1>2, <1>3, <1>4
  <2> QED
    BY <2>1, <1>4
<1>6. c.reviews \in Seq(Reviews)
  BY DEF Checkpoints, Drafts
<1> QED
  BY <1>5, <1>6 DEF Joined, Drafts

\* A thread that holds nothing is a checkpoint.
LEMMA BlankIsACheckpoint == Blank \in Checkpoints
<1>1. NoWrites \in [LensSet -> {None} \cup Reviews]
  BY DEF NoWrites
<1>2. <<>> \in Drafts
  BY DEF Drafts
<1> QED
  BY <1>1, <1>2 DEF Blank, Checkpoints

\* A run that has not begun, has ended, or looks for the draft is a run.
LEMMA NoRunIsARun ==
    /\ NoRun \in RunStates
    /\ \A d \in {None} \cup Drafts : [NoRun EXCEPT !.result = d] \in RunStates
    /\ [NoRun EXCEPT !.at = "lookup"] \in RunStates
  BY BlankIsACheckpoint DEF NoRun, RunStates

\* A run that puts a well-typed checkpoint keeps the types.
LEMMA PutTypes ==
    ASSUME TypeOK, NEW r \in Runs, NEW c \in Checkpoints, Put(r, c)
    PROVE  thread' \in Checkpoints /\ run' \in [Runs -> RunStates]
<1>1. ASSUME NEW x \in Runs
      PROVE  IF x = r THEN [run[r] EXCEPT !.at = "working", !.memory = c,
                                          !.linked = TRUE, !.retried = {}] \in RunStates
             ELSE [run[x] EXCEPT !.linked = FALSE] \in RunStates
  <2>1. run[r] \in RunStates /\ run[x] \in RunStates
    BY DEF TypeOK
  <2> QED
    BY <2>1 DEF RunStates
<1> QED
  BY <1>1 DEF Put

\* A run that goes on elsewhere keeps the types.
LEMMA GotoTypes ==
    ASSUME TypeOK, NEW r \in Runs,
           NEW place \in {"ended", "lookup", "probe", "clear", "start", "resume", "working",
                          "reread"},
           Goto(r, place)
    PROVE  run' \in [Runs -> RunStates]
<1>1. [run[r] EXCEPT !.at = place] \in RunStates
  BY DEF TypeOK, RunStates
<1> QED
  BY <1>1 DEF Goto, TypeOK

\* A run that ends keeps the types.
LEMMA EndTypes ==
    ASSUME TypeOK, NEW r \in Runs, NEW d \in {None} \cup Drafts, End(r, d)
    PROVE  run' \in [Runs -> RunStates]
  BY NoRunIsARun DEF End, TypeOK

\* Every step keeps the types.
LEMMA TypeStep == TypeOK /\ [Next]_vars => TypeOK'
<1> SUFFICES ASSUME TypeOK, [Next]_vars PROVE TypeOK'
  OBVIOUS
<1> USE DEF TypeOK
<1>1. CASE UNCHANGED vars
  BY <1>1 DEF vars
<1>2. CASE DeleteRow
  BY <1>2 DEF DeleteRow
<1>3. ASSUME NEW r \in Runs, Ask(r) PROVE TypeOK'
  <2>1. run' \in [Runs -> RunStates]
    BY <1>3, NoRunIsARun DEF Ask
  <2>2. asks' \in 0 .. MaxAsks
    BY <1>3, PanelAssumption DEF Ask
  <2> QED
    BY <1>3, <2>1, <2>2 DEF Ask
<1>4. ASSUME NEW r \in Runs, FindsDraft(r) PROVE TypeOK'
  BY <1>4, EndTypes DEF FindsDraft
<1>5. ASSUME NEW r \in Runs, Misses(r) PROVE TypeOK'
  BY <1>5, GotoTypes DEF Misses
<1>6. ASSUME NEW r \in Runs, Probe(r) PROVE TypeOK'
  BY <1>6, GotoTypes DEF Probe, Decision
<1>7. ASSUME NEW r \in Runs, ClearThread(r) PROVE TypeOK'
  <2>1. run' \in [Runs -> RunStates]
    <3>1. \A x \in Runs : /\ [run[x] EXCEPT !.at = "start"] \in RunStates
                          /\ [run[x] EXCEPT !.linked = FALSE] \in RunStates
      BY DEF RunStates
    <3> QED
      BY <1>7, <3>1 DEF ClearThread
  <2> QED
    BY <1>7, <2>1, BlankIsACheckpoint DEF ClearThread
<1>8. ASSUME NEW r \in Runs, Start(r) PROVE TypeOK'
  <2>1. [thread EXCEPT !.next = "load_pr", !.writes = NoWrites] \in Checkpoints
    BY DEF Checkpoints, NoWrites
  <2> QED
    BY <1>8, <2>1, PutTypes DEF Start
<1>9. ASSUME NEW r \in Runs, Resume(r) PROVE TypeOK'
  <2>1. [run[r] EXCEPT !.at = "working", !.memory = thread, !.linked = TRUE] \in RunStates
    BY DEF RunStates
  <2> QED
    BY <1>9, <2>1 DEF Resume, Restored
<1>10. ASSUME NEW r \in Runs, ResumeTooLate(r) PROVE TypeOK'
  <2>1. thread.draft \in {None} \cup Drafts
    BY DEF Checkpoints
  <2> QED
    BY <1>10, <2>1, EndTypes DEF ResumeTooLate
<1> DEFINE c(r) == run[r].memory
<1>m. \A r \in Runs : c(r) \in Checkpoints
  BY DEF RunStates
<1> HIDE DEF c
<1>11. ASSUME NEW r \in Runs, LoadPr(r) PROVE TypeOK'
  <2>1. [c(r) EXCEPT !.next = "review"] \in Checkpoints
    BY <1>m DEF Checkpoints
  <2> QED
    BY <1>11, <2>1, PutTypes DEF LoadPr, c
<1>12. ASSUME NEW r \in Runs, JoinReviews(r) PROVE TypeOK'
  <2>1. Joined(c(r)) \in Drafts
    BY <1>12, <1>m, JoinedIsADraft DEF JoinReviews, c
  <2>2. [c(r) EXCEPT !.next = "reconcile", !.writes = NoWrites, !.reviews = Joined(c(r))]
          \in Checkpoints
    BY <1>m, <2>1 DEF Checkpoints, NoWrites
  <2> QED
    BY <1>12, <2>2, PutTypes DEF JoinReviews, c
<1>13. ASSUME NEW r \in Runs, ReconcileNode(r) PROVE TypeOK'
  <2>1. [c(r) EXCEPT !.next = "store_draft", !.draft = c(r).reviews] \in Checkpoints
    BY <1>m DEF Checkpoints
  <2> QED
    BY <1>13, <2>1, PutTypes DEF ReconcileNode, c
<1>14. ASSUME NEW r \in Runs, StoreDraft(r) PROVE TypeOK'
  <2>1. c(r).draft \in {None} \cup Drafts
    BY <1>m DEF Checkpoints
  <2> QED
    BY <1>14, <2>1, GotoTypes DEF StoreDraft, FirstWriterWins, c
<1>15. ASSUME NEW r \in Runs, RereadDraft(r) PROVE TypeOK'
  <2>1. [c(r) EXCEPT !.next = "end", !.draft = row] \in Checkpoints
    BY <1>m DEF Checkpoints
  <2>2. \A x \in Runs : [run[x] EXCEPT !.linked = FALSE] \in RunStates
    BY DEF RunStates
  <2>3. run' \in [Runs -> RunStates]
    BY <1>15, <2>2, NoRunIsARun DEF RereadDraft, Reread
  <2> QED
    BY <1>15, <2>1, <2>3 DEF RereadDraft, Reread, c
<1>16. ASSUME NEW r \in Runs, DraftVanished(r) PROVE TypeOK'
  BY <1>16, EndTypes DEF DraftVanished
<1>17. ASSUME NEW r \in Runs, NEW l \in LensSet, ReviewerReturns(r, l) PROVE TypeOK'
  <2>1. PICK review \in [lens : {l}, findings : Replies[l]] :
           /\ run' = [run EXCEPT ![r].memory.writes[l] = review]
           /\ thread' = IF run[r].linked /\ thread.writes[l] = None
                          THEN [thread EXCEPT !.writes[l] = review] ELSE thread
    BY <1>17 DEF ReviewerReturns
  <2>2. review \in Reviews
    BY DEF Reviews
  <2>3. \A k \in Checkpoints : [k EXCEPT !.writes[l] = review] \in Checkpoints
    BY <2>2 DEF Checkpoints
  <2>4. [run[r] EXCEPT !.memory.writes[l] = review] \in RunStates
    <3>1. [c(r) EXCEPT !.writes[l] = review] \in Checkpoints
      BY <1>m, <2>3
    <3> QED
      BY <3>1 DEF RunStates, c
  <2>5. run' \in [Runs -> RunStates]
    BY <2>1, <2>4
  <2> QED
    BY <1>17, <2>1, <2>3, <2>5 DEF ReviewerReturns
<1>18. ASSUME NEW r \in Runs, NEW node \in LensSet \cup {Synthesizer}, BadReply(r, node)
       PROVE  TypeOK'
  <2>1. CASE node \in run[r].retried
    BY <1>18, <2>1, EndTypes DEF BadReply
  <2>2. CASE node \notin run[r].retried
    <3>1. [run[r] EXCEPT !.retried = @ \cup {node}] \in RunStates
      BY DEF RunStates
    <3> QED
      BY <1>18, <2>2, <3>1 DEF BadReply
  <2> QED
    BY <2>1, <2>2
<1>19. ASSUME NEW r \in Runs, Kill(r) PROVE TypeOK'
  BY <1>19, EndTypes DEF Kill
<1> HIDE DEF TypeOK
<1>20. ASSUME NEW r \in Runs, Step(r) PROVE TypeOK'
  BY <1>20, <1>4, <1>5, <1>6, <1>7, <1>8, <1>9, <1>10, <1>11, <1>12, <1>13, <1>14, <1>15, <1>16,
     <1>17, <1>18 DEF Step
<1> QED
  BY <1>1, <1>2, <1>3, <1>19, <1>20 DEF Next

\* The row, the thread and the processes always have their shapes, whichever
\* runs of compute_draft crash, resume and race.
THEOREM PanelTypes == Spec => []TypeOK
<1>1. Init => TypeOK
  <2>1. 0 \in 0 .. MaxAsks
    BY PanelAssumption
  <2> QED
    BY <2>1, BlankIsACheckpoint, NoRunIsARun DEF Init, TypeOK
<1> QED
  BY <1>1, TypeStep, PTL DEF Spec
------------------------------------------------------------------------------
\* Until a row is deleted, it is the draft of every run that returned one and
\* of a finished thread.
RowIsTheDraft ==
    ~deleted =>
        /\ \A r \in Runs : run[r].result # None => run[r].result = row
        /\ thread.next = "none" => thread.draft = None
        /\ thread.next = "end" => row # None /\ thread.draft = row

\* How far a thread is tells what it holds.
ThreadIsInOrder ==
    /\ thread.next \in {"none", "load_pr", "review"} => thread.reviews = <<>>
    /\ thread.next \in {"reconcile", "store_draft", "end"} => LensesOf(thread.reviews) = Lenses
    /\ thread.next \in {"store_draft", "end"} => LensesOf(thread.draft) = Lenses
    /\ \A l \in LensSet : thread.writes[l] # None => thread.writes[l].lens = l

\* As long as no two runs worked on the thread at once, the run that does works
\* from its latest checkpoint.
RunOwnsTheThread ==
    ~overlapped =>
        /\ \A r, x \in Runs : Busy(r) /\ Busy(x) => r = x
        /\ \A r \in Runs :
              /\ run[r].at = "start" => thread.next = "none"
              /\ run[r].at \in {"working", "reread"} => run[r].linked /\ run[r].memory = thread
              /\ run[r].at = "reread" => thread.next = "store_draft"
        /\ ThreadIsInOrder
        /\ row # None => LensesOf(row) = Lenses
------------------------------------------------------------------------------
\* What a run may do to the results: keep them, drop one, or return d.
Returns(r, d) == \A x \in Runs : run'[x].result = IF x = r THEN d ELSE run[x].result

\* No run gets a result or loses one.
KeepsResults == \A x \in Runs : run'[x].result = run[x].result

\* A run that puts a checkpoint leaves every result as it is.
LEMMA PutKeepsResults ==
    ASSUME TypeOK, NEW r \in Runs, NEW c, Put(r, c)
    PROVE  KeepsResults /\ thread' = c
<1>1. \A x \in Runs : run[x] \in RunStates
  BY DEF TypeOK
<1> QED
  BY <1>1 DEF Put, KeepsResults, RunStates

\* A run that goes on elsewhere leaves every result as it is.
LEMMA GotoKeepsResults ==
    ASSUME TypeOK, NEW r \in Runs, NEW place, Goto(r, place)
    PROVE  KeepsResults
  BY DEF Goto, KeepsResults, TypeOK, RunStates

\* A run that ends sets its own result and no other one.
LEMMA EndReturns ==
    ASSUME TypeOK, NEW r \in Runs, NEW d, End(r, d)
    PROVE  Returns(r, d)
  BY DEF End, Returns, TypeOK, NoRun

\* Every step keeps the row the draft of all who return one.
LEMMA RowStep == TypeOK /\ RowIsTheDraft /\ [Next]_vars => RowIsTheDraft'
<1> SUFFICES ASSUME TypeOK, RowIsTheDraft, [Next]_vars, ~deleted' PROVE RowIsTheDraft'
  BY DEF RowIsTheDraft
<1> USE DEF RowIsTheDraft
<1>c. thread \in Checkpoints /\ \A r \in Runs : run[r].memory \in Checkpoints
  BY DEF TypeOK, RunStates
<1>1. CASE UNCHANGED vars
  BY <1>1 DEF vars
<1>2. CASE DeleteRow
  BY <1>2 DEF DeleteRow
<1>3. ASSUME NEW r \in Runs, Ask(r) PROVE RowIsTheDraft'
  <2>1. Returns(r, None)
    BY <1>3 DEF Ask, Returns, TypeOK, NoRun
  <2> QED
    BY <1>3, <2>1 DEF Ask, Returns
<1>4. ASSUME NEW r \in Runs, FindsDraft(r) PROVE RowIsTheDraft'
  BY <1>4, EndReturns DEF FindsDraft, Returns
<1>5. ASSUME NEW r \in Runs, Misses(r) PROVE RowIsTheDraft'
  BY <1>5, GotoKeepsResults DEF Misses, KeepsResults
<1>6. ASSUME NEW r \in Runs, Probe(r) PROVE RowIsTheDraft'
  BY <1>6, GotoKeepsResults DEF Probe, KeepsResults
<1>7. ASSUME NEW r \in Runs, ClearThread(r) PROVE RowIsTheDraft'
  <2>1. KeepsResults
    BY <1>7 DEF ClearThread, KeepsResults, TypeOK, RunStates
  <2> QED
    BY <1>7, <2>1 DEF ClearThread, KeepsResults, Blank
<1>8. ASSUME NEW r \in Runs, Start(r) PROVE RowIsTheDraft'
  <2>1. KeepsResults /\ thread' = [thread EXCEPT !.next = "load_pr", !.writes = NoWrites]
    BY <1>8, PutKeepsResults DEF Start
  <2>2. thread'.next = "load_pr"
    BY <2>1, <1>c DEF Checkpoints
  <2> QED
    BY <1>8, <2>1, <2>2 DEF Start, KeepsResults
<1>9. ASSUME NEW r \in Runs, Resume(r) PROVE RowIsTheDraft'
  <2>1. KeepsResults
    BY <1>9 DEF Resume, KeepsResults, TypeOK, RunStates
  <2> QED
    BY <1>9, <2>1 DEF Resume, KeepsResults
<1>10. ASSUME NEW r \in Runs, ResumeTooLate(r) PROVE RowIsTheDraft'
  <2>1. Returns(r, thread.draft)
    BY <1>10, EndReturns DEF ResumeTooLate
  <2> QED
    BY <1>10, <2>1 DEF ResumeTooLate, Returns
<1>11. ASSUME NEW r \in Runs, LoadPr(r) PROVE RowIsTheDraft'
  <2>1. KeepsResults /\ thread' = [run[r].memory EXCEPT !.next = "review"]
    BY <1>11, PutKeepsResults DEF LoadPr
  <2>2. thread'.next = "review"
    BY <2>1, <1>c DEF Checkpoints
  <2> QED
    BY <1>11, <2>1, <2>2 DEF LoadPr, KeepsResults
<1>12. ASSUME NEW r \in Runs, JoinReviews(r) PROVE RowIsTheDraft'
  <2>1. KeepsResults /\ thread' = [run[r].memory EXCEPT !.next = "reconcile", !.writes = NoWrites,
                                                        !.reviews = Joined(run[r].memory)]
    BY <1>12, PutKeepsResults DEF JoinReviews
  <2>2. thread'.next = "reconcile"
    BY <2>1, <1>c DEF Checkpoints
  <2> QED
    BY <1>12, <2>1, <2>2 DEF JoinReviews, KeepsResults
<1>13. ASSUME NEW r \in Runs, ReconcileNode(r) PROVE RowIsTheDraft'
  <2>1. KeepsResults /\ thread' = [run[r].memory EXCEPT !.next = "store_draft",
                                                        !.draft = run[r].memory.reviews]
    BY <1>13, PutKeepsResults DEF ReconcileNode
  <2>2. thread'.next = "store_draft"
    BY <2>1, <1>c DEF Checkpoints
  <2> QED
    BY <1>13, <2>1, <2>2 DEF ReconcileNode, KeepsResults
<1>14. ASSUME NEW r \in Runs, StoreDraft(r) PROVE RowIsTheDraft'
  <2>1. KeepsResults
    BY <1>14, GotoKeepsResults DEF StoreDraft
  <2>2. CASE row # None
    BY <1>14, <2>1, <2>2 DEF StoreDraft, FirstWriterWins, KeepsResults
  <2>3. CASE row = None
    \* no run has returned a draft and no thread is finished
    BY <1>14, <2>1, <2>3 DEF StoreDraft, KeepsResults
  <2> QED
    BY <2>2, <2>3
<1>15. ASSUME NEW r \in Runs, RereadDraft(r) PROVE RowIsTheDraft'
  <2>1. Returns(r, row)
    BY <1>15 DEF RereadDraft, Reread, Returns, TypeOK, RunStates, NoRun
  <2>2. thread'.next = "end" /\ thread'.draft = row
    BY <1>15, <1>c DEF RereadDraft, Reread, Checkpoints
  <2> QED
    BY <1>15, <2>1, <2>2 DEF RereadDraft, Returns
<1>16. ASSUME NEW r \in Runs, DraftVanished(r) PROVE RowIsTheDraft'
  BY <1>16, EndReturns DEF DraftVanished, Returns
<1>17. ASSUME NEW r \in Runs, NEW l \in LensSet, ReviewerReturns(r, l) PROVE RowIsTheDraft'
  <2>1. PICK review : /\ run' = [run EXCEPT ![r].memory.writes[l] = review]
                      /\ thread' = IF run[r].linked /\ thread.writes[l] = None
                                     THEN [thread EXCEPT !.writes[l] = review] ELSE thread
    BY <1>17 DEF ReviewerReturns
  <2>2. KeepsResults
    BY <2>1 DEF KeepsResults, TypeOK, RunStates
  <2>3. thread'.next = thread.next /\ thread'.draft = thread.draft
    BY <2>1, <1>c DEF Checkpoints
  <2> QED
    BY <1>17, <2>2, <2>3 DEF ReviewerReturns, KeepsResults
<1>18. ASSUME NEW r \in Runs, NEW node, BadReply(r, node) PROVE RowIsTheDraft'
  <2>1. Returns(r, None) \/ KeepsResults
    <3>1. CASE node \in run[r].retried
      BY <1>18, <3>1, EndReturns DEF BadReply
    <3>2. CASE node \notin run[r].retried
      BY <1>18, <3>2 DEF BadReply, KeepsResults, TypeOK, RunStates
    <3> QED
      BY <3>1, <3>2
  <2> QED
    BY <1>18, <2>1 DEF BadReply, Returns, KeepsResults
<1>19. ASSUME NEW r \in Runs, Kill(r) PROVE RowIsTheDraft'
  BY <1>19, EndReturns DEF Kill, Returns
<1> HIDE DEF RowIsTheDraft
<1>20. ASSUME NEW r \in Runs, Step(r) PROVE RowIsTheDraft'
  BY <1>20, <1>4, <1>5, <1>6, <1>7, <1>8, <1>9, <1>10, <1>11, <1>12, <1>13, <1>14, <1>15, <1>16,
     <1>17, <1>18 DEF Step
<1> QED
  BY <1>1, <1>2, <1>3, <1>19, <1>20 DEF Next

\* put_if_absent: whichever runs race, crash and resume, each run that returns a
\* draft returns the one row of the key, until a row is deleted by hand.
THEOREM OneDraftForAll == Spec => []AllReturnTheRow
<1>1. Init => RowIsTheDraft
  BY DEF Init, RowIsTheDraft, NoRun, Blank
<1>2. RowIsTheDraft => AllReturnTheRow
  BY DEF RowIsTheDraft, AllReturnTheRow
<1> QED
  BY <1>1, <1>2, RowStep, PanelTypes, PTL DEF Spec
------------------------------------------------------------------------------
\* A complete step that joins an empty list leaves one review of each lens.
LEMMA JoinedIsComplete ==
    ASSUME NEW c \in Checkpoints, AllIn(c), c.reviews = <<>>,
           \A l \in LensSet : c.writes[l] # None => c.writes[l].lens = l
    PROVE  LensesOf(Joined(c)) = Lenses
<1> DEFINE step == [i \in DOMAIN Lenses |-> c.writes[Lenses[i]]]
<1>1. Lenses \in Seq(ToSet(Lenses))
  BY PanelAssumption
<1>2. \A i \in DOMAIN Lenses : Lenses[i] \in LensSet
  BY DEF LensSet, ToSet
<1>3. DOMAIN Lenses = 1 .. Len(Lenses) /\ Len(Lenses) \in Nat
  BY <1>1
<1>4. \A i \in DOMAIN Lenses : c.writes[Lenses[i]] \in Reviews
  BY <1>2 DEF AllIn, Checkpoints
<1>5. step \in Seq(Reviews)
  <2>1. step \in [1 .. Len(Lenses) -> Reviews]
    BY <1>3, <1>4
  <2> QED
    BY <2>1, <1>3
<1>6. Joined(c) = step
  BY <1>5 DEF Joined
<1>7. \A i \in DOMAIN Lenses : step[i].lens = Lenses[i]
  BY <1>2 DEF AllIn
<1>8. LensesOf(step) = [i \in DOMAIN Lenses |-> Lenses[i]]
  BY <1>7 DEF LensesOf
<1>9. Lenses = [i \in DOMAIN Lenses |-> Lenses[i]]
  BY <1>1
<1> QED
  BY <1>6, <1>8, <1>9

\* When the one run that works on the thread puts a checkpoint in order, the
\* thread is the run's still.
LEMMA PutKeepsOwnership ==
    ASSUME TypeOK, RunOwnsTheThread, ~overlapped, NEW r \in Runs, Busy(r),
           NEW c \in Checkpoints, Put(r, c), UNCHANGED <<row, overlapped>>,
           ThreadIsInOrder'
    PROVE  RunOwnsTheThread'
<1>1. \A x \in Runs \ {r} : ~Busy(x)
  BY DEF RunOwnsTheThread
<1>2. run'[r].at = "working" /\ run'[r].linked /\ run'[r].memory = thread'
  BY DEF Put, TypeOK, RunStates
<1>3. \A x \in Runs \ {r} : run'[x].at \in {"ended", "lookup"}
  BY <1>1 DEF Put, TypeOK, RunStates, Busy
<1> QED
  BY <1>2, <1>3 DEF RunOwnsTheThread, Busy

\* Every step keeps the thread the one run's that works on it.
LEMMA OwnerStep == TypeOK /\ RunOwnsTheThread /\ [Next]_vars => RunOwnsTheThread'
<1> SUFFICES ASSUME TypeOK, RunOwnsTheThread, [Next]_vars, ~overlapped' PROVE RunOwnsTheThread'
  BY DEF RunOwnsTheThread
<1>c. thread \in Checkpoints /\ \A r \in Runs : run[r].memory \in Checkpoints
  BY DEF TypeOK, RunStates
<1>n. ~overlapped
  <2>1. CASE UNCHANGED overlapped
    BY <2>1
  <2>2. ASSUME NEW r \in Runs, Misses(r) PROVE ~overlapped
    BY <2>2 DEF Misses
  <2>3. CASE UNCHANGED vars
    BY <2>3 DEF vars
  <2>4. ASSUME NEW r \in Runs, Step(r), ~Misses(r) PROVE UNCHANGED overlapped
    BY <2>4 DEF Step, FindsDraft, Probe, ClearThread, Start, Resume, ResumeTooLate, LoadPr,
               JoinReviews, ReconcileNode, StoreDraft, RereadDraft, DraftVanished,
               ReviewerReturns, BadReply
  <2> QED
    BY <2>1, <2>2, <2>3, <2>4 DEF Next, DeleteRow, Ask, Kill
<1>o. /\ \A r, x \in Runs : Busy(r) /\ Busy(x) => r = x
      /\ ThreadIsInOrder
  BY <1>n DEF RunOwnsTheThread
\* Steps that only end a run, or move it without touching the thread.
<1>e. ASSUME NEW r \in Runs, NEW d, End(r, d), UNCHANGED <<row, thread, overlapped>>
      PROVE  RunOwnsTheThread'
  <2>1. run'[r].at = "ended" /\ \A x \in Runs \ {r} : run'[x] = run[x]
    BY <1>e DEF End, TypeOK, NoRun
  <2> QED
    BY <1>e, <2>1 DEF RunOwnsTheThread, ThreadIsInOrder, Busy
<1>1. CASE UNCHANGED vars
  BY <1>1 DEF vars, RunOwnsTheThread, ThreadIsInOrder, Busy
<1>2. CASE DeleteRow
  BY <1>2 DEF DeleteRow, RunOwnsTheThread, ThreadIsInOrder, Busy
<1>3. ASSUME NEW r \in Runs, Ask(r) PROVE RunOwnsTheThread'
  <2>1. run'[r].at = "lookup" /\ \A x \in Runs \ {r} : run'[x] = run[x]
    BY <1>3 DEF Ask, TypeOK, NoRun
  <2> QED
    BY <1>3, <2>1 DEF Ask, RunOwnsTheThread, ThreadIsInOrder, Busy
<1>4. ASSUME NEW r \in Runs, FindsDraft(r) PROVE RunOwnsTheThread'
  BY <1>4, <1>e DEF FindsDraft
<1>5. ASSUME NEW r \in Runs, Misses(r) PROVE RunOwnsTheThread'
  <2>1. run'[r].at = "probe" /\ \A x \in Runs \ {r} : run'[x] = run[x]
    BY <1>5 DEF Misses, Goto, TypeOK, RunStates
  <2>2. \A x \in Runs \ {r} : ~Busy(x)
    BY <1>5 DEF Misses
  <2> QED
    BY <1>5, <2>1, <2>2, ZenonT(60) DEF Misses, RunOwnsTheThread, ThreadIsInOrder, Busy
<1>6. ASSUME NEW r \in Runs, Probe(r) PROVE RunOwnsTheThread'
  <2>1. run'[r].at = Decision /\ \A x \in Runs \ {r} : run'[x] = run[x]
    BY <1>6 DEF Probe, Goto, TypeOK, RunStates
  <2>2. Decision \in {"start", "clear", "resume"} /\ (Decision = "start" => thread.next = "none")
    BY DEF Decision
  <2> QED
    BY <1>6, <2>1, <2>2 DEF Probe, RunOwnsTheThread, ThreadIsInOrder, Busy
<1>7. ASSUME NEW r \in Runs, ClearThread(r) PROVE RunOwnsTheThread'
  <2>1. \A x \in Runs \ {r} : run[x].at \in {"ended", "lookup"}
    BY <1>7, <1>o DEF ClearThread, Busy
  <2>2. run'[r].at = "start" /\ \A x \in Runs \ {r} : run'[x].at \in {"ended", "lookup"}
    BY <1>7, <2>1 DEF ClearThread, TypeOK, RunStates
  <2>3. thread'.next = "none" /\ ThreadIsInOrder'
    BY <1>7 DEF ClearThread, Blank, NoWrites, ThreadIsInOrder
  <2> QED
    BY <1>7, <1>n, <2>2, <2>3 DEF ClearThread, RunOwnsTheThread, Busy
<1>8. ASSUME NEW r \in Runs, Start(r) PROVE RunOwnsTheThread'
  <2> DEFINE c == [thread EXCEPT !.next = "load_pr", !.writes = NoWrites]
  <2>1. c \in Checkpoints /\ c.next = "load_pr" /\ c.reviews = thread.reviews
        /\ c.writes = NoWrites
    BY <1>c DEF Checkpoints, NoWrites
  <2>2. thread.reviews = <<>>
    BY <1>8, <1>n DEF Start, RunOwnsTheThread, ThreadIsInOrder
  <2>3. thread' = c /\ Put(r, c)
    BY <1>8 DEF Start, Put
  <2>4. ThreadIsInOrder'
    BY <2>1, <2>2, <2>3 DEF ThreadIsInOrder, NoWrites
  <2> QED
    BY <1>8, <1>n, <2>1, <2>3, <2>4, PutKeepsOwnership DEF Start, Busy
<1>9. ASSUME NEW r \in Runs, Resume(r) PROVE RunOwnsTheThread'
  <2>1. \A x \in Runs \ {r} : run[x].at \in {"ended", "lookup"} /\ run'[x] = run[x]
    BY <1>9, <1>o DEF Resume, Busy, TypeOK
  <2>2. run'[r].at = "working" /\ run'[r].linked /\ run'[r].memory = thread
    BY <1>9 DEF Resume, Restored, TypeOK, RunStates
  <2> QED
    BY <1>9, <2>1, <2>2 DEF Resume, RunOwnsTheThread, ThreadIsInOrder, Busy
<1>10. ASSUME NEW r \in Runs, ResumeTooLate(r) PROVE RunOwnsTheThread'
  BY <1>10, <1>e DEF ResumeTooLate
\* The nodes of the graph: the run works from the thread.
<1>w. ASSUME NEW r \in Runs, run[r].at = "working"
      PROVE  Busy(r) /\ run[r].memory = thread /\ run[r].linked
  BY <1>w, <1>n DEF RunOwnsTheThread, Busy
<1>11. ASSUME NEW r \in Runs, LoadPr(r) PROVE RunOwnsTheThread'
  <2> DEFINE c == [thread EXCEPT !.next = "review"]
  <2>1. thread.next = "load_pr" /\ Busy(r) /\ Put(r, c) /\ thread' = c
    BY <1>11, <1>w DEF LoadPr, Working, Put
  <2>2. c \in Checkpoints /\ c.next = "review" /\ c.reviews = thread.reviews
        /\ c.writes = thread.writes
    BY <1>c DEF Checkpoints
  <2>3. ThreadIsInOrder'
    BY <1>o, <2>1, <2>2 DEF ThreadIsInOrder
  <2> QED
    BY <1>11, <1>n, <2>1, <2>2, <2>3, PutKeepsOwnership DEF LoadPr
<1>12. ASSUME NEW r \in Runs, JoinReviews(r) PROVE RunOwnsTheThread'
  <2> DEFINE c == [thread EXCEPT !.next = "reconcile", !.writes = NoWrites,
                                 !.reviews = Joined(thread)]
  <2>1. thread.next = "review" /\ Busy(r) /\ Put(r, c) /\ thread' = c /\ AllIn(thread)
    BY <1>12, <1>w DEF JoinReviews, Working, Put
  <2>2. Joined(thread) \in Drafts /\ LensesOf(Joined(thread)) = Lenses
    BY <1>c, <1>o, <2>1, JoinedIsADraft, JoinedIsComplete DEF ThreadIsInOrder
  <2>3. c \in Checkpoints /\ c.next = "reconcile" /\ c.reviews = Joined(thread)
        /\ c.writes = NoWrites
    BY <1>c, <2>2 DEF Checkpoints, NoWrites
  <2>4. ThreadIsInOrder'
    BY <2>1, <2>2, <2>3 DEF ThreadIsInOrder, NoWrites
  <2> QED
    BY <1>12, <1>n, <2>1, <2>3, <2>4, PutKeepsOwnership DEF JoinReviews
<1>13. ASSUME NEW r \in Runs, ReconcileNode(r) PROVE RunOwnsTheThread'
  <2> DEFINE c == [thread EXCEPT !.next = "store_draft", !.draft = thread.reviews]
  <2>1. thread.next = "reconcile" /\ Busy(r) /\ Put(r, c) /\ thread' = c
    BY <1>13, <1>w DEF ReconcileNode, Working, Put
  <2>2. c \in Checkpoints /\ c.next = "store_draft" /\ c.reviews = thread.reviews
        /\ c.draft = thread.reviews /\ c.writes = thread.writes
    BY <1>c DEF Checkpoints
  <2>3. ThreadIsInOrder'
    BY <1>o, <2>1, <2>2 DEF ThreadIsInOrder
  <2> QED
    BY <1>13, <1>n, <2>1, <2>2, <2>3, PutKeepsOwnership DEF ReconcileNode
<1>14. ASSUME NEW r \in Runs, StoreDraft(r) PROVE RunOwnsTheThread'
  <2>1. /\ run'[r] = [run[r] EXCEPT !.at = "reread"]
        /\ \A x \in Runs \ {r} : run'[x] = run[x]
    BY <1>14 DEF StoreDraft, Goto, TypeOK
  <2>2. run'[r].at = "reread" /\ run'[r].linked /\ run'[r].memory = thread
    BY <1>14, <2>1, <1>w DEF StoreDraft, Working, TypeOK, RunStates
  <2>3. \A x \in Runs \ {r} : run'[x].at \in {"ended", "lookup"}
    BY <1>14, <2>1, <1>o, <1>w DEF StoreDraft, Working, Busy
  <2>4. thread.next = "store_draft" /\ LensesOf(thread.draft) = Lenses
    BY <1>14, <1>w, <1>o DEF StoreDraft, Working, ThreadIsInOrder
  <2>5. row' # None => LensesOf(row') = Lenses
    BY <1>14, <1>w, <1>n, <2>4 DEF StoreDraft, Working, FirstWriterWins, RunOwnsTheThread
  <2>6. thread' = thread /\ ThreadIsInOrder'
    BY <1>14, <1>o DEF StoreDraft, ThreadIsInOrder
  <2> QED
    BY <2>2, <2>3, <2>4, <2>5, <2>6 DEF RunOwnsTheThread, Busy
<1>15. ASSUME NEW r \in Runs, RereadDraft(r) PROVE RunOwnsTheThread'
  <2>1. Busy(r) /\ run[r].memory = thread /\ thread.next = "store_draft"
    BY <1>15, <1>n DEF RereadDraft, RunOwnsTheThread, Busy
  <2>2. \A x \in Runs : run'[x].at \in {"ended", "lookup"}
    BY <1>15, <1>o, <2>1 DEF RereadDraft, Busy, NoRun, TypeOK, RunStates
  <2>3. LensesOf(row) = Lenses
    BY <1>15, <1>n DEF RereadDraft, RunOwnsTheThread
  <2>4. /\ thread'.next = "end" /\ thread'.draft = row
        /\ thread'.reviews = thread.reviews /\ thread'.writes = thread.writes
    BY <1>15, <1>c, <2>1 DEF RereadDraft, Reread, Checkpoints
  <2>5. ThreadIsInOrder'
    BY <1>o, <2>1, <2>3, <2>4 DEF ThreadIsInOrder
  <2> QED
    BY <1>15, <2>2, <2>3, <2>5 DEF RereadDraft, RunOwnsTheThread, Busy
<1>16. ASSUME NEW r \in Runs, DraftVanished(r) PROVE RunOwnsTheThread'
  BY <1>16, <1>e DEF DraftVanished
<1>17. ASSUME NEW r \in Runs, NEW l \in LensSet, ReviewerReturns(r, l) PROVE RunOwnsTheThread'
  <2>1. Busy(r) /\ run[r].memory = thread /\ run[r].linked /\ run[r].at = "working"
        /\ thread.writes[l] = None
    BY <1>17, <1>w DEF ReviewerReturns, Working
  <2>2. PICK review \in [lens : {l}, findings : Replies[l]] :
           /\ run' = [run EXCEPT ![r].memory.writes[l] = review]
           /\ thread' = [thread EXCEPT !.writes[l] = review]
    BY <1>17, <2>1 DEF ReviewerReturns
  <2>3. run'[r].at = "working" /\ run'[r].linked /\ run'[r].memory = thread'
    BY <2>1, <2>2 DEF TypeOK, RunStates
  <2>4. \A x \in Runs \ {r} : run'[x].at \in {"ended", "lookup"}
    BY <2>1, <2>2, <1>o DEF TypeOK, Busy
  <2>5. /\ thread'.next = thread.next /\ thread'.reviews = thread.reviews
        /\ thread'.draft = thread.draft
        /\ thread'.writes = [thread.writes EXCEPT ![l] = review]
    BY <2>2, <1>c DEF Checkpoints
  <2>6. ThreadIsInOrder'
    <3>1. \A k \in LensSet : thread'.writes[k] # None => thread'.writes[k].lens = k
      BY <2>5, <1>o, <1>c DEF ThreadIsInOrder, Checkpoints
    <3> QED
      BY <3>1, <2>5, <1>o DEF ThreadIsInOrder
  <2> QED
    BY <1>17, <1>n, <2>3, <2>4, <2>6 DEF ReviewerReturns, RunOwnsTheThread, Busy
<1>18. ASSUME NEW r \in Runs, NEW node, BadReply(r, node) PROVE RunOwnsTheThread'
  <2>1. CASE node \in run[r].retried
    BY <1>18, <2>1, <1>e DEF BadReply
  <2>2. CASE node \notin run[r].retried
    <3>1. \A x \in Runs : /\ run'[x].at = run[x].at /\ run'[x].linked = run[x].linked
                          /\ run'[x].memory = run[x].memory
      BY <1>18, <2>2 DEF BadReply, TypeOK, RunStates
    <3> QED
      BY <1>18, <3>1 DEF BadReply, RunOwnsTheThread, ThreadIsInOrder, Busy
  <2> QED
    BY <2>1, <2>2
<1>19. ASSUME NEW r \in Runs, Kill(r) PROVE RunOwnsTheThread'
  BY <1>19, <1>e DEF Kill
<1>20. ASSUME NEW r \in Runs, Step(r) PROVE RunOwnsTheThread'
  BY <1>20, <1>4, <1>5, <1>6, <1>7, <1>8, <1>9, <1>10, <1>11, <1>12, <1>13, <1>14, <1>15, <1>16,
     <1>17, <1>18 DEF Step
<1> QED
  BY <1>1, <1>2, <1>3, <1>19, <1>20 DEF Next

\* While runs do not overlap, a run that works owns the thread.
LEMMA Ownership == Spec => []RunOwnsTheThread
<1>1. Init => RunOwnsTheThread
  BY DEF Init, RunOwnsTheThread, ThreadIsInOrder, NoRun, Blank, NoWrites, Busy
<1> QED
  BY <1>1, OwnerStep, PanelTypes, PTL DEF Spec

\* The stored draft has one review of each lens, in order, however often runs
\* died and resumed, unless two of them worked on the thread at once.
THEOREM OneReviewEach == Spec => []OneReviewPerLens
<1>1. RunOwnsTheThread => OneReviewPerLens
  BY DEF RunOwnsTheThread, OneReviewPerLens
<1> QED
  BY <1>1, Ownership, PTL

\* A resumed run never calls a reviewer whose answer the thread holds, unless
\* two runs worked on the thread at once.
THEOREM AnswersArePaidOnce == Spec => NeverRepaid
<1> DEFINE AskedNow == \A r \in Runs, l \in LensSet :
                      ReviewerReturns(r, l) /\ ~overlapped => ~Answered(thread, l)
<1>1. RunOwnsTheThread => [AskedNow]_vars
  <2> SUFFICES ASSUME RunOwnsTheThread, NEW r \in Runs, NEW l \in LensSet,
                      ReviewerReturns(r, l), ~overlapped
               PROVE  ~Answered(thread, l)
    OBVIOUS
  <2>1. run[r].memory = thread /\ thread.next = "review" /\ thread.writes[l] = None
    BY DEF ReviewerReturns, Working, RunOwnsTheThread
  <2>2. thread.reviews = <<>>
    BY <2>1 DEF RunOwnsTheThread, ThreadIsInOrder
  <2> QED
    BY <2>1, <2>2 DEF Answered
<1> QED
  BY <1>1, Ownership, PTL DEF NeverRepaid
------------------------------------------------------------------------------
(* The merge of a list of reviews. *)

\* What the lenses may report.
Findings == UNION {UNION {ToSet(reply) : reply \in Replies[l]} : l \in LensSet}
\* The words of all findings.
Words == UNION {f.text : f \in Findings}
\* The evidence of all findings.
Evidence == UNION {f.evidence : f \in Findings}
\* The votes of some lenses.
Ballots == UNION {[D -> Severities] : D \in SUBSET LensSet}

\* The groups under construction.
Merging == [tokens : SUBSET Words, votes : Ballots, strongest : Findings,
            evidence : SUBSET Evidence]

\* Every finding has a severity and finitely many words.
LEMMA FindingTypes ==
    ASSUME NEW f \in Findings
    PROVE  /\ f.severity \in Severities /\ IsFiniteSet(f.text)
           /\ f.text \in SUBSET Words /\ f.evidence \in SUBSET Evidence
<1>1. PICK l \in LensSet : \E reply \in Replies[l] : f \in ToSet(reply)
  BY DEF Findings
<1>2. f.severity \in Severities /\ IsFiniteSet(f.text)
  BY <1>1, PanelAssumption DEF LensSet
<1> QED
  BY <1>2 DEF Words, Evidence

\* What a review of a draft holds.
LEMMA ReviewTypes ==
    ASSUME NEW whole \in Drafts
    PROVE  /\ Len(whole) \in Nat /\ DOMAIN whole = 1 .. Len(whole)
           /\ \A i \in DOMAIN whole :
                /\ whole[i].lens \in LensSet
                /\ Len(whole[i].findings) \in Nat
                /\ DOMAIN whole[i].findings = 1 .. Len(whole[i].findings)
                /\ \A j \in DOMAIN whole[i].findings : whole[i].findings[j] \in Findings
<1>1. whole \in Seq(Reviews)
  BY DEF Drafts
<1>2. Len(whole) \in Nat /\ DOMAIN whole = 1 .. Len(whole)
  BY <1>1
<1>3. ASSUME NEW i \in DOMAIN whole
      PROVE  /\ whole[i].lens \in LensSet
             /\ Len(whole[i].findings) \in Nat
             /\ DOMAIN whole[i].findings = 1 .. Len(whole[i].findings)
             /\ \A j \in DOMAIN whole[i].findings : whole[i].findings[j] \in Findings
  <2>1. whole[i] \in Reviews
    BY <1>1, <1>2
  <2>2. PICK l \in LensSet : whole[i] \in [lens : {l}, findings : Replies[l]]
    BY <2>1 DEF Reviews
  <2> DEFINE reply == whole[i].findings
  <2>3. whole[i].lens = l /\ reply \in Replies[l]
    BY <2>2
  <2>4. reply \in Seq(ToSet(reply))
    BY <2>3, PanelAssumption DEF LensSet
  <2> HIDE DEF reply
  <2>5. Len(reply) \in Nat /\ DOMAIN reply = 1 .. Len(reply)
    BY <2>4
  <2>6. \A j \in DOMAIN reply : reply[j] \in ToSet(reply)
    BY DEF ToSet
  <2>7. \A l2 \in LensSet : \A r \in Replies[l2] : \A f \in ToSet(r) : f \in Findings
    BY DEF Findings
  <2> QED
    BY <2>3, <2>5, <2>6, <2>7 DEF reply
<1> QED
  BY <1>2, <1>3

\* A vote of a lens replaces its own and leaves those of the others.
LEMMA VotedTypes ==
    ASSUME NEW votes \in Ballots, NEW lens \in LensSet, NEW severity \in Severities
    PROVE  /\ Voted(votes, lens, severity) \in Ballots
           /\ DOMAIN Voted(votes, lens, severity) = DOMAIN votes \cup {lens}
           /\ Voted(votes, lens, severity)[lens] = severity
           /\ \A l \in DOMAIN votes \ {lens} : Voted(votes, lens, severity)[l] = votes[l]
<1>1. PICK D \in SUBSET LensSet : votes \in [D -> Severities]
  BY DEF Ballots
<1>2. Voted(votes, lens, severity) \in [D \cup {lens} -> Severities]
  BY <1>1 DEF Voted
<1>3. D \cup {lens} \in SUBSET LensSet
  OBVIOUS
<1>4. Voted(votes, lens, severity) \in Ballots
  BY <1>2, <1>3 DEF Ballots
<1>5. DOMAIN votes = D
  BY <1>1
<1> QED
  BY <1>1, <1>4, <1>5 DEF Voted

\* A finding opens a group.
LEMMA NewGroupTypes ==
    ASSUME NEW lens \in LensSet, NEW f \in Findings
    PROVE  NewGroup(lens, f) \in Merging
<1>1. /\ f.severity \in Severities
      /\ f.text \in SUBSET Words /\ f.evidence \in SUBSET Evidence
  BY FindingTypes
<1>2. [l \in {lens} |-> f.severity] \in [{lens} -> Severities]
  BY <1>1
<1>3. [l \in {lens} |-> f.severity] \in Ballots
  BY <1>2 DEF Ballots
<1> QED
  BY <1>1, <1>3 DEF NewGroup, Merging

\* A finding joins a group.
LEMMA AbsorbTypes ==
    ASSUME NEW g \in Merging, NEW lens \in LensSet, NEW f \in Findings
    PROVE  Absorb(g, lens, f) \in Merging
<1>1. /\ f.severity \in Severities
      /\ f.text \in SUBSET Words /\ f.evidence \in SUBSET Evidence
  BY FindingTypes
<1>2. Voted(g.votes, lens, f.severity) \in Ballots
  BY <1>1, VotedTypes DEF Merging
<1>3. g.tokens \cup f.text \in SUBSET Words /\ g.evidence \cup f.evidence \in SUBSET Evidence
  BY <1>1 DEF Merging
<1> QED
  BY <1>2, <1>3 DEF Absorb, Merging

\* The groups that a finding is a duplicate of.
Matching(groups, f) == {i \in DOMAIN groups : IsDuplicate(groups[i].tokens, f.text)}

\* A finding opens a group at the end or joins the first that it matches.
LEMMA PlaceCases ==
    ASSUME NEW groups \in Seq(Merging), NEW lens \in LensSet, NEW f \in Findings
    PROVE  /\ Place(groups, lens, f) \in Seq(Merging)
           /\ \/ /\ Matching(groups, f) = {}
                 /\ Place(groups, lens, f) = Append(groups, NewGroup(lens, f))
              \/ \E x \in Matching(groups, f) :
                   /\ x \in DOMAIN groups
                   /\ Place(groups, lens, f) = [groups EXCEPT ![x] = Absorb(groups[x], lens, f)]
<1> DEFINE same == Matching(groups, f)
<1>1. CASE same = {}
  <2>1. Place(groups, lens, f) = Append(groups, NewGroup(lens, f))
    BY <1>1, Zenon DEF Place, Matching
  <2>2. NewGroup(lens, f) \in Merging
    BY NewGroupTypes
  <2> QED
    BY <1>1, <2>1, <2>2
<1>2. CASE same # {}
  <2>1. Len(groups) \in Nat /\ same \in SUBSET (0 .. Len(groups))
    BY DEF Matching
  <2>2. Min(same) \in same
    BY <1>2, <2>1, MinOfSome
  <2>3. Min(same) \in DOMAIN groups
    BY <2>2 DEF Matching
  <2>4. Place(groups, lens, f) = [groups EXCEPT ![Min(same)] = Absorb(groups[Min(same)], lens, f)]
    BY <1>2, Zenon DEF Place, Matching
  <2>5. groups[Min(same)] \in Merging
    BY <2>3
  <2>6. Absorb(groups[Min(same)], lens, f) \in Merging
    BY <2>5, AbsorbTypes
  <2> HIDE DEF same
  <2>7. Place(groups, lens, f) \in Seq(Merging)
    BY <2>3, <2>4, <2>6
  <2> QED
    BY <2>2, <2>3, <2>4, <2>7 DEF same
<1> QED
  BY <1>1, <1>2

\* The findings of one review are placed one after the other.
PlaceAll(groups, review) ==
    FoldLeft(LAMBDA g, f : Place(g, review.lens, f), groups, review.findings)

\* What holds before the first finding of a review, and is carried over each, holds after
\* the last.
LEMMA PlaceAllReaches ==
    ASSUME NEW review, review.lens \in LensSet,
           NEW n \in Nat, DOMAIN review.findings = 1 .. n,
           \A j \in 1 .. n : review.findings[j] \in Findings,
           NEW start \in Seq(Merging),
           NEW K \in [0 .. n -> SUBSET Seq(Merging)], start \in K[0],
           \A j \in 1 .. n : \A g \in K[j - 1] : Place(g, review.lens, review.findings[j]) \in K[j]
    PROVE  PlaceAll(start, review) \in K[n]
<1> DEFINE A == Seq(Merging)
           put(g, j) == Place(g, review.lens, review.findings[j])
           G == [p \in A \X (1 .. n) |-> put(p[1], p[2])]
           Eq(f) == f = [s \in SUBSET DOMAIN review.findings |->
                           IF s = {} THEN start ELSE put(f[s \ {Max(s)}], Max(s))]
<1>1. \A g \in A, j \in 1 .. n : put(g, j) \in A
  BY PlaceCases
<1>2. G \in [A \X (1 .. n) -> A] /\ \A g \in A, j \in 1 .. n : G[<<g, j>>] = put(g, j)
  <2> HIDE DEF put, A
  <2> QED
    BY <1>1
<1>2a. G \in [A \X (1 .. n) -> A]
  BY <1>2, Zenon
<1> HIDE DEF put, G
<1>3. PICK f \in [SUBSET (1 .. n) -> A] : StepsOfFold(f, n, start, G)
  <2>1. start \in A
    OBVIOUS
  <2> HIDE DEF A
  <2> QED
    BY <1>2a, <2>1, FoldTable
<1>4. ASSUME NEW s \in SUBSET (1 .. n), s # {}
      PROVE  s \ {Max(s)} \in SUBSET (1 .. n) /\ Max(s) \in 1 .. n /\ f[s \ {Max(s)}] \in A
  BY <1>4, MaxOfSome
<1>5. \A s \in SUBSET (1 .. n) :
         f[s] = IF s = {} THEN start ELSE put(f[s \ {Max(s)}], Max(s))
  <2> HIDE DEF A
  <2> QED
    BY <1>2, <1>3, <1>4 DEF StepsOfFold
<1>6. Eq(f)
  BY <1>3, <1>5
<1> DEFINE h == CHOOSE x : Eq(x)
<1>7. Eq(h)
  <2> HIDE DEF Eq
  <2> QED
    BY <1>6
<1>8. PlaceAll(start, review) = h[DOMAIN review.findings]
  BY Zenon DEF PlaceAll, FoldLeft, MapThenFoldSet, put
<1> HIDE DEF h
<1>9. h[{}] = start
  BY <1>7
<1>10. ASSUME NEW s \in SUBSET (1 .. n), s # {}, h[s \ {Max(s)}] \in A
      PROVE  h[s] = G[<<h[s \ {Max(s)}], Max(s)>>]
  <2>1. h[s] = put(h[s \ {Max(s)}], Max(s))
    BY <1>7, <1>10
  <2> HIDE DEF A
  <2> QED
    BY <1>2, <1>4, <1>10, <2>1
<1>11. \A k \in 1 .. n : \A g \in K[k - 1] : G[<<g, k>>] \in K[k]
  <2>1. \A k \in 1 .. n : k - 1 \in 0 .. n
    OBVIOUS
  <2>2. \A k \in 1 .. n : \A g \in K[k - 1] : g \in A /\ put(g, k) \in K[k]
    BY <2>1 DEF put
  <2> HIDE DEF A
  <2>3. ASSUME NEW k \in 1 .. n, NEW g \in K[k - 1] PROVE G[<<g, k>>] \in K[k]
    BY <1>2, <2>2
  <2> QED
    BY <2>3
<1> HIDE DEF Eq
<1>12. h[1 .. n] \in K[n]
  <2>0. start \in A
    OBVIOUS
  <2>1. start \in A /\ K \in [0 .. n -> SUBSET A]
    OBVIOUS
  <2>2. Carried(n, start, G, K)
    BY <1>11 DEF Carried
  <2>3. TypedSteps(h, n, A, start, G)
    BY <1>9, <1>10 DEF TypedSteps
  <2> HIDE DEF A
  <2> QED
    BY <1>2a, <2>1, <2>2, <2>3, FoldReaches
<1> QED
  BY <1>8, <1>12

\* What holds of no groups, and is carried over each review, holds of the groups of a draft.
LEMMA GroupsReach ==
    ASSUME NEW whole \in Drafts, NEW n \in Nat, n = Len(whole),
           NEW K \in [0 .. n -> SUBSET Seq(Merging)], <<>> \in K[0],
           \A i \in 1 .. n : \A g \in K[i - 1] : PlaceAll(g, whole[i]) \in K[i]
    PROVE  Groups(whole) \in K[n]
<1> DEFINE A == Seq(Merging)
           put(g, i) == PlaceAll(g, whole[i])
           G == [p \in A \X (1 .. n) |-> put(p[1], p[2])]
           Eq(f) == f = [s \in SUBSET DOMAIN whole |->
                           IF s = {} THEN <<>> ELSE put(f[s \ {Max(s)}], Max(s))]
<1>0. DOMAIN whole = 1 .. n
  BY ReviewTypes
<1>1. ASSUME NEW g \in A, NEW i \in 1 .. n PROVE put(g, i) \in A
  <2> DEFINE m == Len(whole[i].findings)
             all == [j \in 0 .. m |-> Seq(Merging)]
  <2>1. /\ whole[i].lens \in LensSet
        /\ m \in Nat /\ DOMAIN whole[i].findings = 1 .. m
        /\ \A j \in 1 .. m : whole[i].findings[j] \in Findings
    BY <1>0, ReviewTypes
  <2> HIDE DEF m
  <2>2. all \in [0 .. m -> SUBSET Seq(Merging)] /\ \A j \in 0 .. m : all[j] = Seq(Merging)
    OBVIOUS
  <2>3. 0 \in 0 .. m /\ m \in 0 .. m /\ \A j \in 1 .. m : j - 1 \in 0 .. m /\ j \in 0 .. m
    BY <2>1
  <2> HIDE DEF all
  <2>4. \A j \in 1 .. m : \A x \in all[j - 1] :
           Place(x, whole[i].lens, whole[i].findings[j]) \in all[j]
    BY <2>1, <2>2, <2>3, PlaceCases
  <2>5. g \in all[0]
    BY <2>2, <2>3
  <2>6. PlaceAll(g, whole[i]) \in all[m]
    BY <2>1, <2>2, <2>4, <2>5, PlaceAllReaches
  <2> QED
    BY <2>2, <2>3, <2>6
<1>2. G \in [A \X (1 .. n) -> A] /\ \A g \in A, i \in 1 .. n : G[<<g, i>>] = put(g, i)
  <2> HIDE DEF put, A
  <2> QED
    BY <1>1
<1>2a. G \in [A \X (1 .. n) -> A]
  BY <1>2, Zenon
<1> HIDE DEF put, G
<1>3. PICK f \in [SUBSET (1 .. n) -> A] : StepsOfFold(f, n, <<>>, G)
  <2>1. <<>> \in A
    OBVIOUS
  <2> HIDE DEF A
  <2> QED
    BY <1>2a, <2>1, FoldTable
<1>4. ASSUME NEW s \in SUBSET (1 .. n), s # {}
      PROVE  s \ {Max(s)} \in SUBSET (1 .. n) /\ Max(s) \in 1 .. n /\ f[s \ {Max(s)}] \in A
  BY <1>4, MaxOfSome
<1>5. \A s \in SUBSET (1 .. n) :
         f[s] = IF s = {} THEN <<>> ELSE put(f[s \ {Max(s)}], Max(s))
  <2> HIDE DEF A
  <2> QED
    BY <1>2, <1>3, <1>4 DEF StepsOfFold
<1>6. Eq(f)
  BY <1>0, <1>3, <1>5
<1> DEFINE h == CHOOSE x : Eq(x)
<1>7. Eq(h)
  <2> HIDE DEF Eq
  <2> QED
    BY <1>6
<1>8. Groups(whole) = h[DOMAIN whole]
  BY Zenon DEF Groups, FoldLeft, MapThenFoldSet, put, PlaceAll
<1> HIDE DEF h
<1>9. h[{}] = <<>>
  BY <1>0, <1>7
<1>10. ASSUME NEW s \in SUBSET (1 .. n), s # {}, h[s \ {Max(s)}] \in A
      PROVE  h[s] = G[<<h[s \ {Max(s)}], Max(s)>>]
  <2>1. h[s] = put(h[s \ {Max(s)}], Max(s))
    BY <1>0, <1>7, <1>10
  <2> HIDE DEF A
  <2> QED
    BY <1>2, <1>4, <1>10, <2>1
<1>11. \A k \in 1 .. n : \A g \in K[k - 1] : G[<<g, k>>] \in K[k]
  <2>1. \A k \in 1 .. n : k - 1 \in 0 .. n
    OBVIOUS
  <2>2. \A k \in 1 .. n : \A g \in K[k - 1] : g \in A /\ put(g, k) \in K[k]
    BY <2>1 DEF put
  <2> HIDE DEF A
  <2>3. ASSUME NEW k \in 1 .. n, NEW g \in K[k - 1] PROVE G[<<g, k>>] \in K[k]
    BY <1>2, <2>2
  <2> QED
    BY <2>3
<1> HIDE DEF Eq
<1>12. h[1 .. n] \in K[n]
  <2>1. <<>> \in A /\ K \in [0 .. n -> SUBSET A]
    OBVIOUS
  <2>2. Carried(n, <<>>, G, K)
    BY <1>11 DEF Carried
  <2>3. TypedSteps(h, n, A, <<>>, G)
    BY <1>9, <1>10 DEF TypedSteps
  <2> HIDE DEF A
  <2> QED
    BY <1>2a, <2>1, <2>2, <2>3, FoldReaches
<1> QED
  BY <1>0, <1>8, <1>12

\* What every finding of a draft keeps up, one of them brings about and no other one undoes
\* holds of the groups of the draft.
LEMMA DraftCarries ==
    ASSUME NEW whole \in Drafts,
           NEW i0 \in DOMAIN whole, NEW j0 \in DOMAIN whole[i0].findings,
           NEW P \in SUBSET Seq(Merging), NEW W \in SUBSET Seq(Merging), <<>> \in P,
           \A i \in DOMAIN whole : \A j \in DOMAIN whole[i].findings : \A g \in P :
             Place(g, whole[i].lens, whole[i].findings[j]) \in P,
           \A g \in P : Place(g, whole[i0].lens, whole[i0].findings[j0]) \in W,
           \A i \in DOMAIN whole : \A j \in DOMAIN whole[i].findings : \A g \in P \cap W :
             i # i0 \/ j # j0 => Place(g, whole[i].lens, whole[i].findings[j]) \in W
    PROVE  Groups(whole) \in P \cap W
<1> DEFINE n == Len(whole)
           K == [i \in 0 .. n |-> {g \in P : i >= i0 => g \in W}]
<1>1. n \in Nat /\ DOMAIN whole = 1 .. n
  BY ReviewTypes
<1> HIDE DEF n
<1>2. K \in [0 .. n -> SUBSET Seq(Merging)]
  OBVIOUS
<1>3. <<>> \in K[0]
  BY <1>1
<1>4. ASSUME NEW i \in 1 .. n, NEW g \in K[i - 1] PROVE PlaceAll(g, whole[i]) \in K[i]
  <2> DEFINE m == Len(whole[i].findings)
             L == [j \in 0 .. m |-> {x \in P : i > i0 \/ (i = i0 /\ j >= j0) => x \in W}]
  <2>1. /\ whole[i].lens \in LensSet
        /\ m \in Nat /\ DOMAIN whole[i].findings = 1 .. m
        /\ \A j \in 1 .. m : whole[i].findings[j] \in Findings
    BY <1>1, ReviewTypes
  <2> HIDE DEF m
  <2>2. L \in [0 .. m -> SUBSET Seq(Merging)]
    OBVIOUS
  <2>3. i - 1 \in 0 .. n /\ i \in 0 .. n /\ i0 \in 1 .. n
    BY <1>1
  <2>4. g \in P /\ (i - 1 >= i0 => g \in W)
    BY <2>3
  <2>5. i = i0 => j0 \in 1 .. m
    BY <2>1
  <2>6. g \in L[0] /\ g \in Seq(Merging)
    BY <2>1, <2>3, <2>4, <2>5
  <2>7. ASSUME NEW j \in 1 .. m, NEW x \in L[j - 1]
        PROVE  Place(x, whole[i].lens, whole[i].findings[j]) \in L[j]
    <3> DEFINE y == Place(x, whole[i].lens, whole[i].findings[j])
    <3>1. j - 1 \in 0 .. m /\ j \in 0 .. m /\ j \in DOMAIN whole[i].findings /\ i \in DOMAIN whole
      BY <1>1, <2>1
    <3>2. x \in P /\ (i > i0 \/ (i = i0 /\ j - 1 >= j0) => x \in W)
      BY <3>1
    <3>3. y \in P
      BY <3>1, <3>2
    <3>4. ASSUME i > i0 \/ (i = i0 /\ j >= j0) PROVE y \in W
      <4>1. CASE i = i0 /\ j = j0
        BY <3>2, <4>1
      <4>2. CASE ~ (i = i0 /\ j = j0)
        <5>1. i > i0 \/ (i = i0 /\ j - 1 >= j0)
          BY <2>1, <2>3, <2>5, <3>4, <4>2
        <5>2. x \in P \cap W
          BY <3>2, <5>1
        <5> QED
          BY <3>1, <4>2, <5>2
      <4> QED
        BY <4>1, <4>2
    <3> HIDE DEF y
    <3>5. y \in L[j]
      BY <3>1, <3>3, <3>4
    <3> QED
      BY <3>5 DEF y
  <2> HIDE DEF L
  <2>8. PlaceAll(g, whole[i]) \in L[m]
    BY <2>1, <2>2, <2>6, <2>7, PlaceAllReaches
  <2>9. /\ PlaceAll(g, whole[i]) \in P
        /\ i > i0 \/ (i = i0 /\ m >= j0) => PlaceAll(g, whole[i]) \in W
    BY <2>1, <2>8 DEF L
  <2>10. i >= i0 => i > i0 \/ (i = i0 /\ m >= j0)
    BY <2>1, <2>3, <2>5
  <2> QED
    BY <2>3, <2>9, <2>10
<1> HIDE DEF K
<1>5. Groups(whole) \in K[n]
  BY <1>1, <1>2, <1>3, <1>4, GroupsReach DEF n
<1>6. n \in 0 .. n /\ n >= i0
  BY <1>1
<1> QED
  BY <1>5, <1>6 DEF K

\* A group that holds a finding, and one in which the lens has the vote of the finding.
HasFinding(groups, lens, f) ==
    \E x \in DOMAIN groups : /\ f.evidence \subseteq groups[x].evidence
                             /\ lens \in DOMAIN groups[x].votes

\* ... and has it as the vote of the lens.
HasVote(groups, lens, f) ==
    \E x \in DOMAIN groups : /\ f.evidence \subseteq groups[x].evidence
                             /\ lens \in DOMAIN groups[x].votes
                             /\ groups[x].votes[lens] = f.severity

\* What a group is after a finding joined it, or opened it.
LEMMA AbsorbKeeps ==
    ASSUME NEW g \in Merging, NEW lens \in LensSet, NEW f \in Findings
    PROVE  LET a == Absorb(g, lens, f)  o == NewGroup(lens, f) IN
           /\ g.evidence \subseteq a.evidence /\ f.evidence \subseteq a.evidence
           /\ DOMAIN a.votes = DOMAIN g.votes \cup {lens} /\ a.votes[lens] = f.severity
           /\ \A l \in DOMAIN g.votes \ {lens} : a.votes[l] = g.votes[l]
           /\ a.tokens = g.tokens \cup f.text
           /\ o.evidence = f.evidence /\ o.tokens = f.text
           /\ DOMAIN o.votes = {lens} /\ o.votes[lens] = f.severity
<1>1. g.votes \in Ballots /\ f.severity \in Severities
  BY FindingTypes DEF Merging
<1>2. /\ DOMAIN Voted(g.votes, lens, f.severity) = DOMAIN g.votes \cup {lens}
      /\ Voted(g.votes, lens, f.severity)[lens] = f.severity
      /\ \A l \in DOMAIN g.votes \ {lens} : Voted(g.votes, lens, f.severity)[l] = g.votes[l]
  BY <1>1, VotedTypes
<1> QED
  BY <1>2 DEF Absorb, NewGroup

\* Place leaves every group where it is, but for the one that the finding joins.
LEMMA PlaceShape ==
    ASSUME NEW groups \in Seq(Merging), NEW lens \in LensSet, NEW f \in Findings
    PROVE  LET p == Place(groups, lens, f) IN
           \E z \in DOMAIN p :
             /\ p \in Seq(Merging)
             /\ DOMAIN groups \subseteq DOMAIN p
             /\ \A x \in DOMAIN groups \ {z} : p[x] = groups[x]
             /\ \A x \in DOMAIN p : x # z => x \in DOMAIN groups
             /\ \/ /\ z \in DOMAIN groups /\ z \in Matching(groups, f)
                   /\ p[z] = Absorb(groups[z], lens, f)
                \/ z \notin DOMAIN groups /\ Matching(groups, f) = {} /\ p[z] = NewGroup(lens, f)
<1> DEFINE p == Place(groups, lens, f)
<1>1. p \in Seq(Merging)
  BY PlaceCases
<1>2. CASE Matching(groups, f) = {} /\ p = Append(groups, NewGroup(lens, f))
  <2> DEFINE o == NewGroup(lens, f)
             z == Len(groups) + 1
  <2>1. Len(groups) \in Nat /\ DOMAIN groups = 1 .. Len(groups)
    OBVIOUS
  <2>2. p = Append(groups, o)
    BY <1>2
  <2> HIDE DEF p, o
  <2>3. /\ DOMAIN p = 1 .. Len(groups) + 1 /\ p[z] = o
        /\ \A x \in 1 .. Len(groups) : p[x] = groups[x]
    BY <2>1, <2>2
  <2>4. /\ z \in DOMAIN p /\ z \notin DOMAIN groups
        /\ DOMAIN groups \subseteq DOMAIN p
        /\ \A x \in DOMAIN p : x # z => x \in DOMAIN groups
    BY <2>1, <2>3
  <2> HIDE DEF z
  <2> QED
    BY <1>1, <1>2, <2>1, <2>3, <2>4 DEF p, o
<1>3. ASSUME NEW x \in Matching(groups, f), x \in DOMAIN groups,
             p = [groups EXCEPT ![x] = Absorb(groups[x], lens, f)]
      PROVE  \E z \in DOMAIN p :
             /\ p \in Seq(Merging)
             /\ DOMAIN groups \subseteq DOMAIN p
             /\ \A y \in DOMAIN groups \ {z} : p[y] = groups[y]
             /\ \A y \in DOMAIN p : y # z => y \in DOMAIN groups
             /\ \/ /\ z \in DOMAIN groups /\ z \in Matching(groups, f)
                   /\ p[z] = Absorb(groups[z], lens, f)
                \/ z \notin DOMAIN groups /\ Matching(groups, f) = {} /\ p[z] = NewGroup(lens, f)
  <2>1. x \in DOMAIN p
    BY <1>3
  <2> QED
    BY <1>1, <1>3, <2>1
<1> HIDE DEF p
<1> QED
  BY <1>2, <1>3, PlaceCases DEF p

\* A finding that is placed is there, and takes nothing away but an earlier vote of its lens.
LEMMA PlaceKeeps ==
    ASSUME NEW groups \in Seq(Merging), NEW lens \in LensSet, NEW f \in Findings,
           NEW l0 \in LensSet, NEW f0 \in Findings
    PROVE  LET p == Place(groups, lens, f) IN
           /\ HasFinding(groups, l0, f0) => HasFinding(p, l0, f0)
           /\ HasVote(groups, l0, f0) /\ l0 # lens => HasVote(p, l0, f0)
           /\ HasFinding(p, lens, f) /\ HasVote(p, lens, f)
<1> DEFINE p == Place(groups, lens, f)
<1>1. PICK z \in DOMAIN p :
             /\ p \in Seq(Merging)
             /\ DOMAIN groups \subseteq DOMAIN p
             /\ \A x \in DOMAIN groups \ {z} : p[x] = groups[x]
             /\ \A x \in DOMAIN p : x # z => x \in DOMAIN groups
             /\ \/ /\ z \in DOMAIN groups /\ z \in Matching(groups, f)
                   /\ p[z] = Absorb(groups[z], lens, f)
                \/ z \notin DOMAIN groups /\ Matching(groups, f) = {} /\ p[z] = NewGroup(lens, f)
  BY PlaceShape
<1> HIDE DEF p
<1>2. \A x \in DOMAIN groups : groups[x] \in Merging
  OBVIOUS
<1>3. /\ f.evidence \subseteq p[z].evidence /\ lens \in DOMAIN p[z].votes
      /\ p[z].votes[lens] = f.severity
  <2>1. CASE z \in DOMAIN groups
    BY <1>1, <1>2, <2>1, AbsorbKeeps
  <2>2. CASE z \notin DOMAIN groups
    <3>1. [l \in {lens} |-> f.severity][lens] = f.severity
      OBVIOUS
    <3> QED
      BY <1>1, <2>2, <3>1 DEF NewGroup
  <2> QED
    BY <2>1, <2>2
<1>4. ASSUME NEW x \in DOMAIN groups
      PROVE  /\ x \in DOMAIN p /\ groups[x].evidence \subseteq p[x].evidence
             /\ DOMAIN groups[x].votes \subseteq DOMAIN p[x].votes
             /\ \A l \in DOMAIN groups[x].votes \ {lens} : p[x].votes[l] = groups[x].votes[l]
  BY <1>1, <1>2, AbsorbKeeps
<1> QED
  BY <1>3, <1>4, Zenon DEF HasFinding, HasVote, p

\* A finding of a draft is in its groups, and so is the vote of a lens that says nothing else.
LEMMA FindingsSurvive ==
    ASSUME NEW whole \in Drafts,
           NEW i0 \in DOMAIN whole, NEW j0 \in DOMAIN whole[i0].findings
    PROVE  LET l == whole[i0].lens  f == whole[i0].findings[j0]  groups == Groups(whole) IN
           /\ groups \in Seq(Merging)
           /\ HasFinding(groups, l, f)
           /\ SaysOneThing(whole, i0) => HasVote(groups, l, f)
<1> DEFINE l == whole[i0].lens
           f == whole[i0].findings[j0]
           P == Seq(Merging)
           W == {g \in Seq(Merging) : HasFinding(g, l, f)
                                      /\ (SaysOneThing(whole, i0) => HasVote(g, l, f))}
<1>1. \A i \in DOMAIN whole : \A j \in DOMAIN whole[i].findings :
         whole[i].lens \in LensSet /\ whole[i].findings[j] \in Findings
  BY ReviewTypes
<1>2. P \in SUBSET Seq(Merging) /\ W \in SUBSET Seq(Merging) /\ <<>> \in P
  OBVIOUS
<1>3. ASSUME NEW i \in DOMAIN whole, NEW j \in DOMAIN whole[i].findings, NEW g \in P
      PROVE  Place(g, whole[i].lens, whole[i].findings[j]) \in P
  BY <1>1, PlaceCases
<1>4. ASSUME NEW g \in P PROVE Place(g, whole[i0].lens, whole[i0].findings[j0]) \in W
  <2>1. Place(g, l, f) \in Seq(Merging)
    BY <1>1, PlaceCases
  <2>2. HasFinding(Place(g, l, f), l, f) /\ HasVote(Place(g, l, f), l, f)
    BY <1>1, PlaceKeeps
  <2> QED
    BY <2>1, <2>2
<1>5. ASSUME NEW i \in DOMAIN whole, NEW j \in DOMAIN whole[i].findings, NEW g \in P \cap W,
             i # i0 \/ j # j0
      PROVE  Place(g, whole[i].lens, whole[i].findings[j]) \in W
  <2> DEFINE x == Place(g, whole[i].lens, whole[i].findings[j])
  <2>1. l \in LensSet /\ f \in Findings
    BY <1>1
  <2>2. /\ HasFinding(g, l, f) => HasFinding(x, l, f)
        /\ HasVote(g, l, f) /\ l # whole[i].lens => HasVote(x, l, f)
    BY <1>1, <2>1, PlaceKeeps
  <2>3. ASSUME SaysOneThing(whole, i0) PROVE l # whole[i].lens
    <3>1. CASE i = i0
      <4>1. j \in 1 .. 1 /\ j0 \in 1 .. 1
        BY <2>3, <3>1, ReviewTypes DEF SaysOneThing
      <4> QED
        BY <1>5, <3>1, <4>1
    <3>2. CASE i # i0
      BY <2>3, <3>2 DEF SaysOneThing
    <3> QED
      BY <3>1, <3>2
  <2>4. x \in Seq(Merging)
    BY <1>1, PlaceCases
  <2> HIDE DEF x, l, f
  <2>5. x \in W
    BY <2>2, <2>3, <2>4
  <2> QED
    BY <2>5 DEF x
<1> HIDE DEF P, W
<1>6. Groups(whole) \in P \cap W
  BY <1>2, <1>3, <1>4, <1>5, DraftCarries
<1> QED
  BY <1>6 DEF P, W

\* The groups whose words are t are one, and the words of the others have nothing of t.
WordsApart(groups, t) ==
    /\ \A x \in DOMAIN groups : /\ IsFiniteSet(groups[x].tokens)
                                /\ groups[x].tokens = t \/ groups[x].tokens \cap t = {}
    /\ \A x, y \in DOMAIN groups : groups[x].tokens = t /\ groups[y].tokens = t => x = y

\* The group of the words t has this vote of the lens.
HasRating(groups, t, lens, severity) ==
    \E x \in DOMAIN groups : /\ groups[x].tokens = t /\ lens \in DOMAIN groups[x].votes
                             /\ groups[x].votes[lens] = severity

\* The same words are a duplicate, words apart are not.
LEMMA DuplicatesOf ==
    ASSUME NEW a, NEW b, IsFiniteSet(a), IsFiniteSet(b), b # {}
    PROVE  /\ a = b => IsDuplicate(a, b)
           /\ a \cap b = {} => ~ IsDuplicate(a, b)
<1>1. IsFiniteSet(a \cup b) /\ Cardinality(a \cup b) \in Nat /\ Cardinality(a \cup b) # 0
  <2>1. IsFiniteSet(a \cup b)
    BY FS_Union
  <2>2. a \cup b # {}
    OBVIOUS
  <2> QED
    BY <2>1, <2>2, FS_CardinalityType, FS_EmptySet
<1>2. ASSUME a = b PROVE IsDuplicate(a, b)
  <2>1. a \cap b = b /\ a \cup b = b
    BY <1>2
  <2>2. Cardinality(b) \in Nat
    BY <1>1, <2>1
  <2>3. 10 * Cardinality(b) >= 7 * Cardinality(b)
    BY <2>2
  <2> QED
    BY <1>2, <2>1, <2>3 DEF IsDuplicate
<1>3. ASSUME a \cap b = {} PROVE ~ IsDuplicate(a, b)
  <2>1. Cardinality(a \cap b) = 0
    BY <1>3, FS_EmptySet
  <2> QED
    BY <1>1, <2>1 DEF IsDuplicate
<1> QED
  BY <1>2, <1>3

\* A finding whose words are t or none of them leaves words apart, and each vote on t.
LEMMA PlaceApart ==
    ASSUME NEW groups \in Seq(Merging), NEW lens \in LensSet, NEW f \in Findings,
           NEW t, t # {}, IsFiniteSet(t), WordsApart(groups, t),
           f.text = t \/ f.text \cap t = {}
    PROVE  LET p == Place(groups, lens, f) IN
           /\ WordsApart(p, t)
           /\ \A l \in LensSet \ {lens} : \A s \in Severities :
                HasRating(groups, t, l, s) => HasRating(p, t, l, s)
           /\ f.text = t => HasRating(p, t, lens, f.severity)
<1> DEFINE p == Place(groups, lens, f)
<1>1. PICK z \in DOMAIN p :
             /\ p \in Seq(Merging)
             /\ DOMAIN groups \subseteq DOMAIN p
             /\ \A x \in DOMAIN groups \ {z} : p[x] = groups[x]
             /\ \A x \in DOMAIN p : x # z => x \in DOMAIN groups
             /\ \/ /\ z \in DOMAIN groups /\ z \in Matching(groups, f)
                   /\ p[z] = Absorb(groups[z], lens, f)
                \/ z \notin DOMAIN groups /\ Matching(groups, f) = {} /\ p[z] = NewGroup(lens, f)
  BY PlaceShape
<1> HIDE DEF p
<1>2. \A x \in DOMAIN groups : groups[x] \in Merging
  OBVIOUS
<1>3. IsFiniteSet(f.text)
  BY FindingTypes
<1>4. \A x \in DOMAIN groups : IsFiniteSet(groups[x].tokens)
                              /\ (groups[x].tokens = t \/ groups[x].tokens \cap t = {})
  BY DEF WordsApart
<1>5. CASE z \in DOMAIN groups
  <2>1. p[z] = Absorb(groups[z], lens, f) /\ IsDuplicate(groups[z].tokens, f.text)
    BY <1>1, <1>5 DEF Matching
  <2>2. /\ DOMAIN p[z].votes = DOMAIN groups[z].votes \cup {lens} /\ p[z].votes[lens] = f.severity
        /\ \A l \in DOMAIN groups[z].votes \ {lens} : p[z].votes[l] = groups[z].votes[l]
        /\ p[z].tokens = groups[z].tokens \cup f.text
    BY <1>2, <1>5, <2>1, AbsorbKeeps
  <2>3. (groups[z].tokens = t) <=> (f.text = t)
    <3>1. ASSUME groups[z].tokens = t, f.text \cap t = {} PROVE FALSE
      <4>1. f.text # {} /\ groups[z].tokens \cap f.text = {}
        BY <2>1, <3>1 DEF IsDuplicate
      <4> QED
        BY <1>3, <1>4, <1>5, <2>1, <4>1, DuplicatesOf
    <3>2. ASSUME f.text = t, groups[z].tokens \cap t = {} PROVE FALSE
      BY <1>3, <1>4, <1>5, <2>1, <3>2, DuplicatesOf
    <3> QED
      BY <1>4, <1>5, <3>1, <3>2
  <2>4. IsFiniteSet(p[z].tokens)
    <3>1. IsFiniteSet(groups[z].tokens)
      BY <1>4, <1>5
    <3>2. IsFiniteSet(groups[z].tokens \cup f.text)
      BY <1>3, <3>1, FS_Union
    <3> QED
      BY <2>2, <3>2
  <2>5. /\ p[z].tokens = t \/ p[z].tokens \cap t = {}
        /\ (p[z].tokens = t) <=> (groups[z].tokens = t)
    BY <1>4, <1>5, <2>2, <2>3
  <2>6. \A x \in DOMAIN p : /\ x \in DOMAIN groups /\ IsFiniteSet(p[x].tokens)
                            /\ p[x].tokens = t \/ p[x].tokens \cap t = {}
                            /\ (p[x].tokens = t) <=> (groups[x].tokens = t)
    BY <1>1, <1>4, <1>5, <2>4, <2>5
  <2>7. WordsApart(p, t)
    BY <2>6 DEF WordsApart
  <2>8. ASSUME NEW l \in LensSet \ {lens}, NEW s \in Severities, HasRating(groups, t, l, s)
        PROVE  HasRating(p, t, l, s)
    <3>1. PICK x \in DOMAIN groups : /\ groups[x].tokens = t /\ l \in DOMAIN groups[x].votes
                                     /\ groups[x].votes[l] = s
      BY <2>8 DEF HasRating
    <3>2. /\ x \in DOMAIN p /\ p[x].tokens = t /\ l \in DOMAIN p[x].votes /\ p[x].votes[l] = s
      BY <1>1, <2>2, <2>6, <3>1
    <3> QED
      BY <3>2 DEF HasRating
  <2>9. f.text = t => HasRating(p, t, lens, f.severity)
    BY <2>2, <2>3 DEF HasRating
  <2> QED
    BY <2>7, <2>8, <2>9 DEF p
<1>6. CASE z \notin DOMAIN groups
  <2>1. p[z] = NewGroup(lens, f) /\ Matching(groups, f) = {}
    BY <1>1, <1>6
  <2>2. /\ DOMAIN p[z].votes = {lens} /\ p[z].votes[lens] = f.severity /\ p[z].tokens = f.text
    BY <2>1 DEF NewGroup
  <2>3. f.text = t => \A x \in DOMAIN groups : groups[x].tokens # t
    <3>1. SUFFICES ASSUME f.text = t, NEW x \in DOMAIN groups, groups[x].tokens = t PROVE FALSE
      OBVIOUS
    <3>2. IsDuplicate(groups[x].tokens, f.text)
      BY <3>1, DuplicatesOf
    <3> QED
      BY <2>1, <3>2 DEF Matching
  <2>4. \A x \in DOMAIN p : /\ IsFiniteSet(p[x].tokens)
                            /\ p[x].tokens = t \/ p[x].tokens \cap t = {}
                            /\ x # z => x \in DOMAIN groups /\ p[x] = groups[x]
    BY <1>1, <1>3, <1>4, <2>2
  <2>5. ASSUME NEW x \in DOMAIN p, NEW y \in DOMAIN p, p[x].tokens = t, p[y].tokens = t
        PROVE  x = y
    <3>1. CASE x # z /\ y # z
      BY <2>4, <2>5, <3>1 DEF WordsApart
    <3>2. CASE x = z \/ y = z
      BY <2>2, <2>3, <2>4, <2>5, <3>2
    <3> QED
      BY <3>1, <3>2
  <2>6. WordsApart(p, t)
    BY <2>4, <2>5 DEF WordsApart
  <2>7. ASSUME NEW l \in LensSet \ {lens}, NEW s \in Severities, HasRating(groups, t, l, s)
        PROVE  HasRating(p, t, l, s)
    <3>1. PICK x \in DOMAIN groups : /\ groups[x].tokens = t /\ l \in DOMAIN groups[x].votes
                                     /\ groups[x].votes[l] = s
      BY <2>7 DEF HasRating
    <3>2. x \in DOMAIN p /\ p[x] = groups[x]
      BY <1>1, <1>6, <3>1
    <3> QED
      BY <3>1, <3>2 DEF HasRating
  <2>8. f.text = t => HasRating(p, t, lens, f.severity)
    BY <2>2 DEF HasRating
  <2> QED
    BY <2>6, <2>7, <2>8 DEF p
<1> QED
  BY <1>5, <1>6

\* Two findings of the same words that no other finding mixes with share a group, each
\* with its own vote.
LEMMA RatingsSurvive ==
    ASSUME NEW whole \in Drafts, NEW i0 \in DOMAIN whole, SaysOneThing(whole, i0),
           NEW t, t = whole[i0].findings[1].text, Unmixed(whole, t)
    PROVE  LET groups == Groups(whole) IN
           /\ groups \in Seq(Merging) /\ WordsApart(groups, t)
           /\ HasRating(groups, t, whole[i0].lens, whole[i0].findings[1].severity)
<1> DEFINE l == whole[i0].lens
           sev == whole[i0].findings[1].severity
           P == {g \in Seq(Merging) : WordsApart(g, t)}
           W == {g \in Seq(Merging) : HasRating(g, t, l, sev)}
<1>1. \A i \in DOMAIN whole : \A j \in DOMAIN whole[i].findings :
         whole[i].lens \in LensSet /\ whole[i].findings[j] \in Findings
  BY ReviewTypes
<1>2. DOMAIN whole[i0].findings = {1}
  <2>1. DOMAIN whole[i0].findings = 1 .. 1
    BY ReviewTypes DEF SaysOneThing
  <2> QED
    BY <2>1
<1>3. IsFiniteSet(t) /\ t # {} /\ l \in LensSet /\ sev \in Severities
  <2>1. whole[i0].findings[1] \in Findings
    BY <1>1, <1>2
  <2> QED
    BY <1>1, <2>1, FindingTypes, <1>2 DEF Unmixed
<1>4. <<>> \in P
  BY DEF WordsApart
<1>5. ASSUME NEW i \in DOMAIN whole, NEW j \in DOMAIN whole[i].findings, NEW g \in P
      PROVE  LET p == Place(g, whole[i].lens, whole[i].findings[j]) IN
             /\ p \in P
             /\ l # whole[i].lens /\ g \in W => p \in W
             /\ whole[i].findings[j].text = t
                  => HasRating(p, t, whole[i].lens, whole[i].findings[j].severity)
  <2> DEFINE f == whole[i].findings[j]
             p == Place(g, whole[i].lens, f)
  <2>1. f \in Findings /\ whole[i].lens \in LensSet /\ (f.text = t \/ f.text \cap t = {})
    BY <1>1 DEF Unmixed
  <2>2. p \in Seq(Merging)
    BY <2>1, PlaceCases
  <2> HIDE DEF f
  <2>3. /\ WordsApart(p, t)
        /\ l # whole[i].lens => (HasRating(g, t, l, sev) => HasRating(p, t, l, sev))
        /\ f.text = t => HasRating(p, t, whole[i].lens, f.severity)
    BY <1>3, <2>1, PlaceApart
  <2> HIDE DEF p, l, sev
  <2> QED
    BY <2>2, <2>3 DEF p, f
<1>6. ASSUME NEW g \in P PROVE Place(g, whole[i0].lens, whole[i0].findings[1]) \in W
  <2>1. HasRating(Place(g, whole[i0].lens, whole[i0].findings[1]), t, l, sev)
    BY <1>2, <1>5
  <2>2. Place(g, whole[i0].lens, whole[i0].findings[1]) \in Seq(Merging)
    BY <1>2, <1>5
  <2> QED
    BY <2>1, <2>2
<1>7. ASSUME NEW i \in DOMAIN whole, NEW j \in DOMAIN whole[i].findings, NEW g \in P \cap W,
             i # i0 \/ j # 1
      PROVE  Place(g, whole[i].lens, whole[i].findings[j]) \in W
  <2>1. l # whole[i].lens
    <3>1. i # i0
      BY <1>2, <1>7
    <3> QED
      BY <3>1 DEF SaysOneThing
  <2> HIDE DEF l, W, P
  <2> QED
    BY <1>5, <2>1
<1>8. P \in SUBSET Seq(Merging) /\ W \in SUBSET Seq(Merging) /\ 1 \in DOMAIN whole[i0].findings
  BY <1>2
<1> HIDE DEF P, W
<1>9. Groups(whole) \in P \cap W
  BY <1>4, <1>5, <1>6, <1>7, <1>8, DraftCarries
<1> QED
  BY <1>9 DEF P, W

\* What the reader sees of a group in which some lenses voted.
LEMMA MergedShows ==
    ASSUME NEW g \in Merging, NEW l \in DOMAIN g.votes, NEW k \in DOMAIN g.votes
    PROVE  /\ Merged(g).severity \in Severities
           /\ Merged(g).severity <= g.votes[l]
           /\ g.votes[l] # g.votes[k] => Merged(g).disputed
           /\ Merged(g).evidence = g.evidence /\ Merged(g).lenses = DOMAIN g.votes
<1>1. PICK D \in SUBSET LensSet : g.votes \in [D -> Severities]
  BY DEF Merging, Ballots
<1>2. Votes(g) \in SUBSET (0 .. 3) /\ g.votes[l] \in Votes(g) /\ g.votes[k] \in Votes(g)
  BY <1>1 DEF Votes, Range, Severities, NoteRank
<1>3. 3 \in Nat /\ Votes(g) # {}
  BY <1>2
<1>4. Min(Votes(g)) \in Votes(g) /\ \A y \in Votes(g) : Min(Votes(g)) <= y
  BY <1>2, <1>3, MinOfSome
<1>5. ASSUME g.votes[l] # g.votes[k] PROVE Cardinality(Votes(g)) > 1
  <2> DEFINE S == {g.votes[l]}
             S2 == S \cup {g.votes[k]}
  <2>1. IsFiniteSet(Votes(g))
    <3>1. IsFiniteSet(0 .. 3)
      BY FS_Interval, 0 \in Int, 3 \in Int
    <3> QED
      BY <1>2, <3>1, FS_Subset
  <2>2. IsFiniteSet(S) /\ Cardinality(S) = 1
    BY FS_Singleton
  <2>3. Cardinality(S2) = 2
    <3>1. g.votes[k] \notin S
      BY <1>5
    <3> HIDE DEF S
    <3>2. Cardinality(S2) = Cardinality(S) + 1
      BY <2>2, <3>1, FS_AddElement
    <3> QED
      BY <2>2, <3>2
  <2>4. S2 \in SUBSET Votes(g)
    BY <1>2
  <2> HIDE DEF S2
  <2>5. Cardinality(S2) <= Cardinality(Votes(g)) /\ Cardinality(Votes(g)) \in Nat
    BY <2>1, <2>4, FS_Subset, FS_CardinalityType
  <2> QED
    BY <2>3, <2>5
<1> QED
  BY <1>2, <1>4, <1>5 DEF Merged, Severities, NoteRank

\* Every group whose severity is one of the four is shown.
LEMMA GroupsAreShown ==
    ASSUME NEW whole, Groups(whole) \in Seq(Merging), NEW x \in DOMAIN Groups(whole),
           Merged(Groups(whole)[x]).severity \in Severities
    PROVE  Merged(Groups(whole)[x]) \in Range(Reconciled(whole))
<1> DEFINE groups == Groups(whole)
           merged == [i \in DOMAIN groups |-> Merged(groups[i])]
           places(s) == {i \in DOMAIN merged : merged[i].severity = s}
           of(s) == Picked(merged, places(s))
           n == Len(groups)
           A == UNION {ToSet(of(s)) : s \in Severities}
<1>1. n \in Nat /\ DOMAIN groups = 1 .. n
  OBVIOUS
<1>2. DOMAIN merged = 1 .. n /\ merged[x] = Merged(groups[x]) /\ x \in DOMAIN merged
  BY <1>1
<1>3. Reconciled(whole) = of(0) \o of(1) \o of(2) \o of(NoteRank)
  BY Zenon DEF Reconciled
<1> HIDE DEF merged, n
<1>4. \A s : places(s) \in SUBSET (1 .. n)
  BY <1>2
<1> HIDE DEF places
<1>5. \A s : Cardinality(places(s)) \in Nat
             /\ \A i \in places(s) : \E k \in DOMAIN of(s) : of(s)[k] = merged[i]
  <2> SUFFICES ASSUME NEW s
               PROVE  /\ Cardinality(places(s)) \in Nat
                      /\ \A i \in places(s) : \E k \in DOMAIN of(s) : of(s)[k] = merged[i]
    OBVIOUS
  <2>1. places(s) \in SUBSET (1 .. n)
    BY <1>4
  <2> QED
    BY <1>1, <2>1, PickedHolds
<1>6. \A s : DOMAIN of(s) = 1 .. Cardinality(places(s))
  BY DEF Picked
<1> HIDE DEF of
<1>7. ASSUME NEW s \in Severities PROVE of(s) \in Seq(A)
  <2>1. \A k \in DOMAIN of(s) : of(s)[k] \in A
    BY DEF ToSet
  <2>2. of(s) = [k \in 1 .. Cardinality(places(s)) |-> of(s)[k]]
    BY DEF of, Picked
  <2> HIDE DEF A
  <2>3. [k \in 1 .. Cardinality(places(s)) |-> of(s)[k]] \in Seq(A)
    BY <1>5, <1>6, <2>1
  <2> QED
    BY <2>2, <2>3, Zenon
<1>8. PICK s \in Severities : \E k \in DOMAIN of(s) : of(s)[k] = Merged(groups[x])
  <2> DEFINE s == Merged(groups[x]).severity
  <2>1. x \in places(s)
    BY <1>2 DEF places
  <2> HIDE DEF s
  <2>2. \E k \in DOMAIN of(s) : of(s)[k] = Merged(groups[x])
    BY <1>2, <1>5, <2>1
  <2>3. s \in Severities
    BY DEF s
  <2> QED
    BY <2>2, <2>3
<1> HIDE DEF A, groups
<1>9. 0 \in Severities /\ 1 \in Severities /\ 2 \in Severities /\ NoteRank \in Severities
      /\ (s = 0 \/ s = 1 \/ s = 2 \/ s = NoteRank)
  BY DEF Severities, NoteRank
<1> DEFINE a0 == of(0)
           a1 == of(1)
           a2 == of(2)
           a3 == of(NoteRank)
           two == a0 \o a1
           three == two \o a2
           four == three \o a3
<1>a. a0 \in Seq(A) /\ a1 \in Seq(A) /\ a2 \in Seq(A) /\ a3 \in Seq(A)
  BY <1>7, <1>9
<1> HIDE DEF a0, a1, a2, a3
<1>10. two \in Seq(A) /\ Includes(two, a0) /\ Includes(two, a1)
  BY <1>a, JoinHolds
<1> HIDE DEF two
<1>11. three \in Seq(A) /\ Includes(three, two) /\ Includes(three, a2)
  BY <1>a, <1>10, JoinHolds
<1> HIDE DEF three
<1>12. Includes(four, three) /\ Includes(four, a3)
  BY <1>a, <1>11, JoinHolds
<1> HIDE DEF four
<1>13. Includes(four, a0) /\ Includes(four, a1) /\ Includes(four, a2) /\ Includes(four, a3)
  BY <1>10, <1>11, <1>12, HoldsOn
<1>14. \E k \in DOMAIN four : four[k] = Merged(groups[x])
  <2>1. Includes(four, of(s))
    BY <1>9, <1>13, Zenon DEF a0, a1, a2, a3
  <2> QED
    BY <1>8, <2>1, Zenon DEF Includes
<1>15. Reconciled(whole) = four
  BY <1>3 DEF four, three, two, a0, a1, a2, a3
<1> QED
  BY <1>14, <1>15, Zenon DEF Range, groups

\* A draft shows each of its findings.
LEMMA DraftsAreWhole ==
    ASSUME NEW whole \in Drafts, NEW i \in DOMAIN whole, NEW j \in DOMAIN whole[i].findings
    PROVE  LET f == whole[i].findings[j] IN
           \E m \in Range(Reconciled(whole)) :
             /\ f.evidence \subseteq m.evidence /\ whole[i].lens \in m.lenses
             /\ SaysOneThing(whole, i) => m.severity <= f.severity
<1> DEFINE f == whole[i].findings[j]
           l == whole[i].lens
           groups == Groups(whole)
<1>1. /\ groups \in Seq(Merging) /\ HasFinding(groups, l, f)
      /\ SaysOneThing(whole, i) => HasVote(groups, l, f)
  BY FindingsSurvive
<1> HIDE DEF f, l
<1>2. PICK x \in DOMAIN groups : /\ f.evidence \subseteq groups[x].evidence
                                 /\ l \in DOMAIN groups[x].votes
                                 /\ SaysOneThing(whole, i) => groups[x].votes[l] = f.severity
  BY <1>1, Zenon DEF HasFinding, HasVote
<1>3. groups[x] \in Merging
  BY <1>1
<1>4. /\ Merged(groups[x]).severity \in Severities
      /\ Merged(groups[x]).severity <= groups[x].votes[l]
      /\ Merged(groups[x]).evidence = groups[x].evidence
      /\ Merged(groups[x]).lenses = DOMAIN groups[x].votes
  BY <1>2, <1>3, MergedShows
<1>5. Merged(groups[x]) \in Range(Reconciled(whole))
  BY <1>1, <1>2, <1>4, GroupsAreShown
<1> HIDE DEF groups
<1> QED
  BY <1>2, <1>4, <1>5 DEF f, l

\* A draft shows who disagrees.
LEMMA DraftsShowDisputes ==
    ASSUME NEW whole \in Drafts, NEW i \in DOMAIN whole, NEW k \in DOMAIN whole,
           SaysOneThing(whole, i), SaysOneThing(whole, k)
    PROVE  LET f == whole[i].findings[1]  g == whole[k].findings[1] IN
           f.text = g.text /\ f.severity < g.severity /\ Unmixed(whole, f.text) =>
             \E m \in Range(Reconciled(whole)) :
               /\ {whole[i].lens, whole[k].lens} \subseteq m.lenses
               /\ m.severity <= f.severity /\ m.disputed
<1> DEFINE f == whole[i].findings[1]
           g == whole[k].findings[1]
           groups == Groups(whole)
           t == f.text
<1> SUFFICES ASSUME t = g.text, f.severity < g.severity, Unmixed(whole, t)
             PROVE  \E m \in Range(Reconciled(whole)) :
                      /\ {whole[i].lens, whole[k].lens} \subseteq m.lenses
                      /\ m.severity <= f.severity /\ m.disputed
  OBVIOUS
<1>1. /\ groups \in Seq(Merging) /\ WordsApart(groups, t)
      /\ HasRating(groups, t, whole[i].lens, f.severity)
  BY RatingsSurvive
<1>2. HasRating(groups, t, whole[k].lens, g.severity)
  BY RatingsSurvive
<1>3. f.severity \in Severities /\ g.severity \in Severities
  <2>1. 1 \in DOMAIN whole[i].findings /\ 1 \in DOMAIN whole[k].findings
    BY ReviewTypes DEF SaysOneThing
  <2> QED
    BY <2>1, ReviewTypes, FindingTypes
<1> HIDE DEF f, g, t
<1>4. PICK x \in DOMAIN groups : /\ groups[x].tokens = t
                                 /\ whole[i].lens \in DOMAIN groups[x].votes
                                 /\ groups[x].votes[whole[i].lens] = f.severity
  BY <1>1, Zenon DEF HasRating
<1>5. PICK y \in DOMAIN groups : /\ groups[y].tokens = t
                                 /\ whole[k].lens \in DOMAIN groups[y].votes
                                 /\ groups[y].votes[whole[k].lens] = g.severity
  BY <1>2, Zenon DEF HasRating
<1>6. x = y
  BY <1>1, <1>4, <1>5, Zenon DEF WordsApart
<1>7. groups[x] \in Merging
  BY <1>1
<1>8. f.severity # g.severity
  BY <1>3 DEF Severities, NoteRank
<1>9. /\ Merged(groups[x]).severity \in Severities
      /\ Merged(groups[x]).severity <= f.severity
      /\ Merged(groups[x]).disputed
      /\ Merged(groups[x]).lenses = DOMAIN groups[x].votes
  BY <1>4, <1>5, <1>6, <1>7, <1>8, MergedShows
<1>10. Merged(groups[x]) \in Range(Reconciled(whole))
  BY <1>1, <1>4, <1>9, GroupsAreShown
<1> HIDE DEF groups
<1> QED
  BY <1>4, <1>5, <1>6, <1>9, <1>10

\* Reconciliation: each finding of the stored draft is shown with its evidence and its lens,
\* and, of lenses that report one finding each, with the higher severity and the
\* disagreement.
THEOREM MergeSafety == Spec => []MergeLosesNothing
<1>1. TypeOK => MergeLosesNothing
  <2> SUFFICES ASSUME TypeOK, row # None PROVE MergeLosesNothing
    BY Zenon DEF MergeLosesNothing, FindingsKept, DisputesShown
  <2>1. row \in Drafts
    BY DEF TypeOK
  <2>2. FindingsKept
    BY <2>1, DraftsAreWhole, Zenon DEF FindingsKept
  <2>3. DisputesShown
    <3> SUFFICES ASSUME NEW i \in DOMAIN row, NEW k \in DOMAIN row,
                        SaysOneThing(row, i), SaysOneThing(row, k)
                 PROVE  LET f == row[i].findings[1]  g == row[k].findings[1] IN
                        f.text = g.text /\ f.severity < g.severity /\ Unmixed(row, f.text) =>
                          \E m \in Range(Reconciled(row)) :
                            /\ {row[i].lens, row[k].lens} \subseteq m.lenses
                            /\ m.severity <= f.severity /\ m.disputed
      BY Zenon DEF DisputesShown
    <3> QED
      BY <2>1, DraftsShowDisputes
  <2> QED
    BY <2>2, <2>3 DEF MergeLosesNothing
<1> QED
  BY <1>1, PanelTypes, PTL

------------------------------------------------------------------------------
(* Ranks. *)

\* What can be ranked: cards of artifacts, one of each.
Rankable(cards) ==
    /\ IsFiniteSet(cards)
    /\ \A c \in cards : c.id \in Nodes /\ c.relevance \in Int
    /\ \A c, d \in cards : c.id = d.id => c = d

\* One of two cards is better, and no card is better than one that is better than it.
LEMMA BetterOrders ==
    ASSUME NEW cards, Rankable(cards)
    PROVE  /\ \A c \in cards : ~ Better(c, c)
           /\ \A c, d \in cards : c # d => Better(c, d) \/ Better(d, c)
           /\ \A c, d, e \in cards : Better(c, d) /\ Better(d, e) => Better(c, e)
<1> DEFINE b(c) == IF Node[c.id].backed THEN 1 ELSE 0
           a(c) == Node[c.id].authority
           no(c) == NodeNo[c.id]
           key(c) == <<b(c), a(c), c.relevance, no(c)>>
<1>1. \A c \in cards : b(c) \in Int /\ a(c) \in Int /\ c.relevance \in Int /\ no(c) \in Int
  BY RetrievalAssumption DEF Rankable
<1>2. \A c, d \in cards : c # d => no(c) # no(d)
  BY RetrievalAssumption DEF Rankable, IsInjective
<1>3. ASSUME NEW c, NEW d
      PROVE  Better(c, d) <=> \/ b(c) > b(d)
                              \/ b(c) = b(d) /\ a(c) > a(d)
                              \/ b(c) = b(d) /\ a(c) = a(d) /\ c.relevance > d.relevance
                              \/ b(c) = b(d) /\ a(c) = a(d) /\ c.relevance = d.relevance /\ no(c) > no(d)
  <2> DEFINE x == key(c)
             y == key(d)
             wins(i) == x[i] > y[i] /\ \A j \in 1 .. i - 1 : x[j] = y[j]
  <2>1. Better(c, d) <=> \E i \in 1 .. 4 : wins(i)
    BY Zenon DEF Better
  <2>2. /\ x[1] = b(c) /\ x[2] = a(c) /\ x[3] = c.relevance /\ x[4] = no(c)
        /\ y[1] = b(d) /\ y[2] = a(d) /\ y[3] = d.relevance /\ y[4] = no(d)
    OBVIOUS
  <2>3. 1 .. 4 = {1, 2, 3, 4} /\ 1 .. 1 - 1 = {} /\ 1 .. 2 - 1 = {1} /\ 1 .. 3 - 1 = {1, 2}
        /\ 1 .. 4 - 1 = {1, 2, 3}
    OBVIOUS
  <2> HIDE DEF x, y, b, a, no, key
  <2>4. (\E i \in 1 .. 4 : wins(i)) <=> wins(1) \/ wins(2) \/ wins(3) \/ wins(4)
    <3> HIDE DEF wins
    <3> QED
      BY <2>3
  <2>5. /\ wins(1) <=> x[1] > y[1]
        /\ wins(2) <=> x[1] = y[1] /\ x[2] > y[2]
        /\ wins(3) <=> x[1] = y[1] /\ x[2] = y[2] /\ x[3] > y[3]
        /\ wins(4) <=> x[1] = y[1] /\ x[2] = y[2] /\ x[3] = y[3] /\ x[4] > y[4]
    BY <2>3
  <2> HIDE DEF wins
  <2> QED
    BY <2>1, <2>2, <2>4, <2>5
<1> HIDE DEF b, a, no, key
<1>4. \A c \in cards : ~ Better(c, c)
  BY <1>1, <1>3
<1>5. \A c, d \in cards : c # d => Better(c, d) \/ Better(d, c)
  BY <1>1, <1>2, <1>3
<1>6. \A c, d, e \in cards : Better(c, d) /\ Better(d, e) => Better(c, e)
  BY <1>1, <1>3
<1> QED
  BY <1>4, <1>5, <1>6

\* Best first.
Ordered(s) == \A i, j \in DOMAIN s : i < j => Better(s[i], s[j])

\* The ranking lists every card, best first.
LEMMA RankingLists ==
    ASSUME NEW cards, Rankable(cards)
    PROVE  /\ InRankOrder(cards) \in Seq(cards) /\ ToSet(InRankOrder(cards)) = cards
           /\ Ordered(InRankOrder(cards))
<1> DEFINE before(c) == {d \in cards : Better(d, c)}
           place(c) == 1 + Cardinality(before(c))
           upto(c) == before(c) \union {c}
           U == [c \in cards |-> upto(c)]
           n == Cardinality(cards)
           s == InRankOrder(cards)
<1>1. \A c \in cards : /\ before(c) \in SUBSET cards /\ IsFiniteSet(before(c))
                       /\ Cardinality(before(c)) \in Nat /\ c \notin before(c)
  <2>1. \A c \in cards : before(c) \in SUBSET cards /\ c \notin before(c)
    BY BetterOrders
  <2> HIDE DEF before
  <2> QED
    BY <2>1, FS_Subset, FS_CardinalityType DEF Rankable
<1>2. \A c \in cards : Cardinality(U[c]) = place(c)
  <2> SUFFICES ASSUME NEW c \in cards PROVE Cardinality(U[c]) = place(c)
    OBVIOUS
  <2>1. U[c] = before(c) \union {c}
    OBVIOUS
  <2> HIDE DEF before, U
  <2>2. /\ IsFiniteSet(before(c)) /\ c \notin before(c) /\ Cardinality(before(c)) \in Nat
    BY <1>1
  <2>3. Cardinality(before(c) \union {c}) = Cardinality(before(c)) + 1
    BY <2>2, FS_AddElement
  <2> QED
    BY <2>1, <2>2, <2>3
<1>3. /\ U \in [cards -> SUBSET cards]
      /\ \A x \in cards : x \in U[x]
      /\ \A x, y \in cards : U[x] \subseteq U[y] \/ U[y] \subseteq U[x]
      /\ \A x, y \in cards : x \in U[y] /\ y \in U[x] => x = y
  BY BetterOrders
<1>4. \A x, y \in cards : Better(x, y) => x \in U[y] /\ x # y
  BY BetterOrders
<1>5. s = [i \in 1 .. n |-> CHOOSE c \in cards : place(c) = i]
  BY Zenon DEF InRankOrder
<1> HIDE DEF U, place, s
<1>6. /\ n \in Nat
      /\ \A x \in cards : place(x) \in 1 .. n
      /\ \A x, y \in cards : Better(x, y) => place(x) < place(y)
      /\ \A x, y \in cards : place(x) = place(y) => x = y
      /\ \A k \in 1 .. n : \E x \in cards : place(x) = k
  <2>1. IsFiniteSet(cards)
    BY DEF Rankable
  <2>2. /\ n \in Nat
        /\ \A x \in cards : Cardinality(U[x]) \in 1 .. n
        /\ \A x, y \in cards : x \in U[y] /\ x # y => Cardinality(U[x]) < Cardinality(U[y])
        /\ \A x, y \in cards : Cardinality(U[x]) = Cardinality(U[y]) => x = y
        /\ \A k \in 1 .. n : \E x \in cards : Cardinality(U[x]) = k
    BY <1>3, <2>1, PlacesFill
  <2> HIDE DEF n
  <2> QED
    BY <1>2, <1>4, <2>2
<1> HIDE DEF n
<1>7. DOMAIN s = 1 .. n /\ \A i \in 1 .. n : s[i] \in cards /\ place(s[i]) = i
  BY <1>5, <1>6
<1>8. s \in Seq(cards)
  BY <1>5, <1>6, <1>7
<1>9. ToSet(s) = cards
  <2>1. \A x \in cards : s[place(x)] = x
    BY <1>6, <1>7
  <2> QED
    BY <1>6, <1>7, <2>1 DEF ToSet
<1>10. Ordered(s)
  <2> SUFFICES ASSUME NEW i \in 1 .. n, NEW j \in 1 .. n, i < j PROVE Better(s[i], s[j])
    BY <1>7 DEF Ordered
  <2>1. s[i] \in cards /\ s[j] \in cards /\ place(s[i]) = i /\ place(s[j]) = j
    BY <1>7
  <2>2. s[i] # s[j] /\ ~ Better(s[j], s[i])
    BY <1>6, <2>1
  <2> QED
    BY <2>1, <2>2, BetterOrders
<1> QED
  BY <1>8, <1>9, <1>10 DEF s

------------------------------------------------------------------------------
(* Collapsing cards that are alike. *)

\* No card is like an earlier one.
Unalike(s) == \A i, j \in DOMAIN s : i < j => s[i].id \notin Node[s[j].id].alike

\* A card is kept, or a better one like it is.
KeptOrBeaten(c, kept) ==
    c \in ToSet(kept) \/ \E k \in ToSet(kept) : Better(k, c) /\ k.id \in Node[c.id].alike

\* The next card of a ranking, after those that were kept.
KeptNext(kept, c) ==
    IF \E k \in ToSet(kept) : k.id \in Node[c.id].alike THEN kept ELSE Append(kept, c)

\* The cards kept of the first k of a ranking.
KeptOf(s, cards, k) ==
    {kept \in Seq(cards) : /\ \A c \in ToSet(kept) : \E i \in 1 .. k : c = s[i]
                           /\ Ordered(kept) /\ Unalike(kept)
                           /\ \A i \in 1 .. k : KeptOrBeaten(s[i], kept)}

\* A card that is like none of those kept joins them.
LEMMA KeepsOn ==
    ASSUME NEW cards, Rankable(cards), NEW s \in Seq(cards), Ordered(s),
           NEW k \in 1 .. Len(s), NEW kept \in KeptOf(s, cards, k - 1)
    PROVE  KeptNext(kept, s[k]) \in KeptOf(s, cards, k)
<1> DEFINE c == s[k]
           next == KeptNext(kept, c)
<1>1. /\ Len(s) \in Nat /\ k \in Nat /\ 1 .. k = (1 .. k - 1) \union {k} /\ DOMAIN s = 1 .. Len(s)
      /\ c \in cards /\ kept \in Seq(cards)
  BY DEF KeptOf
<1>2. /\ \A d \in ToSet(kept) : \E i \in 1 .. k - 1 : d = s[i]
      /\ \A i \in 1 .. k - 1 : KeptOrBeaten(s[i], kept)
      /\ Ordered(kept) /\ Unalike(kept)
  BY DEF KeptOf
<1>3. \A d \in ToSet(kept) : Better(d, c)
  <2>1. \A i \in 1 .. k - 1 : i \in DOMAIN s /\ i < k
    BY <1>1
  <2> QED
    BY <1>1, <1>2, <2>1 DEF Ordered
<1>4. CASE \E d \in ToSet(kept) : d.id \in Node[c.id].alike
  <2>1. next = kept
    BY <1>4 DEF KeptNext
  <2>2. KeptOrBeaten(c, kept)
    BY <1>3, <1>4 DEF KeptOrBeaten
  <2> HIDE DEF c, next
  <2>3. \A d \in ToSet(kept) : \E i \in 1 .. k : d = s[i]
    BY <1>1, <1>2
  <2>4. \A i \in 1 .. k : KeptOrBeaten(s[i], kept)
    BY <1>1, <1>2, <2>2 DEF c
  <2> QED
    BY <1>1, <1>2, <2>1, <2>3, <2>4 DEF KeptOf, c, next
<1>5. CASE ~ \E d \in ToSet(kept) : d.id \in Node[c.id].alike
  <2>1. next = Append(kept, c)
    BY <1>5 DEF KeptNext
  <2> HIDE DEF c, next
  <2> DEFINE n == Len(kept)
  <2>2. /\ next \in Seq(cards) /\ n \in Nat /\ next[n + 1] = c /\ \A i \in 1 .. n : next[i] = kept[i]
        /\ DOMAIN kept = 1 .. n /\ DOMAIN next = 1 .. n + 1 /\ ToSet(next) = ToSet(kept) \union {c}
    BY <1>1, <2>1, AppendHolds
  <2>3. \A i \in 1 .. n : kept[i] \in ToSet(kept)
    BY <2>2 DEF ToSet
  <2> HIDE DEF n
  <2>4. \A i \in 1 .. n + 1 : i \in 1 .. n \/ i = n + 1
    BY <2>2
  <2>5. Ordered(next)
    <3> SUFFICES ASSUME NEW i \in 1 .. n + 1, NEW j \in 1 .. n + 1, i < j
                 PROVE  Better(next[i], next[j])
      BY <2>2 DEF Ordered
    <3>1. i \in 1 .. n /\ i \in DOMAIN kept /\ next[i] = kept[i]
      BY <2>2, <2>4
    <3>2. CASE j = n + 1
      BY <1>3, <2>2, <2>3, <3>1, <3>2
    <3>3. CASE j \in 1 .. n
      BY <1>2, <2>2, <3>1, <3>3 DEF Ordered
    <3> QED
      BY <2>4, <3>2, <3>3
  <2>6. Unalike(next)
    <3> SUFFICES ASSUME NEW i \in 1 .. n + 1, NEW j \in 1 .. n + 1, i < j
                 PROVE  next[i].id \notin Node[next[j].id].alike
      BY <2>2 DEF Unalike
    <3>1. i \in 1 .. n /\ i \in DOMAIN kept /\ next[i] = kept[i]
      BY <2>2, <2>4
    <3>2. CASE j = n + 1
      BY <1>5, <2>2, <2>3, <3>1, <3>2
    <3>3. CASE j \in 1 .. n
      BY <1>2, <2>2, <3>1, <3>3 DEF Unalike
    <3> QED
      BY <2>4, <3>2, <3>3
  <2>7. \A d \in ToSet(next) : \E i \in 1 .. k : d = s[i]
    BY <1>1, <1>2, <2>2 DEF c
  <2>8. \A i \in 1 .. k : KeptOrBeaten(s[i], next)
    BY <1>1, <1>2, <2>2 DEF c, KeptOrBeaten
  <2> QED
    BY <2>2, <2>5, <2>6, <2>7, <2>8 DEF KeptOf, c, next
<1> QED
  BY <1>4, <1>5

\* What is left of a ranking when near duplicates are collapsed.
LEMMA CollapsedKeeps ==
    ASSUME NEW cards, Rankable(cards), NEW s \in Seq(cards), Ordered(s), ToSet(s) = cards
    PROVE  /\ Collapsed(s) \in Seq(cards) /\ Ordered(Collapsed(s)) /\ Unalike(Collapsed(s))
           /\ \A c \in cards : KeptOrBeaten(c, Collapsed(s))
<1> DEFINE n == Len(s)
           A == Seq(cards)
           put(g, j) == KeptNext(g, s[j])
           G == [p \in A \X (1 .. n) |-> put(p[1], p[2])]
           K == [k \in 0 .. n |-> KeptOf(s, cards, k)]
           Eq(f) == f = [t \in SUBSET DOMAIN s |-> IF t = {} THEN <<>> ELSE put(f[t \ {Max(t)}], Max(t))]
<1>0. n \in Nat /\ DOMAIN s = 1 .. n /\ \A j \in 1 .. n : s[j] \in cards
  OBVIOUS
<1>1. \A g \in A, j \in 1 .. n : put(g, j) \in A
  <2> HIDE DEF n
  <2>1. \A g \in A, j \in 1 .. n : Append(g, s[j]) \in A
    BY <1>0
  <2> HIDE DEF A
  <2> QED
    BY <2>1 DEF KeptNext
<1>2. G \in [A \X (1 .. n) -> A] /\ \A g \in A, j \in 1 .. n : G[<<g, j>>] = put(g, j)
  <2> HIDE DEF put, A, n
  <2> QED
    BY <1>1
<1>3. <<>> \in A
  OBVIOUS
<1>4. K \in [0 .. n -> SUBSET A]
  BY DEF KeptOf
<1>5. Carried(n, <<>>, G, K)
  <2>1. <<>> \in K[0]
    <3>1. 1 .. 0 = {} /\ ToSet(<<>>) = {} /\ DOMAIN <<>> = {} /\ 0 \in 0 .. n
      BY <1>0 DEF ToSet
    <3> QED
      BY <1>3, <3>1 DEF KeptOf, Ordered, Unalike
  <2>2. ASSUME NEW k \in 1 .. n, NEW g \in K[k - 1] PROVE G[<<g, k>>] \in K[k]
    <3>1. k - 1 \in 0 .. n /\ k \in 0 .. n
      BY <1>0
    <3>2. g \in KeptOf(s, cards, k - 1) /\ K[k] = KeptOf(s, cards, k)
      BY <3>1
    <3>3. g \in A
      BY <3>2 DEF KeptOf
    <3>4. put(g, k) \in KeptOf(s, cards, k)
      BY <3>2, KeepsOn
    <3> HIDE DEF put, A, n, K, G
    <3> QED
      BY <1>2, <3>2, <3>3, <3>4
  <2> QED
    BY <2>1, <2>2 DEF Carried
<1> HIDE DEF put, G, K, n
<1>6. PICK f \in [SUBSET (1 .. n) -> A] : StepsOfFold(f, n, <<>>, G)
  <2> HIDE DEF A
  <2> QED
    BY <1>0, <1>2, <1>3, FoldTable
<1>7. ASSUME NEW t \in SUBSET (1 .. n), t # {}
      PROVE  t \ {Max(t)} \in SUBSET (1 .. n) /\ Max(t) \in 1 .. n /\ f[t \ {Max(t)}] \in A
  BY <1>0, <1>7, MaxOfSome
<1>8. \A t \in SUBSET (1 .. n) : f[t] = IF t = {} THEN <<>> ELSE put(f[t \ {Max(t)}], Max(t))
  <2> HIDE DEF A
  <2> QED
    BY <1>2, <1>6, <1>7 DEF StepsOfFold
<1>9. Eq(f)
  BY <1>0, <1>6, <1>8
<1> DEFINE h == CHOOSE x : Eq(x)
<1>10. Eq(h)
  <2> HIDE DEF Eq
  <2> QED
    BY <1>9
<1>11. Collapsed(s) = h[DOMAIN s]
  BY Zenon DEF Collapsed, FoldLeft, MapThenFoldSet, put, KeptNext
<1> HIDE DEF h
<1>12. h[{}] = <<>>
  BY <1>0, <1>10
<1>13. ASSUME NEW t \in SUBSET (1 .. n), t # {}, h[t \ {Max(t)}] \in A
       PROVE  h[t] = G[<<h[t \ {Max(t)}], Max(t)>>]
  <2>1. h[t] = put(h[t \ {Max(t)}], Max(t))
    BY <1>0, <1>10, <1>13
  <2> HIDE DEF A
  <2> QED
    BY <1>2, <1>7, <1>13, <2>1
<1> HIDE DEF Eq
<1>14. h[1 .. n] \in K[n]
  <2>1. TypedSteps(h, n, A, <<>>, G)
    BY <1>12, <1>13 DEF TypedSteps
  <2> HIDE DEF A
  <2> QED
    BY <1>0, <1>2, <1>3, <1>4, <1>5, <2>1, FoldReaches
<1>15. Collapsed(s) \in KeptOf(s, cards, n)
  BY <1>0, <1>11, <1>14 DEF K
<1>16. \A c \in cards : \E i \in 1 .. n : c = s[i]
  BY <1>0 DEF ToSet
<1> QED
  BY <1>15, <1>16 DEF KeptOf

------------------------------------------------------------------------------
(* The candidates of one hop. *)

\* The ties there are.
TieSet == ToSet(Ties)

\* A neighbour that was reached.
Reaches ==
    [id : Nodes, type : {t.type : t \in TieSet}, out : BOOLEAN, trust : {t.trust : t \in TieSet},
     distance : Nat]

\* The ids of what was reached.
Ids(reached) == {n.id : n \in ToSet(reached)}

\* No id twice.
Apart(reached) == \A i, j \in DOMAIN reached : reached[i].id = reached[j].id => i = j

\* What a pass over the edges of a hop holds.
Passes == [seen : SUBSET Nodes, new : Seq(Reaches)]

\* A tie that the request admits.
Admitted(t) == AdmitsTrust(t.trust, look.ask.floor, look.ask.inferred)

\* The branches of a pass for its next tie.
PassNext(acc, t) ==
    IF ~ Admitted(t) THEN acc
    ELSE IF t.a \in look.frontier /\ t.b \notin acc.seen THEN ReachedBy(acc, t, t.a, t.b, look.hop)
    ELSE IF t.b \in look.frontier /\ t.a \notin acc.seen THEN ReachedBy(acc, t, t.b, t.a, look.hop)
    ELSE acc

\* The tie leads from the frontier to the artifact.
LeadsTo(t, s) == Admitted(t) /\ \E r \in look.frontier : {r, s} = {t.a, t.b}

\* What a pass has reached over the first k ties.
PassOver(ties, k) ==
    {acc \in Passes :
       /\ acc.seen = look.seen \union Ids(acc.new) /\ Ids(acc.new) \cap look.seen = {}
       /\ Apart(acc.new)
       /\ \A m \in ToSet(acc.new) : m.distance = look.hop /\ \E i \in 1 .. k : LeadsTo(ties[i], m.id)
       /\ \A i \in 1 .. k : Admitted(ties[i]) =>
            /\ ties[i].a \in look.frontier => ties[i].b \in acc.seen
            /\ ties[i].b \in look.frontier => ties[i].a \in acc.seen}

\* A tie that leads to what was not seen adds it.
LEMMA ReachesOn ==
    ASSUME NEW ties \in Seq(TieSet), look.frontier \subseteq look.seen, look.hop \in Nat,
           look.seen \subseteq Nodes,
           NEW k \in 1 .. Len(ties), NEW acc \in PassOver(ties, k - 1),
           NEW from \in Nodes, NEW to \in Nodes \ acc.seen, from \in look.frontier,
           {from, to} = {ties[k].a, ties[k].b}, Admitted(ties[k])
    PROVE  ReachedBy(acc, ties[k], from, to, look.hop) \in PassOver(ties, k)
<1> DEFINE t == ties[k]
           m == [id |-> to, type |-> t.type, out |-> t.a = from, trust |-> t.trust,
                 distance |-> look.hop]
           next == ReachedBy(acc, t, from, to, look.hop)
<1>1. /\ Len(ties) \in Nat /\ k \in Nat /\ 1 .. k = (1 .. k - 1) \union {k} /\ DOMAIN ties = 1 .. Len(ties)
      /\ t \in TieSet
  OBVIOUS
<1>2. /\ acc \in Passes /\ acc.new \in Seq(Reaches) /\ acc.seen \subseteq Nodes
      /\ acc.seen = look.seen \union Ids(acc.new) /\ Ids(acc.new) \cap look.seen = {}
      /\ Apart(acc.new)
      /\ \A d \in ToSet(acc.new) : d.distance = look.hop /\ \E i \in 1 .. k - 1 : LeadsTo(ties[i], d.id)
      /\ \A i \in 1 .. k - 1 : Admitted(ties[i]) =>
           /\ ties[i].a \in look.frontier => ties[i].b \in acc.seen
           /\ ties[i].b \in look.frontier => ties[i].a \in acc.seen
  BY DEF PassOver, Passes
<1>3. m \in Reaches /\ m.id = to /\ m.distance = look.hop
  BY <1>1 DEF Reaches
<1>4. next = [acc EXCEPT !.seen = @ \union {to}, !.new = Append(@, m)]
  BY Zenon DEF ReachedBy
<1>5. LeadsTo(t, to)
  BY DEF LeadsTo
<1> HIDE DEF m, next
<1> DEFINE new == Append(acc.new, m)
           l == Len(acc.new)
<1>6. /\ new \in Seq(Reaches) /\ l \in Nat /\ new[l + 1] = m /\ \A i \in 1 .. l : new[i] = acc.new[i]
      /\ DOMAIN acc.new = 1 .. l /\ DOMAIN new = 1 .. l + 1
      /\ ToSet(new) = ToSet(acc.new) \union {m}
  BY <1>2, <1>3, AppendHolds
<1>7. next.seen = acc.seen \union {to} /\ next.new = new /\ next \in Passes
  <2>1. next.seen = acc.seen \union {to} /\ next.new = new
    BY <1>2, <1>4 DEF Passes
  <2> HIDE DEF new
  <2>2. next = [seen |-> acc.seen \union {to}, new |-> new]
    BY <1>2, <1>4 DEF Passes, new
  <2> QED
    BY <1>2, <1>6, <2>1, <2>2 DEF Passes
<1> HIDE DEF new, l
<1>8. Ids(new) = Ids(acc.new) \union {to}
  BY <1>3, <1>6 DEF Ids
<1>9. next.seen = look.seen \union Ids(new) /\ Ids(new) \cap look.seen = {}
  BY <1>2, <1>7, <1>8
<1>10. Apart(new)
  <2>1. \A i \in 1 .. l : new[i].id # to
    <3>1. \A i \in 1 .. l : acc.new[i].id \in Ids(acc.new)
      BY <1>6 DEF Ids, ToSet
    <3> QED
      BY <1>2, <1>6, <3>1
  <2>2. \A i \in 1 .. l + 1 : i \in 1 .. l \/ i = l + 1
    BY <1>6
  <2>3. \A i, j \in 1 .. l : new[i].id = new[j].id => i = j
    BY <1>2, <1>6 DEF Apart
  <2> QED
    BY <1>3, <1>6, <2>1, <2>2, <2>3 DEF Apart
<1>11. \A d \in ToSet(new) : d.distance = look.hop /\ \E i \in 1 .. k : LeadsTo(ties[i], d.id)
  BY <1>1, <1>2, <1>3, <1>5, <1>6
<1>12. \A i \in 1 .. k : Admitted(ties[i]) =>
           /\ ties[i].a \in look.frontier => ties[i].b \in next.seen
           /\ ties[i].b \in look.frontier => ties[i].a \in next.seen
  <2>1. /\ t.a \in look.frontier => t.b \in next.seen
        /\ t.b \in look.frontier => t.a \in next.seen
    <3>1. t.a \in {from, to} /\ t.b \in {from, to} /\ from \in next.seen /\ to \in next.seen
      <4>1. from \in acc.seen
        BY <1>2
      <4> QED
        BY <1>7, <4>1
    <3> QED
      BY <3>1
  <2> QED
    BY <1>1, <1>2, <1>7, <2>1
<1> QED
  BY <1>7, <1>9, <1>10, <1>11, <1>12 DEF PassOver, next

\* What is admitted and reaches nothing new changes nothing.
LEMMA PassesOn ==
    ASSUME NEW ties \in Seq(TieSet), look.frontier \subseteq look.seen, look.hop \in Nat,
           look.seen \subseteq Nodes,
           NEW k \in 1 .. Len(ties), NEW acc \in PassOver(ties, k - 1)
    PROVE  PassNext(acc, ties[k]) \in PassOver(ties, k)
<1> DEFINE t == ties[k]
<1>1. /\ Len(ties) \in Nat /\ k \in Nat /\ 1 .. k = (1 .. k - 1) \union {k} /\ t \in TieSet
      /\ t.a \in Nodes /\ t.b \in Nodes
  BY RetrievalAssumption DEF TieSet
<1> HIDE DEF t
<1>2. ASSUME Admitted(t) => /\ t.a \in look.frontier => t.b \in acc.seen
                            /\ t.b \in look.frontier => t.a \in acc.seen
      PROVE  acc \in PassOver(ties, k)
  BY <1>1, <1>2 DEF PassOver, t
<1>3. CASE Admitted(t) /\ t.a \in look.frontier /\ t.b \notin acc.seen
  BY <1>1, <1>3, ReachesOn DEF PassNext, t
<1>4. CASE /\ Admitted(t) /\ t.b \in look.frontier /\ t.a \notin acc.seen
           /\ ~ (t.a \in look.frontier /\ t.b \notin acc.seen)
  <2>1. {t.b, t.a} = {t.a, t.b}
    OBVIOUS
  <2> QED
    BY <1>1, <1>4, <2>1, ReachesOn DEF PassNext, t
<1>5. CASE \/ ~ Admitted(t)
           \/ /\ ~ (t.a \in look.frontier /\ t.b \notin acc.seen)
              /\ ~ (t.b \in look.frontier /\ t.a \notin acc.seen)
  <2>1. acc \in PassOver(ties, k)
    BY <1>2, <1>5
  <2> QED
    BY <1>5, <2>1 DEF PassNext, t
<1> QED
  BY <1>3, <1>4, <1>5

\* What a pass over all ties of a hop has reached.
LEMMA CandidatesReach ==
    ASSUME NEW ties \in Seq(TieSet), look.frontier \subseteq look.seen, look.hop \in Nat,
           look.seen \subseteq Nodes
    PROVE  Candidates(ties) \in PassOver(ties, Len(ties))
<1> DEFINE n == Len(ties)
           A == Passes
           base == [seen |-> look.seen, new |-> <<>>]
           put(g, j) == PassNext(g, ties[j])
           G == [p \in A \X (1 .. n) |-> put(p[1], p[2])]
           K == [k \in 0 .. n |-> PassOver(ties, k)]
           Eq(f) == f = [t \in SUBSET DOMAIN ties |-> IF t = {} THEN base ELSE put(f[t \ {Max(t)}], Max(t))]
<1>0. n \in Nat /\ DOMAIN ties = 1 .. n /\ \A j \in 1 .. n : ties[j] \in TieSet
  OBVIOUS
<1>1. \A g \in A, j \in 1 .. n : put(g, j) \in A
  <2> SUFFICES ASSUME NEW g \in A, NEW j \in 1 .. n PROVE put(g, j) \in A
    OBVIOUS
  <2>1. ties[j] \in TieSet /\ ties[j].a \in Nodes /\ ties[j].b \in Nodes
    BY <1>0, RetrievalAssumption DEF TieSet
  <2>2. ASSUME NEW from \in Nodes, NEW to \in Nodes
        PROVE  ReachedBy(g, ties[j], from, to, look.hop) \in A
    <3> DEFINE m == [id |-> to, type |-> ties[j].type, out |-> ties[j].a = from,
                     trust |-> ties[j].trust, distance |-> look.hop]
    <3>1. m \in Reaches
      BY <2>1 DEF Reaches
    <3>2. ReachedBy(g, ties[j], from, to, look.hop)
            = [g EXCEPT !.seen = @ \union {to}, !.new = Append(@, m)]
      BY Zenon DEF ReachedBy
    <3> HIDE DEF m
    <3>3. Append(g.new, m) \in Seq(Reaches)
      BY <3>1 DEF Passes
    <3> QED
      BY <3>2, <3>3 DEF Passes
  <2> HIDE DEF A
  <2> QED
    BY <2>1, <2>2 DEF PassNext
<1>2. G \in [A \X (1 .. n) -> A] /\ \A g \in A, j \in 1 .. n : G[<<g, j>>] = put(g, j)
  <2> HIDE DEF put, A, n
  <2> QED
    BY <1>1
<1>3. base \in A
  BY DEF Passes
<1>4. K \in [0 .. n -> SUBSET A]
  BY DEF PassOver
<1>5. Carried(n, base, G, K)
  <2>1. base \in K[0]
    <3>1. 1 .. 0 = {} /\ ToSet(<<>>) = {} /\ DOMAIN <<>> = {} /\ 0 \in 0 .. n /\ Ids(<<>>) = {}
      BY <1>0 DEF ToSet, Ids
    <3>2. base.seen = look.seen /\ base.new = <<>>
      OBVIOUS
    <3> HIDE DEF base, n
    <3>3. base \in PassOver(ties, 0)
      BY <1>3, <3>1, <3>2 DEF PassOver, Apart
    <3> QED
      BY <3>1, <3>3
  <2>2. ASSUME NEW k \in 1 .. n, NEW g \in K[k - 1] PROVE G[<<g, k>>] \in K[k]
    <3>1. k - 1 \in 0 .. n /\ k \in 0 .. n
      BY <1>0
    <3>2. g \in PassOver(ties, k - 1) /\ K[k] = PassOver(ties, k)
      BY <3>1
    <3>3. g \in A
      BY <3>2 DEF PassOver
    <3>4. put(g, k) \in PassOver(ties, k)
      BY <3>2, PassesOn
    <3> HIDE DEF put, A, n, K, G
    <3> QED
      BY <1>2, <3>2, <3>3, <3>4
  <2> QED
    BY <2>1, <2>2 DEF Carried
<1> HIDE DEF put, G, K, n, base
<1>6. PICK f \in [SUBSET (1 .. n) -> A] : StepsOfFold(f, n, base, G)
  <2> HIDE DEF A
  <2> QED
    BY <1>0, <1>2, <1>3, FoldTable
<1>7. ASSUME NEW t \in SUBSET (1 .. n), t # {}
      PROVE  t \ {Max(t)} \in SUBSET (1 .. n) /\ Max(t) \in 1 .. n /\ f[t \ {Max(t)}] \in A
  BY <1>0, <1>7, MaxOfSome
<1>8. \A t \in SUBSET (1 .. n) : f[t] = IF t = {} THEN base ELSE put(f[t \ {Max(t)}], Max(t))
  <2> HIDE DEF A
  <2> QED
    BY <1>2, <1>6, <1>7 DEF StepsOfFold
<1>9. Eq(f)
  BY <1>0, <1>6, <1>8
<1> DEFINE h == CHOOSE x : Eq(x)
<1>10. Eq(h)
  <2> HIDE DEF Eq
  <2> QED
    BY <1>9
<1>11. Candidates(ties) = h[DOMAIN ties]
  BY Zenon DEF Candidates, FoldLeft, MapThenFoldSet, put, PassNext, Admitted, base
<1> HIDE DEF h
<1>12. h[{}] = base
  BY <1>0, <1>10
<1>13. ASSUME NEW t \in SUBSET (1 .. n), t # {}, h[t \ {Max(t)}] \in A
       PROVE  h[t] = G[<<h[t \ {Max(t)}], Max(t)>>]
  <2>1. h[t] = put(h[t \ {Max(t)}], Max(t))
    BY <1>0, <1>10, <1>13
  <2> HIDE DEF A
  <2> QED
    BY <1>2, <1>7, <1>13, <2>1
<1> HIDE DEF Eq
<1>14. h[1 .. n] \in K[n]
  <2>1. TypedSteps(h, n, A, base, G)
    BY <1>12, <1>13 DEF TypedSteps
  <2> HIDE DEF A
  <2> QED
    BY <1>0, <1>2, <1>3, <1>4, <1>5, <2>1, FoldReaches
<1> QED
  BY <1>0, <1>11, <1>14 DEF K, n

\* The ties of a hop: those of the version that touch the frontier, of the types asked for.
Touching == {i \in TieIds : /\ OfVersion(Ties[i].born, cut[i], look.version)
                            /\ Ties[i].a \in look.frontier \/ Ties[i].b \in look.frontier
                            /\ look.ask.types = {} \/ Ties[i].type \in look.ask.types}

\* The query lists them all.
LEMMA TouchingFits ==
    LET ties == TiesTouching(look.frontier, look.ask.types, look.version)
    IN  /\ ties \in Seq(TieSet)
        /\ \A k \in 1 .. Len(ties) : \E i \in Touching : ties[k] = Ties[i]
        /\ \A i \in Touching : \E k \in 1 .. Len(ties) : ties[k] = Ties[i]
<1> DEFINE ties == Picked(Ties, Touching)
           n == Cardinality(Touching)
<1>1. TiesTouching(look.frontier, look.ask.types, look.version) = ties
  BY Zenon DEF TiesTouching, Touching
<1>2. Ties \in Seq(TieSet) /\ TieIds = 1 .. Len(Ties) /\ Len(Ties) \in Nat
  BY RetrievalAssumption DEF TieSet, TieIds
<1>3. Touching \in SUBSET (1 .. Len(Ties)) /\ IsFiniteSet(Touching) /\ \A i \in Touching : i \in Int
  <2>1. Touching \in SUBSET (1 .. Len(Ties))
    BY <1>2 DEF Touching
  <2>2. IsFiniteSet(1 .. Len(Ties))
    BY <1>2, FS_Interval, 1 \in Int
  <2>3. IsFiniteSet(Touching)
    BY <2>1, <2>2, FS_Subset
  <2>4. \A i \in Touching : i \in Int
    BY <2>1
  <2> QED
    BY <2>1, <2>3, <2>4
<1>4. /\ n \in Nat /\ DOMAIN ties = 1 .. n
      /\ \A k \in 1 .. n : KthOf(Touching, k) \in Touching /\ ties[k] = Ties[KthOf(Touching, k)]
      /\ \A i \in Touching : \E k \in 1 .. n : KthOf(Touching, k) = i
  BY <1>3, PickedFits
<1>5. ties = [k \in 1 .. n |-> ties[k]]
  BY Zenon DEF Picked
<1> HIDE DEF ties, n
<1>6. \A k \in 1 .. n : ties[k] \in TieSet
  <2>1. \A i \in 1 .. Len(Ties) : Ties[i] \in TieSet
    BY <1>2
  <2>2. \A i \in Touching : Ties[i] \in TieSet
    BY <1>3, <2>1
  <2> QED
    BY <1>4, <2>2
<1>7. ties \in Seq(TieSet) /\ Len(ties) = n
  BY <1>4, <1>5, <1>6
<1>8. /\ \A k \in 1 .. Len(ties) : \E i \in Touching : ties[k] = Ties[i]
      /\ \A i \in Touching : \E k \in 1 .. Len(ties) : ties[k] = Ties[i]
  BY <1>4, <1>7
<1> QED
  BY <1>1, <1>7, <1>8

------------------------------------------------------------------------------
(* What the calls of Retrieval hold. *)

\* The kinds of sources, which have weights.
Kinds == {"code", "adr", "card", "pr", "doc", "other"}

\* A card, and what is kept of a row.
Cards == [id : Nodes, kind : Kinds, state : {"superseded", "current"}, stale : BOOLEAN, relevance : Int]
RowSets == UNION {[D -> [closed : Int, gone : BOOLEAN]] : D \in SUBSET Nodes}

\* Where a call is.
CardSteps == {"hydrate", "symbols", "weigh", "rank", "collapse", "cap", "cards"}
GraphSteps == {"root", "edges", "filter", "neighbours"}

\* The states of a call.
Looks ==
    [pc : {"idle", "failed"} \union CardSteps \union GraphSteps, version : Nat,
     ask : {NoAsk} \union CardAsks \union GraphAsks, hits : SUBSET Nodes, rows : RowSets,
     symbols : SUBSET {Node[r].title : r \in Nodes}, cards : SUBSET Cards, ranked : Seq(Cards),
     seen : SUBSET Nodes, hop : Nat, frontier : SUBSET Nodes, new : Seq(Reaches), found : Seq(Reaches)]

\* Types of the two reads; a call reads a version that was served when it began.
LookTypes ==
    /\ servedSeq \in Nat /\ built \in Nat /\ servedSeq <= MaxServed + 1 /\ built <= MaxServed + 1
    /\ until \in [Nodes -> Int] /\ cut \in [TieIds -> Int]
    /\ look \in Looks /\ look.version <= servedSeq
    /\ look.pc \in CardSteps => look.ask \in CardAsks /\ look.hits = DOMAIN look.ask.hits
    /\ look.pc \in {"symbols", "weigh"} => DOMAIN look.rows \subseteq look.hits
    /\ look.pc \in GraphSteps => look.ask \in GraphAsks
    /\ look.pc \in {"edges", "filter"} => look.frontier \subseteq look.seen

\* The weight of a source is a number.
LEMMA WeightIsANumber ==
    ASSUME NEW kind \in Kinds, NEW state, NEW stale \in BOOLEAN, NEW intent,
           intent \in {NoIntent} \union DOMAIN KindWeight
    PROVE  Weight(kind, state, stale, intent) \in Int
<1>1. \A i \in DOMAIN KindWeight : KindWeight[i][kind] \in Int
  BY DEF KindWeight, Weights, Kinds
<1> DEFINE w == IF intent = NoIntent THEN 10 ELSE KindWeight[intent][kind]
           p == IF state = "superseded" THEN 6 ELSE 10
           q == IF stale THEN 25 ELSE 100
<1>2. w \in Int /\ p \in Int /\ q \in Int
  BY <1>1
<1>3. Weight(kind, state, stale, intent) = w * p * q
  BY Zenon DEF Weight
<1> HIDE DEF w, p, q
<1> QED
  BY <1>2, <1>3

\* A card of a row that was read is a card.
LEMMA CardTypes ==
    ASSUME LookTypes, look.pc = "weigh", NEW r \in DOMAIN look.rows
    PROVE  /\ Card(r, look.ask.hits, look.ask.intent) \in Cards
           /\ Card(r, look.ask.hits, look.ask.intent).id = r
<1> DEFINE kind == SourceKind(Node[r].type, Node[r].source)
           state == State(look.rows[r])
           stale == IsStale(r, kind, look.ask.intent, look.symbols)
           w == Weight(kind, state, stale, look.ask.intent)
           v == look.ask.hits[r] * w * (100 + 25 * Node[r].centrality)
<1>1. look.ask \in CardAsks /\ r \in Nodes /\ look.ask.hits[r] \in Int /\ Node[r].centrality \in Int
      /\ look.ask.intent \in {NoIntent} \union DOMAIN KindWeight
  BY RetrievalAssumption DEF LookTypes, Looks, CardSteps
<1>2. kind \in Kinds
  BY DEF SourceKind, Kinds
<1>3. state \in {"superseded", "current"} /\ stale \in BOOLEAN
  BY DEF State, IsStale
<1> HIDE DEF kind, state, stale
<1>4. w \in Int
  BY <1>1, <1>2, <1>3, WeightIsANumber
<1> HIDE DEF w
<1>5. v \in Int
  BY <1>1, <1>4
<1> HIDE DEF v
<1>6. Card(r, look.ask.hits, look.ask.intent)
        = [id |-> r, kind |-> kind, state |-> state, stale |-> stale, relevance |-> v]
  BY Zenon DEF Card, kind, state, stale, w, v
<1> QED
  BY <1>1, <1>2, <1>3, <1>5, <1>6 DEF Cards

\* The cap on cards keeps the first of them.
LEMMA CappedFits ==
    ASSUME NEW A, NEW s \in Seq(A)
    PROVE  \E m \in 0 .. Len(s) : /\ Capped(s) = SubSeq(s, 1, m)
                                  /\ m <= TopCards /\ (m < Len(s) => m = TopCards)
<1>1. Len(s) \in Nat /\ TopCards \in Nat
  BY RetrievalAssumption
<1> QED
  BY <1>1 DEF Capped

\* The candidates of a hop that may be read, and the room there is for them.
Allowed == AclFiltered(MemberRows({n.id : n \in ToSet(look.new)}, look.version))
KeptPlaces == {i \in DOMAIN look.new : look.new[i].id \in Allowed}
Kept == Picked(look.new, KeptPlaces)
Taken ==
    LET room == NeighbourCap - Len(look.found)
    IN  SubSeq(Kept, 1, IF Len(Kept) < room THEN Len(Kept) ELSE room)

\* What is kept of a hop is reached, each once.
LEMMA KeptFits ==
    ASSUME LookTypes
    PROVE  /\ Kept \in Seq(Reaches) /\ DOMAIN Kept = 1 .. Len(Kept) /\ Len(Kept) \in Nat
           /\ \A k \in 1 .. Len(Kept) : \E i \in KeptPlaces : Kept[k] = look.new[i]
           /\ \A i \in KeptPlaces : \E k \in 1 .. Len(Kept) : Kept[k] = look.new[i]
           /\ Apart(look.new) => Apart(Kept)
<1> DEFINE n == Cardinality(KeptPlaces)
           at(k) == KthOf(KeptPlaces, k)
<1>1. look.new \in Seq(Reaches) /\ DOMAIN look.new = 1 .. Len(look.new) /\ Len(look.new) \in Nat
  BY DEF LookTypes, Looks
<1>2. KeptPlaces \in SUBSET (1 .. Len(look.new))
  BY <1>1 DEF KeptPlaces
<1>3. IsFiniteSet(KeptPlaces)
  <2>1. IsFiniteSet(1 .. Len(look.new))
    BY <1>1, FS_Interval, 1 \in Int
  <2> QED
    BY <1>2, <2>1, FS_Subset
<1>4. \A i \in KeptPlaces : i \in Int
  BY <1>2
<1>5. /\ n \in Nat /\ DOMAIN Kept = 1 .. n
      /\ \A k \in 1 .. n : at(k) \in KeptPlaces /\ Kept[k] = look.new[at(k)]
      /\ \A k, k2 \in 1 .. n : at(k) = at(k2) => k = k2
      /\ \A i \in KeptPlaces : \E k \in 1 .. n : at(k) = i
  BY <1>3, <1>4, PickedFits DEF Kept
<1>6. Kept = [k \in 1 .. n |-> Kept[k]]
  BY Zenon DEF Kept, Picked
<1> HIDE DEF n, at
<1>7. \A i \in KeptPlaces : look.new[i] \in Reaches
  <2>1. \A i \in 1 .. Len(look.new) : look.new[i] \in Reaches
    BY <1>1
  <2> QED
    BY <1>2, <2>1
<1>8. Kept \in Seq(Reaches) /\ Len(Kept) = n
  BY <1>5, <1>6, <1>7
<1>9. Apart(look.new) => Apart(Kept)
  <2> SUFFICES ASSUME Apart(look.new), NEW k \in 1 .. n, NEW k2 \in 1 .. n, Kept[k].id = Kept[k2].id
               PROVE  k = k2
    BY <1>5 DEF Apart
  <2>1. at(k) \in DOMAIN look.new /\ at(k2) \in DOMAIN look.new
    BY <1>1, <1>2, <1>5
  <2>2. look.new[at(k)].id = look.new[at(k2)].id
    BY <1>5
  <2>3. at(k) = at(k2)
    BY <2>1, <2>2 DEF Apart
  <2> QED
    BY <1>5, <2>3
<1> QED
  BY <1>5, <1>8, <1>9

\* ... as far as there is room.
LEMMA TakenFits ==
    ASSUME LookTypes, Len(look.found) < NeighbourCap
    PROVE  \E m \in 0 .. Len(Kept) :
             /\ Taken = SubSeq(Kept, 1, m) /\ Len(look.found) + m <= NeighbourCap
             /\ m < Len(Kept) => Len(look.found) + m = NeighbourCap
<1>1. Len(Kept) \in Nat /\ NeighbourCap \in Nat /\ Len(look.found) \in Nat
  <2>1. look.found \in Seq(Reaches)
    BY DEF LookTypes, Looks
  <2> QED
    BY <2>1, KeptFits, RetrievalAssumption
<1> QED
  BY <1>1 DEF Taken

\* The cards of a call are one of each of its rows.
OneEach(cards) == \A c, d \in cards : c.id = d.id => c = d

\* The reads that a hit can come from.
LEMMA HitsAreFinite == ASSUME LookTypes PROVE IsFiniteSet(look.hits) /\ look.hits \subseteq Nodes
<1>1. IsFiniteSet(Nodes) /\ look.hits \in SUBSET Nodes
  BY RetrievalAssumption DEF LookTypes, Looks
<1> QED
  BY <1>1, FS_Subset

\* A card stands for its row: as many cards as hits.
LEMMA CardsAreFinite ==
    ASSUME LookTypes, OneEach(look.cards), \A c \in look.cards : c.id \in look.hits
    PROVE  Rankable(look.cards)
<1> DEFINE f == [c \in look.cards |-> c.id]
<1>1. f \in Injection(look.cards, look.hits)
  BY DEF Injection, IsInjective, OneEach
<1>2. IsFiniteSet(look.cards)
  <2> HIDE DEF f
  <2> QED
    BY <1>1, HitsAreFinite, FS_Injection
<1>3. \A c \in look.cards : c.id \in Nodes /\ c.relevance \in Int
  BY DEF LookTypes, Looks, Cards
<1> QED
  BY <1>2, <1>3 DEF Rankable, OneEach

\* A call that keeps its version, under a builder that does not go back, keeps the types.
LEMMA CallTypes ==
    ASSUME LookTypes, UNCHANGED <<servedSeq, built, until, cut>>, look' \in Looks,
           look'.version <= servedSeq,
           look'.pc \in CardSteps => look'.ask \in CardAsks /\ look'.hits = DOMAIN look'.ask.hits,
           look'.pc \in {"symbols", "weigh"} => DOMAIN look'.rows \subseteq look'.hits,
           look'.pc \in GraphSteps => look'.ask \in GraphAsks,
           look'.pc \in {"edges", "filter"} => look'.frontier \subseteq look'.seen
    PROVE  LookTypes'
  BY DEF LookTypes, Looks, CardSteps, GraphSteps, TieIds

\* Every step of the builder keeps the types.
LEMMA BuilderTypes == LookTypes /\ (Finalize \/ Activates) => LookTypes'
<1> SUFFICES ASSUME LookTypes, Finalize \/ Activates PROVE LookTypes'
  OBVIOUS
<1>0. MaxServed \in Nat
  BY RetrievalAssumption
<1>1. CASE Finalize
  <2>1. servedSeq + 1 \in Int /\ built' = servedSeq + 1 /\ servedSeq < MaxServed
        /\ UNCHANGED <<servedSeq, look, lookRows>>
    BY <1>1 DEF Finalize, LookTypes
  <2>2. PICK b \in Builds :
          /\ until' = [r \in Nodes |-> IF r \in b.rows /\ LiveNow(Node[r].born, until[r])
                                       THEN servedSeq + 1 ELSE until[r]]
          /\ cut' = [i \in TieIds |-> IF i \in b.ties /\ LiveNow(Ties[i].born, cut[i])
                                      THEN servedSeq + 1 ELSE cut[i]]
    BY <1>1 DEF Finalize
  <2>3. until' \in [Nodes -> Int] /\ cut' \in [TieIds -> Int]
    BY <2>1, <2>2 DEF LookTypes
  <2> QED
    BY <1>0, <2>1, <2>3 DEF LookTypes
<1>2. CASE Activates
  <2>1. UNCHANGED <<built, until, cut, look>> /\ servedSeq' = built /\ built > servedSeq
    BY <1>2 DEF Activates
  <2>2. look'.version <= servedSeq'
    <3>1. look.version \in Nat
      BY DEF LookTypes, Looks
    <3> QED
      BY <2>1, <3>1 DEF LookTypes
  <2> QED
    BY <2>1, <2>2 DEF LookTypes
<1> QED
  BY <1>1, <1>2

\* Every step of a ranked read keeps the types.
LEMMA CardStepTypes ==
    ASSUME LookTypes, look.pc \in {"rank", "collapse", "cap"} =>
                        OneEach(look.cards) /\ \A c \in look.cards : c.id \in look.hits,
           look.pc = "collapse" => ToSet(look.ranked) = look.cards /\ Ordered(look.ranked),
           Hydrate \/ FetchSymbols \/ Weigh \/ Rank \/ Collapse \/ Cap
    PROVE  LookTypes'
<1> USE DEF Goes
<1>0. look \in Looks /\ look.version <= servedSeq
  BY DEF LookTypes
<1>1. CASE Hydrate
  <2> DEFINE members == MemberRows(look.hits, look.version)
             kept == [r \in members |-> [closed |-> until[r], gone |-> r \in gone]]
             pc == IF look.ask.intent = NoIntent THEN "weigh" ELSE "symbols"
  <2>1. look.pc = "hydrate" /\ look' = [look EXCEPT !.pc = pc, !.rows = kept]
        /\ UNCHANGED <<servedSeq, built, until, cut>>
    BY <1>1 DEF Hydrate
  <2>2. members \subseteq look.hits /\ members \subseteq Nodes
    BY <1>0 DEF MemberRows, Looks
  <2> HIDE DEF members
  <2>3. kept \in RowSets /\ DOMAIN kept = members
    <3>1. kept \in [members -> [closed : Int, gone : BOOLEAN]] /\ members \in SUBSET Nodes
      BY <2>2 DEF LookTypes
    <3> HIDE DEF kept
    <3> QED
      BY <3>1 DEF RowSets
  <2> HIDE DEF kept
  <2>4. look' \in Looks /\ look'.pc \in {"weigh", "symbols"} /\ look'.rows = kept
        /\ look'.hits = look.hits /\ look'.ask = look.ask /\ look'.version = look.version
    BY <1>0, <2>1, <2>3 DEF Looks, CardSteps
  <2> QED
    BY <1>0, <2>1, <2>2, <2>3, <2>4, CallTypes DEF LookTypes, CardSteps, GraphSteps
<1>2. CASE FetchSymbols
  <2>1. CurrentSymbols \in SUBSET {Node[r].title : r \in Nodes}
    BY DEF CurrentSymbols, MemberRows
  <2>2. look.pc = "symbols" /\ look' = [look EXCEPT !.pc = "weigh", !.symbols = CurrentSymbols]
        /\ UNCHANGED <<servedSeq, built, until, cut>>
    BY <1>2 DEF FetchSymbols
  <2>3. look' \in Looks /\ look'.pc = "weigh" /\ look'.rows = look.rows
        /\ look'.hits = look.hits /\ look'.ask = look.ask /\ look'.version = look.version
    BY <1>0, <2>1, <2>2 DEF Looks, CardSteps
  <2> QED
    BY <1>0, <2>2, <2>3, CallTypes DEF LookTypes, CardSteps, GraphSteps
<1>3. CASE Weigh
  <2> DEFINE cards == {Card(r, look.ask.hits, look.ask.intent) : r \in Readable(DOMAIN look.rows)}
  <2>1. look.pc = "weigh" /\ look' = [look EXCEPT !.pc = "rank", !.cards = cards]
        /\ UNCHANGED <<servedSeq, built, until, cut>>
    BY <1>3 DEF Weigh
  <2>2. \A r \in Readable(DOMAIN look.rows) : Card(r, look.ask.hits, look.ask.intent) \in Cards
    BY <2>1, CardTypes DEF Readable
  <2>3. cards \in SUBSET Cards
    BY <2>2
  <2> HIDE DEF cards
  <2>4. look' \in Looks /\ look'.pc = "rank"
        /\ look'.hits = look.hits /\ look'.ask = look.ask /\ look'.version = look.version
    BY <1>0, <2>1, <2>3 DEF Looks, CardSteps
  <2> QED
    BY <1>0, <2>1, <2>4, CallTypes DEF LookTypes, CardSteps, GraphSteps
<1>4. ASSUME NEW ranked \in Seq(Cards), NEW pc \in {"collapse", "cap", "cards"}, look.pc \in CardSteps,
             look' = [look EXCEPT !.pc = pc, !.ranked = ranked], UNCHANGED <<servedSeq, built, until, cut>>
      PROVE  LookTypes'
  <2>1. look' \in Looks /\ look'.pc = pc
        /\ look'.hits = look.hits /\ look'.ask = look.ask /\ look'.version = look.version
    BY <1>0, <1>4 DEF Looks, CardSteps
  <2> QED
    BY <1>0, <1>4, <2>1, CallTypes DEF LookTypes, CardSteps, GraphSteps
<1>5. look.cards \subseteq Cards /\ look.ranked \in Seq(Cards)
  BY <1>0 DEF Looks
<1>6. CASE Rank
  <2>1. look.pc = "rank" /\ look' = [look EXCEPT !.pc = "collapse", !.ranked = InRankOrder(look.cards)]
        /\ UNCHANGED <<servedSeq, built, until, cut>>
    BY <1>6 DEF Rank
  <2>2. InRankOrder(look.cards) \in Seq(look.cards)
    BY <2>1, CardsAreFinite, RankingLists
  <2>3. InRankOrder(look.cards) \in Seq(Cards)
    BY <1>5, <2>2
  <2> QED
    BY <1>4, <2>1, <2>3 DEF CardSteps
<1>7. CASE Collapse
  <2>1. look.pc = "collapse" /\ look' = [look EXCEPT !.pc = "cap", !.ranked = Collapsed(look.ranked)]
        /\ UNCHANGED <<servedSeq, built, until, cut>>
    BY <1>0, <1>7 DEF Collapse, Looks
  <2>2. look.ranked \in Seq(look.cards)
    <3>1. \A i \in DOMAIN look.ranked : look.ranked[i] \in look.cards
      BY <2>1 DEF ToSet
    <3> QED
      BY <1>5, <3>1
  <2>3. Rankable(look.cards)
    BY <2>1, CardsAreFinite
  <2>4. Collapsed(look.ranked) \in Seq(look.cards)
    BY <2>1, <2>2, <2>3, CollapsedKeeps
  <2>5. Collapsed(look.ranked) \in Seq(Cards)
    BY <1>5, <2>4
  <2> QED
    BY <1>4, <2>1, <2>5 DEF CardSteps
<1>8. CASE Cap
  <2>1. look.pc = "cap" /\ look' = [look EXCEPT !.pc = "cards", !.ranked = Capped(look.ranked)]
        /\ UNCHANGED <<servedSeq, built, until, cut>>
    BY <1>0, <1>8 DEF Cap, Looks
  <2>2. Capped(look.ranked) \in Seq(Cards)
    BY <1>5, CappedFits, PrefixFits
  <2> QED
    BY <1>4, <2>1, <2>2 DEF CardSteps
<1> QED
  BY <1>1, <1>2, <1>3, <1>6, <1>7, <1>8

\* Every step that begins a call or belongs to a walk keeps the types.
LEMMA WalkTypes ==
    ASSUME LookTypes, look.pc = "filter" => Len(look.found) < NeighbourCap
                      /\ \A n \in ToSet(look.new) : n.id \in look.seen,
           Pin \/ ReadRoot \/ FollowEdges \/ FilterHop \/ LogNeighbours
    PROVE  LookTypes'
<1> USE DEF Goes
<1>0. look \in Looks /\ look.version <= servedSeq /\ servedSeq \in Nat
  BY DEF LookTypes
<1>1. CASE Pin
  <2>1. ASSUME NEW ask \in CardAsks, look.pc = "idle",
               look' = [look EXCEPT !.pc = IF servedSeq = 0 THEN "failed" ELSE "hydrate",
                                    !.version = servedSeq, !.ask = ask, !.hits = DOMAIN ask.hits],
               UNCHANGED <<servedSeq, built, until, cut>>
        PROVE  LookTypes'
    <3>1. DOMAIN ask.hits \subseteq Nodes
      BY RetrievalAssumption
    <3>2. look' \in Looks /\ look'.pc \in {"failed", "hydrate"} /\ look'.ask = ask
          /\ look'.hits = DOMAIN ask.hits /\ look'.version = servedSeq
      BY <1>0, <2>1, <3>1 DEF Looks, CardSteps
    <3> QED
      BY <1>0, <2>1, <3>2, CallTypes DEF CardSteps, GraphSteps
  <2>2. ASSUME NEW ask \in GraphAsks, look.pc = "idle",
               look' = [look EXCEPT !.pc = IF servedSeq = 0 THEN "failed" ELSE "root",
                                    !.version = servedSeq, !.ask = ask],
               UNCHANGED <<servedSeq, built, until, cut>>
        PROVE  LookTypes'
    <3>2. look' \in Looks /\ look'.pc \in {"failed", "root"} /\ look'.ask = ask
          /\ look'.version = servedSeq
      BY <1>0, <2>2 DEF Looks, GraphSteps
    <3> QED
      BY <1>0, <2>2, <3>2, CallTypes DEF CardSteps, GraphSteps
  <2> QED
    BY <1>1, <2>1, <2>2 DEF Pin
<1>2. CASE ReadRoot
  <2> DEFINE frontier == Readable(MemberRows({look.ask.root}, look.version))
  <2>1. look.pc = "root" /\ UNCHANGED <<servedSeq, built, until, cut>>
        /\ look' = [look EXCEPT !.pc = "edges", !.seen = {look.ask.root}, !.hop = 1, !.frontier = frontier]
    BY <1>2 DEF ReadRoot
  <2>2. look.ask.root \in Nodes /\ look.ask \in GraphAsks
    BY <2>1, RetrievalAssumption DEF LookTypes, GraphSteps
  <2>3. frontier \subseteq {look.ask.root}
    BY DEF Readable, MemberRows
  <2> HIDE DEF frontier
  <2>4. look' \in Looks /\ look'.pc = "edges" /\ look'.ask = look.ask /\ look'.version = look.version
        /\ look'.seen = {look.ask.root} /\ look'.frontier = frontier
    BY <1>0, <2>1, <2>2, <2>3 DEF Looks, GraphSteps
  <2> QED
    BY <1>0, <2>1, <2>2, <2>3, <2>4, CallTypes DEF CardSteps, GraphSteps
<1>3. CASE FollowEdges
  <2> DEFINE ties == TiesTouching(look.frontier, look.ask.types, look.version)
             c == Candidates(ties)
  <2>1. look.pc = "edges" /\ UNCHANGED <<servedSeq, built, until, cut>>
        /\ look' = [look EXCEPT !.pc = "filter", !.seen = c.seen, !.new = c.new]
    BY <1>3 DEF FollowEdges
  <2>2. look.frontier \subseteq look.seen /\ look.hop \in Nat /\ look.seen \subseteq Nodes
    BY <2>1 DEF LookTypes, Looks
  <2>3. ties \in Seq(TieSet)
    BY TouchingFits
  <2> HIDE DEF ties
  <2>4. c \in Passes /\ look.seen \subseteq c.seen
    BY <2>2, <2>3, CandidatesReach DEF PassOver
  <2> HIDE DEF c
  <2>5. look' \in Looks /\ look'.pc = "filter" /\ look'.ask = look.ask /\ look'.version = look.version
        /\ look'.seen = c.seen /\ look'.frontier = look.frontier
    BY <1>0, <2>1, <2>4 DEF Looks, GraphSteps, Passes
  <2> QED
    BY <1>0, <2>1, <2>2, <2>4, <2>5, CallTypes DEF LookTypes, CardSteps, GraphSteps
<1>4. CASE FilterHop
  <2> DEFINE frontier == {n.id : n \in ToSet(Taken)}
  <2>1. look.pc = "filter" /\ UNCHANGED <<servedSeq, built, until, cut>>
        /\ look' = [look EXCEPT !.pc = "edges", !.hop = @ + 1, !.found = @ \o Taken, !.frontier = frontier]
    BY <1>4, Zenon DEF FilterHop, Taken, Kept, KeptPlaces, Allowed
  <2>2. Taken \in Seq(Reaches) /\ \A n \in ToSet(Taken) : n \in ToSet(look.new)
    <3>1. PICK m \in 0 .. Len(Kept) : Taken = SubSeq(Kept, 1, m)
      BY <2>1, TakenFits
    <3>2. /\ SubSeq(Kept, 1, m) \in Seq(Reaches) /\ DOMAIN SubSeq(Kept, 1, m) = 1 .. m
          /\ \A i \in 1 .. m : SubSeq(Kept, 1, m)[i] = Kept[i] /\ i \in DOMAIN Kept
      BY KeptFits, PrefixFits
    <3>3. \A k \in DOMAIN Kept : Kept[k] \in ToSet(look.new)
      BY KeptFits DEF KeptPlaces, ToSet
    <3> QED
      BY <3>1, <3>2, <3>3 DEF ToSet
  <2>3. frontier \subseteq look.seen /\ look.seen \subseteq Nodes
    BY <1>0, <2>1, <2>2 DEF Looks
  <2> HIDE DEF frontier
  <2>4. look.found \o Taken \in Seq(Reaches) /\ look.hop + 1 \in Nat
    BY <1>0, <2>2 DEF Looks
  <2>5. look' \in Looks /\ look'.pc = "edges" /\ look'.ask = look.ask /\ look'.version = look.version
        /\ look'.seen = look.seen /\ look'.frontier = frontier
    BY <1>0, <2>1, <2>3, <2>4 DEF Looks, GraphSteps
  <2> QED
    BY <1>0, <2>1, <2>3, <2>5, CallTypes DEF LookTypes, CardSteps, GraphSteps
<1>5. CASE LogNeighbours
  <2>1. look.pc = "edges" /\ look' = [look EXCEPT !.pc = "neighbours"]
        /\ UNCHANGED <<servedSeq, built, until, cut>>
    BY <1>5 DEF LogNeighbours
  <2>2. look' \in Looks /\ look'.pc = "neighbours" /\ look'.ask = look.ask /\ look'.version = look.version
    BY <1>0, <2>1 DEF Looks, GraphSteps
  <2> QED
    BY <1>0, <2>1, <2>2, CallTypes DEF LookTypes, CardSteps, GraphSteps
<1> QED
  BY <1>1, <1>2, <1>3, <1>4, <1>5

------------------------------------------------------------------------------
(* What commits leave of a version, and the cards. *)

\* What belongs to the version of the call, of rows and of ties.
RowServed(r) == look.version < until[r]
TieServed(i) == look.version < cut[i]

\* While a call keeps its version no commit of the builder changes what belongs to it: a finalize
\* closes what is open, and from the next version on.
LEMMA MembersStay ==
    ASSUME LookTypes, [LookNext]_lookVars, look'.version = look.version
    PROVE  /\ \A r \in Nodes : RowServed(r)' <=> RowServed(r)
           /\ \A i \in TieIds : TieServed(i)' <=> TieServed(i)
<1>1. /\ MaxServed \in Nat /\ servedSeq \in Nat /\ servedSeq <= MaxServed + 1
      /\ look.version \in Nat /\ look.version <= servedSeq
  BY RetrievalAssumption DEF LookTypes, Looks
<1>2. CASE Finalize
  <2>1. PICK b \in Builds :
          /\ until' = [r \in Nodes |-> IF r \in b.rows /\ LiveNow(Node[r].born, until[r])
                                       THEN servedSeq + 1 ELSE until[r]]
          /\ cut' = [i \in TieIds |-> IF i \in b.ties /\ LiveNow(Ties[i].born, cut[i])
                                      THEN servedSeq + 1 ELSE cut[i]]
    BY <1>2 DEF Finalize
  <2>2. ASSUME NEW closed, NEW born, LiveNow(born, closed)
        PROVE  look.version < closed /\ look.version < servedSeq + 1
    BY <1>1, <2>2 DEF LiveNow, Open
  <2>3. \A r \in Nodes : RowServed(r)' <=> RowServed(r)
    BY <2>1, <2>2 DEF RowServed
  <2>4. \A i \in TieIds : TieServed(i)' <=> TieServed(i)
    BY <2>1, <2>2 DEF TieServed
  <2> QED
    BY <2>3, <2>4
<1>3. CASE UNCHANGED <<until, cut>>
  BY <1>3 DEF RowServed, TieServed
<1> QED
  BY <1>2, <1>3 DEF LookNext, lookVars, Activates, Pin, Hydrate, FetchSymbols, Weigh, Rank, Collapse,
     Cap, ReadRoot, FollowEdges, FilterHop, LogNeighbours, Goes

\* The artifacts that an answer may hold.
Answerable == {r \in Nodes : InAnswer(r)}

\* ... stay the same.
LEMMA AnswerableStays ==
    ASSUME LookTypes, [LookNext]_lookVars, look'.version = look.version
    PROVE  Answerable' = Answerable /\ \A r \in Nodes : InAnswer(r)' <=> InAnswer(r)
<1>1. \A r \in Nodes : InAnswer(r)' <=> InAnswer(r)
  BY MembersStay DEF InAnswer, RowServed
<1> QED
  BY <1>1 DEF Answerable

\* One card of each hit that belongs to the version and may be read.
CardsOfHits == OneEach(look.cards) /\ {c.id : c \in look.cards} = {r \in look.hits : InAnswer(r)}

\* A ranked read, statement by statement: it weighs every hit that belongs to the version and may be
\* read, lists them best first, and drops one only for a better one like it, or for want of places.
CardsFollow ==
    /\ look.pc \in {"symbols", "weigh"} => DOMAIN look.rows = MemberRows(look.hits, look.version)
    /\ look.pc \in {"rank", "collapse", "cap", "cards"} => CardsOfHits
    /\ look.pc = "collapse" => ToSet(look.ranked) = look.cards /\ Ordered(look.ranked)
    /\ look.pc = "cap" => /\ look.ranked \in Seq(look.cards)
                          /\ Ordered(look.ranked) /\ Unalike(look.ranked)
                          /\ \A c \in look.cards : KeptOrBeaten(c, look.ranked)
    /\ CardsAreTheBest

\* What a ranked read has is what it had, while the builder commits.
LEMMA CardsWait ==
    ASSUME LookTypes, CardsFollow, [LookNext]_lookVars, look' = look
    PROVE  CardsFollow'
<1>1. look'.version = look.version
  OBVIOUS
<1>2. look.hits \subseteq Nodes /\ look'.hits = look.hits
  BY DEF LookTypes, Looks
<1>3. \A r \in look.hits : (RowServed(r)' <=> RowServed(r)) /\ (InAnswer(r)' <=> InAnswer(r))
  BY <1>1, <1>2, MembersStay, AnswerableStays
<1>4. MemberRows(look.hits, look.version)' = MemberRows(look.hits, look.version)
  BY <1>2, <1>3 DEF MemberRows, OfVersion, RowServed
<1>5. {r \in look.hits : InAnswer(r)}' = {r \in look.hits : InAnswer(r)}
  BY <1>2, <1>3
<1>6. CardsAreTheBest'
  <2> SUFFICES ASSUME look.pc = "cards" PROVE CardsAreTheBest'
    BY DEF CardsAreTheBest
  <2> DEFINE ranked == look.ranked
             weighed == {c \in look.cards : c.id \in look.hits}
  <2>1. /\ Len(ranked) <= TopCards
        /\ \A c \in ToSet(ranked) : InAnswer(c.id) /\ c.id \in look.hits
        /\ \A i \in DOMAIN ranked, j \in DOMAIN ranked :
             i < j => Better(ranked[i], ranked[j]) /\ ranked[i].id \notin Node[ranked[j].id].alike
        /\ {c.id : c \in weighed} = {r \in look.hits : InAnswer(r)}
        /\ \A m \in weighed \ ToSet(ranked) :
             \/ \E c \in ToSet(ranked) : Better(c, m) /\ c.id \in Node[m.id].alike
             \/ Len(ranked) = TopCards /\ \A c \in ToSet(ranked) : Better(c, m)
    BY DEF CardsFollow, CardsAreTheBest
  <2> HIDE DEF ranked
  <2>2. \A c \in ToSet(ranked) : InAnswer(c.id)'
    BY <1>3, <2>1
  <2>3. ranked' = ranked /\ weighed' = weighed /\ look'.hits = look.hits
    BY DEF ranked
  <2> HIDE DEF weighed
  <2>4. /\ Len(ranked) <= TopCards
        /\ \A c \in ToSet(ranked) : InAnswer(c.id)' /\ c.id \in look'.hits
        /\ \A i \in DOMAIN ranked, j \in DOMAIN ranked :
             i < j => Better(ranked[i], ranked[j]) /\ ranked[i].id \notin Node[ranked[j].id].alike
        /\ {c.id : c \in weighed} = {r \in look.hits : InAnswer(r)}'
        /\ \A m \in weighed \ ToSet(ranked) :
             \/ \E c \in ToSet(ranked) : Better(c, m) /\ c.id \in Node[m.id].alike
             \/ Len(ranked) = TopCards /\ \A c \in ToSet(ranked) : Better(c, m)
    BY <1>2, <1>5, <2>1, <2>2
  <2> QED
    BY <2>3, <2>4 DEF CardsAreTheBest, ranked, weighed
<1>7. /\ DOMAIN look.rows = MemberRows(look.hits, look.version)
           => (DOMAIN look.rows = MemberRows(look.hits, look.version))'
      /\ OneEach(look.cards)' <=> OneEach(look.cards)
  BY <1>4 DEF OneEach
<1> QED
  BY <1>5, <1>6, <1>7 DEF CardsFollow, CardsOfHits, OneEach, Ordered, Unalike, KeptOrBeaten, Better

\* What is left of a ranking after the cap: what is dropped is beaten by a better one like it, or
\* by all that are left.
LEMMA CappedIsBest ==
    ASSUME NEW cards, Rankable(cards), NEW s \in Seq(cards), Ordered(s), Unalike(s),
           \A c \in cards : KeptOrBeaten(c, s)
    PROVE  /\ Len(Capped(s)) <= TopCards /\ ToSet(Capped(s)) \subseteq cards
           /\ Ordered(Capped(s)) /\ Unalike(Capped(s))
           /\ \A m \in cards \ ToSet(Capped(s)) :
                \/ \E c \in ToSet(Capped(s)) : Better(c, m) /\ c.id \in Node[m.id].alike
                \/ Len(Capped(s)) = TopCards /\ \A c \in ToSet(Capped(s)) : Better(c, m)
<1> DEFINE t == Capped(s)
<1>1. PICK k \in 0 .. Len(s) : t = SubSeq(s, 1, k) /\ k <= TopCards /\ (k < Len(s) => k = TopCards)
  BY CappedFits
<1>2. /\ Len(t) = k /\ DOMAIN t = 1 .. k /\ \A i \in 1 .. k : t[i] = s[i]
      /\ DOMAIN s = 1 .. Len(s) /\ Len(s) \in Nat /\ k \in Nat /\ \A i \in 1 .. k : i \in 1 .. Len(s)
      /\ \A i \in 1 .. Len(s) : s[i] \in cards
  BY <1>1, PrefixFits
<1> HIDE DEF t
<1>3. ToSet(t) \subseteq cards /\ \A c \in ToSet(t) : \E i \in 1 .. k : c = s[i]
  BY <1>2 DEF ToSet
<1>4. Ordered(t) /\ Unalike(t)
  BY <1>2 DEF Ordered, Unalike
<1>5. ASSUME NEW j \in 1 .. Len(s), k < j, NEW c \in ToSet(t) PROVE Better(c, s[j])
  <2>1. PICK i \in 1 .. k : c = s[i]
    BY <1>3
  <2>2. i < j
    BY <1>2, <1>5
  <2> QED
    BY <1>2, <2>1, <2>2 DEF Ordered
<1>6. ASSUME NEW m \in cards \ ToSet(t)
      PROVE  \/ \E c \in ToSet(t) : Better(c, m) /\ c.id \in Node[m.id].alike
             \/ Len(t) = TopCards /\ \A c \in ToSet(t) : Better(c, m)
  <2>1. \A j \in 1 .. Len(s) : k < j \/ s[j] \in ToSet(t)
    BY <1>2 DEF ToSet
  <2>2. \A x \in ToSet(s) : \E j \in 1 .. Len(s) : x = s[j]
    BY <1>2 DEF ToSet
  <2>3. CASE m \in ToSet(s)
    <3>1. PICK j \in 1 .. Len(s) : m = s[j] /\ k < j
      BY <2>1, <2>2, <2>3
    <3>2. Len(t) = TopCards
      BY <1>1, <1>2, <3>1
    <3> QED
      BY <1>5, <3>1, <3>2
  <2>4. CASE m \notin ToSet(s)
    <3>1. PICK x \in ToSet(s) : Better(x, m) /\ x.id \in Node[m.id].alike
      BY <2>4 DEF KeptOrBeaten
    <3>2. CASE x \in ToSet(t)
      BY <3>1, <3>2
    <3>3. CASE x \notin ToSet(t)
      <4>1. PICK j \in 1 .. Len(s) : x = s[j] /\ k < j
        BY <2>1, <2>2, <3>3
      <4>2. Len(t) = TopCards
        BY <1>1, <1>2, <4>1
      <4>3. ASSUME NEW c \in ToSet(t) PROVE Better(c, m)
        <5>1. Better(c, x) /\ c \in cards /\ x \in cards /\ m \in cards
          BY <1>2, <1>3, <1>5, <4>1
        <5> QED
          BY <3>1, <5>1, BetterOrders
      <4> QED
        BY <4>2, <4>3
    <3> QED
      BY <3>2, <3>3
  <2> QED
    BY <2>3, <2>4
<1>7. Len(t) <= TopCards
  BY <1>1, <1>2
<1> QED
  BY <1>3, <1>4, <1>6, <1>7 DEF t

\* Every statement of a ranked read carries this on.
LEMMA CardsStep ==
    ASSUME LookTypes, CardsFollow, Hydrate \/ FetchSymbols \/ Weigh \/ Rank \/ Collapse \/ Cap
    PROVE  CardsFollow'
<1> USE DEF Goes
<1>0. look \in Looks /\ look.hits \subseteq Nodes
  BY DEF LookTypes, Looks
<1>1. CASE Hydrate
  <2> DEFINE members == MemberRows(look.hits, look.version)
             kept == [r \in members |-> [closed |-> until[r], gone |-> r \in gone]]
             pc == IF look.ask.intent = NoIntent THEN "weigh" ELSE "symbols"
  <2>1. look' = [look EXCEPT !.pc = pc, !.rows = kept] /\ UNCHANGED until /\ DOMAIN kept = members
    BY <1>1 DEF Hydrate
  <2> HIDE DEF kept
  <2>2. /\ look'.pc \in {"weigh", "symbols"} /\ look'.rows = kept
        /\ look'.hits = look.hits /\ look'.version = look.version
    BY <1>0, <2>1 DEF Looks
  <2>3. (DOMAIN look.rows = MemberRows(look.hits, look.version))'
    BY <2>1, <2>2 DEF MemberRows
  <2> QED
    BY <2>2, <2>3 DEF CardsFollow, CardsAreTheBest
<1>2. CASE FetchSymbols
  <2>1. look.pc = "symbols" /\ look' = [look EXCEPT !.pc = "weigh", !.symbols = CurrentSymbols]
        /\ UNCHANGED until
    BY <1>2 DEF FetchSymbols
  <2>2. /\ look'.pc = "weigh" /\ look'.rows = look.rows
        /\ look'.hits = look.hits /\ look'.version = look.version
    BY <1>0, <2>1 DEF Looks
  <2>3. (DOMAIN look.rows = MemberRows(look.hits, look.version))'
    BY <2>1, <2>2 DEF MemberRows, CardsFollow
  <2> QED
    BY <2>2, <2>3 DEF CardsFollow, CardsAreTheBest
<1>3. CASE Weigh
  <2> DEFINE cardOf(r) == Card(r, look.ask.hits, look.ask.intent)
             cards == {cardOf(r) : r \in Readable(DOMAIN look.rows)}
  <2>1. look.pc = "weigh" /\ look' = [look EXCEPT !.pc = "rank", !.cards = cards] /\ UNCHANGED until
    BY <1>3 DEF Weigh
  <2>2. \A r \in Readable(DOMAIN look.rows) : cardOf(r).id = r
    BY <2>1, CardTypes DEF Readable
  <2> HIDE DEF cardOf
  <2>3. OneEach(cards) /\ {c.id : c \in cards} = Readable(DOMAIN look.rows)
    BY <2>2 DEF OneEach
  <2> HIDE DEF cards
  <2>4. /\ look'.pc = "rank" /\ look'.cards = cards
        /\ look'.hits = look.hits /\ look'.version = look.version
    BY <1>0, <2>1 DEF Looks
  <2>5. DOMAIN look.rows = MemberRows(look.hits, look.version)
    BY <2>1 DEF CardsFollow
  <2>6. Readable(DOMAIN look.rows) = {r \in look.hits : InAnswer(r)}
    BY <2>5 DEF Readable, MemberRows, OfVersion, InAnswer
  <2>7. {r \in look.hits : InAnswer(r)}' = {r \in look.hits : InAnswer(r)}
    BY <2>1, <2>4 DEF InAnswer
  <2>8. CardsOfHits'
    BY <2>3, <2>4, <2>6, <2>7 DEF OneEach, CardsOfHits
  <2> QED
    BY <2>4, <2>8 DEF CardsFollow, CardsAreTheBest
<1>4. ASSUME look.pc \in {"rank", "collapse", "cap"}
      PROVE  /\ Rankable(look.cards) /\ CardsOfHits
             /\ {c.id : c \in look.cards} = {r \in look.hits : InAnswer(r)}
  <2>1. OneEach(look.cards) /\ {c.id : c \in look.cards} = {r \in look.hits : InAnswer(r)}
    BY <1>4 DEF CardsFollow, CardsOfHits
  <2>2. \A c \in look.cards : c.id \in look.hits
    BY <2>1
  <2> QED
    BY <2>1, <2>2, CardsAreFinite DEF CardsOfHits
<1>5. ASSUME look.pc \in {"rank", "collapse", "cap"}, UNCHANGED until,
             look'.cards = look.cards, look'.hits = look.hits, look'.version = look.version
      PROVE  CardsOfHits' /\ \A r \in look.hits : InAnswer(r)' <=> InAnswer(r)
  <2>1. \A r \in look.hits : InAnswer(r)' <=> InAnswer(r)
    BY <1>5 DEF InAnswer
  <2> QED
    BY <1>4, <1>5, <2>1 DEF OneEach, CardsOfHits
<1>6. CASE Rank
  <2> DEFINE ranked == InRankOrder(look.cards)
  <2>1. look.pc = "rank" /\ look' = [look EXCEPT !.pc = "collapse", !.ranked = ranked] /\ UNCHANGED until
    BY <1>6 DEF Rank
  <2>2. ToSet(ranked) = look.cards /\ Ordered(ranked)
    BY <1>4, <2>1, RankingLists
  <2> HIDE DEF ranked
  <2>a. /\ look'.pc = "collapse" /\ look'.ranked = ranked /\ look'.cards = look.cards
        /\ look'.hits = look.hits /\ look'.version = look.version
    BY <1>0, <2>1 DEF Looks
  <2>3. CardsOfHits'
    BY <1>5, <2>1, <2>a
  <2>4. Ordered(look.ranked)'
    BY <2>2, <2>a DEF Ordered, Better
  <2> QED
    BY <2>2, <2>a, <2>3, <2>4 DEF CardsFollow, CardsAreTheBest
<1>7. CASE Collapse
  <2> DEFINE ranked == Collapsed(look.ranked)
  <2>1. look.pc = "collapse" /\ look' = [look EXCEPT !.pc = "cap", !.ranked = ranked] /\ UNCHANGED until
    BY <1>0, <1>7 DEF Collapse, Looks
  <2>2. ToSet(look.ranked) = look.cards /\ Ordered(look.ranked) /\ look.ranked \in Seq(Cards)
    BY <1>0, <2>1 DEF CardsFollow, Looks
  <2>3. look.ranked \in Seq(look.cards)
    <3>1. \A i \in DOMAIN look.ranked : look.ranked[i] \in look.cards
      BY <2>2 DEF ToSet
    <3> QED
      BY <2>2, <3>1
  <2>4. /\ ranked \in Seq(look.cards) /\ Ordered(ranked) /\ Unalike(ranked)
        /\ \A c \in look.cards : KeptOrBeaten(c, ranked)
    BY <1>4, <2>1, <2>2, <2>3, CollapsedKeeps
  <2> HIDE DEF ranked
  <2>a. /\ look'.pc = "cap" /\ look'.ranked = ranked /\ look'.cards = look.cards
        /\ look'.hits = look.hits /\ look'.version = look.version
    BY <1>0, <2>1 DEF Looks
  <2>5. CardsOfHits'
    BY <1>5, <2>1, <2>a
  <2>6. Ordered(look.ranked)' /\ Unalike(look.ranked)' /\ (\A c \in look.cards : KeptOrBeaten(c, look.ranked))'
    BY <2>4, <2>a DEF Ordered, Unalike, KeptOrBeaten, Better
  <2> QED
    BY <2>4, <2>a, <2>5, <2>6 DEF CardsFollow, CardsAreTheBest
<1>8. CASE Cap
  <2> DEFINE ranked == Capped(look.ranked)
  <2>1. look.pc = "cap" /\ look' = [look EXCEPT !.pc = "cards", !.ranked = ranked] /\ UNCHANGED until
    BY <1>0, <1>8 DEF Cap, Looks
  <2>2. /\ look.ranked \in Seq(look.cards) /\ Ordered(look.ranked) /\ Unalike(look.ranked)
        /\ \A c \in look.cards : KeptOrBeaten(c, look.ranked)
    BY <2>1 DEF CardsFollow
  <2>3. Rankable(look.cards)
    BY <1>4, <2>1
  <2>4. /\ Len(ranked) <= TopCards /\ ToSet(ranked) \subseteq look.cards
        /\ Ordered(ranked) /\ Unalike(ranked)
        /\ \A m \in look.cards \ ToSet(ranked) :
             \/ \E c \in ToSet(ranked) : Better(c, m) /\ c.id \in Node[m.id].alike
             \/ Len(ranked) = TopCards /\ \A c \in ToSet(ranked) : Better(c, m)
    BY <2>2, <2>3, CappedIsBest
  <2> HIDE DEF ranked
  <2>a. /\ look'.pc = "cards" /\ look'.ranked = ranked /\ look'.cards = look.cards
        /\ look'.hits = look.hits /\ look'.version = look.version
    BY <1>0, <2>1 DEF Looks
  <2>5. CardsOfHits' /\ \A r \in look.hits : InAnswer(r)' <=> InAnswer(r)
    BY <1>5, <2>1, <2>a
  <2>6. \A c \in look.cards : c.id \in look.hits /\ InAnswer(c.id)
    BY <1>4, <2>1
  <2>7. {c \in look.cards : c.id \in look.hits} = look.cards
    BY <2>6
  <2>8. \A c \in ToSet(ranked) : InAnswer(c.id)' /\ c.id \in look'.hits
    BY <2>4, <2>a, <2>5, <2>6
  <2>9. CardsAreTheBest'
    BY <2>4, <2>a, <2>5, <2>7, <2>8 DEF CardsAreTheBest, CardsOfHits, Ordered, Unalike, Better
  <2> QED
    BY <2>a, <2>5, <2>9 DEF CardsFollow
<1> QED
  BY <1>1, <1>2, <1>3, <1>6, <1>7, <1>8

------------------------------------------------------------------------------
(* The reference closure of a walk. *)

\* What is linked to some of these, and may be in an answer.
NextTo(S) == {s \in Nodes : InAnswer(s) /\ \E r \in S : Linked(r, s)}

\* The root, if it may be in an answer.
WalkRoot == {r \in {look.ask.root} : InAnswer(r)}

\* What can be reached in n + 1 hops is what can be reached in n, and what that is linked to.
BallGrows == Ball[0] = WalkRoot /\ \A n \in Nat : Ball[n + 1] = Ball[n] \union NextTo(Ball[n])

\* Ball is chosen, and there is one to choose.
LEMMA BallIsThere == BallGrows
<1> DEFINE A == SUBSET (Nodes \union {look.ask.root})
           G == [S \in A |-> S \union NextTo(S)]
           Is(b) == b = [n \in Nat |->
                           IF n = 0 THEN {r \in {look.ask.root} : InAnswer(r)}
                           ELSE b[n - 1] \union {s \in Nodes : InAnswer(s) /\ \E r \in b[n - 1] : Linked(r, s)}]
<1>1. WalkRoot \in A
  BY DEF WalkRoot
<1>2. G \in [A -> A]
  <2>1. \A S \in A : S \union NextTo(S) \in A
    BY DEF NextTo
  <2> QED
    BY <2>1
<1> HIDE DEF A
<1>3. PICK f \in [Nat -> A] : GoesOn(f, WalkRoot, G)
  <2> HIDE DEF G
  <2> QED
    BY <1>1, <1>2, CountingOn
<1>4. Is(f)
  <2>1. ASSUME NEW n \in Nat
        PROVE  f[n] = IF n = 0 THEN {r \in {look.ask.root} : InAnswer(r)}
                      ELSE f[n - 1] \union {s \in Nodes : InAnswer(s) /\ \E r \in f[n - 1] : Linked(r, s)}
    <3>1. CASE n = 0
      BY <1>3, <3>1 DEF GoesOn, WalkRoot
    <3>2. CASE n # 0
      <4>1. n - 1 \in Nat /\ (n - 1) + 1 = n /\ f[n - 1] \in A
        BY <3>2
      <4>2. f[n] = G[f[n - 1]]
        BY <1>3, <4>1 DEF GoesOn
      <4> QED
        BY <3>2, <4>1, <4>2 DEF NextTo
    <3> QED
      BY <3>1, <3>2
  <2> QED
    BY <2>1
<1>5. Ball = CHOOSE b : Is(b)
  BY Zenon DEF Ball
<1>6. Is(Ball)
  <2> HIDE DEF Is
  <2> QED
    BY <1>4, <1>5
<1>7. \A n \in Nat : Ball[n] = IF n = 0 THEN {r \in {look.ask.root} : InAnswer(r)}
                               ELSE Ball[n - 1] \union {s \in Nodes : InAnswer(s) /\ \E r \in Ball[n - 1] : Linked(r, s)}
  <2> DEFINE b == Ball
  <2>1. Is(b)
    BY <1>6
  <2> HIDE DEF b
  <2>2. \A n \in Nat : b[n] = IF n = 0 THEN {r \in {look.ask.root} : InAnswer(r)}
                               ELSE b[n - 1] \union {s \in Nodes : InAnswer(s) /\ \E r \in b[n - 1] : Linked(r, s)}
    BY <2>1
  <2> QED
    BY <2>2 DEF b
<1> DEFINE b == Ball
<1> HIDE DEF b
<1>8. b[0] = WalkRoot
  BY <1>7 DEF WalkRoot, b
<1>9. ASSUME NEW n \in Nat PROVE b[n + 1] = b[n] \union NextTo(b[n])
  <2>1. n + 1 \in Nat /\ n + 1 # 0 /\ (n + 1) - 1 = n
    OBVIOUS
  <2> QED
    BY <1>7, <2>1 DEF NextTo, b
<1> QED
  BY <1>8, <1>9 DEF BallGrows, b

\* A link stays a link, while the call keeps its version and its request.
LEMMA LinksStay ==
    ASSUME LookTypes, [LookNext]_lookVars, look'.version = look.version, look'.ask = look.ask
    PROVE  \A r, s \in Nodes : Linked(r, s)' <=> Linked(r, s)
<1>1. \A i \in TieIds : TieServed(i)' <=> TieServed(i)
  BY MembersStay
<1> SUFFICES ASSUME NEW r \in Nodes, NEW s \in Nodes PROVE Linked(r, s)' <=> Linked(r, s)
  OBVIOUS
<1> DEFINE joins(i) == /\ {r, s} = {Ties[i].a, Ties[i].b} /\ Ties[i].born <= look.version
                       /\ look.ask.types = {} \/ Ties[i].type \in look.ask.types
                       /\ AdmitsTrust(Ties[i].trust, look.ask.floor, look.ask.inferred)
<1>2. Linked(r, s) <=> \E i \in TieIds : joins(i) /\ TieServed(i)
  BY DEF Linked, TieServed
<1>3. Linked(r, s)' <=> \E i \in TieIds : joins(i)' /\ TieServed(i)'
  BY DEF Linked, TieServed, TieIds
<1>4. \A i \in TieIds : joins(i)' <=> joins(i)
  OBVIOUS
<1> HIDE DEF joins
<1> QED
  BY <1>1, <1>2, <1>3, <1>4

\* What is within reach are artifacts of the answer, more with each hop.
LEMMA BallInside ==
    ASSUME LookTypes, look.pc \in GraphSteps
    PROVE  /\ look.ask.root \in Nodes
           /\ \A n \in Nat : Ball[n] \subseteq Answerable
           /\ \A n \in Nat : \A k \in 0 .. n : Ball[k] \subseteq Ball[n]
<1> DEFINE b == Ball
<1>1. look.ask.root \in Nodes
  BY RetrievalAssumption DEF LookTypes, GraphSteps
<1>2. b[0] = WalkRoot /\ \A n \in Nat : b[n + 1] = b[n] \union NextTo(b[n])
  BY BallIsThere DEF BallGrows
<1> HIDE DEF b
<1>3. WalkRoot \subseteq Answerable /\ \A S : NextTo(S) \subseteq Answerable
  BY <1>1 DEF WalkRoot, NextTo, Answerable
<1>4. ASSUME NEW n \in Nat PROVE b[n] \subseteq Answerable /\ \A k \in 0 .. n : b[k] \subseteq b[n]
  <2> DEFINE Q == {m \in 0 .. n : b[m] \subseteq Answerable /\ \A k \in 0 .. m : b[k] \subseteq b[m]}
  <2>1. 0 \in Q
    <3>1. \A k \in 0 .. 0 : k = 0
      OBVIOUS
    <3> QED
      BY <1>2, <1>3, <3>1, 0 \in 0 .. n
  <2>2. ASSUME NEW m \in 0 .. n, m \in Q, m < n PROVE m + 1 \in Q
    <3>1. m \in Nat /\ m + 1 \in 0 .. n /\ \A k \in 0 .. m + 1 : k \in 0 .. m \/ k = m + 1
      BY <2>2
    <3>2. b[m + 1] = b[m] \union NextTo(b[m]) /\ NextTo(b[m]) \subseteq Answerable
      BY <1>2, <1>3, <3>1
    <3> QED
      BY <2>2, <3>1, <3>2
  <2> HIDE DEF Q
  <2>3. n \in Q
    BY <2>1, <2>2, CountUp
  <2> QED
    BY <2>3 DEF Q
<1> QED
  BY <1>1, <1>4 DEF b

\* What is within reach stays so.
LEMMA BallStays ==
    ASSUME LookTypes, [LookNext]_lookVars, look'.version = look.version, look'.ask = look.ask,
           look.pc \in GraphSteps
    PROVE  \A n \in Nat : Ball'[n] = Ball[n]
<1> DEFINE b == Ball
           c == Ball'
           near(S) == {s \in Nodes : InAnswer(s) /\ \E r \in S : Linked(r, s)}
<1>1. b[0] = WalkRoot /\ \A n \in Nat : b[n + 1] = b[n] \union near(b[n])
  BY BallIsThere DEF BallGrows, NextTo
<1>2. /\ Ball'[0] = WalkRoot'
      /\ \A n \in Nat : Ball'[n + 1] = Ball'[n] \union {s \in Nodes : /\ InAnswer(s)'
                                                                   /\ \E r \in Ball'[n] : Linked(r, s)'}
  <2>1. BallGrows'
    BY BallIsThere, PTL
  <2> QED
    BY <2>1 DEF BallGrows, NextTo
<1>3. look.ask.root \in Nodes /\ \A n \in Nat : b[n] \subseteq Nodes
  BY BallInside DEF Answerable, b
<1>4. c[0] = b[0]
  BY <1>1, <1>2, <1>3, AnswerableStays DEF WalkRoot
<1>5. ASSUME NEW n \in Nat, c[n] = b[n] PROVE c[n + 1] = b[n + 1]
  <2>1. \A s \in Nodes : InAnswer(s)' <=> InAnswer(s)
    BY AnswerableStays
  <2>2. \A s \in Nodes : \A r \in b[n] : Linked(r, s)' <=> Linked(r, s)
    BY <1>3, LinksStay
  <2>3. c[n + 1] = b[n] \union {s \in Nodes : InAnswer(s)' /\ \E r \in b[n] : Linked(r, s)'}
    BY <1>2, <1>5
  <2>4. {s \in Nodes : InAnswer(s)' /\ \E r \in b[n] : Linked(r, s)'} = near(b[n])
    BY <2>1, <2>2
  <2> HIDE DEF near, b, c
  <2> QED
    BY <1>1, <2>3, <2>4
<1> HIDE DEF b, c, near
<1>6. ASSUME NEW n \in Nat PROVE c[n] = b[n]
  <2> DEFINE Q == {m \in 0 .. n : c[m] = b[m]}
  <2>1. 0 \in Q
    BY <1>4, 0 \in 0 .. n
  <2>2. ASSUME NEW m \in 0 .. n, m \in Q, m < n PROVE m + 1 \in Q
    BY <1>5, <2>2
  <2> HIDE DEF Q
  <2>3. n \in Q
    BY <2>1, <2>2, CountUp
  <2> QED
    BY <2>3 DEF Q
<1> QED
  BY <1>6 DEF b, c

\* Where nothing more is linked, nothing more is within reach.
LEMMA BallCloses ==
    ASSUME NEW k \in Nat, NextTo(Ball[k]) \subseteq Ball[k], NEW n \in Nat, k <= n
    PROVE  Ball[n] = Ball[k]
<1> DEFINE b == Ball
<1>1. \A m \in Nat : b[m + 1] = b[m] \union NextTo(b[m])
  BY BallIsThere DEF BallGrows
<1>2. NextTo(b[k]) \subseteq b[k]
  OBVIOUS
<1> HIDE DEF b
<1> DEFINE Q == {m \in 0 .. n - k : b[k + m] = b[k]}
<1>3. n - k \in Nat /\ k + 0 = k /\ k + (n - k) = n
  OBVIOUS
<1>4. 0 \in Q
  BY <1>3
<1>5. ASSUME NEW m \in 0 .. n - k, m \in Q, m < n - k PROVE m + 1 \in Q
  <2>1. k + m \in Nat /\ k + (m + 1) = (k + m) + 1 /\ m + 1 \in 0 .. n - k
    BY <1>5
  <2>2. b[k + m] = b[k] /\ b[(k + m) + 1] = b[k + m] \union NextTo(b[k + m])
    BY <1>1, <1>5, <2>1
  <2> QED
    BY <1>2, <2>1, <2>2
<1> HIDE DEF Q
<1>6. n - k \in Q
  BY <1>3, <1>4, <1>5, CountUp
<1> QED
  BY <1>3, <1>6 DEF Q, b

------------------------------------------------------------------------------
(* What a walk has found. *)

\* What was found, with the root.
FoundOrRoot == Ids(look.found) \union {look.ask.root}

\* What was found is at its distance, and nothing nearer than that is missing.
FoundNearest ==
    \A n \in ToSet(look.found) : /\ n.distance \in 1 .. look.hop - 1
                                 /\ n.id \in Ball[n.distance] /\ n.id \notin Ball[n.distance - 1]
                                 /\ Ball[n.distance - 1] \subseteq FoundOrRoot

\* With room left, all within the hops that were walked is found, and what leads further is the
\* frontier.
Growing ==
    /\ look.frontier \subseteq Ball[look.hop - 1]
    /\ Ball[look.hop - 1] \subseteq FoundOrRoot
    /\ \A r \in Ball[look.hop - 1] \ look.frontier :
         \A s \in Answerable : Linked(r, s) => s \in Ball[look.hop - 1]

\* ... and of what was seen, what may be in the answer is found.
SeenIsFound ==
    /\ FoundOrRoot \subseteq look.seen
    /\ look.seen \cap Answerable \subseteq FoundOrRoot

\* After a pass: what was reached was not seen, is linked to the frontier, and is all that is.
PassIsDone ==
    /\ Len(look.found) < NeighbourCap /\ look.hop <= look.ask.depth
    /\ FoundOrRoot \subseteq look.seen \ Ids(look.new)
    /\ (look.seen \ Ids(look.new)) \cap Answerable \subseteq FoundOrRoot
    /\ Ids(look.new) \subseteq look.seen /\ Apart(look.new)
    /\ \A m \in ToSet(look.new) : m.distance = look.hop /\ \E r \in look.frontier : Linked(r, m.id)
    /\ \A r \in look.frontier : \A s \in Nodes : Linked(r, s) => s \in look.seen

\* How far a walk is.
Walked ==
    /\ look.hop \in 1 .. look.ask.depth + 1
    /\ Apart(look.found) /\ Len(look.found) <= NeighbourCap
    /\ FoundNearest
    /\ Len(look.found) < NeighbourCap => Growing
    /\ look.pc = "edges" /\ Len(look.found) < NeighbourCap => SeenIsFound
    /\ look.pc = "filter" => PassIsDone

\* A walk of the neighbourhood, hop by hop, and its one row.
WalkFollows ==
    /\ look.pc \in {"idle", "root"} => look.found = <<>>
    /\ look.pc \notin {"failed", "neighbours"} => lookRows = <<>>
    /\ look.pc \in {"edges", "filter", "neighbours"} => Walked
    /\ look.pc = "neighbours" =>
         NoMoreHops /\ lookRows = <<[version |-> look.version, found |-> Ids(look.found)]>>

\* Two artifacts are linked by a tie of the version that the request admits.
LEMMA LinkedBy ==
    ASSUME NEW r, NEW s
    PROVE  Linked(r, s) <=> \E i \in TieIds : /\ {r, s} = {Ties[i].a, Ties[i].b} /\ Admitted(Ties[i])
                                              /\ OfVersion(Ties[i].born, cut[i], look.version)
                                              /\ look.ask.types = {} \/ Ties[i].type \in look.ask.types
  BY DEF Linked, Admitted, OfVersion

\* The sizes and places of what was found.
LEMMA FoundFits ==
    ASSUME LookTypes
    PROVE  /\ look.found \in Seq(Reaches) /\ look.new \in Seq(Reaches)
           /\ Len(look.found) \in Nat /\ DOMAIN look.found = 1 .. Len(look.found)
           /\ NeighbourCap \in Nat /\ look.hop \in Nat
           /\ \A n \in ToSet(look.found) : n \in Reaches /\ n.id \in Nodes
           /\ \A n \in ToSet(look.new) : n \in Reaches /\ n.id \in Nodes
           /\ look.pc \in GraphSteps => look.ask.depth \in Nat
<1>1. look.found \in Seq(Reaches) /\ look.new \in Seq(Reaches) /\ look.hop \in Nat
  BY DEF LookTypes, Looks
<1>2. NeighbourCap \in Nat /\ (look.pc \in GraphSteps => look.ask.depth \in Nat)
  BY RetrievalAssumption DEF LookTypes, GraphSteps
<1>3. Len(look.found) \in Nat /\ DOMAIN look.found = 1 .. Len(look.found)
  BY <1>1
<1>4. \A n \in ToSet(look.found) : n \in Reaches
  BY <1>1 DEF ToSet
<1>5. \A n \in ToSet(look.new) : n \in Reaches
  BY <1>1 DEF ToSet
<1>6. \A n \in Reaches : n.id \in Nodes
  BY DEF Reaches
<1> QED
  BY <1>1, <1>2, <1>3, <1>4, <1>5, <1>6

\* While nothing is found and the frontier stays, what was found stays the nearest.
LEMMA WalkCarries ==
    ASSUME LookTypes, Walked, [LookNext]_lookVars, look.pc \in {"edges", "filter", "neighbours"},
           look'.version = look.version, look'.ask = look.ask, look'.found = look.found,
           look'.hop = look.hop, look'.frontier = look.frontier
    PROVE  /\ look'.hop \in 1 .. look'.ask.depth + 1
           /\ Apart(look.found)' /\ Len(look'.found) <= NeighbourCap
           /\ FoundOrRoot' = FoundOrRoot /\ FoundNearest' /\ (Growing => Growing')
<1>1. look.pc \in GraphSteps
  BY DEF GraphSteps
<1>2. \A n \in Nat : Ball'[n] = Ball[n]
  BY <1>1, BallStays
<1>3. \A n \in Nat : Ball[n] \subseteq Nodes
  BY <1>1, BallInside DEF Answerable
<1>4. /\ Answerable' = Answerable /\ Answerable \subseteq Nodes
      /\ \A r, s \in Nodes : Linked(r, s)' <=> Linked(r, s)
  BY AnswerableStays, LinksStay DEF Answerable
<1>5. /\ look.hop \in Nat /\ look.hop >= 1 /\ look.hop - 1 \in Nat
      /\ \A d \in 1 .. look.hop - 1 : d \in Nat /\ d - 1 \in Nat
  BY <1>1, FoundFits DEF Walked
<1>6. FoundOrRoot' = FoundOrRoot
  BY DEF FoundOrRoot, Ids
<1>7. FoundNearest'
  <2> DEFINE found == ToSet(look.found)
  <2>1. found' = found /\ look'.hop = look.hop
    OBVIOUS
  <2>2. \A n \in found : /\ n.distance \in 1 .. look.hop - 1
                         /\ n.id \in Ball[n.distance] /\ n.id \notin Ball[n.distance - 1]
                         /\ Ball[n.distance - 1] \subseteq FoundOrRoot
    BY DEF Walked, FoundNearest
  <2> HIDE DEF found
  <2>3. \A n \in found : /\ n.distance \in 1 .. look.hop - 1
                         /\ n.id \in Ball'[n.distance] /\ n.id \notin Ball'[n.distance - 1]
                         /\ Ball'[n.distance - 1] \subseteq FoundOrRoot
    BY <1>2, <1>5, <2>2
  <2>4. \A n \in found' : /\ n.distance \in 1 .. look'.hop - 1
                          /\ n.id \in Ball'[n.distance] /\ n.id \notin Ball'[n.distance - 1]
                          /\ Ball'[n.distance - 1] \subseteq FoundOrRoot'
    BY <1>6, <2>1, <2>3
  <2> QED
    BY <2>4 DEF FoundNearest, found
<1>8. Growing => Growing'
  <2> SUFFICES ASSUME Growing PROVE Growing'
    OBVIOUS
  <2>1. Ball'[look.hop - 1] = Ball[look.hop - 1] /\ Ball[look.hop - 1] \subseteq Nodes
    BY <1>2, <1>3, <1>5
  <2>2. /\ look.frontier \subseteq Ball'[look.hop - 1]
        /\ Ball'[look.hop - 1] \subseteq FoundOrRoot
        /\ \A r \in Ball'[look.hop - 1] \ look.frontier :
             \A s \in Answerable : Linked(r, s)' => s \in Ball'[look.hop - 1]
    BY <1>4, <2>1 DEF Growing
  <2> QED
    BY <1>4, <1>6, <2>2 DEF Growing
<1>9. Apart(look.found)' <=> Apart(look.found)
  BY DEF Apart
<1> QED
  BY <1>6, <1>7, <1>8, <1>9 DEF Walked

\* What a walk has is what it had, while the builder commits.
LEMMA WalkWaits ==
    ASSUME LookTypes, WalkFollows, [LookNext]_lookVars, look' = look, lookRows' = lookRows
    PROVE  WalkFollows'
<1>1. CASE look.pc \notin {"edges", "filter", "neighbours"}
  BY <1>1 DEF WalkFollows
<1>2. CASE look.pc \in {"edges", "filter", "neighbours"}
  <2>1. Walked
    BY <1>2 DEF WalkFollows
  <2>2. /\ look'.hop \in 1 .. look'.ask.depth + 1
        /\ Apart(look.found)' /\ Len(look'.found) <= NeighbourCap
        /\ FoundOrRoot' = FoundOrRoot /\ FoundNearest' /\ (Growing => Growing')
    BY <1>2, <2>1, WalkCarries
  <2>3. /\ Answerable' = Answerable
        /\ \A r, s \in Nodes : Linked(r, s)' <=> Linked(r, s)
    BY AnswerableStays, LinksStay
  <2>4. SeenIsFound => SeenIsFound'
    BY <2>2, <2>3 DEF SeenIsFound
  <2>5. PassIsDone => PassIsDone'
    <3> SUFFICES ASSUME PassIsDone PROVE PassIsDone'
      OBVIOUS
    <3>1. look.frontier \subseteq Nodes /\ \A m \in ToSet(look.new) : m.id \in Nodes
      BY FoundFits DEF LookTypes, Looks
    <3> DEFINE new == ToSet(look.new)
    <3>2. \A m \in new : m.distance = look.hop /\ \E r \in look.frontier : Linked(r, m.id)'
      BY <2>3, <3>1 DEF PassIsDone
    <3>3. \A r \in look.frontier : \A s \in Nodes : Linked(r, s)' => s \in look.seen
      BY <2>3, <3>1 DEF PassIsDone
    <3>4. new' = new /\ Ids(look.new)' = Ids(look.new) /\ (Apart(look.new)' <=> Apart(look.new))
      BY DEF Ids, Apart
    <3> HIDE DEF new
    <3>5. (\A m \in new : m.distance = look.hop /\ \E r \in look.frontier : Linked(r, m.id))'
      BY <3>2, <3>4
    <3>6. (\A r \in look.frontier : \A s \in Nodes : Linked(r, s) => s \in look.seen)'
      BY <3>3
    <3> QED
      BY <2>2, <2>3, <3>4, <3>5, <3>6 DEF PassIsDone, new
  <2>6. Walked'
    BY <2>1, <2>2, <2>4, <2>5 DEF Walked
  <2> QED
    BY <1>2, <2>6 DEF WalkFollows, NoMoreHops, Ids
<1> QED
  BY <1>1, <1>2

\* What a walk that ends has found.
LEMMA WalkEnds ==
    ASSUME LookTypes, WalkFollows
    PROVE  NeighboursAreTheNearest
<1> SUFFICES ASSUME look.pc = "neighbours" PROVE NeighboursAreTheNearest
  BY DEF NeighboursAreTheNearest
<1> DEFINE depth == look.ask.depth
           ids == Ids(look.found)
           within == [d \in 0 .. depth |-> Ball[d]]
           left == within[depth] \ (ids \union {look.ask.root})
           b == Ball
<1>1. /\ look.pc \in GraphSteps /\ Walked /\ NoMoreHops
      /\ lookRows = <<[version |-> look.version, found |-> ids]>>
  BY DEF WalkFollows, GraphSteps
<1>2. /\ depth \in Nat /\ look.hop \in 1 .. depth + 1 /\ look.hop \in Nat
      /\ Len(look.found) \in Nat /\ NeighbourCap \in Nat /\ DOMAIN look.found = 1 .. Len(look.found)
  BY <1>1, FoundFits DEF Walked
<1>3. \A n \in ToSet(look.found) : /\ n.distance \in 1 .. depth /\ n.distance - 1 \in 0 .. depth
                                   /\ n.id \in b[n.distance] /\ n.id \notin b[n.distance - 1]
                                   /\ b[n.distance - 1] \subseteq FoundOrRoot
  <2>1. \A d \in 1 .. look.hop - 1 : d \in 1 .. depth /\ d - 1 \in 0 .. depth
    BY <1>2
  <2> HIDE DEF depth
  <2> QED
    BY <1>1, <2>1 DEF Walked, FoundNearest
<1>4. \A d \in 0 .. depth : within[d] = b[d]
  OBVIOUS
<1>5. left = b[depth] \ FoundOrRoot
  BY <1>2 DEF FoundOrRoot
<1> HIDE DEF within, left, ids, b
<1>6. Len(look.found) = Cardinality(ids)
  <2> DEFINE f == [i \in 1 .. Len(look.found) |-> look.found[i].id]
             dom == 1 .. Len(look.found)
  <2>1. Apart(look.found)
    BY <1>1 DEF Walked
  <2>2. f \in Bijection(dom, ids)
    BY <1>2, <2>1 DEF Bijection, Injection, Surjection, IsInjective, ids, Ids, ToSet, Apart
  <2>3. IsFiniteSet(dom) /\ Cardinality(dom) = Len(look.found)
    <3> DEFINE n == Len(look.found)
    <3>1. n \in Nat /\ n \in Int /\ 1 \in Int
      BY <1>2
    <3> HIDE DEF n
    <3>2. IsFiniteSet(1 .. n) /\ Cardinality(1 .. n) = IF 1 > n THEN 0 ELSE n - 1 + 1
      BY <3>1, FS_Interval
    <3>3. (IF 1 > n THEN 0 ELSE n - 1 + 1) = n
      BY <3>1
    <3> QED
      BY <3>2, <3>3 DEF n
  <2> HIDE DEF f, dom
  <2>4. ExistsBijection(dom, ids)
    BY <2>2 DEF ExistsBijection
  <2> QED
    BY <2>3, <2>4, FS_Bijection
<1>7. \A n \in ToSet(look.found) : n.id \in within[n.distance] \ within[n.distance - 1]
  <2>1. \A n \in ToSet(look.found) : n.distance \in 0 .. depth
    BY <1>2, <1>3
  <2> HIDE DEF depth
  <2> QED
    BY <1>3, <1>4, <2>1
<1>8. \A n \in ToSet(look.found) : left \cap within[n.distance - 1] = {}
  <2> HIDE DEF depth
  <2> QED
    BY <1>3, <1>4, <1>5
<1>9. ASSUME Len(look.found) < NeighbourCap PROVE left = {}
  <2>1. /\ look.frontier \subseteq b[look.hop - 1] /\ b[look.hop - 1] \subseteq FoundOrRoot
        /\ \A r \in b[look.hop - 1] \ look.frontier :
             \A s \in Answerable : Linked(r, s) => s \in b[look.hop - 1]
    BY <1>1, <1>9 DEF Walked, Growing, b
  <2>2. look.hop > depth \/ look.frontier = {}
    BY <1>1, <1>2, <1>9 DEF NoMoreHops
  <2>3. CASE look.hop > depth
    <3>1. look.hop - 1 = depth
      BY <1>2, <2>3
    <3> QED
      BY <1>5, <2>1, <3>1
  <2>4. CASE look.frontier = {}
    <3>1. NextTo(b[look.hop - 1]) \subseteq b[look.hop - 1]
      BY <2>1, <2>4 DEF NextTo, Answerable
    <3>2. look.hop - 1 \in Nat /\ look.hop - 1 <= depth
      BY <1>2
    <3>3. b[depth] = b[look.hop - 1]
      BY <1>2, <3>1, <3>2, BallCloses DEF b
    <3> QED
      BY <1>5, <2>1, <3>3
  <2> QED
    BY <2>2, <2>3, <2>4
<1>10. Len(look.found) <= NeighbourCap
  BY <1>1 DEF Walked
<1>11. left # {} => Len(look.found) = NeighbourCap
  BY <1>2, <1>9, <1>10
<1> QED
  BY <1>1, <1>6, <1>7, <1>8, <1>10, <1>11 DEF NeighboursAreTheNearest, left, within, ids, Ids

\* A walk begins at its root, if that may be read.
LEMMA WalkBegins ==
    ASSUME LookTypes, WalkFollows, ReadRoot
    PROVE  WalkFollows'
<1> DEFINE frontier == Readable(MemberRows({look.ask.root}, look.version))
<1>1. look.pc = "root" /\ UNCHANGED <<servedSeq, built, until, cut, gone, lookRows>>
      /\ look' = [look EXCEPT !.pc = "edges", !.seen = {look.ask.root}, !.hop = 1, !.frontier = frontier]
  BY DEF ReadRoot, Goes
<1>2. look \in Looks /\ look.pc \in GraphSteps /\ look.ask \in GraphAsks
  BY <1>1 DEF LookTypes, GraphSteps
<1>3. look.ask.root \in Nodes /\ look.ask.depth \in Nat /\ NeighbourCap \in Nat
  BY <1>2, RetrievalAssumption
<1>4. look.found = <<>> /\ lookRows = <<>>
  BY <1>1 DEF WalkFollows
<1>5. frontier = WalkRoot /\ frontier \subseteq {look.ask.root}
  BY DEF Readable, MemberRows, OfVersion, WalkRoot, InAnswer
<1> HIDE DEF frontier
<1>6. /\ look'.pc = "edges" /\ look'.seen = {look.ask.root} /\ look'.hop = 1 /\ look'.frontier = frontier
      /\ look'.ask = look.ask /\ look'.version = look.version /\ look'.found = <<>>
  BY <1>1, <1>2, <1>4 DEF Looks
<1>7. [LookNext]_lookVars
  BY DEF LookNext
<1>8. Ball'[0] = frontier
  <2>1. Ball'[0] = Ball[0]
    BY <1>2, <1>6, <1>7, BallStays, 0 \in Nat
  <2> QED
    BY <1>5, <2>1, BallIsThere DEF BallGrows
<1>9. FoundOrRoot' = {look.ask.root}
  <2>1. Ids(<<>>) = {}
    BY DEF Ids, ToSet
  <2> QED
    BY <1>6, <2>1 DEF FoundOrRoot, Ids
<1>10. FoundNearest' /\ Apart(look.found)' /\ Len(look'.found) = 0
  BY <1>6 DEF FoundNearest, Apart, ToSet
<1>11. Growing'
  <2>1. look'.hop - 1 = 0
    BY <1>6
  <2>2. /\ look'.frontier \subseteq Ball'[0] /\ Ball'[0] \subseteq FoundOrRoot'
        /\ Ball'[0] \ look'.frontier = {}
    BY <1>5, <1>6, <1>8, <1>9
  <2> QED
    BY <2>1, <2>2 DEF Growing
<1>12. SeenIsFound'
  BY <1>6, <1>9 DEF SeenIsFound
<1>13. Walked'
  BY <1>3, <1>6, <1>10, <1>11, <1>12 DEF Walked
<1> QED
  BY <1>1, <1>4, <1>6, <1>13 DEF WalkFollows

\* A pass reaches all that the frontier is linked to and was not seen.
LEMMA WalkPasses ==
    ASSUME LookTypes, WalkFollows, FollowEdges
    PROVE  WalkFollows'
<1> DEFINE ties == TiesTouching(look.frontier, look.ask.types, look.version)
           c == Candidates(ties)
<1>1. /\ look.pc = "edges" /\ ~ NoMoreHops /\ UNCHANGED <<servedSeq, built, until, cut, gone, lookRows>>
      /\ look' = [look EXCEPT !.pc = "filter", !.seen = c.seen, !.new = c.new]
  BY DEF FollowEdges, Goes
<1>2. look \in Looks /\ look.pc \in GraphSteps /\ Walked /\ lookRows = <<>>
  BY <1>1 DEF LookTypes, GraphSteps, WalkFollows
<1>3. look.frontier \subseteq look.seen /\ look.seen \subseteq Nodes /\ look.hop \in Nat
      /\ look.frontier \subseteq Nodes
  BY <1>1 DEF LookTypes, Looks
<1>4. Len(look.found) < NeighbourCap /\ look.hop <= look.ask.depth
  BY <1>1, <1>2, FoundFits DEF NoMoreHops
<1>5. /\ ties \in Seq(TieSet)
      /\ \A k \in 1 .. Len(ties) : \E i \in Touching : ties[k] = Ties[i]
      /\ \A i \in Touching : \E k \in 1 .. Len(ties) : ties[k] = Ties[i]
  BY TouchingFits
<1> HIDE DEF ties
<1>6. c \in PassOver(ties, Len(ties))
  BY <1>3, <1>5, CandidatesReach
<1> HIDE DEF c
<1>7. /\ c \in Passes /\ c.seen = look.seen \union Ids(c.new) /\ Ids(c.new) \cap look.seen = {}
      /\ Apart(c.new)
      /\ \A m \in ToSet(c.new) : m.distance = look.hop /\ \E k \in 1 .. Len(ties) : LeadsTo(ties[k], m.id)
      /\ \A k \in 1 .. Len(ties) : Admitted(ties[k]) =>
           /\ ties[k].a \in look.frontier => ties[k].b \in c.seen
           /\ ties[k].b \in look.frontier => ties[k].a \in c.seen
  BY <1>6 DEF PassOver
<1>8. /\ look'.pc = "filter" /\ look'.seen = c.seen /\ look'.new = c.new /\ look'.hop = look.hop
      /\ look'.frontier = look.frontier /\ look'.ask = look.ask /\ look'.version = look.version
      /\ look'.found = look.found
  BY <1>1, <1>2 DEF Looks
<1>9. [LookNext]_lookVars
  BY DEF LookNext
<1>10. /\ look'.hop \in 1 .. look'.ask.depth + 1
       /\ Apart(look.found)' /\ Len(look'.found) <= NeighbourCap
       /\ FoundOrRoot' = FoundOrRoot /\ FoundNearest' /\ (Growing => Growing')
  BY <1>1, <1>2, <1>8, <1>9, WalkCarries
<1>11. /\ Answerable' = Answerable
       /\ \A r, s \in Nodes : Linked(r, s)' <=> Linked(r, s)
  BY <1>8, <1>9, AnswerableStays, LinksStay
<1>12. SeenIsFound /\ Growing
  BY <1>1, <1>2, <1>4 DEF Walked
<1>13. ASSUME NEW m \in ToSet(c.new) PROVE \E r \in look.frontier : Linked(r, m.id)
  <2>1. PICK k \in 1 .. Len(ties) : LeadsTo(ties[k], m.id)
    BY <1>7
  <2>2. PICK i \in Touching : ties[k] = Ties[i]
    BY <1>5
  <2>3. PICK r \in look.frontier : {r, m.id} = {Ties[i].a, Ties[i].b} /\ Admitted(Ties[i])
    BY <2>1, <2>2 DEF LeadsTo
  <2>4. i \in TieIds /\ OfVersion(Ties[i].born, cut[i], look.version)
        /\ (look.ask.types = {} \/ Ties[i].type \in look.ask.types)
    BY DEF Touching
  <2> QED
    BY <2>3, <2>4, LinkedBy
<1>14. ASSUME NEW r \in look.frontier, NEW s \in Nodes, Linked(r, s) PROVE s \in c.seen
  <2>1. PICK i \in TieIds : /\ {r, s} = {Ties[i].a, Ties[i].b} /\ Admitted(Ties[i])
                            /\ OfVersion(Ties[i].born, cut[i], look.version)
                            /\ look.ask.types = {} \/ Ties[i].type \in look.ask.types
    BY <1>14, LinkedBy
  <2>2. (Ties[i].a = r /\ Ties[i].b = s) \/ (Ties[i].a = s /\ Ties[i].b = r)
    BY <2>1
  <2>3. i \in Touching
    BY <2>1, <2>2 DEF Touching
  <2>4. PICK k \in 1 .. Len(ties) : ties[k] = Ties[i]
    BY <1>5, <2>3
  <2> QED
    BY <1>7, <2>1, <2>2, <2>4
<1>15. \A m \in ToSet(c.new) : m.id \in Nodes
  <2>1. \A i \in DOMAIN c.new : c.new[i] \in Reaches
    BY <1>7 DEF Passes
  <2> QED
    BY <2>1 DEF ToSet, Reaches
<1>16. PassIsDone'
  <2>1. (\A m \in ToSet(look.new) : m.distance = look.hop /\ \E r \in look.frontier : Linked(r, m.id))'
    <3> DEFINE new == ToSet(c.new)
    <3>1. ToSet(look'.new) = new
      BY <1>8
    <3>2. \A m \in new : m.distance = look'.hop /\ \E r \in look'.frontier : Linked(r, m.id)'
      BY <1>3, <1>7, <1>8, <1>11, <1>13, <1>15
    <3> HIDE DEF new
    <3>3. \A m \in ToSet(look'.new) : m.distance = look'.hop /\ \E r \in look'.frontier : Linked(r, m.id)'
      BY <3>1, <3>2
    <3> QED
      BY <3>3
  <2>2. \A r \in look'.frontier : \A s \in Nodes : Linked(r, s)' => s \in look'.seen
    BY <1>3, <1>8, <1>11, <1>14
  <2>3. Ids(look'.new) = Ids(c.new) /\ (Apart(look'.new) <=> Apart(c.new))
    BY <1>8
  <2>4. look'.seen \ Ids(look'.new) = look.seen /\ Ids(look'.new) \subseteq look'.seen
    BY <1>7, <1>8, <2>3
  <2>5. FoundOrRoot' \subseteq look.seen /\ look.seen \cap Answerable' \subseteq FoundOrRoot'
    BY <1>10, <1>11, <1>12 DEF SeenIsFound
  <2>6. Len(look'.found) < NeighbourCap /\ look'.hop <= look'.ask.depth
    BY <1>4, <1>8
  <2>7. Apart(look'.new)
    BY <1>7, <2>3
  <2> QED
    BY <2>1, <2>2, <2>4, <2>5, <2>6, <2>7 DEF PassIsDone
<1>17. Walked'
  BY <1>8, <1>10, <1>12, <1>16 DEF Walked
<1> QED
  BY <1>1, <1>2, <1>8, <1>17 DEF WalkFollows

\* What is taken of a hop: candidates that may be in the answer, each once, and all of them if
\* there is room left.
LEMMA TakenIsNew ==
    ASSUME LookTypes, Len(look.found) < NeighbourCap, Apart(look.new)
    PROVE  /\ Taken \in Seq(Reaches) /\ Len(look.found) + Len(Taken) <= NeighbourCap
           /\ Apart(Taken)
           /\ \A x \in ToSet(Taken) : x \in ToSet(look.new) /\ x.id \in Answerable
           /\ Len(look.found) + Len(Taken) < NeighbourCap =>
                \A x \in ToSet(look.new) : x.id \in Answerable => x \in ToSet(Taken)
<1>1. PICK m \in 0 .. Len(Kept) : /\ Taken = SubSeq(Kept, 1, m) /\ Len(look.found) + m <= NeighbourCap
                                  /\ m < Len(Kept) => Len(look.found) + m = NeighbourCap
  BY TakenFits
<1>2. /\ Kept \in Seq(Reaches) /\ DOMAIN Kept = 1 .. Len(Kept) /\ Len(Kept) \in Nat
      /\ \A k \in 1 .. Len(Kept) : \E i \in KeptPlaces : Kept[k] = look.new[i]
      /\ \A i \in KeptPlaces : \E k \in 1 .. Len(Kept) : Kept[k] = look.new[i]
      /\ Apart(Kept)
  BY KeptFits
<1>3. /\ Taken \in Seq(Reaches) /\ Len(Taken) = m /\ DOMAIN Taken = 1 .. m
      /\ \A i \in 1 .. m : Taken[i] = Kept[i] /\ i \in 1 .. Len(Kept)
  BY <1>1, <1>2, PrefixFits
<1>4. \A x : x \in Allowed <=> x \in Ids(look.new) /\ InAnswer(x)
  BY DEF Allowed, AclFiltered, Readable, MemberRows, OfVersion, InAnswer, Ids
<1>5. Ids(look.new) \subseteq Nodes
  BY FoundFits DEF Ids
<1>6. \A i \in KeptPlaces : look.new[i] \in ToSet(look.new) /\ look.new[i].id \in Answerable
  BY <1>4, <1>5 DEF KeptPlaces, ToSet, Answerable
<1>7. \A x \in ToSet(Taken) : x \in ToSet(look.new) /\ x.id \in Answerable
  <2>1. \A i \in 1 .. m : Taken[i] \in ToSet(look.new) /\ Taken[i].id \in Answerable
    <3> SUFFICES ASSUME NEW i \in 1 .. m
                 PROVE  Taken[i] \in ToSet(look.new) /\ Taken[i].id \in Answerable
      OBVIOUS
    <3>1. i \in 1 .. Len(Kept) /\ Taken[i] = Kept[i]
      BY <1>3
    <3>2. PICK k \in KeptPlaces : Kept[i] = look.new[k]
      BY <1>2, <3>1
    <3> QED
      BY <1>6, <3>1, <3>2
  <2> QED
    BY <1>3, <2>1 DEF ToSet
<1>8. Apart(Taken)
  BY <1>2, <1>3 DEF Apart
<1>9. ASSUME Len(look.found) + m < NeighbourCap, NEW x \in ToSet(look.new), x.id \in Answerable
      PROVE  x \in ToSet(Taken)
  <2>1. m = Len(Kept)
    <3>1. Len(look.found) \in Nat /\ NeighbourCap \in Nat
      BY FoundFits
    <3>2. m < Len(Kept) => Len(look.found) + m = NeighbourCap
      BY <1>1
    <3>3. ~ (m < Len(Kept))
      BY <1>9, <3>1, <3>2
    <3>4. m \in 0 .. Len(Kept) /\ Len(Kept) \in Nat
      BY <1>2
    <3> HIDE DEF Kept
    <3> QED
      BY <3>3, <3>4
  <2>2. PICK i \in DOMAIN look.new : x = look.new[i]
    BY DEF ToSet
  <2>3. i \in KeptPlaces
    BY <1>4, <1>9, <2>2 DEF KeptPlaces, Ids, ToSet, Answerable
  <2>4. PICK k \in 1 .. Len(Kept) : Kept[k] = look.new[i]
    BY <1>2, <2>3
  <2> QED
    BY <1>3, <2>1, <2>2, <2>4 DEF ToSet
<1> QED
  BY <1>1, <1>3, <1>7, <1>8, <1>9

\* A hop takes what may be in the answer: what is within one hop more.
LEMMA WalkAdvances ==
    ASSUME LookTypes, WalkFollows, FilterHop
    PROVE  WalkFollows'
<1> DEFINE frontier == Ids(Taken)
           found == look.found \o Taken
           ball(n) == Ball[n]
           h == look.hop
<1>1. /\ look.pc = "filter" /\ UNCHANGED <<servedSeq, built, until, cut, gone, lookRows>>
      /\ look' = [look EXCEPT !.pc = "edges", !.hop = @ + 1, !.found = @ \o Taken, !.frontier = frontier]
  BY Zenon DEF FilterHop, Goes, Taken, Kept, KeptPlaces, Allowed, Ids
<1>2. look \in Looks /\ look.pc \in GraphSteps /\ Walked /\ PassIsDone /\ lookRows = <<>>
  BY <1>1 DEF LookTypes, GraphSteps, WalkFollows, Walked
<1>3. Growing /\ Len(look.found) < NeighbourCap /\ h <= look.ask.depth
  BY <1>2 DEF Walked, PassIsDone
<1>4. /\ look.found \in Seq(Reaches) /\ h \in Nat /\ look.ask.depth \in Nat /\ NeighbourCap \in Nat
      /\ h \in 1 .. look.ask.depth + 1
  BY <1>2, FoundFits DEF Walked
<1>5. /\ Taken \in Seq(Reaches) /\ Len(look.found) + Len(Taken) <= NeighbourCap
      /\ Apart(Taken)
      /\ \A x \in ToSet(Taken) : x \in ToSet(look.new) /\ x.id \in Answerable
      /\ Len(look.found) + Len(Taken) < NeighbourCap =>
           \A x \in ToSet(look.new) : x.id \in Answerable => x \in ToSet(Taken)
  BY <1>2, <1>3, TakenIsNew DEF PassIsDone
<1> HIDE DEF found, frontier
<1>6. /\ Len(found) = Len(look.found) + Len(Taken) /\ DOMAIN found = 1 .. Len(look.found) + Len(Taken)
      /\ DOMAIN look.found = 1 .. Len(look.found) /\ DOMAIN Taken = 1 .. Len(Taken)
      /\ \A i \in 1 .. Len(look.found) : found[i] = look.found[i]
      /\ \A i \in 1 .. Len(look.found) + Len(Taken) :
           i \in 1 .. Len(look.found) \/ (/\ i - Len(look.found) \in 1 .. Len(Taken)
                                          /\ found[i] = Taken[i - Len(look.found)])
      /\ ToSet(found) = ToSet(look.found) \union ToSet(Taken)
  BY <1>4, <1>5, JoinFits DEF found
<1>7. /\ look'.pc = "edges" /\ look'.hop = h + 1 /\ look'.found = found /\ look'.frontier = frontier
      /\ look'.seen = look.seen /\ look'.ask = look.ask /\ look'.version = look.version
  BY <1>1, <1>2 DEF Looks, found
<1>8. [LookNext]_lookVars
  BY DEF LookNext
<1>9. /\ \A n \in Nat : Ball'[n] = ball(n)
      /\ Answerable' = Answerable /\ Answerable \subseteq Nodes
      /\ \A r, s \in Nodes : Linked(r, s)' <=> Linked(r, s)
  BY <1>2, <1>7, <1>8, BallStays, AnswerableStays, LinksStay DEF Answerable
<1>10. /\ h - 1 \in Nat /\ h \in Nat /\ (h - 1) + 1 = h
       /\ ball(h) = ball(h - 1) \union NextTo(ball(h - 1))
       /\ ball(h - 1) \subseteq Answerable
  <2>1. h - 1 \in Nat /\ h \in Nat /\ (h - 1) + 1 = h
    BY <1>4
  <2> QED
    BY <1>2, <2>1, BallIsThere, BallInside DEF BallGrows
<1>11. /\ look.frontier \subseteq ball(h - 1) /\ ball(h - 1) \subseteq FoundOrRoot
       /\ \A r \in ball(h - 1) \ look.frontier : \A s \in Answerable : Linked(r, s) => s \in ball(h - 1)
  BY <1>3 DEF Growing
<1>12. /\ FoundOrRoot \subseteq look.seen \ Ids(look.new)
       /\ (look.seen \ Ids(look.new)) \cap Answerable \subseteq FoundOrRoot
       /\ Ids(look.new) \subseteq look.seen
       /\ \A m \in ToSet(look.new) : m.distance = h /\ \E r \in look.frontier : Linked(r, m.id)
       /\ \A r \in look.frontier : \A s \in Nodes : Linked(r, s) => s \in look.seen
  BY <1>2 DEF PassIsDone
<1>13. frontier \subseteq Ids(look.new) /\ frontier \subseteq Answerable
  BY <1>5 DEF frontier, Ids
<1>14. FoundOrRoot' = FoundOrRoot \union frontier
  BY <1>6, <1>7 DEF FoundOrRoot, Ids, frontier
<1>15. \A n \in ToSet(look.found) : /\ n.distance \in 1 .. h - 1 /\ n.id \in ball(n.distance)
                                    /\ n.id \notin ball(n.distance - 1)
                                    /\ ball(n.distance - 1) \subseteq FoundOrRoot
  BY <1>2 DEF Walked, FoundNearest
<1>16. FoundOrRoot \cap Answerable \subseteq ball(h - 1)
  <2>1. \A n \in ToSet(look.found) : n.id \in ball(h - 1)
    <3>1. \A k \in 0 .. h - 1 : ball(k) \subseteq ball(h - 1)
      BY <1>2, <1>10, BallInside
    <3>2. \A d \in 1 .. h - 1 : d \in 0 .. h - 1
      BY <1>10
    <3> HIDE DEF h, ball
    <3> QED
      BY <1>15, <3>1, <3>2
  <2>2. look.ask.root \in Answerable => look.ask.root \in ball(h - 1)
    <3>1. ball(0) \subseteq ball(h - 1) /\ ball(0) = WalkRoot
      <4>1. 0 \in 0 .. h - 1
        BY <1>10
      <4> QED
        BY <1>2, <1>10, <4>1, BallInside, BallIsThere DEF BallGrows
    <3> HIDE DEF ball
    <3> QED
      BY <3>1 DEF WalkRoot, Answerable
  <2> QED
    BY <2>1, <2>2 DEF FoundOrRoot, Ids
<1> HIDE DEF ball, h
<1>17. Apart(found)
  <2> SUFFICES ASSUME NEW i \in DOMAIN found, NEW j \in DOMAIN found, found[i].id = found[j].id
               PROVE  i = j
    BY DEF Apart
  <2> DEFINE l == Len(look.found)
  <2>0. l \in Nat /\ Len(Taken) \in Nat /\ i \in Int /\ j \in Int
    BY <1>4, <1>5, <1>6
  <2>1. \A k \in 1 .. l : found[k].id \in look.seen \ Ids(look.new)
    <3>1. \A k \in 1 .. l : found[k].id \in Ids(look.found)
      BY <1>6 DEF Ids, ToSet
    <3> QED
      BY <1>12, <3>1 DEF FoundOrRoot
  <2>2. \A k \in 1 .. Len(Taken) : Taken[k].id \in Ids(look.new)
    <3>1. \A k \in 1 .. Len(Taken) : Taken[k].id \in frontier
      BY <1>6 DEF frontier, Ids, ToSet
    <3> QED
      BY <1>13, <3>1
  <2>3. CASE i \in 1 .. l /\ j \in 1 .. l
    <3>1. Apart(look.found)
      BY <1>2 DEF Walked
    <3> QED
      BY <1>6, <2>3, <3>1 DEF Apart
  <2>4. CASE i \notin 1 .. l /\ j \notin 1 .. l
    <3>1. /\ i - l \in DOMAIN Taken /\ j - l \in DOMAIN Taken
          /\ Taken[i - l].id = Taken[j - l].id
      BY <1>6, <2>4
    <3>2. i - l = j - l
      BY <1>5, <3>1 DEF Apart
    <3> QED
      BY <2>0, <3>2
  <2>5. CASE i \in 1 .. l /\ j \notin 1 .. l
    BY <1>6, <2>1, <2>2, <2>5
  <2>6. CASE i \notin 1 .. l /\ j \in 1 .. l
    <3>1. found[i].id \in Ids(look.new)
      BY <1>6, <2>2, <2>6
    <3>2. found[j].id \in look.seen \ Ids(look.new)
      BY <2>1, <2>6
    <3> QED
      BY <3>1, <3>2
  <2> QED
    BY <2>3, <2>4, <2>5, <2>6
<1>18. ASSUME NEW x \in ToSet(Taken)
       PROVE  x.distance = h /\ x.id \in ball(h) /\ x.id \notin ball(h - 1)
  <2>1. x \in ToSet(look.new) /\ x.id \in Answerable /\ x.id \in Ids(look.new)
    BY <1>5 DEF Ids
  <2>2. PICK r \in look.frontier : Linked(r, x.id)
    BY <1>12, <2>1
  <2>3. x.id \in NextTo(ball(h - 1))
    BY <1>11, <2>1, <2>2 DEF NextTo, Answerable
  <2> QED
    BY <1>10, <1>11, <1>12, <2>1, <2>3
<1>19. FoundNearest'
  <2>1. \A n \in ToSet(look.found) : /\ n.distance \in 1 .. h /\ n.distance \in Nat /\ n.distance - 1 \in Nat
                                     /\ n.id \in ball(n.distance)
                                     /\ n.id \notin ball(n.distance - 1)
                                     /\ ball(n.distance - 1) \subseteq FoundOrRoot
    <3>1. \A d \in 1 .. h - 1 : d \in 1 .. h /\ d \in Nat /\ d - 1 \in Nat
      BY <1>10
    <3> QED
      BY <1>15, <3>1
  <2>2. \A n \in ToSet(Taken) : /\ n.distance \in 1 .. h /\ n.distance \in Nat /\ n.distance - 1 \in Nat
                                /\ n.id \in ball(n.distance)
                                /\ n.id \notin ball(n.distance - 1)
                                /\ ball(n.distance - 1) \subseteq FoundOrRoot
    <3>1. h \in 1 .. h
      BY <1>10
    <3> QED
      BY <1>10, <1>11, <1>18, <3>1
  <2>3. \A n \in ToSet(found) : /\ n.distance \in 1 .. h
                                /\ n.id \in Ball'[n.distance]
                                /\ n.id \notin Ball'[n.distance - 1]
                                /\ Ball'[n.distance - 1] \subseteq FoundOrRoot'
    BY <1>6, <1>9, <1>14, <2>1, <2>2
  <2>4. look'.hop - 1 = h
    BY <1>7, <1>10
  <2>5. ToSet(look'.found) = ToSet(found)
    BY <1>7
  <2>6. \A n \in ToSet(look'.found) : /\ n.distance \in 1 .. look'.hop - 1
                                /\ n.id \in Ball'[n.distance]
                                /\ n.id \notin Ball'[n.distance - 1]
                                /\ Ball'[n.distance - 1] \subseteq FoundOrRoot'
    BY <2>3, <2>4, <2>5
  <2> QED
    BY <2>6 DEF FoundNearest
<1>20. ASSUME Len(found) < NeighbourCap PROVE Growing' /\ SeenIsFound'
  <2>1. \A x \in ToSet(look.new) : x.id \in Answerable => x \in ToSet(Taken)
    BY <1>5, <1>6, <1>20
  <2>2. Ids(look.new) \cap Answerable \subseteq frontier
    BY <2>1 DEF Ids, frontier
  <2>3. look.seen \cap Answerable \subseteq FoundOrRoot \union frontier
    BY <1>12, <2>2
  <2>4. SeenIsFound'
    <3>1. FoundOrRoot' \subseteq look.seen /\ look.seen \cap Answerable \subseteq FoundOrRoot'
      BY <1>12, <1>13, <1>14, <2>3
    <3> QED
      BY <1>7, <1>9, <3>1 DEF SeenIsFound
  <2>5. ASSUME NEW s \in ball(h) PROVE s \in ball(h - 1) \/ s \in frontier
    <3>1. CASE s \in ball(h - 1)
      BY <3>1
    <3>2. CASE s \in NextTo(ball(h - 1))
      <4>1. PICK r \in ball(h - 1) : Linked(r, s) /\ s \in Answerable /\ s \in Nodes
        BY <3>2 DEF NextTo, Answerable
      <4>2. CASE r \in look.frontier
        <5>1. s \in FoundOrRoot \union frontier
          BY <1>12, <2>3, <4>1, <4>2
        <5> QED
          BY <1>16, <4>1, <5>1
      <4>3. CASE r \notin look.frontier
        BY <1>11, <4>1, <4>3
      <4> QED
        BY <4>2, <4>3
    <3> QED
      BY <1>10, <3>1, <3>2
  <2>6. frontier \subseteq ball(h)
    BY <1>18 DEF frontier, Ids
  <2>7. ball(h) \subseteq FoundOrRoot'
    BY <1>11, <1>14, <2>5
  <2>8. ASSUME NEW r \in ball(h) \ frontier, NEW s \in Answerable, Linked(r, s) PROVE s \in ball(h)
    <3>1. r \in ball(h - 1)
      BY <2>5
    <3>2. s \in NextTo(ball(h - 1))
      BY <2>8, <3>1 DEF NextTo, Answerable
    <3> QED
      BY <1>10, <3>2
  <2>9. look'.hop - 1 = h /\ Ball'[h] = ball(h) /\ ball(h) \subseteq Nodes
    <3>1. look'.hop - 1 = h /\ Ball'[h] = ball(h)
      BY <1>7, <1>9, <1>10
    <3>2. ball(h) \subseteq Answerable
      BY <1>2, <1>10, BallInside DEF ball
    <3> QED
      BY <1>9, <3>1, <3>2
  <2>10. /\ frontier \subseteq Ball'[h] /\ Ball'[h] \subseteq FoundOrRoot'
         /\ \A r \in Ball'[h] \ frontier : \A s \in Answerable : Linked(r, s)' => s \in Ball'[h]
    BY <1>9, <2>6, <2>7, <2>8, <2>9
  <2>11. Growing'
    BY <1>7, <1>9, <2>9, <2>10 DEF Growing
  <2> QED
    BY <2>4, <2>11
<1>21. look'.hop \in 1 .. look'.ask.depth + 1
  BY <1>3, <1>4, <1>7 DEF h
<1>22. Apart(look.found)' /\ Len(look'.found) <= NeighbourCap
  BY <1>5, <1>6, <1>7, <1>17 DEF Apart
<1>23. Walked'
  BY <1>7, <1>19, <1>20, <1>21, <1>22 DEF Walked
<1> QED
  BY <1>1, <1>2, <1>7, <1>23 DEF WalkFollows

------------------------------------------------------------------------------
(* The inductive invariant of the calls. *)

\* The calls and what they hold, at every state.
LookFollows == LookTypes /\ CardsFollow /\ WalkFollows

\* No call has begun.
LEMMA LooksBegin == LookInit => LookFollows
<1> SUFFICES ASSUME LookInit PROVE LookFollows
  OBVIOUS
<1>1. look = NoLook /\ lookRows = <<>> /\ servedSeq \in 0 .. 1 /\ built = servedSeq
      /\ until = [r \in Nodes |-> Open] /\ cut = [i \in TieIds |-> Open]
  BY DEF LookInit
<1>2. MaxServed \in Nat /\ Open \in Int
  BY RetrievalAssumption DEF Open
<1>3. <<>> \in RowSets
  <2>1. <<>> \in [{} -> [closed : Int, gone : BOOLEAN]] /\ {} \in SUBSET Nodes
    OBVIOUS
  <2> QED
    BY <2>1 DEF RowSets
<1>4. NoLook \in Looks
  <2>1. <<>> \in Seq(Cards) /\ <<>> \in Seq(Reaches)
    OBVIOUS
  <2> QED
    BY <1>3, <2>1 DEF NoLook, Looks
<1>5. NoLook.pc = "idle" /\ NoLook.version = 0 /\ NoLook.found = <<>>
  BY DEF NoLook
<1>6. until \in [Nodes -> Int] /\ cut \in [TieIds -> Int]
  BY <1>1, <1>2
<1>7. LookTypes
  BY <1>1, <1>2, <1>4, <1>5, <1>6 DEF LookTypes, CardSteps, GraphSteps
<1>8. CardsFollow
  BY <1>1, <1>5 DEF CardsFollow, CardsAreTheBest
<1>9. WalkFollows
  BY <1>1, <1>5 DEF WalkFollows
<1> QED
  BY <1>7, <1>8, <1>9 DEF LookFollows

\* Every step keeps the types.
LEMMA LookTypesStep == LookFollows /\ [LookNext]_lookVars => LookTypes'
<1> SUFFICES ASSUME LookTypes, CardsFollow, WalkFollows, [LookNext]_lookVars PROVE LookTypes'
  BY DEF LookFollows
<1>1. CASE UNCHANGED lookVars
  BY <1>1 DEF lookVars, LookTypes, TieIds
<1>2. CASE Finalize \/ Activates
  BY <1>2, BuilderTypes
<1>3. CASE Hydrate \/ FetchSymbols \/ Weigh \/ Rank \/ Collapse \/ Cap
  <2>1. look.pc \in {"rank", "collapse", "cap"} =>
          OneEach(look.cards) /\ \A c \in look.cards : c.id \in look.hits
    BY DEF CardsFollow, CardsOfHits
  <2>2. look.pc = "collapse" => ToSet(look.ranked) = look.cards /\ Ordered(look.ranked)
    BY DEF CardsFollow
  <2> QED
    BY <1>3, <2>1, <2>2, CardStepTypes
<1>4. CASE Pin \/ ReadRoot \/ FollowEdges \/ FilterHop \/ LogNeighbours
  <2>1. look.pc = "filter" => /\ Len(look.found) < NeighbourCap
                              /\ \A n \in ToSet(look.new) : n.id \in look.seen
    BY DEF WalkFollows, Walked, PassIsDone, Ids
  <2> QED
    BY <1>4, <2>1, WalkTypes
<1> QED
  BY <1>1, <1>2, <1>3, <1>4 DEF LookNext

\* What the steps of one read leave of the other.
LEMMA OtherRead ==
    ASSUME LookTypes, WalkFollows
    PROVE  /\ Pin => look'.pc \in {"failed", "hydrate", "root"} /\ WalkFollows'
           /\ Hydrate \/ FetchSymbols \/ Weigh \/ Rank \/ Collapse \/ Cap =>
                look'.pc \in CardSteps \ {"hydrate"} /\ WalkFollows'
           /\ ReadRoot \/ FollowEdges \/ FilterHop \/ LogNeighbours => look'.pc \in GraphSteps \ {"root"}
<1>0. look \in Looks
  BY DEF LookTypes
<1>1. ASSUME Pin PROVE look'.pc \in {"failed", "hydrate", "root"} /\ WalkFollows'
  <2>1. look.pc = "idle" /\ look.found = <<>> /\ lookRows = <<>>
    BY <1>1 DEF Pin, Goes, WalkFollows
  <2>2. look'.pc \in {"failed", "hydrate", "root"} /\ look'.found = look.found
        /\ (look'.pc # "failed" => lookRows' = lookRows)
    BY <1>0, <1>1 DEF Pin, Goes, Looks
  <2> QED
    BY <2>1, <2>2 DEF WalkFollows
<1>2. ASSUME Hydrate \/ FetchSymbols \/ Weigh \/ Rank \/ Collapse \/ Cap
      PROVE  look'.pc \in CardSteps \ {"hydrate"} /\ WalkFollows'
  <2>1. /\ look.pc \in CardSteps /\ look'.pc \in CardSteps \ {"hydrate"} /\ lookRows' = lookRows
    BY <1>0, <1>2 DEF Hydrate, FetchSymbols, Weigh, Rank, Collapse, Cap, Goes, Looks, CardSteps
  <2> QED
    BY <2>1 DEF WalkFollows, CardSteps
<1>3. ASSUME ReadRoot \/ FollowEdges \/ FilterHop \/ LogNeighbours PROVE look'.pc \in GraphSteps \ {"root"}
  BY <1>0, <1>3 DEF ReadRoot, FollowEdges, FilterHop, LogNeighbours, Goes, Looks, GraphSteps
<1> QED
  BY <1>1, <1>2, <1>3

\* The last statement of a walk writes the one row.
LEMMA WalkIsLogged ==
    ASSUME LookTypes, WalkFollows, LogNeighbours
    PROVE  WalkFollows'
<1>1. /\ look.pc = "edges" /\ NoMoreHops /\ look' = [look EXCEPT !.pc = "neighbours"]
      /\ lookRows' = Append(lookRows, [version |-> look.version, found |-> Ids(look.found)])
  BY DEF LogNeighbours, Ids
<1>2. look \in Looks /\ Walked /\ lookRows = <<>>
  BY <1>1 DEF LookTypes, WalkFollows
<1>3. /\ look'.pc = "neighbours" /\ look'.hop = look.hop /\ look'.found = look.found
      /\ look'.frontier = look.frontier /\ look'.ask = look.ask /\ look'.version = look.version
  BY <1>1, <1>2 DEF Looks
<1>4. [LookNext]_lookVars
  BY DEF LookNext
<1>5. /\ look'.hop \in 1 .. look'.ask.depth + 1
      /\ Apart(look.found)' /\ Len(look'.found) <= NeighbourCap
      /\ FoundOrRoot' = FoundOrRoot /\ FoundNearest' /\ (Growing => Growing')
  BY <1>1, <1>2, <1>3, <1>4, WalkCarries
<1>6. Walked'
  BY <1>2, <1>3, <1>5 DEF Walked
<1>7. NoMoreHops'
  BY <1>1, <1>3 DEF NoMoreHops
<1>8. lookRows' = <<[version |-> look'.version, found |-> Ids(look'.found)]>>
  BY <1>1, <1>2, <1>3
<1> QED
  BY <1>3, <1>6, <1>7, <1>8 DEF WalkFollows

\* Every step carries both reads on.
LEMMA LookStep == LookFollows /\ [LookNext]_lookVars => LookFollows'
<1> SUFFICES ASSUME LookFollows, [LookNext]_lookVars PROVE LookFollows'
  OBVIOUS
<1>0. LookTypes' /\ LookTypes /\ CardsFollow /\ WalkFollows
  BY LookTypesStep DEF LookFollows
<1>1. CASE look' = look /\ lookRows' = lookRows
  BY <1>0, <1>1, CardsWait, WalkWaits DEF LookFollows
<1>2. ASSUME look'.pc \in {"failed", "hydrate", "root"} \union GraphSteps PROVE CardsFollow'
  BY <1>2 DEF CardsFollow, CardsAreTheBest, GraphSteps
<1>3. CASE Pin
  BY <1>0, <1>2, <1>3, OtherRead DEF LookFollows
<1>4. CASE Hydrate \/ FetchSymbols \/ Weigh \/ Rank \/ Collapse \/ Cap
  BY <1>0, <1>4, OtherRead, CardsStep DEF LookFollows
<1>5. CASE ReadRoot \/ FollowEdges \/ FilterHop \/ LogNeighbours
  BY <1>0, <1>2, <1>5, OtherRead, WalkBegins, WalkPasses, WalkAdvances, WalkIsLogged DEF LookFollows
<1> QED
  BY <1>1, <1>3, <1>4, <1>5 DEF LookNext, Finalize, Activates, lookVars

\* However the builder commits between the statements of a read, ranked evidence is the best of one
\* version and a neighbourhood is the nearest of it (retrieve_cards, get_neighbors).
THEOREM RetrievalSafety == LookSpec => []RetrievalIsSound
<1>1. LookFollows => RetrievalIsSound
  BY WalkEnds DEF LookFollows, CardsFollow, RetrievalIsSound
<1> QED
  BY <1>1, LooksBegin, LookStep, PTL DEF LookSpec

------------------------------------------------------------------------------
(* kb_agent: what its state is made of *)

\* The calls of the model, what a call answers, and the notes of the transcript.
ToolCalls == UNION {ToSet(turn) : turn \in Turns}
\* The answers of the search.
Answers == [did : {"searched"}, rows : SUBSET Nodes, cost : Nat]
\* What any tool answers.
Outcomes == Answers \union [did : {"blocked", "failed", "read", "error", "edited", "linted"}]
\* What the transcript is made of.
Notes == [role : {"user", "nudge"}] \union [role : {"assistant"}, calls : Turns]
         \union [role : {"tool"}, outs : Seq(Outcomes)]

\* Lines of files.
FirstLines == UNION {UNION {ToSet(first[f]) : f \in DOMAIN first} : first \in FirstRepos}
\* The calls that write.
EditCalls == {c \in ToolCalls : c.tool = "edit"}
\* The lines they bring.
NewLines == UNION {ToSet(call.new) : call \in EditCalls}
\* The lines a file can hold.
Lines == FirstLines \union NewLines

\* The process: where it is, what it pinned, what is left of its budgets, what it has to answer.
Coders ==
    [pc : {"start", "model", "retry", "tools", "report", "done"}, kb : BOOLEAN, version : Nat,
     left : Int, tokens : Int, offered : BOOLEAN, steps : Nat, calls : Nat,
     pending : Seq(ToolCalls), outs : Seq(Outcomes), exit : {0, 1}]

\* Types of the process and of the files; the version is one that was served.
AgentTypes ==
    /\ LookTypes
    /\ coder \in Coders /\ coder.version <= servedSeq
    /\ transcript \in Seq(Notes)
    /\ \A f \in DOMAIN repo : repo[f] \in Seq(Lines)

\* A turn is a sequence of calls, and a call of the search ranks rows.
LEMMA TurnFits ==
    /\ \A turn \in Turns : turn \in Seq(ToolCalls)
    /\ \A call \in ToolCalls : /\ call.tool = "kb_search" => DOMAIN call.query \subseteq Nodes
                               /\ call.tool = "edit" => call.new \in Seq(Lines)
<1>1. ASSUME NEW turn \in Turns PROVE turn \in Seq(ToolCalls)
  <2>1. turn \in Seq(ToSet(turn)) /\ ToSet(turn) \subseteq ToolCalls
    BY AgentAssumption DEF ToolCalls
  <2> QED
    BY <2>1
<1>2. ASSUME NEW call \in ToolCalls
      PROVE  /\ call.tool = "kb_search" => DOMAIN call.query \subseteq Nodes
             /\ call.tool = "edit" => call.new \in Seq(Lines)
  <2>1. /\ call.tool = "kb_search" => DOMAIN call.query \subseteq Nodes
        /\ call.tool = "edit" => call.new \in Seq(ToSet(call.new))
    BY AgentAssumption DEF ToolCalls
  <2>2. ASSUME call.tool = "edit" PROVE ToSet(call.new) \subseteq Lines
    <3>1. call \in EditCalls
      BY <2>2 DEF EditCalls
    <3> QED
      BY <3>1, Zenon DEF Lines, NewLines
  <2>3. ASSUME call.tool = "edit" PROVE call.new \in Seq(Lines)
    BY <2>1, <2>2, <2>3
  <2> QED
    BY <2>1, <2>3
<1> QED
  BY <1>1, <1>2

\* The answer of a search: rows of the pinned version, at a price.
LEMMA AnswerFits ==
    ASSUME AgentTypes, NEW query, DOMAIN query \subseteq Nodes
    PROVE  /\ [did |-> "searched", rows |-> TopOf(query),
               cost |-> AnswerTokens + RowTokens * Cardinality(TopOf(query))] \in Answers
           /\ \A r \in TopOf(query) : r \in Nodes /\ OfVersion(Node[r].born, until[r], coder.version)
<1>1. TopOf(query) \subseteq Nodes /\ \A r \in TopOf(query) : OfVersion(Node[r].born, until[r], coder.version)
  BY DEF TopOf, KbRows
<1>2. Cardinality(TopOf(query)) \in Nat
  BY <1>1, RetrievalAssumption, FS_Subset, FS_CardinalityType
<1> DEFINE cost == AnswerTokens + RowTokens * Cardinality(TopOf(query))
<1>3. cost \in Nat
  <2>1. AnswerTokens \in Nat /\ RowTokens \in Nat
    BY AgentAssumption
  <2> DEFINE c == Cardinality(TopOf(query))
  <2> HIDE DEF c
  <2>2. c \in Nat
    BY <1>2 DEF c
  <2>3. RowTokens * c \in Nat
    BY <2>1, <2>2
  <2> QED
    BY <2>1, <2>3 DEF c
<1> HIDE DEF cost
<1>4. [did |-> "searched", rows |-> TopOf(query), cost |-> cost] \in Answers
  <2> DEFINE rows == TopOf(query)
  <2>1. rows \in SUBSET Nodes
    BY <1>1
  <2> HIDE DEF rows
  <2>2. [did |-> "searched", rows |-> rows, cost |-> cost] \in Answers
    BY <1>3, <2>1 DEF Answers
  <2> QED
    BY <2>2 DEF rows
<1> QED
  BY <1>1, <1>4 DEF cost

------------------------------------------------------------------------------
(* What the tools answered *)

\* What a note adds to what the tools answered.
OutsOf(note) == IF note.role = "tool" THEN note.outs ELSE <<>>
\* What the tools answered, turn after turn.
FlatOuts == FlattenSeq([i \in DOMAIN transcript |-> OutsOf(transcript[i])])

\* It is a sequence of outcomes.
LEMMA FlatOutsFits ==
    ASSUME transcript \in Seq(Notes)
    PROVE  /\ [i \in DOMAIN transcript |-> OutsOf(transcript[i])] \in Seq(Seq(Outcomes))
           /\ FlatOuts \in Seq(Outcomes)
<1> DEFINE S == [i \in DOMAIN transcript |-> OutsOf(transcript[i])]
<1>1. \A i \in DOMAIN transcript : OutsOf(transcript[i]) \in Seq(Outcomes)
  <2>1. ASSUME NEW note \in Notes PROVE OutsOf(note) \in Seq(Outcomes)
    <3>1. <<>> \in Seq(Outcomes)
      OBVIOUS
    <3>2. note.role = "tool" => note.outs \in Seq(Outcomes)
      <4> QED
        BY DEF Notes
    <3> QED
      BY <3>1, <3>2 DEF OutsOf
  <2>2. \A i \in DOMAIN transcript : transcript[i] \in Notes
    <3> QED
      OBVIOUS
  <2> QED
    BY <2>1, <2>2
<1>2. S \in Seq(Seq(Outcomes))
  <2>1. DOMAIN transcript = 1 .. Len(transcript) /\ Len(transcript) \in Nat
    <3> QED
      OBVIOUS
  <2> DEFINE A == Seq(Outcomes)
             n == Len(transcript)
             o(i) == OutsOf(transcript[i])
  <2>2. n \in Nat /\ (\A i \in 1 .. n : o(i) \in A) /\ S = [i \in 1 .. n |-> o(i)]
    BY <1>1, <2>1
  <2> HIDE DEF A, n, o, S
  <2>3. S \in Seq(A)
    BY <2>2
  <2> QED
    BY <2>3 DEF A
<1> HIDE DEF S
<1>3. FlattenSeq(S) \in Seq(Outcomes)
  BY <1>2, <<>> \in Seq(Outcomes), FlattenGrows
<1> QED
  BY <1>2, <1>3 DEF S, FlatOuts

\* A note of the transcript adds its outcomes.
LEMMA NoteAdds ==
    ASSUME transcript \in Seq(Notes), NEW note \in Notes, transcript' = Append(transcript, note)
    PROVE  FlatOuts' = FlatOuts \o OutsOf(note)
<1> DEFINE S == [i \in DOMAIN transcript |-> OutsOf(transcript[i])]
           T == [i \in DOMAIN transcript' |-> OutsOf(transcript'[i])]
           n == Len(transcript)
<1>1. /\ n \in Nat /\ DOMAIN transcript = 1 .. n /\ DOMAIN transcript' = 1 .. n + 1
      /\ \A i \in 1 .. n : transcript'[i] = transcript[i]
      /\ transcript'[n + 1] = note
  <2> QED
    BY AppendHolds
<1>2. S \in Seq(Seq(Outcomes)) /\ Len(S) = n
  <2> QED
    BY <1>1, FlatOutsFits
<1>3. OutsOf(note) \in Seq(Outcomes)
  <2>1. <<>> \in Seq(Outcomes)
    OBVIOUS
  <2> QED
    BY <2>1 DEF OutsOf, Notes
<1>4. T = Append(S, OutsOf(note))
  <2> DEFINE A == Seq(Outcomes)
             o == OutsOf(note)
  <2>1. S \in Seq(A) /\ o \in A /\ Len(S) = n
    BY <1>2, <1>3
  <2>2. \A i \in 1 .. n : S[i] = OutsOf(transcript[i])
    BY <1>1
  <2>3. T = [i \in 1 .. n + 1 |-> IF i = n + 1 THEN o ELSE S[i]]
    <3>1. \A i \in 1 .. n + 1 : i # n + 1 => i \in 1 .. n
      BY <1>1
    <3> QED
      BY <1>1, <2>2, <3>1
  <2> HIDE DEF A, o, S, T, n
  <2> DEFINE q == Append(S, o)
  <2>4. q \in Seq(A) /\ Len(q) = n + 1 /\ (\A i \in 1 .. n : q[i] = S[i]) /\ q[n + 1] = o
    BY <2>1, AppendHolds
  <2> HIDE DEF q
  <2>5. q = [i \in 1 .. n + 1 |-> q[i]]
    BY <2>4
  <2>6. \A i \in 1 .. n + 1 : i # n + 1 => i \in 1 .. n
    BY <1>1
  <2> QED
    BY <2>3, <2>4, <2>5, <2>6 DEF o, q
<1> HIDE DEF S, T
<1>5. FlattenSeq(T) = FlattenSeq(S) \o OutsOf(note)
  BY <1>2, <1>3, <1>4, FlattenGrows
<1> QED
  BY <1>5 DEF S, T, FlatOuts

\* The outcomes of a kind among some outcomes.
DidIn(outs, kinds) == Picked(outs, {i \in DOMAIN outs : outs[i].did \in kinds})

\* One more outcome is one more of its kind.
LEMMA DidGrows ==
    ASSUME NEW outs \in Seq(Outcomes), NEW o \in Outcomes, NEW kinds
    PROVE  /\ DidIn(outs, kinds) \in Seq(Outcomes)
           /\ DidIn(OneMore(outs, o), kinds) = IF o.did \in kinds THEN OneMore(DidIn(outs, kinds), o)
                                              ELSE DidIn(outs, kinds)
<1> DEFINE n == Len(outs)
           t == OneMore(outs, o)
           P == {i \in DOMAIN outs : outs[i].did \in kinds}
           R == {i \in DOMAIN t : t[i].did \in kinds}
<1>1. /\ n \in Nat /\ DOMAIN outs = 1 .. n /\ DOMAIN t = 1 .. n + 1
      /\ \A i \in 1 .. n : t[i] = outs[i]
      /\ t[n + 1] = o
  <2> QED
    BY AppendHolds DEF OneMore
<1> HIDE DEF t, n
<1>2. R = IF o.did \in kinds THEN P \union {n + 1} ELSE P
  <2>1. \A i \in 1 .. n + 1 : i # n + 1 => i \in 1 .. n
    BY <1>1
  <2>2. \A i \in 1 .. n : i \in 1 .. n + 1 /\ i # n + 1
    BY <1>1
  <2>3. n + 1 \in 1 .. n + 1
    BY <1>1
  <2> QED
    BY <1>1, <2>1, <2>2, <2>3
<1>3. P \in SUBSET (1 .. Len(outs))
  BY <1>1 DEF n
<1> HIDE DEF P, R
<1>4. /\ Picked(outs, P) \in Seq(Outcomes)
      /\ Picked(t, P) = Picked(outs, P)
      /\ Picked(t, P \union {Len(outs) + 1}) = OneMore(Picked(outs, P), o)
  <2>1. t = OneMore(outs, o)
    BY DEF t
  <2> QED
    BY <1>3, <2>1, PickedGrows
<1>5. DidIn(outs, kinds) = Picked(outs, P) /\ DidIn(t, kinds) = Picked(t, R)
  BY DEF DidIn, P, R
<1> QED
  BY <1>2, <1>4, <1>5 DEF t, n

\* The outcomes there are of a kind.
OfKind(kinds) == {o \in Outcomes : o.did \in kinds}

\* The outcomes of a kind are of that kind.
LEMMA DidFits ==
    ASSUME NEW outs \in Seq(Outcomes), NEW kinds
    PROVE  /\ DidIn(outs, kinds) \in Seq(OfKind(kinds))
           /\ \A i \in DOMAIN outs : outs[i].did \in kinds =>
                \E k \in DOMAIN DidIn(outs, kinds) : DidIn(outs, kinds)[k] = outs[i]
           /\ \A k \in DOMAIN DidIn(outs, kinds) : \E i \in DOMAIN outs : DidIn(outs, kinds)[k] = outs[i]
<1> DEFINE n == Len(outs)
           P == {i \in DOMAIN outs : outs[i].did \in kinds}
           B == OfKind(kinds)
<1>1. n \in Nat /\ DOMAIN outs = 1 .. n /\ \A i \in 1 .. n : outs[i] \in Outcomes
  <2> QED
    OBVIOUS
<1>2. P \subseteq 1 .. n /\ \A i \in P : outs[i] \in B /\ i \in Int
  BY <1>1 DEF OfKind
<1>3. IsFiniteSet(P)
  <2>1. IsFiniteSet(1 .. n)
    BY <1>1, FS_Interval
  <2> HIDE DEF P, n
  <2> QED
    BY <1>2, <2>1, FS_Subset
<1> HIDE DEF n, P, B
<1>4. /\ Cardinality(P) \in Nat
      /\ DOMAIN Picked(outs, P) = 1 .. Cardinality(P)
      /\ \A k \in 1 .. Cardinality(P) : KthOf(P, k) \in P /\ Picked(outs, P)[k] = outs[KthOf(P, k)]
      /\ \A i \in P : \E k \in 1 .. Cardinality(P) : KthOf(P, k) = i
  BY <1>2, <1>3, PickedFits
<1>5. Picked(outs, P) \in Seq(B)
  <2> DEFINE c == Cardinality(P)
  <2>1. \A k \in 1 .. c : outs[KthOf(P, k)] \in B
    BY <1>2, <1>4
  <2>2. Picked(outs, P) = [k \in 1 .. c |-> outs[KthOf(P, k)]]
    BY DEF Picked
  <2>3. c \in Nat
    BY <1>4
  <2> HIDE DEF c
  <2> QED
    BY <2>1, <2>2, <2>3
<1>6. DidIn(outs, kinds) = Picked(outs, P)
  BY DEF DidIn, P
<1>7. \A i \in DOMAIN outs : outs[i].did \in kinds => i \in P
  BY DEF P
<1>8. P \subseteq DOMAIN outs
  BY DEF P
<1> QED
  BY <1>4, <1>5, <1>6, <1>7, <1>8 DEF B

\* A search more costs what it costs.
LEMMA CostGrows ==
    ASSUME NEW s \in Seq(Answers), NEW o \in Answers
    PROVE  TokensOf(s) \in Int /\ TokensOf(<<>>) = 0 /\ TokensOf(OneMore(s, o)) = TokensOf(s) + o.cost
<1> DEFINE n == Len(s)
           t == OneMore(s, o)
           S == [i \in DOMAIN s |-> s[i].cost]
           T == [i \in DOMAIN t |-> t[i].cost]
<1>1. /\ n \in Nat /\ DOMAIN s = 1 .. n /\ DOMAIN t = 1 .. n + 1 /\ \A i \in 1 .. n : s[i] \in Answers
      /\ \A i \in 1 .. n : t[i] = s[i]
      /\ t[n + 1] = o
  <2> QED
    BY AppendHolds DEF OneMore
<1>2. o.cost \in Int /\ \A a \in Answers : a.cost \in Int
  BY DEF Answers
<1> HIDE DEF n, t
<1>3. S \in Seq(Int) /\ Len(S) = n
  <2>1. S = [i \in 1 .. n |-> s[i].cost] /\ \A i \in 1 .. n : s[i].cost \in Int
    BY <1>1, <1>2
  <2> HIDE DEF S
  <2> QED
    BY <1>1, <2>1
<1>4. T = OneMore(S, o.cost)
  <2>1. T = [i \in 1 .. n + 1 |-> IF i = n + 1 THEN o.cost ELSE S[i]]
    <3>1. \A i \in 1 .. n + 1 : i # n + 1 => i \in 1 .. n
      BY <1>1
    <3> QED
      BY <1>1, <3>1
  <2> HIDE DEF S, T
  <2> DEFINE q == OneMore(S, o.cost)
  <2>2. q \in Seq(Int) /\ Len(q) = n + 1 /\ (\A i \in 1 .. n : q[i] = S[i]) /\ q[n + 1] = o.cost
    BY <1>2, <1>3, AppendHolds DEF OneMore
  <2> HIDE DEF q
  <2>3. q = [i \in 1 .. n + 1 |-> q[i]]
    BY <2>2
  <2>4. \A i \in 1 .. n + 1 : i # n + 1 => i \in 1 .. n
    BY <1>1
  <2> QED
    BY <2>1, <2>2, <2>3, <2>4 DEF q
<1>5. TokensOf(s) = Total(S) /\ TokensOf(t) = Total(T)
  BY DEF TokensOf
<1>6. TokensOf(<<>>) = 0
  <2>1. DOMAIN <<>> = {} /\ [i \in {} |-> <<>>[i].cost] = <<>>
    OBVIOUS
  <2>2. Total(<<>>) = 0
    BY 0 \in Int, <<>> \in Seq(Int), TotalGrows
  <2> QED
    BY <2>1, <2>2 DEF TokensOf
<1> HIDE DEF S, T
<1>7. Total(S) \in Int /\ Total(OneMore(S, o.cost)) = Total(S) + o.cost
  BY <1>2, <1>3, TotalGrows DEF OneMore
<1> QED
  BY <1>4, <1>5, <1>6, <1>7 DEF t

\* All that the tools answered is outcomes.
LEMMA ToolOutsFits ==
    ASSUME AgentTypes
    PROVE  /\ ToolOuts = FlatOuts \o coder.outs /\ FlatOuts \in Seq(Outcomes) /\ coder.outs \in Seq(Outcomes)
           /\ ToolOuts \in Seq(Outcomes)
<1>1. ToolOuts = FlatOuts \o coder.outs
  BY Zenon DEF ToolOuts, FlatOuts, OutsOf
<1>2. FlatOuts \in Seq(Outcomes)
  BY FlatOutsFits DEF AgentTypes
<1>3. coder.outs \in Seq(Outcomes)
  BY DEF AgentTypes, Coders
<1>4. FlatOuts \o coder.outs \in Seq(Outcomes)
  BY <1>2, <1>3
<1> QED
  BY <1>1, <1>2, <1>3, <1>4

\* A call that is answered adds its outcome.
LEMMA OutcomeAdds ==
    ASSUME AgentTypes, AgentTypes', NEW o \in Outcomes,
           coder'.outs = Append(coder.outs, o), transcript' = transcript
    PROVE  ToolOuts' = OneMore(ToolOuts, o)
<1> DEFINE a == FlatOuts
           b == coder.outs
<1>1. ToolOuts = a \o b /\ a \in Seq(Outcomes) /\ b \in Seq(Outcomes)
  BY ToolOutsFits
<1>2. ToolOuts' = FlatOuts' \o coder'.outs
  BY Zenon DEF ToolOuts, FlatOuts, OutsOf
<1>3. FlatOuts' = a
  BY Zenon DEF FlatOuts, OutsOf
<1>4. coder'.outs = Append(b, o)
  OBVIOUS
<1> HIDE DEF a, b
<1>5. a \o Append(b, o) = Append(a \o b, o)
  BY <1>1
<1>6. ToolOuts' = a \o Append(b, o)
  BY <1>2, <1>3, <1>4
<1> QED
  BY <1>1, <1>5, <1>6, Zenon DEF OneMore

\* A note that is no answer of the tools adds nothing, and one that is only moves what is there.
LEMMA NoteMoves ==
    ASSUME AgentTypes, NEW note \in Notes, transcript' = Append(transcript, note), coder'.outs = <<>>,
           IF note.role = "tool" THEN note.outs = coder.outs ELSE coder.outs = <<>>
    PROVE  ToolOuts' = ToolOuts
<1> DEFINE a == FlatOuts
           b == coder.outs
<1>1. ToolOuts = a \o b /\ a \in Seq(Outcomes) /\ b \in Seq(Outcomes)
  BY ToolOutsFits
<1>2. ToolOuts' = FlatOuts' \o coder'.outs
  BY Zenon DEF ToolOuts, FlatOuts, OutsOf
<1>3. FlatOuts' = a \o OutsOf(note)
  BY NoteAdds DEF AgentTypes
<1>4. OutsOf(note) = b
  BY DEF OutsOf
<1> HIDE DEF a, b
<1>5. (a \o b) \o <<>> = a \o b
  BY <1>1
<1> QED
  BY <1>1, <1>2, <1>3, <1>4, <1>5

\* Nothing is added while the notes and the outcomes stay.
LEMMA OutsStay ==
    ASSUME transcript' = transcript, coder'.outs = coder.outs
    PROVE  ToolOuts' = ToolOuts
<1>1. FlatOuts' = FlatOuts
  BY Zenon DEF FlatOuts, OutsOf
<1>2. ToolOuts' = FlatOuts' \o coder'.outs /\ ToolOuts = FlatOuts \o coder.outs
  BY Zenon DEF ToolOuts, FlatOuts, OutsOf
<1> QED
  BY <1>1, <1>2

------------------------------------------------------------------------------
(* The budgets of the search *)

\* The searches that were sent.
Tried == DidIn(ToolOuts, {"searched", "failed"})
\* The searches that were answered.
Got == DidIn(ToolOuts, {"searched"})

\* What is left of a budget is what was not spent; the last answer began within the tokens; a
\* search is turned away only when a budget is closed, and no budget opens again.
Balance ==
    /\ coder.left >= 0
    /\ Len(Tried) = (IF coder.kb THEN SearchBudget ELSE 0) - coder.left
    /\ TokensOf(Got) = (IF coder.kb THEN KbTokenBudget ELSE 0) - coder.tokens
    /\ Got # <<>> => TokensOf(SubSeq(Got, 1, Len(Got) - 1)) < KbTokenBudget
    /\ (\E i \in DOMAIN ToolOuts : ToolOuts[i].did = "blocked") => ~ BudgetOpen

\* What was tried and what was found, as sequences.
LEMMA GotFits ==
    ASSUME AgentTypes
    PROVE  /\ Tried \in Seq(Outcomes) /\ Got \in Seq(Answers) /\ Len(Tried) \in Nat
           /\ TokensOf(Got) \in Int
           /\ Got = Searched /\ Tried = Did({"searched", "failed"})
<1>1. ToolOuts \in Seq(Outcomes)
  BY ToolOutsFits
<1>2. Tried \in Seq(Outcomes)
  BY <1>1, DidGrows, [did |-> "error"] \in Outcomes DEF Tried, Outcomes
<1>3. Got \in Seq(OfKind({"searched"}))
  BY <1>1, DidFits DEF Got
<1>4. OfKind({"searched"}) \subseteq Answers
  BY DEF OfKind, Outcomes
<1>5. Got \in Seq(Answers)
  BY <1>3, <1>4
<1>6. Len(Tried) \in Nat
  BY <1>2
<1>7. TokensOf(Got) \in Int
  <2>1. [did |-> "searched", rows |-> {}, cost |-> 0] \in Answers
    BY DEF Answers
  <2> QED
    BY <1>5, <2>1, CostGrows
<1>8. Got = Searched /\ Tried = Did({"searched", "failed"})
  BY Zenon DEF Got, Tried, Searched, Did, DidIn
<1> QED
  BY <1>2, <1>5, <1>6, <1>7, <1>8

\* The balance is the budget the property states.
LEMMA BalanceHolds == AgentTypes /\ Balance => SearchesStayInBudget
<1> SUFFICES ASSUME AgentTypes, Balance PROVE SearchesStayInBudget
  OBVIOUS
<1> DEFINE n == IF coder.kb THEN SearchBudget ELSE 0
           tokens == IF coder.kb THEN KbTokenBudget ELSE 0
<1>1. /\ Got \in Seq(Answers) /\ Len(Tried) \in Nat /\ TokensOf(Got) \in Int
      /\ Got = Searched /\ Tried = Did({"searched", "failed"})
  BY GotFits
<1>2. n \in Nat /\ tokens \in Nat /\ coder.left \in Int /\ coder.tokens \in Int /\ coder.kb \in BOOLEAN
  BY AgentAssumption DEF AgentTypes, Coders
<1>3. SubSeq(Got, 1, Len(Got)) = Got
  <2> QED
    BY <1>1
<1>4. Len(Tried) <= n
  BY <1>1, <1>2 DEF Balance
<1>5. ASSUME ~ BudgetOpen PROVE ~ coder.kb \/ Len(Tried) = n \/ TokensOf(Got) >= KbTokenBudget
  BY <1>1, <1>2, <1>5 DEF Balance, BudgetOpen
<1>6. Searched # <<>> => TokensOf(SubSeq(Searched, 1, Len(Searched) - 1)) < KbTokenBudget
  BY <1>1 DEF Balance
<1>7. (\E i \in DOMAIN ToolOuts : ToolOuts[i].did = "blocked") =>
        ~ coder.kb \/ Len(Tried) = n \/ TokensOf(SubSeq(Got, 1, Len(Got))) >= KbTokenBudget
  BY <1>3, <1>5 DEF Balance
<1> QED
  BY <1>1, <1>4, <1>6, <1>7 DEF SearchesStayInBudget

\* Where the tools answer nothing and no budget moves, the balance stays.
LEMMA BalanceStays ==
    ASSUME Balance, ToolOuts' = ToolOuts, coder'.kb = coder.kb, coder'.left = coder.left,
           coder'.tokens = coder.tokens
    PROVE  Balance'
<1>1. Tried' = Tried /\ Got' = Got
  BY DEF Tried, Got, DidIn
<1>2. BudgetOpen' <=> BudgetOpen
  BY DEF BudgetOpen
<1> QED
  BY <1>1, <1>2 DEF Balance

\* What a call of a tool adds to the balance.
LEMMA BalanceMoves ==
    ASSUME AgentTypes, Balance, NEW o \in Outcomes, ToolOuts' = OneMore(ToolOuts, o),
           coder'.kb = coder.kb,
           \/ o.did \notin {"searched", "failed", "blocked"} /\ coder'.left = coder.left /\ coder'.tokens = coder.tokens
           \/ o.did = "blocked" /\ ~ BudgetOpen /\ coder'.left = coder.left /\ coder'.tokens = coder.tokens
           \/ o.did = "failed" /\ BudgetOpen /\ coder'.left = coder.left - 1 /\ coder'.tokens = coder.tokens
           \/ /\ o.did = "searched" /\ BudgetOpen /\ o \in Answers
              /\ coder'.left = coder.left - 1 /\ coder'.tokens = coder.tokens - o.cost
    PROVE  Balance'
<1> DEFINE n == IF coder.kb THEN SearchBudget ELSE 0
           tokens == IF coder.kb THEN KbTokenBudget ELSE 0
<1>1. /\ ToolOuts \in Seq(Outcomes) /\ Tried \in Seq(Outcomes) /\ Got \in Seq(Answers)
      /\ Len(Tried) \in Nat /\ TokensOf(Got) \in Int
  BY GotFits, ToolOutsFits, Zenon
<1>2. n \in Nat /\ tokens \in Nat /\ coder.left \in Int /\ coder.tokens \in Int /\ coder.kb \in BOOLEAN
  BY AgentAssumption DEF AgentTypes, Coders
<1>3. Tried' = IF o.did \in {"searched", "failed"} THEN OneMore(Tried, o) ELSE Tried
  BY <1>1, DidGrows DEF Tried
<1>4. Got' = IF o.did \in {"searched"} THEN OneMore(Got, o) ELSE Got
  BY <1>1, DidGrows DEF Got
<1>5. \A i \in DOMAIN ToolOuts' : (i \in DOMAIN ToolOuts /\ ToolOuts'[i] = ToolOuts[i]) \/ ToolOuts'[i] = o
  <2>1. /\ Len(ToolOuts) \in Nat /\ DOMAIN ToolOuts = 1 .. Len(ToolOuts)
        /\ DOMAIN ToolOuts' = 1 .. Len(ToolOuts) + 1
        /\ \A i \in 1 .. Len(ToolOuts) : ToolOuts'[i] = ToolOuts[i]
        /\ ToolOuts'[Len(ToolOuts) + 1] = o
    BY <1>1, AppendHolds DEF OneMore
  <2>2. \A i \in 1 .. Len(ToolOuts) + 1 : i # Len(ToolOuts) + 1 => i \in 1 .. Len(ToolOuts)
    BY <2>1
  <2> QED
    BY <2>1, <2>2
<1>6. Len(OneMore(Tried, o)) = Len(Tried) + 1
  <2> QED
    BY <1>1, AppendHolds DEF OneMore
<1>7. ASSUME o \in Answers
      PROVE  /\ TokensOf(OneMore(Got, o)) = TokensOf(Got) + o.cost
             /\ o.cost \in Nat
             /\ SubSeq(OneMore(Got, o), 1, Len(OneMore(Got, o)) - 1) = Got
  <2>1. TokensOf(OneMore(Got, o)) = TokensOf(Got) + o.cost
    BY <1>1, <1>7, CostGrows
  <2>2. o.cost \in Nat
    BY <1>7 DEF Answers
  <2>3. SubSeq(Append(Got, o), 1, Len(Append(Got, o)) - 1) = Got
    BY <1>1, <1>7
  <2> QED
    BY <2>1, <2>2, <2>3 DEF OneMore
<1>8. ASSUME \E i \in DOMAIN ToolOuts' : ToolOuts'[i].did = "blocked", ~ BudgetOpen \/ o.did # "blocked"
      PROVE  o.did = "blocked" \/ ~ BudgetOpen
  BY <1>5, <1>8 DEF Balance
<1>9. CASE o.did \notin {"searched", "failed"}
  <2>1. Tried' = Tried /\ Got' = Got
    BY <1>3, <1>4, <1>9
  <2>2. BudgetOpen' <=> BudgetOpen
    BY <1>9 DEF BudgetOpen
  <2>3. (\E i \in DOMAIN ToolOuts' : ToolOuts'[i].did = "blocked") => ~ BudgetOpen
    BY <1>5, <1>9 DEF Balance
  <2> QED
    BY <1>9, <2>1, <2>2, <2>3 DEF Balance
<1>10. CASE o.did = "failed"
  <2>1. Len(Tried') = Len(Tried) + 1 /\ Got' = Got
    BY <1>3, <1>4, <1>6, <1>10
  <2>2. BudgetOpen /\ coder.left > 0 /\ coder'.left = coder.left - 1 /\ coder'.tokens = coder.tokens
    BY <1>10 DEF BudgetOpen
  <2>3. ~ \E i \in DOMAIN ToolOuts' : ToolOuts'[i].did = "blocked"
    BY <1>5, <1>10, <2>2 DEF Balance
  <2> QED
    BY <1>1, <1>2, <2>1, <2>2, <2>3 DEF Balance
<1>11. CASE o.did = "searched"
  <2>1. Len(Tried') = Len(Tried) + 1 /\ Got' = OneMore(Got, o)
    BY <1>3, <1>4, <1>6, <1>11
  <2>2. BudgetOpen /\ coder.left > 0 /\ coder.tokens > 0 /\ coder'.left = coder.left - 1
        /\ coder'.tokens = coder.tokens - o.cost /\ o \in Answers
    BY <1>11 DEF BudgetOpen
  <2>3. ~ \E i \in DOMAIN ToolOuts' : ToolOuts'[i].did = "blocked"
    BY <1>5, <1>11, <2>2 DEF Balance
  <2>4. TokensOf(Got') = TokensOf(Got) + o.cost /\ o.cost \in Nat
        /\ SubSeq(Got', 1, Len(Got') - 1) = Got
    BY <1>7, <2>1, <2>2
  <2>5. coder.kb
    BY <1>1, <1>2, <2>2 DEF Balance
  <2>6. TokensOf(Got) < KbTokenBudget
    BY <1>1, <1>2, <2>2, <2>5 DEF Balance
  <2>7. TokensOf(Got') = tokens - coder'.tokens
    BY <1>1, <1>2, <2>2, <2>4 DEF Balance
  <2>8. Len(Tried') = n - coder'.left /\ coder'.left >= 0
    BY <1>1, <1>2, <2>1, <2>2 DEF Balance
  <2> QED
    BY <2>3, <2>4, <2>6, <2>7, <2>8 DEF Balance
<1> QED
  BY <1>9, <1>10, <1>11

------------------------------------------------------------------------------
(* The turns *)

LastNote == transcript[Len(transcript)]

\* A step costs at most two requests, and the loop has as many steps.
Paced ==
    /\ coder.steps <= MaxSteps /\ coder.calls <= 2 * MaxSteps
    /\ coder.pc \in {"start", "model", "retry"} => coder.steps < MaxSteps
    /\ coder.pc \in {"start", "model", "tools"} => coder.calls <= 2 * coder.steps
    /\ coder.pc = "retry" => coder.calls <= 2 * coder.steps + 1

\* Where the transcript ends, at each point of the loop, and what follows each of its notes.
Turning ==
    /\ coder.pc = "start" => transcript = <<>>
    /\ coder.pc # "tools" => coder.outs = <<>> /\ coder.pending = <<>>
    /\ coder.pc \in {"model", "retry", "tools"} => transcript # <<>>
    /\ transcript # <<>> =>
         /\ coder.pc = "model" => LastNote.role \in {"user", "tool"}
         /\ coder.pc = "retry" => LastNote.role = "nudge"
         /\ coder.pc = "tools" <=> LastNote.role = "assistant"
         /\ coder.pc = "tools" =>
              /\ Len(coder.outs) + Len(coder.pending) = Len(LastNote.calls)
              /\ \A k \in 1 .. Len(coder.pending) : coder.pending[k] = LastNote.calls[Len(coder.outs) + k]
    /\ \A i \in 1 .. Len(transcript) - 1 :
         /\ transcript[i].role = "assistant" =>
              transcript[i + 1].role = "tool" /\ Len(transcript[i + 1].outs) = Len(transcript[i].calls)
         /\ transcript[i].role = "nudge" => transcript[i + 1].role = "assistant"

\* They are what the property states of the turns.
LEMMA TurnsHold == AgentTypes /\ Paced /\ Turning => EveryCallIsAnswered
<1> SUFFICES ASSUME AgentTypes, Paced, Turning PROVE EveryCallIsAnswered
  OBVIOUS
<1>1. Len(transcript) \in Nat /\ DOMAIN transcript = 1 .. Len(transcript)
  <2> QED
    BY DEF AgentTypes
<1>2. \A i \in DOMAIN transcript : i \in 1 .. Len(transcript) - 1 <=> i < Len(transcript)
  BY <1>1
<1>3. \A i \in DOMAIN transcript : ~ (i < Len(transcript)) => i = Len(transcript) /\ transcript # <<>>
  BY <1>1
<1> QED
  BY <1>1, <1>2, <1>3 DEF EveryCallIsAnswered, Paced, Turning, LastNote, AgentAt

\* The notes there were and the note that is new.
LEMMA NotesFit ==
    ASSUME AgentTypes, NEW note \in Notes, transcript' = Append(transcript, note)
    PROVE  /\ Len(transcript) \in Nat /\ Len(transcript') = Len(transcript) + 1 /\ transcript' \in Seq(Notes)
           /\ DOMAIN transcript = 1 .. Len(transcript) /\ DOMAIN transcript' = 1 .. Len(transcript) + 1
           /\ \A i \in 1 .. Len(transcript) : transcript'[i] = transcript[i]
           /\ LastNote' = note /\ transcript' # <<>>
<1>1. /\ Len(transcript) \in Nat /\ Len(transcript') = Len(transcript) + 1 /\ transcript' \in Seq(Notes)
      /\ DOMAIN transcript = 1 .. Len(transcript) /\ DOMAIN transcript' = 1 .. Len(transcript) + 1
      /\ \A i \in 1 .. Len(transcript) : transcript'[i] = transcript[i]
      /\ transcript'[Len(transcript) + 1] = note
  BY AppendHolds DEF AgentTypes
<1>2. transcript' # <<>>
  BY <1>1
<1> QED
  BY <1>1, <1>2 DEF LastNote

\* A note is added.
LEMMA TurnGoesOn ==
    ASSUME AgentTypes, Turning, NEW note \in Notes, transcript' = Append(transcript, note),
           coder.pc \in {"model", "retry", "tools"}, coder'.pc # "start",
           coder'.pc # "tools" => coder'.outs = <<>> /\ coder'.pending = <<>>,
           coder'.pc = "model" => note.role \in {"user", "tool"},
           coder'.pc = "retry" => note.role = "nudge",
           coder'.pc = "tools" <=> note.role = "assistant",
           coder'.pc = "tools" => /\ Len(coder'.outs) + Len(coder'.pending) = Len(note.calls)
                                  /\ \A k \in 1 .. Len(coder'.pending) :
                                       coder'.pending[k] = note.calls[Len(coder'.outs) + k],
           coder.pc = "tools" => note.role = "tool" /\ Len(note.outs) = Len(LastNote.calls),
           coder.pc = "retry" => note.role = "assistant"
    PROVE  Turning'
<1>1. /\ Len(transcript) \in Nat /\ Len(transcript') = Len(transcript) + 1
      /\ \A i \in 1 .. Len(transcript) : transcript'[i] = transcript[i]
      /\ LastNote' = note /\ transcript' # <<>>
  BY NotesFit
<1>2. transcript'[Len(transcript) + 1] = note /\ transcript # <<>>
  BY <1>1 DEF LastNote, Turning
<1>3. Len(transcript) \in 1 .. Len(transcript)
  <2>1. transcript \in Seq(Notes)
    BY DEF AgentTypes
  <2> QED
    BY <1>2, <2>1
<1>4. ASSUME NEW i \in 1 .. Len(transcript') - 1
      PROVE  /\ transcript'[i].role = "assistant" =>
                  transcript'[i + 1].role = "tool" /\ Len(transcript'[i + 1].outs) = Len(transcript'[i].calls)
             /\ transcript'[i].role = "nudge" => transcript'[i + 1].role = "assistant"
  <2>1. i \in 1 .. Len(transcript) /\ transcript'[i] = transcript[i]
    BY <1>1
  <2>2. CASE i = Len(transcript)
    <3>1. transcript'[i + 1] = note /\ transcript[i] = LastNote
      BY <1>2, <2>2 DEF LastNote
    <3>2. /\ coder.pc = "model" => LastNote.role \in {"user", "tool"}
          /\ coder.pc = "retry" => LastNote.role = "nudge"
          /\ coder.pc = "tools" <=> LastNote.role = "assistant"
      BY <1>2 DEF Turning
    <3> QED
      BY <2>1, <3>1, <3>2
  <2>3. CASE i # Len(transcript)
    <3>1. i \in 1 .. Len(transcript) - 1 /\ i + 1 \in 1 .. Len(transcript)
      BY <1>1, <2>1, <2>3
    <3> QED
      BY <1>1, <2>1, <3>1 DEF Turning
  <2> QED
    BY <2>2, <2>3
<1> QED
  BY <1>1, <1>4 DEF Turning

\* A call is answered.
LEMMA TurnIsAnswered ==
    ASSUME AgentTypes, Turning, coder.pc = "tools", coder.pending # <<>>, NEW o \in Outcomes,
           coder'.pc = "tools", coder'.outs = Append(coder.outs, o), coder'.pending = Tail(coder.pending),
           transcript' = transcript
    PROVE  Turning'
<1>1. /\ Len(coder'.outs) = Len(coder.outs) + 1 /\ Len(coder.outs) \in Nat
      /\ Len(coder'.pending) = Len(coder.pending) - 1 /\ Len(coder.pending) \in Nat
      /\ \A k \in 1 .. Len(coder.pending) - 1 : coder'.pending[k] = coder.pending[k + 1]
  <2>1. coder.outs \in Seq(Outcomes) /\ coder.pending \in Seq(ToolCalls)
    BY DEF AgentTypes, Coders
  <2> DEFINE a == coder.outs
             b == coder.pending
  <2>2. a \in Seq(Outcomes) /\ b \in Seq(ToolCalls) /\ b # <<>> /\ coder'.outs = Append(a, o)
        /\ coder'.pending = Tail(b)
    BY <2>1
  <2> HIDE DEF a, b
  <2>3. Len(Append(a, o)) = Len(a) + 1 /\ Len(a) \in Nat
    BY <2>2
  <2>4. /\ Len(Tail(b)) = Len(b) - 1 /\ Len(b) \in Nat
        /\ \A k \in 1 .. Len(b) - 1 : Tail(b)[k] = b[k + 1]
    BY <2>2
  <2> QED
    BY <2>2, <2>3, <2>4 DEF a, b
<1>2. LastNote' = LastNote
  BY DEF LastNote
<1> DEFINE m == Len(coder.outs)
           m2 == Len(coder'.outs)
           n == Len(coder.pending)
           n2 == Len(coder'.pending)
           p(k) == coder.pending[k]
           p2(k) == coder'.pending[k]
<1>3. m2 = m + 1 /\ m \in Nat /\ n2 = n - 1 /\ n \in Nat /\ \A k \in 1 .. n - 1 : p2(k) = p(k + 1)
  BY <1>1
<1>4. transcript # <<>>
  BY DEF Turning
<1>5. m + n = Len(LastNote.calls) /\ LastNote.role = "assistant"
      /\ \A k \in 1 .. n : p(k) = LastNote.calls[m + k]
  BY <1>4 DEF Turning
<1> HIDE DEF m, m2, n, n2, p, p2
<1>6. m2 + n2 = Len(LastNote.calls) /\ \A k \in 1 .. n2 : p2(k) = LastNote.calls[m2 + k]
  <2>1. \A k \in 1 .. n2 : k \in 1 .. n - 1 /\ k + 1 \in 1 .. n /\ m + (k + 1) = m2 + k
    BY <1>3
  <2>2. m2 + n2 = m + n
    BY <1>3
  <2> QED
    BY <1>3, <1>5, <2>1, <2>2
<1>7. /\ Len(coder'.outs) + Len(coder'.pending) = Len(LastNote.calls)
      /\ \A k \in 1 .. Len(coder'.pending) : coder'.pending[k] = LastNote.calls[Len(coder'.outs) + k]
  BY <1>6, Zenon DEF m2, n2, p2
<1> QED
  BY <1>2, <1>4, <1>5, <1>7 DEF Turning

------------------------------------------------------------------------------
(* The files *)

\* What is put at a place of a file leaves the other lines.
LEMMA PutAtKeeps ==
    ASSUME NEW A, NEW body \in Seq(A), NEW i \in DOMAIN body, NEW lines \in Seq(A)
    PROVE  /\ PutAt(body, i, lines) \in Seq(A)
           /\ \A l \in ToSet(body) : l # body[i] => l \in ToSet(PutAt(body, i, lines))
<1> DEFINE n == Len(body)
           before == SubSeq(body, 1, i - 1)
           after == SubSeq(body, i + 1, Len(body))
<1>1. n \in Nat /\ DOMAIN body = 1 .. n /\ i \in 1 .. n
  OBVIOUS
<1>2. /\ before \in Seq(A) /\ Len(before) = i - 1 /\ \A k \in 1 .. i - 1 : before[k] = body[k]
      /\ DOMAIN before = 1 .. i - 1
  BY <1>1
<1>3. /\ after \in Seq(A) /\ Len(after) = n - i /\ \A k \in 1 .. n - i : after[k] = body[i + k]
      /\ DOMAIN after = 1 .. n - i
  <2>1. CASE i = n
    BY <1>1, <2>1
  <2>2. CASE i < n
    BY <1>1, <2>2
  <2> QED
    BY <1>1, <2>1, <2>2
<1> HIDE DEF before, after, n
<1>4. before \o lines \in Seq(A) /\ ToSet(before \o lines) = ToSet(before) \union ToSet(lines)
  <2>1. before \o lines \in Seq(A)
    BY <1>2
  <2>2. ToSet(before \o lines) = ToSet(before) \union ToSet(lines)
    BY <1>2, JoinFits
  <2> QED
    BY <2>1, <2>2
<1> DEFINE first == before \o lines
<1> HIDE DEF first
<1>5. first \o after \in Seq(A) /\ ToSet(first \o after) = ToSet(first) \union ToSet(after)
  <2>1. first \in Seq(A)
    BY <1>4 DEF first
  <2>2. first \o after \in Seq(A)
    BY <1>3, <2>1
  <2>3. ToSet(first \o after) = ToSet(first) \union ToSet(after)
    BY <1>3, <2>1, JoinFits
  <2> QED
    BY <2>2, <2>3
<1>6. PutAt(body, i, lines) = first \o after
  BY DEF PutAt, first, before, after
<1>7. ASSUME NEW l \in ToSet(body), l # body[i] PROVE l \in ToSet(before) \union ToSet(after)
  <2>1. PICK k \in 1 .. n : body[k] = l
    BY <1>1 DEF ToSet
  <2>2. CASE k < i
    <3>1. k \in 1 .. i - 1
      BY <1>1, <2>2
    <3> QED
      BY <1>2, <2>1, <3>1 DEF ToSet
  <2>3. CASE k > i
    <3>1. k - i \in 1 .. n - i /\ i + (k - i) = k
      BY <1>1, <2>3
    <3> QED
      BY <1>3, <2>1, <3>1 DEF ToSet
  <2>4. k # i
    BY <1>7, <2>1
  <2> QED
    BY <1>1, <2>2, <2>3, <2>4
<1>8. ToSet(first) = ToSet(before) \union ToSet(lines)
  BY <1>4 DEF first
<1> QED
  BY <1>5, <1>6, <1>7, <1>8

\* The linter leaves the lines it does not take out.
LEMMA FixedKeeps ==
    ASSUME NEW A, NEW body \in Seq(A)
    PROVE  /\ Fixed(body) \in Seq(A)
           /\ \A l \in ToSet(body) : l \notin Fixable => l \in ToSet(Fixed(body))
<1> DEFINE n == Len(body)
           P == {i \in DOMAIN body : body[i] \notin Fixable}
<1>1. n \in Nat /\ DOMAIN body = 1 .. n /\ P \in SUBSET (1 .. n)
  OBVIOUS
<1>2. \A i \in 1 .. n : body[i] \in A
  OBVIOUS
<1> HIDE DEF P, n
<1>3. /\ Cardinality(P) \in Nat
      /\ \A i \in P : \E k \in DOMAIN Picked(body, P) : Picked(body, P)[k] = body[i]
  BY <1>1, PickedHolds
<1>4. Picked(body, P) \in Seq(A)
  <2>1. IsFiniteSet(P) /\ \A i \in P : i \in Int
    <3>1. IsFiniteSet(1 .. n)
      BY <1>1, FS_Interval
    <3>2. IsFiniteSet(P)
      BY <1>1, <3>1, FS_Subset
    <3>3. \A i \in P : i \in Int
      BY <1>1
    <3> QED
      BY <3>2, <3>3
  <2>2. /\ DOMAIN Picked(body, P) = 1 .. Cardinality(P)
        /\ \A k \in 1 .. Cardinality(P) : KthOf(P, k) \in P
    BY <2>1, PickedFits
  <2> DEFINE c == Cardinality(P)
  <2>3. Picked(body, P) = [k \in 1 .. c |-> body[KthOf(P, k)]]
    BY DEF Picked
  <2>4. \A k \in 1 .. c : body[KthOf(P, k)] \in A
    BY <1>1, <1>2, <2>2
  <2>5. c \in Nat
    BY <1>3
  <2> HIDE DEF c
  <2> QED
    BY <2>3, <2>4, <2>5
<1>5. ASSUME NEW l \in ToSet(body), l \notin Fixable PROVE l \in ToSet(Picked(body, P))
  <2>1. PICK i \in DOMAIN body : body[i] = l
    BY DEF ToSet
  <2>2. i \in P
    BY <1>5, <2>1 DEF P
  <2> QED
    BY <1>3, <2>1, <2>2 DEF ToSet
<1>6. Fixed(body) = Picked(body, P)
  BY DEF Fixed, P
<1> QED
  BY <1>4, <1>5, <1>6

\* An edit that is made leaves the lines it does not name, and creates a file only by naming none.
LEMMA EditedKeeps ==
    ASSUME AgentTypes, NEW call \in ToolCalls, call.tool = "edit", Editable(call)
    PROVE  /\ Edited(call) \in Seq(Lines)
           /\ \A l \in ToSet(TextOf(call.file)) : l # call.old => l \in ToSet(Edited(call))
           /\ call.file \notin DOMAIN repo => call.old = NoLine
<1> DEFINE body == TextOf(call.file)
<1>1. body \in Seq(Lines)
  <2>1. <<>> \in Seq(Lines)
    OBVIOUS
  <2> QED
    BY <2>1 DEF AgentTypes, TextOf
<1>2. call.new \in Seq(Lines)
  BY TurnFits
<1> HIDE DEF body
<1>3. CASE call.old = NoLine
  <2>1. body = <<>> /\ Edited(call) = call.new
    BY <1>3 DEF Editable, Edited, body
  <2>2. ToSet(body) = {}
    BY <2>1 DEF ToSet
  <2> QED
    BY <1>2, <1>3, <2>1, <2>2 DEF body
<1>4. CASE call.old # NoLine
  <2>1. Cardinality(Occurs(call.old, body)) = 1
    BY <1>4 DEF Editable, body
  <2>2. Occurs(call.old, body) # {}
    BY <2>1, FS_EmptySet
  <2> DEFINE i == CHOOSE i \in Occurs(call.old, body) : TRUE
  <2>3. i \in Occurs(call.old, body)
    BY <2>2
  <2>4. Edited(call) = PutAt(body, i, call.new)
    BY <1>4, Zenon DEF Edited, body
  <2> HIDE DEF i
  <2>5. i \in DOMAIN body /\ body[i] = call.old
    BY <2>3 DEF Occurs
  <2>6. /\ PutAt(body, i, call.new) \in Seq(Lines)
        /\ \A l \in ToSet(body) : l # body[i] => l \in ToSet(PutAt(body, i, call.new))
    BY <1>1, <1>2, <2>5, PutAtKeeps
  <2>7. call.file \in DOMAIN repo
    <3>1. body # <<>>
      BY <2>5
    <3> QED
      BY <3>1 DEF body, TextOf
  <2> QED
    BY <2>4, <2>5, <2>6, <2>7 DEF body
<1> QED
  BY <1>3, <1>4

------------------------------------------------------------------------------
(* The edits that were made *)

\* The outcomes of the calls of a note.
OutsAfter(i) == IF i = Len(transcript) THEN coder.outs ELSE transcript[i + 1].outs

\* An edit that was made, as it is known from a note.
LEMMA EditMade ==
    ASSUME NEW e
    PROVE  e \in EditsMade <=>
             \E i \in DOMAIN transcript : transcript[i].role = "assistant"
                                          /\ e \in EditsOf(transcript[i].calls, OutsAfter(i))
  BY Zenon DEF EditsMade, OutsAfter

\* A note more takes away no edit.
LEMMA EditsStayInNotes ==
    ASSUME AgentTypes, Turning, NEW note \in Notes, transcript' = Append(transcript, note),
           IF note.role = "tool" THEN note.outs = coder.outs ELSE coder.pc # "tools"
    PROVE  EditsMade \subseteq EditsMade'
<1> DEFINE n == Len(transcript)
<1>1. /\ n \in Nat /\ Len(transcript') = n + 1 /\ DOMAIN transcript = 1 .. n
      /\ DOMAIN transcript' = 1 .. n + 1
      /\ \A i \in 1 .. n : transcript'[i] = transcript[i]
      /\ transcript'[n + 1] = note
  <2>1. /\ n \in Nat /\ Len(transcript') = n + 1 /\ DOMAIN transcript = 1 .. n
        /\ DOMAIN transcript' = 1 .. n + 1
        /\ \A i \in 1 .. n : transcript'[i] = transcript[i]
        /\ LastNote' = note
    BY NotesFit
  <2> QED
    BY <2>1 DEF LastNote
<1> SUFFICES ASSUME NEW e \in EditsMade PROVE e \in EditsMade'
  OBVIOUS
<1>2. PICK i \in DOMAIN transcript : /\ transcript[i].role = "assistant"
                                     /\ e \in EditsOf(transcript[i].calls, OutsAfter(i))
  BY EditMade
<1>3. i \in 1 .. n /\ i \in DOMAIN transcript' /\ transcript'[i] = transcript[i]
  BY <1>1, <1>2
<1>4. OutsAfter(i)' = OutsAfter(i)
  <2>1. i # n + 1 /\ OutsAfter(i)' = transcript'[i + 1].outs
    <3>1. i # Len(transcript')
      BY <1>1, <1>3
    <3> QED
      BY <1>1, <3>1 DEF OutsAfter
  <2>2. CASE i = n
    <3>1. coder.pc = "tools"
      <4>1. transcript # <<>>
        BY <1>1, <1>3
      <4> QED
        BY <1>2, <2>2, <4>1 DEF Turning, LastNote
    <3>2. note.outs = coder.outs
      BY <3>1
    <3> QED
      BY <1>1, <2>1, <2>2, <3>2 DEF OutsAfter
  <2>3. CASE i # n
    <3>1. i + 1 \in 1 .. n
      BY <1>1, <1>3, <2>3
    <3> QED
      BY <1>1, <2>1, <2>3, <3>1 DEF OutsAfter
  <2> QED
    BY <2>2, <2>3
<1>5. e \in EditsOf(transcript'[i].calls, OutsAfter(i)')
  BY <1>2, <1>3, <1>4
<1>6. e \in EditsMade' <=> \E k \in DOMAIN transcript' : transcript'[k].role = "assistant"
                                                         /\ e \in EditsOf(transcript'[k].calls, OutsAfter(k)')
  BY Zenon DEF EditsMade, OutsAfter
<1> QED
  BY <1>2, <1>3, <1>5, <1>6

\* An outcome more takes away no edit, and adds the one that was made.
LEMMA EditsGrow ==
    ASSUME AgentTypes, Turning, coder.pc = "tools", coder.pending # <<>>, NEW o \in Outcomes,
           coder'.outs = Append(coder.outs, o), transcript' = transcript
    PROVE  /\ EditsMade \subseteq EditsMade'
           /\ CallNow.tool = "edit" /\ o.did = "edited" => <<CallNow.file, CallNow.old>> \in EditsMade'
<1> DEFINE n == Len(transcript)
           m == Len(coder.outs)
           outs == coder.outs
           next == coder'.outs
<1>1. /\ m \in Nat /\ DOMAIN outs = 1 .. m /\ DOMAIN next = 1 .. m + 1
      /\ (\A k \in 1 .. m : next[k] = outs[k]) /\ next[m + 1] = o
  <2>1. coder.outs \in Seq(Outcomes)
    BY DEF AgentTypes, Coders
  <2> QED
    BY <2>1, AppendHolds
<1>2. n \in Nat /\ DOMAIN transcript = 1 .. n /\ n \in DOMAIN transcript /\ transcript[n] \in Notes
      /\ LastNote.role = "assistant" /\ LastNote = transcript[n]
  <2>1. transcript # <<>> /\ LastNote.role = "assistant"
    BY DEF Turning
  <2>2. n \in Nat /\ DOMAIN transcript = 1 .. n /\ n \in DOMAIN transcript /\ transcript[n] \in Notes
    BY <2>1 DEF AgentTypes
  <2> QED
    BY <2>1, <2>2 DEF LastNote
<1>3. LastNote.calls \in Seq(ToolCalls)
  <2>1. LastNote.calls \in Turns
    BY <1>2 DEF Notes
  <2> QED
    BY <2>1, TurnFits
<1>4. /\ m + Len(coder.pending) = Len(LastNote.calls)
      /\ \A k \in 1 .. Len(coder.pending) : coder.pending[k] = LastNote.calls[m + k]
  BY <1>2 DEF Turning
<1>5. Len(coder.pending) \in Nat /\ Len(coder.pending) > 0 /\ CallNow = coder.pending[1]
  <2>1. coder.pending \in Seq(ToolCalls)
    BY DEF AgentTypes, Coders
  <2> QED
    BY <2>1 DEF CallNow
<1>6. m + 1 \in DOMAIN LastNote.calls /\ LastNote.calls[m + 1] = CallNow
  <2>1. DOMAIN LastNote.calls = 1 .. Len(LastNote.calls)
    <3> QED
      BY <1>3
  <2> DEFINE a == Len(coder.pending)
             b == Len(LastNote.calls)
  <2>2. m \in Nat /\ a \in Nat /\ a > 0 /\ m + a = b
    BY <1>1, <1>4, <1>5
  <2> HIDE DEF m, a, b
  <2>3. 1 \in 1 .. a /\ m + 1 \in 1 .. b
    BY <2>2
  <2> QED
    BY <1>4, <1>5, <2>1, <2>3 DEF m, a, b
<1> HIDE DEF m, outs, next
<1>7. ASSUME NEW calls PROVE EditsOf(calls, outs) \subseteq EditsOf(calls, next)
  <2>1. \A j \in DOMAIN calls \cap DOMAIN outs : j \in DOMAIN calls \cap DOMAIN next /\ next[j] = outs[j]
    <3>1. \A j \in 1 .. m : j \in 1 .. m + 1
      BY <1>1
    <3> QED
      BY <1>1, <3>1
  <2>2. {j \in DOMAIN calls \cap DOMAIN outs : calls[j].tool = "edit" /\ outs[j].did = "edited"}
        \subseteq {j \in DOMAIN calls \cap DOMAIN next : calls[j].tool = "edit" /\ next[j].did = "edited"}
    BY <2>1
  <2> QED
    BY <2>2 DEF EditsOf
<1>8. \A e : e \in EditsMade' <=> \E k \in DOMAIN transcript : transcript[k].role = "assistant"
                                                         /\ e \in EditsOf(transcript[k].calls, OutsAfter(k)')
  BY Zenon DEF EditsMade, OutsAfter
<1>9. ASSUME NEW k \in DOMAIN transcript
      PROVE  IF k = n THEN OutsAfter(k) = outs /\ OutsAfter(k)' = next ELSE OutsAfter(k)' = OutsAfter(k)
  BY DEF OutsAfter, outs, next
<1>10. EditsMade \subseteq EditsMade'
  <2> SUFFICES ASSUME NEW e \in EditsMade PROVE e \in EditsMade'
    OBVIOUS
  <2>1. PICK i \in DOMAIN transcript : /\ transcript[i].role = "assistant"
                                       /\ e \in EditsOf(transcript[i].calls, OutsAfter(i))
    BY EditMade
  <2>2. e \in EditsOf(transcript[i].calls, OutsAfter(i)')
    BY <1>7, <1>9, <2>1
  <2> QED
    BY <1>8, <2>1, <2>2
<1>11. ASSUME CallNow.tool = "edit", o.did = "edited" PROVE <<CallNow.file, CallNow.old>> \in EditsMade'
  <2>1. m + 1 \in {j \in DOMAIN LastNote.calls \cap DOMAIN next :
                     LastNote.calls[j].tool = "edit" /\ next[j].did = "edited"}
    BY <1>1, <1>6, <1>11
  <2>2. <<CallNow.file, CallNow.old>> \in EditsOf(LastNote.calls, next)
    BY <1>6, <2>1 DEF EditsOf
  <2>3. OutsAfter(n)' = next
    BY <1>2, <1>9
  <2> QED
    BY <1>2, <1>8, <2>2, <2>3
<1> QED
  BY <1>10, <1>11

\* Nothing changes while the notes and the outcomes stay.
LEMMA EditsStand ==
    ASSUME transcript' = transcript, coder'.outs = coder.outs
    PROVE  EditsMade' = EditsMade
<1>1. \A i : OutsAfter(i)' = OutsAfter(i)
  BY DEF OutsAfter
<1>2. EditsMade = UNION {EditsOf(transcript[i].calls, OutsAfter(i)) :
                           i \in {i \in DOMAIN transcript : transcript[i].role = "assistant"}}
  BY Zenon DEF EditsMade, OutsAfter
<1>3. EditsMade' = UNION {EditsOf(transcript'[i].calls, OutsAfter(i)') :
                           i \in {i \in DOMAIN transcript' : transcript'[i].role = "assistant"}}
  BY Zenon DEF EditsMade, OutsAfter
<1> QED
  BY <1>1, <1>2, <1>3

------------------------------------------------------------------------------
(* The inductive invariant, step by step *)

\* What an answer found is of the version that is pinned.
InPinned(o) == o.did = "searched" => \A r \in o.rows : Node[r].born <= coder.version /\ coder.version < until[r]
\* All that was found is.
FoundIsPinned == \A i \in DOMAIN ToolOuts : InPinned(ToolOuts[i])

\* All that the loop keeps.
AgentKeeps ==
    /\ AgentTypes /\ Balance /\ Paced /\ Turning /\ FoundIsPinned /\ NothingIsOverwritten

\* Files that stay are still what the edits left of them.
LEMMA FilesStay ==
    ASSUME NothingIsOverwritten, repo' = repo, EditsMade \subseteq EditsMade'
    PROVE  NothingIsOverwritten'
<1>1. PICK first \in FirstRepos :
        /\ DOMAIN first \subseteq DOMAIN repo
        /\ \A f \in DOMAIN first : \A l \in ToSet(first[f]) \ Fixable :
             <<f, l>> \notin EditsMade => l \in ToSet(repo[f])
        /\ \A f \in DOMAIN repo \ DOMAIN first : <<f, NoLine>> \in EditsMade
  BY DEF NothingIsOverwritten
<1>2. /\ DOMAIN first \subseteq DOMAIN repo'
      /\ \A f \in DOMAIN first : \A l \in ToSet(first[f]) \ Fixable :
           <<f, l>> \notin EditsMade' => l \in ToSet(repo'[f])
      /\ \A f \in DOMAIN repo' \ DOMAIN first : <<f, NoLine>> \in EditsMade'
  BY <1>1
<1> QED
  BY <1>2 DEF NothingIsOverwritten

\* A file that is written keeps the lines no edit names.
LEMMA FileIsWritten ==
    ASSUME NothingIsOverwritten, NEW f, NEW body, Holding(f, body), EditsMade \subseteq EditsMade',
           \A l \in ToSet(TextOf(f)) \ Fixable : <<f, l>> \notin EditsMade' => l \in ToSet(body),
           f \notin DOMAIN repo => <<f, NoLine>> \in EditsMade'
    PROVE  NothingIsOverwritten'
<1>1. PICK first \in FirstRepos :
        /\ DOMAIN first \subseteq DOMAIN repo
        /\ \A g \in DOMAIN first : \A l \in ToSet(first[g]) \ Fixable :
             <<g, l>> \notin EditsMade => l \in ToSet(repo[g])
        /\ \A g \in DOMAIN repo \ DOMAIN first : <<g, NoLine>> \in EditsMade
  BY DEF NothingIsOverwritten
<1>2. /\ DOMAIN repo' = DOMAIN repo \union {f} /\ repo'[f] = body
      /\ \A g \in DOMAIN repo : g # f => repo'[g] = repo[g]
  BY DEF Holding
<1>3. ASSUME NEW g \in DOMAIN first, NEW l \in ToSet(first[g]) \ Fixable, <<g, l>> \notin EditsMade'
      PROVE  l \in ToSet(repo'[g])
  <2>1. g \in DOMAIN repo /\ l \in ToSet(repo[g])
    BY <1>1, <1>3
  <2>2. CASE g = f
    BY <1>2, <1>3, <2>1, <2>2 DEF TextOf
  <2>3. CASE g # f
    BY <1>2, <2>1, <2>3
  <2> QED
    BY <2>2, <2>3
<1>4. \A g \in DOMAIN repo' \ DOMAIN first : <<g, NoLine>> \in EditsMade'
  BY <1>1, <1>2
<1>5. DOMAIN first \subseteq DOMAIN repo'
  BY <1>1, <1>2
<1> QED
  BY <1>3, <1>4, <1>5 DEF NothingIsOverwritten

\* The builder closes what is open, and from a later version on.
LEMMA BuilderKeepsAgent == AgentKeeps /\ KbBuilder => AgentKeeps'
<1> SUFFICES ASSUME AgentKeeps, KbBuilder PROVE AgentKeeps'
  OBVIOUS
<1>1. Finalize \/ Activates
  BY DEF KbBuilder
<1>2. coder' = coder /\ repo' = repo /\ transcript' = transcript
  BY DEF KbBuilder
<1>3. LookTypes /\ LookTypes'
  BY <1>1, BuilderTypes DEF AgentKeeps, AgentTypes
<1>4. servedSeq' >= servedSeq /\ servedSeq \in Nat /\ servedSeq' \in Nat
  BY <1>1, <1>3 DEF Finalize, Activates, LookTypes
<1>5. AgentTypes'
  <2>1. coder \in Coders /\ coder.version <= servedSeq /\ transcript \in Seq(Notes)
        /\ \A f \in DOMAIN repo : repo[f] \in Seq(Lines)
    BY DEF AgentKeeps, AgentTypes
  <2>2. coder.version \in Nat
    BY <2>1 DEF Coders
  <2>3. coder'.version <= servedSeq'
    BY <1>2, <1>4, <2>1, <2>2
  <2> QED
    BY <1>2, <1>3, <2>1, <2>3 DEF AgentTypes
<1>6. ToolOuts' = ToolOuts /\ EditsMade' = EditsMade
  BY <1>2, OutsStay, EditsStand
<1>7. Balance'
  BY <1>2, <1>6, BalanceStays DEF AgentKeeps
<1>8. Paced' /\ Turning'
  BY <1>2 DEF AgentKeeps, Paced, Turning, LastNote
<1>9. \A r \in Nodes : coder.version < until[r] => coder.version < until'[r]
  <2>1. CASE Activates
    BY <2>1 DEF Activates
  <2>2. CASE Finalize
    <3>1. PICK b \in Builds :
            until' = [r \in Nodes |-> IF r \in b.rows /\ LiveNow(Node[r].born, until[r])
                                      THEN servedSeq + 1 ELSE until[r]]
      BY <2>2 DEF Finalize
    <3>2. coder.version <= servedSeq /\ coder.version \in Nat /\ servedSeq \in Nat
      BY <1>4 DEF AgentKeeps, AgentTypes, Coders
    <3>3. coder.version < servedSeq + 1
      BY <3>2
    <3> QED
      BY <3>1, <3>3
  <2> QED
    BY <1>1, <2>1, <2>2
<1>10. FoundIsPinned'
  <2>1. ToolOuts \in Seq(Outcomes)
    BY ToolOutsFits DEF AgentKeeps
  <2> SUFFICES ASSUME NEW i \in DOMAIN ToolOuts', ToolOuts'[i].did = "searched", NEW r \in ToolOuts'[i].rows
               PROVE  Node[r].born <= coder'.version /\ coder'.version < until'[r]
    BY DEF FoundIsPinned, InPinned
  <2>2. ToolOuts'[i] = ToolOuts[i] /\ i \in DOMAIN ToolOuts
    BY <1>6
  <2>3. ToolOuts[i] \in Outcomes
    <3> QED
      BY <2>1, <2>2
  <2>4. r \in Nodes
    BY <2>2, <2>3 DEF Outcomes, Answers
  <2>5. Node[r].born <= coder.version /\ coder.version < until[r]
    BY <2>2 DEF AgentKeeps, FoundIsPinned, InPinned
  <2> QED
    BY <1>2, <1>9, <2>4, <2>5
<1>11. NothingIsOverwritten'
  BY <1>2, <1>6, FilesStay DEF AgentKeeps
<1> QED
  BY <1>5, <1>7, <1>8, <1>10, <1>11 DEF AgentKeeps

\* What a step of the loop needs beside its own fields.
LEMMA PinnedStays ==
    ASSUME FoundIsPinned, ToolOuts' = ToolOuts, coder'.version = coder.version, until' = until
    PROVE  FoundIsPinned'
  BY DEF FoundIsPinned, InPinned

\* A call of a tool is answered by o.
LEMMA ToolKeepsAgent ==
    ASSUME AgentKeeps, AgentAt("tools"), coder.pending # <<>>, NEW o \in Outcomes, InPinned(o),
           NEW left \in Int, NEW tokens \in Int,
           coder' = [coder EXCEPT !.pending = Tail(coder.pending), !.outs = Append(coder.outs, o),
                                  !.left = left, !.tokens = tokens],
           \/ o.did \notin {"searched", "failed", "blocked"} /\ left = coder.left /\ tokens = coder.tokens
           \/ o.did = "blocked" /\ ~ BudgetOpen /\ left = coder.left /\ tokens = coder.tokens
           \/ o.did = "failed" /\ BudgetOpen /\ left = coder.left - 1 /\ tokens = coder.tokens
           \/ /\ o.did = "searched" /\ BudgetOpen /\ o \in Answers
              /\ left = coder.left - 1 /\ tokens = coder.tokens - o.cost,
           transcript' = transcript, UNCHANGED lookVars, \A f \in DOMAIN repo' : repo'[f] \in Seq(Lines)
    PROVE  AgentTypes' /\ Balance' /\ Paced' /\ Turning' /\ FoundIsPinned'
<1>1. coder \in Coders /\ coder.version <= servedSeq /\ transcript \in Seq(Notes) /\ LookTypes
  BY DEF AgentKeeps, AgentTypes
<1>2. Tail(coder.pending) \in Seq(ToolCalls) /\ Append(coder.outs, o) \in Seq(Outcomes)
  <2>1. coder.pending \in Seq(ToolCalls) /\ coder.outs \in Seq(Outcomes)
    BY <1>1 DEF Coders
  <2> QED
    BY <2>1
<1> DEFINE outs == Append(coder.outs, o)
           pending == Tail(coder.pending)
<1>3. outs \in Seq(Outcomes) /\ pending \in Seq(ToolCalls)
      /\ coder' = [coder EXCEPT !.pending = pending, !.outs = outs, !.left = left, !.tokens = tokens]
  BY <1>2
<1> HIDE DEF outs, pending
<1>4. /\ coder' \in Coders
      /\ coder'.pc = coder.pc /\ coder'.version = coder.version /\ coder'.kb = coder.kb
      /\ coder'.steps = coder.steps /\ coder'.calls = coder.calls
      /\ coder'.left = left /\ coder'.tokens = tokens /\ coder'.outs = outs /\ coder'.pending = pending
  BY <1>1, <1>3 DEF Coders
<1>5. UNCHANGED <<servedSeq, until>> /\ LookTypes'
  BY <1>1, Zenon DEF lookVars, LookTypes, TieIds
<1>6. AgentTypes'
  BY <1>1, <1>4, <1>5 DEF AgentTypes
<1>7. coder.pc = "tools" /\ coder'.pc = "tools"
  BY <1>4 DEF AgentAt
<1>8. coder'.outs = Append(coder.outs, o) /\ coder'.pending = Tail(coder.pending)
  BY <1>4 DEF outs, pending
<1>9. ToolOuts' = OneMore(ToolOuts, o)
  BY <1>6, <1>8, OutcomeAdds DEF AgentKeeps
<1>10. Balance'
  <2>1. \/ o.did \notin {"searched", "failed", "blocked"} /\ coder'.left = coder.left /\ coder'.tokens = coder.tokens
        \/ o.did = "blocked" /\ ~ BudgetOpen /\ coder'.left = coder.left /\ coder'.tokens = coder.tokens
        \/ o.did = "failed" /\ BudgetOpen /\ coder'.left = coder.left - 1 /\ coder'.tokens = coder.tokens
        \/ /\ o.did = "searched" /\ BudgetOpen /\ o \in Answers
           /\ coder'.left = coder.left - 1 /\ coder'.tokens = coder.tokens - o.cost
    BY <1>4
  <2>2. AgentTypes /\ Balance /\ coder'.kb = coder.kb
    BY <1>4 DEF AgentKeeps
  <2> QED
    BY <1>9, <2>1, <2>2, BalanceMoves, Zenon
<1>11. Paced'
  BY <1>4 DEF AgentKeeps, Paced
<1>12. Turning'
  BY <1>7, <1>8, TurnIsAnswered DEF AgentKeeps
<1>13. FoundIsPinned'
  <2>1. ToolOuts \in Seq(Outcomes)
    BY ToolOutsFits DEF AgentKeeps
  <2>2. /\ Len(ToolOuts) \in Nat /\ DOMAIN ToolOuts = 1 .. Len(ToolOuts)
        /\ DOMAIN ToolOuts' = 1 .. Len(ToolOuts) + 1
        /\ \A i \in 1 .. Len(ToolOuts) : ToolOuts'[i] = ToolOuts[i]
        /\ ToolOuts'[Len(ToolOuts) + 1] = o
    <3> QED
      BY <1>9, <2>1, AppendHolds DEF OneMore
  <2>3. ASSUME NEW i \in DOMAIN ToolOuts' PROVE InPinned(ToolOuts'[i])
    <3>1. CASE i = Len(ToolOuts) + 1
      BY <2>2, <3>1
    <3>2. CASE i # Len(ToolOuts) + 1
      <4>1. i \in 1 .. Len(ToolOuts)
        BY <2>2, <3>2
      <4> QED
        BY <2>2, <4>1 DEF AgentKeeps, FoundIsPinned
    <3> QED
      BY <3>1, <3>2
  <2> SUFFICES ASSUME NEW i \in DOMAIN ToolOuts', ToolOuts'[i].did = "searched", NEW r \in ToolOuts'[i].rows
               PROVE  Node[r].born <= coder'.version /\ coder'.version < until'[r]
    BY DEF FoundIsPinned, InPinned
  <2>4. InPinned(ToolOuts'[i])
    BY <2>3
  <2> QED
    BY <1>4, <1>5, <2>4 DEF InPinned
<1> QED
  BY <1>6, <1>10, <1>11, <1>12, <1>13

\* An outcome, and what it leaves of the budgets.
LEMMA OutcomeIs ==
    ASSUME coder \in Coders, NEW o
    PROVE  /\ Outcome(o) = [coder EXCEPT !.pending = Tail(coder.pending), !.outs = Append(coder.outs, o),
                                         !.left = coder.left, !.tokens = coder.tokens]
           /\ [Outcome(o) EXCEPT !.left = @ - 1]
                = [coder EXCEPT !.pending = Tail(coder.pending), !.outs = Append(coder.outs, o),
                                !.left = coder.left - 1, !.tokens = coder.tokens]
           /\ \A cost : [Outcome(o) EXCEPT !.left = @ - 1, !.tokens = @ - cost]
                = [coder EXCEPT !.pending = Tail(coder.pending), !.outs = Append(coder.outs, o),
                                !.left = coder.left - 1, !.tokens = coder.tokens - cost]
<1> DEFINE a == Tail(coder.pending)
           b == Append(coder.outs, o)
<1>1. Outcome(o) = [coder EXCEPT !.pending = a, !.outs = b]
  BY Zenon DEF Outcome
<1> HIDE DEF a, b
<1> DEFINE c == Outcome(o)
<1>2. c = [coder EXCEPT !.pending = a, !.outs = b]
  BY <1>1
<1>3. c.left = coder.left /\ c.tokens = coder.tokens
  BY <1>2 DEF Coders
<1> HIDE DEF c
<1>4. c = [coder EXCEPT !.pending = a, !.outs = b, !.left = coder.left, !.tokens = coder.tokens]
  BY <1>2 DEF Coders
<1>5. [c EXCEPT !.left = c.left - 1]
        = [coder EXCEPT !.pending = a, !.outs = b, !.left = coder.left - 1, !.tokens = coder.tokens]
  BY <1>2, <1>3 DEF Coders
<1>6. ASSUME NEW cost
      PROVE  [c EXCEPT !.left = c.left - 1, !.tokens = c.tokens - cost]
               = [coder EXCEPT !.pending = a, !.outs = b, !.left = coder.left - 1, !.tokens = coder.tokens - cost]
  BY <1>2, <1>3 DEF Coders
<1>7. /\ Outcome(o) = [coder EXCEPT !.pending = a, !.outs = b, !.left = coder.left, !.tokens = coder.tokens]
      /\ [Outcome(o) EXCEPT !.left = @ - 1]
           = [coder EXCEPT !.pending = a, !.outs = b, !.left = coder.left - 1, !.tokens = coder.tokens]
      /\ \A cost : [Outcome(o) EXCEPT !.left = @ - 1, !.tokens = @ - cost]
           = [coder EXCEPT !.pending = a, !.outs = b, !.left = coder.left - 1, !.tokens = coder.tokens - cost]
  BY <1>4, <1>5, <1>6, Zenon DEF c
<1> QED
  BY <1>7, Zenon DEF a, b

\* The call that is next.
LEMMA NextFits ==
    ASSUME AgentKeeps, NEW tool, NextIs(tool)
    PROVE  /\ coder \in Coders /\ AgentAt("tools") /\ coder.pc = "tools" /\ coder.pending # <<>>
           /\ CallNow \in ToolCalls /\ CallNow.tool = tool
           /\ coder.left \in Int /\ coder.tokens \in Int
           /\ \A f \in DOMAIN repo : repo[f] \in Seq(Lines)
<1>1. coder \in Coders /\ \A f \in DOMAIN repo : repo[f] \in Seq(Lines)
  BY DEF AgentKeeps, AgentTypes
<1>2. coder.pending \in Seq(ToolCalls) /\ coder.left \in Int /\ coder.tokens \in Int
  BY <1>1 DEF Coders
<1>3. coder.pc = "tools" /\ coder.pending # <<>> /\ CallNow.tool = tool
  BY DEF NextIs, AgentAt, CallNow
<1>4. CallNow \in ToolCalls
  BY <1>2, <1>3 DEF CallNow
<1> QED
  BY <1>1, <1>2, <1>3, <1>4 DEF AgentAt

\* A search keeps the invariant.
LEMMA SearchKeepsAgent == AgentKeeps /\ SearchKb => AgentKeeps'
<1> SUFFICES ASSUME AgentKeeps, SearchKb PROVE AgentKeeps'
  OBVIOUS
<1>1. /\ coder \in Coders /\ AgentAt("tools") /\ coder.pc = "tools" /\ coder.pending # <<>>
      /\ CallNow \in ToolCalls /\ CallNow.tool = "kb_search"
      /\ coder.left \in Int /\ coder.tokens \in Int
      /\ \A f \in DOMAIN repo : repo[f] \in Seq(Lines)
  BY NextFits DEF SearchKb
<1>2. transcript' = transcript /\ repo' = repo /\ UNCHANGED lookVars
  BY DEF SearchKb, RestStays
<1>3. \A f \in DOMAIN repo' : repo'[f] \in Seq(Lines)
  BY <1>1, <1>2
<1>4. PICK o \in Outcomes, left \in Int, tokens \in Int :
        /\ InPinned(o)
        /\ coder' = [coder EXCEPT !.pending = Tail(coder.pending), !.outs = Append(coder.outs, o),
                                  !.left = left, !.tokens = tokens]
        /\ \/ o.did = "blocked" /\ ~ BudgetOpen /\ left = coder.left /\ tokens = coder.tokens
           \/ o.did = "failed" /\ BudgetOpen /\ left = coder.left - 1 /\ tokens = coder.tokens
           \/ /\ o.did = "searched" /\ BudgetOpen /\ o \in Answers
              /\ left = coder.left - 1 /\ tokens = coder.tokens - o.cost
  <2> DEFINE next(o, left, tokens) ==
        [coder EXCEPT !.pending = Tail(coder.pending), !.outs = Append(coder.outs, o),
                      !.left = left, !.tokens = tokens]
  <2>1. CASE ~ MeteredNow /\ coder' = Outcome([did |-> "blocked"])
    <3> DEFINE o == [did |-> "blocked"]
    <3>1. o \in Outcomes /\ o.did = "blocked" /\ InPinned(o)
      BY DEF Outcomes, InPinned
    <3> HIDE DEF o
    <3>2. coder' = next(o, coder.left, coder.tokens)
      BY <1>1, <2>1, OutcomeIs DEF o
    <3> HIDE DEF next
    <3> QED
      BY <1>1, <2>1, <3>1, <3>2, Zenon DEF MeteredNow, next
  <2>2. CASE MeteredNow /\ coder' = [Outcome([did |-> "failed"]) EXCEPT !.left = @ - 1]
    <3> DEFINE o == [did |-> "failed"]
    <3>1. o \in Outcomes /\ o.did = "failed" /\ InPinned(o)
      BY DEF Outcomes, InPinned
    <3> HIDE DEF o
    <3>2. coder' = next(o, coder.left - 1, coder.tokens)
      BY <1>1, <2>2, OutcomeIs DEF o
    <3>3. coder.left - 1 \in Int
      BY <1>1
    <3> HIDE DEF next
    <3> QED
      BY <1>1, <2>2, <3>1, <3>2, <3>3, Zenon DEF MeteredNow, next
  <2>3. CASE MeteredNow /\ coder' =
               [Outcome([did |-> "searched", rows |-> TopOf(CallNow.query),
                         cost |-> AnswerTokens + RowTokens * Cardinality(TopOf(CallNow.query))])
                  EXCEPT !.left = @ - 1,
                         !.tokens = @ - (AnswerTokens + RowTokens * Cardinality(TopOf(CallNow.query)))]
    <3> DEFINE rows == TopOf(CallNow.query)
               cost == AnswerTokens + RowTokens * Cardinality(rows)
               o == [did |-> "searched", rows |-> rows, cost |-> cost]
    <3>1. o \in Answers /\ \A r \in rows : r \in Nodes /\ OfVersion(Node[r].born, until[r], coder.version)
      <4>1. DOMAIN CallNow.query \subseteq Nodes
        BY <1>1, TurnFits
      <4> QED
        BY <4>1, AnswerFits DEF AgentKeeps
    <3>2. o.did = "searched" /\ o.rows = rows /\ o.cost = cost
      OBVIOUS
    <3>3. o \in Outcomes
      BY <3>1 DEF Outcomes
    <3>4. o.cost \in Nat
      BY <3>1 DEF Answers
    <3>5. coder' = [Outcome(o) EXCEPT !.left = @ - 1, !.tokens = @ - cost] /\ MeteredNow
      BY <2>3
    <3> HIDE DEF o, cost, rows
    <3>6. InPinned(o)
      BY <3>1, <3>2 DEF InPinned, OfVersion
    <3>7. coder' = next(o, coder.left - 1, coder.tokens - o.cost)
      <4>1. \A x : [Outcome(o) EXCEPT !.left = @ - 1, !.tokens = @ - x] = next(o, coder.left - 1, coder.tokens - x)
        BY <1>1, OutcomeIs, Zenon
      <4> HIDE DEF next
      <4> QED
        BY <3>2, <3>5, <4>1, Zenon
    <3>8. coder.left - 1 \in Int /\ coder.tokens - o.cost \in Int
      BY <1>1, <3>4
    <3> HIDE DEF next
    <3> QED
      BY <1>1, <3>1, <3>2, <3>3, <3>5, <3>6, <3>7, <3>8, Zenon DEF MeteredNow, next
  <2> QED
    BY <2>1, <2>2, <2>3, Zenon DEF SearchKb
<1>5. AgentTypes' /\ Balance' /\ Paced' /\ Turning' /\ FoundIsPinned'
  <2> QED
    BY <1>1, <1>2, <1>3, <1>4, ToolKeepsAgent, Zenon
<1>6. coder'.outs = Append(coder.outs, o)
  BY <1>1, <1>4 DEF Coders
<1>7. EditsMade \subseteq EditsMade'
  BY <1>1, <1>2, <1>6, EditsGrow DEF AgentKeeps
<1>8. NothingIsOverwritten'
  BY <1>2, <1>7, FilesStay DEF AgentKeeps
<1> QED
  BY <1>5, <1>8 DEF AgentKeeps

\* A call that is no search is answered by o, and writes at most its file.
LEMMA PlainCallKeepsAgent ==
    ASSUME AgentKeeps, NEW tool, NextIs(tool), NEW did \in {"read", "error", "edited", "linted"},
           coder' = Outcome([did |-> did]), transcript' = transcript, UNCHANGED lookVars,
           \A f \in DOMAIN repo' : repo'[f] \in Seq(Lines)
    PROVE  /\ AgentTypes' /\ Balance' /\ Paced' /\ Turning' /\ FoundIsPinned'
           /\ EditsMade \subseteq EditsMade'
           /\ tool = "edit" /\ did = "edited" => <<CallNow.file, CallNow.old>> \in EditsMade'
<1> DEFINE o == [did |-> did]
<1>1. /\ coder \in Coders /\ AgentAt("tools") /\ coder.pc = "tools" /\ coder.pending # <<>>
      /\ CallNow.tool = tool /\ coder.left \in Int /\ coder.tokens \in Int
  BY NextFits
<1>2. o \in Outcomes /\ o.did = did /\ InPinned(o)
  BY DEF Outcomes, InPinned
<1> HIDE DEF o
<1>3. PICK left \in Int, tokens \in Int :
        /\ left = coder.left /\ tokens = coder.tokens
        /\ coder' = [coder EXCEPT !.pending = Tail(coder.pending), !.outs = Append(coder.outs, o),
                                  !.left = left, !.tokens = tokens]
  <2>1. coder' = [coder EXCEPT !.pending = Tail(coder.pending), !.outs = Append(coder.outs, o),
                               !.left = coder.left, !.tokens = coder.tokens]
    BY <1>1, OutcomeIs DEF o
  <2> QED
    BY <1>1, <2>1, Zenon
<1>4. \/ o.did \notin {"searched", "failed", "blocked"} /\ left = coder.left /\ tokens = coder.tokens
      \/ o.did = "blocked" /\ ~ BudgetOpen /\ left = coder.left /\ tokens = coder.tokens
      \/ o.did = "failed" /\ BudgetOpen /\ left = coder.left - 1 /\ tokens = coder.tokens
      \/ /\ o.did = "searched" /\ BudgetOpen /\ o \in Answers
         /\ left = coder.left - 1 /\ tokens = coder.tokens - o.cost
  BY <1>2, <1>3
<1>5. AgentTypes' /\ Balance' /\ Paced' /\ Turning' /\ FoundIsPinned'
  BY <1>1, <1>2, <1>3, <1>4, ToolKeepsAgent
<1>6. coder'.outs = Append(coder.outs, o)
  BY <1>1, <1>3 DEF Coders
<1>7. /\ EditsMade \subseteq EditsMade'
      /\ CallNow.tool = "edit" /\ o.did = "edited" => <<CallNow.file, CallNow.old>> \in EditsMade'
  BY <1>1, <1>2, <1>6, EditsGrow DEF AgentKeeps
<1> QED
  BY <1>1, <1>2, <1>5, <1>7

\* Reading a file keeps it, and so does a call that cannot be read.
LEMMA ReadKeepsAgent == AgentKeeps /\ (ReadFile \/ BadCall) => AgentKeeps'
<1> SUFFICES ASSUME AgentKeeps, ReadFile \/ BadCall PROVE AgentKeeps'
  OBVIOUS
<1>1. PICK tool \in {"read", "unknown"}, did \in {"read", "error", "edited", "linted"} : NextIs(tool) /\ coder' = Outcome([did |-> did])
  <2>1. CASE ReadFile
    BY <2>1 DEF ReadFile
  <2>2. CASE BadCall
    <3>1. NextIs("unknown") /\ coder' = Outcome([did |-> "error"]) /\ "error" \in {"read", "error", "edited", "linted"}
      BY <2>2 DEF BadCall
    <3> QED
      BY <3>1, Zenon
  <2> QED
    BY <2>1, <2>2
<1>2. transcript' = transcript /\ repo' = repo /\ UNCHANGED lookVars
  BY DEF ReadFile, BadCall, RestStays
<1>3. \A f \in DOMAIN repo' : repo'[f] \in Seq(Lines)
  BY <1>2 DEF AgentKeeps, AgentTypes
<1>4. AgentTypes' /\ Balance' /\ Paced' /\ Turning' /\ FoundIsPinned' /\ EditsMade \subseteq EditsMade'
  BY <1>1, <1>2, <1>3, PlainCallKeepsAgent
<1>5. NothingIsOverwritten'
  BY <1>2, <1>4, FilesStay DEF AgentKeeps
<1> QED
  BY <1>4, <1>5 DEF AgentKeeps

\* An edit keeps it.
LEMMA EditKeepsAgent == AgentKeeps /\ EditFile => AgentKeeps'
<1> SUFFICES ASSUME AgentKeeps, EditFile PROVE AgentKeeps'
  OBVIOUS
<1>1. NextIs("edit") /\ transcript' = transcript /\ UNCHANGED lookVars
  BY DEF EditFile
<1>2. CallNow \in ToolCalls /\ CallNow.tool = "edit" /\ \A f \in DOMAIN repo : repo[f] \in Seq(Lines)
  BY <1>1, NextFits
<1>3. CASE repo' = repo /\ coder' = Outcome([did |-> "error"])
  <2>1. AgentTypes' /\ Balance' /\ Paced' /\ Turning' /\ FoundIsPinned' /\ EditsMade \subseteq EditsMade'
    BY <1>1, <1>2, <1>3, PlainCallKeepsAgent
  <2>2. NothingIsOverwritten'
    BY <1>3, <2>1, FilesStay DEF AgentKeeps
  <2> QED
    BY <2>1, <2>2 DEF AgentKeeps
<1>4. CASE /\ Editable(CallNow) /\ Holding(CallNow.file, Edited(CallNow))
           /\ coder' = Outcome([did |-> "edited"])
  <2> DEFINE f == CallNow.file
             body == Edited(CallNow)
  <2>1. /\ body \in Seq(Lines)
        /\ \A l \in ToSet(TextOf(f)) : l # CallNow.old => l \in ToSet(body)
        /\ f \notin DOMAIN repo => CallNow.old = NoLine
    BY <1>2, <1>4, EditedKeeps DEF AgentKeeps
  <2> HIDE DEF f, body
  <2>2. Holding(f, body)
    BY <1>4 DEF f, body
  <2>3. \A g \in DOMAIN repo' : repo'[g] \in Seq(Lines)
    BY <1>2, <2>1, <2>2 DEF Holding
  <2>4. /\ AgentTypes' /\ Balance' /\ Paced' /\ Turning' /\ FoundIsPinned' /\ EditsMade \subseteq EditsMade'
        /\ <<CallNow.file, CallNow.old>> \in EditsMade'
    BY <1>1, <1>4, <2>3, PlainCallKeepsAgent
  <2>5. NothingIsOverwritten'
    <3>1. \A l \in ToSet(TextOf(f)) \ Fixable : <<f, l>> \notin EditsMade' => l \in ToSet(body)
      BY <2>1, <2>4 DEF f
    <3>2. f \notin DOMAIN repo => <<f, NoLine>> \in EditsMade'
      BY <2>1, <2>4 DEF f
    <3> QED
      BY <2>2, <2>4, <3>1, <3>2, FileIsWritten DEF AgentKeeps
  <2> QED
    BY <2>4, <2>5 DEF AgentKeeps
<1> QED
  BY <1>3, <1>4, Zenon DEF EditFile

\* The linter keeps it.
LEMMA LintKeepsAgent == AgentKeeps /\ LintFile => AgentKeeps'
<1> SUFFICES ASSUME AgentKeeps, LintFile PROVE AgentKeeps'
  OBVIOUS
<1>1. NextIs("lint") /\ transcript' = transcript /\ UNCHANGED lookVars
  BY DEF LintFile
<1>2. \A f \in DOMAIN repo : repo[f] \in Seq(Lines)
  BY <1>1, NextFits
<1>3. CASE repo' = repo /\ coder' = Outcome([did |-> "error"])
  <2>1. AgentTypes' /\ Balance' /\ Paced' /\ Turning' /\ FoundIsPinned' /\ EditsMade \subseteq EditsMade'
    BY <1>1, <1>2, <1>3, PlainCallKeepsAgent
  <2>2. NothingIsOverwritten'
    BY <1>3, <2>1, FilesStay DEF AgentKeeps
  <2> QED
    BY <2>1, <2>2 DEF AgentKeeps
<1>4. CASE /\ CallNow.file \in DOMAIN repo /\ Holding(CallNow.file, Fixed(repo[CallNow.file]))
           /\ coder' = Outcome([did |-> "linted"])
  <2> DEFINE f == CallNow.file
             body == Fixed(repo[f])
  <2>1. /\ body \in Seq(Lines)
        /\ \A l \in ToSet(TextOf(f)) : l \notin Fixable => l \in ToSet(body)
    <3>1. repo[f] \in Seq(Lines) /\ TextOf(f) = repo[f]
      BY <1>2, <1>4 DEF TextOf
    <3> HIDE DEF f
    <3> QED
      BY <3>1, FixedKeeps
  <2> HIDE DEF f, body
  <2>2. Holding(f, body) /\ f \in DOMAIN repo
    BY <1>4 DEF f, body
  <2>3. \A g \in DOMAIN repo' : repo'[g] \in Seq(Lines)
    BY <1>2, <2>1, <2>2 DEF Holding
  <2>4. AgentTypes' /\ Balance' /\ Paced' /\ Turning' /\ FoundIsPinned' /\ EditsMade \subseteq EditsMade'
    BY <1>1, <1>4, <2>3, PlainCallKeepsAgent
  <2>5. NothingIsOverwritten'
    BY <2>1, <2>2, <2>4, FileIsWritten DEF AgentKeeps
  <2> QED
    BY <2>4, <2>5 DEF AgentKeeps
<1> QED
  BY <1>3, <1>4, Zenon DEF LintFile

\* A step of the loop adds a note, or none, and moves no file and no budget.
LEMMA LoopKeepsAgent ==
    ASSUME AgentKeeps, RestStays, coder' \in Coders,
           coder'.kb = coder.kb, coder'.version = coder.version, coder'.left = coder.left,
           coder'.tokens = coder.tokens, transcript' \in Seq(Notes),
           ToolOuts' = ToolOuts, EditsMade \subseteq EditsMade', Paced', Turning'
    PROVE  AgentKeeps'
<1>1. repo' = repo /\ UNCHANGED lookVars
  BY DEF RestStays
<1>2. UNCHANGED <<servedSeq, until>> /\ LookTypes'
  BY <1>1, Zenon DEF lookVars, LookTypes, TieIds, AgentKeeps, AgentTypes
<1>3. AgentTypes'
  BY <1>1, <1>2 DEF AgentKeeps, AgentTypes
<1>4. Balance'
  BY BalanceStays DEF AgentKeeps
<1>5. FoundIsPinned'
  BY <1>2, PinnedStays DEF AgentKeeps
<1>6. NothingIsOverwritten'
  BY <1>1, FilesStay DEF AgentKeeps
<1> QED
  BY <1>3, <1>4, <1>5, <1>6 DEF AgentKeeps

\* The request of a step, as the process counts it.
LEMMA RequestIs ==
    ASSUME coder \in Coders
    PROVE  /\ OneMoreCall \in Coders /\ OneMoreCall.steps = coder.steps /\ OneMoreCall.calls = coder.calls + 1
           /\ OneMoreCall.kb = coder.kb /\ OneMoreCall.version = coder.version /\ OneMoreCall.left = coder.left
           /\ OneMoreCall.tokens = coder.tokens /\ OneMoreCall.outs = coder.outs
           /\ OneMoreCall.pending = coder.pending /\ OneMoreCall.pc = coder.pc
<1> DEFINE open == BudgetOpen
           calls == coder.calls + 1
<1>1. OneMoreCall = [coder EXCEPT !.offered = open, !.calls = calls]
  BY Zenon DEF OneMoreCall
<1>2. open \in BOOLEAN
  BY DEF BudgetOpen
<1>3. coder.calls \in Nat
  BY DEF Coders
<1>4. calls \in Nat /\ calls = coder.calls + 1
  BY <1>3
<1> HIDE DEF open, calls
<1>5. OneMoreCall \in Coders
  BY <1>1, <1>2, <1>4 DEF Coders
<1>6. /\ OneMoreCall.steps = coder.steps /\ OneMoreCall.calls = calls
      /\ OneMoreCall.kb = coder.kb /\ OneMoreCall.version = coder.version /\ OneMoreCall.left = coder.left
      /\ OneMoreCall.tokens = coder.tokens /\ OneMoreCall.outs = coder.outs
      /\ OneMoreCall.pending = coder.pending /\ OneMoreCall.pc = coder.pc
  BY <1>1 DEF Coders
<1> QED
  BY <1>4, <1>5, <1>6

\* The model answers with calls, or ends.
LEMMA ReplyKeepsAgent == AgentKeeps /\ ModelReplies => AgentKeeps'
<1> SUFFICES ASSUME AgentKeeps, NEW turn \in Turns, AgentAt("model") \/ AgentAt("retry"), RestStays, TurnOf(turn)
             PROVE  AgentKeeps'
  BY DEF ModelReplies
<1>1. /\ coder \in Coders /\ transcript \in Seq(Notes) /\ AgentTypes /\ Turning /\ Paced
      /\ coder.pc \in {"model", "retry"}
  BY DEF AgentKeeps, AgentTypes, AgentAt
<1>2. turn \in Seq(ToolCalls)
  BY TurnFits
<1> DEFINE at == IF turn = <<>> THEN "report" ELSE "tools"
           asked == OneMoreCall
<1>3. coder' = [asked EXCEPT !.pc = at, !.steps = asked.steps + 1, !.pending = turn, !.outs = <<>>]
  BY DEF TurnOf
<1>4. /\ asked \in Coders /\ asked.steps = coder.steps /\ asked.calls = coder.calls + 1
      /\ asked.kb = coder.kb /\ asked.version = coder.version /\ asked.left = coder.left
      /\ asked.tokens = coder.tokens
  BY <1>1, RequestIs
<1>5. at \in {"report", "tools"} /\ <<>> \in Seq(Outcomes)
  OBVIOUS
<1> DEFINE steps == asked.steps + 1
<1>6. coder' = [asked EXCEPT !.pc = at, !.steps = steps, !.pending = turn, !.outs = <<>>]
  BY <1>3
<1> HIDE DEF asked, at
<1>7. asked.steps \in Nat
  BY <1>4 DEF Coders
<1>8. steps \in Nat /\ steps = coder.steps + 1
  BY <1>4, <1>7
<1> HIDE DEF steps
<1>9. /\ coder' \in Coders /\ coder'.kb = coder.kb /\ coder'.version = coder.version
      /\ coder'.left = coder.left /\ coder'.tokens = coder.tokens
      /\ coder'.steps = coder.steps + 1 /\ coder'.calls = coder.calls + 1
      /\ coder'.pending = turn /\ coder'.outs = <<>> /\ coder'.pc = at
  <2>1. coder' \in Coders
    BY <1>2, <1>4, <1>5, <1>6, <1>8 DEF Coders
  <2>2. /\ coder'.kb = asked.kb /\ coder'.version = asked.version
        /\ coder'.left = asked.left /\ coder'.tokens = asked.tokens
        /\ coder'.steps = steps /\ coder'.calls = asked.calls
        /\ coder'.pending = turn /\ coder'.outs = <<>> /\ coder'.pc = at
    BY <1>4, <1>6 DEF Coders
  <2> QED
    BY <1>4, <1>8, <2>1, <2>2
<1>10. coder.outs = <<>> /\ transcript # <<>>
  BY <1>1 DEF Turning
<1>11. Paced'
  <2>1. MaxSteps \in Nat /\ coder.steps \in Nat /\ coder.calls \in Nat
    BY <1>1, AgentAssumption DEF Coders
  <2>2. coder.steps < MaxSteps /\ coder.calls <= 2 * coder.steps + 1
    BY <1>1, <2>1 DEF Paced
  <2>3. coder'.steps <= MaxSteps /\ coder'.calls <= 2 * coder'.steps /\ coder'.calls <= 2 * MaxSteps
    BY <1>9, <2>1, <2>2
  <2> QED
    BY <1>5, <1>9, <2>3 DEF Paced
<1>12. CASE turn = <<>>
  <2>1. transcript' = transcript /\ at = "report"
    BY <1>12 DEF TurnOf, at
  <2>2. ToolOuts' = ToolOuts /\ EditsMade' = EditsMade
    BY <1>9, <1>10, <2>1, OutsStay, EditsStand
  <2>3. Turning'
    <3>1. LastNote' = LastNote
      BY <2>1 DEF LastNote
    <3>2. LastNote.role # "assistant"
      BY <1>1, <1>10 DEF Turning
    <3> QED
      BY <1>1, <1>9, <1>12, <2>1, <3>1, <3>2 DEF Turning
  <2> QED
    BY <1>1, <1>9, <1>11, <2>1, <2>2, <2>3, LoopKeepsAgent
<1>13. CASE turn # <<>>
  <2> DEFINE note == [role |-> "assistant", calls |-> turn]
  <2>1. transcript' = Append(transcript, note) /\ at = "tools"
    BY <1>13 DEF TurnOf, at
  <2>2. note \in Notes /\ note.role = "assistant" /\ note.calls = turn
    BY DEF Notes
  <2> HIDE DEF note
  <2>3. ToolOuts' = ToolOuts
    BY <1>1, <1>9, <1>10, <2>1, <2>2, NoteMoves
  <2>4. EditsMade \subseteq EditsMade'
    BY <1>1, <2>1, <2>2, EditsStayInNotes
  <2>5. transcript' \in Seq(Notes)
    BY <1>1, <2>1, <2>2, NotesFit
  <2>6. Turning'
    <3>1. /\ Len(coder'.outs) + Len(coder'.pending) = Len(turn)
          /\ \A k \in 1 .. Len(coder'.pending) : coder'.pending[k] = turn[Len(coder'.outs) + k]
      <4>1. Len(coder'.outs) = 0 /\ Len(turn) \in Nat
        BY <1>2, <1>9
      <4> QED
        BY <1>9, <4>1
    <3> QED
      BY <1>1, <1>9, <2>1, <2>2, <3>1, TurnGoesOn
  <2> QED
    BY <1>9, <1>11, <2>3, <2>4, <2>5, <2>6, LoopKeepsAgent
<1> QED
  BY <1>12, <1>13

\* The model is asked once more, or the run ends.
LEMMA RejectKeepsAgent == AgentKeeps /\ ModelRejects => AgentKeeps'
<1> SUFFICES ASSUME AgentKeeps, ModelRejects PROVE AgentKeeps'
  OBVIOUS
<1>1. /\ coder \in Coders /\ transcript \in Seq(Notes) /\ AgentTypes /\ Turning /\ Paced
      /\ coder.pc = "model" /\ RestStays
  BY DEF AgentKeeps, AgentTypes, AgentAt, ModelRejects
<1> DEFINE asked == OneMoreCall
           note == [role |-> "nudge"]
<1>2. coder' = [asked EXCEPT !.pc = "retry"] /\ transcript' = Append(transcript, note)
  BY DEF ModelRejects
<1>3. /\ asked \in Coders /\ asked.steps = coder.steps /\ asked.calls = coder.calls + 1
      /\ asked.kb = coder.kb /\ asked.version = coder.version /\ asked.left = coder.left
      /\ asked.tokens = coder.tokens /\ asked.outs = coder.outs /\ asked.pending = coder.pending
  BY <1>1, RequestIs
<1>4. note \in Notes /\ note.role = "nudge"
  BY DEF Notes
<1>5. coder.outs = <<>> /\ coder.pending = <<>>
  BY <1>1 DEF Turning
<1> HIDE DEF asked, note
<1>6. /\ coder' \in Coders /\ coder'.kb = coder.kb /\ coder'.version = coder.version
      /\ coder'.left = coder.left /\ coder'.tokens = coder.tokens
      /\ coder'.steps = coder.steps /\ coder'.calls = coder.calls + 1
      /\ coder'.pending = <<>> /\ coder'.outs = <<>> /\ coder'.pc = "retry"
  BY <1>2, <1>3, <1>5 DEF Coders
<1>7. Paced'
  <2>1. MaxSteps \in Nat /\ coder.steps \in Nat /\ coder.calls \in Nat
    BY <1>1, AgentAssumption DEF Coders
  <2>2. coder.steps < MaxSteps /\ coder.calls <= 2 * coder.steps
    BY <1>1, <2>1 DEF Paced
  <2> QED
    BY <1>6, <2>1, <2>2 DEF Paced
<1>8. ToolOuts' = ToolOuts
  BY <1>1, <1>2, <1>4, <1>5, <1>6, NoteMoves
<1>9. EditsMade \subseteq EditsMade'
  BY <1>1, <1>2, <1>4, EditsStayInNotes
<1>10. transcript' \in Seq(Notes)
  BY <1>1, <1>2, <1>4, NotesFit
<1>11. Turning'
  BY <1>1, <1>2, <1>4, <1>6, TurnGoesOn
<1> QED
  BY <1>1, <1>6, <1>7, <1>8, <1>9, <1>10, <1>11, LoopKeepsAgent

\* The run fails, or it is reported.
LEMMA EndKeepsAgent == AgentKeeps /\ (ModelFails \/ ReportRun) => AgentKeeps'
<1> SUFFICES ASSUME AgentKeeps, ModelFails \/ ReportRun PROVE AgentKeeps'
  OBVIOUS
<1>1. /\ coder \in Coders /\ transcript \in Seq(Notes) /\ AgentTypes /\ Turning /\ Paced
      /\ transcript' = transcript /\ RestStays /\ coder.pc \in {"model", "retry", "report"}
  BY DEF AgentKeeps, AgentTypes, AgentAt, ModelFails, ReportRun
<1> DEFINE asked == OneMoreCall
<1>2. /\ asked \in Coders /\ asked.steps = coder.steps /\ asked.calls = coder.calls + 1
      /\ asked.kb = coder.kb /\ asked.version = coder.version /\ asked.left = coder.left
      /\ asked.tokens = coder.tokens /\ asked.outs = coder.outs /\ asked.pending = coder.pending
  BY <1>1, RequestIs
<1>3. \/ coder.pc \in {"model", "retry"} /\ coder' = [asked EXCEPT !.pc = "report"]
      \/ coder.pc = "report" /\ coder' = [coder EXCEPT !.pc = "done"]
  BY DEF ModelFails, ReportRun, AgentAt
<1> HIDE DEF asked
<1>4. /\ coder' \in Coders /\ coder'.kb = coder.kb /\ coder'.version = coder.version
      /\ coder'.left = coder.left /\ coder'.tokens = coder.tokens /\ coder'.steps = coder.steps
      /\ coder'.pending = coder.pending /\ coder'.outs = coder.outs /\ coder'.pc \in {"report", "done"}
      /\ (coder.pc \in {"model", "retry"} => coder'.calls = coder.calls + 1)
      /\ (coder.pc = "report" => coder'.calls = coder.calls)
  BY <1>1, <1>2, <1>3 DEF Coders
<1>5. Paced'
  <2>1. MaxSteps \in Nat /\ coder.steps \in Nat /\ coder.calls \in Nat
    BY <1>1, AgentAssumption DEF Coders
  <2>2. CASE coder.pc \in {"model", "retry"}
    <3>1. coder.steps < MaxSteps /\ coder.calls <= 2 * coder.steps + 1
      BY <1>1, <2>1, <2>2 DEF Paced
    <3> QED
      BY <1>4, <2>1, <2>2, <3>1 DEF Paced
  <2>3. CASE coder.pc = "report"
    BY <1>1, <1>4, <2>3 DEF Paced
  <2> QED
    BY <1>1, <2>2, <2>3
<1>6. ToolOuts' = ToolOuts /\ EditsMade' = EditsMade
  BY <1>1, <1>4, OutsStay, EditsStand
<1>7. Turning'
  <2>1. LastNote' = LastNote
    BY <1>1 DEF LastNote
  <2>2. transcript # <<>> => LastNote.role # "assistant"
    BY <1>1 DEF Turning
  <2> QED
    BY <1>1, <1>4, <2>1, <2>2 DEF Turning
<1> QED
  BY <1>1, <1>4, <1>5, <1>6, <1>7, LoopKeepsAgent

\* The outcomes of a turn become a note.
LEMMA ReturnKeepsAgent == AgentKeeps /\ ReturnResults => AgentKeeps'
<1> SUFFICES ASSUME AgentKeeps, ReturnResults PROVE AgentKeeps'
  OBVIOUS
<1>1. /\ coder \in Coders /\ transcript \in Seq(Notes) /\ AgentTypes /\ Turning /\ Paced
      /\ coder.pc = "tools" /\ coder.pending = <<>> /\ RestStays
  BY DEF AgentKeeps, AgentTypes, AgentAt, ReturnResults
<1> DEFINE at == IF coder.steps = MaxSteps THEN "report" ELSE "model"
           note == [role |-> "tool", outs |-> coder.outs]
<1>2. coder' = [coder EXCEPT !.pc = at, !.outs = <<>>] /\ transcript' = Append(transcript, note)
  BY DEF ReturnResults
<1>3. coder.outs \in Seq(Outcomes)
  BY <1>1 DEF Coders
<1>4. note \in Notes /\ note.role = "tool" /\ note.outs = coder.outs
  BY <1>3 DEF Notes
<1>5. at \in {"report", "model"} /\ (at = "model" => coder.steps # MaxSteps) /\ <<>> \in Seq(Outcomes)
  OBVIOUS
<1> HIDE DEF note, at
<1>6. /\ coder' \in Coders /\ coder'.kb = coder.kb /\ coder'.version = coder.version
      /\ coder'.left = coder.left /\ coder'.tokens = coder.tokens
      /\ coder'.steps = coder.steps /\ coder'.calls = coder.calls
      /\ coder'.pending = <<>> /\ coder'.outs = <<>> /\ coder'.pc = at
  BY <1>1, <1>2, <1>5 DEF Coders
<1>7. Paced'
  <2>1. MaxSteps \in Nat /\ coder.steps \in Nat /\ coder.calls \in Nat
    BY <1>1, AgentAssumption DEF Coders
  <2> QED
    BY <1>1, <1>5, <1>6, <2>1 DEF Paced
<1>8. ToolOuts' = ToolOuts
  BY <1>1, <1>2, <1>4, <1>6, NoteMoves
<1>9. EditsMade \subseteq EditsMade'
  BY <1>1, <1>2, <1>4, EditsStayInNotes
<1>10. transcript' \in Seq(Notes)
  BY <1>1, <1>2, <1>4, NotesFit
<1>11. Turning'
  <2>1. Len(note.outs) = Len(LastNote.calls)
    <3>1. transcript # <<>>
      BY <1>1 DEF Turning
    <3>2. Len(coder.outs) + Len(coder.pending) = Len(LastNote.calls)
      BY <1>1, <3>1 DEF Turning
    <3>3. Len(coder.outs) \in Nat
      BY <1>3
    <3>4. Len(coder.pending) = 0
      BY <1>1
    <3> DEFINE m == Len(coder.outs)
               n == Len(LastNote.calls)
    <3>5. m + 0 = n /\ m \in Nat
      BY <3>2, <3>3, <3>4
    <3> HIDE DEF m, n
    <3>6. m = n
      BY <3>5
    <3> QED
      BY <1>4, <3>6 DEF m, n
  <2> QED
    BY <1>1, <1>2, <1>4, <1>5, <1>6, <2>1, TurnGoesOn
<1> QED
  BY <1>1, <1>6, <1>7, <1>8, <1>9, <1>10, <1>11, LoopKeepsAgent

\* Before the first note nothing was answered and nothing was edited.
LEMMA NothingYet ==
    ASSUME transcript = <<>>, coder.outs = <<>>
    PROVE  ToolOuts = <<>> /\ EditsMade = {}
<1>1. DOMAIN <<>> = {}
  OBVIOUS
<1>2. FlatOuts = <<>>
  <2>1. [i \in DOMAIN transcript |-> OutsOf(transcript[i])] = <<>>
    BY <1>1
  <2>2. FlattenSeq(<<>>) = <<>>
    BY <<>> \in Seq(Seq({})), <<>> \in Seq({}), FlattenGrows
  <2> QED
    BY <2>1, <2>2 DEF FlatOuts
<1>3. ToolOuts = FlatOuts \o coder.outs
  BY Zenon DEF ToolOuts, FlatOuts, OutsOf
<1>4. EditsMade = {}
  BY <1>1, EditMade
<1>5. <<>> \o <<>> = <<>>
  OBVIOUS
<1> QED
  BY <1>2, <1>3, <1>4, <1>5

\* Nothing was answered, and the budgets are whole.
Unspent ==
    /\ ToolOuts = <<>>
    /\ coder.left = IF coder.kb THEN SearchBudget ELSE 0
    /\ coder.tokens = IF coder.kb THEN KbTokenBudget ELSE 0

\* That is a balance.
LEMMA NothingSpent == Unspent => Balance /\ FoundIsPinned
<1> SUFFICES ASSUME Unspent PROVE Balance /\ FoundIsPinned
  OBVIOUS
<1>1. Tried = <<>> /\ Got = <<>>
  <2>1. \A kinds : DidIn(<<>>, kinds) = <<>>
    <3>1. \A kinds : {i \in DOMAIN <<>> : <<>>[i].did \in kinds} = {}
      OBVIOUS
    <3>2. Picked(<<>>, {}) = <<>>
      BY FS_EmptySet DEF Picked
    <3> QED
      BY <3>1, <3>2 DEF DidIn
  <2> QED
    BY <2>1 DEF Tried, Got, Unspent
<1>2. TokensOf(<<>>) = 0
  <2>1. [did |-> "searched", rows |-> {}, cost |-> 0] \in Answers /\ <<>> \in Seq(Answers)
    BY DEF Answers
  <2> QED
    BY <2>1, CostGrows
<1>3. DOMAIN ToolOuts = {} /\ Len(<<>>) = 0
  BY DEF Unspent
<1>4. SearchBudget \in Nat /\ KbTokenBudget \in Nat
  BY AgentAssumption
<1> QED
  BY <1>1, <1>2, <1>3, <1>4 DEF Balance, FoundIsPinned, Unspent

\* The task begins, with the budgets whole.
LEMMA StartKeepsAgent == AgentKeeps /\ StartTask => AgentKeeps'
<1> SUFFICES ASSUME AgentKeeps, StartTask PROVE AgentKeeps'
  OBVIOUS
<1>1. /\ coder \in Coders /\ coder.version <= servedSeq /\ transcript = <<>> /\ coder.outs = <<>>
      /\ coder.pending = <<>> /\ coder.pc = "start" /\ AgentTypes
  BY DEF AgentKeeps, AgentTypes, AgentAt, StartTask, Turning
<1>2. UNCHANGED lookVars /\ repo' = repo
  BY DEF StartTask, RestStays
<1>3. UNCHANGED <<servedSeq, until>> /\ LookTypes'
  BY <1>1, <1>2, Zenon DEF lookVars, LookTypes, TieIds, AgentTypes
<1>4. ToolOuts = <<>> /\ EditsMade = {}
  BY <1>1, NothingYet
<1>5. coder.steps < MaxSteps /\ coder.calls <= 2 * coder.steps /\ coder.steps \in Nat /\ coder.calls \in Nat
      /\ MaxSteps \in Nat
  BY <1>1, AgentAssumption DEF AgentKeeps, Paced, Coders
<1>6. SearchBudget \in Nat /\ KbTokenBudget \in Nat /\ servedSeq \in Nat
  BY <1>1, AgentAssumption DEF AgentTypes, LookTypes
<1>7. CASE servedSeq = 0
  <2>1. coder' = [coder EXCEPT !.pc = "done", !.exit = 1] /\ transcript' = transcript
    BY <1>1, <1>7 DEF StartTask
  <2>2. /\ coder' \in Coders /\ coder'.kb = coder.kb /\ coder'.version = coder.version
        /\ coder'.left = coder.left /\ coder'.tokens = coder.tokens /\ coder'.steps = coder.steps
        /\ coder'.calls = coder.calls /\ coder'.pending = <<>> /\ coder'.outs = <<>> /\ coder'.pc = "done"
    BY <1>1, <2>1 DEF Coders
  <2>3. ToolOuts' = ToolOuts /\ EditsMade' = EditsMade
    BY <1>1, <2>1, <2>2, OutsStay, EditsStand
  <2>4. Paced'
    BY <1>5, <2>2 DEF AgentKeeps, Paced
  <2>5. Turning'
    BY <1>1, <2>1, <2>2 DEF Turning, AgentKeeps
  <2>6. RestStays /\ transcript' \in Seq(Notes)
    BY <1>1, <2>1 DEF StartTask, AgentTypes
  <2> QED
    BY <2>2, <2>3, <2>4, <2>5, <2>6, LoopKeepsAgent
<1>8. CASE servedSeq # 0
  <2>1. PICK kb \in BOOLEAN :
          coder' = [coder EXCEPT !.pc = "model", !.kb = kb, !.version = servedSeq,
                                 !.left = IF kb THEN SearchBudget ELSE 0,
                                 !.tokens = IF kb THEN KbTokenBudget ELSE 0]
    BY <1>8 DEF StartTask
  <2> DEFINE left == IF kb THEN SearchBudget ELSE 0
             tokens == IF kb THEN KbTokenBudget ELSE 0
             note == [role |-> "user"]
  <2>2. transcript' = <<note>> /\ note \in Notes /\ note.role = "user"
    BY <1>8 DEF StartTask, Notes
  <2>3. left \in Int /\ tokens \in Int
    BY <1>6
  <2>4. coder' = [coder EXCEPT !.pc = "model", !.kb = kb, !.version = servedSeq, !.left = left, !.tokens = tokens]
    BY <2>1
  <2> HIDE DEF note
  <2>5. transcript' = Append(transcript, note)
    BY <1>1, <2>2
  <2> HIDE DEF left, tokens
  <2>6. /\ coder' \in Coders /\ coder'.kb = kb /\ coder'.version = servedSeq
        /\ coder'.left = left /\ coder'.tokens = tokens /\ coder'.steps = coder.steps
        /\ coder'.calls = coder.calls /\ coder'.pending = <<>> /\ coder'.outs = <<>> /\ coder'.pc = "model"
    BY <1>1, <1>6, <2>3, <2>4 DEF Coders
  <2>7. transcript' \in Seq(Notes) /\ LastNote' = note /\ Len(transcript') = 1 /\ transcript' # <<>>
    <3>1. transcript' \in Seq(Notes) /\ LastNote' = note /\ transcript' # <<>>
      BY <1>1, <2>2, <2>5, NotesFit
    <3> QED
      BY <2>2, <3>1
  <2>8. AgentTypes'
    BY <1>1, <1>2, <1>3, <1>6, <2>6, <2>7 DEF AgentTypes
  <2>9. ToolOuts' = <<>>
    <3>1. note.role # "tool"
      BY <2>2
    <3> QED
      BY <1>1, <1>4, <2>2, <2>5, <2>6, <3>1, NoteMoves
  <2>10. Balance' /\ FoundIsPinned'
    <3>1. Unspent'
      BY <2>6, <2>9 DEF left, tokens, Unspent
    <3> QED
      BY <3>1, NothingSpent, PTL
  <2>11. Paced'
    BY <1>5, <2>6 DEF AgentKeeps, Paced
  <2>12. Turning'
    BY <2>2, <2>6, <2>7 DEF Turning
  <2>13. NothingIsOverwritten'
    BY <1>2, <1>4, FilesStay DEF AgentKeeps
  <2> QED
    BY <2>8, <2>10, <2>11, <2>12, <2>13 DEF AgentKeeps
<1> QED
  BY <1>7, <1>8

\* A run begins with whole budgets, an empty transcript and the files as they are.
LEMMA AgentBegins == AgentInit => AgentKeeps
<1> SUFFICES ASSUME AgentInit PROVE AgentKeeps
  OBVIOUS
<1>1. LookInit /\ coder = FreshAgent /\ repo \in FirstRepos /\ transcript = <<>>
  BY DEF AgentInit
<1>2. LookTypes
  BY <1>1, LooksBegin DEF LookFollows
<1>3. /\ coder \in Coders /\ coder.pc = "start" /\ coder.kb = FALSE /\ coder.version = 0 /\ coder.left = 0
      /\ coder.tokens = 0 /\ coder.steps = 0 /\ coder.calls = 0 /\ coder.pending = <<>> /\ coder.outs = <<>>
  BY <1>1 DEF FreshAgent, Coders
<1>4. \A f \in DOMAIN repo : repo[f] \in Seq(Lines)
  <2> SUFFICES ASSUME NEW f \in DOMAIN repo PROVE repo[f] \in Seq(Lines)
    OBVIOUS
  <2>1. repo[f] \in Seq(ToSet(repo[f]))
    BY <1>1, AgentAssumption
  <2>2. \A x \in ToSet(repo[f]) : x \in Lines
    <3>1. ToSet(repo[f]) \subseteq UNION {ToSet(repo[g]) : g \in DOMAIN repo}
      BY Zenon
    <3>2. UNION {ToSet(repo[g]) : g \in DOMAIN repo} \subseteq FirstLines
      BY <1>1, Zenon DEF FirstLines
    <3> QED
      BY <3>1, <3>2 DEF Lines
  <2> DEFINE A == ToSet(repo[f])
             body == repo[f]
  <2>3. body \in Seq(A) /\ \A x \in A : x \in Lines
    BY <2>1, <2>2
  <2> HIDE DEF A, body
  <2>4. body \in Seq(Lines)
    BY <2>3
  <2> QED
    BY <2>4 DEF body
<1>5. AgentTypes
  <2>1. 0 <= servedSeq /\ transcript \in Seq(Notes)
    BY <1>1, <1>2 DEF LookTypes
  <2> QED
    BY <1>2, <1>3, <1>4, <2>1 DEF AgentTypes
<1>6. ToolOuts = <<>> /\ EditsMade = {}
  BY <1>1, <1>3, NothingYet
<1>7. Balance /\ FoundIsPinned
  BY <1>3, <1>6, NothingSpent DEF Unspent
<1>8. Paced
  BY <1>3, AgentAssumption DEF Paced
<1>9. Turning
  <2>1. Len(transcript) = 0
    BY <1>1
  <2> QED
    BY <1>1, <1>3, <2>1 DEF Turning
<1>10. NothingIsOverwritten
  BY <1>1, <1>6 DEF NothingIsOverwritten
<1> QED
  BY <1>5, <1>7, <1>8, <1>9, <1>10 DEF AgentKeeps

\* A step that changes nothing.
LEMMA StutterKeepsAgent == AgentKeeps /\ UNCHANGED agentVars => AgentKeeps'
<1> SUFFICES ASSUME AgentKeeps, UNCHANGED agentVars PROVE AgentKeeps'
  OBVIOUS
<1>1. RestStays /\ coder' = coder /\ transcript' = transcript
  BY DEF agentVars, RestStays
<1>2. /\ coder' \in Coders /\ coder'.kb = coder.kb /\ coder'.version = coder.version
      /\ coder'.left = coder.left /\ coder'.tokens = coder.tokens /\ transcript' \in Seq(Notes)
  BY <1>1 DEF AgentKeeps, AgentTypes
<1>3. ToolOuts' = ToolOuts /\ EditsMade' = EditsMade
  BY <1>1, OutsStay, EditsStand
<1>4. Paced' /\ Turning'
  BY <1>1 DEF AgentKeeps, Paced, Turning, LastNote
<1> QED
  BY <1>1, <1>2, <1>3, <1>4, LoopKeepsAgent

\* What is found is of the pinned version.
LEMMA FoundHolds == AgentTypes /\ FoundIsPinned => SearchesAreOfOneVersion
<1> SUFFICES ASSUME AgentTypes, FoundIsPinned, NEW i \in DOMAIN Searched, NEW r \in Searched[i].rows
             PROVE  Node[r].born <= coder.version /\ coder.version < until[r]
  BY DEF SearchesAreOfOneVersion
<1>1. Got = Searched /\ ToolOuts \in Seq(Outcomes)
  BY GotFits, ToolOutsFits
<1>2. PICK k \in DOMAIN ToolOuts : Got[i] = ToolOuts[k]
  <2> DEFINE kinds == {"searched"}
             outs == ToolOuts
  <2>1. Got = DidIn(outs, kinds) /\ outs \in Seq(Outcomes)
    BY <1>1 DEF Got
  <2> HIDE DEF kinds, outs
  <2>2. \A k \in DOMAIN DidIn(outs, kinds) : \E j \in DOMAIN outs : DidIn(outs, kinds)[k] = outs[j]
    BY <2>1, DidFits
  <2> QED
    BY <1>1, <2>1, <2>2, Zenon DEF outs
<1>3. Got[i].did = "searched"
  <2>1. Got \in Seq(Answers)
    BY GotFits
  <2>2. Got[i] \in Answers
    BY <1>1, <2>1
  <2> QED
    BY <2>2 DEF Answers
<1> QED
  BY <1>1, <1>2, <1>3 DEF FoundIsPinned, InPinned

\* Whatever the model asks and whatever is activated meanwhile, the agent stays within its budgets,
\* answers each call, overwrites nothing and searches one version (scripts/kb_agent.py).
THEOREM AgentSafety == AgentSpec => []AgentIsBounded
<1>1. AgentKeeps /\ [AgentNext]_agentVars => AgentKeeps'
  BY BuilderKeepsAgent, StartKeepsAgent, ReplyKeepsAgent, RejectKeepsAgent, EndKeepsAgent,
     SearchKeepsAgent, ReadKeepsAgent, EditKeepsAgent, LintKeepsAgent, ReturnKeepsAgent,
     StutterKeepsAgent DEF AgentNext
<1>2. AgentKeeps => AgentIsBounded
  BY BalanceHolds, TurnsHold, FoundHolds DEF AgentKeeps, AgentIsBounded
<1> QED
  BY <1>1, <1>2, AgentBegins, PTL DEF AgentSpec
==============================================================================
