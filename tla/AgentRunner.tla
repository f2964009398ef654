----------------------------- MODULE AgentRunner -----------------------------
(***************************************************************************)
(* The agent runner, which drives a model through the broker: a question   *)
(* is explained from a pack, a change is written by the model into a       *)
(* throwaway git worktree, shown to a human once, tested, and corrected a  *)
(* bounded number of times.  Source: scripts/agent_runner.py.              *)
(*                                                                         *)
(* A change works on the answer of create_change_pack (ChangeContext).     *)
(*                                                                         *)
(* Abstractions.  A file's content is a model value with a size and two    *)
(* flaws it may have; prompts, tokens and printing are left out; what the  *)
(* model, the human and pytest answer is any of a few replies.             *)
(***************************************************************************)
EXTENDS ChangeContext

CONSTANTS
  Contents, Elided, Broken,   \* contents of a file; those with a placeholder; those that do not parse
  Absent,             \* in place of a content: no such file
  SizeOf,               \* SizeOf[c]: characters
  Trees,              \* the target repository: [work, head], each [Files -> Contents + Absent]
  Prompts,            \* [lead, verb]: what classify_intent sees of a request
  Outside,            \* a path of a reply that is not in the workspace
  ModelTexts,         \* of the model: [files, fenced: path -> content, refusal]
  HumanInputs,        \* at the gate: "approve", "edit", "reject", "other", "eof"
  PackCards,          \* [cards, more]: cards of a pack and of its expansion, each [id, file]
  MaxFiles, MaxFixes, MaxSpans, MaxCards

\* Trees and replies are of files; a reply may name a path outside the workspace.
ASSUME RunnerAssumption ==
  /\ \A t \in Trees : {t.work, t.head} \subseteq [Files -> Contents \union {Absent}]
  /\ \A q \in Prompts : q \in [lead : BOOLEAN, verb : BOOLEAN]
  /\ \A r \in ModelTexts : \A b \in {r.files, r.fenced} :
       DOMAIN b \subseteq Files \union {Outside} /\ \A f \in DOMAIN b : b[f] \in Contents
  /\ \A p \in PackCards : {p.cards, p.more} \subseteq Seq([id : BOOLEAN, file : Files])
  /\ Elided \subseteq Contents /\ Broken \subseteq Contents
  /\ Absent \notin Contents /\ Outside \notin Files
  /\ MaxFiles \in Nat \ {0} /\ MaxFixes \in Nat /\ MaxSpans \in Nat /\ MaxCards \in Nat

VARIABLES
  lane,          \* the process
  checkpoints    \* decisions of its governance.checkpoint rows

runnerVars == <<changeVars, lane, checkpoints>>

--------------------------------------------------------------------------------
(* Pure parts *)

Lane(q) == IF q.verb /\ ~ q.lead THEN "build" ELSE "explain"

NoBlocks == [f \in {} |-> Absent]
NoTree == NoBlocks

\* The paths of the selection that are files of the workspace, in order and once.
Existing(refs, work) ==
  Firsts(Among([i \in DOMAIN refs |-> refs[i].file], {f \in Files : work[f] # Absent}))

FirstOnes(s, n) == SubSeq(s, 1, IF Len(s) < n THEN Len(s) ELSE n)
ReadInFull(target, test, dep) == FirstOnes(target \o FirstOnes(test, 1) \o dep, MaxFiles)
Writable(target, test) == ToSet(target \o FirstOnes(test, 1))

\* The blocks of the protocol, or else the fenced ones, inside the workspace.
Inside(blocks) == [f \in DOMAIN blocks \ {Outside} |-> blocks[f]]
Extracted(reply) == IF Inside(reply.files) # NoBlocks THEN Inside(reply.files) ELSE Inside(reply.fenced)

Valid(f, content) ==
  /\ f \in lane.writable
  /\ content \notin Elided \union Broken
  /\ lane.work[f] # Absent => 2 * SizeOf[content] >= SizeOf[lane.work[f]]
Accepted(blocks) == [f \in {f \in DOMAIN blocks : Valid(f, blocks[f])} |-> blocks[f]]

Written(tree, blocks) == [f \in Files |-> IF f \in DOMAIN blocks THEN blocks[f] ELSE tree[f]]

\* checkout and clean: tracked files as in HEAD, no others.
LeftAsItWas(tree, head) == tree     \* (mutant) no reset before an attempt
ResetTree(tree, head) == head

\* git diff: untracked files do not appear.
Diff(tree, head) == [f \in {f \in Files : head[f] \notin {Absent, tree[f]}} |-> tree[f]]

--------------------------------------------------------------------------------
(* The process *)

At(pc) == lane.pc = pc
GoOn(next) == lane' = next /\ UNCHANGED <<changeVars, checkpoints>>

\* The end of the run: in the finally clause if there is a worktree.
Ended(code) == [lane EXCEPT !.pc = IF lane.tree = NoTree THEN "done" ELSE "cleanup", !.exit = code]

Route ==
  At("route") /\ \E q \in Prompts : \E auto \in BOOLEAN :
    GoOn([lane EXCEPT !.pc = IF Lane(q) = "build" THEN "calling" ELSE "pack", !.prompt = q, !.auto = auto])

\* The call of create_change_pack is made by the broker (ChangeContext); its answer is resolved.
ResolveFiles ==
  /\ At("calling") /\ draft.pc = "done"
  /\ \E t \in Trees :
       GoOn([lane EXCEPT !.pc = "select", !.work = t.work, !.head = t.head,
                        !.target = Existing(draft.targets, t.work),
                        !.test = Existing(draft.tests, t.work), !.dep = Existing(draft.deps, t.work)])

\* No target or no test in the workspace: stop before the model is called.
ReadSelected ==
  /\ At("select")
  /\ GoOn(IF <<>> \in {lane.target, lane.test} THEN Ended("failed")
          ELSE [lane EXCEPT !.pc = "implement", !.read = ReadInFull(lane.target, lane.test, lane.dep),
                           !.writable = Writable(lane.target, lane.test)])

Asked == [lane EXCEPT !.calls = @ + 1]

\* One retry when nothing was parsed and the model did not ask for files.
Implement ==
  /\ lane.pc \in {"implement", "reformat"}
  /\ \E reply \in ModelTexts :
       IF Extracted(reply) # NoBlocks
       THEN GoOn([Asked EXCEPT !.pc = "validate", !.blocks = Extracted(reply)])
       ELSE IF reply.refusal \/ At("reformat") THEN GoOn([Ended("failed") EXCEPT !.calls = @ + 1])
       ELSE GoOn([Asked EXCEPT !.pc = "reformat"])

Validate ==
  /\ At("validate")
  /\ GoOn(IF Accepted(lane.blocks) = NoBlocks THEN Ended("failed")
          ELSE [lane EXCEPT !.pc = "worktree", !.blocks = Accepted(lane.blocks)])

AddWorktree ==
  /\ At("worktree")
  /\ \/ GoOn([lane EXCEPT !.pc = "attempt", !.tree = lane.head, !.current = lane.blocks])
     \/ GoOn(Ended("failed"))

WriteAttempt ==
  /\ At("attempt")
  /\ GoOn([lane EXCEPT !.pc = "diff", !.tree = Written(ResetTree(lane.tree, lane.head), lane.current)])

\* Without a diff the run stops; the first diff goes through the gate.
ShowDiff ==
  /\ At("diff")
  /\ GoOn(IF Diff(lane.tree, lane.head) = NoBlocks THEN Ended("failed")
          ELSE [lane EXCEPT !.pc = IF lane.gated THEN "pytest" ELSE "gate"])

\* An empty line, and so the end of the input, approves.
Verdict(input) ==
  CASE input \in {"approve", "eof"} -> "approved"
    [] input = "reject" -> "rejected"
    [] OTHER -> "aborted"

Gate ==
  /\ At("gate")
  /\ IF lane.auto THEN GoOn([lane EXCEPT !.pc = "checkpoint", !.decision = "approved"])
     ELSE \E input \in HumanInputs :
            GoOn(IF input = "edit" THEN [lane EXCEPT !.pc = "editing"]
                 ELSE [lane EXCEPT !.pc = "checkpoint", !.decision = Verdict(input)])

\* The text of an edit is recorded and not used; without a final dot the loop never ends.
EndEdit == At("editing") /\ GoOn([lane EXCEPT !.pc = "checkpoint", !.decision = "edited"])

WriteCheckpoint ==
  /\ At("checkpoint")
  /\ checkpoints' = Append(checkpoints, lane.decision)
  /\ lane' = CASE lane.decision = "rejected" -> Ended("failed")
              [] lane.decision = "aborted" -> Ended("ok")
              [] OTHER -> [lane EXCEPT !.pc = "pytest", !.gated = TRUE]
  /\ UNCHANGED changeVars

\* The primary test is run in the worktree; MaxFixes failures are corrected.
RunPytest ==
  /\ At("pytest")
  /\ \/ GoOn([Ended("ok") EXCEPT !.tested = lane.tree])
     \/ GoOn([(IF lane.attempt >= MaxFixes THEN Ended("failed") ELSE [lane EXCEPT !.pc = "fix"])
                EXCEPT !.tested = lane.tree])

\* The blocks of the fixer replace those before, also the ones it leaves out.
Fix ==
  At("fix") /\ \E reply \in ModelTexts :
    GoOn(IF Accepted(Extracted(reply)) = NoBlocks THEN [Ended("failed") EXCEPT !.calls = @ + 1]
         ELSE [Asked EXCEPT !.pc = "attempt", !.current = Accepted(Extracted(reply)),
                            !.attempt = @ + 1])

RemoveWorktree == At("cleanup") /\ GoOn([lane EXCEPT !.pc = "done", !.tree = NoTree])

\* An exception of the broker, the model or the database.
Raise ==
  /\ lane.pc \in {"pack", "expand", "synthesize", "verify", "calling", "implement", "reformat",
                 "checkpoint", "fix"}
  /\ GoOn(Ended("raised"))

--------------------------------------------------------------------------------
(* The explanation *)

SomeId(cards) == \E i \in DOMAIN cards : cards[i].id
Offers(cards) == [lane EXCEPT !.cards = FirstOnes(cards, MaxCards), !.queue = FirstOnes(cards, MaxCards)]

AskForCards ==
  At("pack") /\ \E p \in PackCards :
    GoOn([Offers(p.cards) EXCEPT !.pc = IF SomeId(p.cards) THEN "expand" ELSE "open", !.more = p.more])

\* The connected cards go behind the cards of the pack.
Expand == At("expand") /\ GoOn([Offers(lane.cards \o lane.more) EXCEPT !.pc = "open"])

FilesSeen(seen, c) == seen \union {c.file}

\* One span of each file, until enough are open; a span that is denied or empty is passed over.
OpenSpan ==
  /\ At("open") /\ lane.queue # <<>> /\ Len(lane.spans) < MaxSpans
  /\ LET c == Head(lane.queue)
     IN  \/ GoOn([lane EXCEPT !.queue = Tail(@)])
         \/ /\ c.id /\ c.file \notin lane.seen
            /\ GoOn([lane EXCEPT !.queue = Tail(@), !.seen = FilesSeen(@, c),
                                !.spans = Append(@, c.file)])
EndOpen ==
  /\ At("open") /\ (lane.queue = <<>> \/ Len(lane.spans) >= MaxSpans)
  /\ GoOn([lane EXCEPT !.pc = "synthesize"])

AnswerQuestion ==
  /\ At("synthesize")
  /\ GoOn(IF SomeId(FirstOnes(lane.cards, 5)) THEN [Asked EXCEPT !.pc = "verify"]
          ELSE [Ended("ok") EXCEPT !.calls = @ + 1])

\* The verdict of the broker is printed, whatever it is.
VerifyAnswer == At("verify") /\ GoOn(Ended("ok"))

--------------------------------------------------------------------------------

NewRun == [pc |-> "route", prompt |-> [lead |-> FALSE, verb |-> FALSE], auto |-> FALSE,
           work |-> NoTree, head |-> NoTree, target |-> <<>>, test |-> <<>>, dep |-> <<>>,
           read |-> <<>>, writable |-> {}, calls |-> 0, blocks |-> NoBlocks, current |-> NoBlocks,
           tree |-> NoTree, attempt |-> 0, gated |-> FALSE, decision |-> "none",
           tested |-> NoTree, exit |-> "none",
           cards |-> <<>>, more |-> <<>>, queue |-> <<>>, seen |-> {}, spans |-> <<>>]

RunnerInit == ChangeInit /\ lane = NewRun /\ checkpoints = <<>>

BrokerStep == At("calling") /\ ChangeNext /\ UNCHANGED <<lane, checkpoints>>

RunnerNext ==
  \/ BrokerStep
  \/ Route \/ ResolveFiles \/ ReadSelected \/ Implement \/ Validate \/ AddWorktree \/ WriteAttempt
  \/ ShowDiff \/ Gate \/ EndEdit \/ WriteCheckpoint \/ RunPytest \/ Fix \/ RemoveWorktree
  \/ AskForCards \/ Expand \/ OpenSpan \/ EndOpen \/ AnswerQuestion \/ VerifyAnswer
  \/ Raise

RunnerSpec == RunnerInit /\ [][RunnerNext]_runnerVars

--------------------------------------------------------------------------------
(* Properties *)

\* Nothing of a change is run before a human, or --auto-approve, let it pass, and never after a
\* refusal; the decision is in the ledger, once.
GateComesFirst ==
  /\ Len(checkpoints) <= 1
  /\ lane.tested # NoTree => checkpoints \in {<<"approved">>, <<"edited">>}

\* What pytest runs on is HEAD with the last accepted blocks, all of them writable, whole, parseable
\* and not truncated, and nothing of an earlier attempt.
TestsRunOnTheChange ==
  At("cleanup") /\ lane.tested # NoTree /\ lane.tree = lane.tested =>
    /\ \A f \in Files : lane.tested[f] # lane.head[f] => f \in DOMAIN lane.current
    /\ \A f \in DOMAIN lane.current : Valid(f, lane.current[f]) /\ lane.tested[f] = lane.current[f]

\* No model call without a target and a test that exist, at most MaxFixes beyond the first two; only
\* selected files are read, at most MaxFiles, and the primary test is all that is written beside targets.
ModelSpendIsBounded ==
  /\ lane.calls <= 2 + MaxFixes
  /\ lane.work # NoTree /\ lane.calls > 0 =>
       /\ lane.target # <<>> /\ lane.test # <<>> /\ Len(lane.read) <= MaxFiles
       /\ ToSet(lane.read) \subseteq FilesIn(draft.targets) \union FilesIn(draft.tests) \union FilesIn(draft.deps)
       /\ \A f \in ToSet(lane.read) \union lane.writable : lane.work[f] # Absent
       /\ Cardinality(lane.writable \ ToSet(lane.target)) <= 1

\* Exit code 0 of a change: its last attempt passed, or the operator aborted; and however a run
\* ends, its worktree is removed.
SuccessMeansPassed ==
  At("done") =>
    /\ lane.tree = NoTree
    /\ lane.work # NoTree /\ lane.exit = "ok" =>
         \/ lane.decision = "aborted" /\ lane.tested = NoTree
         \/ lane.tested = Written(lane.head, lane.current)

\* A question never writes, gates or tests; its spans come from different files.
QuestionsOnlyRead ==
  lane.prompt.lead =>
    /\ lane.work = NoTree /\ lane.tree = NoTree /\ checkpoints = <<>> /\ lane.calls <= 1
    /\ Len(lane.spans) = Cardinality(ToSet(lane.spans)) /\ Len(lane.spans) <= MaxSpans

\* What a run of the agent runner promises its operator.
RunsAreGoverned ==
  /\ GateComesFirst /\ TestsRunOnTheChange /\ ModelSpendIsBounded
  /\ SuccessMeansPassed /\ QuestionsOnlyRead
================================================================================
