------------------------------- MODULE KbAgent -------------------------------
(***************************************************************************)
(* kb_agent, the agent without a broker: a model, a loop and seven tools.  *)
(* It pins the served version, searches it under a budget of calls and of  *)
(* tokens, and edits files, while builds commit (Retrieval).               *)
(* Source: scripts/kb_agent.py.                                            *)
(*                                                                         *)
(* Abstractions.  A file is a sequence of lines; tokens of an answer of    *)
(* the search are counted by its rows; listing and testing leave no state  *)
(* and are reads; of the transcript a call, its outcome and the turn it    *)
(* belongs to are kept.                                                    *)
(***************************************************************************)
EXTENDS Retrieval

CONSTANTS
  RepoFiles,           \* paths inside REPO_ROOT
  FirstRepos,          \* what the files may hold at first: a function from some of the paths
  Fixable,             \* lines the linter takes out
  NoLine,              \* an empty old_str
  Turns,               \* tool calls of one answer of the model: [tool, ...], in order
  SearchBudget, KbTokenBudget, TopRows,
  AnswerTokens, RowTokens,      \* of an answer, and of each of its rows
  MaxSteps

\* A call of kb_search ranks rows, files and replies are lists of lines, budgets are numbers.
ASSUME AgentAssumption ==
  /\ \A turn \in Turns : turn \in Seq(ToSet(turn))
  /\ \A turn \in Turns : \A call \in ToSet(turn) :
       /\ call.tool = "kb_search" => DOMAIN call.query \subseteq Nodes
       /\ call.tool = "edit" => call.new \in Seq(ToSet(call.new))
  /\ \A first \in FirstRepos : \A f \in DOMAIN first : first[f] \in Seq(ToSet(first[f]))
  /\ SearchBudget \in Nat /\ KbTokenBudget \in Nat /\ AnswerTokens \in Nat /\ RowTokens \in Nat
  /\ MaxSteps \in Nat \ {0}

VARIABLES
  coder,         \* the process
  repo,          \* content of each file there is
  transcript     \* the turns of the task

agentVars == <<lookVars, coder, repo, transcript>>

--------------------------------------------------------------------------------
(* The search *)

KbRows(query) ==
  {r \in DOMAIN query : OfVersion(Node[r].born, until[r], coder.version)} \ gone
RanksOver(query, r, s) == query[r] > query[s] \/ (query[r] = query[s] /\ NodeNo[r] < NodeNo[s])
TopOf(query) ==
  LET rows == KbRows(query)
  IN  {r \in rows : Cardinality({s \in rows : RanksOver(query, s, r)}) < TopRows}

BudgetOpen == coder.left > 0 /\ coder.tokens > 0
OfferedOpen == coder.offered     \* (mutant) a burst of one turn is not metered
MeteredNow == BudgetOpen

--------------------------------------------------------------------------------
(* The files *)

TextOf(f) == IF f \in DOMAIN repo THEN repo[f] ELSE <<>>
Occurs(line, body) == {i \in DOMAIN body : body[i] = line}
PutAt(body, i, lines) == SubSeq(body, 1, i - 1) \o lines \o SubSeq(body, i + 1, Len(body))

\* An empty old_str creates a file; any other must occur once.
Editable(call) ==
  IF call.old = NoLine THEN TextOf(call.file) = <<>>
  ELSE Cardinality(Occurs(call.old, TextOf(call.file))) = 1
Edited(call) ==
  IF call.old = NoLine THEN call.new
  ELSE LET i == CHOOSE i \in Occurs(call.old, TextOf(call.file)) : TRUE
       IN  PutAt(TextOf(call.file), i, call.new)

Holding(f, body) == repo' = [g \in DOMAIN repo \union {f} |-> IF g = f THEN body ELSE repo[g]]

\* A text without the lines the linter takes out.
Fixed(body) == Picked(body, {i \in DOMAIN body : body[i] \notin Fixable})

--------------------------------------------------------------------------------
(* The loop *)

AgentAt(pc) == coder.pc = pc
RestStays == UNCHANGED <<lookVars, repo>>

StartTask ==
  /\ AgentAt("start") /\ \E kb \in BOOLEAN :
       coder' = IF servedSeq = 0 THEN [coder EXCEPT !.pc = "done", !.exit = 1]
                ELSE [coder EXCEPT !.pc = "model", !.kb = kb, !.version = servedSeq,
                                   !.left = IF kb THEN SearchBudget ELSE 0,
                                   !.tokens = IF kb THEN KbTokenBudget ELSE 0]
  /\ transcript' = IF servedSeq = 0 THEN <<>> ELSE <<[role |-> "user"]>>
  /\ RestStays

\* The tools are offered anew in each step; the search only while both budgets are open.
OneMoreCall == [coder EXCEPT !.offered = BudgetOpen, !.calls = @ + 1]

\* Tools are called, or else the answer is final.
TurnOf(turn) ==
  /\ coder' = [OneMoreCall EXCEPT !.pc = IF turn = <<>> THEN "report" ELSE "tools", !.steps = @ + 1,
                            !.pending = turn, !.outs = <<>>]
  /\ transcript' = IF turn = <<>> THEN transcript ELSE Append(transcript, [role |-> "assistant", calls |-> turn])

ModelReplies == (AgentAt("model") \/ AgentAt("retry")) /\ RestStays /\ \E turn \in Turns : TurnOf(turn)

\* HTTP 400: the error is fed back and the call made once more.
ModelRejects ==
  /\ AgentAt("model")
  /\ coder' = [OneMoreCall EXCEPT !.pc = "retry"]
  /\ transcript' = Append(transcript, [role |-> "nudge"])
  /\ RestStays

\* Any other failure, or any on the retry, ends the run.
ModelFails ==
  /\ AgentAt("model") \/ AgentAt("retry")
  /\ coder' = [OneMoreCall EXCEPT !.pc = "report"]
  /\ UNCHANGED transcript /\ RestStays

Outcome(outcome) == [coder EXCEPT !.pending = Tail(@), !.outs = Append(@, outcome)]
NextIs(tool) == AgentAt("tools") /\ coder.pending # <<>> /\ Head(coder.pending).tool = tool
CallNow == Head(coder.pending)

\* Both budgets are looked at again for each search of a turn; one that fails costs a call.
SearchKb ==
  /\ NextIs("kb_search")
  /\ \/ ~ MeteredNow /\ coder' = Outcome([did |-> "blocked"])
     \/ MeteredNow /\ coder' = [Outcome([did |-> "failed"]) EXCEPT !.left = @ - 1]
     \/ /\ MeteredNow
        /\ LET rows == TopOf(CallNow.query)
               cost == AnswerTokens + RowTokens * Cardinality(rows)
           IN  coder' = [Outcome([did |-> "searched", rows |-> rows, cost |-> cost])
                          EXCEPT !.left = @ - 1, !.tokens = @ - cost]
  /\ UNCHANGED transcript /\ RestStays

ReadFile ==
  /\ NextIs("read")
  /\ coder' = Outcome([did |-> IF CallNow.file \in DOMAIN repo THEN "read" ELSE "error"])
  /\ UNCHANGED transcript /\ RestStays

EditFile ==
  /\ NextIs("edit")
  /\ IF CallNow.file \in RepoFiles /\ Editable(CallNow)
     THEN Holding(CallNow.file, Edited(CallNow)) /\ coder' = Outcome([did |-> "edited"])
     ELSE UNCHANGED repo /\ coder' = Outcome([did |-> "error"])
  /\ UNCHANGED <<transcript, lookVars>>

\* The linter changes the file.
LintFile ==
  /\ NextIs("lint")
  /\ IF CallNow.file \in DOMAIN repo
     THEN /\ Holding(CallNow.file, Fixed(repo[CallNow.file]))
          /\ coder' = Outcome([did |-> "linted"])
     ELSE UNCHANGED repo /\ coder' = Outcome([did |-> "error"])
  /\ UNCHANGED <<transcript, lookVars>>

\* A tool there is not, or bad arguments.
BadCall == NextIs("unknown") /\ coder' = Outcome([did |-> "error"]) /\ UNCHANGED transcript /\ RestStays

ReturnResults ==
  /\ AgentAt("tools") /\ coder.pending = <<>>
  /\ transcript' = Append(transcript, [role |-> "tool", outs |-> coder.outs])
  /\ coder' = [coder EXCEPT !.pc = IF coder.steps = MaxSteps THEN "report" ELSE "model", !.outs = <<>>]
  /\ RestStays

ReportRun == AgentAt("report") /\ coder' = [coder EXCEPT !.pc = "done"] /\ UNCHANGED transcript /\ RestStays

FreshAgent == [pc |-> "start", kb |-> FALSE, version |-> 0, left |-> 0, tokens |-> 0, offered |-> FALSE,
            steps |-> 0, calls |-> 0, pending |-> <<>>, outs |-> <<>>, exit |-> 0]

AgentInit == LookInit /\ coder = FreshAgent /\ repo \in FirstRepos /\ transcript = <<>>

KbBuilder == (Finalize \/ Activates) /\ UNCHANGED <<coder, repo, transcript>>

AgentNext ==
  \/ KbBuilder
  \/ StartTask \/ ModelReplies \/ ModelRejects \/ ModelFails
  \/ SearchKb \/ ReadFile \/ EditFile \/ LintFile \/ BadCall \/ ReturnResults \/ ReportRun

AgentSpec == AgentInit /\ [][AgentNext]_agentVars

--------------------------------------------------------------------------------
(* Properties *)

ToolOuts == FlattenSeq([i \in DOMAIN transcript |->
                     IF transcript[i].role = "tool" THEN transcript[i].outs ELSE <<>>]) \o coder.outs
Did(outcomes) == Picked(ToolOuts, {i \in DOMAIN ToolOuts : ToolOuts[i].did \in outcomes})
Searched == Did({"searched"})
TokensOf(s) == Total([i \in DOMAIN s |-> s[i].cost])

\* However the model spreads its searches over turns, none is answered beyond the number of calls
\* or once the tokens are spent, and none is turned away before; the baseline never searches.
SearchesStayInBudget ==
  LET n == IF coder.kb THEN SearchBudget ELSE 0
      tried == Did({"searched", "failed"})
      spent(k) == TokensOf(SubSeq(Searched, 1, k))
  IN  /\ Len(tried) <= n
      /\ Searched # <<>> => spent(Len(Searched) - 1) < KbTokenBudget
      /\ (\E i \in DOMAIN ToolOuts : ToolOuts[i].did = "blocked") =>
           ~ coder.kb \/ Len(tried) = n \/ spent(Len(Searched)) >= KbTokenBudget

\* Every call of the model's turns is answered, in order and before it is asked again, whatever the
\* tools do; a step costs at most one more request, and a request that fails leaves no turn.
EveryCallIsAnswered ==
  /\ coder.calls <= 2 * MaxSteps /\ coder.steps <= MaxSteps
  /\ \A i \in DOMAIN transcript :
       LET t == transcript[i] IN
       /\ t.role = "assistant" =>
            IF i < Len(transcript)
            THEN transcript[i + 1].role = "tool" /\ Len(transcript[i + 1].outs) = Len(t.calls)
            ELSE AgentAt("tools") /\ Len(coder.outs) + Len(coder.pending) = Len(t.calls)
       /\ t.role = "nudge" /\ i < Len(transcript) => transcript[i + 1].role = "assistant"

\* Lines of a file that no edit named, of those the transcript says were made, and no linter
\* removes, are there to the end: nothing is overwritten.
EditsOf(calls, outs) ==
  {<<calls[j].file, calls[j].old>> :
     j \in {j \in DOMAIN calls \cap DOMAIN outs : calls[j].tool = "edit" /\ outs[j].did = "edited"}}
EditsMade ==
  UNION {EditsOf(transcript[i].calls, IF i = Len(transcript) THEN coder.outs ELSE transcript[i + 1].outs) :
           i \in {i \in DOMAIN transcript : transcript[i].role = "assistant"}}
NothingIsOverwritten ==
  \E first \in FirstRepos :
    /\ DOMAIN first \subseteq DOMAIN repo
    /\ \A f \in DOMAIN first : \A l \in ToSet(first[f]) \ Fixable :
         <<f, l>> \notin EditsMade => l \in ToSet(repo[f])
    /\ \A f \in DOMAIN repo \ DOMAIN first : <<f, NoLine>> \in EditsMade

\* What a search returns are rows of the version pinned at the start, whatever is activated since.
SearchesAreOfOneVersion ==
  \A i \in DOMAIN Searched : \A r \in Searched[i].rows :
    Node[r].born <= coder.version /\ coder.version < until[r]

\* What the loop promises beside its model.
AgentIsBounded ==
  /\ SearchesStayInBudget /\ EveryCallIsAnswered
  /\ NothingIsOverwritten /\ SearchesAreOfOneVersion

\* Refuted (README, section 5): the last answer may overrun the tokens.
KbTokensHold == TokensOf(Searched) <= KbTokenBudget

\* Refuted (README, section 5): a build in flight takes the rows of a deleted source away at once.
ServedRowsAreFound ==
  NextIs("kb_search") => \A r \in DOMAIN CallNow.query :
    OfVersion(Node[r].born, until[r], coder.version) => r \in KbRows(CallNow.query)
================================================================================
