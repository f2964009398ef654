--------------------------- MODULE MC_AgentPrograms ---------------------------
(* The programs that share no state, one per behaviour: the review panel, the  *)
(* agent runner, the agent without a broker, what they are given to read, the  *)
(* pack of a change and ranked reads of the graph, and two tools of the server *)
(* that agents call, answer verification and the task context.                 *)
EXTENDS MC_ReviewPanel, MC_Retrieval, MC_AgentRunner, MC_KbAgent, MC_AnswerVerification,
        MC_TaskContext

VARIABLE program

kbVars == <<coder, repo, transcript>>
toolVars == <<verifyVars, taskVars>>
programVars == <<program, vars, lookVars, runnerVars, kbVars, toolVars>>

ProgramSymmetry == Symmetry \union Slots

\* What the agent's files hold where it does not run.
FirstRepo == "app" :> <<"def">> @@ "new" :> <<>>

ProgramInit ==
  /\ Init /\ AgentInit /\ RunnerInit /\ VerifyInit /\ TaskInit
  /\ program \in {"panel", "look", "change", "runner", "agent", "verify", "task"}
  /\ program \notin {"look", "agent"} => servedSeq = 0
  /\ program # "agent" => repo = FirstRepo
  /\ program # "task" => index = Full
  /\ CASE program = "change" -> TRUE
       [] program = "runner" -> draft.task \in RunnerTasks /\ activeSeq = 1
       [] OTHER -> draft.task = OneTask /\ draft.order = OneOrder /\ activeSeq = 0

ProgramNext ==
  \/ program = "panel" /\ Next /\ UNCHANGED <<program, lookVars, runnerVars, kbVars, toolVars>>
  \/ program = "look" /\ LookNext
     /\ UNCHANGED <<program, vars, runnerVars, kbVars, toolVars>>
  \/ program = "change" /\ ChangeNext
     /\ UNCHANGED <<program, vars, lookVars, lane, checkpoints, kbVars, toolVars>>
  \/ program = "runner" /\ RunnerNext
     /\ UNCHANGED <<program, vars, lookVars, kbVars, toolVars>>
  \/ program = "agent" /\ AgentNext /\ UNCHANGED <<program, vars, runnerVars, toolVars>>
  \/ program = "verify" /\ VerifyNext
     /\ UNCHANGED <<program, vars, lookVars, runnerVars, kbVars, taskVars>>
  \/ program = "task" /\ TaskNext
     /\ UNCHANGED <<program, vars, lookVars, runnerVars, kbVars, verifyVars>>

ProgramSpec == ProgramInit /\ [][ProgramNext]_programVars
================================================================================
