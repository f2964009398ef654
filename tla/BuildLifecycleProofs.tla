------------------------- MODULE BuildLifecycleProofs -------------------------
(***************************************************************************)
(* Theorems about BuildLifecycle for every set of builders, builds and     *)
(* labels.  Typing and VerdictsStay need nothing; the                      *)
(* others hold as long as no fault takes the advisory lock from a running  *)
(* builder, which is the hypothesis LockIsSafe.                            *)
(***************************************************************************)
EXTENDS BuildLifecycle, TLAPS

LockIsSafe == Faults \cap LockLoss = {}

USE ConstantsAssumption DEF KnownFaults

\* Every variable keeps its type: the processes' phases, the rows of
\* kb_build_run and the advisory lock.
THEOREM Typing == Spec => []TypeOK
<1>1. Init => TypeOK
  BY DEF Init, TypeOK, NoRow, Rows, RunStatus, Phases
<1>2. TypeOK /\ [Next]_vars => TypeOK'
  <2> SUFFICES ASSUME TypeOK, [Next]_vars PROVE TypeOK'
    OBVIOUS
  <2>0. CASE UNCHANGED vars
    BY <2>0 DEF vars, TypeOK
  <2>1. ASSUME NEW b \in Builders, AcquireLock(b) PROVE TypeOK'
    BY <2>1 DEF AcquireLock, TypeOK, Goto, Phases
  <2>2. ASSUME NEW b \in Builders, StartRun(b) PROVE TypeOK'
    BY <2>2 DEF StartRun, TypeOK, Goto, Phases, Rows, RunStatus
  <2>3. ASSUME NEW b \in Builders, AssertRunRowAlive(b) PROVE TypeOK'
    BY <2>3 DEF AssertRunRowAlive, TypeOK, Goto, Phases
  <2>4. ASSUME NEW b \in Builders, FinishRun(b) PROVE TypeOK'
    BY <2>4 DEF FinishRun, SetStatus, TypeOK, Goto, Phases, Rows, RunStatus
  <2>5. ASSUME NEW b \in Builders, RunRaises(b) PROVE TypeOK'
    BY <2>5 DEF RunRaises, SetStatus, TypeOK, Goto, Phases, Rows, RunStatus
  <2>6. ASSUME NEW b \in Builders, LeaveCompleted(b) PROVE TypeOK'
    BY <2>6 DEF LeaveCompleted, TypeOK, Goto, Phases
  <2>7. ASSUME NEW b \in Builders, ValidatePasses(b) PROVE TypeOK'
    BY <2>7 DEF ValidatePasses, BuildUnderGate, CompletedOf, TypeOK, Goto, Phases
  <2>8. ASSUME NEW b \in Builders, ValidateFails(b) PROVE TypeOK'
    BY <2>8 DEF ValidateFails, SetStatus, TypeOK, Goto, Phases, Rows, RunStatus
  <2>9. ASSUME NEW b \in Builders, Activate(b) PROVE TypeOK'
    <3>1. runs' \in [BuildIds -> Rows]
      BY <2>9 DEF Activate, Promoted, TypeOK, Rows, RunStatus
    <3> QED
      BY <2>9, <3>1 DEF Activate, TypeOK, Goto, Phases
  <2>10. ASSUME NEW b \in Builders, ReleaseLock(b) PROVE TypeOK'
    BY <2>10 DEF ReleaseLock, UnlessHolder, TypeOK, Goto, Phases
  <2>11. ASSUME NEW b \in Builders, Crash(b) PROVE TypeOK'
    BY <2>11 DEF Crash, TypeOK, Goto, Phases
  <2>12. ASSUME NEW b \in Builders, ReapSession(b) PROVE TypeOK'
    BY <2>12 DEF ReapSession, UnlessHolder, TypeOK, Goto, Phases
  <2>13. ASSUME NEW b \in Builders, LoseLockConnection(b) PROVE TypeOK'
    BY <2>13 DEF LoseLockConnection, TypeOK
  <2>14. CASE WipeRegistry
    BY <2>14 DEF WipeRegistry, Exists, TypeOK, Rows, RunStatus
  <2> QED
    BY <2>0, <2>1, <2>2, <2>3, <2>4, <2>5, <2>6, <2>7, <2>8, <2>9, <2>10,
       <2>11, <2>12, <2>13, <2>14 DEF Next, Progress
<1> QED
  BY <1>1, <1>2, PTL DEF Spec

------------------------------------------------------------------------------
\* A step that registers no row and renumbers none keeps the numbering.
LEMMA NumberingKept ==
  ASSUME SeqsUnique,
         lastSeq' = lastSeq,
         \A x \in BuildIds : Exists(x)' => Exists(x) /\ runs'[x].seq = runs[x].seq
  PROVE  SeqsUnique'
BY DEF SeqsUnique, Registered

\* Whoever is at work holds the lock, so everybody else is idle.
LEMMA OthersAreIdle ==
  ASSUME LockHeld, NEW b \in Builders, pc[b] # "idle"
  PROVE  /\ lock = b
         /\ \A c \in Builders \ {b} : pc[c] = "idle"
BY DEF LockHeld

\* After a step of the working builder b the driven rows and the gates need
\* to be looked at for b only.
LEMMA OnlyTheHolderDrives ==
  ASSUME TypeOK, LockHeld, NEW b \in Builders, pc[b] # "idle",
         NEW p \in Phases, pc' = [pc EXCEPT ![b] = p],
         pc'[b] \in Working => DrivenRow(b)',
         pc'[b] = "validated" /\ Exists(build[b])' => gated'[b] = build'[b]
  PROVE  DrivenRows' /\ GatesMeasureTheBuildPromoted'
<1>1. \A c \in Builders \ {b} : pc'[c] = "idle"
  BY OthersAreIdle DEF TypeOK
<1>2. "idle" \notin Working /\ "idle" # "validated"
  BY DEF Working
<1>3. DrivenRows'
  BY <1>1, <1>2 DEF DrivenRows
<1>4. GatesMeasureTheBuildPromoted'
  <2> SUFFICES ASSUME NEW c \in Builders, pc'[c] = "validated", Exists(build[c])'
               PROVE  gated'[c] = build'[c]
    BY DEF GatesMeasureTheBuildPromoted
  <2> QED
    BY <1>1, <1>2
<1> QED
  BY <1>3, <1>4

\* A working builder that leaves a verdict on its own row and exits.
LEMMA ExitWithVerdict ==
  ASSUME TypeOK, RegistryIsOrderly, NEW b \in Builders, pc[b] \in Working,
         pc' = [pc EXCEPT ![b] = "exiting"], Exists(build[b]),
         NEW s \in {"failed", "validation_failed"},
         runs' = [runs EXCEPT ![build[b]].status = s],
         UNCHANGED <<lock, lastSeq, build, gated>>
  PROVE  RegistryIsOrderly'
<1>1. pc'[b] = "exiting" /\ "exiting" \notin Working /\ pc[b] # "idle"
  BY DEF TypeOK, Working
<1>2. build[b] \in BuildIds
  BY DEF RegistryIsOrderly, DrivenRows, DrivenRow
<1>3. /\ \A x \in BuildIds : Exists(x)' = Exists(x) /\ runs'[x].seq = runs[x].seq
      /\ ActiveBuilds' \subseteq ActiveBuilds
  BY <1>2 DEF Exists, TypeOK, Rows, RunStatus, ActiveBuilds
<1>4. DrivenRows' /\ GatesMeasureTheBuildPromoted'
  BY <1>1, OnlyTheHolderDrives DEF Phases, RegistryIsOrderly
<1>5. LockHeld'
  BY DEF LockHeld, TypeOK, RegistryIsOrderly, Working
<1>6. SeqsUnique'
  BY <1>3, NumberingKept DEF RegistryIsOrderly
<1>7. SingleActive'
  BY <1>3 DEF SingleActive, RegistryIsOrderly
<1> QED
  BY <1>4, <1>5, <1>6, <1>7 DEF RegistryIsOrderly

\* The lock, the numbering, the driven rows and the gates stay in step as
\* long as nothing takes the lock from a running builder.
LEMMA OrderlyStep ==
  ASSUME LockIsSafe, TypeOK, RegistryIsOrderly, [Next]_vars
  PROVE  RegistryIsOrderly'
<1> USE DEF RegistryIsOrderly
<1>0. CASE UNCHANGED vars
  BY <1>0 DEF vars, LockHeld, SeqsUnique, DrivenRows, DrivenRow, SingleActive,
     GatesMeasureTheBuildPromoted, Registered, Exists, ActiveBuilds
<1>1. ASSUME NEW b \in Builders, AcquireLock(b) PROVE RegistryIsOrderly'
  <2>1. \A c \in Builders : pc[c] = "idle"
    BY <1>1 DEF AcquireLock, LockIsFree, LockHeld
  <2>2. \A c \in Builders : pc'[c] \in {"idle", "locked"} /\ (pc'[c] # "idle" => c = b)
    BY <1>1, <2>1 DEF AcquireLock, Goto, TypeOK
  <2>3. LockHeld'
    BY <1>1, <2>2 DEF AcquireLock, LockHeld
  <2>4. DrivenRows' /\ GatesMeasureTheBuildPromoted'
    BY <2>2 DEF DrivenRows, GatesMeasureTheBuildPromoted, Working
  <2>5. SeqsUnique' /\ SingleActive'
    BY <1>1 DEF AcquireLock, SeqsUnique, SingleActive, Registered, Exists, ActiveBuilds
  <2> QED
    BY <2>3, <2>4, <2>5
<1>2. ASSUME NEW b \in Builders, StartRun(b) PROVE RegistryIsOrderly'
  <2>1. PICK x \in BuildIds, v \in Versions :
          /\ runs[x].status = "unused"
          /\ runs' = [runs EXCEPT ![x] = [status |-> "running", seq |-> lastSeq + 1,
                                          version |-> v]]
          /\ build' = [build EXCEPT ![b] = x]
    BY <1>2 DEF StartRun
  <2>2. pc[b] # "idle" /\ lastSeq' = lastSeq + 1 /\ lock' = lock
        /\ pc' = [pc EXCEPT ![b] = "running"]
    BY <1>2 DEF StartRun, Goto
  <2>3. LockHeld'
    BY <2>2 DEF LockHeld, TypeOK
  <2>4. /\ Registered' = Registered \cup {x}
        /\ x \notin Registered
        /\ runs'[x].status = "running" /\ runs'[x].seq = lastSeq + 1
        /\ \A y \in BuildIds \ {x} : runs'[y] = runs[y]
    BY <2>1 DEF Registered, Exists, TypeOK, RunStatus
  <2>5. \A y \in Registered : runs[y].seq <= lastSeq /\ runs[y].seq \in Nat
    BY DEF SeqsUnique, TypeOK, Rows, Registered
  <2>6. SeqsUnique'
    BY <2>2, <2>4, <2>5 DEF SeqsUnique, TypeOK, Registered
  <2>7. SingleActive'
    BY <2>4 DEF SingleActive, ActiveBuilds
  <2>8. build'[b] = x
    BY <2>1 DEF TypeOK
  <2>9. \A y \in Registered' : runs'[y].seq <= runs'[x].seq
    BY <2>4, <2>5 DEF TypeOK, Registered
  <2>10. DrivenRow(b)'
    BY <2>2, <2>4, <2>8, <2>9 DEF DrivenRow, TypeOK
  <2>11. DrivenRows' /\ GatesMeasureTheBuildPromoted'
    BY <2>2, <2>10, OnlyTheHolderDrives DEF Phases, TypeOK
  <2> QED
    BY <2>3, <2>6, <2>7, <2>11
<1>3. ASSUME NEW b \in Builders, AssertRunRowAlive(b) PROVE RegistryIsOrderly'
  <2>1. pc[b] = "running" /\ pc' = [pc EXCEPT ![b] = "finalizing"]
        /\ UNCHANGED <<lock, lastSeq, runs, build, gated>>
    BY <1>3 DEF AssertRunRowAlive, Goto
  <2>2. LockHeld' /\ SeqsUnique' /\ SingleActive'
    BY <2>1 DEF LockHeld, TypeOK, SeqsUnique, SingleActive, Registered, Exists, ActiveBuilds
  <2>3. pc'[b] = "finalizing"
    BY <2>1 DEF TypeOK
  <2>4. DrivenRow(b)'
    BY <2>1, <2>3 DEF DrivenRows, DrivenRow, Working, Registered, Exists
  <2>5. DrivenRows' /\ GatesMeasureTheBuildPromoted'
    BY <2>1, <2>3, <2>4, OnlyTheHolderDrives DEF Phases
  <2> QED
    BY <2>2, <2>5
<1>4. ASSUME NEW b \in Builders, FinishRun(b), Exists(build[b]) PROVE RegistryIsOrderly'
  <2>1. pc[b] = "finalizing" /\ pc' = [pc EXCEPT ![b] = "completed"]
        /\ runs' = [runs EXCEPT ![build[b]].status = "completed"]
        /\ UNCHANGED <<lock, lastSeq, build, gated>>
    BY <1>4 DEF FinishRun, SetStatus, Goto
  <2>2. pc'[b] = "completed" /\ DrivenRow(b)
    BY <2>1 DEF TypeOK, DrivenRows, Working
  <2>3. /\ \A x \in BuildIds : Exists(x)' = Exists(x) /\ runs'[x].seq = runs[x].seq
        /\ runs'[build[b]].status = "completed"
        /\ ActiveBuilds' \subseteq ActiveBuilds
    BY <1>4, <2>1, <2>2 DEF Exists, DrivenRow, TypeOK, Rows, RunStatus, ActiveBuilds
  <2>4. DrivenRow(b)'
    BY <2>1, <2>2, <2>3 DEF DrivenRow, Registered
  <2>5. DrivenRows' /\ GatesMeasureTheBuildPromoted'
    BY <2>1, <2>2, <2>4, OnlyTheHolderDrives DEF Phases
  <2>6. SeqsUnique' /\ SingleActive' /\ LockHeld'
    BY <2>1, <2>3, NumberingKept DEF SingleActive, LockHeld, TypeOK
  <2> QED
    BY <2>5, <2>6
<1>5. ASSUME NEW b \in Builders, RunRaises(b), Exists(build[b]) PROVE RegistryIsOrderly'
  <2>1. pc[b] \in {"running", "finalizing"} /\ pc' = [pc EXCEPT ![b] = "exiting"]
        /\ runs' = [runs EXCEPT ![build[b]].status = "failed"]
        /\ UNCHANGED <<lock, lastSeq, build, gated>>
    BY <1>5 DEF RunRaises, SetStatus, Goto
  <2> QED
    BY <1>5, <2>1, ExitWithVerdict DEF Working
<1>6. ASSUME NEW b \in Builders, ValidateFails(b) PROVE RegistryIsOrderly'
  <2>1. pc[b] = "completed" /\ pc' = [pc EXCEPT ![b] = "exiting"] /\ Exists(build[b])
        /\ runs' = [runs EXCEPT ![build[b]].status = "validation_failed"]
        /\ UNCHANGED <<lock, lastSeq, build, gated>>
    BY <1>6 DEF ValidateFails, SetStatus, Goto
  <2> QED
    BY <2>1, ExitWithVerdict DEF Working
<1>7. ASSUME NEW b \in Builders, pc[b] # "idle",
             NEW p \in {"exiting", "dead"}, pc' = [pc EXCEPT ![b] = p],
             UNCHANGED <<lock, lastSeq, runs, build, gated>>
      PROVE  RegistryIsOrderly'
  <2>1. pc'[b] = p /\ p \notin Working /\ p # "validated" /\ p \in Phases
    BY <1>7 DEF TypeOK, Working, Phases
  <2>2. DrivenRows' /\ GatesMeasureTheBuildPromoted'
    BY <1>7, <2>1, OnlyTheHolderDrives
  <2>3. LockHeld' /\ SeqsUnique' /\ SingleActive'
    BY <1>7 DEF LockHeld, TypeOK, SeqsUnique, SingleActive, Registered, Exists, ActiveBuilds
  <2> QED
    BY <2>2, <2>3
<1>8. ASSUME NEW b \in Builders, ValidatePasses(b) PROVE RegistryIsOrderly'
  <2>1. pc[b] = "completed" /\ pc' = [pc EXCEPT ![b] = "validated"]
        /\ UNCHANGED <<lock, lastSeq, runs, build>>
    BY <1>8 DEF ValidatePasses, Goto
  <2>2. PICK x \in BuildUnderGate(runs[build[b]].version) : gated' = [gated EXCEPT ![b] = x]
    BY <1>8 DEF ValidatePasses
  <2>3. DrivenRow(b)
    BY <2>1 DEF DrivenRows, Working
  <2>4. ASSUME Exists(build[b]) PROVE gated'[b] = build[b]
    <3>1. build[b] \in CompletedOf(runs[build[b]].version) /\ build[b] \in Registered
      BY <2>1, <2>3, <2>4 DEF DrivenRow, CompletedOf, Registered
    <3>2. x \in Registered /\ runs[build[b]].seq <= runs[x].seq
      BY <2>2, <3>1 DEF BuildUnderGate, CompletedOf, Registered, Exists, RunStatus
    <3>3. runs[x].seq <= runs[build[b]].seq
      BY <2>3, <2>4, <3>2 DEF DrivenRow
    <3>4. runs[x].seq \in Nat /\ runs[build[b]].seq \in Nat
      BY <3>1, <3>2 DEF TypeOK, Rows, Registered
    <3>5. x = build[b]
      BY <3>1, <3>2, <3>3, <3>4 DEF SeqsUnique
    <3> QED
      BY <2>2, <3>5 DEF TypeOK
  <2>5. pc'[b] = "validated" /\ DrivenRow(b)'
    BY <2>1, <2>3 DEF TypeOK, DrivenRow, Registered, Exists
  <2>6. DrivenRows' /\ GatesMeasureTheBuildPromoted'
    BY <2>1, <2>4, <2>5, OnlyTheHolderDrives DEF Phases, Exists
  <2>7. LockHeld' /\ SeqsUnique' /\ SingleActive'
    BY <2>1 DEF LockHeld, TypeOK, SeqsUnique, SingleActive, Registered, Exists, ActiveBuilds
  <2> QED
    BY <2>6, <2>7
<1>9. ASSUME NEW b \in Builders, Activate(b) PROVE RegistryIsOrderly'
  <2>1. pc[b] = "validated" /\ pc' = [pc EXCEPT ![b] = "exiting"] /\ Exists(build[b])
        /\ runs' = Promoted(build[b]) /\ UNCHANGED <<lock, lastSeq, build, gated>>
    BY <1>9 DEF Activate, Goto
  <2>2. build[b] \in BuildIds
    BY <2>1 DEF DrivenRows, DrivenRow, Working
  <2>3. /\ \A x \in BuildIds : Exists(x)' = Exists(x) /\ runs'[x].seq = runs[x].seq
        /\ ActiveBuilds' = {build[b]}
    BY <2>1, <2>2 DEF Promoted, Exists, TypeOK, Rows, RunStatus, ActiveBuilds
  <2>4. pc'[b] = "exiting" /\ "exiting" \notin Working
    BY <2>1 DEF TypeOK, Working
  <2>5. DrivenRows' /\ GatesMeasureTheBuildPromoted'
    BY <2>1, <2>4, OnlyTheHolderDrives DEF Phases
  <2>6. SeqsUnique' /\ SingleActive' /\ LockHeld'
    BY <2>1, <2>3, NumberingKept DEF SingleActive, LockHeld, TypeOK
  <2> QED
    BY <2>5, <2>6
<1>10. ASSUME NEW b \in Builders, ReleaseLock(b) \/ ReapSession(b) PROVE RegistryIsOrderly'
  <2>1. pc[b] # "idle" /\ pc' = [pc EXCEPT ![b] = "idle"] /\ lock' = UnlessHolder(b)
        /\ UNCHANGED <<lastSeq, runs, build, gated>>
    BY <1>10 DEF ReleaseLock, ReapSession, Goto
  <2>2. \A c \in Builders : pc'[c] = "idle"
    BY <2>1, OthersAreIdle DEF TypeOK
  <2>3. LockHeld' /\ DrivenRows' /\ GatesMeasureTheBuildPromoted'
    BY <2>2 DEF LockHeld, DrivenRows, GatesMeasureTheBuildPromoted, Working
  <2>4. SeqsUnique' /\ SingleActive'
    BY <2>1 DEF SeqsUnique, SingleActive, Registered, Exists, ActiveBuilds
  <2> QED
    BY <2>3, <2>4
<1>11. ASSUME WipeRegistry PROVE RegistryIsOrderly'
  <2>1. UNCHANGED <<lock, pc, build, gated>>
    BY <1>11 DEF WipeRegistry, LockIsSafe, LockLoss
  <2>2. \A x \in BuildIds : ~Exists(x)'
    BY <1>11 DEF WipeRegistry, Exists, TypeOK, RunStatus
  <2>3. LockHeld' /\ SeqsUnique' /\ SingleActive'
    BY <2>1, <2>2 DEF LockHeld, SeqsUnique, SingleActive, Registered, ActiveBuilds,
       Exists, RunStatus
  <2>4. DrivenRows' /\ GatesMeasureTheBuildPromoted'
    <3>1. \A b \in Builders : pc[b] \in Working => build[b] \in BuildIds
      BY DEF DrivenRows, DrivenRow
    <3>2. \A b \in Builders : pc[b] = "validated" => ~Exists(build[b])'
      BY <2>1, <2>2, <3>1 DEF Working
    <3> QED
      BY <2>1, <2>2, <3>1, <3>2 DEF DrivenRows, DrivenRow, GatesMeasureTheBuildPromoted
  <2> QED
    BY <2>3, <2>4
<1>12. ASSUME NEW b \in Builders,
              LeaveCompleted(b) \/ Crash(b) \/ (FinishRun(b) /\ ~Exists(build[b]))
                \/ (RunRaises(b) /\ ~Exists(build[b]))
       PROVE  RegistryIsOrderly'
  <2>1. PICK p \in {"exiting", "dead"} : pc' = [pc EXCEPT ![b] = p]
    BY <1>12 DEF LeaveCompleted, Crash, FinishRun, RunRaises, Goto
  <2>2. pc[b] # "idle" /\ UNCHANGED <<lock, lastSeq, runs, build, gated>>
    BY <1>12 DEF LeaveCompleted, Crash, FinishRun, RunRaises
  <2> QED
    BY <1>7, <2>1, <2>2
<1>13. ASSUME NEW b \in Builders PROVE ~LoseLockConnection(b)
  BY DEF LoseLockConnection, LockIsSafe, LockLoss
<1> QED
  BY <1>0, <1>1, <1>2, <1>3, <1>4, <1>5, <1>6, <1>8, <1>9, <1>10, <1>11, <1>12, <1>13
     DEF Next, Progress

\* The inductive invariant holds throughout.
THEOREM Orderly == ASSUME LockIsSafe PROVE Spec => [](TypeOK /\ RegistryIsOrderly)
<1>1. Init => RegistryIsOrderly
  BY DEF Init, NoRow, RegistryIsOrderly, LockHeld, SeqsUnique, DrivenRows, SingleActive,
     GatesMeasureTheBuildPromoted, Registered, Exists, ActiveBuilds, RunStatus, Working
<1>2. TypeOK /\ RegistryIsOrderly /\ [Next]_vars => RegistryIsOrderly'
  BY OrderlyStep
<1> QED
  BY <1>1, <1>2, Typing, PTL DEF Spec

\* builder_lock.py: no two processes drive rows of the registry at once.
THEOREM OneBuilder == ASSUME LockIsSafe PROVE Spec => []OneBuilderAtATime
<1>1. RegistryIsOrderly => OneBuilderAtATime
  BY DEF RegistryIsOrderly, LockHeld, OneBuilderAtATime, Working
<1> QED
  BY <1>1, Orderly, PTL

\* publish_gates.py: what the gates measured, by label, is what
\* activate_kb_version promotes, by build_id.
THEOREM GatesMeasure == ASSUME LockIsSafe PROVE Spec => []GatesMeasureTheBuildPromoted
<1>1. RegistryIsOrderly => GatesMeasureTheBuildPromoted
  BY DEF RegistryIsOrderly
<1> QED
  BY <1>1, Orderly, PTL

------------------------------------------------------------------------------
\* The served build_seq is the one of the active row.
LEMMA ServedSeqValue ==
  ASSUME SingleActive, NEW x \in ActiveBuilds
  PROVE  ServedSeq = runs[x].seq
BY DEF ServedSeq, SingleActive

\* Rows that change neither their number nor whether they are completed or
\* active are not seen by readers.
LEMMA InvisibleStep ==
  ASSUME ActiveBuilds' = ActiveBuilds,
         CompletedBuilds' = CompletedBuilds,
         \A x \in ActiveBuilds \cup CompletedBuilds : runs'[x].seq = runs[x].seq
  PROVE  ServedSeq' = ServedSeq /\ CompletedSeqs' = CompletedSeqs
<1>1. ServedSeq' = ServedSeq
  <2>1. CASE ActiveBuilds = {}
    BY <2>1 DEF ServedSeq
  <2>2. CASE ActiveBuilds # {}
    <3> DEFINE a == CHOOSE x \in ActiveBuilds : TRUE
    <3>1. a \in ActiveBuilds
      BY <2>2
    <3>2. ServedSeq = runs[a].seq /\ ServedSeq' = runs'[a].seq
      BY <2>2 DEF ServedSeq
    <3> QED
      BY <3>1, <3>2
  <2> QED
    BY <2>1, <2>2
<1>2. CompletedSeqs' = CompletedSeqs
  BY DEF CompletedSeqs
<1> QED
  BY <1>1, <1>2

\* Every step of the builders and the registry is a step of ServedVersion.
LEMMA StepIsServed ==
  ASSUME LockIsSafe, TypeOK, RegistryIsOrderly, RegistryIsOrderly', [Next]_vars
  PROVE  [Served!Next]_(Served!vars)
<1> USE DEF RegistryIsOrderly
<1> DEFINE Invisible == ServedSeq' = ServedSeq /\ CompletedSeqs' = CompletedSeqs
<1>0. Invisible => [Served!Next]_(Served!vars)
  BY DEF Served!vars
<1>1. CASE UNCHANGED runs
  <2>1. Invisible
    BY <1>1, InvisibleStep DEF ActiveBuilds, CompletedBuilds
  <2> QED
    BY <1>0, <2>1
<1>2. ASSUME NEW b \in Builders, StartRun(b) PROVE [Served!Next]_(Served!vars)
  <2>1. PICK x \in BuildIds : /\ runs[x].status = "unused"
                              /\ runs'[x].status = "running"
                              /\ \A y \in BuildIds \ {x} : runs'[y] = runs[y]
    BY <1>2 DEF StartRun, TypeOK
  <2>2. Invisible
    BY <2>1, InvisibleStep DEF ActiveBuilds, CompletedBuilds
  <2> QED
    BY <1>0, <2>2
<1>3. ASSUME NEW b \in Builders, FinishRun(b), Exists(build[b]) PROVE [Served!Next]_(Served!vars)
  <2> DEFINE x == build[b]
             n == runs[x].seq
  <2>1. pc[b] = "finalizing" /\ runs' = [runs EXCEPT ![x].status = "completed"]
    BY <1>3 DEF FinishRun, SetStatus
  <2>2. x \in BuildIds /\ runs[x].status = "running" /\ x \in Registered
        /\ \A y \in Registered : runs[y].seq <= n
    BY <1>3, <2>1 DEF DrivenRows, DrivenRow, Working, Registered
  <2>3. /\ ActiveBuilds' = ActiveBuilds
        /\ CompletedBuilds' = CompletedBuilds \cup {x}
        /\ \A y \in BuildIds : runs'[y].seq = runs[y].seq
    BY <2>1, <2>2 DEF ActiveBuilds, CompletedBuilds, TypeOK, Rows
  <2>4. ServedSeq' = ServedSeq
    <3>1. CASE ActiveBuilds = {}
      BY <2>3, <3>1 DEF ServedSeq
    <3>2. ASSUME NEW a \in ActiveBuilds PROVE ServedSeq' = ServedSeq
      BY <2>3, <3>2, ServedSeqValue DEF ServedSeq, SingleActive, ActiveBuilds
    <3> QED
      BY <3>1, <3>2
  <2>5. CompletedSeqs' = CompletedSeqs \cup {n}
    BY <2>2, <2>3 DEF CompletedSeqs, CompletedBuilds
  <2>6. ASSUME NEW y \in Registered \ {x} PROVE n > runs[y].seq
    <3>1. runs[y] \in Rows /\ runs[x] \in Rows
      BY <2>2 DEF TypeOK, Registered
    <3>2. runs[y].seq <= n /\ runs[y].seq # n
      BY <2>2 DEF SeqsUnique
    <3> QED
      BY <3>1, <3>2 DEF Rows
  <2>7. Served!Newer(n)
    <3>1. ASSUME ServedSeq # NoBuild PROVE n > ServedSeq
      <4>1. PICK a \in ActiveBuilds : TRUE
        BY <3>1 DEF ServedSeq
      <4>2. a \in Registered \ {x} /\ ServedSeq = runs[a].seq
        BY <2>2, <4>1, ServedSeqValue DEF ActiveBuilds, Registered, Exists, RunStatus
      <4> QED
        BY <2>6, <4>2
    <3>2. ASSUME NEW m \in CompletedSeqs PROVE n > m
      BY <2>2, <2>6 DEF CompletedSeqs, CompletedBuilds, Registered, Exists, RunStatus
    <3> QED
      BY <3>1, <3>2 DEF Served!Newer
  <2> QED
    BY <2>4, <2>5, <2>7 DEF Served!Next, Served!Finish
<1>4. ASSUME NEW b \in Builders, RunRaises(b), Exists(build[b]) PROVE [Served!Next]_(Served!vars)
  <2>1. runs' = [runs EXCEPT ![build[b]].status = "failed"]
    BY <1>4 DEF RunRaises, SetStatus
  <2>2. runs[build[b]].status = "running" /\ build[b] \in BuildIds
    BY <1>4 DEF RunRaises, DrivenRows, DrivenRow, Working
  <2>3. /\ ActiveBuilds' = ActiveBuilds /\ CompletedBuilds' = CompletedBuilds
        /\ \A y \in BuildIds : runs'[y].seq = runs[y].seq
    BY <2>1, <2>2 DEF ActiveBuilds, CompletedBuilds, TypeOK, Rows
  <2>4. Invisible
    BY <2>3, InvisibleStep DEF ActiveBuilds, CompletedBuilds
  <2> QED
    BY <1>0, <2>4
<1>5. ASSUME NEW b \in Builders, ValidateFails(b) PROVE [Served!Next]_(Served!vars)
  <2> DEFINE x == build[b]
             n == runs[x].seq
  <2>1. runs' = [runs EXCEPT ![x].status = "validation_failed"]
    BY <1>5 DEF ValidateFails, SetStatus
  <2>2. x \in CompletedBuilds
    BY <1>5 DEF ValidateFails, DrivenRows, DrivenRow, Working, CompletedBuilds
  <2>3. /\ ActiveBuilds' = ActiveBuilds
        /\ CompletedBuilds' = CompletedBuilds \ {x}
        /\ \A y \in BuildIds : runs'[y].seq = runs[y].seq
    BY <2>1, <2>2 DEF ActiveBuilds, CompletedBuilds, TypeOK, Rows
  <2>4. ServedSeq' = ServedSeq
    <3>1. CASE ActiveBuilds = {}
      BY <2>3, <3>1 DEF ServedSeq
    <3>2. ASSUME NEW a \in ActiveBuilds PROVE ServedSeq' = ServedSeq
      BY <2>3, <3>2, ServedSeqValue DEF ServedSeq, SingleActive, ActiveBuilds
    <3> QED
      BY <3>1, <3>2
  <2>5. \A y \in CompletedBuilds \ {x} : runs[y].seq # n
    BY <2>2 DEF SeqsUnique, CompletedBuilds, Registered, Exists, RunStatus
  <2>6. n \in CompletedSeqs /\ CompletedSeqs' = CompletedSeqs \ {n}
    BY <2>2, <2>3, <2>5 DEF CompletedSeqs, CompletedBuilds
  <2> QED
    BY <2>4, <2>6 DEF Served!Next, Served!Reject
<1>6. ASSUME NEW b \in Builders, Activate(b) PROVE [Served!Next]_(Served!vars)
  <2> DEFINE x == build[b]
             n == runs[x].seq
  <2>1. runs' = Promoted(x) /\ Exists(x) /\ pc[b] = "validated"
    BY <1>6 DEF Activate
  <2>2. x \in CompletedBuilds /\ \A y \in Registered : runs[y].seq <= n
    BY <2>1 DEF DrivenRows, DrivenRow, Working, CompletedBuilds
  <2>3. /\ ActiveBuilds' = {x}
        /\ CompletedBuilds' = CompletedBuilds \ {x}
        /\ \A y \in BuildIds : runs'[y].seq = runs[y].seq
    BY <2>1, <2>2 DEF Promoted, ActiveBuilds, CompletedBuilds, TypeOK, Rows
  <2>4. ServedSeq' = n
    BY <2>2, <2>3 DEF ServedSeq, CompletedBuilds
  <2>5. \A y \in CompletedBuilds \ {x} : runs[y].seq # n
    BY <2>2 DEF SeqsUnique, CompletedBuilds, Registered, Exists, RunStatus
  <2>6. n \in CompletedSeqs /\ CompletedSeqs' = CompletedSeqs \ {n}
    BY <2>2, <2>3, <2>5 DEF CompletedSeqs, CompletedBuilds
  <2>7. ASSUME ServedSeq # NoBuild PROVE n > ServedSeq
    <3>1. PICK a \in ActiveBuilds : TRUE
      BY <2>7 DEF ServedSeq
    <3>2. a \in Registered /\ x \in Registered /\ a # x /\ ServedSeq = runs[a].seq
      BY <2>2, <3>1, ServedSeqValue DEF ActiveBuilds, CompletedBuilds, Registered, Exists,
         RunStatus
    <3>3. runs[a].seq \in Nat /\ n \in Nat /\ runs[a].seq # n
      BY <3>2 DEF SeqsUnique, TypeOK, Rows, Registered
    <3> QED
      BY <2>2, <3>2, <3>3
  <2> QED
    BY <2>4, <2>6, <2>7 DEF Served!Next, Served!Promote
<1>7. CASE WipeRegistry
  <2>1. ActiveBuilds' = {} /\ CompletedBuilds' = {}
    BY <1>7 DEF WipeRegistry, ActiveBuilds, CompletedBuilds, Exists, TypeOK, RunStatus
  <2>2. ServedSeq' = NoBuild /\ CompletedSeqs' = {}
    BY <2>1 DEF ServedSeq, CompletedSeqs
  <2> QED
    BY <2>2 DEF Served!Next, Served!Wipe
<1> QED
  BY <1>1, <1>2, <1>3, <1>4, <1>5, <1>6, <1>7 DEF Next, Progress, vars, AcquireLock,
     AssertRunRowAlive, FinishRun, RunRaises, LeaveCompleted, ValidatePasses, ReleaseLock,
     Crash, ReapSession, LoseLockConnection

\* The builders and the registry implement the promise made to readers.
THEOREM Refinement == ASSUME LockIsSafe PROVE Spec => ImplementsServedVersion
<1>1. Init => Served!Init
  BY DEF Init, NoRow, Served!Init, ServedSeq, CompletedSeqs, ActiveBuilds, CompletedBuilds
<1>2. TypeOK /\ RegistryIsOrderly /\ RegistryIsOrderly' /\ [Next]_vars
        => [Served!Next]_(Served!vars)
  BY StepIsServed
<1> QED
  BY <1>1, <1>2, Orderly, PTL DEF Spec, ImplementsServedVersion, Served!Spec

\* active_version.py: readers never see the served build_seq move backwards.
THEOREM ServedMovesForward == ASSUME LockIsSafe PROVE Spec => ServedNeverRegresses
<1>1. ASSUME TypeOK, RegistryIsOrderly, RegistryIsOrderly', [Next]_vars
      PROVE  [ServedSeq # NoBuild /\ ServedSeq' # NoBuild => ServedSeq' >= ServedSeq]_vars
  <2> SUFFICES ASSUME ServedSeq # NoBuild, ServedSeq' # NoBuild
               PROVE  ServedSeq' >= ServedSeq
    OBVIOUS
  <2>1. ServedSeq \in Nat
    BY <1>1 DEF ServedSeq, ActiveBuilds, TypeOK, Rows
  <2>2. [Served!Next]_(Served!vars)
    BY <1>1, StepIsServed
  <2>3. CASE ServedSeq' = ServedSeq
    BY <2>1, <2>3
  <2>4. CASE Served!Promote
    <3>1. PICK n \in CompletedSeqs : n > ServedSeq /\ ServedSeq' = n
      BY <2>4 DEF Served!Promote
    <3>2. n \in Nat
      BY <1>1, <3>1 DEF CompletedSeqs, CompletedBuilds, TypeOK, Rows
    <3> QED
      BY <2>1, <3>1, <3>2
  <2> QED
    BY <2>2, <2>3, <2>4 DEF Served!Next, Served!vars, Served!Finish, Served!Reject,
       Served!Wipe
<1> QED
  BY <1>1, Orderly, PTL DEF Spec, ServedNeverRegresses
------------------------------------------------------------------------------
\* Whoever holds the lock, a builder at work drives a row of its own: it drew the id, and nobody
\* else writes the row but to wipe it.
DrivesItsOwn ==
    \A b \in Builders : pc[b] \in Working =>
      /\ build[b] \in BuildIds
      /\ runs[build[b]].status \in {"gone", IF pc[b] \in {"running", "finalizing"} THEN "running" ELSE "completed"}
      /\ \A c \in Builders \ {b} : pc[c] \in Working => build[c] # build[b]

\* A builder that moves on, and may give its own row another status, leaves the rows of others alone.
LEMMA OthersKeepTheirs ==
    ASSUME TypeOK, DrivesItsOwn, NEW b \in Builders, NEW p \in Phases,
           pc' = [pc EXCEPT ![b] = p], build' = build, pc[b] \in Working \/ p \notin Working,
           \A x \in BuildIds : runs'[x].status = runs[x].status \/ (pc[b] \in Working /\ x = build[b])
                              \/ runs[x].status = "active",
           p \in Working => runs'[build[b]].status \in
             {"gone", IF p \in {"running", "finalizing"} THEN "running" ELSE "completed"}
    PROVE  DrivesItsOwn'
<1> SUFFICES ASSUME NEW c \in Builders, pc'[c] \in Working
             PROVE  /\ build[c] \in BuildIds
                    /\ runs'[build[c]].status \in
                         {"gone", IF pc'[c] \in {"running", "finalizing"} THEN "running" ELSE "completed"}
                    /\ \A d \in Builders \ {c} : pc'[d] \in Working => build[d] # build[c]
  BY DEF DrivesItsOwn
<1>1. \A d \in Builders : pc'[d] = IF d = b THEN p ELSE pc[d]
  BY DEF TypeOK
<1>2. \A d \in Builders : pc'[d] \in Working => pc[d] \in Working
  BY <1>1
<1>3. build[c] \in BuildIds /\ \A d \in Builders \ {c} : pc'[d] \in Working => build[d] # build[c]
  BY <1>2 DEF DrivesItsOwn
<1>4. CASE c = b
  BY <1>1, <1>3, <1>4
<1>5. CASE c # b
  <2>1. pc'[c] = pc[c] /\ runs[build[c]].status \in
          {"gone", IF pc[c] \in {"running", "finalizing"} THEN "running" ELSE "completed"}
    BY <1>1, <1>2, <1>5 DEF DrivesItsOwn
  <2>2. ~ (pc[b] \in Working /\ build[c] = build[b])
    BY <1>2, <1>5 DEF DrivesItsOwn
  <2> QED
    BY <1>3, <2>1, <2>2
<1> QED
  BY <1>4, <1>5

\* What a step does to the rows' verdicts, and that every builder keeps its own row.
LEMMA VerdictStep ==
    ASSUME TypeOK, DrivesItsOwn, [Next]_vars
    PROVE  /\ DrivesItsOwn'
           /\ \A x \in BuildIds : runs[x].status \in Final => runs'[x].status \in {runs[x].status, "gone"}
<1> DEFINE Stays == \A x \in BuildIds : runs[x].status \in Final => runs'[x].status \in {runs[x].status, "gone"}
<1>0. CASE UNCHANGED vars
  BY <1>0 DEF vars, DrivesItsOwn
<1>1. ASSUME NEW b \in Builders, AcquireLock(b) PROVE DrivesItsOwn' /\ Stays
  <2>1. "locked" \in Phases /\ "locked" \notin Working
    BY DEF Phases, Working
  <2> QED
    BY <1>1, <2>1, OthersKeepTheirs DEF AcquireLock, Goto
<1>2. ASSUME NEW b \in Builders, StartRun(b) PROVE DrivesItsOwn' /\ Stays
  <2>1. PICK x \in BuildIds, v \in Versions :
          /\ runs[x].status = "unused" /\ build' = [build EXCEPT ![b] = x]
          /\ runs' = [runs EXCEPT ![x] = [status |-> "running", seq |-> lastSeq + 1, version |-> v]]
    BY <1>2 DEF StartRun
  <2>2. \A y \in BuildIds : runs'[y].status = IF y = x THEN "running" ELSE runs[y].status
    BY <2>1 DEF TypeOK
  <2>3. \A c \in Builders : pc'[c] = (IF c = b THEN "running" ELSE pc[c])
                           /\ build'[c] = IF c = b THEN x ELSE build[c]
    BY <1>2, <2>1 DEF StartRun, Goto, TypeOK
  <2>4. \A c \in Builders : pc[c] \in Working => build[c] \in BuildIds /\ build[c] # x
    BY <2>1 DEF DrivesItsOwn
  <2>5. ASSUME NEW c \in Builders, pc'[c] \in Working
        PROVE  /\ build'[c] \in BuildIds
               /\ runs'[build'[c]].status \in
                    {"gone", IF pc'[c] \in {"running", "finalizing"} THEN "running" ELSE "completed"}
               /\ \A d \in Builders \ {c} : pc'[d] \in Working => build'[d] # build'[c]
    <3>1. CASE c = b
      BY <2>2, <2>3, <2>4, <3>1
    <3>2. CASE c # b
      BY <2>2, <2>3, <2>4, <2>5, <3>2 DEF DrivesItsOwn
    <3> QED
      BY <3>1, <3>2
  <2>6. Stays
    BY <2>1, <2>2 DEF Final
  <2> QED
    BY <2>5, <2>6 DEF DrivesItsOwn
<1>3. ASSUME NEW b \in Builders, AssertRunRowAlive(b) PROVE DrivesItsOwn' /\ Stays
  <2>1. pc[b] \in Working /\ "finalizing" \in Phases /\ pc[b] = "running"
    BY <1>3 DEF AssertRunRowAlive, Working, Phases
  <2>2. runs[build[b]].status \in {"gone", "running"}
    BY <2>1 DEF DrivesItsOwn
  <2> QED
    BY <1>3, <2>1, <2>2, OthersKeepTheirs DEF AssertRunRowAlive, Goto
\* A builder that gives its own row the status s, from "running" or "completed".
<1>4. ASSUME NEW b \in Builders, pc[b] \in Working, NEW p \in Phases, NEW s \in RunStatus, Goto(b, p),
             SetStatus(build[b], s) \/ runs' = runs, build' = build,
             p \in Working => runs'[build[b]].status \in
               {"gone", IF p \in {"running", "finalizing"} THEN "running" ELSE "completed"}
      PROVE  DrivesItsOwn' /\ Stays
  <2>1. build[b] \in BuildIds /\ runs[build[b]].status \in {"gone", "running", "completed"}
    BY <1>4 DEF DrivesItsOwn
  <2>2. \A x \in BuildIds : x # build[b] => runs'[x].status = runs[x].status
    BY <1>4, <2>1 DEF SetStatus, TypeOK
  <2>3. DrivesItsOwn'
    BY <1>4, <2>1, <2>2, OthersKeepTheirs DEF Goto
  <2> QED
    BY <2>1, <2>2, <2>3 DEF Final
<1>5. ASSUME NEW b \in Builders, FinishRun(b) PROVE DrivesItsOwn' /\ Stays
  <2>1. pc[b] \in Working /\ pc[b] = "finalizing" /\ {"completed", "exiting"} \subseteq Phases
        /\ "exiting" \notin Working /\ "completed" \in RunStatus
    BY <1>5 DEF FinishRun, Working, Phases, RunStatus
  <2>2. build[b] \in BuildIds
    BY <2>1 DEF DrivesItsOwn
  <2>3. CASE Exists(build[b])
    <3>1. runs'[build[b]].status = "completed"
      BY <1>5, <2>2, <2>3 DEF FinishRun, SetStatus, TypeOK, Rows
    <3>2. Goto(b, "completed") /\ SetStatus(build[b], "completed") /\ build' = build
      BY <1>5, <2>3 DEF FinishRun
    <3> QED
      BY <1>4, <2>1, <3>1, <3>2
  <2>4. CASE ~ Exists(build[b])
    <3>1. Goto(b, "exiting") /\ runs' = runs /\ build' = build
      BY <1>5, <2>4 DEF FinishRun
    <3> QED
      BY <1>4, <2>1, <3>1
  <2> QED
    BY <2>3, <2>4
<1>6. ASSUME NEW b \in Builders, RunRaises(b) PROVE DrivesItsOwn' /\ Stays
  <2>1. pc[b] \in Working /\ "exiting" \in Phases /\ "exiting" \notin Working /\ "failed" \in RunStatus
    BY <1>6 DEF RunRaises, Working, Phases, RunStatus
  <2>2. Goto(b, "exiting") /\ (SetStatus(build[b], "failed") \/ runs' = runs) /\ build' = build
    BY <1>6 DEF RunRaises
  <2> QED
    BY <1>4, <2>1, <2>2
<1>7. ASSUME NEW b \in Builders, LeaveCompleted(b) PROVE DrivesItsOwn' /\ Stays
  <2>1. pc[b] \in Working /\ "exiting" \in Phases /\ "exiting" \notin Working /\ "failed" \in RunStatus
    BY <1>7 DEF LeaveCompleted, Working, Phases, RunStatus
  <2> QED
    BY <1>4, <1>7, <2>1 DEF LeaveCompleted
<1>8. ASSUME NEW b \in Builders, ValidatePasses(b) PROVE DrivesItsOwn' /\ Stays
  <2>1. pc[b] \in Working /\ pc[b] = "completed" /\ "validated" \in Phases /\ "failed" \in RunStatus
    BY <1>8 DEF ValidatePasses, Working, Phases, RunStatus
  <2>2. runs[build[b]].status \in {"gone", "completed"}
    BY <2>1 DEF DrivesItsOwn
  <2>3. Goto(b, "validated") /\ runs' = runs /\ build' = build
    BY <1>8 DEF ValidatePasses
  <2> QED
    BY <1>4, <2>1, <2>2, <2>3
<1>9. ASSUME NEW b \in Builders, ValidateFails(b) PROVE DrivesItsOwn' /\ Stays
  <2>1. pc[b] \in Working /\ "exiting" \in Phases /\ "exiting" \notin Working /\ "validation_failed" \in RunStatus
    BY <1>9 DEF ValidateFails, Working, Phases, RunStatus
  <2>2. Goto(b, "exiting") /\ SetStatus(build[b], "validation_failed") /\ build' = build
    BY <1>9 DEF ValidateFails
  <2> QED
    BY <1>4, <2>1, <2>2
<1>10. ASSUME NEW b \in Builders, Activate(b) PROVE DrivesItsOwn' /\ Stays
  <2>1. pc[b] \in Working /\ pc[b] = "validated" /\ "exiting" \in Phases /\ "exiting" \notin Working
    BY <1>10 DEF Activate, Working, Phases
  <2>2. build[b] \in BuildIds /\ runs[build[b]].status \in {"gone", "completed"}
    BY <2>1 DEF DrivesItsOwn
  <2>3. \A x \in BuildIds : x # build[b] =>
          runs'[x].status = IF runs[x].status = "active" THEN "superseded" ELSE runs[x].status
    BY <1>10 DEF Activate, Promoted, TypeOK, Rows
  <2>4. DrivesItsOwn'
    BY <1>10, <2>1, <2>3, OthersKeepTheirs DEF Activate, Goto
  <2> QED
    BY <2>2, <2>3, <2>4 DEF Final
<1>11. ASSUME NEW b \in Builders, NEW p \in {"idle", "dead"}, Goto(b, p), UNCHANGED <<runs, build>>
       PROVE  DrivesItsOwn' /\ Stays
  <2>1. p \in Phases /\ p \notin Working
    BY <1>11 DEF Phases, Working
  <2> QED
    BY <1>11, <2>1, OthersKeepTheirs DEF Goto
<1>12. ASSUME NEW b \in Builders, ReleaseLock(b) \/ Crash(b) \/ ReapSession(b) PROVE DrivesItsOwn' /\ Stays
  BY <1>11, <1>12 DEF ReleaseLock, Crash, ReapSession
<1>13. ASSUME NEW b \in Builders, LoseLockConnection(b) PROVE DrivesItsOwn' /\ Stays
  BY <1>13 DEF LoseLockConnection, DrivesItsOwn
<1>14. CASE WipeRegistry
  <2>1. \A x \in BuildIds : runs'[x].status \in {runs[x].status, "gone"}
    BY <1>14 DEF WipeRegistry, TypeOK, Rows
  <2>2. pc' = pc /\ build' = build
    BY <1>14 DEF WipeRegistry
  <2> QED
    BY <2>1, <2>2 DEF DrivesItsOwn
<1> HIDE DEF Stays
<1>15. DrivesItsOwn' /\ Stays
  BY <1>0, <1>1, <1>2, <1>3, <1>5, <1>6, <1>7, <1>8, <1>9, <1>10, <1>12, <1>13, <1>14 DEF Next, Progress, Stays, vars
<1> QED
  BY <1>15 DEF Stays

\* publish_gates.py, active_version.py: a failed, rejected or superseded build never comes back,
\* under every fault, also when two builders are at work because the lock was lost.
THEOREM VerdictsStay == Spec => VerdictsAreFinal
<1>1. Init => DrivesItsOwn
  BY DEF Init, DrivesItsOwn, Working
<1>2. ASSUME TypeOK, DrivesItsOwn, [Next]_vars
      PROVE  /\ DrivesItsOwn'
             /\ [\A x \in BuildIds : runs[x].status \in Final =>
                   runs'[x].status \in {runs[x].status, "gone"}]_vars
  BY <1>2, VerdictStep
<1> QED
  BY <1>1, <1>2, Typing, PTL DEF Spec, VerdictsAreFinal
===============================================================================
