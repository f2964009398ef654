---------------------------- MODULE BuildLifecycle ----------------------------
(***************************************************************************)
(* The life of a kb-builder process: the single-builder advisory lock, the *)
(* kb_build_run row it drives from 'running' to 'active', and the publish  *)
(* gates in front of activation.  Several processes share one registry;    *)
(* they may crash, lose the connection that holds the lock, or have the    *)
(* registry emptied underneath them.                                       *)
(*                                                                         *)
(* What a build does to sources and artifacts is IncrementalBuild; here    *)
(* that work is the one step FinishRun, which may fail.                    *)
(***************************************************************************)
EXTENDS Integers, FiniteSets

CONSTANTS
    Builders,    \* builder processes
    BuildIds,    \* build_id values gen_random_uuid can draw (bounds the builds)
    Versions,    \* kb_version labels an operator passes; a retry reuses one
    NoBuilder,   \* the advisory lock is free
    NoBuild,     \* no build_id
    Faults       \* which faults of the environment may occur

KnownFaults == {"lock_connection_lost", "database_recreated", "registry_wiped"}

ASSUME ConstantsAssumption == /\ NoBuilder \notin Builders
                              /\ NoBuild \notin BuildIds
                              /\ NoBuild \notin Nat
                              /\ Versions # {}
                              /\ Faults \subseteq KnownFaults

\* The faults that take the advisory lock from a builder that is still running.
LockLoss == {"lock_connection_lost", "database_recreated"}

VARIABLES
    lock,        \* holder of BUILDER_LOCK_KEY
    lastSeq,     \* last value of the kb_build_seq SEQUENCE
    runs,        \* kb_build_run, by build_id
    pc,          \* where each builder process is
    build,       \* build_id of the run a builder drives
    gated        \* the build the publish gates measured for a builder

vars == <<lock, lastSeq, runs, pc, build, gated>>

RunStatus == {"running", "completed", "failed", "active", "superseded",
              "validation_failed"}

\* "unused": the id was not drawn yet.  "gone": the row was wiped.
Rows == [status : RunStatus \cup {"unused", "gone"},
         seq : Nat,
         version : Versions]

NoRow == [status |-> "unused", seq |-> 0, version |-> CHOOSE v \in Versions : TRUE]

Phases == {"idle", "locked", "running", "finalizing", "completed",
           "validated", "exiting", "dead"}

\* The phases in which a builder drives a row of kb_build_run.
Working == {"running", "finalizing", "completed", "validated"}

TypeOK == /\ lock \in Builders \cup {NoBuilder}
          /\ lastSeq \in Nat
          /\ runs \in [BuildIds -> Rows]
          /\ pc \in [Builders -> Phases]
          /\ build \in [Builders -> BuildIds \cup {NoBuild}]
          /\ gated \in [Builders -> BuildIds \cup {NoBuild}]

Exists(x) == runs[x].status \in RunStatus

Registered == {x \in BuildIds : Exists(x)}

\* get_active_kb_version, and the served build_seq the broker reads.
ActiveBuilds == {x \in BuildIds : runs[x].status = "active"}

ServedSeq == IF ActiveBuilds = {} THEN NoBuild
             ELSE runs[CHOOSE x \in ActiveBuilds : TRUE].seq

CompletedBuilds == {x \in BuildIds : runs[x].status = "completed"}

CompletedSeqs == {runs[x].seq : x \in CompletedBuilds}

Init == /\ lock = NoBuilder
        /\ lastSeq = 0
        /\ runs = [x \in BuildIds |-> NoRow]
        /\ pc = [b \in Builders |-> "idle"]
        /\ build = [b \in Builders |-> NoBuild]
        /\ gated = [b \in Builders |-> NoBuild]
------------------------------------------------------------------------------
\* Local bookkeeping of a builder that moves to phase p.
Goto(b, p) == pc' = [pc EXCEPT ![b] = p]

SetStatus(x, s) == runs' = [runs EXCEPT ![x].status = s]

\* (mutant) No advisory lock.
LockIsIgnored(b) == TRUE

LockIsFree(b) == lock = NoBuilder

\* acquire_builder_lock: pg_try_advisory_lock on a connection of its own.  A
\* builder that finds the lock held aborts at once, without a state change.
AcquireLock(b) == /\ pc[b] = "idle"
                  /\ LockIsFree(b)
                  /\ lock' = b
                  /\ Goto(b, "locked")
                  /\ UNCHANGED <<lastSeq, runs, build, gated>>

\* _start_run: draw build_seq, insert the row as 'running', commit.
StartRun(b) ==
    /\ pc[b] = "locked"
    /\ \E x \in BuildIds, v \in Versions :
         /\ runs[x].status = "unused"
         /\ runs' = [runs EXCEPT ![x] = [status |-> "running", seq |-> lastSeq + 1,
                                         version |-> v]]
         /\ build' = [build EXCEPT ![b] = x]
    /\ lastSeq' = lastSeq + 1
    /\ Goto(b, "running")
    /\ UNCHANGED <<lock, gated>>

\* _process_sources returned and _assert_run_row_alive found the run row.
AssertRunRowAlive(b) == /\ pc[b] = "running"
                        /\ Exists(build[b])
                        /\ Goto(b, "finalizing")
                        /\ UNCHANGED <<lock, lastSeq, runs, build, gated>>

\* The graph finalize, the index reconcile and status 'completed' commit as
\* one transaction.  On a vanished row the UPDATE matches nothing and the
\* final SELECT raises, so the process exits.
FinishRun(b) == /\ pc[b] = "finalizing"
                /\ IF Exists(build[b])
                     THEN SetStatus(build[b], "completed") /\ Goto(b, "completed")
                     ELSE UNCHANGED runs /\ Goto(b, "exiting")
                /\ UNCHANGED <<lock, lastSeq, build, gated>>

\* Any exception of run(): roll back the tail, record 'failed', re-raise.
\* BuildEnvironmentLostError takes this path with no row left to update.
RunRaises(b) == /\ pc[b] \in {"running", "finalizing"}
                /\ IF Exists(build[b]) THEN SetStatus(build[b], "failed")
                                       ELSE UNCHANGED runs
                /\ Goto(b, "exiting")
                /\ UNCHANGED <<lock, lastSeq, build, gated>>

\* run_build with activate=False, or an exception out of the gates: the row
\* stays 'completed'.
LeaveCompleted(b) == /\ pc[b] \in {"completed", "validated"}
                     /\ Goto(b, "exiting")
                     /\ UNCHANGED <<lock, lastSeq, runs, build, gated>>
------------------------------------------------------------------------------
CompletedOf(v) == {x \in BuildIds : runs[x].status = "completed" /\ runs[x].version = v}

\* (mutant) Any completed run of the label, not the latest.
AnyBuildOfLabel(v) == CompletedOf(v)

\* _build_seq_for / _completed_run: the LATEST completed run of the label,
\* which a retry may share with older rows.
BuildUnderGate(v) == {x \in CompletedOf(v) : \A y \in CompletedOf(v) :
                                                runs[y].seq <= runs[x].seq}

\* compose_gates passes.  With no completed run of the label it raises
\* instead (LeaveCompleted).
ValidatePasses(b) ==
    /\ pc[b] = "completed"
    /\ \E x \in BuildUnderGate(runs[build[b]].version) :
         gated' = [gated EXCEPT ![b] = x]
    /\ Goto(b, "validated")
    /\ UNCHANGED <<lock, lastSeq, runs, build>>

\* A gate fails: the run is marked and the active version stays.
ValidateFails(b) == /\ pc[b] = "completed"
                    /\ Exists(build[b])
                    /\ SetStatus(build[b], "validation_failed")
                    /\ Goto(b, "exiting")
                    /\ UNCHANGED <<lock, lastSeq, build, gated>>

\* (mutant) Supersedes every other row, whatever its status.
EveryRowSuperseded(x) ==
    [y \in BuildIds |-> [runs[y] EXCEPT !.status = IF y = x THEN "active"
                                                  ELSE IF Exists(y) THEN "superseded" ELSE @]]

\* The rows after x was promoted: whatever was active is superseded.
Promoted(x) == [y \in BuildIds |->
                  IF y = x THEN [runs[y] EXCEPT !.status = "active"]
                  ELSE IF runs[y].status = "active"
                    THEN [runs[y] EXCEPT !.status = "superseded"]
                    ELSE runs[y]]

\* activate_kb_version, second half.  The partial unique index aborts the
\* loser of two overlapping promotions (LeaveCompleted).
Activate(b) == /\ pc[b] = "validated"
               /\ Exists(build[b])
               /\ runs' = Promoted(build[b])
               /\ Goto(b, "exiting")
               /\ UNCHANGED <<lock, lastSeq, build, gated>>

\* (mutant) The lock is never given back.
LockKept(b) == lock

UnlessHolder(b) == IF lock = b THEN NoBuilder ELSE lock

\* pg_advisory_unlock in the finally block; the process ends.
ReleaseLock(b) == /\ pc[b] \in {"exiting", "locked"}
                  /\ lock' = UnlessHolder(b)
                  /\ Goto(b, "idle")
                  /\ UNCHANGED <<lastSeq, runs, build, gated>>
------------------------------------------------------------------------------
\* The process dies between two statements; what it committed stays.
Crash(b) == /\ pc[b] \notin {"idle", "dead"}
            /\ Goto(b, "dead")
            /\ UNCHANGED <<lock, lastSeq, runs, build, gated>>

\* The server notices the dead session and drops its advisory lock.
ReapSession(b) == /\ pc[b] = "dead"
                  /\ lock' = UnlessHolder(b)
                  /\ Goto(b, "idle")
                  /\ UNCHANGED <<lastSeq, runs, build, gated>>

\* The idle, dedicated lock connection breaks while the build goes on: the
\* build session is another connection and nothing checks the lock again.
LoseLockConnection(b) == /\ "lock_connection_lost" \in Faults
                         /\ lock = b
                         /\ pc[b] \notin {"idle", "dead"}
                         /\ lock' = NoBuilder
                         /\ UNCHANGED <<lastSeq, runs, pc, build, gated>>

\* The registry is emptied while a build runs; recreating the database also
\* restarts the sequence and ends the session that holds the lock.
WipeRegistry ==
    /\ Registered # {}
    /\ runs' = [x \in BuildIds |-> IF Exists(x) THEN [runs[x] EXCEPT !.status = "gone"]
                                                ELSE runs[x]]
    /\ \/ "registry_wiped" \in Faults /\ UNCHANGED <<lock, lastSeq>>
       \/ "database_recreated" \in Faults /\ lock' = NoBuilder /\ lastSeq' = 0
    /\ UNCHANGED <<pc, build, gated>>
------------------------------------------------------------------------------
\* The steps of the code; a builder is not forced to be started again.
Progress(b) == \/ StartRun(b)
               \/ AssertRunRowAlive(b)
               \/ FinishRun(b)
               \/ RunRaises(b)
               \/ LeaveCompleted(b)
               \/ ValidatePasses(b)
               \/ ValidateFails(b)
               \/ Activate(b)
               \/ ReleaseLock(b)
               \/ ReapSession(b)

Next == \/ \E b \in Builders : \/ AcquireLock(b)
                               \/ Progress(b)
                               \/ Crash(b)
                               \/ LoseLockConnection(b)
        \/ WipeRegistry

Spec == Init /\ [][Next]_vars

\* A live process keeps executing, and the server reaps dead sessions.
FairSpec == Spec /\ \A b \in Builders : WF_vars(Progress(b))
------------------------------------------------------------------------------
\* Everyone between acquiring and releasing the lock is its holder.
LockHeld == \A b \in Builders : pc[b] # "idle" => lock = b

\* build_seq is unique and drawn in order.
SeqsUnique == \A x, y \in Registered : /\ runs[x].seq <= lastSeq
                                       /\ runs[x].seq = runs[y].seq => x = y

\* The row a builder drives is where the builder believes it is, unless it
\* was wiped, and it is the newest row there is.
DrivenRow(b) == /\ build[b] \in BuildIds
                /\ Exists(build[b]) =>
                     /\ runs[build[b]].status = IF pc[b] \in {"running", "finalizing"}
                                                 THEN "running" ELSE "completed"
                     /\ \A y \in Registered : runs[y].seq <= runs[build[b]].seq

DrivenRows == \A b \in Builders : pc[b] \in Working => DrivenRow(b)

\* At most one build is active: uq_kb_build_run_single_active never has to
\* fire because activate_kb_version supersedes the old row in the same commit.
SingleActive == \A x, y \in ActiveBuilds : x = y

\* While no fault takes the lock, no two processes drive rows of the registry
\* at once, however they crash and restart (builder_lock.py).
OneBuilderAtATime == \A b, c \in Builders : pc[b] \in Working /\ pc[c] \in Working => b = c

\* activate_kb_version promotes the build_id it was given, the gates measure
\* the latest completed run of its LABEL: the two are the same build although
\* --no-activate and retries leave other completed rows of the label behind.
GatesMeasureTheBuildPromoted ==
    \A b \in Builders : pc[b] = "validated" /\ Exists(build[b]) => gated[b] = build[b]

\* While no fault takes the lock, the registry a working builder sees is its
\* own: the inductive invariant behind the properties of this module.
RegistryIsOrderly == /\ LockHeld
                     /\ SeqsUnique
                     /\ DrivenRows
                     /\ SingleActive
                     /\ GatesMeasureTheBuildPromoted

\* Readers never see the served build_seq move backwards (active_version.py);
\* only emptying the registry ends the reign of a build without a newer one.
ServedNeverRegresses ==
    [][ServedSeq # NoBuild /\ ServedSeq' # NoBuild => ServedSeq' >= ServedSeq]_vars

\* A run row that reached a final verdict keeps it: a failed, rejected or
\* superseded build never comes back into service.
Final == {"failed", "validation_failed", "superseded"}
VerdictsAreFinal ==
    [][\A x \in BuildIds : runs[x].status \in Final =>
          runs'[x].status \in {runs[x].status, "gone"}]_vars

\* Builder and registry together implement the promise made to readers: every
\* step of a builder is a step of ServedVersion or invisible to a reader.
Served == INSTANCE ServedVersion WITH None <- NoBuild, served <- ServedSeq,
                                      eligible <- CompletedSeqs
ImplementsServedVersion == Served!Spec

\* A crashed or failed build never blocks the next one: whoever holds the
\* advisory lock gives it back (the finally block, or the end of the session).
LockIsReturned == \A b \in Builders : (lock = b) ~> (lock # b)
==============================================================================
