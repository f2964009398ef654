------------------------------- MODULE KbSearch -------------------------------
(***************************************************************************)
(* kb_search, the budgeted search tool, with the wrapper that every tool   *)
(* call of the server goes through.  A call meters itself on the window of *)
(* its (MCP session, subject) pair, holding the window's asyncio.Lock from *)
(* the check to the ledger row; a call that raises is refunded and then    *)
(* audited by the wrapper.  Windows live in a store of bounded size that   *)
(* forgets the least recently used one, also while a call is using it.     *)
(*                                                                         *)
(* An answer is reduced to the tokens it costs.  A window object that no   *)
(* key and no call refers to is garbage and is collected at once.          *)
(***************************************************************************)
EXTENDS Integers, Sequences, FiniteSets

CONSTANTS
    Calls,         \* coroutines that can be in flight at once
    Keys,          \* (session, subject) pairs
    WindowIds,     \* KbSearchWindow objects (at least MaxWindows + Calls)
    Nothing,       \* no key, no window, a free lock
    MaxRequests,   \* max_requests of the key's subject
    MaxTokens,     \* max_tokens of the key's subject
    MaxAnswer,     \* what one answer may cost (max_cards_per_retrieval hits)
    MaxWindows,    \* KbSearchBudgetStore.max_windows
    Faults         \* which faults of the environment may occur

KnownFaults == {"query_fails", "call_cancelled"}

ASSUME SearchAssumption == /\ Nothing \notin Keys \cup WindowIds \cup Calls
                           /\ MaxRequests \in [Keys -> Nat]
                           /\ MaxTokens \in [Keys -> Nat]
                           /\ MaxAnswer \in Nat
                           /\ MaxWindows \in Nat \ {0}
                           /\ Faults \subseteq KnownFaults

VARIABLES
    serving,    \* is there an active kb_version?
    stored,     \* KbSearchBudgetStore.windows: keys, least recently used first
    windowOf,   \* ... and the window object of each stored key
    window,     \* the window objects
    ledger,     \* the approved rows of each window, added up
    call        \* the coroutines

vars == <<serving, stored, windowOf, window, ledger, call>>

Usage == [requests : Nat, tokens : Nat]

\* torn: a cancelled call left its charge behind without a row.
Windows == [usage : Usage, lock : Calls \cup {Nothing}, torn : BOOLEAN]

\* at: which await the call is suspended in.  rows: retrieval_event rows the
\* call wrote so far.  outcome: "lost" is a call that was cancelled, or failed
\* while its audit failed, too.
Phases == {"idle", "reading", "waiting", "denying", "retrieving", "writing",
           "erring", "auditing"}

\* The phases in which a call has charged its window, and in which a row of it
\* is on its way to the database.
Charged == {"retrieving", "writing"}

Writing == {"denying", "writing", "erring", "auditing"}

Outcomes == {"settled", "lost"}

CallStates == [at : Phases, key : Keys \cup {Nothing}, window : WindowIds \cup {Nothing},
               before : Usage, tokens : Nat, rows : Nat, outcome : Outcomes]

TypeOK == /\ serving \in BOOLEAN
          /\ stored \in Seq(Keys) /\ Len(stored) <= MaxWindows
          /\ windowOf \in [Keys -> WindowIds \cup {Nothing}]
          /\ window \in [WindowIds -> Windows]
          /\ ledger \in [WindowIds -> Usage]
          /\ call \in [Calls -> CallStates]

Unused == [requests |-> 0, tokens |-> 0]

NewWindow == [usage |-> Unused, lock |-> Nothing, torn |-> FALSE]

Idle == [at |-> "idle", key |-> Nothing, window |-> Nothing, before |-> Unused,
         tokens |-> 0, rows |-> 0, outcome |-> "lost"]

Init == /\ serving = FALSE
        /\ stored = <<>>
        /\ windowOf = [k \in Keys |-> Nothing]
        /\ window = [w \in WindowIds |-> NewWindow]
        /\ ledger = [w \in WindowIds |-> Unused]
        /\ call = [c \in Calls |-> Idle]
------------------------------------------------------------------------------
Garbage == {w \in WindowIds : /\ \A k \in Keys : windowOf[k] # w
                              /\ \A c \in Calls : call[c].window # w}

\* The window objects after a step that may drop the last reference to one.
Collect(windows, rows) ==
    /\ window' = [w \in WindowIds |-> IF w \in Garbage' THEN NewWindow ELSE windows[w]]
    /\ ledger' = [w \in WindowIds |-> IF w \in Garbage' THEN Unused ELSE rows[w]]

Await(c, phase) == call' = [call EXCEPT ![c].at = phase]

Finish(c, outcome, rows) ==
    call' = [call EXCEPT ![c] = [Idle EXCEPT !.outcome = outcome, !.rows = call[c].rows + rows]]

\* A client sends a query; the handler awaits fetch_active_version.
Arrive(c) == /\ call[c].at = "idle"
             /\ \E k \in Keys : call' = [call EXCEPT ![c] = [Idle EXCEPT !.at = "reading",
                                                                         !.key = k]]
             /\ UNCHANGED <<serving, stored, windowOf, window, ledger>>

\* The call is turned away before it reaches the handler: its arguments fail the
\* request schema (SchemaRejectionLedgerMiddleware audits it) or the client
\* lacks the scope (the wrapper does).
TurnAway(c) == /\ call[c].at = "idle"
               /\ call' = [call EXCEPT ![c] = [Idle EXCEPT !.at = "auditing"]]
               /\ UNCHANGED <<serving, stored, windowOf, window, ledger>>

\* No active version: the handler owes the ledger an error row itself.
NoVersion(c) == /\ call[c].at = "reading" /\ ~serving
                /\ Await(c, "erring")
                /\ UNCHANGED <<serving, stored, windowOf, window, ledger>>

Position(k) == CHOOSE i \in DOMAIN stored : stored[i] = k

\* The touched window moves to the back of the store.
Touched(k) == [i \in DOMAIN stored |-> IF i < Position(k) THEN stored[i]
                                       ELSE IF i = Len(stored) THEN k ELSE stored[i + 1]]

Full == Len(stored) >= MaxWindows

\* window_for on a key that has no window: evict the least recently used one
\* and start a fresh meter.
OpenWindow(k, w) ==
    /\ stored' = Append(IF Full THEN Tail(stored) ELSE stored, k)
    /\ windowOf' = [x \in Keys |-> IF x = k THEN w
                                   ELSE IF Full /\ x = Head(stored) THEN Nothing
                                   ELSE windowOf[x]]

\* The version is read: look up the window, then wait for its lock.
FindWindow(c) ==
    /\ call[c].at = "reading" /\ serving
    /\ IF windowOf[call[c].key] = Nothing
         THEN Garbage # {} /\ OpenWindow(call[c].key, CHOOSE w \in Garbage : TRUE)
         ELSE stored' = Touched(call[c].key) /\ UNCHANGED windowOf
    /\ call' = [call EXCEPT ![c].at = "waiting", ![c].window = windowOf'[call[c].key]]
    /\ Collect(window, ledger)
    /\ UNCHANGED serving
------------------------------------------------------------------------------
WindowOf(c) == window[call[c].window]

\* kb_budget_open: both caps remain.
BudgetOpen(k, u) == u.requests < MaxRequests[k] /\ u.tokens < MaxTokens[k]

\* (mutant) No lock.
NeverLocked(c) == TRUE

LockFree(c) == WindowOf(c).lock = Nothing

Locked(c) == [WindowOf(c) EXCEPT !.lock = c]

\* (mutant) The lock is never released.
StillLocked(s) == s

\* The end of "async with window.lock", however the call ends.
Unlocked(s) == [s EXCEPT !.lock = Nothing]

\* Call c leaves its window in state s.
With(c, s) == [window EXCEPT ![call[c].window] = s]

\* The lock is acquired and a cap is reached: write the 'denied' row.
Deny(c) == /\ call[c].at = "waiting" /\ LockFree(c)
           /\ ~BudgetOpen(call[c].key, WindowOf(c).usage)
           /\ window' = With(c, Locked(c))
           /\ Await(c, "denying")
           /\ UNCHANGED <<serving, stored, windowOf, ledger>>

\* The lock is acquired and the budget is open: snapshot the meters, charge the
\* call, retrieve.
ChargeCall(c) ==
    /\ call[c].at = "waiting" /\ LockFree(c)
    /\ BudgetOpen(call[c].key, WindowOf(c).usage)
    /\ window' = With(c, [Locked(c) EXCEPT !.usage.requests = @ + 1])
    /\ call' = [call EXCEPT ![c].at = "retrieving", ![c].before = WindowOf(c).usage]
    /\ UNCHANGED <<serving, stored, windowOf, ledger>>

\* retrieve_cards returned: charge what the answer costs, await the row.
ChargeTokens(c) ==
    /\ call[c].at = "retrieving"
    /\ \E tokens \in 0 .. MaxAnswer :
         /\ window' = With(c, [WindowOf(c) EXCEPT !.usage.tokens = @ + tokens])
         /\ call' = [call EXCEPT ![c].at = "writing", ![c].tokens = tokens]
    /\ UNCHANGED <<serving, stored, windowOf, ledger>>

\* insert_event of the 'approved' row.
Recorded(c) == [ledger EXCEPT ![call[c].window] =
                  [requests |-> @.requests + 1, tokens |-> @.tokens + call[c].tokens]]

\* The row is committed: the lock is released and the call returns.
RowLands(c) == /\ call[c].at \in {"denying", "writing"}
               /\ Finish(c, "settled", 1)
               /\ UNCHANGED <<serving, stored, windowOf>>
               /\ Collect(With(c, Unlocked(WindowOf(c))),
                          IF call[c].at = "writing" THEN Recorded(c) ELSE ledger)

\* (mutant) A bare ToolError, so that the wrapper audits the call again.
ErrorRowUnmarked(c) ==
    /\ call[c].at = "erring"
    /\ call' = [call EXCEPT ![c] = [Idle EXCEPT !.at = "auditing", !.rows = 1]]
    /\ UNCHANGED <<serving, stored, windowOf, window, ledger>>

\* write_error_event of the handler is committed: LedgeredToolError, which the
\* wrapper passes on untouched.
ErrorRowLands(c) == /\ call[c].at = "erring"
                    /\ Finish(c, "settled", 1)
                    /\ UNCHANGED <<serving, stored, windowOf, window, ledger>>
------------------------------------------------------------------------------
\* (mutant) The refund forgets the tokens.
OnlyCallRefunded(c) == [WindowOf(c).usage EXCEPT !.requests = call[c].before.requests]

Refunded(c) == call[c].before

\* A query of the handler raises: a charge is refunded inside the lock, the
\* lock is released, and the exception reaches the wrapper.
HandlerRaises(c) ==
    /\ "query_fails" \in Faults
    /\ call[c].at \in {"reading", "denying", "retrieving", "writing", "erring"}
    /\ call' = [call EXCEPT ![c] = [Idle EXCEPT !.at = "auditing"]]
    /\ UNCHANGED <<serving, stored, windowOf>>
    /\ Collect(CASE call[c].at \in Charged ->
                      With(c, Unlocked([WindowOf(c) EXCEPT !.usage = Refunded(c)]))
                 [] call[c].at = "denying" -> With(c, Unlocked(WindowOf(c)))
                 [] OTHER -> window,
               ledger)

\* _write_unexpected_error writes the one row of a call that raised; if that
\* fails, too, the failure is swallowed and the call has no row.
AuditLands(c) == /\ call[c].at = "auditing"
                 /\ Finish(c, "settled", 1)
                 /\ UNCHANGED <<serving, stored, windowOf, window, ledger>>

AuditFails(c) == /\ call[c].at = "auditing"
                 /\ "query_fails" \in Faults
                 /\ Finish(c, "lost", 0)
                 /\ UNCHANGED <<serving, stored, windowOf, window, ledger>>

\* The client goes away.  CancelledError is not an Exception: no refund and no
\* audit, but the lock is released.  The row in flight may have been committed.
Cancel(c) ==
    /\ "call_cancelled" \in Faults
    /\ call[c].at # "idle"
    /\ UNCHANGED <<serving, stored, windowOf>>
    /\ \E landed \in IF call[c].at \in Writing THEN BOOLEAN ELSE {FALSE} :
         /\ Finish(c, "lost", IF landed THEN 1 ELSE 0)
         /\ Collect(IF call[c].at \in Charged \cup {"denying"}
                      THEN With(c, [Unlocked(WindowOf(c)) EXCEPT
                                      !.torn = @ \/ (call[c].at \in Charged /\ ~landed)])
                      ELSE window,
                    IF call[c].at \in Charged /\ landed THEN Recorded(c) ELSE ledger)

\* The builder activates its first version; from then on there is one.
FirstActivation == /\ ~serving
                   /\ serving' = TRUE
                   /\ UNCHANGED <<stored, windowOf, window, ledger, call>>
------------------------------------------------------------------------------
\* The steps that need the lock, and those that only need the event loop.
Acquire(c) == Deny(c) \/ ChargeCall(c)

Resume(c) == \/ NoVersion(c) \/ FindWindow(c)
             \/ ChargeTokens(c) \/ RowLands(c) \/ ErrorRowLands(c)
             \/ HandlerRaises(c) \/ AuditLands(c) \/ AuditFails(c)

Next == \/ \E c \in Calls : Arrive(c) \/ TurnAway(c) \/ Acquire(c) \/ Resume(c) \/ Cancel(c)
        \/ FirstActivation

Spec == Init /\ [][Next]_vars

\* An awaited query returns or raises; asyncio.Lock wakes its waiters in turn.
FairSpec == Spec /\ \A c \in Calls : WF_vars(Resume(c)) /\ SF_vars(Acquire(c))
------------------------------------------------------------------------------
\* A window answers while both caps remain, and only its last answer may
\* overdraw the tokens, however a burst of calls interleaves, fails or is
\* cancelled (kb_budget_open, KbSearchWindow.lock).
WindowCapsHold ==
    \A k \in Keys : windowOf[k] # Nothing =>
        LET u == window[windowOf[k]].usage
        IN  /\ u.requests <= MaxRequests[k]
            /\ MaxTokens[k] > 0 => u.tokens < MaxTokens[k] + MaxAnswer

\* Between calls a window is charged for what its ledger rows show: a failed
\* call is free.  Only a cancelled call is charged without a row.
MetersMatchLedger ==
    \A w \in WindowIds :
        /\ window[w].lock = Nothing /\ ~window[w].torn => window[w].usage = ledger[w]
        /\ window[w].usage.requests >= ledger[w].requests

\* A spent window stays spent: no later failure, refund or race reopens it as
\* long as it is the window of its key.
SpentStaysSpent ==
    [][\A k \in Keys :
         /\ windowOf[k] # Nothing /\ windowOf'[k] = windowOf[k]
         /\ window[windowOf[k]].lock = Nothing
         /\ ~BudgetOpen(k, window[windowOf[k]].usage)
         => ~BudgetOpen(k, window'[windowOf[k]].usage)]_vars

\* A call that ended has exactly one retrieval_event row; none only when the
\* audit failed, too, or the client went away (tool_handlers.py, _ledgered).
OneRowPerCall ==
    \A c \in Calls : call[c].at = "idle" =>
        /\ call[c].outcome = "settled" => call[c].rows = 1
        /\ call[c].rows <= 1

\* Every call ends, and so frees the window it may have locked.
CallsReturn == \A c \in Calls : (call[c].at # "idle") ~> (call[c].at = "idle")
===============================================================================
