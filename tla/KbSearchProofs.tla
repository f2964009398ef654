---------------------------- MODULE KbSearchProofs ----------------------------
(***************************************************************************)
(* The caps and the meters of the kb_search windows, for every number of   *)
(* calls, keys and windows, every policy and every fault; and the change   *)
(* packs of the same server with the runner that drives them, for every    *)
(* service, model, human and test run.                                     *)
(***************************************************************************)
EXTENDS KbSearch, AgentRunner, SelectionsProofs

\* A window that is stored is found in the order of use.
StoreIsIndexed == \A k \in Keys : windowOf[k] # Nothing =>
                    \E i \in DOMAIN stored : stored[i] = k

\* A call that has looked up its window has one, and knows its key.
CallsAreBound ==
    \A c \in Calls :
        /\ call[c].at \in {"waiting", "denying", "retrieving", "writing"} =>
             call[c].window \in WindowIds
        /\ call[c].at = "reading" \/ call[c].window # Nothing => call[c].key \in Keys

Typed == TypeOK /\ StoreIsIndexed /\ CallsAreBound

LEMMA Figures ==
    /\ Unused \in Usage /\ NewWindow \in Windows /\ Idle \in CallStates
    /\ \A o \in Outcomes, n \in Nat : [Idle EXCEPT !.outcome = o, !.rows = n] \in CallStates
    /\ [Idle EXCEPT !.at = "auditing"] \in CallStates
    /\ \A k \in Keys : [Idle EXCEPT !.at = "reading", !.key = k] \in CallStates
  BY DEF Unused, Usage, NewWindow, Windows, Idle, CallStates, Phases, Outcomes

LEMMA CollectTypes ==
    ASSUME NEW windows \in [WindowIds -> Windows], NEW rows \in [WindowIds -> Usage],
           Collect(windows, rows)
    PROVE  window' \in [WindowIds -> Windows] /\ ledger' \in [WindowIds -> Usage]
  BY Figures DEF Collect

\* Moving a key to the back keeps the store a sequence of the same keys.
LEMMA TouchedTypes ==
    ASSUME stored \in Seq(Keys), NEW k \in Keys, \E i \in DOMAIN stored : stored[i] = k
    PROVE  /\ Touched(k) \in Seq(Keys) /\ Len(Touched(k)) = Len(stored)
           /\ \A x \in Keys : (\E i \in DOMAIN stored : stored[i] = x) =>
                              \E i \in DOMAIN Touched(k) : Touched(k)[i] = x
<1> DEFINE p == Position(k)  n == Len(stored)
<1>1. p \in DOMAIN stored /\ stored[p] = k
  BY DEF Position
<1>2. n \in Nat /\ DOMAIN stored = 1 .. n /\ p \in 1 .. n
  BY <1>1
<1>s. Touched(k) = [i \in 1 .. n |-> IF i < p THEN stored[i]
                                    ELSE IF i = n THEN k ELSE stored[i + 1]]
  BY <1>2 DEF Touched
<1>e. \A i \in 1 .. n : stored[i] \in Keys
  BY <1>2
<1> HIDE DEF p, n
<1>3. \A i \in 1 .. n : Touched(k)[i] = IF i < p THEN stored[i]
                                        ELSE IF i = n THEN k ELSE stored[i + 1]
  BY <1>s
<1>4. \A i \in 1 .. n : (IF i < p THEN stored[i] ELSE IF i = n THEN k ELSE stored[i + 1]) \in Keys
  BY <1>2, <1>e
<1>5. Touched(k) \in [1 .. n -> Keys]
  BY <1>s, <1>4
<1>6. Touched(k) \in Seq(Keys) /\ Len(Touched(k)) = n /\ DOMAIN Touched(k) = 1 .. n
  BY <1>2, <1>5
<1>7. ASSUME NEW x \in Keys, NEW i \in 1 .. n, stored[i] = x
      PROVE  \E j \in 1 .. n : Touched(k)[j] = x
  <2>1. CASE i < p
    BY <1>3, <1>7, <2>1
  <2>2. CASE i = p
    <3>1. Touched(k)[n] = k /\ n \in 1 .. n
      BY <1>2, <1>3
    <3> QED
      BY <1>1, <1>7, <2>2, <3>1
  <2>3. CASE i > p
    <3>1. i - 1 \in 1 .. n /\ ~(i - 1 < p) /\ i - 1 # n /\ (i - 1) + 1 = i
      BY <1>2, <2>3
    <3> QED
      BY <1>3, <1>7, <3>1
  <2> QED
    BY <1>2, <2>1, <2>2, <2>3
<1> QED
  BY <1>2, <1>6, <1>7 DEF n

\* Opening a window keeps the store in its bound and its keys findable.
LEMMA OpenTypes ==
    ASSUME TypeOK, StoreIsIndexed, NEW k \in Keys, NEW w \in WindowIds, OpenWindow(k, w)
    PROVE  /\ stored' \in Seq(Keys) /\ Len(stored') <= MaxWindows
           /\ windowOf' \in [Keys -> WindowIds \cup {Nothing}]
           /\ windowOf'[k] = w
           /\ \A x \in Keys \ {k} : windowOf'[x] \in {Nothing, windowOf[x]}
           /\ StoreIsIndexed'
<1> USE DEF TypeOK
<1>0. MaxWindows \in Nat \ {0} /\ stored \in Seq(Keys) /\ Len(stored) \in Nat
  BY SearchAssumption
<1>1. windowOf' \in [Keys -> WindowIds \cup {Nothing}] /\ windowOf'[k] = w
      /\ \A x \in Keys \ {k} : windowOf'[x] \in {Nothing, windowOf[x]}
  BY DEF OpenWindow
<1>2. CASE ~Full
  <2>1. stored' = Append(stored, k)
    BY <1>2 DEF OpenWindow
  <2>2. /\ stored' \in Seq(Keys) /\ Len(stored') = Len(stored) + 1
        /\ \A i \in 1 .. Len(stored) : stored'[i] = stored[i]
        /\ stored'[Len(stored) + 1] = k
    BY <1>0, <2>1
  <2>3. Len(stored') <= MaxWindows
    BY <1>0, <1>2, <2>2 DEF Full
  <2>4. StoreIsIndexed'
    BY <1>0, <1>1, <2>2, SMTT(30) DEF StoreIsIndexed
  <2> QED
    BY <1>1, <2>2, <2>3, <2>4
<1>3. CASE Full
  <2>0. stored # <<>>
    BY <1>0, <1>3 DEF Full
  <2>1. stored' = Append(Tail(stored), k)
    BY <1>3 DEF OpenWindow
  <2>2. /\ Tail(stored) \in Seq(Keys) /\ Len(Tail(stored)) = Len(stored) - 1
        /\ \A i \in 1 .. Len(stored) - 1 : Tail(stored)[i] = stored[i + 1]
    BY <1>0, <2>0
  <2>3. /\ stored' \in Seq(Keys) /\ Len(stored') = Len(stored)
        /\ \A i \in 1 .. Len(stored) - 1 : stored'[i] = stored[i + 1]
        /\ stored'[Len(stored)] = k
    BY <1>0, <2>0, <2>1, <2>2
  <2>4. ASSUME NEW x \in Keys, windowOf'[x] # Nothing
        PROVE  \E i \in DOMAIN stored' : stored'[i] = x
    <3>1. CASE x = k
      BY <1>0, <2>0, <2>3, <3>1
    <3>2. CASE x # k
      <4>1. x # Head(stored) /\ windowOf[x] # Nothing
        BY <1>3, <2>4, <3>2 DEF OpenWindow
      <4>2. PICK i \in DOMAIN stored : stored[i] = x
        BY <4>1 DEF StoreIsIndexed
      <4>3. i # 1 /\ i - 1 \in 1 .. Len(stored) - 1 /\ (i - 1) + 1 = i
        BY <1>0, <2>0, <4>1, <4>2
      <4> QED
        BY <1>0, <2>3, <4>2, <4>3
    <3> QED
      BY <3>1, <3>2
  <2>5. Len(stored') <= MaxWindows
    BY <2>3
  <2>6. StoreIsIndexed'
    BY <2>4 DEF StoreIsIndexed
  <2> QED
    BY <1>1, <2>3, <2>5, <2>6
<1> QED
  BY <1>2, <1>3
------------------------------------------------------------------------------
LEMMA AwaitTypes ==
    ASSUME Typed, NEW c \in Calls, call[c].at # "idle" => call[c].at \in Phases,
           NEW phase \in Phases, Await(c, phase),
           phase \in {"waiting", "denying", "retrieving", "writing"} =>
             call[c].window \in WindowIds
    PROVE  call' \in [Calls -> CallStates]
           /\ (phase # "reading" => CallsAreBound')
<1>1. [call[c] EXCEPT !.at = phase] \in CallStates
  BY DEF Typed, TypeOK, CallStates
<1>2. call' \in [Calls -> CallStates]
  BY <1>1 DEF Await, Typed, TypeOK
<1>3. ASSUME phase # "reading" PROVE CallsAreBound'
  <2>1. /\ call'[c].at = phase /\ call'[c].window = call[c].window /\ call'[c].key = call[c].key
        /\ \A x \in Calls \ {c} : call'[x] = call[x]
    BY DEF Await, Typed, TypeOK, CallStates
  <2> QED
    BY <1>3, <2>1 DEF CallsAreBound, Typed
<1> QED
  BY <1>2, <1>3

\* A call that is reset to a variant of Idle is bound to nothing.
LEMMA ResetTypes ==
    ASSUME Typed, NEW c \in Calls, NEW s \in CallStates, call' = [call EXCEPT ![c] = s],
           s.window = Nothing, s.at \in {"idle", "auditing"}
    PROVE  call' \in [Calls -> CallStates] /\ CallsAreBound'
<1>1. call' \in [Calls -> CallStates] /\ call'[c] = s /\ \A x \in Calls \ {c} : call'[x] = call[x]
  BY DEF Typed, TypeOK
<1> QED
  BY <1>1 DEF Typed, CallsAreBound

LEMMA FinishTypes ==
    ASSUME Typed, NEW c \in Calls, NEW o \in Outcomes, NEW n \in {0, 1}, Finish(c, o, n)
    PROVE  call' \in [Calls -> CallStates] /\ CallsAreBound'
<1> DEFINE s == [Idle EXCEPT !.outcome = o, !.rows = call[c].rows + n]
<1>1. call[c].rows + n \in Nat
  BY DEF Typed, TypeOK, CallStates
<1>2. s \in CallStates /\ s.window = Nothing /\ s.at = "idle"
  BY <1>1, Figures DEF Idle
<1>3. call' = [call EXCEPT ![c] = s]
  BY DEF Finish
<1> HIDE DEF s
<1> QED
  BY <1>2, <1>3, ResetTypes

LEMMA WithTypes ==
    ASSUME TypeOK, NEW c \in Calls, NEW s \in Windows
    PROVE  With(c, s) \in [WindowIds -> Windows]
  BY DEF With, TypeOK

\* What a call may do to its window.
LEMMA WindowTypes ==
    ASSUME Typed, NEW c \in Calls, call[c].window \in WindowIds
    PROVE  /\ WindowOf(c) \in Windows /\ WindowOf(c).usage \in Usage
           /\ Locked(c) \in Windows /\ Unlocked(WindowOf(c)) \in Windows
           /\ [Locked(c) EXCEPT !.usage.requests = @ + 1] \in Windows
           /\ \A t \in Nat : [WindowOf(c) EXCEPT !.usage.tokens = @ + t] \in Windows
           /\ Unlocked([WindowOf(c) EXCEPT !.usage = Refunded(c)]) \in Windows
           /\ \A b \in BOOLEAN : [Unlocked(WindowOf(c)) EXCEPT !.torn = @ \/ b] \in Windows
           /\ Recorded(c) \in [WindowIds -> Usage]
<1>1. WindowOf(c) \in Windows /\ call[c] \in CallStates /\ ledger \in [WindowIds -> Usage]
  BY DEF Typed, TypeOK, WindowOf
<1>2. Recorded(c) \in [WindowIds -> Usage]
  BY <1>1 DEF Recorded, CallStates, Usage
<1>3. Refunded(c) \in Usage
  BY <1>1 DEF Refunded, CallStates
<1>4. \A s \in Windows : Unlocked(s) \in Windows
  BY DEF Unlocked, Windows
<1>9. Locked(c) \in Windows
  BY <1>1 DEF Locked, Windows
<1>5. [Locked(c) EXCEPT !.usage.requests = @ + 1] \in Windows
  BY <1>9 DEF Windows, Usage
<1>6. \A t \in Nat : [WindowOf(c) EXCEPT !.usage.tokens = @ + t] \in Windows
  BY <1>1 DEF Windows, Usage
<1>7. [WindowOf(c) EXCEPT !.usage = Refunded(c)] \in Windows
  BY <1>1, <1>3 DEF Windows
<1>8. ASSUME NEW b \in BOOLEAN PROVE [Unlocked(WindowOf(c)) EXCEPT !.torn = @ \/ b] \in Windows
  <2> DEFINE s == Unlocked(WindowOf(c))
             t == s.torn \/ b
  <2>1. s \in Windows
    BY <1>1, <1>4
  <2>2. t \in BOOLEAN
    OBVIOUS
  <2> HIDE DEF s, t
  <2>3. [s EXCEPT !.torn = t] \in Windows
    BY <2>1, <2>2 DEF Windows
  <2> QED
    BY <2>3 DEF s, t
<1> QED
  BY <1>1, <1>2, <1>4, <1>5, <1>6, <1>7, <1>8, <1>9 DEF Windows

LEMMA TypedStep == Typed /\ [Next]_vars => Typed'
<1> SUFFICES ASSUME Typed, [Next]_vars PROVE Typed'
  OBVIOUS
<1>t. TypeOK /\ StoreIsIndexed /\ CallsAreBound
  BY DEF Typed
<1>1. CASE UNCHANGED vars
  BY <1>1 DEF vars, Typed, TypeOK, StoreIsIndexed, CallsAreBound
<1>2. CASE FirstActivation
  BY <1>2 DEF FirstActivation, Typed, TypeOK, StoreIsIndexed, CallsAreBound
\* Steps that change the calls only.
<1>k. ASSUME call' \in [Calls -> CallStates], CallsAreBound',
             UNCHANGED <<serving, stored, windowOf>>,
             window' \in [WindowIds -> Windows], ledger' \in [WindowIds -> Usage]
      PROVE  Typed'
  BY <1>k, <1>t DEF Typed, TypeOK, StoreIsIndexed
<1>u. window \in [WindowIds -> Windows] /\ ledger \in [WindowIds -> Usage]
  BY <1>t DEF TypeOK
<1>b. ASSUME NEW c \in Calls, call[c].at \in {"waiting", "denying", "retrieving", "writing"}
      PROVE  call[c].window \in WindowIds
  BY <1>b, <1>t DEF CallsAreBound
<1>3. ASSUME NEW c \in Calls, Arrive(c) PROVE Typed'
  <2>1. PICK k \in Keys : call' = [call EXCEPT ![c] = [Idle EXCEPT !.at = "reading", !.key = k]]
    BY <1>3 DEF Arrive
  <2>2. call' \in [Calls -> CallStates]
    BY <1>t, <2>1, Figures DEF TypeOK
  <2>3. /\ call'[c].at = "reading" /\ call'[c].key = k
        /\ \A x \in Calls \ {c} : call'[x] = call[x]
    BY <1>t, <2>1 DEF TypeOK, Idle
  <2>4. CallsAreBound'
    BY <1>t, <2>3 DEF CallsAreBound
  <2> QED
    BY <1>3, <1>k, <1>u, <2>2, <2>4 DEF Arrive
<1>4. ASSUME NEW c \in Calls, TurnAway(c) PROVE Typed'
  <2>1. call' \in [Calls -> CallStates] /\ CallsAreBound'
    BY <1>4, Figures, ResetTypes DEF TurnAway, Idle
  <2> QED
    BY <1>4, <1>k, <1>u, <2>1 DEF TurnAway
<1>5. ASSUME NEW c \in Calls, Deny(c) PROVE Typed'
  <2>1. call[c].window \in WindowIds
    BY <1>5, <1>b DEF Deny
  <2>2. window' \in [WindowIds -> Windows]
    BY <1>5, <1>t, <2>1, WindowTypes, WithTypes DEF Deny
  <2>3. call' \in [Calls -> CallStates] /\ CallsAreBound'
    BY <1>5, <2>1, AwaitTypes DEF Deny, Phases
  <2> QED
    BY <1>5, <1>k, <1>u, <2>2, <2>3 DEF Deny
<1>6. ASSUME NEW c \in Calls, ChargeCall(c) PROVE Typed'
  <2>1. call[c].window \in WindowIds
    BY <1>6, <1>b DEF ChargeCall
  <2>2. window' \in [WindowIds -> Windows]
    BY <1>6, <1>t, <2>1, WindowTypes, WithTypes DEF ChargeCall
  <2>3. /\ [call[c] EXCEPT !.at = "retrieving", !.before = WindowOf(c).usage] \in CallStates
    BY <1>t, <2>1, WindowTypes DEF TypeOK, CallStates, Phases
  <2>4. call' \in [Calls -> CallStates]
    BY <1>6, <1>t, <2>3 DEF ChargeCall, TypeOK
  <2>5. /\ call'[c].window = call[c].window /\ call'[c].key = call[c].key
        /\ call'[c].at = "retrieving"
        /\ \A x \in Calls \ {c} : call'[x] = call[x]
    BY <1>6, <1>t DEF ChargeCall, TypeOK, CallStates
  <2>6. CallsAreBound'
    BY <1>t, <2>1, <2>5 DEF CallsAreBound
  <2> QED
    BY <1>6, <1>k, <1>u, <2>2, <2>4, <2>6 DEF ChargeCall
<1>7. ASSUME NEW c \in Calls, NoVersion(c) PROVE Typed'
  <2>1. call' \in [Calls -> CallStates] /\ CallsAreBound'
    BY <1>7, AwaitTypes DEF NoVersion, Phases
  <2> QED
    BY <1>7, <1>k, <1>u, <2>1 DEF NoVersion
<1>8. ASSUME NEW c \in Calls, FindWindow(c) PROVE Typed'
  <2>0. call[c].key \in Keys
    BY <1>8, <1>t DEF FindWindow, CallsAreBound
  <2> DEFINE k == call[c].key
  <2>1. /\ stored' \in Seq(Keys) /\ Len(stored') <= MaxWindows
        /\ windowOf' \in [Keys -> WindowIds \cup {Nothing}]
        /\ windowOf'[k] \in WindowIds /\ StoreIsIndexed'
    <3>1. CASE windowOf[k] = Nothing
      <4>1. PICK w \in WindowIds : OpenWindow(k, w)
        BY <1>8, <3>1 DEF FindWindow, Garbage
      <4> QED
        BY <1>t, <2>0, <4>1, OpenTypes
    <3>2. CASE windowOf[k] # Nothing
      <4>1. stored' = Touched(k) /\ windowOf' = windowOf
        BY <1>8, <3>2 DEF FindWindow
      <4>2. \E i \in DOMAIN stored : stored[i] = k
        BY <1>t, <2>0, <3>2 DEF StoreIsIndexed
      <4>3. /\ stored' \in Seq(Keys) /\ Len(stored') = Len(stored)
            /\ \A x \in Keys : (\E i \in DOMAIN stored : stored[i] = x) =>
                               \E i \in DOMAIN stored' : stored'[i] = x
        BY <1>t, <2>0, <4>1, <4>2, TouchedTypes DEF TypeOK
      <4>4. StoreIsIndexed'
        BY <1>t, <4>1, <4>3 DEF StoreIsIndexed
      <4> QED
        BY <1>t, <2>0, <3>2, <4>1, <4>3, <4>4 DEF TypeOK
    <3> QED
      BY <3>1, <3>2
  <2>2. [call[c] EXCEPT !.at = "waiting", !.window = windowOf'[k]] \in CallStates
    BY <1>t, <2>1 DEF TypeOK, CallStates, Phases
  <2>3. call' = [call EXCEPT ![c] = [call[c] EXCEPT !.at = "waiting", !.window = windowOf'[k]]]
    BY <1>8, <1>t DEF FindWindow, TypeOK, CallStates
  <2>4. call' \in [Calls -> CallStates]
    BY <1>t, <2>2, <2>3 DEF TypeOK
  <2>5. CallsAreBound'
    <3>1. /\ call'[c].window \in WindowIds /\ call'[c].key \in Keys
          /\ \A x \in Calls \ {c} : call'[x] = call[x]
      BY <1>t, <2>0, <2>1, <2>3 DEF TypeOK, CallStates
    <3> QED
      BY <1>t, <3>1 DEF CallsAreBound
  <2>6. window' \in [WindowIds -> Windows] /\ ledger' \in [WindowIds -> Usage]
    BY <1>8, <1>u, CollectTypes DEF FindWindow
  <2> QED
    BY <1>8, <1>t, <2>1, <2>4, <2>5, <2>6 DEF FindWindow, Typed, TypeOK
<1>9. ASSUME NEW c \in Calls, ChargeTokens(c) PROVE Typed'
  <2>1. call[c].window \in WindowIds
    BY <1>9, <1>b DEF ChargeTokens
  <2>2. PICK tokens \in 0 .. MaxAnswer :
          /\ window' = With(c, [WindowOf(c) EXCEPT !.usage.tokens = @ + tokens])
          /\ call' = [call EXCEPT ![c].at = "writing", ![c].tokens = tokens]
    BY <1>9 DEF ChargeTokens
  <2>3. tokens \in Nat
    BY SearchAssumption
  <2>4. window' \in [WindowIds -> Windows]
    BY <1>t, <2>1, <2>2, <2>3, WindowTypes, WithTypes
  <2>5. [call[c] EXCEPT !.at = "writing", !.tokens = tokens] \in CallStates
    BY <1>t, <2>3 DEF TypeOK, CallStates, Phases
  <2>6. call' = [call EXCEPT ![c] = [call[c] EXCEPT !.at = "writing", !.tokens = tokens]]
    BY <1>t, <2>2 DEF TypeOK, CallStates
  <2>7. call' \in [Calls -> CallStates]
    BY <1>t, <2>5, <2>6 DEF TypeOK
  <2>8. /\ call'[c].window = call[c].window /\ call'[c].key = call[c].key
        /\ call'[c].at = "writing"
        /\ \A x \in Calls \ {c} : call'[x] = call[x]
    BY <1>t, <2>6 DEF TypeOK, CallStates
  <2>9. CallsAreBound'
    BY <1>t, <2>1, <2>8 DEF CallsAreBound
  <2> QED
    BY <1>9, <1>k, <1>u, <2>4, <2>7, <2>9 DEF ChargeTokens
<1>10. ASSUME NEW c \in Calls, RowLands(c) PROVE Typed'
  <2>1. call[c].window \in WindowIds
    BY <1>10, <1>b DEF RowLands
  <2>2. With(c, Unlocked(WindowOf(c))) \in [WindowIds -> Windows]
    BY <1>t, <2>1, WindowTypes, WithTypes
  <2>3. (IF call[c].at = "writing" THEN Recorded(c) ELSE ledger) \in [WindowIds -> Usage]
    BY <1>u, <2>1, WindowTypes
  <2>4. window' \in [WindowIds -> Windows] /\ ledger' \in [WindowIds -> Usage]
    BY <1>10, <2>2, <2>3, CollectTypes DEF RowLands
  <2>5. call' \in [Calls -> CallStates] /\ CallsAreBound'
    BY <1>10, FinishTypes DEF RowLands, Outcomes
  <2> QED
    BY <1>10, <1>k, <2>4, <2>5 DEF RowLands
<1>11. ASSUME NEW c \in Calls, ErrorRowLands(c) PROVE Typed'
  <2>1. call' \in [Calls -> CallStates] /\ CallsAreBound'
    BY <1>11, FinishTypes DEF ErrorRowLands, Outcomes
  <2> QED
    BY <1>11, <1>k, <1>u, <2>1 DEF ErrorRowLands
<1>12. ASSUME NEW c \in Calls, HandlerRaises(c) PROVE Typed'
  <2>1. call' \in [Calls -> CallStates] /\ CallsAreBound'
    BY <1>12, Figures, ResetTypes DEF HandlerRaises, Idle
  <2>2. window' \in [WindowIds -> Windows] /\ ledger' \in [WindowIds -> Usage]
    <3>1. CASE call[c].at \in Charged
      <4>1. call[c].window \in WindowIds
        BY <3>1, <1>b DEF Charged
      <4>2. Collect(With(c, Unlocked([WindowOf(c) EXCEPT !.usage = Refunded(c)])), ledger)
        BY <1>12, <3>1 DEF HandlerRaises, Charged
      <4> QED
        BY <1>t, <1>u, <4>1, <4>2, WindowTypes, WithTypes, CollectTypes
    <3>2. CASE call[c].at = "denying"
      <4>1. call[c].window \in WindowIds
        BY <3>2, <1>b
      <4>2. Collect(With(c, Unlocked(WindowOf(c))), ledger)
        BY <1>12, <3>2 DEF HandlerRaises, Charged
      <4> QED
        BY <1>t, <1>u, <4>1, <4>2, WindowTypes, WithTypes, CollectTypes
    <3>3. CASE call[c].at \notin Charged \cup {"denying"}
      <4>1. Collect(window, ledger)
        BY <1>12, <3>3 DEF HandlerRaises, Charged
      <4> QED
        BY <1>u, <4>1, CollectTypes
    <3> QED
      BY <3>1, <3>2, <3>3
  <2> QED
    BY <1>12, <1>k, <2>1, <2>2 DEF HandlerRaises
<1>13. ASSUME NEW c \in Calls, AuditLands(c) \/ AuditFails(c) PROVE Typed'
  <2>1. call' \in [Calls -> CallStates] /\ CallsAreBound'
    BY <1>13, FinishTypes DEF AuditLands, AuditFails, Outcomes
  <2> QED
    BY <1>13, <1>k, <1>u, <2>1 DEF AuditLands, AuditFails
<1>14. ASSUME NEW c \in Calls, Cancel(c) PROVE Typed'
  <2>1. PICK landed \in BOOLEAN :
          /\ Finish(c, "lost", IF landed THEN 1 ELSE 0)
          /\ Collect(IF call[c].at \in Charged \cup {"denying"}
                       THEN With(c, [Unlocked(WindowOf(c)) EXCEPT
                                       !.torn = @ \/ (call[c].at \in Charged /\ ~landed)])
                       ELSE window,
                     IF call[c].at \in Charged /\ landed THEN Recorded(c) ELSE ledger)
    BY <1>14 DEF Cancel
  <2>2. call' \in [Calls -> CallStates] /\ CallsAreBound'
    BY <2>1, FinishTypes DEF Outcomes
  <2>3. window' \in [WindowIds -> Windows] /\ ledger' \in [WindowIds -> Usage]
    <3>1. CASE call[c].at \in Charged \cup {"denying"}
      <4>1. call[c].window \in WindowIds
        BY <3>1, <1>b DEF Charged
      <4>2. With(c, [Unlocked(WindowOf(c)) EXCEPT
                       !.torn = @ \/ (call[c].at \in Charged /\ ~landed)])
              \in [WindowIds -> Windows]
        BY <1>t, <4>1, WindowTypes, WithTypes
      <4>3. (IF call[c].at \in Charged /\ landed THEN Recorded(c) ELSE ledger)
              \in [WindowIds -> Usage]
        BY <1>u, <4>1, WindowTypes
      <4> QED
        BY <2>1, <3>1, <4>2, <4>3, CollectTypes
    <3>2. CASE call[c].at \notin Charged \cup {"denying"}
      BY <1>u, <2>1, <3>2, CollectTypes
    <3> QED
      BY <3>1, <3>2
  <2> QED
    BY <1>14, <1>k, <2>2, <2>3 DEF Cancel
<1> QED
  BY <1>1, <1>2, <1>3, <1>4, <1>5, <1>6, <1>7, <1>8, <1>9, <1>10, <1>11, <1>12, <1>13, <1>14
     DEF Next, Acquire, Resume

LEMMA Typing == Spec => []Typed
<1>1. ASSUME Init PROVE Typed
  <2>1. 0 <= MaxWindows /\ <<>> \in Seq(Keys) /\ Len(<<>>) = 0
    BY SearchAssumption
  <2>2. TypeOK
    BY <1>1, <2>1, Figures DEF Init, TypeOK
  <2>3. \A c \in Calls : call[c].at = "idle" /\ call[c].window = Nothing
    BY <1>1 DEF Init, Idle
  <2>4. \A k \in Keys : windowOf[k] = Nothing
    BY <1>1 DEF Init
  <2> QED
    BY <2>2, <2>3, <2>4 DEF Typed, StoreIsIndexed, CallsAreBound
<1> QED
  BY <1>1, TypedStep, PTL DEF Spec

\* The store keeps its bound and everything its shape, whatever is evicted,
\* refunded or collected (KbSearchBudgetStore.window_for).
THEOREM SearchTypes == Spec => []TypeOK
<1>1. Typed => TypeOK
  BY DEF Typed
<1> QED
  BY <1>1, Typing, PTL
------------------------------------------------------------------------------
\* What a window may show to key k.
Within(k, u) == /\ u.requests <= MaxRequests[k]
                /\ MaxTokens[k] > 0 => u.tokens < MaxTokens[k] + MaxAnswer
                /\ MaxTokens[k] = 0 => u.tokens = 0

Uses(k, w) == windowOf[k] = w \/ \E c \in Calls : call[c].window = w /\ call[c].key = k

Holding == {"denying", "retrieving", "writing"}

\* Every window object is used by one key, within its caps; objects nobody uses
\* are new; a call that has charged holds the lock, and what it charged, and the
\* meters it would restore, are within the caps.
WindowsAreInOrder ==
    /\ \A w \in WindowIds : \A k, j \in Keys : Uses(k, w) /\ Uses(j, w) => k = j
    /\ \A w \in Garbage : window[w] = NewWindow
    /\ \A w \in WindowIds : \A k \in Keys : Uses(k, w) => Within(k, window[w].usage)
    /\ \A c \in Calls :
          /\ call[c].at \in Holding => WindowOf(c).lock = c
          /\ call[c].at \in Charged => Within(call[c].key, call[c].before)
          /\ call[c].at = "retrieving" => WindowOf(c).usage.tokens < MaxTokens[call[c].key]
    /\ \A c \in Calls : call[c].window # Nothing =>
          call[c].at \in {"waiting", "denying", "retrieving", "writing"}

------------------------------------------------------------------------------
LEMMA NothingIsNoWindow == Nothing \notin WindowIds /\ Nothing \notin Calls
  BY SearchAssumption

\* The window objects after a step of call c that leaves its own in state s.
WindowsAfter(c, s) ==
    \A w \in WindowIds : window'[w] = IF w \in Garbage' THEN NewWindow
                                      ELSE IF w = call[c].window THEN s ELSE window[w]

\* A step of call c that opens no window keeps the windows in order.
LEMMA CallStep ==
    ASSUME Typed, WindowsAreInOrder, NEW c \in Calls, NEW s,
           windowOf' = windowOf, \A x \in Calls \ {c} : call'[x] = call[x],
           call'[c].window # Nothing => /\ call'[c].window = call[c].window
                                        /\ call'[c].key = call[c].key
                                        /\ call'[c].at \in {"waiting"} \cup Holding,
           WindowsAfter(c, s),
           call[c].window # Nothing => /\ WindowOf(c).lock \in {c, Nothing}
                                       /\ Within(call[c].key, s.usage),
           call'[c].at \in Holding => call'[c].window # Nothing /\ s.lock = c,
           call'[c].at \in Charged => Within(call'[c].key, call'[c].before),
           call'[c].at = "retrieving" => s.usage.tokens < MaxTokens[call'[c].key]
    PROVE  WindowsAreInOrder'
<1> USE NothingIsNoWindow
<1>1. \A k \in Keys, w \in WindowIds : Uses(k, w)' => Uses(k, w) /\ w \notin Garbage'
  BY DEF Uses, Garbage
<1>2. \A w \in WindowIds : \A k, j \in Keys : Uses(k, w)' /\ Uses(j, w)' => k = j
  BY <1>1 DEF WindowsAreInOrder
<1>3. \A w \in Garbage' : window'[w] = NewWindow
  BY DEF WindowsAfter, Garbage
<1>4. ASSUME NEW w \in WindowIds, NEW k \in Keys, Uses(k, w)'
      PROVE  Within(k, window'[w].usage)
  <2>1. Uses(k, w) /\ w \notin Garbage'
    BY <1>1, <1>4
  <2>2. CASE w = call[c].window
    <3>1. call[c].key \in Keys /\ Uses(call[c].key, w)
      BY <2>2 DEF Typed, CallsAreBound, Uses
    <3>2. k = call[c].key
      BY <2>1, <3>1 DEF WindowsAreInOrder
    <3> QED
      BY <2>1, <2>2, <3>2 DEF WindowsAfter
  <2>3. CASE w # call[c].window
    BY <2>1, <2>3 DEF WindowsAfter, WindowsAreInOrder
  <2> QED
    BY <2>2, <2>3
\* Another call that holds a lock holds that of another window.
<1>5. ASSUME NEW x \in Calls \ {c}, call[x].at \in Holding
      PROVE  window'[call[x].window] = WindowOf(x)
  <2>1. call[x].window \in WindowIds /\ WindowOf(x).lock = x
    BY <1>5 DEF Typed, CallsAreBound, WindowsAreInOrder, Holding
  <2>2. call[x].window # call[c].window
    BY <2>1 DEF WindowOf
  <2>3. call[x].window \notin Garbage'
    BY DEF Garbage
  <2> QED
    BY <2>1, <2>2, <2>3 DEF WindowsAfter, WindowOf
<1>6. ASSUME NEW x \in Calls \ {c}
      PROVE  /\ call'[x].at \in Holding => WindowOf(x)'.lock = x
             /\ call'[x].at \in Charged => Within(call'[x].key, call'[x].before)
             /\ call'[x].at = "retrieving" => WindowOf(x)'.usage.tokens < MaxTokens[call'[x].key]
  BY <1>5, <1>6 DEF WindowOf, WindowsAreInOrder, Holding
<1>7. /\ call'[c].at \in Holding => WindowOf(c)' = s
      /\ call'[c].at = "retrieving" => call'[c].at \in Holding
  <2>1. ASSUME call'[c].at \in Holding PROVE WindowOf(c)' = s
    <3>1. call'[c].window = call[c].window /\ call[c].window \in WindowIds
      BY <2>1 DEF Typed, TypeOK, CallStates
    <3>2. call[c].window \notin Garbage'
      BY <3>1 DEF Garbage
    <3> QED
      BY <3>1, <3>2 DEF WindowsAfter, WindowOf
  <2> QED
    BY <2>1 DEF Holding
<1>8. \A x \in Calls : call'[x].window # Nothing =>
          call'[x].at \in {"waiting", "denying", "retrieving", "writing"}
  BY DEF WindowsAreInOrder, Holding
<1>9. \A x \in Calls :
        /\ call'[x].at \in Holding => WindowOf(x)'.lock = x
        /\ call'[x].at \in Charged => Within(call'[x].key, call'[x].before)
        /\ call'[x].at = "retrieving" => WindowOf(x)'.usage.tokens < MaxTokens[call'[x].key]
  BY <1>6, <1>7
<1> QED
  BY <1>2, <1>3, <1>4, <1>8, <1>9 DEF WindowsAreInOrder

\* A step that drops no reference makes no garbage.
LEMMA NothingDropped ==
    ASSUME Typed, WindowsAreInOrder, NEW c \in Calls, NEW s, windowOf' = windowOf,
           \A x \in Calls : call'[x].window = call[x].window,
           IF call[c].window = Nothing THEN window' = window ELSE window' = With(c, s)
    PROVE  WindowsAfter(c, s)
<1>1. Garbage' = Garbage
  BY DEF Garbage
<1>2. call[c].window \notin Garbage
  BY DEF Garbage
<1>3. window \in [WindowIds -> Windows]
  BY DEF Typed, TypeOK
<1>4. ASSUME NEW w \in WindowIds
      PROVE  window'[w] = IF w \in Garbage' THEN NewWindow
                          ELSE IF w = call[c].window THEN s ELSE window[w]
  BY <1>1, <1>2, <1>3, NothingIsNoWindow DEF With, WindowsAreInOrder
<1> QED
  BY <1>4 DEF WindowsAfter

\* A step of call c that may drop one.
LEMMA Collected ==
    ASSUME Typed, NEW c \in Calls, NEW s, NEW rows,
           Collect(With(c, s), rows) \/ (s = WindowOf(c) /\ Collect(window, rows))
    PROVE  WindowsAfter(c, s)
  BY DEF Collect, With, WindowsAfter, WindowOf, Typed, TypeOK

LEMMA OrderStep == Typed /\ Typed' /\ WindowsAreInOrder /\ [Next]_vars => WindowsAreInOrder'
<1> SUFFICES ASSUME Typed, Typed', WindowsAreInOrder, [Next]_vars PROVE WindowsAreInOrder'
  OBVIOUS
<1> USE NothingIsNoWindow
<1>f. \A c \in Calls : call[c] \in CallStates /\ call'[c] \in CallStates
  BY DEF Typed, TypeOK
<1>1. CASE UNCHANGED vars
  BY <1>1 DEF vars, WindowsAreInOrder, Uses, Garbage, WindowOf
<1>2. CASE FirstActivation
  BY <1>2 DEF FirstActivation, WindowsAreInOrder, Uses, Garbage, WindowOf
\* Steps of a call that has no window.
<1>a. ASSUME NEW c \in Calls, call[c].window = Nothing, call'[c].window = Nothing,
             call'[c].at \notin Holding, \A x \in Calls \ {c} : call'[x] = call[x],
             UNCHANGED <<windowOf, window>>
      PROVE  WindowsAreInOrder'
  <2>1. WindowsAfter(c, NewWindow)
    BY <1>a, NothingDropped
  <2> QED
    BY <1>a, <2>1, CallStep DEF Holding, Charged
<1>i. \A c \in Calls : call[c].at \in {"idle", "reading", "erring", "auditing"} =>
                       call[c].window = Nothing
  BY DEF WindowsAreInOrder
\* A call that ends or goes to its audit.
<1>3. ASSUME NEW c \in Calls, Arrive(c) PROVE WindowsAreInOrder'
  <2>1. /\ call[c].window = Nothing /\ call'[c].window = Nothing /\ call'[c].at = "reading"
        /\ \A x \in Calls \ {c} : call'[x] = call[x]
    BY <1>3, <1>i DEF Arrive, Typed, TypeOK, Idle
  <2> QED
    BY <1>3, <1>a, <2>1 DEF Arrive, Holding
<1>4. ASSUME NEW c \in Calls, TurnAway(c) PROVE WindowsAreInOrder'
  <2>1. /\ call[c].window = Nothing /\ call'[c].window = Nothing /\ call'[c].at = "auditing"
        /\ \A x \in Calls \ {c} : call'[x] = call[x]
    BY <1>4, <1>i DEF TurnAway, Typed, TypeOK, Idle
  <2> QED
    BY <1>4, <1>a, <2>1 DEF TurnAway, Holding
<1>5. ASSUME NEW c \in Calls, NoVersion(c) PROVE WindowsAreInOrder'
  <2>1. /\ call[c].window = Nothing /\ call'[c].window = Nothing /\ call'[c].at = "erring"
        /\ \A x \in Calls \ {c} : call'[x] = call[x]
    BY <1>5, <1>i DEF NoVersion, Await, Typed, TypeOK, CallStates
  <2> QED
    BY <1>5, <1>a, <2>1 DEF NoVersion, Holding
<1>n. ASSUME NEW c \in Calls, NEW o, NEW n, Finish(c, o, n)
      PROVE  /\ call'[c].window = Nothing /\ call'[c].at = "idle"
             /\ \A x \in Calls \ {c} : call'[x] = call[x]
  BY <1>n DEF Finish, Typed, TypeOK, Idle
<1>6. ASSUME NEW c \in Calls, ErrorRowLands(c) \/ AuditLands(c) \/ AuditFails(c)
      PROVE  WindowsAreInOrder'
  <2>1. PICK o, n : Finish(c, o, n)
    BY <1>6 DEF ErrorRowLands, AuditLands, AuditFails
  <2>2. call[c].window = Nothing
    BY <1>6, <1>i DEF ErrorRowLands, AuditLands, AuditFails
  <2>3. UNCHANGED <<windowOf, window>>
    BY <1>6 DEF ErrorRowLands, AuditLands, AuditFails
  <2> QED
    BY <1>a, <1>n, <2>1, <2>2, <2>3 DEF Holding
\* The call's own window, as the invariant knows it.
<1>w. ASSUME NEW c \in Calls, call[c].at \in {"waiting"} \cup Holding
      PROVE  /\ call[c].window \in WindowIds /\ call[c].window # Nothing /\ call[c].key \in Keys
             /\ WindowOf(c) \in Windows
             /\ Within(call[c].key, WindowOf(c).usage)
             /\ call[c].at \in Holding => WindowOf(c).lock = c
  <2>1. call[c].window \in WindowIds /\ call[c].window # Nothing /\ call[c].key \in Keys
    BY <1>w DEF Typed, CallsAreBound, Holding
  <2>2. Uses(call[c].key, call[c].window)
    BY <2>1 DEF Uses
  <2> QED
    BY <2>1, <2>2 DEF WindowsAreInOrder, WindowOf, Typed, TypeOK
<1>p. \A k \in Keys : MaxRequests[k] \in Nat /\ MaxTokens[k] \in Nat /\ MaxAnswer \in Nat
  BY SearchAssumption
<1>7. ASSUME NEW c \in Calls, Deny(c) PROVE WindowsAreInOrder'
  <2>1. /\ call'[c].window = call[c].window /\ call'[c].key = call[c].key
        /\ call'[c].at = "denying"
        /\ \A x \in Calls \ {c} : call'[x] = call[x]
    BY <1>7, <1>f DEF Deny, Await, Typed, TypeOK, CallStates
  <2>2. WindowOf(c).lock = Nothing /\ Locked(c).lock = c /\ Locked(c).usage = WindowOf(c).usage
    BY <1>7, <1>w DEF Deny, LockFree, Locked, Windows
  <2>3. window' = With(c, Locked(c)) /\ windowOf' = windowOf
    BY <1>7 DEF Deny
  <2>4. WindowsAfter(c, Locked(c))
    BY <1>7, <1>w, <2>1, <2>3, NothingDropped DEF Deny
  <2> QED
    BY <1>7, <1>w, <2>1, <2>2, <2>3, <2>4, CallStep DEF Deny, Holding, Charged
<1>8. ASSUME NEW c \in Calls, ChargeCall(c) PROVE WindowsAreInOrder'
  <2> DEFINE s == [Locked(c) EXCEPT !.usage.requests = @ + 1]
             u == WindowOf(c).usage
             k == call[c].key
  <2>1. /\ call'[c].window = call[c].window /\ call'[c].key = k
        /\ call'[c].at = "retrieving" /\ call'[c].before = u
        /\ \A x \in Calls \ {c} : call'[x] = call[x]
    BY <1>8, <1>f DEF ChargeCall, Typed, TypeOK, CallStates
  <2>2. /\ WindowOf(c).lock = Nothing /\ s.lock = c /\ u \in Usage
        /\ s.usage.requests = u.requests + 1 /\ s.usage.tokens = u.tokens
    BY <1>8, <1>w DEF ChargeCall, LockFree, Locked, Windows, Usage
  <2>3. BudgetOpen(k, u) /\ k \in Keys /\ Within(k, u) /\ call[c].window \in WindowIds
    BY <1>8, <1>w DEF ChargeCall
  <2>4. window' = With(c, s) /\ windowOf' = windowOf
    BY <1>8 DEF ChargeCall
  <2>5. WindowsAfter(c, s)
    BY <2>1, <2>3, <2>4, NothingDropped
  <2> HIDE DEF s, u, k
  <2>6. Within(k, s.usage) /\ s.usage.tokens < MaxTokens[k]
    BY <1>p, <2>2, <2>3 DEF Within, BudgetOpen, Usage
  <2> QED
    BY <2>1, <2>2, <2>3, <2>4, <2>5, <2>6, CallStep DEF Holding, Charged, k
<1>9. ASSUME NEW c \in Calls, ChargeTokens(c) PROVE WindowsAreInOrder'
  <2>1. PICK tokens \in 0 .. MaxAnswer :
          /\ window' = With(c, [WindowOf(c) EXCEPT !.usage.tokens = @ + tokens])
          /\ call' = [call EXCEPT ![c].at = "writing", ![c].tokens = tokens]
    BY <1>9 DEF ChargeTokens
  <2> DEFINE s == [WindowOf(c) EXCEPT !.usage.tokens = @ + tokens]
             u == WindowOf(c).usage
             k == call[c].key
  <2>2. /\ call'[c].window = call[c].window /\ call'[c].key = k
        /\ call'[c].at = "writing" /\ call'[c].before = call[c].before
        /\ \A x \in Calls \ {c} : call'[x] = call[x]
    BY <1>f, <2>1 DEF Typed, TypeOK, CallStates
  <2>3. call[c].at = "retrieving" /\ windowOf' = windowOf
    BY <1>9 DEF ChargeTokens
  <2>4. /\ WindowOf(c).lock = c /\ s.lock = c /\ u \in Usage
        /\ s.usage.requests = u.requests /\ s.usage.tokens = u.tokens + tokens
    BY <2>3, <1>w DEF Holding, Windows, Usage
  <2>5. /\ u.tokens < MaxTokens[k] /\ k \in Keys /\ Within(k, u) /\ call[c].window \in WindowIds
        /\ Within(k, call[c].before)
    BY <1>w, <2>3 DEF WindowsAreInOrder, Holding, Charged
  <2>6. WindowsAfter(c, s)
    BY <2>1, <2>2, <2>3, <2>5, NothingDropped
  <2> HIDE DEF s, u, k
  <2>7. Within(k, s.usage)
    BY <1>p, <2>4, <2>5 DEF Within, Usage
  <2> QED
    BY <2>2, <2>3, <2>4, <2>5, <2>6, <2>7, CallStep DEF Holding, k
\* A call that leaves its window in state s and lets it go.
<1>g. ASSUME NEW c \in Calls, NEW s, call'[c].window = Nothing,
             call'[c].at \in {"idle", "auditing"}, \A x \in Calls \ {c} : call'[x] = call[x],
             windowOf' = windowOf, WindowsAfter(c, s),
             call[c].at \in Holding, Within(call[c].key, s.usage)
      PROVE  WindowsAreInOrder'
  BY <1>g, <1>w, CallStep DEF Holding, Charged
\* The same for a call that leaves its window as it is.
<1>h. ASSUME NEW c \in Calls, NEW rows, call'[c].window = Nothing,
             call'[c].at \in {"idle", "auditing"}, \A x \in Calls \ {c} : call'[x] = call[x],
             windowOf' = windowOf, Collect(window, rows), call[c].at \notin Holding
      PROVE  WindowsAreInOrder'
  <2>1. \A w \in WindowIds : window'[w] = IF w \in Garbage' THEN NewWindow ELSE window[w]
    BY <1>h DEF Collect
  <2>2. ASSUME NEW k \in Keys, NEW w \in WindowIds, Uses(k, w)'
        PROVE  Uses(k, w) /\ w \notin Garbage'
    BY <1>h, <2>2 DEF Uses, Garbage
  <2>3. ASSUME NEW x \in Calls, call'[x].at \in Holding
        PROVE  x # c /\ call'[x] = call[x] /\ WindowOf(x)' = WindowOf(x)
    <3>1. x # c
      BY <1>h, <2>3 DEF Holding
    <3>2. call'[x] = call[x] /\ call[x].window \in WindowIds
      BY <1>h, <1>w, <2>3, <3>1
    <3>3. call[x].window \notin Garbage'
      BY <3>2 DEF Garbage
    <3> QED
      BY <2>1, <3>1, <3>2, <3>3 DEF WindowOf
  <2>4. \A x \in Calls : call'[x].at \in Charged \cup {"retrieving"} => call'[x].at \in Holding
    BY DEF Charged, Holding
  <2>5. \A w \in Garbage' : w \in WindowIds
    BY DEF Garbage
  <2>6. \A x \in Calls :
          /\ call'[x].at \in Holding => WindowOf(x)'.lock = x
          /\ call'[x].at \in Charged => Within(call'[x].key, call'[x].before)
          /\ call'[x].at = "retrieving" => WindowOf(x)'.usage.tokens < MaxTokens[call'[x].key]
    BY <2>3, <2>4 DEF WindowsAreInOrder
  <2>7. \A x \in Calls : call'[x].window # Nothing =>
          call'[x].at \in {"waiting", "denying", "retrieving", "writing"}
    BY <1>h DEF WindowsAreInOrder
  <2> QED
    BY <2>1, <2>2, <2>5, <2>6, <2>7 DEF WindowsAreInOrder
<1>u. ASSUME NEW c \in Calls, call[c].at \in Holding
      PROVE  /\ Unlocked(WindowOf(c)).usage = WindowOf(c).usage
             /\ \A b : [Unlocked(WindowOf(c)) EXCEPT !.torn = b].usage = WindowOf(c).usage
             /\ Unlocked([WindowOf(c) EXCEPT !.usage = Refunded(c)]).usage = call[c].before
  BY <1>u, <1>w DEF Unlocked, Windows, Refunded
<1>10. ASSUME NEW c \in Calls, RowLands(c) PROVE WindowsAreInOrder'
  <2>1. call[c].at \in Holding /\ Finish(c, "settled", 1) /\ windowOf' = windowOf
    BY <1>10 DEF RowLands, Holding
  <2>2. WindowsAfter(c, Unlocked(WindowOf(c)))
    BY <1>10, Collected DEF RowLands
  <2> QED
    BY <1>g, <1>n, <1>u, <1>w, <2>1, <2>2
<1>11. ASSUME NEW c \in Calls, HandlerRaises(c) PROVE WindowsAreInOrder'
  <2>1. /\ call'[c].window = Nothing /\ call'[c].at = "auditing" /\ windowOf' = windowOf
        /\ \A x \in Calls \ {c} : call'[x] = call[x]
    BY <1>11 DEF HandlerRaises, Typed, TypeOK, Idle
  <2>2. CASE call[c].at \in Charged
    <3> DEFINE s == Unlocked([WindowOf(c) EXCEPT !.usage = Refunded(c)])
    <3>1. call[c].at \in Holding /\ Within(call[c].key, s.usage)
      BY <1>u, <2>2 DEF WindowsAreInOrder, Charged, Holding
    <3>2. Collect(With(c, s), ledger)
      BY <1>11, <2>2 DEF HandlerRaises, Charged
    <3> HIDE DEF s
    <3>3. WindowsAfter(c, s)
      BY <3>2, Collected
    <3> QED
      BY <1>g, <2>1, <3>1, <3>3
  <2>3. CASE call[c].at = "denying"
    <3>1. Collect(With(c, Unlocked(WindowOf(c))), ledger)
      BY <1>11, <2>3 DEF HandlerRaises, Charged
    <3>2. WindowsAfter(c, Unlocked(WindowOf(c)))
      BY <3>1, Collected
    <3>3. call[c].at \in Holding
      BY <2>3 DEF Holding
    <3> QED
      BY <1>g, <1>u, <1>w, <2>1, <3>2, <3>3
  <2>4. CASE call[c].at \notin Charged \cup {"denying"}
    <3>1. Collect(window, ledger) /\ call[c].at \notin Holding
      BY <1>11, <2>4 DEF HandlerRaises, Charged, Holding
    <3> QED
      BY <1>h, <2>1, <3>1
  <2> QED
    BY <2>2, <2>3, <2>4
<1>12. ASSUME NEW c \in Calls, Cancel(c) PROVE WindowsAreInOrder'
  <2>1. PICK landed \in BOOLEAN :
          /\ Finish(c, "lost", IF landed THEN 1 ELSE 0)
          /\ Collect(IF call[c].at \in Charged \cup {"denying"}
                       THEN With(c, [Unlocked(WindowOf(c)) EXCEPT
                                       !.torn = @ \/ (call[c].at \in Charged /\ ~landed)])
                       ELSE window,
                     IF call[c].at \in Charged /\ landed THEN Recorded(c) ELSE ledger)
    BY <1>12 DEF Cancel
  <2> DEFINE rows == IF call[c].at \in Charged /\ landed THEN Recorded(c) ELSE ledger
             torn == Unlocked(WindowOf(c)).torn \/ (call[c].at \in Charged /\ ~landed)
             s == [Unlocked(WindowOf(c)) EXCEPT !.torn = torn]
  <2>2. windowOf' = windowOf
    BY <1>12 DEF Cancel
  <2>3. CASE call[c].at \in Charged \cup {"denying"}
    <3>1. call[c].at \in Holding
      BY <2>3 DEF Charged, Holding
    <3>2. Collect(With(c, s), rows)
      BY <2>1, <2>3
    <3>3. s.usage = WindowOf(c).usage
      BY <1>u, <3>1
    <3> HIDE DEF s, rows
    <3>4. WindowsAfter(c, s)
      BY <3>2, Collected
    <3> QED
      BY <1>g, <1>n, <1>w, <2>1, <2>2, <3>1, <3>3, <3>4
  <2>4. CASE call[c].at \notin Charged \cup {"denying"}
    <3>1. Collect(window, rows) /\ call[c].at \notin Holding
      BY <2>1, <2>4 DEF Charged, Holding
    <3> QED
      BY <1>h, <1>n, <2>1, <2>2, <3>1
  <2> QED
    BY <2>3, <2>4
\* The lookup is the one step by which a key or a call gets a window.
<1>13. ASSUME NEW c \in Calls, FindWindow(c) PROVE WindowsAreInOrder'
  <2> DEFINE k == call[c].key
             v == windowOf'[k]
  <2>1. call[c].window = Nothing /\ k \in Keys /\ call[c].at = "reading"
    BY <1>13, <1>i DEF FindWindow, Typed, CallsAreBound
  <2>2. /\ call'[c].window = v /\ call'[c].key = k /\ call'[c].at = "waiting"
        /\ \A x \in Calls \ {c} : call'[x] = call[x]
    BY <1>13, <1>f DEF FindWindow, Typed, TypeOK, CallStates
  <2>3. Collect(window, ledger)
    BY <1>13 DEF FindWindow
  <2>4. \/ windowOf' = windowOf /\ windowOf[k] # Nothing
        \/ /\ v \in Garbage
           /\ \A x \in Keys \ {k} : windowOf'[x] \in {Nothing, windowOf[x]}
    <3>1. CASE windowOf[k] # Nothing
      BY <1>13, <3>1 DEF FindWindow
    <3>2. CASE windowOf[k] = Nothing
      <4>1. PICK w \in Garbage : OpenWindow(k, w)
        BY <1>13, <3>2 DEF FindWindow
      <4>2. windowOf'[k] = w /\ \A x \in Keys \ {k} : windowOf'[x] \in {Nothing, windowOf[x]}
        BY <2>1, <4>1 DEF OpenWindow, Typed, TypeOK
      <4> QED
        BY <4>1, <4>2
    <3> QED
      BY <3>1, <3>2
  <2> HIDE DEF v, k
  \* A window that is used afterwards was used by the same key, or is the new one.
  <2>5. ASSUME NEW j \in Keys, NEW w \in WindowIds, Uses(j, w)'
        PROVE  w \notin Garbage' /\ (Uses(j, w) \/ (j = k /\ w = v /\ v \in Garbage))
    <3>1. w \notin Garbage'
      BY <2>5 DEF Uses, Garbage
    <3>2. CASE windowOf'[j] = w
      BY <2>4, <3>1, <3>2 DEF Uses, v
    <3>3. ASSUME NEW x \in Calls, call'[x].window = w, call'[x].key = j
          PROVE  Uses(j, w) \/ (j = k /\ w = v /\ v \in Garbage)
      <4>1. CASE x # c
        BY <2>2, <3>3, <4>1 DEF Uses
      <4>2. CASE x = c
        BY <2>1, <2>2, <2>4, <3>3, <4>2 DEF Uses, v
      <4> QED
        BY <4>1, <4>2
    <3> QED
      BY <2>5, <3>1, <3>2, <3>3 DEF Uses
  <2>6. \A j \in Keys, w \in Garbage : ~Uses(j, w)
    <3>1. ASSUME NEW j \in Keys, NEW w \in Garbage, Uses(j, w) PROVE FALSE
      BY <3>1 DEF Uses, Garbage
    <3> QED
      BY <3>1
  <2>7. \A w \in WindowIds : \A j, x \in Keys : Uses(j, w)' /\ Uses(x, w)' => j = x
    BY <2>5, <2>6 DEF WindowsAreInOrder
  <2>8. \A w \in Garbage' : window'[w] = NewWindow
    BY <2>3 DEF Collect, Garbage
  <2>9. ASSUME NEW w \in WindowIds, NEW j \in Keys, Uses(j, w)'
        PROVE  Within(j, window'[w].usage)
    <3>1. window'[w] = window[w]
      BY <2>3, <2>5, <2>9 DEF Collect
    <3>2. CASE Uses(j, w)
      BY <3>1, <3>2 DEF WindowsAreInOrder
    <3>3. CASE w \in Garbage
      <4>1. window[w].usage = Unused
        BY <3>3 DEF WindowsAreInOrder, NewWindow
      <4> QED
        BY <1>p, <3>1, <4>1 DEF Within, Unused
    <3> QED
      BY <2>5, <2>9, <3>2, <3>3
  <2>10. ASSUME NEW x \in Calls, call'[x].at \in Holding
         PROVE  x # c /\ call'[x] = call[x] /\ WindowOf(x)' = WindowOf(x)
    <3>1. x # c
      BY <2>2, <2>10 DEF Holding
    <3>2. call'[x] = call[x] /\ call[x].window \in WindowIds
      BY <1>w, <2>2, <2>10, <3>1
    <3>3. call[x].window \notin Garbage'
      BY <3>2 DEF Garbage
    <3> QED
      BY <2>3, <3>1, <3>2, <3>3 DEF WindowOf, Collect
  <2>11. \A x \in Calls : call'[x].at \in Charged \cup {"retrieving"} => call'[x].at \in Holding
    BY DEF Charged, Holding
  <2>12. \A x \in Calls :
           /\ call'[x].at \in Holding => WindowOf(x)'.lock = x
           /\ call'[x].at \in Charged => Within(call'[x].key, call'[x].before)
           /\ call'[x].at = "retrieving" => WindowOf(x)'.usage.tokens < MaxTokens[call'[x].key]
    BY <2>10, <2>11 DEF WindowsAreInOrder
  <2>13. \A x \in Calls : call'[x].window # Nothing =>
           call'[x].at \in {"waiting", "denying", "retrieving", "writing"}
    BY <2>2 DEF WindowsAreInOrder
  <2> QED
    BY <2>7, <2>8, <2>9, <2>12, <2>13 DEF WindowsAreInOrder
<1> QED
  BY <1>1, <1>2, <1>3, <1>4, <1>5, <1>6, <1>7, <1>8, <1>9, <1>10, <1>11, <1>12, <1>13
     DEF Next, Acquire, Resume

LEMMA OrderInit ==
    ASSUME Init
    PROVE  WindowsAreInOrder
<1>1. /\ \A c \in Calls : call[c].window = Nothing /\ call[c].at = "idle"
      /\ \A k \in Keys : windowOf[k] = Nothing
      /\ \A w \in WindowIds : window[w] = NewWindow
  BY DEF Init, Idle
<1>2. \A w \in WindowIds : \A k \in Keys : ~Uses(k, w)
  BY <1>1, NothingIsNoWindow DEF Uses
<1> QED
  BY <1>1, <1>2 DEF WindowsAreInOrder, Holding, Charged, Garbage

\* However calls of a window interleave, fail, are refunded or cancelled, and
\* whichever windows are evicted, both caps of its key hold: it never shows more
\* requests than its maximum, and only its last answer overdraws the tokens.
THEOREM CapsHold == Spec => []WindowCapsHold
<1>1. Init => WindowsAreInOrder
  BY OrderInit
<1>2. Typed /\ WindowsAreInOrder => WindowCapsHold
  <2> SUFFICES ASSUME Typed, WindowsAreInOrder, NEW k \in Keys, windowOf[k] # Nothing
               PROVE  Within(k, window[windowOf[k]].usage)
    BY DEF WindowCapsHold, Within
  <2>1. windowOf[k] \in WindowIds /\ Uses(k, windowOf[k])
    BY DEF Typed, TypeOK, Uses
  <2> QED
    BY <2>1 DEF WindowsAreInOrder
<1> QED
  BY <1>1, <1>2, OrderStep, Typing, PTL DEF Spec
------------------------------------------------------------------------------
\* The rows of a call, while it runs and after it ended.
RowsAreCounted ==
    \A c \in Calls :
        /\ call[c].at # "idle" => call[c].rows = 0
        /\ call[c].at = "idle" => call[c].rows \in {0, 1}
        /\ call[c].at = "idle" /\ call[c].outcome = "settled" => call[c].rows = 1

LEMMA RowsStep == Typed /\ RowsAreCounted /\ [Next]_vars => RowsAreCounted'
<1> SUFFICES ASSUME Typed, RowsAreCounted, [Next]_vars PROVE RowsAreCounted'
  OBVIOUS
<1>f. call \in [Calls -> CallStates]
  BY DEF Typed, TypeOK
\* A step of c that writes no row, and one that ends the call.
<1>a. ASSUME NEW c \in Calls, \A x \in Calls \ {c} : call'[x] = call[x],
             call'[c].at # "idle", call'[c].rows = 0
      PROVE  RowsAreCounted'
  BY <1>a DEF RowsAreCounted
<1>b. ASSUME NEW c \in Calls, NEW o \in Outcomes, NEW n \in {0, 1}, Finish(c, o, n),
             call[c].at # "idle", o = "settled" => n = 1
      PROVE  RowsAreCounted'
  <2>1. /\ call'[c].at = "idle" /\ call'[c].outcome = o /\ call'[c].rows = call[c].rows + n
        /\ \A x \in Calls \ {c} : call'[x] = call[x]
    BY <1>b, <1>f DEF Finish, Idle
  <2>2. call[c].rows = 0
    BY <1>b DEF RowsAreCounted
  <2> QED
    BY <1>b, <2>1, <2>2 DEF RowsAreCounted
<1>1. CASE UNCHANGED vars \/ FirstActivation
  BY <1>1 DEF vars, FirstActivation, RowsAreCounted
<1>2. ASSUME NEW c \in Calls, Arrive(c) \/ TurnAway(c) \/ HandlerRaises(c) PROVE RowsAreCounted'
  <2>1. /\ \A x \in Calls \ {c} : call'[x] = call[x]
        /\ call'[c].at \in {"reading", "auditing"} /\ call'[c].rows = 0
    BY <1>2, <1>f DEF Arrive, TurnAway, HandlerRaises, Idle
  <2> QED
    BY <1>a, <2>1
<1>c. ASSUME NEW c \in Calls, call[c].at # "idle", \A x \in Calls \ {c} : call'[x] = call[x],
             call'[c].at # "idle", call'[c].rows = call[c].rows
      PROVE  RowsAreCounted'
  BY <1>c DEF RowsAreCounted
<1>3. ASSUME NEW c \in Calls, Deny(c) \/ NoVersion(c) PROVE RowsAreCounted'
  BY <1>3, <1>c, <1>f DEF Deny, NoVersion, Await, CallStates
<1>7. ASSUME NEW c \in Calls, ChargeCall(c) PROVE RowsAreCounted'
  BY <1>7, <1>c, <1>f DEF ChargeCall, CallStates
<1>8. ASSUME NEW c \in Calls, FindWindow(c) PROVE RowsAreCounted'
  BY <1>8, <1>c, <1>f DEF FindWindow, CallStates
<1>9. ASSUME NEW c \in Calls, ChargeTokens(c) PROVE RowsAreCounted'
  <2>1. PICK tokens : call' = [call EXCEPT ![c].at = "writing", ![c].tokens = tokens]
    BY <1>9 DEF ChargeTokens
  <2> QED
    BY <1>9, <1>c, <1>f, <2>1 DEF ChargeTokens, CallStates
<1>4. ASSUME NEW c \in Calls, RowLands(c) \/ ErrorRowLands(c) \/ AuditLands(c)
      PROVE  RowsAreCounted'
  BY <1>4, <1>b DEF RowLands, ErrorRowLands, AuditLands, Outcomes
<1>5. ASSUME NEW c \in Calls, AuditFails(c) PROVE RowsAreCounted'
  BY <1>5, <1>b DEF AuditFails, Outcomes
<1>6. ASSUME NEW c \in Calls, Cancel(c) PROVE RowsAreCounted'
  <2>1. PICK n \in {0, 1} : Finish(c, "lost", n)
    <3>1. PICK landed \in BOOLEAN : Finish(c, "lost", IF landed THEN 1 ELSE 0)
      BY <1>6 DEF Cancel
    <3>2. (IF landed THEN 1 ELSE 0) \in {0, 1}
      OBVIOUS
    <3> QED
      BY <3>1, <3>2
  <2> QED
    BY <1>6, <1>b, <2>1 DEF Cancel, Outcomes
<1> QED
  BY <1>1, <1>2, <1>3, <1>4, <1>5, <1>6, <1>7, <1>8, <1>9 DEF Next, Acquire, Resume

\* _ledgered, LedgeredToolError and the schema middleware together: a call that
\* ended has one row, and none only if its audit failed or it was cancelled.
THEOREM OneRowEach == Spec => []OneRowPerCall
<1>1. Init => RowsAreCounted
  BY DEF Init, RowsAreCounted, Idle
<1>2. RowsAreCounted => OneRowPerCall
  BY DEF RowsAreCounted, OneRowPerCall
<1> QED
  BY <1>1, <1>2, RowsStep, Typing, PTL DEF Spec
------------------------------------------------------------------------------
\* Usage u against the rows of a window.
Agrees(u, rows, torn) == (~torn => u = rows) /\ u.requests >= rows.requests

TokensCharged(c) == IF call[c].at = "writing" THEN call[c].tokens ELSE 0

\* The lock of a window is held by a call that uses it; what a charge under way
\* would restore, or else the usage itself, is what the rows say.
Balanced(w) ==
    LET l == window[w].lock
    IN  /\ l # Nothing => call[l].at \in Holding /\ call[l].window = w
        /\ IF l # Nothing /\ call[l].at \in Charged
             THEN /\ Agrees(call[l].before, ledger[w], window[w].torn)
                  /\ window[w].usage.requests = call[l].before.requests + 1
                  /\ window[w].usage.tokens = call[l].before.tokens + TokensCharged(l)
             ELSE Agrees(window[w].usage, ledger[w], window[w].torn)

MetersAreBalanced == \A w \in WindowIds : Balanced(w)

LEMMA NewIsBalanced ==
    ASSUME NEW w, window[w] = NewWindow, ledger[w] = Unused
    PROVE  Balanced(w)
  BY DEF Balanced, NewWindow, Unused, Agrees

\* A step of call c leaves the windows it does not use as they are, or collects them.
LEMMA BalancedStep ==
    ASSUME Typed, MetersAreBalanced, NEW c \in Calls, \A x \in Calls \ {c} : call'[x] = call[x],
           \A w \in WindowIds :
             \/ window'[w] = NewWindow /\ ledger'[w] = Unused
             \/ w # call[c].window /\ window'[w] = window[w] /\ ledger'[w] = ledger[w]
             \/ Balanced(w)'
    PROVE  MetersAreBalanced'
<1> SUFFICES ASSUME NEW w \in WindowIds PROVE Balanced(w)'
  BY DEF MetersAreBalanced
<1>1. CASE window'[w] = NewWindow /\ ledger'[w] = Unused
  BY <1>1 DEF Balanced, NewWindow, Unused, Agrees
<1>2. CASE w # call[c].window /\ window'[w] = window[w] /\ ledger'[w] = ledger[w]
  <2> DEFINE l == window[w].lock
  <2>1. l \in Calls \cup {Nothing} /\ Balanced(w)
    BY DEF Typed, TypeOK, Windows, MetersAreBalanced
  <2>2. l # Nothing => l \in Calls \ {c} /\ call'[l] = call[l]
    BY <1>2, <2>1 DEF Balanced
  <2> QED
    BY <1>2, <2>1, <2>2 DEF Balanced, TokensCharged
<1> QED
  BY <1>1, <1>2

\* A call that lets its window go in state s, with these rows.
LEMMA BalancedRelease ==
    ASSUME Typed, MetersAreBalanced, NEW c \in Calls, \A x \in Calls \ {c} : call'[x] = call[x],
           NEW s \in Windows, NEW rows \in [WindowIds -> Usage], Collect(With(c, s), rows),
           call[c].window \in WindowIds,
           \A w \in WindowIds : w # call[c].window => rows[w] = ledger[w],
           s.lock = Nothing, Agrees(s.usage, rows[call[c].window], s.torn)
    PROVE  MetersAreBalanced'
<1>1. ASSUME NEW w \in WindowIds
      PROVE  \/ window'[w] = NewWindow /\ ledger'[w] = Unused
             \/ w # call[c].window /\ window'[w] = window[w] /\ ledger'[w] = ledger[w]
             \/ Balanced(w)'
  <2>1. CASE w \in Garbage'
    BY <2>1 DEF Collect
  <2>2. CASE w \notin Garbage' /\ w # call[c].window
    BY <2>2 DEF Collect, With, Typed, TypeOK
  <2>3. CASE w \notin Garbage' /\ w = call[c].window
    <3>1. window'[w] = s /\ ledger'[w] = rows[w]
      BY <2>3 DEF Collect, With, Typed, TypeOK
    <3> QED
      BY <2>3, <3>1 DEF Balanced
  <2> QED
    BY <2>1, <2>2, <2>3
<1> QED
  BY <1>1, BalancedStep

\* The meters of a call that holds its window.
LEMMA HolderBalanced ==
    ASSUME Typed, WindowsAreInOrder, MetersAreBalanced, NEW c \in Calls, call[c].at \in Holding
    PROVE  /\ call[c].window \in WindowIds /\ c # Nothing
           /\ WindowOf(c) \in Windows /\ WindowOf(c).usage \in Usage /\ WindowOf(c).lock = c
           /\ ledger[call[c].window] \in Usage /\ call[c].before \in Usage /\ call[c].tokens \in Nat
           /\ call[c].at = "denying" =>
                Agrees(WindowOf(c).usage, ledger[call[c].window], WindowOf(c).torn)
           /\ call[c].at \in Charged =>
                /\ Agrees(call[c].before, ledger[call[c].window], WindowOf(c).torn)
                /\ WindowOf(c).usage.requests = call[c].before.requests + 1
                /\ WindowOf(c).usage.tokens = call[c].before.tokens + TokensCharged(c)
<1>1. call[c].window \in WindowIds
  BY DEF Typed, CallsAreBound, Holding
<1>2. /\ WindowOf(c) \in Windows /\ ledger[call[c].window] \in Usage
      /\ call[c].before \in Usage /\ call[c].tokens \in Nat
  BY <1>1 DEF Typed, TypeOK, WindowOf, CallStates
<1>3. WindowOf(c).lock = c /\ c # Nothing /\ Balanced(call[c].window)
  BY <1>1, NothingIsNoWindow DEF WindowsAreInOrder, MetersAreBalanced
<1>4. WindowOf(c).usage \in Usage
  BY <1>2 DEF Windows
<1>5. call[c].at = "denying" => call[c].at \notin Charged
  BY DEF Charged
<1> QED
  BY <1>1, <1>2, <1>3, <1>4, <1>5 DEF Balanced, WindowOf

LEMMA MetersStep ==
    ASSUME Typed, Typed', WindowsAreInOrder, MetersAreBalanced, [Next]_vars
    PROVE  MetersAreBalanced'
<1> USE NothingIsNoWindow
<1>f. /\ call \in [Calls -> CallStates] /\ window \in [WindowIds -> Windows]
      /\ ledger \in [WindowIds -> Usage]
  BY DEF Typed, TypeOK
<1>i. \A c \in Calls : call[c].at \in {"idle", "reading", "erring", "auditing"} =>
                       call[c].window = Nothing
  BY DEF WindowsAreInOrder
\* A step that leaves every window alone, of a call that holds none.
<1>a. ASSUME NEW c \in Calls, \A x \in Calls \ {c} : call'[x] = call[x], call[c].at \notin Holding,
             \A w \in WindowIds : \/ window'[w] = NewWindow /\ ledger'[w] = Unused
                                  \/ window'[w] = window[w] /\ ledger'[w] = ledger[w]
      PROVE  MetersAreBalanced'
  <2> SUFFICES ASSUME NEW w \in WindowIds, window'[w] = window[w], ledger'[w] = ledger[w]
               PROVE  Balanced(w)'
    BY <1>a, BalancedStep
  <2> DEFINE l == window[w].lock
  <2>1. l \in Calls \cup {Nothing} /\ Balanced(w)
    BY <1>f DEF Windows, MetersAreBalanced
  <2>2. l # Nothing => l \in Calls \ {c} /\ call'[l] = call[l]
    BY <1>a, <2>1 DEF Balanced
  <2> QED
    BY <2>1, <2>2 DEF Balanced, TokensCharged
<1>1. ASSUME UNCHANGED vars \/ FirstActivation PROVE MetersAreBalanced'
  BY <1>1 DEF vars, FirstActivation, MetersAreBalanced, Balanced, TokensCharged
<1>2. ASSUME NEW c \in Calls, \/ Arrive(c) \/ TurnAway(c) \/ NoVersion(c) \/ ErrorRowLands(c)
                              \/ AuditLands(c) \/ AuditFails(c)
      PROVE  MetersAreBalanced'
  <2>1. \A x \in Calls \ {c} : call'[x] = call[x]
    BY <1>2, <1>f DEF Arrive, TurnAway, NoVersion, ErrorRowLands, AuditLands, AuditFails, Await,
                      Finish
  <2>2. UNCHANGED <<window, ledger>> /\ call[c].at \notin Holding
    BY <1>2 DEF Arrive, TurnAway, NoVersion, ErrorRowLands, AuditLands, AuditFails, Holding
  <2> QED
    BY <1>a, <2>1, <2>2
<1>3. ASSUME NEW c \in Calls, FindWindow(c) PROVE MetersAreBalanced'
  <2>1. /\ \A x \in Calls \ {c} : call'[x] = call[x]
        /\ call[c].at \notin Holding /\ Collect(window, ledger)
    BY <1>3, <1>f DEF FindWindow, Holding
  <2> QED
    BY <1>a, <2>1 DEF Collect
\* The call takes or keeps the lock; its window is in state s.
<1>w. ASSUME NEW c \in Calls, NEW s \in Windows, call[c].window \in WindowIds,
             window' = With(c, s), ledger' = ledger, \A x \in Calls \ {c} : call'[x] = call[x],
             s.lock = c, call'[c].window = call[c].window, call'[c].at \in Holding,
             IF call'[c].at \in Charged
               THEN /\ Agrees(call'[c].before, ledger[call[c].window], s.torn)
                    /\ s.usage.requests = call'[c].before.requests + 1
                    /\ s.usage.tokens = call'[c].before.tokens + TokensCharged(c)'
               ELSE Agrees(s.usage, ledger[call[c].window], s.torn)
      PROVE  MetersAreBalanced'
  <2>1. window'[call[c].window] = s /\ \A w \in WindowIds : w # call[c].window => window'[w] = window[w]
    BY <1>w, <1>f DEF With
  <2>2. Balanced(call[c].window)'
    BY <1>w, <2>1 DEF Balanced
  <2> QED
    BY <1>w, <2>1, <2>2, BalancedStep
\* A call that waits for its window.
<1>b. ASSUME NEW c \in Calls, call[c].at = "waiting", LockFree(c)
      PROVE  /\ call[c].window \in WindowIds /\ WindowOf(c) \in Windows /\ WindowOf(c).usage \in Usage
             /\ Agrees(WindowOf(c).usage, ledger[call[c].window], WindowOf(c).torn)
             /\ Locked(c) \in Windows /\ Locked(c).lock = c
             /\ Locked(c).usage = WindowOf(c).usage /\ Locked(c).torn = WindowOf(c).torn
  <2>1. call[c].window \in WindowIds
    BY <1>b DEF Typed, CallsAreBound
  <2>2. WindowOf(c) \in Windows /\ WindowOf(c).usage \in Usage /\ Locked(c) \in Windows
    BY <2>1, WindowTypes
  <2>3. Balanced(call[c].window)
    BY <2>1 DEF MetersAreBalanced
  <2>4. Agrees(WindowOf(c).usage, ledger[call[c].window], WindowOf(c).torn)
    BY <1>b, <2>3 DEF Balanced, LockFree, WindowOf
  <2> QED
    BY <2>1, <2>2, <2>4 DEF Locked, Windows
<1>4. ASSUME NEW c \in Calls, Deny(c) PROVE MetersAreBalanced'
  <2>1. /\ call'[c].window = call[c].window /\ call'[c].at = "denying"
        /\ \A x \in Calls \ {c} : call'[x] = call[x]
        /\ window' = With(c, Locked(c)) /\ ledger' = ledger
    BY <1>4, <1>f DEF Deny, Await, CallStates
  <2>2. call'[c].at \in Holding /\ call'[c].at \notin Charged
    BY <2>1 DEF Holding, Charged
  <2> QED
    BY <1>4, <1>b, <1>w, <2>1, <2>2 DEF Deny
<1>5. ASSUME NEW c \in Calls, ChargeCall(c) PROVE MetersAreBalanced'
  <2> DEFINE s == [Locked(c) EXCEPT !.usage.requests = @ + 1]
             u == WindowOf(c).usage
  <2>1. /\ call'[c].window = call[c].window /\ call'[c].at = "retrieving" /\ call'[c].before = u
        /\ \A x \in Calls \ {c} : call'[x] = call[x]
        /\ window' = With(c, s) /\ ledger' = ledger
    BY <1>5, <1>f DEF ChargeCall, CallStates
  <2>2. /\ call[c].window \in WindowIds /\ u \in Usage /\ Locked(c) \in Windows
        /\ Agrees(u, ledger[call[c].window], WindowOf(c).torn)
        /\ Locked(c).lock = c /\ Locked(c).usage = u /\ Locked(c).torn = WindowOf(c).torn
    BY <1>5, <1>b DEF ChargeCall
  <2>3. /\ s \in Windows /\ s.lock = c /\ s.torn = WindowOf(c).torn
        /\ s.usage.requests = u.requests + 1 /\ s.usage.tokens = u.tokens
    BY <2>2 DEF Windows, Usage
  <2>4. call'[c].at \in Holding /\ call'[c].at \in Charged /\ TokensCharged(c)' = 0
    BY <2>1 DEF Holding, Charged, TokensCharged
  <2> HIDE DEF s, u
  <2>5. s.usage.tokens = u.tokens + 0
    BY <2>2, <2>3 DEF Usage
  <2> QED
    BY <1>w, <2>1, <2>2, <2>3, <2>4, <2>5
<1>6. ASSUME NEW c \in Calls, ChargeTokens(c) PROVE MetersAreBalanced'
  <2>1. PICK tokens \in 0 .. MaxAnswer :
          /\ window' = With(c, [WindowOf(c) EXCEPT !.usage.tokens = @ + tokens])
          /\ call' = [call EXCEPT ![c].at = "writing", ![c].tokens = tokens]
    BY <1>6 DEF ChargeTokens
  <2> DEFINE s == [WindowOf(c) EXCEPT !.usage.tokens = @ + tokens]
             u == WindowOf(c).usage
  <2>0. tokens \in Nat /\ call[c].at = "retrieving" /\ ledger' = ledger
    BY <1>6, SearchAssumption DEF ChargeTokens
  <2>2. /\ call'[c].window = call[c].window /\ call'[c].at = "writing"
        /\ call'[c].before = call[c].before /\ call'[c].tokens = tokens
        /\ \A x \in Calls \ {c} : call'[x] = call[x]
    BY <1>f, <2>1 DEF CallStates
  <2>3. /\ call[c].at \in Holding /\ call[c].at \in Charged /\ TokensCharged(c) = 0
        /\ call'[c].at \in Holding /\ call'[c].at \in Charged /\ TokensCharged(c)' = tokens
    BY <2>0, <2>2 DEF Holding, Charged, TokensCharged
  <2>4. /\ call[c].window \in WindowIds /\ WindowOf(c) \in Windows /\ u \in Usage /\ WindowOf(c).lock = c
        /\ call[c].before \in Usage
        /\ Agrees(call[c].before, ledger[call[c].window], WindowOf(c).torn)
        /\ u.requests = call[c].before.requests + 1
        /\ u.tokens = call[c].before.tokens + TokensCharged(c)
    BY <2>3, HolderBalanced
  <2>5. /\ s \in Windows /\ s.lock = c /\ s.torn = WindowOf(c).torn
        /\ s.usage.requests = u.requests /\ s.usage.tokens = u.tokens + tokens
    BY <2>0, <2>4 DEF Windows, Usage
  <2> HIDE DEF s, u
  <2>6. s.usage.tokens = call[c].before.tokens + tokens
    BY <2>0, <2>3, <2>4, <2>5 DEF Usage
  <2>7. window' = With(c, s)
    BY <2>1 DEF s
  <2> QED
    BY <1>w, <2>0, <2>2, <2>3, <2>4, <2>5, <2>6, <2>7
<1>n. ASSUME NEW c \in Calls, NEW o, NEW n, Finish(c, o, n)
      PROVE  \A x \in Calls \ {c} : call'[x] = call[x]
  BY <1>n, <1>f DEF Finish
\* The row of a charged call restores the balance, and so does its refund.
<1>r. ASSUME NEW c \in Calls, call[c].at \in Charged
      PROVE  /\ Recorded(c) \in [WindowIds -> Usage]
             /\ \A w \in WindowIds : w # call[c].window => Recorded(c)[w] = ledger[w]
             /\ call[c].at = "writing" =>
                  Agrees(WindowOf(c).usage, Recorded(c)[call[c].window], WindowOf(c).torn)
             /\ WindowOf(c).usage.requests >= Recorded(c)[call[c].window].requests
             /\ WindowOf(c).usage.requests >= ledger[call[c].window].requests
  <2> DEFINE v == call[c].window
             u == WindowOf(c).usage
             row == Recorded(c)[v]
  <2>1. call[c].at \in Holding
    BY <1>r DEF Charged, Holding
  <2>2. /\ v \in WindowIds /\ u \in Usage /\ ledger[v] \in Usage
        /\ call[c].before \in Usage /\ call[c].tokens \in Nat
        /\ Agrees(call[c].before, ledger[v], WindowOf(c).torn)
        /\ u.requests = call[c].before.requests + 1
        /\ u.tokens = call[c].before.tokens + TokensCharged(c)
    BY <1>r, <2>1, HolderBalanced
  <2>3. Recorded(c) \in [WindowIds -> Usage]
    BY <2>2, WindowTypes
  <2>4. /\ \A w \in WindowIds : w # v => Recorded(c)[w] = ledger[w]
        /\ row.requests = ledger[v].requests + 1 /\ row.tokens = ledger[v].tokens + call[c].tokens
        /\ row \in Usage
    BY <1>f, <2>2, <2>3 DEF Recorded
  <2> HIDE DEF v, u, row
  <2>5. u.requests >= row.requests /\ u.requests >= ledger[v].requests
    BY <2>2, <2>4 DEF Agrees, Usage
  <2>6. ASSUME call[c].at = "writing", ~WindowOf(c).torn PROVE u = row
    <3>1. TokensCharged(c) = call[c].tokens /\ call[c].before = ledger[v]
      BY <2>2, <2>6 DEF TokensCharged, Agrees
    <3>2. u.requests = row.requests /\ u.tokens = row.tokens
      BY <2>2, <2>4, <3>1 DEF Usage
    <3> QED
      BY <2>2, <2>4, <3>2 DEF Usage
  <2> QED
    BY <2>3, <2>4, <2>5, <2>6 DEF Agrees, v, u, row
<1>u. ASSUME NEW c \in Calls, call[c].at \in Holding
      PROVE  /\ Unlocked(WindowOf(c)) \in Windows /\ Unlocked(WindowOf(c)).lock = Nothing
             /\ Unlocked(WindowOf(c)).usage = WindowOf(c).usage
             /\ Unlocked(WindowOf(c)).torn = WindowOf(c).torn
             /\ call[c].window \in WindowIds
  <2>1. WindowOf(c) \in Windows /\ call[c].window \in WindowIds
    BY <1>u, HolderBalanced
  <2> QED
    BY <2>1 DEF Unlocked, Windows
<1>7. ASSUME NEW c \in Calls, RowLands(c) PROVE MetersAreBalanced'
  <2> DEFINE rows == IF call[c].at = "writing" THEN Recorded(c) ELSE ledger
             s == Unlocked(WindowOf(c))
  <2>1. /\ call[c].at \in {"denying", "writing"} /\ Collect(With(c, s), rows)
        /\ \A x \in Calls \ {c} : call'[x] = call[x] /\ call[c].at \in Holding
    BY <1>7, <1>n DEF RowLands, Holding
  <2>2. call[c].at \in Holding /\ (call[c].at = "writing" => call[c].at \in Charged)
    BY <2>1 DEF Holding, Charged
  <2>3. rows \in [WindowIds -> Usage] /\ \A w \in WindowIds : w # call[c].window => rows[w] = ledger[w]
    BY <1>f, <1>r, <2>2
  <2>4. Agrees(s.usage, rows[call[c].window], s.torn)
    BY <1>r, <1>u, <2>1, <2>2, HolderBalanced
  <2>5. s \in Windows /\ s.lock = Nothing /\ call[c].window \in WindowIds
    BY <1>u, <2>2
  <2> HIDE DEF rows, s
  <2> QED
    BY <2>1, <2>3, <2>4, <2>5, BalancedRelease
<1>8. ASSUME NEW c \in Calls, HandlerRaises(c) PROVE MetersAreBalanced'
  <2>1. \A x \in Calls \ {c} : call'[x] = call[x]
    BY <1>8, <1>f DEF HandlerRaises
  <2>2. CASE call[c].at \in Charged
    <3> DEFINE s == Unlocked([WindowOf(c) EXCEPT !.usage = Refunded(c)])
    <3>1. call[c].at \in Holding
      BY <2>2 DEF Charged, Holding
    <3>2. /\ WindowOf(c) \in Windows /\ call[c].window \in WindowIds
          /\ Agrees(call[c].before, ledger[call[c].window], WindowOf(c).torn)
      BY <2>2, <3>1, HolderBalanced
    <3>3. s \in Windows
      BY <3>2, WindowTypes
    <3>4. s.lock = Nothing /\ s.usage = call[c].before /\ s.torn = WindowOf(c).torn
      BY <3>2 DEF Unlocked, Windows, Refunded
    <3>5. Collect(With(c, s), ledger)
      BY <1>8, <2>2 DEF HandlerRaises, Charged
    <3> HIDE DEF s
    <3> QED
      BY <1>f, <2>1, <3>2, <3>3, <3>4, <3>5, BalancedRelease
  <2>3. CASE call[c].at = "denying"
    <3> DEFINE s == Unlocked(WindowOf(c))
    <3>1. call[c].at \in Holding
      BY <2>3 DEF Holding
    <3>2. Collect(With(c, s), ledger)
      BY <1>8, <2>3 DEF HandlerRaises, Charged
    <3>3. /\ s \in Windows /\ s.lock = Nothing /\ call[c].window \in WindowIds
          /\ Agrees(s.usage, ledger[call[c].window], s.torn)
      BY <1>u, <2>3, <3>1, HolderBalanced
    <3> HIDE DEF s
    <3> QED
      BY <1>f, <2>1, <3>2, <3>3, BalancedRelease
  <2>4. CASE call[c].at \notin Charged \cup {"denying"}
    <3>1. Collect(window, ledger) /\ call[c].at \notin Holding
      BY <1>8, <2>4 DEF HandlerRaises, Charged, Holding
    <3> QED
      BY <1>a, <2>1, <3>1 DEF Collect
  <2> QED
    BY <2>2, <2>3, <2>4
<1>9. ASSUME NEW c \in Calls, Cancel(c) PROVE MetersAreBalanced'
  <2>1. PICK landed \in IF call[c].at \in Writing THEN BOOLEAN ELSE {FALSE} :
          /\ Finish(c, "lost", IF landed THEN 1 ELSE 0)
          /\ Collect(IF call[c].at \in Charged \cup {"denying"}
                       THEN With(c, [Unlocked(WindowOf(c)) EXCEPT
                                       !.torn = @ \/ (call[c].at \in Charged /\ ~landed)])
                       ELSE window,
                     IF call[c].at \in Charged /\ landed THEN Recorded(c) ELSE ledger)
    BY <1>9 DEF Cancel
  <2>2. /\ \A x \in Calls \ {c} : call'[x] = call[x]
        /\ landed \in BOOLEAN /\ (landed => call[c].at \in Writing)
    BY <1>n, <2>1
  <2> DEFINE rows == IF call[c].at \in Charged /\ landed THEN Recorded(c) ELSE ledger
             broken == call[c].at \in Charged /\ ~landed
             torn == Unlocked(WindowOf(c)).torn \/ broken
             s == [Unlocked(WindowOf(c)) EXCEPT !.torn = torn]
  <2>3. CASE call[c].at \in Charged \cup {"denying"}
    <3>1. call[c].at \in Holding
      BY <2>3 DEF Charged, Holding
    <3>2. Collect(With(c, s), rows)
      BY <2>1, <2>3
    <3>3. /\ Unlocked(WindowOf(c)) \in Windows /\ Unlocked(WindowOf(c)).lock = Nothing
          /\ Unlocked(WindowOf(c)).usage = WindowOf(c).usage
          /\ Unlocked(WindowOf(c)).torn = WindowOf(c).torn
          /\ call[c].window \in WindowIds
      BY <1>u, <3>1
    <3>4. torn \in BOOLEAN /\ (torn <=> WindowOf(c).torn \/ broken)
      BY <3>3
    <3>5. rows \in [WindowIds -> Usage] /\ \A w \in WindowIds : w # call[c].window => rows[w] = ledger[w]
      BY <1>f, <1>r
    <3>6. Agrees(WindowOf(c).usage, rows[call[c].window], torn)
      <4>1. CASE call[c].at = "denying"
        <5>1. rows = ledger /\ ~broken
          BY <4>1 DEF Charged
        <5> HIDE DEF rows, torn, broken
        <5> QED
          BY <3>1, <3>4, <4>1, <5>1, HolderBalanced DEF Agrees
      <4>2. CASE call[c].at \in Charged /\ landed
        <5>1. call[c].at = "writing" /\ rows = Recorded(c) /\ ~broken
          BY <2>2, <4>2 DEF Charged, Writing
        <5> HIDE DEF rows, torn, broken
        <5> QED
          BY <1>r, <3>4, <4>2, <5>1 DEF Agrees
      <4>3. CASE call[c].at \in Charged /\ ~landed
        <5>1. rows = ledger /\ broken
          BY <4>3
        <5> HIDE DEF rows, torn, broken
        <5> QED
          BY <1>r, <3>4, <4>3, <5>1 DEF Agrees
      <4> QED
        BY <2>3, <4>1, <4>2, <4>3
    <3> HIDE DEF rows, torn, broken
    <3>7. s \in Windows /\ s.lock = Nothing /\ s.usage = WindowOf(c).usage /\ s.torn = torn
      BY <3>3, <3>4 DEF Windows
    <3> HIDE DEF s
    <3> QED
      BY <2>2, <3>2, <3>3, <3>5, <3>6, <3>7, BalancedRelease
  <2>4. CASE call[c].at \notin Charged \cup {"denying"}
    <3>1. Collect(window, ledger) /\ call[c].at \notin Holding
      BY <2>1, <2>4 DEF Charged, Holding
    <3> QED
      BY <1>a, <2>2, <3>1 DEF Collect
  <2> QED
    BY <2>3, <2>4
<1> QED
  BY <1>1, <1>2, <1>3, <1>4, <1>5, <1>6, <1>7, <1>8, <1>9 DEF Next, Acquire, Resume

\* Whatever fails, is refunded, cancelled or evicted: a window nobody holds is charged
\* for exactly the rows it has, unless a cancelled call tore it, and never for less.
THEOREM MetersMatch == Spec => []MetersMatchLedger
<1>1. Init => WindowsAreInOrder /\ MetersAreBalanced
  BY OrderInit, NewIsBalanced DEF Init, MetersAreBalanced
<1>2. Typed /\ MetersAreBalanced => MetersMatchLedger
  <2> SUFFICES ASSUME Typed, MetersAreBalanced, NEW w \in WindowIds
               PROVE  /\ window[w].lock = Nothing /\ ~window[w].torn => window[w].usage = ledger[w]
                      /\ window[w].usage.requests >= ledger[w].requests
    BY DEF MetersMatchLedger
  <2> DEFINE l == window[w].lock
  <2>1. Balanced(w) /\ l \in Calls \cup {Nothing} /\ ledger[w] \in Usage
    BY DEF MetersAreBalanced, Typed, TypeOK, Windows
  <2>2. l \in Calls => call[l].before \in Usage
    BY DEF Typed, TypeOK, CallStates
  <2> QED
    BY <2>1, <2>2 DEF Balanced, Agrees, Usage
<1> QED
  BY <1>1, <1>2, OrderStep, MetersStep, Typing, PTL DEF Spec

\* A step charges a window that nobody holds only if its budget is open.
LEMMA SpentStep ==
    ASSUME Typed, WindowsAreInOrder, [Next]_vars, NEW k \in Keys, NEW w \in WindowIds,
           windowOf[k] = w, windowOf'[k] = w, window[w].lock = Nothing,
           ~BudgetOpen(k, window[w].usage)
    PROVE  window'[w].usage = window[w].usage
<1> USE NothingIsNoWindow
<1>f. window \in [WindowIds -> Windows]
  BY DEF Typed, TypeOK
<1>g. w \notin Garbage'
  BY DEF Garbage
<1>h. \A c \in Calls : call[c].at \in Holding => call[c].window # w
  BY DEF WindowsAreInOrder, WindowOf
<1>1. CASE UNCHANGED window
  BY <1>1
<1>2. ASSUME NEW c \in Calls, NEW rows, Collect(window, rows)
      PROVE  window'[w] = window[w]
  BY <1>2, <1>g DEF Collect
<1>3. ASSUME NEW c \in Calls, NEW s, NEW rows, Collect(With(c, s), rows), call[c].at \in Holding
      PROVE  window'[w] = window[w]
  BY <1>3, <1>f, <1>g, <1>h DEF Collect, With
<1>4. ASSUME NEW c \in Calls, Deny(c)
      PROVE  window'[w].usage = window[w].usage
  BY <1>4, <1>f DEF Deny, With, Locked, WindowOf, Windows
<1>5. ASSUME NEW c \in Calls, ChargeCall(c)
      PROVE  window'[w].usage = window[w].usage
  <2>1. call[c].window # w
    <3> SUFFICES ASSUME call[c].window = w PROVE FALSE
      OBVIOUS
    <3>1. call[c].key \in Keys
      BY DEF Typed, CallsAreBound
    <3>2. Uses(call[c].key, w) /\ Uses(k, w)
      BY <3>1 DEF Uses
    <3>3. call[c].key = k
      BY <3>1, <3>2 DEF WindowsAreInOrder
    <3> QED
      BY <1>5, <3>3 DEF ChargeCall, WindowOf
  <2> QED
    BY <1>5, <1>f, <2>1 DEF ChargeCall, With
<1>6. ASSUME NEW c \in Calls, ChargeTokens(c)
      PROVE  window'[w].usage = window[w].usage
  <2>1. call[c].window # w
    BY <1>6, <1>h DEF ChargeTokens, Holding
  <2> QED
    BY <1>6, <1>f, <2>1 DEF ChargeTokens, With
<1>7. ASSUME NEW c \in Calls, RowLands(c)
      PROVE  window'[w] = window[w]
  BY <1>3, <1>7 DEF RowLands, Holding
<1>8. ASSUME NEW c \in Calls, HandlerRaises(c)
      PROVE  window'[w] = window[w]
  <2>1. \/ call[c].at \in Holding /\ \E s : Collect(With(c, s), ledger)
        \/ Collect(window, ledger)
    BY <1>8 DEF HandlerRaises, Charged, Holding
  <2> QED
    BY <1>2, <1>3, <2>1
<1>9. ASSUME NEW c \in Calls, Cancel(c)
      PROVE  window'[w] = window[w]
  <2>1. \/ call[c].at \in Holding /\ \E s, rows : Collect(With(c, s), rows)
        \/ \E rows : Collect(window, rows)
    BY <1>9 DEF Cancel, Charged, Holding
  <2> QED
    BY <1>2, <1>3, <2>1
<1>10. ASSUME NEW c \in Calls, FindWindow(c)
       PROVE  window'[w] = window[w]
  BY <1>2, <1>10 DEF FindWindow
<1>11. ASSUME NEW c \in Calls, \/ Arrive(c) \/ TurnAway(c) \/ NoVersion(c) \/ ErrorRowLands(c)
                               \/ AuditLands(c) \/ AuditFails(c)
       PROVE  UNCHANGED window
  BY <1>11 DEF Arrive, TurnAway, NoVersion, ErrorRowLands, AuditLands, AuditFails
<1>12. CASE UNCHANGED vars \/ FirstActivation
  BY <1>12 DEF vars, FirstActivation
<1> QED
  BY <1>1, <1>4, <1>5, <1>6, <1>7, <1>8, <1>9, <1>10, <1>11, <1>12 DEF Next, Acquire, Resume

\* No failure, refund, eviction or race reopens a window whose caps are reached.
THEOREM SpentWindowsStaySpent == Spec => SpentStaysSpent
<1>1. Typed /\ WindowsAreInOrder /\ [Next]_vars
        => \A k \in Keys :
             /\ windowOf[k] # Nothing /\ windowOf'[k] = windowOf[k]
             /\ window[windowOf[k]].lock = Nothing
             /\ ~BudgetOpen(k, window[windowOf[k]].usage)
             => ~BudgetOpen(k, window'[windowOf[k]].usage)
  <2> SUFFICES ASSUME Typed, WindowsAreInOrder, [Next]_vars, NEW k \in Keys,
                      windowOf[k] # Nothing, windowOf'[k] = windowOf[k],
                      window[windowOf[k]].lock = Nothing,
                      ~BudgetOpen(k, window[windowOf[k]].usage)
               PROVE  ~BudgetOpen(k, window'[windowOf[k]].usage)
    OBVIOUS
  <2>1. windowOf[k] \in WindowIds
    BY DEF Typed, TypeOK
  <2>2. window'[windowOf[k]].usage = window[windowOf[k]].usage
    BY <2>1, SpentStep
  <2> QED
    BY <2>2
<1> QED
  BY <1>1, OrderInit, OrderStep, Typing, PTL DEF Spec, SpentStaysSpent

------------------------------------------------------------------------------
(* create_change_pack: the lists of files *)

\* A file of the answer.
Refs == [file : Files, conf : Int, tokens : Nat]

\* Rows that are asked for, as far as the version has them.
LEMMA FetchedFits ==
    ASSUME draft.order \in RowOrders, NEW ids, NEW n
    PROVE  /\ Fetched(ids, n) \in Seq(CodeArts)
           /\ ToSet(Fetched(ids, n)) = {u \in CodeArts : u \in ids /\ InVersion(CodeArt[u], n)}
<1>1. draft.order \in Seq(CodeArts) /\ ToSet(draft.order) = CodeArts
  BY ChangeAssumption
<1> DEFINE S == {u \in ids : InVersion(CodeArt[u], n)}
<1>2. CodeArts \intersect S = {u \in CodeArts : u \in ids /\ InVersion(CodeArt[u], n)}
  OBVIOUS
<1> HIDE DEF S
<1>3. Among(draft.order, S) \in Seq(CodeArts) /\ ToSet(Among(draft.order, S)) = CodeArts \intersect S
  BY <1>1, AmongFits
<1> QED
  BY <1>2, <1>3 DEF Fetched, S

\* Rows the caller may read.
LEMMA VisibleFits ==
    ASSUME NEW us \in Seq(CodeArts)
    PROVE  Visible(us) \in Seq(CodeArts) /\ ToSet(Visible(us)) = {u \in ToSet(us) : CodeArt[u].visible}
<1> DEFINE S == {u \in CodeArts : CodeArt[u].visible}
<1>1. ToSet(us) \subseteq CodeArts
  BY AmongFits
<1>2. ToSet(us) \intersect S = {u \in ToSet(us) : CodeArt[u].visible}
  BY <1>1
<1> HIDE DEF S
<1>3. Among(us, S) \in Seq(CodeArts) /\ ToSet(Among(us, S)) = ToSet(us) \intersect S
  BY AmongFits
<1> QED
  BY <1>2, <1>3 DEF Visible, S

\* What is counted of a file is a number.
LEMMA CountingFits ==
    ASSUME NEW chars \in [Files -> Nat], NEW us \in Seq(CodeArts)
    PROVE  Counting(chars, us) \in [Files -> Nat]
<1>1. ASSUME NEW f \in Files
      PROVE  chars[f] + Total([i \in DOMAIN us |-> IF FileOf(us[i]) = f THEN CodeArt[us[i]].chars ELSE 0]) \in Nat
  <2> DEFINE of(i) == IF FileOf(us[i]) = f THEN CodeArt[us[i]].chars ELSE 0
             s == [i \in DOMAIN us |-> of(i)]
  <2>1. \A i \in DOMAIN us : of(i) \in Nat
    BY ChangeAssumption
  <2>2. DOMAIN us = 1 .. Len(us) /\ Len(us) \in Nat
    OBVIOUS
  <2> HIDE DEF of
  <2>3. s \in Seq(Nat)
    BY <2>1, <2>2
  <2>4. Total(s) \in Nat
    <3> HIDE DEF s
    <3> QED
      BY <2>3, TotalFits
  <2> QED
    BY <2>4 DEF of
<1> QED
  BY <1>1 DEF Counting

\* A file that is selected, with the estimate of its size.
LEMMA RefFits ==
    ASSUME NEW chars \in [Files -> Nat], NEW f \in Files, NEW conf \in Int
    PROVE  Ref(f, conf, chars) \in Refs /\ Ref(f, conf, chars).file = f /\ Ref(f, conf, chars).conf = conf
<1>1. Estimate(chars, f) \in Nat
  <2>1. chars[f] \in Nat /\ PointerTokens \in Nat
    BY ChangeAssumption
  <2>2. (chars[f] + 3) \div 4 \in Nat
    BY <2>1
  <2> QED
    BY <2>1, <2>2 DEF Estimate
<1> QED
  BY <1>1 DEF Ref, Refs

\* The files of a selection.
LEMMA FilesInFits ==
    ASSUME NEW refs \in Seq(Refs)
    PROVE  /\ FilesIn(refs) = {r.file : r \in ToSet(refs)} /\ FilesIn(refs) \subseteq Files
           /\ ToSet(refs) \subseteq Refs /\ IsFiniteSet(FilesIn(refs))
           /\ DOMAIN refs = 1 .. Len(refs) /\ Len(refs) \in Nat
<1>1. DOMAIN refs = 1 .. Len(refs) /\ Len(refs) \in Nat /\ \A i \in DOMAIN refs : refs[i] \in Refs
  OBVIOUS
<1>2. IsFiniteSet(FilesIn(refs))
  <2>1. IsFiniteSet(DOMAIN refs)
    BY <1>1, FS_Interval
  <2> DEFINE f == [i \in DOMAIN refs |-> refs[i].file]
  <2>2. f \in Surjection(DOMAIN refs, FilesIn(refs))
    BY DEF FilesIn, Surjection
  <2> HIDE DEF f
  <2> QED
    BY <2>1, <2>2, FS_Surjection
<1>3. FilesIn(refs) = {r.file : r \in ToSet(refs)} /\ ToSet(refs) \subseteq Refs
  BY <1>1 DEF FilesIn, ToSet
<1>4. FilesIn(refs) \subseteq Files
  BY <1>3 DEF Refs
<1> QED
  BY <1>1, <1>2, <1>3, <1>4

\* The estimates of a selection.
LEMMA TokensFit ==
    ASSUME NEW refs \in Seq(Refs)
    PROVE  Tokens(refs) \in Nat
<1> DEFINE s == [i \in DOMAIN refs |-> refs[i].tokens]
<1>1. DOMAIN refs = 1 .. Len(refs) /\ Len(refs) \in Nat /\ \A i \in DOMAIN refs : refs[i].tokens \in Nat
  <2>1. DOMAIN refs = 1 .. Len(refs) /\ Len(refs) \in Nat /\ \A i \in DOMAIN refs : refs[i] \in Refs
    OBVIOUS
  <2> QED
    BY <2>1 DEF Refs
<1>2. s \in Seq(Nat)
  BY <1>1
<1> HIDE DEF s
<1>3. Total(s) \in Nat
  BY <1>2, TotalFits
<1> QED
  BY <1>3 DEF Tokens, s

\* q is a selection that the wanted files of a list joined, with the confidence given.
JoinedBy(q, refs, files, ok, conf) ==
    /\ q \in Seq(Refs)
    /\ FilesIn(q) = FilesIn(refs) \union (ToSet(files) \intersect ok)
    /\ \A r \in ToSet(q) : r \in ToSet(refs) \/ (r.conf = conf /\ r.file \in ToSet(files) \intersect ok)

\* Files join a selection: those of the list that are wanted, each with the confidence given.
LEMMA SelectingFits ==
    ASSUME NEW refs \in Seq(Refs), NEW files \in Seq(Files), NEW ok, NEW conf \in Int,
           NEW chars \in [Files -> Nat]
    PROVE  JoinedBy(Selecting(refs, files, ok, conf, chars), refs, files, ok, conf)
<1> DEFINE want == ok \ FilesIn(refs)
           new == Firsts(Among(files, want))
           more == [i \in DOMAIN new |-> Ref(new[i], conf, chars)]
           all == refs \o more
<1>1. Among(files, want) \in Seq(Files) /\ ToSet(Among(files, want)) = ToSet(files) \intersect want
  <2> HIDE DEF want
  <2> QED
    BY AmongFits
<1>2. new \in Seq(Files) /\ ToSet(new) = ToSet(files) \intersect want
  <2> DEFINE s == Among(files, want)
  <2> HIDE DEF s, want
  <2>1. Firsts(s) \in Seq(Files) /\ ToSet(Firsts(s)) = ToSet(s)
    BY <1>1, FirstsFit DEF s
  <2> QED
    BY <1>1, <2>1 DEF s
<1> HIDE DEF new
<1>3. DOMAIN new = 1 .. Len(new) /\ Len(new) \in Nat /\ \A i \in DOMAIN new : new[i] \in Files
  BY <1>2
<1>4. \A i \in DOMAIN new : /\ Ref(new[i], conf, chars) \in Refs
                            /\ Ref(new[i], conf, chars).file = new[i] /\ Ref(new[i], conf, chars).conf = conf
  BY <1>3, RefFits
<1>5. /\ more \in Seq(Refs) /\ DOMAIN more = DOMAIN new
      /\ \A i \in DOMAIN new : more[i].file = new[i] /\ more[i].conf = conf
  BY <1>3, <1>4
<1> HIDE DEF more
<1>6. all \in Seq(Refs) /\ ToSet(all) = ToSet(refs) \union ToSet(more)
  BY <1>5, JoinFits
<1>7. FilesIn(all) = {r.file : r \in ToSet(all)} /\ FilesIn(refs) = {r.file : r \in ToSet(refs)}
  <2> HIDE DEF all
  <2> QED
    BY <1>6, FilesInFits
<1> HIDE DEF all
<1>8. {r.file : r \in ToSet(more)} = ToSet(new)
  BY <1>5 DEF ToSet
<1>9. \A r \in ToSet(more) : r.conf = conf
  BY <1>5 DEF ToSet
<1>10. FilesIn(all) = FilesIn(refs) \union (ToSet(files) \intersect ok)
  BY <1>2, <1>6, <1>7, <1>8 DEF want
<1>11. \A r \in ToSet(all) : r \in ToSet(refs) \/ (r.conf = conf /\ r.file \in ToSet(files) \intersect ok)
  BY <1>2, <1>6, <1>8, <1>9 DEF want
<1>12. Selecting(refs, files, ok, conf, chars) = all
  BY Zenon DEF Selecting, all, more, new, want
<1>13. JoinedBy(all, refs, files, ok, conf)
  BY <1>6, <1>10, <1>11 DEF JoinedBy
<1> QED
  BY <1>12, <1>13

\* The estimates of a selection with one file more.
LEMMA TokensGrow ==
    ASSUME NEW refs \in Seq(Refs), NEW d \in Refs
    PROVE  Tokens(OneMore(refs, d)) = Tokens(refs) + d.tokens /\ d.tokens \in Nat /\ Tokens(<<>>) = 0
<1> DEFINE s == [i \in DOMAIN refs |-> refs[i].tokens]
           q == OneMore(refs, d)
           z == [i \in DOMAIN q |-> q[i].tokens]
           x == d.tokens
<1>1. d.tokens \in Nat
  BY DEF Refs
<1>2. /\ Len(refs) \in Nat /\ DOMAIN refs = 1 .. Len(refs) /\ DOMAIN q = 1 .. Len(refs) + 1
      /\ (\A i \in 1 .. Len(refs) : q[i] = refs[i]) /\ q[Len(refs) + 1] = d
  BY AppendHolds DEF OneMore
<1>3. \A i \in DOMAIN refs : refs[i].tokens \in Int
  <2>1. \A i \in DOMAIN refs : refs[i] \in Refs
    OBVIOUS
  <2> QED
    BY <2>1 DEF Refs
<1> HIDE DEF q
<1>4. s \in Seq(Int) /\ Len(s) = Len(refs) /\ \A i \in 1 .. Len(refs) : s[i] = refs[i].tokens
  BY <1>2, <1>3
<1>5. DOMAIN z = 1 .. Len(refs) + 1 /\ \A i \in 1 .. Len(refs) + 1 : z[i] = q[i].tokens
  BY <1>2
<1> HIDE DEF s
<1>6. OneMore(s, x) = z
  <2>1. /\ DOMAIN Append(s, x) = 1 .. Len(refs) + 1 /\ Append(s, x)[Len(refs) + 1] = x
        /\ \A i \in 1 .. Len(refs) : Append(s, x)[i] = s[i]
    BY <1>1, <1>4, AppendHolds
  <2>2. \A i \in 1 .. Len(refs) + 1 : Append(s, x)[i] = z[i]
    BY <1>2, <1>4, <1>5, <2>1
  <2>3. Append(s, x) = [i \in 1 .. Len(refs) + 1 |-> Append(s, x)[i]]
    BY <1>1, <1>2, <1>4, <2>1
  <2>4. z = [i \in 1 .. Len(refs) + 1 |-> z[i]]
    BY <1>2
  <2> QED
    BY <2>2, <2>3, <2>4 DEF OneMore
<1> HIDE DEF z
<1>7. Total(OneMore(s, x)) = Total(s) + x /\ Total(<<>>) = 0
  BY <1>1, <1>4, TotalGrows DEF OneMore
<1>8. Tokens(q) = Total(z) /\ Tokens(refs) = Total(s)
  BY Zenon DEF Tokens, s, z
<1>9. Tokens(<<>>) = Total(<<>>)
  <2>1. [i \in DOMAIN <<>> |-> <<>>[i].tokens] = <<>>
    OBVIOUS
  <2> QED
    BY <2>1, Zenon DEF Tokens
<1> QED
  BY <1>1, <1>6, <1>7, <1>8, <1>9 DEF q

\* A dependency is kept while there is room.
KeptDep(kept, d, essential, budget) ==
    IF essential + Tokens(kept) + d.tokens > budget THEN kept ELSE Append(kept, d)

\* What is kept of the first k dependencies.
KeptDeps(deps, k, essential, budget) ==
    {kept \in Seq(Refs) :
       /\ ToSet(kept) \subseteq ToSet(deps)
       /\ kept # <<>> => essential + Tokens(kept) <= budget
       /\ \A i \in 1 .. k : deps[i] \in ToSet(kept) \/ essential + Tokens(kept) + deps[i].tokens > budget}

\* ... and of one more.
LEMMA KeptDepStep ==
    ASSUME NEW deps \in Seq(Refs), NEW essential \in Nat, NEW budget \in Int,
           NEW k \in 1 .. Len(deps), NEW kept \in KeptDeps(deps, k - 1, essential, budget)
    PROVE  KeptDep(kept, deps[k], essential, budget) \in KeptDeps(deps, k, essential, budget)
<1> DEFINE d == deps[k]
           q == OneMore(kept, d)
<1>1. /\ kept \in Seq(Refs) /\ ToSet(kept) \subseteq ToSet(deps)
      /\ kept # <<>> => essential + Tokens(kept) <= budget
      /\ \A i \in 1 .. k - 1 : deps[i] \in ToSet(kept) \/ essential + Tokens(kept) + deps[i].tokens > budget
  BY DEF KeptDeps
<1>2. d \in Refs /\ k \in Nat /\ Len(deps) \in Nat /\ d \in ToSet(deps) /\ (\A i \in 1 .. k : deps[i] \in Refs)
  <2>1. Len(deps) \in Nat /\ DOMAIN deps = 1 .. Len(deps) /\ \A i \in 1 .. Len(deps) : deps[i] \in Refs
    OBVIOUS
  <2> QED
    BY <2>1 DEF ToSet
<1>3. \A i \in 1 .. k : i \in 1 .. k - 1 \/ i = k
  BY <1>2
<1>4. Tokens(kept) \in Nat /\ Tokens(q) = Tokens(kept) + d.tokens /\ d.tokens \in Nat
  BY <1>1, <1>2, TokensFit, TokensGrow
<1>5. q \in Seq(Refs) /\ ToSet(q) = ToSet(kept) \union {d}
  BY <1>1, <1>2, AppendHolds DEF OneMore
<1>6. \A i \in 1 .. k : deps[i].tokens \in Nat
  BY <1>2 DEF Refs
<1> HIDE DEF d, q
<1>7. CASE essential + Tokens(kept) + d.tokens > budget
  BY <1>1, <1>3, <1>7 DEF KeptDep, KeptDeps, d
<1>8. CASE ~ (essential + Tokens(kept) + d.tokens > budget)
  <2>1. essential + Tokens(q) <= budget
    BY <1>4, <1>8
  <2>2. \A i \in 1 .. k : deps[i] \in ToSet(q) \/ essential + Tokens(q) + deps[i].tokens > budget
    <3> SUFFICES ASSUME NEW i \in 1 .. k PROVE deps[i] \in ToSet(q) \/ essential + Tokens(q) + deps[i].tokens > budget
      OBVIOUS
    <3>1. CASE i = k
      BY <1>5, <3>1 DEF d
    <3>2. CASE i \in 1 .. k - 1
      <4>1. deps[i] \in ToSet(kept) \/ essential + Tokens(kept) + deps[i].tokens > budget
        BY <1>1, <3>2
      <4> QED
        BY <1>4, <1>5, <1>6, <4>1
    <3> QED
      BY <1>3, <3>1, <3>2
  <2>3. KeptDep(kept, d, essential, budget) = q
    BY <1>8 DEF KeptDep, q, OneMore
  <2>4. q \in KeptDeps(deps, k, essential, budget)
    BY <1>1, <1>2, <1>5, <2>1, <2>2 DEF KeptDeps
  <2> QED
    BY <2>3, <2>4 DEF d
<1> QED
  BY <1>7, <1>8

\* The dependencies that are kept fit, and one that is not would not.
LEMMA WithinBudgetFits ==
    ASSUME NEW deps \in Seq(Refs), NEW essential \in Nat, NEW budget \in Int
    PROVE  LET q == WithinBudget(essential, deps, budget) IN
           /\ q \in Seq(Refs) /\ ToSet(q) \subseteq ToSet(deps)
           /\ q # <<>> => essential + Tokens(q) <= budget
           /\ \A d \in ToSet(deps) \ ToSet(q) : essential + Tokens(q) + d.tokens > budget
<1> DEFINE n == Len(deps)
           A == Seq(Refs)
           put(g, j) == KeptDep(g, deps[j], essential, budget)
           G == [p \in A \X (1 .. n) |-> put(p[1], p[2])]
           K == [k \in 0 .. n |-> KeptDeps(deps, k, essential, budget)]
           Eq(f) == f = [t \in SUBSET DOMAIN deps |-> IF t = {} THEN <<>> ELSE put(f[t \ {Max(t)}], Max(t))]
           q == WithinBudget(essential, deps, budget)
<1>1. n \in Nat /\ DOMAIN deps = 1 .. n /\ \A j \in 1 .. n : deps[j] \in Refs
  OBVIOUS
<1>2. \A g \in A, j \in 1 .. n : put(g, j) \in A
  <2> HIDE DEF n
  <2>1. \A g \in A, j \in 1 .. n : Append(g, deps[j]) \in A
    BY <1>1
  <2> HIDE DEF A
  <2> QED
    BY <2>1 DEF KeptDep
<1>3. G \in [A \X (1 .. n) -> A] /\ \A g \in A, j \in 1 .. n : G[<<g, j>>] = put(g, j)
  <2> HIDE DEF put, A, n
  <2> QED
    BY <1>2
<1>4. <<>> \in A
  OBVIOUS
<1>5. K \in [0 .. n -> SUBSET A]
  BY DEF KeptDeps
<1>6. Carried(n, <<>>, G, K)
  <2>1. <<>> \in K[0]
    <3>1. 1 .. 0 = {} /\ ToSet(<<>>) = {} /\ 0 \in 0 .. n
      BY <1>1 DEF ToSet
    <3> QED
      BY <1>4, <3>1 DEF KeptDeps
  <2>2. ASSUME NEW k \in 1 .. n, NEW g \in K[k - 1] PROVE G[<<g, k>>] \in K[k]
    <3>1. k - 1 \in 0 .. n /\ k \in 0 .. n
      BY <1>1
    <3>2. g \in KeptDeps(deps, k - 1, essential, budget) /\ K[k] = KeptDeps(deps, k, essential, budget)
      BY <3>1
    <3>3. g \in A
      BY <3>2 DEF KeptDeps
    <3>4. put(g, k) \in KeptDeps(deps, k, essential, budget)
      BY <3>2, KeptDepStep
    <3> HIDE DEF put, A, n, K, G
    <3> QED
      BY <1>3, <3>2, <3>3, <3>4
  <2> QED
    BY <2>1, <2>2 DEF Carried
<1> HIDE DEF put, G, K, n
<1>7. PICK f \in [SUBSET (1 .. n) -> A] : StepsOfFold(f, n, <<>>, G)
  <2> HIDE DEF A
  <2> QED
    BY <1>1, <1>3, <1>4, FoldTable
<1>8. ASSUME NEW t \in SUBSET (1 .. n), t # {}
      PROVE  t \ {Max(t)} \in SUBSET (1 .. n) /\ Max(t) \in 1 .. n /\ f[t \ {Max(t)}] \in A
  BY <1>1, <1>8, MaxOfSome
<1>9. \A t \in SUBSET (1 .. n) : f[t] = IF t = {} THEN <<>> ELSE put(f[t \ {Max(t)}], Max(t))
  <2> HIDE DEF A
  <2> QED
    BY <1>3, <1>7, <1>8 DEF StepsOfFold
<1>10. Eq(f)
  BY <1>1, <1>7, <1>9
<1> DEFINE h == CHOOSE x : Eq(x)
<1>11. Eq(h)
  <2> HIDE DEF Eq
  <2> QED
    BY <1>10
<1>12. q = h[DOMAIN deps]
  BY Zenon DEF WithinBudget, FoldLeft, MapThenFoldSet, put, KeptDep
<1> HIDE DEF h
<1>13. h[{}] = <<>>
  BY <1>1, <1>11
<1>14. ASSUME NEW t \in SUBSET (1 .. n), t # {}, h[t \ {Max(t)}] \in A
       PROVE  h[t] = G[<<h[t \ {Max(t)}], Max(t)>>]
  <2>1. h[t] = put(h[t \ {Max(t)}], Max(t))
    BY <1>1, <1>11, <1>14
  <2> HIDE DEF A
  <2> QED
    BY <1>3, <1>8, <1>14, <2>1
<1> HIDE DEF Eq
<1>15. h[1 .. n] \in K[n]
  <2>1. TypedSteps(h, n, A, <<>>, G)
    BY <1>13, <1>14 DEF TypedSteps
  <2> HIDE DEF A
  <2> QED
    BY <1>1, <1>3, <1>4, <1>5, <1>6, <2>1, FoldReaches
<1>16. q \in KeptDeps(deps, n, essential, budget)
  BY <1>1, <1>12, <1>15 DEF K
<1>17. \A d \in ToSet(deps) : \E i \in 1 .. n : d = deps[i]
  BY <1>1 DEF ToSet
<1>18. /\ q \in Seq(Refs) /\ ToSet(q) \subseteq ToSet(deps)
       /\ q # <<>> => essential + Tokens(q) <= budget
       /\ \A d \in ToSet(deps) \ ToSet(q) : essential + Tokens(q) + d.tokens > budget
  <2> HIDE DEF q
  <2> QED
    BY <1>16, <1>17 DEF KeptDeps
<1> QED
  BY <1>18

------------------------------------------------------------------------------
(* create_change_pack: the call *)

\* Where the call is, and what it holds of symbols and of imported files.
PackStages == {"start", "targets", "neighbours", "tests", "search", "guess", "rank", "imports",
               "definitions", "score", "choose", "budget", "ledger", "done"}
Scopes == {Elsewhere} \union {Service(f) : f \in Files}
DefinedSyms == [sym : CodeArts, in : CodeArts]
ScoredFiles == [file : Files, score : Int]

\* The call.
PackDrafts ==
    [pc : PackStages, task : ChangeTasks, order : RowOrders, version : Nat, allowed : Seq(CodeArts),
     code : Seq(CodeArts), symbols : Seq(CodeArts), targets : Seq(Refs), chars : [Files -> Nat],
     edges : Seq(ToSet(CodeEdges)), near : SUBSET CodeArts, paths : Seq(Files), scope : Scopes,
     tests : Seq(Refs), imported : SUBSET CodeArts, defs : Seq(DefinedSyms),
     scored : Seq(ScoredFiles), found : Seq(Refs), deps : Seq(Refs)]

\* A row that may be read in the version of the call, a file with one, and a row in the service of
\* the targets.
ReadableRow(p, u) == CodeArt[u].visible /\ InVersion(CodeArt[u], p.version)
ReadableFile(p, f) == \E u \in CodeArts : FileOf(u) = f /\ ReadableRow(p, u)
RowInScope(p, u) == ReadableRow(p, u) /\ SameService(Scope(FilesIn(p.targets)), FileOf(u))

\* What may be a dependency.
MayDepend(p, f) == /\ ReadableFile(p, f) /\ ~ File[f].test /\ f \notin FilesIn(p.targets)
                   /\ SameService(p.scope, f)

\* What was found can be read, and is what it is called.
SourcesHold(p) ==
    /\ \A u \in ToSet(p.allowed) : ReadableRow(p, u)
    /\ ToSet(p.code) \subseteq ToSet(p.allowed)
    /\ \A f \in FilesIn(p.targets) : ReadableFile(p, f) /\ ~ File[f].test
    /\ \A u \in p.near : ReadableRow(p, u)
    /\ \A r \in ToSet(p.tests) : SameService(p.scope, r.file) /\ (r.conf > 50 => ReadableFile(p, r.file))
    /\ \A d \in ToSet(p.scored) : MayDepend(p, d.file)
    /\ \A d \in ToSet(p.found) : MayDepend(p, d.file)
    /\ ToSet(p.deps) \subseteq ToSet(p.found)

\* Nothing that could be read is overlooked among the hits and next to the targets.
NothingOverlooked(p) ==
    /\ p.pc \notin {"start", "targets"} /\ p.version # 0 =>
         \A u \in ToSet(p.task.hits) : ReadableRow(p, u) => u \in ToSet(p.allowed)
    /\ \A e \in ToSet(p.edges) :
         ReadableRow(p, e.a) /\ e.a \notin ToSet(p.symbols) /\ FileOf(e.a) \notin FilesIn(p.targets)
           => e.a \in p.near

\* Neither the edges nor the hits have a test, and the search has none.
NoTestKnown(p) ==
    /\ ~ \E e \in ToSet(p.edges) : /\ e.type = "tests" /\ e.b \in ToSet(p.symbols) /\ RowInScope(p, e.a)
                                   /\ FileOf(e.a) \notin FilesIn(p.targets)
                                   /\ e.a \notin ToSet(p.symbols)
    /\ ~ \E u \in ToSet(p.task.hits) : /\ RowInScope(p, u) /\ File[FileOf(u)].test
                                       /\ CodeArt[u].mentions \cap Titles(p.symbols) # {}
NoTestSearched(p) == ~ \E u \in ToSet(p.task.testHits) : RowInScope(p, u) /\ File[FileOf(u)].test

\* Real tests before guesses.
GuessesAreLast(p) ==
    /\ p.pc \in {"search", "guess"} => \A r \in ToSet(p.tests) : r.conf > 50
    /\ p.pc \in {"search", "guess"} /\ p.tests = <<>> => NoTestKnown(p)
    /\ p.pc = "guess" /\ p.tests = <<>> => NoTestSearched(p)
    /\ (\E r \in ToSet(p.tests) : r.conf = 50) =>
         (\A r \in ToSet(p.tests) : r.conf = 50) /\ NoTestKnown(p) /\ NoTestSearched(p)

\* Dependencies within the budget.
KeptWithinBudget(p) ==
    p.pc \in {"ledger", "done"} =>
      LET all == Tokens(p.targets) + Tokens(p.tests) + Tokens(p.deps)
      IN  /\ p.deps # <<>> => all <= p.task.budget
          /\ \A d \in ToSet(p.found) \ ToSet(p.deps) : all + d.tokens > p.task.budget

\* A call that found nothing yet.
FoundNothing(p) ==
    /\ p.allowed = <<>> /\ p.code = <<>> /\ p.symbols = <<>> /\ p.targets = <<>> /\ p.edges = <<>>
    /\ p.near = {} /\ p.scope = Elsewhere /\ p.tests = <<>> /\ p.scored = <<>> /\ p.found = <<>>
    /\ p.deps = <<>>

\* What is still empty, and when the service is known.
NotYet(p) ==
    /\ (p.pc \in {"start", "targets"} \/ p.version = 0) =>
         FoundNothing(p)
    /\ p.version = 0 => p.pc \in {"start", "done"}
    /\ p.pc \in {"neighbours", "tests"} =>
         p.tests = <<>> /\ p.scored = <<>> /\ p.found = <<>> /\ p.deps = <<>>
    /\ p.pc \notin {"ledger", "done"} => p.deps = <<>>
    /\ p.pc \notin {"start", "targets", "neighbours", "tests"} => p.scope = Scope(FilesIn(p.targets))

\* What holds of a call at each of its steps.
CallHolds(p) ==
    /\ SourcesHold(p) /\ NothingOverlooked(p) /\ GuessesAreLast(p) /\ KeptWithinBudget(p) /\ NotYet(p)

\* The inductive invariant: the types, the call, and a row when it has answered.
PackKeeps ==
    /\ activeSeq \in Nat /\ draft \in PackDrafts /\ CallHolds(draft)
    /\ packRows = IF draft.pc = "done" /\ draft.version # 0 THEN <<RowOf(draft)>> ELSE <<>>

\* Files are those of the rows.
LEMMA FilesOfFits ==
    ASSUME NEW us \in Seq(CodeArts)
    PROVE  /\ FilesOf(us) \in Seq(Files) /\ ToSet(FilesOf(us)) = {FileOf(u) : u \in ToSet(us)}
           /\ \A u \in CodeArts : FileOf(u) \in Files
<1>1. DOMAIN us = 1 .. Len(us) /\ Len(us) \in Nat /\ \A i \in DOMAIN us : us[i] \in CodeArts
  OBVIOUS
<1>2. \A u \in CodeArts : FileOf(u) \in Files
  BY ChangeAssumption DEF FileOf
<1>3. ToSet(FilesOf(us)) = {FileOf(u) : u \in ToSet(us)}
  BY DEF FilesOf, ToSet
<1>4. FilesOf(us) \in Seq(Files)
  BY <1>1, <1>2 DEF FilesOf
<1> QED
  BY <1>2, <1>3, <1>4

\* Rows of a set are picked of a list of rows.
LEMMA RowsAmong ==
    ASSUME NEW us \in Seq(CodeArts), NEW S
    PROVE  Among(us, S) \in Seq(CodeArts) /\ ToSet(Among(us, S)) = ToSet(us) \intersect S
  BY AmongFits

\* The targets that some rows add.
LEMMA AddTargetsFits ==
    ASSUME NEW found, NEW us \in Seq(CodeArts), NEW conf \in Int,
           found \in [symbols : Seq(CodeArts), targets : Seq(Refs), chars : [Files -> Nat]]
    PROVE  LET t == AddTargets(found, us, conf) IN
           /\ t \in [symbols : Seq(CodeArts), targets : Seq(Refs), chars : {found.chars}]
           /\ FilesIn(t.targets) = FilesIn(found.targets) \union {f \in {FileOf(u) : u \in ToSet(us)} : ~ File[f].test}
<1> DEFINE S == {u \in CodeArts : CodeArt[u].type = "code_symbol"}
           ok == {f \in Files : ~ File[f].test}
           more == Among(us, S)
           files == FilesOf(us)
           tg == Selecting(found.targets, files, ok, conf, found.chars)
           sy == found.symbols \o more
<1>1. found.symbols \in Seq(CodeArts) /\ found.targets \in Seq(Refs) /\ found.chars \in [Files -> Nat]
  OBVIOUS
<1>2. more \in Seq(CodeArts)
  <2> HIDE DEF S
  <2> QED
    BY RowsAmong
<1>3. files \in Seq(Files) /\ ToSet(files) = {FileOf(u) : u \in ToSet(us)} /\ ToSet(files) \subseteq Files
  <2>1. files \in Seq(Files) /\ ToSet(files) = {FileOf(u) : u \in ToSet(us)}
    BY FilesOfFits
  <2> HIDE DEF files
  <2> QED
    BY <2>1, AmongFits
<1> HIDE DEF files, more
<1>4. sy \in Seq(CodeArts)
  BY <1>1, <1>2, JoinHolds
<1>5. tg \in Seq(Refs) /\ FilesIn(tg) = FilesIn(found.targets) \union (ToSet(files) \intersect ok)
  <2> DEFINE had == found.targets
             chars == found.chars
  <2>1. had \in Seq(Refs) /\ chars \in [Files -> Nat] /\ files \in Seq(Files) /\ conf \in Int
    BY <1>1, <1>3
  <2> HIDE DEF ok, had, chars
  <2> DEFINE q == Selecting(had, files, ok, conf, chars)
  <2>2. JoinedBy(q, had, files, ok, conf)
    BY <2>1, SelectingFits
  <2> HIDE DEF q
  <2>3. q \in Seq(Refs) /\ FilesIn(q) = FilesIn(had) \union (ToSet(files) \intersect ok)
    BY <2>2 DEF JoinedBy
  <2> QED
    BY <2>3, Zenon DEF q, had, chars
<1>6. ToSet(files) \intersect ok = {f \in {FileOf(u) : u \in ToSet(us)} : ~ File[f].test}
  BY <1>3
<1>7. AddTargets(found, us, conf) = [found EXCEPT !.symbols = sy, !.targets = tg]
  BY Zenon DEF AddTargets, sy, tg, more, files, ok, S
<1> HIDE DEF sy, tg, ok
<1> QED
  BY <1>1, <1>4, <1>5, <1>6, <1>7

\* The targets are files of the code that was hit, and no tests.
LEMMA TargetsFit ==
    ASSUME NEW code \in Seq(CodeArts), NEW chars \in [Files -> Nat]
    PROVE  LET t == Targets(code, chars) IN
           /\ t \in [symbols : Seq(CodeArts), targets : Seq(Refs), chars : {chars}]
           /\ \A f \in FilesIn(t.targets) : ~ File[f].test /\ \E u \in ToSet(code) : FileOf(u) = f
<1> DEFINE Fine(t) ==
             /\ t \in [symbols : Seq(CodeArts), targets : Seq(Refs), chars : {chars}]
             /\ \A f \in FilesIn(t.targets) : ~ File[f].test /\ \E u \in ToSet(code) : FileOf(u) = f
           none == [symbols |-> <<>>, targets |-> <<>>, chars |-> chars]
           C == {u \in CodeArts : CodeArt[u].title \in draft.task.classes}
           N == {u \in CodeArts : FileOf(u) \in draft.task.named}
           exact == AddTargets(none, Among(code, C), 96)
           named == AddTargets(exact, Among(code, N), 85)
<1>1. Fine(none)
  BY DEF FilesIn
<1>2. ASSUME NEW t, Fine(t), NEW us \in Seq(CodeArts), ToSet(us) \subseteq ToSet(code), NEW conf \in Int
      PROVE  Fine(AddTargets(t, us, conf))
  <2> DEFINE z == AddTargets(t, us, conf)
  <2>1. t \in [symbols : Seq(CodeArts), targets : Seq(Refs), chars : [Files -> Nat]] /\ t.chars = chars
    BY <1>2
  <2>2. /\ z \in [symbols : Seq(CodeArts), targets : Seq(Refs), chars : {chars}]
        /\ FilesIn(z.targets) = FilesIn(t.targets) \union {f \in {FileOf(u) : u \in ToSet(us)} : ~ File[f].test}
    BY <2>1, AddTargetsFits
  <2> HIDE DEF z
  <2>3. ASSUME NEW f \in FilesIn(z.targets) PROVE ~ File[f].test /\ \E u \in ToSet(code) : FileOf(u) = f
    BY <1>2, <2>2
  <2> QED
    BY <2>2, <2>3 DEF z
<1>3. /\ Among(code, C) \in Seq(CodeArts) /\ ToSet(Among(code, C)) \subseteq ToSet(code)
      /\ Among(code, N) \in Seq(CodeArts) /\ ToSet(Among(code, N)) \subseteq ToSet(code)
  <2> HIDE DEF C, N
  <2> QED
    BY RowsAmong
<1> HIDE DEF Fine
<1>4. Fine(exact)
  <2> HIDE DEF C, none
  <2> QED
    BY <1>1, <1>2, <1>3
<1>5. Fine(named)
  <2> HIDE DEF N, exact
  <2> QED
    BY <1>2, <1>3, <1>4
<1>6. code # <<>> => <<code[1]>> \in Seq(CodeArts) /\ ToSet(<<code[1]>>) \subseteq ToSet(code)
  <2> SUFFICES ASSUME code # <<>> PROVE <<code[1]>> \in Seq(CodeArts) /\ ToSet(<<code[1]>>) \subseteq ToSet(code)
    OBVIOUS
  <2>1. 1 \in DOMAIN code /\ code[1] \in CodeArts
    OBVIOUS
  <2> QED
    BY <2>1 DEF ToSet
<1>7. code # <<>> => Fine(AddTargets(named, <<code[1]>>, 55))
  <2> DEFINE one == <<code[1]>>
  <2>1. code # <<>> => one \in Seq(CodeArts) /\ ToSet(one) \subseteq ToSet(code)
    BY <1>6
  <2> HIDE DEF named, one
  <2>2. code # <<>> => Fine(AddTargets(named, one, 55))
    BY <1>2, <1>5, <2>1, 55 \in Int
  <2> QED
    BY <2>2 DEF one
<1>8. Targets(code, chars) \in {exact, named} \/ (code # <<>> /\ Targets(code, chars) = AddTargets(named, <<code[1]>>, 55))
  <2>1. Targets(code, chars) = IF exact.targets # <<>> THEN exact
                               ELSE IF named.targets # <<>> \/ code = <<>> THEN named
                               ELSE AddTargets(named, <<code[1]>>, 55)
    BY Zenon DEF Targets, exact, named, none, C, N
  <2> HIDE DEF exact, named
  <2> QED
    BY <2>1
<1>9. Fine(Targets(code, chars))
  <2> HIDE DEF exact, named
  <2> QED
    BY <1>4, <1>5, <1>7, <1>8
<1> QED
  BY <1>9 DEF Fine

\* The service of files is one there is.
LEMMA ScopeFits ==
    ASSUME NEW files, files \subseteq Files
    PROVE  Scope(files) \in Scopes
<1> DEFINE s == {Service(f) : f \in files} \ {Elsewhere}
<1>1. s \subseteq Scopes
  BY DEF Scopes
<1> HIDE DEF s
<1>2. Scope(files) = IF Cardinality(s) = 1 THEN CHOOSE x \in s : TRUE ELSE Elsewhere
  BY DEF Scope, s
<1>3. Cardinality(s) = 1 => s # {}
  BY FS_EmptySet
<1>4. Elsewhere \in Scopes
  BY DEF Scopes
<1> QED
  BY <1>1, <1>2, <1>3, <1>4

\* The edges that touch some rows.
LEMMA EdgesFit ==
    ASSUME NEW ids, NEW types, NEW n
    PROVE  /\ EdgesAt(ids, types, n) \in Seq(ToSet(CodeEdges))
           /\ \A e \in ToSet(EdgesAt(ids, types, n)) : /\ e \in ToSet(CodeEdges) /\ e.a \in CodeArts /\ e.b \in CodeArts
                                                       /\ OtherEnd(e, ids) \in CodeArts
<1> DEFINE S == {e \in ToSet(CodeEdges) :
                   InVersion(e, n) /\ {e.a, e.b} \cap ids # {} /\ (types = {} \/ e.type \in types)}
           s == Among(CodeEdges, S)
<1>1. CodeEdges \in Seq(ToSet(CodeEdges)) /\ \A e \in ToSet(CodeEdges) : e.a \in CodeArts /\ e.b \in CodeArts
  BY ChangeAssumption
<1> HIDE DEF S
<1>2. s \in Seq(ToSet(CodeEdges)) /\ ToSet(s) = ToSet(CodeEdges) \intersect S
  BY <1>1, AmongFits
<1>3. EdgesAt(ids, types, n) = s
  BY Zenon DEF EdgesAt, s, S
<1> HIDE DEF s
<1> QED
  BY <1>1, <1>2, <1>3 DEF OtherEnd

\* A step of the call that leaves the version served and the rows alone.
LEMMA PackStep ==
    ASSUME PackKeeps, NEW q \in PackDrafts, CallHolds(q), draft' = q, UNCHANGED <<activeSeq, packRows>>,
           draft.pc # "done", q.pc = "done" => q.version = 0
    PROVE  PackKeeps'
<1>1. packRows = <<>> /\ activeSeq \in Nat
  BY DEF PackKeeps
<1>2. activeSeq' \in Nat /\ packRows' = <<>>
  BY <1>1
<1> QED
  BY <1>2 DEF PackKeeps

\* Nothing is claimed of a call that found nothing.
LEMMA NothingIsClaimed ==
    ASSUME NEW q, FoundNothing(q), q.pc \in {"start", "targets", "done"}, q.version = 0 <=> q.pc # "targets"
    PROVE  CallHolds(q)
<1>1. ToSet(<<>>) = {} /\ FilesIn(<<>>) = {}
  BY DEF ToSet, FilesIn
<1>2. Scope({}) = Elsewhere
  <2>1. {Service(f) : f \in {}} \ {Elsewhere} = {} /\ Cardinality({}) = 0
    BY FS_EmptySet
  <2> QED
    BY <2>1 DEF Scope
<1>3. SourcesHold(q)
  BY <1>1 DEF SourcesHold, FoundNothing
<1>4. NothingOverlooked(q)
  BY <1>1 DEF NothingOverlooked, FoundNothing
<1>5. GuessesAreLast(q)
  BY <1>1 DEF GuessesAreLast, FoundNothing
<1>6. KeptWithinBudget(q)
  BY <1>1 DEF KeptWithinBudget, FoundNothing
<1>7. NotYet(q)
  <2>1. q.scope = Scope(FilesIn(q.targets))
    BY <1>1, <1>2 DEF FoundNothing
  <2> QED
    BY <2>1 DEF NotYet, FoundNothing
<1> QED
  BY <1>3, <1>4, <1>5, <1>6, <1>7 DEF CallHolds

\* The call begins.
LEMMA PackStarts ==
    ASSUME ChangeInit
    PROVE  PackKeeps
<1> DEFINE zero == [f \in Files |-> 0]
<1>1. PICK task \in ChangeTasks, order \in RowOrders : draft = Fresh(task, order)
  BY DEF ChangeInit
<1>2. zero \in [Files -> Nat] /\ Elsewhere \in Scopes /\ "start" \in PackStages
  BY DEF Scopes, PackStages
<1>3. draft \in PackDrafts
  BY <1>1, <1>2 DEF PackDrafts, Fresh
<1>4. FoundNothing(draft) /\ draft.pc = "start" /\ draft.version = 0
  BY <1>1 DEF Fresh, FoundNothing
<1>5. CallHolds(draft)
  BY <1>4, NothingIsClaimed
<1>6. activeSeq \in Nat /\ packRows = <<>>
  BY ChangeAssumption DEF ChangeInit
<1> QED
  BY <1>3, <1>4, <1>5, <1>6 DEF PackKeeps

\* The version is read once.
LEMMA BeginPackKeeps ==
    ASSUME PackKeeps, BeginPack
    PROVE  PackKeeps'
<1> DEFINE pc == IF activeSeq = 0 THEN "done" ELSE "targets"
           q == [draft EXCEPT !.pc = pc, !.version = activeSeq]
<1>1. draft \in PackDrafts /\ draft.pc = "start" /\ activeSeq \in Nat /\ draft' = q
  BY DEF PackKeeps, BeginPack
<1>2. FoundNothing(draft)
  BY <1>1 DEF PackKeeps, CallHolds, NotYet
<1>3. pc \in PackStages /\ pc \in {"targets", "done"} /\ (activeSeq = 0 <=> pc # "targets")
  BY DEF PackStages
<1> HIDE DEF pc
<1>4. q \in PackDrafts /\ q.pc = pc /\ q.version = activeSeq
  BY <1>1, <1>3 DEF PackDrafts
<1>5. FoundNothing(q)
  BY <1>1, <1>2 DEF FoundNothing, PackDrafts
<1> HIDE DEF q
<1>6. CallHolds(q)
  BY <1>3, <1>4, <1>5, NothingIsClaimed
<1> QED
  BY <1>1, <1>3, <1>4, <1>6, PackStep DEF BeginPack

\* A build is activated beside the call.
LEMMA ActivateNewerKeeps ==
    ASSUME PackKeeps, ActivateNewer
    PROVE  PackKeeps'
<1>1. activeSeq' \in Nat /\ draft' = draft /\ packRows' = packRows
  BY DEF PackKeeps, ActivateNewer
<1> QED
  BY <1>1 DEF PackKeeps

\* The hits that the caller may read, and those of code.
LEMMA HydratedFits ==
    ASSUME draft.order \in RowOrders, NEW hits \in Seq(CodeArts), NEW n,
           NEW h, h = Hydrated(hits, n)
    PROVE  /\ h.allowed \in Seq(CodeArts) /\ h.code \in Seq(CodeArts)
           /\ ToSet(h.allowed) = {u \in ToSet(hits) : CodeArt[u].visible /\ InVersion(CodeArt[u], n)}
           /\ ToSet(h.code) \subseteq ToSet(h.allowed)
<1> DEFINE f == Fetched(ToSet(hits), n)
           al == Visible(f)
           C == {u \in ToSet(al) : CodeArt[u].type \in CodeKinds}
           co == Among(hits, C)
<1>1. ToSet(hits) \subseteq CodeArts
  BY AmongFits
<1>2. f \in Seq(CodeArts) /\ ToSet(f) = {u \in CodeArts : u \in ToSet(hits) /\ InVersion(CodeArt[u], n)}
  BY FetchedFits
<1> HIDE DEF f
<1>3. al \in Seq(CodeArts) /\ ToSet(al) = {u \in ToSet(f) : CodeArt[u].visible}
  BY <1>2, VisibleFits
<1>4. ToSet(al) = {u \in ToSet(hits) : CodeArt[u].visible /\ InVersion(CodeArt[u], n)}
  BY <1>1, <1>2, <1>3
<1> HIDE DEF al
<1>5. co \in Seq(CodeArts) /\ ToSet(co) \subseteq ToSet(al)
  <2>1. C \subseteq ToSet(al)
    OBVIOUS
  <2> HIDE DEF C
  <2>2. Among(hits, C) \in Seq(CodeArts) /\ ToSet(Among(hits, C)) = ToSet(hits) \intersect C
    BY RowsAmong
  <2> QED
    BY <2>1, <2>2
<1>6. h.allowed = al /\ h.code = co
  BY DEF Hydrated, al, f, co, C
<1> HIDE DEF co
<1> QED
  BY <1>3, <1>4, <1>5, <1>6

\* The targets are chosen of the hits.
LEMMA SelectTargetsKeeps ==
    ASSUME PackKeeps, SelectTargets
    PROVE  PackKeeps'
<1> DEFINE h == Hydrated(draft.task.hits, draft.version)
           zero == [f \in Files |-> 0]
           cs == Counting(zero, h.allowed)
           t == Targets(h.code, cs)
           al == h.allowed
           co == h.code
           sy == t.symbols
           tg == t.targets
           ch == t.chars
           q == [draft EXCEPT !.pc = "neighbours", !.allowed = al, !.code = co,
                              !.symbols = sy, !.targets = tg, !.chars = ch]
<1>1. /\ draft \in PackDrafts /\ draft.pc = "targets" /\ CallHolds(draft)
      /\ draft.task \in ChangeTasks /\ draft.order \in RowOrders /\ draft.version \in Nat
  BY DEF PackKeeps, SelectTargets, PackDrafts
<1>2. draft' = q
  BY Zenon DEF SelectTargets, q, al, co, sy, tg, ch, t, cs, zero, h
<1>3. draft.task.hits \in Seq(CodeArts)
  BY <1>1, ChangeAssumption
<1>4. /\ al \in Seq(CodeArts) /\ co \in Seq(CodeArts) /\ ToSet(co) \subseteq ToSet(al)
      /\ ToSet(al) = {u \in ToSet(draft.task.hits) : CodeArt[u].visible /\ InVersion(CodeArt[u], draft.version)}
  <2> DEFINE hits == draft.task.hits
             n == draft.version
  <2>1. h = Hydrated(hits, n)
    OBVIOUS
  <2> HIDE DEF h, hits, n
  <2>2. /\ h.allowed \in Seq(CodeArts) /\ h.code \in Seq(CodeArts)
        /\ ToSet(h.allowed) = {u \in ToSet(hits) : CodeArt[u].visible /\ InVersion(CodeArt[u], n)}
        /\ ToSet(h.code) \subseteq ToSet(h.allowed)
    <3>1. hits \in Seq(CodeArts) /\ draft.order \in RowOrders
      BY <1>1, <1>3 DEF hits
    <3> QED
      BY <3>1, <2>1, HydratedFits
  <2> QED
    BY <2>2 DEF al, co, hits, n
<1> HIDE DEF h
<1>5. cs \in [Files -> Nat]
  <2>1. zero \in [Files -> Nat]
    OBVIOUS
  <2> HIDE DEF zero
  <2> QED
    BY <1>4, <2>1, CountingFits
<1> HIDE DEF cs, al, co
<1>6. /\ sy \in Seq(CodeArts) /\ tg \in Seq(Refs) /\ ch \in [Files -> Nat]
      /\ \A f \in FilesIn(tg) : ~ File[f].test /\ \E u \in ToSet(co) : FileOf(u) = f
  <2>1. /\ t \in [symbols : Seq(CodeArts), targets : Seq(Refs), chars : {cs}]
        /\ \A f \in FilesIn(t.targets) : ~ File[f].test /\ \E u \in ToSet(co) : FileOf(u) = f
    <3>1. /\ Targets(co, cs) \in [symbols : Seq(CodeArts), targets : Seq(Refs), chars : {cs}]
          /\ \A f \in FilesIn(Targets(co, cs).targets) : ~ File[f].test /\ \E u \in ToSet(co) : FileOf(u) = f
      BY <1>4, <1>5, TargetsFit
    <3>2. t = Targets(co, cs)
      BY DEF co
    <3> HIDE DEF t
    <3> QED
      BY <3>1, <3>2
  <2> HIDE DEF t
  <2> QED
    BY <1>5, <2>1
<1> HIDE DEF sy, tg, ch
<1>7. FoundNothing(draft) /\ draft.version # 0
  BY <1>1 DEF CallHolds, NotYet
<1>8. q \in PackDrafts
  <2>1. "neighbours" \in PackStages
    BY DEF PackStages
  <2> QED
    BY <1>1, <1>4, <1>6, <2>1 DEF PackDrafts
<1>9. /\ q.pc = "neighbours" /\ q.task = draft.task /\ q.version = draft.version /\ q.allowed = al
      /\ q.code = co /\ q.symbols = sy /\ q.targets = tg /\ q.edges = <<>> /\ q.near = {} /\ q.tests = <<>>
      /\ q.scored = <<>> /\ q.found = <<>> /\ q.deps = <<>>
  BY <1>1, <1>7 DEF PackDrafts, FoundNothing
<1> HIDE DEF q
<1>10. ToSet(<<>>) = {}
  BY DEF ToSet
<1>11. ToSet(draft.task.hits) \subseteq CodeArts /\ FilesIn(tg) \subseteq Files
  BY <1>3, <1>6, AmongFits, FilesInFits
<1>12. SourcesHold(q)
  <2>1. \A u \in ToSet(al) : u \in CodeArts /\ ReadableRow(q, u)
    BY <1>4, <1>9, <1>11 DEF ReadableRow
  <2>2. \A f \in FilesIn(tg) : ReadableFile(q, f) /\ ~ File[f].test
    BY <1>4, <1>6, <2>1 DEF ReadableFile
  <2> QED
    BY <1>4, <1>9, <1>10, <2>1, <2>2 DEF SourcesHold
<1>13. NothingOverlooked(q)
  <2>1. \A u \in ToSet(q.task.hits) : ReadableRow(q, u) => u \in ToSet(q.allowed)
    BY <1>4, <1>9 DEF ReadableRow
  <2> QED
    BY <1>9, <1>10, <2>1 DEF NothingOverlooked
<1>14. GuessesAreLast(q) /\ KeptWithinBudget(q) /\ NotYet(q)
  BY <1>7, <1>9, <1>10 DEF GuessesAreLast, KeptWithinBudget, NotYet
<1>15. CallHolds(q)
  BY <1>12, <1>13, <1>14 DEF CallHolds
<1> QED
  BY <1>1, <1>2, <1>8, <1>9, <1>15, PackStep DEF SelectTargets

\* The neighbours of the targets are read.
LEMMA ReadNeighboursKeeps ==
    ASSUME PackKeeps, ReadNeighbours
    PROVE  PackKeeps'
<1> DEFINE seeds == ToSet(draft.symbols) \union {u \in ToSet(draft.code) : FileOf(u) \in FilesIn(draft.targets)}
           n == draft.version
           edges == EdgesAt(seeds, {}, n)
           ids == {OtherEnd(edges[i], seeds) : i \in DOMAIN edges}
           rows == Fetched(ids, n)
           seen == Visible(rows)
           near == ToSet(seen)
           ch == Counting(draft.chars, seen)
           q == [draft EXCEPT !.pc = "tests", !.edges = edges, !.near = near, !.chars = ch]
<1>1. /\ draft \in PackDrafts /\ draft.pc = "neighbours" /\ CallHolds(draft)
      /\ draft.order \in RowOrders /\ draft.chars \in [Files -> Nat]
  BY DEF PackKeeps, ReadNeighbours, PackDrafts
<1>2. draft' = q
  <2>1. draft' = [draft EXCEPT !.pc = "tests", !.edges = edges, !.near = near, !.chars = Counting(@, seen)]
    BY Zenon DEF ReadNeighbours, edges, near, seen, rows, ids, seeds, n
  <2> HIDE DEF edges, near, seen
  <2> QED
    BY <1>1, <2>1 DEF PackDrafts
<1> HIDE DEF q
<1>3. /\ edges \in Seq(ToSet(CodeEdges))
      /\ \A e \in ToSet(edges) : e.a \in CodeArts /\ e.b \in CodeArts
  <2> HIDE DEF seeds, n
  <2> QED
    BY EdgesFit
<1> HIDE DEF edges
<1>4. ids = {OtherEnd(e, seeds) : e \in ToSet(edges)}
  BY DEF ToSet
<1> HIDE DEF ids
<1>5. rows \in Seq(CodeArts) /\ ToSet(rows) = {u \in CodeArts : u \in ids /\ InVersion(CodeArt[u], n)}
  BY <1>1, FetchedFits
<1> HIDE DEF rows
<1>6. /\ seen \in Seq(CodeArts) /\ near = {u \in ToSet(rows) : CodeArt[u].visible}
      /\ near \subseteq CodeArts
  BY <1>5, VisibleFits
<1>7. near = {u \in CodeArts : u \in ids /\ InVersion(CodeArt[u], n) /\ CodeArt[u].visible}
  BY <1>5, <1>6
<1> HIDE DEF seen
<1>8. ch \in [Files -> Nat]
  BY <1>1, <1>6, CountingFits
<1> HIDE DEF near, ch
<1>9. q \in PackDrafts
  <2>1. "tests" \in PackStages
    BY DEF PackStages
  <2> QED
    BY <1>1, <1>3, <1>6, <1>8, <2>1 DEF PackDrafts, q
<1>10. /\ q.pc = "tests" /\ q.task = draft.task /\ q.version = draft.version /\ q.allowed = draft.allowed
       /\ q.code = draft.code /\ q.symbols = draft.symbols /\ q.targets = draft.targets /\ q.edges = edges
       /\ q.near = near /\ q.tests = draft.tests /\ q.scored = draft.scored /\ q.found = draft.found
       /\ q.deps = draft.deps /\ q.scope = draft.scope
  BY <1>1 DEF PackDrafts, q
<1>11. draft.tests = <<>> /\ draft.scored = <<>> /\ draft.found = <<>> /\ draft.deps = <<>> /\ draft.version # 0
  BY <1>1 DEF CallHolds, NotYet
<1>12. ToSet(<<>>) = {}
  BY DEF ToSet
<1>13. \A u \in CodeArts : ReadableRow(q, u) <=> CodeArt[u].visible /\ InVersion(CodeArt[u], n)
  BY <1>10 DEF ReadableRow
<1>14. SourcesHold(q)
  <2>1. \A u \in ToSet(draft.allowed) : ReadableRow(q, u)
    BY <1>1, <1>10 DEF CallHolds, SourcesHold, ReadableRow
  <2>2. \A f \in FilesIn(draft.targets) : ReadableFile(q, f) /\ ~ File[f].test
    BY <1>1, <1>10 DEF CallHolds, SourcesHold, ReadableRow, ReadableFile
  <2>3. \A u \in near : ReadableRow(q, u)
    BY <1>7, <1>13
  <2>4. ToSet(draft.code) \subseteq ToSet(draft.allowed)
    BY <1>1 DEF CallHolds, SourcesHold
  <2> QED
    BY <1>10, <1>11, <1>12, <2>1, <2>2, <2>3, <2>4 DEF SourcesHold
<1>15. NothingOverlooked(q)
  <2>1. \A u \in ToSet(draft.task.hits) : ReadableRow(q, u) => u \in ToSet(draft.allowed)
    BY <1>1, <1>10, <1>11 DEF CallHolds, NothingOverlooked, ReadableRow
  <2>2. ASSUME NEW e \in ToSet(edges), ReadableRow(q, e.a), e.a \notin ToSet(draft.symbols),
               FileOf(e.a) \notin FilesIn(draft.targets)
        PROVE  e.a \in near
    <3>1. e.a \notin seeds
      BY <2>2
    <3>2. OtherEnd(e, seeds) = e.a
      BY <3>1 DEF OtherEnd
    <3>3. e.a \in ids
      BY <1>4, <3>2
    <3> QED
      BY <1>3, <1>7, <1>13, <2>2, <3>3
  <2> QED
    BY <1>10, <2>1, <2>2 DEF NothingOverlooked
<1>16. GuessesAreLast(q) /\ KeptWithinBudget(q) /\ NotYet(q)
  BY <1>10, <1>11, <1>12 DEF GuessesAreLast, KeptWithinBudget, NotYet
<1>17. CallHolds(q)
  BY <1>14, <1>15, <1>16 DEF CallHolds
<1> QED
  BY <1>1, <1>2, <1>9, <1>10, <1>17, PackStep DEF ReadNeighbours

\* The files of a list that join the tests: those that are not of another service.
LEMMA AddTestsFits ==
    ASSUME NEW tests \in Seq(Refs), NEW files \in Seq(Files), NEW conf \in Int,
           NEW chars \in [Files -> Nat], NEW scope
    PROVE  JoinedBy(AddTests(tests, files, conf, chars, scope), tests, files,
                    {f \in Files : SameService(scope, f)}, conf)
<1> DEFINE ok == {f \in Files : SameService(scope, f)}
<1>1. AddTests(tests, files, conf, chars, scope) = Selecting(tests, files, ok, conf, chars)
  BY Zenon DEF AddTests, ok
<1> HIDE DEF ok
<1>2. JoinedBy(Selecting(tests, files, ok, conf, chars), tests, files, ok, conf)
  BY SelectingFits
<1>3. JoinedBy(AddTests(tests, files, conf, chars, scope), tests, files, ok, conf)
  BY <1>1, <1>2
<1> QED
  BY <1>3 DEF ok

\* Tests that the edges and the hits know are readable, and there are none only if neither has one.
LEMMA KnownTestsFit ==
    ASSUME NEW p \in PackDrafts, SourcesHold(p), NothingOverlooked(p), p.version # 0,
           p.pc \notin {"start", "targets"}, p.scope = Scope(FilesIn(p.targets)),
           NEW q, q = KnownTests(p)
    PROVE  /\ q \in Seq(Refs)
           /\ \A r \in ToSet(q) : r.conf > 50 /\ SameService(p.scope, r.file) /\ ReadableFile(p, r.file)
           /\ q = <<>> => NoTestKnown(p)
<1> DEFINE L == {e \in ToSet(p.edges) : e.type = "tests" /\ e.b \in ToSet(p.symbols) /\ e.a \in p.near}
           M == {u \in CodeArts : File[FileOf(u)].test /\ CodeArt[u].mentions \cap Titles(p.symbols) # {}}
           linked == Among(p.edges, L)
           mentioning == Among(p.allowed, M)
           files1 == [i \in DOMAIN linked |-> FileOf(linked[i].a)]
           files2 == FilesOf(mentioning)
           ok == {f \in Files : SameService(p.scope, f)}
           byEdge == AddTests(<<>>, files1, 90, p.chars, p.scope)
<1>1. /\ p.edges \in Seq(ToSet(CodeEdges)) /\ p.allowed \in Seq(CodeArts) /\ p.chars \in [Files -> Nat]
      /\ p.near \subseteq CodeArts
  BY DEF PackDrafts
<1>2. linked \in Seq(ToSet(CodeEdges)) /\ ToSet(linked) = ToSet(p.edges) \intersect L
  <2> HIDE DEF L
  <2> QED
    BY <1>1, AmongFits
<1>3. mentioning \in Seq(CodeArts) /\ ToSet(mentioning) = ToSet(p.allowed) \intersect M
  <2> HIDE DEF M
  <2> QED
    BY <1>1, RowsAmong
<1>4. ToSet(linked) = L /\ L \subseteq ToSet(CodeEdges) /\ \A e \in L : e.a \in CodeArts
  <2>1. ToSet(linked) = L
    BY <1>2
  <2>2. \A e \in L : e.a \in CodeArts
    BY <1>1
  <2>3. ToSet(p.edges) \subseteq ToSet(CodeEdges)
    BY <1>1, AmongFits
  <2> QED
    BY <2>1, <2>2, <2>3
<1> HIDE DEF linked, mentioning
<1>5. files1 \in Seq(Files) /\ ToSet(files1) = {FileOf(e.a) : e \in L}
  <2>1. DOMAIN linked = 1 .. Len(linked) /\ Len(linked) \in Nat /\ \A i \in DOMAIN linked : linked[i] \in L
    BY <1>2, <1>4 DEF ToSet
  <2>2. \A i \in DOMAIN linked : FileOf(linked[i].a) \in Files
    BY <1>4, <2>1, ChangeAssumption DEF FileOf
  <2>3. ToSet(files1) = {FileOf(e.a) : e \in ToSet(linked)}
    BY DEF ToSet
  <2> QED
    BY <1>4, <2>1, <2>2, <2>3
<1>6. files2 \in Seq(Files) /\ ToSet(files2) = {FileOf(u) : u \in ToSet(p.allowed) \intersect M}
  BY <1>3, FilesOfFits
<1> HIDE DEF files1, files2
<1>7. JoinedBy(byEdge, <<>>, files1, ok, 90)
  <2> DEFINE chars == p.chars
             none == <<>>
             scope == p.scope
  <2>1. none \in Seq(Refs) /\ 90 \in Int /\ chars \in [Files -> Nat]
    BY <1>1
  <2> HIDE DEF chars, none, scope
  <2>2. JoinedBy(AddTests(none, files1, 90, chars, scope), none, files1, {f \in Files : SameService(scope, f)}, 90)
    BY <1>5, <2>1, AddTestsFits
  <2> QED
    BY <2>2 DEF chars, none, scope
<1> HIDE DEF byEdge
<1>8. byEdge \in Seq(Refs)
  BY <1>7 DEF JoinedBy
<1>9. JoinedBy(q, byEdge, files2, ok, 80)
  <2> DEFINE chars == p.chars
             scope == p.scope
  <2>1. 80 \in Int /\ chars \in [Files -> Nat]
    BY <1>1
  <2>2. q = AddTests(byEdge, files2, 80, chars, scope)
    BY Zenon DEF KnownTests, chars, scope, byEdge, files1, files2, linked, mentioning, L, M
  <2> HIDE DEF chars, scope
  <2>3. JoinedBy(AddTests(byEdge, files2, 80, chars, scope), byEdge, files2, {f \in Files : SameService(scope, f)}, 80)
    BY <1>6, <1>8, <2>1, AddTestsFits
  <2> QED
    BY <2>2, <2>3 DEF scope
<1> HIDE DEF ok
<1>10. ToSet(<<>>) = {} /\ FilesIn(<<>>) = {}
  BY DEF ToSet, FilesIn
<1>11. \A f \in ToSet(files1) \union ToSet(files2) : ReadableFile(p, f)
  <2>1. ASSUME NEW e \in L PROVE ReadableFile(p, FileOf(e.a))
    BY <1>4 DEF SourcesHold, ReadableFile
  <2>2. ASSUME NEW u \in ToSet(p.allowed), u \in CodeArts PROVE ReadableFile(p, FileOf(u))
    BY <2>2 DEF SourcesHold, ReadableFile
  <2>3. ToSet(p.allowed) \intersect M \subseteq CodeArts
    OBVIOUS
  <2> QED
    BY <1>5, <1>6, <2>1, <2>2, <2>3
<1>12. \A f \in ok : SameService(p.scope, f)
  BY DEF ok
<1>13. \A r \in ToSet(byEdge) : r.conf = 90 /\ r.file \in ToSet(files1) \intersect ok
  BY <1>7, <1>10 DEF JoinedBy
<1>14. \A r \in ToSet(q) : /\ r.conf = 90 \/ r.conf = 80
                           /\ r.file \in ToSet(files1) \union ToSet(files2) /\ r.file \in ok
  BY <1>9, <1>13 DEF JoinedBy
<1>15. \A r \in ToSet(q) : r.conf > 50 /\ SameService(p.scope, r.file) /\ ReadableFile(p, r.file)
  BY <1>11, <1>12, <1>14
<1>16. ASSUME q = <<>> PROVE NoTestKnown(p)
  <2>1. ToSet(files1) \intersect ok = {} /\ ToSet(files2) \intersect ok = {}
    BY <1>7, <1>9, <1>10, <1>16 DEF JoinedBy
  <2>2. ASSUME NEW e \in ToSet(p.edges), e.type = "tests", e.b \in ToSet(p.symbols), RowInScope(p, e.a),
               FileOf(e.a) \notin FilesIn(p.targets), e.a \notin ToSet(p.symbols)
        PROVE  FALSE
    <3>1. e \in L /\ e.a \in CodeArts
      BY <1>1, <2>2, <1>4 DEF NothingOverlooked, RowInScope
    <3>2. FileOf(e.a) \in Files /\ SameService(p.scope, FileOf(e.a))
      BY <2>2, <3>1, ChangeAssumption DEF RowInScope, FileOf
    <3> QED
      BY <1>5, <2>1, <3>1, <3>2 DEF ok
  <2>3. ASSUME NEW u \in ToSet(p.task.hits), RowInScope(p, u), File[FileOf(u)].test,
               CodeArt[u].mentions \cap Titles(p.symbols) # {}
        PROVE  FALSE
    <3>1. u \in ToSet(p.allowed)
      BY <2>3 DEF NothingOverlooked, RowInScope
    <3>2. u \in CodeArts
      BY <1>1, <3>1, AmongFits
    <3>3. FileOf(u) \in Files /\ SameService(p.scope, FileOf(u))
      BY <2>3, <3>2, ChangeAssumption DEF RowInScope, FileOf
    <3> QED
      BY <1>6, <2>1, <2>3, <3>1, <3>2, <3>3 DEF ok
  <2> QED
    BY <2>2, <2>3 DEF NoTestKnown
<1> QED
  BY <1>9, <1>15, <1>16 DEF JoinedBy

\* The focused search finds readable tests, and none only if there is none.
LEMMA SearchedTestsFit ==
    ASSUME draft.order \in RowOrders, NEW p \in PackDrafts, p.scope = Scope(FilesIn(p.targets))
    PROVE  \E ts \in Seq(Refs), ch \in [Files -> Nat] :
              /\ SearchedTests(p) = [p EXCEPT !.chars = ch, !.tests = ts]
              /\ \A r \in ToSet(ts) : r.conf > 50 /\ SameService(p.scope, r.file) /\ ReadableFile(p, r.file)
              /\ ts = <<>> => NoTestSearched(p)
<1> DEFINE hits == ToSet(p.task.testHits)
           got == Fetched(hits, p.version)
           seen == Visible(got)
           T == {u \in CodeArts : File[FileOf(u)].test}
           rows == Among(seen, T)
           upto(i) == Counting(p.chars, SubSeq(rows, 1, i))
           refs == [i \in DOMAIN rows |-> Ref(FileOf(rows[i]), 70, upto(i))]
           new == {i \in DOMAIN rows : /\ SameService(p.scope, FileOf(rows[i]))
                                       /\ \A j \in 1 .. i - 1 : FileOf(rows[j]) # FileOf(rows[i])}
           ts == Picked(refs, new)
           ch == Counting(p.chars, rows)
<1>1. p.chars \in [Files -> Nat] /\ hits \subseteq CodeArts
  <2>1. p.task \in ChangeTasks /\ p.chars \in [Files -> Nat]
    BY DEF PackDrafts
  <2>2. p.task.testHits \in Seq(CodeArts)
    BY <2>1, ChangeAssumption
  <2> QED
    BY <2>1, <2>2, AmongFits
<1> HIDE DEF hits
<1>2. got \in Seq(CodeArts) /\ ToSet(got) = {u \in CodeArts : u \in hits /\ InVersion(CodeArt[u], p.version)}
  BY FetchedFits
<1> HIDE DEF got
<1>3. seen \in Seq(CodeArts) /\ ToSet(seen) = {u \in ToSet(got) : CodeArt[u].visible}
  BY <1>2, VisibleFits
<1> HIDE DEF seen
<1>4. rows \in Seq(CodeArts) /\ ToSet(rows) = ToSet(seen) \intersect T
  <2> HIDE DEF T
  <2> QED
    BY <1>3, RowsAmong
<1>5. ToSet(rows) = {u \in CodeArts : u \in hits /\ ReadableRow(p, u) /\ File[FileOf(u)].test}
  BY <1>2, <1>3, <1>4 DEF ReadableRow
<1> HIDE DEF rows
<1>6. Len(rows) \in Nat /\ DOMAIN rows = 1 .. Len(rows) /\ \A i \in DOMAIN rows : rows[i] \in CodeArts /\ FileOf(rows[i]) \in Files
  BY <1>4, ChangeAssumption DEF FileOf
<1>7. ch \in [Files -> Nat]
  BY <1>1, <1>4, CountingFits
<1>8. \A i \in DOMAIN rows : upto(i) \in [Files -> Nat]
  <2> TAKE i \in DOMAIN rows
  <2> DEFINE s == SubSeq(rows, 1, i)
  <2>1. s \in Seq(CodeArts)
    BY <1>4, <1>6
  <2> HIDE DEF s
  <2>2. Counting(p.chars, s) \in [Files -> Nat]
    BY <1>1, <2>1, CountingFits
  <2> QED
    BY <2>2 DEF s
<1> HIDE DEF upto, ch
<1>9. \A i \in DOMAIN rows : /\ Ref(FileOf(rows[i]), 70, upto(i)) \in Refs
                             /\ Ref(FileOf(rows[i]), 70, upto(i)).file = FileOf(rows[i])
                             /\ Ref(FileOf(rows[i]), 70, upto(i)).conf = 70
  BY <1>6, <1>8, RefFits
<1>10. refs \in Seq(Refs) /\ DOMAIN refs = DOMAIN rows
  BY <1>6, <1>9
<1>11. \A i \in DOMAIN rows : refs[i].file = FileOf(rows[i]) /\ refs[i].conf = 70
  BY <1>9
<1> HIDE DEF refs
<1>12. ts \in Seq(Refs) /\ ToSet(ts) = {refs[i] : i \in new}
  <2>1. new \in SUBSET DOMAIN refs
    BY <1>10
  <2> HIDE DEF new
  <2> QED
    BY <1>10, <2>1, PickedOf
<1>13. ASSUME NEW r \in ToSet(ts) PROVE r.conf > 50 /\ SameService(p.scope, r.file) /\ ReadableFile(p, r.file)
  <2>1. PICK i \in new : r = refs[i]
    BY <1>12
  <2>2. i \in DOMAIN rows /\ SameService(p.scope, FileOf(rows[i])) /\ r.file = FileOf(rows[i]) /\ r.conf = 70
    BY <1>11, <2>1
  <2>3. rows[i] \in ToSet(rows)
    BY <2>2 DEF ToSet
  <2>4. ReadableRow(p, rows[i]) /\ rows[i] \in CodeArts
    BY <1>5, <2>3
  <2> QED
    BY <2>2, <2>4 DEF ReadableFile
<1>14. ASSUME ts = <<>> PROVE NoTestSearched(p)
  <2>1. new = {}
    <3>1. ToSet(ts) = {}
      BY <1>14 DEF ToSet
    <3> HIDE DEF ts, new
    <3> QED
      BY <1>12, <3>1
  <2>2. ASSUME NEW u \in hits, RowInScope(p, u), File[FileOf(u)].test PROVE FALSE
    <3>1. u \in ToSet(rows)
      BY <1>1, <1>5, <2>2 DEF RowInScope
    <3> DEFINE S == {j \in DOMAIN rows : FileOf(rows[j]) = FileOf(u)}
    <3>2. S # {} /\ S \in SUBSET (0 .. Len(rows))
      BY <1>6, <3>1 DEF ToSet
    <3> DEFINE m == Min(S)
    <3>3. m \in S /\ \A y \in S : m <= y
      <4> HIDE DEF S
      <4> QED
        BY <1>6, <3>2, MinOfSome
    <3> HIDE DEF m
    <3>4. m \in DOMAIN rows /\ FileOf(rows[m]) = FileOf(u) /\ m \in Nat
      BY <1>6, <3>3
    <3>5. \A j \in 1 .. m - 1 : FileOf(rows[j]) # FileOf(rows[m])
      <4>1. ASSUME NEW j \in 1 .. m - 1, FileOf(rows[j]) = FileOf(rows[m]) PROVE FALSE
        <5>1. j \in DOMAIN rows /\ j < m
          BY <1>6, <3>4
        <5> QED
          BY <3>3, <3>4, <4>1, <5>1
      <4> QED
        BY <4>1
    <3>6. SameService(p.scope, FileOf(u))
      BY <2>2 DEF RowInScope
    <3> QED
      BY <2>1, <3>4, <3>5, <3>6
  <2> QED
    BY <2>2 DEF NoTestSearched, hits
<1>15. SearchedTests(p) = [p EXCEPT !.chars = ch, !.tests = ts]
  <2>1. SearchedTests(p) = [p EXCEPT !.chars = Counting(@, rows), !.tests = ts]
    BY Zenon DEF SearchedTests, ts, refs, upto, new, rows, T, seen, got, hits
  <2> HIDE DEF ts
  <2> QED
    BY <2>1 DEF ch, PackDrafts
<1> HIDE DEF ts
<1> QED
  BY <1>7, <1>12, <1>13, <1>14, <1>15

\* Guesses are tests of no other service.
LEMMA GuessedTestsFit ==
    ASSUME NEW p \in PackDrafts, NEW q, q = GuessedTests(p)
    PROVE  q \in Seq(Refs) /\ \A r \in ToSet(q) : r.conf = 50 /\ SameService(p.scope, r.file)
<1> DEFINE S == [i \in DOMAIN p.paths |-> File[p.paths[i]].guesses]
           files == FlattenSeq(S)
           none == <<>>
           chars == p.chars
           scope == p.scope
<1>1. p.paths \in Seq(Files) /\ chars \in [Files -> Nat] /\ none \in Seq(Refs) /\ 50 \in Int
  BY DEF PackDrafts
<1>2. S \in Seq(Seq(Files))
  <2>1. DOMAIN p.paths = 1 .. Len(p.paths) /\ Len(p.paths) \in Nat /\ \A i \in DOMAIN p.paths : p.paths[i] \in Files
    BY <1>1
  <2>2. \A f \in Files : File[f].guesses \in Seq(Files)
    BY ChangeAssumption
  <2> QED
    BY <2>1, <2>2
<1> HIDE DEF S
<1>3. files \in Seq(Files)
  <2>1. PICK h \in [0 .. Len(S) -> Seq(Files)] : JoinsOf(S, h)
    BY <1>2, FlattenTable
  <2>2. files = h[Len(S)]
    BY <1>2, <2>1, FlattenIs
  <2>3. Len(S) \in 0 .. Len(S)
    BY <1>2
  <2> QED
    BY <2>1, <2>2, <2>3
<1> HIDE DEF files
<1>4. q = AddTests(none, files, 50, chars, scope)
  BY DEF GuessedTests, files, S
<1> HIDE DEF chars, none, scope
<1>5. JoinedBy(AddTests(none, files, 50, chars, scope), none, files, {f \in Files : SameService(scope, f)}, 50)
  BY <1>1, <1>3, AddTestsFits
<1>6. ToSet(none) = {}
  BY DEF none, ToSet
<1> QED
  BY <1>4, <1>5, <1>6 DEF JoinedBy, scope

\* The ranking keeps tests of the selection.
LEMMA TestsRankedFit ==
    ASSUME NEW p \in PackDrafts
    PROVE  TestsRanked(p) \in Seq(Refs) /\ ToSet(TestsRanked(p)) \subseteq ToSet(p.tests)
<1> DEFINE s == p.tests
           key(i) == (IF NamesATarget(p, s[i].file) THEN 0 ELSE 100000)
                     - 100 * Proximity(p.paths, s[i].file) - s[i].conf
           keys == [i \in DOMAIN s |-> key(i)]
<1>1. s \in Seq(Refs) /\ p.paths \in Seq(Files)
  BY DEF PackDrafts
<1>2. ASSUME NEW i \in DOMAIN s PROVE key(i) \in Int
  <2>1. s[i] \in Refs
    BY <1>1
  <2>2. s[i].conf \in Int /\ s[i].file \in Files
    BY <2>1 DEF Refs
  <2>3. Proximity(p.paths, s[i].file) \in Nat
    <3>1. p.paths # <<>> => p.paths[1] \in Files
      BY <1>1
    <3> QED
      BY <2>2, <3>1, ChangeAssumption DEF Proximity
  <2> QED
    BY <2>2, <2>3
<1>3. TestsRanked(p) = Ranked(s, keys, MaxTests)
  BY DEF TestsRanked
<1> HIDE DEF key
<1>4. keys \in [DOMAIN s -> Int] /\ MaxTests \in Nat
  BY <1>2, ChangeAssumption
<1> HIDE DEF keys, s
<1> QED
  BY <1>1, <1>3, <1>4, RankedFits DEF s

\* Where tests are chosen.
TestStages == {"search", "guess", "rank", "imports"}

\* q is p with other tests, at another step.
OtherTests(p, q) ==
    /\ p \in PackDrafts /\ q \in PackDrafts /\ p.pc \in TestStages /\ q.pc \in TestStages
    /\ q.task = p.task /\ q.version = p.version /\ q.allowed = p.allowed /\ q.code = p.code
    /\ q.symbols = p.symbols /\ q.targets = p.targets /\ q.edges = p.edges /\ q.near = p.near
    /\ q.scope = p.scope /\ q.scored = p.scored /\ q.found = p.found /\ q.deps = p.deps
    /\ \A r \in ToSet(q.tests) : SameService(p.scope, r.file) /\ (r.conf > 50 => ReadableFile(p, r.file))

\* What was known without the tests is still known.
LEMMA TestsChange ==
    ASSUME NEW p, NEW q, OtherTests(p, q), SourcesHold(p), NothingOverlooked(p), NotYet(p), GuessesAreLast(q)
    PROVE  CallHolds(q)
<1>1. /\ p.pc \notin {"start", "targets", "neighbours", "tests", "ledger", "done"}
      /\ q.pc \notin {"start", "targets", "neighbours", "tests", "ledger", "done"}
  BY DEF OtherTests, TestStages
<1>2. \A u : ReadableRow(q, u) <=> ReadableRow(p, u)
  BY DEF ReadableRow, OtherTests
<1>3. \A f : ReadableFile(q, f) <=> ReadableFile(p, f)
  BY <1>2 DEF ReadableFile
<1>4. \A f : MayDepend(q, f) <=> MayDepend(p, f)
  BY <1>3 DEF MayDepend, OtherTests
<1>5. SourcesHold(q)
  BY <1>2, <1>3, <1>4 DEF SourcesHold, OtherTests
<1>6. NothingOverlooked(q)
  BY <1>1, <1>2 DEF NothingOverlooked, OtherTests
<1>7. KeptWithinBudget(q)
  BY <1>1 DEF KeptWithinBudget
<1>8. NotYet(q)
  BY <1>1 DEF NotYet, OtherTests
<1> QED
  BY <1>5, <1>6, <1>7, <1>8 DEF CallHolds

\* Whether there are tests is asked of the same rows.
LEMMA SameQuestion ==
    ASSUME NEW p, NEW q, OtherTests(p, q)
    PROVE  (NoTestKnown(q) <=> NoTestKnown(p)) /\ (NoTestSearched(q) <=> NoTestSearched(p))
<1>1. \A u : RowInScope(q, u) <=> RowInScope(p, u)
  BY DEF RowInScope, ReadableRow, OtherTests
<1> QED
  BY <1>1 DEF NoTestKnown, NoTestSearched, OtherTests

\* The tests that are known.
LEMMA FindKnownTestsKeeps ==
    ASSUME PackKeeps, FindKnownTests
    PROVE  PackKeeps'
<1>1. draft \in PackDrafts /\ draft.pc = "tests" /\ CallHolds(draft) /\ draft.targets \in Seq(Refs)
  BY DEF PackKeeps, FindKnownTests, Steps, PackDrafts
<1> DEFINE names == FilesIn(draft.targets)
           scope == Scope(names)
<1>2. PICK order \in SetToSeqs(names) :
        LET p == [draft EXCEPT !.paths = order, !.scope = scope, !.pc = "search"]
        IN  Steps("tests", [p EXCEPT !.tests = KnownTests(p)])
  BY Zenon DEF FindKnownTests, names, scope
<1> DEFINE p == [draft EXCEPT !.paths = order, !.scope = scope, !.pc = "search"]
           ts == KnownTests(p)
           q == [p EXCEPT !.tests = ts]
<1>3. names \subseteq Files /\ IsFiniteSet(names)
  BY <1>1, FilesInFits
<1> HIDE DEF names
<1>4. order \in Seq(Files)
  <2>1. Cardinality(names) \in Nat
    BY <1>3, FS_CardinalityType
  <2>2. order \in [1 .. Cardinality(names) -> names]
    BY <1>2 DEF SetToSeqs
  <2> QED
    BY <1>3, <2>1, <2>2
<1>5. scope \in Scopes
  BY <1>3, ScopeFits
<1> HIDE DEF scope
<1>6. p \in PackDrafts
  <2>1. "search" \in PackStages
    BY DEF PackStages
  <2> QED
    BY <1>1, <1>4, <1>5, <2>1 DEF PackDrafts
<1>7. /\ p.pc = "search" /\ p.task = draft.task /\ p.version = draft.version /\ p.allowed = draft.allowed
      /\ p.code = draft.code /\ p.symbols = draft.symbols /\ p.targets = draft.targets /\ p.edges = draft.edges
      /\ p.near = draft.near /\ p.tests = draft.tests /\ p.scored = draft.scored /\ p.found = draft.found
      /\ p.deps = draft.deps /\ p.scope = scope
  BY <1>1 DEF PackDrafts
<1>8. draft' = q
  BY <1>2 DEF Steps
<1> HIDE DEF p
<1>9. draft.tests = <<>> /\ draft.scored = <<>> /\ draft.found = <<>> /\ draft.deps = <<>> /\ draft.version # 0
  BY <1>1 DEF CallHolds, NotYet
<1>10. p.scope = Scope(FilesIn(p.targets))
  BY <1>7 DEF scope, names
<1>11. ToSet(<<>>) = {}
  BY DEF ToSet
<1>12. \A u : ReadableRow(p, u) <=> ReadableRow(draft, u)
  BY <1>7 DEF ReadableRow
<1>13. SourcesHold(p)
  <2>1. \A f : ReadableFile(p, f) <=> ReadableFile(draft, f)
    BY <1>12 DEF ReadableFile
  <2>2. SourcesHold(draft)
    BY <1>1 DEF CallHolds
  <2> QED
    BY <1>7, <1>9, <1>11, <1>12, <2>1, <2>2 DEF SourcesHold
<1>14. NothingOverlooked(p)
  <2>1. NothingOverlooked(draft)
    BY <1>1 DEF CallHolds
  <2> QED
    BY <1>1, <1>7, <1>12, <2>1 DEF NothingOverlooked
<1>15. NotYet(p)
  BY <1>7, <1>9, <1>10 DEF NotYet
<1>16. /\ ts \in Seq(Refs)
       /\ \A r \in ToSet(ts) : r.conf > 50 /\ SameService(p.scope, r.file) /\ ReadableFile(p, r.file)
       /\ ts = <<>> => NoTestKnown(p)
  BY <1>6, <1>7, <1>9, <1>10, <1>13, <1>14, KnownTestsFit
<1> HIDE DEF ts
<1>17. q \in PackDrafts
  BY <1>6, <1>16 DEF PackDrafts
<1>18. /\ q.pc = p.pc /\ q.task = p.task /\ q.version = p.version /\ q.allowed = p.allowed /\ q.code = p.code
       /\ q.symbols = p.symbols /\ q.targets = p.targets /\ q.edges = p.edges /\ q.near = p.near
       /\ q.scope = p.scope /\ q.scored = p.scored /\ q.found = p.found /\ q.deps = p.deps /\ q.tests = ts
  BY <1>6 DEF PackDrafts
<1> HIDE DEF q
<1>19. OtherTests(p, q)
  BY <1>6, <1>7, <1>16, <1>17, <1>18 DEF OtherTests, TestStages
<1>20. NoTestKnown(q) <=> NoTestKnown(p)
  BY <1>19, SameQuestion
<1>21. GuessesAreLast(q)
  <2>1. \A r \in ToSet(ts) : r.conf > 50 /\ r.conf # 50
    <3> TAKE r \in ToSet(ts)
    <3>1. r \in Refs
      BY <1>16, FilesInFits
    <3> QED
      BY <1>16, <3>1 DEF Refs
  <2> QED
    BY <1>7, <1>16, <1>18, <1>20, <2>1 DEF GuessesAreLast
<1>22. CallHolds(q)
  BY <1>13, <1>14, <1>15, <1>19, <1>21, TestsChange
<1>23. UNCHANGED <<activeSeq, packRows>>
  BY <1>2 DEF Steps
<1> QED
  BY <1>1, <1>7, <1>8, <1>17, <1>18, <1>22, <1>23, PackStep

\* A step that only chooses other tests.
LEMMA TestStep ==
    ASSUME PackKeeps, draft.pc \in {"search", "guess", "rank"}, NEW pc \in {"guess", "rank", "imports"},
           NEW ts \in Seq(Refs), NEW ch \in [Files -> Nat],
           draft' = [draft EXCEPT !.pc = pc, !.tests = ts, !.chars = ch], UNCHANGED <<activeSeq, packRows>>,
           \A r \in ToSet(ts) : SameService(draft.scope, r.file) /\ (r.conf > 50 => ReadableFile(draft, r.file)),
           pc = "guess" => \A r \in ToSet(ts) : r.conf > 50,
           pc = "guess" /\ ts = <<>> => NoTestKnown(draft) /\ NoTestSearched(draft),
           (\E r \in ToSet(ts) : r.conf = 50) =>
             (\A r \in ToSet(ts) : r.conf = 50) /\ NoTestKnown(draft) /\ NoTestSearched(draft)
    PROVE  PackKeeps'
<1> DEFINE q == [draft EXCEPT !.pc = pc, !.tests = ts, !.chars = ch]
<1>1. draft \in PackDrafts /\ CallHolds(draft)
  BY DEF PackKeeps
<1>2. q \in PackDrafts
  <2>1. pc \in PackStages
    BY DEF PackStages
  <2> QED
    BY <1>1, <2>1 DEF PackDrafts
<1>3. /\ q.pc = pc /\ q.task = draft.task /\ q.version = draft.version /\ q.allowed = draft.allowed
      /\ q.code = draft.code /\ q.symbols = draft.symbols /\ q.targets = draft.targets /\ q.edges = draft.edges
      /\ q.near = draft.near /\ q.scope = draft.scope /\ q.scored = draft.scored /\ q.found = draft.found
      /\ q.deps = draft.deps /\ q.tests = ts
  BY <1>1 DEF PackDrafts
<1>4. draft' = q
  OBVIOUS
<1> HIDE DEF q
<1>5. OtherTests(draft, q)
  BY <1>1, <1>2, <1>3 DEF OtherTests, TestStages
<1>6. (NoTestKnown(q) <=> NoTestKnown(draft)) /\ (NoTestSearched(q) <=> NoTestSearched(draft))
  BY <1>5, SameQuestion
<1>7. GuessesAreLast(q)
  BY <1>3, <1>6 DEF GuessesAreLast
<1>8. CallHolds(q)
  <2>1. SourcesHold(draft) /\ NothingOverlooked(draft) /\ NotYet(draft)
    BY <1>1 DEF CallHolds
  <2> QED
    BY <1>5, <1>7, <2>1, TestsChange
<1>9. draft.pc # "done" /\ q.pc # "done"
  BY <1>3
<1> QED
  BY <1>2, <1>4, <1>8, <1>9, PackStep

\* What is known of the tests so far.
LEMMA TestsSoFar ==
    ASSUME PackKeeps, draft.pc \in {"search", "guess", "rank"}
    PROVE  /\ draft \in PackDrafts /\ draft.order \in RowOrders /\ draft.chars \in [Files -> Nat]
           /\ draft.tests \in Seq(Refs) /\ draft.scope = Scope(FilesIn(draft.targets))
           /\ \A r \in ToSet(draft.tests) : /\ SameService(draft.scope, r.file)
                                            /\ r.conf > 50 => ReadableFile(draft, r.file)
           /\ GuessesAreLast(draft)
<1>1. draft \in PackDrafts /\ CallHolds(draft)
  BY DEF PackKeeps
<1>2. SourcesHold(draft) /\ GuessesAreLast(draft) /\ NotYet(draft)
  BY <1>1 DEF CallHolds
<1>3. draft.scope = Scope(FilesIn(draft.targets))
  BY <1>2 DEF NotYet
<1>4. \A r \in ToSet(draft.tests) : SameService(draft.scope, r.file) /\ (r.conf > 50 => ReadableFile(draft, r.file))
  BY <1>2 DEF SourcesHold
<1> QED
  BY <1>1, <1>2, <1>3, <1>4 DEF PackDrafts

\* A focused search where nothing is known.
LEMMA SearchTestsKeeps ==
    ASSUME PackKeeps, SearchTests
    PROVE  PackKeeps'
<1>1. draft.pc = "search" /\ UNCHANGED <<activeSeq, packRows>>
  BY DEF SearchTests, Steps
<1>2. draft' = [(IF draft.tests = <<>> THEN SearchedTests(draft) ELSE draft) EXCEPT !.pc = "guess"]
  BY DEF SearchTests, Steps
<1>3. /\ draft \in PackDrafts /\ draft.order \in RowOrders /\ draft.chars \in [Files -> Nat]
      /\ draft.tests \in Seq(Refs) /\ draft.scope = Scope(FilesIn(draft.targets))
      /\ \A r \in ToSet(draft.tests) : /\ SameService(draft.scope, r.file)
                                       /\ r.conf > 50 => ReadableFile(draft, r.file)
      /\ GuessesAreLast(draft)
  BY <1>1, TestsSoFar
<1>4. \A r \in ToSet(draft.tests) : r.conf > 50 /\ r.conf # 50
  <2> TAKE r \in ToSet(draft.tests)
  <2>1. r \in Refs
    BY <1>3, FilesInFits
  <2> QED
    BY <1>1, <1>3, <2>1 DEF GuessesAreLast, Refs
<1>5. CASE draft.tests # <<>>
  <2> DEFINE ts == draft.tests
             ch == draft.chars
  <2>1. draft' = [draft EXCEPT !.pc = "guess", !.tests = ts, !.chars = ch]
    BY <1>2, <1>3, <1>5 DEF PackDrafts
  <2> HIDE DEF ts, ch
  <2>2. /\ ts \in Seq(Refs) /\ ch \in [Files -> Nat] /\ ts # <<>>
        /\ \A r \in ToSet(ts) : /\ SameService(draft.scope, r.file)
                                /\ r.conf > 50 => ReadableFile(draft, r.file)
        /\ \A r \in ToSet(ts) : r.conf > 50 /\ r.conf # 50
    BY <1>3, <1>4, <1>5 DEF ts, ch
  <2> QED
    BY <1>1, <2>1, <2>2, TestStep
<1>6. CASE draft.tests = <<>>
  <2>1. PICK ts \in Seq(Refs), ch \in [Files -> Nat] :
              /\ SearchedTests(draft) = [draft EXCEPT !.chars = ch, !.tests = ts]
              /\ \A r \in ToSet(ts) : r.conf > 50 /\ SameService(draft.scope, r.file) /\ ReadableFile(draft, r.file)
              /\ ts = <<>> => NoTestSearched(draft)
    BY <1>3, SearchedTestsFit
  <2>2. draft' = [draft EXCEPT !.pc = "guess", !.tests = ts, !.chars = ch]
    BY <1>2, <1>3, <1>6, <2>1 DEF PackDrafts
  <2>3. NoTestKnown(draft)
    BY <1>1, <1>3, <1>6 DEF GuessesAreLast
  <2>4. \A r \in ToSet(ts) : r.conf # 50
    <3> TAKE r \in ToSet(ts)
    <3>1. r \in Refs
      BY FilesInFits
    <3> QED
      BY <2>1, <3>1 DEF Refs
  <2> QED
    BY <1>1, <2>1, <2>2, <2>3, <2>4, TestStep
<1> QED
  BY <1>5, <1>6

\* Guesses where the search found nothing either.
LEMMA GuessTestsKeeps ==
    ASSUME PackKeeps, GuessTests
    PROVE  PackKeeps'
<1>1. draft.pc = "guess" /\ UNCHANGED <<activeSeq, packRows>>
  BY DEF GuessTests, Steps
<1>2. /\ draft \in PackDrafts /\ draft.order \in RowOrders /\ draft.chars \in [Files -> Nat]
      /\ draft.tests \in Seq(Refs) /\ draft.scope = Scope(FilesIn(draft.targets))
      /\ \A r \in ToSet(draft.tests) : /\ SameService(draft.scope, r.file)
                                       /\ r.conf > 50 => ReadableFile(draft, r.file)
      /\ GuessesAreLast(draft)
  BY <1>1, TestsSoFar
<1> DEFINE ts == IF draft.tests = <<>> THEN GuessedTests(draft) ELSE draft.tests
           ch == draft.chars
<1>3. draft' = [draft EXCEPT !.pc = "rank", !.tests = ts, !.chars = ch]
  <2>1. draft' = [draft EXCEPT !.pc = "rank", !.tests = IF @ = <<>> THEN GuessedTests(draft) ELSE @]
    BY DEF GuessTests, Steps
  <2> QED
    BY <1>2, <2>1 DEF PackDrafts
<1>4. GuessedTests(draft) \in Seq(Refs) /\ \A r \in ToSet(GuessedTests(draft)) : r.conf = 50 /\ SameService(draft.scope, r.file)
  BY <1>2, GuessedTestsFit
<1>5. ts \in Seq(Refs) /\ ch \in [Files -> Nat]
  BY <1>2, <1>4
<1>6. draft.tests = <<>> => NoTestKnown(draft) /\ NoTestSearched(draft)
  BY <1>1, <1>2 DEF GuessesAreLast
<1>7. CASE draft.tests = <<>>
  <2>1. \A r \in ToSet(ts) : r.conf = 50 /\ SameService(draft.scope, r.file)
    BY <1>4, <1>7
  <2> HIDE DEF ts, ch
  <2>2. \A r \in ToSet(ts) : SameService(draft.scope, r.file) /\ (r.conf > 50 => ReadableFile(draft, r.file))
    BY <2>1
  <2>3. (\E r \in ToSet(ts) : r.conf = 50) =>
          (\A r \in ToSet(ts) : r.conf = 50) /\ NoTestKnown(draft) /\ NoTestSearched(draft)
    BY <1>6, <1>7, <2>1
  <2> QED
    BY <1>1, <1>3, <1>5, <2>2, <2>3, TestStep
<1>8. CASE draft.tests # <<>>
  <2>1. /\ \A r \in ToSet(ts) : /\ SameService(draft.scope, r.file)
                                /\ r.conf > 50 => ReadableFile(draft, r.file)
        /\ (\E r \in ToSet(ts) : r.conf = 50) =>
             (\A r \in ToSet(ts) : r.conf = 50) /\ NoTestKnown(draft) /\ NoTestSearched(draft)
    BY <1>2, <1>8 DEF GuessesAreLast
  <2> HIDE DEF ts, ch
  <2> QED
    BY <1>1, <1>3, <1>5, <2>1, TestStep
<1> QED
  BY <1>7, <1>8

\* The best of the tests.
LEMMA RankTestsKeeps ==
    ASSUME PackKeeps, RankTests
    PROVE  PackKeeps'
<1>1. draft.pc = "rank" /\ UNCHANGED <<activeSeq, packRows>>
  BY DEF RankTests, Steps
<1>2. /\ draft \in PackDrafts /\ draft.order \in RowOrders /\ draft.chars \in [Files -> Nat]
      /\ draft.tests \in Seq(Refs) /\ draft.scope = Scope(FilesIn(draft.targets))
      /\ \A r \in ToSet(draft.tests) : /\ SameService(draft.scope, r.file)
                                       /\ r.conf > 50 => ReadableFile(draft, r.file)
      /\ GuessesAreLast(draft)
  BY <1>1, TestsSoFar
<1> DEFINE ts == TestsRanked(draft)
           ch == draft.chars
<1>3. draft' = [draft EXCEPT !.pc = "imports", !.tests = ts, !.chars = ch]
  <2>1. draft' = [draft EXCEPT !.pc = "imports", !.tests = ts]
    BY DEF RankTests, Steps
  <2> HIDE DEF ts
  <2> QED
    BY <1>2, <2>1 DEF PackDrafts
<1>4. ts \in Seq(Refs) /\ ToSet(ts) \subseteq ToSet(draft.tests) /\ ch \in [Files -> Nat]
  BY <1>2, TestsRankedFit
<1> HIDE DEF ts, ch
<1>5. /\ \A r \in ToSet(ts) : /\ SameService(draft.scope, r.file)
                              /\ r.conf > 50 => ReadableFile(draft, r.file)
      /\ (\E r \in ToSet(ts) : r.conf = 50) =>
           (\A r \in ToSet(ts) : r.conf = 50) /\ NoTestKnown(draft) /\ NoTestSearched(draft)
  BY <1>2, <1>4 DEF GuessesAreLast
<1> QED
  BY <1>1, <1>3, <1>4, <1>5, TestStep

\* Rows next to some rows.
LEMMA ImportedFit ==
    ASSUME NEW p, NEW own
    PROVE  ImportedIds(p, own) \subseteq CodeArts
<1> DEFINE edges == EdgesAt(own, {"imports"}, p.version)
<1>1. \A e \in ToSet(edges) : OtherEnd(e, own) \in CodeArts
  BY EdgesFit
<1>2. ImportedIds(p, own) = {OtherEnd(e, own) : e \in ToSet(edges)} \ own
  BY DEF ImportedIds, edges
<1> HIDE DEF edges
<1> QED
  BY <1>1, <1>2

\* The symbols of the imported files, with the file of each.
LEMMA DefinedFit ==
    ASSUME draft.order \in RowOrders, NEW p \in PackDrafts
    PROVE  DefinedIn(p) \in Seq(DefinedSyms)
<1> DEFINE defs == EdgesAt(p.imported, {"defined_in"}, p.version)
           last(u) == CHOOSE i \in DOMAIN defs : defs[i].a = u /\ \A j \in DOMAIN defs : defs[j].a = u => j <= i
           ids == {e.a : e \in {e \in ToSet(defs) : e.b \in p.imported}}
           syms == Fetched(ids, p.version)
           of(i) == [sym |-> syms[i], in |-> defs[last(syms[i])].b]
<1>1. defs \in Seq(ToSet(CodeEdges)) /\ \A e \in ToSet(defs) : e.a \in CodeArts /\ e.b \in CodeArts
  BY EdgesFit
<1> HIDE DEF defs
<1>2. syms \in Seq(CodeArts) /\ ToSet(syms) = {u \in CodeArts : u \in ids /\ InVersion(CodeArt[u], p.version)}
  <2> HIDE DEF ids
  <2> QED
    BY FetchedFits
<1>3. \A u \in ToSet(syms) : u \in CodeArts /\ \E i \in DOMAIN defs : defs[i].a = u
  BY <1>2 DEF ToSet
<1> HIDE DEF syms
<1>4. /\ Len(defs) \in Nat /\ DOMAIN defs = 1 .. Len(defs) /\ \A i \in DOMAIN defs : defs[i].b \in CodeArts
      /\ Len(syms) \in Nat /\ DOMAIN syms = 1 .. Len(syms)
  BY <1>1, <1>2 DEF ToSet
<1>5. ASSUME NEW u \in ToSet(syms) PROVE last(u) \in DOMAIN defs
  <2> DEFINE S == {i \in DOMAIN defs : defs[i].a = u}
  <2>1. S # {} /\ S \in SUBSET (1 .. Len(defs))
    BY <1>3, <1>4
  <2> DEFINE m == Max(S)
  <2>2. m \in S /\ \A y \in S : m >= y
    <3> HIDE DEF S
    <3> QED
      BY <1>4, <2>1, MaxOfSome
  <2> HIDE DEF m
  <2>3. m \in DOMAIN defs /\ defs[m].a = u /\ \A j \in DOMAIN defs : defs[j].a = u => j <= m
    BY <1>4, <2>2
  <2> QED
    BY <2>3
<1> HIDE DEF last
<1>6. ASSUME NEW i \in DOMAIN syms PROVE of(i) \in DefinedSyms
  <2>1. syms[i] \in ToSet(syms)
    BY DEF ToSet
  <2>2. defs[last(syms[i])].b \in CodeArts /\ syms[i] \in CodeArts
    BY <1>3, <1>4, <1>5, <2>1
  <2> QED
    BY <2>2 DEF DefinedSyms
<1>7. DefinedIn(p) = [i \in DOMAIN syms |-> of(i)]
  BY Zenon DEF DefinedIn, of, last, syms, ids, defs
<1> HIDE DEF of
<1> QED
  BY <1>4, <1>6, <1>7

\* The score of an import is a number.
LEMMA ScoreFits ==
    ASSUME NEW p \in PackDrafts, NEW id
    PROVE  Score(p, id) \in Int
<1> DEFINE body == UNION {CodeArt[u].mentions : u \in ToSet(p.code) \cap ToSet(p.symbols)}
           worth(title) == (IF title \in p.task.words THEN 40 ELSE 0) + (IF title \in body THEN 45 ELSE 0)
                           + (IF title \in Contracts THEN 25 ELSE 0)
           of(i) == IF p.defs[i].in = id THEN worth(CodeArt[p.defs[i].sym].title) ELSE 0
           s == [i \in DOMAIN p.defs |-> of(i)]
           used == Total(s)
<1>1. \A i \in DOMAIN p.defs : of(i) \in Nat
  <2>1. \A title : worth(title) \in Nat
    <3> HIDE DEF body
    <3> QED
      OBVIOUS
  <2> HIDE DEF worth
  <2> QED
    BY <2>1
<1>2. Len(p.defs) \in Nat /\ DOMAIN p.defs = 1 .. Len(p.defs)
  BY DEF PackDrafts
<1>3. Score(p, id) = IF File[FileOf(id)].utility /\ File[FileOf(id)].stem \notin p.task.words
                     THEN used - 50 ELSE used
  BY DEF Score
<1> HIDE DEF of
<1>4. s \in Seq(Nat)
  BY <1>1, <1>2
<1> HIDE DEF s
<1>5. used \in Nat
  BY <1>4, TotalFits
<1> HIDE DEF used
<1> QED
  BY <1>3, <1>5

\* What is scored may be a dependency.
LEMMA ScoredFit ==
    ASSUME draft.order \in RowOrders, NEW p \in PackDrafts
    PROVE  Scored(p) \in Seq(ScoredFiles) /\ \A d \in ToSet(Scored(p)) : MayDepend(p, d.file)
<1> DEFINE got == Fetched(p.imported, p.version)
           rows == Visible(got)
           of(i) == [file |-> FileOf(rows[i]), score |-> Score(p, rows[i])]
           all == [i \in DOMAIN rows |-> of(i)]
           S == {d \in ToSet(all) : ~ File[d.file].test /\ d.file \notin FilesIn(p.targets)
                                    /\ SameService(p.scope, d.file) /\ d.score > 0}
<1>1. got \in Seq(CodeArts) /\ ToSet(got) = {u \in CodeArts : u \in p.imported /\ InVersion(CodeArt[u], p.version)}
  BY FetchedFits
<1> HIDE DEF got
<1>2. rows \in Seq(CodeArts) /\ ToSet(rows) = {u \in ToSet(got) : CodeArt[u].visible}
  BY <1>1, VisibleFits
<1>3. \A u \in ToSet(rows) : u \in CodeArts /\ ReadableRow(p, u)
  BY <1>1, <1>2 DEF ReadableRow
<1> HIDE DEF rows
<1>4. Len(rows) \in Nat /\ DOMAIN rows = 1 .. Len(rows) /\ \A i \in DOMAIN rows : rows[i] \in ToSet(rows)
  BY <1>2 DEF ToSet
<1>5. ASSUME NEW i \in DOMAIN rows PROVE of(i) \in ScoredFiles /\ ReadableFile(p, of(i).file)
  <2>1. rows[i] \in CodeArts /\ ReadableRow(p, rows[i]) /\ Score(p, rows[i]) \in Int
    BY <1>3, <1>4, ScoreFits
  <2>2. FileOf(rows[i]) \in Files
    BY <2>1, ChangeAssumption DEF FileOf
  <2> QED
    BY <2>1, <2>2 DEF ScoredFiles, ReadableFile
<1>6. Scored(p) = Among(all, S)
  BY Zenon DEF Scored, S, all, of, rows, got
<1> HIDE DEF of
<1>7. all \in Seq(ScoredFiles) /\ ToSet(all) = {of(i) : i \in DOMAIN rows}
  BY <1>4, <1>5 DEF ToSet
<1>8. ASSUME NEW d \in S PROVE MayDepend(p, d.file)
  <2>1. PICK i \in DOMAIN rows : d = of(i)
    BY <1>7
  <2> QED
    BY <1>5, <2>1 DEF MayDepend
<1> HIDE DEF all, S
<1>9. Among(all, S) \in Seq(ScoredFiles) /\ ToSet(Among(all, S)) = ToSet(all) \intersect S
  BY <1>7, AmongFits
<1> QED
  BY <1>6, <1>8, <1>9

\* The dependencies are the best of what is scored.
LEMMA DependenciesAreScored ==
    ASSUME NEW p \in PackDrafts
    PROVE  /\ Dependencies(p) \in Seq(Refs)
           /\ \A r \in ToSet(Dependencies(p)) : \E d \in ToSet(p.scored) : r.file = d.file
<1> DEFINE s == p.scored
           key(i) == - 100 * s[i].score - Proximity(p.paths, s[i].file)
           keys == [i \in DOMAIN s |-> key(i)]
           best == Ranked(s, keys, MaxDependencies)
           conf(n) == IF 55 + n \div 2 > 95 THEN 95 ELSE 55 + n \div 2
           of(i) == Ref(best[i].file, conf(best[i].score), p.chars)
<1>1. s \in Seq(ScoredFiles) /\ p.paths \in Seq(Files) /\ p.chars \in [Files -> Nat]
  BY DEF PackDrafts
<1>2. ASSUME NEW i \in DOMAIN s PROVE key(i) \in Int
  <2>1. s[i] \in ScoredFiles
    BY <1>1
  <2>2. s[i].score \in Int /\ s[i].file \in Files
    BY <2>1 DEF ScoredFiles
  <2>3. Proximity(p.paths, s[i].file) \in Nat
    <3>1. p.paths # <<>> => p.paths[1] \in Files
      BY <1>1
    <3> QED
      BY <2>2, <3>1, ChangeAssumption DEF Proximity
  <2> QED
    BY <2>2, <2>3
<1>3. Dependencies(p) = [i \in DOMAIN best |-> of(i)]
  BY DEF Dependencies
<1> HIDE DEF key
<1>4. keys \in [DOMAIN s -> Int] /\ MaxDependencies \in Nat
  BY <1>2, ChangeAssumption
<1> HIDE DEF keys
<1>5. best \in Seq(ScoredFiles) /\ ToSet(best) \subseteq ToSet(s)
  <2> HIDE DEF s
  <2> QED
    BY <1>1, <1>4, RankedFits
<1> HIDE DEF best, s
<1>6. Len(best) \in Nat /\ DOMAIN best = 1 .. Len(best) /\ \A i \in DOMAIN best : best[i] \in ScoredFiles /\ best[i] \in ToSet(best)
  BY <1>5 DEF ToSet
<1>7. \A n \in Int : conf(n) \in Int
  OBVIOUS
<1> HIDE DEF conf
<1>8. ASSUME NEW i \in DOMAIN best PROVE of(i) \in Refs /\ of(i).file = best[i].file
  <2> DEFINE f == best[i].file
             c == conf(best[i].score)
             chars == p.chars
  <2>1. f \in Files /\ c \in Int /\ chars \in [Files -> Nat]
    BY <1>1, <1>6, <1>7 DEF ScoredFiles
  <2> HIDE DEF f, c, chars
  <2>2. Ref(f, c, chars) \in Refs /\ Ref(f, c, chars).file = f
    BY <2>1, RefFits
  <2> QED
    BY <2>2 DEF f, c, chars
<1> HIDE DEF of
<1>9. Dependencies(p) \in Seq(Refs)
  BY <1>3, <1>6, <1>8
<1>10. ASSUME NEW r \in ToSet(Dependencies(p)) PROVE \E d \in ToSet(s) : r.file = d.file
  <2>1. PICK i \in DOMAIN best : r = of(i)
    BY <1>3, <1>10 DEF ToSet
  <2> QED
    BY <1>5, <1>6, <1>8, <2>1
<1> QED
  BY <1>9, <1>10 DEF s

\* Where dependencies are chosen, and the answer is given.
LateStages == {"imports", "definitions", "score", "choose", "budget", "ledger", "done"}

\* q is p with other dependencies, at a later step.
OtherDependencies(p, q) ==
    /\ p \in PackDrafts /\ q \in PackDrafts /\ p.pc \in LateStages \ {"done"} /\ q.pc \in LateStages \ {"imports"}
    /\ q.task = p.task /\ q.version = p.version /\ q.allowed = p.allowed /\ q.code = p.code
    /\ q.symbols = p.symbols /\ q.targets = p.targets /\ q.edges = p.edges /\ q.near = p.near
    /\ q.scope = p.scope /\ q.tests = p.tests
    /\ \A d \in ToSet(q.scored) \union ToSet(q.found) : MayDepend(p, d.file)
    /\ ToSet(q.deps) \subseteq ToSet(q.found)
    /\ q.pc \notin {"ledger", "done"} => q.deps = <<>>

\* What was known without them is still known.
LEMMA DependenciesChange ==
    ASSUME NEW p, NEW q, OtherDependencies(p, q), CallHolds(p), KeptWithinBudget(q)
    PROVE  CallHolds(q)
<1>1. p.pc \notin {"start", "targets", "neighbours", "tests", "search", "guess", "done"} /\ q.pc \notin {"start", "targets", "neighbours", "tests", "search", "guess"}
  BY DEF OtherDependencies, LateStages
<1>2. \A u : ReadableRow(q, u) <=> ReadableRow(p, u)
  BY DEF ReadableRow, OtherDependencies
<1>3. \A f : ReadableFile(q, f) <=> ReadableFile(p, f)
  BY <1>2 DEF ReadableFile
<1>4. \A f : MayDepend(q, f) <=> MayDepend(p, f)
  BY <1>3 DEF MayDepend, OtherDependencies
<1>5. SourcesHold(q)
  BY <1>2, <1>3, <1>4 DEF SourcesHold, OtherDependencies, CallHolds
<1>6. NothingOverlooked(q)
  BY <1>1, <1>2 DEF NothingOverlooked, OtherDependencies, CallHolds
<1>7. \A u : RowInScope(q, u) <=> RowInScope(p, u)
  BY <1>2 DEF RowInScope, OtherDependencies
<1>8. (NoTestKnown(q) <=> NoTestKnown(p)) /\ (NoTestSearched(q) <=> NoTestSearched(p))
  BY <1>7 DEF NoTestKnown, NoTestSearched, OtherDependencies
<1>9. GuessesAreLast(q)
  BY <1>1, <1>8 DEF GuessesAreLast, OtherDependencies, CallHolds
<1>10. NotYet(q)
  <2>1. p.version # 0 /\ p.scope = Scope(FilesIn(p.targets))
    BY <1>1 DEF CallHolds, NotYet
  <2> QED
    BY <1>1, <2>1 DEF NotYet, OtherDependencies
<1> QED
  BY <1>5, <1>6, <1>9, <1>10 DEF CallHolds

\* What is known where dependencies are chosen.
LEMMA DependenciesSoFar ==
    ASSUME PackKeeps, draft.pc \in LateStages \ {"done"}
    PROVE  /\ draft \in PackDrafts /\ CallHolds(draft) /\ draft.order \in RowOrders
           /\ draft.chars \in [Files -> Nat]
           /\ \A d \in ToSet(draft.scored) \union ToSet(draft.found) : MayDepend(draft, d.file)
           /\ draft.pc \notin {"ledger", "done"} => draft.deps = <<>>
           /\ draft.version # 0
<1>1. draft \in PackDrafts /\ CallHolds(draft)
  BY DEF PackKeeps
<1>2. SourcesHold(draft) /\ NotYet(draft)
  BY <1>1 DEF CallHolds
<1>3. draft.version # 0
  BY <1>2 DEF NotYet, LateStages
<1> QED
  BY <1>1, <1>2, <1>3 DEF PackDrafts, SourcesHold, NotYet

\* A step on the way to the dependencies.
LEMMA DependencyStep ==
    ASSUME PackKeeps, draft.pc \in {"imports", "definitions", "score", "choose"},
           NEW q \in PackDrafts, draft' = q, UNCHANGED <<activeSeq, packRows>>,
           q.pc \in {"definitions", "score", "choose", "budget"},
           q.task = draft.task, q.version = draft.version, q.allowed = draft.allowed, q.code = draft.code,
           q.symbols = draft.symbols, q.targets = draft.targets, q.edges = draft.edges, q.near = draft.near,
           q.scope = draft.scope, q.tests = draft.tests, q.deps = draft.deps,
           \A d \in ToSet(q.scored) \union ToSet(q.found) : MayDepend(draft, d.file)
    PROVE  PackKeeps'
<1>1. draft.pc \in LateStages \ {"done"} /\ q.pc \in LateStages \ {"imports"}
  BY DEF LateStages
<1>2. draft \in PackDrafts /\ CallHolds(draft) /\ draft.deps = <<>>
  BY <1>1, DependenciesSoFar
<1>3. ToSet(<<>>) = {}
  BY DEF ToSet
<1>4. OtherDependencies(draft, q)
  BY <1>1, <1>2, <1>3 DEF OtherDependencies
<1>5. KeptWithinBudget(q)
  BY DEF KeptWithinBudget
<1>6. CallHolds(q)
  BY <1>2, <1>4, <1>5, DependenciesChange
<1>7. draft.pc # "done" /\ q.pc # "done"
  OBVIOUS
<1> QED
  BY <1>6, <1>7, PackStep

\* The imports of the targets are followed.
LEMMA FollowImportsKeeps ==
    ASSUME PackKeeps, FollowImports
    PROVE  PackKeeps'
<1> DEFINE ids == ImportedIds(draft, TargetFileIds(draft))
           q == [draft EXCEPT !.pc = "definitions", !.imported = ids]
<1>1. draft.pc = "imports" /\ draft' = q /\ UNCHANGED <<activeSeq, packRows>>
  BY DEF FollowImports, Steps
<1>2. draft.pc \in LateStages \ {"done"}
  BY <1>1 DEF LateStages
<1>3. /\ draft \in PackDrafts
      /\ \A d \in ToSet(draft.scored) \union ToSet(draft.found) : MayDepend(draft, d.file)
  BY <1>2, DependenciesSoFar
<1>4. ids \in SUBSET CodeArts
  <2> DEFINE own == TargetFileIds(draft)
  <2> HIDE DEF own
  <2>1. ImportedIds(draft, own) \subseteq CodeArts
    BY ImportedFit
  <2> QED
    BY <2>1 DEF own
<1> HIDE DEF ids
<1>5. q \in PackDrafts
  <2>1. "definitions" \in PackStages
    BY DEF PackStages
  <2> QED
    BY <1>3, <1>4, <2>1 DEF PackDrafts
<1>6. /\ q.pc = "definitions" /\ q.task = draft.task /\ q.version = draft.version /\ q.allowed = draft.allowed
      /\ q.code = draft.code /\ q.symbols = draft.symbols /\ q.targets = draft.targets /\ q.edges = draft.edges
      /\ q.near = draft.near /\ q.scope = draft.scope /\ q.tests = draft.tests /\ q.deps = draft.deps
      /\ q.scored = draft.scored /\ q.found = draft.found
  BY <1>3 DEF PackDrafts
<1> HIDE DEF q
<1> QED
  BY <1>1, <1>3, <1>5, <1>6, DependencyStep

\* The symbols of the imported files are fetched.
LEMMA FetchDefinitionsKeeps ==
    ASSUME PackKeeps, FetchDefinitions
    PROVE  PackKeeps'
<1> DEFINE defs == DefinedIn(draft)
           q == [draft EXCEPT !.pc = "score", !.defs = defs]
<1>1. draft.pc = "definitions" /\ draft' = q /\ UNCHANGED <<activeSeq, packRows>>
  BY DEF FetchDefinitions, Steps
<1>2. draft.pc \in LateStages \ {"done"}
  BY <1>1 DEF LateStages
<1>3. /\ draft \in PackDrafts /\ draft.order \in RowOrders
      /\ \A d \in ToSet(draft.scored) \union ToSet(draft.found) : MayDepend(draft, d.file)
  BY <1>2, DependenciesSoFar
<1>4. defs \in Seq(DefinedSyms)
  BY <1>3, DefinedFit
<1> HIDE DEF defs
<1>5. q \in PackDrafts
  <2>1. "score" \in PackStages
    BY DEF PackStages
  <2> QED
    BY <1>3, <1>4, <2>1 DEF PackDrafts
<1>6. /\ q.pc = "score" /\ q.task = draft.task /\ q.version = draft.version /\ q.allowed = draft.allowed
      /\ q.code = draft.code /\ q.symbols = draft.symbols /\ q.targets = draft.targets /\ q.edges = draft.edges
      /\ q.near = draft.near /\ q.scope = draft.scope /\ q.tests = draft.tests /\ q.deps = draft.deps
      /\ q.scored = draft.scored /\ q.found = draft.found
  BY <1>3 DEF PackDrafts
<1> HIDE DEF q
<1> QED
  BY <1>1, <1>3, <1>5, <1>6, DependencyStep

\* The imports are scored.
LEMMA ScoreImportsKeeps ==
    ASSUME PackKeeps, ScoreImports
    PROVE  PackKeeps'
<1> DEFINE us == [i \in DOMAIN draft.defs |-> draft.defs[i].sym]
           ch == Counting(draft.chars, us)
           sc == Scored(draft)
           q == [draft EXCEPT !.pc = "choose", !.scored = sc, !.chars = ch]
<1>1. draft.pc = "score" /\ UNCHANGED <<activeSeq, packRows>>
  BY DEF ScoreImports, Steps
<1>2. draft.pc \in LateStages \ {"done"}
  BY <1>1 DEF LateStages
<1>3. /\ draft \in PackDrafts /\ draft.order \in RowOrders /\ draft.chars \in [Files -> Nat]
      /\ \A d \in ToSet(draft.scored) \union ToSet(draft.found) : MayDepend(draft, d.file)
  BY <1>2, DependenciesSoFar
<1>4. us \in Seq(CodeArts)
  <2> DEFINE ds == draft.defs
  <2>1. ds \in Seq(DefinedSyms)
    BY <1>3 DEF PackDrafts
  <2>2. us = [i \in DOMAIN ds |-> ds[i].sym]
    OBVIOUS
  <2> HIDE DEF ds, us
  <2>3. DOMAIN ds = 1 .. Len(ds) /\ Len(ds) \in Nat /\ \A i \in DOMAIN ds : ds[i] \in DefinedSyms
    BY <2>1
  <2>4. \A i \in DOMAIN ds : ds[i].sym \in CodeArts
    BY <2>3 DEF DefinedSyms
  <2> QED
    BY <2>2, <2>3, <2>4
<1>5. draft' = q
  <2>1. draft' = [draft EXCEPT !.pc = "choose", !.scored = sc, !.chars = Counting(@, us)]
    BY Zenon DEF ScoreImports, Steps, sc, us
  <2> HIDE DEF sc, us
  <2> QED
    BY <1>3, <2>1 DEF PackDrafts
<1> HIDE DEF us
<1>6. ch \in [Files -> Nat]
  BY <1>3, <1>4, CountingFits
<1>7. sc \in Seq(ScoredFiles) /\ \A d \in ToSet(sc) : MayDepend(draft, d.file)
  BY <1>3, ScoredFit
<1> HIDE DEF ch, sc
<1>8. q \in PackDrafts
  <2>1. "choose" \in PackStages
    BY DEF PackStages
  <2> QED
    BY <1>3, <1>6, <1>7, <2>1 DEF PackDrafts
<1>9. /\ q.pc = "choose" /\ q.task = draft.task /\ q.version = draft.version /\ q.allowed = draft.allowed
      /\ q.code = draft.code /\ q.symbols = draft.symbols /\ q.targets = draft.targets /\ q.edges = draft.edges
      /\ q.near = draft.near /\ q.scope = draft.scope /\ q.tests = draft.tests /\ q.deps = draft.deps
      /\ q.scored = sc /\ q.found = draft.found
  BY <1>3 DEF PackDrafts
<1> HIDE DEF q
<1> QED
  BY <1>1, <1>3, <1>5, <1>7, <1>8, <1>9, DependencyStep

\* The best of them are chosen.
LEMMA ChooseDependenciesKeeps ==
    ASSUME PackKeeps, ChooseDependencies
    PROVE  PackKeeps'
<1> DEFINE fs == Dependencies(draft)
           q == [draft EXCEPT !.pc = "budget", !.found = fs]
<1>1. draft.pc = "choose" /\ draft' = q /\ UNCHANGED <<activeSeq, packRows>>
  BY DEF ChooseDependencies, Steps
<1>2. draft.pc \in LateStages \ {"done"}
  BY <1>1 DEF LateStages
<1>3. /\ draft \in PackDrafts
      /\ \A d \in ToSet(draft.scored) \union ToSet(draft.found) : MayDepend(draft, d.file)
  BY <1>2, DependenciesSoFar
<1>4. fs \in Seq(Refs) /\ \A r \in ToSet(fs) : \E d \in ToSet(draft.scored) : r.file = d.file
  BY <1>3, DependenciesAreScored
<1>5. \A r \in ToSet(fs) : MayDepend(draft, r.file)
  BY <1>3, <1>4
<1> HIDE DEF fs
<1>6. q \in PackDrafts
  <2>1. "budget" \in PackStages
    BY DEF PackStages
  <2> QED
    BY <1>3, <1>4, <2>1 DEF PackDrafts
<1>7. /\ q.pc = "budget" /\ q.task = draft.task /\ q.version = draft.version /\ q.allowed = draft.allowed
      /\ q.code = draft.code /\ q.symbols = draft.symbols /\ q.targets = draft.targets /\ q.edges = draft.edges
      /\ q.near = draft.near /\ q.scope = draft.scope /\ q.tests = draft.tests /\ q.deps = draft.deps
      /\ q.scored = draft.scored /\ q.found = fs
  BY <1>3 DEF PackDrafts
<1> HIDE DEF q
<1> QED
  BY <1>1, <1>3, <1>5, <1>6, <1>7, DependencyStep

\* Dependencies that do not fit are left out.
LEMMA EnforceBudgetKeeps ==
    ASSUME PackKeeps, EnforceBudget
    PROVE  PackKeeps'
<1> DEFINE essential == Tokens(draft.targets) + Tokens(draft.tests)
           kept == WithinBudget(essential, draft.found, draft.task.budget)
           q == [draft EXCEPT !.pc = "ledger", !.deps = kept]
<1>1. draft.pc = "budget" /\ draft' = q /\ UNCHANGED <<activeSeq, packRows>>
  BY DEF EnforceBudget, Steps
<1>2. draft.pc \in LateStages \ {"done"}
  BY <1>1 DEF LateStages
<1>3. /\ draft \in PackDrafts /\ CallHolds(draft)
      /\ \A d \in ToSet(draft.scored) \union ToSet(draft.found) : MayDepend(draft, d.file)
  BY <1>2, DependenciesSoFar
<1>4. /\ draft.targets \in Seq(Refs) /\ draft.tests \in Seq(Refs) /\ draft.found \in Seq(Refs)
      /\ draft.task \in ChangeTasks
  BY <1>3 DEF PackDrafts
<1>5. Tokens(draft.targets) \in Nat /\ Tokens(draft.tests) \in Nat /\ draft.task.budget \in Int
  BY <1>4, TokensFit, ChangeAssumption
<1>6. essential \in Nat
  BY <1>5
<1>7. /\ kept \in Seq(Refs) /\ ToSet(kept) \subseteq ToSet(draft.found)
      /\ kept # <<>> => essential + Tokens(kept) <= draft.task.budget
      /\ \A d \in ToSet(draft.found) \ ToSet(kept) : essential + Tokens(kept) + d.tokens > draft.task.budget
  <2> DEFINE found == draft.found
             budget == draft.task.budget
  <2> HIDE DEF essential, found, budget
  <2>1. /\ WithinBudget(essential, found, budget) \in Seq(Refs)
        /\ ToSet(WithinBudget(essential, found, budget)) \subseteq ToSet(found)
        /\ WithinBudget(essential, found, budget) # <<>> => essential + Tokens(WithinBudget(essential, found, budget)) <= budget
        /\ \A d \in ToSet(found) \ ToSet(WithinBudget(essential, found, budget)) :
             essential + Tokens(WithinBudget(essential, found, budget)) + d.tokens > budget
    <3>1. found \in Seq(Refs) /\ budget \in Int
      BY <1>4, <1>5 DEF found, budget
    <3> QED
      BY <1>6, <3>1, WithinBudgetFits
  <2> QED
    BY <2>1 DEF found, budget
<1> HIDE DEF kept
<1>8. q \in PackDrafts
  <2>1. "ledger" \in PackStages
    BY DEF PackStages
  <2> QED
    BY <1>3, <1>7, <2>1 DEF PackDrafts
<1>9. /\ q.pc = "ledger" /\ q.task = draft.task /\ q.version = draft.version /\ q.allowed = draft.allowed
      /\ q.code = draft.code /\ q.symbols = draft.symbols /\ q.targets = draft.targets /\ q.edges = draft.edges
      /\ q.near = draft.near /\ q.scope = draft.scope /\ q.tests = draft.tests /\ q.deps = kept
      /\ q.scored = draft.scored /\ q.found = draft.found
  BY <1>3 DEF PackDrafts
<1> HIDE DEF q
<1>10. OtherDependencies(draft, q)
  BY <1>2, <1>3, <1>7, <1>8, <1>9 DEF OtherDependencies, LateStages
<1>11. KeptWithinBudget(q)
  BY <1>7, <1>9 DEF KeptWithinBudget
<1>12. CallHolds(q)
  BY <1>3, <1>10, <1>11, DependenciesChange
<1> QED
  BY <1>1, <1>8, <1>9, <1>12, PackStep

\* The answer, and its row.
LEMMA AnswerPackKeeps ==
    ASSUME PackKeeps, AnswerPack
    PROVE  PackKeeps'
<1> DEFINE q == [draft EXCEPT !.pc = "done"]
<1>1. draft.pc = "ledger" /\ draft' = q /\ packRows' = Append(packRows, RowOf(draft)) /\ activeSeq' = activeSeq
  BY DEF AnswerPack
<1>2. draft.pc \in LateStages \ {"done"}
  BY <1>1 DEF LateStages
<1>3. /\ draft \in PackDrafts /\ CallHolds(draft) /\ draft.version # 0
      /\ \A d \in ToSet(draft.scored) \union ToSet(draft.found) : MayDepend(draft, d.file)
  BY <1>2, DependenciesSoFar
<1>4. q \in PackDrafts
  BY <1>3 DEF PackDrafts, PackStages
<1>5. /\ q.pc = "done" /\ q.task = draft.task /\ q.version = draft.version /\ q.allowed = draft.allowed
      /\ q.code = draft.code /\ q.symbols = draft.symbols /\ q.targets = draft.targets /\ q.edges = draft.edges
      /\ q.near = draft.near /\ q.scope = draft.scope /\ q.tests = draft.tests /\ q.deps = draft.deps
      /\ q.scored = draft.scored /\ q.found = draft.found
  BY <1>3 DEF PackDrafts
<1> HIDE DEF q
<1>6. ToSet(draft.deps) \subseteq ToSet(draft.found)
  BY <1>3 DEF CallHolds, SourcesHold
<1>7. OtherDependencies(draft, q)
  BY <1>2, <1>3, <1>4, <1>5, <1>6 DEF OtherDependencies, LateStages
<1>8. KeptWithinBudget(q)
  <2>1. KeptWithinBudget(draft)
    BY <1>3 DEF CallHolds
  <2> QED
    BY <1>1, <1>5, <2>1 DEF KeptWithinBudget
<1>9. CallHolds(q)
  BY <1>3, <1>7, <1>8, DependenciesChange
<1>10. packRows' = <<RowOf(q)>>
  <2>1. packRows = <<>>
    BY <1>1 DEF PackKeeps
  <2>2. RowOf(q) = RowOf(draft)
    BY <1>5 DEF RowOf
  <2> QED
    BY <1>1, <2>1, <2>2
<1>11. activeSeq' \in Nat
  BY <1>1 DEF PackKeeps
<1> QED
  BY <1>1, <1>3, <1>4, <1>5, <1>9, <1>10, <1>11 DEF PackKeeps

\* Every step of a call, and of what goes on beside it, keeps the invariant.
LEMMA PackStepKeeps ==
    ASSUME PackKeeps, ChangeNext
    PROVE  PackKeeps'
<1>1. CASE BeginPack
  BY <1>1, BeginPackKeeps
<1>2. CASE SelectTargets
  BY <1>2, SelectTargetsKeeps
<1>3. CASE ReadNeighbours
  BY <1>3, ReadNeighboursKeeps
<1>4. CASE FindKnownTests
  BY <1>4, FindKnownTestsKeeps
<1>5. CASE SearchTests
  BY <1>5, SearchTestsKeeps
<1>6. CASE GuessTests
  BY <1>6, GuessTestsKeeps
<1>7. CASE RankTests
  BY <1>7, RankTestsKeeps
<1>8. CASE FollowImports
  BY <1>8, FollowImportsKeeps
<1>9. CASE FetchDefinitions
  BY <1>9, FetchDefinitionsKeeps
<1>10. CASE ScoreImports
  BY <1>10, ScoreImportsKeeps
<1>11. CASE ChooseDependencies
  BY <1>11, ChooseDependenciesKeeps
<1>12. CASE EnforceBudget
  BY <1>12, EnforceBudgetKeeps
<1>13. CASE AnswerPack
  BY <1>13, AnswerPackKeeps
<1>14. CASE ActivateNewer
  BY <1>14, ActivateNewerKeeps
<1> QED
  BY <1>1, <1>2, <1>3, <1>4, <1>5, <1>6, <1>7, <1>8, <1>9, <1>10, <1>11, <1>12, <1>13, <1>14 DEF ChangeNext

\* What the pack promises follows.
LEMMA PackPromises ==
    ASSUME PackKeeps
    PROVE  ChangePackIsSound
<1>1. draft \in PackDrafts /\ CallHolds(draft)
  BY DEF PackKeeps
<1>2. SourcesHold(draft) /\ NothingOverlooked(draft) /\ GuessesAreLast(draft) /\ KeptWithinBudget(draft) /\ NotYet(draft)
  BY <1>1 DEF CallHolds
<1>3. /\ draft.targets \in Seq(Refs) /\ draft.tests \in Seq(Refs) /\ draft.deps \in Seq(Refs) /\ draft.found \in Seq(Refs)
      /\ draft.version \in Nat
  BY <1>1 DEF PackDrafts
<1>4. /\ FilesIn(draft.targets) = {r.file : r \in ToSet(draft.targets)} /\ FilesIn(draft.targets) \subseteq Files
      /\ FilesIn(draft.tests) = {r.file : r \in ToSet(draft.tests)}
      /\ FilesIn(draft.deps) = {r.file : r \in ToSet(draft.deps)}
  BY <1>3, FilesInFits
<1>5. \A f \in FilesIn(draft.deps) : MayDepend(draft, f)
  BY <1>2, <1>4 DEF SourcesHold
<1>6. draft.pc = "done" => draft.scope = Scope(FilesIn(draft.targets))
  BY <1>2 DEF NotYet
<1>7. ASSUME PackAnswered PROVE packRows = <<RowOf(draft)>>
  BY <1>7 DEF PackKeeps, PackAnswered
<1>8. PackIsOfOneVersion
  <2> SUFFICES ASSUME PackAnswered,
                      NEW f \in FilesIn(draft.targets) \union FilesIn(draft.deps) \union
                                {r.file : r \in {r \in ToSet(draft.tests) : r.conf > 50}}
               PROVE  \E u \in CodeArts : /\ FileOf(u) = f /\ CodeArt[u].visible
                                          /\ CodeArt[u].from <= packRows[1].version
                                          /\ packRows[1].version < CodeArt[u].until
    BY DEF PackIsOfOneVersion
  <2>1. packRows[1].version = draft.version
    BY <1>7 DEF RowOf
  <2>2. ReadableFile(draft, f)
    BY <1>2, <1>5 DEF SourcesHold, MayDepend
  <2> QED
    BY <2>1, <2>2 DEF ReadableFile, ReadableRow, InVersion
<1>9. NothingIsBorrowed
  <2> DEFINE own == {Service(f) : f \in FilesIn(draft.targets)} \ {Elsewhere}
  <2> SUFFICES ASSUME PackAnswered, Cardinality(own) = 1, NEW f \in FilesIn(draft.tests) \union FilesIn(draft.deps)
               PROVE  Service(f) \in own \union {Elsewhere}
    BY DEF NothingIsBorrowed
  <2> HIDE DEF own
  <2>1. own # {}
    BY FS_EmptySet
  <2>2. Scope(FilesIn(draft.targets)) = CHOOSE x \in own : TRUE
    BY DEF Scope, own
  <2>3. draft.scope \in own /\ draft.scope # Elsewhere
    <3>1. draft.scope \in own
      BY <1>6, <2>1, <2>2 DEF PackAnswered
    <3> QED
      BY <3>1 DEF own
  <2>4. SameService(draft.scope, f)
    BY <1>2, <1>4, <1>5 DEF SourcesHold, MayDepend
  <2> QED
    BY <2>3, <2>4 DEF SameService
<1>10. GuessedAsLastResort
  <2> SUFFICES ASSUME PackAnswered, \E r \in ToSet(draft.tests) : r.conf = 50
               PROVE  LET scope == Scope(FilesIn(draft.targets))
                          inScope(u) == CodeArt[u].visible /\ InVersion(CodeArt[u], draft.version) /\ SameService(scope, FileOf(u))
                      IN  /\ \A r \in ToSet(draft.tests) : r.conf = 50
                          /\ ~ \E e \in ToSet(draft.edges) : /\ e.type = "tests" /\ e.b \in ToSet(draft.symbols) /\ inScope(e.a)
                                                             /\ FileOf(e.a) \notin FilesIn(draft.targets)
                                                             /\ e.a \notin ToSet(draft.symbols)
                          /\ ~ \E u \in ToSet(draft.task.testHits) : inScope(u) /\ File[FileOf(u)].test
                          /\ ~ \E u \in ToSet(draft.task.hits) :
                                 inScope(u) /\ File[FileOf(u)].test /\ CodeArt[u].mentions \cap Titles(draft.symbols) # {}
    BY DEF GuessedAsLastResort
  <2>1. (\A r \in ToSet(draft.tests) : r.conf = 50) /\ NoTestKnown(draft) /\ NoTestSearched(draft)
    BY <1>2 DEF GuessesAreLast
  <2> QED
    BY <2>1 DEF NoTestKnown, NoTestSearched, RowInScope, ReadableRow
<1>11. DependenciesFit
  BY <1>2 DEF DependenciesFit, KeptWithinBudget, PackAnswered
<1>12. RowIsTheAnswer
  <2>1. ASSUME draft.pc = "done", draft.version = 0 PROVE packRows = <<>> /\ Selected = {}
    <3>1. packRows = <<>>
      BY <2>1 DEF PackKeeps
    <3>2. draft.targets = <<>> /\ draft.tests = <<>> /\ draft.deps = <<>>
      BY <1>2, <2>1 DEF NotYet, FoundNothing
    <3> QED
      BY <3>1, <3>2 DEF Selected, FilesIn
  <2>2. ASSUME draft.pc = "done", draft.version # 0
        PROVE  /\ Len(packRows) = 1
               /\ packRows[1] = [version |-> draft.version,
                                 files |-> <<FilesIn(draft.targets), FilesIn(draft.tests), FilesIn(draft.deps)>>]
               /\ FilesIn(draft.targets) \cap FilesIn(draft.deps) = {}
               /\ \A f \in FilesIn(draft.targets) \union FilesIn(draft.deps) : ~ File[f].test
    <3>1. packRows = <<RowOf(draft)>>
      BY <1>7, <2>2 DEF PackAnswered
    <3>2. Len(packRows) = 1 /\ packRows[1] = RowOf(draft)
      BY <3>1
    <3>3. /\ FilesIn(draft.targets) \cap FilesIn(draft.deps) = {}
          /\ \A f \in FilesIn(draft.targets) \union FilesIn(draft.deps) : ~ File[f].test
      BY <1>2, <1>5 DEF SourcesHold, MayDepend
    <3> QED
      BY <3>2, <3>3 DEF RowOf
  <2> QED
    BY <2>1, <2>2 DEF RowIsTheAnswer
<1> QED
  BY <1>8, <1>9, <1>10, <1>11, <1>12 DEF ChangePackIsSound

\* For every registry, every task and every version activated during the call: a pack is of one
\* version and of one service, guesses tests only where there are none, fits its budget, and its
\* row tells what it holds.
THEOREM ChangePackSafety == ChangeSpec => []ChangePackIsSound
<1>1. ChangeInit => PackKeeps
  BY PackStarts
<1>2. PackKeeps /\ [ChangeNext]_changeVars => PackKeeps'
  <2>1. ASSUME PackKeeps, ChangeNext PROVE PackKeeps'
    BY <2>1, PackStepKeeps
  <2>2. ASSUME PackKeeps, UNCHANGED changeVars PROVE PackKeeps'
    BY <2>2 DEF PackKeeps, changeVars
  <2> QED
    BY <2>1, <2>2
<1>3. PackKeeps => ChangePackIsSound
  BY PackPromises
<1> QED
  BY <1>1, <1>2, <1>3, PTL DEF ChangeSpec

------------------------------------------------------------------------------
(* The agent runner *)

\* Its stages: before the files are known, in the explanation, until there is a worktree, in it,
\* and at the end.
Unread == {"route", "calling", "select"}
Asking == {"pack", "expand", "open", "synthesize", "verify"}
Drafting == {"implement", "reformat", "validate", "worktree"}
InTree == {"attempt", "diff", "gate", "editing", "checkpoint", "pytest", "fix"}
Over == {"cleanup", "done"}

\* What a checkpoint records, and the values of the fields of a run.
Decisions == {"approved", "rejected", "aborted", "edited"}
FileTrees == [Files -> Contents \union {Absent}] \union {NoTree}
BlockSets == UNION {[D -> Contents] : D \in SUBSET Files}
RunCards == [id : BOOLEAN, file : Files]

\* The states of a run.
Lanes ==
    [pc : Unread \union Asking \union Drafting \union InTree \union Over,
     prompt : [lead : BOOLEAN, verb : BOOLEAN], auto : BOOLEAN, work : FileTrees, head : FileTrees,
     target : Seq(Files), test : Seq(Files), dep : Seq(Files), read : Seq(Files),
     writable : SUBSET Files, calls : Nat, blocks : BlockSets, current : BlockSets,
     tree : FileTrees, attempt : Nat, gated : BOOLEAN, decision : Decisions \union {"none"},
     tested : FileTrees, exit : {"none", "ok", "failed", "raised"},
     cards : Seq(RunCards), more : Seq(RunCards), queue : Seq(RunCards), seen : SUBSET Files,
     spans : Seq(Files)]

\* What is selected is of the pack and in the workspace; what is read and may be written follows.
SelectionHolds(l, p) ==
    /\ l.pc \in Unread => l.current = NoBlocks
    /\ l.pc \in {"route", "calling"} => /\ l.work = NoTree
                                      /\ l.target = <<>> /\ l.test = <<>> /\ l.dep = <<>>
    /\ l.pc \notin {"route", "calling"} =>
         /\ \A f \in ToSet(l.target) : f \in FilesIn(p.targets) /\ l.work[f] # Absent
         /\ \A f \in ToSet(l.test) : f \in FilesIn(p.tests) /\ l.work[f] # Absent
         /\ \A f \in ToSet(l.dep) : f \in FilesIn(p.deps) /\ l.work[f] # Absent
    /\ l.pc \in Drafting \union InTree \/ (l.work # NoTree /\ l.calls > 0) =>
         /\ l.target # <<>> /\ l.test # <<>>
         /\ l.read = ReadInFull(l.target, l.test, l.dep) /\ l.writable = Writable(l.target, l.test)

\* The calls of the model, by stage.
SpendHolds(l) ==
    /\ l.calls <= 2 + MaxFixes /\ l.attempt <= MaxFixes
    /\ l.pc \in Unread \union {"implement"} => l.calls = 0
    /\ l.pc = "reformat" => l.calls <= 1
    /\ l.pc \in {"validate", "worktree"} => l.calls <= 2
    /\ l.pc \in Unread \union Drafting => l.attempt = 0
    /\ l.pc \in InTree => l.calls <= 2 + l.attempt
    /\ l.pc = "fix" => l.attempt < MaxFixes

\* Nothing is tested before a decision that lets it pass.
GateHolds(l, cps) ==
    /\ Len(cps) <= 1
    /\ l.gated => cps \in {<<"approved">>, <<"edited">>}
    /\ ~ l.gated => l.tested = NoTree
    /\ ~ l.gated /\ l.pc \notin Over => cps = <<>>
    /\ l.pc \in {"pytest", "fix"} => l.gated
    /\ l.pc \notin {"attempt", "diff", "pytest", "fix"} \union Over => ~ l.gated
    /\ l.pc = "checkpoint" => l.decision \in Decisions

\* Blocks that may all be written.
AllValid(l, blocks) ==
    \A f \in DOMAIN blocks :
      /\ f \in l.writable
      /\ blocks[f] \notin Elided \union Broken
      /\ l.work[f] # Absent => 2 * SizeOf[blocks[f]] >= SizeOf[l.work[f]]
\* The worktree is HEAD with the current blocks from an attempt to the end.
TreeHolds(l) ==
    /\ l.pc \in Unread \union Asking \union Drafting \union {"done"} => l.tree = NoTree
    /\ l.pc \in (InTree \ {"attempt"}) \union {"cleanup"} => l.tree = Written(l.head, l.current)
    /\ l.pc \in {"select"} \union Drafting \union InTree => l.head \in [Files -> Contents \union {Absent}]
    /\ AllValid(l, l.current)
    /\ l.pc = "worktree" => AllValid(l, l.blocks)

\* How a run may end well.
EndHolds(l) ==
    l.pc \in Over /\ l.work # NoTree /\ l.exit = "ok" =>
      \/ l.decision = "aborted" /\ l.tested = NoTree
      \/ l.tested = Written(l.head, l.current)

\* A question touches no file.
QuestionHolds(l, cps) ==
    l.prompt.lead \/ l.pc \in Asking =>
      /\ l.pc \in Asking \union {"done"}
      /\ l.work = NoTree /\ l.tree = NoTree /\ cps = <<>> /\ l.calls <= 1
      /\ l.pc \in Asking \ {"verify"} => l.calls = 0
\* Spans are of different files.
SpansHold(l) ==
    /\ Len(l.spans) <= MaxSpans /\ ToSet(l.spans) \subseteq l.seen
    /\ IsFiniteSet(ToSet(l.spans)) /\ Cardinality(ToSet(l.spans)) = Len(l.spans)

\* What holds at every stage.
RunHolds(l, cps, p) ==
    /\ SelectionHolds(l, p) /\ SpendHolds(l) /\ GateHolds(l, cps) /\ TreeHolds(l) /\ EndHolds(l)
    /\ QuestionHolds(l, cps) /\ SpansHold(l)

\* The inductive invariant: types, and what holds at each stage.
RunKeeps == /\ PackKeeps /\ lane \in Lanes /\ checkpoints \in Seq(Decisions)
            /\ RunHolds(lane, checkpoints, draft)

\* The files of a selection that are there, once.
LEMMA ExistingFits ==
    ASSUME NEW refs \in Seq(Refs), NEW work
    PROVE  /\ Existing(refs, work) \in Seq(Files)
           /\ ToSet(Existing(refs, work)) \subseteq {f \in FilesIn(refs) : work[f] # Absent}
<1> DEFINE fs == [i \in DOMAIN refs |-> refs[i].file]
           S == {f \in Files : work[f] # Absent}
<1>1. fs \in Seq(Files) /\ ToSet(fs) = FilesIn(refs)
  <2>1. DOMAIN refs = 1 .. Len(refs) /\ Len(refs) \in Nat /\ \A i \in DOMAIN refs : refs[i].file \in Files
    <3>1. DOMAIN refs = 1 .. Len(refs) /\ Len(refs) \in Nat /\ \A i \in DOMAIN refs : refs[i] \in Refs
      OBVIOUS
    <3>2. \A r \in Refs : r.file \in Files
      BY DEF Refs
    <3> QED
      BY <3>1, <3>2
  <2>2. fs \in [1 .. Len(refs) -> Files]
    BY <2>1
  <2>3. fs \in Seq(Files)
    BY <2>1, <2>2
  <2> QED
    BY <2>1, <2>3 DEF ToSet, FilesIn
<1> HIDE DEF fs, S
<1>2. Among(fs, S) \in Seq(Files) /\ ToSet(Among(fs, S)) = ToSet(fs) \cap S
  BY <1>1, AmongFits
<1> DEFINE a == Among(fs, S)
<1> HIDE DEF a
<1>3. Firsts(a) \in Seq(Files) /\ ToSet(Firsts(a)) = ToSet(a)
  BY <1>2, FirstsFit DEF a
<1>4. Existing(refs, work) = Firsts(a)
  BY DEF Existing, a, fs, S
<1> QED
  BY <1>1, <1>2, <1>3, <1>4 DEF a, S

\* The first elements of a list.
LEMMA FirstOnesFit ==
    ASSUME NEW A, NEW s \in Seq(A), NEW n \in Nat
    PROVE  /\ FirstOnes(s, n) \in Seq(A) /\ Len(FirstOnes(s, n)) <= n /\ Len(FirstOnes(s, n)) \in Nat
           /\ ToSet(FirstOnes(s, n)) \subseteq ToSet(s)
           /\ ToSet(FirstOnes(s, 1)) \subseteq {s[1]}
<1> DEFINE m == IF Len(s) < n THEN Len(s) ELSE n
           m1 == IF Len(s) < 1 THEN Len(s) ELSE 1
<1>1. Len(s) \in Nat /\ m \in 0 .. Len(s) /\ m <= n /\ m1 \in 0 .. Len(s) /\ m1 <= 1
  OBVIOUS
<1>2. FirstOnes(s, n) = SubSeq(s, 1, m) /\ FirstOnes(s, 1) = SubSeq(s, 1, m1)
  BY DEF FirstOnes
<1> HIDE DEF m, m1
<1>3. /\ SubSeq(s, 1, m) \in Seq(A) /\ Len(SubSeq(s, 1, m)) = m /\ DOMAIN SubSeq(s, 1, m) = 1 .. m
      /\ \A i \in 1 .. m : SubSeq(s, 1, m)[i] = s[i] /\ i \in DOMAIN s
  BY <1>1, PrefixFits
<1>4. /\ DOMAIN SubSeq(s, 1, m1) = 1 .. m1
      /\ \A i \in 1 .. m1 : SubSeq(s, 1, m1)[i] = s[i]
  BY <1>1, PrefixFits
<1>5. \A i \in 1 .. m1 : i = 1
  BY <1>1
<1>6. ToSet(FirstOnes(s, n)) \subseteq ToSet(s)
  BY <1>2, <1>3 DEF ToSet
<1>7. ToSet(FirstOnes(s, 1)) \subseteq {s[1]}
  BY <1>2, <1>4, <1>5 DEF ToSet
<1> QED
  BY <1>1, <1>2, <1>3, <1>6, <1>7

\* What is read whole and what may be written, of a selection.
LEMMA ReadFits ==
    ASSUME NEW target \in Seq(Files), NEW test \in Seq(Files), NEW dep \in Seq(Files)
    PROVE  /\ ReadInFull(target, test, dep) \in Seq(Files) /\ Len(ReadInFull(target, test, dep)) <= MaxFiles
           /\ ToSet(ReadInFull(target, test, dep)) \subseteq ToSet(target) \union ToSet(test) \union ToSet(dep)
           /\ Writable(target, test) \subseteq ToSet(target) \union ToSet(test)
           /\ Writable(target, test) \in SUBSET Files
           /\ Cardinality(Writable(target, test) \ ToSet(target)) <= 1
<1> DEFINE one == FirstOnes(test, 1)
<1>1. one \in Seq(Files) /\ ToSet(one) \subseteq ToSet(test) /\ ToSet(one) \subseteq {test[1]}
  <2>1. 1 \in Nat
    OBVIOUS
  <2> QED
    BY <2>1, FirstOnesFit
<1> HIDE DEF one
<1>2. target \o one \in Seq(Files) /\ ToSet(target \o one) = ToSet(target) \union ToSet(one)
  BY <1>1, JoinFits
<1> DEFINE both == target \o one
<1> HIDE DEF both
<1>3. both \o dep \in Seq(Files) /\ ToSet(both \o dep) = ToSet(both) \union ToSet(dep)
  <2>1. both \in Seq(Files)
    BY <1>2 DEF both
  <2> QED
    BY <2>1, JoinFits
<1> DEFINE all == both \o dep
<1> HIDE DEF all
<1>4. /\ FirstOnes(all, MaxFiles) \in Seq(Files) /\ Len(FirstOnes(all, MaxFiles)) <= MaxFiles
      /\ ToSet(FirstOnes(all, MaxFiles)) \subseteq ToSet(all)
  BY <1>3, FirstOnesFit, RunnerAssumption DEF all
<1>5. ReadInFull(target, test, dep) = FirstOnes(all, MaxFiles) /\ Writable(target, test) = ToSet(both)
  BY DEF ReadInFull, Writable, all, both, one
<1>6. Writable(target, test) \ ToSet(target) \subseteq {test[1]}
  BY <1>1, <1>2, <1>5 DEF both
<1>7. Cardinality({test[1]}) = 1 /\ IsFiniteSet({test[1]})
  BY FS_Singleton
<1>8. Cardinality(Writable(target, test) \ ToSet(target)) <= 1
  BY <1>6, <1>7, FS_Subset
<1>9. ToSet(target) \subseteq Files /\ ToSet(one) \subseteq Files
  BY <1>1 DEF ToSet
<1> QED
  BY <1>1, <1>2, <1>3, <1>4, <1>5, <1>8, <1>9 DEF all, both

\* Sets of blocks.
LEMMA BlocksFit ==
    ASSUME NEW b, b = [f \in DOMAIN b |-> b[f]], DOMAIN b \subseteq Files, \A f \in DOMAIN b : b[f] \in Contents
    PROVE  b \in BlockSets
<1>1. b \in [DOMAIN b -> Contents]
  OBVIOUS
<1> QED
  BY <1>1 DEF BlockSets

\* The files and the contents of a set of blocks.
LEMMA BlocksAre ==
    ASSUME NEW b \in BlockSets
    PROVE  DOMAIN b \subseteq Files /\ \A f \in DOMAIN b : b[f] \in Contents
<1>1. PICK D \in SUBSET Files : b \in [D -> Contents]
  BY DEF BlockSets
<1> QED
  BY <1>1

\* What is taken from a reply, and what of it may be written.
LEMMA RepliesFit ==
    ASSUME NEW r \in ModelTexts
    PROVE  Extracted(r) \in BlockSets /\ NoBlocks \in BlockSets
<1>1. ASSUME NEW b \in {r.files, r.fenced} PROVE Inside(b) \in BlockSets
  <2>1. DOMAIN b \subseteq Files \union {Outside} /\ \A f \in DOMAIN b : b[f] \in Contents
    BY RunnerAssumption
  <2> DEFINE c == Inside(b)
  <2>2. DOMAIN c = DOMAIN b \ {Outside} /\ (\A f \in DOMAIN c : c[f] = b[f]) /\ c = [f \in DOMAIN c |-> c[f]]
    BY DEF Inside
  <2> HIDE DEF c
  <2>3. c \in BlockSets
    BY <2>1, <2>2, BlocksFit
  <2> QED
    BY <2>3 DEF c
<1>2. NoBlocks \in BlockSets
  <2>1. NoBlocks = [f \in DOMAIN NoBlocks |-> NoBlocks[f]] /\ DOMAIN NoBlocks = {}
    BY DEF NoBlocks
  <2> QED
    BY <2>1, BlocksFit
<1> QED
  BY <1>1, <1>2 DEF Extracted

\* What is accepted may be written.
LEMMA AcceptedFits ==
    ASSUME NEW b \in BlockSets
    PROVE  Accepted(b) \in BlockSets /\ AllValid(lane, Accepted(b))
<1> DEFINE c == Accepted(b)
<1>1. /\ DOMAIN c = {f \in DOMAIN b : Valid(f, b[f])} /\ (\A f \in DOMAIN c : c[f] = b[f])
      /\ c = [f \in DOMAIN c |-> c[f]]
  BY DEF Accepted
<1> HIDE DEF c
<1>2. DOMAIN b \subseteq Files /\ \A f \in DOMAIN b : b[f] \in Contents
  BY BlocksAre
<1>3. c \in BlockSets
  BY <1>1, <1>2, BlocksFit
<1>4. AllValid(lane, c)
  BY <1>1 DEF AllValid, Valid
<1> QED
  BY <1>3, <1>4 DEF c

\* A tree with the blocks written.
LEMMA WrittenFits ==
    ASSUME NEW tree \in [Files -> Contents \union {Absent}], NEW b \in BlockSets
    PROVE  Written(tree, b) \in FileTrees
<1>1. DOMAIN b \subseteq Files /\ \A f \in DOMAIN b : b[f] \in Contents
  BY BlocksAre
<1>2. \A f \in Files : tree[f] \in Contents \union {Absent}
  OBVIOUS
<1>3. Written(tree, b) \in [Files -> Contents \union {Absent}]
  BY <1>1, <1>2 DEF Written
<1> QED
  BY <1>3 DEF FileTrees

\* A run that ends keeps its files and its decisions.
EndedFrom(l, q) ==
    /\ q \in Lanes /\ q.pc = IF l.tree = NoTree THEN "done" ELSE "cleanup"
    /\ q.prompt = l.prompt /\ q.work = l.work /\ q.head = l.head /\ q.target = l.target
    /\ q.test = l.test /\ q.dep = l.dep /\ q.read = l.read /\ q.writable = l.writable
    /\ q.current = l.current /\ q.tree = l.tree /\ q.attempt = l.attempt /\ q.gated = l.gated
    /\ q.decision = l.decision /\ q.seen = l.seen /\ q.spans = l.spans

\* What a step that leaves the broker alone has to show.
LEMMA RunFrame ==
    ASSUME RunKeeps, UNCHANGED changeVars, lane' \in Lanes, checkpoints' \in Seq(Decisions),
           RunHolds(lane', checkpoints', draft)
    PROVE  RunKeeps'
<1>1. PackKeeps'
  BY DEF RunKeeps, PackKeeps, changeVars
<1>2. draft' = draft
  BY DEF changeVars
<1> QED
  BY <1>1, <1>2 DEF RunKeeps

\* How a run may end.
LEMMA RunEnds ==
    ASSUME RunKeeps, UNCHANGED changeVars, EndedFrom(lane, lane'), lane.pc \notin Over \union {"attempt"},
           checkpoints' \in Seq(Decisions), Len(checkpoints') <= 1,
           lane.gated => checkpoints' = checkpoints,
           ~ lane.gated => lane'.tested = NoTree,
           lane'.calls <= 2 + MaxFixes, lane.pc \in Unread => lane'.calls = 0,
           lane.pc \in Asking => lane'.calls <= 1 /\ checkpoints' = checkpoints,
           lane'.exit = "ok" => \/ lane.work = NoTree
                                \/ lane.decision = "aborted" /\ lane'.tested = NoTree
                                \/ lane'.tested = Written(lane.head, lane.current)
    PROVE  RunKeeps'
<1> DEFINE l == lane
           m == lane'
           cps == checkpoints'
           p == draft
<1>1. /\ l \in Lanes /\ SelectionHolds(l, p) /\ SpendHolds(l) /\ GateHolds(l, checkpoints) /\ TreeHolds(l)
      /\ QuestionHolds(l, checkpoints) /\ SpansHold(l)
  BY DEF RunKeeps, RunHolds
<1>2. EndedFrom(l, m)
  OBVIOUS
<1>3. m.pc \in Over /\ l.pc \in Unread \union Asking \union Drafting \union (InTree \ {"attempt"})
  BY <1>1, <1>2 DEF EndedFrom, Lanes, Over
<1>4. SelectionHolds(m, p)
  <2>1. m.pc \notin Unread \union Asking \union Drafting \union InTree
    BY <1>3 DEF Unread, Asking, Drafting, InTree, Over
  <2>2. m.target = l.target /\ m.test = l.test /\ m.dep = l.dep /\ m.work = l.work /\ m.read = l.read
        /\ m.writable = l.writable
    BY <1>2 DEF EndedFrom
  <2>3. /\ \A f \in ToSet(l.target) : f \in FilesIn(p.targets) /\ l.work[f] # Absent
        /\ \A f \in ToSet(l.test) : f \in FilesIn(p.tests) /\ l.work[f] # Absent
        /\ \A f \in ToSet(l.dep) : f \in FilesIn(p.deps) /\ l.work[f] # Absent
    <3>1. CASE l.pc \in {"route", "calling"}
      <4>1. l.target = <<>> /\ l.test = <<>> /\ l.dep = <<>>
        BY <1>1, <3>1 DEF SelectionHolds
      <4>2. ToSet(<<>>) = {}
        BY DEF ToSet
      <4> QED
        BY <4>1, <4>2
    <3>2. CASE l.pc \notin {"route", "calling"}
      BY <1>1, <3>2 DEF SelectionHolds
    <3> QED
      BY <3>1, <3>2
  <2>4. ASSUME l.work # NoTree, m.calls > 0
        PROVE  /\ l.target # <<>> /\ l.test # <<>>
               /\ l.read = ReadInFull(l.target, l.test, l.dep) /\ l.writable = Writable(l.target, l.test)
    <3>1. l.pc \notin Unread
      BY <2>4
    <3>2. l.pc \notin Asking
      BY <1>1, <2>4 DEF QuestionHolds
    <3>3. l.pc \in Drafting \union InTree
      BY <1>3, <3>1, <3>2
    <3> QED
      BY <1>1, <3>3 DEF SelectionHolds
  <2> QED
    BY <2>1, <2>2, <2>3, <2>4 DEF SelectionHolds, Unread
<1>5. SpendHolds(m)
  BY <1>1, <1>2, <1>3 DEF SpendHolds, EndedFrom, Over, Unread, Drafting, InTree
<1>6. GateHolds(m, cps)
  BY <1>1, <1>2, <1>3 DEF GateHolds, EndedFrom, Over
<1>7. TreeHolds(m)
  <2>1. l.pc \in Unread \union Asking \union Drafting => l.tree = NoTree
    BY <1>1 DEF TreeHolds
  <2>2. l.pc \in InTree \ {"attempt"} => l.tree = Written(l.head, l.current)
    BY <1>1 DEF TreeHolds
  <2>3. m.pc = "done" => m.tree = NoTree
    BY <1>2 DEF EndedFrom
  <2>4. m.pc = "cleanup" => m.tree = Written(m.head, m.current)
    BY <1>2, <1>3, <2>1, <2>2 DEF EndedFrom
  <2>5. AllValid(m, m.current)
    BY <1>1, <1>2 DEF AllValid, TreeHolds, EndedFrom
  <2> QED
    BY <1>3, <2>3, <2>4, <2>5 DEF TreeHolds, Over, Unread, Asking, Drafting, InTree
<1>8. EndHolds(m)
  BY <1>2 DEF EndHolds, EndedFrom
<1>9. QuestionHolds(m, cps)
  <2>1. m.prompt = l.prompt /\ m.work = l.work /\ m.tree = l.tree
    BY <1>2 DEF EndedFrom
  <2>2. m.pc \notin Asking
    BY <1>3 DEF Over, Asking
  <2>3. l.prompt.lead => /\ l.pc \in Asking /\ l.work = NoTree /\ l.tree = NoTree /\ checkpoints = <<>>
    BY <1>1 DEF QuestionHolds, Over
  <2>4. l.prompt.lead => m.pc = "done"
    BY <1>2, <2>3 DEF EndedFrom
  <2> QED
    BY <2>1, <2>2, <2>3, <2>4 DEF QuestionHolds
<1>10. SpansHold(m)
  BY <1>1, <1>2 DEF SpansHold, EndedFrom
<1>11. m \in Lanes
  BY <1>2 DEF EndedFrom
<1>12. RunHolds(m, cps, p)
  BY <1>4, <1>5, <1>6, <1>7, <1>8, <1>9, <1>10 DEF RunHolds
<1> QED
  BY <1>11, <1>12, RunFrame

\* The end as it is written.
LEMMA EndedFits ==
    ASSUME lane \in Lanes, NEW code \in {"ok", "failed", "raised"}, NEW n \in Nat, NEW tree \in FileTrees
    PROVE  /\ LET q == Ended(code)
              IN  EndedFrom(lane, q) /\ q.exit = code /\ q.calls = lane.calls /\ q.tested = lane.tested
           /\ LET q == [Ended(code) EXCEPT !.calls = n]
              IN  EndedFrom(lane, q) /\ q.exit = code /\ q.calls = n /\ q.tested = lane.tested
           /\ LET q == [Ended(code) EXCEPT !.tested = tree]
              IN  EndedFrom(lane, q) /\ q.exit = code /\ q.calls = lane.calls /\ q.tested = tree
<1> DEFINE pc == IF lane.tree = NoTree THEN "done" ELSE "cleanup"
           e == [lane EXCEPT !.pc = pc, !.exit = code]
           c == [e EXCEPT !.calls = n]
           t == [e EXCEPT !.tested = tree]
<1>1. Ended(code) = e
  BY DEF Ended
<1>2. pc \in Over /\ pc = IF lane.tree = NoTree THEN "done" ELSE "cleanup"
  BY DEF Over
<1> HIDE DEF pc
<1>3. e \in Lanes /\ e.pc = pc /\ e.exit = code /\ e.calls = lane.calls /\ e.tested = lane.tested
  <2>1. lane \in Lanes
    OBVIOUS
  <2>2. pc \in Unread \union Asking \union Drafting \union InTree \union Over
    BY <1>2
  <2>3. e \in Lanes
    BY <2>1, <2>2 DEF Lanes
  <2>4. e.pc = pc /\ e.exit = code /\ e.calls = lane.calls /\ e.tested = lane.tested
    BY <2>1 DEF Lanes
  <2> QED
    BY <2>3, <2>4
<1>4. EndedFrom(lane, e)
  BY <1>2, <1>3 DEF EndedFrom, Lanes
<1> HIDE DEF e
<1>5. EndedFrom(lane, c) /\ c.exit = code /\ c.calls = n /\ c.tested = lane.tested
  BY <1>3, <1>4 DEF EndedFrom, Lanes
<1>6. EndedFrom(lane, t) /\ t.exit = code /\ t.calls = lane.calls /\ t.tested = tree
  BY <1>3, <1>4 DEF EndedFrom, Lanes
<1> QED
  BY <1>1, <1>3, <1>4, <1>5, <1>6

\* The end after a test run.
EndedAfter(code, tree) == [Ended(code) EXCEPT !.tested = tree]

\* Such an end keeps all but what was tested.
LEMMA EndedAfterFits ==
    ASSUME lane \in Lanes, NEW code \in {"ok", "failed"}, NEW tree \in FileTrees
    PROVE  /\ EndedFrom(lane, EndedAfter(code, tree)) /\ EndedAfter(code, tree).calls = lane.calls
           /\ EndedAfter(code, tree).tested = tree
<1> DEFINE e == Ended(code)
           t == [e EXCEPT !.tested = tree]
<1>1. EndedFrom(lane, e) /\ e.calls = lane.calls /\ e \in Lanes
  <2>1. code \in {"ok", "failed", "raised"} /\ 0 \in Nat
    OBVIOUS
  <2>2. EndedFrom(lane, e) /\ e.calls = lane.calls
    BY <2>1, EndedFits
  <2> QED
    BY <2>2 DEF EndedFrom
<1> HIDE DEF e
<1>2. EndedFrom(lane, t) /\ t.calls = lane.calls /\ t.tested = tree
  BY <1>1 DEF EndedFrom, Lanes
<1> HIDE DEF t
<1>3. EndedAfter(code, tree) = t
  BY DEF EndedAfter, t, e
<1> QED
  BY <1>2, <1>3

\* A step between the stages of a change keeps its files.
GoesOnWith(l, q) ==
    /\ q \in Lanes /\ l.pc \in Drafting \union InTree /\ q.pc \in Drafting \union InTree
    /\ q.prompt = l.prompt /\ q.work = l.work /\ q.head = l.head /\ q.target = l.target
    /\ q.test = l.test /\ q.dep = l.dep /\ q.read = l.read /\ q.writable = l.writable
    /\ q.seen = l.seen /\ q.spans = l.spans

\* What such a step has to show.
LEMMA ChangeGoesOn ==
    ASSUME RunKeeps, UNCHANGED changeVars, GoesOnWith(lane, lane'), checkpoints' \in Seq(Decisions),
           SpendHolds(lane'), GateHolds(lane', checkpoints'), TreeHolds(lane')
    PROVE  RunKeeps'
<1> DEFINE l == lane
           m == lane'
           p == draft
<1>1. /\ l \in Lanes /\ SelectionHolds(l, p) /\ QuestionHolds(l, checkpoints) /\ SpansHold(l)
  BY DEF RunKeeps, RunHolds
<1>2. GoesOnWith(l, m)
  OBVIOUS
<1>3. /\ l.pc \notin Unread \union Asking \union Over /\ m.pc \notin Unread \union Asking \union Over
      /\ "route" \in Unread /\ "calling" \in Unread /\ "done" \in Over
  BY <1>2 DEF GoesOnWith, Unread, Asking, Over, Drafting, InTree
<1>4. SelectionHolds(m, p)
  BY <1>1, <1>2, <1>3 DEF SelectionHolds, GoesOnWith
<1>5. EndHolds(m)
  BY <1>3 DEF EndHolds
<1>6. QuestionHolds(m, checkpoints')
  BY <1>1, <1>2, <1>3 DEF QuestionHolds, GoesOnWith
<1>7. SpansHold(m)
  BY <1>1, <1>2 DEF SpansHold, GoesOnWith
<1>8. RunHolds(m, checkpoints', p)
  BY <1>4, <1>5, <1>6, <1>7 DEF RunHolds
<1> QED
  BY <1>2, <1>8, RunFrame DEF GoesOnWith

\* The first call of the model, and the one after a reply without blocks.
LEMMA ImplementKeeps ==
    ASSUME RunKeeps, Implement
    PROVE  RunKeeps'
<1>1. /\ lane \in Lanes /\ SpendHolds(lane) /\ GateHolds(lane, checkpoints) /\ TreeHolds(lane)
      /\ checkpoints \in Seq(Decisions)
  BY DEF RunKeeps, RunHolds
<1>2. lane.pc \in {"implement", "reformat"} /\ lane.pc \in Drafting /\ UNCHANGED <<changeVars, checkpoints>>
  BY DEF Implement, GoOn, Drafting
<1>3. /\ lane.calls \in Nat /\ lane.calls <= 1 /\ lane.calls + 1 \in Nat /\ lane.attempt = 0 /\ MaxFixes \in Nat
      /\ (lane.pc = "implement" => lane.calls = 0) /\ lane.tree = NoTree /\ ~ lane.gated /\ checkpoints = <<>>
      /\ Len(checkpoints) = 0
  BY <1>1, <1>2, RunnerAssumption DEF SpendHolds, Lanes, TreeHolds, GateHolds, Drafting, Over
<1>4. PICK reply \in ModelTexts :
        \/ lane' = [Asked EXCEPT !.pc = "validate", !.blocks = Extracted(reply)]
        \/ lane' = [Ended("failed") EXCEPT !.calls = @ + 1]
        \/ lane' = [Asked EXCEPT !.pc = "reformat"] /\ lane.pc = "implement"
  BY DEF Implement, GoOn, At
<1>5. Extracted(reply) \in BlockSets
  BY RepliesFit
<1> DEFINE b == Extracted(reply)
<1> HIDE DEF b
<1> DEFINE a == [lane EXCEPT !.calls = lane.calls + 1]
<1>6. /\ a \in Lanes /\ a.pc = lane.pc /\ a.calls = lane.calls + 1 /\ a.attempt = 0 /\ a.tree = NoTree
      /\ ~ a.gated /\ a.current = lane.current /\ a.writable = lane.writable /\ a.work = lane.work
      /\ a.tested = lane.tested /\ a.head = lane.head
      /\ a.prompt = lane.prompt /\ a.target = lane.target /\ a.test = lane.test /\ a.dep = lane.dep
      /\ a.read = lane.read /\ a.seen = lane.seen /\ a.spans = lane.spans
  BY <1>1, <1>3 DEF Lanes
<1>7. Asked = a
  BY DEF Asked
<1> HIDE DEF a
<1>8. ASSUME NEW q, q \in Lanes, q.pc \in {"validate", "reformat"}, q.pc = "reformat" => lane.pc = "implement",
             q.calls = lane.calls + 1, q.attempt = 0, q.tree = NoTree, ~ q.gated, q.tested = lane.tested,
             q.current = lane.current, lane' = q, GoesOnWith(lane, q)
      PROVE  RunKeeps'
  <2>1. SpendHolds(q)
    BY <1>3, <1>8 DEF SpendHolds, Unread, InTree, Drafting
  <2>2. GateHolds(q, checkpoints')
    BY <1>1, <1>2, <1>3, <1>8 DEF GateHolds, Over
  <2>3. TreeHolds(q)
    <3>1. AllValid(q, q.current)
      BY <1>1, <1>8 DEF TreeHolds, AllValid, GoesOnWith
    <3>2. q.head \in [Files -> Contents \union {Absent}]
      BY <1>1, <1>2, <1>8 DEF TreeHolds, GoesOnWith
    <3> QED
      BY <1>8, <3>1, <3>2 DEF TreeHolds, InTree
  <2> QED
    BY <1>1, <1>2, <1>8, <2>1, <2>2, <2>3, ChangeGoesOn
<1>9. CASE lane' = [a EXCEPT !.pc = "validate", !.blocks = b]
  <2> DEFINE q == [a EXCEPT !.pc = "validate", !.blocks = b]
  <2>1. b \in BlockSets
    BY <1>5 DEF b
  <2>2. q \in Lanes
    BY <1>6, <2>1 DEF Lanes, Drafting
  <2>3. /\ q.pc = "validate" /\ q.calls = a.calls /\ q.attempt = a.attempt /\ q.tree = a.tree /\ q.gated = a.gated
        /\ q.tested = a.tested /\ q.current = a.current
    BY <1>6 DEF Lanes
  <2>4. GoesOnWith(lane, q)
    <3>1. /\ q.prompt = a.prompt /\ q.work = a.work /\ q.head = a.head /\ q.target = a.target
          /\ q.test = a.test /\ q.dep = a.dep /\ q.read = a.read /\ q.writable = a.writable
          /\ q.seen = a.seen /\ q.spans = a.spans
      BY <1>6 DEF Lanes
    <3> HIDE DEF q
    <3> QED
      BY <1>2, <1>6, <2>2, <2>3, <3>1 DEF GoesOnWith, Drafting
  <2> HIDE DEF q
  <2>5. lane' = q
    BY <1>9 DEF q
  <2> QED
    BY <1>6, <1>8, <2>2, <2>3, <2>4, <2>5
<1>10. CASE lane' = [a EXCEPT !.pc = "reformat"] /\ lane.pc = "implement"
  <2> DEFINE q == [a EXCEPT !.pc = "reformat"]
  <2>1. q \in Lanes
    BY <1>6 DEF Lanes, Drafting
  <2>2. /\ q.pc = "reformat" /\ q.calls = a.calls /\ q.attempt = a.attempt /\ q.tree = a.tree /\ q.gated = a.gated
        /\ q.tested = a.tested /\ q.current = a.current
    BY <1>6 DEF Lanes
  <2>3. GoesOnWith(lane, q)
    <3>1. /\ q.prompt = a.prompt /\ q.work = a.work /\ q.head = a.head /\ q.target = a.target
          /\ q.test = a.test /\ q.dep = a.dep /\ q.read = a.read /\ q.writable = a.writable
          /\ q.seen = a.seen /\ q.spans = a.spans
      BY <1>6 DEF Lanes
    <3> HIDE DEF q
    <3> QED
      BY <1>2, <1>6, <2>1, <2>2, <3>1 DEF GoesOnWith, Drafting
  <2> HIDE DEF q
  <2>4. lane' = q
    BY <1>10 DEF q
  <2> QED
    BY <1>6, <1>8, <1>10, <2>1, <2>2, <2>3, <2>4
<1>11. CASE lane' = [Ended("failed") EXCEPT !.calls = lane.calls + 1]
  <2>1. /\ EndedFrom(lane, lane') /\ lane'.exit = "failed" /\ lane'.calls = lane.calls + 1
        /\ lane'.tested = lane.tested
    <3>1. lane.tree \in FileTrees /\ "failed" \in {"ok", "failed", "raised"}
      BY <1>1 DEF Lanes
    <3> QED
      BY <1>1, <1>3, <1>11, <3>1, EndedFits
  <2>2. lane.pc \notin Over \union {"attempt"} \union Unread \union Asking
    BY <1>2 DEF Over, Unread, Asking
  <2> QED
    BY <1>1, <1>2, <1>3, <2>1, <2>2, RunEnds DEF GateHolds
<1>12. [Ended("failed") EXCEPT !.calls = @ + 1] = [Ended("failed") EXCEPT !.calls = lane.calls + 1]
  <2>1. Ended("failed").calls = lane.calls
    BY <1>1 DEF Ended, Lanes
  <2> QED
    BY <2>1
<1> QED
  BY <1>4, <1>7, <1>9, <1>10, <1>11, <1>12 DEF b

\* What a failed step of the change shows.
LEMMA ChangeFails ==
    ASSUME RunKeeps, UNCHANGED changeVars, checkpoints' = checkpoints, lane' = Ended("failed"),
           lane.pc \notin Over \union {"attempt"} \union Asking
    PROVE  RunKeeps'
<1>1. lane \in Lanes /\ SpendHolds(lane) /\ GateHolds(lane, checkpoints) /\ checkpoints \in Seq(Decisions)
  BY DEF RunKeeps, RunHolds
<1>2. lane.tree \in FileTrees /\ "failed" \in {"ok", "failed", "raised"} /\ 0 \in Nat
  BY <1>1 DEF Lanes
<1>3. EndedFrom(lane, lane') /\ lane'.exit = "failed" /\ lane'.calls = lane.calls /\ lane'.tested = lane.tested
  BY <1>1, <1>2, EndedFits
<1>4. ~ lane.gated => lane.tested = NoTree
  BY <1>1 DEF GateHolds
<1>5. Len(checkpoints) <= 1
  BY <1>1 DEF GateHolds
<1>6. lane.calls <= 2 + MaxFixes /\ (lane.pc \in Unread => lane.calls = 0)
  BY <1>1 DEF SpendHolds
<1> QED
  BY <1>1, <1>3, <1>4, <1>5, <1>6, RunEnds

\* Only what may be written goes into the worktree.
LEMMA ValidateKeeps ==
    ASSUME RunKeeps, Validate
    PROVE  RunKeeps'
<1>1. /\ lane \in Lanes /\ SpendHolds(lane) /\ GateHolds(lane, checkpoints) /\ TreeHolds(lane)
      /\ checkpoints \in Seq(Decisions)
  BY DEF RunKeeps, RunHolds
<1>2. lane.pc = "validate" /\ lane.pc \in Drafting /\ lane.pc \notin Over \union {"attempt"} \union Asking
  BY DEF Validate, At, Drafting, Over, Asking
<1>3. UNCHANGED changeVars /\ checkpoints' = checkpoints
  BY DEF Validate, GoOn
<1> DEFINE b == Accepted(lane.blocks)
<1>4. b \in BlockSets /\ AllValid(lane, b)
  BY <1>1, AcceptedFits DEF Lanes
<1>5. CASE b = NoBlocks
  BY <1>2, <1>3, <1>5, ChangeFails DEF Validate, GoOn
<1>6. CASE b # NoBlocks
  <2>1. lane' = [lane EXCEPT !.pc = "worktree", !.blocks = b]
    BY <1>6 DEF Validate, GoOn
  <2> HIDE DEF b
  <2> DEFINE q == [lane EXCEPT !.pc = "worktree", !.blocks = b]
  <2>2. q \in Lanes
    BY <1>1, <1>4 DEF Lanes, Drafting
  <2>3. /\ q.pc = "worktree" /\ q.calls = lane.calls /\ q.attempt = lane.attempt /\ q.tree = lane.tree
        /\ q.gated = lane.gated /\ q.tested = lane.tested /\ q.current = lane.current /\ q.blocks = b
    BY <1>1 DEF Lanes
  <2>4. GoesOnWith(lane, q)
    <3>1. /\ q.prompt = lane.prompt /\ q.work = lane.work /\ q.head = lane.head /\ q.target = lane.target
          /\ q.test = lane.test /\ q.dep = lane.dep /\ q.read = lane.read /\ q.writable = lane.writable
          /\ q.seen = lane.seen /\ q.spans = lane.spans
      BY <1>1 DEF Lanes
    <3> HIDE DEF q
    <3> QED
      BY <1>2, <2>2, <2>3, <3>1 DEF GoesOnWith, Drafting
  <2> HIDE DEF q
  <2>5. SpendHolds(q)
    BY <1>1, <1>2, <2>3 DEF SpendHolds, Unread, InTree, Drafting
  <2>6. GateHolds(q, checkpoints)
    BY <1>1, <1>2, <2>3 DEF GateHolds, Over
  <2>7. TreeHolds(q)
    BY <1>1, <1>2, <1>4, <2>3, <2>4 DEF TreeHolds, AllValid, GoesOnWith, InTree, Drafting
  <2>8. lane' = q
    BY <2>1 DEF q
  <2> QED
    BY <1>1, <1>3, <2>4, <2>5, <2>6, <2>7, <2>8, ChangeGoesOn
<1> QED
  BY <1>5, <1>6

\* A worktree of HEAD, or the end.
LEMMA AddWorktreeKeeps ==
    ASSUME RunKeeps, AddWorktree
    PROVE  RunKeeps'
<1>1. /\ lane \in Lanes /\ SpendHolds(lane) /\ GateHolds(lane, checkpoints) /\ TreeHolds(lane)
      /\ checkpoints \in Seq(Decisions)
  BY DEF RunKeeps, RunHolds
<1>2. lane.pc = "worktree" /\ lane.pc \in Drafting /\ lane.pc \notin Over \union {"attempt"} \union Asking
  BY DEF AddWorktree, At, Drafting, Over, Asking
<1>3. UNCHANGED changeVars /\ checkpoints' = checkpoints
  BY DEF AddWorktree, GoOn
<1>4. CASE lane' = Ended("failed")
  BY <1>2, <1>3, <1>4, ChangeFails
<1>5. CASE lane' = [lane EXCEPT !.pc = "attempt", !.tree = lane.head, !.current = lane.blocks]
  <2> DEFINE q == [lane EXCEPT !.pc = "attempt", !.tree = lane.head, !.current = lane.blocks]
  <2>1. q \in Lanes
    BY <1>1 DEF Lanes, InTree
  <2>2. /\ q.pc = "attempt" /\ q.calls = lane.calls /\ q.attempt = lane.attempt
        /\ q.gated = lane.gated /\ q.tested = lane.tested /\ q.current = lane.blocks
    BY <1>1 DEF Lanes
  <2>3. GoesOnWith(lane, q)
    <3>1. /\ q.prompt = lane.prompt /\ q.work = lane.work /\ q.head = lane.head /\ q.target = lane.target
          /\ q.test = lane.test /\ q.dep = lane.dep /\ q.read = lane.read /\ q.writable = lane.writable
          /\ q.seen = lane.seen /\ q.spans = lane.spans
      BY <1>1 DEF Lanes
    <3> HIDE DEF q
    <3> QED
      BY <1>2, <2>1, <2>2, <3>1 DEF GoesOnWith, InTree
  <2> HIDE DEF q
  <2>4. SpendHolds(q)
    <3>1. lane.calls <= 2 /\ lane.attempt = 0 /\ lane.calls <= 2 + MaxFixes /\ lane.calls \in Nat /\ MaxFixes \in Nat
      BY <1>1, <1>2, RunnerAssumption DEF SpendHolds, Lanes
    <3> QED
      BY <2>2, <3>1 DEF SpendHolds, Unread, Drafting
  <2>5. GateHolds(q, checkpoints)
    BY <1>1, <1>2, <2>2 DEF GateHolds, Over
  <2>6. TreeHolds(q)
    BY <1>1, <1>2, <2>2, <2>3 DEF TreeHolds, AllValid, GoesOnWith, InTree, Unread, Asking, Drafting
  <2>7. lane' = q
    BY <1>5 DEF q
  <2> QED
    BY <1>1, <1>3, <2>3, <2>4, <2>5, <2>6, <2>7, ChangeGoesOn
<1> QED
  BY <1>4, <1>5 DEF AddWorktree, GoOn

\* An attempt: HEAD with the blocks written.
LEMMA WriteAttemptKeeps ==
    ASSUME RunKeeps, WriteAttempt
    PROVE  RunKeeps'
<1>1. /\ lane \in Lanes /\ SpendHolds(lane) /\ GateHolds(lane, checkpoints) /\ TreeHolds(lane)
      /\ checkpoints \in Seq(Decisions)
  BY DEF RunKeeps, RunHolds
<1>2. lane.pc = "attempt" /\ lane.pc \in InTree
  BY DEF WriteAttempt, At, InTree
<1>3. UNCHANGED changeVars /\ checkpoints' = checkpoints
  BY DEF WriteAttempt, GoOn
<1> DEFINE t == Written(lane.head, lane.current)
<1>4. t \in FileTrees
  BY <1>1, <1>2, WrittenFits DEF Lanes, TreeHolds
<1>5. lane' = [lane EXCEPT !.pc = "diff", !.tree = t]
  BY DEF WriteAttempt, GoOn, ResetTree
<1> HIDE DEF t
<1> DEFINE q == [lane EXCEPT !.pc = "diff", !.tree = t]
<1>6. q \in Lanes
  BY <1>1, <1>4 DEF Lanes, InTree
<1>7. /\ q.pc = "diff" /\ q.calls = lane.calls /\ q.attempt = lane.attempt /\ q.tree = t
      /\ q.gated = lane.gated /\ q.tested = lane.tested /\ q.current = lane.current
  BY <1>1 DEF Lanes
<1>8. GoesOnWith(lane, q)
  <2>1. /\ q.prompt = lane.prompt /\ q.work = lane.work /\ q.head = lane.head /\ q.target = lane.target
        /\ q.test = lane.test /\ q.dep = lane.dep /\ q.read = lane.read /\ q.writable = lane.writable
        /\ q.seen = lane.seen /\ q.spans = lane.spans
    BY <1>1 DEF Lanes
  <2> HIDE DEF q
  <2> QED
    BY <1>2, <1>6, <1>7, <2>1 DEF GoesOnWith, InTree
<1> HIDE DEF q
<1>9. SpendHolds(q)
  BY <1>1, <1>2, <1>7 DEF SpendHolds, Unread, Drafting, InTree
<1>10. GateHolds(q, checkpoints)
  BY <1>1, <1>2, <1>7 DEF GateHolds, Over
<1>11. TreeHolds(q)
  BY <1>1, <1>2, <1>7, <1>8 DEF TreeHolds, AllValid, GoesOnWith, InTree, Unread, Asking, Drafting, t
<1>12. lane' = q
  BY <1>5 DEF q
<1> QED
  BY <1>1, <1>3, <1>8, <1>9, <1>10, <1>11, <1>12, ChangeGoesOn

\* A step in the worktree that leaves it alone.
LEMMA StaysInTree ==
    ASSUME RunKeeps, UNCHANGED changeVars, checkpoints' \in Seq(Decisions), Len(checkpoints') <= 1,
           lane.pc \in InTree \ {"attempt"},
           NEW q, q \in Lanes, q.pc \in InTree \ {"attempt"}, lane' = q, GoesOnWith(lane, q),
           q.calls = lane.calls, q.attempt = lane.attempt, q.tree = lane.tree, q.current = lane.current,
           q.pc = "fix" => q.attempt < MaxFixes,
           q.gated => checkpoints' \in {<<"approved">>, <<"edited">>},
           ~ q.gated => q.tested = NoTree /\ checkpoints' = <<>>,
           q.pc \in {"pytest", "fix"} => q.gated, q.pc \notin {"diff", "pytest", "fix"} => ~ q.gated,
           q.pc = "checkpoint" => q.decision \in Decisions
    PROVE  RunKeeps'
<1>1. lane \in Lanes /\ SpendHolds(lane) /\ TreeHolds(lane)
  BY DEF RunKeeps, RunHolds
<1>2. lane.pc \in InTree /\ lane.pc \notin {"attempt"} \union Unread \union Asking \union Drafting \union Over
  BY DEF InTree, Unread, Asking, Drafting, Over
<1>3. q.pc \in InTree /\ q.pc \notin {"attempt"} \union Unread \union Asking \union Drafting \union Over
  BY DEF InTree, Unread, Asking, Drafting, Over
<1>4. /\ q.pc # "implement" /\ q.pc # "reformat" /\ q.pc \notin {"validate", "worktree"} /\ q.pc # "worktree"
      /\ q.pc \notin {"done"} /\ q.pc # "cleanup"
  BY <1>3 DEF Drafting, Over
<1>5. SpendHolds(q)
  BY <1>1, <1>2, <1>3, <1>4 DEF SpendHolds
<1>6. GateHolds(q, checkpoints')
  BY <1>3 DEF GateHolds
<1>7. TreeHolds(q)
  BY <1>1, <1>2, <1>3, <1>4 DEF TreeHolds, AllValid, GoesOnWith
<1> QED
  BY <1>5, <1>6, <1>7, ChangeGoesOn

\* A step that moves on, with or without a decision.
LEMMA MovesOn ==
    ASSUME RunKeeps, UNCHANGED changeVars, checkpoints' = checkpoints,
           lane.pc \in {"diff", "gate", "editing"}, NEW d \in Decisions,
           NEW pc \in {"pytest", "gate", "editing", "checkpoint"},
           pc = "pytest" <=> lane.gated,
           \/ pc # "checkpoint" /\ lane' = [lane EXCEPT !.pc = pc]
           \/ lane' = [lane EXCEPT !.pc = pc, !.decision = d]
    PROVE  RunKeeps'
<1>1. lane \in Lanes /\ GateHolds(lane, checkpoints) /\ checkpoints \in Seq(Decisions)
  BY DEF RunKeeps, RunHolds
<1>2. /\ lane.pc \in InTree \ {"attempt"} /\ pc \in InTree \ {"attempt"} /\ lane.pc \notin Over /\ pc # "fix" /\ pc # "diff"
  BY DEF InTree, Over
<1>3. /\ Len(checkpoints) <= 1 /\ (lane.gated => checkpoints \in {<<"approved">>, <<"edited">>})
      /\ (~ lane.gated => lane.tested = NoTree /\ checkpoints = <<>>)
  BY <1>1, <1>2 DEF GateHolds
<1> DEFINE Moved(q) == /\ q \in Lanes /\ q.pc = pc /\ q.calls = lane.calls /\ q.attempt = lane.attempt
                      /\ q.tree = lane.tree /\ q.gated = lane.gated /\ q.tested = lane.tested
                      /\ q.current = lane.current
                      /\ q.prompt = lane.prompt /\ q.work = lane.work /\ q.head = lane.head /\ q.target = lane.target
                      /\ q.test = lane.test /\ q.dep = lane.dep /\ q.read = lane.read /\ q.writable = lane.writable
                      /\ q.seen = lane.seen /\ q.spans = lane.spans
<1> DEFINE one == [lane EXCEPT !.pc = pc]
           two == [lane EXCEPT !.pc = pc, !.decision = d]
<1>4. Moved(one)
  BY <1>1, <1>2 DEF Lanes
<1>5. Moved(two) /\ two.decision = d
  <2>1. two \in Lanes
    BY <1>1, <1>2 DEF Lanes
  <2>2. /\ two.pc = pc /\ two.calls = lane.calls /\ two.attempt = lane.attempt /\ two.tree = lane.tree
        /\ two.gated = lane.gated /\ two.tested = lane.tested /\ two.current = lane.current /\ two.decision = d
    BY <1>1 DEF Lanes
  <2>3. /\ two.prompt = lane.prompt /\ two.work = lane.work /\ two.head = lane.head /\ two.target = lane.target
        /\ two.test = lane.test /\ two.dep = lane.dep /\ two.read = lane.read /\ two.writable = lane.writable
        /\ two.seen = lane.seen /\ two.spans = lane.spans
    BY <1>1 DEF Lanes
  <2> HIDE DEF two
  <2> QED
    BY <2>1, <2>2, <2>3
<1> HIDE DEF one, two
<1>6. lane' = two \/ (lane' = one /\ pc # "checkpoint")
  BY DEF one, two
<1> DEFINE q == lane'
<1>7. Moved(q) /\ (pc = "checkpoint" => q.decision \in Decisions)
  BY <1>4, <1>5, <1>6
<1> HIDE DEF q
<1>8. GoesOnWith(lane, q)
  BY <1>2, <1>7 DEF GoesOnWith
<1>9. lane' = q
  BY DEF q
<1> QED
  BY <1>1, <1>2, <1>3, <1>7, <1>8, <1>9, StaysInTree

\* The diff of an attempt.
LEMMA ShowDiffKeeps ==
    ASSUME RunKeeps, ShowDiff
    PROVE  RunKeeps'
<1>1. lane.pc = "diff" /\ UNCHANGED changeVars /\ checkpoints' = checkpoints
  BY DEF ShowDiff, At, GoOn
<1>2. CASE lane' = Ended("failed")
  BY <1>1, <1>2, ChangeFails DEF Over, Asking
<1>3. CASE lane' = [lane EXCEPT !.pc = IF lane.gated THEN "pytest" ELSE "gate"]
  <2> DEFINE pc == IF lane.gated THEN "pytest" ELSE "gate"
  <2>1. pc \in {"pytest", "gate", "editing", "checkpoint"} /\ pc # "checkpoint" /\ (pc = "pytest" <=> lane.gated)
    OBVIOUS
  <2>2. lane' = [lane EXCEPT !.pc = pc] /\ "edited" \in Decisions
    BY <1>3 DEF Decisions
  <2> HIDE DEF pc
  <2> QED
    BY <1>1, <2>1, <2>2, MovesOn
<1> QED
  BY <1>2, <1>3 DEF ShowDiff, GoOn

\* What the human answers.
LEMMA GateKeeps ==
    ASSUME RunKeeps, Gate \/ EndEdit
    PROVE  RunKeeps'
<1>1. lane.pc \in {"gate", "editing"} /\ UNCHANGED changeVars /\ checkpoints' = checkpoints
  BY DEF Gate, EndEdit, At, GoOn
<1>2. ~ lane.gated
  BY <1>1 DEF RunKeeps, RunHolds, GateHolds, Over
<1>3. \A input : Verdict(input) \in Decisions
  BY DEF Verdict, Decisions
<1>4. PICK d \in Decisions : \/ lane' = [lane EXCEPT !.pc = "editing"]
                             \/ lane' = [lane EXCEPT !.pc = "checkpoint", !.decision = d]
  BY <1>3 DEF Gate, EndEdit, GoOn, Decisions
<1> QED
  BY <1>1, <1>2, <1>4, MovesOn

\* The decision is recorded before it is followed.
LEMMA CheckpointKeeps ==
    ASSUME RunKeeps, WriteCheckpoint
    PROVE  RunKeeps'
<1>1. /\ lane \in Lanes /\ SpendHolds(lane) /\ GateHolds(lane, checkpoints) /\ TreeHolds(lane)
      /\ checkpoints \in Seq(Decisions)
  BY DEF RunKeeps, RunHolds
<1>2. /\ lane.pc = "checkpoint" /\ lane.pc \in InTree \ {"attempt"} /\ lane.pc \notin Over /\ UNCHANGED changeVars
      /\ checkpoints' = Append(checkpoints, lane.decision)
  BY DEF WriteCheckpoint, At, InTree, Over
<1>3. /\ ~ lane.gated /\ checkpoints = <<>> /\ lane.tested = NoTree /\ lane.decision \in Decisions
      /\ checkpoints' = <<lane.decision>>
  <2>1. lane.pc \notin {"attempt", "diff", "pytest", "fix"} \union Over
    BY <1>2
  <2>2. ~ lane.gated
    BY <1>1, <2>1 DEF GateHolds
  <2>3. checkpoints = <<>> /\ lane.tested = NoTree /\ lane.decision \in Decisions
    BY <1>1, <1>2, <2>2 DEF GateHolds
  <2>4. Append(<<>>, lane.decision) = <<lane.decision>>
    OBVIOUS
  <2> QED
    BY <1>2, <2>2, <2>3, <2>4
<1>4. checkpoints' \in Seq(Decisions) /\ Len(checkpoints') = 1
  BY <1>3
<1>5. ASSUME NEW code \in {"ok", "failed"}, lane' = Ended(code), code = "ok" => lane.decision = "aborted"
      PROVE  RunKeeps'
  <2>1. lane.tree \in FileTrees /\ code \in {"ok", "failed", "raised"} /\ 0 \in Nat
    BY <1>1 DEF Lanes
  <2>2. EndedFrom(lane, lane') /\ lane'.exit = code /\ lane'.calls = lane.calls /\ lane'.tested = lane.tested
    BY <1>1, <1>5, <2>1, EndedFits
  <2>3. lane.pc \notin Over \union {"attempt"} \union Unread \union Asking
    BY <1>2 DEF Over, Unread, Asking
  <2>4. lane'.calls <= 2 + MaxFixes
    BY <1>1, <2>2 DEF SpendHolds
  <2>5. Len(checkpoints') <= 1
    BY <1>4
  <2> QED
    BY <1>2, <1>3, <1>4, <1>5, <2>2, <2>3, <2>4, <2>5, RunEnds
<1>6. ASSUME lane' = [lane EXCEPT !.pc = "pytest", !.gated = TRUE], lane.decision \in {"approved", "edited"}
      PROVE  RunKeeps'
  <2> DEFINE q == [lane EXCEPT !.pc = "pytest", !.gated = TRUE]
  <2>1. /\ q \in Lanes /\ q.pc = "pytest" /\ q.calls = lane.calls /\ q.attempt = lane.attempt /\ q.tree = lane.tree
        /\ q.gated = TRUE /\ q.current = lane.current
    BY <1>1 DEF Lanes, InTree
  <2>2. /\ q.prompt = lane.prompt /\ q.work = lane.work /\ q.head = lane.head /\ q.target = lane.target
        /\ q.test = lane.test /\ q.dep = lane.dep /\ q.read = lane.read /\ q.writable = lane.writable
        /\ q.seen = lane.seen /\ q.spans = lane.spans
    BY <1>1 DEF Lanes
  <2> HIDE DEF q
  <2>3. GoesOnWith(lane, q)
    BY <1>2, <2>1, <2>2 DEF GoesOnWith, InTree
  <2>4. checkpoints' \in {<<"approved">>, <<"edited">>}
    BY <1>3, <1>6
  <2>5. lane' = q
    BY <1>6 DEF q
  <2>6. Len(checkpoints') <= 1 /\ q.pc \in InTree \ {"attempt"}
    BY <1>4, <2>1 DEF InTree
  <2> QED
    BY <1>2, <1>4, <2>1, <2>3, <2>4, <2>5, <2>6, StaysInTree
<1>7. CASE lane.decision = "rejected"
  BY <1>5, <1>7 DEF WriteCheckpoint
<1>8. CASE lane.decision = "aborted"
  BY <1>5, <1>8 DEF WriteCheckpoint
<1>9. CASE lane.decision \in {"approved", "edited"}
  BY <1>6, <1>9 DEF WriteCheckpoint
<1> QED
  BY <1>3, <1>7, <1>8, <1>9 DEF Decisions

\* A test run passes, fails for good or goes to the fixer.
LEMMA PytestKeeps ==
    ASSUME RunKeeps, RunPytest
    PROVE  RunKeeps'
<1>1. /\ lane \in Lanes /\ SpendHolds(lane) /\ GateHolds(lane, checkpoints) /\ TreeHolds(lane)
      /\ checkpoints \in Seq(Decisions)
  BY DEF RunKeeps, RunHolds
<1>2. /\ lane.pc = "pytest" /\ lane.pc \in InTree \ {"attempt"} /\ lane.pc \notin Over /\ UNCHANGED changeVars
      /\ checkpoints' = checkpoints
  BY DEF RunPytest, At, GoOn, InTree, Over
<1>3. /\ lane.gated /\ lane.tree = Written(lane.head, lane.current) /\ lane.tree \in FileTrees
      /\ checkpoints \in {<<"approved">>, <<"edited">>} /\ Len(checkpoints) <= 1
      /\ lane.attempt \in Nat /\ MaxFixes \in Nat
  BY <1>1, <1>2, RunnerAssumption DEF GateHolds, TreeHolds, Lanes
<1>4. ASSUME NEW code \in {"ok", "failed"}, lane' = [Ended(code) EXCEPT !.tested = lane.tree]
      PROVE  RunKeeps'
  <2>1. code \in {"ok", "failed", "raised"} /\ 0 \in Nat
    OBVIOUS
  <2>2. EndedFrom(lane, lane') /\ lane'.calls = lane.calls /\ lane'.tested = lane.tree
    <3>1. lane \in Lanes /\ lane.tree \in FileTrees
      BY <1>1, <1>3
    <3>2. lane' = EndedAfter(code, lane.tree)
      BY <1>4 DEF EndedAfter
    <3> QED
      BY <3>1, <3>2, EndedAfterFits
  <2>3. lane.pc \notin Over \union {"attempt"} \union Unread \union Asking
    BY <1>2 DEF Over, Unread, Asking
  <2>4. lane'.calls <= 2 + MaxFixes
    BY <1>1, <2>2 DEF SpendHolds
  <2> QED
    BY <1>1, <1>2, <1>3, <2>2, <2>3, <2>4, RunEnds
<1>5. ASSUME lane' = [[lane EXCEPT !.pc = "fix"] EXCEPT !.tested = lane.tree], lane.attempt < MaxFixes
      PROVE  RunKeeps'
  <2> DEFINE q == [[lane EXCEPT !.pc = "fix"] EXCEPT !.tested = lane.tree]
  <2>1. /\ q \in Lanes /\ q.pc = "fix" /\ q.calls = lane.calls /\ q.attempt = lane.attempt /\ q.tree = lane.tree
        /\ q.gated = lane.gated /\ q.current = lane.current
    BY <1>1, <1>3 DEF Lanes, InTree
  <2>2. /\ q.prompt = lane.prompt /\ q.work = lane.work /\ q.head = lane.head /\ q.target = lane.target
        /\ q.test = lane.test /\ q.dep = lane.dep /\ q.read = lane.read /\ q.writable = lane.writable
        /\ q.seen = lane.seen /\ q.spans = lane.spans
    BY <1>1 DEF Lanes
  <2> HIDE DEF q
  <2>3. GoesOnWith(lane, q)
    BY <1>2, <2>1, <2>2 DEF GoesOnWith, InTree
  <2>4. lane' = q
    BY <1>5 DEF q
  <2>5. q.pc \in InTree \ {"attempt"} /\ q.attempt < MaxFixes
    BY <1>5, <2>1 DEF InTree
  <2> QED
    BY <1>1, <1>2, <1>3, <2>1, <2>3, <2>4, <2>5, StaysInTree
<1>6. CASE lane' = [Ended("ok") EXCEPT !.tested = lane.tree]
  BY <1>4, <1>6
<1>7. CASE lane' = [(IF lane.attempt >= MaxFixes THEN Ended("failed") ELSE [lane EXCEPT !.pc = "fix"])
                       EXCEPT !.tested = lane.tree]
  <2>1. CASE lane.attempt >= MaxFixes
    BY <1>4, <1>7, <2>1
  <2>2. CASE ~ (lane.attempt >= MaxFixes)
    <3>1. lane.attempt < MaxFixes
      BY <1>3, <2>2
    <3> QED
      BY <1>5, <1>7, <2>2, <3>1
  <2> QED
    BY <2>1, <2>2
<1> QED
  BY <1>6, <1>7 DEF RunPytest, GoOn

\* The call of the fixer.
LEMMA FixKeeps ==
    ASSUME RunKeeps, Fix
    PROVE  RunKeeps'
<1>1. /\ lane \in Lanes /\ SpendHolds(lane) /\ GateHolds(lane, checkpoints) /\ TreeHolds(lane)
      /\ checkpoints \in Seq(Decisions)
  BY DEF RunKeeps, RunHolds
<1>2. /\ lane.pc = "fix" /\ lane.pc \in InTree /\ lane.pc \notin Over \union {"attempt"} \union Unread \union Asking
      /\ UNCHANGED changeVars /\ checkpoints' = checkpoints
  BY DEF Fix, At, GoOn, InTree, Over, Unread, Asking
<1>3. /\ lane.gated /\ checkpoints \in {<<"approved">>, <<"edited">>} /\ Len(checkpoints) <= 1
      /\ lane.attempt \in Nat /\ lane.calls \in Nat /\ MaxFixes \in Nat /\ lane.attempt < MaxFixes
      /\ lane.calls <= 2 + lane.attempt /\ lane.tree \in FileTrees
  BY <1>1, <1>2, RunnerAssumption DEF GateHolds, SpendHolds, Lanes
<1>4. PICK reply \in ModelTexts :
        \/ lane' = [Ended("failed") EXCEPT !.calls = @ + 1]
        \/ lane' = [Asked EXCEPT !.pc = "attempt", !.current = Accepted(Extracted(reply)), !.attempt = @ + 1]
  BY DEF Fix, GoOn
<1> DEFINE b == Accepted(Extracted(reply))
<1>5. b \in BlockSets /\ AllValid(lane, b)
  BY RepliesFit, AcceptedFits
<1> HIDE DEF b
<1>6. CASE lane' = [Ended("failed") EXCEPT !.calls = @ + 1]
  <2>1. Ended("failed").calls = lane.calls
    BY <1>1 DEF Ended, Lanes
  <2>2. lane' = [Ended("failed") EXCEPT !.calls = lane.calls + 1]
    BY <1>6, <2>1
  <2>3. lane.calls + 1 \in Nat /\ "failed" \in {"ok", "failed", "raised"}
    BY <1>3
  <2>4. EndedFrom(lane, lane') /\ lane'.exit = "failed" /\ lane'.calls = lane.calls + 1
    BY <1>1, <1>3, <2>2, <2>3, EndedFits
  <2>5. lane'.calls <= 2 + MaxFixes
    BY <1>3, <2>4
  <2> QED
    BY <1>1, <1>2, <1>3, <2>4, <2>5, RunEnds
<1>7. CASE lane' = [Asked EXCEPT !.pc = "attempt", !.current = b, !.attempt = @ + 1]
  <2> DEFINE a == [lane EXCEPT !.calls = lane.calls + 1]
  <2>1. Asked = a
    BY DEF Asked
  <2>2. /\ a \in Lanes /\ a.calls = lane.calls + 1 /\ a.attempt = lane.attempt /\ a.gated = lane.gated
        /\ a.prompt = lane.prompt /\ a.work = lane.work /\ a.head = lane.head /\ a.target = lane.target
        /\ a.test = lane.test /\ a.dep = lane.dep /\ a.read = lane.read /\ a.writable = lane.writable
        /\ a.seen = lane.seen /\ a.spans = lane.spans
    <3>1. lane \in Lanes /\ lane.calls + 1 \in Nat
      BY <1>1, <1>3
    <3>2. a \in Lanes /\ a.calls = lane.calls + 1 /\ a.attempt = lane.attempt /\ a.gated = lane.gated
      BY <3>1 DEF Lanes
    <3>3. /\ a.prompt = lane.prompt /\ a.work = lane.work /\ a.head = lane.head /\ a.target = lane.target
          /\ a.test = lane.test /\ a.dep = lane.dep /\ a.read = lane.read /\ a.writable = lane.writable
          /\ a.seen = lane.seen /\ a.spans = lane.spans
      BY <3>1 DEF Lanes
    <3> HIDE DEF a
    <3> QED
      BY <3>2, <3>3
  <2> HIDE DEF a
  <2> DEFINE q == [a EXCEPT !.pc = "attempt", !.current = b, !.attempt = lane.attempt + 1]
  <2>3. lane' = q
    BY <1>7, <2>1, <2>2
  <2>4. q \in Lanes
    <3>1. a \in Lanes /\ b \in BlockSets /\ lane.attempt + 1 \in Nat
      BY <1>3, <1>5, <2>2
    <3>2. "attempt" \in Unread \union Asking \union Drafting \union InTree \union Over
      BY DEF InTree
    <3> QED
      BY <3>1, <3>2 DEF Lanes
  <2>5. /\ q.pc = "attempt" /\ q.calls = a.calls /\ q.attempt = lane.attempt + 1 /\ q.gated = a.gated
        /\ q.current = b
    BY <2>2 DEF Lanes
  <2>6. /\ q.prompt = a.prompt /\ q.work = a.work /\ q.head = a.head /\ q.target = a.target
        /\ q.test = a.test /\ q.dep = a.dep /\ q.read = a.read /\ q.writable = a.writable
        /\ q.seen = a.seen /\ q.spans = a.spans
    BY <2>2 DEF Lanes
  <2> HIDE DEF q
  <2>7. GoesOnWith(lane, q)
    BY <1>2, <2>2, <2>4, <2>5, <2>6 DEF GoesOnWith, InTree
  <2>8. SpendHolds(q)
    BY <1>3, <2>2, <2>5 DEF SpendHolds, Unread, Drafting
  <2>9. GateHolds(q, checkpoints)
    BY <1>3, <2>2, <2>5 DEF GateHolds, Over
  <2>10. TreeHolds(q)
    BY <1>1, <1>2, <1>5, <2>5, <2>7 DEF TreeHolds, AllValid, GoesOnWith, InTree, Unread, Asking, Drafting
  <2> QED
    BY <1>1, <1>2, <2>3, <2>7, <2>8, <2>9, <2>10, ChangeGoesOn
<1> QED
  BY <1>4, <1>6, <1>7 DEF b

\* An exception ends the run.
LEMMA RaiseKeeps ==
    ASSUME RunKeeps, Raise
    PROVE  RunKeeps'
<1>1. /\ lane \in Lanes /\ SpendHolds(lane) /\ GateHolds(lane, checkpoints) /\ QuestionHolds(lane, checkpoints)
      /\ checkpoints \in Seq(Decisions)
  BY DEF RunKeeps, RunHolds
<1>2. /\ lane.pc \notin Over \union {"attempt"} /\ UNCHANGED changeVars
      /\ checkpoints' = checkpoints /\ lane' = Ended("raised")
  BY DEF Raise, GoOn, Over
<1>3. lane.tree \in FileTrees /\ "raised" \in {"ok", "failed", "raised"} /\ 0 \in Nat
  BY <1>1 DEF Lanes
<1>4. EndedFrom(lane, lane') /\ lane'.exit = "raised" /\ lane'.calls = lane.calls /\ lane'.tested = lane.tested
  BY <1>1, <1>2, <1>3, EndedFits
<1>5. (~ lane.gated => lane.tested = NoTree) /\ Len(checkpoints) <= 1
  BY <1>1 DEF GateHolds
<1>6. lane.calls <= 2 + MaxFixes /\ (lane.pc \in Unread => lane.calls = 0)
  BY <1>1 DEF SpendHolds
<1>7. lane.pc \in Asking => lane.calls <= 1
  BY <1>1 DEF QuestionHolds
<1> QED
  BY <1>1, <1>2, <1>4, <1>5, <1>6, <1>7, RunEnds

\* The worktree goes.
LEMMA RemoveKeeps ==
    ASSUME RunKeeps, RemoveWorktree
    PROVE  RunKeeps'
<1>1. /\ lane \in Lanes /\ SelectionHolds(lane, draft) /\ SpendHolds(lane) /\ GateHolds(lane, checkpoints)
      /\ TreeHolds(lane) /\ EndHolds(lane) /\ QuestionHolds(lane, checkpoints) /\ SpansHold(lane)
      /\ checkpoints \in Seq(Decisions)
  BY DEF RunKeeps, RunHolds
<1>2. /\ lane.pc = "cleanup" /\ UNCHANGED changeVars /\ checkpoints' = checkpoints
      /\ lane' = [lane EXCEPT !.pc = "done", !.tree = NoTree]
  BY DEF RemoveWorktree, At, GoOn
<1> DEFINE q == [lane EXCEPT !.pc = "done", !.tree = NoTree]
<1>3. NoTree \in FileTrees /\ "done" \in Over /\ "cleanup" \in Over
  BY DEF FileTrees, Over
<1>4. q \in Lanes
  BY <1>1, <1>3 DEF Lanes
<1>5. /\ q.pc = "done" /\ q.tree = NoTree /\ q.calls = lane.calls /\ q.attempt = lane.attempt /\ q.gated = lane.gated
      /\ q.tested = lane.tested /\ q.current = lane.current /\ q.decision = lane.decision /\ q.exit = lane.exit
  BY <1>1 DEF Lanes
<1>6. /\ q.prompt = lane.prompt /\ q.work = lane.work /\ q.head = lane.head /\ q.target = lane.target
      /\ q.test = lane.test /\ q.dep = lane.dep /\ q.read = lane.read /\ q.writable = lane.writable
      /\ q.seen = lane.seen /\ q.spans = lane.spans
  BY <1>1 DEF Lanes
<1> HIDE DEF q
<1>7. {"done", "cleanup"} \cap (Unread \union Asking \union Drafting \union InTree) = {}
  BY DEF Unread, Asking, Drafting, InTree
<1>8. SelectionHolds(q, draft)
  BY <1>1, <1>2, <1>5, <1>6, <1>7 DEF SelectionHolds, Unread
<1>9. SpendHolds(q)
  BY <1>1, <1>5, <1>7 DEF SpendHolds
<1>10. GateHolds(q, checkpoints)
  BY <1>1, <1>2, <1>3, <1>5 DEF GateHolds
<1>11. TreeHolds(q)
  BY <1>1, <1>5, <1>6, <1>7 DEF TreeHolds, AllValid
<1>12. EndHolds(q)
  BY <1>1, <1>2, <1>3, <1>5, <1>6 DEF EndHolds
<1>13. QuestionHolds(q, checkpoints)
  BY <1>1, <1>2, <1>5, <1>6, <1>7 DEF QuestionHolds
<1>14. SpansHold(q)
  BY <1>1, <1>6 DEF SpansHold
<1>15. RunHolds(q, checkpoints, draft)
  BY <1>8, <1>9, <1>10, <1>11, <1>12, <1>13, <1>14 DEF RunHolds
<1>16. lane' = q
  BY <1>2 DEF q
<1> QED
  BY <1>1, <1>2, <1>4, <1>15, <1>16, RunFrame

\* A change on its way to its files has nothing yet.
LEMMA UnreadFrom ==
    ASSUME RunKeeps, lane.pc \in Unread
    PROVE  /\ lane \in Lanes /\ lane.current = NoBlocks /\ lane.calls = 0 /\ lane.attempt = 0 /\ lane.tree = NoTree
           /\ ~ lane.gated /\ lane.tested = NoTree /\ checkpoints = <<>> /\ checkpoints \in Seq(Decisions)
           /\ ~ lane.prompt.lead /\ SpansHold(lane) /\ 0 <= MaxFixes /\ DOMAIN NoBlocks = {}
           /\ UNCHANGED changeVars => PackKeeps'
<1>1. lane \in Lanes /\ SelectionHolds(lane, draft) /\ SpendHolds(lane) /\ GateHolds(lane, checkpoints)
      /\ TreeHolds(lane) /\ QuestionHolds(lane, checkpoints) /\ SpansHold(lane) /\ checkpoints \in Seq(Decisions)
  BY DEF RunKeeps, RunHolds
<1>2. lane.pc \notin Over /\ lane.pc \notin {"attempt", "diff", "pytest", "fix"} \union Over /\ lane.pc \notin Asking
  BY DEF Unread, Over, Asking
<1>3. ~ lane.gated
  BY <1>1, <1>2 DEF GateHolds
<1>4. lane.tested = NoTree /\ checkpoints = <<>>
  BY <1>1, <1>2, <1>3 DEF GateHolds
<1>5. lane.current = NoBlocks
  BY <1>1 DEF SelectionHolds
<1>6. lane.calls = 0 /\ lane.attempt = 0
  BY <1>1 DEF SpendHolds
<1>7. lane.tree = NoTree
  BY <1>1 DEF TreeHolds
<1>8. ~ lane.prompt.lead
  BY <1>1, <1>2 DEF QuestionHolds, Over
<1>9. 0 <= MaxFixes
  BY RunnerAssumption
<1>10. DOMAIN NoBlocks = {}
  BY DEF NoBlocks
<1>11. UNCHANGED changeVars => PackKeeps'
  BY DEF RunKeeps, PackKeeps, changeVars
<1> QED
  BY <1>1, <1>3, <1>4, <1>5, <1>6, <1>7, <1>8, <1>9, <1>10, <1>11

\* A run starts with nothing.
LEMMA RunStarts == RunnerInit => RunKeeps
<1> SUFFICES ASSUME RunnerInit PROVE RunKeeps
  OBVIOUS
<1>1. PackKeeps /\ lane = NewRun /\ checkpoints = <<>>
  BY PackStarts DEF RunnerInit
<1>2. NoTree \in FileTrees /\ NoBlocks \in BlockSets /\ DOMAIN NoBlocks = {}
  <2>1. NoBlocks = [f \in DOMAIN NoBlocks |-> NoBlocks[f]] /\ DOMAIN NoBlocks = {}
    BY DEF NoBlocks
  <2> QED
    BY <2>1, BlocksFit DEF FileTrees
<1> DEFINE l == lane
<1>3. /\ l.pc = "route" /\ l.prompt = [lead |-> FALSE, verb |-> FALSE] /\ l.auto = FALSE /\ l.work = NoTree
      /\ l.head = NoTree /\ l.target = <<>> /\ l.test = <<>> /\ l.dep = <<>> /\ l.read = <<>> /\ l.writable = {}
      /\ l.calls = 0 /\ l.blocks = NoBlocks /\ l.current = NoBlocks /\ l.tree = NoTree /\ l.attempt = 0
      /\ l.gated = FALSE /\ l.decision = "none" /\ l.tested = NoTree /\ l.exit = "none" /\ l.cards = <<>>
      /\ l.more = <<>> /\ l.queue = <<>> /\ l.seen = {} /\ l.spans = <<>>
  BY <1>1 DEF NewRun
<1>4. l \in Lanes
  <2>1. <<>> \in Seq(Files) /\ <<>> \in Seq(RunCards) /\ "route" \in Unread
    BY DEF Unread
  <2> QED
    BY <1>1, <1>2, <2>1 DEF NewRun, Lanes
<1>5. "route" \in Unread /\ "route" \notin Asking \union Drafting \union InTree \union Over
  BY DEF Unread, Asking, Drafting, InTree, Over
<1> HIDE DEF l
<1>6. SelectionHolds(l, draft)
  BY <1>3, <1>5 DEF SelectionHolds
<1>7. SpendHolds(l)
  BY <1>3, <1>5, RunnerAssumption DEF SpendHolds, Drafting
<1>8. GateHolds(l, <<>>)
  BY <1>3, <1>5 DEF GateHolds
<1>9. TreeHolds(l)
  BY <1>2, <1>3, <1>5 DEF TreeHolds, AllValid, Over
<1>10. EndHolds(l)
  BY <1>3, <1>5 DEF EndHolds
<1>11. QuestionHolds(l, <<>>)
  BY <1>3, <1>5 DEF QuestionHolds
<1>12. SpansHold(l)
  <2>1. ToSet(<<>>) = {} /\ IsFiniteSet({}) /\ Cardinality({}) = 0
    BY FS_EmptySet DEF ToSet
  <2>2. Len(<<>>) = 0 /\ 0 <= MaxSpans
    BY RunnerAssumption
  <2> QED
    BY <1>3, <2>1, <2>2 DEF SpansHold
<1>13. RunHolds(l, <<>>, draft)
  BY <1>6, <1>7, <1>8, <1>9, <1>10, <1>11, <1>12 DEF RunHolds
<1> QED
  BY <1>1, <1>4, <1>13 DEF RunKeeps, l

\* The broker makes the pack, while the run waits.
LEMMA BrokerKeeps ==
    ASSUME RunKeeps, BrokerStep
    PROVE  RunKeeps'
<1>1. PackKeeps' /\ lane' = lane /\ checkpoints' = checkpoints /\ lane.pc = "calling"
  BY PackStepKeeps DEF RunKeeps, BrokerStep, At
<1>2. SelectionHolds(lane, draft')
  BY <1>1 DEF RunKeeps, RunHolds, SelectionHolds, Drafting, InTree
<1> QED
  BY <1>1, <1>2 DEF RunKeeps, RunHolds

\* A step within the explanation.
LEMMA AsksOn ==
    ASSUME RunKeeps, UNCHANGED changeVars, checkpoints' = checkpoints, lane.pc \in Asking \union {"route"},
           NEW q, q \in Lanes, lane' = q, q.pc \in Asking, SpansHold(q),
           q.calls <= 1, q.pc # "verify" => q.calls = 0,
           q.work = lane.work, q.target = lane.target, q.test = lane.test, q.dep = lane.dep,
           q.tree = lane.tree, q.current = lane.current, q.writable = lane.writable, q.gated = lane.gated,
           q.tested = lane.tested, q.attempt = lane.attempt
    PROVE  RunKeeps'
<1>1. /\ lane \in Lanes /\ SelectionHolds(lane, draft) /\ SpendHolds(lane) /\ GateHolds(lane, checkpoints)
      /\ TreeHolds(lane) /\ QuestionHolds(lane, checkpoints) /\ checkpoints \in Seq(Decisions)
  BY DEF RunKeeps, RunHolds
<1>2. /\ q.pc \notin Unread \union Drafting \union InTree \union Over
      /\ lane.pc \notin Drafting \union InTree \union Over \union {"calling"}
  BY DEF Unread, Asking, Drafting, InTree, Over
<1>3. lane.work = NoTree /\ lane.tree = NoTree
  <2>1. CASE lane.pc = "route"
    BY <1>1, <2>1 DEF SelectionHolds, TreeHolds, Unread
  <2>2. CASE lane.pc \in Asking
    BY <1>1, <2>2 DEF QuestionHolds
  <2> QED
    BY <2>1, <2>2
<1>4. lane.pc \notin {"attempt", "diff", "pytest", "fix"} \union Over /\ q.pc \notin {"pytest", "fix"} /\ q.pc # "checkpoint"
  BY <1>2 DEF InTree
<1>5. ~ lane.gated
  BY <1>1, <1>4 DEF GateHolds
<1>6. lane.tested = NoTree /\ checkpoints = <<>> /\ Len(checkpoints) <= 1
  BY <1>1, <1>2, <1>5 DEF GateHolds
<1>7. SelectionHolds(q, draft)
  <2>1. /\ \A f \in ToSet(lane.target) : f \in FilesIn(draft.targets) /\ lane.work[f] # Absent
        /\ \A f \in ToSet(lane.test) : f \in FilesIn(draft.tests) /\ lane.work[f] # Absent
        /\ \A f \in ToSet(lane.dep) : f \in FilesIn(draft.deps) /\ lane.work[f] # Absent
    <3>1. CASE lane.pc = "route"
      <4>1. lane.target = <<>> /\ lane.test = <<>> /\ lane.dep = <<>>
        BY <1>1, <3>1 DEF SelectionHolds
      <4>2. ToSet(<<>>) = {}
        BY DEF ToSet
      <4> QED
        BY <4>1, <4>2
    <3>2. CASE lane.pc \notin {"route", "calling"}
      BY <1>1, <3>2 DEF SelectionHolds
    <3> QED
      BY <1>2, <3>1, <3>2
  <2> QED
    BY <1>2, <1>3, <2>1 DEF SelectionHolds, Unread
<1>8. SpendHolds(q)
  <2>1. q.calls \in Nat /\ MaxFixes \in Nat
    BY RunnerAssumption DEF Lanes
  <2>2. q.calls <= 2 + MaxFixes /\ q.attempt <= MaxFixes
    BY <1>1, <2>1 DEF SpendHolds
  <2>3. q.pc # "implement" /\ q.pc # "reformat" /\ q.pc \notin {"validate", "worktree"} /\ q.pc # "fix"
    BY <1>2 DEF Drafting, InTree
  <2> QED
    BY <1>2, <2>2, <2>3 DEF SpendHolds
<1>9. GateHolds(q, checkpoints)
  BY <1>4, <1>5, <1>6 DEF GateHolds
<1>10. TreeHolds(q)
  BY <1>1, <1>2, <1>3 DEF TreeHolds, AllValid, Unread, InTree, Drafting, Over
<1>11. EndHolds(q)
  BY <1>2 DEF EndHolds
<1>12. QuestionHolds(q, checkpoints)
  BY <1>3, <1>6 DEF QuestionHolds
<1>13. RunHolds(q, checkpoints, draft)
  BY <1>7, <1>8, <1>9, <1>10, <1>11, <1>12 DEF RunHolds
<1> QED
  BY <1>1, <1>13, RunFrame

\* A step of a change before anything is read.
LEMMA UnreadGoesOn ==
    ASSUME RunKeeps, UNCHANGED changeVars, checkpoints' = checkpoints, lane.pc \in Unread,
           NEW q, q \in Lanes, lane' = q, q.pc \in {"calling", "select"}, ~ q.prompt.lead,
           q.current = lane.current, q.calls = lane.calls, q.attempt = lane.attempt, q.tree = lane.tree,
           q.gated = lane.gated, q.tested = lane.tested, q.spans = lane.spans, q.seen = lane.seen,
           q.pc = "calling" => q.work = NoTree /\ q.target = <<>> /\ q.test = <<>> /\ q.dep = <<>>,
           q.pc = "select" =>
             /\ \A f \in ToSet(q.target) : f \in FilesIn(draft.targets) /\ q.work[f] # Absent
             /\ \A f \in ToSet(q.test) : f \in FilesIn(draft.tests) /\ q.work[f] # Absent
             /\ \A f \in ToSet(q.dep) : f \in FilesIn(draft.deps) /\ q.work[f] # Absent
             /\ q.head \in [Files -> Contents \union {Absent}]
    PROVE  RunKeeps'
<1>1. /\ lane.current = NoBlocks /\ lane.calls = 0 /\ lane.attempt = 0 /\ lane.tree = NoTree
      /\ ~ lane.gated /\ lane.tested = NoTree /\ checkpoints = <<>> /\ checkpoints \in Seq(Decisions)
      /\ SpansHold(lane) /\ 0 <= MaxFixes /\ DOMAIN NoBlocks = {}
  BY UnreadFrom
<1>2. /\ q.pc \in Unread /\ q.pc \notin Asking \union Drafting \union InTree \union Over /\ q.pc # "implement"
      /\ q.pc # "reformat" /\ q.pc \notin {"validate", "worktree"}
  BY DEF Unread, Asking, Drafting, InTree, Over
<1>3. SelectionHolds(q, draft)
  BY <1>1, <1>2 DEF SelectionHolds
<1>4. SpendHolds(q)
  <2>1. 0 <= 2 + MaxFixes
    BY RunnerAssumption
  <2> QED
    BY <1>1, <1>2, <2>1 DEF SpendHolds, InTree
<1>5. GateHolds(q, checkpoints)
  BY <1>1, <1>2 DEF GateHolds, InTree
<1>6. TreeHolds(q)
  BY <1>1, <1>2 DEF TreeHolds, AllValid, Over
<1>7. EndHolds(q)
  BY <1>2 DEF EndHolds
<1>8. QuestionHolds(q, checkpoints)
  BY <1>2 DEF QuestionHolds
<1>9. SpansHold(q)
  BY <1>1 DEF SpansHold
<1>10. RunHolds(q, checkpoints, draft)
  BY <1>3, <1>4, <1>5, <1>6, <1>7, <1>8, <1>9 DEF RunHolds
<1> QED
  BY <1>1, <1>10, RunFrame

\* The request is a change or a question.
LEMMA RouteKeeps ==
    ASSUME RunKeeps, Route
    PROVE  RunKeeps'
<1>1. lane.pc = "route" /\ lane.pc \in Unread /\ UNCHANGED changeVars /\ checkpoints' = checkpoints
  BY DEF Route, At, GoOn, Unread
<1>2. PICK s \in Prompts, auto \in BOOLEAN :
        lane' = [lane EXCEPT !.pc = IF Lane(s) = "build" THEN "calling" ELSE "pack", !.prompt = s, !.auto = auto]
  BY DEF Route, GoOn
<1>3. lane \in Lanes /\ SpansHold(lane) /\ lane.calls = 0 /\ s \in [lead : BOOLEAN, verb : BOOLEAN]
  BY <1>1, UnreadFrom, RunnerAssumption
<1> DEFINE pc == IF Lane(s) = "build" THEN "calling" ELSE "pack"
<1>4. pc \in {"calling", "pack"} /\ (pc = "calling" => ~ s.lead)
  BY DEF Lane
<1>5. lane' = [lane EXCEPT !.pc = pc, !.prompt = s, !.auto = auto]
  BY <1>2
<1> HIDE DEF pc
<1> DEFINE q == [lane EXCEPT !.pc = pc, !.prompt = s, !.auto = auto]
<1>6. q \in Lanes
  <2>1. pc \in Unread \union Asking \union Drafting \union InTree \union Over
    BY <1>4 DEF Unread, Asking
  <2> QED
    BY <1>3, <2>1 DEF Lanes
<1>7. /\ q.pc = pc /\ q.prompt = s /\ q.work = lane.work /\ q.target = lane.target /\ q.test = lane.test
      /\ q.dep = lane.dep /\ q.calls = lane.calls /\ q.current = lane.current /\ q.tree = lane.tree
      /\ q.attempt = lane.attempt /\ q.gated = lane.gated /\ q.tested = lane.tested
      /\ q.writable = lane.writable /\ q.seen = lane.seen /\ q.spans = lane.spans
  BY <1>3 DEF Lanes
<1> HIDE DEF q
<1>8. lane' = q
  BY <1>5 DEF q
<1>9. CASE pc = "calling"
  <2>1. lane.work = NoTree /\ lane.target = <<>> /\ lane.test = <<>> /\ lane.dep = <<>>
    BY <1>1 DEF RunKeeps, RunHolds, SelectionHolds
  <2>2. ~ q.prompt.lead /\ q.pc \in {"calling", "select"} /\ q.pc # "select"
    BY <1>4, <1>7, <1>9
  <2> QED
    BY <1>1, <1>6, <1>7, <1>8, <2>1, <2>2, UnreadGoesOn
<1>10. CASE pc = "pack"
  <2>1. q.pc \in Asking /\ q.calls <= 1 /\ q.calls = 0 /\ SpansHold(q)
    BY <1>3, <1>7, <1>10 DEF Asking, SpansHold
  <2> QED
    BY <1>1, <1>6, <1>7, <1>8, <2>1, AsksOn
<1> QED
  BY <1>4, <1>9, <1>10

\* The files of the pack that are in the workspace.
LEMMA ResolveKeeps ==
    ASSUME RunKeeps, ResolveFiles
    PROVE  RunKeeps'
<1>1. lane.pc = "calling" /\ lane.pc \in Unread /\ UNCHANGED changeVars /\ checkpoints' = checkpoints
  BY DEF ResolveFiles, At, GoOn, Unread
<1>2. PICK t \in Trees :
        lane' = [lane EXCEPT !.pc = "select", !.work = t.work, !.head = t.head,
                             !.target = Existing(draft.targets, t.work),
                             !.test = Existing(draft.tests, t.work), !.dep = Existing(draft.deps, t.work)]
  BY DEF ResolveFiles, GoOn
<1>3. lane \in Lanes /\ ~ lane.prompt.lead
  BY <1>1, UnreadFrom
<1>4. draft.targets \in Seq(Refs) /\ draft.tests \in Seq(Refs) /\ draft.deps \in Seq(Refs)
  BY DEF RunKeeps, PackKeeps, PackDrafts
<1> DEFINE a == Existing(draft.targets, t.work)
           b == Existing(draft.tests, t.work)
           c == Existing(draft.deps, t.work)
<1>5. /\ a \in Seq(Files) /\ \A f \in ToSet(a) : f \in FilesIn(draft.targets) /\ t.work[f] # Absent
      /\ b \in Seq(Files) /\ \A f \in ToSet(b) : f \in FilesIn(draft.tests) /\ t.work[f] # Absent
      /\ c \in Seq(Files) /\ \A f \in ToSet(c) : f \in FilesIn(draft.deps) /\ t.work[f] # Absent
  BY <1>4, ExistingFits
<1> HIDE DEF a, b, c
<1>6. /\ t.work \in FileTrees /\ t.head \in FileTrees /\ t.head \in [Files -> Contents \union {Absent}]
      /\ "select" \in Unread \union Asking \union Drafting \union InTree \union Over
  BY RunnerAssumption DEF FileTrees, Unread
<1> DEFINE q == [lane EXCEPT !.pc = "select", !.work = t.work, !.head = t.head, !.target = a, !.test = b, !.dep = c]
<1>7. q \in Lanes
  BY <1>3, <1>5, <1>6 DEF Lanes
<1>8. /\ q.pc = "select" /\ q.prompt = lane.prompt /\ q.work = t.work /\ q.head = t.head /\ q.target = a
      /\ q.test = b /\ q.dep = c /\ q.calls = lane.calls /\ q.current = lane.current /\ q.tree = lane.tree
      /\ q.attempt = lane.attempt /\ q.gated = lane.gated /\ q.tested = lane.tested
      /\ q.seen = lane.seen /\ q.spans = lane.spans
  BY <1>3 DEF Lanes
<1> HIDE DEF q
<1>9. lane' = q
  BY <1>2 DEF q, a, b, c
<1>10. q.pc \in {"calling", "select"} /\ q.pc # "calling" /\ ~ q.prompt.lead
  BY <1>3, <1>8
<1> QED
  BY <1>1, <1>5, <1>6, <1>7, <1>8, <1>9, <1>10, UnreadGoesOn

\* What is read and may be written is fixed.
LEMMA ReadKeeps ==
    ASSUME RunKeeps, ReadSelected
    PROVE  RunKeeps'
<1>1. lane.pc = "select" /\ lane.pc \in Unread /\ UNCHANGED changeVars /\ checkpoints' = checkpoints
  BY DEF ReadSelected, At, GoOn, Unread
<1>2. CASE <<>> \in {lane.target, lane.test}
  BY <1>1, <1>2, ChangeFails DEF ReadSelected, GoOn, Over, Asking
<1>3. CASE <<>> \notin {lane.target, lane.test}
  <2> DEFINE r == ReadInFull(lane.target, lane.test, lane.dep)
             w == Writable(lane.target, lane.test)
  <2>1. /\ lane \in Lanes /\ lane.current = NoBlocks /\ lane.calls = 0 /\ lane.attempt = 0 /\ lane.tree = NoTree
        /\ ~ lane.gated /\ lane.tested = NoTree /\ checkpoints = <<>> /\ checkpoints \in Seq(Decisions)
        /\ ~ lane.prompt.lead /\ SpansHold(lane) /\ 0 <= MaxFixes /\ DOMAIN NoBlocks = {}
    BY <1>1, UnreadFrom
  <2>2. r \in Seq(Files) /\ w \in SUBSET Files
    BY <2>1, ReadFits DEF Lanes
  <2>3. lane' = [lane EXCEPT !.pc = "implement", !.read = r, !.writable = w]
    BY <1>3 DEF ReadSelected, GoOn
  <2> HIDE DEF r, w
  <2> DEFINE q == [lane EXCEPT !.pc = "implement", !.read = r, !.writable = w]
  <2>4. "implement" \in Drafting /\ "implement" \notin Unread \union Asking \union InTree \union Over
        /\ "select" \notin {"route", "calling"} /\ "implement" \notin {"route", "calling"}
    BY DEF Drafting, Unread, Asking, InTree, Over
  <2>5. q \in Lanes
    BY <2>1, <2>2, <2>4 DEF Lanes
  <2>6. /\ q.pc = "implement" /\ q.prompt = lane.prompt /\ q.work = lane.work /\ q.head = lane.head
        /\ q.target = lane.target /\ q.test = lane.test /\ q.dep = lane.dep /\ q.calls = lane.calls
        /\ q.current = lane.current /\ q.tree = lane.tree /\ q.attempt = lane.attempt /\ q.gated = lane.gated
        /\ q.tested = lane.tested /\ q.seen = lane.seen /\ q.spans = lane.spans /\ q.read = r /\ q.writable = w
    BY <2>1 DEF Lanes
  <2> HIDE DEF q
  <2>7. lane' = q
    BY <2>3 DEF q
  <2>8. SelectionHolds(lane, draft) /\ lane.head \in [Files -> Contents \union {Absent}]
    BY <1>1 DEF RunKeeps, RunHolds, TreeHolds
  <2>9. SelectionHolds(q, draft)
    <3>1. lane.target # <<>> /\ lane.test # <<>>
      BY <1>3
    <3> QED
      BY <1>1, <2>4, <2>6, <2>8, <3>1 DEF SelectionHolds, r, w
  <2>10. SpendHolds(q)
    <3>1. 0 <= 2 + MaxFixes
      BY RunnerAssumption
    <3> QED
      BY <2>1, <2>4, <2>6, <3>1 DEF SpendHolds
  <2>11. GateHolds(q, checkpoints)
    BY <2>1, <2>4, <2>6 DEF GateHolds
  <2>12. TreeHolds(q)
    BY <2>1, <2>4, <2>6, <2>8 DEF TreeHolds, AllValid, Over
  <2>13. EndHolds(q)
    BY <2>4, <2>6 DEF EndHolds
  <2>14. QuestionHolds(q, checkpoints)
    BY <2>1, <2>4, <2>6 DEF QuestionHolds
  <2>15. SpansHold(q)
    BY <2>1, <2>6 DEF SpansHold
  <2>16. RunHolds(q, checkpoints, draft)
    BY <2>9, <2>10, <2>11, <2>12, <2>13, <2>14, <2>15 DEF RunHolds
  <2> QED
    BY <1>1, <2>1, <2>5, <2>7, <2>16, RunFrame
<1> QED
  BY <1>2, <1>3

\* What the explanation leaves as it is.
StaysAsking(l, q) ==
    /\ q \in Lanes /\ q.calls = l.calls
    /\ q.work = l.work /\ q.target = l.target /\ q.test = l.test /\ q.dep = l.dep
    /\ q.tree = l.tree /\ q.current = l.current /\ q.writable = l.writable /\ q.gated = l.gated
    /\ q.tested = l.tested /\ q.attempt = l.attempt

\* Where the explanation stands before the model is asked.
LEMMA AskingFrom ==
    ASSUME RunKeeps, lane.pc \in Asking \ {"verify"}
    PROVE  lane \in Lanes /\ lane.calls = 0 /\ lane.calls <= 1 /\ SpansHold(lane)
BY DEF RunKeeps, RunHolds, QuestionHolds

\* A step that only moves on, or offers other cards.
LEMMA OffersKeep ==
    ASSUME RunKeeps, AskForCards \/ Expand \/ EndOpen
    PROVE  RunKeeps'
<1>1. /\ lane.pc \in Asking \ {"verify"} /\ UNCHANGED changeVars /\ checkpoints' = checkpoints
  BY DEF AskForCards, Expand, EndOpen, At, GoOn, Asking
<1>2. lane \in Lanes /\ lane.calls = 0 /\ SpansHold(lane) /\ MaxCards \in Nat
  BY <1>1, AskingFrom, RunnerAssumption
<1>3. ASSUME NEW q, q = lane', StaysAsking(lane, q), q.pc \in Asking \ {"verify"}, q.seen = lane.seen, q.spans = lane.spans
      PROVE  RunKeeps'
  <2>1. SpansHold(q) /\ q.calls <= 1 /\ q.calls = 0
    BY <1>2, <1>3 DEF SpansHold, StaysAsking
  <2> QED
    BY <1>1, <1>3, <2>1, AsksOn DEF StaysAsking
<1>4. ASSUME NEW cards \in Seq(RunCards), NEW more \in Seq(RunCards), NEW pc \in {"expand", "open"},
             \/ lane' = [Offers(cards) EXCEPT !.pc = pc, !.more = more]
             \/ lane' = [Offers(cards) EXCEPT !.pc = pc]
      PROVE  RunKeeps'
  <2> DEFINE f == FirstOnes(cards, MaxCards)
             o == [lane EXCEPT !.cards = f, !.queue = f]
  <2>1. f \in Seq(RunCards)
    BY <1>2, FirstOnesFit
  <2>2. Offers(cards) = o
    BY DEF Offers
  <2> HIDE DEF f
  <2>3. o \in Lanes
    BY <1>2, <2>1 DEF Lanes
  <2>4. /\ o.calls = lane.calls /\ o.work = lane.work /\ o.target = lane.target /\ o.test = lane.test
        /\ o.dep = lane.dep /\ o.tree = lane.tree /\ o.current = lane.current /\ o.writable = lane.writable
        /\ o.gated = lane.gated /\ o.tested = lane.tested /\ o.attempt = lane.attempt
        /\ o.seen = lane.seen /\ o.spans = lane.spans
    BY <1>2 DEF Lanes
  <2> HIDE DEF o
  <2> DEFINE x == [o EXCEPT !.pc = pc, !.more = more]
             y == [o EXCEPT !.pc = pc]
  <2>5. pc \in Asking /\ pc # "verify"
    BY DEF Asking
  <2>6. x \in Lanes /\ y \in Lanes
    <3>1. x \in Lanes
      BY <2>3, <2>5 DEF Lanes
    <3>2. y \in Lanes
      BY <2>3, <2>5 DEF Lanes
    <3> QED
      BY <3>1, <3>2
  <2>7. /\ x.pc = pc /\ x.calls = o.calls /\ x.work = o.work /\ x.target = o.target /\ x.test = o.test
        /\ x.dep = o.dep /\ x.tree = o.tree /\ x.current = o.current /\ x.writable = o.writable
        /\ x.gated = o.gated /\ x.tested = o.tested /\ x.attempt = o.attempt
        /\ x.seen = o.seen /\ x.spans = o.spans
    BY <2>3 DEF Lanes
  <2>8. /\ y.pc = pc /\ y.calls = o.calls /\ y.work = o.work /\ y.target = o.target /\ y.test = o.test
        /\ y.dep = o.dep /\ y.tree = o.tree /\ y.current = o.current /\ y.writable = o.writable
        /\ y.gated = o.gated /\ y.tested = o.tested /\ y.attempt = o.attempt
        /\ y.seen = o.seen /\ y.spans = o.spans
    BY <2>3 DEF Lanes
  <2> HIDE DEF x, y
  <2>9. lane' \in {x, y}
    BY <1>4, <2>2 DEF x, y
  <2>10. StaysAsking(lane, x) /\ StaysAsking(lane, y)
    BY <2>4, <2>6, <2>7, <2>8 DEF StaysAsking
  <2> QED
    BY <1>3, <2>4, <2>5, <2>7, <2>8, <2>9, <2>10
<1>5. CASE AskForCards
  <2>1. PICK p \in PackCards :
          lane' = [Offers(p.cards) EXCEPT !.pc = IF SomeId(p.cards) THEN "expand" ELSE "open", !.more = p.more]
    BY <1>5 DEF AskForCards, GoOn
  <2>2. p.cards \in Seq(RunCards) /\ p.more \in Seq(RunCards)
    BY RunnerAssumption DEF RunCards
  <2> QED
    BY <1>4, <2>1, <2>2
<1>6. CASE Expand
  <2>1. lane.cards \in Seq(RunCards) /\ lane.more \in Seq(RunCards)
    BY <1>2 DEF Lanes
  <2>2. lane.cards \o lane.more \in Seq(RunCards)
    BY <2>1
  <2>3. lane' = [Offers(lane.cards \o lane.more) EXCEPT !.pc = "open"]
    BY <1>6 DEF Expand, GoOn
  <2> QED
    BY <1>4, <2>1, <2>2, <2>3
<1>7. CASE EndOpen
  <2> DEFINE q == [lane EXCEPT !.pc = "synthesize"]
  <2>1. q \in Lanes /\ q.pc \in Asking \ {"verify"} /\ q.seen = lane.seen /\ q.spans = lane.spans
    BY <1>2 DEF Lanes, Asking
  <2>2. /\ q.calls = lane.calls /\ q.work = lane.work /\ q.target = lane.target /\ q.test = lane.test
        /\ q.dep = lane.dep /\ q.tree = lane.tree /\ q.current = lane.current /\ q.writable = lane.writable
        /\ q.gated = lane.gated /\ q.tested = lane.tested /\ q.attempt = lane.attempt
    BY <1>2 DEF Lanes
  <2>3. lane' = q
    BY <1>7 DEF EndOpen, GoOn
  <2> HIDE DEF q
  <2>4. StaysAsking(lane, q)
    BY <2>1, <2>2 DEF StaysAsking
  <2> QED
    BY <1>3, <2>1, <2>3, <2>4
<1> QED
  BY <1>5, <1>6, <1>7

\* A span is opened, of a file none was opened of, or passed over.
LEMMA OpenKeeps ==
    ASSUME RunKeeps, OpenSpan
    PROVE  RunKeeps'
<1>1. /\ lane.pc \in Asking \ {"verify"} /\ lane.pc = "open" /\ UNCHANGED changeVars /\ checkpoints' = checkpoints
  BY DEF OpenSpan, At, GoOn, Asking
<1>2. lane \in Lanes /\ lane.calls = 0 /\ lane.calls <= 1 /\ SpansHold(lane) /\ MaxSpans \in Nat
  BY <1>1, AskingFrom, RunnerAssumption
<1> DEFINE c == Head(lane.queue)
           r == Tail(lane.queue)
<1>3. /\ c \in RunCards /\ r \in Seq(RunCards) /\ lane.spans \in Seq(Files) /\ lane.seen \in SUBSET Files
      /\ Len(lane.spans) < MaxSpans
  <2>1. lane.queue \in Seq(RunCards) /\ lane.queue # <<>> /\ Len(lane.spans) < MaxSpans
    BY <1>2 DEF OpenSpan, Lanes
  <2>2. c \in RunCards /\ r \in Seq(RunCards)
    BY <2>1, TailFits
  <2> QED
    BY <1>2, <2>1, <2>2 DEF Lanes
<1>4. c.file \in Files
  BY <1>3 DEF RunCards
<1> DEFINE seen == lane.seen \union {c.file}
           spans == Append(lane.spans, c.file)
<1>5. CASE lane' = [lane EXCEPT !.queue = r]
  <2> HIDE DEF r
  <2> DEFINE q == [lane EXCEPT !.queue = r]
  <2>1. q \in Lanes /\ q.pc = lane.pc /\ q.seen = lane.seen /\ q.spans = lane.spans /\ q.calls = lane.calls
    BY <1>2, <1>3 DEF Lanes
  <2>2. /\ q.work = lane.work /\ q.target = lane.target /\ q.test = lane.test
        /\ q.dep = lane.dep /\ q.tree = lane.tree /\ q.current = lane.current /\ q.writable = lane.writable
        /\ q.gated = lane.gated /\ q.tested = lane.tested /\ q.attempt = lane.attempt
    BY <1>2 DEF Lanes
  <2>3. lane' = q
    BY <1>5
  <2> HIDE DEF q
  <2>4. SpansHold(q)
    BY <1>2, <2>1 DEF SpansHold
  <2> QED
    BY <1>1, <1>2, <2>1, <2>2, <2>3, <2>4, AsksOn
<1>6. CASE c.file \notin lane.seen /\ lane' = [lane EXCEPT !.queue = r, !.seen = seen, !.spans = spans]
  <2>1. seen \in SUBSET Files /\ spans \in Seq(Files) /\ Len(spans) = Len(lane.spans) + 1
        /\ ToSet(spans) = ToSet(lane.spans) \union {c.file} /\ Len(lane.spans) \in Nat
    BY <1>3, <1>4, AppendHolds
  <2>2. c.file \notin ToSet(lane.spans)
    BY <1>2, <1>6 DEF SpansHold
  <2>3. IsFiniteSet(ToSet(spans)) /\ Cardinality(ToSet(spans)) = Len(spans)
    <3> DEFINE S == ToSet(lane.spans)
    <3>1. IsFiniteSet(S) /\ Cardinality(S) = Len(lane.spans) /\ c.file \notin S
      BY <1>2, <2>2 DEF SpansHold
    <3>2. IsFiniteSet(S \union {c.file}) /\ Cardinality(S \union {c.file}) = Cardinality(S) + 1
      BY <3>1, FS_AddElement
    <3> QED
      BY <2>1, <3>1, <3>2
  <2>4. ToSet(spans) \subseteq seen /\ Len(spans) <= MaxSpans
    BY <1>2, <1>3, <2>1 DEF SpansHold
  <2> HIDE DEF r, seen, spans
  <2> DEFINE q == [lane EXCEPT !.queue = r, !.seen = seen, !.spans = spans]
  <2>5. q \in Lanes
    BY <1>2, <1>3, <2>1 DEF Lanes
  <2>6. /\ q.pc = lane.pc /\ q.seen = seen /\ q.spans = spans /\ q.calls = lane.calls
        /\ q.work = lane.work /\ q.target = lane.target /\ q.test = lane.test
        /\ q.dep = lane.dep /\ q.tree = lane.tree /\ q.current = lane.current /\ q.writable = lane.writable
        /\ q.gated = lane.gated /\ q.tested = lane.tested /\ q.attempt = lane.attempt
    BY <1>2 DEF Lanes
  <2>7. lane' = q
    BY <1>6
  <2> HIDE DEF q
  <2>8. SpansHold(q)
    BY <2>3, <2>4, <2>6 DEF SpansHold
  <2> QED
    BY <1>1, <1>2, <2>5, <2>6, <2>7, <2>8, AsksOn
<1> QED
  BY <1>5, <1>6 DEF OpenSpan, GoOn, FilesSeen

\* The answer and its verdict end the explanation.
LEMMA AnswerKeeps ==
    ASSUME RunKeeps, AnswerQuestion \/ VerifyAnswer
    PROVE  RunKeeps'
<1>1. /\ lane.pc \in Asking /\ lane.pc \notin Over \union {"attempt"} \union Unread
      /\ UNCHANGED changeVars /\ checkpoints' = checkpoints
  BY DEF AnswerQuestion, VerifyAnswer, At, GoOn, Asking, Over, Unread
<1>2. /\ lane \in Lanes /\ GateHolds(lane, checkpoints) /\ SpansHold(lane) /\ checkpoints \in Seq(Decisions)
      /\ lane.work = NoTree /\ lane.calls <= 1 /\ lane.calls \in Nat /\ lane.tree \in FileTrees
      /\ (lane.pc # "verify" => lane.calls = 0) /\ MaxFixes \in Nat
  BY <1>1, RunnerAssumption DEF RunKeeps, RunHolds, QuestionHolds, Lanes
<1>3. (~ lane.gated => lane.tested = NoTree) /\ Len(checkpoints) <= 1
  BY <1>2 DEF GateHolds
<1>4. ASSUME EndedFrom(lane, lane'), lane'.calls <= 1, lane'.tested = lane.tested PROVE RunKeeps'
  <2>1. lane'.calls <= 2 + MaxFixes
    <3>1. lane'.calls \in Nat
      BY <1>4 DEF EndedFrom, Lanes
    <3> QED
      BY <1>2, <1>4, <3>1
  <2> QED
    BY <1>1, <1>2, <1>3, <1>4, <2>1, RunEnds
<1>5. "ok" \in {"ok", "failed", "raised"} /\ lane.calls + 1 \in Nat
  BY <1>2
<1>6. CASE lane' = Ended("ok")
  <2>1. EndedFrom(lane, lane') /\ lane'.calls = lane.calls /\ lane'.tested = lane.tested
    BY <1>2, <1>5, <1>6, EndedFits
  <2> QED
    BY <1>2, <1>4, <2>1
<1>7. CASE lane.pc # "verify" /\ lane' = [Ended("ok") EXCEPT !.calls = @ + 1]
  <2>1. Ended("ok").calls = lane.calls
    BY <1>2 DEF Ended, Lanes
  <2>2. lane' = [Ended("ok") EXCEPT !.calls = lane.calls + 1]
    BY <1>7, <2>1
  <2> DEFINE m == lane.calls + 1
             q == [Ended("ok") EXCEPT !.calls = m]
  <2>3. EndedFrom(lane, lane') /\ lane'.calls = m /\ lane'.tested = lane.tested
    <3>1. lane \in Lanes /\ m \in Nat /\ lane.tree \in FileTrees /\ "ok" \in {"ok", "failed", "raised"} /\ lane' = q
      BY <1>2, <1>5, <2>2
    <3> HIDE DEF m
    <3>2. EndedFrom(lane, q) /\ q.calls = m /\ q.tested = lane.tested
      BY <3>1, EndedFits
    <3> QED
      BY <3>1, <3>2
  <2> QED
    BY <1>2, <1>4, <1>7, <2>3
<1>8. CASE lane.pc # "verify" /\ lane' = [Asked EXCEPT !.pc = "verify"]
  <2> DEFINE a == [lane EXCEPT !.calls = lane.calls + 1]
  <2>1. a \in Lanes /\ a.calls = 1
    <3>1. lane \in Lanes /\ lane.calls + 1 \in Nat /\ lane.calls + 1 = 1
      BY <1>2, <1>8
    <3> QED
      BY <3>1 DEF Lanes
  <2>2. /\ a.work = lane.work /\ a.target = lane.target /\ a.test = lane.test
        /\ a.dep = lane.dep /\ a.tree = lane.tree /\ a.current = lane.current /\ a.writable = lane.writable
        /\ a.gated = lane.gated /\ a.tested = lane.tested /\ a.attempt = lane.attempt
        /\ a.seen = lane.seen /\ a.spans = lane.spans
    BY <1>2 DEF Lanes
  <2>3. Asked = a
    BY DEF Asked
  <2> HIDE DEF a
  <2> DEFINE q == [a EXCEPT !.pc = "verify"]
  <2>4. q \in Lanes /\ q.pc = "verify" /\ q.pc \in Asking /\ q.calls = 1
    BY <2>1 DEF Lanes, Asking
  <2>5. /\ q.work = a.work /\ q.target = a.target /\ q.test = a.test
        /\ q.dep = a.dep /\ q.tree = a.tree /\ q.current = a.current /\ q.writable = a.writable
        /\ q.gated = a.gated /\ q.tested = a.tested /\ q.attempt = a.attempt
        /\ q.seen = a.seen /\ q.spans = a.spans
    BY <2>1 DEF Lanes
  <2>6. lane' = q
    BY <1>8, <2>3
  <2> HIDE DEF q
  <2>7. SpansHold(q) /\ q.calls <= 1
    BY <1>2, <2>2, <2>4, <2>5 DEF SpansHold
  <2> QED
    BY <1>1, <2>2, <2>4, <2>5, <2>6, <2>7, AsksOn
<1> QED
  BY <1>6, <1>7, <1>8 DEF AnswerQuestion, VerifyAnswer, At, GoOn

\* Every step keeps the invariant.
LEMMA RunStepKeeps ==
    ASSUME RunKeeps, RunnerNext
    PROVE  RunKeeps'
<1>1. CASE BrokerStep
  BY <1>1, BrokerKeeps
<1>2. CASE Route
  BY <1>2, RouteKeeps
<1>3. CASE ResolveFiles
  BY <1>3, ResolveKeeps
<1>4. CASE ReadSelected
  BY <1>4, ReadKeeps
<1>5. CASE Implement
  BY <1>5, ImplementKeeps
<1>6. CASE Validate
  BY <1>6, ValidateKeeps
<1>7. CASE AddWorktree
  BY <1>7, AddWorktreeKeeps
<1>8. CASE WriteAttempt
  BY <1>8, WriteAttemptKeeps
<1>9. CASE ShowDiff
  BY <1>9, ShowDiffKeeps
<1>10. CASE Gate \/ EndEdit
  BY <1>10, GateKeeps
<1>11. CASE WriteCheckpoint
  BY <1>11, CheckpointKeeps
<1>12. CASE RunPytest
  BY <1>12, PytestKeeps
<1>13. CASE Fix
  BY <1>13, FixKeeps
<1>14. CASE RemoveWorktree
  BY <1>14, RemoveKeeps
<1>15. CASE AskForCards \/ Expand \/ EndOpen
  BY <1>15, OffersKeep
<1>16. CASE OpenSpan
  BY <1>16, OpenKeeps
<1>17. CASE AnswerQuestion \/ VerifyAnswer
  BY <1>17, AnswerKeeps
<1>18. CASE Raise
  BY <1>18, RaiseKeeps
<1> QED
  BY <1>1, <1>2, <1>3, <1>4, <1>5, <1>6, <1>7, <1>8, <1>9, <1>10, <1>11, <1>12, <1>13, <1>14, <1>15,
     <1>16, <1>17, <1>18 DEF RunnerNext

\* The invariant is all that is promised.
LEMMA RunPromises == RunKeeps => RunsAreGoverned
<1> SUFFICES ASSUME RunKeeps PROVE RunsAreGoverned
  OBVIOUS
<1>1. /\ lane \in Lanes /\ SelectionHolds(lane, draft) /\ SpendHolds(lane) /\ GateHolds(lane, checkpoints)
      /\ TreeHolds(lane) /\ EndHolds(lane) /\ QuestionHolds(lane, checkpoints) /\ SpansHold(lane)
  BY DEF RunKeeps, RunHolds
<1>2. GateComesFirst
  BY <1>1 DEF GateHolds, GateComesFirst
<1>3. TestsRunOnTheChange
  <2> SUFFICES ASSUME lane.pc = "cleanup", lane.tree = lane.tested
               PROVE  /\ \A f \in Files : lane.tested[f] # lane.head[f] => f \in DOMAIN lane.current
                      /\ \A f \in DOMAIN lane.current :
                           Valid(f, lane.current[f]) /\ lane.tested[f] = lane.current[f]
    BY DEF TestsRunOnTheChange, At
  <2>1. lane.tested = Written(lane.head, lane.current) /\ AllValid(lane, lane.current)
    BY <1>1 DEF TreeHolds
  <2>2. lane.writable \subseteq Files
    BY <1>1 DEF Lanes
  <2>3. \A f \in DOMAIN lane.current : Valid(f, lane.current[f]) /\ f \in Files
    BY <2>1, <2>2 DEF AllValid, Valid
  <2>4. \A f \in Files : lane.tested[f] = IF f \in DOMAIN lane.current THEN lane.current[f] ELSE lane.head[f]
    BY <2>1 DEF Written
  <2> QED
    BY <2>3, <2>4
<1>4. ModelSpendIsBounded
  <2>1. lane.calls <= 2 + MaxFixes
    BY <1>1 DEF SpendHolds
  <2>2. ASSUME lane.work # NoTree, lane.calls > 0
        PROVE  /\ lane.target # <<>> /\ lane.test # <<>> /\ Len(lane.read) <= MaxFiles
               /\ ToSet(lane.read) \subseteq FilesIn(draft.targets) \union FilesIn(draft.tests) \union FilesIn(draft.deps)
               /\ \A f \in ToSet(lane.read) \union lane.writable : lane.work[f] # Absent
               /\ Cardinality(lane.writable \ ToSet(lane.target)) <= 1
    <3>1. /\ lane.target # <<>> /\ lane.test # <<>> /\ lane.read = ReadInFull(lane.target, lane.test, lane.dep)
          /\ lane.writable = Writable(lane.target, lane.test) /\ lane.pc \notin {"route", "calling"}
      BY <1>1, <2>2 DEF SelectionHolds
    <3>2. lane.target \in Seq(Files) /\ lane.test \in Seq(Files) /\ lane.dep \in Seq(Files)
      BY <1>1 DEF Lanes
    <3>3. /\ Len(lane.read) <= MaxFiles
          /\ ToSet(lane.read) \subseteq ToSet(lane.target) \union ToSet(lane.test) \union ToSet(lane.dep)
          /\ lane.writable \subseteq ToSet(lane.target) \union ToSet(lane.test)
          /\ Cardinality(lane.writable \ ToSet(lane.target)) <= 1
      <4> DEFINE r == ReadInFull(lane.target, lane.test, lane.dep)
                 w == Writable(lane.target, lane.test)
      <4>1. /\ Len(r) <= MaxFiles
            /\ ToSet(r) \subseteq ToSet(lane.target) \union ToSet(lane.test) \union ToSet(lane.dep)
            /\ w \subseteq ToSet(lane.target) \union ToSet(lane.test)
            /\ Cardinality(w \ ToSet(lane.target)) <= 1
        BY <3>2, ReadFits
      <4>2. lane.read = r /\ lane.writable = w
        BY <3>1
      <4> HIDE DEF r, w
      <4> QED
        BY <4>1, <4>2
    <3>4. /\ \A f \in ToSet(lane.target) : f \in FilesIn(draft.targets) /\ lane.work[f] # Absent
          /\ \A f \in ToSet(lane.test) : f \in FilesIn(draft.tests) /\ lane.work[f] # Absent
          /\ \A f \in ToSet(lane.dep) : f \in FilesIn(draft.deps) /\ lane.work[f] # Absent
      BY <1>1, <3>1 DEF SelectionHolds
    <3> QED
      BY <3>1, <3>3, <3>4
  <2> QED
    BY <2>1, <2>2 DEF ModelSpendIsBounded
<1>5. SuccessMeansPassed
  BY <1>1 DEF SuccessMeansPassed, At, TreeHolds, EndHolds, Over
<1>6. QuestionsOnlyRead
  BY <1>1 DEF QuestionsOnlyRead, QuestionHolds, SpansHold
<1> QED
  BY <1>2, <1>3, <1>4, <1>5, <1>6 DEF RunsAreGoverned

\* Whatever the pack, the repository, the model, the human and the tests answer: nothing of a change
\* is run before it may be, what is tested is what was accepted, the model is asked a bounded number
\* of times about files of the pack, success means a passed run, and questions change nothing.
THEOREM RunnerSafety == RunnerSpec => []RunsAreGoverned
<1>1. RunnerInit => RunKeeps
  BY RunStarts
<1>2. RunKeeps /\ [RunnerNext]_runnerVars => RunKeeps'
  <2>1. ASSUME RunKeeps, RunnerNext PROVE RunKeeps'
    BY <2>1, RunStepKeeps
  <2>2. ASSUME RunKeeps, UNCHANGED runnerVars PROVE RunKeeps'
    <3>1. UNCHANGED changeVars /\ lane' = lane /\ checkpoints' = checkpoints /\ draft' = draft
      BY <2>2 DEF runnerVars, changeVars
    <3>2. PackKeeps'
      BY <2>2, <3>1 DEF RunKeeps, PackKeeps, changeVars
    <3> QED
      BY <2>2, <3>1, <3>2 DEF RunKeeps
  <2> QED
    BY <2>1, <2>2
<1>3. RunKeeps => RunsAreGoverned
  BY RunPromises
<1> QED
  BY <1>1, <1>2, <1>3, PTL DEF RunnerSpec
==============================================================================
