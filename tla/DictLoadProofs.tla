--------------------------- MODULE DictLoadProofs ---------------------------
(***************************************************************************)
(* Proofs about the dictionary lifecycle, for any set of dictionaries, any *)
(* number of D-Bus goroutines, any capacity of the result channel and any  *)
(* number of events.                                                       *)
(*                                                                         *)
(* None of the safety properties is inductive: they speak of the moments   *)
(* between handlers and follow from what the generation numbers guarantee  *)
(* at every step.  LoadInv says it: a load or a result of the present      *)
(* generation is unique, belongs to the dictionary asked for, and exists   *)
(* exactly while the status is "loading" and its result not yet received.  *)
(***************************************************************************)
EXTENDS DictLoad, SequenceTheorems, FiniteSetTheorems, TLAPS

(* No load is of a generation yet to come. *)
GensBounded ==
  /\ \A l \in loaders : l.gen <= loadGeneration
  /\ \A i \in DOMAIN dictCh : dictCh[i].gen <= loadGeneration

(* What the present generation loads is what was asked for last, and that, *)
(* unless a reload is half applied, is what the settings name.             *)
LoadsAreAsked ==
  /\ \A l \in CurrentLoads : l.key = loadKey
  /\ \A i \in CurrentResults : dictCh[i].key = loadKey
  /\ hasLoadKey /\ ~Reconfiguring => loadKey = settings.key
  /\ hasLoadKey <=> dictStatus # "idle"

(* One load at a time, and only while its result is awaited. *)
LoadsAreUnique ==
  /\ \A l, m \in CurrentLoads : l = m
  /\ \A i, j \in CurrentResults : i = j
  /\ CurrentLoads = {} \/ CurrentResults = {}
LoadIsAwaited ==
  (CurrentLoads # {} \/ CurrentResults # {}) <=>
    (dictStatus = "loading" /\ pc \notin {"spawn", "ready", "failed"})

(* What the steps inside a handler have already done. *)
HandlerState ==
  /\ index = lookup
  /\ pc \in {"spawn", "ready", "failed"} => dictStatus = "loading"
  /\ pc = "clear" => dictStatus = "idle"
  /\ pc = "ready" => lookup # None
  /\ pc = "failed" => lookup = None
  /\ pc \notin {"spawn", "clear", "ready", "failed"} => (dictStatus = "ready" <=> lookup # None)
  /\ lookup # None /\ pc \notin {"spawn", "clear"} /\ ~Reconfiguring => lookup = settings.key

LoadsInv == GensBounded /\ LoadsAreAsked /\ LoadsAreUnique /\ LoadIsAwaited /\ HandlerState
LoadInv  == TypeOK /\ LoadsInv

(* Where no handler is in the middle of its work on the dictionary. *)
Between == {"boot", "select", "dispatch", "toggle"}

-----------------------------------------------------------------------------
(* The types.                                                              *)

LEMMA IdleIsCall == Idle \in Calls
BY DEF Idle, Calls

LEMMA InitTyped == Init => TypeOK
<1> SUFFICES ASSUME Init
             PROVE  TypeOK
  OBVIOUS
<1>1. settings \in Settings /\ enabled \in BOOLEAN
  BY DEF Init, Settings
<1>2. dictCh \in Seq(Results) /\ Len(dictCh) <= DictChCap
  BY DictLoadAssumption DEF Init
<1>3. call \in [Callers -> Calls] /\ events \in Nat
  BY IdleIsCall DEF Init
<1>4. arg \in BOOLEAN /\ loadReq \in BOOLEAN /\ hasLoadKey \in BOOLEAN
  BY DEF Init
<1> QED
  BY <1>1, <1>2, <1>3, <1>4 DEF Init, TypeOK

LEMMA MaybeStartTyped ==
  ASSUME TypeOK, MaybeStartDictLoad
  PROVE  /\ loadGeneration' \in Nat /\ loadKey' \in DictKeys \cup {None} /\ hasLoadKey' \in BOOLEAN
         /\ lookup' \in DictKeys \cup {None} /\ index' \in DictKeys \cup {None}
         /\ dictStatus' \in {"idle", "loading", "ready", "failed"} /\ pc' \in {"select", "spawn"}
<1>1. settings.key \in DictKeys
  BY DEF TypeOK, Settings
<1>2. CASE AlreadyLoaded
  BY <1>2 DEF MaybeStartDictLoad, TypeOK
<1>3. CASE ~AlreadyLoaded
  <2>1. BeginLoad
    BY <1>3 DEF MaybeStartDictLoad
  <2>2. hasLoadKey' \in BOOLEAN
    BY <2>1 DEF BeginLoad
  <2> QED
    BY <1>1, <2>1, <2>2 DEF BeginLoad, TypeOK
<1> QED
  BY <1>2, <1>3

(* A D-Bus goroutine writes the flag, the request and its own record.      *)
LEMMA CallTyped ==
  ASSUME TypeOK, UNCHANGED MainLoopState,
         enabled' \in BOOLEAN, loadReq' \in BOOLEAN, events' \in Nat,
         NEW c \in Callers, NEW record \in Calls, call' = [call EXCEPT ![c] = record]
  PROVE  TypeOK'
<1>1. call' \in [Callers -> Calls]
  BY DEF TypeOK
<1> QED
  BY <1>1 DEF TypeOK, MainLoopState, confined

LEMMA StepTyped == TypeOK /\ [Next]_vars => TypeOK'
<1> SUFFICES ASSUME TypeOK, [Next]_vars
             PROVE  TypeOK'
  OBVIOUS
<1> USE DictLoadAssumption
<1>1. CASE Boot
  BY <1>1, MaybeStartTyped DEF Boot, TypeOK
<1>2. CASE Spawn
  BY <1>2 DEF Spawn, Detach, TypeOK, Settings, Loads
<1>3. CASE Clear
  BY <1>3 DEF Clear, Detach, TypeOK
<1>4. CASE StoreStatus
  BY <1>4 DEF StoreStatus, confined, TypeOK
<1>5. CASE Dispatch
  <2>1. CASE arg
    <3>1. settings.key \in DictKeys
      BY DEF TypeOK, Settings
    <3>2. /\ hasLoadKey' \in BOOLEAN /\ dictStatus' \in {"idle", "loading"} /\ pc' \in {"spawn", "clear"}
          /\ loadGeneration' \in Nat /\ loadKey' \in DictKeys \cup {None}
          /\ UNCHANGED <<lookup, index>>
      <4>1. BeginLoad \/ BeginInvalidate
        BY <1>5, <2>1 DEF Dispatch, Redirect
      <4>2. hasLoadKey' \in BOOLEAN
        BY <4>1 DEF BeginLoad, BeginInvalidate
      <4> QED
        BY <3>1, <4>1, <4>2 DEF BeginLoad, BeginInvalidate, TypeOK
    <3>3. arg' \in BOOLEAN
      BY <1>5 DEF Dispatch
    <3> QED
      BY <1>5, <3>2, <3>3 DEF Dispatch, TypeOK
  <2>2. CASE ~arg
    BY <1>5, <2>2, MaybeStartTyped DEF Dispatch, TypeOK
  <2> QED
    BY <2>1, <2>2
<1>6. CASE StoreToggle
  BY <1>6, MaybeStartTyped DEF StoreToggle, TypeOK
<1>7. CASE ReceiveRequest
  BY <1>7, MaybeStartTyped DEF ReceiveRequest, TypeOK
<1>8. CASE ReceiveResult
  <2>1. Head(dictCh) \in Results
    <3>1. dictCh # <<>> /\ dictCh \in Seq(Results)
      BY <1>8 DEF ReceiveResult, TypeOK
    <3> QED
      BY <3>1, HeadTailProperties
  <2>2. dictCh' \in Seq(Results) /\ Len(dictCh') <= DictChCap
    BY <1>8 DEF ReceiveResult, TypeOK
  <2>3. /\ lookup' \in DictKeys \cup {None} /\ index' \in DictKeys \cup {None}
        /\ pc' \in {"select", "ready", "failed"}
    BY <1>8, <2>1 DEF ReceiveResult, Detach, TypeOK, Results
  <2> QED
    BY <1>8, <2>2, <2>3 DEF ReceiveResult, TypeOK
<1>9. ASSUME NEW s \in Settings, ApplySettings(s)
      PROVE  TypeOK'
  BY <1>9 DEF ApplySettings, Event, TypeOK, Settings
<1>10. CASE Shortcut
  BY <1>10 DEF Shortcut, Event, confined, TypeOK
<1>11. ASSUME NEW l \in loaders, NEW ok \in BOOLEAN, FinishLoad(l, ok)
       PROVE  TypeOK'
  BY <1>11 DEF FinishLoad, Room, confined, TypeOK, Loads, Results
<1>12. ASSUME NEW c \in Callers, NEW op \in {"Enable", "Disable", "Toggle", "Status"}, Call(c, op)
       PROVE  TypeOK'
  <2>1. [Idle EXCEPT !.at = FirstStep(op), !.op = op, !.v = (op = "Enable")] \in Calls
    BY DEF Idle, Calls, FirstStep
  <2>2. UNCHANGED <<MainLoopState, enabled, loadReq>> /\ events' \in Nat
    BY <1>12 DEF Call, Event, TypeOK
  <2> QED
    BY <1>12, <2>1, <2>2, CallTyped DEF Call, TypeOK
<1>13. ASSUME NEW c \in Callers, CallStep(c)
       PROVE  TypeOK'
  <2>1. call[c] \in Calls /\ enabled \in BOOLEAN /\ dictStatus \in {"idle", "loading", "ready", "failed"}
        /\ loadReq \in BOOLEAN /\ events \in Nat
    BY DEF TypeOK
  <2>2. CASE ReadStatus(c)
    <3>1. [call[c] EXCEPT !.at = "enabled", !.state = dictStatus] \in Calls
      BY <2>1 DEF Calls
    <3> QED
      BY <2>1, <2>2, <3>1, CallTyped DEF ReadStatus, TypeOK
  <2>3. CASE ReadEnabled(c)
    <3>1. /\ [call[c] EXCEPT !.at = "store", !.v = ~enabled] \in Calls
          /\ [call[c] EXCEPT !.at = "index", !.v = enabled] \in Calls
      BY <2>1 DEF Calls
    <3> QED
      BY <2>1, <2>3, <3>1, CallTyped DEF ReadEnabled, TypeOK
  <2>4. CASE ReadIndex(c)
    <3>1. [call[c] EXCEPT !.at = "reply", !.ready = (index # None /\ call[c].state = "ready")] \in Calls
      BY <2>1 DEF Calls
    <3> QED
      BY <2>1, <2>4, <3>1, CallTyped DEF ReadIndex, TypeOK
  <2>5. CASE Reply(c)
    BY <2>1, <2>5, IdleIsCall, CallTyped DEF Reply, TypeOK
  <2>6. CASE SetEnabled(c)
    <3>1. call[c].v \in BOOLEAN /\ [call[c] EXCEPT !.at = "request"] \in Calls
      BY <2>1 DEF Calls
    <3> QED
      BY <2>1, <2>6, <3>1, IdleIsCall, CallTyped DEF SetEnabled, AfterStore, TypeOK
  <2>7. CASE RequestDictLoad(c)
    BY <2>1, <2>7, IdleIsCall, CallTyped DEF RequestDictLoad, TypeOK
  <2> QED
    BY <1>13, <2>2, <2>3, <2>4, <2>5, <2>6, <2>7 DEF CallStep
<1>14. CASE UNCHANGED vars
  BY <1>14 DEF vars, confined, TypeOK
<1> QED
  BY <1>1, <1>2, <1>3, <1>4, <1>5, <1>6, <1>7, <1>8, <1>9, <1>10, <1>11, <1>12, <1>13, <1>14
     DEF Next, Handler

(* Types of the lifecycle's state, which the invariant below rests on.     *)
THEOREM DictLoadTyping == Spec => []TypeOK
BY InitTyped, StepTyped, PTL DEF Spec

-----------------------------------------------------------------------------
(* The invariant.                                                          *)

LEMMA InitLoads == Init => LoadsInv
<1> SUFFICES ASSUME Init
             PROVE  LoadsInv
  OBVIOUS
<1>1. loaders = {} /\ DOMAIN dictCh = {} /\ lookup = None /\ index = None /\ pc = "boot"
      /\ dictStatus = "idle" /\ hasLoadKey = FALSE
  BY DEF Init
<1>2. CurrentLoads = {} /\ CurrentResults = {}
  BY <1>1 DEF CurrentLoads, CurrentResults
<1> QED
  BY <1>1, <1>2 DEF LoadsInv, GensBounded, LoadsAreAsked, LoadsAreUnique, LoadIsAwaited, HandlerState

(* A new generation leaves every load under way behind. *)
LEMMA NewGeneration ==
  ASSUME LoadInv, loadGeneration' = loadGeneration + 1, UNCHANGED <<dictCh, loaders>>
  PROVE  GensBounded' /\ CurrentLoads' = {} /\ CurrentResults' = {}
<1>1. /\ loadGeneration \in Nat
      /\ \A l \in loaders : l.gen \in Nat /\ l.gen <= loadGeneration
      /\ \A i \in DOMAIN dictCh : dictCh[i].gen \in Nat /\ dictCh[i].gen <= loadGeneration
  <2>1. \A i \in DOMAIN dictCh : dictCh[i] \in Results
    BY DEF LoadInv, TypeOK
  <2>2. \A l \in loaders : l \in Loads
    BY DEF LoadInv, TypeOK
  <2> QED
    BY <2>1, <2>2 DEF LoadInv, LoadsInv, TypeOK, GensBounded, Loads, Results
<1>2. /\ \A l \in loaders : l.gen <= loadGeneration + 1 /\ l.gen # loadGeneration + 1
      /\ \A i \in DOMAIN dictCh : dictCh[i].gen <= loadGeneration + 1 /\ dictCh[i].gen # loadGeneration + 1
  BY <1>1
<1> QED
  BY <1>2 DEF GensBounded, CurrentLoads, CurrentResults

LEMMA BeginKeeps ==
  ASSUME LoadInv, BeginLoad, UNCHANGED <<settings, dictCh, loaders>>
  PROVE  LoadsInv'
<1>1. GensBounded' /\ CurrentLoads' = {} /\ CurrentResults' = {}
  BY NewGeneration DEF BeginLoad
<1> QED
  BY <1>1 DEF LoadInv, LoadsInv, BeginLoad, LoadsAreAsked, LoadsAreUnique, LoadIsAwaited, HandlerState

LEMMA InvalidateKeeps ==
  ASSUME LoadInv, BeginInvalidate, UNCHANGED <<settings, dictCh, loaders>>
  PROVE  LoadsInv'
<1>1. GensBounded' /\ CurrentLoads' = {} /\ CurrentResults' = {}
  BY NewGeneration DEF BeginInvalidate
<1> QED
  BY <1>1 DEF LoadInv, LoadsInv, BeginInvalidate, LoadsAreAsked, LoadsAreUnique, LoadIsAwaited,
              HandlerState

(* Steps that leave the dictionary alone. *)
LEMMA OtherStepsKeep ==
  ASSUME LoadInv, pc \in Between, pc' \in Between, ~Reconfiguring, ~Reconfiguring',
         UNCHANGED <<settings, loadGeneration, loadKey, hasLoadKey, lookup, dictStatus, index, dictCh, loaders>>
  PROVE  LoadsInv'
<1>1. GensBounded' /\ CurrentLoads' = CurrentLoads /\ CurrentResults' = CurrentResults
  BY DEF LoadInv, LoadsInv, GensBounded, CurrentLoads, CurrentResults
<1>2. LoadsAreAsked' /\ LoadsAreUnique' /\ LoadIsAwaited'
  BY <1>1 DEF LoadInv, LoadsInv, LoadsAreAsked, LoadsAreUnique, LoadIsAwaited, Between
<1>3. HandlerState'
  BY DEF LoadInv, LoadsInv, HandlerState, Between
<1> QED
  BY <1>1, <1>2, <1>3 DEF LoadsInv

LEMMA MaybeStartKeeps ==
  ASSUME LoadInv, pc \in Between, ~Reconfiguring, MaybeStartDictLoad,
         UNCHANGED <<settings, dictCh, loaders>>
  PROVE  LoadsInv'
<1>1. CASE AlreadyLoaded
  <2>1. /\ pc' \in Between /\ ~Reconfiguring'
        /\ UNCHANGED <<loadGeneration, loadKey, hasLoadKey, lookup, dictStatus, index>>
    BY <1>1 DEF MaybeStartDictLoad, Between, Reconfiguring
  <2> QED
    BY <2>1, OtherStepsKeep
<1>2. CASE ~AlreadyLoaded
  BY <1>2, BeginKeeps DEF MaybeStartDictLoad
<1> QED
  BY <1>1, <1>2

LEMMA SpawnKeeps ==
  ASSUME LoadInv, Spawn
  PROVE  LoadsInv'
<1> DEFINE new == [gen |-> loadGeneration, key |-> settings.key]
<1>1. CurrentLoads = {} /\ CurrentResults = {} /\ dictStatus = "loading" /\ hasLoadKey
      /\ loadKey = settings.key
  BY DEF LoadInv, LoadsInv, Spawn, LoadIsAwaited, HandlerState, LoadsAreAsked, Reconfiguring
<1>2. /\ loaders' = loaders \cup {new} /\ pc' = "select" /\ lookup' = None /\ index' = None
      /\ UNCHANGED <<settings, loadGeneration, loadKey, hasLoadKey, dictStatus, dictCh>>
  BY DEF Spawn, Detach
<1>3. CurrentLoads' = {new} /\ CurrentResults' = {}
  BY <1>1, <1>2 DEF CurrentLoads, CurrentResults
<1>4. GensBounded'
  BY <1>2 DEF LoadInv, LoadsInv, GensBounded, TypeOK
<1>5. LoadsAreAsked' /\ LoadsAreUnique' /\ LoadIsAwaited' /\ HandlerState'
  BY <1>1, <1>2, <1>3 DEF LoadsAreAsked, LoadsAreUnique, LoadIsAwaited, HandlerState
<1> QED
  BY <1>4, <1>5 DEF LoadsInv

LEMMA ClearKeeps ==
  ASSUME LoadInv, Clear
  PROVE  LoadsInv'
<1>1. /\ pc = "clear" /\ pc' = "select" /\ lookup' = None /\ index' = None
      /\ UNCHANGED <<settings, loadGeneration, loadKey, hasLoadKey, arg, dictStatus, dictCh, loaders>>
  BY DEF Clear, Detach
<1>2. dictStatus = "idle" /\ ~hasLoadKey
  BY <1>1 DEF LoadInv, LoadsInv, HandlerState, LoadsAreAsked
<1>3. GensBounded' /\ CurrentLoads' = CurrentLoads /\ CurrentResults' = CurrentResults
  BY <1>1 DEF LoadInv, LoadsInv, GensBounded, CurrentLoads, CurrentResults
<1>4. LoadsAreAsked' /\ LoadsAreUnique' /\ LoadIsAwaited' /\ HandlerState'
  BY <1>1, <1>2, <1>3 DEF LoadInv, LoadsInv, LoadsAreAsked, LoadsAreUnique, LoadIsAwaited, HandlerState
<1> QED
  BY <1>3, <1>4 DEF LoadsInv

LEMMA StoreStatusKeeps ==
  ASSUME LoadInv, StoreStatus
  PROVE  LoadsInv'
<1>1. /\ pc \in {"ready", "failed"} /\ dictStatus' = pc /\ pc' = "select"
      /\ UNCHANGED <<settings, loadGeneration, loadKey, hasLoadKey, lookup, index, arg, dictCh, loaders>>
  BY DEF StoreStatus, confined
<1>2. GensBounded' /\ CurrentLoads' = CurrentLoads /\ CurrentResults' = CurrentResults
  BY <1>1 DEF LoadInv, LoadsInv, GensBounded, CurrentLoads, CurrentResults
<1>3. dictStatus = "loading" /\ hasLoadKey /\ CurrentLoads = {} /\ CurrentResults = {} /\ ~Reconfiguring
  BY <1>1 DEF LoadInv, LoadsInv, HandlerState, LoadsAreAsked, LoadIsAwaited, Reconfiguring
<1>4. LoadsAreAsked' /\ LoadsAreUnique' /\ LoadIsAwaited' /\ HandlerState'
  BY <1>1, <1>2, <1>3
     DEF LoadInv, LoadsInv, LoadsAreAsked, LoadsAreUnique, LoadIsAwaited, HandlerState, Reconfiguring
<1> QED
  BY <1>2, <1>4 DEF LoadsInv

(* A reload may make the attached dictionary one of the old configuration; *)
(* Reconfiguring excuses it until Dispatch has run.                        *)
LEMMA ApplySettingsKeeps ==
  ASSUME LoadInv, NEW s \in Settings, ApplySettings(s)
  PROVE  LoadsInv'
<1>1. /\ pc = "select" /\ pc' = "dispatch" /\ settings' = s /\ arg' = (s.key # settings.key)
      /\ UNCHANGED <<loadGeneration, loadKey, hasLoadKey, lookup, dictStatus, index, dictCh, loaders>>
  BY DEF ApplySettings
<1>2. GensBounded' /\ CurrentLoads' = CurrentLoads /\ CurrentResults' = CurrentResults
  BY <1>1 DEF LoadInv, LoadsInv, GensBounded, CurrentLoads, CurrentResults
<1>3. ~Reconfiguring /\ (~Reconfiguring' => settings'.key = settings.key)
  BY <1>1 DEF Reconfiguring
<1>4. LoadsAreAsked' /\ LoadsAreUnique' /\ LoadIsAwaited'
  BY <1>1, <1>2, <1>3 DEF LoadInv, LoadsInv, LoadsAreAsked, LoadsAreUnique, LoadIsAwaited
<1>5. HandlerState'
  BY <1>1, <1>3 DEF LoadInv, LoadsInv, HandlerState
<1> QED
  BY <1>2, <1>4, <1>5 DEF LoadsInv

LEMMA DispatchKeeps ==
  ASSUME LoadInv, Dispatch
  PROVE  LoadsInv'
<1>1. pc = "dispatch" /\ UNCHANGED <<settings, dictCh, loaders>>
  BY DEF Dispatch
<1>2. CASE arg
  <2>1. BeginLoad \/ BeginInvalidate
    BY <1>2 DEF Dispatch, Redirect
  <2> QED
    BY <1>1, <2>1, BeginKeeps, InvalidateKeeps
<1>3. CASE ~arg /\ enabled
  <2>1. MaybeStartDictLoad /\ ~Reconfiguring /\ pc \in Between
    BY <1>1, <1>3 DEF Dispatch, Reconfiguring, Between
  <2> QED
    BY <1>1, <2>1, MaybeStartKeeps
<1>4. CASE ~arg /\ ~enabled
  <2>1. /\ pc \in Between /\ pc' \in Between /\ ~Reconfiguring /\ ~Reconfiguring'
        /\ UNCHANGED <<loadGeneration, loadKey, hasLoadKey, lookup, dictStatus, index>>
    BY <1>1, <1>4 DEF Dispatch, Reconfiguring, Between
  <2> QED
    BY <1>1, <2>1, OtherStepsKeep
<1> QED
  BY <1>2, <1>3, <1>4

(* The handlers that may start a load or leave things as they are. *)
LEMMA RequestsKeep ==
  ASSUME LoadInv, Boot \/ StoreToggle \/ ReceiveRequest \/ Shortcut
  PROVE  LoadsInv'
<1>1. UNCHANGED <<settings, dictCh, loaders>> /\ pc \in Between /\ ~Reconfiguring
  BY DEF Boot, StoreToggle, ReceiveRequest, Shortcut, Between, Reconfiguring, confined
<1>2. \/ MaybeStartDictLoad
      \/ /\ pc' \in {"select", "toggle"}
         /\ UNCHANGED <<loadGeneration, loadKey, hasLoadKey, lookup, dictStatus, index>>
  BY DEF Boot, StoreToggle, ReceiveRequest, Shortcut, confined
<1>3. CASE pc' \in {"select", "toggle"}
           /\ UNCHANGED <<loadGeneration, loadKey, hasLoadKey, lookup, dictStatus, index>>
  <2>1. pc' \in Between /\ ~Reconfiguring'
    BY <1>3 DEF Between, Reconfiguring
  <2> QED
    BY <1>1, <1>3, <2>1, OtherStepsKeep
<1> QED
  BY <1>1, <1>2, <1>3, MaybeStartKeeps

(* The channel once its head is received. *)
LEMMA ReceivedHead ==
  ASSUME LoadInv, dictCh # <<>>, dictCh' = Tail(dictCh), UNCHANGED loadGeneration
  PROVE  /\ 1 \in DOMAIN dictCh /\ Head(dictCh) = dictCh[1] /\ dictCh[1] \in Results
         /\ \A i \in DOMAIN dictCh' : i + 1 \in DOMAIN dictCh /\ i \in Nat \ {0} /\ dictCh'[i] = dictCh[i + 1]
         /\ \A i \in DOMAIN dictCh \ {1} : i - 1 \in DOMAIN dictCh' /\ i \in Nat /\ dictCh'[i - 1] = dictCh[i]
<1>1. dictCh \in Seq(Results) /\ Len(dictCh) \in Nat \ {0} /\ DOMAIN dictCh = 1..Len(dictCh)
  BY DEF LoadInv, TypeOK
<1>2. DOMAIN dictCh' = 1..(Len(dictCh) - 1) /\ \A i \in 1..(Len(dictCh) - 1) : dictCh'[i] = dictCh[i + 1]
  BY <1>1, HeadTailProperties
<1>3. Head(dictCh) = dictCh[1] /\ dictCh[1] \in Results
  BY <1>1
<1> QED
  BY <1>1, <1>2, <1>3

LEMMA ReceiveResultKeeps ==
  ASSUME LoadInv, ReceiveResult
  PROVE  LoadsInv'
<1>1. /\ pc = "select" /\ dictCh # <<>> /\ dictCh' = Tail(dictCh)
      /\ UNCHANGED <<settings, loadGeneration, loadKey, hasLoadKey, arg, dictStatus, loaders>>
  BY DEF ReceiveResult
<1>2. /\ 1 \in DOMAIN dictCh /\ Head(dictCh) = dictCh[1] /\ dictCh[1] \in Results
      /\ \A i \in DOMAIN dictCh' : i + 1 \in DOMAIN dictCh /\ i \in Nat \ {0} /\ dictCh'[i] = dictCh[i + 1]
      /\ \A i \in DOMAIN dictCh \ {1} : i - 1 \in DOMAIN dictCh' /\ i \in Nat /\ dictCh'[i - 1] = dictCh[i]
  BY <1>1, ReceivedHead
<1>3. GensBounded' /\ CurrentLoads' = CurrentLoads /\ ~Reconfiguring
  BY <1>1, <1>2 DEF LoadInv, LoadsInv, GensBounded, CurrentLoads, Reconfiguring
<1>4. \A i \in CurrentResults' : i + 1 \in CurrentResults /\ i \in Nat \ {0} /\ dictCh'[i] = dictCh[i + 1]
  BY <1>1, <1>2 DEF CurrentResults
<1>5. CASE ~Current(Head(dictCh))
  <2>1. UNCHANGED <<pc, index, lookup>>
    BY <1>5 DEF ReceiveResult
  <2>2. 1 \notin CurrentResults
    BY <1>2, <1>5 DEF Current, CurrentResults
  <2>3. CurrentResults # {} <=> CurrentResults' # {}
    <3>1. \A i \in CurrentResults : i - 1 \in CurrentResults'
      BY <1>1, <1>2, <2>2 DEF CurrentResults
    <3> QED
      BY <1>4, <3>1
  <2>4. LoadsAreAsked'
    BY <1>1, <1>3, <1>4, <2>1 DEF LoadInv, LoadsInv, LoadsAreAsked, Reconfiguring
  <2>5. LoadsAreUnique'
    <3>1. ASSUME NEW i \in CurrentResults', NEW j \in CurrentResults'
          PROVE  i = j
      <4>1. i + 1 \in CurrentResults /\ j + 1 \in CurrentResults /\ i \in Nat /\ j \in Nat
        BY <1>4
      <4>2. i + 1 = j + 1
        BY <4>1 DEF LoadInv, LoadsInv, LoadsAreUnique
      <4> QED
        BY <4>1, <4>2
    <3> QED
      BY <1>3, <2>3, <3>1 DEF LoadInv, LoadsInv, LoadsAreUnique
  <2>6. LoadIsAwaited' /\ HandlerState'
    BY <1>1, <1>3, <2>1, <2>3 DEF LoadInv, LoadsInv, LoadIsAwaited, HandlerState, Reconfiguring
  <2> QED
    BY <1>3, <2>4, <2>5, <2>6 DEF LoadsInv
<1>6. CASE Current(Head(dictCh))
  <2>1. 1 \in CurrentResults
    BY <1>2, <1>6 DEF Current, CurrentResults
  <2>2. CurrentLoads = {} /\ CurrentResults' = {} /\ dictStatus = "loading" /\ hasLoadKey
    <3>1. \A i \in CurrentResults : i = 1
      BY <2>1 DEF LoadInv, LoadsInv, LoadsAreUnique
    <3>2. CurrentResults' = {}
      <4> SUFFICES ASSUME NEW i \in CurrentResults'
                   PROVE  FALSE
        OBVIOUS
      <4> QED
        BY <1>4, <3>1
    <3> QED
      BY <2>1, <3>2 DEF LoadInv, LoadsInv, LoadsAreUnique, LoadIsAwaited, LoadsAreAsked
  <2>3. dictCh[1].key = settings.key /\ dictCh[1].key \in DictKeys
    BY <1>2, <1>3, <2>1, <2>2 DEF LoadInv, LoadsInv, LoadsAreAsked, Results
  <2>4. \/ pc' = "ready" /\ lookup' = settings.key /\ index' = lookup'
        \/ pc' = "failed" /\ lookup' = None /\ index' = None
    BY <1>2, <1>6, <2>3 DEF ReceiveResult, Detach
  <2>5. LoadsAreAsked' /\ LoadsAreUnique' /\ LoadIsAwaited'
    BY <1>1, <1>3, <2>2, <2>4
       DEF LoadInv, LoadsInv, LoadsAreAsked, LoadsAreUnique, LoadIsAwaited, Reconfiguring
  <2>6. HandlerState'
    BY <1>1, <2>2, <2>3, <2>4, DictLoadAssumption DEF HandlerState, Reconfiguring
  <2> QED
    BY <1>3, <2>5, <2>6 DEF LoadsInv
<1> QED
  BY <1>5, <1>6

(* A load that ends turns into a result of the same generation. *)
LEMMA FinishLoadKeeps ==
  ASSUME LoadInv, NEW l \in loaders, NEW ok \in BOOLEAN, FinishLoad(l, ok)
  PROVE  LoadsInv'
<1> DEFINE n == Len(dictCh) + 1
           result == [gen |-> l.gen, key |-> l.key, ok |-> ok]
<1>1. /\ loaders' = loaders \ {l} /\ dictCh' = Append(dictCh, result)
      /\ UNCHANGED <<settings, loadGeneration, loadKey, hasLoadKey, lookup, pc, arg, dictStatus, index>>
  BY DEF FinishLoad, confined
<1>2. /\ n \in Nat /\ n \notin DOMAIN dictCh /\ DOMAIN dictCh' = DOMAIN dictCh \cup {n}
      /\ dictCh'[n] = result /\ \A i \in DOMAIN dictCh : dictCh'[i] = dictCh[i]
  <2>1. dictCh \in Seq(Results) /\ result \in Results
    BY DEF LoadInv, TypeOK, Loads, Results
  <2> HIDE DEF result
  <2> QED
    BY <1>1, <2>1
<1>3. GensBounded'
  BY <1>1, <1>2 DEF LoadInv, LoadsInv, GensBounded
<1>4. CASE l.gen # loadGeneration
  <2>1. CurrentLoads' = CurrentLoads /\ CurrentResults' = CurrentResults
    BY <1>1, <1>2, <1>4 DEF CurrentLoads, CurrentResults
  <2>2. \A i \in CurrentResults : dictCh'[i] = dictCh[i]
    BY <1>2 DEF CurrentResults
  <2> QED
    BY <1>1, <1>3, <2>1, <2>2
       DEF LoadInv, LoadsInv, LoadsAreAsked, LoadsAreUnique, LoadIsAwaited, HandlerState, Reconfiguring
<1>5. CASE l.gen = loadGeneration
  <2>1. l \in CurrentLoads
    BY <1>5 DEF CurrentLoads
  <2>2. CurrentResults = {} /\ l.key = loadKey
    BY <2>1 DEF LoadInv, LoadsInv, LoadsAreUnique, LoadsAreAsked
  <2>3. CurrentLoads' = {}
    BY <1>1, <2>1 DEF LoadInv, LoadsInv, LoadsAreUnique, CurrentLoads
  <2>4. CurrentResults' = {n}
    <3> HIDE DEF n
    <3> QED
      BY <1>1, <1>2, <1>5, <2>2 DEF CurrentResults
  <2>5. LoadsAreAsked' /\ LoadsAreUnique'
    BY <1>1, <1>2, <2>2, <2>3, <2>4 DEF LoadInv, LoadsInv, LoadsAreAsked, LoadsAreUnique, Reconfiguring
  <2>6. LoadIsAwaited' /\ HandlerState'
    BY <1>1, <2>1, <2>4 DEF LoadInv, LoadsInv, LoadIsAwaited, HandlerState, Reconfiguring
  <2> QED
    BY <1>3, <2>5, <2>6 DEF LoadsInv
<1> QED
  BY <1>4, <1>5

(* D-Bus goroutines own nothing the invariant speaks of. *)
LEMMA CallsKeep ==
  ASSUME LoadInv,
         UNCHANGED MainLoopState \/ UNCHANGED vars
  PROVE  LoadsInv'
<1>1. UNCHANGED <<settings, loadGeneration, loadKey, hasLoadKey, lookup, pc, arg, dictStatus, index, dictCh, loaders>>
  BY DEF MainLoopState, vars, confined
<1> QED
  BY <1>1 DEF LoadInv, LoadsInv, GensBounded, CurrentLoads, CurrentResults, LoadsAreAsked, LoadsAreUnique,
              LoadIsAwaited, HandlerState, Reconfiguring

LEMMA StepLoads == LoadInv /\ [Next]_vars => LoadsInv'
<1> SUFFICES ASSUME LoadInv, [Next]_vars
             PROVE  LoadsInv'
  OBVIOUS
<1>1. CASE Boot \/ StoreToggle \/ ReceiveRequest \/ Shortcut
  BY <1>1, RequestsKeep
<1>2. CASE Spawn
  BY <1>2, SpawnKeeps
<1>3. CASE Clear
  BY <1>3, ClearKeeps
<1>4. CASE StoreStatus
  BY <1>4, StoreStatusKeeps
<1>5. CASE Dispatch
  BY <1>5, DispatchKeeps
<1>6. CASE ReceiveResult
  BY <1>6, ReceiveResultKeeps
<1>7. CASE \E s \in Settings : ApplySettings(s)
  BY <1>7, ApplySettingsKeeps
<1>8. CASE \E l \in loaders, ok \in BOOLEAN : FinishLoad(l, ok)
  BY <1>8, FinishLoadKeeps
<1>9. CASE \E c \in Callers, op \in {"Enable", "Disable", "Toggle", "Status"} : Call(c, op)
  BY <1>9, CallsKeep DEF Call
<1>10. CASE \E c \in Callers : CallStep(c)
  BY <1>10, CallsKeep DEF CallStep, ReadStatus, ReadEnabled, ReadIndex, Reply, SetEnabled, RequestDictLoad
<1>11. CASE UNCHANGED vars
  BY <1>11, CallsKeep
<1> QED
  BY <1>1, <1>2, <1>3, <1>4, <1>5, <1>6, <1>7, <1>8, <1>9, <1>10, <1>11 DEF Next, Handler

(* The inductive invariant: what generation numbers guarantee at every     *)
(* step of every handler.                                                  *)
THEOREM LoadInvariant == Spec => []LoadInv
<1>1. Init => LoadInv
  BY InitTyped, InitLoads DEF LoadInv
<1>2. LoadInv /\ [Next]_vars => LoadInv'
  BY StepTyped, StepLoads DEF LoadInv
<1> QED
  BY <1>1, <1>2, PTL DEF Spec

-----------------------------------------------------------------------------
(* The properties.                                                         *)

(* Whatever loads, reloads, toggles and D-Bus calls overlap, key events    *)
(* are only ever handled with the dictionary the configuration names.      *)
THEOREM LookupCorrect == Spec => []LookupIsDesired
<1>1. LoadInv => LookupIsDesired
  BY DEF LoadInv, LoadsInv, HandlerState, Reconfiguring, LookupIsDesired
<1> QED
  BY <1>1, LoadInvariant, PTL

(* Between handlers the status word, the index that D-Bus reports and the  *)
(* dictionary of the corrector agree.                                      *)
THEOREM StatusCorrect == Spec => []StatusAgrees
<1>1. LoadInv => StatusAgrees
  BY DEF LoadInv, LoadsInv, HandlerState, StatusAgrees
<1> QED
  BY <1>1, LoadInvariant, PTL

LEMMA SetOfAtMostOne ==
  ASSUME NEW S, \A x, y \in S : x = y
  PROVE  Cardinality(S) = IF S = {} THEN 0 ELSE 1
<1>1. CASE S = {}
  BY <1>1, FS_EmptySet
<1>2. CASE S # {}
  <2>1. PICK x \in S : S = {x}
    BY <1>2
  <2> QED
    BY <1>2, <2>1, FS_Singleton
<1> QED
  BY <1>1, <1>2

(* "loading" is never a dead end, and never stands for two loads: exactly  *)
(* one load or result of the present generation is then on its way.        *)
THEOREM OneLoadCorrect == Spec => []OneCurrentLoad
<1>1. LoadInv => OneCurrentLoad
  <2> SUFFICES ASSUME LoadInv, pc = "select"
               PROVE  Cardinality(CurrentLoads) + Cardinality(CurrentResults)
                        = IF dictStatus = "loading" THEN 1 ELSE 0
    BY DEF OneCurrentLoad
  <2>1. /\ Cardinality(CurrentLoads) = IF CurrentLoads = {} THEN 0 ELSE 1
        /\ Cardinality(CurrentResults) = IF CurrentResults = {} THEN 0 ELSE 1
    BY SetOfAtMostOne DEF LoadInv, LoadsInv, LoadsAreUnique
  <2>2. /\ CurrentLoads = {} \/ CurrentResults = {}
        /\ CurrentLoads # {} \/ CurrentResults # {} <=> dictStatus = "loading"
    BY DEF LoadInv, LoadsInv, LoadsAreUnique, LoadIsAwaited
  <2> QED
    BY <2>1, <2>2
<1> QED
  BY <1>1, LoadInvariant, PTL

-----------------------------------------------------------------------------
(* The refinement: every step of the code is a step of the abstract        *)
(* dictionary or leaves it as it is.                                       *)

LEMMA InitRefines == Init => D!DInit
BY DEF Init, D!DInit, Settings, Phase, Served, Reconfiguring

LEMMA QuietStep ==
  ASSUME UNCHANGED <<settings, lookup, pc, arg, dictStatus>>
  PROVE  UNCHANGED D!dvars
BY DEF D!dvars, Phase, Served, Reconfiguring

LEMMA BetweenSteps ==
  ASSUME pc \in Between, pc' \in Between, ~Reconfiguring, ~Reconfiguring',
         settings'.key = settings.key, UNCHANGED <<lookup, dictStatus>>
  PROVE  UNCHANGED D!dvars
BY DEF D!dvars, Phase, Served, Between

LEMMA MaybeStartRefines ==
  ASSUME LoadInv, pc \in Between, ~Reconfiguring, MaybeStartDictLoad, UNCHANGED settings
  PROVE  D!Begin \/ UNCHANGED D!dvars
<1>1. CASE AlreadyLoaded
  <2>1. pc' \in Between /\ ~Reconfiguring' /\ UNCHANGED <<lookup, dictStatus>>
    BY <1>1 DEF MaybeStartDictLoad, Between, Reconfiguring
  <2> QED
    BY <2>1, BetweenSteps
<1>2. CASE ~AlreadyLoaded
  <2>1. dictStatus' = "loading" /\ pc' = "spawn"
    BY <1>2 DEF MaybeStartDictLoad, BeginLoad
  <2>2. dictStatus \in {"idle", "failed"}
    BY <1>2 DEF AlreadyLoaded, AlreadyAsked, LoadInv, LoadsInv, LoadsAreAsked, TypeOK
  <2>3. Phase \in {"idle", "failed"} /\ Phase' = "loading" /\ Served' = None
    BY <2>1, <2>2 DEF Phase, Served, Reconfiguring, Between
  <2> QED
    BY <2>3 DEF D!Begin
<1> QED
  BY <1>1, <1>2

LEMMA DispatchRefines ==
  ASSUME LoadInv, Dispatch
  PROVE  D!Begin \/ UNCHANGED D!dvars
<1>1. pc = "dispatch" /\ arg' = FALSE /\ UNCHANGED settings
  BY DEF Dispatch
<1>2. CASE arg
  <2>1. \/ dictStatus' = "loading" /\ pc' = "spawn"
        \/ dictStatus' = "idle" /\ pc' = "clear"
    BY <1>2 DEF Dispatch, Redirect, BeginLoad, BeginInvalidate
  <2>2. Phase = "idle" /\ Served = None
    BY <1>1, <1>2 DEF Phase, Served, Reconfiguring
  <2>3. Phase' = dictStatus' /\ Served' = None
    BY <2>1 DEF Phase, Served, Reconfiguring
  <2> QED
    BY <1>1, <2>1, <2>2, <2>3 DEF D!Begin, D!dvars
<1>3. CASE ~arg
  <2>1. pc \in Between /\ ~Reconfiguring
    BY <1>1, <1>3 DEF Between, Reconfiguring
  <2>2. CASE enabled
    BY <1>1, <1>3, <2>1, <2>2, MaybeStartRefines DEF Dispatch
  <2>3. CASE ~enabled
    <3>1. pc' \in Between /\ ~Reconfiguring' /\ UNCHANGED <<lookup, dictStatus>>
      BY <1>3, <2>3 DEF Dispatch, Between, Reconfiguring
    <3> QED
      BY <1>1, <2>1, <3>1, BetweenSteps
  <2> QED
    BY <2>2, <2>3
<1> QED
  BY <1>2, <1>3

LEMMA RequestsRefine ==
  ASSUME LoadInv, Boot \/ StoreToggle \/ ReceiveRequest \/ Shortcut
  PROVE  D!Begin \/ UNCHANGED D!dvars
<1>1. UNCHANGED settings /\ pc \in Between /\ ~Reconfiguring
  BY DEF Boot, StoreToggle, ReceiveRequest, Shortcut, Between, Reconfiguring, confined
<1>2. \/ MaybeStartDictLoad
      \/ pc' \in {"select", "toggle"} /\ UNCHANGED <<lookup, dictStatus>>
  BY DEF Boot, StoreToggle, ReceiveRequest, Shortcut, confined
<1>3. CASE pc' \in {"select", "toggle"} /\ UNCHANGED <<lookup, dictStatus>>
  <2>1. pc' \in Between /\ ~Reconfiguring'
    BY <1>3 DEF Between, Reconfiguring
  <2> QED
    BY <1>1, <1>3, <2>1, BetweenSteps
<1> QED
  BY <1>1, <1>2, <1>3, MaybeStartRefines

(* The result that is accepted belongs to the dictionary wanted now. *)
LEMMA ReceiveResultRefines ==
  ASSUME LoadInv, ReceiveResult
  PROVE  D!Succeed \/ D!Fail \/ UNCHANGED D!dvars
<1>1. /\ pc = "select" /\ dictCh # <<>> /\ dictCh' = Tail(dictCh)
      /\ UNCHANGED <<settings, loadGeneration, arg, dictStatus>>
  BY DEF ReceiveResult
<1>2. CASE ~Current(Head(dictCh))
  BY <1>1, <1>2, QuietStep DEF ReceiveResult
<1>3. CASE Current(Head(dictCh))
  <2>1. 1 \in CurrentResults /\ Head(dictCh) = dictCh[1]
    BY <1>1, <1>3, ReceivedHead DEF Current, CurrentResults
  <2>2. dictStatus = "loading" /\ dictCh[1].key = settings.key
    BY <1>1, <2>1 DEF LoadInv, LoadsInv, LoadIsAwaited, LoadsAreAsked, Reconfiguring
  <2>3. \/ pc' = "ready" /\ lookup' = settings.key
        \/ pc' = "failed" /\ lookup' = None
    BY <1>3, <2>1, <2>2 DEF ReceiveResult, Detach
  <2>4. Phase = "loading" /\ Phase' = pc' /\ Served' = lookup'
    BY <1>1, <2>2, <2>3 DEF Phase, Served, Reconfiguring
  <2> QED
    BY <1>1, <2>3, <2>4 DEF D!Succeed, D!Fail
<1> QED
  BY <1>2, <1>3

LEMMA ApplySettingsRefines ==
  ASSUME LoadInv, NEW s \in Settings, ApplySettings(s)
  PROVE  (\E k \in DictKeys : D!Configure(k)) \/ UNCHANGED D!dvars
<1>1. /\ pc = "select" /\ pc' = "dispatch" /\ settings' = s /\ arg' = (s.key # settings.key)
      /\ UNCHANGED <<lookup, dictStatus>>
  BY DEF ApplySettings
<1>2. CASE s.key = settings.key
  <2>1. pc \in Between /\ pc' \in Between /\ ~Reconfiguring /\ ~Reconfiguring'
    BY <1>1, <1>2 DEF Between, Reconfiguring
  <2> QED
    BY <1>1, <1>2, <2>1, BetweenSteps
<1>3. CASE s.key # settings.key
  <2>1. Phase' = "idle" /\ Served' = None
    BY <1>1, <1>3 DEF Phase, Served, Reconfiguring
  <2>2. s.key \in DictKeys
    BY DEF Settings
  <2> QED
    BY <1>1, <1>3, <2>1, <2>2 DEF D!Configure
<1> QED
  BY <1>2, <1>3

(* What the steps that finish a handler leave behind was visible already.  *)
LEMMA TailStepsRefine ==
  ASSUME LoadInv, Spawn \/ Clear \/ StoreStatus
  PROVE  UNCHANGED D!dvars
<1>1. CASE Spawn \/ Clear
  <2>1. /\ pc \in {"spawn", "clear"} /\ pc' = "select" /\ lookup' = None
        /\ UNCHANGED <<settings, dictStatus>>
    BY <1>1 DEF Spawn, Clear, Detach
  <2> QED
    BY <2>1 DEF D!dvars, Phase, Served, Reconfiguring
<1>2. CASE StoreStatus
  <2>1. /\ pc \in {"ready", "failed"} /\ dictStatus' = pc /\ pc' = "select"
        /\ UNCHANGED <<settings, lookup>>
    BY <1>2 DEF StoreStatus, confined
  <2> QED
    BY <2>1 DEF D!dvars, Phase, Served, Reconfiguring
<1> QED
  BY <1>1, <1>2

LEMMA StepRefines == LoadInv /\ [Next]_vars => [D!DNext]_(D!dvars)
<1> SUFFICES ASSUME LoadInv, [Next]_vars
             PROVE  D!DNext \/ UNCHANGED D!dvars
  OBVIOUS
<1>1. CASE Boot \/ StoreToggle \/ ReceiveRequest \/ Shortcut
  BY <1>1, RequestsRefine DEF D!DNext
<1>2. CASE Spawn \/ Clear \/ StoreStatus
  BY <1>2, TailStepsRefine
<1>3. CASE Dispatch
  BY <1>3, DispatchRefines DEF D!DNext
<1>4. CASE ReceiveResult
  BY <1>4, ReceiveResultRefines DEF D!DNext
<1>5. CASE \E s \in Settings : ApplySettings(s)
  BY <1>5, ApplySettingsRefines DEF D!DNext
<1>6. CASE \E l \in loaders, ok \in BOOLEAN : FinishLoad(l, ok)
  BY <1>6, QuietStep DEF FinishLoad, confined
<1>7. CASE \E c \in Callers, op \in {"Enable", "Disable", "Toggle", "Status"} : Call(c, op)
  BY <1>7, QuietStep DEF Call, MainLoopState, confined
<1>8. CASE \E c \in Callers : CallStep(c)
  <2>1. UNCHANGED MainLoopState
    BY <1>8 DEF CallStep, ReadStatus, ReadEnabled, ReadIndex, Reply, SetEnabled, RequestDictLoad
  <2> QED
    BY <2>1, QuietStep DEF MainLoopState, confined
<1>9. CASE UNCHANGED vars
  BY <1>9, QuietStep DEF vars, confined
<1> QED
  BY <1>1, <1>2, <1>3, <1>4, <1>5, <1>6, <1>7, <1>8, <1>9 DEF Next, Handler

(* Generations, channels and goroutines implement the safety part of the   *)
(* abstract dictionary: a load ends in the dictionary now wanted or in a   *)
(* failure, and one overtaken by a new configuration has no effect.        *)
THEOREM RefinesDictionary == Spec => D!DInit /\ [][D!DNext]_(D!dvars)
BY InitRefines, StepRefines, LoadInvariant, PTL DEF Spec
=============================================================================
