------------------------------ MODULE DictLoad ------------------------------
(***************************************************************************)
(* The dictionary lifecycle of autocorrect.go and the D-Bus calls of       *)
(* internal/control that race with it.                                     *)
(*                                                                         *)
(* Three kinds of goroutine run here.  The main loop owns settings, the    *)
(* load generation and the corrector's lookup; the D-Bus goroutines share  *)
(* with it the atomics enabled, dictStatus and index and the channel       *)
(* loadReq; a loader goroutine per load sends one result on dictCh.  A     *)
(* step of the main loop goes from one access of a shared variable to the  *)
(* next that another goroutine could tell apart; pc says where it is.      *)
(*                                                                         *)
(* Bounds: MaxEvents caps reloads, shortcuts and D-Bus calls of a          *)
(* behaviour; DictChCap is the capacity of dictCh (8 in the code).         *)
(*                                                                         *)
(* A definition that nothing uses is a deliberately faulty variant of the  *)
(* one after it; put in its place it must break a property.                *)
(***************************************************************************)
EXTENDS Integers, Sequences, FiniteSets

CONSTANTS
  DictKeys,    \* dictionaryLoadKey values: a path and a cache setting
  None,        \* no dictionary
  Callers,     \* D-Bus goroutines
  DictChCap, MaxEvents

ASSUME DictLoadAssumption ==
  /\ None \notin DictKeys
  /\ DictChCap \in Nat \ {0} /\ MaxEvents \in Nat

VARIABLES
  settings,        \* [key, enabled]: the configuration in force
  loadGeneration, loadKey, hasLoadKey,
  lookup,          \* the corrector's dictionary, or None
  pc, arg,         \* the main loop, and the Boolean its handler remembers
  enabled,         \* atomic
  dictStatus,      \* atomic
  index,           \* atomic: the dictionary the D-Bus side reports
  loadReq,         \* channel of capacity 1: a request waits or not
  dictCh,          \* channel of load results
  loaders,         \* loads running: [gen, key]
  call,            \* per D-Bus goroutine: where it is and what it has read
  events

confined == <<settings, loadGeneration, loadKey, hasLoadKey, lookup>>
vars == <<confined, pc, arg, enabled, dictStatus, index, loadReq, dictCh, loaders, call, events>>

Settings == [key : DictKeys, enabled : BOOLEAN]
Loads    == [gen : Nat, key : DictKeys]
Results  == [gen : Nat, key : DictKeys, ok : BOOLEAN]
Calls    == [at : {"idle", "store", "request", "status", "enabled", "index", "reply"},
             op : {"none", "Enable", "Disable", "Toggle", "Status"}, v : BOOLEAN,
             state : {"idle", "loading", "ready", "failed"}, ready : BOOLEAN]
Idle     == [at |-> "idle", op |-> "none", v |-> FALSE, state |-> "idle", ready |-> FALSE]

(* newAutocorrect: nothing is loaded before the loop is about to start.    *)
Init ==
  /\ settings \in Settings
  /\ loadGeneration = 0 /\ loadKey = None /\ hasLoadKey = FALSE
  /\ lookup = None /\ index = None /\ dictStatus = "idle"
  /\ enabled = settings.enabled
  /\ pc = "boot" /\ arg = FALSE
  /\ loadReq = FALSE /\ dictCh = <<>> /\ loaders = {}
  /\ call = [c \in Callers |-> Idle] /\ events = 0

Event == events < MaxEvents /\ events' = events + 1

-----------------------------------------------------------------------------
(* Loading, on the main loop.                                              *)

(* A load that reuses the generation of the one it overtakes.              *)
BeginSameGeneration ==
  /\ loadGeneration' = IF loadGeneration = 0 THEN 1 ELSE loadGeneration
  /\ loadKey' = settings.key /\ hasLoadKey' = TRUE
  /\ dictStatus' = "loading" /\ pc' = "spawn"
  /\ UNCHANGED <<lookup, index>>

(* startDictLoad up to the point where the status says "loading".          *)
BeginLoad ==
  /\ loadGeneration' = loadGeneration + 1
  /\ loadKey' = settings.key /\ hasLoadKey' = TRUE
  /\ dictStatus' = "loading" /\ pc' = "spawn"
  /\ UNCHANGED <<lookup, index>>

(* maybeStartDictLoad: not for what is already loading or loaded.          *)
AlreadyAsked  == hasLoadKey /\ loadKey = settings.key
AlreadyLoaded == AlreadyAsked /\ dictStatus \in {"loading", "ready"}

MaybeStartDictLoad ==
  IF AlreadyLoaded
  THEN pc' = "select" /\ UNCHANGED <<loadGeneration, loadKey, hasLoadKey, lookup, dictStatus, index>>
  ELSE BeginLoad

(* The rest of startDictLoad: the old index is detached, then the loader   *)
(* goroutine starts with the settings of this moment.                      *)
DetachIndexOnly == index' = None /\ UNCHANGED lookup
Detach          == index' = None /\ lookup' = None

Spawn ==
  /\ pc = "spawn" /\ pc' = "select"
  /\ Detach
  /\ loaders' = loaders \cup {[gen |-> loadGeneration, key |-> settings.key]}
  /\ UNCHANGED <<settings, loadGeneration, loadKey, hasLoadKey, arg, enabled, dictStatus, loadReq,
                 dictCh, call, events>>

(* invalidateDictionary, in the same two steps.                            *)
BeginInvalidate ==
  /\ loadGeneration' = loadGeneration + 1
  /\ hasLoadKey' = FALSE
  /\ dictStatus' = "idle" /\ pc' = "clear"
  /\ UNCHANGED <<loadKey, lookup, index>>

Clear ==
  /\ pc = "clear" /\ pc' = "select"
  /\ Detach
  /\ UNCHANGED <<settings, loadGeneration, loadKey, hasLoadKey, arg, enabled, dictStatus, loadReq,
                 dictCh, loaders, call, events>>

-----------------------------------------------------------------------------
(* The main loop: main.go before the loop, then its select cases.          *)

Boot ==
  /\ pc = "boot"
  /\ IF enabled THEN MaybeStartDictLoad
     ELSE pc' = "select" /\ UNCHANGED <<loadGeneration, loadKey, hasLoadKey, lookup, dictStatus, index>>
  /\ UNCHANGED <<settings, arg, enabled, loadReq, dictCh, loaders, call, events>>

ReceiveRequest ==
  /\ pc = "select" /\ loadReq /\ loadReq' = FALSE
  /\ MaybeStartDictLoad
  /\ UNCHANGED <<settings, arg, enabled, dictCh, loaders, call, events>>

(* handleDictLoadResult up to the point where the index is replaced; the   *)
(* status follows in a second step.                                        *)
AnyGeneration(result) == TRUE
Current(result)       == result.gen = loadGeneration

ReceiveResult ==
  /\ pc = "select" /\ dictCh # <<>> /\ dictCh' = Tail(dictCh)
  /\ LET result == Head(dictCh) IN
     IF ~Current(result) THEN UNCHANGED <<pc, index, lookup>>
     ELSE IF result.ok THEN index' = result.key /\ lookup' = result.key /\ pc' = "ready"
     ELSE Detach /\ pc' = "failed"
  /\ UNCHANGED <<settings, loadGeneration, loadKey, hasLoadKey, arg, enabled, dictStatus, loadReq,
                 loaders, call, events>>

StoreStatus ==
  /\ pc \in {"ready", "failed"} /\ dictStatus' = pc /\ pc' = "select"
  /\ UNCHANGED <<confined, arg, enabled, index, loadReq, dictCh, loaders, call, events>>

(* applySettings: the settings and, when the file changed it, the enabled  *)
(* flag; then, on the flag as it is by now, the dictionary.                *)
ApplySettings(s) ==
  /\ pc = "select" /\ Event
  /\ settings' = s /\ arg' = (s.key # settings.key) /\ pc' = "dispatch"
  /\ enabled' = (IF s.enabled # settings.enabled THEN s.enabled ELSE enabled)
  /\ UNCHANGED <<loadGeneration, loadKey, hasLoadKey, lookup, dictStatus, index, loadReq, dictCh,
                 loaders, call>>

RedirectWhenEnabled ==
  IF enabled THEN BeginLoad
  ELSE pc' = "select" /\ UNCHANGED <<loadGeneration, loadKey, hasLoadKey, lookup, dictStatus, index>>
Redirect == IF enabled THEN BeginLoad ELSE BeginInvalidate

Dispatch ==
  /\ pc = "dispatch" /\ arg' = FALSE
  /\ IF arg THEN Redirect
     ELSE IF enabled THEN MaybeStartDictLoad
     ELSE pc' = "select" /\ UNCHANGED <<loadGeneration, loadKey, hasLoadKey, lookup, dictStatus, index>>
  /\ UNCHANGED <<settings, enabled, loadReq, dictCh, loaders, call, events>>

(* The toggle shortcut: the flag is read, negated and stored.              *)
Shortcut ==
  /\ pc = "select" /\ Event
  /\ arg' = ~enabled /\ pc' = "toggle"
  /\ UNCHANGED <<confined, enabled, dictStatus, index, loadReq, dictCh, loaders, call>>

StoreToggle ==
  /\ pc = "toggle" /\ enabled' = arg /\ arg' = FALSE
  /\ IF arg THEN MaybeStartDictLoad
     ELSE pc' = "select" /\ UNCHANGED <<loadGeneration, loadKey, hasLoadKey, lookup, dictStatus, index>>
  /\ UNCHANGED <<settings, loadReq, dictCh, loaders, call, events>>

-----------------------------------------------------------------------------
(* Loader goroutines: they end with or without an index, and wait while    *)
(* the channel is full.                                                    *)
Room == Len(dictCh) < DictChCap
FinishLoad(l, ok) ==
  /\ l \in loaders /\ Room
  /\ loaders' = loaders \ {l}
  /\ dictCh' = Append(dictCh, [gen |-> l.gen, key |-> l.key, ok |-> ok])
  /\ UNCHANGED <<confined, pc, arg, enabled, dictStatus, index, loadReq, call, events>>

-----------------------------------------------------------------------------
(* D-Bus goroutines.                                                       *)

MainLoopState == <<confined, pc, arg, dictStatus, index, dictCh, loaders>>

FirstStep(op) ==
  CASE op \in {"Enable", "Disable"} -> "store" [] op = "Toggle" -> "enabled" [] op = "Status" -> "status"

Call(c, op) ==
  /\ call[c].at = "idle" /\ Event
  /\ call' = [call EXCEPT ![c] = [Idle EXCEPT !.at = FirstStep(op), !.op = op, !.v = (op = "Enable")]]
  /\ UNCHANGED <<MainLoopState, enabled, loadReq>>

(* AutocorrectStatus reads the three atomics one after the other; Toggle   *)
(* uses only the flag of the status it reads, and stores the opposite.     *)
ReadStatus(c) ==
  /\ call[c].at = "status"
  /\ call' = [call EXCEPT ![c] = [@ EXCEPT !.at = "enabled", !.state = dictStatus]]
  /\ UNCHANGED <<MainLoopState, enabled, loadReq, events>>

ReadEnabled(c) ==
  /\ call[c].at = "enabled"
  /\ call' = [call EXCEPT ![c] =
                 IF @.op = "Toggle" THEN [@ EXCEPT !.at = "store", !.v = ~enabled]
                                    ELSE [@ EXCEPT !.at = "index", !.v = enabled]]
  /\ UNCHANGED <<MainLoopState, enabled, loadReq, events>>

ReadIndex(c) ==
  /\ call[c].at = "index"
  /\ call' = [call EXCEPT ![c] =
                 [@ EXCEPT !.at = "reply", !.ready = (index # None /\ call[c].state = "ready")]]
  /\ UNCHANGED <<MainLoopState, enabled, loadReq, events>>

(* The Status reply is sent. *)
Reply(c) ==
  /\ call[c].at = "reply"
  /\ call' = [call EXCEPT ![c] = Idle]
  /\ UNCHANGED <<MainLoopState, enabled, loadReq, events>>

(* SetAutocorrectEnabled: the flag first, then a load is requested; a      *)
(* request already waiting absorbs it.                                     *)
NoRequest(v)  == "idle"
AfterStore(v) == IF v THEN "request" ELSE "idle"
SetEnabled(c) ==
  /\ call[c].at = "store"
  /\ enabled' = call[c].v
  /\ LET next == AfterStore(call[c].v) IN
     call' = [call EXCEPT ![c] = IF next = "idle" THEN Idle ELSE [@ EXCEPT !.at = next]]
  /\ UNCHANGED <<MainLoopState, loadReq, events>>

RequestDictLoad(c) ==
  /\ call[c].at = "request"
  /\ loadReq' = TRUE
  /\ call' = [call EXCEPT ![c] = Idle]
  /\ UNCHANGED <<MainLoopState, enabled, events>>

CallStep(c) ==
  ReadStatus(c) \/ ReadEnabled(c) \/ ReadIndex(c) \/ Reply(c) \/ SetEnabled(c) \/ RequestDictLoad(c)

-----------------------------------------------------------------------------
Handler == Boot \/ Spawn \/ Clear \/ StoreStatus \/ Dispatch \/ StoreToggle

Next ==
  \/ Handler \/ ReceiveRequest \/ ReceiveResult
  \/ \E s \in Settings : ApplySettings(s)
  \/ Shortcut
  \/ \E l \in loaders, ok \in BOOLEAN : FinishLoad(l, ok)
  \/ \E c \in Callers, op \in {"Enable", "Disable", "Toggle", "Status"} : Call(c, op)
  \/ \E c \in Callers : CallStep(c)

(* Goroutines keep running; a select case that is ready again and again is *)
(* taken (Go's select picks among the ready ones at random); a loader ends.*)
Fairness ==
  /\ WF_vars(Handler)
  /\ SF_vars(ReceiveRequest) /\ SF_vars(ReceiveResult)
  /\ WF_vars(\E l \in loaders, ok \in BOOLEAN : FinishLoad(l, ok))
  /\ \A c \in Callers : WF_vars(CallStep(c))

Spec == Init /\ [][Next]_vars /\ Fairness

-----------------------------------------------------------------------------
(* Properties.                                                             *)

TypeOK ==
  /\ settings \in Settings
  /\ loadGeneration \in Nat /\ loadKey \in DictKeys \cup {None} /\ hasLoadKey \in BOOLEAN
  /\ lookup \in DictKeys \cup {None} /\ index \in DictKeys \cup {None}
  /\ pc \in {"boot", "select", "spawn", "clear", "ready", "failed", "dispatch", "toggle"}
  /\ arg \in BOOLEAN /\ enabled \in BOOLEAN /\ loadReq \in BOOLEAN
  /\ dictStatus \in {"idle", "loading", "ready", "failed"}
  /\ dictCh \in Seq(Results) /\ Len(dictCh) <= DictChCap
  /\ loaders \in SUBSET Loads
  /\ call \in [Callers -> Calls] /\ events \in Nat

(* The dictionary words are looked up in while key events are handled is   *)
(* the configured one: no late result of a superseded load, no index of    *)
(* the old configuration ("late results from superseded generations are    *)
(* ignored", docs/architecture.md).                                        *)
LookupIsDesired == pc = "select" /\ lookup # None => lookup = settings.key

(* Between handlers the status other goroutines read agrees with what is   *)
(* attached.                                                               *)
StatusAgrees ==
  pc = "select" => /\ index = lookup
                   /\ dictStatus = "ready" <=> lookup # None

(* The loads, and the positions in the channel of the results, that belong *)
(* to the present generation.                                              *)
CurrentLoads   == { l \in loaders : l.gen = loadGeneration }
CurrentResults == { i \in DOMAIN dictCh : dictCh[i].gen = loadGeneration }

(* A dictionary reported as loading has exactly one load under way whose   *)
(* result will be accepted: the state "loading" is never a dead end, and   *)
(* no second result can follow the one that ends it.                       *)
OneCurrentLoad ==
  pc = "select" =>
    Cardinality(CurrentLoads) + Cardinality(CurrentResults) = IF dictStatus = "loading" THEN 1 ELSE 0

(* Enabled autocorrection ends up with a dictionary or a reported failure, *)
(* whichever of D-Bus, shortcut and reload enabled it and whatever they    *)
(* raced with.                                                             *)
EnabledGetsDictionary ==
  enabled ~> (~enabled \/ dictStatus \in {"ready", "failed"})

(* "Enabling autocorrection again retries a failed load"                   *)
(* (docs/architecture.md).                                                 *)
EnableRetries ==
  \A c \in Callers :
    (call[c].at = "store" /\ call[c].v /\ dictStatus = "failed") ~> (dictStatus # "failed")

(* The lifecycle implements the abstract dictionary.  While a reload is    *)
(* half applied the old dictionary counts as gone.                         *)
Reconfiguring == pc = "dispatch" /\ arg
Phase  == IF Reconfiguring THEN "idle" ELSE IF pc \in {"ready", "failed"} THEN pc ELSE dictStatus
Served == IF Reconfiguring \/ pc \in {"spawn", "clear"} THEN None ELSE lookup
D == INSTANCE Dictionary WITH want <- settings.key, phase <- Phase, served <- Served
ImplementsDictionary == D!DSpec

(* A status reply is one moment's state: a dictionary reported "ready" is  *)
(* there ("Status is a snapshot of the autocorrect subsystem", control.go).*)
StatusIsSnapshot ==
  \A c \in Callers : call[c].at = "reply" => (call[c].state = "ready" <=> call[c].ready)
=============================================================================
