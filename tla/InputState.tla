----------------------------- MODULE InputState -----------------------------
(***************************************************************************)
(* internal/inputstate: the tracker that merges the modifiers held on all  *)
(* monitored keyboards.  pressed[d] is the set of modifier keys down on    *)
(* device d, as its events told; counts[c] is the number of pressed keys   *)
(* of class c over all devices, kept up to date incrementally so that a    *)
(* release on one keyboard does not clear a modifier held on another.      *)
(***************************************************************************)
EXTENDS Integers, FiniteSets, Keymap

CONSTANT Devices

ASSUME DevicesAssumption == IsFiniteSet(Devices)

VARIABLES pressed, counts, caps

trackerVars == <<pressed, counts, caps>>

TrackerInit(led) ==
  /\ pressed = [d \in Devices |-> {}]
  /\ counts  = [c \in ModifierClasses |-> 0]
  /\ caps    = led

(* The effective modifiers: a class is held while its count is positive. *)
Held == { c \in ModifierClasses : counts[c] > 0 }

(* One raw event.  Repeats (value 2) and events that repeat what is already *)
(* known change nothing.                                                   *)
KeyDown(d, key) == pressed' = [pressed EXCEPT ![d] = @ \cup {key}]
KeyUpWholeClass(d, key) ==
  pressed' = [pressed EXCEPT ![d] = { k \in @ : ModifierClass[k] # ModifierClass[key] }]
KeyUp(d, key)   == pressed' = [pressed EXCEPT ![d] = @ \ {key}]
Count(c, n)     == counts'  = [counts EXCEPT ![c] = n]

Changes(d, key, value) ==
  /\ key \in ModifierKeys
  /\ value # 2
  /\ (key \in pressed[d]) # (value = 1)

CapsKey(key, value) == caps' = (caps # (key = "KEY_CAPSLOCK" /\ value = 1))

Track(d, key, value) ==
  /\ CapsKey(key, value)
  /\ IF Changes(d, key, value)
     THEN LET c == ModifierClass[key] IN
          IF value = 1
          THEN KeyDown(d, key) /\ Count(c, counts[c] + 1)
          ELSE KeyUp(d, key)   /\ Count(c, IF counts[c] > 0 THEN counts[c] - 1 ELSE 0)
     ELSE UNCHANGED <<pressed, counts>>

(* A disconnected device gives back everything it held. *)
HeldOn(d, c) == Cardinality({ k \in pressed[d] : ModifierClass[k] = c })
ForgetKeysOnly(d) == pressed' = [pressed EXCEPT ![d] = {}] /\ UNCHANGED counts
ForgetDevice(d) ==
  /\ pressed' = [pressed EXCEPT ![d] = {}]
  /\ counts'  = [c \in ModifierClasses |->
                   IF counts[c] >= HeldOn(d, c) THEN counts[c] - HeldOn(d, c) ELSE 0]

(* Remove followed by SetCaps, as the main loop calls them. *)
RemoveDevice(d, led) == ForgetDevice(d) /\ caps' = led

ResetTracker(led) ==
  /\ pressed' = [d \in Devices |-> {}]
  /\ counts'  = [c \in ModifierClasses |-> 0]
  /\ caps'    = led

(* The tracker on its own, driven by any sequence of calls. *)
InputInit == \E led \in BOOLEAN : TrackerInit(led)
InputNext ==
  \/ \E d \in Devices, key \in Keys, value \in 0..2 : Track(d, key, value)
  \/ \E d \in Devices, led \in BOOLEAN : RemoveDevice(d, led)
  \/ \E led \in BOOLEAN : ResetTracker(led)
InputSpec == InputInit /\ [][InputNext]_trackerVars

TrackerTypeOK ==
  /\ pressed \in [Devices -> SUBSET ModifierKeys]
  /\ counts  \in [ModifierClasses -> Nat]
  /\ caps    \in BOOLEAN

(* The pressed keys of class c, over all devices. *)
PressedOf(c) == { dk \in Devices \X ModifierKeys :
                    dk[2] \in pressed[dk[1]] /\ ModifierClass[dk[2]] = c }

(* A class's count is the number of its keys that are down anywhere: the   *)
(* counter never drifts from the sets it summarises.                       *)
CountsArePressedKeys == \A c \in ModifierClasses : counts[c] = Cardinality(PressedOf(c))

(* What the corrector and the expander are told is held is what some       *)
(* keyboard holds: neither a modifier stuck after its release nor one lost *)
(* because another keyboard let go of the same modifier.                   *)
HeldIsPressed ==
  Held = { ModifierClass[k] : k \in UNION { pressed[d] : d \in Devices } }
=============================================================================
