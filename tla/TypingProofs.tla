---------------------------- MODULE TypingProofs ----------------------------
(***************************************************************************)
(* Proofs about the key path, for any finite set of keyboards, any keys,   *)
(* words, triggers, settings and bounds.                                   *)
(*                                                                         *)
(* First the modifiers.  The argument is that of HotplugProofs without the *)
(* handles: of every modifier the last event on its way to the loop says   *)
(* where the key is now, and with none on its way the tracker says so -    *)
(* unless a rescan has made it forget the key (blind).                     *)
(***************************************************************************)
EXTENDS Typing, InputStateProofs

KeyEvents == [dev : Devices, key : Keys, value : 0..2]

KeyboardsTyped ==
  /\ plugged \subseteq Devices /\ monitored \subseteq Devices
  /\ down \in [Devices -> SUBSET ModifierKeys] /\ led \in BOOLEAN
  /\ blind \in [Devices -> SUBSET ModifierKeys]
  /\ heldKey \in RepeatKeys \cup {NoKey}
  /\ ch \in Seq(KeyEvents)

Tells(e, d, k) == e.dev = d /\ e.key = k
Holds(q, d, k) == \E i \in DOMAIN q : Tells(q[i], d, k)
LastTells(q, d, k, value) ==
  \A i \in DOMAIN q :
    Tells(q[i], d, k) /\ (\A j \in DOMAIN q : j > i => ~Tells(q[j], d, k)) => q[i].value = value

Position(d, k) == IF k \in down[d] THEN 1 ELSE 0
KeyAgrees(d, k) ==
  /\ LastTells(ch, d, k, Position(d, k))
  /\ ~Holds(ch, d, k) => (k \in pressed[d] <=> k \in down[d] \ blind[d])

KeysAgree == \A d \in plugged : \A k \in ModifierKeys : KeyAgrees(d, k)

(* A keyboard that is gone holds nothing down and has nothing on its way;  *)
(* one that is not read yet has told the tracker nothing either.           *)
AwayIsSilent ==
  \A d \in Devices :
    /\ d \notin plugged \cap monitored => down[d] = {} /\ \A i \in DOMAIN ch : ch[i].dev # d
    /\ d \notin monitored => pressed[d] = {}

ModifiersInv == TrackerTypeOK /\ KeyboardsTyped /\ KeysAgree /\ AwayIsSilent
-----------------------------------------------------------------------------
(* Sequences of key events.                                                *)

LEMMA EmptyTells ==
  ASSUME NEW d, NEW k, NEW value
  PROVE  ~Holds(<<>>, d, k) /\ LastTells(<<>>, d, k, value)
BY DEF Holds, LastTells

LEMMA AppendTells ==
  ASSUME NEW q \in Seq(KeyEvents), NEW e \in KeyEvents, NEW d, NEW k, NEW value
  PROVE  /\ Holds(Append(q, e), d, k) <=> Holds(q, d, k) \/ Tells(e, d, k)
         /\ Tells(e, d, k) /\ e.value = value => LastTells(Append(q, e), d, k, value)
         /\ ~Tells(e, d, k) /\ LastTells(q, d, k, value) => LastTells(Append(q, e), d, k, value)
<1> DEFINE a == Append(q, e)
<1>1. /\ DOMAIN q = 1..Len(q) /\ DOMAIN a = 1..(Len(q) + 1) /\ Len(q) \in Nat
      /\ \A i \in DOMAIN q : a[i] = q[i]
      /\ a[Len(q) + 1] = e
  OBVIOUS
<1> HIDE DEF a
<1>2. Holds(a, d, k) <=> Holds(q, d, k) \/ Tells(e, d, k)
  <2>1. \A i \in DOMAIN a : i \in DOMAIN q \/ i = Len(q) + 1
    BY <1>1
  <2>2. DOMAIN q \subseteq DOMAIN a /\ Len(q) + 1 \in DOMAIN a
    BY <1>1
  <2> QED
    BY <1>1, <2>1, <2>2 DEF Holds
<1>3. ASSUME Tells(e, d, k), e.value = value
      PROVE  LastTells(a, d, k, value)
  BY <1>1, <1>3 DEF LastTells
<1>4. ASSUME ~Tells(e, d, k), LastTells(q, d, k, value)
      PROVE  LastTells(a, d, k, value)
  BY <1>1, <1>4 DEF LastTells
<1> QED
  BY <1>2, <1>3, <1>4 DEF a

LEMMA TailTells ==
  ASSUME NEW q \in Seq(KeyEvents), q # <<>>, NEW d, NEW k, NEW value
  PROVE  /\ Holds(q, d, k) <=> Tells(Head(q), d, k) \/ Holds(Tail(q), d, k)
         /\ LastTells(q, d, k, value) => LastTells(Tail(q), d, k, value)
         /\ LastTells(q, d, k, value) /\ ~Holds(Tail(q), d, k) /\ Tells(Head(q), d, k)
              => Head(q).value = value
<1> DEFINE t == Tail(q)
<1>1. /\ DOMAIN q = 1..Len(q) /\ Len(q) \in Nat \ {0} /\ DOMAIN t = 1..(Len(q) - 1)
      /\ \A i \in DOMAIN t : t[i] = q[i + 1]
      /\ Head(q) = q[1]
  OBVIOUS
<1> HIDE DEF t
<1>2. \A i \in DOMAIN q : i = 1 \/ (i - 1 \in DOMAIN t /\ q[i] = t[i - 1])
  BY <1>1
<1>3. \A i \in DOMAIN t : i + 1 \in DOMAIN q /\ t[i] = q[i + 1]
  BY <1>1
<1>4. Holds(q, d, k) <=> Tells(q[1], d, k) \/ Holds(t, d, k)
  BY <1>1, <1>2, <1>3 DEF Holds
<1>5. ASSUME LastTells(q, d, k, value)
      PROVE  LastTells(t, d, k, value)
  <2> SUFFICES ASSUME NEW i \in DOMAIN t, Tells(t[i], d, k), \A j \in DOMAIN t : j > i => ~Tells(t[j], d, k)
               PROVE  t[i].value = value
    BY DEF LastTells
  <2>1. \A j \in DOMAIN q : j > i + 1 => ~Tells(q[j], d, k)
    BY <1>1, <1>2
  <2> QED
    BY <1>1, <1>3, <1>5, <2>1 DEF LastTells
<1>6. ASSUME LastTells(q, d, k, value), ~Holds(t, d, k), Tells(q[1], d, k)
      PROVE  q[1].value = value
  BY <1>1, <1>2, <1>6 DEF LastTells, Holds
<1> QED
  BY <1>1, <1>4, <1>5, <1>6 DEF t

-----------------------------------------------------------------------------
(* The steps that concern the keyboards or the tracker.                    *)

Quiet == UNCHANGED <<trackerVars, down, led, heldKey, ch, plugged, monitored, forgetVars>>

(* Keyboards that come and go.                                             *)
Hotplugging == RefreshKeyboards \/ \E d \in Devices : Unplug(d) \/ PlugIn(d) \/ KeyboardDone(d)

LEMMA LoopIsQuiet == Loop => Quiet \/ ReadEvent
<1> SUFFICES ASSUME Loop, ~ReadEvent PROVE Quiet
  OBVIOUS
<1> USE DEF Quiet, trackerVars, screenVars, hotplugVars, histVars, forgetVars
<1>1. CASE RunExpander
  BY <1>1 DEF RunExpander
<1>2. CASE ApplyExpansion
  BY <1>2 DEF ApplyExpansion
<1>3. CASE RunCorrector
  BY <1>3 DEF RunCorrector
<1>4. CASE ActOnExpansion \/ ActOnToggle \/ ApplyPlan \/ FailPlan \/ ActOnNothing
  <2>1. Finish
    BY <1>4 DEF ActOnExpansion, ActOnToggle, ApplyPlan, FailPlan, ActOnNothing
  <2> QED
    BY <2>1 DEF Finish
<1> QED
  BY <1>1, <1>2, <1>3, <1>4 DEF Loop

LEMMA StepKinds == [Next]_vars => Quiet \/ ReadEvent \/ User \/ Hotplugging
<1> SUFFICES ASSUME [Next]_vars, ~ReadEvent, ~User, ~Hotplugging PROVE Quiet
  OBVIOUS
<1> USE DEF Quiet, trackerVars, screenVars, hotplugVars, loopVars, histVars, forgetVars
<1>1. CASE \E v \in BOOLEAN : DBusSetEnabled(v)
  BY <1>1 DEF DBusSetEnabled
<1>2. CASE \E app \in Apps : ActiveWindow(app)
  BY <1>2 DEF ActiveWindow
<1>3. CASE SetLookup
  BY <1>3 DEF SetLookup
<1>4. CASE \E setup \in Setups : ReloadConfig(setup)
  BY <1>4 DEF ReloadConfig
<1>5. CASE UNCHANGED vars
  BY <1>5 DEF vars
<1>6. CASE Loop
  BY <1>6, LoopIsQuiet
<1> QED
  BY <1>1, <1>2, <1>3, <1>4, <1>5, <1>6 DEF Next, Disturbance, Hotplugging

(* What the user does puts one event on the channel; a modifier moves, or  *)
(* no modifier does.                                                       *)
UserSends(d, key, value) ==
  /\ d \in plugged \cap monitored
  /\ Queue(d, key, value)
  /\ UNCHANGED <<trackerVars, plugged, monitored, forgetVars>>

MovesModifier(d, key, value) ==
  /\ key \in HeldKeys
  /\ \/ value = 1 /\ down' = [down EXCEPT ![d] = @ \cup {key}]
     \/ value = 0 /\ down' = [down EXCEPT ![d] = @ \ {key}]
  /\ UNCHANGED <<led, heldKey>>

MovesText(key, value) ==
  /\ key \in TypedKeys
  /\ UNCHANGED down
  /\ heldKey' \in RepeatKeys \cup {NoKey}
  /\ led' \in BOOLEAN
  /\ led' # led <=> key = "KEY_CAPSLOCK" /\ value = 1
  /\ value = 2 => heldKey # NoKey

LEMMA TextKeysFacts ==
  /\ TypedKeys \subseteq Keys /\ RepeatKeys \subseteq TypedKeys /\ HeldKeys \subseteq ModifierKeys
  /\ ModifierKeys \subseteq Keys
  /\ \A key \in TypedKeys : key \notin ModifierKeys /\ key # NoKey
<1>1. TextKeys = { "KEY_Z", "KEY_O", "KEY_1", "KEY_DOT", "KEY_LEFTBRACE", "KEY_SPACE",
                   "KEY_ENTER", "KEY_BACKSPACE", "KEY_LEFT", "KEY_CAPSLOCK", "KEY_KP1" }
  BY DEF TextKeys, PrintingKeys, Chars, OtherKeys
<1>2. \A key \in TextKeys : key \notin ModifierKeys /\ key # NoKey
  BY <1>1, ModifierTable DEF NoKey
<1> QED
  BY <1>2, TypingAssumption DEF Keys

LEMMA UserMoves ==
  ASSUME KeyboardsTyped, AwayIsSilent, User
  PROVE  \E d \in Devices, key \in Keys, value \in 0..2 :
           /\ UserSends(d, key, value)
           /\ MovesModifier(d, key, value) \/ MovesText(key, value)
<1> USE DEF UserSends, Elsewhere, hotplugVars, histVars
<1>1. ASSUME NEW d \in Devices, NEW key \in HeldKeys, PressModifier(d, key)
      PROVE  UserSends(d, key, 1) /\ MovesModifier(d, key, 1)
  BY <1>1, TextKeysFacts DEF PressModifier, MovesModifier
<1>2. ASSUME NEW d \in Devices, NEW key \in HeldKeys, ReleaseModifier(d, key)
      PROVE  UserSends(d, key, 0) /\ MovesModifier(d, key, 0)
  BY <1>2, TextKeysFacts DEF ReleaseModifier, MovesModifier, AwayIsSilent
<1>3. ASSUME NEW d \in Devices, NEW key \in TypedKeys, PressKey(d, key)
      PROVE  UserSends(d, key, 1) /\ MovesText(key, 1)
  BY <1>3 DEF PressKey, MovesText, KeyboardsTyped
<1>4. ASSUME NEW d \in Devices, RepeatKey(d)
      PROVE  UserSends(d, heldKey, 2) /\ MovesText(heldKey, 2)
  BY <1>4, TextKeysFacts DEF RepeatKey, MovesText, KeyboardsTyped
<1>5. ASSUME NEW d \in Devices, ReleaseKey(d)
      PROVE  UserSends(d, heldKey, 0) /\ MovesText(heldKey, 0)
  BY <1>5, TextKeysFacts DEF ReleaseKey, MovesText, KeyboardsTyped
<1>6. \A key \in TypedKeys \cup HeldKeys : key \in Keys
  BY TextKeysFacts
<1> HIDE DEF UserSends
<1>7. ASSUME NEW d \in Devices, RepeatKey(d) \/ ReleaseKey(d)
      PROVE  heldKey \in TypedKeys
  BY <1>4, <1>5, <1>7 DEF MovesText
<1> QED
  BY <1>1, <1>2, <1>3, <1>4, <1>5, <1>6, <1>7 DEF User

-----------------------------------------------------------------------------
(* The types, and the tracker's steps.                                     *)

LEMMA TypingInitTyped == Init => InputInit /\ TrackerTypeOK /\ KeyboardsTyped
<1> SUFFICES ASSUME Init PROVE InputInit /\ TrackerTypeOK /\ KeyboardsTyped
  OBVIOUS
<1>1. InputInit
  BY DEF Init, InputInit
<1>2. /\ plugged = Devices /\ monitored = Devices /\ down = [d \in Devices |-> {}]
      /\ led = FALSE /\ heldKey = NoKey /\ ch = <<>> /\ blind = [d \in Devices |-> {}]
  BY DEF Init
<1>3. <<>> \in Seq(KeyEvents) /\ [d \in Devices |-> {}] \in [Devices -> SUBSET ModifierKeys]
  OBVIOUS
<1> QED
  BY <1>1, <1>2, <1>3, InitTyped DEF KeyboardsTyped

LEMMA TypingStepTyped ==
  TrackerTypeOK /\ KeyboardsTyped /\ AwayIsSilent /\ [Next]_vars
    => KeyboardsTyped' /\ [InputNext]_trackerVars
<1> SUFFICES ASSUME TrackerTypeOK, KeyboardsTyped, AwayIsSilent, [Next]_vars
             PROVE  KeyboardsTyped' /\ [InputNext]_trackerVars
  OBVIOUS
<1>1. CASE Quiet
  BY <1>1 DEF Quiet, forgetVars, KeyboardsTyped
<1>2. CASE ReadEvent
  <2> DEFINE e == Head(ch)
  <2>1. e \in KeyEvents /\ Tail(ch) \in Seq(KeyEvents)
    BY <1>2 DEF KeyboardsTyped, ReadEvent
  <2>2. e.dev \in Devices /\ e.key \in Keys /\ e.value \in 0..2
    BY <2>1 DEF KeyEvents
  <2>3. Track(e.dev, e.key, e.value) \/ UNCHANGED trackerVars
    BY <1>2 DEF ReadEvent
  <2>5. blind' \in [Devices -> SUBSET ModifierKeys]
    BY <1>2 DEF ReadEvent, Told, forgetVars, KeyboardsTyped
  <2>4. KeyboardsTyped'
    BY <1>2, <2>1, <2>5 DEF ReadEvent, KeyboardsTyped, screenVars, hotplugVars
  <2> HIDE DEF e
  <2> QED
    BY <2>2, <2>3, <2>4 DEF InputNext
<1>3. CASE User
  <2>1. PICK d \in Devices, key \in Keys, value \in 0..2 :
          /\ UserSends(d, key, value)
          /\ MovesModifier(d, key, value) \/ MovesText(key, value)
    BY <1>3, UserMoves
  <2>2. ch' \in Seq(KeyEvents)
    BY <2>1 DEF UserSends, Queue, KeyEvents, KeyboardsTyped
  <2>3. down' \in [Devices -> SUBSET ModifierKeys]
    BY <2>1, TextKeysFacts DEF MovesModifier, MovesText, KeyboardsTyped
  <2>4. led' \in BOOLEAN /\ heldKey' \in RepeatKeys \cup {NoKey}
    BY <2>1 DEF MovesModifier, MovesText, KeyboardsTyped
  <2> QED
    BY <2>1, <2>2, <2>3, <2>4 DEF UserSends, forgetVars, KeyboardsTyped
<1>4. CASE Hotplugging
  <2> USE DEF KeyboardsTyped, loopVars, screenVars, histVars, forgetVars
  <2>1. \A hs : CapsLockOn(hs) \in BOOLEAN
    BY DEF CapsLockOn
  <2>2. ASSUME NEW d \in Devices, Unplug(d) PROVE KeyboardsTyped' /\ UNCHANGED trackerVars
    BY <2>2 DEF Unplug
  <2>3. ASSUME NEW d \in Devices, PlugIn(d) PROVE KeyboardsTyped' /\ UNCHANGED trackerVars
    BY <2>3 DEF PlugIn
  <2>4. ASSUME NEW d \in Devices, KeyboardDone(d) PROVE KeyboardsTyped' /\ InputNext
    BY <2>1, <2>4 DEF KeyboardDone, InputNext
  <2>5. ASSUME RefreshKeyboards, TrackerTypeOK PROVE KeyboardsTyped' /\ InputNext
    <3>1. blind' \in [Devices -> SUBSET ModifierKeys]
      BY <2>5 DEF RefreshKeyboards, ForgetHeld, TrackerTypeOK
    <3> QED
      BY <2>1, <2>5, <3>1 DEF RefreshKeyboards, InputNext
  <2> QED
    BY <1>4, <2>2, <2>3, <2>4, <2>5 DEF Hotplugging
<1> QED
  BY <1>1, <1>2, <1>3, <1>4, StepKinds

-----------------------------------------------------------------------------
(* The agreement of keyboards, channel and tracker.                        *)

LEMMA ModifiersInit == Init => ModifiersInv
<1> SUFFICES ASSUME Init PROVE ModifiersInv
  OBVIOUS
<1>1. /\ ch = <<>> /\ plugged = Devices /\ monitored = Devices
      /\ \A d \in Devices : down[d] = {} /\ pressed[d] = {} /\ blind[d] = {}
  BY DEF Init, TrackerInit
<1>2. \A d, k, value : ~Holds(ch, d, k) /\ LastTells(ch, d, k, value)
  BY <1>1, EmptyTells
<1>3. KeysAgree
  BY <1>1, <1>2 DEF KeysAgree, KeyAgrees
<1>4. AwayIsSilent
  BY <1>1 DEF AwayIsSilent
<1> QED
  BY <1>3, <1>4, TypingInitTyped DEF ModifiersInv

(* What one event does to the pressed keys of a keyboard.                  *)
LEMMA TrackPresses ==
  ASSUME TrackerTypeOK, NEW d \in Devices, NEW key, NEW value \in 0..2, Track(d, key, value),
         NEW p \in Devices, NEW k \in ModifierKeys
  PROVE  /\ p # d \/ k # key \/ value = 2 => (k \in pressed'[p] <=> k \in pressed[p])
         /\ p = d /\ k = key /\ value # 2 => (k \in pressed'[p] <=> value = 1)
<1>1. CASE Changes(d, key, value) /\ value = 1
  BY <1>1 DEF Track, TrackerTypeOK, KeyDown, Changes
<1>2. CASE Changes(d, key, value) /\ value # 1
  BY <1>2 DEF Track, TrackerTypeOK, KeyUp, Changes
<1>3. CASE ~Changes(d, key, value)
  BY <1>3 DEF Track, Changes
<1> QED
  BY <1>1, <1>2, <1>3

LEMMA ReadKeepsAgreement ==
  ASSUME ModifiersInv, ReadEvent
  PROVE  KeysAgree' /\ AwayIsSilent'
<1> DEFINE e == Head(ch)
           q == Tail(ch)
<1>1. /\ ch \in Seq(KeyEvents) /\ ch # <<>> /\ ch' = q
      /\ UNCHANGED <<down, plugged, monitored>>
      /\ plugged \subseteq Devices
  BY DEF ReadEvent, screenVars, hotplugVars, ModifiersInv, KeyboardsTyped
<1>2. e \in KeyEvents /\ e.dev \in Devices /\ e.value \in 0..2
  <2>1. e \in KeyEvents
    BY <1>1
  <2> HIDE DEF e
  <2> QED
    BY <2>1 DEF KeyEvents
<1>3. \A d, k, value :
        /\ Holds(ch, d, k) <=> Tells(e, d, k) \/ Holds(q, d, k)
        /\ LastTells(ch, d, k, value) => LastTells(q, d, k, value)
        /\ LastTells(ch, d, k, value) /\ ~Holds(q, d, k) /\ Tells(e, d, k) => e.value = value
  BY <1>1, TailTells
<1>4. /\ \A i \in DOMAIN q : i + 1 \in DOMAIN ch /\ q[i] = ch[i + 1]
      /\ 1 \in DOMAIN ch /\ e = ch[1]
  BY <1>1
<1>5. e.dev \in plugged \cap monitored
  BY <1>2, <1>4 DEF ModifiersInv, AwayIsSilent
<1>6. KeysAgree' /\ AwayIsSilent'
  <2>1. Track(e.dev, e.key, e.value) /\ Told(e)
    BY <1>5 DEF ReadEvent
  <2>5. /\ blind \in [Devices -> SUBSET ModifierKeys]
        /\ blind' = (IF e.value = 2 THEN blind ELSE [blind EXCEPT ![e.dev] = @ \ {e.key}])
    BY <2>1 DEF Told, ModifiersInv, KeyboardsTyped
  <2>2. \A p \in Devices : \A k \in ModifierKeys :
          /\ p # e.dev \/ k # e.key \/ e.value = 2 => (k \in pressed'[p] <=> k \in pressed[p])
          /\ p = e.dev /\ k = e.key /\ e.value # 2 => (k \in pressed'[p] <=> e.value = 1)
    BY <1>2, <2>1, TrackPresses DEF ModifiersInv
  <2> HIDE DEF e, q
  <2>3. ASSUME NEW d \in plugged, NEW k \in ModifierKeys
        PROVE  KeyAgrees(d, k)'
    <3>1. d \in Devices /\ KeyAgrees(d, k) /\ Position(d, k)' = Position(d, k) /\ Position(d, k) \in {0, 1}
      BY <1>1 DEF ModifiersInv, KeysAgree, Position
    <3>2. LastTells(q, d, k, Position(d, k))
      BY <1>3, <3>1 DEF KeyAgrees
    <3>3. ASSUME ~Holds(q, d, k)
          PROVE  k \in pressed'[d] <=> k \in down[d] \ blind'[d]
      <4>1. CASE Tells(e, d, k)
        <5>1. e.value = Position(d, k)
          BY <1>3, <3>1, <3>3, <4>1 DEF KeyAgrees
        <5>2. k \notin blind'[d]
          BY <1>2, <2>5, <3>1, <4>1, <5>1 DEF Tells
        <5> QED
          BY <2>2, <3>1, <4>1, <5>1, <5>2 DEF Tells, Position
      <4>2. CASE ~Tells(e, d, k)
        <5>1. k \in blind'[d] <=> k \in blind[d]
          BY <1>2, <2>5, <3>1, <4>2 DEF Tells
        <5> QED
          BY <1>3, <2>2, <3>1, <3>3, <4>2, <5>1 DEF KeyAgrees, Tells
      <4> QED
        BY <4>1, <4>2
    <3> QED
      BY <1>1, <3>1, <3>2, <3>3 DEF KeyAgrees
  <2>4. ASSUME NEW d \in Devices, d \notin monitored
        PROVE  pressed'[d] = {}
    <3>1. \A k \in ModifierKeys : k \notin pressed'[d]
      BY <1>5, <2>2, <2>4 DEF ModifiersInv, AwayIsSilent
    <3>2. pressed'[d] \subseteq ModifierKeys
      <4>1. [InputNext]_trackerVars
        BY <1>2, <2>1 DEF InputNext, KeyEvents
      <4>2. TrackerTypeOK'
        BY <4>1, StepTyped DEF ModifiersInv
      <4> QED
        BY <4>2 DEF TrackerTypeOK
    <3> QED
      BY <3>1, <3>2
  <2> QED
    BY <1>1, <1>4, <2>3, <2>4 DEF KeysAgree, AwayIsSilent, ModifiersInv
<1> QED
  BY <1>6

LEMMA UserKeepsAgreement ==
  ASSUME ModifiersInv, User
  PROVE  KeysAgree' /\ AwayIsSilent'
<1>1. PICK d \in Devices, key \in Keys, value \in 0..2 :
        /\ UserSends(d, key, value)
        /\ MovesModifier(d, key, value) \/ MovesText(key, value)
  BY UserMoves DEF ModifiersInv
<1> DEFINE e == [dev |-> d, key |-> key, value |-> value]
<1>2. /\ e \in KeyEvents /\ ch \in Seq(KeyEvents) /\ ch' = Append(ch, e)
      /\ d \in plugged \cap monitored /\ plugged \subseteq Devices
      /\ UNCHANGED <<pressed, plugged, monitored, blind>>
      /\ e.dev = d /\ e.key = key /\ e.value = value
  BY <1>1 DEF UserSends, Queue, KeyEvents, trackerVars, forgetVars, ModifiersInv, KeyboardsTyped
<1> HIDE DEF e
<1>3. \A p, k, v :
        /\ Holds(ch', p, k) <=> Holds(ch, p, k) \/ Tells(e, p, k)
        /\ Tells(e, p, k) /\ e.value = v => LastTells(ch', p, k, v)
        /\ ~Tells(e, p, k) /\ LastTells(ch, p, k, v) => LastTells(ch', p, k, v)
  BY <1>2, AppendTells
<1>4. ASSUME NEW p \in Devices, NEW k \in ModifierKeys
      PROVE  /\ ~Tells(e, p, k) => (k \in down'[p] <=> k \in down[p])
             /\ Tells(e, p, k) => (k \in down'[p] <=> value = 1) /\ value \in {0, 1}
  <2>1. CASE MovesModifier(d, key, value)
    BY <1>2, <2>1, TextKeysFacts DEF MovesModifier, Tells, ModifiersInv, KeyboardsTyped
  <2>2. CASE MovesText(key, value)
    BY <1>2, <2>2, TextKeysFacts DEF MovesText, Tells
  <2> QED
    BY <1>1, <2>1, <2>2
<1>5. ASSUME NEW p \in plugged, NEW k \in ModifierKeys
      PROVE  KeyAgrees(p, k)'
  <2>1. p \in Devices /\ KeyAgrees(p, k)
    BY <1>2 DEF ModifiersInv, KeysAgree
  <2>2. CASE Tells(e, p, k)
    <3>1. Position(p, k)' = value /\ Holds(ch', p, k)
      BY <1>3, <1>4, <2>1, <2>2 DEF Position
    <3> QED
      BY <1>2, <1>3, <2>2, <3>1 DEF KeyAgrees
  <2>3. CASE ~Tells(e, p, k)
    <3>1. Position(p, k)' = Position(p, k)
      BY <1>4, <2>1, <2>3 DEF Position
    <3> QED
      BY <1>2, <1>3, <1>4, <2>1, <2>3, <3>1 DEF KeyAgrees
  <2> QED
    BY <2>2, <2>3
<1>6. AwayIsSilent'
  <2> SUFFICES ASSUME NEW p \in Devices
               PROVE  /\ p \notin plugged \cap monitored =>
                           down'[p] = {} /\ \A i \in DOMAIN ch' : ch'[i].dev # p
                      /\ p \notin monitored => pressed'[p] = {}
    BY <1>2 DEF AwayIsSilent
  <2>1. p \notin plugged \cap monitored => p # d /\ down'[p] = down[p]
    BY <1>1, <1>2 DEF MovesModifier, MovesText, ModifiersInv, KeyboardsTyped
  <2>2. \A i \in DOMAIN ch' : (i \in DOMAIN ch /\ ch'[i] = ch[i]) \/ ch'[i].dev = d
    <3>1. \A i \in DOMAIN ch' : (i \in DOMAIN ch /\ ch'[i] = ch[i]) \/ ch'[i] = e
      BY <1>2
    <3> QED
      BY <1>2, <3>1
  <2> QED
    BY <1>2, <2>1, <2>2 DEF ModifiersInv, AwayIsSilent
<1> QED
  BY <1>2, <1>5, <1>6 DEF KeysAgree

LEMMA HotplugKeepsAgreement ==
  ASSUME ModifiersInv, Hotplugging
  PROVE  KeysAgree' /\ AwayIsSilent'
<1> USE DEF loopVars, screenVars, trackerVars, histVars, forgetVars
<1>1. /\ ch' = ch /\ plugged \subseteq Devices
      /\ down \in [Devices -> SUBSET ModifierKeys] /\ pressed \in [Devices -> SUBSET ModifierKeys]
      /\ blind \in [Devices -> SUBSET ModifierKeys]
  <2>1. ch' = ch
    BY DEF Hotplugging, Unplug, PlugIn, KeyboardDone, RefreshKeyboards
  <2> QED
    BY <2>1 DEF ModifiersInv, KeyboardsTyped, TrackerTypeOK
<1>2. ASSUME NEW d \in Devices, Unplug(d) PROVE KeysAgree' /\ AwayIsSilent'
  <2>1. /\ ch = <<>> /\ plugged' = plugged \ {d} /\ down' = [down EXCEPT ![d] = {}]
        /\ blind' = [blind EXCEPT ![d] = {}]
        /\ UNCHANGED <<pressed, monitored>>
    BY <1>2 DEF Unplug
  <2>2. \A p \in plugged' : p \in plugged /\ p \in Devices /\ down'[p] = down[p] /\ blind'[p] = blind[p]
    BY <1>1, <2>1
  <2>3. KeysAgree'
    BY <1>1, <2>1, <2>2 DEF ModifiersInv, KeysAgree, KeyAgrees, Position
  <2>4. \A p \in Devices : down'[p] = IF p = d THEN {} ELSE down[p]
    BY <1>1, <2>1
  <2>5. AwayIsSilent'
    <3> SUFFICES ASSUME NEW p \in Devices
                 PROVE  /\ p \notin plugged' \cap monitored' =>
                             down'[p] = {} /\ \A i \in DOMAIN ch' : ch'[i].dev # p
                        /\ p \notin monitored' => pressed'[p] = {}
      BY DEF AwayIsSilent
    <3>1. \A i \in DOMAIN ch' : FALSE
      BY <1>1, <2>1
    <3>2. p \notin plugged' \cap monitored' => p = d \/ p \notin plugged \cap monitored
      BY <2>1
    <3>3. /\ p \notin plugged \cap monitored => down[p] = {}
          /\ p \notin monitored => pressed[p] = {}
      BY DEF ModifiersInv, AwayIsSilent
    <3>4. pressed' = pressed /\ monitored' = monitored /\ (p = d => down'[p] = {}) /\ (p # d => down'[p] = down[p])
      BY <2>1, <2>4
    <3> QED
      BY <3>1, <3>2, <3>3, <3>4
  <2> QED
    BY <2>3, <2>5
<1>3. ASSUME NEW d \in Devices, PlugIn(d) PROVE KeysAgree' /\ AwayIsSilent'
  <2>1. /\ plugged' = plugged \cup {d} /\ d \notin plugged \cup monitored
        /\ UNCHANGED <<pressed, down, monitored, blind>>
    BY <1>3 DEF PlugIn
  <2>2. \A k \in ModifierKeys : KeyAgrees(d, k)
    BY <2>1 DEF KeyAgrees, LastTells, Holds, Tells, ModifiersInv, AwayIsSilent
  <2> QED
    BY <1>1, <2>1, <2>2 DEF ModifiersInv, KeysAgree, KeyAgrees, Position, AwayIsSilent
<1>4. ASSUME NEW d \in Devices, KeyboardDone(d) PROVE KeysAgree' /\ AwayIsSilent'
  <2>1. /\ pressed' = [pressed EXCEPT ![d] = {}] /\ monitored' = monitored \ {d} /\ d \notin plugged
        /\ UNCHANGED <<down, plugged, blind>>
    BY <1>4 DEF KeyboardDone, RemoveDevice, ForgetDevice
  <2>2. \A p \in Devices : pressed'[p] = IF p = d THEN {} ELSE pressed[p]
    BY <1>1, <2>1
  <2> QED
    BY <1>1, <2>1, <2>2 DEF ModifiersInv, KeysAgree, KeyAgrees, Position, AwayIsSilent
<1>5. ASSUME RefreshKeyboards PROVE KeysAgree' /\ AwayIsSilent'
  <2>1. /\ pressed' = [d \in Devices |-> {}] /\ monitored' = plugged
        /\ \A d \in plugged : blind'[d] = blind[d] \cup pressed[d]
        /\ UNCHANGED <<down, plugged>>
    BY <1>1, <1>5 DEF RefreshKeyboards, ResetTracker, ForgetHeld
  <2>2. ASSUME NEW d \in plugged, NEW k \in ModifierKeys PROVE KeyAgrees(d, k)'
    <3>1. KeyAgrees(d, k) /\ pressed'[d] = {} /\ blind'[d] = blind[d] \cup pressed[d]
      BY <1>1, <2>1 DEF ModifiersInv, KeysAgree
    <3> QED
      BY <1>1, <2>1, <3>1 DEF KeyAgrees, Position
  <2> QED
    BY <1>1, <2>1, <2>2 DEF ModifiersInv, KeysAgree, AwayIsSilent
<1> QED
  BY <1>2, <1>3, <1>4, <1>5 DEF Hotplugging

LEMMA ModifiersStep == ModifiersInv /\ [Next]_vars => ModifiersInv' /\ [InputNext]_trackerVars
<1> SUFFICES ASSUME ModifiersInv, [Next]_vars PROVE ModifiersInv' /\ [InputNext]_trackerVars
  OBVIOUS
<1>1. KeyboardsTyped' /\ [InputNext]_trackerVars
  BY TypingStepTyped DEF ModifiersInv
<1>2. TrackerTypeOK'
  BY <1>1, StepTyped DEF ModifiersInv
<1>3. ASSUME Quiet PROVE KeysAgree' /\ AwayIsSilent'
  BY <1>3 DEF Quiet, trackerVars, forgetVars, ModifiersInv, KeysAgree, KeyAgrees, Position, AwayIsSilent
<1>4. ASSUME ReadEvent \/ User \/ Hotplugging PROVE KeysAgree' /\ AwayIsSilent'
  BY <1>4, ReadKeepsAgreement, UserKeepsAgreement, HotplugKeepsAgreement
<1> QED
  BY <1>1, <1>2, <1>3, <1>4, StepKinds DEF ModifiersInv

LEMMA ModifiersInvariant == Spec => []ModifiersInv
BY ModifiersInit, ModifiersStep, PTL DEF Spec

-----------------------------------------------------------------------------
(* What the invariant says of the modifiers.                               *)

(* The main loop drives the modifier tracker only in the ways InputState   *)
(* describes, so what is proved of the tracker on its own (InputState-     *)
(* Proofs) holds in the whole key path (the calls of Handle, Remove, Reset *)
(* and SetCaps in main.go).                                                *)
THEOREM TypingDrivesTracker == Spec => InputSpec
BY TypingInitTyped, ModifiersInvariant, ModifiersStep, PTL DEF Spec, InputSpec

(* In the whole key path, whatever is typed, reloaded, unplugged or fails, *)
(* a class's count is the number of its keys that are down (Handle, Remove *)
(* and Reset of inputstate.go).                                            *)
THEOREM TypingCounts == Spec => []CountsArePressedKeys
BY TypingDrivesTracker, CountsCorrect, PTL

(* Once the loop has handled everything, the modifiers it goes by are the  *)
(* ones the user holds, over all keyboards, through any unplugging,        *)
(* replugging, dropped and repeated events, less those a rescan made the   *)
(* tracker forget (Modifiers and Reset in inputstate.go).                  *)
ModifiersArePhysical ==
  Settled /\ monitored = plugged =>
    Held = { ModifierClass[k] : k \in UNION { down[d] \ blind[d] : d \in Devices } }

LEMMA AgreementGivesModifiers ==
  ModifiersInv /\ HeldIsPressed => ModifiersArePhysical
<1> SUFFICES ASSUME ModifiersInv, HeldIsPressed, ch = <<>>, monitored = plugged
             PROVE  Held = { ModifierClass[k] : k \in UNION { down[d] \ blind[d] : d \in Devices } }
  BY DEF ModifiersArePhysical, Settled
<1>1. \A d \in Devices : pressed[d] = down[d] \ blind[d]
  <2> SUFFICES ASSUME NEW d \in Devices PROVE pressed[d] = down[d] \ blind[d]
    OBVIOUS
  <2>1. CASE d \notin plugged
    BY <2>1 DEF ModifiersInv, AwayIsSilent
  <2>2. CASE d \in plugged
    <3>1. \A k \in ModifierKeys : k \in pressed[d] <=> k \in down[d] \ blind[d]
      BY <2>2, EmptyTells DEF ModifiersInv, KeysAgree, KeyAgrees
    <3>2. pressed[d] \subseteq ModifierKeys /\ down[d] \subseteq ModifierKeys
      BY DEF ModifiersInv, TrackerTypeOK, KeyboardsTyped
    <3> QED
      BY <3>1, <3>2
  <2> QED
    BY <2>1, <2>2
<1>2. UNION { pressed[d] : d \in Devices } = UNION { down[d] \ blind[d] : d \in Devices }
  BY <1>1
<1> QED
  BY <1>2 DEF HeldIsPressed

LEMMA ModifiersAlwaysPhysical == Spec => []ModifiersArePhysical
<1>1. Spec => []HeldIsPressed
  BY TypingDrivesTracker, HeldCorrect, PTL
<1> QED
  BY <1>1, ModifiersInvariant, AgreementGivesModifiers, PTL

-----------------------------------------------------------------------------
(* Caps Lock.  SetCaps reads the LED, which is ahead of the channel: a     *)
(* Caps Lock key still on its way is then counted twice.  So the claim is  *)
(* made for keyboards that stay, or for users who leave Caps Lock alone.   *)

CapsPress(e) == e.key = "KEY_CAPSLOCK" /\ e.value = 1

(* lights[i] is the LED after the first i of the events on their way.      *)
Lights(q, from, to) ==
  \E lights \in [0..Len(q) -> BOOLEAN] :
    /\ lights[0] = from /\ lights[Len(q)] = to
    /\ \A i \in 1..Len(q) : lights[i] = (lights[i - 1] # CapsPress(q[i]))

(* The keyboards stay, and so no rescan forgets anything.                  *)
NoHotplug == monitored = Devices /\ plugged = Devices /\ ~Blinded /\ ~misled

CapsFollows == NoHotplug /\ Lights(ch, caps, led)

CapsUntouched == led = FALSE /\ caps = FALSE /\ \A i \in DOMAIN ch : ch[i].key # "KEY_CAPSLOCK"

LEMMA EmptyLights == \A from, to : Lights(<<>>, from, to) => from = to
BY DEF Lights

LEMMA NoLights ==
  ASSUME NEW b \in BOOLEAN
  PROVE  Lights(<<>>, b, b)
<1> DEFINE lights == [i \in 0..0 |-> b]
<1>1. lights \in [0..0 -> BOOLEAN] /\ lights[0] = b
  OBVIOUS
<1>2. Len(<<>>) = 0 /\ \A i \in 1..0 : FALSE
  OBVIOUS
<1> HIDE DEF lights
<1> QED
  BY <1>1, <1>2 DEF Lights

LEMMA AppendLights ==
  ASSUME NEW q \in Seq(KeyEvents), NEW e \in KeyEvents, NEW from, NEW to \in BOOLEAN, Lights(q, from, to)
  PROVE  Lights(Append(q, e), from, to # CapsPress(e))
<1> DEFINE a == Append(q, e)
           n == Len(q)
<1>1. n \in Nat /\ Len(a) = n + 1 /\ a[n + 1] = e /\ \A i \in 1..n : a[i] = q[i]
  OBVIOUS
<1>2. PICK lights \in [0..n -> BOOLEAN] :
        /\ lights[0] = from /\ lights[n] = to
        /\ \A i \in 1..n : lights[i] = (lights[i - 1] # CapsPress(q[i]))
  BY DEF Lights
<1> DEFINE on == (to # CapsPress(e))
           more == [i \in 0..(n + 1) |-> IF i = n + 1 THEN on ELSE lights[i]]
<1> HIDE DEF a, n
<1>3. on \in BOOLEAN
  OBVIOUS
<1> HIDE DEF on
<1>4. /\ more \in [0..(n + 1) -> BOOLEAN]
      /\ \A i \in 0..n : more[i] = lights[i]
      /\ more[n + 1] = on
  BY <1>1, <1>2, <1>3
<1> HIDE DEF more
<1>5. \A i \in 1..(n + 1) : more[i] = (more[i - 1] # CapsPress(a[i]))
  <2> SUFFICES ASSUME NEW i \in 1..(n + 1) PROVE more[i] = (more[i - 1] # CapsPress(a[i]))
    OBVIOUS
  <2>1. i - 1 \in 0..n /\ more[i - 1] = lights[i - 1]
    BY <1>1, <1>4
  <2>2. CASE i = n + 1
    BY <1>1, <1>2, <1>4, <2>1, <2>2 DEF on
  <2>3. CASE i # n + 1
    BY <1>1, <1>2, <1>4, <2>1, <2>3
  <2> QED
    BY <2>2, <2>3
<1>6. Lights(a, from, on)
  BY <1>1, <1>2, <1>4, <1>5 DEF Lights
<1> QED
  BY <1>6 DEF a, on

LEMMA TailLights ==
  ASSUME NEW q \in Seq(KeyEvents), q # <<>>, NEW from \in BOOLEAN, NEW to, Lights(q, from, to)
  PROVE  Lights(Tail(q), from # CapsPress(Head(q)), to)
<1> DEFINE t == Tail(q)
           n == Len(q)
<1>1. n \in Nat /\ n > 0 /\ Len(t) = n - 1 /\ Head(q) = q[1] /\ \A i \in 1..(n - 1) : t[i] = q[i + 1]
  OBVIOUS
<1>2. PICK lights \in [0..n -> BOOLEAN] :
        /\ lights[0] = from /\ lights[n] = to
        /\ \A i \in 1..n : lights[i] = (lights[i - 1] # CapsPress(q[i]))
  BY DEF Lights
<1> DEFINE rest == [i \in 0..(n - 1) |-> lights[i + 1]]
<1> HIDE DEF t, n
<1>3. /\ rest \in [0..(n - 1) -> BOOLEAN]
      /\ \A i \in 0..(n - 1) : rest[i] = lights[i + 1]
  BY <1>1, <1>2
<1> HIDE DEF rest
<1>4. rest[0] = (from # CapsPress(q[1])) /\ rest[n - 1] = to
  BY <1>1, <1>2, <1>3
<1>5. \A i \in 1..(n - 1) : rest[i] = (rest[i - 1] # CapsPress(t[i]))
  <2> SUFFICES ASSUME NEW i \in 1..(n - 1) PROVE rest[i] = (rest[i - 1] # CapsPress(t[i]))
    OBVIOUS
  <2>1. rest[i] = lights[i + 1] /\ rest[i - 1] = lights[i] /\ t[i] = q[i + 1] /\ i + 1 \in 1..n
    BY <1>1, <1>3
  <2> QED
    BY <1>1, <1>2, <2>1
<1>6. Lights(t, from # CapsPress(q[1]), to)
  BY <1>1, <1>3, <1>4, <1>5 DEF Lights
<1> QED
  BY <1>1, <1>6 DEF t

(* What a step does to Caps Lock: nothing, unless it is one of these.      *)
LEMMA CapsTracked ==
  ASSUME NEW d, NEW key, NEW value, Track(d, key, value)
  PROVE  caps' = (caps # (key = "KEY_CAPSLOCK" /\ value = 1))
BY DEF Track, CapsKey

LEMMA CapsStaysOff ==
  ASSUME NEW d, NEW key, NEW value, Track(d, key, value), caps = FALSE, key # "KEY_CAPSLOCK"
  PROVE  caps' = FALSE
BY DEF Track, CapsKey

LEMMA UserMovesCaps ==
  ASSUME ModifiersInv, User
  PROVE  \E e \in KeyEvents :
           /\ ch' = Append(ch, e) /\ led' = (led # CapsPress(e)) /\ caps' = caps
           /\ UNCHANGED <<plugged, monitored, forgetVars>>
           /\ e.key \in TypedKeys \cup HeldKeys
<1>1. PICK d \in Devices, key \in Keys, value \in 0..2 :
        /\ UserSends(d, key, value)
        /\ MovesModifier(d, key, value) \/ MovesText(key, value)
  BY UserMoves DEF ModifiersInv
<1> DEFINE e == [dev |-> d, key |-> key, value |-> value]
<1>2. /\ e \in KeyEvents /\ ch' = Append(ch, e) /\ caps' = caps /\ UNCHANGED <<plugged, monitored, forgetVars>>
      /\ CapsPress(e) = (key = "KEY_CAPSLOCK" /\ value = 1)
  BY <1>1 DEF UserSends, Queue, KeyEvents, trackerVars, CapsPress
<1>3. key \in TypedKeys \cup HeldKeys
  BY <1>1 DEF MovesModifier, MovesText
<1>4. led' = (led # (key = "KEY_CAPSLOCK" /\ value = 1))
  <2>1. CASE MovesText(key, value)
    BY <2>1 DEF MovesText, ModifiersInv, KeyboardsTyped
  <2>2. CASE MovesModifier(d, key, value)
    <3>1. key # "KEY_CAPSLOCK"
      BY <2>2, ModifierTable, TextKeysFacts DEF MovesModifier
    <3> QED
      BY <2>2, <3>1 DEF MovesModifier, ModifiersInv, KeyboardsTyped
  <2> QED
    BY <1>1, <2>1, <2>2
<1>5. led' = (led # CapsPress(e))
  <2> HIDE DEF e
  <2> QED
    BY <1>2, <1>4
<1>6. e.key = key
  OBVIOUS
<1> HIDE DEF e
<1> QED
  BY <1>2, <1>3, <1>5, <1>6

LEMMA CapsFollowsInit == Init => CapsFollows
BY NoLights DEF Init, TrackerInit, CapsFollows, NoHotplug, Blinded

LEMMA CapsFollowsStep ==
  ASSUME "hotplug" \notin Disturbances
  PROVE  ModifiersInv /\ CapsFollows /\ [Next]_vars => CapsFollows'
<1> SUFFICES ASSUME ModifiersInv, CapsFollows, [Next]_vars PROVE CapsFollows'
  OBVIOUS
<1>1. CASE Quiet
  BY <1>1 DEF Quiet, trackerVars, forgetVars, CapsFollows, NoHotplug, Blinded
<1>2. CASE ReadEvent
  <2>1. /\ ch \in Seq(KeyEvents) /\ ch # <<>> /\ ch' = Tail(ch) /\ UNCHANGED <<led, plugged, monitored>>
        /\ caps \in BOOLEAN
    BY <1>2 DEF ReadEvent, screenVars, hotplugVars, ModifiersInv, KeyboardsTyped, TrackerTypeOK
  <2>2. Head(ch) \in KeyEvents
    BY <2>1
  <2>3. Head(ch).dev \in monitored
    BY <2>2 DEF KeyEvents, CapsFollows, NoHotplug
  <2>4. caps' = (caps # CapsPress(Head(ch)))
    BY <1>2, <2>3, CapsTracked DEF ReadEvent, CapsPress
  <2>5. Lights(Tail(ch), caps # CapsPress(Head(ch)), led)
    BY <2>1, TailLights DEF CapsFollows
  <2>6. ~Blinded' /\ ~misled'
    <3>1. Told(Head(ch)) /\ \A d \in Devices : blind[d] = {}
      BY <1>2, <2>3 DEF ReadEvent, CapsFollows, NoHotplug, Blinded
    <3>2. misled' = FALSE
      BY <3>1 DEF Told, CapsFollows, NoHotplug
    <3>3. blind \in [Devices -> SUBSET ModifierKeys]
      BY DEF ModifiersInv, KeyboardsTyped
    <3> DEFINE k == Head(ch)
    <3>4. \A d \in Devices : blind'[d] = {}
      <4>1. blind' = blind \/ blind' = [blind EXCEPT ![k.dev] = @ \ {k.key}]
        BY <3>1 DEF Told
      <4> HIDE DEF k
      <4> QED
        BY <3>1, <3>3, <4>1
    <3> QED
      BY <3>2, <3>4 DEF Blinded
  <2> QED
    BY <2>1, <2>4, <2>5, <2>6 DEF CapsFollows, NoHotplug
<1>3. CASE User
  <2>1. PICK e \in KeyEvents :
          /\ ch' = Append(ch, e) /\ led' = (led # CapsPress(e)) /\ caps' = caps
          /\ UNCHANGED <<plugged, monitored, forgetVars>>
    BY <1>3, UserMovesCaps
  <2>2. Lights(Append(ch, e), caps, led # CapsPress(e))
    BY AppendLights DEF ModifiersInv, KeyboardsTyped, CapsFollows
  <2> QED
    BY <2>1, <2>2 DEF CapsFollows, NoHotplug, Blinded, forgetVars
<1>4. ~Hotplugging
  BY DEF Hotplugging, Unplug, PlugIn, KeyboardDone, RefreshKeyboards, Disturb, CapsFollows, NoHotplug
<1> QED
  BY <1>1, <1>2, <1>3, <1>4, StepKinds

LEMMA CapsUntouchedInit == Init => CapsUntouched
BY DEF Init, TrackerInit, CapsUntouched

LEMMA CapsUntouchedStep ==
  ASSUME "KEY_CAPSLOCK" \notin TypedKeys
  PROVE  ModifiersInv /\ CapsUntouched /\ [Next]_vars => CapsUntouched'
<1> SUFFICES ASSUME ModifiersInv, CapsUntouched, [Next]_vars PROVE CapsUntouched'
  OBVIOUS
<1>1. CASE Quiet
  BY <1>1 DEF Quiet, trackerVars, CapsUntouched
<1>2. CASE ReadEvent
  <2>1. /\ ch \in Seq(KeyEvents) /\ ch # <<>> /\ ch' = Tail(ch) /\ led' = led
    BY <1>2 DEF ReadEvent, screenVars, ModifiersInv, KeyboardsTyped
  <2>2. /\ Head(ch).key # "KEY_CAPSLOCK"
        /\ \A i \in DOMAIN Tail(ch) : Tail(ch)[i].key # "KEY_CAPSLOCK"
    <3> DEFINE q == ch
    <3>1. /\ Head(q) = q[1] /\ 1 \in DOMAIN q
          /\ \A i \in DOMAIN Tail(q) : i + 1 \in DOMAIN q /\ Tail(q)[i] = q[i + 1]
      BY <2>1
    <3> QED
      BY <3>1 DEF CapsUntouched
  <2>3. caps' = FALSE
    BY <1>2, <2>2, CapsStaysOff DEF ReadEvent, trackerVars, CapsUntouched
  <2> QED
    BY <2>1, <2>2, <2>3 DEF CapsUntouched
<1>3. CASE User
  <2>1. PICK e \in KeyEvents :
          /\ ch' = Append(ch, e) /\ led' = (led # CapsPress(e)) /\ caps' = caps
          /\ e.key \in TypedKeys \cup HeldKeys
    BY <1>3, UserMovesCaps
  <2>2. e.key # "KEY_CAPSLOCK" /\ CapsPress(e) = FALSE
    BY <2>1, ModifierTable, TextKeysFacts DEF CapsPress
  <2>3. led' = FALSE /\ caps' = FALSE
    <3>1. led' = (led # FALSE)
      BY <2>1, <2>2
    <3> QED
      BY <2>1, <3>1 DEF CapsUntouched
  <2>4. \A i \in DOMAIN ch' : ch'[i].key # "KEY_CAPSLOCK"
    <3>1. \A i \in DOMAIN ch' : (i \in DOMAIN ch /\ ch'[i] = ch[i]) \/ ch'[i] = e
      BY <2>1 DEF ModifiersInv, KeyboardsTyped
    <3> QED
      BY <2>2, <3>1 DEF CapsUntouched
  <2> QED
    BY <2>3, <2>4 DEF CapsUntouched
<1>4. CASE Hotplugging
  <2>1. ch' = ch /\ led' = led
    BY <1>4 DEF Hotplugging, Unplug, PlugIn, KeyboardDone, RefreshKeyboards, loopVars, screenVars
  <2>2. caps' = caps \/ \E hs : caps' = CapsLockOn(hs)
    BY <1>4 DEF Hotplugging, Unplug, PlugIn, KeyboardDone, RefreshKeyboards, trackerVars,
                RemoveDevice, ResetTracker
  <2>3. \A hs : CapsLockOn(hs) = FALSE
    BY DEF CapsUntouched, CapsLockOn
  <2> QED
    BY <2>1, <2>2, <2>3 DEF CapsUntouched
<1> QED
  BY <1>1, <1>2, <1>3, <1>4, StepKinds

(* Once the loop has handled everything, the modifiers and Caps Lock it    *)
(* goes by are those the compositor sees (inputstate.go), less the         *)
(* modifiers that were held when a rescan reset the tracker, each until    *)
(* its own next event.  Caps Lock is excepted when keyboards come and go:  *)
(* the LED is read ahead of the Caps Lock keys on their way.               *)
THEOREM HeldFollowsKeyboards ==
  ASSUME "hotplug" \notin Disturbances \/ "KEY_CAPSLOCK" \notin TypedKeys
  PROVE  Spec => []HeldIsPhysical
<1>1. ASSUME "hotplug" \notin Disturbances
      PROVE  Spec => []HeldIsPhysical
  <2>1. ModifiersInv /\ CapsFollows /\ [Next]_vars => CapsFollows'
    BY <1>1, CapsFollowsStep
  <2>2. ModifiersArePhysical /\ CapsFollows => HeldIsPhysical
    BY EmptyLights DEF ModifiersArePhysical, HeldIsPhysical, Settled, CapsFollows
  <2> QED
    BY CapsFollowsInit, <2>1, <2>2, ModifiersInvariant, ModifiersAlwaysPhysical, PTL DEF Spec
<1>2. ASSUME "KEY_CAPSLOCK" \notin TypedKeys
      PROVE  Spec => []HeldIsPhysical
  <2>1. ModifiersInv /\ CapsUntouched /\ [Next]_vars => CapsUntouched'
    BY <1>2, CapsUntouchedStep
  <2>2. ModifiersArePhysical /\ CapsUntouched /\ ModifiersInv => HeldIsPhysical
    BY DEF ModifiersArePhysical, HeldIsPhysical, Settled, CapsUntouched, ModifiersInv,
           TrackerTypeOK, KeyboardsTyped
  <2> QED
    BY CapsUntouchedInit, <2>1, <2>2, ModifiersInvariant, ModifiersAlwaysPhysical, PTL DEF Spec
<1> QED
  BY <1>1, <1>2

-----------------------------------------------------------------------------
(* What the loop goes by when it handles a text key is what the compositor *)
(* showed the key with.  A keyboard that goes away takes its modifiers     *)
(* from the compositor at once and from the tracker later, so hotplug is   *)
(* considered for keyboards whose Shift, AltGr and Caps Lock are unused,   *)
(* and for moments when no modifier is forgotten.                          *)

SteadyView ==
  \/ "hotplug" \notin Disturbances
  \/ HeldKeys \cap (ShiftKeys \cup AltGrKeys) = {} /\ "KEY_CAPSLOCK" \notin TypedKeys

View ==
  /\ caps = led
  /\ Held \cap OutputModifiers = PhysicalMods \cap OutputModifiers
  /\ PhysicalMods \subseteq Held

(* No modifier and no Caps Lock is on its way.                             *)
MovesView(key) == key \in ModifierKeys \cup {"KEY_CAPSLOCK"}
ViewSettled == ch = <<>> \/ (Len(ch) = 1 /\ ~MovesView(ch[1].key))

OnlyHeldKeys ==
  /\ \A d \in Devices : down[d] \subseteq HeldKeys /\ pressed[d] \subseteq HeldKeys
  /\ \A i \in DOMAIN ch : ch[i].key \in HeldKeys \cup TypedKeys

CapsAgree == IF "hotplug" \notin Disturbances THEN CapsFollows ELSE CapsUntouched

ViewInv == ModifiersInv /\ HeldIsPressed /\ OnlyHeldKeys /\ CapsAgree

LEMMA OnlyHeldKeysStep == ModifiersInv /\ OnlyHeldKeys /\ [Next]_vars => OnlyHeldKeys'
<1> SUFFICES ASSUME ModifiersInv, OnlyHeldKeys, [Next]_vars PROVE OnlyHeldKeys'
  OBVIOUS
<1>a. ch \in Seq(KeyEvents) /\ down \in [Devices -> SUBSET ModifierKeys] /\ pressed \in [Devices -> SUBSET ModifierKeys]
  BY DEF ModifiersInv, KeyboardsTyped, TrackerTypeOK
<1>1. CASE Quiet
  BY <1>1 DEF Quiet, trackerVars, OnlyHeldKeys
<1>2. CASE ReadEvent
  <2> DEFINE e == Head(ch)
             q == Tail(ch)
  <2>1. ch' = q /\ ch # <<>> /\ down' = down
    BY <1>2 DEF ReadEvent, screenVars
  <2>2. /\ \A i \in DOMAIN q : i + 1 \in DOMAIN ch /\ q[i] = ch[i + 1]
        /\ 1 \in DOMAIN ch /\ e = ch[1] /\ e \in KeyEvents
    BY <1>a, <2>1
  <2>3. e.key \in HeldKeys \cup TypedKeys /\ e.dev \in Devices /\ e.value \in 0..2
    BY <2>2 DEF OnlyHeldKeys, KeyEvents
  <2>4. Track(e.dev, e.key, e.value) \/ UNCHANGED trackerVars
    BY <1>2 DEF ReadEvent
  <2> HIDE DEF e, q
  <2>5. ASSUME NEW d \in Devices, NEW k \in pressed'[d] PROVE k \in HeldKeys
    <3>1. CASE UNCHANGED trackerVars
      BY <2>5, <3>1 DEF trackerVars, OnlyHeldKeys
    <3>2. CASE Track(e.dev, e.key, e.value)
      <4>1. k \in pressed[d] \/ (k = e.key /\ e.key \in ModifierKeys)
        BY <1>a, <2>5, <3>2 DEF Track, KeyDown, KeyUp, Changes
      <4> QED
        BY <2>3, <4>1, TextKeysFacts DEF OnlyHeldKeys
    <3> QED
      BY <2>4, <3>1, <3>2
  <2> QED
    BY <2>1, <2>2, <2>5 DEF OnlyHeldKeys
<1>3. CASE User
  <2>1. PICK d \in Devices, key \in Keys, value \in 0..2 :
          /\ UserSends(d, key, value)
          /\ MovesModifier(d, key, value) \/ MovesText(key, value)
    BY <1>3, UserMoves DEF ModifiersInv
  <2> DEFINE e == [dev |-> d, key |-> key, value |-> value]
  <2>2. ch' = Append(ch, e) /\ e \in KeyEvents /\ e.key = key
    BY <2>1 DEF UserSends, Queue, KeyEvents
  <2>3. key \in HeldKeys \cup TypedKeys
    BY <2>1 DEF MovesModifier, MovesText
  <2> HIDE DEF e
  <2>4. \A i \in DOMAIN ch' : (i \in DOMAIN ch /\ ch'[i] = ch[i]) \/ ch'[i] = e
    BY <1>a, <2>2
  <2>5. \A p \in Devices : down'[p] \subseteq HeldKeys
    BY <1>a, <2>1 DEF MovesModifier, MovesText, OnlyHeldKeys
  <2>6. pressed' = pressed
    BY <2>1 DEF UserSends, trackerVars
  <2> QED
    BY <2>2, <2>3, <2>4, <2>5, <2>6 DEF OnlyHeldKeys
<1>4. CASE Hotplugging
  <2>1. ch' = ch
    BY <1>4 DEF Hotplugging, Unplug, PlugIn, KeyboardDone, RefreshKeyboards, loopVars
  <2>2. \A d \in Devices : down'[d] \in {{}, down[d]}
    BY <1>a, <1>4 DEF Hotplugging, Unplug, PlugIn, KeyboardDone, RefreshKeyboards, screenVars
  <2>3. \A d \in Devices : pressed'[d] \in {{}, pressed[d]}
    BY <1>a, <1>4 DEF Hotplugging, Unplug, PlugIn, KeyboardDone, RefreshKeyboards, trackerVars,
                      RemoveDevice, ForgetDevice, ResetTracker
  <2> QED
    BY <2>1, <2>2, <2>3 DEF OnlyHeldKeys
<1> QED
  BY <1>1, <1>2, <1>3, <1>4, StepKinds

LEMMA ViewInvInit == ASSUME SteadyView PROVE Init => ViewInv
<1> SUFFICES ASSUME Init PROVE ViewInv
  OBVIOUS
<1>1. ModifiersInv /\ HeldIsPressed
  BY ModifiersInit, TypingInitTyped, InitCounts, CountsGiveHeld
<1>2. CapsAgree
  BY CapsFollowsInit, CapsUntouchedInit DEF CapsAgree
<1>3. OnlyHeldKeys
  <2>1. ch = <<>> /\ \A d \in Devices : down[d] = {} /\ pressed[d] = {}
    BY DEF Init, TrackerInit
  <2> QED
    BY <2>1 DEF OnlyHeldKeys
<1> QED
  BY <1>1, <1>2, <1>3 DEF ViewInv

LEMMA CapsAgreeStep ==
  ASSUME SteadyView
  PROVE  ModifiersInv /\ CapsAgree /\ [Next]_vars => CapsAgree'
<1>1. CASE "hotplug" \notin Disturbances
  BY <1>1, CapsFollowsStep DEF CapsAgree
<1>2. CASE "hotplug" \in Disturbances
  BY <1>2, CapsUntouchedStep DEF CapsAgree, SteadyView
<1> QED
  BY <1>1, <1>2

LEMMA ViewInvariant == ASSUME SteadyView PROVE Spec => []ViewInv
<1>1. Spec => []HeldIsPressed
  BY TypingDrivesTracker, HeldCorrect, PTL
<1>2. Init => OnlyHeldKeys /\ CapsAgree
  BY ViewInvInit DEF ViewInv
<1>3. ModifiersInv /\ OnlyHeldKeys /\ CapsAgree /\ [Next]_vars => OnlyHeldKeys' /\ CapsAgree'
  BY OnlyHeldKeysStep, CapsAgreeStep
<1>4. ModifiersInv /\ HeldIsPressed /\ OnlyHeldKeys /\ CapsAgree => ViewInv
  BY DEF ViewInv
<1> QED
  BY <1>1, <1>2, <1>3, <1>4, ModifiersInvariant, PTL DEF Spec

LEMMA OneLight ==
  ASSUME NEW q, Len(q) = 1, ~CapsPress(q[1]), NEW from, NEW to, Lights(q, from, to)
  PROVE  from = to
<1>1. PICK lights \in [0..1 -> BOOLEAN] :
        /\ lights[0] = from /\ lights[1] = to
        /\ \A i \in 1..1 : lights[i] = (lights[i - 1] # CapsPress(q[i]))
  BY DEF Lights
<1>2. lights[1] = (lights[0] # CapsPress(q[1]))
  BY <1>1
<1>3. CapsPress(q[1]) = FALSE
  BY DEF CapsPress
<1>4. lights[0] \in BOOLEAN
  BY <1>1
<1>5. lights[1] = lights[0]
  <2> DEFINE light == CapsPress(q[1])
  <2>1. light = FALSE /\ lights[1] = (lights[0] # light)
    BY <1>2, <1>3
  <2> HIDE DEF light
  <2> QED
    BY <1>4, <2>1
<1> QED
  BY <1>1, <1>5

LEMMA SettledView ==
  ASSUME SteadyView, ViewInv, ViewSettled, ~Blinded
  PROVE  View
<1>a. /\ plugged \subseteq Devices /\ down \in [Devices -> SUBSET ModifierKeys]
      /\ pressed \in [Devices -> SUBSET ModifierKeys] /\ ch \in Seq(KeyEvents)
  BY DEF ViewInv, ModifiersInv, KeyboardsTyped, TrackerTypeOK
<1>1. caps = led
  <2>1. CASE "hotplug" \in Disturbances
    BY <2>1 DEF ViewInv, CapsAgree, CapsUntouched
  <2>2. CASE "hotplug" \notin Disturbances
    <3>1. Lights(ch, caps, led)
      BY <2>2 DEF ViewInv, CapsAgree, CapsFollows
    <3>2. ch = <<>> \/ (Len(ch) = 1 /\ ~CapsPress(ch[1]))
      BY DEF ViewSettled, MovesView, CapsPress
    <3> QED
      BY <3>1, <3>2, EmptyLights, OneLight
  <2> QED
    BY <2>1, <2>2
<1>2. \A d \in Devices, k \in ModifierKeys : ~Holds(ch, d, k)
  <2>1. \A i \in DOMAIN ch : ch[i].key \notin ModifierKeys
    BY <1>a DEF ViewSettled, MovesView
  <2> QED
    BY <2>1 DEF Holds, Tells
<1>3. \A d \in plugged : pressed[d] = down[d]
  <2> SUFFICES ASSUME NEW d \in plugged PROVE pressed[d] = down[d]
    OBVIOUS
  <2>1. \A k \in ModifierKeys : k \in pressed[d] <=> k \in down[d]
    BY <1>a, <1>2 DEF ViewInv, ModifiersInv, KeysAgree, KeyAgrees, Blinded
  <2>2. pressed[d] \subseteq ModifierKeys /\ down[d] \subseteq ModifierKeys
    BY <1>a
  <2> QED
    BY <2>1, <2>2
<1>4. \A d \in Devices : d \notin plugged => down[d] = {}
  BY DEF ViewInv, ModifiersInv, AwayIsSilent
<1>5. Held = { ModifierClass[k] : k \in UNION { pressed[d] : d \in Devices } }
  BY DEF ViewInv, HeldIsPressed
<1>6. PhysicalMods \subseteq Held
  BY <1>3, <1>4, <1>5 DEF PhysicalMods
<1>7. Held \cap OutputModifiers = PhysicalMods \cap OutputModifiers
  <2>1. CASE "hotplug" \notin Disturbances
    <3>1. \A d \in Devices : pressed[d] = down[d]
      BY <1>3, <2>1 DEF ViewInv, CapsAgree, CapsFollows, NoHotplug
    <3> QED
      BY <1>5, <3>1 DEF PhysicalMods
  <2>2. CASE "hotplug" \in Disturbances
    <3>1. \A d \in Devices : \A k \in pressed[d] : k \in ModifierKeys /\ k \notin ShiftKeys \cup AltGrKeys
      BY <1>a, <2>2 DEF SteadyView, ViewInv, OnlyHeldKeys
    <3>2. \A d \in Devices : \A k \in pressed[d] : ModifierClass[k] \notin OutputModifiers
      BY <3>1 DEF ShiftKeys, AltGrKeys, OutputModifiers
    <3>3. Held \cap OutputModifiers = {}
      BY <1>5, <3>2
    <3> QED
      BY <1>6, <3>3
  <2> QED
    BY <2>1, <2>2
<1> QED
  BY <1>1, <1>6, <1>7 DEF View
=============================================================================
