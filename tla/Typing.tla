------------------------------- MODULE Typing -------------------------------
(***************************************************************************)
(* The key path of the daemon, end to end: keyboards, the application that *)
(* shows the text, and the main loop of main.go that hands every event to  *)
(* the modifier tracker, the expander and the corrector and carries out    *)
(* the edits they ask for.                                                 *)
(*                                                                         *)
(* A physical key reaches the application at once and the daemon through   *)
(* the channel ch, so the daemon always lags behind the screen.  MaxAhead  *)
(* is how many events may be unfinished when the next key goes down: with  *)
(* 1 the daemon has caught up before every key.                            *)
(*                                                                         *)
(* Bounds, all named: MaxText caps the text left of the cursor, MaxAhead   *)
(* the channel, MaxDisturbances the number of calls, reloads, hotplugs and *)
(* output failures of one behaviour.                                       *)
(*                                                                         *)
(* A definition that nothing uses is a deliberately faulty variant of the  *)
(* one after it; put in its place it must break a property.  The same      *)
(* holds in the other modules.                                             *)
(***************************************************************************)
EXTENDS Corrector, Expander, InputState

CONSTANTS
  TypedKeys,        \* keys the user types with
  HeldKeys,         \* modifier keys the user holds
  RepeatKeys,       \* keys whose autorepeat is considered
  Setups,           \* configurations: [expander, options, enabled]
  Disturbances,     \* kinds of disturbance that may happen
  MaxText, MaxAhead, MaxDisturbances

ASSUME TypingAssumption ==
  /\ TypedKeys \subseteq TextKeys /\ HeldKeys \subseteq ModifierKeys
  /\ RepeatKeys \subseteq TypedKeys
  /\ \A s \in Setups :
       /\ s.expander.matches \in Seq([trigger : Seq(Runes), replace : Seq(Runes), back : Nat])
       /\ s.enabled \in BOOLEAN
  /\ MaxText \in Nat /\ MaxAhead \in Nat \ {0} /\ MaxDisturbances \in Nat

VARIABLES
  text,       \* the text left of the cursor in the focused application
  down,       \* modifier keys physically held, per keyboard
  led,        \* the compositor's Caps Lock state, shown by the keyboards' LEDs
  heldKey,    \* the key that autorepeats, or NoKey
  plugged, monitored,   \* keyboards present, and those the daemon reads
  ch,         \* events read from the keyboards, not yet taken by the loop
  pc, ev,     \* where the main loop is, and the event it is handling
  disturbances,
  original,   \* history: what the last correction would be undone to
  undone,     \* history: the word before the cursor was restored by an undo
  blind,      \* history: held modifier keys the tracker was made to forget, per keyboard
  misled      \* history: a key was handled while some modifier was forgotten

screenVars == <<text, down, led, heldKey>>
loopVars   == <<ch, pc, ev>>
forgetVars == <<blind, misled>>
histVars   == <<original, undone, forgetVars>>
hotplugVars == <<plugged, monitored>>
vars == <<correctorVars, expanderVars, trackerVars, screenVars, loopVars, hotplugVars,
          disturbances, histVars>>

NoEvent == [dev |-> NoKey, key |-> NoKey, value |-> 0]

Init ==
  \E setup \in Setups :
    /\ CorrectorInit(setup.enabled, TRUE, setup.options)
    /\ ExpanderInit(setup.expander)
    /\ TrackerInit(FALSE)
    /\ text = <<>> /\ down = [d \in Devices |-> {}] /\ led = FALSE /\ heldKey = NoKey
    /\ plugged = Devices /\ monitored = Devices
    /\ ch = <<>> /\ pc = "select" /\ ev = NoEvent
    /\ disturbances = 0 /\ original = <<>> /\ undone = FALSE
    /\ blind = [d \in Devices |-> {}] /\ misled = FALSE

-----------------------------------------------------------------------------
(* The application and the keyboards.                                      *)

(* What the compositor sees held: every keyboard's keys together.          *)
PhysicalMods == { ModifierClass[k] : k \in UNION { down[d] : d \in Devices } }

(* A shortcut may leave the text, move the cursor away or paste something. *)
ChordEffects == {text, <<>>} \cup (IF Len(text) < MaxText THEN {Append(text, "z")} ELSE {})

Erase(t) == IF t = <<>> THEN t ELSE Front(t)

(* The effect of one plain key on the text.                                *)
ShowKey(key) ==
  IF key = "KEY_CAPSLOCK" THEN text' = text
  ELSE IF PhysicalMods \cap ChordModifiers # {} THEN text' \in ChordEffects
  ELSE IF key \in {"KEY_BACKSPACE", "KEY_LEFT"} THEN text' = Erase(text)
  ELSE Len(text) < MaxText /\ text' = Append(text, Glyph(key, PhysicalMods, led))

(* The layout gives punctuation keys AltGr levels the tables do not have;  *)
(* they are left out, as are AltGr shortcuts.                              *)
KnownLevel(key) ==
  "AltGr" \in PhysicalMods =>
    key \in DOMAIN AltGr \cup {"KEY_SPACE", "KEY_BACKSPACE", "KEY_LEFTBRACE", "KEY_CAPSLOCK"}

CaughtUp == Len(ch) + (IF pc = "select" THEN 0 ELSE 1) < MaxAhead
Queue(d, key, value) == ch' = Append(ch, [dev |-> d, key |-> key, value |-> value])
Elsewhere == UNCHANGED <<correctorVars, expanderVars, trackerVars, pc, ev, hotplugVars,
                         disturbances, histVars>>

PressModifier(d, key) ==
  /\ CaughtUp /\ d \in plugged \cap monitored /\ key \in HeldKeys \ down[d]
  /\ down' = [down EXCEPT ![d] = @ \cup {key}]
  /\ Queue(d, key, 1)
  /\ UNCHANGED <<text, led, heldKey>> /\ Elsewhere

ReleaseModifier(d, key) ==
  /\ CaughtUp /\ key \in down[d]
  /\ down' = [down EXCEPT ![d] = @ \ {key}]
  /\ Queue(d, key, 0)
  /\ UNCHANGED <<text, led, heldKey>> /\ Elsewhere

PressKey(d, key) ==
  /\ CaughtUp /\ d \in plugged \cap monitored /\ KnownLevel(key)
  /\ ShowKey(key) /\ led' = (led # (key = "KEY_CAPSLOCK"))
  /\ heldKey' = (IF key \in RepeatKeys THEN key ELSE NoKey)
  /\ Queue(d, key, 1)
  /\ UNCHANGED down /\ Elsewhere

RepeatKey(d) ==
  /\ CaughtUp /\ d \in plugged \cap monitored /\ heldKey # NoKey /\ KnownLevel(heldKey)
  /\ ShowKey(heldKey)
  /\ Queue(d, heldKey, 2)
  /\ UNCHANGED <<down, led, heldKey>> /\ Elsewhere

ReleaseKey(d) ==
  /\ CaughtUp /\ d \in plugged \cap monitored /\ heldKey # NoKey
  /\ heldKey' = NoKey
  /\ Queue(d, heldKey, 0)
  /\ UNCHANGED <<text, down, led>> /\ Elsewhere

-----------------------------------------------------------------------------
(* The output writer and its virtual keyboard, as the application sees it: *)
(* the compositor merges the held modifiers of all keyboards.              *)

StrokeIgnoringCaps(c) == ReverseKey[c].mods
StrokeMods(c) ==
  LET m == ReverseKey[c].mods IN
  IF caps /\ c \in Letters
  THEN (m \ {"Shift"}) \cup ({"Shift"} \ m)
  ELSE m
Shown(c) == Glyph(ReverseKey[c].key, StrokeMods(c) \cup PhysicalMods, led)

Deleted(n) == KeepFirst(text, IF Len(text) > n THEN Len(text) - n ELSE 0)
Rewritten(edit, n) ==
  Deleted(edit.backspaces) \o [i \in 1..n |-> Shown(edit.type[i])]

(* Writer.Apply succeeding: under a held Ctrl, Alt or Meta the virtual     *)
(* keys are shortcuts themselves.                                          *)
Rewrite(edit, result_) ==
  IF PhysicalMods \cap ChordModifiers # {} THEN result_ \in ChordEffects
  ELSE result_ = Rewritten(edit, Len(edit.type))

(* Writer.Apply failing: before anything was deleted, or with what it had   *)
(* done left behind and the deleted text put back after it, in whole or in *)
(* part, or not at all.  Only wtype leaves something behind and still has  *)
(* the text put back: its error does not tell that it typed.               *)
Restorable(edit) == Range(edit.restore) \subseteq DOMAIN ReverseKey
PutBack(edit, n, m) == Rewritten(edit, n) \o [i \in 1..m |-> Shown(edit.restore[i])]
PartialEdits(edit) ==
  {text} \cup { Deleted(n) : n \in 0..edit.backspaces }
         \cup { Rewritten(edit, n) : n \in 0..Len(edit.type) }
         \cup { t \in { PutBack(edit, n, m) : n \in 0..Len(edit.type), m \in 1..Len(edit.restore) } :
                   Restorable(edit) /\ Len(t) <= MaxText }

Disturb(kind) ==
  /\ kind \in Disturbances /\ disturbances < MaxDisturbances
  /\ disturbances' = disturbances + 1

-----------------------------------------------------------------------------
(* The main loop.                                                          *)

(* The history of forgotten modifiers: a rescan forgets what is held, an    *)
(* event of the key itself puts the tracker right again, and any other key *)
(* pressed before that is handled with the wrong modifiers.                *)
Blinded == \E d \in Devices : blind[d] # {}
Told(e) ==
  /\ blind' = (IF e.value = 2 THEN blind ELSE [blind EXCEPT ![e.dev] = @ \ {e.key}])
  /\ misled' = (misled \/ (Blinded /\ PlainKey(e.key, e.value)))
ForgetHeld ==
  /\ blind' = [d \in Devices |-> IF d \in plugged THEN blind[d] \cup pressed[d] ELSE {}]
  /\ UNCHANGED misled

(* A key event: the tracker first; events of a keyboard that has been      *)
(* replaced or removed are dropped.                                        *)
ReadEvent ==
  /\ pc = "select" /\ ch # <<>>
  /\ ch' = Tail(ch)
  /\ IF Head(ch).dev \in monitored
     THEN /\ Track(Head(ch).dev, Head(ch).key, Head(ch).value)
          /\ Told(Head(ch))
          /\ ev' = Head(ch) /\ pc' = "expander"
     ELSE UNCHANGED <<trackerVars, forgetVars, ev, pc>>
  /\ UNCHANGED <<correctorVars, expanderVars, screenVars, hotplugVars, disturbances, original, undone>>

RunExpander ==
  /\ pc = "expander"
  /\ ExpanderHandleEvent(ev.key, ev.value, Held, caps)
  /\ pc' = (IF expansion' # NoExpansion THEN "expand" ELSE "corrector")
  /\ UNCHANGED <<correctorVars, trackerVars, screenVars, ch, ev, hotplugVars, disturbances, histVars>>

CursorBack(t, n) == KeepFirst(t, IF Len(t) > n THEN Len(t) - n ELSE 0)

(* The expander reports an expansion whether or not its output succeeded.  *)
ApplyExpansion ==
  /\ pc = "expand" /\ pc' = "corrector"
  /\ LET edit == ExpansionEdit(expansion) IN
     \/ /\ \E t \in {Rewritten(edit, Len(edit.type))} \cup ChordEffects :
             Rewrite(edit, t) /\ text' = CursorBack(t, expansion.match.back)
        /\ UNCHANGED disturbances
     \/ /\ Disturb("output")
        /\ text' \in PartialEdits(edit)
  /\ UNCHANGED <<correctorVars, expanderVars, trackerVars, down, led, heldKey, ch, ev, hotplugVars, histVars>>

RunCorrector ==
  /\ pc = "corrector" /\ pc' = "act"
  /\ CorrectorHandleEvent(ev.key, ev.value, Held, caps)
  /\ UNCHANGED <<expanderVars, trackerVars, screenVars, ch, ev, hotplugVars, disturbances, histVars>>

(* The event is done with: the results are consumed.                       *)
Finish ==
  /\ pc' = "select" /\ ev' = NoEvent /\ result' = NoResult /\ expansion' = NoExpansion
  /\ UNCHANGED <<lookup, opts, activeApp, config, trackerVars, down, led, heldKey, ch, hotplugVars, forgetVars>>

(* A word is over when anything but a letter or Backspace is typed.        *)
StillInWord == ev.key \in {"KEY_Z", "KEY_O", "KEY_BACKSPACE"} \cup ModifierKeys \/ ev.value = 0
Remember(restored) ==
  /\ original' = (IF undo' # NoUndo THEN original ELSE <<>>)
  /\ undone' = (restored \/ (undone /\ StillInWord))

(* The expander rewrote the text: whatever the corrector made of the event *)
(* is dropped and its picture of the text is given up.                     *)
KeepAfterExpansion == UNCHANGED <<buf, impure, overflow, suppressed, undo, pending>>
AfterExpansion     == Invalidate
ActOnExpansion ==
  /\ pc = "act" /\ expansion # NoExpansion
  /\ AfterExpansion
  /\ Finish
  /\ UNCHANGED <<enabled, text, ebuf, epending, disturbances>>
  /\ Remember(FALSE)

ActOnToggle ==
  /\ pc = "act" /\ expansion = NoExpansion /\ result.toggled
  /\ enabled' = ~enabled
  /\ Finish
  /\ UNCHANGED <<buf, impure, overflow, suppressed, undo, pending, text, ebuf, epending, disturbances>>
  /\ Remember(FALSE)

HasPlan == pc = "act" /\ expansion = NoExpansion /\ result.plan # NoPlan

(* After its own output the loop empties the expander's buffer.            *)
AfterCorrection == ResetExpander

ApplyPlan ==
  /\ HasPlan
  /\ \E t \in {Rewritten(result.plan, Len(result.plan.type))} \cup ChordEffects :
       Rewrite(result.plan, t) /\ text' = t
  /\ AfterCorrection /\ Finish
  /\ original' = (IF undo # NoUndo THEN Front(text) ELSE <<>>)
  /\ undone' = (result.undo \/ (undone /\ StillInWord))
  /\ UNCHANGED <<enabled, buf, impure, overflow, suppressed, undo, pending, disturbances>>

(* A failed edit leaves text nobody can vouch for.                         *)
IgnoreFailure == UNCHANGED <<buf, impure, overflow, suppressed, undo, pending>>
AfterFailure  == Invalidate
FailPlan ==
  /\ HasPlan /\ Disturb("output")
  /\ text' \in PartialEdits(result.plan)
  /\ AfterFailure /\ AfterCorrection
  /\ Finish
  /\ UNCHANGED enabled
  /\ Remember(FALSE)

ActOnNothing ==
  /\ pc = "act" /\ expansion = NoExpansion /\ ~result.toggled /\ result.plan = NoPlan
  /\ Finish
  /\ UNCHANGED <<enabled, buf, impure, overflow, suppressed, undo, pending, text, ebuf, epending, disturbances>>
  /\ Remember(FALSE)

-----------------------------------------------------------------------------
(* Disturbances: D-Bus calls, reloads, the dictionary, hotplug.            *)

(* D-Bus Enable and Disable: another goroutine, at any moment.             *)
DBusSetEnabled(v) ==
  /\ Disturb("dbus") /\ v # enabled
  /\ SetEnabled(v)
  /\ UNCHANGED <<lookup, opts, activeApp, buf, impure, overflow, suppressed, undo, pending, result>>
  /\ UNCHANGED <<expanderVars, trackerVars, screenVars, loopVars, hotplugVars, histVars>>

(* D-Bus SetActiveWindow: the compositor's report of the focused window.   *)
ActiveWindow(app) ==
  /\ Disturb("window") /\ app # activeApp
  /\ activeApp' = app
  /\ UNCHANGED <<enabled, lookup, opts, buf, impure, overflow, suppressed, undo, pending, result>>
  /\ UNCHANGED <<expanderVars, trackerVars, screenVars, loopVars, hotplugVars, histVars>>

(* The dictionary is attached when its load ends, detached when it is      *)
(* invalidated; both on the main loop.                                     *)
SetLookup ==
  /\ pc = "select" /\ Disturb("dictionary")
  /\ lookup' = ~lookup
  /\ UNCHANGED <<enabled, opts, activeApp, buf, impure, overflow, suppressed, undo, pending, result>>
  /\ UNCHANGED <<expanderVars, trackerVars, screenVars, loopVars, hotplugVars, histVars>>

(* A configuration reload: Expander.Reload, then, unless the settings are  *)
(* rejected, applySettings.  The enabled flag follows the file only when   *)
(* the file changed; a changed dictionary is detached.                     *)
ApplySettings(setup) ==
  /\ SetOptions(setup.options)
  /\ enabled' \in {enabled, setup.enabled}
  /\ lookup' \in {lookup, FALSE}

ReloadConfig(setup) ==
  /\ pc = "select" /\ Disturb("reload")
  /\ Reload(setup.expander)
  /\ ApplySettings(setup) \/ UNCHANGED correctorVars
  /\ Remember(FALSE)
  /\ UNCHANGED <<trackerVars, screenVars, loopVars, hotplugVars, forgetVars>>

(* A keyboard is pulled out when its last key has been handled: the loop   *)
(* reads modifiers when it takes an event, so a key still queued behind    *)
(* the notice of the unplugging would lose the modifiers it was typed with.*)
Unplug(d) ==
  /\ Disturb("hotplug") /\ d \in plugged /\ plugged # {d} /\ ch = <<>>
  /\ plugged' = plugged \ {d}
  /\ down' = [down EXCEPT ![d] = {}] /\ heldKey' = NoKey
  /\ blind' = [blind EXCEPT ![d] = {}]
  /\ UNCHANGED <<correctorVars, expanderVars, trackerVars, text, led, loopVars, monitored, original, undone, misled>>

PlugIn(d) ==
  /\ Disturb("hotplug") /\ d \in Devices \ (plugged \cup monitored)
  /\ plugged' = plugged \cup {d}
  /\ UNCHANGED <<correctorVars, expanderVars, trackerVars, screenVars, loopVars, monitored, histVars>>

(* The Caps Lock LED as the monitored keyboards report it. *)
CapsLockOn(keyboards) == led /\ keyboards # {}

(* The reader of a vanished keyboard has ended.                            *)
KeyboardDone(d) ==
  /\ pc = "select" /\ d \in monitored \ plugged
  /\ monitored' = monitored \ {d}
  /\ RemoveDevice(d, CapsLockOn(monitored \ {d}))
  /\ ResetExpander /\ ResetCorrector /\ Remember(FALSE)
  /\ UNCHANGED <<enabled, lookup, opts, activeApp, result, config, expansion, screenVars, loopVars,
                 plugged, disturbances, forgetVars>>

(* A rescan found keyboards new or gone.  The tracker is reset, whatever   *)
(* is held on the keyboards that stay.                                     *)
RefreshKeyboards ==
  /\ pc = "select" /\ plugged # monitored
  /\ monitored' = plugged
  /\ ForgetHeld
  /\ ResetTracker(CapsLockOn(plugged))
  /\ ResetExpander /\ ResetCorrector /\ Remember(FALSE)
  /\ UNCHANGED <<enabled, lookup, opts, activeApp, result, config, expansion, screenVars, loopVars,
                 plugged, disturbances>>

Loop ==
  \/ ReadEvent \/ RunExpander \/ ApplyExpansion \/ RunCorrector
  \/ ActOnExpansion \/ ActOnToggle \/ ApplyPlan \/ FailPlan \/ ActOnNothing

User ==
  \/ \E d \in Devices, key \in HeldKeys : PressModifier(d, key) \/ ReleaseModifier(d, key)
  \/ \E d \in Devices, key \in TypedKeys : PressKey(d, key)
  \/ \E d \in Devices : RepeatKey(d) \/ ReleaseKey(d)

Disturbance ==
  \/ \E v \in BOOLEAN : DBusSetEnabled(v)
  \/ \E app \in Apps : ActiveWindow(app)
  \/ SetLookup
  \/ \E setup \in Setups : ReloadConfig(setup)
  \/ \E d \in Devices : Unplug(d) \/ PlugIn(d) \/ KeyboardDone(d)
  \/ RefreshKeyboards

Next == Loop \/ User \/ Disturbance
Spec == Init /\ [][Next]_vars

-----------------------------------------------------------------------------
(* Properties.                                                             *)

(* Types of the loop, and of the corrector's plans.                        *)
TypeOK ==
  /\ CorrectorTypeOK /\ TrackerTypeOK
  /\ text \in Seq(Runes) /\ Len(text) <= MaxText
  /\ ebuf \in Seq(Runes) /\ Len(ebuf) <= MaxLen(config)
  /\ pc \in {"select", "expander", "expand", "corrector", "act"}
  /\ Len(ch) <= MaxAhead

(* The daemon has handled everything the user did.                         *)
Settled == pc = "select" /\ ch = <<>>

(* What follows is claimed as long as no key was handled while a modifier  *)
(* that a rescan had made the tracker forget was held (misled): such a key *)
(* is a shortcut for the application and text for the daemon.              *)

(* The corrector's buffer is what the screen shows before the cursor: an   *)
(* enabled corrector's word, unless it has overflowed, is a suffix of the  *)
(* text.  Every key the corrector does not understand, every edit, failure *)
(* and reset must leave it so (correct.go, HandleEvent and Invalidate).    *)
BufferIsScreenTail == Settled /\ ~overflow /\ ~misled => IsSuffix(buf, text)

(* While a correction can be undone, the corrected word and one separator  *)
(* stand directly before the cursor (undoState in correct.go).             *)
UndoCoversScreen ==
  Settled /\ undo # NoUndo /\ ~misled =>
    /\ text # <<>> /\ Last(text) \in Separators
    /\ IsSuffix(undo.emitted, Front(text))

(* A correction deferred until Shift goes up still covers the text before  *)
(* the cursor (pending in correct.go, pendingExpansion in expander.go).    *)
PendingCoversScreen ==
  Settled /\ ~misled =>
    /\ IsSuffix(pending.plan.restore, text)
    /\ IsSuffix(ExpansionEdit(epending).restore, text)

(* Every edit handed to the writer deletes exactly the text it says it     *)
(* covers: "Restore must be the exact text covered by Backspaces"          *)
(* (Edit in output.go).                                                    *)
EditCoversScreen ==
  ~misled =>
    /\ HasPlan => IsSuffix(result.plan.restore, text)
    /\ pc = "expand" => IsSuffix(ExpansionEdit(expansion).restore, text)

(* A correction rewrites whole words only: what stands before the word it  *)
(* replaces is a separator, an opener or nothing (the meaning of           *)
(* suppressed in correct.go).                                              *)
WholeWord ==
  HasPlan /\ ~result.undo =>
    LET before == Deleted(result.plan.backspaces) IN
    before = <<>> \/ Last(before) \in Separators \cup Openers

(* A word the user restored with Backspace is not corrected again.         *)
UndoIsFinal == HasPlan /\ undone => result.undo

(* A successful edit shows exactly the text it was asked to type, whatever *)
(* Caps Lock and the held modifiers are (Apply and Uinput.Type in          *)
(* output.go, the deferral in correct.go and expander.go).                 *)
EditAppears ==
  [][disturbances' = disturbances /\ ~misled =>
       /\ HasPlan /\ pc' = "select" =>
            text' = Deleted(result.plan.backspaces) \o result.plan.type
       /\ pc = "expand" /\ pc' = "corrector" =>
            LET edit == ExpansionEdit(expansion) IN
            text' = CursorBack(Deleted(edit.backspaces) \o edit.type, expansion.match.back)]_vars

(* An undo puts back the text the user typed, to the last character.       *)
UndoRestores ==
  [][HasPlan /\ result.undo /\ pc' = "select" /\ disturbances' = disturbances /\ ~misled =>
       text' = original]_vars

(* The expander's buffer is what the screen shows before the cursor.       *)
ExpanderBufferIsScreenTail == Settled /\ ~misled => IsSuffix(ebuf, text)

(* An edit deferred because of Shift or AltGr waits for their release and   *)
(* no longer: when nothing is outstanding one of them is still held, on    *)
(* some keyboard, as long as a correction or an expansion waits            *)
(* (HandleEvent in correct.go and expander.go, Modifiers in inputstate.go).*)
DeferredWhileHeld ==
  Settled /\ (pending # NoPending \/ epending # NoExpansion) =>
    Held \cap OutputModifiers # {}

(* When nothing is outstanding the modifiers and Caps Lock the daemon goes  *)
(* by are those the compositor sees, over all keyboards (the comment on    *)
(* Modifiers in inputstate.go), through unplugging, rescans and repeated   *)
(* events - less exactly the modifiers that were held when a rescan reset  *)
(* the tracker, each until its own next event (Reset in inputstate.go).    *)
HeldIsPhysical ==
  Settled /\ monitored = plugged =>
    /\ Held = { ModifierClass[k] : k \in UNION { down[d] \ blind[d] : d \in Devices } }
    /\ caps = led
=============================================================================
