------------------------------- MODULE Hotplug -------------------------------
(***************************************************************************)
(* Keyboards that come and go: keyboard.go and the hotplug cases of the    *)
(* main loop.  A monitor is a handle of a device node, read by a goroutine *)
(* of its own that sends key events on one channel and, when the read      *)
(* fails, the notice that it stopped on another; the loop takes from the   *)
(* two in any order and from time to time compares its monitors with the   *)
(* nodes that are there.  A node can vanish and be created again at the    *)
(* same path before anything of that has been noticed, so a handle is a    *)
(* path and the number of the Open that returned it.                       *)
(*                                                                         *)
(* External: the kernel.  A handle gets the key events of its keyboard     *)
(* from the moment it is opened, in a buffer that is lost when the         *)
(* keyboard is unplugged or the handle is closed.  MaxUnplugs, MaxMisses   *)
(* (a node that is there and cannot be opened) and MaxKeys bound what the  *)
(* environment does.  The debounce timer has no variable: the ticker may   *)
(* bring a rescan at any moment anyway.                                    *)
(***************************************************************************)
EXTENDS InputState

CONSTANTS TypedKeys, MaxUnplugs, MaxMisses, MaxKeys

ASSUME BudgetsAssumption == {MaxUnplugs, MaxMisses, MaxKeys} \subseteq Nat
ASSUME TypedKeysAssumption == TypedKeys \subseteq Keys

VARIABLES
  plugged,    \* paths whose node is there
  down,       \* down[p]: the modifier keys physically down on the keyboard at p
  led,        \* the Caps Lock LED
  monitors,   \* monitors[p]: number of the monitored handle of p, 0 for none
  opened,     \* opened[p]: how many handles of p were kept so far
  ended,      \* handles that were closed or whose keyboard is gone
  readers,    \* handles whose MonitorKeyboard goroutine runs
  buffer,     \* buffer[h]: key events the reader of h has still to send
  ch,         \* the channel of key events
  done,       \* handles whose exit notice waits on the channel keyboardDone
  word,       \* handles whose letters the corrector or the expander holds
  blind,      \* history: modifiers down on p that the tracker cannot know of
  unplugs, misses, keys   \* what is left of the bounds

loopVars == <<monitors, opened, readers, ch, done, word>>
kernelVars == <<plugged, down, led, ended, buffer>>
hotplugVars == <<trackerVars, loopVars, kernelVars, blind, unplugs, misses, keys>>

Handles == Devices \X (1..(1 + MaxUnplugs + MaxMisses))
PathOf(h) == h[1]
Live == readers \ ended

(* A key event as a reader sends it. *)
KeyEvents == [source : Handles, key : TypedKeys, value : 0..1]
Waiting(h) == { i \in DOMAIN ch : ch[i].source = h }

(* The map still names the handle the event was read from. *)
PathIsMonitored(h) == monitors[PathOf(h)] # 0
IsCurrentKeyboardEvent(h) == monitors[PathOf(h)] = h[2]

Monitored == { p \in Devices : monitors[p] # 0 }
Current == { <<p, monitors[p]>> : p \in Monitored }

(* The LED as the handles hs show it; one that ended shows nothing. *)
CapsLockOn(hs) == led /\ hs # {}

(* expander.ResetInputState and corrector.Reset. *)
KeepBuffers  == UNCHANGED word
ResetBuffers == word' = {}

(* FindKeyboards at start: the nodes that could be opened, at least one. *)
HotplugInit ==
  /\ plugged \in SUBSET Devices /\ plugged # {}
  /\ down = [p \in Devices |-> {}]
  /\ led = FALSE
  /\ \E found \in SUBSET plugged \ {{}} :
       /\ monitors = [p \in Devices |-> IF p \in found THEN 1 ELSE 0]
       /\ readers = { <<p, 1>> : p \in found }
       /\ TrackerInit(CapsLockOn(found))
  /\ opened = monitors
  /\ ended = {} /\ done = {} /\ word = {}
  /\ buffer = [h \in Handles |-> <<>>]
  /\ ch = <<>>
  /\ blind = [p \in Devices |-> {}]
  /\ unplugs = MaxUnplugs /\ misses = MaxMisses /\ keys = MaxKeys

-----------------------------------------------------------------------------
(* The environment. *)

(* A modifier or Caps Lock goes down or up, or a text key goes down, and    *)
(* every open handle of the keyboard gets the event.                       *)
PressKey(p, key) ==
  LET value == IF key \in down[p] THEN 0 ELSE 1
      event(h) == [source |-> h, key |-> key, value |-> value]
  IN
  /\ p \in plugged /\ keys > 0
  /\ keys' = keys - 1
  /\ down' = [down EXCEPT ![p] = IF key \notin ModifierKeys THEN @
                                 ELSE IF value = 1 THEN @ \cup {key} ELSE @ \ {key}]
  /\ led' = (led # (key = "KEY_CAPSLOCK"))
  /\ buffer' = [h \in Handles |-> IF h \in Live /\ PathOf(h) = p
                                  THEN Append(buffer[h], event(h)) ELSE buffer[h]]
  /\ UNCHANGED <<trackerVars, loopVars, plugged, ended, blind, unplugs, misses>>

(* The handles hs end.  Of their buffers at most the event is left that the *)
(* reader had taken out and not yet sent.                                  *)
Close(hs) ==
  /\ ended' = ended \cup hs
  /\ \E kept \in [hs \ ended -> 0..1] :
       buffer' = [h \in Handles |-> IF h \in hs \ ended /\ Len(buffer[h]) > kept[h]
                                    THEN SubSeq(buffer[h], 1, kept[h]) ELSE buffer[h]]

Unplug(p) ==
  /\ p \in plugged /\ unplugs > 0
  /\ unplugs' = unplugs - 1
  /\ plugged' = plugged \ {p}
  /\ down' = [down EXCEPT ![p] = {}]
  /\ Close({ h \in Live : PathOf(h) = p })
  /\ UNCHANGED <<trackerVars, loopVars, led, blind, misses, keys>>

Plug(p) ==
  /\ p \notin plugged
  /\ plugged' = plugged \cup {p}
  /\ UNCHANGED <<trackerVars, loopVars, down, led, ended, buffer, blind, unplugs, misses, keys>>

-----------------------------------------------------------------------------
(* MonitorKeyboard: read and send until the read fails, then report. *)

Forward(h) ==
  /\ h \in readers /\ buffer[h] # <<>>
  /\ ch' = Append(ch, Head(buffer[h]))
  /\ buffer' = [buffer EXCEPT ![h] = Tail(@)]
  /\ UNCHANGED <<trackerVars, monitors, opened, readers, done, word, plugged, down, led,
                 ended, blind, unplugs, misses, keys>>

ReaderStops(h) ==
  /\ h \in readers \cap ended /\ buffer[h] = <<>>
  /\ readers' = readers \ {h}
  /\ done' = done \cup {h}
  /\ UNCHANGED <<trackerVars, monitors, opened, ch, word, kernelVars, blind, unplugs, misses, keys>>

-----------------------------------------------------------------------------
(* The main loop. *)

HandleKey ==
  /\ ch # <<>>
  /\ ch' = Tail(ch)
  /\ LET e == Head(ch)
         p == PathOf(e.source)
     IN IF IsCurrentKeyboardEvent(e.source)
        THEN /\ Track(p, e.key, e.value)
             /\ word' = IF e.key \in TextKeys THEN word \cup {e.source} ELSE word
             /\ blind' = [blind EXCEPT ![p] = IF e.value = 0 THEN @ \ {e.key} ELSE @]
        ELSE UNCHANGED <<trackerVars, word, blind>>
  /\ UNCHANGED <<monitors, opened, readers, done, kernelVars, unplugs, misses, keys>>

(* case stopped := <-keyboardDone.  Only the notice of the handle the map   *)
(* names counts: the path may already have a new monitor.                  *)
StoppedIsMonitored(h) == monitors[PathOf(h)] = h[2]
KeyboardDone(h) ==
  /\ h \in done
  /\ done' = done \ {h}
  /\ IF StoppedIsMonitored(h)
     THEN /\ Close({ <<PathOf(h), monitors[PathOf(h)]>> })
          /\ monitors' = [monitors EXCEPT ![PathOf(h)] = 0]
          /\ RemoveDevice(PathOf(h), CapsLockOn(Current \ (ended \cup {h})))
          /\ ResetBuffers
     ELSE UNCHANGED <<ended, buffer, monitors, trackerVars, word>>
  /\ UNCHANGED <<opened, readers, ch, plugged, down, led, blind, unplugs, misses, keys>>

(* RefreshKeyboardMonitors and, when it changed something, the resets: the  *)
(* keyboards found that have no monitor get one, a monitor whose path was  *)
(* not found is closed.  A second handle of a monitored path is closed     *)
(* again at once.                                                          *)
Found(missed) == plugged \ missed
AllFound(found) == found
NeverOpened(found) == { p \in found : opened[p] = 0 }
Unmonitored(found) == found \ Monitored
Rescan(missed) ==
  LET found == Found(missed)
      new   == Unmonitored(found)
      lost  == Monitored \ found
      gone  == { <<p, monitors[p]>> : p \in lost }
  IN
  /\ missed \subseteq plugged /\ Cardinality(missed) <= misses
  /\ misses' = misses - Cardinality(missed)
  /\ new \cup lost # {}
  /\ opened' = [p \in Devices |-> opened[p] + IF p \in new THEN 1 ELSE 0]
  /\ monitors' = [p \in Devices |-> IF p \in new THEN opened'[p]
                                    ELSE IF p \in lost THEN 0 ELSE monitors[p]]
  /\ readers' = readers \cup { <<p, opened'[p]>> : p \in new }
  /\ Close(gone)
  /\ ResetTracker(CapsLockOn(new \cup (Current \ (ended \cup gone))))
  /\ ResetBuffers
  /\ blind' = [p \in Devices |-> IF p \in new THEN down[p]
                                 ELSE blind[p] \cup pressed[p]]
  /\ UNCHANGED <<ch, done, plugged, down, led, unplugs, keys>>

Readers == \E h \in Handles : Forward(h) \/ ReaderStops(h)
RescanAll == Rescan({})

HotplugNext ==
  \/ \E p \in Devices, key \in TypedKeys : PressKey(p, key)
  \/ \E p \in Devices : Unplug(p) \/ Plug(p)
  \/ Readers
  \/ HandleKey
  \/ \E h \in Handles : KeyboardDone(h)
  \/ \E missed \in SUBSET Devices : Rescan(missed)

(* Every reader runs, the loop takes what its channels hold, and the ticker *)
(* of five seconds goes on ticking, so a rescan that would change something *)
(* comes.  The user and the hardware owe nothing.                          *)
HotplugSpec ==
  /\ HotplugInit /\ [][HotplugNext]_hotplugVars
  /\ \A h \in Handles : /\ WF_hotplugVars(Forward(h) \/ ReaderStops(h))
                        /\ WF_hotplugVars(KeyboardDone(h))
  /\ WF_hotplugVars(HandleKey)
  /\ WF_hotplugVars(RescanAll)

-----------------------------------------------------------------------------
(* Once nothing of a keyboard is on its way any more, the tracker holds     *)
(* none of its modifiers that is not down, and every one that is down and  *)
(* was pressed after the keyboard was opened and after the last reset; and *)
(* it never holds one for a path without a monitor.  Late keys of an       *)
(* earlier handle, a handle closed with keys in its buffer and a keyboard  *)
(* pulled with Ctrl held could each break it.                              *)
TrackerAgrees ==
  \A p \in Devices :
    LET h == <<p, monitors[p]>> IN
    /\ monitors[p] = 0 => pressed[p] = {}
    /\ h \in Live /\ buffer[h] = <<>> /\ Waiting(h) = {}
         => /\ pressed[p] \subseteq down[p]
            /\ down[p] \ blind[p] \subseteq pressed[p]

(* The word under the corrector's and the expander's hands never holds a   *)
(* key of a keyboard that is not monitored any more: neither a key that    *)
(* arrives after the keyboard was given up nor one typed before.           *)
WordFromMonitored == word \subseteq Current

(* A handle that is still read is the one the map names for its path: no   *)
(* keyboard is read twice and no reader is left whose keys all go nowhere. *)
OneLiveReader == Live \subseteq Current

(* A keyboard that is still there loses its monitor only to a rescan that  *)
(* could not open it: the late notice of an earlier handle of the same     *)
(* path does not stop the new one.                                         *)
LiveKeyboardKept ==
  [][\A h \in Current \cap Live : h \notin Current' => misses' < misses]_hotplugVars

(* A keyboard that stays plugged in ends up monitored by a live reader and *)
(* one that stays away ends up without monitor and without held modifiers, *)
(* however nodes, rescans and notices interleave before.                   *)
MonitorsConverge ==
  \A p \in Devices :
    /\ <>[](p \in plugged) => <>[](<<p, monitors[p]>> \in Live)
    /\ <>[](p \notin plugged) => <>[](monitors[p] = 0 /\ pressed[p] = {})
=============================================================================
