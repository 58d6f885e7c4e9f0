---------------------------- MODULE HotplugProofs ----------------------------
(***************************************************************************)
(* Proofs about keyboards that come and go, for any finite set of paths,   *)
(* any keys and any number of unplugs, failed opens and key events.        *)
(*                                                                         *)
(* HotplugInv has three layers.  Books: the numbers of handles are counted *)
(* by opened and are never used twice.  Custody: a live reader is the one  *)
(* its path names, a monitored handle that has not ended is read and its   *)
(* keyboard is there.  Keys: of every modifier of a live keyboard the last *)
(* event on its way - in the buffer, else on the channel - says where the  *)
(* key is now, and with none on its way the tracker says so.               *)
(***************************************************************************)
EXTENDS Hotplug, InputStateProofs

HotplugTypeOK ==
  /\ plugged \subseteq Devices /\ led \in BOOLEAN
  /\ down \in [Devices -> SUBSET ModifierKeys]
  /\ blind \in [Devices -> SUBSET ModifierKeys]
  /\ monitors \in [Devices -> Nat] /\ opened \in [Devices -> Nat]
  /\ readers \cup ended \cup done \cup word \subseteq Handles
  /\ buffer \in [Handles -> Seq(KeyEvents)] /\ ch \in Seq(KeyEvents)
  /\ unplugs \in 0..MaxUnplugs /\ misses \in 0..MaxMisses /\ keys \in 0..MaxKeys

-----------------------------------------------------------------------------
(* Books.                                                                  *)

Used(h) == h[2] <= opened[PathOf(h)]
HandlesNumbered ==
  /\ \A p \in Devices : monitors[p] \in {0, opened[p]}
  /\ \A h \in readers \cup ended \cup done : Used(h)
  /\ \A h \in Handles : buffer[h] # <<>> => Used(h)
  /\ \A i \in DOMAIN ch : Used(ch[i].source)

EventsNameTheirHandle ==
  \A h \in Handles : \A i \in DOMAIN buffer[h] : buffer[h][i].source = h

(* A path is opened again only after an unplug or a failed open.           *)
HandleOf(p) == <<p, monitors[p]>>
Open(p)  == p \in Monitored /\ HandleOf(p) \notin ended
Spent    == (MaxUnplugs - unplugs) + (MaxMisses - misses)
OpenedWithinBudget == \A p \in Devices : opened[p] <= Spent + (IF Open(p) THEN 1 ELSE 0)

(* Custody.                                                                *)
Custody ==
  /\ \A p \in Devices : Open(p) => HandleOf(p) \in readers /\ p \in plugged
  /\ done \subseteq ended
  /\ OneLiveReader
  /\ WordFromMonitored
  /\ \A p \in Devices : monitors[p] = 0 => pressed[p] = {}

(* Keys.                                                                   *)
Tells(e, h, k) == e.source = h /\ e.key = k
Holds(q, h, k) == \E i \in DOMAIN q : Tells(q[i], h, k)
LastTells(q, h, k, value) ==
  \A i \in DOMAIN q :
    Tells(q[i], h, k) /\ (\A j \in DOMAIN q : j > i => ~Tells(q[j], h, k)) => q[i].value = value

Position(p, k) == IF k \in down[p] THEN 1 ELSE 0
KeyAgrees(p, k) ==
  LET h == HandleOf(p) IN
  /\ LastTells(buffer[h], h, k, Position(p, k))
  /\ ~Holds(buffer[h], h, k) => LastTells(ch, h, k, Position(p, k))
  /\ ~Holds(buffer[h], h, k) /\ ~Holds(ch, h, k) =>
       /\ k \in pressed[p] => k \in down[p]
       /\ k \in down[p] \ blind[p] => k \in pressed[p]

KeysAgree == \A p \in Devices : Open(p) => \A k \in ModifierKeys : KeyAgrees(p, k)

HotplugInv ==
  /\ TrackerTypeOK /\ HotplugTypeOK
  /\ HandlesNumbered /\ EventsNameTheirHandle /\ OpenedWithinBudget
  /\ Custody /\ KeysAgree
-----------------------------------------------------------------------------
(* Sequences of key events.                                                *)

LEMMA EmptyTells ==
  ASSUME NEW h, NEW k, NEW value
  PROVE  ~Holds(<<>>, h, k) /\ LastTells(<<>>, h, k, value)
BY DEF Holds, LastTells

LEMMA AppendEvent ==
  ASSUME NEW q \in Seq(KeyEvents), NEW e \in KeyEvents
  PROVE  /\ Append(q, e) \in Seq(KeyEvents) /\ Append(q, e) # <<>>
         /\ \A i \in DOMAIN Append(q, e) :
              (i \in DOMAIN q /\ Append(q, e)[i] = q[i]) \/ Append(q, e)[i] = e
OBVIOUS

LEMMA AppendTells ==
  ASSUME NEW q \in Seq(KeyEvents), NEW e \in KeyEvents, NEW h, NEW k, NEW value
  PROVE  /\ Holds(Append(q, e), h, k) <=> Holds(q, h, k) \/ Tells(e, h, k)
         /\ Tells(e, h, k) /\ e.value = value => LastTells(Append(q, e), h, k, value)
         /\ ~Tells(e, h, k) /\ LastTells(q, h, k, value) => LastTells(Append(q, e), h, k, value)
<1> DEFINE a == Append(q, e)
<1>1. /\ DOMAIN q = 1..Len(q) /\ DOMAIN a = 1..(Len(q) + 1) /\ Len(q) \in Nat
      /\ \A i \in DOMAIN q : a[i] = q[i]
      /\ a[Len(q) + 1] = e
  OBVIOUS
<1> HIDE DEF a
<1>2. Holds(a, h, k) <=> Holds(q, h, k) \/ Tells(e, h, k)
  <2>1. \A i \in DOMAIN a : i \in DOMAIN q \/ i = Len(q) + 1
    BY <1>1
  <2>2. DOMAIN q \subseteq DOMAIN a /\ Len(q) + 1 \in DOMAIN a
    BY <1>1
  <2> QED
    BY <1>1, <2>1, <2>2 DEF Holds
<1>3. ASSUME Tells(e, h, k), e.value = value
      PROVE  LastTells(a, h, k, value)
  BY <1>1, <1>3 DEF LastTells
<1>4. ASSUME ~Tells(e, h, k), LastTells(q, h, k, value)
      PROVE  LastTells(a, h, k, value)
  BY <1>1, <1>4 DEF LastTells
<1> QED
  BY <1>2, <1>3, <1>4 DEF a

LEMMA TailTells ==
  ASSUME NEW q \in Seq(KeyEvents), q # <<>>, NEW h, NEW k, NEW value
  PROVE  /\ Holds(q, h, k) <=> Tells(Head(q), h, k) \/ Holds(Tail(q), h, k)
         /\ LastTells(q, h, k, value) => LastTells(Tail(q), h, k, value)
         /\ LastTells(q, h, k, value) /\ ~Holds(Tail(q), h, k) /\ Tells(Head(q), h, k)
              => Head(q).value = value
<1> DEFINE t == Tail(q)
<1>1. /\ DOMAIN q = 1..Len(q) /\ Len(q) \in Nat \ {0} /\ DOMAIN t = 1..(Len(q) - 1)
      /\ \A i \in DOMAIN t : t[i] = q[i + 1]
      /\ Head(q) = q[1]
  OBVIOUS
<1> HIDE DEF t
<1>2. \A i \in DOMAIN q : i = 1 \/ (i - 1 \in DOMAIN t /\ q[i] = t[i - 1])
  BY <1>1
<1>3. \A i \in DOMAIN t : i + 1 \in DOMAIN q /\ t[i] = q[i + 1]
  BY <1>1
<1>4. Holds(q, h, k) <=> Tells(q[1], h, k) \/ Holds(t, h, k)
  BY <1>1, <1>2, <1>3 DEF Holds
<1>5. ASSUME LastTells(q, h, k, value)
      PROVE  LastTells(t, h, k, value)
  <2> SUFFICES ASSUME NEW i \in DOMAIN t, Tells(t[i], h, k), \A j \in DOMAIN t : j > i => ~Tells(t[j], h, k)
               PROVE  t[i].value = value
    BY DEF LastTells
  <2>1. \A j \in DOMAIN q : j > i + 1 => ~Tells(q[j], h, k)
    BY <1>1, <1>2
  <2> QED
    BY <1>1, <1>3, <1>5, <2>1 DEF LastTells
<1>6. ASSUME LastTells(q, h, k, value), ~Holds(t, h, k), Tells(q[1], h, k)
      PROVE  q[1].value = value
  BY <1>1, <1>2, <1>6 DEF LastTells, Holds
<1> QED
  BY <1>1, <1>4, <1>5, <1>6 DEF t
-----------------------------------------------------------------------------
(* Handles and their closing.                                              *)

LEMMA HandleFacts ==
  /\ \A h \in Handles : PathOf(h) \in Devices /\ h[2] \in Nat /\ h[2] # 0 /\ h = <<PathOf(h), h[2]>>
  /\ \A p \in Devices : PathOf(HandleOf(p)) = p /\ HandleOf(p)[2] = monitors[p]
  /\ Current = { HandleOf(p) : p \in Monitored }
BY BudgetsAssumption DEF Handles, PathOf, HandleOf, Current

(* A sequence cut off after n of its elements.                             *)
LEMMA CutBuffer ==
  ASSUME NEW q \in Seq(KeyEvents), NEW n \in 0..1, Len(q) > n
  PROVE  /\ SubSeq(q, 1, n) \in Seq(KeyEvents)
         /\ \A i \in DOMAIN SubSeq(q, 1, n) : i \in DOMAIN q /\ SubSeq(q, 1, n)[i] = q[i]
OBVIOUS

(* Closing handles changes no other buffer, and adds nothing to any.       *)
LEMMA CloseKeeps ==
  ASSUME HotplugTypeOK, NEW hs, Close(hs)
  PROVE  /\ ended' = ended \cup hs
         /\ buffer' \in [Handles -> Seq(KeyEvents)]
         /\ \A h \in Handles : h \notin hs \ ended => buffer'[h] = buffer[h]
         /\ \A h \in Handles : /\ buffer'[h] # <<>> => buffer[h] # <<>>
                              /\ \A i \in DOMAIN buffer'[h] : i \in DOMAIN buffer[h] /\ buffer'[h][i] = buffer[h][i]
<1>1. PICK kept \in [hs \ ended -> 0..1] :
        buffer' = [h \in Handles |-> IF h \in hs \ ended /\ Len(buffer[h]) > kept[h]
                                     THEN SubSeq(buffer[h], 1, kept[h]) ELSE buffer[h]]
  BY DEF Close
<1>2. ASSUME NEW h \in Handles
      PROVE  /\ buffer'[h] \in Seq(KeyEvents)
             /\ h \notin hs \ ended => buffer'[h] = buffer[h]
             /\ buffer'[h] # <<>> => buffer[h] # <<>>
             /\ \A i \in DOMAIN buffer'[h] : i \in DOMAIN buffer[h] /\ buffer'[h][i] = buffer[h][i]
  <2> DEFINE q == buffer[h]
  <2>1. q \in Seq(KeyEvents)
    BY DEF HotplugTypeOK
  <2>2. CASE h \in hs \ ended /\ Len(q) > kept[h]
    <3>1. kept[h] \in 0..1 /\ buffer'[h] = SubSeq(q, 1, kept[h])
      BY <1>1, <2>2
    <3>2. q # <<>>
      BY <2>1, <2>2, <3>1
    <3> HIDE DEF q
    <3>3. /\ SubSeq(q, 1, kept[h]) \in Seq(KeyEvents)
          /\ \A i \in DOMAIN SubSeq(q, 1, kept[h]) : i \in DOMAIN q /\ SubSeq(q, 1, kept[h])[i] = q[i]
      BY <2>1, <2>2, <3>1, CutBuffer
    <3> QED
      BY <2>2, <3>1, <3>2, <3>3 DEF q
  <2>3. CASE ~(h \in hs \ ended /\ Len(q) > kept[h])
    BY <1>1, <2>1, <2>3
  <2> QED
    BY <2>2, <2>3
<1>3. buffer' = [h \in Handles |-> buffer'[h]]
  BY <1>1
<1> QED
  BY <1>2, <1>3 DEF Close

-----------------------------------------------------------------------------
(* The tracker takes the steps InputState allows it.                       *)

LEMMA LedIsBoolean ==
  ASSUME HotplugTypeOK, NEW hs
  PROVE  CapsLockOn(hs) \in BOOLEAN
BY DEF HotplugTypeOK, CapsLockOn

LEMMA HotplugInitIsInputInit == HotplugInit => InputInit
<1> SUFFICES ASSUME HotplugInit PROVE InputInit
  OBVIOUS
<1>1. PICK found : TrackerInit(CapsLockOn(found))
  BY DEF HotplugInit
<1>2. CapsLockOn(found) \in BOOLEAN
  BY DEF HotplugInit, CapsLockOn
<1> QED
  BY <1>1, <1>2 DEF InputInit

LEMMA HotplugStepIsInputStep ==
  HotplugTypeOK /\ [HotplugNext]_hotplugVars => [InputNext]_trackerVars
<1> SUFFICES ASSUME HotplugTypeOK, [HotplugNext]_hotplugVars
             PROVE  [InputNext]_trackerVars
  OBVIOUS
<1>1. ASSUME HandleKey PROVE [InputNext]_trackerVars
  <2> DEFINE e == Head(ch)
  <2>1. e \in KeyEvents
    BY <1>1 DEF HotplugTypeOK, HandleKey
  <2>2. PathOf(e.source) \in Devices /\ e.key \in Keys /\ e.value \in 0..2
    BY <2>1, HandleFacts, TypedKeysAssumption DEF KeyEvents
  <2>3. Track(PathOf(e.source), e.key, e.value) \/ UNCHANGED trackerVars
    BY <1>1 DEF HandleKey
  <2> HIDE DEF e
  <2> QED
    BY <2>2, <2>3 DEF InputNext
<1>2. ASSUME NEW h \in Handles, KeyboardDone(h) PROVE [InputNext]_trackerVars
  <2>1. PICK hs : RemoveDevice(PathOf(h), CapsLockOn(hs)) \/ UNCHANGED trackerVars
    BY <1>2 DEF KeyboardDone, trackerVars
  <2> QED
    BY <2>1, HandleFacts, LedIsBoolean DEF InputNext
<1>3. ASSUME NEW missed \in SUBSET Devices, Rescan(missed) PROVE [InputNext]_trackerVars
  <2>1. PICK hs : ResetTracker(CapsLockOn(hs))
    BY <1>3 DEF Rescan
  <2> QED
    BY <2>1, LedIsBoolean DEF InputNext
<1> QED
  BY <1>1, <1>2, <1>3
     DEF HotplugNext, PressKey, Unplug, Plug, Readers, Forward, ReaderStops, hotplugVars
-----------------------------------------------------------------------------
(* The environment's steps.                                                *)

LEMMA PressKeyKeepsInv ==
  ASSUME HotplugInv, NEW p \in Devices, NEW key \in TypedKeys, PressKey(p, key), TrackerTypeOK'
  PROVE  HotplugInv'
<1> DEFINE value == IF key \in down[p] THEN 0 ELSE 1
           event(h) == [source |-> h, key |-> key, value |-> value]
<1>1. /\ UNCHANGED <<trackerVars, loopVars, plugged, ended, blind, unplugs, misses>>
      /\ keys' \in 0..MaxKeys /\ led' \in BOOLEAN
      /\ p \in plugged
  BY BudgetsAssumption DEF PressKey, HotplugInv, HotplugTypeOK
<1>2. \A h \in Handles : event(h) \in KeyEvents /\ event(h).source = h
  BY DEF KeyEvents
<1>3. \A h \in Handles : buffer'[h] = IF h \in Live /\ PathOf(h) = p
                                      THEN Append(buffer[h], event(h)) ELSE buffer[h]
  BY DEF PressKey
<1> HIDE DEF event
<1>4. HotplugTypeOK'
  <2>1. buffer' \in [Handles -> Seq(KeyEvents)]
    <3>1. buffer' = [h \in Handles |-> buffer'[h]]
      BY DEF PressKey
    <3>2. \A h \in Handles : buffer'[h] \in Seq(KeyEvents)
      <4>1. \A h \in Handles : buffer[h] \in Seq(KeyEvents)
        BY DEF HotplugInv, HotplugTypeOK
      <4> QED
        BY <1>2, <1>3, <4>1, AppendEvent
    <3> QED
      BY <3>1, <3>2
  <2>2. down' \in [Devices -> SUBSET ModifierKeys]
    BY DEF PressKey, HotplugInv, HotplugTypeOK
  <2> QED
    BY <1>1, <2>1, <2>2 DEF loopVars, HotplugInv, HotplugTypeOK
<1>5. HandlesNumbered'
  <2>1. \A h \in Handles : buffer'[h] # <<>> => Used(h)
    BY <1>3 DEF Live, HotplugInv, HandlesNumbered
  <2> QED
    BY <1>1, <2>1 DEF loopVars, HotplugInv, HandlesNumbered, Used
<1>6. EventsNameTheirHandle'
  <2> SUFFICES ASSUME NEW h \in Handles, NEW i \in DOMAIN buffer'[h]
               PROVE  buffer'[h][i].source = h
    BY DEF EventsNameTheirHandle
  <2>1. buffer[h] \in Seq(KeyEvents) /\ \A j \in DOMAIN buffer[h] : buffer[h][j].source = h
    BY DEF HotplugInv, HotplugTypeOK, EventsNameTheirHandle
  <2>2. CASE buffer'[h] = buffer[h]
    BY <2>1, <2>2
  <2>3. CASE buffer'[h] = Append(buffer[h], event(h))
    <3>1. (i \in DOMAIN buffer[h] /\ buffer'[h][i] = buffer[h][i]) \/ buffer'[h][i] = event(h)
      BY <1>2, <2>1, <2>3, AppendEvent
    <3> QED
      BY <1>2, <2>1, <3>1
  <2> QED
    BY <1>3, <2>2, <2>3
<1>7. OpenedWithinBudget'
  BY <1>1 DEF loopVars, HotplugInv, OpenedWithinBudget, Spent, Open, HandleOf, Monitored
<1>8. Custody'
  BY <1>1 DEF loopVars, trackerVars, HotplugInv, Custody, Open, HandleOf, Monitored, Live,
              OneLiveReader, WordFromMonitored, Current
<1>9. KeysAgree'
  <2> SUFFICES ASSUME NEW q \in Devices, Open(q)', NEW k \in ModifierKeys
               PROVE  KeyAgrees(q, k)'
    BY DEF KeysAgree
  <2> DEFINE h == HandleOf(q)
  <2>1. Open(q) /\ HandleOf(q)' = h
    BY <1>1 DEF loopVars, Open, HandleOf, Monitored
  <2>2. KeyAgrees(q, k) /\ h \in Live /\ h \in Handles /\ PathOf(h) = q
    BY <2>1 DEF HotplugInv, KeysAgree, Custody, Live, Open, PathOf, HandleOf, HotplugTypeOK
  <2>3. ch' = ch /\ pressed' = pressed /\ blind' = blind
    BY <1>1 DEF loopVars, trackerVars
  <2>4. CASE q # p
    <3>1. buffer'[h] = buffer[h] /\ down'[q] = down[q]
      BY <1>3, <2>2, <2>4 DEF PressKey, HotplugInv, HotplugTypeOK
    <3> QED
      BY <2>1, <2>2, <2>3, <3>1 DEF KeyAgrees, Position
  <2>5. CASE q = p /\ k # key
    <3>1. buffer'[h] = Append(buffer[h], event(h)) /\ ~Tells(event(h), h, k)
      BY <1>3, <2>2, <2>5 DEF Tells, event
    <3>2. k \in down'[q] <=> k \in down[q]
      BY <2>5 DEF PressKey, HotplugInv, HotplugTypeOK
    <3>3. buffer[h] \in Seq(KeyEvents) /\ event(h) \in KeyEvents
      BY <1>2, <2>2 DEF HotplugInv, HotplugTypeOK
    <3>4. /\ Holds(buffer'[h], h, k) <=> Holds(buffer[h], h, k)
          /\ LastTells(buffer'[h], h, k, Position(q, k))
      BY <2>2, <3>1, <3>3, AppendTells DEF KeyAgrees
    <3> QED
      BY <2>1, <2>2, <2>3, <3>2, <3>4 DEF KeyAgrees, Position
  <2>6. CASE q = p /\ k = key
    <3>1. /\ buffer'[h] = Append(buffer[h], event(h))
          /\ Tells(event(h), h, k) /\ event(h).value = value
      BY <1>3, <2>2, <2>6 DEF Tells, event
    <3>2. Position(q, k)' = value
      BY <2>6 DEF PressKey, HotplugInv, HotplugTypeOK, Position
    <3>3. buffer[h] \in Seq(KeyEvents) /\ event(h) \in KeyEvents
      BY <1>2, <2>2 DEF HotplugInv, HotplugTypeOK
    <3>4. Holds(buffer'[h], h, k) /\ LastTells(buffer'[h], h, k, value)
      <4> HIDE DEF value
      <4> QED BY <3>1, <3>3, AppendTells
    <3> QED
      BY <2>1, <3>2, <3>4 DEF KeyAgrees
  <2> QED
    BY <2>4, <2>5, <2>6
<1> QED
  BY <1>4, <1>5, <1>6, <1>7, <1>8, <1>9 DEF HotplugInv

LEMMA PlugKeepsInv ==
  ASSUME HotplugInv, NEW p \in Devices, Plug(p), TrackerTypeOK'
  PROVE  HotplugInv'
<1>1. /\ UNCHANGED <<trackerVars, loopVars, down, led, ended, buffer, blind, unplugs, misses, keys>>
      /\ plugged' = plugged \cup {p}
  BY DEF Plug
<1>2. HotplugTypeOK'
  BY <1>1 DEF loopVars, HotplugInv, HotplugTypeOK
<1>3. HandlesNumbered' /\ EventsNameTheirHandle'
  BY <1>1 DEF loopVars, HotplugInv, HandlesNumbered, Used, EventsNameTheirHandle
<1>4. OpenedWithinBudget'
  BY <1>1 DEF loopVars, HotplugInv, OpenedWithinBudget, Spent, Open, HandleOf, Monitored
<1>5. Custody'
  BY <1>1 DEF loopVars, trackerVars, HotplugInv, Custody, Open, HandleOf, Monitored, Live,
              OneLiveReader, WordFromMonitored, Current
<1>6. KeysAgree'
  BY <1>1 DEF loopVars, trackerVars, HotplugInv, KeysAgree, KeyAgrees, Open, HandleOf, Monitored, Position
<1> QED
  BY <1>2, <1>3, <1>4, <1>5, <1>6 DEF HotplugInv
LEMMA UnplugKeepsInv ==
  ASSUME HotplugInv, NEW p \in Devices, Unplug(p), TrackerTypeOK'
  PROVE  HotplugInv'
<1> DEFINE hs == { h \in Live : PathOf(h) = p }
<1>1. /\ UNCHANGED <<trackerVars, loopVars, led, blind, misses, keys>>
      /\ plugged' = plugged \ {p} /\ down' = [down EXCEPT ![p] = {}]
      /\ unplugs' = unplugs - 1 /\ unplugs' \in 0..MaxUnplugs
  BY BudgetsAssumption DEF Unplug, HotplugInv, HotplugTypeOK
<1>2. /\ ended' = ended \cup hs
      /\ buffer' \in [Handles -> Seq(KeyEvents)]
      /\ \A h \in Handles : h \notin hs => buffer'[h] = buffer[h]
      /\ \A h \in Handles : /\ buffer'[h] # <<>> => buffer[h] # <<>>
                            /\ \A i \in DOMAIN buffer'[h] : i \in DOMAIN buffer[h] /\ buffer'[h][i] = buffer[h][i]
  <2>1. Close(hs)
    BY DEF Unplug
  <2> HIDE DEF hs
  <2> QED
    BY <2>1, CloseKeeps DEF HotplugInv
<1>3. hs \subseteq readers
  BY DEF Live
<1>4. HotplugTypeOK'
  BY <1>1, <1>2, <1>3 DEF loopVars, HotplugInv, HotplugTypeOK
<1>5. HandlesNumbered'
  BY <1>1, <1>2, <1>3 DEF loopVars, HotplugInv, HandlesNumbered, Used
<1>6. EventsNameTheirHandle'
  BY <1>2 DEF HotplugInv, EventsNameTheirHandle
<1>7. \A q \in Devices : /\ HandleOf(q)' = HandleOf(q)
                         /\ Open(q)' => Open(q) /\ q # p
                         /\ q # p => (Open(q)' <=> Open(q)) /\ HandleOf(q) \notin hs
  <2>1. \A q \in Devices : Open(q) => HandleOf(q) \in Live
    BY DEF HotplugInv, Custody, Live, Open
  <2>2. \A q \in Devices : Open(q)' => Open(q) /\ HandleOf(q) \notin hs
    BY <1>1, <1>2 DEF loopVars, Open, HandleOf, Monitored
  <2>3. \A q \in Devices : q # p => HandleOf(q) \notin hs
    BY DEF HandleOf, PathOf
  <2>4. \A q \in Devices : HandleOf(q)' = HandleOf(q)
    BY <1>1 DEF loopVars, HandleOf
  <2>5. Open(p) => HandleOf(p) \in hs
    BY <2>1 DEF HandleOf, PathOf
  <2>6. \A q \in Devices : Open(q) /\ HandleOf(q) \notin hs => Open(q)'
    BY <1>1, <1>2 DEF loopVars, Open, HandleOf, Monitored
  <2> QED
    BY <2>2, <2>3, <2>4, <2>5, <2>6
<1>8. OpenedWithinBudget'
  <2>1. Spent' = Spent + 1 /\ Spent \in Nat
    BY <1>1, BudgetsAssumption DEF Spent, HotplugInv, HotplugTypeOK
  <2>2. ASSUME NEW q \in Devices
        PROVE  opened'[q] <= Spent' + (IF Open(q)' THEN 1 ELSE 0)
    <3>1. opened[q] <= Spent + (IF Open(q) THEN 1 ELSE 0) /\ opened'[q] = opened[q] /\ opened[q] \in Nat
      BY <1>1 DEF loopVars, HotplugInv, OpenedWithinBudget, HotplugTypeOK
    <3> QED
      BY <2>1, <3>1
  <2> QED
    BY <2>2 DEF OpenedWithinBudget
<1>9. Custody'
  <2>1. \A q \in Devices : Open(q)' => HandleOf(q)' \in readers' /\ q \in plugged'
    BY <1>1, <1>7 DEF loopVars, HotplugInv, Custody
  <2>2. Live' \subseteq Live /\ Current' = Current /\ Monitored' = Monitored
    BY <1>1, <1>2 DEF loopVars, Live, Current, Monitored
  <2> QED
    BY <1>1, <1>2, <2>1, <2>2 DEF loopVars, trackerVars, HotplugInv, Custody, OneLiveReader, WordFromMonitored
<1>10. KeysAgree'
  <2> SUFFICES ASSUME NEW q \in Devices, Open(q)', NEW k \in ModifierKeys
               PROVE  KeyAgrees(q, k)'
    BY DEF KeysAgree
  <2>1. Open(q) /\ q # p /\ HandleOf(q)' = HandleOf(q) /\ HandleOf(q) \in Handles /\ HandleOf(q) \notin hs
    BY <1>7 DEF HotplugInv, Custody, HotplugTypeOK
  <2>2. buffer'[HandleOf(q)] = buffer[HandleOf(q)] /\ down'[q] = down[q]
    BY <1>1, <1>2, <2>1 DEF HotplugInv, HotplugTypeOK
  <2> HIDE DEF hs
  <2> QED
    BY <1>1, <2>1, <2>2 DEF loopVars, trackerVars, HotplugInv, KeysAgree, KeyAgrees, Position
<1> QED
  BY <1>4, <1>5, <1>6, <1>8, <1>9, <1>10 DEF HotplugInv

-----------------------------------------------------------------------------
(* The readers' steps.                                                     *)

LEMMA ForwardKeepsInv ==
  ASSUME HotplugInv, NEW h \in Handles, Forward(h), TrackerTypeOK'
  PROVE  HotplugInv'
<1> DEFINE e == Head(buffer[h])
<1>1. /\ UNCHANGED <<trackerVars, monitors, opened, readers, done, word, plugged, down, led,
                     ended, blind, unplugs, misses, keys>>
      /\ ch' = Append(ch, e)
      /\ buffer' = [buffer EXCEPT ![h] = Tail(@)]
      /\ h \in readers
  BY DEF Forward
<1>2. buffer[h] \in Seq(KeyEvents) /\ buffer[h] # <<>> /\ ch \in Seq(KeyEvents)
  BY DEF Forward, HotplugInv, HotplugTypeOK
<1>3. /\ e \in KeyEvents /\ Tail(buffer[h]) \in Seq(KeyEvents)
      /\ \A i \in DOMAIN Tail(buffer[h]) : i + 1 \in DOMAIN buffer[h] /\ Tail(buffer[h])[i] = buffer[h][i + 1]
      /\ 1 \in DOMAIN buffer[h] /\ e = buffer[h][1]
  BY <1>2
<1>4. e.source = h
  BY <1>3 DEF HotplugInv, EventsNameTheirHandle
<1>5. /\ buffer'[h] = Tail(buffer[h])
      /\ \A g \in Handles \ {h} : buffer'[g] = buffer[g]
  BY <1>1 DEF HotplugInv, HotplugTypeOK
<1> HIDE DEF e
<1>6. HotplugTypeOK'
  <2>1. buffer' \in [Handles -> Seq(KeyEvents)]
    BY <1>1, <1>3 DEF HotplugInv, HotplugTypeOK
  <2>2. ch' \in Seq(KeyEvents)
    BY <1>1, <1>2, <1>3, AppendEvent
  <2> QED
    BY <1>1, <2>1, <2>2 DEF HotplugInv, HotplugTypeOK
<1>7. HandlesNumbered'
  <2>1. \A i \in DOMAIN ch' : Used(ch'[i].source)
    <3>1. Used(h)
      BY <1>1 DEF HotplugInv, HandlesNumbered
    <3> QED
      BY <1>1, <1>2, <1>3, <1>4, <3>1, AppendEvent DEF HotplugInv, HandlesNumbered
  <2>2. \A g \in Handles : buffer'[g] # <<>> => Used(g)
    BY <1>1, <1>5 DEF HotplugInv, HandlesNumbered
  <2> QED
    BY <1>1, <2>1, <2>2 DEF HotplugInv, HandlesNumbered, Used
<1>8. EventsNameTheirHandle'
  <2>1. ASSUME NEW i \in DOMAIN buffer'[h] PROVE buffer'[h][i].source = h
    <3>1. i + 1 \in DOMAIN buffer[h] /\ buffer'[h][i] = buffer[h][i + 1]
      BY <1>3, <1>5
    <3> QED
      BY <3>1 DEF HotplugInv, EventsNameTheirHandle
  <2>2. ASSUME NEW g \in Handles, g # h, NEW i \in DOMAIN buffer'[g] PROVE buffer'[g][i].source = g
    BY <1>5, <2>2 DEF HotplugInv, EventsNameTheirHandle
  <2> QED
    BY <2>1, <2>2 DEF EventsNameTheirHandle
<1>9. OpenedWithinBudget'
  BY <1>1 DEF HotplugInv, OpenedWithinBudget, Spent, Open, HandleOf, Monitored
<1>10. Custody'
  BY <1>1 DEF trackerVars, HotplugInv, Custody, Open, HandleOf, Monitored, Live,
              OneLiveReader, WordFromMonitored, Current
<1>11. KeysAgree'
  <2> SUFFICES ASSUME NEW q \in Devices, Open(q)', NEW k \in ModifierKeys
               PROVE  KeyAgrees(q, k)'
    BY DEF KeysAgree
  <2> DEFINE g == HandleOf(q)
  <2>1. Open(q) /\ HandleOf(q)' = g
    BY <1>1 DEF Open, HandleOf, Monitored
  <2>2. KeyAgrees(q, k) /\ g \in Handles
    BY <2>1 DEF HotplugInv, KeysAgree, Custody, HotplugTypeOK
  <2>3. pressed' = pressed /\ blind' = blind /\ down' = down
    BY <1>1 DEF trackerVars
  <2>4. CASE ~Tells(e, g, k)
    <3>1. Holds(ch', g, k) <=> Holds(ch, g, k)
      BY <1>1, <1>2, <1>3, <2>4, AppendTells
    <3>2. LastTells(ch, g, k, Position(q, k)) => LastTells(ch', g, k, Position(q, k))
      BY <1>1, <1>2, <1>3, <2>4, AppendTells
    <3>3. Holds(buffer'[g], g, k) <=> Holds(buffer[g], g, k)
      BY <1>2, <1>5, <2>2, <2>4, TailTells DEF e
    <3>4. LastTells(buffer'[g], g, k, Position(q, k))
      BY <1>2, <1>5, <2>2, TailTells DEF KeyAgrees
    <3> QED
      BY <2>1, <2>2, <2>3, <3>1, <3>2, <3>3, <3>4 DEF KeyAgrees, Position
  <2>5. CASE Tells(e, g, k)
    <3>1. g = h /\ Tells(Head(buffer[h]), h, k)
      BY <1>4, <2>5 DEF Tells, e
    <3>2. Holds(ch', g, k)
      BY <1>1, <1>2, <1>3, <2>5, AppendTells
    <3>3. LastTells(buffer'[g], g, k, Position(q, k))
      BY <1>2, <1>5, <2>2, TailTells DEF KeyAgrees
    <3>4. ASSUME ~Holds(buffer'[g], g, k)
          PROVE  LastTells(ch', g, k, Position(q, k))
      <4>1. Head(buffer[h]).value = Position(q, k)
        BY <1>2, <1>5, <2>2, <3>1, <3>4, TailTells DEF KeyAgrees
      <4> QED
        BY <1>1, <1>2, <1>3, <2>5, <4>1, AppendTells DEF e
    <3> QED
      BY <2>1, <2>3, <3>2, <3>3, <3>4 DEF KeyAgrees, Position
  <2> QED
    BY <2>4, <2>5
<1> QED
  BY <1>6, <1>7, <1>8, <1>9, <1>10, <1>11 DEF HotplugInv

LEMMA ReaderStopsKeepsInv ==
  ASSUME HotplugInv, NEW h \in Handles, ReaderStops(h), TrackerTypeOK'
  PROVE  HotplugInv'
<1>1. /\ UNCHANGED <<trackerVars, monitors, opened, ch, word, kernelVars, blind, unplugs, misses, keys>>
      /\ readers' = readers \ {h} /\ done' = done \cup {h}
      /\ h \in readers /\ h \in ended
  BY DEF ReaderStops
<1>2. HotplugTypeOK'
  BY <1>1 DEF kernelVars, HotplugInv, HotplugTypeOK
<1>3. HandlesNumbered' /\ EventsNameTheirHandle'
  BY <1>1 DEF kernelVars, HotplugInv, HandlesNumbered, Used, EventsNameTheirHandle
<1>4. OpenedWithinBudget'
  BY <1>1 DEF kernelVars, HotplugInv, OpenedWithinBudget, Spent, Open, HandleOf, Monitored
<1>5. Custody'
  BY <1>1 DEF kernelVars, trackerVars, HotplugInv, Custody, Open, HandleOf, Monitored, Live,
              OneLiveReader, WordFromMonitored, Current
<1>6. KeysAgree'
  BY <1>1 DEF kernelVars, trackerVars, HotplugInv, KeysAgree, KeyAgrees, Open, HandleOf, Monitored, Position
<1> QED
  BY <1>2, <1>3, <1>4, <1>5, <1>6 DEF HotplugInv
-----------------------------------------------------------------------------
(* The main loop's steps.                                                  *)

(* What an event does to the modifiers pressed on its keyboard.            *)
LEMMA TrackPresses ==
  ASSUME TrackerTypeOK, NEW p \in Devices, NEW key \in Keys, NEW value \in 0..1, Track(p, key, value)
  PROVE  /\ \A q \in Devices \ {p} : pressed'[q] = pressed[q]
         /\ \A k \in ModifierKeys : k # key => (k \in pressed'[p] <=> k \in pressed[p])
         /\ key \in ModifierKeys => (key \in pressed'[p] <=> value = 1)
<1>1. pressed \in [Devices -> SUBSET ModifierKeys]
  BY DEF TrackerTypeOK
<1>2. CASE Changes(p, key, value) /\ value = 1
  BY <1>1, <1>2 DEF Track, KeyDown
<1>3. CASE Changes(p, key, value) /\ value # 1
  BY <1>1, <1>3 DEF Track, KeyUp
<1>4. CASE ~Changes(p, key, value)
  BY <1>1, <1>4 DEF Track, Changes
<1> QED
  BY <1>2, <1>3, <1>4

LEMMA HandleKeyKeepsInv ==
  ASSUME HotplugInv, HandleKey, TrackerTypeOK'
  PROVE  HotplugInv'
<1> DEFINE e == Head(ch)
           p == PathOf(e.source)
<1>1. /\ UNCHANGED <<monitors, opened, readers, done, kernelVars, unplugs, misses, keys>>
      /\ ch # <<>> /\ ch' = Tail(ch) /\ ch \in Seq(KeyEvents)
  BY DEF HandleKey, HotplugInv, HotplugTypeOK
<1>2. /\ e \in KeyEvents /\ ch' \in Seq(KeyEvents)
      /\ 1 \in DOMAIN ch /\ e = ch[1]
      /\ \A i \in DOMAIN ch' : i + 1 \in DOMAIN ch /\ ch'[i] = ch[i + 1]
  BY <1>1
<1>3. /\ e.source \in Handles /\ e.key \in Keys /\ e.value \in 0..1
      /\ p \in Devices /\ e.source = <<p, e.source[2]>> /\ e.source[2] \in Nat \ {0}
  BY <1>2, HandleFacts, TypedKeysAssumption DEF KeyEvents
<1>4. IF monitors[p] = e.source[2]
      THEN /\ Track(p, e.key, e.value)
           /\ word' \in {word, word \cup {e.source}}
           /\ blind' = [blind EXCEPT ![p] = IF e.value = 0 THEN @ \ {e.key} ELSE @]
      ELSE UNCHANGED <<trackerVars, word, blind>>
  BY DEF HandleKey, IsCurrentKeyboardEvent
<1> HIDE DEF e, p
<1>5. HotplugTypeOK'
  <2>1. word' \subseteq Handles
    BY <1>3, <1>4 DEF HotplugInv, HotplugTypeOK
  <2>2. blind' \in [Devices -> SUBSET ModifierKeys]
    BY <1>4 DEF HotplugInv, HotplugTypeOK
  <2> QED
    BY <1>1, <1>2, <2>1, <2>2 DEF kernelVars, HotplugInv, HotplugTypeOK
<1>6. HandlesNumbered' /\ EventsNameTheirHandle'
  BY <1>1, <1>2 DEF kernelVars, HotplugInv, HandlesNumbered, Used, EventsNameTheirHandle
<1>7. OpenedWithinBudget'
  BY <1>1 DEF kernelVars, HotplugInv, OpenedWithinBudget, Spent, Open, HandleOf, Monitored
<1>8. Custody'
  <2>1. word' \subseteq Current
    <3>1. monitors[p] = e.source[2] => e.source \in Current
      BY <1>3 DEF Current, Monitored
    <3> QED
      BY <1>4, <3>1 DEF HotplugInv, Custody, WordFromMonitored
  <2>2. \A q \in Devices : monitors[q] = 0 => pressed'[q] = {}
    <3>1. CASE monitors[p] = e.source[2]
      <4>1. \A q \in Devices \ {p} : pressed'[q] = pressed[q]
        BY <1>3, <1>4, <3>1, TrackPresses DEF HotplugInv
      <4> QED
        BY <1>3, <3>1, <4>1 DEF HotplugInv, Custody
    <3>2. CASE monitors[p] # e.source[2]
      BY <1>4, <3>2 DEF trackerVars, HotplugInv, Custody
    <3> QED
      BY <3>1, <3>2
  <2> QED
    BY <1>1, <2>1, <2>2 DEF kernelVars, HotplugInv, Custody, Open, HandleOf, Monitored, Live,
                            OneLiveReader, WordFromMonitored, Current
<1>9. KeysAgree'
  <2> SUFFICES ASSUME NEW q \in Devices, Open(q)', NEW k \in ModifierKeys
               PROVE  KeyAgrees(q, k)'
    BY DEF KeysAgree
  <2> DEFINE g == HandleOf(q)
             position == Position(q, k)
  <2>1. Open(q) /\ HandleOf(q)' = g /\ buffer' = buffer /\ Position(q, k)' = position /\ down' = down
    BY <1>1 DEF kernelVars, Open, HandleOf, Monitored, Position
  <2>2. KeyAgrees(q, k)
    BY <2>1 DEF HotplugInv, KeysAgree
  <2>3. /\ Holds(ch, g, k) <=> Tells(e, g, k) \/ Holds(ch', g, k)
        /\ LastTells(ch, g, k, position) => LastTells(ch', g, k, position)
        /\ LastTells(ch, g, k, position) /\ ~Holds(ch', g, k) /\ Tells(e, g, k) => e.value = position
    <3> HIDE DEF g, position
    <3> QED BY <1>1, TailTells DEF e
  <2>4. CASE ~Tells(e, g, k)
    <3>1. (k \in pressed'[q] <=> k \in pressed[q]) /\ (k \in blind'[q] <=> k \in blind[q])
      <4>1. CASE monitors[p] # e.source[2]
        BY <1>4, <4>1 DEF trackerVars
      <4>2. CASE monitors[p] = e.source[2] /\ q # p
        <5>1. pressed'[q] = pressed[q]
          BY <1>3, <1>4, <4>2, TrackPresses DEF HotplugInv
        <5> QED
          BY <1>4, <4>2, <5>1 DEF HotplugInv, HotplugTypeOK
      <4>3. CASE monitors[p] = e.source[2] /\ q = p
        <5>1. k # e.key
          BY <1>3, <2>4, <4>3 DEF Tells, HandleOf
        <5>2. k \in pressed'[q] <=> k \in pressed[q]
          BY <1>3, <1>4, <4>3, <5>1, TrackPresses DEF HotplugInv
        <5> QED
          BY <1>4, <4>3, <5>1, <5>2 DEF HotplugInv, HotplugTypeOK
      <4> QED
        BY <4>1, <4>2, <4>3
    <3> QED
      BY <2>1, <2>2, <2>3, <2>4, <3>1 DEF KeyAgrees
  <2>5. CASE Tells(e, g, k)
    <3>1. p = q /\ monitors[p] = e.source[2] /\ e.key = k
      BY <1>3, <2>5, HandleFacts DEF Tells, p
    <3>2. k \in pressed'[q] <=> e.value = 1
      BY <1>3, <1>4, <3>1, TrackPresses DEF HotplugInv
    <3>3. ASSUME ~Holds(buffer[g], g, k), ~Holds(ch', g, k)
          PROVE  k \in pressed'[q] <=> k \in down[q]
      BY <2>2, <2>3, <2>5, <3>2, <3>3 DEF KeyAgrees, Position
    <3> QED
      BY <2>1, <2>2, <2>3, <3>3 DEF KeyAgrees
  <2> QED
    BY <2>4, <2>5
<1> QED
  BY <1>5, <1>6, <1>7, <1>8, <1>9 DEF HotplugInv
LEMMA KeyboardDoneKeepsInv ==
  ASSUME HotplugInv, NEW h \in Handles, KeyboardDone(h), TrackerTypeOK'
  PROVE  HotplugInv'
<1> DEFINE p == PathOf(h)
<1>1. /\ UNCHANGED <<opened, readers, ch, plugged, down, led, blind, unplugs, misses, keys>>
      /\ h \in done /\ done' = done \ {h} /\ h \in ended
      /\ p \in Devices /\ h = <<p, h[2]>> /\ h[2] \in Nat \ {0}
  BY HandleFacts DEF KeyboardDone, HotplugInv, Custody
<1>2. /\ ended' = ended /\ buffer' = buffer
      /\ \/ /\ monitors[p] = h[2] /\ monitors' = [monitors EXCEPT ![p] = 0]
            /\ pressed' = [pressed EXCEPT ![p] = {}] /\ word' = {}
         \/ UNCHANGED <<monitors, trackerVars, word>>
  <2>1. CASE monitors[p] = h[2]
    <3>1. Close({h})
      BY <1>1, <2>1 DEF KeyboardDone, StoppedIsMonitored
    <3>2. ended' = ended \cup {h} /\ buffer' \in [Handles -> Seq(KeyEvents)]
          /\ \A g \in Handles : buffer'[g] = buffer[g]
      BY <1>1, <3>1, CloseKeeps DEF HotplugInv
    <3>3. buffer' = buffer
      BY <3>2 DEF HotplugInv, HotplugTypeOK
    <3> QED
      BY <1>1, <2>1, <3>2, <3>3
         DEF KeyboardDone, StoppedIsMonitored, RemoveDevice, ForgetDevice, ResetBuffers
  <2>2. CASE monitors[p] # h[2]
    BY <2>2 DEF KeyboardDone, StoppedIsMonitored
  <2> QED
    BY <2>1, <2>2
<1>3. CASE UNCHANGED <<monitors, trackerVars, word>>
  <2>1. HotplugTypeOK' /\ HandlesNumbered' /\ EventsNameTheirHandle'
    BY <1>1, <1>2, <1>3 DEF HotplugInv, HotplugTypeOK, HandlesNumbered, Used, EventsNameTheirHandle
  <2>2. OpenedWithinBudget'
    BY <1>1, <1>2, <1>3 DEF HotplugInv, OpenedWithinBudget, Spent, Open, HandleOf, Monitored
  <2>3. Custody'
    BY <1>1, <1>2, <1>3 DEF trackerVars, HotplugInv, Custody, Open, HandleOf, Monitored, Live,
                            OneLiveReader, WordFromMonitored, Current
  <2>4. KeysAgree'
    BY <1>1, <1>2, <1>3 DEF trackerVars, HotplugInv, KeysAgree, KeyAgrees, Open, HandleOf, Monitored, Position
  <2> QED
    BY <2>1, <2>2, <2>3, <2>4 DEF HotplugInv
<1>4. CASE /\ monitors[p] = h[2] /\ monitors' = [monitors EXCEPT ![p] = 0]
           /\ pressed' = [pressed EXCEPT ![p] = {}] /\ word' = {}
  <2>1. /\ monitors'[p] = 0 /\ pressed'[p] = {} /\ monitors' \in [Devices -> Nat]
        /\ \A q \in Devices \ {p} : monitors'[q] = monitors[q] /\ pressed'[q] = pressed[q]
    BY <1>1, <1>4 DEF HotplugInv, HotplugTypeOK, TrackerTypeOK
  <2>2. ~Open(p) /\ ~Open(p)' /\ HandleOf(p) = h
    BY <1>1, <1>4, <2>1 DEF Open, HandleOf, Monitored
  <2>3. \A q \in Devices : Open(q)' <=> Open(q)
    BY <1>2, <2>1, <2>2 DEF Open, HandleOf, Monitored
  <2>4. \A q \in Devices \ {p} : HandleOf(q)' = HandleOf(q)
    BY <2>1 DEF HandleOf
  <2>5. HotplugTypeOK'
    BY <1>1, <1>2, <1>4, <2>1 DEF HotplugInv, HotplugTypeOK
  <2>6. HandlesNumbered' /\ EventsNameTheirHandle'
    BY <1>1, <1>2, <2>1 DEF HotplugInv, HandlesNumbered, Used, EventsNameTheirHandle
  <2>7. OpenedWithinBudget'
    BY <1>1, <2>3 DEF HotplugInv, OpenedWithinBudget, Spent
  <2>8. Custody'
    <3>1. \A q \in Devices : Open(q)' => HandleOf(q)' \in readers' /\ q \in plugged'
      BY <1>1, <2>2, <2>3, <2>4 DEF HotplugInv, Custody
    <3>2. OneLiveReader'
      <4>1. Live' = Live /\ h \notin Live
        BY <1>1, <1>2 DEF Live
      <4>2. Current \ {h} \subseteq Current'
        BY <2>1, <2>2 DEF Current, Monitored, HandleOf
      <4> QED
        BY <4>1, <4>2 DEF HotplugInv, Custody, OneLiveReader
    <3>3. \A q \in Devices : monitors'[q] = 0 => pressed'[q] = {}
      BY <2>1 DEF HotplugInv, Custody
    <3> QED
      BY <1>1, <1>2, <1>4, <3>1, <3>2, <3>3 DEF HotplugInv, Custody, WordFromMonitored
  <2>9. KeysAgree'
    <3> SUFFICES ASSUME NEW q \in Devices, Open(q)', NEW k \in ModifierKeys
                 PROVE  KeyAgrees(q, k)'
      BY DEF KeysAgree
    <3>1. q # p /\ KeyAgrees(q, k)
      BY <2>2, <2>3 DEF HotplugInv, KeysAgree
    <3> QED
      BY <1>1, <1>2, <2>1, <2>4, <3>1 DEF KeyAgrees, Position
  <2> QED
    BY <2>5, <2>6, <2>7, <2>8, <2>9 DEF HotplugInv
<1> QED
  BY <1>2, <1>3, <1>4

LEMMA RescanKeepsInv ==
  ASSUME HotplugInv, NEW missed \in SUBSET Devices, Rescan(missed), TrackerTypeOK'
  PROVE  HotplugInv'
<1> DEFINE new   == (plugged \ missed) \ Monitored
           lost  == Monitored \ (plugged \ missed)
           gone  == { HandleOf(q) : q \in lost }
           fresh(q) == <<q, opened[q] + 1>>
<1>1. /\ Cardinality(missed) \in 0..misses /\ misses' = misses - Cardinality(missed)
      /\ missed # {} => Cardinality(missed) # 0
  <2>1. IsFiniteSet(missed)
    BY DevicesAssumption, FS_Subset
  <2>2. Cardinality(missed) \in Nat /\ (Cardinality(missed) = 0 <=> missed = {})
    BY <2>1, FS_CardinalityType, FS_EmptySet
  <2> QED
    BY <2>2 DEF Rescan, HotplugInv, HotplugTypeOK
<1>2. /\ UNCHANGED <<ch, done, plugged, down, led, unplugs, keys>>
      /\ word' = {} /\ pressed' = [q \in Devices |-> {}]
      /\ blind' = [q \in Devices |-> IF q \in new THEN down[q] ELSE blind[q] \cup pressed[q]]
  BY DEF Rescan, Found, Unmonitored, ResetBuffers, ResetTracker
<1>3. opened' = [q \in Devices |-> opened[q] + IF q \in new THEN 1 ELSE 0]
  BY DEF Rescan, Found, Unmonitored
<1>4. /\ monitors' = [q \in Devices |-> IF q \in new THEN opened'[q] ELSE IF q \in lost THEN 0 ELSE monitors[q]]
      /\ readers' = readers \cup { <<q, opened'[q]>> : q \in new }
      /\ Close({ <<q, monitors[q]>> : q \in lost })
  BY DEF Rescan, Found, Unmonitored
<1>5. gone = { <<q, monitors[q]>> : q \in lost }
  BY DEF HandleOf
<1>6. /\ new \subseteq Devices /\ lost \subseteq Devices
      /\ \A q \in new : monitors[q] = 0 /\ q \in plugged
      /\ \A q \in lost : monitors[q] # 0 /\ (q \in plugged => q \in missed)
  BY DEF Monitored, HotplugInv, HotplugTypeOK
<1> HIDE DEF new, lost, gone
<1>7. /\ ended' = ended \cup gone
      /\ buffer' \in [Handles -> Seq(KeyEvents)]
      /\ \A h \in Handles : h \notin gone => buffer'[h] = buffer[h]
      /\ \A h \in Handles : /\ buffer'[h] # <<>> => buffer[h] # <<>>
                            /\ \A i \in DOMAIN buffer'[h] : i \in DOMAIN buffer[h] /\ buffer'[h][i] = buffer[h][i]
  BY <1>4, <1>5, CloseKeeps DEF HotplugInv
<1>8. \A q \in Devices :
        /\ opened[q] \in Nat /\ monitors[q] \in {0, opened[q]}
        /\ q \in new => opened'[q] = opened[q] + 1 /\ monitors'[q] = opened[q] + 1
        /\ q \notin new => opened'[q] = opened[q]
        /\ q \in lost /\ q \notin new => monitors'[q] = 0
        /\ q \notin lost /\ q \notin new => monitors'[q] = monitors[q]
  BY <1>3, <1>4 DEF HotplugInv, HotplugTypeOK, HandlesNumbered
<1>9. \A q \in new : q \notin lost /\ HandleOf(q)' = fresh(q)
  BY <1>6, <1>8 DEF HandleOf
<1>10. \A q \in Devices \ (new \cup lost) : HandleOf(q)' = HandleOf(q)
  BY <1>8 DEF HandleOf
<1>11. \A q \in Devices : fresh(q) \notin readers \cup ended \cup gone
  <2>1. \A q \in Devices : ~Used(fresh(q))
    BY <1>8 DEF Used, PathOf
  <2>2. \A h \in gone : Used(h)
    BY <1>6, <1>8 DEF Used, PathOf, HandleOf, gone
  <2> QED
    BY <2>1, <2>2 DEF HotplugInv, HandlesNumbered
<1>12. \A q \in Devices : Open(q)' <=> q \in new \/ (Open(q) /\ q \notin lost)
  <2> SUFFICES ASSUME NEW q \in Devices
               PROVE  Open(q)' <=> q \in new \/ (Open(q) /\ q \notin lost)
    OBVIOUS
  <2>1. Open(q)' <=> monitors'[q] # 0 /\ HandleOf(q)' \notin ended \cup gone
    BY <1>7 DEF Open, Monitored
  <2>2. CASE q \in new
    BY <1>8, <1>9, <1>11, <2>1, <2>2
  <2>3. CASE q \in lost
    BY <1>8, <1>9, <2>1, <2>3
  <2>4. CASE q \notin new /\ q \notin lost
    <3>1. HandleOf(q) \notin gone
      BY <1>6, <2>4 DEF gone, HandleOf
    <3> QED
      BY <1>8, <1>10, <2>1, <2>4, <3>1 DEF Open, Monitored
  <2> QED
    BY <2>2, <2>3, <2>4
<1>13. \A q \in Devices : opened[q] <= Spent + (IF Open(q) THEN 1 ELSE 0)
  BY DEF HotplugInv, OpenedWithinBudget
<1>14. Spent \in Nat /\ Spent <= MaxUnplugs + MaxMisses /\ Spent' = Spent + Cardinality(missed)
       /\ MaxUnplugs \in Nat /\ MaxMisses \in Nat /\ misses' \in 0..MaxMisses
  BY <1>1, <1>2, BudgetsAssumption DEF Spent, HotplugInv, HotplugTypeOK
<1>15. \A q \in new : ~Open(q) /\ fresh(q) \in Handles
  <2> SUFFICES ASSUME NEW q \in new
               PROVE  ~Open(q) /\ fresh(q) \in Handles
    OBVIOUS
  <2>1. ~Open(q)
    BY <1>6 DEF Open, Monitored
  <2>2. opened[q] + 1 \in 1..(1 + MaxUnplugs + MaxMisses)
    BY <1>6, <1>8, <1>13, <1>14, <2>1
  <2> QED
    BY <1>6, <2>1, <2>2 DEF Handles
<1>16. HotplugTypeOK'
  <2>1. gone \subseteq Handles
    <3> SUFFICES ASSUME NEW q \in lost PROVE HandleOf(q) \in Handles
      BY DEF gone
    <3>1. opened[q] <= 1 + MaxUnplugs + MaxMisses
      BY <1>6, <1>8, <1>13, <1>14
    <3>2. monitors[q] \in 1..(1 + MaxUnplugs + MaxMisses)
      BY <1>6, <1>8, <1>14, <3>1
    <3> QED
      BY <1>6, <3>2 DEF Handles, HandleOf
  <2>2. readers' \subseteq Handles
    <3>1. \A q \in new : <<q, opened'[q]>> = fresh(q)
      BY <1>6, <1>8
    <3> QED
      BY <1>4, <1>15, <3>1 DEF HotplugInv, HotplugTypeOK
  <2>3. opened' \in [Devices -> Nat] /\ monitors' \in [Devices -> Nat]
    <3>1. \A q \in Devices : opened'[q] \in Nat /\ monitors'[q] \in Nat
      BY <1>8 DEF HotplugInv, HotplugTypeOK
    <3> QED
      BY <1>3, <1>4, <3>1
  <2>4. blind' \in [Devices -> SUBSET ModifierKeys]
    BY <1>2 DEF HotplugInv, HotplugTypeOK, TrackerTypeOK
  <2> QED
    BY <1>2, <1>7, <1>14, <2>1, <2>2, <2>3, <2>4 DEF HotplugInv, HotplugTypeOK
<1>17. HandlesNumbered'
  <2>0. gone \subseteq Handles
    BY <1>7, <1>16 DEF HotplugTypeOK
  <2>1. \A h \in Handles : Used(h) => Used(h)'
    <3> SUFFICES ASSUME NEW h \in Handles, h[2] <= opened[PathOf(h)]
                 PROVE  h[2] <= opened'[PathOf(h)]
      BY DEF Used, PathOf
    <3>1. PathOf(h) \in Devices /\ h[2] \in Nat
      BY HandleFacts
    <3>2. opened'[PathOf(h)] \in {opened[PathOf(h)], opened[PathOf(h)] + 1} /\ opened[PathOf(h)] \in Nat
      BY <1>8, <3>1
    <3> QED
      BY <3>1, <3>2
  <2>2. \A q \in Devices : monitors'[q] \in {0, opened'[q]}
    <3>1. \A q \in Devices : monitors[q] \in {0, opened[q]}
      BY DEF HotplugInv, HandlesNumbered
    <3> QED
      BY <1>8, <3>1
  <2>3. \A h \in readers' \cup ended' \cup done' : Used(h)'
    <3>1. \A h \in readers \cup ended \cup done : h \in Handles /\ Used(h)'
      BY <2>1 DEF HotplugInv, HandlesNumbered, HotplugTypeOK
    <3>2. ASSUME NEW q \in new PROVE opened'[q] <= opened'[PathOf(<<q, opened'[q]>>)]
      BY <1>6, <1>8 DEF PathOf
    <3>3. \A h \in gone : h \in Handles /\ Used(h)
      <4>1. \A q \in lost : HandleOf(q) \in Handles /\ HandleOf(q)[2] <= opened[PathOf(HandleOf(q))]
        BY <1>6, <1>8, <2>0 DEF PathOf, HandleOf, gone
      <4> QED
        BY <4>1 DEF gone, Used
    <3>4. \A h \in { <<q, opened'[q]>> : q \in new } : Used(h)'
      BY <3>2 DEF Used
    <3> QED
      BY <1>2, <1>4, <1>7, <2>1, <3>1, <3>3, <3>4
  <2>4. \A h \in Handles : buffer'[h] # <<>> => Used(h)'
    BY <1>7, <2>1 DEF HotplugInv, HandlesNumbered
  <2>5. \A i \in DOMAIN ch' : ch'[i].source[2] <= opened'[PathOf(ch'[i].source)]
    <3>1. \A i \in DOMAIN ch : ch[i] \in KeyEvents
      BY DEF HotplugInv, HotplugTypeOK
    <3>2. \A i \in DOMAIN ch : ch[i].source \in Handles
      BY <3>1 DEF KeyEvents
    <3> QED
      BY <1>2, <2>1, <3>2 DEF HotplugInv, HandlesNumbered, Used
  <2> QED
    BY <2>2, <2>3, <2>4, <2>5 DEF HandlesNumbered, Used
<1>18. EventsNameTheirHandle'
  BY <1>7 DEF HotplugInv, EventsNameTheirHandle
<1>19. OpenedWithinBudget'
  <2> SUFFICES ASSUME NEW q \in Devices
               PROVE  opened'[q] <= Spent' + (IF Open(q)' THEN 1 ELSE 0)
    BY DEF OpenedWithinBudget
  <2>1. Cardinality(missed) \in Nat /\ opened[q] \in Nat
    BY <1>1, <1>8 DEF HotplugInv, HotplugTypeOK
  <2>2. CASE q \in new
    <3>1. opened'[q] = opened[q] + 1 /\ Open(q)' /\ ~Open(q)
      BY <1>8, <1>12, <1>15, <2>2
    <3>2. opened[q] <= Spent
      BY <1>13, <1>14, <2>1, <3>1
    <3> QED
      BY <1>14, <2>1, <3>1, <3>2
  <2>3. CASE q \in lost
    <3>1. opened'[q] = opened[q] /\ ~Open(q)'
      BY <1>8, <1>9, <1>12, <2>3
    <3>2. Open(q) => Cardinality(missed) # 0
      BY <1>1, <1>6, <2>3 DEF HotplugInv, Custody
    <3>3. CASE Open(q)
      BY <1>13, <1>14, <2>1, <3>1, <3>2, <3>3
    <3>4. CASE ~Open(q)
      BY <1>13, <1>14, <2>1, <3>1, <3>4
    <3> QED
      BY <3>3, <3>4
  <2>4. CASE q \notin new /\ q \notin lost
    <3>1. opened'[q] = opened[q] /\ (Open(q)' <=> Open(q))
      BY <1>8, <1>12, <2>4
    <3> QED
      BY <1>13, <1>14, <2>1, <3>1
  <2> QED
    BY <2>2, <2>3, <2>4
<1>20. Custody'
  <2>1. \A q \in Devices : Open(q)' => HandleOf(q)' \in readers' /\ q \in plugged'
    <3>1. \A q \in new : HandleOf(q)' \in readers' /\ q \in plugged'
      BY <1>2, <1>4, <1>6, <1>8, <1>9
    <3>2. \A q \in Devices \ (new \cup lost) : Open(q) => HandleOf(q)' \in readers' /\ q \in plugged'
      BY <1>2, <1>4, <1>10 DEF HotplugInv, Custody
    <3> QED
      BY <1>12, <3>1, <3>2
  <2>2. OneLiveReader'
    <3> SUFFICES ASSUME NEW h \in Live' PROVE h \in Current'
      BY DEF OneLiveReader
    <3>1. CASE h \in readers
      <4>1. h \in Live /\ h \notin gone
        BY <1>7, <3>1 DEF Live
      <4>2. PICK q \in Monitored : h = HandleOf(q)
        BY <4>1, HandleFacts DEF HotplugInv, Custody, OneLiveReader
      <4>3. q \in Devices /\ q \notin lost /\ q \notin new /\ monitors[q] # 0
        BY <1>6, <4>1, <4>2 DEF gone, Monitored
      <4> QED
        BY <1>8, <4>2, <4>3 DEF HandleOf, Current, Monitored
    <3>2. CASE h \notin readers
      <4>1. PICK q \in new : h = <<q, opened'[q]>>
        BY <1>4, <3>2 DEF Live
      <4>2. q \in Devices /\ monitors'[q] = opened'[q] /\ monitors'[q] # 0
        BY <1>6, <1>8, <4>1
      <4> QED
        BY <4>1, <4>2 DEF Current, Monitored
    <3> QED
      BY <3>1, <3>2
  <2> QED
    BY <1>2, <1>7, <2>1, <2>2 DEF HotplugInv, Custody, WordFromMonitored
<1>21. KeysAgree'
  <2> SUFFICES ASSUME NEW q \in Devices, Open(q)', NEW k \in ModifierKeys
               PROVE  KeyAgrees(q, k)'
    BY DEF KeysAgree
  <2>1. CASE q \in new
    <3> DEFINE h == fresh(q)
    <3>1. HandleOf(q)' = h /\ h \in Handles /\ ~Used(h)
      BY <1>8, <1>9, <1>15, <2>1 DEF Used, PathOf
    <3> HIDE DEF h
    <3>2. buffer'[h] = <<>> /\ ~Holds(ch, h, k)
      BY <1>7, <3>1 DEF HotplugInv, HandlesNumbered, Holds, Tells
    <3>3. LastTells(ch, h, k, Position(q, k)')
      BY <3>2 DEF LastTells, Holds
    <3>4. blind'[q] = down[q] /\ pressed'[q] = {} /\ down' = down /\ ch' = ch
      BY <1>2, <2>1
    <3> QED
      BY <3>1, <3>2, <3>3, <3>4, EmptyTells DEF KeyAgrees
  <2>2. CASE q \notin new
    <3> DEFINE h == HandleOf(q)
    <3>1. Open(q) /\ q \notin lost /\ HandleOf(q)' = h /\ h \in Handles
      BY <1>10, <1>12, <2>2 DEF HotplugInv, Custody, HotplugTypeOK
    <3>2. h \notin gone
      BY <3>1 DEF gone, HandleOf
    <3>3. buffer'[h] = buffer[h] /\ ch' = ch /\ down' = down /\ pressed'[q] = {}
          /\ blind'[q] = blind[q] \cup pressed[q]
      BY <1>2, <1>7, <2>2, <3>1, <3>2
    <3>4. KeyAgrees(q, k)
      BY <3>1 DEF HotplugInv, KeysAgree
    <3> QED
      BY <3>1, <3>3, <3>4 DEF KeyAgrees, Position
  <2> QED
    BY <2>1, <2>2
<1> QED
  BY <1>16, <1>17, <1>18, <1>19, <1>20, <1>21 DEF HotplugInv

-----------------------------------------------------------------------------
LEMMA HotplugInitInv == HotplugInit => HotplugInv
<1> SUFFICES ASSUME HotplugInit PROVE HotplugInv
  OBVIOUS
<1>1. PICK found \in SUBSET plugged \ {{}} :
        /\ monitors = [p \in Devices |-> IF p \in found THEN 1 ELSE 0]
        /\ readers = { <<p, 1>> : p \in found }
  BY DEF HotplugInit
<1>2. /\ TrackerTypeOK /\ pressed = [p \in Devices |-> {}]
      /\ plugged \subseteq Devices /\ found \subseteq plugged /\ led = FALSE
      /\ down = [p \in Devices |-> {}] /\ blind = [p \in Devices |-> {}]
      /\ opened = monitors /\ ended = {} /\ done = {} /\ word = {}
      /\ buffer = [h \in Handles |-> <<>>] /\ ch = <<>>
      /\ unplugs = MaxUnplugs /\ misses = MaxMisses /\ keys = MaxKeys
  <2>1. TrackerTypeOK
    BY HotplugInitIsInputInit, InitTyped
  <2>2. pressed = [p \in Devices |-> {}]
    BY DEF HotplugInit, TrackerInit
  <2> QED
    BY <2>1, <2>2 DEF HotplugInit
<1>3. \A p \in Devices : Open(p) <=> p \in found
  BY <1>1, <1>2 DEF Open, Monitored
<1>4. HotplugTypeOK
  <2>1. readers \subseteq Handles
    BY <1>1, <1>2, BudgetsAssumption DEF Handles
  <2>2. buffer \in [Handles -> Seq(KeyEvents)] /\ ch \in Seq(KeyEvents)
    BY <1>2
  <2>3. unplugs \in 0..MaxUnplugs /\ misses \in 0..MaxMisses /\ keys \in 0..MaxKeys
    BY <1>2, BudgetsAssumption
  <2>4. monitors \in [Devices -> Nat] /\ opened \in [Devices -> Nat]
    BY <1>1, <1>2
  <2>5. down \in [Devices -> SUBSET ModifierKeys] /\ blind \in [Devices -> SUBSET ModifierKeys]
    BY <1>2
  <2> QED
    BY <1>2, <2>1, <2>2, <2>3, <2>4, <2>5 DEF HotplugTypeOK
<1>5. HandlesNumbered /\ EventsNameTheirHandle
  BY <1>1, <1>2 DEF HandlesNumbered, EventsNameTheirHandle, Used, PathOf
<1>6. OpenedWithinBudget
  BY <1>1, <1>2, <1>3, BudgetsAssumption DEF OpenedWithinBudget, Spent
<1>7. Custody
  BY <1>1, <1>2, <1>3 DEF Custody, HandleOf, OneLiveReader, Live, Current, Monitored, WordFromMonitored
<1>8. KeysAgree
  <2> SUFFICES ASSUME NEW p \in Devices, Open(p), NEW k \in ModifierKeys
               PROVE  KeyAgrees(p, k)
    BY DEF KeysAgree
  <2>1. buffer[HandleOf(p)] = <<>>
    BY <1>1, <1>2, <1>3, <1>4 DEF HandleOf, HotplugTypeOK
  <2> QED
    BY <1>2, <2>1, EmptyTells DEF KeyAgrees
<1> QED
  BY <1>2, <1>4, <1>5, <1>6, <1>7, <1>8 DEF HotplugInv

LEMMA HotplugStepInv == HotplugInv /\ [HotplugNext]_hotplugVars => HotplugInv'
<1> SUFFICES ASSUME HotplugInv, [HotplugNext]_hotplugVars
             PROVE  HotplugInv'
  OBVIOUS
<1>1. TrackerTypeOK'
  BY HotplugStepIsInputStep, StepTyped DEF HotplugInv
<1>2. CASE UNCHANGED hotplugVars
  <2>1. HotplugTypeOK' /\ HandlesNumbered' /\ EventsNameTheirHandle'
    BY <1>2 DEF hotplugVars, loopVars, kernelVars, HotplugInv, HotplugTypeOK, HandlesNumbered, Used,
                EventsNameTheirHandle
  <2>2. OpenedWithinBudget'
    BY <1>2 DEF hotplugVars, loopVars, kernelVars, HotplugInv, OpenedWithinBudget, Spent, Open, HandleOf,
                Monitored
  <2>3. Custody'
    BY <1>2 DEF hotplugVars, loopVars, kernelVars, trackerVars, HotplugInv, Custody, Open, HandleOf,
                Monitored, Live, OneLiveReader, WordFromMonitored, Current
  <2>4. KeysAgree'
    BY <1>2 DEF hotplugVars, loopVars, kernelVars, trackerVars, HotplugInv, KeysAgree, KeyAgrees, Open,
                HandleOf, Monitored, Position
  <2> QED
    BY <1>1, <2>1, <2>2, <2>3, <2>4 DEF HotplugInv
<1>3. CASE HotplugNext
  BY <1>1, <1>3, PressKeyKeepsInv, UnplugKeepsInv, PlugKeepsInv, ForwardKeepsInv, ReaderStopsKeepsInv,
     HandleKeyKeepsInv, KeyboardDoneKeepsInv, RescanKeepsInv DEF HotplugNext, Readers
<1> QED
  BY <1>2, <1>3

(* Books, custody and keys hold in every state.                            *)
THEOREM HotplugInvariant == HotplugSpec => []HotplugInv
BY HotplugInitInv, HotplugStepInv, PTL DEF HotplugSpec

(* The state is always of its types; in particular Handles names every     *)
(* handle there can be: a path is opened again only after an unplug or a   *)
(* failed open.                                                            *)
THEOREM HotplugTyping == HotplugSpec => [](TrackerTypeOK /\ HotplugTypeOK)
<1>1. HotplugInv => TrackerTypeOK /\ HotplugTypeOK
  BY DEF HotplugInv
<1> QED
  BY <1>1, HotplugInvariant, PTL

(* However nodes vanish and come back, notices arrive late and rescans     *)
(* miss a node, no keyboard is read twice and no live reader is one the    *)
(* monitor map has forgotten.                                              *)
THEOREM OneReaderPerKeyboard == HotplugSpec => []OneLiveReader
<1>1. HotplugInv => OneLiveReader
  BY DEF HotplugInv, Custody
<1> QED
  BY <1>1, HotplugInvariant, PTL

(* The word being typed never holds a key of a keyboard that was given up, *)
(* whenever its keys come off the channel.                                 *)
THEOREM WordIsFromMonitored == HotplugSpec => []WordFromMonitored
<1>1. HotplugInv => WordFromMonitored
  BY DEF HotplugInv, Custody
<1> QED
  BY <1>1, HotplugInvariant, PTL

(* When nothing of a live keyboard is on its way, the tracker holds none   *)
(* of its modifiers that is up and all that went down since the keyboard   *)
(* was opened and since the last reset.                                    *)
THEOREM TrackerFollowsKeyboards == HotplugSpec => []TrackerAgrees
<1>1. HotplugInv => TrackerAgrees
  <2> SUFFICES ASSUME HotplugInv, NEW p \in Devices, HandleOf(p) \in Live,
                      buffer[HandleOf(p)] = <<>>, Waiting(HandleOf(p)) = {}
               PROVE  pressed[p] \subseteq down[p] /\ down[p] \ blind[p] \subseteq pressed[p]
    BY DEF TrackerAgrees, HandleOf, HotplugInv, Custody
  <2>1. Open(p)
    BY DEF Open, HotplugInv, Custody, OneLiveReader, Live, Current, HandleOf, Monitored
  <2>2. ASSUME NEW k \in ModifierKeys
        PROVE  (k \in pressed[p] => k \in down[p]) /\ (k \in down[p] \ blind[p] => k \in pressed[p])
    <3>1. KeyAgrees(p, k)
      BY <2>1 DEF HotplugInv, KeysAgree
    <3>2. ~Holds(buffer[HandleOf(p)], HandleOf(p), k)
      BY EmptyTells
    <3>3. ~Holds(ch, HandleOf(p), k)
      BY DEF Holds, Tells, Waiting
    <3> QED
      BY <3>1, <3>2, <3>3 DEF KeyAgrees
  <2>3. pressed[p] \subseteq ModifierKeys /\ down[p] \subseteq ModifierKeys
    BY DEF HotplugInv, TrackerTypeOK, HotplugTypeOK
  <2> QED
    BY <2>2, <2>3
<1> QED
  BY <1>1, HotplugInvariant, PTL

(* A keyboard that is there and read loses its monitor only to a rescan    *)
(* that could not open it, never to the late notice of an earlier handle.  *)
THEOREM LiveKeyboardIsKept == HotplugSpec => LiveKeyboardKept
<1> DEFINE Kept == \A h \in Current \cap Live : h \notin Current' => misses' < misses
<1>1. HotplugInv /\ [HotplugNext]_hotplugVars => [Kept]_hotplugVars
  <2> SUFFICES ASSUME HotplugInv, HotplugNext, NEW h \in Current \cap Live, h \notin Current'
               PROVE  misses' < misses
    OBVIOUS
  <2>1. PICK p \in Monitored : h = HandleOf(p)
    BY HandleFacts
  <2>2. p \in Devices /\ monitors[p] # 0 /\ monitors'[p] # monitors[p] /\ Open(p)
    BY <2>1 DEF Monitored, Current, HandleOf, Live, Open
  <2>3. ASSUME NEW g \in Handles, KeyboardDone(g)
        PROVE  FALSE
    <3>1. g \in ended /\ g = <<PathOf(g), g[2]>>
      BY <2>3, HandleFacts DEF KeyboardDone, HotplugInv, Custody
    <3>2. monitors[PathOf(g)] = g[2] /\ PathOf(g) = p
      BY <2>2, <2>3 DEF KeyboardDone, StoppedIsMonitored, HotplugInv, HotplugTypeOK
    <3> QED
      BY <2>1, <2>2, <3>1, <3>2 DEF HandleOf, Open
  <2>4. ASSUME NEW missed \in SUBSET Devices, Rescan(missed)
        PROVE  misses' < misses
    <3>1. IsFiniteSet(missed) /\ misses \in Nat /\ misses' = misses - Cardinality(missed)
      BY <2>4, DevicesAssumption, FS_Subset, BudgetsAssumption DEF Rescan, HotplugInv, HotplugTypeOK
    <3>2. p \in missed
      BY <2>2, <2>4 DEF Rescan, Found, Unmonitored, Monitored, HotplugInv, Custody
    <3> QED
      BY <3>1, <3>2, FS_CardinalityType, FS_EmptySet
  <2>5. CASE UNCHANGED monitors
    BY <2>2, <2>5
  <2> QED
    BY <2>3, <2>4, <2>5
       DEF HotplugNext, PressKey, Unplug, Plug, Readers, Forward, ReaderStops, HandleKey, loopVars
<1> QED
  BY <1>1, HotplugInvariant, PTL DEF HotplugSpec, LiveKeyboardKept

-----------------------------------------------------------------------------
(* The tracker under the main loop is the tracker of InputState: every     *)
(* step of the composed system is a call InputState allows, or none.       *)
THEOREM HotplugDrivesTracker == HotplugSpec => InputSpec
<1>1. HotplugInv /\ [HotplugNext]_hotplugVars => [InputNext]_trackerVars
  BY HotplugStepIsInputStep DEF HotplugInv
<1> QED
  BY <1>1, HotplugInitIsInputInit, HotplugInvariant, PTL DEF HotplugSpec, InputSpec

(* With any number of keyboards coming and going, the modifiers reported   *)
(* as held are those the tracker has pressed on some keyboard.             *)
THEOREM HotplugHeldCorrect == HotplugSpec => []HeldIsPressed
BY HotplugDrivesTracker, HeldCorrect, PTL
=============================================================================
