------------------------------- MODULE Output -------------------------------
(***************************************************************************)
(* internal/output: Writer.Apply and its three backends, key operation by  *)
(* key operation.  Any operation on the virtual keyboard and any command   *)
(* the backends start may fail, MaxFaults of them in a behaviour; the      *)
(* caller gets an outcome and believes it.  The clipboard backend shares   *)
(* the clipboard with the user, who may copy something at any moment       *)
(* (MaxCopies), and gives it back from a goroutine started 200 ms after    *)
(* the paste, which may by then have been overtaken by another paste.      *)
(*                                                                         *)
(* External: the virtual keyboard (a failed operation has no effect, a     *)
(* second press of a key that is down none either), the focused            *)
(* application, which shows a key as soon as it is pressed and reads the   *)
(* clipboard as soon as Ctrl+V arrives, and the commands.                  *)
(***************************************************************************)
EXTENDS Keymap, SequencesExt

CONSTANTS
  Settings,        \* what the configuration may say: [output, allowClipboard]
  Edits,           \* the edits asked for: [restore, text]
  MaxEdits, MaxFaults, MaxCopies

ASSUME SettingsAssumption ==
  /\ Settings \subseteq [output : {"auto", "uinput", "wtype"}, allowClipboard : BOOLEAN]
  /\ \A e \in Edits : e.restore \in Seq(STRING) /\ e.text \in Seq(STRING)
  /\ MaxFaults \in Nat

VARIABLES
  available,  \* wtype is installed
  backends,   \* backends[w]: Writer.Backends of the writer w
  writer,     \* the writer at work
  stage,      \* idle, delete, type, wtype, begin, copy, paste, abort, restore
  edit,       \* the edit in hand
  caps,       \* Caps Lock, as CapsLock() tells for the edit
  selected,   \* the backend chosen for it
  ops,        \* key operations left in this stage
  retried,    \* keyStroke tries a release for the second time
  emitted,    \* Backspaces or characters whose key went down in this stage
  failed,     \* "no", "safe" or "partial": how the stage has failed so far
  outcome,    \* what Apply returned
  screen,     \* the text before the cursor, from some character on
  held,       \* keys down on the virtual keyboard
  broken,     \* writers whose Wtype is broken
  clip,       \* the clipboard, a text
  generation, active, original,   \* clipboardState
  timers,     \* generations whose restore goroutine sleeps
  clean,      \* history: no key was down when the edit and its restore began
  userClip,   \* history: what the user copied last
  unsaved,    \* history: the user copied while a paste was active, the copy was taken for
              \* an empty clipboard, or giving back failed
  supplanted, \* history: the user copied while the text of this edit was being pasted
  edits, faults, copies           \* what is left of the bounds

clipVars == <<clip, generation, active, original, timers, userClip, unsaved, copies>>
keyVars  == <<ops, retried, emitted, failed, held>>
chainVars == <<available, backends, writer>>
outVars  == <<chainVars, stage, edit, caps, selected, outcome, screen, broken, clean, edits, faults, supplanted,
              keyVars, clipVars>>

Before == << "1" >>              \* text that is none of the edit's business

-----------------------------------------------------------------------------
(* Key operations.                                                         *)

Down(key, i) == [key |-> key, down |-> TRUE, at |-> i]
Up(key, i)   == [key |-> key, down |-> FALSE, at |-> i]
Press(key, i) == << Down(key, i), Up(key, i) >>

Mappable(c) == c \in DOMAIN ReverseKey
Mods(c) == LET m == ReverseKey[c].mods IN
           IF caps /\ c \in Letters THEN SymDiff(m, {"Shift"}) ELSE m
Around(key, mod, i) == IF mod THEN << <<Down(key, i)>>, <<Up(key, i)>> >> ELSE << <<>>, <<>> >>
Stroke(c, i) ==
  LET s == Around("KEY_LEFTSHIFT", "Shift" \in Mods(c), i)
      a == Around("KEY_RIGHTALT", "AltGr" \in Mods(c), i)
  IN s[1] \o a[1] \o Press(ReverseKey[c].key, i) \o a[2] \o s[2]

TypeOps(text) == FlattenSeq([i \in DOMAIN text |-> Stroke(text[i], i)])
DeleteOps(n)  == FlattenSeq([i \in 1..n |-> Press("KEY_BACKSPACE", i)])
PasteOps      == << Down("KEY_LEFTCTRL", 1) >> \o Press("KEY_V", 1) \o << Up("KEY_LEFTCTRL", 1) >>

(* What the application makes of a key that goes down. *)
HeldClasses == { ModifierClass[k] : k \in held \cap ModifierKeys }
Effect(key) ==
  IF key \in held \cup ModifierKeys THEN screen
  ELSE IF key = "KEY_V" THEN IF "Ctrl" \in HeldClasses THEN screen \o clip ELSE screen
  ELSE IF "Ctrl" \in HeldClasses THEN IF key = "KEY_BACKSPACE" THEN <<>> ELSE screen
  ELSE IF key = "KEY_BACKSPACE" THEN SubSeq(screen, 1, Len(screen) - 1)
  ELSE Append(screen, Glyph(key, HeldClasses, caps))

(* The releases Type still tries after operation o failed: those of the     *)
(* modifiers that went down for o's stroke.  Errors are ignored.           *)
Cleanup(o, rest) ==
  LET isDown(key) == /\ key # o.key /\ Up(key, o.at) \in Range(rest)
                     /\ Down(key, o.at) \notin Range(rest)
      release(key) == IF isDown(key) THEN << Up(key, o.at) >> ELSE <<>>
  IN release("KEY_RIGHTALT") \o release("KEY_LEFTSHIFT") \o release("KEY_LEFTCTRL")

(* Whether output may already have reached the application.  A deletion is  *)
(* put back as long as the last Backspace did not go down.                 *)
Unmarked(o) == "safe"
FailureClass(o) ==
  IF CASE stage = "delete" -> o.down
       [] stage = "paste"  -> o.down /\ o.key = "KEY_LEFTCTRL"
       [] OTHER            -> o.down /\ emitted = 0
  THEN "safe" ELSE "partial"

NeverAgain(o) == FALSE
Retries(o) == ~o.down /\ o.key \notin ModifierKeys /\ stage # "paste" /\ ~retried

KeySucceeds ==
  /\ ops # <<>>
  /\ LET o == Head(ops) IN
       /\ held' = IF o.down THEN held \cup {o.key} ELSE held \ {o.key}
       /\ screen' = IF o.down THEN Effect(o.key) ELSE screen
       /\ emitted' = emitted + IF o.down /\ o.key \notin ModifierKeys THEN 1 ELSE 0
  /\ ops' = Tail(ops) /\ retried' = FALSE
  /\ UNCHANGED <<chainVars, stage, edit, caps, selected, failed, outcome, broken, clean, edits, faults,
                 supplanted, clipVars>>

KeyFails ==
  /\ ops # <<>> /\ faults > 0
  /\ faults' = faults - 1
  /\ LET o == Head(ops) IN
       IF failed # "no"
       THEN ops' = Tail(ops) /\ UNCHANGED <<failed, retried>>
       ELSE IF Retries(o)
       THEN retried' = TRUE /\ UNCHANGED <<ops, failed>>
       ELSE /\ failed' = FailureClass(o)
            /\ ops' = IF stage = "delete" THEN <<>> ELSE Cleanup(o, Tail(ops))
            /\ retried' = FALSE
  /\ UNCHANGED <<chainVars, stage, edit, caps, selected, emitted, held, outcome, screen, broken, clean, edits,
                 supplanted, clipVars>>

-----------------------------------------------------------------------------
(* Writer.Apply.                                                           *)

Typeable(text) == Range(text) \subseteq DOMAIN ReverseKey
Validates(w, b, text) ==
  CASE b = "uinput" -> Typeable(text)
    [] b = "wtype"  -> w \notin broken /\ available
    [] OTHER        -> TRUE
Able(w, text) == { i \in DOMAIN backends[w] : Validates(w, backends[w][i], text) }

Enter(st, ops_) ==
  /\ stage' = st /\ ops' = ops_
  /\ emitted' = 0 /\ failed' = "no" /\ retried' = FALSE

Return(result) ==
  /\ stage' = "idle" /\ outcome' = result
  /\ ops' = <<>> /\ UNCHANGED <<emitted, failed, retried, clean>>

LastRunes(text, n) == SubSeq(text, Len(text) - n + 1, Len(text))

WithRestore(text) ==
  IF text = <<>> THEN Return("restored")
  ELSE IF ~Typeable(text) THEN Return("unrestored")
  ELSE Enter("restore", TypeOps(text)) /\ clean' = (clean /\ held = {}) /\ UNCHANGED outcome

Apply(w, e) ==
  /\ stage = "idle" /\ edits > 0
  /\ edits' = edits - 1
  /\ writer' = w /\ edit' = e /\ caps' \in BOOLEAN
  /\ screen' = Before \o e.restore
  /\ clean' = (held = {}) /\ supplanted' = FALSE
  /\ IF Able(w, e.text) = {}
     THEN outcome' = "refused" /\ UNCHANGED <<stage, selected, ops, emitted, failed, retried>>
     ELSE /\ selected' = backends[w][Min(Able(w, e.text))]
          /\ Enter("delete", DeleteOps(Len(e.restore)))
          /\ outcome' = "none"
  /\ UNCHANGED <<available, backends, held, broken, faults, clipVars>>

StageEnds(st) == stage = st /\ ops = <<>>
Same == UNCHANGED <<chainVars, edit, caps, selected, held, edits, supplanted>>

DeleteDone ==
  /\ StageEnds("delete")
  /\ CASE failed = "partial" -> Return("partial")
       [] failed = "safe"    -> WithRestore(LastRunes(edit.restore, emitted))
       [] OTHER ->
            /\ Enter(CASE selected = "uinput" -> "type" [] selected = "wtype" -> "wtype" [] OTHER -> "begin",
                     IF selected = "uinput" THEN TypeOps(edit.text) ELSE <<>>)
            /\ UNCHANGED <<outcome, clean>>
  /\ Same /\ UNCHANGED <<screen, broken, faults, clipVars>>

TypeDone ==
  /\ StageEnds("type")
  /\ CASE failed = "no"   -> Return("done")
       [] failed = "safe" -> WithRestore(edit.restore)
       [] OTHER           -> Return("partial")
  /\ Same /\ UNCHANGED <<screen, broken, faults, clipVars>>

RestoreDone ==
  /\ StageEnds("restore")
  /\ Return(IF failed = "no" THEN "restored" ELSE "unrestored")
  /\ Same /\ UNCHANGED <<screen, broken, faults, clipVars>>

(* wtype may have typed some of the text when it fails. *)
RunWtype ==
  /\ stage = "wtype"
  /\ \/ /\ screen' = screen \o edit.text
        /\ Return("done")
        /\ UNCHANGED <<broken, faults>>
     \/ /\ faults > 0 /\ faults' = faults - 1
        /\ \E n \in 0..Len(edit.text) : screen' = screen \o SubSeq(edit.text, 1, n)
        /\ broken' = broken \cup {writer}
        /\ WithRestore(edit.restore)
  /\ Same /\ UNCHANGED clipVars

-----------------------------------------------------------------------------
(* Clipboard.Type.                                                         *)

TakesSnapshotAlways == TRUE
TakesSnapshot == ~active
PasteBegins(snapshot) ==
  /\ generation' = generation + 1
  /\ active' = TRUE /\ original' = snapshot
  /\ Enter("copy", <<>>)
  /\ UNCHANGED <<outcome, clean>>

(* beginClipboardPaste: wl-paste failing with exit status 1, for whatever   *)
(* reason, is taken for an empty clipboard; failing otherwise it ends the  *)
(* paste.                                                                  *)
BeginPaste ==
  /\ stage = "begin"
  /\ \/ PasteBegins(IF TakesSnapshot THEN clip ELSE original) /\ UNCHANGED <<faults, unsaved>>
     \/ /\ ~active /\ faults > 0 /\ faults' = faults - 1
        /\ \/ PasteBegins(<<>>) /\ unsaved' = (unsaved \/ clip # <<>>)
           \/ WithRestore(edit.restore) /\ UNCHANGED <<generation, active, original, unsaved>>
  /\ Same /\ UNCHANGED <<screen, broken, clip, timers, userClip, copies>>

CopyText ==
  /\ stage = "copy"
  /\ \/ clip' = edit.text /\ Enter("paste", PasteOps) /\ UNCHANGED faults
     \/ /\ faults > 0 /\ faults' = faults - 1
        /\ clip' \in {clip, edit.text}
        /\ Enter("abort", <<>>)
  /\ Same
  /\ UNCHANGED <<screen, broken, outcome, clean, generation, active, original, timers,
                 userClip, unsaved, copies>>

GiveBack ==
  /\ active' = FALSE
  /\ \/ clip' = original /\ UNCHANGED <<faults, unsaved>>
     \/ /\ faults > 0 /\ faults' = faults - 1
        /\ unsaved' = TRUE /\ UNCHANGED clip

(* abortClipboardPaste, after wl-copy or the press of Ctrl failed. *)
Abort ==
  /\ \/ stage = "abort"
     \/ StageEnds("paste") /\ failed = "safe"
  /\ GiveBack
  /\ WithRestore(edit.restore)
  /\ Same /\ UNCHANGED <<screen, broken, generation, original, timers, userClip, copies>>

OnlyAfterSuccess(f) == f = "no"
ScheduledAfter(f) == f # "safe"
PasteDone ==
  /\ StageEnds("paste") /\ failed # "safe"
  /\ timers' = IF ScheduledAfter(failed) THEN timers \cup {generation} ELSE timers
  /\ Return(IF failed = "no" THEN "done" ELSE "partial")
  /\ Same /\ UNCHANGED <<screen, broken, faults, clip, generation, active, original, userClip, unsaved, copies>>

RestoreClipboard(g) ==
  /\ g \in timers
  /\ timers' = timers \ {g}
  /\ IF active /\ generation = g
     THEN GiveBack
     ELSE UNCHANGED <<active, clip, unsaved, faults>>
  /\ UNCHANGED <<chainVars, stage, edit, caps, selected, outcome, screen, broken, clean, edits, keyVars,
                 generation, original, userClip, copies, supplanted>>

UserCopies ==
  /\ copies > 0 /\ copies' = copies - 1
  /\ userClip' = << "user", copies >>
  /\ clip' = userClip' /\ unsaved' = active /\ supplanted' = (supplanted \/ stage = "paste")
  /\ UNCHANGED <<chainVars, stage, edit, caps, selected, outcome, screen, broken, clean, edits, faults, keyVars,
                 generation, active, original, timers>>

-----------------------------------------------------------------------------
(* buildBackends: the corrector's chain follows the settings, the expander  *)
(* always has every backend there is.  A reload builds the corrector's     *)
(* anew, and with it a Wtype that has not failed yet.                      *)
IfAvailable == IF available THEN << "wtype" >> ELSE <<>>
BuildBackends(s) ==
  (CASE s.output = "uinput" -> << "uinput" >>
     [] s.output = "wtype"  -> << "wtype" >>
     [] OTHER               -> << "uinput" >> \o IfAvailable)
  \o (IF s.allowClipboard THEN << "clipboard" >> ELSE <<>>)
NewExpanderBackends == << "uinput" >> \o IfAvailable \o << "clipboard" >>

ReloadSettings(s) ==
  /\ stage = "idle"
  /\ backends' = [backends EXCEPT !["corrector"] = BuildBackends(s)]
  /\ broken' = broken \ {"corrector"}
  /\ UNCHANGED <<available, writer, stage, edit, caps, selected, outcome, screen, clean, edits, faults, supplanted,
                 keyVars, clipVars>>

OutInit ==
  /\ available \in BOOLEAN /\ writer = "expander"
  /\ \E s \in Settings : backends = [expander |-> NewExpanderBackends, corrector |-> BuildBackends(s)]
  /\ stage = "idle" /\ edit = [restore |-> <<>>, text |-> <<>>] /\ caps = FALSE /\ selected = "none"
  /\ ops = <<>> /\ retried = FALSE /\ emitted = 0 /\ failed = "no"
  /\ outcome = "done" /\ screen = Before /\ held = {} /\ broken = {} /\ clean = TRUE
  /\ userClip \in { <<>>, << "user", 0 >> }
  /\ clip = userClip /\ original = <<>> /\ generation = 0 /\ active = FALSE /\ timers = {}
  /\ unsaved = FALSE /\ supplanted = FALSE
  /\ edits = MaxEdits /\ faults = MaxFaults /\ copies = MaxCopies

Step == KeySucceeds \/ KeyFails \/ DeleteDone \/ TypeDone \/ RestoreDone \/ RunWtype
        \/ BeginPaste \/ CopyText \/ Abort \/ PasteDone

OutNext ==
  \/ \E w \in {"expander", "corrector"}, e \in Edits : Apply(w, e)
  \/ \E s \in Settings : ReloadSettings(s)
  \/ Step
  \/ \E g \in 1..MaxEdits : RestoreClipboard(g)
  \/ UserCopies

(* Apply runs to its end and the restore goroutines wake up; nobody has to  *)
(* ask for an edit or to copy anything.                                    *)
OutSpec ==
  /\ OutInit /\ [][OutNext]_outVars
  /\ WF_outVars(Step)
  /\ \A g \in 1..MaxEdits : WF_outVars(RestoreClipboard(g))

-----------------------------------------------------------------------------
(* What Apply tells its caller is what happened to the text, provided no    *)
(* key was left down before: done means the new text in place and no key   *)
(* down; refused or restored means the old text, letter for letter; after  *)
(* any other error the text is some way between the two and nothing before *)
(* it was touched.  The exceptions are wtype, which may have typed part of  *)
(* the text when it reports an error that is taken for a safe one, and a   *)
(* paste for which the user's own copy came between.                       *)
OutcomeIsTrue ==
  stage = "idle" /\ clean =>
    LET between == UNION { { SubSeq(t, 1, n) : n \in 0..Len(t) } : t \in {edit.restore, edit.text} } IN
    \/ outcome = "done" /\ screen = Before \o edit.text /\ held = {}
    \/ outcome \in {"refused", "restored"} /\ screen = Before \o edit.restore
    \/ outcome \in {"partial", "unrestored"} /\ \E t \in between : screen = Before \o t
    \/ selected = "wtype" /\ outcome \in {"restored", "unrestored"}
    \/ selected = "clipboard" /\ supplanted

(* One failing operation never leaves Backspace or a letter down, where     *)
(* autorepeat would go on deleting or typing: keyStroke tries the release  *)
(* again.  (The V of a paste is pressed by another call that does not.)    *)
TextKeyReleased ==
  stage = "idle" /\ MaxFaults - faults <= 1 => held \subseteq ModifierKeys \cup {"KEY_V"}

(* The user's clipboard comes back: while pastes overlap the value kept is  *)
(* the user's and never one of texpand's own texts, and once the last of   *)
(* them is over the clipboard holds it again - unless the user copied in   *)
(* between, the command that gives it back failed, or wl-paste failed with *)
(* the exit status that is taken for an empty clipboard (readClipboard in  *)
(* output.go), in which case the user's text is cleared.                   *)
ClipboardGivenBack ==
  ~unsaved => IF active THEN original = userClip ELSE clip = userClip

(* Every paste is over at last, whatever fails on the way: no failure path  *)
(* of Type leaves the clipboard state active with nobody to reset it.      *)
ClipboardReleased == active ~> ~active
=============================================================================
