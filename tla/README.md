# A verification of texpand

texpand is a daemon that reads the keyboards' evdev devices, follows what the
user types, and rewrites it through a virtual keyboard: triggers become
replacements, and Polish words typed without diacritics get them.  The text
belongs to another program.  texpand never sees it; it keeps its own picture of
the last few characters and asks for "n Backspaces, then this text".  Every
serious failure of such a program is the same one: the picture and the text
have drifted apart, and an edit deletes something it does not cover.

These modules model that problem end to end - keyboards, application, modifier
tracker, expander, corrector, output, D-Bus, reloads, hotplug - and around it
the parts that have hazards of their own: the life of the autocorrection
dictionary, its index and its cache file; keyboards that come and go; the
writer's key operations and the clipboard; the files of the configuration.  TLC
checks them on small instances.  TLAPS proves for every value of the constants
the modifier tracker and its place under the main loop; that the corrector's and
the expander's picture is the text, that their edits cover it, appear as asked
and can be undone, and that only whole words are corrected; that what the writer
reports of an edit is what happened to the text, and that the clipboard comes
back; the dictionary lifecycle, its cache and the queries of its index; hotplug;
and that no configuration is lost.

    tlc -config MCTyping_correction.cfg MCTyping      # a run
    tlapm DictLoadProofs.tla                          # a proof

`PROJECT.json` lists the components, the runs, for every definition the source
lines it stands for, the faulty variants used to test the properties, the
hazards of the code and the theorems.

## 1. The system

Paths are relative to the repository's root.

| Component | State | Operations | What makes it correct |
|---|---|---|---|
| Main loop (`main.go`) | none of its own; a `select` over key events, reader endings, hotplug, config changes, dictionary requests and results | order: tracker, expander, corrector, output; after an edit of one subsystem the other one's buffer is dropped | an edit covers what is before the cursor; nothing decided from stale state is carried out |
| Modifier tracker (`internal/inputstate`) | pressed modifier keys per device, count per class, Caps Lock | `Handle`, `Remove`, `Reset`, `SetCaps`, `Snapshot` | counts are the keys really down on any keyboard; none stuck, none lost |
| Corrector (`internal/correct`) | word buffer, its flags (impure, overflow, suppressed), undo, deferred correction, options, dictionary, enabled flag | `HandleEvent`, `Reset`, `Invalidate`, `SetOptions`, `SetLookup`, `SetEnabled` | buffer = tail of the text; whole words only; undo restores exactly; an undone word stays |
| Expander (`expander.go`) | tail of the text, deferred expansion, matches | `HandleEvent`, `Reload`, `ResetInputState` | a trigger fires only when it stands before the cursor |
| Output (`internal/output`) | backend, Caps Lock function, clipboard restore timer | `Apply` (delete, type, restore on failure), wtype/uinput typing, clipboard paste and restore | the text shown is the text asked for; a failed edit is put back or reported |
| Dictionary lifecycle (`autocorrect.go`) | settings, generation, load key, index, status, request and result channels | start, invalidate, receive result, apply settings, request, toggle, enable over D-Bus, status | only the configured dictionary is used; loading always ends; enabling is never lost |
| D-Bus control (`internal/control`) | the bus connection | Enable, Disable, Toggle, Status, SetActiveWindow, each on its own goroutine | as above, under any interleaving with the main loop |
| Keyboard monitoring (`keyboard.go`, `main.go`) | monitors by path | scan, reader goroutines, rescan, removal | events of replaced devices are dropped; modifiers of vanished ones given back |
| Application filter (`internal/appfilter`) | active window class, exclusions | `Set`, `ShouldCorrect`, installing the KWin script | nothing corrected in an excluded application |
| Dictionary index, cache, Hunspell, folding (`internal/dict`, `internal/hunspell`, `internal/fold`) | immutable index; a cache file | build, lookup, save, load; parse and expand affixes; fold diacritics | lookups agree with the dictionary; a cache is never stale |
| Configuration, migration, defaults (`config.go`, `autocorrect_config.go`, `migrate.go`, `config_defaults.go`, `variables.go`, `strftime.go`) | files | load, validate, migrate, write defaults, reload | an interrupted migration loses nothing; the daemon ends up with the files as they are |
| Key tables (`internal/keymap`) | constant | lookup, shortcut parsing | what is decoded is what the layout prints |

How they interact: reader goroutines send every key event into one channel; the
main loop takes one event at a time and calls tracker, expander, corrector and
writer in that order, synchronously.  Loader goroutines send results into
`dictCh`.  D-Bus goroutines write the corrector's atomic enabled flag and the
active window directly, and ask the main loop for a load through the
capacity-one channel `loadReq`.  Config and device changes arrive on further
channels.  Go's `select` picks among the ready ones at random.

What is hard: the application is ahead of the daemon by whatever is still in
the channel; compositors merge the modifiers of all keyboards, the virtual one
included, so output typed while the user holds Shift is altered and must be
deferred; an edit can fail half way; keyboards vanish with keys held; D-Bus
changes the flags between any two steps; results of overtaken loads arrive
late.  `PROJECT.json`, "hazards", names each at its line.

## 2. The modules

| Module | Models | Extends |
|---|---|---|
| `Keymap` | the key tables, cut down to one or two members of each class the code tells apart | |
| `InputState` | the modifier tracker; `InputSpec` runs it on its own | `Keymap` |
| `Corrector` | the corrector, one action per branch of `HandleEvent` | `Keymap` |
| `Expander` | the expander, one action per branch | `Keymap` |
| `Typing` | user, application, keyboards, virtual keyboard, main loop, disturbances: composes the three above | all three |
| `MCTyping` | instances of `Typing` for TLC | `Typing` |
| `Dictionary` | what the dictionary lifecycle promises, abstractly | |
| `DictLoad` | the lifecycle itself; implements `Dictionary` | |
| `Hotplug` | readers, device nodes, exit notices, rescans and the resets they bring | `InputState` |
| `Output`, `MCOutput` | the writer and its three backends key by key, the clipboard, the chains of backends | `Keymap` |
| `Hunspell` | affix files, conditions, the forms of an entry; diacritic folding: pure operators | `Keymap` |
| `DictIndex`, `MCDictIndex` | the build of the word tables and the queries, probe by probe | `Hunspell` |
| `DictCache`, `MCDictCache` | what one dictionary load does (`loadIndex`): locate, cache, build, save | |
| `ConfigFiles`, `MCConfigFiles` | `init`, `migrate`, the user's editor and the daemon's reload over one directory | |
| `InputStateProofs`, `DictLoadProofs`, `DictProofs`, `ConfigFilesProofs`, `OutputProofs` | theorems | their subjects |
| `HotplugProofs` | theorems about hotplug and the tracker under it | `Hotplug`, `InputStateProofs` |
| `TypingProofs` | theorems about the modifiers in the key path | `Typing`, `InputStateProofs` |
| `TextProofs` | theorems about text, buffers and edits | `TypingProofs` |

In the modules several definitions come in pairs of which one is not used
(`KeepUndo` before `CommitUndo`).  The unused one is a deliberately faulty
variant, a mistake the code could plausibly contain.  Put in place of the other
it breaks the property `PROJECT.json` names under "mutants"; that is how each
property was seen to depend on the code.

### Typing

`text` is what stands left of the cursor in the focused application.  A
physical key changes it at once (`ShowKey`) and is appended to `ch`.  The main
loop then goes through `pc`: `select` -> `expander` -> (`expand`) ->
`corrector` -> `act` -> `select`, one step per subsystem call in `main.go`'s
event case, so that D-Bus calls can fall between them.  `ApplyExpansion` and
`ApplyPlan` do to `text` what the writer's virtual keys do, given the modifiers
physically held and the Caps Lock state; `FailPlan` and the second alternative
of `ApplyExpansion` are the writer failing (`PartialEdits`), with the text put
back, left anywhere on the way or, after wtype, both.  `ReloadConfig`, `SetLookup`, `KeyboardDone` and
`RefreshKeyboards` are further select cases.

The corrector's Go `Result` is the variable `result`, the expander's pending
work `expansion`; both are emptied when the event is finished with.  The
corrector's field `modifiers` is not a variable because every `HandleEvent`
overwrites it first; its Caps Lock function is the tracker's state.  The
dictionary is a pair of constants, `ValidWords` and `CandidatesOf`; how
candidates are found is not part of this module.

A rescan that finds keyboards new or gone resets the tracker whatever is held
on those that stay (`RefreshKeyboards`, `main.go:275-291`).  The daemon then takes
the next letter for text where the application sees a shortcut.

Four variables are history: `original`, what the last correction replaced;
`undone`, that the word before the cursor was restored by an undo; `blind`, per
keyboard, the modifier keys held when a rescan reset the tracker, each until its
own next press or release; and `misled`, that a key other than a modifier was
handled while one was forgotten.  `blind` is exact: `HeldIsPhysical` says that
the daemon's modifiers are those held less these.  `misled` is for good: what
the buffers are worth after such a key is not followed further.

### DictLoad

One action per step of a handler after which another goroutine could see a
difference: the generation and status, then index and lookup; the enabled flag,
then the dispatch on it.  A D-Bus call is a goroutine that goes from read to
read or from store to request.  Notifications, and the old value of the flag
they need, are left out.  `settings` holds the two parts of the configuration
that matter, the dictionary (path and cache setting together, `dictionaryLoadKey`
in the code) and whether it enables autocorrection.  `Dictionary` is the
abstraction: `want`, `phase`, `served`.

### Hotplug

`Typing` has a simple hotplug, with one device per path; `Hotplug` has the
whole of it and no text.  A handle is a path and the number of the `Open` that
returned it, as the code compares both (`isCurrentKeyboardEvent`).  A reader
(`Forward`, `ReaderStops`) sends key events on `ch` and its end on `done`, and
the loop takes from the two in any order (`HandleKey`, `KeyboardDone`).  A node
may vanish and come back at the same path before either was looked at, and a
rescan may fail to open one that is there (`Rescan(missed)`).  The tracker is
`InputState`'s, unchanged: `Track`, `RemoveDevice`, `ResetTracker`.  `word` is
all that is left of the corrector and the expander, the handles whose letters
they hold.  One history variable, `blind`, holds the modifiers that were down
when their keyboard was opened or the tracker was reset: the code is not told
of them, or forgets them, until they are released.

### Output

A stage of `Writer.Apply` is a sequence of key operations, `ops`; each succeeds
(`KeySucceeds`) or fails (`KeyFails`), in which case the releases the code still
tries are left (`Cleanup`) and the stage ends as a safe or a partial failure.
`DeleteDone`, `TypeDone`, `RestoreDone`, `RunWtype`, `BeginPaste`, `CopyText`,
`Abort` and `PasteDone` are the code after each stage.  `RestoreClipboard(g)` is
the goroutine that wakes 200 ms after paste g, at any later moment.  Both
writers, the expander's and the corrector's, share the keyboard and the
clipboard; a reload builds the corrector's chain anew.

`readClipboard` takes exit status 1 of `wl-paste` for an empty clipboard,
whatever the reason; so in `BeginPaste` a failing `wl-paste` may end the paste
or leave an empty snapshot, which the restore then puts in place of the user's
text (`wl-copy --clear`).  Initially the clipboard is empty or holds a text.

A failed operation of the virtual keyboard has no effect.  The application reads
the clipboard the moment Ctrl+V arrives: one that reads it later than 200 ms
pastes the user's old text, and no program can tell.  A copy the user makes
between `wl-copy` and Ctrl+V is pasted in place of the edit's text (`supplanted`).
Caps Lock does not change within an edit.  The daemon does not end while a
restore sleeps.

### Hunspell and DictIndex

Lines are records of the fields the parser splits them into; a word is a
sequence of characters of a small alphabet that has both cases, both kinds of
letters and strangers.  `rules` and `entries` are the two parsed files.  `Expand`, `ApplyPfx` and the rest are operators;
`DictIndex` builds the two tables with them and then steps through every probe
of a bisection.  The reference is `Derived`: the forms of an entry as pairs of
an optional prefix and an optional suffix, both cut from the stem.

### DictCache

The loads of `DictLoad` seen from inside: one action per file they read, stat,
write or rename.  A file's content is its stamp, as the code tells versions
apart by size and time.  Superseded loads go on, so several run at once over
the same cache file.

### ConfigFiles

A file is abstracted to `gen`, which triggers or settings it holds, and to what
the programs ask of it: whether it parses, has the deprecated fields, its
version, whether its settings are accepted.  `os.WriteFile` is two steps,
`Truncate` and `Write`; `Stop` may end a command between any two.  The daemon
loads file by file (`ReadMatch`), watches the directories only later (`Watch`),
and after notices reloads the same way (`DebounceFires`, `ReadMatch`,
`Reload`).  `notices` counts what fsnotify has queued; the filter
`isRelevantChange` depends on nothing but the notice, so it is applied when the
notice is queued.

## 3. The runs

| Run | Shows | Distinct states, time on two workers |
|---|---|---|
| `correction` | one keyboard, corrector alone: buffer, edit and undo always match the text; whole words; an undo is final | 970 000, half a minute |
| `shifted` | expander and corrector with Shift and AltGr, both trigger modes, a reload, a failed output or the focus going to an excluded application: deferred edits wait as long as a modifier is held and no longer, still fit when they fire and come out as asked | 1 680 000, half a minute |
| `disturbed` | two keyboards, hotplug with modifiers held, D-Bus, reloads, the dictionary coming and going, output failures; the keyboards are symmetric | 2 250 000, two minutes |
| `dictionary` | loads racing with reloads, shortcut and two D-Bus goroutines; liveness; refinement of `Dictionary` | 162 000, one minute |
| `hotplug` | keyboards pulled and plugged in again while keys and exit notices are on their way; liveness | 411 000, two minutes |
| `output` | edits through all backends with failing operations, overlapping pastes, a `wl-paste` that fails either way, a user who copies; liveness | 215 000, two minutes |
| `index` | small dictionaries against the language they define, every query against the tables | 19 000, seconds |
| `cache` | three loads over one cache file, replaced dictionaries, a loss of power | 3 070 000, one minute |
| `config` | interrupted and repeated `init` and `migrate`, edits, the daemon's reload; liveness | 1 430 000, two and a half minutes |
| `typeahead` | violated: finding 1 | |
| `undo_shift` | violated: finding 2 | |
| `status_snapshot` | violated: finding 3 | |

Deadlock is not checked: the user may stop typing, and the bounds stop the
rest.

The properties.  *Where the picture meets the text*: `BufferIsScreenTail` (the
corrector's word is a suffix of the text whenever all events have been
handled), `ExpanderBufferIsScreenTail`, `UndoCoversScreen`,
`PendingCoversScreen`, and what they are for, `EditCoversScreen`: an edit handed
to the writer deletes exactly the text it names.  *What an edit does*:
`EditAppears` (the characters shown are those asked for, whatever Caps Lock and
modifiers), `UndoRestores` (the text the user typed, to the last character),
`WholeWord`, `UndoIsFinal`.  *When it happens*: `DeferredWhileHeld` (an edit put
off waits only while Shift or AltGr is held, and is not left over when they
have gone up).  *Modifiers*: `CountsArePressedKeys`, `HeldIsPhysical`.  *Dictionary*: `LookupIsDesired`, `StatusAgrees`,
`OneCurrentLoad`, `EnabledGetsDictionary`, `EnableRetries`,
`ImplementsDictionary`.  *Keyboards*: `TrackerAgrees` (once nothing of a keyboard
is on its way, tracker and keyboard agree), `WordFromMonitored` (no key of a
keyboard that was given up), `OneLiveReader`, `LiveKeyboardKept` (a late notice
never stops a new monitor), `MonitorsConverge`.  *Output*: `OutcomeIsTrue` (what
`Apply` returns is what happened to the text), `TextKeyReleased`,
`ClipboardGivenBack`, `ClipboardReleased`.  *The index*: `TablesHoldLanguage`,
`AnswersAreTrue`.  *The cache*: `LoadIsCurrent`, `CacheNeverTorn`.  *Files*:
`NothingLost`, `DaemonCatchesUp`.

Several of these name an exception, each kept by a history variable that is
true only after the excepted event: `blind` (in `Typing` and in `Hotplug`),
`misled`, `unsaved`, `supplanted`, `tainted`, `unseen`, and `clean`, which is
false after it.  Each is something the code does get wrong or cannot know, and
each is a hazard with a note in `PROJECT.json`; everything else is checked.

### Bounds

* `BufCap` 3 (64 in the code), `MaxWordLength` 2 (32), `MinWordLength` 2: three
  letters are enough to make a word too long to correct, a fourth overflows
  the buffer.  The code only compares lengths with these limits.
* `MaxText` 3 or 4: a correctable word, its separator, and in the larger
  instances a character before or after.  Text that reaches the cap cannot be
  extended, so a longer text is explored only through cursor movement, deletion
  and chords.  Four characters hold "not at a word's start, two letters,
  separator", the shortest text for which `WholeWord` can fail.
* `MaxAhead` 1: the daemon has caught up before every key.  2 in `typeahead`.
* `MaxDisturbances` 2 (`disturbed`), 1 (`shifted`): a failure followed by a
  reload, a keyboard removed and plugged in again.
* `MaxEvents` 3 and two callers in `dictionary`: an enable and a disable over
  D-Bus around a reload; a failed load and its retry need one event fewer.
  `DictChCap` 1 (8 in the code), so that three events can fill the channel and
  a loader really waits.

* `hotplug`: two keyboards, a modifier and a letter, three key events, one
  unplugging, one failed `Open`: up to three handles of a path, which is a stale
  one, a current one and a new one.  A press, its release and a letter are three
  events.
* `output`: two edits, so that a restore can meet a second paste; two faults, so
  that the recovery from the first can fail; one copy by the user.  The edits
  are one with both modifiers and a capital, one with nothing to delete, one
  only wtype or the clipboard can type.
* `index`: stems, affixes and flags chosen so that every directive, a cross
  product, a capital, a stranger, an invalid rule and a form that several entries
  share occur.  No prefix and suffix strip the same character of a stem: what
  Hunspell means then is not defined.
* `cache`: three loads, two at a time, and two changes of files: one to
  overtake a load and one to make its cache stale.
* `config`: one match file and `config.yml`, which already makes a mixture of
  two reads; two edits and two commands: a migration, its repetition and an
  edit before and after.

### Assumptions of the Typing runs

* The text is empty when the daemon starts.  Started in the middle of a word,
  the daemon corrects the rest of it as a word.
* `correction` has no second keyboard, and its reset-like disturbances are
  absent; `WholeWord` is checked there because it is known not to hold in
  `disturbed`: a hotplug calls `Reset`, which leaves `suppressed` false in the
  middle of a word.
* No property states rule 5 of `docs/architecture.md:152` (a correction is
  applied only with no Ctrl, Alt or Meta held, autocorrection on and the
  application not excluded).  The code decides by it but does not look again: a
  correction put off under Shift is released without a look at Ctrl or at the
  application (`correct.go:209`), and a D-Bus call may switch autocorrection off
  between decision and edit (`autocorrect.go:309`).  Both are hazards in
  `PROJECT.json`.
* `shifted` has undo off (finding 2), no autorepeat and no keypad: the expander
  looks at presses only and knows no keypad keys, so those would put text on the
  screen that it never sees.
* In `disturbed` nobody types on a keyboard the daemon does not read yet, and a
  keyboard is pulled out when its queued keys have been handled.  Both exclude
  behaviour in which the code loses track; they are hazards in `PROJECT.json`,
  and `Hotplug` has the behaviour without them.  A rescan may find modifiers
  held.  Nor is Caps Lock used there: a keyboard that goes or
  comes makes the loop read the LED (`main.go:265`), which is ahead of a Caps
  Lock press still in the channel, and that press then counts twice.
* A held Caps Lock key repeats to the daemon but does not toggle, in the
  application or in the tracker: its repeats are events of value 2.
* A shortcut (a key with Ctrl, Alt or Meta) may leave the text, empty it, or
  add a character.  AltGr levels of punctuation keys, which the layout has and
  the code's tables do not, are excluded by `KnownLevel`.
* `KEY_LEFT` stands for the cursor keys.  Keypad Enter is Enter to the code; Tab
  and the closing brackets are separator groups of their own, each with its
  own option, handled exactly as Enter's and punctuation's groups are.
* The two atomic accesses of the toggle shortcut are one step in `Typing`; they
  are two in `DictLoad`.

### Fairness

`Typing` has none; everything there is safety.  `DictLoad` assumes that a
handler once begun goes on (`WF` of `Handler`: straight-line code), that D-Bus
goroutines and loaders go on (`WF`: the Go scheduler; a load either ends or
fails), and that a ready `select` case is eventually taken even when it is ready
only again and again (`SF` of `ReceiveRequest` and `ReceiveResult`: Go picks
uniformly among ready cases).  Reloads, shortcuts and calls are never forced to
happen.  The bound on events is what keeps an adversary from reloading for
ever; `EnabledGetsDictionary` is about what follows when such changes stop.

`Hotplug`: a reader with something to send or report does so, a waiting key
event or notice is taken, and a rescan that would change something comes (the
ticker of five seconds).  `Output`: `Apply` is straight-line code and every
sleeping restore wakes up.  `ConfigFiles`: the daemon's loop comes round to a
queued notice and a fired timer and finishes a load it began; the user and the
commands owe nothing.  Weak fairness is enough in all three.

## 4. Findings

1. **Type-ahead** (`main.go:243`, run `typeahead`).  A plan is made for the text
   as of its separator and carried out whenever the loop gets there.  Keys typed
   in between are in the application already, and the Backspaces delete them
   instead of the word.  `Edit.Restore` in `internal/output/output.go` is
   documented as the exact text the Backspaces cover.  The passing runs exclude
   type-ahead.
2. **Undo under Shift** (`internal/correct/correct.go:301`, run `undo_shift`).
   Corrections wait for Shift to go up because output typed under it comes out
   in capitals (`correct.go:127-131`); the undo does not wait.
3. **Status is not a snapshot** (`autocorrect.go:320`, run `status_snapshot`).
   The reply is put together from three atomics; it can say "ready" and carry no
   dictionary, where `control.go:23` says it is a snapshot.

## 5. The proofs

### InputStateProofs

For any finite set of keyboards (`DevicesAssumption`), under any sequence of
key events, removals and resets:

* `TrackerTyping`: the state keeps its shape; no count becomes negative.
* `CountsCorrect`: each class's count is the cardinality of the set of its
  pressed keys over all devices (`CountsArePressedKeys`, the property of the run
  `disturbed`).  With typing it is inductive.  The argument is that each
  action adds exactly one pair to that set (`PressAdds`), removes exactly one
  (`ReleaseRemoves`) or removes one device's pairs (`ForgetRemoves`), and the
  counter moves by that much; the clamping at zero in the code never applies.
* `HeldCorrect`: hence the modifiers reported are those some key holds.

The module also has the lemmas about the key tables, on which what an edit types
depends: of the keys that give a character the reversed table names one that
needs the fewest modifiers (`FewestModifiers`, `ReverseTypes`), and the stroke
found for a character shows that character under the Caps Lock state it was
looked up for (`StrokeShows`).

### DictLoadProofs

For any dictionaries, callers, channel capacity of at least one and any number
of events (`DictLoadAssumption`):

* `DictLoadTyping`: types, on which the rest stands.
* `LoadInvariant`: `LoadInv`, the inductive invariant.  The properties speak of
  the moments between handlers; none is inductive, because a result is accepted
  on its generation alone.  What has to be true of generations at every step:
  none in flight is newer than `loadGeneration` (`GensBounded`); loads and
  results of the present generation are for `loadKey`, which is the configured
  dictionary unless a reload is half applied (`LoadsAreAsked`); there is at most
  one (`LoadsAreUnique`); and there is one exactly while the status is "loading"
  and its handler is not in the middle of starting or finishing it
  (`LoadIsAwaited`); index and lookup move together (`HandlerState`).  One lemma per
  handler shows that it keeps this.
* `LookupCorrect`, `StatusCorrect`, `OneLoadCorrect`: the properties of the run.
* `RefinesDictionary`: every step is a step of `Dictionary` or a stutter.

### DictProofs

*The cache.*  For any paths, any number of loads over one cache file, any replacements and a
loss of power at any moment.  `CacheInv` has three parts: a load has seen every
stamp its path has had while it ran (`SeesItsPath`); what it asked for and what
it read is among them (`WantedIsSeen`, `ReadIsSeen`); and unless it was overtaken
by a replacement, what it read is what it will find when it asks for the stamp
afterwards (`ReadIsStamped`), so that the header it writes is true
(`FileIsHonest`).  The last is what `LoadIsCurrent` hangs on: whoever finds the
header it wants has seen those very stamps itself.  `LoadsAreCurrent`,
`CacheFileIsHonest`, `CacheIsNeverTorn` (only the rename makes a file visible,
and it renames a whole one), `CacheTyping`.

*The queries of the index.*  The order of words is lexicographic; of it the
proof needs that it is transitive and irreflexive (`Transitive`, `Irreflexive`).
`SearchInv` says of a search under way that some place s divides the table
(`Narrowed`): what is before s is smaller than the word, what lies between s and
`lo` is the word and its spellings have been read in order, what is after `hi` is
not smaller.  `SearchesAreExact` (`[]AnswersAreExact`) shows that every probe and every
spelling read keeps this, for tables of any length that are in order (`TablesInOrder`), and
that where it ends a word is found exactly if it is there and a key's spellings
are told all and once.  `AnswersFollowTables`: if, besides, `Build` has put the
language of the dictionary into the tables, `AnswersAreTrue` holds.  That `Build`
does so is `TablesHoldLanguage`, which TLC checks; the theorem has it as a
hypothesis about the initial state, and the run `index` shows that it is met.

### HotplugProofs

For any keyboards and any bounds.  `HotplugInv`: handles are numbered in the order
they were opened, and nothing in flight names one that was not (*books*); a
monitored handle that has not ended is read and its keyboard is there, a path
without a monitor has nothing pressed (*custody*); and of every modifier of a
live keyboard, the last event on its way - in the reader's buffer, else on the
channel - says where the key is, and with none on its way the tracker says so
(*keys*).  From it `OneReaderPerKeyboard`, `WordIsFromMonitored`,
`TrackerFollowsKeyboards`, `HotplugTyping` and the action property
`LiveKeyboardIsKept`.  `HotplugDrivesTracker` shows that the composed system makes
only steps `InputSpec` allows, so that `HeldCorrect` carries over
(`HotplugHeldCorrect`).

### ConfigFilesProofs

For any match files, edits and commands.  `NothingLost` says that what the user
saved is in the file or its backup; alone it is not inductive, since a command
is about to overwrite both.  `PendingWrites` follows the writes: before the
first of a migration the file is still the user's, before the second its backup
is.  `NothingIsLost`; and `CommandsNeverUndo`: no command removes a match file or
brings deprecated fields back.

### OutputProofs

For any settings, any edits, any number of failing operations and of copies by
the user.

*The clipboard.*  `ClipboardInv`: a paste at work owns the clipboard and no
sleeping goroutine has its generation, and whenever the state is active there is
a paste or a goroutine of the latest generation.  `ClipboardHasAGuardian`; and
`ClipboardComesBack`, with the exceptions of the property: a copy by the user
during a paste, a restore that fails, and a `wl-paste` whose failure is taken for
an empty clipboard while there was a text on it.

*The outcome.*  The operations of a stage are a fold over the strokes of its
text.  What a fold gives for every text would be induction over data; instead
the proof goes by a property of such lists that is kept when two are joined
(`TwoParts`) and when the first operation is done (`TailLeads`): `Leads(p, q, h, i,
g, j)`, where p is the plan of strokes, says that the operations q begin with the
keys of h down and i strokes done, end with those of g down and j done, and that
each begins where the one before it ends.  For the fold as a whole it follows by
induction over a set of indices.  So an operation tells by itself which keys are
down and how much text there is when its turn comes.  `OutputInv` says, stage by
stage, that keys and text are what the operation due next tells, until
something fails, and after that that nothing more is pressed and the text stays
where it was.  `OutcomesAreTrue`: done means the new text in place and no key
down; refused or restored, the old text letter for letter; anything else a text
some way between.  With more than one copy by the user the property was false
as first stated - two copies, the second after Ctrl+V, left no trace of the first -
and the history variable `supplanted` is what it needed.
`TextKeysReleased`: as long as one operation at most has failed, no key but a
modifier or the V of a paste is down when `Apply` returns (`KeyInv`: the only such
key that may be down is the one whose release is due next, and the code's second
attempt can no longer fail).

### TypingProofs

The modifiers in the whole key path, for any finite set of keyboards, keys,
words, triggers, settings and bounds.  `ModifiersInv` is the key argument of
`HotplugProofs` without handles.  `TypingDrivesTracker` (the tracker's steps are
`InputSpec`'s, so its theorems hold here), `TypingCounts` and `HeldFollowsKeyboards`.
The last says that the daemon's modifiers are those held on any keyboard less
exactly the ones a rescan made the tracker forget, each until its own next
event; `ModifiersInv` has it event by event.  It has a condition, no hotplug or
no Caps Lock key, without which it is false (see the assumptions in section 3).

### TextProofs

That picture and text do not drift apart, for any words, triggers, settings and
keyboards and any length of text; `MaxAhead = 1` except where it says otherwise, as
in the passing runs, because with type-ahead the properties are false (finding 1).  It is the
longest argument here, in five layers.

1. *Sequences and tables.*  Suffixes and what appending, removing the last
   element and cutting do to them; what each class of key prints.
   `SteadyView`: keyboards come and go only where Shift, AltGr and Caps Lock are
   unused.  Then the loop handles a text key under the modifiers the
   application showed it with (`SettledView` in `TypingProofs`).
2. *One handler.*  `CorrectorOutcome` folds the fourteen branches of
   `HandleEvent` into seven outcomes (`Outcome`): word kept as it was, a deferred
   edit released with the word kept, word forgotten, taken back by an undo,
   shortened, extended by the character shown, or committed: turned into a
   correction that covers word and separator.  `ExpanderHandles` does the same for the
   expander.
3. *One event's way.*  The application shows a key before the daemon hears of
   it, so between events the word is the end of the text, and while a printing
   key is on its way the text is exactly one key ahead (`OneKeyAhead`).
   `TextInv` says for each value of `pc` how far the corrector has come;
   `ExpanderInv` says it for the expander, which comes first.  Neither the
   properties nor `OneKeyAhead` alone is inductive; deferred edits must also have
   nothing typed after them (`PendingAlone`, `DeferredAlone`).  One lemma per step of the
   loop, and one each for calls, reloads and hotplug, shows that both are kept.
   TLC checked `TextInv` as an invariant of the four runs of `Typing` with
   `MaxAhead` 1 before it was proved.  A rescan may find modifiers held, so the
   invariant is `misled \/ TextInv`.  `Sighted` closes the gap: in the middle of an
   event, either nothing is forgotten, or the event is a modifier's or the loop
   is misled already, so every text key that counts is handled under the
   modifiers the application showed it with.
4. *What follows.*  `ReliableWordOnScreen`: a word the corrector would act on is
   the end of the text, undo included.  `CorrectionsCoverScreen`.
   `BufferOnScreen` (the property of two runs) assumes `UndoShown`: undo is off, or
   nobody holds Shift or AltGr.  What an undo typed under Shift shows is not
   what it put into the buffer (finding 2), so otherwise an unreliable word is no
   promise.  `ExpanderBufferOnScreen`, `PendingOnScreen` and `EditsCoverScreen`
   (every edit, undos included, deletes exactly the text it names) assume
   `PlainTyping`: no autorepeat of text and no keypad, which the expander does not
   see.  All conditions hold in the run `shifted`.
5. *Undo.*  `UndoInv`: while a correction can be undone, the corrected word and one
   separator stand before the cursor, or are about to when the correction on its
   way is carried out (`UndoLaid`); that is kept by an edit that fails, since
   then the undo is dropped, by a deferral and by everything that resets the
   corrector.  `UndoOnScreen` (`UndoCoversScreen`), and with `StrokeShows`
   `EditsAppear` (a successful edit shows exactly the text it was to type) and
   `UndoPutsBack` (`UndoRestores`).  All three assume `OneKindHeld`: the user holds
   Shift and AltGr, or Ctrl, Alt and Meta, but not both kinds, for a correction
   deferred under Shift is released without a look at Ctrl (`correct.go:209`).
   The last two assume `UndoShown` as well, and `EditsAppear` that replacements
   have keys (`TypeableSetups`; the others go over the clipboard, which is
   `Output`'s).

`WholeWordsOnly` is another invariant over the same steps, `WordInv`: what stands
before a word that is neither suppressed nor overflowed is a separator, an opener
or nothing - and remains so after the Backspaces that empty the word, edits that
fail and are put back, expansions and undos.  It excludes the three ways the
daemon does lose it: D-Bus switching correction on in the middle of a word, a
hotplug resetting the corrector there, and a correction released under Ctrl.

Two theorems are about decisions, not text, with any type-ahead.
`DeferredEditsWait`: for any keys, setups and disturbances, rescans included, and
with no hypothesis, an edit waits only while Shift or AltGr is held on some
keyboard.  `WaitInv` follows the event under which the last of them goes up
through the loop: the expander must have released or dropped its edit when its
step is done, the corrector when its own is.  `UndoStaysFinal`: after an undo the
word is suppressed until it ends.  It assumes no D-Bus calls and no hotplug,
either of which resets the suppression.

Two are about types, with any type-ahead and any disturbance.  `CorrectorKeepsTypes`:
the buffer stays within its capacity, and every plan restores as many
characters as it deletes.  `TypesKept` is `TypeOK` of the whole key path; that
the text stays within its bound needs that no replacement is longer than its
trigger and that the bound leaves room for a word (`LeanSetups`,
`BufCap < MaxText`), assumptions about the model's bound and not about the code.

### Only model-checked

* `DictIndex`: `TablesHoldLanguage`.  The language and the tables are folds over
  entries, rules and forms, with a sort that the library defines by choice among
  permutations and a selection the provers know nothing of: what they give for
  every dictionary is induction over data.
* That `Output` carries out what `Typing` takes for the outcome of an edit
  (`PartialEdits`): the two models have different texts, and the correspondence
  is read off, not stated.
* All liveness and the fairness of `Dictionary`: beyond the prover, as is
  `ENABLED`.

## 6. Not modelled

* Configuration parsing, validation, date formatting, variables, packaging: data
  handling and I/O without state that could be illegal.
* The splitting of dictionary lines into fields, of conditions into classes and
  of flag strings into flags; the packed blobs and offsets of the tables and the
  encoding of the cache file.
* The policy for unknown applications and the installation of the KWin script;
  the D-Bus connection and the command-line client.
* Start-up retries, shutdown - also in the 200 ms before a clipboard is given
  back - and the debounce timers' durations.
* An editor that saves a file in the instants between a command's reading it and
  writing it: the command would overwrite that edit, and no backup has it.
* `config_version` says nothing about match files when `init` writes a default
  `config.yml` beside older match files: `migrate` then finds nothing to do.  The
  deprecated fields it leaves there are ignored by the loader, so no property
  is about it.
* The focus moving without a key (mouse, compositor) inside a word: the model
  has one text.  No handler of the code is told in a way that resets the
  buffers, so what follows is known without a run.

## 7. The plan

Done, in this order: key tables, tracker, corrector, expander, their
composition with the main loop; the dictionary lifecycle with its abstraction;
the proofs of tracker and lifecycle; hotplug; the output writer and the
clipboard; Hunspell and the index; the cache; the configuration files; the
proofs of cache, hotplug, configuration files and clipboard; the proofs of the
key path, modifiers first, then text, undo and whole words; the outcome of an
edit; the queries of the index.

What is left, by importance:

1. `Output` as an implementation of the edits of `Typing`: one text for both, and
   the four outcomes of `Apply` as the edit steps of the main loop.
2. What the code loses track of and no property is about yet: a correction
   released under Ctrl or after D-Bus has switched correction off, autorepeat in
   front of the expander, the focus moving within a word.
3. `TablesHoldLanguage` for every dictionary, if the folds can be given a form that
   can be proved about.
