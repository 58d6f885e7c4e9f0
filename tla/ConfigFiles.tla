----------------------------- MODULE ConfigFiles -----------------------------
(***************************************************************************)
(* The config directory and the three programs that meet in it: the user's *)
(* editor, one `texpand init` or `texpand migrate` at a time (migrate.go,  *)
(* config_defaults.go), which may end between any two of its writes - it   *)
(* is killed, or a write fails - and is then run again, and the daemon,    *)
(* which loads the files, watches them and loads them again after every    *)
(* notice (config.go, main.go).  A file is abstracted to which triggers or *)
(* settings it holds (gen) and to what a program asks of it.  MaxEdits and *)
(* MaxCommands bound what the user does.                                   *)
(***************************************************************************)
EXTENDS Naturals, Sequences, SequencesExt

CONSTANTS
  Matches,      \* the names of the match files, in the order Glob returns them
  MaxEdits, MaxCommands

Config     == "config"
MatchNames == Range(Matches)

ASSUME MatchesAssumption == Config \notin MatchNames
ASSUME ConfigBudgets     == {MaxEdits, MaxCommands} \subseteq Nat

Names      == MatchNames \cup {Config}
Yml(n)     == <<n, ".yml">>
Bak(n)     == <<n, ".yml.bak">>
Paths      == { Yml(n) : n \in Names } \cup { Bak(n) : n \in MatchNames }

(* What a file holds: gen 0 stands for the built-in defaults and for no    *)
(* triggers, which is what an empty file and a missing one both mean.      *)
(* word: it has the deprecated fields (match files).  version and valid:   *)
(* its config_version, and that its settings are accepted (config.yml).    *)
Text(gen, word, version) ==
  [gen |-> gen, parses |-> TRUE, word |-> word, version |-> version, valid |-> TRUE]
Empty  == Text(0, FALSE, 0)
Absent == [Empty EXCEPT !.parses = FALSE]     \* cannot be read
Damaged(text) == [text EXCEPT !.parses = FALSE]
Refused(text) == [text EXCEPT !.valid = FALSE]
Migrated(text)   == [text EXCEPT !.word = FALSE]
Versioned(text)  == [text EXCEPT !.version = 1]
DefaultText(n)   == Text(1, FALSE, IF n = Config THEN 1 ELSE 0)
FirstUserGen     == 2

VARIABLES
  disk,         \* what each path holds
  matchDir,     \* the directory match/ is there
  command,      \* the init or migrate that runs, see NoCommand
  daemon,       \* its stage: "off", "loading", "unwatched", "running"
  read,         \* the load in hand: [todo, texts, gotConfig]
  loaded,       \* the gen in use of every file
  settings,     \* the gen of the autocorrect settings in use
  watching,     \* match/ is watched, and not just the directory above
  notices,      \* how many notices fsnotify has queued that isRelevantChange accepts
  debounce,     \* configDebounce runs
  saved,        \* history: what the user last saved in a match file
  unseen,       \* history: the last change of a .yml was one no notice tells of
  edits, commands

diskVars   == <<disk, matchDir, saved, edits>>
daemonVars == <<daemon, read, loaded, settings, watching, debounce>>
configVars == <<disk, matchDir, command, daemon, read, loaded, settings, watching, notices,
                debounce, saved, unseen, edits, commands>>

(* writes: what os.WriteFile has left to do, each <<path, text>>; open:    *)
(* the first of them is truncated.  todo: the files still to visit.        *)
NoCommand == [name |-> "none", todo |-> <<>>, writes |-> <<>>, open |-> FALSE]
NoRead    == [todo |-> <<>>, texts |-> [n \in {} |-> Empty]]

Exists(p) == disk[p] # Absent

ConfigInit ==
  /\ disk \in [Paths -> {Absent, Text(FirstUserGen, FALSE, 0), Text(FirstUserGen, TRUE, 0)}]
  /\ \A n \in MatchNames : disk[Bak(n)] = Absent
  /\ ~disk[Yml(Config)].word
  /\ matchDir \in BOOLEAN /\ (matchDir \/ \A n \in MatchNames : ~Exists(Yml(n)))
  /\ saved = [n \in MatchNames |-> disk[Yml(n)]]
  /\ command = NoCommand /\ daemon = "off" /\ read = NoRead
  /\ loaded = [n \in Names |-> 0] /\ settings = 0
  /\ watching = FALSE /\ notices = 0 /\ debounce = FALSE /\ unseen = FALSE
  /\ edits = MaxEdits /\ commands = MaxCommands

-----------------------------------------------------------------------------
(* Changes of files, as the kernel tells the daemon of them.               *)

(* A mutant: isRelevantChange without Create.                              *)
OnlyWrites(op, path) == op \in {"write", "remove"} /\ \E n \in Names : path = Yml(n)

IsRelevantChange(op, path) ==
  op \in {"write", "create", "remove"} /\ \E n \in Names : path = Yml(n)

Watched(path) == daemon = "running" /\ (path[1] = Config \/ watching)

(* A rename away is no Write, Create or Remove: it goes unseen by design.  *)
Change(op, path, text) ==
  /\ disk' = [disk EXCEPT ![path] = text]
  /\ notices' = IF Watched(path) /\ IsRelevantChange(op, path) THEN notices + 1 ELSE notices
  /\ unseen' = IF path[2] # ".yml" THEN unseen
               ELSE (op = "rename" \/ ~Watched(path)) /\ daemon # "off"

-----------------------------------------------------------------------------
(* The user.  Nobody edits a file in the instants between a command's look *)
(* at it and its writing.                                                  *)

BeingWritten(n) == \E i \in DOMAIN command.writes : command.writes[i][1] = Yml(n)

UserGen == FirstUserGen + MaxEdits - edits + 1

UserTexts(n) ==
  LET fresh == IF n = Config THEN {Text(UserGen, FALSE, 0), Refused(Text(UserGen, FALSE, 0))}
               ELSE {Text(UserGen, TRUE, 0)}
  IN  fresh \cup {Damaged(Text(UserGen, FALSE, 0))}

Edit(n, op, text) ==
  /\ edits > 0 /\ edits' = edits - 1
  /\ ~BeingWritten(n)
  /\ n = Config \/ matchDir
  /\ Change(op, Yml(n), text)
  /\ saved' = IF n = Config THEN saved ELSE [saved EXCEPT ![n] = text]
  /\ UNCHANGED <<matchDir, command, commands>> /\ UNCHANGED daemonVars

SaveInPlace(n) == Exists(Yml(n)) /\ \E text \in UserTexts(n) : Edit(n, "write", text)
SaveByRename(n) == \E text \in UserTexts(n) : Edit(n, "create", text)
Delete(n)   == Exists(Yml(n)) /\ Edit(n, "remove", Absent)
MoveAway(n) == Exists(Yml(n)) /\ Edit(n, "rename", Absent)

-----------------------------------------------------------------------------
(* init and migrate.                                                       *)

Begin(name, todo) ==
  /\ command.name = "none" /\ commands > 0 /\ commands' = commands - 1
  /\ command' = [NoCommand EXCEPT !.name = name, !.todo = todo]

Become(new) ==
  /\ command' = new
  /\ UNCHANGED <<notices, unseen, commands>> /\ UNCHANGED diskVars /\ UNCHANGED daemonVars

(* MkdirAll, then config.yml and every default match file.                 *)
BeginInit ==
  /\ Begin("init", <<Config>> \o Matches)
  /\ matchDir' = TRUE
  /\ UNCHANGED <<disk, saved, edits, notices, unseen>> /\ UNCHANGED daemonVars

MissingDefault(n) ==
  IF Exists(Yml(n)) THEN <<>> ELSE << <<Yml(n), DefaultText(n)>> >>

(* A config.yml that is missing or cannot tell its version has version 0.  *)
ConfigVersion == disk[Yml(Config)].version

Glob == SelectSeq(Matches, LAMBDA n : Exists(Yml(n)))

BeginMigrate ==
  /\ disk[Yml(Config)].parses \/ ~Exists(Yml(Config))
  /\ ConfigVersion < 1
  /\ Begin("migrate", Glob \o <<Config>>)
  /\ UNCHANGED <<matchDir, disk, saved, edits, notices, unseen>> /\ UNCHANGED daemonVars

(* A mutant: the file is written first and then its backup.                *)
FileFirst(n) ==
  LET text == disk[Yml(n)]
  IN  IF ~text.word THEN <<>> ELSE << <<Yml(n), Migrated(text)>>, <<Bak(n), text>> >>

(* removeWordFieldsFromFile: the backup is written before the file.        *)
RemoveWordFields(n) ==
  LET text == disk[Yml(n)]
  IN  IF ~text.word THEN <<>> ELSE << <<Bak(n), text>>, <<Yml(n), Migrated(text)>> >>

(* setConfigVersion comes last, and config.yml has no backup.              *)
SetConfigVersion ==
  << <<Yml(Config), Versioned(IF Exists(Yml(Config)) THEN disk[Yml(Config)] ELSE Empty)>> >>

WritesFor(n) ==
  IF command.name = "init" THEN MissingDefault(n)
  ELSE IF n = Config THEN SetConfigVersion ELSE RemoveWordFields(n)

Unreadable(n) ==
  /\ command.name = "migrate" /\ ~disk[Yml(n)].parses
  /\ n = Config => Exists(Yml(n))

Visit ==
  /\ command.todo # <<>> /\ command.writes = <<>>
  /\ LET n == Head(command.todo)
     IN  Become(IF Unreadable(n) THEN NoCommand
                ELSE [command EXCEPT !.todo = Tail(@), !.writes = WritesFor(n)])

(* os.WriteFile: the file is created or truncated, and then written.       *)
Truncate ==
  /\ command.writes # <<>> /\ ~command.open
  /\ LET path == command.writes[1][1]
     IN  Change(IF Exists(path) THEN "write" ELSE "create", path, Empty)
  /\ command' = [command EXCEPT !.open = TRUE]
  /\ UNCHANGED <<matchDir, saved, edits, commands>> /\ UNCHANGED daemonVars

Write ==
  /\ command.open
  /\ Change("write", command.writes[1][1], command.writes[1][2])
  /\ command' = [command EXCEPT !.open = FALSE, !.writes = Tail(@)]
  /\ UNCHANGED <<matchDir, saved, edits, commands>> /\ UNCHANGED daemonVars

(* It is done, or it is killed or a write fails and the rest is not done.  *)
Stop == command.name # "none" /\ Become(NoCommand)

-----------------------------------------------------------------------------
(* The daemon.                                                             *)

DaemonOnly == UNCHANGED <<command, commands>> /\ UNCHANGED diskVars

(* LoadAppConfig, then LoadConfig's Glob: a look at every name.            *)
ReadableConfig == disk[Yml(Config)].parses \/ ~Exists(Yml(Config))
BeginRead == read' = [todo |-> Glob, texts |-> (Config :> disk[Yml(Config)])]

StartDaemon ==
  /\ daemon = "off" /\ ReadableConfig
  /\ daemon' = "loading" /\ BeginRead
  /\ unseen' = FALSE
  /\ UNCHANGED <<loaded, settings, watching, notices, debounce>> /\ DaemonOnly

(* LoadConfig, one file; one that cannot be read or parsed ends the load:  *)
(* run() fails with it, a reload keeps everything as it was.               *)
ReadMatch ==
  /\ read.todo # <<>>
  /\ LET n == Head(read.todo)
     IN  IF disk[Yml(n)].parses
         THEN /\ read' = [todo |-> Tail(read.todo), texts |-> read.texts @@ (n :> disk[Yml(n)])]
              /\ UNCHANGED daemon
         ELSE read' = NoRead /\ daemon' = IF daemon = "loading" THEN "off" ELSE daemon
  /\ UNCHANGED <<loaded, settings, watching, notices, debounce, unseen>> /\ DaemonOnly

(* Reload takes the whole config or nothing of it; refused autocorrect     *)
(* settings are kept as they were, and at the start they end run().        *)
ReadDone == read # NoRead /\ read.todo = <<>>
TakeConfig ==
  /\ loaded' = [n \in Names |-> IF n \in DOMAIN read.texts THEN read.texts[n].gen ELSE 0]
  /\ settings' = IF read.texts[Config].valid THEN read.texts[Config].gen ELSE settings
  /\ read' = NoRead

Started ==
  /\ daemon = "loading" /\ ReadDone
  /\ IF read.texts[Config].valid
     THEN daemon' = "unwatched" /\ TakeConfig
     ELSE daemon' = "off" /\ read' = NoRead /\ UNCHANGED <<loaded, settings>>
  /\ UNCHANGED <<watching, notices, debounce, unseen>> /\ DaemonOnly

(* The watches are added when a keyboard was found, up to 45 s after the   *)
(* files were read; that of a directory that is not there fails.           *)
Watch ==
  /\ daemon = "unwatched"
  /\ daemon' = "running" /\ watching' = matchDir
  /\ UNCHANGED <<read, loaded, settings, notices, debounce, unseen>> /\ DaemonOnly

LoopIdle == daemon = "running" /\ read = NoRead

HandleNotice ==
  /\ LoopIdle /\ notices > 0
  /\ notices' = notices - 1
  /\ debounce' = TRUE
  /\ UNCHANGED <<daemon, read, loaded, settings, watching, unseen>> /\ DaemonOnly

DebounceFires ==
  /\ LoopIdle /\ debounce
  /\ debounce' = FALSE
  /\ IF ReadableConfig THEN BeginRead ELSE read' = NoRead
  /\ UNCHANGED <<daemon, loaded, settings, watching, notices, unseen>> /\ DaemonOnly

Reload ==
  /\ daemon = "running" /\ ReadDone
  /\ TakeConfig
  /\ UNCHANGED <<daemon, watching, notices, debounce, unseen>> /\ DaemonOnly

-----------------------------------------------------------------------------
UserStep    == \E n \in Names : SaveInPlace(n) \/ SaveByRename(n) \/ Delete(n) \/ MoveAway(n)
CommandStep == BeginInit \/ BeginMigrate \/ Visit \/ Truncate \/ Write \/ Stop
DaemonStep  == ReadMatch \/ Started \/ Watch \/ HandleNotice \/ DebounceFires \/ Reload

ConfigNext == UserStep \/ CommandStep \/ StartDaemon \/ DaemonStep

(* The daemon's loop comes round to a queued notice and to a timer that    *)
(* fired; nothing is asked of the user or of a command.                    *)
ConfigSpec ==
  /\ ConfigInit /\ [][ConfigNext]_configVars
  /\ WF_configVars(ReadMatch) /\ WF_configVars(Reload)
  /\ WF_configVars(HandleNotice) /\ WF_configVars(DebounceFires)

-----------------------------------------------------------------------------
(* However often init and migrate end half-way and run again, what the     *)
(* user last saved in a match file stays in that file, with or without the *)
(* deprecated fields, or in its backup.                                    *)
NothingLost ==
  \A n \in MatchNames :
    saved[n] # Absent =>
      disk[Yml(n)] \in {saved[n], Migrated(saved[n])} \/ disk[Bak(n)] = saved[n]

(* What the daemon would load now is what it has, or it would not load it. *)
UpToDate ==
  \/ \E n \in Names : Exists(Yml(n)) /\ ~disk[Yml(n)].parses
  \/ /\ loaded = [n \in Names |-> disk[Yml(n)].gen]
     /\ disk[Yml(Config)].valid => settings = disk[Yml(Config)].gen

(* Once the files stop changing the daemon comes to use them all as they   *)
(* are, though it may have read some of them before a change and some      *)
(* after, or an emptied file in the middle of a command's writing.         *)
(* Excepted are the changes it is never told of: a file moved away, and    *)
(* changes in a directory it did not watch yet or could not watch.         *)
DaemonCatchesUp == (daemon = "running" /\ ~unseen) ~> (unseen \/ UpToDate)

=============================================================================
