-------------------------- MODULE ConfigFilesProofs --------------------------
(***************************************************************************)
(* Proof that init and migrate lose nothing of what the user wrote, for    *)
(* any match files, any number of edits and any number of commands that    *)
(* end between any two of their writes.                                    *)
(*                                                                         *)
(* NothingLost says nothing of what a command has yet to write, and that   *)
(* is what it hangs on.  PendingWrites follows the two writes of a         *)
(* migration: before the first the file is still the user's, before the    *)
(* second its backup is - so wherever the command ends, one of them is.    *)
(***************************************************************************)
EXTENDS ConfigFiles, TLAPS

Texts == [gen : Int, parses : BOOLEAN, word : BOOLEAN, version : Int, valid : BOOLEAN]

(* The two writes of removeWordFieldsFromFile.                              *)
BackupThenFile(n) == << <<Bak(n), saved[n]>>, <<Yml(n), Migrated(saved[n])>> >>
FileOnly(n)       == << <<Yml(n), Migrated(saved[n])>> >>
Defaults(n)       == << <<Yml(n), DefaultText(n)>> >>

(* What a command has still to write: to no match file, a default for a    *)
(* file the user does not have, or one or both writes of a migration.      *)
Elsewhere(path) == \A n \in MatchNames : path # Yml(n) /\ path # Bak(n)
PendingWrites ==
  \/ \A i \in DOMAIN command.writes : Elsewhere(command.writes[i][1])
  \/ \E n \in MatchNames :
       \/ command.writes = Defaults(n) /\ saved[n] = Absent
       \/ command.writes = BackupThenFile(n) /\ disk[Yml(n)] = saved[n] /\ saved[n].parses
       \/ command.writes = FileOnly(n) /\ disk[Bak(n)] = saved[n] /\ saved[n].parses

(* Only the user writes the deprecated fields and only the user removes a  *)
(* match file.                                                             *)
FilesAreTheUsers ==
  \A n \in MatchNames :
    /\ disk[Yml(n)].word => disk[Yml(n)] = saved[n]
    /\ disk[Yml(n)] = Absent => saved[n] = Absent

IsSequence(s) == s \in Seq(Range(s))
CommandTyped ==
  /\ DOMAIN command = {"name", "todo", "writes", "open"}
  /\ IsSequence(command.writes)
  /\ command.open => command.writes # <<>>
  /\ command.todo # <<>> => command.name \in {"init", "migrate"}
ConfigTyped ==
  /\ DOMAIN disk = Paths
  /\ \A n \in MatchNames : disk[Yml(n)] \in Texts
  /\ saved \in [MatchNames -> Texts]
  /\ edits \in Int
  /\ CommandTyped

ConfigInv == ConfigTyped /\ PendingWrites /\ FilesAreTheUsers /\ NothingLost

-----------------------------------------------------------------------------
(* Paths, texts and sequences.                                              *)

LEMMA PathFacts ==
  /\ \A n \in MatchNames : Yml(n) \in Paths /\ Bak(n) \in Paths
  /\ \A n, m : Yml(n) # Bak(m) /\ (Yml(n) = Yml(m) => n = m) /\ (Bak(n) = Bak(m) => n = m)
  /\ Elsewhere(Yml(Config))
BY MatchesAssumption DEF Paths, Names, Yml, Bak, Elsewhere

LEMMA DamagedFacts ==
  ASSUME NEW text \in Texts
  PROVE  Damaged(text) \in Texts /\ ~Damaged(text).parses /\ Damaged(text).word = text.word
BY DEF Damaged, Texts

LEMMA TextFacts ==
  /\ Empty \in Texts /\ ~Empty.word /\ Empty # Absent
  /\ Absent \in Texts /\ ~Absent.word /\ ~Absent.parses
  /\ \A n : DefaultText(n) \in Texts /\ ~DefaultText(n).word /\ DefaultText(n) # Absent
<1>1. Empty = [gen |-> 0, parses |-> TRUE, word |-> FALSE, version |-> 0, valid |-> TRUE]
  BY DEF Empty, Text
<1>2. Empty \in Texts /\ Empty.parses /\ ~Empty.word
  BY <1>1 DEF Texts
<1>3. Absent \in Texts /\ ~Absent.parses /\ ~Absent.word
  BY <1>2, DamagedFacts DEF Absent, Damaged
<1>4. \A n : DefaultText(n) \in Texts /\ DefaultText(n).parses /\ ~DefaultText(n).word
  BY DEF DefaultText, Text, Texts
<1> QED
  BY <1>2, <1>3, <1>4

LEMMA MigratedFacts ==
  ASSUME NEW text \in Texts
  PROVE  /\ Migrated(text) \in Texts /\ ~Migrated(text).word
         /\ text.parses => Migrated(text) # Absent
<1>1. Migrated(text).parses = text.parses /\ Migrated(text) \in Texts /\ ~Migrated(text).word
  BY DEF Migrated, Texts
<1> QED
  BY <1>1, TextFacts

LEMMA SequenceFacts ==
  /\ IsSequence(<<>>)
  /\ \A a : IsSequence(<<a>>) /\ Tail(<<a>>) = <<>>
  /\ \A a, b : IsSequence(<<a, b>>) /\ Tail(<<a, b>>) = <<b>>
BY DEF IsSequence, Range

LEMMA TailOfSequence ==
  ASSUME NEW s, IsSequence(s), s # <<>>
  PROVE  /\ IsSequence(Tail(s)) /\ 1 \in DOMAIN s
         /\ \A i \in DOMAIN Tail(s) : i + 1 \in DOMAIN s /\ Tail(s)[i] = s[i + 1]
<1> DEFINE S == Range(s)
           t == Tail(s)
<1>1. s \in Seq(S)
  BY DEF IsSequence
<1>2. t \in Seq(S) /\ 1 \in DOMAIN s /\ \A i \in DOMAIN t : i + 1 \in DOMAIN s /\ t[i] = s[i + 1]
  <2> HIDE DEF S
  <2> QED BY <1>1
<1>3. t \in Seq(Range(t))
  <2> HIDE DEF S, t
  <2> QED BY <1>2 DEF Range
<1> QED
  BY <1>2, <1>3 DEF IsSequence

-----------------------------------------------------------------------------
(* What a step that leaves the files of the user alone preserves.          *)

LEMMA FilesUntouched ==
  ASSUME ConfigInv, UNCHANGED <<disk, saved, edits>>, CommandTyped', PendingWrites'
  PROVE  ConfigInv'
BY DEF ConfigInv, ConfigTyped, FilesAreTheUsers, NothingLost

(* A write of one path changes what is at that path.                       *)
LEMMA WritePath ==
  ASSUME DOMAIN disk = Paths, NEW op, NEW path, NEW text, Change(op, path, text)
  PROVE  /\ DOMAIN disk' = Paths
         /\ \A q \in Paths : disk'[q] = IF q = path THEN text ELSE disk[q]
BY DEF Change

(* What is on disk of the match file n, and what its user saved, suffices.  *)
FileOK(n) ==
  /\ disk[Yml(n)] \in Texts
  /\ disk[Yml(n)].word => disk[Yml(n)] = saved[n]
  /\ disk[Yml(n)] = Absent => saved[n] = Absent
  /\ saved[n] # Absent =>
       disk[Yml(n)] \in {saved[n], Migrated(saved[n])} \/ disk[Bak(n)] = saved[n]

LEMMA FilesOK ==
  /\ ConfigInv => \A n \in MatchNames : FileOK(n)
  /\ /\ \A n \in MatchNames : FileOK(n)
     /\ DOMAIN disk = Paths /\ saved \in [MatchNames -> Texts] /\ edits \in Int
     /\ CommandTyped /\ PendingWrites
     => ConfigInv
BY DEF ConfigInv, ConfigTyped, FilesAreTheUsers, NothingLost, FileOK

LEMMA FilesOKNext ==
  ASSUME \A n \in MatchNames : FileOK(n)',
         DOMAIN disk' = Paths, saved' \in [MatchNames -> Texts], edits' \in Int,
         CommandTyped', PendingWrites'
  PROVE  ConfigInv'
BY DEF ConfigInv, ConfigTyped, FilesAreTheUsers, NothingLost, FileOK

LEMMA ConfigInitInv == ConfigInit => ConfigInv
<1> SUFFICES ASSUME ConfigInit PROVE ConfigInv
  OBVIOUS
<1>2. DOMAIN disk = Paths /\ \A q \in Paths : disk[q] \in Texts
  <2>1. Text(FirstUserGen, FALSE, 0) \in Texts /\ Text(FirstUserGen, TRUE, 0) \in Texts
    BY DEF Text, Texts, FirstUserGen
  <2> QED
    BY <2>1, TextFacts DEF ConfigInit
<1>3. saved = [n \in MatchNames |-> disk[Yml(n)]] /\ edits \in Int
  BY ConfigBudgets DEF ConfigInit
<1>4. CommandTyped /\ command.writes = <<>>
  BY SequenceFacts DEF ConfigInit, NoCommand, CommandTyped
<1>5. PendingWrites
  BY <1>4 DEF PendingWrites
<1>6. \A n \in MatchNames : FileOK(n)
  BY <1>2, <1>3, PathFacts DEF FileOK
<1> QED
  BY <1>2, <1>3, <1>4, <1>5, <1>6, PathFacts, FilesOK

-----------------------------------------------------------------------------
(* The user's steps: never on a file that a command is writing.             *)

LEMMA UserTextsTyped ==
  ASSUME ConfigInv, NEW n, NEW text \in UserTexts(n)
  PROVE  text \in Texts
<1>1. UserGen \in Int
  BY ConfigBudgets DEF UserGen, FirstUserGen, ConfigInv, ConfigTyped
<1>2. \A w \in BOOLEAN : Text(UserGen, w, 0) \in Texts
  <2> DEFINE g == UserGen
  <2> HIDE DEF g
  <2>1. g \in Int => \A w \in BOOLEAN : Text(g, w, 0) \in Texts
    BY DEF Text, Texts
  <2> QED BY <1>1, <2>1 DEF g
<1>3. \A t \in Texts : Refused(t) \in Texts
  BY DEF Refused, Texts
<1>4. text \in {Text(UserGen, FALSE, 0), Refused(Text(UserGen, FALSE, 0)), Text(UserGen, TRUE, 0),
                Damaged(Text(UserGen, FALSE, 0))}
  BY DEF UserTexts
<1> QED
  BY <1>2, <1>3, <1>4, DamagedFacts

LEMMA EditKeepsInv ==
  ASSUME ConfigInv, NEW n \in Names, NEW op \in {"write", "create", "remove", "rename"},
         NEW text \in Texts, Edit(n, op, text)
  PROVE  ConfigInv'
<1>1. /\ UNCHANGED command /\ edits' \in Int /\ ~BeingWritten(n)
      /\ Change(op, Yml(n), text)
      /\ saved' = IF n = Config THEN saved ELSE [saved EXCEPT ![n] = text]
      /\ CommandTyped'
  BY DEF Edit, ConfigInv, ConfigTyped, CommandTyped
<1>2. /\ DOMAIN disk' = Paths
      /\ \A q \in Paths : disk'[q] = IF q = Yml(n) THEN text ELSE disk[q]
  BY <1>1, WritePath DEF ConfigInv, ConfigTyped
<1>3. /\ saved' \in [MatchNames -> Texts]
      /\ \A m \in MatchNames : saved'[m] = IF m = n THEN text ELSE saved[m]
  BY <1>1, MatchesAssumption DEF ConfigInv, ConfigTyped, Names
<1>4. \A m \in MatchNames : disk'[Yml(m)] = (IF m = n THEN text ELSE disk[Yml(m)]) /\ disk'[Bak(m)] = disk[Bak(m)]
  BY <1>2, PathFacts
<1>5. \A m \in MatchNames : FileOK(m)'
  BY <1>3, <1>4, FilesOK DEF FileOK
<1>6. PendingWrites'
  <2>1. CASE \A i \in DOMAIN command.writes : Elsewhere(command.writes[i][1])
    BY <1>1, <2>1 DEF PendingWrites
  <2>2. ASSUME NEW m \in MatchNames, command.writes \in {Defaults(m), BackupThenFile(m), FileOnly(m)}
        PROVE  disk'[Yml(m)] = disk[Yml(m)] /\ disk'[Bak(m)] = disk[Bak(m)] /\ saved'[m] = saved[m]
    <3>1. BeingWritten(m)
      BY <2>2 DEF BeingWritten, Defaults, BackupThenFile, FileOnly
    <3> QED
      BY <1>1, <1>3, <1>4, <3>1
  <2>3. ASSUME NEW m \in MatchNames,
               \/ command.writes = Defaults(m) /\ saved[m] = Absent
               \/ command.writes = BackupThenFile(m) /\ disk[Yml(m)] = saved[m] /\ saved[m].parses
               \/ command.writes = FileOnly(m) /\ disk[Bak(m)] = saved[m] /\ saved[m].parses
        PROVE  PendingWrites'
    <3>1. disk'[Yml(m)] = disk[Yml(m)] /\ disk'[Bak(m)] = disk[Bak(m)] /\ saved'[m] = saved[m]
      BY <2>2, <2>3
    <3>2. command' = command
      BY <1>1
    <3> QED
      BY <2>3, <3>1, <3>2 DEF PendingWrites, Defaults, BackupThenFile, FileOnly
  <2> QED
    BY <2>1, <2>3 DEF ConfigInv, PendingWrites
<1> QED
  BY <1>1, <1>2, <1>3, <1>5, <1>6, FilesOKNext

LEMMA UserKeepsInv ==
  ASSUME ConfigInv, UserStep
  PROVE  ConfigInv'
<1>1. PICK n \in Names : SaveInPlace(n) \/ SaveByRename(n) \/ Delete(n) \/ MoveAway(n)
  BY DEF UserStep
<1>2. PICK op \in {"write", "create", "remove", "rename"}, text \in UserTexts(n) \cup {Absent} :
        Edit(n, op, text)
  BY <1>1 DEF SaveInPlace, SaveByRename, Delete, MoveAway
<1>3. text \in Texts
  BY <1>2, UserTextsTyped, TextFacts
<1> QED
  BY <1>1, <1>2, <1>3, EditKeepsInv

-----------------------------------------------------------------------------
(* The commands' steps.                                                    *)

LEMMA BeginKeepsInv ==
  ASSUME ConfigInv, BeginInit \/ BeginMigrate
  PROVE  ConfigInv'
<1>1. PICK m \in {"init", "migrate"} : \E todo : Begin(m, todo)
  BY DEF BeginInit, BeginMigrate
<1>2. CommandTyped' /\ command'.writes = <<>>
  BY <1>1, SequenceFacts DEF Begin, NoCommand, CommandTyped
<1>3. PendingWrites'
  BY <1>2 DEF PendingWrites
<1>4. UNCHANGED <<disk, saved, edits>>
  BY DEF BeginInit, BeginMigrate
<1> QED
  BY <1>2, <1>3, <1>4, FilesUntouched

(* What a visit finds to write fits what is on disk.                       *)
LEMMA VisitWrites ==
  ASSUME ConfigInv, command.name \in {"init", "migrate"},
         NEW n, ~Unreadable(n), NEW writes, writes = WritesFor(n)
  PROVE  /\ IsSequence(writes)
         /\ \/ \A i \in DOMAIN writes : Elsewhere(writes[i][1])
            \/ /\ n \in MatchNames
               /\ \/ writes = Defaults(n) /\ saved[n] = Absent
                  \/ writes = BackupThenFile(n) /\ disk[Yml(n)] = saved[n] /\ saved[n].parses
<1>0. n \notin MatchNames => Elsewhere(Yml(n)) /\ Elsewhere(Bak(n))
  BY DEF Elsewhere, Yml, Bak
<1>1. CASE command.name = "init"
  <2>1. writes = MissingDefault(n)
    BY <1>1 DEF WritesFor
  <2>2. CASE Exists(Yml(n))
    BY <2>1, <2>2, SequenceFacts DEF MissingDefault
  <2>3. CASE ~Exists(Yml(n))
    <3>1. writes = Defaults(n) /\ disk[Yml(n)] = Absent
      BY <2>1, <2>3 DEF MissingDefault, Defaults, Exists
    <3>2. n \in MatchNames => saved[n] = Absent
      BY <3>1 DEF ConfigInv, FilesAreTheUsers
    <3> QED
      BY <1>0, <3>1, <3>2, SequenceFacts DEF Defaults
  <2> QED
    BY <2>2, <2>3
<1>2. CASE command.name # "init" /\ n = Config
  BY <1>2, SequenceFacts, PathFacts DEF WritesFor, SetConfigVersion
<1>3. CASE command.name # "init" /\ n # Config
  <2>1. writes = RemoveWordFields(n)
    BY <1>3 DEF WritesFor
  <2> DEFINE text == disk[Yml(n)]
  <2>2. CASE ~text.word
    BY <2>1, <2>2, SequenceFacts DEF RemoveWordFields
  <2>3. CASE text.word
    <3>1. writes = << <<Bak(n), text>>, <<Yml(n), Migrated(text)>> >>
      BY <2>1, <2>3 DEF RemoveWordFields
    <3>2. IsSequence(writes)
      BY <3>1, SequenceFacts
    <3>3. CASE n \in MatchNames
      <4>1. text = saved[n]
        BY <2>3, <3>3 DEF ConfigInv, FilesAreTheUsers
      <4>2. command.name = "migrate"
        BY <1>3
      <4>3. saved[n].parses
        BY <1>3, <4>1, <4>2 DEF Unreadable
      <4> QED
        BY <3>1, <3>2, <3>3, <4>1, <4>3 DEF BackupThenFile
    <3>4. CASE n \notin MatchNames
      BY <1>0, <3>1, <3>2, <3>4
    <3> QED
      BY <3>3, <3>4
  <2> QED
    BY <2>2, <2>3
<1> QED
  BY <1>1, <1>2, <1>3

LEMMA VisitKeepsInv ==
  ASSUME ConfigInv, Visit
  PROVE  ConfigInv'
<1>1. PICK n : n = Head(command.todo)
  OBVIOUS
<1>2. command.todo # <<>> /\ command.writes = <<>> /\ UNCHANGED <<disk, saved, edits>>
  BY DEF Visit, Become, diskVars
<1>3. command' = IF Unreadable(n) THEN NoCommand
                 ELSE [command EXCEPT !.todo = Tail(@), !.writes = WritesFor(n)]
  BY <1>1 DEF Visit, Become
<1>4. command.name \in {"init", "migrate"} /\ ~command.open
  BY <1>2 DEF ConfigInv, ConfigTyped, CommandTyped
<1>5. CASE Unreadable(n)
  <2>1. CommandTyped' /\ command'.writes = <<>>
    BY <1>3, <1>5, SequenceFacts DEF NoCommand, CommandTyped
  <2> QED
    BY <1>2, <2>1, FilesUntouched DEF PendingWrites
<1>6. CASE ~Unreadable(n)
  <2>1. PICK writes : writes = WritesFor(n)
    OBVIOUS
  <2>2. /\ DOMAIN command' = {"name", "todo", "writes", "open"} /\ command'.writes = writes
        /\ command'.name = command.name /\ command'.open = command.open
    BY <1>3, <1>6, <2>1 DEF ConfigInv, ConfigTyped, CommandTyped
  <2>3. /\ IsSequence(writes)
        /\ \/ \A i \in DOMAIN writes : Elsewhere(writes[i][1])
           \/ /\ n \in MatchNames
              /\ \/ writes = Defaults(n) /\ saved[n] = Absent
                 \/ writes = BackupThenFile(n) /\ disk[Yml(n)] = saved[n] /\ saved[n].parses
    BY <1>4, <1>6, <2>1, VisitWrites
  <2>4. CommandTyped'
    BY <1>4, <2>2, <2>3 DEF CommandTyped
  <2>5. PendingWrites'
    BY <1>2, <2>2, <2>3 DEF PendingWrites, Defaults, BackupThenFile
  <2> QED
    BY <1>2, <2>4, <2>5, FilesUntouched
<1> QED
  BY <1>5, <1>6

(* The file about to be written, as the step of a command finds it: where  *)
(* the path leads, and what the write leaves to do.                        *)
LEMMA NextWrite ==
  ASSUME ConfigInv, command.writes # <<>>,
         NEW path, path = command.writes[1][1], NEW text, text = command.writes[1][2]
  PROVE  \/ /\ Elsewhere(path) /\ \A i \in DOMAIN command.writes : Elsewhere(command.writes[i][1])
            /\ \A i \in DOMAIN Tail(command.writes) : Elsewhere(Tail(command.writes)[i][1])
         \/ \E n \in MatchNames :
              \/ /\ command.writes = Defaults(n) /\ Tail(command.writes) = <<>>
                 /\ path = Yml(n) /\ text = DefaultText(n) /\ saved[n] = Absent
              \/ /\ command.writes = BackupThenFile(n) /\ Tail(command.writes) = FileOnly(n)
                 /\ path = Bak(n) /\ text = saved[n]
                 /\ disk[Yml(n)] = saved[n] /\ saved[n].parses
              \/ /\ command.writes = FileOnly(n) /\ Tail(command.writes) = <<>>
                 /\ path = Yml(n) /\ text = Migrated(saved[n])
                 /\ disk[Bak(n)] = saved[n] /\ saved[n].parses
<1>1. CASE \A i \in DOMAIN command.writes : Elsewhere(command.writes[i][1])
  BY <1>1, TailOfSequence DEF ConfigInv, ConfigTyped, CommandTyped
<1>2. \A n : Tail(Defaults(n)) = <<>> /\ Tail(BackupThenFile(n)) = FileOnly(n) /\ Tail(FileOnly(n)) = <<>>
  BY SequenceFacts DEF Defaults, BackupThenFile, FileOnly
<1>3. \A n : /\ Defaults(n)[1][1] = Yml(n) /\ Defaults(n)[1][2] = DefaultText(n)
             /\ BackupThenFile(n)[1][1] = Bak(n) /\ BackupThenFile(n)[1][2] = saved[n]
             /\ FileOnly(n)[1][1] = Yml(n) /\ FileOnly(n)[1][2] = Migrated(saved[n])
  BY DEF Defaults, BackupThenFile, FileOnly
<1> QED
  BY <1>1, <1>2, <1>3 DEF ConfigInv, PendingWrites

(* Whether the file is emptied or filled, that is its user's: another's    *)
(* file, a default where there is nothing to lose, a backup whose original *)
(* is still there, or a file whose backup is.                              *)
LEMMA WritingKeepsFiles ==
  ASSUME ConfigInv, command.writes # <<>>,
         NEW path, path = command.writes[1][1], NEW text, text = command.writes[1][2],
         NEW content \in {Empty, text}, UNCHANGED saved,
         \A q \in Paths : disk'[q] = IF q = path THEN content ELSE disk[q]
  PROVE  \A m \in MatchNames : FileOK(m)'
<1> SUFFICES ASSUME NEW m \in MatchNames PROVE FileOK(m)'
  OBVIOUS
<1>1. FileOK(m) /\ saved' = saved /\ saved[m] \in Texts
  BY FilesOK DEF ConfigInv, ConfigTyped
<1>2. /\ disk'[Yml(m)] = (IF path = Yml(m) THEN content ELSE disk[Yml(m)])
      /\ disk'[Bak(m)] = (IF path = Bak(m) THEN content ELSE disk[Bak(m)])
  BY PathFacts
<1>3. CASE path # Yml(m) /\ path # Bak(m)
  BY <1>1, <1>2, <1>3 DEF FileOK
<1>4. CASE path = Bak(m)
  <2>1. text = saved[m] /\ disk[Yml(m)] = saved[m]
    BY <1>4, NextWrite, PathFacts DEF Elsewhere
  <2>2. disk'[Yml(m)] = disk[Yml(m)]
    BY <1>2, <1>4, PathFacts
  <2> QED
    BY <1>1, <2>1, <2>2 DEF FileOK
<1>5. CASE path = Yml(m)
  <2>1. \/ text = DefaultText(m) /\ saved[m] = Absent
        \/ text = Migrated(saved[m]) /\ disk[Bak(m)] = saved[m] /\ saved[m].parses
    BY <1>5, NextWrite, PathFacts DEF Elsewhere
  <2>2. disk'[Yml(m)] = content /\ disk'[Bak(m)] = disk[Bak(m)]
    BY <1>2, <1>5, PathFacts
  <2>3. content \in Texts /\ ~content.word /\ content # Absent
    BY <1>1, <2>1, TextFacts, MigratedFacts
  <2> QED
    BY <1>1, <2>1, <2>2, <2>3 DEF FileOK
<1> QED
  BY <1>3, <1>4, <1>5

LEMMA TruncateKeepsInv ==
  ASSUME ConfigInv, Truncate
  PROVE  ConfigInv'
<1>1. PICK path, text : path = command.writes[1][1] /\ text = command.writes[1][2]
  OBVIOUS
<1>2. command.writes # <<>> /\ UNCHANGED <<saved, edits>>
  BY DEF Truncate
<1>3. DOMAIN disk' = Paths /\ \A q \in Paths : disk'[q] = IF q = path THEN Empty ELSE disk[q]
  BY <1>1, WritePath DEF Truncate, ConfigInv, ConfigTyped
<1>4. CommandTyped' /\ command'.writes = command.writes
  BY <1>2 DEF Truncate, ConfigInv, ConfigTyped, CommandTyped
<1>5. \A m \in MatchNames : FileOK(m)'
  BY <1>1, <1>2, <1>3, WritingKeepsFiles
<1>6. PendingWrites'
  <2>1. CASE \A i \in DOMAIN command.writes : Elsewhere(command.writes[i][1])
    BY <1>4, <2>1 DEF PendingWrites
  <2>2. CASE \E n \in MatchNames :
               \/ command.writes = Defaults(n) /\ saved[n] = Absent
               \/ /\ command.writes = BackupThenFile(n) /\ path = Bak(n)
                  /\ disk[Yml(n)] = saved[n] /\ saved[n].parses
               \/ /\ command.writes = FileOnly(n) /\ path = Yml(n)
                  /\ disk[Bak(n)] = saved[n] /\ saved[n].parses
    <3>1. \A n \in MatchNames :
            /\ path = Bak(n) => disk'[Yml(n)] = disk[Yml(n)]
            /\ path = Yml(n) => disk'[Bak(n)] = disk[Bak(n)]
      BY <1>3, PathFacts
    <3>2. saved' = saved
      BY <1>2
    <3> QED
      BY <1>4, <2>2, <3>1, <3>2 DEF PendingWrites, Defaults, BackupThenFile, FileOnly
  <2> QED
    BY <1>1, <1>2, <2>1, <2>2, NextWrite
<1>7. saved' \in [MatchNames -> Texts] /\ edits' \in Int
  BY <1>2 DEF ConfigInv, ConfigTyped
<1> QED
  BY <1>3, <1>4, <1>5, <1>6, <1>7, FilesOKNext

LEMMA WriteKeepsInv ==
  ASSUME ConfigInv, Write
  PROVE  ConfigInv'
<1>1. PICK path, text : path = command.writes[1][1] /\ text = command.writes[1][2]
  OBVIOUS
<1>2. command.writes # <<>> /\ UNCHANGED <<saved, edits>>
  BY DEF Write, ConfigInv, ConfigTyped, CommandTyped
<1>3. DOMAIN disk' = Paths /\ \A q \in Paths : disk'[q] = IF q = path THEN text ELSE disk[q]
  BY <1>1, WritePath DEF Write, ConfigInv, ConfigTyped
<1>4. CommandTyped' /\ command'.writes = Tail(command.writes)
  BY <1>2, TailOfSequence DEF Write, ConfigInv, ConfigTyped, CommandTyped
<1>5. \A m \in MatchNames : FileOK(m)'
  BY <1>1, <1>2, <1>3, WritingKeepsFiles
<1>6. PendingWrites'
  <2>1. CASE \A i \in DOMAIN Tail(command.writes) : Elsewhere(Tail(command.writes)[i][1])
    BY <1>4, <2>1 DEF PendingWrites
  <2>2. CASE Tail(command.writes) = <<>>
    BY <1>4, <2>2 DEF PendingWrites
  <2>3. CASE \E n \in MatchNames : /\ Tail(command.writes) = FileOnly(n) /\ saved[n].parses
                                   /\ path = Bak(n) /\ text = saved[n]
    <3>1. PICK n \in MatchNames : /\ Tail(command.writes) = FileOnly(n) /\ saved[n].parses
                                  /\ path = Bak(n) /\ text = saved[n]
      BY <2>3
    <3>2. disk'[Bak(n)] = saved[n] /\ saved' = saved
      BY <1>2, <1>3, <3>1, PathFacts
    <3> QED
      BY <1>4, <3>1, <3>2 DEF PendingWrites, FileOnly
  <2> QED
    BY <1>1, <1>2, <2>1, <2>2, <2>3, NextWrite
<1>7. saved' \in [MatchNames -> Texts] /\ edits' \in Int
  BY <1>2 DEF ConfigInv, ConfigTyped
<1> QED
  BY <1>3, <1>4, <1>5, <1>6, <1>7, FilesOKNext

LEMMA StopKeepsInv ==
  ASSUME ConfigInv, Stop
  PROVE  ConfigInv'
<1>1. command' = NoCommand /\ UNCHANGED <<disk, saved, edits>>
  BY DEF Stop, Become, diskVars
<1>2. CommandTyped' /\ command'.writes = <<>>
  BY <1>1, SequenceFacts DEF NoCommand, CommandTyped
<1> QED
  BY <1>1, <1>2, FilesUntouched DEF PendingWrites

-----------------------------------------------------------------------------
(* The daemon only reads.                                                  *)

LEMMA DaemonKeepsInv ==
  ASSUME ConfigInv, StartDaemon \/ DaemonStep \/ UNCHANGED configVars
  PROVE  ConfigInv'
<1>1. UNCHANGED <<disk, saved, edits, command>>
  BY DEF StartDaemon, DaemonStep, ReadMatch, Started, Watch, HandleNotice, DebounceFires, Reload,
         DaemonOnly, diskVars, configVars
<1>2. CommandTyped' /\ PendingWrites'
  BY <1>1 DEF ConfigInv, ConfigTyped, CommandTyped, PendingWrites, Defaults, BackupThenFile, FileOnly
<1> QED
  BY <1>1, <1>2, FilesUntouched

(* What a command has left to write always fits what is on disk, and what  *)
(* the user saved is in its file or in its backup.                         *)
THEOREM ConfigInvariant == ConfigSpec => []ConfigInv
<1>1. ASSUME ConfigInv, [ConfigNext]_configVars
      PROVE  ConfigInv'
  BY <1>1, UserKeepsInv, BeginKeepsInv, VisitKeepsInv, TruncateKeepsInv, WriteKeepsInv, StopKeepsInv,
     DaemonKeepsInv DEF ConfigNext, CommandStep
<1> QED
  BY <1>1, ConfigInitInv, PTL DEF ConfigSpec

(* However often init and migrate end half-way and run again, and whatever *)
(* the user edits between their writes, what he last saved in a match file *)
(* is in that file or in its backup (removeWordFieldsFromFile,             *)
(* writeDefaultMatch).                                                     *)
THEOREM NothingIsLost == ConfigSpec => []NothingLost
<1>1. ConfigInv => NothingLost
  BY DEF ConfigInv
<1> QED
  BY <1>1, ConfigInvariant, PTL

(* A match file holds the deprecated fields only when the user wrote them, *)
(* and is missing only when the user removed it or never had it: no        *)
(* command brings the fields back or deletes a file.                       *)
THEOREM CommandsNeverUndo == ConfigSpec => []FilesAreTheUsers
<1>1. ConfigInv => FilesAreTheUsers
  BY DEF ConfigInv
<1> QED
  BY <1>1, ConfigInvariant, PTL

=============================================================================
