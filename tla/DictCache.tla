------------------------------ MODULE DictCache ------------------------------
(***************************************************************************)
(* loadIndex and internal/dict/cache.go: loads of the word index that run  *)
(* side by side - a superseded one is not stopped - for whatever           *)
(* dictionary each was started with, all over one cache file.  Meanwhile a *)
(* package manager replaces or removes .dic and .aff files one by one, and *)
(* the machine may go down, which cuts off a cache file that was not yet   *)
(* on disk (nothing calls fsync).  A file is told apart by a stamp, its    *)
(* size and modification time, which every replacement makes new.          *)
(* MaxStamp, MaxLoads and MaxCrashes bound what happens.                   *)
(***************************************************************************)
EXTENDS Naturals, FiniteSets, Sequences

CONSTANTS
  Loaders,      \* goroutines that may load at the same time
  Probed,       \* the paths "auto" stands for, in the order they are tried
  MaxStamp, MaxLoads, MaxCrashes

Paths    == { Probed[i] : i \in DOMAIN Probed }
Settings == Paths \cup {"auto"}
Sections == 8      \* magic, header and three tables of blob and offsets
Missing  == 0      \* the stamp of a file that is not there

VARIABLES
  dic, aff,     \* stamps of the dictionary files of each path
  file,         \* the cache file: [header, index, sections, raced]
  load,         \* load[l]: the load in hand, see NoLoad
  powerLost,    \* history: the machine went down since the cache was written
  stamps, loads, crashes

cacheVars == <<dic, aff, file, load, powerLost, stamps, loads, crashes>>

(* What a header names and an index is made of.                            *)
Nothing == [path |-> "none", dic |-> Missing, aff |-> Missing]
NoFile  == [header |-> Nothing, index |-> Nothing, sections |-> 0, raced |-> FALSE]

(* pc names the step that comes next and temp counts the sections of the   *)
(* temporary file.  History: seen holds the stamps of the files during the *)
(* load, raced tells that one of them was replaced after it was read and   *)
(* before it was stat'ed for the header of the cache, tainted that the     *)
(* index came from a cache file written by such a load.                    *)
NoLoad == [pc |-> "idle", path |-> "none", useCache |-> FALSE, header |-> Nothing, index |-> Nothing,
           temp |-> 0, seen |-> {}, raced |-> FALSE, tainted |-> FALSE]

CacheInit ==
  /\ dic = [p \in Paths |-> 1] /\ aff = [p \in Paths |-> 1]
  /\ file = NoFile /\ load = [l \in Loaders |-> NoLoad]
  /\ powerLost = FALSE
  /\ stamps = 1 /\ loads = MaxLoads /\ crashes = MaxCrashes

-----------------------------------------------------------------------------
(* The package manager and the power supply. *)

ReadAff == {"readDic", "statDic", "statAff"}   \* the .aff is read, not yet stat'ed
ReadDic == {"statDic"}
Touch(p, window) ==
  /\ stamps < MaxStamp /\ stamps' = stamps + 1
  /\ load' = [l \in Loaders |->
       IF load[l].path # p THEN load[l]
       ELSE [load[l] EXCEPT !.seen = @ \cup {stamps'}, !.raced = @ \/ load[l].pc \in window]]
  /\ UNCHANGED <<file, powerLost, loads, crashes>>

ReplaceDic(p) == Touch(p, ReadDic) /\ dic' = [dic EXCEPT ![p] = stamps'] /\ UNCHANGED aff
ReplaceAff(p) == Touch(p, ReadAff) /\ aff' = [aff EXCEPT ![p] = stamps'] /\ UNCHANGED dic
RemovePair(p) == Touch(p, {}) /\ dic' = [dic EXCEPT ![p] = Missing] /\ aff' = [aff EXCEPT ![p] = Missing]

PowerLoss ==
  /\ crashes > 0 /\ crashes' = crashes - 1
  /\ \E n \in 0..file.sections : file' = [file EXCEPT !.sections = n]
  /\ powerLost' = TRUE
  /\ load' = [l \in Loaders |-> NoLoad]
  /\ UNCHANGED <<dic, aff, stamps, loads>>

-----------------------------------------------------------------------------
(* One load, step by step.                                                 *)

Become(l, new) == load' = [load EXCEPT ![l] = new]
Quiet == UNCHANGED <<dic, aff, stamps, loads, crashes>>

(* Locate: only the .dic is looked for.                                    *)
Located(setting) ==
  IF setting # "auto" THEN { p \in {setting} : dic[p] # Missing }
  ELSE { Probed[i] : i \in { j \in DOMAIN Probed :
           dic[Probed[j]] # Missing /\ \A k \in 1..(j - 1) : dic[Probed[k]] = Missing } }

Start(l, setting, cached) ==
  /\ load[l].pc = "idle" /\ loads > 0 /\ loads' = loads - 1
  /\ \E p \in Located(setting) :
       Become(l, [NoLoad EXCEPT
         !.pc = IF cached THEN "wantDic" ELSE "readAff", !.path = p, !.useCache = cached,
         !.header.path = p, !.index.path = p, !.seen = {dic[p], aff[p]}])
  /\ UNCHANGED <<dic, aff, file, powerLost, stamps, crashes>>

(* headerFor, for LoadCache and again for SaveCache: two stats, and no      *)
(* header if either file is missing.                                       *)
Stat(l, at, next, giveUp) ==
  LET me == load[l]
      stamp == IF at \in {"wantDic", "statDic"} THEN dic[me.path] ELSE aff[me.path]
      stamped == IF at \in {"wantDic", "statDic"} THEN [me EXCEPT !.header.dic = stamp]
                                                 ELSE [me EXCEPT !.header.aff = stamp]
  IN /\ me.pc = at
     /\ Become(l, IF stamp = Missing THEN [me EXCEPT !.pc = giveUp] ELSE [stamped EXCEPT !.pc = next])
     /\ Quiet /\ UNCHANGED <<file, powerLost>>

HeaderFor(l) ==
  \/ Stat(l, "wantDic", "wantAff", "readAff")
  \/ Stat(l, "wantAff", "readCache", "readAff")
  \/ Stat(l, "statDic", "statAff", "done")
  \/ Stat(l, "statAff", "write", "done")

(* LoadCache: the file is whole and its header is the one wanted.          *)
Whole(f) == f.sections = Sections
SameDic(f, header) == f.header.path = header.path /\ f.header.dic = header.dic
Matches(f, header) == f.header = header
ReadCache(l) ==
  LET me == load[l] IN
  /\ me.pc = "readCache"
  /\ Become(l, IF Whole(file) /\ Matches(file, me.header)
               THEN [me EXCEPT !.pc = "done", !.index = file.index, !.tainted = file.raced]
               ELSE [me EXCEPT !.pc = "readAff"])
  /\ Quiet /\ UNCHANGED <<file, powerLost>>

(* Build, which fails if a file is missing and ends the load with an error. *)
BuildAff(l) ==
  LET me == load[l] IN
  /\ me.pc = "readAff"
  /\ Become(l, IF aff[me.path] = Missing THEN NoLoad
               ELSE [me EXCEPT !.pc = "readDic", !.index.aff = aff[me.path]])
  /\ Quiet /\ UNCHANGED <<file, powerLost>>
BuildDic(l) ==
  LET me == load[l] IN
  /\ me.pc = "readDic"
  /\ Become(l, IF dic[me.path] = Missing THEN NoLoad
               ELSE [me EXCEPT !.pc = IF me.useCache THEN "statDic" ELSE "done",
                               !.index.dic = dic[me.path]])
  /\ Quiet /\ UNCHANGED <<file, powerLost>>

(* SaveCache: the temporary file is written section by section and renamed. *)
(* Any of it may fail; the load has its index all the same.                *)
FileOf(me, n) == [header |-> me.header, index |-> me.index, sections |-> n, raced |-> me.raced]
More(me) == [me EXCEPT !.temp = @ + Sections \div 2]
WriteInPlace(l)  == Become(l, More(load[l])) /\ file' = FileOf(load[l], More(load[l]).temp)
WriteSections(l) == Become(l, More(load[l])) /\ UNCHANGED file
Saved(me) == [me EXCEPT !.pc = "done", !.temp = 0]
SaveCache(l) ==
  LET me == load[l] IN
  /\ me.pc = "write"
  /\ \/ me.temp < Sections /\ WriteSections(l) /\ UNCHANGED powerLost
     \/ me.temp = Sections /\ file' = FileOf(me, me.temp) /\ powerLost' = FALSE /\ Become(l, Saved(me))
     \/ Become(l, Saved(me)) /\ UNCHANGED <<file, powerLost>>
  /\ Quiet

(* The result goes to the main loop, where DictLoad takes over.             *)
Finish(l) ==
  /\ load[l].pc = "done" /\ Become(l, NoLoad)
  /\ Quiet /\ UNCHANGED <<file, powerLost>>

CacheNext ==
  \/ \E p \in Paths : ReplaceDic(p) \/ ReplaceAff(p) \/ RemovePair(p)
  \/ PowerLoss
  \/ \E l \in Loaders :
       \/ HeaderFor(l) \/ ReadCache(l) \/ BuildAff(l) \/ BuildDic(l) \/ SaveCache(l) \/ Finish(l)
       \/ \E setting \in Settings, cached \in BOOLEAN : Start(l, setting, cached)

CacheSpec == CacheInit /\ [][CacheNext]_cacheVars

-----------------------------------------------------------------------------
(* A load ends with the index of the dictionary it located, built from a    *)
(* .dic and an .aff that were in place at some time during the load: never *)
(* with the index of another dictionary that shares the cache file, of a   *)
(* version already replaced, or of half a file.  The exception is a cache  *)
(* file whose writer was overtaken by a replacement between reading a file *)
(* and asking for its time.                                                *)
LoadIsCurrent ==
  \A l \in Loaders :
    LET me == load[l] IN
    me.pc = "done" /\ ~me.tainted =>
      me.index.path = me.path /\ {me.index.dic, me.index.aff} \subseteq me.seen

(* Whoever reads the cache file finds a whole one, however many loads write *)
(* it: only a loss of power leaves half a file.                            *)
CacheNeverTorn == file # NoFile /\ ~powerLost => Whole(file)
=============================================================================
