------------------------------ MODULE DictProofs ------------------------------
(***************************************************************************)
(* Proofs about internal/dict, its cache and its queries, which are        *)
(* independent of each other.                                              *)
(*                                                                         *)
(* The cache, for any number of loads side by side, any list of probed     *)
(* paths and any number of replacements, removals and losses of power.     *)
(* What carries LoadIsCurrent is a chain of custody.  A load that was not  *)
(* overtaken asks for the time of the very file it read (ReadIsStamped),   *)
(* so a cache file it writes names in its header what its index is made of *)
(* (FileIsHonest), and whoever wants that header saw these stamps itself.  *)
(*                                                                         *)
(* The queries, for any two tables and any words that are asked for: if    *)
(* the tables are in order the bisection finds what is there, and if they  *)
(* hold the language the answers are true.  Of the order, which is         *)
(* lexicographic, only transitivity and irreflexivity are needed.          *)
(***************************************************************************)
EXTENDS DictCache, DictIndex, TLAPS

-----------------------------------------------------------------------------
(* The cache.                                                              *)

Stages == {"idle", "wantDic", "wantAff", "readCache", "readAff", "readDic", "statDic",
           "statAff", "write", "done"}
Idle == {"idle", "done"}

Versions  == [path : Paths \cup {"none"}, dic : Nat, aff : Nat]
LoadType  == [pc : Stages, path : Paths \cup {"none"}, useCache : BOOLEAN, header : Versions,
              index : Versions, temp : Nat, seen : SUBSET Nat, raced : BOOLEAN, tainted : BOOLEAN]
CacheFile == [header : Versions, index : Versions, sections : Nat, raced : BOOLEAN]

CacheTypeOK ==
  /\ dic \in [Paths -> Nat] /\ aff \in [Paths -> Nat]
  /\ stamps \in Nat
  /\ file \in CacheFile
  /\ load \in [Loaders -> LoadType]

(* Of the load me, at work: it is about one path, and it has seen every     *)
(* stamp that this path has now.                                           *)
SeesItsPath(me) ==
  me.pc \notin Idle =>
    /\ me.path \in Paths /\ me.header.path = me.path /\ me.index.path = me.path
    /\ {dic[me.path], aff[me.path]} \subseteq me.seen \cup {Missing}

(* What it asked for or read was in place while it ran.                    *)
WantedIsSeen(me) ==
  /\ me.pc \in {"wantAff", "readCache"} => me.header.dic \in me.seen
  /\ me.pc = "readCache" => me.header.aff \in me.seen

ReadIsSeen(me) ==
  /\ me.pc \in {"readDic", "statDic", "statAff", "write"} => me.index.aff \in me.seen
  /\ me.pc \in {"statDic", "statAff", "write"} => me.index.dic \in me.seen
  /\ me.pc = "done" /\ ~me.tainted =>
       me.index.path = me.path /\ {me.index.dic, me.index.aff} \subseteq me.seen

(* Unless it was overtaken, what it read is still in place - or gone, and  *)
(* then it will get no header - until it has asked for its stamp.          *)
ReadIsStamped(me) ==
  ~me.raced =>
    /\ me.pc \in ReadAff => aff[me.path] \in {me.index.aff, Missing}
    /\ me.pc \in ReadDic => dic[me.path] \in {me.index.dic, Missing}
    /\ me.pc \in {"statAff", "write"} => me.header.dic = me.index.dic
    /\ me.pc = "write" => me.header.aff = me.index.aff

LoadOK(me) == SeesItsPath(me) /\ WantedIsSeen(me) /\ ReadIsSeen(me) /\ ReadIsStamped(me)

FileIsHonest == ~file.raced => file.index = file.header

CacheInv == CacheTypeOK /\ FileIsHonest /\ \A l \in Loaders : LoadOK(load[l])

-----------------------------------------------------------------------------
LEMMA NoLoadOK == NoLoad \in LoadType /\ LoadOK(NoLoad)
<1>1. NoLoad \in LoadType
  BY DEF NoLoad, LoadType, Nothing, Versions, Stages, Missing
<1>2. LoadOK(NoLoad)
  BY DEF NoLoad, LoadOK, SeesItsPath, WantedIsSeen, ReadIsSeen, ReadIsStamped, Idle, ReadAff, ReadDic
<1> QED
  BY <1>1, <1>2

LEMMA CacheInitInv == CacheInit => CacheInv
<1> SUFFICES ASSUME CacheInit PROVE CacheInv
  OBVIOUS
<1>1. file \in CacheFile
  BY DEF CacheInit, NoFile, Nothing, CacheFile, Versions, Missing
<1>2. CacheTypeOK
  BY <1>1, NoLoadOK DEF CacheInit, CacheTypeOK
<1>3. FileIsHonest
  BY DEF CacheInit, FileIsHonest, NoFile
<1>4. \A l \in Loaders : LoadOK(load[l])
  BY NoLoadOK DEF CacheInit
<1> QED
  BY <1>2, <1>3, <1>4 DEF CacheInv

(* A step of one load leaves the others as they were.                      *)
LEMMA OneLoadMoves ==
  ASSUME CacheInv, NEW l \in Loaders, NEW new \in LoadType, LoadOK(new), Become(l, new),
         UNCHANGED <<dic, aff>>, stamps' \in Nat, file' \in CacheFile, FileIsHonest'
  PROVE  CacheInv'
<1>1. load' \in [Loaders -> LoadType] /\ \A k \in Loaders : load'[k] = IF k = l THEN new ELSE load[k]
  BY DEF Become, CacheInv, CacheTypeOK
<1>2. CacheTypeOK'
  BY <1>1 DEF CacheInv, CacheTypeOK
<1>3. ASSUME NEW k \in Loaders PROVE LoadOK(load[k])'
  <2>1. LoadOK(load'[k])
    BY <1>1 DEF CacheInv
  <2> QED
    BY <2>1 DEF LoadOK, SeesItsPath, WantedIsSeen, ReadIsSeen, ReadIsStamped
<1> QED
  BY <1>2, <1>3 DEF CacheInv
-----------------------------------------------------------------------------
(* One lemma per kind of step.                                             *)

LEMMA SeeingIsTyped ==
  ASSUME NEW me \in LoadType, NEW seen \in SUBSET Nat, NEW raced \in BOOLEAN
  PROVE  [me EXCEPT !.seen = seen, !.raced = raced] \in LoadType
BY DEF LoadType

(* A file of p changes: every load that is about p sees it, and is          *)
(* overtaken if it has read that file and not yet asked for its stamp.     *)
LEMMA TouchKeepsInv ==
  ASSUME CacheInv, NEW p \in Paths, NEW window, Touch(p, window),
         dic' \in [Paths -> Nat], aff' \in [Paths -> Nat],
         \A q \in Paths \ {p} : dic'[q] = dic[q] /\ aff'[q] = aff[q],
         dic'[p] \in {dic[p], Missing} \/ (dic'[p] = stamps' /\ ReadDic \subseteq window),
         aff'[p] \in {aff[p], Missing} \/ (aff'[p] = stamps' /\ ReadAff \subseteq window)
  PROVE  CacheInv'
<1> USE DEF CacheInv, CacheTypeOK
<1>1. stamps' = stamps + 1 /\ UNCHANGED file
  BY DEF Touch
<1>2. load' = [l \in Loaders |-> load'[l]]
  BY DEF Touch
<1>3. ASSUME NEW l \in Loaders
      PROVE  load'[l] \in LoadType /\ LoadOK(load[l])'
  <2>1. CASE load[l].path # p
    <3>1. load'[l] = load[l]
      BY <2>1 DEF Touch
    <3>2. load[l].pc \notin Idle => /\ load[l].path \in Paths
                                    /\ dic'[load[l].path] = dic[load[l].path]
                                    /\ aff'[load[l].path] = aff[load[l].path]
      BY <2>1 DEF LoadOK, SeesItsPath
    <3> QED
      BY <3>1, <3>2 DEF LoadOK, SeesItsPath, WantedIsSeen, ReadIsSeen, ReadIsStamped, Idle, ReadAff, ReadDic
  <2>2. CASE load[l].path = p
    <3>1. PICK overtaken \in BOOLEAN :
            /\ load'[l] = [load[l] EXCEPT !.seen = @ \cup {stamps'}, !.raced = overtaken]
            /\ ~overtaken => ~load[l].raced /\ load[l].pc \notin window
      <4>1. load'[l] = [load[l] EXCEPT !.seen = @ \cup {stamps'}, !.raced = @ \/ load[l].pc \in window]
        BY <2>2 DEF Touch
      <4>2. CASE load[l].raced \/ load[l].pc \in window
        <5>1. load'[l] = [load[l] EXCEPT !.seen = @ \cup {stamps'}, !.raced = TRUE]
          BY <4>1, <4>2 DEF LoadType
        <5> QED BY <5>1
      <4>3. CASE ~(load[l].raced \/ load[l].pc \in window)
        <5>1. load'[l] = [load[l] EXCEPT !.seen = @ \cup {stamps'}, !.raced = FALSE]
          BY <4>1, <4>3 DEF LoadType
        <5> QED BY <4>3, <5>1
      <4> QED
        BY <4>2, <4>3
    <3>2. load'[l] \in LoadType
      <4> DEFINE me == load[l]
                 seen == me.seen \cup {stamps'}
      <4>1. seen \in SUBSET Nat /\ me \in LoadType
        BY <1>1 DEF LoadType
      <4>2. load'[l] = [me EXCEPT !.seen = seen, !.raced = overtaken]
        BY <3>1
      <4>3. [me EXCEPT !.seen = seen, !.raced = overtaken] \in LoadType
        <5> HIDE DEF seen, me
        <5> QED BY <4>1, SeeingIsTyped
      <4> QED
        <5> HIDE DEF seen, me
        <5> QED BY <4>2, <4>3
    <3>3. SeesItsPath(load[l])'
      BY <1>1, <2>2, <3>1 DEF LoadOK, SeesItsPath, LoadType
    <3>4. WantedIsSeen(load[l])' /\ ReadIsSeen(load[l])'
      BY <3>1 DEF LoadOK, WantedIsSeen, ReadIsSeen, LoadType
    <3>5. ReadIsStamped(load[l])'
      <4> SUFFICES ASSUME ~overtaken PROVE ReadIsStamped(load[l])'
        BY <3>1 DEF ReadIsStamped, LoadType
      <4>1. ReadIsStamped(load[l]) /\ ~load[l].raced
        BY <3>1 DEF LoadOK
      <4>2. load[l].pc \in ReadDic => dic'[p] \in {load[l].index.dic, Missing}
        BY <2>2, <3>1, <4>1 DEF ReadIsStamped
      <4>3. load[l].pc \in ReadAff => aff'[p] \in {load[l].index.aff, Missing}
        BY <2>2, <3>1, <4>1 DEF ReadIsStamped
      <4> QED
        BY <2>2, <3>1, <4>1, <4>2, <4>3 DEF ReadIsStamped, LoadType
    <3> QED
      BY <3>2, <3>3, <3>4, <3>5 DEF LoadOK
  <2> QED
    BY <2>1, <2>2
<1>4. load' \in [Loaders -> LoadType]
  BY <1>2, <1>3
<1> QED
  BY <1>1, <1>3, <1>4 DEF FileIsHonest

LEMMA PackagesKeepInv ==
  ASSUME CacheInv, NEW p \in Paths, ReplaceDic(p) \/ ReplaceAff(p) \/ RemovePair(p)
  PROVE  CacheInv'
<1>1. dic \in [Paths -> Nat] /\ aff \in [Paths -> Nat] /\ stamps \in Nat
  BY DEF CacheInv, CacheTypeOK
<1>2. CASE ReplaceDic(p)
  <2>1. Touch(p, ReadDic)
    BY <1>2 DEF ReplaceDic
  <2>2. stamps' = stamps + 1
    BY <2>1 DEF Touch
  <2>3. dic' = [dic EXCEPT ![p] = stamps'] /\ aff' = aff
    BY <1>2 DEF ReplaceDic
  <2> QED
    BY <1>1, <2>1, <2>2, <2>3, TouchKeepsInv
<1>3. CASE ReplaceAff(p)
  <2>1. Touch(p, ReadAff)
    BY <1>3 DEF ReplaceAff
  <2>2. stamps' = stamps + 1
    BY <2>1 DEF Touch
  <2>3. aff' = [aff EXCEPT ![p] = stamps'] /\ dic' = dic
    BY <1>3 DEF ReplaceAff
  <2> QED
    BY <1>1, <2>1, <2>2, <2>3, TouchKeepsInv
<1>4. CASE RemovePair(p)
  <2>1. Touch(p, {}) /\ Missing \in Nat
    BY <1>4 DEF RemovePair, Missing
  <2>2. dic' = [dic EXCEPT ![p] = Missing] /\ aff' = [aff EXCEPT ![p] = Missing]
    BY <1>4 DEF RemovePair
  <2> QED
    BY <1>1, <2>1, <2>2, TouchKeepsInv
<1> QED
  BY <1>2, <1>3, <1>4

(* The disk keeps what the cache file says, if not all of it.              *)
LEMMA PowerLossKeepsInv ==
  ASSUME CacheInv, PowerLoss
  PROVE  CacheInv'
<1>1. PICK n \in 0..file.sections : file' = [file EXCEPT !.sections = n]
  BY DEF PowerLoss
<1>2. file' \in CacheFile /\ FileIsHonest'
  BY <1>1 DEF CacheInv, CacheTypeOK, CacheFile, FileIsHonest
<1>3. load' = [l \in Loaders |-> NoLoad] /\ UNCHANGED <<dic, aff, stamps>>
  BY DEF PowerLoss
<1>4. LoadOK(NoLoad)'
  BY DEF NoLoad, LoadOK, SeesItsPath, WantedIsSeen, ReadIsSeen, ReadIsStamped, Idle, ReadAff, ReadDic
<1> QED
  BY <1>2, <1>3, <1>4, NoLoadOK DEF CacheInv, CacheTypeOK

LEMMA LocatedIsPath ==
  ASSUME NEW setting \in Settings
  PROVE  Located(setting) \subseteq Paths
BY DEF Located, Settings, Paths

(* What a load is when it starts, field by field.                          *)
Fresh(me, stage, p, cached, seen) ==
  [me EXCEPT !.pc = stage, !.path = p, !.useCache = cached,
             !.header.path = p, !.index.path = p, !.seen = seen]

LEMMA FreshLoad ==
  ASSUME NEW me \in LoadType, NEW stage \in Stages, NEW p \in Paths, NEW cached \in BOOLEAN,
         NEW seen \in SUBSET Nat
  PROVE  LET new == Fresh(me, stage, p, cached, seen)
         IN  /\ new \in LoadType
             /\ new.pc = stage /\ new.path = p /\ new.header.path = p /\ new.index.path = p
             /\ new.seen = seen /\ new.raced = me.raced
<1> DEFINE header == [me.header EXCEPT !.path = p]
           index  == [me.index EXCEPT !.path = p]
           new    == [me EXCEPT !.pc = stage, !.path = p, !.useCache = cached,
                                !.header = header, !.index = index, !.seen = seen]
<1>1. header \in Versions /\ index \in Versions /\ header.path = p /\ index.path = p
  BY DEF LoadType, Versions
<1>2. /\ new \in LoadType
      /\ new.pc = stage /\ new.path = p /\ new.header = header /\ new.index = index
      /\ new.seen = seen /\ new.raced = me.raced
  <2> HIDE DEF header, index
  <2> QED BY <1>1 DEF LoadType
<1> QED
  BY <1>1, <1>2 DEF Fresh

LEMMA StartKeepsInv ==
  ASSUME CacheInv, NEW l \in Loaders, NEW setting \in Settings, NEW cached \in BOOLEAN,
         Start(l, setting, cached)
  PROVE  CacheInv'
<1> DEFINE stage == IF cached THEN "wantDic" ELSE "readAff"
           seen(p) == {dic[p], aff[p]}
           new(p) == Fresh(NoLoad, stage, p, cached, seen(p))
<1>1. PICK p \in Paths : Become(l, new(p))
  BY LocatedIsPath DEF Start, Fresh
<1>2. /\ new(p) \in LoadType
      /\ new(p).pc = stage /\ new(p).path = p /\ new(p).header.path = p
      /\ new(p).index.path = p /\ new(p).seen = seen(p) /\ new(p).raced = NoLoad.raced
  <2>1. seen(p) \in SUBSET Nat /\ stage \in Stages
    BY DEF CacheInv, CacheTypeOK, Stages
  <2> QED
    <3> HIDE DEF seen, stage
    <3> QED BY <2>1, NoLoadOK, FreshLoad
<1>3. LoadOK(new(p))
  <2> HIDE DEF new
  <2> QED BY <1>2 DEF LoadOK, SeesItsPath, WantedIsSeen, ReadIsSeen, ReadIsStamped, Idle, ReadAff, ReadDic
<1>4. UNCHANGED <<dic, aff, file, stamps>>
  BY DEF Start
<1> QED
  <2> HIDE DEF new
  <2> QED BY <1>1, <1>2, <1>3, <1>4, OneLoadMoves DEF CacheInv, CacheTypeOK, FileIsHonest
(* headerFor asks for a stamp: it is one the load has seen, and for         *)
(* SaveCache that of the file it read, unless it was overtaken.            *)
LEMMA StatKeepsInv ==
  ASSUME CacheInv, NEW l \in Loaders, HeaderFor(l)
  PROVE  CacheInv'
<1> DEFINE me == load[l]
<1>1. me \in LoadType /\ LoadOK(me)
  BY DEF CacheInv, CacheTypeOK
<1>2. /\ UNCHANGED <<dic, aff, stamps, file>>
      /\ stamps' \in Nat /\ file' \in CacheFile /\ FileIsHonest'
  BY DEF HeaderFor, Stat, Quiet, CacheInv, CacheTypeOK, FileIsHonest
<1> DEFINE atDic == me.pc \in {"wantDic", "statDic"}
           stamp == IF atDic THEN dic[me.path] ELSE aff[me.path]
           given == IF atDic THEN [me EXCEPT !.header.dic = stamp]
                             ELSE [me EXCEPT !.header.aff = stamp]
<1>3. PICK next \in Stages, giveUp \in Stages :
        /\ <<me.pc, next, giveUp>> \in { <<"wantDic", "wantAff", "readAff">>, <<"wantAff", "readCache", "readAff">>,
                                         <<"statDic", "statAff", "done">>, <<"statAff", "write", "done">> }
        /\ Stat(l, me.pc, next, giveUp)
  <2>1. \A at, next, giveUp : Stat(l, at, next, giveUp) => at = me.pc
    BY DEF Stat
  <2>2. \E at, next, giveUp :
          /\ <<at, next, giveUp>> \in { <<"wantDic", "wantAff", "readAff">>, <<"wantAff", "readCache", "readAff">>,
                                        <<"statDic", "statAff", "done">>, <<"statAff", "write", "done">> }
          /\ Stat(l, at, next, giveUp)
    BY DEF HeaderFor
  <2> QED
    BY <2>1, <2>2 DEF Stages
<1>3a. Become(l, IF stamp = Missing THEN [me EXCEPT !.pc = giveUp] ELSE [given EXCEPT !.pc = next])
  BY <1>3 DEF Stat
<1>4. stamp \in Nat /\ stamp \in me.seen \cup {Missing} /\ me.path \in Paths
  BY <1>1, <1>3 DEF CacheInv, CacheTypeOK, LoadOK, SeesItsPath, Idle
<1>5. CASE stamp = Missing
  <2> DEFINE new == [me EXCEPT !.pc = giveUp]
  <2>1. new \in LoadType
    BY <1>1 DEF LoadType
  <2>2. LoadOK(new)
    BY <1>1, <1>3 DEF LoadType, LoadOK, SeesItsPath, WantedIsSeen, ReadIsSeen, ReadIsStamped, Idle, ReadAff, ReadDic
  <2>3. Become(l, new)
    BY <1>3a, <1>5
  <2> QED
    <3> HIDE DEF new
    <3> QED BY <1>2, <2>1, <2>2, <2>3, OneLoadMoves
<1>6. CASE stamp # Missing
  <2> DEFINE header == IF atDic THEN [me.header EXCEPT !.dic = stamp] ELSE [me.header EXCEPT !.aff = stamp]
             new    == [me EXCEPT !.pc = next, !.header = header]
  <2>1. /\ header \in Versions /\ header.path = me.header.path
        /\ header.dic = IF atDic THEN stamp ELSE me.header.dic
        /\ header.aff = IF atDic THEN me.header.aff ELSE stamp
    BY <1>1, <1>4 DEF LoadType, Versions
  <2>2. new \in LoadType
    <3> HIDE DEF header
    <3> QED BY <1>1, <2>1 DEF LoadType
  <2>3. LoadOK(new)
    <3> HIDE DEF header
    <3>1. SeesItsPath(new)
      BY <1>1, <1>3, <2>1 DEF LoadType, LoadOK, SeesItsPath, Idle
    <3>2. WantedIsSeen(new)
      BY <1>1, <1>3, <1>4, <1>6, <2>1 DEF LoadType, LoadOK, WantedIsSeen
    <3>3. ReadIsSeen(new)
      BY <1>1, <1>3, <2>1 DEF LoadType, LoadOK, ReadIsSeen
    <3>4. ReadIsStamped(new)
      BY <1>1, <1>3, <1>6, <2>1 DEF LoadType, LoadOK, ReadIsStamped, ReadAff, ReadDic
    <3> QED
      BY <3>1, <3>2, <3>3, <3>4 DEF LoadOK
  <2>4. Become(l, new)
    <3>1. [given EXCEPT !.pc = next] = new
      BY <1>1 DEF LoadType
    <3> QED
      BY <1>3a, <1>6, <3>1
  <2> QED
    <3> HIDE DEF new
    <3> QED BY <1>2, <2>2, <2>3, <2>4, OneLoadMoves
<1> QED
  BY <1>5, <1>6

(* LoadCache takes an index only under the header it asked for.            *)
LEMMA ReadCacheKeepsInv ==
  ASSUME CacheInv, NEW l \in Loaders, ReadCache(l)
  PROVE  CacheInv'
<1> DEFINE me == load[l]
<1>1. me \in LoadType /\ LoadOK(me) /\ me.pc = "readCache"
  BY DEF CacheInv, CacheTypeOK, ReadCache
<1>2. /\ UNCHANGED <<dic, aff, stamps, file>>
      /\ stamps' \in Nat /\ file' \in CacheFile /\ FileIsHonest'
  BY DEF ReadCache, Quiet, CacheInv, CacheTypeOK, FileIsHonest
<1>3. CASE Whole(file) /\ Matches(file, me.header)
  <2> DEFINE new == [me EXCEPT !.pc = "done", !.index = file.index, !.tainted = file.raced]
  <2>1. file.index \in Versions /\ file.raced \in BOOLEAN /\ file.header = me.header
    BY <1>3 DEF CacheInv, CacheTypeOK, CacheFile, Matches
  <2>2. new \in LoadType
    BY <1>1, <2>1 DEF LoadType, Stages
  <2>3. LoadOK(new)
    <3>1. ~file.raced => file.index = me.header
      BY <2>1 DEF CacheInv, FileIsHonest
    <3> QED
      BY <1>1, <2>1, <3>1 DEF LoadType, LoadOK, SeesItsPath, WantedIsSeen, ReadIsSeen, ReadIsStamped,
           Idle, ReadAff, ReadDic
  <2>4. Become(l, new)
    BY <1>3 DEF ReadCache
  <2> QED
    <3> HIDE DEF new
    <3> QED BY <1>2, <2>2, <2>3, <2>4, OneLoadMoves
<1>4. CASE ~(Whole(file) /\ Matches(file, me.header))
  <2> DEFINE new == [me EXCEPT !.pc = "readAff"]
  <2>1. new \in LoadType
    BY <1>1 DEF LoadType, Stages
  <2>2. LoadOK(new)
    BY <1>1 DEF LoadType, LoadOK, SeesItsPath, WantedIsSeen, ReadIsSeen, ReadIsStamped, Idle, ReadAff, ReadDic
  <2>3. Become(l, new)
    BY <1>4 DEF ReadCache
  <2> QED
    <3> HIDE DEF new
    <3> QED BY <1>2, <2>1, <2>2, <2>3, OneLoadMoves
<1> QED
  BY <1>3, <1>4
(* Build keeps what it reads, and what it reads is there.                   *)
Having(me, next, d, a) ==
  [me EXCEPT !.pc = next, !.index = [path |-> me.index.path, dic |-> d, aff |-> a]]

LEMMA BuildKeepsInv ==
  ASSUME CacheInv, NEW l \in Loaders, BuildAff(l) \/ BuildDic(l)
  PROVE  CacheInv'
<1> DEFINE me == load[l]
<1>1. me \in LoadType /\ LoadOK(me) /\ me.pc \in {"readAff", "readDic"}
  BY DEF CacheInv, CacheTypeOK, BuildAff, BuildDic
<1>2. /\ UNCHANGED <<dic, aff, stamps, file>>
      /\ stamps' \in Nat /\ file' \in CacheFile /\ FileIsHonest'
  BY DEF BuildAff, BuildDic, Quiet, CacheInv, CacheTypeOK, FileIsHonest
<1>3. CASE Become(l, NoLoad)
  BY <1>2, <1>3, NoLoadOK, OneLoadMoves
<1>4. ASSUME NEW next \in Stages, NEW d \in Nat, NEW a \in Nat,
             Become(l, Having(me, next, d, a)),
             \/ /\ me.pc = "readAff" /\ next = "readDic"
                /\ d = me.index.dic /\ a = aff[me.path] /\ a # Missing
             \/ /\ me.pc = "readDic" /\ next \in {"statDic", "done"}
                /\ d = dic[me.path] /\ d # Missing /\ a = me.index.aff
      PROVE  CacheInv'
  <2> DEFINE index == [path |-> me.index.path, dic |-> d, aff |-> a]
             new   == [me EXCEPT !.pc = next, !.index = index]
  <2>1. index \in Versions /\ index.path = me.index.path /\ index.dic = d /\ index.aff = a
    BY <1>1 DEF LoadType, Versions
  <2>2. new \in LoadType
    <3> HIDE DEF index
    <3> QED BY <1>1, <2>1 DEF LoadType
  <2>3. LoadOK(new)
    <3> HIDE DEF index
    <3>1. SeesItsPath(new) /\ WantedIsSeen(new)
      BY <1>1, <1>4, <2>1 DEF LoadType, LoadOK, SeesItsPath, WantedIsSeen, Idle
    <3>2. ReadIsSeen(new)
      BY <1>1, <1>4, <2>1 DEF LoadType, LoadOK, SeesItsPath, ReadIsSeen, Idle
    <3>3. ReadIsStamped(new)
      BY <1>1, <1>4, <2>1 DEF LoadType, LoadOK, ReadIsStamped, ReadAff, ReadDic
    <3> QED
      BY <3>1, <3>2, <3>3 DEF LoadOK
  <2>4. Become(l, new)
    BY <1>4 DEF Having
  <2> QED
    <3> HIDE DEF new
    <3> QED BY <1>2, <2>2, <2>3, <2>4, OneLoadMoves
<1>5. me.path \in Paths /\ dic[me.path] \in Nat /\ aff[me.path] \in Nat
      /\ me.index.dic \in Nat /\ me.index.aff \in Nat
  BY <1>1 DEF CacheInv, CacheTypeOK, LoadOK, SeesItsPath, Idle, LoadType, Versions
<1>6. CASE BuildAff(l) /\ aff[me.path] # Missing
  <2>1. Become(l, [me EXCEPT !.pc = "readDic", !.index.aff = aff[me.path]]) /\ me.pc = "readAff"
    BY <1>6 DEF BuildAff
  <2>2. [me.index EXCEPT !.aff = aff[me.path]]
          = [path |-> me.index.path, dic |-> me.index.dic, aff |-> aff[me.path]]
    BY <1>1 DEF LoadType, Versions
  <2>3. Become(l, Having(me, "readDic", me.index.dic, aff[me.path]))
    BY <2>1, <2>2 DEF Having
  <2> QED
    BY <1>4, <1>5, <1>6, <2>1, <2>3 DEF Stages
<1>7. CASE BuildDic(l) /\ dic[me.path] # Missing
  <2> DEFINE next == IF me.useCache THEN "statDic" ELSE "done"
  <2>1. Become(l, [me EXCEPT !.pc = next, !.index.dic = dic[me.path]]) /\ me.pc = "readDic"
    BY <1>7 DEF BuildDic
  <2>2. [me.index EXCEPT !.dic = dic[me.path]]
          = [path |-> me.index.path, dic |-> dic[me.path], aff |-> me.index.aff]
    BY <1>1 DEF LoadType, Versions
  <2>3. next \in Stages /\ next \in {"statDic", "done"}
    BY DEF Stages
  <2>4. Become(l, Having(me, next, dic[me.path], me.index.aff))
    BY <2>1, <2>2 DEF Having
  <2> QED
    <3> HIDE DEF next
    <3> QED BY <1>4, <1>5, <1>7, <2>1, <2>3, <2>4
<1> QED
  BY <1>3, <1>6, <1>7 DEF BuildAff, BuildDic

(* SaveCache renames a whole file into place, whose header is what it asked *)
(* for and, if it was not overtaken, what its index is made of.            *)
LEMMA SaveKeepsInv ==
  ASSUME CacheInv, NEW l \in Loaders, SaveCache(l)
  PROVE  CacheInv'
<1> DEFINE me == load[l]
<1>1. me \in LoadType /\ LoadOK(me) /\ me.pc = "write" /\ UNCHANGED <<dic, aff, stamps>> /\ stamps' \in Nat
  BY DEF CacheInv, CacheTypeOK, SaveCache, Quiet
<1>2. More(me) \in LoadType /\ LoadOK(More(me))
  <2> DEFINE temp == me.temp + Sections \div 2
             new  == [me EXCEPT !.temp = temp]
  <2>1. temp \in Nat
    BY <1>1 DEF LoadType, Sections
  <2>2. new \in LoadType
    <3> HIDE DEF temp
    <3> QED BY <1>1, <2>1 DEF LoadType
  <2>3. LoadOK(new)
    <3> HIDE DEF temp
    <3>1. SeesItsPath(new)
      BY <1>1 DEF LoadType, LoadOK, SeesItsPath
    <3>2. WantedIsSeen(new) /\ ReadIsSeen(new)
      BY <1>1 DEF LoadType, LoadOK, WantedIsSeen, ReadIsSeen
    <3>3. ReadIsStamped(new)
      BY <1>1 DEF LoadType, LoadOK, ReadIsStamped
    <3> QED
      BY <3>1, <3>2, <3>3 DEF LoadOK
  <2> QED
    BY <2>2, <2>3 DEF More
<1>3. Saved(me) \in LoadType /\ LoadOK(Saved(me))
  BY <1>1 DEF Saved, LoadType, Stages, LoadOK, SeesItsPath, WantedIsSeen, ReadIsSeen, ReadIsStamped,
              Idle, ReadAff, ReadDic
<1>4. CASE me.temp < Sections /\ WriteSections(l)
  BY <1>1, <1>2, <1>4, OneLoadMoves DEF WriteSections, CacheInv, CacheTypeOK, FileIsHonest
<1>5. CASE file' = FileOf(me, me.temp) /\ Become(l, Saved(me))
  <2>1. file' \in CacheFile
    BY <1>1, <1>5 DEF FileOf, CacheFile, LoadType
  <2>2. ~me.raced => me.index = me.header
    <3>1. me.index \in Versions /\ me.header \in Versions
      BY <1>1 DEF LoadType
    <3>2. ~me.raced => /\ me.index.path = me.header.path
                       /\ me.index.dic = me.header.dic /\ me.index.aff = me.header.aff
      BY <1>1 DEF LoadOK, SeesItsPath, ReadIsStamped, Idle
    <3> QED
      BY <3>1, <3>2 DEF Versions
  <2>3. FileIsHonest'
    BY <1>5, <2>2 DEF FileIsHonest, FileOf
  <2> QED
    BY <1>1, <1>3, <1>5, <2>1, <2>3, OneLoadMoves
<1>6. CASE Become(l, Saved(me)) /\ UNCHANGED file
  BY <1>1, <1>3, <1>6, OneLoadMoves DEF CacheInv, CacheTypeOK, FileIsHonest
<1> QED
  BY <1>4, <1>5, <1>6 DEF SaveCache

LEMMA FinishKeepsInv ==
  ASSUME CacheInv, NEW l \in Loaders, Finish(l)
  PROVE  CacheInv'
<1>1. /\ Become(l, NoLoad) /\ UNCHANGED <<dic, aff>>
      /\ stamps' \in Nat /\ file' \in CacheFile /\ FileIsHonest'
  BY DEF Finish, Quiet, CacheInv, CacheTypeOK, FileIsHonest
<1> QED
  BY <1>1, NoLoadOK, OneLoadMoves

-----------------------------------------------------------------------------
LEMMA CacheStepInv == CacheInv /\ [CacheNext]_cacheVars => CacheInv'
<1> SUFFICES ASSUME CacheInv, [CacheNext]_cacheVars
             PROVE  CacheInv'
  OBVIOUS
<1>1. ASSUME NEW p \in Paths, ReplaceDic(p) \/ ReplaceAff(p) \/ RemovePair(p)
      PROVE  CacheInv'
  BY <1>1, PackagesKeepInv
<1>2. CASE PowerLoss
  BY <1>2, PowerLossKeepsInv
<1>3. ASSUME NEW l \in Loaders,
             HeaderFor(l) \/ ReadCache(l) \/ BuildAff(l) \/ BuildDic(l) \/ SaveCache(l) \/ Finish(l)
      PROVE  CacheInv'
  BY <1>3, StatKeepsInv, ReadCacheKeepsInv, BuildKeepsInv, SaveKeepsInv, FinishKeepsInv
<1>4. ASSUME NEW l \in Loaders, NEW setting \in Settings, NEW cached \in BOOLEAN, Start(l, setting, cached)
      PROVE  CacheInv'
  BY <1>4, StartKeepsInv
<1>5. CASE UNCHANGED cacheVars
  BY <1>5 DEF cacheVars, CacheInv, CacheTypeOK, FileIsHonest, LoadOK, SeesItsPath, WantedIsSeen,
              ReadIsSeen, ReadIsStamped
<1> QED
  BY <1>1, <1>2, <1>3, <1>4, <1>5 DEF CacheNext

(* Every load and the cache file are always of their types.                *)
THEOREM CacheTyping == CacheSpec => []CacheTypeOK
<1>1. CacheInv => CacheTypeOK
  BY DEF CacheInv
<1> QED
  BY <1>1, CacheInitInv, CacheStepInv, PTL DEF CacheSpec

(* Whatever files are replaced or removed while any number of loads run    *)
(* over one cache file, a load ends with the index of the dictionary it    *)
(* located, made of files that were in place while it ran - unless the     *)
(* cache file it took comes from a load overtaken by a replacement.        *)
THEOREM LoadsAreCurrent == CacheSpec => []LoadIsCurrent
<1>1. CacheInv => LoadIsCurrent
  BY DEF CacheInv, LoadOK, ReadIsSeen, LoadIsCurrent
<1> QED
  BY <1>1, CacheInitInv, CacheStepInv, PTL DEF CacheSpec

(* A cache file whose writer was not overtaken says in its header what its *)
(* index is made of, whatever is left of it after a loss of power.         *)
THEOREM CacheFileIsHonest == CacheSpec => []FileIsHonest
<1>1. CacheInv => FileIsHonest
  BY DEF CacheInv
<1> QED
  BY <1>1, CacheInitInv, CacheStepInv, PTL DEF CacheSpec

(* A reader never meets half a cache file, unless the machine went down:   *)
(* only the rename puts a file in place, and it renames a whole one.       *)
THEOREM CacheIsNeverTorn == CacheSpec => []CacheNeverTorn
<1>1. CacheInit => CacheNeverTorn
  BY DEF CacheInit, CacheNeverTorn
<1>2. CacheNeverTorn /\ [CacheNext]_cacheVars => CacheNeverTorn'
  <2> SUFFICES ASSUME CacheNeverTorn, [CacheNext]_cacheVars
               PROVE  CacheNeverTorn'
    OBVIOUS
  <2>1. CASE PowerLoss
    BY <2>1 DEF PowerLoss, CacheNeverTorn
  <2>2. ASSUME NEW l \in Loaders, SaveCache(l)
        PROVE  CacheNeverTorn'
    <3>1. CASE UNCHANGED <<file, powerLost>>
      BY <3>1 DEF CacheNeverTorn, Whole
    <3>2. CASE load[l].temp = Sections /\ file' = FileOf(load[l], load[l].temp)
      BY <3>2 DEF CacheNeverTorn, Whole, FileOf
    <3> QED
      BY <2>2, <3>1, <3>2 DEF SaveCache, WriteSections
  <2>3. CASE UNCHANGED <<file, powerLost>>
    BY <2>3 DEF CacheNeverTorn, Whole
  <2>4. ASSUME NEW p \in Paths, ReplaceDic(p) \/ ReplaceAff(p) \/ RemovePair(p)
        PROVE  UNCHANGED <<file, powerLost>>
    <3>1. \E window : Touch(p, window)
      BY <2>4 DEF ReplaceDic, ReplaceAff, RemovePair
    <3> QED
      BY <3>1 DEF Touch
  <2>5. ASSUME NEW l \in Loaders, HeaderFor(l) \/ ReadCache(l) \/ BuildAff(l) \/ BuildDic(l) \/ Finish(l)
        PROVE  UNCHANGED <<file, powerLost>>
    BY <2>5 DEF HeaderFor, Stat, ReadCache, BuildAff, BuildDic, Finish
  <2>6. ASSUME NEW l \in Loaders, NEW setting \in Settings, NEW cached \in BOOLEAN, Start(l, setting, cached)
        PROVE  UNCHANGED <<file, powerLost>>
    BY <2>6 DEF Start
  <2> QED
    BY <2>1, <2>2, <2>3, <2>4, <2>5, <2>6 DEF CacheNext, cacheVars
<1> QED
  BY <1>1, <1>2, PTL DEF CacheSpec

-----------------------------------------------------------------------------
(* The order of words.                                                     *)

LEMMA CodePoints == \A c \in Letters : CodePoint[c] \in Nat
<1>1. Letters = {"z", "Z", "o", "O", "zdot", "Zdot", "oacute", "Oacute"}
  BY DEF Letters, LowerLetters, UpperLetters, CasePairs
<1> QED
  BY <1>1 DEF CodePoint

(* s comes before t, and differs from it after n characters.               *)
DiffersAt(s, t, n) ==
  /\ n \in Nat /\ n <= Len(s) /\ n < Len(t)
  /\ \A i \in 1..n : s[i] = t[i]
  /\ n = Len(s) \/ (n < Len(s) /\ CodePoint[s[n + 1]] < CodePoint[t[n + 1]])

LEMMA BeforeDiffers ==
  ASSUME NEW s \in Words, NEW t \in Words
  PROVE  Before(s, t) <=> \E n \in Nat : DiffersAt(s, t, n)
<1>1. s \in Seq(Letters) /\ t \in Seq(Letters) /\ Len(s) \in Nat /\ Len(t) \in Nat
  BY DEF Words
<1>2. ASSUME NEW n \in 0..Len(s), n <= Len(t)
      PROVE  SubSeq(s, 1, n) = SubSeq(t, 1, n) <=> \A i \in 1..n : s[i] = t[i]
  <2> DEFINE a == SubSeq(s, 1, n)
             b == SubSeq(t, 1, n)
  <2>1. n \in Nat /\ n <= Len(s)
    BY <1>1, <1>2
  <2>2. a = [i \in 1..n |-> s[i]] /\ b = [i \in 1..n |-> t[i]]
    BY <1>1, <1>2, <2>1
  <2> HIDE DEF a, b
  <2>3. ASSUME a = b, NEW i \in 1..n PROVE s[i] = t[i]
    BY <2>2, <2>3
  <2>4. ASSUME \A i \in 1..n : s[i] = t[i] PROVE a = b
    BY <2>2, <2>4
  <2> QED
    BY <2>3, <2>4 DEF a, b
<1>3. ASSUME Before(s, t) PROVE \E n \in Nat : DiffersAt(s, t, n)
  <2>1. PICK n \in 0..Len(s) :
          /\ n <= Len(t) /\ SubSeq(s, 1, n) = SubSeq(t, 1, n)
          /\ \/ n = Len(s) /\ n < Len(t)
             \/ n < Len(s) /\ n < Len(t) /\ CodePoint[s[n + 1]] < CodePoint[t[n + 1]]
    BY <1>3 DEF Before
  <2>2. \A i \in 1..n : s[i] = t[i]
    BY <1>2, <2>1
  <2>3. n \in Nat /\ n <= Len(s) /\ n < Len(t)
    BY <1>1, <2>1
  <2>4. DiffersAt(s, t, n)
    BY <2>1, <2>2, <2>3 DEF DiffersAt
  <2> QED
    BY <2>3, <2>4
<1>4. ASSUME NEW n \in Nat, DiffersAt(s, t, n) PROVE Before(s, t)
  <2>1. n \in 0..Len(s) /\ n <= Len(t)
    BY <1>1, <1>4 DEF DiffersAt
  <2>2. SubSeq(s, 1, n) = SubSeq(t, 1, n)
    BY <1>2, <1>4, <2>1 DEF DiffersAt
  <2> QED
    BY <1>4, <2>1, <2>2 DEF Before, DiffersAt
<1> QED
  BY <1>3, <1>4

LEMMA Irreflexive == \A s \in Words : ~Before(s, s)
<1> SUFFICES ASSUME NEW s \in Words, NEW n \in Nat, DiffersAt(s, s, n) PROVE FALSE
  BY BeforeDiffers
<1>1. s \in Seq(Letters) /\ Len(s) \in Nat /\ n < Len(s)
  BY DEF Words, DiffersAt
<1>2. s[n + 1] \in Letters
  BY <1>1
<1>3. CodePoint[s[n + 1]] \in Nat /\ CodePoint[s[n + 1]] < CodePoint[s[n + 1]]
  BY <1>1, <1>2, CodePoints DEF DiffersAt
<1> QED
  BY <1>3

LEMMA Transitive ==
  ASSUME NEW s \in Words, NEW t \in Words, NEW u \in Words, Before(s, t), Before(t, u)
  PROVE  Before(s, u)
<1>1. PICK n \in Nat : DiffersAt(s, t, n)
  BY BeforeDiffers
<1>2. PICK m \in Nat : DiffersAt(t, u, m)
  BY BeforeDiffers
<1>3. /\ s \in Seq(Letters) /\ t \in Seq(Letters) /\ u \in Seq(Letters)
      /\ Len(s) \in Nat /\ Len(t) \in Nat /\ Len(u) \in Nat
  BY DEF Words
<1>4. CASE n < m
  <2>1. ASSUME NEW i \in 1..n PROVE s[i] = u[i]
    <3>1. i \in 1..n /\ i \in 1..m
      BY <1>4
    <3> QED
      BY <1>1, <1>2, <3>1 DEF DiffersAt
  <2>2. n + 1 \in 1..m /\ t[n + 1] = u[n + 1] /\ n < Len(u)
    BY <1>2, <1>3, <1>4 DEF DiffersAt
  <2>3. DiffersAt(s, u, n)
    BY <1>1, <2>1, <2>2 DEF DiffersAt
  <2> QED
    BY <2>3, BeforeDiffers
<1>5. CASE m < n
  <2>1. ASSUME NEW i \in 1..m PROVE s[i] = u[i]
    <3>1. i \in 1..n /\ i \in 1..m
      BY <1>5
    <3> QED
      BY <1>1, <1>2, <3>1 DEF DiffersAt
  <2>2. m + 1 \in 1..n /\ s[m + 1] = t[m + 1] /\ m < Len(s) /\ m < Len(t)
    BY <1>1, <1>3, <1>5 DEF DiffersAt
  <2>3. DiffersAt(s, u, m)
    BY <1>2, <2>1, <2>2 DEF DiffersAt
  <2> QED
    BY <2>3, BeforeDiffers
<1>6. CASE n = m
  <2>1. ASSUME NEW i \in 1..n PROVE s[i] = u[i]
    <3>1. i \in 1..m
      BY <1>6
    <3> QED
      BY <1>1, <1>2, <3>1 DEF DiffersAt
  <2>2. n < Len(t) /\ n < Len(u) /\ CodePoint[t[n + 1]] < CodePoint[u[n + 1]]
    BY <1>1, <1>2, <1>3, <1>6 DEF DiffersAt
  <2>3. t[n + 1] \in Letters /\ u[n + 1] \in Letters /\ (n < Len(s) => s[n + 1] \in Letters)
    BY <1>3, <2>2
  <2>4. n < Len(s) => CodePoint[s[n + 1]] < CodePoint[u[n + 1]]
    <3>1. ASSUME n < Len(s)
          PROVE  CodePoint[s[n + 1]] < CodePoint[u[n + 1]]
      <4>1. CodePoint[s[n + 1]] < CodePoint[t[n + 1]]
        BY <1>1, <1>3, <3>1 DEF DiffersAt
      <4>2. CodePoint[s[n + 1]] \in Nat /\ CodePoint[t[n + 1]] \in Nat /\ CodePoint[u[n + 1]] \in Nat
        BY <2>3, <3>1, CodePoints
      <4> QED
        BY <2>2, <4>1, <4>2
    <3> QED
      BY <3>1
  <2>5. DiffersAt(s, u, n)
    BY <1>1, <2>1, <2>2, <2>4 DEF DiffersAt
  <2> QED
    BY <2>5, BeforeDiffers
<1> QED
  BY <1>4, <1>5, <1>6

-----------------------------------------------------------------------------
(* The bisection.                                                          *)

LEMMA PairFacts ==
  ASSUME TablesInOrder
  PROVE  /\ Len(pairs) \in Nat /\ DOMAIN pairs = 1..Len(pairs)
         /\ Range(pairs) = { pairs[i] : i \in 1..Len(pairs) }
         /\ \A i \in 1..Len(pairs) : pairs[i].key \in Words /\ pairs[i].val \in Words
         /\ \A i, j \in 1..Len(pairs) : i < j => PairBefore(pairs[i], pairs[j])
<1> DEFINE P == [key : Words, val : Words]
<1>1. pairs \in Seq(P)
  BY DEF TablesInOrder
<1>2. \A p \in P : p.key \in Words /\ p.val \in Words
  OBVIOUS
<1> HIDE DEF P
<1>3. Len(pairs) \in Nat /\ DOMAIN pairs = 1..Len(pairs) /\ \A i \in 1..Len(pairs) : pairs[i] \in P
  BY <1>1
<1>4. \A i, j \in 1..Len(pairs) : i < j => PairBefore(pairs[i], pairs[j])
  BY <1>3 DEF TablesInOrder
<1>5. Range(pairs) = { pairs[i] : i \in 1..Len(pairs) }
  BY <1>3 DEF Range
<1> QED
  BY <1>2, <1>3, <1>4, <1>5

(* What is searched, and where it grows.                                   *)
TableOf(op) == IF op = "IsWord" THEN ascii ELSE [i \in DOMAIN pairs |-> pairs[i].key]

LEMMA TableOfGrows ==
  ASSUME TablesInOrder, NEW op \in {"IsWord", "Candidates"}
  PROVE  LET T == TableOf(op) IN
         /\ T \in Seq(Words) /\ Len(T) = Length(op) /\ Len(T) \in Nat
         /\ \A i, j \in 1..Len(T) : i < j => T[i] = T[j] \/ Before(T[i], T[j])
<1>1. CASE op = "IsWord"
  <2>1. TableOf(op) = ascii
    BY <1>1 DEF TableOf
  <2>2. ascii \in Seq(Words) /\ \A i, j \in DOMAIN ascii : i < j => Before(ascii[i], ascii[j])
    BY DEF TablesInOrder
  <2>3. DOMAIN ascii = 1..Len(ascii)
    BY <2>2
  <2> QED
    BY <1>1, <2>1, <2>2, <2>3 DEF Length
<1>2. CASE op = "Candidates"
  <2>1. \A i, j \in 1..Len(pairs) : i < j => PairBefore(pairs[i], pairs[j])
    BY PairFacts
  <2>2. /\ Len(pairs) \in Nat /\ DOMAIN pairs = 1..Len(pairs)
        /\ \A i \in 1..Len(pairs) : pairs[i].key \in Words
    BY PairFacts
  <2>3. TableOf(op) = [i \in 1..Len(pairs) |-> pairs[i].key]
    BY <1>2, <2>2 DEF TableOf
  <2>4. /\ TableOf(op) \in Seq(Words) /\ Len(TableOf(op)) = Len(pairs)
        /\ \A i \in 1..Len(pairs) : TableOf(op)[i] = pairs[i].key
    BY <2>2, <2>3
  <2> QED
    BY <1>2, <2>1, <2>2, <2>4 DEF Length, PairBefore
<1> QED
  BY <1>1, <1>2

LEMMA TableGrows ==
  ASSUME TablesInOrder, asked.op \in {"IsWord", "Candidates"}
  PROVE  /\ Table = TableOf(asked.op)
         /\ Table \in Seq(Words) /\ Len(Table) = Length(asked.op) /\ Len(Table) \in Nat
         /\ \A i, j \in 1..Len(Table) : i < j => Table[i] = Table[j] \/ Before(Table[i], Table[j])
<1>1. Table = TableOf(asked.op)
  BY DEF Table, TableOf
<1> QED
  BY <1>1, TableOfGrows

(* What stands before an entry that is smaller is smaller.                 *)
LEMMA SmallerBelow ==
  ASSUME TablesInOrder, asked.op \in {"IsWord", "Candidates"}, NEW w \in Words,
         NEW i \in 1..Len(Table), NEW j \in 1..Len(Table), i <= j, Before(Table[j], w)
  PROVE  Before(Table[i], w)
<1>1. /\ Table[i] \in Words /\ Table[j] \in Words
      /\ i < j => Table[i] = Table[j] \/ Before(Table[i], Table[j])
  BY TableGrows
<1>2. i = j \/ i < j
  BY TableGrows
<1> QED
  BY <1>1, <1>2, Transitive

(* Entries up to s are smaller than the word; those after it up to lo are   *)
(* the word, and read; those after hi are not smaller.                     *)
Narrowed(s) ==
  /\ s \in 0..lo /\ lo \in 0..hi /\ hi \in 0..Len(Table)
  /\ \A i \in 1..s : Before(Table[i], asked.word)
  /\ \A i \in (hi + 1)..Len(Table) : ~Before(Table[i], asked.word)
  /\ buf = [i \in 1..(lo - s) |-> pairs[s + i].val]
  /\ s < lo => lo = hi /\ asked.op = "Candidates" /\ \A i \in (s + 1)..lo : Table[i] = asked.word

AnswersFromTables ==
  IF asked.op = "IsWord" THEN answer = (asked.word \in Range(ascii))
  ELSE /\ Range(answer) = { p.val : p \in { q \in Range(pairs) : q.key = asked.word } }
       /\ IsInjective(answer)

SearchInv ==
  /\ phase \in {"idle", "search", "answered"}
  /\ asked.op \in {"IsWord", "Candidates"}
  /\ phase # "search" => buf = <<>>
  /\ phase # "idle" => asked.word \in Queries
  /\ phase = "search" => \E s \in Nat : Narrowed(s)
  /\ phase = "answered" => AnswersFromTables

(* The word is in the table exactly if it stands where the search ends.    *)
LEMMA FoundWhereItEnds ==
  ASSUME TablesInOrder, SearchInv, phase = "search", lo = hi, NEW s \in Nat, Narrowed(s)
  PROVE  /\ \A i \in 1..Len(Table) : Table[i] = asked.word => i > s
         /\ ~Found => \A i \in 1..Len(Table) : Table[i] = asked.word <=> i \in (s + 1)..lo
<1> DEFINE w == asked.word
           T == Table
           n == Len(Table)
<1>1. /\ T \in Seq(Words) /\ n \in Nat /\ w \in Words
      /\ \A i, j \in 1..n : i < j => T[i] = T[j] \/ Before(T[i], T[j])
      /\ s \in 0..lo /\ lo \in Nat /\ lo \in 0..n /\ \A i \in 1..n : T[i] \in Words
  BY TableGrows, QueriesAssumption DEF SearchInv, Narrowed
<1>2. ASSUME NEW i \in 1..n, T[i] = w
      PROVE  i > s
  <2>1. CASE i <= s
    <3>1. i \in 1..s
      BY <1>1, <2>1
    <3>2. Before(T[i], w)
      BY <3>1 DEF Narrowed
    <3> QED
      BY <1>1, <1>2, <3>2, Irreflexive
  <2> QED
    BY <1>1, <2>1
<1>3. ASSUME ~Found, NEW i \in 1..n, T[i] = w
      PROVE  i \in (s + 1)..lo
  <2>1. i > s
    BY <1>2, <1>3
  <2>2. CASE i > lo
    <3>1. lo + 1 \in 1..n /\ lo < n /\ lo + 1 <= i
      BY <1>1, <2>2
    <3>2. T[lo + 1] # w
      BY <1>3, <3>1 DEF Found
    <3>3. lo + 1 < i
      BY <1>1, <1>3, <3>1, <3>2
    <3>4. Before(T[lo + 1], w)
      BY <1>1, <1>3, <3>1, <3>2, <3>3
    <3>5. lo + 1 \in (hi + 1)..Len(Table)
      BY <1>1, <3>1
    <3> QED
      BY <3>4, <3>5 DEF Narrowed
  <2> QED
    BY <1>1, <2>1, <2>2
<1>4. ASSUME NEW i \in (s + 1)..lo
      PROVE  i \in 1..n /\ T[i] = w
  <2>1. s < lo /\ i \in 1..n
    BY <1>1
  <2> QED
    BY <2>1 DEF Narrowed
<1> QED
  BY <1>2, <1>3, <1>4

LEMMA TablesStay ==
  ASSUME [IndexNext]_indexVars
  PROVE  /\ UNCHANGED <<rules, entries, ascii, pairs>>
         /\ TablesInOrder' = TablesInOrder
         /\ asked' = asked => Table' = Table
<1>1. UNCHANGED <<rules, entries, ascii, pairs>>
  BY DEF IndexNext, indexVars, Ask, Probe, AnswerIsWord, ReadCandidate, AnswerCandidates, NextQuestion
<1> QED
  BY <1>1 DEF TablesInOrder, Table

LEMMA AskKeeps ==
  ASSUME TablesInOrder, SearchInv, NEW op \in {"IsWord", "Candidates"}, NEW word \in Queries, Ask(op, word)
  PROVE  SearchInv'
<1>1. /\ asked' = [op |-> op, word |-> word] /\ lo' = 0 /\ hi' = Length(op)
      /\ phase' = "search" /\ buf' = <<>> /\ ascii' = ascii /\ pairs' = pairs
  BY DEF Ask, SearchInv
<1>2. Table' = TableOf(op)
  BY <1>1 DEF Table, TableOf
<1>3. Len(Table') = Length(op) /\ Length(op) \in Nat
  BY <1>2, TableOfGrows
<1>4. Narrowed(0)'
  <2>1. <<>> = [i \in 1..(0 - 0) |-> pairs'[0 + i].val]
    OBVIOUS
  <2> QED
    BY <1>1, <1>3, <2>1 DEF Narrowed
<1> QED
  BY <1>1, <1>4 DEF SearchInv

LEMMA SearchGoesOn ==
  ASSUME SearchInv, phase = "search", UNCHANGED <<asked, phase>>, NEW s \in Nat, Narrowed(s)'
  PROVE  SearchInv'
BY DEF SearchInv

(* One probe: the entry in the middle and all before it are smaller, or it  *)
(* and all after it are not.                                               *)
LEMMA ProbeKeeps ==
  ASSUME TablesInOrder, SearchInv, Probe
  PROVE  SearchInv'
<1> DEFINE w == asked.word
           T == Table
           n == Len(Table)
<1>1. /\ phase = "search" /\ lo < hi /\ UNCHANGED <<asked, phase, buf, ascii, pairs, answer>>
      /\ Table' = Table /\ asked.op \in {"IsWord", "Candidates"} /\ w \in Words /\ n \in Nat
    BY TableGrows, QueriesAssumption DEF Probe, SearchInv, Table
<1>2. PICK s \in Nat : Narrowed(s)
  BY <1>1 DEF SearchInv
<1>3. /\ s = lo /\ lo \in Nat /\ hi \in 0..n /\ buf = [i \in 1..(lo - s) |-> pairs[s + i].val]
      /\ \A i \in 1..lo : Before(T[i], w)
      /\ \A i \in (hi + 1)..n : ~Before(T[i], w)
  BY <1>1, <1>2 DEF Narrowed
<1>4. PICK m \in Nat : m = (lo + hi) \div 2 /\ m \in lo..(hi - 1) /\ m + 1 \in 1..n
  <2> HIDE DEF n
  <2>1. lo \in Nat /\ hi \in Nat /\ lo < hi /\ hi <= n
    BY <1>1, <1>3
  <2>2. \A a, b \in Nat : a < b => (a + b) \div 2 \in a..(b - 1)
    OBVIOUS
  <2>3. (lo + hi) \div 2 \in lo..(hi - 1)
    BY <2>1, <2>2
  <2> DEFINE k == (lo + hi) \div 2
  <2> HIDE DEF k
  <2>4. k \in lo..(hi - 1) => k \in Nat /\ k + 1 \in 1..n
    BY <1>1, <2>1
  <2> QED
    BY <2>3, <2>4 DEF k
<1>5. CASE Before(T[m + 1], w)
  <2>1. lo' = m + 1 /\ hi' = hi
    BY <1>4, <1>5 DEF Probe
  <2>2. ASSUME NEW i \in 1..(m + 1) PROVE Before(T[i], w)
    <3>1. i \in 1..n /\ i <= m + 1
      BY <1>1, <1>3, <1>4
    <3> QED
      BY <1>1, <1>4, <1>5, <3>1, SmallerBelow
  <2>3. buf' = [i \in 1..((m + 1) - (m + 1)) |-> pairs[(m + 1) + i].val]
    <3>1. buf = <<>> /\ (m + 1) - (m + 1) = 0
      BY <1>3, <1>4
    <3> QED
      BY <1>1, <3>1
  <2>4. /\ Len(Table') = n /\ asked'.word = w /\ lo' = m + 1 /\ hi' = hi
        /\ \A i \in 1..(m + 1) : Before(Table'[i], w)
        /\ \A i \in (hi + 1)..n : ~Before(Table'[i], w)
    BY <1>1, <1>3, <2>1, <2>2
  <2> HIDE DEF w, T, n
  <2>5. m + 1 \in 0..(m + 1) /\ m + 1 \in 0..hi /\ hi \in 0..n /\ ~(m + 1 < m + 1) /\ m + 1 \in Nat
    BY <1>1, <1>3, <1>4
  <2>6. Narrowed(m + 1)'
    BY <2>3, <2>4, <2>5 DEF Narrowed
  <2> QED
    BY <1>1, <2>5, <2>6, SearchGoesOn
<1>6. CASE ~Before(T[m + 1], w)
  <2>1. lo' = lo /\ hi' = m
    BY <1>4, <1>6 DEF Probe
  <2>2. ASSUME NEW i \in (m + 1)..n PROVE ~Before(T[i], w)
    <3>1. i \in 1..n /\ m + 1 <= i
      BY <1>1, <1>4
    <3> QED
      BY <1>1, <1>4, <1>6, <3>1, SmallerBelow
  <2>3. /\ Len(Table') = n /\ asked'.word = w /\ lo' = lo /\ hi' = m
        /\ \A i \in 1..lo : Before(Table'[i], w)
        /\ \A i \in (m + 1)..n : ~Before(Table'[i], w)
        /\ buf' = [i \in 1..(lo - s) |-> pairs'[s + i].val]
    BY <1>1, <1>3, <2>1, <2>2
  <2> HIDE DEF w, T, n
  <2>4. lo \in 0..lo /\ lo \in 0..m /\ m \in 0..n /\ s = lo /\ ~(lo < lo)
    BY <1>1, <1>3, <1>4
  <2>5. Narrowed(s)'
    BY <2>3, <2>4 DEF Narrowed
  <2> QED
    BY <1>1, <1>2, <2>5, SearchGoesOn
<1> QED
  BY <1>5, <1>6

LEMMA AnswerIsWordKeeps ==
  ASSUME TablesInOrder, SearchInv, AnswerIsWord
  PROVE  SearchInv'
<1>1. /\ phase = "search" /\ lo = hi /\ asked.op = "IsWord" /\ answer' = Found /\ phase' = "answered"
      /\ UNCHANGED <<asked, buf, ascii, pairs>>
  BY DEF AnswerIsWord
<1>2. PICK s \in Nat : Narrowed(s)
  BY <1>1 DEF SearchInv
<1>3. s = lo /\ lo \in Nat /\ lo \in 0..Len(Table) /\ buf = <<>>
  BY <1>1, <1>2 DEF Narrowed
<1>4. Table = ascii /\ Range(ascii) = { ascii[i] : i \in 1..Len(ascii) } /\ Len(ascii) \in Nat
  BY <1>1 DEF Table, TablesInOrder, Range
<1>5. Found <=> asked.word \in Range(ascii)
  <2>1. ASSUME Found PROVE asked.word \in Range(ascii)
    <3>1. lo + 1 \in 1..Len(ascii) /\ ascii[lo + 1] = asked.word
      BY <1>3, <1>4, <2>1 DEF Found
    <3> QED
      BY <1>4, <3>1
  <2>2. ASSUME ~Found PROVE asked.word \notin Range(ascii)
    <3>1. \A i \in 1..Len(Table) : Table[i] = asked.word <=> i \in (s + 1)..lo
      BY <1>1, <1>2, <2>2, FoundWhereItEnds
    <3>2. \A i : i \notin (s + 1)..lo
      BY <1>3
    <3> QED
      BY <1>4, <3>1, <3>2
  <2> QED
    BY <2>1, <2>2
<1>6. AnswersFromTables'
  <2>1. answer' = (asked.word \in Range(ascii))
    BY <1>1, <1>5 DEF Found
  <2> QED
    BY <1>1, <2>1 DEF AnswersFromTables
<1> QED
  BY <1>1, <1>3, <1>6 DEF SearchInv

LEMMA AppendedAsFunction ==
  ASSUME NEW b \in Seq(Words), NEW x \in Words
  PROVE  Append(b, x) = [i \in 1..(Len(b) + 1) |-> IF i <= Len(b) THEN b[i] ELSE x]
<1> DEFINE f == [i \in 1..(Len(b) + 1) |-> IF i <= Len(b) THEN b[i] ELSE x]
<1>1. /\ Append(b, x) \in Seq(Words) /\ Len(b) \in Nat
      /\ Len(Append(b, x)) = Len(b) + 1
      /\ Append(b, x)[Len(b) + 1] = x
      /\ \A i \in 1..Len(b) : Append(b, x)[i] = b[i]
  OBVIOUS
<1>2. Append(b, x) = [i \in 1..(Len(b) + 1) |-> Append(b, x)[i]]
  <2>1. \A g \in Seq(Words) : g = [i \in 1..Len(g) |-> g[i]]
    OBVIOUS
  <2> DEFINE a == Append(b, x)
  <2>2. a \in Seq(Words) /\ Len(a) = Len(b) + 1
    BY <1>1
  <2> HIDE DEF a
  <2>3. a = [i \in 1..(Len(b) + 1) |-> a[i]]
    BY <2>1, <2>2
  <2> QED
    BY <2>3 DEF a
<1>3. \A i \in 1..(Len(b) + 1) : Append(b, x)[i] = (IF i <= Len(b) THEN b[i] ELSE x)
  <2> TAKE i \in 1..(Len(b) + 1)
  <2>1. CASE i <= Len(b)
    <3>1. i \in 1..Len(b)
      BY <1>1, <2>1
    <3> QED
      BY <1>1, <2>1, <3>1
  <2>2. CASE ~(i <= Len(b))
    <3>1. i = Len(b) + 1
      BY <1>1, <2>2
    <3> QED
      BY <1>1, <2>2, <3>1
  <2> QED
    BY <2>1, <2>2
<1> QED
  BY <1>2, <1>3

(* Neighbours under one key have different spellings, the earlier first.    *)
LEMMA SpellingsGrow ==
  ASSUME TablesInOrder, NEW i \in 1..Len(pairs), NEW j \in 1..Len(pairs), i < j, pairs[i].key = pairs[j].key
  PROVE  Before(pairs[i].val, pairs[j].val) /\ pairs[i].val # pairs[j].val
<1>1. PairBefore(pairs[i], pairs[j]) /\ pairs[i].key \in Words /\ pairs[i].val \in Words
  BY PairFacts
<1> QED
  BY <1>1, Irreflexive DEF PairBefore

LEMMA ReadKeeps ==
  ASSUME TablesInOrder, SearchInv, ReadCandidate
  PROVE  SearchInv'
<1> DEFINE w == asked.word
           n == Len(Table)
           v == pairs[lo + 1].val
<1>1. /\ phase = "search" /\ lo = hi /\ asked.op = "Candidates" /\ Found
      /\ buf' = (IF buf # <<>> /\ Last(buf) = v THEN buf ELSE Append(buf, v))
      /\ lo' = lo + 1 /\ hi' = hi + 1
      /\ UNCHANGED <<asked, phase, ascii, pairs, answer>> /\ Table' = Table
  BY DEF ReadCandidate, Table
<1>2. PICK s \in Nat : Narrowed(s)
  BY <1>1 DEF SearchInv
<1>3. /\ n = Len(pairs) /\ n \in Nat /\ \A i \in 1..n : Table[i] = pairs[i].key
      /\ DOMAIN pairs = 1..n /\ \A i \in 1..n : pairs[i].val \in Words
      /\ Range(pairs) = { pairs[i] : i \in 1..n }
  <2>1. Len(Table) = Len(pairs) /\ Len(Table) \in Nat
    BY <1>1, TableGrows DEF Length
  <2>2. \A i \in DOMAIN pairs : Table[i] = pairs[i].key
    BY <1>1 DEF Table
  <2> QED
    BY <2>1, <2>2, PairFacts
<1>4. /\ s \in 0..lo /\ lo \in Nat /\ lo + 1 \in 1..n /\ Table[lo + 1] = w
      /\ \A i \in (s + 1)..lo : Table[i] = w
  BY <1>1, <1>2, <1>3 DEF Narrowed, Found
<1> DEFINE read == [i \in 1..(lo - s) |-> pairs[s + i].val]
<1>5. buf = read /\ buf \in Seq(Words) /\ Len(buf) = lo - s /\ v \in Words
  <2>1. ASSUME NEW i \in 1..(lo - s) PROVE pairs[s + i].val \in Words
    <3>1. s + i \in 1..n
      BY <1>3, <1>4
    <3> QED
      BY <1>3, <3>1
  <2>2. buf = read /\ lo - s \in Nat
    BY <1>2, <1>4 DEF Narrowed
  <2>3. v \in Words
    BY <1>3, <1>4
  <2> QED
    BY <2>1, <2>2, <2>3
<1>6. buf # <<>> => Last(buf) # v
  <2>1. SUFFICES ASSUME buf # <<>> PROVE Last(buf) # v
    OBVIOUS
  <2>2. lo - s \in 1..(lo - s) /\ s + (lo - s) = lo /\ lo \in (s + 1)..lo /\ lo \in 1..n /\ lo < lo + 1
    BY <1>3, <1>4, <1>5, <2>1
  <2>3. Last(buf) = pairs[lo].val
    BY <1>5, <2>1, <2>2 DEF Last
  <2>4. pairs[lo].key = pairs[lo + 1].key
    BY <1>3, <1>4, <2>2
  <2> QED
    BY <1>3, <1>4, <2>2, <2>3, <2>4, SpellingsGrow
<1>7. buf' = [i \in 1..((lo + 1) - s) |-> pairs[s + i].val]
  <2>1. buf' = Append(buf, v)
    BY <1>1, <1>6
  <2>2. (lo + 1) - s = (lo - s) + 1 /\ lo - s \in Nat /\ s + ((lo - s) + 1) = lo + 1
    BY <1>4
  <2> DEFINE k == lo - s
  <2>3. Append(buf, v) = [i \in 1..(k + 1) |-> IF i <= k THEN buf[i] ELSE v]
    <3>1. buf \in Seq(Words) /\ Len(buf) = k /\ v \in Words
      BY <1>5
    <3> HIDE DEF k, v
    <3> QED
      BY <3>1, AppendedAsFunction
  <2>4. \A i \in 1..(k + 1) : (IF i <= k THEN buf[i] ELSE v) = pairs[s + i].val
    <3> TAKE i \in 1..(k + 1)
    <3>1. CASE i <= k
      <4>1. i \in 1..k
        BY <2>2, <3>1
      <4> QED
        BY <1>5, <3>1, <4>1
    <3>2. CASE ~(i <= k)
      <4>1. i = k + 1
        BY <2>2, <3>2
      <4> QED
        BY <2>2, <3>2, <4>1
    <3> QED
      BY <3>1, <3>2
  <2> HIDE DEF v
  <2> QED
    BY <2>1, <2>2, <2>3, <2>4
<1>8. \A i \in (s + 1)..(lo + 1) : Table[i] = w
  BY <1>4
<1>9. Narrowed(s)'
  <2>1. /\ lo' = lo + 1 /\ hi' = lo + 1 /\ Len(Table') = n /\ asked' = asked
        /\ \A i \in 1..s : Before(Table'[i], asked'.word)
        /\ \A i \in (hi + 1)..n : ~Before(Table'[i], asked'.word)
    BY <1>1, <1>2 DEF Narrowed
  <2>2. \A i \in (hi' + 1)..n : i \in (hi + 1)..n
    BY <1>1, <1>3, <1>4
  <2> HIDE DEF n
  <2>3. s \in 0..lo' /\ lo' \in 0..hi' /\ hi' \in 0..n
    BY <1>1, <1>3, <1>4, <2>1
  <2> QED
    BY <1>1, <1>7, <1>8, <2>1, <2>2, <2>3 DEF Narrowed
<1> QED
  BY <1>1, <1>2, <1>9 DEF SearchInv

LEMMA AnswerCandidatesKeeps ==
  ASSUME TablesInOrder, SearchInv, AnswerCandidates
  PROVE  SearchInv'
<1> DEFINE w == asked.word
           n == Len(pairs)
<1>1. /\ phase = "search" /\ lo = hi /\ asked.op = "Candidates" /\ ~Found
      /\ answer' = buf /\ buf' = <<>> /\ phase' = "answered" /\ UNCHANGED <<asked, ascii, pairs>>
  BY DEF AnswerCandidates, ReadsOn
<1>2. PICK s \in Nat : Narrowed(s)
  BY <1>1 DEF SearchInv
<1>3. /\ Len(Table) = n /\ n \in Nat /\ \A i \in 1..n : Table[i] = pairs[i].key
      /\ DOMAIN pairs = 1..n /\ \A i \in 1..n : pairs[i].val \in Words
      /\ Range(pairs) = { pairs[i] : i \in 1..n }
  <2>1. Len(Table) = Len(pairs) /\ Len(Table) \in Nat
    BY <1>1, TableGrows DEF Length
  <2>2. \A i \in DOMAIN pairs : Table[i] = pairs[i].key
    BY <1>1 DEF Table
  <2> QED
    BY <2>1, <2>2, PairFacts
<1>4. \A i \in 1..n : pairs[i].key = w <=> i \in (s + 1)..lo
  BY <1>1, <1>2, <1>3, FoundWhereItEnds
<1>5. s \in 0..lo /\ lo \in 0..n /\ buf = [i \in 1..(lo - s) |-> pairs[s + i].val]
  BY <1>1, <1>2, <1>3 DEF Narrowed
<1> HIDE DEF n
<1>6. \A i \in 1..(lo - s) : s + i \in 1..n /\ s + i \in (s + 1)..lo
  BY <1>3, <1>5
<1>7. Range(buf) = { p.val : p \in { q \in Range(pairs) : q.key = w } }
  <2>1. Range(buf) = { buf[i] : i \in 1..(lo - s) } /\ Range(pairs) = { pairs[i] : i \in 1..n }
    <3>1. DOMAIN buf = 1..(lo - s)
      BY <1>5
    <3> QED
      BY <1>3, <3>1 DEF Range
  <2>2. ASSUME NEW x \in Range(buf) PROVE \E p \in Range(pairs) : p.key = w /\ x = p.val
    <3>1. PICK i \in 1..(lo - s) : x = pairs[s + i].val
      BY <1>5, <2>1, <2>2
    <3>2. pairs[s + i] \in Range(pairs) /\ pairs[s + i].key = w
      BY <1>4, <1>6, <2>1
    <3> QED
      BY <3>1, <3>2
  <2>3. ASSUME NEW p \in Range(pairs), p.key = w PROVE p.val \in Range(buf)
    <3>1. PICK i \in 1..n : p = pairs[i]
      BY <2>1
    <3>2. i \in (s + 1)..lo
      BY <1>4, <2>3, <3>1
    <3>3. i - s \in 1..(lo - s) /\ s + (i - s) = i
      BY <1>3, <1>5, <3>2
    <3>4. buf[i - s] = p.val
      BY <1>5, <3>1, <3>3
    <3> QED
      BY <2>1, <3>3, <3>4
  <2> QED
    BY <2>2, <2>3
<1>8. IsInjective(buf)
  <2>1. DOMAIN buf = 1..(lo - s)
    BY <1>5
  <2>2. ASSUME NEW i \in 1..(lo - s), NEW j \in 1..(lo - s), i < j PROVE buf[i] # buf[j]
    <3>1. /\ s + i \in 1..Len(pairs) /\ s + j \in 1..Len(pairs)
          /\ pairs[s + i].key = w /\ pairs[s + j].key = w
      BY <1>4, <1>6 DEF n
    <3>2. s + i < s + j
      BY <1>5, <2>2
    <3>3. pairs[s + i].val # pairs[s + j].val
      BY <3>1, <3>2, SpellingsGrow
    <3> QED
      BY <1>5, <3>3
  <2>3. ASSUME NEW i \in 1..(lo - s), NEW j \in 1..(lo - s), buf[i] = buf[j] PROVE i = j
    <3>1. ~(i < j) /\ ~(j < i)
      BY <2>2, <2>3
    <3> QED
      BY <1>5, <3>1
  <2> QED
    BY <2>1, <2>3 DEF IsInjective
<1>9. AnswersFromTables'
  BY <1>1, <1>7, <1>8 DEF AnswersFromTables
<1> QED
  BY <1>1, <1>9 DEF SearchInv

LEMMA SearchInvInit == IndexInit => SearchInv
BY DEF IndexInit, SearchInv

LEMMA SearchInvStep == (TablesInOrder => SearchInv) /\ [IndexNext]_indexVars => (TablesInOrder => SearchInv)'
<1> SUFFICES ASSUME TablesInOrder, SearchInv, [IndexNext]_indexVars PROVE SearchInv'
  BY TablesStay
<1>1. CASE \E op \in {"IsWord", "Candidates"}, word \in Queries : Ask(op, word)
  BY <1>1, AskKeeps
<1>2. CASE Probe
  BY <1>2, ProbeKeeps
<1>3. CASE AnswerIsWord
  BY <1>3, AnswerIsWordKeeps
<1>4. CASE ReadCandidate
  BY <1>4, ReadKeeps
<1>5. CASE AnswerCandidates
  BY <1>5, AnswerCandidatesKeeps
<1>6. CASE NextQuestion
  BY <1>6 DEF NextQuestion, SearchInv
<1>7. CASE UNCHANGED indexVars
  <2>1. Table' = Table
    BY <1>7, TablesStay DEF indexVars
  <2>2. ASSUME NEW s \in Nat, Narrowed(s) PROVE Narrowed(s)'
    BY <1>7, <2>1, <2>2 DEF indexVars, Narrowed
  <2>3. AnswersFromTables' = AnswersFromTables
    BY <1>7 DEF indexVars, AnswersFromTables
  <2> QED
    BY <1>7, <2>2, <2>3 DEF indexVars, SearchInv
<1> QED
  BY <1>1, <1>2, <1>3, <1>4, <1>5, <1>6, <1>7 DEF IndexNext

LEMMA SearchInvariant == IndexSpec => [](TablesInOrder => SearchInv)
<1> QED
  BY SearchInvInit, SearchInvStep, PTL DEF IndexSpec

(* The bisection and the reading that follows it answer by the tables: for  *)
(* tables of any length in order, whatever is asked in whatever order, a   *)
(* word is found exactly if it is there, and a key's spellings are told    *)
(* all and once (IsWord, Candidates, search).                              *)
AnswersAreExact == TablesInOrder /\ phase = "answered" => AnswersFromTables
THEOREM SearchesAreExact == IndexSpec => []AnswersAreExact
<1>1. (TablesInOrder => SearchInv) => AnswersAreExact
  BY DEF SearchInv, AnswersAreExact
<1> QED
  BY <1>1, SearchInvariant, PTL

(* If Build has put the language into the tables, every answer is true of   *)
(* the language: with that alone IsWord and Candidates need no other       *)
(* property of the dictionary.                                             *)
THEOREM AnswersFollowTables == IndexSpec /\ TablesHoldLanguage => []AnswersAreTrue
<1>1. TablesHoldLanguage /\ [IndexNext]_indexVars => TablesHoldLanguage'
  BY TablesStay DEF TablesHoldLanguage, Language
<1>2. TablesHoldLanguage /\ (TablesInOrder => SearchInv) => AnswersAreTrue
  <2> SUFFICES ASSUME TablesHoldLanguage, SearchInv, phase = "answered"
               PROVE  AnswersAreTrue
    BY DEF AnswersAreTrue, TablesHoldLanguage
  <2> DEFINE forms == { LowerWord(f) : f \in { g \in Language : IsPolishLetters(g) } }
             w == asked.word
  <2>1. /\ AnswersFromTables /\ ~HasDiacritics(w)
        /\ Range(ascii) \cup { p.val : p \in Range(pairs) } = forms
        /\ \A x \in Range(ascii) : ~HasDiacritics(x)
        /\ \A p \in Range(pairs) : HasDiacritics(p.val) /\ p.key = Fold(p.val)
    BY QueriesAssumption DEF SearchInv, TablesHoldLanguage, TablesInOrder
  <2> HIDE DEF forms
  <2>2. w \in Range(ascii) <=> w \in forms
    BY <2>1
  <2>3. { p.val : p \in { q \in Range(pairs) : q.key = w } } = { f \in forms : HasDiacritics(f) /\ Fold(f) = w }
    <3>1. ASSUME NEW p \in Range(pairs), p.key = w
          PROVE  p.val \in forms /\ HasDiacritics(p.val) /\ Fold(p.val) = w
      BY <2>1, <3>1
    <3>2. ASSUME NEW f \in forms, HasDiacritics(f), Fold(f) = w
          PROVE  \E p \in Range(pairs) : p.key = w /\ f = p.val
      BY <2>1, <3>2
    <3> QED
      BY <3>1, <3>2
  <2>4. /\ asked.op = "IsWord" => answer = (w \in forms)
        /\ asked.op # "IsWord" => /\ Range(answer) = { f \in forms : HasDiacritics(f) /\ Fold(f) = w }
                                  /\ IsInjective(answer)
    BY <2>1, <2>2, <2>3 DEF AnswersFromTables
  <2> QED
    BY <2>4 DEF AnswersAreTrue, forms
<1> QED
  BY <1>1, <1>2, SearchInvariant, PTL DEF IndexSpec
=============================================================================
