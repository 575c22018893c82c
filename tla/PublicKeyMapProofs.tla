--------------------------- MODULE PublicKeyMapProofs ---------------------------
(***************************************************************************)
(* PublicKeyMap proved for every set of files and keys and every number of *)
(* changes of the directory and of failed reads.                           *)
(***************************************************************************)
EXTENDS PublicKeyMap, WellFoundedInduction, TLAPS

(* ReadDir sorts by name: a loop that is not done has a next file. *)
LEMMA NextFileType ==
    ASSUME TypeOK, todo # {}
    PROVE  NextFile \in todo
<1>1. todo \subseteq Nat /\ IsWellFoundedOn(OpToRel(<, Nat), Nat)
  BY NamesAssumption, NatLessThanWellFounded DEF TypeOK
<1>2. PICK n \in todo : \A m \in todo : ~(<<m, n>> \in OpToRel(<, Nat))
  BY <1>1, WFMin
<1>3. ASSUME NEW m \in todo PROVE n <= m
  <2>1. m \in Nat /\ n \in Nat
    BY <1>1
  <2>2. ~(m < n)
    BY <1>2, <2>1 DEF OpToRel
  <2>3. QED
    BY <2>1, <2>2
<1>4. QED
  BY <1>3 DEF NextFile

(* Exactly the keys of the cache verify a token once a step is done. *)
LEMMA AcceptedKeys == ASSUME TypeOK' PROVE Accepted' = KeyOf(cache')
<1>1. KeyOf(cache') \subseteq Keys
  BY DEF TypeOK, KeyOf, Entries
<1>2. ASSUME NEW k \in Keys PROVE k \in Accepted' <=> k \in KeyOf(cache')
  BY KeysAssumption DEF Accepted, KeyFunction
<1>3. QED
  BY <1>1, <1>2 DEF Accepted

(* A file that is missing, malformed or a directory has no key. *)
LEMMA MissingHasNoKey ==
    /\ Missing \in Files /\ Missing.content \notin Keys /\ Missing.stamp = 0
    /\ "malformed" \notin Keys /\ "directory" \notin Keys
BY KeysAssumption DEF Missing, Files

LEMMA InitInv == Init => KeyMapInv
<1> SUFFICES ASSUME Init PROVE KeyMapInv
  OBVIOUS
<1>1. MaxChanges \in Nat /\ MaxFaults \in Nat /\ 0 \in Stamps
  BY BoundsAssumption DEF Stamps
<1>2. dir \in [Names -> Files] /\ \A n \in Names : dir[n].stamp = 0
  BY DEF Init
<1>3. TypeOK
  <2>1. dirty \in BOOLEAN /\ ctxDone \in BOOLEAN
    BY Zenon DEF Init
  <2>2. seen \subseteq Keys
    BY DEF Init, KeysIn
  <2>3. QED
    BY <1>1, <1>2, <2>1, <2>2 DEF Init, TypeOK, Stamps
<1>4. StampInv
  BY <1>1, <1>2 DEF Init, StampInv
<1>5. QED
  BY <1>3, <1>4 DEF Init, KeyMapInv, OneEntryPerFile, LoopInv, StableInv, Looping

(* A step that leaves the directory, the entries and what the loop has     *)
(* reached alone.                                                          *)
LEMMA ControlStep ==
    ASSUME KeyMapInv, UNCHANGED <<env, local, seen>>,
           cache' = cache \/ (cache' = {} /\ ~Looping'),
           pc' \in {"start", "listed", "files", "load", "read", "idle", "failed", "returned"},
           phase' \in {"init", "sync"}, ctxDone' \in BOOLEAN, faults' \in 0..MaxFaults,
           stable' \subseteq stable,
           pc' \in {"load", "read"} => todo # {},
           Looping' => Looping,
           pc' = "listed" => pc = "listed"
    PROVE  KeyMapInv'
<1>1. TypeOK'
  <2>1. dirty' \in BOOLEAN
    BY Zenon DEF KeyMapInv, TypeOK, local
  <2>2. QED
    BY <2>1 DEF KeyMapInv, TypeOK, env, local
<1>2. StampInv'
  BY DEF KeyMapInv, StampInv, env, local
<1>3. OneEntryPerFile'
  BY DEF KeyMapInv, OneEntryPerFile, local
<1>4. LoopInv'
  BY DEF KeyMapInv, LoopInv, Looping, KeysIn, env, local
<1>5. StableInv'
  BY DEF KeyMapInv, StableInv, Looping, Confirmed, env, local
<1>6. QED
  BY <1>1, <1>2, <1>3, <1>4, <1>5 DEF KeyMapInv

(* A read that fails stays within the bound. *)
LEMMA FaultType == ASSUME KeyMapInv, Fault PROVE faults' \in 0..MaxFaults
BY BoundsAssumption DEF KeyMapInv, TypeOK, Fault

(* Reading the directory, with or without success, and the ends of a pass  *)
(* that leave the entries alone.                                           *)
LEMMA ReadDirStep ==
    ASSUME KeyMapInv, ReadDir \/ ReadDirFails
    PROVE  KeyMapInv'
<1>1. CASE ReadDirFails
  <2>1. /\ UNCHANGED <<env, local, seen, phase, ctxDone>> /\ stable' = {}
        /\ pc' \in {"failed", "idle"} /\ (cache' = cache \/ cache' = {})
    BY <1>1 DEF ReadDirFails, clear
  <2>2. faults' \in 0..MaxFaults
    BY <1>1, FaultType DEF ReadDirFails
  <2>3. ~Looping'
    BY <2>1 DEF Looping
  <2>4. phase' \in {"init", "sync"} /\ ctxDone' \in BOOLEAN
    BY <2>1, Zenon DEF KeyMapInv, TypeOK
  <2>5. QED
    BY <2>1, <2>2, <2>3, <2>4, ControlStep
<1>2. CASE ReadDir /\ phase = "sync" /\ Present = {}
  <2>1. /\ UNCHANGED <<env, local, seen, stable, phase, ctxDone, faults>>
        /\ pc' = "idle" /\ cache' = {}
    BY <1>2 DEF ReadDir, clear, local, history
  <2>2. ~Looping'
    BY <2>1 DEF Looping
  <2>3. phase' \in {"init", "sync"} /\ ctxDone' \in BOOLEAN /\ faults' \in 0..MaxFaults
    BY <2>1, Zenon DEF KeyMapInv, TypeOK
  <2>4. QED
    BY <2>1, <2>2, <2>3, ControlStep
<1>3. CASE ReadDir /\ ~(phase = "sync" /\ Present = {})
  <2>1. /\ pc' = "listed" /\ todo' = {n \in Present : dir[n].content # "directory"}
        /\ UNCHANGED <<env, cache, phase, current, deletes, dirty, info, ctxDone, faults, history>>
    BY <1>3 DEF ReadDir
  <2>2. TypeOK'
    <3>1. dirty' \in BOOLEAN /\ ctxDone' \in BOOLEAN
      BY <2>1, Zenon DEF KeyMapInv, TypeOK
    <3>2. todo' \subseteq Names
      BY <2>1 DEF Present
    <3>3. QED
      BY <2>1, <3>1, <3>2 DEF KeyMapInv, TypeOK, env, history
  <2>3. StampInv' /\ OneEntryPerFile'
    BY <2>1 DEF KeyMapInv, StampInv, OneEntryPerFile, env
  <2>4. LoopInv'
    BY <2>1 DEF KeyMapInv, LoopInv, Looping, KeysIn, env, history
  <2>5. StableInv'
    <3>1. ASSUME NEW n \in stable, dir[n].content \in Keys PROVE n \in todo'
      <4>1. n \in Names /\ dir[n] # Missing /\ dir[n].content # "directory"
        BY <3>1, MissingHasNoKey DEF KeyMapInv, TypeOK
      <4>2. QED
        BY <2>1, <4>1 DEF Present
    <3>2. QED
      BY <2>1, <3>1 DEF StableInv, Looping, env, history
  <2>6. QED
    BY <2>2, <2>3, <2>4, <2>5 DEF KeyMapInv
<1>4. QED
  BY <1>1, <1>2, <1>3

LEMMA CloneStep ==
    ASSUME KeyMapInv, Clone
    PROVE  KeyMapInv'
<1>1. /\ pc = "listed" /\ pc' = "files" /\ current' = cache /\ deletes' = FileOf(cache) /\ dirty' = FALSE
      /\ UNCHANGED <<env, cache, phase, todo, info, ctxDone, faults, history>>
  BY DEF Clone
<1>2. TypeOK'
  <2>1. dirty' \in BOOLEAN /\ ctxDone' \in BOOLEAN
    BY <1>1, Zenon DEF KeyMapInv, TypeOK
  <2>2. deletes' \subseteq Names
    BY <1>1 DEF KeyMapInv, TypeOK, FileOf, Entries
  <2>3. QED
    BY <1>1, <2>1, <2>2 DEF KeyMapInv, TypeOK, env, history
<1>3. StampInv' /\ OneEntryPerFile'
  BY <1>1 DEF KeyMapInv, StampInv, OneEntryPerFile, env
<1>4. LoopInv'
  BY <1>1 DEF KeyMapInv, LoopInv, Looping, KeysIn, FileOf, env, history
<1>5. StableInv'
  BY <1>1 DEF KeyMapInv, StableInv, Looping, env, history
<1>6. QED
  BY <1>2, <1>3, <1>4, <1>5 DEF KeyMapInv

(* `continue`: the file has no key, or could not be read. *)
LEMMA SkipStep ==
    ASSUME KeyMapInv, Looping, Skip, UNCHANGED <<env, cache, phase, ctxDone, seen>>,
           faults' \in 0..MaxFaults, stable' \subseteq stable,
           \A n \in stable' : n = NextFile => dir[n].content \notin Keys
    PROVE  KeyMapInv'
<1>1. /\ todo' = todo \ {NextFile} /\ pc' = "files"
      /\ UNCHANGED <<env, cache, phase, ctxDone, seen, current, deletes, dirty, info>>
  BY DEF Skip
<1>2. TypeOK'
  <2>1. dirty' \in BOOLEAN /\ ctxDone' \in BOOLEAN
    BY <1>1, Zenon DEF KeyMapInv, TypeOK
  <2>2. QED
    BY <1>1, <2>1 DEF KeyMapInv, TypeOK, env
<1>3. StampInv' /\ OneEntryPerFile'
  BY <1>1 DEF KeyMapInv, StampInv, OneEntryPerFile, env
<1>4. LoopInv'
  BY <1>1 DEF KeyMapInv, LoopInv, Looping, KeysIn, env
<1>5. StableInv'
  BY <1>1 DEF KeyMapInv, StableInv, Looping, Confirmed, env
<1>6. QED
  BY <1>2, <1>3, <1>4, <1>5 DEF KeyMapInv

LEMMA FileFailsStep ==
    ASSUME KeyMapInv, FileFails
    PROVE  KeyMapInv'
<1>1. /\ Looping /\ Skip /\ stable' = stable \ {NextFile} /\ UNCHANGED <<env, cache, phase, ctxDone, seen>>
  BY DEF FileFails, Looping
<1>2. faults' \in 0..MaxFaults
  BY FaultType DEF FileFails
<1>3. QED
  BY <1>1, <1>2, SkipStep

(* An entry whose stamp is the one of its file has the key of that file,   *)
(* which is in the directory: it is confirmed.                             *)
LEMMA ConfirmStep ==
    ASSUME KeyMapInv, pc = "files", NEW n \in Names, n \in todo, dir[n] # Missing, Unchanged(n),
           deletes' = deletes \ {n}, todo' = todo \ {n}, UNCHANGED <<pc, current, dirty, info>>,
           UNCHANGED <<env, cache, phase, ctxDone, faults, history>>
    PROVE  KeyMapInv'
<1>1. PICK e \in current : e.file = n /\ e.stamp = dir[n].stamp
  BY DEF Unchanged
<1>2. e.key = dir[n].content /\ e.key \in Keys
  BY <1>1 DEF KeyMapInv, StampInv, TypeOK, Entries
<1>3. e.key \in seen
  BY <1>2 DEF KeyMapInv, LoopInv, KeysIn
<1>4. \A f \in current : f.file = n => f = e
  BY <1>1 DEF KeyMapInv, OneEntryPerFile
<1>5. TypeOK'
  <2>1. dirty' \in BOOLEAN /\ ctxDone' \in BOOLEAN
    BY Zenon DEF KeyMapInv, TypeOK
  <2>2. QED
    BY <2>1 DEF KeyMapInv, TypeOK, env, history
<1>6. StampInv' /\ OneEntryPerFile'
  BY DEF KeyMapInv, StampInv, OneEntryPerFile, env
<1>7. LoopInv'
  <2>1. \A f \in current : f.file \in deletes' \/ f.key \in seen
    BY <1>3, <1>4 DEF KeyMapInv, LoopInv, Looping
  <2>2. QED
    BY <2>1 DEF KeyMapInv, LoopInv, Looping, KeysIn, env, history
<1>8. StableInv'
  <2>1. ASSUME NEW m \in stable, dir[m].content \in Keys PROVE m \in todo' \/ Confirmed(m)'
    <3>1. CASE m = n
      BY <1>1, <1>2, <3>1 DEF Confirmed, env
    <3>2. CASE m # n
      BY <2>1, <3>2 DEF KeyMapInv, StableInv, Looping, Confirmed, env
    <3>3. QED
      BY <3>1, <3>2
  <2>2. QED
    BY <2>1 DEF StableInv, Looping, env, history
<1>9. QED
  BY <1>5, <1>6, <1>7, <1>8 DEF KeyMapInv

LEMMA CompareStep ==
    ASSUME KeyMapInv, Compare
    PROVE  KeyMapInv'
<1> DEFINE n == NextFile
<1>1. /\ pc = "files" /\ todo # {} /\ Looping
      /\ UNCHANGED <<env, cache, phase, ctxDone, faults, history>>
  BY DEF Compare, Looping
<1>2. n \in todo /\ n \in Names
  BY <1>1, NextFileType DEF KeyMapInv, TypeOK
<1>3. CASE dir[n] = Missing /\ Skip
  <2>1. faults' \in 0..MaxFaults /\ stable' = stable /\ seen' = seen
    BY <1>1 DEF KeyMapInv, TypeOK, history
  <2>2. QED
    BY <1>1, <1>3, <2>1, MissingHasNoKey, SkipStep
<1>4. CASE /\ dir[n] # Missing /\ Unchanged(n) /\ deletes' = Confirm(n) /\ todo' = todo \ {n}
           /\ UNCHANGED <<pc, current, dirty, info>>
  <2>1. deletes' = deletes \ {n}
    BY <1>4 DEF Confirm
  <2> HIDE DEF n
  <2>2. QED
    BY <1>1, <1>2, <1>4, <2>1, ConfirmStep
<1>5. CASE pc' = "load" /\ UNCHANGED local
  <2>1. phase' \in {"init", "sync"} /\ ctxDone' \in BOOLEAN /\ faults' \in 0..MaxFaults
    BY <1>1, Zenon DEF KeyMapInv, TypeOK
  <2>2. stable' = stable /\ seen' = seen
    BY <1>1 DEF history
  <2>3. QED
    BY <1>1, <1>5, <2>1, <2>2, ControlStep
<1>6. QED
  BY <1>3, <1>4, <1>5 DEF Compare

LEMMA StatStep ==
    ASSUME KeyMapInv, Stat
    PROVE  KeyMapInv'
<1> DEFINE n == NextFile
<1>1. /\ pc = "load" /\ Looping
      /\ UNCHANGED <<env, cache, phase, ctxDone, faults, history>>
  BY DEF Stat, Looping
<1>2. todo # {} /\ n \in todo /\ n \in Names
  BY <1>1, NextFileType DEF KeyMapInv, TypeOK, LoopInv
<1>3. CASE dir[n] = Missing
  <2>1. faults' \in 0..MaxFaults /\ stable' = stable /\ seen' = seen
    BY <1>1 DEF KeyMapInv, TypeOK, history
  <2>2. Skip
    BY <1>3 DEF Stat
  <2>3. QED
    BY <1>1, <1>3, <2>1, <2>2, MissingHasNoKey, SkipStep
<1>4. CASE dir[n] # Missing
  <2>1. info' = dir[n].stamp /\ pc' = "read" /\ UNCHANGED <<todo, current, deletes, dirty>>
    BY <1>4 DEF Stat
  <2>2. TypeOK'
    <3>1. dirty' \in BOOLEAN /\ ctxDone' \in BOOLEAN
      BY <1>1, <2>1, Zenon DEF KeyMapInv, TypeOK
    <3>2. info' \in Stamps
      <4>1. dir[n] \in Files
        BY <1>2 DEF KeyMapInv, TypeOK
      <4>2. QED
        BY <1>4, <2>1, <4>1 DEF Files
    <3>3. QED
      BY <1>1, <2>1, <3>1, <3>2 DEF KeyMapInv, TypeOK, env, history
  <2>3. StampInv' /\ OneEntryPerFile'
    BY <1>1, <1>2, <2>1 DEF KeyMapInv, StampInv, OneEntryPerFile, env
  <2>4. LoopInv'
    BY <1>1, <1>2, <2>1 DEF KeyMapInv, LoopInv, Looping, KeysIn, env, history
  <2>5. StableInv'
    BY <1>1, <2>1 DEF KeyMapInv, StableInv, Looping, Confirmed, env, history
  <2>6. QED
    BY <2>2, <2>3, <2>4, <2>5 DEF KeyMapInv
<1>5. QED
  BY <1>3, <1>4

(* The content that is read now belongs to the stamp that was taken        *)
(* before, or the file has another stamp by now.                           *)
LEMMA ReadFileStep ==
    ASSUME KeyMapInv, ReadFile
    PROVE  KeyMapInv'
<1> DEFINE n == NextFile
           new == [file |-> n, stamp |-> info, key |-> dir[n].content]
<1>1. /\ pc = "read" /\ Looping
      /\ UNCHANGED <<env, cache, phase, ctxDone, faults, history>>
  BY DEF ReadFile, Looping
<1>2. todo # {} /\ n \in todo /\ n \in Names
  BY <1>1, NextFileType DEF KeyMapInv, TypeOK, LoopInv
<1>3. CASE dir[n].content \notin Keys
  <2>1. faults' \in 0..MaxFaults /\ stable' = stable /\ seen' = seen
    BY <1>1 DEF KeyMapInv, TypeOK, history
  <2>2. Skip
    BY <1>3 DEF ReadFile
  <2>3. QED
    BY <1>1, <1>3, <2>1, <2>2, SkipStep
<1>4. CASE dir[n].content \in Keys
  <2>1. /\ current' = {e \in current : e.file # n} \cup {new}
        /\ dirty' = TRUE /\ deletes' = deletes \ {n} /\ todo' = todo \ {n} /\ pc' = "files"
        /\ UNCHANGED info
    BY <1>4 DEF ReadFile, Confirm
  <2>2. new \in Entries /\ new.file = n /\ new.stamp = info /\ new.key = dir[n].content
    BY <1>2, <1>4 DEF KeyMapInv, TypeOK, Entries
  <2>3. new.key \in seen
    BY <1>2, <1>4, <2>2 DEF KeyMapInv, LoopInv, KeysIn
  <2> HIDE DEF new, n
  <2>4. TypeOK'
    <3>1. dirty' \in BOOLEAN /\ ctxDone' \in BOOLEAN
      BY <1>1, <2>1, Zenon DEF KeyMapInv, TypeOK
    <3>2. current' \subseteq Entries
      BY <2>1, <2>2 DEF KeyMapInv, TypeOK
    <3>3. QED
      BY <1>1, <2>1, <3>1, <3>2 DEF KeyMapInv, TypeOK, env, history
  <2>5. StampInv'
    BY <1>1, <2>1, <2>2 DEF KeyMapInv, StampInv, env
  <2>6. OneEntryPerFile'
    BY <1>1, <2>1, <2>2 DEF KeyMapInv, OneEntryPerFile
  <2>7. LoopInv'
    <3>1. \A e \in current' : e.file \in deletes' \/ e.key \in seen
      BY <1>1, <2>1, <2>2, <2>3 DEF KeyMapInv, LoopInv
    <3>2. QED
      BY <1>1, <2>1, <3>1 DEF KeyMapInv, LoopInv, Looping, KeysIn, env, history
  <2>8. StableInv'
    <3>1. ASSUME NEW m \in stable, dir[m].content \in Keys PROVE m \in todo' \/ Confirmed(m)'
      <4>1. CASE m = n
        BY <1>1, <2>1, <2>2, <4>1 DEF Confirmed, env
      <4>2. CASE m # n
        BY <1>1, <2>1, <3>1, <4>2 DEF KeyMapInv, StableInv, Confirmed, env
      <4>3. QED
        BY <4>1, <4>2
    <3>2. QED
      BY <1>1, <2>1, <3>1 DEF StableInv, Looping, env, history
  <2>9. QED
    BY <2>4, <2>5, <2>6, <2>7, <2>8 DEF KeyMapInv
<1>5. QED
  BY <1>3, <1>4

LEMMA PublishStep ==
    ASSUME KeyMapInv, Publish
    PROVE  KeyMapInv'
<1>1. /\ cache' = cache \/ cache' \in ByHash(Kept)
      /\ UNCHANGED <<env, phase, local, ctxDone, faults, history>>
  BY DEF Publish
<1>2. pc' = "idle" /\ ~Looping'
  BY DEF Publish, Looping
<1>3. CASE cache' = cache
  <2>1. phase' \in {"init", "sync"} /\ ctxDone' \in BOOLEAN /\ faults' \in 0..MaxFaults
    BY <1>1, Zenon DEF KeyMapInv, TypeOK
  <2>2. stable' = stable /\ seen' = seen
    BY <1>1 DEF history
  <2>3. QED
    BY <1>1, <1>2, <1>3, <2>1, <2>2, ControlStep
<1>4. CASE cache' \in ByHash(Kept)
  <2>1. cache' \subseteq current /\ \A e, f \in cache' : e.key = f.key => e = f
    BY <1>4 DEF ByHash, Kept
  <2>2. TypeOK'
    <3>1. dirty' \in BOOLEAN /\ ctxDone' \in BOOLEAN
      BY <1>1, Zenon DEF KeyMapInv, TypeOK, local
    <3>2. QED
      BY <1>1, <1>2, <2>1, <3>1 DEF KeyMapInv, TypeOK, env, local, history
  <2>3. StampInv' /\ OneEntryPerFile'
    BY <1>1, <2>1 DEF KeyMapInv, StampInv, OneEntryPerFile, env, local
  <2>4. LoopInv'
    BY <1>1, <1>2 DEF KeyMapInv, LoopInv, KeysIn, env, local, history
  <2>5. StableInv'
    BY <1>1, <1>2 DEF StableInv
  <2>6. QED
    BY <2>2, <2>3, <2>4, <2>5 DEF KeyMapInv
<1>5. QED
  BY <1>1, <1>3, <1>4

(* The next tick, the cancellation and the return because of it. *)
LEMMA MaintainStep ==
    ASSUME KeyMapInv, Tick \/ Cancel \/ ReturnError
    PROVE  KeyMapInv'
<1>1. CASE Tick
  <2>1. /\ pc' = "start" /\ phase' = "sync" /\ seen' = KeysIn(dir) /\ stable' = Names
        /\ UNCHANGED <<env, cache, local, ctxDone, faults>>
    BY <1>1 DEF Tick
  <2>2. TypeOK'
    <3>1. dirty' \in BOOLEAN /\ ctxDone' \in BOOLEAN
      BY <2>1, Zenon DEF KeyMapInv, TypeOK, local
    <3>2. seen' \subseteq Keys
      BY <2>1 DEF KeysIn
    <3>3. QED
      BY <2>1, <3>1, <3>2 DEF KeyMapInv, TypeOK, env, local
  <2>3. StampInv' /\ OneEntryPerFile'
    BY <2>1 DEF KeyMapInv, StampInv, OneEntryPerFile, env, local
  <2>4. LoopInv'
    BY <2>1 DEF LoopInv, Looping, KeysIn, env
  <2>5. StableInv'
    BY <2>1 DEF StableInv, Looping
  <2>6. QED
    BY <2>2, <2>3, <2>4, <2>5 DEF KeyMapInv
<1>2. CASE Cancel
  <2>1. ctxDone' = TRUE /\ UNCHANGED <<env, cache, pc, phase, local, faults, seen, stable>>
    BY <1>2 DEF Cancel, history
  <2>2. ctxDone' \in BOOLEAN
    BY <2>1, Zenon
  <2>3. QED
    BY <2>1, <2>2, ControlStep DEF KeyMapInv, TypeOK, LoopInv, Looping
<1>3. CASE ReturnError
  <2>1. pc' = "returned" /\ UNCHANGED <<env, cache, phase, local, ctxDone, faults, seen, stable>>
    BY <1>3 DEF ReturnError, history
  <2>2. phase' \in {"init", "sync"} /\ ctxDone' \in BOOLEAN /\ faults' \in 0..MaxFaults
    BY <2>1, Zenon DEF KeyMapInv, TypeOK
  <2>3. ~Looping'
    BY <2>1 DEF Looping
  <2>4. QED
    BY <2>1, <2>2, <2>3, ControlStep
<1>4. QED
  BY <1>1, <1>2, <1>3

(* A write gives the file a stamp that no entry has, and a file that was   *)
(* touched is not stable any more.                                         *)
LEMMA ChangeStep ==
    ASSUME KeyMapInv, NEW n \in Names, NEW f \in Files,
           f = Missing \/ f.stamp = changes + 1, Change(n, f)
    PROVE  KeyMapInv'
<1>1. /\ changes < MaxChanges /\ changes' = changes + 1 /\ dir' = [dir EXCEPT ![n] = f]
      /\ seen' = seen \cup KeysIn(dir') /\ stable' = stable \ {n}
      /\ UNCHANGED <<cache, pc, phase, local, ctxDone, faults>>
  BY DEF Change
<1>2. changes \in Nat /\ changes' \in Nat /\ changes' \in Stamps
  BY <1>1, BoundsAssumption DEF KeyMapInv, TypeOK, Stamps
<1>3. dir \in [Names -> Files]
  BY DEF KeyMapInv, TypeOK
<1>4. dir' \in [Names -> Files] /\ dir'[n] = f /\ \A m \in Names : m # n => dir'[m] = dir[m]
  BY <1>1, <1>3
<1>5. \A x \in Stamps : x \in Nat
  BY BoundsAssumption DEF Stamps
<1>6. TypeOK'
  <2>1. dirty' \in BOOLEAN /\ ctxDone' \in BOOLEAN
    BY <1>1, Zenon DEF KeyMapInv, TypeOK, local
  <2>2. seen' \subseteq Keys
    BY <1>1 DEF KeyMapInv, TypeOK, KeysIn
  <2>3. QED
    BY <1>1, <1>2, <1>4, <2>1, <2>2 DEF KeyMapInv, TypeOK, local
<1>7. StampInv'
  <2>1. info' <= changes'
    BY <1>1, <1>2, <1>5 DEF KeyMapInv, StampInv, TypeOK, local
  <2>2. ASSUME NEW m \in Names PROVE dir'[m].stamp <= changes'
    <3>1. CASE m = n
      BY <1>1, <1>2, <1>4, <3>1, MissingHasNoKey
    <3>2. CASE m # n
      <4>1. dir[m].stamp <= changes /\ dir[m] \in Files
        BY <1>3 DEF KeyMapInv, StampInv
      <4>2. dir[m].stamp \in Nat
        BY <1>5, <4>1, MissingHasNoKey DEF Files
      <4>3. QED
        BY <1>1, <1>2, <1>4, <3>2, <4>1, <4>2
    <3>3. QED
      BY <3>1, <3>2
  <2>3. ASSUME NEW e \in cache \cup current
        PROVE  /\ e.stamp <= changes'
               /\ dir'[e.file] # Missing /\ dir'[e.file].stamp = e.stamp => dir'[e.file].content = e.key
    <3>1. e.stamp \in Nat /\ e.file \in Names /\ e.stamp <= changes
      BY <1>5 DEF KeyMapInv, TypeOK, StampInv, Entries
    <3>2. e.stamp <= changes' /\ e.stamp # changes + 1
      BY <1>1, <1>2, <3>1
    <3>3. CASE e.file = n
      BY <1>4, <3>2, <3>3
    <3>4. CASE e.file # n
      BY <1>4, <3>1, <3>2, <3>4 DEF KeyMapInv, StampInv
    <3>5. QED
      BY <3>3, <3>4
  <2>4. QED
    BY <1>1, <2>1, <2>2, <2>3 DEF StampInv, local
<1>8. OneEntryPerFile'
  BY <1>1 DEF KeyMapInv, OneEntryPerFile, local
<1>9. LoopInv'
  BY <1>1 DEF KeyMapInv, LoopInv, Looping, local
<1>10. StableInv'
  <2>1. ASSUME NEW m \in stable' PROVE m \in stable /\ dir'[m] = dir[m]
    BY <1>1, <1>4 DEF KeyMapInv, TypeOK
  <2>2. QED
    BY <1>1, <2>1 DEF KeyMapInv, StableInv, Looping, Confirmed, local
<1>11. QED
  BY <1>6, <1>7, <1>8, <1>9, <1>10 DEF KeyMapInv

LEMMA DirectoryStep ==
    ASSUME KeyMapInv, NEW n \in Names,
           RemoveFile(n) \/ \E c \in Keys \cup {"malformed", "directory"} : WriteFile(n, c)
    PROVE  KeyMapInv'
<1>1. CASE RemoveFile(n)
  BY <1>1, ChangeStep, MissingHasNoKey DEF RemoveFile
<1>2. ASSUME NEW c \in Keys \cup {"malformed", "directory"}, WriteFile(n, c) PROVE KeyMapInv'
  <2> DEFINE f == [content |-> c, stamp |-> changes + 1]
  <2>1. changes + 1 \in Stamps
    BY <1>2, BoundsAssumption DEF KeyMapInv, TypeOK, Stamps, WriteFile, Change
  <2>2. f \in Files /\ f.stamp = changes + 1
    BY <2>1 DEF Files
  <2>3. Change(n, f)
    BY <1>2 DEF WriteFile
  <2> HIDE DEF f
  <2>4. QED
    BY <2>2, <2>3, ChangeStep
<1>3. QED
  BY <1>1, <1>2

LEMMA InvInductive == KeyMapInv /\ [Next]_vars => KeyMapInv'
<1> SUFFICES ASSUME KeyMapInv, [Next]_vars PROVE KeyMapInv'
  OBVIOUS
<1>1. CASE ReadDir \/ ReadDirFails
  BY <1>1, ReadDirStep
<1>2. CASE Clone
  BY <1>2, CloneStep
<1>3. CASE Compare
  BY <1>3, CompareStep
<1>4. CASE Stat
  BY <1>4, StatStep
<1>5. CASE ReadFile
  BY <1>5, ReadFileStep
<1>6. CASE Publish
  BY <1>6, PublishStep
<1>7. CASE FileFails
  BY <1>7, FileFailsStep
<1>8. CASE Tick \/ Cancel \/ ReturnError
  BY <1>8, MaintainStep
<1>9. CASE \E n \in Names : RemoveFile(n) \/ \E c \in Keys \cup {"malformed", "directory"} : WriteFile(n, c)
  BY <1>9, DirectoryStep
<1>10. CASE UNCHANGED vars
  <2>1. UNCHANGED <<env, cache, pc, phase, local, ctxDone, faults, seen, stable>>
    BY <1>10 DEF vars, history
  <2>2. phase' \in {"init", "sync"} /\ ctxDone' \in BOOLEAN /\ faults' \in 0..MaxFaults
    BY <2>1, Zenon DEF KeyMapInv, TypeOK
  <2>3. QED
    BY <2>1, <2>2, ControlStep DEF KeyMapInv, TypeOK, LoopInv, Looping
<1>11. QED
  BY <1>1, <1>2, <1>3, <1>4, <1>5, <1>6, <1>7, <1>8, <1>9, <1>10 DEF Next, Pass

(***************************************************************************)
(* Theorems.                                                               *)
(***************************************************************************)
(* Every step of init and sync keeps KeyMapInv while the directory changes *)
(* and reads fail: an entry never has the stamp of its file and the key of *)
(* another content.                                                        *)
THEOREM KeyMapSafe == Spec => []KeyMapInv
<1>1. Init => KeyMapInv
  BY InitInv
<1>2. KeyMapInv /\ [Next]_vars => KeyMapInv'
  BY InvInductive
<1>3. QED
  BY <1>1, <1>2, PTL DEF Spec

(* How a pass can end: with an empty cache, because nothing could be read  *)
(* or the directory is empty, or with the entries that were kept.          *)
LEMMA EndOfPass ==
    ASSUME KeyMapInv, [Next]_vars, PassEnds
    PROVE  /\ UNCHANGED <<dir, seen>>
           /\ \/ /\ cache' = {}
                 /\ stable' = {} \/ Present = {}
              \/ /\ Looping /\ todo = {} /\ stable' = stable
                 /\ KeyOf(cache') = KeyOf(Kept)
<1>1. pc # "idle" /\ pc' = "idle" /\ pc # pc'
  BY DEF PassEnds
<1>2. CASE Publish
  <2>1. Looping /\ todo = {} /\ UNCHANGED <<dir, seen, stable>>
    BY <1>2 DEF Publish, Looping, env, history
  <2>2. CASE cache' \in ByHash(Kept)
    BY <2>1, <2>2 DEF ByHash
  <2>3. CASE ~Changed /\ cache' = cache
    <3>1. ~dirty /\ deletes = {}
      BY <2>3 DEF Changed
    <3>2. current = cache
      BY <2>1, <3>1 DEF KeyMapInv, LoopInv
    <3>3. Kept = cache
      BY <3>1, <3>2 DEF Kept
    <3>4. QED
      BY <2>1, <2>3, <3>3
  <2>4. QED
    BY <1>2, <2>2, <2>3 DEF Publish
<1>3. CASE ReadDir
  BY <1>1, <1>3 DEF ReadDir, clear, env, history
<1>4. CASE ReadDirFails
  BY <1>1, <1>4 DEF ReadDirFails, clear, env
<1>5. CASE Clone \/ Compare \/ Stat \/ ReadFile \/ FileFails \/ Tick \/ Cancel \/ ReturnError \/ UNCHANGED vars
  BY <1>1, <1>5 DEF Clone, Compare, Stat, ReadFile, FileFails, Skip, Tick, Cancel, ReturnError, vars
<1>6. CASE \E n \in Names : RemoveFile(n) \/ \E c \in Keys \cup {"malformed", "directory"} : WriteFile(n, c)
  BY <1>1, <1>6 DEF RemoveFile, WriteFile, Change
<1>7. QED
  BY <1>2, <1>3, <1>4, <1>5, <1>6 DEF Next, Pass

(* A key that was withdrawn before a refresh began, and not put back, does *)
(* not verify tokens after it.                                             *)
THEOREM WithdrawnForgotten == Spec => WithdrawnKeysAreForgotten
<1>1. ASSUME KeyMapInv, KeyMapInv', [Next]_vars, PassEnds PROVE Accepted' \subseteq seen
  <2>1. Accepted' = KeyOf(cache')
    BY <1>1, AcceptedKeys DEF KeyMapInv
  <2>2. CASE cache' = {}
    BY <2>1, <2>2 DEF KeyOf
  <2>3. CASE Looping /\ KeyOf(cache') = KeyOf(Kept)
    <3>1. \A e \in Kept : e.key \in seen
      BY <1>1, <2>3 DEF KeyMapInv, LoopInv, Kept
    <3>2. QED
      BY <2>1, <2>3, <3>1 DEF KeyOf
  <2>4. QED
    BY <1>1, <2>2, <2>3, EndOfPass
<1>2. KeyMapInv /\ KeyMapInv' /\ [Next]_vars => [PassEnds => Accepted' \subseteq seen]_vars
  BY <1>1
<1>3. QED
  BY <1>2, KeyMapSafe, PTL DEF Spec, WithdrawnKeysAreForgotten

(* A refresh never drops the key of a file that nobody touched and that    *)
(* could be read.                                                          *)
THEOREM StableAccepted == Spec => StableKeysAreAccepted
<1>1. ASSUME KeyMapInv, KeyMapInv', [Next]_vars, PassEnds
      PROVE  {dir[n].content : n \in stable'} \cap Keys \subseteq Accepted'
  <2> SUFFICES ASSUME NEW n \in stable', dir[n].content \in Keys
               PROVE  dir[n].content \in Accepted'
    OBVIOUS
  <2>1. Accepted' = KeyOf(cache')
    BY <1>1, AcceptedKeys DEF KeyMapInv
  <2>2. CASE stable' = {} \/ Present = {}
    <3>1. n \in Names
      BY <1>1 DEF KeyMapInv, TypeOK
    <3>2. QED
      BY <2>2, <3>1, MissingHasNoKey DEF Present
  <2>3. CASE Looping /\ todo = {} /\ stable' = stable /\ KeyOf(cache') = KeyOf(Kept)
    <3>1. Confirmed(n)
      BY <1>1, <2>3 DEF KeyMapInv, StableInv
    <3>2. QED
      BY <2>1, <2>3, <3>1 DEF Confirmed, Kept, KeyOf
  <2>4. QED
    BY <1>1, <2>2, <2>3, EndOfPass
<1>2. KeyMapInv /\ KeyMapInv' /\ [Next]_vars =>
        [PassEnds => {dir[n].content : n \in stable'} \cap Keys \subseteq Accepted']_vars
  BY <1>1
<1>3. QED
  BY <1>2, KeyMapSafe, PTL DEF Spec, StableKeysAreAccepted
=============================================================================
