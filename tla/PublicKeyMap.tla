---------------------------- MODULE PublicKeyMap ----------------------------
(***************************************************************************)
(* The cache of public keys of pkg/tokens/public_keys.go.  init fills it   *)
(* from a directory, MaintainCache refreshes it at every tick of a ticker  *)
(* (sync) and KeyFunction answers the JWT library from it.                 *)
(*                                                                         *)
(* The listing of the directory, the stamp (modification time and size) of *)
(* a file and its content are read in separate calls, and the directory    *)
(* changes in between.  A write gives a file a stamp it did not have       *)
(* before.  The hash of a key file, the "kid" of a token, is identified    *)
(* with the key: files with the same content share it.                     *)
(***************************************************************************)
EXTENDS Naturals, FiniteSets

CONSTANTS
    Names,      \* file names, as numbers: ReadDir sorts by name
    Keys,       \* contents that parse as an RSA public key
    MaxChanges, \* bound: changes of the directory
    MaxFaults   \* bound: failed reads

ASSUME NamesAssumption == Names \subseteq Nat /\ IsFiniteSet(Names)
ASSUME KeysAssumption ==
    Keys \cap {"none", "malformed", "directory", "ErrUnsupportedSigningMethod",
               "ErrMalformedKeyID", "ErrKeyNotFound"} = {}
ASSUME BoundsAssumption == MaxChanges \in Nat /\ MaxFaults \in Nat

VARIABLES
    dir,     \* external: content and stamp of each name
    changes, \* changes of the directory so far, the source of stamps
    cache,   \* keysByHashes: entries with the file, stamp and key they came from
    pc,      \* next statement of init or sync; "idle" between two ticks
    phase,   \* "init" or "sync": which of the two runs the loop over the files
    todo,    \* regular files of the listing that the loop has not reached
    current, \* currentKeys
    deletes, \* file names that are dropped unless the loop confirms them
    dirty,   \* keysAdded + keysUpdated > 0
    info,    \* the stamp fileToKeyEntry has taken
    ctxDone, \* the context of MaintainCache is cancelled
    faults,  \* failed reads so far
    seen,    \* history: keys that were in the directory since the pass began
    stable   \* history: files left alone, and read without a fault, since then

env == <<dir, changes>>
local == <<todo, current, deletes, dirty, info>>
history == <<seen, stable>>
vars == <<env, cache, pc, phase, local, ctxDone, faults, history>>

Missing == [content |-> "none", stamp |-> 0]
Stamps == 0..MaxChanges
Files == {Missing} \cup [content : Keys \cup {"malformed", "directory"}, stamp : Stamps]
Entries == [file : Names, stamp : Stamps, key : Keys]

TypeOK ==
    /\ dir \in [Names -> Files]
    /\ changes \in Stamps
    /\ cache \subseteq Entries
    /\ \A e, f \in cache : e.key = f.key => e = f
    /\ pc \in {"start", "listed", "files", "load", "read", "idle", "failed", "returned"}
    /\ phase \in {"init", "sync"}
    /\ todo \subseteq Names /\ deletes \subseteq Names
    /\ current \subseteq Entries
    /\ dirty \in BOOLEAN /\ ctxDone \in BOOLEAN
    /\ info \in Stamps
    /\ faults \in 0..MaxFaults
    /\ seen \subseteq Keys /\ stable \subseteq Names

Present == {n \in Names : dir[n] # Missing}
KeysIn(d) == {d[n].content : n \in Names} \cap Keys
FileOf(S) == {e.file : e \in S}
KeyOf(S) == {e.key : e \in S}

Init ==
    /\ dir \in [Names -> {f \in Files : f.stamp = 0}]
    /\ changes = 0
    /\ cache = {}
    /\ pc = "start" /\ phase = "init"
    /\ todo = {} /\ current = {} /\ deletes = {} /\ dirty = FALSE /\ info = 0
    /\ ctxDone = FALSE
    /\ faults = 0
    /\ seen = KeysIn(dir) /\ stable = Names

-----------------------------------------------------------------------------
(* KeyFunction and lookup.  clear replaces the map while it holds only the *)
(* read lock, which does not exclude a lookup; the map is one word, so a   *)
(* lookup finds the old map or the new one.                                *)
KeyFunction(token) ==
    IF token.method # "RSA" THEN "ErrUnsupportedSigningMethod"
    ELSE IF token.kid = "none" THEN "ErrMalformedKeyID"
    ELSE IF token.kid \notin KeyOf(cache) THEN "ErrKeyNotFound"
    ELSE token.kid

(* The keys whose tokens are verified. *)
Accepted == {k \in Keys : KeyFunction([method |-> "RSA", kid |-> k]) = k}

-----------------------------------------------------------------------------
(* The loop over the files, shared by init and sync *)

Fault == faults < MaxFaults /\ faults' = faults + 1

(* Mutant: the error of the context is not looked at. *)
NeverInterrupted == FALSE

(* sync checks its context before the listing, after it and at every       *)
(* entry, also at those that are no regular files and not in todo.         *)
Interrupted == phase = "sync" /\ ctxDone

ReturnError ==
    /\ pc \in {"start", "listed", "files"}
    /\ Interrupted
    /\ pc' = "returned"
    /\ UNCHANGED <<env, cache, phase, local, ctxDone, faults, history>>

clear == cache' = {}

(* fs.ReadDir; sync clears the cache when the directory is empty. *)
ReadDir ==
    /\ pc = "start" /\ ~Interrupted
    /\ IF phase = "sync" /\ Present = {}
       THEN clear /\ pc' = "idle" /\ UNCHANGED todo
       ELSE /\ pc' = "listed"
            /\ todo' = {n \in Present : dir[n].content # "directory"}
            /\ UNCHANGED cache
    /\ UNCHANGED <<env, phase, current, deletes, dirty, info, ctxDone, faults, history>>

(* It fails: the constructor returns the error, sync clears the cache. *)
ReadDirFails ==
    /\ pc = "start" /\ ~Interrupted
    /\ Fault
    /\ IF phase = "init"
       THEN pc' = "failed" /\ UNCHANGED cache
       ELSE pc' = "idle" /\ clear
    /\ stable' = {}
    /\ UNCHANGED <<env, phase, local, ctxDone, seen>>

(* sync clones the cache by file name; init starts from an empty map. *)
Clone ==
    /\ pc = "listed" /\ ~Interrupted
    /\ current' = cache
    /\ deletes' = FileOf(cache)
    /\ dirty' = FALSE
    /\ pc' = "files"
    /\ UNCHANGED <<env, cache, phase, todo, info, ctxDone, faults, history>>

NextFile == CHOOSE n \in todo : \A m \in todo : n <= m

(* `continue`: nothing of this file is stored, and a known key of it stays *)
(* in deletes.                                                             *)
Skip ==
    /\ todo' = todo \ {NextFile}
    /\ pc' = "files"
    /\ UNCHANGED <<current, deletes, dirty, info>>

(* Mutant: a known file is not confirmed when it has not changed. *)
Unconfirmed(n) == deletes

Confirm(n) == deletes \ {n}

(* Mutant: the stamp of a known file is not compared. *)
KnownFile(n) == \E e \in current : e.file = n

Unchanged(n) == \E e \in current : e.file = n /\ e.stamp = dir[n].stamp

(* The comparison of a file that has a known name; file.Info fails when    *)
(* the file is gone.  Other files are loaded.                              *)
Compare ==
    LET n == NextFile IN
    /\ pc = "files" /\ todo # {} /\ ~Interrupted
    /\ \/ /\ n \in FileOf(current) /\ dir[n] = Missing
          /\ Skip
       \/ /\ n \in FileOf(current) /\ dir[n] # Missing /\ Unchanged(n)
          /\ deletes' = Confirm(n)
          /\ todo' = todo \ {n}
          /\ UNCHANGED <<pc, current, dirty, info>>
       \/ /\ n \in FileOf(current) => dir[n] # Missing /\ ~Unchanged(n)
          /\ pc' = "load"
          /\ UNCHANGED local
    /\ UNCHANGED <<env, cache, phase, ctxDone, faults, history>>

(* fileToKeyEntry takes the stamp first ... *)
Stat ==
    /\ pc = "load"
    /\ IF dir[NextFile] = Missing
       THEN Skip
       ELSE info' = dir[NextFile].stamp /\ pc' = "read" /\ UNCHANGED <<todo, current, deletes, dirty>>
    /\ UNCHANGED <<env, cache, phase, ctxDone, faults, history>>

(* ... and then reads and parses the content. *)
ReadFile ==
    LET n == NextFile IN
    /\ pc = "read"
    /\ IF dir[n].content \notin Keys
       THEN Skip
       ELSE /\ current' = {e \in current : e.file # n}
                             \cup {[file |-> n, stamp |-> info, key |-> dir[n].content]}
            /\ dirty' = TRUE
            /\ deletes' = Confirm(n)
            /\ todo' = todo \ {n}
            /\ pc' = "files"
            /\ UNCHANGED info
    /\ UNCHANGED <<env, cache, phase, ctxDone, faults, history>>

(* Any of the calls on a file fails. *)
FileFails ==
    /\ \/ pc = "files" /\ todo # {} /\ ~Interrupted /\ NextFile \in FileOf(current)
       \/ pc \in {"load", "read"}
    /\ Fault
    /\ Skip
    /\ stable' = stable \ {NextFile}
    /\ UNCHANGED <<env, cache, phase, ctxDone, seen>>

(* Mutant: the files that are gone are not deleted. *)
KeepDeleted == current

Kept == {e \in current : e.file \notin deletes}

(* Mutant: two files with the same key both stay. *)
AllEntries(S) == {S}

(* One entry per hash; of several files with the same content the last one *)
(* in the random order of the map stays.                                   *)
ByHash(S) == {T \in SUBSET S : KeyOf(T) = KeyOf(S) /\ \A e, f \in T : e.key = f.key => e = f}

Changed == dirty \/ deletes # {}

(* The loop is done: sync leaves the cache alone if nothing changed.       *)
Publish ==
    /\ pc = "files" /\ todo = {}
    /\ IF phase = "init" \/ Changed
       THEN cache' \in ByHash(Kept)
       ELSE UNCHANGED cache
    /\ pc' = "idle"
    /\ UNCHANGED <<env, phase, local, ctxDone, faults, history>>

-----------------------------------------------------------------------------
(* MaintainCache: `for range ticker.C`.  The context is not part of the    *)
(* wait; a cancellation is seen by the sync of the next tick.              *)
Tick ==
    /\ pc = "idle"
    /\ pc' = "start" /\ phase' = "sync"
    /\ seen' = KeysIn(dir) /\ stable' = Names
    /\ UNCHANGED <<env, cache, local, ctxDone, faults>>

Cancel ==
    /\ ~ctxDone
    /\ ctxDone' = TRUE
    /\ UNCHANGED <<env, cache, pc, phase, local, faults, history>>

(* External: keys are rolled out, replaced and withdrawn; a file that is   *)
(* being written is malformed for a while.                                 *)
Change(n, f) ==
    /\ changes < MaxChanges
    /\ changes' = changes + 1
    /\ dir' = [dir EXCEPT ![n] = f]
    /\ seen' = seen \cup KeysIn(dir')
    /\ stable' = stable \ {n}
    /\ UNCHANGED <<cache, pc, phase, local, ctxDone, faults>>

WriteFile(n, c) == Change(n, [content |-> c, stamp |-> changes + 1])
RemoveFile(n) == n \in Present /\ Change(n, Missing)

Pass == ReadDir \/ Clone \/ Compare \/ Stat \/ ReadFile \/ Publish

Next ==
    \/ Pass \/ ReadDirFails \/ FileFails
    \/ Tick \/ ReturnError \/ Cancel
    \/ \E n \in Names : RemoveFile(n) \/ \E c \in Keys \cup {"malformed", "directory"} : WriteFile(n, c)

Spec == Init /\ [][Next]_vars

(* Calls on the file system return and the ticker goes on ticking. *)
FairSpec == Spec /\ WF_vars(Pass \/ ReturnError) /\ WF_vars(Tick)

-----------------------------------------------------------------------------
(* Properties *)

PassEnds == pc \notin {"idle", "returned"} /\ pc' = "idle"

(* "delete from currentKeys those files that are left in deletes": a key   *)
(* that was withdrawn before a refresh began, and not put back, does not   *)
(* verify tokens after it, whatever changed while it ran and whichever     *)
(* reads failed.                                                           *)
WithdrawnKeysAreForgotten == [][PassEnds => Accepted' \subseteq seen]_vars

(* A refresh never drops the key of a file that nobody touched and that    *)
(* could be read, although files around it come and go, the same key is in *)
(* two files, and the entry of a file is replaced in several steps.        *)
StableKeysAreAccepted ==
    [][PassEnds => {dir[n].content : n \in stable'} \cap Keys \subseteq Accepted']_vars

(* Once the directory rests the cache has exactly its keys for good.       *)
(* fileToKeyEntry may pair an old stamp with a new content, which the next *)
(* sync corrects.                                                          *)
CacheConverges == <>[](Accepted = KeysIn(dir) \/ ctxDone \/ pc = "failed")

(* MaintainCache returns after the cancellation of its context. *)
MaintainReturns == ctxDone ~> pc \in {"returned", "failed"}

(* A stamp belongs to one content of a file: an entry whose stamp is the    *)
(* one of its file now has the key of that file, although the stamp and     *)
(* the content were read at different times.                                *)
StampInv ==
    /\ info <= changes
    /\ \A n \in Names : dir[n].stamp <= changes
    /\ \A e \in cache \cup current :
         /\ e.stamp <= changes
         /\ dir[e.file] # Missing /\ dir[e.file].stamp = e.stamp => dir[e.file].content = e.key

(* A file has one entry. *)
OneEntryPerFile ==
    /\ \A e, f \in cache : e.file = f.file => e = f
    /\ \A e, f \in current : e.file = f.file => e = f

Looping == pc \in {"files", "load", "read"}

(* What the loop over the files has reached: an entry that will stay has a  *)
(* key that was seen, and currentKeys differs from the cache only if dirty  *)
(* says so.                                                                 *)
LoopInv ==
    /\ KeysIn(dir) \subseteq seen
    /\ pc \in {"load", "read"} => todo # {}
    /\ Looping /\ ~dirty => current = cache
    /\ Looping => \A e \in current : e.file \in deletes \/ e.key \in seen

(* The key of a file that nobody touched is still to be read, or in an      *)
(* entry that will stay.                                                    *)
Confirmed(n) == n \notin deletes /\ \E e \in current : e.file = n /\ e.key = dir[n].content
StableInv ==
    \A n \in stable : dir[n].content \in Keys =>
        /\ pc = "listed" => n \in todo
        /\ Looping => n \in todo \/ Confirmed(n)

(* What a refresh keeps true at every step, while the directory changes.    *)
KeyMapInv ==
    /\ TypeOK
    /\ StampInv
    /\ OneEntryPerFile
    /\ LoopInv
    /\ StableInv
=============================================================================
