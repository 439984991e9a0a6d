--------------------------- MODULE FileStoreProofs --------------------------
(***************************************************************************)
(* Proofs about FileStore, for any number of names, contents and calls.    *)
(***************************************************************************)
EXTENDS FileStore, TLAPS

(* The FileKVs to add have a content, a key and a name; what is left of an *)
(* emptied file is neither a set of paths nor a cache.                     *)
FileStoreConstants ==
  /\ \A k \in FConfs : /\ k.values \subseteq [content : FContent, key : FContent, name : FPath, tmp : BOOLEAN]
                       /\ k.ops \in Nat
  /\ FTorn \notin SUBSET FPath
  /\ \A D \in SUBSET FContent : FTorn \notin [D -> FPath]

-----------------------------------------------------------------------------
(* The FileKVs V name a file p with the key k. *)
Names(V, p, k) == \E v \in V : v.name = p /\ v.content = k

(* A cache that maps contents to the paths that hold them. *)
Cache(V, d) ==
  /\ DOMAIN d \subseteq FContent /\ d \in [DOMAIN d -> FPath]
  /\ \A k \in DOMAIN d : Names(V, d[k], k)

(* Paths whose content the cache has. *)
Known(V, paths, d) == \A p \in paths : \E k \in DOMAIN d : Names(V, p, k)

(* The paths saved go with the cache saved; an emptied file says nothing.  *)
OnDisk == fdiskp = FTorn \/ Known(fconf.values, fdiskp, fdiskd)

(* What holds of a store that has a file for its cache, whose names tell   *)
(* contents apart and whose two saves are of the same commit: files and    *)
(* caches agree with the names, in memory and on disk, and only the step   *)
(* that writes the cache finds its file emptied.                           *)
Steps == {"idle", "add_val", "write paths", "commit data", "commit only data", "write data", "stopped"}

FFiles ==
  /\ fpc \in Steps
  /\ \A p \in DOMAIN ffile : Names(fconf.values, p, ffile[p])
  /\ Cache(fconf.values, fdata) /\ fpaths \subseteq FPath
  /\ fdiskp = FTorn \/ fdiskp \in SUBSET FPath
  /\ fpc = "write data" \/ (fdiskd # FTorn /\ Cache(fconf.values, fdiskd))
  /\ fpc = "add_val" => /\ fcur \in fconf.values
                        /\ fcur.name \in DOMAIN ffile /\ ffile[fcur.name] = fcur.content

(* And when a content has one name: the paths and the caches of the same   *)
(* save go together, and every file is known.                              *)
FKnown ==
  /\ Known(fconf.values, fpaths, fdata)
  /\ fpc \in {"commit data", "write data"} \/ OnDisk
  /\ fconf.fillref /\ fpc # "stopped" =>
       \A p \in DOMAIN ffile \ fleft : ffile[p] \in DOMAIN fdata \/ (fpc = "add_val" /\ p = fcur.name)

FRecover == FFiles /\ (OneName => FKnown)

Safe == fconf.persi /\ OneContent /\ Hashed /\ ~fhalf

FInv ==
  /\ fconf \in FConfs
  /\ Safe => FRecover

-----------------------------------------------------------------------------
FileKVs == [content : FContent, key : FContent, name : FPath, tmp : BOOLEAN]

(* Names that tell contents apart give a path one key. *)
LEMMA OneKey ==
  ASSUME OneContent, NEW p, NEW k, NEW l, Names(fconf.values, p, k), Names(fconf.values, p, l)
  PROVE  k = l
  BY DEF OneContent, Names

(* A content that has one name gives a key one path. *)
LEMMA OnePath ==
  ASSUME OneName, NEW p, NEW q, NEW k, Names(fconf.values, p, k), Names(fconf.values, q, k)
  PROVE  p = q
  BY DEF OneName, Names

LEMMA NamesType ==
  ASSUME FileStoreConstants, FInv, NEW p, NEW k, Names(fconf.values, p, k)
  PROVE  p \in FPath /\ k \in FContent
  <1>1. fconf.values \subseteq FileKVs
    BY DEF FInv, FileStoreConstants, FileKVs
  <1> QED BY <1>1 DEF Names, FileKVs

LEMMA RestrictFacts ==
  ASSUME NEW f, NEW S
  PROVE  DOMAIN Restrict(f, S) = S /\ \A x \in S : Restrict(f, S)[x] = f[x]
  BY DEF Restrict

(* One more key at its path. *)
LEMMA CacheSet ==
  ASSUME NEW V, NEW d, Cache(V, d), NEW k \in FContent, NEW p \in FPath, Names(V, p, k)
  PROVE  Cache(V, Set(d, k, p))
  BY DEF Cache, Set

(* One key less. *)
LEMMA CacheRestrict ==
  ASSUME NEW V, NEW d, Cache(V, d), NEW k
  PROVE  Cache(V, Restrict(d, DOMAIN d \ {k}))
  BY DEF Cache, Restrict

LEMMA CacheNotTorn ==
  ASSUME FileStoreConstants, NEW V, NEW d, Cache(V, d)
  PROVE  d # FTorn
  BY DEF FileStoreConstants, Cache

LEMMA CacheEmpty ==
  ASSUME NEW V
  PROVE  Cache(V, Empty) /\ DOMAIN Empty = {}
  BY DEF Cache, Empty

LEMMA FInitial == ASSUME FileStoreConstants, FInit PROVE FInv
  <1>1. fconf \in FConfs
    BY DEF FInit
  <1>2. /\ ffile = Empty /\ fdata = Empty /\ fpaths = {} /\ fdiskd = Empty /\ fdiskp = {}
        /\ fpc = "idle"
    BY DEF FInit
  <1>3. Empty # FTorn
    BY CacheEmpty, CacheNotTorn
  <1>4. FRecover
    BY <1>2, <1>3, CacheEmpty DEF FRecover, FFiles, FKnown, OnDisk, Steps, Known
  <1> QED BY <1>1, <1>4 DEF FInv

-----------------------------------------------------------------------------
LEMMA StepMoveFile ==
  ASSUME FileStoreConstants, FInv, FRecover, NEW v \in fconf.values, MoveFile(v)
  PROVE  FRecover'
  <1>1. fconf' = fconf /\ fpc = "idle" /\ UNCHANGED <<fdata, fpaths, fdiskd, fdiskp, fleft>>
    BY DEF MoveFile, FCall
  <1>2. CASE UNCHANGED <<ffile, fpc, fcur>>
    BY <1>1, <1>2 DEF FRecover, FFiles, FKnown, OnDisk, OneName
  <1>3. CASE ffile' = Set(ffile, v.name, v.content) /\ fpc' = "add_val" /\ fcur' = v
    <2>1. /\ DOMAIN ffile' = DOMAIN ffile \cup {v.name} /\ ffile'[v.name] = v.content
          /\ \A x \in DOMAIN ffile : x # v.name => ffile'[x] = ffile[x]
      BY <1>3 DEF Set
    <2>2. Names(fconf.values, v.name, v.content)
      BY DEF Names
    <2>3. \A p \in DOMAIN ffile' : Names(fconf.values, p, ffile'[p])
      BY <2>1, <2>2, Zenon DEF FRecover, FFiles
    <2>4. FFiles'
      BY <1>1, <1>3, <2>1, <2>3 DEF FRecover, FFiles, Steps
    <2>5. ASSUME OneName PROVE FKnown'
      <3>1. fconf.fillref => \A p \in DOMAIN ffile' \ fleft : ffile'[p] \in DOMAIN fdata \/ p = v.name
        BY <1>1, <2>1, <2>5 DEF FRecover, FKnown
      <3> QED BY <1>1, <1>3, <2>5, <3>1 DEF FRecover, FKnown, OnDisk
    <2> QED BY <1>1, <2>4, <2>5 DEF FRecover, OneName
  <1> QED BY <1>2, <1>3 DEF MoveFile

(* A key of the names and its path are added to the cache and the paths. *)
LEMMA Added ==
  ASSUME FileStoreConstants, FInv, FRecover, NEW p, NEW k, Names(fconf.values, p, k),
         fdata' = Set(fdata, k, p), fpaths' = fpaths \cup {p}
  PROVE  /\ DOMAIN fdata' = DOMAIN fdata \cup {k}
         /\ Cache(fconf.values, fdata') /\ fpaths' \subseteq FPath
         /\ OneName => Known(fconf.values, fpaths', fdata')
  <1>1. DOMAIN fdata' = DOMAIN fdata \cup {k}
    BY DEF Set
  <1>2. p \in FPath /\ k \in FContent
    BY NamesType
  <1>3. Cache(fconf.values, fdata')
    BY <1>2, CacheSet, Zenon DEF FRecover, FFiles
  <1>4. OneName => Known(fconf.values, fpaths', fdata')
    BY <1>1, Zenon DEF FRecover, FKnown, Known
  <1> QED BY <1>1, <1>2, <1>3, <1>4 DEF FRecover, FFiles

LEMMA StepUpdateRefs ==
  ASSUME FileStoreConstants, FInv, Safe, FRecover, NEW v \in fconf.values, UpdateRefs(v)
  PROVE  FRecover'
  <1>1. fconf' = fconf /\ fpc = "idle" /\ UNCHANGED <<ffile, fdiskd, fdiskp, fpc, fcur, fleft>>
    BY DEF UpdateRefs, FCall
  <1>2. CASE UNCHANGED <<fdata, fpaths>>
    BY <1>1, <1>2 DEF FRecover, FFiles, FKnown, OnDisk, OneName
  <1>3. CASE fdata' = Set(fdata, v.key, v.name) /\ fpaths' = fpaths \cup {v.name}
    <2>1. Names(fconf.values, v.name, v.key)
      BY DEF UpdateRefs, Safe, Hashed, Names
    <2>2. /\ DOMAIN fdata' = DOMAIN fdata \cup {v.key}
          /\ Cache(fconf.values, fdata') /\ fpaths' \subseteq FPath
          /\ OneName => Known(fconf.values, fpaths', fdata')
      BY <1>3, <2>1, Added, Zenon
    <2>3. FFiles'
      BY <1>1, <2>2 DEF FRecover, FFiles
    <2>4. OneName => FKnown'
      BY <1>1, <2>2 DEF FRecover, FKnown, OnDisk
    <2> QED BY <1>1, <2>3, <2>4 DEF FRecover, OneName
  <1> QED BY <1>2, <1>3 DEF UpdateRefs

LEMMA StepAddVal ==
  ASSUME FileStoreConstants, FInv, FRecover, add_val
  PROVE  FRecover'
  <1>1. /\ fconf' = fconf /\ fpc = "add_val" /\ fpc' = "idle" /\ UNCHANGED <<fdiskd, fdiskp>>
        /\ fcur \in fconf.values /\ fcur.name \in DOMAIN ffile /\ ffile[fcur.name] = fcur.content
    BY DEF add_val, FRecover, FFiles
  <1>2. Names(fconf.values, fcur.name, fcur.content)
    BY <1>1 DEF Names
  <1>3. CASE ffile[fcur.name] = fcur.key
    <2>1. /\ fdata' = Set(fdata, fcur.content, fcur.name) /\ fpaths' = fpaths \cup {fcur.name}
          /\ ffile' = ffile /\ fleft' = fleft \ {fcur.name}
      BY <1>1, <1>3 DEF add_val, from_path
    <2>2. /\ DOMAIN fdata' = DOMAIN fdata \cup {fcur.content}
          /\ Cache(fconf.values, fdata') /\ fpaths' \subseteq FPath
          /\ OneName => Known(fconf.values, fpaths', fdata')
      BY <1>2, <2>1, Added, Zenon
    <2>3. FFiles'
      BY <1>1, <2>1, <2>2 DEF FRecover, FFiles, Steps
    <2>4. ASSUME OneName PROVE FKnown'
      <3>1. fconf.fillref => \A p \in DOMAIN ffile \ fleft' : ffile[p] \in DOMAIN fdata'
        BY <1>1, <2>1, <2>2, <2>4 DEF FRecover, FKnown
      <3> QED BY <1>1, <2>1, <2>2, <2>4, <3>1 DEF FRecover, FKnown, OnDisk
    <2> QED BY <1>1, <2>3, <2>4 DEF FRecover, OneName
  <1>4. CASE ffile[fcur.name] # fcur.key
    <2>1. remove_file(fcur.name) /\ UNCHANGED <<fdata, fpaths>>
      BY <1>4 DEF add_val, from_path
    <2>2. /\ DOMAIN ffile' \subseteq DOMAIN ffile /\ \A p \in DOMAIN ffile' : ffile'[p] = ffile[p]
          /\ DOMAIN ffile' \ fleft' \subseteq (DOMAIN ffile \ fleft) \ {fcur.name}
      BY <2>1, RestrictFacts DEF remove_file
    <2>3. FFiles'
      BY <1>1, <2>1, <2>2 DEF FRecover, FFiles, Steps
    <2>4. OneName => FKnown'
      BY <1>1, <2>1, <2>2 DEF FRecover, FKnown, OnDisk
    <2> QED BY <1>1, <2>3, <2>4 DEF FRecover, OneName
  <1> QED BY <1>3, <1>4

LEMMA StepRemoveVal ==
  ASSUME FileStoreConstants, FInv, FRecover, NEW k \in FContent, remove_val(k)
  PROVE  FRecover'
  <1>1. fconf' = fconf /\ fpc = "idle" /\ UNCHANGED <<fdiskd, fdiskp, fpc, fcur>>
    BY DEF remove_val, FCall
  <1>2. CASE k \notin DOMAIN fdata
    BY <1>1, <1>2 DEF remove_val, FRecover, FFiles, FKnown, OnDisk, OneName
  <1>3. CASE k \in DOMAIN fdata
    <2>1. PICK p : p = fdata[k]
      OBVIOUS
    <2>2. /\ remove_file(p) /\ fpaths' = fpaths \ {p}
          /\ fdata' = Restrict(fdata, DOMAIN fdata \ {k})
      BY <1>3, <2>1 DEF remove_val
    <2>3. /\ DOMAIN ffile' \subseteq DOMAIN ffile /\ \A q \in DOMAIN ffile' : ffile'[q] = ffile[q]
          /\ DOMAIN ffile' \ fleft' \subseteq (DOMAIN ffile \ fleft) \ {p}
          /\ DOMAIN fdata' = DOMAIN fdata \ {k}
      BY <2>2, RestrictFacts DEF remove_file
    <2>4. Cache(fconf.values, fdata')
      BY <2>2, CacheRestrict, Zenon DEF FRecover, FFiles
    <2>5. FFiles'
      BY <1>1, <2>2, <2>3, <2>4 DEF FRecover, FFiles
    <2>6. ASSUME OneName PROVE FKnown'
      <3>1. Names(fconf.values, p, k)
        BY <1>3, <2>1, Zenon DEF FRecover, FFiles, Cache
      <3>2. \A q : Names(fconf.values, q, k) => q = p
        BY <2>6, <3>1, OnePath, Zenon
      <3>3. Known(fconf.values, fpaths', fdata')
        <4>1. \A q \in fpaths : \E l \in DOMAIN fdata : Names(fconf.values, q, l)
          BY <2>6, Zenon DEF FRecover, FKnown, Known
        <4>2. ASSUME NEW q \in fpaths' PROVE \E l \in DOMAIN fdata' : Names(fconf.values, q, l)
          BY <2>2, <2>3, <3>2, <4>1, <4>2, Zenon
        <4> QED
          BY <4>2, Zenon DEF Known
      <3>4. fconf.fillref => \A q \in DOMAIN ffile' \ fleft' : ffile'[q] \in DOMAIN fdata'
        BY <1>1, <2>3, <2>6, <3>2 DEF FRecover, FFiles, FKnown
      <3> QED BY <1>1, <2>6, <3>3, <3>4 DEF FRecover, FKnown, OnDisk
    <2> QED BY <1>1, <2>5, <2>6 DEF FRecover, OneName
  <1> QED BY <1>2, <1>3

LEMMA StepCommit ==
  ASSUME FileStoreConstants, FInv, Safe, FRecover, Commit, ~fhalf'
  PROVE  FRecover'
  <1>1. fconf' = fconf /\ UNCHANGED <<ffile, fdata, fpaths, fcur, fleft>>
    BY Zenon DEF Commit, commit_store, FCall
  <1>2. CASE fpc = "idle" /\ fdiskp' = FTorn /\ fpc' = "write paths" /\ fdiskd' = fdiskd
    BY <1>1, <1>2, Zenon DEF FRecover, FFiles, FKnown, OnDisk, OneName, Steps
  <1>3. CASE fpc = "idle" /\ fdiskp' = fdiskp /\ fpc' = "commit only data" /\ fdiskd' = fdiskd
    BY <1>1, <1>3, Zenon DEF FRecover, FFiles, FKnown, OnDisk, OneName, Steps
  <1>4. CASE fpc = "write paths" /\ fdiskp' \in {fpaths, FTorn} /\ fpc' = "commit data" /\ fdiskd' = fdiskd
    BY <1>1, <1>4, Zenon DEF FRecover, FFiles, FKnown, OneName, Steps
  <1>5. CASE fpc \in {"commit data", "commit only data"} /\ fdiskp' = fdiskp /\ fpc' = "write data"
    BY <1>1, <1>5, Zenon DEF FRecover, FFiles, FKnown, OneName, Steps
  <1>6. CASE /\ fpc \in {"commit data", "commit only data"} /\ fpc' = "idle" /\ UNCHANGED <<fdiskp, fdiskd>>
             /\ fpc = "commit data" => fdiskp = FTorn
    BY <1>1, <1>6, Zenon DEF FRecover, FFiles, FKnown, OnDisk, OneName, Steps
  <1>7. CASE /\ fpc = "write data" /\ fdiskd' = fdata /\ fpc' = "idle" /\ fdiskp' = fdiskp
             /\ fdiskp \in {fpaths, FTorn}
    <2>1. fdata # FTorn
      BY CacheNotTorn, Zenon DEF FRecover, FFiles
    <2> QED BY <1>1, <1>7, <2>1, Zenon DEF FRecover, FFiles, FKnown, OnDisk, OneName, Steps
  <1> QED BY <1>2, <1>3, <1>4, <1>5, <1>6, <1>7, Zenon
    DEF Commit, commit_store, commit_store_new, ThenData, FCall, Safe

LEMMA StepStop ==
  ASSUME FileStoreConstants, FInv, FRecover, Stop, ~fhalf'
  PROVE  FRecover'
  <1>1. /\ fconf' = fconf /\ fpc' = "stopped"
        /\ fdata' = Empty /\ fpaths' = {} /\ UNCHANGED <<ffile, fdiskd, fdiskp>>
        /\ fpc # "write data" /\ (fpc = "commit data" => fdiskp = FTorn)
    BY DEF Stop
  <1>2. Cache(fconf.values, fdata') /\ Known(fconf.values, fpaths', fdata')
    BY <1>1, CacheEmpty DEF Known
  <1> QED BY <1>1, <1>2, Zenon DEF FRecover, FFiles, FKnown, OnDisk, OneName, Steps

LEMMA StepNew ==
  ASSUME FileStoreConstants, FInv, Safe, FRecover, FileStore_new
  PROVE  FRecover'
  <1>1. /\ fpc = "stopped" /\ fconf' = fconf /\ UNCHANGED <<ffile, fdiskd, fdiskp, fleft>>
        /\ SimpleCache_new = fdiskd
    BY DEF FileStore_new, SimpleCache_new, Safe
  <1> DEFINE bpath == IF fdiskp = FTorn THEN {} ELSE fdiskp
             st == SimpleCache_new
             new == IF fconf.fillref THEN DOMAIN ffile \ bpath ELSE {}
             Keys == {from_path(p) : p \in new}
  <1>2. /\ bpath \subseteq FPath /\ fdiskd # FTorn /\ Cache(fconf.values, fdiskd)
        /\ OneName => Known(fconf.values, bpath, fdiskd)
    BY <1>1 DEF FRecover, FFiles, FKnown, OnDisk, Known
  <1>3. st = fdiskd /\ st # FTorn
    BY <1>1, <1>2
  <1>4. /\ fpc' = "idle" /\ fpaths' = bpath \cup new
        /\ \E at \in [Keys -> new] :
             /\ \A k \in Keys : from_path(at[k]) = k
             /\ fdata' = [k \in DOMAIN fdiskd \cup Keys |-> IF k \in Keys THEN at[k] ELSE fdiskd[k]]
    <2>1. /\ fpc' = "idle" /\ fpaths' = bpath \cup new
          /\ \E at \in [Keys -> new] :
               /\ \A k \in Keys : from_path(at[k]) = k
               /\ fdata' = [k \in DOMAIN st \cup Keys |-> IF k \in Keys THEN at[k] ELSE st[k]]
      BY <1>3, Zenon DEF FileStore_new
    <2> HIDE DEF bpath, st, new, Keys
    <2> QED
      BY <1>3, <2>1
  <1>5. PICK at \in [Keys -> new] :
          /\ \A k \in Keys : from_path(at[k]) = k
          /\ fdata' = [k \in DOMAIN fdiskd \cup Keys |-> IF k \in Keys THEN at[k] ELSE fdiskd[k]]
    BY <1>4
  <1>6. /\ new \subseteq DOMAIN ffile /\ \A p \in new : ffile[p] \in Keys
        /\ fconf.fillref => DOMAIN ffile \subseteq bpath \cup new
    BY <1>3 DEF from_path
  <1>7. ASSUME NEW k \in Keys PROVE at[k] \in FPath /\ k \in FContent /\ Names(fconf.values, at[k], k)
    <2>1. at[k] \in new /\ ffile[at[k]] = k
      BY <1>5 DEF from_path
    <2>2. Names(fconf.values, at[k], k)
      BY <2>1, <1>6, Zenon DEF FRecover, FFiles
    <2> QED BY <2>2, NamesType
  <1> HIDE DEF bpath, new, Keys
  <1>8. /\ DOMAIN fdata' = DOMAIN fdiskd \cup Keys
        /\ \A k \in Keys : fdata'[k] = at[k]
        /\ \A k \in DOMAIN fdiskd \ Keys : fdata'[k] = fdiskd[k]
        /\ fdata' = [k \in DOMAIN fdata' |-> fdata'[k]]
    BY <1>5
  <1>9. Cache(fconf.values, fdata')
    BY <1>2, <1>7, <1>8 DEF Cache
  <1>10. \A p \in new : p \in FPath /\ Names(fconf.values, p, ffile[p])
    BY <1>6, NamesType, Zenon DEF FRecover, FFiles
  <1>11. FFiles'
    BY <1>1, <1>2, <1>4, <1>9, <1>10 DEF FRecover, FFiles, Steps
  <1>12. ASSUME OneName PROVE FKnown'
    <2>1. Known(fconf.values, fpaths', fdata')
      BY <1>2, <1>4, <1>6, <1>8, <1>10, <1>12 DEF Known
    <2>2. ASSUME fconf.fillref, NEW p \in DOMAIN ffile PROVE ffile[p] \in DOMAIN fdata'
      <3>1. CASE p \in new
        BY <3>1, <1>6, <1>8
      <3>2. CASE p \in bpath
        <4>1. PICK k \in DOMAIN fdiskd : Names(fconf.values, p, k)
          BY <3>2, <1>2, <1>12 DEF Known
        <4>2. ffile[p] = k
          BY <4>1, OneKey, Zenon DEF FRecover, FFiles, Safe
        <4> QED BY <4>1, <4>2, <1>8
      <3> QED BY <3>1, <3>2, <1>6, <2>2
    <2> QED BY <1>1, <1>4, <1>12, <2>1, <2>2 DEF FRecover, FKnown, OnDisk
  <1> QED BY <1>1, <1>11, <1>12 DEF FRecover, OneName

LEMMA FStep == ASSUME FileStoreConstants, FInv, [FNext]_fvars PROVE FInv'
  <1>1. fconf' = fconf
    BY Zenon DEF FNext, fvars, MoveFile, UpdateRefs, remove_val, add_val, Commit, commit_store, Stop,
                 FileStore_new, FCall
  <1>2. fhalf => fhalf'
    BY Zenon DEF FNext, fvars, MoveFile, UpdateRefs, remove_val, add_val, Commit, commit_store_new, Stop,
                 FileStore_new
  <1>3. ASSUME Safe, ~fhalf' PROVE FRecover'
    <2>1. FRecover
      BY <1>3 DEF FInv
    <2>2. CASE FNext
      BY <1>3, <2>1, <2>2, StepMoveFile, StepUpdateRefs, StepRemoveVal, StepAddVal, StepCommit, StepStop,
         StepNew
      DEF FNext
    <2>3. CASE UNCHANGED fvars
      BY <2>1, <2>3, Zenon DEF fvars, FRecover, FFiles, FKnown, OnDisk, OneName
    <2> QED BY <2>2, <2>3
  <1>4. Safe' => Safe /\ ~fhalf'
    BY <1>1, <1>2 DEF Safe, OneContent, Hashed
  <1> QED BY <1>1, <1>3, <1>4 DEF FInv

(* Whatever files are added, removed and saved, wherever the program stops *)
(* and whichever of its operations on files fail, a FileStore that has a   *)
(* file for its cache starts again, with fillref knows every file of its   *)
(* directory but those it could not remove, and never has a key at a path  *)
(* whose content has another hash.  As Recovers says, this is for names    *)
(* that tell contents apart (and one name per content, for the files       *)
(* known) and unchecked keys that are hashes, and until a commit_store     *)
(* saves one of its two files without the other.                           *)
THEOREM FileStoreRecovers == ASSUME FileStoreConstants PROVE FSpec => []Recovers
  <1>1. FInv => Recovers
    <2> SUFFICES ASSUME FInv, Safe PROVE /\ fpc # "panicked"
                                         /\ OneName /\ fpc = "idle" /\ fconf.fillref =>
                                              \A p \in DOMAIN ffile \ fleft : ffile[p] \in DOMAIN fdata
                                         /\ \A k \in DOMAIN fdata :
                                              fdata[k] \in DOMAIN ffile => from_path(fdata[k]) = k
      BY DEF Recovers, Safe
    <2>1. FRecover
      BY DEF FInv
    <2>2. ASSUME NEW k \in DOMAIN fdata, fdata[k] \in DOMAIN ffile PROVE ffile[fdata[k]] = k
      <3>1. Names(fconf.values, fdata[k], k) /\ Names(fconf.values, fdata[k], ffile[fdata[k]])
        BY <2>1, <2>2, Zenon DEF FRecover, FFiles, Cache
      <3> QED BY <3>1, OneKey DEF Safe
    <2> QED BY <2>1, <2>2, Zenon DEF FRecover, FFiles, FKnown, Steps, from_path
  <1> QED BY <1>1, FInitial, FStep, PTL DEF FSpec
=============================================================================
