----------------------------- MODULE FileStore -----------------------------
(***************************************************************************)
(* The file store of mydht-filestore (filestore.rs, filekv.rs) over a      *)
(* SimpleCache (mydht-base/src/simplecache.rs), with the files both are    *)
(* saved in.  The program may stop at any step, by a failing unwrap as     *)
(* well, and start again.                                                  *)
(*                                                                         *)
(* A content is its hash, the key of a FileKV.  A path is the name of a    *)
(* file of the repository directory.  The two steps of add_val that a stop *)
(* can separate, and the four of commit_store, are actions of their own,   *)
(* and no other call starts in between.                                    *)
(***************************************************************************)
EXTENDS Naturals, Sequences, FiniteSets, Functions

CONSTANTS
  FPath,     \* names in the repository
  FContent,  \* contents of files
  FTorn,     \* what a file that was emptied holds
  FConfs     \* configurations considered, see fconf

VARIABLES
  fconf,    \* values: the FileKVs to add, each with its content, key, name, and
            \* tmp: its file is in the temporary directory (received), otherwise
            \* at the path name; persi: the SimpleCache has a file; fillref;
            \* ops: bound on the calls
  ffile,    \* the files of the repository
  fdata,    \* SimpleCache::cache: the path of each key
  fpaths,   \* FileStore::paths
  fdiskd,   \* file of the SimpleCache
  fdiskp,   \* pstore, file of the paths
  fpc,      \* "idle", in "add_val" or at a step of "commit_store", "stopped", "panicked"
  fcur,     \* the FileKV being added
  fops,     \* number of calls
  fhalf,    \* history: paths and data on disk stopped being of the same commit
  fleft     \* history: files that remove_file failed to remove since the start

fvars == <<fconf, ffile, fdata, fpaths, fdiskd, fdiskp, fpc, fcur, fops, fhalf, fleft>>

Empty == [p \in {} |-> FTorn]
Set(f, k, v) == [x \in DOMAIN f \cup {k} |-> IF x = k THEN v ELSE f[x]]

FInit ==
  /\ fconf \in FConfs
  /\ ffile = Empty /\ fdata = Empty /\ fpaths = {}
  /\ fdiskd = Empty /\ fdiskp = {}
  /\ fpc = "idle" /\ fcur = FTorn /\ fops = 0 /\ fhalf = FALSE /\ fleft = {}

-----------------------------------------------------------------------------
(* FileKV::from_path: the key is the hash of what the file holds. *)
from_path(p) == ffile[p]

FCall == fpc = "idle" /\ fops < fconf.ops /\ fops' = fops + 1 /\ UNCHANGED fconf

(* remove_file, whose failure is only logged. *)
remove_file(p) ==
  \/ ffile' = Restrict(ffile, DOMAIN ffile \ {p}) /\ fleft' = fleft \ {p}
  \/ UNCHANGED ffile /\ fleft' = fleft \cup {p}

(* add_val of a FileKV whose file was received in the temporary directory:   *)
(* a link, or a copy over a file of that name; when that fails, or the call  *)
(* is not for the local store, nothing is added.  The temporary file is      *)
(* removed.                                                                  *)
MoveFile(v) ==
  /\ v.tmp /\ FCall
  /\ \/ ffile' = Set(ffile, v.name, v.content) /\ fpc' = "add_val" /\ fcur' = v
     \/ UNCHANGED <<ffile, fpc, fcur>>
  /\ UNCHANGED <<fdata, fpaths, fdiskd, fdiskp, fhalf, fleft>>

(* add_val of a FileKV of another directory: its key is not checked, and     *)
(* nothing is added when the call is not for the local store.                *)
UpdateRefs(v) ==
  /\ ~v.tmp /\ FCall
  /\ \/ fdata' = Set(fdata, v.key, v.name) /\ fpaths' = fpaths \cup {v.name}
     \/ UNCHANGED <<fdata, fpaths>>
  /\ UNCHANGED <<ffile, fdiskd, fdiskp, fpc, fcur, fhalf, fleft>>

(* Mutant: a file whose hash is not the key received is kept. *)
add_val_unchecked ==
  /\ fpc = "add_val"
  /\ fdata' = Set(fdata, fcur.key, fcur.name) /\ fpaths' = fpaths \cup {fcur.name} /\ UNCHANGED ffile
  /\ fpc' = "idle" /\ fcur' = FTorn
  /\ UNCHANGED <<fconf, fdiskd, fdiskp, fops, fhalf, fleft>>

(* The rest of add_val: the hash of the file must be the key received. *)
add_val ==
  /\ fpc = "add_val"
  /\ IF from_path(fcur.name) = fcur.key
     THEN /\ fdata' = Set(fdata, fcur.key, fcur.name) /\ fpaths' = fpaths \cup {fcur.name}
          /\ fleft' = fleft \ {fcur.name} /\ UNCHANGED ffile
     ELSE remove_file(fcur.name) /\ UNCHANGED <<fdata, fpaths>>
  /\ fpc' = "idle" /\ fcur' = FTorn
  /\ UNCHANGED <<fconf, fdiskd, fdiskp, fops, fhalf>>

remove_val(k) ==
  /\ FCall
  /\ IF k \in DOMAIN fdata
     THEN /\ remove_file(fdata[k])
          /\ fpaths' = fpaths \ {fdata[k]}
          /\ fdata' = Restrict(fdata, DOMAIN fdata \ {k})
     ELSE UNCHANGED <<ffile, fpaths, fdata, fleft>>
  /\ UNCHANGED <<fdiskd, fdiskp, fpc, fcur, fhalf>>

(* Mutant: the data is not committed with the paths. *)
commit_store_paths_only ==
  \/ /\ FCall
     /\ fdiskp' = FTorn /\ fpc' = "write paths"
  \/ /\ fpc = "write paths"
     /\ fdiskp' = fpaths /\ fpc' = "idle"
     /\ UNCHANGED <<fconf, fops>>

(* commit_store: the paths and then the SimpleCache, each file emptied and   *)
(* then written.  The SimpleCache is saved whether the paths were written,   *)
(* could not be written to the emptied file, or were kept because the copy   *)
(* or the file failed before.                                                *)
ThenData(step) == IF fconf.persi THEN step ELSE "idle"
commit_store ==
  \/ /\ FCall
     /\ \/ fdiskp' = FTorn /\ fpc' = "write paths"
        \/ fdiskp' = fdiskp /\ fpc' = ThenData("commit only data")
  \/ /\ fpc = "write paths"
     /\ fdiskp' \in {fpaths, FTorn} /\ fpc' = ThenData("commit data")
     /\ UNCHANGED <<fconf, fops>>

(* SimpleCache::commit_store_new, with the failures that try! returns and a  *)
(* write that takes less than all.                                           *)
commit_store_new ==
  \/ /\ fpc \in {"commit data", "commit only data"}
     /\ \/ fdiskd' = FTorn /\ fpc' = "write data" /\ UNCHANGED fhalf
        \/ fpc' = "idle" /\ UNCHANGED fdiskd
           /\ fhalf' = (fhalf \/ (fpc = "commit data" /\ fdiskp /= FTorn))
  \/ /\ fpc = "write data"
     /\ fdiskd' \in {fdata, FTorn} /\ fpc' = "idle"
     /\ fhalf' = (fhalf \/ fdiskd' = FTorn \/ fdiskp \notin {fpaths, FTorn})

Commit ==
  /\ \/ commit_store /\ UNCHANGED <<fdiskd, fhalf>>
     \/ commit_store_new /\ UNCHANGED <<fconf, fops, fdiskp>>
  /\ UNCHANGED <<ffile, fdata, fpaths, fcur, fleft>>

Stop ==
  /\ fpc \notin {"stopped", "panicked"} /\ fops < fconf.ops
  /\ fpc' = "stopped" /\ fdata' = Empty /\ fpaths' = {} /\ fcur' = FTorn /\ fleft' = {}
  /\ fhalf' = (fhalf \/ fpc = "write data" \/ (fpc = "commit data" /\ fdiskp /= FTorn))
  /\ UNCHANGED <<fconf, ffile, fdiskd, fdiskp, fops>>

-----------------------------------------------------------------------------
(* SimpleCache::new: with no file it is empty, and it cannot read one that   *)
(* was emptied.                                                              *)
SimpleCache_new == IF fconf.persi THEN fdiskd ELSE Empty

(* FileStore::new: paths that do not decode are forgotten; with fillref each *)
(* file whose path is not known is added, in the order of the walk.          *)
FileStore_new ==
  /\ fpc = "stopped"
  /\ IF SimpleCache_new = FTorn THEN fpc' = "panicked" /\ UNCHANGED <<fdata, fpaths>>
     ELSE LET bpath == IF fdiskp = FTorn THEN {} ELSE fdiskp
              new == IF fconf.fillref THEN DOMAIN ffile \ bpath ELSE {}
              st == SimpleCache_new
              Keys == {from_path(p) : p \in new}
          IN /\ fpc' = "idle" /\ fpaths' = bpath \cup new
             /\ \E at \in [Keys -> new] :
                  /\ \A k \in Keys : from_path(at[k]) = k
                  /\ fdata' = [k \in DOMAIN st \cup Keys |-> IF k \in Keys THEN at[k] ELSE st[k]]
  /\ UNCHANGED <<fconf, ffile, fdiskd, fdiskp, fcur, fops, fhalf, fleft>>

FNext ==
  \/ \E v \in fconf.values : MoveFile(v) \/ UpdateRefs(v)
  \/ \E k \in FContent : remove_val(k)
  \/ add_val \/ Commit \/ Stop \/ FileStore_new

FSpec == FInit /\ [][FNext]_fvars

-----------------------------------------------------------------------------
FTypeOK ==
  /\ DOMAIN ffile \subseteq FPath /\ Range(ffile) \subseteq FContent
  /\ DOMAIN fdata \subseteq FContent /\ Range(fdata) \subseteq FPath
  /\ fpaths \subseteq FPath
  /\ fdiskp = FTorn \/ fdiskp \subseteq FPath
  /\ fdiskd = FTorn \/ DOMAIN fdiskd \subseteq FContent

(* Names tell contents apart: no file is copied over another one. *)
OneContent == \A v, w \in fconf.values : v.name = w.name => v.content = w.content

(* No content comes under two names, of which remove_val would forget one. *)
OneName == \A v, w \in fconf.values : v.content = w.content => v.name = w.name

(* What add_val takes without checking has the hash of its file. *)
Hashed == \A v \in fconf.values : ~v.tmp => v.key = v.content

(* A store that is stopped at any step starts again, and with fillref knows *)
(* every file of its directory, those included whose add_val was cut short: *)
(* no file is hidden from its key by what the saved paths say, except the   *)
(* files that remove_file could not remove, until the next start.  No key   *)
(* is ever at a path whose content has another hash.                        *)
(*                                                                          *)
(* This holds for files whose names tell their contents apart and, for the  *)
(* second part, that have one name each, as long as no call adds a key that *)
(* is not the hash of its file, and until a commit_store, by a failure or a *)
(* stop, saves one of its two files and not the other (fhalf).              *)
Recovers ==
  fconf.persi /\ OneContent /\ Hashed /\ ~fhalf =>
    /\ fpc /= "panicked"
    /\ OneName /\ fpc = "idle" /\ fconf.fillref =>
         \A p \in DOMAIN ffile \ fleft : ffile[p] \in DOMAIN fdata
    /\ \A k \in DOMAIN fdata : fdata[k] \in DOMAIN ffile => from_path(fdata[k]) = k
=============================================================================
