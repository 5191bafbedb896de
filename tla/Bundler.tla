------------------------------ MODULE Bundler ------------------------------
(***************************************************************************)
(* The bundle directory of one wallet: BundleManager::download and         *)
(* ::remove (bundler/src/lib.rs), with the download, the extraction and    *)
(* the manifest they write (download.rs, storage.rs), and the look that    *)
(* the daemon's start takes at the directory (daemon/spawn.rs).            *)
(*                                                                         *)
(* One call is in progress at a time; each of its steps may fail, and the  *)
(* process may end between any two.  The release asked for may ship a      *)
(* manifest of its own inside its archive (scripts/build/bitbox02.sh).     *)
(***************************************************************************)
EXTENDS Naturals, Sequences

CONSTANTS
  Versions,     \* the releases that may be installed
  Files,        \* the files of their archives, the manifest aside
  Contents,     \* Contents[v]: the files of release v
  Shipping,     \* the releases whose archive has a manifest.json
  Candidates,   \* the names find_emulator_binary looks for, best first
  Chunks,       \* the pieces in which an archive arrives
  None, Torn    \* a file that is absent, a file cut short

ASSUME BundlerAssumption ==
  /\ Contents \in [Versions -> SUBSET Files]
  /\ Shipping \in SUBSET Versions
  /\ Candidates \in Seq(Files)
  /\ Chunks \in Nat
  /\ None \notin Versions /\ Torn \notin Versions /\ None # Torn
  /\ None \notin Files /\ "manifest.json" \notin Files

VARIABLES
  file,      \* the release each file is from
  manifest,  \* manifest.json: who wrote it, for which release, naming which binary
  archive,   \* the archive under its own name
  tmp,       \* whether the file it is received into exists
  step,      \* where the call in progress is
  target,    \* the release it installs
  received,  \* the pieces that arrived
  sized,     \* whether the server announced a length
  left,      \* the files still in the archive, and whether the manifest is
  writing,   \* the file being written
  binary,    \* what find_emulator_binary found
  progress,  \* the last value of the watch channel
  result,    \* what the last call returned
  touched    \* history: a call began to change what the last manifest describes

diskVars == <<file, manifest, archive, tmp, touched>>
localVars == <<target, received, sized, left, writing, binary>>
bundlerVars == <<diskVars, localVars, step, progress, result>>

Manifests == [by : {"archive", "installer"}, version : Versions, binary : Files \cup {None}]
\* A manifest is neither an absent file nor a torn one.
ASSUME ManifestAssumption == None \notin Manifests /\ Torn \notin Manifests

Progress  == [kind : {"none", "failed"}] \cup [kind : {"downloading"}, part : 0..Chunks]
             \cup [kind : {"installed"}, version : Versions]
Members == Files \cup {"manifest.json"}

BundlerInit ==
  /\ file = [f \in Files |-> None] /\ manifest = None
  /\ archive = None /\ tmp = FALSE
  /\ step = "idle" /\ target = None /\ received = 0 /\ sized = FALSE
  /\ left = {} /\ writing = None /\ binary = None
  /\ progress = [kind |-> "none"] /\ result = "none"
  /\ touched = FALSE
-----------------------------------------------------------------------------
(***************************************************************************)
(* What is read of the directory.                                          *)
(***************************************************************************)

\* read_manifest gives nothing for a manifest that is absent or cut short.
Readable(m) == m \notin {None, Torn}

\* BundleManager::status, the release that is installed or None.
Status == IF Readable(manifest) THEN manifest.version ELSE None

\* start_bitbox02 runs the binary the manifest names, if there is such a file.
StartFinds == Readable(manifest) /\ manifest.binary # None /\ file[manifest.binary] # None

\* Any known name will do.
FoundUnranked(disk) ==
  LET present == {i \in DOMAIN Candidates : disk[Candidates[i]] # None}
  IN IF present # {} THEN {Candidates[i] : i \in present}
     ELSE {f \in Files : disk[f] # None} \cup {None}

\* find_emulator_binary: the best known name present in the directory, else
\* any executable, else the wallet's name, which is no file.  That a file is
\* there is all it asks.
Found(disk) ==
  LET present == {i \in DOMAIN Candidates : disk[Candidates[i]] # None}
  IN IF present # {}
     THEN {Candidates[i] : i \in {i \in present : \A j \in present : i <= j}}
     ELSE {f \in Files : disk[f] # None} \cup {None}
-----------------------------------------------------------------------------
(***************************************************************************)
(* download: the archive arrives.                                          *)
(***************************************************************************)

\* The end of a call, with what the caller watches and what it is told.
Return(told, res) == step' = "idle" /\ progress' = told /\ result' = res
Failed == [kind |-> "failed"]

\* A caller comes with a new watch channel.
Begin(v) ==
  /\ step = "idle"
  /\ step' = "requesting" /\ target' = v
  /\ progress' = [kind |-> "none"] /\ result' = "none"
  /\ received' = 0 /\ left' = {} /\ writing' = None /\ binary' = None
  /\ UNCHANGED <<diskVars, sized>>

\* create_dir_all fails: the call returns at once and tells the watcher nothing.
NoDirectory ==
  /\ step = "idle"
  /\ Return([kind |-> "none"], "nodir")
  /\ UNCHANGED <<diskVars, localVars>>

\* The server answers with an archive, and a length or not.
Respond ==
  /\ step = "requesting"
  /\ step' = "fetching" /\ tmp' = TRUE /\ sized' \in BOOLEAN
  /\ UNCHANGED <<file, manifest, archive, touched, target, received, left, writing, binary,
                 progress, result>>

\* A percentage that counts the piece to come.
PercentageAhead == IF sized THEN received + 2 ELSE 0

\* The percentage, in pieces; without a length it stays at zero.
Percentage == IF sized THEN received + 1 ELSE 0

ReceiveChunk ==
  /\ step = "fetching" /\ received < Chunks
  /\ received' = received + 1
  /\ progress' = [kind |-> "downloading", part |-> Percentage]
  /\ UNCHANGED <<diskVars, step, target, sized, left, writing, binary, result>>

\* The stream ends and the file gets its name.  With a length announced the
\* end of the stream is the end of the archive; without one a connection cut
\* short looks the same, and nothing verifies what arrived.
FetchDone ==
  /\ step = "fetching" /\ (received = Chunks \/ ~sized)
  /\ tmp' = FALSE
  /\ archive' = IF received = Chunks THEN target ELSE Torn
  /\ progress' = [kind |-> "downloading", part |-> Chunks]
  /\ step' = "extracting"
  /\ left' = Contents[target] \cup (IF target \in Shipping THEN {"manifest.json"} ELSE {})
  /\ UNCHANGED <<file, manifest, touched, target, received, sized, writing, binary, result>>

\* The download fails and its caller forgets to clean up.
FetchFailsKeeps ==
  /\ step \in {"requesting", "fetching"}
  /\ Return(Failed, "unfetched")
  /\ UNCHANGED <<diskVars, localVars>>

\* An HTTP status, a broken stream, a full disk.  What goes is the file of the
\* archive's own name, which only an earlier call can have left; what stays is
\* the file that the archive was being received into.
FetchFails ==
  /\ step \in {"requesting", "fetching"}
  /\ archive' = None
  /\ Return(Failed, "unfetched")
  /\ UNCHANGED <<file, manifest, tmp, touched, localVars>>
-----------------------------------------------------------------------------
(***************************************************************************)
(* download: extract_tarball writes into the live directory, file by file  *)
(* in the order of the archive.                                            *)
(***************************************************************************)

OpenEntry(f) ==
  /\ step = "extracting" /\ writing = None /\ f \in left
  /\ writing' = f
  /\ IF f = "manifest.json" THEN manifest' = Torn /\ UNCHANGED file
     ELSE file' = [file EXCEPT ![f] = Torn] /\ UNCHANGED manifest
  /\ touched' = TRUE
  /\ UNCHANGED <<archive, tmp, step, target, received, sized, left, binary, progress, result>>

\* A manifest that was shipped names a binary of its release.
CloseEntry ==
  /\ step = "extracting" /\ writing # None
  /\ IF writing = "manifest.json"
     THEN /\ \E b \in Contents[target] :
               manifest' = [by |-> "archive", version |-> target, binary |-> b]
          /\ UNCHANGED file
     ELSE file' = [file EXCEPT ![writing] = target] /\ UNCHANGED manifest
  /\ left' = left \ {writing} /\ writing' = None
  /\ UNCHANGED <<archive, tmp, touched, step, target, received, sized, binary, progress, result>>

\* An entry cannot be read or written.  What was extracted stays.
ExtractFails ==
  /\ step = "extracting"
  /\ archive' = None
  /\ Return(Failed, "unextracted")
  /\ UNCHANGED <<file, manifest, tmp, touched, localVars>>

\* An entry that cannot be read ends the extraction without an error.
ExtractDoneEarly ==
  /\ step = "extracting" /\ writing = None
  /\ archive' = None
  /\ binary' \in Found(file)
  /\ step' = "recording"
  /\ UNCHANGED <<file, manifest, tmp, touched, target, received, sized, left, writing, progress,
                 result>>

\* An archive cut short never comes to its end without an error.
ExtractDone ==
  /\ step = "extracting" /\ left = {} /\ archive = target
  /\ archive' = None
  /\ binary' \in Found(file)
  /\ step' = "recording"
  /\ UNCHANGED <<file, manifest, tmp, touched, target, received, sized, left, writing, progress,
                 result>>

\* The manifest is written to a file of its own and renamed: atomic.
WriteManifest ==
  /\ step = "recording"
  /\ manifest' = [by |-> "installer", version |-> target, binary |-> binary]
  /\ touched' = FALSE
  /\ Return([kind |-> "installed", version |-> target], "installed")
  /\ UNCHANGED <<file, archive, tmp, localVars>>

WriteManifestFails ==
  /\ step = "recording"
  /\ Return(Failed, "unrecorded")
  /\ UNCHANGED <<diskVars, localVars>>
-----------------------------------------------------------------------------
(***************************************************************************)
(* remove, and the end of the process.                                     *)
(***************************************************************************)

BeginRemove ==
  /\ step = "idle"
  /\ step' = "removing" /\ result' = "none" /\ progress' = [kind |-> "none"]
  /\ UNCHANGED <<diskVars, localVars>>

\* remove_dir_all takes the entries in the order of the directory, any order.
RemoveEntry ==
  /\ step = "removing"
  /\ \/ /\ \E f \in Files : file[f] # None /\ file' = [file EXCEPT ![f] = None]
        /\ UNCHANGED <<manifest, archive, tmp>>
     \/ manifest # None /\ manifest' = None /\ UNCHANGED <<file, archive, tmp>>
     \/ archive # None /\ archive' = None /\ UNCHANGED <<file, manifest, tmp>>
     \/ tmp /\ tmp' = FALSE /\ UNCHANGED <<file, manifest, archive>>
  /\ touched' = TRUE
  /\ UNCHANGED <<step, localVars, progress, result>>

Empty == (\A f \in Files : file[f] = None) /\ manifest = None /\ archive = None /\ ~tmp

RemoveDone ==
  /\ step = "removing" /\ Empty
  /\ Return(progress, "removed")
  /\ UNCHANGED <<diskVars, localVars>>

RemoveFails ==
  /\ step = "removing"
  /\ Return(progress, "unremoved")
  /\ UNCHANGED <<diskVars, localVars>>

\* The process ends; the directory stays as it is.
Crash ==
  /\ step # "idle"
  /\ Return([kind |-> "none"], "crashed")
  /\ UNCHANGED <<diskVars, localVars>>
-----------------------------------------------------------------------------
BundlerNext ==
  \/ \E v \in Versions : Begin(v)
  \/ NoDirectory \/ Respond \/ ReceiveChunk \/ FetchDone \/ FetchFails
  \/ \E f \in Members : OpenEntry(f)
  \/ CloseEntry \/ ExtractFails \/ ExtractDone
  \/ WriteManifest \/ WriteManifestFails
  \/ BeginRemove \/ RemoveEntry \/ RemoveDone \/ RemoveFails
  \/ Crash

BundlerSpec == BundlerInit /\ [][BundlerNext]_bundlerVars
-----------------------------------------------------------------------------
(***************************************************************************)
(* Properties.                                                             *)
(***************************************************************************)

\* Every variable stays within its type: the percentage stays below the whole.
BundlerTypeOK ==
  /\ file \in [Files -> Versions \cup {None, Torn}]
  /\ manifest \in Manifests \cup {None, Torn}
  /\ archive \in Versions \cup {None, Torn} /\ tmp \in BOOLEAN
  /\ step \in {"idle", "requesting", "fetching", "extracting", "recording", "removing"}
  /\ target \in Versions \cup {None}
  /\ received \in 0..Chunks /\ sized \in BOOLEAN
  /\ left \in SUBSET Members /\ writing \in Members \cup {None}
  /\ binary \in Files \cup {None}
  /\ progress \in Progress
  /\ result \in {"none", "nodir", "installed", "unfetched", "unextracted",
                "unrecorded", "removed", "unremoved", "crashed"}
  /\ touched \in BOOLEAN

Whole(v) == \A f \in Contents[v] : file[f] = v

\* The installer wrote the manifest and no call has since begun to unpack or
\* to remove anything.
Recorded == Readable(manifest) /\ manifest.by = "installer" /\ ~touched

\* "The manifest is written atomically after a successful extraction and serves
\* as the source of truth" (manifest.rs): across failed downloads, crashes and
\* leftovers of other releases, what it records is on disk, whole.
RecordMeansWhole == Recorded => Whole(manifest.version)

\* Some known name of the release is outranked by no leftover.
Unshadowed(v) ==
  \E i \in DOMAIN Candidates :
    /\ Candidates[i] \in Contents[v]
    /\ \A j \in 1..(i - 1) : Candidates[j] \in Contents[v] \/ file[Candidates[j]] = None

\* The binary that a start runs is the recorded release's own, unless another
\* release left a file behind under a better name: find_emulator_binary looks
\* for names, and the directory is never cleared.
BinaryOfRelease ==
  Recorded /\ Unshadowed(manifest.version)
  => StartFinds /\ file[manifest.binary] = manifest.version

\* What a call that returned has told and has left on disk.  Success means whole
\* and recorded, with nothing of the download left over, whatever earlier calls
\* had left.  A failure is told to the watcher as it is to the caller, except
\* that of making the directory, of which the watcher hears nothing; it leaves
\* no archive under its own name, and nothing at all of the download once this
\* was complete; but the part that arrived before a download failed stays, under
\* the name it was received with.  After a removal nothing is left.
ReturnLeaves ==
  step = "idle" =>
    /\ result = "installed" => /\ Status = target /\ Whole(target)
                              /\ archive = None /\ ~tmp
                              /\ progress = [kind |-> "installed", version |-> target]
    /\ result \in {"unfetched", "unextracted", "unrecorded"}
       => archive = None /\ progress = Failed
    /\ result \in {"unextracted", "unrecorded"} => ~tmp
    /\ result = "unfetched" /\ received > 0 => tmp
    /\ result = "removed" => Status = None /\ archive = None /\ ~tmp
    /\ result \in {"none", "removed", "unremoved", "nodir"} => progress.kind = "none"
=============================================================================
