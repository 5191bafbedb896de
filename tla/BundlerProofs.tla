--------------------------- MODULE BundlerProofs ---------------------------
(***************************************************************************)
(* What the manifest of the installer records is whole, the binary it      *)
(* names is its release's own, and a call that returns leaves what it says *)
(* behind it, for any releases and any files.                              *)
(***************************************************************************)
EXTENDS Bundler, TLAPS

Installing == step \in {"requesting", "fetching", "extracting", "recording"}

\* What a call has done by the time it gets somewhere: an installation knows
\* its release, opens no entry before the archive is there, and has changed the
\* directory if an entry is open; what arrives is in the file it is received
\* into; what has left the archive is on disk; what it
\* no longer needs is gone; and who removes has told nobody of a download.
ProgressOK ==
  /\ Installing => target \in Versions
  /\ step \in {"requesting", "fetching"} => writing = None
  /\ step = "requesting" => received = 0
  /\ step = "fetching" => tmp
  /\ step = "extracting" =>
       /\ writing # None => touched
       /\ \A f \in Contents[target] : f \notin left => file[f] = target
  /\ step = "recording" => Whole(target) /\ binary \in Found(file)
  /\ step \in {"extracting", "recording"} => ~tmp
  /\ step = "recording" => archive = None
  /\ step = "removing" => progress = [kind |-> "none"]

BInv == BundlerTypeOK /\ ProgressOK /\ RecordMeansWhole /\ BinaryOfRelease /\ ReturnLeaves

\* What is found is a file, or nothing.
LEMMA FoundFiles ==
  ASSUME NEW disk, NEW b \in Found(disk)
  PROVE  b \in Files \cup {None}
  BY BundlerAssumption DEF Found

\* The best name found is the release's own, unless a leftover outranks it.
LEMMA FoundIsOwn ==
  ASSUME NEW v \in Versions, Whole(v), Unshadowed(v), NEW b \in Found(file)
  PROVE  b \in Files /\ file[b] = v
<1> DEFINE present == {i \in DOMAIN Candidates : file[Candidates[i]] # None}
<1>1. PICK i \in DOMAIN Candidates :
         /\ Candidates[i] \in Contents[v]
         /\ \A j \in 1..(i - 1) : Candidates[j] \in Contents[v] \/ file[Candidates[j]] = None
  BY DEF Unshadowed
<1>2. i \in present
  BY <1>1, BundlerAssumption DEF Whole
<1>3. PICK k \in present : b = Candidates[k] /\ \A j \in present : k <= j
  BY <1>2 DEF Found
<1>4. k \in Nat /\ i \in Nat /\ 1 <= k /\ k <= i /\ Candidates[k] \in Files
  BY <1>2, <1>3, BundlerAssumption
<1>5. Candidates[k] \in Contents[v]
  BY <1>1, <1>3, <1>4
<1> QED
  BY <1>3, <1>4, <1>5 DEF Whole

\* What the watcher may be told.
LEMMA ProgressValues ==
  /\ [kind |-> "none"] \in Progress /\ Failed \in Progress
  /\ \A p \in 0..Chunks : [kind |-> "downloading", part |-> p] \in Progress
  /\ \A v \in Versions : [kind |-> "installed", version |-> v] \in Progress
  BY DEF Progress, Failed

\* What a manifest may say.
LEMMA ManifestValues ==
  \A w \in {"archive", "installer"}, v \in Versions, b \in Files \cup {None} :
    [by |-> w, version |-> v, binary |-> b] \in Manifests
  BY DEF Manifests

\* The initial states.
LEMMA BundlerInitInv == BundlerInit => BInv
<1> SUFFICES ASSUME BundlerInit PROVE BInv
  OBVIOUS
<1>1. BundlerTypeOK
  <2>1. file \in [Files -> Versions \cup {None, Torn}] /\ received \in 0..Chunks
    BY BundlerAssumption DEF BundlerInit
  <2> QED
    BY <2>1, ProgressValues DEF BundlerInit, BundlerTypeOK
<1>2. ProgressOK
  BY DEF BundlerInit, ProgressOK, Installing
<1>3. ~Recorded
  BY DEF BundlerInit, Recorded, Readable
<1>4. ReturnLeaves
  BY DEF BundlerInit, ReturnLeaves
<1> QED
  BY <1>1, <1>2, <1>3, <1>4 DEF BInv, RecordMeansWhole, BinaryOfRelease

\* Types, action by action.
LEMMA BundlerTypeStep == BundlerTypeOK /\ ProgressOK /\ [BundlerNext]_bundlerVars => BundlerTypeOK'
<1> USE DEF Return
<1> SUFFICES ASSUME BundlerTypeOK, ProgressOK, [BundlerNext]_bundlerVars PROVE BundlerTypeOK'
  OBVIOUS
<1>1. ASSUME NEW v \in Versions, Begin(v) PROVE BundlerTypeOK'
  <2>1. received' \in 0..Chunks /\ progress' \in Progress
    BY <1>1, BundlerAssumption, ProgressValues DEF Begin
  <2> QED
    BY <1>1, <2>1 DEF Begin, BundlerTypeOK, diskVars
<1>2. CASE NoDirectory
  BY <1>2, ProgressValues DEF NoDirectory, BundlerTypeOK, diskVars, localVars
<1>3. CASE Respond
  BY <1>3, ZenonT(60) DEF Respond, BundlerTypeOK
<1>4. CASE ReceiveChunk
  <2>1. received \in 0..Chunks /\ received < Chunks
    BY <1>4 DEF ReceiveChunk, BundlerTypeOK
  <2>2. Percentage \in 0..Chunks /\ received + 1 \in 0..Chunks
    BY <2>1, BundlerAssumption DEF Percentage
  <2>3. progress' \in Progress
    BY <1>4, <2>2, ProgressValues DEF ReceiveChunk
  <2> QED
    BY <1>4, <2>2, <2>3, ZenonT(60) DEF ReceiveChunk, BundlerTypeOK, diskVars
<1>5. CASE FetchDone
  <2>1. target \in Versions /\ Contents[target] \subseteq Files /\ Chunks \in 0..Chunks
    BY <1>5, BundlerAssumption DEF FetchDone, ProgressOK, Installing
  <2>2. progress' \in Progress
    BY <1>5, <2>1, ProgressValues DEF FetchDone
  <2>3. left' \in SUBSET Members
    BY <1>5, <2>1 DEF FetchDone, Members
  <2> QED
    BY <1>5, <2>1, <2>2, <2>3 DEF FetchDone, BundlerTypeOK
<1>6. CASE FetchFails
  BY <1>6, ProgressValues DEF FetchFails, BundlerTypeOK, localVars
<1>7. ASSUME NEW f \in Members, OpenEntry(f) PROVE BundlerTypeOK'
  BY <1>7, ZenonT(60) DEF OpenEntry, BundlerTypeOK, Members
<1>8. CASE CloseEntry
  <2>1. target \in Versions /\ Contents[target] \subseteq Files
    BY <1>8, BundlerAssumption DEF CloseEntry, ProgressOK, Installing
  <2>2. manifest' \in Manifests \cup {None, Torn}
    <3>1. CASE manifest' = manifest
      BY <3>1 DEF BundlerTypeOK
    <3>2. ASSUME NEW b \in Contents[target],
                 manifest' = [by |-> "archive", version |-> target, binary |-> b]
          PROVE  manifest' \in Manifests
      BY <2>1, <3>2, ManifestValues
    <3> QED
      BY <1>8, <3>1, <3>2 DEF CloseEntry
  <2>3. file' \in [Files -> Versions \cup {None, Torn}]
    BY <1>8, <2>1 DEF CloseEntry, BundlerTypeOK
  <2> QED
    BY <1>8, <2>2, <2>3 DEF CloseEntry, BundlerTypeOK
<1>9. CASE ExtractFails
  BY <1>9, ProgressValues DEF ExtractFails, BundlerTypeOK, localVars
<1>10. CASE ExtractDone
  BY <1>10, FoundFiles DEF ExtractDone, BundlerTypeOK
<1>11. CASE WriteManifest
  <2>1. target \in Versions /\ binary \in Files \cup {None}
    BY <1>11 DEF WriteManifest, BundlerTypeOK, ProgressOK, Installing
  <2>2. manifest' \in Manifests /\ progress' \in Progress
    BY <1>11, <2>1, ManifestValues, ProgressValues DEF WriteManifest
  <2> QED
    BY <1>11, <2>2 DEF WriteManifest, BundlerTypeOK, localVars
<1>12. CASE WriteManifestFails
  BY <1>12, ProgressValues DEF WriteManifestFails, BundlerTypeOK, diskVars, localVars
<1>13. CASE BeginRemove
  BY <1>13, ProgressValues DEF BeginRemove, BundlerTypeOK, diskVars, localVars
<1>14. CASE RemoveEntry
  BY <1>14, ZenonT(60) DEF RemoveEntry, BundlerTypeOK, localVars
<1>15. CASE RemoveDone \/ RemoveFails
  BY <1>15 DEF RemoveDone, RemoveFails, BundlerTypeOK, diskVars, localVars
<1>16. CASE Crash
  BY <1>16, ProgressValues, ZenonT(60) DEF Crash, BundlerTypeOK, diskVars, localVars
<1>17. CASE UNCHANGED bundlerVars
  <2>1. UNCHANGED diskVars /\ UNCHANGED localVars /\ UNCHANGED <<step, progress, result>>
    BY <1>17 DEF bundlerVars
  <2>2. UNCHANGED <<file, manifest, archive, tmp, touched>>
    BY <2>1 DEF diskVars
  <2>3. UNCHANGED <<target, received, sized, left, writing, binary>>
    BY <2>1 DEF localVars
  <2>4. UNCHANGED <<step, progress, result>>
    BY <2>1
  <2>5. /\ file' \in [Files -> Versions \cup {None, Torn}]
        /\ manifest' \in Manifests \cup {None, Torn}
        /\ archive' \in Versions \cup {None, Torn} /\ tmp' \in BOOLEAN /\ touched' \in BOOLEAN
    BY <2>2 DEF BundlerTypeOK
  <2>6. /\ target' \in Versions \cup {None}
        /\ received' \in 0..Chunks /\ sized' \in BOOLEAN
        /\ left' \in SUBSET Members /\ writing' \in Members \cup {None}
        /\ binary' \in Files \cup {None}
    BY <2>3 DEF BundlerTypeOK
  <2>7. /\ step' \in {"idle", "requesting", "fetching", "extracting", "recording", "removing"}
        /\ result' \in {"none", "nodir", "installed", "unfetched", "unextracted",
                        "unrecorded", "removed", "unremoved", "crashed"}
    BY <2>4 DEF BundlerTypeOK
  <2>8. progress' \in Progress
    BY <2>4 DEF BundlerTypeOK
  <2> QED
    BY <2>5, <2>6, <2>7, <2>8 DEF BundlerTypeOK
<1> QED
  BY <1>1, <1>2, <1>3, <1>4, <1>5, <1>6, <1>7, <1>8, <1>9, <1>10, <1>11, <1>12, <1>13, <1>14,
     <1>15, <1>16, <1>17 DEF BundlerNext
-----------------------------------------------------------------------------
\* Nothing that the three other conjuncts speak of changes.
LEMMA RecordKept ==
  ASSUME RecordMeansWhole, BinaryOfRelease, UNCHANGED <<file, manifest, touched>>
  PROVE  RecordMeansWhole' /\ BinaryOfRelease'
  BY DEF RecordMeansWhole, BinaryOfRelease, Recorded, Readable, Whole, Unshadowed, StartFinds

\* Once a call has changed the directory nothing is claimed of the record.
LEMMA TouchedClaimsNothing ==
  ASSUME touched' PROVE RecordMeansWhole' /\ BinaryOfRelease'
  BY DEF RecordMeansWhole, BinaryOfRelease, Recorded

\* Every step keeps the record true, and its binary of its release.
LEMMA RecordStep == BInv /\ [BundlerNext]_bundlerVars => RecordMeansWhole' /\ BinaryOfRelease'
<1> SUFFICES ASSUME BInv, [BundlerNext]_bundlerVars PROVE RecordMeansWhole' /\ BinaryOfRelease'
  OBVIOUS
<1>1. CASE UNCHANGED <<file, manifest, touched>>
  BY <1>1, RecordKept DEF BInv
<1>2. CASE RemoveEntry \/ \E f \in Members : OpenEntry(f)
  BY <1>2, TouchedClaimsNothing DEF RemoveEntry, OpenEntry
<1>3. CASE CloseEntry
  BY <1>3, TouchedClaimsNothing DEF CloseEntry, BInv, ProgressOK
<1>4. CASE WriteManifest
  <2>1. target \in Versions /\ Whole(target) /\ binary \in Found(file)
    BY <1>4 DEF WriteManifest, BInv, ProgressOK, Installing
  <2>2. /\ manifest' = [by |-> "installer", version |-> target, binary |-> binary]
        /\ file' = file
    BY <1>4 DEF WriteManifest, localVars
  <2>3. RecordMeansWhole'
    BY <2>1, <2>2 DEF RecordMeansWhole, Whole
  <2>4. ASSUME Unshadowed(target) PROVE binary \in Files /\ file[binary] = target
    BY <2>1, <2>4, FoundIsOwn
  <2>5. ASSUME Unshadowed(manifest.version)' PROVE Unshadowed(target)
    BY <2>2, <2>5 DEF Unshadowed
  <2>6. Recorded' => Readable(manifest)'
    BY DEF Recorded
  <2>7. BinaryOfRelease'
    BY <2>1, <2>2, <2>4, <2>5, <2>6, BundlerAssumption DEF BinaryOfRelease, StartFinds
  <2> QED
    BY <2>3, <2>7
<1>5. [BundlerNext]_bundlerVars =>
        \/ UNCHANGED <<file, manifest, touched>>
        \/ RemoveEntry \/ (\E f \in Members : OpenEntry(f)) \/ CloseEntry \/ WriteManifest
  BY DEF BundlerNext, Begin, NoDirectory, Respond, ReceiveChunk, FetchDone, FetchFails,
         ExtractFails, ExtractDone, WriteManifestFails, BeginRemove, RemoveDone, RemoveFails,
         Crash, bundlerVars, diskVars
<1> QED
  BY <1>1, <1>2, <1>3, <1>4, <1>5

\* Every step leaves a call where it says it is.
LEMMA ProgressStep == BInv /\ [BundlerNext]_bundlerVars => ProgressOK'
<1> USE DEF Return, Installing, ProgressOK
<1> SUFFICES ASSUME BInv, [BundlerNext]_bundlerVars PROVE ProgressOK'
  OBVIOUS
<1>1. ASSUME NEW v \in Versions, Begin(v) PROVE ProgressOK'
  BY <1>1 DEF Begin, diskVars
<1>2. CASE NoDirectory \/ FetchFails \/ ExtractFails \/ WriteManifest \/ WriteManifestFails
           \/ BeginRemove \/ RemoveEntry \/ RemoveDone \/ RemoveFails \/ Crash
  BY <1>2 DEF BInv, NoDirectory, FetchFails, ExtractFails, WriteManifest, WriteManifestFails,
              BeginRemove, RemoveEntry, RemoveDone, RemoveFails, Crash
<1>3. CASE Respond \/ ReceiveChunk
  BY <1>3 DEF BInv, Respond, ReceiveChunk, diskVars
<1>4. CASE FetchDone
  BY <1>4 DEF BInv, FetchDone
<1>5. ASSUME NEW f \in Members, OpenEntry(f) PROVE ProgressOK'
  <2>1. \A g \in Contents[target] : g \notin left => g # f /\ file'[g] = file[g]
    BY <1>5, BundlerAssumption DEF BInv, OpenEntry, BundlerTypeOK
  <2> QED
    BY <1>5, <2>1 DEF BInv, OpenEntry
<1>6. CASE CloseEntry
  <2>1. target \in Versions /\ touched /\ Contents[target] \in SUBSET Files
    BY <1>6, BundlerAssumption DEF BInv, CloseEntry
  <2>2. \A g \in Contents[target] : g \notin left' => file'[g] = target
    <3> TAKE g \in Contents[target]
    <3> HAVE g \notin left'
    <3>1. CASE g = writing
      BY <1>6, <2>1, <3>1, BundlerAssumption DEF BInv, CloseEntry, BundlerTypeOK
    <3>2. CASE g # writing
      BY <1>6, <2>1, <3>2 DEF BInv, CloseEntry, BundlerTypeOK
    <3> QED
      BY <3>1, <3>2
  <2> QED
    BY <1>6, <2>1, <2>2 DEF BInv, CloseEntry
<1>7. CASE ExtractDone
  BY <1>7 DEF BInv, ExtractDone, Whole, Found
<1>8. CASE UNCHANGED bundlerVars
  BY <1>8 DEF BInv, bundlerVars, diskVars, localVars, Whole, Found
<1> QED
  BY <1>1, <1>2, <1>3, <1>4, <1>5, <1>6, <1>7, <1>8 DEF BundlerNext

\* A call returns in the state that it tells of.
LEMMA ReturnStep == BInv /\ [BundlerNext]_bundlerVars => ReturnLeaves'
<1> USE DEF Return, Failed
<1> SUFFICES ASSUME BInv, [BundlerNext]_bundlerVars PROVE ReturnLeaves'
  OBVIOUS
<1>1. ASSUME step' # "idle" PROVE ReturnLeaves'
  BY <1>1 DEF ReturnLeaves
<1>2. CASE \/ \E v \in Versions : Begin(v)
           \/ Respond \/ ReceiveChunk \/ FetchDone \/ (\E f \in Members : OpenEntry(f))
           \/ CloseEntry \/ ExtractDone \/ BeginRemove \/ RemoveEntry
  <2>1. step' # "idle"
    BY <1>2 DEF Begin, Respond, ReceiveChunk, FetchDone, OpenEntry, CloseEntry, ExtractDone,
                BeginRemove, RemoveEntry
  <2> QED
    BY <1>1, <2>1
<1>3. CASE NoDirectory \/ Crash
  <2>1. progress' = [kind |-> "none"] /\ result' \in {"nodir", "crashed"}
    BY <1>3 DEF NoDirectory, Crash
  <2>2. progress'.kind = "none"
    BY <2>1
  <2> QED
    BY <2>1, <2>2 DEF ReturnLeaves
<1>4. CASE FetchFails \/ ExtractFails
  <2>1. step = "extracting" => ~tmp
    BY DEF BInv, ProgressOK
  <2>2. CASE FetchFails
    <3>1. received > 0 => tmp
      BY <2>2 DEF FetchFails, BInv, ProgressOK
    <3> QED
      BY <2>2, <3>1 DEF FetchFails, localVars, ReturnLeaves
  <2> QED
    BY <1>4, <2>1, <2>2 DEF ExtractFails, ReturnLeaves
<1>5. CASE WriteManifestFails
  <2>1. archive' = None /\ ~tmp'
    BY <1>5 DEF WriteManifestFails, BInv, ProgressOK, diskVars
  <2> QED
    BY <1>5, <2>1 DEF WriteManifestFails, ReturnLeaves
<1>6. CASE WriteManifest
  <2>1. /\ Whole(target) /\ archive = None /\ ~tmp
        /\ manifest' = [by |-> "installer", version |-> target, binary |-> binary]
        /\ target \in Versions
    BY <1>6 DEF WriteManifest, BInv, ProgressOK, Installing
  <2>2. UNCHANGED <<file, archive, tmp, target>>
    BY <1>6 DEF WriteManifest, localVars
  <2>3. Readable(manifest)' /\ manifest'.version = target
    <3>1. manifest' \in Manifests /\ manifest'.version = target
      BY <2>1, <1>6, ManifestValues DEF BInv, BundlerTypeOK
    <3> QED
      BY <3>1, ManifestAssumption DEF Readable
  <2>4. Status' = target' /\ Whole(target)'
    BY <2>1, <2>2, <2>3 DEF Status, Whole
  <2> QED
    BY <1>6, <2>1, <2>2, <2>4 DEF WriteManifest, ReturnLeaves
<1>7. CASE RemoveDone \/ RemoveFails
  <2>1. progress' = [kind |-> "none"] /\ UNCHANGED diskVars
    BY <1>7 DEF RemoveDone, RemoveFails, BInv, ProgressOK
  <2>2. RemoveDone => Status' = None /\ archive' = None /\ ~tmp'
    BY <2>1 DEF RemoveDone, Empty, Status, Readable, diskVars
  <2> QED
    BY <1>7, <2>1, <2>2 DEF RemoveDone, RemoveFails, ReturnLeaves
<1>8. CASE UNCHANGED bundlerVars
  BY <1>8 DEF BInv, bundlerVars, diskVars, localVars, ReturnLeaves, Whole, Status, Readable
<1> QED
  BY <1>2, <1>3, <1>4, <1>5, <1>6, <1>7, <1>8 DEF BundlerNext

\* The invariant holds for any releases, files and binary names.
THEOREM BundlerInvariance == BundlerSpec => []BInv
<1>1. BInv /\ [BundlerNext]_bundlerVars => BInv'
  BY BundlerTypeStep, RecordStep, ProgressStep, ReturnStep DEF BInv
<1> QED
  BY BundlerInitInv, <1>1, PTL DEF BundlerSpec

\* The bundler's variables keep their types: the percentage does not pass the
\* whole.
THEOREM BundlerTyped == BundlerSpec => []BundlerTypeOK
<1>1. BInv => BundlerTypeOK
  BY DEF BInv
<1> QED
  BY <1>1, BundlerInvariance, PTL

\* Whatever fails or crashes, an untouched record of the installer is on disk,
\* whole.
THEOREM RecordIsWhole == BundlerSpec => []RecordMeansWhole
<1>1. BInv => RecordMeansWhole
  BY DEF BInv
<1> QED
  BY <1>1, BundlerInvariance, PTL

\* The binary a start runs is that of the release recorded, if no leftover has
\* a better name.
THEOREM BinaryIsOwn == BundlerSpec => []BinaryOfRelease
<1>1. BInv => BinaryOfRelease
  BY DEF BInv
<1> QED
  BY <1>1, BundlerInvariance, PTL

\* An installation or a removal that succeeded is complete on disk and leaves
\* nothing of the download; a failure leaves no archive under its own name, but
\* the part of one that a broken download received; and the watcher was told the
\* same as the caller, except where the directory could not be made.
THEOREM ReturnIsAccounted == BundlerSpec => []ReturnLeaves
<1>1. BInv => ReturnLeaves
  BY DEF BInv
<1> QED
  BY <1>1, BundlerInvariance, PTL
=============================================================================
