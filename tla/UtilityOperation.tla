--------------------------- MODULE UtilityOperation ---------------------------
(***************************************************************************)
(* The utility operations that move files and look at them                 *)
(* (src/backend/flipperzero/utility), each through the line of RPC         *)
(* requests of its session.                                                *)
(*                                                                         *)
(* An operation advances by a posted nextStateLogic(); it puts one or many *)
(* requests in the line, and the finished() of the last of them posts the  *)
(* next step.  The session answers them in order.  A request the device    *)
(* refuses ends without an error (see RpcOperation); one that fails clears *)
(* the line, and what waited there never ends.  The line is shared: another*)
(* client may have a request in it.  The session may stop, and start again;*)
(* a request made in between waits for it, and no timer runs meanwhile.    *)
(***************************************************************************)
EXTENDS Naturals, Sequences, SequencesExt

CONSTANTS
    Path,           \* the paths there may be, sequences of names
    DeviceTrees,    \* the trees of files there may be on the device, see Trees
    LocalTrees,     \* and those that are to be brought there
    MaxTries        \* bound: how often an operation is run

ASSUME MaxTriesAssumption == MaxTries \in Nat \ {0}

-----------------------------------------------------------------------------
(* File trees: what is at each path.  "torn" is a file written in part.     *)

Root == <<>>
ManifestPath == <<"Manifest">>
Places == Path \cup {ManifestPath}

Parent(p) == SubSeq(p, 1, Len(p) - 1)
Children(p) == {q \in Path : Parent(q) = p}
Above(p) == {q \in Path : IsPrefix(q, p)}       \* itself, and the directories it is in

ASSUME PathsAreClosed ==
    /\ IsFiniteSet(Path)
    /\ \A p \in Path : p \in Seq(STRING) /\ p # Root
    /\ \A p \in Path : \A n \in 1..Len(p) : SubSeq(p, 1, n) \in Path
    /\ ManifestPath \notin Path

Contents == {"old", "new", "torn"}
There(tree) == {p \in DOMAIN tree : tree[p] # "none"}
Files(tree) == {p \in DOMAIN tree : tree[p] \in Contents}
IsDir(tree, p) == tree[p] = "dir"
Trees == {t \in [Path -> {"none", "dir"} \cup Contents] :
            \A p \in There(t) : \A q \in Above(p) \ {p} : IsDir(t, q)}
Empty == [p \in Path |-> "none"]

ASSUME TreesAreTrees == DeviceTrees \subseteq Trees /\ LocalTrees \subseteq Trees

(* The lists of paths the operations go through: a directory comes before    *)
(* what is in it; the order is that of a FileNode's children, or the one in  *)
(* which the host lists a directory.                                         *)
Listings(S) ==
    {paths \in [1..Cardinality(S) -> S] :
        /\ \A p \in S : \E i \in DOMAIN paths : paths[i] = p
        /\ \A i, j \in DOMAIN paths : i < j => paths[i] # paths[j] /\ Parent(paths[i]) # paths[j]}

(* FileNode: a node of the other tree that has no counterpart of its type is *)
(* in the difference with all below it; changed are the files that differ.   *)
Difference(tree, other) ==
    {p \in There(other) : \E q \in Above(p) : tree[q] = "none" \/ IsDir(tree, q) # IsDir(other, q)}
Changed(tree, other) ==
    {p \in There(other) \ Difference(tree, other) : tree[p] # other[p]}

-----------------------------------------------------------------------------

VARIABLES
    job,        \* the operation
    host,       \* its files on this side
    storage,     \* the files on the device
    manifest,   \* the Manifest file there, and the tree it lists
    card,       \* there is an SD card
    line,       \* requests in the session, in order
    history,    \* how this run began, and what it met
    session     \* whether it is "up" or "down"

utilityVars == <<job, host, storage, manifest, card, line, history>>
allVars == <<utilityVars, session>>

Kinds == {"Assets", "Verify", "Download", "Upload", "Backup", "Restore", "PathCreate", "Refresh"}

Manifest(is, tree) == [is |-> is, lists |-> tree]
NoManifest == Manifest("none", Empty)
Corrupt == Manifest("corrupt", Empty)
Readable(tree) == Manifest("readable", tree)

NewJob(kind, target) ==
    [kind |-> kind, target |-> target, state |-> "Ready", posted |-> TRUE, error |-> FALSE,
     manifest |-> NoManifest,  \* m_deviceManifest, if m_isDeviceManifestPresent
     pending |-> 0,         \* m_pendingCount of GetFileTree
     found |-> {},          \* what it found: the tree, the changed files, the path that exists
     index |-> 0]           \* of the path element PathCreate is at

Beginning(dev, man) ==
    [device |-> dev, manifest |-> man, refused |-> FALSE, dropped |-> FALSE, disk |-> FALSE, tries |-> 1]

(* The files a kind starts from.  A manifest that can be read is true, and    *)
(* there is no firmware without resources.                                   *)
Chain(p) == [n \in 1..Len(p) |-> SubSeq(p, 1, n)]
UtilityInit ==
    \E kind \in Kinds :
    /\ host \in (IF kind \in {"Backup", "PathCreate", "Refresh"} THEN {Empty} ELSE LocalTrees)
    /\ kind = "Assets" => There(host) # {}
    /\ storage \in DeviceTrees
    /\ manifest \in (IF kind \in {"Assets", "Refresh"} THEN {Readable(storage), NoManifest, Corrupt} ELSE {NoManifest})
    /\ card \in (IF kind \in {"Assets", "Refresh"} THEN BOOLEAN ELSE {TRUE})
    /\ \E target \in (IF kind = "PathCreate" THEN {Chain(p) : p \in Path \cup {Root}} ELSE {<<>>}) :
         job = NewJob(kind, target)
    /\ line = <<>>
    /\ history = Beginning(storage, manifest)
    /\ session \in {"up", "down"}

-----------------------------------------------------------------------------
(* Steps of the operation *)

Ask(do, p, last) == [do |-> do, path |-> p, last |-> last, by |-> "job"]
(* One request for each path; the end of the last one takes the operation on. *)
ForEach(paths, Do) ==
    [i \in DOMAIN paths |-> Ask(Do[paths[i]], paths[i], i = Len(paths))]

At(state) == job.state = state
AsksFor(state, requests) ==
    /\ job' = [job EXCEPT !.state = state, !.posted = FALSE]
    /\ line' = line \o requests
    /\ UNCHANGED <<host, storage, manifest, card, history>>
AsksOne(state, do, p) == AsksFor(state, <<Ask(do, p, TRUE)>>)
Passes(state) ==
    /\ job' = [job EXCEPT !.state = state]
    /\ UNCHANGED <<host, storage, manifest, card, line, history>>

Over(error) == [job EXCEPT !.state = "Finished", !.posted = FALSE, !.error = error]
Finishes(error) ==
    /\ job' = Over(error)
    /\ UNCHANGED <<host, storage, manifest, card, line, history>>
(* Work on this side, in one step: an archive, a directory.                  *)
Works(state) == Passes(state) \/ Finishes(TRUE)

(* AssetsDownloadOperation.  Without a manifest to compare with, everything  *)
(* is written, and deleted before.                                           *)
FreshInstall == job.manifest.is # "readable"
OnDevice == job.manifest.lists
Deleted == IF FreshInstall THEN Files(host) ELSE Difference(host, OnDevice) \cap Files(OnDevice)
Added == IF FreshInstall THEN There(host) ELSE Difference(OnDevice, host)
Replaced == IF FreshInstall THEN {} ELSE Changed(OnDevice, host)
Updates ==
    IF ~FreshInstall /\ Deleted \cup Added \cup Replaced = {} THEN {<<>>}
    ELSE {<<ManifestPath>> \o paths : paths \in Listings(Replaced)}
DeleteListsAhead == {paths \o updates : paths \in Listings(Deleted), updates \in Updates}     \* mutant
DeleteLists == {Reverse(paths \o updates) : paths \in Listings(Deleted), updates \in Updates}
WriteListsOfAdded == {Append(paths, ManifestPath) : paths \in Listings(Added)}                \* mutant
WriteLists == {paths \o updates : paths \in Listings(Added), updates \in Updates}

WriteOrMkdir == [p \in Places |-> IF p \in Path /\ IsDir(host, p) THEN "mkdir" ELSE "write"]
Delete == [p \in Places |-> "remove"]

AsksForEach(state, lists, Do) == \E paths \in lists : AsksFor(state, ForEach(paths, Do))
AsksForAny(state, lists, Do) ==
    IF <<>> \in lists THEN Passes(state) ELSE AsksForEach(state, lists, Do)

AssetsDownload ==
    \/ At("Ready") /\ AsksOne("CheckingExtStorage", "info", Root)
    \/ At("CheckingExtStorage") /\ Works("ExtractingArchive")
    \/ At("ExtractingArchive") /\ Works("ReadingLocalManifest")
    \/ At("ReadingLocalManifest") /\ AsksOne("CheckingDeviceManifest", "stat", ManifestPath)
    \/ At("CheckingDeviceManifest") /\ AsksOne("ReadingDeviceManifest", "read", ManifestPath)
    \/ At("ReadingDeviceManifest") /\ Passes("BuildingFileLists")
    \/ At("BuildingFileLists") /\ AsksForAny("DeletingFiles", DeleteLists, Delete)
    \/ At("DeletingFiles") /\ AsksForAny("WritingFiles", WriteLists, WriteOrMkdir)
    \/ At("WritingFiles") /\ Finishes(FALSE)

(* ChecksumVerifyOperation                                                   *)
Md5Sum == [p \in Path |-> "md5"]
ChecksumVerify ==
    \/ At("Ready") /\ Passes("ReadingFileList")
    \/ At("ReadingFileList") /\ AsksForEach("VerifyingMd5Sum", Listings(Files(host)), Md5Sum)
    \/ At("VerifyingMd5Sum") /\ Finishes(FALSE)

(* FilesUploadOperation                                                      *)
FilesUpload ==
    \/ At("Ready") /\ Passes("ReadingFileList")
    \/ At("ReadingFileList") /\ AsksForEach("WritingFiles", Listings(There(host)), WriteOrMkdir)
    \/ At("WritingFiles") /\ Finishes(FALSE)

(* GetFileTreeOperation, begun by the two that follow                        *)
ListDirectory(p) == Ask("list", p, FALSE)
GetFileTree ==
    /\ job' = [job EXCEPT !.state = "GettingFileTree", !.posted = FALSE, !.pending = 1]
    /\ line' = Append(line, ListDirectory(Root))
    /\ UNCHANGED <<host, storage, manifest, card, history>>

(* The loop that reads the files makes the directories on its way, and when  *)
(* one cannot be made it ends the operation with reads before it in line.    *)
Read == [p \in Path |-> "read"]
ReadFiles ==
    \/ /\ host' = [p \in Path |-> IF p \in job.found /\ IsDir(storage, p) THEN "dir" ELSE host[p]]
       /\ \E paths \in Listings({p \in job.found : ~IsDir(storage, p)}) : line' = line \o ForEach(paths, Read)
       /\ job' = [job EXCEPT !.state = "ReadingFiles", !.posted = FALSE]
       /\ UNCHANGED <<storage, manifest, card, history>>
    \/ \E d \in job.found :
       /\ IsDir(storage, d)
       /\ \E paths \in Listings({p \in job.found : ~IsDir(storage, p) /\ d \notin Above(p)}) :
            line' = line \o ForEach(paths, Read)
       /\ job' = Over(TRUE)
       /\ history' = [history EXCEPT !.disk = TRUE]
       /\ UNCHANGED <<host, storage, manifest, card>>

(* DirectoryDownloadOperation                                                *)
CreateLocalDirectory ==
    \/ /\ host' = Empty
       /\ job' = [job EXCEPT !.state = "CreatingDirectory"]
       /\ UNCHANGED <<storage, manifest, card, line, history>>
    \/ Finishes(TRUE)
DirectoryDownload ==
    \/ At("Ready") /\ CreateLocalDirectory
    \/ At("CreatingDirectory") /\ GetFileTree
    \/ At("GettingFileTree") /\ ReadFiles
    \/ At("ReadingFiles") /\ Finishes(FALSE)

(* UserBackupOperation                                                       *)
UserBackup ==
    \/ At("Ready") /\ Works("CreatingDirectory")
    \/ At("CreatingDirectory") /\ GetFileTree
    \/ At("GettingFileTree") /\ ReadFiles
    \/ At("ReadingFiles") /\ Works("CreatingArchive")
    \/ At("CreatingArchive") /\ Finishes(FALSE)

(* UserRestoreOperation                                                      *)
ReadBackupDir == IF There(host) = {} THEN Finishes(TRUE) ELSE Passes("ReadingBackupDir")
UserRestore ==
    \/ At("Ready") /\ Works("UncompressingArchive")
    \/ At("UncompressingArchive") /\ ReadBackupDir
    \/ At("ReadingBackupDir") /\ AsksForEach("DeletingFiles", Listings(There(host)), Delete)
    \/ At("DeletingFiles") /\ AsksForEach("WritingFiles", Listings(There(host)), WriteOrMkdir)
    \/ At("WritingFiles") /\ Finishes(FALSE)

(* PathCreateOperation: stat each element until one is missing, and make the *)
(* rest.                                                                     *)
CheckRootElement ==
    IF job.target = <<>> THEN Finishes(FALSE)
    ELSE /\ job' = [job EXCEPT !.state = "CheckingRootElement", !.index = 1]
         /\ UNCHANGED <<host, storage, manifest, card, line, history>>
PathExists == job.target # <<>> /\ job.found = ToSet(job.target)
PathCreate ==
    \/ At("Ready") /\ CheckRootElement
    \/ At("CheckingRootElement") /\ AsksOne("CheckingRemotePath", "stat", job.target[job.index])
    \/ At("CheckingRemotePath") /\ AsksOne("CreatingRemotePath", "mkdir", job.target[job.index])
    \/ At("CreatingRemotePath") /\ Finishes(FALSE)

(* StorageInfoRefreshOperation                                               *)
StorageInfoRefresh ==
    \/ At("Ready") /\ AsksOne("CheckingSDCard", "info", Root)
    \/ At("CheckingSDCard") /\ AsksOne("CheckingManifest", "stat", ManifestPath)
    \/ At("CheckingManifest") /\ Finishes(FALSE)

NextStateLogic ==
    /\ job.posted
    /\ \/ job.kind = "Assets" /\ AssetsDownload
       \/ job.kind = "Verify" /\ ChecksumVerify
       \/ job.kind = "Upload" /\ FilesUpload
       \/ job.kind = "Download" /\ DirectoryDownload
       \/ job.kind = "Backup" /\ UserBackup
       \/ job.kind = "Restore" /\ UserRestore
       \/ job.kind = "PathCreate" /\ PathCreate
       \/ job.kind = "Refresh" /\ StorageInfoRefresh

-----------------------------------------------------------------------------
(* The session, the device, and what the operation does on finished()        *)

(* The device is external.  It does not remove a directory with files in it, *)
(* nor write where the parent is missing or a directory is there already.    *)
Carried(r) ==
    LET p == r.path
        parentThere == Parent(p) = Root \/ IsDir(storage, Parent(p)) IN
    CASE r.do = "remove" /\ \A q \in Children(p) : storage[q] = "none" -> [storage EXCEPT ![p] = "none"]
      [] r.do = "write" /\ ~IsDir(storage, p) /\ parentThere -> [storage EXCEPT ![p] = host[p]]
      [] r.do = "mkdir" /\ storage[p] = "none" /\ parentThere -> [storage EXCEPT ![p] = "dir"]
      [] OTHER -> storage
CarriedManifest(r) == CASE r.do = "remove" -> NoManifest [] r.do = "write" -> Readable(host) [] OTHER -> manifest

CarryOut(r) ==
    IF r.path = ManifestPath
    THEN manifest' = CarriedManifest(r) /\ UNCHANGED storage
    ELSE storage' = (IF r.path \in Path THEN Carried(r) ELSE storage) /\ UNCHANGED manifest
(* A request that fails may have been carried out, and a write in part.      *)
CarryOutInPart(r) ==
    \/ CarryOut(r)
    \/ UNCHANGED <<storage, manifest>>
    \/ /\ r.do = "write"
       /\ IF r.path = ManifestPath
          THEN manifest' = Corrupt /\ UNCHANGED storage
          ELSE /\ storage' = IF Carried(r) = storage THEN storage ELSE [storage EXCEPT ![r.path] = "torn"]
               /\ UNCHANGED manifest

Goes(next) == job' = next /\ line' = Tail(line) /\ UNCHANGED host
Posted(job_) == [job_ EXCEPT !.posted = TRUE]

(* Whether a file is at the path, as far as the operation can tell; a stat   *)
(* that is refused finds nothing.                                            *)
SeesFile(r, good) ==
    good /\ IF r.path = ManifestPath THEN manifest # NoManifest ELSE storage[r.path] \in Contents
SeesDir(r, good) == good /\ r.path \in Path /\ IsDir(storage, r.path)

OnInfo(good) ==
    IF good /\ card
    THEN Goes(Posted([job EXCEPT !.found = IF job.kind = "Refresh" THEN {"card"} ELSE {}]))
    ELSE IF job.kind = "Assets" THEN Goes(Over(FALSE))
    ELSE Goes(Posted([job EXCEPT !.state = "CheckingManifest"]))

OnManifestStat(r, good) ==
    Goes(Posted(IF job.kind = "Refresh"
                THEN [job EXCEPT !.found = @ \cup (IF SeesFile(r, good) THEN {"assets"} ELSE {})]
                ELSE IF SeesFile(r, good) THEN [job EXCEPT !.manifest = Readable(Empty)]
                ELSE [job EXCEPT !.state = "ReadingDeviceManifest"]))

OnElement(r, good) ==
    LET isLast == job.index = Len(job.target)
        next == [job EXCEPT !.index = @ + 1, !.found = IF r.do = "stat" THEN @ \cup {r.path} ELSE @]
        ask == line' = Append(Tail(line), Ask(r.do, job.target[job.index + 1], TRUE)) IN
    IF r.do = "stat" /\ SeesFile(r, good) THEN Goes(Over(TRUE))
    ELSE IF r.do = "stat" /\ ~SeesDir(r, good) THEN Goes(Posted(job))
    ELSE IF ~isLast THEN job' = next /\ ask /\ UNCHANGED host
    ELSE Goes(IF r.do = "stat" THEN [Over(FALSE) EXCEPT !.found = next.found] ELSE Posted(next))

PendingCounts(dirs) == job.pending + Len(dirs)                         \* mutant
PendingAfter(dirs) == job.pending - 1 + Len(dirs)

OnList(r, good) ==
    LET files == IF good THEN {p \in Children(r.path) : storage[p] # "none"} ELSE {} IN
    \E dirs \in Listings({p \in files : IsDir(storage, p)}) :
    LET pending == PendingAfter(dirs) IN
    /\ job' = [job EXCEPT !.pending = pending, !.found = @ \cup files, !.posted = pending = 0]
    /\ line' = Tail(line) \o [i \in DOMAIN dirs |-> ListDirectory(dirs[i])]
    /\ UNCHANGED host

OnRead(r) ==
    IF r.path = ManifestPath THEN Goes(Posted([job EXCEPT !.manifest = manifest]))
    ELSE /\ host' = [host EXCEPT ![r.path] = storage[r.path]]
         /\ job' = [job EXCEPT !.posted = r.last]
         /\ line' = Tail(line)

OnMd5Sum(r, good) ==
    Goes([job EXCEPT !.found = IF good /\ storage[r.path] = host[r.path] THEN @ ELSE @ \cup {r.path},
                     !.posted = r.last])

(* finished() of a request, without an error.                                *)
OnFinished(r, good) ==
    \/ r.do = "info" /\ OnInfo(good)
    \/ r.do = "stat" /\ r.path = ManifestPath /\ OnManifestStat(r, good)
    \/ job.kind = "PathCreate" /\ OnElement(r, good)
    \/ r.do = "list" /\ OnList(r, good)
    \/ r.do = "read" /\ good /\ OnRead(r)
    \/ r.do = "md5" /\ OnMd5Sum(r, good)
    \/ /\ r.do \in {"remove", "write", "mkdir"} /\ job.kind # "PathCreate"
       /\ Goes([job EXCEPT !.posted = r.last])

(* A request in line whose operation is over would use a file object that is *)
(* deleted with it: what follows is undefined, and the model stops there.    *)
InService(r) == r.by = "job" /\ job.state # "Finished"

RequestDone ==
    /\ line # <<>>
    /\ LET r == Head(line) IN
       /\ InService(r)
       /\ CarryOut(r)
       /\ OnFinished(r, TRUE)
    /\ UNCHANGED <<card, history>>

RequestRefused ==
    /\ line # <<>>
    /\ InService(Head(line))
    /\ OnFinished(Head(line), FALSE)
    /\ history' = [history EXCEPT !.refused = TRUE]
    /\ UNCHANGED <<storage, manifest, card>>

LineAfterOne == Tail(line)                                             \* mutant
LineAfterError == <<>>                  \* ProtobufSession clears its queue

ToleratesError(r) == job.kind = "Assets" /\ r.do = "read"
RequestFailed ==
    /\ line # <<>>
    /\ InService(Head(line))
    /\ CarryOutInPart(Head(line))
    /\ line' = LineAfterError
    /\ job' = IF ToleratesError(Head(line)) THEN Posted(job) ELSE Over(TRUE)
    /\ UNCHANGED <<host, card, history>>

(* Another client of the session: one request, which ends or fails.          *)
OtherAsks ==
    /\ \A i \in DOMAIN line : line[i].by = "job"
    /\ history.tries = 1 /\ line # <<>> /\ job.state # "Finished"
    /\ line' = Append(line, [do |-> "other", path |-> Root, last |-> FALSE, by |-> "other"])
    /\ UNCHANGED <<job, host, storage, manifest, card, history>>
OtherEnds ==
    /\ line # <<>>
    /\ Head(line).by = "other"
    /\ \/ line' = Tail(line) /\ UNCHANGED history
       \/ /\ line' = <<>>
          /\ history' = [history EXCEPT !.dropped = Len(line) > 1]
    /\ UNCHANGED <<job, host, storage, manifest, card>>

(* The user tries again after an error, with the same files.                 *)
TryAgain ==
    /\ job.state = "Finished" /\ job.error /\ line = <<>>
    /\ history.tries < MaxTries
    /\ job' = NewJob(job.kind, job.target)
    /\ history' = [Beginning(storage, manifest) EXCEPT !.tries = history.tries + 1]
    /\ UNCHANGED <<host, storage, manifest, card, line>>

-----------------------------------------------------------------------------

Rpc == RequestDone \/ RequestRefused \/ RequestFailed \/ OtherEnds
UtilityStep == NextStateLogic \/ Rpc \/ OtherAsks \/ TryAgain

(* The session starts a request only while it is up.  When it stops, the one *)
(* that runs is aborted, and the others are dropped.                         *)
SessionServes == session = "up" /\ Rpc /\ UNCHANGED session
SessionStops ==
    /\ session = "up" /\ session' = "down"
    /\ \/ line = <<>> /\ UNCHANGED utilityVars
       \/ line' = <<>> /\ (RequestFailed \/ OtherEnds)
SessionStarts == session = "down" /\ session' = "up" /\ UNCHANGED utilityVars

UtilityNext ==
    \/ (NextStateLogic \/ OtherAsks \/ TryAgain) /\ UNCHANGED session
    \/ SessionServes \/ SessionStops \/ SessionStarts

UtilitySpec == UtilityInit /\ [][UtilityNext]_allVars

(* The event loop runs what is posted, and a request that the session starts *)
(* ends: its timer runs from there; every part of an answer starts it again, *)
(* and an answer has finitely many parts.  No session has to come up.        *)
UtilityFairSpec == UtilitySpec /\ WF_utilityVars(NextStateLogic) /\ WF_allVars(SessionServes)

-----------------------------------------------------------------------------
(* Properties *)

Succeeded == job.state = "Finished" /\ ~job.error

(* The manifest lists what is there.                                         *)
Tells(man, tree) == \A p \in There(man.lists) : tree[p] = man.lists[p]

(* A file cannot take the place of a directory, nor a directory that of a    *)
(* file the manifest does not list.                                          *)
Replaceable ==
    \A p \in There(host) \cap There(history.device) :
      \/ IsDir(host, p) = IsDir(history.device, p)
      \/ IsDir(host, p) /\ p \in There(job.manifest.lists)

(* The resources need a manifest that was true when the operation began, and *)
(* files that can be replaced.                                               *)
Sound == Tells(history.manifest, history.device) /\ Replaceable

SameTypes == \A p \in There(host) \cap There(history.device) : IsDir(host, p) = IsDir(history.device, p)
Installed == \A p \in There(host) : storage[p] = host[p]

(* What each kind of operation is for: what was to be written is there, what *)
(* was to be read is here, and the answer is the right one.                  *)
AssetsDone ==
    card /\ Sound =>
      /\ Installed
      /\ manifest.is = "readable" /\ Files(manifest.lists) = Files(host)
      /\ job.manifest = history.manifest =>
           \A p \in Files(history.manifest.lists) \ There(host) : storage[p] = "none"
UploadDone == SameTypes => Installed
ReadDone == host = storage
VerifyDone == job.found = {p \in Files(host) : storage[p] # host[p]}
CreateDone ==
    /\ \A p \in ToSet(job.target) : IsDir(storage, p)
    /\ PathExists => storage = history.device
Answer == (IF card THEN {"card"} ELSE {}) \cup (IF card /\ manifest # NoManifest THEN {"assets"} ELSE {})
RefreshDone == job.found = Answer

(* An operation that ends without an error has done its work, if the device  *)
(* refused nothing, also when it was run before and failed half-way.         *)
WorkIsDone ==
    Succeeded /\ ~history.refused =>
      CASE job.kind = "Assets" -> AssetsDone
        [] job.kind \in {"Upload", "Restore"} -> UploadDone
        [] job.kind \in {"Download", "Backup"} -> ReadDone
        [] job.kind = "Verify" -> VerifyDone
        [] job.kind = "PathCreate" -> CreateDone
        [] job.kind = "Refresh" -> RefreshDone

(* A manifest that was true stays true of all files but those that the       *)
(* install changes: wherever it is interrupted, it does not claim files that *)
(* it adds before they are there, nor keeps claiming files it has removed.   *)
ManifestTellsTruth ==
    job.kind = "Assets" /\ ~history.refused /\ Sound =>
      \A p \in There(manifest.lists) :
        \/ storage[p] = manifest.lists[p]
        \/ p \in Changed(history.manifest.lists, host)

(* An operation that is over has nothing in the line any more that would use *)
(* its files, unless it gave up over a directory it could not make here.     *)
NothingLeftInLine ==
    job.state = "Finished" /\ (\E i \in DOMAIN line : line[i].by = "job") => history.disk

(* Every operation ends, except one with no file to move or look at, one     *)
(* whose requests were dropped when another client's failed or was aborted,  *)
(* and one with a request in a session that is not up.                       *)
NothingToWaitFor ==
    \/ At("ReadingFiles") /\ Files(storage) \cap job.found = {}
    \/ At("VerifyingMd5Sum") /\ Files(host) = {}
    \/ job.kind = "Upload" /\ At("WritingFiles") /\ There(host) = {}
WaitsForSession == session = "down" /\ line # <<>>
OperationEnds ==
    <>[](job.state = "Finished" \/ NothingToWaitFor \/ history.dropped \/ WaitsForSession)
=============================================================================
