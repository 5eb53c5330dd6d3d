--------------------------- MODULE DomainStorage ---------------------------
(***************************************************************************)
(* DomainStorage of server/src/domain_storage.rs, with the part of         *)
(* FileCache it drives (server/src/file_cache.rs) and the admin handlers   *)
(* that call it (server/src/admin_server.rs).                              *)
(*                                                                         *)
(* On disk a domain is a directory of numbered version directories; a      *)
(* version that is receiving files holds the marker `.SPA-Processing'.  In *)
(* memory the storage keeps, per domain, the version it says is online     *)
(* (meta), the version receiving files (uploading_status) and the files it *)
(* serves (cache).  No lock spans two of these: every admin request is a   *)
(* task of a multi-threaded runtime whose accesses to the maps and to the  *)
(* file system interleave with those of the other tasks, and the process   *)
(* can stop between any two of them.                                       *)
(*                                                                         *)
(* One step of a task is one access that other tasks can observe.  The     *)
(* first access of a handler is the step that accepts the request; a       *)
(* request that is refused, or that only reads, changes nothing and is a   *)
(* stuttering step.                                                        *)
(***************************************************************************)
EXTENDS Integers, FiniteSets

CONSTANTS Domain,      \* host names that have a directory under file_dir
          File,        \* paths inside a version directory
          LargeFile,   \* the files longer than cache.max_size
          Unreadable,  \* the files that the server may fail to read
          Content,     \* whole file contents
          U32Max,      \* u32::MAX
          ReqVersion,  \* the versions that requests name
          Reserve,     \* the max_reserve values of delete requests
          Task,        \* the requests that can be in flight at once
          Serialised   \* TRUE: requests for one domain do not overlap,
                       \*   but for file uploads with each other

None == -1
Version == 0 .. U32Max

\* What a file may be on disk besides a whole content: not there, empty
\* (created and not written yet, or of a file without bytes), cut short by a
\* failed write, or with bytes of more than one save.
NoFile == "absent"
Empty == "empty"
Torn == "torn"
Mixed == "mixed"
Stored == Content \cup {NoFile, Empty, Torn, Mixed}

\* The body of a save: the bytes of a file, which may be none.
Body == Content \cup {Empty}

\* DataBlock::FileBlock: the cache holds the path, the bytes stay on disk.
FileBlock == "file_block"

\* The map has no entry, as for NoFile, but the file is on disk: the walk
\* that filled the cache could not read it.
Dropped == "dropped"

ASSUME U32Assumption == U32Max \in Nat
ASSUME RequestAssumption == /\ ReqVersion \subseteq Version
                            /\ Reserve \subseteq Version \cup {None}
ASSUME FileAssumption ==
    /\ LargeFile \subseteq File /\ Unreadable \subseteq File
    /\ Content \cap {NoFile, Empty, Torn, Mixed, FileBlock, Dropped} = {}
ASSUME SerialisedAssumption == Serialised \in BOOLEAN

VARIABLES vdirs,            \* the version directories of each domain
          marked,           \* those that hold .SPA-Processing
          files,            \* the files of each version directory
          meta,             \* DomainStorage::meta
          uploading_status, \* DomainStorage::uploading_status
          cache,            \* FileCache::data, and the version it came from
          task              \* the handlers in flight

disk == <<vdirs, marked, files>>
vars == <<vdirs, marked, files, meta, uploading_status, cache, task>>

-----------------------------------------------------------------------------
(* The handlers in flight: where each one is, and its local variables. *)

Cached == [File -> Stored \cup {FileBlock, Dropped}]

Idle == [pc |-> "idle"]
VersionPc == {"go_online", "cache_dir", "create_dir", "create_marker",
              "insert_uploading", "remove_marker", "remove_uploading"}
SavePc == {"make_parent", "create_file", "write_all"}
VersionTask == [pc : VersionPc, dom : Domain, ver : Version]
CacheTask == [pc : {"cache_update"}, dom : Domain, ver : Version, snap : Cached]
SaveTask == [pc : SavePc, dom : Domain, ver : Version, file : File, data : Body]
RemoveTask == [pc : {"remove"}, doomed : SUBSET (Domain \X Version)]
TaskState == {Idle} \cup VersionTask \cup CacheTask \cup SaveTask \cup RemoveTask

Touched(s) ==
    CASE s.pc = "idle" -> {}
      [] s.pc = "remove" -> {p[1] : p \in s.doomed}
      [] OTHER -> {s.dom}

\* The environment assumption that Serialised stands for.
MayStart(t, D) ==
    /\ task[t] = Idle
    /\ Serialised => \A u \in Task : Touched(task[u]) \cap D = {}
MayStartSave(t, d) ==
    /\ task[t] = Idle
    /\ Serialised => \A u \in Task : d \in Touched(task[u]) => task[u].pc \in SavePc

Goto(t, label) == task' = [task EXCEPT ![t].pc = label]
Respond(t) == task' = [task EXCEPT ![t] = Idle]

-----------------------------------------------------------------------------
(* Reading the directory and the maps. *)

IsMax(v, S) == v \in S /\ \A w \in S : w <= v

\* check_is_in_upload_process, and the same test in the release handler.
InUploadProcess(d, v) == uploading_status[d] = v

\* get_domain_serving_version(..).filter(|x| *x == version)
InServing(d, v) == meta[d] = v

\* cache_dir: what the walk over a version directory puts into the map.  An
\* entry that cannot be walked to, opened or read (those in S) is left out,
\* and the caller does not learn of it.
CacheDirOf(d, v, S) ==
    [f \in File |-> CASE files[d][v][f] = NoFile -> NoFile
                      [] files[d][v][f] # NoFile /\ f \in S -> Dropped
                      [] files[d][v][f] # NoFile /\ f \in LargeFile \ S -> FileBlock
                      [] OTHER -> files[d][v][f]]

NoFiles == [f \in File |-> NoFile]
NotCached == [ver |-> None, files |-> NoFiles]

\* get_upload_position: the version a new upload is told to use.
IsUploadPosition(d, v) ==
    IF uploading_status[d] # None THEN v = uploading_status[d]
    ELSE IF vdirs[d] = {} THEN v = 1
    ELSE \E w \in vdirs[d] : IsMax(w, vdirs[d]) /\ v = (w + 1) % (U32Max + 1)

-----------------------------------------------------------------------------
(* POST /update_version: upload_domain_with_version. *)

\* Mutant: the release does not look at uploading_status.
ReleaseUnchecked(t, d, v) ==
    /\ task' = [task EXCEPT ![t] = [pc |-> "go_online", dom |-> d, ver |-> v]]
    /\ UNCHANGED <<disk, meta, uploading_status, cache>>

ReleaseCheck(t, d, v) ==
    /\ ~InUploadProcess(d, v)
    /\ task' = [task EXCEPT ![t] = [pc |-> "go_online", dom |-> d, ver |-> v]]
    /\ UNCHANGED <<disk, meta, uploading_status, cache>>

Release(t, d) == \E v \in ReqVersion : MayStart(t, {d}) /\ ReleaseCheck(t, d, v)

\* version = None: the largest directory, and no version is an error.
ReleaseLatest(t, d) ==
    \E v \in vdirs[d] : IsMax(v, vdirs[d]) /\ MayStart(t, {d}) /\ ReleaseCheck(t, d, v)

\* Mutant: meta.insert comes before the is_dir test.
GoOnlineUnchecked(t) ==
    /\ task[t].pc = "go_online"
    /\ LET d == task[t].dom
       IN /\ meta' = [meta EXCEPT ![d] = task[t].ver]
          /\ IF task[t].ver \in vdirs[d] THEN Goto(t, "cache_dir") ELSE Respond(t)
    /\ UNCHANGED <<disk, uploading_status, cache>>

\* new_path.is_dir(), then meta.insert: the version counts as online from
\* here on, before its files are in the cache.
GoOnline(t) ==
    /\ task[t].pc = "go_online"
    /\ LET d == task[t].dom
           v == task[t].ver
       IN IF v \in vdirs[d]
          THEN meta' = [meta EXCEPT ![d] = v] /\ Goto(t, "cache_dir")
          ELSE UNCHANGED meta /\ Respond(t)
    /\ UNCHANGED <<disk, uploading_status, cache>>

CacheDir(t) ==
    /\ task[t].pc = "cache_dir"
    /\ LET s == task[t]
       IN \E S \in SUBSET Unreadable :
             task' = [task EXCEPT ![t] = [pc |-> "cache_update", dom |-> s.dom, ver |-> s.ver,
                                          snap |-> CacheDirOf(s.dom, s.ver, S)]]
    /\ UNCHANGED <<disk, meta, uploading_status, cache>>

CacheUpdate(t) ==
    /\ task[t].pc = "cache_update"
    /\ LET s == task[t]
       IN cache' = [cache EXCEPT ![s.dom] = [ver |-> s.ver, files |-> s.snap]]
    /\ Respond(t)
    /\ UNCHANGED <<disk, meta, uploading_status>>

-----------------------------------------------------------------------------
(* POST /files/upload_status: update_uploading_status. *)

\* Mutant: the slot in uploading_status is not looked at.
StatusUploadingAny(t, d) ==
    \E v \in ReqVersion :
       /\ MayStart(t, {d})
       /\ task' = [task EXCEPT ![t] = [pc |-> "create_dir", dom |-> d, ver |-> v]]
       /\ UNCHANGED <<disk, meta, uploading_status, cache>>

\* Uploading.  The same version already uploading is Ok with no effect, and
\* another one uploading is an error: only an empty slot starts anything.
StatusUploading(t, d) ==
    \E v \in ReqVersion :
       /\ MayStart(t, {d})
       /\ uploading_status[d] = None
       /\ task' = [task EXCEPT ![t] = [pc |-> "create_dir", dom |-> d, ver |-> v]]
       /\ UNCHANGED <<disk, meta, uploading_status, cache>>

\* Finish, for the uploading version or when nothing is uploading: the code
\* has the same two statements in both branches.
StatusFinish(t, d) ==
    \E v \in ReqVersion :
       /\ MayStart(t, {d})
       /\ uploading_status[d] \in {v, None}
       /\ task' = [task EXCEPT ![t] = [pc |-> "remove_marker", dom |-> d, ver |-> v]]
       /\ UNCHANGED <<disk, meta, uploading_status, cache>>

\* Mutant: the version that is online is not refused.
CreateDirServing(t) ==
    /\ task[t].pc = "create_dir"
    /\ vdirs' = [vdirs EXCEPT ![task[t].dom] = @ \cup {task[t].ver}]
    /\ Goto(t, "create_marker")
    /\ UNCHANGED <<marked, files, meta, uploading_status, cache>>

CreateDir(t) ==
    /\ task[t].pc = "create_dir"
    /\ LET d == task[t].dom
           v == task[t].ver
       IN IF InServing(d, v)
          THEN UNCHANGED vdirs /\ Respond(t)
          ELSE /\ vdirs' = [vdirs EXCEPT ![d] = @ \cup {v}]
               /\ Goto(t, "create_marker")
    /\ UNCHANGED <<marked, files, meta, uploading_status, cache>>

\* Mutant: the marker is never written.
CreateNoMarker(t) ==
    /\ task[t].pc = "create_marker"
    /\ Goto(t, "insert_uploading")
    /\ UNCHANGED <<disk, meta, uploading_status, cache>>

\* File::create fails when the directory has been deleted meanwhile.
CreateMarker(t) ==
    /\ task[t].pc = "create_marker"
    /\ LET d == task[t].dom
           v == task[t].ver
       IN IF v \in vdirs[d]
          THEN marked' = [marked EXCEPT ![d] = @ \cup {v}] /\ Goto(t, "insert_uploading")
          ELSE UNCHANGED marked /\ Respond(t)
    /\ UNCHANGED <<vdirs, files, meta, uploading_status, cache>>

InsertUploading(t) ==
    /\ task[t].pc = "insert_uploading"
    /\ uploading_status' = [uploading_status EXCEPT ![task[t].dom] = task[t].ver]
    /\ Respond(t)
    /\ UNCHANGED <<disk, meta, cache>>

\* fs::remove_file(marker)?: an error when it is not there.
RemoveMarker(t) ==
    /\ task[t].pc = "remove_marker"
    /\ LET d == task[t].dom
           v == task[t].ver
       IN IF v \in marked[d]
          THEN marked' = [marked EXCEPT ![d] = @ \ {v}] /\ Goto(t, "remove_uploading")
          ELSE UNCHANGED marked /\ Respond(t)
    /\ UNCHANGED <<vdirs, files, meta, uploading_status, cache>>

\* uploading_status.remove_if(domain, |_, v| *v == version)
RemoveUploading(t) ==
    /\ task[t].pc = "remove_uploading"
    /\ LET d == task[t].dom
       IN uploading_status' = [uploading_status EXCEPT ![d] = IF @ = task[t].ver THEN None ELSE @]
    /\ Respond(t)
    /\ UNCHANGED <<disk, meta, cache>>

-----------------------------------------------------------------------------
(* POST /file/upload: update_file and save_file. *)

SaveFile(t, d) ==
    \E v \in ReqVersion, f \in File, c \in Body :
       /\ MayStartSave(t, d)
       /\ InUploadProcess(d, v)
       /\ task' = [task EXCEPT ![t] = [pc |-> "make_parent", dom |-> d, ver |-> v,
                                       file |-> f, data |-> c]]
       /\ UNCHANGED <<disk, meta, uploading_status, cache>>

\* create_dir_all(parent), then the probe: a file that exists is opened for
\* reading only.  Nothing is stored: the write fails, unless the body is
\* empty, when the answer is 200 and the file keeps what it holds.
MakeParent(t) ==
    /\ task[t].pc = "make_parent"
    /\ LET d == task[t].dom
           v == task[t].ver
       IN /\ vdirs' = [vdirs EXCEPT ![d] = @ \cup {v}]
          /\ IF files[d][v][task[t].file] = NoFile THEN Goto(t, "create_file") ELSE Respond(t)
    /\ UNCHANGED <<marked, files, meta, uploading_status, cache>>

\* File::create truncates; it fails when the directory is gone.
CreateFile(t) ==
    /\ task[t].pc = "create_file"
    /\ LET d == task[t].dom
           v == task[t].ver
       IN IF v \in vdirs[d]
          THEN files' = [files EXCEPT ![d][v][task[t].file] = Empty] /\ Goto(t, "write_all")
          ELSE UNCHANGED files /\ Respond(t)
    /\ UNCHANGED <<vdirs, marked, meta, uploading_status, cache>>

\* write_all puts new over old, which is not what the handle was created on
\* when saves overlap: all of it, or a part when it fails.  Nothing is
\* written of an empty body.
Overwritten(old, new) ==
    CASE new = Empty -> {old}
      [] new # Empty /\ old = Empty -> {new, Torn}
      [] new # Empty /\ old = new -> {new}
      [] OTHER -> {new, Mixed}

\* When the file was unlinked meanwhile the bytes go to an inode without a
\* name.
WriteAll(t) ==
    /\ task[t].pc = "write_all"
    /\ LET d == task[t].dom
           v == task[t].ver
           f == task[t].file
       IN IF files[d][v][f] = NoFile THEN UNCHANGED files
          ELSE \E w \in Overwritten(files[d][v][f], task[t].data) :
                  files' = [files EXCEPT ![d][v][f] = w]
    /\ Respond(t)
    /\ UNCHANGED <<vdirs, marked, meta, uploading_status, cache>>

-----------------------------------------------------------------------------
(* POST /files/delete: the handler remove_domain_version, which takes one   *)
(* snapshot of the directories and of meta and then removes versions.       *)

WrappingSub(a, b) == IF a >= b THEN a - b ELSE a - b + U32Max + 1

\* info.current_version.or(info.versions.iter().max())
IsReference(d, w) == IF meta[d] # None THEN w = meta[d] ELSE IsMax(w, vdirs[d])

\* Mutant: `<=' for `<', so that max_reserve = 0 includes the current version.
DeleteUpToReserve(d, r) ==
    IF r = None
    THEN {v \in vdirs[d] : v # IF meta[d] = None THEN U32Max ELSE meta[d]}
    ELSE {v \in vdirs[d] : \E w \in Version : IsReference(d, w) /\ v <= WrappingSub(w, r)}

\* delete_versions.  `max_version - max_reserve' on u32 wraps in a release
\* build; with no max_reserve everything but the current version goes.
DeleteVersions(d, r) ==
    IF r = None
    THEN {v \in vdirs[d] : v # IF meta[d] = None THEN U32Max ELSE meta[d]}
    ELSE {v \in vdirs[d] : \E w \in Version : IsReference(d, w) /\ v < WrappingSub(w, r)}

\* query.domain = Some(d) or None.
Delete(t) ==
    \E D \in {Domain} \cup {{d} : d \in Domain}, r \in Reserve :
       /\ MayStart(t, D)
       /\ task' = [task EXCEPT ![t] =
                     [pc |-> "remove",
                      doomed |-> {p \in D \X Version : p[2] \in DeleteVersions(p[1], r)}]]
       /\ UNCHANGED <<disk, meta, uploading_status, cache>>

\* remove_dir_all unlinks the entries one by one, in any order.
RemoveEntry(t) ==
    /\ task[t].pc = "remove"
    /\ \E p \in task[t].doomed :
          \/ /\ p[2] \in marked[p[1]]
             /\ marked' = [marked EXCEPT ![p[1]] = @ \ {p[2]}]
             /\ UNCHANGED files
          \/ \E f \in File :
             /\ files[p[1]][p[2]][f] # NoFile
             /\ files' = [files EXCEPT ![p[1]][p[2]][f] = NoFile]
             /\ UNCHANGED marked
    /\ UNCHANGED <<vdirs, meta, uploading_status, cache, task>>

Forget(t, p) == task' = [task EXCEPT ![t].doomed = @ \ {p}]

\* Mutant: the directory entry goes first, its content is left behind.
RemoveDirOnly(t) ==
    /\ task[t].pc = "remove"
    /\ \E p \in task[t].doomed :
          /\ vdirs' = [vdirs EXCEPT ![p[1]] = @ \ {p[2]}]
          /\ Forget(t, p)
    /\ UNCHANGED <<marked, files, meta, uploading_status, cache>>

RemoveDir(t) ==
    /\ task[t].pc = "remove"
    /\ \E p \in task[t].doomed :
          /\ p[2] \notin marked[p[1]]
          /\ files[p[1]][p[2]] = NoFiles
          /\ vdirs' = [vdirs EXCEPT ![p[1]] = @ \ {p[2]}]
          /\ Forget(t, p)
    /\ UNCHANGED <<marked, files, meta, uploading_status, cache>>

\* `let _ = storage.remove_domain_version(..)': an error skips the version.
RemoveFailed(t) ==
    /\ task[t].pc = "remove"
    /\ \E p \in task[t].doomed : Forget(t, p)
    /\ UNCHANGED <<disk, meta, uploading_status, cache>>

RemoveDone(t) ==
    /\ task[t].pc = "remove"
    /\ task[t].doomed = {}
    /\ Respond(t)
    /\ UNCHANGED <<disk, meta, uploading_status, cache>>

-----------------------------------------------------------------------------
(* Failures. *)

\* The `?' after every file-system call of save_file and
\* update_uploading_status: the handler answers with an error and leaves
\* behind what it had done.
IoError(t) ==
    /\ task[t].pc \in {"create_dir", "create_marker", "remove_marker",
                       "make_parent", "create_file"}
    /\ Respond(t)
    /\ UNCHANGED <<disk, meta, uploading_status, cache>>

\* Mutant: the last directory listed wins, as it does for uploading_status.
InitLastListed(d, v) ==
    LET ready == (vdirs[d] \ marked[d]) \ {0}
    IN IF ready = {} THEN v = None ELSE v \in ready

\* DomainStorage::init on the disk as it is: per domain the largest
\* unmarked version is served if it is not 0, and of the marked versions the
\* one that read_dir lists last is the one that is uploading.
InitMeta(d, v) ==
    LET ready == (vdirs[d] \ marked[d]) \ {0}
    IN IF ready = {} THEN v = None ELSE IsMax(v, ready)

InitUploading(d, v) == IF marked[d] = {} THEN v = None ELSE v \in marked[d]

InitCache(d, v, S) == IF v = None THEN NotCached ELSE [ver |-> v, files |-> CacheDirOf(d, v, S)]

OptVersion == Version \cup {None}

\* The process stops, at whatever point its tasks are, and starts again.
Restart ==
    /\ meta' \in {m \in [Domain -> OptVersion] : \A d \in Domain : InitMeta(d, m[d])}
    /\ uploading_status' \in {u \in [Domain -> OptVersion] :
                                 \A d \in Domain : InitUploading(d, u[d])}
    /\ \E S \in [Domain -> SUBSET Unreadable] :
          cache' = [d \in Domain |-> InitCache(d, meta'[d], S[d])]
    /\ task' = [t \in Task |-> Idle]
    /\ UNCHANGED disk

-----------------------------------------------------------------------------
\* The first start: whole versions put there with scp/rsync or by an earlier
\* process, none of them receiving files.
Init ==
    /\ vdirs \in [Domain -> SUBSET ReqVersion]
    /\ marked = [d \in Domain |-> {}]
    /\ \E c \in Content :
         files = [d \in Domain |-> [v \in Version |->
                    [f \in File |-> IF v \in vdirs[d] THEN c ELSE NoFile]]]
    /\ meta \in [Domain -> OptVersion]
    /\ \A d \in Domain : InitMeta(d, meta[d])
    /\ uploading_status = [d \in Domain |-> None]
    /\ \E S \in [Domain -> SUBSET Unreadable] :
          cache = [d \in Domain |-> InitCache(d, meta[d], S[d])]
    /\ task = [t \in Task |-> Idle]

Request(t) ==
    \/ \E d \in Domain : \/ Release(t, d) \/ ReleaseLatest(t, d)
                         \/ StatusUploading(t, d) \/ StatusFinish(t, d)
                         \/ SaveFile(t, d)
    \/ Delete(t)

Step(t) ==
    \/ GoOnline(t) \/ CacheDir(t) \/ CacheUpdate(t)
    \/ CreateDir(t) \/ CreateMarker(t) \/ InsertUploading(t)
    \/ RemoveMarker(t) \/ RemoveUploading(t)
    \/ MakeParent(t) \/ CreateFile(t) \/ WriteAll(t)
    \/ RemoveEntry(t) \/ RemoveDir(t) \/ RemoveFailed(t) \/ RemoveDone(t)
    \/ IoError(t)

Next == (\E t \in Task : Request(t) \/ Step(t)) \/ Restart

Spec == Init /\ [][Next]_vars

-----------------------------------------------------------------------------
(* Properties. *)

\* Types, and a disk that is a tree: the marker and the files of a version
\* are inside its directory, whatever order handlers create and delete in.
TypeOK ==
    /\ vdirs \in [Domain -> SUBSET Version]
    /\ marked \in [Domain -> SUBSET Version]
    /\ files \in [Domain -> [Version -> [File -> Stored]]]
    /\ meta \in [Domain -> OptVersion]
    /\ uploading_status \in [Domain -> OptVersion]
    /\ cache \in [Domain -> [ver : OptVersion, files : Cached]]
    /\ task \in [Task -> TaskState]
    /\ \A d \in Domain : marked[d] \subseteq vdirs[d]
    /\ \A d \in Domain : \A v \in Version \ vdirs[d] : \A f \in File : files[d][v][f] = NoFile

\* docs/guide/uploading-file-process.md: a version that holds the marker
\* .SPA-Processing is not online.
MarkedNotOnline == \A d \in Domain : cache[d].ver \notin marked[d]

\* The same once every request has been answered: what an overlap of two
\* requests leaves behind for good.
SettledMarkedNotOnline == (\A t \in Task : task[t] = Idle) => MarkedNotOnline

\* docs/guide/uploading-file-process.md: the uploading status in the server
\* avoids uploading conflicts.  One version of a domain is receiving files
\* at most, so that a restart cannot take another one for it.
OneUpload == \A d \in Domain : \A v, w \in marked[d] : v = w

Releasing(d) == \E t \in Task : /\ task[t].pc \in {"cache_dir", "cache_update"}
                                /\ task[t].dom = d

\* The version GET /status reports (meta) is the version whose files are
\* served (cache), except while a release is between the two updates.
StatusTellsOnline == \A d \in Domain : Releasing(d) \/ meta[d] = cache[d].ver

\* The directory of the online version stays on disk, with the files the
\* cache was filled from: no upload writes to it and no delete removes it.
\* (A FileBlock is read from that directory at every request.)  Only files
\* that could not be read are left out.
OnlineMatchesDisk ==
    \A d \in Domain : cache[d].ver # None =>
       /\ cache[d].ver \in vdirs[d]
       /\ \E S \in SUBSET Unreadable : cache[d].files = CacheDirOf(d, cache[d].ver, S)

\* A restart goes on with the upload that was in progress: the marker on
\* disk and uploading_status name the same version.
RestartKnowsUploads ==
    [][Restart => \A d \in Domain :
          uploading_status[d] # None => uploading_status'[d] = uploading_status[d]
                                        \/ \E t \in Task : /\ task[t].pc = "remove_uploading"
                                                           /\ task[t].dom = d]_vars

\* A restart never puts an older version online than the one that was.
RestartNeverRegresses ==
    [][Restart => \A d \in Domain : cache'[d].ver >= cache[d].ver]_vars

\* What a visitor gets: bytes from memory, or those on disk for a FileBlock.
Visible(d) ==
    [f \in File |-> CASE cache[d].files[f] = FileBlock -> files[d][cache[d].ver][f]
                      [] cache[d].files[f] = Dropped -> NoFile
                      [] OTHER -> cache[d].files[f]]

\* The abstract store: the version online is the one in the cache.
StoreDir == [d \in Domain |-> [v \in Version |->
                [state |-> IF v \in marked[d] THEN "receiving"
                           ELSE IF v \in vdirs[d] THEN "complete" ELSE "absent",
                 files |-> files[d][v]]]]
StoreOnline == [d \in Domain |-> cache[d].ver]
StoreServed == [d \in Domain |-> Visible(d)]

Store == INSTANCE VersionStore WITH
            Data <- Stored, dir <- StoreDir, online <- StoreOnline, served <- StoreServed

\* Requests that do not overlap make of the handlers' steps the abstract
\* store: what visitors get changes only when a release replaces the cache
\* or the process starts, and is then files of one complete version, all of
\* them but those that could not be read.
ImplementsStore == Store!StoreSpec

=============================================================================
