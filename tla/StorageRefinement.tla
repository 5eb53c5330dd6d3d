------------------------- MODULE StorageRefinement -------------------------
(***************************************************************************)
(* DomainStorage implements VersionStore when the requests for one domain  *)
(* do not overlap: every step of a handler changes the directory of one    *)
(* version that is not online, or puts a complete version online, or       *)
(* changes nothing that a visitor or the disk could tell.                  *)
(***************************************************************************)
EXTENDS DomainStorageProofs

USE DEF OptVersion

\* With no version online nothing is cached, so that the cache never names a
\* file of no version.
NothingCached == \A d \in Domain : cache[d].ver = None => cache[d].files = NoFiles

RefInv == SerialInv /\ NothingCached

LEMMA NothingCachedInit == Init => NothingCached
<1> SUFFICES ASSUME Init, NEW d \in Domain, cache[d].ver = None
             PROVE  cache[d].files = NoFiles
    BY DEF NothingCached
<1> QED
  BY DEF Init, InitCache, NotCached

LEMMA NothingCachedNext ==
  ASSUME SerialInv, NothingCached, [Next]_vars
  PROVE  NothingCached'
<1>1. CASE UNCHANGED cache
  BY <1>1 DEF NothingCached, NoFiles
<1>2. ASSUME NEW t \in Task, CacheUpdate(t) PROVE NothingCached'
  <2>1. task[t] \in TaskState /\ task[t].pc = "cache_update"
    BY <1>2 DEF SerialInv, TypeOK, CacheUpdate
  <2>2. task[t].ver # None
    BY <2>1, CacheTaskByPc, NoneIsNoVersion
  <2> QED
    BY <1>2, <2>2 DEF SerialInv, TypeOK, CacheUpdate, NothingCached, NoFiles
<1>3. CASE Restart
  BY <1>3 DEF Restart, InitCache, NotCached, NothingCached, NoFiles
<1>4. ASSUME NEW t \in Task, Request(t) PROVE UNCHANGED cache
  BY <1>4 DEF Request, Release, ReleaseLatest, ReleaseCheck, StatusUploading, StatusFinish,
              SaveFile, Delete
<1>5. ASSUME NEW t \in Task, Step(t), ~CacheUpdate(t) PROVE UNCHANGED cache
  BY <1>5 DEF Step, GoOnline, CacheDir, CreateDir, CreateMarker, InsertUploading,
              RemoveMarker, RemoveUploading, MakeParent, CreateFile, WriteAll,
              RemoveEntry, RemoveDir, RemoveFailed, RemoveDone, IoError
<1>6. CASE UNCHANGED vars
  BY <1>1, <1>6 DEF vars
<1> QED
  BY <1>1, <1>2, <1>3, <1>4, <1>5, <1>6 DEF Next

-----------------------------------------------------------------------------
(* The mapping. *)

\* What visitors get is what is on disk for the version online, but for files
\* that could not be read.
OnDisk(d) ==
    \E S \in SUBSET Unreadable :
       Visible(d) = IF cache[d].ver = None THEN NoFiles
                    ELSE Store!Readable(files[d][cache[d].ver], S)

AllOnDisk == \A d \in Domain : OnDisk(d)

LEMMA NothingVisible ==
  ASSUME NothingCached, NEW d \in Domain, cache[d].ver = None
  PROVE  Visible(d) = NoFiles
<1>1. cache[d].files = NoFiles
  BY DEF NothingCached
<1> QED
  BY <1>1 DEF Visible, NoFiles, NoFile, FileBlock, Dropped

LEMMA VisibleIsOnDisk == RefInv => AllOnDisk
<1> SUFFICES ASSUME RefInv, NEW d \in Domain
             PROVE  OnDisk(d)
    BY DEF AllOnDisk
<1>0. /\ cache[d].ver \in OptVersion
      /\ files \in [Domain -> [Version -> [File -> Stored]]]
  BY DEF RefInv, SerialInv, TypeOK
<1>1. CASE cache[d].ver = None
  BY <1>1, NothingVisible DEF RefInv, OnDisk
<1>2. CASE cache[d].ver # None
  <2>1. PICK S \in SUBSET Unreadable : cache[d].files = CacheDirOf(d, cache[d].ver, S)
    BY <1>2, SerialInvMeaning DEF RefInv, OnlineMatchesDisk
  <2>2. cache[d].ver \in Version
    BY <1>0, <1>2
  <2>3. files[d][cache[d].ver] \in [File -> Stored]
    BY <1>0, <2>2
  <2>4. ASSUME NEW f \in File
        PROVE  Visible(d)[f] = Store!Readable(files[d][cache[d].ver], S)[f]
    <3>1. files[d][cache[d].ver][f] \notin {FileBlock, Dropped}
      BY <2>3, FileAssumption DEF Stored, NoFile, Empty, Torn, Mixed, FileBlock, Dropped
    <3>2. NoFile \notin {FileBlock, Dropped} /\ FileBlock # Dropped
      BY DEF NoFile, FileBlock, Dropped
    <3> QED
      BY <2>1, <3>1, <3>2 DEF Visible, CacheDirOf, Store!Readable
  <2>5. Visible(d) = Store!Readable(files[d][cache[d].ver], S)
    BY <2>4 DEF Visible, Store!Readable
  <2> QED
    BY <1>2, <2>5 DEF OnDisk
<1> QED
  BY <1>1, <1>2

DirState(d, v) ==
    IF v \in marked[d] THEN "receiving" ELSE IF v \in vdirs[d] THEN "complete" ELSE "absent"

LEMMA MappedTypes == RefInv => Store!StoreTypeOK
<1> SUFFICES ASSUME RefInv PROVE Store!StoreTypeOK
    OBVIOUS
<1>1. ASSUME NEW d \in Domain, NEW v \in Version
      PROVE  StoreDir[d][v] \in Store!VersionDir
  <2>1. /\ files[d][v] \in [File -> Stored]
        /\ v \notin vdirs[d] => v \notin marked[d] /\ \A f \in File : files[d][v][f] = NoFile
    BY DEF RefInv, SerialInv, TypeOK
  <2>2. v \notin vdirs[d] => files[d][v] = Store!NoFiles
    BY <2>1 DEF Store!NoFiles
  <2>3. StoreDir[d][v] = [state |-> DirState(d, v), files |-> files[d][v]]
    BY DEF StoreDir, DirState
  <2>4. DirState(d, v) \in {"absent", "receiving", "complete"}
    BY DEF DirState
  <2>5. DirState(d, v) = "absent" => v \notin vdirs[d]
    BY DEF DirState
  <2> QED
    BY <2>1, <2>2, <2>3, <2>4, <2>5 DEF Store!VersionDir
<1>2. StoreDir \in [Domain -> [Version -> Store!VersionDir]]
  BY <1>1 DEF StoreDir
<1>3. StoreOnline \in [Domain -> Version \cup {None}]
  BY DEF StoreOnline, RefInv, SerialInv, TypeOK
<1>4. ASSUME NEW d \in Domain PROVE Visible(d) \in [File -> Stored]
  <2>1. NoFiles \in [File -> Stored]
    BY DEF NoFiles, Stored
  <2>2. cache[d].ver \in OptVersion /\ files \in [Domain -> [Version -> [File -> Stored]]]
    BY DEF RefInv, SerialInv, TypeOK
  <2> QED
    BY <2>1, <2>2, VisibleIsOnDisk DEF OnDisk, AllOnDisk, Store!Readable, Stored
<1> QED
  BY <1>2, <1>3, <1>4 DEF Store!StoreTypeOK, StoreServed

-----------------------------------------------------------------------------
(* The steps. *)

\* A step that leaves the disk and the cache alone.
LEMMA Stutter ==
  ASSUME UNCHANGED <<disk, cache>>
  PROVE  UNCHANGED Store!storeVars
  BY DEF disk, Store!storeVars, StoreDir, StoreOnline, StoreServed, Visible

\* A step that changes one directory, which is not the one online.
LEMMA DirStep ==
  ASSUME RefInv, RefInv', NEW d \in Domain, NEW v \in Version,
         UNCHANGED cache, v # cache[d].ver,
         \A e \in Domain, x \in Version : <<e, x>> # <<d, v>> =>
             /\ x \in vdirs'[e] <=> x \in vdirs[e]
             /\ x \in marked'[e] <=> x \in marked[e]
             /\ files'[e][x] = files[e][x]
  PROVE  Store!StoreNext
<1>1. Store!StoreTypeOK /\ Store!StoreTypeOK'
  BY MappedTypes, PTL
<1>2. NothingCached
  BY DEF RefInv
<1>3. ASSUME NEW e \in Domain PROVE StoreServed'[e] = StoreServed[e]
  <2>1. cache[e].ver \in OptVersion
    BY DEF RefInv, SerialInv, TypeOK
  <2>2. cache[e].ver # None => files'[e][cache[e].ver] = files[e][cache[e].ver]
    BY <2>1
  <2>3. Visible(e)' = Visible(e)
    <3>1. CASE cache[e].ver = None
      <4>1. cache[e].files = NoFiles
        BY <1>2, <3>1 DEF NothingCached
      <4> QED
        BY <4>1 DEF Visible, NoFiles, NoFile, FileBlock, Dropped
    <3>2. CASE cache[e].ver # None
      BY <2>2, <3>2 DEF Visible
    <3> QED
      BY <3>1, <3>2
  <2> QED
    BY <2>3 DEF StoreServed
<1>4. UNCHANGED <<StoreOnline, StoreServed>>
  <2>1. StoreServed' = StoreServed
    BY <1>3 DEF StoreServed
  <2> QED
    BY <2>1 DEF StoreOnline
<1>5. ASSUME NEW e \in Domain, NEW x \in Version, <<e, x>> # <<d, v>>
      PROVE  StoreDir'[e][x] = StoreDir[e][x]
  BY <1>5 DEF StoreDir
<1>6. StoreDir' = [StoreDir EXCEPT ![d][v] = StoreDir'[d][v]]
  <2>1. /\ StoreDir \in [Domain -> [Version -> Store!VersionDir]]
        /\ StoreDir' \in [Domain -> [Version -> Store!VersionDir]]
    BY <1>1 DEF Store!StoreTypeOK
  <2>2. StoreDir'[d] = [StoreDir[d] EXCEPT ![v] = StoreDir'[d][v]]
    BY <1>5, <2>1
  <2>3. \A e \in Domain : e # d => StoreDir'[e] = StoreDir[e]
    BY <1>5, <2>1
  <2> QED
    BY <2>1, <2>2, <2>3
<1>7. Store!Change(d, v, StoreDir'[d][v])
  BY <1>4, <1>6 DEF Store!Change, StoreOnline
<1>8. StoreDir'[d][v] \in Store!VersionDir
  BY <1>1 DEF Store!StoreTypeOK
<1> QED
  BY <1>7, <1>8 DEF Store!StoreNext

\* The release, when its files enter the cache.
LEMMA OnlineStep ==
  ASSUME RefInv, RefInv', NEW t \in Task, CacheUpdate(t)
  PROVE  Store!StoreNext
<1>1. task[t] \in TaskState /\ task[t].pc = "cache_update"
  BY DEF RefInv, SerialInv, TypeOK, CacheUpdate
<1>2. PICK d \in Domain, v \in Version : d = task[t].dom /\ v = task[t].ver
  BY <1>1, CacheTaskByPc
<1>3. /\ cache \in [Domain -> [ver : OptVersion, files : Cached]]
      /\ cache' = [cache EXCEPT ![d] = [ver |-> v, files |-> task[t].snap]]
      /\ UNCHANGED <<vdirs, marked, files>>
  BY <1>2 DEF RefInv, SerialInv, TypeOK, CacheUpdate, disk
<1>4. AllOnDisk /\ AllOnDisk'
  BY VisibleIsOnDisk, PTL
<1>5. v \in Store!Complete(d)
  <2>1. v \in vdirs[d]
    BY <1>1, <1>2 DEF RefInv, SerialInv, VersionTaskInv
  <2>2. MarkedNotOnline'
    BY SerialInvMeaning, PTL DEF RefInv
  <2>3. v \notin marked[d]
    BY <1>2, <1>3, <2>2 DEF MarkedNotOnline
  <2> QED
    BY <1>2, <2>1, <2>3 DEF Store!Complete, StoreDir
<1>6. StoreOnline' = [StoreOnline EXCEPT ![d] = v]
  BY <1>2, <1>3 DEF StoreOnline
<1>7. \E S \in SUBSET Unreadable :
         StoreServed' = [StoreServed EXCEPT ![d] = Store!Readable(StoreDir[d][v].files, S)]
  <2>1. PICK S \in SUBSET Unreadable : Visible(d)' = Store!Readable(files[d][v], S)
    <3>1. cache'[d].ver = v /\ v # None
      BY <1>2, <1>3, NoneIsNoVersion
    <3>2. \E S \in SUBSET Unreadable :
             Visible(d)' = IF cache'[d].ver = None THEN NoFiles
                           ELSE Store!Readable(files'[d][cache'[d].ver], S)
      BY <1>2, <1>4 DEF AllOnDisk, OnDisk, NoFiles
    <3> QED
      BY <1>3, <3>1, <3>2
  <2>2. \A e \in Domain : e # d => Visible(e)' = Visible(e)
    BY <1>2, <1>3 DEF Visible
  <2>3. StoreDir[d][v].files = files[d][v]
    BY <1>2 DEF StoreDir
  <2> QED
    BY <1>2, <2>1, <2>2, <2>3 DEF StoreServed
<1>8. StoreDir' = StoreDir
  BY <1>3 DEF StoreDir
<1> QED
  BY <1>2, <1>5, <1>6, <1>7, <1>8 DEF Store!StoreNext, Store!PutOnline

StoreStep == Store!StoreNext \/ UNCHANGED Store!storeVars

\* The set of one domain that gains or loses a version other than the one
\* online, in vdirs or in marked.
LEMMA OneVersion ==
  ASSUME NEW g \in [Domain -> SUBSET Version], NEW d \in Domain, NEW v \in Version, NEW S,
         S \in {g[d] \cup {v}, g[d] \ {v}}
  PROVE  \A e \in Domain, x \in Version :
            <<e, x>> # <<d, v>> => (x \in [g EXCEPT ![d] = S][e] <=> x \in g[e])
<1> SUFFICES ASSUME NEW e \in Domain, NEW x \in Version, <<e, x>> # <<d, v>>
             PROVE  x \in [g EXCEPT ![d] = S][e] <=> x \in g[e]
    OBVIOUS
<1>1. S \in SUBSET Version
  OBVIOUS
<1>2. [g EXCEPT ![d] = S][e] = IF e = d THEN S ELSE g[e]
  BY <1>1, UpdateSet
<1> QED
  BY <1>2

LEMMA StatusMaps ==
  ASSUME RefInv, RefInv', NEW t \in Task,
         \/ CreateDir(t) \/ CreateMarker(t) \/ InsertUploading(t)
         \/ RemoveMarker(t) \/ RemoveUploading(t)
  PROVE  StoreStep
<1>1. task[t] \in TaskState /\ task[t].pc \in VersionPc
  BY DEF RefInv, SerialInv, TypeOK, VersionPc, CreateDir, CreateMarker, InsertUploading,
         RemoveMarker, RemoveUploading
<1>2. PICK d \in Domain, v \in Version : d = task[t].dom /\ v = task[t].ver
  BY <1>1, VersionTaskByPc
<1>3. /\ vdirs \in [Domain -> SUBSET Version] /\ marked \in [Domain -> SUBSET Version]
      /\ UNCHANGED <<files, cache>>
  BY DEF RefInv, SerialInv, TypeOK, CreateDir, CreateMarker, InsertUploading,
         RemoveMarker, RemoveUploading, disk
<1>4. OnlineMatchesDisk /\ MarkedNotOnline /\ MarkedNotOnline'
  BY SerialInvMeaning, PTL DEF RefInv
<1>5. CASE UNCHANGED disk
  BY <1>3, <1>5, Stutter DEF StoreStep
<1>6. CASE CreateDir(t) /\ ~UNCHANGED disk
  <2>1. vdirs' = [vdirs EXCEPT ![d] = vdirs[d] \cup {v}] /\ UNCHANGED marked
    BY <1>2, <1>3, <1>6 DEF CreateDir, disk
  <2>2. v # cache[d].ver
    <3> SUFFICES ASSUME v = cache[d].ver PROVE UNCHANGED vdirs
      BY <1>3, <1>6, <2>1 DEF disk
    <3>1. v \in vdirs[d]
      BY <1>4, NoneIsNoVersion DEF OnlineMatchesDisk
    <3> QED
      BY <1>3, <2>1, <3>1
  <2> QED
    BY <1>3, <2>1, <2>2, OneVersion, DirStep DEF StoreStep
<1>7. CASE CreateMarker(t) /\ ~UNCHANGED disk
  <2>1. marked' = [marked EXCEPT ![d] = marked[d] \cup {v}] /\ UNCHANGED vdirs
    BY <1>2, <1>3, <1>7 DEF CreateMarker, disk
  <2>2. v # cache[d].ver
    BY <1>3, <1>4, <2>1, UpdateSet DEF MarkedNotOnline
  <2> QED
    BY <1>3, <2>1, <2>2, OneVersion, DirStep DEF StoreStep
<1>8. CASE RemoveMarker(t) /\ ~UNCHANGED disk
  <2>1. marked' = [marked EXCEPT ![d] = marked[d] \ {v}] /\ UNCHANGED vdirs /\ v \in marked[d]
    BY <1>2, <1>3, <1>8 DEF RemoveMarker, disk
  <2>2. v # cache[d].ver
    BY <1>4, <2>1 DEF MarkedNotOnline
  <2> QED
    BY <1>3, <2>1, <2>2, OneVersion, DirStep DEF StoreStep
<1>9. CASE InsertUploading(t) \/ RemoveUploading(t)
  BY <1>5, <1>9 DEF InsertUploading, RemoveUploading
<1> QED
  BY <1>5, <1>6, <1>7, <1>8, <1>9

LEMMA SaveMaps ==
  ASSUME RefInv, RefInv', NEW t \in Task, MakeParent(t) \/ CreateFile(t) \/ WriteAll(t)
  PROVE  StoreStep
<1>1. task[t] \in TaskState /\ task[t].pc \in SavePc
  BY DEF RefInv, SerialInv, TypeOK, SavePc, MakeParent, CreateFile, WriteAll
<1>2. PICK d \in Domain, v \in Version, f \in File :
          d = task[t].dom /\ v = task[t].ver /\ f = task[t].file
  BY <1>1, SaveTaskByPc
<1>3. /\ vdirs \in [Domain -> SUBSET Version]
      /\ files \in [Domain -> [Version -> [File -> Stored]]]
      /\ UNCHANGED <<marked, cache>>
  BY DEF RefInv, SerialInv, TypeOK, MakeParent, CreateFile, WriteAll
<1>4. v # cache[d].ver
  BY <1>1, <1>2, NoneIsNoVersion DEF RefInv, SerialInv, VersionTaskInv, DomainInv, OnlineSafe
<1>5. CASE MakeParent(t)
  <2>1. vdirs' = [vdirs EXCEPT ![d] = vdirs[d] \cup {v}] /\ UNCHANGED files
    BY <1>2, <1>5 DEF MakeParent
  <2> QED
    BY <1>3, <1>4, <2>1, OneVersion, DirStep DEF StoreStep
<1>6. ASSUME NEW w, files' = [files EXCEPT ![d][v][f] = w], UNCHANGED vdirs
      PROVE  StoreStep
  <2>1. \A e \in Domain, x \in Version : <<e, x>> # <<d, v>> => files'[e][x] = files[e][x]
    BY <1>3, <1>6
  <2> QED
    BY <1>3, <1>4, <1>6, <2>1, DirStep DEF StoreStep
<1>7. CASE UNCHANGED <<vdirs, files>>
  BY <1>3, <1>7, Stutter DEF StoreStep, disk
<1>8. CASE CreateFile(t)
  BY SMTT(30), <1>2, <1>6, <1>7, <1>8 DEF CreateFile
<1>9. CASE WriteAll(t)
  <2>1. \/ UNCHANGED files
        \/ \E w \in Overwritten(files[d][v][f], task[t].data) :
              files' = [files EXCEPT ![d][v][f] = w]
    BY <1>2, <1>9 DEF WriteAll
  <2>2. UNCHANGED vdirs
    BY <1>9 DEF WriteAll
  <2>3. CASE UNCHANGED files
    BY <1>7, <2>2, <2>3
  <2>4. ASSUME NEW w, files' = [files EXCEPT ![d][v][f] = w] PROVE StoreStep
    BY <1>6, <2>2, <2>4
  <2> QED
    BY <2>1, <2>3, <2>4
<1> QED
  BY <1>5, <1>8, <1>9

LEMMA RemoveMaps ==
  ASSUME RefInv, RefInv', NEW t \in Task,
         RemoveEntry(t) \/ RemoveDir(t) \/ RemoveFailed(t) \/ RemoveDone(t)
  PROVE  StoreStep
<1>1. task[t] \in TaskState /\ task[t].pc = "remove" /\ task[t].doomed \subseteq Domain \X Version
  BY RemoveTaskByPc DEF RefInv, SerialInv, TypeOK, RemoveEntry, RemoveDir, RemoveFailed, RemoveDone
<1>2. /\ vdirs \in [Domain -> SUBSET Version] /\ marked \in [Domain -> SUBSET Version]
      /\ files \in [Domain -> [Version -> [File -> Stored]]]
      /\ UNCHANGED cache
  BY DEF RefInv, SerialInv, TypeOK, RemoveEntry, RemoveDir, RemoveFailed, RemoveDone
\* A delete has the domains of its versions to itself, so that meta, which it
\* chose them by, is still what is online.
<1>3. ASSUME NEW d \in Domain, NEW v \in Version, <<d, v>> \in task[t].doomed
      PROVE  v # cache[d].ver
  <2>1. d \in Touched(task[t])
    BY <1>1, <1>3, TouchedByPc
  <2>2. \A u \in Task : u # t => d \notin Touched(task[u])
    BY <1>1, <2>1 DEF RefInv, SerialInv, Exclusive, SavePc
  <2>3. meta[d] = cache[d].ver
    BY <1>1, <2>2, QuietDomain DEF RefInv
  <2> QED
    BY <1>1, <1>3, <2>3 DEF RefInv, SerialInv, RemoveTaskInv
<1>4. ASSUME NEW p \in task[t].doomed
      PROVE  /\ p[1] \in Domain /\ p[2] \in Version /\ p[2] # cache[p[1]].ver
             /\ p = <<p[1], p[2]>>
  <2>1. p[1] \in Domain /\ p[2] \in Version /\ p = <<p[1], p[2]>>
    BY <1>1
  <2> QED
    BY <1>3, <2>1
<1>5. CASE RemoveEntry(t)
  <2>1. PICK p \in task[t].doomed :
          \/ /\ marked' = [marked EXCEPT ![p[1]] = marked[p[1]] \ {p[2]}]
             /\ UNCHANGED files
          \/ \E f \in File : /\ files' = [files EXCEPT ![p[1]][p[2]][f] = NoFile]
                             /\ UNCHANGED marked
    BY <1>5 DEF RemoveEntry
  <2>2. PICK d \in Domain, v \in Version : d = p[1] /\ v = p[2] /\ v # cache[d].ver
    BY <1>4
  <2>3. UNCHANGED vdirs
    BY <1>5 DEF RemoveEntry
  <2>4. CASE marked' = [marked EXCEPT ![d] = marked[d] \ {v}] /\ UNCHANGED files
    <3>1. \A e \in Domain, x \in Version :
             <<e, x>> # <<d, v>> => (x \in marked'[e] <=> x \in marked[e])
      BY <1>2, <2>4, OneVersion
    <3> QED
      BY <1>2, <2>2, <2>3, <2>4, <3>1, DirStep DEF StoreStep
  <2>5. ASSUME NEW f \in File, files' = [files EXCEPT ![d][v][f] = NoFile], UNCHANGED marked
        PROVE  StoreStep
    <3>1. \A e \in Domain, x \in Version : <<e, x>> # <<d, v>> => files'[e][x] = files[e][x]
      BY <1>2, <2>5
    <3> QED
      BY <1>2, <2>2, <2>3, <2>5, <3>1, DirStep DEF StoreStep
  <2> QED
    BY <2>1, <2>2, <2>4, <2>5
<1>6. CASE RemoveDir(t)
  <2>1. PICK p \in task[t].doomed : vdirs' = [vdirs EXCEPT ![p[1]] = vdirs[p[1]] \ {p[2]}]
    BY <1>6 DEF RemoveDir
  <2>2. PICK d \in Domain, v \in Version : d = p[1] /\ v = p[2] /\ v # cache[d].ver
    BY <1>4
  <2>3. UNCHANGED <<marked, files>>
    BY <1>6 DEF RemoveDir
  <2>4. vdirs' = [vdirs EXCEPT ![d] = vdirs[d] \ {v}]
    BY <2>1, <2>2
  <2>5. \A e \in Domain, x \in Version :
           <<e, x>> # <<d, v>> => (x \in vdirs'[e] <=> x \in vdirs[e])
    BY <1>2, <2>4, OneVersion
  <2> QED
    BY <1>2, <2>2, <2>3, <2>5, DirStep DEF StoreStep
<1>7. CASE RemoveFailed(t) \/ RemoveDone(t)
  BY <1>7, Stutter DEF RemoveFailed, RemoveDone, StoreStep
<1> QED
  BY <1>5, <1>6, <1>7

\* The process has just started.
Fresh == \A d \in Domain : InitMeta(d, cache[d].ver)

LEMMA NewestIsOnline ==
  RefInv /\ Fresh => \A d \in Domain :
     /\ Store!Newest(d, StoreOnline[d])
     /\ \E S \in SUBSET Unreadable : StoreServed[d] = Store!FilesOf(d, StoreOnline[d], S)
<1> SUFFICES ASSUME RefInv, Fresh, NEW d \in Domain
             PROVE  /\ Store!Newest(d, StoreOnline[d])
                    /\ \E S \in SUBSET Unreadable :
                          StoreServed[d] = Store!FilesOf(d, StoreOnline[d], S)
    OBVIOUS
<1>1. /\ vdirs[d] \in SUBSET Version /\ cache[d].ver \in OptVersion
      /\ InitMeta(d, cache[d].ver)
      /\ OnDisk(d)
  BY VisibleIsOnDisk DEF RefInv, SerialInv, TypeOK, Fresh, AllOnDisk
<1>2. Store!Complete(d) = vdirs[d] \ marked[d]
  <2>1. \A v \in Version : StoreDir[d][v].state = DirState(d, v)
    BY DEF StoreDir, DirState
  <2>2. \A v \in Version : DirState(d, v) = "complete" <=> v \in vdirs[d] \ marked[d]
    BY DEF DirState
  <2> QED
    BY <1>1, <2>1, <2>2 DEF Store!Complete
<1>3. Store!Newest(d, StoreOnline[d])
  BY <1>1, <1>2 DEF Store!Newest, StoreOnline, InitMeta, IsMax
<1>4. StoreOnline[d] = cache[d].ver /\ StoreServed[d] = Visible(d) /\ Store!NoFiles = NoFiles
  BY DEF StoreOnline, StoreServed, Store!NoFiles, NoFiles
<1>5. \A v \in Version : StoreDir[d][v].files = files[d][v]
  BY DEF StoreDir
<1> QED
  BY <1>1, <1>3, <1>4, <1>5 DEF OnDisk, Store!FilesOf

LEMMA RestartMaps ==
  ASSUME RefInv, RefInv', Restart
  PROVE  Store!StoreNext
<1>1. \A d \in Domain : InitMeta(d, meta'[d]) /\ cache'[d].ver = meta'[d]
  BY DEF Restart, InitCache, NotCached
<1>2. UNCHANGED <<vdirs, marked, files>>
  BY DEF Restart, disk
<1>3. Fresh'
  BY <1>1, <1>2 DEF Fresh, InitMeta
<1>4. Store!StoreTypeOK'
  BY MappedTypes, PTL
<1>5. (\A d \in Domain :
          /\ Store!Newest(d, StoreOnline[d])
          /\ \E S \in SUBSET Unreadable :
                StoreServed[d] = Store!FilesOf(d, StoreOnline[d], S))'
  BY <1>3, NewestIsOnline, PTL
<1>6. StoreDir' = StoreDir
  BY <1>2 DEF StoreDir
<1>7. Store!Reload
  BY <1>5, <1>6 DEF Store!Reload, Store!Newest, Store!Complete, Store!FilesOf
<1> QED
  BY <1>4, <1>7 DEF Store!StoreNext

LEMMA StoreInitially == Init => Store!StoreInit
<1> SUFFICES ASSUME Init PROVE Store!StoreInit
    OBVIOUS
<1>1. RefInv
  BY SerialInit, NothingCachedInit DEF RefInv
<1>2. Fresh
  BY DEF Init, Fresh, InitCache, NotCached
<1> QED
  BY <1>1, <1>2, MappedTypes, NewestIsOnline DEF Store!StoreInit

LEMMA RefNext ==
  ASSUME RefInv, RefInv', [Next]_vars
  PROVE  StoreStep
<1>1. CASE UNCHANGED vars
  BY <1>1, Stutter DEF vars, disk, StoreStep
<1>2. ASSUME NEW t \in Task, Request(t) PROVE StoreStep
  <2>1. UNCHANGED <<disk, cache>>
    BY <1>2 DEF Request, Release, ReleaseLatest, ReleaseCheck, StatusUploading, StatusFinish,
                SaveFile, Delete
  <2> QED
    BY <2>1, Stutter DEF StoreStep
<1>3. ASSUME NEW t \in Task, Step(t) PROVE StoreStep
  <2>1. CASE GoOnline(t) \/ CacheDir(t) \/ IoError(t)
    BY <2>1, Stutter DEF GoOnline, CacheDir, IoError, StoreStep
  <2> QED
    BY <1>3, <2>1, OnlineStep, StatusMaps, SaveMaps, RemoveMaps DEF Step, StoreStep
<1>4. CASE Restart
  BY <1>4, RestartMaps DEF StoreStep
<1> QED
  BY <1>1, <1>2, <1>3, <1>4 DEF Next

(***************************************************************************)
(* When the requests for one domain do not overlap and no delete makes     *)
(* max_version - max_reserve wrap, the handlers implement the abstract     *)
(* store, across I/O errors and crashes: what visitors get changes only    *)
(* when a complete version is put online as a whole, or at a start.        *)
(***************************************************************************)
THEOREM ImplementsVersionStore ==
  ASSUME Serialised, NoUnderflow
  PROVE  Spec => ImplementsStore
<1>1. RefInv /\ [Next]_vars => RefInv'
  BY SerialNext, NothingCachedNext DEF RefInv
<1>2. Init => RefInv
  BY SerialInit, NothingCachedInit DEF RefInv
<1>3. RefInv /\ RefInv' /\ [Next]_vars => [Store!StoreNext]_(Store!storeVars)
  BY RefNext DEF StoreStep
<1> QED
  BY <1>1, <1>2, <1>3, StoreInitially, PTL DEF Spec, ImplementsStore, Store!StoreSpec
=============================================================================
