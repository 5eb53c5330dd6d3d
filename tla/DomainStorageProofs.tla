------------------------ MODULE DomainStorageProofs ------------------------
(***************************************************************************)
(* Proofs about DomainStorage.                                             *)
(***************************************************************************)
EXTENDS DomainStorage, TLAPS

USE DEF OptVersion

-----------------------------------------------------------------------------
(* What the label of a handler says about its local variables. *)

LEMMA IdleTask == Idle \in TaskState /\ Idle.pc = "idle"
  BY DEF Idle, TaskState

LEMMA VersionTaskByPc ==
  ASSUME NEW s \in TaskState, s.pc \in VersionPc
  PROVE  s \in VersionTask /\ s.dom \in Domain /\ s.ver \in Version
  BY DEF TaskState, Idle, VersionTask, CacheTask, SaveTask, RemoveTask, VersionPc, SavePc

LEMMA CacheTaskByPc ==
  ASSUME NEW s \in TaskState, s.pc = "cache_update"
  PROVE  /\ s \in CacheTask /\ s.dom \in Domain /\ s.ver \in Version
         /\ s.snap \in Cached
  BY DEF TaskState, Idle, VersionTask, CacheTask, SaveTask, RemoveTask, VersionPc, SavePc

LEMMA SaveTaskByPc ==
  ASSUME NEW s \in TaskState, s.pc \in SavePc
  PROVE  /\ s \in SaveTask /\ s.dom \in Domain /\ s.ver \in Version
         /\ s.file \in File /\ s.data \in Body
  BY DEF TaskState, Idle, VersionTask, CacheTask, SaveTask, RemoveTask, VersionPc, SavePc

LEMMA RemoveTaskByPc ==
  ASSUME NEW s \in TaskState, s.pc = "remove"
  PROVE  s \in RemoveTask /\ s.doomed \subseteq Domain \X Version
  BY DEF TaskState, Idle, VersionTask, CacheTask, SaveTask, RemoveTask, VersionPc, SavePc

LEMMA Relabel ==
  ASSUME NEW s, NEW l,
         \/ s \in VersionTask /\ l \in VersionPc
         \/ s \in SaveTask /\ l \in SavePc
  PROVE  [s EXCEPT !.pc = l] \in TaskState
  BY DEF TaskState, VersionTask, SaveTask

\* What the walk over the files F of a version directory may find: all of
\* them but some that cannot be read.
Fills(C, F) ==
    \E S \in SUBSET Unreadable :
       C = [f \in File |-> CASE F[f] = NoFile -> NoFile
                             [] F[f] # NoFile /\ f \in S -> Dropped
                             [] F[f] # NoFile /\ f \in LargeFile \ S -> FileBlock
                             [] OTHER -> F[f]]

LEMMA CacheDirFills ==
  ASSUME NEW d, NEW v
  PROVE  /\ \A S \in SUBSET Unreadable : Fills(CacheDirOf(d, v, S), files[d][v])
         /\ \A C : Fills(C, files[d][v]) => \E S \in SUBSET Unreadable : C = CacheDirOf(d, v, S)
  BY DEF Fills, CacheDirOf

LEMMA CacheDirType ==
  ASSUME NEW d \in Domain, NEW v \in Version, NEW S,
         files \in [Domain -> [Version -> [File -> Stored]]]
  PROVE  CacheDirOf(d, v, S) \in Cached
<1>1. \A f \in File : files[d][v][f] \in Stored
  OBVIOUS
<1> QED
  BY <1>1 DEF CacheDirOf, Cached, Stored

LEMMA BootType ==
  ASSUME NEW d \in Domain, NEW v \in OptVersion, NEW S,
         files \in [Domain -> [Version -> [File -> Stored]]]
  PROVE  InitCache(d, v, S) \in [ver : OptVersion, files : Cached]
<1>1. NoFiles \in Cached
  BY DEF NoFiles, Cached, Stored
<1>2. CASE v = None
  BY <1>1, <1>2 DEF InitCache, NotCached
<1>3. CASE v # None
  <2>1. v \in Version
    BY <1>3
  <2> QED
    BY <1>3, <2>1, CacheDirType DEF InitCache
<1> QED
  BY <1>2, <1>3

\* Changing the set of one domain.
LEMMA UpdateSet ==
  ASSUME NEW g \in [Domain -> SUBSET Version], NEW d \in Domain, NEW S \in SUBSET Version
  PROVE  /\ [g EXCEPT ![d] = S] \in [Domain -> SUBSET Version]
         /\ \A e \in Domain : [g EXCEPT ![d] = S][e] = IF e = d THEN S ELSE g[e]
  OBVIOUS

LEMMA TypeInit == Init => TypeOK
<1> SUFFICES ASSUME Init PROVE TypeOK
    OBVIOUS
<1>1. files \in [Domain -> [Version -> [File -> Stored]]]
  BY DEF Init, Stored
<1>2. cache \in [Domain -> [ver : OptVersion, files : Cached]]
  <2>1. PICK S : cache = [d \in Domain |-> InitCache(d, meta[d], S[d])]
    BY DEF Init
  <2>2. \A d \in Domain : InitCache(d, meta[d], S[d]) \in [ver : OptVersion, files : Cached]
    BY <1>1, BootType DEF Init
  <2> QED
    BY <2>1, <2>2
<1>3. vdirs \in [Domain -> SUBSET Version]
  BY RequestAssumption DEF Init
<1>4. task \in [Task -> TaskState]
  BY IdleTask DEF Init
<1>5. \A d \in Domain : \A v \in Version \ vdirs[d] : \A f \in File : files[d][v][f] = NoFile
  BY DEF Init
<1> QED
  BY <1>1, <1>2, <1>3, <1>4, <1>5 DEF Init, TypeOK

LEMMA TypeRequest ==
  ASSUME TypeOK, NEW t \in Task, Request(t)
  PROVE  TypeOK'
<1>1. /\ UNCHANGED <<vdirs, marked, files, meta, uploading_status, cache>>
      /\ task' \in [Task -> TaskState]
  <2>1. ASSUME NEW d \in Domain, NEW v \in Version, NEW l \in VersionPc
        PROVE  [pc |-> l, dom |-> d, ver |-> v] \in TaskState
    BY DEF TaskState, VersionTask
  <2>2. ASSUME NEW d \in Domain, NEW v \in Version, ReleaseCheck(t, d, v)
        PROVE  <1>1!1 /\ <1>1!2
    BY <2>1, <2>2 DEF ReleaseCheck, disk, TypeOK, VersionPc
  <2>3. ASSUME NEW d \in Domain, Release(t, d) PROVE <1>1!1 /\ <1>1!2
    BY <2>2, <2>3, RequestAssumption DEF Release
  <2>4. ASSUME NEW d \in Domain, ReleaseLatest(t, d) PROVE <1>1!1 /\ <1>1!2
    BY <2>2, <2>4 DEF ReleaseLatest, TypeOK
  <2>5. ASSUME NEW d \in Domain, StatusUploading(t, d) PROVE <1>1!1 /\ <1>1!2
    <3>1. PICK v \in ReqVersion :
              task' = [task EXCEPT ![t] = [pc |-> "create_dir", dom |-> d, ver |-> v]]
      BY <2>5 DEF StatusUploading
    <3>2. [pc |-> "create_dir", dom |-> d, ver |-> v] \in TaskState
      BY <2>1, RequestAssumption DEF VersionPc
    <3> QED
      BY <2>5, <3>1, <3>2 DEF StatusUploading, disk, TypeOK
  <2>6. ASSUME NEW d \in Domain, StatusFinish(t, d) PROVE <1>1!1 /\ <1>1!2
    <3>1. PICK v \in ReqVersion :
              task' = [task EXCEPT ![t] = [pc |-> "remove_marker", dom |-> d, ver |-> v]]
      BY <2>6 DEF StatusFinish
    <3>2. [pc |-> "remove_marker", dom |-> d, ver |-> v] \in TaskState
      BY <2>1, RequestAssumption DEF VersionPc
    <3> QED
      BY <2>6, <3>1, <3>2 DEF StatusFinish, disk, TypeOK
  <2>7. ASSUME NEW d \in Domain, SaveFile(t, d) PROVE <1>1!1 /\ <1>1!2
    <3>1. ASSUME NEW v \in Version, NEW f \in File, NEW c \in Body
          PROVE  [pc |-> "make_parent", dom |-> d, ver |-> v, file |-> f, data |-> c]
                     \in TaskState
      BY DEF TaskState, SaveTask, SavePc
    <3> QED
      BY <2>7, <3>1, RequestAssumption DEF SaveFile, disk, TypeOK
  <2>8. ASSUME Delete(t) PROVE <1>1!1 /\ <1>1!2
    <3>1. PICK D \in {Domain} \cup {{d} : d \in Domain}, r \in Reserve :
              task' = [task EXCEPT ![t] =
                         [pc |-> "remove",
                          doomed |-> {p \in D \X Version : p[2] \in DeleteVersions(p[1], r)}]]
      BY <2>8 DEF Delete
    <3>2. {p \in D \X Version : p[2] \in DeleteVersions(p[1], r)} \in SUBSET (Domain \X Version)
      OBVIOUS
    <3>3. [pc |-> "remove", doomed |-> {p \in D \X Version : p[2] \in DeleteVersions(p[1], r)}]
              \in TaskState
      BY <3>2 DEF TaskState, RemoveTask
    <3> QED
      BY <2>8, <3>1, <3>3 DEF Delete, disk, TypeOK
  <2> QED
    BY <2>3, <2>4, <2>5, <2>6, <2>7, <2>8 DEF Request
<1> QED
  BY <1>1 DEF TypeOK

\* A step that leaves the disk and the maps alone only has to keep task typed.
LEMMA TypeGoto ==
  ASSUME TypeOK, NEW t \in Task,
         \/ Respond(t)
         \/ \E l : /\ Goto(t, l)
                   /\ \/ task[t] \in VersionTask /\ l \in VersionPc
                      \/ task[t] \in SaveTask /\ l \in SavePc
  PROVE  task' \in [Task -> TaskState]
<1>1. CASE Respond(t)
  BY <1>1, IdleTask DEF TypeOK, Respond
<1>2. ASSUME NEW l, Goto(t, l),
             \/ task[t] \in VersionTask /\ l \in VersionPc
             \/ task[t] \in SaveTask /\ l \in SavePc
      PROVE  task' \in [Task -> TaskState]
  <2>1. [task[t] EXCEPT !.pc = l] \in TaskState
    BY <1>2, Relabel
  <2> QED
    BY <1>2, <2>1 DEF TypeOK, Goto
<1> QED
  BY <1>1, <1>2

LEMMA TypeRelease ==
  ASSUME TypeOK, NEW t \in Task, GoOnline(t) \/ CacheDir(t) \/ CacheUpdate(t)
  PROVE  TypeOK'
<1>0. task[t] \in TaskState
  BY DEF TypeOK
<1>1. CASE GoOnline(t)
  <2>1. task[t] \in VersionTask /\ task[t].dom \in Domain /\ task[t].ver \in Version
    BY <1>0, <1>1, VersionTaskByPc DEF GoOnline, VersionPc
  <2>2. task' \in [Task -> TaskState]
    BY <1>1, <2>1, TypeGoto DEF GoOnline, VersionPc
  <2>3. meta' \in [Domain -> OptVersion]
    BY <1>1, <2>1 DEF GoOnline, TypeOK
  <2> QED
    BY <1>1, <2>2, <2>3 DEF GoOnline, disk, TypeOK
<1>2. CASE CacheDir(t)
  <2>1. task[t].dom \in Domain /\ task[t].ver \in Version
    BY <1>0, <1>2, VersionTaskByPc DEF CacheDir, VersionPc
  <2>2. \A S : CacheDirOf(task[t].dom, task[t].ver, S) \in Cached
    BY <2>1, CacheDirType DEF TypeOK
  <2>3. \A S : [pc |-> "cache_update", dom |-> task[t].dom, ver |-> task[t].ver,
                snap |-> CacheDirOf(task[t].dom, task[t].ver, S)] \in TaskState
    BY <2>1, <2>2 DEF TaskState, CacheTask
  <2> QED
    BY <1>2, <2>3 DEF CacheDir, disk, TypeOK
<1>3. CASE CacheUpdate(t)
  <2>1. task[t].dom \in Domain /\ task[t].ver \in Version /\ task[t].snap \in Cached
    BY <1>0, <1>3, CacheTaskByPc DEF CacheUpdate
  <2>2. cache' \in [Domain -> [ver : OptVersion, files : Cached]]
    BY <1>3, <2>1 DEF CacheUpdate, TypeOK
  <2>3. task' \in [Task -> TaskState]
    BY <1>3, TypeGoto DEF CacheUpdate
  <2> QED
    BY <1>3, <2>2, <2>3 DEF CacheUpdate, disk, TypeOK
<1> QED
  BY <1>1, <1>2, <1>3

LEMMA TypeStatus ==
  ASSUME TypeOK, NEW t \in Task,
         \/ CreateDir(t) \/ CreateMarker(t) \/ InsertUploading(t)
         \/ RemoveMarker(t) \/ RemoveUploading(t)
  PROVE  TypeOK'
<1>0. task[t] \in VersionTask /\ task[t].dom \in Domain /\ task[t].ver \in Version
  BY VersionTaskByPc DEF TypeOK, VersionPc, CreateDir, CreateMarker, InsertUploading,
                         RemoveMarker, RemoveUploading
<1>1. task' \in [Task -> TaskState]
  BY <1>0, TypeGoto DEF VersionPc, CreateDir, CreateMarker, InsertUploading,
                        RemoveMarker, RemoveUploading
<1>2. CASE CreateDir(t)
  <2>1. vdirs' \in [Domain -> SUBSET Version] /\ \A d \in Domain : vdirs[d] \subseteq vdirs'[d]
    <3> DEFINE d == task[t].dom
               S == vdirs[d] \cup {task[t].ver}
    <3>1. vdirs \in [Domain -> SUBSET Version] /\ S \in SUBSET Version
      BY <1>0 DEF TypeOK
    <3>2. vdirs' = vdirs \/ vdirs' = [vdirs EXCEPT ![d] = S]
      BY <1>2 DEF CreateDir
    <3>3. CASE vdirs' = vdirs
      BY <3>1, <3>3 DEF TypeOK
    <3>4. CASE vdirs' = [vdirs EXCEPT ![d] = S]
      <4>1. /\ vdirs' \in [Domain -> SUBSET Version]
            /\ \A e \in Domain : vdirs'[e] = IF e = d THEN S ELSE vdirs[e]
        BY <1>0, <3>1, <3>4, UpdateSet
      <4> QED
        BY <4>1, <1>0, <3>4 DEF TypeOK
    <3> QED
      BY <3>2, <3>3, <3>4
  <2> QED
    BY <1>1, <1>2, <2>1 DEF TypeOK, CreateDir
<1>3. CASE CreateMarker(t)
  <2>1. marked' \in [Domain -> SUBSET Version] /\ \A d \in Domain : marked'[d] \subseteq vdirs[d]
    <3> DEFINE d == task[t].dom
               S == marked[d] \cup {task[t].ver}
    <3>1. marked \in [Domain -> SUBSET Version] /\ S \in SUBSET Version
      BY <1>0 DEF TypeOK
    <3>2. marked' = marked \/ (marked' = [marked EXCEPT ![d] = S] /\ task[t].ver \in vdirs[d])
      BY <1>3 DEF CreateMarker
    <3>3. CASE marked' = marked
      BY <3>1, <3>3 DEF TypeOK
    <3>4. CASE marked' = [marked EXCEPT ![d] = S] /\ task[t].ver \in vdirs[d]
      <4>1. /\ marked' \in [Domain -> SUBSET Version]
            /\ \A e \in Domain : marked'[e] = IF e = d THEN S ELSE marked[e]
        BY <1>0, <3>1, <3>4, UpdateSet
      <4> QED
        BY <4>1, <1>0, <3>4 DEF TypeOK
    <3> QED
      BY <3>2, <3>3, <3>4
  <2> QED
    BY <1>1, <1>3, <2>1 DEF TypeOK, CreateMarker
<1>4. CASE InsertUploading(t)
  BY <1>0, <1>1, <1>4 DEF TypeOK, InsertUploading, disk
<1>5. CASE RemoveMarker(t)
  <2>1. marked' \in [Domain -> SUBSET Version] /\ \A d \in Domain : marked'[d] \subseteq vdirs[d]
    <3> DEFINE d == task[t].dom
               S == marked[d] \ {task[t].ver}
    <3>1. marked \in [Domain -> SUBSET Version] /\ S \in SUBSET Version
      BY <1>0 DEF TypeOK
    <3>2. marked' = marked \/ marked' = [marked EXCEPT ![d] = S]
      BY <1>5 DEF RemoveMarker
    <3>3. CASE marked' = marked
      BY <3>1, <3>3 DEF TypeOK
    <3>4. CASE marked' = [marked EXCEPT ![d] = S]
      <4>1. /\ marked' \in [Domain -> SUBSET Version]
            /\ \A e \in Domain : marked'[e] = IF e = d THEN S ELSE marked[e]
        BY <1>0, <3>1, <3>4, UpdateSet
      <4> QED
        BY <4>1, <1>0, <3>4 DEF TypeOK
    <3> QED
      BY <3>2, <3>3, <3>4
  <2> QED
    BY <1>1, <1>5, <2>1 DEF TypeOK, RemoveMarker
<1>6. CASE RemoveUploading(t)
  BY <1>0, <1>1, <1>6 DEF TypeOK, RemoveUploading, disk
<1> QED
  BY <1>2, <1>3, <1>4, <1>5, <1>6

LEMMA TypeSave ==
  ASSUME TypeOK, NEW t \in Task, MakeParent(t) \/ CreateFile(t) \/ WriteAll(t)
  PROVE  TypeOK'
<1> DEFINE d == task[t].dom
           v == task[t].ver
           f == task[t].file
<1>0. /\ task[t] \in SaveTask /\ d \in Domain /\ v \in Version
      /\ f \in File /\ task[t].data \in Body
  BY SaveTaskByPc DEF TypeOK, SavePc, MakeParent, CreateFile, WriteAll
<1>1. task' \in [Task -> TaskState]
  BY <1>0, TypeGoto DEF SavePc, MakeParent, CreateFile, WriteAll
<1>2. CASE MakeParent(t)
  <2>1. vdirs \in [Domain -> SUBSET Version] /\ vdirs[d] \cup {v} \in SUBSET Version
    BY <1>0 DEF TypeOK
  <2>2. vdirs' = [vdirs EXCEPT ![d] = vdirs[d] \cup {v}]
    BY <1>2 DEF MakeParent
  <2>3. /\ vdirs' \in [Domain -> SUBSET Version]
        /\ \A e \in Domain : vdirs'[e] = IF e = d THEN vdirs[d] \cup {v} ELSE vdirs[e]
    BY <1>0, <2>1, <2>2, UpdateSet
  <2>4. \A e \in Domain : vdirs[e] \subseteq vdirs'[e]
    BY <2>3
  <2> QED
    BY <1>1, <1>2, <2>3, <2>4 DEF MakeParent, TypeOK
<1>3. ASSUME NEW w \in Stored, v \in vdirs[d],
             files' = [files EXCEPT ![d][v][f] = w],
             UNCHANGED <<vdirs, marked, meta, uploading_status, cache>>
      PROVE  TypeOK'
  <2>1. files \in [Domain -> [Version -> [File -> Stored]]]
    BY DEF TypeOK
  <2>2. files' \in [Domain -> [Version -> [File -> Stored]]]
    BY <1>0, <1>3, <2>1
  <2>3. ASSUME NEW e \in Domain, NEW x \in Version \ vdirs[e], NEW g \in File
        PROVE  files'[e][x][g] = NoFile
    <3>1. files'[e][x] = files[e][x]
      BY <1>0, <1>3, <2>1
    <3> QED
      BY <3>1 DEF TypeOK
  <2> QED
    BY <1>1, <1>3, <2>2, <2>3 DEF TypeOK
<1>4. CASE CreateFile(t)
  <2>1. CASE v \in vdirs[d]
    BY <1>3, <1>4, <2>1 DEF CreateFile, Stored
  <2>2. CASE v \notin vdirs[d]
    BY <1>1, <1>4, <2>2 DEF CreateFile, TypeOK
  <2> QED
    BY <2>1, <2>2
<1>5. CASE WriteAll(t)
  <2>1. CASE files[d][v][f] = NoFile
    BY <1>1, <1>5, <2>1 DEF WriteAll, TypeOK
  <2>2. CASE files[d][v][f] # NoFile
    <3>1. v \in vdirs[d]
      BY <1>0, <2>2 DEF TypeOK
    <3>2. PICK w \in Overwritten(files[d][v][f], task[t].data) :
                 files' = [files EXCEPT ![d][v][f] = w]
      BY <1>5, <2>2 DEF WriteAll
    <3>3. w \in Stored
      <4>1. files[d][v][f] \in Stored
        BY <1>0 DEF TypeOK
      <4> QED
        BY <1>0, <3>2, <4>1 DEF Overwritten, Stored, Body
    <3> QED
      BY <1>3, <1>5, <3>1, <3>2, <3>3 DEF WriteAll
  <2> QED
    BY <2>1, <2>2
<1> QED
  BY <1>2, <1>4, <1>5

LEMMA TypeRemove ==
  ASSUME TypeOK, NEW t \in Task,
         RemoveEntry(t) \/ RemoveDir(t) \/ RemoveFailed(t) \/ RemoveDone(t)
  PROVE  TypeOK'
<1>0. task[t] \in RemoveTask /\ task[t].doomed \subseteq Domain \X Version
  BY RemoveTaskByPc DEF TypeOK, RemoveEntry, RemoveDir, RemoveFailed, RemoveDone
<1>1. ASSUME NEW p, Forget(t, p)
      PROVE  task' \in [Task -> TaskState]
  <2>1. [task[t] EXCEPT !.doomed = task[t].doomed \ {p}] \in RemoveTask
    BY <1>0 DEF RemoveTask
  <2> QED
    BY <1>1, <2>1 DEF Forget, TypeOK, TaskState
<1>2. CASE RemoveEntry(t)
  <2>1. PICK p \in task[t].doomed :
          \/ /\ marked' = [marked EXCEPT ![p[1]] = marked[p[1]] \ {p[2]}]
             /\ UNCHANGED files
          \/ \E f \in File : /\ files' = [files EXCEPT ![p[1]][p[2]][f] = NoFile]
                             /\ UNCHANGED marked
    BY <1>2 DEF RemoveEntry
  <2>2. p[1] \in Domain /\ p[2] \in Version
    BY <1>0
  <2>3. CASE /\ marked' = [marked EXCEPT ![p[1]] = marked[p[1]] \ {p[2]}]
             /\ UNCHANGED files
    <3>1. marked \in [Domain -> SUBSET Version] /\ marked[p[1]] \ {p[2]} \in SUBSET Version
      BY <2>2 DEF TypeOK
    <3>2. /\ marked' \in [Domain -> SUBSET Version]
          /\ \A e \in Domain : marked'[e] = IF e = p[1] THEN marked[p[1]] \ {p[2]} ELSE marked[e]
      BY <2>2, <2>3, <3>1, UpdateSet
    <3>3. \A e \in Domain : marked'[e] \subseteq marked[e]
      BY <3>2
    <3>4. UNCHANGED <<vdirs, meta, uploading_status, cache, task>>
      BY <1>2 DEF RemoveEntry
    <3> QED
      BY <2>3, <3>2, <3>3, <3>4 DEF TypeOK
  <2>4. ASSUME NEW f \in File,
               files' = [files EXCEPT ![p[1]][p[2]][f] = NoFile], UNCHANGED marked
        PROVE  TypeOK'
    <3>1. files \in [Domain -> [Version -> [File -> Stored]]] /\ NoFile \in Stored
      BY DEF TypeOK, Stored
    <3>2. files' \in [Domain -> [Version -> [File -> Stored]]]
      BY <2>2, <2>4, <3>1
    <3>3. ASSUME NEW e \in Domain, NEW x \in Version \ vdirs[e], NEW g \in File
          PROVE  files'[e][x][g] = NoFile
      <4>1. files'[e][x][g] \in {NoFile, files[e][x][g]}
        BY <2>2, <2>4, <3>1
      <4> QED
        BY <4>1 DEF TypeOK
    <3> QED
      BY <1>2, <2>4, <3>2, <3>3 DEF RemoveEntry, TypeOK
  <2> QED
    BY <2>1, <2>3, <2>4
<1>3. CASE RemoveDir(t)
  <2>1. PICK p \in task[t].doomed :
          /\ p[2] \notin marked[p[1]]
          /\ files[p[1]][p[2]] = NoFiles
          /\ vdirs' = [vdirs EXCEPT ![p[1]] = vdirs[p[1]] \ {p[2]}]
          /\ Forget(t, p)
    BY <1>3 DEF RemoveDir
  <2>2. p[1] \in Domain /\ p[2] \in Version
    BY <1>0
  <2>3. vdirs \in [Domain -> SUBSET Version] /\ vdirs[p[1]] \ {p[2]} \in SUBSET Version
    BY <2>2 DEF TypeOK
  <2>4. /\ vdirs' \in [Domain -> SUBSET Version]
        /\ \A e \in Domain : vdirs'[e] = IF e = p[1] THEN vdirs[p[1]] \ {p[2]} ELSE vdirs[e]
    BY <2>1, <2>2, <2>3, UpdateSet
  <2>5. \A e \in Domain : marked'[e] \subseteq vdirs'[e]
    BY <1>3, <2>1, <2>4 DEF RemoveDir, TypeOK
  <2>6. ASSUME NEW e \in Domain, NEW x \in Version \ vdirs'[e], NEW g \in File
        PROVE  files[e][x][g] = NoFile
    <3>1. CASE e = p[1] /\ x = p[2]
      BY <2>1, <3>1 DEF NoFiles
    <3>2. CASE x \notin vdirs[e]
      BY <3>2 DEF TypeOK
    <3> QED
      BY <2>4, <3>1, <3>2
  <2> QED
    BY <1>1, <1>3, <2>1, <2>4, <2>5, <2>6 DEF RemoveDir, TypeOK
<1>4. CASE RemoveFailed(t)
  BY <1>1, <1>4 DEF RemoveFailed, disk, TypeOK
<1>5. CASE RemoveDone(t)
  <2>1. task' \in [Task -> TaskState]
    BY <1>5, TypeGoto DEF RemoveDone
  <2> QED
    BY <1>5, <2>1 DEF RemoveDone, disk, TypeOK
<1> QED
  BY <1>2, <1>3, <1>4, <1>5

LEMMA TypeRestart == TypeOK /\ Restart => TypeOK'
<1> SUFFICES ASSUME TypeOK, Restart PROVE TypeOK'
    OBVIOUS
<1>1. meta' \in [Domain -> OptVersion] /\ uploading_status' \in [Domain -> OptVersion]
  BY DEF Restart
<1>2. cache' \in [Domain -> [ver : OptVersion, files : Cached]]
  <2>1. PICK S : cache' = [d \in Domain |-> InitCache(d, meta'[d], S[d])]
    BY DEF Restart
  <2>2. \A d \in Domain : InitCache(d, meta'[d], S[d]) \in [ver : OptVersion, files : Cached]
    BY <1>1, BootType DEF TypeOK
  <2> QED
    BY <2>1, <2>2
<1>3. task' \in [Task -> TaskState]
  BY IdleTask DEF Restart
<1> QED
  BY <1>1, <1>2, <1>3 DEF Restart, disk, TypeOK

LEMMA TypeNext == TypeOK /\ [Next]_vars => TypeOK'
<1> SUFFICES ASSUME TypeOK, [Next]_vars PROVE TypeOK'
    OBVIOUS
<1>1. CASE UNCHANGED vars
  BY <1>1 DEF vars, TypeOK
<1>2. ASSUME NEW t \in Task, Step(t) PROVE TypeOK'
  <2>1. CASE IoError(t)
    <3>1. task' \in [Task -> TaskState]
      BY <2>1, TypeGoto DEF IoError
    <3> QED
      BY <2>1, <3>1 DEF IoError, disk, TypeOK
  <2> QED
    BY <1>2, <2>1, TypeRelease, TypeStatus, TypeSave, TypeRemove DEF Step
<1> QED
  BY <1>1, <1>2, TypeRequest, TypeRestart DEF Next

(***************************************************************************)
(* Whatever requests overlap and wherever the process stops, the storage's *)
(* maps stay typed and the disk stays a tree: no handler leaves a marker   *)
(* or a file outside a version directory.  There is no assumption on how   *)
(* requests overlap.                                                       *)
(***************************************************************************)
THEOREM TypeCorrect == Spec => []TypeOK
  BY TypeInit, TypeNext, PTL DEF Spec

-----------------------------------------------------------------------------
(* When requests for one domain do not overlap. *)

\* No delete asks to keep more versions than the version number it counts
\* down from, so that `max_version - max_reserve' does not wrap.
NoUnderflow == \A v \in ReqVersion, r \in Reserve : r <= v

\* What Serialised keeps true while handlers run.
Exclusive ==
    \A t, u \in Task, d \in Domain :
       t # u /\ d \in Touched(task[t]) /\ d \in Touched(task[u]) =>
           task[t].pc \in SavePc /\ task[u].pc \in SavePc

\* The marker is where uploading_status says, or the handler that made it is
\* about to say so.
MarkerExplained(d) ==
    \A v \in marked[d] : \/ uploading_status[d] = v
                         \/ \E t \in Task : /\ task[t].pc = "insert_uploading"
                                            /\ task[t].dom = d /\ task[t].ver = v

OnlineSafe(d) ==
    cache[d].ver # None =>
       /\ cache[d].ver \in vdirs[d]
       /\ cache[d].ver \notin marked[d]
       /\ cache[d].ver # uploading_status[d]
       /\ Fills(cache[d].files, files[d][cache[d].ver])

DomainInv(d) ==
    /\ vdirs[d] \subseteq ReqVersion
    /\ uploading_status[d] # None => uploading_status[d] # meta[d]
    /\ MarkerExplained(d)
    /\ OnlineSafe(d)
    /\ Releasing(d) \/ meta[d] = cache[d].ver

\* What a handler has found out and may still rely on.
VersionTaskInv(s) ==
    /\ s.pc = "go_online" => uploading_status[s.dom] # s.ver
    /\ s.pc \in {"cache_dir", "cache_update"} =>
           /\ uploading_status[s.dom] # s.ver
           /\ meta[s.dom] = s.ver
           /\ s.ver \in vdirs[s.dom]
    /\ s.pc = "cache_update" => Fills(s.snap, files[s.dom][s.ver])
    /\ s.pc \in {"create_dir", "create_marker", "insert_uploading"} =>
           /\ uploading_status[s.dom] = None
           /\ s.ver \in ReqVersion
    /\ s.pc \in {"create_marker", "insert_uploading"} => meta[s.dom] # s.ver
    /\ s.pc \in {"remove_marker", "remove_uploading"} =>
           uploading_status[s.dom] \in {s.ver, None}
    /\ s.pc = "remove_uploading" => s.ver \notin marked[s.dom]
    /\ s.pc \in SavePc => uploading_status[s.dom] = s.ver /\ s.ver \in ReqVersion

RemoveTaskInv(s) == s.pc = "remove" => \A p \in s.doomed : meta[p[1]] # p[2]

SerialInv ==
    /\ TypeOK
    /\ Exclusive
    /\ \A d \in Domain : DomainInv(d)
    /\ \A t \in Task : VersionTaskInv(task[t]) /\ RemoveTaskInv(task[t])
LEMMA NoneIsNoVersion == None \notin Version
  BY DEF None, Version

LEMMA SaveLabels ==
  \A l \in SavePc : l \notin VersionPc \cup {"cache_update", "remove", "idle"}
  BY DEF SavePc, VersionPc

LEMMA TouchedByPc ==
  ASSUME NEW s \in TaskState
  PROVE  /\ s.pc \in VersionPc \cup SavePc \cup {"cache_update"} =>
                Touched(s) = {s.dom} /\ s.dom \in Domain /\ s.ver \in Version
         /\ s.pc = "remove" => \A p \in s.doomed : p[1] \in Touched(s)
         /\ s.pc = "idle" => Touched(s) = {}
         /\ s.pc \in VersionPc \cup SavePc \cup {"cache_update", "remove", "idle"}
<1>1. s.pc \in VersionPc \cup SavePc \cup {"cache_update", "remove", "idle"}
  BY DEF TaskState, Idle, VersionTask, CacheTask, SaveTask, RemoveTask
<1>2. ASSUME s.pc \in VersionPc \cup SavePc \cup {"cache_update"}
      PROVE  Touched(s) = {s.dom} /\ s.dom \in Domain /\ s.ver \in Version
  <2>1. s.pc # "idle" /\ s.pc # "remove"
    BY <1>2 DEF VersionPc, SavePc
  <2>2. Touched(s) = {s.dom}
    BY <2>1 DEF Touched
  <2> QED
    BY <1>2, <2>2, VersionTaskByPc, SaveTaskByPc, CacheTaskByPc
<1>3. ASSUME s.pc = "remove" PROVE \A p \in s.doomed : p[1] \in Touched(s)
  BY <1>3 DEF Touched
<1>4. ASSUME s.pc = "idle" PROVE Touched(s) = {}
  BY <1>4 DEF Touched
<1> QED
  BY <1>1, <1>2, <1>3, <1>4

\* The state of one domain.
SameDomain(e) ==
    /\ vdirs'[e] = vdirs[e] /\ marked'[e] = marked[e] /\ files'[e] = files[e]
    /\ meta'[e] = meta[e] /\ uploading_status'[e] = uploading_status[e]
    /\ cache'[e] = cache[e]

\* A step of handler t for domain d: it is enough to look at d, at t, and at
\* the other uploads of files to d.
LEMMA LocalStep ==
  ASSUME SerialInv, TypeOK', NEW t \in Task, NEW d \in Domain,
         \A u \in Task : u # t => task'[u] = task[u],
         \A e \in Domain : e # d => SameDomain(e),
         Touched(task[t]) \subseteq {d}, Touched(task'[t]) \subseteq {d},
         task'[t].pc # "remove",
         \A u \in Task : u # t /\ d \in Touched(task[u]) =>
             /\ task[u].pc \in SavePc
             /\ task'[t].pc \in SavePc \cup {"idle"}
             /\ uploading_status'[d] = uploading_status[d],
         DomainInv(d)',
         VersionTaskInv(task[t])'
  PROVE  SerialInv'
<1>1. Exclusive'
  <2> SUFFICES ASSUME NEW u \in Task, NEW w \in Task, NEW e \in Domain,
                      u # w, e \in Touched(task'[u]), e \in Touched(task'[w])
               PROVE  task'[u].pc \in SavePc /\ task'[w].pc \in SavePc
    BY DEF Exclusive
  <2>1. task'[t] \in TaskState
    BY DEF TypeOK
  <2>2. CASE u = t
    BY <2>1, <2>2, TouchedByPc DEF SavePc
  <2>3. CASE w = t
    BY <2>1, <2>3, TouchedByPc DEF SavePc
  <2>4. CASE u # t /\ w # t
    BY <2>4 DEF SerialInv, Exclusive
  <2> QED
    BY <2>2, <2>3, <2>4
<1>2. ASSUME NEW e \in Domain, e # d PROVE DomainInv(e)'
  <2>1. DomainInv(e) /\ SameDomain(e)
    BY <1>2 DEF SerialInv
  <2>2. MarkerExplained(e)'
    <3> SUFFICES ASSUME NEW v \in marked[e]
                 PROVE  \/ uploading_status[e] = v
                        \/ \E u \in Task : /\ task'[u].pc = "insert_uploading"
                                           /\ task'[u].dom = e /\ task'[u].ver = v
      BY <2>1 DEF MarkerExplained, SameDomain
    <3>1. CASE uploading_status[e] = v
      BY <3>1
    <3>2. ASSUME NEW u \in Task, task[u].pc = "insert_uploading",
                 task[u].dom = e, task[u].ver = v
          PROVE  \E w \in Task : /\ task'[w].pc = "insert_uploading"
                                 /\ task'[w].dom = e /\ task'[w].ver = v
      <4>1. u # t
        BY ZenonT(40), <1>2, <3>2, TouchedByPc DEF SerialInv, TypeOK, VersionPc
      <4> QED
        BY <3>2, <4>1
    <3> QED
      BY <2>1, <3>1, <3>2 DEF DomainInv, MarkerExplained
  <2>3. Releasing(e)' \/ meta'[e] = cache'[e].ver
    <3>1. CASE meta[e] = cache[e].ver
      BY <2>1, <3>1 DEF SameDomain
    <3>2. ASSUME NEW u \in Task, task[u].pc \in {"cache_dir", "cache_update"}, task[u].dom = e
          PROVE  Releasing(e)'
      <4>1. u # t
        BY ZenonT(40), <1>2, <3>2, TouchedByPc DEF SerialInv, TypeOK, VersionPc
      <4> QED
        BY <3>2, <4>1 DEF Releasing
    <3> QED
      BY <2>1, <3>1, <3>2 DEF DomainInv, Releasing
  <2>4. OnlineSafe(e)'
    BY <2>1 DEF DomainInv, OnlineSafe, SameDomain
  <2> QED
    BY <2>1, <2>2, <2>3, <2>4 DEF DomainInv, SameDomain
<1>3. ASSUME NEW u \in Task, u # t
      PROVE  VersionTaskInv(task[u])' /\ RemoveTaskInv(task[u])'
  <2>1. /\ task'[u] = task[u] /\ task[u] \in TaskState
        /\ VersionTaskInv(task[u]) /\ RemoveTaskInv(task[u])
    BY <1>3 DEF SerialInv, TypeOK
  <2>2. RemoveTaskInv(task[u])'
    <3> SUFFICES ASSUME task[u].pc = "remove", NEW p \in task[u].doomed
                 PROVE  meta'[p[1]] # p[2]
      BY <2>1 DEF RemoveTaskInv
    <3>1. p[1] \in Touched(task[u]) /\ p[1] \in Domain
      BY <2>1, TouchedByPc, RemoveTaskByPc
    <3>2. p[1] # d
      BY <1>3, <3>1 DEF SavePc
    <3> QED
      BY <2>1, <3>1, <3>2 DEF RemoveTaskInv, SameDomain
  <2>3. CASE task[u].pc \in VersionPc \cup SavePc \cup {"cache_update"}
    <3>1. task[u].dom \in Domain /\ task[u].dom \in Touched(task[u])
      BY <2>1, <2>3, TouchedByPc
    <3>2. CASE task[u].dom = d
      <4>1. task[u].pc \in SavePc /\ uploading_status'[d] = uploading_status[d]
        BY <1>3, <3>1, <3>2
      <4> QED
        BY <2>1, <2>2, <3>2, <4>1, SaveLabels DEF VersionTaskInv, VersionPc
    <3>3. CASE task[u].dom # d
      <4>1. SameDomain(task[u].dom)
        BY <3>1, <3>3
      <4>2. files[task[u].dom][task[u].ver]' = files[task[u].dom][task[u].ver]
        BY <2>1, <4>1 DEF SameDomain
      <4> QED
        BY <2>1, <2>2, <4>1, <4>2 DEF VersionTaskInv, SameDomain
    <3> QED
      BY <3>2, <3>3
  <2>4. CASE task[u].pc \in {"remove", "idle"}
    BY <2>1, <2>2, <2>4 DEF VersionTaskInv, SavePc
  <2>5. task[u].pc \in VersionPc \cup SavePc \cup {"cache_update", "remove", "idle"}
    BY <2>1, TouchedByPc
  <2> QED
    BY <2>2, <2>3, <2>4, <2>5
<1>4. RemoveTaskInv(task[t])'
  BY DEF RemoveTaskInv
<1> QED
  BY <1>1, <1>2, <1>3, <1>4 DEF SerialInv
\* With no other handler at work on d but uploads of files, the maps and the
\* markers of d agree up to what handler t itself is doing.
LEMMA QuietDomain ==
  ASSUME SerialInv, NEW t \in Task, NEW d \in Domain,
         \A u \in Task : u # t /\ d \in Touched(task[u]) => task[u].pc \in SavePc
  PROVE  /\ task[t].pc # "insert_uploading" => \A v \in marked[d] : uploading_status[d] = v
         /\ task[t].pc \notin {"cache_dir", "cache_update"} => meta[d] = cache[d].ver
<1>0. \A u \in Task : task[u] \in TaskState
  BY DEF SerialInv, TypeOK
<1>1. ASSUME NEW u \in Task, u # t,
             task[u].pc \in {"insert_uploading", "cache_dir", "cache_update"}
      PROVE  task[u].dom # d
  BY <1>0, <1>1, TouchedByPc DEF VersionPc, SavePc
<1>2. ASSUME task[t].pc # "insert_uploading", NEW v \in marked[d]
      PROVE  uploading_status[d] = v
  BY <1>1, <1>2 DEF SerialInv, DomainInv, MarkerExplained
<1>3. ASSUME task[t].pc \notin {"cache_dir", "cache_update"}
      PROVE  meta[d] = cache[d].ver
  BY <1>1, <1>3 DEF SerialInv, DomainInv, Releasing
<1> QED
  BY <1>2, <1>3

\* A handler other than an upload of a file, or a delete, is alone on its domain.
LEMMA Alone ==
  ASSUME SerialInv, NEW t \in Task, task[t].pc \in VersionPc \cup {"cache_update"}
  PROVE  /\ task[t].dom \in Domain /\ task[t].ver \in Version
         /\ Touched(task[t]) = {task[t].dom}
         /\ \A u \in Task : u # t => task[t].dom \notin Touched(task[u])
<1>1. task[t] \in TaskState
  BY DEF SerialInv, TypeOK
<1>2. task[t].pc \notin SavePc
  BY SaveLabels
<1>3. task[t].dom \in Domain /\ task[t].ver \in Version /\ Touched(task[t]) = {task[t].dom}
  BY <1>1, TouchedByPc
<1> QED
  BY <1>2, <1>3 DEF SerialInv, Exclusive

\* A request that starts handler t on domain d with the maps and the disk as
\* they are.
LEMMA StartStep ==
  ASSUME SerialInv, TypeOK', NEW t \in Task, NEW d \in Domain, NEW s,
         task[t] = Idle, task' = [task EXCEPT ![t] = s],
         UNCHANGED <<vdirs, marked, files, meta, uploading_status, cache>>,
         s.pc \in VersionPc \cup SavePc, s.dom = d,
         \A u \in Task : d \in Touched(task[u]) => task[u].pc \in SavePc /\ s.pc \in SavePc,
         VersionTaskInv(s)
  PROVE  SerialInv'
<1>1. task'[t] = s /\ s \in TaskState /\ \A u \in Task : u # t => task'[u] = task[u]
  BY DEF SerialInv, TypeOK
<1>2. Touched(task[t]) = {} /\ Touched(s) = {d} /\ s.pc # "remove"
  BY <1>1, IdleTask, TouchedByPc, SaveLabels DEF VersionPc
<1>3. /\ \A v \in marked[d] : uploading_status[d] = v
      /\ meta[d] = cache[d].ver
  BY IdleTask, QuietDomain
<1>4. OnlineSafe(d)'
  BY DEF SerialInv, DomainInv, OnlineSafe
<1>5. DomainInv(d)'
  BY <1>3, <1>4 DEF SerialInv, DomainInv, MarkerExplained
<1>6. VersionTaskInv(task[t])'
  <2>1. files[s.dom][s.ver]' = files[s.dom][s.ver]
    OBVIOUS
  <2> QED
    BY <1>1, <2>1 DEF VersionTaskInv
<1>7. \A e \in Domain : SameDomain(e)
  BY DEF SameDomain
<1> QED
  BY <1>1, <1>2, <1>5, <1>6, <1>7, LocalStep

LEMMA StartOne ==
  ASSUME SerialInv, TypeOK', Serialised, NEW t \in Task, NEW d \in Domain,
         NEW v \in Version, NEW l \in VersionPc, MayStart(t, {d}),
         task' = [task EXCEPT ![t] = [pc |-> l, dom |-> d, ver |-> v]],
         UNCHANGED <<vdirs, marked, files, meta, uploading_status, cache>>,
         VersionTaskInv([pc |-> l, dom |-> d, ver |-> v])
  PROVE  SerialInv'
<1>1. task[t] = Idle /\ \A u \in Task : d \notin Touched(task[u])
  BY DEF MayStart
<1> DEFINE s == [pc |-> l, dom |-> d, ver |-> v]
<1>2. s.pc \in VersionPc \cup SavePc /\ s.dom = d
  OBVIOUS
<1> HIDE DEF s
<1> QED
  BY <1>1, <1>2, StartStep DEF s
LEMMA SerialReleaseCheck ==
  ASSUME SerialInv, TypeOK', Serialised, NEW t \in Task, NEW d \in Domain, NEW v \in Version,
         MayStart(t, {d}), ReleaseCheck(t, d, v)
  PROVE  SerialInv'
<1>1. VersionTaskInv([pc |-> "go_online", dom |-> d, ver |-> v])
  BY DEF ReleaseCheck, InUploadProcess, VersionTaskInv, SavePc
<1> QED
  BY <1>1, StartOne DEF ReleaseCheck, disk, VersionPc

LEMMA SerialUpload ==
  ASSUME SerialInv, TypeOK', Serialised, NEW t \in Task, NEW d \in Domain,
         StatusUploading(t, d) \/ StatusFinish(t, d)
  PROVE  SerialInv'
<1>1. CASE StatusUploading(t, d)
  <2>1. PICK v \in ReqVersion :
          /\ MayStart(t, {d})
          /\ uploading_status[d] = None
          /\ task' = [task EXCEPT ![t] = [pc |-> "create_dir", dom |-> d, ver |-> v]]
    BY <1>1 DEF StatusUploading
  <2>2. VersionTaskInv([pc |-> "create_dir", dom |-> d, ver |-> v])
    BY <2>1 DEF VersionTaskInv, SavePc
  <2> QED
    BY <1>1, <2>1, <2>2, StartOne, RequestAssumption DEF StatusUploading, disk, VersionPc
<1>2. CASE StatusFinish(t, d)
  <2>1. PICK v \in ReqVersion :
          /\ MayStart(t, {d})
          /\ uploading_status[d] \in {v, None}
          /\ task' = [task EXCEPT ![t] = [pc |-> "remove_marker", dom |-> d, ver |-> v]]
    BY <1>2 DEF StatusFinish
  <2>2. VersionTaskInv([pc |-> "remove_marker", dom |-> d, ver |-> v])
    BY <2>1 DEF VersionTaskInv, SavePc
  <2> QED
    BY <1>2, <2>1, <2>2, StartOne, RequestAssumption DEF StatusFinish, disk, VersionPc
<1> QED
  BY <1>1, <1>2

LEMMA SerialSaveFile ==
  ASSUME SerialInv, TypeOK', Serialised, NEW t \in Task, NEW d \in Domain, SaveFile(t, d)
  PROVE  SerialInv'
<1>1. PICK v \in ReqVersion, f \in File, c \in Body :
          /\ MayStartSave(t, d)
          /\ InUploadProcess(d, v)
          /\ task' = [task EXCEPT ![t] = [pc |-> "make_parent", dom |-> d, ver |-> v,
                                          file |-> f, data |-> c]]
  BY DEF SaveFile
<1> DEFINE s == [pc |-> "make_parent", dom |-> d, ver |-> v, file |-> f, data |-> c]
<1>2. s.pc \in SavePc /\ s.dom = d
  BY DEF SavePc
<1>3. VersionTaskInv(s)
  BY <1>1 DEF VersionTaskInv, InUploadProcess
<1>4. task[t] = Idle /\ \A u \in Task : d \in Touched(task[u]) => task[u].pc \in SavePc
  BY <1>1 DEF MayStartSave
<1>5. task' = [task EXCEPT ![t] = s]
  BY <1>1
<1> HIDE DEF s
<1> QED
  BY <1>2, <1>3, <1>4, <1>5, StartStep DEF SaveFile, disk

\* What a delete takes down is never the version meta names.
LEMMA DoomedIsNotOnline ==
  ASSUME NoUnderflow, TypeOK, NEW d \in Domain, NEW r \in Reserve,
         meta[d] # None => meta[d] \in ReqVersion,
         NEW v \in DeleteVersions(d, r)
  PROVE  meta[d] # v
<1>0. v \in Version
  BY DEF DeleteVersions, TypeOK
<1>1. CASE meta[d] = None
  BY <1>0, <1>1, NoneIsNoVersion
<1>2. CASE meta[d] # None /\ r = None
  BY <1>2 DEF DeleteVersions
<1>3. CASE meta[d] # None /\ r # None
  <2>1. PICK w \in Version : w = meta[d] /\ v < WrappingSub(w, r)
    BY <1>3 DEF DeleteVersions, IsReference
  <2>2. r \in Version /\ r <= w /\ w \in Nat /\ r \in Nat /\ v \in Nat
    BY <1>0, <1>3, <2>1, RequestAssumption, U32Assumption DEF NoUnderflow, Version
  <2>3. v < w - r
    BY <2>1, <2>2 DEF WrappingSub
  <2> QED
    BY <2>1, <2>2, <2>3
<1> QED
  BY <1>1, <1>2, <1>3

LEMMA SerialDelete ==
  ASSUME SerialInv, TypeOK', Serialised, NoUnderflow, NEW t \in Task, Delete(t)
  PROVE  SerialInv'
<1>1. PICK D \in {Domain} \cup {{d} : d \in Domain}, r \in Reserve :
          /\ MayStart(t, D)
          /\ task' = [task EXCEPT ![t] =
                        [pc |-> "remove",
                         doomed |-> {p \in D \X Version : p[2] \in DeleteVersions(p[1], r)}]]
  BY DEF Delete
<1> DEFINE s == [pc |-> "remove",
                 doomed |-> {p \in D \X Version : p[2] \in DeleteVersions(p[1], r)}]
<1>2. /\ task[t] = Idle /\ D \subseteq Domain
      /\ \A u \in Task : Touched(task[u]) \cap D = {}
  BY <1>1 DEF MayStart
<1>3. UNCHANGED <<vdirs, marked, files, meta, uploading_status, cache>>
  BY DEF Delete, disk
<1>4. task'[t] = s /\ \A u \in Task : u # t => task'[u] = task[u]
  BY <1>1 DEF SerialInv, TypeOK
<1>5. Touched(s) \subseteq D
  BY DEF Touched
<1>6. Exclusive'
  <2> SUFFICES ASSUME NEW u \in Task, NEW w \in Task, NEW e \in Domain,
                      u # w, e \in Touched(task'[u]), e \in Touched(task'[w])
               PROVE  task'[u].pc \in SavePc /\ task'[w].pc \in SavePc
    BY DEF Exclusive
  <2>1. u # t /\ w # t
    BY <1>2, <1>4, <1>5
  <2> QED
    BY <1>4, <2>1 DEF SerialInv, Exclusive
<1>7. ASSUME NEW d \in Domain PROVE DomainInv(d)'
  <2>1. DomainInv(d)
    BY DEF SerialInv
  <2>2. MarkerExplained(d)'
    BY <1>2, <1>3, <1>4, <2>1 DEF DomainInv, MarkerExplained, Idle
  <2>3. Releasing(d)' \/ meta'[d] = cache'[d].ver
    BY <1>2, <1>3, <1>4, <2>1 DEF DomainInv, Releasing, Idle
  <2>4. OnlineSafe(d)'
    BY <1>3, <2>1 DEF DomainInv, OnlineSafe
  <2> QED
    BY <1>3, <2>1, <2>2, <2>3, <2>4 DEF DomainInv
<1>8. ASSUME NEW u \in Task PROVE VersionTaskInv(task[u])' /\ RemoveTaskInv(task[u])'
  <2>1. CASE u # t
    <3>1. VersionTaskInv(task[u]) /\ RemoveTaskInv(task[u]) /\ task'[u] = task[u]
      BY <1>4, <2>1 DEF SerialInv
    <3>2. files[task[u].dom][task[u].ver]' = files[task[u].dom][task[u].ver]
      BY <1>3, <3>1
    <3> QED
      BY <1>3, <3>1, <3>2 DEF VersionTaskInv, RemoveTaskInv
  <2>2. CASE u = t
    <3>1. VersionTaskInv(task[t])'
      BY <1>4 DEF VersionTaskInv, SavePc
    <3>2. ASSUME NEW d \in D, NEW v \in DeleteVersions(d, r) PROVE meta[d] # v
      <4>1. d \in Domain /\ DomainInv(d) /\ TypeOK
        BY <1>2 DEF SerialInv
      <4>2. meta[d] = cache[d].ver
        BY <1>2, <4>1, IdleTask, QuietDomain
      <4>3. meta[d] # None => meta[d] \in ReqVersion
        BY <4>1, <4>2 DEF DomainInv, OnlineSafe
      <4> QED
        BY <4>1, <4>3, DoomedIsNotOnline
    <3>3. RemoveTaskInv(task[t])'
      <4> SUFFICES ASSUME NEW p \in task'[t].doomed PROVE meta'[p[1]] # p[2]
        BY DEF RemoveTaskInv
      <4> QED
        BY <1>3, <1>4, <3>2
    <3> QED
      BY <2>2, <3>1, <3>3
  <2> QED
    BY <2>1, <2>2
<1> QED
  BY <1>6, <1>7, <1>8 DEF SerialInv
LEMMA SameOnline ==
  ASSUME NEW d, OnlineSafe(d), cache'[d] = cache[d], files'[d] = files[d],
         vdirs'[d] = vdirs[d], marked'[d] = marked[d],
         uploading_status'[d] = uploading_status[d]
  PROVE  OnlineSafe(d)'
<1>1. files[d][cache[d].ver]' = files[d][cache[d].ver]
  OBVIOUS
<1> QED
  BY <1>1 DEF OnlineSafe

\* A step of a handler that is alone on its domain.
LEMMA AloneStep ==
  ASSUME SerialInv, TypeOK', NEW t \in Task, NEW d \in Domain,
         task[t].pc \in VersionPc \cup {"cache_update"}, d = task[t].dom,
         \A u \in Task : u # t => task'[u] = task[u],
         \A e \in Domain : e # d => SameDomain(e),
         \/ task'[t] = Idle
         \/ task'[t].pc \in VersionPc \cup {"cache_update"} /\ task'[t].dom = d,
         DomainInv(d)',
         VersionTaskInv(task[t])'
  PROVE  SerialInv'
<1>1. Touched(task[t]) = {d} /\ \A u \in Task : u # t => d \notin Touched(task[u])
  BY Alone
<1>2. task'[t] \in TaskState
  BY DEF TypeOK
<1>3. Touched(task'[t]) \subseteq {d} /\ task'[t].pc # "remove"
  BY <1>2, IdleTask, TouchedByPc DEF VersionPc
<1> QED
  BY <1>1, <1>3, LocalStep

LEMMA IdleInv == VersionTaskInv(Idle) /\ RemoveTaskInv(Idle)
  BY DEF Idle, VersionTaskInv, RemoveTaskInv, SavePc

\* An answer that leaves the disk and the maps as they are.
LEMMA EndStep ==
  ASSUME SerialInv, TypeOK', NEW t \in Task, Respond(t), NEW d, d = task[t].dom,
         UNCHANGED <<vdirs, marked, files, meta, uploading_status, cache>>,
         task[t].pc \in (VersionPc \cup SavePc) \ {"insert_uploading", "cache_dir"}
  PROVE  SerialInv'
<1>1. task[t] \in TaskState /\ \A u \in Task : task[u] \in TaskState
  BY DEF SerialInv, TypeOK
<1>2. d \in Domain /\ Touched(task[t]) = {d}
  BY <1>1, TouchedByPc
<1>3. \A u \in Task : u # t /\ d \in Touched(task[u]) => task[u].pc \in SavePc
  BY <1>2 DEF SerialInv, Exclusive
<1>4. task'[t] = Idle /\ \A u \in Task : u # t => task'[u] = task[u]
  BY DEF Respond, SerialInv, TypeOK
<1>5. /\ \A v \in marked[d] : uploading_status[d] = v
      /\ meta[d] = cache[d].ver
  BY <1>2, <1>3, QuietDomain DEF VersionPc, SavePc
<1>6. OnlineSafe(d)'
  BY <1>2, SameOnline DEF SerialInv, DomainInv
<1>7. DomainInv(d)'
  BY <1>2, <1>5, <1>6 DEF SerialInv, DomainInv, MarkerExplained
<1>8. VersionTaskInv(task[t])'
  BY <1>4 DEF Idle, VersionTaskInv, SavePc
<1>9. Touched(task'[t]) = {} /\ task'[t].pc = "idle"
  BY <1>4, IdleTask, TouchedByPc
<1>10. \A e \in Domain : SameDomain(e)
  BY DEF SameDomain
<1> QED
  BY <1>2, <1>3, <1>4, <1>7, <1>8, <1>9, <1>10, LocalStep

LEMMA SerialRelease ==
  ASSUME SerialInv, TypeOK', NEW t \in Task, NEW d, d = task[t].dom, NEW v, v = task[t].ver,
         GoOnline(t) \/ CacheDir(t) \/ CacheUpdate(t)
  PROVE  SerialInv'
<1>0. task[t].pc \in VersionPc \cup {"cache_update"}
  BY DEF GoOnline, CacheDir, CacheUpdate, VersionPc
<1>1. /\ d \in Domain /\ v \in Version
      /\ \A u \in Task : u # t => d \notin Touched(task[u])
      /\ DomainInv(d) /\ VersionTaskInv(task[t]) /\ TypeOK
  BY <1>0, Alone DEF SerialInv
<1>2. ASSUME task[t].pc # "insert_uploading"
      PROVE  \A x \in marked[d] : uploading_status[d] = x
  BY <1>1, <1>2, QuietDomain
<1>3. CASE GoOnline(t)
  <2>1. CASE v \notin vdirs[d]
    BY <1>3, <2>1, EndStep DEF GoOnline, disk, VersionPc
  <2>2. CASE v \in vdirs[d]
    <3>1. /\ meta' = [meta EXCEPT ![d] = v]
          /\ task' = [task EXCEPT ![t].pc = "cache_dir"]
          /\ UNCHANGED <<vdirs, marked, files, uploading_status, cache>>
      BY <1>3, <2>2 DEF GoOnline, Goto, disk
    <3>2. /\ task'[t].pc = "cache_dir" /\ task'[t].dom = d /\ task'[t].ver = v
          /\ \A u \in Task : u # t => task'[u] = task[u]
      <4>1. task[t] \in VersionTask
        BY <1>1, <1>3, VersionTaskByPc DEF GoOnline, TypeOK, VersionPc
      <4> QED
        BY <1>1, <3>1, <4>1 DEF TypeOK, VersionTask
    <3>3. /\ meta'[d] = v /\ uploading_status[d] # v
          /\ \A e \in Domain : e # d => SameDomain(e)
      BY <1>1, <1>3, <3>1 DEF GoOnline, TypeOK, VersionTaskInv, SameDomain
    <3>4. DomainInv(d)'
      <4>1. OnlineSafe(d)'
        BY <1>1, <3>1 DEF DomainInv, OnlineSafe
      <4>2. MarkerExplained(d)'
        BY <1>2, <1>3, <3>1 DEF GoOnline, MarkerExplained
      <4>3. Releasing(d)'
        BY <3>2 DEF Releasing
      <4> QED
        BY <1>1, <3>1, <3>3, <4>1, <4>2, <4>3 DEF DomainInv
    <3>5. VersionTaskInv(task[t])'
      BY <2>2, <3>1, <3>2, <3>3 DEF VersionTaskInv, SavePc
    <3> QED
      BY <1>0, <1>1, <3>2, <3>3, <3>4, <3>5, AloneStep DEF VersionPc
  <2> QED
    BY <2>1, <2>2
<1>4. CASE CacheDir(t)
  <2>0. PICK S \in SUBSET Unreadable :
            task' = [task EXCEPT ![t] = [pc |-> "cache_update", dom |-> d, ver |-> v,
                                         snap |-> CacheDirOf(d, v, S)]]
    BY <1>4 DEF CacheDir
  <2>1. /\ task'[t] = [pc |-> "cache_update", dom |-> d, ver |-> v, snap |-> CacheDirOf(d, v, S)]
        /\ \A u \in Task : u # t => task'[u] = task[u]
        /\ UNCHANGED <<vdirs, marked, files, meta, uploading_status, cache>>
    BY <1>1, <1>4, <2>0 DEF CacheDir, disk, TypeOK
  <2>2. /\ task'[t].pc = "cache_update" /\ task'[t].dom = d /\ task'[t].ver = v
        /\ Fills(task'[t].snap, files[d][v])
    BY <2>1, CacheDirFills
  <2>3. DomainInv(d)'
    <3>1. OnlineSafe(d)'
      BY <1>1, <2>1 DEF DomainInv, OnlineSafe
    <3>2. MarkerExplained(d)'
      BY <1>2, <1>4, <2>1 DEF CacheDir, MarkerExplained
    <3>3. Releasing(d)'
      BY <2>2 DEF Releasing
    <3> QED
      BY <1>1, <2>1, <3>1, <3>2, <3>3 DEF DomainInv
  <2>4. VersionTaskInv(task[t])'
    <3>1. files[d][v]' = files[d][v]
      BY <2>1
    <3>2. /\ uploading_status[d] # v /\ meta[d] = v /\ v \in vdirs[d]
      BY <1>1, <1>4 DEF CacheDir, VersionTaskInv
    <3> QED
      BY <2>1, <2>2, <3>1, <3>2 DEF VersionTaskInv, SavePc
  <2>5. \A e \in Domain : SameDomain(e)
    BY <2>1 DEF SameDomain
  <2> QED
    BY <1>0, <1>1, <2>1, <2>2, <2>3, <2>4, <2>5, AloneStep
<1>5. CASE CacheUpdate(t)
  <2>1. /\ cache' = [cache EXCEPT ![d] = [ver |-> v, files |-> task[t].snap]]
        /\ task'[t] = Idle /\ \A u \in Task : u # t => task'[u] = task[u]
        /\ UNCHANGED <<vdirs, marked, files, meta, uploading_status>>
    BY <1>1, <1>5 DEF CacheUpdate, Respond, disk, TypeOK
  <2>2. /\ cache'[d].ver = v /\ cache'[d].files = task[t].snap
        /\ \A e \in Domain : e # d => cache'[e] = cache[e]
    BY <1>1, <2>1 DEF TypeOK
  <2>3. /\ uploading_status[d] # v /\ meta[d] = v /\ v \in vdirs[d]
        /\ Fills(task[t].snap, files[d][v])
    BY <1>1, <1>5 DEF CacheUpdate, VersionTaskInv
  <2>4. \A x \in marked[d] : uploading_status[d] = x
    BY <1>2, <1>5 DEF CacheUpdate
  <2>5. DomainInv(d)'
    <3>1. OnlineSafe(d)'
      <4>1. files[d][v]' = files[d][v]
        BY <2>1
      <4>2. v \notin marked[d]
        BY <2>3, <2>4
      <4> QED
        BY <2>1, <2>2, <2>3, <4>1, <4>2 DEF OnlineSafe
    <3>2. MarkerExplained(d)'
      BY <2>1, <2>4 DEF MarkerExplained
    <3> QED
      BY <1>1, <2>1, <2>2, <2>3, <3>1, <3>2 DEF DomainInv
  <2>6. VersionTaskInv(task[t])'
    BY <2>1 DEF Idle, VersionTaskInv, SavePc
  <2>7. \A e \in Domain : e # d => SameDomain(e)
    BY <2>1, <2>2 DEF SameDomain
  <2> QED
    BY <1>0, <1>1, <2>1, <2>5, <2>6, <2>7, AloneStep
<1> QED
  BY <1>3, <1>4, <1>5
LEMMA SerialStatus ==
  ASSUME SerialInv, TypeOK', NEW t \in Task, NEW d, d = task[t].dom, NEW v, v = task[t].ver,
         \/ CreateDir(t) \/ CreateMarker(t) \/ InsertUploading(t)
         \/ RemoveMarker(t) \/ RemoveUploading(t)
  PROVE  SerialInv'
<1>0. task[t].pc \in VersionPc
  BY DEF VersionPc, CreateDir, CreateMarker, InsertUploading, RemoveMarker, RemoveUploading
<1>1. /\ d \in Domain /\ v \in Version
      /\ \A u \in Task : u # t => d \notin Touched(task[u])
      /\ DomainInv(d) /\ VersionTaskInv(task[t]) /\ TypeOK
  BY <1>0, Alone DEF SerialInv
<1>2. /\ task[t].pc # "insert_uploading" => \A x \in marked[d] : uploading_status[d] = x
      /\ task[t].pc \notin {"cache_dir", "cache_update"} => meta[d] = cache[d].ver
  BY <1>1, QuietDomain
<1>3. task[t] \in VersionTask
  BY <1>0, <1>1, VersionTaskByPc DEF TypeOK
<1>4. ASSUME NEW l \in VersionPc, Goto(t, l)
      PROVE  /\ task'[t].pc = l /\ task'[t].dom = d /\ task'[t].ver = v
             /\ \A u \in Task : u # t => task'[u] = task[u]
  BY <1>1, <1>3, <1>4 DEF Goto, TypeOK, VersionTask
<1>5. ASSUME Respond(t)
      PROVE  /\ task'[t] = Idle
             /\ \A u \in Task : u # t => task'[u] = task[u]
             /\ VersionTaskInv(task[t])'
  <2>1. task'[t] = Idle /\ \A u \in Task : u # t => task'[u] = task[u]
    BY <1>1, <1>5 DEF Respond, TypeOK
  <2> QED
    BY <2>1 DEF Idle, VersionTaskInv, SavePc
<1>6. CASE CreateDir(t)
  <2>1. CASE InServing(d, v)
    BY <1>6, <2>1, EndStep DEF CreateDir, disk, VersionPc
  <2>2. CASE ~InServing(d, v)
    <3>1. /\ vdirs' = [vdirs EXCEPT ![d] = vdirs[d] \cup {v}]
          /\ Goto(t, "create_marker")
          /\ UNCHANGED <<marked, files, meta, uploading_status, cache>>
      BY <1>6, <2>2 DEF CreateDir
    <3>2. /\ task'[t].pc = "create_marker" /\ task'[t].dom = d /\ task'[t].ver = v
          /\ \A u \in Task : u # t => task'[u] = task[u]
      BY <1>4, <3>1 DEF VersionPc
    <3>3. /\ vdirs'[d] = vdirs[d] \cup {v}
          /\ \A e \in Domain : e # d => SameDomain(e)
      BY <1>1, <3>1 DEF TypeOK, SameDomain
    <3>4. /\ uploading_status[d] = None /\ v \in ReqVersion /\ meta[d] # v
          /\ meta[d] = cache[d].ver /\ \A x \in marked[d] : uploading_status[d] = x
      BY <1>1, <1>2, <1>6, <2>2 DEF CreateDir, VersionTaskInv, InServing
    <3>5. OnlineSafe(d)'
      <4>1. files[d][cache[d].ver]' = files[d][cache[d].ver]
        BY <3>1
      <4> QED
        BY <1>1, <3>1, <3>3, <4>1 DEF DomainInv, OnlineSafe
    <3>6. DomainInv(d)'
      BY <1>1, <3>1, <3>3, <3>4, <3>5 DEF DomainInv, MarkerExplained
    <3>7. VersionTaskInv(task[t])'
      BY <3>1, <3>2, <3>4 DEF VersionTaskInv, SavePc
    <3> QED
      BY <1>0, <1>1, <3>2, <3>3, <3>6, <3>7, AloneStep DEF VersionPc
  <2> QED
    BY <2>1, <2>2
<1>7. CASE CreateMarker(t)
  <2>1. CASE v \notin vdirs[d]
    BY <1>7, <2>1, EndStep DEF CreateMarker, disk, VersionPc
  <2>2. CASE v \in vdirs[d]
    <3>1. /\ marked' = [marked EXCEPT ![d] = marked[d] \cup {v}]
          /\ Goto(t, "insert_uploading")
          /\ UNCHANGED <<vdirs, files, meta, uploading_status, cache>>
      BY <1>7, <2>2 DEF CreateMarker
    <3>2. /\ task'[t].pc = "insert_uploading" /\ task'[t].dom = d /\ task'[t].ver = v
          /\ \A u \in Task : u # t => task'[u] = task[u]
      BY <1>4, <3>1 DEF VersionPc
    <3>3. /\ marked'[d] = marked[d] \cup {v}
          /\ \A e \in Domain : e # d => SameDomain(e)
      BY <1>1, <3>1 DEF TypeOK, SameDomain
    <3>4. /\ uploading_status[d] = None /\ v \in ReqVersion /\ meta[d] # v
          /\ meta[d] = cache[d].ver /\ \A x \in marked[d] : uploading_status[d] = x
      BY <1>1, <1>2, <1>7 DEF CreateMarker, VersionTaskInv
    <3>5. OnlineSafe(d)'
      <4>1. files[d][cache[d].ver]' = files[d][cache[d].ver]
        BY <3>1
      <4> QED
        BY <1>1, <3>1, <3>3, <3>4, <4>1 DEF DomainInv, OnlineSafe
    <3>6. MarkerExplained(d)'
      BY <3>1, <3>2, <3>3, <3>4 DEF MarkerExplained
    <3>7. DomainInv(d)'
      BY <1>1, <3>1, <3>4, <3>5, <3>6 DEF DomainInv
    <3>8. VersionTaskInv(task[t])'
      BY <3>1, <3>2, <3>4 DEF VersionTaskInv, SavePc
    <3> QED
      BY <1>0, <1>1, <3>2, <3>3, <3>7, <3>8, AloneStep DEF VersionPc
  <2> QED
    BY <2>1, <2>2
<1>8. CASE InsertUploading(t)
  <2>1. /\ uploading_status' = [uploading_status EXCEPT ![d] = v] /\ Respond(t)
        /\ UNCHANGED <<vdirs, marked, files, meta, cache>>
    BY <1>8 DEF InsertUploading, disk
  <2>2. /\ uploading_status'[d] = v
        /\ \A e \in Domain : e # d => SameDomain(e)
    BY <1>1, <2>1 DEF TypeOK, SameDomain
  <2>3. /\ uploading_status[d] = None /\ v \in ReqVersion /\ meta[d] # v
        /\ meta[d] = cache[d].ver
    BY <1>1, <1>2, <1>8 DEF InsertUploading, VersionTaskInv
  <2>4. MarkerExplained(d)'
    <3>1. ASSUME NEW u \in Task, task[u].pc = "insert_uploading", task[u].dom = d PROVE u = t
      BY <1>1, <3>1, TouchedByPc DEF TypeOK, VersionPc
    <3>2. \A x \in marked[d] : uploading_status[d] = x \/ x = v
      BY <1>1, <3>1 DEF DomainInv, MarkerExplained
    <3>3. \A x \in marked[d] : x \in Version
      BY <1>1 DEF TypeOK
    <3> QED
      BY <2>1, <2>2, <2>3, <3>2, <3>3, NoneIsNoVersion DEF MarkerExplained
  <2>5. OnlineSafe(d)'
    <3>1. files[d][cache[d].ver]' = files[d][cache[d].ver]
      BY <2>1
    <3> QED
      BY <1>1, <2>1, <2>2, <2>3, <3>1 DEF DomainInv, OnlineSafe
  <2>6. DomainInv(d)'
    BY <1>1, <2>1, <2>2, <2>3, <2>4, <2>5 DEF DomainInv
  <2> QED
    BY <1>0, <1>1, <1>5, <2>1, <2>2, <2>6, AloneStep
<1>9. CASE RemoveMarker(t)
  <2>1. CASE v \notin marked[d]
    BY <1>9, <2>1, EndStep DEF RemoveMarker, disk, VersionPc
  <2>2. CASE v \in marked[d]
    <3>1. /\ marked' = [marked EXCEPT ![d] = marked[d] \ {v}]
          /\ Goto(t, "remove_uploading")
          /\ UNCHANGED <<vdirs, files, meta, uploading_status, cache>>
      BY <1>9, <2>2 DEF RemoveMarker
    <3>2. /\ task'[t].pc = "remove_uploading" /\ task'[t].dom = d /\ task'[t].ver = v
          /\ \A u \in Task : u # t => task'[u] = task[u]
      BY <1>4, <3>1 DEF VersionPc
    <3>3. /\ marked'[d] = marked[d] \ {v}
          /\ \A e \in Domain : e # d => SameDomain(e)
      BY <1>1, <3>1 DEF TypeOK, SameDomain
    <3>4. /\ uploading_status[d] \in {v, None}
          /\ meta[d] = cache[d].ver /\ \A x \in marked[d] : uploading_status[d] = x
      BY <1>1, <1>2, <1>9 DEF RemoveMarker, VersionTaskInv
    <3>5. OnlineSafe(d)'
      <4>1. files[d][cache[d].ver]' = files[d][cache[d].ver]
        BY <3>1
      <4> QED
        BY <1>1, <3>1, <3>3, <4>1 DEF DomainInv, OnlineSafe
    <3>6. MarkerExplained(d)'
      BY <3>1, <3>3, <3>4 DEF MarkerExplained
    <3>7. DomainInv(d)'
      BY <1>1, <3>1, <3>4, <3>5, <3>6 DEF DomainInv
    <3>8. VersionTaskInv(task[t])'
      BY <3>1, <3>2, <3>3, <3>4 DEF VersionTaskInv, SavePc
    <3> QED
      BY <1>0, <1>1, <3>2, <3>3, <3>7, <3>8, AloneStep DEF VersionPc
  <2> QED
    BY <2>1, <2>2
<1>10. CASE RemoveUploading(t)
  <2>1. /\ uploading_status' = [uploading_status EXCEPT ![d] =
                                  IF uploading_status[d] = v THEN None ELSE uploading_status[d]]
        /\ Respond(t)
        /\ UNCHANGED <<vdirs, marked, files, meta, cache>>
    BY <1>10 DEF RemoveUploading, disk
  <2>2. /\ uploading_status[d] \in {v, None} /\ v \notin marked[d]
        /\ meta[d] = cache[d].ver /\ \A x \in marked[d] : uploading_status[d] = x
    BY <1>1, <1>2, <1>10 DEF RemoveUploading, VersionTaskInv
  <2>3. /\ uploading_status'[d] = None
        /\ \A e \in Domain : e # d => SameDomain(e)
    BY <1>1, <2>1, <2>2 DEF TypeOK, SameDomain
  <2>4. marked[d] = {}
    <3>1. ASSUME NEW x \in marked[d] PROVE FALSE
      BY <1>1, <2>2, NoneIsNoVersion DEF TypeOK
    <3> QED
      BY <3>1
  <2>5. OnlineSafe(d)'
    <3>1. files[d][cache[d].ver]' = files[d][cache[d].ver]
      BY <2>1
    <3> QED
      BY <1>1, <2>1, <2>3, <3>1 DEF DomainInv, OnlineSafe
  <2>6. DomainInv(d)'
    BY <1>1, <2>1, <2>2, <2>3, <2>4, <2>5 DEF DomainInv, MarkerExplained
  <2> QED
    BY <1>0, <1>1, <1>5, <2>1, <2>3, <2>6, AloneStep
<1> QED
  BY <1>6, <1>7, <1>8, <1>9, <1>10
\* An upload of a file writes only to the version that is uploading, which is
\* not the one online.
LEMMA SaveStep ==
  ASSUME SerialInv, TypeOK', NEW t \in Task, NEW d, d = task[t].dom, NEW v, v = task[t].ver,
         task[t].pc \in SavePc,
         \A u \in Task : u # t => task'[u] = task[u],
         \/ task'[t] = Idle
         \/ task'[t].pc \in SavePc /\ task'[t].dom = d /\ task'[t].ver = v,
         \A e \in Domain : e # d => SameDomain(e),
         vdirs'[d] \in {vdirs[d], vdirs[d] \cup {v}},
         \A x \in Version : x # v => files'[d][x] = files[d][x],
         UNCHANGED <<marked, meta, uploading_status, cache>>
  PROVE  SerialInv'
<1>1. /\ task[t] \in TaskState /\ task'[t] \in TaskState
      /\ d \in Domain /\ v \in Version /\ Touched(task[t]) = {d}
      /\ DomainInv(d) /\ VersionTaskInv(task[t]) /\ TypeOK
  BY TouchedByPc DEF SerialInv, TypeOK
<1>2. \A u \in Task : u # t /\ d \in Touched(task[u]) => task[u].pc \in SavePc
  BY <1>1 DEF SerialInv, Exclusive
<1>3. /\ \A x \in marked[d] : uploading_status[d] = x
      /\ meta[d] = cache[d].ver
  BY <1>1, <1>2, QuietDomain, SaveLabels DEF VersionPc
<1>4. uploading_status[d] = v /\ v \in ReqVersion
  BY <1>1 DEF VersionTaskInv
<1>5. OnlineSafe(d)'
  <2> SUFFICES ASSUME cache[d].ver # None
               PROVE  /\ cache[d].ver \in vdirs'[d]
                      /\ cache[d].ver \notin marked[d]
                      /\ cache[d].ver # uploading_status[d]
                      /\ Fills(cache[d].files, files[d][cache[d].ver]')
    BY DEF OnlineSafe
  <2>1. cache[d].ver \in Version /\ cache[d].ver # v
    BY <1>1, <1>4 DEF DomainInv, OnlineSafe, TypeOK
  <2>2. files[d][cache[d].ver]' = files[d][cache[d].ver]
    BY <2>1
  <2> QED
    BY <1>1, <2>2 DEF DomainInv, OnlineSafe
<1>6. DomainInv(d)'
  BY <1>1, <1>3, <1>4, <1>5 DEF DomainInv, MarkerExplained
<1>7. VersionTaskInv(task[t])'
  <2>1. CASE task'[t] = Idle
    BY <2>1 DEF Idle, VersionTaskInv, SavePc
  <2>2. CASE task'[t].pc \in SavePc /\ task'[t].dom = d /\ task'[t].ver = v
    BY <1>4, <2>2 DEF VersionTaskInv, SavePc
  <2> QED
    BY <2>1, <2>2
<1>8. /\ Touched(task'[t]) \subseteq {d} /\ task'[t].pc \in SavePc \cup {"idle"}
      /\ task'[t].pc # "remove"
  BY <1>1, IdleTask, TouchedByPc DEF SavePc
<1> QED
  BY <1>1, <1>2, <1>6, <1>7, <1>8, LocalStep

LEMMA SerialSave ==
  ASSUME SerialInv, TypeOK', NEW t \in Task, NEW d, d = task[t].dom, NEW v, v = task[t].ver,
         MakeParent(t) \/ CreateFile(t) \/ WriteAll(t)
  PROVE  SerialInv'
<1>0. task[t].pc \in SavePc /\ TypeOK
  BY DEF SavePc, MakeParent, CreateFile, WriteAll, SerialInv
<1>1. /\ task[t] \in SaveTask /\ d \in Domain /\ v \in Version
      /\ task[t].file \in File
  BY <1>0, SaveTaskByPc DEF TypeOK
<1>2. ASSUME NEW l \in SavePc, Goto(t, l) \/ Respond(t)
      PROVE  /\ \A u \in Task : u # t => task'[u] = task[u]
             /\ \/ task'[t] = Idle
                \/ task'[t].pc \in SavePc /\ task'[t].dom = d /\ task'[t].ver = v
  BY <1>0, <1>1, <1>2 DEF Goto, Respond, TypeOK, SaveTask
<1>3. ASSUME NEW f \in File, NEW w, files' = [files EXCEPT ![d][v][f] = w],
             UNCHANGED vdirs, UNCHANGED <<marked, meta, uploading_status, cache>>
      PROVE  /\ \A e \in Domain : e # d => SameDomain(e)
             /\ \A x \in Version : x # v => files'[d][x] = files[d][x]
  BY <1>0, <1>1, <1>3 DEF TypeOK, SameDomain
<1>4. CASE MakeParent(t)
  <2>1. /\ vdirs' = [vdirs EXCEPT ![d] = vdirs[d] \cup {v}]
        /\ UNCHANGED <<marked, files, meta, uploading_status, cache>>
        /\ Goto(t, "create_file") \/ Respond(t)
    BY <1>4 DEF MakeParent
  <2>2. /\ vdirs'[d] = vdirs[d] \cup {v}
        /\ \A e \in Domain : e # d => SameDomain(e)
    BY <1>0, <1>1, <2>1 DEF TypeOK, SameDomain
  <2> QED
    BY <1>0, <1>2, <2>1, <2>2, SaveStep DEF SavePc
<1>5. CASE CreateFile(t)
  <2>1. CASE v \notin vdirs[d]
    BY <1>0, <1>5, <2>1, EndStep, SaveLabels DEF CreateFile, VersionPc
  <2>2. CASE v \in vdirs[d]
    <3>1. /\ files' = [files EXCEPT ![d][v][task[t].file] = Empty]
          /\ Goto(t, "write_all")
          /\ UNCHANGED <<vdirs, marked, meta, uploading_status, cache>>
      BY <1>5, <2>2 DEF CreateFile
    <3>2. /\ \A u \in Task : u # t => task'[u] = task[u]
          /\ \/ task'[t] = Idle
             \/ task'[t].pc \in SavePc /\ task'[t].dom = d /\ task'[t].ver = v
      BY <1>2, <3>1 DEF SavePc
    <3>3. /\ \A e \in Domain : e # d => SameDomain(e)
          /\ \A x \in Version : x # v => files'[d][x] = files[d][x]
      BY ZenonT(40), <1>1, <1>3, <3>1
    <3> QED
      BY <1>0, <3>1, <3>2, <3>3, SaveStep
  <2> QED
    BY <2>1, <2>2
<1>6. CASE WriteAll(t)
  <2>1. CASE files' = files
    BY <1>0, <1>6, <2>1, EndStep, SaveLabels DEF WriteAll, VersionPc
  <2>2. ASSUME NEW w, files' = [files EXCEPT ![d][v][task[t].file] = w] PROVE SerialInv'
    <3>1. Respond(t) /\ UNCHANGED <<vdirs, marked, meta, uploading_status, cache>>
      BY <1>6 DEF WriteAll
    <3>2. /\ \A u \in Task : u # t => task'[u] = task[u]
          /\ \/ task'[t] = Idle
             \/ task'[t].pc \in SavePc /\ task'[t].dom = d /\ task'[t].ver = v
      BY <1>0, <1>2, <3>1
    <3>3. /\ \A e \in Domain : e # d => SameDomain(e)
          /\ \A x \in Version : x # v => files'[d][x] = files[d][x]
      BY <1>1, <1>3, <2>2, <3>1
    <3> QED
      BY SMTT(30), <1>0, <3>1, <3>2, <3>3, SaveStep
  <2> QED
    BY <1>6, <2>1, <2>2 DEF WriteAll
<1> QED
  BY <1>4, <1>5, <1>6

\* A delete is alone on every domain it still has to work on, and takes down
\* versions that are not online.
LEMMA SerialRemove ==
  ASSUME SerialInv, TypeOK', NEW t \in Task,
         RemoveEntry(t) \/ RemoveDir(t) \/ RemoveFailed(t) \/ RemoveDone(t)
  PROVE  SerialInv'
<1>1. /\ TypeOK /\ task[t] \in TaskState /\ task[t].pc = "remove"
      /\ task[t] \in RemoveTask /\ task[t].doomed \subseteq Domain \X Version
  BY RemoveTaskByPc DEF SerialInv, TypeOK, RemoveEntry, RemoveDir, RemoveFailed, RemoveDone
<1>2. UNCHANGED <<meta, uploading_status, cache>>
  BY DEF RemoveEntry, RemoveDir, RemoveFailed, RemoveDone, disk
<1>3. /\ \A u \in Task : u # t => task'[u] = task[u]
      /\ \/ task'[t] = Idle
         \/ task'[t].pc = "remove" /\ task'[t].doomed \subseteq task[t].doomed
  BY <1>1 DEF RemoveEntry, RemoveDir, RemoveFailed, RemoveDone, Forget, Respond,
              TypeOK, RemoveTask
<1>4. Touched(task'[t]) \subseteq Touched(task[t])
  BY <1>1, <1>3, IdleTask, TouchedByPc DEF Touched
<1>5. \A u \in Task, e \in Domain : u # t /\ e \in Touched(task[t]) => e \notin Touched(task[u])
  BY <1>1 DEF SerialInv, Exclusive, SavePc
<1>6. ASSUME NEW e \in Domain, NEW x \in Version
      PROVE  /\ vdirs'[e] \subseteq vdirs[e] /\ marked'[e] \subseteq marked[e]
             /\ <<e, x>> \notin task[t].doomed =>
                   /\ files'[e][x] = files[e][x]
                   /\ x \in vdirs[e] => x \in vdirs'[e]
  <2>1. CASE RemoveEntry(t)
    <3>1. UNCHANGED vdirs
      BY <2>1 DEF RemoveEntry
    <3>2. PICK p \in task[t].doomed :
            \/ /\ marked' = [marked EXCEPT ![p[1]] = marked[p[1]] \ {p[2]}]
               /\ UNCHANGED files
            \/ \E f \in File : /\ files' = [files EXCEPT ![p[1]][p[2]][f] = NoFile]
                               /\ UNCHANGED marked
      BY <2>1 DEF RemoveEntry
    <3>3. p[1] \in Domain /\ p[2] \in Version /\ p = <<p[1], p[2]>>
      BY <1>1
    <3>4. CASE marked' = [marked EXCEPT ![p[1]] = marked[p[1]] \ {p[2]}] /\ UNCHANGED files
      <4>1. marked'[e] \in {marked[e], marked[e] \ {p[2]}}
        BY <1>1, <3>3, <3>4 DEF TypeOK
      <4> QED
        BY <3>1, <3>4, <4>1
    <3>5. ASSUME NEW f \in File, files' = [files EXCEPT ![p[1]][p[2]][f] = NoFile],
                 UNCHANGED marked
          PROVE  <<e, x>> # p => files'[e][x] = files[e][x]
      BY <1>1, <3>3, <3>5 DEF TypeOK
    <3> QED
      BY <3>1, <3>2, <3>4, <3>5
  <2>2. CASE RemoveDir(t)
    <3>1. PICK p \in task[t].doomed : vdirs' = [vdirs EXCEPT ![p[1]] = vdirs[p[1]] \ {p[2]}]
      BY <2>2 DEF RemoveDir
    <3>2. p[1] \in Domain /\ p[2] \in Version /\ p = <<p[1], p[2]>>
      BY <1>1
    <3>3. /\ e # p[1] => vdirs'[e] = vdirs[e]
          /\ e = p[1] => vdirs'[e] = vdirs[e] \ {p[2]}
      BY <1>1, <3>1, <3>2 DEF TypeOK
    <3>4. UNCHANGED <<marked, files>>
      BY <2>2 DEF RemoveDir
    <3> QED
      BY <3>2, <3>3, <3>4
  <2>3. CASE RemoveFailed(t) \/ RemoveDone(t)
    BY <2>3 DEF RemoveFailed, RemoveDone, disk
  <2> QED
    BY <2>1, <2>2, <2>3
<1>7. ASSUME NEW e \in Domain, NEW x, <<e, x>> \in task[t].doomed
      PROVE  /\ e \in Touched(task[t]) /\ cache[e].ver # x
  <2>1. e \in Touched(task[t])
    BY <1>1, <1>7, TouchedByPc
  <2>2. meta[e] = cache[e].ver
    BY <1>1, <1>5, <2>1, QuietDomain
  <2>3. meta[e] # x
    BY <1>1, <1>7 DEF SerialInv, RemoveTaskInv
  <2> QED
    BY <2>1, <2>2, <2>3
<1>8. Exclusive'
  <2> SUFFICES ASSUME NEW u \in Task, NEW w \in Task, NEW e \in Domain,
                      u # w, e \in Touched(task'[u]), e \in Touched(task'[w])
               PROVE  task'[u].pc \in SavePc /\ task'[w].pc \in SavePc
    BY DEF Exclusive
  <2>1. u # t /\ w # t
    BY <1>3, <1>4, <1>5
  <2> QED
    BY <1>3, <2>1 DEF SerialInv, Exclusive
<1>9. ASSUME NEW e \in Domain PROVE DomainInv(e)'
  <2>1. DomainInv(e) /\ \A u \in Task : task[u].pc # "remove" => u # t
    BY <1>1 DEF SerialInv
  <2>2. vdirs'[e] \subseteq vdirs[e] /\ marked'[e] \subseteq marked[e]
    <3>1. 0 \in Version
      BY U32Assumption DEF Version
    <3> QED
      BY <1>6, <3>1
  <2>3. MarkerExplained(e)'
    BY <1>2, <1>3, <2>1, <2>2 DEF DomainInv, MarkerExplained
  <2>4. Releasing(e)' \/ meta'[e] = cache'[e].ver
    <3>1. Releasing(e) => Releasing(e)'
      BY <1>3, <2>1 DEF Releasing
    <3> QED
      BY <1>2, <2>1, <3>1 DEF DomainInv
  <2>5. OnlineSafe(e)'
    <3> SUFFICES ASSUME cache[e].ver # None
                 PROVE  /\ cache[e].ver \in vdirs'[e]
                        /\ cache[e].ver \notin marked'[e]
                        /\ cache[e].ver # uploading_status[e]
                        /\ Fills(cache[e].files, files[e][cache[e].ver]')
      BY <1>2 DEF OnlineSafe
    <3>1. cache[e].ver \in Version
      BY <1>1 DEF TypeOK
    <3>2. files'[e][cache[e].ver] = files[e][cache[e].ver] /\ cache[e].ver \in vdirs'[e]
      BY <1>6, <1>7, <2>1, <3>1 DEF DomainInv, OnlineSafe
    <3>3. files[e][cache[e].ver]' = files[e][cache[e].ver]
      BY <1>2, <3>2
    <3>4. /\ cache[e].ver \notin marked[e] /\ cache[e].ver # uploading_status[e]
          /\ Fills(cache[e].files, files[e][cache[e].ver])
      BY <2>1 DEF DomainInv, OnlineSafe
    <3> QED
      BY <1>2, <2>2, <3>2, <3>3, <3>4
  <2> QED
    BY <1>2, <2>1, <2>2, <2>3, <2>4, <2>5 DEF DomainInv
<1>10. ASSUME NEW u \in Task PROVE RemoveTaskInv(task[u])'
  <2>1. RemoveTaskInv(task[u])
    BY DEF SerialInv
  <2>2. CASE u # t
    BY <1>2, <1>3, <2>1, <2>2 DEF RemoveTaskInv
  <2>3. CASE u = t
    BY <1>1, <1>2, <1>3, <2>1, <2>3, IdleTask DEF RemoveTaskInv
  <2> QED
    BY <2>2, <2>3
<1>11. ASSUME NEW u \in Task PROVE VersionTaskInv(task[u])'
  <2>1. CASE task'[u].pc \in {"remove", "idle"}
    BY <2>1 DEF VersionTaskInv, SavePc
  <2>2. CASE task'[u].pc \notin {"remove", "idle"}
    <3>1. u # t /\ task'[u] = task[u] /\ task[u] \in TaskState
      BY <1>1, <1>3, <2>2, IdleTask DEF TypeOK
    <3>2. /\ VersionTaskInv(task[u])
          /\ task[u].dom \in Domain /\ task[u].ver \in Version
          /\ task[u].dom \in Touched(task[u])
      BY <2>2, <3>1, TouchedByPc DEF SerialInv
    <3>3. task[u].dom \notin Touched(task[t])
      BY <1>5, <3>1, <3>2
    <3>4. /\ marked'[task[u].dom] \subseteq marked[task[u].dom]
          /\ files'[task[u].dom][task[u].ver] = files[task[u].dom][task[u].ver]
          /\ task[u].ver \in vdirs[task[u].dom] => task[u].ver \in vdirs'[task[u].dom]
      BY <1>6, <1>7, <3>2, <3>3
    <3>5. files[task[u].dom][task[u].ver]' = files[task[u].dom][task[u].ver]
      BY <3>1, <3>4
    <3> QED
      BY <1>2, <3>1, <3>2, <3>4, <3>5 DEF VersionTaskInv
  <2> QED
    BY <2>1, <2>2
<1> QED
  BY <1>8, <1>9, <1>10, <1>11 DEF SerialInv
\* At most one version of a domain holds the marker.
LEMMA OneMarker ==
  ASSUME SerialInv, NEW d \in Domain, NEW v \in marked[d], NEW w \in marked[d]
  PROVE  v = w
<1>1. v \in Version /\ w \in Version
  BY DEF SerialInv, TypeOK
<1>2. ASSUME NEW x \in marked[d]
      PROVE  \/ uploading_status[d] = x
             \/ uploading_status[d] = None
  BY <1>2 DEF SerialInv, DomainInv, MarkerExplained, VersionTaskInv
<1>3. CASE uploading_status[d] # None
  BY <1>2, <1>3
<1>4. CASE uploading_status[d] = None
  <2>1. ASSUME NEW x \in {v, w}
        PROVE  \E t \in Task : /\ task[t].pc = "insert_uploading"
                               /\ task[t].dom = d /\ task[t].ver = x
    BY <1>1, <1>4, <2>1, NoneIsNoVersion DEF SerialInv, DomainInv, MarkerExplained
  <2>2. PICK t \in Task : /\ task[t].pc = "insert_uploading"
                          /\ task[t].dom = d /\ task[t].ver = v
    BY <2>1
  <2>3. PICK u \in Task : /\ task[u].pc = "insert_uploading"
                          /\ task[u].dom = d /\ task[u].ver = w
    BY <2>1
  <2>4. d \in Touched(task[t]) /\ d \in Touched(task[u])
    BY <2>2, <2>3, TouchedByPc DEF SerialInv, TypeOK, VersionPc
  <2>5. t = u
    BY <2>2, <2>3, <2>4 DEF SerialInv, Exclusive, SavePc
  <2> QED
    BY <2>2, <2>3, <2>5
<1> QED
  BY <1>3, <1>4

\* What DomainStorage::init finds and sets up for one domain, on a disk with
\* at most one marker in it.
Booted(d) ==
    /\ vdirs[d] \subseteq ReqVersion
    /\ InitMeta(d, meta[d])
    /\ InitUploading(d, uploading_status[d])
    /\ \E S \in SUBSET Unreadable : cache[d] = InitCache(d, meta[d], S)
    /\ \A v, w \in marked[d] : v = w

AllIdle == \A t \in Task : task[t] = Idle

LEMMA BootedDomain ==
  ASSUME NEW d \in Domain, TypeOK, Booted(d)
  PROVE  DomainInv(d)
<1> USE DEF Booted
<1>1. meta[d] = None \/ meta[d] \in vdirs[d] \ marked[d]
  BY DEF InitMeta, IsMax
<1>2. cache[d].ver = meta[d]
  BY DEF InitCache, NotCached
<1>3. \A v \in marked[d] : uploading_status[d] = v
  BY DEF InitUploading
<1>4. uploading_status[d] # None => uploading_status[d] \in marked[d]
  BY DEF InitUploading
<1>5. OnlineSafe(d)
  <2> SUFFICES ASSUME cache[d].ver # None
               PROVE  /\ cache[d].ver \in vdirs[d]
                      /\ cache[d].ver \notin marked[d]
                      /\ cache[d].ver # uploading_status[d]
                      /\ Fills(cache[d].files, files[d][cache[d].ver])
    BY DEF OnlineSafe
  <2>1. Fills(cache[d].files, files[d][meta[d]])
    BY <1>2, CacheDirFills DEF InitCache
  <2> QED
    BY <1>1, <1>2, <1>4, <2>1
<1>6. uploading_status[d] # None => uploading_status[d] # meta[d]
  BY <1>1, <1>4
<1> QED
  BY <1>2, <1>3, <1>5, <1>6 DEF DomainInv, MarkerExplained

LEMMA SerialBoot == TypeOK /\ AllIdle /\ (\A d \in Domain : Booted(d)) => SerialInv
<1> SUFFICES ASSUME TypeOK, AllIdle, \A d \in Domain : Booted(d)
             PROVE  SerialInv
    OBVIOUS
<1>1. ASSUME NEW d \in Domain PROVE DomainInv(d)
  BY BootedDomain
<1>2. \A t \in Task : task[t] = Idle /\ Touched(task[t]) = {}
  BY IdleTask, TouchedByPc DEF AllIdle
<1>3. /\ Exclusive
      /\ \A t \in Task : VersionTaskInv(task[t]) /\ RemoveTaskInv(task[t])
  BY <1>2, IdleInv DEF Exclusive
<1> QED
  BY <1>1, <1>3 DEF SerialInv

LEMMA SerialInit == Init => SerialInv
<1> SUFFICES ASSUME Init PROVE SerialInv
    OBVIOUS
<1>1. TypeOK /\ AllIdle
  BY TypeInit DEF Init, AllIdle
<1>2. ASSUME NEW d \in Domain PROVE Booted(d)
  BY DEF Init, InitUploading, Booted
<1> QED
  BY <1>1, <1>2, SerialBoot

LEMMA SerialRestart ==
  ASSUME SerialInv, TypeOK', Restart
  PROVE  SerialInv'
<1>1. AllIdle'
  BY DEF Restart, AllIdle
<1>2. ASSUME NEW d \in Domain PROVE Booted(d)'
  <2>1. UNCHANGED <<vdirs, marked, files>>
    BY DEF Restart, disk
  <2>2. InitMeta(d, meta'[d]) /\ InitUploading(d, uploading_status'[d])
    BY DEF Restart
  <2>3. InitMeta(d, meta[d])' /\ InitUploading(d, uploading_status[d])'
    BY <2>1, <2>2 DEF InitMeta, InitUploading
  <2>4. \E S \in SUBSET Unreadable : cache'[d] = InitCache(d, meta'[d], S)
    BY DEF Restart
  <2>5. (\E S \in SUBSET Unreadable : cache[d] = InitCache(d, meta[d], S))'
    BY <2>1, <2>4 DEF InitCache, CacheDirOf, NotCached
  <2>6. \A v, w \in marked'[d] : v = w
    BY <2>1, OneMarker
  <2>7. vdirs'[d] \subseteq ReqVersion
    BY <2>1 DEF SerialInv, DomainInv
  <2> QED
    BY <2>3, <2>5, <2>6, <2>7 DEF Booted
<1>3. (TypeOK /\ AllIdle /\ \A d \in Domain : Booted(d))'
  BY <1>1, <1>2
<1> QED
  BY <1>3, SerialBoot, PTL

LEMMA SerialNext ==
  ASSUME Serialised, NoUnderflow
  PROVE  SerialInv /\ [Next]_vars => SerialInv'
<1> SUFFICES ASSUME SerialInv, [Next]_vars PROVE SerialInv'
    OBVIOUS
<1>0. TypeOK'
  BY TypeNext DEF SerialInv
<1>1. CASE UNCHANGED vars
  <2>1. ASSUME NEW d \in Domain PROVE DomainInv(d)'
    <3>1. DomainInv(d) /\ SameDomain(d)
      BY <1>1 DEF SerialInv, vars, SameDomain
    <3>2. OnlineSafe(d)'
      BY <3>1, SameOnline DEF DomainInv, SameDomain
    <3> QED
      BY <1>1, <3>1, <3>2 DEF vars, DomainInv, MarkerExplained, Releasing
  <2>2. ASSUME NEW t \in Task PROVE VersionTaskInv(task[t])' /\ RemoveTaskInv(task[t])'
    <3>1. VersionTaskInv(task[t]) /\ RemoveTaskInv(task[t])
      BY DEF SerialInv
    <3>2. files[task[t].dom][task[t].ver]' = files[task[t].dom][task[t].ver]
      BY <1>1 DEF vars
    <3> QED
      BY <1>1, <3>1, <3>2 DEF vars, VersionTaskInv, RemoveTaskInv
  <2>3. Exclusive'
    BY <1>1 DEF SerialInv, vars, Exclusive
  <2> QED
    BY <1>0, <2>1, <2>2, <2>3 DEF SerialInv
<1>2. ASSUME NEW t \in Task, Request(t) PROVE SerialInv'
  <2>1. ASSUME NEW d \in Domain, Release(t, d) PROVE SerialInv'
    BY <1>0, <2>1, SerialReleaseCheck, RequestAssumption DEF Release
  <2>2. ASSUME NEW d \in Domain, ReleaseLatest(t, d) PROVE SerialInv'
    BY <1>0, <2>2, SerialReleaseCheck DEF ReleaseLatest, SerialInv, TypeOK
  <2> QED
    BY <1>0, <1>2, <2>1, <2>2, SerialUpload, SerialSaveFile, SerialDelete DEF Request
<1>3. ASSUME NEW t \in Task, Step(t) PROVE SerialInv'
  <2>1. CASE IoError(t)
    BY <1>0, <2>1, EndStep DEF IoError, disk, VersionPc, SavePc
  <2> QED
    BY <1>0, <1>3, <2>1, SerialRelease, SerialStatus, SerialSave, SerialRemove DEF Step
<1> QED
  BY <1>0, <1>1, <1>2, <1>3, SerialRestart DEF Next

LEMMA SerialInvMeaning ==
  SerialInv => MarkedNotOnline /\ StatusTellsOnline /\ OnlineMatchesDisk
<1> SUFFICES ASSUME SerialInv, NEW d \in Domain
             PROVE  /\ cache[d].ver \notin marked[d]
                    /\ Releasing(d) \/ meta[d] = cache[d].ver
                    /\ cache[d].ver # None =>
                          /\ cache[d].ver \in vdirs[d]
                          /\ Fills(cache[d].files, files[d][cache[d].ver])
    BY CacheDirFills DEF MarkedNotOnline, StatusTellsOnline, OnlineMatchesDisk
<1>1. DomainInv(d) /\ None \notin marked[d]
  BY NoneIsNoVersion DEF SerialInv, TypeOK
<1> QED
  BY <1>1 DEF DomainInv, OnlineSafe

THEOREM SerialSafe ==
  ASSUME Serialised, NoUnderflow
  PROVE  Spec => []SerialInv
<1>1. SerialInv /\ [Next]_vars => SerialInv'
  BY SerialNext
<1> QED
  BY <1>1, SerialInit, PTL DEF Spec

(***************************************************************************)
(* A version with the marker .SPA-Processing is not online, for any number *)
(* of domains, files, versions and handlers, across crashes and I/O        *)
(* errors, as long as the requests for one domain do not overlap and no    *)
(* delete makes max_version - max_reserve wrap.                            *)
(***************************************************************************)
THEOREM MarkedStaysOffline ==
  ASSUME Serialised, NoUnderflow
  PROVE  Spec => []MarkedNotOnline
  BY SerialSafe, SerialInvMeaning, PTL

(***************************************************************************)
(* Under the same assumptions, GET /status names the version whose files   *)
(* are served, except during a release.                                    *)
(***************************************************************************)
THEOREM StatusIsAccurate ==
  ASSUME Serialised, NoUnderflow
  PROVE  Spec => []StatusTellsOnline
  BY SerialSafe, SerialInvMeaning, PTL

(***************************************************************************)
(* Under the same assumptions, the directory of the online version stays   *)
(* on disk with the files the cache was filled from.                       *)
(***************************************************************************)
THEOREM OnlineIsStable ==
  ASSUME Serialised, NoUnderflow
  PROVE  Spec => []OnlineMatchesDisk
  BY SerialSafe, SerialInvMeaning, PTL

(***************************************************************************)
(* Under the same assumptions, at most one version of a domain is receiving *)
(* files, across crashes, I/O errors and deletes.                          *)
(***************************************************************************)
THEOREM UploadsAreExclusive ==
  ASSUME Serialised, NoUnderflow
  PROVE  Spec => []OneUpload
<1>1. SerialInv => OneUpload
  BY OneMarker DEF OneUpload
<1> QED
  BY <1>1, SerialSafe, PTL

LEMMA RestartServesNewest ==
  ASSUME SerialInv, 0 \notin ReqVersion, Restart, NEW d \in Domain
  PROVE  cache'[d].ver >= cache[d].ver
<1>1. /\ InitMeta(d, meta'[d]) /\ meta'[d] \in OptVersion
      /\ cache'[d].ver = meta'[d]
  BY DEF Restart, InitCache, NotCached
<1>2. cache[d].ver \in OptVersion /\ vdirs[d] \in SUBSET Version /\ DomainInv(d)
  BY DEF SerialInv, TypeOK
<1>3. CASE cache[d].ver = None
  BY <1>1, <1>3, U32Assumption DEF None, Version
<1>4. CASE cache[d].ver # None
  <2>1. cache[d].ver \in (vdirs[d] \ marked[d]) \ {0}
    BY <1>2, <1>4 DEF DomainInv, OnlineSafe
  <2>2. IsMax(meta'[d], (vdirs[d] \ marked[d]) \ {0})
    BY <1>1, <2>1 DEF InitMeta
  <2>3. cache[d].ver <= meta'[d] /\ cache[d].ver \in Int /\ meta'[d] \in Int
    BY <1>1, <1>2, <2>1, <2>2, U32Assumption DEF IsMax, None, Version
  <2> QED
    BY <1>1, <2>3
<1> QED
  BY <1>3, <1>4

(***************************************************************************)
(* Under the same assumptions, and when no request names version 0, a      *)
(* restart at any point never puts an older version online than the one    *)
(* that was online when the process stopped.                               *)
(***************************************************************************)
THEOREM RestartKeepsUp ==
  ASSUME Serialised, NoUnderflow, 0 \notin ReqVersion
  PROVE  Spec => RestartNeverRegresses
<1>1. SerialInv /\ [Next]_vars =>
          [Restart => \A d \in Domain : cache'[d].ver >= cache[d].ver]_vars
  BY RestartServesNewest
<1> QED
  BY <1>1, SerialSafe, PTL DEF Spec, RestartNeverRegresses
=============================================================================
