------------------------- MODULE UploadClientProofs -------------------------
(***************************************************************************)
(* Proofs about UploadClient: for any number of clients, files, tries and  *)
(* handlers.                                                               *)
(***************************************************************************)
EXTENDS UploadClient, DomainStorageProofs

USE DEF OptVersion

-----------------------------------------------------------------------------
(* The handlers, seen by the clients that wait for them. *)

UploadingPc == {"create_dir", "create_marker", "insert_uploading"}
FinishPc == {"remove_marker", "remove_uploading"}

SameSave(s, r) ==
    /\ s.pc \in SavePc /\ r.pc \in SavePc
    /\ r.dom = s.dom /\ r.ver = s.ver /\ r.file = s.file /\ r.data = s.data

\* What a step does to its handler.
LEMMA HandlerStep ==
    ASSUME TypeOK, NEW t \in Task, Step(t)
    PROVE  /\ \A u \in Task : u # t => task'[u] = task[u]
           /\ task[t] # Idle
           /\ \/ task'[t] = Idle
              \/ SameSave(task[t], task'[t])
              \/ task[t].pc \in UploadingPc /\ task'[t].pc \in UploadingPc
              \/ task[t].pc \in FinishPc /\ task'[t].pc \in FinishPc
              \/ /\ task[t].pc \notin SavePc \cup UploadingPc \cup FinishPc
                 /\ task'[t].pc \notin SavePc \cup UploadingPc \cup FinishPc
                 /\ task[t].pc # "remove" => task'[t].pc # "remove"
  <1>1. task[t] \in TaskState /\ task \in [Task -> TaskState]
    BY DEF TypeOK
  <1>2. ASSUME NEW l, Goto(t, l)
        PROVE  /\ \A u \in Task : u # t => task'[u] = task[u]
               /\ task'[t] = [task[t] EXCEPT !.pc = l]
    BY <1>1, <1>2 DEF Goto
  <1>3. ASSUME Respond(t)
        PROVE  /\ \A u \in Task : u # t => task'[u] = task[u]
               /\ task'[t] = Idle
    BY <1>1, <1>3 DEF Respond
  <1>4. ASSUME NEW l \in VersionPc \cup SavePc, Goto(t, l), task[t].pc \in VersionPc \cup SavePc
        PROVE  /\ task'[t].pc = l
               /\ task[t].pc \in SavePc /\ l \in SavePc => SameSave(task[t], task'[t])
    <2>1. task[t] \in VersionTask \cup SaveTask
      BY <1>1, <1>4, VersionTaskByPc, SaveTaskByPc
    <2>2. task'[t] = [task[t] EXCEPT !.pc = l]
      BY <1>2, <1>4
    <2> QED
      BY <2>1, <2>2 DEF VersionTask, SaveTask, SameSave
  <1>5. task[t].pc # "idle" => task[t] # Idle
    BY DEF Idle
  <1>6. CASE GoOnline(t)
    <2>1. task[t].pc = "go_online" /\ (Goto(t, "cache_dir") \/ Respond(t))
      BY <1>6 DEF GoOnline
    <2>2. CASE Goto(t, "cache_dir")
      <3>1. task'[t].pc = "cache_dir"
        BY <1>4, <2>1, <2>2 DEF VersionPc
      <3> QED
        BY <1>2, <1>5, <2>1, <2>2, <3>1 DEF SavePc, UploadingPc, FinishPc
    <2> QED
      BY <1>3, <1>5, <2>1, <2>2
  <1>7. CASE CacheDir(t)
    <2>1. /\ task[t].pc = "cache_dir" /\ task'[t].pc = "cache_update"
          /\ \A u \in Task : u # t => task'[u] = task[u]
      BY <1>1, <1>7 DEF CacheDir
    <2> QED
      BY <1>5, <2>1 DEF SavePc, UploadingPc, FinishPc
  <1>8. CASE CacheUpdate(t)
    BY <1>3, <1>5, <1>8 DEF CacheUpdate
  <1>9. CASE CreateDir(t)
    BY <1>3, <1>4, <1>5, <1>2, <1>9 DEF CreateDir, VersionPc, UploadingPc
  <1>10. CASE CreateMarker(t)
    BY <1>3, <1>4, <1>5, <1>2, <1>10 DEF CreateMarker, VersionPc, UploadingPc
  <1>11. CASE InsertUploading(t) \/ RemoveUploading(t)
    BY <1>3, <1>5, <1>11 DEF InsertUploading, RemoveUploading
  <1>12. CASE RemoveMarker(t)
    BY <1>3, <1>4, <1>5, <1>2, <1>12 DEF RemoveMarker, VersionPc, FinishPc
  <1>13. CASE MakeParent(t)
    BY <1>3, <1>4, <1>5, <1>2, <1>13 DEF MakeParent, SavePc
  <1>14. CASE CreateFile(t)
    BY <1>3, <1>4, <1>5, <1>2, <1>14 DEF CreateFile, SavePc
  <1>15. CASE WriteAll(t)
    BY <1>3, <1>5, <1>15 DEF WriteAll
  <1>16. CASE RemoveEntry(t)
    BY <1>5, <1>16 DEF RemoveEntry, SavePc, UploadingPc, FinishPc
  <1>17. CASE RemoveDir(t) \/ RemoveFailed(t)
    <2>1. task[t].pc = "remove" /\ \E p \in task[t].doomed : Forget(t, p)
      BY <1>17 DEF RemoveDir, RemoveFailed
    <2>2. task[t] \in RemoveTask
      BY <1>1, <2>1, RemoveTaskByPc
    <2>3. PICK p \in task[t].doomed :
             task' = [task EXCEPT ![t] = [task[t] EXCEPT !.doomed = task[t].doomed \ {p}]]
      BY <2>1 DEF Forget
    <2>4. task'[t].pc = "remove" /\ \A u \in Task : u # t => task'[u] = task[u]
      BY <1>1, <2>2, <2>3 DEF RemoveTask
    <2> QED
      BY <1>5, <2>1, <2>4 DEF SavePc, UploadingPc, FinishPc
  <1>18. CASE RemoveDone(t)
    BY <1>3, <1>5, <1>18 DEF RemoveDone
  <1>19. CASE IoError(t)
    BY <1>3, <1>5, <1>19 DEF IoError
  <1> QED
    BY <1>6, <1>7, <1>8, <1>9, <1>10, <1>11, <1>12, <1>13, <1>14, <1>15, <1>16, <1>17,
       <1>18, <1>19 DEF Step

\* A request starts one handler.
LEMMA StatusUploadingStarts ==
    ASSUME TypeOK, NEW t \in Task, NEW d \in Domain, StatusUploading(t, d)
    PROVE  /\ \A u \in Task : u # t => task'[u] = task[u]
           /\ task[t] = Idle
           /\ task'[t].pc = "create_dir" /\ task'[t].ver \in Version
           /\ UNCHANGED <<disk, meta, uploading_status, cache>>
  BY RequestAssumption DEF TypeOK, StatusUploading, MayStart

LEMMA StatusFinishStarts ==
    ASSUME TypeOK, NEW t \in Task, NEW d \in Domain, StatusFinish(t, d)
    PROVE  /\ \A u \in Task : u # t => task'[u] = task[u]
           /\ task[t] = Idle
           /\ task'[t].pc = "remove_marker" /\ task'[t].ver \in Version
           /\ UNCHANGED <<disk, meta, uploading_status, cache>>
  BY RequestAssumption DEF TypeOK, StatusFinish, MayStart

LEMMA SaveFileStarts ==
    ASSUME TypeOK, NEW t \in Task, NEW d \in Domain, SaveFile(t, d)
    PROVE  /\ \A u \in Task : u # t => task'[u] = task[u]
           /\ task[t] = Idle
           /\ task'[t].pc = "make_parent" /\ task'[t].dom = d
           /\ task'[t].ver \in Version /\ task'[t].file \in File
           /\ UNCHANGED <<disk, meta, uploading_status, cache>>
  <1>1. PICK v \in ReqVersion, f \in File, c \in Body :
          /\ MayStartSave(t, d)
          /\ task' = [task EXCEPT ![t] = [pc |-> "make_parent", dom |-> d, ver |-> v,
                                          file |-> f, data |-> c]]
          /\ UNCHANGED <<disk, meta, uploading_status, cache>>
    BY DEF SaveFile
  <1>2. task'[t] = [pc |-> "make_parent", dom |-> d, ver |-> v, file |-> f, data |-> c]
    BY <1>1 DEF TypeOK
  <1> QED
    BY <1>1, <1>2, RequestAssumption DEF MayStartSave, TypeOK

\* Every step of the composition is one of the storage, or leaves it alone.
LEMMA StorageStep == ClientNext => [Next]_vars
  <1> SUFFICES ASSUME ClientNext PROVE [Next]_vars
    OBVIOUS
  <1>1. ASSUME NEW t \in Task, Request(t) \/ Step(t) \/ UNCHANGED vars PROVE [Next]_vars
    BY <1>1 DEF Next
  <1>2. ASSUME NEW c \in Client,
               GetUploadVersion(c) \/ GetFileMetadata(c) \/ SomeFilesFailed(c) \/ Abort(c)
        PROVE  UNCHANGED vars
    BY <1>2 DEF GetUploadVersion, GetFileMetadata, SomeFilesFailed, Abort
  <1>3. ASSUME NEW c \in Client, ChangeToUploading(c) \/ ChangeToFinish(c)
        PROVE  [Next]_vars
    <2>1. \/ UNCHANGED vars
          \/ \E t \in Task : StatusUploading(t, Site) \/ StatusFinish(t, Site)
      BY <1>3 DEF ChangeToUploading, ChangeToFinish
    <2> QED
      BY <1>1, <2>1, ClientAssumption DEF Request
  <1>4. ASSUME NEW c \in Client, NEW f \in File, UploadFile(c, f)
        PROVE  [Next]_vars
    <2>1. UNCHANGED vars \/ \E t \in Task : SaveFile(t, Site)
      BY <1>4 DEF UploadFile
    <2> QED
      BY <1>1, <2>1, ClientAssumption DEF Request
  <1>5. ASSUME NEW t \in Task, Serve(t) \/ LoseAnswer(t) \/ LoseSilently(t) PROVE [Next]_vars
    BY <1>1, <1>5 DEF Serve, LoseAnswer, LoseSilently
  <1>6. CASE ServerRestart
    BY <1>6 DEF ServerRestart, Next
  <1> QED
    BY <1>2, <1>3, <1>4, <1>5, <1>6 DEF ClientNext, UploadStep

-----------------------------------------------------------------------------
(* Types.  A client waits for one request at a time, but for its saves, of *)
(* which there is one per file, within the number of its tries.            *)

Waits(c, t) ==
    \/ /\ task[t].pc \in SavePc
       /\ client[c].pc = "save" /\ client[c].tries[task[t].file] < MaxTry
    \/ task[t].pc \in UploadingPc /\ client[c].pc = "uploading"
    \/ task[t].pc \in FinishPc /\ client[c].pc = "save" /\ client[c].todo = {}

Apart ==
    \A t, u \in Task : t # u /\ owner[t] = owner[u] /\ owner[t] # NoClient =>
        /\ task[t].pc \in SavePc /\ task[u].pc \in SavePc
        /\ task[t].file # task[u].file

ClientInv ==
    /\ TypeOK
    /\ client \in [Client -> ClientState]
    /\ owner \in [Task -> Client \cup {NoClient}]
    /\ \A t \in Task : owner[t] # NoClient => Waits(owner[t], t)
    /\ Apart

LEMMA PcsDiffer ==
    /\ \A l \in SavePc : l \notin UploadingPc \cup FinishPc \cup {"idle"}
    /\ \A l \in UploadingPc : l \notin FinishPc \cup {"idle"}
    /\ "idle" \notin FinishPc
  BY DEF SavePc, UploadingPc, FinishPc

ContestedType == contested \subseteq Domain \X Version \X File

LEMMA ClientInvMeaning ==
    /\ ClientInv => \A t \in Task : owner[t] # NoClient => task[t] # Idle /\ Running(owner[t])
    /\ ClientInv /\ ContestedType => ClientTypeOK
  BY PcsDiffer DEF ClientInv, ContestedType, ClientTypeOK, Waits, Running, Idle

LEMMA ContestedStep == ContestedType /\ (WatchSaves \/ contested' = contested) => ContestedType'
  BY DEF ContestedType, WatchSaves, OpenTwice

SameLabel(s, r) ==
    \/ r = s
    \/ SameSave(s, r)
    \/ s.pc \in UploadingPc /\ r.pc \in UploadingPc
    \/ s.pc \in FinishPc /\ r.pc \in FinishPc

\* Nobody waits for more than before, and those who wait know no less.
LEMMA NoMoreWaits ==
    ASSUME ClientInv, TypeOK',
           client' \in [Client -> ClientState], owner' \in [Task -> Client \cup {NoClient}],
           \A u \in Task : owner'[u] # NoClient =>
               /\ owner'[u] = owner[u] /\ SameLabel(task[u], task'[u])
               /\ client'[owner[u]].pc = client[owner[u]].pc
               /\ client'[owner[u]].todo \subseteq client[owner[u]].todo
               /\ task[u].pc \in SavePc =>
                     client'[owner[u]].tries[task[u].file] = client[owner[u]].tries[task[u].file]
    PROVE  ClientInv'
  <1>1. ASSUME NEW u \in Task, owner'[u] # NoClient
        PROVE  Waits(owner[u], u)'
    <2>1. Waits(owner[u], u) /\ owner'[u] = owner[u] /\ SameLabel(task[u], task'[u])
      BY <1>1 DEF ClientInv
    <2>2. CASE task[u].pc \in SavePc
      <3>1. task'[u].pc \in SavePc /\ task'[u].file = task[u].file
        BY <2>1, <2>2, PcsDiffer DEF SameLabel, SameSave
      <3> QED
        BY <1>1, <2>1, <2>2, <3>1, PcsDiffer DEF Waits
    <2>3. CASE task[u].pc \in UploadingPc
      <3>1. task'[u].pc \in UploadingPc
        BY <2>1, <2>3, PcsDiffer DEF SameLabel, SameSave
      <3> QED
        BY <1>1, <2>1, <2>3, <3>1, PcsDiffer DEF Waits
    <2>4. CASE task[u].pc \in FinishPc
      <3>1. task'[u].pc \in FinishPc
        BY <2>1, <2>4, PcsDiffer DEF SameLabel, SameSave
      <3> QED
        BY <1>1, <2>1, <2>4, <3>1, PcsDiffer DEF Waits
    <2> QED
      BY <2>1, <2>2, <2>3, <2>4 DEF Waits
  <1>2. Apart'
    <2> SUFFICES ASSUME NEW t \in Task, NEW u \in Task, t # u,
                        owner'[t] = owner'[u], owner'[t] # NoClient
                 PROVE  /\ task'[t].pc \in SavePc /\ task'[u].pc \in SavePc
                        /\ task'[t].file # task'[u].file
      BY DEF Apart
    <2>1. /\ task[t].pc \in SavePc /\ task[u].pc \in SavePc
          /\ task[t].file # task[u].file
      BY DEF ClientInv, Apart
    <2> QED
      BY <2>1, PcsDiffer DEF SameLabel, SameSave
  <1>3. \A u \in Task : owner'[u] # NoClient => Waits(owner[u], u)' /\ owner'[u] = owner[u]
    BY <1>1
  <1> QED
    BY <1>2, <1>3 DEF ClientInv, Waits

\* A request of c that reaches the storage.
LEMMA OneMoreWait ==
    ASSUME ClientInv, TypeOK', NEW c \in Client, NEW t \in Task,
           task[t] = Idle, \A u \in Task : u # t => task'[u] = task[u],
           owner' = [owner EXCEPT ![t] = c], client' = client,
           Waits(c, t)',
           \/ Requests(c) = {}
           \/ /\ task'[t].pc \in SavePc /\ client[c].todo # {}
              /\ \A u \in Requests(c) : task[u].file # task'[t].file
    PROVE  ClientInv'
  <1>1. owner' \in [Task -> Client \cup {NoClient}] /\ owner'[t] = c
    BY DEF ClientInv
  <1>2. ASSUME NEW u \in Task, u # t, owner'[u] # NoClient
        PROVE  /\ owner'[u] = owner[u] /\ Waits(owner'[u], u) /\ task'[u] = task[u]
    BY <1>2 DEF ClientInv
  <1>3. ASSUME NEW u \in Task, u # t, owner[u] = c
        PROVE  /\ task'[u].pc \in SavePc /\ task'[t].pc \in SavePc
               /\ task'[u].file # task'[t].file
    <2>1. u \in Requests(c) /\ c # NoClient
      BY <1>3, ClientAssumption DEF Requests
    <2>2. Waits(c, u)
      BY <1>3, <2>1 DEF ClientInv
    <2>3. task'[t].pc \in SavePc /\ client[c].todo # {} /\ task[u].file # task'[t].file
      BY <2>1
    <2>4. client[c].pc = "save"
      BY <2>3, PcsDiffer DEF Waits
    <2>5. task[u].pc \in SavePc
      BY <2>2, <2>3, <2>4 DEF Waits
    <2> QED
      BY <1>3, <2>3, <2>5
  <1>4. Apart'
    <2> SUFFICES ASSUME NEW v \in Task, NEW u \in Task, v # u,
                        owner'[v] = owner'[u], owner'[v] # NoClient
                 PROVE  /\ task'[v].pc \in SavePc /\ task'[u].pc \in SavePc
                        /\ task'[v].file # task'[u].file
      BY DEF Apart
    <2>1. CASE v = t
      BY <1>1, <1>2, <1>3, <2>1
    <2>2. CASE u = t
      BY <1>1, <1>2, <1>3, <2>2
    <2>3. CASE v # t /\ u # t
      BY <1>2, <2>3 DEF ClientInv, Apart
    <2> QED
      BY <2>1, <2>2, <2>3
  <1>5. ASSUME NEW u \in Task, owner'[u] # NoClient PROVE Waits(owner[u], u)' \/ u = t
    BY <1>2, <1>5 DEF Waits
  <1>6. \A u \in Task : owner'[u] # NoClient =>
            IF u = t THEN Waits(c, t)' ELSE Waits(owner[u], u)' /\ owner'[u] = owner[u]
    BY <1>2, <1>5
  <1> QED
    BY <1>1, <1>4, <1>6 DEF ClientInv, Waits

LEMMA TriedAgainType ==
    ASSUME NEW s \in ClientState, NEW F \in SUBSET File, \A f \in F : s.tries[f] < MaxTry
    PROVE  /\ TriedAgain(s, F) \in ClientState
           /\ TriedAgain(s, F).pc = s.pc /\ TriedAgain(s, F).todo = s.todo
           /\ TriedAgain(s, F).ver = s.ver /\ TriedAgain(s, F).skipped = s.skipped
           /\ \A f \in File \ F : TriedAgain(s, F).tries[f] = s.tries[f]
  <1> DEFINE tries == [f \in File |-> IF f \in F THEN s.tries[f] + 1 ELSE s.tries[f]]
  <1>1. MaxTry \in Nat /\ s.tries \in [File -> 0 .. MaxTry]
    BY ClientAssumption DEF ClientState
  <1>2. tries \in [File -> 0 .. MaxTry]
    <2> SUFFICES ASSUME NEW f \in File PROVE tries[f] \in 0 .. MaxTry
      OBVIOUS
    <2> QED
      BY <1>1
  <1>3. TriedAgain(s, F) = [s EXCEPT !.tries = tries]
    BY DEF TriedAgain
  <1>4. \A f \in File \ F : tries[f] = s.tries[f]
    OBVIOUS
  <1> HIDE DEF tries
  <1> QED
    BY <1>2, <1>3, <1>4 DEF ClientState

LEMMA FailedType ==
    ASSUME NEW s \in ClientState
    PROVE  Failed(s) \in ClientState /\ Failed(s).pc = "failed"
  <1>1. [f \in File |-> 0] \in [File -> 0 .. MaxTry]
    BY ClientAssumption
  <1>2. {} \in SUBSET File /\ "failed" \in Pc
    BY DEF Pc
  <1> QED
    BY <1>1, <1>2 DEF Failed, ClientState

\* An error, for requests T of a client.
LEMMA AfterErrorType ==
    ASSUME ClientInv, NEW c \in Client, NEW T \in SUBSET Requests(c)
    PROVE  /\ AfterError(client[c], T) \in ClientState
           /\ (\A t \in T : task[t].pc \in SavePc) =>
                 LET s == AfterError(client[c], T)
                 IN /\ s.pc = client[c].pc /\ s.todo = client[c].todo /\ s.ver = client[c].ver
                    /\ s.skipped = client[c].skipped
                    /\ \A f \in File : (\A t \in T : task[t].file # f) =>
                                           s.tries[f] = client[c].tries[f]
           /\ (\E t \in T : task[t].pc \notin SavePc) => AfterError(client[c], T) = Failed(client[c])
  <1>1. client[c] \in ClientState
    BY DEF ClientInv
  <1>2. CASE T = {}
    BY <1>1, <1>2 DEF AfterError
  <1>3. CASE T # {} /\ \A t \in T : task[t].pc \in SavePc
    <2> DEFINE F == {task[t].file : t \in T}
    <2>1. ASSUME NEW t \in T PROVE task[t].file \in File /\ client[c].tries[task[t].file] < MaxTry
      <3>1. t \in Task /\ owner[t] = c /\ owner[t] # NoClient
        BY ClientAssumption DEF Requests
      <3>2. Waits(c, t)
        BY <3>1 DEF ClientInv
      <3>3. task[t] \in TaskState /\ task[t].pc \in SavePc
        BY <1>3, <3>1 DEF ClientInv, TypeOK
      <3> QED
        BY <3>2, <3>3, SaveTaskByPc, PcsDiffer DEF Waits
    <2>2. F \in SUBSET File /\ \A f \in F : client[c].tries[f] < MaxTry
      BY <2>1
    <2>3. AfterError(client[c], T) = TriedAgain(client[c], F)
      BY <1>3 DEF AfterError
    <2>4. \A f \in File : (\A t \in T : task[t].file # f) => f \notin F
      OBVIOUS
    <2> HIDE DEF F
    <2> QED
      BY <1>1, <1>3, <2>2, <2>3, <2>4, TriedAgainType
  <1>4. CASE T # {} /\ \E t \in T : task[t].pc \notin SavePc
    BY <1>1, <1>4, FailedType DEF AfterError
  <1> QED
    BY <1>2, <1>3, <1>4

\* Handler t is no longer waited for: its client has an error, or the answer.
LEMMA Answered ==
    ASSUME ClientInv, TypeOK', NEW t \in Task, NEW c \in Client, owner[t] = c,
           \A u \in Task : u # t => task'[u] = task[u],
           owner' = [owner EXCEPT ![t] = NoClient],
           NEW s, client' = [client EXCEPT ![c] = s],
           \/ s = AfterError(client[c], {t})
           \/ /\ task[t].pc \in SavePc \cup {"insert_uploading", "remove_uploading"}
              /\ s = AfterOk(client[c], t)
    PROVE  ClientInv' /\ s \in ClientState
  <1>1. c # NoClient /\ client[c] \in ClientState /\ Waits(c, t)
    BY ClientAssumption DEF ClientInv
  <1>2. {t} \in SUBSET Requests(c)
    BY DEF Requests
  <1>3. /\ s \in ClientState
        /\ task[t].pc \in SavePc =>
              /\ s.pc = client[c].pc /\ s.todo \subseteq client[c].todo
              /\ \A f \in File \ {task[t].file} : s.tries[f] = client[c].tries[f]
    <2>1. CASE s = AfterError(client[c], {t})
      <3>1. s \in ClientState
        BY <1>2, <2>1, AfterErrorType
      <3>2. ASSUME task[t].pc \in SavePc
            PROVE  /\ s.pc = client[c].pc /\ s.todo = client[c].todo
                   /\ \A f \in File : task[t].file # f => s.tries[f] = client[c].tries[f]
        <4>1. \A u \in {t} : task[u].pc \in SavePc
          BY <3>2
        <4>2. LET r == AfterError(client[c], {t})
              IN /\ r.pc = client[c].pc /\ r.todo = client[c].todo
                 /\ \A f \in File : (\A u \in {t} : task[u].file # f) =>
                                        r.tries[f] = client[c].tries[f]
          BY <1>2, <4>1, AfterErrorType
        <4> QED
          BY <2>1, <4>2
      <3> QED
        BY <3>1, <3>2
    <2>2. CASE task[t].pc \in SavePc /\ s = AfterOk(client[c], t)
      <3>1. s = [client[c] EXCEPT !.todo = client[c].todo \ {task[t].file}]
        BY <2>2 DEF AfterOk, SavePc
      <3> QED
        BY <1>1, <3>1 DEF ClientState
    <2>3. CASE task[t].pc = "insert_uploading" /\ s = AfterOk(client[c], t)
      <3>1. s = [client[c] EXCEPT !.pc = "save"]
        BY <2>3 DEF AfterOk
      <3> QED
        BY <1>1, <2>3, <3>1 DEF ClientState, Pc, SavePc
    <2>4. CASE task[t].pc = "remove_uploading" /\ s = AfterOk(client[c], t)
      <3>1. s = [client[c] EXCEPT !.pc = "ok"]
        BY <2>4 DEF AfterOk
      <3> QED
        BY <1>1, <2>4, <3>1 DEF ClientState, Pc, SavePc
    <2> QED
      BY <2>1, <2>2, <2>3, <2>4
  <1>4. /\ client' \in [Client -> ClientState] /\ client'[c] = s
        /\ \A e \in Client : e # c => client'[e] = client[e]
    BY <1>3 DEF ClientInv
  <1>5. /\ owner' \in [Task -> Client \cup {NoClient}] /\ owner'[t] = NoClient
        /\ \A u \in Task : u # t => owner'[u] = owner[u]
    BY DEF ClientInv
  <1>6. ASSUME NEW u \in Task, owner'[u] # NoClient
        PROVE  /\ owner'[u] = owner[u] /\ SameLabel(task[u], task'[u])
               /\ client'[owner[u]].pc = client[owner[u]].pc
               /\ client'[owner[u]].todo \subseteq client[owner[u]].todo
               /\ task[u].pc \in SavePc =>
                     client'[owner[u]].tries[task[u].file] = client[owner[u]].tries[task[u].file]
    <2>1. /\ u # t /\ owner'[u] = owner[u] /\ SameLabel(task[u], task'[u])
          /\ owner[u] \in Client
      BY <1>5, <1>6 DEF SameLabel, ClientInv
    <2>2. CASE owner[u] = c
      <3>1. /\ task[t].pc \in SavePc /\ task[u].pc \in SavePc /\ task[t].file # task[u].file
        BY <1>1, <2>1, <2>2 DEF ClientInv, Apart
      <3>2. task[u].file \in File
        BY <3>1, SaveTaskByPc DEF ClientInv, TypeOK
      <3> QED
        BY <1>3, <1>4, <2>1, <2>2, <3>1, <3>2
    <2>3. CASE owner[u] # c
      BY <1>4, <2>1, <2>3
    <2> QED
      BY <2>1, <2>2, <2>3
  <1> QED
    BY <1>3, <1>4, <1>5, <1>6, NoMoreWaits

LEMMA NewRunType ==
    ASSUME NEW n \in 0 .. MaxRun, NEW v \in OptVersion
    PROVE  NewRun(n, v) \in ClientState
  BY ClientAssumption DEF NewRun, ClientState, Pc

LEMMA ClientInitInv == ClientInit => ClientInv
  <1> SUFFICES ASSUME ClientInit PROVE ClientInv
    OBVIOUS
  <1>1. TypeOK
    BY TypeInit DEF ClientInit
  <1>2. client \in [Client -> ClientState]
    BY NewRunType, ClientAssumption DEF ClientInit, ClientState, Pc
  <1> QED
    BY <1>1, <1>2 DEF ClientInit, ClientInv, Apart

\* A client that no request is waited for goes to state s.
LEMMA QuietStep ==
    ASSUME ClientInv, UNCHANGED vars, UNCHANGED owner,
           NEW c \in Client, Requests(c) = {}, NEW s \in ClientState, Set(c, s)
    PROVE  ClientInv'
  <1>1. TypeOK' /\ task' = task
    BY TypeNext DEF ClientInv, vars
  <1>2. client' \in [Client -> ClientState] /\ \A e \in Client : e # c => client'[e] = client[e]
    BY DEF ClientInv, Set
  <1>3. \A u \in Task : owner[u] # NoClient => owner[u] \in Client /\ owner[u] # c
    BY DEF ClientInv, Requests
  <1> QED
    BY <1>1, <1>2, <1>3, NoMoreWaits DEF ClientInv, SameLabel

\* Requests are waited for in two states of a client.
LEMMA NoneWaited ==
    ASSUME ClientInv, NEW c \in Client, client[c].pc \notin {"uploading", "save"}
    PROVE  Requests(c) = {}
  <1> SUFFICES ASSUME NEW t \in Task, owner[t] = c PROVE FALSE
    BY DEF Requests
  <1>1. Waits(c, t)
    BY ClientAssumption DEF ClientInv
  <1> QED
    BY <1>1 DEF Waits

LEMMA GetUploadVersionStep ==
    ASSUME ClientInv, NEW c \in Client, GetUploadVersion(c)
    PROVE  ClientInv'
  <1>1. Requests(c) = {}
    BY NoneWaited DEF GetUploadVersion, Running
  <1>2. PICK v \in ReqVersion : Set(c, NewRun(client[c].run + 1, v))
    BY DEF GetUploadVersion
  <1>3. client[c].run + 1 \in 0 .. MaxRun
    BY ClientAssumption DEF ClientInv, ClientState, GetUploadVersion
  <1>4. NewRun(client[c].run + 1, v) \in ClientState
    BY <1>3, NewRunType, RequestAssumption
  <1> QED
    BY <1>1, <1>2, <1>4, QuietStep DEF GetUploadVersion

LEMMA GetFileMetadataStep ==
    ASSUME ClientInv, NEW c \in Client, GetFileMetadata(c)
    PROVE  ClientInv'
  <1>1. Requests(c) = {}
    BY NoneWaited DEF GetFileMetadata
  <1>2. PICK skipped \in SUBSET MaySkip, S \in SUBSET Unreadable :
          LET F == UploadingFiles(c, skipped, S)
          IN Set(c, [client[c] EXCEPT !.todo = F, !.skipped = skipped,
                                      !.pc = IF F = {} THEN "failed" ELSE "uploading"])
    BY DEF GetFileMetadata
  <1> DEFINE F == UploadingFiles(c, skipped, S)
             s == [client[c] EXCEPT !.todo = F, !.skipped = skipped,
                                    !.pc = IF F = {} THEN "failed" ELSE "uploading"]
  <1>3. F \in SUBSET File /\ skipped \in SUBSET File
    BY ClientAssumption DEF UploadingFiles
  <1>4. Set(c, s) /\ UNCHANGED vars /\ UNCHANGED owner
    BY <1>2 DEF GetFileMetadata
  <1> HIDE DEF F
  <1>5. s \in ClientState
    BY <1>3 DEF ClientInv, ClientState, Pc
  <1> QED
    BY <1>1, <1>4, <1>5, QuietStep

\* The end of a run with an error, while nothing is waited for.
LEMMA FailsStep ==
    ASSUME ClientInv, NEW c \in Client, Requests(c) = {}, Set(c, Failed(client[c])),
           UNCHANGED <<vars, owner>>
    PROVE  ClientInv'
  <1>1. Failed(client[c]) \in ClientState
    BY FailedType DEF ClientInv
  <1> QED
    BY <1>1, QuietStep

LEMMA ChangeToUploadingStep ==
    ASSUME ClientInv, TypeOK', NEW c \in Client, ChangeToUploading(c)
    PROVE  ClientInv'
  <1>1. Requests(c) = {} /\ client[c].pc = "uploading"
    BY DEF ChangeToUploading
  <1>2. ASSUME NEW t \in Task, StatusUploading(t, Site), Await(c, t) PROVE ClientInv'
    <2>1. /\ \A u \in Task : u # t => task'[u] = task[u]
          /\ task[t] = Idle /\ task'[t].pc = "create_dir"
      BY <1>2, StatusUploadingStarts, ClientAssumption DEF ClientInv
    <2>2. Waits(c, t)'
      BY <1>1, <1>2, <2>1 DEF Await, Waits, UploadingPc
    <2> QED
      BY <1>1, <1>2, <2>1, <2>2, OneMoreWait DEF Await
  <1>3. ASSUME Set(c, [client[c] EXCEPT !.pc = "save"]), UNCHANGED <<vars, owner>> PROVE ClientInv'
    <2>1. [client[c] EXCEPT !.pc = "save"] \in ClientState
      BY DEF ClientInv, ClientState, Pc
    <2> QED
      BY <1>1, <1>3, <2>1, QuietStep
  <1>4. ASSUME Set(c, Failed(client[c])), UNCHANGED <<vars, owner>> PROVE ClientInv'
    BY <1>1, <1>4, FailsStep
  <1> QED
    BY <1>2, <1>3, <1>4 DEF ChangeToUploading

LEMMA UploadFileStep ==
    ASSUME ClientInv, TypeOK', NEW c \in Client, NEW f \in File, UploadFile(c, f)
    PROVE  ClientInv'
  <1>1. /\ client[c].pc = "save" /\ f \in client[c].todo /\ client[c].tries[f] < MaxTry
        /\ \A u \in Requests(c) : task[u].file # f
    BY DEF UploadFile
  <1>2. ASSUME NEW t \in Task, SaveFile(t, Site), Await(c, t), task'[t].file = f
        PROVE  ClientInv'
    <2>1. /\ \A u \in Task : u # t => task'[u] = task[u]
          /\ task[t] = Idle /\ task'[t].pc = "make_parent"
      BY <1>2, SaveFileStarts, ClientAssumption DEF ClientInv
    <2>2. Waits(c, t)'
      BY <1>1, <1>2, <2>1 DEF Await, Waits, SavePc
    <2> QED
      BY <1>1, <1>2, <2>1, <2>2, OneMoreWait DEF Await, SavePc
  <1>3. ASSUME Set(c, TriedAgain(client[c], {f})), UNCHANGED <<vars, owner>> PROVE ClientInv'
    <2>1. /\ TriedAgain(client[c], {f}) \in ClientState
          /\ TriedAgain(client[c], {f}).pc = client[c].pc
          /\ TriedAgain(client[c], {f}).todo = client[c].todo
          /\ \A g \in File \ {f} : TriedAgain(client[c], {f}).tries[g] = client[c].tries[g]
      BY <1>1, TriedAgainType DEF ClientInv
    <2>2. /\ client' \in [Client -> ClientState]
          /\ client'[c] = TriedAgain(client[c], {f})
          /\ \A e \in Client : e # c => client'[e] = client[e]
      BY <1>3, <2>1 DEF ClientInv, Set
    <2>3. \A u \in Task : owner[u] = c /\ task[u].pc \in SavePc => task[u].file \in File \ {f}
      BY <1>1, SaveTaskByPc DEF Requests, ClientInv, TypeOK
    <2>4. task' = task /\ owner' = owner
      BY <1>3 DEF vars
    <2>5. owner \in [Task -> Client \cup {NoClient}]
      BY DEF ClientInv
    <2>6. ASSUME NEW u \in Task, owner'[u] # NoClient
          PROVE  /\ owner'[u] = owner[u] /\ SameLabel(task[u], task'[u])
                 /\ client'[owner[u]].pc = client[owner[u]].pc
                 /\ client'[owner[u]].todo \subseteq client[owner[u]].todo
                 /\ task[u].pc \in SavePc => client'[owner[u]].tries[task[u].file]
                                               = client[owner[u]].tries[task[u].file]
      <3>1. owner'[u] = owner[u] /\ owner[u] \in Client /\ SameLabel(task[u], task'[u])
        BY <2>4, <2>5, <2>6 DEF SameLabel
      <3>2. CASE owner[u] = c
        BY <2>1, <2>2, <2>3, <3>1, <3>2
      <3>3. CASE owner[u] # c
        BY <2>2, <3>1, <3>3
      <3> QED
        BY <3>1, <3>2, <3>3
    <2> QED
      BY <2>2, <2>4, <2>5, <2>6, NoMoreWaits
  <1> QED
    BY <1>2, <1>3 DEF UploadFile

LEMMA ChangeToFinishStep ==
    ASSUME ClientInv, TypeOK', NEW c \in Client, ChangeToFinish(c)
    PROVE  ClientInv'
  <1>1. Requests(c) = {} /\ client[c].pc = "save" /\ client[c].todo = {}
    BY DEF ChangeToFinish
  <1>2. ASSUME NEW t \in Task, StatusFinish(t, Site), Await(c, t) PROVE ClientInv'
    <2>1. /\ \A u \in Task : u # t => task'[u] = task[u]
          /\ task[t] = Idle /\ task'[t].pc = "remove_marker"
      BY <1>2, StatusFinishStarts, ClientAssumption DEF ClientInv
    <2>2. Waits(c, t)'
      BY <1>1, <1>2, <2>1 DEF Await, Waits, FinishPc
    <2> QED
      BY <1>1, <1>2, <2>1, <2>2, OneMoreWait DEF Await
  <1>3. ASSUME Set(c, Failed(client[c])), UNCHANGED <<vars, owner>> PROVE ClientInv'
    BY <1>1, <1>3, FailsStep
  <1> QED
    BY <1>2, <1>3 DEF ChangeToFinish

LEMMA AbortStep ==
    ASSUME ClientInv, NEW c \in Client, Abort(c)
    PROVE  ClientInv'
  <1>1. TypeOK' /\ task' = task
    BY TypeNext DEF ClientInv, Abort, vars
  <1>2. /\ client' \in [Client -> ClientState]
        /\ \A e \in Client : e # c => client'[e] = client[e]
    BY FailedType DEF ClientInv, Abort, Set
  <1>3. /\ owner' \in [Task -> Client \cup {NoClient}]
        /\ \A u \in Task : owner'[u] # NoClient => owner'[u] = owner[u] /\ owner[u] # c
                                                   /\ owner[u] \in Client
    BY DEF ClientInv, Abort
  <1> QED
    BY <1>1, <1>2, <1>3, NoMoreWaits DEF SameLabel

LEMMA ServeStep ==
    ASSUME ClientInv, TypeOK', NEW t \in Task, Serve(t)
    PROVE  ClientInv'
  <1>1. Step(t)
    BY DEF Serve
  <1>2. /\ \A u \in Task : u # t => task'[u] = task[u]
        /\ \/ task'[t] = Idle
           \/ SameLabel(task[t], task'[t])
           \/ task[t].pc \notin SavePc \cup UploadingPc \cup FinishPc
    BY <1>1, HandlerStep DEF ClientInv, SameLabel
  <1>3. CASE task'[t] = Idle /\ owner[t] # NoClient
    <2>1. owner[t] \in Client
      BY <1>3 DEF ClientInv
    <2>2. /\ Set(owner[t], IF AnswersOk(t) THEN AfterOk(client[owner[t]], t)
                                           ELSE AfterError(client[owner[t]], {t}))
          /\ owner' = [owner EXCEPT ![t] = NoClient]
      BY <1>3 DEF Serve
    <2>3. AnswersOk(t) => task[t].pc \in SavePc \cup {"insert_uploading", "remove_uploading"}
      BY DEF AnswersOk, SavePc
    <2> QED
      BY <1>2, <2>1, <2>2, <2>3, Answered DEF Set
  <1>4. CASE ~(task'[t] = Idle /\ owner[t] # NoClient)
    <2>1. client' = client /\ owner' = owner
      BY <1>4 DEF Serve, clientVars
    <2>2. owner[t] # NoClient => SameLabel(task[t], task'[t])
      BY <1>2, <1>4 DEF ClientInv, Waits
    <2> QED
      BY <1>2, <2>1, <2>2, NoMoreWaits DEF ClientInv, SameLabel
  <1> QED
    BY <1>3, <1>4

LEMMA LoseAnswerStep ==
    ASSUME ClientInv, NEW t \in Task, LoseAnswer(t)
    PROVE  ClientInv'
  <1>1. TypeOK' /\ task' = task
    BY TypeNext DEF ClientInv, LoseAnswer, vars
  <1>2. owner[t] \in Client
    BY DEF ClientInv, LoseAnswer
  <1> QED
    BY <1>1, <1>2, Answered DEF LoseAnswer, Set

LEMMA LoseSilentlyStep ==
    ASSUME ClientInv, NEW t \in Task, LoseSilently(t)
    PROVE  ClientInv'
  <1> DEFINE c == owner[t]
             s == [client[c] EXCEPT !.hung = client[c].hung \cup {task[t].file}]
  <1>1. TypeOK' /\ task' = task
    BY TypeNext DEF ClientInv, LoseSilently, vars
  <1>2. c \in Client /\ task[t].pc \in SavePc
    BY DEF ClientInv, LoseSilently
  <1>3. task[t].file \in File
    BY <1>2, SaveTaskByPc DEF ClientInv, TypeOK
  <1>4. /\ s \in ClientState
        /\ s.pc = client[c].pc /\ s.todo = client[c].todo /\ s.tries = client[c].tries
    BY <1>2, <1>3 DEF ClientInv, ClientState
  <1>5. Set(c, s)
    BY DEF LoseSilently
  <1> HIDE DEF s
  <1>6. /\ client' \in [Client -> ClientState]
        /\ \A e \in Client : /\ client'[e].pc = client[e].pc
                              /\ client'[e].todo = client[e].todo
                              /\ client'[e].tries = client[e].tries
    BY <1>2, <1>4, <1>5 DEF ClientInv, Set
  <1>7. /\ owner' \in [Task -> Client \cup {NoClient}]
        /\ \A u \in Task : owner'[u] # NoClient => owner'[u] = owner[u] /\ owner[u] \in Client
    BY DEF ClientInv, LoseSilently
  <1> QED
    BY <1>1, <1>6, <1>7, NoMoreWaits DEF SameLabel

LEMMA ServerRestartStep ==
    ASSUME ClientInv, TypeOK', ServerRestart
    PROVE  ClientInv'
  <1>1. client' \in [Client -> ClientState]
    BY AfterErrorType DEF ServerRestart
  <1>2. owner' \in [Task -> Client \cup {NoClient}] /\ \A t \in Task : owner'[t] = NoClient
    BY DEF ServerRestart
  <1> QED
    BY <1>1, <1>2, NoMoreWaits

LEMMA ClientNextInv == ClientInv /\ [ClientNext]_allVars => ClientInv'
  <1> SUFFICES ASSUME ClientInv, [ClientNext]_allVars PROVE ClientInv'
    OBVIOUS
  <1>1. CASE UNCHANGED allVars
    <2>1. TypeOK' /\ task' = task /\ client' = client /\ owner' = owner
      BY <1>1, TypeNext DEF ClientInv, allVars, clientVars, vars
    <2> QED
      BY <2>1, NoMoreWaits DEF ClientInv, SameLabel
  <1>2. CASE ClientNext
    <2>1. TypeOK'
      BY <1>2, StorageStep, TypeNext DEF ClientInv
    <2>2. ASSUME NEW c \in Client, SomeFilesFailed(c) PROVE ClientInv'
      BY <2>2, FailsStep DEF SomeFilesFailed
    <2>3. ASSUME NEW c \in Client, GetUploadVersion(c) \/ UploadStep(c) \/ Abort(c)
          PROVE  ClientInv'
      BY <2>1, <2>2, <2>3, GetUploadVersionStep, GetFileMetadataStep, ChangeToUploadingStep,
         UploadFileStep, ChangeToFinishStep, AbortStep DEF UploadStep
    <2>4. ASSUME NEW t \in Task, Serve(t) \/ LoseAnswer(t) \/ LoseSilently(t) PROVE ClientInv'
      BY <2>1, <2>4, ServeStep, LoseAnswerStep, LoseSilentlyStep
    <2>5. CASE ServerRestart
      BY <2>1, <2>5, ServerRestartStep
    <2> QED
      BY <1>2, <2>3, <2>4, <2>5 DEF ClientNext
  <1> QED
    BY <1>1, <1>2

\* Whatever is lost, retried, killed or restarted, a client waits for one
\* request at a time or for saves of different files, and no file is tried
\* more often than three times.
THEOREM ClientTypes == ClientSpec => []ClientTypeOK
  <1>1. ClientInit => ContestedType
    BY DEF ClientInit, ContestedType
  <1>2. ContestedType /\ [ClientNext]_allVars => ContestedType'
    BY ContestedStep DEF ClientNext, allVars
  <1>3. ClientSpec => [](ClientInv /\ ContestedType)
    BY <1>1, <1>2, ClientInitInv, ClientNextInv, PTL DEF ClientSpec
  <1> QED
    BY <1>3, ClientInvMeaning, PTL

-----------------------------------------------------------------------------
(* Files.  A save that has found its file absent creates it, and what it    *)
(* has written whole stays until it is deleted, unless another save had the *)
(* file open as well: then the file is contested.                           *)

Open == {"create_file", "write_all"}

\* Two of the handlers q that have one file open are noted in K.
AllNoted(q, K) ==
    \A t, u \in Task : t # u /\ q[t].pc \in Open /\ q[u].pc \in Open
                       /\ Target(q[t]) = Target(q[u]) => Target(q[t]) \in K

FileAt(F, K, s) ==
    LET w == F[s.dom][s.ver][s.file]
    IN /\ s.pc = "create_file" => w = NoFile \/ Target(s) \in K
       /\ s.pc = "write_all" => w # NoFile /\ (w = Empty \/ Target(s) \in K)

FileInv == AllNoted(task, contested) /\ \A t \in Task : FileAt(files, contested, task[t])

\* A contested file stays so while it is there.
StayContested ==
    \A d \in Domain, v \in Version, f \in File :
       <<d, v, f>> \in contested /\ files'[d][v][f] # NoFile => <<d, v, f>> \in contested'

Noted == AllNoted(task', contested') /\ StayContested

\* A file stays what it is, but for an empty one that is being written.
KeptAt(d, v, f) ==
    files[d][v][f] # NoFile =>
       /\ files'[d][v][f] # NoFile
       /\ <<d, v, f>> \in contested => <<d, v, f>> \in contested'
       /\ \/ files[d][v][f] = Empty
          \/ <<d, v, f>> \in contested'
          \/ files'[d][v][f] = files[d][v][f]

KeptIn(d, v) == \A f \in File : KeptAt(d, v, f)

Kept == \A d \in Domain, v \in Version : KeptIn(d, v)

LEMMA NotContent == {NoFile, Empty, Torn, Mixed} \cap Content = {}
  BY FileAssumption

LEMMA FilesType == TypeOK => files \in [Domain -> [Version -> [File -> Stored]]]
  BY DEF TypeOK

LEMMA SaveType ==
    ASSUME TypeOK, NEW t \in Task, task[t].pc \in SavePc
    PROVE  /\ task[t].dom \in Domain /\ task[t].ver \in Version /\ task[t].file \in File
           /\ task[t].data \in Body
           /\ Target(task[t]) = <<task[t].dom, task[t].ver, task[t].file>>
  BY SaveTaskByPc DEF TypeOK, Target

LEMMA WatchNotes ==
    ASSUME TypeOK', WatchSaves
    PROVE  Noted
  <1>1. AllNoted(task', contested')
    <2> SUFFICES ASSUME NEW t \in Task, NEW u \in Task, t # u,
                        task'[t].pc \in Open, task'[u].pc \in Open,
                        Target(task'[t]) = Target(task'[u])
                 PROVE  Target(task'[t]) \in contested'
      BY DEF AllNoted
    <2>1. task'[t] \in TaskState /\ task'[t].pc \in SavePc
      BY DEF TypeOK, Open, SavePc
    <2>2. Target(task'[t]) \in Domain \X Version \X File
      BY <2>1, SaveTaskByPc DEF Target
    <2>3. {task'[t].pc, task'[u].pc} \subseteq {"create_file", "write_all"}
      BY DEF Open
    <2>4. Target(task'[t]) \in OpenTwice'
      BY <2>2, <2>3 DEF OpenTwice
    <2> QED
      BY <2>4 DEF WatchSaves
  <1>2. StayContested
    BY DEF StayContested, WatchSaves
  <1> QED
    BY <1>1, <1>2 DEF Noted

\* A save of which nothing was said or which is where it was, on a file that
\* is as it was.
LEMMA StillAt ==
    ASSUME TypeOK, FileInv, Noted, NEW u \in Task, task'[u] = task[u],
           task[u].pc \in Open =>
              \/ files'[task[u].dom][task[u].ver][task[u].file]
                    = files[task[u].dom][task[u].ver][task[u].file]
              \/ /\ files'[task[u].dom][task[u].ver][task[u].file] # NoFile
                 /\ Target(task[u]) \in contested'
    PROVE  FileAt(files', contested', task'[u])
  <1>1. CASE task[u].pc \notin Open
    BY <1>1 DEF FileAt, Open
  <1>2. CASE task[u].pc \in Open
    <2> DEFINE d == task[u].dom
               v == task[u].ver
               f == task[u].file
    <2>1. /\ d \in Domain /\ v \in Version /\ f \in File
          /\ Target(task[u]) = <<d, v, f>>
      BY <1>2, SaveType DEF Open, SavePc
    <2>2. FileAt(files, contested, task[u])
      BY DEF FileInv
    <2>3. <<d, v, f>> \in contested /\ files'[d][v][f] # NoFile => <<d, v, f>> \in contested'
      BY <2>1 DEF Noted, StayContested
    <2> QED
      BY <1>2, <2>1, <2>2, <2>3 DEF FileAt
  <1> QED
    BY <1>1, <1>2

\* A step of handler t that leaves the files alone.
LEMMA SameFiles ==
    ASSUME TypeOK, FileInv, Noted, NEW t \in Task, \A u \in Task : u # t => task'[u] = task[u],
           files' = files,
           \/ task'[t].pc \notin Open
           \/ /\ SameSave(task[t], task'[t]) /\ task'[t].pc = "create_file"
              /\ files[task[t].dom][task[t].ver][task[t].file] = NoFile
    PROVE  FileInv' /\ Kept
  <1>1. ASSUME NEW u \in Task PROVE FileAt(files', contested', task'[u])
    <2>1. CASE u # t
      BY <2>1, StillAt
    <2>2. CASE u = t
      BY <2>2 DEF FileAt, SameSave, Open
    <2> QED
      BY <2>1, <2>2
  <1>2. Kept
    BY DEF Kept, KeptIn, KeptAt, Noted, StayContested
  <1> QED
    BY <1>1, <1>2 DEF FileInv, Noted

LEMMA OneChange ==
    ASSUME NEW F \in [Domain -> [Version -> [File -> Stored]]],
           NEW d \in Domain, NEW v \in Version, NEW f \in File, NEW w
    PROVE  /\ [F EXCEPT ![d][v][f] = w][d][v][f] = w
           /\ \A e \in Domain, x \in Version, g \in File :
                 ~(e = d /\ x = v /\ g = f) => [F EXCEPT ![d][v][f] = w][e][x][g] = F[e][x][g]
  OBVIOUS

\* A step of handler t that changes the file it has open.
LEMMA OneFile ==
    ASSUME TypeOK, FileInv, Noted, NEW t \in Task, \A u \in Task : u # t => task'[u] = task[u],
           task[t].pc \in Open,
           NEW w, files' = [files EXCEPT ![task[t].dom][task[t].ver][task[t].file] = w],
           w # NoFile,
           \/ task'[t] = Idle /\ task[t].pc = "write_all"
           \/ SameSave(task[t], task'[t]) /\ task'[t].pc = "write_all" /\ w = Empty
    PROVE  /\ FileInv' /\ Kept
           /\ files'[task[t].dom][task[t].ver][task[t].file] = w
  <1> DEFINE d == task[t].dom
             v == task[t].ver
             f == task[t].file
  <1>1. /\ d \in Domain /\ v \in Version /\ f \in File
        /\ Target(task[t]) = <<d, v, f>>
    BY SaveType DEF Open, SavePc
  <1>2. files \in [Domain -> [Version -> [File -> Stored]]]
    BY SMTT(30), FilesType
  <1>3. /\ files'[d][v][f] = w
        /\ \A e \in Domain, x \in Version, g \in File :
              ~(e = d /\ x = v /\ g = f) => files'[e][x][g] = files[e][x][g]
    BY SMTT(30), <1>1, <1>2, OneChange
  <1>4. Target(task[t]) \in contested => <<d, v, f>> \in contested'
    BY <1>1, <1>3 DEF Noted, StayContested
  <1>5. KeptAt(d, v, f)
    <2>1. FileAt(files, contested, task[t])
      BY DEF FileInv
    <2>2. \/ files[d][v][f] \in {NoFile, Empty}
          \/ Target(task[t]) \in contested
      BY <2>1 DEF FileAt, Open
    <2> QED
      BY <1>1, <1>3, <1>4, <2>2 DEF KeptAt
  <1>6. ASSUME NEW e \in Domain, NEW x \in Version, NEW g \in File
        PROVE  KeptAt(e, x, g)
    <2>1. CASE e = d /\ x = v /\ g = f
      BY <1>5, <2>1
    <2>2. CASE ~(e = d /\ x = v /\ g = f)
      <3>1. files'[e][x][g] = files[e][x][g]
        BY <1>3, <2>2
      <3> QED
        BY <3>1 DEF KeptAt, Noted, StayContested
    <2> QED
      BY <2>1, <2>2
  <1>7. ASSUME NEW u \in Task, u # t PROVE FileAt(files', contested', task'[u])
    <2>1. task'[u] = task[u]
      BY <1>7
    <2>2. ASSUME task[u].pc \in Open
          PROVE  \/ files'[task[u].dom][task[u].ver][task[u].file]
                       = files[task[u].dom][task[u].ver][task[u].file]
                 \/ /\ files'[task[u].dom][task[u].ver][task[u].file] # NoFile
                    /\ Target(task[u]) \in contested'
      <3>1. /\ task[u].dom \in Domain /\ task[u].ver \in Version /\ task[u].file \in File
            /\ Target(task[u]) = <<task[u].dom, task[u].ver, task[u].file>>
        BY <2>2, SaveType DEF Open, SavePc
      <3>2. CASE task[u].dom = d /\ task[u].ver = v /\ task[u].file = f
        <4>1. Target(task[u]) = Target(task[t])
          BY <1>1, <3>1, <3>2
        <4>2. CASE task'[t] = Idle
          <5>1. Target(task[t]) \in contested
            BY <1>7, <2>2, <4>1, <4>2 DEF FileInv, AllNoted, Open
          <5> QED
            BY <1>1, <1>3, <1>4, <3>2, <4>1, <5>1
        <4>3. CASE SameSave(task[t], task'[t]) /\ task'[t].pc = "write_all"
          <5>1. Target(task'[t]) = Target(task[u])
            BY <4>1, <4>3 DEF SameSave, Target
          <5>2. Target(task'[u]) \in contested'
            BY <1>7, <2>1, <2>2, <4>3, <5>1 DEF Noted, AllNoted, Open
          <5> QED
            BY <1>3, <2>1, <3>2, <5>2
        <4> QED
          BY <4>2, <4>3
      <3>3. CASE ~(task[u].dom = d /\ task[u].ver = v /\ task[u].file = f)
        BY <1>3, <3>1, <3>3
      <3> QED
        BY <3>2, <3>3
    <2> QED
      BY <2>1, <2>2, StillAt
  <1>8. FileAt(files', contested', task'[t])
    <2>1. CASE task'[t] = Idle
      BY <2>1 DEF FileAt, Idle
    <2>2. CASE SameSave(task[t], task'[t]) /\ task'[t].pc = "write_all" /\ w = Empty
      <3>1. task'[t].dom = d /\ task'[t].ver = v /\ task'[t].file = f
        BY <2>2 DEF SameSave
      <3> QED
        BY <1>3, <2>2, <3>1 DEF FileAt
    <2> QED
      BY <2>1, <2>2
  <1> QED
    BY Zenon, <1>3, <1>6, <1>7, <1>8 DEF FileInv, Noted, Kept, KeptIn

\* What is on disk when the last step of a save is done.
Written(t) ==
    LET s == task[t]
        w == files'[s.dom][s.ver][s.file]
    IN /\ s.pc = "make_parent" /\ files[s.dom][s.ver][s.file] # NoFile => w # NoFile
       /\ s.pc = "write_all" => w # NoFile /\ (w \in {s.data, Torn} \/ Target(s) \in contested')

LEMMA OverwrittenType ==
    ASSUME NEW old, NEW new \in Body, old # NoFile, NEW w \in Overwritten(old, new)
    PROVE  w # NoFile /\ (old = Empty => w \in {new, Torn})
  <1>1. new # NoFile
    BY FileAssumption DEF Body, NoFile, Empty
  <1>2. CASE new = Empty
    BY <1>2 DEF Overwritten
  <1>3. CASE new # Empty /\ old = Empty
    BY <1>1, <1>3 DEF Overwritten, NoFile, Torn
  <1>4. CASE new # Empty /\ old # Empty
    BY <1>1, <1>4 DEF Overwritten, NoFile, Mixed
  <1> QED
    BY <1>2, <1>3, <1>4

\* The other steps leave the files alone, unless they delete them.
LEMMA OtherSteps ==
    ASSUME NEW t \in Task, Step(t), task[t].pc # "remove",
           ~(MakeParent(t) \/ CreateFile(t) \/ WriteAll(t))
    PROVE  files' = files /\ (task[t].pc \in SavePc => Respond(t) /\ task[t].pc # "write_all")
  <1>1. CASE GoOnline(t) \/ CacheDir(t) \/ CacheUpdate(t)
    BY <1>1 DEF GoOnline, CacheDir, CacheUpdate, disk, SavePc
  <1>2. CASE CreateDir(t) \/ CreateMarker(t) \/ InsertUploading(t)
    BY <1>2 DEF CreateDir, CreateMarker, InsertUploading, disk, SavePc
  <1>3. CASE RemoveMarker(t) \/ RemoveUploading(t)
    BY <1>3 DEF RemoveMarker, RemoveUploading, disk, SavePc
  <1>4. CASE IoError(t)
    BY <1>4 DEF IoError, disk
  <1>5. CASE RemoveEntry(t) \/ RemoveDir(t) \/ RemoveFailed(t) \/ RemoveDone(t)
    BY <1>5 DEF RemoveEntry, RemoveDir, RemoveFailed, RemoveDone
  <1> QED
    BY <1>1, <1>2, <1>3, <1>4, <1>5 DEF Step

LEMMA FileStep ==
    ASSUME TypeOK, FileInv, Noted, NEW t \in Task, Step(t), task[t].pc # "remove"
    PROVE  FileInv' /\ Kept /\ Written(t)
  <1>1. /\ \A u \in Task : u # t => task'[u] = task[u]
        /\ \/ task'[t] = Idle
           \/ SameSave(task[t], task'[t])
           \/ task'[t].pc \notin SavePc
    BY HandlerStep DEF UploadingPc, FinishPc, SavePc
  <1>2. Idle.pc \notin SavePc /\ Idle.pc \notin Open
    BY DEF Idle, SavePc, Open
  <1>3. CASE MakeParent(t)
    <2>1. /\ files' = files /\ task[t].pc = "make_parent"
          /\ IF files[task[t].dom][task[t].ver][task[t].file] = NoFile
             THEN Goto(t, "create_file") ELSE Respond(t)
      BY <1>3 DEF MakeParent
    <2>2. task[t] \in SaveTask /\ task \in [Task -> TaskState]
      BY <2>1, SaveTaskByPc DEF TypeOK, SavePc
    <2>3. Written(t)
      BY <2>1 DEF Written
    <2>4. CASE files[task[t].dom][task[t].ver][task[t].file] = NoFile
      <3>1. task'[t] = [task[t] EXCEPT !.pc = "create_file"]
        BY <2>1, <2>2, <2>4 DEF Goto
      <3>2. SameSave(task[t], task'[t]) /\ task'[t].pc = "create_file"
        BY <2>1, <2>2, <3>1 DEF SameSave, SaveTask, SavePc
      <3> QED
        BY <1>1, <2>1, <2>3, <2>4, <3>2, SameFiles
    <2>5. CASE files[task[t].dom][task[t].ver][task[t].file] # NoFile
      <3>1. task'[t] = Idle
        BY <2>1, <2>2, <2>5 DEF Respond
      <3> QED
        BY <1>1, <1>2, <2>1, <2>3, <3>1, SameFiles
    <2> QED
      BY <2>4, <2>5
  <1>4. CASE CreateFile(t)
    <2>1. task[t].pc = "create_file" /\ task[t] \in SaveTask /\ task \in [Task -> TaskState]
      BY <1>4, SaveTaskByPc DEF CreateFile, TypeOK, SavePc
    <2>2. Written(t)
      BY <2>1 DEF Written
    <2>3. CASE task[t].ver \in vdirs[task[t].dom]
      <3>1. /\ files' = [files EXCEPT ![task[t].dom][task[t].ver][task[t].file] = Empty]
            /\ Goto(t, "write_all")
        BY <1>4, <2>3 DEF CreateFile
      <3>2. task'[t] = [task[t] EXCEPT !.pc = "write_all"]
        BY <2>1, <3>1 DEF Goto
      <3>3. SameSave(task[t], task'[t]) /\ task'[t].pc = "write_all"
        BY <2>1, <3>2 DEF SameSave, SaveTask, SavePc
      <3>4. task[t].pc \in Open /\ Empty # NoFile
        BY <2>1 DEF Open, Empty, NoFile
      <3>5. FileInv' /\ Kept
        BY Zenon, <1>1, <3>1, <3>3, <3>4, OneFile
      <3> QED
        BY <2>2, <3>5
    <2>4. CASE task[t].ver \notin vdirs[task[t].dom]
      <3>1. files' = files /\ task'[t] = Idle
        BY <1>4, <2>1, <2>4 DEF CreateFile, Respond
      <3> QED
        BY <1>1, <1>2, <2>2, <3>1, SameFiles
    <2> QED
      BY <2>3, <2>4
  <1>5. CASE WriteAll(t)
    <2> DEFINE d == task[t].dom
               v == task[t].ver
               f == task[t].file
    <2>1. /\ task[t].pc = "write_all" /\ task'[t] = Idle
          /\ task[t].pc \in SavePc /\ task[t].pc \in Open
      BY <1>5, SaveTaskByPc DEF WriteAll, TypeOK, SavePc, Respond, Open
    <2>2. /\ files[d][v][f] # NoFile
          /\ files[d][v][f] = Empty \/ Target(task[t]) \in contested
      BY <2>1 DEF FileInv, FileAt
    <2>3. task[t].data \in Body
      BY <2>1, SaveType
    <2>4. PICK w \in Overwritten(files[d][v][f], task[t].data) :
             files' = [files EXCEPT ![d][v][f] = w]
      BY <1>5, <2>2 DEF WriteAll
    <2>5. w # NoFile /\ (files[d][v][f] = Empty => w \in {task[t].data, Torn})
      BY <2>2, <2>3, OverwrittenType
    <2>6. FileInv' /\ Kept /\ files'[d][v][f] = w
      BY Zenon, <1>1, <2>1, <2>4, <2>5, OneFile
    <2>7. Target(task[t]) \in contested => Target(task[t]) \in contested'
      BY <2>1, <2>5, <2>6, SaveType DEF Noted, StayContested
    <2> QED
      BY <2>1, <2>2, <2>5, <2>6, <2>7 DEF Written
  <1>6. CASE ~(MakeParent(t) \/ CreateFile(t) \/ WriteAll(t))
    <2>1. files' = files /\ (task[t].pc \in SavePc => Respond(t) /\ task[t].pc # "write_all")
      BY <1>6, OtherSteps
    <2>2. task'[t].pc \notin Open
      <3>1. CASE task[t].pc \in SavePc
        <4>1. task'[t] = Idle
          BY <2>1, <3>1 DEF Respond, TypeOK
        <4> QED
          BY <1>2, <4>1
      <3>2. CASE task[t].pc \notin SavePc
        BY <1>1, <1>2, <3>2 DEF SameSave, Open, SavePc
      <3> QED
        BY <3>1, <3>2
    <2>3. Written(t)
      BY <2>1 DEF Written, SavePc
    <2> QED
      BY <1>1, <2>1, <2>2, <2>3, SameFiles
  <1> QED
    BY <1>3, <1>4, <1>5, <1>6

\* A request has no file open yet.
LEMMA FileStart ==
    ASSUME TypeOK, FileInv, Noted, NEW t \in Task, NEW d \in Domain,
           StatusUploading(t, d) \/ StatusFinish(t, d) \/ SaveFile(t, d)
    PROVE  FileInv' /\ Kept
  <1>1. /\ \A u \in Task : u # t => task'[u] = task[u]
        /\ task'[t].pc \notin Open /\ files' = files
    BY StatusUploadingStarts, StatusFinishStarts, SaveFileStarts DEF disk, Open
  <1> QED
    BY <1>1, SameFiles

-----------------------------------------------------------------------------
(* What a client has reason to believe of its files. *)

\* A save carries a file of its client to the version of its run.
Own(t) ==
    owner[t] # NoClient /\ task[t].pc \in SavePc =>
       /\ task[t].dom = Site /\ task[t].data = DataOf(owner[t], task[t].file)
       /\ task[t].ver = client[owner[t]].ver

OwnInv == \A t \in Task : Own(t)

\* The run of client c, in state s.
RunAt(c, s) ==
    /\ s.pc # "off" => s.ver \in Version
    /\ s.pc \in {"uploading", "save", "ok"} => s.skipped \subseteq MaySkip
    /\ s.pc = "uploading" => s.todo = Build[c] \ s.skipped
    /\ s.pc = "ok" => s.todo = {}

\* File f of client c has arrived in version v.
Here(F, K, c, v, f) ==
    F[Site][v][f] # NoFile /\ (<<Site, v, f>> \in K \/ Good(c, f, F[Site][v][f]))

\* In state s, client c has on disk what it does not have to send.
Arrived(F, K, c, s) ==
    s.pc \in {"save", "ok"} =>
       \A f \in (Build[c] \ s.skipped) \ s.todo : Here(F, K, c, s.ver, f)

\* How a step takes client c from state s to state r: it goes on or fails, it
\* starts, it finds out what to send, or a file of it has arrived.
Moves(c, s, r) ==
    \/ /\ r.ver = s.ver /\ r.todo = s.todo /\ r.skipped = s.skipped
       /\ \/ r.pc = s.pc
          \/ r.pc = "failed" /\ s.pc \in {"metadata", "uploading", "save"}
          \/ r.pc = "save" /\ s.pc = "uploading"
          \/ r.pc = "ok" /\ s.pc = "save" /\ s.todo = {}
    \/ s.pc # "ok" /\ r.pc = "metadata" /\ r.ver \in Version
    \/ /\ s.pc = "metadata" /\ r.ver = s.ver
       /\ \/ r.pc = "failed"
          \/ r.pc = "uploading" /\ r.skipped \subseteq MaySkip /\ r.todo = Build[c] \ r.skipped
    \/ /\ s.pc = "save" /\ r.pc = "save" /\ r.ver = s.ver /\ r.skipped = s.skipped
       /\ \E f \in File : r.todo = s.todo \ {f} /\ Here(files', contested', c, s.ver, f)

AllMove == \A c \in Client : Moves(c, client[c], client'[c])

CompleteInv == \A c \in Client : RunAt(c, client[c]) /\ Arrived(files, contested, c, client[c])

LEMMA CompleteMeaning == CompleteInv => FinishedIsComplete
  BY DEF CompleteInv, RunAt, Arrived, Here, FinishedIsComplete

LEMMA RunMoves ==
    ASSUME NEW c \in Client, NEW s, NEW r, RunAt(c, s), Moves(c, s, r)
    PROVE  RunAt(c, r)
  BY DEF RunAt, Moves

\* What is there stays there.
LEMMA StaysHere ==
    ASSUME NEW c \in Content, NEW v \in Version, NEW f \in File, KeptAt(Site, v, f),
           Here(files, contested, c, v, f)
    PROVE  Here(files', contested', c, v, f)
  <1>1. c # Empty
    BY FileAssumption
  <1> QED
    BY <1>1 DEF Here, KeptAt, Good

LEMMA ArrivedMoves ==
    ASSUME NEW c \in Client, NEW s, NEW r, RunAt(c, s), Arrived(files, contested, c, s),
           Moves(c, s, r), s.pc \in {"save", "ok"} => KeptIn(Site, s.ver)
    PROVE  Arrived(files', contested', c, r)
  <1>1. c \in Content /\ Build[c] \subseteq File
    BY ClientAssumption
  <1>2. ASSUME NEW f \in (Build[c] \ s.skipped) \ s.todo, s.pc \in {"save", "ok"}
        PROVE  Here(files', contested', c, s.ver, f)
    <2>1. Here(files, contested, c, s.ver, f) /\ s.ver \in Version
      BY <1>2 DEF Arrived, RunAt
    <2>2. KeptAt(Site, s.ver, f)
      BY <1>1, <1>2 DEF KeptIn
    <2> QED
      BY <1>1, <1>2, <2>1, <2>2, StaysHere
  <1>3. CASE s.pc = "uploading" /\ r.pc = "save" /\ r.todo = s.todo /\ r.skipped = s.skipped
    BY <1>3 DEF RunAt, Arrived
  <1>4. CASE /\ s.pc \in {"save", "ok"} /\ r.pc \in {"save", "ok"}
             /\ r.ver = s.ver /\ r.todo = s.todo /\ r.skipped = s.skipped
    BY <1>2, <1>4 DEF Arrived
  <1>5. ASSUME s.pc = "save", r.ver = s.ver, r.skipped = s.skipped,
               NEW f \in File, r.todo = s.todo \ {f}, Here(files', contested', c, s.ver, f)
        PROVE  Arrived(files', contested', c, r)
    BY <1>2, <1>5 DEF Arrived
  <1> QED
    BY <1>3, <1>4, <1>5 DEF Moves, Arrived

LEMMA CompleteStep == CompleteInv /\ Kept /\ AllMove => CompleteInv'
  <1> SUFFICES ASSUME CompleteInv, Kept, AllMove, NEW c \in Client
               PROVE  RunAt(c, client'[c]) /\ Arrived(files', contested', c, client'[c])
    BY DEF CompleteInv, RunAt, Arrived, Here, Good
  <1>1. /\ RunAt(c, client[c]) /\ Arrived(files, contested, c, client[c])
        /\ Moves(c, client[c], client'[c])
    BY DEF CompleteInv, AllMove
  <1>2. client[c].pc \in {"save", "ok"} => KeptIn(Site, client[c].ver)
    BY <1>1, ClientAssumption DEF RunAt, Kept
  <1> QED
    BY <1>1, <1>2, RunMoves, ArrivedMoves

LEMMA SameMoves ==
    ASSUME NEW c, NEW s, NEW r, r.pc = s.pc, r.ver = s.ver, r.todo = s.todo, r.skipped = s.skipped
    PROVE  Moves(c, s, r)
  BY DEF Moves

LEMMA OwnStep ==
    ASSUME OwnInv,
           \A t \in Task : owner'[t] # NoClient /\ task'[t].pc \in SavePc =>
              \/ /\ owner'[t] = owner[t] /\ SameSave(task[t], task'[t])
                 /\ client'[owner[t]].ver = client[owner[t]].ver
              \/ Own(t)'
    PROVE  OwnInv'
  BY DEF OwnInv, Own, SameSave, DataOf

LEMMA SameTask == \A s : s.pc \in SavePc => SameSave(s, s)
  BY DEF SameSave

LEMMA FileStutter ==
    ASSUME TypeOK, FileInv, task' = task, files' = files, Noted \/ contested' = contested
    PROVE  Noted /\ FileInv' /\ Kept
  <1>1. Noted
    BY DEF FileInv, Noted, AllNoted, StayContested
  <1>2. \A u \in Task : FileAt(files', contested', task'[u])
    BY <1>1, StillAt
  <1>3. Kept
    BY <1>1 DEF Noted, StayContested, Kept, KeptIn, KeptAt
  <1> QED
    BY <1>1, <1>2, <1>3 DEF FileInv, Noted

\* The server knows no file by the name it has for the client, so that every
\* file that the walk has come to is sent.
LEMMA AllAreSent ==
    ASSUME NEW c \in Client, NEW K, NEW S
    PROVE  UploadingFiles(c, K, S) = Build[c] \ K
  <1>1. \A f \in Build[c], g \in File : ClientKey(f) # ServerKey(g)
    BY DEF ClientKey, ServerKey
  <1>2. ASSUME NEW f \in Build[c]
        PROVE  [path |-> ClientKey(f), md5 |-> DataOf(c, f)]
                   \notin FilesMetadata(client[c].ver, S)
    BY <1>1, <1>2 DEF FilesMetadata
  <1> QED
    BY <1>2 DEF UploadingFiles

\* A step of client c alone, to state s.
LEMMA ClientAlone ==
    ASSUME ClientInv, OwnInv, task' = task, NEW c \in Client, NEW s, Set(c, s),
           \A t \in Task : owner'[t] # NoClient => owner'[t] = owner[t],
           Moves(c, client[c], s),
           Requests(c) = {} \/ s.ver = client[c].ver \/ \A t \in Task : owner'[t] # c
    PROVE  OwnInv' /\ AllMove
  <1>1. client'[c] = s /\ \A e \in Client : e # c => client'[e] = client[e]
    BY DEF Set, ClientInv
  <1>2. AllMove
    <2>1. ASSUME NEW e \in Client, e # c PROVE Moves(e, client[e], client'[e])
      BY <1>1, <2>1, SameMoves
    <2> QED
      BY <1>1, <2>1 DEF AllMove
  <1>3. ASSUME NEW t \in Task, owner'[t] # NoClient
        PROVE  owner'[t] = owner[t] /\ client'[owner[t]].ver = client[owner[t]].ver
    <2>1. owner[t] \in Client
      BY <1>3 DEF ClientInv
    <2> QED
      BY <1>1, <1>3, <2>1 DEF Requests
  <1> QED
    BY <1>2, <1>3, OwnStep, SameTask

LEMMA FailedMoves ==
    ASSUME ClientInv, NEW c \in Client, Running(c)
    PROVE  Moves(c, client[c], Failed(client[c])) /\ Failed(client[c]).ver = client[c].ver
  BY DEF ClientInv, ClientState, Running, Moves, Failed

\* A request of client c that reaches the storage.
LEMMA ClientAsks ==
    ASSUME ClientInv, OwnInv, NEW c \in Client, NEW t \in Task,
           StatusUploading(t, Site) \/ StatusFinish(t, Site) \/ SaveFile(t, Site),
           Await(c, t),
           task'[t].pc \in SavePc => task'[t].data = DataOf(c, task'[t].file)
    PROVE  OwnInv' /\ AllMove
  <1>1. /\ \A u \in Task : u # t => task'[u] = task[u]
        /\ task'[t].pc \in SavePc => task'[t].dom = Site
    BY StatusUploadingStarts, StatusFinishStarts, SaveFileStarts, ClientAssumption
    DEF ClientInv, SavePc
  <1>2. /\ client' = client /\ owner'[t] = c /\ task'[t].ver = client[c].ver
        /\ \A u \in Task : u # t => owner'[u] = owner[u]
    BY DEF Await, ClientInv
  <1>3. Own(t)'
    BY <1>1, <1>2 DEF Own, DataOf
  <1>4. AllMove
    BY <1>2, SameMoves DEF AllMove
  <1> QED
    BY <1>1, <1>2, <1>3, <1>4, OwnStep, SameTask

LEMMA ClientPart ==
    ASSUME ClientInv, OwnInv, NEW c \in Client, GetUploadVersion(c) \/ UploadStep(c) \/ Abort(c)
    PROVE  OwnInv' /\ AllMove
  <1>0. client[c] \in ClientState
    BY DEF ClientInv
  <1>1. CASE GetUploadVersion(c)
    <2>1. Requests(c) = {} /\ client[c].pc # "ok"
      BY <1>1, NoneWaited DEF GetUploadVersion, Running
    <2>2. PICK v \in ReqVersion : Set(c, NewRun(client[c].run + 1, v))
      BY <1>1 DEF GetUploadVersion
    <2>3. Moves(c, client[c], NewRun(client[c].run + 1, v))
      BY <2>1, RequestAssumption DEF Moves, NewRun
    <2> QED
      BY <1>1, <2>1, <2>2, <2>3, ClientAlone DEF GetUploadVersion, vars
  <1>2. CASE GetFileMetadata(c)
    <2>1. Requests(c) = {} /\ client[c].pc = "metadata"
      BY <1>2, NoneWaited DEF GetFileMetadata
    <2>2. PICK skipped \in SUBSET MaySkip, S \in SUBSET Unreadable :
            LET F == UploadingFiles(c, skipped, S)
            IN Set(c, [client[c] EXCEPT !.todo = F, !.skipped = skipped,
                                        !.pc = IF F = {} THEN "failed" ELSE "uploading"])
      BY <1>2 DEF GetFileMetadata
    <2> DEFINE F == UploadingFiles(c, skipped, S)
               s == [client[c] EXCEPT !.todo = F, !.skipped = skipped,
                                      !.pc = IF F = {} THEN "failed" ELSE "uploading"]
    <2>3. F = Build[c] \ skipped
      BY AllAreSent
    <2>4. Set(c, s) /\ UNCHANGED vars /\ UNCHANGED owner
      BY <1>2, <2>2 DEF GetFileMetadata
    <2> HIDE DEF F
    <2>5. /\ s.todo = F /\ s.skipped = skipped /\ s.ver = client[c].ver
          /\ s.pc \in {"failed", "uploading"}
      BY <1>0 DEF ClientState
    <2>6. Moves(c, client[c], s)
      BY <2>1, <2>3, <2>5 DEF Moves
    <2> QED
      BY <2>1, <2>4, <2>6, ClientAlone DEF vars
  <1>3. ASSUME Set(c, Failed(client[c])), UNCHANGED vars, Running(c),
               \A t \in Task : owner'[t] # NoClient => owner'[t] = owner[t]
        PROVE  OwnInv' /\ AllMove
    BY <1>3, FailedMoves, ClientAlone DEF vars
  <1>4. CASE ChangeToUploading(c)
    <2>1. Requests(c) = {} /\ client[c].pc = "uploading"
      BY <1>4 DEF ChangeToUploading
    <2>2. ASSUME NEW t \in Task, StatusUploading(t, Site), Await(c, t)
          PROVE  OwnInv' /\ AllMove
      <3>1. task'[t].pc \notin SavePc
        BY <2>2, StatusUploadingStarts, ClientAssumption DEF ClientInv, SavePc
      <3> QED
        BY <2>2, <3>1, ClientAsks
    <2>3. ASSUME Set(c, [client[c] EXCEPT !.pc = "save"]), UNCHANGED <<vars, owner>>
          PROVE  OwnInv' /\ AllMove
      <3>1. Moves(c, client[c], [client[c] EXCEPT !.pc = "save"])
        BY <1>0, <2>1 DEF Moves, ClientState
      <3> QED
        BY <2>1, <2>3, <3>1, ClientAlone DEF vars
    <2> QED
      BY <1>3, <1>4, <2>1, <2>2, <2>3 DEF ChangeToUploading, Running
  <1>5. ASSUME NEW f \in File, UploadFile(c, f) PROVE OwnInv' /\ AllMove
    <2>1. /\ client[c].pc = "save" /\ f \in client[c].todo /\ client[c].tries[f] < MaxTry
      BY <1>5 DEF UploadFile
    <2>2. ASSUME Set(c, TriedAgain(client[c], {f})), UNCHANGED <<vars, owner>>
          PROVE  OwnInv' /\ AllMove
      <3>1. /\ TriedAgain(client[c], {f}).pc = client[c].pc
            /\ TriedAgain(client[c], {f}).todo = client[c].todo
            /\ TriedAgain(client[c], {f}).ver = client[c].ver
            /\ TriedAgain(client[c], {f}).skipped = client[c].skipped
        BY <1>0, <2>1, TriedAgainType
      <3> QED
        BY <2>2, <3>1, SameMoves, ClientAlone DEF vars
    <2> QED
      BY <1>5, <2>2, ClientAsks DEF UploadFile
  <1>6. CASE ChangeToFinish(c)
    <2>1. client[c].pc = "save"
      BY <1>6 DEF ChangeToFinish
    <2>2. ASSUME NEW t \in Task, StatusFinish(t, Site), Await(c, t)
          PROVE  OwnInv' /\ AllMove
      <3>1. task'[t].pc \notin SavePc
        BY <2>2, StatusFinishStarts, ClientAssumption DEF ClientInv, SavePc
      <3> QED
        BY <2>2, <3>1, ClientAsks
    <2> QED
      BY <1>3, <1>6, <2>1, <2>2 DEF ChangeToFinish, Running
  <1>7. CASE SomeFilesFailed(c)
    BY <1>3, <1>7 DEF SomeFilesFailed, Running
  <1>8. CASE Abort(c)
    <2>1. \A t \in Task : owner'[t] # NoClient => owner'[t] = owner[t]
      BY <1>8 DEF Abort
    <2> QED
      BY <1>3, <1>8, <2>1 DEF Abort
  <1> QED
    BY <1>1, <1>2, <1>4, <1>5, <1>6, <1>7, <1>8 DEF UploadStep

\* The error or the answer that ends the wait for handler t.
LEMMA ErrorMoves ==
    ASSUME ClientInv, NEW c \in Client, NEW T \in SUBSET Requests(c)
    PROVE  Moves(c, client[c], AfterError(client[c], T))
  <1>1. CASE \A t \in T : task[t].pc \in SavePc
    <2>1. LET s == AfterError(client[c], T)
          IN /\ s.pc = client[c].pc /\ s.todo = client[c].todo /\ s.ver = client[c].ver
             /\ s.skipped = client[c].skipped
      BY <1>1, AfterErrorType
    <2> QED
      BY <2>1, SameMoves
  <1>2. CASE \E t \in T : task[t].pc \notin SavePc
    <2>1. AfterError(client[c], T) = Failed(client[c])
      BY <1>2, AfterErrorType
    <2>2. Running(c)
      <3>1. PICK t \in T : TRUE
        BY <1>2
      <3>2. Waits(c, t)
        BY <3>1, ClientAssumption DEF Requests, ClientInv
      <3> QED
        BY <3>2 DEF Waits, Running
    <2> QED
      BY <2>1, <2>2, FailedMoves
  <1> QED
    BY <1>1, <1>2

LEMMA OkMoves ==
    ASSUME ClientInv, OwnInv, NEW t \in Task, NEW c \in Client, owner[t] = c,
           AnswersOk(t), Written(t)
    PROVE  Moves(c, client[c], AfterOk(client[c], t)) /\ AfterOk(client[c], t).ver = client[c].ver
  <1>1. /\ Own(t) /\ Waits(c, t) /\ c # NoClient
        /\ client[c] \in ClientState
    BY ClientAssumption DEF OwnInv, ClientInv
  <1> DEFINE s == AfterOk(client[c], t)
  <1>2. CASE task[t].pc \in SavePc
    <2> DEFINE f == task[t].file
               v == client[c].ver
    <2>1. /\ task[t].ver = v /\ task[t].data = DataOf(c, f) /\ task[t].dom = Site
          /\ client[c].pc = "save"
      BY <1>1, <1>2, PcsDiffer DEF Own, Waits
    <2>2. f \in File /\ Target(task[t]) = <<Site, v, f>>
      BY <1>2, <2>1, SaveType DEF ClientInv
    <2>3. Here(files', contested', c, v, f)
      <3>1. c \in Content /\ c # Empty
        BY ClientAssumption, FileAssumption
      <3>2. CASE task[t].pc = "write_all"
        <4>1. /\ files'[Site][v][f] # NoFile
              /\ files'[Site][v][f] \in {DataOf(c, f), Torn} \/ <<Site, v, f>> \in contested'
          BY <2>1, <2>2, <3>2 DEF Written
        <4>2. DataOf(c, f) = Empty \/ files'[Site][v][f] # Torn
          BY <2>1, <3>2 DEF AnswersOk
        <4> QED
          BY <3>1, <4>1, <4>2 DEF Here, Good, DataOf
      <3>3. CASE task[t].pc # "write_all"
        <4>1. task[t].pc = "make_parent" /\ DataOf(c, f) = Empty /\ files[Site][v][f] # NoFile
          BY <1>2, <2>1, <3>3 DEF AnswersOk, SavePc
        <4>2. files'[Site][v][f] # NoFile
          BY <2>1, <4>1 DEF Written
        <4> QED
          BY <3>1, <4>1, <4>2 DEF Here, Good, DataOf
      <3> QED
        BY <3>2, <3>3
    <2>4. s = [client[c] EXCEPT !.todo = client[c].todo \ {f}]
      BY <1>2 DEF AfterOk, SavePc
    <2>5. /\ s.pc = "save" /\ s.ver = client[c].ver /\ s.skipped = client[c].skipped
          /\ s.todo = client[c].todo \ {f}
      BY <1>1, <2>1, <2>4 DEF ClientState
    <2> HIDE DEF s
    <2>6. Moves(c, client[c], s)
      BY <2>1, <2>2, <2>3, <2>5 DEF Moves
    <2> QED
      BY <2>5, <2>6 DEF s
  <1>3. CASE task[t].pc = "insert_uploading"
    <2>1. s = [client[c] EXCEPT !.pc = "save"]
      BY <1>3 DEF AfterOk
    <2>2. client[c].pc = "uploading"
      BY <1>1, <1>3 DEF Waits, SavePc, FinishPc
    <2> QED
      BY <1>1, <2>1, <2>2 DEF Moves, ClientState
  <1>4. CASE task[t].pc = "remove_uploading"
    <2>1. s = [client[c] EXCEPT !.pc = "ok"]
      BY <1>4 DEF AfterOk
    <2>2. client[c].pc = "save" /\ client[c].todo = {}
      BY <1>1, <1>4 DEF Waits, SavePc, UploadingPc
    <2> QED
      BY <1>1, <2>1, <2>2 DEF Moves, ClientState
  <1> QED
    BY <1>2, <1>3, <1>4 DEF AnswersOk, SavePc

\* Client c has its answer from handler t and is in state s.
LEMMA AnswerPart ==
    ASSUME ClientInv, OwnInv, NEW t \in Task, NEW c \in Client, owner[t] = c, NEW s, Set(c, s),
           owner' = [owner EXCEPT ![t] = NoClient],
           Moves(c, client[c], s), task[t].pc \in SavePc => s.ver = client[c].ver,
           \A u \in Task : u # t => task'[u] = task[u]
    PROVE  OwnInv' /\ AllMove
  <1>1. /\ client'[c] = s /\ \A e \in Client : e # c => client'[e] = client[e]
        /\ owner'[t] = NoClient /\ \A u \in Task : u # t => owner'[u] = owner[u]
    BY DEF Set, ClientInv
  <1>2. AllMove
    <2>1. ASSUME NEW e \in Client, e # c PROVE Moves(e, client[e], client'[e])
      BY <1>1, <2>1, SameMoves
    <2> QED
      BY <1>1, <2>1 DEF AllMove
  <1>3. ASSUME NEW u \in Task, owner'[u] # NoClient, task'[u].pc \in SavePc
        PROVE  /\ owner'[u] = owner[u] /\ SameSave(task[u], task'[u])
               /\ client'[owner[u]].ver = client[owner[u]].ver
    <2>1. u # t /\ owner'[u] = owner[u] /\ SameSave(task[u], task'[u]) /\ owner[u] \in Client
      BY <1>1, <1>3, SameTask DEF ClientInv
    <2>2. CASE owner[u] = c
      <3>1. task[t].pc \in SavePc
        BY <1>3, <2>1, <2>2 DEF ClientInv, Apart
      <3> QED
        BY <1>1, <2>1, <2>2, <3>1
    <2>3. CASE owner[u] # c
      BY <1>1, <2>1, <2>3
    <2> QED
      BY <2>1, <2>2, <2>3
  <1> QED
    BY <1>2, <1>3, OwnStep

\* An error in answer to a save leaves its client with the same version.
LEMMA ErrorVersion ==
    ASSUME ClientInv, NEW t \in Task, NEW c \in Client, owner[t] = c, task[t].pc \in SavePc
    PROVE  AfterError(client[c], {t}).ver = client[c].ver
  <1>1. {t} \in SUBSET Requests(c) /\ \A u \in {t} : task[u].pc \in SavePc
    BY DEF Requests
  <1> QED
    BY <1>1, AfterErrorType

LEMMA ServePart ==
    ASSUME ClientInv, OwnInv, NEW t \in Task, Serve(t), Written(t)
    PROVE  OwnInv' /\ AllMove
  <1>1. /\ \A u \in Task : u # t => task'[u] = task[u]
        /\ task'[t].pc \in SavePc => SameSave(task[t], task'[t])
    BY HandlerStep DEF Serve, ClientInv, Idle, UploadingPc, FinishPc, SavePc
  <1>2. CASE task'[t] = Idle /\ owner[t] # NoClient
    <2> DEFINE c == owner[t]
               s == IF AnswersOk(t) THEN AfterOk(client[c], t) ELSE AfterError(client[c], {t})
    <2>1. c \in Client /\ {t} \in SUBSET Requests(c)
      BY <1>2 DEF ClientInv, Requests
    <2>2. Set(c, s) /\ owner' = [owner EXCEPT ![t] = NoClient]
      BY <1>2 DEF Serve
    <2>3. Moves(c, client[c], s) /\ (task[t].pc \in SavePc => s.ver = client[c].ver)
      <3>1. CASE AnswersOk(t)
        BY <2>1, <3>1, OkMoves
      <3>2. CASE ~AnswersOk(t)
        BY <2>1, <3>2, ErrorMoves, ErrorVersion
      <3> QED
        BY <3>1, <3>2
    <2> HIDE DEF s
    <2> QED
      BY <1>1, <2>1, <2>2, <2>3, AnswerPart
  <1>3. CASE ~(task'[t] = Idle /\ owner[t] # NoClient)
    <2>1. client' = client /\ owner' = owner
      BY <1>3 DEF Serve, clientVars
    <2> QED
      BY <1>1, <2>1, OwnStep, SameTask, SameMoves DEF AllMove
  <1> QED
    BY <1>2, <1>3

LEMMA LoseAnswerPart ==
    ASSUME ClientInv, OwnInv, NEW t \in Task, LoseAnswer(t)
    PROVE  OwnInv' /\ AllMove
  <1> DEFINE c == owner[t]
  <1>1. c \in Client /\ {t} \in SUBSET Requests(c)
    BY DEF ClientInv, LoseAnswer, Requests
  <1>2. /\ Set(c, AfterError(client[c], {t})) /\ owner' = [owner EXCEPT ![t] = NoClient]
        /\ task' = task
    BY DEF LoseAnswer, vars
  <1> QED
    BY <1>1, <1>2, ErrorMoves, ErrorVersion, AnswerPart

LEMMA LoseSilentlyPart ==
    ASSUME ClientInv, OwnInv, NEW t \in Task, LoseSilently(t)
    PROVE  OwnInv' /\ AllMove
  <1> DEFINE c == owner[t]
             s == [client[c] EXCEPT !.hung = client[c].hung \cup {task[t].file}]
  <1>1. c \in Client /\ client[c] \in ClientState
    BY DEF ClientInv, LoseSilently
  <1>2. /\ Set(c, s) /\ owner' = [owner EXCEPT ![t] = NoClient]
        /\ task' = task
    BY DEF LoseSilently, vars
  <1>3. /\ s.pc = client[c].pc /\ s.todo = client[c].todo /\ s.ver = client[c].ver
        /\ s.skipped = client[c].skipped
    BY <1>1 DEF ClientState
  <1> HIDE DEF s
  <1>4. Moves(c, client[c], s)
    BY <1>3, SameMoves
  <1> QED
    BY <1>1, <1>2, <1>3, <1>4, AnswerPart

LEMMA ServerRestartPart ==
    ASSUME ClientInv, ServerRestart
    PROVE  OwnInv' /\ AllMove
  <1>1. \A t \in Task : task'[t].pc = "idle"
    BY DEF ServerRestart, Restart, Idle
  <1>2. \A c \in Client : client'[c] = AfterError(client[c], Requests(c))
    BY DEF ServerRestart
  <1>3. AllMove
    BY <1>2, ErrorMoves DEF AllMove
  <1> QED
    BY <1>1, <1>3 DEF OwnInv, Own, SavePc

\* A restart leaves the files as they are, and no handler.
LEMMA FileRestart ==
    ASSUME Noted, Restart
    PROVE  FileInv' /\ Kept
  <1>1. \A t \in Task : task'[t].pc = "idle"
    BY DEF Restart, Idle
  <1>2. files' = files
    BY DEF Restart, disk
  <1> QED
    BY <1>1, <1>2 DEF Noted, StayContested, FileInv, FileAt, Kept, KeptIn, KeptAt

-----------------------------------------------------------------------------
(* The uploads, when nobody deletes. *)

NoDelete == \A t \in Task : task[t].pc # "remove"

UploadInv == NoDelete /\ FileInv /\ OwnInv /\ CompleteInv

LEMMA UploadInit == ClientInit => UploadInv
  <1> SUFFICES ASSUME ClientInit PROVE UploadInv
    OBVIOUS
  <1>1. \A t \in Task : task[t].pc = "idle" /\ owner[t] = NoClient
    BY DEF ClientInit, Init, Idle
  <1>2. NoDelete /\ FileInv /\ OwnInv
    BY <1>1 DEF NoDelete, FileInv, AllNoted, Open, FileAt, OwnInv, Own
  <1>3. \A c \in Client : client[c].pc = "off"
    BY DEF ClientInit, NewRun
  <1>4. CompleteInv
    BY <1>3 DEF CompleteInv, RunAt, Arrived
  <1> QED
    BY <1>2, <1>4 DEF UploadInv

LEMMA NoDeleteStart ==
    ASSUME TypeOK, NoDelete, NEW t \in Task, NEW d \in Domain,
           StatusUploading(t, d) \/ StatusFinish(t, d) \/ SaveFile(t, d)
    PROVE  NoDelete'
  BY StatusUploadingStarts, StatusFinishStarts, SaveFileStarts DEF NoDelete

LEMMA NoDeleteStep ==
    ASSUME TypeOK, NoDelete, NEW t \in Task, Step(t)
    PROVE  NoDelete'
  <1>1. task'[t].pc # "remove" /\ \A u \in Task : u # t => task'[u] = task[u]
    BY HandlerStep DEF NoDelete, Idle, SameSave, SavePc, UploadingPc, FinishPc
  <1> QED
    BY <1>1 DEF NoDelete

\* What clients ask for, or nothing.
LEMMA ClientRequest ==
    ASSUME NEW c \in Client, GetUploadVersion(c) \/ UploadStep(c) \/ Abort(c)
    PROVE  \/ UNCHANGED vars
           \/ \E t \in Task : StatusUploading(t, Site) \/ StatusFinish(t, Site) \/ SaveFile(t, Site)
  BY DEF GetUploadVersion, UploadStep, GetFileMetadata, ChangeToUploading, UploadFile,
         SomeFilesFailed, ChangeToFinish, Abort

LEMMA UploadNext == ClientInv /\ UploadInv /\ [ClientNext]_allVars => UploadInv'
  <1> SUFFICES ASSUME ClientInv, NoDelete, FileInv, OwnInv, CompleteInv, [ClientNext]_allVars
               PROVE  UploadInv'
    BY DEF UploadInv
  <1>1. TypeOK /\ TypeOK'
    BY ClientNextInv DEF ClientInv
  <1>2. CASE UNCHANGED allVars
    <2>1. /\ task' = task /\ files' = files /\ client' = client /\ owner' = owner
          /\ contested' = contested
      BY <1>2 DEF allVars, clientVars, vars
    <2>2. OwnInv' /\ AllMove
      BY <2>1, OwnStep, SameTask, SameMoves DEF AllMove
    <2>3. NoDelete' /\ FileInv' /\ Kept
      BY <1>1, <2>1, FileStutter DEF NoDelete
    <2> QED
      BY <2>2, <2>3, CompleteStep DEF UploadInv
  <1>3. ASSUME WatchSaves, NEW c \in Client, GetUploadVersion(c) \/ UploadStep(c) \/ Abort(c)
        PROVE  UploadInv'
    <2>1. Noted
      BY <1>1, <1>3, WatchNotes
    <2>2. NoDelete' /\ FileInv' /\ Kept
      <3>1. CASE UNCHANGED vars
        BY <1>1, <2>1, <3>1, FileStutter DEF vars, NoDelete
      <3>2. ASSUME NEW t \in Task,
                   StatusUploading(t, Site) \/ StatusFinish(t, Site) \/ SaveFile(t, Site)
            PROVE  NoDelete' /\ FileInv' /\ Kept
        BY <1>1, <2>1, <3>2, FileStart, NoDeleteStart, ClientAssumption
      <3> QED
        BY <1>3, <3>1, <3>2, ClientRequest
    <2> QED
      BY <1>3, <2>2, ClientPart, CompleteStep DEF UploadInv
  <1>4. ASSUME WatchSaves, NEW t \in Task, Serve(t) PROVE UploadInv'
    <2>1. Step(t) /\ task[t].pc # "remove" /\ Noted
      BY <1>1, <1>4, WatchNotes DEF Serve, NoDelete
    <2>2. NoDelete' /\ FileInv' /\ Kept /\ Written(t)
      BY <1>1, <2>1, NoDeleteStep, FileStep
    <2> QED
      BY <1>4, <2>2, ServePart, CompleteStep DEF UploadInv
  <1>5. ASSUME WatchSaves, NEW t \in Task, LoseAnswer(t) \/ LoseSilently(t) PROVE UploadInv'
    <2>1. task' = task /\ files' = files
      BY <1>5 DEF LoseAnswer, LoseSilently, vars
    <2>2. NoDelete' /\ FileInv' /\ Kept
      BY <1>1, <1>5, <2>1, WatchNotes, FileStutter DEF NoDelete
    <2> QED
      BY <1>5, <2>2, LoseAnswerPart, LoseSilentlyPart, CompleteStep DEF UploadInv
  <1>6. ASSUME WatchSaves, ServerRestart PROVE UploadInv'
    <2>1. Restart /\ NoDelete' /\ Noted
      BY <1>1, <1>6, WatchNotes DEF ServerRestart, Restart, NoDelete, Idle
    <2> QED
      BY <1>6, <2>1, FileRestart, ServerRestartPart, CompleteStep DEF UploadInv
  <1> QED
    BY <1>2, <1>3, <1>4, <1>5, <1>6 DEF ClientNext

\* A run of spa-client that ends with success has put every file that its
\* walk came to on the server, whatever it had to retry, whatever answers
\* were lost and however often client and server were started again; and
\* there it stays, whatever other clients do.  A file that only this run
\* saves holds the content it had in the directory; an empty one leaves what
\* was there before; one that several saves had open at once, of several
\* clients or of several tries, is there with what they have made of it.
THEOREM FinishedComplete == ClientSpec => []FinishedIsComplete
  <1>1. ClientInv /\ UploadInv /\ [ClientNext]_allVars => (ClientInv /\ UploadInv)'
    BY ClientNextInv, UploadNext
  <1>2. ClientSpec => [](ClientInv /\ UploadInv)
    BY <1>1, ClientInitInv, UploadInit, PTL DEF ClientSpec
  <1>3. UploadInv => FinishedIsComplete
    BY CompleteMeaning DEF UploadInv
  <1> QED
    BY <1>2, <1>3, PTL

-----------------------------------------------------------------------------
(* The marker on disk and uploading_status, when clients send the requests: *)
(* none of them deletes, so that a version stays marked until the handler   *)
(* of its Finish takes the marker away, and then empties uploading_status.  *)

Finishing(d) == \E t \in Task : task[t].pc = "remove_uploading" /\ task[t].dom = d

StatusOnDisk(d) ==
    uploading_status[d] # None => uploading_status[d] \in marked[d] \/ Finishing(d)

MarkerMade(s) == s.pc = "insert_uploading" => s.ver \in marked[s.dom]

MarkerInv ==
    /\ \A d \in Domain : StatusOnDisk(d)
    /\ \A t \in Task : MarkerMade(task[t])

\* A step of handler t that neither begins the insert nor ends the removal.
LEMMA MarkerQuiet ==
    ASSUME MarkerInv, NEW t \in Task, \A u \in Task : u # t => task'[u] = task[u],
           UNCHANGED <<marked, uploading_status>>,
           task[t].pc # "remove_uploading", task'[t].pc # "insert_uploading"
    PROVE  MarkerInv'
  <1>1. ASSUME NEW d \in Domain PROVE StatusOnDisk(d)'
    BY DEF MarkerInv, StatusOnDisk, Finishing
  <1>2. ASSUME NEW u \in Task PROVE MarkerMade(task[u])'
    <2>1. CASE u = t
      BY <2>1 DEF MarkerMade
    <2>2. CASE u # t
      BY <2>2 DEF MarkerInv, MarkerMade
    <2> QED
      BY <2>1, <2>2
  <1> QED
    BY <1>1, <1>2 DEF MarkerInv

LEMMA MarkerCreate ==
    ASSUME TypeOK, MarkerInv, NEW t \in Task, CreateMarker(t)
    PROVE  MarkerInv'
  <1> DEFINE d == task[t].dom
             v == task[t].ver
  <1>1. task[t] \in VersionTask /\ d \in Domain /\ v \in Version
    BY VersionTaskByPc DEF TypeOK, CreateMarker, VersionPc
  <1>2. CASE v \notin vdirs[d]
    <2>1. /\ task'[t] = Idle /\ \A u \in Task : u # t => task'[u] = task[u]
          /\ UNCHANGED <<marked, uploading_status>>
          /\ task[t].pc = "create_marker"
      BY <1>2 DEF TypeOK, CreateMarker, Respond
    <2> QED
      BY <2>1, MarkerQuiet DEF Idle
  <1>3. CASE v \in vdirs[d]
    <2>1. /\ task'[t] = [task[t] EXCEPT !.pc = "insert_uploading"]
          /\ \A u \in Task : u # t => task'[u] = task[u]
          /\ marked' = [marked EXCEPT ![d] = marked[d] \cup {v}]
          /\ uploading_status' = uploading_status
          /\ task[t].pc = "create_marker"
      BY <1>3 DEF TypeOK, CreateMarker, Goto
    <2>2. /\ \A e \in Domain : marked[e] \subseteq marked'[e]
          /\ v \in marked'[d]
      BY <1>1, <2>1 DEF TypeOK
    <2>3. task'[t].ver = v /\ task'[t].dom = d
      BY <1>1, <2>1 DEF VersionTask
    <2>4. ASSUME NEW e \in Domain PROVE StatusOnDisk(e)'
      BY <2>1, <2>2 DEF MarkerInv, StatusOnDisk, Finishing
    <2>5. ASSUME NEW u \in Task, task'[u].pc = "insert_uploading"
          PROVE  task'[u].ver \in marked'[task'[u].dom]
      <3>1. CASE u = t
        BY <2>2, <2>3, <3>1
      <3>2. CASE u # t
        <4>1. task'[u] = task[u] /\ task[u].ver \in marked[task[u].dom]
          BY <2>1, <2>5, <3>2 DEF MarkerInv, MarkerMade
        <4>2. task[u].dom \in Domain
          BY <2>5, <4>1, VersionTaskByPc DEF TypeOK, VersionPc
        <4> QED
          BY <2>2, <4>1, <4>2
      <3> QED
        BY <3>1, <3>2
    <2> QED
      BY <2>4, <2>5 DEF MarkerInv, MarkerMade
  <1> QED
    BY <1>2, <1>3

LEMMA MarkerInsert ==
    ASSUME TypeOK, MarkerInv, NEW t \in Task, InsertUploading(t)
    PROVE  MarkerInv'
  <1>1. task[t].pc = "insert_uploading" /\ task[t].dom \in Domain
    BY VersionTaskByPc DEF TypeOK, InsertUploading, VersionPc
  <1>2. /\ task'[t] = Idle /\ \A u \in Task : u # t => task'[u] = task[u]
        /\ uploading_status' = [uploading_status EXCEPT ![task[t].dom] = task[t].ver]
        /\ marked' = marked
    BY DEF TypeOK, InsertUploading, Respond, disk
  <1>3. task[t].ver \in marked[task[t].dom]
    BY <1>1 DEF MarkerInv, MarkerMade
  <1>4. ASSUME NEW d \in Domain PROVE StatusOnDisk(d)'
    <2>1. CASE d = task[t].dom
      BY <1>2, <1>3, <2>1 DEF TypeOK, StatusOnDisk
    <2>2. CASE d # task[t].dom
      <3>1. uploading_status'[d] = uploading_status[d] /\ StatusOnDisk(d)
        BY <1>2, <2>2 DEF TypeOK, MarkerInv
      <3> QED
        BY <1>1, <1>2, <3>1 DEF StatusOnDisk, Finishing
    <2> QED
      BY <2>1, <2>2
  <1>5. ASSUME NEW u \in Task PROVE MarkerMade(task[u])'
    <2>1. CASE u = t
      BY <1>2, <2>1 DEF MarkerMade, Idle
    <2>2. CASE u # t
      BY <1>2, <2>2 DEF MarkerInv, MarkerMade
    <2> QED
      BY <2>1, <2>2
  <1> QED
    BY <1>4, <1>5 DEF MarkerInv

\* Nobody else is at work on the domain of a Finish.
LEMMA MarkerRemove ==
    ASSUME SerialInv, MarkerInv, NEW t \in Task, RemoveMarker(t)
    PROVE  MarkerInv'
  <1> DEFINE d == task[t].dom
             v == task[t].ver
  <1>1. /\ task[t].pc = "remove_marker" /\ d \in Domain /\ v \in Version
        /\ task[t] \in VersionTask
        /\ \A u \in Task : u # t => d \notin Touched(task[u])
    BY Alone, VersionTaskByPc DEF RemoveMarker, VersionPc, SerialInv, TypeOK
  <1>2. uploading_status[d] \in {v, None}
    BY <1>1 DEF SerialInv, VersionTaskInv
  <1>3. CASE v \notin marked[d]
    <2>1. /\ task'[t] = Idle /\ \A u \in Task : u # t => task'[u] = task[u]
          /\ UNCHANGED <<marked, uploading_status>>
          /\ task[t].pc = "remove_marker"
      BY <1>3 DEF SerialInv, TypeOK, RemoveMarker, Respond
    <2> QED
      BY <2>1, MarkerQuiet DEF Idle
  <1>4. CASE v \in marked[d]
    <2>1. /\ task'[t] = [task[t] EXCEPT !.pc = "remove_uploading"]
          /\ \A u \in Task : u # t => task'[u] = task[u]
          /\ marked' = [marked EXCEPT ![d] = marked[d] \ {v}]
          /\ uploading_status' = uploading_status
      BY <1>4 DEF SerialInv, TypeOK, RemoveMarker, Goto
    <2>2. /\ task'[t].pc = "remove_uploading" /\ task'[t].dom = d
          /\ \A e \in Domain : e # d => marked'[e] = marked[e]
      BY <1>1, <2>1 DEF VersionTask, SerialInv, TypeOK
    <2>3. ASSUME NEW e \in Domain PROVE StatusOnDisk(e)'
      <3>1. CASE e = d
        BY <2>2, <3>1 DEF StatusOnDisk, Finishing
      <3>2. CASE e # d
        <4>1. StatusOnDisk(e) /\ (Finishing(e) => Finishing(e)')
          BY <1>1, <2>1 DEF MarkerInv, Finishing
        <4> QED
          BY <2>1, <2>2, <3>2, <4>1 DEF StatusOnDisk
      <3> QED
        BY <3>1, <3>2
    <2>4. ASSUME NEW u \in Task, task'[u].pc = "insert_uploading"
          PROVE  task'[u].ver \in marked'[task'[u].dom]
      <3>1. u # t /\ task'[u] = task[u] /\ task[u].ver \in marked[task[u].dom]
        BY <2>1, <2>2, <2>4 DEF MarkerInv, MarkerMade
      <3>2. task[u].dom \in Domain /\ task[u].dom # d
        BY <1>1, <2>4, <3>1, Alone DEF VersionPc
      <3> QED
        BY <2>2, <3>1, <3>2
    <2> QED
      BY <2>3, <2>4 DEF MarkerInv, MarkerMade
  <1> QED
    BY <1>3, <1>4

LEMMA MarkerFinish ==
    ASSUME SerialInv, MarkerInv, NEW t \in Task, RemoveUploading(t)
    PROVE  MarkerInv'
  <1> DEFINE d == task[t].dom
             v == task[t].ver
  <1>1. task[t].pc = "remove_uploading" /\ d \in Domain /\ v \in Version
    BY Alone DEF RemoveUploading, VersionPc
  <1>2. uploading_status[d] \in {v, None}
    BY <1>1 DEF SerialInv, VersionTaskInv
  <1>3. /\ task'[t] = Idle /\ \A u \in Task : u # t => task'[u] = task[u]
        /\ marked' = marked
        /\ uploading_status' = [uploading_status EXCEPT ![d] =
                                   IF uploading_status[d] = v THEN None ELSE uploading_status[d]]
    BY DEF SerialInv, TypeOK, RemoveUploading, Respond, disk
  <1>4. /\ uploading_status'[d] = None
        /\ \A e \in Domain : e # d => uploading_status'[e] = uploading_status[e]
    BY <1>1, <1>2, <1>3 DEF SerialInv, TypeOK
  <1>5. ASSUME NEW e \in Domain PROVE StatusOnDisk(e)'
    <2>1. CASE e = d
      BY <1>4, <2>1 DEF StatusOnDisk
    <2>2. CASE e # d
      <3>1. StatusOnDisk(e) /\ (Finishing(e) => Finishing(e)')
        BY <1>3, <2>2 DEF MarkerInv, Finishing
      <3> QED
        BY <1>3, <1>4, <2>2, <3>1 DEF StatusOnDisk
    <2> QED
      BY <2>1, <2>2
  <1>6. ASSUME NEW u \in Task PROVE MarkerMade(task[u])'
    <2>1. CASE u = t
      BY <1>3, <2>1 DEF MarkerMade, Idle
    <2>2. CASE u # t
      BY <1>3, <2>2 DEF MarkerInv, MarkerMade
    <2> QED
      BY <2>1, <2>2
  <1> QED
    BY <1>5, <1>6 DEF MarkerInv

LEMMA MarkerStep ==
    ASSUME SerialInv, NoDelete, MarkerInv, NEW t \in Task, Step(t)
    PROVE  MarkerInv'
  <1>1. TypeOK /\ task \in [Task -> TaskState] /\ task[t].pc # "remove"
    BY DEF SerialInv, TypeOK, NoDelete
  <1>2. ASSUME Respond(t), UNCHANGED <<marked, uploading_status>>, task[t].pc # "remove_uploading"
        PROVE  MarkerInv'
    BY <1>1, <1>2, MarkerQuiet DEF Respond, Idle
  <1>3. ASSUME NEW l, Goto(t, l), UNCHANGED <<marked, uploading_status>>,
               task[t].pc # "remove_uploading", l # "insert_uploading", task[t].pc # "idle"
        PROVE  MarkerInv'
    <2>1. task'[t] = [task[t] EXCEPT !.pc = l] /\ \A u \in Task : u # t => task'[u] = task[u]
      BY <1>1, <1>3 DEF Goto
    <2>2. task'[t].pc = l
      <3>1. task[t] \in TaskState
        BY <1>1
      <3> QED
        BY <1>3, <2>1, <3>1 DEF TaskState, Idle, VersionTask, CacheTask, SaveTask, RemoveTask
    <2> QED
      BY <1>3, <2>1, <2>2, MarkerQuiet
  <1>4. CASE GoOnline(t)
    BY <1>2, <1>3, <1>4 DEF GoOnline, disk
  <1>5. CASE CacheDir(t)
    BY <1>1, <1>5, MarkerQuiet DEF CacheDir, disk
  <1>6. CASE CacheUpdate(t)
    BY <1>2, <1>6 DEF CacheUpdate, disk
  <1>7. CASE CreateDir(t)
    BY <1>2, <1>3, <1>7 DEF CreateDir
  <1>8. CASE MakeParent(t)
    BY <1>2, <1>3, <1>8 DEF MakeParent
  <1>9. CASE CreateFile(t)
    BY <1>2, <1>3, <1>9 DEF CreateFile
  <1>10. CASE WriteAll(t)
    BY <1>2, <1>10 DEF WriteAll
  <1>11. CASE IoError(t)
    BY <1>2, <1>11 DEF IoError, disk
  <1>12. ~(RemoveEntry(t) \/ RemoveDir(t) \/ RemoveFailed(t) \/ RemoveDone(t))
    BY <1>1 DEF RemoveEntry, RemoveDir, RemoveFailed, RemoveDone
  <1> QED
    BY <1>1, <1>4, <1>5, <1>6, <1>7, <1>8, <1>9, <1>10, <1>11, <1>12, MarkerCreate, MarkerInsert,
       MarkerRemove, MarkerFinish DEF Step

LEMMA MarkerStart ==
    ASSUME TypeOK, MarkerInv, NEW t \in Task,
           StatusUploading(t, Site) \/ StatusFinish(t, Site) \/ SaveFile(t, Site)
    PROVE  MarkerInv'
  <1>1. /\ \A u \in Task : u # t => task'[u] = task[u]
        /\ task[t] = Idle
        /\ task'[t].pc \in {"create_dir", "remove_marker", "make_parent"}
        /\ UNCHANGED <<marked, uploading_status>>
    BY StatusUploadingStarts, StatusFinishStarts, SaveFileStarts, ClientAssumption DEF disk
  <1> QED
    BY <1>1, MarkerQuiet DEF Idle

LEMMA MarkerStutter == MarkerInv /\ UNCHANGED vars => MarkerInv'
  BY DEF vars, MarkerInv, StatusOnDisk, Finishing, MarkerMade

LEMMA MarkerRestart ==
    ASSUME Restart
    PROVE  MarkerInv'
  <1>1. \A t \in Task : task'[t] = Idle
    BY DEF Restart
  <1>2. ASSUME NEW d \in Domain
        PROVE  uploading_status'[d] # None => uploading_status'[d] \in marked'[d]
    BY DEF Restart, InitUploading, disk
  <1> QED
    BY <1>1, <1>2 DEF MarkerInv, StatusOnDisk, MarkerMade, Idle

LEMMA MarkerNext ==
    SerialInv /\ NoDelete /\ MarkerInv /\ [ClientNext]_allVars => MarkerInv'
  <1> SUFFICES ASSUME SerialInv, NoDelete, MarkerInv, [ClientNext]_allVars
               PROVE  MarkerInv'
    OBVIOUS
  <1>0. TypeOK
    BY DEF SerialInv
  <1>1. CASE UNCHANGED allVars
    BY <1>1, MarkerStutter DEF allVars
  <1>2. ASSUME NEW c \in Client, GetUploadVersion(c) \/ UploadStep(c) \/ Abort(c)
        PROVE  MarkerInv'
    BY <1>0, <1>2, ClientRequest, MarkerStutter, MarkerStart
  <1>3. ASSUME NEW t \in Task, Serve(t) \/ LoseAnswer(t) \/ LoseSilently(t) PROVE MarkerInv'
    BY <1>3, MarkerStep, MarkerStutter DEF Serve, LoseAnswer, LoseSilently
  <1>4. CASE ServerRestart
    BY <1>4, MarkerRestart DEF ServerRestart
  <1> QED
    BY <1>1, <1>2, <1>3, <1>4 DEF ClientNext

LEMMA RestartFindsUpload ==
    ASSUME SerialInv, MarkerInv, Restart, NEW d \in Domain, uploading_status[d] # None
    PROVE  uploading_status'[d] = uploading_status[d] \/ Finishing(d)
  <1>1. CASE uploading_status[d] \in marked[d]
    <2>1. uploading_status'[d] \in marked[d]
      BY <1>1 DEF Restart, InitUploading
    <2> QED
      BY <1>1, <2>1, OneMarker
  <1> QED
    BY <1>1 DEF MarkerInv, StatusOnDisk

\* Uploading clients that never delete can be interrupted by a restart of
\* the server at any point: it takes up the version whose upload it was
\* receiving, unless the handler of its Finish had removed the marker.
THEOREM RestartResumes ==
    ASSUME Serialised, NoUnderflow
    PROVE  ClientSpec => RestartKnowsUploads
  <1>1. ClientInit => SerialInv /\ ClientInv /\ UploadInv /\ MarkerInv
    <2>1. ClientInit => SerialInv
      BY SerialInit DEF ClientInit
    <2>2. ClientInit => MarkerInv
      BY DEF ClientInit, Init, MarkerInv, StatusOnDisk, MarkerMade, Idle
    <2> QED
      BY <2>1, <2>2, ClientInitInv, UploadInit
  <1>2. SerialInv /\ ClientInv /\ UploadInv /\ MarkerInv /\ [ClientNext]_allVars
          => (SerialInv /\ ClientInv /\ UploadInv /\ MarkerInv)'
    <2>1. [ClientNext]_allVars => [Next]_vars
      BY StorageStep DEF allVars
    <2>2. UploadInv => NoDelete
      BY DEF UploadInv
    <2> QED
      BY <2>1, <2>2, SerialNext, ClientNextInv, UploadNext, MarkerNext
  <1>3. SerialInv /\ MarkerInv =>
          [Restart => \A d \in Domain :
              uploading_status[d] # None => uploading_status'[d] = uploading_status[d]
                                            \/ \E t \in Task : /\ task[t].pc = "remove_uploading"
                                                               /\ task[t].dom = d]_vars
    BY RestartFindsUpload DEF Finishing
  <1> QED
    BY <1>1, <1>2, <1>3, PTL DEF ClientSpec, RestartKnowsUploads
=============================================================================
