-------------------------- MODULE DeploymentProofs --------------------------
(***************************************************************************)
(* Proofs about Deployment: for any number of clients, files, tries,       *)
(* handlers and commands.                                                  *)
(***************************************************************************)
EXTENDS Deployment, UploadClientProofs, StorageRefinement

USE DEF OptVersion

-----------------------------------------------------------------------------
(* A deployment is a storage with clients and commands: each of its steps  *)
(* is a step of the client's module, a request, or none of both.           *)

Reloads == ReloadCommand \/ ReloadSwap \/ ReloadDropped

\* What a step does with the handlers and the clients.
LEMMA DeployStep ==
    ASSUME DeployNext
    PROVE  \/ \E t \in Task : Release(t, Site) \/ ReleaseLatest(t, Site) \/ Delete(t)
           \/ ClientNext
           \/ Reloads
  <1>1. ASSUME NEW t \in Task, Answer(t) \/ AnswerLost(t) PROVE ClientNext
    BY <1>1 DEF Answer, AnswerLost, Observe, ClientNext
  <1>2. ASSUME NEW c \in Client, Upload(c) \/ StartOrAbort(c) PROVE ClientNext
    BY <1>2 DEF Upload, StartOrAbort, Observe, ClientNext
  <1>3. ASSUME ProcessRestart PROVE ClientNext
    BY <1>3 DEF ProcessRestart, Observe, ClientNext
  <1>4. ASSUME NEW t \in Task, ReleaseCommand(t) \/ DeleteCommand(t)
        PROVE  Release(t, Site) \/ ReleaseLatest(t, Site) \/ Delete(t)
    BY <1>4 DEF ReleaseCommand, DeleteCommand
  <1> QED
    BY <1>1, <1>2, <1>3, <1>4 DEF DeployNext, Reloads

LEMMA DeployStorageStep == [DeployNext]_deployVars => [Next]_vars
  <1> SUFFICES ASSUME [DeployNext]_deployVars PROVE [Next]_vars
    OBVIOUS
  <1>1. ASSUME NEW t \in Task, Release(t, Site) \/ ReleaseLatest(t, Site) \/ Delete(t)
        PROVE  Next
    BY <1>1, ClientAssumption DEF Request, Next
  <1>2. ASSUME Reloads \/ UNCHANGED deployVars PROVE UNCHANGED vars
    BY <1>2 DEF Reloads, ReloadCommand, ReloadSwap, ReloadDropped, deployVars, allVars
  <1> QED
    BY <1>1, <1>2, DeployStep, StorageStep

\* Clients, commands and reloads make the handlers do nothing which the
\* storage by itself does not do, so that what is proved of the storage holds
\* of every deployment.
THEOREM DeployIsStorage == DeploySpec => Spec
  <1>1. DeployInit => Init
    BY DEF DeployInit, ClientInit
  <1> QED
    BY <1>1, DeployStorageStep, PTL DEF DeploySpec, Spec

\* So the abstract store is implemented beside reloads and lossy clients
\* too: what the admin server's storage keeps for visitors changes only when
\* a release or a start reads a complete version, of which the files are
\* missing then that could not be read (update_version,
\* remove_domain_version, save_file).
THEOREM DeployImplementsStore ==
    ASSUME Serialised, NoUnderflow
    PROVE  DeploySpec => ImplementsStore
  BY DeployIsStorage, ImplementsVersionStore

-----------------------------------------------------------------------------
(* Types. *)

LEMMA ReleaseStarts ==
    ASSUME TypeOK, NEW t \in Task, NEW d \in Domain, Release(t, d) \/ ReleaseLatest(t, d)
    PROVE  /\ \A u \in Task : u # t => task'[u] = task[u]
           /\ task[t] = Idle
           /\ task'[t].pc = "go_online" /\ task'[t].dom = d
           /\ UNCHANGED <<disk, meta, uploading_status, cache>>
  <1>1. PICK v : MayStart(t, {d}) /\ ReleaseCheck(t, d, v)
    BY DEF Release, ReleaseLatest
  <1> QED
    BY <1>1 DEF TypeOK, ReleaseCheck, MayStart

LEMMA DeleteStarts ==
    ASSUME TypeOK, NEW t \in Task, Delete(t)
    PROVE  /\ \A u \in Task : u # t => task'[u] = task[u]
           /\ task[t] = Idle
           /\ task'[t].pc = "remove"
           /\ UNCHANGED <<disk, meta, uploading_status, cache>>
  <1>1. PICK D \in {Domain} \cup {{d} : d \in Domain}, r \in Reserve :
             /\ MayStart(t, D)
             /\ task' = [task EXCEPT ![t] =
                           [pc |-> "remove",
                            doomed |-> {p \in D \X Version : p[2] \in DeleteVersions(p[1], r)}]]
             /\ UNCHANGED <<disk, meta, uploading_status, cache>>
    BY DEF Delete
  <1> DEFINE P == {p \in D \X Version : p[2] \in DeleteVersions(p[1], r)}
  <1>2. task' = [task EXCEPT ![t] = [pc |-> "remove", doomed |-> P]]
    BY <1>1
  <1> HIDE DEF P
  <1>3. task[t] = Idle /\ task \in [Task -> TaskState]
    BY <1>1 DEF TypeOK, MayStart
  <1> QED
    BY <1>1, <1>2, <1>3

\* A command starts a handler that no client waits for.
LEMMA CommandStarts ==
    ASSUME TypeOK, NEW t \in Task, ReleaseCommand(t) \/ DeleteCommand(t)
    PROVE  /\ \A u \in Task : u # t => task'[u] = task[u]
           /\ task[t] = Idle
           /\ task'[t].pc \in {"go_online", "remove"}
           /\ UNCHANGED <<disk, meta, uploading_status, cache, client, owner, front, reload>>
           /\ \E D \in SUBSET Domain : Command(t, D)
  <1>1. CASE ReleaseCommand(t)
    <2>1. (Release(t, Site) \/ ReleaseLatest(t, Site)) /\ Command(t, {Site})
      BY <1>1 DEF ReleaseCommand
    <2>2. {Site} \in SUBSET Domain /\ Site \in Domain
      BY ClientAssumption
    <2>3. client' = client /\ owner' = owner /\ front' = front /\ reload' = reload
      BY <2>1 DEF Command, clientVars
    <2> QED
      BY <2>1, <2>2, <2>3, ReleaseStarts
  <1>2. CASE DeleteCommand(t)
    <2>1. /\ Delete(t)
          /\ \E D \in SUBSET Domain : Command(t, D)
      <3>1. {Domain} \cup {{d} : d \in Domain} \subseteq SUBSET Domain
        OBVIOUS
      <3> QED
        BY <1>2, <3>1 DEF DeleteCommand
    <2>2. client' = client /\ owner' = owner /\ front' = front /\ reload' = reload
      BY <2>1 DEF Command, clientVars
    <2> QED
      BY <2>1, <2>2, DeleteStarts
  <1> QED
    BY <1>1, <1>2

LEMMA ClientCommand ==
    ASSUME ClientInv, NEW t \in Task, ReleaseCommand(t) \/ DeleteCommand(t)
    PROVE  ClientInv' /\ owner[t] = NoClient
  <1>1. TypeOK /\ TypeOK'
    BY DeployStorageStep, TypeNext DEF ClientInv, DeployNext
  <1>2. /\ \A u \in Task : u # t => task'[u] = task[u]
        /\ task[t] = Idle /\ client' = client /\ owner' = owner
    BY <1>1, CommandStarts
  <1>3. owner[t] = NoClient
    BY <1>2, ClientInvMeaning
  <1> QED
    BY <1>1, <1>2, <1>3, NoMoreWaits DEF ClientInv, SameLabel

LEMMA DeployClientStep ==
    [DeployNext]_deployVars =>
       \/ [ClientNext]_allVars
       \/ \E t \in Task : ReleaseCommand(t) \/ DeleteCommand(t)
  BY DEF DeployNext, deployVars, ClientNext, Answer, AnswerLost, Upload, StartOrAbort,
         ProcessRestart, ReloadCommand, ReloadSwap, ReloadDropped, Observe

LEMMA DeployClientInv == ClientInv /\ [DeployNext]_deployVars => ClientInv'
  BY DeployClientStep, ClientNextInv, ClientCommand

\* The handlers of commands answer to nobody who waits in the model.
AskedInv ==
    /\ asked \in [Task -> SUBSET Domain]
    /\ \A t \in Task : asked[t] # {} => task[t] # Idle /\ owner[t] = NoClient

CommandTypes ==
    /\ left \in 0 .. MaxCommand
    /\ front \in OwnStorage \cup {Shared}
    /\ reload \in OwnStorage \cup {NoReload}

HistoryTypes ==
    /\ misled \subseteq {c \in Client : client[c].pc = "save"}
    /\ suspect \subseteq vdirs[Site]

TypeInv == ClientInv /\ ContestedType /\ AskedInv /\ CommandTypes /\ HistoryTypes

LEMMA TypeInvMeaning == TypeInv => DeployTypeOK
  BY ClientInvMeaning DEF TypeInv, AskedInv, CommandTypes, HistoryTypes, DeployTypeOK

\* The storage that a reload makes.
LEMMA ReloadType ==
    ASSUME TypeOK, NEW v \in OptVersion, NEW S
    PROVE  LET c == InitCache(Site, v, S)
           IN [from |-> "reload", ver |-> c.ver, files |-> c.files] \in OwnStorage
  <1>1. InitCache(Site, v, S) \in [ver : OptVersion, files : Cached]
    BY ClientAssumption, FilesType, BootType
  <1> QED
    BY <1>1 DEF OwnStorage

LEMMA CommandTypesStep ==
    ASSUME TypeOK, CommandTypes, [DeployNext]_deployVars
    PROVE  CommandTypes'
  <1>0. MaxCommand \in Nat
    BY CommandAssumption
  <1>1. ASSUME left > 0, left' = left - 1, front' = front, reload' = reload PROVE CommandTypes'
    BY <1>0, <1>1 DEF CommandTypes, OwnStorage
  <1>2. ASSUME NEW t \in Task, ReleaseCommand(t) \/ DeleteCommand(t) PROVE CommandTypes'
    <2>1. PICK D \in SUBSET Domain : Command(t, D)
      BY <1>2, CommandStarts
    <2> QED
      BY <1>1, <2>1 DEF Command
  <1>3. ASSUME ReloadCommand PROVE CommandTypes'
    <2>1. PICK v \in OptVersion, S \in SUBSET Unreadable :
             LET c == InitCache(Site, v, S)
             IN reload' = [from |-> "reload", ver |-> c.ver, files |-> c.files]
      BY <1>3 DEF ReloadCommand
    <2>2. reload' \in OwnStorage
      BY <2>1, ReloadType
    <2>3. left > 0 /\ left' = left - 1 /\ front' = front
      BY <1>3 DEF ReloadCommand
    <2> QED
      BY <1>0, <2>2, <2>3 DEF CommandTypes
  <1>4. ASSUME ReloadSwap \/ ReloadDropped PROVE CommandTypes'
    BY <1>4 DEF ReloadSwap, ReloadDropped, CommandTypes
  <1>5. ASSUME ProcessRestart PROVE CommandTypes'
    BY <1>5 DEF ProcessRestart, CommandTypes
  <1>6. ASSUME left' = left, front' = front, reload' = reload PROVE CommandTypes'
    BY <1>6 DEF CommandTypes
  <1> QED
    BY <1>2, <1>3, <1>4, <1>5, <1>6
    DEF DeployNext, deployVars, Answer, AnswerLost, Upload, StartOrAbort

LEMMA HistoryTypesStep ==
    ASSUME HistoryTypes, ContestedType, [DeployNext]_deployVars
    PROVE  HistoryTypes' /\ ContestedType'
  <1>1. ASSUME Observe PROVE HistoryTypes' /\ ContestedType'
    BY <1>1, ContestedStep DEF Observe, HistoryTypes
  <1>2. ASSUME UNCHANGED <<client, vdirs, contested, misled, suspect>>
        PROVE  HistoryTypes' /\ ContestedType'
    BY <1>2, ContestedStep DEF HistoryTypes
  <1>3. ASSUME NEW t \in Task, ReleaseCommand(t) \/ DeleteCommand(t) PROVE Observe
    BY <1>3 DEF ReleaseCommand, DeleteCommand, Command
  <1>4. ASSUME Reloads \/ UNCHANGED deployVars
        PROVE  UNCHANGED <<client, vdirs, contested, misled, suspect>>
    BY <1>4 DEF Reloads, ReloadCommand, ReloadSwap, ReloadDropped, deployVars, allVars, clientVars,
                vars, history
  <1> QED
    BY <1>1, <1>2, <1>3, <1>4
    DEF DeployNext, Reloads, Answer, AnswerLost, Upload, StartOrAbort, ProcessRestart

LEMMA AskedStep ==
    ASSUME ClientInv, AskedInv, [DeployNext]_deployVars
    PROVE  AskedInv'
  <1>0. TypeOK
    BY DEF ClientInv
  <1>1. ASSUME NEW t \in Task, ReleaseCommand(t) \/ DeleteCommand(t) PROVE AskedInv'
    <2>1. PICK D \in SUBSET Domain : asked' = [asked EXCEPT ![t] = D]
      BY <1>0, <1>1, CommandStarts DEF Command
    <2>2. /\ \A u \in Task : u # t => task'[u] = task[u]
          /\ task'[t] # Idle /\ owner' = owner /\ owner[t] = NoClient
      BY <1>0, <1>1, CommandStarts, ClientCommand DEF Idle
    <2>3. /\ asked' \in [Task -> SUBSET Domain]
          /\ \A u \in Task : u # t => asked'[u] = asked[u]
      BY <2>1 DEF AskedInv
    <2> QED
      BY <2>2, <2>3 DEF AskedInv
  <1>2. ASSUME NEW t \in Task, Answer(t) PROVE AskedInv'
    <2>1. /\ asked' = [asked EXCEPT ![t] = IF task'[t] = Idle THEN {} ELSE asked[t]]
          /\ Serve(t)
      BY <1>2 DEF Answer
    <2>2. \A u \in Task : owner[u] = NoClient => owner'[u] = NoClient
      BY <2>1 DEF Serve, clientVars, ClientInv
    <2>3. \A u \in Task : u # t => task'[u] = task[u]
      BY <1>0, <2>1, HandlerStep DEF Serve
    <2>4. /\ asked' \in [Task -> SUBSET Domain]
          /\ \A u \in Task : u # t => asked'[u] = asked[u]
          /\ asked'[t] # {} => asked[t] # {} /\ task'[t] # Idle
      BY <2>1 DEF AskedInv
    <2> QED
      BY <2>2, <2>3, <2>4 DEF AskedInv
  <1>3. ASSUME asked' = asked, task' = task,
               \A u \in Task : owner[u] = NoClient => owner'[u] = NoClient
        PROVE  AskedInv'
    BY <1>3 DEF AskedInv
  <1>4. ASSUME NEW c \in Client, Upload(c) PROVE AskedInv'
    <2>0. asked' = asked
      BY <1>4 DEF Upload
    <2>1. ASSUME NEW t \in Task, Await(c, t),
                 StatusUploading(t, Site) \/ StatusFinish(t, Site) \/ SaveFile(t, Site)
          PROVE  AskedInv'
      <3>1. task[t] = Idle /\ \A u \in Task : u # t => task'[u] = task[u]
        BY <1>0, <2>1, StatusUploadingStarts, StatusFinishStarts, SaveFileStarts, ClientAssumption
      <3>2. asked[t] = {} /\ \A u \in Task : u # t => owner'[u] = owner[u]
        BY <2>1, <3>1 DEF AskedInv, Await, ClientInv
      <3> QED
        BY <2>0, <3>1, <3>2 DEF AskedInv
    <2>2. \/ UNCHANGED <<vars, owner>>
          \/ \E t \in Task : /\ Await(c, t)
                             /\ \/ StatusUploading(t, Site) \/ StatusFinish(t, Site)
                                \/ SaveFile(t, Site)
      BY <1>4 DEF Upload, UploadStep, GetFileMetadata, ChangeToUploading, UploadFile,
                  SomeFilesFailed, ChangeToFinish
    <2> QED
      BY <1>3, <2>0, <2>1, <2>2 DEF vars
  <1>5. ASSUME NEW c \in Client, StartOrAbort(c) PROVE AskedInv'
    <2>1. /\ asked' = asked /\ task' = task
          /\ owner' = owner \/ owner' = [t \in Task |-> IF owner[t] = c THEN NoClient ELSE owner[t]]
      BY <1>5 DEF StartOrAbort, GetUploadVersion, Abort, vars
    <2> QED
      BY <1>3, <2>1
  <1>6. ASSUME NEW t \in Task, AnswerLost(t) PROVE AskedInv'
    <2>1. /\ asked' = asked /\ task' = task
          /\ owner' = [owner EXCEPT ![t] = NoClient]
      BY <1>6 DEF AnswerLost, LoseAnswer, LoseSilently, vars
    <2> QED
      BY <1>3, <2>1 DEF ClientInv
  <1>7. ASSUME ProcessRestart PROVE AskedInv'
    BY <1>7 DEF ProcessRestart, AskedInv
  <1>8. ASSUME Reloads \/ UNCHANGED deployVars PROVE AskedInv'
    <2>1. asked' = asked /\ task' = task /\ owner' = owner
      BY <1>8 DEF Reloads, ReloadCommand, ReloadSwap, ReloadDropped, deployVars, allVars, clientVars,
                  vars
    <2> QED
      BY <1>3, <2>1
  <1> QED
    BY <1>1, <1>2, <1>4, <1>5, <1>6, <1>7, <1>8 DEF DeployNext, Reloads

LEMMA TypeInvInit == DeployInit => TypeInv
  <1> SUFFICES ASSUME DeployInit PROVE TypeInv
    OBVIOUS
  <1>1. ClientInv
    BY ClientInitInv DEF DeployInit
  <1>2. CommandTypes
    BY CommandAssumption DEF DeployInit, CommandTypes
  <1>3. ContestedType
    BY DEF DeployInit, ClientInit, ContestedType
  <1> QED
    BY <1>1, <1>2, <1>3 DEF DeployInit, TypeInv, AskedInv, HistoryTypes

LEMMA TypeInvNext == TypeInv /\ [DeployNext]_deployVars => TypeInv'
  <1> SUFFICES ASSUME TypeInv, [DeployNext]_deployVars PROVE TypeInv'
    OBVIOUS
  <1>1. TypeOK
    BY DEF TypeInv, ClientInv
  <1> QED
    BY <1>1, DeployClientInv, AskedStep, CommandTypesStep, HistoryTypesStep DEF TypeInv

\* Whatever requests overlap, the handlers that work for a command are those
\* which no upload waits for, and what a reload hands to the listeners is a
\* version with its files, or nothing.
THEOREM DeployTypes == DeploySpec => []DeployTypeOK
  <1>1. DeploySpec => []TypeInv
    BY TypeInvInit, TypeInvNext, PTL DEF DeploySpec
  <1> QED
    BY <1>1, TypeInvMeaning, PTL

-----------------------------------------------------------------------------
(* What goes online.  Versions whose marker is gone are whole builds, but   *)
(* for those that a request has been at without a marker: the handler of a  *)
(* Finish finds a whole build, since its client counts the files that have  *)
(* arrived and nobody else changes them; and when a delete has taken some   *)
(* of them away, the version is suspect and the client misled.              *)

Trusted(v) == v \in suspect \/ Whole(v, files[Site][v])

WholeInv == \A v \in vdirs[Site] \ marked[Site] : Trusted(v)

FinishInv ==
    \A t \in Task : task[t].pc = "remove_marker" /\ task[t].dom = Site
                    /\ task[t].ver \in vdirs[Site] => Trusted(task[t].ver)

Counts(c) ==
    client[c].pc = "save" /\ c \notin misled => Arrived(files, contested, c, client[c])

CountInv == \A c \in Client : RunAt(c, client[c]) /\ Counts(c)

WatchInv == Unguarded \cap vdirs[Site] \subseteq suspect

OnlineInv == FileInv /\ OwnInv /\ CountInv /\ WatchInv /\ WholeInv /\ FinishInv

LEMMA OnlineInit == DeployInit => OnlineInv
  <1> SUFFICES ASSUME DeployInit PROVE OnlineInv
    OBVIOUS
  <1>1. UploadInv
    BY UploadInit DEF DeployInit
  <1>2. FileInv /\ OwnInv /\ CountInv
    BY <1>1 DEF UploadInv, CompleteInv, CountInv, Counts, Arrived
  <1>3. \A t \in Task : task[t].pc = "idle"
    BY DEF DeployInit, ClientInit, Init, Idle
  <1>4. Unguarded = {}
    <2>1. uploading_status[Site] \notin Version /\ misled = {}
      BY ClientAssumption, NoneIsNoVersion DEF DeployInit, ClientInit, Init
    <2> QED
      BY <1>3, <2>1 DEF Unguarded, BeingRemoved
  <1>5. ASSUME NEW v \in vdirs[Site] PROVE Whole(v, files[Site][v])
    <2>1. PICK c \in Content :
             files = [d \in Domain |-> [w \in Version |->
                        [f \in File |-> IF w \in vdirs[d] THEN c ELSE NoFile]]]
      BY DEF DeployInit, ClientInit, Init
    <2>2. v \in Version /\ Site \in Domain
      BY ClientAssumption, RequestAssumption DEF DeployInit, ClientInit, Init
    <2>3. \A f \in File : files[Site][v][f] = c
      BY <2>1, <2>2
    <2>4. c # NoFile
      BY FileAssumption
    <2>5. c \in Client => Build[c] \subseteq File
      BY ClientAssumption
    <2> QED
      BY <2>3, <2>4, <2>5 DEF Whole, Good
  <1> QED
    BY <1>2, <1>3, <1>4, <1>5 DEF OnlineInv, WatchInv, WholeInv, FinishInv, Trusted

\* The site's part of the disk is as it was.
Steady ==
    /\ vdirs'[Site] = vdirs[Site] /\ marked'[Site] = marked[Site]
    /\ files'[Site] = files[Site]

EndsUpload(t, v) == task[t].pc = "remove_marker" /\ task[t].dom = Site /\ task[t].ver = v

\* Why a version without a marker may be trusted after a step.
Covered ==
    \A v \in vdirs'[Site] \ marked'[Site] :
       \/ v \in Unguarded'
       \/ /\ v \in vdirs[Site] /\ files'[Site][v] = files[Site][v]
          /\ v \in marked[Site] => \E t \in Task : EndsUpload(t, v)

\* Why one may be trusted whose marker is about to go.
FinishCovered ==
    \A t \in Task : task'[t].pc = "remove_marker" /\ task'[t].dom = Site
                    /\ task'[t].ver \in vdirs'[Site] =>
       \/ task'[t].ver \in Unguarded'
       \/ \E v \in Version : v = task'[t].ver /\ Whole(v, files[Site][v])'
       \/ task'[t] = task[t] /\ Steady

Missed(v) == \E t \in Task : task'[t].pc = "remove" /\ <<Site, v>> \in task'[t].doomed

KeptOrMissed == \A v \in Version : KeptIn(Site, v) \/ Missed(v)

LEMMA StaysSuspect ==
    ASSUME Observe, NEW v \in vdirs'[Site], v \in suspect, v \in marked'[Site] => v \in marked[Site]
    PROVE  v \in suspect'
  BY DEF Observe

LEMMA WatchStep == Observe => WatchInv' /\ \A v \in vdirs'[Site] : v \in Unguarded' => v \in suspect'
  BY DEF Observe, WatchInv

\* What is whole remains so while it does not change.
LEMMA StaysWhole ==
    ASSUME Noted, NEW v \in Version, files'[Site][v] = files[Site][v], Whole(v, files[Site][v])
    PROVE  Whole(v, files[Site][v])'
  <1> DEFINE Part(c) == IF c \in Client THEN Build[c] \ MaySkip ELSE File
  <1>1. PICK c \in Content :
          \A f \in Part(c) : /\ files[Site][v][f] # NoFile
                             /\ \/ <<Site, v, f>> \in contested
                                \/ Good(c, f, files[Site][v][f])
    BY DEF Whole
  <1>2. ASSUME NEW f \in Part(c)
        PROVE  /\ files'[Site][v][f] # NoFile
               /\ <<Site, v, f>> \in contested' \/ Good(c, f, files'[Site][v][f])
    <2>1. f \in File /\ Site \in Domain
      BY ClientAssumption
    <2> QED
      BY <1>1, <2>1 DEF Noted, StayContested
  <1>3. \A f \in Part(c) : Good(c, f, files'[Site][v][f]) <=> Good(c, f, files[Site][v][f])'
    BY DEF Good
  <1> QED
    BY <1>2, <1>3 DEF Whole

LEMMA WholeStep ==
    ASSUME TypeOK, Noted, Observe, WholeInv, FinishInv, Covered
    PROVE  WholeInv'
  <1> SUFFICES ASSUME NEW v \in vdirs'[Site] \ marked'[Site]
               PROVE  v \in suspect' \/ Whole(v, files[Site][v])'
    BY DEF WholeInv, Trusted
  <1>1. CASE v \in Unguarded'
    BY <1>1, WatchStep
  <1>2. CASE /\ v \in vdirs[Site] /\ files'[Site][v] = files[Site][v]
             /\ v \in marked[Site] => \E t \in Task : EndsUpload(t, v)
    <2>1. Trusted(v)
      BY <1>2 DEF WholeInv, FinishInv, EndsUpload
    <2>2. v \in Version
      BY <1>2, ClientAssumption DEF TypeOK
    <2> QED
      BY <1>2, <2>1, <2>2, StaysSuspect, StaysWhole DEF Trusted
  <1> QED
    BY <1>1, <1>2 DEF Covered

LEMMA FinishStep ==
    ASSUME TypeOK, Noted, Observe, FinishInv, FinishCovered
    PROVE  FinishInv'
  <1> SUFFICES ASSUME NEW t \in Task, task'[t].pc = "remove_marker", task'[t].dom = Site,
                      task'[t].ver \in vdirs'[Site]
               PROVE  Trusted(task[t].ver)'
    BY DEF FinishInv
  <1>1. CASE task'[t].ver \in Unguarded'
    BY <1>1, WatchStep DEF Trusted
  <1>2. CASE task'[t] = task[t] /\ Steady
    <2> DEFINE v == task[t].ver
    <2>1. Trusted(v) /\ v \in vdirs[Site] /\ task'[t].ver = v
      BY <1>2 DEF FinishInv, Steady
    <2>2. v \in Version
      BY <2>1, ClientAssumption DEF TypeOK
    <2>3. v \in suspect => v \in suspect'
      BY <1>2, <2>1, StaysSuspect DEF Steady
    <2>4. Whole(v, files[Site][v]) => Whole(v, files[Site][v])'
      BY <1>2, <2>2, StaysWhole DEF Steady
    <2> QED
      BY <1>2, <2>1, <2>3, <2>4 DEF Trusted, Whole
  <1>3. ASSUME NEW v \in Version, v = task'[t].ver, Whole(v, files[Site][v])'
        PROVE  Trusted(task[t].ver)'
    BY <1>3 DEF Trusted, Whole
  <1> QED
    BY <1>1, <1>2, <1>3 DEF FinishCovered

LEMMA CountStep ==
    ASSUME Observe, CountInv, AllMove, KeptOrMissed
    PROVE  CountInv'
  <1> SUFFICES ASSUME NEW c \in Client
               PROVE  RunAt(c, client'[c]) /\ Counts(c)'
    BY DEF CountInv, RunAt
  <1>1. RunAt(c, client[c]) /\ Counts(c) /\ Moves(c, client[c], client'[c])
    BY DEF CountInv, AllMove
  <1>2. RunAt(c, client'[c])
    BY <1>1, RunMoves
  <1>3. ASSUME client'[c].pc = "save", c \notin misled' PROVE Arrived(files', contested', c, client'[c])
    <2>1. c \notin misled /\ ~Missed(client'[c].ver)
      BY <1>3 DEF Observe, BeingRemoved, Missed
    <2>2. client[c].pc # "ok"
      BY <1>1, <1>3 DEF Moves
    <2>3. Arrived(files, contested, c, client[c])
      BY <1>1, <2>1, <2>2 DEF Counts, Arrived
    <2>4. client[c].pc = "save" => client'[c].ver = client[c].ver /\ client[c].ver \in Version
      BY <1>1, <1>3 DEF Moves, RunAt
    <2>5. client[c].pc \in {"save", "ok"} => KeptIn(Site, client[c].ver)
      BY <2>1, <2>2, <2>4 DEF KeptOrMissed
    <2> QED
      BY <1>1, <2>3, <2>5, ArrivedMoves
  <1> QED
    BY <1>2, <1>3 DEF Counts, Arrived, Here, Good

LEMMA OnlineInvStep ==
    ASSUME TypeOK, Noted, OnlineInv, Observe, FileInv', OwnInv', AllMove, KeptOrMissed, Covered, FinishCovered
    PROVE  OnlineInv'
  BY WatchStep, WholeStep, FinishStep, CountStep DEF OnlineInv

LEMMA QuietDisk == UNCHANGED disk => Steady /\ Covered
  BY DEF disk, Steady, Covered

LEMMA SteadyCovers == Steady => Covered
  BY DEF Steady, Covered

\* Changes of another domain.
LEMMA OtherDomain ==
    ASSUME TypeOK, NEW d \in Domain, d # Site, NEW V, NEW M, NEW F,
           vdirs' = vdirs \/ vdirs' = [vdirs EXCEPT ![d] = V],
           marked' = marked \/ marked' = [marked EXCEPT ![d] = M],
           files' = files \/ files' = [files EXCEPT ![d] = F]
    PROVE  Steady
  BY ClientAssumption DEF TypeOK, Steady

LEMMA OtherVersion ==
    ASSUME NEW F \in [Domain -> [Version -> [File -> Stored]]],
           NEW d \in Domain, NEW v \in Version, NEW f, NEW x, NEW w \in Version, w # v
    PROVE  [F EXCEPT ![d][v][f] = x][d][w] = F[d][w]
  OBVIOUS

\* A save goes into the version that is uploading.
LEMMA SaveIsWatched ==
    ASSUME SerialInv, NEW t \in Task, task[t].pc \in SavePc, task[t].dom = Site,
           \A u \in Task : u # t => task'[u] = task[u],
           task'[t].pc # "remove_uploading",
           uploading_status' = uploading_status, marked' = marked,
           task[t].ver \notin marked[Site]
    PROVE  task[t].ver \in Unguarded'
  <1>1. /\ task[t] \in TaskState /\ task[t].ver \in Version
        /\ Site \in Touched(task[t])
    BY TouchedByPc DEF SerialInv, TypeOK
  <1>2. uploading_status[Site] = task[t].ver
    BY DEF SerialInv, VersionTaskInv
  <1>3. ASSUME NEW u \in Task, task'[u].pc = "remove_uploading" PROVE task'[u].dom # Site
    <2>1. u # t /\ task'[u] = task[u]
      BY <1>3
    <2> QED
      BY <1>1, <1>3, <2>1, Alone DEF VersionPc
  <1> QED
    BY <1>1, <1>2, <1>3 DEF Unguarded

LEMMA CreateDirCovered ==
    ASSUME TypeOK, NEW t \in Task, CreateDir(t)
    PROVE  Covered /\ (task[t].dom # Site => Steady)
  <1> DEFINE d == task[t].dom
             v == task[t].ver
  <1>1. task[t].pc = "create_dir" /\ task[t] \in VersionTask /\ task \in [Task -> TaskState]
    BY VersionTaskByPc DEF CreateDir, TypeOK, VersionPc
  <1>2. d \in Domain /\ v \in Version
    BY <1>1 DEF VersionTask
  <1>3. CASE InServing(d, v)
    BY <1>3, QuietDisk DEF CreateDir, disk
  <1>4. CASE ~InServing(d, v)
    <2>1. /\ vdirs' = [vdirs EXCEPT ![d] = vdirs[d] \cup {v}]
          /\ marked' = marked /\ files' = files
          /\ task'[t] = [task[t] EXCEPT !.pc = "create_marker"]
      BY <1>1, <1>4 DEF CreateDir, Goto
    <2>2. d # Site => Steady
      BY <1>2, <2>1, OtherDomain
    <2>3. CASE d = Site
      <3>1. v \in Unguarded'
        BY <1>1, <1>2, <2>1, <2>3 DEF Unguarded, VersionTask
      <3>2. vdirs'[Site] = vdirs[Site] \cup {v}
        BY <1>2, <2>1, <2>3 DEF TypeOK
      <3> QED
        BY <2>1, <2>3, <3>1, <3>2 DEF Covered
    <2> QED
      BY <2>2, <2>3, SteadyCovers
  <1> QED
    BY <1>3, <1>4

LEMMA CreateMarkerCovered ==
    ASSUME TypeOK, NEW t \in Task, CreateMarker(t)
    PROVE  Covered /\ (task[t].dom # Site => Steady)
  <1> DEFINE d == task[t].dom
             v == task[t].ver
  <1>1. d \in Domain /\ v \in Version
    BY VersionTaskByPc DEF CreateMarker, TypeOK, VersionPc
  <1>2. CASE v \notin vdirs[d]
    BY <1>2, QuietDisk DEF CreateMarker, disk
  <1>3. CASE v \in vdirs[d]
    <2>1. /\ marked' = [marked EXCEPT ![d] = marked[d] \cup {v}]
          /\ vdirs' = vdirs /\ files' = files
      BY <1>3 DEF CreateMarker
    <2>2. d # Site => Steady
      BY <1>1, <2>1, OtherDomain
    <2>3. CASE d = Site
      <3>1. marked'[Site] = marked[Site] \cup {v}
        BY <1>1, <2>1, <2>3 DEF TypeOK
      <3> QED
        BY <2>1, <2>3, <3>1 DEF Covered
    <2> QED
      BY <2>2, <2>3, SteadyCovers
  <1> QED
    BY <1>2, <1>3

LEMMA RemoveMarkerCovered ==
    ASSUME TypeOK, NEW t \in Task, RemoveMarker(t)
    PROVE  Covered /\ (task[t].dom # Site => Steady)
  <1> DEFINE d == task[t].dom
             v == task[t].ver
  <1>1. d \in Domain /\ v \in Version /\ task[t].pc = "remove_marker"
    BY VersionTaskByPc DEF RemoveMarker, TypeOK, VersionPc
  <1>2. CASE v \notin marked[d]
    BY <1>2, QuietDisk DEF RemoveMarker, disk
  <1>3. CASE v \in marked[d]
    <2>1. /\ marked' = [marked EXCEPT ![d] = marked[d] \ {v}]
          /\ vdirs' = vdirs /\ files' = files
      BY <1>3 DEF RemoveMarker
    <2>2. d # Site => Steady
      BY <1>1, <2>1, OtherDomain
    <2>3. CASE d = Site
      <3>1. marked'[Site] = marked[Site] \ {v}
        BY <1>1, <2>1, <2>3 DEF TypeOK
      <3>2. EndsUpload(t, v)
        BY <1>1, <2>3 DEF EndsUpload
      <3> QED
        BY <2>1, <2>3, <3>1, <3>2 DEF Covered
    <2> QED
      BY <2>2, <2>3, SteadyCovers
  <1> QED
    BY <1>2, <1>3

\* The steps of a save.
LEMMA SaveGoesOn ==
    ASSUME TypeOK, NEW t \in Task, Step(t), task[t].pc \in SavePc
    PROVE  /\ \A u \in Task : u # t => task'[u] = task[u]
           /\ task'[t].pc \in SavePc \cup {"idle"}
  <1>1. /\ \A u \in Task : u # t => task'[u] = task[u]
        /\ task'[t] = Idle \/ SameSave(task[t], task'[t])
    <2>1. task[t].pc \notin UploadingPc /\ task[t].pc \notin FinishPc
      BY PcsDiffer
    <2> QED
      BY <2>1, HandlerStep
  <1> QED
    BY <1>1 DEF Idle, SameSave

LEMMA SaveLabelOf ==
    ASSUME NEW t, MakeParent(t) \/ CreateFile(t) \/ WriteAll(t)
    PROVE  task[t].pc \in SavePc /\ Step(t)
  <1>1. CASE MakeParent(t)
    BY Zenon, <1>1 DEF MakeParent, SavePc, Step
  <1>2. CASE CreateFile(t)
    BY Zenon, <1>2 DEF CreateFile, SavePc, Step
  <1>3. CASE WriteAll(t)
    BY Zenon, <1>3 DEF WriteAll, SavePc, Step
  <1> QED
    BY <1>1, <1>2, <1>3

LEMMA SaveCovered ==
    ASSUME SerialInv, NEW t \in Task, MakeParent(t) \/ CreateFile(t) \/ WriteAll(t)
    PROVE  Covered /\ (task[t].dom # Site => Steady)
  <1> DEFINE d == task[t].dom
             v == task[t].ver
             f == task[t].file
  <1>1. /\ task[t].pc \in SavePc /\ TypeOK /\ Step(t)
        /\ d \in Domain /\ v \in Version /\ f \in File
    BY SaveLabelOf, SaveTaskByPc DEF SerialInv, TypeOK
  <1>2. /\ \A u \in Task : u # t => task'[u] = task[u]
        /\ task'[t].pc # "remove_uploading"
    BY <1>1, SaveGoesOn DEF SavePc
  <1>3. /\ marked' = marked /\ uploading_status' = uploading_status
        /\ vdirs' = vdirs \/ vdirs' = [vdirs EXCEPT ![d] = vdirs[d] \cup {v}]
        /\ files' = files \/ \E w : files' = [files EXCEPT ![d][v][f] = w]
    <2>1. CASE MakeParent(t)
      BY <2>1 DEF MakeParent
    <2>2. CASE CreateFile(t)
      <3>1. files' = files \/ files' = [files EXCEPT ![d][v][f] = Empty]
        BY <2>2 DEF CreateFile
      <3>2. UNCHANGED <<vdirs, marked, uploading_status>>
        BY Zenon, <2>2 DEF CreateFile
      <3> QED
        BY Zenon, <3>1, <3>2
    <2>3. CASE WriteAll(t)
      <3>1. files' = files \/ \E w : files' = [files EXCEPT ![d][v][f] = w]
        BY Zenon, <2>3 DEF WriteAll
      <3>2. UNCHANGED <<vdirs, marked, uploading_status>>
        BY Zenon, <2>3 DEF WriteAll
      <3> QED
        BY Zenon, <3>1, <3>2
    <2> QED
      BY <2>1, <2>2, <2>3
  <1>4. PICK F : files' = files \/ files' = [files EXCEPT ![d] = F]
    BY <1>3
  <1>5. d # Site => Steady
    BY <1>1, <1>3, <1>4, OtherDomain
  <1>6. CASE d = Site
    <2>1. v \notin marked[Site] => v \in Unguarded'
      BY <1>1, <1>2, <1>3, <1>6, SaveIsWatched
    <2>2. vdirs'[Site] \subseteq vdirs[Site] \cup {v}
      BY <1>1, <1>3, <1>6 DEF TypeOK
    <2>3. ASSUME NEW w \in Version, w # v PROVE files'[Site][w] = files[Site][w]
      <3>1. files \in [Domain -> [Version -> [File -> Stored]]]
        BY <1>1, FilesType
      <3>2. PICK x : files' = files \/ files' = [files EXCEPT ![d][v][f] = x]
        BY Zenon, <1>3
      <3>3. [files EXCEPT ![d][v][f] = x][d][w] = files[d][w]
        BY <1>1, <2>3, <3>1, OtherVersion
      <3> QED
        BY Zenon, <1>6, <3>2, <3>3
    <2>4. vdirs[Site] \subseteq Version
      BY <1>1, <1>6 DEF TypeOK
    <2> QED
      BY <1>3, <1>6, <2>1, <2>2, <2>3, <2>4 DEF Covered
  <1> QED
    BY <1>5, <1>6, SteadyCovers

LEMMA SameKept ==
    ASSUME Noted, NEW v \in Version, files'[Site][v] = files[Site][v]
    PROVE  KeptIn(Site, v)
  BY ClientAssumption DEF Noted, StayContested, KeptIn, KeptAt

\* What a delete may disturb.
LEMMA RemoveCovered ==
    ASSUME SerialInv, Noted, NEW t \in Task, RemoveEntry(t) \/ RemoveDir(t)
    PROVE  Covered /\ KeptOrMissed /\ (Site \notin Touched(task[t]) => Steady)
  <1>1. /\ TypeOK /\ task[t].pc = "remove" /\ task[t] \in TaskState
        /\ task[t].doomed \in SUBSET (Domain \X Version)
        /\ \A p \in task[t].doomed : p[1] \in Touched(task[t])
    BY RemoveTaskByPc, TouchedByPc DEF RemoveEntry, RemoveDir, SerialInv, TypeOK
  <1>2. ASSUME NEW p \in task[t].doomed, p[1] # Site,
               vdirs' = vdirs \/ vdirs' = [vdirs EXCEPT ![p[1]] = vdirs[p[1]] \ {p[2]}],
               marked' = marked \/ marked' = [marked EXCEPT ![p[1]] = marked[p[1]] \ {p[2]}],
               files' = files \/ \E f \in File : files' = [files EXCEPT ![p[1]][p[2]][f] = NoFile]
        PROVE  Steady
    <2>1. PICK F : files' = files \/ files' = [files EXCEPT ![p[1]] = F]
      BY <1>2
    <2> QED
      BY <1>1, <1>2, <2>1, OtherDomain
  <1>3. Steady => KeptOrMissed
    BY SameKept DEF Steady, KeptOrMissed
  <1>4. CASE RemoveEntry(t)
    <2>1. PICK p \in task[t].doomed :
             \/ /\ marked' = [marked EXCEPT ![p[1]] = marked[p[1]] \ {p[2]}]
                /\ files' = files
             \/ /\ marked' = marked
                /\ \E f \in File : files' = [files EXCEPT ![p[1]][p[2]][f] = NoFile]
      BY <1>4 DEF RemoveEntry
    <2>2. vdirs' = vdirs /\ task' = task
      BY <1>4 DEF RemoveEntry
    <2>3. p[1] \in Domain /\ p[2] \in Version /\ p = <<p[1], p[2]>>
      BY <1>1
    <2>4. p[1] # Site => Steady
      BY <1>2, <2>1, <2>2
    <2>5. CASE p[1] = Site
      <3>1. p[2] \in Unguarded' /\ Missed(p[2])
        BY <1>1, <2>2, <2>3, <2>5 DEF Unguarded, BeingRemoved, Missed
      <3>2. marked'[Site] = marked[Site] \/ marked'[Site] = marked[Site] \ {p[2]}
        BY <1>1, <2>1, <2>3, <2>5 DEF TypeOK
      <3>3. ASSUME NEW w \in Version, w # p[2] PROVE files'[Site][w] = files[Site][w]
        BY <1>1, <2>1, <2>3, <2>5, <3>3, FilesType, OtherVersion
      <3>4. vdirs[Site] \subseteq Version
        BY <1>1, <2>3, <2>5 DEF TypeOK
      <3>5. Covered
        BY <2>2, <3>1, <3>2, <3>3, <3>4 DEF Covered
      <3>6. KeptOrMissed
        BY <3>1, <3>3, SameKept DEF KeptOrMissed
      <3> QED
        BY <1>1, <2>5, <3>5, <3>6
    <2> QED
      BY <1>1, <1>3, <2>4, <2>5, SteadyCovers
  <1>5. CASE RemoveDir(t)
    <2>1. PICK p \in task[t].doomed : vdirs' = [vdirs EXCEPT ![p[1]] = vdirs[p[1]] \ {p[2]}]
      BY <1>5 DEF RemoveDir
    <2>2. marked' = marked /\ files' = files
      BY <1>5 DEF RemoveDir
    <2>3. p[1] # Site => Steady
      BY <1>2, <2>1, <2>2
    <2>4. vdirs'[Site] \subseteq vdirs[Site]
      BY <1>1, <2>1, ClientAssumption DEF TypeOK
    <2>5. Covered /\ KeptOrMissed
      BY <2>2, <2>4, SameKept DEF Covered, KeptOrMissed
    <2> QED
      BY <1>1, <2>3, <2>5
  <1> QED
    BY <1>4, <1>5

LEMMA StepCovered ==
    ASSUME SerialInv, Noted, NEW t \in Task, Step(t)
    PROVE  Covered /\ (Site \notin Touched(task[t]) => Steady)
  <1>1. TypeOK /\ task[t] \in TaskState
    BY DEF SerialInv, TypeOK
  <1>2. task[t].pc \in VersionPc \cup SavePc /\ Site \notin Touched(task[t]) => task[t].dom # Site
    BY <1>1, TouchedByPc
  <1>3. CASE CreateDir(t) \/ CreateMarker(t) \/ RemoveMarker(t)
    <2>1. task[t].pc \in VersionPc
      BY <1>3 DEF CreateDir, CreateMarker, RemoveMarker, VersionPc
    <2> QED
      BY <1>1, <1>2, <1>3, <2>1, CreateDirCovered, CreateMarkerCovered, RemoveMarkerCovered
  <1>4. CASE MakeParent(t) \/ CreateFile(t) \/ WriteAll(t)
    <2>1. task[t].pc \in SavePc
      BY <1>4, SaveLabelOf
    <2> QED
      BY <1>2, <1>4, <2>1, SaveCovered
  <1>5. CASE RemoveEntry(t) \/ RemoveDir(t)
    BY <1>5, RemoveCovered
  <1>6. CASE GoOnline(t) \/ CacheDir(t) \/ CacheUpdate(t) \/ InsertUploading(t)
             \/ RemoveUploading(t) \/ RemoveFailed(t) \/ RemoveDone(t) \/ IoError(t)
    <2>1. UNCHANGED disk
      BY <1>6 DEF GoOnline, CacheDir, CacheUpdate, InsertUploading, RemoveUploading, RemoveFailed,
                  RemoveDone, IoError
    <2> QED
      BY <2>1, QuietDisk
  <1> QED
    BY <1>3, <1>4, <1>5, <1>6 DEF Step

\* The removal of a marker is the first step of its handler.
LEMMA NoNewFinish ==
    ASSUME TypeOK, NEW t \in Task, Step(t)
    PROVE  task'[t].pc # "remove_marker"
  <1>1. CASE task[t].pc \notin FinishPc
    BY <1>1, HandlerStep DEF Idle, SameSave, SavePc, UploadingPc, FinishPc
  <1>2. CASE task[t].pc \in FinishPc
    <2>1. RemoveMarker(t) \/ RemoveUploading(t) \/ IoError(t)
      <3>1. ~(GoOnline(t) \/ CacheDir(t) \/ CacheUpdate(t))
        BY <1>2 DEF FinishPc, GoOnline, CacheDir, CacheUpdate
      <3>2. ~(CreateDir(t) \/ CreateMarker(t) \/ InsertUploading(t))
        BY <1>2 DEF FinishPc, CreateDir, CreateMarker, InsertUploading
      <3>3. ~(MakeParent(t) \/ CreateFile(t) \/ WriteAll(t))
        BY <1>2, SaveLabelOf, PcsDiffer
      <3>4. ~(RemoveEntry(t) \/ RemoveDir(t) \/ RemoveFailed(t) \/ RemoveDone(t))
        BY <1>2 DEF FinishPc, RemoveEntry, RemoveDir, RemoveFailed, RemoveDone
      <3> QED
        BY <3>1, <3>2, <3>3, <3>4 DEF Step
    <2>2. Goto(t, "remove_uploading") \/ Respond(t)
      BY <2>1 DEF RemoveMarker, RemoveUploading, IoError
    <2>3. task \in [Task -> TaskState] /\ task[t] \in VersionTask
      BY <1>2, VersionTaskByPc DEF TypeOK, FinishPc, VersionPc
    <2> QED
      BY <2>2, <2>3 DEF Goto, Respond, Idle, VersionTask
  <1> QED
    BY <1>1, <1>2

LEMMA StepFinishCovered ==
    ASSUME SerialInv, Noted, NEW t \in Task, Step(t)
    PROVE  FinishCovered
  <1> SUFFICES ASSUME NEW u \in Task, task'[u].pc = "remove_marker", task'[u].dom = Site
               PROVE  task'[u] = task[u] /\ Steady
    BY DEF FinishCovered
  <1>1. u # t /\ task'[u] = task[u]
    BY NoNewFinish, HandlerStep DEF SerialInv
  <1>2. Site \notin Touched(task[t])
    BY <1>1, Alone DEF VersionPc
  <1> QED
    BY <1>1, <1>2, StepCovered

\* A delete leaves the files alone that another handler has begun to write.
LEMMA RemoveFileInv ==
    ASSUME SerialInv, FileInv, Noted, NEW t \in Task, Step(t), task[t].pc = "remove"
    PROVE  FileInv'
  <1>1. /\ TypeOK /\ task[t] \in TaskState
        /\ task[t].doomed \in SUBSET (Domain \X Version)
        /\ \A p \in task[t].doomed : p[1] \in Touched(task[t])
    BY RemoveTaskByPc, TouchedByPc DEF SerialInv, TypeOK
  <1>2. /\ \A u \in Task : u # t => task'[u] = task[u]
        /\ task'[t].pc \notin SavePc
    <2>1. task[t].pc \notin SavePc \cup UploadingPc \cup FinishPc
      BY DEF SavePc, UploadingPc, FinishPc
    <2>2. "idle" \notin SavePc
      BY DEF SavePc
    <2> QED
      BY <1>1, <2>1, <2>2, HandlerStep DEF SameSave, Idle
  <1>3. \/ files' = files
        \/ \E p \in task[t].doomed, f \in File :
              files' = [files EXCEPT ![p[1]][p[2]][f] = NoFile]
    BY DEF Step, GoOnline, CacheDir, CacheUpdate, CreateDir, CreateMarker, InsertUploading,
           RemoveMarker, RemoveUploading, MakeParent, CreateFile, WriteAll, RemoveEntry, RemoveDir,
           RemoveFailed, RemoveDone, IoError, disk
  <1>4. ASSUME NEW u \in Task, task'[u].pc \in SavePc
        PROVE  FileAt(files', contested', task'[u])
    <2>1. u # t /\ task'[u] = task[u] /\ task[u] \in TaskState
      BY <1>1, <1>2, <1>4 DEF TypeOK
    <2>2. /\ task[u].dom \in Domain /\ task[u].ver \in Version /\ task[u].file \in File
          /\ task[u].dom \in Touched(task[u])
      BY <1>4, <2>1, SaveTaskByPc, TouchedByPc
    <2>3. task[u].dom \notin Touched(task[t])
      BY <2>1, <2>2 DEF SerialInv, Exclusive, SavePc
    <2>4. files'[task[u].dom][task[u].ver][task[u].file]
             = files[task[u].dom][task[u].ver][task[u].file]
      <3>1. CASE files' = files
        BY <3>1
      <3>2. ASSUME NEW p \in task[t].doomed, NEW f \in File,
                   files' = [files EXCEPT ![p[1]][p[2]][f] = NoFile]
            PROVE  files'[task[u].dom][task[u].ver][task[u].file]
                      = files[task[u].dom][task[u].ver][task[u].file]
        <4>1. p[1] \in Domain /\ p[2] \in Version /\ task[u].dom # p[1]
          BY <1>1, <2>3
        <4> QED
          BY <1>1, <2>2, <3>2, <4>1, FilesType, OneChange
      <3> QED
        BY <1>3, <3>1, <3>2
    <2> QED
      BY <1>1, <2>1, <2>4, StillAt
  <1>5. ASSUME NEW u \in Task PROVE FileAt(files', contested', task'[u])
    <2>1. CASE task'[u].pc \in SavePc
      BY <1>4, <2>1
    <2>2. CASE task'[u].pc \notin SavePc
      BY <2>2 DEF FileAt, SavePc
    <2> QED
      BY <2>1, <2>2
  <1> QED
    BY <1>5 DEF FileInv, Noted

LEMMA KeptIsEnough == Kept => KeptOrMissed
  BY ClientAssumption DEF Kept, KeptOrMissed

LEMMA StepFiles ==
    ASSUME SerialInv, FileInv, Noted, NEW t \in Task, Step(t)
    PROVE  FileInv' /\ KeptOrMissed /\ Written(t)
  <1>1. TypeOK
    BY DEF SerialInv
  <1>2. CASE task[t].pc # "remove"
    BY <1>1, <1>2, FileStep, KeptIsEnough
  <1>3. CASE task[t].pc = "remove"
    <2>1. FileInv' /\ Written(t)
      BY <1>3, RemoveFileInv DEF Written
    <2>2. CASE RemoveEntry(t) \/ RemoveDir(t)
      BY <2>1, <2>2, RemoveCovered
    <2>3. CASE ~(RemoveEntry(t) \/ RemoveDir(t))
      <3>1. files' = files
        BY <1>3, <2>3 DEF Step, GoOnline, CacheDir, CacheUpdate, CreateDir, CreateMarker,
           InsertUploading, RemoveMarker, RemoveUploading, MakeParent, CreateFile, WriteAll,
           RemoveFailed, RemoveDone, IoError, disk
      <3> QED
        BY <2>1, <3>1, SameKept DEF KeptOrMissed
    <2> QED
      BY <2>2, <2>3
  <1> QED
    BY <1>2, <1>3

LEMMA ObserveNotes == TypeOK' /\ Observe => Noted
  BY WatchNotes DEF Observe

LEMMA AnswerOnline ==
    ASSUME SerialInv, TypeOK', ClientInv, OnlineInv, NEW t \in Task, Answer(t)
    PROVE  OnlineInv'
  <1>1. Serve(t) /\ Step(t) /\ Observe /\ Noted /\ TypeOK
    BY ObserveNotes DEF Answer, Serve, SerialInv
  <1>2. FileInv' /\ KeptOrMissed /\ Written(t)
    BY <1>1, StepFiles DEF OnlineInv
  <1>3. OwnInv' /\ AllMove
    BY <1>1, <1>2, ServePart DEF OnlineInv
  <1> QED
    BY <1>1, <1>2, <1>3, StepCovered, StepFinishCovered, OnlineInvStep

\* A request that leaves the disk as it is, and does not begin a Finish.
LEMMA QuietFinish ==
    ASSUME UNCHANGED disk,
           \A u \in Task : task'[u] = task[u] \/ task'[u].pc # "remove_marker"
    PROVE  FinishCovered
  BY QuietDisk DEF FinishCovered

LEMMA CommandOnline ==
    ASSUME SerialInv, TypeOK', ClientInv, OnlineInv,
           NEW t \in Task, ReleaseCommand(t) \/ DeleteCommand(t)
    PROVE  OnlineInv'
  <1>1. TypeOK
    BY DEF SerialInv
  <1>2. /\ \A u \in Task : u # t => task'[u] = task[u]
        /\ task[t] = Idle /\ task'[t].pc \in {"go_online", "remove"}
        /\ UNCHANGED <<disk, client, owner>>
        /\ Observe /\ Noted
    BY <1>1, CommandStarts, ObserveNotes DEF Command
  <1>3. FileInv' /\ Kept
    BY <1>1, <1>2, SameFiles DEF OnlineInv, disk, Open
  <1>4. OwnInv' /\ AllMove
    <2>1. owner[t] = NoClient
      BY ClientCommand
    <2>2. OwnInv'
      BY <1>2, <2>1, OwnStep, SameTask DEF OnlineInv
    <2> QED
      BY <1>2, <2>2, SameMoves DEF AllMove
  <1>5. Covered /\ FinishCovered
    BY <1>2, QuietDisk, QuietFinish
  <1> QED
    BY <1>1, <1>2, <1>3, <1>4, <1>5, KeptIsEnough, OnlineInvStep

\* The handler of a Finish finds what its client has counted.
LEMMA FinishFindsWhole ==
    ASSUME ClientInv, CountInv, Noted, Observe, NEW c \in Client, NEW v, v = client[c].ver,
           client[c].pc = "save", client[c].todo = {}, client' = client, files' = files
    PROVE  v \in Version /\ (v \in Unguarded' \/ Whole(v, files[Site][v])')
  <1>0. v \in Version /\ client[c].skipped \subseteq MaySkip
    BY DEF CountInv, RunAt
  <1>1. CASE c \in misled
    <2>1. c \in misled'
      BY <1>1 DEF Observe
    <2> QED
      BY <1>0, <2>1 DEF Unguarded
  <1>2. CASE c \notin misled
    <2>1. \A f \in Build[c] \ client[c].skipped : Here(files, contested, c, v, f)
      BY <1>2 DEF CountInv, Counts, Arrived
    <2>2. c \in Content
      BY ClientAssumption
    <2>3. Whole(v, files[Site][v])
      BY <1>0, <2>1, <2>2 DEF Whole, Here
    <2> QED
      BY <1>0, <2>3, StaysWhole
  <1> QED
    BY <1>0, <1>1, <1>2

LEMMA UploadOnline ==
    ASSUME SerialInv, TypeOK', ClientInv, OnlineInv, NEW c \in Client, Upload(c)
    PROVE  OnlineInv'
  <1>1. UploadStep(c) /\ Observe /\ Noted /\ TypeOK
    BY ObserveNotes DEF Upload, SerialInv
  <1>2. OwnInv' /\ AllMove
    BY <1>1, ClientPart DEF OnlineInv
  <1>3. CASE UNCHANGED vars
    <2>1. /\ FileInv' /\ Kept
          /\ UNCHANGED disk /\ task' = task
      BY <1>1, <1>3, FileStutter DEF OnlineInv, vars, disk
    <2> QED
      BY <1>1, <1>2, <2>1, QuietDisk, QuietFinish, KeptIsEnough, OnlineInvStep
  <1>4. ASSUME NEW t \in Task, StatusUploading(t, Site) \/ SaveFile(t, Site) PROVE OnlineInv'
    <2>1. FileInv' /\ Kept
      BY <1>1, <1>4, FileStart, ClientAssumption DEF OnlineInv
    <2>2. /\ \A u \in Task : u # t => task'[u] = task[u]
          /\ task'[t].pc \in {"create_dir", "make_parent"} /\ UNCHANGED disk
      BY <1>1, <1>4, StatusUploadingStarts, SaveFileStarts, ClientAssumption
    <2> QED
      BY <1>1, <1>2, <2>1, <2>2, QuietDisk, QuietFinish, KeptIsEnough, OnlineInvStep
  <1>5. ASSUME NEW t \in Task, StatusFinish(t, Site), Await(c, t),
               client[c].pc = "save", client[c].todo = {}
        PROVE  OnlineInv'
    <2>1. FileInv' /\ Kept
      BY <1>1, <1>5, FileStart, ClientAssumption DEF OnlineInv
    <2>2. /\ \A u \in Task : u # t => task'[u] = task[u]
          /\ UNCHANGED disk
      BY <1>1, <1>5, StatusFinishStarts, ClientAssumption
    <2>3. \/ task'[t].ver \in Unguarded'
          \/ \E v \in Version : v = task'[t].ver /\ Whole(v, files[Site][v])'
      <3>0. PICK v : v = client[c].ver
        OBVIOUS
      <3>1. v \in Version /\ (v \in Unguarded' \/ Whole(v, files[Site][v])')
        BY <1>1, <1>5, <2>2, <3>0, FinishFindsWhole DEF OnlineInv, Await, disk
      <3>2. task'[t].ver = v
        BY <1>5, <3>0 DEF Await
      <3> QED
        BY <3>1, <3>2
    <2>4. FinishCovered
      BY <2>2, <2>3, QuietDisk DEF FinishCovered
    <2> QED
      BY <1>1, <1>2, <2>1, <2>2, <2>4, QuietDisk, KeptIsEnough, OnlineInvStep
  <1>6. \/ UNCHANGED vars
        \/ \E t \in Task : StatusUploading(t, Site) \/ SaveFile(t, Site)
        \/ /\ \E t \in Task : StatusFinish(t, Site) /\ Await(c, t)
           /\ client[c].pc = "save" /\ client[c].todo = {}
    BY <1>1 DEF UploadStep, GetFileMetadata, ChangeToUploading, UploadFile, SomeFilesFailed,
                ChangeToFinish
  <1> QED
    BY <1>3, <1>4, <1>5, <1>6

\* Steps that leave the storage alone.
LEMMA StorageSleeps ==
    ASSUME TypeOK, TypeOK', OnlineInv, Observe, UNCHANGED vars, OwnInv', AllMove
    PROVE  OnlineInv'
  <1>0. Noted
    BY ObserveNotes
  <1>1. /\ FileInv' /\ Kept
        /\ UNCHANGED disk /\ task' = task
    BY <1>0, FileStutter DEF OnlineInv, vars, disk
  <1> QED
    BY <1>0, <1>1, QuietDisk, QuietFinish, KeptIsEnough, OnlineInvStep

LEMMA RestartOnline ==
    ASSUME TypeOK', ClientInv, OnlineInv, ProcessRestart
    PROVE  OnlineInv'
  <1>1. ServerRestart /\ Restart /\ Observe /\ Noted /\ TypeOK
    BY ObserveNotes DEF ProcessRestart, ServerRestart, ClientInv
  <1>2. OwnInv' /\ AllMove
    BY <1>1, ServerRestartPart
  <1>3. FileInv' /\ Kept
    BY <1>1, FileRestart
  <1>4. UNCHANGED disk /\ \A u \in Task : task'[u].pc # "remove_marker"
    BY <1>1 DEF Restart, Idle
  <1> QED
    BY <1>1, <1>2, <1>3, <1>4, QuietDisk, QuietFinish, KeptIsEnough, OnlineInvStep

LEMMA OnlineStutter ==
    TypeOK /\ OnlineInv /\ UNCHANGED <<allVars, history>> => OnlineInv'
  <1> SUFFICES ASSUME TypeOK, OnlineInv, UNCHANGED <<allVars, history>> PROVE OnlineInv'
    OBVIOUS
  <1>1. /\ UNCHANGED <<vdirs, marked, files, meta, uploading_status, cache, task>>
        /\ UNCHANGED <<client, owner, contested, misled, suspect>>
    BY DEF allVars, vars, clientVars, history
  <1>2. Unguarded' = Unguarded
    BY <1>1 DEF Unguarded, BeingRemoved
  <1>3. FileInv' /\ OwnInv' /\ WatchInv'
    BY <1>1, <1>2, FileStutter DEF OnlineInv, OwnInv, Own, WatchInv
  <1>4. CountInv'
    BY <1>1 DEF OnlineInv, CountInv, Counts, RunAt, Arrived, Here, Good
  <1>5. WholeInv' /\ FinishInv'
    BY <1>1 DEF OnlineInv, WholeInv, FinishInv, Trusted, Whole, Good
  <1> QED
    BY <1>3, <1>4, <1>5 DEF OnlineInv

LEMMA OnlineNext ==
    SerialInv /\ ClientInv /\ OnlineInv /\ [DeployNext]_deployVars => OnlineInv'
  <1> SUFFICES ASSUME SerialInv, ClientInv, OnlineInv, [DeployNext]_deployVars
               PROVE  OnlineInv'
    OBVIOUS
  <1>0. TypeOK /\ TypeOK'
    BY DeployClientInv DEF ClientInv
  <1>1. ASSUME NEW t \in Task, ReleaseCommand(t) \/ DeleteCommand(t) PROVE OnlineInv'
    BY <1>0, <1>1, CommandOnline
  <1>2. ASSUME NEW t \in Task, Answer(t) PROVE OnlineInv'
    BY <1>0, <1>2, AnswerOnline
  <1>3. ASSUME NEW t \in Task, AnswerLost(t) PROVE OnlineInv'
    <2>1. (LoseAnswer(t) \/ LoseSilently(t)) /\ UNCHANGED vars /\ Observe
      BY <1>3 DEF AnswerLost, LoseAnswer, LoseSilently
    <2> QED
      BY <1>0, <2>1, LoseAnswerPart, LoseSilentlyPart, StorageSleeps DEF OnlineInv
  <1>4. ASSUME NEW c \in Client, Upload(c) PROVE OnlineInv'
    BY <1>0, <1>4, UploadOnline
  <1>5. ASSUME NEW c \in Client, StartOrAbort(c) PROVE OnlineInv'
    <2>1. (GetUploadVersion(c) \/ Abort(c)) /\ UNCHANGED vars /\ Observe
      BY <1>5 DEF StartOrAbort, GetUploadVersion, Abort
    <2> QED
      BY <1>0, <2>1, ClientPart, StorageSleeps DEF OnlineInv
  <1>6. ASSUME ProcessRestart PROVE OnlineInv'
    BY <1>0, <1>6, RestartOnline
  <1>7. ASSUME Reloads \/ UNCHANGED deployVars PROVE OnlineInv'
    BY <1>0, <1>7, OnlineStutter DEF Reloads, ReloadCommand, ReloadSwap, ReloadDropped, deployVars
  <1> QED
    BY <1>1, <1>2, <1>3, <1>4, <1>5, <1>6, <1>7 DEF DeployNext, Reloads

\* What a storage shows that has filled its cache from a version.
LEMMA ShownIsStored ==
    ASSUME TypeOK, NEW v \in Version, NEW S, NEW F, F = CacheDirOf(Site, v, S)
    PROVE  Shown(v, F) = files[Site][v]
  <1>1. files[Site][v] \in [File -> Stored]
    BY ClientAssumption, FilesType
  <1>2. \A f \in File : files[Site][v][f] \in Stored
    BY <1>1
  <1>3. FileBlock \notin Stored /\ Dropped \notin Stored
    BY FileAssumption DEF Stored, FileBlock, Dropped, NoFile, Empty, Torn, Mixed
  <1>4. \A f \in File : Shown(v, F)[f] = files[Site][v][f]
    BY <1>2, <1>3 DEF Shown, CacheDirOf
  <1>5. Shown(v, F) = [f \in File |-> Shown(v, F)[f]]
    BY DEF Shown
  <1> QED
    BY <1>1, <1>4, <1>5

LEMMA WholeFromDisk ==
    ASSUME TypeOK, WholeInv, NEW v \in vdirs[Site] \ marked[Site],
           NEW S, NEW F, F = CacheDirOf(Site, v, S)
    PROVE  v \in suspect \/ Whole(v, Shown(v, F))
  <1>1. v \in Version
    BY ClientAssumption DEF TypeOK
  <1> QED
    BY <1>1, ShownIsStored DEF WholeInv, Trusted

\* DomainStorage::init.
LEMMA WholeFromInit ==
    ASSUME TypeOK, WholeInv, NEW v \in OptVersion, InitMeta(Site, v), NEW S
    PROVE  LET c == InitCache(Site, v, S)
           IN c.ver \in suspect \cup {None} \/ Whole(c.ver, Shown(c.ver, c.files))
  <1>1. CASE v = None
    BY <1>1 DEF InitCache, NotCached
  <1>2. CASE v # None
    <2>1. v \in vdirs[Site] \ marked[Site]
      BY <1>2 DEF InitMeta, IsMax
    <2>2. /\ InitCache(Site, v, S).ver = v
          /\ InitCache(Site, v, S).files = CacheDirOf(Site, v, S)
      BY <1>2 DEF InitCache
    <2> QED
      BY <2>1, <2>2, WholeFromDisk
  <1> QED
    BY <1>1, <1>2

\* The last step of a release.
LEMMA WholeFromRelease ==
    ASSUME SerialInv, WholeInv, NEW t \in Task, CacheUpdate(t), cache'[Site] # cache[Site]
    PROVE  \/ cache'[Site].ver \in suspect
           \/ Whole(cache'[Site].ver, Shown(cache'[Site].ver, cache'[Site].files))
  <1> DEFINE v == task[t].ver
  <1>1. task[t].pc = "cache_update" /\ task[t].dom \in Domain
    BY Alone DEF CacheUpdate
  <1>2. /\ task[t].dom = Site
        /\ cache'[Site] = [ver |-> v, files |-> task[t].snap]
    BY <1>1 DEF CacheUpdate, SerialInv, TypeOK
  <1>3. /\ v \in vdirs[Site] /\ uploading_status[Site] # v
        /\ \E S \in SUBSET Unreadable : task[t].snap = CacheDirOf(Site, v, S)
    <2>1. /\ v \in vdirs[Site] /\ uploading_status[Site] # v
          /\ Fills(task[t].snap, files[Site][v])
      BY <1>1, <1>2 DEF SerialInv, VersionTaskInv
    <2>2. \A C : Fills(C, files[Site][v]) => \E S \in SUBSET Unreadable : C = CacheDirOf(Site, v, S)
      BY CacheDirFills
    <2> QED
      BY <2>1, <2>2
  <1>4. v \notin marked[Site]
    <2>1. \A w \in marked[Site] : uploading_status[Site] = w
      BY <1>1, <1>2, Alone, QuietDomain
    <2> QED
      BY <1>3, <2>1
  <1> QED
    BY <1>2, <1>3, <1>4, WholeFromDisk DEF SerialInv

\* Nothing else replaces what the storage shows.
LEMMA CacheStep ==
    ASSUME [Next]_vars, cache' # cache
    PROVE  Restart \/ \E t \in Task : CacheUpdate(t)
  <1>1. ASSUME NEW t \in Task, Request(t) PROVE cache' = cache
    <2>1. ASSUME NEW d \in Domain, Release(t, d) \/ ReleaseLatest(t, d) PROVE cache' = cache
      BY <2>1 DEF Release, ReleaseLatest, ReleaseCheck
    <2>2. ASSUME NEW d \in Domain, StatusUploading(t, d) \/ StatusFinish(t, d) \/ SaveFile(t, d)
          PROVE  cache' = cache
      BY <2>2 DEF StatusUploading, StatusFinish, SaveFile
    <2>3. Delete(t) => cache' = cache
      BY DEF Delete
    <2> QED
      BY <1>1, <2>1, <2>2, <2>3 DEF Request
  <1>2. ASSUME NEW t \in Task, Step(t), ~CacheUpdate(t) PROVE cache' = cache
    <2>1. ASSUME GoOnline(t) \/ CacheDir(t) \/ CreateDir(t) \/ CreateMarker(t) PROVE cache' = cache
      BY <2>1 DEF GoOnline, CacheDir, CreateDir, CreateMarker
    <2>2. ASSUME InsertUploading(t) \/ RemoveMarker(t) \/ RemoveUploading(t) \/ IoError(t)
          PROVE  cache' = cache
      BY <2>2 DEF InsertUploading, RemoveMarker, RemoveUploading, IoError
    <2>3. ASSUME MakeParent(t) \/ CreateFile(t) \/ WriteAll(t) PROVE cache' = cache
      BY Zenon, <2>3 DEF MakeParent, CreateFile, WriteAll
    <2>4. ASSUME RemoveEntry(t) \/ RemoveDir(t) \/ RemoveFailed(t) \/ RemoveDone(t)
          PROVE  cache' = cache
      BY <2>4 DEF RemoveEntry, RemoveDir, RemoveFailed, RemoveDone
    <2> QED
      BY <1>2, <2>1, <2>2, <2>3, <2>4 DEF Step
  <1> QED
    BY <1>1, <1>2 DEF Next, vars

LEMMA CacheIsWhole ==
    ASSUME SerialInv, WholeInv, [DeployNext]_deployVars, cache'[Site] # cache[Site]
    PROVE  \/ cache'[Site].ver \in suspect \cup {None}
           \/ Whole(cache'[Site].ver, Shown(cache'[Site].ver, cache'[Site].files))
  <1>1. [Next]_vars
    BY DeployStorageStep
  <1>2. CASE Restart
    <2>1. PICK m \in [Domain -> OptVersion] : /\ \A d \in Domain : InitMeta(d, m[d])
                                              /\ meta' = m
      BY <1>2 DEF Restart
    <2>2. PICK S \in [Domain -> SUBSET Unreadable] :
             cache' = [d \in Domain |-> InitCache(d, meta'[d], S[d])]
      BY <1>2 DEF Restart
    <2>3. /\ cache'[Site] = InitCache(Site, m[Site], S[Site])
          /\ m[Site] \in OptVersion /\ InitMeta(Site, m[Site])
      BY <2>1, <2>2, ClientAssumption
    <2> QED
      BY <2>3, WholeFromInit DEF SerialInv
  <1>3. ASSUME NEW t \in Task, CacheUpdate(t)
        PROVE  \/ cache'[Site].ver \in suspect
               \/ Whole(cache'[Site].ver, Shown(cache'[Site].ver, cache'[Site].files))
    BY <1>3, WholeFromRelease
  <1> QED
    BY <1>1, <1>2, <1>3, CacheStep

LEMMA ReloadIsWhole ==
    ASSUME SerialInv, WholeInv, [DeployNext]_deployVars, reload' \notin {reload, NoReload}
    PROVE  \/ reload'.ver \in suspect \cup {None}
           \/ Whole(reload'.ver, Shown(reload'.ver, reload'.files))
  <1>1. ReloadCommand
    <2>1. ASSUME NEW t \in Task, ReleaseCommand(t) \/ DeleteCommand(t) PROVE reload' = reload
      BY <2>1 DEF ReleaseCommand, DeleteCommand, Command
    <2> QED
      BY <2>1 DEF DeployNext, Answer, AnswerLost, ReloadSwap, ReloadDropped, Upload, StartOrAbort,
                  ProcessRestart, deployVars
  <1>2. PICK v \in OptVersion, S \in SUBSET Unreadable :
           /\ InitMeta(Site, v)
           /\ LET c == InitCache(Site, v, S)
              IN reload' = [from |-> "reload", ver |-> c.ver, files |-> c.files]
    BY <1>1 DEF ReloadCommand
  <1> QED
    BY <1>2, WholeFromInit DEF SerialInv

LEMMA SiteInvInit == DeployInit => SerialInv /\ ClientInv /\ OnlineInv
  BY SerialInit, ClientInitInv, OnlineInit DEF DeployInit, ClientInit

LEMMA SiteInvNext ==
    ASSUME Serialised, NoUnderflow
    PROVE  SerialInv /\ ClientInv /\ OnlineInv /\ [DeployNext]_deployVars
              => (SerialInv /\ ClientInv /\ OnlineInv)'
  BY SerialNext, DeployStorageStep, DeployClientInv, OnlineNext

\* Visitors never get a part of a build for which a client is to blame:
\* whatever is lost, killed or restarted, and whoever uploads, releases,
\* deletes or reloads, what goes online is a whole build, unless a delete was
\* at it or a request wrote to it without the protection of a marker.  It
\* lacks the files that could not be read when the cache was filled and those
\* that a client's walk passed over, and a file that two saves had open at
\* once may hold anything.  Saves may overlap, other requests for one domain
\* must not.
THEOREM WholeOnline ==
    ASSUME Serialised, NoUnderflow
    PROVE  DeploySpec => OnlyWholeGoesOnline
  <1>1. DeploySpec => [](SerialInv /\ ClientInv /\ OnlineInv)
    BY SiteInvInit, SiteInvNext, PTL DEF DeploySpec
  <1>2. SerialInv /\ OnlineInv /\ [DeployNext]_deployVars =>
          [/\ cache'[Site] # cache[Site] =>
                \/ cache'[Site].ver \in suspect \cup {None}
                \/ Whole(cache'[Site].ver, Shown(cache'[Site].ver, cache'[Site].files))
           /\ reload' \notin {reload, NoReload} =>
                \/ reload'.ver \in suspect \cup {None}
                \/ Whole(reload'.ver, Shown(reload'.ver, reload'.files))]_deployVars
    BY CacheIsWhole, ReloadIsWhole DEF OnlineInv
  <1> QED
    BY <1>1, <1>2, PTL DEF DeploySpec, OnlyWholeGoesOnline

-----------------------------------------------------------------------------
(* Deletes by scripts, which send the query that the handler decodes.       *)

DoomedAsked ==
    \A t \in Task : task[t].pc = "remove" => \A p \in task[t].doomed : p[1] \in asked[t]

\* A delete only shrinks what it is to remove.
LEMMA DoomedStep ==
    ASSUME TypeOK, NEW t \in Task, Step(t), task'[t].pc = "remove"
    PROVE  task[t].pc = "remove" /\ task'[t].doomed \subseteq task[t].doomed
  <1>1. task[t].pc = "remove" /\ task'[t] # Idle
    BY HandlerStep DEF Idle, SameSave, SavePc, UploadingPc, FinishPc
  <1>2. task[t] \in RemoveTask /\ task \in [Task -> TaskState]
    BY <1>1, RemoveTaskByPc DEF TypeOK
  <1>3. RemoveEntry(t) \/ RemoveDir(t) \/ RemoveFailed(t) \/ RemoveDone(t)
    <2>1. ~(GoOnline(t) \/ CacheDir(t) \/ CacheUpdate(t) \/ IoError(t))
      BY <1>1 DEF GoOnline, CacheDir, CacheUpdate, IoError
    <2>2. ~(CreateDir(t) \/ CreateMarker(t) \/ InsertUploading(t))
      BY <1>1 DEF CreateDir, CreateMarker, InsertUploading
    <2>3. ~(RemoveMarker(t) \/ RemoveUploading(t))
      BY <1>1 DEF RemoveMarker, RemoveUploading
    <2>4. ~(MakeParent(t) \/ CreateFile(t) \/ WriteAll(t))
      BY <1>1, SaveLabelOf, SaveLabels
    <2> QED
      BY <2>1, <2>2, <2>3, <2>4 DEF Step
  <1>4. CASE RemoveEntry(t)
    BY <1>1, <1>4 DEF RemoveEntry
  <1>5. CASE RemoveDir(t) \/ RemoveFailed(t)
    <2>1. PICK p \in task[t].doomed :
             task' = [task EXCEPT ![t] = [task[t] EXCEPT !.doomed = task[t].doomed \ {p}]]
      BY <1>5 DEF RemoveDir, RemoveFailed, Forget
    <2> QED
      BY <1>1, <1>2, <2>1 DEF RemoveTask
  <1>6. CASE RemoveDone(t)
    BY <1>1, <1>2, <1>6 DEF RemoveDone, Respond
  <1> QED
    BY <1>3, <1>4, <1>5, <1>6

LEMMA DoomedCommand ==
    ASSUME TypeOK, AskedInv, DoomedAsked, By \subseteq {"script"},
           NEW t \in Task, ReleaseCommand(t) \/ DeleteCommand(t)
    PROVE  DoomedAsked'
  <1>1. \A u \in Task : u # t => task'[u] = task[u]
    BY CommandStarts
  <1>2. PICK D \in SUBSET Domain : Command(t, D)
    BY CommandStarts
  <1>3. ASSUME NEW u \in Task, u # t PROVE asked'[u] = asked[u]
    BY <1>2, <1>3 DEF Command, AskedInv
  <1>4. ASSUME task'[t].pc = "remove", NEW p \in task'[t].doomed PROVE p[1] \in asked'[t]
    <2>1. DeleteCommand(t)
      BY <1>4, ReleaseStarts, ClientAssumption DEF ReleaseCommand
    <2>2. PICK by \in By, E \in {Domain} \cup {{d} : d \in Domain}, r \in Reserve :
             LET q == Decoded(by, E, r)
             IN /\ Delete(t)
                /\ task'[t].doomed = {x \in q.domains \X Version :
                                         x[2] \in DeleteVersions(x[1], q.max_reserve)}
                /\ Command(t, E)
      BY <2>1 DEF DeleteCommand
    <2>3. Decoded(by, E, r).domains = E
      BY DEF Decoded
    <2>4. p \in E \X Version
      BY <1>4, <2>2, <2>3
    <2>5. asked'[t] = E
      BY <2>2 DEF Command, AskedInv
    <2> QED
      BY <2>4, <2>5
  <1> QED
    BY <1>1, <1>3, <1>4 DEF DoomedAsked

LEMMA DoomedNext ==
    ASSUME By \subseteq {"script"}
    PROVE  TypeInv /\ DoomedAsked /\ [DeployNext]_deployVars => DoomedAsked'
  <1> SUFFICES ASSUME TypeInv, DoomedAsked, [DeployNext]_deployVars PROVE DoomedAsked'
    OBVIOUS
  <1>0. TypeOK /\ AskedInv
    BY DEF TypeInv, ClientInv
  <1>1. ASSUME NEW t \in Task, ReleaseCommand(t) \/ DeleteCommand(t) PROVE DoomedAsked'
    BY <1>0, <1>1, DoomedCommand
  <1>2. ASSUME NEW t \in Task, Answer(t) PROVE DoomedAsked'
    <2>1. /\ Step(t)
          /\ asked' = [asked EXCEPT ![t] = IF task'[t] = Idle THEN {} ELSE asked[t]]
      BY <1>2 DEF Answer, Serve
    <2>2. /\ \A u \in Task : u # t => task'[u] = task[u] /\ asked'[u] = asked[u]
          /\ task'[t] # Idle => asked'[t] = asked[t]
      BY <1>0, <2>1, HandlerStep DEF AskedInv
    <2>3. ASSUME task'[t].pc = "remove", NEW p \in task'[t].doomed PROVE p[1] \in asked'[t]
      <3>1. task[t].pc = "remove" /\ p \in task[t].doomed /\ task'[t] # Idle
        BY <1>0, <2>1, <2>3, DoomedStep DEF Idle
      <3> QED
        BY <2>2, <3>1 DEF DoomedAsked
    <2> QED
      BY <2>2, <2>3 DEF DoomedAsked
  <1>3. ASSUME asked' = asked, \A t \in Task : task'[t] = task[t] \/ task'[t].pc # "remove"
        PROVE  DoomedAsked'
    BY <1>3 DEF DoomedAsked
  <1>4. ASSUME NEW c \in Client, Upload(c) \/ StartOrAbort(c) PROVE DoomedAsked'
    <2>1. asked' = asked
      BY <1>4 DEF Upload, StartOrAbort
    <2>2. \/ UNCHANGED vars
          \/ \E t \in Task : StatusUploading(t, Site) \/ StatusFinish(t, Site) \/ SaveFile(t, Site)
      BY <1>4, ClientRequest DEF Upload, StartOrAbort
    <2>3. \A t \in Task : task'[t] = task[t] \/ task'[t].pc # "remove"
      BY <1>0, <2>2, StatusUploadingStarts, StatusFinishStarts, SaveFileStarts, ClientAssumption
      DEF vars
    <2> QED
      BY <1>3, <2>1, <2>3
  <1>5. ASSUME NEW t \in Task, AnswerLost(t) PROVE DoomedAsked'
    BY <1>3, <1>5 DEF AnswerLost, LoseAnswer, LoseSilently, vars
  <1>6. ASSUME ProcessRestart PROVE DoomedAsked'
    BY <1>6 DEF ProcessRestart, ServerRestart, Restart, Idle, DoomedAsked
  <1>7. ASSUME Reloads \/ UNCHANGED deployVars PROVE DoomedAsked'
    BY <1>3, <1>7 DEF Reloads, ReloadCommand, ReloadSwap, ReloadDropped, deployVars, allVars, vars
  <1> QED
    BY <1>1, <1>2, <1>4, <1>5, <1>6, <1>7 DEF DeployNext, Reloads

\* Only the handler of a delete takes directories away.
LEMMA VersionGoes ==
    ASSUME TypeOK, DoomedAsked, [Next]_vars, NEW d \in Domain, NEW v \in vdirs[d], v \notin vdirs'[d]
    PROVE  \E t \in Task : d \in asked[t]
  <1>1. ASSUME NEW t \in Task, Request(t) PROVE vdirs' = vdirs
    <2>1. ASSUME NEW e \in Domain, Release(t, e) \/ ReleaseLatest(t, e) PROVE vdirs' = vdirs
      BY <2>1 DEF Release, ReleaseLatest, ReleaseCheck, disk
    <2>2. ASSUME NEW e \in Domain, StatusUploading(t, e) \/ StatusFinish(t, e) \/ SaveFile(t, e)
          PROVE  vdirs' = vdirs
      BY <2>2 DEF StatusUploading, StatusFinish, SaveFile, disk
    <2>3. Delete(t) => vdirs' = vdirs
      BY DEF Delete, disk
    <2> QED
      BY <1>1, <2>1, <2>2, <2>3 DEF Request
  <1>2. ASSUME NEW e, NEW w, vdirs' = [vdirs EXCEPT ![e] = vdirs[e] \cup {w}]
        PROVE  FALSE
    BY <1>2 DEF TypeOK
  <1>3. ASSUME NEW t \in Task, Step(t), ~RemoveDir(t)
        PROVE  \/ vdirs' = vdirs
               \/ vdirs' = [vdirs EXCEPT ![task[t].dom] = vdirs[task[t].dom] \cup {task[t].ver}]
    <2>1. ASSUME GoOnline(t) \/ CacheDir(t) \/ CacheUpdate(t) \/ CreateDir(t)
          PROVE  \/ vdirs' = vdirs
                 \/ vdirs' = [vdirs EXCEPT ![task[t].dom] = vdirs[task[t].dom] \cup {task[t].ver}]
      BY <2>1 DEF GoOnline, CacheDir, CacheUpdate, CreateDir, disk
    <2>2. ASSUME CreateMarker(t) \/ InsertUploading(t) \/ RemoveMarker(t) \/ RemoveUploading(t)
                 \/ IoError(t)
          PROVE  vdirs' = vdirs
      BY <2>2 DEF CreateMarker, InsertUploading, RemoveMarker, RemoveUploading, IoError, disk
    <2>3. MakeParent(t) =>
            vdirs' = [vdirs EXCEPT ![task[t].dom] = vdirs[task[t].dom] \cup {task[t].ver}]
      BY DEF MakeParent
    <2>4. ASSUME CreateFile(t) \/ WriteAll(t) PROVE vdirs' = vdirs
      BY Zenon, <2>4 DEF CreateFile, WriteAll
    <2>5. ASSUME RemoveEntry(t) \/ RemoveFailed(t) \/ RemoveDone(t) PROVE vdirs' = vdirs
      BY <2>5 DEF RemoveEntry, RemoveFailed, RemoveDone, disk
    <2> QED
      BY <1>3, <2>1, <2>2, <2>3, <2>4, <2>5 DEF Step
  <1>4. ~(UNCHANGED vars) /\ ~Restart
    BY DEF vars, Restart, disk
  <1>5. PICK t \in Task : RemoveDir(t)
    BY <1>1, <1>2, <1>3, <1>4 DEF Next
  <1>6. PICK p \in task[t].doomed : vdirs' = [vdirs EXCEPT ![p[1]] = vdirs[p[1]] \ {p[2]}]
    BY <1>5 DEF RemoveDir
  <1>7. p[1] = d
    BY <1>6 DEF TypeOK
  <1> QED
    BY <1>5, <1>7 DEF RemoveDir, DoomedAsked

\* When those who delete send the query that the handler decodes, a version
\* is deleted only of a domain that a delete in progress was asked for,
\* however requests overlap: what spa-client does instead is due to the body
\* it sends.
THEOREM ScriptsDeleteWhatTheyAsk ==
    ASSUME By \subseteq {"script"}
    PROVE  DeploySpec => OnlyAskedIsDeleted
  <1>1. DeployInit => TypeInv /\ DoomedAsked
    BY TypeInvInit DEF DeployInit, ClientInit, Init, DoomedAsked, Idle
  <1>2. TypeInv /\ DoomedAsked /\ [DeployNext]_deployVars => (TypeInv /\ DoomedAsked)'
    BY TypeInvNext, DoomedNext
  <1>3. TypeInv /\ DoomedAsked /\ [DeployNext]_deployVars =>
          [\A d \in Domain : vdirs[d] \subseteq vdirs'[d] \/ \E t \in Task : d \in asked[t]]_deployVars
    BY DeployStorageStep, VersionGoes DEF TypeInv, ClientInv
  <1> QED
    BY <1>1, <1>2, <1>3, PTL DEF DeploySpec, OnlyAskedIsDeleted

-----------------------------------------------------------------------------
(* Uploads, when versions are released and the server is reloaded meanwhile *)
(* but nobody deletes.                                                      *)

LEMMA ReleaseUpload ==
    ASSUME ClientInv, UploadInv, TypeOK', NEW t \in Task, ReleaseCommand(t)
    PROVE  UploadInv'
  <1>1. TypeOK
    BY DEF ClientInv
  <1>2. /\ \A u \in Task : u # t => task'[u] = task[u]
        /\ task[t] = Idle /\ task'[t].pc = "go_online"
        /\ UNCHANGED <<disk, client, owner>>
        /\ Observe /\ Noted
    BY <1>1, ReleaseStarts, ClientAssumption, ObserveNotes DEF ReleaseCommand, Command, clientVars
  <1>3. FileInv' /\ Kept
    BY <1>1, <1>2, SameFiles DEF UploadInv, disk, Open
  <1>4. OwnInv' /\ AllMove
    <2>1. owner[t] = NoClient
      BY ClientCommand
    <2>2. OwnInv'
      BY <1>2, <2>1, OwnStep, SameTask DEF UploadInv
    <2> QED
      BY <1>2, <2>2, SameMoves DEF AllMove
  <1>5. CompleteInv'
    BY <1>3, <1>4, CompleteStep DEF UploadInv
  <1>6. NoDelete'
    BY <1>2 DEF UploadInv, NoDelete
  <1> QED
    BY <1>3, <1>4, <1>5, <1>6 DEF UploadInv

\* By = {}: nobody deletes.
LEMMA UploadsNext ==
    ASSUME By = {}
    PROVE  ClientInv /\ UploadInv /\ [DeployNext]_deployVars => (ClientInv /\ UploadInv)'
  <1> SUFFICES ASSUME ClientInv, UploadInv, [DeployNext]_deployVars
               PROVE  ClientInv' /\ UploadInv'
    OBVIOUS
  <1>1. ClientInv' /\ TypeOK'
    BY DeployClientInv DEF ClientInv
  <1>2. CASE [ClientNext]_allVars
    BY <1>1, <1>2, UploadNext
  <1>3. ASSUME NEW t \in Task, ReleaseCommand(t) PROVE UploadInv'
    BY <1>1, <1>3, ReleaseUpload
  <1>4. ASSUME NEW t \in Task, DeleteCommand(t) PROVE FALSE
    BY <1>4 DEF DeleteCommand
  <1> QED
    BY <1>1, <1>2, <1>3, <1>4, DeployClientStep

\* Releases and reloads in the middle of it do not disturb an upload: when a
\* run ends with success, every file that its walk came to is on the server,
\* where it stays, and unless two saves had it open at once or it has no
\* bytes, it has the client's content.  Requests may overlap.
THEOREM UploadsStayComplete ==
    ASSUME By = {}
    PROVE  DeploySpec => []FinishedIsComplete
  <1>1. DeployInit => ClientInv /\ UploadInv
    BY ClientInitInv, UploadInit DEF DeployInit
  <1>2. ClientInv /\ UploadInv /\ [DeployNext]_deployVars => (ClientInv /\ UploadInv)'
    BY UploadsNext
  <1>3. UploadInv => FinishedIsComplete
    BY CompleteMeaning DEF UploadInv
  <1> QED
    BY <1>1, <1>2, <1>3, PTL DEF DeploySpec

\* With requests for one domain one after the other, beside saves.
MarksInv == SerialInv /\ ClientInv /\ UploadInv /\ MarkerInv

LEMMA MarksInit == DeployInit => MarksInv
  <1>1. DeployInit => ClientInit /\ Init
    BY DEF DeployInit, ClientInit
  <1>2. Init => MarkerInv
    BY DEF Init, MarkerInv, StatusOnDisk, MarkerMade, Idle
  <1> QED
    BY <1>1, <1>2, SerialInit, ClientInitInv, UploadInit DEF MarksInv

LEMMA MarksNext ==
    ASSUME Serialised, NoUnderflow, By = {}
    PROVE  MarksInv /\ [DeployNext]_deployVars => MarksInv'
  <1> SUFFICES ASSUME SerialInv, ClientInv, UploadInv, MarkerInv, [DeployNext]_deployVars
               PROVE  MarksInv'
    BY DEF MarksInv
  <1>1. SerialInv' /\ ClientInv' /\ UploadInv'
    BY SerialNext, DeployStorageStep, UploadsNext
  <1>2. NoDelete /\ TypeOK
    BY DEF UploadInv, SerialInv
  <1>3. CASE [ClientNext]_allVars
    BY <1>1, <1>2, <1>3, MarkerNext DEF MarksInv
  <1>4. ASSUME NEW t \in Task, ReleaseCommand(t) PROVE MarksInv'
    <2>1. /\ \A u \in Task : u # t => task'[u] = task[u]
          /\ task[t] = Idle /\ task'[t].pc = "go_online"
          /\ UNCHANGED <<disk, uploading_status>>
      BY <1>2, <1>4, ReleaseStarts, ClientAssumption DEF ReleaseCommand
    <2>2. MarkerInv'
      BY <2>1, MarkerQuiet DEF disk, Idle
    <2> QED
      BY <1>1, <2>2 DEF MarksInv
  <1>5. ASSUME NEW t \in Task, DeleteCommand(t) PROVE FALSE
    BY <1>5 DEF DeleteCommand
  <1> QED
    BY <1>3, <1>4, <1>5, DeployClientStep

\* Nor do they make a restart forget which version is uploading.
THEOREM RestartsResumeUploads ==
    ASSUME Serialised, NoUnderflow, By = {}
    PROVE  DeploySpec => RestartKnowsUploads
  <1>1. MarksInv /\ [DeployNext]_deployVars => MarksInv'
    BY MarksNext
  <1>2. MarksInv =>
          [Restart => \A d \in Domain :
              uploading_status[d] # None => uploading_status'[d] = uploading_status[d]
                                            \/ \E t \in Task : /\ task[t].pc = "remove_uploading"
                                                               /\ task[t].dom = d]_vars
    BY RestartFindsUpload DEF MarksInv, Finishing
  <1> QED
    BY <1>1, <1>2, MarksInit, PTL DEF DeploySpec, RestartKnowsUploads
=============================================================================
