----------------------------- MODULE Deployment -----------------------------
(***************************************************************************)
(* A site in operation: the uploads of UploadClient together with the      *)
(* other commands of spa-client (client/src/lib.rs, client/src/api.rs),    *)
(* which release a version, delete versions and reload the server.         *)
(*                                                                         *)
(* The admin server keeps the DomainStorage it was started with.  A reload *)
(* (server/src/lib.rs) makes another one from the disk as it is at that    *)
(* moment, whatever requests are at work on it, and when its 500 ms are    *)
(* over the visitors of the site get their files from that one: see        *)
(* HotReload for the listeners.  The new storage scans the disk in one     *)
(* step.                                                                   *)
(***************************************************************************)
EXTENDS UploadClient

CONSTANTS MaxCommand, \* bound: the commands given beside the uploads
          By          \* who sends delete requests: spa-client, or a script
                      \*   that sends the query which the handler decodes

ASSUME CommandAssumption == MaxCommand \in Nat
ASSUME ByAssumption == By \subseteq {"spa-client", "script"}

VARIABLES left,    \* how many commands are still given
          asked,   \* the domains named by the command a handler works for
          front,   \* where the static server has the files of Site from
          reload,  \* what the storage of a reload in flight has read for Site
          misled,  \* history: clients that count on files which a delete has
                   \*   been at since
          suspect  \* history: versions of Site on which a request has worked
                   \*   that no marker, put there since, protects

history == <<misled, suspect>>
deployVars == <<allVars, left, asked, front, reload, history>>

Shared == [from |-> "admin"]
NoReload == [from |-> "none"]
OwnStorage == [from : {"reload"}, ver : OptVersion, files : Cached]

-----------------------------------------------------------------------------
(* What visitors get. *)

Served == IF front = Shared THEN cache[Site] ELSE [ver |-> front.ver, files |-> front.files]

BeingRemoved(v) == \E t \in Task : task[t].pc = "remove" /\ <<Site, v>> \in task[t].doomed

\* The versions that a request works on without the protection of a marker:
\* it is about to write it, has a delete to do, or saves into a version whose
\* marker a delete has removed.  A misled client may send Finish for files
\* that are gone, which ends the protection of whatever upload is going on.
Unguarded ==
    {v \in Version :
       \/ \E t \in Task : /\ task[t].pc = "create_marker" /\ task[t].dom = Site
                          /\ task[t].ver = v
       \/ BeingRemoved(v)
       \/ /\ uploading_status[Site] = v /\ v \notin marked[Site]
          /\ \A t \in Task : task[t].pc = "remove_uploading" => task[t].dom # Site
       \/ \E c \in misled : client[c].ver = v}

\* Doubts end when the version is gone or an upload puts a marker there.
Observe ==
    /\ misled' = {c \in Client : /\ client'[c].pc = "save"
                                 /\ c \in misled \/ BeingRemoved(client[c].ver)'}
    /\ suspect' = ((suspect \ (marked'[Site] \ marked[Site])) \cup Unguarded') \cap vdirs'[Site]
    /\ WatchSaves

-----------------------------------------------------------------------------
(* The commands. *)

\* A command for domains D, whose request becomes handler t.
Command(t, D) ==
    /\ left > 0
    /\ left' = left - 1
    /\ asked' = [asked EXCEPT ![t] = D]
    /\ UNCHANGED <<clientVars, front, reload>>
    /\ Observe

ReleaseCommand(t) == (Release(t, Site) \/ ReleaseLatest(t, Site)) /\ Command(t, {Site})

\* The handler decodes the query of the URI.  spa-client sends its domain
\* and max_reserve as a JSON body instead, so that neither arrives.
Decoded(by, D, r) ==
    IF by = "script" THEN [domains |-> D, max_reserve |-> r]
                     ELSE [domains |-> Domain, max_reserve |-> None]

\* With domain = None in D = Domain.
DeleteCommand(t) ==
    \E by \in By, D \in {Domain} \cup {{d} : d \in Domain}, r \in Reserve :
       LET q == Decoded(by, D, r)
       IN /\ Delete(t)
          /\ task'[t].doomed = {p \in q.domains \X Version :
                                   p[2] \in DeleteVersions(p[1], q.max_reserve)}
          /\ Command(t, D)

\* reload_server: Config::load and DomainStorage::init.  One reload at a time
\* here; HotReload has those that overlap.
ReloadCommand ==
    /\ left > 0 /\ reload = NoReload
    /\ left' = left - 1
    /\ \E v \in OptVersion, S \in SUBSET Unreadable :
          /\ InitMeta(Site, v)
          /\ LET c == InitCache(Site, v, S)
             IN reload' = [from |-> "reload", ver |-> c.ver, files |-> c.files]
    /\ UNCHANGED <<allVars, asked, front, history>>

\* Mutant: the 500 ms run out though the reload they belong to was dropped.
SwapDropped ==
    /\ front' = reload
    /\ reload' = NoReload
    /\ UNCHANGED <<allVars, left, asked, history>>

\* The 500 ms are over, and the listeners of the generation before stop.
ReloadSwap ==
    /\ reload # NoReload
    /\ front' = reload
    /\ reload' = NoReload
    /\ UNCHANGED <<allVars, left, asked, history>>

\* The client hangs up, or a stop signal cannot be sent.
ReloadDropped ==
    /\ reload # NoReload
    /\ reload' = NoReload
    /\ UNCHANGED <<allVars, left, asked, front, history>>

-----------------------------------------------------------------------------
(* The steps of the uploads and of the handlers, beside the commands. *)

Answer(t) ==
    /\ Serve(t)
    /\ asked' = [asked EXCEPT ![t] = IF task'[t] = Idle THEN {} ELSE @]
    /\ UNCHANGED <<left, front, reload>>
    /\ Observe

Upload(c) == /\ UploadStep(c)
             /\ UNCHANGED <<left, asked, front, reload>>
             /\ Observe

StartOrAbort(c) == /\ GetUploadVersion(c) \/ Abort(c)
                   /\ UNCHANGED <<left, asked, front, reload>>
                   /\ Observe

AnswerLost(t) == /\ LoseAnswer(t) \/ LoseSilently(t)
                 /\ UNCHANGED <<left, asked, front, reload>>
                 /\ Observe

\* The new process has one storage again.
ProcessRestart ==
    /\ ServerRestart
    /\ asked' = [t \in Task |-> {}]
    /\ front' = Shared
    /\ reload' = NoReload
    /\ UNCHANGED left
    /\ Observe

-----------------------------------------------------------------------------
DeployInit ==
    /\ ClientInit
    /\ left = MaxCommand
    /\ asked = [t \in Task |-> {}]
    /\ front = Shared
    /\ reload = NoReload
    /\ misled = {}
    /\ suspect = {}

DeployNext ==
    \/ \E t \in Task : ReleaseCommand(t) \/ DeleteCommand(t) \/ Answer(t) \/ AnswerLost(t)
    \/ ReloadCommand \/ ReloadSwap \/ ReloadDropped
    \/ \E c \in Client : Upload(c) \/ StartOrAbort(c)
    \/ ProcessRestart

DeploySpec == DeployInit /\ [][DeployNext]_deployVars

\* A client that was started goes on and so do the handlers; nobody has to
\* give a command or start an upload.
DeployFairSpec == /\ DeploySpec
                  /\ \A c \in Client : WF_deployVars(Upload(c))
                  /\ \A t \in Task : WF_deployVars(Answer(t))

-----------------------------------------------------------------------------
(* Properties. *)

DeployTypeOK ==
    /\ ClientTypeOK
    /\ left \in 0 .. MaxCommand
    /\ asked \in [Task -> SUBSET Domain]
    /\ front \in OwnStorage \cup {Shared}
    /\ reload \in OwnStorage \cup {NoReload}
    /\ misled \subseteq {c \in Client : client[c].pc = "save"}
    /\ suspect \subseteq vdirs[Site]
    /\ \A t \in Task : asked[t] # {} => task[t] # Idle /\ owner[t] = NoClient

\* What a storage with version v and files F in its cache goes by: bytes in
\* memory, and on disk the files that are large or that it could not read.
Shown(v, F) ==
    [f \in File |-> IF F[f] \in {FileBlock, Dropped} THEN files[Site][v][f] ELSE F[f]]

\* Every file of some build has arrived in version v as F, and is whole
\* unless two saves had it open at once.  A client's walk may have passed
\* files over.
Whole(v, F) ==
    \E c \in Content : \A f \in IF c \in Client THEN Build[c] \ MaySkip ELSE File :
        F[f] # NoFile /\ (<<Site, v, f>> \in contested \/ Good(c, f, F[f]))

\* What goes online, by a release, a restart or a reload, is a whole build,
\* whatever was lost, killed or restarted before; visitors get all of it but
\* the files that could not be read.  The exception are versions that a
\* delete has begun to remove, or that a request without a marker works on
\* or was interrupted in.
OnlyWholeGoesOnline ==
    [][/\ cache'[Site] # cache[Site] =>
             \/ cache'[Site].ver \in suspect \cup {None}
             \/ Whole(cache'[Site].ver, Shown(cache'[Site].ver, cache'[Site].files))
       /\ reload' \notin {reload, NoReload} =>
             \/ reload'.ver \in suspect \cup {None}
             \/ Whole(reload'.ver, Shown(reload'.ver, reload'.files))]_deployVars

\* docs/guide/spa-client-command-line.md: delete $OPT_DOMAIN
\* $OPT_MAX_RESERVE.  Versions are deleted of the domains only that a delete
\* command in progress names.
OnlyAskedIsDeleted ==
    [][\A d \in Domain : vdirs[d] \subseteq vdirs'[d] \/ \E t \in Task : d \in asked[t]]_deployVars

\* docs/guide/spa-client-command-line.md: release tells the admin server to
\* release the specific domain version to public.  When it is answered with
\* success, that version is the one visitors get.
ReleasedIsServed ==
    [][\A t \in Task : task[t].pc = "cache_update" /\ Answer(t) /\ task[t].dom = Site
          => Served'.ver = task[t].ver]_deployVars

=============================================================================
