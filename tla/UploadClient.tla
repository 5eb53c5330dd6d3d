---------------------------- MODULE UploadClient ----------------------------
(***************************************************************************)
(* spa-client's upload command (client/src/upload_files.rs) run against    *)
(* the storage of DomainStorage, whose actions are the server's side of    *)
(* every request.                                                          *)
(*                                                                         *)
(* A run asks for the version to upload to and for the files that are      *)
(* there, sets the version to Uploading, saves its files in parallel with  *)
(* up to three tries each, and sets it to Finish when all were saved.  A   *)
(* request may fail on its way or lose its answer while the server goes    *)
(* on; the client may be killed and run again; the server may restart.     *)
(* The server may be at work on several saves of one file: of two clients, *)
(* or of one that has tried again.                                         *)
(***************************************************************************)
EXTENDS DomainStorage

CONSTANTS Client,       \* the machines that run spa-client
          Build,        \* the files in the directory of each client
          EmptyFile,    \* those of them that have no bytes
          MaySkip,      \* the files that the walk over it may pass over
          MayHang,      \* TRUE: the answer to a save may get lost unnoticed
          Site,         \* the domain they upload to
          GivenVersion, \* the versions that may be given on the command line
          MaxTry,       \* 3: `for retry in (0..3)'
          MaxRun        \* bound: how often one client is run

NoClient == "nobody"

\* The content of a file that is not empty says whose it is.
ASSUME ClientAssumption == /\ Client \subseteq Content /\ NoClient \notin Client
                           /\ Build \in [Client -> SUBSET File]
                           /\ EmptyFile \in [Client -> SUBSET File]
                           /\ MaySkip \subseteq File
                           /\ MayHang \in BOOLEAN
                           /\ Site \in Domain
                           /\ GivenVersion \subseteq ReqVersion
                           /\ {MaxTry, MaxRun} \subseteq Nat

VARIABLES client,   \* the state of each client's run
          owner,    \* the client that waits for the answer of a handler
          contested \* history: files that more than one save had open

clientVars == <<client, owner>>
allVars == <<vars, clientVars, contested>>

\* A run has files still to save, files that its walk has passed over, and
\* saves that it waits for though no answer will come.
Pc == {"off", "metadata", "uploading", "save", "ok", "failed"}
ClientState == [pc : Pc, run : 0 .. MaxRun, ver : OptVersion,
                todo : SUBSET File, skipped : SUBSET File, hung : SUBSET File,
                tries : [File -> 0 .. MaxTry]]

NewRun(n, v) == [pc |-> "metadata", run |-> n, ver |-> v, todo |-> {}, skipped |-> {},
                 hung |-> {}, tries |-> [f \in File |-> 0]]

DataOf(c, f) == IF f \in EmptyFile[c] THEN Empty ELSE c

Requests(c) == {t \in Task : owner[t] = c}
Running(c) == client[c].pc \in {"metadata", "uploading", "save"}

-----------------------------------------------------------------------------
(* What the two sides call a file, as the components of its path.  The     *)
(* server cuts the version directory and the slash after it off a path, the *)
(* client only its upload directory: its keys start with an empty component.*)

ServerKey(f) == <<f>>
ClientKey(f) == <<"", f>>

\* get_files_metadata, without the files (in S) that cannot be read.
FilesMetadata(v, S) ==
    {[path |-> ServerKey(f), md5 |-> files[Site][v][f]] :
         f \in {g \in File \ S : files[Site][v][g] # NoFile}}

\* Of the files that the walk has come to, those that are not on the server
\* with the same length and md5.
UploadingFiles(c, skipped, S) ==
    {f \in Build[c] \ skipped :
        [path |-> ClientKey(f), md5 |-> DataOf(c, f)] \notin FilesMetadata(client[c].ver, S)}

-----------------------------------------------------------------------------
(* The answers. *)

Set(c, s) == client' = [client EXCEPT ![c] = s]

\* The run ends with an error; what it has counted and waits for ends with it.
Failed(s) == [s EXCEPT !.pc = "failed", !.hung = {}, !.tries = [f \in File |-> 0]]

\* Mutant: a failed try is not counted.
TriedForever(s, F) == s

TriedAgain(s, F) == [s EXCEPT !.tries = [f \in File |-> IF f \in F THEN @[f] + 1 ELSE @[f]]]

\* An error, or no answer, to requests T of one client: its saves have used
\* a try, any other request ends the run.
AfterError(s, T) ==
    IF T = {} THEN s
    ELSE IF \A t \in T : task[t].pc \in SavePc
    THEN TriedAgain(s, {task[t].file : t \in T})
    ELSE Failed(s)

AfterOk(s, t) ==
    CASE task[t].pc \in SavePc -> [s EXCEPT !.todo = @ \ {task[t].file}]
      [] task[t].pc = "insert_uploading" -> [s EXCEPT !.pc = "save"]
      [] task[t].pc = "remove_uploading" -> [s EXCEPT !.pc = "ok"]

\* The last step of a handler succeeds unless a write was cut short, and so
\* does the write of nothing to a file that was there.  (A write over other
\* content that fails is a LoseAnswer before it.)
AnswersOk(t) ==
    \/ task[t].pc \in {"insert_uploading", "remove_uploading"}
    \/ /\ task[t].pc = "write_all"
       /\ task[t].data = Empty \/ files'[Site][task[t].ver][task[t].file] # Torn
    \/ /\ task[t].pc = "make_parent"
       /\ task[t].data = Empty /\ files[Site][task[t].ver][task[t].file] # NoFile

\* A handler goes on; when it ends its client gets the answer.
Serve(t) ==
    /\ Step(t)
    /\ IF task'[t] = Idle /\ owner[t] # NoClient
       THEN LET c == owner[t]
            IN /\ Set(c, IF AnswersOk(t) THEN AfterOk(client[c], t)
                                         ELSE AfterError(client[c], {t}))
               /\ owner' = [owner EXCEPT ![t] = NoClient]
       ELSE UNCHANGED clientVars

\* The connection breaks, or the blocking client runs into its timeout: an
\* error for the client, nothing for the handler.
LoseAnswer(t) ==
    /\ owner[t] # NoClient
    /\ Set(owner[t], AfterError(client[owner[t]], {t}))
    /\ owner' = [owner EXCEPT ![t] = NoClient]
    /\ UNCHANGED vars

\* The async client, which sends the saves, has no timeout: an answer that
\* gets lost without an error is waited for until the run is killed.
LoseSilently(t) ==
    /\ MayHang
    /\ owner[t] # NoClient /\ task[t].pc \in SavePc
    /\ LET c == owner[t] IN Set(c, [client[c] EXCEPT !.hung = @ \cup {task[t].file}])
    /\ owner' = [owner EXCEPT ![t] = NoClient]
    /\ UNCHANGED vars

ServerRestart ==
    /\ Restart
    /\ client' = [c \in Client |-> AfterError(client[c], Requests(c))]
    /\ owner' = [t \in Task |-> NoClient]

-----------------------------------------------------------------------------
(* A run of upload_files. *)

\* get_upload_version: the one given, or the server's upload position.
GetUploadVersion(c) ==
    /\ ~Running(c) /\ client[c].pc # "ok"
    /\ client[c].run < MaxRun
    /\ \E v \in ReqVersion :
          /\ v \in GivenVersion \/ IsUploadPosition(Site, v)
          /\ Set(c, NewRun(client[c].run + 1, v))
    /\ UNCHANGED <<vars, owner>>

GetFileMetadata(c) ==
    /\ client[c].pc = "metadata"
    /\ \E skipped \in SUBSET MaySkip, S \in SUBSET Unreadable :
          LET F == UploadingFiles(c, skipped, S)
          IN Set(c, [client[c] EXCEPT !.todo = F, !.skipped = skipped,
                                      !.pc = IF F = {} THEN "failed" ELSE "uploading"])
    /\ UNCHANGED <<vars, owner>>

\* The request reaches the storage, and c waits for handler t.
Await(c, t) ==
    /\ task'[t].ver = client[c].ver
    /\ owner' = [owner EXCEPT ![t] = c]
    /\ UNCHANGED client

ChangeToUploading(c) ==
    /\ client[c].pc = "uploading"
    /\ Requests(c) = {}
    /\ \/ \E t \in Task : StatusUploading(t, Site) /\ Await(c, t)
       \/ /\ InUploadProcess(Site, client[c].ver)
          /\ Set(c, [client[c] EXCEPT !.pc = "save"])
          /\ UNCHANGED <<vars, owner>>
       \/ /\ uploading_status[Site] \notin {client[c].ver, None}
          /\ Set(c, Failed(client[c]))
          /\ UNCHANGED <<vars, owner>>

\* One try of retry_upload: it reaches the storage, or is refused there or
\* fails before.
UploadFile(c, f) ==
    /\ client[c].pc = "save"
    /\ f \in client[c].todo \ client[c].hung
    /\ client[c].tries[f] < MaxTry
    /\ \A t \in Requests(c) : task[t].file # f
    /\ \/ \E t \in Task : /\ SaveFile(t, Site) /\ Await(c, t)
                          /\ task'[t].file = f /\ task'[t].data = DataOf(c, f)
       \/ Set(c, TriedAgain(client[c], {f})) /\ UNCHANGED <<vars, owner>>

AllTried(c) == \A f \in client[c].todo : client[c].tries[f] = MaxTry

SomeFilesFailed(c) ==
    /\ client[c].pc = "save"
    /\ Requests(c) = {}
    /\ client[c].todo # {} /\ AllTried(c)
    /\ Set(c, Failed(client[c]))
    /\ UNCHANGED <<vars, owner>>

\* Mutant: the run goes on to Finish when every file has been tried.
FinishWhenTried(c) ==
    /\ client[c].pc = "save"
    /\ Requests(c) = {}
    /\ AllTried(c)
    /\ \E t \in Task : StatusFinish(t, Site) /\ Await(c, t)

ChangeToFinish(c) ==
    /\ client[c].pc = "save"
    /\ Requests(c) = {}
    /\ client[c].todo = {}
    /\ \/ \E t \in Task : StatusFinish(t, Site) /\ Await(c, t)
       \/ /\ uploading_status[Site] \notin {client[c].ver, None}
          /\ Set(c, Failed(client[c]))
          /\ UNCHANGED <<vars, owner>>

\* Mutant: the requests of a run that has ended are still waited for.
AbortKeepsRequests(c) ==
    /\ Running(c)
    /\ Set(c, Failed(client[c]))
    /\ UNCHANGED <<vars, owner>>

\* A request other than a save gets no connection, or the client is killed.
Abort(c) ==
    /\ Running(c)
    /\ Set(c, Failed(client[c]))
    /\ owner' = [t \in Task |-> IF owner[t] = c THEN NoClient ELSE owner[t]]
    /\ UNCHANGED vars

-----------------------------------------------------------------------------
(* Saves that overlap.  Between the probe of save_file and the end of its   *)
(* write, a save counts on having its file for itself.                      *)

Target(s) == <<s.dom, s.ver, s.file>>

OpenTwice ==
    {x \in Domain \X Version \X File :
        \E t, u \in Task : /\ t # u
                          /\ {task[t].pc, task[u].pc} \subseteq {"create_file", "write_all"}
                          /\ Target(task[t]) = x /\ Target(task[u]) = x}

\* What such saves leave behind is in doubt until it is deleted.
WatchSaves ==
    contested' = OpenTwice' \cup {x \in contested : files'[x[1]][x[2]][x[3]] # NoFile}

-----------------------------------------------------------------------------
ClientInit ==
    /\ Init
    /\ client = [c \in Client |-> [NewRun(0, None) EXCEPT !.pc = "off"]]
    /\ owner = [t \in Task |-> NoClient]
    /\ contested = {}

UploadStep(c) ==
    \/ GetFileMetadata(c) \/ ChangeToUploading(c)
    \/ \E f \in File : UploadFile(c, f)
    \/ SomeFilesFailed(c) \/ ChangeToFinish(c)

ClientNext ==
    /\ \/ \E c \in Client : GetUploadVersion(c) \/ UploadStep(c) \/ Abort(c)
       \/ \E t \in Task : Serve(t) \/ LoseAnswer(t) \/ LoseSilently(t)
       \/ ServerRestart
    /\ WatchSaves

ClientSpec == ClientInit /\ [][ClientNext]_allVars

\* A client that was started goes on; nothing obliges anyone to start one.
ClientFairSpec == /\ ClientSpec
                  /\ \A c \in Client : WF_allVars(UploadStep(c) /\ WatchSaves)
                  /\ \A t \in Task : WF_allVars(Serve(t) /\ WatchSaves)

-----------------------------------------------------------------------------
(* Properties. *)

ClientTypeOK ==
    /\ TypeOK
    /\ client \in [Client -> ClientState]
    /\ owner \in [Task -> Client \cup {NoClient}]
    /\ contested \subseteq Domain \X Version \X File
    /\ \A t \in Task : owner[t] # NoClient => task[t] # Idle /\ Running(owner[t])

\* What client c expects of its file f.  Where another file was already, an
\* empty one leaves that as it is.
Good(c, f, w) == IF c \in Client /\ f \in EmptyFile[c] THEN w # NoFile ELSE w = c

\* When spa-client reports success, every file that its walk has come to is
\* on the server, whatever was retried, lost or restarted, and stays there
\* when others are sent to the same version.  It has the client's content,
\* unless two saves had it open at once.
FinishedIsComplete ==
    \A c \in Client : client[c].pc = "ok" =>
       \A f \in Build[c] \ client[c].skipped :
          LET w == files[Site][client[c].ver][f]
          IN /\ w # NoFile
             /\ <<Site, client[c].ver, f>> \in contested \/ Good(c, f, w)

\* docs/guide/uploading-file-process.md: with the metadata the client decides
\* which files should be uploaded and which not.  A file that is on the
\* server, and can be read there, is not sent again.
OnlyMissingFiles ==
    [][\A c \in Client : GetFileMetadata(c) =>
          \A f \in client'[c].todo \ Unreadable :
             files[Site][client[c].ver][f] # DataOf(c, f)]_allVars

\* A run of the client ends, with success or an error, unless the answer to
\* a save gets lost unnoticed.
EveryRunEnds == \A c \in Client : Running(c) ~> ~Running(c)
=============================================================================
