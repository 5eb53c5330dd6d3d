# spa-server in TLA+

spa-server serves single-page applications: versions of static files per domain,
uploaded and put online through an admin server, with the online version cached
in memory and a static server that can be reloaded without interruption. These
modules model its storage, its static server with what is decided before a file
is looked up (configuration, certificates, CORS), its hot reload and the
commands of its client, check them with TLC and prove the main results with
TLAPS. Paths below are relative to the repository; every definition that models
code is listed with its lines in `PROJECT.json` under `map`.

## The system

| part | code | state | operations | modelled in |
|---|---|---|---|---|
| DomainStorage | `server/src/domain_storage.rs` | on disk `domain/version/…` and the marker `.SPA-Processing`; in memory `meta` (online version), `uploading_status` | init, release, Uploading/Finish, save, delete, position, metadata | `DomainStorage` |
| FileCache | `server/src/file_cache.rs` | `data`: the files served per domain | `cache_dir`, `update`, `get_item` | `DomainStorage` |
| Admin server | `server/src/admin_server.rs` | none of its own; holds one `DomainStorage` | an HTTP handler per operation, cron delete | handlers with the part they call; what reaches `/files/delete` in `Deployment` |
| Hot reload | `server/src/lib.rs`, `hot_reload.rs`, `server.rs` | the stop-signal senders of the current listeners; the listeners | `/reload`, listener start and stop | `HotReload`; the storages of two generations in `Deployment` |
| spa-client | `client/src/upload_files.rs`, `api.rs`, `lib.rs` | the run of an upload | upload, release, delete, reload | `UploadClient` (upload), `Deployment` (all) |
| Static file service | `server/src/service.rs`, `static_file_filter.rs` | none (reads the cache) | answer a GET | `StaticService` |
| Configuration, CORS, TLS | `config.rs`, `server.rs`, `cors.rs`, `tls.rs`, `service.rs` | the settings and certificates of a listener; the state of a connection | load certificates, accept, handshake, preflight, decide a request | `FrontDoor` |
| JS binding, packaging | `jsclient/`, `docker/`, … | – | – | not modelled |

The admin server runs on a multi-threaded runtime. Its handlers call the
storage directly; the storage's maps are `DashMap`s, each access atomic by
itself, and no lock is held over two accesses or over a file-system call. So
handlers interleave between any two accesses, and the process can stop between
any two. The static server reads only the cache (and, for large files, the path
the cache holds). `/reload` makes a second static server, with a second
storage, beside the first, waits 500 ms and stops the first; the admin server
keeps the storage it was started with. A connection keeps the configuration and
certificates of the listener that accepted it.

What makes each part correct:

* **storage** – a version that is receiving files is not online; the version
  reported is the one served; the online version stays on disk as it was
  cached; the cache holds all of it but the files that could not be read when
  it was filled; a restart knows the upload in progress and never goes back to
  an older version.
* **static service** – an answer is the asked part of one file; a file of the
  online version is found whatever goes on with the others; a browser that
  revalidates its copy shows the online version.
* **hot reload** – a reload interrupts no port the configuration keeps; no
  generation is left running that nobody can stop; old generations stop; a
  reload that reports success serves what the disk and the configuration say.
* **front door** – a script of another site reads a file only where CORS allows
  it, whatever the browser remembers; a domain is reached with its own
  certificate.
* **upload client** – success means the server has every file that the client's
  walk has come to, with its content where no two saves met on the file; a run
  ends where no answer is lost in silence; what is there is not sent again.
* **deployment** – only a whole build goes online, and visitors get all of it but
  what the server cannot read; a release is seen by visitors; a delete removes
  what it was asked to.

The hard behaviours (check-then-act between maps and disk, crashes between two
file-system calls, retries after lost answers, overlapping and cancelled
reloads, `u32` arithmetic) are listed one by one under `hazards` in
`PROJECT.json`, with the properties that cover each.

## Modules

**`DomainStorage`** – the core. `vdirs`, `marked` and `files` are the disk,
`meta`, `uploading_status` and `cache` the memory, `task` the handlers in
flight with their program counter and locals. A request is accepted by the step
that makes its first access (`ReleaseCheck`, `StatusUploading`, `StatusFinish`,
`SaveFile`, `Delete`); each further access is a step of its own, in the order
of the code:

| request | steps |
|---|---|
| `POST /update_version` | `ReleaseCheck` → `GoOnline` (is_dir, meta.insert) → `CacheDir` → `CacheUpdate` |
| `POST /files/upload_status` Uploading | `StatusUploading` → `CreateDir` → `CreateMarker` → `InsertUploading` |
| `POST /files/upload_status` Finish | `StatusFinish` → `RemoveMarker` → `RemoveUploading` |
| `POST /file/upload` | `SaveFile` → `MakeParent` → `CreateFile` → `WriteAll` |
| `POST /files/delete` | `Delete` (snapshot) → `RemoveEntry`\* → `RemoveDir` or `RemoveFailed`, per version → `RemoveDone` |

`IoError` is the `?` after a file-system call, `Torn` a write cut short,
`Restart` a stop at any point followed by `DomainStorage::init`. A request that
is refused changes nothing and is a stuttering step.

Where a cache is filled (`CacheDir`, `Restart`, and a reload in `Deployment`) the
walk leaves out what it cannot walk to, open or read (`file_cache.rs:106-114`)
and nobody learns of it: any subset of the files in `Unreadable` is `Dropped`
each time. Visitors get nothing for such a file although it is on disk.

A save probes for its file first. What exists is opened for reading only, so
that a body with bytes fails; an empty body writes nothing, is answered with
200, and the file keeps what it holds (`MakeParent`, `domain_storage.rs:307-309`).
Between the probe and the write a second save of the same file may pass its own
probe: `CreateFile` then truncates what the other has written, and `WriteAll`
leaves one content, the other, or bytes of both (`Overwritten`, `Mixed`).

The constant `Serialised` names an environment assumption: requests for one
domain do not overlap, except that saves may overlap each other, of different
files or of the same one. The safety of the storage depends on it;
`storage_race`, with `Serialised = FALSE`, shows how for one of its properties.

**`HotReload`** – generations of the static server. `listener[g][l]` is the life
of a listener, `signal[g][l]` the sender of its oneshot stop signal, `manager`
the generation whose senders `HotReloadManager` owns, `reload` the requests
between their spawn and their swap. Dropping a sender stops a listener as
sending does (`rx.await.ok()`), and sending fails when the listener is gone;
both matter for failed and cancelled reloads. What the storages of the
generations hold is left to `Deployment`. `StartsInTime` names the assumption
behind the 500 ms sleep, `MayBreak` the listeners that can fail to start (port
taken, certificate unreadable).

**`UploadClient`** – EXTENDS `DomainStorage` and composes it with clients: every
server-side step is an action of `DomainStorage`, `owner` says which client
waits for which handler, and the client's own state follows `upload_files` from
`get_upload_version` to Finish. Requests and answers are lost (`UploadFile`'s
second disjunct, `LoseAnswer`), clients are killed and run again, the server
restarts. The client that sends the saves has no timeout, so the answer to a
save can also get lost with no error (`LoseSilently`, where `MayHang`): the file
is `hung`, and the run waits for it until it is killed. The walk over the
client's directory passes over entries it cannot read (`upload_files.rs:56-58`):
a run leaves out any `skipped` subset of `MaySkip` and reports success all the
same. Files in `EmptyFile` have no bytes. `contested` is history: the files that
two saves had open at once. A client's key for a file is modelled as the
sequence of its path components, because the two sides cut a different prefix
off.

**`VersionStore`** – what the storage promises, without its maps and handlers:
per domain the version directories, the version online and the files visitors
get. A step changes a directory that is not online (`Change`), puts a complete
version online as a whole (`PutOnline`) or is a start (`Reload`).
What is put online is all of a complete version but the files in a subset of
`Unreadable` (`Readable`).
`DomainStorage` maps its state to it (`StoreDir`, `StoreOnline`, and `Visible`,
which reads a `FileBlock` from the disk as a visitor's request does and finds
nothing for what was `Dropped`), and
`ImplementsStore` says that every step of a handler is one of these or a
stutter.

**`StaticService`** – EXTENDS `VersionStore`: the static server relies on what
the abstract store promises and on nothing else of the storage. A GET takes the
cache item of a file; an answer from memory is made in that step, a file is
opened in a later one (`GetFile` → `OpenFile`), after which anything may have
happened to its version. Ranges are `bytes_range` on half-open intervals,
compared with RFC 9110; contents differ in length so that the file block, the
compressed and the plain form are all met. The visitor's browser keeps one copy
with its `Last-Modified` and asks with `If-Modified-Since`. Three constants name
assumptions on the environment: `SecondsApart` (no two versions written within
one second, the resolution of HTTP dates), `InOrder` (versions go online in the
order of writing) and `OpensInTime` (a version number is not used again between
a look-up and the opening of its file).

**`Deployment`** – EXTENDS `UploadClient`: a site in operation. Beside the
uploads, whose steps it takes over whole, releases, deletes and reloads are
given at any time (`ReleaseCommand`, `DeleteCommand`, `ReloadCommand`). A reload
reads the disk into a storage of its own with `DomainStorage`'s `InitMeta` and
`InitCache` while handlers are at work (`reload`), and the swap makes that one
the storage visitors are served from (`front`), while the admin server goes on
with the first one. `Decoded` is what arrives of a delete's arguments. `asked`,
`suspect` and `misled` are history: which domains the request of a handler
names, which versions a request has worked on without the protection of a
marker, and which clients count on files that a delete has been at since they
were saved.

**`FrontDoor`** – what a request meets before the look-up of a file. A
configuration (`conf`, any of `Configs` after a reload) has settings of its own
per domain, `Unset` or not, and SSL sections that may be unreadable;
`AllowCors`, `RedirectToHttps`, `Loads`, `Resolve` (which is `AlwaysResolve` or
`CertResolve`, as `tls.rs` chooses between its two resolvers), `PreflightReply` and
`CreateService` are the functions of the code on it. A connection is accepted
with the configuration in force, shakes hands and is used, each a step, with
reloads in between; the graceful shutdown of hyper closes it after the request
it waits for. The browser on the other side is external: it asks preflights
before requests that need them, remembers their answers, keeps copies of files
and takes a copy only for the origin it was sent to.

**`DomainStorageProofs`**, **`StorageRefinement`**, **`HotReloadProofs`**,
**`UploadClientProofs`**, **`DeploymentProofs`**, **`StaticServiceProofs`**,
**`FrontDoorProofs`** – theorems. **`MC*`** – symmetry sets and constant values
for the `.cfg` files.

## Runs

| run | question | result |
|---|---|---|
| `storage_serial` | do disk, `meta`, `uploading_status` and cache agree through every operation, error, unreadable file and restart, is there one upload per domain, and do the handlers implement `VersionStore`? | holds |
| `storage_race` | can overlapping requests leave a marked version online? | yes |
| `reload_fair` | is service uninterrupted where the new listeners start, do old generations stop, and is none forgotten, whatever fails? | holds |
| `reload_cert` | does 200 mean the listeners listen? | no |
| `upload_two` | does success mean complete, and does a restart go on with the upload, with two clients that may save one file at once, an empty file, files passed over and every loss? | holds, but for the content of files in `contested` |
| `upload_resume` | does a second run send only what is missing? | no |
| `deploy` | with releases, deletes, reloads, losses and restarts at any time, does only a whole build go online, of which visitors get all that can be read, and does every run of the client end? | holds, but for the versions named in `suspect` |
| `deploy_reload` | does a release after a reload reach the served storage? | no |
| `command_delete` | does `spa-client delete` remove only what it names? | no: its arguments are sent where the handler does not look |
| `service_get` | is every answer the asked part of one file of the right version, and does revalidation keep a browser up to date, when versions go online in order? | holds |
| `service_rollback` | the same for the browser, when an older version is released again | no: it is told 304 and keeps the newer version |
| `front` | across reloads, does CORS decide what scripts read, and is a domain reached with its own certificate? | holds |

The runs answered against the documentation are `violation` runs; `findings` in
`PROJECT.json` quotes the line each contradicts.

The model also has behaviours that no run states a property against (they are
under `hazards`), for most of them because no page or comment promises
otherwise. Files: one that the walk of a release, start or reload cannot read is
missing for visitors though the request succeeds; two saves that have one file
open at once both answer 200 and leave either content or a mixture
(`FinishedIsComplete` and `OnlyWholeGoesOnline` except the files in `contested`
by name); an empty file saved over another one answers 200 and changes nothing
(both properties expect of an empty file only that some file is there); a file
that the client's walk passes over is not uploaded by a run that succeeds. The
storage: a process that stops between `create_dir_all` and the marker leaves an
unmarked, empty version which the next `init` puts online (`OnlyWholeGoesOnline`
excepts it by name); a delete whose `max_reserve` exceeds the current version
wraps around and removes the directory of the online version (`WrappingSub`;
`docs/guide/spa-server-api.md:109-112` explains `max_reserve = 1` as `keep 2
versions`; by that a larger one should keep more. No run has such a reserve:
with one added to `storage_serial` TLC finds `OnlineMatchesDisk` violated, and
the theorems exclude it as `NoUnderflow`); version 0 is online only until a
restart; two overlapping releases can leave `meta` on one version and the cache
on the other; one SSL file that cannot be loaded, of any domain, takes https
away from all of them; a redirect to https is given only to requests in absolute
form; a delete removes the version that is uploading, marker included, after
which a restart does not know of the upload; two clients of one domain are told
the same upload position and can fill one version together; when a delete
removes that version after the first client has saved everything and the second
one then makes it anew, the Finish of the first takes the second's marker away
and the empty version can go online (`OnlyWholeGoesOnline` excepts the versions
of `misled` clients by name); a suffix range (`bytes=-n`, left out of `Ranges`)
is answered with the first n + 1 bytes.

**What the runs do not catch.** With `Serialised`, the overlaps of a release, an
Uploading request, a delete or a Finish on one domain are excluded. So
`StatusTellsOnline` does not see two overlapping releases, `OneUpload` two
overlapping Uploading requests, and `OnlineMatchesDisk` neither a save or a
delete that goes on beside a release nor a reserve that underflows;
`RestartKnowsUploads` does not see a delete of the uploading version, as its runs
have no deletes. Only the overlap of release and Uploading has a run of its
own, `storage_race`. The exception for `suspect` versions in
`OnlyWholeGoesOnline` is what a delete, a crash before the marker, or an
interrupted delete can put online; that for `contested` files is what two saves
at once can. `StaticService` rests on `VersionStore`, whose `Change` leaves the
version online alone; after a reload the admin server does not know the version
online and a delete may remove it, so that `OnlineIsFound` speaks of a server
before its first reload.

**Bounds.** Two versions are enough for every relation between an online, an
uploading and a deleted version; `storage_serial` uses 1 and 3 with `U32Max = 3`
so that a gap, a reserve of 0 and 1 and the wrap of the position occur. Two
handlers are enough for every race of two requests, two files for parallel saves
and for a directory half removed; one file of two is larger than
`cache.max_size`, the other one may be unreadable. One domain: a handler touches
another domain only through a delete of all domains, and the theorems hold for
any set of domains. `MaxGen = 3` in `reload_fair` allows two overlapping
reloads, or one after one that failed or was cancelled; `StartsInTime` is
`FALSE` there, so that listeners may be slow. `MaxRun = 2` in `upload_resume`
and `deploy` is an interrupted upload and its repetition; `MaxTry` is the code's
3 except in `upload_two`, where 2 keeps the state space small and a retry still
happens; it has one version, so that both clients meet in it. There one file is
in both builds, and the other, an empty one, in that of the second client only,
whose walk may pass over it. So two saves of one file meet, of two clients or of
a client that has tried again. An empty file saved where a file with bytes is
happens in `storage_serial` only, and for clients in the theorems. `deploy` has
one client, one file and one handler at a time (more handlers at once are
`upload_two` and `storage_serial`), a file that may be unreadable, and two
commands: a release or a delete before a reload, after it or during it; that a
second client of the same site meets a delete, the case of `misled`, is beyond
these bounds and covered by the theorem `WholeOnline` for any number of clients.
`service_get` has one site with one file, which may be unreadable, two versions,
three contents (empty, cached, too large for the cache) and three seconds of the
clock: a copy, a version written later and one of the same second; ranges start
and end up to one beyond the longest file. `front` has two domains, because
certificates for several names need them, one foreign origin, an allowed and a
forbidden method, and 36 configurations: https off, with domain certificates
only or with a default, CORS on or off, and for each domain nothing of its own,
settings against the default, a certificate for the wrong name, or a file that
cannot be read. Handlers are interchangeable, and `storage_serial`, `upload_two` and
`upload_resume`, which check no liveness, use them as a symmetry set; no other
run uses symmetry.

**Fairness.** `FairSpec` of `HotReload` asks that a spawned listener is polled
and that the sleep of a reload ends; no reload, upload or release is ever
required. `DeployFairSpec` asks that a handler in flight takes its next step
(the runtime polls it, file-system calls return) and that a client that was
started goes on; nobody is obliged to start one or to give a command. Any
request or answer may be lost, as long as the client gets an error: `deploy` has
`MayHang = FALSE`. That is what a connection that breaks gives, and for the
blocking client also its timeout; the async client, which sends the saves, has
none (`api.rs:69-71`), and where an answer of it gets lost in silence the run does
not end. With `MayHang = TRUE` TLC finds `EveryRunEnds` violated by that;
`upload_two` has such losses and shows that a run they stop reports no success.

## Proofs

For every value of the constants:

* `DomainStorage`: `TypeCorrect` – types and the tree shape of the disk – needs
  no assumption on the environment. The safety theorems assume `Serialised` and
  that no requested reserve exceeds a requested version (`NoUnderflow`);
  `RestartKeepsUp` also that version 0 is not used. The properties are not
  inductive: that a release may put its version online depends on what was true
  when it was accepted. `SerialInv` adds to the types that no two tasks work on
  one domain unless both are saves (`Exclusive`), per domain that a marker
  is explained by `uploading_status` or by the handler that has just made it,
  that the uploading version is not the one in `meta`, and that the online
  version is on disk, unmarked and, but for what could not be read, as it was
  cached (`DomainInv`), and per task what
  its program counter implies (`VersionTaskInv`, `RemoveTaskInv`). The lemmas
  `LocalStep`, `QuietDomain` and `Alone` say that a step for one domain leaves
  the others' invariant alone.
* `StorageRefinement`: `ImplementsVersionStore`, from the same assumptions. Its
  invariant `RefInv` adds to `SerialInv` that nothing is cached when no version
  is online. A step that writes to the disk touches one directory, and
  `DirStep` reduces it to showing that this is not the version online: because
  it is marked (`MarkedNotOnline`, before or after the step), because it is the
  uploading one, because it was not there or is not there any more
  (`OnlineMatchesDisk`), or because the delete that removes it has the domain to
  itself and chose by `meta`. `OnlineStep` and `RestartMaps` are the two kinds
  of step that visitors see.
* `HotReload`: `TypeCorrect`, `NoOrphans` and `ServiceGoesOn`, for any number of
  generations and overlapping reloads and any failures. `NoOrphan` rests on
  `Owned`: a sender that can still be used belongs to the manager or to a reload
  in flight. `ServedThroughout` needs `ServeInv`: a listener stops only by its
  signal (`FollowSignals`), the generation a reload is about to swap in is its
  own and has all its senders (`PendingIsNew`), and the manager's senders are
  used up only when one of its listeners had failed (`ManagerCanSend`, the reload
  that is refused halfway). `SuccessIfNothingBreaks` says that a reload answered
  with 200 listens where no listener fails to start (`MayBreak = {}`) and
  all start within the 500 ms (`StartsInTime`): the counterpart of what
  `reload_cert` finds.
* `UploadClient`: `ClientTypes`, without assumptions on the environment;
  `FinishedComplete`, without them as well: not even `Serialised`; and
  `RestartResumes`, under the assumptions of `SerialSafe`, whose `SerialInv`
  holds here because every step of the clients is a step of the storage or
  leaves it alone (`StorageStep`). `ClientInv` says that a handler a client
  waits for is at a step of the request that the client has sent (`Waits`), and
  that it waits for two only if they save different files (`Apart`); `FileInv`
  that a file which two saves have open is contested (`AllNoted`), and that for
  any other one a save about to create it finds none and one about to write
  finds the empty file it made (`FileAt`); `OwnInv` that the saves a client
  waits for are of its own files; `CompleteInv` that every file that it has come
  to and need not send any more is on the server, contested or with its content
  (`Arrived`). Contents stay because a file that exists is not opened for
  writing again but by a save that had found it absent, which makes it contested
  (`Kept`), as long as no delete is at work (`NoDelete`), and contested files
  stay noted (`Noted`); `Moves` sums up how a client's run goes on in one step.
  `MarkerInv` says that the version in `uploading_status` is marked on disk
  unless the handler of its Finish is between its two steps, and that a handler
  about to set `uploading_status` has made the marker; it needs that no client
  deletes.
* `Deployment`: `DeployIsStorage` and, with it, `DeployImplementsStore`: each
  step of a site in operation is one of the storage, so that what is proved of
  the storage is proved of the site. `DeployTypes`, without assumptions on the
  environment. `WholeOnline`, that only a whole build goes online and that visitors
  get all of it but the files that could not be read, for any number
  of clients, handlers, files, tries and commands, with releases, deletes,
  reloads, losses and restarts, overlapping saves and files passed over, from
  `Serialised` and `NoUnderflow`. Its
  invariant `OnlineInv` says, beside `SerialInv`, `ClientInv`, `FileInv` and
  `OwnInv`, that an unmarked version is whole or suspect (`WholeInv`); that the
  one whose Finish is at work will be (`FinishInv`); that what a client counts
  on has arrived unless it is misled (`CountInv`); and that a version at
  which a request works without protection is suspect already (`WatchInv`).
  `KeptOrMissed` is what remains of `Kept` with deletes: contents stay, or the
  delete that takes them is seen by `Observe`. `Covered` lists the reasons why
  an unmarked version is trusted after a step, and `CacheIsWhole` and
  `ReloadIsWhole` show that only such a version goes online.
  `UploadsStayComplete` and `RestartsResumeUploads` carry `FinishedComplete` and
  `RestartResumes` over to sites with releases and reloads; they assume, the
  first nothing else and the second besides, that no delete is given
  (`By = {}`), because a delete does break both.
  `ScriptsDeleteWhatTheyAsk` assumes of the environment only that
  deletes are sent as a query (`By` without spa-client): then every version
  removed is of a domain that was named, because what a handler has still to
  delete is (`DoomedAsked`). So what `command_delete` finds is due to the form
  in which spa-client sends its arguments alone.
* `StaticService`: `TypeCorrect`, `Found`; `OneFile` and `BrowserFollows` assume
  `OpensInTime`, the latter `InOrder` as well, and `AskedRange` that no range
  lacks its first byte. The invariant says of the files served that each is the
  one on disk, or nothing where it could not be read (`StoreSame`), of a file
  about to be opened that its path holds what was looked up, or nothing
  (`OpenInv`), of an answer that its part is what `BytesRange` gives for the
  announced length (`ReplyInv`), and of the browser's copy, and of what is on
  its way to it, that it is what the online version has on disk (`Current`) or
  was written earlier (`BrowserInv`).
* `FrontDoor`: `TypeCorrect`, `ReadsNeedCors` and `CertificateIsOwn`, for any set
  of configurations. A copy with an origin was made
  where CORS was on, and so was what was read; a connection's configuration is
  one whose https listener listens, hence whose own certificates name their
  domains.

Only model-checked: liveness (`OldGenerationsStop`, `EveryRunEnds`; out of the
prover's reach), and the violations, which are counterexamples.

`Serialised` and `NoUnderflow` are assumptions about who uses the admin server,
not about its code: one operator or pipeline at a time per domain, but for
saves, and nobody who asks to keep more versions than there are. `storage_race`
and the notes under `hazards` show what happens otherwise. `FinishedComplete`,
`UploadsStayComplete` and the theorems about types do without both.

## Not modelled, and abstractions

* The walk of `cache_dir` over a version directory is one step, and so are the
  `is_dir` test and `meta.insert` of a release; a file that changes during the
  walk is covered only before or after it.
* File-system calls are atomic and durable when they return: no power loss, no
  reordering of writes to disk.
* Integer arithmetic wraps, as in a release build; a debug build panics instead.
* Directories inside a version, mime types, expiry, the parsing of
  configurations, keys and certificates, path sanitising and the token check are
  left out; of compression only the length and the choice of the form to send
  are kept.
* Of TLS: the protocol. A handshake is the choice of a certificate and the
  browser's check of its names.
* Of the static service: `If-Unmodified-Since`, `If-Range`, and the streaming of
  a file after it is opened (an open file keeps its bytes when it is unlinked).
  `InOrder` compares modification times strictly: two versions written in the
  same second, of which a browser may keep the wrong one, are assumed away where
  `BrowserIsUpToDate` is checked and proved.
* Of the browser in `FrontDoor`: that a stored copy is revalidated (a 304 would keep
  the copy with the headers it was stored with).
* The cron delete: `AdminServer::run` adds the job after awaiting a server that
  never ends, so that no behaviour of the program contains it.
* The scan of the disk by `DomainStorage::init` during a reload is one step of
  `Deployment`, which also has one reload at a time (`HotReload` has several).
* `GET /status` and `spa-client info`, which change nothing; uploads by scp or
  rsync, which do not go through the program.

Met while reading, and not modelled because nothing depends on the order or the
state in which it happens: `spa-client info` with a domain encodes its query as
a list of strings, which always fails (`client/src/api.rs:86`); a reload with a
changed `admin_config` is answered with 200 and reloads nothing
(`server/src/lib.rs:59`); answers to other sites' scripts have no `Vary` header
(`server/src/cors.rs:28`), so that a copy made for one origin may be refused to
another; the configuration page names `max_preserve` what the code reads as
`max_reserve` (`server/src/config.rs:125`); the `Location` of the redirect to
https is the request's own URI (`server/src/service.rs:57`).

## Plan

Done: the storage with its proofs and its refinement, the hot reload, the
static server, the front door and the upload client with theirs, the commands
composed with the storages of two generations, and what goes online there.
Worth adding, in this order:

1. `WholeOnline` from less than `Serialised`, with the versions that overlapping
   requests leave online named as `suspect`.
2. The scan of a reload in several steps, one per directory.
