--------------------------- MODULE StaticService ---------------------------
(***************************************************************************)
(* The static server: create_service of server/src/service.rs and the      *)
(* replies of server/src/static_file_filter.rs, over the abstract store    *)
(* that DomainStorage implements, together with a visitor whose browser    *)
(* keeps a copy of one file and asks again with If-Modified-Since.         *)
(*                                                                         *)
(* A request takes the cache item of its file once and answers from it.    *)
(* When the bytes in memory will do, the answer is made in the same step;  *)
(* else the file is opened later, at the path the item has, while the      *)
(* headers still come from the item.                                       *)
(*                                                                         *)
(* A request refused because of its origin, scheme or path reads nothing   *)
(* of this and is a stuttering step.                                       *)
(***************************************************************************)
EXTENDS VersionStore

CONSTANTS Site,        \* the domain that is visited
          Path,        \* the file that is asked for
          Body,        \* file contents
          Length,      \* their lengths
          GzipLength,  \* and the lengths of their compressed form
          MaxSize,     \* cache.max_size
          Ranges,      \* the Range headers of requests
          MaxTime,     \* bound: seconds of the clock that stamps files
          SecondsApart, \* TRUE: no two versions are written in one second
          InOrder,     \* TRUE: versions go online in the order of writing
          OpensInTime  \* TRUE: a file is opened before its version has been
                       \*   deleted and its number used again

ASSUME TimeAssumption == MaxTime \in Nat \ {0}
Time == 1 .. MaxTime

\* A file on disk has a content and a modification time.
ASSUME DataAssumption == Data = [body : Body, mtime : Time] \cup {NoFile}
ASSUME LengthAssumption == /\ Length \in [Body -> Nat]
                           /\ GzipLength \in [Body -> Nat]
ASSUME SiteAssumption == Site \in Domain /\ Path \in File
ASSUME NothingAssumption == None \notin Version /\ NoFile \notin [body : Body, mtime : Time]
ASSUME FlagAssumption == {SecondsApart, InOrder, OpensInTime} \subseteq BOOLEAN

VARIABLES now,         \* the clock
          compression, \* cache.compression, and Path is of a type it is for
          get,         \* the request in flight that has a file to open
          copy,        \* the browser's copy of Path
          reply        \* the answer that the last step has sent

allVars == <<storeVars, now, compression, get, copy, reply>>

NoGet == [ver |-> None]
NoReply == [status |-> 0]
NotModified == [status |-> 304]
NotFound == [status |-> 404]

-----------------------------------------------------------------------------
(* Ranges.  `bytes=a-b', `bytes=a-' and `bytes=-n', by their two bounds. *)

Unbounded == -1
NoRange == [from |-> Unbounded, to |-> Unbounded]

ASSUME RangeAssumption ==
    Ranges \subseteq [from : Nat \cup {Unbounded}, to : Nat \cup {Unbounded}]

\* Mutant: a range may end beyond the file.
BytesRangeBeyond(r, len) ==
    LET start == IF r.from = Unbounded THEN 0 ELSE r.from
        end == IF r.to \in {Unbounded, len} THEN len ELSE r.to + 1
    IN {p \in {<<start, end>>} : r = NoRange \/ p[1] < p[2]}

\* Mutant: the last byte of a range is taken for exclusive.
BytesRangeExclusive(r, len) ==
    LET start == IF r.from = Unbounded THEN 0 ELSE r.from
        end == IF r.to = Unbounded THEN len ELSE r.to
    IN {p \in {<<start, end>>} : r = NoRange \/ (p[1] < p[2] /\ p[2] <= len)}

\* bytes_range: the half-open interval to send, or none (BadRange).  A last
\* byte of u64::MAX wraps to 0 or is beyond the file: none either way.
BytesRange(r, len) ==
    LET start == IF r.from = Unbounded THEN 0 ELSE r.from
        end == IF r.to \in {Unbounded, len} THEN len ELSE r.to + 1
    IN {p \in {<<start, end>>} : r = NoRange \/ (p[1] < p[2] /\ p[2] <= len)}

\* RFC 9110, 14.1.2: the bytes that r asks for of a file of length len.
Asked(r, len) ==
    {i \in 0 .. len - 1 : IF r.from = Unbounded /\ r.to # Unbounded
                          THEN i >= len - r.to
                          ELSE i >= r.from /\ (r.to = Unbounded \/ i <= r.to)}

-----------------------------------------------------------------------------
(* Answers. *)

\* Of item, whose form in encoding enc is len long, the part r is announced;
\* what follows is that part of body.
Answers(r, item, len, body, enc) ==
    IF BytesRange(r, len) = {} THEN {[status |-> 416]}
    ELSE {[status |-> IF p[2] - p[1] = len THEN 200 ELSE 206, range |-> r, item |-> item,
           len |-> len, part |-> p[1] .. p[2] - 1, body |-> body, enc |-> enc] :
              p \in BytesRange(r, len)}

\* DataBlock: in memory up to cache.max_size, compressed when configured.
IsFileBlock(item) == Length[item.body] > MaxSize

FromDisk(item, gzip) == IsFileBlock(item) \/ (compression /\ ~gzip)

\* Mutant: Last-Modified is the time of the answer.
CacheRepliesNow(r, item) ==
    Answers(r, [item EXCEPT !.mtime = now], Length[item.body], item.body, "identity")

\* cache_reply: the bytes in memory, as they are.
CacheReplies(r, item) ==
    IF compression THEN Answers(r, item, GzipLength[item.body], item.body, "gzip")
                   ELSE Answers(r, item, Length[item.body], item.body, "identity")

\* file_reply: the length comes from the metadata of the item.
FileReplies(r, item, file) ==
    IF file = NoFile THEN {NotFound}
    ELSE Answers(r, item, Length[item.body], file.body, "identity")

\* Conditionals::check of If-Modified-Since.
Unmodified(item, since) == item.mtime <= since

\* The browser keeps what it is sent when it asked for the whole file.
Send(answer) ==
    /\ reply' = answer
    /\ copy' = CASE answer.status = 404 -> NoFile
                 [] answer.status = 200 /\ answer.range = NoRange ->
                       [body |-> answer.body, mtime |-> answer.item.mtime]
                 [] OTHER -> copy

-----------------------------------------------------------------------------
(* A request: get_cache_file and cache_or_file_reply. *)

Item == served[Site][Path]

GetNothing ==
    /\ get = NoGet /\ Item = NoFile
    /\ Send(NotFound)
    /\ UNCHANGED <<storeVars, now, compression, get>>

\* The browser asks whether its copy is still good.
GetUnmodified ==
    /\ get = NoGet /\ Item # NoFile /\ copy # NoFile
    /\ Unmodified(Item, copy.mtime)
    /\ Send(NotModified)
    /\ UNCHANGED <<storeVars, now, compression, get>>

\* No condition, or one that is not met: the bytes in memory, as gzip only
\* for a visitor that accepts it.
GetCached(gzip) ==
    /\ get = NoGet /\ Item # NoFile
    /\ ~FromDisk(Item, gzip)
    /\ \E r \in Ranges : \E answer \in CacheReplies(r, Item) : Send(answer)
    /\ UNCHANGED <<storeVars, now, compression, get>>

GetFile(gzip) ==
    /\ get = NoGet /\ Item # NoFile
    /\ FromDisk(Item, gzip)
    /\ get' = [ver |-> online[Site], item |-> Item]
    /\ reply' = NoReply
    /\ UNCHANGED <<storeVars, now, compression, copy>>

\* Mutant: the file is looked for in the version that is online by now.
OpenOnline ==
    /\ get # NoGet
    /\ \E r \in Ranges :
       \E answer \in FileReplies(r, get.item, dir[Site][online[Site]].files[Path]) : Send(answer)
    /\ get' = NoGet
    /\ UNCHANGED <<storeVars, now, compression>>

\* File::open(path).await finds whatever is there by now.
OpenFile ==
    /\ get # NoGet
    /\ \E r \in Ranges :
       \E answer \in FileReplies(r, get.item, dir[Site][get.ver].files[Path]) : Send(answer)
    /\ get' = NoGet
    /\ UNCHANGED <<storeVars, now, compression>>

-----------------------------------------------------------------------------
(* The store. *)

WrittenAt(v) == {dir[Site][v].files[f].mtime : f \in {g \in File : dir[Site][v].files[g] # NoFile}}

\* A file that an upload writes is stamped with the time.
Write(v) ==
    /\ SecondsApart => \A w \in Version \ {v} : now \notin WrittenAt(w)
    /\ \E x \in VersionDir :
          /\ \A f \in File : x.files[f] \in {dir[Site][v].files[f], NoFile}
                                             \cup [body : Body, mtime : {now}]
          /\ OpensInTime /\ get.ver = v => x.files[Path] \in {dir[Site][v].files[Path], NoFile}
          /\ x # dir[Site][v]
          /\ Change(Site, v, x)
          /\ reply' = NoReply
          /\ UNCHANGED <<now, compression, get, copy>>

\* Of the complete versions, v is the one written last.
WrittenLast(v) ==
    LET file(w) == dir[Site][w].files[Path]
    IN /\ file(v) # NoFile
       /\ \A w \in {u \in Complete(Site) : file(u) # NoFile} \ {v} : file(w).mtime < file(v).mtime

GoesInOrder ==
    InOrder /\ online'[Site] # online[Site]
       => online'[Site] # None /\ WrittenLast(online'[Site])

Release(v) ==
    /\ PutOnline(Site, v)
    /\ GoesInOrder
    /\ reply' = NoReply
    /\ UNCHANGED <<now, compression, get, copy>>

\* The process starts again: requests in flight are lost.
Restart ==
    /\ \E v \in Version \cup {None} : online' = [online EXCEPT ![Site] = v]
    /\ \E S \in SUBSET Unreadable :
          served' = [served EXCEPT ![Site] = FilesOf(Site, online'[Site], S)]
    /\ Reload
    /\ GoesInOrder
    /\ get' = NoGet /\ reply' = NoReply
    /\ UNCHANGED <<now, compression, copy>>

Tick ==
    /\ now < MaxTime
    /\ now' = now + 1
    /\ reply' = NoReply
    /\ UNCHANGED <<storeVars, compression, get, copy>>

-----------------------------------------------------------------------------
\* A server without versions, visited by a browser without a copy.
Init ==
    /\ dir = [d \in Domain |-> [v \in Version |-> [state |-> "absent", files |-> NoFiles]]]
    /\ online = [d \in Domain |-> None]
    /\ served = [d \in Domain |-> NoFiles]
    /\ now = 1
    /\ compression \in BOOLEAN
    /\ get = NoGet
    /\ copy = NoFile
    /\ reply = NoReply

Visit == \/ GetNothing \/ GetUnmodified \/ OpenFile
         \/ \E gzip \in BOOLEAN : GetCached(gzip) \/ GetFile(gzip)

Next == \/ Visit
        \/ \E v \in Version : Write(v) \/ Release(v)
        \/ Restart \/ Tick

Spec == Init /\ [][Next]_allVars

-----------------------------------------------------------------------------
(* Properties. *)

Sent == reply.status \in {200, 206}

\* Types; what is sent is a part of the file, and not an empty one unless the
\* file is empty.
TypeOK ==
    /\ StoreTypeOK
    /\ now \in Time
    /\ compression \in BOOLEAN
    /\ get = NoGet \/ get \in [ver : Version, item : Data \ {NoFile}]
    /\ copy \in Data
    /\ reply.status \in {0, 200, 206, 304, 404, 416}
    /\ Sent => (reply.part = {} => reply.len = 0) /\ reply.part \subseteq 0 .. reply.len - 1

\* The bytes of an answer are those of the file that its headers (length,
\* Last-Modified) describe, though the headers come from the cache and the
\* bytes from a file opened later.
ReplyIsOneFile == Sent => reply.body = reply.item.body

\* A file that was read when its version went online is found as long as
\* that is online, whatever uploads and deletes work on the disk.
OnlineIsFound ==
    [][reply'.status = 404 => Item = NoFile \/ (get # NoGet /\ get.ver # online[Site])]_allVars

\* What is sent as part of a file is the part that was asked for.
RangeIsAsked == reply.status = 206 => reply.part = Asked(reply.range, reply.len)

\* After a request for the whole file, made and answered while one version
\* is online, the browser shows the file of that version: also when the
\* answer is 304 and what it shows is its copy.  (The version may be released
\* again before the answer, and its file be one that cannot be read then.)
BrowserIsUpToDate ==
    [][/\ reply'.status = 304 \/ (reply'.status = 200 /\ reply'.range = NoRange)
       /\ get = NoGet \/ get.ver = online[Site]
       /\ Item # NoFile
       => copy'.body = Item.body]_allVars
=============================================================================
