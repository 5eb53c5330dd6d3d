------------------------- MODULE StaticServiceProofs -------------------------
(***************************************************************************)
(* Proofs about StaticService: for any versions, files, lengths and Range  *)
(* headers.                                                                *)
(***************************************************************************)
EXTENDS StaticService, TLAPS

File1 == Data \ {NoFile}

LEMMA DataType ==
    /\ File1 = [body : Body, mtime : Time]
    /\ NoFile \in Data
    /\ \A x \in Data : x # NoFile => x \in [body : Body, mtime : Time]
  BY DataAssumption, NothingAssumption DEF File1

-----------------------------------------------------------------------------
(* Ranges. *)

\* What an answer with a body says of its part: it is the interval that
\* bytes_range gives for the announced length.
PartOf(a) ==
    /\ a.range \in Ranges /\ a.len \in Nat
    /\ \E p \in BytesRange(a.range, a.len) :
          /\ a.part = p[1] .. p[2] - 1
          /\ a.status = IF p[2] - p[1] = a.len THEN 200 ELSE 206

\* The interval is inside the file, and not empty but for an empty file.
LEMMA RangeInside ==
    ASSUME NEW r \in Ranges, NEW len \in Nat, NEW p \in BytesRange(r, len)
    PROVE  /\ p[1] \in Nat /\ p[2] \in Nat
           /\ p[2] <= len
           /\ p[1] < p[2] \/ (p[1] = 0 /\ p[2] = len)
  <1>1. r \in [from : Nat \cup {Unbounded}, to : Nat \cup {Unbounded}]
    BY RangeAssumption
  <1> DEFINE start == IF r.from = Unbounded THEN 0 ELSE r.from
             end == IF r.to \in {Unbounded, len} THEN len ELSE r.to + 1
  <1>2. start \in Nat /\ end \in Nat
    BY <1>1 DEF Unbounded
  <1>3. p = <<start, end>> /\ (r = NoRange \/ (p[1] < p[2] /\ p[2] <= len))
    BY DEF BytesRange
  <1>4. r = NoRange => start = 0 /\ end = len
    BY DEF NoRange
  <1> QED
    BY <1>2, <1>3, <1>4

\* With a first byte, or without any bound, it is what RFC 9110 asks for.
LEMMA RangeAsked ==
    ASSUME NEW r \in Ranges, NEW len \in Nat, NEW p \in BytesRange(r, len),
           r.from = Unbounded => r.to = Unbounded
    PROVE  p[1] .. p[2] - 1 = Asked(r, len)
  <1>1. r \in [from : Nat \cup {Unbounded}, to : Nat \cup {Unbounded}]
    BY RangeAssumption
  <1>2. /\ p[1] = IF r.from = Unbounded THEN 0 ELSE r.from
        /\ p[2] = IF r.to \in {Unbounded, len} THEN len ELSE r.to + 1
    BY DEF BytesRange
  <1>3. p[1] \in Nat /\ p[2] \in Nat /\ p[2] <= len
    BY RangeInside
  <1>4. ASSUME NEW i \in 0 .. len - 1
        PROVE  i \in p[1] .. p[2] - 1
                 <=> IF r.from = Unbounded /\ r.to # Unbounded THEN i >= len - r.to
                     ELSE i >= r.from /\ (r.to = Unbounded \/ i <= r.to)
    BY <1>1, <1>2, <1>3 DEF Unbounded
  <1>5. p[1] .. p[2] - 1 \subseteq 0 .. len - 1
    BY <1>3
  <1> QED
    BY <1>4, <1>5 DEF Asked

LEMMA AnswersType ==
    ASSUME NEW r \in Ranges, NEW item, NEW len \in Nat, NEW body, NEW enc,
           NEW a \in Answers(r, item, len, body, enc)
    PROVE  \/ a.status = 416
           \/ /\ PartOf(a) /\ a.status \in {200, 206}
              /\ a.item = item /\ a.body = body /\ a.range = r /\ a.len = len
  <1>1. CASE BytesRange(r, len) = {}
    BY <1>1 DEF Answers
  <1>2. CASE BytesRange(r, len) # {}
    <2>1. PICK p \in BytesRange(r, len) :
            a = [status |-> IF p[2] - p[1] = len THEN 200 ELSE 206, range |-> r, item |-> item,
                 len |-> len, part |-> p[1] .. p[2] - 1, body |-> body, enc |-> enc]
      BY <1>2 DEF Answers
    <2>2. a.range = r /\ a.len = len /\ a.item = item /\ a.body = body
      BY <2>1
    <2>3. a.part = p[1] .. p[2] - 1 /\ a.status = IF p[2] - p[1] = len THEN 200 ELSE 206
      BY <2>1
    <2> QED
      BY <2>2, <2>3 DEF PartOf
  <1> QED
    BY <1>1, <1>2

\* What may be sent of item: nothing, or a part of a file.
GoodAnswer(a, item) ==
    \/ a = NotFound
    \/ a.status = 416
    \/ PartOf(a) /\ a.status \in {200, 206} /\ a.item = item /\ a.body \in Body

LEMMA CacheAnswer ==
    ASSUME NEW r \in Ranges, NEW item \in File1, NEW a \in CacheReplies(r, item)
    PROVE  /\ GoodAnswer(a, item) /\ a.status # 404 /\ a # NotFound
           /\ a.status \in {200, 206} => a.body = item.body
  <1>1. item.body \in Body
    BY DataType
  <1>2. Length[item.body] \in Nat /\ GzipLength[item.body] \in Nat
    BY <1>1, LengthAssumption
  <1>3. \/ a \in Answers(r, item, GzipLength[item.body], item.body, "gzip")
        \/ a \in Answers(r, item, Length[item.body], item.body, "identity")
    BY DEF CacheReplies
  <1>4. CASE a \in Answers(r, item, GzipLength[item.body], item.body, "gzip")
    BY <1>1, <1>2, <1>4, AnswersType DEF GoodAnswer, NotFound
  <1>5. CASE a \in Answers(r, item, Length[item.body], item.body, "identity")
    BY <1>1, <1>2, <1>5, AnswersType DEF GoodAnswer, NotFound
  <1> QED
    BY <1>3, <1>4, <1>5

LEMMA FileAnswer ==
    ASSUME NEW r \in Ranges, NEW item \in File1, NEW file \in Data,
           NEW a \in FileReplies(r, item, file)
    PROVE  /\ GoodAnswer(a, item)
           /\ a.status = 404 <=> file = NoFile
           /\ a.status \in {200, 206} => file # NoFile /\ a.body = file.body
  <1>1. CASE file = NoFile
    BY <1>1 DEF FileReplies, GoodAnswer, NotFound
  <1>2. CASE file # NoFile
    <2>1. file.body \in Body /\ item.body \in Body
      BY <1>2, DataType
    <2>2. Length[item.body] \in Nat
      BY <2>1, LengthAssumption
    <2>3. a \in Answers(r, item, Length[item.body], file.body, "identity")
      BY <1>2 DEF FileReplies
    <2> QED
      BY <1>2, <2>1, <2>2, <2>3, AnswersType DEF GoodAnswer
  <1> QED
    BY <1>1, <1>2

-----------------------------------------------------------------------------
(* The invariant. *)

\* The files served are those of the online version on disk, a complete one,
\* but for some that could not be read when it went online.
StoreSame ==
    \A d \in Domain :
       IF online[d] = None THEN served[d] = NoFiles
       ELSE /\ \A f \in File : served[d][f] \in {dir[d][online[d]].files[f], NoFile}
            /\ dir[d][online[d]].state = "complete"

\* What the online version has on disk, whether it could be read or not.
Current == IF online[Site] = None THEN NoFile ELSE dir[Site][online[Site]].files[Path]

\* The file that a request is about to open is the one of its item, or gone.
OpenInv ==
    OpensInTime /\ get # NoGet => dir[Site][get.ver].files[Path] \in {get.item, NoFile}

ReplyInv ==
    \/ reply.status \in {0, 304, 404, 416}
    \/ /\ PartOf(reply) /\ reply.status \in {200, 206}
       /\ OpensInTime => reply.body = reply.item.body

\* The browser's copy, and the item of the request in flight, are older than
\* what is online, or the same.
BrowserInv ==
    InOrder /\ OpensInTime =>
       IF online[Site] = None THEN copy = NoFile /\ get = NoGet
       ELSE /\ Current # NoFile
            /\ copy # NoFile => copy.mtime < Current.mtime \/ copy = Current
            /\ get # NoGet => get.item.mtime < Current.mtime \/ get.item = Current

StateType ==
    /\ StoreTypeOK
    /\ now \in Time
    /\ compression \in BOOLEAN
    /\ get = NoGet \/ get \in [ver : Version, item : File1]
    /\ copy \in Data

Inv == StateType /\ StoreSame /\ OpenInv /\ ReplyInv /\ BrowserInv

LEMMA ReplyType ==
    ASSUME ReplyInv
    PROVE  /\ reply.status \in {0, 200, 206, 304, 404, 416}
           /\ Sent => (reply.part = {} => reply.len = 0) /\ reply.part \subseteq 0 .. reply.len - 1
  <1>1. CASE ~Sent
    BY <1>1 DEF ReplyInv, Sent
  <1>2. CASE Sent
    <2>1. PartOf(reply)
      BY <1>2 DEF ReplyInv, Sent
    <2>2. PICK p \in BytesRange(reply.range, reply.len) : reply.part = p[1] .. p[2] - 1
      BY <2>1 DEF PartOf
    <2>3. reply.range \in Ranges /\ reply.len \in Nat
      BY <2>1 DEF PartOf
    <2>4. /\ p[1] \in Nat /\ p[2] \in Nat /\ p[2] <= reply.len
          /\ p[1] < p[2] \/ (p[1] = 0 /\ p[2] = reply.len)
      BY <2>3, RangeInside
    <2>5. reply.part = {} => reply.len = 0
      <3> SUFFICES ASSUME reply.len # 0 PROVE p[1] \in reply.part
        OBVIOUS
      <3> QED
        BY <2>2, <2>3, <2>4
    <2>6. reply.part \subseteq 0 .. reply.len - 1
      BY <2>2, <2>3, <2>4
    <2> QED
      BY <1>2, <2>5, <2>6 DEF Sent
  <1> QED
    BY <1>1, <1>2

LEMMA SiteType ==
    ASSUME Inv
    PROVE  /\ Item \in Data
           /\ Item # NoFile => Item \in File1 /\ online[Site] \in Version /\ Item = Current
           /\ \A v \in Version : dir[Site][v].files[Path] \in Data
           /\ Current \in Data
           /\ Current # NoFile => Current \in File1
  <1>1. /\ dir \in [Domain -> [Version -> VersionDir]]
        /\ online \in [Domain -> Version \cup {None}]
        /\ served \in [Domain -> [File -> Data]]
    BY DEF Inv, StateType, StoreTypeOK
  <1>2. Item \in Data
    BY <1>1, SiteAssumption DEF Item
  <1>3. \A v \in Version : dir[Site][v].files[Path] \in Data
    BY <1>1, SiteAssumption DEF VersionDir
  <1>4. online[Site] = None => Item = NoFile
    BY <1>1, SiteAssumption DEF Inv, StoreSame, Item, NoFiles
  <1>5. online[Site] # None => Item \in {dir[Site][online[Site]].files[Path], NoFile}
    BY SiteAssumption DEF Inv, StoreSame, Item
  <1>6. Current \in Data
    BY <1>1, <1>3, DataType, SiteAssumption DEF Current
  <1> QED
    BY <1>1, <1>2, <1>3, <1>4, <1>5, <1>6, SiteAssumption DEF File1, Current

LEMMA InitInv == Init => Inv
  <1> SUFFICES ASSUME Init PROVE Inv
    OBVIOUS
  <1>1. NoFiles \in [File -> Data]
    BY DataType DEF NoFiles
  <1>2. StateType
    BY <1>1, DataType, TimeAssumption DEF Init, StateType, StoreTypeOK, VersionDir, Time
  <1> QED
    BY <1>2, SiteAssumption DEF Init, Inv, StoreSame, OpenInv, ReplyInv, BrowserInv, NoReply

-----------------------------------------------------------------------------
(* Requests. *)

UnchangedStore == UNCHANGED <<storeVars, now, compression>>

LEMMA SameItem ==
    ASSUME UnchangedStore
    PROVE  /\ Item' = Item /\ Current' = Current
           /\ dir' = dir /\ online' = online /\ served' = served
           /\ now' = now /\ compression' = compression
           /\ StoreTypeOK' <=> StoreTypeOK
           /\ StoreSame' <=> StoreSame
  BY DEF UnchangedStore, storeVars, Item, Current, StoreTypeOK, Complete, StoreSame

\* An answer with the bytes of the item sets a copy that is its item.
LEMMA SendInv ==
    ASSUME Inv, UnchangedStore, NEW item \in File1, NEW a, GoodAnswer(a, item),
           a.status = 404 <=> a = NotFound,
           OpensInTime /\ a.status \in {200, 206} => a.body = item.body,
           InOrder /\ OpensInTime =>
              online[Site] # None /\ (item.mtime < Current.mtime \/ item = Current),
           Send(a), get' = NoGet
    PROVE  Inv'
  <1>1. item \in [body : Body, mtime : Time]
    BY DataType
  <1>2. /\ reply' = a
        /\ \/ copy' = NoFile \/ copy' = copy
           \/ a.status = 200 /\ a.range = NoRange /\ copy' = [body |-> a.body, mtime |-> a.item.mtime]
    BY DEF Send
  <1>3. a.status = 200 => a.item = item /\ a.body \in Body
    BY DEF GoodAnswer, NotFound
  <1>4. copy' \in Data
    BY <1>1, <1>2, <1>3, DataType DEF Inv, StateType, File1
  <1>5. ReplyInv'
    BY <1>2 DEF GoodAnswer, ReplyInv, PartOf, NotFound
  <1>6. StateType'
    BY <1>4, SameItem DEF Inv, StateType
  <1>7. BrowserInv'
    <2> SUFFICES ASSUME InOrder, OpensInTime PROVE BrowserInv'
      BY DEF BrowserInv
    <2>1. online'[Site] # None /\ Current' # NoFile
      BY SameItem DEF Inv, BrowserInv
    <2>2. copy' # NoFile => copy'.mtime < Current'.mtime \/ copy' = Current'
      <3>1. CASE copy' = NoFile \/ copy' = copy
        BY <3>1, SameItem DEF Inv, BrowserInv
      <3>2. CASE a.status = 200 /\ copy' = [body |-> a.body, mtime |-> a.item.mtime]
        <4>1. copy' = item
          BY <1>1, <1>3, <3>2
        <4> QED
          BY <4>1, SameItem
      <3> QED
        BY <1>2, <3>1, <3>2
    <2> QED
      BY <2>1, <2>2 DEF BrowserInv
  <1> QED
    BY <1>5, <1>6, <1>7, SameItem DEF Inv, OpenInv

LEMMA GetNothingStep ==
    ASSUME Inv, GetNothing
    PROVE  Inv'
  <1>1. UnchangedStore /\ get' = get /\ get = NoGet
    BY DEF GetNothing, UnchangedStore
  <1>2. copy' = NoFile /\ reply'.status = 404
    BY DEF GetNothing, Send, NotFound
  <1>3. BrowserInv'
    BY <1>1, <1>2, SameItem DEF Inv, BrowserInv
  <1> QED
    BY <1>1, <1>2, <1>3, SameItem, DataType DEF Inv, StateType, OpenInv, ReplyInv

LEMMA GetUnmodifiedStep ==
    ASSUME Inv, GetUnmodified
    PROVE  Inv'
  <1>1. UnchangedStore /\ get' = get
    BY DEF GetUnmodified, UnchangedStore
  <1>2. copy' = copy /\ reply'.status = 304
    BY DEF GetUnmodified, Send, NotModified
  <1> QED
    BY <1>1, <1>2, SameItem DEF Inv, StateType, OpenInv, ReplyInv, BrowserInv

LEMMA GetCachedStep ==
    ASSUME Inv, NEW gzip \in BOOLEAN, GetCached(gzip)
    PROVE  Inv'
  <1>1. UnchangedStore /\ get' = NoGet
    BY DEF GetCached, UnchangedStore
  <1>2. Item \in File1
    BY SiteType DEF GetCached
  <1>0. PICK r \in Ranges : \E a \in CacheReplies(r, Item) : Send(a)
    BY DEF GetCached
  <1>3. PICK a \in CacheReplies(r, Item) : Send(a)
    BY <1>0
  <1>4. /\ GoodAnswer(a, Item) /\ a.status # 404 /\ a # NotFound
        /\ a.status \in {200, 206} => a.body = Item.body
    BY <1>2, CacheAnswer
  <1>5. online[Site] # None /\ Item = Current
    BY <1>2, SiteType, NothingAssumption DEF File1
  <1> QED
    BY <1>1, <1>2, <1>3, <1>4, <1>5, SendInv

LEMMA GetFileStep ==
    ASSUME Inv, NEW gzip \in BOOLEAN, GetFile(gzip)
    PROVE  Inv'
  <1>1. UnchangedStore /\ copy' = copy /\ reply'.status = 0
    BY DEF GetFile, UnchangedStore, NoReply
  <1>2. Item \in File1 /\ online[Site] \in Version
    BY SiteType DEF GetFile
  <1>3. get' = [ver |-> online[Site], item |-> Item]
    BY DEF GetFile
  <1>4. /\ online[Site] # None /\ Item = Current
        /\ Item = dir[Site][online[Site]].files[Path]
    BY <1>2, SiteType, NothingAssumption DEF File1, Current
  <1>5. StateType'
    BY <1>1, <1>2, <1>3, SameItem DEF Inv, StateType
  <1>6. OpenInv'
    BY <1>1, <1>3, <1>4, SameItem DEF OpenInv
  <1>7. BrowserInv'
    BY <1>1, <1>2, <1>3, <1>4, SameItem DEF Inv, BrowserInv, File1
  <1> QED
    BY <1>1, <1>5, <1>6, <1>7, SameItem DEF Inv, ReplyInv

\* The file a request opens, and the answer it makes of it.
LEMMA OpenFileAnswer ==
    ASSUME Inv, NEW r \in Ranges,
           get # NoGet, NEW a \in FileReplies(r, get.item, dir[Site][get.ver].files[Path])
    PROVE  /\ get.item \in File1 /\ get.ver \in Version
           /\ GoodAnswer(a, get.item)
           /\ a.status = 404 <=> dir[Site][get.ver].files[Path] = NoFile
           /\ a.status = 404 <=> a = NotFound
           /\ a.status \in {200, 206} => /\ a.body = dir[Site][get.ver].files[Path].body
                                         /\ OpensInTime => a.body = get.item.body
  <1>1. get \in [ver : Version, item : File1]
    BY DEF Inv, StateType
  <1>2. dir[Site][get.ver].files[Path] \in Data
    BY <1>1, SiteType
  <1>3. /\ GoodAnswer(a, get.item)
        /\ a.status = 404 <=> dir[Site][get.ver].files[Path] = NoFile
        /\ a.status \in {200, 206} => /\ dir[Site][get.ver].files[Path] # NoFile
                                      /\ a.body = dir[Site][get.ver].files[Path].body
    BY <1>1, <1>2, FileAnswer
  <1>4. a.status = 404 <=> a = NotFound
    BY <1>3 DEF GoodAnswer, NotFound
  <1>5. a.status \in {200, 206} /\ OpensInTime => a.body = get.item.body
    BY <1>3 DEF Inv, OpenInv
  <1> QED
    BY <1>1, <1>3, <1>4, <1>5

LEMMA OpenFileStep ==
    ASSUME Inv, OpenFile
    PROVE  Inv'
  <1>1. UnchangedStore /\ get' = NoGet /\ get # NoGet
    BY DEF OpenFile, UnchangedStore
  <1>0. PICK r \in Ranges :
           \E a \in FileReplies(r, get.item, dir[Site][get.ver].files[Path]) : Send(a)
    BY DEF OpenFile
  <1>2. PICK a \in FileReplies(r, get.item, dir[Site][get.ver].files[Path]) : Send(a)
    BY <1>0
  <1>3. /\ get.item \in File1
        /\ GoodAnswer(a, get.item)
        /\ a.status = 404 <=> a = NotFound
        /\ OpensInTime /\ a.status \in {200, 206} => a.body = get.item.body
    BY <1>1, OpenFileAnswer
  <1>4. InOrder /\ OpensInTime =>
           online[Site] # None /\ (get.item.mtime < Current.mtime \/ get.item = Current)
    BY <1>1 DEF Inv, BrowserInv
  <1> QED
    BY <1>1, <1>2, <1>3, <1>4, SendInv

-----------------------------------------------------------------------------
(* The store. *)

LEMMA WriteStep ==
    ASSUME Inv, NEW v \in Version, Write(v)
    PROVE  Inv'
  <1>1. PICK x \in VersionDir :
          /\ OpensInTime /\ get.ver = v => x.files[Path] \in {dir[Site][v].files[Path], NoFile}
          /\ Change(Site, v, x)
    BY DEF Write
  <1>2. /\ reply' = NoReply
        /\ now' = now /\ compression' = compression /\ get' = get /\ copy' = copy
    BY DEF Write
  <1>3. /\ v # online[Site]
        /\ dir' = [dir EXCEPT ![Site] = [dir[Site] EXCEPT ![v] = x]]
        /\ online' = online /\ served' = served
    BY <1>1 DEF Change
  <1>4. /\ dir \in [Domain -> [Version -> VersionDir]]
        /\ online \in [Domain -> Version \cup {None}]
    BY DEF Inv, StateType, StoreTypeOK
  <1>5. dir' \in [Domain -> [Version -> VersionDir]]
    BY <1>3, <1>4, SiteAssumption
  <1>6. StateType'
    BY <1>2, <1>3, <1>5 DEF Inv, StateType, StoreTypeOK
  <1>7. \A d \in Domain : online[d] # None => dir'[d][online[d]] = dir[d][online[d]]
    BY <1>3, <1>4, SiteAssumption
  <1>8. StoreSame'
    BY <1>3, <1>7 DEF Inv, StoreSame
  <1>9. OpenInv'
    <2> SUFFICES ASSUME OpensInTime, get # NoGet
                 PROVE  dir'[Site][get.ver].files[Path] \in {get.item, NoFile}
      BY <1>2 DEF OpenInv
    <2>1. get.ver \in Version
      BY DEF Inv, StateType
    <2>2. dir[Site][get.ver].files[Path] \in {get.item, NoFile}
      BY DEF Inv, OpenInv
    <2>3. CASE get.ver = v
      BY <1>1, <1>3, <1>4, <2>2, <2>3, SiteAssumption
    <2>4. CASE get.ver # v
      BY <1>3, <1>4, <2>1, <2>2, <2>4, SiteAssumption
    <2> QED
      BY <2>3, <2>4
  <1>10. BrowserInv'
    <2>1. Current' = Current
      BY <1>3, <1>7, SiteAssumption DEF Current
    <2> QED
      BY <1>2, <1>3, <2>1 DEF Inv, BrowserInv
  <1> QED
    BY <1>2, <1>6, <1>8, <1>9, <1>10 DEF Inv, ReplyInv, NoReply

\* When versions go online in the order of writing, what the browser has is
\* no newer than what is online afterwards.
LEMMA GoesOnline ==
    ASSUME Inv, dir' = dir, copy' = copy, get' \in {get, NoGet}, GoesInOrder,
           online'[Site] \in Complete(Site) \cup {None}
    PROVE  BrowserInv'
  <1> SUFFICES ASSUME InOrder, OpensInTime PROVE BrowserInv'
    BY DEF BrowserInv
  <1>1. CASE online'[Site] = online[Site]
    <2>1. Current' = Current
      BY <1>1 DEF Current
    <2> QED
      BY <1>1, <2>1 DEF Inv, BrowserInv
  <1>2. CASE online'[Site] # online[Site]
    <2> DEFINE v == online'[Site]
               w == online[Site]
    <2>1. v # None /\ WrittenLast(v)
      BY <1>2 DEF GoesInOrder
    <2>2. v \in Version /\ Current' = dir[Site][v].files[Path]
      BY <2>1 DEF Complete, Current
    <2>3. Current' # NoFile /\ Current' \in File1
      BY <2>1, <2>2, SiteType DEF WrittenLast, File1
    <2>4. CASE w = None
      BY <2>1, <2>3, <2>4 DEF Inv, BrowserInv
    <2>5. CASE w # None
      <3>1. Current # NoFile
        BY <2>5 DEF Inv, BrowserInv
      <3>2. w \in Version /\ Current \in File1 /\ Current = dir[Site][w].files[Path]
        BY <2>5, <3>1, SiteType, SiteAssumption DEF Current, Inv, StateType, StoreTypeOK
      <3>3. w \in Complete(Site)
        BY <2>5, <3>2, SiteAssumption DEF Inv, StoreSame, Complete
      <3>4. Current.mtime < Current'.mtime
        BY <1>2, <2>1, <2>2, <3>1, <3>2, <3>3 DEF WrittenLast
      <3>5. Current.mtime \in Int /\ Current'.mtime \in Int
        BY <2>3, <3>2, DataType, TimeAssumption DEF Time
      <3>6. copy # NoFile => copy.mtime < Current'.mtime
        <4> SUFFICES ASSUME copy # NoFile PROVE copy.mtime < Current'.mtime
          OBVIOUS
        <4>1. copy.mtime \in Int
          BY DataType, TimeAssumption DEF Inv, StateType, Time
        <4>2. copy.mtime < Current.mtime \/ copy = Current
          BY <2>5 DEF Inv, BrowserInv
        <4> QED
          BY <3>4, <3>5, <4>1, <4>2
      <3>7. get # NoGet => get.item.mtime < Current'.mtime
        <4> SUFFICES ASSUME get # NoGet PROVE get.item.mtime < Current'.mtime
          OBVIOUS
        <4>1. get.item \in File1
          BY DEF Inv, StateType
        <4>2. get.item.mtime \in Int
          BY <4>1, DataType, TimeAssumption DEF Time
        <4>3. get.item.mtime < Current.mtime \/ get.item = Current
          BY <2>5 DEF Inv, BrowserInv
        <4> QED
          BY <3>4, <3>5, <4>2, <4>3
      <3> QED
        BY <2>1, <2>3, <3>6, <3>7 DEF BrowserInv
    <2> QED
      BY <2>4, <2>5
  <1> QED
    BY <1>1, <1>2

\* What could not be read is not there, the rest is as it is.
LEMMA ReadableType ==
    ASSUME NEW F \in [File -> Data], NEW S
    PROVE  /\ Readable(F, S) \in [File -> Data]
           /\ \A f \in File : Readable(F, S)[f] \in {F[f], NoFile}
  BY DataType DEF Readable

LEMMA ReleaseStep ==
    ASSUME Inv, NEW v \in Version, Release(v)
    PROVE  Inv'
  <1>1. PICK S \in SUBSET Unreadable :
          /\ v \in Complete(Site)
          /\ online' = [online EXCEPT ![Site] = v]
          /\ served' = [served EXCEPT ![Site] = Readable(dir[Site][v].files, S)]
          /\ dir' = dir
    BY DEF Release, PutOnline
  <1>2. /\ GoesInOrder /\ reply' = NoReply
        /\ now' = now /\ compression' = compression /\ get' = get /\ copy' = copy
    BY DEF Release
  <1>3. /\ dir \in [Domain -> [Version -> VersionDir]]
        /\ online \in [Domain -> Version \cup {None}]
        /\ served \in [Domain -> [File -> Data]]
    BY DEF Inv, StateType, StoreTypeOK
  <1>4. /\ Readable(dir[Site][v].files, S) \in [File -> Data]
        /\ \A f \in File : Readable(dir[Site][v].files, S)[f] \in {dir[Site][v].files[f], NoFile}
    <2>1. dir[Site][v].files \in [File -> Data]
      BY <1>3, SiteAssumption DEF VersionDir
    <2> QED
      BY <2>1, ReadableType
  <1>5. StateType'
    BY <1>1, <1>2, <1>3, <1>4 DEF Inv, StateType, StoreTypeOK
  <1>6. StoreSame'
    BY <1>1, <1>3, <1>4, SiteAssumption, NothingAssumption DEF Inv, StoreSame, Complete
  <1>7. OpenInv'
    BY <1>1, <1>2 DEF Inv, OpenInv
  <1>8. online'[Site] = v /\ v # None
    BY <1>1, <1>3, SiteAssumption, NothingAssumption
  <1>9. BrowserInv'
    BY <1>1, <1>2, <1>8, GoesOnline
  <1> QED
    BY <1>2, <1>5, <1>6, <1>7, <1>9 DEF Inv, ReplyInv, NoReply

LEMMA RestartStep ==
    ASSUME Inv, Restart
    PROVE  Inv'
  <1>1. PICK v \in Version \cup {None} : online' = [online EXCEPT ![Site] = v]
    BY DEF Restart
  <1>2. /\ dir' = dir /\ GoesInOrder /\ get' = NoGet /\ reply' = NoReply
        /\ now' = now /\ compression' = compression /\ copy' = copy
    BY DEF Restart, Reload
  <1>3. \A d \in Domain :
          /\ online'[d] \in Complete(d) \cup {None}
          /\ \E S \in SUBSET Unreadable : served'[d] = FilesOf(d, online'[d], S)
    BY DEF Restart, Reload, Newest
  <1>4. /\ dir \in [Domain -> [Version -> VersionDir]]
        /\ online \in [Domain -> Version \cup {None}]
        /\ served \in [Domain -> [File -> Data]]
    BY DEF Inv, StateType, StoreTypeOK
  <1>5. online' \in [Domain -> Version \cup {None}]
    BY <1>1, <1>4
  <1>6. served' \in [Domain -> [File -> Data]]
    <2>1. PICK S : served' = [served EXCEPT ![Site] = FilesOf(Site, online'[Site], S)]
      BY DEF Restart
    <2>2. FilesOf(Site, online'[Site], S) \in [File -> Data]
      <3>1. CASE online'[Site] = None
        BY <3>1, DataType DEF FilesOf, NoFiles
      <3>2. CASE online'[Site] # None
        <4>1. dir[Site][online'[Site]].files \in [File -> Data]
          BY <1>4, <1>5, <3>2, SiteAssumption DEF VersionDir
        <4> QED
          BY <3>2, <4>1, ReadableType DEF FilesOf
      <3> QED
        BY <3>1, <3>2
    <2> QED
      BY <1>4, <2>1, <2>2, SiteAssumption
  <1>7. StateType'
    BY <1>2, <1>4, <1>5, <1>6 DEF Inv, StateType, StoreTypeOK
  <1>8. StoreSame'
    <2> SUFFICES ASSUME NEW d \in Domain
                 PROVE  IF online'[d] = None THEN served'[d] = NoFiles
                        ELSE /\ \A f \in File :
                                   served'[d][f] \in {dir[d][online'[d]].files[f], NoFile}
                             /\ dir[d][online'[d]].state = "complete"
      BY <1>2 DEF StoreSame
    <2>1. PICK S \in SUBSET Unreadable : served'[d] = FilesOf(d, online'[d], S)
      BY <1>3
    <2>2. CASE online'[d] = None
      BY <2>1, <2>2 DEF FilesOf
    <2>3. CASE online'[d] # None
      <3>1. online'[d] \in Complete(d) /\ online'[d] \in Version
        BY <1>3, <2>3 DEF Complete
      <3>2. dir[d][online'[d]].files \in [File -> Data]
        BY <1>4, <3>1 DEF VersionDir
      <3>3. served'[d] = Readable(dir[d][online'[d]].files, S)
        BY <2>1, <2>3 DEF FilesOf
      <3> QED
        BY <2>3, <3>1, <3>2, <3>3, ReadableType DEF Complete
    <2> QED
      BY <2>2, <2>3
  <1>9. BrowserInv'
    BY <1>2, <1>3, SiteAssumption, GoesOnline
  <1> QED
    BY <1>2, <1>7, <1>8, <1>9 DEF Inv, OpenInv, ReplyInv, NoReply

LEMMA TickStep ==
    ASSUME Inv, Tick
    PROVE  Inv'
  <1>1. /\ storeVars' = storeVars /\ now' = now + 1 /\ reply' = NoReply
        /\ compression' = compression /\ get' = get /\ copy' = copy
    BY DEF Tick
  <1>2. now' \in Time
    BY TimeAssumption DEF Tick, Inv, StateType, Time
  <1> QED
    BY <1>1, <1>2
    DEF Inv, StateType, StoreTypeOK, StoreSame, OpenInv, ReplyInv, NoReply, BrowserInv,
        Current, storeVars

LEMMA Stutter == Inv /\ UNCHANGED allVars => Inv'
  BY DEF Inv, StateType, StoreTypeOK, StoreSame, OpenInv, ReplyInv, PartOf, BrowserInv, Current,
         allVars, storeVars

LEMMA NextInv == Inv /\ [Next]_allVars => Inv'
  <1> SUFFICES ASSUME Inv, [Next]_allVars PROVE Inv'
    OBVIOUS
  <1>1. CASE GetNothing
    BY <1>1, GetNothingStep
  <1>2. CASE GetUnmodified
    BY <1>2, GetUnmodifiedStep
  <1>3. CASE OpenFile
    BY <1>3, OpenFileStep
  <1>4. ASSUME NEW gzip \in BOOLEAN, GetCached(gzip) PROVE Inv'
    BY <1>4, GetCachedStep
  <1>5. ASSUME NEW gzip \in BOOLEAN, GetFile(gzip) PROVE Inv'
    BY <1>5, GetFileStep
  <1>6. ASSUME NEW v \in Version, Write(v) PROVE Inv'
    BY <1>6, WriteStep
  <1>7. ASSUME NEW v \in Version, Release(v) PROVE Inv'
    BY <1>7, ReleaseStep
  <1>8. CASE Restart
    BY <1>8, RestartStep
  <1>9. CASE Tick
    BY <1>9, TickStep
  <1>10. CASE UNCHANGED allVars
    BY <1>10, Stutter
  <1> QED
    BY <1>1, <1>2, <1>3, <1>4, <1>5, <1>6, <1>7, <1>8, <1>9, <1>10 DEF Next, Visit

LEMMA Always == Spec => []Inv
  BY InitInv, NextInv, PTL DEF Spec

-----------------------------------------------------------------------------
(* Theorems. *)

\* Of the reply, TypeOK asks the status, and that a part is inside its file
\* and not empty: bytes_range (static_file_filter.rs) lets no other through,
\* whatever the Range header.
THEOREM TypeCorrect == Spec => []TypeOK
  <1>1. Inv => TypeOK
    BY ReplyType DEF Inv, StateType, TypeOK, File1
  <1> QED
    BY <1>1, Always, PTL

\* Headers of the cache and bytes of the disk belong together, provided the
\* file is opened before the number of its version is used again.
THEOREM OneFile ==
    ASSUME OpensInTime
    PROVE  Spec => []ReplyIsOneFile
  <1>1. Inv => ReplyIsOneFile
    BY DEF Inv, ReplyInv, ReplyIsOneFile, Sent
  <1> QED
    BY <1>1, Always, PTL

\* A part of a file is the part that was asked for, when ranges that only
\* give a number of last bytes (`bytes=-n') are not asked for.
THEOREM AskedRange ==
    ASSUME \A r \in Ranges : r.from = Unbounded => r.to = Unbounded
    PROVE  Spec => []RangeIsAsked
  <1>1. Inv => RangeIsAsked
    <2> SUFFICES ASSUME Inv, reply.status = 206
                 PROVE  reply.part = Asked(reply.range, reply.len)
      BY DEF RangeIsAsked
    <2>1. PartOf(reply)
      BY DEF Inv, ReplyInv
    <2>2. PICK p \in BytesRange(reply.range, reply.len) : reply.part = p[1] .. p[2] - 1
      BY <2>1 DEF PartOf
    <2> QED
      BY <2>1, <2>2, RangeAsked DEF PartOf
  <1> QED
    BY <1>1, Always, PTL

FoundStep == reply'.status = 404 => Item = NoFile \/ (get # NoGet /\ get.ver # online[Site])

LEMMA FoundAll == Inv /\ [Next]_allVars => [FoundStep]_allVars
  <1> SUFFICES ASSUME Inv, Next, reply'.status = 404
               PROVE  Item = NoFile \/ (get # NoGet /\ get.ver # online[Site])
    BY DEF FoundStep
  <1>1. CASE GetNothing
    BY <1>1 DEF GetNothing
  <1>2. CASE OpenFile
    <2>1. PICK r \in Ranges :
             \E a \in FileReplies(r, get.item, dir[Site][get.ver].files[Path]) : Send(a)
      BY <1>2 DEF OpenFile
    <2>2. PICK a \in FileReplies(r, get.item, dir[Site][get.ver].files[Path]) : Send(a)
      BY <2>1
    <2>3. get # NoGet /\ a.status = 404
      BY <1>2, <2>2 DEF OpenFile, Send
    <2>4. get.ver \in Version /\ dir[Site][get.ver].files[Path] = NoFile
      BY <2>3, OpenFileAnswer
    <2> QED
      BY <2>3, <2>4, SiteType, NothingAssumption DEF Current
  <1>3. ASSUME NEW gzip \in BOOLEAN, GetCached(gzip) PROVE FALSE
    <2>1. Item \in File1
      BY <1>3, SiteType DEF GetCached
    <2>2. PICK r \in Ranges : \E a \in CacheReplies(r, Item) : Send(a)
      BY <1>3 DEF GetCached
    <2>3. PICK a \in CacheReplies(r, Item) : Send(a)
      BY <2>2
    <2> QED
      BY <2>1, <2>3, CacheAnswer DEF Send
  <1>4. ~GetUnmodified /\ ~Restart /\ ~Tick
    BY DEF GetUnmodified, Send, NotModified, Restart, Tick, NoReply
  <1>5. \A gzip \in BOOLEAN : ~GetFile(gzip)
    BY DEF GetFile, NoReply
  <1>6. \A v \in Version : ~Write(v) /\ ~Release(v)
    BY DEF Write, Release, NoReply
  <1> QED
    BY <1>1, <1>2, <1>3, <1>4, <1>5, <1>6 DEF Next, Visit

\* A file of the online version that could be read when that went online is
\* found, whatever is written or deleted between the request and the opening
\* of the file.
THEOREM Found == Spec => OnlineIsFound
  <1>1. Spec => [][FoundStep]_allVars
    BY Always, FoundAll, PTL DEF Spec
  <1> QED
    BY <1>1 DEF OnlineIsFound, FoundStep

FreshStep ==
    /\ reply'.status = 304 \/ (reply'.status = 200 /\ reply'.range = NoRange)
    /\ get = NoGet \/ get.ver = online[Site]
    /\ Item # NoFile
    => copy'.body = Item.body

LEMMA FreshAll == InOrder /\ OpensInTime /\ Inv /\ [Next]_allVars => [FreshStep]_allVars
  <1> SUFFICES ASSUME InOrder, OpensInTime, Inv, Next,
                      reply'.status = 304 \/ (reply'.status = 200 /\ reply'.range = NoRange),
                      get = NoGet \/ get.ver = online[Site],
                      Item # NoFile
               PROVE  copy'.body = Item.body
    BY DEF FreshStep
  <1>1. CASE GetUnmodified
    <2>1. /\ copy' = copy /\ copy # NoFile /\ Item # NoFile
          /\ Item.mtime <= copy.mtime
      BY <1>1 DEF GetUnmodified, Send, NotModified, Unmodified
    <2>2. Item.mtime \in Int /\ copy.mtime \in Int
      BY <2>1, SiteType, DataType, TimeAssumption DEF Inv, StateType, Time
    <2>3. copy.mtime < Item.mtime \/ copy = Item
      <3>1. Item = Current /\ online[Site] # None
        BY <2>1, SiteType, NothingAssumption
      <3> QED
        BY <2>1, <3>1 DEF Inv, BrowserInv
    <2> QED
      BY <2>1, <2>2, <2>3
  <1>2. CASE OpenFile
    <2>1. PICK r \in Ranges :
             \E a \in FileReplies(r, get.item, dir[Site][get.ver].files[Path]) : Send(a)
      BY <1>2 DEF OpenFile
    <2>2. PICK a \in FileReplies(r, get.item, dir[Site][get.ver].files[Path]) : Send(a)
      BY <2>1
    <2>3. get # NoGet /\ reply' = a
      BY <1>2, <2>2 DEF OpenFile, Send
    <2>4. /\ get.ver \in Version
          /\ GoodAnswer(a, get.item)
          /\ a.status \in {200, 206} => a.body = dir[Site][get.ver].files[Path].body
      BY <2>3, OpenFileAnswer
    <2>5. a.status = 200 /\ a.range = NoRange
      BY <2>3, <2>4 DEF GoodAnswer, NotFound
    <2>6. copy'.body = a.body
      BY <2>2, <2>5 DEF Send
    <2> QED
      BY <2>3, <2>4, <2>5, <2>6, SiteType, NothingAssumption DEF Current
  <1>3. ASSUME NEW gzip \in BOOLEAN, GetCached(gzip) PROVE copy'.body = Item.body
    <2>1. Item \in File1
      BY <1>3, SiteType DEF GetCached
    <2>2. PICK r \in Ranges : \E a \in CacheReplies(r, Item) : Send(a)
      BY <1>3 DEF GetCached
    <2>3. PICK a \in CacheReplies(r, Item) : Send(a)
      BY <2>2
    <2>4. /\ GoodAnswer(a, Item) /\ a # NotFound
          /\ a.status \in {200, 206} => a.body = Item.body
      BY <2>1, CacheAnswer
    <2>5. a.status = 200 /\ a.range = NoRange
      BY <2>3, <2>4 DEF GoodAnswer, Send
    <2>6. copy'.body = a.body
      BY <2>3, <2>5 DEF Send
    <2> QED
      BY <2>4, <2>5, <2>6
  <1>4. ~GetNothing /\ ~Restart /\ ~Tick
    BY DEF GetNothing, Send, NotFound, Restart, Tick, NoReply
  <1>5. \A gzip \in BOOLEAN : ~GetFile(gzip)
    BY DEF GetFile, NoReply
  <1>6. \A v \in Version : ~Write(v) /\ ~Release(v)
    BY DEF Write, Release, NoReply
  <1> QED
    BY <1>1, <1>2, <1>3, <1>4, <1>5, <1>6 DEF Next, Visit

\* If versions go online in the order they were written, a 304 never leaves
\* the browser with the file of an earlier version.  (A rollback breaks it:
\* the copy is newer than what is online then.)
THEOREM BrowserFollows ==
    ASSUME InOrder, OpensInTime
    PROVE  Spec => BrowserIsUpToDate
  <1>1. Spec => [][FreshStep]_allVars
    <2>1. Inv /\ [Next]_allVars => [FreshStep]_allVars
      BY FreshAll
    <2> QED
      BY <2>1, Always, PTL DEF Spec
  <1> QED
    BY <1>1 DEF BrowserIsUpToDate, FreshStep
=============================================================================
