---------------------------- MODULE VersionStore ----------------------------
(***************************************************************************)
(* What spa-server promises of its storage, whatever the steps of its      *)
(* handlers: visitors get the files of one version, as it was when it was  *)
(* put online, until another one is.  Files that cannot be read when it is *)
(* put online are not among them.  Uploads and deletes change the disk one *)
(* entry at a time, but only versions that are not online; a version that  *)
(* is receiving files does not go online.  DomainStorage implements this,  *)
(* and StaticService relies on no more.                                    *)
(***************************************************************************)
EXTENDS Integers

CONSTANTS Domain,     \* host names
          Version,    \* version numbers
          None,       \* no version
          File,       \* paths inside a version
          Unreadable, \* those that may turn out not to be readable
          Data,       \* what a path can hold
          NoFile      \* nothing

VARIABLES dir,      \* the versions on disk
          online,   \* the version of each domain that visitors get
          served    \* and its files

storeVars == <<dir, online, served>>

NoFiles == [f \in File |-> NoFile]

\* A version directory is not there, is receiving files (it holds the marker
\* .SPA-Processing), or is complete.
VersionDir == {x \in [state : {"absent", "receiving", "complete"}, files : [File -> Data]] :
                  x.state = "absent" => x.files = NoFiles}

Complete(d) == {v \in Version : dir[d][v].state = "complete"}

\* Mutant: what is online may change as well.
ChangeAnywhere(d, v, x) ==
    /\ dir' = [dir EXCEPT ![d][v] = x]
    /\ UNCHANGED <<online, served>>

\* A step of an upload or of a delete.
Change(d, v, x) ==
    /\ v # online[d]
    /\ dir' = [dir EXCEPT ![d][v] = x]
    /\ UNCHANGED <<online, served>>

\* Of files F, those that can be read: S cannot.
Readable(F, S) == [f \in File |-> IF f \in S THEN NoFile ELSE F[f]]

\* What visitors get of version v, or of None, once it has been read.
FilesOf(d, v, S) == IF v = None THEN NoFiles ELSE Readable(dir[d][v].files, S)

PutOnline(d, v) ==
    /\ v \in Complete(d)
    /\ online' = [online EXCEPT ![d] = v]
    /\ \E S \in SUBSET Unreadable : served' = [served EXCEPT ![d] = Readable(dir[d][v].files, S)]
    /\ UNCHANGED dir

\* The newest version goes online when the server starts; 0 is no version.
Newest(d, v) == LET ready == Complete(d) \ {0}
                IN IF ready = {} THEN v = None
                   ELSE v \in ready /\ \A w \in ready : w <= v

Reload ==
    /\ \A d \in Domain :
          /\ Newest(d, online'[d])
          /\ \E S \in SUBSET Unreadable : served'[d] = FilesOf(d, online'[d], S)
    /\ UNCHANGED dir

StoreTypeOK ==
    /\ dir \in [Domain -> [Version -> VersionDir]]
    /\ online \in [Domain -> Version \cup {None}]
    /\ served \in [Domain -> [File -> Data]]

StoreInit ==
    /\ StoreTypeOK
    /\ \A d \in Domain :
          /\ Newest(d, online[d])
          /\ \E S \in SUBSET Unreadable : served[d] = FilesOf(d, online[d], S)

StoreNext ==
    \/ \E d \in Domain, v \in Version :
          \/ Change(d, v, dir'[d][v]) /\ dir'[d][v] \in VersionDir
          \/ PutOnline(d, v)
    \/ Reload /\ StoreTypeOK'

StoreSpec == StoreInit /\ [][StoreNext]_storeVars
=============================================================================
