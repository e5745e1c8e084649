---------------------------- MODULE CourseFiles ----------------------------
(***************************************************************************)
(* Files of course storage on the disk of the machine the notebooks run    *)
(* on: local_path, which materialises an object and reuses the copy while  *)
(* the object is unchanged (client storage/_mount.py, _fs.py), and the     *)
(* memoised results of @storage.cache (_cache.py).                         *)
(*                                                                         *)
(* Kernels of several notebooks share the disk; each may be killed between *)
(* any two steps, and the disk may be lost.  One object and one memoised   *)
(* call stand for all.  A step is one call on the disk or on the bucket.   *)
(***************************************************************************)
EXTENDS Naturals, FiniteSets

CONSTANTS
  Absent,        \* no file, no object
  Kernel,
  Content,       \* what the object may hold
  Size(_),       \* the length of a content
  MaxEvents      \* bound: calls begun, objects written, kernels killed, disks lost

ASSUME FilesAssumption == Absent \notin Content /\ MaxEvents \in Nat

VARIABLES
  object,        \* the bucket: the object's content, which is its etag too
  copy,          \* the local copy: a content or "torn"
  part,          \* the download in progress, one name for all kernels
  meta,          \* the entry recorded beside the copy
  path,          \* each kernel's call of local_path
  memo,          \* where the memoised result is: local disk, shared and private cache
  call,          \* each kernel's call of the memoised function
  computed,      \* a call computed the result and returned
  events,
  crossed        \* downloads overlapped, or the object went back to an earlier content

fileVars == <<object, copy, part, meta, path, memo, call, computed, events, crossed>>

NoPath == [at |-> "idle", entry |-> Absent, got |-> Absent, seen |-> {}]
NoCall == [at |-> "idle", from |-> "nowhere"]
Nowhere == [local |-> "no", shared |-> "no", private |-> "no"]

FilesInit ==
  /\ object \in Content
  /\ copy = Absent /\ part = Absent /\ meta = Absent
  /\ path = [k \in Kernel |-> NoPath]
  /\ memo = Nowhere
  /\ call = [k \in Kernel |-> NoCall]
  /\ computed = FALSE /\ events = 0 /\ crossed = FALSE

Event == events < MaxEvents /\ events' = events + 1
UNCHANGED_memo == UNCHANGED <<memo, call, computed>>
UNCHANGED_path == UNCHANGED <<object, copy, part, meta, path, crossed>>

At(k, step) == path[k].at = step
Goto(k, step) == path' = [path EXCEPT ![k].at = step]

-----------------------------------------------------------------------------
(* The object, written from anywhere: put, upload, sync.                   *)

\* Mount.sync: a file of the same size counts as unchanged.
Synced(v) == IF Size(object) = Size(v) THEN object ELSE v

\* The contents some file, record or call on this machine still has.
Known == {copy, part, meta} \cup {path[k].entry : k \in Kernel} \cup {path[k].got : k \in Kernel}

\* The calls in progress have then seen both contents. An object going back to a content
\* it had before is crossed: the copy's entry cannot tell.
Write(v) ==
  /\ Event /\ v # object
  /\ object' = v
  /\ path' = [k \in Kernel |-> IF At(k, "idle") THEN path[k] ELSE [path[k] EXCEPT !.seen = @ \cup {v}]]
  /\ crossed' = (crossed \/ v \in Known)
  /\ UNCHANGED <<copy, part, meta>> /\ UNCHANGED_memo

PutObject(v) == Write(v)
SyncObject(v) == Write(Synced(v))

-----------------------------------------------------------------------------
(* Mount.local_path.                                                       *)

\* The object's entry is asked for.
HeadRequest(k) ==
  /\ Event /\ At(k, "idle")
  /\ path' = [path EXCEPT ![k] = [NoPath EXCEPT !.at = "compare", !.entry = object, !.seen = {object}]]
  /\ UNCHANGED <<object, copy, part, meta, crossed>> /\ UNCHANGED_memo

\* Mistake: the copy is reused while its size is right.
SameSize(entry) == meta # Absent /\ Size(meta) = Size(entry)

\* The recorded size and etag are the object's.
SameEntry(entry) == meta # Absent /\ Size(meta) = Size(entry) /\ meta = entry

Reuse(k) ==
  /\ At(k, "compare")
  /\ IF copy # Absent /\ SameEntry(path[k].entry)
     THEN path' = [path EXCEPT ![k].at = "returned", ![k].got = copy]
     ELSE Goto(k, "get")
  /\ UNCHANGED <<object, copy, part, meta, events, crossed>> /\ UNCHANGED_memo

Downloading(k) == path[k].at \in {"write", "replace", "record"}

\* The record is left alone until the copy is there.
NotedAfter(k) == meta

\* ObstoreFS.download: the object as it is now; the partial file is begun ...
Get(k) ==
  /\ At(k, "get")
  /\ path' = [path EXCEPT ![k].at = "write", ![k].got = object]
  /\ part' = "torn"
  /\ meta' = NotedAfter(k)
  /\ crossed' = (crossed \/ \E j \in Kernel : Downloading(j))
  /\ UNCHANGED <<object, copy, events>> /\ UNCHANGED_memo

\* ... filled ...
Fill(k) ==
  /\ At(k, "write")
  /\ part' = path[k].got
  /\ Goto(k, "replace")
  /\ UNCHANGED <<object, copy, meta, events, crossed>> /\ UNCHANGED_memo

\* ... and renamed; when another kernel has renamed it already the call fails.
Replace(k) ==
  /\ At(k, "replace")
  /\ IF part = Absent THEN path' = [path EXCEPT ![k] = NoPath] /\ UNCHANGED <<copy, part>>
     ELSE copy' = part /\ part' = Absent /\ Goto(k, "record")
  /\ UNCHANGED <<object, meta, events, crossed>> /\ UNCHANGED_memo

\* The entry the call began with.
EntryRead(k) == path[k].entry

Record(k) ==
  /\ At(k, "record")
  /\ meta' = EntryRead(k)
  /\ path' = [path EXCEPT ![k].at = "returned", ![k].got = copy]
  /\ UNCHANGED <<object, copy, part, events, crossed>> /\ UNCHANGED_memo

PathUsed(k) ==
  /\ At(k, "returned")
  /\ path' = [path EXCEPT ![k] = NoPath]
  /\ UNCHANGED <<object, copy, part, meta, events, crossed>> /\ UNCHANGED_memo

-----------------------------------------------------------------------------
(* @storage.cache.                                                         *)

Called(k, at, from) == call' = [call EXCEPT ![k] = [at |-> at, from |-> from]]

\* A call begins: the local result, then the shared one, then one's own.
FirstHit ==
  IF memo.local # "no" THEN "local"
  ELSE IF memo.shared # "no" THEN "shared"
  ELSE IF memo.private # "no" THEN "private" ELSE "nowhere"

\* A torn local result cannot be unpickled: the call fails, and so does every later one.
LookUp(k) ==
  /\ Event /\ call[k].at = "idle"
  /\ IF FirstHit = "local" THEN Called(k, IF memo.local = "whole" THEN "returned" ELSE "failed", "local")
     ELSE Called(k, "store", FirstHit)
  /\ UNCHANGED <<memo, computed>> /\ UNCHANGED_path

\* The result, found in a tier or computed, is written to the disk ...
StoreBegin(k) ==
  /\ call[k].at = "store"
  /\ memo' = [memo EXCEPT !.local = "torn"]
  /\ Called(k, "storing", call[k].from)
  /\ UNCHANGED <<computed, events>> /\ UNCHANGED_path

StoreEnd(k) ==
  /\ call[k].at = "storing"
  /\ memo' = [memo EXCEPT !.local = "whole"]
  /\ Called(k, IF call[k].from = "nowhere" THEN "keep" ELSE "returned", call[k].from)
  /\ UNCHANGED <<computed, events>> /\ UNCHANGED_path

\* Mistake: a result that is on the disk is kept well enough.
KeptHere == memo.private

\* ... and, when it was computed, to one's own cache.
KeptPrivately == "whole"

Keep(k) ==
  /\ call[k].at = "keep"
  /\ memo' = [memo EXCEPT !.private = KeptPrivately]
  /\ computed' = TRUE
  /\ Called(k, "returned", call[k].from)
  /\ UNCHANGED events /\ UNCHANGED_path

CallUsed(k) ==
  /\ call[k].at \in {"returned", "failed"}
  /\ call' = [call EXCEPT ![k] = NoCall]
  /\ UNCHANGED <<memo, computed, events>> /\ UNCHANGED_path

\* The instructor's run of the same code warms the shared cache.
WarmShared ==
  /\ Event /\ memo.shared = "no"
  /\ memo' = [memo EXCEPT !.shared = "whole"]
  /\ UNCHANGED <<call, computed>> /\ UNCHANGED_path

-----------------------------------------------------------------------------
(* The notebook is stopped; the sandbox, with its disk, is torn down.      *)

KernelDies(k) ==
  /\ Event /\ ~(At(k, "idle") /\ call[k].at = "idle")
  /\ path' = [path EXCEPT ![k] = NoPath]
  /\ call' = [call EXCEPT ![k] = NoCall]
  /\ UNCHANGED <<object, copy, part, meta, memo, computed, crossed>>

DiskLost ==
  /\ Event /\ \A k \in Kernel : At(k, "idle") /\ call[k].at = "idle"
  /\ copy' = Absent /\ part' = Absent /\ meta' = Absent
  /\ memo' = [memo EXCEPT !.local = "no"]
  /\ UNCHANGED <<object, path, call, computed, crossed>>

FilesNext ==
  \/ \E v \in Content : PutObject(v) \/ SyncObject(v)
  \/ WarmShared \/ DiskLost
  \/ \E k \in Kernel :
       \/ HeadRequest(k) \/ Reuse(k) \/ Get(k) \/ Fill(k) \/ Replace(k) \/ Record(k) \/ PathUsed(k)
       \/ LookUp(k) \/ StoreBegin(k) \/ StoreEnd(k) \/ Keep(k) \/ CallUsed(k)
       \/ KernelDies(k)

FilesSpec == FilesInit /\ [][FilesNext]_fileVars

-----------------------------------------------------------------------------
(* Properties.                                                             *)

FilesTypeOK ==
  /\ object \in Content
  /\ copy \in Content \cup {Absent, "torn"} /\ part \in Content \cup {Absent, "torn"}
  /\ meta \in Content \cup {Absent}
  /\ path \in [Kernel ->
       [at : {"idle", "compare", "get", "write", "replace", "record", "returned"},
        entry : Content \cup {Absent}, got : Content \cup {Absent, "torn"}, seen : SUBSET Content]]
  /\ call \in [Kernel ->
       [at : {"idle", "store", "storing", "keep", "returned", "failed"},
        from : {"local", "shared", "private", "nowhere"}]]
  /\ LET tier == {"no", "torn", "whole"} IN memo \in [local : tier, shared : tier, private : tier]
  /\ events \in 0..MaxEvents
  /\ meta # Absent => copy # Absent

\* local_path ("reused while the object is unchanged"): the file a call returns is whole
\* and is what the object held at some moment of that call, whatever kernels were killed,
\* while no two download it at once.
PathIsTheObject ==
  /\ FilesTypeOK
  /\ ~crossed => \A k \in Kernel : At(k, "returned") => path[k].got \in path[k].seen

\* @storage.cache ("computed once per argument set"): a call begun after one has computed
\* the result and returned never computes it again, in this sandbox or the next.
ComputedOnce ==
  [][\A k \in Kernel :
       call[k].at = "idle" /\ call'[k] = [at |-> "store", from |-> "nowhere"] => ~computed]_fileVars
=============================================================================
