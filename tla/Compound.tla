------------------------------ MODULE Compound ------------------------------
(***************************************************************************)
(* The COMPOUND runtime of nfs4go (src/unnamed/part_006): Compound.Run and *)
(* the operation loop of RunSequence, the reply header and its rewrite,    *)
(* and the operations on the current and saved filehandle and on the       *)
(* namespace (PUTROOTFH, PUTPUBFH, PUTFH, GETFH, SAVEFH, RESTOREFH,        *)
(* GETATTR, ACCESS, LOOKUP, LOOKUPP, CREATE, RENAME, REMOVE, LINK) and    *)
(* on open files (OPEN, OPEN_DOWNGRADE, CLOSE, READ, WRITE, COMMIT), over *)
(* the worker's open-file table (part_008 15-80) and attribute cache      *)
(* (src/worker/cache.go), which maps a handle to the path it was last      *)
(* seen at.                                                                *)
(*                                                                         *)
(* Several COMPOUNDs of one worker run at once (one goroutine per request, *)
(* conn.go 111); each is a context with its own current and saved          *)
(* filehandle.  Each operation is one step.  The file system behind the    *)
(* worker (the vfs library, outside this repository) is modelled with     *)
(* POSIX semantics: a handle names an object, a path names at most one.    *)
(***************************************************************************)
EXTENDS Naturals, Sequences, FiniteSets

CONSTANTS
    Ctxs,        \* COMPOUND requests in flight at once
    Names,       \* component names a client uses
    Empty,       \* the empty component name
    Root,        \* the exported root directory
    InitFile,    \* a regular file present at start, or NoObj for none
    DirObjs,     \* objects Mkdir may create
    FileObjs,    \* regular files OPEN may create
    FileIds,     \* values randUint64 may return for a file id
    Seqs,        \* open-owner sequence ids a client sends
    MaxDepth,    \* bound on path length
    MaxOps,      \* bound on the operations of one COMPOUND
    NoObj, NoPath, NoFH

ASSUME Empty \notin Names /\ MaxDepth >= 1 /\ MaxOps >= 1

Objs == {Root} \cup ({InitFile} \ {NoObj}) \cup DirObjs \cup FileObjs
IsDir(o) == o \in {Root} \cup DirObjs

\* Paths from the root, as sequences of component names.
AllPaths == UNION {[1..n -> Names] : n \in 0..MaxDepth}
Parent(p) == SubSeq(p, 1, Len(p) - 1)
IsPrefix(p, q) == Len(p) <= Len(q) /\ SubSeq(q, 1, Len(p)) = p

\* The fatal statuses of Run's loop (FatalStatuses, part_006 190-197).
Fatal == {"OP_ILLEGAL", "OP_NOT_IN_SESSION", "SERVERFAULT", "NOTSUPP",
          "FHEXPIRED", "STALE"}

FH == [h : Objs, path : AllPaths]

VARIABLES
    ns,          \* the namespace: path -> object (NoObj if absent)
    used,        \* objects ever created (handles a client may hold)
    cache,       \* fs.Cache: handle -> cached path (NoPath if none)
    cur, saved,  \* per context: x.CurrentHandle, x.SavedHandle
    nops,        \* per context: x.OpsCount (0 when idle)
    res,         \* per context: the statuses of the results written
    hdr,         \* per context: the header in the output buffer
    files,       \* w.Files: a set of [fid, h, seq, acc]
    closed,      \* w.ClosedFiles
    crashed      \* a handler panicked: the server process is gone

stateVars == <<files, closed, crashed>>
vars == <<ns, used, cache, cur, saved, nops, res, hdr, files, closed, crashed>>

Statuses == Fatal \cup {"OK", "NOFILEHANDLE", "RESTOREFH", "INVAL", "NOENT",
                        "EXIST", "NOTDIR", "ISDIR", "PERM", "XDEV",
                        "NOT_ONLY_OP", "DEADSESSION", "SEQ_MISORDERED",
                        "SHARE_DENIED", "BAD_SEQID"}

Header == [count : 0..MaxOps, status : Statuses]

OpCodes == {"SEQUENCE", "PUTROOTFH", "PUTFH", "GETFH", "SAVEFH", "RESTOREFH",
            "GETATTR", "LOOKUP", "LOOKUPP", "CREATE", "RENAME", "REMOVE",
            "LINK", "UNIMPLEMENTED", "ACCESS", "OPEN", "OPEN_DOWNGRADE", "CLOSE",
            "READ", "WRITE", "COMMIT"}

ResultRec == [op : OpCodes, st : Statuses]

\* Share access of an OPEN: O_RDONLY, O_WRONLY, O_RDWR.
ShareAccess == {"READ", "WRITE", "BOTH"}
OpenFile == [fid : FileIds, h : Objs, seq : Seqs, acc : ShareAccess]

TypeOK ==
    /\ ns \in [AllPaths -> Objs \cup {NoObj}] /\ ns[<<>>] = Root
    /\ used \subseteq Objs
    /\ cache \in [Objs -> AllPaths \cup {NoPath}]
    /\ cur \in [Ctxs -> FH \cup {NoFH}] /\ saved \in [Ctxs -> FH \cup {NoFH}]
    /\ nops \in [Ctxs -> 0..MaxOps]
    /\ \A c \in Ctxs : res[c] \in Seq(ResultRec) /\ Len(res[c]) <= MaxOps
    /\ hdr \in [Ctxs -> Header]
    /\ files \subseteq OpenFile /\ closed \subseteq FileIds /\ crashed \in BOOLEAN

(* The export holds the root and at most one regular file; no request is  *)
(* running.                                                                *)
Init ==
    /\ ns = [p \in AllPaths |-> CASE p = <<>> -> Root
                                  [] p = <<CHOOSE n \in Names : TRUE>> -> InitFile
                                  [] OTHER -> NoObj]
    /\ used = {Root} \cup ({InitFile} \ {NoObj})
    /\ cache = [o \in Objs |-> NoPath]
    /\ cur = [c \in Ctxs |-> NoFH] /\ saved = [c \in Ctxs |-> NoFH]
    /\ nops = [c \in Ctxs |-> 0]
    /\ res = [c \in Ctxs |-> <<>>]
    /\ hdr = [c \in Ctxs |-> [count |-> 0, status |-> "OK"]]
    /\ files = {} /\ closed = {} /\ crashed = FALSE

-----------------------------------------------------------------------------
(* The file system (vfs) as the handlers call it.                          *)

PathsOf(o) == {p \in AllPaths : ns[p] = o}
Exists(p) == ns[p] # NoObj

(* The error of resolving a missing path: ENOTDIR when a proper prefix is  *)
(* a regular file, else ENOENT, mapped by Err2Status (part_000 102-132).   *)
MissingStatus(p) ==
    IF \E i \in 1..(Len(p) - 1) : Exists(SubSeq(p, 1, i)) /\ ~IsDir(ns[SubSeq(p, 1, i)])
      THEN "NOTDIR" ELSE "NOENT"

\* Status of fs.Handle(p): the object at p, or the error.
HandleStatus(p) == IF Exists(p) THEN "OK" ELSE MissingStatus(p)

IsEmptyDir(p) == \A q \in AllPaths : IsPrefix(p, q) /\ q # p => ~Exists(q)

\* Rename old to new: every path under old moves under new.
Moved(old, new) ==
    [p \in AllPaths |->
        IF IsPrefix(new, p)
          THEN IF Len(old) + Len(p) - Len(new) <= MaxDepth
                 THEN ns[old \o SubSeq(p, Len(new) + 1, Len(p))]
                 ELSE NoObj
        ELSE IF IsPrefix(old, p) THEN NoObj
        ELSE ns[p]]

\* The moved subtree fits in MaxDepth (bound of the model).
FitsAfterMove(old, new) ==
    \A p \in AllPaths :
        IsPrefix(old, p) /\ Exists(p) => Len(new) + Len(p) - Len(old) <= MaxDepth

(* fs.Rename(old, new) with POSIX rename semantics: the status, "OK" when *)
(* it succeeds.  A non-empty target directory gives ENOTEMPTY, which       *)
(* Err2Status does not know and maps to SERVERFAULT.                       *)
RenameStatus(old, new) ==
    CASE ~Exists(old) -> MissingStatus(old)
      [] ~Exists(Parent(new)) -> MissingStatus(Parent(new))
      [] ~IsDir(ns[Parent(new)]) -> "NOTDIR"
      [] IsPrefix(old, new) /\ old # new -> "INVAL"
      [] ns[old] = ns[new] -> "OK"
      [] Exists(new) /\ IsDir(ns[old]) /\ ~IsDir(ns[new]) -> "NOTDIR"
      [] Exists(new) /\ ~IsDir(ns[old]) /\ IsDir(ns[new]) -> "ISDIR"
      [] Exists(new) /\ ~IsEmptyDir(new) -> "SERVERFAULT"
      [] OTHER -> "OK"

-----------------------------------------------------------------------------
(* The operation loop.                                                     *)

Last(s) == s[Len(s)]

(* Compound.Run's loop (part_006 229-238) and RunSequence's (309-317): the *)
(* next operation runs while fewer than OpsCount have run and the last     *)
(* status is not fatal.                                                    *)
Running(c) ==
    /\ nops[c] > 0 /\ Len(res[c]) < nops[c]
    /\ IF res[c] = <<>> THEN TRUE ELSE Last(res[c]).st \notin Fatal

(* OperationResponse(out, op, status): the operation code and status of   *)
(* the result are appended to the reply.                                   *)
Result(c, op, st) == res' = [res EXCEPT ![c] = Append(@, [op |-> op, st |-> st])]

\* A joined path stays within the model's bound.
WithinDepth(c) == Len(cur[c].path) < MaxDepth

SetCur(c, fh) == cur' = [cur EXCEPT ![c] = fh]

(* A COMPOUND arrives (Muxv4.Compound, part_006 93-162, and Run 199-227):  *)
(* a fresh Compound with no filehandles.  For minor version 0, the header  *)
(* with OpsCount and NFS4_OK is written and the loop starts.  For 4.1 the  *)
(* first operation decides: one outside AllowedFirstOps41 gives a one-op   *)
(* OP_NOT_IN_SESSION reply, a session operation with more operations after *)
(* it NOT_ONLY_OP; a SEQUENCE whose slot is missing or out of order gives  *)
(* a one-op reply (RunSequence 254-287), else the header and the SEQUENCE  *)
(* result are written and the loop runs the rest.  A replay from the slot  *)
(* cache is modelled in SlotReplyCache.                                    *)
Start(c) ==
    /\ nops[c] = 0
    /\ \E n \in 1..MaxOps :
         \/ /\ nops' = [nops EXCEPT ![c] = n]
            /\ hdr' = [hdr EXCEPT ![c] = [count |-> n, status |-> "OK"]]
            /\ UNCHANGED res
         \/ /\ n > 1
            /\ nops' = [nops EXCEPT ![c] = n]
            /\ hdr' = [hdr EXCEPT ![c] = [count |-> n, status |-> "OK"]]
            /\ res' = [res EXCEPT ![c] = <<[op |-> "SEQUENCE", st |-> "OK"]>>]
         \/ \E st \in {"OP_NOT_IN_SESSION", "DEADSESSION", "SEQ_MISORDERED"}
                        \cup (IF n > 1 THEN {"NOT_ONLY_OP"} ELSE {}) :
            /\ hdr' = [hdr EXCEPT ![c] = [count |-> 1, status |-> st]]
            /\ UNCHANGED <<nops, res>>
    /\ UNCHANGED <<ns, used, cache, cur, saved>>

(* Mutant: the header is rewritten only when fewer operations ran.         *)
FinishIgnoringStatus(c) ==
    /\ nops[c] > 0 /\ res[c] # <<>>
    /\ Len(res[c]) = nops[c] \/ Last(res[c]).st \in Fatal
    /\ LET h == IF Len(res[c]) = nops[c]
                  THEN hdr[c]
                  ELSE [count |-> Len(res[c]), status |-> Last(res[c]).st]
       IN hdr' = [hdr EXCEPT ![c] = h]
    /\ nops' = [nops EXCEPT ![c] = 0]
    /\ res' = [res EXCEPT ![c] = <<>>]
    /\ cur' = [cur EXCEPT ![c] = NoFH] /\ saved' = [saved EXCEPT ![c] = NoFH]
    /\ UNCHANGED <<ns, used, cache>>

(* The loop ends: RewriteHeaderIfNeeded (part_006 352-366) rewrites the    *)
(* header unless the last status is NFS4_OK and every operation ran; the   *)
(* reply is sent and the Compound, with its filehandles, is dropped.     *)
Finish(c) ==
    /\ nops[c] > 0 /\ res[c] # <<>>
    /\ Len(res[c]) = nops[c] \/ Last(res[c]).st \in Fatal
    /\ LET h == IF Last(res[c]).st = "OK" /\ Len(res[c]) = nops[c]
                  THEN hdr[c]
                  ELSE [count |-> Len(res[c]), status |-> Last(res[c]).st]
       IN hdr' = [hdr EXCEPT ![c] = h]
    /\ nops' = [nops EXCEPT ![c] = 0]
    /\ res' = [res EXCEPT ![c] = <<>>]
    /\ cur' = [cur EXCEPT ![c] = NoFH] /\ saved' = [saved EXCEPT ![c] = NoFH]
    /\ UNCHANGED <<ns, used, cache>>

-----------------------------------------------------------------------------
(* Operations on the filehandles (part_006 727-1017).  Each leaves the     *)
(* namespace alone.                                                        *)

(* PUTROOTFH / PUTPUBFH: the current filehandle is the root's handle.      *)
PutRootFH(c) ==
    /\ Running(c)
    /\ SetCur(c, [h |-> Root, path |-> <<>>]) /\ Result(c, "PUTROOTFH", "OK")
    /\ UNCHANGED <<ns, used, cache, saved, nops, hdr>>

(* PUTFH(h): the path is the cached one if the cache holds the handle,     *)
(* else fs.Path(h); a handle whose object is gone is STALE.  A hard-linked *)
(* file has several paths; fs.Path returns one of them.                    *)
PutFH(c, h) ==
    /\ Running(c)
    /\ \/ /\ cache[h] # NoPath
          /\ SetCur(c, [h |-> h, path |-> cache[h]]) /\ Result(c, "PUTFH", "OK")
       \/ /\ cache[h] = NoPath /\ PathsOf(h) # {}
          /\ \E p \in PathsOf(h) : SetCur(c, [h |-> h, path |-> p])
          /\ Result(c, "PUTFH", "OK")
       \/ /\ cache[h] = NoPath /\ PathsOf(h) = {}
          /\ Result(c, "PUTFH", "STALE") /\ UNCHANGED cur
    /\ UNCHANGED <<ns, used, cache, saved, nops, hdr>>

(* GETFH: NOFILEHANDLE without a current filehandle.                       *)
GetFH(c) ==
    /\ Running(c)
    /\ Result(c, "GETFH", IF cur[c] = NoFH THEN "NOFILEHANDLE" ELSE "OK")
    /\ UNCHANGED <<ns, used, cache, cur, saved, nops, hdr>>

(* SAVEFH: x.SavedHandle = x.CurrentHandle.                                *)
SaveFH(c) ==
    /\ Running(c)
    /\ \/ cur[c] = NoFH /\ Result(c, "SAVEFH", "NOFILEHANDLE") /\ UNCHANGED saved
       \/ /\ cur[c] # NoFH /\ Result(c, "SAVEFH", "OK")
          /\ saved' = [saved EXCEPT ![c] = cur[c]]
    /\ UNCHANGED <<ns, used, cache, cur, nops, hdr>>

(* Mutant: the saved filehandle is copied before the nil check.           *)
RestoreFHAssignsFirst(c) ==
    /\ Running(c)
    /\ SetCur(c, saved[c])
    /\ Result(c, "RESTOREFH", IF saved[c] = NoFH THEN "RESTOREFH" ELSE "OK")
    /\ UNCHANGED <<ns, used, cache, saved, nops, hdr>>

(* RESTOREFH: x.CurrentHandle = x.SavedHandle.                             *)
RestoreFH(c) ==
    /\ Running(c)
    /\ \/ saved[c] = NoFH /\ Result(c, "RESTOREFH", "RESTOREFH") /\ UNCHANGED cur
       \/ saved[c] # NoFH /\ Result(c, "RESTOREFH", "OK") /\ SetCur(c, saved[c])
    /\ UNCHANGED <<ns, used, cache, saved, nops, hdr>>

(* GETATTR and ACCESS: a cached entry answers; otherwise                   *)
(* Lstat(CurrentHandle.Path) and, when it succeeds, Cache.Put(handle,      *)
(* {path, info}).  The attributes and the access mask computed from the    *)
(* mode are reply data.                                                    *)
CachedLstat(c, op) ==
    /\ Running(c)
    /\ \/ cur[c] = NoFH /\ Result(c, op, "NOFILEHANDLE") /\ UNCHANGED cache
       \/ /\ cur[c] # NoFH /\ cache[cur[c].h] # NoPath
          /\ Result(c, op, "OK") /\ UNCHANGED cache
       \/ /\ cur[c] # NoFH /\ cache[cur[c].h] = NoPath
          /\ Result(c, op, HandleStatus(cur[c].path))
          /\ cache' = IF Exists(cur[c].path)
                        THEN [cache EXCEPT ![cur[c].h] = cur[c].path]
                        ELSE cache
    /\ UNCHANGED <<ns, used, cur, saved, nops, hdr>>

GetAttr(c) == CachedLstat(c, "GETATTR")

Access(c) == CachedLstat(c, "ACCESS")

(* Mutant: fs.Handle's result becomes current before its error is seen.  *)
LookupAssignsFirst(c, name) ==
    /\ Running(c)
    /\ \/ name = Empty /\ Result(c, "LOOKUP", "INVAL") /\ UNCHANGED cur
       \/ name # Empty /\ cur[c] = NoFH /\ Result(c, "LOOKUP", "NOFILEHANDLE") /\ UNCHANGED cur
       \/ /\ name # Empty /\ cur[c] # NoFH /\ WithinDepth(c)
          /\ LET p == Append(cur[c].path, name) IN
             /\ Result(c, "LOOKUP", HandleStatus(p))
             /\ SetCur(c, [h |-> ns[p], path |-> p])
    /\ UNCHANGED <<ns, used, cache, saved, nops, hdr>>

(* LOOKUP(name): INVAL for an empty name, NOFILEHANDLE without a current   *)
(* filehandle; else fs.Handle(Join(path, name)) becomes current.           *)
Lookup(c, name) ==
    /\ Running(c)
    /\ \/ name = Empty /\ Result(c, "LOOKUP", "INVAL") /\ UNCHANGED cur
       \/ name # Empty /\ cur[c] = NoFH /\ Result(c, "LOOKUP", "NOFILEHANDLE") /\ UNCHANGED cur
       \/ /\ name # Empty /\ cur[c] # NoFH /\ WithinDepth(c)
          /\ LET p == Append(cur[c].path, name) IN
             /\ Result(c, "LOOKUP", HandleStatus(p))
             /\ IF Exists(p) THEN SetCur(c, [h |-> ns[p], path |-> p])
                             ELSE UNCHANGED cur
    /\ UNCHANGED <<ns, used, cache, saved, nops, hdr>>

(* LOOKUPP: NOFILEHANDLE, INVAL at the root; else the parent directory.    *)
LookupParent(c) ==
    /\ Running(c)
    /\ \/ cur[c] = NoFH /\ Result(c, "LOOKUPP", "NOFILEHANDLE") /\ UNCHANGED cur
       \/ cur[c] # NoFH /\ cur[c].path = <<>> /\ Result(c, "LOOKUPP", "INVAL") /\ UNCHANGED cur
       \/ /\ cur[c] # NoFH /\ cur[c].path # <<>>
          /\ LET p == Parent(cur[c].path) IN
             /\ Result(c, "LOOKUPP", HandleStatus(p))
             /\ IF Exists(p) THEN SetCur(c, [h |-> ns[p], path |-> p])
                             ELSE UNCHANGED cur
    /\ UNCHANGED <<ns, used, cache, saved, nops, hdr>>

-----------------------------------------------------------------------------
(* Operations on the namespace (part_006 1349-1637).  Each checks its      *)
(* arguments and filehandles in the code's order, calls the file system,   *)
(* and on success invalidates the cache entries of the directory handles   *)
(* it used.                                                                *)

\* Cache.Invalidate of the given handles.
Invalidate(hs) == cache' = [o \in Objs |-> IF o \in hs THEN NoPath ELSE cache[o]]

(* CREATE(name, type): a directory is made by fs.Mkdir and becomes the     *)
(* current filehandle; CREATE of a regular file is OP_ILLEGAL, of a device *)
(* or socket NOTSUPP.  Symbolic links are not modelled.                    *)
Create(c, name, type) ==
    /\ Running(c)
    /\ \/ /\ name = Empty /\ Result(c, "CREATE", "INVAL")
          /\ UNCHANGED <<ns, used, cache, cur>>
       \/ /\ name # Empty /\ cur[c] = NoFH /\ Result(c, "CREATE", "NOFILEHANDLE")
          /\ UNCHANGED <<ns, used, cache, cur>>
       \/ /\ name # Empty /\ cur[c] # NoFH /\ type # "DIR"
          /\ Result(c, "CREATE", IF type = "REG" THEN "OP_ILLEGAL" ELSE "NOTSUPP")
          /\ UNCHANGED <<ns, used, cache, cur>>
       \/ /\ name # Empty /\ cur[c] # NoFH /\ type = "DIR" /\ WithinDepth(c)
          /\ LET p == Append(cur[c].path, name)
                 st == CASE ~Exists(cur[c].path) -> MissingStatus(cur[c].path)
                         [] ~IsDir(ns[cur[c].path]) -> "NOTDIR"
                         [] Exists(p) -> "EXIST"
                         [] OTHER -> "OK"
             IN \/ /\ st # "OK" /\ Result(c, "CREATE", st)
                   /\ UNCHANGED <<ns, used, cache, cur>>
                \/ /\ st = "OK"
                   /\ \E d \in DirObjs \ used :
                        /\ ns' = [ns EXCEPT ![p] = d] /\ used' = used \cup {d}
                        /\ Invalidate({cur[c].h})
                        /\ SetCur(c, [h |-> d, path |-> p])
                   /\ Result(c, "CREATE", "OK")
    /\ UNCHANGED <<saved, nops, hdr>>

(* RENAME(old, new): INVAL for an empty name, NOFILEHANDLE without a       *)
(* current, RESTOREFH without a saved filehandle; then fs.Rename of the    *)
(* old name under the saved directory's path to the new name under the    *)
(* current one, and the two directory handles are invalidated.            *)
Rename(c, oldn, newn) ==
    /\ Running(c)
    /\ \/ /\ Empty \in {oldn, newn} /\ Result(c, "RENAME", "INVAL")
          /\ UNCHANGED <<ns, cache>>
       \/ /\ Empty \notin {oldn, newn} /\ cur[c] = NoFH
          /\ Result(c, "RENAME", "NOFILEHANDLE") /\ UNCHANGED <<ns, cache>>
       \/ /\ Empty \notin {oldn, newn} /\ cur[c] # NoFH /\ saved[c] = NoFH
          /\ Result(c, "RENAME", "RESTOREFH") /\ UNCHANGED <<ns, cache>>
       \/ /\ Empty \notin {oldn, newn} /\ cur[c] # NoFH /\ saved[c] # NoFH
          /\ WithinDepth(c) /\ Len(saved[c].path) < MaxDepth
          /\ LET old == Append(saved[c].path, oldn)
                 new == Append(cur[c].path, newn)
                 st == RenameStatus(old, new)
             IN /\ FitsAfterMove(old, new)
                /\ Result(c, "RENAME", st)
                /\ IF st = "OK"
                     THEN ns' = Moved(old, new) /\ Invalidate({saved[c].h, cur[c].h})
                     ELSE UNCHANGED <<ns, cache>>
    /\ UNCHANGED <<used, cur, saved, nops, hdr>>

(* REMOVE(name): fs.Remove, and fs.Rmdir when Remove fails.  A regular     *)
(* file or an empty directory goes; for a non-empty directory the error of *)
(* fs.Remove is returned, EISDIR or ENOTEMPTY (SERVERFAULT) depending on  *)
(* the file system.  The current directory's entry is invalidated.        *)
Remove(c, name) ==
    /\ Running(c)
    /\ \/ /\ name = Empty /\ Result(c, "REMOVE", "INVAL") /\ UNCHANGED <<ns, cache>>
       \/ /\ name # Empty /\ cur[c] = NoFH /\ Result(c, "REMOVE", "NOFILEHANDLE")
          /\ UNCHANGED <<ns, cache>>
       \/ /\ name # Empty /\ cur[c] # NoFH /\ WithinDepth(c)
          /\ LET p == Append(cur[c].path, name) IN
             \/ /\ ~Exists(p) /\ Result(c, "REMOVE", MissingStatus(p))
                /\ UNCHANGED <<ns, cache>>
             \/ /\ Exists(p) /\ (~IsDir(ns[p]) \/ IsEmptyDir(p))
                /\ ns' = [ns EXCEPT ![p] = NoObj] /\ Invalidate({cur[c].h})
                /\ Result(c, "REMOVE", "OK")
             \/ /\ Exists(p) /\ IsDir(ns[p]) /\ ~IsEmptyDir(p)
                /\ \E st \in {"ISDIR", "SERVERFAULT"} : Result(c, "REMOVE", st)
                /\ UNCHANGED <<ns, cache>>
    /\ UNCHANGED <<used, cur, saved, nops, hdr>>

(* LINK(new): INVAL, NOFILEHANDLE, RESTOREFH as RENAME; fs.Link of the     *)
(* saved filehandle's path to the new name under the current directory.   *)
(* Its result carries the operation code OP4_RENAME (part_006 1620,1632). *)
Link(c, newn) ==
    /\ Running(c)
    /\ \/ /\ newn = Empty /\ Result(c, "LINK", "INVAL") /\ UNCHANGED <<ns, cache>>
       \/ /\ newn # Empty /\ cur[c] = NoFH /\ Result(c, "LINK", "NOFILEHANDLE")
          /\ UNCHANGED <<ns, cache>>
       \/ /\ newn # Empty /\ cur[c] # NoFH /\ saved[c] = NoFH
          /\ Result(c, "LINK", "RESTOREFH") /\ UNCHANGED <<ns, cache>>
       \/ /\ newn # Empty /\ cur[c] # NoFH /\ saved[c] # NoFH /\ WithinDepth(c)
          /\ LET src == saved[c].path
                 new == Append(cur[c].path, newn)
                 st == CASE ~Exists(src) -> MissingStatus(src)
                         [] IsDir(ns[src]) -> "PERM"
                         [] ~Exists(cur[c].path) -> MissingStatus(cur[c].path)
                         [] ~IsDir(ns[cur[c].path]) -> "NOTDIR"
                         [] Exists(new) -> "EXIST"
                         [] OTHER -> "OK"
             IN /\ Result(c, "RENAME", st)
                /\ IF st = "OK"
                     THEN ns' = [ns EXCEPT ![new] = ns[src]] /\ Invalidate({cur[c].h})
                     ELSE UNCHANGED <<ns, cache>>
    /\ UNCHANGED <<used, cur, saved, nops, hdr>>

(* doOperation's default branch (part_006 508-524): an optional operation *)
(* that is not implemented is NOTSUPP, a required one SERVERFAULT, any     *)
(* other code OP_ILLEGAL; all three end the COMPOUND.                      *)
Unimplemented(c) ==
    /\ Running(c)
    /\ \E st \in {"NOTSUPP", "SERVERFAULT", "OP_ILLEGAL"} :
         Result(c, "UNIMPLEMENTED", st)
    /\ UNCHANGED <<ns, used, cache, cur, saved, nops, hdr>>

(* An attribute cache entry outlives its timeout: Cache.Get misses it and  *)
(* Cache.gc deletes it (src/worker/cache.go 40-54, 73-87).                 *)
Expire(o) ==
    /\ cache[o] # NoPath
    /\ cache' = [cache EXCEPT ![o] = NoPath]
    /\ UNCHANGED <<ns, used, cur, saved, nops, res, hdr>>

-----------------------------------------------------------------------------
(* Operations on open files (part_006 1797-2313).  A stateid argument is   *)
(* the file id it encodes (FileID of Other) and its seqid, 1 or 2.         *)

OpenIds == {f.fid : f \in files}
FileOf(fid) == CHOOSE f \in files : f.fid = fid

\* The code dereferences a nil x.CurrentHandle: the handler goroutine
\* panics, nothing recovers it, and the server process exits.
Crash == crashed' = TRUE /\ UNCHANGED <<ns, used, cache, cur, saved, nops, res, hdr, files, closed>>

(* The status of opening path with the flags of acc and how: FileRead      *)
(* ignores the flags, so a read-only OPEN never creates; FileWrite and     *)
(* OpenFile add O_CREATE unless NOCREATE, and O_EXCL for GUARDED.          *)
OpenStatus(path, how, acc) ==
    CASE Exists(path) -> IF acc # "READ" /\ how = "GUARDED" THEN "EXIST" ELSE "OK"
      [] acc = "READ" \/ how = "NOCREATE" -> MissingStatus(path)
      [] ~Exists(Parent(path)) -> MissingStatus(Parent(path))
      [] ~IsDir(ns[Parent(path)]) -> "NOTDIR"
      [] OTHER -> "OK"

(* OPEN(claim, how, acc, deny, seq): claim is a name (CLAIM_NULL), "FH"    *)
(* (CLAIM_FH) or "PREVIOUS" (the delegation claims).  The path is taken   *)
(* from x.CurrentHandle before it is checked (line 1877).  A file already  *)
(* open with the same (client, seqid) is a replay, answered with its       *)
(* stateid before anything else is looked at.  Otherwise the file is       *)
(* opened, created if missing, added with a fresh file id, and becomes the *)
(* current filehandle.  The owner's client is registered (a missing one,  *)
(* STALE_CLIENTID, is in Worker); the file id draw never repeats a closed  *)
(* id (a 64-bit random collision).                                          *)
Open(c, claim, how, acc, deny, seq) ==
    /\ Running(c)
    /\ \/ cur[c] = NoFH /\ Crash
       \/ /\ cur[c] # NoFH /\ claim = "PREVIOUS"
          /\ Result(c, "OPEN", "NOTSUPP") /\ UNCHANGED <<ns, used, cache, cur, files, crashed>>
       \/ /\ cur[c] # NoFH /\ claim # "PREVIOUS" /\ deny
          /\ Result(c, "OPEN", "SHARE_DENIED") /\ UNCHANGED <<ns, used, cache, cur, files, crashed>>
       \/ /\ cur[c] # NoFH /\ claim # "PREVIOUS" /\ ~deny /\ \E f \in files : f.seq = seq
          /\ Result(c, "OPEN", "OK") /\ UNCHANGED <<ns, used, cache, cur, files, crashed>>
       \/ /\ cur[c] # NoFH /\ claim # "PREVIOUS" /\ ~deny /\ \A f \in files : f.seq # seq
          /\ claim \in Names => WithinDepth(c)
          /\ LET path == IF claim \in Names THEN Append(cur[c].path, claim) ELSE cur[c].path
                 st == IF Exists(path) /\ IsDir(ns[path]) THEN "ISDIR"
                       ELSE OpenStatus(path, how, acc)
             IN \/ st # "OK" /\ Result(c, "OPEN", st) /\ UNCHANGED <<ns, used, cache, cur, files>>
                \/ /\ st = "OK"
                   /\ \E o \in IF Exists(path) THEN {ns[path]} ELSE FileObjs \ used,
                         fid \in FileIds \ (OpenIds \cup closed) :
                        LET h == IF claim = "FH" THEN cur[c].h ELSE o IN
                        /\ ns' = [ns EXCEPT ![path] = o] /\ used' = used \cup {o}
                        /\ Invalidate(IF how # "NOCREATE" THEN {cur[c].h}
                                       ELSE IF acc # "READ" THEN {h} ELSE {})
                        /\ files' = files \cup {[fid |-> fid, h |-> h, seq |-> seq, acc |-> acc]}
                        /\ SetCur(c, [h |-> h, path |-> path])
                   /\ Result(c, "OPEN", "OK")
          /\ UNCHANGED crashed
    /\ UNCHANGED <<saved, nops, hdr, closed>>

(* OPEN_DOWNGRADE: BAD_SEQID for a seqid above 1 or a file not open.      *)
OpenDowngrade(c, fid, sid) ==
    /\ Running(c)
    /\ Result(c, "OPEN_DOWNGRADE", IF sid > 1 \/ fid \notin OpenIds THEN "BAD_SEQID" ELSE "OK")
    /\ UNCHANGED <<ns, used, cache, cur, saved, nops, hdr, files, closed, crashed>>

(* CLOSE: BAD_SEQID for a seqid above 1, NOFILEHANDLE without a current    *)
(* filehandle; an id in ClosedFiles is closed again with NFS4_OK; else     *)
(* RemoveFile moves the id to ClosedFiles, the handle's cache entry is     *)
(* invalidated and the file closed, whose error (a remote file system's)  *)
(* is answered through Err2Status.                                         *)
Close(c, fid, sid) ==
    /\ Running(c)
    /\ \/ sid > 1 /\ Result(c, "CLOSE", "BAD_SEQID") /\ UNCHANGED <<cache, files, closed>>
       \/ /\ sid = 1 /\ cur[c] = NoFH
          /\ Result(c, "CLOSE", "NOFILEHANDLE") /\ UNCHANGED <<cache, files, closed>>
       \/ /\ sid = 1 /\ cur[c] # NoFH /\ fid \in closed
          /\ Result(c, "CLOSE", "OK") /\ UNCHANGED <<cache, files, closed>>
       \/ /\ sid = 1 /\ cur[c] # NoFH /\ fid \notin closed /\ fid \notin OpenIds
          /\ Result(c, "CLOSE", "BAD_SEQID") /\ UNCHANGED <<cache, files, closed>>
       \/ /\ sid = 1 /\ cur[c] # NoFH /\ fid \notin closed /\ fid \in OpenIds
          /\ files' = files \ {FileOf(fid)} /\ closed' = closed \cup {fid}
          /\ Invalidate({FileOf(fid).h})
          /\ \E st \in {"OK", "SERVERFAULT"} : Result(c, "CLOSE", st)
    /\ UNCHANGED <<ns, used, cur, saved, nops, hdr, crashed>>

(* READ: NOFILEHANDLE, then BAD_SEQID for a seqid above 1, a file not      *)
(* open or open on another handle; a file opened write-only has a         *)
(* NopReaderAt, whose ReadAt fails with ErrPermission.                     *)
Read(c, fid, sid) ==
    /\ Running(c)
    /\ Result(c, "READ",
         CASE cur[c] = NoFH -> "NOFILEHANDLE"
           [] sid > 1 \/ fid \notin OpenIds -> "BAD_SEQID"
           [] FileOf(fid).h # cur[c].h -> "BAD_SEQID"
           [] FileOf(fid).acc = "WRITE" -> "PERM"
           [] OTHER -> "OK")
    /\ UNCHANGED <<ns, used, cache, cur, saved, nops, hdr, files, closed, crashed>>

(* WRITE: the seqid is checked before the filehandle; a file opened       *)
(* read-only has a NopWriterAt (ErrPermission).  Only a FILE_SYNC4 write   *)
(* invalidates the handle's cache entry.                                   *)
Write(c, fid, sid, sync) ==
    /\ Running(c)
    /\ LET st == CASE sid > 1 -> "BAD_SEQID"
                    [] cur[c] = NoFH -> "NOFILEHANDLE"
                    [] fid \notin OpenIds -> "BAD_SEQID"
                    [] FileOf(fid).h # cur[c].h -> "BAD_SEQID"
                    [] FileOf(fid).acc = "READ" -> "PERM"
                    [] OTHER -> "OK"
       IN /\ Result(c, "WRITE", st)
          /\ IF st = "OK" /\ sync THEN Invalidate({FileOf(fid).h}) ELSE UNCHANGED cache
    /\ UNCHANGED <<ns, used, cur, saved, nops, hdr, files, closed, crashed>>

(* COMMIT invalidates x.CurrentHandle.Handle without a nil check.          *)
Commit(c) ==
    /\ Running(c)
    /\ \/ cur[c] = NoFH /\ Crash
       \/ /\ cur[c] # NoFH /\ Invalidate({cur[c].h}) /\ Result(c, "COMMIT", "OK")
          /\ UNCHANGED <<ns, used, cur, saved, nops, hdr, files, closed, crashed>>

ArgNames == Names \cup {Empty}

FileOps(c) ==
    \/ Commit(c)
    \/ \E claim \in ArgNames \cup {"FH", "PREVIOUS"}, how \in {"NOCREATE", "UNCHECKED", "GUARDED"},
         acc \in ShareAccess, deny \in BOOLEAN, seq \in Seqs : Open(c, claim, how, acc, deny, seq)
    \/ \E fid \in FileIds, sid \in {1, 2} :
         \/ OpenDowngrade(c, fid, sid) \/ Close(c, fid, sid) \/ Read(c, fid, sid)
         \/ \E sync \in BOOLEAN : Write(c, fid, sid, sync)

NamespaceOps ==
    \/ \E o \in Objs : Expire(o)
    \/ \E c \in Ctxs :
         \/ Start(c) \/ Finish(c)
         \/ PutRootFH(c) \/ GetFH(c) \/ SaveFH(c) \/ RestoreFH(c)
         \/ GetAttr(c) \/ Access(c) \/ LookupParent(c) \/ Unimplemented(c)
         \/ \E h \in used : PutFH(c, h)
         \/ \E n \in ArgNames : Lookup(c, n) \/ Remove(c, n) \/ Link(c, n)
         \/ \E n \in ArgNames, t \in {"DIR", "REG", "BLK"} : Create(c, n, t)
         \/ \E m, n \in ArgNames : Rename(c, m, n)

Next ==
    /\ ~crashed
    /\ \/ \E c \in Ctxs : FileOps(c)
       \/ NamespaceOps /\ UNCHANGED stateVars

Spec == Init /\ [][Next]_vars

-----------------------------------------------------------------------------
(* Spec section 8 property 8: the reply of a COMPOUND holds one result per *)
(* operation executed, only its last result may have a fatal status, and  *)
(* the header (rewritten by RewriteHeaderIfNeeded) gives the number of     *)
(* results and the status of the last one.                                 *)
ReplyHeaderMatchesResults ==
    [][\A c \in Ctxs : nops[c] > 0 /\ nops'[c] = 0 =>
         /\ hdr'[c].count = Len(res[c])
         /\ hdr'[c].status = Last(res[c]).st
         /\ \A i \in 1..(Len(res[c]) - 1) : res[c][i].st \notin Fatal]_vars

(* An operation that fails leaves the COMPOUND's current and saved         *)
(* filehandles as they were: every handler returns its error before it     *)
(* assigns x.CurrentHandle or x.SavedHandle.                               *)
FailedOpKeepsFileHandles ==
    [][\A c \in Ctxs :
         Len(res'[c]) = Len(res[c]) + 1 /\ Last(res'[c]).st # "OK"
            => cur'[c] = cur[c] /\ saved'[c] = saved[c]]_vars

(* Spec section 5 (PUTFH): the handle is resolved to its path through the  *)
(* file system, a cached entry preferred; the path a successful PUTFH      *)
(* makes current names the object of the handle.                           *)
PutFHResolvesHandle ==
    \A c \in Ctxs :
        res[c] # <<>> /\ Last(res[c]) = [op |-> "PUTFH", st |-> "OK"]
            => ns[cur[c].path] = cur[c].h
=============================================================================
