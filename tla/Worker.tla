------------------------------- MODULE Worker -------------------------------
(***************************************************************************)
(* Workers of nfs4go (package worker, src/unnamed/part_007, part_008) as   *)
(* handed out by Server.GetWorker (src/unnamed/part_009), composed with    *)
(* the client registry (ClientRegistry) through the OPEN and CLOSE         *)
(* handlers of src/unnamed/part_006.                                       *)
(*                                                                         *)
(* A worker is identified by a model value; the server map holds the       *)
(* current worker of each key (session id, uid).  Each worker method runs  *)
(* under the worker's mutex and GetWorker under the server mutex, so each  *)
(* is one atomic step; the handlers call them one after the other without *)
(* holding any lock in between, so a handler is a goroutine with a program *)
(* counter and other goroutines may run between its calls.  Worker.cleanup *)
(* runs in a goroutine of its own, started by Discard, Close or            *)
(* autoDiscard, and is a step of its own.                                  *)
(*                                                                         *)
(* Random ids (file ids, worker session ids, client ids) never repeat:     *)
(* each is drawn among the values not drawn before.                        *)
(***************************************************************************)
EXTENDS Integers, FiniteSets, TLC

CONSTANTS
    ClientIds, CacheIds, Names, Verifiers, Creds, MaxConfirm, SeqInputs,
    MaxBusy,
    Keys,          \* server map keys: (session id, uid)
    WorkerIds,     \* worker objects worker.New may create
    FileIds,       \* values randUint64 may return for a file id
    OpenSeqs,      \* OPEN sequence ids (args.SeqID) the clients use
    Handlers,      \* goroutines serving OPEN and CLOSE operations
    NoWorker,      \* no worker in the map / held by a handler
    NoCreds,       \* a worker object not created yet
    IdleTimeouts   \* may workers reach IdleTimeout during the behaviour?

ASSUME NoWorker \notin WorkerIds /\ NoCreds \notin Creds

VARIABLES
    clients, sessions,   \* the registry (ClientRegistry)
    workerOf,    \* s.workers[sessionID][uid]: key -> worker, or NoWorker
    wCreds,      \* w.Creds, NoCreds while the worker does not exist
    inUse,       \* w.inUse
    discarded,   \* w.discarded
    files,       \* w.Files: a set of [fid, client, seq]
    closedFiles, \* w.ClosedFiles
    launched,    \* history: how often `go w.cleanup()` was executed
    cleaned,     \* how many of those cleanup goroutines have run
    hs,          \* handler goroutines
    issued,      \* file ids OPEN returned to clients (history)
    usedIds,     \* client ids the registry ever issued (history)
    closeOk,     \* file ids some CLOSE answered NFS4_OK (history)
    closeBad     \* file ids some CLOSE answered NFS4ERR_BAD_SEQID (history)

Reg == INSTANCE ClientRegistry


regVars == <<clients, sessions>>
wVars == <<workerOf, wCreds, inUse, discarded, files, closedFiles, launched, cleaned>>
vars == <<regVars, wVars, hs, issued, usedIds, closeOk, closeBad>>

FileRec == [fid : FileIds, client : ClientIds, seq : OpenSeqs]
Pc == {"idle", "o_get", "o_fs", "o_lookup", "o_add", "c_fs", "c_isrem",
       "c_rem", "release"}
Handler == [pc : Pc, key : Keys, cred : Creds, cid : ClientIds,
            seq : OpenSeqs, fid : FileIds, w : WorkerIds \cup {NoWorker}]

Created(w) == wCreds[w] # NoCreds

IdleHandler == [pc |-> "idle", key |-> CHOOSE k \in Keys : TRUE,
                cred |-> CHOOSE c \in Creds : TRUE,
                cid |-> CHOOSE i \in ClientIds : TRUE,
                seq |-> CHOOSE q \in OpenSeqs : TRUE,
                fid |-> CHOOSE f \in FileIds : TRUE, w |-> NoWorker]

TypeOK ==
    /\ Reg!TypeOK
    /\ workerOf \in [Keys -> WorkerIds \cup {NoWorker}]
    /\ wCreds \in [WorkerIds -> Creds \cup {NoCreds}]
    /\ inUse \in [WorkerIds -> Nat]
    /\ discarded \in [WorkerIds -> BOOLEAN]
    /\ files \in [WorkerIds -> SUBSET FileRec]
    /\ closedFiles \in [WorkerIds -> SUBSET FileIds]
    /\ launched \in [WorkerIds -> Nat] /\ cleaned \in [WorkerIds -> Nat]
    /\ hs \in [Handlers -> Handler]
    /\ issued \subseteq FileIds /\ usedIds \subseteq ClientIds
    /\ closeOk \subseteq FileIds /\ closeBad \subseteq FileIds

Init ==
    /\ Reg!Init
    /\ workerOf = [k \in Keys |-> NoWorker]
    /\ wCreds = [w \in WorkerIds |-> NoCreds]
    /\ inUse = [w \in WorkerIds |-> 0]
    /\ discarded = [w \in WorkerIds |-> FALSE]
    /\ files = [w \in WorkerIds |-> {}]
    /\ closedFiles = [w \in WorkerIds |-> {}]
    /\ launched = [w \in WorkerIds |-> 0]
    /\ cleaned = [w \in WorkerIds |-> 0]
    /\ hs = [h \in Handlers |-> IdleHandler]
    /\ issued = {} /\ usedIds = {} /\ closeOk = {} /\ closeBad = {}

-----------------------------------------------------------------------------
(* Handler h moves on to program counter pc.                               *)
Goto(h, pc) == hs' = [hs EXCEPT ![h].pc = pc]

(* Handler h is done with its operation and holds no worker any more.      *)
Finish(h) == hs' = [hs EXCEPT ![h] = IdleHandler]

(* Client.Add(d) (part_002 lines 41-53; Done is Add(-1)) on the File's    *)
(* client pointer: a record the registry has dropped is no longer in       *)
(* `clients`, and its counter is not observable.                           *)
BusyAdd(cid, d) ==
    clients' = [id \in DOMAIN clients |->
                  IF id = cid THEN [clients[id] EXCEPT !.busy = @ + d]
                  ELSE clients[id]]

(* Mutant of GetWorker: worker.New leaves inUse at 0 for its first user.  *)
GetWorkerInUseZero(h, next) ==
    LET k == hs[h].key
        c == hs[h].cred
        w == workerOf[k]
        reuse == w # NoWorker /\ wCreds[w] = c /\ ~discarded[w]
        discard == w # NoWorker /\ wCreds[w] # c /\ ~discarded[w]
    IN
    \/ /\ reuse
       /\ inUse' = [inUse EXCEPT ![w] = @ + 1]
       /\ hs' = [hs EXCEPT ![h].pc = next, ![h].w = w]
       /\ UNCHANGED <<workerOf, wCreds, discarded, launched>>
    \/ /\ ~reuse
       /\ \E nw \in WorkerIds :
            /\ ~Created(nw)
            /\ wCreds' = [wCreds EXCEPT ![nw] = c]
            /\ UNCHANGED inUse
            /\ workerOf' = [workerOf EXCEPT ![k] = nw]
            /\ hs' = [hs EXCEPT ![h].pc = next, ![h].w = nw]
       /\ discarded' = IF discard THEN [discarded EXCEPT ![w] = TRUE]
                                  ELSE discarded
       /\ launched' = IF discard /\ inUse[w] = 0
                      THEN [launched EXCEPT ![w] = @ + 1] ELSE launched
    /\ UNCHANGED <<files, closedFiles, cleaned>>

(* Mutant of GetWorker: Worker.Use does not refuse a discarded worker.     *)
GetWorkerUseDiscarded(h, next) ==
    LET k == hs[h].key
        c == hs[h].cred
        w == workerOf[k]
        reuse == w # NoWorker /\ wCreds[w] = c
        discard == w # NoWorker /\ wCreds[w] # c /\ ~discarded[w]
    IN
    \/ /\ reuse
       /\ inUse' = [inUse EXCEPT ![w] = @ + 1]
       /\ hs' = [hs EXCEPT ![h].pc = next, ![h].w = w]
       /\ UNCHANGED <<workerOf, wCreds, discarded, launched>>
    \/ /\ ~reuse
       /\ \E nw \in WorkerIds :
            /\ ~Created(nw)
            /\ wCreds' = [wCreds EXCEPT ![nw] = c]
            /\ inUse' = [inUse EXCEPT ![nw] = 1]
            /\ workerOf' = [workerOf EXCEPT ![k] = nw]
            /\ hs' = [hs EXCEPT ![h].pc = next, ![h].w = nw]
       /\ discarded' = IF discard THEN [discarded EXCEPT ![w] = TRUE]
                                  ELSE discarded
       /\ launched' = IF discard /\ inUse[w] = 0
                      THEN [launched EXCEPT ![w] = @ + 1] ELSE launched
    /\ UNCHANGED <<files, closedFiles, cleaned>>

(***************************************************************************)
(* Server.GetWorker (part_009 lines 179-230) for handler h: the current    *)
(* worker of the key is reused when its credentials are equal and Use      *)
(* succeeds; when the credentials changed it is Discarded; otherwise, a    *)
(* new worker (inUse = 1) replaces it in the map.  The handler then holds  *)
(* the worker and goes on at program counter next.                         *)
(***************************************************************************)
GetWorker(h, next) ==
    LET k == hs[h].key
        c == hs[h].cred
        w == workerOf[k]
        reuse == w # NoWorker /\ wCreds[w] = c /\ ~discarded[w]
        discard == w # NoWorker /\ wCreds[w] # c /\ ~discarded[w]
    IN
    \/ /\ reuse                                           \* w.Use() succeeds
       /\ inUse' = [inUse EXCEPT ![w] = @ + 1]
       /\ hs' = [hs EXCEPT ![h].pc = next, ![h].w = w]
       /\ UNCHANGED <<workerOf, wCreds, discarded, launched>>
    \/ /\ ~reuse
       /\ \E nw \in WorkerIds :
            /\ ~Created(nw)                               \* worker.New
            /\ wCreds' = [wCreds EXCEPT ![nw] = c]
            /\ inUse' = [inUse EXCEPT ![nw] = 1]
            /\ workerOf' = [workerOf EXCEPT ![k] = nw]
            /\ hs' = [hs EXCEPT ![h].pc = next, ![h].w = nw]
       /\ discarded' = IF discard THEN [discarded EXCEPT ![w] = TRUE]
                                  ELSE discarded          \* w.Discard()
       /\ launched' = IF discard /\ inUse[w] = 0
                      THEN [launched EXCEPT ![w] = @ + 1] ELSE launched
    /\ UNCHANGED <<files, closedFiles, cleaned>>

(* Mutant of Release: Close starts cleanup of a discarded worker without   *)
(* waiting for inUse to reach 0.                                           *)
ReleaseIgnoringInUse(h) ==
    LET w == hs[h].w IN
    /\ hs[h].pc = "release"
    /\ inUse' = [inUse EXCEPT ![w] = @ - 1]
    /\ launched' = IF discarded[w] THEN [launched EXCEPT ![w] = @ + 1]
                                   ELSE launched
    /\ Finish(h)
    /\ UNCHANGED <<regVars, workerOf, wCreds, discarded, files, closedFiles,
                   cleaned, issued, usedIds, closeOk, closeBad>>

(* Worker.Close (part_007 lines 114-125), the deferred fs.Close() of every *)
(* handler: the last user of a discarded worker starts its cleanup.        *)
Release(h) ==
    LET w == hs[h].w IN
    /\ hs[h].pc = "release"
    /\ inUse' = [inUse EXCEPT ![w] = @ - 1]
    /\ launched' = IF discarded[w] /\ inUse[w] - 1 = 0
                   THEN [launched EXCEPT ![w] = @ + 1] ELSE launched
    /\ Finish(h)
    /\ UNCHANGED <<regVars, workerOf, wCreds, discarded, files, closedFiles,
                   cleaned, issued, usedIds, closeOk, closeBad>>

(* Worker.autoDiscard (part_007 lines 156-192): the idle timeout or the    *)
(* cancellation of the server context discards the worker; it is cleaned  *)
(* up at once when nobody uses it.  lastUse is not modelled: as time       *)
(* passes, any worker can become idle for IdleTimeout.                     *)
AutoDiscard(w) ==
    /\ IdleTimeouts
    /\ Created(w) /\ ~discarded[w]
    /\ discarded' = [discarded EXCEPT ![w] = TRUE]
    /\ launched' = IF inUse[w] = 0 THEN [launched EXCEPT ![w] = @ + 1]
                                   ELSE launched
    /\ UNCHANGED <<regVars, workerOf, wCreds, inUse, files, closedFiles,
                   cleaned, hs, issued, usedIds, closeOk, closeBad>>

(* Mutant of Cleanup: the files are closed without Client.Done.           *)
CleanupNoDone(w) ==
    /\ cleaned[w] < launched[w]
    /\ files' = [files EXCEPT ![w] = {}]
    /\ closedFiles' = [closedFiles EXCEPT ![w] = {}]
    /\ cleaned' = [cleaned EXCEPT ![w] = @ + 1]
    /\ UNCHANGED <<clients, sessions, workerOf, wCreds, inUse, discarded,
                   launched, hs, issued, usedIds, closeOk, closeBad>>

(* Worker.cleanup (part_007 lines 127-150), in its own goroutine without   *)
(* the worker lock: every open file is closed and its client's busy count  *)
(* decremented, and the tables are emptied.                                *)
Cleanup(w) ==
    /\ cleaned[w] < launched[w]
    /\ clients' = [id \in DOMAIN clients |->
                     [clients[id] EXCEPT !.busy =
                        @ - Cardinality({f \in files[w] : f.client = id})]]
    /\ files' = [files EXCEPT ![w] = {}]
    /\ closedFiles' = [closedFiles EXCEPT ![w] = {}]
    /\ cleaned' = [cleaned EXCEPT ![w] = @ + 1]
    /\ UNCHANGED <<sessions, workerOf, wCreds, inUse, discarded, launched,
                   hs, issued, usedIds, closeOk, closeBad>>
-----------------------------------------------------------------------------
(***************************************************************************)
(* OPEN (part_006 lines 1797-2050).  The decoding, the flags and the file  *)
(* system calls touch no shared state; what does is, in order:             *)
(*   Clients.Get (line 1907), x.FS = GetWorker (1915),                     *)
(*   GetFileByClientSeqID (1920), AddFile (2025), fs.Close (deferred).     *)
(* StartOpen picks the operation's arguments; a client only uses client    *)
(* ids it was given.  The bound on FileIds is kept by not starting an OPEN *)
(* that could find no fresh file id.                                       *)
(***************************************************************************)
OpenPcs == {"o_get", "o_fs", "o_lookup", "o_add"}

StartOpen(h, k, c, cid, q) ==
    /\ hs[h].pc = "idle"
    /\ Cardinality(issued) + Cardinality({g \in Handlers : hs[g].pc \in OpenPcs})
         < Cardinality(FileIds)
    /\ hs' = [hs EXCEPT ![h] = [@ EXCEPT !.pc = "o_get", !.key = k, !.cred = c,
                                          !.cid = cid, !.seq = q]]
    /\ UNCHANGED <<regVars, wVars, issued, usedIds, closeOk, closeBad>>

(* Line 1907: Clients.Get, or NFS4ERR_STALE_CLIENTID.                      *)
OpenGetClient(h) ==
    /\ hs[h].pc = "o_get"
    /\ IF Reg!Confirmed(hs[h].cid)
       THEN Reg!Get(hs[h].cid) /\ Goto(h, "o_fs")
       ELSE UNCHANGED regVars /\ Finish(h)
    /\ UNCHANGED <<wVars, issued, usedIds, closeOk, closeBad>>

OpenGetWorker(h) ==
    /\ hs[h].pc = "o_fs"
    /\ GetWorker(h, "o_lookup")
    /\ UNCHANGED <<regVars, issued, usedIds, closeOk, closeBad>>

(* Worker.GetFileByClientSeqID (part_008 lines 41-52).                     *)
GetFileByClientSeqID(w, cid, q) ==
    {f \in files[w] : f.client = cid /\ f.seq = q}

(* Lines 1919-1934: a file already open for (client, seqid) is a replay   *)
(* and its stateid is returned again.                                      *)
OpenLookup(h) ==
    LET r == hs[h] IN
    /\ r.pc = "o_lookup"
    /\ IF GetFileByClientSeqID(r.w, r.cid, r.seq) # {}
       THEN Goto(h, "release")
       ELSE Goto(h, "o_add")
    /\ UNCHANGED <<regVars, wVars, issued, usedIds, closeOk, closeBad>>

(* Worker.AddFile (part_008 lines 15-30) with the client pointer Get       *)
(* returned: a fresh file id, and Client.Add(1) on that record.            *)
OpenAddFile(h) ==
    LET r == hs[h] IN
    /\ r.pc = "o_add"
    /\ \E fid \in FileIds \ issued :
         /\ files' = [files EXCEPT ![r.w] = @ \cup
                        {[fid |-> fid, client |-> r.cid, seq |-> r.seq]}]
         /\ issued' = issued \cup {fid}
    /\ BusyAdd(r.cid, 1)
    /\ Goto(h, "release")
    /\ UNCHANGED <<sessions, workerOf, wCreds, inUse, discarded, closedFiles,
                   launched, cleaned, usedIds, closeOk, closeBad>>

(***************************************************************************)
(* CLOSE (part_006 lines 2085-2151): x.FS (2110), IsRemovedFile (2114),    *)
(* RemoveFile (2125), fs.Close (deferred).  The client closes a stateid    *)
(* OPEN returned (seq_id 1, with a current filehandle).                    *)
(***************************************************************************)
StartClose(h, k, c, fid) ==
    /\ hs[h].pc = "idle"
    /\ hs' = [hs EXCEPT ![h] = [@ EXCEPT !.pc = "c_fs", !.key = k, !.cred = c,
                                          !.fid = fid]]
    /\ UNCHANGED <<regVars, wVars, issued, usedIds, closeOk, closeBad>>

CloseGetWorker(h) ==
    /\ hs[h].pc = "c_fs"
    /\ GetWorker(h, "c_isrem")
    /\ UNCHANGED <<regVars, issued, usedIds, closeOk, closeBad>>

(* Worker.IsRemovedFile (part_008 lines 72-79), lines 2114-2123: a file   *)
(* already closed is answered NFS4_OK with seq_id 2.                       *)
CloseIsRemoved(h) ==
    LET r == hs[h] IN
    /\ r.pc = "c_isrem"
    /\ IF r.fid \in closedFiles[r.w]
       THEN closeOk' = closeOk \cup {r.fid} /\ Goto(h, "release")
       ELSE UNCHANGED closeOk /\ Goto(h, "c_rem")
    /\ UNCHANGED <<regVars, wVars, issued, usedIds, closeBad>>

(* Worker.RemoveFile (part_008 lines 54-70), lines 2125-2150: the file is  *)
(* dropped, remembered in ClosedFiles and its client's busy count          *)
(* decremented; an unknown file id is NFS4ERR_BAD_SEQID.                   *)
CloseRemoveFile(h) ==
    LET r == hs[h]
        open == {f \in files[r.w] : f.fid = r.fid}
    IN
    /\ r.pc = "c_rem"
    /\ \/ \E f \in open :
            /\ files' = [files EXCEPT ![r.w] = @ \ {f}]
            /\ closedFiles' = [closedFiles EXCEPT ![r.w] = @ \cup {r.fid}]
            /\ BusyAdd(f.client, -1)
            /\ closeOk' = closeOk \cup {r.fid}
            /\ UNCHANGED closeBad
       \/ /\ open = {}
          /\ closeBad' = closeBad \cup {r.fid}
          /\ UNCHANGED <<clients, files, closedFiles, closeOk>>
    /\ Goto(h, "release")
    /\ UNCHANGED <<sessions, workerOf, wCreds, inUse, discarded, launched,
                   cleaned, issued, usedIds>>

-----------------------------------------------------------------------------
(***************************************************************************)
(* The registry operations that decide which clients exist: SETCLIENTID /  *)
(* EXCHANGE_ID (Add), SETCLIENTID_CONFIRM, DESTROY_CLIENTID, the expiry    *)
(* sweep and the passing of time.  A client id is never drawn twice.       *)
(***************************************************************************)
RegistryStep ==
    /\ \/ \E n \in Names, v \in Verifiers, c \in Creds :
            /\ Reg!Add(n, v, c)
            /\ (DOMAIN clients' \ DOMAIN clients) \cap usedIds = {}
       \/ \E id \in DOMAIN clients, v \in 1..MaxConfirm, c \in Creds :
            Reg!Confirm(id, v, c)
       \/ \E id \in DOMAIN clients : Reg!RemoveClient(id) \/ Reg!Expire(id)
       \/ Reg!RemoveExpiredClients
    /\ usedIds' = usedIds \cup DOMAIN clients'
    /\ UNCHANGED <<wVars, hs, issued, closeOk, closeBad>>

Next ==
    \/ RegistryStep
    \/ \E h \in Handlers :
         \/ \E k \in Keys, c \in Creds, cid \in usedIds, q \in OpenSeqs :
              StartOpen(h, k, c, cid, q)
         \/ \E k \in Keys, c \in Creds, fid \in issued : StartClose(h, k, c, fid)
         \/ OpenGetClient(h) \/ OpenGetWorker(h) \/ OpenLookup(h)
         \/ OpenAddFile(h) \/ CloseGetWorker(h) \/ CloseIsRemoved(h)
         \/ CloseRemoveFile(h) \/ Release(h)
    \/ \E w \in WorkerIds : AutoDiscard(w) \/ Cleanup(w)

Spec == Init /\ [][Next]_vars

-----------------------------------------------------------------------------
(***************************************************************************)
(* Properties.                                                             *)
(***************************************************************************)

(* The files of client id across all workers.                              *)
OpenFilesOf(id) == UNION {{<<w, f.fid>> : f \in {g \in files[w] : g.client = id}} :
                          w \in WorkerIds}

(* Busy accounting (spec section 5): the busy count of every registered    *)
(* client equals the number of its files open in any worker, live or      *)
(* discarded, across AddFile, RemoveFile, worker cleanup and the expiry    *)
(* sweep; so the sweep and DESTROY_CLIENTID see exactly whether a client   *)
(* still has open state.                                                   *)
BusyCountsOpenFiles ==
    \A id \in DOMAIN clients : clients[id].busy = Cardinality(OpenFilesOf(id))

(* Worker lifecycle: no cleanup goroutine is started for a worker a        *)
(* handler still holds (between GetWorker and its deferred Close), however *)
(* Discard, autoDiscard and Close interleave; cleanup closes the files and *)
(* the file system without the worker lock.                                *)
NoCleanupWhileHeld ==
    \A h \in Handlers : hs[h].w # NoWorker => launched[hs[h].w] = 0

(* Worker lifecycle: cleanup is started at most once per worker; a second  *)
(* run would call afterCleanup (s.wg.Done) twice and panic.                *)
CleanupAtMostOnce == \A w \in WorkerIds : launched[w] <= 1

(* Spec section 5: a client with open state is not removed, so every open  *)
(* file belongs to a client of the registry.                               *)
OpenFileClientRegistered ==
    \A w \in WorkerIds : \A f \in files[w] : f.client \in DOMAIN clients

(* Spec section 8, property 9: CLOSE is idempotent, so no file id that a  *)
(* CLOSE answered NFS4_OK is ever answered NFS4ERR_BAD_SEQID by another.   *)
CloseIdempotent == closeOk \cap closeBad = {}
=============================================================================
