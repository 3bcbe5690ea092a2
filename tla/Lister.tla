------------------------------- MODULE Lister -------------------------------
(***************************************************************************)
(* Directory listers of one worker (src/worker/lister.go) and the READDIR *)
(* handler that uses them (Compound.ReadDir, src/unnamed/part_006).       *)
(*                                                                         *)
(* READDIR with cookie 0 opens a vfs lister on the current directory and  *)
(* stores it in w.Listers under a cookie verifier (AddLister); a later    *)
(* READDIR with that verifier reads on from it (GetLister); the READDIR   *)
(* that reaches the end closes it (CloseLister) and answers the verifier  *)
(* EOFLister.  cleanupListers closes listers idle for ListerExpiration,   *)
(* and Worker.cleanup closes them all once the worker is discarded and    *)
(* its last user is gone.  Each lister method holds the worker lock; the  *)
(* handler calls them one after the other and runs ListAt without it, so  *)
(* READDIR is a goroutine with a program counter.                          *)
(*                                                                         *)
(* A lister object is a model value; it lists the directory it was opened *)
(* on.  How many entries a ListAt returns, and whether it reaches the end, *)
(* depends on the directory's contents and the client's counts, which are *)
(* abstracted: any ListAt may return a batch, reach EOF or fail.  Time is *)
(* a flag per verifier: `fresh` holds those whose lastSeen lies within     *)
(* ListerExpiration.                                                       *)
(*                                                                         *)
(* A discarded worker is never handed out again (Worker.Use fails and     *)
(* GetWorker makes a new one), so READDIRs start only on a live worker;   *)
(* those of the next worker are outside this model.                        *)
(***************************************************************************)
EXTENDS Naturals, FiniteSets

CONSTANTS
    Dirs,        \* directories a client lists
    RandVerfs,   \* values randUint64 may return for a verifier
    EOFLister,   \* worker.EOFLister (0xffffffffffffffff)
    Objs,        \* vfs.ListerAt objects fs.List may return
    Handlers,    \* goroutines serving READDIR operations
    NoObj, NoDir

Verfs == {0} \cup RandVerfs

ASSUME EOFLister \notin Verfs /\ NoObj \notin Objs /\ NoDir \notin Dirs

VARIABLES
    listers,     \* w.Listers: verifier -> lister object
    fresh,       \* verifiers whose lastSeen is within ListerExpiration
    dirOf,       \* the directory each lister object lists (NoDir: not opened)
    closes,      \* how often Close was called on each lister object
    inUse, discarded, launched, cleaned,  \* the worker's lifecycle
    stopped,     \* cleanupListers has returned
    hs,          \* READDIR goroutines
    conts        \* [dir, verf] continuations replies handed to clients

vars == <<listers, fresh, dirOf, closes, inUse, discarded, launched, cleaned,
          stopped, hs, conts>>

Pc == {"idle", "list", "close", "release"}
Handler == [pc : Pc, dir : Dirs \cup {NoDir}, verf : Verfs \cup {EOFLister},
            obj : Objs \cup {NoObj}]
IdleHandler == [pc |-> "idle", dir |-> NoDir, verf |-> EOFLister, obj |-> NoObj]

TypeOK ==
    /\ DOMAIN listers \subseteq Verfs /\ \A v \in DOMAIN listers : listers[v] \in Objs
    /\ fresh \subseteq Verfs
    /\ dirOf \in [Objs -> Dirs \cup {NoDir}] /\ closes \in [Objs -> Nat]
    /\ inUse \in Nat /\ discarded \in BOOLEAN
    /\ launched \in Nat /\ cleaned \in Nat /\ stopped \in BOOLEAN
    /\ hs \in [Handlers -> Handler]
    /\ conts \subseteq [dir : Dirs, verf : Verfs \cup {EOFLister}]

\* worker.New: no listers; inUse is 1 for the goroutine that created the
\* worker, which is not one of the READDIR goroutines and has released it.
Init ==
    /\ listers = [v \in {} |-> NoObj] /\ fresh = {}
    /\ dirOf = [o \in Objs |-> NoDir] /\ closes = [o \in Objs |-> 0]
    /\ inUse = 0 /\ discarded = FALSE /\ launched = 0 /\ cleaned = 0
    /\ stopped = FALSE
    /\ hs = [h \in Handlers |-> IdleHandler]
    /\ conts = {}

lifeVars == <<inUse, discarded, launched, cleaned>>

\* The map without the verifiers of S.
Without(S) == [v \in DOMAIN listers \ S |-> listers[v]]

\* Lister.Close on each object of S.
CloseAll(S) == closes' = [o \in Objs |-> IF o \in S THEN closes[o] + 1 ELSE closes[o]]

-----------------------------------------------------------------------------
(* AddLister (lister.go 20-35): the loop starts at index 0 and draws      *)
(* random values only while the index is taken or EOFLister; the lister   *)
(* is stored under the index found, with lastSeen set.                     *)
NewIndex(v) == v \notin DOMAIN listers /\ (v = 0 \/ 0 \in DOMAIN listers)

AddLister(v, o) ==
    /\ listers' = [u \in DOMAIN listers \cup {v} |-> IF u = v THEN o ELSE listers[u]]
    /\ fresh' = fresh \cup {v}

(* READDIR with cookie 0 (part_006 1137-1158): x.FS (Worker.Use), then    *)
(* fs.List on the current directory; a List error is answered at once     *)
(* (DiscardOnServerFault discards the worker on a server fault); else the *)
(* new lister is added and its verifier goes into the reply.               *)
ReadDirFirst(h, d) ==
    /\ hs[h].pc = "idle" /\ ~discarded
    /\ inUse' = inUse + 1
    /\ \/ \E o \in Objs, v \in Verfs :
            /\ dirOf[o] = NoDir /\ NewIndex(v)
            /\ dirOf' = [dirOf EXCEPT ![o] = d]
            /\ AddLister(v, o)
            /\ hs' = [hs EXCEPT ![h] = [pc |-> "list", dir |-> d, verf |-> v, obj |-> o]]
            /\ UNCHANGED discarded
       \/ /\ discarded' \in BOOLEAN
          /\ hs' = [hs EXCEPT ![h] = [IdleHandler EXCEPT !.pc = "release"]]
          /\ UNCHANGED <<listers, fresh, dirOf>>
    /\ UNCHANGED <<closes, launched, cleaned, stopped, conts>>

(* READDIR with a cookie other than 0 (part_006 1159-1180): the verifier  *)
(* EOFLister is answered with an empty EOF reply; another is looked up    *)
(* by GetLister (lister.go 37-49, which refreshes lastSeen), and a        *)
(* missing one is NFS4ERR_NOT_SAME.  The lister is not checked against    *)
(* the current directory.                                                  *)
ReadDirNext(h, c) ==
    /\ hs[h].pc = "idle" /\ ~discarded
    /\ inUse' = inUse + 1
    /\ IF c.verf \in DOMAIN listers
       THEN /\ fresh' = fresh \cup {c.verf}
            /\ hs' = [hs EXCEPT ![h] = [pc |-> "list", dir |-> c.dir, verf |-> c.verf,
                                        obj |-> listers[c.verf]]]
       ELSE /\ hs' = [hs EXCEPT ![h] = [IdleHandler EXCEPT !.pc = "release"]]
            /\ UNCHANGED fresh
    /\ UNCHANGED <<listers, dirOf, closes, discarded, launched, cleaned, stopped, conts>>

(* ListAt without the lock (part_006 1182-1200): a batch short of the end *)
(* hands the client a continuation with the same verifier; EOF goes on to *)
(* CloseLister; any other error discards the worker.                       *)
ListAt(h) ==
    LET r == hs[h] IN
    /\ r.pc = "list"
    /\ \/ /\ conts' = conts \cup {[dir |-> r.dir, verf |-> r.verf]}
          /\ hs' = [hs EXCEPT ![h].pc = "release"]
          /\ UNCHANGED discarded
       \/ /\ hs' = [hs EXCEPT ![h].pc = "close"]
          /\ UNCHANGED <<conts, discarded>>
       \/ /\ discarded' = TRUE
          /\ hs' = [hs EXCEPT ![h].pc = "release"]
          /\ UNCHANGED conts
    /\ UNCHANGED <<listers, fresh, dirOf, closes, inUse, launched, cleaned, stopped>>

(* EOF (part_006 1241-1250): CloseLister (lister.go 51-63) on the request's *)
(* verifier deletes whatever lister that verifier names now and closes it; *)
(* a Close error is answered as an error, otherwise the reply carries       *)
(* EOFLister.                                                                *)
CloseLister(h) ==
    LET v == hs[h].verf IN
    /\ hs[h].pc = "close"
    /\ IF v \in DOMAIN listers
       THEN listers' = Without({v}) /\ CloseAll({listers[v]})
       ELSE UNCHANGED <<listers, closes>>
    /\ conts' \in {conts, conts \cup {[dir |-> hs[h].dir, verf |-> EOFLister]}}
    /\ hs' = [hs EXCEPT ![h].pc = "release"]
    /\ UNCHANGED <<fresh, dirOf, lifeVars, stopped>>

(* The deferred fs.Close (Worker.Close, part_007 114-125): the last user  *)
(* of a discarded worker starts its cleanup.                               *)
Release(h) ==
    /\ hs[h].pc = "release"
    /\ inUse' = inUse - 1
    /\ launched' = IF discarded /\ inUse = 1 THEN launched + 1 ELSE launched
    /\ hs' = [hs EXCEPT ![h] = IdleHandler]
    /\ UNCHANGED <<listers, fresh, dirOf, closes, discarded, cleaned, stopped, conts>>

-----------------------------------------------------------------------------
(* Time passes for a lister nobody looked up: its lastSeen is now older     *)
(* than ListerExpiration.                                                    *)
Age(v) ==
    /\ v \in fresh
    /\ fresh' = fresh \ {v}
    /\ UNCHANGED <<listers, dirOf, closes, lifeVars, stopped, hs, conts>>

(* One tick of cleanupListers (lister.go 65-91): a discarded worker stops  *)
(* the loop; otherwise every expired lister is deleted and closed.          *)
CleanupListers ==
    /\ ~stopped
    /\ IF discarded
       THEN stopped' = TRUE /\ UNCHANGED <<listers, closes>>
       ELSE LET old == DOMAIN listers \ fresh
            IN /\ listers' = Without(old)
               /\ CloseAll({listers[v] : v \in old})
               /\ UNCHANGED stopped
    /\ UNCHANGED <<fresh, dirOf, lifeVars, hs, conts>>

(* Worker.autoDiscard (part_007 156-192): idle timeout or cancellation.    *)
AutoDiscard ==
    /\ ~discarded
    /\ discarded' = TRUE
    /\ launched' = IF inUse = 0 THEN launched + 1 ELSE launched
    /\ UNCHANGED <<listers, fresh, dirOf, closes, inUse, cleaned, stopped, hs, conts>>

(* Worker.cleanup (part_007 127-150): every lister in the map is closed    *)
(* and the map replaced by an empty one.                                    *)
Cleanup ==
    /\ cleaned < launched
    /\ CloseAll({listers[v] : v \in DOMAIN listers})
    /\ listers' = Without(DOMAIN listers)
    /\ cleaned' = cleaned + 1
    /\ UNCHANGED <<fresh, dirOf, inUse, discarded, launched, stopped, hs, conts>>

Next ==
    \/ \E h \in Handlers :
         \/ \E d \in Dirs : ReadDirFirst(h, d)
         \/ \E c \in conts : ReadDirNext(h, c)
         \/ ListAt(h) \/ CloseLister(h) \/ Release(h)
    \/ \E v \in Verfs : Age(v)
    \/ CleanupListers \/ AutoDiscard \/ Cleanup

Spec == Init /\ [][Next]_vars

-----------------------------------------------------------------------------
(* A cookie verifier names one listing (spec 3 and 5: listers are keyed by *)
(* a random 64-bit id; a continuation whose lister is gone is              *)
(* NFS4ERR_NOT_SAME): a READDIR continuing the listing of a directory      *)
(* reads that directory's lister, never one that another READDIR opened    *)
(* on another directory since.                                             *)
ContinuationListsItsDirectory ==
    \A h \in Handlers : hs[h].pc = "list" => dirOf[hs[h].obj] = hs[h].dir
=============================================================================
