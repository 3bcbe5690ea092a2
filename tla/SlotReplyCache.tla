--------------------------- MODULE SlotReplyCache ---------------------------
(***************************************************************************)
(* The NFSv4.1 slot reply cache of nfs4go: Compound.RunSequence           *)
(* (src/unnamed/part_006) over the Slot records built by                   *)
(* Client.BuildSession (src/unnamed/part_002).                             *)
(*                                                                         *)
(* Every COMPOUND runs in its own goroutine (Conn.RunMux), and the slot    *)
(* fields SequenceID, ContainsData and Buf are read and written by         *)
(* RunSequence without any lock.  A request is therefore modelled as a     *)
(* goroutine with a program counter, and each unlocked access that another *)
(* goroutine can interleave with is a step of its own:                     *)
(*   "check"   lines 270-287: compare the slot with the request, and       *)
(*             either answer from the cache / with an error, or go on;     *)
(*   "advance" lines 289-290: slot.SequenceID, slot.ContainsData written;  *)
(*   "exec"    lines 295-323: the remaining operations are executed and    *)
(*             the reply is encoded into the fresh buffer `out`;           *)
(*   "store"   lines 325-327: if slot.ContainsData, out.Copy(slot.Buf).    *)
(*                                                                         *)
(* A reply is abstracted to the identity of the (slot, sequence id) whose  *)
(* execution produced it; a buffer is a sequence of such replies, because  *)
(* Buf.Copy (src/bufpool/buf.go) appends at the target's write cursor.     *)
(*                                                                         *)
(* The client side is the NFS client and the network: a client sends the  *)
(* next sequence id of a slot only after a reply for the current one, and  *)
(* the network may deliver again any request sent earlier (a retransmission*)
(* after a timeout or a reconnect, or a delayed duplicate).                *)
(***************************************************************************)
EXTENDS Naturals, Sequences, FiniteSets

CONSTANTS
    Sessions,            \* session ids (the cache-id half of a session-id)
    PersistentSessions,  \* sessions created with CREATE_SESSION4_FLAG_PERSIST
    SlotIds,             \* slot ids of a session (0..MaxSlotID in the code)
    MaxSeq,              \* bound on the sequence ids the client uses
    MaxReqs,             \* bound on the number of requests delivered
    CacheThisChoices,    \* the cache_this values the client sends
    RetransmitWhileBusy  \* may a request of a slot arrive while an earlier
                         \* request of that slot is still being served?

ASSUME PersistentSessions \subseteq Sessions
ASSUME MaxSeq \in Nat \ {0} /\ MaxReqs \in Nat \ {0}
ASSUME RetransmitWhileBusy \in BOOLEAN
ASSUME CacheThisChoices \subseteq BOOLEAN /\ CacheThisChoices # {}

Slots == Sessions \X SlotIds

\* The reply produced by executing the request with sequence id q on slot s.
Reply(s, q) == [slot |-> s, seq |-> q]

Status == {"NFS4_OK", "OK_FROM_CACHE", "RETRY_UNCACHED_REP", "SEQ_MISORDERED"}

Pc == {"check", "advance", "exec", "store", "done"}

VARIABLES
    slotSeq,     \* slot.SequenceID
    slotCached,  \* slot.ContainsData
    slotBuf,     \* contents of slot.Buf (persistent sessions only)
    reqs,        \* every request delivered so far, one goroutine each
    cseq,        \* client: the sequence id it last used on each slot
    ccache,      \* client: the cache_this flag it chose for that request
    cbusy,       \* client: waiting for the reply of cseq[s]
    execs        \* history: how often (s, q) has been executed

vars == <<slotSeq, slotCached, slotBuf, reqs, cseq, ccache, cbusy, execs>>

HasBuf(s) == s[1] \in PersistentSessions

TypeOK ==
    /\ slotSeq \in [Slots -> 0..MaxSeq]
    /\ slotCached \in [Slots -> BOOLEAN]
    /\ slotBuf \in [Slots -> Seq([slot : Slots, seq : 1..MaxSeq])]
    /\ reqs \in Seq([slot : Slots, seq : 1..MaxSeq, cacheThis : BOOLEAN,
                     pc : Pc, out : Seq([slot : Slots, seq : 1..MaxSeq]),
                     status : Status \cup {"none"}])
    /\ cseq \in [Slots -> 0..MaxSeq]
    /\ ccache \in [Slots -> BOOLEAN]
    /\ cbusy \in [Slots -> BOOLEAN]
    /\ execs \in [Slots \X (1..MaxSeq) -> Nat]

(***************************************************************************)
(* BuildSession: every slot starts with SequenceID 0, no cached data, and  *)
(* (when persistent) an empty buffer from the pool.                        *)
(***************************************************************************)
Init ==
    /\ slotSeq = [s \in Slots |-> 0]
    /\ slotCached = [s \in Slots |-> FALSE]
    /\ slotBuf = [s \in Slots |-> <<>>]
    /\ reqs = <<>>
    /\ cseq = [s \in Slots |-> 0]
    /\ ccache = [s \in Slots |-> FALSE]
    /\ cbusy = [s \in Slots |-> FALSE]
    /\ execs = [p \in Slots \X (1..MaxSeq) |-> 0]

Deliver(s, q, c) ==
    reqs' = Append(reqs, [slot |-> s, seq |-> q, cacheThis |-> c,
                          pc |-> "check", out |-> <<>>, status |-> "none"])

SlotIdle(s) == \A i \in DOMAIN reqs : reqs[i].slot = s => reqs[i].pc = "done"

(* The client sends a new request on a slot it is not waiting on.          *)
ClientSend(s, c) ==
    /\ Len(reqs) < MaxReqs
    /\ ~cbusy[s]
    /\ cseq[s] < MaxSeq
    /\ cseq' = [cseq EXCEPT ![s] = @ + 1]
    /\ ccache' = [ccache EXCEPT ![s] = c]
    /\ cbusy' = [cbusy EXCEPT ![s] = TRUE]
    /\ Deliver(s, cseq[s] + 1, c)
    /\ UNCHANGED <<slotSeq, slotCached, slotBuf, execs>>

(* The network delivers again a request sent earlier on the slot.          *)
Redeliver(i) ==
    LET r == reqs[i] IN
    /\ Len(reqs) < MaxReqs
    /\ RetransmitWhileBusy \/ SlotIdle(r.slot)
    /\ Deliver(r.slot, r.seq, r.cacheThis)
    /\ UNCHANGED <<slotSeq, slotCached, slotBuf, cseq, ccache, cbusy, execs>>

(* Request i finishes with the given status and reply body; the client     *)
(* stops waiting when the reply is for the sequence id it is waiting on.   *)
Finish(i, st, body) ==
    /\ reqs' = [reqs EXCEPT ![i].pc = "done", ![i].status = st, ![i].out = body]
    /\ cbusy' = [cbusy EXCEPT ![reqs[i].slot] = @ /\ reqs[i].seq # cseq[reqs[i].slot]]

Goto(i, pc) == reqs' = [reqs EXCEPT ![i].pc = pc]

(***************************************************************************)
(* RunSequence lines 270-287: the checks on the slot, in the code's order. *)
(***************************************************************************)
Check(i) ==
    LET r == reqs[i]
        s == r.slot
    IN
    /\ r.pc = "check"
    /\ CASE slotSeq[s] = r.seq /\ slotCached[s] ->
              Finish(i, "OK_FROM_CACHE", slotBuf[s])
         [] slotSeq[s] = r.seq /\ ~HasBuf(s) ->
              Finish(i, "RETRY_UNCACHED_REP", <<>>)
         [] slotSeq[s] # r.seq /\ slotSeq[s] + 1 # r.seq ->
              Finish(i, "SEQ_MISORDERED", <<>>)
         [] OTHER ->
              Goto(i, "advance") /\ UNCHANGED cbusy
    /\ UNCHANGED <<slotSeq, slotCached, slotBuf, cseq, ccache, execs>>

(* RunSequence lines 289-290.                                              *)
Advance(i) ==
    LET r == reqs[i] IN
    /\ r.pc = "advance"
    /\ slotSeq' = [slotSeq EXCEPT ![r.slot] = r.seq]
    /\ slotCached' = [slotCached EXCEPT ![r.slot] = r.cacheThis /\ HasBuf(r.slot)]
    /\ Goto(i, "exec")
    /\ UNCHANGED <<slotBuf, cseq, ccache, cbusy, execs>>

(* RunSequence lines 292-323: the header, the SEQUENCE result and the      *)
(* remaining operations are encoded into `out`.                            *)
Exec(i) ==
    LET r == reqs[i] IN
    /\ r.pc = "exec"
    /\ execs' = [execs EXCEPT ![<<r.slot, r.seq>>] = @ + 1]
    /\ reqs' = [reqs EXCEPT ![i].pc = "store", ![i].out = <<Reply(r.slot, r.seq)>>]
    /\ UNCHANGED <<slotSeq, slotCached, slotBuf, cseq, ccache, cbusy>>

(* Buf.Copy: appends the source's bytes at the target's write cursor.      *)
CopyInto(target, src) == target \o src

(* RunSequence lines 325-329: the reply is cached if the slot (as it is    *)
(* now) says so, and is sent.                                              *)
Store(i) ==
    LET r == reqs[i] IN
    /\ r.pc = "store"
    /\ slotBuf' = IF slotCached[r.slot]
                  THEN [slotBuf EXCEPT ![r.slot] = CopyInto(@, r.out)]
                  ELSE slotBuf
    /\ Finish(i, "NFS4_OK", r.out)
    /\ UNCHANGED <<slotSeq, slotCached, cseq, ccache, execs>>

Next ==
    \/ \E s \in Slots, c \in CacheThisChoices : ClientSend(s, c)
    \/ \E i \in DOMAIN reqs : Redeliver(i)
    \/ \E i \in DOMAIN reqs : Check(i) \/ Advance(i) \/ Exec(i) \/ Store(i)

Spec == Init /\ [][Next]_vars

-----------------------------------------------------------------------------
(***************************************************************************)
(* Properties.                                                             *)
(***************************************************************************)

(* A slot's sequence id never moves backwards: RunSequence only advances   *)
(* slot.SequenceID to the request's id after the check at lines 283-287    *)
(* has rejected ids other than the current and the next one, even when the *)
(* network delivers old requests again.                                    *)
SlotSeqNeverDecreases ==
    [][\A s \in Slots : slotSeq'[s] >= slotSeq[s]]_slotSeq

(* A request the client asked to be cached (cache_this on a persistent     *)
(* session) is executed at most once: every later delivery of it is served *)
(* by the cache branch at line 270 instead of running its operations again.*)
CachedRequestExecutedOnce ==
    \A i \in DOMAIN reqs :
        reqs[i].cacheThis /\ HasBuf(reqs[i].slot)
            => execs[<<reqs[i].slot, reqs[i].seq>>] <= 1

(* Spec section 8, property 6: a reply served from the slot cache (line    *)
(* 272) is exactly the reply that the execution of the same (slot,         *)
(* sequence id) produced.                                                  *)
ReplayReturnsOriginalReply ==
    \A i \in DOMAIN reqs :
        reqs[i].status = "OK_FROM_CACHE"
            => reqs[i].out = <<Reply(reqs[i].slot, reqs[i].seq)>>

(* Spec section 4.9: a request whose sequence id equals the slot's and     *)
(* that has no cached reply is answered RETRY_UNCACHED_REP, so no (slot,   *)
(* sequence id) is ever executed twice.                                    *)
NoReexecution ==
    \A p \in Slots \X (1..MaxSeq) : execs[p] <= 1

=============================================================================
