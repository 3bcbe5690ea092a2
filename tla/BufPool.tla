------------------------------ MODULE BufPool ------------------------------
(***************************************************************************)
(* The global buffer pool (src/bufpool) and the buffers that pass through  *)
(* it: the request buffer ReceiveCall takes (src/rpc.go), the reply buffer *)
(* Muxv4.Compound takes (src/unnamed/part_006), and the slot buffers of a  *)
(* persistent session (Client.BuildSession, src/unnamed/part_002).         *)
(*                                                                         *)
(* A buffer is a model value; its contents (buf[r:w]) are a sequence of    *)
(* items, each the call or the reply of one request, because Write,        *)
(* Allocate+Commit and Copy all append at the write cursor and only Reset *)
(* (in Put) empties it.  Pool.Get hands out the head of p.bufs or a new    *)
(* buffer; Pool.Put resets a buffer and appends it to p.bufs.              *)
(*                                                                         *)
(* Every request is served by its own goroutine (Conn.RunMux), so the      *)
(* steps of different requests interleave freely:                          *)
(*   "recv"   ReceiveCall: Get, and the call read into the buffer;         *)
(*   "start"  Compound decodes the call from it and Gets dataOut;          *)
(*   "check"  RunSequence lines 263-290 (SEQUENCE): GetSlot, then a replay *)
(*            from slot.Buf, an error reply, or the slot advanced;         *)
(*   "exec"   the operations encode the reply into dataOut (for            *)
(*            DESTROY_SESSION, RemoveSession runs here);                   *)
(*   "store"  RunSequence lines 325-327: out.Copy(slot.Buf) if cached;     *)
(*   "send"   SendReply writes dataOut to the wire and Discards it.        *)
(* The deferred data.Discard() of Compound (line 107) runs as the last     *)
(* part of the step that returns from compound.Run.  The check and the     *)
(* advance of the slot are one step here; their interleaving is the        *)
(* subject of SlotReplyCache.                                              *)
(***************************************************************************)
EXTENDS Naturals, Sequences, FiniteSets

CONSTANTS
    Bufs,        \* the buffers the program may allocate (New(make(...)))
    Reqs,        \* the requests (RPC calls) the clients send
    SeqReqs,     \* those that are a SEQUENCE compound on the one session
    DestroyReqs, \* those that are a DESTROY_SESSION of that session
    SeqOf,       \* the sequence id a SEQUENCE request carries
    CacheOf,     \* the cache_this flag a SEQUENCE request carries
    None         \* no buffer (a nil Bytes)

ASSUME SeqReqs \subseteq Reqs /\ DestroyReqs \subseteq Reqs /\ SeqReqs \cap DestroyReqs = {}
ASSUME SeqOf \in [SeqReqs -> Nat \ {0}] /\ CacheOf \in [SeqReqs -> BOOLEAN]
ASSUME None \notin Bufs

Call(r) == [k |-> "call", req |-> r]
Reply(r) == [k |-> "reply", req |-> r]
Item == {Call(r) : r \in Reqs} \cup {Reply(r) : r \in Reqs}

VARIABLES
    pool,      \* GlobalPool.bufs
    created,   \* the buffers allocated so far
    content,   \* buf[r:w] of every allocated buffer
    live,      \* is the session in the client's sessions map?
    slotBuf,   \* slot.Buf of its one slot
    slotSeq,   \* slot.SequenceID
    slotData,  \* slot.ContainsData
    pc,        \* per request: the step it is at
    in,        \* per request: the buffer ReceiveCall returned
    out,       \* per request: dataOut
    slotPtr,   \* per SEQUENCE request: the buffer of the slot it holds
    decoded,   \* per request: what Compound decoded from its buffer
    sent       \* per request: what SendReply wrote to the wire

vars == <<pool, created, content, live, slotBuf, slotSeq, slotData, pc, in, out,
          slotPtr, decoded, sent>>

Pc == {"recv", "start", "check", "exec", "store", "send", "done"}

TypeOK ==
    /\ pool \in Seq(Bufs)
    /\ created \subseteq Bufs
    /\ content \in [Bufs -> Seq(Item)]
    /\ live \in BOOLEAN /\ slotBuf \in Bufs /\ slotSeq \in Nat /\ slotData \in BOOLEAN
    /\ pc \in [Reqs -> Pc]
    /\ in \in [Reqs -> Bufs \cup {None}] /\ out \in [Reqs -> Bufs \cup {None}]
    /\ slotPtr \in [Reqs -> Bufs \cup {None}]
    /\ decoded \in [Reqs -> Seq(Item)] /\ sent \in [Reqs -> Seq(Item)]

-----------------------------------------------------------------------------
(* Pool.Get: the first pooled buffer, else a new empty one.  The result is *)
(* <<buffer, pool', created'>>.                                            *)
Get ==
    IF pool /= <<>> THEN <<Head(pool), Tail(pool), created>>
    ELSE LET b == CHOOSE x \in Bufs \ created : TRUE
         IN <<b, pool, created \cup {b}>>

CanGet == pool /= <<>> \/ created /= Bufs

(* Buf.Reset: r = w = 0.                                                   *)
Reset(c, b) == [c EXCEPT ![b] = <<>>]

(* Pool.Put (and Buf.Discard, which calls it): Reset, then append to       *)
(* p.bufs; no check that the buffer is not already pooled or still in use. *)
Put(c, p, b) == [content |-> Reset(c, b), pool |-> Append(p, b)]

(* Buf.Write, and Allocate followed by Commit: append at the write cursor. *)
Write(c, b, items) == [c EXCEPT ![b] = @ \o items]

(* src.Copy(target): target.Allocate(src.Len()), copy of src.Bytes(),      *)
(* target.Commit(n).                                                       *)
Copy(c, src, target) == Write(c, target, c[src])

(* BuildSession(persist = true): the slot's buffer is taken from the pool, *)
(* which is still empty, so New allocates it.                              *)
Init ==
    LET b == CHOOSE x \in Bufs : TRUE IN
    /\ pool = <<>>
    /\ created = {b}
    /\ content = [x \in Bufs |-> <<>>]
    /\ live = TRUE /\ slotBuf = b /\ slotSeq = 0 /\ slotData = FALSE
    /\ pc = [r \in Reqs |-> "recv"]
    /\ in = [r \in Reqs |-> None] /\ out = [r \in Reqs |-> None]
    /\ slotPtr = [r \in Reqs |-> None]
    /\ decoded = [r \in Reqs |-> <<>>] /\ sent = [r \in Reqs |-> <<>>]

-----------------------------------------------------------------------------
(* ReceiveCall lines 41-47: buf := bufpool.Get(); buf.Allocate(restSize), *)
(* io.ReadFull, buf.Commit(n): the call lands at the write cursor.         *)
ReceiveCall(r) ==
    LET g == Get IN
    /\ pc[r] = "recv" /\ CanGet
    /\ pool' = g[2] /\ created' = g[3]
    /\ content' = Write(content, g[1], <<Call(r)>>)
    /\ in' = [in EXCEPT ![r] = g[1]]
    /\ pc' = [pc EXCEPT ![r] = "start"]
    /\ UNCHANGED <<live, slotBuf, slotSeq, slotData, out, slotPtr, decoded, sent>>

(* Muxv4.Compound lines 107-151: the call is decoded from the request      *)
(* buffer (Bytes(), buf[r:w]) and dataOut := bufpool.Get().                *)
StartCompound(r) ==
    LET g == Get IN
    /\ pc[r] = "start" /\ CanGet
    /\ decoded' = [decoded EXCEPT ![r] = content[in[r]]]
    /\ pool' = g[2] /\ created' = g[3]
    /\ out' = [out EXCEPT ![r] = g[1]]
    /\ pc' = [pc EXCEPT ![r] = IF r \in SeqReqs THEN "check" ELSE "exec"]
    /\ UNCHANGED <<content, live, slotBuf, slotSeq, slotData, in, slotPtr, sent>>

(* Compound returns: the deferred data.Discard() puts the request buffer   *)
(* back (line 107), after whatever the step wrote to dataOut.              *)
Return(r, c, p) ==
    /\ content' = Put(c, p, in[r]).content
    /\ pool' = Put(c, p, in[r]).pool
    /\ pc' = [pc EXCEPT ![r] = "send"]

(* RunSequence lines 263-290.  GetSlot returns nil once the session is     *)
(* removed (DEADSESSION); a cached slot is replayed with                   *)
(* slot.Buf.Copy(out); a misordered id is an error (the slot of a          *)
(* persistent session always has a Buf, so RETRY_UNCACHED_REP is not       *)
(* reached); otherwise the slot advances, ContainsData becomes cache_this, *)
(* and the request keeps the *Slot.                                        *)
CheckSlot(r) ==
    LET q == SeqOf[r]
        Error == /\ Return(r, Write(content, out[r], <<Reply(r)>>), pool)
                 /\ UNCHANGED <<slotSeq, slotData, slotPtr>>
    IN
    /\ pc[r] = "check"
    /\ CASE ~live -> Error
         [] slotSeq = q /\ slotData ->
              /\ Return(r, Copy(content, slotBuf, out[r]), pool)
              /\ UNCHANGED <<slotSeq, slotData, slotPtr>>
         [] slotSeq /= q /\ slotSeq + 1 /= q -> Error
         [] OTHER ->
              /\ slotSeq' = q /\ slotData' = CacheOf[r]
              /\ slotPtr' = [slotPtr EXCEPT ![r] = slotBuf]
              /\ pc' = [pc EXCEPT ![r] = "exec"]
              /\ UNCHANGED <<content, pool>>
    /\ UNCHANGED <<created, live, slotBuf, in, out, decoded, sent>>

(* The operations write the reply into dataOut.  DESTROY_SESSION (part_006 *)
(* lines 702-706) calls Client.RemoveSession (part_002 lines 110-131):     *)
(* bufpool.Put(slot.Buf) for every slot, and the session is deleted.  A    *)
(* SEQUENCE compound goes on to store its reply; the others return.        *)
Execute(r) ==
    LET c1 == Write(content, out[r], <<Reply(r)>>)
        destroy == r \in DestroyReqs /\ live
        c2 == IF destroy THEN Put(c1, pool, slotBuf).content ELSE c1
        p2 == IF destroy THEN Put(c1, pool, slotBuf).pool ELSE pool
    IN
    /\ pc[r] = "exec"
    /\ live' = (live /\ ~(r \in DestroyReqs))
    /\ IF r \in SeqReqs
       THEN /\ content' = c1 /\ pc' = [pc EXCEPT ![r] = "store"]
            /\ UNCHANGED pool
       ELSE Return(r, c2, p2)
    /\ UNCHANGED <<created, slotBuf, slotSeq, slotData, in, out, slotPtr, decoded, sent>>

(* RunSequence lines 325-327: if slot.ContainsData, out.Copy(slot.Buf),    *)
(* into the buffer of the *Slot read at line 263; then Compound returns.   *)
StoreReply(r) ==
    /\ pc[r] = "store"
    /\ IF slotData
       THEN Return(r, Copy(content, out[r], slotPtr[r]), pool)
       ELSE Return(r, content, pool)
    /\ UNCHANGED <<created, live, slotBuf, slotSeq, slotData, in, out, slotPtr, decoded, sent>>

(* SendReply (src/rpc.go lines 51-72): the payload data.Bytes() goes to   *)
(* the wire, and the deferred data.Discard() puts dataOut back.            *)
SendReply(r) ==
    /\ pc[r] = "send"
    /\ sent' = [sent EXCEPT ![r] = content[out[r]]]
    /\ content' = Put(content, pool, out[r]).content
    /\ pool' = Put(content, pool, out[r]).pool
    /\ pc' = [pc EXCEPT ![r] = "done"]
    /\ UNCHANGED <<created, live, slotBuf, slotSeq, slotData, in, out, slotPtr, decoded>>

Next ==
    \E r \in Reqs :
        \/ ReceiveCall(r) \/ StartCompound(r) \/ CheckSlot(r)
        \/ Execute(r) \/ StoreReply(r) \/ SendReply(r)

Spec == Init /\ [][Next]_vars

-----------------------------------------------------------------------------
(* A reply item may be sent to request r when r produced it, or when r is  *)
(* a retransmitted SEQUENCE and the reply is the cached one of the same    *)
(* sequence id.                                                            *)
OwnReply(r, it) ==
    /\ it.k = "reply"
    /\ \/ it.req = r
       \/ r \in SeqReqs /\ it.req \in SeqReqs /\ SeqOf[it.req] = SeqOf[r]

(* Spec section 4.9 and the buffer pool's contract: a pooled buffer        *)
(* belongs to one holder at a time, so every compound decodes exactly its  *)
(* own call from the buffer ReceiveCall filled, and every reply SendReply  *)
(* writes holds only that request's reply (or its cached original).  A    *)
(* slot buffer Put by DESTROY_SESSION while a SEQUENCE still holds the     *)
(* *Slot breaks this when that SEQUENCE later copies into it.              *)
NoCrossRequestData ==
    \A r \in Reqs :
        /\ pc[r] \notin {"recv", "start"} => decoded[r] = <<Call(r)>>
        /\ pc[r] = "done" => \A i \in DOMAIN sent[r] : OwnReply(r, sent[r][i])

=============================================================================
