-------------------------------- MODULE Rpc --------------------------------
(***************************************************************************)
(* RPC record framing (src/rpc.go) over the XDR encoder, with the message  *)
(* envelopes of src/msg/rpc.go.  A byte stream is a sequence of bytes;     *)
(* the record mark is a big-endian uint32 whose top bit is the last-       *)
(* fragment flag, handled byte-wise (the top bit is the top bit of the     *)
(* first byte) so that values stay within TLC's integers.  The peer's side *)
(* of the framing (how a client sends a call and reads a reply) is not in  *)
(* this repository and follows spec section 4.2.                           *)
(***************************************************************************)
EXTENDS Xdr

\* msg.RPC_CALL, msg.RPC_REPLY
RPC_CALL == 0
RPC_REPLY == 1

\* msg.Auth and msg.RPCMsgCall / msg.RPCMsgReply as XDR types.
U32T == [k |-> "uint32"]
AuthT == [k |-> "struct", fields |-> <<U32T, [k |-> "bytes"]>>]
RPCMsgCallT == [k |-> "struct", fields |-> <<U32T, U32T, U32T, U32T, U32T, U32T, AuthT, AuthT>>]
RPCMsgReplyT == [k |-> "struct", fields |-> <<U32T, U32T, U32T>>]

U32V(n) == [ty |-> U32T, v |-> n]
AuthV(a) == [ty |-> AuthT, v |-> <<U32V(a.flavor), [ty |-> [k |-> "bytes"], v |-> a.body]>>]
\* A call header [xid, msgType, rpcVer, prog, vers, proc, cred, verf].
RPCMsgCall(h) ==
    [ty |-> RPCMsgCallT,
     v  |-> <<U32V(h.xid), U32V(h.msgType), U32V(h.rpcVer), U32V(h.prog),
              U32V(h.vers), U32V(h.proc), AuthV(h.cred), AuthV(h.verf)>>]
\* A reply header [xid, msgType, replyStat].
RPCMsgReply(r) ==
    [ty |-> RPCMsgReplyT, v |-> <<U32V(r.xid), U32V(r.msgType), U32V(r.replyStat)>>]

\* uint32(length) | 1<<31 for a length below 2^31.
RecordMark(length) == [Uint32(length) EXCEPT ![1] = @ + 128]
IsLastFragment(bs) == bs[1] >= 128
\* (frag << 1) >> 1: the mark without its top bit.
FragmentSize(bs) == (((bs[1] % 128) * 256 + bs[2]) * 256 + bs[3]) * 256 + bs[4]

(***************************************************************************)
(* ReceiveCall: the record mark, the header decoded from the stream, then  *)
(* the rest of the record read into a pooled buffer with                   *)
(* buf.Allocate(restSize) and io.ReadFull.  Allocate slices buf[w:w+n] of  *)
(* a fresh buffer (w = 0): a negative restSize panics.  ReadFull on a      *)
(* short stream returns what it read and an error.  status is "ok", "err"  *)
(* or "panic"; rest is what is left of the stream.                         *)
(***************************************************************************)
ReceiveCall(stream) ==
    LET hdr      == Decode(RPCMsgCallT, Drop(stream, 4))
        size     == Len(Drop(stream, 4)) - Len(hdr.rest)
        restSize == FragmentSize(stream) - size
        got      == IF restSize > Len(hdr.rest) THEN Len(hdr.rest) ELSE restSize
        Result(s, h, d, r) == [status |-> s, header |-> h, data |-> d, rest |-> r]
    IN CASE Len(stream) < 4                   -> Result("err", <<>>, <<>>, <<>>)
         [] ~IsLastFragment(stream)           -> Result("err", <<>>, <<>>, <<>>)
         [] ~hdr.ok                           -> Result("err", <<>>, <<>>, <<>>)
         [] hdr.val.v[2].v /= RPC_CALL        -> Result("err", <<>>, <<>>, <<>>)
         [] restSize < 0                      -> Result("panic", hdr.val, <<>>, <<>>)
         [] OTHER -> Result(IF got < restSize THEN "err" ELSE "ok", hdr.val,
                            SubSeq(hdr.rest, 1, got), Drop(hdr.rest, got))

\* Mutant: a record mark counting the payload but not the reply header.
SendReplyShortMark(reply, payload) ==
    RecordMark(Len(payload)) \o Encode(RPCMsgReply(reply)).out \o payload

\* SendReply: record mark of 12 + len(payload), the encoded reply
\* header, then the payload.
SendReply(reply, payload) ==
    RecordMark(12 + Len(payload)) \o Encode(RPCMsgReply(reply)).out \o payload

\* The peer's side (spec section 4.2): a call is its record mark, the
\* encoded header and the arguments; a reply is read back by its mark.
SendCall(h, args) ==
    LET enc == Encode(RPCMsgCall(h)).out
    IN RecordMark(Len(enc) + Len(args)) \o enc \o args

ReceiveReply(stream) ==
    LET size == FragmentSize(stream)
        hdr  == Decode(RPCMsgReplyT, SubSeq(stream, 5, 4 + size))
    IN IF Len(stream) >= 4 /\ IsLastFragment(stream) /\ Len(stream) >= 4 + size /\ hdr.ok
       THEN [ok |-> TRUE, payload |-> hdr.rest,
             reply |-> [xid |-> hdr.val.v[1].v, msgType |-> hdr.val.v[2].v,
                        replyStat |-> hdr.val.v[3].v]]
       ELSE [ok |-> FALSE, payload |-> <<>>, reply |-> <<>>]

=============================================================================
