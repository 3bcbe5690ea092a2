-------------------------------- MODULE Xdr --------------------------------
(***************************************************************************)
(* The XDR encoder of package xdr (src/xdr/encoder.go) as operators from   *)
(* a typed value to the bytes it writes, and the decoder it is paired      *)
(* with (xdr.Decoder, src/unnamed/part_001).  xdr.Pad is not under src/   *)
(* and follows spec section 4.1.                                           *)
(*                                                                         *)
(* A type is a record whose field k names its kind; a value is a record    *)
(* [ty |-> type, v |-> payload].  Kinds: "uint32", "uint64", "bool",       *)
(* "string" and "bytes" (variable-length opaque, payload a sequence of     *)
(* bytes), "fixed" (a [n]byte array), "uint32s", "strings", "ptr" (payload *)
(* <<>> for nil or <<value>>), "array" (n elements, no count), "slice",    *)
(* "struct" (payload the field values), "union" (payload [mode, arm]) and  *)
(* "other" (a kind encodeReflect does not support, e.g. a map).            *)
(* Words stay below 2^31, the range of TLC's integers; a Go nil slice     *)
(* and an empty one encode alike and are not told apart.                   *)
(***************************************************************************)
EXTENDS Integers, Sequences, SequencesExt

\* Result of an encoder call: the bytes written to the writer, and
\* whether the call returned an error.  Bytes written before an error
\* stay in the writer.
Ok(bs) == [out |-> bs, err |-> FALSE]
Err(bs) == [out |-> bs, err |-> TRUE]
Then(pre, r) == [out |-> pre \o r.out, err |-> r.err]

\* A finite set of integers in ascending order (the order in which the
\* code walks ids and sorted lists).
RECURSIVE Ascending(_)
Ascending(S) == IF S = {} THEN <<>> ELSE <<Min(S)>> \o Ascending(S \ {Min(S)})

\* xdr.Pad: the number of zero bytes that align n bytes to 4.
Pad(n) == (4 - (n % 4)) % 4
Zeros(n) == [i \in 1..n |-> 0]

\* Encoder.Uint32 / Uint64: binary.Write in big-endian order.  A uint64
\* is the pair <<high word, low word>>.
Uint32(x) == << (x \div 2^24) % 256, (x \div 2^16) % 256, (x \div 2^8) % 256, x % 256 >>
Uint64(x) == Uint32(x[1]) \o Uint32(x[2])

\* Encoder.Bool: 1 or 0 as a uint32.
Bool(b) == Uint32(IF b THEN 1 ELSE 0)

\* Mutant: opaque data written without its zero padding.
BytesUnpadded(bs) == Uint32(Len(bs)) \o bs

\* Encoder.Bytes (and Encoder.String): length, bytes, zero padding.
Bytes(bs) == Uint32(Len(bs)) \o bs \o Zeros(Pad(Len(bs)))

\* Encoder.ByteArray: fixed-length opaque, bytes then zero padding.
ByteArray(bs) == bs \o Zeros(Pad(Len(bs)))

\* Encoder.Uint32s and Encoder.Strings: a count, then every item.
Uint32s(xs) == Uint32(Len(xs)) \o FlattenSeq([i \in DOMAIN xs |-> Uint32(xs[i])])
Strings(ss) == Uint32(Len(ss)) \o FlattenSeq([i \in DOMAIN ss |-> Bytes(ss[i])])

\* Encoder.writeUnion (and Encoder.Union): the discriminant is written
\* first, then rejected when it names no arm, else the arm is encoded.
\* armOut is the encoding of the arm, used only when the mode names one.
WriteUnion(x, armOut) ==
    LET mode == x.v.mode
    IN IF mode + 1 >= Len(x.ty.arms) + 1
       THEN Err(Uint32(mode))
       ELSE Then(Uint32(mode), armOut)

\* Encoder.Encode with the cases of encodeReflect: the fast path of
\* Encode for the basic kinds, reflection for pointers, arrays, slices,
\* structs and unions.  EncodeAll and every element and field loop stop
\* at the first error.
RECURSIVE Encode(_), EncodeAll(_)
EncodeAll(xs) ==
    IF xs = <<>> THEN Ok(<<>>)
    ELSE LET h == Encode(Head(xs))
         IN IF h.err THEN h ELSE Then(h.out, EncodeAll(Tail(xs)))

Encode(x) ==
    CASE x.ty.k = "uint32"              -> Ok(Uint32(x.v))
      [] x.ty.k = "uint64"              -> Ok(Uint64(x.v))
      [] x.ty.k = "bool"                -> Ok(Bool(x.v))
      [] x.ty.k \in {"string", "bytes"} -> Ok(Bytes(x.v))
      [] x.ty.k = "fixed"               -> Ok(ByteArray(x.v))
      [] x.ty.k = "uint32s"             -> Ok(Uint32s(x.v))
      [] x.ty.k = "strings"             -> Ok(Strings(x.v))
      [] x.ty.k = "ptr"    -> IF x.v = <<>> THEN Ok(Bool(FALSE))
                              ELSE Then(Bool(TRUE), Encode(x.v[1]))
      [] x.ty.k = "array"  -> EncodeAll(x.v)
      [] x.ty.k = "slice"  -> Then(Uint32(Len(x.v)), EncodeAll(x.v))
      [] x.ty.k = "struct" -> EncodeAll(x.v)
      [] x.ty.k = "union"  -> WriteUnion(x, Encode(x.v.arm))
      [] OTHER             -> Err(<<>>)

-----------------------------------------------------------------------------
(***************************************************************************)
(* xdr.Decoder (src/unnamed/part_001): big-endian integers, opaque data   *)
(* read with its padding by io.ReadFull, counted lists read item by item,  *)
(* unions that reject a discriminant with no arm (readUnion), and failure  *)
(* on reading past the end.  A count larger than the bytes left fails at   *)
(* once, as the item reads would: every element type here takes at least   *)
(* four bytes.  Result: [ok, val, rest].                                   *)
(***************************************************************************)
Fail == [ok |-> FALSE, val |-> <<>>, rest |-> <<>>]
Got(val, rest) == [ok |-> TRUE, val |-> val, rest |-> rest]
Drop(bs, n) == SubSeq(bs, n + 1, Len(bs))

DecodeUint32(bs) ==
    IF Len(bs) < 4 THEN Fail
    ELSE Got(((bs[1] * 256 + bs[2]) * 256 + bs[3]) * 256 + bs[4], Drop(bs, 4))

DecodeOpaque(bs, n) ==
    IF Len(bs) < n + Pad(n) THEN Fail ELSE Got(SubSeq(bs, 1, n), Drop(bs, n + Pad(n)))

\* Decoding a value of type ty from bs; Items decodes n values of one
\* type, Fields the fields of a struct.
RECURSIVE Decode(_, _), Items(_, _, _), Fields(_, _)
Items(ty, n, bs) ==
    IF n = 0 THEN Got(<<>>, bs)
    ELSE LET h == Decode(ty, bs)
             t == Items(ty, n - 1, h.rest)
         IN IF h.ok /\ t.ok THEN Got(<<h.val>> \o t.val, t.rest) ELSE Fail
Fields(tys, bs) ==
    IF tys = <<>> THEN Got(<<>>, bs)
    ELSE LET h == Decode(Head(tys), bs)
             t == Fields(Tail(tys), h.rest)
         IN IF h.ok /\ t.ok THEN Got(<<h.val>> \o t.val, t.rest) ELSE Fail

Decode(ty, bs) ==
    LET n == DecodeUint32(bs)
        V(p) == [ty |-> ty, v |-> p]
        Wrap(r, P(_)) == IF r.ok THEN Got(V(P(r.val)), r.rest) ELSE Fail
        Id(p) == p
    IN CASE ty.k = "uint32" -> Wrap(n, Id)
         [] ty.k = "uint64" ->
              LET lo == DecodeUint32(n.rest)
              IN IF n.ok /\ lo.ok THEN Got(V(<<n.val, lo.val>>), lo.rest) ELSE Fail
         [] ty.k = "bool"   -> Wrap(n, LAMBDA p : p /= 0)
         [] ty.k \in {"string", "bytes"} ->
              IF n.ok THEN Wrap(DecodeOpaque(n.rest, n.val), Id) ELSE Fail
         [] ty.k = "fixed"  -> Wrap(DecodeOpaque(bs, ty.n), Id)
         [] ty.k = "uint32s" ->
              IF n.ok /\ n.val <= Len(n.rest)
              THEN LET r == Items([k |-> "uint32"], n.val, n.rest)
                   IN Wrap(r, LAMBDA p : [i \in DOMAIN p |-> p[i].v])
              ELSE Fail
         [] ty.k = "strings" ->
              IF n.ok /\ n.val <= Len(n.rest)
              THEN LET r == Items([k |-> "string"], n.val, n.rest)
                   IN Wrap(r, LAMBDA p : [i \in DOMAIN p |-> p[i].v])
              ELSE Fail
         [] ty.k = "ptr" ->
              IF ~n.ok \/ n.val = 0 THEN Wrap(n, LAMBDA p : <<>>)
              ELSE Wrap(Decode(ty.elem, n.rest), LAMBDA p : <<p>>)
         [] ty.k = "array"  -> Wrap(Items(ty.elem, ty.n, bs), Id)
         [] ty.k = "slice"  ->
              IF n.ok /\ n.val <= Len(n.rest) THEN Wrap(Items(ty.elem, n.val, n.rest), Id)
              ELSE Fail
         [] ty.k = "struct" -> Wrap(Fields(ty.fields, bs), Id)
         [] ty.k = "union"  ->
              IF n.ok /\ n.val < Len(ty.arms)
              THEN Wrap(Decode(ty.arms[n.val + 1], n.rest),
                        LAMBDA p : [mode |-> n.val, arm |-> p])
              ELSE Fail
         [] OTHER -> Fail

=============================================================================
