------------------------------- MODULE Attrs -------------------------------
(***************************************************************************)
(* The NFSv4 attribute vector (src/attrs.go, bitmap4Encode/Decode of       *)
(* src/unnamed/part_005): a bitmap4 mask and the XDR values of the marked  *)
(* attributes in ascending id order.  fileInfoToAttrs builds the vector a  *)
(* GETATTR, READDIR or VERIFY reply carries; decodeFAttrs4 reads the one   *)
(* a SETATTR, CREATE or OPEN argument carries.                             *)
(*                                                                         *)
(* A bitmap4 word is the set of its one bits (0..31), so that words with   *)
(* bit 31 set stay within TLC's integers.  A map[int]bool is a function    *)
(* from ids to BOOLEAN.  The value each switch arm of fileInfoToAttrs      *)
(* computes from the file info is abstracted to a payload of the arm's     *)
(* XDR type taken from the function fi; the arm's type is kept.            *)
(***************************************************************************)
EXTENDS Xdr

\* AttrsSupported and AttrsDefaultSet.
AttrsSupported == {0, 1, 2, 3, 4, 5, 6, 7, 8, 9, 10, 11, 12, 13, 16, 17, 18,
                   19, 20, 29, 30, 31, 33, 34, 35, 36, 37, 41, 45, 47, 52, 53,
                   55, 75, 82}
AttrsDefaultSet == {1, 2, 3, 4, 8, 11, 19, 20, 33, 35, 36, 37, 41, 45, 47, 52, 53, 55}

-----------------------------------------------------------------------------
\* Mutant: the word count never rounded up.
Bitmap4EncodeNoRoundUp(x) ==
    LET maxInt == IF DOMAIN x = {} THEN 0 ELSE Max(DOMAIN x)
        size   == maxInt \div 32
        on     == {v \in DOMAIN x : x[v]}
    IN IF \E v \in on : v \div 32 >= size
       THEN [ok |-> FALSE, words |-> <<>>]
       ELSE [ok |-> TRUE,
             words |-> [i \in 1..size |-> {v % 32 : v \in {u \in on : u \div 32 = i - 1}}]]

\* bitmap4Encode: as many words as the largest key needs, rounding up
\* only when it is not a multiple of 32; every key that is on sets its
\* bit, and a key beyond the last word panics (index out of range).
Bitmap4Encode(x) ==
    LET maxInt == IF DOMAIN x = {} THEN 0 ELSE Max(DOMAIN x)
        size   == maxInt \div 32 + (IF maxInt % 32 > 0 THEN 1 ELSE 0)
        on     == {v \in DOMAIN x : x[v]}
    IN IF \E v \in on : v \div 32 >= size
       THEN [ok |-> FALSE, words |-> <<>>]
       ELSE [ok |-> TRUE,
             words |-> [i \in 1..size |-> {v % 32 : v \in {u \in on : u \div 32 = i - 1}}]]

\* bitmap4Decode: every bit of every word becomes a key, on or off.
Bitmap4Decode(nums) == [n \in 0..(32 * Len(nums) - 1) |-> (n % 32) \in nums[n \div 32 + 1]]

\* A word as four big-endian bytes, and back.
WordBytes(w) == [k \in 1..4 |-> SumSet({2^(b - 8 * (4 - k)) : b \in {c \in w : c \div 8 = 4 - k}})]
BytesWord(bs) == {b \in 0..31 : (bs[4 - b \div 8] \div 2^(b % 8)) % 2 = 1}
BitmapBytes(ws) == Uint32(Len(ws)) \o FlattenSeq([i \in DOMAIN ws |-> WordBytes(ws[i])])
DecodeBitmap(bs) ==
    LET n == DecodeUint32(bs)
    IN IF n.ok /\ Len(n.rest) >= 4 * n.val
       THEN Got([i \in 1..n.val |-> BytesWord(SubSeq(n.rest, 4 * i - 3, 4 * i))],
                Drop(n.rest, 4 * n.val))
       ELSE Fail

-----------------------------------------------------------------------------
U32 == [k |-> "uint32"]
U64 == [k |-> "uint64"]
BoolT == [k |-> "bool"]
StringT == [k |-> "string"]
NfsTime4 == [k |-> "struct", fields |-> <<U64, U32>>]
NfsAce4 == [k |-> "struct", fields |-> <<U32, U32, U32, StringT>>]
NfsPosixAce4 == [k |-> "struct", fields |-> <<U32, U32, StringT>>]
BitmapT == [k |-> "bitmap"]

\* The XDR type each arm of fileInfoToAttrs writes (BitmapT for the
\* bitmap4Encode(idxSupport) arms).
AttrType(a) ==
    CASE a \in {0, 75}                         -> BitmapT
      [] a \in {1, 2, 10, 11, 13, 29, 33, 35, 82} -> U32
      [] a \in {3, 4, 20, 30, 31, 45, 55}      -> U64
      [] a \in {5, 6, 7, 9, 16, 17, 18, 34}    -> BoolT
      [] a = 8                                 -> [k |-> "struct", fields |-> <<U64, U64>>]
      [] a = 12                                -> [k |-> "slice", elem |-> NfsAce4]
      [] a = 19                                -> [k |-> "bytes"]
      [] a \in {36, 37}                        -> StringT
      [] a = 41                                -> [k |-> "struct", fields |-> <<U32, U32>>]
      [] a \in {47, 52, 53}                    -> NfsTime4

AttrBytes(ty, val) ==
    IF ty = BitmapT THEN BitmapBytes(val) ELSE Encode([ty |-> ty, v |-> val]).out

SupportedBitmap == Bitmap4Encode([a \in AttrsSupported |-> TRUE]).words

\* fileInfoToAttrs: a nil request means the default set; every id up to
\* the largest requested one that is requested and supported is
\* written, in ascending order, and marked in idxReturn, which holds a
\* key for every requested id; the mask is bitmap4Encode(idxReturn).
\* The request map is passed as <<>> for nil or <<m>>.
FileInfoToAttrs(attrsRequest, fi) ==
    LET request   == IF attrsRequest = <<>> THEN [a \in AttrsDefaultSet |-> TRUE]
                     ELSE attrsRequest[1]
        maxID     == IF DOMAIN request = {} THEN 0 ELSE Max(DOMAIN request)
        returned  == {a \in 0..maxID : a \in DOMAIN request /\ request[a] /\ a \in AttrsSupported}
        order     == Ascending(returned)
        Value(a)  == IF a \in {0, 75} THEN SupportedBitmap ELSE fi[a]
        idxReturn == [a \in DOMAIN request |-> a \in returned]
        mask      == Bitmap4Encode(idxReturn)
    IN [ok   |-> mask.ok,
        mask |-> mask.words,
        vals |-> FlattenSeq([i \in DOMAIN order |-> AttrBytes(AttrType(order[i]), Value(order[i]))])]

-----------------------------------------------------------------------------
\* Mutant: size (4) decoded as a uint32.
DecTypeSizeU32(i) ==
    CASE i \in {0, 75}                   -> BitmapT
      [] i \in {1, 2, 4, 10, 11, 33, 35} -> U32
      [] i \in {3, 20, 45, 55}           -> U64
      [] i \in {5, 6, 7, 9, 13, 82}      -> BoolT
      [] i \in {90, 91}                  -> [k |-> "slice", elem |-> NfsPosixAce4]
      [] OTHER                           -> AttrType(i)

\* The types decodeFAttrs4 reads, by id; ids without a case are skipped
\* without consuming any bytes.  54 (time_modify_set) is a flag, then,
\* when it is set, ar.Read(&decAttr.TimeModify) on a **NfsTime4: the
\* reflective decoder reads a pointer's presence flag before the
\* nfstime4, and leaves the zero time of new(msg.NfsTime4) when that
\* flag is 0.  The result is stored in the time_modify field.
DecodedIds == {0, 1, 2, 3, 4, 5, 6, 7, 8, 9, 10, 11, 12, 13, 19, 20, 33, 35,
               36, 37, 41, 45, 47, 52, 53, 54, 55, 75, 82, 90, 91}
DecType(i) ==
    CASE i \in {0, 75}                   -> BitmapT
      [] i \in {1, 2, 10, 11, 33, 35}    -> U32
      [] i \in {3, 4, 20, 45, 55}        -> U64
      [] i \in {5, 6, 7, 9, 13, 82}      -> BoolT
      [] i \in {90, 91}                  -> [k |-> "slice", elem |-> NfsPosixAce4]
      [] OTHER                           -> AttrType(i)
Field(i) == IF i = 54 THEN 53 ELSE i
ServerTime == "now"
ZeroTime == <<[ty |-> U64, v |-> <<0, 0>>], [ty |-> U32, v |-> 0]>>

DecodeAttr(i, bs) ==
    LET flag == Decode(BoolT, bs)
        r    == IF DecType(i) = BitmapT THEN DecodeBitmap(bs) ELSE Decode(DecType(i), bs)
        hv   == Decode(BoolT, flag.rest)
        t    == Decode(NfsTime4, hv.rest)
    IN CASE i = 54 /\ flag.ok /\ flag.val.v ->
                CASE ~hv.ok     -> Fail
                  [] ~hv.val.v  -> Got(ZeroTime, hv.rest)
                  [] t.ok       -> Got(t.val.v, t.rest)
                  [] OTHER      -> Fail
         [] i = 54 -> IF flag.ok THEN Got(ServerTime, flag.rest) ELSE Fail
         [] DecType(i) = BitmapT -> r
         [] OTHER -> IF r.ok THEN Got(r.val.v, r.rest) ELSE Fail

\* decodeFAttrs4: the ids on in the mask, in ascending order, each
\* decoded from what the previous ones left; the result maps a field
\* (by id) to its value.
RECURSIVE DecodeAttrs(_, _, _)
DecodeAttrs(ids, bs, acc) ==
    IF ids = <<>> THEN Got(acc, bs)
    ELSE LET i == Head(ids)
             r == DecodeAttr(i, bs)
         IN CASE i \notin DecodedIds -> DecodeAttrs(Tail(ids), bs, acc)
              [] ~r.ok               -> Fail
              [] OTHER -> DecodeAttrs(Tail(ids), r.rest, (Field(i) :> r.val) @@ acc)

DecodeFAttrs4(attr) ==
    LET idx == Bitmap4Decode(attr.mask)
    IN DecodeAttrs(Ascending({i \in DOMAIN idx : idx[i]}), attr.vals, <<>>)

=============================================================================
