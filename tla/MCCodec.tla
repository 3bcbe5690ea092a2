------------------------------ MODULE MCCodec ------------------------------
(***************************************************************************)
(* Bounded checks of the wire codecs against reference definitions: the   *)
(* state is one test case, chosen in Init and never changed, and every     *)
(* property is an invariant over the case.                                 *)
(***************************************************************************)
EXTENDS Rpc, Attrs, Auth

CONSTANT W
F == INSTANCE FileId

VARIABLE case
vars == <<case>>

-----------------------------------------------------------------------------
\* XDR values: leaves, then containers of them.
Opaques == UNION {[1..n -> {0, 255}] : n \in 0..5}
Val(ty, v) == [ty |-> ty, v |-> v]
TU32 == [k |-> "uint32"]
TStr == [k |-> "string"]
TBool == [k |-> "bool"]
TUnion == [k |-> "union", arms |-> <<TU32, TStr>>]
TInner == [k |-> "struct", fields |-> <<TU32, TBool>>]
TPtr == [k |-> "ptr", elem |-> TInner]
TOuter == [k |-> "struct", fields |-> <<TUnion, TPtr>>]

Leaves ==
    {Val(TU32, n) : n \in {0, 1, 256, 65537, 2147483647}}
    \cup {Val([k |-> "uint64"], <<h, l>>) : h \in {0, 3}, l \in {0, 2147483647}}
    \cup {Val(TBool, b) : b \in BOOLEAN}
    \cup {Val([k |-> kd], s) : kd \in {"string", "bytes"}, s \in Opaques}
    \cup UNION {{Val([k |-> "fixed", n |-> n], s) : s \in [1..n -> {0, 255}]} : n \in {3, 4}}
    \cup {Val([k |-> "uint32s"], s) : s \in UNION {[1..n -> {0, 70000}] : n \in 0..2}}
    \cup {Val([k |-> "strings"], s) : s \in UNION {[1..n -> {<<>>, <<1>>, <<1, 2, 3, 4, 5>>}] : n \in 0..2}}
Unions == {Val(TUnion, [mode |-> 0, arm |-> Val(TU32, n)]) : n \in {0, 5}}
          \cup {Val(TUnion, [mode |-> 1, arm |-> Val(TStr, s)]) : s \in {<<>>, <<7, 7>>}}
          \cup {Val(TUnion, [mode |-> 2, arm |-> Val(TU32, 0)])}
Inners == {Val(TInner, <<Val(TU32, n), Val(TBool, b)>>) : n \in {0, 9}, b \in BOOLEAN}
Containers ==
    {Val(TPtr, p) : p \in {<<>>} \cup {<<i>> : i \in Inners}}
    \cup {Val([k |-> "slice", elem |-> TStr], s)
            : s \in UNION {[1..n -> {Val(TStr, <<>>), Val(TStr, <<9>>)}] : n \in 0..2}}
    \cup {Val([k |-> "array", elem |-> TBool, n |-> 2], s) : s \in [1..2 -> {Val(TBool, b) : b \in BOOLEAN}]}
    \cup Unions \cup Inners
    \cup {Val(TOuter, <<u, p>>) : u \in Unions, p \in {Val(TPtr, <<>>)} \cup {Val(TPtr, <<i>>) : i \in Inners}}
    \cup {Val([k |-> "map"], <<>>)}

\* Reference: a value is encodable when every union discriminant names
\* an arm and every kind is one XDR knows.
RECURSIVE Encodable(_)
Encodable(x) ==
    CASE x.ty.k = "union" -> x.v.mode < Len(x.ty.arms) /\ Encodable(x.v.arm)
      [] x.ty.k = "ptr"   -> \A i \in DOMAIN x.v : Encodable(x.v[i])
      [] x.ty.k \in {"struct", "slice", "array"} -> \A i \in DOMAIN x.v : Encodable(x.v[i])
      [] x.ty.k = "map"   -> FALSE
      [] OTHER            -> TRUE

-----------------------------------------------------------------------------
\* RPC envelopes.
Replies == [xid : {0, 7}, msgType : {RPC_REPLY}, replyStat : {0, 1}]
Payloads == {<<>>, <<0, 0, 0, 1>>, <<1, 2, 3, 4, 5, 6, 7, 8>>}
AuthsOf(bodies) == [flavor : {0, 1}, body : bodies]
Calls == [xid : {1}, msgType : {RPC_CALL}, rpcVer : {2}, prog : {100003}, vers : {3, 4},
          proc : {0, 1}, cred : AuthsOf({<<>>, <<1, 2, 3, 4, 5>>}), verf : AuthsOf({<<>>})]
ArgsSet == {<<>>, <<0, 0, 0, 9>>}
\* Records whose mark gives any length from 0 to a little past the
\* bytes that follow it.
Streams == UNION {{RecordMark(n) \o Drop(SendCall(h, a), 4) : n \in 0..(Len(SendCall(h, a)) - 2)}
                  : h \in Calls, a \in ArgsSet}

-----------------------------------------------------------------------------
\* AUTH_UNIX credentials and the body a client sends for them.
CredsSet == [exp : {0}, hostname : {<<>>, <<104, 1, 2>>}, uid : {0, 1000}, gid : {0, 5},
             groups : UNION {[1..n -> {5, 7}] : n \in 0..2}]
AuthUnixBody(c) ==
    Encode(Val([k |-> "struct", fields |-> <<TU32, TStr, TU32, TU32, [k |-> "uint32s"]>>],
               <<Val(TU32, c.exp), Val(TStr, c.hostname), Val(TU32, c.uid),
                 Val(TU32, c.gid), Val([k |-> "uint32s"], c.groups)>>)).out
EqCreds == [uid : {1, 2}, gid : {5, 7}, groups : UNION {[1..n -> {5, 7}] : n \in 0..2}]
IsPermutation(s, t) == Len(s) = Len(t) /\ \E p \in [DOMAIN s -> DOMAIN t] :
                           (\A i, j \in DOMAIN s : i /= j => p[i] /= p[j]) /\ \A i \in DOMAIN s : s[i] = t[p[i]]

-----------------------------------------------------------------------------
\* Attribute vectors.  A GETATTR case is a set of requested ids and the
\* number of mask words the client sends; -1 words stands for a nil
\* request (the default set).
SampleIds == {0, 4, 12, 16, 31, 33, 54, 75, 88}
MinWords(R) == IF R = {} THEN 0 ELSE Max(R) \div 32 + 1
WordsOf(R, n) == [i \in 1..n |-> {a % 32 : a \in {b \in R : b \div 32 = i - 1}}]
RECURSIVE Sample(_)
Sample(ty) ==
    CASE ty = BitmapT            -> <<{0, 31}>>
      [] ty.k = "uint32"          -> 7
      [] ty.k = "uint64"          -> <<0, 9>>
      [] ty.k = "bool"            -> TRUE
      [] ty.k \in {"string", "bytes"} -> <<49, 50>>
      [] ty.k = "struct"          -> [i \in DOMAIN ty.fields |-> Val(ty.fields[i], Sample(ty.fields[i]))]
      [] ty.k = "slice"           -> <<Val(ty.elem, Sample(ty.elem))>>
FileInfo == [a \in AttrsSupported \ {0, 75} |-> Sample(AttrType(a))]
Ace(m) == Val(NfsAce4, <<Val(U32, 0), Val(U32, 0), Val(U32, m), Val(StringT, <<79>>)>>)
\* Two values for each settable supported attribute: size, acl, mode,
\* owner, owner_group.
Settable == (4 :> <<<<0, 5>>, <<1, 0>>>>) @@ (12 :> <<<<>>, <<Ace(6)>>>>) @@ (33 :> <<0, 420>>)
            @@ (36 :> <<<<48>>, <<49, 48, 48, 48>>>>) @@ (37 :> <<<<48>>, <<49, 48>>>>)
SetAttrArgs == UNION {{[i \in S |-> Settable[i][c[i]]] : c \in [S -> {1, 2}]} : S \in SUBSET DOMAIN Settable}
\* The fattr4 a client sends: mask of the attributes, values in order.
ClientFAttr(a) ==
    LET order == Ascending(DOMAIN a)
    IN [mask |-> WordsOf(DOMAIN a, MinWords(DOMAIN a)),
        vals |-> FlattenSeq([i \in DOMAIN order |-> AttrBytes(AttrType(order[i]), a[order[i]])])]
\* A client reading a reply vector in mask order with the attribute types.
RECURSIVE ReadReply(_, _)
ReadReply(ids, bs) ==
    IF ids = <<>> THEN Got(<<>>, bs)
    ELSE LET ty == AttrType(Head(ids))
             r  == IF ty = BitmapT THEN DecodeBitmap(bs) ELSE Decode(ty, bs)
             t  == ReadReply(Tail(ids), r.rest)
         IN IF r.ok /\ t.ok
            THEN Got(<<IF ty = BitmapT THEN r.val ELSE r.val.v>> \o t.val, t.rest) ELSE Fail

-----------------------------------------------------------------------------
Cases ==
    {[kind |-> "xdr", x |-> x] : x \in Leaves \cup Containers}
    \cup {[kind |-> "reply", reply |-> r, payload |-> p] : r \in Replies, p \in Payloads}
    \cup {[kind |-> "call", header |-> h, args |-> a] : h \in Calls, a \in ArgsSet}
    \cup {[kind |-> "fileid", id |-> i, seq |-> s] : i \in 0..(2^(2 * W) - 1), s \in {0, 2^W - 1}}
    \cup {[kind |-> "auth", flavor |-> f, creds |-> c, cut |-> t]
            : f \in {0, 1}, c \in CredsSet, t \in {0, 1}}
    \cup {[kind |-> "equal", c |-> c, o |-> o] : c, o \in EqCreds}
    \cup UNION {{[kind |-> "getattr", req |-> R, words |-> n] : n \in {MinWords(R), MinWords(R) + 1}}
                : R \in SUBSET SampleIds}
    \cup {[kind |-> "getattr", req |-> AttrsDefaultSet, words |-> -1]}
    \cup {[kind |-> "setattr", attrs |-> a] : a \in SetAttrArgs}

StreamCases == {[kind |-> "stream", stream |-> s] : s \in Streams}

Init == case \in Cases
Next == UNCHANGED case
Spec == Init /\ [][Next]_vars

InitStreams == case \in StreamCases
SpecStreams == InitStreams /\ [][Next]_vars

-----------------------------------------------------------------------------
(***************************************************************************)
(* Properties.                                                             *)
(***************************************************************************)

\* XDR round trip (spec property 1): whatever Encoder.Encode writes for a
\* value, the decoder reads back as that value with nothing left over;
\* and the encoder fails exactly on values with a union discriminant
\* naming no arm or a kind it cannot encode.
XdrRoundTrip ==
    case.kind = "xdr" =>
        LET e == Encode(case.x)
        IN /\ e.err <=> ~Encodable(case.x)
           /\ ~e.err => Decode(case.x.ty, e.out) = Got(case.x, <<>>)

\* Framing round trip (spec property 2): a reply framed by SendReply is
\* read back by a client as the same header and payload, and a call a
\* client frames is returned by ReceiveCall as its header and
\* arguments, leaving the stream at the next record.
FramingRoundTrip ==
    /\ case.kind = "reply" =>
          ReceiveReply(SendReply(case.reply, case.payload))
            = [ok |-> TRUE, payload |-> case.payload, reply |-> case.reply]
    /\ case.kind = "call" =>
          ReceiveCall(SendCall(case.header, case.args))
            = [status |-> "ok", header |-> RPCMsgCall(case.header), data |-> case.args, rest |-> <<>>]

\* ReceiveCall never panics, whatever fragment length the record mark
\* of an incoming record claims: a record shorter than its header is an
\* error that closes the connection, not a crash of the server.
ReceiveCallNoPanic ==
    case.kind = "stream" => ReceiveCall(case.stream).status /= "panic"

\* FileID inverts FileOther (spec property 5) on every file id of two
\* words, and the third word carries the client sequence id.
FileIdRoundTrip ==
    case.kind = "fileid" =>
        /\ F!FileID(F!FileOther(case.id, case.seq)) = case.id
        /\ F!FileOther(case.id, case.seq)[3] = case.seq

\* Authenticate refuses AUTH_NULL as too weak, returns exactly the
\* credentials an AUTH_UNIX body carries, and fails on a body cut short.
\* Only the two flavors spec 4.5 names are cases: the code also accepts
\* every flavor above AUTH_UNIX (authenticate.go:28), which the spec's
\* AUTH_UNIX-only rule forbids, and no property asserts that acceptance.
AuthenticateRecoversCreds ==
    case.kind = "auth" =>
        LET body == AuthUnixBody(case.creds)
            r    == Authenticate([flavor |-> case.flavor,
                                  body |-> SubSeq(body, 1, Len(body) - case.cut)])
        IN CASE case.flavor < AUTH_FLAVOR_UNIX -> r.status = "tooweak"
             [] case.cut = 1                   -> r.status = "err"
             [] OTHER                          -> r = [status |-> "ok", creds |-> case.creds]

\* Credential equality (spec property 3) is reflexive and symmetric, does
\* not depend on the order of the additional groups, and treats the gid
\* and an identical additional group as one group.
CredsEqualLaws ==
    case.kind = "equal" =>
        LET c == case.c
            o == case.o
        IN /\ CredsEqual(c, c)
           /\ CredsEqual(c, o) = CredsEqual(o, c)
           /\ (c.uid = o.uid /\ c.gid = o.gid /\ IsPermutation(c.groups, o.groups)) => CredsEqual(c, o)
           /\ (c.uid = o.uid /\ c.gid = o.gid /\ c.groups = <<>> /\ o.groups = <<c.gid>>)
                 => CredsEqual(c, o)

\* A GETATTR reply (spec section 4.8) marks exactly the requested
\* attributes that are supported, dropping the others silently and
\* without a panic in bitmap4Encode, and its values, read in mask order
\* with each attribute's type, are the attribute values with nothing left.
GetAttrReplyDescribesRequest ==
    case.kind = "getattr" =>
        LET req  == IF case.words < 0 THEN <<>>
                    ELSE <<Bitmap4Decode(WordsOf(case.req, case.words))>>
            want == case.req \cap AttrsSupported
            r    == FileInfoToAttrs(req, FileInfo)
            idx  == Bitmap4Decode(r.mask)
            ids  == Ascending(want)
        IN /\ r.ok
           /\ {i \in DOMAIN idx : idx[i]} = want
           /\ ReadReply(ids, r.vals)
                = Got([i \in DOMAIN ids |-> IF ids[i] \in {0, 75} THEN SupportedBitmap
                                            ELSE FileInfo[ids[i]]], <<>>)

\* decodeFAttrs4 returns exactly the settable supported attributes a
\* SETATTR argument carries, each from its own bytes.
SetAttrDecodesSentAttrs ==
    case.kind = "setattr" =>
        DecodeFAttrs4(ClientFAttr(case.attrs)) = Got(case.attrs, <<>>)

=============================================================================
