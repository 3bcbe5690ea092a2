-------------------------------- MODULE Auth --------------------------------
(***************************************************************************)
(* Authentication of RPC calls (src/auth/authenticate.go): the flavor      *)
(* check, the AUTH_UNIX credential decoder and credential equality.        *)
(* Credentials are records [exp, hostname, uid, gid, groups] with the      *)
(* hostname a sequence of bytes and groups a sequence of gids.             *)
(***************************************************************************)
EXTENDS Xdr

\* msg.AUTH_FLAVOR_NULL, msg.AUTH_FLAVOR_UNIX
AUTH_FLAVOR_NULL == 0
AUTH_FLAVOR_UNIX == 1

\* Mutant: the gid read before the uid.
CredsDecodeUidGidSwapped(bs) ==
    LET exp    == DecodeUint32(bs)
        host   == Decode([k |-> "string"], exp.rest)
        gid    == DecodeUint32(host.rest)
        uid    == DecodeUint32(gid.rest)
        count  == DecodeUint32(uid.rest)
        groups == Items([k |-> "uint32"], count.val, count.rest)
    IN IF exp.ok /\ host.ok /\ uid.ok /\ gid.ok /\ count.ok /\ groups.ok
       THEN Got([exp |-> exp.val, hostname |-> host.val.v, uid |-> uid.val,
                 gid |-> gid.val, groups |-> [i \in DOMAIN groups.val |-> groups.val[i].v]],
                groups.rest)
       ELSE Fail

\* Creds.Decode: expiration, hostname, uid, gid, then a count and that
\* many gids, each read failing at the end of the body.
CredsDecode(bs) ==
    LET exp    == DecodeUint32(bs)
        host   == Decode([k |-> "string"], exp.rest)
        uid    == DecodeUint32(host.rest)
        gid    == DecodeUint32(uid.rest)
        count  == DecodeUint32(gid.rest)
        groups == Items([k |-> "uint32"], count.val, count.rest)
    IN IF exp.ok /\ host.ok /\ uid.ok /\ gid.ok /\ count.ok /\ groups.ok
       THEN Got([exp |-> exp.val, hostname |-> host.val.v, uid |-> uid.val,
                 gid |-> gid.val, groups |-> [i \in DOMAIN groups.val |-> groups.val[i].v]],
                groups.rest)
       ELSE Fail

\* Authenticate: flavors below AUTH_UNIX are too weak; any other flavor
\* has its body decoded as AUTH_UNIX credentials.
Authenticate(cred) ==
    LET c == CredsDecode(cred.body)
    IN CASE cred.flavor < AUTH_FLAVOR_UNIX -> [status |-> "tooweak", creds |-> <<>>]
         [] ~c.ok                          -> [status |-> "err", creds |-> <<>>]
         [] OTHER                          -> [status |-> "ok", creds |-> c.val]

\* Mutant: slices.Compact without the sort before it.
RECURSIVE CompactUnsorted(_)
CompactUnsorted(s) ==
    IF Len(s) < 2 THEN s
    ELSE IF s[1] = s[2] THEN CompactUnsorted(Tail(s)) ELSE <<s[1]>> \o CompactUnsorted(Tail(s))

\* slices.Sort followed by slices.Compact: the distinct values in order.
SortCompact(s) == Ascending(ToSet(s))

\* Creds.Equal: equal group lists compare the uids alone; lists whose
\* lengths differ by more than one are unequal; otherwise the sorted,
\* deduplicated gid-plus-groups lists are compared with the uids.
CredsEqual(c, o) ==
    CASE c.groups = o.groups                  -> c.uid = o.uid
      [] Len(c.groups) - Len(o.groups) > 1
         \/ Len(c.groups) - Len(o.groups) < -1 -> FALSE
      [] OTHER -> c.uid = o.uid
                  /\ SortCompact(<<c.gid>> \o c.groups) = SortCompact(<<o.gid>> \o o.groups)

=============================================================================
