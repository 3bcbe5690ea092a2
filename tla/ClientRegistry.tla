--------------------------- MODULE ClientRegistry ---------------------------
(***************************************************************************)
(* The client registry of nfs4go (package clients, src/unnamed/part_003    *)
(* and part_002): one map of client records behind a single mutex, which   *)
(* is also every record's lock.  Each exported method runs entirely under  *)
(* that mutex, so each is one atomic action here.  The handlers that call  *)
(* them (src/unnamed/part_006) are composed where they call two methods.   *)
(*                                                                         *)
(* Random 64-bit ids (client ids, confirm values, cache ids) are drawn     *)
(* from small sets of model values, re-drawn while they collide exactly as *)
(* the code's loops do.  Time is abstracted to a flag per client that is   *)
(* TRUE while lastSeen is within ClientExpiration of the clock: a method   *)
(* that sets lastSeen = clock.Now() sets it, the passing of time clears it.*)
(***************************************************************************)
EXTENDS Naturals, FiniteSets, TLC

CONSTANTS
    ClientIds,     \* values randUint64 may return for a client id
    CacheIds,      \* values randUint64 may return for a session cache id
    Names,         \* client owner names (nfs_client_id4.id / client_owner4)
    Verifiers,     \* client boot verifiers
    Creds,         \* credential tuples, equal iff auth.Creds.Equal
    MaxConfirm,    \* bound on the confirm values issued to one client
    SeqInputs,     \* CREATE_SESSION sequence ids the clients send
    MaxBusy        \* bound on the open files of one client

NoClient == CHOOSE x : x \notin ClientIds

VARIABLES
    clients,       \* x.clients: client id -> record
    sessions       \* c.sessions of each client: a set of [cid, seq], the
                   \* cache id and the CREATE_SESSION seq that built it

vars == <<clients, sessions>>

Client == [name : Names, verifier : Verifiers, creds : Creds,
           confirmed : BOOLEAN, confirmValue : 1..MaxConfirm,
           seqID : Nat, busy : 0..MaxBusy, recent : BOOLEAN]

TypeOK ==
    /\ DOMAIN clients \subseteq ClientIds
    /\ \A id \in DOMAIN clients : clients[id] \in Client
    /\ DOMAIN sessions = DOMAIN clients
    /\ \A id \in DOMAIN sessions :
          sessions[id] \subseteq [cid : CacheIds, seq : Nat]

Init ==
    /\ clients = [id \in {} |-> {}]
    /\ sessions = [id \in {} |-> {}]

\* The records of the map restricted to a set of ids.
Keep(f, S) == [id \in S |-> f[id]]

Confirmed(id) == id \in DOMAIN clients /\ clients[id].confirmed

(* Mutant of Add: the CLID_INUSE check on a confirmed name is missing.      *)
AddNoInUseCheck(name, verf, cred) ==
    LET prev == {id \in DOMAIN clients : clients[id].confirmed
                                         /\ clients[id].name = name}
        same == {id \in prev : clients[id].verifier = verf}
    IN
    \/ /\ \E id \in same :
            /\ clients[id].confirmValue < MaxConfirm
            /\ clients' = [clients EXCEPT ![id].confirmValue = @ + 1,
                                          ![id].seqID = @ + 1,
                                          ![id].recent = TRUE]
       /\ UNCHANGED sessions
    \/ /\ same = {}
       /\ \E new \in ClientIds \ DOMAIN clients :
            LET stay == {id \in DOMAIN clients : clients[id].confirmed
                                                 \/ clients[id].name # name}
            IN
            /\ clients' = Keep(clients, stay) @@
                   (new :> [name |-> name, verifier |-> verf, creds |-> cred,
                            confirmed |-> FALSE, confirmValue |-> 1,
                            seqID |-> 1, busy |-> 0, recent |-> TRUE])
            /\ sessions' = Keep(sessions, stay) @@ (new :> {})

(* Mutant of Add: the other unconfirmed records of the name are kept.      *)
AddKeepsUnconfirmed(name, verf, cred) ==
    LET prev == {id \in DOMAIN clients : clients[id].confirmed
                                         /\ clients[id].name = name}
        same == {id \in prev : clients[id].verifier = verf}
    IN
    \/ /\ \E id \in prev : clients[id].creds # cred
       /\ UNCHANGED vars
    \/ /\ \A id \in prev : clients[id].creds = cred
       /\ \E id \in same :
            /\ clients[id].confirmValue < MaxConfirm
            /\ clients' = [clients EXCEPT ![id].confirmValue = @ + 1,
                                          ![id].seqID = @ + 1,
                                          ![id].recent = TRUE]
       /\ UNCHANGED sessions
    \/ /\ \A id \in prev : clients[id].creds = cred
       /\ same = {}
       /\ \E new \in ClientIds \ DOMAIN clients :
            /\ clients' = clients @@
                   (new :> [name |-> name, verifier |-> verf, creds |-> cred,
                            confirmed |-> FALSE, confirmValue |-> 1,
                            seqID |-> 1, busy |-> 0, recent |-> TRUE])
            /\ sessions' = sessions @@ (new :> {})

(***************************************************************************)
(* Clients.Add (SETCLIENTID, and EXCHANGE_ID after its GetByName missed).  *)
(***************************************************************************)
Add(name, verf, cred) ==
    LET prev == {id \in DOMAIN clients : clients[id].confirmed
                                         /\ clients[id].name = name}
        same == {id \in prev : clients[id].verifier = verf}
    IN
    \/ \* a confirmed client of that name with other credentials: CLID_INUSE
       /\ \E id \in prev : clients[id].creds # cred
       /\ UNCHANGED vars
    \/ \* the same client again: new confirm value, seqID + 1, touched
       /\ \A id \in prev : clients[id].creds = cred
       /\ \E id \in same :
            /\ clients[id].confirmValue < MaxConfirm
            /\ clients' = [clients EXCEPT ![id].confirmValue = @ + 1,
                                          ![id].seqID = @ + 1,
                                          ![id].recent = TRUE]
       /\ UNCHANGED sessions
    \/ \* a new unconfirmed record; other unconfirmed records of the name go
       /\ \A id \in prev : clients[id].creds = cred
       /\ same = {}
       /\ \E new \in ClientIds \ DOMAIN clients :
            LET stay == {id \in DOMAIN clients : clients[id].confirmed
                                                 \/ clients[id].name # name}
            IN
            /\ clients' = Keep(clients, stay) @@
                   (new :> [name |-> name, verifier |-> verf, creds |-> cred,
                            confirmed |-> FALSE, confirmValue |-> 1,
                            seqID |-> 1, busy |-> 0, recent |-> TRUE])
            /\ sessions' = Keep(sessions, stay) @@ (new :> {})

(***************************************************************************)
(* Clients.Confirm (SETCLIENTID_CONFIRM) with the confirm value presented. *)
(***************************************************************************)
Confirm(id, v, cred) ==
    /\ id \in DOMAIN clients
    /\ clients[id].confirmValue = v          \* else NFS4ERR_STALE_CLIENTID
    /\ clients[id].creds = cred              \* else NFS4ERR_CLID_INUSE
    /\ clients' = [clients EXCEPT ![id].confirmed = TRUE, ![id].recent = TRUE]
    /\ UNCHANGED sessions

(***************************************************************************)
(* Clients.Confirm41: the client record after a CREATE_SESSION with       *)
(* sequence id seq, or the same record when the call fails.                *)
(***************************************************************************)
Confirm41Result(c, seq, cred) ==
    IF c.confirmed
    THEN CASE seq = 0 /\ c.seqID # 0 -> [c EXCEPT !.seqID = 0, !.recent = TRUE]
           [] seq < c.seqID          -> c          \* NFS4ERR_SEQ_MISORDERED
           [] seq = c.seqID          -> c          \* replay
           [] OTHER                  -> [c EXCEPT !.seqID = seq, !.recent = TRUE]
    ELSE IF c.seqID = seq /\ c.creds = cred
         THEN [c EXCEPT !.confirmed = TRUE, !.recent = TRUE]
         ELSE c                  \* NFS4ERR_STALE_CLIENTID / NFS4ERR_CLID_INUSE

Confirm41Ok(c, seq, cred) ==
    IF c.confirmed THEN (seq = 0 /\ c.seqID # 0) \/ seq >= c.seqID
                   ELSE c.seqID = seq /\ c.creds = cred

(***************************************************************************)
(* Compound.CreateSession: Confirm41, then on success Client.BuildSession, *)
(* which draws a cache id not used by the client's sessions.               *)
(***************************************************************************)
CreateSession(id, seq, cred) ==
    /\ id \in DOMAIN clients
    /\ clients' = [clients EXCEPT ![id] = Confirm41Result(@, seq, cred)]
    /\ IF Confirm41Ok(clients[id], seq, cred)
       THEN \E c \in CacheIds \ {s.cid : s \in sessions[id]} :
              sessions' = [sessions EXCEPT ![id] = @ \cup {[cid |-> c, seq |-> seq]}]
       ELSE UNCHANGED sessions

(***************************************************************************)
(* Compound.DestroySession: Clients.Get, then Client.RemoveSession.        *)
(***************************************************************************)
DestroySession(id, c) ==
    /\ Confirmed(id)
    /\ clients' = [clients EXCEPT ![id].recent = TRUE]
    /\ sessions' = [sessions EXCEPT ![id] = {s \in @ : s.cid # c}]

(* Clients.Get (RENEW, SEQUENCE, OPEN): touches a confirmed client.        *)
Get(id) ==
    /\ Confirmed(id)
    /\ clients' = [clients EXCEPT ![id].recent = TRUE]
    /\ UNCHANGED sessions

(* Clients.GetByName (EXCHANGE_ID): touches a confirmed client of that     *)
(* name, verifier and credentials, if there is one.                        *)
GetByName(name, verf, cred) ==
    /\ \E id \in DOMAIN clients :
          /\ clients[id].confirmed
          /\ clients[id].name = name /\ clients[id].verifier = verf
          /\ clients[id].creds = cred
          /\ clients' = [clients EXCEPT ![id].recent = TRUE]
    /\ UNCHANGED sessions

(* Mutant of RemoveClient: the client's sessions outlive it.               *)
RemoveClientKeepsSessions(id) ==
    /\ Confirmed(id)
    /\ clients[id].busy = 0
    /\ clients' = Keep(clients, DOMAIN clients \ {id})
    /\ UNCHANGED sessions

(* Clients.RemoveClient (DESTROY_CLIENTID).                                *)
RemoveClient(id) ==
    /\ Confirmed(id)                         \* else NFS4ERR_STALE_CLIENTID
    /\ clients[id].busy = 0                  \* else NFS4ERR_CLIENTID_BUSY
    /\ clients' = Keep(clients, DOMAIN clients \ {id})
    /\ sessions' = Keep(sessions, DOMAIN sessions \ {id})

(* Mutant of RemoveExpiredClients: busy clients are not skipped.           *)
RemoveExpiredIgnoringBusy ==
    LET stay == {id \in DOMAIN clients : clients[id].recent}
    IN
    /\ stay # DOMAIN clients
    /\ clients' = Keep(clients, stay)
    /\ sessions' = Keep(sessions, stay)

(* Clients.RemoveExpiredClients, run by the cleanup ticker.                *)
RemoveExpiredClients ==
    LET stay == {id \in DOMAIN clients : clients[id].recent \/ clients[id].busy > 0}
    IN
    /\ stay # DOMAIN clients
    /\ clients' = Keep(clients, stay)
    /\ sessions' = Keep(sessions, stay)

(* The clock passes lastSeen + ClientExpiration of a client.               *)
Expire(id) ==
    /\ id \in DOMAIN clients
    /\ clients[id].recent
    /\ clients' = [clients EXCEPT ![id].recent = FALSE]
    /\ UNCHANGED sessions

(* Client.Add(1) from Worker.AddFile (OPEN of a client Get returned).      *)
AddBusy(id) ==
    /\ Confirmed(id)
    /\ clients[id].busy < MaxBusy
    /\ clients' = [clients EXCEPT ![id].busy = @ + 1]
    /\ UNCHANGED sessions

(* Client.Done from Worker.RemoveFile (CLOSE) or Worker.cleanup.           *)
Done(id) ==
    /\ id \in DOMAIN clients
    /\ clients[id].busy > 0
    /\ clients' = [clients EXCEPT ![id].busy = @ - 1]
    /\ UNCHANGED sessions

Next ==
    \/ \E n \in Names, v \in Verifiers, c \in Creds : Add(n, v, c)
    \/ \E id \in DOMAIN clients, v \in 1..MaxConfirm, c \in Creds : Confirm(id, v, c)
    \/ \E id \in DOMAIN clients, q \in SeqInputs, c \in Creds : CreateSession(id, q, c)
    \/ \E id \in DOMAIN clients, c \in CacheIds : DestroySession(id, c)
    \/ \E id \in DOMAIN clients : Get(id) \/ RemoveClient(id) \/ Expire(id)
                                  \/ AddBusy(id) \/ Done(id)
    \/ \E n \in Names, v \in Verifiers, c \in Creds : GetByName(n, v, c)
    \/ RemoveExpiredClients

Spec == Init /\ [][Next]_vars

-----------------------------------------------------------------------------
(***************************************************************************)
(* Properties.                                                             *)
(***************************************************************************)

(* CLID_INUSE protection (Clients.Add, Confirm, Confirm41): however        *)
(* SETCLIENTID, EXCHANGE_ID, confirmations and expiry interleave, all      *)
(* confirmed records of one client name carry the same credentials, so a   *)
(* principal can never take over another principal's client name.         *)
ConfirmedNameCredsAgree ==
    \A a, b \in DOMAIN clients :
        /\ clients[a].confirmed /\ clients[b].confirmed
        /\ clients[a].name = clients[b].name
        => clients[a].creds = clients[b].creds

(* Clients.Add replaces the pending registration of a name: there is at    *)
(* most one unconfirmed record per client name, so a confirmation can only *)
(* ever confirm the latest SETCLIENTID / EXCHANGE_ID of that name.         *)
OneUnconfirmedPerName ==
    \A a, b \in DOMAIN clients :
        /\ ~clients[a].confirmed /\ ~clients[b].confirmed
        /\ clients[a].name = clients[b].name
        => a = b

(* Busy accounting (spec section 5): a client that still has open files    *)
(* (busy > 0) is never removed, neither by DESTROY_CLIENTID, nor by the    *)
(* expiration sweep, nor by Add dropping unconfirmed records.              *)
BusyClientNeverRemoved ==
    [][\A id \in DOMAIN clients :
         clients[id].busy > 0 => id \in DOMAIN clients']_clients

(* Spec section 4.6 (Confirm41): a confirmed client's CREATE_SESSION       *)
(* sequence id only ever moves to the next value (the replayed value       *)
(* leaves it alone, anything else is SEQ_MISORDERED).                      *)
SeqIDAdvancesByOne ==
    [][\A id \in DOMAIN clients \cap DOMAIN clients' :
         clients[id].confirmed /\ clients'[id].seqID # clients[id].seqID
            => clients'[id].seqID = clients[id].seqID + 1]_clients

(* Spec section 4.6: a CREATE_SESSION whose sequence id equals the current *)
(* one is a replay; it does not build another session, so a client has at  *)
(* most one session per CREATE_SESSION sequence id.                        *)
OneSessionPerCreateSessionSeq ==
    \A id \in DOMAIN sessions :
        \A s1, s2 \in sessions[id] : s1.seq = s2.seq => s1 = s2

=============================================================================
