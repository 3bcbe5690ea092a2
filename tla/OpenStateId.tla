---------------------------- MODULE OpenStateId ----------------------------
(***************************************************************************)
(* The NFSv4.1 OPEN replay lookup of nfs4go: Compound.Open                 *)
(* (src/unnamed/part_006 lines 1797-2050) derives the open-owner sequence  *)
(* id of a v4.1 OPEN from the slot the COMPOUND's SEQUENCE used (line      *)
(* 1806) and treats an open file with the same (client, sequence id) in    *)
(* the worker as a replay of the same OPEN (lines 1919-1934).              *)
(*                                                                         *)
(* One client on one session, whose worker holds the open files.  The      *)
(* client uses each slot sequentially: a SEQUENCE advances the slot by one *)
(* (RunSequence lines 289-290) and an OPEN in the same COMPOUND reads it.  *)
(* A file's path is a model value; file ids are drawn fresh.               *)
(***************************************************************************)
EXTENDS Naturals, FiniteSets

CONSTANTS
    MaxSlotID,   \* clients.MaxSlotID (part_002 line 38): 15
    SlotIds,     \* the slots the client uses, a subset of 0..MaxSlotID
    MaxSeq,      \* bound on the sequence id of a slot
    Paths,       \* files the client opens
    FileIds      \* values randUint64 may return for a file id

ASSUME SlotIds \subseteq 0..MaxSlotID /\ MaxSeq \in Nat

VARIABLES
    slotSeq,     \* slot.SequenceID
    files,       \* w.Files: a set of [fid, seq, path]
    opened,      \* history: [fid, path] of every file AddFile stored
    replies      \* history: [fid, path] of every OPEN answered NFS4_OK

vars == <<slotSeq, files, opened, replies>>

(* Line 1806: args.SeqID = x.Slot.SequenceID*MaxSlotID + x.Slot.SlotID.  *)
(* The uint32 product wraps only past SequenceID 2^32/15, far beyond       *)
(* MaxSeq, so the wrap is left out (TLC's integers are 32-bit signed).     *)
OpenSeqID(seq, slot) == seq * MaxSlotID + slot

FileRec == [fid : FileIds, seq : Nat, path : Paths]

TypeOK ==
    /\ slotSeq \in [SlotIds -> 0..MaxSeq]
    /\ files \subseteq FileRec
    /\ opened \subseteq [fid : FileIds, path : Paths]
    /\ replies \subseteq [fid : FileIds, path : Paths]

(* BuildSession: every slot starts at sequence id 0; no file is open.      *)
Init ==
    /\ slotSeq = [s \in SlotIds |-> 0]
    /\ files = {}
    /\ opened = {}
    /\ replies = {}

(***************************************************************************)
(* A COMPOUND [SEQUENCE(slot), PUTFH, OPEN(path)]: the slot advances, the  *)
(* OPEN computes its sequence id from it, returns the stateid of an open   *)
(* file with that sequence id if there is one (GetFileByClientSeqID,       *)
(* part_008 lines 41-52), and otherwise opens the file and adds it with a  *)
(* fresh id (AddFile, part_008 lines 15-30).                               *)
(***************************************************************************)
SequenceOpen(slot, path) ==
    LET seq == slotSeq[slot] + 1
        sid == OpenSeqID(seq, slot)
        same == {f \in files : f.seq = sid}
    IN
    /\ seq <= MaxSeq
    /\ slotSeq' = [slotSeq EXCEPT ![slot] = seq]
    /\ \/ \E f \in same :
            /\ replies' = replies \cup {[fid |-> f.fid, path |-> path]}
            /\ UNCHANGED <<files, opened>>
       \/ /\ same = {}
          /\ \E fid \in FileIds \ {o.fid : o \in opened} :
               /\ files' = files \cup {[fid |-> fid, seq |-> sid, path |-> path]}
               /\ opened' = opened \cup {[fid |-> fid, path |-> path]}
               /\ replies' = replies \cup {[fid |-> fid, path |-> path]}

(* A COMPOUND [SEQUENCE(slot), PUTFH, CLOSE(stateid)] (lines 2085-2151):   *)
(* RemoveFile (part_008 lines 54-70) drops the file.                       *)
SequenceClose(slot, fid) ==
    /\ slotSeq[slot] < MaxSeq
    /\ slotSeq' = [slotSeq EXCEPT ![slot] = @ + 1]
    /\ files' = {f \in files : f.fid # fid}
    /\ UNCHANGED <<opened, replies>>

Next ==
    \/ \E s \in SlotIds, p \in Paths : SequenceOpen(s, p)
    \/ \E s \in SlotIds, f \in {g.fid : g \in files} : SequenceClose(s, f)

Spec == Init /\ [][Next]_vars

-----------------------------------------------------------------------------
(* Spec section 4.9 (OPEN): only a file already open for the same (client, *)
(* client sequence id) is returned as a replay, so the stateid of every    *)
(* successful OPEN names a file opened for the requested path, whichever   *)
(* slots and sequence ids the client's COMPOUNDs used.                     *)
OpenStateIdMatchesPath == replies \subseteq opened
=============================================================================
