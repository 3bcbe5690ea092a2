------------------------------- MODULE FileId -------------------------------
(***************************************************************************)
(* The stateid "other" words of an open file (src/fileid.go): FileOther    *)
(* splits a 64-bit file id into its high and low 32-bit words and appends *)
(* the client sequence id; FileID joins the two words again.  The word     *)
(* width is the constant W (32 in the code) so that a model with a small   *)
(* W covers every boundary of the split within TLC's integers.             *)
(***************************************************************************)
EXTENDS Naturals

CONSTANT W
ASSUME W \in 1..15

Word == 2^W

\* FileOther: {uint32(fileID >> 32), uint32(fileID), clientSeqID}.
FileOther(fileID, clientSeqID) ==
    << (fileID \div Word) % Word, fileID % Word, clientSeqID % Word >>

\* Mutant: the words joined in the wrong order.
FileIDSwapped(o) == (o[2] * Word + o[1]) % (Word * Word)

\* FileID: uint64(o[0]) << 32 + uint64(o[1]), in uint64 arithmetic.
FileID(o) == (o[1] * Word + o[2]) % (Word * Word)

=============================================================================
