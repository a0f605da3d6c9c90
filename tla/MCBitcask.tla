----------------------------- MODULE MCBitcask -----------------------------
(***************************************************************************)
(* Instances of the storage engine for TLC.  Keys, values and readers are  *)
(* model values; the bound on the records in the log is MaxRecords.        *)
(***************************************************************************)
EXTENDS Bitcask, TLC

KeySymmetry == Permutations(Keys) \cup Permutations(Values)

ReaderSymmetry == KeySymmetry \cup Permutations(Readers)

=============================================================================
