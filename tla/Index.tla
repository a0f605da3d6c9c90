------------------------------- MODULE Index -------------------------------
(***************************************************************************)
(* The in-memory index of the storage engine (internal/storage/index.go).  *)
(* An index maps every key to no entry, to a live entry (an offset into    *)
(* the data file) or to a tombstone, and keeps two counters beside the map *)
(* that the admin endpoints and Keys() read instead of counting.           *)
(*                                                                         *)
(* Every method of Index runs under its own mutex, so each is one          *)
(* operator.  The Size and Timestamp of an IndexEntry are never read back  *)
(* by the engine and are left out.                                         *)
(***************************************************************************)
EXTENDS Integers, FiniteSets

CONSTANT Keys

NoEntry == [st |-> "none", off |-> 0]

IndexEntry == [st : {"none", "live", "dead"}, off : Nat]

IndexType == [entries : [Keys -> IndexEntry], active : Int, deleted : Int]

NewIndex == [entries |-> [k \in Keys |-> NoEntry], active |-> 0, deleted |-> 0]

LiveKeys(idx) == {k \in Keys : idx.entries[k].st = "live"}

DeadKeys(idx) == {k \in Keys : idx.entries[k].st = "dead"}

(***************************************************************************)
(* Mutants of Put and Delete: the counter of tombstones is not taken down  *)
(* when a key is written again; the entry of an overwritten key keeps its  *)
(* old offset; a tombstone is counted twice; a delete leaves the entry.    *)
(***************************************************************************)
IndexPutKeepsTombstoneCount(idx, k, off) ==
    [entries |-> [idx.entries EXCEPT ![k] = [st |-> "live", off |-> off]],
     active  |-> idx.active + (IF idx.entries[k].st = "none" THEN 1 ELSE 0),
     deleted |-> idx.deleted]

IndexPutKeepsOffset(idx, k, off) ==
    [entries |-> [idx.entries EXCEPT ![k] =
                     [st |-> "live", off |-> IF @.st = "live" THEN @.off ELSE off]],
     active  |-> idx.active + (IF idx.entries[k].st = "none" THEN 1 ELSE 0),
     deleted |-> idx.deleted - (IF idx.entries[k].st = "dead" THEN 1 ELSE 0)]

(***************************************************************************)
(* Index.Put.  A key whose tombstone is overwritten leaves "deleted" but   *)
(* does not enter "active": the else-branch covers absent keys only.       *)
(***************************************************************************)
IndexPut(idx, k, off) ==
    [entries |-> [idx.entries EXCEPT ![k] = [st |-> "live", off |-> off]],
     active  |-> idx.active + (IF idx.entries[k].st = "none" THEN 1 ELSE 0),
     deleted |-> idx.deleted - (IF idx.entries[k].st = "dead" THEN 1 ELSE 0)]

(***************************************************************************)
(* Index.Delete.  An absent key gets a tombstone at offset 0, a live one   *)
(* is marked and keeps its offset, a deleted one is left alone.            *)
(***************************************************************************)
IndexDelete(idx, k) ==
    CASE idx.entries[k].st = "none" ->
           [idx EXCEPT !.entries[k] = [st |-> "dead", off |-> 0],
                       !.deleted = @ + 1]
      [] idx.entries[k].st = "live" ->
           [idx EXCEPT !.entries[k].st = "dead",
                       !.active = @ - 1,
                       !.deleted = @ + 1]
      [] OTHER -> idx

=============================================================================
