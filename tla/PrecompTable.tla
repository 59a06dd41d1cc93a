---------------------------- MODULE PrecompTable ----------------------------
(***************************************************************************)
(* secp256k1_precompute_table_gen and secp256k1_precompute_table_free as   *)
(* callers outside CRYPTO_init use them: both are exported, neither takes  *)
(* a lock, and the two globals are all they share.                         *)
(*                                                                         *)
(* A call of table_gen runs through: reading the storage pointer, malloc   *)
(* and the aligned pointer, and then one step for each entry.  A block is  *)
(* named by the number of its malloc.                                      *)
(***************************************************************************)
EXTENDS PointByLog

CONSTANTS
  Threads,
  Windows,     \* rows of the table: 37 in the code
  Multiples,   \* entries of a row: 64 in the code
  MaxBlocks,   \* bound: mallocs that succeed
  Offsets      \* what ALIGNPTR adds to a pointer aligned to 16 bytes: never 0

ASSUME SizesAssumption ==
  /\ Windows \in Nat \ {0} /\ Multiples \in Nat \ {0} /\ MaxBlocks \in Nat
  /\ Offsets \subseteq {16, 32, 48, 64}

VARIABLES
  storage,     \* secp256k1_precomp_storage: a block, or 0 for NULL
  precomp,     \* secp256k1_precomp: the same, 64-byte aligned
  offset,      \* block -> distance of the aligned pointer from its start
  live,        \* blocks malloc returned and free was not given
  freed,       \* history: blocks that a table_free has given to free
  block,       \* block -> window -> place -> the entry, or Garbage
  mallocs,     \* blocks given out so far
  pc, ret,     \* thread -> where it is, and what its last call returned
  T, P,        \* thread -> the local points
  k, j         \* thread -> the loop counters

tableVars == <<storage, precomp, offset, live, freed, block, mallocs, pc, ret, T, P, k, j>>
globals == <<storage, precomp, offset, live, freed, block, mallocs>>

Blocks   == 1..MaxBlocks
NULL     == 0
Garbage  == -1
W        == 0..Windows - 1
K        == 1..Multiples

EntrySize == 64                                     \* sizeof(POINT256_AFFINE)

\* Slip: nothing is added for the alignment.
BlockSize_Unaligned == Windows * Multiples * EntrySize

BlockSize == Windows * Multiples * EntrySize + 64

----------------------------------------------------------------------------
TableInit ==
  /\ storage = NULL /\ precomp = NULL
  /\ offset = [b \in Blocks |-> 64] /\ live = {} /\ freed = {}
  /\ block = [b \in Blocks |-> [w \in W |-> [i \in K |-> Garbage]]]
  /\ mallocs = 0
  /\ pc = [t \in Threads |-> "idle"] /\ ret = [t \in Threads |-> "none"]
  /\ T = [t \in Threads |-> Infinity] /\ P = [t \in Threads |-> Infinity]
  /\ k = [t \in Threads |-> 0] /\ j = [t \in Threads |-> 0]

\* The call: the storage pointer is read once.
GenReturnsAtOnce(t) ==
  /\ pc[t] = "idle" /\ storage # NULL
  /\ ret' = [ret EXCEPT ![t] = "OK"]
  /\ UNCHANGED <<globals, pc, T, P, k, j>>

GenStarts(t) ==
  /\ pc[t] = "idle" /\ storage = NULL
  /\ pc' = [pc EXCEPT ![t] = "malloc"] /\ ret' = [ret EXCEPT ![t] = "none"]
  /\ UNCHANGED <<globals, T, P, k, j>>

\* Slip: the result is preset, so that a failing malloc returns it.
MallocFails_OK(t) ==
  /\ pc[t] = "malloc"
  /\ storage' = NULL
  /\ pc' = [pc EXCEPT ![t] = "idle"] /\ ret' = [ret EXCEPT ![t] = "OK"]
  /\ UNCHANGED <<precomp, offset, live, freed, block, mallocs, T, P, k, j>>

\* The global itself takes malloc's result, so a failure clears it.
MallocFails(t) ==
  /\ pc[t] = "malloc"
  /\ storage' = NULL
  /\ pc' = [pc EXCEPT ![t] = "idle"] /\ ret' = [ret EXCEPT ![t] = "ERR"]
  /\ UNCHANGED <<precomp, offset, live, freed, block, mallocs, T, P, k, j>>

Malloc(t) ==
  /\ pc[t] = "malloc" /\ mallocs < MaxBlocks
  /\ mallocs' = mallocs + 1
  /\ storage' = mallocs'
  /\ live' = live \cup {mallocs'}
  /\ \E o \in Offsets : offset' = [offset EXCEPT ![mallocs'] = o]
  /\ pc' = [pc EXCEPT ![t] = "align"]
  /\ UNCHANGED <<precomp, freed, block, ret, T, P, k, j>>

\* The aligned pointer is made of the global, read again; then the loop is
\* entered with T = P = G.
AlignPointer(t) ==
  /\ pc[t] = "align"
  /\ precomp' = storage
  /\ T' = [T EXCEPT ![t] = G] /\ P' = [P EXCEPT ![t] = G]
  /\ k' = [k EXCEPT ![t] = 1] /\ j' = [j EXCEPT ![t] = 0]
  /\ pc' = [pc EXCEPT ![t] = "fill"]
  /\ UNCHANGED <<storage, offset, live, freed, block, mallocs, ret>>

\* Slip: the row's point is doubled six times only.
StoreEntry_SixDoublings(t) ==
  /\ pc[t] = "fill" /\ j[t] \in W
  /\ block' = [block EXCEPT ![precomp][j[t]][k[t]] = P[t]]
  /\ P' = [P EXCEPT ![t] = (64 * P[t]) % N]
  /\ j' = [j EXCEPT ![t] = j[t] + 1]
  /\ UNCHANGED <<storage, precomp, offset, live, freed, mallocs, pc, ret, T, k>>

\* The body of the inner loop.  get_affine refuses the point at infinity and
\* leaves temp as it is; its result is not looked at.
StoreEntry(t) ==
  /\ pc[t] = "fill" /\ j[t] \in W
  /\ block' = [block EXCEPT ![precomp][j[t]][k[t]] =
                 IF P[t] = Infinity THEN Garbage ELSE P[t]]
  /\ P' = [P EXCEPT ![t] = Dbl7(P[t])]
  /\ j' = [j EXCEPT ![t] = j[t] + 1]
  /\ UNCHANGED <<storage, precomp, offset, live, freed, mallocs, pc, ret, T, k>>

\* The end of the outer loop's body: the first time, T = G is doubled.
NextMultiple(t) ==
  /\ pc[t] = "fill" /\ j[t] = Windows /\ k[t] < Multiples
  /\ T' = [T EXCEPT ![t] = PointAdd(T[t], G)]
  /\ P' = [P EXCEPT ![t] = PointAdd(T[t], G)]
  /\ k' = [k EXCEPT ![t] = k[t] + 1] /\ j' = [j EXCEPT ![t] = 0]
  /\ UNCHANGED <<globals, pc, ret>>

GenReturns(t) ==
  /\ pc[t] = "fill" /\ j[t] = Windows /\ k[t] = Multiples
  /\ pc' = [pc EXCEPT ![t] = "idle"] /\ ret' = [ret EXCEPT ![t] = "OK"]
  /\ UNCHANGED <<globals, T, P, k, j>>

\* secp256k1_precompute_table_free: neither global is cleared, and the block
\* is no longer the table's.
TableFree(t) ==
  /\ pc[t] = "idle"
  /\ live' = live \ {storage}
  /\ freed' = freed \cup ({storage} \ {NULL})
  /\ ret' = [ret EXCEPT ![t] = "none"]
  /\ UNCHANGED <<storage, precomp, offset, block, mallocs, pc, T, P, k, j>>

TableNext == \E t \in Threads :
  \/ GenReturnsAtOnce(t) \/ GenStarts(t) \/ MallocFails(t) \/ Malloc(t) \/ AlignPointer(t)
  \/ StoreEntry(t) \/ NextMultiple(t) \/ GenReturns(t) \/ TableFree(t)

\* Callers that serialise their calls, as CRYPTO_init's lock does: none begins
\* before the last one has returned.
TakeTurns == \A t \in Threads :
  GenReturnsAtOnce(t) \/ GenStarts(t) \/ TableFree(t) => \A u \in Threads : pc[u] = "idle"

----------------------------------------------------------------------------
TableTypeOK ==
  /\ storage \in Blocks \cup {NULL} /\ precomp \in Blocks \cup {NULL}
  /\ offset \in [Blocks -> 1..64] /\ live \subseteq Blocks /\ freed \subseteq Blocks
  /\ mallocs \in 0..MaxBlocks
  /\ pc \in [Threads -> {"idle", "malloc", "align", "fill"}]
  /\ ret \in [Threads -> {"none", "OK", "ERR"}]
  /\ T \in [Threads -> Points] /\ P \in [Threads -> Points]
  /\ k \in [Threads -> 0..Multiples] /\ j \in [Threads -> 0..Windows]

\* The table that the library's globals name is allocated and complete.
FullTable  == [w \in W |-> [i \in K |-> TableEntry(w, i)]]
TableReady == precomp \in live /\ block[precomp] = FullTable

\* An entry, once stored, is the multiple of G that scalar_mul_gen takes it
\* for, whoever stored it (secp256k1.c:368-382).
StoredEntriesRight ==
  \A b \in Blocks, w \in W, i \in K : block[b][w][i] \in {Garbage, FullTable[w][i]}

\* Every store of an entry lies in the block, however malloc has aligned it:
\* the 64 bytes added to the size pay for the aligned start.  While the table
\* is filled its block stays allocated.  No block is ever lost: one that is
\* allocated is the one that table_free would free (secp256k1.c:352-373).
StoresInLiveBlock ==
  /\ \A t \in Threads : pc[t] = "fill" =>
       /\ precomp = storage /\ precomp \in live
       /\ j[t] \in W => offset[precomp] + (j[t] * Multiples + k[t]) * EntrySize <= BlockSize
  /\ live \subseteq {storage}

\* A call returns OK over a table that is complete, no entry of it being left
\* to what the stack held (as an infinite point would leave it), whatever calls
\* and mallocs failed before.  The one exception is a pointer that a table_free
\* has freed and left in place: over that block later calls return OK
\* (secp256k1.c:352-386, 666-669).
ReadyUnlessFreed ==
  \A t \in Threads : ret[t] = "OK" => TableReady \/ storage \in freed
=============================================================================
