-------------------------------- MODULE UtHash --------------------------------
(***************************************************************************)
(* The hash table of uthash.h as the server uses it (HASH_FIND and         *)
(* HASH_ADD, in statistics.c and wlan_fdb.c): chains in buckets, prepended *)
(* to, and doubled in number when one grows long, unless doubling turns    *)
(* out not to help.  Elements are identified with their keys; a chain is a *)
(* sequence, and the application order is kept by the user of the table.   *)
(***************************************************************************)
EXTENDS Naturals, Sequences, FiniteSets, Functions, SequencesExt

CONSTANTS
  Keys,          \* the keys of the elements
  hashv,         \* the hash value of each key (HASH_JEN)
  InitialLog2,   \* HASH_INITIAL_NUM_BUCKETS_LOG2, 5 in the code
  Thresh         \* HASH_BKT_CAPACITY_THRESH, 10 in the code

ASSUME UtHashAssumption ==
  /\ hashv \in [Keys -> Nat]
  /\ InitialLog2 \in Nat
  /\ Thresh \in Nat \ {0}

\* UT_hash_bucket
NoBucket == [chain |-> <<>>, count |-> 0, expand_mult |-> 0]

Buckets(n) == [b \in 0 .. n - 1 |-> NoBucket]

\* UT_hash_table
HASH_MAKE_TABLE ==
  [buckets |-> Buckets(2 ^ InitialLog2), log2_num_buckets |-> InitialLog2,
   num_items |-> 0, ineff_expands |-> 0, noexpand |-> FALSE]

num_buckets(tbl) == 2 ^ tbl.log2_num_buckets

HASH_TO_BKT(key, n) == hashv[key] % n

\* Mutant: the walk of the chain stops at its first item.
FindFirst(chain, key) == chain # <<>> /\ chain[1] = key

HASH_FIND_IN_BKT(chain, key) ==
  \E x \in DOMAIN chain : hashv[chain[x]] = hashv[key] /\ chain[x] = key

\* TRUE when the element is found.
HASH_FIND(tbl, key) ==
  HASH_FIND_IN_BKT(tbl.buckets[HASH_TO_BKT(key, num_buckets(tbl))].chain, key)

-----------------------------------------------------------------------------
(* HASH_EXPAND_BUCKETS                                                     *)

\* The number of items rounded up over the new number of buckets.
ideal_chain_maxlen(tbl) ==
  LET n == 2 * num_buckets(tbl)
  IN tbl.num_items \div n + (IF tbl.num_items % n # 0 THEN 1 ELSE 0)

\* An item of an old chain is prepended to its new one.
Moved(bucket, key, ideal) ==
  LET count == bucket.count + 1
  IN [chain |-> <<key>> \o bucket.chain,
      count |-> count,
      expand_mult |-> bucket.expand_mult
                      + IF count > ideal /\ count > bucket.expand_mult * ideal
                        THEN 1 ELSE 0]

\* Mutant: the items stay in the buckets with the numbers they had.
MoveAmongOld(buckets, key, ideal) ==
  LET b == HASH_TO_BKT(key, Cardinality(DOMAIN buckets) \div 2)
  IN [buckets EXCEPT ![b] = Moved(@, key, ideal)]

Move(buckets, key, ideal) ==
  LET b == HASH_TO_BKT(key, Cardinality(DOMAIN buckets))
  IN [buckets EXCEPT ![b] = Moved(@, key, ideal)]

\* The items in the order in which expansion meets them.
Items(tbl) ==
  FlattenSeq([b \in 1 .. num_buckets(tbl) |-> tbl.buckets[b - 1].chain])

\* Those beyond the ideal place in their chain.
nonideal_items(buckets, ideal) ==
  FoldFunction(LAMBDA b, n : n + (IF b.count > ideal THEN b.count - ideal ELSE 0),
               0, buckets)

HASH_EXPAND_BUCKETS(tbl) ==
  LET ideal == ideal_chain_maxlen(tbl)
      buckets == FoldLeft(LAMBDA bs, key : Move(bs, key, ideal),
                          Buckets(2 * num_buckets(tbl)), Items(tbl))
      ineff == IF nonideal_items(buckets, ideal) > tbl.num_items \div 2
               THEN tbl.ineff_expands + 1 ELSE 0
  IN [tbl EXCEPT !.buckets = buckets,
                 !.log2_num_buckets = @ + 1,
                 !.ineff_expands = ineff,
                 !.noexpand = @ \/ ineff > 1]

-----------------------------------------------------------------------------
(* HASH_ADD                                                                *)

HASH_ADD_TO_BKT(tbl, b, key) ==
  LET bucket == [tbl.buckets[b] EXCEPT !.chain = <<key>> \o @, !.count = @ + 1]
      added == [tbl EXCEPT !.buckets[b] = bucket]
  IN IF bucket.count >= (bucket.expand_mult + 1) * Thresh /\ ~tbl.noexpand
     THEN HASH_EXPAND_BUCKETS(added)
     ELSE added

HASH_ADD_TO_TABLE(tbl, key) ==
  HASH_ADD_TO_BKT([tbl EXCEPT !.num_items = @ + 1],
                  HASH_TO_BKT(key, num_buckets(tbl)), key)

-----------------------------------------------------------------------------

\* What uthash checks after each addition when HASH_DEBUG is defined: the
\* counts agree with the chains, with each other and with the list.
HASH_FSCK(tbl, list) ==
  /\ \A b \in DOMAIN tbl.buckets : tbl.buckets[b].count = Len(tbl.buckets[b].chain)
  /\ Len(Items(tbl)) = tbl.num_items
  /\ Len(list) = tbl.num_items
=============================================================================
