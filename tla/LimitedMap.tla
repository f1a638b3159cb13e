------------------------------ MODULE LimitedMap ------------------------------
(***************************************************************************)
(* limitedmap (limitedmap.h): a map from keys to numbers that keeps a      *)
(* second index, rmap, a multimap from the values to places in the map,    *)
(* and drops the entry that is first in rmap when it grows to its limit.   *)
(* rmap is a sequence of <<value, key>>: std::multimap puts an entry after *)
(* the ones with the same value.                                           *)
(***************************************************************************)
EXTENDS Naturals, Sequences

EmptyMap == [map |-> <<>>, rmap |-> <<>>]

Has(lm, k) == k \in DOMAIN lm.map

\* rmap.insert: behind the p entries with a value up to v.
RInsert(rmap, v, k) ==
  LET p == CHOOSE p \in 0 .. Len(rmap) : \A j \in DOMAIN rmap : rmap[j][1] <= v <=> j <= p
  IN [j \in 1 .. Len(rmap) + 1 |->
        IF j <= p THEN rmap[j] ELSE IF j = p + 1 THEN <<v, k>> ELSE rmap[j - 1]]

\* rmap.erase: of the entries with value v, the one of key k.
RErase(rmap, v, k) ==
  LET p == CHOOSE p \in DOMAIN rmap : rmap[p] = <<v, k>>
  IN [j \in 1 .. Len(rmap) - 1 |-> IF j < p THEN rmap[j] ELSE rmap[j + 1]]

MapErase(map, k)  == [x \in DOMAIN map \ {k} |-> map[x]]
MapSet(map, k, v) == [x \in DOMAIN map \cup {k} |-> IF x = k THEN v ELSE map[x]]

\* Fault: nothing is dropped.
InsertOverLimit(lm, k, v, nMaxSize) ==
  [map |-> MapSet(lm.map, k, v), rmap |-> RInsert(lm.rmap, v, k)]

\* insert of a key that is not there: at the limit, with the new entry counted,
\* the first entry of rmap goes, and the new one is not yet among them.
Insert(lm, k, v, nMaxSize) ==
  LET full == nMaxSize # 0 /\ Len(lm.rmap) + 1 = nMaxSize /\ lm.rmap # <<>>
      kept == IF full THEN [map |-> MapErase(lm.map, lm.rmap[1][2]), rmap |-> Tail(lm.rmap)]
              ELSE lm
  IN [map |-> MapSet(kept.map, k, v), rmap |-> RInsert(kept.rmap, v, k)]

\* update of a key that is there.
Update(lm, k, v) ==
  [map  |-> MapSet(lm.map, k, v),
   rmap |-> RInsert(RErase(lm.rmap, lm.map[k], k), v, k)]

Erase(lm, k) ==
  IF Has(lm, k)
  THEN [map |-> MapErase(lm.map, k), rmap |-> RErase(lm.rmap, lm.map[k], k)]
  ELSE lm

\* Both indexes hold the same entries: each key once, under its own value, and
\* the values of rmap ascend.  erase and update assert(0) otherwise.
Agree(lm) ==
  /\ DOMAIN lm.map = {lm.rmap[j][2] : j \in DOMAIN lm.rmap}
  /\ \A j \in DOMAIN lm.rmap : lm.rmap[j][1] = lm.map[lm.rmap[j][2]]
  /\ \A j, l \in DOMAIN lm.rmap :
       j < l => lm.rmap[j][2] # lm.rmap[l][2] /\ lm.rmap[j][1] <= lm.rmap[l][1]
=============================================================================
