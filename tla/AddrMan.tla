------------------------------- MODULE AddrMan -------------------------------
(***************************************************************************)
(* The address manager (addrman.cpp, addrman.h) and its file peers.dat     *)
(* (CAddrDB in db.cpp).  One CAddrMan object keeps every address it knows  *)
(* under an id in five indexes that must agree: mapInfo (id to entry),     *)
(* mapAddr (network address to id), vRandom (all ids, shuffled), vvTried   *)
(* and vvNew (the buckets), and two counters.  Each operation holds cs     *)
(* from its first line to its last, so each is one action.                 *)
(*                                                                         *)
(* Statistics that only feed a random choice are abstracted: IsTerrible,   *)
(* nTime and the stochastic test of Add_ become a choice of TLC.  The four *)
(* draws of ShrinkNew may coincide, so any entry of the bucket can be the  *)
(* one it removes.  Hashes are constant functions to buckets.  An address  *)
(* that is not routable is refused at once by Add_; Services holds the     *)
(* others.  Vectors count from 1 here and from 0 in the code.              *)
(***************************************************************************)
EXTENDS Integers, FiniteSets, Sequences, SequencesExt

CONSTANTS
  Services,             \* CService: an address with its port
  NetAddr,              \* the CNetAddr of a service, without the port
  Sources,              \* who told us
  NewBuckets, TriedBuckets,
  NewBucketOf,          \* GetNewBucket: network address and source to bucket
  TriedBucketOf,        \* GetTriedBucket: service to bucket
  NewBucketSize,        \* ADDRMAN_NEW_BUCKET_SIZE
  TriedBucketSize,      \* ADDRMAN_TRIED_BUCKET_SIZE
  NewBucketsPerAddress, \* ADDRMAN_NEW_BUCKETS_PER_ADDRESS
  InspectOnEvict,       \* ADDRMAN_TRIED_ENTRIES_INSPECT_ON_EVICT
  GetAddrMaxPct,        \* ADDRMAN_GETADDR_MAX_PCT
  MaxTime,              \* bound: times of success are 1 .. MaxTime
  MaxIds                \* bound: ids handed out between two restarts

Nets == {NetAddr[s] : s \in Services}

ASSUME AddrManAssumption ==
  /\ NetAddr \in [Services -> Nets] /\ IsFiniteSet(Services)
  /\ NewBuckets \subseteq Nat /\ IsFiniteSet(NewBuckets)
  /\ NewBucketOf \in [Nets \X Sources -> NewBuckets]
  /\ TriedBucketOf \in [Services -> TriedBuckets]
  /\ {NewBucketSize, TriedBucketSize, NewBucketsPerAddress, InspectOnEvict} \subseteq Nat \ {0}
  /\ GetAddrMaxPct \in 0 .. 100
  /\ MaxTime \in Nat \ {0} /\ MaxIds \in Nat

VARIABLE am   \* the CAddrMan object

\* Entries: what CAddrInfo keeps of an address.
CAddrInfo(svc, source) ==
  [addr |-> svc, source |-> source, nLastSuccess |-> 0, nRefCount |-> 0,
   fInTried |-> FALSE, nRandomPos |-> 0]

\* The empty object that the constructor builds.
CAddrMan ==
  [nIdCount |-> 0, mapInfo |-> <<>>, mapAddr |-> <<>>, vRandom |-> <<>>,
   nTried |-> 0, vvTried |-> [b \in TriedBuckets |-> <<>>],
   nNew |-> 0, vvNew |-> [b \in NewBuckets |-> {}]]

Put(f, x, v) == [y \in DOMAIN f \cup {x} |-> IF y = x THEN v ELSE f[y]]
Forget(f, x) == [y \in DOMAIN f \ {x} |-> f[y]]

Known(m, svc) == NetAddr[svc] \in DOMAIN m.mapAddr
Find(m, svc)  == m.mapAddr[NetAddr[svc]]

Create(m, svc, source) ==
  LET nId == m.nIdCount
      pos == Len(m.vRandom) + 1
  IN [m EXCEPT !.nIdCount = nId + 1,
               !.mapInfo = Put(@, nId, [CAddrInfo(svc, source) EXCEPT !.nRandomPos = pos]),
               !.mapAddr = Put(@, NetAddr[svc], nId),
               !.vRandom = Append(@, nId)]

SwapRandom(m, p, q) ==
  IF p = q THEN m
  ELSE LET nId1 == m.vRandom[p]
           nId2 == m.vRandom[q]
       IN [m EXCEPT !.mapInfo[nId1].nRandomPos = q, !.mapInfo[nId2].nRandomPos = p,
                    !.vRandom[p] = nId2, !.vRandom[q] = nId1]

\* The removal of an entry that no bucket refers to any more, in ShrinkNew.
Delete(m, nId) ==
  LET s == SwapRandom(m, m.mapInfo[nId].nRandomPos, Len(m.vRandom))
  IN [s EXCEPT !.vRandom = Front(@),
               !.mapAddr = Forget(@, NetAddr[m.mapInfo[nId].addr]),
               !.mapInfo = Forget(@, nId),
               !.nNew = @ - 1]

\* Make room in a full new bucket by taking nId out of it.
ShrinkNew(m, nUBucket, nId) ==
  LET dec == [m EXCEPT !.mapInfo[nId].nRefCount = @ - 1]
      del == IF dec.mapInfo[nId].nRefCount = 0 THEN Delete(dec, nId) ELSE dec
  IN [del EXCEPT !.vvNew[nUBucket] = @ \ {nId}]

\* Draws of GetRandInt(len - i) + i for the first n places of a shuffle.
Draws(n, len) == {r \in [1 .. n -> 1 .. len] : \A i \in 1 .. n : r[i] >= i}

SmallerOf(a, b) == IF a < b THEN a ELSE b

Inspected(v) == SmallerOf(InspectOnEvict, Len(v))

\* One place of the search in a tried bucket: the entry drawn for place i, and the oldest
\* success so far with the place it was drawn from.
ScanTried(m, s, i, nPos) ==
  LET nTemp == s.vTried[nPos]
      v == [s.vTried EXCEPT ![nPos] = s.vTried[i], ![i] = nTemp]
  IN IF \/ s.nOldest = -1
        \/ m.mapInfo[nTemp].nLastSuccess < m.mapInfo[s.nOldest].nLastSuccess
     THEN [vTried |-> v, nOldest |-> nTemp, nOldestPos |-> nPos]
     ELSE [s EXCEPT !.vTried = v]

Scanning(m, nKBucket, r) ==
  LET s[i \in 0 .. Inspected(m.vvTried[nKBucket])] ==
        IF i = 0 THEN [vTried |-> m.vvTried[nKBucket], nOldest |-> -1, nOldestPos |-> 0]
        ELSE ScanTried(m, s[i - 1], i, r[i])
  IN s

\* Shuffles the first places of a tried bucket, looking for the entry with
\* the oldest success, and returns the bucket and the place to replace: the
\* one that entry was drawn from.
SelectTried(m, nKBucket, r) == Scanning(m, nKBucket, r)[Inspected(m.vvTried[nKBucket])]

\* Fault: the search ends at the first bucket.
OutOfOneNew(m, nId) ==
  LET b == CHOOSE c \in NewBuckets : nId \in m.vvNew[c]
  IN [m EXCEPT !.vvNew[b] = @ \ {nId}, !.mapInfo[nId].nRefCount = 0, !.nNew = @ - 1]

\* Out of every new bucket, the first part of MakeTried.
OutOfNew(m, nId) ==
  LET in == {b \in NewBuckets : nId \in m.vvNew[b]}
  IN [m EXCEPT !.vvNew = [b \in NewBuckets |-> @[b] \ {nId}],
               !.mapInfo[nId].nRefCount = @ - Cardinality(in),
               !.nNew = @ - 1]

\* MakeTried when the tried bucket has room.
IntoRoom(m, nId, nKBucket) ==
  [m EXCEPT !.vvTried[nKBucket] = Append(@, nId),
            !.nTried = @ + 1,
            !.mapInfo[nId].fInTried = TRUE]

\* Fault: the entry that makes room is forgotten.
MakeTriedDropsOld(m, nId, nOrigin, r) ==
  LET out == OutOfNew(m, nId)
      nKBucket == TriedBucketOf[m.mapInfo[nId].addr]
      sel == SelectTried(out, nKBucket, r)
      old == sel.vTried[sel.nOldestPos]
  IN IF Len(out.vvTried[nKBucket]) < TriedBucketSize
     THEN IntoRoom(out, nId, nKBucket)
     ELSE [Delete([out EXCEPT !.nNew = @ + 1], old) EXCEPT
             !.vvTried[nKBucket] = [sel.vTried EXCEPT ![sel.nOldestPos] = nId],
             !.mapInfo[nId].fInTried = TRUE]

\* MakeTried when it is full: the entry at the place SelectTried returns goes
\* back to its own new bucket, or else to the one nId came from.
InsteadOf(m, nId, nKBucket, nOrigin, r) ==
  LET sel == SelectTried(m, nKBucket, r)
      old == sel.vTried[sel.nOldestPos]
      own == NewBucketOf[NetAddr[m.mapInfo[old].addr], m.mapInfo[old].source]
      b   == IF Cardinality(m.vvNew[own]) < NewBucketSize THEN own ELSE nOrigin
  IN [m EXCEPT !.mapInfo[old].fInTried = FALSE,
               !.mapInfo[old].nRefCount = 1,
               !.vvNew[b] = @ \cup {old},
               !.nNew = @ + 1,
               !.vvTried[nKBucket] = [sel.vTried EXCEPT ![sel.nOldestPos] = nId],
               !.mapInfo[nId].fInTried = TRUE]

MakeTried(m, nId, nOrigin, r) ==
  LET out == OutOfNew(m, nId)
      nKBucket == TriedBucketOf[m.mapInfo[nId].addr]
  IN IF Len(out.vvTried[nKBucket]) < TriedBucketSize
     THEN IntoRoom(out, nId, nKBucket)
     ELSE InsteadOf(out, nId, nKBucket, nOrigin, r)

-----------------------------------------------------------------------------
\* peers.dat

\* The ids of a set in the order std::map visits them: the k-th one has k - 1
\* before it.
Rank(S, i) == Cardinality({j \in S : j < i})
InOrder(S) == [k \in 1 .. Cardinality(S) |-> CHOOSE i \in S : Rank(S, i) = k - 1]

\* The part of an entry that is written; the rest is for memory only.
OnDisk(info) ==
  [addr |-> info.addr, source |-> info.source, nLastSuccess |-> info.nLastSuccess]

\* CAddrMan written: the referenced entries up to nNew, the tried ones up to
\* nTried, and the new buckets as indexes into the first list (mapUnkIds).
Serialize(m) ==
  LET newIds == {i \in DOMAIN m.mapInfo : m.mapInfo[i].nRefCount # 0}
      triedIds == {i \in DOMAIN m.mapInfo : m.mapInfo[i].fInTried}
      listed(ids, n) == SubSeq(InOrder(ids), 1, SmallerOf(n, Cardinality(ids)))
      unkId(i) == IF Rank(newIds, i) < m.nNew THEN Rank(newIds, i) ELSE 0
  IN [nNew |-> m.nNew, nTried |-> m.nTried,
      new |-> [k \in DOMAIN listed(newIds, m.nNew) |->
                 OnDisk(m.mapInfo[listed(newIds, m.nNew)[k]])],
      tried |-> [k \in DOMAIN listed(triedIds, m.nTried) |->
                 OnDisk(m.mapInfo[listed(triedIds, m.nTried)[k]])],
      buckets |-> [b \in NewBuckets |-> {unkId(i) : i \in m.vvNew[b]}]]

\* An entry read back, at a place of vRandom.
Restored(d, pos) ==
  [CAddrInfo(d.addr, d.source) EXCEPT !.nLastSuccess = d.nLastSuccess, !.nRandomPos = pos]

\* The new entries of the file get the ids 0, 1, 2 ...
LoadNew(file) ==
  LET ids == 0 .. Len(file.new) - 1
  IN [CAddrMan EXCEPT
        !.nIdCount = Len(file.new), !.nNew = file.nNew, !.nTried = file.nTried,
        !.mapInfo = [i \in ids |-> Restored(file.new[i + 1], i + 1)],
        !.mapAddr = [a \in {NetAddr[file.new[i + 1].addr] : i \in ids} |->
                       CHOOSE i \in ids : NetAddr[file.new[i + 1].addr] = a],
        !.vRandom = [p \in 1 .. Len(file.new) |-> p - 1]]

\* A tried entry goes to its bucket if there is room, and is lost otherwise.
LoadTried(m, d) ==
  LET b == TriedBucketOf[d.addr]
      made == Create(m, d.addr, d.source)
  IN IF Len(m.vvTried[b]) < TriedBucketSize
     THEN [made EXCEPT !.mapInfo[m.nIdCount].nLastSuccess = d.nLastSuccess,
                       !.mapInfo[m.nIdCount].fInTried = TRUE,
                       !.vvTried[b] = Append(@, m.nIdCount)]
     ELSE [m EXCEPT !.nTried = @ - 1]

\* Fault: an entry is put back into one bucket only.
LoadOneBucket(m, file) ==
  LET first(i) == CHOOSE b \in NewBuckets : i \in file.buckets[b]
      ids == {i \in DOMAIN m.mapInfo : \E b \in NewBuckets : i \in file.buckets[b]}
  IN [m EXCEPT !.vvNew = [b \in NewBuckets |-> {i \in ids : first(i) = b}],
               !.mapInfo = [i \in DOMAIN @ |->
                  [@[i] EXCEPT !.nRefCount = IF i \in ids THEN 1 ELSE 0]]]

\* The new buckets, read last, bring the reference counts; an entry goes into
\* the first NewBucketsPerAddress of its buckets.
LoadBuckets(m, file) ==
  LET upTo(b, i) == Cardinality({c \in NewBuckets : c <= b /\ i \in file.buckets[c]})
      buckets == [b \in NewBuckets |->
                    {i \in file.buckets[b] : upTo(b, i) <= NewBucketsPerAddress}]
  IN [m EXCEPT !.vvNew = buckets,
               !.mapInfo = [i \in DOMAIN @ |->
                  [@[i] EXCEPT !.nRefCount =
                     Cardinality({b \in NewBuckets : i \in buckets[b]})]]]

\* The table after the first k tried entries of the file are read.
Loading(file) ==
  LET s[k \in 0 .. Len(file.tried)] ==
        IF k = 0 THEN LoadNew(file) ELSE LoadTried(s[k - 1], file.tried[k])
  IN s

\* CAddrMan read.
Load(file) == LoadBuckets(Loading(file)[Len(file.tried)], file)

-----------------------------------------------------------------------------
AddrInit == am = CAddrMan

\* An address that is not known: it gets an entry and a place in the new
\* bucket of its source.
AddNew(svc, source) ==
  /\ ~Known(am, svc)
  /\ am.nIdCount < MaxIds
  /\ LET made == [Create(am, svc, source) EXCEPT !.nNew = @ + 1]
         nId == am.nIdCount
         b == NewBucketOf[NetAddr[svc], source]
         ref == [made EXCEPT !.mapInfo[nId].nRefCount = @ + 1]
     IN IF Cardinality(am.vvNew[b]) = NewBucketSize
        THEN \E victim \in am.vvNew[b] :
                am' = [ShrinkNew(ref, b, victim) EXCEPT !.vvNew[b] = @ \cup {nId}]
        ELSE am' = [ref EXCEPT !.vvNew[b] = @ \cup {nId}]

\* A known address, told with news: when it is not tried, not in its maximal
\* number of buckets and the stochastic test passes, it enters the bucket of
\* this source too.  The early returns of Add_ leave the tables alone.
AddKnown(svc, source) ==
  /\ Known(am, svc)
  /\ LET nId == Find(am, svc)
         info == am.mapInfo[nId]
         b == NewBucketOf[NetAddr[info.addr], source]
         ref == [am EXCEPT !.mapInfo[nId].nRefCount = @ + 1]
     IN /\ ~info.fInTried
        /\ info.nRefCount # NewBucketsPerAddress
        /\ nId \notin am.vvNew[b]
        /\ IF Cardinality(am.vvNew[b]) = NewBucketSize
           THEN \E victim \in am.vvNew[b] :
                   am' = [ShrinkNew(ref, b, victim) EXCEPT !.vvNew[b] = @ \cup {nId}]
           ELSE am' = [ref EXCEPT !.vvNew[b] = @ \cup {nId}]

\* A connection to svc succeeded: its entry, if it has this very port, is
\* stamped and moved to the tried table from one of the buckets it is in.
Good(svc, nTime) ==
  /\ Known(am, svc)
  /\ LET nId == Find(am, svc)
         info == am.mapInfo[nId]
         m == [am EXCEPT !.mapInfo[nId].nLastSuccess = nTime]
         vTried == am.vvTried[TriedBucketOf[svc]]
     IN /\ info.addr = svc
        /\ IF info.fInTried \/ \A b \in NewBuckets : nId \notin am.vvNew[b]
           THEN am' = m
           ELSE \E nOrigin \in NewBuckets, r \in Draws(Inspected(vTried), Len(vTried)) :
                  /\ nId \in am.vvNew[nOrigin]
                  /\ am' = MakeTried(m, nId, nOrigin, r)

\* The table after the first n places of vRandom are shuffled.
Shuffling(m, nNodes, r) ==
  LET s[n \in 0 .. nNodes] == IF n = 0 THEN m ELSE SwapRandom(s[n - 1], n, r[n])
  IN s

\* Shuffle the first nNodes places of vRandom to answer a getaddr message.
GetAddr ==
  LET nNodes == (GetAddrMaxPct * Len(am.vRandom)) \div 100
  IN \E r \in Draws(nNodes, Len(am.vRandom)) : am' = Shuffling(am, nNodes, r)[nNodes]

\* The process ends and starts again from the dump of this moment.  peers.dat
\* is replaced as a whole, by renaming a complete temporary file, so a crash
\* brings back the table of an earlier dump, which a restart at the time of
\* that dump brings back too: the file needs no variable of its own.
Restart == am' = Load(Serialize(am))

\* peers.dat is missing or fails its checksum: the table starts empty.
RestartEmpty == am' = CAddrMan

AddrNext ==
  \/ \E svc \in Services, source \in Sources : AddNew(svc, source) \/ AddKnown(svc, source)
  \/ \E svc \in Services, nTime \in 1 .. MaxTime : Good(svc, nTime)
  \/ GetAddr
  \/ Restart
  \/ RestartEmpty

AddrSpec == AddrInit /\ [][AddrNext]_am

-----------------------------------------------------------------------------
Ids == 0 .. MaxIds + Cardinality(Services)

CAddrInfos ==
  [addr : Services, source : Sources, nLastSuccess : 0 .. MaxTime,
   nRefCount : Nat, fInTried : BOOLEAN, nRandomPos : Nat]

\* The tables have their types: every id and every entry is a value of its
\* domain (addrman.h:171-196).
AddrTypeOK ==
  /\ DOMAIN am = DOMAIN CAddrMan
  /\ am.nIdCount \in Ids /\ am.nTried \in Nat /\ am.nNew \in Nat
  /\ DOMAIN am.mapInfo \subseteq Ids
  /\ \A i \in DOMAIN am.mapInfo : am.mapInfo[i] \in CAddrInfos
  /\ DOMAIN am.mapAddr \subseteq Nets
  /\ \A a \in DOMAIN am.mapAddr : am.mapAddr[a] \in Ids
  /\ am.vRandom \in Seq(Ids)
  /\ am.vvTried \in [TriedBuckets -> Seq(Ids)]
  /\ am.vvNew \in [NewBuckets -> SUBSET Ids]

\* vRandom lists every entry exactly once and each entry knows its place, and
\* mapAddr leads to the one entry of each network address (codes -5, -7 and
\* -14 of Check_): what SwapRandom, Delete and the shuffles must preserve.
IndexesAgree ==
  /\ Len(am.vRandom) = Cardinality(DOMAIN am.mapInfo)
  /\ Len(am.vRandom) = am.nTried + am.nNew
  /\ \A i \in DOMAIN am.mapInfo :
       /\ am.mapInfo[i].nRandomPos \in DOMAIN am.vRandom
       /\ am.vRandom[am.mapInfo[i].nRandomPos] = i
       /\ NetAddr[am.mapInfo[i].addr] \in DOMAIN am.mapAddr
       /\ Find(am, am.mapInfo[i].addr) = i
       /\ i < am.nIdCount
  /\ Cardinality(DOMAIN am.mapAddr) = Cardinality(DOMAIN am.mapInfo)

InNew(m, i) == {b \in NewBuckets : i \in m.vvNew[b]}
PlacesInTried(m, i) ==
  {z \in TriedBuckets \X (1 .. TriedBucketSize) :
     z[2] \in DOMAIN m.vvTried[z[1]] /\ m.vvTried[z[1]][z[2]] = i}

\* Every entry is either tried, at one place of the bucket of its address and
\* in no new bucket, or new, in as many new buckets as its reference count
\* says, at least one and at most the maximum (codes -1 to -4, -9 to -13 and
\* -15 of Check_); no bucket holds an id without an entry.  The counters never
\* promise entries that are not there, for which Select_ would loop for ever.
BucketsExact ==
  /\ \A i \in DOMAIN am.mapInfo :
       LET info == am.mapInfo[i]
       IN /\ info.nRefCount = Cardinality(InNew(am, i))
          /\ IF info.fInTried
             THEN /\ info.nLastSuccess # 0
                  /\ info.nRefCount = 0
                  /\ Cardinality(PlacesInTried(am, i)) = 1
                  /\ i \in ToSet(am.vvTried[TriedBucketOf[info.addr]])
             ELSE /\ info.nRefCount \in 1 .. NewBucketsPerAddress
                  /\ PlacesInTried(am, i) = {}
  /\ \A b \in NewBuckets : am.vvNew[b] \subseteq DOMAIN am.mapInfo
  /\ \A b \in TriedBuckets : ToSet(am.vvTried[b]) \subseteq DOMAIN am.mapInfo
  /\ am.nTried = Cardinality({i \in DOMAIN am.mapInfo : am.mapInfo[i].fInTried})
  /\ am.nNew = Cardinality({i \in DOMAIN am.mapInfo : ~am.mapInfo[i].fInTried})

\* No bucket outgrows its size, also when an entry evicted from a full tried
\* bucket is put back into the new bucket its successor came from: "there is
\* certainly place there" (addrman.cpp:251).
BucketsBounded ==
  /\ \A b \in NewBuckets : Cardinality(am.vvNew[b]) <= NewBucketSize
  /\ \A b \in TriedBuckets : Len(am.vvTried[b]) <= TriedBucketSize

\* The tables are consistent, as Check_ would find them: five indexes and two
\* counters that every operation updates by hand.
Consistent == AddrTypeOK /\ IndexesAgree /\ BucketsExact /\ BucketsBounded

\* What the table says about addresses, whatever their ids.
Content(m) ==
  [tried |-> [b \in TriedBuckets |->
                {OnDisk(m.mapInfo[i]) : i \in ToSet(m.vvTried[b])}],
   new   |-> [b \in NewBuckets |-> {OnDisk(m.mapInfo[i]) : i \in m.vvNew[b]}],
   size  |-> <<m.nTried, m.nNew, Len(m.vRandom)>>]

\* A dump read back says the same of every address: its bucket or buckets, its
\* source and its last success, although the ids are numbered anew and the
\* indexes of tried entries are assigned and never used (addrman.h:288).
DumpLoadsBack == Content(Load(Serialize(am))) = Content(am)

\* Entries "are never deleted while in the tried table, only possibly evicted
\* back to the new table" (addrman.h:215): a tried address stays known until
\* the process ends, and an eviction makes room for an address that is good.
TriedKept ==
  [][~Restart /\ ~RestartEmpty =>
       /\ am'.nTried >= am.nTried
       /\ \A i \in DOMAIN am.mapInfo :
            am.mapInfo[i].fInTried =>
              /\ i \in DOMAIN am'.mapInfo
              /\ am'.mapInfo[i].addr = am.mapInfo[i].addr
              /\ ~am'.mapInfo[i].fInTried => InNew(am', i) # {}]_am

=============================================================================
