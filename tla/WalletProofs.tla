----------------------------- MODULE WalletProofs -----------------------------
(***************************************************************************)
(* Theorems about the keys of the wallet, for any number of users of       *)
(* reserved keys, any size of the pool and any number of keys: no key is   *)
(* lost, wallet.dat always loads, and the pool hands out every key once.   *)
(***************************************************************************)
EXTENDS Wallet, FiniteSetTheorems, WellFoundedInduction, TLAPS

(***************************************************************************)
(* The inductive invariant                                                 *)
(***************************************************************************)

\* A file whose keys and pool indexes are among the first n.
IsFile(f, n) ==
  /\ DOMAIN f = {"plain", "crypted", "mkey", "pool"}
  /\ f.plain \subseteq 1 .. n /\ f.crypted \subseteq 1 .. n /\ f.mkey \in BOOLEAN
  /\ DOMAIN f.pool \subseteq 1 .. n
  /\ \A i \in DOMAIN f.pool : f.pool[i] \in 1 .. n

\* The same for what is in memory.
IsMem(m, n) ==
  /\ DOMAIN m = {"crypto", "locked", "keys", "pool"}
  /\ m.crypto \in BOOLEAN /\ m.locked \in BOOLEAN /\ (m.locked => m.crypto)
  /\ m.keys \subseteq 1 .. n /\ m.pool \subseteq 1 .. n

\* A state of wallet.dat, memory and the count of keys.
IsState(s) ==
  DOMAIN s = {"disk", "mem", "n"} /\ s.n \in Nat /\ IsFile(s.disk, s.n) /\ IsMem(s.mem, s.n)

\* CReserveKey objects that refer to the first n keys and indexes.
AreReserved(R, n) ==
  /\ R \in [Callers -> [index : Int, key : Int]]
  /\ \A c \in Callers : R[c] # None => R[c].index \in 1 .. n /\ R[c].key \in 0 .. n

Phases == {"no", "keys", "committed", "pool", "copied", "removed"}

\* Types; indexes of the pool never run ahead of the keys generated.
TypeInv ==
  /\ nKeys \in Nat /\ nKeys <= MaxKeys
  /\ IsFile(disk, nKeys) /\ IsFile(copy, nKeys) /\ IsMem(mem, nKeys)
  /\ AreReserved(reserved, nKeys)
  /\ kept \subseteq 1 .. nKeys /\ used \subseteq 1 .. nKeys
  /\ enc \in Phases /\ up \in BOOLEAN /\ collided \in BOOLEAN /\ cut \in BOOLEAN
  /\ ~up => enc = "no" /\ kept = {} /\ \A c \in Callers : reserved[c] = None

\* Which records can be in the two files at each stage of EncryptWallet.
CryptInv ==
  /\ disk.plain = {} \/ disk.crypted = {}
  /\ disk.crypted # {} => disk.mkey
  /\ up /\ mem.crypto /\ enc # "keys" => disk.plain = {}
  /\ up /\ mem.crypto /\ enc \notin {"keys", "removed"} => disk.mkey
  /\ up /\ ~mem.crypto => disk.crypted = {} /\ enc = "no"
  /\ enc = "removed" => disk.plain = {} /\ disk.crypted = {} /\ DOMAIN disk.pool = {}
  /\ enc \in {"pool", "copied"} => disk.crypted # {}
  /\ copy.plain = {}
  /\ copy.crypted # {} => copy.mkey
  /\ enc \in {"copied", "removed"} => copy.mkey

\* The file f has every key of the memory m and every key in U, which are
\* those that were used; its pool hands out every key once, and none in U.
Ledger(f, m, R, U) ==
  /\ U \cup m.keys \subseteq KeysIn(f)
  /\ \A i \in DOMAIN f.pool : f.pool[i] \in KeysIn(f) /\ f.pool[i] \notin U
  /\ \A i, j \in DOMAIN f.pool : f.pool[i] = f.pool[j] => i = j
  /\ \A c \in Callers : R[c].key # NoKey =>
       /\ R[c].key \in m.keys
       /\ \A i \in DOMAIN f.pool : f.pool[i] = R[c].key => i = R[c].index

\* setKeyPool and the reserved keys share out records of f.
Shared(f, m, R) ==
  /\ \A c \in Callers : R[c] # None =>
       /\ R[c].index \in DOMAIN f.pool /\ R[c].index \notin m.pool
       /\ f.pool[R[c].index] = R[c].key
  /\ \A c, d \in Callers : R[c] # None /\ R[d] # None /\ c # d => R[c].index # R[d].index
  /\ \A i \in m.pool : i \in DOMAIN f.pool /\ f.pool[i] \in m.keys

Sound(f) ==
  /\ Ledger(f, mem, reserved, used \cup kept)
  /\ ~collided => Shared(f, mem, reserved)

\* What Rewrite would copy into is empty, as long as no wallet was rewritten.
CopyClean ==
  enc \in {"keys", "committed", "pool"} \/ (enc = "no" /\ disk.crypted = {}) =>
    copy.crypted = {} /\ DOMAIN copy.pool = {}

LedgerInv ==
  ~cut =>
    /\ enc # "removed" => Sound(disk)
    /\ enc \in {"copied", "removed"} => Sound(copy)
    /\ CopyClean

WalletInv == TypeInv /\ CryptInv /\ LedgerInv

(***************************************************************************)
(* The least and the greatest of a set of numbers                          *)
(***************************************************************************)

LessThan == {ss \in Nat \X Nat : ss[1] < ss[2]}

\* The order of the naturals is well-founded, so a set of them has a minimum.
LEMMA LessThanWF == IsWellFoundedOn(LessThan, Nat)
<1>1. IsWellFoundedOn(OpToRel(<, Nat), Nat)
  BY NatLessThanWellFounded
<1>2. OpToRel(<, Nat) = LessThan
  BY Zenon DEF OpToRel, LessThan
<1> QED
  BY <1>1, <1>2, Zenon

\* The minimum of a non-empty set of naturals is in it and below the rest.
LEMMA MinIs ==
  ASSUME NEW S \in SUBSET Nat, S # {}
  PROVE  Min(S) \in S /\ \A y \in S : Min(S) <= y
<1>1. PICK x \in S : \A y \in S : ~ (<<y, x>> \in LessThan)
  BY LessThanWF, WFMin
<1>2. ASSUME NEW y \in S PROVE x <= y
  <2>1. ~ (<<y, x>> \in LessThan)
    BY <1>1
  <2>2. <<y, x>> \in Nat \X Nat
    OBVIOUS
  <2>3. ~ (y < x)
    BY <2>1, <2>2 DEF LessThan
  <2> QED
    BY <2>3
<1>3. \E z \in S : \A y \in S : z <= y
  BY <1>2
<1> QED
  BY <1>3 DEF Min

\* The maximum of a non-empty set of naturals up to n is in it and above the rest.
LEMMA MaxIs ==
  ASSUME NEW n \in Nat, NEW S \in SUBSET (1 .. n), S # {}
  PROVE  Max(S) \in S /\ \A y \in S : Max(S) >= y
<1> DEFINE T == {y \in Nat : n - y \in S}
<1>1. T # {}
  <2>1. PICK x \in S : TRUE
    OBVIOUS
  <2>2. n - x \in T
    BY <2>1
  <2> QED
    BY <2>2
<1>2. PICK z \in T : \A y \in T : z <= y
  BY <1>1, MinIs, T \in SUBSET Nat
<1>3. ASSUME NEW x \in S PROVE n - z >= x
  <2>1. n - x \in Nat /\ n - (n - x) = x /\ z \in Nat
    OBVIOUS
  <2>2. z <= n - x
    BY <2>1, <1>2
  <2> QED
    BY <2>1, <2>2
<1>4. \E x \in S : \A y \in S : x >= y
  BY <1>2, <1>3
<1> QED
  BY <1>4 DEF Max

(***************************************************************************)
(* What GenerateNewKey and the operations of the pool do                   *)
(***************************************************************************)

\* r is s with count keys more, whose records are at first and after.
Added(s, first, count, r) ==
  LET new == s.n + 1 .. s.n + count
      at  == first .. first + count - 1
  IN /\ DOMAIN r = {"disk", "mem", "n"} /\ r.n = s.n + count
     /\ DOMAIN r.disk = {"plain", "crypted", "mkey", "pool"} /\ r.disk.mkey = s.disk.mkey
     /\ r.disk.plain = s.disk.plain \cup (IF s.mem.crypto THEN {} ELSE new)
     /\ r.disk.crypted = s.disk.crypted \cup (IF s.mem.crypto THEN new ELSE {})
     /\ DOMAIN r.disk.pool = at \cup DOMAIN s.disk.pool
     /\ \A i \in at : r.disk.pool[i] = s.n + 1 + i - first
     /\ \A i \in DOMAIN s.disk.pool \ at : r.disk.pool[i] = s.disk.pool[i]
     /\ DOMAIN r.mem = {"crypto", "locked", "keys", "pool"}
     /\ r.mem.crypto = s.mem.crypto /\ r.mem.locked = s.mem.locked
     /\ r.mem.keys = s.mem.keys \cup new /\ r.mem.pool = s.mem.pool \cup at

\* Generate adds new keys, and pool indexes for them, to memory and wallet.dat.
LEMMA GenerateIs ==
  ASSUME NEW s, IsState(s), NEW first \in Nat, NEW count \in Nat
  PROVE  Added(s, first, count, Generate(s, first, count))
<1> DEFINE new == s.n + 1 .. s.n + count
           at  == first .. first + count - 1
           crypted == IF s.mem.crypto THEN new ELSE {}
           recs == Over([i \in at |-> s.n + 1 + i - first], s.disk.pool)
           r == Generate(s, first, count)
<1>1. /\ r.disk = [s.disk EXCEPT !.plain = @ \cup (new \ crypted), !.crypted = @ \cup crypted,
                                 !.pool = recs]
      /\ r.mem = [s.mem EXCEPT !.keys = @ \cup new, !.pool = @ \cup at]
      /\ r.n = s.n + count /\ DOMAIN r = {"disk", "mem", "n"}
  BY DEF Generate
<1>2. /\ DOMAIN recs = at \cup DOMAIN s.disk.pool
      /\ \A i \in at : recs[i] = s.n + 1 + i - first
      /\ \A i \in DOMAIN s.disk.pool \ at : recs[i] = s.disk.pool[i]
  BY DEF Over
<1>3. DOMAIN s.disk = {"plain", "crypted", "mkey", "pool"} /\ s.mem.crypto \in BOOLEAN
  BY DEF IsState, IsFile, IsMem
<1>4. DOMAIN s.mem = {"crypto", "locked", "keys", "pool"}
  BY DEF IsState, IsMem
<1> HIDE DEF recs, r
<1>5. /\ DOMAIN r.disk = {"plain", "crypted", "mkey", "pool"} /\ r.disk.mkey = s.disk.mkey
      /\ r.disk.plain = s.disk.plain \cup (new \ crypted)
      /\ r.disk.crypted = s.disk.crypted \cup crypted /\ r.disk.pool = recs
  BY <1>1, <1>3
<1>6. /\ DOMAIN r.mem = {"crypto", "locked", "keys", "pool"}
      /\ r.mem.crypto = s.mem.crypto /\ r.mem.locked = s.mem.locked
      /\ r.mem.keys = s.mem.keys \cup new /\ r.mem.pool = s.mem.pool \cup at
  BY <1>1, <1>4
<1>7. new \ crypted = (IF s.mem.crypto THEN {} ELSE new)
  BY <1>3
<1>8. Added(s, first, count, r)
  BY <1>1, <1>2, <1>3, <1>5, <1>6, <1>7 DEF Added
<1> QED
  BY <1>8 DEF r

\* Generating keys keeps the types, if the indexes start at most after the
\* last key.
LEMMA AddedState ==
  ASSUME NEW s, IsState(s), NEW first \in 1 .. s.n + 1, NEW count \in Nat, NEW r,
         Added(s, first, count, r)
  PROVE  IsState(r) /\ r.n = s.n + count
<1> s.n \in Nat
  BY DEF IsState
<1>1. r.n = s.n + count /\ r.n \in Nat /\ DOMAIN r = {"disk", "mem", "n"}
  BY DEF Added
<1>2. IsMem(r.mem, r.n)
  BY <1>1 DEF Added, IsState, IsMem
<1>3. r.disk.plain \subseteq 1 .. r.n /\ r.disk.crypted \subseteq 1 .. r.n
  BY <1>1 DEF Added, IsState, IsFile, IsMem
<1>4. DOMAIN r.disk.pool \subseteq 1 .. r.n
  BY <1>1 DEF Added, IsState, IsFile
<1>5. \A i \in DOMAIN r.disk.pool : r.disk.pool[i] \in 1 .. r.n
  <2> SUFFICES ASSUME NEW i \in DOMAIN r.disk.pool PROVE r.disk.pool[i] \in 1 .. r.n
    OBVIOUS
  <2>1. CASE i \in first .. first + count - 1
    BY <1>1, <2>1 DEF Added
  <2>2. CASE i \notin first .. first + count - 1
    BY <1>1, <2>2 DEF Added, IsState, IsFile
  <2> QED
    BY <2>1, <2>2
<1>6. DOMAIN r.disk = {"plain", "crypted", "mkey", "pool"} /\ r.disk.mkey \in BOOLEAN
  BY DEF Added, IsState, IsFile
<1>7. IsFile(r.disk, r.n)
  BY <1>3, <1>4, <1>5, <1>6 DEF IsFile
<1> QED
  BY <1>1, <1>2, <1>7 DEF IsState

\* A record of the new pool is an old one, or that of a new key.
LEMMA AddedRecord ==
  ASSUME NEW s, IsState(s), NEW first \in Nat, NEW count \in Nat, NEW r,
         Added(s, first, count, r), NEW i \in DOMAIN r.disk.pool
  PROVE  \/ i \in DOMAIN s.disk.pool /\ r.disk.pool[i] = s.disk.pool[i]
         \/ /\ i \in first .. first + count - 1
            /\ r.disk.pool[i] = s.n + 1 + i - first
            /\ r.disk.pool[i] \in s.n + 1 .. s.n + count
<1> s.n \in Nat
  BY DEF IsState
<1>1. CASE i \in first .. first + count - 1
  BY <1>1 DEF Added
<1>2. CASE i \notin first .. first + count - 1
  BY <1>2 DEF Added
<1> QED
  BY <1>1, <1>2

\* Generated keys and their places in the pool keep the books of file and memory.
LEMMA AddedLedger ==
  ASSUME NEW s, IsState(s), NEW first \in Nat, NEW count \in Nat, NEW r,
         Added(s, first, count, r), NEW R, AreReserved(R, s.n), NEW U \in SUBSET (1 .. s.n),
         Ledger(s.disk, s.mem, R, U)
  PROVE  Ledger(r.disk, r.mem, R, U)
<1> DEFINE new == s.n + 1 .. s.n + count
<1>1. s.n \in Nat /\ new \cap (1 .. s.n) = {}
  BY DEF IsState
<1>2. KeysIn(r.disk) = KeysIn(s.disk) \cup new /\ r.mem.keys = s.mem.keys \cup new
  BY DEF Added, KeysIn, IsState, IsMem
<1>3. ASSUME NEW i \in DOMAIN r.disk.pool
      PROVE  \/ i \in DOMAIN s.disk.pool /\ r.disk.pool[i] = s.disk.pool[i] /\ r.disk.pool[i] \in 1 .. s.n
             \/ r.disk.pool[i] = s.n + 1 + i - first /\ r.disk.pool[i] \in new /\ i \in Int
  BY AddedRecord DEF IsState, IsFile
<1> HIDE DEF new
<1>4. \A i \in DOMAIN r.disk.pool : r.disk.pool[i] \in KeysIn(r.disk) /\ r.disk.pool[i] \notin U
  BY <1>1, <1>2, <1>3 DEF Ledger
<1>5. ASSUME NEW i \in DOMAIN r.disk.pool, NEW j \in DOMAIN r.disk.pool,
             r.disk.pool[i] = r.disk.pool[j]
      PROVE  i = j
  BY <1>1, <1>3, <1>5 DEF Ledger
<1>6. ASSUME NEW c \in Callers, R[c].key # NoKey
      PROVE  /\ R[c].key \in r.mem.keys
             /\ \A i \in DOMAIN r.disk.pool : r.disk.pool[i] = R[c].key => i = R[c].index
  <2>1. R[c].key \in 1 .. s.n
    BY <1>1, <1>6 DEF AreReserved, None, NoKey
  <2> QED
    BY <1>1, <1>2, <1>3, <1>6, <2>1 DEF Ledger
<1> QED
  BY <1>2, <1>4, <1>5, <1>6 DEF Ledger

\* They do not collide with what the users of reserved keys hold.
LEMMA AddedShared ==
  ASSUME NEW s, IsState(s), NEW first \in Nat, NEW count \in Nat, NEW r,
         Added(s, first, count, r), NEW R, Shared(s.disk, s.mem, R),
         \A c \in Callers : R[c] # None => R[c].index \notin first .. first + count - 1
  PROVE  Shared(r.disk, r.mem, R)
<1>1. s.n \in Nat
  BY DEF IsState
<1>2. ASSUME NEW i \in r.mem.pool
      PROVE  i \in DOMAIN r.disk.pool /\ r.disk.pool[i] \in r.mem.keys
  <2>1. i \in DOMAIN r.disk.pool
    BY DEF Added, Shared
  <2>2. CASE i \in first .. first + count - 1
    BY <1>1, <2>1, <2>2 DEF Added
  <2>3. CASE i \notin first .. first + count - 1
    BY <2>3 DEF Added, Shared
  <2> QED
    BY <2>1, <2>2, <2>3
<1>3. ASSUME NEW c \in Callers, R[c] # None
      PROVE  /\ R[c].index \in DOMAIN r.disk.pool /\ R[c].index \notin r.mem.pool
             /\ r.disk.pool[R[c].index] = R[c].key
  BY <1>3 DEF Added, Shared
<1> QED
  BY <1>2, <1>3 DEF Shared

\* What is typed for n keys is typed for more.
LEMMA MoreKeys ==
  ASSUME NEW n \in Nat, NEW m \in Nat, n <= m
  PROVE  /\ \A f : IsFile(f, n) => IsFile(f, m)
         /\ \A R : AreReserved(R, n) => AreReserved(R, m)
         /\ 1 .. n \subseteq 1 .. m
<1>1. 1 .. n \subseteq 1 .. m /\ 0 .. n \subseteq 0 .. m
  OBVIOUS
<1>2. ASSUME NEW f, IsFile(f, n) PROVE IsFile(f, m)
  BY <1>1, <1>2 DEF IsFile
<1>3. ASSUME NEW R, AreReserved(R, n) PROVE AreReserved(R, m)
  BY <1>1, <1>3 DEF AreReserved
<1> QED
  BY <1>1, <1>2, <1>3

\* The variables, taken together, are a state.
LEMMA NowState == TypeInv => IsState(Now) /\ Now.disk = disk /\ Now.mem = mem /\ Now.n = nKeys
  BY DEF TypeInv, IsState, Now

\* Where TopUpKeyPool starts, and how much it adds.
LEMMA TopUpBounds ==
  ASSUME NEW s, IsState(s)
  PROVE  FirstFree(s) \in 1 .. s.n + 1 /\ Lacking(s) \in Nat
<1>1. s.n \in Nat /\ s.mem.pool \in SUBSET (1 .. s.n)
  BY DEF IsState, IsMem
<1>2. FirstFree(s) \in 1 .. s.n + 1
  <2>1. CASE s.mem.pool = {}
    BY <1>1, <2>1 DEF FirstFree
  <2>2. CASE s.mem.pool # {}
    <3>1. Max(s.mem.pool) \in 1 .. s.n
      BY <1>1, <2>2, MaxIs
    <3> QED
      BY <1>1, <2>2, <3>1 DEF FirstFree
  <2> QED
    BY <2>1, <2>2
<1>3. Cardinality(s.mem.pool) \in Nat
  <2>1. IsFiniteSet(1 .. s.n)
    BY <1>1, FS_Interval
  <2>2. IsFiniteSet(s.mem.pool)
    BY <1>1, <2>1, FS_Subset
  <2> QED
    BY <2>2, FS_CardinalityType
<1> QED
  BY <1>2, <1>3, WalletAssumption DEF Lacking

\* TopUpKeyPool adds the keys that are lacking.
LEMMA TopUpIs ==
  ASSUME TypeInv
  PROVE  /\ IsState(TopUp(Now)) /\ TopUp(Now).n = nKeys + Lacking(Now)
         /\ Added(Now, FirstFree(Now), Lacking(Now), TopUp(Now))
         /\ FirstFree(Now) \in Nat /\ Lacking(Now) \in Nat
<1>1. IsState(Now) /\ Now.n = nKeys
  BY NowState
<1>2. FirstFree(Now) \in 1 .. nKeys + 1 /\ Lacking(Now) \in Nat /\ nKeys \in Nat
  BY <1>1, TopUpBounds DEF TypeInv
<1>3. Added(Now, FirstFree(Now), Lacking(Now), TopUp(Now))
  BY <1>1, <1>2, GenerateIs DEF TopUp
<1> QED
  BY <1>1, <1>2, <1>3, AddedState

\* What ReserveKeyFromKeyPool takes out of setKeyPool.
LEMMA TakenIs ==
  ASSUME NEW s, IsState(s), s.mem.pool # {}
  PROVE  /\ Min(s.mem.pool) \in s.mem.pool /\ Min(s.mem.pool) \in 1 .. s.n
         /\ DOMAIN Taken(s) = {"disk", "mem", "n"}
         /\ Taken(s).disk = s.disk /\ Taken(s).n = s.n
         /\ Taken(s).mem = [s.mem EXCEPT !.pool = @ \ {Min(s.mem.pool)}]
         /\ IsMem(Taken(s).mem, s.n)
<1>1. s.mem.pool \in SUBSET Nat /\ s.mem.pool \subseteq 1 .. s.n
  BY DEF IsState, IsMem
<1>2. Min(s.mem.pool) \in s.mem.pool
  BY <1>1, MinIs
<1>3. /\ DOMAIN Taken(s) = {"disk", "mem", "n"} /\ Taken(s).disk = s.disk /\ Taken(s).n = s.n
      /\ Taken(s).mem = [s.mem EXCEPT !.pool = @ \ {Min(s.mem.pool)}]
  BY DEF Taken, IsState
<1>4. IsMem(Taken(s).mem, s.n)
  BY <1>3 DEF IsState, IsMem
<1> QED
  BY <1>1, <1>2, <1>3, <1>4

\* The pool of f without the records I.
Without(f, I) == [f EXCEPT !.pool = Restrict(@, DOMAIN @ \ I)]

\* Erasing indexes of the pool leaves a file with the same keys.
LEMMA WithoutIs ==
  ASSUME NEW f, NEW n, IsFile(f, n), NEW I
  PROVE  /\ IsFile(Without(f, I), n)
         /\ Without(f, I).plain = f.plain /\ Without(f, I).crypted = f.crypted
         /\ Without(f, I).mkey = f.mkey /\ KeysIn(Without(f, I)) = KeysIn(f)
         /\ DOMAIN Without(f, I).pool = DOMAIN f.pool \ I
         /\ \A i \in DOMAIN f.pool \ I : Without(f, I).pool[i] = f.pool[i]
<1> DEFINE p == [i \in DOMAIN f.pool \ I |-> f.pool[i]]
<1>1. Without(f, I) = [f EXCEPT !.pool = p]
  BY DEF Without, Restrict
<1> HIDE DEF p
<1>2. /\ DOMAIN Without(f, I) = {"plain", "crypted", "mkey", "pool"}
      /\ Without(f, I).plain = f.plain /\ Without(f, I).crypted = f.crypted
      /\ Without(f, I).mkey = f.mkey /\ Without(f, I).pool = p
  BY <1>1 DEF IsFile
<1>3. DOMAIN p = DOMAIN f.pool \ I /\ \A i \in DOMAIN f.pool \ I : p[i] = f.pool[i]
  BY DEF p
<1>4. IsFile(Without(f, I), n)
  BY <1>2, <1>3 DEF IsFile
<1> QED
  BY <1>2, <1>3, <1>4 DEF KeysIn

\* NewKeyPool generates keys into a pool without what setKeyPool had.
Emptied(s) ==
  [disk |-> Without(s.disk, s.mem.pool), mem |-> [s.mem EXCEPT !.pool = {}], n |-> s.n]

\* NewKeyPool starts from a state without the pool of memory.
LEMMA EmptiedIs ==
  ASSUME TypeInv
  PROVE  /\ IsState(Emptied(Now)) /\ Emptied(Now).disk = Without(disk, mem.pool)
         /\ Emptied(Now).n = nKeys /\ Emptied(Now).mem.pool = {}
         /\ Emptied(Now).mem.keys = mem.keys /\ Emptied(Now).mem.crypto = mem.crypto
         /\ \A count : NewPool(Now, count) = Generate(Emptied(Now), 1, count)
<1>1. IsFile(Without(disk, mem.pool), nKeys)
  BY WithoutIs DEF TypeInv
<1>2. /\ IsMem(Emptied(Now).mem, nKeys) /\ Emptied(Now).mem.pool = {}
      /\ Emptied(Now).mem.keys = mem.keys /\ Emptied(Now).mem.crypto = mem.crypto
  BY DEF Emptied, IsMem, TypeInv, Now
<1>3. /\ Emptied(Now).disk = Without(disk, mem.pool) /\ Emptied(Now).n = nKeys
      /\ DOMAIN Emptied(Now) = {"disk", "mem", "n"}
  BY DEF Emptied, Now
<1>4. \A count : NewPool(Now, count) = Generate(Emptied(Now), 1, count)
  BY DEF NewPool, Emptied, Without
<1> QED
  BY <1>1, <1>2, <1>3, <1>4 DEF IsState, TypeInv

\* NewKeyPool empties the pool and fills it with new keys.
LEMMA NewPoolIs ==
  ASSUME TypeInv, NEW count \in Nat
  PROVE  /\ IsState(NewPool(Now, count)) /\ NewPool(Now, count).n = nKeys + count
         /\ Added(Emptied(Now), 1, count, NewPool(Now, count))
<1>1. IsState(Emptied(Now)) /\ Emptied(Now).n = nKeys /\ nKeys \in Nat
  BY EmptiedIs DEF TypeInv
<1>2. NewPool(Now, count) = Generate(Emptied(Now), 1, count)
  BY EmptiedIs
<1>3. Added(Emptied(Now), 1, count, NewPool(Now, count))
  BY <1>1, <1>2, GenerateIs
<1> QED
  BY <1>1, <1>3, AddedState

(***************************************************************************)
(* Type correctness                                                        *)
(***************************************************************************)

\* The empty file and the empty memory are well formed.
LEMMA EmptyIs ==
  ASSUME NEW n \in Nat
  PROVE  /\ IsFile(NoFile, n) /\ IsMem(LoadWallet(NoFile), n)
         /\ AreReserved([c \in Callers |-> None], n)
<1>1. IsFile(NoFile, n)
  <2>1. DOMAIN << >> = {}
    OBVIOUS
  <2> QED
    BY <2>1 DEF NoFile, IsFile
<1>2. IsMem(LoadWallet(NoFile), n)
  BY DEF NoFile, LoadWallet, IsMem, KeysIn
<1>3. AreReserved([c \in Callers |-> None], n)
  BY DEF AreReserved, None, NoKey
<1> QED
  BY <1>1, <1>2, <1>3

\* What the empty file and memory hold: nothing.
LEMMA EmptyFields ==
  /\ NoFile.plain = {} /\ NoFile.crypted = {} /\ NoFile.mkey = FALSE /\ DOMAIN NoFile.pool = {}
  /\ LoadWallet(NoFile).crypto = FALSE /\ LoadWallet(NoFile).locked = FALSE
  /\ LoadWallet(NoFile).keys = {} /\ LoadWallet(NoFile).pool = {}
<1>1. DOMAIN << >> = {}
  OBVIOUS
<1>2. NoFile.plain = {} /\ NoFile.crypted = {} /\ NoFile.mkey = FALSE /\ DOMAIN NoFile.pool = {}
  BY <1>1 DEF NoFile
<1> QED
  BY <1>2 DEF LoadWallet, KeysIn

\* A new wallet has no key.
LEMMA TypeInit == Init => TypeInv
<1> SUFFICES ASSUME Init PROVE TypeInv
  OBVIOUS
<1>1. IsFile(disk, nKeys) /\ IsFile(copy, nKeys) /\ IsMem(mem, nKeys) /\ AreReserved(reserved, nKeys)
  BY EmptyIs DEF Init
<1>2. \A c \in Callers : reserved[c] = None
  BY DEF Init
<1>3. nKeys \in Nat /\ nKeys <= MaxKeys
  BY WalletAssumption DEF Init
<1>4. /\ kept \subseteq 1 .. nKeys /\ used \subseteq 1 .. nKeys /\ enc \in Phases
      /\ up \in BOOLEAN /\ collided \in BOOLEAN /\ cut \in BOOLEAN /\ enc = "no" /\ kept = {}
  BY DEF Init, Phases
<1> QED
  BY <1>1, <1>2, <1>3, <1>4 DEF TypeInv

\* A step that leaves the copy and EncryptWallet alone.
LEMMA TypeGoes ==
  ASSUME TypeInv, nKeys' \in Nat, nKeys <= nKeys', nKeys' <= MaxKeys,
         IsFile(disk', nKeys'), IsMem(mem', nKeys'), AreReserved(reserved', nKeys'),
         UNCHANGED copy, kept' \cup used' \subseteq 1 .. nKeys', enc' \in Phases,
         up, UNCHANGED <<up, cut>>, collided' \in BOOLEAN
  PROVE  TypeInv'
<1>1. IsFile(copy', nKeys')
  BY MoreKeys DEF TypeInv
<1> QED
  BY <1>1 DEF TypeInv

\* A crash or shutdown keeps wallet.dat and forgets the rest.
LEMMA TypeStop ==
  ASSUME TypeInv, NEW s, Stop(s), s.n \in Nat, nKeys <= s.n, s.n <= MaxKeys, IsFile(s.disk, s.n)
  PROVE  TypeInv'
<1>1. nKeys' = s.n /\ disk' = s.disk /\ UNCHANGED <<copy, used>>
  BY DEF Stop
<1>2. IsFile(copy', nKeys') /\ used' \subseteq 1 .. nKeys'
  BY <1>1, MoreKeys DEF TypeInv
<1>3. IsMem(mem', nKeys') /\ AreReserved(reserved', nKeys')
  BY <1>1, EmptyIs DEF Stop
<1>4. cut' \in BOOLEAN /\ up' = FALSE /\ enc' = "no" /\ kept' = {} /\ collided' \in BOOLEAN
  BY DEF Stop, TypeInv
<1>5. \A c \in Callers : reserved'[c] = None
  BY DEF Stop
<1> QED
  BY <1>1, <1>2, <1>3, <1>4, <1>5 DEF TypeInv, Phases

\* Every operation keeps the types.
LEMMA TypeStep == TypeInv /\ CryptInv /\ [Next]_vars => TypeInv'
<1> SUFFICES ASSUME TypeInv, CryptInv, [Next]_vars PROVE TypeInv'
  OBVIOUS
<1> USE DEF Goes
<1> DEFINE s == TopUp(Now)
<1>0. nKeys \in Nat /\ MaxKeys \in Nat /\ Target \in Nat
  BY WalletAssumption DEF TypeInv
<1>t. /\ IsState(s) /\ s.n = nKeys + Lacking(Now) /\ Lacking(Now) \in Nat
      /\ s.n \in Nat /\ IsFile(s.disk, s.n) /\ IsMem(s.mem, s.n)
  BY TopUpIs, <1>0 DEF IsState
<1>m. AreReserved(reserved, s.n) /\ used \cup kept \subseteq 1 .. s.n /\ nKeys <= s.n
  BY <1>0, <1>t, MoreKeys DEF TypeInv
<1>n. /\ IsState(Now) /\ Now.disk = disk /\ Now.mem = mem /\ Now.n = nKeys
      /\ IsFile(disk, nKeys) /\ IsMem(mem, nKeys)
  BY NowState DEF TypeInv
<1> HIDE DEF s
<1>1. CASE TopUpKeyPool
  <2>1. disk' = s.disk /\ mem' = s.mem /\ nKeys' = s.n /\ s.n <= MaxKeys
    BY <1>1, <1>t DEF TopUpKeyPool, s
  <2>2. up /\ UNCHANGED <<copy, reserved, kept, used, enc, up, cut>> /\ collided' \in BOOLEAN
    BY <1>1 DEF TopUpKeyPool, Free, TypeInv, Overwrites
  <2> QED
    BY <2>1, <2>2, <1>t, <1>m, TypeGoes DEF TypeInv
<1>2. CASE GetKeyFromPool
  <2>1. s.mem.pool # {} /\ s.n <= MaxKeys /\ s.disk.pool[Min(s.mem.pool)] \in s.mem.keys
    BY <1>2, <1>t DEF GetKeyFromPool, s
  <2>2. /\ disk' = Without(s.disk, {Min(s.mem.pool)}) /\ mem' = Taken(s).mem /\ nKeys' = s.n
    BY <1>2, <1>t, <2>1, TakenIs DEF GetKeyFromPool, s, Without
  <2>3. IsFile(disk', nKeys') /\ IsMem(mem', nKeys')
    BY <2>1, <2>2, <1>t, TakenIs, WithoutIs
  <2>4. /\ up /\ UNCHANGED <<copy, reserved, kept, enc, up, cut>> /\ collided' \in BOOLEAN
        /\ used' = used \cup {s.disk.pool[Min(s.mem.pool)]}
    BY <1>2 DEF GetKeyFromPool, Free, TypeInv, Overwrites, s
  <2>5. used' \cup kept' \subseteq 1 .. nKeys'
    BY <2>1, <2>2, <2>4, <1>t, <1>m DEF IsMem
  <2> QED
    BY <2>1, <2>2, <2>3, <2>4, <2>5, <1>t, <1>m, TypeGoes DEF TypeInv
<1>3. CASE SetLocked
  <2>1. IsMem(mem', nKeys')
    BY <1>3, <1>n DEF SetLocked, IsMem
  <2> QED
    BY <1>3, <2>1 DEF SetLocked, TypeInv, Free
<1>4. ASSUME NEW c \in Callers, GetReservedKey(c) \/ GetReservedKeyFails(c) PROVE TypeInv'
  <2> DEFINE k == reserved'[c].key
  <2>1. s.mem.pool # {} /\ s.n <= MaxKeys
    BY <1>4, <1>t DEF GetReservedKey, GetReservedKeyFails, s
  <2>2. disk' = s.disk /\ mem' = Taken(s).mem /\ nKeys' = s.n
    BY <1>4, <1>t, <2>1, TakenIs DEF GetReservedKey, GetReservedKeyFails, s
  <2>3. IsFile(disk', nKeys') /\ IsMem(mem', nKeys')
    BY <2>1, <2>2, <1>t, TakenIs
  <2>4. /\ up /\ UNCHANGED <<copy, kept, used, enc, up, cut>> /\ collided' \in BOOLEAN
    BY <1>4 DEF GetReservedKey, GetReservedKeyFails, Free, TypeInv, Overwrites
  <2>5. PICK key \in 0 .. s.n : reserved' = [reserved EXCEPT ![c] = [index |-> Min(s.mem.pool), key |-> key]]
    <3>1. CASE GetReservedKey(c)
      <4>1. s.disk.pool[Min(s.mem.pool)] \in 0 .. s.n
        <5>1. s.disk.pool[Min(s.mem.pool)] \in s.mem.keys
          BY <3>1 DEF GetReservedKey, s
        <5> QED
          BY <5>1, <1>t DEF IsMem
      <4>2. reserved' = [reserved EXCEPT ![c] = [index |-> Min(s.mem.pool),
                                                 key |-> s.disk.pool[Min(s.mem.pool)]]]
        BY <3>1 DEF GetReservedKey, s
      <4> QED
        BY <4>1, <4>2
    <3>2. CASE GetReservedKeyFails(c)
      <4>1. reserved' = [reserved EXCEPT ![c] = [index |-> Min(s.mem.pool), key |-> NoKey]]
        BY <3>2 DEF GetReservedKeyFails, s
      <4>2. NoKey \in 0 .. s.n
        BY <1>t DEF NoKey
      <4> QED
        BY <4>1, <4>2
    <3> QED
      BY <1>4, <3>1, <3>2
  <2>6. Min(s.mem.pool) \in 1 .. s.n
    BY <2>1, <1>t, TakenIs
  <2>7. AreReserved(reserved', nKeys')
    BY <2>2, <2>5, <2>6, <1>m, <1>t DEF AreReserved
  <2> QED
    BY <2>1, <2>2, <2>3, <2>4, <2>7, <1>t, <1>m, TypeGoes DEF TypeInv
<1>5. ASSUME NEW c \in Callers, KeepKey(c) PROVE TypeInv'
  <2>1. disk' = Without(disk, {reserved[c].index}) /\ UNCHANGED <<copy, mem, nKeys, used, enc, up, collided, cut>>
    BY <1>5 DEF KeepKey, Without
  <2>2. IsFile(disk', nKeys')
    BY <2>1, WithoutIs DEF TypeInv
  <2>3. reserved[c].key \in 1 .. nKeys
    BY <1>5, <1>0 DEF KeepKey, TypeInv, AreReserved, None, NoKey
  <2>4. AreReserved(reserved', nKeys')
    BY <1>5, <2>1 DEF KeepKey, TypeInv, AreReserved, None, NoKey
  <2>5. kept' \cup used' \subseteq 1 .. nKeys' /\ up
    BY <1>5, <2>1, <2>3 DEF KeepKey, TypeInv
  <2> QED
    BY <2>1, <2>2, <2>4, <2>5 DEF TypeInv
<1>6. ASSUME NEW c \in Callers, ReturnKey(c) PROVE TypeInv'
  <2>1. reserved[c].index \in 1 .. nKeys
    BY <1>6 DEF ReturnKey, TypeInv, AreReserved
  <2>2. IsMem(mem', nKeys')
    BY <1>6, <1>n, <2>1 DEF ReturnKey, IsMem
  <2>3. AreReserved(reserved', nKeys')
    BY <1>6 DEF ReturnKey, TypeInv, AreReserved, None, NoKey
  <2> QED
    BY <1>6, <2>2, <2>3 DEF ReturnKey, TypeInv, Free
<1>7. ASSUME NEW k \in Keys, Use(k) PROVE TypeInv'
  BY <1>7 DEF Use, TypeInv
<1>8. CASE EncryptKeys
  <2>1. IsMem(mem', nKeys')
    BY <1>8, <1>n DEF EncryptKeys, IsMem
  <2> QED
    BY <1>8, <2>1 DEF EncryptKeys, TypeInv, Free, Phases
<1>9. CASE CommitKeys
  <2>1. IsFile(disk', nKeys')
    BY <1>9, <1>n DEF CommitKeys, IsFile
  <2> QED
    BY <1>9, <2>1 DEF CommitKeys, TypeInv, Phases
<1>10. CASE NewKeyPool
  <2> DEFINE r == NewPool(Now, Target)
  <2>1. IsState(r) /\ r.n = nKeys + Target
    BY <1>0, NewPoolIs
  <2> HIDE DEF r
  <2>2. disk' = r.disk /\ mem' = [r.mem EXCEPT !.locked = TRUE] /\ nKeys' = r.n /\ r.n <= MaxKeys
    BY <1>10, <2>1 DEF NewKeyPool, IsState, r
  <2>3. r.mem.crypto
    <3>1. mem.crypto
      BY <1>10 DEF NewKeyPool, CryptInv
    <3>2. Added(Emptied(Now), 1, Target, r) /\ Emptied(Now).mem.crypto = mem.crypto
      BY <1>0, NewPoolIs, EmptiedIs DEF r
    <3> QED
      BY <3>1, <3>2 DEF Added
  <2>3a. IsMem(mem', nKeys')
    BY <2>1, <2>2, <2>3 DEF IsState, IsMem
  <2>4. up /\ UNCHANGED <<copy, reserved, kept, used, up, cut>> /\ collided' \in BOOLEAN /\ enc' = "pool"
    BY <1>10 DEF NewKeyPool, TypeInv, Overwrites
  <2>5. AreReserved(reserved, r.n) /\ used \cup kept \subseteq 1 .. r.n /\ nKeys <= r.n /\ r.n \in Nat
    BY <1>0, <2>1, MoreKeys DEF TypeInv
  <2> QED
    BY <2>1, <2>2, <2>3a, <2>4, <2>5, <1>0, TypeGoes DEF TypeInv, IsState, Phases
<1>11. CASE CopyRecords
  <2>1. DOMAIN copy'.pool = DOMAIN copy.pool \cup DOMAIN disk.pool
    BY <1>11 DEF CopyRecords, Over
  <2>2. \A i \in DOMAIN copy'.pool : copy'.pool[i] \in 1 .. nKeys
    BY <1>11 DEF CopyRecords, Over, TypeInv, IsFile
  <2>3. IsFile(copy', nKeys')
    BY <1>11, <2>1, <2>2 DEF CopyRecords, TypeInv, IsFile
  <2> QED
    BY <1>11, <2>3 DEF CopyRecords, TypeInv, Phases
<1>12. CASE RemoveFile
  BY <1>12, <1>0, EmptyIs DEF RemoveFile, TypeInv, Phases
<1>13. CASE RenameFile
  BY <1>13, <1>0, EmptyIs DEF RenameFile, TypeInv, Phases
<1>14. CASE RewriteFails
  BY <1>14 DEF RewriteFails, TypeInv, Phases
<1>15. CASE Crash
  BY <1>15, <1>0, <1>n, TypeStop DEF Crash, TypeInv
<1>16. CASE CrashInTopUp
  <2>1. PICK count \in 1 .. Lacking(Now) - 1 :
          nKeys + count <= MaxKeys /\ Stop(Generate(Now, FirstFree(Now), count))
    BY <1>16 DEF CrashInTopUp
  <2>2. count \in Nat /\ FirstFree(Now) \in 1 .. nKeys + 1
    BY <1>0, <1>n, <1>t, TopUpBounds
  <2>3. IsState(Generate(Now, FirstFree(Now), count)) /\ Generate(Now, FirstFree(Now), count).n = nKeys + count
    BY <1>0, <1>n, <2>2, GenerateIs, AddedState
  <2> QED
    BY <1>0, <2>1, <2>2, <2>3, TypeStop DEF IsState
<1>17. CASE CrashInNewKeyPool
  <2>1. CASE \E I \in SUBSET mem.pool : Stop([Now EXCEPT !.disk.pool = Restrict(@, DOMAIN @ \ I)])
    <3>1. PICK I \in SUBSET mem.pool : Stop([Now EXCEPT !.disk.pool = Restrict(@, DOMAIN @ \ I)])
      BY <2>1
    <3> DEFINE r == [Now EXCEPT !.disk.pool = Restrict(@, DOMAIN @ \ I)]
    <3>2. r.disk = Without(disk, I) /\ r.n = nKeys
      BY DEF Now, Without
    <3>3. IsFile(r.disk, nKeys)
      BY <3>2, <1>n, WithoutIs
    <3> HIDE DEF r
    <3>4. Stop(r)
      BY <3>1 DEF r
    <3> QED
      BY <1>0, <3>2, <3>3, <3>4, TypeStop DEF TypeInv
  <2>2. CASE \E count \in 0 .. Target - 1 : nKeys + count <= MaxKeys /\ Stop(NewPool(Now, count))
    <3>1. PICK count \in 0 .. Target - 1 : nKeys + count <= MaxKeys /\ Stop(NewPool(Now, count))
      BY <2>2
    <3>2. IsState(NewPool(Now, count)) /\ NewPool(Now, count).n = nKeys + count
      BY NewPoolIs, <1>0
    <3> QED
      BY <1>0, <3>1, <3>2, TypeStop DEF IsState
  <2> QED
    BY <1>17, <2>1, <2>2 DEF CrashInNewKeyPool
<1>18. CASE Start
  <2>1. IsMem(mem', nKeys')
    BY <1>18, <1>n DEF Start, LoadWallet, KeysIn, IsMem, IsFile
  <2> QED
    BY <1>18, <2>1 DEF Start, TypeInv
<1>19. CASE UNCHANGED vars
  BY <1>19 DEF vars, TypeInv
<1> QED
  BY <1>1, <1>2, <1>3, <1>4, <1>5, <1>6, <1>7, <1>8, <1>9, <1>10, <1>11, <1>12, <1>13, <1>14,
     <1>15, <1>16, <1>17, <1>18, <1>19 DEF Next

(***************************************************************************)
(* wallet.dat always loads                                                 *)
(***************************************************************************)

\* A new wallet is plain and has no record.
LEMMA CryptInit == Init => CryptInv
  BY EmptyFields DEF Init, CryptInv

\* A crash at any stage of EncryptWallet leaves a file of one kind.
LEMMA CryptStop ==
  ASSUME CryptInv, NEW s, Stop(s), s.disk.plain = {} \/ s.disk.crypted = {},
         s.disk.crypted # {} => s.disk.mkey
  PROVE  CryptInv'
  BY DEF Stop, CryptInv

\* Generating keys keeps a file all plain or all encrypted.
LEMMA AddedOneKind ==
  ASSUME NEW s, IsState(s), NEW first, NEW count, NEW r, Added(s, first, count, r),
         s.disk.crypted # {} => s.disk.mkey,
         s.mem.crypto => s.disk.plain = {} /\ s.disk.mkey,
         ~s.mem.crypto => s.disk.crypted = {}
  PROVE  /\ r.disk.plain = {} \/ r.disk.crypted = {}
         /\ r.disk.crypted # {} => r.disk.mkey
         /\ r.disk.mkey = s.disk.mkey /\ r.mem.crypto = s.mem.crypto
         /\ r.mem.crypto => r.disk.plain = {}
         /\ ~r.mem.crypto => r.disk.crypted = {}
         /\ s.disk.crypted \subseteq r.disk.crypted
<1>1. CASE s.mem.crypto
  BY <1>1 DEF Added
<1>2. CASE ~s.mem.crypto
  BY <1>2 DEF Added
<1> QED
  BY <1>1, <1>2

\* A step outside of EncryptWallet that leaves the copy alone.
LEMMA CryptGoes ==
  ASSUME CryptInv, Free, enc' = enc, UNCHANGED <<copy, up>>,
         disk'.plain = {} \/ disk'.crypted = {}, disk'.crypted # {} => disk'.mkey,
         mem'.crypto => disk'.plain = {} /\ disk'.mkey, ~mem'.crypto => disk'.crypted = {}
  PROVE  CryptInv'
  BY DEF CryptInv, Free

\* Every operation and every stage of EncryptWallet keeps the records of one kind.
LEMMA CryptStep == TypeInv /\ CryptInv /\ [Next]_vars => CryptInv'
<1> SUFFICES ASSUME TypeInv, CryptInv, [Next]_vars PROVE CryptInv'
  OBVIOUS
<1> USE DEF Goes
<1> DEFINE s == TopUp(Now)
<1>t. IsState(s) /\ Added(Now, FirstFree(Now), Lacking(Now), s)
  BY TopUpIs
<1>n. IsState(Now) /\ Now.disk = disk /\ Now.mem = mem /\ Now.n = nKeys
  BY NowState
<1>k. ASSUME Free
      PROVE  /\ s.disk.plain = {} \/ s.disk.crypted = {}
             /\ s.disk.crypted # {} => s.disk.mkey
             /\ s.mem.crypto => s.disk.plain = {} /\ s.disk.mkey
             /\ ~s.mem.crypto => s.disk.crypted = {}
  <2>1. /\ disk.crypted # {} => disk.mkey
        /\ mem.crypto => disk.plain = {} /\ disk.mkey
        /\ ~mem.crypto => disk.crypted = {}
    BY <1>k DEF CryptInv, Free
  <2> HIDE DEF s
  <2> QED
    BY <2>1, <1>t, <1>n, AddedOneKind
<1> HIDE DEF s
<1>1. CASE TopUpKeyPool
  <2>1. disk' = s.disk /\ mem' = s.mem /\ Free /\ UNCHANGED <<copy, enc, up>>
    BY <1>1 DEF TopUpKeyPool, s
  <2> QED
    BY <2>1, <1>k, CryptGoes
<1>2. CASE GetKeyFromPool
  <2>1. Free /\ s.mem.pool # {} /\ UNCHANGED <<copy, enc, up>>
    BY <1>2 DEF GetKeyFromPool, s
  <2>2. disk' = Without(s.disk, {Min(s.mem.pool)}) /\ mem' = [s.mem EXCEPT !.pool = @ \ {Min(s.mem.pool)}]
    BY <1>2, <1>t, <2>1, TakenIs DEF GetKeyFromPool, s, Without
  <2>3. disk'.plain = s.disk.plain /\ disk'.crypted = s.disk.crypted /\ disk'.mkey = s.disk.mkey
    BY <2>2, <1>t, WithoutIs DEF IsState
  <2>4. mem'.crypto = s.mem.crypto
    BY <2>2, <1>t DEF IsState, IsMem
  <2> QED
    BY <2>1, <2>3, <2>4, <1>k, CryptGoes
<1>3. CASE SetLocked
  <2>1. mem'.crypto = mem.crypto
    BY <1>3, <1>n DEF SetLocked, IsState, IsMem
  <2> QED
    BY <1>3, <2>1 DEF SetLocked, CryptInv
<1>4. ASSUME NEW c \in Callers, GetReservedKey(c) \/ GetReservedKeyFails(c) PROVE CryptInv'
  <2>1. Free /\ s.mem.pool # {} /\ UNCHANGED <<copy, enc, up>>
    BY <1>4 DEF GetReservedKey, GetReservedKeyFails, s
  <2>2. disk' = s.disk /\ mem' = [s.mem EXCEPT !.pool = @ \ {Min(s.mem.pool)}]
    BY <1>4, <1>t, <2>1, TakenIs DEF GetReservedKey, GetReservedKeyFails, s
  <2>3. mem'.crypto = s.mem.crypto
    BY <2>2, <1>t DEF IsState, IsMem
  <2> QED
    BY <2>1, <2>2, <2>3, <1>k, CryptGoes
<1>5. ASSUME NEW c \in Callers, KeepKey(c) PROVE CryptInv'
  <2>1. /\ disk' = Without(disk, {reserved[c].index}) /\ UNCHANGED <<copy, mem, enc, up>>
        /\ enc # "removed"
    BY <1>5 DEF KeepKey, Without
  <2>2. disk'.plain = disk.plain /\ disk'.crypted = disk.crypted /\ disk'.mkey = disk.mkey
    BY <2>1, WithoutIs DEF TypeInv
  <2> QED
    BY <2>1, <2>2 DEF CryptInv
<1>6. ASSUME NEW c \in Callers, ReturnKey(c) PROVE CryptInv'
  <2>1. mem'.crypto = mem.crypto
    BY <1>6, <1>n DEF ReturnKey, IsState, IsMem
  <2> QED
    BY <1>6, <2>1 DEF ReturnKey, CryptInv
<1>7. ASSUME NEW k \in Keys, Use(k) PROVE CryptInv'
  BY <1>7 DEF Use, CryptInv
<1>8. CASE EncryptKeys
  <2>1. mem'.crypto = TRUE
    BY <1>8, <1>n DEF EncryptKeys, IsState, IsMem
  <2> QED
    BY <1>8, <2>1 DEF EncryptKeys, CryptInv
<1>9. CASE CommitKeys
  <2>1. disk'.plain = {} /\ disk'.crypted = disk.crypted \cup disk.plain /\ disk'.mkey = TRUE
    BY <1>9, <1>n DEF CommitKeys, IsState, IsFile
  <2> QED
    BY <1>9, <2>1 DEF CommitKeys, CryptInv
<1>10. CASE NewKeyPool
  <2> DEFINE r == NewPool(Now, Target)
             e == Emptied(Now)
  <2>1. Target \in Nat /\ Target > 0 /\ nKeys \in Nat
    BY WalletAssumption DEF TypeInv
  <2>2. IsState(r) /\ Added(e, 1, Target, r) /\ e.n = nKeys
    BY <2>1, NewPoolIs, EmptiedIs
  <2>3. /\ IsState(e) /\ e.mem.crypto = mem.crypto /\ e.disk = Without(disk, mem.pool)
    BY EmptiedIs
  <2>4. e.disk.plain = disk.plain /\ e.disk.crypted = disk.crypted /\ e.disk.mkey = disk.mkey
    BY <2>3, WithoutIs DEF TypeInv
  <2>5. up /\ mem.crypto /\ disk.plain = {} /\ disk.mkey
    BY <1>10 DEF NewKeyPool, CryptInv
  <2> HIDE DEF r, e
  <2>6. disk' = r.disk /\ mem' = [r.mem EXCEPT !.locked = TRUE] /\ UNCHANGED copy /\ enc' = "pool"
    BY <1>10, <2>2 DEF NewKeyPool, IsState, r
  <2>7. mem'.crypto = mem.crypto
    BY <2>2, <2>3, <2>6 DEF IsState, IsMem, Added
  <2>8. r.disk.plain = {} /\ r.disk.mkey = disk.mkey /\ nKeys + 1 .. nKeys + Target \subseteq r.disk.crypted
    BY <2>2, <2>3, <2>4, <2>5 DEF Added
  <2>9. r.disk.crypted # {}
    BY <2>1, <2>8
  <2> QED
    BY <2>5, <2>6, <2>7, <2>8, <2>9 DEF CryptInv
<1>11. CASE CopyRecords
  BY <1>11 DEF CopyRecords, CryptInv
<1>12. CASE RemoveFile
  BY <1>12, EmptyFields DEF RemoveFile, CryptInv
<1>13. CASE RenameFile
  BY <1>13, EmptyFields DEF RenameFile, CryptInv
<1>14. CASE RewriteFails
  BY <1>14 DEF RewriteFails, CryptInv
<1>15. CASE Crash
  BY <1>15, <1>n, CryptStop DEF Crash, CryptInv
<1>16. CASE CrashInTopUp
  <2>1. PICK count \in 1 .. Lacking(Now) - 1 : Free /\ Stop(Generate(Now, FirstFree(Now), count))
    BY <1>16 DEF CrashInTopUp
  <2>2. count \in Nat /\ FirstFree(Now) \in Nat
    BY TopUpIs
  <2> DEFINE r == Generate(Now, FirstFree(Now), count)
  <2>3. Added(Now, FirstFree(Now), count, r)
    BY <1>n, <2>2, GenerateIs
  <2>4. /\ disk.crypted # {} => disk.mkey
        /\ mem.crypto => disk.plain = {} /\ disk.mkey
        /\ ~mem.crypto => disk.crypted = {}
    BY <2>1 DEF CryptInv, Free
  <2> HIDE DEF r
  <2>5. (r.disk.plain = {} \/ r.disk.crypted = {}) /\ (r.disk.crypted # {} => r.disk.mkey)
    BY <2>3, <2>4, <1>n, AddedOneKind
  <2> QED
    BY <2>1, <2>5, CryptStop DEF r
<1>17. CASE CrashInNewKeyPool
  <2>1. ASSUME NEW I, Stop([Now EXCEPT !.disk.pool = Restrict(@, DOMAIN @ \ I)]) PROVE CryptInv'
    <3> DEFINE r == [Now EXCEPT !.disk.pool = Restrict(@, DOMAIN @ \ I)]
    <3>1. r.disk = Without(disk, I)
      BY DEF Now, Without
    <3>2. r.disk.plain = disk.plain /\ r.disk.crypted = disk.crypted /\ r.disk.mkey = disk.mkey
      BY <3>1, WithoutIs DEF TypeInv
    <3> HIDE DEF r
    <3>3. Stop(r)
      BY <2>1 DEF r
    <3> QED
      BY <3>2, <3>3, CryptStop DEF CryptInv
  <2>2. ASSUME NEW count \in Nat, Stop(NewPool(Now, count)) PROVE CryptInv'
    <3> DEFINE r == NewPool(Now, count)
               e == Emptied(Now)
    <3>1. Added(e, 1, count, r)
      BY NewPoolIs
    <3>2. /\ IsState(e) /\ e.mem.crypto = mem.crypto /\ e.disk = Without(disk, mem.pool)
      BY EmptiedIs
    <3>3. e.disk.plain = disk.plain /\ e.disk.crypted = disk.crypted /\ e.disk.mkey = disk.mkey
      BY <3>2, WithoutIs DEF TypeInv
    <3>4. mem.crypto /\ disk.plain = {} /\ disk.mkey
      BY <1>17 DEF CrashInNewKeyPool, CryptInv
    <3> HIDE DEF r, e
    <3>5. r.disk.plain = {} /\ r.disk.mkey
      BY <3>1, <3>2, <3>3, <3>4 DEF Added
    <3> QED
      BY <2>2, <3>5, CryptStop DEF r
  <2>3. \A count \in 0 .. Target - 1 : count \in Nat
    BY WalletAssumption
  <2> QED
    BY <1>17, <2>1, <2>2, <2>3 DEF CrashInNewKeyPool
<1>18. CASE Start
  <2>1. mem'.crypto = (disk.crypted # {})
    BY <1>18 DEF Start, LoadWallet
  <2> QED
    BY <1>18, <2>1 DEF Start, CryptInv, TypeInv
<1>19. CASE UNCHANGED vars
  BY <1>19 DEF vars, CryptInv
<1> QED
  BY <1>1, <1>2, <1>3, <1>4, <1>5, <1>6, <1>7, <1>8, <1>9, <1>10, <1>11, <1>12, <1>13, <1>14,
     <1>15, <1>16, <1>17, <1>18, <1>19 DEF Next

(***************************************************************************)
(* No key is lost, and none is handed out twice                            *)
(***************************************************************************)

\* At the start there is no key to lose.
LEMMA LedgerInit == Init => LedgerInv
<1> SUFFICES ASSUME Init PROVE LedgerInv
  OBVIOUS
<1>1. \A c \in Callers : reserved[c] = None
  BY DEF Init
<1>2. Ledger(disk, mem, reserved, used \cup kept) /\ Shared(disk, mem, reserved)
  BY <1>1, EmptyFields DEF Init, Ledger, Shared, KeysIn, None, NoKey
<1> QED
  BY <1>2, EmptyFields DEF Init, LedgerInv, Sound, CopyClean

\* Erasing records of the pool leaves a ledger.
LEMMA WithoutLedger ==
  ASSUME NEW f, NEW n, IsFile(f, n), NEW I, NEW m, NEW R, NEW U, Ledger(f, m, R, U)
  PROVE  Ledger(Without(f, I), m, R, U)
  BY WithoutIs DEF Ledger

\* After a stop, only what is in the file and was used matters.
LEMMA LedgerStop ==
  ASSUME TypeInv, CryptInv, LedgerInv, NEW s, Stop(s),
         ~cut /\ enc # "removed" => Ledger(s.disk, mem, reserved, used \cup kept),
         disk.crypted \subseteq s.disk.crypted
  PROVE  LedgerInv'
<1> SUFFICES ASSUME ~cut' PROVE LedgerInv'
  BY DEF LedgerInv
<1>1. ~cut /\ enc # "removed"
  BY DEF Stop, TypeInv
<1>2. /\ disk' = s.disk /\ mem' = LoadWallet(NoFile) /\ kept' = {} /\ UNCHANGED <<copy, used>>
      /\ enc' = "no" /\ \A c \in Callers : reserved'[c] = None
  BY DEF Stop
<1>3. Ledger(disk', mem', reserved', used' \cup kept')
  BY <1>1, <1>2, EmptyFields DEF Ledger, None, NoKey
<1>4. Shared(disk', mem', reserved')
  BY <1>2, EmptyFields DEF Shared
<1>5. CopyClean'
  <2> SUFFICES ASSUME disk'.crypted = {} PROVE copy'.crypted = {} /\ DOMAIN copy'.pool = {}
    BY <1>2 DEF CopyClean
  <2>1. disk.crypted = {} /\ enc \notin {"copied", "removed"} /\ enc \in Phases
    BY <1>1, <1>2 DEF CryptInv, TypeInv
  <2> QED
    BY <1>1, <1>2, <2>1 DEF LedgerInv, CopyClean, Phases
<1> QED
  BY <1>2, <1>3, <1>4, <1>5 DEF LedgerInv, Sound

\* A step outside of EncryptWallet that leaves the copy alone.
LEMMA LedgerGoes ==
  ASSUME LedgerInv, Free, UNCHANGED <<copy, enc, cut>>, ~cut => Sound(disk)',
         disk.crypted \subseteq disk'.crypted
  PROVE  LedgerInv'
  BY DEF LedgerInv, Free, CopyClean

\* TopUpKeyPool keeps the ledger, and the sharing unless it writes over a
\* reserved record.
LEMMA TopUpSound ==
  ASSUME TypeInv, Sound(disk)
  PROVE  /\ Ledger(TopUp(Now).disk, TopUp(Now).mem, reserved, used \cup kept)
         /\ ~(collided \/ Overwrites(FirstFree(Now), Lacking(Now)))
              => Shared(TopUp(Now).disk, TopUp(Now).mem, reserved)
<1> DEFINE s == TopUp(Now)
<1>1. /\ Added(Now, FirstFree(Now), Lacking(Now), s)
      /\ FirstFree(Now) \in Nat /\ Lacking(Now) \in Nat
  BY TopUpIs
<1>2. IsState(Now) /\ Now.disk = disk /\ Now.mem = mem /\ Now.n = nKeys
  BY NowState
<1> HIDE DEF s
<1>3. Ledger(s.disk, s.mem, reserved, used \cup kept)
  <2>1. AreReserved(reserved, Now.n) /\ used \cup kept \in SUBSET (1 .. Now.n)
    BY <1>2 DEF TypeInv
  <2>2. Ledger(Now.disk, Now.mem, reserved, used \cup kept)
    BY <1>2 DEF Sound
  <2> QED
    BY <1>1, <1>2, <2>1, <2>2, AddedLedger
<1>4. ASSUME ~collided, ~Overwrites(FirstFree(Now), Lacking(Now))
      PROVE  Shared(s.disk, s.mem, reserved)
  <2>1. \A c \in Callers : reserved[c] # None =>
          reserved[c].index \notin FirstFree(Now) .. FirstFree(Now) + Lacking(Now) - 1
    BY <1>4 DEF Overwrites, ReservedIndexes
  <2>2. Shared(Now.disk, Now.mem, reserved)
    BY <1>2, <1>4 DEF Sound
  <2> QED
    BY <1>1, <1>2, <2>1, <2>2, AddedShared
<1> QED
  BY <1>3, <1>4 DEF s

\* A CReserveKey takes record i from setKeyPool.
LEMMA TakeSound ==
  ASSUME NEW f, NEW m, NEW n, IsMem(m, n), NEW R \in [Callers -> [index : Int, key : Int]], NEW U,
         NEW c \in Callers, NEW i \in m.pool, NEW key \in Int,
         R[c] = None,
         key # NoKey => i \in DOMAIN f.pool /\ key = f.pool[i] /\ key \in m.keys,
         Ledger(f, m, R, U)
  PROVE  LET m2 == [m EXCEPT !.pool = @ \ {i}]
             R2 == [R EXCEPT ![c] = [index |-> i, key |-> key]]
         IN Ledger(f, m2, R2, U) /\ (key # NoKey /\ Shared(f, m, R) => Shared(f, m2, R2))
<1> DEFINE m2 == [m EXCEPT !.pool = @ \ {i}]
           R2 == [R EXCEPT ![c] = [index |-> i, key |-> key]]
<1>1. m2.keys = m.keys /\ m2.pool = m.pool \ {i}
  BY DEF IsMem
<1>2. /\ R2[c].index = i /\ R2[c].key = key /\ R2[c] = [index |-> i, key |-> key]
      /\ \A d \in Callers : d # c => R2[d] = R[d]
  OBVIOUS
<1> HIDE DEF m2, R2
<1>3. Ledger(f, m2, R2, U)
  <2>1. ASSUME NEW d \in Callers, R2[d].key # NoKey
        PROVE  /\ R2[d].key \in m2.keys
               /\ \A j \in DOMAIN f.pool : f.pool[j] = R2[d].key => j = R2[d].index
    <3>1. CASE d = c
      BY <1>1, <1>2, <2>1, <3>1 DEF Ledger
    <3>2. CASE d # c
      BY <1>1, <1>2, <2>1, <3>2 DEF Ledger
    <3> QED
      BY <3>1, <3>2
  <2> QED
    BY <1>1, <2>1 DEF Ledger
<1>4. ASSUME key # NoKey, Shared(f, m, R) PROVE Shared(f, m2, R2)
  <2>1. ASSUME NEW d \in Callers, R2[d] # None
        PROVE  /\ R2[d].index \in DOMAIN f.pool /\ R2[d].index \notin m2.pool
               /\ f.pool[R2[d].index] = R2[d].key
    <3>1. CASE d = c
      BY <1>1, <1>2, <1>4, <3>1
    <3>2. CASE d # c
      BY <1>1, <1>2, <1>4, <2>1, <3>2 DEF Shared
    <3> QED
      BY <3>1, <3>2
  <2>2. ASSUME NEW d \in Callers, NEW e \in Callers, R2[d] # None, R2[e] # None, d # e
        PROVE  R2[d].index # R2[e].index
    BY <1>2, <1>4, <2>2 DEF Shared
  <2>3. \A j \in m2.pool : j \in DOMAIN f.pool /\ f.pool[j] \in m2.keys
    BY <1>1, <1>4 DEF Shared
  <2> QED
    BY <2>1, <2>2, <2>3 DEF Shared
<1> QED
  BY <1>3, <1>4 DEF m2, R2

\* No operation loses a key or hands one out twice.
LEMMA LedgerStep == TypeInv /\ CryptInv /\ LedgerInv /\ [Next]_vars => LedgerInv'
<1> SUFFICES ASSUME TypeInv, CryptInv, LedgerInv, [Next]_vars PROVE LedgerInv'
  OBVIOUS
<1> USE DEF Goes
<1> DEFINE s == TopUp(Now)
           first == FirstFree(Now)
           lacking == Lacking(Now)
           U == used \cup kept
<1>t. /\ IsState(s) /\ Added(Now, first, lacking, s) /\ s.n \in Nat
      /\ IsFile(s.disk, s.n) /\ IsMem(s.mem, s.n) /\ DOMAIN s.disk = {"plain", "crypted", "mkey", "pool"}
  BY TopUpIs DEF IsState, IsFile
<1>n. IsState(Now) /\ Now.disk = disk /\ Now.mem = mem /\ Now.n = nKeys
  BY NowState
<1>c. disk.crypted \subseteq s.disk.crypted
  BY <1>t, <1>n DEF Added
<1>f. ASSUME Free, ~cut
      PROVE  /\ Ledger(s.disk, s.mem, reserved, U)
             /\ ~(collided \/ Overwrites(first, lacking)) => Shared(s.disk, s.mem, reserved)
  BY <1>f, TopUpSound DEF LedgerInv, Free
<1>r. reserved \in [Callers -> [index : Int, key : Int]]
  BY DEF TypeInv, AreReserved
<1> HIDE DEF s
<1>1. CASE TopUpKeyPool
  <2>1. /\ Free /\ disk' = s.disk /\ mem' = s.mem /\ UNCHANGED <<copy, reserved, kept, used, enc, cut>>
        /\ collided' = (collided \/ Overwrites(first, lacking))
    BY <1>1 DEF TopUpKeyPool, s
  <2>2. ~cut => Sound(disk)'
    BY <2>1, <1>f DEF Sound
  <2> QED
    BY <2>1, <2>2, <1>c, LedgerGoes
<1>2. CASE GetKeyFromPool
  <2> DEFINE i == Min(s.mem.pool)
             key == s.disk.pool[i]
  <2>1. /\ Free /\ s.mem.pool # {} /\ i \in DOMAIN s.disk.pool /\ key \in s.mem.keys
        /\ UNCHANGED <<copy, reserved, kept, enc, cut>> /\ used' = used \cup {key}
        /\ collided' = (collided \/ Overwrites(first, lacking))
    BY <1>2 DEF GetKeyFromPool, s
  <2>2. disk' = Without(s.disk, {i}) /\ mem' = [s.mem EXCEPT !.pool = @ \ {i}] /\ i \in s.mem.pool
    BY <1>2, <1>t, <2>1, TakenIs DEF GetKeyFromPool, s, Without
  <2> HIDE DEF i
  <2>3. mem'.keys = s.mem.keys /\ mem'.pool = s.mem.pool \ {i}
    BY <2>2, <1>t DEF IsMem
  <2>4. /\ KeysIn(disk') = KeysIn(s.disk) /\ disk'.crypted = s.disk.crypted
        /\ DOMAIN disk'.pool = DOMAIN s.disk.pool \ {i}
        /\ \A j \in DOMAIN disk'.pool : disk'.pool[j] = s.disk.pool[j]
    BY <2>2, <1>t, WithoutIs
  <2>5. ASSUME ~cut PROVE Ledger(disk', mem', reserved', used' \cup kept')
    <3>1. Ledger(s.disk, s.mem, reserved, U)
      BY <2>1, <2>5, <1>f
    <3>2. \A j \in DOMAIN disk'.pool :
            disk'.pool[j] \in KeysIn(disk') /\ disk'.pool[j] \notin used' \cup kept'
      BY <2>1, <2>4, <3>1 DEF Ledger
    <3>3. used' \cup kept' \cup mem'.keys \subseteq KeysIn(disk')
      BY <2>1, <2>3, <2>4, <3>1 DEF Ledger
    <3>4. \A j, k \in DOMAIN disk'.pool : disk'.pool[j] = disk'.pool[k] => j = k
      BY <2>4, <3>1 DEF Ledger
    <3>5. ASSUME NEW c \in Callers, reserved[c].key # NoKey
          PROVE  /\ reserved[c].key \in mem'.keys
                 /\ \A j \in DOMAIN disk'.pool : disk'.pool[j] = reserved[c].key => j = reserved[c].index
      BY <2>3, <2>4, <3>1, <3>5 DEF Ledger
    <3> QED
      BY <2>1, <3>2, <3>3, <3>4, <3>5 DEF Ledger
  <2>6. ASSUME ~cut, ~collided' PROVE Shared(disk', mem', reserved')
    <3>1. Shared(s.disk, s.mem, reserved)
      BY <2>1, <2>6, <1>f
    <3>2. ASSUME NEW c \in Callers, reserved[c] # None
          PROVE  /\ reserved[c].index \in DOMAIN disk'.pool /\ reserved[c].index \notin mem'.pool
                 /\ disk'.pool[reserved[c].index] = reserved[c].key
      BY <2>2, <2>3, <2>4, <3>1, <3>2 DEF Shared
    <3>3. \A j \in mem'.pool : j \in DOMAIN disk'.pool /\ disk'.pool[j] \in mem'.keys
      BY <2>3, <2>4, <3>1 DEF Shared
    <3> QED
      BY <2>1, <3>1, <3>2, <3>3 DEF Shared
  <2>7. ~cut => Sound(disk)'
    BY <2>5, <2>6 DEF Sound
  <2> QED
    BY <2>1, <2>4, <2>7, <1>c, LedgerGoes
<1>3. CASE SetLocked
  <2>1. mem'.keys = mem.keys /\ mem'.pool = mem.pool
    BY <1>3, <1>n DEF SetLocked, IsState, IsMem
  <2>2. Free /\ UNCHANGED <<disk, copy, reserved, kept, used, enc, cut, collided>>
    BY <1>3 DEF SetLocked
  <2>3. ~cut => Sound(disk)'
    BY <2>1, <2>2 DEF LedgerInv, Free, Sound, Ledger, Shared
  <2> QED
    BY <2>2, <2>3, LedgerGoes
<1>4. ASSUME NEW c \in Callers, GetReservedKey(c) \/ GetReservedKeyFails(c) PROVE LedgerInv'
  <2> DEFINE i == Min(s.mem.pool)
  <2>1. /\ Free /\ s.mem.pool # {} /\ reserved[c] = None
        /\ UNCHANGED <<copy, kept, used, enc, cut>>
        /\ collided' = (collided \/ Overwrites(first, lacking))
    BY <1>4 DEF GetReservedKey, GetReservedKeyFails, s
  <2>2. disk' = s.disk /\ mem' = [s.mem EXCEPT !.pool = @ \ {i}] /\ i \in s.mem.pool
    BY <1>4, <1>t, <2>1, TakenIs DEF GetReservedKey, GetReservedKeyFails, s
  <2>3. PICK key \in Int :
          /\ reserved' = [reserved EXCEPT ![c] = [index |-> i, key |-> key]]
          /\ key # NoKey => i \in DOMAIN s.disk.pool /\ key = s.disk.pool[i] /\ key \in s.mem.keys
          /\ key = NoKey => ~(i \in DOMAIN s.disk.pool /\ s.disk.pool[i] \in s.mem.keys)
    <3>1. CASE GetReservedKey(c)
      <4>1. /\ reserved' = [reserved EXCEPT ![c] = [index |-> i, key |-> s.disk.pool[i]]]
            /\ i \in DOMAIN s.disk.pool /\ s.disk.pool[i] \in s.mem.keys
        BY <3>1 DEF GetReservedKey, s
      <4>2. s.disk.pool[i] \in Int /\ s.disk.pool[i] # NoKey
        BY <4>1, <1>t DEF IsMem, NoKey
      <4> QED
        BY <4>1, <4>2
    <3>2. CASE GetReservedKeyFails(c)
      <4>1. /\ reserved' = [reserved EXCEPT ![c] = [index |-> i, key |-> NoKey]]
            /\ ~(i \in DOMAIN s.disk.pool /\ s.disk.pool[i] \in s.mem.keys)
        BY <3>2 DEF GetReservedKeyFails, s
      <4>2. NoKey \in Int
        BY DEF NoKey
      <4> QED
        BY <4>1, <4>2
    <3> QED
      BY <1>4, <3>1, <3>2
  <2> HIDE DEF i
  <2>4. ASSUME ~cut PROVE Ledger(disk', mem', reserved', used' \cup kept')
    BY <2>1, <2>2, <2>3, <2>4, <1>f, <1>r, <1>t, TakeSound
  <2>5. ASSUME ~cut, ~collided' PROVE Shared(disk', mem', reserved')
    <3>1. Ledger(s.disk, s.mem, reserved, U) /\ Shared(s.disk, s.mem, reserved)
      BY <2>1, <2>5, <1>f
    <3>2. key # NoKey
      BY <2>2, <2>3, <3>1 DEF Shared
    <3> QED
      BY <2>1, <2>2, <2>3, <3>1, <3>2, <1>r, <1>t, TakeSound
  <2>6. ~cut => Sound(disk)'
    BY <2>4, <2>5 DEF Sound
  <2> QED
    BY <2>1, <2>2, <2>6, <1>c, LedgerGoes
<1>5. ASSUME NEW c \in Callers, KeepKey(c) PROVE LedgerInv'
  <2> DEFINE i == reserved[c].index
             key == reserved[c].key
  <2>1. /\ enc \notin {"copied", "removed"} /\ key # NoKey
        /\ disk' = Without(disk, {i}) /\ kept' = kept \cup {key}
        /\ reserved' = [reserved EXCEPT ![c] = None]
        /\ UNCHANGED <<copy, mem, used, enc, cut, collided>>
    BY <1>5 DEF KeepKey, Without
  <2>2. /\ KeysIn(disk') = KeysIn(disk) /\ disk'.crypted = disk.crypted
        /\ DOMAIN disk'.pool = DOMAIN disk.pool \ {i}
        /\ \A j \in DOMAIN disk'.pool : disk'.pool[j] = disk.pool[j]
    BY <2>1, WithoutIs DEF TypeInv
  <2>3. reserved'[c] = None /\ \A d \in Callers : d # c => reserved'[d] = reserved[d]
    BY <2>1, <1>r
  <2>4. ASSUME ~cut PROVE Ledger(disk', mem', reserved', used' \cup kept')
    <3>1. Ledger(disk, mem, reserved, U)
      BY <2>1, <2>4 DEF LedgerInv, Sound
    <3>2. \A j \in DOMAIN disk'.pool :
            disk'.pool[j] \in KeysIn(disk') /\ disk'.pool[j] \notin used' \cup kept'
      BY <2>1, <2>2, <3>1 DEF Ledger
    <3>3. used' \cup kept' \cup mem'.keys \subseteq KeysIn(disk')
      BY <2>1, <2>2, <3>1 DEF Ledger
    <3>4. \A j, k \in DOMAIN disk'.pool : disk'.pool[j] = disk'.pool[k] => j = k
      BY <2>2, <3>1 DEF Ledger
    <3>5. ASSUME NEW d \in Callers, reserved'[d].key # NoKey
          PROVE  /\ reserved'[d].key \in mem'.keys
                 /\ \A j \in DOMAIN disk'.pool : disk'.pool[j] = reserved'[d].key => j = reserved'[d].index
      <4>1. d # c
        BY <2>3, <3>5 DEF None
      <4>2. reserved'[d] = reserved[d] /\ mem' = mem
        BY <2>1, <2>3, <4>1
      <4> QED
        BY <2>2, <3>1, <3>5, <4>2 DEF Ledger
    <3> QED
      BY <3>2, <3>3, <3>4, <3>5 DEF Ledger
  <2>5. ASSUME ~cut, ~collided' PROVE Shared(disk', mem', reserved')
    <3>1. Shared(disk, mem, reserved) /\ reserved[c] # None
      BY <2>1, <2>5 DEF LedgerInv, Sound, None
    <3>2. ASSUME NEW d \in Callers, reserved'[d] # None
          PROVE  /\ reserved'[d].index \in DOMAIN disk'.pool /\ reserved'[d].index \notin mem'.pool
                 /\ disk'.pool[reserved'[d].index] = reserved'[d].key
      <4>1. d # c /\ reserved'[d] = reserved[d] /\ mem' = mem
        BY <2>1, <2>3, <3>2
      <4>2. reserved[d].index # i
        BY <3>1, <3>2, <4>1 DEF Shared
      <4> QED
        BY <2>2, <3>1, <3>2, <4>1, <4>2 DEF Shared
    <3>3. \A j \in mem'.pool : j \in DOMAIN disk'.pool /\ disk'.pool[j] \in mem'.keys
      BY <2>1, <2>2, <3>1 DEF Shared
    <3>4. ASSUME NEW d \in Callers, NEW e \in Callers, reserved'[d] # None, reserved'[e] # None, d # e
          PROVE  reserved'[d].index # reserved'[e].index
      BY <2>3, <3>1, <3>4 DEF Shared
    <3> QED
      BY <3>2, <3>3, <3>4 DEF Shared
  <2>6. ~cut => Sound(disk)'
    BY <2>4, <2>5 DEF Sound
  <2> QED
    BY <2>1, <2>2, <2>6 DEF LedgerInv, CopyClean
<1>6. ASSUME NEW c \in Callers, ReturnKey(c) PROVE LedgerInv'
  <2> DEFINE i == reserved[c].index
  <2>1. /\ Free /\ reserved[c] # None /\ mem' = [mem EXCEPT !.pool = @ \cup {i}]
        /\ reserved' = [reserved EXCEPT ![c] = None]
        /\ UNCHANGED <<disk, copy, used, kept, enc, cut, collided>>
    BY <1>6 DEF ReturnKey
  <2>2. mem'.keys = mem.keys /\ mem'.pool = mem.pool \cup {i}
    BY <2>1, <1>n DEF IsState, IsMem
  <2>3. reserved'[c] = None /\ \A d \in Callers : d # c => reserved'[d] = reserved[d]
    BY <2>1, <1>r
  <2>4. ASSUME ~cut PROVE Ledger(disk', mem', reserved', used' \cup kept')
    <3>1. Ledger(disk, mem, reserved, U)
      BY <2>1, <2>4 DEF LedgerInv, Sound, Free
    <3>2. ASSUME NEW d \in Callers, reserved'[d].key # NoKey
          PROVE  /\ reserved'[d].key \in mem'.keys
                 /\ \A j \in DOMAIN disk'.pool : disk'.pool[j] = reserved'[d].key => j = reserved'[d].index
      <4>1. d # c
        BY <2>3, <3>2 DEF None
      <4> QED
        BY <2>1, <2>2, <2>3, <3>1, <3>2, <4>1 DEF Ledger
    <3> QED
      BY <2>1, <2>2, <3>1, <3>2 DEF Ledger
  <2>5. ASSUME ~cut, ~collided' PROVE Shared(disk', mem', reserved')
    <3>1. Shared(disk, mem, reserved) /\ Ledger(disk, mem, reserved, U)
      BY <2>1, <2>5 DEF LedgerInv, Sound, Free
    <3>2. i \in DOMAIN disk.pool /\ disk.pool[i] = reserved[c].key /\ i \notin mem.pool
      BY <2>1, <3>1 DEF Shared
    <3>3. reserved[c].key # NoKey
      BY <3>2 DEF TypeInv, IsFile, NoKey
    <3>4. ASSUME NEW d \in Callers, reserved'[d] # None
          PROVE  /\ reserved'[d].index \in DOMAIN disk'.pool /\ reserved'[d].index \notin mem'.pool
                 /\ disk'.pool[reserved'[d].index] = reserved'[d].key
      <4>1. d # c /\ reserved'[d] = reserved[d]
        BY <2>3, <3>4
      <4> QED
        BY <2>1, <2>2, <3>1, <3>4, <4>1 DEF Shared
    <3>5. \A j \in mem'.pool : j \in DOMAIN disk'.pool /\ disk'.pool[j] \in mem'.keys
      BY <2>1, <2>2, <3>1, <3>2, <3>3 DEF Shared, Ledger
    <3>6. ASSUME NEW d \in Callers, NEW e \in Callers, reserved'[d] # None, reserved'[e] # None, d # e
          PROVE  reserved'[d].index # reserved'[e].index
      BY <2>3, <3>1, <3>6 DEF Shared
    <3> QED
      BY <3>4, <3>5, <3>6 DEF Shared
  <2>6. ~cut => Sound(disk)'
    BY <2>4, <2>5 DEF Sound
  <2> QED
    BY <2>1, <2>6, LedgerGoes
<1>7. ASSUME NEW k \in Keys, Use(k) PROVE LedgerInv'
  <2>1. U' = U /\ UNCHANGED <<disk, copy, mem, reserved, enc, collided, cut>>
    BY <1>7 DEF Use
  <2>2. (Sound(disk) => Sound(disk)') /\ (Sound(copy) => Sound(copy)')
    BY <2>1 DEF Sound
  <2>3. CopyClean => CopyClean'
    BY <2>1 DEF CopyClean
  <2> QED
    BY <2>1, <2>2, <2>3 DEF LedgerInv
<1>8. CASE EncryptKeys
  <2>1. mem'.keys = mem.keys /\ mem'.pool = mem.pool
    BY <1>8, <1>n DEF EncryptKeys, IsState, IsMem
  <2>2. UNCHANGED <<disk, copy, reserved, kept, used, collided, cut>> /\ enc = "no" /\ enc' = "keys"
    BY <1>8 DEF EncryptKeys, Free
  <2>3. disk.crypted = {}
    BY <1>8 DEF EncryptKeys, Free, CryptInv
  <2>4. Sound(disk) => Sound(disk)'
    BY <2>1, <2>2 DEF Sound, Ledger, Shared
  <2> QED
    BY <2>2, <2>3, <2>4 DEF LedgerInv, CopyClean
<1>9. CASE CommitKeys
  <2>1. KeysIn(disk') = KeysIn(disk) /\ disk'.pool = disk.pool
    BY <1>9, <1>n DEF CommitKeys, KeysIn, IsState, IsFile
  <2>2. /\ UNCHANGED <<copy, mem, reserved, kept, used, collided, cut>>
        /\ enc = "keys" /\ enc' = "committed"
    BY <1>9 DEF CommitKeys
  <2>3. Sound(disk) => Sound(disk)'
    BY <2>1, <2>2 DEF Sound, Ledger, Shared
  <2> QED
    BY <2>2, <2>3 DEF LedgerInv, CopyClean
<1>10. CASE NewKeyPool
  <2> DEFINE r == NewPool(Now, Target)
             e == Emptied(Now)
  <2>1. Target \in Nat /\ 1 \in Nat /\ IsState(r) /\ Added(e, 1, Target, r)
    BY WalletAssumption, NewPoolIs
  <2>2. /\ IsState(e) /\ e.mem.keys = mem.keys /\ e.mem.pool = {}
        /\ e.disk = Without(disk, mem.pool) /\ e.n = nKeys
    BY EmptiedIs
  <2> HIDE DEF r, e
  <2>3. /\ disk' = r.disk /\ mem' = [r.mem EXCEPT !.locked = TRUE] /\ enc' = "pool"
        /\ enc = "committed" /\ UNCHANGED <<copy, reserved, kept, used, cut>>
        /\ collided' = (collided \/ Overwrites(1, Target))
    BY <1>10, <2>1 DEF NewKeyPool, IsState, r
  <2>4. mem'.keys = r.mem.keys /\ mem'.pool = r.mem.pool
    BY <2>1, <2>3 DEF IsState, IsMem
  <2>5. ASSUME ~cut PROVE Ledger(disk', mem', reserved', used' \cup kept')
    <3>1. Ledger(disk, mem, reserved, U)
      BY <2>3, <2>5 DEF LedgerInv, Sound
    <3>2. Ledger(e.disk, mem, reserved, U)
      BY <2>2, <3>1, WithoutLedger DEF TypeInv
    <3>3. Ledger(e.disk, e.mem, reserved, U)
      BY <2>2, <3>2 DEF Ledger
    <3>4. AreReserved(reserved, e.n) /\ U \in SUBSET (1 .. e.n)
      BY <2>2 DEF TypeInv
    <3>5. Ledger(r.disk, r.mem, reserved, U)
      BY <2>1, <2>2, <3>3, <3>4, AddedLedger
    <3> QED
      BY <2>3, <2>4, <3>5 DEF Ledger
  <2>6. ASSUME ~cut, ~collided' PROVE Shared(disk', mem', reserved')
    <3>1. Shared(disk, mem, reserved)
      BY <2>3, <2>6 DEF LedgerInv, Sound
    <3>2. /\ DOMAIN e.disk.pool = DOMAIN disk.pool \ mem.pool
          /\ \A j \in DOMAIN e.disk.pool : e.disk.pool[j] = disk.pool[j]
      BY <2>2, WithoutIs DEF TypeInv
    <3>3. Shared(e.disk, e.mem, reserved)
      BY <2>2, <3>1, <3>2 DEF Shared
    <3>4. \A c \in Callers : reserved[c] # None => reserved[c].index \notin 1 .. 1 + Target - 1
      BY <2>3, <2>6 DEF Overwrites, ReservedIndexes
    <3>5. Shared(r.disk, r.mem, reserved)
      BY <2>1, <2>2, <3>3, <3>4, AddedShared
    <3> QED
      BY <2>3, <2>4, <3>5 DEF Shared
  <2>7. ~cut => Sound(disk)'
    BY <2>5, <2>6 DEF Sound
  <2> QED
    BY <2>3, <2>7 DEF LedgerInv, CopyClean
<1>11. CASE CopyRecords
  <2>1. /\ enc = "pool" /\ enc' = "copied"
        /\ UNCHANGED <<disk, mem, reserved, kept, used, collided, cut>>
    BY <1>11 DEF CopyRecords
  <2>2. ASSUME ~cut PROVE Sound(disk) /\ copy.crypted = {} /\ DOMAIN copy.pool = {} /\ copy.plain = {}
    BY <2>1, <2>2 DEF LedgerInv, CopyClean, CryptInv
  <2>3. ASSUME ~cut
        PROVE  /\ KeysIn(copy') = KeysIn(disk) /\ DOMAIN copy'.pool = DOMAIN disk.pool
               /\ \A i \in DOMAIN disk.pool : copy'.pool[i] = disk.pool[i]
    BY <1>11, <2>2, <2>3 DEF CopyRecords, KeysIn, Over
  <2>4. ~cut => Sound(disk)' /\ Sound(copy)'
    BY <2>1, <2>2, <2>3 DEF Sound, Ledger, Shared
  <2> QED
    BY <2>1, <2>4 DEF LedgerInv, CopyClean
<1>12. CASE RemoveFile
  <2>1. enc = "copied" /\ enc' = "removed" /\ UNCHANGED <<copy, mem, reserved, kept, used, collided, cut>>
    BY <1>12 DEF RemoveFile
  <2>2. Sound(copy) => Sound(copy)'
    BY <2>1 DEF Sound
  <2> QED
    BY <2>1, <2>2 DEF LedgerInv, CopyClean
<1>13. CASE RenameFile
  <2>1. /\ enc = "removed" /\ enc' = "no" /\ disk' = copy /\ copy' = NoFile
        /\ UNCHANGED <<mem, reserved, kept, used, collided, cut>>
    BY <1>13 DEF RenameFile
  <2>2. Sound(copy) => Sound(disk)'
    BY <2>1 DEF Sound
  <2> QED
    BY <2>1, <2>2, EmptyFields DEF LedgerInv, CopyClean
<1>14. CASE RewriteFails
  <2>1. /\ enc \in {"pool", "copied"} /\ enc' = "no"
        /\ UNCHANGED <<disk, copy, mem, reserved, kept, used, collided, cut>>
    BY <1>14 DEF RewriteFails
  <2>2. Sound(disk) => Sound(disk)'
    BY <2>1 DEF Sound
  <2> QED
    BY <2>1, <2>2 DEF LedgerInv, CopyClean, CryptInv
<1>15. CASE Crash
  <2>1. Stop(Now)
    BY <1>15 DEF Crash
  <2>2. ~cut /\ enc # "removed" => Ledger(Now.disk, mem, reserved, U)
    BY <1>n DEF LedgerInv, Sound
  <2> QED
    BY <2>1, <2>2, <1>n, LedgerStop
<1>16. CASE CrashInTopUp
  <2>1. PICK count \in 1 .. Lacking(Now) - 1 : Free /\ Stop(Generate(Now, FirstFree(Now), count))
    BY <1>16 DEF CrashInTopUp
  <2>2. count \in Nat /\ FirstFree(Now) \in Nat
    BY TopUpIs
  <2> DEFINE r == Generate(Now, FirstFree(Now), count)
  <2>3. Added(Now, FirstFree(Now), count, r)
    BY <1>n, <2>2, GenerateIs
  <2> HIDE DEF r
  <2>4. ASSUME ~cut PROVE Ledger(r.disk, r.mem, reserved, U)
    <3>1. Ledger(Now.disk, Now.mem, reserved, U) /\ AreReserved(reserved, Now.n) /\ U \in SUBSET (1 .. Now.n)
      BY <1>n, <2>1, <2>4 DEF LedgerInv, Sound, Free, TypeInv
    <3> QED
      BY <1>n, <2>2, <2>3, <3>1, AddedLedger
  <2>5. mem.keys \subseteq r.mem.keys /\ disk.crypted \subseteq r.disk.crypted
    BY <1>n, <2>3 DEF Added
  <2>6. ASSUME ~cut PROVE Ledger(r.disk, mem, reserved, U)
    <3>1. Ledger(disk, mem, reserved, U)
      BY <2>1, <2>6 DEF LedgerInv, Sound, Free
    <3> QED
      BY <2>4, <2>5, <2>6, <3>1 DEF Ledger
  <2> QED
    BY <2>1, <2>5, <2>6, LedgerStop DEF r
<1>17. CASE CrashInNewKeyPool
  <2>0. enc = "committed" /\ (~cut => Ledger(disk, mem, reserved, U))
    BY <1>17 DEF CrashInNewKeyPool, LedgerInv, Sound
  <2>1. ASSUME NEW I, Stop([Now EXCEPT !.disk.pool = Restrict(@, DOMAIN @ \ I)]) PROVE LedgerInv'
    <3> DEFINE r == [Now EXCEPT !.disk.pool = Restrict(@, DOMAIN @ \ I)]
    <3>1. r.disk = Without(disk, I)
      BY DEF Now, Without
    <3> HIDE DEF r
    <3>2. r.disk.crypted = disk.crypted
      BY <3>1, WithoutIs DEF TypeInv
    <3>3. ~cut => Ledger(r.disk, mem, reserved, U)
      BY <2>0, <3>1, WithoutLedger DEF TypeInv
    <3>4. Stop(r)
      BY <2>1 DEF r
    <3> QED
      BY <3>2, <3>3, <3>4, LedgerStop
  <2>2. ASSUME NEW count \in Nat, Stop(NewPool(Now, count)) PROVE LedgerInv'
    <3> DEFINE r == NewPool(Now, count)
               e == Emptied(Now)
    <3>1. Added(e, 1, count, r) /\ 1 \in Nat
      BY NewPoolIs
    <3>2. /\ IsState(e) /\ e.mem.keys = mem.keys /\ e.disk = Without(disk, mem.pool) /\ e.n = nKeys
      BY EmptiedIs
    <3> HIDE DEF r, e
    <3>3. ASSUME ~cut PROVE Ledger(r.disk, r.mem, reserved, U)
      <4>1. Ledger(e.disk, mem, reserved, U)
        BY <2>0, <3>2, <3>3, WithoutLedger DEF TypeInv
      <4>2. Ledger(e.disk, e.mem, reserved, U)
        BY <3>2, <4>1 DEF Ledger
      <4>3. AreReserved(reserved, e.n) /\ U \in SUBSET (1 .. e.n)
        BY <3>2 DEF TypeInv
      <4> QED
        BY <3>1, <3>2, <4>2, <4>3, AddedLedger
    <3>4. mem.keys \subseteq r.mem.keys /\ disk.crypted \subseteq r.disk.crypted
      <4>1. e.disk.crypted = disk.crypted
        BY <3>2, WithoutIs DEF TypeInv
      <4> QED
        BY <3>1, <3>2, <4>1 DEF Added
    <3>5. ASSUME ~cut PROVE Ledger(r.disk, mem, reserved, U)
      BY <2>0, <3>3, <3>4, <3>5 DEF Ledger
    <3> QED
      BY <2>2, <3>4, <3>5, LedgerStop DEF r
  <2>3. \A count \in 0 .. Target - 1 : count \in Nat
    BY WalletAssumption
  <2> QED
    BY <1>17, <2>1, <2>2, <2>3 DEF CrashInNewKeyPool
<1>18. CASE Start
  <2>1. /\ mem'.keys = KeysIn(disk) /\ mem'.pool = DOMAIN disk.pool
        /\ UNCHANGED <<disk, copy, reserved, kept, used, enc, cut>>
        /\ \A c \in Callers : reserved[c] = None
        /\ enc = "no"
    BY <1>18 DEF Start, LoadWallet, TypeInv
  <2>2. ASSUME ~cut PROVE Sound(disk)'
    <3>1. Ledger(disk, mem, reserved, U)
      BY <2>1, <2>2 DEF LedgerInv, Sound
    <3> QED
      BY <2>1, <3>1 DEF Sound, Ledger, Shared, None, NoKey
  <2> QED
    BY <2>1, <2>2 DEF LedgerInv, CopyClean
<1>19. CASE UNCHANGED vars
  <2>1. (Sound(disk) => Sound(disk)') /\ (Sound(copy) => Sound(copy)') /\ (CopyClean => CopyClean')
    BY <1>19 DEF vars, Sound, CopyClean
  <2> QED
    BY <1>19, <2>1 DEF vars, LedgerInv
<1> QED
  BY <1>1, <1>2, <1>3, <1>4, <1>5, <1>6, <1>7, <1>8, <1>9, <1>10, <1>11, <1>12, <1>13, <1>14,
     <1>15, <1>16, <1>17, <1>18, <1>19 DEF Next

(***************************************************************************)
(* The theorems                                                            *)
(***************************************************************************)

\* The invariant holds in every reachable state of the wallet.
THEOREM WalletInvariant == Spec => []WalletInv
<1>1. Init => WalletInv
  BY TypeInit, CryptInit, LedgerInit DEF WalletInv
<1>2. WalletInv /\ [Next]_vars => WalletInv'
  BY TypeStep, CryptStep, LedgerStep DEF WalletInv
<1> QED
  BY <1>1, <1>2, PTL DEF Spec

\* Whenever the process is killed (in the middle of TopUpKeyPool, NewKeyPool,
\* EncryptWallet or Rewrite), every key that is known outside, that memory
\* has or that the pool will hand out is in wallet.dat or in the copy that
\* takes its place, unless an earlier crash left the file without its name.
THEOREM KeysAreNotLost == Spec => []KeysNotLost
<1>1. WalletInv => KeysNotLost
  <2> SUFFICES ASSUME WalletInv, ~cut
               PROVE  used \cup kept \cup mem.keys \cup Range(disk.pool)
                        \subseteq KeysIn(IF enc = "removed" THEN copy ELSE disk)
    BY DEF KeysNotLost
  <2>1. CASE enc = "removed"
    BY <2>1 DEF WalletInv, CryptInv, LedgerInv, Sound, Ledger, Range
  <2>2. CASE enc # "removed"
    BY <2>2 DEF WalletInv, LedgerInv, Sound, Ledger, Range
  <2> QED
    BY <2>1, <2>2
<1> QED
  BY <1>1, WalletInvariant, PTL

\* wallet.dat always loads: EncryptWallet changes the records of all keys at
\* once, and keys generated before, after and during it are of the same kind.
THEOREM WalletLoads == Spec => []OnePlainOrCrypted
<1>1. WalletInv => OnePlainOrCrypted
  BY DEF WalletInv, CryptInv, OnePlainOrCrypted
<1> QED
  BY <1>1, WalletInvariant, PTL

\* GetReservedKey, KeepKey, ReturnKey and GetKeyFromPool, whoever calls them
\* and wherever a crash falls, hand out every key once and can read it.
THEOREM PoolIsSound == Spec => []KeyPoolSound
<1>1. WalletInv => TypeOK
  <2> SUFFICES ASSUME WalletInv PROVE TypeOK
    OBVIOUS
  <2>1. nKeys \in Nat /\ 1 .. nKeys \subseteq Keys
    BY WalletAssumption DEF WalletInv, TypeInv, Keys
  <2>2. \A f \in {disk, copy} :
          /\ KeysIn(f) \subseteq Keys /\ f.mkey \in BOOLEAN
          /\ DOMAIN f.pool \subseteq Keys /\ Range(f.pool) \subseteq Keys
    BY <2>1 DEF WalletInv, TypeInv, IsFile, KeysIn, Range
  <2>3. mem.keys \subseteq Keys /\ mem.pool \subseteq Keys /\ (mem.locked => mem.crypto)
    BY <2>1 DEF WalletInv, TypeInv, IsMem
  <2>4. ASSUME NEW c \in Callers
        PROVE  reserved[c] \in [index : Keys \cup {-1}, key : Keys \cup {NoKey}]
    <3>1. reserved[c] \in [index : Int, key : Int]
      BY DEF WalletInv, TypeInv, AreReserved
    <3>2. reserved[c].index \in Keys \cup {-1} /\ reserved[c].key \in Keys \cup {NoKey}
      BY <2>1 DEF WalletInv, TypeInv, AreReserved, None, NoKey
    <3> QED
      BY <3>1, <3>2
  <2>5. /\ kept \subseteq Keys /\ used \subseteq Keys /\ enc \in Phases
        /\ {up, collided, cut} \subseteq BOOLEAN
    BY <2>1 DEF WalletInv, TypeInv
  <2> QED
    BY <2>2, <2>3, <2>4, <2>5 DEF TypeOK, Phases
<1>2. WalletInv => HandedOutOnce /\ PoolReadable
  <2> SUFFICES ASSUME WalletInv, ~collided, ~cut PROVE HandedOutOnce /\ PoolReadable
    BY DEF HandedOutOnce, PoolReadable
  <2>1. PICK f \in {disk, copy} :
          /\ Sound(f) /\ (DOMAIN disk.pool = {} \/ f = disk)
          /\ Ledger(f, mem, reserved, used \cup kept) /\ Shared(f, mem, reserved)
          /\ enc # "removed" => f = disk
    BY DEF WalletInv, LedgerInv, CryptInv, Sound
  <2>2. ASSUME NEW c \in Callers, NEW d \in Callers, c # d, reserved[c].key # NoKey
        PROVE  reserved[c].key # reserved[d].key
    <3>1. reserved[c] # None
      BY <2>2 DEF None
    <3>2. CASE reserved[d] # None
      BY <2>1, <2>2, <3>1, <3>2 DEF Shared, Ledger
    <3>3. CASE reserved[d] = None
      BY <2>2, <3>3 DEF None
    <3> QED
      BY <3>2, <3>3
  <2>3. \A c \in Callers : reserved[c].key \notin used \cup kept
    <3> SUFFICES ASSUME NEW c \in Callers PROVE reserved[c].key \notin used \cup kept
      OBVIOUS
    <3>1. CASE reserved[c] # None
      BY <2>1, <3>1 DEF Shared, Ledger
    <3>2. CASE reserved[c] = None
      BY <3>2 DEF None, NoKey, WalletInv, TypeInv
    <3> QED
      BY <3>1, <3>2
  <2>4. (used \cup kept) \cap Range(disk.pool) = {}
    BY <2>1 DEF Ledger, Range
  <2>5. ReservedIndexes \cap mem.pool = {}
    BY <2>1 DEF ReservedIndexes, Shared
  <2>6. PoolReadable
    BY <2>1 DEF PoolReadable, Shared
  <2> QED
    BY <2>2, <2>3, <2>4, <2>5, <2>6 DEF HandedOutOnce
<1> QED
  BY <1>1, <1>2, WalletInvariant, PTL DEF KeyPoolSound

=============================================================================
