-------------------------------- MODULE Wallet --------------------------------
(***************************************************************************)
(* The keys of the wallet (wallet, walletdb, keystore, db, each .cpp):     *)
(* the key pool, the threads that reserve keys from it, encryption, and    *)
(* what a crash leaves of all that in wallet.dat.                          *)
(*                                                                         *)
(* What holds cs_wallet is one action, except EncryptWallet, which a crash *)
(* may cut anywhere and beside which KeepKey, that takes no lock, may run. *)
(* A write outside a transaction is durable when it returns.  Keys are     *)
(* numbers in the order they are generated.                                *)
(***************************************************************************)
EXTENDS Integers, FiniteSets, FiniteSetsExt, Functions

CONSTANTS
  Callers,   \* CReserveKey objects: a miner's, the one of a send
  Target,    \* -keypool
  MaxKeys    \* bound: keys generated

ASSUME WalletAssumption == Target \in Nat \ {0} /\ MaxKeys \in Nat

Keys  == 1 .. MaxKeys
NoKey == 0
None  == [index |-> -1, key |-> NoKey]

VARIABLES
  disk,      \* wallet.dat: keys as plain and encrypted records, master key, pool records
  copy,      \* wallet.dat.rewrite
  mem,       \* CWallet: fUseCrypto, whether it is locked, its keys, setKeyPool
  nKeys,     \* keys generated so far
  reserved,  \* nIndex and vchPubKey of each CReserveKey
  kept,      \* keys taken out of the pool and about to be used
  used,      \* keys in a transaction, a block or an address given out
  enc,       \* how far EncryptWallet is
  up,
  collided,  \* a pool record was written over that of a reserved key
  cut        \* a crash left no wallet.dat

vars == <<disk, copy, mem, nKeys, reserved, kept, used, enc, up, collided, cut>>

NoFile    == [plain |-> {}, crypted |-> {}, mkey |-> FALSE, pool |-> <<>>]
KeysIn(f) == f.plain \cup f.crypted

\* The pool records of old, with those of new written over them.
Over(new, old) ==
  [i \in DOMAIN new \cup DOMAIN old |-> IF i \in DOMAIN new THEN new[i] ELSE old[i]]

LoadWallet(f) ==
  [crypto |-> f.crypted # {}, locked |-> f.crypted # {},
   keys |-> KeysIn(f), pool |-> DOMAIN f.pool]

Init ==
  /\ disk = NoFile /\ copy = NoFile /\ mem = LoadWallet(NoFile) /\ nKeys = 0
  /\ reserved = [c \in Callers |-> None] /\ kept = {} /\ used = {}
  /\ enc = "no" /\ up = TRUE /\ collided = FALSE /\ cut = FALSE

-----------------------------------------------------------------------------
(* GenerateNewKey and the key pool, on a record s of disk, mem and nKeys.  *)

Now == [disk |-> disk, mem |-> mem, n |-> nKeys]

\* Fault: the private key is only in memory.
GenerateInMemory(s, first, count) ==
  LET new == s.n + 1 .. s.n + count
  IN [disk |-> [s.disk EXCEPT !.pool = Over([i \in first .. first + count - 1 |-> s.n + 1 + i - first], @)],
      mem  |-> [s.mem EXCEPT !.keys = @ \cup new, !.pool = @ \cup (first .. first + count - 1)],
      n    |-> s.n + count]

\* count new keys, each written as a key and then under the next index.
Generate(s, first, count) ==
  LET new == s.n + 1 .. s.n + count
      crypted == IF s.mem.crypto THEN new ELSE {}
  IN [disk |-> [s.disk EXCEPT
                  !.plain = @ \cup (new \ crypted), !.crypted = @ \cup crypted,
                  !.pool = Over([i \in first .. first + count - 1 |-> s.n + 1 + i - first], @)],
      mem  |-> [s.mem EXCEPT !.keys = @ \cup new, !.pool = @ \cup (first .. first + count - 1)],
      n    |-> s.n + count]

FirstFree(s) == IF s.mem.pool = {} THEN 1 ELSE Max(s.mem.pool) + 1
Lacking(s)   == IF s.mem.locked \/ Cardinality(s.mem.pool) > Target THEN 0
                ELSE Target + 1 - Cardinality(s.mem.pool)

TopUp(s) == Generate(s, FirstFree(s), Lacking(s))

\* The keys of setKeyPool go, and new ones start again at index 1.
NewPool(s, count) ==
  Generate([disk |-> [s.disk EXCEPT !.pool = Restrict(@, DOMAIN @ \ s.mem.pool)],
            mem  |-> [s.mem EXCEPT !.pool = {}], n |-> s.n], 1, count)

ReservedIndexes == {reserved[c].index : c \in {d \in Callers : reserved[d] # None}}

Overwrites(first, count) == ReservedIndexes \cap (first .. first + count - 1) # {}

Goes(s) == disk' = s.disk /\ mem' = s.mem /\ nKeys' = s.n

\* cs_wallet can be taken.
Free == up /\ enc = "no"

-----------------------------------------------------------------------------
(* The key pool                                                            *)

\* TopUpKeyPool
TopUpKeyPool ==
  /\ Free /\ Lacking(Now) > 0
  /\ nKeys + Lacking(Now) <= MaxKeys
  /\ Goes(TopUp(Now))
  /\ collided' = (collided \/ Overwrites(FirstFree(Now), Lacking(Now)))
  /\ UNCHANGED <<copy, reserved, kept, used, enc, up, cut>>

\* ReserveKeyFromKeyPool takes the oldest key out of setKeyPool; s is the
\* wallet after its TopUpKeyPool.
Taken(s) == [s EXCEPT !.mem.pool = @ \ {Min(@)}]

\* GetReservedKey: a CReserveKey reserves a key.
GetReservedKey(c) ==
  LET s == TopUp(Now) i == Min(s.mem.pool) IN
  /\ Free /\ reserved[c] = None
  /\ nKeys + Lacking(Now) <= MaxKeys
  /\ s.mem.pool # {} /\ i \in DOMAIN s.disk.pool /\ s.disk.pool[i] \in s.mem.keys
  /\ Goes(Taken(s))
  /\ collided' = (collided \/ Overwrites(FirstFree(Now), Lacking(Now)))
  /\ reserved' = [reserved EXCEPT ![c] = [index |-> i, key |-> s.disk.pool[i]]]
  /\ UNCHANGED <<copy, kept, used, enc, up, cut>>

\* The same throws "read failed" or "unknown key in key pool": the index is
\* out of setKeyPool and in the CReserveKey, which returns it when it goes.
GetReservedKeyFails(c) ==
  LET s == TopUp(Now) i == Min(s.mem.pool) IN
  /\ Free /\ reserved[c] = None
  /\ nKeys + Lacking(Now) <= MaxKeys
  /\ s.mem.pool # {} /\ ~(i \in DOMAIN s.disk.pool /\ s.disk.pool[i] \in s.mem.keys)
  /\ Goes(Taken(s))
  /\ collided' = (collided \/ Overwrites(FirstFree(Now), Lacking(Now)))
  /\ reserved' = [reserved EXCEPT ![c] = [index |-> i, key |-> NoKey]]
  /\ UNCHANGED <<copy, kept, used, enc, up, cut>>

\* Fault: the key is used first.
KeepKeyLate(c) ==
  /\ up /\ reserved[c].key # NoKey
  /\ used' = used \cup {reserved[c].key}
  /\ UNCHANGED <<disk, copy, mem, nKeys, reserved, kept, enc, up, collided, cut>>

\* KeepKey, in CommitTransaction and CheckWork before the key is used; it opens
\* the database, and so waits for cs_db while Rewrite holds it.
KeepKey(c) ==
  /\ up /\ enc \notin {"copied", "removed"} /\ reserved[c].key # NoKey
  /\ disk' = [disk EXCEPT !.pool = Restrict(@, DOMAIN @ \ {reserved[c].index})]
  /\ kept' = kept \cup {reserved[c].key}
  /\ reserved' = [reserved EXCEPT ![c] = None]
  /\ UNCHANGED <<copy, mem, nKeys, used, enc, up, collided, cut>>

\* The transaction is broadcast, the block is processed.
Use(k) ==
  /\ up /\ k \in kept
  /\ kept' = kept \ {k} /\ used' = used \cup {k}
  /\ UNCHANGED <<disk, copy, mem, nKeys, reserved, enc, up, collided, cut>>

\* ReturnKey
ReturnKey(c) ==
  /\ Free /\ reserved[c] # None
  /\ mem' = [mem EXCEPT !.pool = @ \cup {reserved[c].index}]
  /\ reserved' = [reserved EXCEPT ![c] = None]
  /\ UNCHANGED <<disk, copy, nKeys, kept, used, enc, up, collided, cut>>

\* GetKeyFromPool: reserve and keep under one lock, for a new address.
GetKeyFromPool ==
  LET s == TopUp(Now) i == Min(s.mem.pool) IN
  /\ Free
  /\ nKeys + Lacking(Now) <= MaxKeys
  /\ s.mem.pool # {} /\ i \in DOMAIN s.disk.pool /\ s.disk.pool[i] \in s.mem.keys
  /\ Goes([Taken(s) EXCEPT !.disk.pool = Restrict(@, DOMAIN @ \ {i})])
  /\ collided' = (collided \/ Overwrites(FirstFree(Now), Lacking(Now)))
  /\ used' = used \cup {s.disk.pool[i]}
  /\ UNCHANGED <<copy, reserved, kept, enc, up, cut>>

\* Lock and Unlock of an encrypted wallet.
SetLocked ==
  /\ Free /\ mem.crypto
  /\ mem' = [mem EXCEPT !.locked = ~@]
  /\ UNCHANGED <<disk, copy, nKeys, reserved, kept, used, enc, up, collided, cut>>

-----------------------------------------------------------------------------
(* EncryptWallet.  An error in the transaction ends the process.           *)

\* Fault: the keys are written one by one and not in a transaction.
EncryptUnderway ==
  /\ Free /\ ~mem.crypto
  /\ mem' = [mem EXCEPT !.crypto = TRUE]
  /\ enc' = "keys"
  /\ \E K \in SUBSET disk.plain :
       disk' = [disk EXCEPT !.plain = @ \ K, !.crypted = K, !.mkey = TRUE]
  /\ UNCHANGED <<copy, nKeys, reserved, kept, used, up, collided, cut>>

\* TxnBegin, WriteMasterKey and EncryptKeys: so far in memory only.
EncryptKeys ==
  /\ Free /\ ~mem.crypto
  /\ mem' = [mem EXCEPT !.crypto = TRUE]
  /\ enc' = "keys"
  /\ UNCHANGED <<disk, copy, nKeys, reserved, kept, used, up, collided, cut>>

\* TxnCommit: the master key and all keys at once; then Lock and Unlock.
CommitKeys ==
  /\ up /\ enc = "keys"
  /\ disk' = [disk EXCEPT !.plain = {}, !.crypted = @ \cup disk.plain, !.mkey = TRUE]
  /\ enc' = "committed"
  /\ UNCHANGED <<copy, mem, nKeys, reserved, kept, used, up, collided, cut>>

\* NewKeyPool, and Lock.
NewKeyPool ==
  /\ up /\ enc = "committed"
  /\ nKeys + Target <= MaxKeys
  /\ Goes([NewPool(Now, Target) EXCEPT !.mem.locked = TRUE])
  /\ enc' = "pool"
  /\ collided' = (collided \/ Overwrites(1, Target))
  /\ UNCHANGED <<copy, reserved, kept, used, up, cut>>

\* CDB::Rewrite: wallet.dat is copied record by record, into what there is of
\* the copy, and without overwriting.
CopyRecords ==
  /\ up /\ enc = "pool"
  /\ copy' = [plain |-> copy.plain \cup disk.plain, crypted |-> copy.crypted \cup disk.crypted,
              mkey |-> copy.mkey \/ disk.mkey, pool |-> Over(copy.pool, disk.pool)]
  /\ enc' = "copied"
  /\ UNCHANGED <<disk, mem, nKeys, reserved, kept, used, up, collided, cut>>

\* Then wallet.dat is removed, and the copy takes its name.
RemoveFile ==
  /\ up /\ enc = "copied"
  /\ disk' = NoFile /\ enc' = "removed"
  /\ UNCHANGED <<copy, mem, nKeys, reserved, kept, used, up, collided, cut>>

RenameFile ==
  /\ up /\ enc = "removed"
  /\ disk' = copy /\ copy' = NoFile /\ enc' = "no"
  /\ UNCHANGED <<mem, nKeys, reserved, kept, used, up, collided, cut>>

\* Rewrite gives up: wallet.dat stays as it is.  A rename that fails when
\* wallet.dat is gone leaves what a crash at that point leaves.
RewriteFails ==
  /\ up /\ enc \in {"pool", "copied"}
  /\ enc' = "no"
  /\ UNCHANGED <<disk, copy, mem, nKeys, reserved, kept, used, up, collided, cut>>

-----------------------------------------------------------------------------
(* The process ends, by a crash or after Shutdown, and starts again.       *)

Stop(s) ==
  /\ up' = FALSE /\ enc' = "no"
  /\ disk' = s.disk /\ nKeys' = s.n /\ mem' = LoadWallet(NoFile)
  /\ reserved' = [c \in Callers |-> None] /\ kept' = {}
  /\ cut' = (cut \/ enc = "removed")
  /\ UNCHANGED <<copy, used, collided>>

Crash == up /\ Stop(Now)

\* A crash while keys are generated, with some of them written.
CrashInTopUp ==
  \E count \in 1 .. Lacking(Now) - 1 :
    Free /\ nKeys + count <= MaxKeys /\ Stop(Generate(Now, FirstFree(Now), count))

\* A crash in NewKeyPool: some of the old records erased, or some new written.
CrashInNewKeyPool ==
  /\ up /\ enc = "committed"
  /\ \/ \E I \in SUBSET mem.pool :
          Stop([Now EXCEPT !.disk.pool = Restrict(@, DOMAIN @ \ I)])
     \/ \E count \in 0 .. Target - 1 :
          nKeys + count <= MaxKeys /\ Stop(NewPool(Now, count))

Start ==
  /\ ~up
  /\ up' = TRUE /\ mem' = LoadWallet(disk) /\ collided' = FALSE
  /\ UNCHANGED <<disk, copy, nKeys, reserved, kept, used, enc, cut>>

Next ==
  \/ TopUpKeyPool \/ GetKeyFromPool \/ SetLocked
  \/ \E c \in Callers :
       GetReservedKey(c) \/ GetReservedKeyFails(c) \/ KeepKey(c) \/ ReturnKey(c)
  \/ \E k \in Keys : Use(k)
  \/ EncryptKeys \/ CommitKeys \/ NewKeyPool
  \/ CopyRecords \/ RemoveFile \/ RenameFile \/ RewriteFails
  \/ Crash \/ CrashInTopUp \/ CrashInNewKeyPool \/ Start

Spec == Init /\ [][Next]_vars

-----------------------------------------------------------------------------
\* The types; a locked wallet is an encrypted one.
TypeOK ==
  /\ \A f \in {disk, copy} :
       /\ KeysIn(f) \subseteq Keys /\ f.mkey \in BOOLEAN
       /\ DOMAIN f.pool \subseteq Keys /\ Range(f.pool) \subseteq Keys
  /\ mem.keys \subseteq Keys /\ mem.pool \subseteq Keys /\ (mem.locked => mem.crypto)
  /\ \A c \in Callers : reserved[c] \in [index : Keys \cup {-1}, key : Keys \cup {NoKey}]
  /\ kept \subseteq Keys /\ used \subseteq Keys
  /\ enc \in {"no", "keys", "committed", "pool", "copied", "removed"}
  /\ {up, collided, cut} \subseteq BOOLEAN

\* Whatever is in progress when the process is killed, a private key that the
\* world may know the address of, or that the pool will hand out, is in
\* wallet.dat, or in its copy while the one takes the other's place.
KeysNotLost ==
  ~cut => used \cup kept \cup mem.keys \cup Range(disk.pool)
            \subseteq KeysIn(IF enc = "removed" THEN copy ELSE disk)

\* wallet.dat always loads: its private keys are all plain or all encrypted,
\* encrypted ones come with the master key, and after EncryptWallet returned,
\* no plain one is left.
OnePlainOrCrypted ==
  /\ disk.plain = {} \/ disk.crypted = {}
  /\ disk.crypted # {} => disk.mkey
  /\ up /\ mem.crypto /\ enc # "keys" => disk.plain = {}

\* A key is handed out once, and never after it was used, also when a crash
\* gives the reserved ones back, as long as no pool record was written over
\* that of a reserved key and no crash left wallet.dat without its name.
HandedOutOnce ==
  ~collided /\ ~cut =>
    /\ \A c, d \in Callers :
         c # d /\ reserved[c].key # NoKey => reserved[c].key # reserved[d].key
    /\ (used \cup kept) \cap (Range(disk.pool) \cup {reserved[c].key : c \in Callers}) = {}
    /\ ReservedIndexes \cap mem.pool = {}

\* ReserveKeyFromKeyPool finds a record and a private key for what is in
\* setKeyPool, under the same provision: it does not throw.
PoolReadable ==
  ~collided /\ ~cut /\ enc # "removed" =>
    \A i \in mem.pool : i \in DOMAIN disk.pool /\ disk.pool[i] \in mem.keys

\* The key pool is sound: what it hands out is new, and can be read.
KeyPoolSound == TypeOK /\ HandedOutOnce /\ PoolReadable

=============================================================================
