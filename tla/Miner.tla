-------------------------------- MODULE Miner --------------------------------
(***************************************************************************)
(* CreateNewBlock (main.cpp): the transactions of the pool a new block is  *)
(* filled with.  It runs under cs_main and the lock of the pool and leaves *)
(* both as they are, so it is an operator on the states of MemPool: the    *)
(* set of all the blocks it can build in a state.                          *)
(*                                                                         *)
(* Priorities and fees order the heap, sizes and signature operations keep *)
(* a transaction out: here any transaction of the heap may be the next,    *)
(* and any may be skipped.                                                 *)
(***************************************************************************)
EXTENDS MemPool

\* Amounts are numbers, the subsidy of the block that is mined included.
ASSUME MoneyAssumption ==
    /\ MAX_MONEY \in Nat /\ COINBASE_MATURITY \in Nat
    /\ \A b \in Block : Subsidy[Height[b] + 1] \in Nat

\* indexDummy.nHeight
NewHeight == Height[pindexBest] + 1

\* An input's transaction has no coins in the chain, or is nowhere at all.
InPool(o)  == ~TipHaveCoins(o.hash)
Nowhere(o) == InPool(o) /\ o.hash \notin mapTx

\* Fault: setDependsOn is assigned, not added to.
DependsOnLast(t) == LET ins == SelectSeq(Tx[t].vin, InPool)
                    IN  IF ins = <<>> THEN {} ELSE {Last(ins).hash}

\* COrphan::setDependsOn
DependsOn(t) == {o.hash : o \in {i \in Inputs(t) : InPool(i)}}

fMissingInputs(t) == \E o \in Inputs(t) : Nowhere(o)

\* Transactions that mapDependers points to and vOrphan no longer holds: their
\* COrphan was dropped when a later input turned out to be missing.
Dangling ==
    {t \in mapTx : \E i, j \in DOMAIN Tx[t].vin :
        /\ i < j /\ InPool(Tx[t].vin[i]) /\ Nowhere(Tx[t].vin[j])
        /\ \A k \in 1 .. i : ~Nowhere(Tx[t].vin[k])}

\* Before the loop: what waits for nothing is in vecPriority.
Collected ==
    LET dependsOn == [t \in {t \in mapTx : ~fMissingInputs(t)} |-> DependsOn(t)]
    IN  [vecPriority |-> {t \in DOMAIN dependsOn : dependsOn[t] = {}},
         setDependsOn |-> dependsOn, view |-> UnspentIn[pindexBest],
         vtx |-> <<>>, nFees |-> 0]

\* A transaction that does not fit, or whose inputs fail, is dropped.
Skip(s, t) == [s EXCEPT !.vecPriority = @ \ {t}]

\* Fault: the coins it spends stay in the view.
AddSpendsNothing(s, t) ==
    [s EXCEPT !.vecPriority = @ \ {t}, !.vtx = Append(@, t),
              !.nFees = @ + GetValueIn(s.view, Tx[t]) - GetValueOut(Tx[t])]

\* A transaction is added; what waited for it alone goes into vecPriority.
Add(s, t) ==
    LET dependsOn == [d \in DOMAIN s.setDependsOn |-> s.setDependsOn[d] \ {t}]
        ready == {d \in DOMAIN dependsOn : t \in s.setDependsOn[d] /\ dependsOn[d] = {}}
    IN  [vecPriority |-> (s.vecPriority \ {t}) \cup ready,
         setDependsOn |-> dependsOn,
         view |-> UpdateCoins(s.view, Tx[t], NewHeight).coins,
         vtx |-> Append(s.vtx, t),
         nFees |-> s.nFees + GetValueIn(s.view, Tx[t]) - GetValueOut(Tx[t])]

\* One turn of the loop; full: a transaction may not fit.
Turn(s, full) ==
    IF s.vecPriority = {} THEN {s}
    ELSE LET good == {t \in s.vecPriority : CheckInputs(s.view, Tx[t], NewHeight)}
         IN  {Add(s, t) : t \in good}
             \cup {Skip(s, t) : t \in IF full THEN s.vecPriority ELSE s.vecPriority \ good}

\* Every transaction comes into vecPriority once at most, so the loop has ended
\* after as many turns as there are transactions.
Filling(full) ==
    LET S[n \in 0 .. Cardinality(mapTx)] ==
          IF n = 0 THEN {Collected} ELSE UNION {Turn(s, full) : s \in S[n - 1]}
    IN  S
CreateNewBlock(full) == Filling(full)[Cardinality(mapTx)]

\* The ConnectBlock of CreateNewBlock, on the block and a fresh view: no
\* transaction of the block has coins left, all connect, and the coinbase
\* claims no more than it may.
ConnectBlock(vtx, nFees) ==
    LET C == UnspentIn[pindexBest]
        s == Connecting(C, [i \in 1 .. Len(vtx) |-> Tx[vtx[i]]], NewHeight)[Len(vtx)]
    IN  /\ \A t \in Range(vtx) : IsPruned(C[t])
        /\ s.ok
        /\ GetBlockValue(NewHeight, nFees) <= GetBlockValue(NewHeight, s.nFees)

-----------------------------------------------------------------------------

\* Every block CreateNewBlock can build passes ConnectBlock, or it would throw
\* "ConnectBlock failed": also from a pool with conflicts, with transactions a
\* reorganisation has stranded or with ones that were never checked, as long as
\* no pointer dangles.
BlockConnects ==
    pc = "idle" /\ Dangling = {} =>
        \A s \in CreateNewBlock(TRUE) : ConnectBlock(s.vtx, s.nFees)

\* With nothing disturbed and nothing disconnected, no pointer dangles, and
\* what fits is added: the order of the heap never makes a transaction come
\* before what it depends on, to be dropped.
NothingHeldBack ==
    Undisturbed /\ pc = "idle" /\ disconnected = {} =>
        /\ Dangling = {}
        /\ \A s \in CreateNewBlock(FALSE) : Range(s.vtx) = mapTx

=============================================================================
