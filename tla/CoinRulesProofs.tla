--------------------------- MODULE CoinRulesProofs ---------------------------
(***************************************************************************)
(* Facts about the rules of CoinRules, for every tree of blocks, every     *)
(* list of transactions and every length of both: what ConnectBlock does   *)
(* to a set of coins, what the coins of a chain are, and that a chain      *)
(* whose blocks were connected spends no output twice.                     *)
(*                                                                         *)
(* The rules are recursive functions over the inputs of a transaction, the *)
(* transactions of a block and the blocks of a chain.  An induction is made*)
(* on the set of places at which a formula holds: that set contains the    *)
(* first place and the successor of each of its members, so it is all of   *)
(* them (Induct, InductTo, TreeInduct, SetInduct).                         *)
(***************************************************************************)
EXTENDS CoinRules, WellFoundedInduction, FiniteSetTheorems, TLAPS

-----------------------------------------------------------------------------
(***************************************************************************)
(* Induction over the naturals, for sets                                   *)
(***************************************************************************)

LessThan == {ss \in Nat \X Nat : ss[1] < ss[2]}

\* A set of naturals has a least element.
LEMMA LeastNat ==
  ASSUME NEW S \in SUBSET Nat, S # {}
  PROVE  \E x \in S : \A y \in S : x <= y
<1>1. IsWellFoundedOn(OpToRel(<, Nat), Nat)
  BY NatLessThanWellFounded
<1>2. OpToRel(<, Nat) = LessThan
  BY Zenon DEF OpToRel, LessThan
<1>3. IsWellFoundedOn(LessThan, Nat)
  BY <1>1, <1>2, Zenon
<1>4. PICK x \in S : \A y \in S : ~ (<<y, x>> \in LessThan)
  BY <1>3, WFMin
<1>5. ASSUME NEW y \in S PROVE x <= y
  <2>1. ~ (<<y, x>> \in LessThan)
    BY <1>4
  <2>2. <<y, x>> \in Nat \X Nat
    OBVIOUS
  <2>3. ~ (y < x)
    BY <2>1, <2>2 DEF LessThan
  <2> QED
    BY <2>3
<1> QED
  BY <1>5

\* A set with 0 and, with each number, the next one, has all.
LEMMA Induct ==
  ASSUME NEW S, 0 \in S, \A n \in Nat : n \in S => n + 1 \in S
  PROVE  \A n \in Nat : n \in S
<1> SUFFICES ASSUME Nat \ S # {} PROVE FALSE
  OBVIOUS
<1>1. PICK x \in Nat \ S : \A y \in Nat \ S : x <= y
  BY LeastNat
<1>2. x # 0 /\ x - 1 \in Nat /\ x - 1 + 1 = x /\ ~(x <= x - 1)
  BY <1>1
<1> QED
  BY <1>1, <1>2

\* The same up to a bound.
LEMMA InductTo ==
  ASSUME NEW m \in Nat, NEW S, 0 \in S,
         \A n \in Nat : n + 1 <= m /\ n \in S => n + 1 \in S
  PROVE  \A n \in 0 .. m : n \in S
<1> DEFINE T == {n \in Nat : n <= m => n \in S}
<1>1. 0 \in T
  OBVIOUS
<1>2. ASSUME NEW n \in Nat, n \in T PROVE n + 1 \in T
  BY <1>2
<1> HIDE DEF T
<1>3. \A n \in Nat : n \in T
  BY <1>1, <1>2, Induct
<1> QED
  BY <1>3 DEF T

\* A set of naturals with a bound has a greatest element.
LEMMA GreatestNat ==
  ASSUME NEW S \in SUBSET Nat, S # {}, NEW m \in Nat, \A x \in S : x <= m
  PROVE  \E x \in S : \A y \in S : x >= y
<1> DEFINE T == {n \in Nat : m - n \in S}
<1>1. PICK x : x \in S
  OBVIOUS
<1>2. m - x \in Nat /\ m - (m - x) = x
  BY <1>1
<1>3. T \subseteq Nat /\ T # {}
  BY <1>1, <1>2
<1>4. PICK n \in T : \A k \in T : n <= k
  BY <1>3, LeastNat
<1>5. ASSUME NEW y \in S PROVE m - n >= y
  <2>1. m - y \in Nat /\ m - (m - y) = y
    OBVIOUS
  <2>2. m - y \in T
    BY <2>1
  <2>3. n <= m - y
    BY <2>2, <1>4
  <2> QED
    BY <2>3, <2>1, <1>4
<1> QED
  BY <1>4, <1>5

\* The greatest element of a bounded set of naturals is its Max.
LEMMA MaxNat ==
  ASSUME NEW S \in SUBSET Nat, S # {}, NEW m \in Nat, \A x \in S : x <= m
  PROVE  Max(S) \in S /\ \A y \in S : Max(S) >= y
<1>1. \E x \in S : \A y \in S : x >= y
  BY GreatestNat
<1> QED
  BY <1>1, Zenon DEF Max

-----------------------------------------------------------------------------
(***************************************************************************)
(* The values of outputs                                                   *)
(***************************************************************************)

Value == Nat \cup {Spent}
Place == Nat \ {0}

\* The value of output n, which is Spent also beyond the end.
Val(v, n) == IF n \in 1 .. Len(v) THEN v[n] ELSE Spent

\* No spent output at the end.
Trim(v) == Len(v) = 0 \/ v[Len(v)] # Spent

\* Cleanup drops the spent outputs at the end and no value.
LEMMA CleanupFacts ==
  ASSUME NEW v \in Seq(Value)
  PROVE  /\ Cleanup(v) \in Seq(Value) /\ Trim(Cleanup(v))
         /\ \A n \in Place : Val(Cleanup(v), n) = Val(v, n)
         /\ Trim(v) <=> v = Cleanup(v)
<1> DEFINE S == {0} \cup {i \in 1 .. Len(v) : v[i] # Spent}
           m == Max(S)
<1>1. S \in SUBSET Nat /\ S # {} /\ Len(v) \in Nat /\ \A x \in S : x <= Len(v)
  OBVIOUS
<1>2. m \in S /\ \A y \in S : m >= y
  BY <1>1, MaxNat
<1>3. Cleanup(v) = SubSeq(v, 1, m)
  BY DEF Cleanup
<1>4. m \in 0 .. Len(v)
  BY <1>2
<1> HIDE DEF m
<1>5. /\ Cleanup(v) \in Seq(Value) /\ Len(Cleanup(v)) = m
      /\ \A i \in 1 .. m : Cleanup(v)[i] = v[i]
  BY <1>3, <1>4
<1>6. ASSUME NEW i \in 1 .. Len(v), i > m PROVE v[i] = Spent
  BY <1>6, <1>2
<1>7. m # 0 => v[m] # Spent
  BY <1>2
<1>8. Trim(Cleanup(v))
  <2>1. CASE m = 0
    BY <2>1, <1>5 DEF Trim
  <2>2. CASE m # 0
    BY <2>2, <1>5, <1>7, <1>4 DEF Trim
  <2> QED
    BY <2>1, <2>2
<1>9. ASSUME NEW n \in Place PROVE Val(Cleanup(v), n) = Val(v, n)
  BY <1>5, <1>6, <1>4 DEF Val, Place
<1>10. ASSUME Trim(v) PROVE v = Cleanup(v)
  <2>1. m = Len(v)
    BY <1>10, <1>4, <1>6 DEF Trim
  <2> QED
    BY <2>1, <1>5
<1> QED
  BY <1>5, <1>8, <1>9, <1>10
\* Two lists of outputs without spent ones at the end are equal if they show
\* the same values.
LEMMA TrimEqual ==
  ASSUME NEW v \in Seq(Value), NEW w \in Seq(Value), Trim(v), Trim(w),
         \A n \in Place : Val(v, n) = Val(w, n)
  PROVE  v = w
<1>1. ASSUME NEW x \in Seq(Value), NEW y \in Seq(Value), Trim(y), Len(x) < Len(y),
             \A n \in Place : Val(x, n) = Val(y, n)
      PROVE  FALSE
  <2>1. Len(y) \in Place /\ Val(x, Len(y)) = Spent
    BY <1>1 DEF Val, Place
  <2>2. Val(y, Len(y)) # Spent
    BY <1>1, <2>1 DEF Val, Trim, Place
  <2> QED
    BY <1>1, <2>1, <2>2
<1>2. Len(v) = Len(w)
  BY <1>1
<1>3. ASSUME NEW n \in 1 .. Len(v) PROVE v[n] = w[n]
  BY <1>2 DEF Val, Place
<1> QED
  BY <1>2, <1>3

-----------------------------------------------------------------------------
(***************************************************************************)
(* Coins of one transaction                                                *)
(***************************************************************************)

\* Well-formed coins.
Coin == {c \in CoinsSet : Trim(c.vout)}

\* The same coins to every user: equal, or both without an unspent output.
Like(c, d) == c = d \/ (c.vout = <<>> /\ d.vout = <<>>)

\* The data of CTxInUndo.
Undo == [txout : Nat, nHeight : Nat, fCoinBase : BOOLEAN]

\* Pruned coins have no outputs at all.
LEMMA PrunedEmpty ==
  ASSUME NEW c \in Coin
  PROVE  /\ IsPruned(c) <=> c.vout = <<>>
         /\ \A n \in Place : IsAvailable(c, n) <=> Val(c.vout, n) # Spent
         /\ (\A n \in Place : Val(c.vout, n) = Spent) <=> c.vout = <<>>
<1>1. c.vout \in Seq(Value) /\ Trim(c.vout)
  BY DEF Coin, CoinsSet, Value
<1>2. ASSUME IsPruned(c) PROVE c.vout = <<>>
  BY <1>1, <1>2 DEF IsPruned, Trim
<1>3. ASSUME c.vout = <<>> PROVE IsPruned(c)
  BY <1>3 DEF IsPruned
<1>4. ASSUME NEW n \in Place PROVE IsAvailable(c, n) <=> Val(c.vout, n) # Spent
  BY <1>1 DEF IsAvailable, Val, Place
<1>5. ASSUME \A n \in Place : Val(c.vout, n) = Spent PROVE c.vout = <<>>
  <2>1. Len(c.vout) # 0 => Val(c.vout, Len(c.vout)) # Spent /\ Len(c.vout) \in Place
    BY <1>1 DEF Trim, Val, Place
  <2> QED
    BY <2>1, <1>5, <1>1
<1>6. ASSUME c.vout = <<>> PROVE \A n \in Place : Val(c.vout, n) = Spent
  BY <1>6 DEF Val
<1> QED
  BY <1>2, <1>3, <1>4, <1>5, <1>6

\* Spending an output, there or not, makes it spent and leaves the rest.
LEMMA SpendFacts ==
  ASSUME NEW c \in Coin, NEW n \in Place
  PROVE  /\ Spend(c, n) \in Coin
         /\ Spend(c, n).nHeight = c.nHeight /\ Spend(c, n).fCoinBase = c.fCoinBase
         /\ \A m \in Place : Val(Spend(c, n).vout, m) = IF m = n THEN Spent ELSE Val(c.vout, m)
<1> DEFINE v == [c.vout EXCEPT ![n] = Spent]
<1>1. c \in CoinsSet /\ c.vout \in Seq(Value)
  BY DEF Coin, CoinsSet, Value
<1>2. v \in Seq(Value) /\ Len(v) = Len(c.vout)
  <2>1. v = [i \in 1 .. Len(c.vout) |-> IF i = n THEN Spent ELSE c.vout[i]] /\ Len(c.vout) \in Nat
    BY <1>1
  <2>2. Spent \in Value /\ \A i \in 1 .. Len(c.vout) : c.vout[i] \in Value
    BY <1>1 DEF Value
  <2>3. \A i \in 1 .. Len(c.vout) : (IF i = n THEN Spent ELSE c.vout[i]) \in Value
    BY <2>2
  <2> HIDE DEF v
  <2> QED
    BY <2>1, <2>3
<1>3. \A m \in Place : Val(v, m) = IF m = n THEN Spent ELSE Val(c.vout, m)
  BY <1>1, <1>2 DEF Val, Place
<1>4. Spend(c, n) = [c EXCEPT !.vout = Cleanup(v)]
  BY DEF Spend
<1> HIDE DEF v
<1>5. Cleanup(v) \in Seq(Value) /\ Trim(Cleanup(v)) /\ \A m \in Place : Val(Cleanup(v), m) = Val(v, m)
  BY <1>2, CleanupFacts
<1>6. /\ Spend(c, n).vout = Cleanup(v) /\ Spend(c, n) \in CoinsSet
      /\ Spend(c, n).nHeight = c.nHeight /\ Spend(c, n).fCoinBase = c.fCoinBase
  BY <1>4, <1>5, <1>1 DEF CoinsSet, Value
<1> QED
  BY <1>3, <1>5, <1>6 DEF Coin

\* The undo data of an available output.
LEMMA SpendUndoFacts ==
  ASSUME NEW c \in Coin, NEW n \in Place, Val(c.vout, n) # Spent
  PROVE  /\ SpendUndo(c, n) \in Undo
         /\ SpendUndo(c, n).txout = Val(c.vout, n)
         /\ IF Spend(c, n).vout = <<>>
            THEN SpendUndo(c, n).nHeight = c.nHeight /\ SpendUndo(c, n).fCoinBase = c.fCoinBase
            ELSE SpendUndo(c, n).nHeight = 0
<1>1. c \in CoinsSet /\ c.vout \in Seq(Value)
  BY DEF Coin, CoinsSet, Value
<1>2. c.vout[n] = Val(c.vout, n) /\ c.vout[n] \in Nat
  BY <1>1 DEF Val, Place, Value
<1> QED
  BY <1>1, <1>2 DEF SpendUndo, Undo, CoinsSet

\* What putting an output back makes of any coins.
LEMMA RestoreFacts ==
  ASSUME NEW c \in Coin, NEW n \in Place, NEW u \in Undo
  PROVE  /\ Restore(c, n, u) \in Coin
         /\ \A m \in Place : Val(Restore(c, n, u).vout, m) =
              IF m = n THEN u.txout ELSE IF u.nHeight = 0 THEN Val(c.vout, m) ELSE Spent
         /\ IF u.nHeight = 0
            THEN Restore(c, n, u).nHeight = c.nHeight /\ Restore(c, n, u).fCoinBase = c.fCoinBase
            ELSE Restore(c, n, u).nHeight = u.nHeight /\ Restore(c, n, u).fCoinBase = u.fCoinBase
<1> DEFINE d == IF u.nHeight = 0 THEN c
                ELSE [fCoinBase |-> u.fCoinBase, nHeight |-> u.nHeight, vout |-> <<>>]
           m0 == Max({n, Len(d.vout)})
           w == [i \in 1 .. m0 |-> IF i = n THEN u.txout
                                   ELSE IF i <= Len(d.vout) THEN d.vout[i] ELSE Spent]
<1>1. d \in CoinsSet /\ d.vout \in Seq(Value) /\ Trim(d.vout) /\ u.txout \in Nat
  BY DEF Coin, CoinsSet, Undo, Value, Trim
<1>2. Restore(c, n, u) = [d EXCEPT !.vout = w]
  BY DEF Restore
<1>3. m0 \in Nat /\ m0 >= n /\ m0 >= Len(d.vout) /\ m0 \in {n, Len(d.vout)}
  <2>1. {n, Len(d.vout)} \in SUBSET Nat /\ {n, Len(d.vout)} # {} /\ n + Len(d.vout) \in Nat
        /\ \A x \in {n, Len(d.vout)} : x <= n + Len(d.vout)
    BY <1>1 DEF Place
  <2> QED
    BY <2>1, MaxNat
<1>d. IF u.nHeight = 0 THEN d = c
      ELSE d.vout = <<>> /\ d.nHeight = u.nHeight /\ d.fCoinBase = u.fCoinBase
  OBVIOUS
<1> HIDE DEF d, m0
<1>4. w \in Seq(Value) /\ Len(w) = m0
  BY <1>1, <1>3 DEF Value
<1>5. Trim(w)
  <2>1. w[m0] # Spent
    <3>1. CASE m0 = n
      BY <3>1, <1>3, <1>1 DEF Place, Spent
    <3>2. CASE m0 # n
      BY <3>2, <1>3, <1>1 DEF Trim, Place
    <3> QED
      BY <3>1, <3>2
  <2> QED
    BY <2>1, <1>4 DEF Trim
<1>6. \A m \in Place : Val(w, m) = IF m = n THEN u.txout ELSE Val(d.vout, m)
  BY <1>3, <1>4, <1>1 DEF Val, Place
<1> HIDE DEF w
<1>7. /\ Restore(c, n, u).vout = w /\ Restore(c, n, u) \in CoinsSet
      /\ Restore(c, n, u).nHeight = d.nHeight /\ Restore(c, n, u).fCoinBase = d.fCoinBase
  BY <1>1, <1>2, <1>4 DEF CoinsSet, Value
<1>8. \A m \in Place : Val(d.vout, m) = IF u.nHeight = 0 THEN Val(c.vout, m) ELSE Spent
  BY <1>d DEF Val
<1>9. Restore(c, n, u) \in Coin
  BY <1>5, <1>7 DEF Coin
<1> QED
  BY <1>6, <1>7, <1>8, <1>9, <1>d

\* Equal coins, by what they show.
LEMMA CoinEqual ==
  ASSUME NEW c \in Coin, NEW d \in Coin,
         c.nHeight = d.nHeight, c.fCoinBase = d.fCoinBase,
         \A n \in Place : Val(c.vout, n) = Val(d.vout, n)
  PROVE  c = d
<1>1. c.vout = d.vout
  BY TrimEqual DEF Coin, CoinsSet, Value
<1> QED
  BY <1>1 DEF Coin, CoinsSet

\* Putting an output back from its undo data is the inverse of spending it,
\* whatever a pruned entry looks like, and finds nothing to complain of.
LEMMA RestoreUndoesSpend ==
  ASSUME NEW c \in Coin, NEW n \in Place, Val(c.vout, n) # Spent, c.nHeight # 0,
         NEW d \in Coin, Like(d, Spend(c, n))
  PROVE  /\ Restore(d, n, SpendUndo(c, n)) = c
         /\ RestoresCleanly(d, n, SpendUndo(c, n))
<1> DEFINE e == Spend(c, n)
           u == SpendUndo(c, n)
<1>1. /\ e \in Coin /\ e.nHeight = c.nHeight /\ e.fCoinBase = c.fCoinBase
      /\ \A m \in Place : Val(e.vout, m) = IF m = n THEN Spent ELSE Val(c.vout, m)
  BY SpendFacts
<1>2. /\ u \in Undo /\ u.txout = Val(c.vout, n)
      /\ IF e.vout = <<>> THEN u.nHeight = c.nHeight /\ u.fCoinBase = c.fCoinBase
         ELSE u.nHeight = 0
  BY SpendUndoFacts
<1> HIDE DEF e, u
<1>l. d = e \/ (d.vout = <<>> /\ e.vout = <<>>)
  BY DEF Like, e
<1>3. /\ Restore(d, n, u) \in Coin
      /\ \A m \in Place : Val(Restore(d, n, u).vout, m) =
              IF m = n THEN u.txout ELSE IF u.nHeight = 0 THEN Val(d.vout, m) ELSE Spent
      /\ IF u.nHeight = 0
         THEN Restore(d, n, u).nHeight = d.nHeight /\ Restore(d, n, u).fCoinBase = d.fCoinBase
         ELSE Restore(d, n, u).nHeight = u.nHeight /\ Restore(d, n, u).fCoinBase = u.fCoinBase
  BY <1>2, RestoreFacts
<1>4. CASE e.vout = <<>>
  <2>1. u.nHeight # 0 /\ d.vout = <<>>
    BY <1>4, <1>2, <1>l
  <2>2. \A m \in Place : m # n => Val(c.vout, m) = Spent
    <3>1. \A m \in Place : Val(e.vout, m) = Spent
      BY <1>4, <1>1, PrunedEmpty
    <3> QED
      BY <3>1, <1>1
  <2>3. Restore(d, n, u) = c
    <3>1. \A m \in Place : Val(Restore(d, n, u).vout, m) = Val(c.vout, m)
      BY <1>3, <2>1, <2>2, <1>2
    <3>2. Restore(d, n, u).nHeight = c.nHeight /\ Restore(d, n, u).fCoinBase = c.fCoinBase
      BY <1>3, <2>1, <1>2, <1>4
    <3> QED
      BY <3>1, <3>2, <1>3, CoinEqual
  <2>4. RestoresCleanly(d, n, u)
    BY <2>1, PrunedEmpty DEF RestoresCleanly
  <2> QED
    BY <2>3, <2>4 DEF e, u
<1>5. CASE e.vout # <<>>
  <2>1. u.nHeight = 0 /\ d = e
    BY <1>5, <1>2, <1>l
  <2>2. Restore(d, n, u) = c
    <3>1. \A m \in Place : Val(Restore(d, n, u).vout, m) = Val(c.vout, m)
      BY <1>3, <2>1, <1>1, <1>2
    <3>2. Restore(d, n, u).nHeight = c.nHeight /\ Restore(d, n, u).fCoinBase = c.fCoinBase
      BY <1>3, <2>1, <1>1
    <3> QED
      BY <3>1, <3>2, <1>3, CoinEqual
  <2>3. Val(d.vout, n) = Spent
    BY <1>1, <2>1
  <2>4. RestoresCleanly(d, n, u)
    BY <2>1, <2>3, <1>5, PrunedEmpty DEF RestoresCleanly
  <2> QED
    BY <2>2, <2>4 DEF e, u
<1> QED
  BY <1>4, <1>5

-----------------------------------------------------------------------------
(***************************************************************************)
(* The recursive functions are what their definitions say                  *)
(***************************************************************************)

\* Spending is defined for every number of inputs.
LEMMA SpendingDef ==
  ASSUME NEW C, NEW vin, Len(vin) \in Nat
  PROVE  Spending(C, vin) =
           [i \in 0 .. Len(vin) |->
              IF i = 0 THEN [coins |-> C, undo |-> <<>>]
              ELSE SpendInput(Spending(C, vin)[i - 1], vin[i])]
<1> DEFINE Base == [coins |-> C, undo |-> <<>>]
           Step(p, i) == SpendInput(p, vin[i])
           Fits(g, n) == g = [i \in 0 .. n |-> IF i = 0 THEN Base ELSE Step(g[i - 1], i)]
           S == {n \in Nat : \E g : Fits(g, n)}
<1> HIDE DEF Base, Step
<1>1. 0 \in S
  <2>1. Fits([i \in 0 .. 0 |-> Base], 0)
    OBVIOUS
  <2> QED
    BY <2>1
<1>2. ASSUME NEW n \in Nat, n \in S PROVE n + 1 \in S
  <2>1. PICK g : Fits(g, n)
    BY <1>2
  <2> DEFINE ext == [i \in 0 .. n + 1 |-> IF i = n + 1 THEN Step(g[n], n + 1) ELSE g[i]]
  <2>2. \A i \in 0 .. n : ext[i] = g[i]
    OBVIOUS
  <2>3. ASSUME NEW i \in 0 .. n + 1
        PROVE  ext[i] = IF i = 0 THEN Base ELSE Step(ext[i - 1], i)
    <3>1. CASE i = 0
      BY <3>1, <2>1
    <3>2. CASE i # 0 /\ i # n + 1
      <4>1. i \in 0 .. n /\ i - 1 \in 0 .. n
        BY <3>2
      <4>2. ext[i] = Step(g[i - 1], i)
        BY <4>1, <3>2, <2>1, <2>2
      <4> QED
        BY <4>1, <4>2, <3>2, <2>2
    <3>3. CASE i = n + 1
      <4>1. n \in 0 .. n /\ i - 1 = n /\ i # 0
        BY <3>3
      <4>2. ext[i] = Step(g[n], i)
        BY <3>3
      <4> QED
        BY <4>1, <4>2, <2>2
    <3> QED
      BY <3>1, <3>2, <3>3
  <2>a. ext = [i \in 0 .. n + 1 |-> ext[i]]
    OBVIOUS
  <2> HIDE DEF ext
  <2>4. Fits(ext, n + 1)
    BY <2>3, <2>a
  <2> QED
    BY <2>4
<1> HIDE DEF S
<1>3. \A n \in Nat : n \in S
  BY <1>1, <1>2, Induct
<1>4. Len(vin) \in S
  BY <1>3
<1>5. PICK g : Fits(g, Len(vin))
  BY <1>4 DEF S
<1>6. Spending(C, vin) = CHOOSE z : Fits(z, Len(vin))
  BY DEF Spending, Base, Step
<1>7. Fits(Spending(C, vin), Len(vin))
  BY <1>5, <1>6, Zenon
<1> QED
  BY <1>7, Zenon DEF Base, Step

\* So is Connecting.
LEMMA ConnectingDef ==
  ASSUME NEW C, NEW vtx, NEW h, Len(vtx) \in Nat
  PROVE  Connecting(C, vtx, h) =
           [i \in 0 .. Len(vtx) |->
              IF i = 0 THEN [ok |-> TRUE, coins |-> C, undo |-> <<>>, nFees |-> 0]
              ELSE ConnectTx(Connecting(C, vtx, h)[i - 1], vtx[i], h)]
<1> DEFINE Base == [ok |-> TRUE, coins |-> C, undo |-> <<>>, nFees |-> 0]
           Step(p, i) == ConnectTx(p, vtx[i], h)
           Fits(g, n) == g = [i \in 0 .. n |-> IF i = 0 THEN Base ELSE Step(g[i - 1], i)]
           S == {n \in Nat : \E g : Fits(g, n)}
<1> HIDE DEF Base, Step
<1>1. 0 \in S
  <2>1. Fits([i \in 0 .. 0 |-> Base], 0)
    OBVIOUS
  <2> QED
    BY <2>1
<1>2. ASSUME NEW n \in Nat, n \in S PROVE n + 1 \in S
  <2>1. PICK g : Fits(g, n)
    BY <1>2
  <2> DEFINE ext == [i \in 0 .. n + 1 |-> IF i = n + 1 THEN Step(g[n], n + 1) ELSE g[i]]
  <2>2. \A i \in 0 .. n : ext[i] = g[i]
    OBVIOUS
  <2>3. ASSUME NEW i \in 0 .. n + 1
        PROVE  ext[i] = IF i = 0 THEN Base ELSE Step(ext[i - 1], i)
    <3>1. CASE i = 0
      BY <3>1, <2>1
    <3>2. CASE i # 0 /\ i # n + 1
      <4>1. i \in 0 .. n /\ i - 1 \in 0 .. n
        BY <3>2
      <4>2. ext[i] = Step(g[i - 1], i)
        BY <4>1, <3>2, <2>1, <2>2
      <4> QED
        BY <4>1, <4>2, <3>2, <2>2
    <3>3. CASE i = n + 1
      <4>1. n \in 0 .. n /\ i - 1 = n /\ i # 0
        BY <3>3
      <4>2. ext[i] = Step(g[n], i)
        BY <3>3
      <4> QED
        BY <4>1, <4>2, <2>2
    <3> QED
      BY <3>1, <3>2, <3>3
  <2>a. ext = [i \in 0 .. n + 1 |-> ext[i]]
    OBVIOUS
  <2> HIDE DEF ext
  <2>4. Fits(ext, n + 1)
    BY <2>3, <2>a
  <2> QED
    BY <2>4
<1> HIDE DEF S
<1>3. \A n \in Nat : n \in S
  BY <1>1, <1>2, Induct
<1>4. Len(vtx) \in S
  BY <1>3
<1>5. PICK g : Fits(g, Len(vtx))
  BY <1>4 DEF S
<1>6. Connecting(C, vtx, h) = CHOOSE z : Fits(z, Len(vtx))
  BY DEF Connecting, Base, Step
<1>7. Fits(Connecting(C, vtx, h), Len(vtx))
  BY <1>5, <1>6, Zenon
<1> QED
  BY <1>7, Zenon DEF Base, Step

\* So is Restoring.
LEMMA RestoringDef ==
  ASSUME NEW s, NEW vin, NEW u, Len(vin) \in Nat
  PROVE  Restoring(s, vin, u) =
           [i \in 0 .. Len(vin) |->
              IF i = 0 THEN s
              ELSE RestoreInput(Restoring(s, vin, u)[i - 1], vin[Len(vin) + 1 - (i)], u[Len(vin) + 1 - (i)])]
<1> DEFINE Base == s
           Step(p, i) == RestoreInput(p, vin[Len(vin) + 1 - (i)], u[Len(vin) + 1 - (i)])
           Fits(g, n) == g = [i \in 0 .. n |-> IF i = 0 THEN Base ELSE Step(g[i - 1], i)]
           S == {n \in Nat : \E g : Fits(g, n)}
<1> HIDE DEF Base, Step
<1>1. 0 \in S
  <2>1. Fits([i \in 0 .. 0 |-> Base], 0)
    OBVIOUS
  <2> QED
    BY <2>1
<1>2. ASSUME NEW n \in Nat, n \in S PROVE n + 1 \in S
  <2>1. PICK g : Fits(g, n)
    BY <1>2
  <2> DEFINE ext == [i \in 0 .. n + 1 |-> IF i = n + 1 THEN Step(g[n], n + 1) ELSE g[i]]
  <2>2. \A i \in 0 .. n : ext[i] = g[i]
    OBVIOUS
  <2>3. ASSUME NEW i \in 0 .. n + 1
        PROVE  ext[i] = IF i = 0 THEN Base ELSE Step(ext[i - 1], i)
    <3>1. CASE i = 0
      BY <3>1, <2>1
    <3>2. CASE i # 0 /\ i # n + 1
      <4>1. i \in 0 .. n /\ i - 1 \in 0 .. n
        BY <3>2
      <4>2. ext[i] = Step(g[i - 1], i)
        BY <4>1, <3>2, <2>1, <2>2
      <4> QED
        BY <4>1, <4>2, <3>2, <2>2
    <3>3. CASE i = n + 1
      <4>1. n \in 0 .. n /\ i - 1 = n /\ i # 0
        BY <3>3
      <4>2. ext[i] = Step(g[n], i)
        BY <3>3
      <4> QED
        BY <4>1, <4>2, <2>2
    <3> QED
      BY <3>1, <3>2, <3>3
  <2>a. ext = [i \in 0 .. n + 1 |-> ext[i]]
    OBVIOUS
  <2> HIDE DEF ext
  <2>4. Fits(ext, n + 1)
    BY <2>3, <2>a
  <2> QED
    BY <2>4
<1> HIDE DEF S
<1>3. \A n \in Nat : n \in S
  BY <1>1, <1>2, Induct
<1>4. Len(vin) \in S
  BY <1>3
<1>5. PICK g : Fits(g, Len(vin))
  BY <1>4 DEF S
<1>6. Restoring(s, vin, u) = CHOOSE z : Fits(z, Len(vin))
  BY DEF Restoring, Base, Step
<1>7. Fits(Restoring(s, vin, u), Len(vin))
  BY <1>5, <1>6, Zenon
<1> QED
  BY <1>7, Zenon DEF Base, Step

Node == Block \cup {NULL}
Below(n) == {b \in Node : HeightOf(b) < n}

\* Heights grow by one from parent to child.
LEMMA HeightFacts ==
  ASSUME NEW b \in Block
  PROVE  /\ Height[b] \in Nat /\ b # NULL /\ Prev[b] \in Node
         /\ HeightOf(b) = Height[b] /\ HeightOf(Prev[b]) = Height[b] - 1
         /\ Prev[b] = NULL <=> b = Genesis
  BY TreeAssumption DEF HeightOf, Node

\* The chain of a block is the chain of its parent and the block.
LEMMA ChainDef ==
  ChainOf = [b \in Node |-> IF b = NULL THEN <<>> ELSE Append(ChainOf[Prev[b]], b)]
<1> DEFINE Step(p, b) == Append(p, b)
           Fits(g, D) == g = [b \in D |-> IF b = NULL THEN <<>> ELSE Step(g[Prev[b]], b)]
           S == {n \in Nat : \E g : Fits(g, Below(n))}
<1> HIDE DEF Step
<1>0. ASSUME NEW b \in Block, NEW n \in Nat, b \in Below(n)
      PROVE  b # NULL /\ Prev[b] \in Below(n) /\ n # 0 /\ Prev[b] \in Below(n - 1)
  BY <1>0, HeightFacts DEF Below, Node, HeightOf
<1>a. \A n \in Nat : \A b \in Below(n) : b = NULL \/ b \in Block
  BY DEF Below, Node
<1>1. 0 \in S
  <2>1. Below(0) = {NULL}
    BY HeightFacts DEF Below, Node, HeightOf
  <2>2. Fits([b \in {NULL} |-> <<>>], {NULL})
    OBVIOUS
  <2> QED
    BY <2>1, <2>2
<1>2. ASSUME NEW n \in Nat, n \in S PROVE n + 1 \in S
  <2>1. PICK g : Fits(g, Below(n))
    BY <1>2
  <2>2. Below(n) \subseteq Below(n + 1)
    BY HeightFacts DEF Below, Node, HeightOf
  <2> DEFINE h == [b \in Below(n + 1) |-> IF b \in Below(n) THEN g[b] ELSE Step(g[Prev[b]], b)]
  <2>3. \A b \in Below(n) : h[b] = g[b]
    BY <2>2
  <2>4. ASSUME NEW b \in Below(n + 1)
        PROVE  h[b] = IF b = NULL THEN <<>> ELSE Step(h[Prev[b]], b)
    <3>1. CASE b = NULL
      <4>1. b \in Below(n)
        BY <3>1 DEF Below, Node, HeightOf
      <4> QED
        BY <4>1, <3>1, <2>1, <2>3
    <3>2. CASE b # NULL
      <4>1. b \in Block /\ Prev[b] \in Below(n)
        <5>1. n + 1 \in Nat /\ n + 1 - 1 = n /\ b \in Block
          BY <3>2, <1>a
        <5> QED
          BY <5>1, <1>0
      <4>2. h[b] = Step(g[Prev[b]], b)
        BY <2>1, <2>3, <3>2
      <4> QED
        BY <4>1, <4>2, <2>3, <3>2
    <3> QED
      BY <3>1, <3>2
  <2>5. h = [b \in Below(n + 1) |-> h[b]]
    OBVIOUS
  <2> HIDE DEF h
  <2>6. Fits(h, Below(n + 1))
    BY <2>4, <2>5
  <2> QED
    BY <2>6
<1>3. \A n \in Nat : n \in S
  <2> HIDE DEF S
  <2> QED
    BY <1>1, <1>2, Induct
<1>4. ASSUME NEW m \in Nat, NEW g, NEW h, Fits(g, Below(m)), Fits(h, Below(m + 1))
      PROVE  \A b \in Below(m) : g[b] = h[b]
  <2> DEFINE T == {k \in Nat : \A b \in Below(m) \cap Below(k) : g[b] = h[b]}
  <2>0. Below(m) \subseteq Below(m + 1)
    BY HeightFacts DEF Below, Node, HeightOf
  <2>1. 0 \in T
    <3>1. \A b \in Below(0) : b = NULL
      BY HeightFacts DEF Below, Node, HeightOf
    <3> QED
      BY <3>1, <1>4, <2>0
  <2>2. ASSUME NEW k \in Nat, k \in T PROVE k + 1 \in T
    <3>1. ASSUME NEW b \in Below(m) \cap Below(k + 1) PROVE g[b] = h[b]
      <4>1. CASE b = NULL
        BY <4>1, <1>4, <2>0
      <4>2. CASE b # NULL
        <5>1. b \in Block
          BY <4>2, <1>a
        <5>2. Prev[b] \in Below(m)
          BY <5>1, <1>0
        <5>3. Prev[b] \in Below(k)
          <6>1. k + 1 \in Nat /\ k + 1 - 1 = k
            OBVIOUS
          <6> QED
            BY <6>1, <5>1, <1>0
        <5>4. g[Prev[b]] = h[Prev[b]]
          BY <5>2, <5>3, <2>2
        <5>5. g[b] = Step(g[Prev[b]], b) /\ h[b] = Step(h[Prev[b]], b)
          BY <4>2, <1>4, <2>0
        <5> QED
          BY <5>4, <5>5
      <4> QED
        BY <4>1, <4>2
    <3> QED
      BY <3>1
  <2> HIDE DEF T
  <2>3. m \in T
    BY <2>1, <2>2, Induct
  <2> QED
    BY <2>3 DEF T
<1> DEFINE G(n) == CHOOSE g : Fits(g, Below(n))
           F == [b \in Node |-> G(HeightOf(b) + 1)[b]]
<1>5. ASSUME NEW n \in Nat PROVE Fits(G(n), Below(n))
  <2>1. PICK g : Fits(g, Below(n))
    BY <1>3
  <2> QED
    BY <2>1, Zenon
<1> HIDE DEF G, S
<1>6. ASSUME NEW b \in Node
      PROVE  F[b] = IF b = NULL THEN <<>> ELSE Step(F[Prev[b]], b)
  <2>1. F[b] = G(HeightOf(b) + 1)[b]
    OBVIOUS
  <2>2. CASE b = NULL
    <3>1. HeightOf(b) + 1 = 0 /\ b \in Below(0)
      BY <2>2 DEF HeightOf, Below, Node
    <3>2. Fits(G(0), Below(0))
      BY <1>5
    <3>3. G(0)[b] = <<>>
      BY <3>1, <3>2, <2>2
    <3>4. F[b] = G(0)[b]
      BY <2>1, <3>1, Zenon
    <3> QED
      BY <2>2, <3>3, <3>4
  <2>3. CASE b # NULL
    <3>1. b \in Block
      BY <2>3 DEF Node
    <3>2. /\ HeightOf(b) \in Nat /\ b \in Below(HeightOf(b) + 1)
          /\ Prev[b] \in Node /\ HeightOf(Prev[b]) + 1 = HeightOf(b)
      BY <3>1, HeightFacts DEF Below, Node, HeightOf
    <3>3. Prev[b] \in Below(HeightOf(b))
      <4>1. HeightOf(b) + 1 \in Nat /\ HeightOf(b) + 1 - 1 = HeightOf(b)
        BY <3>2
      <4> QED
        BY <4>1, <3>1, <3>2, <1>0
    <3>4. Fits(G(HeightOf(b)), Below(HeightOf(b))) /\ Fits(G(HeightOf(b) + 1), Below(HeightOf(b) + 1))
      BY <3>2, <1>5
    <3>5. G(HeightOf(b))[Prev[b]] = G(HeightOf(b) + 1)[Prev[b]]
      <4> HIDE DEF Fits
      <4> QED
        BY <3>2, <3>3, <3>4, <1>4
    <3>6. F[Prev[b]] = G(HeightOf(b))[Prev[b]]
      BY <3>2
    <3>7. G(HeightOf(b) + 1)[b] = Step(G(HeightOf(b) + 1)[Prev[b]], b)
      BY <3>2, <3>4, <2>3
    <3> QED
      BY <2>1, <2>3, <3>5, <3>6, <3>7
  <2> QED
    BY <2>2, <2>3
<1>7. F = [b \in Node |-> F[b]]
  OBVIOUS
<1> HIDE DEF F
<1>8. Fits(F, Node)
  BY <1>6, <1>7
<1>9. ChainOf = CHOOSE g : Fits(g, Node)
  BY DEF ChainOf, Node, Step
<1>10. Fits(ChainOf, Node)
  BY <1>8, <1>9, Zenon
<1> QED
  BY <1>10, Zenon DEF Step

\* The history of a block is the history of its parent and its transactions.
LEMMA HistoryDef ==
  History = [b \in Node |-> IF b = NULL THEN <<>> ELSE History[Prev[b]] \o Events(b)]
<1> DEFINE Step(p, b) == p \o Events(b)
           Fits(g, D) == g = [b \in D |-> IF b = NULL THEN <<>> ELSE Step(g[Prev[b]], b)]
           S == {n \in Nat : \E g : Fits(g, Below(n))}
<1> HIDE DEF Step
<1>0. ASSUME NEW b \in Block, NEW n \in Nat, b \in Below(n)
      PROVE  b # NULL /\ Prev[b] \in Below(n) /\ n # 0 /\ Prev[b] \in Below(n - 1)
  BY <1>0, HeightFacts DEF Below, Node, HeightOf
<1>a. \A n \in Nat : \A b \in Below(n) : b = NULL \/ b \in Block
  BY DEF Below, Node
<1>1. 0 \in S
  <2>1. Below(0) = {NULL}
    BY HeightFacts DEF Below, Node, HeightOf
  <2>2. Fits([b \in {NULL} |-> <<>>], {NULL})
    OBVIOUS
  <2> QED
    BY <2>1, <2>2
<1>2. ASSUME NEW n \in Nat, n \in S PROVE n + 1 \in S
  <2>1. PICK g : Fits(g, Below(n))
    BY <1>2
  <2>2. Below(n) \subseteq Below(n + 1)
    BY HeightFacts DEF Below, Node, HeightOf
  <2> DEFINE h == [b \in Below(n + 1) |-> IF b \in Below(n) THEN g[b] ELSE Step(g[Prev[b]], b)]
  <2>3. \A b \in Below(n) : h[b] = g[b]
    BY <2>2
  <2>4. ASSUME NEW b \in Below(n + 1)
        PROVE  h[b] = IF b = NULL THEN <<>> ELSE Step(h[Prev[b]], b)
    <3>1. CASE b = NULL
      <4>1. b \in Below(n)
        BY <3>1 DEF Below, Node, HeightOf
      <4> QED
        BY <4>1, <3>1, <2>1, <2>3
    <3>2. CASE b # NULL
      <4>1. b \in Block /\ Prev[b] \in Below(n)
        <5>1. n + 1 \in Nat /\ n + 1 - 1 = n /\ b \in Block
          BY <3>2, <1>a
        <5> QED
          BY <5>1, <1>0
      <4>2. h[b] = Step(g[Prev[b]], b)
        BY <2>1, <2>3, <3>2
      <4> QED
        BY <4>1, <4>2, <2>3, <3>2
    <3> QED
      BY <3>1, <3>2
  <2>5. h = [b \in Below(n + 1) |-> h[b]]
    OBVIOUS
  <2> HIDE DEF h
  <2>6. Fits(h, Below(n + 1))
    BY <2>4, <2>5
  <2> QED
    BY <2>6
<1>3. \A n \in Nat : n \in S
  <2> HIDE DEF S
  <2> QED
    BY <1>1, <1>2, Induct
<1>4. ASSUME NEW m \in Nat, NEW g, NEW h, Fits(g, Below(m)), Fits(h, Below(m + 1))
      PROVE  \A b \in Below(m) : g[b] = h[b]
  <2> DEFINE T == {k \in Nat : \A b \in Below(m) \cap Below(k) : g[b] = h[b]}
  <2>0. Below(m) \subseteq Below(m + 1)
    BY HeightFacts DEF Below, Node, HeightOf
  <2>1. 0 \in T
    <3>1. \A b \in Below(0) : b = NULL
      BY HeightFacts DEF Below, Node, HeightOf
    <3> QED
      BY <3>1, <1>4, <2>0
  <2>2. ASSUME NEW k \in Nat, k \in T PROVE k + 1 \in T
    <3>1. ASSUME NEW b \in Below(m) \cap Below(k + 1) PROVE g[b] = h[b]
      <4>1. CASE b = NULL
        BY <4>1, <1>4, <2>0
      <4>2. CASE b # NULL
        <5>1. b \in Block
          BY <4>2, <1>a
        <5>2. Prev[b] \in Below(m)
          BY <5>1, <1>0
        <5>3. Prev[b] \in Below(k)
          <6>1. k + 1 \in Nat /\ k + 1 - 1 = k
            OBVIOUS
          <6> QED
            BY <6>1, <5>1, <1>0
        <5>4. g[Prev[b]] = h[Prev[b]]
          BY <5>2, <5>3, <2>2
        <5>5. g[b] = Step(g[Prev[b]], b) /\ h[b] = Step(h[Prev[b]], b)
          BY <4>2, <1>4, <2>0
        <5> QED
          BY <5>4, <5>5
      <4> QED
        BY <4>1, <4>2
    <3> QED
      BY <3>1
  <2> HIDE DEF T
  <2>3. m \in T
    BY <2>1, <2>2, Induct
  <2> QED
    BY <2>3 DEF T
<1> DEFINE G(n) == CHOOSE g : Fits(g, Below(n))
           F == [b \in Node |-> G(HeightOf(b) + 1)[b]]
<1>5. ASSUME NEW n \in Nat PROVE Fits(G(n), Below(n))
  <2>1. PICK g : Fits(g, Below(n))
    BY <1>3
  <2> QED
    BY <2>1, Zenon
<1> HIDE DEF G, S
<1>6. ASSUME NEW b \in Node
      PROVE  F[b] = IF b = NULL THEN <<>> ELSE Step(F[Prev[b]], b)
  <2>1. F[b] = G(HeightOf(b) + 1)[b]
    OBVIOUS
  <2>2. CASE b = NULL
    <3>1. HeightOf(b) + 1 = 0 /\ b \in Below(0)
      BY <2>2 DEF HeightOf, Below, Node
    <3>2. Fits(G(0), Below(0))
      BY <1>5
    <3>3. G(0)[b] = <<>>
      BY <3>1, <3>2, <2>2
    <3>4. F[b] = G(0)[b]
      BY <2>1, <3>1, Zenon
    <3> QED
      BY <2>2, <3>3, <3>4
  <2>3. CASE b # NULL
    <3>1. b \in Block
      BY <2>3 DEF Node
    <3>2. /\ HeightOf(b) \in Nat /\ b \in Below(HeightOf(b) + 1)
          /\ Prev[b] \in Node /\ HeightOf(Prev[b]) + 1 = HeightOf(b)
      BY <3>1, HeightFacts DEF Below, Node, HeightOf
    <3>3. Prev[b] \in Below(HeightOf(b))
      <4>1. HeightOf(b) + 1 \in Nat /\ HeightOf(b) + 1 - 1 = HeightOf(b)
        BY <3>2
      <4> QED
        BY <4>1, <3>1, <3>2, <1>0
    <3>4. Fits(G(HeightOf(b)), Below(HeightOf(b))) /\ Fits(G(HeightOf(b) + 1), Below(HeightOf(b) + 1))
      BY <3>2, <1>5
    <3>5. G(HeightOf(b))[Prev[b]] = G(HeightOf(b) + 1)[Prev[b]]
      <4> HIDE DEF Fits
      <4> QED
        BY <3>2, <3>3, <3>4, <1>4
    <3>6. F[Prev[b]] = G(HeightOf(b))[Prev[b]]
      BY <3>2
    <3>7. G(HeightOf(b) + 1)[b] = Step(G(HeightOf(b) + 1)[Prev[b]], b)
      BY <3>2, <3>4, <2>3
    <3> QED
      BY <2>1, <2>3, <3>5, <3>6, <3>7
  <2> QED
    BY <2>2, <2>3
<1>7. F = [b \in Node |-> F[b]]
  OBVIOUS
<1> HIDE DEF F
<1>8. Fits(F, Node)
  BY <1>6, <1>7
<1>9. History = CHOOSE g : Fits(g, Node)
  BY DEF History, Node, Step
<1>10. Fits(History, Node)
  BY <1>8, <1>9, Zenon
<1> QED
  BY <1>10, Zenon DEF Step

\* Induction along the tree of blocks.
LEMMA TreeInduct ==
  ASSUME NEW S, NULL \in S, \A b \in Block : Prev[b] \in S => b \in S
  PROVE  \A b \in Node : b \in S
<1> DEFINE T == {n \in Nat : Below(n) \subseteq S}
<1>1. 0 \in T
  BY HeightFacts DEF Below, Node, HeightOf
<1>2. ASSUME NEW n \in Nat, n \in T PROVE n + 1 \in T
  <2>1. ASSUME NEW b \in Below(n + 1), b # NULL PROVE b \in S
    <3>1. b \in Block /\ Prev[b] \in Below(n)
      BY <2>1, HeightFacts DEF Below, Node, HeightOf
    <3> QED
      BY <3>1, <1>2
  <2> QED
    BY <2>1
<1> HIDE DEF T
<1>3. \A n \in Nat : n \in T
  BY <1>1, <1>2, Induct
<1>4. ASSUME NEW b \in Block PROVE b \in S
  <2>1. Height[b] + 1 \in Nat /\ b \in Below(Height[b] + 1)
    BY HeightFacts DEF Below, Node, HeightOf
  <2> QED
    BY <2>1, <1>3 DEF T
<1> QED
  BY <1>4 DEF Node

\* Chains are sequences of blocks, as long as heights say, and grow by a block.
LEMMA ChainFacts ==
  /\ ChainOf[NULL] = <<>> /\ Chain(NULL) = {}
  /\ \A b \in Block : /\ ChainOf[b] \in Seq(Block) /\ ChainOf[Prev[b]] \in Seq(Block)
                      /\ ChainOf[b] = Append(ChainOf[Prev[b]], b)
                      /\ Len(ChainOf[b]) = Height[b] + 1
                      /\ Chain(b) = Chain(Prev[b]) \cup {b}
<1>1. ChainOf[NULL] = <<>>
  BY ChainDef DEF Node
<1>2. Chain(NULL) = {}
  BY <1>1 DEF Chain, Range
<1>3. ASSUME NEW b \in Block PROVE ChainOf[b] = Append(ChainOf[Prev[b]], b)
  BY ChainDef, HeightFacts DEF Node
<1> DEFINE S == {b \in Node : ChainOf[b] \in Seq(Block) /\ Len(ChainOf[b]) = HeightOf(b) + 1}
<1>4. NULL \in S
  <2>1. NULL \in Node /\ HeightOf(NULL) + 1 = 0
    BY DEF HeightOf, Node
  <2>2. ChainOf[NULL] \in Seq(Block) /\ Len(ChainOf[NULL]) = 0
    BY <1>1
  <2> QED
    BY <2>1, <2>2
<1>5. ASSUME NEW b \in Block, Prev[b] \in S PROVE b \in S
  <2>1. ChainOf[b] = Append(ChainOf[Prev[b]], b)
    BY <1>3
  <2>2. ChainOf[Prev[b]] \in Seq(Block) /\ Len(ChainOf[Prev[b]]) = HeightOf(Prev[b]) + 1
    BY <1>5
  <2>3. HeightOf(b) = HeightOf(Prev[b]) + 1 /\ b \in Node
    BY HeightFacts DEF Node
  <2>4. ChainOf[b] \in Seq(Block) /\ Len(ChainOf[b]) = Len(ChainOf[Prev[b]]) + 1
    BY <2>1, <2>2
  <2> QED
    BY <2>2, <2>3, <2>4
<1> HIDE DEF S
<1>6. \A b \in Node : b \in S
  BY <1>4, <1>5, TreeInduct
<1>7. ASSUME NEW b \in Block
      PROVE  /\ ChainOf[b] \in Seq(Block) /\ ChainOf[Prev[b]] \in Seq(Block)
             /\ Len(ChainOf[b]) = Height[b] + 1
  BY <1>6, HeightFacts DEF S, Node
<1>8. ASSUME NEW b \in Block PROVE Chain(b) = Chain(Prev[b]) \cup {b}
  <2> DEFINE p == ChainOf[Prev[b]]
             q == ChainOf[b]
  <2>1. p \in Seq(Block) /\ q = Append(p, b)
    BY <1>3, <1>7
  <2> HIDE DEF p, q
  <2>2. DOMAIN q = 1 .. Len(p) + 1 /\ DOMAIN p = 1 .. Len(p) /\ Len(p) \in Nat
    BY <2>1
  <2>3. q[Len(p) + 1] = b /\ \A i \in 1 .. Len(p) : q[i] = p[i]
    BY <2>1
  <2>4. {q[i] : i \in DOMAIN q} = {p[i] : i \in DOMAIN p} \cup {b}
    BY <2>2, <2>3
  <2> QED
    BY <2>4 DEF Chain, Range, p, q
<1> QED
  BY <1>1, <1>2, <1>3, <1>7, <1>8

\* Chains are closed under parents, start with the genesis block, and a block
\* is in its own.
LEMMA ChainClosed ==
  ASSUME NEW b \in Block
  PROVE  /\ Chain(b) \subseteq Block /\ b \in Chain(b) /\ Genesis \in Chain(b)
         /\ \A a \in Chain(b) : Chain(a) \subseteq Chain(b) /\ Height[a] <= Height[b]
<1> DEFINE S == {c \in Node : /\ Chain(c) \subseteq Block
                              /\ c # NULL => Genesis \in Chain(c)
                              /\ \A a \in Chain(c) : /\ Chain(a) \subseteq Chain(c)
                                                     /\ Height[a] <= HeightOf(c)}
<1>1. NULL \in S
  BY ChainFacts DEF Node
<1>2. ASSUME NEW c \in Block, Prev[c] \in S PROVE c \in S
  <2>1. Chain(c) = Chain(Prev[c]) \cup {c} /\ c \in Node /\ HeightOf(c) = Height[c]
    BY ChainFacts, HeightFacts DEF Node
  <2>2. Genesis \in Chain(c)
    BY <2>1, <1>2, HeightFacts
  <2>3. ASSUME NEW a \in Chain(c) PROVE Chain(a) \subseteq Chain(c) /\ Height[a] <= Height[c]
    <3>1. CASE a = c
      BY <3>1, HeightFacts
    <3>2. CASE a \in Chain(Prev[c])
      <4>1. Height[a] <= HeightOf(Prev[c]) /\ a \in Block
        BY <3>2, <1>2
      <4>2. Height[a] \in Nat /\ Height[c] \in Nat /\ HeightOf(Prev[c]) = Height[c] - 1
        BY <4>1, HeightFacts
      <4> QED
        BY <3>2, <4>1, <4>2, <2>1, <1>2
    <3> QED
      BY <2>1, <3>1, <3>2
  <2> QED
    BY <2>1, <2>2, <2>3, <1>2
<1> HIDE DEF S
<1>3. b \in S
  BY <1>1, <1>2, TreeInduct DEF Node
<1>4. b \in Chain(b) /\ HeightOf(b) = Height[b] /\ b # NULL
  BY ChainFacts, HeightFacts
<1> QED
  BY <1>3, <1>4 DEF S

-----------------------------------------------------------------------------
(***************************************************************************)
(* The inputs of one transaction                                           *)
(***************************************************************************)

CoinMap == [TxId -> Coin]
OutPoints == [hash : TxId, n : Place]

\* The same coins of every transaction, to every user.
Same(C, D) == \A t \in TxId : Like(C[t], D[t])

\* One of the first i inputs spends output n of t.
Hit(vin, i, t, n) == \E j \in 1 .. i : vin[j] = [hash |-> t, n |-> n]

\* Each of the inputs is there to be spent.
Ready(C, vin) ==
  /\ \A i \in 1 .. Len(vin) : Val(C[vin[i].hash].vout, vin[i].n) # Spent
  /\ \A i, j \in 1 .. Len(vin) : i # j => vin[i] # vin[j]

\* The first state and the next ones.
LEMMA SpendingStep ==
  ASSUME NEW C, NEW vin \in Seq(OutPoints)
  PROVE  /\ Spending(C, vin)[0] = [coins |-> C, undo |-> <<>>]
         /\ \A i \in 1 .. Len(vin) :
              Spending(C, vin)[i] = SpendInput(Spending(C, vin)[i - 1], vin[i])
<1>1. Len(vin) \in Nat
  OBVIOUS
<1> DEFINE f == Spending(C, vin)
<1>2. f = [i \in 0 .. Len(vin) |-> IF i = 0 THEN [coins |-> C, undo |-> <<>>]
                                   ELSE SpendInput(f[i - 1], vin[i])]
  BY <1>1, SpendingDef
<1> HIDE DEF f
<1> QED
  BY <1>1, <1>2 DEF f

\* After i inputs exactly their outputs are spent.
LEMMA SpendingCoins ==
  ASSUME NEW C \in CoinMap, NEW vin \in Seq(OutPoints)
  PROVE  \A i \in 0 .. Len(vin) :
           /\ Spending(C, vin)[i].coins \in CoinMap
           /\ \A t \in TxId :
                LET c == Spending(C, vin)[i].coins[t] IN
                /\ c.nHeight = C[t].nHeight /\ c.fCoinBase = C[t].fCoinBase
                /\ \A n \in Place :
                     Val(c.vout, n) = IF Hit(vin, i, t, n) THEN Spent ELSE Val(C[t].vout, n)
<1> DEFINE f == Spending(C, vin)
           P(i) == /\ f[i].coins \in CoinMap
                   /\ \A t \in TxId :
                        /\ f[i].coins[t].nHeight = C[t].nHeight
                        /\ f[i].coins[t].fCoinBase = C[t].fCoinBase
                        /\ \A n \in Place :
                             Val(f[i].coins[t].vout, n) =
                               IF Hit(vin, i, t, n) THEN Spent ELSE Val(C[t].vout, n)
           S == {i \in 0 .. Len(vin) : P(i)}
<1>1. 0 \in S
  <2>0. f[0] = [coins |-> C, undo |-> <<>>]
    BY SpendingStep, Zenon
  <2>1. f[0].coins = C
    BY <2>0
  <2>2. \A t, n : ~ Hit(vin, 0, t, n)
    BY DEF Hit
  <2> QED
    BY <2>1, <2>2
<1>2. ASSUME NEW i \in Nat, i + 1 <= Len(vin), i \in S PROVE i + 1 \in S
  <2> DEFINE h == vin[i + 1].hash
             n == vin[i + 1].n
  <2>0. i + 1 \in 1 .. Len(vin) /\ i + 1 - 1 = i /\ i + 1 \in 0 .. Len(vin)
    BY <1>2
  <2>1. vin[i + 1] \in OutPoints
    BY <2>0
  <2>1a. h \in TxId /\ n \in Place /\ vin[i + 1] = [hash |-> h, n |-> n]
    BY <2>1 DEF OutPoints
  <2>2. f[i + 1] = SpendInput(f[i], vin[i + 1])
    <3>1. \A j \in 1 .. Len(vin) : f[j] = SpendInput(f[j - 1], vin[j])
      BY SpendingStep, Zenon
    <3> HIDE DEF f
    <3> QED
      BY <3>1, <2>0
  <2>3. f[i + 1].coins = [f[i].coins EXCEPT ![h] = Spend(@, n)]
    BY <2>2 DEF SpendInput
  <2>4. P(i)
    BY <1>2
  <2>h. ASSUME NEW t \in TxId, NEW m \in Place
        PROVE  Hit(vin, i + 1, t, m) <=> Hit(vin, i, t, m) \/ (t = h /\ m = n)
    <3>1. \A j \in 1 .. i + 1 : j \in 1 .. i \/ j = i + 1
      BY <2>0
    <3>2. 1 .. i \subseteq 1 .. i + 1 /\ i + 1 \in 1 .. i + 1
      BY <2>0
    <3> QED
      BY <3>1, <3>2, <2>1a DEF Hit
  <2> HIDE DEF f, h, n
  <2>5. /\ Spend(f[i].coins[h], n) \in Coin
        /\ Spend(f[i].coins[h], n).nHeight = f[i].coins[h].nHeight
        /\ Spend(f[i].coins[h], n).fCoinBase = f[i].coins[h].fCoinBase
        /\ \A m \in Place : Val(Spend(f[i].coins[h], n).vout, m) =
                              IF m = n THEN Spent ELSE Val(f[i].coins[h].vout, m)
    <3>1. f[i].coins[h] \in Coin
      BY <2>4, <2>1a DEF CoinMap
    <3> QED
      BY <3>1, <2>1a, SpendFacts
  <2>6. f[i + 1].coins \in CoinMap
    BY <2>3, <2>4, <2>5, <2>1a DEF CoinMap
  <2>7. ASSUME NEW t \in TxId
        PROVE  /\ f[i + 1].coins[t].nHeight = C[t].nHeight
               /\ f[i + 1].coins[t].fCoinBase = C[t].fCoinBase
               /\ \A m \in Place : Val(f[i + 1].coins[t].vout, m) =
                    IF Hit(vin, i + 1, t, m) THEN Spent ELSE Val(C[t].vout, m)
    <3>1. CASE t = h
      <4>1. f[i + 1].coins[t] = Spend(f[i].coins[h], n)
        BY <3>1, <2>3, <2>4 DEF CoinMap
      <4> QED
        BY <4>1, <3>1, <2>4, <2>5, <2>h
    <3>2. CASE t # h
      <4>1. f[i + 1].coins[t] = f[i].coins[t]
        BY <3>2, <2>3, <2>4 DEF CoinMap
      <4> QED
        BY <4>1, <3>2, <2>4, <2>h
    <3> QED
      BY <3>1, <3>2
  <2> QED
    BY <2>0, <2>6, <2>7
<1> HIDE DEF S
<1>3. \A i \in 0 .. Len(vin) : i \in S
  <2>1. Len(vin) \in Nat
    OBVIOUS
  <2> QED
    BY <2>1, <1>1, <1>2, InductTo
<1> QED
  BY <1>3 DEF S

\* Coins that are alike show the same, and are equal if they show anything.
LEMMA LikeFacts ==
  ASSUME NEW c \in Coin, NEW d \in Coin, Like(c, d)
  PROVE  /\ \A n \in Place : Val(c.vout, n) = Val(d.vout, n)
         /\ \A n \in Place : Val(c.vout, n) # Spent => c = d
<1>1. CASE c = d
  BY <1>1
<1>2. CASE c.vout = <<>> /\ d.vout = <<>>
  BY <1>2 DEF Val
<1> QED
  BY <1>1, <1>2 DEF Like

\* Coins are alike if they show the same and, if anything, with the same
\* height and kind.
LEMMA LikeByVal ==
  ASSUME NEW c \in Coin, NEW d \in Coin,
         \A n \in Place : Val(c.vout, n) = Val(d.vout, n),
         c.vout # <<>> => c.nHeight = d.nHeight /\ c.fCoinBase = d.fCoinBase
  PROVE  Like(c, d)
<1>1. c.vout = d.vout
  BY TrimEqual DEF Coin, CoinsSet, Value
<1>2. CASE c.vout = <<>>
  BY <1>1, <1>2 DEF Like
<1>3. CASE c.vout # <<>>
  BY <1>3, CoinEqual DEF Like
<1> QED
  BY <1>2, <1>3

\* Being the same coins is symmetric and transitive.
LEMMA SameTrans ==
  ASSUME NEW C, NEW D, NEW E, Same(C, D), Same(D, E)
  PROVE  Same(C, E) /\ Same(D, C)
  BY DEF Same, Like

\* The next input is still there when the ones before it are spent.
LEMMA SpendingReady ==
  ASSUME NEW C \in CoinMap, NEW vin \in Seq(OutPoints), Ready(C, vin),
         NEW i \in 1 .. Len(vin)
  PROVE  /\ vin[i].hash \in TxId /\ vin[i].n \in Place
         /\ Spending(C, vin)[i - 1].coins[vin[i].hash] \in Coin
         /\ Val(Spending(C, vin)[i - 1].coins[vin[i].hash].vout, vin[i].n) # Spent
<1>1. vin[i] \in OutPoints /\ i - 1 \in 0 .. Len(vin)
  OBVIOUS
<1>2. vin[i].hash \in TxId /\ vin[i].n \in Place
      /\ vin[i] = [hash |-> vin[i].hash, n |-> vin[i].n]
  BY <1>1 DEF OutPoints
<1>3. ~ Hit(vin, i - 1, vin[i].hash, vin[i].n)
  BY <1>2 DEF Hit, Ready
<1>4. Val(C[vin[i].hash].vout, vin[i].n) # Spent
  BY DEF Ready
<1> DEFINE c == Spending(C, vin)[i - 1].coins
<1>5. /\ c \in CoinMap
      /\ Val(c[vin[i].hash].vout, vin[i].n) =
           IF Hit(vin, i - 1, vin[i].hash, vin[i].n) THEN Spent
           ELSE Val(C[vin[i].hash].vout, vin[i].n)
  BY <1>1, <1>2, SpendingCoins
<1> HIDE DEF c
<1>6. c[vin[i].hash] \in Coin
  BY <1>5, <1>2 DEF CoinMap
<1> QED
  BY <1>2, <1>3, <1>4, <1>5, <1>6 DEF c

\* The undo data of the inputs, in their order.
LEMMA SpendingUndo ==
  ASSUME NEW C \in CoinMap, NEW vin \in Seq(OutPoints), Ready(C, vin)
  PROVE  LET f == Spending(C, vin) IN
         \A i \in 0 .. Len(vin) :
           /\ f[i].undo \in Seq(Undo) /\ Len(f[i].undo) = i
           /\ \A j \in 1 .. i :
                f[i].undo[j] = SpendUndo(f[j - 1].coins[vin[j].hash], vin[j].n)
<1> DEFINE f == Spending(C, vin)
           u(j) == SpendUndo(f[j - 1].coins[vin[j].hash], vin[j].n)
           S == {i \in 0 .. Len(vin) : /\ f[i].undo \in Seq(Undo) /\ Len(f[i].undo) = i
                                       /\ \A j \in 1 .. i : f[i].undo[j] = u(j)}
<1>a. Len(vin) \in Nat
  OBVIOUS
<1>b. \A j \in 1 .. Len(vin) : u(j) \in Undo
  BY SpendingReady, SpendUndoFacts
<1>c. f[0] = [coins |-> C, undo |-> <<>>]
  BY SpendingStep, Zenon
<1>d. \A j \in 1 .. Len(vin) : f[j] = SpendInput(f[j - 1], vin[j])
  BY SpendingStep, Zenon
<1> HIDE DEF f
<1>e. \A j \in 1 .. Len(vin) : f[j].undo = Append(f[j - 1].undo, u(j))
  <2>1. \A s, in : SpendInput(s, in).undo = Append(s.undo, SpendUndo(s.coins[in.hash], in.n))
    BY DEF SpendInput
  <2> QED
    BY <2>1, <1>d
<1> HIDE DEF u
<1>1. 0 \in S
  <2>1. f[0].undo = <<>>
    BY <1>c
  <2>2. f[0].undo \in Seq(Undo) /\ Len(f[0].undo) = 0
    BY <2>1
  <2>3. 0 \in 0 .. Len(vin) /\ \A j \in 1 .. 0 : f[0].undo[j] = u(j)
    BY <1>a
  <2> QED
    BY <2>2, <2>3
<1>2. ASSUME NEW i \in Nat, i + 1 <= Len(vin), i \in S PROVE i + 1 \in S
  <2>0. i + 1 \in 1 .. Len(vin) /\ i + 1 - 1 = i /\ i + 1 \in 0 .. Len(vin)
    BY <1>2
  <2>1. f[i + 1].undo = Append(f[i].undo, u(i + 1)) /\ u(i + 1) \in Undo
    BY <2>0, <1>e, <1>b
  <2>2. f[i].undo \in Seq(Undo) /\ Len(f[i].undo) = i /\ \A j \in 1 .. i : f[i].undo[j] = u(j)
    BY <1>2
  <2>3. f[i + 1].undo \in Seq(Undo) /\ Len(f[i + 1].undo) = i + 1
    BY <2>1, <2>2
  <2>4. ASSUME NEW j \in 1 .. i + 1 PROVE f[i + 1].undo[j] = u(j)
    <3>1. CASE j = i + 1
      BY <3>1, <2>1, <2>2
    <3>2. CASE j \in 1 .. i
      BY <3>2, <2>1, <2>2
    <3> QED
      BY <3>1, <3>2, <2>0
  <2> QED
    BY <2>0, <2>3, <2>4
<1> HIDE DEF S
<1>3. \A i \in 0 .. Len(vin) : i \in S
  BY <1>a, <1>1, <1>2, InductTo
<1> QED
  BY <1>3 DEF S, f, u

\* Spending the same inputs of the same coins gives the same.
LEMMA SpendingSame ==
  ASSUME NEW C \in CoinMap, NEW D \in CoinMap, Same(C, D),
         NEW vin \in Seq(OutPoints), Ready(C, vin)
  PROVE  /\ Ready(D, vin)
         /\ \A i \in 0 .. Len(vin) :
              /\ Same(Spending(C, vin)[i].coins, Spending(D, vin)[i].coins)
              /\ Spending(C, vin)[i].undo = Spending(D, vin)[i].undo
<1> DEFINE f == Spending(C, vin)
           g == Spending(D, vin)
           S == {i \in 0 .. Len(vin) : Same(f[i].coins, g[i].coins) /\ f[i].undo = g[i].undo}
<1>a. Len(vin) \in Nat
  OBVIOUS
<1>r. Ready(D, vin)
  <2>1. ASSUME NEW i \in 1 .. Len(vin) PROVE Val(D[vin[i].hash].vout, vin[i].n) # Spent
    <3>1. vin[i] \in OutPoints
      OBVIOUS
    <3>2. vin[i].hash \in TxId /\ vin[i].n \in Place
      BY <3>1 DEF OutPoints
    <3>3. C[vin[i].hash] \in Coin /\ D[vin[i].hash] \in Coin
      BY <3>2 DEF CoinMap
    <3>4. Like(C[vin[i].hash], D[vin[i].hash])
      BY <3>2 DEF Same
    <3>5. Val(C[vin[i].hash].vout, vin[i].n) # Spent
      BY DEF Ready
    <3> QED
      BY <3>2, <3>3, <3>4, <3>5, LikeFacts
  <2> QED
    BY <2>1 DEF Ready
<1>c. f[0] = [coins |-> C, undo |-> <<>>] /\ g[0] = [coins |-> D, undo |-> <<>>]
  BY SpendingStep, Zenon
<1>d. \A j \in 1 .. Len(vin) : f[j] = SpendInput(f[j - 1], vin[j])
  BY SpendingStep, Zenon
<1>e. \A j \in 1 .. Len(vin) : g[j] = SpendInput(g[j - 1], vin[j])
  BY SpendingStep, Zenon
<1>t. \A j \in 0 .. Len(vin) : f[j].coins \in CoinMap /\ g[j].coins \in CoinMap
  BY SpendingCoins
<1>n. \A i \in 1 .. Len(vin) :
         /\ vin[i].hash \in TxId /\ vin[i].n \in Place
         /\ f[i - 1].coins[vin[i].hash] \in Coin
         /\ Val(f[i - 1].coins[vin[i].hash].vout, vin[i].n) # Spent
  BY SpendingReady
<1> HIDE DEF f, g
<1>1. 0 \in S
  BY <1>c, <1>a
<1>2. ASSUME NEW i \in Nat, i + 1 <= Len(vin), i \in S PROVE i + 1 \in S
  <2> DEFINE h == vin[i + 1].hash
             n == vin[i + 1].n
  <2>0. i + 1 \in 1 .. Len(vin) /\ i + 1 - 1 = i /\ i + 1 \in 0 .. Len(vin) /\ i \in 0 .. Len(vin)
    BY <1>2
  <2>1. /\ h \in TxId /\ n \in Place /\ f[i].coins[h] \in Coin /\ Val(f[i].coins[h].vout, n) # Spent
    BY <2>0, <1>n
  <2>2. f[i + 1] = SpendInput(f[i], vin[i + 1]) /\ g[i + 1] = SpendInput(g[i], vin[i + 1])
    BY <2>0, <1>d, <1>e
  <2>3. f[i].coins \in CoinMap /\ g[i].coins \in CoinMap
    BY <2>0, <1>t
  <2>4. Same(f[i].coins, g[i].coins) /\ f[i].undo = g[i].undo
    BY <1>2
  <2>5. f[i].coins[h] = g[i].coins[h]
    <3>1. g[i].coins[h] \in Coin
      BY <2>1, <2>3 DEF CoinMap
    <3>2. Like(f[i].coins[h], g[i].coins[h])
      BY <2>1, <2>4 DEF Same
    <3> QED
      BY <2>1, <3>1, <3>2, LikeFacts
  <2>6. f[i + 1].undo = g[i + 1].undo
    BY <2>2, <2>4, <2>5 DEF SpendInput
  <2>7. /\ f[i + 1].coins = [f[i].coins EXCEPT ![h] = Spend(f[i].coins[h], n)]
        /\ g[i + 1].coins = [g[i].coins EXCEPT ![h] = Spend(f[i].coins[h], n)]
    BY <2>2, <2>5 DEF SpendInput
  <2> HIDE DEF h, n
  <2>8. Same(f[i + 1].coins, g[i + 1].coins)
    <3>1. ASSUME NEW t \in TxId PROVE Like(f[i + 1].coins[t], g[i + 1].coins[t])
      <4>1. CASE t = h
        BY <4>1, <2>7, <2>3 DEF Like, CoinMap
      <4>2. CASE t # h
        <5>1. f[i + 1].coins[t] = f[i].coins[t] /\ g[i + 1].coins[t] = g[i].coins[t]
          BY <4>2, <2>7, <2>3 DEF CoinMap
        <5> QED
          BY <5>1, <2>4 DEF Same
      <4> QED
        BY <4>1, <4>2
    <3> QED
      BY <3>1 DEF Same
  <2> QED
    BY <2>0, <2>6, <2>8
<1> HIDE DEF S
<1>3. \A i \in 0 .. Len(vin) : i \in S
  BY <1>a, <1>1, <1>2, InductTo
<1> QED
  BY <1>3, <1>r DEF S, f, g

\* The first state of putting inputs back and the next ones.
LEMMA RestoringStep ==
  ASSUME NEW s, NEW vin \in Seq(OutPoints), NEW u
  PROVE  /\ Restoring(s, vin, u)[0] = s
         /\ \A k \in 1 .. Len(vin) :
              Restoring(s, vin, u)[k] =
                RestoreInput(Restoring(s, vin, u)[k - 1], vin[Len(vin) + 1 - k], u[Len(vin) + 1 - k])
<1>1. Len(vin) \in Nat
  OBVIOUS
<1> DEFINE f == Restoring(s, vin, u)
<1>2. f = [i \in 0 .. Len(vin) |->
             IF i = 0 THEN s
             ELSE RestoreInput(f[i - 1], vin[Len(vin) + 1 - i], u[Len(vin) + 1 - i])]
  BY <1>1, RestoringDef
<1> HIDE DEF f
<1> QED
  BY <1>1, <1>2 DEF f

\* The undo data puts value v back as output n of t.
PutBack(vin, u, t, n, v) ==
  \E j \in 1 .. Len(vin) : vin[j] = [hash |-> t, n |-> n] /\ v = u[j].txout

\* Whatever the undo data, inputs put back give well-formed coins, and nothing
\* becomes unspent but the inputs.
LEMMA RestoringCoins ==
  ASSUME NEW s, s.coins \in CoinMap, s.clean \in BOOLEAN, NEW vin \in Seq(OutPoints), NEW u,
         \A j \in 1 .. Len(vin) : u[j] \in Undo
  PROVE  LET r == Restoring(s, vin, u) IN
         \A k \in 0 .. Len(vin) :
           /\ r[k].coins \in CoinMap /\ r[k].clean \in BOOLEAN
           /\ \A t \in TxId, n \in Place :
                LET v == Val(r[k].coins[t].vout, n) IN
                v # Spent => v = Val(s.coins[t].vout, n) \/ PutBack(vin, u, t, n, v)
<1> DEFINE r == Restoring(s, vin, u)
           P(k) == /\ r[k].coins \in CoinMap /\ r[k].clean \in BOOLEAN
                   /\ \A t \in TxId, n \in Place :
                        Val(r[k].coins[t].vout, n) # Spent =>
                          \/ Val(r[k].coins[t].vout, n) = Val(s.coins[t].vout, n)
                          \/ PutBack(vin, u, t, n, Val(r[k].coins[t].vout, n))
           S == {k \in 0 .. Len(vin) : P(k)}
<1>a. Len(vin) \in Nat
  OBVIOUS
<1>b. r[0] = s
  BY RestoringStep, SMTT(60)
<1>c. \A k \in 1 .. Len(vin) :
         r[k] = RestoreInput(r[k - 1], vin[Len(vin) + 1 - k], u[Len(vin) + 1 - k])
  BY RestoringStep, SMTT(60)
<1> HIDE DEF r
<1>1. 0 \in S
  BY <1>a, <1>b
<1>2. ASSUME NEW k \in Nat, k + 1 <= Len(vin), k \in S PROVE k + 1 \in S
  <2> DEFINE j == Len(vin) + 1 - (k + 1)
             h == vin[j].hash
             n == vin[j].n
  <2>0. /\ k + 1 \in 1 .. Len(vin) /\ k + 1 - 1 = k /\ k + 1 \in 0 .. Len(vin)
        /\ j \in 1 .. Len(vin)
    BY <1>2, <1>a
  <2>1. r[k + 1] = RestoreInput(r[k], vin[j], u[j])
    BY <2>0, <1>c
  <2> HIDE DEF j
  <2>2. vin[j] \in OutPoints /\ u[j] \in Undo
    BY <2>0
  <2>3. h \in TxId /\ n \in Place /\ vin[j] = [hash |-> h, n |-> n]
    BY <2>2 DEF OutPoints
  <2>4. P(k)
    BY <1>2
  <2>5. /\ r[k + 1].coins = [r[k].coins EXCEPT ![h] = Restore(r[k].coins[h], n, u[j])]
        /\ r[k + 1].clean = (r[k].clean /\ RestoresCleanly(r[k].coins[h], n, u[j]))
    BY <2>1 DEF RestoreInput
  <2>6. PutBack(vin, u, h, n, u[j].txout)
    BY <2>0, <2>3 DEF PutBack
  <2> HIDE DEF h, n
  <2>7. r[k].coins[h] \in Coin
    BY <2>3, <2>4 DEF CoinMap
  <2> DEFINE d == Restore(r[k].coins[h], n, u[j])
  <2>8. /\ d \in Coin
        /\ \A m \in Place : Val(d.vout, m) =
              IF m = n THEN u[j].txout
              ELSE IF u[j].nHeight = 0 THEN Val(r[k].coins[h].vout, m) ELSE Spent
    BY <2>2, <2>3, <2>7, RestoreFacts
  <2>5a. r[k + 1].coins = [r[k].coins EXCEPT ![h] = d]
    BY <2>5
  <2> HIDE DEF d
  <2>9. r[k + 1].coins \in CoinMap /\ r[k + 1].clean \in BOOLEAN
    BY <2>4, <2>5, <2>5a, <2>8 DEF CoinMap
  <2>10. ASSUME NEW t \in TxId, NEW m \in Place, Val(r[k + 1].coins[t].vout, m) # Spent
         PROVE  \/ Val(r[k + 1].coins[t].vout, m) = Val(s.coins[t].vout, m)
                \/ PutBack(vin, u, t, m, Val(r[k + 1].coins[t].vout, m))
    <3>1. CASE t = h /\ m = n
      <4>1. r[k + 1].coins[t] = d
        BY <3>1, <2>5a, <2>4 DEF CoinMap
      <4>2. Val(r[k + 1].coins[t].vout, m) = u[j].txout
        BY <4>1, <3>1, <2>8
      <4> QED
        BY <4>2, <3>1, <2>6
    <3>2. CASE t = h /\ m # n
      <4>1. r[k + 1].coins[t] = d
        BY <3>2, <2>5a, <2>4 DEF CoinMap
      <4>2. Val(r[k].coins[t].vout, m) # Spent /\ Val(r[k + 1].coins[t].vout, m) = Val(r[k].coins[t].vout, m)
        BY <4>1, <3>2, <2>8, <2>10
      <4> QED
        BY <4>2, <2>4
    <3>3. CASE t # h
      <4>1. r[k + 1].coins[t] = r[k].coins[t]
        BY <3>3, <2>5a, <2>4 DEF CoinMap
      <4> QED
        BY <4>1, <2>4, <2>10
    <3> QED
      BY <3>1, <3>2, <3>3
  <2> QED
    BY <2>0, <2>9, <2>10
<1> HIDE DEF S
<1>3. \A k \in 0 .. Len(vin) : k \in S
  BY <1>a, <1>1, <1>2, InductTo
<1> QED
  BY <1>3 DEF S, r

\* Putting the inputs back from their undo data, the last one first, is the
\* inverse of spending them.
LEMMA RestoringUndoes ==
  ASSUME NEW C \in CoinMap, NEW vin \in Seq(OutPoints), Ready(C, vin),
         \A t \in TxId : C[t].vout # <<>> => C[t].nHeight # 0,
         NEW D \in CoinMap, Same(D, Spending(C, vin)[Len(vin)].coins)
  PROVE  LET r == Restoring([coins |-> D, clean |-> TRUE], vin, Spending(C, vin)[Len(vin)].undo) IN
         \A k \in 0 .. Len(vin) :
           /\ r[k].coins \in CoinMap /\ r[k].clean = TRUE
           /\ Same(r[k].coins, Spending(C, vin)[Len(vin) - k].coins)
<1> DEFINE f == Spending(C, vin)
           u == f[Len(vin)].undo
           r == Restoring([coins |-> D, clean |-> TRUE], vin, u)
           P(k) == /\ r[k].coins \in CoinMap /\ r[k].clean = TRUE
                   /\ Same(r[k].coins, f[Len(vin) - k].coins)
           S == {k \in 0 .. Len(vin) : P(k)}
<1>a. Len(vin) \in Nat
  OBVIOUS
<1>b. r[0] = [coins |-> D, clean |-> TRUE]
  BY RestoringStep, SMTT(60)
<1>c. \A k \in 1 .. Len(vin) :
         r[k] = RestoreInput(r[k - 1], vin[Len(vin) + 1 - k], u[Len(vin) + 1 - k])
  BY RestoringStep, SMTT(60)
<1>d. \A j \in 1 .. Len(vin) : f[j] = SpendInput(f[j - 1], vin[j])
  BY SpendingStep, Zenon
<1>e. \A j \in 1 .. Len(vin) : u[j] = SpendUndo(f[j - 1].coins[vin[j].hash], vin[j].n)
  BY <1>a, SpendingUndo
<1>f. \A j \in 0 .. Len(vin) : f[j].coins \in CoinMap
  BY SpendingCoins
<1>n. \A i \in 1 .. Len(vin) :
         /\ vin[i].hash \in TxId /\ vin[i].n \in Place
         /\ f[i - 1].coins[vin[i].hash] \in Coin
         /\ Val(f[i - 1].coins[vin[i].hash].vout, vin[i].n) # Spent
  BY SpendingReady
<1>h. \A i \in 1 .. Len(vin) : f[i - 1].coins[vin[i].hash].nHeight # 0
  <2>1. ASSUME NEW i \in 1 .. Len(vin) PROVE f[i - 1].coins[vin[i].hash].nHeight # 0
    <3>1. i - 1 \in 0 .. Len(vin) /\ vin[i].hash \in TxId /\ vin[i].n \in Place
      BY <1>n
    <3>2. f[i - 1].coins[vin[i].hash].nHeight = C[vin[i].hash].nHeight
      BY <3>1, SpendingCoins
    <3>3. C[vin[i].hash].vout # <<>>
      BY DEF Ready, Val
    <3> QED
      BY <3>1, <3>2, <3>3
  <2> QED
    BY <2>1
<1> HIDE DEF f, u, r
<1>1. 0 \in S
  BY <1>a, <1>b DEF f
<1>2. ASSUME NEW k \in Nat, k + 1 <= Len(vin), k \in S PROVE k + 1 \in S
  <2> DEFINE j == Len(vin) + 1 - (k + 1)
             h == vin[j].hash
             n == vin[j].n
  <2>0. /\ k + 1 \in 1 .. Len(vin) /\ k + 1 - 1 = k /\ k + 1 \in 0 .. Len(vin)
        /\ j \in 1 .. Len(vin) /\ j - 1 \in 0 .. Len(vin) /\ j \in 0 .. Len(vin)
        /\ Len(vin) - k = j /\ Len(vin) - (k + 1) = j - 1
    BY <1>2, <1>a
  <2>1. r[k + 1] = RestoreInput(r[k], vin[j], u[j])
    BY <2>0, <1>c
  <2> HIDE DEF j
  <2> DEFINE c == f[j - 1].coins[h]
             d == r[k].coins[h]
  <2>2. f[j].coins = [f[j - 1].coins EXCEPT ![h] = Spend(c, n)]
    <3>1. f[j] = SpendInput(f[j - 1], vin[j])
      BY <2>0, <1>d
    <3> QED
      BY <3>1 DEF SpendInput
  <2>3. h \in TxId /\ n \in Place /\ c \in Coin /\ Val(c.vout, n) # Spent /\ c.nHeight # 0
    BY <2>0, <1>n, <1>h
  <2>4. P(k)
    BY <1>2
  <2>5. u[j] = SpendUndo(c, n)
    BY <2>0, <1>e
  <2>6. /\ r[k + 1].coins = [r[k].coins EXCEPT ![h] = Restore(d, n, SpendUndo(c, n))]
        /\ r[k + 1].clean = (r[k].clean /\ RestoresCleanly(d, n, SpendUndo(c, n)))
    BY <2>1, <2>5 DEF RestoreInput
  <2>7. f[j].coins \in CoinMap /\ f[j - 1].coins \in CoinMap
    BY <2>0, <1>f
  <2>8. Same(r[k].coins, f[j].coins) /\ r[k].coins \in CoinMap /\ r[k].clean = TRUE
    BY <2>4, <2>0
  <2> HIDE DEF h, n
  <2>9. d \in Coin /\ Like(d, Spend(c, n))
    <3>1. d \in Coin /\ Like(d, f[j].coins[h])
      BY <2>3, <2>8 DEF Same, CoinMap
    <3>2. f[j].coins[h] = Spend(c, n)
      BY <2>2, <2>3, <2>7 DEF CoinMap
    <3> QED
      BY <3>1, <3>2
  <2> HIDE DEF d
  <2>10. Restore(d, n, SpendUndo(c, n)) = c /\ RestoresCleanly(d, n, SpendUndo(c, n))
    BY <2>3, <2>9, RestoreUndoesSpend
  <2>11. r[k + 1].coins = [r[k].coins EXCEPT ![h] = c] /\ r[k + 1].clean = TRUE
    BY <2>6, <2>8, <2>10
  <2>12. r[k + 1].coins \in CoinMap
    BY <2>11, <2>8, <2>3 DEF CoinMap
  <2>13. ASSUME NEW t \in TxId PROVE Like(r[k + 1].coins[t], f[j - 1].coins[t])
    <3>1. CASE t = h
      BY <3>1, <2>11, <2>8 DEF Like, CoinMap
    <3>2. CASE t # h
      <4>1. r[k + 1].coins[t] = r[k].coins[t] /\ f[j].coins[t] = f[j - 1].coins[t]
        BY <3>2, <2>11, <2>8, <2>2, <2>7 DEF CoinMap
      <4> QED
        BY <4>1, <2>8 DEF Same
    <3> QED
      BY <3>1, <3>2
  <2>14. Same(r[k + 1].coins, f[Len(vin) - (k + 1)].coins)
    BY <2>13, <2>0 DEF Same
  <2> QED
    BY <2>0, <2>11, <2>12, <2>14
<1> HIDE DEF S
<1>3. \A k \in 0 .. Len(vin) : k \in S
  BY <1>a, <1>1, <1>2, InductTo
<1> QED
  BY <1>3 DEF S, f, r, u

-----------------------------------------------------------------------------
(***************************************************************************)
(* The transactions of one block                                           *)
(***************************************************************************)

Transactions == {tx \in [hash : TxId, vin : Seq(OutPoints), vout : Seq(Nat)] : CheckTransaction(tx)}

\* What CheckTransaction gives.
LEMMA TxFacts ==
  ASSUME NEW tx \in Transactions, NEW h \in Nat
  PROVE  /\ tx.hash \in TxId /\ tx.vin \in Seq(OutPoints) /\ tx.vout \in Seq(Nat)
         /\ tx.vout # <<>>
         /\ \A i, j \in 1 .. Len(tx.vin) : i # j => tx.vin[i] # tx.vin[j]
         /\ CoinsOf(tx, h) \in Coin /\ CoinsOf(tx, h).vout = tx.vout
         /\ CoinsOf(tx, h).nHeight = h /\ CoinsOf(tx, h).fCoinBase = IsCoinBase(tx)
<1>1. /\ tx.hash \in TxId /\ tx.vin \in Seq(OutPoints) /\ tx.vout \in Seq(Nat)
      /\ tx.vout # <<>>
      /\ \A i, j \in 1 .. Len(tx.vin) : i # j => tx.vin[i] # tx.vin[j]
  BY DEF Transactions, CheckTransaction
<1>2. IsCoinBase(tx) \in BOOLEAN
  BY DEF IsCoinBase
<1>3. /\ CoinsOf(tx, h).vout = tx.vout
      /\ CoinsOf(tx, h).nHeight = h /\ CoinsOf(tx, h).fCoinBase = IsCoinBase(tx)
  BY DEF CoinsOf
<1>4. tx.vout \in Seq(Nat \cup {Spent})
  BY <1>1
<1>5. CoinsOf(tx, h) \in CoinsSet
  BY <1>2, <1>4 DEF CoinsOf, CoinsSet
<1>6. Trim(tx.vout)
  <2>1. tx.vout[Len(tx.vout)] \in Nat
    BY <1>1
  <2> QED
    BY <2>1 DEF Trim, Spent
<1> QED
  BY <1>1, <1>3, <1>5, <1>6 DEF Coin

\* What CheckBlock gives.
LEMMA VtxFacts ==
  ASSUME NEW vtx, CheckBlock(vtx)
  PROVE  /\ Len(vtx) \in Nat \ {0}
         /\ \A i \in 1 .. Len(vtx) : vtx[i] \in Transactions /\ (IsCoinBase(vtx[i]) <=> i = 1)
         /\ \A i, j \in 1 .. Len(vtx) : i # j => vtx[i].hash # vtx[j].hash
<1>1. OutPoints = [hash : TxId, n : Nat \ {0}]
  BY DEF OutPoints, Place
<1>2. \A tx : CheckTransaction(tx) => tx \in [hash : TxId, vin : Seq(OutPoints), vout : Seq(Nat)]
  BY <1>1 DEF CheckTransaction
<1> QED
  BY <1>2 DEF CheckBlock, Transactions

\* Inputs that CheckInputs accepts are there, and a coinbase has none.
LEMMA CheckedReady ==
  ASSUME NEW C \in CoinMap, NEW tx \in Transactions, NEW h,
         IsCoinBase(tx) \/ CheckInputs(C, tx, h)
  PROVE  Ready(C, tx.vin)
<1>1. /\ tx.vin \in Seq(OutPoints)
      /\ \A i, j \in 1 .. Len(tx.vin) : i # j => tx.vin[i] # tx.vin[j]
  BY DEF Transactions, CheckTransaction
<1>2. ASSUME NEW i \in 1 .. Len(tx.vin) PROVE Val(C[tx.vin[i].hash].vout, tx.vin[i].n) # Spent
  <2>1. tx.vin[i] \in OutPoints /\ tx.vin # <<>>
    BY <1>1
  <2>2. tx.vin[i].hash \in TxId /\ tx.vin[i].n \in Place
    BY <2>1 DEF OutPoints
  <2>3. C[tx.vin[i].hash] \in Coin
    BY <2>2 DEF CoinMap
  <2>4. HaveInputs(C, tx)
    BY <2>1 DEF IsCoinBase, CheckInputs
  <2>5. IsAvailable(C[tx.vin[i].hash], tx.vin[i].n)
    BY <2>4 DEF HaveInputs
  <2> QED
    BY <2>2, <2>3, <2>5, PrunedEmpty
<1> QED
  BY <1>1, <1>2 DEF Ready

\* CheckInputs does not see a difference between coins that are the same.
LEMMA CheckInputsSame ==
  ASSUME NEW C \in CoinMap, NEW D \in CoinMap, Same(C, D), NEW tx \in Transactions, NEW h,
         CheckInputs(C, tx, h)
  PROVE  CheckInputs(D, tx, h) /\ GetValueIn(C, tx) = GetValueIn(D, tx)
<1>1. tx.vin \in Seq(OutPoints)
  BY DEF Transactions
<1>2. Ready(C, tx.vin)
  BY CheckedReady
<1>3. ASSUME NEW i \in 1 .. Len(tx.vin) PROVE C[tx.vin[i].hash] = D[tx.vin[i].hash]
  <2>1. tx.vin[i] \in OutPoints
    BY <1>1
  <2>2. tx.vin[i].hash \in TxId /\ tx.vin[i].n \in Place
    BY <2>1 DEF OutPoints
  <2>3. C[tx.vin[i].hash] \in Coin /\ D[tx.vin[i].hash] \in Coin
    BY <2>2 DEF CoinMap
  <2>4. Like(C[tx.vin[i].hash], D[tx.vin[i].hash])
    BY <2>2 DEF Same
  <2>5. Val(C[tx.vin[i].hash].vout, tx.vin[i].n) # Spent
    BY <1>2 DEF Ready
  <2> QED
    BY <2>2, <2>3, <2>4, <2>5, LikeFacts
<1>4. [i \in 1 .. Len(tx.vin) |-> C[tx.vin[i].hash].vout[tx.vin[i].n]]
      = [i \in 1 .. Len(tx.vin) |-> D[tx.vin[i].hash].vout[tx.vin[i].n]]
  BY <1>3
<1>5. GetValueIn(C, tx) = GetValueIn(D, tx)
  BY <1>4, Zenon DEF GetValueIn
<1>6. HaveInputs(D, tx)
  BY <1>3 DEF HaveInputs, CheckInputs
<1> QED
  BY <1>3, <1>5, <1>6 DEF CheckInputs

\* Spending gives records of coins and undo data.
LEMMA SpendingShape ==
  ASSUME NEW C, NEW vin \in Seq(OutPoints)
  PROVE  \A i \in 0 .. Len(vin) :
           Spending(C, vin)[i] = [coins |-> Spending(C, vin)[i].coins, undo |-> Spending(C, vin)[i].undo]
<1> DEFINE f == Spending(C, vin)
<1>1. f[0] = [coins |-> C, undo |-> <<>>]
  BY SpendingStep, Zenon
<1>2. \A j \in 1 .. Len(vin) : f[j] = SpendInput(f[j - 1], vin[j])
  BY SpendingStep, Zenon
<1>3. \A s, in : SpendInput(s, in) = [coins |-> SpendInput(s, in).coins, undo |-> SpendInput(s, in).undo]
  BY DEF SpendInput
<1> HIDE DEF f
<1>4. ASSUME NEW i \in 0 .. Len(vin) PROVE f[i] = [coins |-> f[i].coins, undo |-> f[i].undo]
  <2>1. CASE i = 0
    BY <2>1, <1>1
  <2>2. CASE i \in 1 .. Len(vin)
    BY <2>2, <1>2, <1>3
  <2> QED
    BY <2>1, <2>2
<1> QED
  BY <1>4 DEF f

\* What UpdateCoins returns.
LEMMA UpdateCoinsFacts ==
  ASSUME NEW C \in CoinMap, NEW tx \in Transactions, NEW h \in Nat
  PROVE  /\ UpdateCoins(C, tx, h).coins \in CoinMap
         /\ UpdateCoins(C, tx, h).coins =
              [Spending(C, tx.vin)[Len(tx.vin)].coins EXCEPT ![tx.hash] = CoinsOf(tx, h)]
         /\ UpdateCoins(C, tx, h).undo = Spending(C, tx.vin)[Len(tx.vin)].undo
<1> DEFINE s == Spending(C, tx.vin)[Len(tx.vin)]
<1>1. tx.vin \in Seq(OutPoints) /\ tx.hash \in TxId /\ CoinsOf(tx, h) \in Coin
  BY TxFacts
<1>2. Len(tx.vin) \in 0 .. Len(tx.vin)
  BY <1>1
<1>3. s = [coins |-> s.coins, undo |-> s.undo]
  BY <1>1, <1>2, SpendingShape
<1>4. s.coins \in CoinMap
  BY <1>1, <1>2, SpendingCoins
<1>5. UpdateCoins(C, tx, h) = [s EXCEPT !.coins[tx.hash] = CoinsOf(tx, h)]
  BY DEF UpdateCoins
<1> HIDE DEF s
<1>6. /\ UpdateCoins(C, tx, h).coins = [s.coins EXCEPT ![tx.hash] = CoinsOf(tx, h)]
      /\ UpdateCoins(C, tx, h).undo = s.undo
  BY <1>3, <1>5
<1>7. UpdateCoins(C, tx, h).coins \in CoinMap
  BY <1>1, <1>4, <1>6 DEF CoinMap
<1> QED
  BY <1>6, <1>7 DEF s

\* UpdateCoins does not see the difference either.
LEMMA UpdateCoinsSame ==
  ASSUME NEW C \in CoinMap, NEW D \in CoinMap, Same(C, D), NEW tx \in Transactions, NEW h \in Nat,
         Ready(C, tx.vin)
  PROVE  /\ Same(UpdateCoins(C, tx, h).coins, UpdateCoins(D, tx, h).coins)
         /\ UpdateCoins(C, tx, h).undo = UpdateCoins(D, tx, h).undo
<1> DEFINE f == Spending(C, tx.vin)[Len(tx.vin)]
           g == Spending(D, tx.vin)[Len(tx.vin)]
<1>1. tx.vin \in Seq(OutPoints) /\ tx.hash \in TxId
  BY TxFacts
<1>2. Len(tx.vin) \in 0 .. Len(tx.vin)
  BY <1>1
<1>3. Same(f.coins, g.coins) /\ f.undo = g.undo
  BY <1>1, <1>2, SpendingSame
<1>4. f.coins \in CoinMap /\ g.coins \in CoinMap
  BY <1>1, <1>2, SpendingCoins
<1>5. /\ UpdateCoins(C, tx, h).coins = [f.coins EXCEPT ![tx.hash] = CoinsOf(tx, h)]
      /\ UpdateCoins(C, tx, h).undo = f.undo
      /\ UpdateCoins(D, tx, h).coins = [g.coins EXCEPT ![tx.hash] = CoinsOf(tx, h)]
      /\ UpdateCoins(D, tx, h).undo = g.undo
  BY UpdateCoinsFacts
<1> HIDE DEF f, g
<1>6. ASSUME NEW t \in TxId
      PROVE  Like(UpdateCoins(C, tx, h).coins[t], UpdateCoins(D, tx, h).coins[t])
  <2>1. CASE t = tx.hash
    BY <2>1, <1>4, <1>5 DEF Like, CoinMap
  <2>2. CASE t # tx.hash
    BY <2>2, <1>3, <1>4, <1>5 DEF Same, CoinMap
  <2> QED
    BY <2>1, <2>2
<1> QED
  BY <1>3, <1>5, <1>6 DEF Same

\* A record of ConnectBlock's state.
Shape(s) == s = [ok |-> s.ok, coins |-> s.coins, undo |-> s.undo, nFees |-> s.nFees]

\* One transaction of ConnectBlock.
LEMMA ConnectTxFacts ==
  ASSUME NEW s, Shape(s), s.ok \in BOOLEAN, NEW tx, NEW h
  PROVE  /\ Shape(ConnectTx(s, tx, h))
         /\ ConnectTx(s, tx, h).ok \in BOOLEAN
         /\ ConnectTx(s, tx, h).ok <=> s.ok /\ (IsCoinBase(tx) \/ CheckInputs(s.coins, tx, h))
         /\ ConnectTx(s, tx, h).coins = IF ConnectTx(s, tx, h).ok
                                        THEN UpdateCoins(s.coins, tx, h).coins ELSE s.coins
         /\ ConnectTx(s, tx, h).undo = IF ConnectTx(s, tx, h).ok /\ ~IsCoinBase(tx)
                                       THEN Append(s.undo, UpdateCoins(s.coins, tx, h).undo)
                                       ELSE s.undo
         /\ ConnectTx(s, tx, h).nFees = IF ConnectTx(s, tx, h).ok /\ ~IsCoinBase(tx)
                                        THEN s.nFees + GetValueIn(s.coins, tx) - GetValueOut(tx)
                                        ELSE s.nFees
<1> DEFINE p == ConnectTx(s, tx, h)
<1>1. CASE ~s.ok
  <2>1. p = s
    BY <1>1 DEF ConnectTx
  <2> HIDE DEF p
  <2> QED
    BY <2>1, <1>1 DEF p
<1>2. CASE s.ok /\ IsCoinBase(tx)
  <2>1. p = [s EXCEPT !.coins = UpdateCoins(s.coins, tx, h).coins]
    BY <1>2 DEF ConnectTx
  <2>2. p = [ok |-> s.ok, coins |-> UpdateCoins(s.coins, tx, h).coins, undo |-> s.undo, nFees |-> s.nFees]
    BY <2>1 DEF Shape
  <2> HIDE DEF p
  <2> QED
    <3>1. /\ p.ok = s.ok /\ p.coins = UpdateCoins(s.coins, tx, h).coins
          /\ p.undo = s.undo /\ p.nFees = s.nFees /\ Shape(p)
      BY <2>2 DEF Shape
    <3> QED
      BY <3>1, <1>2 DEF p
<1>3. CASE s.ok /\ ~IsCoinBase(tx) /\ ~CheckInputs(s.coins, tx, h)
  <2>1. p = [s EXCEPT !.ok = FALSE]
    BY <1>3 DEF ConnectTx
  <2>2. p = [ok |-> FALSE, coins |-> s.coins, undo |-> s.undo, nFees |-> s.nFees]
    BY <2>1 DEF Shape
  <2> HIDE DEF p
  <2> QED
    <3>1. /\ p.ok = FALSE /\ p.coins = s.coins
          /\ p.undo = s.undo /\ p.nFees = s.nFees /\ Shape(p)
      BY <2>2 DEF Shape
    <3> QED
      BY <3>1, <1>3 DEF p
<1>4. CASE s.ok /\ ~IsCoinBase(tx) /\ CheckInputs(s.coins, tx, h)
  <2>1. p = [ok |-> TRUE, coins |-> UpdateCoins(s.coins, tx, h).coins,
             undo |-> Append(s.undo, UpdateCoins(s.coins, tx, h).undo),
             nFees |-> s.nFees + GetValueIn(s.coins, tx) - GetValueOut(tx)]
    BY <1>4 DEF ConnectTx
  <2> HIDE DEF p
  <2> QED
    <3>1. /\ p.ok = TRUE /\ p.coins = UpdateCoins(s.coins, tx, h).coins
          /\ p.undo = Append(s.undo, UpdateCoins(s.coins, tx, h).undo)
          /\ p.nFees = s.nFees + GetValueIn(s.coins, tx) - GetValueOut(tx) /\ Shape(p)
      BY <2>1 DEF Shape
    <3> QED
      BY <3>1, <1>4 DEF p
<1> QED
  BY <1>1, <1>2, <1>3, <1>4

\* The first state of ConnectBlock and the next ones.
LEMMA ConnectingStep ==
  ASSUME NEW C, NEW vtx, Len(vtx) \in Nat, NEW h
  PROVE  /\ Connecting(C, vtx, h)[0] = [ok |-> TRUE, coins |-> C, undo |-> <<>>, nFees |-> 0]
         /\ \A k \in 1 .. Len(vtx) :
              Connecting(C, vtx, h)[k] = ConnectTx(Connecting(C, vtx, h)[k - 1], vtx[k], h)
<1> DEFINE f == Connecting(C, vtx, h)
<1>1. f = [k \in 0 .. Len(vtx) |->
             IF k = 0 THEN [ok |-> TRUE, coins |-> C, undo |-> <<>>, nFees |-> 0]
             ELSE ConnectTx(f[k - 1], vtx[k], h)]
  BY ConnectingDef
<1> HIDE DEF f
<1>2. f[0] = [ok |-> TRUE, coins |-> C, undo |-> <<>>, nFees |-> 0]
  BY <1>1
<1>3. ASSUME NEW k \in 1 .. Len(vtx) PROVE f[k] = ConnectTx(f[k - 1], vtx[k], h)
  <2>1. k \in 0 .. Len(vtx) /\ k # 0
    OBVIOUS
  <2> QED
    BY <2>1, <1>1
<1> QED
  BY <1>2, <1>3 DEF f

\* The state of ConnectBlock after k transactions: well-formed coins, and, as
\* long as no rule is violated, each transaction found its inputs and left
\* their undo data.
LEMMA ConnectingCoins ==
  ASSUME NEW C \in CoinMap, NEW vtx, CheckBlock(vtx), NEW h \in Nat
  PROVE  \A k \in 0 .. Len(vtx) :
           /\ Shape(Connecting(C, vtx, h)[k]) /\ Connecting(C, vtx, h)[k].ok \in BOOLEAN
           /\ Connecting(C, vtx, h)[k].coins \in CoinMap
           /\ k # 0 /\ Connecting(C, vtx, h)[k].ok =>
                /\ Connecting(C, vtx, h)[k - 1].ok
                /\ Ready(Connecting(C, vtx, h)[k - 1].coins, vtx[k].vin)
                /\ Connecting(C, vtx, h)[k].coins =
                     UpdateCoins(Connecting(C, vtx, h)[k - 1].coins, vtx[k], h).coins
<1> DEFINE f == Connecting(C, vtx, h)
           P(k) == /\ Shape(f[k]) /\ f[k].ok \in BOOLEAN /\ f[k].coins \in CoinMap
                   /\ k # 0 /\ f[k].ok => /\ f[k - 1].ok /\ Ready(f[k - 1].coins, vtx[k].vin)
                                          /\ f[k].coins = UpdateCoins(f[k - 1].coins, vtx[k], h).coins
           S == {k \in 0 .. Len(vtx) : P(k)}
<1>a. /\ Len(vtx) \in Nat \ {0}
      /\ \A i \in 1 .. Len(vtx) : vtx[i] \in Transactions /\ (IsCoinBase(vtx[i]) <=> i = 1)
  BY VtxFacts
<1>l. Len(vtx) \in Nat
  BY <1>a
<1>b. f[0] = [ok |-> TRUE, coins |-> C, undo |-> <<>>, nFees |-> 0]
  BY <1>a, ConnectingStep
<1>c. \A k \in 1 .. Len(vtx) : f[k] = ConnectTx(f[k - 1], vtx[k], h)
  BY <1>l, ConnectingStep, ZenonT(40)
<1> HIDE DEF f
<1>1. 0 \in S
  <2>1. f[0].ok = TRUE /\ f[0].coins = C /\ Shape(f[0])
    BY <1>b DEF Shape
  <2>2. 0 \in 0 .. Len(vtx)
    BY <1>l
  <2> QED
    BY <2>1, <2>2
<1>2. ASSUME NEW k \in Nat, k + 1 <= Len(vtx), k \in S PROVE k + 1 \in S
  <2> DEFINE tx == vtx[k + 1]
  <2>0. k + 1 \in 1 .. Len(vtx) /\ k + 1 - 1 = k /\ k + 1 \in 0 .. Len(vtx) /\ k + 1 # 0
    BY <1>2, <1>a
  <2>1. f[k + 1] = ConnectTx(f[k], tx, h) /\ tx \in Transactions
    BY <2>0, <1>a, <1>c
  <2>2. Shape(f[k]) /\ f[k].ok \in BOOLEAN /\ f[k].coins \in CoinMap
    BY <1>2
  <2> HIDE DEF tx
  <2>3. /\ Shape(f[k + 1]) /\ f[k + 1].ok \in BOOLEAN
        /\ f[k + 1].ok <=> f[k].ok /\ (IsCoinBase(tx) \/ CheckInputs(f[k].coins, tx, h))
        /\ f[k + 1].coins = IF f[k + 1].ok THEN UpdateCoins(f[k].coins, tx, h).coins ELSE f[k].coins
    BY <2>1, <2>2, ConnectTxFacts
  <2>4. UpdateCoins(f[k].coins, tx, h).coins \in CoinMap
    BY <2>1, <2>2, UpdateCoinsFacts
  <2>5. f[k + 1].ok => Ready(f[k].coins, tx.vin)
    BY <2>1, <2>2, <2>3, CheckedReady
  <2>6. f[k + 1].coins \in CoinMap
    BY <2>2, <2>3, <2>4
  <2> QED
    BY <2>0, <2>3, <2>5, <2>6 DEF tx
<1> HIDE DEF S
<1>3. \A k \in 0 .. Len(vtx) : k \in S
  BY <1>a, <1>1, <1>2, InductTo
<1> QED
  BY <1>3 DEF S, f

\* The undo data of the transactions after the coinbase, in their order.
LEMMA ConnectingUndo ==
  ASSUME NEW C \in CoinMap, NEW vtx, CheckBlock(vtx), NEW h \in Nat
  PROVE  \A k \in 1 .. Len(vtx) : Connecting(C, vtx, h)[k].ok =>
           /\ Connecting(C, vtx, h)[k].undo \in Seq(Seq(Undo))
           /\ Len(Connecting(C, vtx, h)[k].undo) = k - 1
           /\ \A i \in 2 .. k : Connecting(C, vtx, h)[k].undo[i - 1] =
                UpdateCoins(Connecting(C, vtx, h)[i - 1].coins, vtx[i], h).undo
<1> DEFINE f == Connecting(C, vtx, h)
           u(i) == UpdateCoins(f[i - 1].coins, vtx[i], h).undo
           P(k) == k # 0 /\ f[k].ok => /\ f[k].undo \in Seq(Seq(Undo)) /\ Len(f[k].undo) = k - 1
                                       /\ \A i \in 2 .. k : f[k].undo[i - 1] = u(i)
           S == {k \in 0 .. Len(vtx) : P(k)}
<1>a. /\ Len(vtx) \in Nat \ {0}
      /\ \A i \in 1 .. Len(vtx) : vtx[i] \in Transactions /\ (IsCoinBase(vtx[i]) <=> i = 1)
  BY VtxFacts
<1>l. Len(vtx) \in Nat
  BY <1>a
<1>b. f[0] = [ok |-> TRUE, coins |-> C, undo |-> <<>>, nFees |-> 0]
  BY <1>a, ConnectingStep
<1>c. \A k \in 1 .. Len(vtx) : f[k] = ConnectTx(f[k - 1], vtx[k], h)
  BY <1>l, ConnectingStep, ZenonT(40)
<1>d. \A k \in 0 .. Len(vtx) :
        /\ Shape(f[k]) /\ f[k].ok \in BOOLEAN /\ f[k].coins \in CoinMap
        /\ k # 0 /\ f[k].ok => f[k - 1].ok /\ Ready(f[k - 1].coins, vtx[k].vin)
  BY ConnectingCoins
<1>u. ASSUME NEW k \in 1 .. Len(vtx), f[k].ok PROVE u(k) \in Seq(Undo)
  <2>1. k \in 0 .. Len(vtx) /\ k - 1 \in 0 .. Len(vtx) /\ k # 0 /\ vtx[k] \in Transactions
    BY <1>a
  <2>2. f[k - 1].coins \in CoinMap /\ Ready(f[k - 1].coins, vtx[k].vin)
    BY <2>1, <1>d, <1>u
  <2> HIDE DEF f
  <2>3. u(k) = Spending(f[k - 1].coins, vtx[k].vin)[Len(vtx[k].vin)].undo
    <3>1. \A D \in CoinMap, tx \in Transactions :
            UpdateCoins(D, tx, h).undo = Spending(D, tx.vin)[Len(tx.vin)].undo
      BY UpdateCoinsFacts
    <3> QED
      BY <2>1, <2>2, <3>1, Zenon
  <2>4. vtx[k].vin \in Seq(OutPoints)
    BY <2>1, TxFacts
  <2>5. Len(vtx[k].vin) \in 0 .. Len(vtx[k].vin)
    BY <2>4
  <2>6. Spending(f[k - 1].coins, vtx[k].vin)[Len(vtx[k].vin)].undo \in Seq(Undo)
    BY <2>2, <2>4, <2>5, SpendingUndo
  <2> QED
    BY <2>3, <2>6
<1> HIDE DEF f
<1>1. 0 \in S
  BY <1>a
<1>2. ASSUME NEW k \in Nat, k + 1 <= Len(vtx), k \in S PROVE k + 1 \in S
  <2>0. /\ k + 1 \in 1 .. Len(vtx) /\ k + 1 - 1 = k /\ k + 1 \in 0 .. Len(vtx) /\ k + 1 # 0
        /\ k \in 0 .. Len(vtx)
    BY <1>2, <1>a
  <2>1. f[k + 1] = ConnectTx(f[k], vtx[k + 1], h) /\ (IsCoinBase(vtx[k + 1]) <=> k = 0)
    BY <2>0, <1>a, <1>c
  <2>2. Shape(f[k]) /\ f[k].ok \in BOOLEAN
    BY <2>0, <1>d
  <2>3. SUFFICES ASSUME f[k + 1].ok
                 PROVE  /\ f[k + 1].undo \in Seq(Seq(Undo)) /\ Len(f[k + 1].undo) = k
                        /\ \A i \in 2 .. k + 1 : f[k + 1].undo[i - 1] = u(i)
    BY <2>0
  <2>4. f[k + 1].undo = IF k # 0 THEN Append(f[k].undo, u(k + 1)) ELSE f[k].undo
    <3>1. f[k + 1].undo = IF f[k + 1].ok /\ ~IsCoinBase(vtx[k + 1])
                          THEN Append(f[k].undo, UpdateCoins(f[k].coins, vtx[k + 1], h).undo)
                          ELSE f[k].undo
      BY <2>1, <2>2, ConnectTxFacts
    <3> QED
      BY <3>1, <2>0, <2>1, <2>3
  <2>5. CASE k = 0
    <3>1. f[k + 1].undo = <<>>
      BY <2>4, <2>5, <1>b
    <3>2. f[k + 1].undo \in Seq(Seq(Undo)) /\ Len(f[k + 1].undo) = 0
      BY <3>1
    <3>3. \A i \in 2 .. k + 1 : FALSE
      BY <2>5
    <3> QED
      BY <3>2, <3>3, <2>5
  <2>6. CASE k # 0
    <3>1. f[k].ok
      BY <2>0, <2>3, <1>d
    <3>2. f[k].undo \in Seq(Seq(Undo)) /\ Len(f[k].undo) = k - 1
          /\ \A i \in 2 .. k : f[k].undo[i - 1] = u(i)
      BY <1>2, <2>6, <3>1
    <3>3. u(k + 1) \in Seq(Undo) /\ f[k + 1].undo = Append(f[k].undo, u(k + 1))
      BY <2>0, <2>3, <2>4, <2>6, <1>u
    <3> HIDE DEF u
    <3>4. f[k + 1].undo \in Seq(Seq(Undo)) /\ Len(f[k + 1].undo) = k - 1 + 1
      BY <3>2, <3>3
    <3>5. ASSUME NEW i \in 2 .. k + 1 PROVE f[k + 1].undo[i - 1] = u(i)
      <4>1. CASE i = k + 1
        BY <4>1, <3>2, <3>3, <2>0
      <4>2. CASE i \in 2 .. k
        <5>1. i - 1 \in 1 .. Len(f[k].undo)
          BY <4>2, <3>2
        <5>2. f[k + 1].undo[i - 1] = f[k].undo[i - 1]
          BY <5>1, <3>2, <3>3
        <5> QED
          BY <5>2, <4>2, <3>2
      <4> QED
        BY <4>1, <4>2
    <3> QED
      BY <3>4, <3>5
  <2> QED
    BY <2>5, <2>6
<1> HIDE DEF S
<1>3. \A k \in 0 .. Len(vtx) : k \in S
  BY <1>a, <1>1, <1>2, InductTo
<1> QED
  BY <1>3, <1>a DEF S, f, u

\* The undo data of one transaction of the block.
LEMMA ConnectingUndoAt ==
  ASSUME NEW C \in CoinMap, NEW vtx, CheckBlock(vtx), NEW h \in Nat,
         NEW k \in 1 .. Len(vtx), Connecting(C, vtx, h)[k].ok, NEW i \in 2 .. k
  PROVE  Connecting(C, vtx, h)[k].undo[i - 1] =
           UpdateCoins(Connecting(C, vtx, h)[i - 1].coins, vtx[i], h).undo
  BY ConnectingUndo, SMTT(30)

\* ConnectBlock does the same to coins that are the same.
LEMMA ConnectingSame ==
  ASSUME NEW C \in CoinMap, NEW D \in CoinMap, Same(C, D), NEW vtx, CheckBlock(vtx), NEW h \in Nat
  PROVE  \A k \in 0 .. Len(vtx) :
           /\ Connecting(C, vtx, h)[k].ok = Connecting(D, vtx, h)[k].ok
           /\ Connecting(C, vtx, h)[k].undo = Connecting(D, vtx, h)[k].undo
           /\ Connecting(C, vtx, h)[k].nFees = Connecting(D, vtx, h)[k].nFees
           /\ Same(Connecting(C, vtx, h)[k].coins, Connecting(D, vtx, h)[k].coins)
<1> DEFINE f == Connecting(C, vtx, h)
           g == Connecting(D, vtx, h)
           P(k) == /\ f[k].ok = g[k].ok /\ f[k].undo = g[k].undo /\ f[k].nFees = g[k].nFees
                   /\ Same(f[k].coins, g[k].coins)
           S == {k \in 0 .. Len(vtx) : P(k)}
<1>a. /\ Len(vtx) \in Nat \ {0}
      /\ \A i \in 1 .. Len(vtx) : vtx[i] \in Transactions /\ (IsCoinBase(vtx[i]) <=> i = 1)
  BY VtxFacts
<1>l. Len(vtx) \in Nat
  BY <1>a
<1>b. /\ f[0] = [ok |-> TRUE, coins |-> C, undo |-> <<>>, nFees |-> 0]
      /\ g[0] = [ok |-> TRUE, coins |-> D, undo |-> <<>>, nFees |-> 0]
  BY <1>a, ConnectingStep
<1>c. \A k \in 1 .. Len(vtx) : /\ f[k] = ConnectTx(f[k - 1], vtx[k], h)
                               /\ g[k] = ConnectTx(g[k - 1], vtx[k], h)
  BY <1>l, ConnectingStep, ZenonT(40)
<1>d. \A k \in 0 .. Len(vtx) : /\ Shape(f[k]) /\ f[k].ok \in BOOLEAN /\ f[k].coins \in CoinMap
                               /\ Shape(g[k]) /\ g[k].ok \in BOOLEAN /\ g[k].coins \in CoinMap
  BY ConnectingCoins
<1> HIDE DEF f, g
<1>1. 0 \in S
  <2>1. P(0)
    <3>1. /\ f[0].ok = TRUE /\ f[0].coins = C /\ f[0].undo = <<>> /\ f[0].nFees = 0
          /\ g[0].ok = TRUE /\ g[0].coins = D /\ g[0].undo = <<>> /\ g[0].nFees = 0
      BY <1>b
    <3> QED
      BY <3>1
  <2>2. 0 \in 0 .. Len(vtx)
    BY <1>l
  <2> QED
    BY <2>1, <2>2
<1>2. ASSUME NEW k \in Nat, k + 1 <= Len(vtx), k \in S PROVE k + 1 \in S
  <2> DEFINE tx == vtx[k + 1]
  <2>0. /\ k + 1 \in 1 .. Len(vtx) /\ k + 1 - 1 = k /\ k + 1 \in 0 .. Len(vtx)
        /\ k \in 0 .. Len(vtx)
    BY <1>2, <1>a
  <2>1. f[k + 1] = ConnectTx(f[k], tx, h) /\ g[k + 1] = ConnectTx(g[k], tx, h) /\ tx \in Transactions
    BY <2>0, <1>a, <1>c
  <2>2. /\ Shape(f[k]) /\ f[k].ok \in BOOLEAN /\ f[k].coins \in CoinMap
        /\ Shape(g[k]) /\ g[k].ok \in BOOLEAN /\ g[k].coins \in CoinMap
    BY <2>0, <1>d
  <2>3. P(k)
    BY <1>2
  <2> HIDE DEF tx
  <2>4. /\ f[k + 1].ok \in BOOLEAN
        /\ f[k + 1].ok <=> f[k].ok /\ (IsCoinBase(tx) \/ CheckInputs(f[k].coins, tx, h))
        /\ f[k + 1].coins = IF f[k + 1].ok THEN UpdateCoins(f[k].coins, tx, h).coins ELSE f[k].coins
        /\ f[k + 1].undo = IF f[k + 1].ok /\ ~IsCoinBase(tx)
                           THEN Append(f[k].undo, UpdateCoins(f[k].coins, tx, h).undo) ELSE f[k].undo
        /\ f[k + 1].nFees = IF f[k + 1].ok /\ ~IsCoinBase(tx)
                            THEN f[k].nFees + GetValueIn(f[k].coins, tx) - GetValueOut(tx)
                            ELSE f[k].nFees
    BY <2>1, <2>2, ConnectTxFacts
  <2>5. /\ g[k + 1].ok \in BOOLEAN
        /\ g[k + 1].ok <=> g[k].ok /\ (IsCoinBase(tx) \/ CheckInputs(g[k].coins, tx, h))
        /\ g[k + 1].coins = IF g[k + 1].ok THEN UpdateCoins(g[k].coins, tx, h).coins ELSE g[k].coins
        /\ g[k + 1].undo = IF g[k + 1].ok /\ ~IsCoinBase(tx)
                           THEN Append(g[k].undo, UpdateCoins(g[k].coins, tx, h).undo) ELSE g[k].undo
        /\ g[k + 1].nFees = IF g[k + 1].ok /\ ~IsCoinBase(tx)
                            THEN g[k].nFees + GetValueIn(g[k].coins, tx) - GetValueOut(tx)
                            ELSE g[k].nFees
    BY <2>1, <2>2, ConnectTxFacts
  <2>6. Same(g[k].coins, f[k].coins)
    BY <2>3, SameTrans DEF Same, Like
  <2>7. CheckInputs(f[k].coins, tx, h) <=> CheckInputs(g[k].coins, tx, h)
    <3>1. CheckInputs(f[k].coins, tx, h) => CheckInputs(g[k].coins, tx, h)
      BY <2>1, <2>2, <2>3, CheckInputsSame
    <3>2. CheckInputs(g[k].coins, tx, h) => CheckInputs(f[k].coins, tx, h)
      BY <2>1, <2>2, <2>6, CheckInputsSame
    <3> QED
      BY <3>1, <3>2
  <2>8. f[k + 1].ok = g[k + 1].ok
    BY <2>3, <2>4, <2>5, <2>7
  <2>9. CASE ~f[k + 1].ok
    BY <2>0, <2>3, <2>4, <2>5, <2>8, <2>9
  <2>10. CASE f[k + 1].ok
    <3>1. Ready(f[k].coins, tx.vin)
      BY <2>1, <2>2, <2>4, <2>10, CheckedReady
    <3>2. /\ Same(UpdateCoins(f[k].coins, tx, h).coins, UpdateCoins(g[k].coins, tx, h).coins)
          /\ UpdateCoins(f[k].coins, tx, h).undo = UpdateCoins(g[k].coins, tx, h).undo
      BY <2>1, <2>2, <2>3, <3>1, UpdateCoinsSame
    <3>3. ~IsCoinBase(tx) => GetValueIn(f[k].coins, tx) = GetValueIn(g[k].coins, tx)
      BY <2>1, <2>2, <2>3, <2>4, <2>10, CheckInputsSame
    <3>4. f[k + 1].undo = g[k + 1].undo
      BY <2>3, <2>4, <2>5, <2>8, <3>2
    <3>5. f[k + 1].nFees = g[k + 1].nFees
      BY <2>3, <2>4, <2>5, <2>8, <3>3
    <3>6. Same(f[k + 1].coins, g[k + 1].coins)
      BY <2>4, <2>5, <2>8, <2>10, <3>2
    <3> QED
      BY <2>0, <2>8, <3>4, <3>5, <3>6
  <2> QED
    BY <2>9, <2>10
<1> HIDE DEF S
<1>3. \A k \in 0 .. Len(vtx) : k \in S
  BY <1>a, <1>1, <1>2, InductTo
<1> QED
  BY <1>3 DEF S, f, g

-----------------------------------------------------------------------------
(***************************************************************************)
(* The coins of a history                                                  *)
(***************************************************************************)

Event == [tx : Transactions, nHeight : Nat \ {0}]

\* A later transaction spends output n of the k-th.
Gone(H, k, n) == \E j \in k + 1 .. Len(H) : Spends(H[j].tx, H[k].tx.hash, n)

\* k is the last transaction with the hash t.
LastWith(H, t, k) == k \in Creators(H, t) /\ \A j \in Creators(H, t) : j <= k

\* What is left of the outputs of a transaction.
LEMMA LeftFacts ==
  ASSUME NEW H \in Seq(Event), NEW k \in 1 .. Len(H)
  PROVE  /\ Left(H, k) \in Seq(Value)
         /\ \A n \in Place : Val(Left(H, k), n) =
              IF Gone(H, k, n) THEN Spent ELSE Val(H[k].tx.vout, n)
<1>1. H[k] \in Event
  OBVIOUS
<1>2. H[k].tx.vout \in Seq(Nat)
  BY <1>1, TxFacts DEF Event
<1> DEFINE v == H[k].tx.vout
           w == [n \in 1 .. Len(v) |-> IF Gone(H, k, n) THEN Spent ELSE v[n]]
<1>3. Left(H, k) = w
  BY DEF Left, Gone
<1> HIDE DEF v
<1>4. v \in Seq(Nat)
  BY <1>2 DEF v
<1>5. \A n \in 1 .. Len(v) : (IF Gone(H, k, n) THEN Spent ELSE v[n]) \in Value
  BY <1>4 DEF Value
<1>6. w \in Seq(Value) /\ Len(w) = Len(v)
  BY <1>4, <1>5
<1>7. \A n \in Place : Val(w, n) = IF Gone(H, k, n) THEN Spent ELSE Val(v, n)
  BY <1>4, <1>6 DEF Val, Place
<1> HIDE DEF w
<1> QED
  BY <1>3, <1>6, <1>7 DEF v

\* A transaction with hash t, if there is one, has a last one.
LEMMA LastExists ==
  ASSUME NEW H \in Seq(Event), NEW t
  PROVE  /\ Creators(H, t) # {} => LastWith(H, t, Max(Creators(H, t)))
         /\ \A k : LastWith(H, t, k) => k \in 1 .. Len(H) /\ H[k].tx.hash = t /\ Max(Creators(H, t)) = k
<1>1. Len(H) \in Nat /\ Creators(H, t) \in SUBSET Nat /\ \A x \in Creators(H, t) : x <= Len(H)
  BY DEF Creators
<1>2. Creators(H, t) # {} => LastWith(H, t, Max(Creators(H, t)))
  BY <1>1, MaxNat DEF LastWith
<1>3. ASSUME NEW k, LastWith(H, t, k)
      PROVE  k \in 1 .. Len(H) /\ H[k].tx.hash = t /\ Max(Creators(H, t)) = k
  <2>1. k \in Creators(H, t) /\ \A j \in Creators(H, t) : j <= k
    BY <1>3 DEF LastWith
  <2>2. Max(Creators(H, t)) \in Creators(H, t) /\ \A j \in Creators(H, t) : Max(Creators(H, t)) >= j
    BY <1>2, <2>1, <1>1, MaxNat
  <2>3. k \in Nat /\ Max(Creators(H, t)) \in Nat
    BY <1>1, <2>1, <2>2
  <2>4. Max(Creators(H, t)) = k
    BY <2>1, <2>2, <2>3
  <2> QED
    BY <2>1, <2>4 DEF Creators
<1> QED
  BY <1>2, <1>3

\* The coins of a transaction without outputs.
LEMMA NoCoinsFacts == NoCoins \in Coin /\ NoCoins.vout = <<>>
<1>1. NoCoins.vout = <<>> /\ <<>> \in Seq(Nat \cup {Spent}) /\ Trim(<<>>)
  BY DEF NoCoins, Trim
<1>2. NoCoins \in CoinsSet
  BY <1>1 DEF NoCoins, CoinsSet
<1> QED
  BY <1>1, <1>2 DEF Coin

\* The coins of a history, by what they show.
LEMMA UnspentFacts ==
  ASSUME NEW H \in Seq(Event), NEW t \in TxId
  PROVE  /\ Unspent(H)[t] \in Coin
         /\ Creators(H, t) = {} => Unspent(H)[t] = NoCoins
         /\ Unspent(H)[t].vout = <<>> => Unspent(H)[t] = NoCoins
         /\ Unspent(H)[t].vout # <<>> => Unspent(H)[t].nHeight # 0 /\ Creators(H, t) # {}
         /\ \A k : LastWith(H, t, k) =>
              /\ \A n \in Place : Val(Unspent(H)[t].vout, n) = Val(Left(H, k), n)
              /\ Unspent(H)[t].vout # <<>> => /\ Unspent(H)[t].nHeight = H[k].nHeight
                                              /\ Unspent(H)[t].fCoinBase = IsCoinBase(H[k].tx)
<1> DEFINE k == Max(Creators(H, t))
           c == Unspent(H)[t]
           v == Cleanup(Left(H, k))
<1>1. c = IF Creators(H, t) = {} \/ v = <<>> THEN NoCoins
          ELSE [fCoinBase |-> IsCoinBase(H[k].tx), nHeight |-> H[k].nHeight, vout |-> v]
  BY DEF Unspent
<1> HIDE DEF c, v
<1>2. CASE Creators(H, t) = {}
  <2>1. c = NoCoins /\ \A j : ~LastWith(H, t, j)
    BY <1>1, <1>2 DEF LastWith
  <2> QED
    BY <2>1, <1>2, NoCoinsFacts DEF c
<1>3. CASE Creators(H, t) # {}
  <2>1. LastWith(H, t, k)
    BY <1>3, LastExists
  <2>2. k \in 1 .. Len(H) /\ \A j : LastWith(H, t, j) => j = k
    BY <2>1, LastExists
  <2> HIDE DEF k
  <2>3. H[k] \in Event
    BY <2>2
  <2>4. H[k].nHeight \in Nat \ {0} /\ IsCoinBase(H[k].tx) \in BOOLEAN
    BY <2>3 DEF Event, IsCoinBase
  <2>5. /\ Left(H, k) \in Seq(Value) /\ v \in Seq(Value) /\ Trim(v)
        /\ \A n \in Place : Val(v, n) = Val(Left(H, k), n)
    BY <2>2, LeftFacts, CleanupFacts DEF v
  <2>6. CASE v = <<>>
    <3>1. c = NoCoins /\ c.vout = v
      BY <1>1, <2>6, NoCoinsFacts
    <3> QED
      BY <3>1, <2>2, <2>5, <2>6, NoCoinsFacts DEF c
  <2>7. CASE v # <<>>
    <3>1. c = [fCoinBase |-> IsCoinBase(H[k].tx), nHeight |-> H[k].nHeight, vout |-> v]
      BY <1>1, <1>3, <2>7
    <3>2. /\ c \in CoinsSet /\ c.vout = v
          /\ c.nHeight = H[k].nHeight /\ c.fCoinBase = IsCoinBase(H[k].tx)
      BY <3>1, <2>4, <2>5 DEF CoinsSet, Value
    <3>3. c \in Coin
      BY <3>2, <2>5 DEF Coin
    <3> QED
      BY <3>2, <3>3, <1>3, <2>2, <2>4, <2>5, <2>7 DEF c
  <2> QED
    BY <2>6, <2>7
<1> QED
  BY <1>2, <1>3

\* The coins of a history are well formed, and no pruned entry is left.
LEMMA UnspentType ==
  ASSUME NEW H \in Seq(Event)
  PROVE  /\ Unspent(H) \in CoinMap
         /\ \A t \in TxId : Unspent(H)[t].vout # <<>> => Unspent(H)[t].nHeight # 0
  BY UnspentFacts DEF CoinMap, Unspent

\* One more transaction does to the coins what UpdateCoins does.
LEMMA UnspentStep ==
  ASSUME NEW H \in Seq(Event), NEW e \in Event
  PROVE  /\ Append(H, e) \in Seq(Event)
         /\ Same(UpdateCoins(Unspent(H), e.tx, e.nHeight).coins, Unspent(Append(H, e)))
<1> DEFINE G == Append(H, e)
           m == Len(H) + 1
           tx == e.tx
           C == Unspent(H)
           s == Spending(C, tx.vin)[Len(tx.vin)].coins
           D == UpdateCoins(C, tx, e.nHeight).coins
<1>1. /\ G \in Seq(Event) /\ Len(G) = m /\ Len(H) \in Nat /\ G[m] = e
      /\ \A i \in 1 .. Len(H) : G[i] = H[i]
  OBVIOUS
<1>2. tx \in Transactions /\ e.nHeight \in Nat /\ e.nHeight # 0
  BY DEF Event
<1>3. /\ tx.hash \in TxId /\ tx.vin \in Seq(OutPoints) /\ tx.vout \in Seq(Nat) /\ tx.vout # <<>>
      /\ CoinsOf(tx, e.nHeight) \in Coin /\ CoinsOf(tx, e.nHeight).vout = tx.vout
      /\ CoinsOf(tx, e.nHeight).nHeight = e.nHeight
      /\ CoinsOf(tx, e.nHeight).fCoinBase = IsCoinBase(tx)
  BY <1>2, TxFacts
<1>4. C \in CoinMap
  BY UnspentType
<1>5. D = [s EXCEPT ![tx.hash] = CoinsOf(tx, e.nHeight)] /\ D \in CoinMap
  BY <1>2, <1>4, UpdateCoinsFacts
<1>6. /\ s \in CoinMap
      /\ \A t \in TxId : /\ s[t].nHeight = C[t].nHeight /\ s[t].fCoinBase = C[t].fCoinBase
                         /\ \A n \in Place : Val(s[t].vout, n) =
                              IF Hit(tx.vin, Len(tx.vin), t, n) THEN Spent ELSE Val(C[t].vout, n)
  <2>1. Len(tx.vin) \in 0 .. Len(tx.vin)
    BY <1>3
  <2> QED
    BY <2>1, <1>3, <1>4, SpendingCoins
<1>7. \A t, n : Spends(tx, t, n) <=> Hit(tx.vin, Len(tx.vin), t, n)
  BY DEF Spends, Hit
<1> HIDE DEF G, C, s, D, tx
<1>8. ASSUME NEW t \in TxId PROVE Like(D[t], Unspent(G)[t])
  <2>0. D[t] \in Coin /\ Unspent(G)[t] \in Coin /\ C[t] \in Coin /\ s[t] \in Coin
    BY <1>1, <1>4, <1>5, <1>6, UnspentFacts DEF CoinMap
  <2>1. CASE t = tx.hash
    <3>1. LastWith(G, t, m)
      BY <2>1, <1>1 DEF LastWith, Creators, tx
    <3>2. m \in 1 .. Len(G) /\ G[m].tx = tx /\ G[m].nHeight = e.nHeight
      BY <1>1 DEF tx
    <3>3. \A n : ~Gone(G, m, n)
      BY <1>1 DEF Gone
    <3>4. \A n \in Place : Val(Unspent(G)[t].vout, n) = Val(tx.vout, n)
      BY <3>1, <3>2, <3>3, <1>1, LeftFacts, UnspentFacts
    <3>5. D[t] = CoinsOf(tx, e.nHeight)
      BY <2>1, <1>5, <1>6 DEF CoinMap
    <3>6. \A n \in Place : Val(D[t].vout, n) = Val(Unspent(G)[t].vout, n)
      BY <3>4, <3>5, <1>3
    <3>7. Unspent(G)[t].vout # <<>> /\ D[t].vout # <<>>
      <4>1. Val(tx.vout, 1) # Spent /\ 1 \in Place
        BY <1>3 DEF Val, Place, Spent
      <4>2. Val(Unspent(G)[t].vout, 1) # Spent /\ Val(D[t].vout, 1) # Spent
        BY <4>1, <3>4, <3>6
      <4> QED
        BY <4>2 DEF Val
    <3>8. Unspent(G)[t].nHeight = e.nHeight /\ Unspent(G)[t].fCoinBase = IsCoinBase(tx)
      BY <3>1, <3>2, <3>7, <1>1, UnspentFacts
    <3>9. D[t].nHeight = Unspent(G)[t].nHeight /\ D[t].fCoinBase = Unspent(G)[t].fCoinBase
      BY <3>5, <3>8, <1>3
    <3> QED
      BY <2>0, <3>6, <3>9, LikeByVal
  <2>2. CASE t # tx.hash
    <3>1. D[t] = s[t]
      BY <2>2, <1>5, <1>6 DEF CoinMap
    <3>2. Creators(G, t) = Creators(H, t)
      <4>1. ASSUME NEW i \in 1 .. m, G[i].tx.hash = t PROVE i \in 1 .. Len(H)
        BY <4>1, <1>1, <2>2 DEF tx
      <4> QED
        BY <4>1, <1>1 DEF Creators
    <3>3. CASE Creators(H, t) = {}
      <4>1. C[t] = NoCoins /\ Unspent(G)[t] = NoCoins
        BY <3>2, <3>3, <1>1, UnspentFacts DEF C
      <4>2. \A n \in Place : Val(C[t].vout, n) = Spent
        BY <4>1, NoCoinsFacts DEF Val
      <4>3. \A n \in Place : Val(s[t].vout, n) = Spent
        BY <4>2, <1>6
      <4>4. s[t].vout = <<>>
        BY <4>3, <2>0, PrunedEmpty
      <4> QED
        BY <4>1, <4>4, <3>1, NoCoinsFacts DEF Like
    <3>4. CASE Creators(H, t) # {}
      <4>1. PICK k : LastWith(H, t, k)
        BY <3>4, LastExists
      <4>2. LastWith(G, t, k)
        BY <4>1, <3>2 DEF LastWith
      <4>3. k \in 1 .. Len(H) /\ H[k].tx.hash = t /\ k \in 1 .. Len(G) /\ G[k] = H[k]
        <5>1. k \in 1 .. Len(H) /\ H[k].tx.hash = t
          BY <4>1, LastExists
        <5> QED
          BY <5>1, <1>1
      <4>4. ASSUME NEW n \in Place PROVE Gone(G, k, n) <=> Gone(H, k, n) \/ Spends(tx, t, n)
        <5>1. \A j \in k + 1 .. m : j \in k + 1 .. Len(H) \/ j = m
          BY <4>3, <1>1
        <5>2. k + 1 .. Len(H) \subseteq k + 1 .. m /\ m \in k + 1 .. m
              /\ \A j \in k + 1 .. Len(H) : G[j] = H[j]
          BY <4>3, <1>1
        <5> QED
          BY <5>1, <5>2, <4>3, <1>1 DEF Gone, tx
      <4>5. \A n \in Place : /\ Val(C[t].vout, n) = IF Gone(H, k, n) THEN Spent ELSE Val(H[k].tx.vout, n)
                             /\ Val(Unspent(G)[t].vout, n) =
                                  IF Gone(G, k, n) THEN Spent ELSE Val(H[k].tx.vout, n)
        BY <4>1, <4>2, <4>3, <1>1, LeftFacts, UnspentFacts DEF C
      <4>6. \A n \in Place : Val(s[t].vout, n) = Val(Unspent(G)[t].vout, n)
        BY <4>4, <4>5, <1>6, <1>7
      <4>7. ASSUME s[t].vout # <<>>
            PROVE  s[t].nHeight = Unspent(G)[t].nHeight /\ s[t].fCoinBase = Unspent(G)[t].fCoinBase
        <5>1. PICK n \in Place : Val(s[t].vout, n) # Spent
          BY <4>7, <2>0, PrunedEmpty
        <5>2. Val(C[t].vout, n) # Spent /\ Val(Unspent(G)[t].vout, n) # Spent
          BY <5>1, <4>6, <1>6
        <5>3. C[t].vout # <<>> /\ Unspent(G)[t].vout # <<>>
          BY <5>2 DEF Val
        <5>4. C[t].nHeight = H[k].nHeight /\ C[t].fCoinBase = IsCoinBase(H[k].tx)
          BY <5>3, <4>1, UnspentFacts DEF C
        <5>5. Unspent(G)[t].nHeight = H[k].nHeight /\ Unspent(G)[t].fCoinBase = IsCoinBase(H[k].tx)
          BY <5>3, <4>2, <4>3, <1>1, UnspentFacts
        <5> QED
          BY <5>4, <5>5, <1>6
      <4> QED
        BY <3>1, <4>6, <4>7, <2>0, LikeByVal
    <3> QED
      BY <3>3, <3>4
  <2> QED
    BY <2>1, <2>2
<1> QED
  BY <1>1, <1>8 DEF Same, G, D, C, tx

\* The history H and the first k transactions of a block on top of it.
After(H, vtx, h, k) ==
  [i \in 1 .. Len(H) + k |-> IF i <= Len(H) THEN H[i] ELSE [tx |-> vtx[i - Len(H)], nHeight |-> h]]

\* It grows by one transaction at a time.
LEMMA AfterFacts ==
  ASSUME NEW H \in Seq(Event), NEW vtx, CheckBlock(vtx), NEW h \in Nat \ {0}
  PROVE  /\ After(H, vtx, h, 0) = H
         /\ \A k \in 0 .. Len(vtx) : After(H, vtx, h, k) \in Seq(Event)
         /\ \A k \in 1 .. Len(vtx) :
              /\ [tx |-> vtx[k], nHeight |-> h] \in Event
              /\ After(H, vtx, h, k) = Append(After(H, vtx, h, k - 1), [tx |-> vtx[k], nHeight |-> h])
         /\ After(H, vtx, h, Len(vtx)) =
              H \o [i \in 1 .. Len(vtx) |-> [tx |-> vtx[i], nHeight |-> h]]
<1>1. Len(vtx) \in Nat /\ Len(H) \in Nat /\ \A i \in 1 .. Len(vtx) : vtx[i] \in Transactions
  BY VtxFacts
<1>2. \A i \in 1 .. Len(vtx) : [tx |-> vtx[i], nHeight |-> h] \in Event
  BY <1>1 DEF Event
<1> DEFINE e(i) == [tx |-> vtx[i], nHeight |-> h]
           A(k) == [i \in 1 .. Len(H) + k |-> IF i <= Len(H) THEN H[i] ELSE e(i - Len(H))]
<1>3. \A k : After(H, vtx, h, k) = A(k)
  BY DEF After
<1>e. \A i \in 1 .. Len(vtx) : e(i) \in Event
  BY <1>2
<1> HIDE DEF e
<1>4. ASSUME NEW k \in 0 .. Len(vtx) PROVE A(k) \in Seq(Event) /\ Len(A(k)) = Len(H) + k
  <2>1. Len(H) + k \in Nat
    BY <1>1
  <2>2. ASSUME NEW i \in 1 .. Len(H) + k
        PROVE  (IF i <= Len(H) THEN H[i] ELSE e(i - Len(H))) \in Event
    <3>1. CASE i <= Len(H)
      BY <3>1, <1>1
    <3>2. CASE ~(i <= Len(H))
      <4>1. i - Len(H) \in 1 .. Len(vtx)
        BY <3>2, <1>1
      <4> QED
        BY <3>2, <4>1, <1>e
    <3> QED
      BY <3>1, <3>2
  <2> QED
    BY <2>1, <2>2
<1>5. A(0) = H
  BY <1>1
<1>6. ASSUME NEW k \in 1 .. Len(vtx) PROVE A(k) = Append(A(k - 1), e(k))
  <2>1. k - 1 \in 0 .. Len(vtx) /\ k \in 0 .. Len(vtx) /\ Len(H) + k = Len(H) + (k - 1) + 1
        /\ Len(H) + k \in Nat
    BY <1>1
  <2>2. A(k - 1) \in Seq(Event) /\ Len(A(k - 1)) = Len(H) + (k - 1)
    BY <2>1, <1>4
  <2>3. A(k) \in Seq(Event) /\ Len(A(k)) = Len(H) + k
    BY <2>1, <1>4
  <2>4. e(k) \in Event
    BY <1>e
  <2>5. ASSUME NEW i \in 1 .. Len(H) + k PROVE A(k)[i] = Append(A(k - 1), e(k))[i]
    <3>1. CASE i = Len(H) + k
      <4>1. ~(i <= Len(H)) /\ i - Len(H) = k
        BY <3>1, <1>1
      <4>2. A(k)[i] = e(k)
        BY <4>1
      <4>3. i = Len(A(k - 1)) + 1
        BY <3>1, <2>1, <2>2
      <4> HIDE DEF A
      <4> QED
        BY <4>2, <4>3, <2>2, <2>4
    <3>2. CASE i \in 1 .. Len(H) + (k - 1)
      <4>1. A(k)[i] = A(k - 1)[i]
        BY <3>2
      <4> HIDE DEF A
      <4> QED
        BY <4>1, <3>2, <2>2, <2>4
    <3> QED
      BY <3>1, <3>2, <2>1, <1>1
  <2> HIDE DEF A
  <2>6. Append(A(k - 1), e(k)) \in Seq(Event) /\ Len(Append(A(k - 1), e(k))) = Len(H) + k
    BY <2>1, <2>2, <2>4
  <2> QED
    BY <2>3, <2>5, <2>6
<1>7. A(Len(vtx)) = H \o [i \in 1 .. Len(vtx) |-> e(i)]
  <2> DEFINE E == [i \in 1 .. Len(vtx) |-> e(i)]
             n == Len(vtx)
  <2>1. E \in Seq(Event) /\ Len(E) = n /\ n \in Nat
    BY <1>1, <1>e
  <2>2. \A i \in 1 .. n : E[i] = e(i)
    OBVIOUS
  <2> HIDE DEF E, n
  <2>3. A(n) \in Seq(Event) /\ Len(A(n)) = Len(H) + n
    BY <1>4, <1>1 DEF n
  <2>4. H \o E \in Seq(Event) /\ Len(H \o E) = Len(H) + n
    BY <2>1
  <2>5. ASSUME NEW i \in 1 .. Len(H) + n PROVE A(n)[i] = (H \o E)[i]
    <3>1. CASE i <= Len(H)
      <4>1. (H \o E)[i] = H[i]
        BY <3>1, <1>1, <2>1
      <4> QED
        BY <4>1, <3>1
    <3>2. CASE ~(i <= Len(H))
      <4>1. i - Len(H) \in 1 .. n
        BY <3>2, <1>1, <2>1
      <4>2. (H \o E)[i] = E[i - Len(H)]
        BY <3>2, <1>1, <2>1
      <4>3. A(n)[i] = e(i - Len(H))
        BY <3>2
      <4> QED
        BY <4>1, <4>2, <4>3, <2>2
    <3> QED
      BY <3>1, <3>2
  <2> HIDE DEF A
  <2>6. A(n) = H \o E
    BY <2>3, <2>4, <2>5
  <2> QED
    BY <2>6 DEF E, n
<1> HIDE DEF A
<1>8. ASSUME NEW k \in 0 .. Len(vtx) PROVE After(H, vtx, h, k) \in Seq(Event)
  BY <1>3, <1>4
<1>9. ASSUME NEW k \in 1 .. Len(vtx)
      PROVE  After(H, vtx, h, k) = Append(After(H, vtx, h, k - 1), [tx |-> vtx[k], nHeight |-> h])
  BY <1>3, <1>6 DEF e
<1>10. After(H, vtx, h, Len(vtx)) = H \o [i \in 1 .. Len(vtx) |-> [tx |-> vtx[i], nHeight |-> h]]
  BY <1>3, <1>7, Zenon DEF e
<1>11. After(H, vtx, h, 0) = H
  BY <1>3, <1>5
<1> QED
  BY <1>2, <1>8, <1>9, <1>10, <1>11

\* As long as no rule is violated, ConnectBlock makes the coins of a history
\* the coins of the history with the transactions so far.
LEMMA ConnectingHistory ==
  ASSUME NEW H \in Seq(Event), NEW vtx, CheckBlock(vtx), NEW h \in Nat \ {0},
         NEW C \in CoinMap, Same(C, Unspent(H))
  PROVE  \A k \in 0 .. Len(vtx) : Connecting(C, vtx, h)[k].ok =>
           Same(Connecting(C, vtx, h)[k].coins, Unspent(After(H, vtx, h, k)))
<1> DEFINE f == Connecting(C, vtx, h)
           U(k) == Unspent(After(H, vtx, h, k))
           S == {k \in 0 .. Len(vtx) : f[k].ok => Same(f[k].coins, U(k))}
<1>a. Len(vtx) \in Nat /\ \A i \in 1 .. Len(vtx) : vtx[i] \in Transactions
  BY VtxFacts
<1>b. f[0] = [ok |-> TRUE, coins |-> C, undo |-> <<>>, nFees |-> 0]
  BY <1>a, ConnectingStep
<1>d. \A k \in 0 .. Len(vtx) :
         /\ f[k].coins \in CoinMap
         /\ k # 0 /\ f[k].ok => /\ f[k - 1].ok /\ Ready(f[k - 1].coins, vtx[k].vin)
                                /\ f[k].coins = UpdateCoins(f[k - 1].coins, vtx[k], h).coins
  BY ConnectingCoins
<1> HIDE DEF f
<1>1. 0 \in S
  <2>1. f[0].coins = C
    BY <1>b
  <2>2. U(0) = Unspent(H)
    BY AfterFacts
  <2> QED
    BY <2>1, <2>2, <1>a
<1>2. ASSUME NEW k \in Nat, k + 1 <= Len(vtx), k \in S PROVE k + 1 \in S
  <2> DEFINE tx == vtx[k + 1]
             e == [tx |-> tx, nHeight |-> h]
  <2>0. /\ k + 1 \in 1 .. Len(vtx) /\ k + 1 - 1 = k /\ k + 1 \in 0 .. Len(vtx)
        /\ k \in 0 .. Len(vtx) /\ k + 1 # 0
    BY <1>2, <1>a
  <2>1. SUFFICES ASSUME f[k + 1].ok PROVE Same(f[k + 1].coins, U(k + 1))
    BY <2>0
  <2>2. /\ f[k].ok /\ Ready(f[k].coins, tx.vin) /\ f[k].coins \in CoinMap
        /\ f[k + 1].coins = UpdateCoins(f[k].coins, tx, h).coins /\ tx \in Transactions
    BY <2>0, <2>1, <1>d, <1>a
  <2>3. Same(f[k].coins, U(k))
    BY <1>2, <2>2
  <2>4. /\ After(H, vtx, h, k) \in Seq(Event) /\ e \in Event
        /\ After(H, vtx, h, k + 1) = Append(After(H, vtx, h, k), e)
    <3>1. After(H, vtx, h, k) \in Seq(Event)
      BY <2>0, AfterFacts
    <3>2. \A j \in 1 .. Len(vtx) :
            /\ [tx |-> vtx[j], nHeight |-> h] \in Event
            /\ After(H, vtx, h, j) = Append(After(H, vtx, h, j - 1), [tx |-> vtx[j], nHeight |-> h])
      BY AfterFacts, ZenonT(40)
    <3> QED
      BY <2>0, <3>1, <3>2
  <2> HIDE DEF tx
  <2>5. U(k) \in CoinMap
    BY <2>4, UnspentType
  <2>6. Same(UpdateCoins(f[k].coins, tx, h).coins, UpdateCoins(U(k), tx, h).coins)
    BY <2>2, <2>3, <2>5, UpdateCoinsSame
  <2>7. Same(UpdateCoins(U(k), tx, h).coins, U(k + 1))
    <3>1. e.tx = tx /\ e.nHeight = h
      OBVIOUS
    <3> HIDE DEF e
    <3>2. Same(UpdateCoins(U(k), e.tx, e.nHeight).coins, Unspent(Append(After(H, vtx, h, k), e)))
      BY <2>4, UnspentStep
    <3> QED
      BY <3>1, <3>2, <2>4
  <2> QED
    BY <2>2, <2>6, <2>7, SameTrans
<1> HIDE DEF S
<1>3. \A k \in 0 .. Len(vtx) : k \in S
  BY <1>a, <1>1, <1>2, InductTo
<1> QED
  BY <1>3 DEF S, f

\* Every block but the genesis block has passed CheckBlock and has a height.
LEMMA BlockFacts ==
  ASSUME NEW b \in Block \ {Genesis}
  PROVE  CheckBlock(Vtx[b]) /\ Height[b] \in Nat \ {0} /\ Prev[b] \in Block
<1>1. CheckBlock(Vtx[b])
  BY VtxAssumption
<1>2. Prev[b] \in Block /\ Height[b] \in Nat /\ Height[b] = Height[Prev[b]] + 1
  BY TreeAssumption
<1>3. Height[Prev[b]] \in Nat
  BY <1>2, HeightFacts
<1> QED
  BY <1>1, <1>2, <1>3

\* Histories are sequences of transactions, and grow by blocks.
LEMMA HistoryFacts ==
  /\ History[NULL] = <<>> /\ History[Genesis] = <<>>
  /\ \A b \in Node : History[b] \in Seq(Event)
  /\ \A b \in Block \ {Genesis} : History[b] = After(History[Prev[b]], Vtx[b], Height[b], Len(Vtx[b]))
<1>1. History[NULL] = <<>>
  BY HistoryDef DEF Node
<1>2. \A b \in Block : History[b] = History[Prev[b]] \o Events(b)
  BY HistoryDef, HeightFacts DEF Node
<1>3. History[Genesis] = <<>>
  <2>1. Genesis \in Block /\ Prev[Genesis] = NULL
    BY TreeAssumption
  <2>2. Events(Genesis) = <<>>
    BY DEF Events
  <2>3. History[Genesis] = <<>> \o <<>>
    BY <2>1, <2>2, <1>1, <1>2
  <2> QED
    BY <2>3
<1>4. ASSUME NEW b \in Block \ {Genesis}, History[Prev[b]] \in Seq(Event)
      PROVE  /\ History[b] = After(History[Prev[b]], Vtx[b], Height[b], Len(Vtx[b]))
             /\ History[b] \in Seq(Event)
  <2>1. CheckBlock(Vtx[b]) /\ Height[b] \in Nat \ {0}
    BY BlockFacts
  <2>2. Events(b) = [i \in 1 .. Len(Vtx[b]) |-> [tx |-> Vtx[b][i], nHeight |-> Height[b]]]
    BY DEF Events
  <2>3. After(History[Prev[b]], Vtx[b], Height[b], Len(Vtx[b])) = History[Prev[b]] \o Events(b)
    <3>1. After(History[Prev[b]], Vtx[b], Height[b], Len(Vtx[b])) =
            History[Prev[b]] \o [i \in 1 .. Len(Vtx[b]) |-> [tx |-> Vtx[b][i], nHeight |-> Height[b]]]
      BY <2>1, <1>4, AfterFacts, Zenon
    <3> QED
      BY <3>1, <2>2, Zenon
  <2>4. Len(Vtx[b]) \in 0 .. Len(Vtx[b])
    BY <2>1, VtxFacts
  <2>5. After(History[Prev[b]], Vtx[b], Height[b], Len(Vtx[b])) \in Seq(Event)
    BY <2>1, <2>4, <1>4, AfterFacts
  <2> QED
    BY <2>3, <2>5, <1>2
<1> DEFINE S == {b \in Node : History[b] \in Seq(Event)}
<1>5. NULL \in S
  <2>1. History[NULL] \in Seq(Event)
    BY <1>1
  <2> QED
    BY <2>1 DEF Node
<1>6. ASSUME NEW b \in Block, Prev[b] \in S PROVE b \in S
  <2>1. History[b] \in Seq(Event)
    <3>1. CASE b = Genesis
      BY <3>1, <1>3
    <3>2. CASE b # Genesis
      BY <3>2, <1>4, <1>6
    <3> QED
      BY <3>1, <3>2
  <2> QED
    BY <2>1 DEF Node
<1> HIDE DEF S
<1>7. \A b \in Node : b \in S
  BY <1>5, <1>6, TreeInduct
<1>8. \A b \in Node : History[b] \in Seq(Event)
  BY <1>7 DEF S
<1>9. \A b \in Block \ {Genesis} : Prev[b] \in Node
  BY BlockFacts DEF Node
<1> QED
  BY <1>1, <1>3, <1>4, <1>8, <1>9

\* The coins of a chain are well formed, with no pruned entry left.
LEMMA UnspentInFacts ==
  /\ \A b \in Node : /\ UnspentIn[b] = Unspent(History[b]) /\ UnspentIn[b] \in CoinMap
                     /\ \A t \in TxId : /\ UnspentIn[b][t].vout # <<>> => UnspentIn[b][t].nHeight # 0
                                        /\ UnspentIn[b][t].vout = <<>> => UnspentIn[b][t] = NoCoins
  /\ UnspentIn[Genesis] = UnspentIn[NULL]
  /\ \A t \in TxId : UnspentIn[NULL][t] = NoCoins
<1>1. \A b \in Node : UnspentIn[b] = Unspent(History[b])
  BY DEF UnspentIn, Node
<1>2. \A b \in Node : History[b] \in Seq(Event)
  BY HistoryFacts
<1>3. UnspentIn[Genesis] = UnspentIn[NULL]
  <2>1. Genesis \in Node /\ NULL \in Node
    BY TreeAssumption DEF Node
  <2> QED
    BY <2>1, <1>1, HistoryFacts
<1>4. ASSUME NEW t \in TxId PROVE UnspentIn[NULL][t] = NoCoins
  <2>1. NULL \in Node /\ History[NULL] = <<>>
    BY HistoryFacts DEF Node
  <2>2. Creators(<<>>, t) = {} /\ <<>> \in Seq(Event)
    BY DEF Creators
  <2>3. Unspent(<<>>)[t] = NoCoins
    BY <2>2, UnspentFacts
  <2> QED
    BY <2>1, <2>3, <1>1
<1>5. ASSUME NEW b \in Node
      PROVE  /\ UnspentIn[b] \in CoinMap
             /\ \A t \in TxId : /\ UnspentIn[b][t].vout # <<>> => UnspentIn[b][t].nHeight # 0
                                /\ UnspentIn[b][t].vout = <<>> => UnspentIn[b][t] = NoCoins
  BY <1>1, <1>2, UnspentType, UnspentFacts
<1> QED
  BY <1>1, <1>3, <1>4, <1>5

-----------------------------------------------------------------------------
(***************************************************************************)
(* Whole blocks                                                            *)
(***************************************************************************)

\* What ConnectBlock returns.
LEMMA ConnectedFacts ==
  ASSUME NEW b \in Block, NEW C \in CoinMap
  PROVE  /\ Connected(C, b).coins \in CoinMap /\ Connected(C, b).ok \in BOOLEAN
         /\ b = Genesis => Connected(C, b).ok /\ Connected(C, b).coins = C
         /\ b # Genesis =>
              LET s == Connecting(C, Vtx[b], Height[b])[Len(Vtx[b])] IN
              /\ Connected(C, b).coins = s.coins /\ Connected(C, b).undo = s.undo
              /\ Connected(C, b).ok <=>
                   s.ok /\ GetValueOut(Vtx[b][1]) <= GetBlockValue(Height[b], s.nFees)
<1>1. CASE b = Genesis
  <2>1. Connected(C, b) = [ok |-> TRUE, coins |-> C, undo |-> <<>>, nFees |-> 0]
    BY <1>1 DEF Connected
  <2> QED
    BY <2>1, <1>1
<1>2. CASE b # Genesis
  <2> DEFINE s == Connecting(C, Vtx[b], Height[b])[Len(Vtx[b])]
             fits == GetValueOut(Vtx[b][1]) <= GetBlockValue(Height[b], s.nFees)
             r == Connected(C, b)
  <2>1. CheckBlock(Vtx[b]) /\ Height[b] \in Nat
    BY <1>2, BlockFacts
  <2>2. Len(Vtx[b]) \in 0 .. Len(Vtx[b])
    BY <2>1, VtxFacts
  <2>3. Shape(s) /\ s.ok \in BOOLEAN /\ s.coins \in CoinMap
    BY <2>1, <2>2, ConnectingCoins
  <2>4. r = [s EXCEPT !.ok = s.ok /\ fits]
    BY <1>2 DEF Connected
  <2> HIDE DEF s, fits, r
  <2>5. r = [ok |-> (s.ok /\ fits), coins |-> s.coins, undo |-> s.undo, nFees |-> s.nFees]
    BY <2>3, <2>4 DEF Shape
  <2>6. r.coins = s.coins /\ r.undo = s.undo /\ r.ok \in BOOLEAN /\ (r.ok <=> s.ok /\ fits)
    BY <2>5
  <2> QED
    BY <2>3, <2>6, <1>2 DEF s, fits, r
<1> QED
  BY <1>1, <1>2

\* ConnectBlock gives coins that are the same the same verdict and undo data.
LEMMA ConnectedSame ==
  ASSUME NEW b \in Block, NEW C \in CoinMap, NEW D \in CoinMap, Same(C, D)
  PROVE  /\ Connected(C, b).ok <=> Connected(D, b).ok
         /\ Connected(C, b).undo = Connected(D, b).undo
         /\ Same(Connected(C, b).coins, Connected(D, b).coins)
<1>1. CASE b = Genesis
  <2>1. /\ Connected(C, b) = [ok |-> TRUE, coins |-> C, undo |-> <<>>, nFees |-> 0]
        /\ Connected(D, b) = [ok |-> TRUE, coins |-> D, undo |-> <<>>, nFees |-> 0]
    BY <1>1 DEF Connected
  <2> QED
    BY <2>1
<1>2. CASE b # Genesis
  <2> DEFINE f == Connecting(C, Vtx[b], Height[b])[Len(Vtx[b])]
             g == Connecting(D, Vtx[b], Height[b])[Len(Vtx[b])]
  <2>1. CheckBlock(Vtx[b]) /\ Height[b] \in Nat
    BY <1>2, BlockFacts
  <2>2. Len(Vtx[b]) \in 0 .. Len(Vtx[b])
    BY <2>1, VtxFacts
  <2>3. f.ok = g.ok /\ f.undo = g.undo /\ f.nFees = g.nFees /\ Same(f.coins, g.coins)
    BY <2>1, <2>2, ConnectingSame
  <2>4. /\ Connected(C, b).coins = f.coins /\ Connected(C, b).undo = f.undo
        /\ Connected(C, b).ok <=> f.ok /\ GetValueOut(Vtx[b][1]) <= GetBlockValue(Height[b], f.nFees)
    BY <1>2, ConnectedFacts
  <2>5. /\ Connected(D, b).coins = g.coins /\ Connected(D, b).undo = g.undo
        /\ Connected(D, b).ok <=> g.ok /\ GetValueOut(Vtx[b][1]) <= GetBlockValue(Height[b], g.nFees)
    BY <1>2, ConnectedFacts
  <2> HIDE DEF f, g
  <2> QED
    BY <2>3, <2>4, <2>5
<1> QED
  BY <1>1, <1>2

\* A block connected to the coins of its parent gives the coins of its chain.
LEMMA ConnectedHistory ==
  ASSUME NEW b \in Block, NEW C \in CoinMap, Same(C, UnspentIn[Prev[b]]), Connected(C, b).ok
  PROVE  Same(Connected(C, b).coins, UnspentIn[b])
<1>1. CASE b = Genesis
  <2>1. Connected(C, b).coins = C
    BY <1>1, ConnectedFacts
  <2>2. UnspentIn[b] = UnspentIn[Prev[b]]
    BY <1>1, UnspentInFacts, TreeAssumption
  <2> QED
    BY <2>1, <2>2
<1>2. CASE b # Genesis
  <2> DEFINE f == Connecting(C, Vtx[b], Height[b])[Len(Vtx[b])]
             H == History[Prev[b]]
  <2>1. CheckBlock(Vtx[b]) /\ Height[b] \in Nat \ {0} /\ Prev[b] \in Node /\ b \in Node
    BY <1>2, BlockFacts DEF Node
  <2>2. Len(Vtx[b]) \in 0 .. Len(Vtx[b])
    BY <2>1, VtxFacts
  <2>3. Connected(C, b).coins = f.coins /\ f.ok
    BY <1>2, ConnectedFacts
  <2>4. H \in Seq(Event) /\ Same(C, Unspent(H))
    BY <2>1, HistoryFacts, UnspentInFacts
  <2>5. Same(f.coins, Unspent(After(H, Vtx[b], Height[b], Len(Vtx[b]))))
    BY <2>1, <2>2, <2>3, <2>4, ConnectingHistory
  <2>6. UnspentIn[b] = Unspent(After(H, Vtx[b], Height[b], Len(Vtx[b])))
    BY <1>2, <2>1, HistoryFacts, UnspentInFacts
  <2> HIDE DEF f, H
  <2> QED
    BY <2>3, <2>5, <2>6
<1> QED
  BY <1>1, <1>2

\* Before a transaction of a block is connected, the coins with its hash are
\* pruned if they were before the block.
LEMMA ConnectingPruned ==
  ASSUME NEW C \in CoinMap, NEW vtx, CheckBlock(vtx), NEW h \in Nat,
         \A i \in 1 .. Len(vtx) : C[vtx[i].hash].vout = <<>>
  PROVE  \A k \in 0 .. Len(vtx) : \A i \in k + 1 .. Len(vtx) :
           Connecting(C, vtx, h)[k].ok => Connecting(C, vtx, h)[k].coins[vtx[i].hash].vout = <<>>
<1> DEFINE f == Connecting(C, vtx, h)
           P(k) == \A i \in k + 1 .. Len(vtx) : f[k].ok => f[k].coins[vtx[i].hash].vout = <<>>
           S == {k \in 0 .. Len(vtx) : P(k)}
<1>a. /\ Len(vtx) \in Nat /\ \A i \in 1 .. Len(vtx) : vtx[i] \in Transactions
      /\ \A i, j \in 1 .. Len(vtx) : i # j => vtx[i].hash # vtx[j].hash
  BY VtxFacts
<1>b. f[0] = [ok |-> TRUE, coins |-> C, undo |-> <<>>, nFees |-> 0]
  BY <1>a, ConnectingStep
<1>d. \A k \in 0 .. Len(vtx) :
         /\ f[k].coins \in CoinMap
         /\ k # 0 /\ f[k].ok => /\ f[k - 1].ok
                                /\ f[k].coins = UpdateCoins(f[k - 1].coins, vtx[k], h).coins
  BY ConnectingCoins
<1> HIDE DEF f
<1>1. 0 \in S
  <2>1. f[0].coins = C
    BY <1>b
  <2> QED
    BY <2>1, <1>a
<1>2. ASSUME NEW k \in Nat, k + 1 <= Len(vtx), k \in S PROVE k + 1 \in S
  <2> DEFINE tx == vtx[k + 1]
  <2>0. /\ k + 1 \in 1 .. Len(vtx) /\ k + 1 - 1 = k /\ k + 1 \in 0 .. Len(vtx)
        /\ k \in 0 .. Len(vtx) /\ k + 1 # 0
    BY <1>2, <1>a
  <2>1. ASSUME NEW i \in k + 1 + 1 .. Len(vtx), f[k + 1].ok
        PROVE  f[k + 1].coins[vtx[i].hash].vout = <<>>
    <3> DEFINE t == vtx[i].hash
               s == Spending(f[k].coins, tx.vin)[Len(tx.vin)].coins
    <3>1. i \in k + 1 .. Len(vtx) /\ i \in 1 .. Len(vtx) /\ i # k + 1
      BY <2>0, <1>a
    <3>2. f[k].ok /\ f[k].coins \in CoinMap /\ f[k + 1].coins = UpdateCoins(f[k].coins, tx, h).coins
      BY <2>0, <2>1, <1>d
    <3>3. tx \in Transactions /\ vtx[i] \in Transactions /\ tx.hash # t
      BY <3>1, <2>0, <1>a
    <3>4. t \in TxId /\ tx.vin \in Seq(OutPoints)
      BY <3>3, TxFacts
    <3>5. f[k].coins[t].vout = <<>>
      BY <3>1, <3>2, <1>2
    <3> HIDE DEF t, tx
    <3>6. f[k + 1].coins = [s EXCEPT ![tx.hash] = CoinsOf(tx, h)]
      BY <3>2, <3>3, UpdateCoinsFacts
    <3>7. /\ s \in CoinMap
          /\ \A n \in Place : Val(s[t].vout, n) =
               IF Hit(tx.vin, Len(tx.vin), t, n) THEN Spent ELSE Val(f[k].coins[t].vout, n)
      <4>1. Len(tx.vin) \in 0 .. Len(tx.vin)
        BY <3>4
      <4> QED
        BY <4>1, <3>2, <3>4, SpendingCoins
    <3> HIDE DEF s
    <3>8. \A n \in Place : Val(s[t].vout, n) = Spent
      BY <3>5, <3>7 DEF Val
    <3>9. s[t] \in Coin
      BY <3>4, <3>7 DEF CoinMap
    <3>10. s[t].vout = <<>>
      BY <3>8, <3>9, PrunedEmpty
    <3>11. f[k + 1].coins[t] = s[t]
      BY <3>3, <3>4, <3>6, <3>7 DEF CoinMap
    <3> QED
      BY <3>10, <3>11 DEF t
  <2> QED
    BY <2>0, <2>1
<1> HIDE DEF S
<1>3. \A k \in 0 .. Len(vtx) : k \in S
  BY <1>a, <1>1, <1>2, InductTo
<1> QED
  BY <1>3 DEF S, f

\* The chain of a block, by places: each block follows its parent.
LEMMA ChainLinks ==
  ASSUME NEW b \in Block
  PROVE  \A i \in 1 .. Len(ChainOf[b]) :
           /\ ChainOf[b][i] \in Chain(b) /\ Height[ChainOf[b][i]] = i - 1
           /\ i # 1 => Prev[ChainOf[b][i]] = ChainOf[b][i - 1]
           /\ i = Len(ChainOf[b]) => ChainOf[b][i] = b
<1> DEFINE P(c) == \A i \in 1 .. Len(ChainOf[c]) :
                     /\ Height[ChainOf[c][i]] = i - 1
                     /\ i # 1 => Prev[ChainOf[c][i]] = ChainOf[c][i - 1]
                     /\ i = Len(ChainOf[c]) => ChainOf[c][i] = c
           S == {c \in Node : P(c)}
<1>1. NULL \in S
  <2>1. Len(ChainOf[NULL]) = 0
    BY ChainFacts
  <2> QED
    BY <2>1 DEF Node
<1>2. ASSUME NEW c \in Block, Prev[c] \in S PROVE c \in S
  <2> DEFINE p == ChainOf[Prev[c]]
             q == ChainOf[c]
  <2>1. p \in Seq(Block) /\ q = Append(p, c) /\ q \in Seq(Block) /\ Len(q) = Height[c] + 1
    BY ChainFacts
  <2>2. P(Prev[c])
    BY <1>2
  <2>p. \A i \in 1 .. Len(p) : /\ Height[p[i]] = i - 1
                               /\ i # 1 => Prev[p[i]] = p[i - 1]
                               /\ i = Len(p) => p[i] = Prev[c]
    BY <2>2
  <2> HIDE DEF p, q, P
  <2>3. Len(q) = Len(p) + 1 /\ q[Len(q)] = c /\ \A i \in 1 .. Len(p) : q[i] = p[i]
    BY <2>1
  <2>4. Len(p) \in Nat /\ Height[c] = Len(p)
    BY <2>1, <2>3, HeightFacts
  <2>5. ASSUME NEW i \in 1 .. Len(q)
        PROVE  /\ Height[q[i]] = i - 1
               /\ i # 1 => Prev[q[i]] = q[i - 1]
               /\ i = Len(q) => q[i] = c
    <3>1. CASE i = Len(q)
      <4>1. q[i] = c /\ Height[c] = i - 1
        BY <3>1, <2>3, <2>4
      <4>2. i # 1 => Len(p) \in 1 .. Len(p) /\ i - 1 = Len(p) /\ p[Len(p)] = Prev[c]
        BY <3>1, <2>3, <2>4, <2>p
      <4> QED
        BY <4>1, <4>2, <2>3
    <3>2. CASE i \in 1 .. Len(p)
      <4>1. i # 1 => i - 1 \in 1 .. Len(p)
        BY <3>2
      <4> QED
        BY <3>2, <4>1, <2>3, <2>4, <2>p
    <3> QED
      BY <3>1, <3>2, <2>3, <2>4
  <2>6. P(c)
    BY <2>5 DEF P, q
  <2> QED
    BY <2>6 DEF Node
<1> HIDE DEF S
<1>3. b \in S
  BY <1>1, <1>2, TreeInduct DEF Node
<1>4. \A i \in 1 .. Len(ChainOf[b]) : ChainOf[b][i] \in Chain(b)
  <2>1. DOMAIN ChainOf[b] = 1 .. Len(ChainOf[b])
    BY ChainFacts
  <2> QED
    BY <2>1 DEF Chain, Range
<1> QED
  BY <1>3, <1>4 DEF S

-----------------------------------------------------------------------------
(***************************************************************************)
(* Sums over finite sets                                                   *)
(***************************************************************************)

\* A set with n + 1 elements has an element, and n without it.
LEMMA RemoveOne ==
  ASSUME NEW s, IsFiniteSet(s), NEW n \in Nat, Cardinality(s) = n + 1
  PROVE  s # {} /\ \A x \in s : IsFiniteSet(s \ {x}) /\ Cardinality(s \ {x}) = n
<1>1. Cardinality({}) = 0
  BY FS_EmptySet
<1>2. n + 1 # 0
  OBVIOUS
<1>3. s # {}
  BY <1>1, <1>2
<1>4. ASSUME NEW x \in s PROVE IsFiniteSet(s \ {x}) /\ Cardinality(s \ {x}) = n
  <2>1. IsFiniteSet(s \ {x}) /\ Cardinality(s \ {x}) = Cardinality(s) - 1
    BY FS_RemoveElement
  <2>2. n + 1 - 1 = n
    OBVIOUS
  <2> QED
    BY <2>1, <2>2
<1> QED
  BY <1>3, <1>4

\* A set with the empty set and, with each subset of S, the subset with one more
\* element, has all subsets.
LEMMA SetInduct ==
  ASSUME NEW S, IsFiniteSet(S), NEW T, {} \in T,
         \A s \in SUBSET S : \A x \in S \ s : s \in T => s \cup {x} \in T
  PROVE  \A s \in SUBSET S : s \in T
<1> DEFINE P == {n \in Nat : \A s \in SUBSET S : Cardinality(s) = n => s \in T}
<1>0. \A s \in SUBSET S : IsFiniteSet(s) /\ Cardinality(s) \in Nat
  BY FS_Subset, FS_CardinalityType
<1>1. 0 \in P
  <2>1. \A s \in SUBSET S : Cardinality(s) = 0 => s = {}
    BY <1>0, FS_EmptySet
  <2> QED
    BY <2>1
<1>2. ASSUME NEW n \in Nat, n \in P PROVE n + 1 \in P
  <2>1. ASSUME NEW s \in SUBSET S, Cardinality(s) = n + 1 PROVE s \in T
    <3>1. s # {} /\ \A x \in s : Cardinality(s \ {x}) = n
      BY <1>0, <2>1, RemoveOne
    <3>2. PICK x \in s : TRUE
      BY <3>1
    <3> DEFINE r == s \ {x}
    <3>4. Cardinality(r) = n
      BY <3>1
    <3>6. r \in SUBSET S /\ x \in S \ r /\ s = r \cup {x}
      OBVIOUS
    <3> HIDE DEF r
    <3>7. r \in T
      BY <1>2, <3>4, <3>6
    <3> QED
      BY <3>6, <3>7
  <2> QED
    BY <2>1
<1> HIDE DEF P
<1>3. \A n \in Nat : n \in P
  BY <1>1, <1>2, Induct
<1> QED
  BY <1>0, <1>3 DEF P

\* The element that the sum over s takes first.
First(s) == CHOOSE x \in s : TRUE

\* g is the sum of f over each of the sets of D.
SumsOn(g, f, D) == g = [s \in D |-> IF s = {} THEN 0 ELSE f[First(s)] + g[s \ {First(s)}]]

\* g is the sum of f over each subset of S.
Sums(g, f, S) == SumsOn(g, f, SUBSET S)

\* The sums over the subsets of a finite set are defined.
LEMMA SumsExist ==
  ASSUME NEW f, NEW S, IsFiniteSet(S)
  PROVE  \E g : SumsOn(g, f, SUBSET S)
<1> DEFINE D(n) == {s \in SUBSET S : Cardinality(s) <= n}
           P == {n \in Nat : \E g : SumsOn(g, f, D(n))}
<1>0. \A s \in SUBSET S : IsFiniteSet(s) /\ Cardinality(s) \in Nat /\ Cardinality(s) <= Cardinality(S)
  BY FS_Subset, FS_CardinalityType
<1>1. 0 \in P
  <2>1. D(0) = {{}}
    <3>1. \A s \in SUBSET S : Cardinality(s) <= 0 <=> s = {}
      BY <1>0, FS_EmptySet
    <3> QED
      BY <3>1
  <2>2. SumsOn([s \in {{}} |-> 0], f, {{}})
    BY DEF SumsOn
  <2> QED
    BY <2>1, <2>2
<1>2. ASSUME NEW n \in Nat, n \in P PROVE n + 1 \in P
  <2>1. PICK g : SumsOn(g, f, D(n))
    BY <1>2
  <2> DEFINE h == [s \in D(n + 1) |-> IF s = {} THEN 0 ELSE f[First(s)] + g[s \ {First(s)}]]
  <2>2. D(n) \subseteq D(n + 1)
    BY <1>0
  <2>3. \A s \in D(n) : h[s] = g[s]
    BY <2>1, <2>2 DEF SumsOn
  <2>4. ASSUME NEW s \in D(n + 1), s # {} PROVE s \ {First(s)} \in D(n)
    <3>1. First(s) \in s
      BY <2>4 DEF First
    <3>2. Cardinality(s \ {First(s)}) = Cardinality(s) - 1
      BY <1>0, <3>1, FS_RemoveElement
    <3>3. Cardinality(s) \in Nat /\ Cardinality(s) <= n + 1
      BY <1>0
    <3> QED
      BY <3>2, <3>3
  <2>5. ASSUME NEW s \in D(n + 1)
        PROVE  h[s] = IF s = {} THEN 0 ELSE f[First(s)] + h[s \ {First(s)}]
    <3>1. s # {} => h[s \ {First(s)}] = g[s \ {First(s)}]
      BY <2>3, <2>4
    <3> QED
      BY <3>1
  <2>6. h = [s \in D(n + 1) |-> h[s]]
    OBVIOUS
  <2> HIDE DEF h, D
  <2>7. SumsOn(h, f, D(n + 1))
    BY <2>5, <2>6 DEF SumsOn
  <2> QED
    BY <2>7
<1> HIDE DEF P
<1>3. Cardinality(S) \in P
  BY <1>1, <1>2, Induct, FS_CardinalityType
<1>4. D(Cardinality(S)) = SUBSET S
  BY <1>0
<1> QED
  BY <1>3, <1>4 DEF P

\* Two of them agree where both are defined.
LEMMA SumsAgree ==
  ASSUME NEW f, NEW S, NEW R, NEW g, NEW h, IsFiniteSet(R), R \subseteq S,
         Sums(g, f, S), Sums(h, f, R)
  PROVE  g[R] = h[R]
<1> DEFINE P == {n \in Nat : \A s \in SUBSET R : Cardinality(s) = n => g[s] = h[s]}
<1>0. \A s \in SUBSET R : IsFiniteSet(s) /\ Cardinality(s) \in Nat
  BY FS_Subset, FS_CardinalityType
<1>a. \A s \in SUBSET S : g[s] = IF s = {} THEN 0 ELSE f[First(s)] + g[s \ {First(s)}]
  BY DEF Sums, SumsOn
<1>b. \A s \in SUBSET R : h[s] = IF s = {} THEN 0 ELSE f[First(s)] + h[s \ {First(s)}]
  BY DEF Sums, SumsOn
<1>1. 0 \in P
  <2>1. \A s \in SUBSET R : Cardinality(s) = 0 => s = {}
    BY <1>0, FS_EmptySet
  <2> QED
    BY <2>1, <1>a, <1>b
<1>2. ASSUME NEW n \in Nat, n \in P PROVE n + 1 \in P
  <2>1. ASSUME NEW s \in SUBSET R, Cardinality(s) = n + 1 PROVE g[s] = h[s]
    <3>1. s # {} /\ \A x \in s : Cardinality(s \ {x}) = n
      BY <1>0, <2>1, RemoveOne
    <3>2. First(s) \in s
      BY <3>1 DEF First
    <3> DEFINE r == s \ {First(s)}
    <3>4. Cardinality(r) = n
      BY <3>1, <3>2
    <3>6. g[r] = h[r]
      BY <1>2, <3>4
    <3> QED
      BY <3>1, <3>6, <1>a, <1>b
  <2> QED
    BY <2>1
<1> HIDE DEF P
<1>3. Cardinality(R) \in P
  BY <1>1, <1>2, Induct, FS_CardinalityType
<1> QED
  BY <1>3 DEF P

\* The sum over the empty set, and over a set by its first element.
LEMMA SumFirst ==
  ASSUME NEW f, NEW S, IsFiniteSet(S)
  PROVE  SumFunctionOnSet(f, S) =
           IF S = {} THEN 0 ELSE f[First(S)] + SumFunctionOnSet(f, S \ {First(S)})
<1> DEFINE It(T) == CHOOSE g : Sums(g, f, T)
           rest == S \ {First(S)}
<1>1. ASSUME NEW Q PROVE SumFunctionOnSet(f, Q) = It(Q)[Q]
  BY Zenon DEF SumFunctionOnSet, FoldFunctionOnSet, MapThenFoldSet, Sums, SumsOn, First
<1>2. IsFiniteSet(rest)
  BY FS_RemoveElement
<1>3. Sums(It(S), f, S)
  BY SumsExist, Zenon DEF Sums
<1>4. Sums(It(rest), f, rest)
  BY <1>2, SumsExist, Zenon DEF Sums
<1>5. SumFunctionOnSet(f, S) = It(S)[S] /\ SumFunctionOnSet(f, rest) = It(rest)[rest]
  BY <1>1
<1>9. rest \subseteq S
  OBVIOUS
<1>8. rest = S \ {First(S)}
  OBVIOUS
<1> HIDE DEF It, rest
<1>6. It(S)[rest] = It(rest)[rest]
  BY <1>2, <1>3, <1>4, <1>9, SumsAgree
<1>7. It(S)[S] = IF S = {} THEN 0 ELSE f[First(S)] + It(S)[S \ {First(S)}]
  BY <1>3 DEF Sums, SumsOn
<1> QED
  BY <1>5, <1>6, <1>7, <1>8

\* The sum of numbers is a number.
LEMMA SumInt ==
  ASSUME NEW S, IsFiniteSet(S), NEW f, \A x \in S : f[x] \in Int
  PROVE  \A s \in SUBSET S : SumFunctionOnSet(f, s) \in Int
<1> DEFINE sum(s) == SumFunctionOnSet(f, s)
           P == {n \in Nat : \A s \in SUBSET S : Cardinality(s) = n => sum(s) \in Int}
<1>0. \A s \in SUBSET S : IsFiniteSet(s) /\ Cardinality(s) \in Nat
  BY FS_Subset, FS_CardinalityType
<1>a. \A s \in SUBSET S : sum(s) = IF s = {} THEN 0 ELSE f[First(s)] + sum(s \ {First(s)})
  BY <1>0, SumFirst, Zenon
<1> HIDE DEF sum
<1>1. 0 \in P
  <2>1. \A s \in SUBSET S : Cardinality(s) = 0 => s = {}
    BY <1>0, FS_EmptySet
  <2>2. sum({}) = 0
    BY <1>a
  <2> QED
    BY <2>1, <2>2
<1>2. ASSUME NEW n \in Nat, n \in P PROVE n + 1 \in P
  <2>1. ASSUME NEW s \in SUBSET S, Cardinality(s) = n + 1 PROVE sum(s) \in Int
    <3>1. s # {} /\ \A x \in s : Cardinality(s \ {x}) = n
      BY <1>0, <2>1, RemoveOne
    <3>2. First(s) \in s
      BY <3>1 DEF First
    <3>3. sum(s \ {First(s)}) \in Int
      BY <1>2, <3>1, <3>2
    <3> QED
      BY <1>a, <3>1, <3>2, <3>3
  <2> QED
    BY <2>1
<1> HIDE DEF P
<1>3. \A n \in Nat : n \in P
  BY <1>1, <1>2, Induct
<1> QED
  BY <1>0, <1>3 DEF P, sum

\* Any element can be taken first.
LEMMA SumStep ==
  ASSUME NEW S, IsFiniteSet(S), NEW f, \A x \in S : f[x] \in Int
  PROVE  \A s \in SUBSET S : \A x \in s : SumFunctionOnSet(f, s) = f[x] + SumFunctionOnSet(f, s \ {x})
<1> DEFINE sum(s) == SumFunctionOnSet(f, s)
           Q(s) == \A x \in s : sum(s) = f[x] + sum(s \ {x})
           P == {n \in Nat : \A s \in SUBSET S : Cardinality(s) = n => Q(s)}
<1>0. \A s \in SUBSET S : IsFiniteSet(s) /\ Cardinality(s) \in Nat
  BY FS_Subset, FS_CardinalityType
<1>a. \A s \in SUBSET S : sum(s) = IF s = {} THEN 0 ELSE f[First(s)] + sum(s \ {First(s)})
  BY <1>0, SumFirst, Zenon
<1>b. \A s \in SUBSET S : sum(s) \in Int
  BY SumInt
<1> HIDE DEF sum
<1>1. 0 \in P
  <2>1. \A s \in SUBSET S : Cardinality(s) = 0 => s = {}
    BY <1>0, FS_EmptySet
  <2>2. Q({})
    OBVIOUS
  <2> HIDE DEF Q
  <2> QED
    BY <2>1, <2>2
<1>2. ASSUME NEW n \in Nat, n \in P PROVE n + 1 \in P
  <2>1. ASSUME NEW s \in SUBSET S, Cardinality(s) = n + 1, NEW x \in s
        PROVE  sum(s) = f[x] + sum(s \ {x})
    <3> DEFINE c == First(s)
    <3>1. s # {} /\ \A y \in s : Cardinality(s \ {y}) = n
      BY <1>0, <2>1, RemoveOne
    <3>2. c \in s
      BY <3>1 DEF First
    <3>3. \A y \in s : Q(s \ {y})
      BY <1>2, <3>1
    <3>4. sum(s) = f[c] + sum(s \ {c})
      BY <1>a, <3>1
    <3> HIDE DEF c
    <3>5. CASE x = c
      BY <3>5, <3>4
    <3>6. CASE x # c
      <4> DEFINE r == (s \ {c}) \ {x}
      <4>1. r = (s \ {x}) \ {c} /\ x \in s \ {c} /\ c \in s \ {x} /\ r \in SUBSET S
        BY <3>2, <3>6
      <4>2. sum(s \ {c}) = f[x] + sum(r)
        BY <3>2, <3>3, <4>1
      <4>3. sum(s \ {x}) = f[c] + sum(r)
        BY <3>3, <4>1
      <4>4. f[x] \in Int /\ f[c] \in Int /\ sum(r) \in Int
        BY <1>b, <3>2, <4>1
      <4> HIDE DEF r
      <4> QED
        BY <3>4, <4>2, <4>3, <4>4
    <3> QED
      BY <3>5, <3>6
  <2> QED
    BY <2>1
<1> HIDE DEF P
<1>3. \A n \in Nat : n \in P
  BY <1>1, <1>2, Induct
<1> QED
  BY <1>0, <1>3 DEF P, Q, sum

\* Terms that are not larger make a sum that is not larger.
LEMMA SumMono ==
  ASSUME NEW S, NEW f, NEW g, IsFiniteSet(S),
         \A x \in S : f[x] \in Int /\ g[x] \in Int /\ f[x] <= g[x]
  PROVE  SumFunctionOnSet(f, S) <= SumFunctionOnSet(g, S)
<1> DEFINE sf(s) == SumFunctionOnSet(f, s)
           sg(s) == SumFunctionOnSet(g, s)
           T == {s \in SUBSET S : sf(s) <= sg(s)}
<1>1. ASSUME NEW s \in SUBSET S, NEW x \in s
      PROVE  sf(s) = f[x] + sf(s \ {x}) /\ sg(s) = g[x] + sg(s \ {x})
  BY SumStep
<1>2. \A s \in SUBSET S : sf(s) \in Int /\ sg(s) \in Int
  BY SumInt
<1>3. sf({}) = 0 /\ sg({}) = 0
  BY SumFirst, FS_EmptySet
<1> HIDE DEF sf, sg
<1>4. {} \in T
  BY <1>3
<1>5. ASSUME NEW s \in SUBSET S, NEW x \in S \ s, s \in T PROVE s \cup {x} \in T
  <2>1. s \cup {x} \in SUBSET S /\ x \in s \cup {x} /\ (s \cup {x}) \ {x} = s
    OBVIOUS
  <2>2. sf(s \cup {x}) = f[x] + sf(s) /\ sg(s \cup {x}) = g[x] + sg(s)
    BY <1>1, <2>1
  <2>3. f[x] \in Int /\ g[x] \in Int /\ f[x] <= g[x] /\ sf(s) \in Int /\ sg(s) \in Int /\ sf(s) <= sg(s)
    BY <1>2, <1>5
  <2>4. sf(s \cup {x}) <= sg(s \cup {x})
    BY <2>2, <2>3
  <2> QED
    BY <2>1, <2>4
<1> HIDE DEF T
<1>6. S \in T
  BY <1>4, <1>5, SetInduct
<1> QED
  BY <1>6 DEF T, sf, sg

\* Equal terms make equal sums.
LEMMA SumEqual ==
  ASSUME NEW S, NEW f, NEW g, IsFiniteSet(S), \A x \in S : f[x] \in Int /\ g[x] = f[x]
  PROVE  SumFunctionOnSet(g, S) = SumFunctionOnSet(f, S)
<1>1. \A x \in S : f[x] \in Int /\ g[x] \in Int /\ f[x] <= g[x] /\ g[x] <= f[x]
  OBVIOUS
<1>2. SumFunctionOnSet(f, S) <= SumFunctionOnSet(g, S) /\ SumFunctionOnSet(g, S) <= SumFunctionOnSet(f, S)
  BY <1>1, SumMono
<1>3. SumFunctionOnSet(f, S) \in Int /\ SumFunctionOnSet(g, S) \in Int
  BY <1>1, SumInt
<1> QED
  BY <1>2, <1>3

\* Terms that are 0 can be left out.
LEMMA SumPad ==
  ASSUME NEW S, NEW R, NEW f, IsFiniteSet(S), R \subseteq S, \A x \in S : f[x] \in Int,
         \A x \in S \ R : f[x] = 0
  PROVE  SumFunctionOnSet(f, S) = SumFunctionOnSet(f, R)
<1> DEFINE sf(s) == SumFunctionOnSet(f, s)
           T == {s \in SUBSET (S \ R) : sf(R \cup s) = sf(R)}
<1>1. ASSUME NEW s \in SUBSET S, NEW x \in s PROVE sf(s) = f[x] + sf(s \ {x})
  BY SumStep
<1>2. \A s \in SUBSET S : sf(s) \in Int
  BY SumInt
<1> HIDE DEF sf
<1>3. {} \in T
  <2>1. R \cup {} = R
    OBVIOUS
  <2> QED
    BY <2>1
<1>4. ASSUME NEW s \in SUBSET (S \ R), NEW x \in (S \ R) \ s, s \in T PROVE s \cup {x} \in T
  <2>1. R \cup (s \cup {x}) \in SUBSET S /\ x \in R \cup (s \cup {x})
        /\ (R \cup (s \cup {x})) \ {x} = R \cup s /\ R \cup s \in SUBSET S
    OBVIOUS
  <2>2. sf(R \cup (s \cup {x})) = f[x] + sf(R \cup s)
    BY <1>1, <2>1
  <2>3. f[x] = 0 /\ sf(R \cup s) \in Int /\ sf(R \cup s) = sf(R)
    BY <1>2, <1>4, <2>1
  <2>4. sf(R \cup (s \cup {x})) = sf(R)
    BY <2>2, <2>3
  <2> QED
    BY <2>4
<1>5. IsFiniteSet(S \ R)
  BY FS_Difference
<1>6. S \ R \in T
  <2> DEFINE Q == S \ R
  <2>1. IsFiniteSet(Q) /\ \A s \in SUBSET Q : \A x \in Q \ s : s \in T => s \cup {x} \in T
    BY <1>4, <1>5
  <2> HIDE DEF T, Q
  <2>2. Q \in T
    BY <1>3, <2>1, SetInduct
  <2> QED
    BY <2>2 DEF Q
<1>7. R \cup (S \ R) = S
  OBVIOUS
<1> QED
  BY <1>6, <1>7 DEF sf

\* One term is changed.
LEMMA SumChange ==
  ASSUME NEW S, NEW f, NEW g, NEW x \in S, IsFiniteSet(S),
         \A y \in S : f[y] \in Int /\ g[y] \in Int, \A y \in S \ {x} : g[y] = f[y]
  PROVE  SumFunctionOnSet(g, S) = SumFunctionOnSet(f, S) - f[x] + g[x]
<1> DEFINE sf(s) == SumFunctionOnSet(f, s)
           sg(s) == SumFunctionOnSet(g, s)
           r == S \ {x}
<1>1. sf(S) = f[x] + sf(r) /\ sg(S) = g[x] + sg(r)
  BY SumStep
<1>2. IsFiniteSet(r) /\ \A y \in r : f[y] \in Int /\ g[y] = f[y]
  BY FS_RemoveElement
<1>3. sg(r) = sf(r) /\ sf(r) \in Int
  <2> HIDE DEF r
  <2> QED
    BY <1>2, SumEqual, SumInt
<1>4. f[x] \in Int /\ g[x] \in Int
  OBVIOUS
<1> HIDE DEF sf, sg, r
<1>5. sg(S) = sf(S) - f[x] + g[x]
  BY <1>1, <1>3, <1>4
<1> QED
  BY <1>5 DEF sf, sg

\* The sum over an interval ends with its last term.
LEMMA SumTo ==
  ASSUME NEW f, NEW k \in Nat, \A i \in 1 .. k + 1 : f[i] \in Int
  PROVE  /\ SumFunctionOnSet(f, 1 .. k + 1) = SumFunctionOnSet(f, 1 .. k) + f[k + 1]
         /\ SumFunctionOnSet(f, 1 .. k) \in Int
<1>1. IsFiniteSet(1 .. k + 1) /\ k + 1 \in 1 .. k + 1
  BY FS_Interval
<1>2. (1 .. k + 1) \ {k + 1} = 1 .. k /\ 1 .. k \in SUBSET (1 .. k + 1)
  OBVIOUS
<1>3. SumFunctionOnSet(f, 1 .. k + 1) = f[k + 1] + SumFunctionOnSet(f, (1 .. k + 1) \ {k + 1})
  BY <1>1, SumStep
<1>4. SumFunctionOnSet(f, 1 .. k) \in Int
  BY <1>1, <1>2, SumInt
<1>5. SumFunctionOnSet(f, 1 .. k + 1) = f[k + 1] + SumFunctionOnSet(f, 1 .. k)
  BY <1>2, <1>3
<1>6. f[k + 1] \in Int
  OBVIOUS
<1> QED
  BY <1>4, <1>5, <1>6

\* When the last transaction of a block is accepted, all are.
LEMMA ConnectingOk ==
  ASSUME NEW C \in CoinMap, NEW vtx, CheckBlock(vtx), NEW h \in Nat,
         Connecting(C, vtx, h)[Len(vtx)].ok
  PROVE  \A k \in 0 .. Len(vtx) : Connecting(C, vtx, h)[k].ok
<1> DEFINE m == Len(vtx)
           f == Connecting(C, vtx, h)
<1>2. m \in Nat
  BY VtxFacts
<1>6. f[m].ok
  OBVIOUS
<1>7. \A k \in 0 .. m : k # 0 /\ f[k].ok => f[k - 1].ok
  BY ConnectingCoins
<1>8. \A k \in 0 .. m : f[k].ok
  <2> DEFINE S == {k \in Nat : f[m - k].ok}
  <2> HIDE DEF f, m
  <2>0. m - 0 = m
    BY <1>2
  <2>1. 0 \in S
    BY <1>6, <2>0
  <2>2. ASSUME NEW k \in Nat, k + 1 <= m, k \in S PROVE k + 1 \in S
    <3>1. m - k \in 0 .. m /\ m - k # 0 /\ m - k - 1 = m - (k + 1)
      BY <2>2, <1>2
    <3>2. f[m - k].ok
      BY <2>2
    <3>3. f[m - k - 1].ok
      BY <3>1, <3>2, <1>7
    <3> QED
      BY <3>1, <3>3
  <2> HIDE DEF S
  <2>3. \A k \in 0 .. m : k \in S
    BY <1>2, <2>1, <2>2, InductTo
  <2>4. ASSUME NEW k \in 0 .. m PROVE f[k].ok
    <3>1. m - k \in 0 .. m /\ m - (m - k) = k
      BY <1>2
    <3>2. m - k \in S
      BY <3>1, <2>3
    <3>3. f[m - (m - k)].ok
      BY <3>2 DEF S
    <3> QED
      BY <3>1, <3>3
  <2> QED
    BY <2>4
<1> QED
  BY <1>8

-----------------------------------------------------------------------------
(***************************************************************************)
(* Coins within those of the chain                                         *)
(***************************************************************************)

\* What is unspent in C is unspent in D, and has the same value there.
Within(C, D) == \A t \in TxId, n \in Place :
                  Val(C[t].vout, n) # Spent => Val(D[t].vout, n) = Val(C[t].vout, n)

\* Coins that are alike are within each other, and within is transitive.
LEMMA WithinSame ==
  ASSUME NEW C \in CoinMap, NEW D \in CoinMap, Same(C, D)
  PROVE  Within(C, D) /\ Within(D, C)
<1>1. ASSUME NEW t \in TxId, NEW n \in Place PROVE Val(C[t].vout, n) = Val(D[t].vout, n)
  <2>1. C[t] \in Coin /\ D[t] \in Coin /\ Like(C[t], D[t])
    BY DEF CoinMap, Same
  <2> QED
    BY <2>1, LikeFacts
<1> QED
  BY <1>1 DEF Within

\* Within is transitive.
LEMMA WithinTrans ==
  ASSUME NEW C, NEW D, NEW E, Within(C, D), Within(D, E)
  PROVE  Within(C, E)
  BY DEF Within

\* Inputs that are there in fewer coins are there, with the same values.
LEMMA WithinReady ==
  ASSUME NEW C \in CoinMap, NEW D \in CoinMap, Within(C, D), NEW tx \in Transactions,
         Ready(C, tx.vin)
  PROVE  Ready(D, tx.vin) /\ GetValueIn(C, tx) = GetValueIn(D, tx)
<1>1. tx.vin \in Seq(OutPoints)
  BY DEF Transactions
<1>2. ASSUME NEW i \in 1 .. Len(tx.vin)
      PROVE  /\ Val(D[tx.vin[i].hash].vout, tx.vin[i].n) # Spent
             /\ C[tx.vin[i].hash].vout[tx.vin[i].n] = D[tx.vin[i].hash].vout[tx.vin[i].n]
  <2> DEFINE t == tx.vin[i].hash
             n == tx.vin[i].n
  <2>1. tx.vin[i] \in OutPoints
    BY <1>1
  <2>2. t \in TxId /\ n \in Place
    BY <2>1 DEF OutPoints
  <2>3. Val(C[t].vout, n) # Spent
    BY DEF Ready
  <2> HIDE DEF t, n
  <2>4. Val(D[t].vout, n) # Spent /\ Val(C[t].vout, n) = Val(D[t].vout, n)
    BY <2>2, <2>3 DEF Within
  <2>5. Val(C[t].vout, n) = C[t].vout[n] /\ Val(D[t].vout, n) = D[t].vout[n]
    BY <2>3, <2>4 DEF Val
  <2> QED
    BY <2>4, <2>5 DEF t, n
<1>3. [i \in 1 .. Len(tx.vin) |-> C[tx.vin[i].hash].vout[tx.vin[i].n]]
      = [i \in 1 .. Len(tx.vin) |-> D[tx.vin[i].hash].vout[tx.vin[i].n]]
  BY <1>2
<1>4. GetValueIn(C, tx) = GetValueIn(D, tx)
  BY <1>3, Zenon DEF GetValueIn
<1> QED
  BY <1>2, <1>4 DEF Ready

\* The outputs after a transaction.
LEMMA UpdateValues ==
  ASSUME NEW C \in CoinMap, NEW tx \in Transactions, NEW h \in Nat, NEW t \in TxId, NEW n \in Place
  PROVE  Val(UpdateCoins(C, tx, h).coins[t].vout, n) =
           IF t = tx.hash THEN Val(tx.vout, n)
           ELSE IF Hit(tx.vin, Len(tx.vin), t, n) THEN Spent ELSE Val(C[t].vout, n)
<1> DEFINE D == Spending(C, tx.vin)[Len(tx.vin)].coins
           c == CoinsOf(tx, h)
<1>1. tx.hash \in TxId /\ tx.vin \in Seq(OutPoints) /\ c \in Coin /\ c.vout = tx.vout
  BY TxFacts
<1>2. /\ D \in CoinMap
      /\ Val(D[t].vout, n) = IF Hit(tx.vin, Len(tx.vin), t, n) THEN Spent ELSE Val(C[t].vout, n)
  <2>1. Len(tx.vin) \in 0 .. Len(tx.vin)
    BY <1>1
  <2> QED
    BY <1>1, <2>1, SpendingCoins
<1>3. UpdateCoins(C, tx, h).coins = [D EXCEPT ![tx.hash] = c]
  BY UpdateCoinsFacts
<1> HIDE DEF D, c
<1>4. UpdateCoins(C, tx, h).coins[t] = IF t = tx.hash THEN c ELSE D[t]
  BY <1>1, <1>2, <1>3 DEF CoinMap
<1> QED
  BY <1>1, <1>2, <1>4

\* A transaction keeps fewer coins fewer.
LEMMA UpdateWithin ==
  ASSUME NEW C \in CoinMap, NEW D \in CoinMap, Within(C, D), NEW tx \in Transactions, NEW h \in Nat
  PROVE  Within(UpdateCoins(C, tx, h).coins, UpdateCoins(D, tx, h).coins)
<1> SUFFICES ASSUME NEW t \in TxId, NEW n \in Place,
                    Val(UpdateCoins(C, tx, h).coins[t].vout, n) # Spent
             PROVE  Val(UpdateCoins(D, tx, h).coins[t].vout, n) = Val(UpdateCoins(C, tx, h).coins[t].vout, n)
  BY DEF Within
<1>1. Val(UpdateCoins(C, tx, h).coins[t].vout, n) =
           IF t = tx.hash THEN Val(tx.vout, n)
           ELSE IF Hit(tx.vin, Len(tx.vin), t, n) THEN Spent ELSE Val(C[t].vout, n)
  BY UpdateValues
<1>2. Val(UpdateCoins(D, tx, h).coins[t].vout, n) =
           IF t = tx.hash THEN Val(tx.vout, n)
           ELSE IF Hit(tx.vin, Len(tx.vin), t, n) THEN Spent ELSE Val(D[t].vout, n)
  BY UpdateValues
<1>3. Val(C[t].vout, n) # Spent => Val(D[t].vout, n) = Val(C[t].vout, n)
  BY DEF Within
<1> QED
  BY <1>1, <1>2, <1>3

\* The coins of the history after one transaction more of a block.
LEMMA AfterStep ==
  ASSUME NEW H \in Seq(Event), NEW vtx, CheckBlock(vtx), NEW h \in Nat \ {0},
         NEW k \in Nat, k + 1 \in 1 .. Len(vtx)
  PROVE  /\ Unspent(After(H, vtx, h, k)) \in CoinMap /\ Unspent(After(H, vtx, h, k + 1)) \in CoinMap
         /\ Same(UpdateCoins(Unspent(After(H, vtx, h, k)), vtx[k + 1], h).coins,
                 Unspent(After(H, vtx, h, k + 1)))
<1> DEFINE tx == vtx[k + 1]
           e == [tx |-> tx, nHeight |-> h]
           G == After(H, vtx, h, k)
<1>0. k + 1 - 1 = k /\ k \in 0 .. Len(vtx) /\ k + 1 \in 0 .. Len(vtx)
  BY VtxFacts
<1>1. G \in Seq(Event) /\ After(H, vtx, h, k + 1) \in Seq(Event)
  BY <1>0, AfterFacts
<1>2. \A j \in 1 .. Len(vtx) :
        /\ [tx |-> vtx[j], nHeight |-> h] \in Event
        /\ After(H, vtx, h, j) = Append(After(H, vtx, h, j - 1), [tx |-> vtx[j], nHeight |-> h])
  BY AfterFacts, ZenonT(40)
<1>3. e \in Event /\ After(H, vtx, h, k + 1) = Append(G, e)
  BY <1>0, <1>2
<1>4. e.tx = tx /\ e.nHeight = h
  OBVIOUS
<1> HIDE DEF e, G, tx
<1>5. Same(UpdateCoins(Unspent(G), e.tx, e.nHeight).coins, Unspent(Append(G, e)))
  BY <1>1, <1>3, UnspentStep
<1>6. Unspent(G) \in CoinMap /\ Unspent(After(H, vtx, h, k + 1)) \in CoinMap
  BY <1>1, UnspentType
<1> QED
  BY <1>3, <1>4, <1>5, <1>6 DEF G, tx

\* The coins while a block is connected stay within those of the chain.
LEMMA ConnectingWithin ==
  ASSUME NEW H \in Seq(Event), NEW vtx, CheckBlock(vtx), NEW h \in Nat \ {0},
         NEW C \in CoinMap, Within(C, Unspent(H))
  PROVE  \A k \in 0 .. Len(vtx) : Connecting(C, vtx, h)[k].ok =>
           Within(Connecting(C, vtx, h)[k].coins, Unspent(After(H, vtx, h, k)))
<1> DEFINE f == Connecting(C, vtx, h)
           U(k) == Unspent(After(H, vtx, h, k))
           S == {k \in 0 .. Len(vtx) : f[k].ok => Within(f[k].coins, U(k))}
<1>a. Len(vtx) \in Nat /\ \A i \in 1 .. Len(vtx) : vtx[i] \in Transactions
  BY VtxFacts
<1>b. f[0] = [ok |-> TRUE, coins |-> C, undo |-> <<>>, nFees |-> 0]
  BY <1>a, ConnectingStep
<1>d. \A k \in 0 .. Len(vtx) :
         /\ f[k].coins \in CoinMap
         /\ k # 0 /\ f[k].ok => /\ f[k - 1].ok
                                /\ f[k].coins = UpdateCoins(f[k - 1].coins, vtx[k], h).coins
  BY ConnectingCoins
<1> HIDE DEF f
<1>1. 0 \in S
  <2>1. f[0].coins = C
    BY <1>b
  <2>2. U(0) = Unspent(H)
    BY AfterFacts
  <2> QED
    BY <2>1, <2>2, <1>a
<1>2. ASSUME NEW k \in Nat, k + 1 <= Len(vtx), k \in S PROVE k + 1 \in S
  <2> DEFINE tx == vtx[k + 1]
  <2>0. /\ k + 1 \in 1 .. Len(vtx) /\ k + 1 - 1 = k /\ k + 1 \in 0 .. Len(vtx)
        /\ k \in 0 .. Len(vtx) /\ k + 1 # 0
    BY <1>2, <1>a
  <2>1. SUFFICES ASSUME f[k + 1].ok PROVE Within(f[k + 1].coins, U(k + 1))
    BY <2>0
  <2>2. /\ f[k].ok /\ f[k].coins \in CoinMap /\ f[k + 1].coins \in CoinMap
        /\ f[k + 1].coins = UpdateCoins(f[k].coins, tx, h).coins /\ tx \in Transactions
    BY <2>0, <2>1, <1>d, <1>a
  <2>3. Within(f[k].coins, U(k))
    BY <1>2, <2>2
  <2>4. /\ U(k) \in CoinMap /\ U(k + 1) \in CoinMap
        /\ Same(UpdateCoins(U(k), tx, h).coins, U(k + 1))
    BY <2>0, AfterStep
  <2> HIDE DEF tx, U
  <2>5. UpdateCoins(U(k), tx, h).coins \in CoinMap
    BY <2>2, <2>4, UpdateCoinsFacts
  <2>6. Within(UpdateCoins(U(k), tx, h).coins, U(k + 1))
    BY <2>4, <2>5, WithinSame
  <2>7. Within(f[k + 1].coins, UpdateCoins(U(k), tx, h).coins)
    BY <2>2, <2>3, <2>4, UpdateWithin
  <2> QED
    BY <2>6, <2>7, WithinTrans
<1> HIDE DEF S
<1>3. \A k \in 0 .. Len(vtx) : k \in S
  BY <1>a, <1>1, <1>2, InductTo
<1> QED
  BY <1>3 DEF S, f

\* What the undo data of a transaction puts back was there before it.
LEMMA UndoValues ==
  ASSUME NEW C \in CoinMap, NEW tx \in Transactions, NEW h \in Nat, Ready(C, tx.vin),
         NEW t \in TxId, NEW n \in Place, NEW v, PutBack(tx.vin, UpdateCoins(C, tx, h).undo, t, n, v)
  PROVE  v = Val(C[t].vout, n) /\ v # Spent
<1> DEFINE vin == tx.vin
           f == Spending(C, vin)
           m == Len(vin)
<1>0. tx.vin \in Seq(OutPoints)
  BY DEF Transactions
<1>1. vin \in Seq(OutPoints) /\ m \in Nat /\ Ready(C, vin)
  BY <1>0
<1>2. UpdateCoins(C, tx, h).undo = f[m].undo
  BY UpdateCoinsFacts
<1>3. PICK j \in 1 .. m : vin[j] = [hash |-> t, n |-> n] /\ v = UpdateCoins(C, tx, h).undo[j].txout
  BY DEF PutBack
<1>4. vin[j].hash = t /\ vin[j].n = n
  BY <1>3
<1> HIDE DEF vin, m
<1>5. f[m].undo[j] = SpendUndo(f[j - 1].coins[vin[j].hash], vin[j].n)
  <2>1. m \in 0 .. m
    BY <1>1
  <2> QED
    BY <1>1, <2>1, SpendingUndo DEF m
<1>6. /\ f[j - 1].coins[vin[j].hash] \in Coin
      /\ Val(f[j - 1].coins[vin[j].hash].vout, vin[j].n) # Spent
  BY <1>1, SpendingReady DEF m
<1>7. j - 1 \in 0 .. m
  BY <1>1
<1>8. Val(f[j - 1].coins[t].vout, n) = IF Hit(vin, j - 1, t, n) THEN Spent ELSE Val(C[t].vout, n)
  BY <1>1, <1>7, SpendingCoins DEF m
<1> HIDE DEF f
<1>9. SpendUndo(f[j - 1].coins[t], n).txout = Val(f[j - 1].coins[t].vout, n)
  BY <1>4, <1>6, SpendUndoFacts
<1> QED
  BY <1>2, <1>3, <1>4, <1>5, <1>6, <1>8, <1>9

\* A connected block leaves fewer coins than its chain if it met fewer.
LEMMA ConnectedWithin ==
  ASSUME NEW b \in Block, NEW C \in CoinMap, Within(C, UnspentIn[Prev[b]]), Connected(C, b).ok
  PROVE  Within(Connected(C, b).coins, UnspentIn[b])
<1>1. CASE b = Genesis
  <2>1. Connected(C, b).coins = C
    BY <1>1, ConnectedFacts
  <2>2. UnspentIn[b] = UnspentIn[Prev[b]]
    BY <1>1, UnspentInFacts, TreeAssumption
  <2> QED
    BY <2>1, <2>2
<1>2. CASE b # Genesis
  <2> DEFINE f == Connecting(C, Vtx[b], Height[b])[Len(Vtx[b])]
             H == History[Prev[b]]
  <2>1. CheckBlock(Vtx[b]) /\ Height[b] \in Nat \ {0} /\ Prev[b] \in Node /\ b \in Node
    BY <1>2, BlockFacts DEF Node
  <2>2. Len(Vtx[b]) \in 0 .. Len(Vtx[b])
    BY <2>1, VtxFacts
  <2>3. Connected(C, b).coins = f.coins /\ f.ok
    BY <1>2, ConnectedFacts
  <2>4. H \in Seq(Event) /\ Within(C, Unspent(H))
    BY <2>1, HistoryFacts, UnspentInFacts
  <2>5. Within(f.coins, Unspent(After(H, Vtx[b], Height[b], Len(Vtx[b]))))
    BY <2>1, <2>2, <2>3, <2>4, ConnectingWithin
  <2>6. UnspentIn[b] = Unspent(After(H, Vtx[b], Height[b], Len(Vtx[b])))
    BY <1>2, <2>1, HistoryFacts, UnspentInFacts
  <2> HIDE DEF f, H
  <2> QED
    BY <2>3, <2>5, <2>6
<1> QED
  BY <1>1, <1>2

\* A block was connected, with undo data u, on coins within those of its chain.
ConnectedOn(C, u, b) == /\ C \in CoinMap /\ Within(C, UnspentIn[Prev[b]])
                        /\ Connected(C, b).ok /\ u = Connected(C, b).undo
Honest(u, b) == \E C \in CoinMap : ConnectedOn(C, u, b)

\* The coins of the chain of b after the first k transactions of b.
Midway(b, k) == Unspent(After(History[Prev[b]], Vtx[b], Height[b], k))

\* What is known about each transaction of such a block.
LEMMA ConnectedOnFacts ==
  ASSUME NEW b \in Block \ {Genesis}, NEW C, NEW u, ConnectedOn(C, u, b), NEW i \in 1 .. Len(Vtx[b])
  PROVE  LET f == Connecting(C, Vtx[b], Height[b]) IN
         /\ Vtx[b][i] \in Transactions /\ (IsCoinBase(Vtx[b][i]) <=> i = 1) /\ Height[b] \in Nat \ {0}
         /\ f[i - 1].coins \in CoinMap /\ Ready(f[i - 1].coins, Vtx[b][i].vin)
         /\ Within(f[i - 1].coins, Midway(b, i - 1))
         /\ Midway(b, i - 1) \in CoinMap /\ Midway(b, i) \in CoinMap
         /\ Same(UpdateCoins(Midway(b, i - 1), Vtx[b][i], Height[b]).coins, Midway(b, i))
         /\ i # 1 => u[i - 1] = UpdateCoins(f[i - 1].coins, Vtx[b][i], Height[b]).undo
<1> DEFINE f == Connecting(C, Vtx[b], Height[b])
           m == Len(Vtx[b])
           H == History[Prev[b]]
<1>1. CheckBlock(Vtx[b]) /\ Height[b] \in Nat \ {0} /\ Prev[b] \in Node
  BY BlockFacts DEF Node
<1>2. m \in Nat \ {0} /\ Vtx[b][i] \in Transactions /\ (IsCoinBase(Vtx[b][i]) <=> i = 1)
  BY <1>1, VtxFacts
<1>3. H \in Seq(Event) /\ UnspentIn[Prev[b]] = Unspent(H)
  BY <1>1, HistoryFacts, UnspentInFacts
<1>4. C \in CoinMap /\ Within(C, Unspent(H)) /\ f[m].ok /\ u = f[m].undo
  BY <1>3, ConnectedFacts DEF ConnectedOn
<1>5. i - 1 \in 0 .. m /\ i \in 0 .. m /\ i # 0 /\ i - 1 \in Nat /\ i - 1 + 1 = i /\ m \in 1 .. m
  BY <1>2
<1>6. f[i].ok /\ f[i - 1].ok
  BY <1>1, <1>4, <1>5, ConnectingOk
<1>7. f[i - 1].coins \in CoinMap /\ Ready(f[i - 1].coins, Vtx[b][i].vin)
  BY <1>1, <1>4, <1>5, <1>6, ConnectingCoins
<1>8. Within(f[i - 1].coins, Midway(b, i - 1))
  BY <1>1, <1>3, <1>4, <1>5, <1>6, ConnectingWithin DEF Midway
<1>9. i # 1 => u[i - 1] = UpdateCoins(f[i - 1].coins, Vtx[b][i], Height[b]).undo
  <2> SUFFICES ASSUME i # 1 PROVE u[i - 1] = UpdateCoins(f[i - 1].coins, Vtx[b][i], Height[b]).undo
    OBVIOUS
  <2>1. i \in 2 .. m
    BY <1>2
  <2>2. f[m].undo[i - 1] = UpdateCoins(f[i - 1].coins, Vtx[b][i], Height[b]).undo
    <3>1. /\ C \in CoinMap /\ CheckBlock(Vtx[b]) /\ Height[b] \in Nat
          /\ m \in 1 .. Len(Vtx[b]) /\ Connecting(C, Vtx[b], Height[b])[m].ok
      BY <1>1, <1>4, <1>5
    <3>2. \A k \in 1 .. Len(Vtx[b]) : Connecting(C, Vtx[b], Height[b])[k].ok =>
            \A j \in 2 .. k : Connecting(C, Vtx[b], Height[b])[k].undo[j - 1] =
              UpdateCoins(Connecting(C, Vtx[b], Height[b])[j - 1].coins, Vtx[b][j], Height[b]).undo
      <4> HIDE DEF m, f
      <4> TAKE k \in 1 .. Len(Vtx[b])
      <4> HAVE Connecting(C, Vtx[b], Height[b])[k].ok
      <4> TAKE j \in 2 .. k
      <4> QED
        BY <3>1, ConnectingUndoAt, SMTT(40)
    <3> QED
      BY <2>1, <3>1, <3>2, Zenon
  <2> HIDE DEF f, m
  <2> QED
    BY <1>4, <2>2
<1>10. /\ Midway(b, i - 1) \in CoinMap /\ Midway(b, i) \in CoinMap
       /\ Same(UpdateCoins(Midway(b, i - 1), Vtx[b][i], Height[b]).coins, Midway(b, i))
  <2> DEFINE k == i - 1
  <2>1. k \in Nat /\ k + 1 = i /\ k + 1 \in 1 .. Len(Vtx[b])
    BY <1>5
  <2> HIDE DEF k, H
  <2>2. /\ Unspent(After(H, Vtx[b], Height[b], k)) \in CoinMap
        /\ Unspent(After(H, Vtx[b], Height[b], k + 1)) \in CoinMap
        /\ Same(UpdateCoins(Unspent(After(H, Vtx[b], Height[b], k)), Vtx[b][k + 1], Height[b]).coins,
                Unspent(After(H, Vtx[b], Height[b], k + 1)))
    BY <1>1, <1>3, <2>1, AfterStep
  <2> QED
    BY <2>1, <2>2 DEF Midway, k, H
<1> QED
  BY <1>1, <1>2, <1>7, <1>8, <1>9, <1>10

\* Every block of the chain of b was connected on coins within those of its
\* chain.
Backed(b) == \A a \in Chain(b) \ {Genesis} : \E u : Honest(u, a)

\* So were those of the chain of its parent.
LEMMA BackedPrev ==
  ASSUME NEW b \in Block, Backed(b)
  PROVE  Backed(Prev[b]) /\ (b # Genesis => \E u : Honest(u, b))
  BY ChainFacts DEF Backed

\* Each transaction of a history finds its inputs unspent, and none is its own.
Covered(H) ==
  \A k \in 1 .. Len(H) : \A i \in 1 .. Len(H[k].tx.vin) : LET o == H[k].tx.vin[i] IN
    /\ o.hash # H[k].tx.hash
    /\ Val(Unspent(SubSeq(H, 1, k - 1))[o.hash].vout, o.n) # Spent

\* One more transaction that finds its inputs.
LEMMA CoveredStep ==
  ASSUME NEW H \in Seq(Event), Covered(H), NEW e \in Event, Ready(Unspent(H), e.tx.vin),
         \A i \in 1 .. Len(e.tx.vin) : e.tx.vin[i].hash # e.tx.hash
  PROVE  Covered(Append(H, e))
<1> DEFINE G == Append(H, e)
           m == Len(H)
<1>1. m \in Nat /\ Len(G) = m + 1 /\ G[m + 1] = e /\ \A k \in 1 .. m : G[k] = H[k]
  OBVIOUS
<1>2. ASSUME NEW k \in 1 .. m + 1 PROVE SubSeq(G, 1, k - 1) = SubSeq(H, 1, k - 1)
  OBVIOUS
<1>3. SubSeq(H, 1, m + 1 - 1) = H
  OBVIOUS
<1> HIDE DEF G, m
<1>4. ASSUME NEW k \in 1 .. Len(G), NEW i \in 1 .. Len(G[k].tx.vin)
      PROVE  /\ G[k].tx.vin[i].hash # G[k].tx.hash
             /\ Val(Unspent(SubSeq(G, 1, k - 1))[G[k].tx.vin[i].hash].vout, G[k].tx.vin[i].n) # Spent
  <2>1. CASE k = m + 1
    <3>1. SubSeq(G, 1, k - 1) = H /\ G[k] = e
      BY <1>1, <1>2, <1>3, <2>1
    <3> QED
      BY <3>1 DEF Ready
  <2>2. CASE k # m + 1
    <3>1. k \in 1 .. m /\ k \in 1 .. m + 1
      BY <1>1, <2>2
    <3>2. SubSeq(G, 1, k - 1) = SubSeq(H, 1, k - 1) /\ G[k] = H[k]
      BY <1>1, <1>2, <3>1
    <3> QED
      BY <3>1, <3>2 DEF Covered, m
  <2> QED
    BY <2>1, <2>2
<1> QED
  BY <1>4 DEF Covered, G

\* In such a history nothing is spent twice.
LEMMA CoveredOnce ==
  ASSUME NEW H \in Seq(Event), Covered(H), NEW j \in 1 .. Len(H), NEW k \in 1 .. Len(H), j < k,
         NEW i \in 1 .. Len(H[j].tx.vin), Spends(H[k].tx, H[j].tx.vin[i].hash, H[j].tx.vin[i].n)
  PROVE  \E m \in j + 1 .. k - 1 : H[m].tx.hash = H[j].tx.vin[i].hash
<1> DEFINE o == H[j].tx.vin[i]
           t == o.hash
           n == o.n
           P == SubSeq(H, 1, k - 1)
<1>0. H[j] \in Event
  OBVIOUS
<1>1. H[j].tx \in Transactions
  BY <1>0 DEF Event
<1>2. H[j].tx.vin \in Seq(OutPoints)
  BY <1>1 DEF Transactions
<1>a. o \in OutPoints
  BY <1>2
<1>3. t \in TxId /\ n \in Place /\ o = [hash |-> t, n |-> n]
  <2> HIDE DEF o
  <2> QED
    BY <1>a DEF OutPoints
<1>4. P \in Seq(Event) /\ Len(P) = k - 1 /\ \A l \in 1 .. k - 1 : P[l] = H[l]
  OBVIOUS
<1>5. PICK q \in 1 .. Len(H[k].tx.vin) : H[k].tx.vin[q] = [hash |-> t, n |-> n]
  BY DEF Spends
<1>b. H[k].tx.vin[q].hash = t /\ H[k].tx.vin[q].n = n
  BY <1>5
<1>6. Val(Unspent(P)[t].vout, n) # Spent
  <2>1. Val(Unspent(P)[H[k].tx.vin[q].hash].vout, H[k].tx.vin[q].n) # Spent
    BY DEF Covered
  <2> QED
    BY <1>b, <2>1
<1>7. H[j].tx.hash # t
  BY DEF Covered
<1>8. Spends(H[j].tx, t, n)
  BY <1>3 DEF Spends
<1>9. j \in 1 .. k - 1 /\ k - 1 \in Nat /\ j \in Nat
  OBVIOUS
<1> HIDE DEF P, o, t, n
<1>10. Unspent(P)[t].vout # <<>>
  BY <1>6 DEF Val
<1>11. PICK c : LastWith(P, t, c)
  <2>1. Creators(P, t) # {}
    BY <1>3, <1>4, <1>10, UnspentFacts
  <2> QED
    BY <1>4, <2>1, LastExists, Zenon
<1>12. c \in 1 .. k - 1 /\ P[c].tx.hash = t
  BY <1>4, <1>11, LastExists, ZenonT(30)
<1>13. Val(Left(P, c), n) # Spent
  BY <1>3, <1>4, <1>6, <1>11, UnspentFacts
<1>14. ~Gone(P, c, n)
  BY <1>3, <1>4, <1>12, <1>13, LeftFacts
<1>15. \A l \in c + 1 .. k - 1 : ~Spends(P[l].tx, t, n)
  BY <1>4, <1>12, <1>14 DEF Gone
<1>16. P[j] = H[j] /\ P[c] = H[c]
  BY <1>4, <1>9, <1>12
<1>17. ~(j \in c + 1 .. k - 1) /\ c # j
  BY <1>7, <1>8, <1>12, <1>15, <1>16
<1>18. c \in j + 1 .. k - 1
  BY <1>9, <1>12, <1>17
<1> QED
  BY <1>12, <1>16, <1>18 DEF t, o

\* The history of a chain whose blocks found their coins is such a history.
LEMMA ChainCovered == \A b \in Node : Backed(b) => Covered(History[b])
<1> DEFINE T == {b \in Node : Backed(b) => Covered(History[b])}
<1>1. NULL \in T
  <2>1. Len(History[NULL]) = 0
    BY HistoryFacts
  <2> QED
    BY <2>1 DEF Covered, Node
<1>2. ASSUME NEW b \in Block, Prev[b] \in T PROVE b \in T
  <2>1. b \in Node
    BY DEF Node
  <2>2. SUFFICES ASSUME Backed(b) PROVE Covered(History[b])
    BY <2>1
  <2>3. CASE b = Genesis
    <3>1. Len(History[b]) = 0
      BY <2>3, HistoryFacts
    <3> QED
      BY <3>1 DEF Covered
  <2>4. CASE b # Genesis
    <3>0. PICK u : Honest(u, b)
      BY <2>2, <2>4, BackedPrev
    <3>1. PICK C \in CoinMap : ConnectedOn(C, u, b)
      BY <3>0 DEF Honest
    <3> DEFINE m == Len(Vtx[b])
               H(k) == After(History[Prev[b]], Vtx[b], Height[b], k)
               S == {k \in 0 .. m : Covered(H(k))}
    <3>2. CheckBlock(Vtx[b]) /\ Height[b] \in Nat \ {0} /\ Prev[b] \in Node
      BY <2>4, BlockFacts DEF Node
    <3>3. m \in Nat
      BY <3>2, VtxFacts
    <3>4. History[Prev[b]] \in Seq(Event)
      BY <3>2, HistoryFacts
    <3>5. H(0) = History[Prev[b]] /\ \A k \in 0 .. m : H(k) \in Seq(Event)
      BY <3>2, <3>4, AfterFacts
    <3>6. \A k \in 1 .. m : /\ [tx |-> Vtx[b][k], nHeight |-> Height[b]] \in Event
                            /\ H(k) = Append(H(k - 1), [tx |-> Vtx[b][k], nHeight |-> Height[b]])
      BY <3>2, <3>4, AfterFacts, ZenonT(40)
    <3>7. ASSUME NEW k \in 1 .. m PROVE Ready(Unspent(H(k - 1)), Vtx[b][k].vin)
      <4> DEFINE D == Connecting(C, Vtx[b], Height[b])[k - 1].coins
      <4>1. /\ Vtx[b][k] \in Transactions /\ D \in CoinMap /\ Ready(D, Vtx[b][k].vin)
            /\ Within(D, Midway(b, k - 1)) /\ Midway(b, k - 1) \in CoinMap
        BY <2>4, <3>1, ConnectedOnFacts
      <4> HIDE DEF D
      <4>2. Ready(Midway(b, k - 1), Vtx[b][k].vin)
        BY <4>1, WithinReady
      <4> QED
        BY <4>2 DEF Midway
    <3>8. H(m) = History[b]
      BY <2>4, HistoryFacts
    <3> HIDE DEF H
    <3>9. 0 \in S
      <4>1. Covered(H(0))
        BY <1>2, <2>2, <3>5, BackedPrev
      <4> QED
        BY <3>3, <4>1
    <3>10. ASSUME NEW k \in Nat, k + 1 <= m, k \in S PROVE k + 1 \in S
      <4> DEFINE e == [tx |-> Vtx[b][k + 1], nHeight |-> Height[b]]
      <4>1. k + 1 \in 1 .. m /\ k + 1 - 1 = k /\ k + 1 \in 0 .. m /\ k \in 0 .. m
        BY <3>3, <3>10
      <4>2. e \in Event /\ H(k + 1) = Append(H(k), e) /\ H(k) \in Seq(Event) /\ Covered(H(k))
        BY <3>5, <3>6, <3>10, <4>1
      <4>3. Ready(Unspent(H(k)), Vtx[b][k + 1].vin)
        BY <3>7, <4>1
      <4>4. \A i \in 1 .. Len(Vtx[b][k + 1].vin) : Vtx[b][k + 1].vin[i].hash # Vtx[b][k + 1].hash
        BY <2>4, <4>1, HashAssumption
      <4>5. e.tx = Vtx[b][k + 1]
        OBVIOUS
      <4> HIDE DEF e
      <4>6. Covered(Append(H(k), e))
        BY <4>2, <4>3, <4>4, <4>5, CoveredStep
      <4> QED
        BY <4>1, <4>2, <4>6
    <3> HIDE DEF S, m
    <3>11. m \in S
      <4>1. \A k \in 0 .. m : k \in S
        BY <3>3, <3>9, <3>10, InductTo
      <4> QED
        BY <3>3, <4>1
    <3> QED
      BY <3>8, <3>11 DEF S
  <2> QED
    BY <2>3, <2>4
<1> HIDE DEF T
<1>3. \A b \in Node : b \in T
  BY <1>1, <1>2, TreeInduct
<1> QED
  BY <1>3 DEF T

\* No hash comes twice.
Distinct(H) == \A j, k \in 1 .. Len(H) : H[j].tx.hash = H[k].tx.hash => j = k

\* What a transaction of such a history spends was created before it.
LEMMA CoveredCreated ==
  ASSUME NEW H \in Seq(Event), Covered(H), NEW k \in 1 .. Len(H), NEW i \in 1 .. Len(H[k].tx.vin)
  PROVE  \E c \in 1 .. k - 1 : /\ H[c].tx.hash = H[k].tx.vin[i].hash
                               /\ H[k].tx.vin[i].n \in 1 .. Len(H[c].tx.vout)
<1> DEFINE o == H[k].tx.vin[i]
           P == SubSeq(H, 1, k - 1)
<1>1. H[k] \in Event
  OBVIOUS
<1>2. H[k].tx.vin \in Seq(OutPoints)
  BY <1>1 DEF Event, Transactions
<1>3. o \in OutPoints
  BY <1>2
<1>4. o.hash \in TxId /\ o.n \in Place
  <2> HIDE DEF o
  <2> QED
    BY <1>3 DEF OutPoints
<1>5. P \in Seq(Event) /\ Len(P) = k - 1 /\ \A l \in 1 .. k - 1 : P[l] = H[l]
  OBVIOUS
<1>6. Val(Unspent(P)[o.hash].vout, o.n) # Spent
  BY DEF Covered
<1> HIDE DEF P, o
<1>7. Unspent(P)[o.hash].vout # <<>>
  BY <1>6 DEF Val
<1>8. PICK c : LastWith(P, o.hash, c)
  <2>1. Creators(P, o.hash) # {}
    BY <1>4, <1>5, <1>7, UnspentFacts
  <2> QED
    BY <1>5, <2>1, LastExists, Zenon
<1>9. c \in 1 .. Len(P) /\ P[c].tx.hash = o.hash
  BY <1>5, <1>8 DEF LastWith, Creators
<1>10. Val(Left(P, c), o.n) # Spent
  BY <1>4, <1>5, <1>6, <1>8, UnspentFacts
<1>11. Val(P[c].tx.vout, o.n) # Spent
  BY <1>4, <1>5, <1>9, <1>10, LeftFacts
<1>12. o.n \in 1 .. Len(P[c].tx.vout)
  BY <1>11 DEF Val
<1>13. c \in 1 .. k - 1 /\ P[c] = H[c]
  BY <1>5, <1>9
<1> QED
  BY <1>9, <1>12, <1>13 DEF o

\* If no hash comes twice either, an output is unspent if and only if it was
\* created and no transaction at all spends it.
LEMMA UnspentMeans ==
  ASSUME NEW H \in Seq(Event), Covered(H), Distinct(H), NEW c \in 1 .. Len(H), NEW n \in Place
  PROVE  /\ \A j \in 1 .. Len(H) : Spends(H[j].tx, H[c].tx.hash, n) =>
              Val(Unspent(H)[H[c].tx.hash].vout, n) = Spent
         /\ (\A j \in 1 .. Len(H) : ~Spends(H[j].tx, H[c].tx.hash, n)) =>
              Val(Unspent(H)[H[c].tx.hash].vout, n) = Val(H[c].tx.vout, n)
<1> DEFINE t == H[c].tx.hash
<1>1. H[c] \in Event
  OBVIOUS
<1>2. t \in TxId
  BY <1>1, TxFacts DEF Event
<1>3. LastWith(H, t, c)
  <2>1. \A j \in Creators(H, t) : j = c
    BY DEF Creators, Distinct
  <2>2. c \in Creators(H, t) /\ c \in Nat
    BY DEF Creators
  <2> HIDE DEF t
  <2> QED
    BY <2>1, <2>2 DEF LastWith
<1>4. /\ Val(Unspent(H)[t].vout, n) = Val(Left(H, c), n)
      /\ Val(Left(H, c), n) = IF Gone(H, c, n) THEN Spent ELSE Val(H[c].tx.vout, n)
  <2>1. \A k : LastWith(H, t, k) => Val(Unspent(H)[t].vout, n) = Val(Left(H, k), n)
    <3> HIDE DEF t
    <3> QED
      BY <1>2, UnspentFacts
  <2> QED
    BY <1>3, <2>1, LeftFacts
<1>5. ASSUME NEW j \in 1 .. Len(H), Spends(H[j].tx, t, n) PROVE Gone(H, c, n)
  <2>1. PICK i \in 1 .. Len(H[j].tx.vin) : H[j].tx.vin[i] = [hash |-> t, n |-> n]
    BY <1>5 DEF Spends
  <2>2. PICK d \in 1 .. j - 1 : H[d].tx.hash = H[j].tx.vin[i].hash
    BY CoveredCreated
  <2>3. H[d].tx.hash = H[c].tx.hash
    BY <2>1, <2>2
  <2>4. d \in 1 .. Len(H) /\ Len(H) \in Nat
    OBVIOUS
  <2>5. d = c
    BY <2>3, <2>4 DEF Distinct
  <2>6. j \in c + 1 .. Len(H)
    BY <2>4, <2>5
  <2> QED
    BY <1>5, <2>6 DEF Gone
<1>6. Gone(H, c, n) => \E j \in 1 .. Len(H) : Spends(H[j].tx, t, n)
  <2>1. \A j \in c + 1 .. Len(H) : j \in 1 .. Len(H)
    OBVIOUS
  <2> QED
    BY <2>1 DEF Gone
<1> QED
  BY <1>4, <1>5, <1>6

=============================================================================
